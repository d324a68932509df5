------------------------------ MODULE Chunking ------------------------------
(***************************************************************************)
(* chunk_text: cutting a lesson's text into pieces for retrieval. The      *)
(* splitting is a function of the text; the packing is the loop of         *)
(* _assemble, one step per part.                                           *)
(*                                                                         *)
(* A text is a sequence of words. Of a word the code sees whether it ends  *)
(* a sentence and whether a blank line or a space is before it; `place`    *)
(* tells the words of a text apart.                                        *)
(***************************************************************************)
EXTENDS Naturals, Sequences, FiniteSets, FiniteSetsExt

CONSTANTS
  MaxWords,       \* bound: words of a text
  Ceilings,       \* values of max_tokens
  Budgets         \* values of overlap_tokens

ASSUME LimitsAssumption ==
  MaxWords \in Nat /\ Ceilings \subseteq Nat \ {0} /\ Budgets \subseteq Nat

VARIABLES
  text,           \* the stripped content; empty when there is none
  max_tokens,
  overlap_tokens,
  placed,         \* how many words _assemble has taken, with whole parts
  current,        \* the chunk being filled
  chunks          \* those that are finished

vars == <<text, max_tokens, overlap_tokens, placed, current, chunks>>

(* A text of n words begins the way a paragraph does.                      *)
Text(n, stops, breaks) ==
  [i \in 1 .. n |-> [place |-> i, stop |-> i \in stops, para |-> i = 1 \/ i \in breaks]]
TextsOf(n) ==
  {Text(n, stops, breaks) : stops \in SUBSET (1 .. n), breaks \in SUBSET (2 .. n)}
Texts == UNION {TextsOf(n) : n \in 0 .. MaxWords}

(* round(1.3 * words), half to even, and at least 1.                       *)
Tokens(words) ==
  LET tenths == 13 * words
      down == tenths \div 10
      up == tenths % 10 > 5 \/ (tenths % 10 = 5 /\ down % 2 = 1)
  IN Max({1, IF up THEN down + 1 ELSE down})

EstimateTokens(words) == Tokens(Len(words))

(* Words cut before every place in `starts`: from where to where the piece *)
(* reaches that place i falls into.                                        *)
From(starts, i) == Max({1} \cup {s \in starts : s <= i})
UpTo(words, starts, i) == Min({Len(words)} \cup {s - 1 : s \in {t \in starts : t > i}})
PieceAt(words, starts, i) == SubSeq(words, From(starts, i), UpTo(words, starts, i))

(* Where paragraphs and sentences begin.                                   *)
Paragraphs(words) == {i \in DOMAIN words : words[i].para}
Sentences(words) == {i \in DOMAIN words : i = 1 \/ words[i - 1].stop}

(* The sentences of paragraphs, and those cut every so many words.         *)
SentencesToFit(words) == Paragraphs(words) \cup Sentences(words)
PerChunk(max) == Max({1, (10 * max) \div 13})
SplitWords(words, max) ==
  {i \in DOMAIN words : \E n \in 0 .. Len(words) :
     i = From(SentencesToFit(words), i) + n * PerChunk(max)}

(* Mutant: the paragraph that fits is not kept whole.                      *)
AlwaysSentences(words, max) ==
  LET TooBig(starts, i) == EstimateTokens(PieceAt(words, starts, i)) > max IN
  SentencesToFit(words)
    \cup {i \in SplitWords(words, max) : TooBig(SentencesToFit(words), i)}

(* Where the parts begin: a paragraph, if it does not fit also each of its *)
(* sentences, and if that does not fit either each cut inside.             *)
SplitToFit(words, max) ==
  LET TooBig(starts, i) == EstimateTokens(PieceAt(words, starts, i)) > max IN
  Paragraphs(words)
    \cup {i \in SentencesToFit(words) : TooBig(Paragraphs(words), i)}
    \cup {i \in SplitWords(words, max) :
            TooBig(Paragraphs(words), i) /\ TooBig(SentencesToFit(words), i)}

(* Only the first piece of a paragraph starts one; a space continues it.   *)
(* Mutant: every part is joined with a blank line.                         *)
BlankLine(words, i) == TRUE
Separator(words, i) == i \in Paragraphs(words)

(* The part that begins at place i, and the separator before it.           *)
PartAt(words, max, i) ==
  LET piece == PieceAt(words, SplitToFit(words, max), i) IN
  [k \in DOMAIN piece |->
     IF k = 1 THEN [piece[k] EXCEPT !.para = Separator(words, i)] ELSE piece[k]]

Init ==
  /\ text \in Texts
  /\ max_tokens \in Ceilings /\ overlap_tokens \in Budgets
  /\ placed = 0 /\ current = <<>> /\ chunks = <<>>

(* The sentences of a chunk from place i on, joined with spaces.           *)
LastSentences(previous, i) ==
  [k \in 1 .. Len(previous) - i + 1 |->
     LET word == previous[i + k - 1] IN
     IF i + k - 1 \in Sentences(previous) THEN [word EXCEPT !.para = FALSE] ELSE word]

(* Mutant: the budget is not checked.                                      *)
TailFitsCeiling(tail, part) == EstimateTokens(tail \o part) <= max_tokens
TailFits(tail, part) ==
  /\ EstimateTokens(tail) <= overlap_tokens
  /\ EstimateTokens(tail \o part) <= max_tokens

(* As many whole sentences as fit, from the end backwards, and the part.   *)
Kept(previous, part) ==
  {i \in Sentences(previous) :
     overlap_tokens > 0
       /\ \A j \in Sentences(previous) :
            j >= i => TailFits(LastSentences(previous, j), part)}

StartNext(previous, part) ==
  LastSentences(previous, Min({Len(previous) + 1} \cup Kept(previous, part))) \o part

(* Mutant: sizes added up instead of measured joined.                      *)
SumExceeds(words, part) ==
  EstimateTokens(words) + EstimateTokens(part) > max_tokens
Exceeds(words, part) == EstimateTokens(words \o part) > max_tokens

Assemble ==
  /\ placed < Len(text)
  /\ LET part == PartAt(text, max_tokens, placed + 1) IN
     /\ IF current # <<>> /\ Exceeds(current, part)
        THEN /\ chunks' = Append(chunks, current)
             /\ current' = StartNext(current, part)
        ELSE /\ current' = current \o part
             /\ UNCHANGED chunks
     /\ placed' = placed + Len(part)
  /\ UNCHANGED <<text, max_tokens, overlap_tokens>>

(* Mutants: a chunk also when there is none; it is forgotten.              *)
FinishAnyway ==
  /\ placed = Len(text)
  /\ chunks' = Append(chunks, current) /\ current' = <<>>
  /\ UNCHANGED <<text, max_tokens, overlap_tokens, placed>>
FinishWithoutLast ==
  /\ placed = Len(text) /\ current # <<>>
  /\ current' = <<>>
  /\ UNCHANGED <<text, max_tokens, overlap_tokens, placed, chunks>>

Finish ==
  /\ placed = Len(text) /\ current # <<>>
  /\ chunks' = Append(chunks, current) /\ current' = <<>>
  /\ UNCHANGED <<text, max_tokens, overlap_tokens, placed>>

Next == Assemble \/ Finish
Spec == Init /\ [][Next]_vars

(***************************************************************************)
(* Properties                                                              *)
(***************************************************************************)
Returned == placed = Len(text) /\ current = <<>>
First(k) == chunks[k][1].place
Final(k) == chunks[k][Len(chunks[k])].place
Repeated(k) == IF k = 1 THEN 0 ELSE Final(k - 1) - First(k) + 1

(* Words keep their shape, and no chunk is empty.                          *)
TypeOK ==
  /\ text \in Texts /\ max_tokens \in Ceilings /\ overlap_tokens \in Budgets
  /\ placed \in 0 .. Len(text)
  /\ \A chunk \in Range(chunks) : chunk # <<>>
  /\ \A words \in Range(chunks) \cup {current} :
       \A i \in DOMAIN words :
         /\ words[i].place \in DOMAIN text
         /\ words[i].stop = text[words[i].place].stop
         /\ words[i].para \in BOOLEAN

(* "The one promise the whole thing makes": no chunk exceeds the ceiling,  *)
(* with any overlap and however the sizes round.                           *)
WithinCeiling ==
  \A chunk \in Range(chunks) \cup {current} :
    chunk # <<>> => EstimateTokens(chunk) <= max_tokens

(* test_no_text_is_lost, for any overlap: a chunk is a run of the text,    *)
(* begins no later than where the one before it stopped and goes further,  *)
(* and together they are the whole text.                                   *)
NothingLost ==
  /\ \A k \in DOMAIN chunks :
       /\ \A i \in DOMAIN chunks[k] : chunks[k][i].place = First(k) + i - 1
       /\ First(k) <= (IF k = 1 THEN 1 ELSE Final(k - 1) + 1)
       /\ k > 1 => Final(k) > Final(k - 1)
  /\ Returned /\ text # <<>> =>
       chunks # <<>> /\ Final(Len(chunks)) = Len(text)

(* _start_next: what a chunk repeats of the one before costs no more than  *)
(* the budget and is whole sentences of it.                                *)
OverlapWithinBudget ==
  \A k \in 2 .. Len(chunks) : Repeated(k) > 0 =>
    /\ Tokens(Repeated(k)) <= overlap_tokens
    /\ First(k) > First(k - 1) => text[First(k) - 1].stop

(* The words around place i between two neighbouring `starts`.             *)
Around(i, starts) ==
  {j \in DOMAIN text : \A s \in starts : s > Min({i, j}) => s > Max({i, j})}
ParagraphAround(i) == Around(i, {j \in DOMAIN text : text[j].para})
SentenceAround(i) ==
  Around(i, {j \in DOMAIN text : text[j].para \/ text[j - 1].stop})

(* chunk_text, "each a fallback for the one before": a text that is cut at *)
(* all does not fit the ceiling whole ("text that already fits comes back  *)
(* as a single chunk, untouched"), and neither does a paragraph that is    *)
(* cut inside, nor a sentence.                                             *)
CutsWhereItMust ==
  \A k \in 1 .. Len(chunks) - 1 :
    LET cut == Final(k) IN
    /\ EstimateTokens(text) > max_tokens
    /\ ~text[cut + 1].para
         => Tokens(Cardinality(ParagraphAround(cut))) > max_tokens
    /\ ~text[cut + 1].para /\ ~text[cut].stop
         => Tokens(Cardinality(SentenceAround(cut))) > max_tokens

(* _split_to_fit, a citation must not show text the source does not        *)
(* contain: what a chunk does not repeat stands in it with the blank lines *)
(* it has in the lesson.                                                   *)
BlankLinesKept ==
  \A k \in DOMAIN chunks : \A i \in DOMAIN chunks[k] :
    i > Max({1, Repeated(k)}) => chunks[k][i] = text[chunks[k][i].place]
==============================================================================
