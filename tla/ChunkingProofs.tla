--------------------------- MODULE ChunkingProofs ---------------------------
(***************************************************************************)
(* What chunk_text promises, for texts of any length, any ceiling and any  *)
(* overlap: no chunk exceeds the ceiling, nothing is lost, the overlap     *)
(* keeps its budget, and cuts fall where they must.                        *)
(***************************************************************************)
EXTENDS Chunking, Integers, FiniteSetTheorems, WellFoundedInduction, TLAPS

(***************************************************************************)
(* Least and greatest numbers                                              *)
(***************************************************************************)
(* A set of numbers that is not empty has a least one, which `Min` chooses.*)
LEMMA MinIsThere ==
  ASSUME NEW S \in SUBSET Nat, S # {}
  PROVE  Min(S) \in S /\ \A y \in S : Min(S) <= y
<1>1. \E x \in S : \A y \in S : ~(<<y, x>> \in OpToRel(<, Nat))
  BY NatLessThanWellFounded, WFMin
<1>2. PICK x \in S : \A y \in S : ~(y < x)
  BY <1>1 DEF OpToRel
<1>3. \A y \in S : x <= y
  BY <1>2
<1> QED BY <1>3 DEF Min

(* A bounded set of numbers that is not empty has a greatest one.          *)
LEMMA MaxIsThere ==
  ASSUME NEW n \in Nat, NEW S \in SUBSET (0 .. n), S # {}
  PROVE  Max(S) \in S /\ \A y \in S : Max(S) >= y
<1> DEFINE Below == {n - s : s \in S}
<1>1. Below \in SUBSET Nat /\ Below # {}
  <2>1. \A s \in S : n - s \in Nat
    OBVIOUS
  <2> QED BY <2>1
<1>2. PICK x \in Below : \A y \in Below : x <= y
  <2> HIDE DEF Below
  <2> QED BY <1>1, MinIsThere
<1>3. PICK s \in S : x = n - s
  OBVIOUS
<1>4. \A y \in S : n - y \in Below
  OBVIOUS
<1>5. \A y \in S : s >= y
  <2> SUFFICES ASSUME NEW y \in S PROVE s >= y
    OBVIOUS
  <2>1. n - s <= n - y
    BY <1>2, <1>3, <1>4
  <2> QED BY <2>1
<1> QED BY <1>5 DEF Max

(***************************************************************************)
(* Estimates                                                               *)
(***************************************************************************)
Rounded(words) ==
  LET tenths == 13 * words
      down == tenths \div 10
      up == tenths % 10 > 5 \/ (tenths % 10 = 5 /\ down % 2 = 1)
  IN IF up THEN down + 1 ELSE down

(* A larger number of words never costs less: rounding half to even does   *)
(* not change the order, although it keeps estimates from adding up.       *)
LEMMA RoundedGrows ==
  ASSUME NEW m \in Nat, NEW n \in Nat, m <= n
  PROVE  Rounded(m) \in Nat /\ Rounded(m) <= Rounded(n)
BY DEF Rounded

(* The words _split_words takes at a time, when more than one, fit.        *)
LEMMA RoundedFits ==
  ASSUME NEW m \in Nat, NEW max \in Nat \ {0}, m <= (10 * max) \div 13
  PROVE  Rounded(m) <= max
BY DEF Rounded

(* `max(1, x)`.                                                            *)
LEMMA GreaterOfOne ==
  ASSUME NEW x \in Nat
  PROVE  Max({1, x}) = IF x > 1 THEN x ELSE 1
BY DEF Max

(* An estimate is the rounded one, or 1.                                   *)
LEMMA TokensRounded ==
  ASSUME NEW m \in Nat
  PROVE  Tokens(m) = IF Rounded(m) > 1 THEN Rounded(m) ELSE 1
<1>1. Rounded(m) \in Nat
  BY RoundedGrows
<1>2. Tokens(m) = Max({1, Rounded(m)})
  BY DEF Tokens, Rounded
<1> QED BY <1>1, <1>2, GreaterOfOne

(* An estimate is a number, never zero, and grows with the words.          *)
LEMMA TokensGrow ==
  ASSUME NEW m \in Nat, NEW n \in Nat, m <= n
  PROVE  Tokens(m) \in Nat \ {0} /\ Tokens(m) <= Tokens(n)
BY RoundedGrows, TokensRounded

(* _split_words takes one word at a time at least, so its loop ends.       *)
LEMMA StepForward ==
  ASSUME NEW max \in Nat \ {0}
  PROVE  /\ PerChunk(max) \in Nat \ {0} /\ (10 * max) \div 13 \in Nat
         /\ PerChunk(max) = IF (10 * max) \div 13 > 1 THEN (10 * max) \div 13 ELSE 1
<1>1. (10 * max) \div 13 \in Nat
  OBVIOUS
<1> QED BY <1>1, GreaterOfOne DEF PerChunk

(* A cut of _split_words fits every ceiling, that of one token too.        *)
LEMMA CutsFit ==
  ASSUME NEW max \in Nat \ {0}, NEW m \in Nat, m <= PerChunk(max)
  PROVE  Tokens(m) <= max
<1>1. (10 * max) \div 13 \in Nat
  BY StepForward
<1>2. PerChunk(max) = IF (10 * max) \div 13 > 1 THEN (10 * max) \div 13 ELSE 1
  BY StepForward
<1>3. CASE m <= (10 * max) \div 13
  BY <1>1, <1>2, <1>3, RoundedFits, TokensRounded, RoundedGrows
<1>4. CASE m = 1
  <2>1. Rounded(1) = 1
    BY DEF Rounded
  <2> QED BY <1>1, <1>2, <1>4, <2>1, TokensRounded
<1>5. CASE m = 0
  <2>1. Rounded(0) = 0
    BY DEF Rounded
  <2> QED BY <1>1, <1>2, <1>5, <2>1, TokensRounded
<1> QED BY <1>1, <1>2, <1>3, <1>4, <1>5

(***************************************************************************)
(* Pieces                                                                  *)
(***************************************************************************)
(* The piece that reaches i has no start inside, begins at one, and ends   *)
(* where the next one starts.                                              *)
LEMMA PieceBounds ==
  ASSUME NEW words, Len(words) \in Nat, NEW starts \in SUBSET (1 .. Len(words)),
         NEW i \in 1 .. Len(words)
  PROVE  /\ From(starts, i) \in {1} \cup starts
         /\ From(starts, i) \in 1 .. i
         /\ \A s \in starts : s <= i => s <= From(starts, i)
         /\ UpTo(words, starts, i) \in i .. Len(words)
         /\ \A s \in starts : s > i => s > UpTo(words, starts, i)
         /\ \/ UpTo(words, starts, i) = Len(words)
            \/ UpTo(words, starts, i) + 1 \in starts
<1> DEFINE A == {1} \cup {s \in starts : s <= i}
           B == {Len(words)} \cup {s - 1 : s \in {t \in starts : t > i}}
<1>1. Max(A) \in A /\ \A y \in A : Max(A) >= y
  <2>1. \A s \in A : s \in 0 .. Len(words)
    OBVIOUS
  <2>2. A \in SUBSET (0 .. Len(words)) /\ A # {}
    BY <2>1
  <2> HIDE DEF A
  <2> QED BY <2>2, MaxIsThere
<1>2. Min(B) \in B /\ \A y \in B : Min(B) <= y
  <2>1. \A s \in {t \in starts : t > i} : s - 1 \in Nat
    OBVIOUS
  <2>2. B \in SUBSET Nat /\ B # {}
    BY <2>1
  <2> HIDE DEF B
  <2> QED BY <2>2, MinIsThere
<1>3. \A y \in B : y \in i .. Len(words)
  OBVIOUS
<1>4. \A s \in starts : s > i => s - 1 \in B
  OBVIOUS
<1>5. From(starts, i) = Max(A) /\ UpTo(words, starts, i) = Min(B)
  BY DEF From, UpTo
<1>6. \A s \in starts : s > i => s > Min(B)
  <2> SUFFICES ASSUME NEW s \in starts, s > i PROVE s > Min(B)
    OBVIOUS
  <2>1. Min(B) <= s - 1 /\ Min(B) \in Nat
    BY <1>2, <1>3, <1>4
  <2> HIDE DEF B
  <2> QED BY <2>1
<1>7. Min(B) = Len(words) \/ Min(B) + 1 \in starts
  <2>1. CASE Min(B) = Len(words)
    BY <2>1
  <2>2. CASE Min(B) # Len(words)
    <3>1. PICK s \in starts : s > i /\ Min(B) = s - 1
      BY <1>2, <2>2
    <3> HIDE DEF B
    <3> QED BY <3>1
  <2> QED BY <2>1, <2>2
<1>8. Max(A) \in {1} \cup starts /\ Max(A) \in 1 .. i
  <2>1. \A s \in A : s \in {1} \cup starts /\ s \in 1 .. i
    OBVIOUS
  <2> HIDE DEF A
  <2> QED BY <1>1, <2>1
<1>9. \A s \in starts : s <= i => s <= Max(A)
  BY <1>1
<1> HIDE DEF A, B
<1> QED BY <1>2, <1>3, <1>5, <1>6, <1>7, <1>8, <1>9

(* A piece that begins at a start begins there.                            *)
LEMMA OwnStart ==
  ASSUME NEW words, Len(words) \in Nat, NEW starts \in SUBSET (1 .. Len(words)),
         NEW i \in starts
  PROVE  From(starts, i) = i
<1>1. i \in 1 .. Len(words)
  OBVIOUS
<1>2. From(starts, i) \in 1 .. i /\ i <= From(starts, i)
  <2>1. i <= i
    BY <1>1
  <2> QED BY <1>1, <2>1, PieceBounds
<1> QED BY <1>1, <1>2

(* Every place in a piece is in the same piece.                            *)
LEMMA SamePiece ==
  ASSUME NEW words, Len(words) \in Nat, NEW starts \in SUBSET (1 .. Len(words)),
         NEW i \in 1 .. Len(words),
         NEW j \in From(starts, i) .. UpTo(words, starts, i)
  PROVE  /\ j \in 1 .. Len(words)
         /\ From(starts, j) = From(starts, i)
         /\ UpTo(words, starts, j) = UpTo(words, starts, i)
         /\ PieceAt(words, starts, j) = PieceAt(words, starts, i)
<1> DEFINE a == From(starts, i)
           b == UpTo(words, starts, i)
           c == From(starts, j)
           d == UpTo(words, starts, j)
<1>1. /\ a \in {1} \cup starts /\ a \in 1 .. i /\ b \in i .. Len(words)
      /\ \A s \in starts : s <= i => s <= a
      /\ \A s \in starts : s > i => s > b
      /\ b = Len(words) \/ b + 1 \in starts
  BY PieceBounds
<1>2. j \in 1 .. Len(words)
  BY <1>1
<1>3. /\ c \in {1} \cup starts /\ c \in 1 .. j /\ d \in j .. Len(words)
      /\ \A s \in starts : s <= j => s <= c
      /\ \A s \in starts : s > j => s > d
      /\ d = Len(words) \/ d + 1 \in starts
  BY <1>2, PieceBounds
<1> HIDE DEF a, b, c, d
<1>4. j \in a .. b
  BY DEF a, b
<1>5. a = c
  BY <1>1, <1>3, <1>4
<1>6. b = d
  BY <1>1, <1>3, <1>4
<1> QED BY <1>2, <1>5, <1>6 DEF a, b, c, d, PieceAt

(* What a piece of a text is made of.                                      *)
LEMMA PieceShape ==
  ASSUME NEW W, NEW words \in Seq(W), NEW starts \in SUBSET (1 .. Len(words)),
         NEW i \in 1 .. Len(words)
  PROVE  /\ PieceAt(words, starts, i) \in Seq(W)
         /\ Len(PieceAt(words, starts, i))
              = UpTo(words, starts, i) - From(starts, i) + 1
         /\ \A k \in 1 .. Len(PieceAt(words, starts, i)) :
              PieceAt(words, starts, i)[k] = words[From(starts, i) + k - 1]
<1>1. /\ From(starts, i) \in 1 .. i
      /\ UpTo(words, starts, i) \in i .. Len(words)
  <2>1. Len(words) \in Nat
    OBVIOUS
  <2> QED BY <2>1, PieceBounds
<1> QED BY <1>1 DEF PieceAt

(***************************************************************************)
(* Texts and the places where their parts begin                            *)
(***************************************************************************)
Word == [place : Nat, stop : BOOLEAN, para : BOOLEAN]

(* A word by its fields.                                                   *)
LEMMA WordFields ==
  ASSUME NEW p \in Nat, NEW s \in BOOLEAN, NEW a \in BOOLEAN
  PROVE  /\ [place |-> p, stop |-> s, para |-> a] \in Word
         /\ [place |-> p, stop |-> s, para |-> a].place = p
         /\ [place |-> p, stop |-> s, para |-> a].para = a
BY DEF Word

(* A text is a sequence of words, each knows its place, and the first one  *)
(* begins a paragraph.                                                     *)
LEMMA TextShape ==
  ASSUME NEW words \in Texts
  PROVE  /\ words \in Seq(Word) /\ Len(words) \in Nat
         /\ DOMAIN words = 1 .. Len(words)
         /\ \A i \in 1 .. Len(words) : words[i] \in Word /\ words[i].place = i
         /\ Len(words) > 0 => words[1].para
<1>0. PICK n \in 0 .. MaxWords : words \in TextsOf(n)
  BY DEF Texts
<1>1. PICK S \in SUBSET (1 .. n), P \in SUBSET (2 .. n) : words = Text(n, S, P)
  BY <1>0 DEF TextsOf
<1>2. n \in Nat
  BY LimitsAssumption
<1>3. \A i \in 1 .. n : words[i] = [place |-> i, stop |-> i \in S,
                                   para |-> i = 1 \/ i \in P]
  BY <1>1 DEF Text
<1>4. \A i \in 1 .. n : words[i] \in Word /\ words[i].place = i /\ (i = 1 => words[i].para)
  <2> SUFFICES ASSUME NEW i \in 1 .. n
               PROVE  words[i] \in Word /\ words[i].place = i /\ (i = 1 => words[i].para)
    OBVIOUS
  <2> DEFINE stop == i \in S
             para == i = 1 \/ i \in P
  <2>1. i \in Nat /\ stop \in BOOLEAN /\ para \in BOOLEAN /\ (i = 1 => para)
    BY <1>2
  <2>2. words[i] = [place |-> i, stop |-> stop, para |-> para]
    BY <1>3
  <2> HIDE DEF stop, para
  <2>3. words[i] \in Word /\ words[i].place = i /\ words[i].para = para
    BY <2>1, <2>2, WordFields
  <2> QED BY <2>1, <2>3
<1>5. n > 0 => words[1].para
  BY <1>2, <1>4
<1>6. words \in [1 .. n -> Word]
  BY <1>1, <1>4 DEF Text
<1>7. words \in Seq(Word) /\ Len(words) = n /\ DOMAIN words = 1 .. n
  BY <1>2, <1>6
<1> QED BY <1>2, <1>4, <1>5, <1>7

TooBig(words, max, starts, i) == EstimateTokens(PieceAt(words, starts, i)) > max

(* The three levels of _split_to_fit are nested, and a place where a part  *)
(* begins is one of a level whose pieces are tried only when those of the  *)
(* level above it are too big.                                             *)
LEMMA Levels ==
  ASSUME NEW words \in Texts, NEW max \in Nat \ {0}
  PROVE  /\ Paragraphs(words) \in SUBSET (1 .. Len(words))
         /\ SentencesToFit(words) \in SUBSET (1 .. Len(words))
         /\ SplitWords(words, max) \in SUBSET (1 .. Len(words))
         /\ SplitToFit(words, max) \in SUBSET (1 .. Len(words))
         /\ Paragraphs(words) \subseteq SentencesToFit(words)
         /\ \A i \in 1 .. Len(words) :
              i \in SplitToFit(words, max) <=>
                \/ i \in Paragraphs(words)
                \/ /\ i \in SentencesToFit(words)
                   /\ TooBig(words, max, Paragraphs(words), i)
                \/ /\ i \in SplitWords(words, max)
                   /\ TooBig(words, max, Paragraphs(words), i)
                   /\ TooBig(words, max, SentencesToFit(words), i)
<1>1. DOMAIN words = 1 .. Len(words)
  BY TextShape
<1>2. /\ Paragraphs(words) \in SUBSET (1 .. Len(words))
      /\ SentencesToFit(words) \in SUBSET (1 .. Len(words))
      /\ SplitWords(words, max) \in SUBSET (1 .. Len(words))
      /\ Paragraphs(words) \subseteq SentencesToFit(words)
  BY <1>1 DEF Paragraphs, Sentences, SentencesToFit, SplitWords
<1> QED BY <1>2 DEF SplitToFit, TooBig

(* The size of a piece is that of the places from its start to its end.    *)
LEMMA PieceSize ==
  ASSUME NEW words \in Texts, NEW max, NEW starts \in SUBSET (1 .. Len(words)),
         NEW i \in 1 .. Len(words)
  PROVE  EstimateTokens(PieceAt(words, starts, i))
           = Tokens(UpTo(words, starts, i) - From(starts, i) + 1)
BY TextShape, PieceShape DEF EstimateTokens

(* Two places with no start after the first and up to the second are in    *)
(* the same piece.                                                         *)
LEMMA NothingBetween ==
  ASSUME NEW words \in Texts, NEW starts \in SUBSET (1 .. Len(words)),
         NEW i \in 1 .. Len(words), NEW j \in i .. Len(words),
         \A s \in starts : ~(i < s /\ s <= j)
  PROVE  /\ From(starts, j) = From(starts, i)
         /\ UpTo(words, starts, j) = UpTo(words, starts, i)
         /\ PieceAt(words, starts, j) = PieceAt(words, starts, i)
<1>1. Len(words) \in Nat
  BY TextShape
<1>2. /\ From(starts, i) \in 1 .. i
      /\ UpTo(words, starts, i) \in i .. Len(words)
      /\ UpTo(words, starts, i) = Len(words) \/ UpTo(words, starts, i) + 1 \in starts
  BY <1>1, PieceBounds
<1>3. j \in From(starts, i) .. UpTo(words, starts, i)
  BY <1>1, <1>2
<1> QED BY <1>1, <1>3, SamePiece

(* n steps of at least one place go n places at least.                     *)
LEMMA StepsAdd ==
  ASSUME NEW n \in Nat, NEW per \in Nat \ {0}
  PROVE  /\ n * per \in Nat /\ n <= n * per
         /\ (n + 1) * per = n * per + per
OBVIOUS

(* The part that begins at i reaches no further than the piece of a level  *)
(* whose own start is i, when that level's next start is a cut too.        *)
LEMMA NoFurther ==
  ASSUME NEW words \in Texts, NEW max \in Nat \ {0},
         NEW i \in SplitToFit(words, max),
         NEW b \in i .. Len(words),
         b = Len(words) \/ b + 1 \in SplitToFit(words, max)
  PROVE  UpTo(words, SplitToFit(words, max), i) \in i .. b
<1> DEFINE cuts == SplitToFit(words, max)
<1>1. Len(words) \in Nat /\ cuts \in SUBSET (1 .. Len(words)) /\ i \in 1 .. Len(words)
  BY TextShape, Levels
<1> HIDE DEF cuts
<1>2. /\ UpTo(words, cuts, i) \in i .. Len(words)
      /\ \A s \in cuts : s > i => s > UpTo(words, cuts, i)
  BY <1>1, PieceBounds
<1>3. UpTo(words, cuts, i) \in i .. b
  BY <1>1, <1>2 DEF cuts
<1> QED BY <1>3 DEF cuts

(* When the sentence from i on is tried, the place after it is a cut.      *)
LEMMA SentenceEnds ==
  ASSUME NEW words \in Texts, NEW max \in Nat \ {0}, NEW i \in 1 .. Len(words),
         TooBig(words, max, Paragraphs(words), i)
  PROVE  \/ UpTo(words, SentencesToFit(words), i) = Len(words)
         \/ UpTo(words, SentencesToFit(words), i) + 1 \in SplitToFit(words, max)
<1> DEFINE P == Paragraphs(words)
           S == SentencesToFit(words)
           b == UpTo(words, S, i)
<1>1. /\ Len(words) \in Nat /\ P \in SUBSET (1 .. Len(words))
      /\ S \in SUBSET (1 .. Len(words)) /\ P \subseteq S
  BY TextShape, Levels
<1> HIDE DEF P, S
<1>2. /\ b \in i .. Len(words)
      /\ b = Len(words) \/ b + 1 \in S
      /\ \A s \in S : s > i => s > b
  BY <1>1, PieceBounds
<1>3. ASSUME b # Len(words), b + 1 \notin P
      PROVE  TooBig(words, max, P, b + 1)
  <2>1. b + 1 \in i .. Len(words)
    BY <1>1, <1>2, <1>3
  <2>2. \A s \in P : ~(i < s /\ s <= b + 1)
    <3> SUFFICES ASSUME NEW s \in P, i < s, s <= b + 1 PROVE FALSE
      OBVIOUS
    <3>1. s \in 1 .. Len(words) /\ s # b + 1 /\ s > b
      BY <1>1, <1>2, <1>3
    <3> QED BY <1>1, <1>2, <3>1
  <2>3. PieceAt(words, P, b + 1) = PieceAt(words, P, i)
    BY <1>1, <2>1, <2>2, NothingBetween
  <2> QED BY <2>3 DEF TooBig, P
<1>4. ASSUME b # Len(words) PROVE b + 1 \in SplitToFit(words, max)
  <2>1. b + 1 \in 1 .. Len(words) /\ b + 1 \in S
    BY <1>1, <1>2, <1>4
  <2>2. b + 1 \in P \/ (b + 1 \in S /\ TooBig(words, max, P, b + 1))
    BY <1>3, <1>4, <2>1
  <2> HIDE DEF b
  <2> QED BY <2>1, <2>2, Levels DEF P, S
<1> QED BY <1>4 DEF b, S

(* Of a sentence that is too big, no part is larger than _split_words cuts.*)
LEMMA WordsEnd ==
  ASSUME NEW words \in Texts, NEW max \in Nat \ {0},
         NEW i \in SplitWords(words, max),
         i \in SplitToFit(words, max),
         TooBig(words, max, Paragraphs(words), i),
         TooBig(words, max, SentencesToFit(words), i)
  PROVE  UpTo(words, SplitToFit(words, max), i) - i + 1 <= PerChunk(max)
<1> DEFINE P == Paragraphs(words)
           S == SentencesToFit(words)
           a == From(S, i)
           b == UpTo(words, S, i)
           per == PerChunk(max)
           j == i + per
           e == UpTo(words, SplitToFit(words, max), i)
<1>1. /\ Len(words) \in Nat /\ P \in SUBSET (1 .. Len(words))
      /\ S \in SUBSET (1 .. Len(words)) /\ P \subseteq S
      /\ i \in 1 .. Len(words) /\ DOMAIN words = 1 .. Len(words)
  BY TextShape, Levels
<1>2. per \in Nat \ {0}
  BY StepForward
<1>3. PICK n \in 0 .. Len(words) : i = a + n * per
  BY DEF SplitWords
<1> HIDE DEF P, S, per
<1>4. /\ a \in 1 .. i /\ b \in i .. Len(words)
      /\ \A s \in S : s > i => s > b
  BY <1>1, PieceBounds
<1>5. b = Len(words) \/ b + 1 \in SplitToFit(words, max)
  BY <1>1, SentenceEnds DEF P, S
<1>6. e \in i .. b
  BY <1>4, <1>5, NoFurther
<1>7. CASE j > b
  BY <1>1, <1>2, <1>4, <1>6, <1>7 DEF per
<1>8. CASE j <= b
  <2>1. j \in i .. Len(words)
    BY <1>1, <1>2, <1>4, <1>8
  <2>2. \A s \in S : ~(i < s /\ s <= j)
    <3> SUFFICES ASSUME NEW s \in S, i < s, s <= j PROVE FALSE
      OBVIOUS
    <3>1. s \in 1 .. Len(words) /\ s > b
      BY <1>1, <1>4
    <3> QED BY <1>1, <1>2, <1>4, <1>8, <3>1
  <2>3. \A s \in P : ~(i < s /\ s <= j)
    BY <1>1, <2>2
  <2>4. From(S, j) = a /\ PieceAt(words, S, j) = PieceAt(words, S, i)
    BY <1>1, <2>1, <2>2, NothingBetween
  <2>5. PieceAt(words, P, j) = PieceAt(words, P, i)
    BY <1>1, <2>1, <2>3, NothingBetween
  <2>6. j = a + (n + 1) * per /\ n + 1 \in 0 .. Len(words)
    <3>1. /\ n * per \in Nat /\ (n + 1) * per = n * per + per /\ n \in Nat
          /\ (n + 1) * per \in Nat /\ n + 1 <= (n + 1) * per
      BY <1>2, StepsAdd
    <3> DEFINE np == n * per
               nnp == (n + 1) * per
    <3>2. i = a + np /\ np \in Nat /\ nnp = np + per /\ nnp \in Nat /\ n + 1 <= nnp
      BY <1>3, <3>1
    <3> HIDE DEF np, nnp
    <3>3. j = a + nnp /\ n + 1 \in 0 .. Len(words)
      BY <1>1, <1>2, <1>4, <2>1, <3>1, <3>2
    <3> QED BY <3>3 DEF nnp
  <2>7. j \in SplitWords(words, max)
    <3>1. j \in DOMAIN words
      BY <1>1, <2>1
    <3>2. \E m \in 0 .. Len(words) : j = From(S, j) + m * per
      BY <2>4, <2>6
    <3> QED BY <3>1, <3>2 DEF SplitWords, S, per
  <2>8. j \in SplitToFit(words, max)
    <3>1. TooBig(words, max, P, j) /\ TooBig(words, max, S, j)
      BY <2>4, <2>5 DEF TooBig, P, S
    <3>2. j \in 1 .. Len(words)
      BY <1>1, <2>1
    <3> HIDE DEF j
    <3> QED BY <2>7, <3>1, <3>2, Levels DEF P, S
  <2>9. j - 1 \in i .. Len(words) /\ (j - 1) + 1 \in SplitToFit(words, max)
    <3>1. (j - 1) + 1 = j
      BY <1>1, <1>2
    <3> QED BY <1>1, <1>2, <2>1, <2>8, <3>1
  <2>10. e \in i .. j - 1
    BY <2>9, NoFurther
  <2> QED BY <1>1, <1>2, <2>10 DEF per
<1> QED BY <1>1, <1>2, <1>4, <1>7, <1>8

(* Every part that _split_to_fit returns fits the ceiling.                 *)
LEMMA EachPartFits ==
  ASSUME NEW words \in Texts, NEW max \in Nat \ {0},
         NEW i \in SplitToFit(words, max)
  PROVE  Tokens(UpTo(words, SplitToFit(words, max), i) - i + 1) <= max
<1> DEFINE P == Paragraphs(words)
           S == SentencesToFit(words)
           e == UpTo(words, SplitToFit(words, max), i)
<1>1. /\ Len(words) \in Nat /\ P \in SUBSET (1 .. Len(words))
      /\ S \in SUBSET (1 .. Len(words)) /\ P \subseteq S
      /\ P \subseteq SplitToFit(words, max)
      /\ i \in 1 .. Len(words)
      /\ SplitToFit(words, max) \in SUBSET (1 .. Len(words))
  BY TextShape, Levels
<1>2. e \in i .. Len(words)
  BY <1>1, PieceBounds
(* A piece of a level with its start at i that fits and ends at a cut.     *)
<1>3. ASSUME NEW starts \in SUBSET (1 .. Len(words)), i \in starts,
             ~TooBig(words, max, starts, i),
             \/ UpTo(words, starts, i) = Len(words)
             \/ UpTo(words, starts, i) + 1 \in SplitToFit(words, max)
      PROVE  Tokens(e - i + 1) <= max
  <2> DEFINE b == UpTo(words, starts, i)
  <2>1. From(starts, i) = i /\ b \in i .. Len(words)
    BY <1>1, <1>3, PieceBounds, OwnStart
  <2>2. EstimateTokens(PieceAt(words, starts, i)) = Tokens(b - i + 1)
    BY <1>1, <2>1, PieceSize
  <2>3. e \in i .. b
    BY <1>3, <2>1, NoFurther
  <2> HIDE DEF b, e
  <2>4. /\ e - i + 1 \in Nat /\ b - i + 1 \in Nat /\ e - i + 1 <= b - i + 1
    BY <1>1, <2>1, <2>3
  <2>5. Tokens(b - i + 1) \in Nat /\ Tokens(e - i + 1) \in Nat
        /\ Tokens(e - i + 1) <= Tokens(b - i + 1)
    BY <2>4, TokensGrow
  <2>6. ~(Tokens(b - i + 1) > max)
    BY <1>3, <2>2 DEF TooBig
  <2> QED BY <2>5, <2>6
<1>4. ASSUME ~TooBig(words, max, P, i) PROVE Tokens(e - i + 1) <= max
  <2>1. i \in P
    BY <1>1, <1>4, Levels
  <2>2. UpTo(words, P, i) = Len(words) \/ UpTo(words, P, i) + 1 \in SplitToFit(words, max)
    BY <1>1, PieceBounds
  <2> HIDE DEF P, e
  <2> QED BY <1>1, <1>3, <1>4, <2>1, <2>2
<1>5. ASSUME TooBig(words, max, P, i), ~TooBig(words, max, S, i)
      PROVE  Tokens(e - i + 1) <= max
  <2>1. i \in S
    BY <1>1, <1>5, Levels
  <2>2. UpTo(words, S, i) = Len(words) \/ UpTo(words, S, i) + 1 \in SplitToFit(words, max)
    BY <1>1, <1>5, SentenceEnds
  <2> HIDE DEF S, e
  <2> QED BY <1>1, <1>3, <1>5, <2>1, <2>2
<1>6. ASSUME TooBig(words, max, P, i), TooBig(words, max, S, i)
      PROVE  Tokens(e - i + 1) <= max
  <2>1. i \in SplitWords(words, max)
    <3>1. CASE i \in S
      <4>1. From(S, i) = i
        BY <1>1, <3>1, OwnStart
      <4>2. i = From(S, i) + 0 * PerChunk(max)
        <5>1. PerChunk(max) \in Nat
          BY StepForward
        <5> HIDE DEF S
        <5> QED BY <1>1, <4>1, <5>1
      <4>3. 0 \in 0 .. Len(words) /\ i \in DOMAIN words
        BY <1>1, TextShape
      <4> QED BY <4>2, <4>3 DEF SplitWords
    <3>2. CASE i \notin S
      BY <1>1, <3>2, Levels
    <3> QED BY <3>1, <3>2
  <2>2. e - i + 1 <= PerChunk(max)
    BY <1>6, <2>1, WordsEnd
  <2>3. e - i + 1 \in Nat
    BY <1>1, <1>2
  <2> HIDE DEF e
  <2> QED BY <2>2, <2>3, CutsFit
<1> QED BY <1>4, <1>5, <1>6

(* A part is the run of the text from its place to the next cut, with the  *)
(* blank line the text has before it, and fits the ceiling.                *)
LEMMA PartIsText ==
  ASSUME NEW words \in Texts, NEW max \in Nat \ {0},
         NEW i \in SplitToFit(words, max),
         NEW part, part = PartAt(words, max, i)
  PROVE  /\ part \in Seq(Word)
         /\ Len(part) \in 1 .. Len(words) - i + 1
         /\ \A k \in 1 .. Len(part) : part[k] = words[i + k - 1]
         /\ Tokens(Len(part)) <= max
         /\ \/ i + Len(part) = Len(words) + 1
            \/ i + Len(part) \in SplitToFit(words, max)
<1> DEFINE cuts == SplitToFit(words, max)
           piece == PieceAt(words, cuts, i)
           e == UpTo(words, cuts, i)
<1>1. /\ Len(words) \in Nat /\ cuts \in SUBSET (1 .. Len(words))
      /\ i \in 1 .. Len(words) /\ words \in Seq(Word) /\ i \in cuts
  BY TextShape, Levels
<1>2. Tokens(e - i + 1) <= max
  BY EachPartFits
<1> HIDE DEF cuts
<1>3. From(cuts, i) = i
  BY <1>1, OwnStart
<1>4. /\ e \in i .. Len(words)
      /\ e = Len(words) \/ e + 1 \in cuts
  BY <1>1, PieceBounds
<1>5. /\ piece \in Seq(Word) /\ Len(piece) = e - i + 1
      /\ \A k \in 1 .. Len(piece) : piece[k] = words[i + k - 1]
  <2>1. /\ piece \in Seq(Word) /\ Len(piece) = e - From(cuts, i) + 1
        /\ \A k \in 1 .. Len(piece) : piece[k] = words[From(cuts, i) + k - 1]
    BY <1>1, PieceShape
  <2> QED BY <1>3, <2>1
<1> HIDE DEF piece, e
<1>6. DOMAIN piece = 1 .. Len(piece) /\ Len(piece) \in 1 .. Len(words) - i + 1
  BY <1>1, <1>4, <1>5
<1>7. [piece[1] EXCEPT !.para = Separator(words, i)] = piece[1]
  <2>1. piece[1] = words[i] /\ piece[1] \in Word
    BY <1>1, <1>5, <1>6
  <2>2. Separator(words, i) = (words[i].para = TRUE)
    <3>1. DOMAIN words = 1 .. Len(words) /\ words[i] \in Word
      BY <1>1
    <3> QED BY <1>1, <3>1 DEF Separator, Paragraphs, Word
  <2>3. Separator(words, i) = piece[1].para
    <3>1. piece[1].para \in BOOLEAN
      BY <2>1 DEF Word
    <3> QED BY <2>1, <2>2, <3>1
  <2>4. [piece[1] EXCEPT !.para = piece[1].para] = piece[1]
    BY <2>1 DEF Word
  <2> QED BY <2>3, <2>4, Zenon
<1>8. part = [k \in DOMAIN piece |->
                IF k = 1 THEN [piece[k] EXCEPT !.para = Separator(words, i)] ELSE piece[k]]
  BY DEF PartAt, piece, cuts
<1>9. \A k \in 1 .. Len(piece) : part[k] = piece[k]
  BY <1>6, <1>7, <1>8
<1>10. part \in [1 .. Len(piece) -> Word]
  <2>1. \A k \in 1 .. Len(piece) : part[k] \in Word
    BY <1>5, <1>9
  <2> QED BY <1>6, <1>8, <2>1
<1>11. part \in Seq(Word) /\ Len(part) = Len(piece)
  BY <1>6, <1>10
<1>12. i + Len(part) = e + 1
  BY <1>1, <1>4, <1>5, <1>11
<1> QED BY <1>1, <1>2, <1>4, <1>5, <1>6, <1>9, <1>11, <1>12 DEF cuts, e

(* The tail of a chunk that is repeated has its words and sentence ends.   *)
LEMMA TailShape ==
  ASSUME NEW previous \in Seq(Word), NEW m \in 1 .. Len(previous) + 1
  PROVE  /\ LastSentences(previous, m) \in Seq(Word)
         /\ Len(LastSentences(previous, m)) = Len(previous) - m + 1
         /\ \A k \in 1 .. Len(previous) - m + 1 :
              /\ LastSentences(previous, m)[k].place = previous[m + k - 1].place
              /\ LastSentences(previous, m)[k].stop = previous[m + k - 1].stop
<1> DEFINE tail == LastSentences(previous, m)
           size == Len(previous) - m + 1
<1>1. size \in Nat /\ Len(previous) \in Nat
  OBVIOUS
<1>2. ASSUME NEW k \in 1 .. size
      PROVE  /\ tail[k] \in Word
             /\ tail[k].place = previous[m + k - 1].place
             /\ tail[k].stop = previous[m + k - 1].stop
  <2> DEFINE word == previous[m + k - 1]
  <2>1. word \in Word
    <3>1. m + k - 1 \in 1 .. Len(previous)
      BY <1>1, <1>2
    <3> QED BY <3>1
  <2>2. tail[k] = IF m + k - 1 \in Sentences(previous)
                  THEN [word EXCEPT !.para = FALSE] ELSE word
    BY <1>2 DEF LastSentences
  <2> HIDE DEF word, tail
  <2>3. /\ [word EXCEPT !.para = FALSE] \in Word
        /\ [word EXCEPT !.para = FALSE].place = word.place
        /\ [word EXCEPT !.para = FALSE].stop = word.stop
    BY <2>1 DEF Word
  <2> QED BY <2>1, <2>2, <2>3 DEF word
<1>3. tail \in [1 .. size -> Word]
  <2>1. tail = [k \in 1 .. size |-> tail[k]]
    BY DEF LastSentences
  <2> HIDE DEF tail, size
  <2> QED BY <1>2, <2>1
<1>4. tail \in Seq(Word) /\ Len(tail) = size
  <2> HIDE DEF tail, size
  <2> QED BY <1>1, <1>3
<1> QED BY <1>2, <1>4

(* _start_next repeats whole sentences, within both limits, or nothing.    *)
LEMMA StartNextShape ==
  ASSUME NEW previous \in Seq(Word), NEW part
  PROVE  \E m \in 1 .. Len(previous) + 1 :
           /\ StartNext(previous, part) = LastSentences(previous, m) \o part
           /\ m # Len(previous) + 1 =>
                /\ m \in Sentences(previous)
                /\ TailFits(LastSentences(previous, m), part)
<1> DEFINE S == {Len(previous) + 1} \cup Kept(previous, part)
<1>1. DOMAIN previous = 1 .. Len(previous) /\ Len(previous) \in Nat
  OBVIOUS
<1>2. Kept(previous, part) \subseteq 1 .. Len(previous)
  BY <1>1 DEF Kept, Sentences
<1>3. S \in SUBSET Nat /\ S # {}
  BY <1>1, <1>2
<1>4. Min(S) \in S
  <2> HIDE DEF S
  <2> QED BY <1>3, MinIsThere
<1>5. Min(S) \in 1 .. Len(previous) + 1
  BY <1>1, <1>2, <1>4
<1>6. Min(S) # Len(previous) + 1 =>
        /\ Min(S) \in Sentences(previous)
        /\ TailFits(LastSentences(previous, Min(S)), part)
  <2> SUFFICES ASSUME Min(S) # Len(previous) + 1
               PROVE  /\ Min(S) \in Sentences(previous)
                      /\ TailFits(LastSentences(previous, Min(S)), part)
    OBVIOUS
  <2>1. Min(S) \in Kept(previous, part)
    BY <1>4
  <2>2. Min(S) >= Min(S)
    BY <1>1, <1>5
  <2> HIDE DEF S
  <2> QED BY <2>1, <2>2 DEF Kept
<1>7. StartNext(previous, part) = LastSentences(previous, Min(S)) \o part
  BY DEF StartNext
<1> QED BY <1>5, <1>6, <1>7

(***************************************************************************)
(* The inductive invariant: what holds of each chunk, the one being filled *)
(* included, and of each with the one before it.                           *)
(***************************************************************************)
Begin(c) == c[1].place
End(c) == c[1].place + Len(c) - 1

(* The words of the text from place b on, and so with their blank lines.   *)
Matches(c, b) ==
  \A i \in 1 .. Len(c) : c[i].place = b + i - 1 /\ c[i].stop = text[c[i].place].stop
Copies(c, b) == \A i \in 1 .. Len(c) : c[i] = text[b + i - 1]

(* A run of the text that fits the ceiling.                                *)
Run(c) ==
  /\ c \in Seq(Word) /\ Len(c) # 0
  /\ Begin(c) \in Nat \ {0} /\ End(c) <= Len(text)
  /\ Matches(c, Begin(c))
  /\ Tokens(Len(c)) <= max_tokens

(* From word `repeated` on, the chunk is the text, its blank lines too.    *)
AsWritten(c, repeated) ==
  \A i \in 1 .. Len(c) : i > 1 /\ i > repeated => c[i] = text[c[i].place]

Opens(c) == Begin(c) = 1 /\ AsWritten(c, 0)

(* What a chunk owes to the one before, and why there is a cut.            *)
Follows(a, c) ==
  /\ Begin(c) <= End(a) + 1 /\ End(c) > End(a)
  /\ Begin(c) <= End(a) =>
       /\ Tokens(End(a) - Begin(c) + 1) <= overlap_tokens
       /\ Begin(c) > Begin(a) => text[Begin(c) - 1].stop
  /\ AsWritten(c, End(a) - Begin(c) + 1)
  /\ Tokens(Len(text)) > max_tokens
  /\ End(a) + 1 \in SplitToFit(text, max_tokens)

Settings ==
  /\ text \in Texts /\ max_tokens \in Ceilings /\ overlap_tokens \in Budgets
  /\ placed \in 0 .. Len(text)
  /\ placed = Len(text) \/ placed + 1 \in SplitToFit(text, max_tokens)

Finished(done) ==
  /\ done \in Seq(Seq(Word))
  /\ \A k \in 1 .. Len(done) : Run(done[k])
  /\ Len(done) # 0 => Opens(done[1])
  /\ \A k \in 2 .. Len(done) : Follows(done[k - 1], done[k])

Filling(done, last, n) ==
  IF last = <<>>
  THEN \/ n = 0 /\ done = <<>>
       \/ n = Len(text) /\ done # <<>> /\ End(done[Len(done)]) = n
  ELSE /\ Run(last) /\ End(last) = n
       /\ done = <<>> => Opens(last)
       /\ done # <<>> => Follows(done[Len(done)], last)

Packed == Settings /\ Finished(chunks) /\ Filling(chunks, current, placed)

(* The first place of a text begins a part.                                *)
LEMMA StartsThere ==
  ASSUME NEW words \in Texts, NEW max \in Nat \ {0}
  PROVE  Len(words) = 0 \/ 1 \in SplitToFit(words, max)
<1>1. ASSUME Len(words) # 0 PROVE 1 \in Paragraphs(words)
  <2>1. Len(words) \in Nat /\ DOMAIN words = 1 .. Len(words) /\ words[1].para
    BY <1>1, TextShape
  <2> QED BY <1>1, <2>1 DEF Paragraphs
<1> QED BY <1>1 DEF SplitToFit

(* Before the first part there are no chunks.                              *)
LEMMA PackedAtFirst == Init => Packed
<1> SUFFICES ASSUME Init PROVE Packed
  OBVIOUS
<1>1. /\ text \in Texts /\ max_tokens \in Ceilings /\ overlap_tokens \in Budgets
      /\ placed = 0 /\ current = <<>> /\ chunks = <<>> /\ max_tokens \in Nat \ {0}
  BY LimitsAssumption DEF Init
<1>2. Len(text) \in Nat /\ (Len(text) = 0 \/ 1 \in SplitToFit(text, max_tokens))
  BY <1>1, TextShape, StartsThere
<1>3. Settings
  BY <1>1, <1>2 DEF Settings
<1>4. Finished(chunks) /\ Filling(chunks, current, placed)
  BY <1>1 DEF Finished, Filling
<1> QED BY <1>3, <1>4 DEF Packed

(* A part of the text fits behind a run that begins at place b, or that is *)
(* empty.                                                                  *)
FitsBehind(c, part, b) ==
  /\ c \in Seq(Word) /\ part \in Seq(Word) /\ Len(part) # 0
  /\ b \in Nat \ {0} /\ b + Len(c) + Len(part) - 1 <= Len(text)
  /\ Matches(c, b) /\ Copies(part, b + Len(c))
  /\ Tokens(Len(c \o part)) <= max_tokens

(* Adding a part to what is there so far.                                  *)
LEMMA RunGoesOn ==
  ASSUME text \in Texts, NEW c, NEW part, NEW b, FitsBehind(c, part, b),
         NEW d, d = c \o part
  PROVE  /\ Run(d) /\ Begin(d) = b
         /\ End(d) = b + Len(c) + Len(part) - 1
         /\ AsWritten(d, Len(c))
<1>1. /\ d \in Seq(Word) /\ Len(d) = Len(c) + Len(part)
      /\ \A i \in 1 .. Len(c) : d[i] = c[i]
      /\ \A i \in 1 .. Len(d) : i > Len(c) => d[i] = part[i - Len(c)]
      /\ Len(c) \in Nat /\ Len(part) \in Nat \ {0} /\ Len(text) \in Nat
      /\ b \in Nat \ {0} /\ b + Len(c) + Len(part) - 1 <= Len(text)
      /\ Matches(c, b) /\ Copies(part, b + Len(c)) /\ Tokens(Len(d)) <= max_tokens
  BY TextShape DEF FitsBehind
<1>2. \A i \in 1 .. Len(d) : i > Len(c) => d[i] = text[b + i - 1]
  <2> SUFFICES ASSUME NEW i \in 1 .. Len(d), i > Len(c) PROVE d[i] = text[b + i - 1]
    OBVIOUS
  <2>1. i - Len(c) \in 1 .. Len(part) /\ b + Len(c) + (i - Len(c)) - 1 = b + i - 1
    BY <1>1
  <2> QED BY <1>1, <2>1 DEF Copies
<1>3. \A i \in 1 .. Len(d) :
        /\ d[i].place = b + i - 1
        /\ d[i].stop = text[d[i].place].stop
        /\ i > Len(c) => d[i] = text[d[i].place]
  <2> SUFFICES ASSUME NEW i \in 1 .. Len(d)
               PROVE  /\ d[i].place = b + i - 1
                      /\ d[i].stop = text[d[i].place].stop
                      /\ i > Len(c) => d[i] = text[d[i].place]
    OBVIOUS
  <2>1. CASE i > Len(c)
    <3>1. b + i - 1 \in 1 .. Len(text)
      BY <1>1
    <3>2. text[b + i - 1].place = b + i - 1
      BY <3>1, TextShape
    <3> QED BY <1>2, <2>1, <3>2
  <2>2. CASE ~(i > Len(c))
    <3>1. i \in 1 .. Len(c)
      BY <1>1, <2>2
    <3>2. d[i] = c[i]
      BY <1>1, <3>1
    <3>3. c[i].place = b + i - 1 /\ c[i].stop = text[c[i].place].stop
      BY <1>1, <3>1 DEF Matches
    <3> QED BY <2>2, <3>2, <3>3
  <2> QED BY <2>1, <2>2
<1>4. Begin(d) = b
  <2>1. 1 \in 1 .. Len(d) /\ b + 1 - 1 = b
    <3>1. Len(c) \in Nat /\ Len(part) \in Nat \ {0} /\ b \in Nat
      BY <1>1
    <3>2. Len(d) = Len(c) + Len(part)
      BY <1>1
    <3> QED BY <3>1, <3>2
  <2>2. d[1].place = b + 1 - 1
    BY <1>3, <2>1
  <2> QED BY <2>1, <2>2 DEF Begin
<1>5. End(d) = b + Len(c) + Len(part) - 1
  BY <1>1, <1>4 DEF Begin, End
<1>6. Run(d)
  BY <1>1, <1>3, <1>4, <1>5 DEF Run, Matches
<1>7. AsWritten(d, Len(c))
  BY <1>3 DEF AsWritten
<1> QED BY <1>4, <1>5, <1>6, <1>7

(* The part that comes next, in a state that is packed.                    *)
LEMMA NextPart ==
  ASSUME Settings, placed < Len(text),
         NEW part, part = PartAt(text, max_tokens, placed + 1)
  PROVE  /\ part \in Seq(Word) /\ Len(part) \in 1 .. Len(text) - placed
         /\ Copies(part, placed + 1)
         /\ Tokens(Len(part)) <= max_tokens
         /\ \/ placed + Len(part) = Len(text)
            \/ placed + Len(part) + 1 \in SplitToFit(text, max_tokens)
         /\ placed \in Nat /\ Len(text) \in Nat
         /\ placed + 1 \in SplitToFit(text, max_tokens)
<1>1. /\ text \in Texts /\ max_tokens \in Nat \ {0} /\ Len(text) \in Nat
      /\ placed \in Nat /\ placed + 1 \in SplitToFit(text, max_tokens)
  <2>1. text \in Texts /\ placed \in 0 .. Len(text) /\ placed # Len(text)
    BY DEF Settings
  <2>2. max_tokens \in Nat \ {0}
    BY LimitsAssumption DEF Settings
  <2>3. Len(text) \in Nat
    BY <2>1, TextShape
  <2>4. placed + 1 \in SplitToFit(text, max_tokens)
    BY <2>1 DEF Settings
  <2> QED BY <2>1, <2>2, <2>3, <2>4
<1> DEFINE i == placed + 1
<1>2. /\ i \in SplitToFit(text, max_tokens) /\ part = PartAt(text, max_tokens, i)
  BY <1>1
<1> HIDE DEF i
<1>3. /\ part \in Seq(Word)
      /\ Len(part) \in 1 .. Len(text) - i + 1
      /\ \A k \in 1 .. Len(part) : part[k] = text[i + k - 1]
      /\ Tokens(Len(part)) <= max_tokens
      /\ \/ i + Len(part) = Len(text) + 1
         \/ i + Len(part) \in SplitToFit(text, max_tokens)
  BY <1>1, <1>2, PartIsText
<1> USE DEF i
<1>4. /\ Len(part) \in 1 .. Len(text) - placed
      /\ i + Len(part) = placed + Len(part) + 1
  <2>1. /\ Len(part) \in 1 .. Len(text) - (placed + 1) + 1
        /\ placed \in Nat /\ Len(text) \in Nat
    BY <1>1, <1>3
  <2> QED BY <2>1
<1>5. Copies(part, placed + 1)
  BY <1>3 DEF Copies
<1>6. i + Len(part) = Len(text) + 1 => placed + Len(part) = Len(text)
  BY <1>1, <1>4
<1> QED BY <1>1, <1>3, <1>4, <1>5, <1>6

(* The part is added to the chunk being filled.                            *)
LEMMA PackedGrowing ==
  ASSUME Packed, placed < Len(text),
         NEW part, part = PartAt(text, max_tokens, placed + 1),
         ~(current # <<>> /\ Exceeds(current, part)),
         NEW longer, longer = current \o part
  PROVE  /\ longer # <<>> /\ Run(longer) /\ End(longer) = placed + Len(part)
         /\ chunks = <<>> => Opens(longer)
         /\ chunks # <<>> => Follows(chunks[Len(chunks)], longer)
<1>1. /\ part \in Seq(Word) /\ Len(part) \in 1 .. Len(text) - placed
      /\ Copies(part, placed + 1)
      /\ Tokens(Len(part)) <= max_tokens
      /\ placed \in Nat /\ Len(text) \in Nat /\ text \in Texts
  BY NextPart DEF Packed, Settings
<1>2. CASE current = <<>>
  <2>1. placed = 0 /\ chunks = <<>>
    BY <1>1, <1>2 DEF Packed, Filling
  <2>2. longer = part /\ Len(current) = 0 /\ current \in Seq(Word)
    BY <1>1, <1>2
  <2>3. Copies(part, 1 + Len(current))
    BY <1>1, <2>1, <2>2
  <2>4. 1 + Len(current) + Len(part) - 1 <= Len(text)
    BY <1>1, <2>1, <2>2
  <2>5. longer = current \o part /\ Tokens(Len(longer)) <= max_tokens
    BY <1>1, <2>2
  <2>6. Matches(current, 1)
    BY <2>2 DEF Matches
  <2>7. Len(part) # 0 /\ 1 \in Nat \ {0}
    BY <1>1
  <2>8. /\ Run(longer) /\ Begin(longer) = 1
        /\ End(longer) = 1 + Len(current) + Len(part) - 1
        /\ AsWritten(longer, Len(current))
    <3>1. text \in Texts /\ current \in Seq(Word) /\ part \in Seq(Word)
      BY <1>1, <2>2
    <3>2. FitsBehind(current, part, 1)
      BY <2>3, <2>4, <2>5, <2>6, <2>7, <3>1 DEF FitsBehind
    <3>3. text \in Texts /\ longer = current \o part
      BY <2>5, <3>1
    <3> QED BY <3>2, <3>3, RunGoesOn
  <2>9. End(longer) = placed + Len(part)
    BY <1>1, <2>1, <2>2, <2>8
  <2>10. AsWritten(longer, 0)
    BY <2>2, <2>8
  <2>11. longer # <<>>
    BY <1>1, <2>2
  <2> QED BY <2>1, <2>8, <2>9, <2>10, <2>11 DEF Opens
<1>3. CASE current # <<>>
  <2>1. /\ Run(current) /\ End(current) = placed
        /\ chunks = <<>> => Opens(current)
        /\ chunks # <<>> => Follows(chunks[Len(chunks)], current)
    BY <1>3 DEF Packed, Filling
  <2> DEFINE b == Begin(current)
  <2>2. /\ current \in Seq(Word) /\ b \in Nat \ {0} /\ Len(current) \in Nat \ {0}
        /\ b + Len(current) - 1 = placed
        /\ Matches(current, b)
    BY <2>1 DEF Run, Begin, End
  <2>3. Tokens(Len(longer)) <= max_tokens
    <3>1. ~(Tokens(Len(current \o part)) > max_tokens)
      BY <1>3 DEF Exceeds, EstimateTokens
    <3>2. Len(current \o part) \in Nat /\ max_tokens \in Nat
      BY <1>1, <2>2, LimitsAssumption DEF Packed, Settings
    <3>3. Tokens(Len(current \o part)) \in Nat
      BY <3>2, TokensGrow
    <3> QED BY <3>1, <3>2, <3>3
  <2> HIDE DEF b
  <2>4. Copies(part, b + Len(current))
    <3>1. b + Len(current) = placed + 1
      BY <1>1, <2>2
    <3> QED BY <1>1, <3>1
  <2>5. b + Len(current) + Len(part) - 1 <= Len(text) /\ Len(part) # 0
    BY <1>1, <2>2
  <2>6. /\ Run(longer) /\ Begin(longer) = b
        /\ End(longer) = b + Len(current) + Len(part) - 1
        /\ AsWritten(longer, Len(current))
    <3>1. /\ text \in Texts /\ current \in Seq(Word) /\ part \in Seq(Word)
          /\ b \in Nat \ {0} /\ Matches(current, b)
      BY <1>1, <2>2
    <3>2. FitsBehind(current, part, b)
      BY <2>3, <2>4, <2>5, <3>1 DEF FitsBehind
    <3>3. longer = current \o part
      OBVIOUS
    <3> QED BY <3>1, <3>2, <3>3, RunGoesOn
  <2>7. End(longer) = placed + Len(part)
    <3>1. /\ b \in Nat /\ Len(current) \in Nat /\ Len(part) \in Nat
          /\ b + Len(current) - 1 = placed
          /\ End(longer) = b + Len(current) + Len(part) - 1
      BY <1>1, <2>2, <2>6
    <3> QED BY <3>1
  <2>8. /\ longer # <<>> /\ Len(longer) \in Nat
        /\ \A i \in 1 .. Len(current) : longer[i] = current[i]
    BY <1>1, <2>2
  <2>9. ASSUME NEW r, AsWritten(current, r) PROVE AsWritten(longer, r)
    <3> SUFFICES ASSUME NEW i \in 1 .. Len(longer), i > 1, i > r
                 PROVE  longer[i] = text[longer[i].place]
      BY DEF AsWritten
    <3>1. CASE i > Len(current)
      BY <2>6, <3>1 DEF AsWritten
    <3>2. CASE ~(i > Len(current))
      <4>1. i \in 1 .. Len(current)
        BY <2>2, <3>2
      <4>2. current[i] = text[current[i].place]
        BY <2>9, <4>1 DEF AsWritten
      <4> QED BY <2>8, <4>1, <4>2
    <3> QED BY <3>1, <3>2
  <2>10. chunks = <<>> => Opens(longer)
    BY <2>1, <2>6, <2>9 DEF Opens, b
  <2>11. ASSUME NEW a, End(a) \in Int, Follows(a, current) PROVE Follows(a, longer)
    <3>1. End(longer) > End(current) /\ Begin(longer) = Begin(current)
      BY <1>1, <2>1, <2>6, <2>7 DEF b
    <3>2. End(longer) \in Int /\ End(current) \in Int
      BY <1>1, <2>1, <2>7
    <3>3. End(current) > End(a)
      BY <2>11 DEF Follows
    <3>4. End(longer) > End(a)
      BY <2>11, <3>1, <3>2, <3>3
    <3> QED BY <2>9, <2>11, <3>1, <3>4 DEF Follows
  <2>12. chunks # <<>> => Follows(chunks[Len(chunks)], longer)
    <3> SUFFICES ASSUME chunks # <<>> PROVE Follows(chunks[Len(chunks)], longer)
      OBVIOUS
    <3>1. Run(chunks[Len(chunks)])
      BY DEF Packed, Finished
    <3>2. End(chunks[Len(chunks)]) \in Int
      BY <3>1 DEF Run, Begin, End
    <3> QED BY <2>1, <2>11, <3>2
  <2> QED BY <2>6, <2>7, <2>8, <2>10, <2>12
<1> QED BY <1>2, <1>3

(* The part does not fit, and opens the next chunk behind the tail of the  *)
(* one that is finished.                                                   *)
LEMMA PackedCutting ==
  ASSUME Packed, placed < Len(text),
         NEW part, part = PartAt(text, max_tokens, placed + 1),
         current # <<>>, Exceeds(current, part),
         NEW fresh, fresh = StartNext(current, part)
  PROVE  /\ fresh # <<>> /\ Run(fresh) /\ End(fresh) = placed + Len(part)
         /\ Follows(current, fresh)
<1>1. /\ part \in Seq(Word) /\ Len(part) \in 1 .. Len(text) - placed
      /\ Copies(part, placed + 1)
      /\ Tokens(Len(part)) <= max_tokens
      /\ placed \in Nat /\ Len(text) \in Nat /\ text \in Texts
      /\ placed + 1 \in SplitToFit(text, max_tokens)
      /\ max_tokens \in Nat /\ Len(part) \in Nat \ {0}
  BY NextPart, LimitsAssumption DEF Packed, Settings
<1> DEFINE first == Begin(current)
<1>2. /\ current \in Seq(Word) /\ first \in Nat \ {0} /\ Len(current) \in Nat \ {0}
      /\ first + Len(current) - 1 = placed /\ End(current) = placed
      /\ Matches(current, first)
  BY DEF Packed, Filling, Run, Begin, End
<1>3. PICK m \in 1 .. Len(current) + 1 :
        /\ fresh = LastSentences(current, m) \o part
        /\ m # Len(current) + 1 =>
             /\ m \in Sentences(current)
             /\ TailFits(LastSentences(current, m), part)
  BY <1>2, StartNextShape
<1> DEFINE tail == LastSentences(current, m)
           b == first + m - 1
<1>4. /\ tail \in Seq(Word) /\ Len(tail) = Len(current) - m + 1
      /\ \A k \in 1 .. Len(current) - m + 1 :
           /\ tail[k].place = current[m + k - 1].place
           /\ tail[k].stop = current[m + k - 1].stop
  BY <1>2, TailShape
<1> HIDE DEF first, tail
<1>5. /\ b \in Nat \ {0} /\ m \in Nat \ {0} /\ Len(tail) \in Nat
      /\ b + Len(tail) = placed + 1
      /\ b = first + m - 1 /\ m <= Len(current) + 1
  BY <1>2, <1>4
<1> HIDE DEF b
<1>6. Matches(tail, b)
  <2> SUFFICES ASSUME NEW k \in 1 .. Len(tail)
               PROVE  tail[k].place = b + k - 1 /\ tail[k].stop = text[tail[k].place].stop
    BY DEF Matches
  <2>1. m + k - 1 \in 1 .. Len(current) /\ k \in 1 .. Len(current) - m + 1
    BY <1>2, <1>4, <1>5
  <2>2. /\ current[m + k - 1].place = first + (m + k - 1) - 1
        /\ current[m + k - 1].stop = text[current[m + k - 1].place].stop
    BY <1>2, <2>1 DEF Matches
  <2>3. first + (m + k - 1) - 1 = b + k - 1
    BY <1>2, <1>5, <2>1
  <2> QED BY <1>4, <2>1, <2>2, <2>3
<1>7. Copies(part, b + Len(tail))
  BY <1>1, <1>5
<1>8. b + Len(tail) + Len(part) - 1 <= Len(text)
  BY <1>1, <1>5
<1>9. Tokens(Len(tail \o part)) <= max_tokens
  <2>1. CASE m = Len(current) + 1
    <3>1. Len(tail) = 0
      BY <1>2, <1>4, <2>1
    <3>2. Len(tail \o part) = Len(part)
      BY <1>1, <1>4, <3>1
    <3> QED BY <1>1, <3>2
  <2>2. CASE m # Len(current) + 1
    BY <1>3, <2>2 DEF TailFits, EstimateTokens, tail
  <2> QED BY <2>1, <2>2
<1>10. /\ Run(fresh) /\ Begin(fresh) = b
       /\ End(fresh) = b + Len(tail) + Len(part) - 1
       /\ AsWritten(fresh, Len(tail))
  <2>1. FitsBehind(tail, part, b)
    BY <1>1, <1>4, <1>5, <1>6, <1>7, <1>8, <1>9 DEF FitsBehind
  <2>2. fresh = tail \o part /\ text \in Texts
    BY <1>1, <1>3 DEF tail
  <2> QED BY <2>1, <2>2, RunGoesOn
<1>11. fresh # <<>>
  BY <1>10 DEF Run
<1>12. End(fresh) = placed + Len(part) /\ End(fresh) > End(current)
  <2>1. /\ b \in Nat /\ Len(tail) \in Nat /\ Len(part) \in Nat \ {0} /\ placed \in Nat
        /\ b + Len(tail) = placed + 1 /\ End(fresh) = b + Len(tail) + Len(part) - 1
        /\ End(current) = placed
    BY <1>1, <1>2, <1>5, <1>10
  <2> QED BY <2>1
<1>13. End(current) - Begin(fresh) + 1 = Len(tail) /\ Begin(fresh) <= End(current) + 1
  <2>1. /\ b \in Nat /\ Len(tail) \in Nat /\ placed \in Nat
        /\ b + Len(tail) = placed + 1 /\ Begin(fresh) = b /\ End(current) = placed
    BY <1>1, <1>2, <1>5, <1>10
  <2> QED BY <2>1
<1>14. ASSUME Begin(fresh) <= End(current)
       PROVE  Tokens(Len(tail)) <= overlap_tokens
  <2>1. m # Len(current) + 1
    <3>1. Begin(fresh) = b /\ End(current) = placed /\ b <= placed
      BY <1>1, <1>2, <1>10, <1>14
    <3>2. Len(tail) > 0
      <4>1. /\ b \in Nat /\ Len(tail) \in Nat /\ placed \in Nat
            /\ b + Len(tail) = placed + 1 /\ b <= placed
        BY <1>1, <1>5, <3>1
      <4> QED BY <4>1
    <3> QED BY <1>2, <1>4, <3>2
  <2> QED BY <1>3, <2>1 DEF TailFits, EstimateTokens, tail
<1>15. ASSUME Begin(fresh) <= End(current), Begin(fresh) > Begin(current)
       PROVE  text[Begin(fresh) - 1].stop
  <2>1. m # Len(current) + 1 /\ m # 1
    <3>1. b > first /\ b <= placed
      BY <1>2, <1>10, <1>15 DEF first
    <3> QED BY <1>2, <1>5, <3>1
  <2>2. current[m - 1].stop
    BY <1>3, <2>1 DEF Sentences
  <2>3. m - 1 \in 1 .. Len(current)
    BY <1>2, <1>5, <2>1
  <2>4. /\ current[m - 1].place = first + (m - 1) - 1
        /\ current[m - 1].stop = text[current[m - 1].place].stop
    BY <1>2, <2>3 DEF Matches
  <2>5. first + (m - 1) - 1 = Begin(fresh) - 1
    BY <1>2, <1>5, <1>10
  <2> QED BY <2>2, <2>4, <2>5
<1>16. Tokens(Len(text)) > max_tokens
  <2>1. Tokens(Len(current \o part)) > max_tokens
    BY DEF Exceeds, EstimateTokens
  <2>2. Len(current \o part) = Len(current) + Len(part)
    BY <1>1, <1>2
  <2>3. Len(current \o part) \in Nat /\ Len(current \o part) <= Len(text)
    BY <1>1, <1>2, <2>2
  <2>4. /\ Tokens(Len(current \o part)) \in Nat /\ Tokens(Len(text)) \in Nat
        /\ Tokens(Len(current \o part)) <= Tokens(Len(text))
    BY <1>1, <2>3, TokensGrow
  <2> QED BY <1>1, <2>1, <2>4
<1>17. Follows(current, fresh)
  BY <1>1, <1>2, <1>10, <1>12, <1>13, <1>14, <1>15, <1>16 DEF Follows
<1> QED BY <1>10, <1>11, <1>12, <1>17

(* A step leaves the text and the limits alone.                            *)
LEMMA SameText ==
  ASSUME text' = text, max_tokens' = max_tokens, overlap_tokens' = overlap_tokens,
         Settings', Finished(chunks'), Filling(chunks', current', placed')
  PROVE  Packed'
BY DEF Packed, Finished, Filling, Run, Opens, Follows, AsWritten, Matches, Begin, End

(* The finished chunks, and one that follows them.                         *)
LEMMA OneMore ==
  ASSUME NEW done, NEW last, Finished(done), Run(last),
         done = <<>> => Opens(last),
         done # <<>> => Follows(done[Len(done)], last),
         NEW more, more = Append(done, last)
  PROVE  /\ Finished(more) /\ more # <<>> /\ more[Len(more)] = last
<1>1. done \in Seq(Seq(Word)) /\ last \in Seq(Word)
  BY DEF Finished, Run
<1>2. /\ more \in Seq(Seq(Word)) /\ Len(more) = Len(done) + 1 /\ Len(done) \in Nat
      /\ \A k \in 1 .. Len(done) : more[k] = done[k]
      /\ more[Len(done) + 1] = last /\ more # <<>>
      /\ done = <<>> <=> Len(done) = 0
  BY <1>1
<1>3. \A k \in 1 .. Len(more) : Run(more[k])
  BY <1>2 DEF Finished
<1>4. Opens(more[1])
  BY <1>2 DEF Finished
<1>5. ASSUME NEW k \in 2 .. Len(more) PROVE Follows(more[k - 1], more[k])
  <2>1. CASE k = Len(more)
    <3>1. Len(done) # 0 /\ k - 1 = Len(done) /\ k - 1 \in 1 .. Len(done)
      BY <1>2, <1>5, <2>1
    <3> QED BY <1>2, <2>1, <3>1
  <2>2. CASE k # Len(more)
    <3>1. k \in 2 .. Len(done) /\ k \in 1 .. Len(done) /\ k - 1 \in 1 .. Len(done)
      BY <1>2, <1>5, <2>2
    <3> QED BY <1>2, <3>1 DEF Finished
  <2> QED BY <2>1, <2>2
<1> QED BY <1>2, <1>3, <1>4, <1>5 DEF Finished

(* Each step keeps the invariant.                                          *)
LEMMA PackedByAssemble == Packed /\ Assemble => Packed'
<1> SUFFICES ASSUME Packed, Assemble PROVE Packed'
  OBVIOUS
<1> DEFINE part == PartAt(text, max_tokens, placed + 1)
<1>1. /\ placed < Len(text) /\ placed' = placed + Len(part)
      /\ text' = text /\ max_tokens' = max_tokens /\ overlap_tokens' = overlap_tokens
  BY DEF Assemble
<1>2. /\ Len(part) \in 1 .. Len(text) - placed
      /\ \/ placed + Len(part) = Len(text)
         \/ placed + Len(part) + 1 \in SplitToFit(text, max_tokens)
      /\ placed \in Nat /\ Len(text) \in Nat
  BY <1>1, NextPart DEF Packed
<1>3. \/ /\ current # <<>> /\ Exceeds(current, part)
         /\ chunks' = Append(chunks, current) /\ current' = StartNext(current, part)
      \/ /\ ~(current # <<>> /\ Exceeds(current, part))
         /\ chunks' = chunks /\ current' = current \o part
  BY DEF Assemble
<1> HIDE DEF part
<1>4. Settings'
  <2>1. placed' \in 0 .. Len(text)
    BY <1>1, <1>2
  <2> QED BY <1>1, <1>2, <2>1 DEF Packed, Settings
<1>5. CASE /\ ~(current # <<>> /\ Exceeds(current, part))
           /\ chunks' = chunks /\ current' = current \o part
  <2>1. /\ current' # <<>> /\ Run(current') /\ End(current') = placed'
        /\ chunks = <<>> => Opens(current')
        /\ chunks # <<>> => Follows(chunks[Len(chunks)], current')
    BY <1>1, <1>5, PackedGrowing DEF part
  <2>2. Finished(chunks') /\ Filling(chunks', current', placed')
    BY <1>5, <2>1 DEF Packed, Filling
  <2> QED BY <1>1, <1>4, <2>2, SameText
<1>6. CASE /\ current # <<>> /\ Exceeds(current, part)
           /\ chunks' = Append(chunks, current) /\ current' = StartNext(current, part)
  <2>1. /\ current' # <<>> /\ Run(current') /\ End(current') = placed'
        /\ Follows(current, current')
    BY <1>1, <1>6, PackedCutting DEF part
  <2>2. /\ Finished(chunks) /\ Run(current)
        /\ chunks = <<>> => Opens(current)
        /\ chunks # <<>> => Follows(chunks[Len(chunks)], current)
    BY <1>6 DEF Packed, Filling
  <2>3. Finished(chunks') /\ chunks' # <<>> /\ chunks'[Len(chunks')] = current
    BY <1>6, <2>2, OneMore
  <2>4. Filling(chunks', current', placed')
    BY <2>1, <2>3 DEF Filling
  <2> QED BY <1>1, <1>4, <2>3, <2>4, SameText
<1> QED BY <1>3, <1>5, <1>6

(* The last chunk is finished as it is.                                    *)
LEMMA PackedByFinish == Packed /\ Finish => Packed'
<1> SUFFICES ASSUME Packed, Finish PROVE Packed'
  OBVIOUS
<1>1. /\ placed = Len(text) /\ current # <<>> /\ placed' = placed
      /\ chunks' = Append(chunks, current) /\ current' = <<>>
      /\ text' = text /\ max_tokens' = max_tokens /\ overlap_tokens' = overlap_tokens
  BY DEF Finish
<1>2. Settings'
  BY <1>1 DEF Packed, Settings
<1>3. /\ Finished(chunks) /\ Run(current) /\ End(current) = placed
      /\ chunks = <<>> => Opens(current)
      /\ chunks # <<>> => Follows(chunks[Len(chunks)], current)
  BY <1>1 DEF Packed, Filling
<1>4. Finished(chunks') /\ chunks' # <<>> /\ chunks'[Len(chunks')] = current
  BY <1>1, <1>3, OneMore
<1>5. Filling(chunks', current', placed')
  BY <1>1, <1>3, <1>4 DEF Filling
<1> QED BY <1>1, <1>2, <1>4, <1>5, SameText

(* The invariant holds of every run.                                       *)
LEMMA PackedHolds == Spec => []Packed
<1>1. Packed /\ [Next]_vars => Packed'
  <2> SUFFICES ASSUME Packed, [Next]_vars PROVE Packed'
    OBVIOUS
  <2>1. CASE Assemble
    BY <2>1, PackedByAssemble
  <2>2. CASE Finish
    BY <2>2, PackedByFinish
  <2>3. CASE UNCHANGED vars
    <3>1. /\ text' = text /\ max_tokens' = max_tokens /\ overlap_tokens' = overlap_tokens
          /\ placed' = placed /\ chunks' = chunks /\ current' = current
      BY <2>3 DEF vars
    <3>2. Settings' /\ Finished(chunks') /\ Filling(chunks', current', placed')
      BY <3>1 DEF Packed, Settings
    <3> QED BY <3>1, <3>2, SameText
  <2> QED BY <2>1, <2>2, <2>3 DEF Next
<1> QED BY <1>1, PackedAtFirst, PTL DEF Spec

(***************************************************************************)
(* The properties                                                          *)
(***************************************************************************)
(* A run read as what it says of each word.                                *)
LEMMA RunShape ==
  ASSUME NEW c, Run(c)
  PROVE  /\ c \in Seq(Word) /\ Len(c) \in Nat \ {0} /\ DOMAIN c = 1 .. Len(c) /\ c # <<>>
         /\ Begin(c) \in Nat \ {0} /\ End(c) \in Nat /\ End(c) <= Len(text)
         /\ End(c) = Begin(c) + Len(c) - 1
         /\ \A i \in 1 .. Len(c) : c[i] \in Word /\ c[i].place = Begin(c) + i - 1
                                  /\ c[i].stop = text[c[i].place].stop
BY DEF Run, Matches, Begin, End

(* Where a finished chunk begins and ends.                                 *)
LEMMA ChunkEnds ==
  ASSUME Packed, NEW k \in DOMAIN chunks
  PROVE  /\ DOMAIN chunks = 1 .. Len(chunks) /\ Len(chunks) \in Nat
         /\ Run(chunks[k])
         /\ First(k) = Begin(chunks[k]) /\ Final(k) = End(chunks[k])
<1>1. DOMAIN chunks = 1 .. Len(chunks) /\ Len(chunks) \in Nat /\ Run(chunks[k])
  <2>1. chunks \in Seq(Seq(Word))
    BY DEF Packed, Finished
  <2>2. DOMAIN chunks = 1 .. Len(chunks) /\ Len(chunks) \in Nat
    BY <2>1
  <2>3. k \in 1 .. Len(chunks)
    BY <2>2
  <2>4. Run(chunks[k])
    BY <2>3 DEF Packed, Finished
  <2> QED BY <2>2, <2>4
<1>2. chunks[k][Len(chunks[k])].place = End(chunks[k])
  <2>1. Len(chunks[k]) \in 1 .. Len(chunks[k])
    BY <1>1, RunShape
  <2> QED BY <1>1, <2>1, RunShape
<1> QED BY <1>1, <1>2 DEF First, Final, Begin

(* TypeOK: chunks are made of the lesson's words, and none is empty.       *)
THEOREM TypeCorrect == Spec => []TypeOK
<1>1. Packed => TypeOK
  <2> SUFFICES ASSUME Packed PROVE TypeOK
    OBVIOUS
  <2>1. /\ text \in Texts /\ max_tokens \in Ceilings /\ overlap_tokens \in Budgets
        /\ placed \in 0 .. Len(text)
    BY DEF Packed, Settings
  <2>2. \A chunk \in Range(chunks) : Run(chunk)
    BY ChunkEnds DEF Range
  <2>3. \A chunk \in Range(chunks) : chunk # <<>>
    BY <2>2, RunShape
  <2>4. ASSUME NEW words \in Range(chunks) \cup {current}, NEW i \in DOMAIN words
        PROVE  /\ words[i].place \in DOMAIN text
               /\ words[i].stop = text[words[i].place].stop
               /\ words[i].para \in BOOLEAN
    <3>1. Run(words)
      BY <2>2, <2>4 DEF Packed, Filling
    <3>2. DOMAIN text = 1 .. Len(text) /\ Len(text) \in Nat
      BY <2>1, TextShape
    <3>3. /\ i \in 1 .. Len(words) /\ Len(words) \in Nat
          /\ Begin(words) \in Nat \ {0}
          /\ Begin(words) + Len(words) - 1 <= Len(text)
      BY <2>4, <3>1, RunShape
    <3>4. /\ words[i] \in Word /\ words[i].place = Begin(words) + i - 1
          /\ words[i].stop = text[words[i].place].stop
      BY <3>1, <3>3, RunShape
    <3>5. Begin(words) + i - 1 \in 1 .. Len(text)
      BY <3>2, <3>3
    <3> QED BY <3>2, <3>4, <3>5 DEF Word
  <2> QED BY <2>1, <2>3, <2>4 DEF TypeOK
<1> QED BY <1>1, PackedHolds, PTL

(* WithinCeiling: no chunk exceeds the ceiling, whatever is carried over   *)
(* the cut and however the estimates round.                                *)
THEOREM NoneTooBig == Spec => []WithinCeiling
<1>1. Packed => WithinCeiling
  <2> SUFFICES ASSUME Packed, NEW chunk \in Range(chunks) \cup {current}, chunk # <<>>
               PROVE  EstimateTokens(chunk) <= max_tokens
    BY DEF WithinCeiling
  <2>1. Run(chunk)
    <3>1. CASE chunk \in Range(chunks)
      BY <3>1, ChunkEnds DEF Range
    <3>2. CASE chunk = current
      BY <3>2 DEF Packed, Filling
    <3> QED BY <3>1, <3>2
  <2> QED BY <2>1 DEF Run, EstimateTokens
<1> QED BY <1>1, PackedHolds, PTL

(* NothingLost: chunks are runs of the lesson without gaps between them,   *)
(* each gets further, and the last one ends where the lesson does.         *)
THEOREM NothingIsLost == Spec => []NothingLost
<1>1. Packed => NothingLost
  <2> SUFFICES ASSUME Packed PROVE NothingLost
    OBVIOUS
  <2>1. ASSUME NEW k \in DOMAIN chunks
        PROVE  /\ \A i \in DOMAIN chunks[k] : chunks[k][i].place = First(k) + i - 1
               /\ First(k) <= (IF k = 1 THEN 1 ELSE Final(k - 1) + 1)
               /\ k > 1 => Final(k) > Final(k - 1)
    <3>1. /\ k \in 1 .. Len(chunks) /\ Len(chunks) \in Nat
          /\ DOMAIN chunks = 1 .. Len(chunks)
          /\ Run(chunks[k]) /\ First(k) = Begin(chunks[k]) /\ Final(k) = End(chunks[k])
      BY <2>1, ChunkEnds
    <3>2. \A i \in DOMAIN chunks[k] : chunks[k][i].place = First(k) + i - 1
      <4>1. /\ DOMAIN chunks[k] = 1 .. Len(chunks[k])
            /\ \A i \in 1 .. Len(chunks[k]) :
                 chunks[k][i].place = Begin(chunks[k]) + i - 1
        BY <3>1, RunShape
      <4> QED BY <3>1, <4>1
    <3>3. CASE k = 1
      <4>1. First(1) = 1
        BY <3>1, <3>3 DEF Packed, Finished, Opens
      <4> QED BY <3>2, <3>3, <4>1
    <3>4. CASE k # 1
      <4>1. k \in 2 .. Len(chunks) /\ k - 1 \in DOMAIN chunks
        BY <3>1, <3>4
      <4>2. Follows(chunks[k - 1], chunks[k])
        BY <4>1 DEF Packed, Finished
      <4>3. Final(k - 1) = End(chunks[k - 1])
        BY <4>1, ChunkEnds
      <4> QED BY <3>1, <3>2, <3>4, <4>2, <4>3 DEF Follows
    <3> QED BY <3>3, <3>4
  <2>2. ASSUME Returned, text # <<>>
        PROVE  chunks # <<>> /\ Final(Len(chunks)) = Len(text)
    <3>1. text \in Seq(Word)
      BY TextShape DEF Packed, Settings
    <3>2. placed = Len(text) /\ current = <<>> /\ placed # 0
      BY <2>2, <3>1 DEF Returned
    <3>3. chunks # <<>> /\ End(chunks[Len(chunks)]) = placed
      BY <3>2 DEF Packed, Filling
    <3>4. Len(chunks) \in DOMAIN chunks
      BY <3>3 DEF Packed, Finished
    <3> QED BY <3>2, <3>3, <3>4, ChunkEnds
  <2> QED BY <2>1, <2>2 DEF NothingLost
<1> QED BY <1>1, PackedHolds, PTL

(* What two neighbouring chunks are to each other.                         *)
LEMMA Neighbours ==
  ASSUME Packed, NEW k \in 2 .. Len(chunks)
  PROVE  /\ Follows(chunks[k - 1], chunks[k]) /\ Run(chunks[k - 1]) /\ Run(chunks[k])
         /\ First(k) = Begin(chunks[k]) /\ Final(k) = End(chunks[k])
         /\ First(k - 1) = Begin(chunks[k - 1]) /\ Final(k - 1) = End(chunks[k - 1])
         /\ Repeated(k) = End(chunks[k - 1]) - Begin(chunks[k]) + 1
<1>1. chunks \in Seq(Seq(Word))
  BY DEF Packed, Finished
<1>2. k \in DOMAIN chunks /\ k - 1 \in DOMAIN chunks /\ k # 1
  BY <1>1
<1>3. Follows(chunks[k - 1], chunks[k])
  BY DEF Packed, Finished
<1> QED BY <1>2, <1>3, ChunkEnds DEF Repeated

(* OverlapWithinBudget: what is repeated is whole sentences of the chunk   *)
(* before and costs no more than the budget.                               *)
THEOREM OverlapInBudget == Spec => []OverlapWithinBudget
<1>1. Packed => OverlapWithinBudget
  <2> SUFFICES ASSUME Packed, NEW k \in 2 .. Len(chunks), Repeated(k) > 0
               PROVE  /\ Tokens(Repeated(k)) <= overlap_tokens
                      /\ First(k) > First(k - 1) => text[First(k) - 1].stop
    BY DEF OverlapWithinBudget
  <2>1. /\ Follows(chunks[k - 1], chunks[k])
        /\ First(k) = Begin(chunks[k]) /\ First(k - 1) = Begin(chunks[k - 1])
        /\ Repeated(k) = End(chunks[k - 1]) - Begin(chunks[k]) + 1
        /\ Begin(chunks[k]) \in Nat /\ End(chunks[k - 1]) \in Nat
    BY Neighbours, RunShape
  <2>2. Begin(chunks[k]) <= End(chunks[k - 1])
    BY <2>1
  <2> QED BY <2>1, <2>2 DEF Follows
<1> QED BY <1>1, PackedHolds, PTL

(* BlankLinesKept: behind what it repeats a chunk reads as the lesson, its *)
(* paragraphs included.                                                    *)
THEOREM BlankLinesAreKept == Spec => []BlankLinesKept
<1>1. Packed => BlankLinesKept
  <2> SUFFICES ASSUME Packed, NEW k \in DOMAIN chunks, NEW i \in DOMAIN chunks[k],
                      i > Max({1, Repeated(k)})
               PROVE  chunks[k][i] = text[chunks[k][i].place]
    BY DEF BlankLinesKept
  <2>1. /\ k \in 1 .. Len(chunks) /\ Len(chunks) \in Nat
        /\ Run(chunks[k]) /\ i \in 1 .. Len(chunks[k])
    BY ChunkEnds, RunShape
  <2>2. CASE k = 1
    <3>1. Repeated(k) = 0 /\ Max({1, 0}) = 1
      BY <2>2, GreaterOfOne DEF Repeated
    <3>2. AsWritten(chunks[1], 0)
      BY <2>1, <2>2 DEF Packed, Finished, Opens
    <3>3. i \in 1 .. Len(chunks[1]) /\ i > 1 /\ i > 0
      <4>1. i \in Nat /\ i > 1
        BY <2>1, <3>1, RunShape
      <4> QED BY <2>1, <2>2, <4>1
    <3> QED BY <2>2, <3>2, <3>3 DEF AsWritten
  <2>3. CASE k # 1
    <3>1. k \in 2 .. Len(chunks)
      BY <2>1, <2>3
    <3>2. /\ Follows(chunks[k - 1], chunks[k]) /\ Run(chunks[k - 1])
          /\ Repeated(k) = End(chunks[k - 1]) - Begin(chunks[k]) + 1
      BY <3>1, Neighbours
    <3>3. Repeated(k) \in Nat
      <4>1. /\ Begin(chunks[k]) \in Nat /\ End(chunks[k - 1]) \in Nat
            /\ Begin(chunks[k]) <= End(chunks[k - 1]) + 1
        BY <2>1, <3>2, RunShape DEF Follows
      <4> QED BY <3>2, <4>1
    <3>4. i > 1 /\ i > Repeated(k)
      BY <2>1, <3>3, GreaterOfOne
    <3> QED BY <2>1, <3>2, <3>4 DEF Follows, AsWritten
  <2> QED BY <2>2, <2>3
<1> QED BY <1>1, PackedHolds, PTL

(* The words around a place are those of a piece: of numbers a <= i <= b   *)
(* with no start from a + 1 to b, and starts at a and behind b or none.    *)
LEMMA AroundIsRange ==
  ASSUME text \in Texts, NEW starts \in SUBSET Nat, NEW i \in Nat,
         NEW a \in 1 .. i, NEW b \in Nat, i <= b, b <= Len(text),
         \A s \in starts : s > a => s > b,
         a = 1 \/ a \in starts, b = Len(text) \/ b + 1 \in starts
  PROVE  Around(i, starts) = a .. b
<1>0. DOMAIN text = 1 .. Len(text)
  BY TextShape
<1>1. Len(text) \in Nat
  BY TextShape
<1>2. a \in Nat /\ a >= 1 /\ a <= i
  OBVIOUS
<1>3. ASSUME NEW j \in 1 .. Len(text)
      PROVE  (\A s \in starts : s > Min({i, j}) => s > Max({i, j})) <=> j \in a .. b
  <2>0. j \in Nat /\ 1 <= j /\ j <= Len(text)
    BY <1>1, <1>3
  <2>1. CASE j <= i
    <3>1. Min({i, j}) = j /\ Max({i, j}) = i
      BY <2>0, <2>1 DEF Min, Max
    <3>2. ASSUME j \in a .. b, NEW s \in starts, s > j PROVE s > i
      <4>1. s \in Nat /\ a <= j
        BY <1>2, <2>0, <3>2
      <4>2. s > a
        BY <1>2, <2>0, <3>2, <4>1
      <4>3. s > b
        BY <4>2
      <4> QED BY <4>1, <4>3
    <3>3. ASSUME \A s \in starts : s > j => s > i PROVE j \in a .. b
      <4>1. j <= b
        BY <2>0, <2>1
      <4>2. CASE a = 1
        BY <2>0, <4>1, <4>2
      <4>3. CASE a \in starts
        <5>1. ~(a > j)
          BY <1>2, <3>3, <4>3
        <5> QED BY <1>2, <2>0, <4>1, <5>1
      <4> QED BY <4>2, <4>3
    <3> QED BY <3>1, <3>2, <3>3
  <2>2. CASE j > i
    <3>1. Min({i, j}) = i /\ Max({i, j}) = j
      BY <2>0, <2>2 DEF Min, Max
    <3>2. ASSUME j \in a .. b, NEW s \in starts, s > i PROVE s > j
      <4>1. s \in Nat /\ j <= b
        BY <1>2, <2>0, <3>2
      <4>2. s > a
        BY <1>2, <3>2, <4>1
      <4>3. s > b
        BY <4>2
      <4> QED BY <2>0, <4>1, <4>3
    <3>3. ASSUME \A s \in starts : s > i => s > j PROVE j \in a .. b
      <4>1. a <= j
        BY <1>2, <2>0, <2>2
      <4>2. CASE b = Len(text)
        BY <1>2, <2>0, <4>1, <4>2
      <4>3. CASE b + 1 \in starts
        <5>1. b + 1 > j
          BY <3>3, <4>3
        <5> QED BY <1>2, <2>0, <4>1, <5>1
      <4> QED BY <4>2, <4>3
    <3> QED BY <3>1, <3>2, <3>3
  <2>3. j <= i \/ j > i
    BY <2>0
  <2> QED BY <2>1, <2>2, <2>3, Zenon
<1>4. \A j \in a .. b : j \in 1 .. Len(text)
  BY <1>1, <1>2
<1> QED BY <1>0, <1>3, <1>4 DEF Around

(* Where no piece begins, the words around the place before are those of   *)
(* the piece that runs across.                                             *)
LEMMA AroundIsPiece ==
  ASSUME text \in Texts, NEW starts \in SUBSET (1 .. Len(text)),
         NEW i \in 1 .. Len(text), NEW n \in 1 .. Len(text), n = i + 1, n \notin starts
  PROVE  Cardinality(Around(i, starts)) = UpTo(text, starts, n) - From(starts, n) + 1
<1> DEFINE a == From(starts, n)
           b == UpTo(text, starts, n)
<1>1. Len(text) \in Nat
  BY TextShape
<1>2. /\ a \in {1} \cup starts /\ a \in 1 .. n
      /\ \A s \in starts : s <= n => s <= a
      /\ b \in n .. Len(text)
      /\ \A s \in starts : s > n => s > b
      /\ b = Len(text) \/ b + 1 \in starts
  BY <1>1, PieceBounds
<1> HIDE DEF a, b
<1>3. /\ i \in Nat /\ n \in Nat /\ a \in Nat /\ b \in Nat /\ i >= 1
      /\ a >= 1 /\ a <= n /\ b >= n /\ b <= Len(text)
  BY <1>1, <1>2
<1>4. a \in 1 .. i /\ i <= b
  <2>1. a # n
    BY <1>2, <1>3
  <2> QED BY <1>3, <2>1
<1>5. starts \in SUBSET Nat
  BY <1>1
<1>6. ASSUME NEW s \in starts, s > a PROVE s > b
  <2>1. s \in Nat /\ s # n
    BY <1>5
  <2>2. ~(s <= n)
    BY <1>2, <1>3, <1>6, <2>1
  <2> QED BY <1>2, <1>3, <2>1, <2>2
<1>7. a = 1 \/ a \in starts
  BY <1>2
<1>8. Around(i, starts) = a .. b
  BY <1>2, <1>3, <1>4, <1>5, <1>6, <1>7, AroundIsRange
<1>9. Cardinality(a .. b) = b - a + 1
  <2>1. a \in Int /\ b \in Int /\ ~(a > b)
    BY <1>3
  <2>2. Cardinality(a .. b) = IF a > b THEN 0 ELSE b - a + 1
    BY <2>1, FS_Interval
  <2> QED BY <2>1, <2>2
<1> QED BY <1>8, <1>9 DEF a, b

(* CutsWhereItMust: a lesson that fits is not cut, nor a paragraph that    *)
(* fits, nor a sentence.                                                   *)
THEOREM CutsOnlyWhereItMust == Spec => []CutsWhereItMust
<1>1. Packed => CutsWhereItMust
  <2> SUFFICES ASSUME Packed, NEW k \in 1 .. Len(chunks) - 1
               PROVE  /\ EstimateTokens(text) > max_tokens
                      /\ ~text[Final(k) + 1].para
                           => Tokens(Cardinality(ParagraphAround(Final(k)))) > max_tokens
                      /\ ~text[Final(k) + 1].para /\ ~text[Final(k)].stop
                           => Tokens(Cardinality(SentenceAround(Final(k)))) > max_tokens
    BY DEF CutsWhereItMust
  <2> DEFINE cut == Final(k)
             P == Paragraphs(text)
             S == SentencesToFit(text)
  <2>1. text \in Texts /\ max_tokens \in Nat \ {0}
    BY LimitsAssumption DEF Packed, Settings
  <2>2. /\ Len(text) \in Nat /\ DOMAIN text = 1 .. Len(text)
        /\ Len(text) > 0 => text[1].para
    BY <2>1, TextShape
  <2>3. k + 1 \in 2 .. Len(chunks) /\ (k + 1) - 1 = k
    BY DEF Packed, Finished
  <2>4. /\ Follows(chunks[k], chunks[k + 1]) /\ Run(chunks[k])
        /\ cut = End(chunks[k])
    BY <2>3, Neighbours
  <2>5. /\ Tokens(Len(text)) > max_tokens
        /\ cut + 1 \in SplitToFit(text, max_tokens)
        /\ cut \in Nat
    BY <2>4, RunShape DEF Follows
  <2>6. cut \in 1 .. Len(text) /\ cut + 1 \in 1 .. Len(text)
    <3>1. cut >= 1
      BY <2>4, RunShape
    <3>2. cut + 1 \in 1 .. Len(text)
      BY <2>1, <2>5, Levels
    <3> QED BY <2>2, <2>5, <3>1, <3>2
  <2>7. /\ P \in SUBSET (1 .. Len(text)) /\ S \in SUBSET (1 .. Len(text))
        /\ cut + 1 \notin P => TooBig(text, max_tokens, P, cut + 1)
        /\ cut + 1 \notin S => TooBig(text, max_tokens, S, cut + 1)
    BY <2>1, <2>5, <2>6, Levels
  <2>8. ASSUME NEW starts \in SUBSET (1 .. Len(text)), cut + 1 \notin starts,
               TooBig(text, max_tokens, starts, cut + 1)
        PROVE  Tokens(Cardinality(Around(cut, starts))) > max_tokens
    <3>1. Cardinality(Around(cut, starts))
            = UpTo(text, starts, cut + 1) - From(starts, cut + 1) + 1
      BY <2>1, <2>5, <2>6, <2>8, AroundIsPiece
    <3> QED BY <2>1, <2>6, <2>8, <3>1, PieceSize DEF TooBig
  <2> HIDE DEF cut
  <2>9. P = {j \in DOMAIN text : text[j].para}
    BY DEF Paragraphs
  <2>10. S = {j \in DOMAIN text : text[j].para \/ text[j - 1].stop}
    <3>1. \A j \in DOMAIN text : j = 1 => text[j].para
      BY <2>2
    <3> QED BY <3>1 DEF SentencesToFit, Paragraphs, Sentences
  <2>11. ~text[cut + 1].para => cut + 1 \notin P
    BY <2>9
  <2>12. ~text[cut + 1].para /\ ~text[cut].stop => cut + 1 \notin S
    <3>1. (cut + 1) - 1 = cut
      BY <2>5
    <3> QED BY <2>10, <3>1
  <2> HIDE DEF P, S
  <2>13. ~text[cut + 1].para => Tokens(Cardinality(ParagraphAround(cut))) > max_tokens
    BY <2>7, <2>8, <2>9, <2>11 DEF ParagraphAround
  <2>14. ~text[cut + 1].para /\ ~text[cut].stop
           => Tokens(Cardinality(SentenceAround(cut))) > max_tokens
    BY <2>7, <2>8, <2>10, <2>12 DEF SentenceAround
  <2> QED BY <2>5, <2>13, <2>14 DEF cut, EstimateTokens
<1> QED BY <1>1, PackedHolds, PTL

(***************************************************************************)
(* That it ends                                                            *)
(***************************************************************************)
(* One chunk for each word is the most there can be, however much the      *)
(* overlap repeats.                                                        *)
FewChunks == Len(chunks) + (IF current = <<>> THEN 0 ELSE 1) <= placed

(* chunk_text, "must not loop forever", for any text: a turn of _assemble  *)
(* takes at least one word more and none beyond the end, so there are at   *)
(* most as many turns, and as many chunks, as words; then the last chunk   *)
(* is closed.                                                              *)
THEOREM EndsForEveryText ==
  Spec => /\ [][(placed' > placed /\ placed' <= Len(text)) \/ Finish]_vars
          /\ []FewChunks
<1>1. ASSUME Packed, Assemble
      PROVE  /\ placed' > placed /\ placed' <= Len(text)
             /\ placed \in Nat /\ placed' \in Nat
  <2> DEFINE part == PartAt(text, max_tokens, placed + 1)
  <2>1. placed < Len(text) /\ placed' = placed + Len(part)
    BY <1>1 DEF Assemble
  <2>2. Len(part) \in 1 .. Len(text) - placed /\ placed \in Nat /\ Len(text) \in Nat
    BY <1>1, <2>1, NextPart DEF Packed
  <2> HIDE DEF part
  <2> QED BY <2>1, <2>2
<1>2. Packed /\ [Next]_vars
        => [(placed' > placed /\ placed' <= Len(text)) \/ Finish]_vars
  BY <1>1 DEF Next
<1>3. Init => FewChunks
  BY DEF Init, FewChunks
<1>4. Packed /\ FewChunks /\ [Next]_vars => FewChunks'
  <2> SUFFICES ASSUME Packed, FewChunks, [Next]_vars PROVE FewChunks'
    OBVIOUS
  <2>1. Len(chunks) \in Nat /\ Len(Append(chunks, current)) = Len(chunks) + 1
    BY DEF Packed, Finished
  <2>2. CASE Assemble
    <3>1. placed' > placed /\ placed \in Nat /\ placed' \in Nat
      BY <1>1, <2>2
    <3>2. \/ chunks' = chunks
          \/ current # <<>> /\ chunks' = Append(chunks, current)
      BY <2>2 DEF Assemble
    <3> QED BY <2>1, <3>1, <3>2 DEF FewChunks
  <2>3. CASE Finish
    BY <2>1, <2>3 DEF Finish, FewChunks
  <2>4. CASE UNCHANGED vars
    BY <2>4 DEF vars, FewChunks
  <2> QED BY <2>2, <2>3, <2>4 DEF Next
<1> QED BY <1>2, <1>3, <1>4, PackedHolds, PTL DEF Spec
=============================================================================
