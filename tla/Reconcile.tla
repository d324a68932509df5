------------------------------ MODULE Reconcile ------------------------------
(***************************************************************************)
(* The inside of one chunk_one_lesson: chunk_lesson compares the pieces of *)
(* the lesson's text with the chunk rows it has, and COMMIT checks the     *)
(* deferred unique position. Publishing sees this as one write; here the   *)
(* rows have ids, and the text is edited and published again and again.    *)
(***************************************************************************)
EXTENDS Naturals, Sequences, FiniteSets, Functions

CONSTANTS
  Pieces,        \* what chunk_text may return: sequences of hashes
  MaxIds         \* bound: chunk rows a run of the model may insert

ASSUME PiecesAssumption == \A p \in Pieces : p \in Seq(Range(p))
ASSUME IdsAssumption == MaxIds \in Nat

VARIABLES
  pieces,   \* chunk_text of the lesson's content now
  rows,     \* the lesson's chunks: [id, hash, position]
  nextId,   \* the id of the next row inserted
  done      \* the pieces of the last run that committed, or the empty lesson

vars == <<pieces, rows, nextId, done>>

Init == pieces \in Pieces /\ rows = {} /\ nextId = 1 /\ done = <<>>

(* by_hash, a dict filled in position order: the last row of a hash.       *)
ByHash(existing, h) ==
  {r \in existing : r.hash = h /\ \A o \in existing :
                                    o.hash = h => o.position <= r.position}

(* A piece reuses its row only where its hash occurs first.                *)
IsFirst(new, i) == \A j \in 1 .. i - 1 : new[j] # new[i]

(* Mutant: no row is ever found again.                                     *)
ReusesNothing(existing, new, i) == FALSE

Reuses(existing, new, i) == IsFirst(new, i) /\ ByHash(existing, new[i]) # {}

Moved(existing, new) ==
  UNION {{[r EXCEPT !.position = i - 1] : r \in ByHash(existing, new[i])} :
           i \in {j \in DOMAIN new : Reuses(existing, new, j)}}

(* Mutant: positions one too low.                                          *)
InsertedBelow(existing, new, first) ==
  LET places == {i \in DOMAIN new : ~Reuses(existing, new, i)} IN
  {[id |-> first + Cardinality({j \in places : j < i}),
    hash |-> new[i], position |-> i - 2] : i \in places}

Inserted(existing, new, first) ==
  LET places == {i \in DOMAIN new : ~Reuses(existing, new, i)} IN
  {[id |-> first + Cardinality({j \in places : j < i}),
    hash |-> new[i], position |-> i - 1] : i \in places}

(* Rows whose hash occurs in the text are never stale, reused or not.      *)
LeftAlone(existing, new) ==
  {r \in existing : r.hash \in Range(new) /\ r \notin ByHash(existing, r.hash)}

Reconciled(existing, new, first) ==
  Moved(existing, new) \cup Inserted(existing, new, first)
    \cup LeftAlone(existing, new)

(* Mutant: no unique constraint on the position.                           *)
NothingUnique(S) == TRUE

PositionsUnique(S) ==
  \A r, o \in S : r.position = o.position => r = o

Rebuild(text) ==
  LET after == Reconciled(rows, text, nextId)
      inserted == Cardinality(Inserted(rows, text, nextId))
  IN /\ nextId + inserted <= MaxIds + 1
     /\ PositionsUnique(after)
     /\ rows' = after
     /\ nextId' = nextId + inserted
     /\ done' = text

ChunkLesson == Rebuild(pieces) /\ UNCHANGED pieces

UpdateLesson ==
  /\ pieces' \in Pieces
  /\ UNCHANGED <<rows, nextId, done>>

Next == ChunkLesson \/ UpdateLesson
Spec == Init /\ [][Next]_vars

(***************************************************************************)
(* Properties                                                              *)
(***************************************************************************)
TypeOK ==
  /\ pieces \in Pieces /\ done \in Pieces \cup {<<>>}
  /\ nextId \in 1 .. MaxIds + 1
  /\ \A r \in rows : /\ DOMAIN r = {"id", "hash", "position"}
                     /\ r.id \in 1 .. nextId - 1 /\ r.position \in Nat

(* chunk_lesson "returns how many it now has", len(pieces): after a run    *)
(* the rows are the pieces, each at its place and nothing else.            *)
RowsAreThePieces ==
  /\ Cardinality(rows) = Len(done)
  /\ \A r \in rows : r.position < Len(done) /\ r.hash = done[r.position + 1]

(* FR-11a: a hash that is in the text a run chunks keeps the row, and with *)
(* it the embedding, it has; only the others get a new one.                *)
KeepsWhatDidNotChange ==
  [][\A r \in rows : (rows' # rows /\ r.hash \in Range(done'))
                       => \E n \in rows' : n.id = r.id /\ n.hash = r.hash]_vars

(* chunk_one_lesson, "Running this twice on the same lesson produces the   *)
(* same chunks": a run right after a run changes nothing and is accepted.  *)
SecondRunChangesNothing ==
  rows # {} /\ done = pieces => Reconciled(rows, pieces, nextId) = rows
==============================================================================
