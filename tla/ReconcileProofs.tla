---------------------------- MODULE ReconcileProofs ----------------------------
(***************************************************************************)
(* Reconcile, proved for any texts and any number of rows: what a run keeps *)
(* whatever the text is, and what the rows are when no piece is repeated.   *)
(***************************************************************************)
EXTENDS ReconcileLate, FiniteSetTheorems, WellFoundedInduction, TLAPS

AllHashes == UNION {Range(p) : p \in Pieces}
Row == [id : Nat, hash : AllHashes, position : Nat]

(* chunk_text returns different pieces: what the rows need to be right.    *)
Distinct == \A p \in Pieces : IsInjective(p)

(***************************************************************************)
(* Texts                                                                   *)
(***************************************************************************)

(* A text is a sequence of hashes.                                         *)
LEMMA TextShape ==
  ASSUME NEW p \in Pieces
  PROVE  /\ Len(p) \in Nat /\ DOMAIN p = 1 .. Len(p)
         /\ \A i \in DOMAIN p : p[i] \in Range(p) /\ p[i] \in AllHashes
<1>1. p \in Seq(Range(p))
  BY PiecesAssumption
<1>2. Len(p) \in Nat /\ DOMAIN p = 1 .. Len(p)
  BY <1>1
<1> QED BY <1>2 DEF Range, AllHashes

(* What occurs in a text occurs in it first somewhere.                     *)
LEMMA FirstPlace ==
  ASSUME NEW p \in Pieces, NEW h \in Range(p)
  PROVE  \E i \in DOMAIN p : p[i] = h /\ IsFirst(p, i)
<1> DEFINE K == {k \in DOMAIN p : p[k] = h}
           Q == {1 .. k : k \in K}
           S == 1 .. Len(p)
<1>1. Len(p) \in Nat /\ DOMAIN p = S
  BY TextShape
<1>2. IsWellFoundedOn(StrictSubsetOrdering(S), FiniteSubsetsOf(S))
  <2>1. IsFiniteSet(S)
    BY <1>1, FS_Interval
  <2> QED BY <2>1, FS_StrictSubsetOrderingWellFounded
<1>3. Q \subseteq FiniteSubsetsOf(S)
  <2> SUFFICES ASSUME NEW k \in K PROVE 1 .. k \in FiniteSubsetsOf(S)
    OBVIOUS
  <2>1. k \in S /\ 1 .. k \subseteq S
    BY <1>1
  <2>2. IsFiniteSet(1 .. k)
    BY <1>1, FS_Interval
  <2> QED BY <2>1, <2>2 DEF FiniteSubsetsOf
<1>4. Q # {}
  BY DEF Range
<1>5. \E T \in Q : \A U \in Q : <<U, T>> \notin StrictSubsetOrdering(S)
  <2> HIDE DEF Q, S
  <2> QED BY <1>2, <1>3, <1>4, WFMin
<1>6. PICK i \in K : \A k \in K : <<1 .. k, 1 .. i>> \notin StrictSubsetOrdering(S)
  BY <1>5
<1>7. \A j \in 1 .. i - 1 : p[j] # h
  <2> SUFFICES ASSUME NEW j \in 1 .. i - 1, p[j] = h PROVE FALSE
    OBVIOUS
  <2>1. i \in S /\ j \in K /\ j < i
    BY <1>1
  <2>2. 1 .. j \subseteq 1 .. i /\ 1 .. j # 1 .. i /\ 1 .. i \subseteq S
    BY <1>1, <2>1
  <2>3. <<1 .. j, 1 .. i>> \in StrictSubsetOrdering(S)
    BY <2>2 DEF StrictSubsetOrdering
  <2> QED BY <1>6, <2>1, <2>3
<1> QED BY <1>7 DEF IsFirst

(***************************************************************************)
(* What one run writes                                                     *)
(***************************************************************************)

(* A row that is reused keeps its id and its hash and goes to the place of *)
(* that hash in the text.                                                  *)
LEMMA MovedRows ==
  ASSUME NEW old \in SUBSET Row, NEW p \in Pieces, NEW n \in Moved(old, p)
  PROVE  \E r \in old, i \in DOMAIN p :
           /\ n \in Row /\ n.id = r.id /\ n.hash = p[i] /\ n.position = i - 1
           /\ r.hash = p[i]
<1>1. PICK i \in DOMAIN p :
        \E r \in ByHash(old, p[i]) : n = [r EXCEPT !.position = i - 1]
  BY DEF Moved
<1>2. PICK r \in ByHash(old, p[i]) : n = [r EXCEPT !.position = i - 1]
  BY <1>1
<1>3. r \in old /\ r \in Row /\ r.hash = p[i]
  BY <1>2 DEF ByHash
<1>4. i - 1 \in Nat
  BY TextShape
<1>5. n \in Row /\ n.id = r.id /\ n.hash = p[i] /\ n.position = i - 1
  BY <1>2, <1>3, <1>4 DEF Row
<1> QED BY <1>3, <1>5

(* A new row is a piece at its place, and there is one for each place that *)
(* reuses none.                                                            *)
LEMMA InsertedPlaces ==
  ASSUME NEW old, NEW p, NEW first
  PROVE  /\ \A n \in Inserted(old, p, first) :
              \E i \in DOMAIN p : n.hash = p[i] /\ n.position = i - 1
         /\ \A i \in DOMAIN p : ~Reuses(old, p, i) =>
              \E n \in Inserted(old, p, first) : n.position = i - 1
<1> DEFINE places == {i \in DOMAIN p : ~Reuses(old, p, i)}
           new(i) == [id |-> first + Cardinality({j \in places : j < i}),
                      hash |-> p[i], position |-> i - 1]
           I == Inserted(old, p, first)
<1>1. I = {new(i) : i \in places}
  BY DEF Inserted
<1>2. \A i \in places : /\ new(i) \in I
                        /\ new(i).hash = p[i] /\ new(i).position = i - 1
  BY <1>1
<1>3. \A n \in I : \E i \in DOMAIN p : n.hash = p[i] /\ n.position = i - 1
  <2> HIDE DEF I, new
  <2> QED BY <1>1, <1>2
<1>4. \A i \in DOMAIN p : ~Reuses(old, p, i) => \E n \in I : n.position = i - 1
  <2> HIDE DEF I, new
  <2> QED BY <1>2
<1> QED BY <1>3, <1>4

(* New rows have ids of their own, from `first` on.                        *)
LEMMA InsertedRows ==
  ASSUME NEW old, NEW p \in Pieces, NEW first \in Nat
  PROVE  /\ Cardinality(Inserted(old, p, first)) \in Nat
         /\ \A n \in Inserted(old, p, first) :
              /\ n \in Row /\ n.id >= first
              /\ n.id < first + Cardinality(Inserted(old, p, first))
<1> DEFINE places == {i \in DOMAIN p : ~Reuses(old, p, i)}
           below(i) == {j \in places : j < i}
           new(i) == [id |-> first + Cardinality(below(i)), hash |-> p[i],
                      position |-> i - 1]
           f == [i \in places |-> new(i)]
           I == Inserted(old, p, first)
<1>1. I = {new(i) : i \in places}
  BY DEF Inserted
<1>2. Len(p) \in Nat /\ DOMAIN p = 1 .. Len(p)
  BY TextShape
<1>3. IsFiniteSet(places)
  <2>1. IsFiniteSet(1 .. Len(p)) /\ places \subseteq 1 .. Len(p)
    BY <1>2, FS_Interval
  <2> HIDE DEF places
  <2> QED BY <2>1, FS_Subset
<1>4. f \in Bijection(places, I)
  <2>1. f \in [places -> I]
    BY <1>1
  <2>2. \A i \in places : f[i].position = i - 1
    OBVIOUS
  <2>3. \A i, j \in places : f[i] = f[j] => i = j
    <3> SUFFICES ASSUME NEW i \in places, NEW j \in places, f[i] = f[j] PROVE i = j
      OBVIOUS
    <3>1. i - 1 = j - 1 /\ i \in Int /\ j \in Int
      BY <1>2, <2>2
    <3> QED BY <3>1
  <2>4. \A n \in I : \E i \in places : f[i] = n
    BY <1>1
  <2> HIDE DEF f, I, places
  <2> QED BY <2>1, <2>3, <2>4 DEF Bijection, Injection, Surjection, IsInjective
<1>5. IsFiniteSet(I) /\ Cardinality(I) = Cardinality(places) /\ Cardinality(places) \in Nat
  <2>1. ExistsBijection(places, I)
    BY <1>4 DEF ExistsBijection
  <2> HIDE DEF I, places
  <2> QED BY <1>3, <2>1, FS_Bijection, FS_CardinalityType
<1>6. \A i \in places : /\ Cardinality(below(i)) \in Nat
                        /\ Cardinality(below(i)) < Cardinality(places)
  <2> SUFFICES ASSUME NEW i \in places
               PROVE  /\ Cardinality(below(i)) \in Nat
                      /\ Cardinality(below(i)) < Cardinality(places)
    OBVIOUS
  <2>1. below(i) \subseteq places /\ below(i) # places
    BY <1>2
  <2> HIDE DEF below, places
  <2>2. /\ IsFiniteSet(below(i)) /\ Cardinality(below(i)) <= Cardinality(places)
        /\ Cardinality(below(i)) # Cardinality(places)
    BY <1>3, <2>1, FS_Subset
  <2>3. Cardinality(below(i)) \in Nat
    BY <2>2, FS_CardinalityType
  <2> QED BY <1>5, <2>2, <2>3
<1>7. ASSUME NEW n \in I
      PROVE  n \in Row /\ n.id >= first /\ n.id < first + Cardinality(I)
  <2>1. PICK i \in places : n = new(i)
    BY <1>1, <1>7
  <2>2. n.id = first + Cardinality(below(i)) /\ n.hash = p[i] /\ n.position = i - 1
    BY <2>1
  <2>3. i \in DOMAIN p /\ i - 1 \in Nat /\ p[i] \in AllHashes
    BY <1>2, TextShape
  <2>4. Cardinality(below(i)) \in Nat /\ Cardinality(below(i)) < Cardinality(places)
    BY <1>6
  <2>5. first + Cardinality(below(i)) \in Nat
    BY <2>4
  <2>6. n \in Row
    <3> HIDE DEF below
    <3> QED BY <2>1, <2>3, <2>5 DEF Row
  <2> HIDE DEF below, places, I
  <2> QED BY <1>5, <2>2, <2>3, <2>4, <2>6
<1> QED BY <1>5, <1>7

(***************************************************************************)
(* Types                                                                   *)
(***************************************************************************)
Shape ==
  /\ pieces \in Pieces /\ done \in Pieces \cup {<<>>}
  /\ nextId \in 1 .. MaxIds + 1
  /\ rows \subseteq Row
  /\ \A r \in rows : r.id \in 1 .. nextId - 1

(* A run leaves rows, with ids that have been given out.                   *)
LEMMA RunShape ==
  ASSUME Shape, NEW p \in Pieces, Rebuild(p), pieces' \in Pieces
  PROVE  Shape'
<1> DEFINE n == Cardinality(Inserted(rows, p, nextId))
<1>1. /\ p \in Pieces /\ rows \in SUBSET Row /\ nextId \in Nat /\ nextId >= 1
      /\ MaxIds \in Nat /\ nextId <= MaxIds + 1
  BY IdsAssumption DEF Shape
<1>2. /\ n \in Nat
      /\ \A r \in Inserted(rows, p, nextId) :
           r \in Row /\ r.id >= nextId /\ r.id < nextId + n
  BY <1>1, InsertedRows
<1>3. \A r \in Moved(rows, p) : r \in Row /\ \E o \in rows : r.id = o.id
  <2> SUFFICES ASSUME NEW r \in Moved(rows, p)
               PROVE  r \in Row /\ \E o \in rows : r.id = o.id
    OBVIOUS
  <2>1. \E o \in rows, i \in DOMAIN p :
          r \in Row /\ r.id = o.id /\ r.hash = p[i] /\ r.position = i - 1
    BY <1>1, MovedRows
  <2> QED BY <2>1
<1>4. LeftAlone(rows, p) \subseteq rows
  BY DEF LeftAlone
<1>5. rows' = Moved(rows, p) \cup Inserted(rows, p, nextId)
                \cup LeftAlone(rows, p)
  BY DEF Rebuild, Reconciled
<1>6. /\ nextId' = nextId + n /\ nextId + n <= MaxIds + 1
      /\ done' = p
  BY DEF Rebuild
<1> HIDE DEF n
<1>7. rows' \subseteq Row
  BY <1>1, <1>2, <1>3, <1>4, <1>5
<1>8. \A r \in rows : r.id \in Nat /\ r.id >= 1 /\ r.id < nextId
  BY <1>1 DEF Shape
<1>9. \A r \in rows' : r.id \in Nat /\ r.id >= 1 /\ r.id < nextId + n
  <2> SUFFICES ASSUME NEW r \in rows'
               PROVE  r.id \in Nat /\ r.id >= 1 /\ r.id < nextId + n
    OBVIOUS
  <2>1. CASE r \in Moved(rows, p)
    BY <1>1, <1>2, <1>3, <1>8, <2>1
  <2>2. CASE r \in Inserted(rows, p, nextId)
    BY <1>1, <1>2, <2>2 DEF Row
  <2>3. CASE r \in LeftAlone(rows, p)
    BY <1>1, <1>2, <1>4, <1>8, <2>3
  <2> QED BY <1>5, <2>1, <2>2, <2>3
<1> QED BY <1>1, <1>2, <1>6, <1>7, <1>9 DEF Shape

(* Shape is inductive.                                                     *)
LEMMA ShapeHolds == Spec => []Shape
<1>1. Init => Shape
  BY IdsAssumption DEF Init, Shape
<1>2. Shape /\ [Next]_vars => Shape'
  <2> SUFFICES ASSUME Shape, [Next]_vars PROVE Shape'
    OBVIOUS
  <2>1. CASE ChunkLesson
    <3>1. pieces \in Pieces /\ Rebuild(pieces) /\ pieces' = pieces
      BY <2>1 DEF ChunkLesson, Shape
    <3> QED BY <3>1, RunShape
  <2>2. CASE UpdateLesson
    BY <2>2 DEF UpdateLesson, Shape
  <2>3. CASE UNCHANGED vars
    BY <2>3 DEF vars, Shape
  <2> QED BY <2>1, <2>2, <2>3 DEF Next
<1> QED BY <1>1, <1>2, PTL DEF Spec

(* TypeOK: rows are rows, with ids below the next one.                     *)
THEOREM TypeCorrect == Spec => []TypeOK
<1>1. Shape => TypeOK
  BY DEF Shape, TypeOK, Row
<1> QED BY <1>1, ShapeHolds, PTL

(***************************************************************************)
(* Any text                                                                *)
(***************************************************************************)

(* A row whose hash is still in the text is reused by the first such piece *)
(* or left alone: it is never deleted.                                     *)
LEMMA NoneIsLost ==
  ASSUME Shape, NEW p \in Pieces, NEW r \in rows, r.hash \in Range(p)
  PROVE  \E n \in Reconciled(rows, p, nextId) : n.id = r.id /\ n.hash = r.hash
<1>1. CASE r \in ByHash(rows, r.hash)
  <2>1. PICK i \in DOMAIN p : p[i] = r.hash /\ IsFirst(p, i)
    BY FirstPlace DEF Shape
  <2>2. Reuses(rows, p, i) /\ r \in ByHash(rows, p[i])
    BY <1>1, <2>1 DEF Reuses
  <2>3. [r EXCEPT !.position = i - 1] \in Moved(rows, p)
    BY <2>2 DEF Moved
  <2>4. /\ [r EXCEPT !.position = i - 1].id = r.id
        /\ [r EXCEPT !.position = i - 1].hash = r.hash
    BY DEF Shape, Row
  <2> QED BY <2>3, <2>4 DEF Reconciled
<1>2. CASE r \notin ByHash(rows, r.hash)
  BY <1>2 DEF LeftAlone, Reconciled
<1> QED BY <1>1, <1>2

(* KeepsWhatDidNotChange: FR-11a for any text, repeated pieces included: a *)
(* hash that is still in the text keeps its row and its embedding.         *)
THEOREM EmbeddingsSurvive == Spec => KeepsWhatDidNotChange
<1>1. Shape /\ [Next]_vars =>
        [\A r \in rows : (rows' # rows /\ r.hash \in Range(done'))
                           => \E n \in rows' : n.id = r.id /\ n.hash = r.hash]_vars
  <2> SUFFICES ASSUME Shape, [Next]_vars, NEW r \in rows, rows' # rows,
                      r.hash \in Range(done')
               PROVE  \E n \in rows' : n.id = r.id /\ n.hash = r.hash
    OBVIOUS
  <2>1. ChunkLesson
    BY DEF Next, UpdateLesson, vars
  <2>2. /\ pieces \in Pieces /\ done' = pieces
        /\ rows' = Reconciled(rows, pieces, nextId)
    BY <2>1 DEF ChunkLesson, Rebuild, Shape
  <2> QED BY <2>2, NoneIsLost
<1> QED BY <1>1, ShapeHolds, PTL DEF Spec, KeepsWhatDidNotChange

(***************************************************************************)
(* Texts that repeat a piece                                               *)
(***************************************************************************)

(* The primary key of chunks, and that nothing of the text is missing.     *)
IdsAreKeys == \A r, o \in rows : r.id = o.id => r = o
EachPieceHasARow ==
  \A i \in DOMAIN done : \E r \in rows : r.position = i - 1 /\ r.hash = done[i]
AnyTextInv == IdsAreKeys /\ EachPieceHasARow /\ PositionsUnique(rows)

(* Of two places that get new rows, the later one gets the higher id.      *)
LEMMA InsertedIds ==
  ASSUME NEW old, NEW p \in Pieces, NEW first \in Nat,
         NEW r \in Inserted(old, p, first), NEW o \in Inserted(old, p, first),
         r.id = o.id
  PROVE  r = o
<1> DEFINE places == {i \in DOMAIN p : ~Reuses(old, p, i)}
           below(i) == {j \in places : j < i}
           new(i) == [id |-> first + Cardinality(below(i)), hash |-> p[i],
                      position |-> i - 1]
<1>1. PICK i \in places : r = new(i)
  BY DEF Inserted
<1>2. PICK j \in places : o = new(j)
  BY DEF Inserted
<1>3. Len(p) \in Nat /\ DOMAIN p = 1 .. Len(p)
  BY TextShape
<1>4. IsFiniteSet(places)
  <2>1. IsFiniteSet(1 .. Len(p)) /\ places \subseteq 1 .. Len(p)
    BY <1>3, FS_Interval
  <2> HIDE DEF places
  <2> QED BY <2>1, FS_Subset
<1>5. ASSUME NEW m \in places, NEW n \in places, m < n
      PROVE  /\ Cardinality(below(m)) \in Nat /\ Cardinality(below(n)) \in Nat
             /\ Cardinality(below(m)) # Cardinality(below(n))
  <2>1. below(m) \subseteq below(n) /\ below(n) \subseteq places /\ below(m) # below(n)
    BY <1>3, <1>5
  <2> HIDE DEF below, places
  <2>2. IsFiniteSet(below(n)) /\ IsFiniteSet(below(m))
    BY <1>4, <2>1, FS_Subset
  <2>3. Cardinality(below(m)) # Cardinality(below(n))
    BY <2>1, <2>2, FS_Subset
  <2> QED BY <2>2, <2>3, FS_CardinalityType
<1>6. first + Cardinality(below(i)) = first + Cardinality(below(j))
  BY <1>1, <1>2
<1>7. i \in Int /\ j \in Int
  BY <1>3
<1>8. i = j
  <2> SUFFICES ASSUME i # j PROVE FALSE
    OBVIOUS
  <2> HIDE DEF below, places
  <2>1. CASE i < j
    BY <1>5, <1>6, <2>1
  <2>2. CASE j < i
    BY <1>5, <1>6, <2>2
  <2> QED BY <1>7, <2>1, <2>2
<1> QED BY <1>1, <1>2, <1>8

(* A hash is reused at one place only and by one row, and what is left     *)
(* alone is not reused.                                                    *)
LEMMA MovedIds ==
  ASSUME Shape, IdsAreKeys, NEW p \in Pieces
  PROVE  /\ \A r, o \in Moved(rows, p) : r.id = o.id => r = o
         /\ \A r \in Moved(rows, p), o \in LeftAlone(rows, p) : r.id # o.id
         /\ \A r \in Moved(rows, p) : \E b \in rows : r.id = b.id
<1>1. p \in Pieces /\ rows \in SUBSET Row
  BY DEF Shape
<1>2. \A r \in Moved(rows, p) : \E i \in DOMAIN p :
        \E b \in ByHash(rows, p[i]) :
          IsFirst(p, i) /\ r = [b EXCEPT !.position = i - 1] /\ r.id = b.id
  <2> SUFFICES ASSUME NEW r \in Moved(rows, p)
               PROVE  \E i \in DOMAIN p :
                        \E b \in ByHash(rows, p[i]) :
                          IsFirst(p, i) /\ r = [b EXCEPT !.position = i - 1]
                            /\ r.id = b.id
    OBVIOUS
  <2>1. PICK i \in DOMAIN p :
          /\ Reuses(rows, p, i)
          /\ \E b \in ByHash(rows, p[i]) : r = [b EXCEPT !.position = i - 1]
    BY DEF Moved
  <2>2. PICK b \in ByHash(rows, p[i]) : r = [b EXCEPT !.position = i - 1]
    BY <2>1
  <2>3. b \in Row
    BY <1>1, <2>2 DEF ByHash
  <2>4. r.id = b.id
    BY <2>2, <2>3 DEF Row
  <2> QED BY <2>1, <2>2, <2>4 DEF Reuses
<1>3. \A h : ByHash(rows, h) \subseteq rows
  BY DEF ByHash
<1>4. LeftAlone(rows, p) \subseteq rows
  BY DEF LeftAlone
<1>5. ASSUME NEW r \in Moved(rows, p), NEW o \in Moved(rows, p), r.id = o.id
      PROVE  r = o
  <2>1. PICK i \in DOMAIN p : \E b \in ByHash(rows, p[i]) :
          IsFirst(p, i) /\ r = [b EXCEPT !.position = i - 1] /\ r.id = b.id
    BY <1>2
  <2>2. PICK b \in ByHash(rows, p[i]) :
          IsFirst(p, i) /\ r = [b EXCEPT !.position = i - 1] /\ r.id = b.id
    BY <2>1
  <2>3. PICK j \in DOMAIN p : \E c \in ByHash(rows, p[j]) :
          IsFirst(p, j) /\ o = [c EXCEPT !.position = j - 1] /\ o.id = c.id
    BY <1>2
  <2>4. PICK c \in ByHash(rows, p[j]) :
          IsFirst(p, j) /\ o = [c EXCEPT !.position = j - 1] /\ o.id = c.id
    BY <2>3
  <2>5. b = c
    BY <1>3, <1>5, <2>2, <2>4 DEF IdsAreKeys
  <2>6. p[i] = p[j]
    BY <2>2, <2>4, <2>5 DEF ByHash
  <2>7. i = j
    <3>1. i \in 1 .. Len(p) /\ j \in 1 .. Len(p) /\ Len(p) \in Nat
      BY <1>1, TextShape
    <3>2. ~(i < j) /\ ~(j < i)
      BY <2>2, <2>4, <2>6, <3>1 DEF IsFirst
    <3> QED BY <3>1, <3>2
  <2> QED BY <2>2, <2>4, <2>5, <2>7
<1>6. ASSUME NEW r \in Moved(rows, p), NEW o \in LeftAlone(rows, p)
      PROVE  r.id # o.id
  <2>1. PICK i \in DOMAIN p : \E b \in ByHash(rows, p[i]) : r.id = b.id
    BY <1>2
  <2>2. PICK b \in ByHash(rows, p[i]) : r.id = b.id
    BY <2>1
  <2>3. o \notin ByHash(rows, o.hash) /\ b \in ByHash(rows, b.hash)
    BY <2>2 DEF LeftAlone, ByHash
  <2> QED BY <1>3, <1>4, <2>2, <2>3 DEF IdsAreKeys
<1> QED BY <1>2, <1>3, <1>5, <1>6

(* A run never gives two rows one id.                                      *)
LEMMA RunKeepsKeys ==
  ASSUME Shape, IdsAreKeys, NEW p \in Pieces, Rebuild(p)
  PROVE  IdsAreKeys'
<1>1. p \in Pieces /\ rows \in SUBSET Row /\ nextId \in Nat
  BY DEF Shape
<1>2. \A r \in Inserted(rows, p, nextId) : r.id \in Nat /\ r.id >= nextId
  BY <1>1, InsertedRows DEF Row
<1>3. \A r \in rows : r.id \in Nat /\ r.id < nextId
  BY DEF Shape
<1>4. /\ \A r, o \in Moved(rows, p) : r.id = o.id => r = o
      /\ \A r \in Moved(rows, p), o \in LeftAlone(rows, p) : r.id # o.id
      /\ \A r \in Moved(rows, p) : \E b \in rows : r.id = b.id
  BY MovedIds
<1>5. LeftAlone(rows, p) \subseteq rows
  BY DEF LeftAlone
<1>6. \A r \in Moved(rows, p) : r.id \in Nat /\ r.id < nextId
  BY <1>3, <1>4
<1>7. \A r \in LeftAlone(rows, p) : r.id \in Nat /\ r.id < nextId
  BY <1>3, <1>5
<1>8. \A r, o \in Inserted(rows, p, nextId) : r.id = o.id => r = o
  BY <1>1, InsertedIds
<1>9. rows' = Moved(rows, p) \cup Inserted(rows, p, nextId)
                \cup LeftAlone(rows, p)
  BY DEF Rebuild, Reconciled
<1> SUFFICES ASSUME NEW r \in rows', NEW o \in rows', r.id = o.id PROVE r = o
  BY DEF IdsAreKeys
<1>10. CASE r \in Inserted(rows, p, nextId)
  <2>1. o \in Inserted(rows, p, nextId)
    BY <1>1, <1>2, <1>6, <1>7, <1>9, <1>10
  <2> QED BY <1>8, <1>10, <2>1
<1>11. CASE r \in Moved(rows, p)
  <2>1. o \in Moved(rows, p)
    BY <1>1, <1>2, <1>4, <1>6, <1>9, <1>11
  <2> QED BY <1>4, <1>11, <2>1
<1>12. CASE r \in LeftAlone(rows, p)
  <2>1. o \in LeftAlone(rows, p)
    BY <1>1, <1>2, <1>4, <1>7, <1>9, <1>12
  <2> QED BY <1>5, <1>12, <2>1 DEF IdsAreKeys
<1> QED BY <1>9, <1>10, <1>11, <1>12

(* A run leaves a row for every piece: the first of its hash reuses one if *)
(* there is one, the others get a new one.                                 *)
LEMMA RunLeavesEach ==
  ASSUME Shape, NEW p \in Pieces, Rebuild(p)
  PROVE  EachPieceHasARow'
<1>1. p \in Pieces /\ rows \in SUBSET Row /\ nextId \in Nat
  BY DEF Shape
<1>2. rows' = Moved(rows, p) \cup Inserted(rows, p, nextId)
                \cup LeftAlone(rows, p)
  BY DEF Rebuild, Reconciled
<1> SUFFICES ASSUME NEW i \in DOMAIN p
             PROVE  \E r \in rows' : r.position = i - 1 /\ r.hash = p[i]
  BY DEF EachPieceHasARow, Rebuild
<1>3. CASE Reuses(rows, p, i)
  <2>1. PICK r \in ByHash(rows, p[i]) : TRUE
    BY <1>3 DEF Reuses
  <2>2. [r EXCEPT !.position = i - 1] \in Moved(rows, p)
    BY <1>3, <2>1 DEF Moved
  <2>3. r \in Row /\ r.hash = p[i]
    BY <1>1, <2>1 DEF ByHash
  <2>4. /\ [r EXCEPT !.position = i - 1].position = i - 1
        /\ [r EXCEPT !.position = i - 1].hash = p[i]
    BY <2>3 DEF Row
  <2> QED BY <1>2, <2>2, <2>4
<1>4. CASE ~Reuses(rows, p, i)
  <2> DEFINE places == {j \in DOMAIN p : ~Reuses(rows, p, j)}
             new == [id |-> nextId + Cardinality({j \in places : j < i}),
                     hash |-> p[i], position |-> i - 1]
  <2>1. new \in Inserted(rows, p, nextId)
    BY <1>4 DEF Inserted
  <2>2. new.hash = p[i] /\ new.position = i - 1
    OBVIOUS
  <2> QED BY <1>2, <2>1, <2>2
<1> QED BY <1>3, <1>4

(* AnyTextInv is inductive for any text.                                   *)
LEMMA AnyTextHolds == Spec => [](Shape /\ AnyTextInv)
<1>1. Init => AnyTextInv
  BY DEF Init, AnyTextInv, IdsAreKeys, EachPieceHasARow, PositionsUnique
<1>2. Shape /\ AnyTextInv /\ [Next]_vars => AnyTextInv'
  <2> SUFFICES ASSUME Shape, AnyTextInv, [Next]_vars PROVE AnyTextInv'
    OBVIOUS
  <2>1. CASE ChunkLesson
    <3>1. pieces \in Pieces /\ Rebuild(pieces) /\ IdsAreKeys
      BY <2>1 DEF ChunkLesson, Shape, AnyTextInv
    <3>2. PositionsUnique(rows)'
      BY <3>1 DEF Rebuild, PositionsUnique
    <3> QED BY <3>1, <3>2, RunKeepsKeys, RunLeavesEach DEF AnyTextInv
  <2>2. CASE UpdateLesson \/ UNCHANGED vars
    BY <2>2 DEF UpdateLesson, vars, AnyTextInv, IdsAreKeys, EachPieceHasARow,
                PositionsUnique
  <2> QED BY <2>1, <2>2 DEF Next
<1> QED BY <1>1, <1>2, ShapeHolds, PTL DEF Spec

(* chunk_lesson, for any text: after a run nothing of the text is missing, *)
(* also where a piece is repeated.                                         *)
THEOREM NothingMissing == Spec => []EachPieceHasARow
<1>1. AnyTextInv => EachPieceHasARow
  BY DEF AnyTextInv
<1> QED BY <1>1, AnyTextHolds, PTL

(* chunk_one_lesson, "Running this twice on the same lesson produces the   *)
(* same chunks": whenever the text repeats a piece, a run right after a    *)
(* run is refused by the unique position. The last row of the repeated     *)
(* hash goes to its first place, where another row of it has been left.    *)
THEOREM RepeatsAreRefused ==
  Spec => [](done = pieces /\ ~IsInjective(pieces)
               => ~PositionsUnique(Reconciled(rows, pieces, nextId)))
<1>1. Shape /\ AnyTextInv =>
        (done = pieces /\ ~IsInjective(pieces)
           => ~PositionsUnique(Reconciled(rows, pieces, nextId)))
  <2> SUFFICES ASSUME Shape, AnyTextInv, done = pieces, ~IsInjective(pieces)
               PROVE  ~PositionsUnique(Reconciled(rows, pieces, nextId))
    OBVIOUS
  <2>1. pieces \in Pieces /\ rows \in SUBSET Row
    BY DEF Shape
  <2>2. Len(pieces) \in Nat /\ DOMAIN pieces = 1 .. Len(pieces)
    BY <2>1, TextShape
  <2>3. PICK k \in DOMAIN pieces, n \in DOMAIN pieces : pieces[k] = pieces[n] /\ k # n
    BY DEF IsInjective
  <2> DEFINE h == pieces[k]
  <2>4. h \in Range(pieces)
    BY <2>1, TextShape
  <2>5. PICK i \in DOMAIN pieces : pieces[i] = h /\ IsFirst(pieces, i)
    BY <2>1, <2>4, FirstPlace
  <2>6. PICK j \in DOMAIN pieces : pieces[j] = h /\ j > i
    BY <2>2, <2>3, <2>5 DEF IsFirst
  <2>7. PICK o \in rows : o.position = i - 1 /\ o.hash = h
    BY <2>5 DEF AnyTextInv, EachPieceHasARow
  <2>8. PICK u \in rows : u.position = j - 1 /\ u.hash = h
    BY <2>6 DEF AnyTextInv, EachPieceHasARow
  <2>9. o.position < u.position
    BY <2>2, <2>6, <2>7, <2>8
  <2>10. o \in LeftAlone(rows, pieces)
    <3>1. o.position \in Nat /\ u.position \in Nat
      BY <2>1 DEF Row
    <3> QED BY <2>4, <2>7, <2>8, <2>9, <3>1 DEF LeftAlone, ByHash
  <2>11. \E r \in Reconciled(rows, pieces, nextId) : r.position = i - 1 /\ r.id # o.id
    <3>1. CASE Reuses(rows, pieces, i)
      <4>1. PICK z \in ByHash(rows, h) : TRUE
        BY <2>5, <3>1 DEF Reuses
      <4>2. [z EXCEPT !.position = i - 1] \in Moved(rows, pieces)
        BY <2>5, <3>1, <4>1 DEF Moved
      <4>3. z \in rows /\ z \in Row
        BY <2>1, <4>1 DEF ByHash
      <4>4. /\ [z EXCEPT !.position = i - 1].position = i - 1
            /\ [z EXCEPT !.position = i - 1].id = z.id
        BY <4>3 DEF Row
      <4>5. z # o
        BY <2>4, <2>10, <4>1, <2>7 DEF LeftAlone
      <4> QED BY <4>2, <4>3, <4>4, <4>5 DEF Reconciled, AnyTextInv, IdsAreKeys
    <3>2. CASE ~Reuses(rows, pieces, i)
      <4>1. PICK r \in Inserted(rows, pieces, nextId) : r.position = i - 1
        BY <3>2, InsertedPlaces
      <4>2. r.id \in Nat /\ r.id >= nextId /\ nextId \in Nat
        BY <2>1, InsertedRows DEF Row, Shape
      <4>3. o.id \in Nat /\ o.id < nextId
        BY <4>2 DEF Shape
      <4> QED BY <4>1, <4>2, <4>3 DEF Reconciled
    <3> QED BY <3>1, <3>2
  <2>12. LeftAlone(rows, pieces) \subseteq Reconciled(rows, pieces, nextId)
    BY DEF Reconciled
  <2> QED BY <2>7, <2>10, <2>11, <2>12 DEF PositionsUnique
<1> QED BY <1>1, AnyTextHolds, PTL

(***************************************************************************)
(* Texts that repeat no piece                                              *)
(***************************************************************************)

(* Every row is the piece at its place, every piece has a row, and no two  *)
(* rows share a place.                                                     *)
EachIsAPiece ==
  \A r \in rows : r.position < Len(done) /\ r.hash = done[r.position + 1]
EachHasARow == \A i \in DOMAIN done : \E r \in rows : r.position = i - 1
OnePerPlace == PositionsUnique(rows)

RowsInv == EachIsAPiece /\ EachHasARow /\ OnePerPlace

(* The text of the last run repeats no piece either; it may be empty.      *)
LEMMA DoneShape ==
  ASSUME Shape, Distinct
  PROVE  /\ Len(done) \in Nat /\ DOMAIN done = 1 .. Len(done)
         /\ \A i, j \in DOMAIN done : done[i] = done[j] => i = j
<1>1. CASE done = <<>>
  BY <1>1
<1>2. CASE done \in Pieces
  BY <1>2, TextShape DEF Distinct, IsInjective
<1> QED BY <1>1, <1>2 DEF Shape

(* Two rows never have the same hash, so every row is the one of its hash. *)
LEMMA OneRowEach ==
  ASSUME Shape, Distinct, RowsInv, NEW r \in rows
  PROVE  ByHash(rows, r.hash) = {r}
<1>1. \A o \in rows : o.hash = r.hash => o = r
  <2> SUFFICES ASSUME NEW o \in rows, o.hash = r.hash PROVE o = r
    OBVIOUS
  <2>1. o.position \in Nat /\ r.position \in Nat
    BY DEF Shape, Row
  <2>2. /\ o.position < Len(done) /\ o.hash = done[o.position + 1]
        /\ r.position < Len(done) /\ r.hash = done[r.position + 1]
    BY DEF RowsInv, EachIsAPiece
  <2>3. o.position + 1 \in DOMAIN done /\ r.position + 1 \in DOMAIN done
    BY <2>1, <2>2, DoneShape
  <2>4. o.position + 1 = r.position + 1
    BY <2>2, <2>3, DoneShape
  <2>5. o.position = r.position
    BY <2>1, <2>4
  <2> QED BY <2>5 DEF RowsInv, OnePerPlace, PositionsUnique
<1>2. r.position <= r.position
  BY DEF Shape, Row
<1> QED BY <1>1, <1>2 DEF ByHash

(* So a run leaves nothing alone, and its rows are the pieces again.       *)
LEMMA RunIsExact ==
  ASSUME Shape, Distinct, RowsInv, NEW p \in Pieces, Rebuild(p)
  PROVE  RowsInv'
<1>1. p \in Pieces /\ rows \in SUBSET Row /\ nextId \in Nat
  BY DEF Shape
<1>2. LeftAlone(rows, p) = {}
  BY OneRowEach DEF LeftAlone
<1>3. /\ rows' = Moved(rows, p) \cup Inserted(rows, p, nextId)
      /\ done' = p
  BY <1>2 DEF Rebuild, Reconciled
<1>4. Len(p) \in Nat /\ DOMAIN p = 1 .. Len(p)
  BY <1>1, TextShape
<1>5. \A r \in rows' : \E i \in DOMAIN p : r.hash = p[i] /\ r.position = i - 1
  <2> SUFFICES ASSUME NEW r \in rows'
               PROVE  \E i \in DOMAIN p : r.hash = p[i] /\ r.position = i - 1
    OBVIOUS
  <2>1. CASE r \in Moved(rows, p)
    <3>1. \E o \in rows, i \in DOMAIN p :
            r \in Row /\ r.id = o.id /\ r.hash = p[i] /\ r.position = i - 1
      BY <1>1, <2>1, MovedRows
    <3> QED BY <3>1
  <2>2. CASE r \in Inserted(rows, p, nextId)
    <3>1. \A n \in Inserted(rows, p, nextId) :
            \E i \in DOMAIN p : n.hash = p[i] /\ n.position = i - 1
      BY InsertedPlaces
    <3> QED BY <2>2, <3>1
  <2> QED BY <1>3, <2>1, <2>2
<1>6. EachIsAPiece'
  <2> SUFFICES ASSUME NEW r \in rows'
               PROVE  r.position < Len(p) /\ r.hash = p[r.position + 1]
    BY <1>3 DEF EachIsAPiece
  <2>1. PICK i \in DOMAIN p : r.hash = p[i] /\ r.position = i - 1
    BY <1>5
  <2>2. i \in Int /\ i <= Len(p)
    BY <1>4
  <2>3. r.position < Len(p) /\ r.position + 1 = i
    BY <1>4, <2>1, <2>2
  <2> QED BY <2>1, <2>3
<1>7. EachHasARow'
  <2> SUFFICES ASSUME NEW i \in DOMAIN p PROVE \E r \in rows' : r.position = i - 1
    BY <1>3 DEF EachHasARow
  <2>1. CASE Reuses(rows, p, i)
    <3>1. PICK r \in ByHash(rows, p[i]) : TRUE
      BY <2>1 DEF Reuses
    <3>2. [r EXCEPT !.position = i - 1] \in Moved(rows, p)
      BY <2>1, <3>1 DEF Moved
    <3>3. r \in Row
      BY <1>1, <3>1 DEF ByHash
    <3>4. [r EXCEPT !.position = i - 1].position = i - 1
      BY <3>3 DEF Row
    <3> QED BY <1>3, <3>2, <3>4
  <2>2. CASE ~Reuses(rows, p, i)
    BY <1>3, <2>2, InsertedPlaces
  <2> QED BY <2>1, <2>2
<1>8. OnePerPlace'
  BY DEF Rebuild, OnePerPlace, PositionsUnique
<1> QED BY <1>6, <1>7, <1>8 DEF RowsInv

(* RowsInv is inductive when no text repeats a piece.                      *)
LEMMA RowsHold == ASSUME Distinct PROVE Spec => [](Shape /\ RowsInv)
<1>1. Init => RowsInv
  BY DEF Init, RowsInv, EachIsAPiece, EachHasARow, OnePerPlace, PositionsUnique
<1>2. Shape /\ RowsInv /\ [Next]_vars => RowsInv'
  <2> SUFFICES ASSUME Shape, RowsInv, [Next]_vars PROVE RowsInv'
    OBVIOUS
  <2>1. CASE ChunkLesson
    <3>1. pieces \in Pieces /\ Rebuild(pieces)
      BY <2>1 DEF ChunkLesson, Shape
    <3> QED BY <3>1, RunIsExact
  <2>2. CASE UpdateLesson \/ UNCHANGED vars
    BY <2>2 DEF UpdateLesson, vars, RowsInv, EachIsAPiece, EachHasARow, OnePerPlace,
                PositionsUnique
  <2> QED BY <2>1, <2>2 DEF Next
<1> QED BY <1>1, <1>2, ShapeHolds, PTL DEF Spec

(* Rows at different places, one for each piece, are as many as the pieces.*)
LEMMA AsManyAsPieces ==
  ASSUME Shape, Distinct, RowsInv
  PROVE  Cardinality(rows) = Len(done)
<1> DEFINE f == [r \in rows |-> r.position + 1]
<1>1. Len(done) \in Nat /\ DOMAIN done = 1 .. Len(done)
  BY DoneShape
<1>2. \A r \in rows : r.position \in Nat /\ f[r] = r.position + 1
  BY DEF Shape, Row
<1>3. f \in [rows -> 1 .. Len(done)]
  BY <1>1, <1>2 DEF RowsInv, EachIsAPiece
<1>4. \A r, o \in rows : f[r] = f[o] => r = o
  <2> SUFFICES ASSUME NEW r \in rows, NEW o \in rows, f[r] = f[o] PROVE r = o
    OBVIOUS
  <2>1. r.position = o.position
    BY <1>2
  <2> QED BY <2>1 DEF RowsInv, OnePerPlace, PositionsUnique
<1>5. \A i \in 1 .. Len(done) : \E r \in rows : f[r] = i
  <2> SUFFICES ASSUME NEW i \in 1 .. Len(done) PROVE \E r \in rows : f[r] = i
    OBVIOUS
  <2>1. PICK r \in rows : r.position = i - 1
    BY <1>1 DEF RowsInv, EachHasARow
  <2> QED BY <1>2, <2>1
<1>6. IsFiniteSet(1 .. Len(done)) /\ Cardinality(1 .. Len(done)) = Len(done)
  <2>1. 1 \in Int /\ Len(done) \in Int
    BY <1>1
  <2>2. /\ IsFiniteSet(1 .. Len(done))
        /\ Cardinality(1 .. Len(done)) =
             IF 1 > Len(done) THEN 0 ELSE Len(done) - 1 + 1
    BY <2>1, FS_Interval
  <2> QED BY <1>1, <2>2
<1> HIDE DEF f
<1>7. f \in Injection(rows, 1 .. Len(done)) /\ f \in Surjection(rows, 1 .. Len(done))
  BY <1>3, <1>4, <1>5 DEF Injection, Surjection, IsInjective
<1> QED BY <1>6, <1>7, FS_Injection

(* RowsAreThePieces: what chunk_lesson returns, len(pieces), is the number *)
(* of rows, and each row is the piece at its place.                        *)
THEOREM RowsExact == ASSUME Distinct PROVE Spec => []RowsAreThePieces
<1>1. Shape /\ RowsInv => RowsAreThePieces
  BY AsManyAsPieces DEF RowsInv, EachIsAPiece, RowsAreThePieces
<1> QED BY <1>1, RowsHold, PTL

(* Rows that are the pieces of a text are kept as they are by a run on it. *)
LEMMA SecondRun ==
  ASSUME Shape, Distinct, RowsInv
  PROVE  SecondRunChangesNothing
<1> SUFFICES ASSUME Shape, RowsInv, rows # {}, done = pieces
             PROVE  Reconciled(rows, pieces, nextId) = rows
  BY DEF SecondRunChangesNothing
<1>1. LeftAlone(rows, pieces) = {}
  BY OneRowEach DEF LeftAlone
<1>2. \A r \in rows : /\ r.position + 1 \in DOMAIN pieces
                      /\ r.hash = pieces[r.position + 1] /\ r.position \in Nat
  BY DoneShape DEF RowsInv, EachIsAPiece, Shape, Row
<1>3. \A i \in DOMAIN pieces : \E r \in rows : /\ r.position = i - 1
                                               /\ ByHash(rows, pieces[i]) = {r}
  <2> SUFFICES ASSUME NEW i \in DOMAIN pieces
               PROVE  \E r \in rows : r.position = i - 1 /\ ByHash(rows, pieces[i]) = {r}
    OBVIOUS
  <2>1. PICK r \in rows : r.position = i - 1
    BY DEF RowsInv, EachHasARow
  <2>2. i \in Int
    BY DoneShape
  <2>3. r.hash = pieces[i]
    BY <1>2, <2>1, <2>2
  <2> QED BY <2>1, <2>3, OneRowEach
<1>4. \A i \in DOMAIN pieces : Reuses(rows, pieces, i)
  <2> SUFFICES ASSUME NEW i \in DOMAIN pieces PROVE Reuses(rows, pieces, i)
    OBVIOUS
  <2>1. IsFirst(pieces, i)
    BY DoneShape DEF IsFirst
  <2> QED BY <1>3, <2>1 DEF Reuses
<1>5. Inserted(rows, pieces, nextId) = {}
  BY <1>4 DEF Inserted
<1>6. \A r \in rows : r = [r EXCEPT !.position = r.position]
  BY DEF Shape, Row
<1>7. \A i \in DOMAIN pieces :
        \E r \in rows : /\ r.position = i - 1
                        /\ {[q EXCEPT !.position = i - 1] :
                              q \in ByHash(rows, pieces[i])} = {r}
  <2> SUFFICES ASSUME NEW i \in DOMAIN pieces
               PROVE  \E r \in rows :
                        /\ r.position = i - 1
                        /\ {[q EXCEPT !.position = i - 1] :
                              q \in ByHash(rows, pieces[i])} = {r}
    OBVIOUS
  <2>1. PICK r \in rows : r.position = i - 1 /\ ByHash(rows, pieces[i]) = {r}
    BY <1>3
  <2>2. [r EXCEPT !.position = i - 1] = r
    BY <1>6, <2>1
  <2> QED BY <2>1, <2>2
<1>8. Moved(rows, pieces) \subseteq rows
  BY <1>7 DEF Moved
<1>9. rows \subseteq Moved(rows, pieces)
  <2> SUFFICES ASSUME NEW r \in rows PROVE r \in Moved(rows, pieces)
    OBVIOUS
  <2>1. PICK i \in DOMAIN pieces : i = r.position + 1
    BY <1>2
  <2>2. i - 1 = r.position /\ pieces[i] = r.hash
    BY <1>2, <2>1
  <2>3. r \in ByHash(rows, pieces[i]) /\ [r EXCEPT !.position = i - 1] = r
    BY <1>6, <2>2, OneRowEach
  <2> QED BY <1>4, <2>3 DEF Moved
<1> QED BY <1>1, <1>5, <1>8, <1>9 DEF Reconciled

(* SecondRunChangesNothing: a retry of chunk_one_lesson after its commit   *)
(* finds every piece in its place.                                         *)
THEOREM RetryIsHarmless == ASSUME Distinct PROVE Spec => []SecondRunChangesNothing
<1>1. Shape /\ RowsInv => SecondRunChangesNothing
  BY SecondRun
<1> QED BY <1>1, RowsHold, PTL
(***************************************************************************)
(* Attempts that outlive their timeout (ReconcileLate)                     *)
(***************************************************************************)

(* A run, like a serial one, gives a row the hash it had or is its first.  *)
LEMMA RunKeepsHashes ==
  ASSUME Shape, NEW p \in Pieces, Rebuild(p), NEW r \in rows'
  PROVE  (\E b \in rows : b.id = r.id /\ b.hash = r.hash) \/ r.id >= nextId
<1>1. rows \in SUBSET Row /\ nextId \in Nat
  BY DEF Shape
<1>2. rows' = Moved(rows, p) \cup Inserted(rows, p, nextId) \cup LeftAlone(rows, p)
  BY DEF Rebuild, Reconciled
<1>3. CASE r \in Moved(rows, p)
  BY <1>1, <1>3, MovedRows
<1>4. CASE r \in Inserted(rows, p, nextId)
  BY <1>1, <1>4, InsertedRows
<1>5. CASE r \in LeftAlone(rows, p)
  BY <1>5 DEF LeftAlone
<1> QED BY <1>2, <1>3, <1>4, <1>5

(* An attempt that commits over the rows it found is a run: the rows it    *)
(* does not name are those it leaves alone or where they are.              *)
LEMMA CommitIsARun ==
  ASSUME Shape, IdsAreKeys, NEW a \in Attempts, text[a] \in Pieces,
         found[a] = rows, Commit(a)
  PROVE  Rebuild(text[a])
<1> DEFINE p == text[a]
<1>1. p \in Pieces /\ rows \in SUBSET Row
  BY DEF Shape
<1>2. /\ \A r, o \in Moved(rows, p) : r.id = o.id => r = o
      /\ \A r \in Moved(rows, p), o \in LeftAlone(rows, p) : r.id # o.id
      /\ \A r \in Moved(rows, p) : \E b \in rows : r.id = b.id
  BY <1>1, MovedIds
<1>3. /\ Deleted(a) = {r \in rows : r.hash \notin Range(p)}
      /\ Updated(a) = Moved(rows, p) \ rows
  BY DEF Deleted, Updated
<1>4. \A r \in Moved(rows, p) : r.hash \in Range(p)
  <2> SUFFICES ASSUME NEW r \in Moved(rows, p) PROVE r.hash \in Range(p)
    OBVIOUS
  <2>1. \E b \in rows, i \in DOMAIN p :
          /\ r \in Row /\ r.id = b.id /\ r.hash = p[i] /\ r.position = i - 1
          /\ b.hash = p[i]
    BY <1>1, MovedRows
  <2> QED BY <1>1, <2>1, TextShape
<1> DEFINE Stay == {r \in rows : r.id \notin Ids(Deleted(a) \cup Updated(a))}
           Change == {r \in Updated(a) : r.id \in Ids(rows)}
<1>5. Stay \cup Change \subseteq Moved(rows, p) \cup LeftAlone(rows, p)
  <2>1. Change \subseteq Moved(rows, p)
    BY <1>3
  <2>2. ASSUME NEW r \in Stay PROVE r \in Moved(rows, p) \cup LeftAlone(rows, p)
    <3>1. r \in rows /\ r \notin Deleted(a) /\ \A u \in Updated(a) : u.id # r.id
      BY <2>2 DEF Ids
    <3>2. r.hash \in Range(p)
      BY <1>3, <3>1
    <3>3. CASE r \notin ByHash(rows, r.hash)
      BY <3>1, <3>2, <3>3 DEF LeftAlone
    <3>4. CASE r \in ByHash(rows, r.hash)
      <4>1. PICK i \in DOMAIN p : p[i] = r.hash /\ IsFirst(p, i)
        BY <1>1, <3>2, FirstPlace
      <4>2. Reuses(rows, p, i) /\ r \in ByHash(rows, p[i])
        BY <3>4, <4>1 DEF Reuses
      <4>3. [r EXCEPT !.position = i - 1] \in Moved(rows, p)
        BY <4>2 DEF Moved
      <4>4. [r EXCEPT !.position = i - 1].id = r.id
        BY <1>1, <3>1 DEF Row
      <4>5. [r EXCEPT !.position = i - 1] \in rows
        BY <1>3, <3>1, <4>3, <4>4
      <4>6. [r EXCEPT !.position = i - 1] = r
        BY <3>1, <4>4, <4>5 DEF IdsAreKeys
      <4> QED BY <4>3, <4>6
    <3> QED BY <3>3, <3>4
  <2> QED BY <2>1, <2>2
<1>6. Moved(rows, p) \subseteq Stay \cup Change
  <2> SUFFICES ASSUME NEW r \in Moved(rows, p) PROVE r \in Stay \cup Change
    OBVIOUS
  <2>1. CASE r \notin rows
    BY <1>2, <1>3, <2>1 DEF Ids
  <2>2. CASE r \in rows
    <3>1. \A o \in Deleted(a) : o.id # r.id
      BY <1>3, <1>4, <2>2 DEF IdsAreKeys
    <3>2. \A o \in Updated(a) : o.id # r.id
      BY <1>2, <1>3, <2>2
    <3> QED BY <2>2, <3>1, <3>2 DEF Ids
  <2> QED BY <2>1, <2>2
<1>7. LeftAlone(rows, p) \subseteq Stay
  <2> SUFFICES ASSUME NEW r \in LeftAlone(rows, p) PROVE r \in Stay
    OBVIOUS
  <2>1. r \in rows /\ r.hash \in Range(p)
    BY DEF LeftAlone
  <2>2. \A o \in Deleted(a) : o.id # r.id
    BY <1>3, <2>1 DEF IdsAreKeys
  <2>3. \A o \in Updated(a) : o.id # r.id
    BY <1>2, <1>3
  <2> QED BY <2>1, <2>2, <2>3 DEF Ids
<1>8. Stay \cup Change \cup Inserted(rows, p, nextId) = Reconciled(rows, p, nextId)
  <2> HIDE DEF Stay, Change
  <2> QED BY <1>5, <1>6, <1>7 DEF Reconciled
<1>9. Flushed(a) = Reconciled(rows, p, nextId)
  <2>1. CASE p # <<>>
    BY <1>8, <2>1 DEF Flushed
  <2>2. CASE p = <<>>
    <3>1. DOMAIN p = {} /\ Range(p) = {}
      BY <2>2 DEF Range
    <3>2. Reconciled(rows, p, nextId) = {}
      BY <3>1 DEF Reconciled, Moved, Inserted, LeftAlone
    <3> QED BY <2>2, <3>2 DEF Flushed
  <2> QED BY <2>1, <2>2
<1> QED BY <1>9 DEF Commit, Rebuild

(* What the workflow and the attempts hold, and that a row an attempt has  *)
(* found has the hash it has now, if it is still there: a hash is never    *)
(* updated.                                                                *)
WorkShape ==
  /\ run \in {"none", "running", "completed", "failed"} /\ tries \in Nat
  /\ current \in Attempts \cup {NoAttempt}
  /\ at \in [Attempts -> {"idle", "started", "lesson", "chunks", "committed"}]
  /\ text \in [Attempts -> Pieces \cup {<<>>}]
  /\ found \in [Attempts -> SUBSET Row]
  /\ edited \in BOOLEAN
  /\ current # NoAttempt => run = "running" /\ at[current] # "idle"
  /\ \A a \in Attempts : /\ at[a] = "committed" => a = current
                         /\ at[a] \in {"lesson", "chunks"} => text[a] \in Pieces

KnownRows ==
  \A a \in Attempts : \A z \in found[a] :
    z.id \in 1 .. nextId - 1 /\ \A r \in rows : r.id = z.id => r.hash = z.hash

(* A commit of the text that was committed last changes nothing, whatever  *)
(* rows the attempt found: the rows it would delete are gone, those it     *)
(* would move are there already, and if it inserts, COMMIT refuses it.     *)
LEMMA CommitOfTheSame ==
  ASSUME Shape, Distinct, RowsInv, WorkShape, KnownRows,
         NEW a \in Attempts, text[a] \in Pieces, done = text[a], Commit(a)
  PROVE  rows' = rows /\ nextId' = nextId /\ done' = done
<1> DEFINE p == text[a]
           new == Inserted(found[a], p, nextId)
<1>1. /\ p \in Pieces /\ rows \in SUBSET Row /\ nextId \in Nat
      /\ found[a] \in SUBSET Row
  BY DEF Shape, WorkShape
<1>2. /\ Len(p) \in Nat /\ DOMAIN p = 1 .. Len(p)
      /\ \A i, j \in DOMAIN p : p[i] = p[j] => i = j
  BY DoneShape
<1>3. \A r \in rows : /\ r.position + 1 \in DOMAIN p /\ r.hash = p[r.position + 1]
                      /\ r.id < nextId /\ r.id \in Nat /\ r.position \in Nat
  BY <1>1, <1>2 DEF RowsInv, EachIsAPiece, Row, Shape
<1>4. /\ rows' = Flushed(a) /\ PositionsUnique(Flushed(a)) /\ done' = p
      /\ nextId' = nextId + Cardinality(new)
  BY DEF Commit
<1>5. \A o \in Deleted(a), r \in rows : r.id # o.id
  <2> SUFFICES ASSUME NEW o \in Deleted(a), NEW r \in rows, r.id = o.id PROVE FALSE
    OBVIOUS
  <2>1. o \in found[a] /\ o.hash \notin Range(p)
    BY DEF Deleted
  <2>2. r.hash = o.hash
    BY <2>1 DEF KnownRows
  <2>3. r.hash \in Range(p)
    BY <1>1, <1>3, TextShape
  <2> QED BY <2>1, <2>2, <2>3
<1>6. \A o \in Updated(a), r \in rows : r.id = o.id => r = o
  <2> SUFFICES ASSUME NEW o \in Updated(a), NEW r \in rows, r.id = o.id PROVE r = o
    OBVIOUS
  <2>1. o \in Moved(found[a], p)
    BY DEF Updated
  <2>2. PICK z \in found[a], i \in DOMAIN p :
          /\ o \in Row /\ o.id = z.id /\ o.hash = p[i] /\ o.position = i - 1
          /\ z.hash = p[i]
    BY <1>1, <2>1, MovedRows
  <2>3. r.hash = p[i]
    BY <2>2 DEF KnownRows
  <2>4. r.position + 1 = i
    BY <1>2, <1>3, <2>3
  <2>5. r.position = o.position
    BY <1>2, <1>3, <2>2, <2>4
  <2>6. r \in Row
    BY <1>1
  <2> QED BY <2>2, <2>3, <2>5, <2>6 DEF Row
<1>7. CASE p = <<>>
  <2>1. DOMAIN p = {} /\ rows = {}
    BY <1>3, <1>7
  <2>2. new = {} /\ Flushed(a) = {}
    BY <1>7, <2>1 DEF Inserted, Flushed
  <2>3. Cardinality(new) = 0
    BY <2>2, FS_EmptySet
  <2> QED BY <1>1, <1>4, <2>1, <2>2, <2>3
<1>8. CASE p # <<>>
  <2> DEFINE Stay == {r \in rows : r.id \notin Ids(Deleted(a) \cup Updated(a))}
             Change == {r \in Updated(a) : r.id \in Ids(rows)}
  <2>1. Flushed(a) = Stay \cup Change \cup new
    BY <1>8 DEF Flushed
  <2>2. Stay \cup Change = rows
    <3>1. Change \subseteq rows
      BY <1>6 DEF Ids
    <3>2. ASSUME NEW r \in rows PROVE r \in Stay \cup Change
      <4>1. CASE \E o \in Updated(a) : o.id = r.id
        BY <1>6, <3>2, <4>1 DEF Ids
      <4>2. CASE \A o \in Updated(a) : o.id # r.id
        BY <1>5, <3>2, <4>2 DEF Ids
      <4> QED BY <4>1, <4>2
    <3> QED BY <3>1, <3>2
  <2> HIDE DEF Stay, Change
  <2>3. new = {}
    <3> SUFFICES ASSUME NEW n \in new PROVE FALSE
      OBVIOUS
    <3>1. n.id \in Nat /\ n.id >= nextId
      BY <1>1, InsertedRows DEF Row
    <3>2. PICK i \in DOMAIN p : n.hash = p[i] /\ n.position = i - 1
      BY InsertedPlaces
    <3>3. PICK r \in rows : r.position = i - 1
      BY DEF RowsInv, EachHasARow
    <3>4. r = n
      BY <1>4, <2>1, <2>2, <3>2, <3>3 DEF PositionsUnique
    <3> QED BY <1>1, <1>3, <3>1, <3>4
  <2>4. Cardinality(new) = 0
    BY <2>3, FS_EmptySet
  <2> HIDE DEF new
  <2> QED BY <1>1, <1>4, <2>1, <2>2, <2>3, <2>4
<1> QED BY <1>7, <1>8

(* So an attempt in step is a run or changes nothing.                      *)
LateInv ==
  /\ Shape /\ IdsAreKeys /\ RowsInv /\ WorkShape /\ KnownRows

LEMMA CommitInStep ==
  ASSUME LateInv, Distinct, NEW a \in Attempts, InStep(a), Commit(a)
  PROVE  /\ text[a] \in Pieces /\ pieces' = pieces /\ done' = text[a]
         /\ Rebuild(text[a]) \/ (rows' = rows /\ nextId' = nextId /\ done' = done)
<1>1. at[a] = "chunks" /\ pieces' = pieces /\ done' = text[a]
  BY DEF Commit
<1>2. text[a] \in Pieces
  BY <1>1 DEF LateInv, WorkShape
<1>3. CASE done = text[a]
  BY <1>1, <1>2, <1>3, CommitOfTheSame DEF LateInv
<1>4. CASE rows = found[a]
  BY <1>1, <1>2, <1>4, CommitIsARun DEF LateInv
<1> QED BY <1>1, <1>2, <1>3, <1>4 DEF InStep

(* What such a commit does to the rows.                                    *)
LEMMA CommitKeepsRows ==
  ASSUME LateInv, Distinct, NEW a \in Attempts, InStep(a), Commit(a)
  PROVE  /\ Shape' /\ IdsAreKeys' /\ RowsInv' /\ nextId' >= nextId /\ nextId' \in Nat
         /\ \A b \in Attempts : \A z \in found[b], r \in rows' :
              r.id = z.id => r.hash = z.hash
<1>1. /\ text[a] \in Pieces /\ pieces' = pieces
      /\ Rebuild(text[a]) \/ (rows' = rows /\ nextId' = nextId /\ done' = done)
  BY CommitInStep
<1>2. pieces \in Pieces /\ nextId \in Nat
  BY DEF LateInv, Shape
<1>3. CASE rows' = rows /\ nextId' = nextId /\ done' = done
  BY <1>1, <1>2, <1>3 DEF LateInv, Shape, IdsAreKeys, RowsInv, EachIsAPiece,
                          EachHasARow, OnePerPlace, PositionsUnique, KnownRows
<1>4. CASE Rebuild(text[a])
  <2>1. Shape' /\ IdsAreKeys' /\ RowsInv'
    BY <1>1, <1>2, <1>4, RunShape, RunKeepsKeys, RunIsExact DEF LateInv
  <2>2. nextId' >= nextId /\ nextId' \in Nat
    <3>1. Cardinality(Inserted(rows, text[a], nextId)) \in Nat
      BY <1>1, <1>2, InsertedRows
    <3>2. nextId' = nextId + Cardinality(Inserted(rows, text[a], nextId))
      BY <1>4 DEF Rebuild
    <3> QED BY <1>2, <3>1, <3>2
  <2>3. ASSUME NEW b \in Attempts, NEW z \in found[b], NEW r \in rows', r.id = z.id
        PROVE  r.hash = z.hash
    <3>1. z.id < nextId /\ z.id \in Nat
      BY <1>2, <2>3 DEF LateInv, KnownRows
    <3>2. \E o \in rows : o.id = r.id /\ o.hash = r.hash
      BY <1>1, <1>2, <1>4, <2>3, <3>1, RunKeepsHashes DEF LateInv
    <3> QED BY <2>3, <3>2 DEF LateInv, KnownRows
  <2> QED BY <2>1, <2>2, <2>3
<1> QED BY <1>1, <1>3, <1>4

(* LateInv is inductive.                                                   *)
LEMMA LateInvStarts == LateInit => LateInv
<1>1. LateInit => Shape /\ IdsAreKeys /\ RowsInv
  BY IdsAssumption DEF LateInit, Init, Shape, IdsAreKeys, RowsInv, EachIsAPiece,
                       EachHasARow, OnePerPlace, PositionsUnique
<1>2. LateInit => WorkShape
  <2> SUFFICES ASSUME LateInit PROVE WorkShape
    OBVIOUS
  <2>1. text \in [Attempts -> Pieces \cup {<<>>}] /\ found \in [Attempts -> SUBSET Row]
    BY DEF LateInit
  <2>2. \A a \in Attempts : at[a] = "idle"
    BY DEF LateInit
  <2> QED BY <2>1, <2>2 DEF LateInit, WorkShape
<1>3. LateInit => KnownRows
  BY DEF LateInit, KnownRows
<1> QED BY <1>1, <1>2, <1>3 DEF LateInv

LEMMA LateInvStep ==
  ASSUME Distinct, LateInv, [InStepNext]_lateVars
  PROVE  LateInv'
<1> USE NoAttemptAssumption
<1>0. /\ Shape /\ IdsAreKeys /\ RowsInv /\ WorkShape /\ KnownRows
      /\ nextId \in Nat /\ pieces \in Pieces /\ rows \in SUBSET Row
  BY DEF LateInv, Shape
<1>1. ASSUME rows' = rows, nextId' = nextId, done' = done, pieces' \in Pieces
      PROVE  Shape' /\ IdsAreKeys' /\ RowsInv'
  BY <1>0, <1>1 DEF Shape, IdsAreKeys, RowsInv, EachIsAPiece, EachHasARow,
                    OnePerPlace, PositionsUnique
<1>2. ASSUME UNCHANGED vars PROVE Shape' /\ IdsAreKeys' /\ RowsInv'
  BY <1>0, <1>1, <1>2 DEF vars
<1>3. ASSUME NEW a \in Attempts, Forget(a), nextId' = nextId, rows' = rows
      PROVE  KnownRows'
  BY <1>0, <1>3 DEF Forget, KnownRows, WorkShape
<1>4. CASE Publish
  BY <1>0, <1>2, <1>4 DEF Publish, WorkShape, KnownRows, LateInv, vars, work
<1>5. CASE GiveUp
  BY <1>0, <1>2, <1>5 DEF GiveUp, WorkShape, KnownRows, LateInv, vars, work
<1>6. CASE EditLesson
  <2>1. Shape' /\ IdsAreKeys' /\ RowsInv'
    BY <1>0, <1>1, <1>6 DEF EditLesson, UpdateLesson
  <2> QED BY <1>0, <1>6, <2>1 DEF EditLesson, UpdateLesson, WorkShape, KnownRows,
                                  LateInv, work
<1>7. CASE Report
  <2>1. current \in Attempts
    BY <1>0, <1>7 DEF Report, WorkShape
  <2>2. WorkShape'
    BY <1>0, <1>7, <2>1 DEF Report, Forget, WorkShape
  <2>3. KnownRows'
    BY <1>0, <1>3, <1>7, <2>1 DEF Report, vars
  <2> QED BY <1>2, <1>7, <2>2, <2>3 DEF Report, LateInv
<1>8. CASE TimeOut
  <2>1. current \in Attempts
    BY <1>0, <1>8 DEF TimeOut, WorkShape
  <2>2. CASE at[current] = "committed"
    <3>1. Forget(current)
      BY <1>8, <2>2 DEF TimeOut
    <3>2. WorkShape'
      BY <1>0, <1>8, <2>1, <3>1 DEF TimeOut, Forget, WorkShape
    <3>3. KnownRows'
      BY <1>0, <1>3, <1>8, <2>1, <3>1 DEF TimeOut, vars
    <3> QED BY <1>2, <1>8, <3>2, <3>3 DEF TimeOut, LateInv
  <2>3. CASE at[current] # "committed"
    <3>1. WorkShape' /\ KnownRows'
      BY <1>0, <1>8, <2>1, <2>3 DEF TimeOut, WorkShape, KnownRows, vars, work
    <3> QED BY <1>2, <1>8, <3>1 DEF TimeOut, LateInv
  <2> QED BY <2>2, <2>3
<1>9. ASSUME NEW a \in Attempts, StartAttempt(a) PROVE LateInv'
  BY <1>0, <1>2, <1>9 DEF StartAttempt, WorkShape, KnownRows, LateInv, vars
<1>10. ASSUME NEW a \in Attempts, GetLesson(a) PROVE LateInv'
  BY <1>0, <1>2, <1>10 DEF GetLesson, WorkShape, KnownRows, LateInv, vars
<1>11. ASSUME NEW a \in Attempts, ExistingForLesson(a) PROVE LateInv'
  <2>1. WorkShape'
    BY <1>0, <1>11 DEF ExistingForLesson, WorkShape
  <2>2. KnownRows'
    BY <1>0, <1>11 DEF ExistingForLesson, KnownRows, WorkShape, IdsAreKeys, Shape, vars
  <2> QED BY <1>2, <1>11, <2>1, <2>2 DEF ExistingForLesson, LateInv
<1>12. ASSUME NEW a \in Attempts, Die(a) PROVE LateInv'
  <2>1. WorkShape'
    BY <1>0, <1>12 DEF Die, Forget, WorkShape
  <2>2. KnownRows'
    BY <1>0, <1>3, <1>12 DEF Die, vars
  <2> QED BY <1>2, <1>12, <2>1, <2>2 DEF Die, LateInv
<1>13. ASSUME NEW a \in Attempts, InStep(a), Commit(a) PROVE LateInv'
  <2>1. /\ Shape' /\ IdsAreKeys' /\ RowsInv' /\ nextId' >= nextId /\ nextId' \in Nat
        /\ \A b \in Attempts : \A z \in found[b], r \in rows' :
             r.id = z.id => r.hash = z.hash
    BY <1>13, CommitKeepsRows
  <2>2. CASE a = current
    <3>1. /\ at' = [at EXCEPT ![a] = "committed"] /\ UNCHANGED <<text, found>>
          /\ UNCHANGED <<run, tries, current, edited>>
      BY <1>13, <2>2 DEF Commit
    <3>2. WorkShape'
      BY <1>0, <2>2, <3>1 DEF WorkShape
    <3>3. KnownRows'
      BY <1>0, <2>1, <3>1 DEF KnownRows
    <3> QED BY <2>1, <3>2, <3>3 DEF LateInv
  <2>3. CASE a # current
    <3>1. Forget(a) /\ UNCHANGED <<run, tries, current, edited>>
      BY <1>13, <2>3 DEF Commit
    <3>2. WorkShape'
      BY <1>0, <2>3, <3>1 DEF Forget, WorkShape
    <3>3. \A b \in Attempts : found'[b] \subseteq found[b]
      BY <1>0, <3>1 DEF Forget, WorkShape
    <3>4. KnownRows'
      BY <1>0, <2>1, <3>3 DEF KnownRows
    <3> QED BY <2>1, <3>2, <3>4 DEF LateInv
  <2> QED BY <2>2, <2>3
<1>14. CASE UNCHANGED lateVars
  BY <1>0, <1>2, <1>14 DEF lateVars, work, WorkShape, KnownRows, LateInv, vars
<1> QED BY <1>4, <1>5, <1>6, <1>7, <1>8, <1>9, <1>10, <1>11, <1>12, <1>13, <1>14
        DEF InStepNext, Elsewhere

LEMMA LateInvHolds == ASSUME Distinct PROVE InStepSpec => []LateInv
<1> QED BY LateInvStarts, LateInvStep, PTL DEF InStepSpec

(* LateTypeOK, with attempts of this run and of earlier ones open at once. *)
THEOREM LateTypeCorrect == ASSUME Distinct PROVE InStepSpec => []LateTypeOK
<1>1. LateInv => LateTypeOK
  BY DEF LateInv, Shape, WorkShape, KnownRows, LateTypeOK, TypeOK, Row
<1> QED BY <1>1, LateInvHolds, PTL

(* RowsAreThePieces: attempts that overlap and commit late, in whatever    *)
(* order, leave the rows of one text, as long as none goes astray.         *)
THEOREM RowsExactWithLateAttempts ==
  ASSUME Distinct PROVE InStepSpec => []RowsAreThePieces
<1>1. LateInv => RowsAreThePieces
  BY AsManyAsPieces DEF LateInv, RowsInv, EachIsAPiece, RowsAreThePieces
<1> QED BY <1>1, LateInvHolds, PTL

(* KeepsWhatDidNotChange: nor does any row, and with it its embedding, get *)
(* lost that the text of the commit still has.                             *)
THEOREM EmbeddingsSurviveLateAttempts ==
  ASSUME Distinct PROVE InStepSpec => KeepsWhatDidNotChange
<1>1. LateInv /\ [InStepNext]_lateVars =>
        [\A r \in rows : (rows' # rows /\ r.hash \in Range(done'))
                           => \E n \in rows' : n.id = r.id /\ n.hash = r.hash]_vars
  <2> SUFFICES ASSUME LateInv, [InStepNext]_lateVars, NEW r \in rows, rows' # rows,
                      r.hash \in Range(done')
               PROVE  \E n \in rows' : n.id = r.id /\ n.hash = r.hash
    OBVIOUS
  <2>1. PICK a \in Attempts : InStep(a) /\ Commit(a)
    BY DEF InStepNext, Elsewhere, Publish, Report, TimeOut, GiveUp, EditLesson,
           UpdateLesson, StartAttempt, GetLesson, ExistingForLesson, Die, lateVars,
           vars
  <2>2. text[a] \in Pieces /\ Rebuild(text[a]) /\ done' = text[a]
    BY <2>1, CommitInStep
  <2>3. rows' = Reconciled(rows, text[a], nextId)
    BY <2>2 DEF Rebuild
  <2> QED BY <2>2, <2>3, NoneIsLost DEF LateInv
<1> QED BY <1>1, LateInvHolds, PTL DEF InStepSpec, KeepsWhatDidNotChange

(* SecondRunChangesNothing: nor does a retry find anything to change.      *)
THEOREM RetryIsHarmlessLate ==
  ASSUME Distinct PROVE InStepSpec => []SecondRunChangesNothing
<1>1. LateInv => SecondRunChangesNothing
  BY SecondRun DEF LateInv
<1> QED BY <1>1, LateInvHolds, PTL

(* An attempt that is waited for has read the text of now, if the lesson   *)
(* was not edited since the listing; and a late commit that is in step     *)
(* writes that text, or what is there.                                     *)
InTime ==
  /\ run = "running" /\ ~edited /\ current # NoAttempt =>
       /\ at[current] \in {"lesson", "chunks"} => text[current] = pieces
       /\ at[current] = "committed" => done = pieces
  /\ run = "completed" /\ ~edited => done = pieces

LEMMA InTimeStep ==
  ASSUME Distinct, LateInv, InTime, [InStepNext]_lateVars
  PROVE  InTime'
<1> USE NoAttemptAssumption
<1>0. WorkShape
  BY DEF LateInv
<1>1. CASE Publish
  BY <1>0, <1>1 DEF Publish, InTime, WorkShape, vars, work
<1>2. CASE GiveUp
  BY <1>0, <1>2 DEF GiveUp, InTime, WorkShape, vars, work
<1>3. CASE EditLesson
  BY <1>3 DEF EditLesson, InTime
<1>4. CASE Report
  <2>1. run = "running" /\ at[current] = "committed" /\ current # NoAttempt
    BY <1>0, <1>4 DEF Report, WorkShape
  <2> QED BY <1>4, <2>1 DEF Report, InTime, vars
<1>5. CASE TimeOut
  BY <1>0, <1>5 DEF TimeOut, InTime, WorkShape, vars
<1>6. ASSUME NEW a \in Attempts, StartAttempt(a) PROVE InTime'
  BY <1>0, <1>6 DEF StartAttempt, InTime, WorkShape, vars
<1>7. ASSUME NEW a \in Attempts, GetLesson(a) PROVE InTime'
  BY <1>0, <1>7 DEF GetLesson, InTime, WorkShape, vars
<1>8. ASSUME NEW a \in Attempts, ExistingForLesson(a) PROVE InTime'
  BY <1>0, <1>8 DEF ExistingForLesson, InTime, WorkShape, vars
<1>9. ASSUME NEW a \in Attempts, Die(a) PROVE InTime'
  BY <1>0, <1>9 DEF Die, Forget, InTime, WorkShape, vars
<1>10. ASSUME NEW a \in Attempts, InStep(a), Commit(a) PROVE InTime'
  <2>1. /\ at[a] = "chunks" /\ done' = text[a] /\ pieces' = pieces
        /\ run' = run /\ current' = current /\ edited' = edited
    BY <1>10 DEF Commit
  <2>2. CASE a = current
    <3>1. at' = [at EXCEPT ![a] = "committed"] /\ text' = text
      BY <1>10, <2>2 DEF Commit
    <3>2. current # NoAttempt /\ run = "running"
      BY <1>0, <2>2 DEF WorkShape
    <3>3. ~edited => text[a] = pieces
      BY <2>1, <2>2, <3>2 DEF InTime
    <3> QED BY <1>0, <2>1, <2>2, <3>1, <3>2, <3>3 DEF InTime, WorkShape
  <2>3. CASE a # current
    <3>1. done' = done \/ done' = pieces
      BY <1>10, <2>1, <2>3 DEF InStep
    <3>2. current # NoAttempt => at'[current] = at[current] /\ text'[current] = text[current]
      BY <1>0, <1>10, <2>3 DEF Commit, Forget, WorkShape
    <3> QED BY <2>1, <3>1, <3>2 DEF InTime
  <2> QED BY <2>2, <2>3
<1>11. CASE UNCHANGED lateVars
  BY <1>11 DEF lateVars, vars, work, InTime
<1> QED BY <1>1, <1>2, <1>3, <1>4, <1>5, <1>6, <1>7, <1>8, <1>9, <1>10, <1>11
        DEF InStepNext, Elsewhere

(* ChunksAreCurrent: list_lesson_ids, "a publish processes the course as   *)
(* it was when it started". A run that completed leaves the chunks of the  *)
(* text, with attempts of it and of earlier runs still open and committing *)
(* at any time, if the lesson was not edited since and none goes astray.   *)
THEOREM CompletedIsCurrent == ASSUME Distinct PROVE InStepSpec => []ChunksAreCurrent
<1>1. LateInit => InTime
  BY DEF LateInit, InTime
<1>2. LateInv /\ InTime /\ [InStepNext]_lateVars => InTime'
  BY InTimeStep
<1>3. LateInv /\ InTime => ChunksAreCurrent
  BY AsManyAsPieces DEF LateInv, RowsInv, EachIsAPiece, RowsAreThePieces, InTime,
                        ChunksAreCurrent
<1> QED BY <1>1, <1>2, <1>3, LateInvHolds, PTL DEF InStepSpec
==============================================================================
