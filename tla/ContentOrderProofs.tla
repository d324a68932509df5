--------------------------- MODULE ContentOrderProofs ---------------------------
(***************************************************************************)
(* ContentOrder, proved for any items, any requests and any bound on the   *)
(* length of an order that is sent.                                        *)
(***************************************************************************)
EXTENDS ContentOrder, FiniteSetTheorems, WellFoundedInduction, TLAPS

(***************************************************************************)
(* Positions and orders                                                    *)
(***************************************************************************)
(* A non-empty finite set of numbers has a greatest element, the one `Max` *)
(* chooses: of the subsets that have none, the smallest does not exist.    *)
LEMMA MaxIsThere ==
  ASSUME NEW S \in SUBSET Nat, IsFiniteSet(S), S # {}
  PROVE  Max(S) \in S /\ \A y \in S : y <= Max(S)
<1> DEFINE Bad == {T \in SUBSET S : T # {} /\ \A x \in T : \E y \in T : y > x}
<1>1. S \notin Bad
  <2> SUFFICES ASSUME Bad # {} PROVE FALSE
    OBVIOUS
  <2>0. IsWellFoundedOn(StrictSubsetOrdering(S), FiniteSubsetsOf(S))
    BY FS_StrictSubsetOrderingWellFounded
  <2>1. Bad \subseteq FiniteSubsetsOf(S)
    BY FS_Subset DEF FiniteSubsetsOf
  <2> HIDE DEF Bad
  <2>2. PICK T \in Bad : \A U \in Bad : <<U, T>> \notin StrictSubsetOrdering(S)
    BY <2>0, <2>1, WFMin
  <2> USE DEF Bad
  <2>3. PICK x \in T : TRUE
    OBVIOUS
  <2>4. T \ {x} \in Bad
    <3>1. PICK y \in T : y > x
      BY <2>3
    <3>2. \A z \in T \ {x} : \E w \in T \ {x} : w > z
      <4> SUFFICES ASSUME NEW z \in T \ {x} PROVE \E w \in T \ {x} : w > z
        OBVIOUS
      <4>1. PICK w \in T : w > z
        OBVIOUS
      <4>2. CASE w # x BY <4>1, <4>2
      <4>3. CASE w = x BY <3>1, <4>1, <4>3
      <4> QED BY <4>2, <4>3
    <3>3. y \in T \ {x}
      BY <3>1
    <3> QED BY <3>2, <3>3
  <2>5. <<T \ {x}, T>> \in StrictSubsetOrdering(S)
    BY <2>3 DEF StrictSubsetOrdering
  <2> QED BY <2>2, <2>4, <2>5
<1>2. PICK m \in S : \A y \in S : ~(y > m)
  BY <1>1
<1>3. \A y \in S : m >= y
  BY <1>2
<1> QED BY <1>3 DEF Max

Positions == UNION {[S -> Nat] : S \in SUBSET Items}
OrdersOf(S) == UNION {[1 .. n -> S] : n \in Nat}

(* The empty sequence: no rows, and an order of nothing.                   *)
LEMMA EmptyIsBoth == <<>> \in Positions /\ <<>> \in OrdersOf(Items)
<1>1. <<>> \in [{} -> Nat] /\ <<>> \in [1 .. 0 -> Items]
  OBVIOUS
<1> QED BY <1>1 DEF Positions, OrdersOf

(* The rows there are have numbers for positions, and are finitely many.   *)
LEMMA RowsAreFinite ==
  ASSUME NEW f \in Positions
  PROVE  /\ DOMAIN f \subseteq Items /\ IsFiniteSet(DOMAIN f)
         /\ f \in [DOMAIN f -> Nat]
         /\ Cardinality(DOMAIN f) \in Nat
         /\ Range(f) \subseteq Nat /\ IsFiniteSet(Range(f))
<1>1. DOMAIN f \subseteq Items /\ f \in [DOMAIN f -> Nat]
  BY DEF Positions
<1>2. IsFiniteSet(DOMAIN f)
  BY <1>1, ItemsAssumption, FS_Subset
<1>3. f \in Surjection(DOMAIN f, Range(f))
  <2>1. f \in [DOMAIN f -> Range(f)]
    BY <1>1 DEF Range
  <2> QED BY <2>1 DEF Surjection, Range
<1> QED BY <1>1, <1>2, <1>3, FS_Surjection, FS_CardinalityType DEF Range

(* Rows with different positions below n are at most n.                    *)
LEMMA FewBelow ==
  ASSUME NEW f \in Positions, IsInjective(f), NEW n \in Nat,
         \A i \in DOMAIN f : f[i] < n
  PROVE  Cardinality(DOMAIN f) <= n
<1>1. IsFiniteSet(0 .. n - 1) /\ Cardinality(0 .. n - 1) = n
  BY FS_Interval
<1>2. f \in Injection(DOMAIN f, 0 .. n - 1)
  BY RowsAreFinite DEF Injection, IsInjective
<1> QED BY <1>1, <1>2, FS_Injection

(* An order is a sequence of rows; if it repeats none it is as long as     *)
(* they are many.                                                          *)
LEMMA OrderLength ==
  ASSUME NEW o \in OrdersOf(Items)
  PROVE  /\ Len(o) \in Nat /\ DOMAIN o = 1 .. Len(o)
         /\ o \in [1 .. Len(o) -> Items] /\ Range(o) \subseteq Items
         /\ IsInjective(o) => Cardinality(Range(o)) = Len(o)
<1>1. PICK n \in Nat : o \in [1 .. n -> Items]
  BY DEF OrdersOf
<1>2. Len(o) = n
  BY <1>1
<1>3. IsFiniteSet(1 .. n) /\ Cardinality(1 .. n) = n
  BY FS_Interval
<1>4. IsInjective(o) => o \in Bijection(1 .. n, Range(o))
  BY <1>1 DEF IsInjective, Bijection, Injection, Surjection, Range
<1>5. IsInjective(o) => ExistsBijection(1 .. n, Range(o))
  BY <1>4 DEF ExistsBijection
<1>6. IsInjective(o) => Cardinality(Range(o)) = n
  BY <1>3, <1>5, FS_Bijection
<1> QED BY <1>1, <1>2, <1>6 DEF Range

(* enumerate: every listed id gets a number below the length of the list,  *)
(* its own place when it is listed once.                                   *)
LEMMA AssignedInOrder ==
  ASSUME NEW o \in OrdersOf(Items), NEW i \in Range(o)
  PROVE  /\ Assigned(o, i) \in Nat /\ Assigned(o, i) < Len(o)
         /\ o[Assigned(o, i) + 1] = i
<1> DEFINE K == {k \in DOMAIN o : o[k] = i}
<1>1. DOMAIN o = 1 .. Len(o) /\ Len(o) \in Nat
  BY OrderLength
<1>2. K \subseteq 1 .. Len(o) /\ K # {}
  BY <1>1 DEF Range
<1>3. IsFiniteSet(K)
  <2>1. IsFiniteSet(1 .. Len(o))
    BY <1>1, FS_Interval
  <2> HIDE DEF K
  <2> QED BY <1>2, <2>1, FS_Subset
<1>4. K \subseteq Nat
  BY <1>1, <1>2
<1>5. Max(K) \in K
  <2> HIDE DEF K
  <2> QED BY <1>2, <1>3, <1>4, MaxIsThere
<1> QED BY <1>1, <1>2, <1>5 DEF Assigned

(***************************************************************************)
(* Types. Positions differ, which the unique index sees to at every COMMIT.*)
(***************************************************************************)
Disturbances == {"order", "mixture", "delete"}

Shape ==
  /\ at \in Positions /\ IsInjective(at)
  /\ Present \subseteq born /\ born \subseteq Items
  /\ parent \in BOOLEAN /\ lock \in Requests \cup {NoOne}
  /\ pc \in [Requests -> {"idle", "adding", "counted", "listed"}]
  /\ next \in [Requests -> Nat]
  /\ seen \in [Requests -> Positions]
  /\ order \in [Requests -> OrdersOf(Items)]
  /\ since \in [Requests -> SUBSET Disturbances]
  /\ \A r \in Requests :
       /\ pc[r] = "listed" => Range(order[r]) \subseteq DOMAIN seen[r]
       /\ lock = r => pc[r] = "counted"

(* Every position a step writes is a number.                               *)
LEMMA NextIsANumber ==
  ASSUME Shape, at # <<>>
  PROVE  /\ Max(Range(at)) + 1 \in Nat
         /\ \A i \in Present : at[i] < Max(Range(at)) + 1
<1>1. /\ Range(at) \subseteq Nat /\ IsFiniteSet(Range(at))
      /\ at \in [Present -> Nat]
  BY RowsAreFinite DEF Shape, Present
<1>2. Present # {}
  <2>1. \A f \in [{} -> Nat] : f = <<>>
    OBVIOUS
  <2> QED BY <1>1, <2>1
<1>3. Range(at) # {} /\ \A i \in Present : at[i] \in Range(at)
  BY <1>2 DEF Range, Present
<1>4. Max(Range(at)) \in Range(at) /\ \A y \in Range(at) : y <= Max(Range(at))
  BY <1>1, <1>3, MaxIsThere
<1> QED BY <1>1, <1>3, <1>4

(* A reorder writes numbers to rows that are there.                        *)
LEMMA RepositionedIsRows ==
  ASSUME Shape, NEW r \in Requests
  PROVE  Repositioned(r) \in [Present -> Nat]
<1>1. at \in [Present -> Nat]
  BY RowsAreFinite DEF Shape, Present
<1>2. \A i \in Range(order[r]) : Assigned(order[r], i) \in Nat
  BY AssignedInOrder DEF Shape
<1> QED BY <1>1, <1>2 DEF Repositioned

(* A request that ends leaves the others as they were.                     *)
LEMMA EndShaped ==
  ASSUME Shape, NEW r \in Requests, End(r)
  PROVE  /\ lock' \in Requests \cup {NoOne}
         /\ pc' \in [Requests -> {"idle", "adding", "counted", "listed"}]
         /\ next' \in [Requests -> Nat]
         /\ seen' \in [Requests -> Positions]
         /\ order' \in [Requests -> OrdersOf(Items)]
         /\ \A q \in Requests :
              /\ pc'[q] = "listed" => Range(order'[q]) \subseteq DOMAIN seen'[q]
              /\ lock' = q => pc'[q] = "counted"
<1>1. \A q \in Requests \ {r} :
        pc'[q] = pc[q] /\ order'[q] = order[q] /\ seen'[q] = seen[q]
  BY DEF End, Shape
<1>2. pc'[r] = "idle" /\ lock' # r
  BY RequestsAssumption DEF End, Shape
<1>3. \A q \in Requests : lock' = q => lock = q
  BY RequestsAssumption DEF End
<1> QED BY <1>1, <1>2, <1>3, EmptyIsBoth DEF End, Shape

(* History only ever records the three disturbances.                       *)
LEMMA RememberShaped ==
  ASSUME Shape, NEW r, NEW what \in SUBSET Disturbances, Remember(r, what)
  PROVE  since' \in [Requests -> SUBSET Disturbances]
  BY DEF Remember, Shape

(* Every step keeps the shape.                                             *)
LEMMA ShapeHolds ==
  ASSUME Shape, [Next]_vars
  PROVE  Shape'
<1>0. at \in [Present -> Nat] /\ Present \subseteq Items
  BY RowsAreFinite DEF Shape, Present
<1>1. ASSUME NEW r \in Requests, Add(r) PROVE Shape'
  BY <1>1 DEF Add, Shape, Present, rows, parentRow
<1>2. ASSUME NEW r \in Requests, NextPosition(r) PROVE Shape'
  <2>1. (IF at = <<>> THEN 0 ELSE Max(Range(at)) + 1) \in Nat
    BY NextIsANumber
  <2> HIDE DEF Shape
  <2>2. next' \in [Requests -> Nat]
    BY <1>2, <2>1 DEF NextPosition, Shape
  <2>3. ASSUME NEW q \in Requests, lock' = q PROVE pc'[q] = "counted"
    BY <1>2, <2>3 DEF NextPosition, Shape
  <2>4. ASSUME NEW q \in Requests, pc'[q] = "listed" PROVE pc[q] = "listed"
    BY <1>2, <2>4 DEF NextPosition, Shape
  <2> QED BY <1>2, <2>2, <2>3, <2>4 DEF NextPosition, Shape, Present, rows
<1>3. ASSUME NEW r \in Requests, NEW i \in Items, AddRow(r, i) PROVE Shape'
  <2>1. i \notin Present /\ next[r] \in Nat /\ next[r] \notin Range(at)
    BY <1>3 DEF AddRow, Shape
  <2>2. at' \in [Present \cup {i} -> Nat]
    BY <1>0, <1>3, <2>1 DEF AddRow
  <2>3. at' \in Positions
    BY <1>0, <2>2 DEF Positions
  <2>4. IsInjective(at')
    BY <1>0, <1>3, <2>1, <2>2 DEF AddRow, Shape, IsInjective, Range, Present
  <2>5. Present' \subseteq born' /\ born' \subseteq Items
    BY <1>3, <2>2 DEF AddRow, Shape, Present
  <2>6. since' \in [Requests -> SUBSET Disturbances]
    BY <1>3, RememberShaped DEF AddRow
  <2> QED BY <1>3, <2>3, <2>4, <2>5, <2>6, EndShaped DEF AddRow, Shape
<1>4. ASSUME NEW r \in Requests, NEW o \in Orders, ListItems(r, o) PROVE Shape'
  <2>1. o \in OrdersOf(Items)
    BY <1>0, OrderAssumption DEF Orders, OrdersOf
  <2>2. seen' \in [Requests -> Positions] /\ order' \in [Requests -> OrdersOf(Items)]
    BY <1>4, <2>1 DEF ListItems, Shape
  <2>3. \A q \in Requests :
          /\ pc'[q] = "listed" => Range(order'[q]) \subseteq DOMAIN seen'[q]
          /\ lock' = q => pc'[q] = "counted"
    BY <1>4 DEF ListItems, Accepts, Shape, Present, parentRow
  <2> QED BY <1>4, <2>2, <2>3 DEF ListItems, Shape, Present, rows, parentRow
<1>5. ASSUME NEW r \in Requests, Reorder(r) PROVE Shape'
  <2>1. at' \in [Present -> Nat] /\ IsInjective(at')
    BY <1>5, RepositionedIsRows DEF Reorder
  <2>2. at' \in Positions /\ Present' = Present
    BY <1>0, <2>1 DEF Positions, Present
  <2>3. since' \in [Requests -> SUBSET Disturbances]
    BY <1>5, RememberShaped DEF Reorder, Disturbances
  <2> QED BY <1>5, <2>1, <2>2, <2>3, EndShaped DEF Reorder, Shape
<1>6. ASSUME NEW r \in Requests, Rollback(r) PROVE Shape'
  <2>1. since' \in [Requests -> SUBSET Disturbances]
    BY <1>6 DEF Rollback, Shape
  <2> QED BY <1>6, <2>1, EndShaped DEF Rollback, Shape, Present, rows
<1>7. ASSUME NEW i \in Items, DeleteRow(i) PROVE Shape'
  <2>1. at' \in [Present \ {i} -> Nat]
    BY <1>0, <1>7 DEF DeleteRow, Restrict
  <2>2. at' \in Positions /\ IsInjective(at')
    <3>1. Present \ {i} \in SUBSET Items
      BY <1>0
    <3>2. at' \in Positions
      BY <2>1, <3>1 DEF Positions
    <3>3. \A j \in Present \ {i} : at'[j] = at[j]
      BY <1>7 DEF DeleteRow, Restrict
    <3>4. IsInjective(at')
      BY <2>1, <3>3 DEF Shape, IsInjective, Present
    <3> QED BY <3>2, <3>4
  <2>3. since' \in [Requests -> SUBSET Disturbances]
    BY <1>7, RememberShaped DEF DeleteRow, Disturbances
  <2> QED BY <1>7, <2>1, <2>2, <2>3 DEF DeleteRow, Shape, Present, parentRow, request
<1>8. CASE DeleteParent
  <2>1. at' \in Positions /\ IsInjective(at') /\ DOMAIN at' = {}
    BY <1>8, EmptyIsBoth DEF DeleteParent, IsInjective
  <2>2. since' \in [Requests -> SUBSET Disturbances]
    BY <1>8, RememberShaped DEF DeleteParent, Disturbances
  <2> QED BY <1>8, <2>1, <2>2 DEF DeleteParent, Shape, Present, request
<1>9. CASE UNCHANGED vars
  BY <1>9 DEF vars, rows, parentRow, request, Shape, Present
<1> QED BY <1>1, <1>2, <1>3, <1>4, <1>5, <1>6, <1>7, <1>8, <1>9 DEF Next

(* So it holds throughout.                                                 *)
LEMMA Shaped == Spec => []Shape
<1>1. Init => Shape
  <2> SUFFICES ASSUME Init PROVE Shape
    OBVIOUS
  <2>1. Cardinality(Existing) \in Nat
    BY ItemsAssumption, FS_Subset, FS_CardinalityType
  <2>2. at \in [Existing -> Nat] /\ IsInjective(at)
    BY <2>1 DEF Init
  <2>3. at \in Positions
    BY <2>2, ItemsAssumption DEF Positions
  <2> QED BY <2>2, <2>3, EmptyIsBoth, ItemsAssumption, RequestsAssumption
          DEF Init, Shape, Present
<1>2. Shape /\ [Next]_vars => Shape'
  BY ShapeHolds
<1> QED BY <1>1, <1>2, PTL DEF Spec

(* TypeOK, and unique (course_id, position) and (module_id, position): no  *)
(* two rows of the parent are ever at the same position.                   *)
THEOREM TypeCorrect == Spec => [](TypeOK /\ IsInjective(at))
<1>1. Shape => TypeOK /\ IsInjective(at)
  <2> SUFFICES ASSUME Shape PROVE TypeOK /\ IsInjective(at)
    OBVIOUS
  <2>1. \A i \in Present : at[i] \in Nat
    BY RowsAreFinite DEF Shape, Present
  <2>2. \A r \in Requests : Range(order[r]) \subseteq Items
    BY OrderLength DEF Shape
  <2>3. TypeOK
    BY <2>1, <2>2 DEF Shape, TypeOK, Disturbances
  <2> QED BY <2>3 DEF Shape
<1> QED BY <1>1, Shaped, PTL

(***************************************************************************)
(* Who has counted holds the lock, so no row is added until it has added   *)
(* its own; an order that nothing came across still has its rows where it  *)
(* read them, and the rows added since are behind all of them.             *)
(***************************************************************************)
Counted == \A r \in Requests :
  pc[r] = "counted" /\ parent =>
    lock = r /\ Cardinality(Present) <= next[r]

Listed == \A r \in Requests :
  pc[r] = "listed" /\ Undisturbed(r) =>
    /\ Range(order[r]) \subseteq Present
    /\ \A i \in Range(order[r]) : at[i] = seen[r][i]
    /\ \A i \in Present \ Range(order[r]) : at[i] >= Len(order[r])

OrderInv == Counted /\ AppendGoesLast /\ Listed

(* An order no longer than the rows at a COUNT puts them before its `next`.*)
LEMMA ShortEnough ==
  ASSUME Shape, NEW r \in Requests, IsInjective(order[r]),
         Range(order[r]) \subseteq Present
  PROVE  Len(order[r]) <= Cardinality(Present)
<1>1. IsFiniteSet(Present)
  BY RowsAreFinite DEF Shape, Present
<1>2. Cardinality(Range(order[r])) <= Cardinality(Present)
  BY <1>1, FS_Subset
<1>3. Cardinality(Range(order[r])) = Len(order[r])
  BY OrderLength DEF Shape
<1> QED BY <1>2, <1>3

(* What an undisturbed order writes.                                       *)
LEMMA RepositionedInOrder ==
  ASSUME Shape, Listed, NEW r \in Requests, pc[r] = "listed", Undisturbed(r),
         NEW i \in Present
  PROVE  Repositioned(r)[i] = IF i \in Range(order[r])
                              THEN Assigned(order[r], i) ELSE at[i]
  BY DEF Listed, Repositioned

(* The first row of a request that counts goes where all others are before.*)
LEMMA CountsAllRows ==
  ASSUME Shape, NEW r \in Requests, NextPosition(r)
  PROVE  /\ Cardinality(Present) <= next'[r]
         /\ \A i \in Present : at[i] < next'[r]
<1> DEFINE n == IF at = <<>> THEN 0 ELSE Max(Range(at)) + 1
<1>1. next'[r] = n
  BY DEF NextPosition, Shape
<1>2. n \in Nat /\ \A i \in Present : at[i] < n
  BY NextIsANumber DEF Present
<1>3. Cardinality(Present) <= n
  <2> HIDE DEF n
  <2> QED BY <1>2, FewBelow DEF Shape, Present
<1> QED BY <1>1, <1>2, <1>3

(* A request that has counted had counted before, or counts now.           *)
LEMMA StaysCounted ==
  ASSUME Shape, [Next]_vars, NEW r \in Requests, pc'[r] = "counted", parent'
  PROVE  \/ NextPosition(r)
         \/ pc[r] = "counted" /\ parent /\ next'[r] = next[r]
<1>1. ASSUME NEW q \in Requests, NextPosition(q)
      PROVE  NextPosition(r) \/ (pc[r] = "counted" /\ parent /\ next'[r] = next[r])
  BY <1>1 DEF NextPosition, Shape
<1>2. ASSUME NEW q \in Requests, Add(q) \/ \E o \in Orders : ListItems(q, o)
      PROVE  pc[r] = "counted" /\ parent /\ next'[r] = next[r]
  BY <1>2 DEF Add, ListItems, Shape, parentRow
<1>3. ASSUME NEW q \in Requests, End(q)
      PROVE  pc[r] = "counted" /\ next'[r] = next[r]
  BY <1>3 DEF End, Shape
<1>4. ASSUME NEW q \in Requests,
             Reorder(q) \/ Rollback(q) \/ \E i \in Items : AddRow(q, i)
      PROVE  pc[r] = "counted" /\ parent /\ next'[r] = next[r]
  BY <1>3, <1>4 DEF Reorder, Rollback, AddRow, rows
<1>5. CASE \E i \in Items : DeleteRow(i)
  BY <1>5 DEF DeleteRow, parentRow, request
<1>6. ASSUME DeleteParent PROVE FALSE
  BY <1>6 DEF DeleteParent
<1>7. CASE UNCHANGED vars
  BY <1>7 DEF vars, parentRow, request
<1> QED BY <1>1, <1>2, <1>4, <1>5, <1>6, <1>7 DEF Next

(* What an undisturbed order does to the rows of a request that counted.   *)
LEMMA ReorderStaysBelow ==
  ASSUME Shape, OrderInv, NEW r \in Requests, NEW q \in Requests,
         pc[r] = "counted", parent, "mixture" \notin since'[r], Reorder(q)
  PROVE  \A i \in Present : at'[i] < next[r]
<1>1. Undisturbed(q) /\ "mixture" \notin since[r] /\ q # r
  BY DEF Reorder, Remember, Shape
<1>2. Cardinality(Present) <= next[r] /\ \A i \in Present : at[i] < next[r]
  BY <1>1 DEF OrderInv, Counted, AppendGoesLast
<1>3. pc[q] = "listed" /\ IsInjective(order[q]) /\ Range(order[q]) \subseteq Present
  BY <1>1 DEF Reorder, OrderInv, Listed, Undisturbed
<1>4. Len(order[q]) <= Cardinality(Present)
  BY <1>3, ShortEnough
<1>5. /\ Cardinality(Present) \in Nat /\ Len(order[q]) \in Nat
      /\ next[r] \in Nat
  BY RowsAreFinite, OrderLength DEF Shape, Present
<1>6. \A i \in Range(order[q]) :
        Assigned(order[q], i) \in Nat /\ Assigned(order[q], i) < Len(order[q])
  BY AssignedInOrder DEF Shape
<1>7. \A i \in Present : at'[i] = IF i \in Range(order[q])
                                  THEN Assigned(order[q], i) ELSE at[i]
  BY <1>1, <1>3, RepositionedInOrder DEF Reorder, OrderInv
<1> QED BY <1>2, <1>4, <1>5, <1>6, <1>7

(* Behind the lock on the parent no row is added, so what was counted      *)
(* stays the end of the order.                                             *)
LEMMA CountedHolds ==
  ASSUME Shape, OrderInv, [Next]_vars
  PROVE  Counted' /\ AppendGoesLast'
<1> SUFFICES ASSUME NEW r \in Requests, pc'[r] = "counted", parent'
             PROVE  /\ lock' = r /\ Cardinality(Present') <= next'[r]
                    /\ "mixture" \notin since'[r] =>
                         \A i \in Present' : at'[i] < next'[r]
  BY DEF Counted, AppendGoesLast
<1>0. r # NoOne
  BY RequestsAssumption
<1>1. CASE NextPosition(r)
  <2>1. lock' = r /\ at' = at
    BY <1>1 DEF NextPosition, rows
  <2> QED BY <1>1, <2>1, CountsAllRows DEF Present
<1>2. ASSUME pc[r] = "counted", parent, next'[r] = next[r], ~NextPosition(r)
      PROVE  /\ lock' = r /\ Cardinality(Present') <= next'[r]
             /\ "mixture" \notin since'[r] => \A i \in Present' : at'[i] < next'[r]
  <2>1. lock = r /\ Cardinality(Present) <= next[r]
    BY <1>2 DEF OrderInv, Counted
  <2>2. "mixture" \notin since[r] => \A i \in Present : at[i] < next[r]
    BY <1>2 DEF OrderInv, AppendGoesLast
  <2>3. \A q \in Requests : ~NextPosition(q)
    BY <1>0, <1>2, <2>1 DEF NextPosition, MayCount
  <2>4. ASSUME NEW q \in Requests, NEW i \in Items, AddRow(q, i) PROVE FALSE
    <3>1. q = r
      BY <2>1, <2>4 DEF AddRow, OrderInv, Counted
    <3> QED BY <2>4, <3>1 DEF AddRow, End, Shape
  <2>5. ASSUME NEW q \in Requests, End(q) PROVE lock' = r
    BY <2>1, <2>5 DEF End, Shape
  <2>6. ASSUME at' = at, since'[r] = since[r], lock' = r
        PROVE  /\ lock' = r /\ Cardinality(Present') <= next'[r]
               /\ "mixture" \notin since'[r] => \A i \in Present' : at'[i] < next'[r]
    BY <1>2, <2>1, <2>2, <2>6 DEF Present
  <2>7. ASSUME NEW q \in Requests, Add(q) \/ \E o \in Orders : ListItems(q, o)
        PROVE  at' = at /\ since'[r] = since[r] /\ lock' = r
    BY <2>1, <2>7 DEF Add, ListItems, rows, parentRow
  <2>8. ASSUME NEW q \in Requests, Rollback(q)
        PROVE  at' = at /\ since'[r] = since[r] /\ lock' = r
    <3>1. q # r
      BY <2>8 DEF Rollback, End, Shape
    <3> QED BY <2>5, <2>8, <3>1 DEF Rollback, Shape, rows
  <2>9. ASSUME NEW q \in Requests, Reorder(q)
        PROVE  /\ lock' = r /\ Cardinality(Present') <= next'[r]
               /\ "mixture" \notin since'[r] => \A i \in Present' : at'[i] < next'[r]
    <3>1. Present' = Present
      BY <2>9, RepositionedIsRows DEF Reorder, Present
    <3>2. "mixture" \notin since'[r] => \A i \in Present : at'[i] < next[r]
      BY <1>2, <2>9, ReorderStaysBelow
    <3>3. lock' = r
      BY <2>5, <2>9 DEF Reorder
    <3> QED BY <1>2, <2>1, <3>1, <3>2, <3>3
  <2>10. ASSUME NEW i \in Items, DeleteRow(i)
         PROVE  /\ lock' = r /\ Cardinality(Present') <= next'[r]
                /\ "mixture" \notin since'[r] => \A j \in Present' : at'[j] < next'[r]
    <3>1. Present' = Present \ {i} /\ \A j \in Present' : at'[j] = at[j]
      BY <2>10 DEF DeleteRow, Restrict, Present
    <3>2. Cardinality(Present') <= Cardinality(Present) /\ Cardinality(Present) \in Nat
          /\ Cardinality(Present') \in Nat
      <4>1. IsFiniteSet(Present) /\ Present' \subseteq Present
        BY <3>1, RowsAreFinite DEF Shape, Present
      <4> QED BY <4>1, FS_Subset, FS_CardinalityType
    <3>3. next[r] \in Nat /\ lock' = r
      BY <2>1, <2>10 DEF Shape, DeleteRow, parentRow
    <3>4. "mixture" \notin since'[r] => "mixture" \notin since[r]
      BY <1>0, <1>2, <2>10 DEF DeleteRow, Remember
    <3> QED BY <1>2, <2>1, <2>2, <3>1, <3>2, <3>3, <3>4
  <2>11. ASSUME DeleteParent PROVE FALSE
    BY <2>11 DEF DeleteParent
  <2>12. CASE UNCHANGED vars
    BY <2>1, <2>6, <2>12 DEF vars, rows, parentRow
  <2> QED BY <2>3, <2>4, <2>6, <2>7, <2>8, <2>9, <2>10, <2>11, <2>12 DEF Next
<1> QED BY <1>1, <1>2, StaysCounted

(* Whatever is committed by others is remembered by who has listed.        *)
LEMMA StaysListed ==
  ASSUME Shape, [Next]_vars, NEW r \in Requests,
         pc'[r] = "listed", Undisturbed(r)'
  PROVE  \/ \E o \in Orders : ListItems(r, o)
         \/ /\ pc[r] = "listed" /\ Undisturbed(r)
            /\ order'[r] = order[r] /\ seen'[r] = seen[r]
            /\ at' = at \/ \E q \in Requests \ {r}, i \in Items : AddRow(q, i)
<1> USE DEF Undisturbed
<1>0. r # NoOne
  BY RequestsAssumption
<1>1. ASSUME NEW q \in Requests, NEW o \in Orders, ListItems(q, o), q # r
      PROVE  /\ pc[r] = "listed" /\ Undisturbed(r) /\ at' = at
             /\ order'[r] = order[r] /\ seen'[r] = seen[r]
  BY <1>1 DEF ListItems, Shape, rows
<1>2. ASSUME NEW q \in Requests, Add(q) \/ NextPosition(q)
      PROVE  /\ pc[r] = "listed" /\ Undisturbed(r) /\ at' = at
             /\ order'[r] = order[r] /\ seen'[r] = seen[r]
  BY <1>2 DEF Add, NextPosition, Shape, rows
<1>3. ASSUME NEW q \in Requests, End(q)
      PROVE  q # r /\ pc[r] = "listed" /\ order'[r] = order[r] /\ seen'[r] = seen[r]
  BY <1>3 DEF End, Shape
<1>4. ASSUME NEW q \in Requests, Reorder(q) PROVE FALSE
  <2>1. q # r /\ pc[r] = "listed"
    BY <1>3, <1>4 DEF Reorder
  <2>2. "order" \in since'[r]
    BY <1>4, <2>1 DEF Reorder, Remember
  <2> QED BY <2>2
<1>5. ASSUME NEW q \in Requests, Rollback(q)
      PROVE  /\ pc[r] = "listed" /\ Undisturbed(r) /\ at' = at
             /\ order'[r] = order[r] /\ seen'[r] = seen[r]
  BY <1>3, <1>5 DEF Rollback, Shape, rows
<1>6. ASSUME NEW q \in Requests, NEW i \in Items, AddRow(q, i)
      PROVE  /\ pc[r] = "listed" /\ Undisturbed(r) /\ q # r
             /\ order'[r] = order[r] /\ seen'[r] = seen[r]
  BY <1>3, <1>6 DEF AddRow, Remember, Shape
<1>7. ASSUME DeleteParent \/ \E i \in Items : DeleteRow(i) PROVE FALSE
  <2>1. pc[r] = "listed" /\ Remember(NoOne, {"delete"})
    BY <1>7 DEF DeleteParent, DeleteRow, request
  <2>2. "delete" \in since'[r]
    BY <1>0, <2>1 DEF Remember
  <2> QED BY <2>2
<1>8. ASSUME UNCHANGED vars
      PROVE  /\ pc[r] = "listed" /\ Undisturbed(r) /\ at' = at
             /\ order'[r] = order[r] /\ seen'[r] = seen[r]
  BY <1>8 DEF vars, rows, request
<1> HIDE DEF Undisturbed
<1> QED BY <1>1, <1>2, <1>4, <1>5, <1>6, <1>7, <1>8 DEF Next

(* What an undisturbed reorder read is what it will write over.            *)
LEMMA ListedHolds ==
  ASSUME Shape, OrderInv, [Next]_vars
  PROVE  Listed'
<1> SUFFICES ASSUME NEW r \in Requests, pc'[r] = "listed", Undisturbed(r)'
             PROVE  /\ Range(order'[r]) \subseteq Present'
                    /\ \A i \in Range(order'[r]) : at'[i] = seen'[r][i]
                    /\ \A i \in Present' \ Range(order'[r]) : at'[i] >= Len(order'[r])
  BY DEF Listed
<1>1. ASSUME NEW o \in Orders, ListItems(r, o)
      PROVE  /\ Range(order'[r]) \subseteq Present'
             /\ \A i \in Range(order'[r]) : at'[i] = seen'[r][i]
             /\ \A i \in Present' \ Range(order'[r]) : at'[i] >= Len(order'[r])
  <2>1. order'[r] = o /\ seen'[r] = at /\ at' = at /\ Range(o) = Present
    BY <1>1 DEF ListItems, Accepts, Shape, rows
  <2> QED BY <2>1 DEF Present
<1>2. ASSUME pc[r] = "listed", Undisturbed(r),
             order'[r] = order[r], seen'[r] = seen[r]
      PROVE  /\ Range(order[r]) \subseteq Present /\ IsInjective(order[r])
             /\ \A i \in Range(order[r]) : at[i] = seen[r][i]
             /\ \A i \in Present \ Range(order[r]) : at[i] >= Len(order[r])
  BY <1>2 DEF OrderInv, Listed, Undisturbed
<1>3. ASSUME pc[r] = "listed", Undisturbed(r),
             order'[r] = order[r], seen'[r] = seen[r], at' = at
      PROVE  /\ Range(order'[r]) \subseteq Present'
             /\ \A i \in Range(order'[r]) : at'[i] = seen'[r][i]
             /\ \A i \in Present' \ Range(order'[r]) : at'[i] >= Len(order'[r])
  BY <1>2, <1>3 DEF Present
<1>4. ASSUME pc[r] = "listed", Undisturbed(r),
             order'[r] = order[r], seen'[r] = seen[r],
             NEW q \in Requests, NEW j \in Items, AddRow(q, j)
      PROVE  /\ Range(order'[r]) \subseteq Present'
             /\ \A i \in Range(order'[r]) : at'[i] = seen'[r][i]
             /\ \A i \in Present' \ Range(order'[r]) : at'[i] >= Len(order'[r])
  <2>1. /\ Present' = Present \cup {j} /\ at'[j] = next[q] /\ j \notin Present
        /\ \A i \in Present : at'[i] = at[i]
    BY <1>4 DEF AddRow, Present, Shape
  <2>2. Cardinality(Present) <= next[q]
    BY <1>4 DEF AddRow, OrderInv, Counted
  <2>3. Len(order[r]) <= Cardinality(Present)
    BY <1>2, <1>4, ShortEnough
  <2>4. /\ Cardinality(Present) \in Nat /\ Len(order[r]) \in Nat
        /\ next[q] \in Nat
    BY RowsAreFinite, OrderLength DEF Shape, Present
  <2>5. next[q] >= Len(order[r])
    BY <2>2, <2>3, <2>4
  <2> QED BY <1>2, <1>4, <2>1, <2>5
<1> QED BY <1>1, <1>3, <1>4, StaysListed

(* The three parts of the invariant hold together.                         *)
LEMMA OrderAlways == Spec => []OrderInv
<1>1. Init => OrderInv
  BY DEF Init, OrderInv, Counted, AppendGoesLast, Listed
<1>2. Shape /\ OrderInv /\ [Next]_vars => OrderInv'
  BY CountedHolds, ListedHolds DEF OrderInv
<1> QED BY <1>1, <1>2, Shaped, PTL DEF Spec

(* What was counted under the lock is still behind every row at COMMIT,    *)
(* whatever was added, deleted or properly reordered in between.           *)
THEOREM AppendsLast == Spec => []AppendGoesLast
<1>1. OrderInv => AppendGoesLast
  BY DEF OrderInv
<1> QED BY <1>1, OrderAlways, PTL

(* An order that no order and no delete came across is accepted at COMMIT  *)
(* and leaves exactly itself, with rows added meanwhile behind it.         *)
THEOREM OrdersTakeEffect == Spec => []OrderTakesEffect
<1>1. Shape /\ OrderInv => OrderTakesEffect
  <2> SUFFICES ASSUME Shape, OrderInv, NEW r \in Requests,
                      pc[r] = "listed", Undisturbed(r)
               PROVE  /\ IsInjective(Repositioned(r))
                      /\ \A k \in DOMAIN order[r] : Repositioned(r)[order[r][k]] = k - 1
                      /\ \A i \in Present \ Range(order[r]) :
                           Repositioned(r)[i] >= Len(order[r])
    BY DEF OrderTakesEffect
  <2> DEFINE o == order[r]
             R == Repositioned(r)
  <2>1. /\ IsInjective(o) /\ Range(o) \subseteq Present
        /\ \A i \in Present \ Range(o) : at[i] >= Len(o)
    BY DEF OrderInv, Listed, Undisturbed
  <2>2. \A i \in Present : R[i] = IF i \in Range(o) THEN Assigned(o, i) ELSE at[i]
    BY RepositionedInOrder DEF OrderInv
  <2>3. \A i \in Range(o) : /\ Assigned(o, i) \in Nat /\ Assigned(o, i) < Len(o)
                            /\ o[Assigned(o, i) + 1] = i
    BY AssignedInOrder DEF Shape
  <2>4. DOMAIN R = Present /\ DOMAIN o = 1 .. Len(o) /\ Len(o) \in Nat
    BY OrderLength DEF Repositioned, Shape
  <2>5. at \in [Present -> Nat] /\ \A i, j \in Present : at[i] = at[j] => i = j
    BY RowsAreFinite DEF Shape, Present, IsInjective
  <2>6. \A k \in DOMAIN o : o[k] \in Range(o) /\ Assigned(o, o[k]) = k - 1
    <3> SUFFICES ASSUME NEW k \in DOMAIN o
                 PROVE  o[k] \in Range(o) /\ Assigned(o, o[k]) = k - 1
      OBVIOUS
    <3>1. o[k] \in Range(o)
      BY DEF Range
    <3>2. Assigned(o, o[k]) + 1 = k
      BY <2>1, <2>3, <2>4, <3>1 DEF IsInjective
    <3> QED BY <2>3, <2>4, <3>1, <3>2
  <2> HIDE DEF o, R
  <2>7. IsInjective(R)
    <3> SUFFICES ASSUME NEW i \in Present, NEW j \in Present, R[i] = R[j]
                 PROVE  i = j
      BY <2>4 DEF IsInjective
    <3>1. CASE i \in Range(o) /\ j \in Range(o)
      BY <2>2, <2>3, <3>1
    <3>2. CASE i \in Range(o) /\ j \notin Range(o)
      BY <2>1, <2>2, <2>3, <2>4, <2>5, <3>2
    <3>3. CASE i \notin Range(o) /\ j \in Range(o)
      BY <2>1, <2>2, <2>3, <2>4, <2>5, <3>3
    <3>4. CASE i \notin Range(o) /\ j \notin Range(o)
      BY <2>2, <2>5, <3>4
    <3> QED BY <3>1, <3>2, <3>3, <3>4
  <2>8. \A k \in DOMAIN o : R[o[k]] = k - 1
    BY <2>1, <2>2, <2>6
  <2>9. \A i \in Present \ Range(o) : R[i] >= Len(o)
    BY <2>1, <2>2
  <2> QED BY <2>7, <2>8, <2>9 DEF o, R
<1> QED BY <1>1, Shaped, OrderAlways, PTL
==============================================================================
