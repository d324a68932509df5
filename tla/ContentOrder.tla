---------------------------- MODULE ContentOrder ----------------------------
(***************************************************************************)
(* The order of the rows under one parent: the modules of a course, or the *)
(* lessons of a module; both levels have the same code. Positions are      *)
(* chosen by two requests that know nothing of each other: adding takes    *)
(* MAX + 1 under a lock on the parent, reordering writes a whole list      *)
(* without one. The unique position is deferred to COMMIT.                 *)
(*                                                                         *)
(* A request is a READ COMMITTED transaction in two steps, what it reads   *)
(* and its flush-and-COMMIT. The parent stays editable here: its status is *)
(* Publishing's subject. A request that has ended may be followed by       *)
(* another one of the same client.                                         *)
(***************************************************************************)
EXTENDS Naturals, Sequences, FiniteSets, FiniteSetsExt, Functions

CONSTANTS
  Items,      \* ids of the modules (lessons) there are or may be
  Existing,   \* those there are at first
  Requests,   \* concurrent requests
  MaxOrder    \* bound: ids in a module_order (lesson_order) that is sent

NoOne == "no one"

ASSUME ItemsAssumption == Existing \subseteq Items /\ IsFiniteSet(Items)
ASSUME OrderAssumption == MaxOrder \in Nat
ASSUME RequestsAssumption == NoOne \notin Requests

VARIABLES
  at,       \* position of every row there is
  born,     \* ids that have been used
  parent,   \* the course's (module's) row exists
  lock,     \* the request that has it FOR UPDATE, if any
  pc,       \* "idle", "adding", "counted" (next_position), "listed" (list_for_*)
  next,     \* what next_position returned
  seen,     \* the positions a reorder read
  order,    \* the ids it was sent
  since     \* history: what others committed since the request read

rows == <<at, born>>
parentRow == <<parent, lock>>
request == <<pc, next, seen, order>>
vars == <<rows, parentRow, request, since>>

Present == DOMAIN at
Orders == UNION {[1 .. n -> Present] : n \in 0 .. MaxOrder}

Init ==
  /\ at \in {f \in [Existing -> 0 .. Cardinality(Existing)] : IsInjective(f)}
  /\ born = Existing
  /\ parent = TRUE /\ lock = NoOne
  /\ pc = [r \in Requests |-> "idle"]
  /\ next = [r \in Requests |-> 0]
  /\ seen = [r \in Requests |-> <<>>]
  /\ order = [r \in Requests |-> <<>>]
  /\ since = [r \in Requests |-> {}]

(* The transaction ends: its lock is free, its objects are forgotten.      *)
(* Mutant: the lock outlives it.                                           *)
EndLocked(r) ==
  /\ pc' = [pc EXCEPT ![r] = "idle"]
  /\ next' = [next EXCEPT ![r] = 0]
  /\ seen' = [seen EXCEPT ![r] = <<>>]
  /\ order' = [order EXCEPT ![r] = <<>>]
  /\ lock' = lock

End(r) ==
  /\ pc' = [pc EXCEPT ![r] = "idle"]
  /\ next' = [next EXCEPT ![r] = 0]
  /\ seen' = [seen EXCEPT ![r] = <<>>]
  /\ order' = [order EXCEPT ![r] = <<>>]
  /\ lock' = IF lock = r THEN NoOne ELSE lock

Remember(r, what) ==
  since' = [o \in Requests |->
              IF o = r \/ pc[o] \notin {"counted", "listed"} THEN {}
              ELSE since[o] \cup what]

(* add_module, add_lesson: the parent is found and may be edited.          *)
Add(r) ==
  /\ pc[r] = "idle" /\ parent
  /\ pc' = [pc EXCEPT ![r] = "adding"]
  /\ UNCHANGED <<rows, parentRow, next, seen, order, since>>

(* SELECT ... FOR UPDATE waits; of a row that is gone it returns nothing.  *)
(* Mutant: no lock.                                                        *)
MayCountUnlocked == TRUE
MayCount == lock = NoOne \/ ~parent

NextPosition(r) ==
  /\ pc[r] = "adding" /\ MayCount
  /\ lock' = IF parent THEN r ELSE lock
  /\ next' = [next EXCEPT ![r] = IF at = <<>> THEN 0 ELSE Max(Range(at)) + 1]
  /\ pc' = [pc EXCEPT ![r] = "counted"]
  /\ UNCHANGED <<rows, parent, seen, order, since>>

(* INSERT and COMMIT: refused without the parent, or at a taken position.  *)
AddRow(r, i) ==
  /\ pc[r] = "counted" /\ parent /\ next[r] \notin Range(at)
  /\ i \in Items \ born
  /\ at' = [o \in Present \cup {i} |-> IF o = i THEN next[r] ELSE at[o]]
  /\ born' = born \cup {i}
  /\ End(r) /\ Remember(r, {}) /\ UNCHANGED parent

(* _reposition compares sets: every id must be listed, and may be twice.   *)
(* Mutant: a partial list is applied rather than rejected.                 *)
AcceptsPartial(o) == Range(o) \subseteq Present
Accepts(o) == Range(o) = Present

ListItems(r, o) ==
  /\ pc[r] = "idle" /\ parent /\ Accepts(o)
  /\ pc' = [pc EXCEPT ![r] = "listed"]
  /\ seen' = [seen EXCEPT ![r] = at]
  /\ order' = [order EXCEPT ![r] = o]
  /\ UNCHANGED <<rows, parentRow, next, since>>

(* enumerate(order), a later entry over an earlier one. Mutant: from 1.    *)
AssignedFromOne(o, i) == Max({k \in DOMAIN o : o[k] = i})
Assigned(o, i) == Max({k \in DOMAIN o : o[k] = i}) - 1

(* The UPDATEs of a flush: the objects whose position is another than the  *)
(* one loaded, and of those the rows that are still there. (Where the      *)
(* driver counts the rows it matched, a lost one is a Rollback instead.)   *)
Repositioned(r) ==
  [i \in Present |->
     IF i \in Range(order[r]) /\ Assigned(order[r], i) # seen[r][i]
     THEN Assigned(order[r], i) ELSE at[i]]

(* An order that is not undisturbed may leave any mixture behind it.       *)
Undisturbed(r) == since[r] = {} /\ IsInjective(order[r])

Reorder(r) ==
  /\ pc[r] = "listed" /\ IsInjective(Repositioned(r))
  /\ at' = Repositioned(r)
  /\ Remember(r, IF Undisturbed(r) THEN {"order"} ELSE {"order", "mixture"})
  /\ End(r) /\ UNCHANGED <<born, parent>>

(* A request that fails, for one of the refusals above or for any other    *)
(* reason, leaves nothing behind.                                          *)
Rollback(r) ==
  /\ pc[r] # "idle"
  /\ End(r)
  /\ since' = [since EXCEPT ![r] = {}]
  /\ UNCHANGED <<rows, parent>>

(* delete_module, delete_lesson: the others keep their positions.          *)
DeleteRow(i) ==
  /\ i \in Present
  /\ at' = Restrict(at, Present \ {i})
  /\ Remember(NoOne, {"delete"})
  /\ UNCHANGED <<born, parentRow, request>>

(* Deleting the parent waits for its lock and takes its rows along.        *)
DeleteParent ==
  /\ parent /\ lock = NoOne
  /\ parent' = FALSE /\ at' = <<>>
  /\ Remember(NoOne, {"delete"})
  /\ UNCHANGED <<born, lock, request>>

Next ==
  \/ \E r \in Requests :
       \/ Add(r) \/ NextPosition(r)
       \/ \E i \in Items : AddRow(r, i)
       \/ \E o \in Orders : ListItems(r, o)
       \/ Reorder(r) \/ Rollback(r)
  \/ \E i \in Items : DeleteRow(i)
  \/ DeleteParent

Spec == Init /\ [][Next]_vars

(***************************************************************************)
(* Properties                                                              *)
(***************************************************************************)
TypeOK ==
  /\ Present \subseteq born /\ born \subseteq Items
  /\ \A i \in Present : at[i] \in Nat
  /\ parent \in BOOLEAN /\ lock \in Requests \cup {NoOne}
  /\ pc \in [Requests -> {"idle", "adding", "counted", "listed"}]
  /\ next \in [Requests -> Nat]
  /\ \A r \in Requests :
       /\ Range(order[r]) \subseteq Items
       /\ pc[r] = "listed" => Range(order[r]) \subseteq DOMAIN seen[r]
       /\ since[r] \subseteq {"order", "mixture", "delete"}
       /\ lock = r => pc[r] = "counted"

(* next_position, "so new modules append to the end": what was counted     *)
(* under the lock is still free and beyond every other row at COMMIT,      *)
(* whatever was added, deleted or properly reordered in between.           *)
AppendGoesLast ==
  \A r \in Requests :
    pc[r] = "counted" /\ parent /\ "mixture" \notin since[r]
      => \A i \in Present : at[i] < next[r]

(* _reposition, "rewrite positions from a complete list of ids": an order  *)
(* that no other order and no delete came across is accepted at COMMIT and *)
(* leaves exactly itself, with rows added meanwhile behind it.             *)
OrderTakesEffect ==
  \A r \in Requests :
    pc[r] = "listed" /\ parent /\ Undisturbed(r) =>
      /\ IsInjective(Repositioned(r))
      /\ \A k \in DOMAIN order[r] : Repositioned(r)[order[r][k]] = k - 1
      /\ \A i \in Present \ Range(order[r]) :
           Repositioned(r)[i] >= Len(order[r])
==============================================================================
