------------------------------ MODULE SeatBooking ------------------------------
(***************************************************************************)
(* What FR-06, FR-07 and FR-10 promise of one course's places, as if every *)
(* request were a single step: a student has a place or not, nobody joins  *)
(* beyond what the course has offered, and leaving frees a place. Who is   *)
(* on the way in may still get a place that was offered then.              *)
(***************************************************************************)
EXTENDS Naturals, FiniteSets

CONSTANTS Students, NoLimit

VARIABLES
  members,   \* students with an active enrollment
  offered    \* the numbers of places there have been, NoLimit among them

vars == <<members, offered>>

Limits == (Nat \ {0}) \cup {NoLimit}

Init == members = {} /\ offered \subseteq Limits /\ Cardinality(offered) = 1

Join(s) ==
  /\ s \notin members
  /\ \E c \in offered : c = NoLimit \/ Cardinality(members) < c
  /\ members' = members \cup {s}
  /\ UNCHANGED offered

Leave(s) ==
  /\ s \in members
  /\ members' = members \ {s}
  /\ UNCHANGED offered

Offer ==
  /\ offered \subseteq offered' /\ offered' \subseteq Limits
  /\ UNCHANGED members

Next == Offer \/ \E s \in Students : Join(s) \/ Leave(s)

Spec == Init /\ [][Next]_vars
==============================================================================
