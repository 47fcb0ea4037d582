-------------------------- MODULE CriticalSection --------------------------
(***************************************************************************)
(* What the lock promises its users: one of them inside at a time.  The    *)
(* promise ends when the lock is clobbered, that is released by a          *)
(* processor that does not own it while another does; from then on any     *)
(* number may be inside, and each still leaves only after it has entered.  *)
(***************************************************************************)
EXTENDS Integers

CONSTANT Users           \* the processors

VARIABLES
  owners,                \* the users inside a critical section
  clobbered              \* the promise has been broken

Init == owners = {} /\ clobbered = FALSE

Enter(p) ==
  /\ p \notin owners
  /\ clobbered \/ owners = {}
  /\ owners' = owners \cup {p}
  /\ UNCHANGED clobbered

Leave(p) ==
  /\ p \in owners
  /\ owners' = owners \ {p}
  /\ UNCHANGED clobbered

(* p is outside and frees the lock under the feet of the owner.            *)
Clobber(p) ==
  /\ p \notin owners
  /\ owners # {}
  /\ clobbered' = TRUE
  /\ UNCHANGED owners

Next == \E p \in Users : Enter(p) \/ Leave(p) \/ Clobber(p)

Spec == Init /\ [][Next]_<<owners, clobbered>>

=============================================================================
