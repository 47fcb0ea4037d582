----------------------------- MODULE ThreadLife -----------------------------
(***************************************************************************)
(* What the thread library promises the application: a created thread's    *)
(* function is entered once and returns once, and a join completes only    *)
(* after that.  The promise ends when the lock under the library is        *)
(* clobbered (see CriticalSection): every thread is then lost.             *)
(***************************************************************************)
EXTENDS Integers

CONSTANT Threads

VARIABLE life            \* the stage of each thread

Init == life = [t \in Threads |-> "none"]

Move(t, from, to) ==
  /\ life[t] = from
  /\ life' = [life EXCEPT ![t] = to]

Create(t)   == Move(t, "none", "created")
Enter(t)    == Move(t, "created", "running")
Return(t)   == Move(t, "running", "returned")
Join(t)     == Move(t, "returned", "joined")

Lose == life' = [t \in Threads |-> "lost"]

Next ==
  \/ \E t \in Threads : Create(t) \/ Enter(t) \/ Return(t) \/ Join(t)
  \/ Lose

Spec == Init /\ [][Next]_life

=============================================================================
