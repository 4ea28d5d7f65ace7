----------------------------- MODULE LoginSlot -----------------------------
(***************************************************************************)
(* What the login slot promises, whatever generations, contexts and        *)
(* clean-ups it takes: at most one login holds the slot, a login gets it   *)
(* when it is free, and gets it once.                                      *)
(***************************************************************************)
CONSTANTS Attempts, NoAttempt
VARIABLES holder, served
vars == <<holder, served>>

Init == holder = NoAttempt /\ served = {}

Acquire(a) ==
  /\ holder = NoAttempt /\ a \notin served
  /\ holder' = a
  /\ UNCHANGED served

Release(a) ==
  /\ holder = a
  /\ holder' = NoAttempt
  /\ served' = served \cup {a}

Next == \E a \in Attempts : Acquire(a) \/ Release(a)

Spec == Init /\ [][Next]_vars

=============================================================================
