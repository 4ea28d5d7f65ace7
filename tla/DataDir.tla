------------------------------- MODULE DataDir -------------------------------
(***************************************************************************)
(* What a data directory promises to the processes that share it, whatever *)
(* they do to sockets and goroutines and whenever they fail or are killed: *)
(* its database is opened, upgraded and used by its owner alone, goes from *)
(* version to version in whole steps and never back, and is used in the    *)
(* last version only.  A process may give the directory up and keep the    *)
(* database open until it ends; it cannot use it again.                    *)
(***************************************************************************)
EXTENDS Naturals

CONSTANTS Processes, Dirs, DirOf, Latest, NoOne

VARIABLES
  owner,    \* of each directory
  version,  \* of its database
  open,     \* processes that have it open
  using     \* those at work in it

vars == <<owner, version, open, using>>

Init ==
  /\ owner = [r \in Dirs |-> NoOne] /\ version \in [Dirs -> 0..Latest]
  /\ open = {} /\ using = {}

Acquire(p) ==
  /\ owner[DirOf[p]] = NoOne
  /\ owner' = [owner EXCEPT ![DirOf[p]] = p]
  /\ UNCHANGED <<version, open, using>>

Open(p) ==
  /\ owner[DirOf[p]] = p
  /\ open' = open \cup {p}
  /\ UNCHANGED <<owner, version, using>>

Upgrade(p) ==
  /\ owner[DirOf[p]] = p /\ p \in open /\ version[DirOf[p]] < Latest
  /\ version' = [version EXCEPT ![DirOf[p]] = @ + 1]
  /\ UNCHANGED <<owner, open, using>>

Use(p) ==
  /\ owner[DirOf[p]] = p /\ p \in open /\ version[DirOf[p]] = Latest
  /\ using' = using \cup {p}
  /\ UNCHANGED <<owner, version, open>>

Rest(p) ==
  /\ using' = using \ {p}
  /\ UNCHANGED <<owner, version, open>>

Close(p) ==
  /\ p \notin using
  /\ open' = open \ {p}
  /\ UNCHANGED <<owner, version, using>>

\* The directory is given up, whether the database is open or not.
Release(p) ==
  /\ owner[DirOf[p]] = p /\ p \notin using
  /\ owner' = [owner EXCEPT ![DirOf[p]] = NoOne]
  /\ UNCHANGED <<version, open, using>>

\* The end of a process, by itself or not.
Leave(p) ==
  /\ owner' = [r \in Dirs |-> IF owner[r] = p THEN NoOne ELSE owner[r]]
  /\ open' = open \ {p} /\ using' = using \ {p}
  /\ UNCHANGED version

Next ==
  \E p \in Processes :
    \/ Acquire(p) \/ Open(p) \/ Upgrade(p) \/ Use(p) \/ Rest(p) \/ Close(p)
    \/ Release(p) \/ Leave(p)

Spec == Init /\ [][Next]_vars

=============================================================================
