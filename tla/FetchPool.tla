------------------------------ MODULE FetchPool ------------------------------
(***************************************************************************)
(* What the avatar store promises the network and the peers' pictures,     *)
(* whatever is listed, fails, closes or is restarted: no more fetches at a *)
(* time than the limit, no second fetch of a peer while its mark stands,   *)
(* and a mark that stands until its fetch is over.                         *)
(***************************************************************************)
EXTENDS Naturals, FiniteSets

CONSTANTS Peers, Limit

VARIABLES
  fetched,  \* peers with a fetch, begun or about to begin
  marked    \* peers nobody else may fetch

vars == <<fetched, marked>>

Init == fetched = {} /\ marked = {}

Admit(j) ==
  /\ j \notin marked /\ Cardinality(fetched) < Limit
  /\ fetched' = fetched \cup {j} /\ marked' = marked \cup {j}

Release(j) ==
  /\ j \in fetched
  /\ fetched' = fetched \ {j}
  /\ UNCHANGED marked

Unmark(j) ==
  /\ j \in marked \ fetched
  /\ marked' = marked \ {j}
  /\ UNCHANGED fetched

Restart == fetched' = {} /\ marked' = {}

Next == Restart \/ \E j \in Peers : Admit(j) \/ Release(j) \/ Unmark(j)

Spec == Init /\ [][Next]_vars

=============================================================================
