------------------------------ MODULE Avatars ------------------------------
(***************************************************************************)
(* The avatar store (avatars.go): chats.list and chat.open look a picture  *)
(* up in the cache and in cae_contacts and schedule a fetch of what they   *)
(* miss; avatars.download fetches at once.  Scheduled fetches are bounded  *)
(* by slots and marked busy; all fetches write a file, then the row, then  *)
(* the cache, and only the map accesses are under the store's mutex.       *)
(*                                                                         *)
(* A picture is known by its number among those its peer has had; 0 is     *)
(* none, as a path, an id or a picture.  Its file is named after it, since *)
(* picture ids differ.                                                     *)
(***************************************************************************)
EXTENDS Naturals, FiniteSets

CONSTANTS
  Jids,         \* peers
  Unnamed,      \* the peers about whose pictures the server tells no id
  Listers,      \* the goroutines of chats.list and chat.open
  Fetchers,     \* the goroutines of scheduled fetches
  MaxInflight,  \* avatarMaxInflight (4 in the code)
  CacheCap,     \* avatarCacheMax (4096 in the code)
  MaxEvents,    \* bound: pictures set or taken away, calls of avatars.download, a shutdown
  MaxFaults     \* bound: failing calls and statements, files that are deleted, crashes

ASSUME AvatarsAssumption ==
  /\ IsFiniteSet(Jids) /\ Unnamed \subseteq Jids /\ IsFiniteSet(Listers) /\ IsFiniteSet(Fetchers)
  /\ Listers \cap Fetchers = {} /\ "rpc" \notin Listers \cup Fetchers
  /\ Cardinality(Jids) <= Cardinality(Fetchers)    \* goroutines are not limited: one per mark
  /\ MaxInflight \in Nat \ {0} /\ CacheCap \in Nat /\ MaxEvents \in Nat /\ MaxFaults \in Nat

VARIABLES
  picture,   \* per peer, how many pictures it has had, and whether it has one: the network's view
  file,      \* per peer, its pictures that have been written, and those of them that are there
  contact,   \* cae_contacts: avatar_path and avatar_id
  cache,     \* avatarStore.cache: the peers with an entry, its path and whether it is still valid
  busy,      \* avatarStore.busy
  sem,       \* places taken in avatarStore.sem
  lister,    \* per lister: next step, peer, path read
  fetch,     \* per fetcher, and for "rpc", avatars.download: next step, peer, picture, id, path
  closing,   \* Service.closing, by which goTracked refuses
  budget     \* what is left of the bounds

store == <<file, contact, cache>>
slots == <<busy, sem>>
actors == <<lister, fetch>>
vars == <<picture, store, slots, actors, closing, budget>>

NoJid == "nojid"
IdleLister == [at |-> "idle", jid |-> NoJid, path |-> 0]
IdleFetch == [at |-> "idle", jid |-> NoJid, picture |-> 0, id |-> 0, path |-> 0]
Actors == Fetchers \cup {"rpc"}

Init ==
  /\ picture \in [Jids -> [number : {0, 1}, set : BOOLEAN]]
  /\ \A j \in Jids : picture[j].set <=> picture[j].number = 1
  /\ file = [j \in Jids |-> [written |-> {}, there |-> {}]]
  /\ contact = [j \in Jids |-> [path |-> 0, id |-> 0]]
  /\ cache = [j \in {} |-> 0] /\ busy = {} /\ sem = 0
  /\ lister = [l \in Listers |-> IdleLister] /\ fetch = [f \in Actors |-> IdleFetch]
  /\ closing = FALSE /\ budget = [events |-> MaxEvents, faults |-> MaxFaults]

Event == budget.events > 0 /\ budget' = [budget EXCEPT !.events = @ - 1]
Fault == budget.faults > 0 /\ budget' = [budget EXCEPT !.faults = @ - 1]

-----------------------------------------------------------------------------
(* The cache and the slots                                                 *)

\* lookup: an entry counts until its time to live is over.
Cached(j) == j \in DOMAIN cache /\ cache[j].valid

\* A full cache takes nothing, not even a new result for a peer it holds: entries are never
\* removed.
remember(j, path) ==
  cache' = IF Cardinality(DOMAIN cache) >= CacheCap THEN cache
           ELSE [k \in DOMAIN cache \cup {j} |->
                  IF k = j THEN [path |-> path, valid |-> TRUE] ELSE cache[k]]

\* Wrong variant: that a peer has no picture is remembered for good.
Expire_OnlyPaths(j) ==
  /\ Cached(j) /\ cache[j].path # 0
  /\ cache' = [cache EXCEPT ![j].valid = FALSE]
  /\ UNCHANGED <<picture, file, contact, slots, actors, closing, budget>>

\* avatarPositiveTTL or avatarNegativeTTL has passed.
Expire(j) ==
  /\ Cached(j)
  /\ cache' = [cache EXCEPT ![j].valid = FALSE]
  /\ UNCHANGED <<picture, file, contact, slots, actors, closing, budget>>

\* The path in the row, if its file exists.
Stored(j) == IF contact[j].path \in file[j].there THEN contact[j].path ELSE 0

-----------------------------------------------------------------------------
(* backfill and schedule                                                   *)

StepTo(l, at) == lister' = [lister EXCEPT ![l].at = at]
Done(l) == lister' = [lister EXCEPT ![l] = IdleLister]

Begin(l, j) ==
  /\ lister[l].at = "idle"
  /\ lister' = [lister EXCEPT ![l] = [IdleLister EXCEPT !.at = "lookup", !.jid = j]]
  /\ UNCHANGED <<picture, store, slots, fetch, closing, budget>>

Lookup(l) ==
  /\ lister[l].at = "lookup"
  /\ IF Cached(lister[l].jid) THEN Done(l) ELSE StepTo(l, "row")
  /\ UNCHANGED <<picture, store, slots, fetch, closing, budget>>

\* GetContact and fileExists; what is found is remembered in a step of its own.
LookupRow(l) ==
  /\ lister[l].at = "row"
  /\ \/ /\ lister' = [lister EXCEPT ![l].at = IF Stored(lister[l].jid) # 0 THEN "remember" ELSE "schedule",
                                    ![l].path = Stored(lister[l].jid)]
        /\ UNCHANGED budget
     \/ Fault /\ StepTo(l, "schedule")
  /\ UNCHANGED <<picture, store, slots, fetch, closing>>

RememberRow(l) ==
  /\ lister[l].at = "remember"
  /\ remember(lister[l].jid, lister[l].path)
  /\ Done(l)
  /\ UNCHANGED <<picture, file, contact, slots, fetch, closing, budget>>

\* Wrong variant: a peer whose last fetch has only its mark left is let in.
Claim_WhileMarked(l) ==
  /\ lister[l].at = "schedule"
  /\ IF sem >= MaxInflight
       THEN Done(l) /\ UNCHANGED slots
       ELSE StepTo(l, "start") /\ busy' = busy \cup {lister[l].jid} /\ sem' = sem + 1
  /\ UNCHANGED <<picture, store, fetch, closing, budget>>

\* schedule: one fetch of a peer at a time, and no more than there are slots.
Claim(l) ==
  LET j == lister[l].jid IN
  /\ lister[l].at = "schedule"
  /\ IF j \in busy \/ sem >= MaxInflight
       THEN Done(l) /\ UNCHANGED slots
       ELSE StepTo(l, "start") /\ busy' = busy \cup {j} /\ sem' = sem + 1
  /\ UNCHANGED <<picture, store, fetch, closing, budget>>

\* goTracked: refused once the service closes.
Launch(l) ==
  /\ lister[l].at = "start"
  /\ IF closing
       THEN StepTo(l, "refused") /\ UNCHANGED fetch
       ELSE LET f == CHOOSE g \in Fetchers : fetch[g].at = "idle" IN
            fetch' = [fetch EXCEPT ![f] = [IdleFetch EXCEPT !.at = "ask", !.jid = lister[l].jid]] /\ Done(l)
  /\ UNCHANGED <<picture, store, slots, closing, budget>>

\* Wrong variant: a refused fetch keeps its slot.
RefusedFrees_Nothing(l) ==
  /\ lister[l].at = "refused"
  /\ StepTo(l, "unmark")
  /\ UNCHANGED <<picture, store, slots, fetch, closing, budget>>

\* A refused fetch gives its slot back, then its mark.
RefusedFrees(l) ==
  /\ lister[l].at = "refused"
  /\ StepTo(l, "unmark") /\ sem' = sem - 1
  /\ UNCHANGED <<picture, store, busy, fetch, closing, budget>>

RefusedUnmarks(l) ==
  /\ lister[l].at = "unmark"
  /\ Done(l) /\ busy' = busy \ {lister[l].jid}
  /\ UNCHANGED <<picture, store, sem, fetch, closing, budget>>

ListerStep(l) ==
  \/ Lookup(l) \/ LookupRow(l) \/ RememberRow(l) \/ Claim(l) \/ Launch(l)
  \/ RefusedFrees(l) \/ RefusedUnmarks(l)

-----------------------------------------------------------------------------
(* download, by a scheduled fetch or by avatars.download                   *)

FetchFrame == UNCHANGED <<picture, slots, lister, closing>>

\* What follows download: a fetch remembers a failure too, the method does not.
Failed(f) ==
  fetch' = [fetch EXCEPT ![f] =
    IF f = "rpc" THEN IdleFetch ELSE [@ EXCEPT !.at = "remember", !.path = 0]]
Fails(f) == Fault /\ Failed(f)

\* avatars.download: a path in the cache is the answer.
Call(j) ==
  /\ fetch["rpc"].at = "idle" /\ Event
  /\ ~(Cached(j) /\ cache[j].path # 0)
  /\ fetch' = [fetch EXCEPT !["rpc"] = [IdleFetch EXCEPT !.at = "ask", !.jid = j]]
  /\ UNCHANGED store /\ FetchFrame

\* GetProfilePictureInfo, external: the picture there is, with or without its id.
Ask(f) ==
  LET now == picture[fetch[f].jid] IN
  /\ fetch[f].at = "ask"
  /\ \/ /\ now.set /\ UNCHANGED budget
        /\ fetch' = [fetch EXCEPT ![f].at = "reuse", ![f].picture = now.number,
                                  ![f].id = IF fetch[f].jid \in Unnamed THEN 0 ELSE now.number]
     \/ ~now.set /\ Failed(f) /\ UNCHANGED budget
     \/ Fails(f)
  /\ UNCHANGED store /\ FetchFrame

\* A stored picture is used again unless both ids are known and differ.
Reuse(f) ==
  LET j == fetch[f].jid
      same == contact[j].id = 0 \/ fetch[f].id = 0 \/ contact[j].id = fetch[f].id
  IN
  /\ fetch[f].at = "reuse"
  /\ \/ /\ fetch' = [fetch EXCEPT ![f] =
             IF Stored(j) # 0 /\ same
               THEN [@ EXCEPT !.at = "remember", !.path = contact[j].path]
               ELSE [@ EXCEPT !.at = "write"]]
        /\ UNCHANGED budget
     \/ Fault /\ fetch' = [fetch EXCEPT ![f].at = "write"]
  /\ UNCHANGED store /\ FetchFrame

\* Wrong variant: a copy that fails half way is not noticed.
WriteFile_IgnoresError(f) ==
  LET j == fetch[f].jid IN
  /\ fetch[f].at = "write"
  /\ \/ /\ file' = [file EXCEPT ![j] = [written |-> @.written \cup {fetch[f].picture},
                                        there |-> @.there \cup {fetch[f].picture}]]
        /\ UNCHANGED budget
     \/ Fault /\ UNCHANGED file
  /\ fetch' = [fetch EXCEPT ![f].at = "row", ![f].path = fetch[f].picture]
  /\ UNCHANGED <<contact, cache>> /\ FetchFrame

\* The bytes go to a temporary file, which is renamed into place.  A chmod that fails
\* after the rename leaves the file.
WriteFile(f) ==
  LET put == [file EXCEPT ![fetch[f].jid] = [written |-> @.written \cup {fetch[f].picture},
                                             there |-> @.there \cup {fetch[f].picture}]]
  IN
  /\ fetch[f].at = "write"
  /\ \/ /\ file' = put
        /\ fetch' = [fetch EXCEPT ![f].at = "row", ![f].path = fetch[f].picture]
        /\ UNCHANGED budget
     \/ Fails(f) /\ file' \in {file, put}
  /\ UNCHANGED <<contact, cache>> /\ FetchFrame

\* UpsertContact: an empty id leaves the one that was there; a failure is only logged.
StoreRow(f) ==
  LET j == fetch[f].jid IN
  /\ fetch[f].at = "row"
  /\ fetch' = [fetch EXCEPT ![f].at = "remember"]
  /\ \/ /\ contact' = [contact EXCEPT ![j] =
             [path |-> fetch[f].path, id |-> IF fetch[f].id # 0 THEN fetch[f].id ELSE @.id]]
        /\ UNCHANGED budget
     \/ Fault /\ UNCHANGED contact
  /\ UNCHANGED <<file, cache>> /\ FetchFrame

\* The result is remembered, and announced if there is a path.
Finish(f) ==
  /\ fetch[f].at = "remember"
  /\ remember(fetch[f].jid, fetch[f].path)
  /\ fetch' = [fetch EXCEPT ![f] =
       IF f = "rpc" THEN IdleFetch ELSE [IdleFetch EXCEPT !.at = "free", !.jid = fetch[f].jid]]
  /\ UNCHANGED <<file, contact, budget>> /\ FetchFrame

\* A fetch gives its slot back, then its mark.
Free(f) ==
  /\ fetch[f].at = "free"
  /\ sem' = sem - 1
  /\ fetch' = [fetch EXCEPT ![f].at = "unmark"]
  /\ UNCHANGED <<picture, store, busy, lister, closing, budget>>

Unmark(f) ==
  /\ fetch[f].at = "unmark"
  /\ busy' = busy \ {fetch[f].jid}
  /\ fetch' = [fetch EXCEPT ![f] = IdleFetch]
  /\ UNCHANGED <<picture, store, sem, lister, closing, budget>>

FetchStep(f) ==
  Ask(f) \/ Reuse(f) \/ WriteFile(f) \/ StoreRow(f) \/ Finish(f) \/ Free(f) \/ Unmark(f)

-----------------------------------------------------------------------------
(* The network, the file system, shutdown, crashes                         *)

\* A peer sets a picture, or takes it away.
ChangePicture(j) ==
  /\ Event
  /\ picture' = [picture EXCEPT ![j] =
       IF @.set THEN [@ EXCEPT !.set = FALSE] ELSE [number |-> @.number + 1, set |-> TRUE]]
  /\ UNCHANGED <<store, slots, actors, closing>>

\* Somebody empties the cache directory.
DeleteFiles ==
  /\ Fault
  /\ file' = [j \in Jids |-> [file[j] EXCEPT !.there = {}]]
  /\ UNCHANGED <<picture, contact, cache, slots, actors, closing>>

Close ==
  /\ ~closing /\ Event
  /\ closing' = TRUE
  /\ UNCHANGED <<picture, store, slots, actors>>

\* The process ends, by itself after Close, and is started again.
Restart ==
  /\ IF closing THEN UNCHANGED budget ELSE Fault
  /\ cache' = [j \in {} |-> 0] /\ busy' = {} /\ sem' = 0
  /\ lister' = [l \in Listers |-> IdleLister] /\ fetch' = [f \in Actors |-> IdleFetch]
  /\ closing' = FALSE
  /\ UNCHANGED <<picture, file, contact>>

Next ==
  \/ \E l \in Listers : ListerStep(l)
  \/ \E l \in Listers, j \in Jids : Begin(l, j)
  \/ \E f \in Actors : FetchStep(f)
  \/ \E j \in Jids : Call(j) \/ Expire(j) \/ ChangePicture(j)
  \/ DeleteFiles \/ Close \/ Restart

Spec == Init /\ [][Next]_vars

\* Whoever has begun goes on, and what is cached expires.
FairSpec ==
  /\ Spec
  /\ \A l \in Listers : WF_vars(ListerStep(l))
  /\ \A f \in Actors : WF_vars(FetchStep(f))
  /\ \A j \in Jids : WF_vars(Expire(j))

-----------------------------------------------------------------------------
(* Properties                                                              *)

\* Besides the types: the cache keeps its bound, and no row, entry or fetch names a file
\* that has not been written.
TypeOK ==
  /\ picture \in [Jids -> [number : Nat, set : BOOLEAN]]
  /\ file \in [Jids -> [written : SUBSET Nat, there : SUBSET Nat]]
  /\ \A j \in Jids : file[j].there \subseteq file[j].written /\ 0 \notin file[j].written
  /\ contact \in [Jids -> [path : Nat, id : Nat]]
  /\ \A j \in Jids : contact[j].path \in file[j].written \cup {0}
  /\ DOMAIN cache \subseteq Jids /\ Cardinality(DOMAIN cache) <= CacheCap
  /\ cache \in [DOMAIN cache -> [path : Nat, valid : BOOLEAN]]
  /\ \A j \in DOMAIN cache : cache[j].path \in file[j].written \cup {0}
  /\ busy \subseteq Jids /\ sem \in Nat
  /\ lister \in [Listers -> [at : {"idle", "lookup", "row", "remember", "schedule", "start",
                                   "refused", "unmark"}, jid : Jids \cup {NoJid}, path : Nat]]
  /\ \A l \in Listers : lister[l].at # "idle" =>
       lister[l].jid \in Jids /\ lister[l].path \in file[lister[l].jid].written \cup {0}
  /\ fetch \in [Actors -> [at : {"idle", "ask", "reuse", "write", "row", "remember", "free", "unmark"},
                           jid : Jids \cup {NoJid}, picture : Nat, id : Nat, path : Nat]]
  /\ \A f \in Actors : fetch[f].at # "idle" =>
       fetch[f].jid \in Jids /\ fetch[f].path \in file[fetch[f].jid].written \cup {0}
  /\ closing \in BOOLEAN /\ budget \in [events : Nat, faults : Nat]

\* Who holds a slot, and who a mark: a scheduled fetch, or a lister about to start one.
SlotHolders ==
  {f \in Fetchers : fetch[f].at \notin {"idle", "unmark"}}
    \cup {l \in Listers : lister[l].at \in {"start", "refused"}}
Markers ==
  {<<f, fetch[f].jid>> : f \in {g \in Fetchers : fetch[g].at # "idle"}}
    \cup {<<l, lister[l].jid>> : l \in {k \in Listers : lister[k].at \in {"start", "refused", "unmark"}}}

\* The slots taken are those of the fetches there are, refused ones included, and never more
\* than the limit; a peer is marked while exactly one of them is about it.
InFlight ==
  /\ sem = Cardinality(SlotHolders) /\ sem <= MaxInflight
  /\ busy = {m[2] : m \in Markers}
  /\ \A m, n \in Markers : m[2] = n[2] => m = n

\* The peers whose fetch has its slot.
Fetched == {fetch[f].jid : f \in SlotHolders \cap Fetchers} \cup {lister[l].jid : l \in SlotHolders \cap Listers}

Pool == INSTANCE FetchPool WITH Peers <- Jids, Limit <- MaxInflight, fetched <- Fetched, marked <- busy

\* Listers, fetches, refusals and restarts implement FetchPool: a slot and a mark are taken
\* together, handed over from the lister to its fetch, and given back one after the other.
PoolKept == Pool!Spec

\* What a listing answers for a peer now.
Answer(j) == IF Cached(j) THEN cache[j].path ELSE Stored(j)

\* A peer is refused for want of a slot.
NoSlot(j) == \E l \in Listers : lister[l].at = "schedule" /\ lister[l].jid = j /\ sem >= MaxInflight

\* A peer with a picture that is listed again and again is answered with a path in the end,
\* whatever failed before, as long as it finds a slot and the service does not close.
PictureArrives ==
  \A j \in Jids :
    []<>(\E l \in Listers : lister[l].jid = j)
      => (picture[j].set ~> (Answer(j) # 0 \/ NoSlot(j) \/ ~picture[j].set \/ closing))

=============================================================================
