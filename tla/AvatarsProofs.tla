--------------------------- MODULE AvatarsProofs ---------------------------
(***************************************************************************)
(* Proofs about Avatars.tla, for any peers, listers, slots and bounds.     *)
(*                                                                         *)
(* The argument: sem counts the slot holders and busy lists their peers,   *)
(* so each claim, release and hand-over changes both sides alike.  A mark  *)
(* outlives its slot, never the reverse, and no two marks are about one    *)
(* peer; so there are no more marks than peers, and a fetch that was let   *)
(* in finds a goroutine.                                                   *)
(***************************************************************************)
EXTENDS Avatars, FiniteSetTheorems, TLAPS

Written(j) == file[j].written \cup {0}

PictureOK ==
  /\ picture \in [Jids -> [number : Nat, set : BOOLEAN]]
  /\ \A j \in Jids : picture[j].set => picture[j].number # 0
FileOK ==
  /\ file \in [Jids -> [written : SUBSET Nat, there : SUBSET Nat]]
  /\ \A j \in Jids : file[j].there \subseteq file[j].written /\ 0 \notin file[j].written
ContactOK ==
  /\ contact \in [Jids -> [path : Nat, id : Nat]]
  /\ \A j \in Jids : contact[j].path \in Written(j)
CacheOK ==
  /\ DOMAIN cache \subseteq Jids /\ Cardinality(DOMAIN cache) <= CacheCap
  /\ cache \in [DOMAIN cache -> [path : Nat, valid : BOOLEAN]]
  /\ \A j \in DOMAIN cache : cache[j].path \in Written(j)

ListerTypes ==
  [at : {"idle", "lookup", "row", "remember", "schedule", "start", "refused", "unmark"},
   jid : Jids \cup {NoJid}, path : Nat]
ListerOK ==
  /\ lister \in [Listers -> ListerTypes]
  /\ \A l \in Listers : lister[l].at # "idle" =>
       lister[l].jid \in Jids /\ lister[l].path \in Written(lister[l].jid)

FetchTypes ==
  [at : {"idle", "ask", "reuse", "write", "row", "remember", "free", "unmark"},
   jid : Jids \cup {NoJid}, picture : Nat, id : Nat, path : Nat]

\* Only a picture there is gets written, and avatars.download has nothing to give back.
FetchOK ==
  /\ fetch \in [Actors -> FetchTypes]
  /\ \A f \in Actors :
       /\ fetch[f].at # "idle" =>
            fetch[f].jid \in Jids /\ fetch[f].path \in Written(fetch[f].jid)
       /\ fetch[f].at \in {"reuse", "write"} => fetch[f].picture # 0
  /\ fetch["rpc"].at \notin {"free", "unmark"}

RestOK ==
  busy \subseteq Jids /\ sem \in Nat /\ closing \in BOOLEAN /\ budget \in [events : Nat, faults : Nat]

Types == PictureOK /\ FileOK /\ ContactOK /\ CacheOK /\ ListerOK /\ FetchOK /\ RestOK

\* The inductive invariant.
IInv == Types /\ InFlight

-----------------------------------------------------------------------------
(* Slots and marks                                                         *)

\* The same in terms of members.
LEMMA MarkedPeers == InFlight <=>
  /\ sem = Cardinality(SlotHolders) /\ sem <= MaxInflight
  /\ \A j : j \in busy <=> \E m \in Markers : m[2] = j
  /\ \A m, n \in Markers : m[2] = n[2] => m = n
  BY DEF InFlight

LEMMA HoldersFinite == IsFiniteSet(SlotHolders) /\ Cardinality(SlotHolders) \in Nat
<1>1. IsFiniteSet(Fetchers \cup Listers)
  BY AvatarsAssumption, FS_Union
<1>2. SlotHolders \subseteq Fetchers \cup Listers
  BY DEF SlotHolders
<1> QED BY <1>1, <1>2, FS_Subset, FS_CardinalityType

\* Who holds nothing before and after a step changes neither slots nor marks.
LEMMA InFlightFrame ==
  ASSUME InFlight, UNCHANGED slots,
         \A f \in Fetchers :
           \/ UNCHANGED fetch[f]
           \/ /\ {fetch[f].at, fetch'[f].at} \cap {"idle", "unmark"} = {}
              /\ fetch'[f].jid = fetch[f].jid,
         \A l \in Listers :
           \/ UNCHANGED lister[l]
           \/ {lister[l].at, lister'[l].at} \cap {"start", "refused", "unmark"} = {}
           \/ lister[l].at = "start" /\ lister'[l].at = "refused" /\ lister'[l].jid = lister[l].jid
  PROVE  InFlight'
<1>1. SlotHolders' = SlotHolders
  BY DEF SlotHolders
<1>2. Markers' = Markers
  <2>1. {<<f, fetch[f].jid>> : f \in {g \in Fetchers : fetch[g].at # "idle"}}'
          = {<<f, fetch[f].jid>> : f \in {g \in Fetchers : fetch[g].at # "idle"}}
    <3>1. \A g \in Fetchers :
            /\ fetch'[g].at # "idle" <=> fetch[g].at # "idle"
            /\ fetch[g].at # "idle" => fetch'[g].jid = fetch[g].jid
      OBVIOUS
    <3> QED BY <3>1
  <2>2. {<<l, lister[l].jid>> : l \in {k \in Listers : lister[k].at \in {"start", "refused", "unmark"}}}'
          = {<<l, lister[l].jid>> : l \in {k \in Listers : lister[k].at \in {"start", "refused", "unmark"}}}
    <3>1. \A k \in Listers :
            /\ lister'[k].at \in {"start", "refused", "unmark"}
                 <=> lister[k].at \in {"start", "refused", "unmark"}
            /\ lister[k].at \in {"start", "refused", "unmark"} => lister'[k].jid = lister[k].jid
      OBVIOUS
    <3> QED BY <3>1
  <2> QED BY <2>1, <2>2 DEF Markers
<1> QED BY <1>1, <1>2 DEF InFlight, slots

\* Every mark is a peer's, so an actor that has one keeps its peer marked.
LEMMA MarkBelongs ==
  ASSUME IInv, NEW m \in Markers PROVE m[2] \in Jids /\ m[2] \in busy
<1>1. m[2] \in Jids
  BY DEF Markers, IInv, Types, FetchOK, ListerOK, Actors
<1> QED BY <1>1 DEF IInv, InFlight

\* A claim: one more holder, one more mark.
LEMMA ClaimInFlight ==
  ASSUME IInv, NEW l \in Listers, lister[l].at = "schedule", lister[l].jid \notin busy, sem < MaxInflight,
         lister' = [lister EXCEPT ![l].at = "start"], fetch' = fetch,
         busy' = busy \cup {lister[l].jid}, sem' = sem + 1
  PROVE  InFlight'
<1> DEFINE j == lister[l].jid
<1>0. lister \in [Listers -> ListerTypes] /\ l \notin Fetchers
  BY AvatarsAssumption DEF IInv, Types, ListerOK
<1>1. lister'[l].at = "start" /\ lister'[l].jid = j /\ \A k \in Listers \ {l} : lister'[k] = lister[k]
  BY <1>0 DEF ListerTypes
<1>2. SlotHolders' = SlotHolders \cup {l} /\ l \notin SlotHolders
  BY <1>0, <1>1 DEF SlotHolders
<1>3. Markers' = Markers \cup {<<l, j>>}
  <2>1. {k \in Listers : lister[k].at \in {"start", "refused", "unmark"}}'
          = {k \in Listers : lister[k].at \in {"start", "refused", "unmark"}} \cup {l}
    BY <1>1
  <2>2. {<<k, lister[k].jid>> : k \in {k \in Listers : lister[k].at \in {"start", "refused", "unmark"}}}'
          = {<<k, lister[k].jid>> : k \in {k \in Listers : lister[k].at \in {"start", "refused", "unmark"}}}
              \cup {<<l, j>>}
    BY <1>1, <2>1
  <2> QED BY <2>2 DEF Markers
<1>4. sem' = Cardinality(SlotHolders')
  BY <1>2, HoldersFinite, FS_AddElement DEF IInv, InFlight
<1>5. \A x : x \in busy' <=> \E m \in Markers' : m[2] = x
  <2>1. \A x : x \in busy <=> \E m \in Markers : m[2] = x
    BY MarkedPeers DEF IInv
  <2>2. <<l, j>>[2] = j
    OBVIOUS
  <2> QED BY <1>3, <2>1, <2>2
<1>6. \A m \in Markers : m[2] # j
  BY MarkBelongs
<1>7. \A m, n \in Markers' : m[2] = n[2] => m = n
  BY <1>3, <1>6 DEF IInv, InFlight
<1>8. sem' <= MaxInflight
  BY AvatarsAssumption DEF IInv, Types, RestOK
<1> QED BY <1>4, <1>5, <1>7, <1>8 DEF InFlight

\* A slot is given back: one holder less, marks as they were.
LEMMA SlotFreed ==
  ASSUME IInv, NEW x, SlotHolders' = SlotHolders \ {x}, x \in SlotHolders, Markers' = Markers,
         sem' = sem - 1, busy' = busy
  PROVE  InFlight'
<1>1. sem' = Cardinality(SlotHolders')
  BY HoldersFinite, FS_RemoveElement DEF IInv, InFlight
<1>2. sem' <= MaxInflight
  BY AvatarsAssumption DEF IInv, Types, RestOK, InFlight
<1> QED BY <1>1, <1>2 DEF IInv, InFlight

\* Whoever holds a slot has taken one.
LEMMA SlotsInUse ==
  ASSUME IInv, NEW x \in SlotHolders PROVE sem - 1 \in Nat
<1>1. SlotHolders # {} /\ sem = Cardinality(SlotHolders)
  BY DEF IInv, InFlight
<1> QED BY <1>1, HoldersFinite, FS_EmptySet

\* A mark is taken off: it was the only one about its peer.
LEMMA MarkRemoved ==
  ASSUME IInv, NEW m \in Markers, Markers' = Markers \ {m}, SlotHolders' = SlotHolders,
         sem' = sem, busy' = busy \ {m[2]}
  PROVE  InFlight'
<1>1. \A n \in Markers : n # m => n[2] # m[2]
  BY DEF IInv, InFlight
<1>2. busy' = {n[2] : n \in Markers'}
  BY <1>1 DEF IInv, InFlight
<1> QED BY <1>2 DEF IInv, InFlight

\* There are as many fetchers as marks: one is idle whenever a lister holds a mark.
LEMMA FetcherIdle ==
  ASSUME IInv, NEW l \in Listers, lister[l].at = "start"
  PROVE  \E f \in Fetchers : fetch[f].at = "idle"
<1> SUFFICES ASSUME \A f \in Fetchers : fetch[f].at # "idle" PROVE FALSE
  OBVIOUS
<1> DEFINE j == lister[l].jid
<1> DEFINE peer == [f \in Fetchers |-> fetch[f].jid]
<1>1. <<l, j>> \in Markers /\ l \notin Fetchers /\ j \in Jids
  BY AvatarsAssumption DEF Markers, IInv, Types, ListerOK
<1>2. \A f \in Fetchers : <<f, fetch[f].jid>> \in Markers /\ fetch[f].jid \in Jids
  BY DEF Markers, IInv, Types, FetchOK, Actors
<1>3. \A f \in Fetchers : fetch[f].jid # j
  BY <1>1, <1>2 DEF IInv, InFlight
<1>4. \A f, g \in Fetchers : fetch[f].jid = fetch[g].jid => f = g
  BY <1>2 DEF IInv, InFlight
<1>5. peer \in [Fetchers -> Jids \ {j}]
  BY <1>2, <1>3
<1>6. /\ IsFiniteSet(Jids \ {j}) /\ Cardinality(Jids \ {j}) < Cardinality(Fetchers)
      /\ IsFiniteSet(Fetchers)
  <2>1. /\ IsFiniteSet(Jids) /\ IsFiniteSet(Fetchers)
        /\ Cardinality(Jids) \in Nat /\ Cardinality(Fetchers) \in Nat
        /\ Cardinality(Jids) <= Cardinality(Fetchers)
    BY AvatarsAssumption, FS_CardinalityType
  <2>2. IsFiniteSet(Jids \ {j}) /\ Cardinality(Jids \ {j}) = Cardinality(Jids) - 1
    BY <1>1, <2>1, FS_RemoveElement
  <2> QED BY <2>1, <2>2
<1>7. \E f, g \in Fetchers : f # g /\ peer[f] = peer[g]
  <2> HIDE DEF peer
  <2> QED BY <1>5, <1>6, FS_PigeonHole
<1> QED BY <1>4, <1>7

\* A slot and a mark go from the lister that claimed them to the fetch it starts.
LEMMA LaunchInFlight ==
  ASSUME IInv, NEW l \in Listers, lister[l].at = "start",
         NEW f \in Fetchers, fetch[f].at = "idle",
         fetch' = [fetch EXCEPT ![f] = [IdleFetch EXCEPT !.at = "ask", !.jid = lister[l].jid]],
         lister' = [lister EXCEPT ![l] = IdleLister], UNCHANGED slots
  PROVE  InFlight'
<1> DEFINE j == lister[l].jid
<1>0. /\ l \notin Fetchers /\ f \in Actors /\ f \notin Listers
      /\ fetch \in [Actors -> FetchTypes] /\ lister \in [Listers -> ListerTypes]
  BY AvatarsAssumption DEF IInv, Types, FetchOK, ListerOK, Actors
<1>1. fetch'[f].at = "ask" /\ fetch'[f].jid = j /\ \A g \in Fetchers \ {f} : fetch'[g] = fetch[g]
  BY <1>0 DEF IdleFetch, Actors
<1>2. lister'[l].at = "idle" /\ \A k \in Listers \ {l} : lister'[k] = lister[k]
  BY <1>0 DEF IdleLister
<1>3. SlotHolders' = (SlotHolders \ {l}) \cup {f} /\ l \in SlotHolders /\ f \notin SlotHolders
  BY <1>0, <1>1, <1>2 DEF SlotHolders
<1>4. Markers' = (Markers \ {<<l, j>>}) \cup {<<f, j>>} /\ <<l, j>> \in Markers
  <2>1. {g \in Fetchers : fetch[g].at # "idle"}' = {g \in Fetchers : fetch[g].at # "idle"} \cup {f}
    BY <1>1
  <2>2. {<<g, fetch[g].jid>> : g \in {h \in Fetchers : fetch[h].at # "idle"}}'
          = {<<g, fetch[g].jid>> : g \in {h \in Fetchers : fetch[h].at # "idle"}} \cup {<<f, j>>}
    BY <1>1, <2>1
  <2>3. {k \in Listers : lister[k].at \in {"start", "refused", "unmark"}}'
          = {k \in Listers : lister[k].at \in {"start", "refused", "unmark"}} \ {l}
    BY <1>2
  <2>4. {<<k, lister[k].jid>> : k \in {h \in Listers : lister[h].at \in {"start", "refused", "unmark"}}}'
          = {<<k, lister[k].jid>> : k \in {h \in Listers : lister[h].at \in {"start", "refused", "unmark"}}}
              \ {<<l, j>>}
    BY <1>2, <2>3
  <2>5. <<l, j>> \notin {<<g, fetch[g].jid>> : g \in {h \in Fetchers : fetch[h].at # "idle"}}
    BY <1>0
  <2>6. <<l, j>> \in Markers
    BY DEF Markers
  <2> QED BY <2>2, <2>4, <2>5, <2>6 DEF Markers
<1>5. sem' = Cardinality(SlotHolders')
  <2>1. Cardinality(SlotHolders \ {l}) = Cardinality(SlotHolders) - 1 /\ IsFiniteSet(SlotHolders \ {l})
    BY <1>3, HoldersFinite, FS_RemoveElement
  <2>2. Cardinality(SlotHolders') = Cardinality(SlotHolders \ {l}) + 1
    BY <1>3, <2>1, FS_AddElement
  <2> QED BY <2>1, <2>2, HoldersFinite DEF IInv, InFlight, slots
<1>6. \A x : x \in busy' <=> \E m \in Markers' : m[2] = x
  <2>1. \A x : x \in busy <=> \E m \in Markers : m[2] = x
    BY MarkedPeers DEF IInv
  <2>2. <<l, j>>[2] = j /\ <<f, j>>[2] = j
    OBVIOUS
  <2>3. ASSUME NEW x PROVE (\E m \in Markers : m[2] = x) <=> \E m \in Markers' : m[2] = x
    <3>1. CASE x = j
      BY <1>4, <2>2, <3>1
    <3>2. CASE x # j
      BY <1>4, <2>2, <3>2
    <3> QED BY <3>1, <3>2
  <2> QED BY <2>1, <2>3 DEF slots
<1>7. \A m \in Markers : m[2] = j => m = <<l, j>>
  BY <1>4 DEF IInv, InFlight
<1>8. \A m, n \in Markers' : m[2] = n[2] => m = n
  BY <1>4, <1>7 DEF IInv, InFlight
<1> QED BY <1>5, <1>6, <1>8 DEF IInv, InFlight, slots

-----------------------------------------------------------------------------
(* What a step leaves alone                                                *)

LEMMA ContactFrame ==
  ASSUME ContactOK, UNCHANGED <<file, contact>> PROVE ContactOK'
  BY DEF ContactOK, Written

LEMMA CacheFrame ==
  ASSUME CacheOK, UNCHANGED <<file, cache>> PROVE CacheOK'
  BY DEF CacheOK, Written

LEMMA ListerFrame ==
  ASSUME ListerOK, UNCHANGED <<file, lister>> PROVE ListerOK'
  BY DEF ListerOK, Written

LEMMA FetchFrameOK ==
  ASSUME FetchOK, UNCHANGED <<file, fetch>> PROVE FetchOK'
  BY DEF FetchOK, Written

\* A lister moves on with a path of its peer's.
LEMMA ListerMoves ==
  ASSUME ListerOK, UNCHANGED file, NEW l \in Listers, NEW new \in ListerTypes,
         lister' = [lister EXCEPT ![l] = new],
         new.at # "idle" => new.jid \in Jids /\ new.path \in Written(new.jid)
  PROVE  ListerOK'
  BY DEF ListerOK, Written

\* So does a fetch.
LEMMA FetchMoves ==
  ASSUME FetchOK, UNCHANGED file, NEW f \in Actors, NEW new \in FetchTypes,
         fetch' = [fetch EXCEPT ![f] = new],
         new.at # "idle" => new.jid \in Jids /\ new.path \in Written(new.jid),
         new.at \in {"reuse", "write"} => new.picture # 0,
         f = "rpc" => new.at \notin {"free", "unmark"}
  PROVE  FetchOK'
  BY DEF FetchOK, Written

LEMMA IdleTyped ==
  /\ IdleLister \in ListerTypes /\ IdleLister.at = "idle"
  /\ IdleFetch \in FetchTypes /\ IdleFetch.at = "idle"
  BY DEF IdleLister, IdleFetch, ListerTypes, FetchTypes

\* A stored path is one of its peer's.
LEMMA StoredIsWritten ==
  ASSUME Types, NEW j \in Jids PROVE Stored(j) \in Written(j) /\ Stored(j) \in Nat
  BY DEF Stored, Types, ContactOK, Written

\* The cache keeps its bound whatever it is told to remember.
LEMMA RememberKeeps ==
  ASSUME CacheOK, FileOK, UNCHANGED file, NEW j \in Jids, NEW path \in Written(j), remember(j, path)
  PROVE  CacheOK'
<1>1. path \in Nat
  BY DEF Written, FileOK
<1>2. CASE cache' = cache
  BY <1>2, CacheFrame
<1>3. CASE cache' # cache
  <2> DEFINE D == DOMAIN cache
  <2>1. /\ Cardinality(D) < CacheCap
        /\ cache' = [k \in D \cup {j} |-> IF k = j THEN [path |-> path, valid |-> TRUE] ELSE cache[k]]
    <3>1. IsFiniteSet(D)
      BY AvatarsAssumption, FS_Subset DEF CacheOK
    <3>2. Cardinality(D) \in Nat /\ CacheCap \in Nat
      BY <3>1, AvatarsAssumption, FS_CardinalityType
    <3> QED BY <1>3, <3>2 DEF remember
  <2>2. DOMAIN cache' = D \cup {j}
    BY <2>1
  <2>3. Cardinality(D \cup {j}) <= CacheCap
    <3>1. IsFiniteSet(D)
      BY AvatarsAssumption, FS_Subset DEF CacheOK
    <3>2. Cardinality(D) \in Nat /\ CacheCap \in Nat
      BY <3>1, AvatarsAssumption, FS_CardinalityType
    <3> HIDE DEF D
    <3>3. Cardinality(D \cup {j}) = IF j \in D THEN Cardinality(D) ELSE Cardinality(D) + 1
      BY <3>1, FS_AddElement
    <3>4. IsFiniteSet(D \cup {j}) /\ Cardinality(D \cup {j}) \in Nat
      BY <3>1, FS_AddElement, FS_CardinalityType
    <3> QED BY <2>1, <3>2, <3>3, <3>4
  <2>4. cache' \in [D \cup {j} -> [path : Nat, valid : BOOLEAN]]
    BY <1>1, <2>1 DEF CacheOK
  <2>5. \A k \in D \cup {j} : cache'[k].path \in Written(k)
    BY <2>1 DEF CacheOK
  <2> QED BY <2>2, <2>3, <2>4, <2>5 DEF CacheOK, Written
<1> QED BY <1>2, <1>3

-----------------------------------------------------------------------------
(* The listers                                                             *)

\* A lister that holds nothing before or after, or that is refused, leaves slots and marks.
LEMMA ListerHoldsAlike ==
  ASSUME IInv, NEW l \in Listers, NEW new, lister' = [lister EXCEPT ![l] = new],
         UNCHANGED <<fetch, slots>>,
         \/ {lister[l].at, new.at} \cap {"start", "refused", "unmark"} = {}
         \/ lister[l].at = "start" /\ new.at = "refused" /\ new.jid = lister[l].jid
  PROVE  InFlight'
<1>1. lister'[l] = new /\ \A k \in Listers \ {l} : lister'[k] = lister[k]
  BY DEF IInv, Types, ListerOK
<1>2. \A f \in Fetchers : UNCHANGED fetch[f]
  OBVIOUS
<1> QED BY <1>1, <1>2, InFlightFrame DEF IInv

LEMMA BeginStep ==
  ASSUME IInv, NEW l \in Listers, NEW j \in Jids, Begin(l, j) PROVE IInv'
<1> DEFINE new == [IdleLister EXCEPT !.at = "lookup", !.jid = j]
<1>1. new \in ListerTypes /\ new.at = "lookup" /\ new.jid = j /\ new.path = 0
  BY DEF IdleLister, ListerTypes
<1>2. /\ lister' = [lister EXCEPT ![l] = new] /\ lister[l].at = "idle"
      /\ UNCHANGED <<picture, store, slots, fetch, closing, budget>>
  BY DEF Begin
<1> HIDE DEF new
<1>3. ListerOK' /\ InFlight'
  BY <1>1, <1>2, ListerMoves, ListerHoldsAlike DEF IInv, Types, store, Written
<1> QED
  BY <1>2, <1>3, ContactFrame, CacheFrame, FetchFrameOK
  DEF IInv, Types, PictureOK, FileOK, RestOK, store, slots

LEMMA LookupStep ==
  ASSUME IInv, NEW l \in Listers, Lookup(l) PROVE IInv'
<1>0. /\ lister[l] \in ListerTypes /\ lister[l].jid \in Jids /\ lister[l].path \in Written(lister[l].jid)
      /\ lister[l].at = "lookup"
  BY DEF IInv, Types, ListerOK, Lookup
<1>1. PICK new \in {IdleLister, [lister[l] EXCEPT !.at = "row"]} : lister' = [lister EXCEPT ![l] = new]
  BY DEF Lookup, Done, StepTo
<1>2. /\ new \in ListerTypes /\ new.at \in {"idle", "row"}
      /\ new.at # "idle" => new.jid = lister[l].jid /\ new.path = lister[l].path
  BY <1>0, <1>1, IdleTyped DEF ListerTypes
<1>3. UNCHANGED <<picture, store, slots, fetch, closing, budget>>
  BY DEF Lookup
<1>4. ListerOK' /\ InFlight'
  BY <1>0, <1>1, <1>2, <1>3, ListerMoves, ListerHoldsAlike DEF IInv, Types, store
<1> QED
  BY <1>3, <1>4, ContactFrame, CacheFrame, FetchFrameOK
  DEF IInv, Types, PictureOK, FileOK, RestOK, store, slots

\* What is read from the row is a path of the peer's.
LEMMA LookupRowStep ==
  ASSUME IInv, NEW l \in Listers, LookupRow(l) PROVE IInv'
<1> DEFINE j == lister[l].jid
<1>0. /\ lister[l] \in ListerTypes /\ j \in Jids /\ lister[l].path \in Written(j)
      /\ lister[l].at = "row"
  BY DEF IInv, Types, ListerOK, LookupRow
<1>1. PICK at \in {"remember", "schedule"}, path \in {Stored(j), lister[l].path} :
        lister' = [lister EXCEPT ![l] = [lister[l] EXCEPT !.at = at, !.path = path]]
  <2>1. CASE Fault /\ StepTo(l, "schedule")
    <3>1. [lister[l] EXCEPT !.at = "schedule", !.path = lister[l].path] = [lister[l] EXCEPT !.at = "schedule"]
      BY <1>0 DEF ListerTypes
    <3>2. lister' = [lister EXCEPT ![l] = [lister[l] EXCEPT !.at = "schedule", !.path = lister[l].path]]
      BY <2>1, <3>1 DEF StepTo
    <3> QED BY <3>2
  <2>2. CASE lister' = [lister EXCEPT ![l].at = IF Stored(j) # 0 THEN "remember" ELSE "schedule",
                                      ![l].path = Stored(j)]
    <3> DEFINE at == IF Stored(j) # 0 THEN "remember" ELSE "schedule"
    <3>1. at \in {"remember", "schedule"}
      OBVIOUS
    <3>2. lister' = [lister EXCEPT ![l] = [lister[l] EXCEPT !.at = at, !.path = Stored(j)]]
      BY <1>0, <2>2 DEF IInv, Types, ListerOK, ListerTypes
    <3> HIDE DEF at
    <3> QED BY <3>1, <3>2
  <2> QED BY <2>1, <2>2 DEF LookupRow
<1>2. path \in Written(j) /\ path \in Nat
  BY <1>0, <1>1, StoredIsWritten DEF IInv, ListerTypes
<1> DEFINE new == [lister[l] EXCEPT !.at = at, !.path = path]
<1>3. new \in ListerTypes /\ new.at = at /\ new.jid = j /\ new.path = path
  BY <1>0, <1>2 DEF ListerTypes
<1>4. UNCHANGED <<picture, store, slots, fetch, closing>>
  BY DEF LookupRow
<1>5. lister' = [lister EXCEPT ![l] = new]
  BY <1>1
<1> HIDE DEF new
<1>6. ListerOK' /\ InFlight'
  <2>1. ListerOK'
    BY <1>0, <1>2, <1>3, <1>4, <1>5, ListerMoves DEF IInv, Types, store
  <2>2. {lister[l].at, new.at} \cap {"start", "refused", "unmark"} = {} /\ UNCHANGED <<fetch, slots>>
    BY <1>0, <1>1, <1>3, <1>4
  <2>3. InFlight'
    BY <1>5, <2>2, ListerHoldsAlike
  <2> QED BY <2>1, <2>3
<1>7. RestOK'
  BY <1>4 DEF IInv, Types, RestOK, LookupRow, Fault, slots
<1> QED
  BY <1>4, <1>6, <1>7, ContactFrame, CacheFrame, FetchFrameOK
  DEF IInv, Types, PictureOK, FileOK, store

LEMMA RememberRowStep ==
  ASSUME IInv, NEW l \in Listers, RememberRow(l) PROVE IInv'
<1>0. /\ lister[l].jid \in Jids /\ lister[l].path \in Written(lister[l].jid) /\ lister[l].at = "remember"
      /\ lister' = [lister EXCEPT ![l] = IdleLister]
      /\ UNCHANGED <<picture, file, contact, slots, fetch, closing, budget>>
  BY DEF IInv, Types, ListerOK, RememberRow, Done
<1>1. CacheOK'
  BY <1>0, RememberKeeps DEF IInv, Types, RememberRow
<1>2. ListerOK' /\ InFlight'
  BY <1>0, IdleTyped, ListerMoves, ListerHoldsAlike DEF IInv, Types
<1> QED
  BY <1>0, <1>1, <1>2, ContactFrame, FetchFrameOK
  DEF IInv, Types, PictureOK, FileOK, RestOK, slots

LEMMA ClaimStep ==
  ASSUME IInv, NEW l \in Listers, Claim(l) PROVE IInv'
<1> DEFINE j == lister[l].jid
<1>0. /\ lister[l] \in ListerTypes /\ j \in Jids /\ lister[l].path \in Written(j)
      /\ lister[l].at = "schedule"
      /\ UNCHANGED <<picture, store, fetch, closing, budget>>
  BY DEF IInv, Types, ListerOK, Claim
<1>1. CASE j \in busy \/ sem >= MaxInflight
  <2>1. lister' = [lister EXCEPT ![l] = IdleLister] /\ UNCHANGED slots
    BY <1>1 DEF Claim, Done
  <2>2. ListerOK' /\ InFlight'
    BY <1>0, <2>1, IdleTyped, ListerMoves, ListerHoldsAlike DEF IInv, Types, store
  <2> QED
    BY <1>0, <2>1, <2>2, ContactFrame, CacheFrame, FetchFrameOK
    DEF IInv, Types, PictureOK, FileOK, RestOK, store, slots
<1>2. CASE ~(j \in busy \/ sem >= MaxInflight)
  <2>1. /\ lister' = [lister EXCEPT ![l] = [lister[l] EXCEPT !.at = "start"]]
        /\ lister' = [lister EXCEPT ![l].at = "start"]
        /\ busy' = busy \cup {j} /\ sem' = sem + 1
    BY <1>2 DEF Claim, StepTo
  <2>2. sem < MaxInflight /\ sem \in Nat
    BY <1>2, AvatarsAssumption DEF IInv, Types, RestOK
  <2>3. InFlight'
    BY <1>0, <1>2, <2>1, <2>2, ClaimInFlight
  <2>4. ListerOK'
    <3> DEFINE new == [lister[l] EXCEPT !.at = "start"]
    <3>1. new \in ListerTypes /\ new.jid = j /\ new.path = lister[l].path
      BY <1>0 DEF ListerTypes
    <3>2. lister' = [lister EXCEPT ![l] = new]
      BY <2>1
    <3> HIDE DEF new
    <3> QED BY <1>0, <3>1, <3>2, ListerMoves DEF IInv, Types, store
  <2>5. RestOK'
    BY <1>0, <2>1, <2>2 DEF IInv, Types, RestOK
  <2> QED
    BY <1>0, <2>3, <2>4, <2>5, ContactFrame, CacheFrame, FetchFrameOK
    DEF IInv, Types, PictureOK, FileOK, store
<1> QED BY <1>1, <1>2

LEMMA LaunchStep ==
  ASSUME IInv, NEW l \in Listers, Launch(l) PROVE IInv'
<1> DEFINE j == lister[l].jid
<1>0. /\ lister[l] \in ListerTypes /\ j \in Jids /\ lister[l].path \in Written(j)
      /\ lister[l].at = "start"
      /\ UNCHANGED <<picture, store, slots, closing, budget>>
  BY DEF IInv, Types, ListerOK, Launch
<1>1. CASE closing
  <2>1. lister' = [lister EXCEPT ![l] = [lister[l] EXCEPT !.at = "refused"]] /\ UNCHANGED fetch
    BY <1>1 DEF Launch, StepTo
  <2> DEFINE new == [lister[l] EXCEPT !.at = "refused"]
  <2>2. new \in ListerTypes /\ new.at = "refused" /\ new.jid = j /\ new.path = lister[l].path
    BY <1>0 DEF ListerTypes
  <2>3. lister' = [lister EXCEPT ![l] = new]
    BY <2>1
  <2> HIDE DEF new
  <2>4. ListerOK' /\ InFlight'
    BY <1>0, <2>1, <2>2, <2>3, ListerMoves, ListerHoldsAlike DEF IInv, Types, store
  <2> QED
    BY <1>0, <2>1, <2>4, ContactFrame, CacheFrame, FetchFrameOK
    DEF IInv, Types, PictureOK, FileOK, RestOK, store, slots
<1>2. CASE ~closing
  <2> DEFINE new == [IdleFetch EXCEPT !.at = "ask", !.jid = j]
  <2>1. PICK f \in Fetchers : fetch[f].at = "idle" /\ fetch' = [fetch EXCEPT ![f] = new]
    BY <1>0, <1>2, FetcherIdle DEF Launch
  <2>2. lister' = [lister EXCEPT ![l] = IdleLister]
    BY <1>2 DEF Launch, Done
  <2>3. InFlight'
    BY <1>0, <2>1, <2>2, LaunchInFlight
  <2>4. ListerOK'
    BY <1>0, <2>2, IdleTyped, ListerMoves DEF IInv, Types, store
  <2>5. new \in FetchTypes /\ new.at = "ask" /\ new.jid = j /\ new.path = 0
    BY <1>0 DEF IdleFetch, FetchTypes
  <2>6. f \in Actors /\ f # "rpc"
    BY AvatarsAssumption DEF Actors
  <2>7. FetchOK'
    <3> HIDE DEF new
    <3> QED BY <1>0, <2>1, <2>5, <2>6, FetchMoves DEF IInv, Types, store, Written
  <2> QED
    BY <1>0, <2>3, <2>4, <2>7, ContactFrame, CacheFrame
    DEF IInv, Types, PictureOK, FileOK, RestOK, store, slots
<1> QED BY <1>1, <1>2

\* A refused fetch gives its slot back,
LEMMA RefusedFreesStep ==
  ASSUME IInv, NEW l \in Listers, RefusedFrees(l) PROVE IInv'
<1> DEFINE new == [lister[l] EXCEPT !.at = "unmark"]
<1>0. /\ lister[l] \in ListerTypes /\ lister[l].jid \in Jids /\ lister[l].path \in Written(lister[l].jid)
      /\ lister[l].at = "refused" /\ sem' = sem - 1
      /\ lister' = [lister EXCEPT ![l] = new]
      /\ UNCHANGED <<picture, store, busy, fetch, closing, budget>>
  BY DEF IInv, Types, ListerOK, RefusedFrees, StepTo
<1>1. new \in ListerTypes /\ new.at = "unmark" /\ new.jid = lister[l].jid /\ new.path = lister[l].path
  BY <1>0 DEF ListerTypes
<1> HIDE DEF new
<1>2. lister'[l] = new /\ \A k \in Listers \ {l} : lister'[k] = lister[k]
  BY <1>0 DEF IInv, Types, ListerOK
<1>3. SlotHolders' = SlotHolders \ {l} /\ l \in SlotHolders
  BY <1>0, <1>1, <1>2, AvatarsAssumption DEF SlotHolders
<1>4. Markers' = Markers
  <2>1. {<<k, lister[k].jid>> : k \in {h \in Listers : lister[h].at \in {"start", "refused", "unmark"}}}'
          = {<<k, lister[k].jid>> : k \in {h \in Listers : lister[h].at \in {"start", "refused", "unmark"}}}
    <3>1. \A k \in Listers :
            /\ lister'[k].at \in {"start", "refused", "unmark"}
                 <=> lister[k].at \in {"start", "refused", "unmark"}
            /\ lister'[k].jid = lister[k].jid
      BY <1>0, <1>1, <1>2
    <3> QED BY <3>1
  <2> QED BY <1>0, <2>1 DEF Markers
<1>5. InFlight'
  BY <1>0, <1>3, <1>4, SlotFreed
<1>6. ListerOK'
  BY <1>0, <1>1, ListerMoves DEF IInv, Types, store
<1>7. RestOK'
  BY <1>0, <1>3, SlotsInUse DEF IInv, Types, RestOK
<1> QED
  BY <1>0, <1>5, <1>6, <1>7, ContactFrame, CacheFrame, FetchFrameOK
  DEF IInv, Types, PictureOK, FileOK, store

\* then its mark.
LEMMA RefusedUnmarksStep ==
  ASSUME IInv, NEW l \in Listers, RefusedUnmarks(l) PROVE IInv'
<1> DEFINE j == lister[l].jid
<1>0. /\ lister[l].at = "unmark" /\ j \in Jids /\ l \notin Fetchers
      /\ lister' = [lister EXCEPT ![l] = IdleLister] /\ busy' = busy \ {j}
      /\ UNCHANGED <<picture, store, sem, fetch, closing, budget>>
  BY AvatarsAssumption DEF IInv, Types, ListerOK, RefusedUnmarks, Done
<1>1. lister'[l].at = "idle" /\ \A k \in Listers \ {l} : lister'[k] = lister[k]
  BY <1>0, IdleTyped DEF IInv, Types, ListerOK
<1>2. SlotHolders' = SlotHolders
  BY <1>0, <1>1 DEF SlotHolders
<1>3. Markers' = Markers \ {<<l, j>>} /\ <<l, j>> \in Markers
  <2>1. {k \in Listers : lister[k].at \in {"start", "refused", "unmark"}}'
          = {k \in Listers : lister[k].at \in {"start", "refused", "unmark"}} \ {l}
    BY <1>1
  <2>2. {<<k, lister[k].jid>> : k \in {h \in Listers : lister[h].at \in {"start", "refused", "unmark"}}}'
          = {<<k, lister[k].jid>> : k \in {h \in Listers : lister[h].at \in {"start", "refused", "unmark"}}}
              \ {<<l, j>>}
    BY <1>1, <2>1
  <2>3. <<l, j>> \notin {<<g, fetch[g].jid>> : g \in {h \in Fetchers : fetch[h].at # "idle"}}
    BY <1>0
  <2>4. <<l, j>> \in Markers
    BY <1>0 DEF Markers
  <2> QED BY <1>0, <2>2, <2>3, <2>4 DEF Markers
<1>4. InFlight'
  <2>1. <<l, j>>[2] = j
    OBVIOUS
  <2>2. busy' = busy \ {<<l, j>>[2]}
    BY <1>0, <2>1
  <2> QED BY <1>0, <1>2, <1>3, <2>2, MarkRemoved
<1>5. ListerOK'
  BY <1>0, IdleTyped, ListerMoves DEF IInv, Types, store
<1> QED
  BY <1>0, <1>4, <1>5, ContactFrame, CacheFrame, FetchFrameOK
  DEF IInv, Types, PictureOK, FileOK, RestOK, store

-----------------------------------------------------------------------------
(* The fetches                                                             *)

\* The files a path may name only become more.
Grows == \A j \in Jids : Written(j) \subseteq Written(j)'

LEMMA GrownFrame ==
  ASSUME ContactOK, CacheOK, ListerOK, Grows, UNCHANGED <<contact, cache, lister>>
  PROVE  ContactOK' /\ CacheOK' /\ ListerOK'
<1>1. ContactOK'
  BY DEF ContactOK, Grows
<1>2. CacheOK'
  BY DEF CacheOK, Grows
<1>3. ListerOK'
  BY DEF ListerOK, Grows
<1> QED BY <1>1, <1>2, <1>3

\* A fetch that writes moves on too.
LEMMA FetchWrites ==
  ASSUME FetchOK, Grows, NEW f \in Actors, NEW new \in FetchTypes,
         fetch' = [fetch EXCEPT ![f] = new],
         new.at # "idle" => new.jid \in Jids /\ new.path \in file'[new.jid].written \cup {0},
         new.at \notin {"reuse", "write", "free", "unmark"}
  PROVE  FetchOK'
<1>1. fetch' \in [Actors -> FetchTypes]
  BY DEF FetchOK
<1>2. fetch'[f] = new /\ \A g \in Actors \ {f} : fetch'[g] = fetch[g]
  BY DEF FetchOK
<1>3. ASSUME NEW g \in Actors
      PROVE  /\ fetch'[g].at # "idle" =>
                  fetch'[g].jid \in Jids /\ fetch'[g].path \in file'[fetch'[g].jid].written \cup {0}
             /\ fetch'[g].at \in {"reuse", "write"} => fetch'[g].picture # 0
  <2>1. CASE g = f
    BY <1>2, <2>1
  <2>2. CASE g # f
    BY <1>2, <2>2 DEF FetchOK, Grows, Written
  <2> QED BY <2>1, <2>2
<1>4. fetch'["rpc"].at \notin {"free", "unmark"}
  BY <1>2 DEF FetchOK, Actors
<1> QED BY <1>1, <1>3, <1>4 DEF FetchOK, Written

\* avatars.download holds no slot and no mark; a fetch that keeps its own leaves them as
\* they were.
LEMMA FetchHoldsAlike ==
  ASSUME IInv, NEW f \in Actors, NEW new, fetch' = [fetch EXCEPT ![f] = new],
         UNCHANGED <<lister, slots>>,
         \/ f = "rpc"
         \/ {fetch[f].at, new.at} \cap {"idle", "unmark"} = {} /\ new.jid = fetch[f].jid
  PROVE  InFlight'
<1>1. fetch'[f] = new /\ \A g \in Actors \ {f} : fetch'[g] = fetch[g]
  BY DEF IInv, Types, FetchOK
<1>2. \A g \in Fetchers : g \in Actors /\ g # "rpc"
  BY AvatarsAssumption DEF Actors
<1>3. \A g \in Fetchers :
        \/ UNCHANGED fetch[g]
        \/ /\ {fetch[g].at, fetch'[g].at} \cap {"idle", "unmark"} = {}
           /\ fetch'[g].jid = fetch[g].jid
  BY <1>1, <1>2
<1>4. \A l \in Listers : UNCHANGED lister[l]
  OBVIOUS
<1> QED BY <1>3, <1>4, InFlightFrame DEF IInv

\* What follows a failure.
LEMMA FailedFetch ==
  ASSUME IInv, NEW f \in Actors, fetch[f].at \notin {"idle", "free", "unmark"}, Failed(f), Grows,
         UNCHANGED <<lister, slots>>
  PROVE  FetchOK' /\ InFlight'
<1>0. fetch[f] \in FetchTypes /\ fetch[f].jid \in Jids
  BY DEF IInv, Types, FetchOK
<1>1. CASE f = "rpc"
  <2>1. fetch' = [fetch EXCEPT ![f] = IdleFetch]
    BY <1>1 DEF Failed
  <2> QED BY <1>1, <2>1, IdleTyped, FetchWrites, FetchHoldsAlike DEF IInv, Types
<1>2. CASE f # "rpc"
  <2> DEFINE new == [fetch[f] EXCEPT !.at = "remember", !.path = 0]
  <2>1. fetch' = [fetch EXCEPT ![f] = new]
    BY <1>2 DEF Failed
  <2>2. new \in FetchTypes /\ new.at = "remember" /\ new.jid = fetch[f].jid /\ new.path = 0
    BY <1>0 DEF FetchTypes
  <2> HIDE DEF new
  <2>3. new.path \in file'[new.jid].written \cup {0}
    BY <2>2
  <2> QED BY <1>0, <1>2, <2>1, <2>2, <2>3, FetchWrites, FetchHoldsAlike DEF IInv, Types
<1> QED BY <1>1, <1>2

\* Faults and events leave a budget.
LEMMA BudgetSpent ==
  ASSUME RestOK, Fault \/ Event, UNCHANGED <<slots, closing>> PROVE RestOK'
  BY DEF RestOK, Fault, Event, slots

LEMMA CallStep ==
  ASSUME IInv, NEW j \in Jids, Call(j) PROVE IInv'
<1> DEFINE new == [IdleFetch EXCEPT !.at = "ask", !.jid = j]
<1>1. new \in FetchTypes /\ new.at = "ask" /\ new.jid = j /\ new.path = 0
  BY DEF IdleFetch, FetchTypes
<1>2. /\ fetch' = [fetch EXCEPT !["rpc"] = new] /\ "rpc" \in Actors /\ Event
      /\ UNCHANGED store /\ UNCHANGED <<picture, slots, lister, closing>>
  BY DEF Call, FetchFrame, Actors
<1> HIDE DEF new
<1>3. FetchOK' /\ InFlight'
  BY <1>1, <1>2, FetchMoves, FetchHoldsAlike DEF IInv, Types, Written, store
<1> QED
  BY <1>2, <1>3, ContactFrame, CacheFrame, ListerFrame, BudgetSpent
  DEF IInv, Types, PictureOK, FileOK, store

\* A picture there is has a number.
LEMMA AskStep ==
  ASSUME IInv, NEW f \in Actors, Ask(f) PROVE IInv'
<1> DEFINE j == fetch[f].jid
           now == picture[j]
<1>0. /\ fetch[f] \in FetchTypes /\ j \in Jids /\ fetch[f].path \in Written(j) /\ fetch[f].at = "ask"
      /\ UNCHANGED store /\ UNCHANGED <<picture, slots, lister, closing>>
  BY DEF IInv, Types, FetchOK, Ask, FetchFrame
<1>1. RestOK'
  <2>1. UNCHANGED budget \/ Fault
    BY DEF Ask, Fails
  <2> QED BY <1>0, <2>1, BudgetSpent DEF IInv, Types, RestOK, slots
<1>2. FetchOK' /\ InFlight'
  <2>1. CASE Failed(f)
    BY <1>0, <2>1, FailedFetch DEF Grows, Written, store
  <2>2. CASE /\ now.set
             /\ fetch' = [fetch EXCEPT ![f].at = "reuse", ![f].picture = now.number,
                                       ![f].id = IF j \in Unnamed THEN 0 ELSE now.number]
    <3> DEFINE id == IF j \in Unnamed THEN 0 ELSE now.number
               new == [fetch[f] EXCEPT !.at = "reuse", !.picture = now.number, !.id = id]
    <3>1. now.number \in Nat \ {0} /\ id \in Nat
      BY <1>0, <2>2 DEF IInv, Types, PictureOK
    <3>2. fetch' = [fetch EXCEPT ![f] = new]
      BY <1>0, <2>2 DEF IInv, Types, FetchOK, FetchTypes
    <3> HIDE DEF id, now
    <3>3. /\ new \in FetchTypes /\ new.at = "reuse" /\ new.jid = j /\ new.path = fetch[f].path
          /\ new.picture # 0
      BY <1>0, <3>1 DEF FetchTypes
    <3> HIDE DEF new
    <3> QED BY <1>0, <3>2, <3>3, FetchMoves, FetchHoldsAlike DEF IInv, Types, store
  <2> QED BY <2>1, <2>2 DEF Ask, Fails
<1> QED
  BY <1>0, <1>1, <1>2, ContactFrame, CacheFrame, ListerFrame
  DEF IInv, Types, PictureOK, FileOK, store

LEMMA ReuseStep ==
  ASSUME IInv, NEW f \in Actors, Reuse(f) PROVE IInv'
<1> DEFINE j == fetch[f].jid
<1>0. /\ fetch[f] \in FetchTypes /\ j \in Jids /\ fetch[f].path \in Written(j) /\ fetch[f].at = "reuse"
      /\ fetch[f].picture # 0 /\ contact[j].path \in Written(j) /\ contact[j].path \in Nat
      /\ UNCHANGED store /\ UNCHANGED <<picture, slots, lister, closing>>
  BY DEF IInv, Types, FetchOK, ContactOK, Reuse, FetchFrame
<1>1. RestOK'
  <2>1. UNCHANGED budget \/ Fault
    BY DEF Reuse
  <2> QED BY <1>0, <2>1, BudgetSpent DEF IInv, Types, RestOK, slots
<1>2. PICK new \in {[fetch[f] EXCEPT !.at = "remember", !.path = contact[j].path],
                    [fetch[f] EXCEPT !.at = "write"]} :
        fetch' = [fetch EXCEPT ![f] = new]
  BY DEF Reuse
<1>3. /\ new \in FetchTypes /\ new.at \in {"remember", "write"} /\ new.jid = j
      /\ new.path \in Written(j) /\ new.picture # 0
  BY <1>0, <1>2 DEF FetchTypes
<1>4. FetchOK' /\ InFlight'
  BY <1>0, <1>2, <1>3, FetchMoves, FetchHoldsAlike DEF IInv, Types, store
<1> QED
  BY <1>0, <1>1, <1>4, ContactFrame, CacheFrame, ListerFrame
  DEF IInv, Types, PictureOK, FileOK, store

\* A file written is one more that a path may name.
LEMMA WriteFileStep ==
  ASSUME IInv, NEW f \in Actors, WriteFile(f) PROVE IInv'
<1> DEFINE j == fetch[f].jid
           n == fetch[f].picture
           one == [written |-> file[j].written \cup {n}, there |-> file[j].there \cup {n}]
           put == [file EXCEPT ![j] = one]
<1>0. /\ fetch[f] \in FetchTypes /\ j \in Jids /\ fetch[f].path \in Written(j) /\ fetch[f].at = "write"
      /\ n \in Nat \ {0}
      /\ UNCHANGED <<contact, cache>> /\ UNCHANGED <<picture, slots, lister, closing>>
  BY DEF IInv, Types, FetchOK, WriteFile, FetchFrame, FetchTypes
<1>1. file' \in {file, put} /\ (UNCHANGED budget \/ Fault)
  BY DEF WriteFile, Fails
<1>2. FileOK'
  <2>1. CASE file' = put
    <3>1. one \in [written : SUBSET Nat, there : SUBSET Nat]
      BY <1>0 DEF IInv, Types, FileOK
    <3>2. file' \in [Jids -> [written : SUBSET Nat, there : SUBSET Nat]]
      BY <2>1, <3>1 DEF IInv, Types, FileOK
    <3>3. file'[j] = one /\ \A k \in Jids \ {j} : file'[k] = file[k]
      BY <1>0, <2>1 DEF IInv, Types, FileOK
    <3> QED BY <1>0, <3>2, <3>3 DEF IInv, Types, FileOK
  <2> QED BY <1>1, <2>1 DEF IInv, Types, FileOK
<1>3. Grows
  <2>1. CASE file' = put
    BY <1>0, <2>1 DEF Grows, Written, IInv, Types, FileOK
  <2> QED BY <1>1, <2>1 DEF Grows, Written
<1>4. FetchOK' /\ InFlight'
  <2>1. CASE Failed(f)
    BY <1>0, <1>3, <2>1, FailedFetch
  <2>2. CASE file' = put /\ fetch' = [fetch EXCEPT ![f].at = "row", ![f].path = n]
    <3> DEFINE new == [fetch[f] EXCEPT !.at = "row", !.path = n]
    <3>1. fetch' = [fetch EXCEPT ![f] = new]
      BY <1>0, <2>2 DEF IInv, Types, FetchOK, FetchTypes
    <3>2. new \in FetchTypes /\ new.at = "row" /\ new.jid = j /\ new.path = n
      BY <1>0 DEF FetchTypes
    <3>3. n \in file'[j].written
      BY <1>0, <2>2 DEF IInv, Types, FileOK
    <3> HIDE DEF new
    <3>4. new.path \in file'[new.jid].written \cup {0}
      BY <3>2, <3>3
    <3> QED BY <1>0, <1>3, <3>1, <3>2, <3>4, FetchWrites, FetchHoldsAlike DEF IInv, Types
  <2> QED BY <2>1, <2>2 DEF WriteFile, Fails
<1>5. RestOK'
  BY <1>0, <1>1, BudgetSpent DEF IInv, Types, RestOK, slots
<1> QED
  BY <1>0, <1>2, <1>3, <1>4, <1>5, GrownFrame DEF IInv, Types, PictureOK

LEMMA StoreRowStep ==
  ASSUME IInv, NEW f \in Actors, StoreRow(f) PROVE IInv'
<1> DEFINE j == fetch[f].jid
           new == [fetch[f] EXCEPT !.at = "remember"]
<1>0. /\ fetch[f] \in FetchTypes /\ j \in Jids /\ fetch[f].path \in Written(j) /\ fetch[f].at = "row"
      /\ fetch' = [fetch EXCEPT ![f] = new]
      /\ UNCHANGED <<file, cache>> /\ UNCHANGED <<picture, slots, lister, closing>>
      /\ UNCHANGED budget \/ Fault
  BY DEF IInv, Types, FetchOK, StoreRow, FetchFrame
<1>1. new \in FetchTypes /\ new.at = "remember" /\ new.jid = j /\ new.path = fetch[f].path
  BY <1>0 DEF FetchTypes
<1> HIDE DEF new
<1>2. FetchOK' /\ InFlight'
  BY <1>0, <1>1, FetchMoves, FetchHoldsAlike DEF IInv, Types
<1>3. ContactOK'
  <2>1. CASE UNCHANGED contact
    BY <1>0, <2>1, ContactFrame DEF IInv, Types
  <2>2. CASE contact' = [contact EXCEPT ![j] =
                [path |-> fetch[f].path, id |-> IF fetch[f].id # 0 THEN fetch[f].id ELSE @.id]]
    <3> DEFINE row == [path |-> fetch[f].path, id |-> IF fetch[f].id # 0 THEN fetch[f].id ELSE contact[j].id]
    <3>1. row \in [path : Nat, id : Nat] /\ row.path \in Written(j)
      BY <1>0 DEF IInv, Types, ContactOK, FetchTypes
    <3>2. contact' = [contact EXCEPT ![j] = row]
      BY <2>2
    <3> HIDE DEF row
    <3> QED BY <1>0, <3>1, <3>2 DEF IInv, Types, ContactOK, Written
  <2> QED BY <2>1, <2>2 DEF StoreRow
<1>4. RestOK'
  BY <1>0, BudgetSpent DEF IInv, Types, RestOK, slots
<1> QED
  BY <1>0, <1>2, <1>3, <1>4, CacheFrame, ListerFrame DEF IInv, Types, PictureOK, FileOK

LEMMA FinishStep ==
  ASSUME IInv, NEW f \in Actors, Finish(f) PROVE IInv'
<1> DEFINE j == fetch[f].jid
           new == IF f = "rpc" THEN IdleFetch ELSE [IdleFetch EXCEPT !.at = "free", !.jid = j]
<1>0. /\ j \in Jids /\ fetch[f].path \in Written(j) /\ fetch[f].at = "remember"
      /\ fetch' = [fetch EXCEPT ![f] = new]
      /\ UNCHANGED <<file, contact, budget>> /\ UNCHANGED <<picture, slots, lister, closing>>
  BY DEF IInv, Types, FetchOK, Finish, FetchFrame
<1>1. /\ new \in FetchTypes /\ new.path = 0
      /\ f = "rpc" => new.at = "idle"
      /\ f # "rpc" => new.at = "free" /\ new.jid = j
  BY <1>0, IdleTyped DEF FetchTypes, IdleFetch
<1>2. new.at \notin {"reuse", "write"} /\ (new.at # "idle" => new.jid \in Jids)
  BY <1>0, <1>1
<1> HIDE DEF new
<1>3. FetchOK' /\ InFlight'
  BY <1>0, <1>1, <1>2, FetchMoves, FetchHoldsAlike DEF IInv, Types, Written
<1>4. CacheOK'
  BY <1>0, RememberKeeps DEF IInv, Types, Finish
<1> QED
  BY <1>0, <1>3, <1>4, ContactFrame, ListerFrame
  DEF IInv, Types, PictureOK, FileOK, RestOK, slots

\* A fetch gives its slot back,
LEMMA FreeStep ==
  ASSUME IInv, NEW f \in Actors, Free(f) PROVE IInv'
<1> DEFINE new == [fetch[f] EXCEPT !.at = "unmark"]
<1>0. /\ fetch[f] \in FetchTypes /\ fetch[f].jid \in Jids /\ fetch[f].path \in Written(fetch[f].jid)
      /\ fetch[f].at = "free" /\ sem' = sem - 1 /\ f # "rpc" /\ f \in Fetchers
      /\ fetch' = [fetch EXCEPT ![f] = new]
      /\ UNCHANGED <<picture, store, busy, lister, closing, budget>>
  BY DEF IInv, Types, FetchOK, Free, Actors
<1>1. new \in FetchTypes /\ new.at = "unmark" /\ new.jid = fetch[f].jid /\ new.path = fetch[f].path
  BY <1>0 DEF FetchTypes
<1> HIDE DEF new
<1>2. fetch'[f] = new /\ \A g \in Fetchers \ {f} : fetch'[g] = fetch[g]
  BY <1>0 DEF IInv, Types, FetchOK, Actors
<1>3. SlotHolders' = SlotHolders \ {f} /\ f \in SlotHolders
  BY <1>0, <1>1, <1>2, AvatarsAssumption DEF SlotHolders
<1>4. Markers' = Markers
  <2>1. \A g \in Fetchers :
          (fetch'[g].at # "idle" <=> fetch[g].at # "idle") /\ fetch'[g].jid = fetch[g].jid
    BY <1>0, <1>1, <1>2
  <2>2. {<<g, fetch[g].jid>> : g \in {h \in Fetchers : fetch[h].at # "idle"}}'
          = {<<g, fetch[g].jid>> : g \in {h \in Fetchers : fetch[h].at # "idle"}}
    BY <2>1
  <2> QED BY <1>0, <2>2 DEF Markers
<1>5. InFlight'
  BY <1>0, <1>3, <1>4, SlotFreed
<1>6. FetchOK'
  BY <1>0, <1>1, FetchMoves DEF IInv, Types, store
<1>7. RestOK'
  BY <1>0, <1>3, SlotsInUse DEF IInv, Types, RestOK
<1> QED
  BY <1>0, <1>5, <1>6, <1>7, ContactFrame, CacheFrame, ListerFrame
  DEF IInv, Types, PictureOK, FileOK, store

\* then its mark.
LEMMA UnmarkStep ==
  ASSUME IInv, NEW f \in Actors, Unmark(f) PROVE IInv'
<1> DEFINE j == fetch[f].jid
<1>0. /\ fetch[f].at = "unmark" /\ j \in Jids /\ f \in Fetchers /\ f \notin Listers /\ f # "rpc"
      /\ fetch' = [fetch EXCEPT ![f] = IdleFetch] /\ busy' = busy \ {j}
      /\ UNCHANGED <<picture, store, sem, lister, closing, budget>>
  BY AvatarsAssumption DEF IInv, Types, FetchOK, Unmark, Actors
<1>1. fetch'[f].at = "idle" /\ \A g \in Fetchers \ {f} : fetch'[g] = fetch[g]
  BY <1>0, IdleTyped DEF IInv, Types, FetchOK, Actors
<1>2. SlotHolders' = SlotHolders
  BY <1>0, <1>1 DEF SlotHolders
<1>3. Markers' = Markers \ {<<f, j>>} /\ <<f, j>> \in Markers
  <2>1. {g \in Fetchers : fetch[g].at # "idle"}' = {g \in Fetchers : fetch[g].at # "idle"} \ {f}
    BY <1>1
  <2>2. {<<g, fetch[g].jid>> : g \in {h \in Fetchers : fetch[h].at # "idle"}}'
          = {<<g, fetch[g].jid>> : g \in {h \in Fetchers : fetch[h].at # "idle"}} \ {<<f, j>>}
    BY <1>1, <2>1
  <2>3. <<f, j>> \notin
          {<<k, lister[k].jid>> : k \in {h \in Listers : lister[h].at \in {"start", "refused", "unmark"}}}
    BY <1>0
  <2>4. <<f, j>> \in Markers
    BY <1>0 DEF Markers
  <2> QED BY <1>0, <2>2, <2>3, <2>4 DEF Markers
<1>4. InFlight'
  <2>1. <<f, j>>[2] = j
    OBVIOUS
  <2>2. busy' = busy \ {<<f, j>>[2]}
    BY <1>0, <2>1
  <2> QED BY <1>0, <1>2, <1>3, <2>2, MarkRemoved
<1>5. FetchOK'
  BY <1>0, IdleTyped, FetchMoves DEF IInv, Types, store, Actors
<1> QED
  BY <1>0, <1>4, <1>5, ContactFrame, CacheFrame, ListerFrame
  DEF IInv, Types, PictureOK, FileOK, RestOK, store

-----------------------------------------------------------------------------
(* The network, the file system, shutdown, crashes                         *)

LEMMA SlotsKept ==
  ASSUME IInv, UNCHANGED <<slots, actors>> PROVE InFlight'
  BY InFlightFrame DEF actors, IInv

LEMMA ExpireStep ==
  ASSUME IInv, NEW j \in Jids, Expire(j) PROVE IInv'
<1>0. /\ j \in DOMAIN cache /\ cache' = [cache EXCEPT ![j] = [cache[j] EXCEPT !.valid = FALSE]]
      /\ UNCHANGED <<picture, file, contact, slots, actors, closing, budget>>
  BY DEF Expire, Cached
<1>1. CacheOK'
  <2> DEFINE old == [cache[j] EXCEPT !.valid = FALSE]
  <2>1. old \in [path : Nat, valid : BOOLEAN] /\ old.path = cache[j].path
    BY <1>0 DEF IInv, Types, CacheOK
  <2>2. cache' = [cache EXCEPT ![j] = old]
    BY <1>0
  <2> HIDE DEF old
  <2>3. DOMAIN cache' = DOMAIN cache /\ cache' \in [DOMAIN cache -> [path : Nat, valid : BOOLEAN]]
    BY <2>1, <2>2 DEF IInv, Types, CacheOK
  <2>4. \A k \in DOMAIN cache : cache'[k].path = cache[k].path
    BY <2>1, <2>2 DEF IInv, Types, CacheOK
  <2> QED BY <1>0, <2>3, <2>4 DEF IInv, Types, CacheOK, Written
<1> QED
  BY <1>0, <1>1, ContactFrame, ListerFrame, FetchFrameOK, SlotsKept
  DEF IInv, Types, PictureOK, FileOK, RestOK, actors, slots

LEMMA ChangePictureStep ==
  ASSUME IInv, NEW j \in Jids, ChangePicture(j) PROVE IInv'
<1>0. Event /\ UNCHANGED <<store, slots, actors, closing>>
  BY DEF ChangePicture
<1>1. PICK new \in {[picture[j] EXCEPT !.set = FALSE], [number |-> picture[j].number + 1, set |-> TRUE]} :
        picture' = [picture EXCEPT ![j] = new]
  BY DEF ChangePicture
<1>2. new \in [number : Nat, set : BOOLEAN] /\ (new.set => new.number # 0)
  <2>1. picture[j] \in [number : Nat, set : BOOLEAN]
    BY DEF IInv, Types, PictureOK
  <2>2. CASE new = [picture[j] EXCEPT !.set = FALSE]
    BY <2>1, <2>2
  <2>3. CASE new = [number |-> picture[j].number + 1, set |-> TRUE]
    BY <2>1, <2>3
  <2> QED BY <1>1, <2>2, <2>3
<1>3. PictureOK'
  BY <1>1, <1>2 DEF IInv, Types, PictureOK
<1> QED
  BY <1>0, <1>3, ContactFrame, CacheFrame, ListerFrame, FetchFrameOK, SlotsKept, BudgetSpent
  DEF IInv, Types, FileOK, store, actors

LEMMA DeleteFilesStep ==
  ASSUME IInv, DeleteFiles PROVE IInv'
<1>0. /\ Fault /\ UNCHANGED <<picture, contact, cache, slots, actors, closing>>
      /\ file' = [j \in Jids |-> [file[j] EXCEPT !.there = {}]]
  BY DEF DeleteFiles
<1>1. \A j \in Jids : file'[j].written = file[j].written /\ file'[j].there = {}
  BY <1>0 DEF IInv, Types, FileOK
<1>2. FileOK'
  BY <1>0, <1>1 DEF IInv, Types, FileOK
<1>3. FetchOK'
  BY <1>0, <1>1 DEF IInv, Types, FetchOK, Written, actors
<1>4. ContactOK' /\ CacheOK' /\ ListerOK'
  BY <1>0, <1>1, GrownFrame DEF IInv, Types, Grows, Written, actors
<1> QED
  BY <1>0, <1>2, <1>3, <1>4, SlotsKept, BudgetSpent DEF IInv, Types, PictureOK

LEMMA CloseStep ==
  ASSUME IInv, Close PROVE IInv'
<1>1. RestOK'
  BY DEF IInv, Types, RestOK, Close, Event, slots
<1> QED
  BY <1>1, ContactFrame, CacheFrame, ListerFrame, FetchFrameOK, SlotsKept
  DEF IInv, Types, PictureOK, FileOK, Close, store, actors

\* After a start nothing is cached, taken or marked.
Fresh ==
  /\ cache = [j \in {} |-> 0] /\ busy = {} /\ sem = 0
  /\ lister = [l \in Listers |-> IdleLister] /\ fetch = [f \in Actors |-> IdleFetch]

LEMMA FreshFits == Fresh => CacheOK /\ ListerOK /\ FetchOK /\ InFlight
<1> SUFFICES ASSUME Fresh PROVE CacheOK /\ ListerOK /\ FetchOK /\ InFlight
  OBVIOUS
<1>1. CacheOK
  <2>1. DOMAIN cache = {}
    BY DEF Fresh
  <2>2. Cardinality(DOMAIN cache) = 0
    BY <2>1, FS_EmptySet
  <2>3. cache \in [DOMAIN cache -> [path : Nat, valid : BOOLEAN]]
    BY DEF Fresh
  <2> QED BY <2>1, <2>2, <2>3, AvatarsAssumption DEF CacheOK
<1>2. ListerOK
  BY IdleTyped DEF Fresh, ListerOK
<1>3. FetchOK
  BY IdleTyped DEF Fresh, FetchOK, Actors
<1>4. InFlight
  <2>1. (\A f \in Fetchers : fetch[f].at = "idle") /\ \A l \in Listers : lister[l].at = "idle"
    BY IdleTyped DEF Fresh, Actors
  <2>2. SlotHolders = {} /\ Markers = {}
    BY <2>1 DEF SlotHolders, Markers
  <2> QED BY <2>2, FS_EmptySet, AvatarsAssumption DEF Fresh, InFlight
<1> QED BY <1>1, <1>2, <1>3, <1>4

LEMMA RestartStep ==
  ASSUME IInv, Restart PROVE IInv'
<1>0. Fresh' /\ UNCHANGED <<picture, file, contact>>
  BY DEF Restart, Fresh, Actors
<1>1. CacheOK' /\ ListerOK' /\ FetchOK' /\ InFlight'
  BY <1>0, FreshFits, PTL
<1>2. RestOK'
  <2>1. busy' = {} /\ sem' = 0 /\ closing' = FALSE /\ (UNCHANGED budget \/ Fault)
    BY DEF Restart
  <2>2. budget' \in [events : Nat, faults : Nat]
    BY <2>1 DEF IInv, Types, RestOK, Fault
  <2> QED BY <2>1, <2>2 DEF RestOK
<1> QED
  BY <1>0, <1>1, <1>2, ContactFrame DEF IInv, Types, PictureOK, FileOK

-----------------------------------------------------------------------------
(* All steps                                                               *)

LEMMA InitEstablishes == Init => IInv
<1> SUFFICES ASSUME Init PROVE IInv
  OBVIOUS
<1>1. CacheOK /\ ListerOK /\ FetchOK /\ InFlight
  BY FreshFits DEF Init, Fresh
<1>2. PictureOK
  BY DEF Init, PictureOK
<1>3. FileOK /\ ContactOK /\ RestOK
  BY AvatarsAssumption DEF Init, FileOK, ContactOK, RestOK, Written
<1> QED BY <1>1, <1>2, <1>3 DEF IInv, Types

LEMMA StepPreserves == IInv /\ [Next]_vars => IInv'
<1> SUFFICES ASSUME IInv, [Next]_vars PROVE IInv'
  OBVIOUS
<1>1. CASE \E l \in Listers : ListerStep(l)
  BY <1>1, LookupStep, LookupRowStep, RememberRowStep, ClaimStep, LaunchStep, RefusedFreesStep,
     RefusedUnmarksStep
  DEF ListerStep
<1>2. CASE \E l \in Listers, j \in Jids : Begin(l, j)
  BY <1>2, BeginStep
<1>3. CASE \E f \in Actors : FetchStep(f)
  BY <1>3, AskStep, ReuseStep, WriteFileStep, StoreRowStep, FinishStep, FreeStep, UnmarkStep
  DEF FetchStep
<1>4. CASE \E j \in Jids : Call(j) \/ Expire(j) \/ ChangePicture(j)
  BY <1>4, CallStep, ExpireStep, ChangePictureStep
<1>5. CASE DeleteFiles \/ Close \/ Restart
  BY <1>5, DeleteFilesStep, CloseStep, RestartStep
<1>6. CASE UNCHANGED vars
  BY <1>6, ContactFrame, CacheFrame, ListerFrame, FetchFrameOK, SlotsKept
  DEF IInv, Types, PictureOK, FileOK, RestOK, vars, store, slots, actors
<1> QED BY <1>1, <1>2, <1>3, <1>4, <1>5, <1>6 DEF Next

LEMMA Inductive == Spec => []IInv
<1> QED BY InitEstablishes, StepPreserves, PTL DEF Spec

\* The cache stays within its bound, and no row, entry, lister or fetch ever names a picture
\* whose file has not been written, whatever fails and wherever the process stops.
THEOREM TypeCorrect == Spec => []TypeOK
<1>1. IInv => TypeOK
  BY DEF IInv, Types, PictureOK, FileOK, ContactOK, CacheOK, ListerOK, ListerTypes, FetchOK, FetchTypes,
         RestOK, Written, TypeOK
<1> QED BY <1>1, Inductive, PTL

\* The places taken in sem are those of the fetches there are, never more than the limit, and
\* a peer is marked busy while exactly one fetch is about it: schedule, its goroutine and the
\* refusal of goTracked neither leak a slot nor give one back twice.
THEOREM SlotsCorrect == Spec => []InFlight
<1>1. IInv => InFlight
  BY DEF IInv
<1> QED BY <1>1, Inductive, PTL

-----------------------------------------------------------------------------
(* The abstract pool                                                       *)

\* Who is fetched, by whom.
LEMMA FetchedIs ==
  \A j : j \in Fetched <=>
    \/ \E f \in Fetchers : fetch[f].at \notin {"idle", "unmark"} /\ fetch[f].jid = j
    \/ \E l \in Listers : lister[l].at \in {"start", "refused"} /\ lister[l].jid = j
BY AvatarsAssumption DEF Fetched, SlotHolders

LEMMA FetchedBecomes ==
  \A j : j \in Fetched' <=>
    \/ \E f \in Fetchers : fetch'[f].at \notin {"idle", "unmark"} /\ fetch'[f].jid = j
    \/ \E l \in Listers : lister'[l].at \in {"start", "refused"} /\ lister'[l].jid = j
BY AvatarsAssumption DEF Fetched, SlotHolders

\* A step that keeps every fetch with its slot keeps the peers that are fetched.
LEMMA PoolFrame ==
  ASSUME UNCHANGED busy,
         \A f \in Fetchers :
           /\ fetch[f].at \notin {"idle", "unmark"} <=> fetch'[f].at \notin {"idle", "unmark"}
           /\ fetch[f].at \notin {"idle", "unmark"} => fetch'[f].jid = fetch[f].jid,
         \A l \in Listers :
           /\ lister[l].at \in {"start", "refused"} <=> lister'[l].at \in {"start", "refused"}
           /\ lister[l].at \in {"start", "refused"} => lister'[l].jid = lister[l].jid
  PROVE  UNCHANGED Pool!vars
<1>1. \A j : j \in Fetched' <=> j \in Fetched
  BY FetchedIs, FetchedBecomes
<1>2. Fetched' = Fetched
  BY <1>1
<1> QED BY <1>2 DEF Pool!vars

\* No more peers are fetched than slots are held.
LEMMA FetchedBounded ==
  ASSUME IInv PROVE Cardinality(Fetched) <= sem /\ Cardinality(Fetched) \in Nat
<1> DEFINE peer == [x \in SlotHolders |-> IF x \in Fetchers THEN fetch[x].jid ELSE lister[x].jid]
<1>1. \A x \in SlotHolders : x \in Fetchers \/ (x \in Listers /\ x \notin Fetchers)
  BY AvatarsAssumption DEF SlotHolders
<1>2. \A x \in SlotHolders : peer[x] \in Fetched
  BY <1>1 DEF Fetched
<1>3. \A j \in Fetched : \E x \in SlotHolders : peer[x] = j
  BY <1>1, AvatarsAssumption DEF Fetched
<1>4. peer \in Surjection(SlotHolders, Fetched)
  <2>1. peer \in [SlotHolders -> Fetched]
    BY <1>2
  <2> HIDE DEF peer
  <2> QED BY <1>3, <2>1 DEF Surjection
<1>5. IsFiniteSet(Fetched) /\ Cardinality(Fetched) <= Cardinality(SlotHolders)
  <2> HIDE DEF peer
  <2> QED BY <1>4, HoldersFinite, FS_Surjection
<1> QED BY <1>5, FS_CardinalityType DEF IInv, InFlight

\* Two slots, or a slot and a mark, are never about one peer.
LEMMA OneSlotPerPeer ==
  ASSUME IInv
  PROVE  /\ \A f, g \in Fetchers : fetch[f].at # "idle" /\ fetch[g].at # "idle" /\ fetch[f].jid = fetch[g].jid => f = g
         /\ \A k, l \in Listers :
              /\ lister[k].at \in {"start", "refused", "unmark"} /\ lister[l].at \in {"start", "refused", "unmark"}
              /\ lister[k].jid = lister[l].jid
              => k = l
         /\ \A f \in Fetchers, l \in Listers :
              fetch[f].at # "idle" /\ lister[l].at \in {"start", "refused", "unmark"} => fetch[f].jid # lister[l].jid
<1>1. \A f \in Fetchers : fetch[f].at # "idle" => <<f, fetch[f].jid>> \in Markers
  BY DEF Markers
<1>2. \A l \in Listers : lister[l].at \in {"start", "refused", "unmark"} => <<l, lister[l].jid>> \in Markers
  BY DEF Markers
<1>3. \A x, y, j : <<x, j>> \in Markers /\ <<y, j>> \in Markers => x = y
  <2> SUFFICES ASSUME NEW x, NEW y, NEW j, <<x, j>> \in Markers, <<y, j>> \in Markers PROVE x = y
    OBVIOUS
  <2>1. <<x, j>>[2] = <<y, j>>[2]
    OBVIOUS
  <2>2. <<x, j>> = <<y, j>>
    BY <2>1 DEF IInv, InFlight
  <2> QED BY <2>2
<1> QED BY <1>1, <1>2, <1>3, AvatarsAssumption

\* A slot is claimed with a mark.
LEMMA ClaimRefines ==
  ASSUME IInv, NEW l \in Listers, Claim(l) PROVE Pool!Next \/ UNCHANGED Pool!vars
<1> DEFINE j == lister[l].jid
<1>0. /\ lister[l] \in ListerTypes /\ j \in Jids /\ lister[l].at = "schedule" /\ UNCHANGED fetch
      /\ lister \in [Listers -> ListerTypes]
  BY DEF IInv, Types, ListerOK, Claim
<1>1. CASE j \in busy \/ sem >= MaxInflight
  <2>1. lister' = [lister EXCEPT ![l] = IdleLister] /\ UNCHANGED slots
    BY <1>1 DEF Claim, Done
  <2>2. lister'[l].at = "idle" /\ \A k \in Listers \ {l} : lister'[k] = lister[k]
    BY <1>0, <2>1, IdleTyped
  <2>3. UNCHANGED Pool!vars
    BY <1>0, <2>1, <2>2, PoolFrame DEF slots
  <2> QED BY <2>3
<1>2. CASE ~(j \in busy \/ sem >= MaxInflight)
  <2>1. lister' = [lister EXCEPT ![l].at = "start"] /\ busy' = busy \cup {j}
    BY <1>2 DEF Claim, StepTo
  <2>2. lister'[l].at = "start" /\ lister'[l].jid = j /\ \A k \in Listers \ {l} : lister'[k] = lister[k]
    BY <1>0, <2>1 DEF ListerTypes
  <2>3. \A x : x \in Fetched' <=>
          \/ \E f \in Fetchers : fetch'[f].at \notin {"idle", "unmark"} /\ fetch'[f].jid = x
          \/ \E k \in Listers : lister'[k].at \in {"start", "refused"} /\ lister'[k].jid = x
    BY FetchedBecomes
  <2>4. \A x : x \in Fetched' <=> x \in Fetched \/ x = j
    BY <1>0, <2>2, <2>3, FetchedIs
  <2>5. Cardinality(Fetched) < MaxInflight
    BY <1>2, FetchedBounded, AvatarsAssumption DEF IInv, Types, RestOK
  <2>6. Fetched' = Fetched \cup {j}
    BY <2>4
  <2>7. Pool!Cardinality(Fetched) = Cardinality(Fetched)
    BY DEF Pool!Cardinality, Cardinality
  <2>8. Pool!Admit(j)
    BY <1>2, <2>1, <2>5, <2>6, <2>7 DEF Pool!Admit
  <2> QED BY <1>0, <2>8 DEF Pool!Next
<1> QED BY <1>1, <1>2

\* A slot goes from the lister to its fetch, and the peer is fetched as before.
LEMMA LaunchRefines ==
  ASSUME IInv, NEW l \in Listers, Launch(l) PROVE UNCHANGED Pool!vars
<1> DEFINE j == lister[l].jid
<1>0. /\ lister[l] \in ListerTypes /\ lister[l].at = "start" /\ UNCHANGED slots
      /\ lister \in [Listers -> ListerTypes] /\ fetch \in [Actors -> FetchTypes]
  BY DEF IInv, Types, ListerOK, FetchOK, Launch
<1>1. CASE closing
  <2>1. lister' = [lister EXCEPT ![l].at = "refused"] /\ UNCHANGED fetch
    BY <1>1 DEF Launch, StepTo
  <2>2. lister'[l].at = "refused" /\ lister'[l].jid = j /\ \A k \in Listers \ {l} : lister'[k] = lister[k]
    BY <1>0, <2>1 DEF ListerTypes
  <2> QED BY <1>0, <2>1, <2>2, PoolFrame DEF slots
<1>2. CASE ~closing
  <2> DEFINE new == [IdleFetch EXCEPT !.at = "ask", !.jid = j]
  <2>1. PICK f \in Fetchers : fetch[f].at = "idle" /\ fetch' = [fetch EXCEPT ![f] = new]
    BY <1>0, <1>2, FetcherIdle DEF Launch
  <2>2. lister' = [lister EXCEPT ![l] = IdleLister]
    BY <1>2 DEF Launch, Done
  <2>3. lister'[l].at = "idle" /\ \A k \in Listers \ {l} : lister'[k] = lister[k]
    BY <1>0, <2>2, IdleTyped
  <2>4. fetch'[f].at = "ask" /\ fetch'[f].jid = j /\ \A g \in Fetchers \ {f} : fetch'[g] = fetch[g]
    BY <1>0, <2>1 DEF IdleFetch, Actors
  <2>5. \A x : x \in Fetched' <=>
          \/ \E g \in Fetchers : fetch'[g].at \notin {"idle", "unmark"} /\ fetch'[g].jid = x
          \/ \E k \in Listers : lister'[k].at \in {"start", "refused"} /\ lister'[k].jid = x
    BY FetchedBecomes
  <2>6. \A x : x \in Fetched' <=> x \in Fetched
    <3> SUFFICES ASSUME NEW x PROVE x \in Fetched' <=> x \in Fetched
      OBVIOUS
    <3>1. CASE x = j
      BY <1>0, <2>4, <2>5, <3>1, FetchedIs
    <3>2. CASE x # j
      <4>1. (\E g \in Fetchers : fetch'[g].at \notin {"idle", "unmark"} /\ fetch'[g].jid = x)
              <=> \E g \in Fetchers : fetch[g].at \notin {"idle", "unmark"} /\ fetch[g].jid = x
        BY <2>1, <2>4, <3>2
      <4>2. (\E k \in Listers : lister'[k].at \in {"start", "refused"} /\ lister'[k].jid = x)
              <=> \E k \in Listers : lister[k].at \in {"start", "refused"} /\ lister[k].jid = x
        BY <2>3, <3>2
      <4> QED BY <2>5, <4>1, <4>2, FetchedIs
    <3> QED BY <3>1, <3>2
  <2>7. Fetched' = Fetched
    BY <2>6
  <2> QED BY <1>0, <2>7 DEF Pool!vars, slots
<1> QED BY <1>1, <1>2

\* A slot is given back: its peer is fetched by nobody else.
LEMMA FreeRefines ==
  ASSUME IInv, (\E l \in Listers : RefusedFrees(l)) \/ (\E f \in Actors : Free(f)) PROVE Pool!Next
<1>0. lister \in [Listers -> ListerTypes] /\ fetch \in [Actors -> FetchTypes] /\ UNCHANGED busy
  BY DEF IInv, Types, ListerOK, FetchOK, RefusedFrees, Free
<1>1. \A x : x \in Fetched' <=>
        \/ \E g \in Fetchers : fetch'[g].at \notin {"idle", "unmark"} /\ fetch'[g].jid = x
        \/ \E k \in Listers : lister'[k].at \in {"start", "refused"} /\ lister'[k].jid = x
  BY FetchedBecomes
<1>2. ASSUME NEW l \in Listers, RefusedFrees(l) PROVE Pool!Next
  <2> DEFINE j == lister[l].jid
  <2>1. lister[l].at = "refused" /\ lister' = [lister EXCEPT ![l].at = "unmark"] /\ UNCHANGED fetch
    BY <1>2 DEF RefusedFrees, StepTo
  <2>2. lister'[l].at = "unmark" /\ \A k \in Listers \ {l} : lister'[k] = lister[k]
    BY <1>0, <2>1 DEF ListerTypes
  <2>3. \A x : x \in Fetched' <=> x \in Fetched /\ x # j
    BY <1>1, <2>1, <2>2, FetchedIs, OneSlotPerPeer
  <2>4. j \in Fetched /\ j \in Jids
    BY <2>1, FetchedIs DEF IInv, Types, ListerOK
  <2>5. Fetched' = Fetched \ {j}
    BY <2>3
  <2> QED BY <1>0, <2>4, <2>5 DEF Pool!Next, Pool!Release
<1>3. ASSUME NEW f \in Actors, Free(f) PROVE Pool!Next
  <2> DEFINE j == fetch[f].jid
  <2>1. fetch[f].at = "free" /\ fetch' = [fetch EXCEPT ![f].at = "unmark"] /\ UNCHANGED lister
    BY <1>3 DEF Free
  <2>2. f \in Fetchers
    BY <2>1 DEF IInv, Types, FetchOK, Actors
  <2>3. fetch'[f].at = "unmark" /\ \A g \in Fetchers \ {f} : fetch'[g] = fetch[g]
    BY <1>0, <2>1 DEF FetchTypes, Actors
  <2>4. \A x : x \in Fetched' <=> x \in Fetched /\ x # j
    BY <1>1, <2>1, <2>2, <2>3, FetchedIs, OneSlotPerPeer
  <2>5. j \in Fetched /\ j \in Jids
    BY <2>1, <2>2, FetchedIs DEF IInv, Types, FetchOK
  <2>6. Fetched' = Fetched \ {j}
    BY <2>4
  <2> QED BY <1>0, <2>5, <2>6 DEF Pool!Next, Pool!Release
<1> QED BY <1>2, <1>3

\* A mark goes when its slot is gone.
LEMMA UnmarkRefines ==
  ASSUME IInv, (\E l \in Listers : RefusedUnmarks(l)) \/ (\E f \in Actors : Unmark(f)) PROVE Pool!Next
<1>0. lister \in [Listers -> ListerTypes] /\ fetch \in [Actors -> FetchTypes]
  BY DEF IInv, Types, ListerOK, FetchOK
<1>1. \A x : x \in Fetched' <=>
        \/ \E g \in Fetchers : fetch'[g].at \notin {"idle", "unmark"} /\ fetch'[g].jid = x
        \/ \E k \in Listers : lister'[k].at \in {"start", "refused"} /\ lister'[k].jid = x
  BY FetchedBecomes
<1>2. ASSUME NEW l \in Listers, RefusedUnmarks(l) PROVE Pool!Next
  <2> DEFINE j == lister[l].jid
  <2>1. /\ lister[l].at = "unmark" /\ lister' = [lister EXCEPT ![l] = IdleLister] /\ UNCHANGED fetch
        /\ busy' = busy \ {j}
    BY <1>2 DEF RefusedUnmarks, Done
  <2>2. lister'[l].at = "idle" /\ \A k \in Listers \ {l} : lister'[k] = lister[k]
    BY <1>0, <2>1, IdleTyped
  <2>3. \A x : x \in Fetched' <=> x \in Fetched
    BY <1>1, <2>1, <2>2, FetchedIs
  <2>4. j \in Jids /\ j \in busy
    <3>1. <<l, j>> \in Markers /\ <<l, j>>[2] = j
      BY <2>1 DEF Markers
    <3> QED BY <3>1, MarkBelongs
  <2>5. j \notin Fetched
    BY <2>1, FetchedIs, OneSlotPerPeer
  <2>6. Fetched' = Fetched
    BY <2>3
  <2> QED BY <2>1, <2>4, <2>5, <2>6 DEF Pool!Next, Pool!Unmark
<1>3. ASSUME NEW f \in Actors, Unmark(f) PROVE Pool!Next
  <2> DEFINE j == fetch[f].jid
  <2>1. /\ fetch[f].at = "unmark" /\ fetch' = [fetch EXCEPT ![f] = IdleFetch] /\ UNCHANGED lister
        /\ busy' = busy \ {j}
    BY <1>3 DEF Unmark
  <2>2. f \in Fetchers
    BY <2>1 DEF IInv, Types, FetchOK, Actors
  <2>3. fetch'[f].at = "idle" /\ \A g \in Fetchers \ {f} : fetch'[g] = fetch[g]
    BY <1>0, <2>1, IdleTyped DEF Actors
  <2>4. \A x : x \in Fetched' <=> x \in Fetched
    BY <1>1, <2>1, <2>2, <2>3, FetchedIs
  <2>5. j \in Jids /\ j \in busy
    <3>1. <<f, j>> \in Markers /\ <<f, j>>[2] = j
      BY <2>1, <2>2 DEF Markers
    <3> QED BY <3>1, MarkBelongs
  <2>6. j \notin Fetched
    BY <2>1, <2>2, FetchedIs, OneSlotPerPeer
  <2>7. Fetched' = Fetched
    BY <2>4
  <2> QED BY <2>1, <2>5, <2>6, <2>7 DEF Pool!Next, Pool!Unmark
<1> QED BY <1>2, <1>3

\* The other steps of the listers hold nothing before and after.
LEMMA ListerRefines ==
  ASSUME IInv, NEW l \in Listers,
         Lookup(l) \/ LookupRow(l) \/ RememberRow(l) \/ (\E j \in Jids : Begin(l, j))
  PROVE  UNCHANGED Pool!vars
<1>0. lister[l].at \notin {"start", "refused"} /\ UNCHANGED <<fetch, slots>>
  BY DEF Lookup, LookupRow, RememberRow, Begin
<1>1. PICK new : lister' = [lister EXCEPT ![l] = new] /\ new.at \notin {"start", "refused"}
  <2>1. CASE Lookup(l)
    <3>1. lister[l] \in ListerTypes
      BY DEF IInv, Types, ListerOK
    <3>2. [lister[l] EXCEPT !.at = "row"].at = "row"
      BY <3>1 DEF ListerTypes
    <3> QED BY <2>1, <3>2, IdleTyped DEF Lookup, Done, StepTo
  <2>2. CASE LookupRow(l)
    <3>1. lister[l] \in ListerTypes /\ lister \in [Listers -> ListerTypes]
      BY DEF IInv, Types, ListerOK
    <3> DEFINE at == IF Stored(lister[l].jid) # 0 THEN "remember" ELSE "schedule"
               found == [lister[l] EXCEPT !.at = at, !.path = Stored(lister[l].jid)]
               failed == [lister[l] EXCEPT !.at = "schedule"]
    <3>2. lister' = [lister EXCEPT ![l] = found] \/ lister' = [lister EXCEPT ![l] = failed]
      BY <2>2, <3>1 DEF LookupRow, StepTo
    <3>3. found.at \in {"remember", "schedule"} /\ failed.at = "schedule"
      BY <3>1 DEF ListerTypes
    <3> HIDE DEF found, failed
    <3> QED BY <3>2, <3>3
  <2>3. CASE RememberRow(l)
    BY <2>3, IdleTyped DEF RememberRow, Done
  <2>4. CASE \E j \in Jids : Begin(l, j)
    <3>1. PICK j \in Jids : Begin(l, j)
      BY <2>4
    <3>2. [IdleLister EXCEPT !.at = "lookup", !.jid = j].at = "lookup"
      BY DEF IdleLister
    <3> QED BY <3>1, <3>2 DEF Begin
  <2> QED BY <2>1, <2>2, <2>3, <2>4
<1>2. lister'[l] = new /\ \A k \in Listers \ {l} : lister'[k] = lister[k]
  BY <1>1 DEF IInv, Types, ListerOK
<1> QED BY <1>0, <1>1, <1>2, PoolFrame DEF slots

\* Until its slot is given back a fetch keeps it, and avatars.download has none.
LEMMA FetchRefines ==
  ASSUME IInv, NEW f \in Actors, Ask(f) \/ Reuse(f) \/ WriteFile(f) \/ StoreRow(f) \/ Finish(f)
  PROVE  UNCHANGED Pool!vars
<1>0. /\ fetch[f] \in FetchTypes /\ fetch[f].at \notin {"idle", "unmark"} /\ UNCHANGED <<lister, slots>>
      /\ fetch \in [Actors -> FetchTypes]
  BY DEF IInv, Types, FetchOK, Ask, Reuse, WriteFile, StoreRow, Finish, FetchFrame
<1> DEFINE keeps(new) == f # "rpc" => new.at \notin {"idle", "unmark"} /\ new.jid = fetch[f].jid
<1>1. ASSUME Failed(f) PROVE \E new : fetch' = [fetch EXCEPT ![f] = new] /\ keeps(new)
  <2> DEFINE new == IF f = "rpc" THEN IdleFetch ELSE [fetch[f] EXCEPT !.at = "remember", !.path = 0]
  <2>1. fetch' = [fetch EXCEPT ![f] = new]
    BY <1>1 DEF Failed
  <2>2. keeps(new)
    BY <1>0 DEF FetchTypes
  <2> HIDE DEF new, keeps
  <2> QED BY <2>1, <2>2
<1>2. PICK new : fetch' = [fetch EXCEPT ![f] = new] /\ keeps(new)
  <2>1. CASE Ask(f)
    <3> DEFINE n == picture[fetch[f].jid].number
               id == IF fetch[f].jid \in Unnamed THEN 0 ELSE n
               found == [fetch[f] EXCEPT !.at = "reuse", !.picture = n, !.id = id]
    <3>1. Failed(f) \/ fetch' = [fetch EXCEPT ![f] = found]
      BY <1>0, <2>1 DEF Ask, Fails, FetchTypes
    <3>2. keeps(found)
      BY <1>0 DEF FetchTypes
    <3> HIDE DEF found, keeps
    <3> QED BY <1>1, <3>1, <3>2
  <2>2. CASE Reuse(f)
    <3> DEFINE again == [fetch[f] EXCEPT !.at = "remember", !.path = contact[fetch[f].jid].path]
               other == [fetch[f] EXCEPT !.at = "write"]
    <3>1. fetch' = [fetch EXCEPT ![f] = again] \/ fetch' = [fetch EXCEPT ![f] = other]
      BY <2>2 DEF Reuse
    <3>2. keeps(again) /\ keeps(other)
      BY <1>0 DEF FetchTypes
    <3> HIDE DEF again, other, keeps
    <3> QED BY <3>1, <3>2
  <2>3. CASE WriteFile(f)
    <3> DEFINE done == [fetch[f] EXCEPT !.at = "row", !.path = fetch[f].picture]
    <3>1. Failed(f) \/ fetch' = [fetch EXCEPT ![f] = done]
      BY <1>0, <2>3 DEF WriteFile, Fails, FetchTypes
    <3>2. keeps(done)
      BY <1>0 DEF FetchTypes
    <3> HIDE DEF done, keeps
    <3> QED BY <1>1, <3>1, <3>2
  <2>4. CASE StoreRow(f)
    <3> DEFINE done == [fetch[f] EXCEPT !.at = "remember"]
    <3>1. fetch' = [fetch EXCEPT ![f] = done]
      BY <2>4 DEF StoreRow
    <3>2. keeps(done)
      BY <1>0 DEF FetchTypes
    <3> HIDE DEF done, keeps
    <3> QED BY <3>1, <3>2
  <2>5. CASE Finish(f)
    <3> DEFINE done == IF f = "rpc" THEN IdleFetch ELSE [IdleFetch EXCEPT !.at = "free", !.jid = fetch[f].jid]
    <3>1. fetch' = [fetch EXCEPT ![f] = done]
      BY <2>5 DEF Finish
    <3>2. keeps(done)
      BY DEF IdleFetch
    <3> HIDE DEF done, keeps
    <3> QED BY <3>1, <3>2
  <2> QED BY <2>1, <2>2, <2>3, <2>4, <2>5
<1>3. fetch'[f] = new /\ \A g \in Actors \ {f} : fetch'[g] = fetch[g]
  BY <1>0, <1>2
<1>4. \A g \in Fetchers : g \in Actors /\ g # "rpc"
  BY AvatarsAssumption DEF Actors
<1>5. \A g \in Fetchers :
        /\ fetch[g].at \notin {"idle", "unmark"} <=> fetch'[g].at \notin {"idle", "unmark"}
        /\ fetch[g].at \notin {"idle", "unmark"} => fetch'[g].jid = fetch[g].jid
  BY <1>0, <1>2, <1>3, <1>4
<1> HIDE DEF keeps
<1> QED BY <1>0, <1>5, PoolFrame DEF slots

LEMMA CallRefines ==
  ASSUME IInv, NEW j \in Jids, Call(j) PROVE UNCHANGED Pool!vars
<1>1. /\ UNCHANGED <<lister, slots>>
      /\ \A g \in Actors \ {"rpc"} : fetch'[g] = fetch[g]
  BY DEF IInv, Types, FetchOK, Call, FetchFrame
<1>2. \A g \in Fetchers : fetch'[g] = fetch[g]
  BY <1>1, AvatarsAssumption DEF Actors
<1> QED BY <1>1, <1>2, PoolFrame DEF slots

\* After a start nobody is fetched.
LEMMA NobodyFetched ==
  ASSUME Fresh PROVE Fetched = {} /\ busy = {}
<1>1. (\A f \in Fetchers : fetch[f].at = "idle") /\ \A l \in Listers : lister[l].at = "idle"
  BY IdleTyped DEF Fresh, Actors
<1>2. \A j : j \notin Fetched
  BY <1>1, FetchedIs
<1> QED BY <1>2 DEF Fresh

LEMMA RestartRefines ==
  ASSUME Restart PROVE Pool!Next
<1>1. (\A f \in Fetchers : fetch'[f].at = "idle") /\ \A l \in Listers : lister'[l].at = "idle"
  BY IdleTyped DEF Restart, Actors
<1>2. \A j : j \notin Fetched'
  BY <1>1, FetchedBecomes
<1>3. Fetched' = {} /\ busy' = {}
  BY <1>2 DEF Restart
<1> QED BY <1>3 DEF Pool!Next, Pool!Restart

LEMMA NextRefines ==
  ASSUME IInv, [Next]_vars PROVE [Pool!Next]_(Pool!vars)
<1>1. CASE \E l \in Listers : ListerStep(l)
  <2>1. PICK l \in Listers : ListerStep(l)
    BY <1>1
  <2> QED BY <2>1, ListerRefines, ClaimRefines, LaunchRefines, FreeRefines, UnmarkRefines DEF ListerStep
<1>2. CASE \E l \in Listers, j \in Jids : Begin(l, j)
  BY <1>2, ListerRefines
<1>3. CASE \E f \in Actors : FetchStep(f)
  <2>1. PICK f \in Actors : FetchStep(f)
    BY <1>3
  <2> QED BY <2>1, FetchRefines, FreeRefines, UnmarkRefines DEF FetchStep
<1>4. CASE \E j \in Jids : Call(j)
  BY <1>4, CallRefines
<1>5. CASE (\E j \in Jids : Expire(j) \/ ChangePicture(j)) \/ DeleteFiles \/ Close
  <2>1. UNCHANGED <<slots, actors>>
    BY <1>5 DEF Expire, ChangePicture, DeleteFiles, Close
  <2> QED BY <2>1, PoolFrame DEF slots, actors
<1>6. CASE Restart
  BY <1>6, RestartRefines
<1>7. CASE UNCHANGED vars
  BY <1>7, PoolFrame DEF vars, slots, actors
<1> QED BY <1>1, <1>2, <1>3, <1>4, <1>5, <1>6, <1>7 DEF Next

\* schedule, the goroutine it starts and the refusal of goTracked implement FetchPool: a peer is
\* let in only while nobody has marked it and a slot is left, its mark outlives its slot, and
\* nothing else touches either, whatever fails and whoever closes or restarts the service.
THEOREM PoolImplemented == Spec => PoolKept
<1>1. Init => Pool!Init
  <2> SUFFICES ASSUME Init PROVE Pool!Init
    OBVIOUS
  <2>1. Fresh
    BY DEF Init, Fresh
  <2> QED BY <2>1, NobodyFetched DEF Pool!Init
<1>2. IInv /\ [Next]_vars => [Pool!Next]_(Pool!vars)
  BY NextRefines
<1> QED BY <1>1, <1>2, Inductive, PTL DEF Spec, PoolKept, Pool!Spec

=============================================================================
