--------------------------- MODULE ServiceProofs ---------------------------
(***************************************************************************)
(* Proofs about Service for every number of logins, timers and events:     *)
(* type correctness, the login slot and its refinement of LoginSlot, the   *)
(* quiet shutdown and the ban that survives a disconnect.                  *)
(***************************************************************************)
EXTENDS Service, SequenceTheorems, TLAPS

-----------------------------------------------------------------------------
(* Type correctness                                                        *)

\* The sequences of event names the handlers publish are sequences of Names.
LEMMA PublishedNames ==
  /\ <<>> \in Seq(Names)
  /\ \A n \in Names : <<n>> \in Seq(Names)
  /\ \A s1, s2 \in Seq(Names) : s1 \o s2 \in Seq(Names)
  /\ \A s \in Seq(Names) : s # <<>> => Tail(s) \in Seq(Names)
BY ConcatProperties, HeadTailProperties

\* setState keeps the state a state and the outbox well typed.
LEMMA setStateType ==
  ASSUME NEW t \in Threads, NEW next \in States,
         NEW whenChanged \in Seq(Names), NEW always \in Seq(Names),
         outbox \in [Threads -> Seq(Names)],
         setState(t, next, whenChanged, always)
  PROVE  state' \in States /\ outbox' \in [Threads -> Seq(Names)]
<1>1. "connection.updated" \in Names
  BY DEF Names
<1>2. <<"connection.updated">> \o whenChanged \in Seq(Names)
  BY <1>1, PublishedNames
<1>3. (IF state = next THEN <<>> ELSE <<"connection.updated">> \o whenChanged) \in Seq(Names)
  BY <1>2, PublishedNames
<1>4. (IF state = next THEN <<>> ELSE <<"connection.updated">> \o whenChanged) \o always
        \in Seq(Names)
  BY <1>3, PublishedNames
<1> QED
  BY <1>4 DEF setState

\* Publish keeps the outbox well typed.
LEMMA PublishType ==
  ASSUME NEW t \in Threads, NEW evs \in Seq(Names),
         outbox \in [Threads -> Seq(Names)], Publish(t, evs)
  PROVE  outbox' \in [Threads -> Seq(Names)] /\ state' = state
BY DEF Publish

\* Goto keeps pc well typed.
LEMMA GotoType ==
  ASSUME NEW t \in Threads, NEW l \in Labels, pc \in [Threads -> Labels], Goto(t, l)
  PROVE  pc' \in [Threads -> Labels]
BY DEF Goto

\* ReleaseSlot keeps the slot's variables well typed.
LEMMA ReleaseSlotType ==
  ASSUME TypeOK, NEW t \in Threads, ReleaseSlot(t)
  PROVE  /\ loginActive' \in BOOLEAN /\ loginCancel' \in Optional
         /\ gen' \in [Attempts -> Nat] /\ cancelled' \subseteq Attempts
         /\ cancelling' \in [Threads -> Optional]
BY DEF ReleaseSlot, TypeOK, Optional

\* Initially every variable has its type.
LEMMA TypeInit == Init => TypeOK
<1> SUFFICES ASSUME Init PROVE TypeOK
  OBVIOUS
<1> USE BoundsAreNatural DEF Init
<1>1. state \in States /\ device \in {"unpaired", "paired", "deleted"}
        /\ client \in {"down", "up", "authenticated"} /\ ipcEvents \in 0..IpcCap
  BY DEF States
<1>2. inbox \in Seq(Kinds) /\ outbox \in [Threads -> Seq(Names)]
  BY PublishedNames
<1>3. /\ loginActive \in BOOLEAN /\ loginGen \in Nat /\ loginCancel \in Optional
      /\ gen \in [Attempts -> Nat] /\ cancelled \subseteq Attempts
      /\ cancelling \in [Threads -> Optional]
  BY DEF Optional
<1>4. pc \in [Threads -> Labels]
  BY DEF Labels
<1>5. /\ done \in BOOLEAN /\ closing \in BOOLEAN /\ emitClosed \in BOOLEAN
      /\ tracked \subseteq Threads
  BY DEF Threads, Workers
<1>6. budget \in [events : Nat, cancels : Nat, logouts : Nat, codes : [Attempts -> Nat]]
  OBVIOUS
<1> QED
  BY <1>1, <1>2, <1>3, <1>4, <1>5, <1>6 DEF TypeOK

\* The threads by name, and that no login or timer is one of the workers.
LEMMA ThreadFacts ==
  /\ Attempts \subseteq Threads /\ Timers \subseteq Threads /\ Workers \subseteq Threads
  /\ Connectors \subseteq Threads
  /\ \A w \in Workers : w \notin Attempts /\ w \notin Timers
  /\ {"dispatch", "start", "logout", "close", "auth.cancel"} = Workers
  /\ \A a \in Attempts : a \notin Connectors /\ a # NoAttempt
BY ThreadsDisjoint DEF Threads, Workers, Connectors

\* Every label a step of a login or of another thread goes to is a label.
LEMMA LabelFacts ==
  InFlight \cup Decided
    \cup {"rebuild", "prepare", "qrchan", "retry", "qrchan2", "announce", "connect", "spawn",
          "consume", "success", "outdated", "stop", "idle", "exit", "ended", "off", "armed", "boot", "check", "dial",
          "failed", "loop", "arm", "unlink", "disconnect", "mark", "wait", "disconnected",
          "connecting", "connected", "needs_pairing"} = Labels
BY DEF Labels, InFlight, Starting, Concluding, Decided

\* The steps of emit, cancel functions and the pump.
LEMMA TypeShared ==
  ASSUME TypeOK, (\E t \in Threads : CallCancel(t) \/ Emit(t)) \/ Pump
  PROVE  TypeOK'
<1> USE BoundsAreNatural DEF TypeOK, netVars, shutVars, loginVars
<1>1. ASSUME NEW t \in Threads, CallCancel(t) PROVE TypeOK'
  BY <1>1 DEF CallCancel, Optional
<1>2. ASSUME NEW t \in Threads, Emit(t) PROVE TypeOK'
  <2>1. ipcEvents' \in 0..IpcCap
    BY <1>2 DEF Emit
  <2>2. outbox' \in [Threads -> Seq(Names)]
    BY <1>2, PublishedNames DEF Emit
  <2> QED
    BY <1>2, <2>1, <2>2 DEF Emit
<1>3. ASSUME Pump PROVE TypeOK'
  BY <1>3 DEF Pump
<1> QED
  BY <1>1, <1>2, <1>3

\* The steps of a login.
LEMMA TypeLogin ==
  ASSUME TypeOK, NEW a \in Attempts, StartLogin(a) \/ LoginStep(a)
  PROVE  TypeOK'
<1> USE LabelFacts, ThreadFacts DEF TypeOK, netVars, shutVars, loginVars, Goto
<1>1. CASE StartLogin(a)
  <2>1. pc' \in [Threads -> Labels]
    BY <1>1 DEF StartLogin
  <2>2. loginGen' \in Nat /\ loginActive' \in BOOLEAN /\ loginCancel' \in Optional
    BY <1>1 DEF StartLogin, Optional
  <2>3. gen' \in [Attempts -> Nat]
    BY <1>1, <2>2 DEF StartLogin
  <2> QED
    BY <1>1, <2>1, <2>2, <2>3 DEF StartLogin
<1>2. CASE rebuildClient(a)
  BY <1>2 DEF rebuildClient
<1>3. CASE DropSocket(a)
  BY <1>3 DEF DropSocket
<1>4. CASE GetQRChannel(a)
  BY <1>4 DEF GetQRChannel
<1>5. CASE AnnounceLogin(a)
  <2>1. state' \in States /\ outbox' \in [Threads -> Seq(Names)]
    BY <1>5, setStateType, PublishedNames DEF AnnounceLogin, States
  <2> QED
    BY <1>5, <2>1 DEF AnnounceLogin
<1>6. CASE ConnectLogin(a)
  BY <1>6 DEF ConnectLogin
<1>7. CASE SpawnConsumer(a)
  <2>1. pc' \in [Threads -> Labels]
    BY <1>7 DEF SpawnConsumer
  <2>2. tracked' \subseteq Threads
    BY <1>7 DEF SpawnConsumer, goTracked
  <2> QED
    BY <1>7, <2>1, <2>2 DEF SpawnConsumer
<1>8. CASE LeaveCancelled(a)
  BY <1>8 DEF LeaveCancelled
<1>9. CASE StopOwnLogin(a)
  <2>1. CASE loginGen = gen[a] /\ ReleaseSlot(a) /\ UNCHANGED loginGen
    BY <1>9, <2>1, ReleaseSlotType DEF StopOwnLogin
  <2>2. CASE UNCHANGED loginVars
    BY <1>9, <2>2 DEF StopOwnLogin
  <2> QED
    BY <1>9, <2>1, <2>2 DEF StopOwnLogin, stopLoginGen
<1>10. CASE EndLogin(a)
  BY <1>10 DEF EndLogin
<1>11. CASE Conclude(a)
  <2>1. {"auth.error", "auth.connected"} \subseteq Names /\ {"connected", "outdated"} \subseteq States
    BY DEF Names, States
  <2>2. state' \in States /\ outbox' \in [Threads -> Seq(Names)]
    BY <1>11, <2>1, setStateType, PublishedNames DEF Conclude
  <2>3. pc' \in [Threads -> Labels]
    BY <1>11 DEF Conclude
  <2> QED
    BY <1>11, <2>2, <2>3 DEF Conclude
<1> QED
  BY <1>1, <1>2, <1>3, <1>4, <1>5, <1>6, <1>7, <1>8, <1>9, <1>10, <1>11 DEF LoginStep

\* The items of the QR channel.
LEMMA TypeQRItem ==
  ASSUME TypeOK, NEW a \in Attempts, NEW item \in QRItems, handleQRItem(a, item)
  PROVE  TypeOK'
<1> USE LabelFacts, ThreadFacts DEF TypeOK, netVars, shutVars, loginVars
<1>1. {"auth.qr", "auth.error"} \subseteq Names
  BY DEF Names
<1>2. state' \in States /\ outbox' \in [Threads -> Seq(Names)]
  <2>1. \E evs \in {<<"auth.qr">>, <<"auth.error">>, <<>>} : Publish(a, evs)
    BY DEF handleQRItem
  <2> QED
    BY <1>1, <2>1, PublishedNames, PublishType
<1>3. pc' \in [Threads -> Labels]
  <2>1. pc' = pc \/ \E l \in {"success", "outdated", "stop"} : Goto(a, l)
    BY DEF handleQRItem, Concluding
  <2> QED
    BY <2>1 DEF Goto
<1>4. budget' \in [events : Nat, cancels : Nat, logouts : Nat, codes : [Attempts -> Nat]]
  <2>1. CASE item = "code"
    <3>1. budget.codes[a] \in Nat /\ budget.codes[a] > 0
      BY <2>1 DEF handleQRItem, Available
    <3>2. budget.codes[a] - 1 \in Nat
      BY <3>1
    <3>3. budget' = [budget EXCEPT !.codes = [budget.codes EXCEPT ![a] = budget.codes[a] - 1]]
      BY <2>1 DEF handleQRItem
    <3> QED
      BY <3>2, <3>3
  <2>2. CASE item # "code"
    BY <2>2 DEF handleQRItem
  <2> QED
    BY <2>1, <2>2
<1> QED
  BY <1>2, <1>3, <1>4 DEF handleQRItem

\* What is left of a bound stays a number when one is spent.
LEMMA SpendType ==
  ASSUME TypeOK
  PROVE  LET Budgets == [events : Nat, cancels : Nat, logouts : Nat, codes : [Attempts -> Nat]]
         IN /\ budget.events > 0 => [budget EXCEPT !.events = @ - 1] \in Budgets
            /\ budget.cancels > 0 => [budget EXCEPT !.cancels = @ - 1] \in Budgets
            /\ budget.logouts > 0 => [budget EXCEPT !.logouts = @ - 1] \in Budgets
<1>1. \A n \in Nat : n > 0 => n - 1 \in Nat
  OBVIOUS
<1>2. budget.events \in Nat /\ budget.cancels \in Nat /\ budget.logouts \in Nat
  BY DEF TypeOK
<1>3. /\ budget.events > 0 => budget.events - 1 \in Nat
      /\ budget.cancels > 0 => budget.cancels - 1 \in Nat
      /\ budget.logouts > 0 => budget.logouts - 1 \in Nat
  BY <1>1, <1>2
<1> QED
  BY <1>3 DEF TypeOK

\* Cancel and logout.
LEMMA TypeLogout ==
  ASSUME TypeOK, CancelLogin \/ StartLogout \/ LogoutStep
  PROVE  TypeOK'
<1> USE LabelFacts, ThreadFacts DEF TypeOK, netVars, shutVars, loginVars, Goto
<1>1. CASE CancelLogin
  <2>1. ReleaseSlot("auth.cancel") /\ loginGen' \in Nat
    BY <1>1 DEF CancelLogin, stopLogin
  <2>2. budget' \in [events : Nat, cancels : Nat, logouts : Nat, codes : [Attempts -> Nat]]
    BY <1>1, SpendType DEF CancelLogin
  <2>3. pc' \in [Threads -> Labels]
    BY <1>1 DEF CancelLogin
  <2> QED
    BY <1>1, <2>1, <2>2, <2>3, ReleaseSlotType DEF CancelLogin
<1>2. CASE StartLogout
  <2>1. ReleaseSlot("logout") /\ loginGen' \in Nat
    BY <1>2 DEF StartLogout, stopLogin
  <2>2. budget' \in [events : Nat, cancels : Nat, logouts : Nat, codes : [Attempts -> Nat]]
    BY <1>2, SpendType DEF StartLogout
  <2>3. pc' \in [Threads -> Labels]
    BY <1>2 DEF StartLogout
  <2> QED
    BY <1>2, <2>1, <2>2, <2>3, ReleaseSlotType DEF StartLogout
<1>3. CASE Unlink
  <2>1. outbox' \in [Threads -> Seq(Names)] /\ state' \in States
    BY <1>3, PublishedNames, PublishType DEF Unlink, Names
  <2> QED
    BY <1>3, <2>1 DEF Unlink
<1>4. CASE FinishLogout
  <2>1. outbox' \in [Threads -> Seq(Names)] /\ state' \in States
    BY <1>4, PublishedNames, setStateType DEF FinishLogout, States
  <2> QED
    BY <1>4, <2>1 DEF FinishLogout
<1> QED
  BY <1>1, <1>2, <1>3, <1>4 DEF LogoutStep

\* What the dispatcher takes from the queue leaves a queue of events.
LEMMA TakeType ==
  ASSUME NEW k, inbox \in Seq(Kinds), Take(k)
  PROVE  inbox' \in Seq(Kinds)
BY HeadTailProperties DEF Take

\* The dispatcher.
LEMMA TypeDispatch ==
  ASSUME TypeOK, DispatchStep
  PROVE  TypeOK'
<1> USE LabelFacts, ThreadFacts DEF TypeOK, netVars, shutVars, loginVars, Goto
<1>0. /\ {"auth.connected", "auth.disconnected"} \subseteq Names
      /\ {"connected", "disconnected", "connecting", "needs_pairing", "banned",
          "stream_replaced", "outdated"} \subseteq States
  BY DEF Names, States
<1>1. CASE processConnected
  <2>1. inbox' \in Seq(Kinds) /\ outbox' \in [Threads -> Seq(Names)] /\ state' \in States
    BY <1>0, <1>1, TakeType, PublishedNames, setStateType DEF processConnected
  <2> QED
    BY <1>1, <2>1 DEF processConnected
<1>2. CASE processDowngrade
  <2>1. PICK k \in Downgrading :
          Take(k) /\ IF isTerminal THEN UNCHANGED pc ELSE Goto("dispatch", Outcome[k])
    BY <1>2 DEF processDowngrade
  <2>2. inbox' \in Seq(Kinds)
    BY <2>1, TakeType
  <2>3. Outcome[k] \in Labels
    BY DEF Downgrading, Outcome
  <2>4. pc' \in [Threads -> Labels]
    BY <2>1, <2>3
  <2> QED
    BY <1>2, <2>2, <2>4 DEF processDowngrade
<1>3. CASE processPermanent
  <2>0. PICK k \in {"stream_replaced", "client_outdated"} :
          Take(k) /\ setState("dispatch", Outcome[k], <<>>, <<>>)
    BY <1>3 DEF processPermanent
  <2>1. inbox' \in Seq(Kinds)
    BY <2>0, TakeType
  <2>2. Outcome[k] \in States
    BY <1>0 DEF Outcome
  <2>3. outbox' \in [Threads -> Seq(Names)] /\ state' \in States
    BY <2>0, <2>2, PublishedNames, setStateType
  <2> QED
    BY <1>3, <2>1, <2>3 DEF processPermanent
<1>4. CASE handleLoggedOut
  <2>1. inbox' \in Seq(Kinds) /\ outbox' \in [Threads -> Seq(Names)] /\ state' \in States
    BY <1>0, <1>4, TakeType, PublishedNames, PublishType DEF handleLoggedOut
  <2> QED
    BY <1>4, <2>1 DEF handleLoggedOut
<1>5. CASE handleTemporaryBan
  <2>1. inbox' \in Seq(Kinds) /\ outbox' \in [Threads -> Seq(Names)] /\ state' \in States
    BY <1>0, <1>5, TakeType, PublishedNames, setStateType DEF handleTemporaryBan
  <2> QED
    BY <1>5, <2>1 DEF handleTemporaryBan
<1>6. CASE Transition
  <2>1. outbox' \in [Threads -> Seq(Names)] /\ state' \in States
    BY <1>0, <1>6, PublishedNames, setStateType DEF Transition, Decided
  <2> QED
    BY <1>6, <2>1 DEF Transition
<1>7. CASE scheduleBanRecovery
  <2>0. {"loop", "armed"} \subseteq Labels
    OBVIOUS
  <2>1. pc' \in [Threads -> Labels] /\ tracked' \subseteq Threads
    <3>1. CASE \E r \in Timers :
                 goTracked(r) /\ pc' = [pc EXCEPT !["dispatch"] = "loop", ![r] = "armed"]
      <4>1. PICK r \in Timers :
              goTracked(r) /\ pc' = [pc EXCEPT !["dispatch"] = "loop", ![r] = "armed"]
        BY <3>1
      <4>2. pc' \in [Threads -> Labels]
        BY <4>1, <2>0
      <4>3. tracked' \subseteq Threads
        BY <4>1 DEF goTracked
      <4> QED
        BY <4>2, <4>3
    <3>2. CASE Goto("dispatch", "loop") /\ UNCHANGED tracked
      BY <3>2, <2>0
    <3> QED
      BY <1>7, <3>1, <3>2 DEF scheduleBanRecovery
  <2> QED
    BY <1>7, <2>1 DEF scheduleBanRecovery
<1>8. CASE EndDispatch
  BY <1>8 DEF EndDispatch
<1> QED
  BY <1>1, <1>2, <1>3, <1>4, <1>5, <1>6, <1>7, <1>8 DEF DispatchStep

\* Timers, Start and Connect.
LEMMA TypeConnect ==
  ASSUME TypeOK,
         (\E r \in Timers : FireTimer(r)) \/ Start \/ (\E t \in Connectors : ConnectStep(t))
  PROVE  TypeOK'
<1> USE LabelFacts, ThreadFacts DEF TypeOK, netVars, shutVars, loginVars, Goto
<1>0. {"connecting", "disconnected", "needs_pairing"} \subseteq States
  BY DEF States
<1>1. ASSUME NEW r \in Timers, FireTimer(r) PROVE TypeOK'
  BY <1>1 DEF FireTimer
<1>2. CASE Start
  <2>1. outbox' \in [Threads -> Seq(Names)] /\ state' \in States
    BY <1>0, <1>2, PublishedNames, setStateType DEF Start
  <2> QED
    BY <1>2, <2>1 DEF Start
<1>3. ASSUME NEW t \in Connectors, ConnectStep(t) PROVE TypeOK'
  <2>1. CASE ConnectCheck(t)
    BY <2>1 DEF ConnectCheck
  <2>2. CASE ConnectAnnounce(t)
    <3>1. outbox' \in [Threads -> Seq(Names)] /\ state' \in States
      BY <1>0, <2>2, PublishedNames, setStateType DEF ConnectAnnounce
    <3> QED
      BY <2>2, <3>1 DEF ConnectAnnounce
  <2>3. CASE ConnectDial(t)
    BY <2>3 DEF ConnectDial
  <2>4. CASE ConnectFailed(t)
    BY <2>4 DEF ConnectFailed
  <2>5. CASE ConnectDowngrade(t)
    <3>1. outbox' \in [Threads -> Seq(Names)] /\ state' \in States
      BY <1>0, <2>5, PublishedNames, setStateType DEF ConnectDowngrade
    <3> QED
      BY <2>5, <3>1 DEF ConnectDowngrade
  <2>6. CASE EndConnect(t)
    BY <2>6 DEF EndConnect
  <2> QED
    BY <1>3, <2>1, <2>2, <2>3, <2>4, <2>5, <2>6 DEF ConnectStep
<1> QED
  BY <1>1, <1>2, <1>3

\* Close.
LEMMA TypeClose ==
  ASSUME TypeOK, CloseBegin \/ CloseStep
  PROVE  TypeOK'
<1> USE LabelFacts, ThreadFacts DEF TypeOK, netVars, shutVars, loginVars, Goto
<1>1. CASE CloseBegin
  BY <1>1 DEF CloseBegin
<1>2. CASE CloseStopLogin
  BY <1>2, ReleaseSlotType DEF CloseStopLogin, stopLogin
<1>3. CASE CloseDisconnect
  BY <1>3 DEF CloseDisconnect
<1>4. CASE CloseMark
  BY <1>4 DEF CloseMark
<1>5. CASE CloseChannel
  BY <1>5 DEF CloseChannel
<1> QED
  BY <1>1, <1>2, <1>3, <1>4, <1>5 DEF CloseStep

\* whatsmeow.
LEMMA TypeWhatsmeow ==
  ASSUME TypeOK, Whatsmeow
  PROVE  TypeOK'
<1> USE DEF TypeOK, netVars, shutVars, loginVars
<1>1. ASSUME NEW k \in Kinds, handleEvent(k) PROVE TypeOK'
  <2>1. inbox' \in Seq(Kinds)
    BY <1>1, AppendProperties DEF handleEvent
  <2>2. client' \in {"down", "up", "authenticated"}
    BY <1>1 DEF handleEvent, SocketAfter
  <2>3. budget' \in [events : Nat, cancels : Nat, logouts : Nat, codes : [Attempts -> Nat]]
    BY <1>1, SpendType DEF handleEvent
  <2> QED
    BY <1>1, <2>1, <2>2, <2>3 DEF handleEvent
<1>2. CASE AutoReconnect
  BY <1>2 DEF AutoReconnect
<1>3. CASE PairDevice
  BY <1>3 DEF PairDevice
<1> QED
  BY <1>1, <1>2, <1>3 DEF Whatsmeow

\* Every step keeps the types.
LEMMA TypeStep == TypeOK /\ [Next]_vars => TypeOK'
<1> SUFFICES ASSUME TypeOK, [Next]_vars PROVE TypeOK'
  OBVIOUS
<1>1. CASE UNCHANGED vars
  BY <1>1 DEF TypeOK, vars, netVars, shutVars, loginVars
<1>2. CASE Next
  BY <1>1, <1>2, TypeShared, TypeLogin, TypeQRItem, TypeLogout, TypeDispatch, TypeConnect,
     TypeClose, TypeWhatsmeow DEF Next, Finished
<1> QED
  BY <1>1, <1>2

\* Whatever the number of logins, timers and events, every variable keeps its type; in
\* particular the event channel never holds more than its capacity.
THEOREM TypeCorrect == Spec => []TypeOK
BY TypeInit, TypeStep, PTL DEF Spec

-----------------------------------------------------------------------------
(* The login slot                                                          *)

\* The inductive strengthening of SlotOwned and LoserCancelled: generations are handed
\* out once, and a login has one exactly from StartLogin on.
SlotInv ==
  /\ \A a \in Attempts : gen[a] <= loginGen /\ (gen[a] = 0 <=> pc[a] = "idle")
  /\ \A a, b \in Attempts : gen[a] = gen[b] /\ gen[a] # 0 => a = b
  /\ SlotOwned
  /\ LoserCancelled

\* A step that leaves the slot alone and moves logins only on, never out of the part
\* where their clean-up is ahead, keeps the invariant.
LEMMA SlotFrame ==
  ASSUME TypeOK, SlotInv,
         UNCHANGED <<loginActive, loginGen, loginCancel, gen, cancelling>>,
         cancelled \subseteq cancelled',
         \A a \in Attempts :
           /\ pc[a] = "idle" <=> pc'[a] = "idle"
           /\ pc[a] \in InFlight /\ loginCancel = a => pc'[a] \in InFlight
  PROVE  SlotInv'
<1> USE DEF SlotInv
<1>1. \A a \in Attempts : gen'[a] <= loginGen' /\ (gen'[a] = 0 <=> pc'[a] = "idle")
  OBVIOUS
<1>2. SlotOwned'
  BY DEF SlotOwned, TypeOK, Optional
<1>3. LoserCancelled'
  BY DEF LoserCancelled
<1> QED
  BY <1>1, <1>2, <1>3

\* Clearing the slot and taking its cancel function keeps the invariant, if the thread
\* holds no other cancel function and the generation does not go back.
LEMMA SlotReleased ==
  ASSUME TypeOK, SlotInv, NEW t \in Threads, Ready(t), ReleaseSlot(t),
         loginGen' \in Nat, loginGen <= loginGen',
         \A a \in Attempts : pc[a] = "idle" <=> pc'[a] = "idle"
  PROVE  SlotInv'
<1> USE DEF SlotInv
<1>1. \A a \in Attempts : gen'[a] <= loginGen' /\ (gen'[a] = 0 <=> pc'[a] = "idle")
  BY DEF ReleaseSlot, TypeOK
<1>2. SlotOwned'
  BY DEF SlotOwned, ReleaseSlot
<1>3. LoserCancelled'
  <2> SUFFICES ASSUME NEW a \in Attempts, gen[a] # 0
               PROVE  a \in cancelled' \/ \E s \in Threads : cancelling'[s] = a
    BY DEF LoserCancelled, ReleaseSlot
  <2>1. CASE a = loginCancel
    BY <2>1 DEF ReleaseSlot, TypeOK
  <2>2. CASE a # loginCancel
    <3>1. a \in cancelled \/ \E s \in Threads : cancelling[s] = a
      BY <2>2 DEF LoserCancelled
    <3>2. \A s \in Threads : cancelling[s] = a => s # t
      BY ThreadFacts DEF Ready
    <3> QED
      BY <3>1, <3>2 DEF ReleaseSlot, TypeOK
  <2> QED
    BY <2>1, <2>2
<1> QED
  BY <1>1, <1>2, <1>3 DEF ReleaseSlot

\* Initially no login holds the slot and none has a generation.
LEMMA SlotInit == Init => SlotInv
BY ThreadFacts, ThreadsDisjoint DEF Init, SlotInv, SlotOwned, LoserCancelled, Workers, Threads

\* Steps of the threads that are not logins leave the logins where they are.
LEMMA OtherThreads ==
  ASSUME TypeOK,
         \/ Unlink \/ FinishLogout \/ DispatchStep \/ Start
         \/ \E r \in Timers : FireTimer(r)
         \/ \E t \in Connectors : ConnectStep(t)
         \/ CloseBegin \/ CloseDisconnect \/ CloseMark \/ CloseChannel
         \/ Whatsmeow \/ Pump
         \/ \E t \in Threads : Emit(t)
  PROVE  /\ \A a \in Attempts : pc'[a] = pc[a]
         /\ UNCHANGED <<loginActive, loginGen, loginCancel, gen, cancelling>>
         /\ cancelled \subseteq cancelled'
<1> USE ThreadFacts, ThreadsDisjoint DEF TypeOK, loginVars, Goto, Workers, Connectors
<1>1. CASE Unlink \/ FinishLogout
  BY <1>1 DEF Unlink, FinishLogout
<1>2. CASE DispatchStep
  <2>1. CASE processConnected \/ processDowngrade \/ processPermanent
    BY <2>1 DEF processConnected, processDowngrade, processPermanent
  <2>2. CASE handleLoggedOut \/ handleTemporaryBan \/ Transition
    BY <2>2 DEF handleLoggedOut, handleTemporaryBan, Transition
  <2>3. CASE scheduleBanRecovery \/ EndDispatch
    BY <2>3 DEF scheduleBanRecovery, EndDispatch
  <2> QED
    BY <1>2, <2>1, <2>2, <2>3 DEF DispatchStep
<1>3. CASE Start
  BY <1>3 DEF Start
<1>4. ASSUME NEW r \in Timers, FireTimer(r)
      PROVE  (\A a \in Attempts : pc'[a] = pc[a]) /\ UNCHANGED loginVars
  BY <1>4 DEF FireTimer
<1>5. ASSUME NEW t \in Connectors, ConnectStep(t)
      PROVE  (\A a \in Attempts : pc'[a] = pc[a]) /\ UNCHANGED loginVars
  BY <1>5 DEF ConnectStep, ConnectCheck, ConnectAnnounce, ConnectDial, ConnectFailed,
     ConnectDowngrade, EndConnect
<1>6. CASE CloseBegin \/ CloseDisconnect \/ CloseMark \/ CloseChannel
  BY <1>6 DEF CloseBegin, CloseDisconnect, CloseMark, CloseChannel
<1>7. CASE Whatsmeow \/ Pump
  BY <1>7 DEF Whatsmeow, handleEvent, AutoReconnect, PairDevice, Pump
<1>8. ASSUME NEW t \in Threads, Emit(t)
      PROVE  UNCHANGED <<pc, loginVars>>
  BY <1>8 DEF Emit
<1> QED
  BY <1>1, <1>2, <1>3, <1>4, <1>5, <1>6, <1>7, <1>8

\* A login's own steps.
LEMMA SlotLogin ==
  ASSUME TypeOK, SlotInv, NEW a \in Attempts, StartLogin(a) \/ LoginStep(a)
  PROVE  SlotInv'
<1>1. CASE StartLogin(a)
  <2> USE <1>1 DEF StartLogin, Goto, SlotInv, TypeOK
  <2>0. pc'[a] # "idle" /\ \A b \in Attempts : b # a => pc'[b] = pc[b] /\ gen'[b] = gen[b]
    <3>1. pc' = [pc EXCEPT ![a] = IF device = "deleted" THEN "rebuild" ELSE "prepare"]
      OBVIOUS
    <3>2. pc'[a] = IF device = "deleted" THEN "rebuild" ELSE "prepare"
      BY <3>1, ThreadFacts
    <3>3. \A b \in Attempts : b # a => pc'[b] = pc[b] /\ gen'[b] = gen[b]
      BY <3>1
    <3> QED
      BY <3>2, <3>3
  <2>1. \A b \in Attempts : gen'[b] <= loginGen' /\ (gen'[b] = 0 <=> pc'[b] = "idle")
    <3> TAKE b \in Attempts
    <3>1. CASE b = a
      BY <2>0, <3>1
    <3>2. CASE b # a
      <4>1. gen[b] <= loginGen + 1
        OBVIOUS
      <4> QED
        BY <2>0, <3>2, <4>1
    <3> QED
      BY <3>1, <3>2
  <2>2. \A b, c \in Attempts : gen'[b] = gen'[c] /\ gen'[b] # 0 => b = c
    OBVIOUS
  <2>3. SlotOwned'
    BY ThreadFacts DEF SlotOwned, InFlight, Starting, Concluding
  <2>4. LoserCancelled'
    BY ThreadFacts DEF LoserCancelled, SlotOwned
  <2> QED
    BY <2>1, <2>2, <2>3, <2>4
<1>2. CASE StopOwnLogin(a)
  <2>1. CASE loginGen = gen[a] /\ ReleaseSlot(a) /\ UNCHANGED loginGen
    <3>1. \A b \in Attempts : pc[b] = "idle" <=> pc'[b] = "idle"
      BY <1>2 DEF StopOwnLogin, Goto, TypeOK
    <3>2. loginGen' \in Nat /\ loginGen <= loginGen'
      BY <2>1 DEF TypeOK
    <3> QED
      BY <1>2, <2>1, <3>1, <3>2, SlotReleased, ThreadFacts DEF StopOwnLogin
  <2>2. CASE loginGen # gen[a] /\ UNCHANGED loginVars
    <3>1. loginCancel # a
      BY <1>2, <2>2, ThreadFacts DEF SlotInv, SlotOwned
    <3>2. \A b \in Attempts :
            /\ pc[b] = "idle" <=> pc'[b] = "idle"
            /\ pc[b] \in InFlight /\ loginCancel = b => pc'[b] \in InFlight
      BY <1>2, <3>1 DEF StopOwnLogin, Goto, TypeOK
    <3> QED
      BY <2>2, <3>2, SlotFrame DEF loginVars
  <2> QED
    BY <1>2, <2>1, <2>2 DEF StopOwnLogin, stopLoginGen
<1>3. CASE \/ rebuildClient(a) \/ DropSocket(a) \/ GetQRChannel(a) \/ AnnounceLogin(a)
           \/ ConnectLogin(a) \/ SpawnConsumer(a) \/ LeaveCancelled(a) \/ Conclude(a)
           \/ EndLogin(a)
  <2>1. UNCHANGED loginVars
    BY <1>3 DEF rebuildClient, DropSocket, GetQRChannel, AnnounceLogin, ConnectLogin,
       SpawnConsumer, LeaveCancelled, Conclude, EndLogin
  <2>2. \A b \in Attempts :
          /\ pc[b] = "idle" <=> pc'[b] = "idle"
          /\ pc[b] \in InFlight => pc'[b] \in InFlight
    <3>1. \A b \in Attempts : b # a => pc'[b] = pc[b]
      <4>1. \E l : Goto(a, l)
        BY <1>3 DEF rebuildClient, DropSocket, GetQRChannel, AnnounceLogin, ConnectLogin,
           SpawnConsumer, LeaveCancelled, Conclude, EndLogin
      <4> QED
        BY <4>1, ThreadFacts DEF Goto, TypeOK
    <3>2. CASE EndLogin(a)
      <4>1. pc[a] = "exit" /\ pc'[a] = "ended"
        BY <3>2, ThreadFacts DEF EndLogin, Goto, TypeOK
      <4>2. "exit" \notin InFlight
        BY DEF InFlight, Starting, Concluding
      <4> QED
        BY <3>1, <4>1, <4>2
    <3>3. CASE ~EndLogin(a)
      <4> SUFFICES pc[a] # "idle" /\ pc'[a] \in {"prepare", "stop", "qrchan", "qrchan2", "retry",
                          "announce", "connect", "spawn", "consume"}
        BY <3>1 DEF InFlight, Starting, Concluding
      <4> USE ThreadFacts DEF Goto, TypeOK
      <4>1. CASE rebuildClient(a)
        BY <4>1 DEF rebuildClient
      <4>2. CASE DropSocket(a)
        BY <4>2 DEF DropSocket
      <4>3. CASE GetQRChannel(a)
        BY <4>3 DEF GetQRChannel
      <4>4. CASE AnnounceLogin(a)
        BY <4>4 DEF AnnounceLogin
      <4>5. CASE ConnectLogin(a)
        BY <4>5 DEF ConnectLogin
      <4>6. CASE SpawnConsumer(a)
        BY <4>6 DEF SpawnConsumer
      <4>7. CASE LeaveCancelled(a)
        BY <4>7 DEF LeaveCancelled
      <4>8. CASE Conclude(a)
        BY <4>8 DEF Conclude
      <4> QED
        BY <1>3, <3>3, <4>1, <4>2, <4>3, <4>4, <4>5, <4>6, <4>7, <4>8
    <3> QED
      BY <3>2, <3>3
  <2> QED
    BY <2>1, <2>2, SlotFrame DEF loginVars
<1> QED
  BY <1>1, <1>2, <1>3 DEF LoginStep

\* The items of the QR channel.
LEMMA SlotQRItem ==
  ASSUME TypeOK, SlotInv, NEW a \in Attempts, NEW item \in QRItems, handleQRItem(a, item)
  PROVE  SlotInv'
<1>1. UNCHANGED loginVars
  BY DEF handleQRItem
<1>2. \A b \in Attempts :
        /\ pc[b] = "idle" <=> pc'[b] = "idle"
        /\ pc[b] \in InFlight => pc'[b] \in InFlight
  <2>1. pc[a] = "consume"
    BY DEF handleQRItem
  <2>2. CASE pc' = pc
    BY <2>2
  <2>3. ASSUME NEW l \in {"success", "outdated", "stop"}, Goto(a, l)
        PROVE  \A b \in Attempts :
                 /\ pc[b] = "idle" <=> pc'[b] = "idle"
                 /\ pc[b] \in InFlight => pc'[b] \in InFlight
    BY <2>1, <2>3 DEF Goto, TypeOK, InFlight, Starting, Concluding
  <2> QED
    BY <2>2, <2>3 DEF handleQRItem, Concluding
<1> QED
  BY <1>1, <1>2, SlotFrame DEF loginVars

\* Calling the cancel function makes the login one of the cancelled ones.
LEMMA SlotCallCancel ==
  ASSUME TypeOK, SlotInv, NEW t \in Threads, CallCancel(t)
  PROVE  SlotInv'
<1> USE DEF SlotInv, CallCancel
<1>1. SlotOwned'
  BY DEF SlotOwned
<1>2. LoserCancelled'
  <2> SUFFICES ASSUME NEW a \in Attempts, gen[a] # 0, a # loginCancel
               PROVE  a \in cancelled' \/ \E s \in Threads : cancelling'[s] = a
    BY DEF LoserCancelled
  <2>1. a \in cancelled \/ \E s \in Threads : cancelling[s] = a
    BY DEF LoserCancelled
  <2> QED
    BY <2>1 DEF TypeOK
<1> QED
  BY <1>1, <1>2

\* A user's cancel, a logout and a shutdown release the slot with a new generation.
LEMMA SlotStopped ==
  ASSUME TypeOK, SlotInv, CancelLogin \/ StartLogout \/ CloseStopLogin
  PROVE  SlotInv'
<1>0. loginGen + 1 \in Nat /\ loginGen <= loginGen + 1
  BY DEF TypeOK
<1>1. CASE CancelLogin
  <2>1. ReleaseSlot("auth.cancel") /\ Ready("auth.cancel") /\ loginGen' = loginGen + 1
    BY <1>1 DEF CancelLogin, stopLogin
  <2>2. \A a \in Attempts : pc'[a] = pc[a]
    BY <1>1, ThreadFacts DEF CancelLogin, Goto, Workers, TypeOK
  <2> QED
    BY <1>0, <2>1, <2>2, SlotReleased, ThreadFacts
<1>2. CASE StartLogout
  <2>1. ReleaseSlot("logout") /\ Ready("logout") /\ loginGen' = loginGen + 1
    BY <1>2 DEF StartLogout, stopLogin
  <2>2. \A a \in Attempts : pc'[a] = pc[a]
    BY <1>2, ThreadFacts DEF StartLogout, Goto, Workers, TypeOK
  <2> QED
    BY <1>0, <2>1, <2>2, SlotReleased, ThreadFacts
<1>3. CASE CloseStopLogin
  <2>1. ReleaseSlot("close") /\ Ready("close") /\ loginGen' = loginGen + 1
    BY <1>3 DEF CloseStopLogin, stopLogin
  <2>2. \A a \in Attempts : pc'[a] = pc[a]
    BY <1>3, ThreadFacts DEF CloseStopLogin, Goto, Workers, TypeOK
  <2> QED
    BY <1>0, <2>1, <2>2, SlotReleased, ThreadFacts
<1> QED
  BY <1>1, <1>2, <1>3

\* Every step keeps the slot's invariant.
LEMMA SlotStep == TypeOK /\ SlotInv /\ [Next]_vars => SlotInv'
<1> SUFFICES ASSUME TypeOK, SlotInv, [Next]_vars PROVE SlotInv'
  OBVIOUS
<1>1. CASE UNCHANGED vars
  BY <1>1, SlotFrame DEF vars, loginVars
<1>2. CASE
    \/ Unlink \/ FinishLogout \/ DispatchStep \/ Start
    \/ \E r \in Timers : FireTimer(r)
    \/ \E t \in Connectors : ConnectStep(t)
    \/ CloseBegin \/ CloseDisconnect \/ CloseMark \/ CloseChannel
    \/ Whatsmeow \/ Pump
    \/ \E t \in Threads : Emit(t)
  <2>1. /\ \A a \in Attempts : pc'[a] = pc[a]
        /\ UNCHANGED <<loginActive, loginGen, loginCancel, gen, cancelling>>
        /\ cancelled \subseteq cancelled'
    BY <1>2, OtherThreads
  <2> QED
    BY <2>1, SlotFrame
<1>3. CASE Next
  BY <1>1, <1>2, <1>3, SlotLogin, SlotQRItem, SlotCallCancel, SlotStopped
  DEF Next, LogoutStep, CloseStep, Finished
<1> QED
  BY <1>1, <1>3

\* Every login that holds the slot has its clean-up ahead, with the generation the slot
\* has, and the slot is taken only then: auth.start is never refused for good.
THEOREM SlotCorrect == Spec => []SlotOwned
<1>1. SlotInv => SlotOwned
  BY DEF SlotInv
<1> QED
  BY <1>1, TypeInit, TypeStep, SlotInit, SlotStep, PTL DEF Spec

\* Every login that lost the slot is cancelled, or is about to be.
THEOREM LosersCorrect == Spec => []LoserCancelled
<1>1. SlotInv => LoserCancelled
  BY DEF SlotInv
<1> QED
  BY <1>1, TypeInit, TypeStep, SlotInit, SlotStep, PTL DEF Spec

\* The steps that give the slot to a login or take it from one.
LEMMA SlotChanges ==
  ASSUME TypeOK, SlotInv, Next, loginCancel' # loginCancel \/ gen' # gen
  PROVE  \/ \E a \in Attempts : StartLogin(a)
         \/ \E a \in Attempts : StopOwnLogin(a) /\ loginGen = gen[a] /\ ReleaseSlot(a)
         \/ CancelLogin \/ StartLogout \/ CloseStopLogin
<1>1. ASSUME NEW a \in Attempts,
             \/ rebuildClient(a) \/ DropSocket(a) \/ GetQRChannel(a) \/ AnnounceLogin(a)
             \/ ConnectLogin(a) \/ SpawnConsumer(a) \/ LeaveCancelled(a) \/ Conclude(a)
             \/ EndLogin(a)
      PROVE  UNCHANGED loginVars
  BY <1>1 DEF rebuildClient, DropSocket, GetQRChannel, AnnounceLogin, ConnectLogin,
     SpawnConsumer, LeaveCancelled, Conclude, EndLogin
<1>2. ASSUME NEW a \in Attempts, NEW item \in QRItems, handleQRItem(a, item)
      PROVE  UNCHANGED loginVars
  BY <1>2 DEF handleQRItem
<1>3. ASSUME NEW t \in Threads, CallCancel(t)
      PROVE  UNCHANGED <<loginCancel, gen>>
  BY <1>3 DEF CallCancel
<1>4. ASSUME NEW a \in Attempts, StopOwnLogin(a)
      PROVE  (loginGen = gen[a] /\ ReleaseSlot(a)) \/ UNCHANGED loginVars
  BY <1>4 DEF StopOwnLogin, stopLoginGen
<1>5. CASE Finished
  BY <1>5 DEF Finished, vars, loginVars
<1> QED
  BY <1>1, <1>2, <1>3, <1>4, <1>5, OtherThreads
  DEF Next, LoginStep, LogoutStep, CloseStep, loginVars

\* A login whose own clean-up releases the slot is the one that holds it, if any does.
LEMMA OwnSlot ==
  ASSUME TypeOK, SlotInv, NEW a \in Attempts, StopOwnLogin(a), loginGen = gen[a]
  PROVE  loginCancel \in {a, NoAttempt}
<1>1. gen[a] # 0
  BY DEF StopOwnLogin, SlotInv
<1>2. loginCancel \in Attempts => gen[loginCancel] = loginGen
  BY ThreadFacts DEF SlotInv, SlotOwned
<1> QED
  BY <1>1, <1>2 DEF SlotInv, TypeOK, Optional

\* A step takes the slot from a login only as the login's own clean-up or for a user.
LEMMA TheftStep == TypeOK /\ SlotInv /\ [Next]_vars => [SlotGivenUp]_vars
<1> SUFFICES ASSUME TypeOK, SlotInv, Next, NEW a \in Attempts,
                    loginCancel = a, loginCancel' # a
             PROVE  \/ pc[a] = "stop" /\ pc'[a] = "exit"
                    \/ \E t \in {"auth.cancel", "logout", "close"} : cancelling'[t] = a
  BY DEF SlotGivenUp
<1>1. ASSUME NEW b \in Attempts PROVE ~StartLogin(b)
  BY ThreadFacts DEF StartLogin, SlotInv, SlotOwned
<1>2. ASSUME NEW b \in Attempts, StopOwnLogin(b), loginGen = gen[b]
      PROVE  pc[a] = "stop" /\ pc'[a] = "exit"
  <2>1. a = b
    BY <1>2, OwnSlot, ThreadFacts
  <2> QED
    BY <1>2, <2>1, ThreadFacts DEF StopOwnLogin, Goto, TypeOK
<1>3. ASSUME NEW t \in {"auth.cancel", "logout", "close"}, ReleaseSlot(t)
      PROVE  cancelling'[t] = a
  BY <1>3, ThreadFacts DEF ReleaseSlot, TypeOK
<1>4. CASE CancelLogin \/ StartLogout \/ CloseStopLogin
  BY <1>3, <1>4 DEF CancelLogin, StartLogout, CloseStopLogin, stopLogin
<1> QED
  BY <1>1, <1>2, <1>4, SlotChanges

\* No login's late clean-up ever takes the slot from another login.
THEOREM NoTheftCorrect == Spec => NoTheft
BY TypeInit, TypeStep, SlotInit, SlotStep, TheftStep, PTL DEF Spec, NoTheft

\* A step gives the free slot to a login that never had it, takes it from its holder, or
\* leaves it alone.
LEMMA SlotRefined ==
  TypeOK /\ SlotInv /\ [Next]_vars => [Slot!Next]_(Slot!vars)
<1> SUFFICES ASSUME TypeOK, SlotInv, [Next]_vars PROVE [Slot!Next]_(Slot!vars)
  OBVIOUS
<1> DEFINE served == {a \in Attempts : gen[a] # 0 /\ a # loginCancel}
<1>1. CASE UNCHANGED <<loginCancel, gen>>
  BY <1>1 DEF Slot!vars
<1>2. ASSUME NEW a \in Attempts, StartLogin(a) PROVE Slot!Acquire(a)
  <2>1. loginCancel = NoAttempt /\ gen[a] = 0
    BY <1>2 DEF StartLogin, SlotInv, SlotOwned
  <2>2. gen' = [gen EXCEPT ![a] = loginGen + 1] /\ loginCancel' = a /\ loginGen + 1 # 0
    BY <1>2 DEF StartLogin, TypeOK
  <2>3. served' = served
    <3>1. \A b \in Attempts : b # a => gen'[b] = gen[b]
      BY <2>2 DEF TypeOK
    <3> QED
      BY <2>1, <2>2, <3>1, ThreadFacts
  <2> QED
    BY <2>1, <2>2, <2>3 DEF Slot!Acquire
<1>3. ASSUME NEW a \in Attempts, loginCancel = a, loginCancel' = NoAttempt, gen' = gen
      PROVE  Slot!Release(a)
  <2>1. gen[a] # 0
    BY <1>3, ThreadFacts DEF SlotInv, SlotOwned, InFlight, Starting, Concluding
  <2>2. served' = served \cup {a}
    BY <1>3, <2>1, ThreadFacts
  <2> QED
    BY <1>3, <2>2 DEF Slot!Release
<1>4. ASSUME NEW t \in Threads, ReleaseSlot(t), loginCancel' # loginCancel \/ gen' # gen
      PROVE  \E a \in Attempts : Slot!Release(a)
  BY <1>3, <1>4 DEF ReleaseSlot, TypeOK, Optional
<1>5. CASE Next /\ (loginCancel' # loginCancel \/ gen' # gen)
  <2>1. CASE \E a \in Attempts : StartLogin(a)
    BY <1>2, <2>1 DEF Slot!Next
  <2>2. CASE \E t \in Threads : ReleaseSlot(t)
    BY <1>4, <1>5, <2>2 DEF Slot!Next
  <2> QED
    BY <1>5, <2>1, <2>2, SlotChanges, ThreadFacts
    DEF CancelLogin, StartLogout, CloseStopLogin, stopLogin
<1>6. CASE UNCHANGED vars
  BY <1>1, <1>6 DEF vars, loginVars
<1> QED
  BY <1>1, <1>5, <1>6

\* Generations, contexts and clean-ups implement the slot auth.start promises: one login
\* at a time, each served once.
THEOREM SlotImplemented == Spec => OneLoginAtATime
<1>1. Init => Slot!Init
  BY DEF Init, Slot!Init
<1> QED
  BY <1>1, TypeInit, TypeStep, SlotInit, SlotStep, SlotRefined, PTL
  DEF Spec, OneLoginAtATime, Slot!Spec

-----------------------------------------------------------------------------
(* Shutdown                                                                *)

\* A consumer has the channel, or an item of it in hand.
Consuming == Concluding \cup {"consume"}

\* The inductive strengthening of ShutdownQuiet: whoever must be waited for is counted
\* exactly while it runs, and nobody is counted once the channel is closed.
QuietInv ==
  /\ emitClosed => closing /\ tracked = {}
  /\ pc["close"] \in {"wait", "ended"} => closing
  /\ tracked \subseteq {"dispatch"} \cup Timers \cup Attempts
  /\ pc["dispatch"] # "ended" <=> "dispatch" \in tracked
  /\ \A r \in Timers : pc[r] # "off" <=> r \in tracked
  /\ pc["dispatch"] \notin {"idle", "off"} /\ \A r \in Timers : pc[r] \notin {"idle", "ended"}
  /\ \A a \in Attempts :
       /\ pc[a] \in Consuming => a \in tracked
       /\ a \in tracked => pc[a] \in Consuming \cup {"stop", "exit"}

\* Initially only the dispatcher runs, and it is counted.
LEMMA QuietInit == Init => QuietInv
BY ThreadFacts DEF Init, QuietInv, Consuming, Concluding, Workers, Threads

\* A step that neither starts nor ends a goroutine Close waits for.
LEMMA QuietFrame ==
  ASSUME QuietInv, UNCHANGED <<tracked, emitClosed>>, closing => closing',
         pc'["close"] \in {"wait", "ended"} => pc["close"] \in {"wait", "ended"} \/ closing',
         pc'["dispatch"] = "ended" <=> pc["dispatch"] = "ended",
         \A r \in Timers : pc'[r] = "off" <=> pc[r] = "off",
         pc'["dispatch"] \in {"idle", "off"} => pc["dispatch"] \in {"idle", "off"},
         \A r \in Timers : pc'[r] \in {"idle", "ended"} => pc[r] \in {"idle", "ended"},
         \A a \in Attempts : pc'[a] \in Consuming => pc[a] \in Consuming,
         \A a \in Attempts : a \in tracked /\ pc[a] \in Consuming \cup {"stop", "exit"} =>
                             pc'[a] \in Consuming \cup {"stop", "exit"}
  PROVE  QuietInv'
BY DEF QuietInv

\* The steps of a login.
LEMMA QuietLogin ==
  ASSUME TypeOK, QuietInv, NEW a \in Attempts,
         StartLogin(a) \/ LoginStep(a) \/ \E item \in QRItems : handleQRItem(a, item)
  PROVE  QuietInv'
<1>1. \A t \in Threads \ {a} : pc'[t] = pc[t]
  <2>1. (\E l : Goto(a, l)) \/ pc' = pc
    BY DEF LoginStep, StartLogin, rebuildClient, DropSocket, GetQRChannel, AnnounceLogin,
       ConnectLogin, SpawnConsumer, LeaveCancelled, Conclude, StopOwnLogin, EndLogin, handleQRItem
  <2> QED
    BY <2>1 DEF Goto, TypeOK
<1>2. /\ pc'["close"] = pc["close"] /\ pc'["dispatch"] = pc["dispatch"]
      /\ \A r \in Timers : pc'[r] = pc[r]
      /\ \A b \in Attempts : b # a => pc'[b] = pc[b]
  BY <1>1, ThreadFacts, ThreadsDisjoint DEF Workers
<1>3. UNCHANGED <<emitClosed, closing>>
  BY DEF LoginStep, StartLogin, rebuildClient, DropSocket, GetQRChannel, AnnounceLogin,
     ConnectLogin, SpawnConsumer, LeaveCancelled, Conclude, StopOwnLogin, EndLogin, handleQRItem,
     goTracked, shutVars
<1>4. CASE SpawnConsumer(a) /\ goTracked(a)
  <2>1. pc'[a] = "consume" /\ tracked' = tracked \cup {a} /\ ~closing
    BY <1>4, ThreadFacts DEF SpawnConsumer, goTracked, Goto, TypeOK
  <2> QED
    BY <1>2, <1>3, <2>1, ThreadFacts, ThreadsDisjoint DEF QuietInv, Consuming, Workers
<1>5. CASE EndLogin(a)
  <2>1. pc'[a] = "ended" /\ tracked' = tracked \ {a}
    BY <1>5, ThreadFacts DEF EndLogin, Goto, TypeOK
  <2> QED
    BY <1>2, <1>3, <2>1, ThreadFacts, ThreadsDisjoint DEF QuietInv, Consuming, Concluding, Workers
<1>6. CASE ~(SpawnConsumer(a) /\ goTracked(a)) /\ ~EndLogin(a)
  <2>1. tracked' = tracked
    BY <1>6 DEF LoginStep, StartLogin, rebuildClient, DropSocket, GetQRChannel,
       AnnounceLogin, ConnectLogin, SpawnConsumer, LeaveCancelled, Conclude, StopOwnLogin,
       handleQRItem, shutVars
  <2>2. CASE \/ \E item \in QRItems : handleQRItem(a, item)
             \/ LeaveCancelled(a) \/ Conclude(a)
    <3>1. pc[a] \in Consuming
      BY <2>2 DEF handleQRItem, LeaveCancelled, Conclude, Consuming, Concluding
    <3>2. pc' = pc \/ \E l \in Consuming \cup {"stop"} : Goto(a, l)
      BY <2>2 DEF handleQRItem, LeaveCancelled, Conclude, Consuming
    <3>3. pc'[a] \in Consuming \cup {"stop"}
      BY <3>1, <3>2, ThreadFacts DEF Goto, TypeOK
    <3> QED
      BY <1>2, <1>3, <2>1, <3>1, <3>3, QuietFrame
  <2>3. CASE \/ StartLogin(a) \/ rebuildClient(a) \/ DropSocket(a) \/ GetQRChannel(a)
             \/ AnnounceLogin(a) \/ ConnectLogin(a) \/ (SpawnConsumer(a) /\ ~goTracked(a))
    <3>1. pc[a] \in Starting \cup {"idle"}
      BY <2>3 DEF StartLogin, rebuildClient, DropSocket, GetQRChannel, AnnounceLogin, ConnectLogin,
         SpawnConsumer, Starting
    <3>2. \E l \in Starting \cup {"stop"} : Goto(a, l)
      BY <2>3 DEF StartLogin, rebuildClient, DropSocket, GetQRChannel, AnnounceLogin, ConnectLogin,
         SpawnConsumer, Starting
    <3>3. pc'[a] \in Starting \cup {"stop"}
      BY <3>2, ThreadFacts DEF Goto, TypeOK
    <3>4. pc[a] \notin Consuming \cup {"stop", "exit"} /\ pc'[a] \notin Consuming
      BY <3>1, <3>3 DEF Starting, Consuming, Concluding
    <3> QED
      BY <1>2, <1>3, <2>1, <3>4, QuietFrame
  <2>4. CASE StopOwnLogin(a)
    <3>1. pc[a] = "stop" /\ pc'[a] = "exit"
      BY <2>4, ThreadFacts DEF StopOwnLogin, Goto, TypeOK
    <3>2. "exit" \notin Consuming
      BY DEF Consuming, Concluding
    <3> QED
      BY <1>2, <1>3, <2>1, <3>1, <3>2, QuietFrame
  <2> QED
    BY <1>6, <2>2, <2>3, <2>4 DEF LoginStep
<1> QED
  BY <1>4, <1>5, <1>6

\* The dispatcher: it ends or starts a timer, or goes on.
LEMMA QuietDispatch ==
  ASSUME TypeOK, QuietInv, DispatchStep
  PROVE  QuietInv'
<1> USE ThreadFacts, ThreadsDisjoint DEF Workers, TypeOK, Goto
<1>1. CASE scheduleBanRecovery
  <2>1. CASE \E r \in Timers : goTracked(r) /\ pc' = [pc EXCEPT !["dispatch"] = "loop", ![r] = "armed"]
    <3>1. PICK r \in Timers :
            goTracked(r) /\ pc' = [pc EXCEPT !["dispatch"] = "loop", ![r] = "armed"]
      BY <2>1
    <3>2. pc'["close"] = pc["close"] /\ \A a \in Attempts : pc'[a] = pc[a]
      BY <3>1
    <3>3. \A s \in Timers : s # r => pc'[s] = pc[s]
      BY <3>1
    <3>4. pc["dispatch"] = "arm" /\ UNCHANGED <<closing, emitClosed>>
      BY <1>1 DEF scheduleBanRecovery
    <3> QED
      BY <3>1, <3>2, <3>3, <3>4 DEF QuietInv, goTracked
  <2>2. CASE Goto("dispatch", "loop") /\ UNCHANGED tracked
    <3>1. pc["dispatch"] = "arm" /\ UNCHANGED <<closing, emitClosed>>
      BY <1>1 DEF scheduleBanRecovery
    <3> QED
      BY <2>2, <3>1 DEF QuietInv
  <2> QED
    BY <1>1, <2>1, <2>2 DEF scheduleBanRecovery
<1>2. CASE EndDispatch
  BY <1>2 DEF EndDispatch, QuietInv
<1>3. CASE processConnected \/ processDowngrade \/ processPermanent \/ handleLoggedOut
           \/ handleTemporaryBan \/ Transition
  <2>1. UNCHANGED shutVars
    BY <1>3 DEF processConnected, processDowngrade, processPermanent, handleLoggedOut,
       handleTemporaryBan, Transition
  <2>2. pc' = pc \/ \E l \in Decided \cup {"arm", "loop"} : Goto("dispatch", l)
    BY <1>3 DEF processConnected, processDowngrade, processPermanent, handleLoggedOut,
       handleTemporaryBan, Transition, Downgrading, Outcome, Decided
  <2>3. pc["dispatch"] # "ended"
    BY <1>3 DEF processConnected, processDowngrade, processPermanent, handleLoggedOut,
       handleTemporaryBan, Transition, Take, Decided
  <2>4. pc'["dispatch"] \notin {"idle", "off", "ended"} /\ \A t \in Threads : t # "dispatch" => pc'[t] = pc[t]
    BY <2>2, <2>3 DEF Decided, QuietInv
  <2> QED
    BY <2>1, <2>3, <2>4, QuietFrame DEF shutVars
<1> QED
  BY <1>1, <1>2, <1>3 DEF DispatchStep

\* Timers and the first connection.
LEMMA QuietConnect ==
  ASSUME TypeOK, QuietInv,
         (\E r \in Timers : FireTimer(r)) \/ Start \/ (\E t \in Connectors : ConnectStep(t))
  PROVE  QuietInv'
<1>1. PICK t \in Connectors : FireTimer(t) \/ (t = "start" /\ Start) \/ ConnectStep(t)
  BY DEF Connectors
<1>2. \A s \in Threads : s # t => pc'[s] = pc[s]
  <2>1. (\E l : Goto(t, l))
    BY <1>1 DEF FireTimer, Start, ConnectStep, ConnectCheck, ConnectAnnounce, ConnectDial,
       ConnectFailed, ConnectDowngrade, EndConnect
  <2> QED
    BY <2>1 DEF Goto, TypeOK
<1>3. t # "close" /\ t # "dispatch" /\ t \notin Attempts /\ t \in Threads
  BY ThreadFacts, ThreadsDisjoint DEF Connectors, Workers
<1>4. pc'["close"] = pc["close"] /\ pc'["dispatch"] = pc["dispatch"]
      /\ \A a \in Attempts : pc'[a] = pc[a]
  BY <1>2, <1>3, ThreadFacts DEF Workers
<1>5. CASE EndConnect(t)
  <2>1. /\ tracked' = tracked \ {t} /\ UNCHANGED <<closing, emitClosed>>
        /\ t \in Timers => pc'[t] = "off"
    BY <1>3, <1>5 DEF EndConnect, Goto, TypeOK
  <2> QED
    BY <1>2, <1>3, <1>4, <2>1, ThreadFacts DEF QuietInv
<1>6. CASE ~EndConnect(t)
  <2>1. UNCHANGED shutVars
    BY <1>1, <1>6 DEF FireTimer, Start, ConnectStep, ConnectCheck, ConnectAnnounce,
       ConnectDial, ConnectFailed, ConnectDowngrade
  <2>2. t \in Timers => pc[t] # "off" /\ pc'[t] \notin {"off", "idle", "ended"}
    <3> SUFFICES ASSUME t \in Timers PROVE pc[t] # "off" /\ pc'[t] \notin {"off", "idle", "ended"}
      OBVIOUS
    <3>1. t # "start"
      BY ThreadFacts DEF Workers
    <3>2. \E l \in Labels \ {"off", "idle", "ended"} : Goto(t, l)
      BY <1>1, <1>6, <3>1, LabelFacts DEF FireTimer, ConnectStep, ConnectCheck,
         ConnectAnnounce, ConnectDial, ConnectFailed, ConnectDowngrade
    <3>3. pc[t] # "off"
      BY <1>1, <1>6, <3>1 DEF FireTimer, ConnectStep, ConnectCheck, ConnectAnnounce,
         ConnectDial, ConnectFailed, ConnectDowngrade
    <3> QED
      BY <1>3, <3>2, <3>3 DEF Goto, TypeOK
  <2>3. \A r \in Timers :
          /\ pc'[r] = "off" <=> pc[r] = "off"
          /\ pc'[r] \in {"idle", "ended"} => pc[r] \in {"idle", "ended"}
    BY <1>2, <2>2, ThreadFacts
  <2> QED
    BY <1>4, <2>1, <2>3, QuietFrame DEF shutVars
<1> QED
  BY <1>5, <1>6

\* Close itself.
LEMMA QuietClose ==
  ASSUME TypeOK, QuietInv, CloseBegin \/ CloseStep
  PROVE  QuietInv'
<1>1. \A t \in Threads : t # "close" => pc'[t] = pc[t]
  <2>1. \E l : Goto("close", l)
    BY DEF CloseBegin, CloseStep, CloseStopLogin, CloseDisconnect, CloseMark, CloseChannel
  <2> QED
    BY <2>1 DEF Goto, TypeOK
<1>2. /\ pc'["dispatch"] = pc["dispatch"] /\ tracked' = tracked
      /\ \A r \in Timers : pc'[r] = pc[r]
      /\ \A a \in Attempts : pc'[a] = pc[a]
  BY <1>1, ThreadFacts
  DEF Workers, CloseBegin, CloseStep, CloseStopLogin, CloseDisconnect, CloseMark,
      CloseChannel, shutVars
<1> USE ThreadFacts DEF Goto, TypeOK, Workers
<1>3. CASE CloseBegin \/ CloseStopLogin \/ CloseDisconnect
  <2>1. pc'["close"] \notin {"wait", "ended"} /\ UNCHANGED <<closing, emitClosed>>
    BY <1>3 DEF CloseBegin, CloseStopLogin, CloseDisconnect, shutVars
  <2> QED
    BY <1>2, <2>1, QuietFrame
<1>4. CASE CloseMark
  BY <1>2, <1>4 DEF CloseMark, QuietInv
<1>5. CASE CloseChannel
  BY <1>2, <1>5 DEF CloseChannel, QuietInv
<1> QED
  BY <1>3, <1>4, <1>5 DEF CloseStep

\* Every step keeps the shutdown's invariant.
LEMMA QuietStep == TypeOK /\ QuietInv /\ [Next]_vars => QuietInv'
<1> SUFFICES ASSUME TypeOK, QuietInv, [Next]_vars PROVE QuietInv'
  OBVIOUS
<1>1. CASE UNCHANGED vars
  BY <1>1, QuietFrame DEF vars, shutVars
<1>2. CASE (\E t \in Threads : CallCancel(t) \/ Emit(t)) \/ Pump \/ CancelLogin \/ Whatsmeow
  <2>1. UNCHANGED <<pc, shutVars>>
    BY <1>2 DEF CallCancel, Emit, Pump, CancelLogin, Whatsmeow, handleEvent, AutoReconnect,
       PairDevice
  <2> QED
    BY <2>1, QuietFrame DEF shutVars
<1>3. CASE StartLogout \/ LogoutStep
  <2>1. UNCHANGED shutVars /\ \E l : Goto("logout", l)
    BY <1>3 DEF StartLogout, LogoutStep, Unlink, FinishLogout
  <2>2. \A t \in Threads : t # "logout" => pc'[t] = pc[t]
    BY <2>1 DEF Goto, TypeOK
  <2>3. /\ pc'["close"] = pc["close"] /\ pc'["dispatch"] = pc["dispatch"]
        /\ \A r \in Timers : pc'[r] = pc[r]
        /\ \A a \in Attempts : pc'[a] = pc[a]
    BY <2>2, ThreadFacts, ThreadsDisjoint DEF Workers
  <2> QED
    BY <2>1, <2>3, QuietFrame DEF shutVars
<1>4. CASE Next
  BY <1>1, <1>2, <1>3, <1>4, QuietLogin, QuietDispatch, QuietConnect, QuietClose
  DEF Next, Finished
<1> QED
  BY <1>1, <1>4

\* Once Close has begun, the context of every login is done.
ContextsDone == done => \A a \in Attempts : gen[a] # 0 => a \in cancelled

\* Close cancels the contexts there are, a login that starts afterwards derives its own from
\* one that is done, and no step takes a cancellation back.
LEMMA ContextsStep == TypeOK /\ ContextsDone /\ [Next]_vars => ContextsDone'
<1> SUFFICES ASSUME TypeOK, ContextsDone, [Next]_vars PROVE ContextsDone'
  OBVIOUS
<1>1. CASE CloseBegin
  BY <1>1 DEF CloseBegin, ContextsDone
<1>2. ASSUME NEW a \in Attempts, StartLogin(a) PROVE ContextsDone'
  BY <1>2 DEF StartLogin, ContextsDone, shutVars, TypeOK
<1>3. ASSUME done' = done, gen' = gen, cancelled \subseteq cancelled' PROVE ContextsDone'
  BY <1>3 DEF ContextsDone
<1>4. CASE UNCHANGED vars
  BY <1>3, <1>4 DEF vars, shutVars, loginVars
<1>5. ASSUME NEW a \in Attempts, LoginStep(a) \/ \E item \in QRItems : handleQRItem(a, item)
      PROVE  ContextsDone'
  BY <1>3, <1>5
  DEF LoginStep, rebuildClient, DropSocket, GetQRChannel, AnnounceLogin, ConnectLogin,
      SpawnConsumer, goTracked, LeaveCancelled, Conclude, StopOwnLogin, stopLoginGen, ReleaseSlot,
      EndLogin, handleQRItem, shutVars, loginVars
<1>6. CASE CancelLogin \/ StartLogout \/ LogoutStep
  BY <1>3, <1>6
  DEF CancelLogin, StartLogout, LogoutStep, Unlink, FinishLogout, stopLogin, ReleaseSlot, shutVars,
      loginVars
<1>7. CASE DispatchStep
  BY <1>3, <1>7
  DEF DispatchStep, processConnected, processDowngrade, processPermanent, handleLoggedOut,
      handleTemporaryBan, Transition, scheduleBanRecovery, goTracked, EndDispatch, shutVars, loginVars
<1>8. CASE (\E r \in Timers : FireTimer(r)) \/ Start \/ \E t \in Connectors : ConnectStep(t)
  BY <1>3, <1>8
  DEF FireTimer, Start, ConnectStep, ConnectCheck, ConnectAnnounce, ConnectDial, ConnectFailed,
      ConnectDowngrade, EndConnect, shutVars, loginVars
<1>9. CASE CloseStep
  BY <1>3, <1>9
  DEF CloseStep, CloseStopLogin, CloseDisconnect, CloseMark, CloseChannel, stopLogin, ReleaseSlot,
      shutVars, loginVars
<1>10. CASE (\E t \in Threads : CallCancel(t) \/ Emit(t)) \/ Pump \/ Whatsmeow
  BY <1>3, <1>10
  DEF CallCancel, Emit, Pump, Whatsmeow, handleEvent, AutoReconnect, PairDevice, shutVars, loginVars
<1> QED
  BY <1>1, <1>2, <1>4, <1>5, <1>6, <1>7, <1>8, <1>9, <1>10 DEF Next, Finished

\* Whatever runs when Close begins or starts meanwhile: its context is done, Close waits only
\* for goroutines that run, and none of them outlives it.
THEOREM ShutdownCorrect == Spec => []ShutdownQuiet
<1>1. TypeOK /\ QuietInv /\ ContextsDone => ShutdownQuiet
  <2> SUFFICES ASSUME TypeOK, QuietInv, ContextsDone PROVE ShutdownQuiet
    OBVIOUS
  <2>1. \A t \in tracked : pc[t] \notin {"idle", "off", "ended"}
    <3> SUFFICES ASSUME NEW t \in tracked PROVE pc[t] \notin {"idle", "off", "ended"}
      OBVIOUS
    <3>1. CASE t = "dispatch"
      BY <3>1 DEF QuietInv
    <3>2. CASE t \in Timers
      BY <3>2 DEF QuietInv
    <3>3. CASE t \in Attempts
      BY <3>3 DEF QuietInv, Consuming, Concluding
    <3> QED
      BY <3>1, <3>2, <3>3 DEF QuietInv
  <2> QED
    BY <2>1 DEF QuietInv, Consuming, ContextsDone, ShutdownQuiet
<1>2. Init => ContextsDone
  BY DEF Init, ContextsDone
<1> QED
  BY <1>1, <1>2, TypeInit, TypeStep, QuietInit, QuietStep, ContextsStep, PTL DEF Spec

-----------------------------------------------------------------------------
(* Bans and replaced streams                                               *)

\* Threads other than the dispatcher never set the two states, and leave it where it is.
LEMMA BanOthers ==
  ASSUME TypeOK, Next, ~DispatchStep
  PROVE  pc'["dispatch"] = pc["dispatch"] /\ state' \in {state} \cup (States \ {"banned", "stream_replaced"})
<1> USE ThreadFacts, ThreadsDisjoint DEF TypeOK, Goto, Workers, setState, Publish, States
<1>1. CASE (\E t \in Threads : CallCancel(t) \/ Emit(t)) \/ Pump \/ CancelLogin \/ Whatsmeow
  BY <1>1 DEF CallCancel, Emit, Pump, CancelLogin, Whatsmeow, handleEvent, AutoReconnect,
     PairDevice
<1>2. ASSUME NEW a \in Attempts, StartLogin(a) \/ LoginStep(a)
      PROVE  pc'["dispatch"] = pc["dispatch"] /\ state' \in {state, "connecting", "connected", "outdated"}
  <2>1. (\E l : Goto(a, l)) /\ state' \in {state, "connecting", "connected", "outdated"}
    BY <1>2 DEF LoginStep, StartLogin, rebuildClient, DropSocket, GetQRChannel, AnnounceLogin,
       ConnectLogin, SpawnConsumer, LeaveCancelled, Conclude, StopOwnLogin, EndLogin
  <2> QED
    BY <2>1
<1>3. ASSUME NEW a \in Attempts, NEW item \in QRItems, handleQRItem(a, item)
      PROVE  pc'["dispatch"] = pc["dispatch"] /\ state' = state
  BY <1>3 DEF handleQRItem
<1>4. CASE StartLogout \/ LogoutStep
  BY <1>4 DEF StartLogout, LogoutStep, Unlink, FinishLogout
<1>5. CASE Start
  BY <1>5 DEF Start
<1>6. ASSUME NEW r \in Timers, FireTimer(r)
      PROVE  pc'["dispatch"] = pc["dispatch"] /\ state' = state
  BY <1>6 DEF FireTimer
<1>7. ASSUME NEW t \in Connectors, ConnectStep(t)
      PROVE  pc'["dispatch"] = pc["dispatch"] /\ state' \in {state, "connecting", "disconnected"}
  <2>1. (\E l : Goto(t, l)) /\ state' \in {state, "connecting", "disconnected"}
    BY <1>7 DEF ConnectStep, ConnectCheck, ConnectAnnounce, ConnectDial, ConnectFailed,
       ConnectDowngrade, EndConnect
  <2>2. t # "dispatch"
    BY DEF Connectors
  <2> QED
    BY <2>1, <2>2
<1>8. CASE CloseBegin \/ CloseStep
  BY <1>8 DEF CloseBegin, CloseStep, CloseStopLogin, CloseDisconnect, CloseMark, CloseChannel
<1>9. CASE Finished
  BY <1>9 DEF Finished, vars
<1> QED
  BY <1>1, <1>2, <1>3, <1>4, <1>5, <1>6, <1>7, <1>8, <1>9 DEF Next

\* Every step keeps a ban or a replaced stream safe from a decided transition.
LEMMA BanStep ==
  TypeOK /\ BanSurvivesDisconnect /\ [Next]_vars => BanSurvivesDisconnect'
<1> SUFFICES ASSUME TypeOK, BanSurvivesDisconnect, [Next]_vars
             PROVE  BanSurvivesDisconnect'
  OBVIOUS
<1> USE DEF BanSurvivesDisconnect
<1>1. CASE UNCHANGED vars
  BY <1>1 DEF vars
<1>2. CASE Next /\ ~DispatchStep
  BY <1>2, BanOthers
<1>3. CASE DispatchStep
  <2> USE ThreadFacts DEF TypeOK, Goto, Workers
  <2>1. CASE processDowngrade
    BY <2>1 DEF processDowngrade, isTerminal
  <2>2. CASE processConnected \/ processPermanent \/ handleTemporaryBan \/ handleLoggedOut
    BY <2>2 DEF processConnected, processPermanent, handleTemporaryBan, handleLoggedOut, Take,
       setState, Publish
  <2>3. CASE Transition \/ scheduleBanRecovery \/ EndDispatch
    BY <2>3 DEF Transition, scheduleBanRecovery, EndDispatch
  <2> QED
    BY <1>3, <2>1, <2>2, <2>3 DEF DispatchStep
<1> QED
  BY <1>1, <1>2, <1>3

\* A Disconnected or keep-alive event never lifts a ban or a replaced stream, although the
\* check and the transition are two steps.
THEOREM BanCorrect == Spec => []BanSurvivesDisconnect
<1>1. Init => BanSurvivesDisconnect
  BY DEF Init, BanSurvivesDisconnect
<1> QED
  BY <1>1, TypeInit, TypeStep, BanStep, PTL DEF Spec

=============================================================================
