---------------------------- MODULE ServiceState ----------------------------
(***************************************************************************)
(* The state of the daemon's Service (internal/whatsapp/service.go) and    *)
(* what its threads share: setState and emit, the login slot, goTracked.   *)
(* Login has the threads of auth.go, Dispatcher those of events.go and     *)
(* Connect, Service composes them with Close.                              *)
(*                                                                         *)
(* Every goroutine that runs Service code is a thread with a program       *)
(* counter.  A thread that has events to publish holds them in outbox and  *)
(* does nothing else until each was sent, and a thread that took a login's *)
(* cancel function out of the slot holds it in cancelling until it called  *)
(* it, which is after loginMu was released.                                *)
(*                                                                         *)
(* whatsmeow is external: the client's socket, the device's session and    *)
(* the QR channel behave as the daemon's use of them allows.               *)
(***************************************************************************)
EXTENDS Naturals, Sequences, FiniteSets

CONSTANTS
  Attempts,     \* calls of StartLogin that acquire the slot, each with its later QR consumer
  NoAttempt,    \* nil: no login's cancel function
  Timers,       \* goroutines scheduleBanRecovery can have running at once
  Devices,      \* what the session store can hold when the daemon starts
  Kinds,        \* the whatsmeow events that occur
  InboxCap,     \* capacity of Service.inbox (eventBufferSize in the code)
  IpcCap,       \* capacity of Service.ipcEvents
  MaxEvents,    \* bound: whatsmeow events delivered
  MaxCancels,   \* bound: calls of CancelLogin
  MaxLogouts,   \* bound: calls of Logout
  MaxCodes,     \* bound: QR codes whatsmeow shows in one login
  MaxCloses     \* bound: calls of Close, 0 or 1 (closeOnce)

EventKinds ==
  {"connected", "disconnected", "keepalive_timeout", "keepalive_restored",
   "logged_out", "refused", "stream_replaced", "client_outdated", "ban", "ban_timed"}

Workers == {"dispatch", "start", "logout", "close", "auth.cancel"}

ASSUME ThreadsDisjoint ==
  /\ NoAttempt \notin Attempts
  /\ Attempts \cap Timers = {}
  /\ (Attempts \cup Timers) \cap Workers = {}
ASSUME BoundsAreNatural ==
  /\ Kinds \subseteq EventKinds /\ Devices \subseteq {"unpaired", "paired"}
  /\ InboxCap \in Nat \ {0} /\ IpcCap \in Nat \ {0}
  /\ MaxEvents \in Nat /\ MaxCancels \in Nat /\ MaxLogouts \in Nat /\ MaxCodes \in Nat
  /\ MaxCloses \in {0, 1}

Threads == Attempts \cup Timers \cup Workers
Connectors == Timers \cup {"start"}     \* the threads that call Service.Connect
Optional == Attempts \cup {NoAttempt}

States ==
  {"disconnected", "connecting", "connected", "needs_pairing", "logged_out",
   "banned", "outdated", "stream_replaced"}

Names == {"auth.qr", "auth.connected", "auth.disconnected", "auth.error",
          "connection.updated"}

QRItems == {"code", "success", "failed", "outdated", "closed"}
LastItems == QRItems \ {"code"}

VARIABLES
  state,        \* Service.state
  device,       \* the current device: never paired, holding a session, or deleted
  client,       \* the current client's socket: down, up, or up and authenticated
  inbox,        \* Service.inbox: classified events waiting for the dispatcher
  ipcEvents,    \* Service.ipcEvents: how many events wait for the pump of main.go
  outbox,       \* outbox[t]: events thread t still has to emit
  loginActive, loginGen, loginCancel,   \* the login slot, guarded by loginMu
  gen,          \* gen[a]: the generation login a was started with, 0 before that
  cancelled,    \* logins whose context is cancelled
  cancelling,   \* cancelling[t]: the login whose cancel function t is about to call
  pc,           \* what each thread does next
  done, closing, emitClosed,   \* Close's flags: s.done, s.closing, s.emitClosed
  tracked,      \* threads counted in s.wg
  budget        \* what is left of the bounds

loginVars == <<loginActive, loginGen, loginCancel, gen, cancelled, cancelling>>
netVars == <<device, client, inbox>>
shutVars == <<done, closing, emitClosed, tracked>>
vars == <<state, netVars, ipcEvents, outbox, loginVars, pc, shutVars, budget>>

-----------------------------------------------------------------------------
(* Helpers                                                                 *)

isTerminal == state \in {"banned", "outdated", "stream_replaced", "needs_pairing", "logged_out"}

\* A thread goes on once it sent its events and called the cancel function it took.
Ready(t) == outbox[t] = <<>> /\ cancelling[t] = NoAttempt

Goto(t, l) == pc' = [pc EXCEPT ![t] = l]

\* setState(next) by thread t: the state changes at once, connection.updated (and the
\* events the caller emits when setState returned true) are still to be sent; the events
\* in `always` follow in either case.
setState(t, next, whenChanged, always) ==
  /\ state' = next
  /\ outbox' = [outbox EXCEPT ![t] =
       (IF state = next THEN <<>> ELSE <<"connection.updated">> \o whenChanged) \o always]

Publish(t, events) == outbox' = [outbox EXCEPT ![t] = events] /\ UNCHANGED state

\* Wrong variant: the cancel function is dropped with the slot.
ReleaseSlot_CancelLost(t) ==
  loginActive' = FALSE /\ loginCancel' = NoAttempt /\ UNCHANGED <<gen, cancelled, cancelling>>

\* The body stopLogin, stopLoginGen and CancelLogin share: clear the slot and take the
\* cancel function out of it.  It is called after loginMu was released.
ReleaseSlot(t) ==
  /\ loginActive' = FALSE
  /\ loginCancel' = NoAttempt
  /\ cancelling' = [cancelling EXCEPT ![t] = loginCancel]
  /\ UNCHANGED <<gen, cancelled>>

\* Wrong variant: closing is not looked at.
goTracked_WhileClosing(t) == tracked' = tracked \cup {t}

\* goTracked: registers the thread with s.wg unless Close has marked the service.
goTracked(t) == ~closing /\ tracked' = tracked \cup {t}

stopLogin(t) == loginGen' = loginGen + 1 /\ ReleaseSlot(t)

\* Wrong variant: the clean-up releases the slot whoever holds it.
stopLoginGen_AnyGeneration(a) == ReleaseSlot(a) /\ UNCHANGED loginGen

stopLoginGen(a) ==
  \/ loginGen = gen[a] /\ ReleaseSlot(a) /\ UNCHANGED loginGen
  \/ loginGen # gen[a] /\ UNCHANGED loginVars

\* cancel(): the login's context is done from here on.
CallCancel(t) ==
  /\ cancelling[t] # NoAttempt
  /\ cancelled' = cancelled \cup {cancelling[t]}
  /\ cancelling' = [cancelling EXCEPT ![t] = NoAttempt]
  /\ UNCHANGED <<state, netVars, ipcEvents, outbox, loginActive, loginGen, loginCancel,
                 gen, pc, shutVars, budget>>

\* Wrong variant: the capacity of the channel is not respected.
Emit_Unbounded(t) ==
  /\ outbox[t] # <<>>
  /\ ipcEvents' = ipcEvents + 1
  /\ outbox' = [outbox EXCEPT ![t] = Tail(@)]
  /\ UNCHANGED <<state, netVars, loginVars, pc, shutVars, budget>>

\* emit: blocks while the channel is full, gives up once Close ran.
Emit(t) ==
  /\ outbox[t] # <<>>
  /\ \/ ~emitClosed /\ ipcEvents < IpcCap /\ ipcEvents' = ipcEvents + 1
     \/ (emitClosed \/ done) /\ UNCHANGED ipcEvents
  /\ outbox' = [outbox EXCEPT ![t] = Tail(@)]
  /\ UNCHANGED <<state, netVars, loginVars, pc, shutVars, budget>>

\* Wrong variant: the pump waits for the senders, as if they shared a lock.
Pump_AfterSenders ==
  /\ ipcEvents > 0 /\ \A t \in Threads : outbox[t] = <<>>
  /\ ipcEvents' = ipcEvents - 1
  /\ UNCHANGED <<state, netVars, outbox, loginVars, pc, shutVars, budget>>

\* pump: main.go ranges over the channel until Close closed and drained it.
Pump ==
  /\ ipcEvents > 0
  /\ ipcEvents' = ipcEvents - 1
  /\ UNCHANGED <<state, netVars, outbox, loginVars, pc, shutVars, budget>>

=============================================================================
