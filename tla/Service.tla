------------------------------ MODULE Service ------------------------------
(***************************************************************************)
(* The Service as a whole: logins, the dispatcher, Connect and Close       *)
(* interleaved, and what must hold of them.                                *)
(***************************************************************************)
EXTENDS Login, Dispatcher

\* New: a device without a session is announced as needs_pairing; main.go then calls
\* Start.  The dispatcher is running and counted.
Init ==
  /\ device \in Devices
  /\ state = IF device = "unpaired" THEN "needs_pairing" ELSE "disconnected"
  /\ ipcEvents = IF device = "unpaired" THEN 1 ELSE 0
  /\ client = "down"
  /\ inbox = <<>>
  /\ outbox = [t \in Threads |-> <<>>]
  /\ loginActive = FALSE /\ loginGen = 0 /\ loginCancel = NoAttempt
  /\ gen = [a \in Attempts |-> 0]
  /\ cancelled = {}
  /\ cancelling = [t \in Threads |-> NoAttempt]
  /\ pc = [t \in Threads |-> IF t \in Timers THEN "off"
                             ELSE IF t = "dispatch" THEN "loop"
                             ELSE IF t = "start" THEN "boot" ELSE "idle"]
  /\ done = FALSE /\ closing = FALSE /\ emitClosed = FALSE
  /\ tracked = {"dispatch"}
  /\ budget = [events |-> MaxEvents, cancels |-> MaxCancels, logouts |-> MaxLogouts,
               codes |-> [a \in Attempts |-> MaxCodes]]

-----------------------------------------------------------------------------
(* Close                                                                   *)

\* close(s.done), then s.cancel(): the contexts of all logins derive from s.ctx.
CloseBegin ==
  /\ pc["close"] = "idle" /\ MaxCloses > 0
  /\ done' = TRUE
  /\ cancelled' = {a \in Attempts : gen[a] # 0} \cup cancelled
  /\ Goto("close", "stop")
  /\ UNCHANGED <<state, netVars, ipcEvents, outbox, loginActive, loginGen, loginCancel, gen,
                 cancelling, closing, emitClosed, tracked, budget>>

CloseStopLogin ==
  /\ pc["close"] = "stop" /\ Ready("close")
  /\ stopLogin("close")
  /\ Goto("close", "disconnect")
  /\ UNCHANGED <<state, netVars, ipcEvents, outbox, shutVars, budget>>

CloseDisconnect ==
  /\ pc["close"] = "disconnect" /\ Ready("close")
  /\ client' = "down"
  /\ Goto("close", "mark")
  /\ UNCHANGED <<state, device, inbox, ipcEvents, outbox, loginVars, shutVars, budget>>

CloseMark ==
  /\ pc["close"] = "mark"
  /\ closing' = TRUE
  /\ Goto("close", "wait")
  /\ UNCHANGED <<state, netVars, ipcEvents, outbox, loginVars, done, emitClosed, tracked, budget>>

\* wg.Wait returned: mark the channel closed, then close it, under emitMu.
CloseChannel ==
  /\ pc["close"] = "wait"
  /\ tracked = {}
  /\ emitClosed' = TRUE
  /\ Goto("close", "ended")
  /\ UNCHANGED <<state, netVars, ipcEvents, outbox, loginVars, done, closing, tracked, budget>>

CloseStep == CloseStopLogin \/ CloseDisconnect \/ CloseMark \/ CloseChannel

\* After Close every thread has come to rest and the pump has drained the channel.
Finished ==
  /\ pc["close"] = "ended" /\ pc["start"] = "ended" /\ pc["logout"] = "idle"
  /\ \A t \in Threads : Ready(t)
  /\ \A a \in Attempts : pc[a] \in {"idle", "ended"}
  /\ ipcEvents = 0
  /\ UNCHANGED vars

Whatsmeow ==
  \/ \E k \in Kinds : handleEvent(k)
  \/ AutoReconnect
  \/ PairDevice

Next ==
  \/ \E t \in Threads : CallCancel(t) \/ Emit(t)
  \/ Pump
  \/ \E a \in Attempts : StartLogin(a) \/ LoginStep(a)
  \/ \E a \in Attempts, item \in QRItems : handleQRItem(a, item)
  \/ CancelLogin
  \/ StartLogout \/ LogoutStep
  \/ DispatchStep
  \/ \E r \in Timers : FireTimer(r)
  \/ Start
  \/ \E t \in Connectors : ConnectStep(t)
  \/ CloseBegin \/ CloseStep
  \/ Whatsmeow
  \/ Finished

Spec == Init /\ [][Next]_vars

\* The scheduler runs every goroutine that can go on, timers fire, and whatsmeow ends
\* every QR channel with a last item (the codes it was given run out).  Nobody has to start or cancel a
\* login, log out, close the service or raise an event.
Fairness ==
  /\ \A t \in Threads : WF_vars(CallCancel(t)) /\ WF_vars(Emit(t))
  /\ WF_vars(Pump)
  /\ \A a \in Attempts : WF_vars(LoginStep(a)) /\ WF_vars(\E i \in LastItems : handleQRItem(a, i))
  /\ WF_vars(LogoutStep)
  /\ WF_vars(DispatchStep)
  /\ \A r \in Timers : WF_vars(FireTimer(r))
  /\ WF_vars(Start)
  /\ \A t \in Connectors : WF_vars(ConnectStep(t))
  /\ WF_vars(CloseStep)

FairSpec == Spec /\ Fairness

-----------------------------------------------------------------------------
(* Invariants                                                              *)

Labels ==
  InFlight \cup Decided
    \cup {"idle", "exit", "ended", "off", "armed", "boot", "check", "dial", "failed",
          "loop", "arm", "unlink", "disconnect", "mark", "wait"}

TypeOK ==
  /\ state \in States
  /\ device \in {"unpaired", "paired", "deleted"}
  /\ client \in {"down", "up", "authenticated"}
  /\ inbox \in Seq(Kinds) /\ ipcEvents \in 0..IpcCap
  /\ outbox \in [Threads -> Seq(Names)]
  /\ loginActive \in BOOLEAN /\ loginGen \in Nat /\ loginCancel \in Optional
  /\ gen \in [Attempts -> Nat]
  /\ cancelled \subseteq Attempts
  /\ cancelling \in [Threads -> Optional]
  /\ pc \in [Threads -> Labels]
  /\ done \in BOOLEAN /\ closing \in BOOLEAN /\ emitClosed \in BOOLEAN
  /\ tracked \subseteq Threads
  /\ budget \in [events : Nat, cancels : Nat, logouts : Nat, codes : [Attempts -> Nat]]

\* login_in_progress always has a reason: the slot is taken exactly while the login
\* whose cancel function it holds still has its own clean-up ahead, with a generation
\* that clean-up will recognise.  Were it otherwise, every later auth.start would be
\* refused for good.
SlotOwned ==
  /\ loginActive <=> loginCancel # NoAttempt
  /\ loginActive => pc[loginCancel] \in InFlight /\ gen[loginCancel] = loginGen

\* A login that lost the slot does not live on beside its successor: its context is
\* cancelled, or the thread that took its cancel function is about to call it.
LoserCancelled ==
  \A a \in Attempts :
    gen[a] # 0 /\ a # loginCancel => a \in cancelled \/ \E t \in Threads : cancelling[t] = a

\* Close waits for nobody in vain and leaves nobody behind.  Once it has begun, the context of
\* every login is done, of one that starts or takes the slot meanwhile too; whoever is counted
\* still runs, so it will say that it ends; and when the event channel is closed no goroutine
\* that should have been waited for runs, none started behind wg.Wait's back included.
ShutdownQuiet ==
  /\ done => \A a \in Attempts : gen[a] # 0 => a \in cancelled
  /\ \A t \in tracked : pc[t] \notin {"idle", "off", "ended"}
  /\ emitClosed =>
       /\ pc["dispatch"] = "ended"
       /\ \A r \in Timers : pc[r] = "off"
       /\ \A a \in Attempts : pc[a] \notin Concluding \cup {"consume"}

\* A Disconnected or keep-alive event never lifts a ban or a replaced stream, although
\* its check and its transition are separate steps: only the dispatcher sets these two
\* states, and it is the thread that would make the transition.
BanSurvivesDisconnect ==
  state \in {"banned", "stream_replaced"} =>
    pc["dispatch"] \notin {"disconnected", "connecting", "connected"}

-----------------------------------------------------------------------------
(* Action properties                                                       *)

\* The slot is taken from a login by that login's own clean-up or by a user's cancel,
\* logout or shutdown; the late clean-up of another login never clears it.
SlotGivenUp ==
  \A a \in Attempts : loginCancel = a /\ loginCancel' # a =>
    \/ pc[a] = "stop" /\ pc'[a] = "exit"
    \/ \E t \in {"auth.cancel", "logout", "close"} : cancelling'[t] = a
NoTheft == [][SlotGivenUp]_vars

\* What auth.start promises its callers (module LoginSlot): one login at a time, and a
\* login that lost the slot never gets it back.
Slot == INSTANCE LoginSlot WITH
  holder <- loginCancel,
  served <- {a \in Attempts : gen[a] # 0 /\ a # loginCancel}
OneLoginAtATime == Slot!Spec

-----------------------------------------------------------------------------
(* Liveness                                                                *)

\* Time-out, cancellation and failure free auth.start for another attempt: no login
\* keeps the slot for ever.
LoginEnds == \A a \in Attempts : loginCancel = a ~> loginCancel # a

\* Close terminates whatever was running when it began.
CloseTerminates == done ~> emitClosed

\* A ban with an expiry is not final: the service leaves the banned state by itself,
\* unless the session is gone or the service is closing.  (For instances in which every
\* ban has an expiry.)
BanRecovered == state = "banned" ~> state # "banned" \/ device # "paired" \/ done

\* A handler that found the inbox full is not blocked for good: the dispatcher, which
\* may be waiting for room among the events to publish, gets to the next event.
HandlerUnblocked == Len(inbox) = InboxCap ~> Len(inbox) < InboxCap \/ done

=============================================================================
