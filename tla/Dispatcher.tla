----------------------------- MODULE Dispatcher -----------------------------
(***************************************************************************)
(* The connection state machine: whatsmeow events, their dispatcher        *)
(* (internal/whatsapp/events.go), Connect and its callers (service.go).    *)
(*                                                                         *)
(* The check of a terminal state and the transition it guards are separate *)
(* steps: stateMu is released between them and Logout, a login's consumer  *)
(* and the other connectors set the state too.                             *)
(***************************************************************************)
EXTENDS ServiceState

\* A transition a thread has decided on and not made yet is where its pc stands.
Decided == {"disconnected", "connecting", "connected", "needs_pairing"}

\* What an event makes of the state, where that is a plain setState.
Outcome ==
  [connected |-> "connected", stream_replaced |-> "stream_replaced",
   client_outdated |-> "outdated", ban |-> "banned", ban_timed |-> "banned",
   disconnected |-> "disconnected", keepalive_timeout |-> "connecting",
   keepalive_restored |-> "connected",
   logged_out |-> "needs_pairing", refused |-> "needs_pairing"]

Downgrading == {"disconnected", "keepalive_timeout", "keepalive_restored"}

-----------------------------------------------------------------------------
(* whatsmeow, external: which events a socket can raise and what becomes   *)
(* of the socket, and the library's own reconnection                       *)

CanRaise(k) ==
  CASE k = "connected"     -> client = "up" /\ device = "paired"
    [] k = "refused"       -> client = "up" /\ device = "paired"
    [] k \in {"keepalive_timeout", "keepalive_restored", "stream_replaced",
              "logged_out"} -> client = "authenticated"
    [] k \in {"ban", "ban_timed"} -> client # "down" /\ device = "paired"
    [] OTHER               -> client # "down"

SocketAfter(k) ==
  CASE k = "connected" -> "authenticated"
    [] k \in {"keepalive_timeout", "keepalive_restored"} -> client
    [] OTHER -> "down"

\* Bans being timed or about to be: each needs a goroutine of its own.
BansPending ==
  Cardinality({i \in DOMAIN inbox : inbox[i] = "ban_timed"})
    + Cardinality({r \in Timers : pc[r] # "off"})
    + IF pc["dispatch"] = "arm" THEN 1 ELSE 0

\* handleEvent: classify and enqueue, waiting for room.  Once Close ran nothing reads
\* the queue, and the event is dropped.
handleEvent(k) ==
  /\ budget.events > 0 /\ ~done
  /\ CanRaise(k) /\ Len(inbox) < InboxCap
  /\ k = "ban_timed" => BansPending < Cardinality(Timers)
  /\ inbox' = Append(inbox, k)
  /\ client' = SocketAfter(k)
  /\ budget' = [budget EXCEPT !.events = @ - 1]
  /\ UNCHANGED <<state, device, ipcEvents, outbox, loginVars, pc, shutVars>>

AutoReconnect ==
  /\ client = "down" /\ device = "paired" /\ ~done /\ budget.events > 0
  /\ client' = "up"
  /\ UNCHANGED <<state, device, inbox, ipcEvents, outbox, loginVars, pc, shutVars, budget>>

-----------------------------------------------------------------------------
(* dispatchLoop and process                                                *)

Take(k) ==
  /\ pc["dispatch"] = "loop" /\ Ready("dispatch")
  /\ inbox # <<>> /\ Head(inbox) = k
  /\ inbox' = Tail(inbox)

processConnected ==
  /\ Take("connected")
  /\ setState("dispatch", "connected", <<"auth.connected">>, <<>>)
  /\ UNCHANGED <<device, client, ipcEvents, loginVars, pc, shutVars, budget>>

\* Wrong variant: the terminal states are not respected.
processDowngrade_Always ==
  /\ \E k \in Downgrading : Take(k) /\ Goto("dispatch", Outcome[k])
  /\ UNCHANGED <<state, device, client, ipcEvents, outbox, loginVars, shutVars, budget>>

\* Disconnected and the keep-alive events: nothing in a terminal state.
processDowngrade ==
  /\ \E k \in Downgrading :
       /\ Take(k)
       /\ IF isTerminal THEN UNCHANGED pc ELSE Goto("dispatch", Outcome[k])
  /\ UNCHANGED <<state, device, client, ipcEvents, outbox, loginVars, shutVars, budget>>

processPermanent ==
  /\ \E k \in {"stream_replaced", "client_outdated"} :
       Take(k) /\ setState("dispatch", Outcome[k], <<>>, <<>>)
  /\ UNCHANGED <<device, client, ipcEvents, loginVars, pc, shutVars, budget>>

\* handleLoggedOut: the session of the current client is deleted (the deletion can
\* fail, and is a no-op without one) before the transition.
handleLoggedOut ==
  /\ \E k \in {"logged_out", "refused"} : Take(k)
  /\ device' \in IF device = "paired" THEN {"paired", "deleted"} ELSE {device}
  /\ Publish("dispatch", <<"auth.disconnected">>)
  /\ Goto("dispatch", "needs_pairing")
  /\ UNCHANGED <<client, ipcEvents, loginVars, shutVars, budget>>

\* handleTemporaryBan; a ban with an expiry also starts a recovery timer.
handleTemporaryBan ==
  /\ \E k \in {"ban", "ban_timed"} :
       /\ Take(k)
       /\ setState("dispatch", "banned", <<>>, <<>>)
       /\ IF k = "ban_timed" THEN Goto("dispatch", "arm") ELSE UNCHANGED pc
  /\ UNCHANGED <<device, client, ipcEvents, loginVars, shutVars, budget>>

\* The transition processDowngrade or handleLoggedOut decided on.
Transition ==
  /\ pc["dispatch"] \in Decided /\ Ready("dispatch")
  /\ setState("dispatch", pc["dispatch"],
              IF pc["dispatch"] = "disconnected" THEN <<"auth.disconnected">> ELSE <<>>, <<>>)
  /\ Goto("dispatch", "loop")
  /\ UNCHANGED <<netVars, ipcEvents, loginVars, shutVars, budget>>

scheduleBanRecovery ==
  /\ pc["dispatch"] = "arm" /\ Ready("dispatch")
  /\ \/ \E r \in Timers : pc[r] = "off" /\ goTracked(r)
                          /\ pc' = [pc EXCEPT !["dispatch"] = "loop", ![r] = "armed"]
     \/ closing /\ Goto("dispatch", "loop") /\ UNCHANGED tracked
  /\ UNCHANGED <<state, netVars, ipcEvents, outbox, loginVars, done, closing, emitClosed, budget>>

\* dispatchLoop returns once s.done is closed; events still queued are left.
EndDispatch ==
  /\ pc["dispatch"] = "loop" /\ Ready("dispatch") /\ done
  /\ Goto("dispatch", "ended")
  /\ tracked' = tracked \ {"dispatch"}
  /\ UNCHANGED <<state, netVars, ipcEvents, outbox, loginVars, done, closing, emitClosed, budget>>

-----------------------------------------------------------------------------
(* Ban recovery timers, and Connect                                        *)

\* The timer fires (or Close stops it): only a ban that still stands is recovered.
FireTimer(r) ==
  /\ pc[r] = "armed"
  /\ \/ Goto(r, IF state = "banned" THEN "check" ELSE "exit")
     \/ done /\ Goto(r, "exit")
  /\ UNCHANGED <<state, netVars, ipcEvents, outbox, loginVars, shutVars, budget>>

\* Start: without a session there is nothing to connect; with one, Connect runs in a
\* goroutine of its own that s.wg does not count.
Start ==
  /\ pc["start"] = "boot" /\ Ready("start")
  /\ \/ device = "paired" /\ Goto("start", "check") /\ UNCHANGED <<state, outbox>>
     \/ device # "paired" /\ Goto("start", "exit") /\ setState("start", "needs_pairing", <<>>, <<>>)
  /\ UNCHANGED <<netVars, ipcEvents, loginVars, shutVars, budget>>

\* Wrong variant: Connect refuses to leave a terminal state, the expired ban included.
ConnectCheck_NotWhenTerminal(t) ==
  /\ pc[t] = "check"
  /\ Goto(t, IF device = "paired" /\ ~isTerminal THEN "announce" ELSE "exit")
  /\ UNCHANGED <<state, netVars, ipcEvents, outbox, loginVars, shutVars, budget>>

\* Connect, step by step: no usable session, or on to connecting.
ConnectCheck(t) ==
  /\ pc[t] = "check"
  /\ Goto(t, IF device = "paired" THEN "announce" ELSE "exit")
  /\ UNCHANGED <<state, netVars, ipcEvents, outbox, loginVars, shutVars, budget>>

ConnectAnnounce(t) ==
  /\ pc[t] = "announce"
  /\ setState(t, "connecting", <<>>, <<>>)
  /\ Goto(t, "dial")
  /\ UNCHANGED <<netVars, ipcEvents, loginVars, shutVars, budget>>

\* client.Connect, external: fails when the network does and on a connected client.
ConnectDial(t) ==
  /\ pc[t] = "dial" /\ Ready(t)
  /\ \/ client = "down" /\ client' = "up" /\ Goto(t, "exit")
     \/ Goto(t, "failed") /\ UNCHANGED client
  /\ UNCHANGED <<state, device, inbox, ipcEvents, outbox, loginVars, shutVars, budget>>

ConnectFailed(t) ==
  /\ pc[t] = "failed"
  /\ Goto(t, IF isTerminal THEN "exit" ELSE "disconnected")
  /\ UNCHANGED <<state, netVars, ipcEvents, outbox, loginVars, shutVars, budget>>

ConnectDowngrade(t) ==
  /\ pc[t] = "disconnected"
  /\ setState(t, "disconnected", <<>>, <<>>)
  /\ Goto(t, "exit")
  /\ UNCHANGED <<netVars, ipcEvents, loginVars, shutVars, budget>>

\* The goroutine returns; a timer can be armed again by a later ban.
EndConnect(t) ==
  /\ pc[t] = "exit" /\ Ready(t)
  /\ Goto(t, IF t \in Timers THEN "off" ELSE "ended")
  /\ tracked' = tracked \ {t}
  /\ UNCHANGED <<state, netVars, ipcEvents, outbox, loginVars, done, closing, emitClosed, budget>>

-----------------------------------------------------------------------------

DispatchStep ==
  \/ processConnected \/ processDowngrade \/ processPermanent \/ handleLoggedOut
  \/ handleTemporaryBan \/ Transition \/ scheduleBanRecovery \/ EndDispatch

ConnectStep(t) ==
  \/ ConnectCheck(t) \/ ConnectAnnounce(t) \/ ConnectDial(t)
  \/ ConnectFailed(t) \/ ConnectDowngrade(t) \/ EndConnect(t)

=============================================================================
