------------------------------- MODULE Login -------------------------------
(***************************************************************************)
(* QR pairing and logout (internal/whatsapp/auth.go).                      *)
(*                                                                         *)
(* A login is one thread: the IPC handler that runs StartLogin and, from   *)
(* goTracked on, the consumer of its QR channel.  StartLogin holds loginMu *)
(* only while it acquires the slot, so everything after that interleaves   *)
(* with CancelLogin, Logout, Close and with a later StartLogin.            *)
(***************************************************************************)
EXTENDS ServiceState

\* The points of a login between acquiring the slot and its clean-up.
Starting == {"rebuild", "prepare", "qrchan", "retry", "qrchan2", "announce", "connect", "spawn"}
Concluding == {"success", "outdated"}     \* an item that is about to change the state
InFlight == Starting \cup Concluding \cup {"consume", "stop"}

\* Wrong variant: loginActive is not tested.
StartLogin_Unguarded(a) ==
  /\ pc[a] = "idle"
  /\ device # "paired" /\ client # "authenticated"
  /\ loginGen' = loginGen + 1
  /\ gen' = [gen EXCEPT ![a] = loginGen + 1]
  /\ loginActive' = TRUE
  /\ loginCancel' = a
  /\ cancelled' = IF done THEN cancelled \cup {a} ELSE cancelled
  /\ Goto(a, IF device = "deleted" THEN "rebuild" ELSE "prepare")
  /\ UNCHANGED <<state, netVars, ipcEvents, outbox, cancelling, shutVars, budget>>

\* StartLogin's critical section.  The refusals (a login is active, the device holds a
\* session, the client is logged in) change nothing.
StartLogin(a) ==
  /\ pc[a] = "idle"
  /\ ~loginActive /\ device # "paired" /\ client # "authenticated"
  /\ loginGen' = loginGen + 1
  /\ gen' = [gen EXCEPT ![a] = loginGen + 1]
  /\ loginActive' = TRUE
  /\ loginCancel' = a
  /\ cancelled' = IF done THEN cancelled \cup {a} ELSE cancelled
  /\ Goto(a, IF device = "deleted" THEN "rebuild" ELSE "prepare")
  /\ UNCHANGED <<state, netVars, ipcEvents, outbox, cancelling, shutVars, budget>>

\* rebuildClient: drop the old client, load the device and swap both in.  The session
\* store returns the paired device if another login has paired one meanwhile.
rebuildClient(a) ==
  /\ pc[a] = "rebuild" /\ Ready(a)
  /\ client' = "down"
  /\ \/ Goto(a, "prepare") /\ device' = IF device = "paired" THEN "paired" ELSE "unpaired"
     \/ Goto(a, "stop") /\ UNCHANGED device
  /\ UNCHANGED <<state, inbox, ipcEvents, outbox, loginVars, shutVars, budget>>

\* A previous attempt can have left the socket up: drop it before GetQRChannel.
DropSocket(a) ==
  /\ pc[a] \in {"prepare", "retry"} /\ Ready(a)
  /\ client' = "down"
  /\ Goto(a, IF pc[a] = "prepare" THEN "qrchan" ELSE "qrchan2")
  /\ UNCHANGED <<state, device, inbox, ipcEvents, outbox, loginVars, shutVars, budget>>

\* GetQRChannel, external: refuses a connected client (the call is retried once) and a
\* device that holds a session.
GetQRChannel(a) ==
  /\ pc[a] \in {"qrchan", "qrchan2"} /\ Ready(a)
  /\ Goto(a, IF client # "down" THEN IF pc[a] = "qrchan" THEN "retry" ELSE "stop"
             ELSE IF device = "paired" THEN "stop" ELSE "announce")
  /\ UNCHANGED <<state, netVars, ipcEvents, outbox, loginVars, shutVars, budget>>

AnnounceLogin(a) ==
  /\ pc[a] = "announce" /\ Ready(a)
  /\ setState(a, "connecting", <<>>, <<>>)
  /\ Goto(a, "connect")
  /\ UNCHANGED <<netVars, ipcEvents, loginVars, shutVars, budget>>

\* Wrong variant: the error path returns without stopLoginGen.
ConnectLogin_KeepsSlot(a) ==
  /\ pc[a] = "connect" /\ Ready(a)
  /\ \/ client = "down" /\ client' = "up" /\ Goto(a, "spawn")
     \/ Goto(a, "exit") /\ UNCHANGED client
  /\ UNCHANGED <<state, device, inbox, ipcEvents, outbox, loginVars, shutVars, budget>>

\* client.Connect, external: fails when the network does and on a connected client.
ConnectLogin(a) ==
  /\ pc[a] = "connect" /\ Ready(a)
  /\ \/ client = "down" /\ client' = "up" /\ Goto(a, "spawn")
     \/ Goto(a, "stop") /\ UNCHANGED client
  /\ UNCHANGED <<state, device, inbox, ipcEvents, outbox, loginVars, shutVars, budget>>

SpawnConsumer(a) ==
  /\ pc[a] = "spawn" /\ Ready(a)
  /\ \/ goTracked(a) /\ Goto(a, "consume")
     \/ closing /\ Goto(a, "stop") /\ UNCHANGED tracked
  /\ UNCHANGED <<state, netVars, ipcEvents, outbox, loginVars, done, closing, emitClosed, budget>>

\* consumeQRCodes: the context is done, seen by the select or by the re-check.
LeaveCancelled(a) ==
  /\ pc[a] = "consume" /\ Ready(a) /\ a \in cancelled
  /\ Goto(a, "stop")
  /\ UNCHANGED <<state, netVars, ipcEvents, outbox, loginVars, shutVars, budget>>

\* The items of the QR channel, external: codes while the phone has not answered,
\* success once the device is paired, or one of the failures.
Available(a, item) ==
  CASE item = "code"    -> budget.codes[a] > 0
    [] item = "success" -> device = "paired"
    [] OTHER            -> TRUE

\* Wrong variant: a failure is reported and the consumer waits for the channel to close.
handleQRItem_WaitsAfterFailure(a, item) ==
  /\ pc[a] = "consume" /\ Ready(a) /\ a \notin cancelled
  /\ Available(a, item)
  /\ Publish(a, IF item = "code" THEN <<"auth.qr">> ELSE <<"auth.error">>)
  /\ UNCHANGED <<netVars, ipcEvents, loginVars, pc, shutVars, budget>>

\* handleQRItem: an item was received and the context was not done at the re-check.
handleQRItem(a, item) ==
  /\ pc[a] = "consume" /\ Ready(a) /\ a \notin cancelled
  /\ Available(a, item)
  /\ Publish(a, IF item = "code" THEN <<"auth.qr">> ELSE IF item = "failed" THEN <<"auth.error">> ELSE <<>>)
  /\ IF item = "code"
       THEN budget' = [budget EXCEPT !.codes[a] = @ - 1] /\ UNCHANGED pc
       ELSE Goto(a, IF item \in Concluding THEN item ELSE "stop") /\ UNCHANGED budget
  /\ UNCHANGED <<netVars, ipcEvents, loginVars, shutVars>>

\* The state is set after the re-check: a cancel can come in between.
Conclude(a) ==
  /\ \/ pc[a] = "success" /\ setState(a, "connected", <<"auth.connected">>, <<>>)
     \/ pc[a] = "outdated" /\ setState(a, "outdated", <<>>, <<"auth.error">>)
  /\ Goto(a, "stop")
  /\ UNCHANGED <<netVars, ipcEvents, loginVars, shutVars, budget>>

\* stopLoginGen, deferred by the consumer and called by StartLogin where it fails.
StopOwnLogin(a) ==
  /\ pc[a] = "stop" /\ Ready(a)
  /\ stopLoginGen(a)
  /\ Goto(a, "exit")
  /\ UNCHANGED <<state, netVars, ipcEvents, outbox, shutVars, budget>>

\* Wrong variant: wg.Done is missing.
EndLogin_StaysCounted(a) ==
  /\ pc[a] = "exit" /\ Ready(a)
  /\ Goto(a, "ended")
  /\ UNCHANGED <<state, netVars, ipcEvents, outbox, loginVars, shutVars, budget>>

\* The goroutine returns: wg.Done if it was tracked.
EndLogin(a) ==
  /\ pc[a] = "exit" /\ Ready(a)
  /\ Goto(a, "ended")
  /\ tracked' = tracked \ {a}
  /\ UNCHANGED <<state, netVars, ipcEvents, outbox, loginVars, done, closing, emitClosed, budget>>

CancelLogin ==
  /\ Ready("auth.cancel") /\ budget.cancels > 0
  /\ stopLogin("auth.cancel")
  /\ budget' = [budget EXCEPT !.cancels = @ - 1]
  /\ UNCHANGED <<state, netVars, ipcEvents, outbox, pc, shutVars>>

-----------------------------------------------------------------------------
(* Logout                                                                  *)

StartLogout ==
  /\ pc["logout"] = "idle" /\ Ready("logout") /\ budget.logouts > 0
  /\ stopLogin("logout")
  /\ Goto("logout", "unlink")
  /\ budget' = [budget EXCEPT !.logouts = @ - 1]
  /\ UNCHANGED <<state, netVars, ipcEvents, outbox, shutVars>>

\* client.Logout, external, then DeleteDevice (idempotent): an unlink that succeeds
\* disconnects and deletes the session; one that fails leaves the socket as it is and the
\* session is deleted locally.  A device never paired, or a deletion that fails after the
\* unlink did, makes Logout return with the state as it is.
Unlink ==
  /\ pc["logout"] = "unlink" /\ Ready("logout")
  /\ \/ /\ device # "unpaired"
        /\ device' = "deleted"
        /\ \/ client = "authenticated" /\ client' = "down"
           \/ UNCHANGED client
        /\ Publish("logout", <<"auth.disconnected">>)
        /\ Goto("logout", "needs_pairing")
     \/ Goto("logout", "idle") /\ UNCHANGED <<state, device, client, outbox>>
  /\ UNCHANGED <<inbox, ipcEvents, loginVars, shutVars, budget>>

FinishLogout ==
  /\ pc["logout"] = "needs_pairing" /\ Ready("logout")
  /\ setState("logout", "needs_pairing", <<>>, <<>>)
  /\ Goto("logout", "idle")
  /\ UNCHANGED <<netVars, ipcEvents, loginVars, shutVars, budget>>

-----------------------------------------------------------------------------
(* whatsmeow stores the session before the success item arrives; the       *)
(* socket of an abandoned login stays up and can still be paired.          *)

PairDevice ==
  /\ client = "up" /\ device = "unpaired"
  /\ device' = "paired"
  /\ UNCHANGED <<state, client, inbox, ipcEvents, outbox, loginVars, pc, shutVars, budget>>

-----------------------------------------------------------------------------

LoginStep(a) ==
  \/ rebuildClient(a) \/ DropSocket(a) \/ GetQRChannel(a) \/ AnnounceLogin(a)
  \/ ConnectLogin(a) \/ SpawnConsumer(a) \/ LeaveCancelled(a) \/ Conclude(a)
  \/ StopOwnLogin(a) \/ EndLogin(a)

LogoutStep == Unlink \/ FinishLogout

=============================================================================
