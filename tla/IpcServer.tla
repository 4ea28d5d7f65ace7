------------------------------ MODULE IpcServer ------------------------------
(***************************************************************************)
(* The IPC server (internal/ipc/server.go): the accept loop, one goroutine *)
(* per connection, broadcasts, and Close, from the moment Start returned.  *)
(*                                                                         *)
(* As main.go builds it, the server has no cap on connections and no idle  *)
(* deadline.  What a request asks for is left out: of a reply it matters   *)
(* whether it is an answer (a result or a domain error), a protocol error  *)
(* (an invalid request, an unknown method, a panic), or the one that a     *)
(* line too long gets.  Lines and broadcasts are not limited in number.    *)
(***************************************************************************)
EXTENDS Naturals, FiniteSets

CONSTANTS
  Clients,        \* connections
  Broadcasters,   \* goroutines that call Broadcast
  Nobody,         \* holds no write lock
  MaxErrors       \* errors in a row after which a client is closed (16 in the code)

ASSUME ActorsDistinct ==
  /\ Clients \cap Broadcasters = {} /\ Nobody \notin Clients \cup Broadcasters
ASSUME MaxErrorsPositive == MaxErrors \in Nat \ {0}

VARIABLES
  server,     \* "up"; then Close: "stopping", "waiting", "closed"
  pc,         \* what the goroutine of each connection does next
  reply,      \* its reply under way, "none" without one
  errs,       \* its errors in a row
  clients,    \* Server.clients
  closed,     \* clients whose close ran
  open,       \* connections whose socket is open on this side
  deaf,       \* connections whose peer takes no more lines: it does not read, or has gone
  writer,     \* holder of each client's writeMu
  halved,     \* connections whose last line is not whole, yet or for good
  casting,    \* broadcasters with an event under way
  pending     \* the clients that it is yet to be written to

connVars == <<pc, reply, errs>>
socketVars == <<clients, closed, open, deaf>>
lineVars == <<writer, halved>>
eventVars == <<casting, pending>>
vars == <<server, connVars, socketVars, lineVars, eventVars>>

Init ==
  /\ server = "up"
  /\ pc = [c \in Clients |-> "none"]
  /\ reply = [c \in Clients |-> "none"]
  /\ errs = [c \in Clients |-> 0]
  /\ clients = {} /\ closed = {} /\ open = {} /\ deaf = {}
  /\ writer = [c \in Clients |-> Nobody]
  /\ halved = {}
  /\ casting = {}
  /\ pending = [b \in Broadcasters |-> {}]

Goto(c, next) == pc' = [pc EXCEPT ![c] = next]

\* Client.close, of all of cs.
CloseAll(cs) == closed' = closed \cup cs /\ open' = open \ cs

\* The peer stops reading for good, or goes away.
TurnDeaf(c) ==
  /\ c \in open \ deaf
  /\ deaf' = deaf \cup {c}
  /\ UNCHANGED <<server, connVars, clients, closed, open, lineVars, eventVars>>

-----------------------------------------------------------------------------
(* acceptLoop and handleConn                                               *)

\* The loop ends with the listener, which CloseClients closes.
Accept(c) ==
  /\ server \in {"up", "stopping"} /\ pc[c] = "none"
  /\ Goto(c, "accepted")
  /\ open' = open \cup {c}
  /\ UNCHANGED <<server, reply, errs, clients, closed, deaf, lineVars, eventVars>>

\* Another user's connection ends here; any other becomes a client.
Register(c) ==
  /\ pc[c] = "accepted"
  /\ \/ Goto(c, "leaving") /\ UNCHANGED clients
     \/ Goto(c, "registered") /\ clients' = clients \cup {c}
  /\ UNCHANGED <<server, reply, errs, closed, open, deaf, lineVars, eventVars>>

\* Wrong variant: a connection registered after Close closed the clients starts to read.
CheckDone_Unchecked(c) ==
  /\ pc[c] = "registered"
  /\ Goto(c, "reading")
  /\ UNCHANGED <<server, reply, errs, socketVars, lineVars, eventVars>>

CheckDone(c) ==
  /\ pc[c] = "registered"
  /\ Goto(c, IF server = "up" THEN "reading" ELSE "leaving")
  /\ UNCHANGED <<server, reply, errs, socketVars, lineVars, eventVars>>

\* A line that is not blank, and the call of its handler.  What the scanner or the socket
\* has buffered is read even after this or the other side has closed.
ReadLine(c) ==
  /\ pc[c] = "reading"
  /\ \E r \in {"answer", "error", "too_long"} : reply' = [reply EXCEPT ![c] = r]
  /\ Goto(c, "replying")
  /\ UNCHANGED <<server, errs, socketVars, lineVars, eventVars>>

\* The socket is closed, or the peer has gone.
ReadEnds(c) ==
  /\ pc[c] = "reading" /\ (c \notin open \/ c \in deaf)
  /\ Goto(c, "leaving")
  /\ UNCHANGED <<server, reply, errs, socketVars, lineVars, eventVars>>

\* noteError counts, noteSuccess forgets; neither is called for a line too long.
Counted(r, n) == IF r = "error" THEN n + 1 ELSE IF r = "answer" THEN 0 ELSE n

\* Wrong variant: one error too many is forgiven.
Note_OneMore(c) ==
  /\ errs' = [errs EXCEPT ![c] = Counted(reply[c], @)]
  /\ reply' = [reply EXCEPT ![c] = "none"]
  /\ Goto(c, IF reply[c] = "too_long" THEN "leaving"
             ELSE IF errs'[c] > MaxErrors THEN "exhausted" ELSE "reading")

\* After the reply: the next line, or the end if the errors or this line were too much.
Note(c) ==
  /\ errs' = [errs EXCEPT ![c] = Counted(reply[c], @)]
  /\ reply' = [reply EXCEPT ![c] = "none"]
  /\ Goto(c, IF reply[c] = "too_long" THEN "leaving"
             ELSE IF errs'[c] >= MaxErrors THEN "exhausted" ELSE "reading")

CloseExhausted(c) ==
  /\ pc[c] = "exhausted"
  /\ CloseAll({c})
  /\ Goto(c, "leaving")
  /\ UNCHANGED <<server, reply, errs, clients, deaf, lineVars, eventVars>>

\* The deferred calls: removeClient, then the socket's Close and wg.Done.
Leave(c) ==
  /\ \/ pc[c] = "leaving" /\ Goto(c, "removed") /\ clients' = clients \ {c} /\ UNCHANGED open
        /\ UNCHANGED errs
     \/ pc[c] = "removed" /\ Goto(c, "ended") /\ open' = open \ {c} /\ UNCHANGED clients
        /\ errs' = [errs EXCEPT ![c] = 0]  \* with its Client
  /\ UNCHANGED <<server, reply, closed, deaf, lineVars, eventVars>>

-----------------------------------------------------------------------------
(* writeLine, called by w: the connection itself or a broadcaster          *)

HasToWrite(w, c) == (w = c /\ pc[c] = "replying") \/ (w \in Broadcasters /\ c \in pending[w])

\* The write returned: the connection goes on, or the broadcaster to its next client.
Return(w, c) ==
  IF w = c
    THEN Note(c) /\ UNCHANGED pending
    ELSE pending' = [pending EXCEPT ![w] = @ \ {c}] /\ UNCHANGED connVars

\* Wrong variant: a broadcaster passes over a client that is being written to.
BeginWrite_TryLock(w, c) ==
  /\ HasToWrite(w, c) /\ \A d \in Clients : writer[d] # w
  /\ \/ /\ c \in closed \/ (w # c /\ writer[c] # Nobody)
        /\ Return(w, c) /\ UNCHANGED lineVars
     \/ /\ writer[c] = Nobody /\ c \notin closed
        /\ writer' = [writer EXCEPT ![c] = w]
        /\ halved' = halved \cup {c}
        /\ UNCHANGED <<connVars, pending>>
  /\ UNCHANGED <<server, socketVars, casting>>

\* The lock is taken and the line begun, unless the client is closed.
BeginWrite(w, c) ==
  /\ HasToWrite(w, c) /\ \A d \in Clients : writer[d] # w
  /\ writer[c] = Nobody
  /\ \/ c \in closed /\ Return(w, c) /\ UNCHANGED lineVars
     \/ /\ c \notin closed
        /\ writer' = [writer EXCEPT ![c] = w]
        /\ halved' = halved \cup {c}
        /\ UNCHANGED <<connVars, pending>>
  /\ UNCHANGED <<server, socketVars, casting>>

FinishWrite(w, c) ==
  /\ writer[c] = w /\ c \in open /\ c \notin deaf
  /\ writer' = [writer EXCEPT ![c] = Nobody]
  /\ halved' = halved \ {c}
  /\ Return(w, c)
  /\ UNCHANGED <<server, socketVars, casting>>

\* Wrong variant: the client stays open after a part of a line.
FailWrite_NotClosed(w, c) ==
  /\ writer[c] = w /\ (c \notin open \/ c \in deaf)
  /\ writer' = [writer EXCEPT ![c] = Nobody]
  /\ Return(w, c)
  /\ UNCHANGED <<server, socketVars, halved, casting>>

\* Wrong variant: there is no deadline, so a peer that does not read is waited for.
FailWrite_NoDeadline(w, c) ==
  /\ writer[c] = w /\ c \notin open
  /\ CloseAll({c})
  /\ writer' = [writer EXCEPT ![c] = Nobody]
  /\ Return(w, c)
  /\ UNCHANGED <<server, clients, deaf, halved, casting>>

\* Wrong variant: the client is marked closed and its socket left open.
FailWrite_KeepsSocket(w, c) ==
  /\ writer[c] = w /\ (c \notin open \/ c \in deaf)
  /\ closed' = closed \cup {c}
  /\ writer' = [writer EXCEPT ![c] = Nobody]
  /\ Return(w, c)
  /\ UNCHANGED <<server, clients, open, deaf, halved, casting>>

\* The socket is closed or the peer gone, or the deadline passes.
FailWrite(w, c) ==
  /\ writer[c] = w /\ (c \notin open \/ c \in deaf)
  /\ CloseAll({c})
  /\ writer' = [writer EXCEPT ![c] = Nobody]
  /\ Return(w, c)
  /\ UNCHANGED <<server, clients, deaf, halved, casting>>

EndWrite(w, c) == FinishWrite(w, c) \/ FailWrite(w, c)

-----------------------------------------------------------------------------
(* Broadcast                                                               *)

Broadcast(b) ==
  /\ b \notin casting
  /\ casting' = casting \cup {b}
  /\ pending' = [pending EXCEPT ![b] = clients]
  /\ UNCHANGED <<server, connVars, socketVars, lineVars>>

EndBroadcast(b) ==
  /\ b \in casting /\ pending[b] = {}
  /\ casting' = casting \ {b}
  /\ UNCHANGED <<server, connVars, socketVars, lineVars, pending>>

-----------------------------------------------------------------------------
(* Close                                                                   *)

\* close(done)
CloseBegin ==
  /\ server = "up" /\ server' = "stopping"
  /\ UNCHANGED <<connVars, socketVars, lineVars, eventVars>>

\* The listener's Close, then that of every client.
CloseClients ==
  /\ server = "stopping" /\ server' = "waiting"
  /\ CloseAll(clients)
  /\ UNCHANGED <<connVars, clients, deaf, lineVars, eventVars>>

\* Wrong variant: Close waits until the client set is empty.
CloseWait_Set ==
  /\ server = "waiting" /\ clients = {}
  /\ server' = "closed"
  /\ UNCHANGED <<connVars, socketVars, lineVars, eventVars>>

\* wg.Wait
CloseWait ==
  /\ server = "waiting" /\ \A c \in Clients : pc[c] \in {"none", "ended"}
  /\ server' = "closed"
  /\ UNCHANGED <<connVars, socketVars, lineVars, eventVars>>

-----------------------------------------------------------------------------

\* What the goroutine of c does by itself.
ConnStep(c) ==
  Register(c) \/ CheckDone(c) \/ BeginWrite(c, c) \/ EndWrite(c, c) \/ CloseExhausted(c) \/ Leave(c)

BroadcastStep(b) == EndBroadcast(b) \/ \E c \in Clients : EndWrite(b, c)

CloseStep == CloseClients \/ CloseWait

Next ==
  \/ \E c \in Clients : Accept(c) \/ TurnDeaf(c) \/ ReadLine(c) \/ ReadEnds(c) \/ ConnStep(c)
  \/ \E b \in Broadcasters : Broadcast(b) \/ BroadcastStep(b)
  \/ \E w \in Clients \cup Broadcasters, c \in Clients : BeginWrite(w, c)
  \/ CloseBegin \/ CloseStep

Spec == Init /\ [][Next]_vars

\* Goroutines that can go on do, handlers return, and write deadlines pass.  What was read
\* ahead of a closed socket ends.  A broadcaster that waits for a write lock gets it: Go's
\* mutex is handed over to a waiter that has waited too long.
Fairness ==
  /\ \A c \in Clients :
       WF_vars(ConnStep(c)) /\ SF_vars(c \notin open /\ ReadEnds(c))
  /\ \A b \in Broadcasters :
       WF_vars(BroadcastStep(b)) /\ \A c \in Clients : SF_vars(BeginWrite(b, c))
  /\ WF_vars(CloseStep)

FairSpec == Spec /\ Fairness

-----------------------------------------------------------------------------
(* Properties                                                              *)

TypeOK ==
  /\ server \in {"up", "stopping", "waiting", "closed"}
  /\ pc \in [Clients -> {"none", "accepted", "registered", "reading", "replying", "exhausted",
                         "leaving", "removed", "ended"}]
  /\ reply \in [Clients -> {"none", "answer", "error", "too_long"}]
  /\ errs \in [Clients -> 0..MaxErrors]
  /\ clients \subseteq Clients /\ closed \subseteq Clients /\ open \subseteq Clients
  /\ deaf \subseteq Clients
  /\ writer \in [Clients -> Clients \cup Broadcasters \cup {Nobody}] /\ halved \subseteq Clients
  /\ casting \subseteq Broadcasters
  /\ pending \in [Broadcasters -> SUBSET Clients]

\* Replies and broadcasts never mix on a connection, and a line that was cut off is the last
\* one a client gets: nobody begins a line where the one before it is not whole.
LinesWhole ==
  [][\A c \in Clients :
       writer'[c] # writer[c] /\ writer'[c] # Nobody => c \notin halved]_vars

\* Close waits for no peer: once it has closed the clients, a connection whose goroutine is
\* at a read or a write has its socket closed, so the read or write ends, however its accept,
\* registration and first look at done ran into Close.  A client that is closed stays closed.
\* When Close has returned no connection is left: in the client set, open or served.
ClosedQuiet ==
  /\ closed \cap open = {}
  /\ server = "waiting" =>
       \A c \in Clients : pc[c] \in {"reading", "replying", "exhausted"} => c \in closed
  /\ server = "closed" =>
       clients = {} /\ open = {} /\ \A c \in Clients : pc[c] \in {"none", "ended"}

\* A broadcast leaves nobody out: who was a client when it began got the event in whole, or
\* is closed by the time it ends, whatever other writes, errors and broadcasts run.
Delivered ==
  [][\A b \in Broadcasters : \A c \in pending[b] \ pending'[b] :
       c \in closed' \/ (writer[c] = b /\ c \notin halved')]_vars

\* Close returns, with any peers: one that neither reads nor hangs up, one that is accepted
\* while Close runs.
CloseReturns == server = "stopping" ~> server = "closed"

\* A client that does not read holds no broadcast for good.
BroadcastEnds == \A b \in Broadcasters : b \in casting ~> b \notin casting

\* A connection that was closed on this side, by whoever wrote to it, is not served on.
ClosedIsLeft == \A c \in Clients : c \in closed ~> pc[c] = "ended"

=============================================================================
