--------------------------- MODULE IpcServerProofs ---------------------------
(***************************************************************************)
(* Theorems about IpcServer, for any connections and broadcasters, and any *)
(* error limit.                                                            *)
(***************************************************************************)
EXTENDS IpcServer, TLAPS

-----------------------------------------------------------------------------
(* The inductive invariant                                                 *)

Writers == Clients \cup Broadcasters \cup {Nobody}

Types ==
  /\ TypeOK
  /\ \A c \in Clients : errs[c] = MaxErrors => pc[c] \in {"exhausted", "leaving", "removed"}
  /\ \A c \in Clients : writer[c] = c => pc[c] = "replying"

\* A connection that is not served is not registered, and its socket is not open.  One that
\* reads or writes is registered, so that Close finds it.
Served ==
  \A c \in Clients :
    /\ pc[c] \in {"none", "accepted", "removed", "ended"} => c \notin clients
    /\ pc[c] \in {"registered", "reading", "replying", "exhausted"} => c \in clients
    /\ pc[c] \in {"none", "ended"} => c \notin open

\* A connection that is not registered yet is not written to, and not closed.
Fresh ==
  \A c \in Clients : pc[c] \in {"none", "accepted"} =>
    c \notin closed /\ writer[c] = Nobody /\ \A b \in Broadcasters : c \notin pending[b]

\* A line that is not whole is being written, or was the last one.
Whole == \A c \in halved : writer[c] # Nobody \/ c \in closed

\* Only a broadcast under way has clients to write to.
Pending == \A b \in Broadcasters : b \notin casting => pending[b] = {}

IInv == Types /\ Served /\ Fresh /\ Whole /\ Pending /\ ClosedQuiet

\* A reply that was written, or could not be, leaves the connection in a state of IInv.
LEMMA NoteKeepsTypes ==
  ASSUME Types, NEW c \in Clients, pc[c] = "replying", Note(c)
  PROVE  /\ errs' \in [Clients -> 0..MaxErrors]
         /\ reply' \in [Clients -> {"none", "answer", "error", "too_long"}]
         /\ \E next \in {"reading", "leaving", "exhausted"} :
              /\ pc' = [pc EXCEPT ![c] = next]
              /\ errs'[c] = MaxErrors => next # "reading"
         /\ \A d \in Clients \ {c} : errs'[d] = errs[d]
PROOF
<1> USE MaxErrorsPositive DEF Types, TypeOK, Note, Counted, Goto
<1>1. errs[c] \in 0..MaxErrors /\ errs[c] # MaxErrors
  OBVIOUS
<1>2. Counted(reply[c], errs[c]) \in 0..MaxErrors
  BY <1>1
<1>3. /\ errs' \in [Clients -> 0..MaxErrors]
      /\ errs'[c] = Counted(reply[c], errs[c])
      /\ \A d \in Clients \ {c} : errs'[d] = errs[d]
  BY <1>2
<1>4. CASE reply[c] = "too_long"
  <2>1. pc' = [pc EXCEPT ![c] = "leaving"]
    BY <1>4
  <2> QED
    BY <1>3, <2>1
<1>5. CASE reply[c] # "too_long" /\ errs'[c] >= MaxErrors
  <2>1. pc' = [pc EXCEPT ![c] = "exhausted"]
    BY <1>5
  <2> QED
    BY <1>3, <2>1
<1>6. CASE reply[c] # "too_long" /\ ~(errs'[c] >= MaxErrors)
  <2>1. pc' = [pc EXCEPT ![c] = "reading"]
    BY <1>6
  <2>2. errs'[c] # MaxErrors
    BY <1>3, <1>6
  <2> QED
    BY <1>3, <2>1, <2>2
<1> QED
  BY <1>4, <1>5, <1>6

LEMMA InitInv == Init => IInv
PROOF
  BY ActorsDistinct, MaxErrorsPositive
  DEF Init, IInv, Types, TypeOK, Served, Fresh, Whole, Pending, ClosedQuiet

LEMMA StepInv == IInv /\ [Next]_vars => IInv'
PROOF
<1> SUFFICES ASSUME IInv, [Next]_vars PROVE IInv'
  OBVIOUS
<1> USE ActorsDistinct, MaxErrorsPositive
<1> USE DEF IInv, Types, TypeOK, Served, Fresh, Whole, Pending, ClosedQuiet,
            connVars, socketVars, lineVars, eventVars, Goto, CloseAll
<1>1. ASSUME NEW c \in Clients, Accept(c) PROVE IInv'
  BY <1>1 DEF Accept
<1>2. ASSUME NEW c \in Clients, TurnDeaf(c) PROVE IInv'
  BY <1>2 DEF TurnDeaf
<1>3. ASSUME NEW c \in Clients, ReadLine(c) \/ ReadEnds(c) PROVE IInv'
  BY <1>3 DEF ReadLine, ReadEnds
<1>4. ASSUME NEW c \in Clients, Register(c) PROVE IInv'
  BY <1>4 DEF Register
<1>5. ASSUME NEW c \in Clients, CheckDone(c) PROVE IInv'
  BY <1>5 DEF CheckDone
<1>6. ASSUME NEW c \in Clients, CloseExhausted(c) PROVE IInv'
  BY <1>6 DEF CloseExhausted
<1>7. ASSUME NEW c \in Clients, Leave(c) PROVE IInv'
  BY <1>7 DEF Leave
<1>8. ASSUME NEW w \in Clients \cup Broadcasters, NEW c \in Clients, BeginWrite(w, c)
      PROVE IInv'
  <2>1. CASE w = c /\ c \in closed
    BY <1>8, <2>1, NoteKeepsTypes DEF BeginWrite, Return, HasToWrite
  <2>2. CASE w # c /\ c \in closed
    BY <1>8, <2>2 DEF BeginWrite, Return
  <2>3. CASE c \notin closed
    BY <1>8, <2>3 DEF BeginWrite, HasToWrite
  <2> QED
    BY <2>1, <2>2, <2>3
<1>9. ASSUME NEW w \in Clients \cup Broadcasters, NEW c \in Clients, EndWrite(w, c)
      PROVE IInv'
  <2>1. CASE w = c
    BY <1>9, <2>1, NoteKeepsTypes DEF EndWrite, FinishWrite, FailWrite, Return
  <2>2. CASE w # c
    BY <1>9, <2>2 DEF EndWrite, FinishWrite, FailWrite, Return
  <2> QED
    BY <2>1, <2>2
<1>10. ASSUME NEW b \in Broadcasters, Broadcast(b) \/ EndBroadcast(b) PROVE IInv'
  BY <1>10 DEF Broadcast, EndBroadcast
<1>11. CASE CloseBegin
  BY <1>11 DEF CloseBegin
<1>12. CASE CloseStep
  BY <1>12 DEF CloseStep, CloseClients, CloseWait
<1>13. CASE UNCHANGED vars
  BY <1>13 DEF vars
<1> QED
  BY <1>1, <1>2, <1>3, <1>4, <1>5, <1>6, <1>7, <1>8, <1>9, <1>10, <1>11, <1>12, <1>13
  DEF Next, ConnStep, BroadcastStep

-----------------------------------------------------------------------------
(* The theorems                                                            *)

THEOREM InvCorrect == Spec => []IInv
PROOF
  BY InitInv, StepInv, PTL DEF Spec

\* Every variable has its type; a client's errors in a row never exceed the limit.
THEOREM TypeCorrect == Spec => []TypeOK
PROOF
<1>1. IInv => TypeOK
  BY DEF IInv, Types
<1> QED
  BY <1>1, InvCorrect, PTL

\* Once Close has closed the clients, every connection that still reads or writes is closed;
\* when it has returned, none is registered, open or served.
THEOREM QuietCorrect == Spec => []ClosedQuiet
PROOF
<1>1. IInv => ClosedQuiet
  BY DEF IInv
<1> QED
  BY <1>1, InvCorrect, PTL

\* Lines never mix, and nothing follows a line that was cut off: only writeLine takes the lock,
\* it finds the lock free and the client open, and then the line before is whole.
THEOREM LinesCorrect == Spec => LinesWhole
PROOF
<1> DEFINE Lines == \A c \in Clients :
                      writer'[c] # writer[c] /\ writer'[c] # Nobody => c \notin halved
<1>1. IInv /\ [Next]_vars => Lines
  <2> SUFFICES ASSUME IInv, [Next]_vars, NEW c \in Clients,
                      writer'[c] # writer[c], writer'[c] # Nobody
               PROVE  c \notin halved
    OBVIOUS
  <2> USE DEF IInv, Types, TypeOK
  <2>1. \E w \in Clients \cup Broadcasters : \E d \in Clients : BeginWrite(w, d) \/ EndWrite(w, d)
    BY DEF Next, ConnStep, BroadcastStep, CloseStep, vars, lineVars, Accept, TurnDeaf, ReadLine,
           ReadEnds, Register, CheckDone, CloseExhausted, Leave, Broadcast, EndBroadcast,
           CloseBegin, CloseClients, CloseWait
  <2>2. PICK w \in Clients \cup Broadcasters, d \in Clients : BeginWrite(w, d) \/ EndWrite(w, d)
    BY <2>1
  <2>3. CASE EndWrite(w, d)
    BY <2>3 DEF EndWrite, FinishWrite, FailWrite
  <2>4. CASE BeginWrite(w, d)
    <3>1. c = d /\ c \notin closed /\ writer[c] = Nobody
      BY <2>4 DEF BeginWrite, lineVars
    <3> QED
      BY <3>1 DEF Whole
  <2> QED
    BY <2>2, <2>3, <2>4
<1> QED
  BY <1>1, InvCorrect, PTL DEF Spec, LinesWhole

\* A client leaves a broadcast only with the event in whole, or closed.
THEOREM DeliveredCorrect == Spec => Delivered
PROOF
<1> DEFINE Reached == \A b \in Broadcasters : \A c \in pending[b] \ pending'[b] :
                        c \in closed' \/ (writer[c] = b /\ c \notin halved')
<1>1. IInv /\ [Next]_vars => Reached
  <2> SUFFICES ASSUME IInv, [Next]_vars, NEW b \in Broadcasters,
                      NEW c \in pending[b] \ pending'[b]
               PROVE  c \in closed' \/ (writer[c] = b /\ c \notin halved')
    OBVIOUS
  <2> USE DEF IInv, Types, TypeOK
  <2>1. CASE \E a \in Broadcasters : Broadcast(a)
    BY <2>1 DEF Broadcast, Pending
  <2>2. CASE \E w \in Clients \cup Broadcasters : \E d \in Clients :
               BeginWrite(w, d) \/ EndWrite(w, d)
    BY <2>2, ActorsDistinct
    DEF BeginWrite, EndWrite, FinishWrite, FailWrite, Return, CloseAll, socketVars
  <2>3. CASE UNCHANGED pending
    BY <2>3
  <2> QED
    BY <2>1, <2>2, <2>3
    DEF Next, ConnStep, BroadcastStep, CloseStep, vars, eventVars, Accept, TurnDeaf, ReadLine,
        ReadEnds, Register, CheckDone, CloseExhausted, Leave, EndBroadcast,
        CloseBegin, CloseClients, CloseWait
<1> QED
  BY <1>1, InvCorrect, PTL DEF Spec, Delivered

=============================================================================
