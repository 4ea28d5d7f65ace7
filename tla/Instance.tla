----------------------------- MODULE Instance ------------------------------
(***************************************************************************)
(* The life of a daemon process (main.go) and what processes share: the    *)
(* lock on a data directory (lock.go), its database with the migrations    *)
(* (db.go, migrations.go) and the path of the socket (server.go).          *)
(*                                                                         *)
(* Start-up and shutdown are one action per call of run, in its order; a   *)
(* call that fails unwinds as the code does.  What the worker, the service *)
(* and the server's handlers do with the database is abstracted to having  *)
(* work in hand, for which their Close functions wait.                     *)
(***************************************************************************)
EXTENDS Naturals

CONSTANTS
  Daemons, Dirs, Sockets,
  DirOf, SocketOf,  \* the configuration of each daemon
  Latest,           \* the last version of migrations (3 in the code)
  Statements,       \* statements per migration
  MaxStarts,        \* bound: processes started, of each daemon
  MaxFaults         \* bound: calls that fail, processes that are killed

NoOne == "noone"
AFile == "afile"     \* something that is not a socket

ASSUME InstanceAssumption ==
  /\ DirOf \in [Daemons -> Dirs] /\ SocketOf \in [Daemons -> Sockets]
  /\ Daemons \cap {NoOne, AFile} = {}
  /\ Latest \in Nat /\ Statements \in Nat \ {0} /\ MaxStarts \in Nat /\ MaxFaults \in Nat

VARIABLES
  pc,      \* per daemon, the next call of run; "exit" after the last, "off" without a process
  lock,    \* per directory, who holds the flock
  schema,  \* per directory, what is committed: version and statements applied
  tx,      \* per daemon, the same inside the transaction of its migration
  handle,  \* daemons with an open database
  parts,   \* per daemon, which of its parts run
  work,    \* per daemon, which of them are using the database
  path,    \* per socket path, whose socket it is, if any
  budget   \* what is left of the bounds

shared == <<lock, schema, path>>
private == <<tx, handle, parts, work>>
vars == <<pc, shared, private, budget>>

Parts == {"worker", "service", "server"}
AllStatements(n) == (1..n) \X (1..Statements)
Schema == [version : 0..Latest, applied : SUBSET AllStatements(Latest)]
Upto(n) == [version |-> n, applied |-> AllStatements(n)]

Init ==
  /\ pc = [d \in Daemons |-> "off"] /\ lock = [r \in Dirs |-> NoOne]
  /\ schema \in [Dirs -> {Upto(n) : n \in 0..Latest}]
  /\ tx = [d \in Daemons |-> Upto(0)] /\ handle = {}
  /\ parts = [d \in Daemons |-> {}] /\ work = [d \in Daemons |-> {}]
  /\ path \in [Sockets -> {NoOne, AFile} \cup Daemons]    \* a killed process leaves its socket
  /\ budget = [starts |-> [d \in Daemons |-> MaxStarts], faults |-> MaxFaults]

Goto(d, l) == pc' = [pc EXCEPT ![d] = l]
Fault == budget.faults > 0 /\ budget' = [budget EXCEPT !.faults = @ - 1]

-----------------------------------------------------------------------------
(* Start-up                                                                *)

\* AcquireLock: without the lock the process ends.
AcquireLock(d) ==
  /\ pc[d] = "off" /\ budget.starts[d] > 0
  /\ budget' = [budget EXCEPT !.starts[d] = @ - 1]
  /\ IF lock[DirOf[d]] = NoOne
       THEN lock' = [lock EXCEPT ![DirOf[d]] = d] /\ Goto(d, "open")
       ELSE UNCHANGED <<lock, pc>>
  /\ UNCHANGED <<schema, path, private>>

\* db.Close: one that fails may leave the database open.
Close(d) ==
  \/ handle' = handle \ {d} /\ UNCHANGED budget
  \/ Fault /\ UNCHANGED handle

\* Wherever Open or New fails, the database is closed, which ends its transaction, if that does
\* not fail for the same reason.
CloseAfter(d) == Fault /\ handle' \in {handle \ {d}, handle} /\ Goto(d, "unlock")

Open(d) ==
  /\ pc[d] = "open"
  /\ \/ handle' = handle \cup {d} /\ Goto(d, "migrate") /\ UNCHANGED budget
     \/ CloseAfter(d)
  /\ UNCHANGED <<shared, tx, parts, work>>

\* Migrate: the next version in a transaction of its own.
BeginMigration(d) ==
  /\ pc[d] = "migrate"
  /\ IF schema[DirOf[d]].version < Latest
       THEN tx' = [tx EXCEPT ![d] = schema[DirOf[d]]] /\ Goto(d, "apply")
       ELSE UNCHANGED tx /\ Goto(d, "new")
  /\ UNCHANGED <<shared, handle, parts, work, budget>>

NextVersion(d) == tx[d].version + 1

\* The first statement that has not been executed.
Statement(d, i) ==
  /\ <<NextVersion(d), i>> \notin tx[d].applied
  /\ \A k \in 1..(i - 1) : <<NextVersion(d), k>> \in tx[d].applied

\* Wrong variant: statements are run on the database, not in the transaction.
ApplyStatement_Commits(d) ==
  /\ pc[d] = "apply"
  /\ \E i \in 1..Statements :
       /\ Statement(d, i)
       /\ \/ /\ tx' = [tx EXCEPT ![d].applied = @ \cup {<<NextVersion(d), i>>}]
             /\ schema' = [schema EXCEPT ![DirOf[d]].applied = tx'[d].applied]
             /\ UNCHANGED <<pc, handle, budget>>
          \/ CloseAfter(d) /\ UNCHANGED <<tx, schema>>
  /\ UNCHANGED <<lock, path, parts, work>>

ApplyStatement(d) ==
  /\ pc[d] = "apply"
  /\ \E i \in 1..Statements :
       /\ Statement(d, i)
       /\ \/ /\ tx' = [tx EXCEPT ![d].applied = @ \cup {<<NextVersion(d), i>>}]
             /\ UNCHANGED <<pc, handle, budget>>
          \/ CloseAfter(d) /\ UNCHANGED tx
  /\ UNCHANGED <<shared, parts, work>>

\* The version is recorded in the same transaction, which is then committed.
CommitMigration(d) ==
  /\ pc[d] = "apply" /\ AllStatements(NextVersion(d)) \subseteq tx[d].applied
  /\ \/ /\ schema' = [schema EXCEPT ![DirOf[d]] = [tx[d] EXCEPT !.version = NextVersion(d)]]
        /\ Goto(d, "migrate")
        /\ UNCHANGED <<handle, budget>>
     \/ CloseAfter(d) /\ UNCHANGED schema
  /\ UNCHANGED <<lock, path, tx, parts, work>>

\* whatsapp.New, EnablePersistence (which starts the worker) and NewServer.
NewService(d) ==
  /\ pc[d] = "new"
  /\ \/ parts' = [parts EXCEPT ![d] = {"worker"}] /\ Goto(d, "unlink") /\ UNCHANGED <<handle, budget>>
     \/ CloseAfter(d) /\ UNCHANGED parts
  /\ UNCHANGED <<shared, tx, work>>

\* removeStaleSocket: any socket is taken for stale, a live one too.
RemoveStaleSocket(d) ==
  /\ pc[d] = "unlink"
  /\ \/ /\ path[SocketOf[d]] # AFile /\ path' = [path EXCEPT ![SocketOf[d]] = NoOne]
        /\ Goto(d, "listen") /\ UNCHANGED budget
     \/ path[SocketOf[d]] = AFile /\ Goto(d, "abort") /\ UNCHANGED <<path, budget>>
     \/ Fault /\ Goto(d, "abort") /\ UNCHANGED path
  /\ UNCHANGED <<lock, schema, private>>

\* net.Listen, external: refused if something is there again.
Listen(d) ==
  /\ pc[d] = "listen"
  /\ \/ /\ path[SocketOf[d]] = NoOne /\ path' = [path EXCEPT ![SocketOf[d]] = d]
        /\ Goto(d, "chmod") /\ UNCHANGED budget
     \/ path[SocketOf[d]] # NoOne /\ Goto(d, "abort") /\ UNCHANGED <<path, budget>>
     \/ Fault /\ Goto(d, "abort") /\ UNCHANGED path
  /\ UNCHANGED <<lock, schema, private>>

Unlinked(d) == path' = [path EXCEPT ![SocketOf[d]] = NoOne]

\* From here the socket is the server's: bound.
Chmod(d) ==
  /\ pc[d] = "chmod"
  /\ \/ /\ parts' = [parts EXCEPT ![d] = @ \cup {"server"}] /\ Goto(d, "start")
        /\ UNCHANGED <<path, budget>>
     \/ Fault /\ Unlinked(d) /\ Goto(d, "abort") /\ UNCHANGED parts
  /\ UNCHANGED <<lock, schema, tx, handle, work>>

\* The server did not start: the service, which has not, and the database are closed; the
\* worker is left to the end of the process.
Abort(d) ==
  /\ pc[d] = "abort"
  /\ Close(d) /\ Goto(d, "unlock")
  /\ UNCHANGED <<shared, tx, parts, work>>

StartService(d) ==
  /\ pc[d] = "start"
  /\ parts' = [parts EXCEPT ![d] = @ \cup {"service"}] /\ Goto(d, "running")
  /\ UNCHANGED <<shared, tx, handle, work, budget>>

-----------------------------------------------------------------------------
(* Work and shutdown                                                       *)

\* The worker gets its work from the service, which has it from the network.
BeginWork(d, p) ==
  /\ p \in parts[d] \ work[d]
  /\ p = "worker" => "service" \in parts[d]
  /\ work' = [work EXCEPT ![d] = @ \cup {p}]
  /\ UNCHANGED <<pc, shared, tx, handle, parts, budget>>

EndWork(d, p) ==
  /\ p \in work[d]
  /\ work' = [work EXCEPT ![d] = @ \ {p}]
  /\ UNCHANGED <<pc, shared, tx, handle, parts, budget>>

\* SIGINT or SIGTERM.
Signal(d) ==
  /\ pc[d] = "running" /\ Goto(d, "close worker")
  /\ UNCHANGED <<shared, private, budget>>

\* A part's Close returns when it has no work in hand.
ClosePart(d, from, p, to) ==
  /\ pc[d] = from /\ p \notin work[d]
  /\ parts' = [parts EXCEPT ![d] = @ \ {p}] /\ Goto(d, to)
  /\ UNCHANGED <<shared, tx, handle, work, budget>>

ClosePersister(d) == ClosePart(d, "close worker", "worker", "close service")
CloseService(d) == ClosePart(d, "close service", "service", "close listener")

\* Server.Close: closing the listener unlinks the path (external), before the handlers have
\* ended.
CloseListener(d) ==
  /\ pc[d] = "close listener" /\ Unlinked(d) /\ Goto(d, "close server")
  /\ UNCHANGED <<lock, schema, private, budget>>

CloseServer(d) == ClosePart(d, "close server", "server", "remove socket")

\* The path is removed once more, since the server had bound it; if that fails, or closing the
\* listener did, db.Close is skipped.
RemoveSocket(d) ==
  /\ pc[d] = "remove socket"
  /\ \/ Unlinked(d) /\ Goto(d, "close database") /\ UNCHANGED budget
     \/ Fault /\ Goto(d, "unlock") /\ (Unlinked(d) \/ UNCHANGED path)
  /\ UNCHANGED <<lock, schema, private>>

CloseDatabase(d) ==
  /\ pc[d] = "close database"
  /\ Close(d) /\ Goto(d, "unlock")
  /\ UNCHANGED <<shared, tx, parts, work>>

\* Wrong variant: the socket is removed when the lock is released already.
Unlock_SocketLast(d) ==
  \/ /\ pc[d] = "unlock" /\ Goto(d, "last")
     /\ lock' = [lock EXCEPT ![DirOf[d]] = NoOne]
     /\ UNCHANGED <<schema, path, private, budget>>
  \/ pc[d] = "last" /\ Unlinked(d) /\ Goto(d, "exit") /\ UNCHANGED <<lock, schema, private, budget>>

\* lock.Close, deferred in run: the flock is released, and nothing else.
Unlock(d) ==
  /\ pc[d] = "unlock" /\ Goto(d, "exit")
  /\ lock' = [lock EXCEPT ![DirOf[d]] = NoOne]
  /\ UNCHANGED <<schema, path, private, budget>>

\* What the end of a process does: its transaction is rolled back, what it has open is closed,
\* its lock is released if it has one.
Exit(d) ==
  /\ Goto(d, "off")
  /\ lock' = [r \in Dirs |-> IF lock[r] = d THEN NoOne ELSE lock[r]]
  /\ tx' = [tx EXCEPT ![d] = Upto(0)] /\ handle' = handle \ {d}
  /\ parts' = [parts EXCEPT ![d] = {}] /\ work' = [work EXCEPT ![d] = {}]
  /\ UNCHANGED <<schema, path>>

\* run has returned; until here what it left open is open.
Return(d) == pc[d] = "exit" /\ Exit(d) /\ UNCHANGED budget

Kill(d) == pc[d] # "off" /\ Fault /\ Exit(d)

StartUp(d) ==
  \/ AcquireLock(d) \/ Open(d) \/ BeginMigration(d) \/ ApplyStatement(d) \/ CommitMigration(d)
  \/ NewService(d) \/ RemoveStaleSocket(d) \/ Listen(d) \/ Chmod(d) \/ Abort(d) \/ StartService(d)
ShutDown(d) ==
  \/ Signal(d) \/ ClosePersister(d) \/ CloseService(d) \/ CloseListener(d) \/ CloseServer(d)
  \/ RemoveSocket(d) \/ CloseDatabase(d) \/ Unlock(d) \/ Return(d)

Next ==
  \E d \in Daemons :
    \/ StartUp(d) \/ ShutDown(d) \/ Kill(d)
    \/ \E p \in Parts : BeginWork(d, p) \/ EndWork(d, p)

Spec == Init /\ [][Next]_vars

-----------------------------------------------------------------------------
(* Properties                                                              *)

\* Whoever has a database open has the lock of its directory, but for a process that gave the
\* lock up after a Close that failed: the worker is all that may be left in it, and no service
\* to bring it work.  Whatever uses the database has the lock, and finds it in the latest version.  A migration is in it as a whole
\* or not at all, whenever a process is killed.
DatabaseSafe ==
  /\ \A d \in handle : lock[DirOf[d]] = d \/ (pc[d] = "exit" /\ parts[d] \subseteq {"worker"})
  /\ \A d \in Daemons :
       work[d] # {} => d \in handle /\ lock[DirOf[d]] = d /\ schema[DirOf[d]] = Upto(Latest)
  /\ \A r \in Dirs : schema[r] = Upto(schema[r].version)

\* Nobody else uses the same socket path with another data directory.
Exclusive(d) == \A e \in Daemons : SocketOf[e] = SocketOf[d] => DirOf[e] = DirOf[d]

\* A running daemon is reached at its path: whoever starts or stops at the same time, on the
\* same data directory, never removes or replaces its socket.
SocketServed ==
  \A d \in Daemons : pc[d] \in {"chmod", "start", "running"} /\ Exclusive(d) => path[SocketOf[d]] = d

-----------------------------------------------------------------------------
(* Refinement                                                              *)

\* A database with a part of a migration in it is of no version.
Version == [r \in Dirs |-> IF schema[r] = Upto(schema[r].version) THEN schema[r].version ELSE Latest + 1]

Data == INSTANCE DataDir WITH
  Processes <- Daemons, owner <- lock, version <- Version, open <- handle,
  using <- {d \in Daemons : work[d] # {}}

\* Start-ups, migrations statement by statement, shutdowns, failures and kills implement
\* DataDir: of the processes that share a directory one at a time opens its database, brings
\* it up in whole versions and uses it, and the next one finds what was committed.  The one
\* before it may still have the database open, after a Close that failed, but no longer uses it.
DataDirKept == Data!Spec

=============================================================================
