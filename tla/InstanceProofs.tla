--------------------------- MODULE InstanceProofs ---------------------------
(***************************************************************************)
(* Proofs about Instance.tla, for any number of processes, directories,    *)
(* socket paths, migrations and statements.                                *)
(*                                                                         *)
(* The argument: the lock is the first thing a process takes, and when it  *)
(* gives it back all that is left of run is to return, so two processes on *)
(* one directory are never both between the two.  What a process has (an   *)
(* open database, running parts, a migrated schema, a socket at its path)  *)
(* follows from its next step, and nobody else's step can take it away.    *)
(* One that returns with the database open has no service and no server.   *)
(***************************************************************************)
EXTENDS Instance, TLAPS

Ready == {"new", "unlink", "listen", "abort", "chmod", "start", "running", "close worker",
          "close service", "close listener", "close server", "remove socket", "close database"}
Labels == {"off", "open", "migrate", "apply", "unlock", "exit"} \cup Ready
Working == {"start", "running", "close worker", "close service", "close listener", "close server"}

Types ==
  /\ pc \in [Daemons -> Labels]
  /\ lock \in [Dirs -> Daemons \cup {NoOne}]
  /\ schema \in [Dirs -> Schema] /\ tx \in [Daemons -> Schema]
  /\ handle \subseteq Daemons
  /\ parts \in [Daemons -> SUBSET Parts] /\ work \in [Daemons -> SUBSET Parts]
  /\ path \in [Sockets -> {NoOne, AFile} \cup Daemons]

\* How an action moves the next steps: only d goes on, to one of the places in to.
Moves(d, from, to) ==
  /\ pc[d] = from /\ pc'[d] \in to
  /\ \A e \in Daemons \ {d} : pc'[e] = pc[e]

\* A process holds the lock of its directory until it is about to end.
Locked == \A d \in Daemons : pc[d] \notin {"off", "exit"} => lock[DirOf[d]] = d

\* The database is open from the migrations on, and with the process at most.
Opened ==
  \A d \in Daemons :
    /\ pc[d] \in {"migrate", "apply"} \cup Ready => d \in handle
    /\ d \in handle => pc[d] # "off"

\* A migration is whole, and the transaction of the next one begins where it ended.
MigratedFor(d) ==
  /\ pc[d] \in Ready => schema[DirOf[d]].version = Latest
  /\ pc[d] = "apply" =>
       /\ tx[d].version = schema[DirOf[d]].version /\ tx[d].version < Latest
       /\ AllStatements(tx[d].version) \subseteq tx[d].applied
       /\ tx[d].applied \subseteq AllStatements(NextVersion(d))
Migrated ==
  /\ \A r \in Dirs : schema[r] = Upto(schema[r].version)
  /\ \A d \in Daemons : MigratedFor(d)

\* The parts that run, and which of them can have work in hand.
RunningFor(d) ==
  /\ work[d] \subseteq parts[d]
  /\ pc[d] \notin Working => work[d] = {}
  /\ "service" \in parts[d] => pc[d] \in {"running", "close worker", "close service"}
  /\ "server" \in parts[d] => pc[d] \in Working
  /\ "worker" \in parts[d] =>
       pc[d] \notin {"close service", "close listener", "close server", "remove socket", "close database"}
Running == \A d \in Daemons : RunningFor(d)

IInv == Types /\ Locked /\ Opened /\ Migrated /\ Running /\ SocketServed

\* A whole schema is one.
LEMMA UptoTyped == \A n \in 0..Latest : Upto(n) \in Schema /\ Upto(n).version = n /\ Upto(0) \in Schema
  BY InstanceAssumption DEF Upto, Schema, AllStatements

-----------------------------------------------------------------------------
(* Start-up                                                                *)

LEMMA InitInv == Init => IInv
<1> SUFFICES ASSUME Init PROVE IInv
  OBVIOUS
<1> USE InstanceAssumption DEF Init
<1>1. Types
  BY UptoTyped DEF Types, Labels, Parts
<1>2. Locked /\ Opened /\ Running /\ SocketServed
  BY DEF Locked, Opened, Running, RunningFor, SocketServed, Ready, Working
<1>3. Migrated
  BY UptoTyped DEF Migrated, MigratedFor, Ready
<1> QED BY <1>1, <1>2, <1>3 DEF IInv

LEMMA AcquireLockStep ==
  ASSUME IInv, NEW d \in Daemons, AcquireLock(d) PROVE IInv'
<1> USE InstanceAssumption DEF IInv
<1>1. Moves(d, "off", {"off", "open"})
  BY DEF Moves, Types, AcquireLock, Goto, Fault, shared, private
<1>2. UNCHANGED <<schema, path, tx, handle, parts, work>>
  BY DEF AcquireLock, Goto, Fault, shared, private
<1>3. Opened'
  BY <1>1, <1>2 DEF Opened, Moves, Ready
<1>4. Running'
  BY <1>1, <1>2 DEF Running, RunningFor, Moves, Working
<1>5. Migrated'
  BY <1>1, <1>2 DEF Migrated, MigratedFor, NextVersion, Moves, Ready
<1> USE DEF AcquireLock, Goto, Fault, shared, private
<1>6. Types'
  <2>1. (pc \in [Daemons -> Labels])'
    <3>1. "off" \in Labels /\ "open" \in Labels
      BY DEF Labels, Ready
    <3> QED BY <3>1 DEF Types
  <2>2. (lock \in [Dirs -> Daemons \cup {NoOne}])'
    BY DEF Types
  <2> QED BY <1>2, <2>1, <2>2 DEF Types
<1>7. Locked'
  BY DEF Locked, Types
<1>8. SocketServed'
  BY DEF SocketServed, Exclusive, Types, Locked
<1> QED BY <1>3, <1>4, <1>5, <1>6, <1>7, <1>8

LEMMA OpenStep ==
  ASSUME IInv, NEW d \in Daemons, Open(d) PROVE IInv'
<1> USE InstanceAssumption DEF IInv
<1>1. Moves(d, "open", {"migrate", "unlock"})
  BY DEF Moves, Types, Open, CloseAfter, Close, Goto, Fault, shared, private
<1>2. UNCHANGED <<lock, schema, path, tx, parts, work>>
  BY DEF Open, CloseAfter, Close, Goto, Fault, shared, private
<1>3. (pc'[d] = "migrate" /\ handle' = handle \cup {d}) \/ (pc'[d] = "unlock" /\ handle' \in {handle \ {d}, handle})
  BY DEF Types, Open, CloseAfter, Close, Goto, Fault, shared, private
<1>4. Opened'
  BY <1>1, <1>2, <1>3 DEF Opened, Moves, Ready
<1>5. Running'
  BY <1>1, <1>2 DEF Running, RunningFor, Moves, Working
<1>6. Migrated'
  BY <1>1, <1>2 DEF Migrated, MigratedFor, NextVersion, Moves, Ready
<1> USE DEF Open, CloseAfter, Close, Goto, Fault, shared, private
<1>7. Types'
  <2>1. (pc \in [Daemons -> Labels])'
    <3>1. "migrate" \in Labels /\ "unlock" \in Labels
      BY DEF Labels, Ready
    <3> QED BY <3>1 DEF Types
  <2>2. (handle \subseteq Daemons)'
    BY DEF Types
  <2> QED BY <1>2, <2>1, <2>2 DEF Types
<1>8. Locked'
  BY DEF Locked, Types
<1>9. SocketServed'
  BY DEF SocketServed, Exclusive, Types, Locked
<1> QED BY <1>4, <1>5, <1>6, <1>7, <1>8, <1>9

LEMMA BeginMigrationStep ==
  ASSUME IInv, NEW d \in Daemons, BeginMigration(d) PROVE IInv'
<1> USE InstanceAssumption DEF IInv
<1>1. Moves(d, "migrate", {"apply", "new"})
  BY DEF Moves, Types, BeginMigration, Goto, Fault, shared, private
<1>2. UNCHANGED <<lock, schema, path, handle, parts, work>>
  BY DEF BeginMigration, Goto, Fault, shared, private
<1>3. Opened'
  BY <1>1, <1>2 DEF Opened, Moves, Ready
<1>4. Running'
  BY <1>1, <1>2 DEF Running, RunningFor, Moves, Working
<1> USE DEF BeginMigration, Goto, Fault, shared, private
<1>5. Types'
  <2>1. (pc \in [Daemons -> Labels])'
    <3>1. "apply" \in Labels /\ "new" \in Labels
      BY DEF Labels, Ready
    <3> QED BY <3>1 DEF Types
  <2>2. (schema \in [Dirs -> Schema])' /\ (tx \in [Daemons -> Schema])'
    BY DEF Types, Schema
  <2> QED BY <1>2, <2>1, <2>2 DEF Types
<1>6. Locked'
  BY DEF Locked, Types
<1>7. Migrated'
  <2>1. MigratedFor(d)'
    <3>1. schema[DirOf[d]] \in Schema /\ tx' \in [Daemons -> Schema]
      BY <1>5 DEF Types
    <3>2. CASE schema[DirOf[d]].version < Latest
      <4>1. tx'[d] = Upto(schema[DirOf[d]].version) /\ pc'[d] = "apply"
        BY <3>2 DEF Types, Migrated
      <4> QED BY <3>1, <3>2, <4>1 DEF MigratedFor, NextVersion, Upto, AllStatements, Schema, Ready
    <3>3. CASE ~(schema[DirOf[d]].version < Latest)
      <4>1. schema[DirOf[d]].version = Latest
        <5>1. schema[DirOf[d]].version \in 0..Latest
          BY <3>1 DEF Schema
        <5> QED BY <3>3, <5>1
      <4> QED BY <3>3, <4>1 DEF MigratedFor, Types, Ready
    <3> QED BY <3>2, <3>3
  <2>2. ASSUME NEW e \in Daemons \ {d} PROVE MigratedFor(e)'
    BY DEF Migrated, MigratedFor, Types, NextVersion
  <2> QED BY <2>1, <2>2 DEF Migrated
<1>8. SocketServed'
  BY DEF SocketServed, Exclusive, Types, Locked
<1> QED BY <1>3, <1>4, <1>5, <1>6, <1>7, <1>8

\* One more statement of the next version, inside the transaction.
LEMMA ApplyStatementStep ==
  ASSUME IInv, NEW d \in Daemons, ApplyStatement(d) PROVE IInv'
<1> USE InstanceAssumption DEF IInv
<1>1. Moves(d, "apply", {"apply", "unlock"})
  BY DEF Moves, Types, ApplyStatement, CloseAfter, Close, Goto, Fault, shared, private
<1>2. UNCHANGED <<lock, schema, path, parts, work>>
  BY DEF ApplyStatement, CloseAfter, Close, Goto, Fault, shared, private
<1>3. (pc'[d] # "unlock" /\ handle' = handle) \/ (pc'[d] = "unlock" /\ handle' \in {handle \ {d}, handle})
  BY DEF Types, ApplyStatement, CloseAfter, Close, Goto, Fault, shared, private
<1>4. Opened'
  BY <1>1, <1>2, <1>3 DEF Opened, Moves, Ready
<1>5. Running'
  BY <1>1, <1>2 DEF Running, RunningFor, Moves, Working
<1> USE DEF ApplyStatement, CloseAfter, Close, Goto, Fault, shared, private
<1>6. Types'
  <2>1. (pc \in [Daemons -> Labels])'
    <3>1. "apply" \in Labels /\ "unlock" \in Labels
      BY DEF Labels, Ready
    <3> QED BY <3>1 DEF Types
  <2>2. (handle \subseteq Daemons)'
    BY DEF Types
  <2>3. (schema \in [Dirs -> Schema])' /\ (tx \in [Daemons -> Schema])'
    <3>1. tx[d] \in Schema /\ tx[d].version < Latest /\ NextVersion(d) \in 1..Latest
      BY DEF Types, Schema, Migrated, MigratedFor, NextVersion
    <3>2. \A i \in 1..Statements : [tx[d] EXCEPT !.applied = @ \cup {<<NextVersion(d), i>>}] \in Schema
      BY <3>1 DEF Schema, AllStatements
    <3> QED BY <3>2 DEF Types
  <2> QED BY <1>2, <2>1, <2>2, <2>3 DEF Types
<1>7. Locked'
  BY DEF Locked, Types
<1>8. Migrated'
  <2>1. MigratedFor(d)'
    <3>1. CASE UNCHANGED tx
      BY <3>1 DEF Migrated, MigratedFor, Types, NextVersion, Ready
    <3>2. CASE pc' = pc
      <4>1. PICK i \in 1..Statements : tx' = [tx EXCEPT ![d].applied = @ \cup {<<NextVersion(d), i>>}]
        BY <3>2 DEF Types
      <4>2. tx[d] \in Schema /\ tx'[d] = [tx[d] EXCEPT !.applied = @ \cup {<<NextVersion(d), i>>}]
        BY <4>1 DEF Types
      <4>3. <<NextVersion(d), i>> \in AllStatements(NextVersion(d))
        BY <4>2 DEF AllStatements, NextVersion, Schema
      <4>4. tx'[d].version = tx[d].version /\ tx'[d].applied = tx[d].applied \cup {<<NextVersion(d), i>>}
        BY <4>2 DEF Schema
      <4>5. NextVersion(d)' = NextVersion(d)
        BY <4>4 DEF NextVersion
      <4> QED BY <3>2, <4>3, <4>4, <4>5 DEF Migrated, MigratedFor, Ready
    <3> QED BY <3>1, <3>2
  <2>2. ASSUME NEW e \in Daemons \ {d} PROVE MigratedFor(e)'
    BY DEF Migrated, MigratedFor, Types, NextVersion
  <2> QED BY <2>1, <2>2 DEF Migrated
<1>9. SocketServed'
  BY DEF SocketServed, Exclusive, Types, Locked
<1> QED BY <1>4, <1>5, <1>6, <1>7, <1>8, <1>9

\* The only step that changes a schema: its transaction holds the next version, whole, and
\* no other process on the directory is at work.
LEMMA CommitMigrationStep ==
  ASSUME IInv, NEW d \in Daemons, CommitMigration(d) PROVE IInv'
<1> USE InstanceAssumption DEF IInv
<1>1. Moves(d, "apply", {"migrate", "unlock"})
  BY DEF Moves, Types, CommitMigration, CloseAfter, Close, Goto, Fault, shared, private
<1>2. UNCHANGED <<lock, path, tx, parts, work>>
  BY DEF CommitMigration, CloseAfter, Close, Goto, Fault, shared, private
<1>3. (pc'[d] # "unlock" /\ handle' = handle) \/ (pc'[d] = "unlock" /\ handle' \in {handle \ {d}, handle})
  BY DEF Types, CommitMigration, CloseAfter, Close, Goto, Fault, shared, private
<1>4. Opened'
  BY <1>1, <1>2, <1>3 DEF Opened, Moves, Ready
<1>5. Running'
  BY <1>1, <1>2 DEF Running, RunningFor, Moves, Working
<1>e. MigratedFor(d)' /\ \A e \in Daemons \ {d} : pc[e] \in {"off", "exit"} => MigratedFor(e)'
  BY <1>1 DEF MigratedFor, Moves, Ready
<1> USE DEF CommitMigration, CloseAfter, Close, Goto, Fault, shared, private
<1>0. [tx[d] EXCEPT !.version = NextVersion(d)] = Upto(NextVersion(d)) /\ Upto(NextVersion(d)) \in Schema
  <2>1. tx[d] \in Schema /\ tx[d].version < Latest /\ NextVersion(d) \in 1..Latest
    BY DEF Types, Schema, Migrated, MigratedFor, NextVersion
  <2>2. tx[d].applied = AllStatements(NextVersion(d))
    BY DEF Migrated, MigratedFor
  <2>3. [tx[d] EXCEPT !.version = NextVersion(d)] = Upto(NextVersion(d))
    BY <2>1, <2>2 DEF Upto, Schema
  <2> QED BY <2>1, <2>3, UptoTyped
<1>6. Types'
  <2>1. (pc \in [Daemons -> Labels])'
    <3>1. "migrate" \in Labels /\ "unlock" \in Labels
      BY DEF Labels, Ready
    <3> QED BY <3>1 DEF Types
  <2>2. (handle \subseteq Daemons)'
    BY DEF Types
  <2>3. (schema \in [Dirs -> Schema])' /\ (tx \in [Daemons -> Schema])'
    BY <1>0 DEF Types
  <2> QED BY <1>2, <2>1, <2>2, <2>3 DEF Types
<1>7. Locked'
  BY DEF Locked, Types
<1>8. Migrated'
  <2>1. ASSUME NEW r \in Dirs PROVE (schema[r] = Upto(schema[r].version))'
    BY <1>0 DEF Migrated, Types, Upto
  <2>2. MigratedFor(d)'
    BY <1>e
  <2>3. ASSUME NEW e \in Daemons \ {d} PROVE MigratedFor(e)'
    <3>1. CASE pc[e] \in {"off", "exit"}
      BY <1>e, <3>1
    <3>2. CASE pc[e] \notin {"off", "exit"}
      <4>1. DirOf[e] # DirOf[d]
        BY <3>2 DEF Locked
      <4> QED BY <4>1 DEF Migrated, MigratedFor, Types, NextVersion
    <3> QED BY <3>1, <3>2
  <2> QED BY <2>1, <2>2, <2>3 DEF Migrated
<1>9. SocketServed'
  BY DEF SocketServed, Exclusive, Types, Locked
<1> QED BY <1>4, <1>5, <1>6, <1>7, <1>8, <1>9

LEMMA NewServiceStep ==
  ASSUME IInv, NEW d \in Daemons, NewService(d) PROVE IInv'
<1> USE InstanceAssumption DEF IInv
<1>1. Moves(d, "new", {"unlink", "unlock"})
  BY DEF Moves, Types, NewService, CloseAfter, Close, Goto, Fault, shared, private
<1>2. UNCHANGED <<lock, schema, path, tx, work>>
  BY DEF NewService, CloseAfter, Close, Goto, Fault, shared, private
<1>3. (pc'[d] # "unlock" /\ handle' = handle) \/ (pc'[d] = "unlock" /\ handle' \in {handle \ {d}, handle})
  BY DEF Types, NewService, CloseAfter, Close, Goto, Fault, shared, private
<1>4. Opened'
  BY <1>1, <1>2, <1>3 DEF Opened, Moves, Ready
<1>5. /\ (pc'[d] = "unlink" /\ parts'[d] = {"worker"}) \/ (pc'[d] = "unlock" /\ parts'[d] = parts[d])
     /\ \A e \in Daemons \ {d} : parts'[e] = parts[e]
  BY DEF Types, NewService, CloseAfter, Close, Goto, Fault, shared, private
<1>6. Running'
  <2>1. RunningFor(d)'
    <3>0. RunningFor(d) /\ work[d] = {}
      BY <1>1 DEF Running, RunningFor, Moves, Working
    <3>1. CASE pc'[d] = "unlink" /\ parts'[d] = {"worker"}
      BY <1>1, <1>2, <3>0, <3>1 DEF RunningFor, Moves, Working
    <3>2. CASE pc'[d] = "unlock" /\ parts'[d] = parts[d]
      BY <1>1, <1>2, <3>0, <3>2 DEF RunningFor, Moves, Working
    <3> QED BY <1>5, <3>1, <3>2
  <2>2. ASSUME NEW e \in Daemons \ {d} PROVE RunningFor(e)'
    BY <1>1, <1>2, <1>5 DEF Running, RunningFor, Moves
  <2> QED BY <2>1, <2>2 DEF Running
<1>7. Migrated'
  BY <1>1, <1>2 DEF Migrated, MigratedFor, NextVersion, Moves, Ready
<1> USE DEF NewService, CloseAfter, Close, Goto, Fault, shared, private
<1>8. Types'
  <2>1. (pc \in [Daemons -> Labels])'
    <3>1. "unlink" \in Labels /\ "unlock" \in Labels
      BY DEF Labels, Ready
    <3> QED BY <3>1 DEF Types
  <2>2. (handle \subseteq Daemons)'
    BY DEF Types
  <2>3. (parts \in [Daemons -> SUBSET Parts])'
    BY DEF Types, Parts
  <2> QED BY <1>2, <2>1, <2>2, <2>3 DEF Types
<1>9. Locked'
  BY DEF Locked, Types
<1>10. SocketServed'
  BY DEF SocketServed, Exclusive, Types, Locked
<1> QED BY <1>4, <1>6, <1>7, <1>8, <1>9, <1>10

LEMMA RemoveStaleSocketStep ==
  ASSUME IInv, NEW d \in Daemons, RemoveStaleSocket(d) PROVE IInv'
<1> USE InstanceAssumption DEF IInv
<1>1. Moves(d, "unlink", {"listen", "abort"})
  BY DEF Moves, Types, RemoveStaleSocket, Goto, Fault, shared, private
<1>2. UNCHANGED <<lock, schema, tx, handle, parts, work>>
  BY DEF RemoveStaleSocket, Goto, Fault, shared, private
<1>3. Opened'
  BY <1>1, <1>2 DEF Opened, Moves, Ready
<1>4. Running'
  BY <1>1, <1>2 DEF Running, RunningFor, Moves, Working
<1>5. Migrated'
  BY <1>1, <1>2 DEF Migrated, MigratedFor, NextVersion, Moves, Ready
<1> USE DEF RemoveStaleSocket, Goto, Fault, shared, private
<1>6. Types'
  <2>1. (pc \in [Daemons -> Labels])'
    <3>1. "listen" \in Labels /\ "abort" \in Labels
      BY DEF Labels, Ready
    <3> QED BY <3>1 DEF Types
  <2>2. (path \in [Sockets -> {NoOne, AFile} \cup Daemons])'
    BY DEF Types
  <2> QED BY <1>2, <2>1, <2>2 DEF Types
<1>7. Locked'
  BY DEF Locked, Types
<1>8. SocketServed'
  BY DEF SocketServed, Exclusive, Types, Locked
<1> QED BY <1>3, <1>4, <1>5, <1>6, <1>7, <1>8

LEMMA ListenStep ==
  ASSUME IInv, NEW d \in Daemons, Listen(d) PROVE IInv'
<1> USE InstanceAssumption DEF IInv
<1>1. Moves(d, "listen", {"chmod", "abort"})
  BY DEF Moves, Types, Listen, Goto, Fault, shared, private
<1>2. UNCHANGED <<lock, schema, tx, handle, parts, work>>
  BY DEF Listen, Goto, Fault, shared, private
<1>3. Opened'
  BY <1>1, <1>2 DEF Opened, Moves, Ready
<1>4. Running'
  BY <1>1, <1>2 DEF Running, RunningFor, Moves, Working
<1>5. Migrated'
  BY <1>1, <1>2 DEF Migrated, MigratedFor, NextVersion, Moves, Ready
<1> USE DEF Listen, Goto, Fault, shared, private
<1>6. Types'
  <2>1. (pc \in [Daemons -> Labels])'
    <3>1. "chmod" \in Labels /\ "abort" \in Labels
      BY DEF Labels, Ready
    <3> QED BY <3>1 DEF Types
  <2>2. (path \in [Sockets -> {NoOne, AFile} \cup Daemons])'
    BY DEF Types
  <2> QED BY <1>2, <2>1, <2>2 DEF Types
<1>7. Locked'
  BY DEF Locked, Types
<1>8. SocketServed'
  BY DEF SocketServed, Exclusive, Types, Locked
<1> QED BY <1>3, <1>4, <1>5, <1>6, <1>7, <1>8

LEMMA ChmodStep ==
  ASSUME IInv, NEW d \in Daemons, Chmod(d) PROVE IInv'
<1> USE InstanceAssumption DEF IInv
<1>1. Moves(d, "chmod", {"start", "abort"})
  BY DEF Moves, Types, Chmod, Unlinked, Goto, Fault, shared, private
<1>2. UNCHANGED <<lock, schema, tx, handle, work>>
  BY DEF Chmod, Unlinked, Goto, Fault, shared, private
<1>3. Opened'
  BY <1>1, <1>2 DEF Opened, Moves, Ready
<1>4. /\ (pc'[d] = "start" /\ parts'[d] = parts[d] \cup {"server"}) \/ (pc'[d] = "abort" /\ parts'[d] = parts[d])
     /\ \A e \in Daemons \ {d} : parts'[e] = parts[e]
  BY DEF Types, Chmod, Unlinked, Goto, Fault, shared, private
<1>5. Running'
  <2>1. RunningFor(d)'
    <3>0. RunningFor(d) /\ work[d] = {}
      BY <1>1 DEF Running, RunningFor, Moves, Working
    <3>1. CASE pc'[d] = "start" /\ parts'[d] = parts[d] \cup {"server"}
      BY <1>1, <1>2, <3>0, <3>1 DEF RunningFor, Moves, Working
    <3>2. CASE pc'[d] = "abort" /\ parts'[d] = parts[d]
      BY <1>1, <1>2, <3>0, <3>2 DEF RunningFor, Moves, Working
    <3> QED BY <1>4, <3>1, <3>2
  <2>2. ASSUME NEW e \in Daemons \ {d} PROVE RunningFor(e)'
    BY <1>1, <1>2, <1>4 DEF Running, RunningFor, Moves
  <2> QED BY <2>1, <2>2 DEF Running
<1>6. Migrated'
  BY <1>1, <1>2 DEF Migrated, MigratedFor, NextVersion, Moves, Ready
<1> USE DEF Chmod, Unlinked, Goto, Fault, shared, private
<1>7. Types'
  <2>1. (pc \in [Daemons -> Labels])'
    <3>1. "start" \in Labels /\ "abort" \in Labels
      BY DEF Labels, Ready
    <3> QED BY <3>1 DEF Types
  <2>2. (parts \in [Daemons -> SUBSET Parts])'
    BY DEF Types, Parts
  <2>3. (path \in [Sockets -> {NoOne, AFile} \cup Daemons])'
    BY DEF Types
  <2> QED BY <1>2, <2>1, <2>2, <2>3 DEF Types
<1>8. Locked'
  BY DEF Locked, Types
<1>9. SocketServed'
  BY DEF SocketServed, Exclusive, Types, Locked
<1> QED BY <1>3, <1>5, <1>6, <1>7, <1>8, <1>9

LEMMA AbortStep ==
  ASSUME IInv, NEW d \in Daemons, Abort(d) PROVE IInv'
<1> USE InstanceAssumption DEF IInv
<1>1. Moves(d, "abort", {"unlock"})
  BY DEF Moves, Types, Abort, Goto, Fault, shared, private
<1>2. UNCHANGED <<lock, schema, path, tx, parts, work>>
  BY DEF Abort, Goto, Fault, shared, private
<1>3. handle' \in {handle \ {d}, handle}
  BY DEF Types, Abort, Close, Goto, Fault, shared, private
<1>4. Opened'
  BY <1>1, <1>2, <1>3 DEF Opened, Moves, Ready
<1>5. Running'
  BY <1>1, <1>2 DEF Running, RunningFor, Moves, Working
<1>6. Migrated'
  BY <1>1, <1>2 DEF Migrated, MigratedFor, NextVersion, Moves, Ready
<1> USE DEF Abort, Close, Goto, Fault, shared, private
<1>7. Types'
  <2>1. (pc \in [Daemons -> Labels])'
    <3>1. "unlock" \in Labels
      BY DEF Labels, Ready
    <3> QED BY <3>1 DEF Types
  <2>2. (handle \subseteq Daemons)'
    BY DEF Types
  <2> QED BY <1>2, <2>1, <2>2 DEF Types
<1>8. Locked'
  BY DEF Locked, Types
<1>9. SocketServed'
  BY DEF SocketServed, Exclusive, Types, Locked
<1> QED BY <1>4, <1>5, <1>6, <1>7, <1>8, <1>9

LEMMA StartServiceStep ==
  ASSUME IInv, NEW d \in Daemons, StartService(d) PROVE IInv'
<1> USE InstanceAssumption DEF IInv
<1>1. Moves(d, "start", {"running"})
  BY DEF Moves, Types, StartService, Goto, Fault, shared, private
<1>2. UNCHANGED <<lock, schema, path, tx, handle, work>>
  BY DEF StartService, Goto, Fault, shared, private
<1>3. Opened'
  BY <1>1, <1>2 DEF Opened, Moves, Ready
<1>4. /\ parts'[d] = parts[d] \cup {"service"}
     /\ \A e \in Daemons \ {d} : parts'[e] = parts[e]
  BY DEF Types, StartService, Goto, Fault, shared, private
<1>5. Running'
  <2>1. RunningFor(d)'
    <3>1. RunningFor(d) /\ parts[d] \subseteq {"worker", "service", "server"}
      BY DEF Running, Types, Parts
    <3> QED BY <1>1, <1>2, <1>4, <3>1 DEF RunningFor, Moves, Working
  <2>2. ASSUME NEW e \in Daemons \ {d} PROVE RunningFor(e)'
    BY <1>1, <1>2, <1>4 DEF Running, RunningFor, Moves
  <2> QED BY <2>1, <2>2 DEF Running
<1>6. Migrated'
  BY <1>1, <1>2 DEF Migrated, MigratedFor, NextVersion, Moves, Ready
<1> USE DEF StartService, Goto, Fault, shared, private
<1>7. Types'
  <2>1. (pc \in [Daemons -> Labels])'
    <3>1. "running" \in Labels
      BY DEF Labels, Ready
    <3> QED BY <3>1 DEF Types
  <2>2. (parts \in [Daemons -> SUBSET Parts])'
    BY DEF Types, Parts
  <2> QED BY <1>2, <2>1, <2>2 DEF Types
<1>8. Locked'
  BY DEF Locked, Types
<1>9. SocketServed'
  BY DEF SocketServed, Exclusive, Types, Locked
<1> QED BY <1>3, <1>5, <1>6, <1>7, <1>8, <1>9

-----------------------------------------------------------------------------
(* Shutdown and the end of a process                                       *)

LEMMA SignalStep ==
  ASSUME IInv, NEW d \in Daemons, Signal(d) PROVE IInv'
<1> USE InstanceAssumption DEF IInv
<1>1. Moves(d, "running", {"close worker"})
  BY DEF Moves, Types, Signal, Goto, Fault, shared, private
<1>2. UNCHANGED <<lock, schema, path, tx, handle, parts, work>>
  BY DEF Signal, Goto, Fault, shared, private
<1>3. Opened'
  BY <1>1, <1>2 DEF Opened, Moves, Ready
<1>4. Running'
  BY <1>1, <1>2 DEF Running, RunningFor, Moves, Working
<1>5. Migrated'
  BY <1>1, <1>2 DEF Migrated, MigratedFor, NextVersion, Moves, Ready
<1> USE DEF Signal, Goto, Fault, shared, private
<1>6. Types'
  <2>1. (pc \in [Daemons -> Labels])'
    <3>1. "close worker" \in Labels
      BY DEF Labels, Ready
    <3> QED BY <3>1 DEF Types
  <2> QED BY <1>2, <2>1 DEF Types
<1>7. Locked'
  BY DEF Locked, Types
<1>8. SocketServed'
  BY DEF SocketServed, Exclusive, Types, Locked
<1> QED BY <1>3, <1>4, <1>5, <1>6, <1>7, <1>8

LEMMA ClosePersisterStep ==
  ASSUME IInv, NEW d \in Daemons, ClosePersister(d) PROVE IInv'
<1> USE InstanceAssumption DEF IInv
<1>1. Moves(d, "close worker", {"close service"})
  BY DEF Moves, Types, ClosePersister, ClosePart, Goto, Fault, shared, private
<1>2. UNCHANGED <<lock, schema, path, tx, handle, work>>
  BY DEF ClosePersister, ClosePart, Goto, Fault, shared, private
<1>3. Opened'
  BY <1>1, <1>2 DEF Opened, Moves, Ready
<1>4. /\ "worker" \notin work[d] /\ parts'[d] = parts[d] \ {"worker"}
     /\ \A e \in Daemons \ {d} : parts'[e] = parts[e]
  BY DEF Types, ClosePersister, ClosePart, Goto, Fault, shared, private
<1>5. Running'
  <2>1. RunningFor(d)'
    <3>1. RunningFor(d) /\ parts[d] \subseteq {"worker", "service", "server"}
      BY DEF Running, Types, Parts
    <3> QED BY <1>1, <1>2, <1>4, <3>1 DEF RunningFor, Moves, Working
  <2>2. ASSUME NEW e \in Daemons \ {d} PROVE RunningFor(e)'
    BY <1>1, <1>2, <1>4 DEF Running, RunningFor, Moves
  <2> QED BY <2>1, <2>2 DEF Running
<1>6. Migrated'
  BY <1>1, <1>2 DEF Migrated, MigratedFor, NextVersion, Moves, Ready
<1> USE DEF ClosePersister, ClosePart, Goto, Fault, shared, private
<1>7. Types'
  <2>1. (pc \in [Daemons -> Labels])'
    <3>1. "close service" \in Labels
      BY DEF Labels, Ready
    <3> QED BY <3>1 DEF Types
  <2>2. (parts \in [Daemons -> SUBSET Parts])'
    BY DEF Types, Parts
  <2> QED BY <1>2, <2>1, <2>2 DEF Types
<1>8. Locked'
  BY DEF Locked, Types
<1>9. SocketServed'
  BY DEF SocketServed, Exclusive, Types, Locked
<1> QED BY <1>3, <1>5, <1>6, <1>7, <1>8, <1>9

LEMMA CloseServiceStep ==
  ASSUME IInv, NEW d \in Daemons, CloseService(d) PROVE IInv'
<1> USE InstanceAssumption DEF IInv
<1>1. Moves(d, "close service", {"close listener"})
  BY DEF Moves, Types, CloseService, ClosePart, Goto, Fault, shared, private
<1>2. UNCHANGED <<lock, schema, path, tx, handle, work>>
  BY DEF CloseService, ClosePart, Goto, Fault, shared, private
<1>3. Opened'
  BY <1>1, <1>2 DEF Opened, Moves, Ready
<1>4. /\ "service" \notin work[d] /\ parts'[d] = parts[d] \ {"service"}
     /\ \A e \in Daemons \ {d} : parts'[e] = parts[e]
  BY DEF Types, CloseService, ClosePart, Goto, Fault, shared, private
<1>5. Running'
  <2>1. RunningFor(d)'
    <3>1. RunningFor(d) /\ parts[d] \subseteq {"worker", "service", "server"}
      BY DEF Running, Types, Parts
    <3> QED BY <1>1, <1>2, <1>4, <3>1 DEF RunningFor, Moves, Working
  <2>2. ASSUME NEW e \in Daemons \ {d} PROVE RunningFor(e)'
    BY <1>1, <1>2, <1>4 DEF Running, RunningFor, Moves
  <2> QED BY <2>1, <2>2 DEF Running
<1>6. Migrated'
  BY <1>1, <1>2 DEF Migrated, MigratedFor, NextVersion, Moves, Ready
<1> USE DEF CloseService, ClosePart, Goto, Fault, shared, private
<1>7. Types'
  <2>1. (pc \in [Daemons -> Labels])'
    <3>1. "close listener" \in Labels
      BY DEF Labels, Ready
    <3> QED BY <3>1 DEF Types
  <2>2. (parts \in [Daemons -> SUBSET Parts])'
    BY DEF Types, Parts
  <2> QED BY <1>2, <2>1, <2>2 DEF Types
<1>8. Locked'
  BY DEF Locked, Types
<1>9. SocketServed'
  BY DEF SocketServed, Exclusive, Types, Locked
<1> QED BY <1>3, <1>5, <1>6, <1>7, <1>8, <1>9

LEMMA CloseListenerStep ==
  ASSUME IInv, NEW d \in Daemons, CloseListener(d) PROVE IInv'
<1> USE InstanceAssumption DEF IInv
<1>1. Moves(d, "close listener", {"close server"})
  BY DEF Moves, Types, CloseListener, Unlinked, Goto, Fault, shared, private
<1>2. UNCHANGED <<lock, schema, tx, handle, parts, work>>
  BY DEF CloseListener, Unlinked, Goto, Fault, shared, private
<1>3. Opened'
  BY <1>1, <1>2 DEF Opened, Moves, Ready
<1>4. Running'
  BY <1>1, <1>2 DEF Running, RunningFor, Moves, Working
<1>5. Migrated'
  BY <1>1, <1>2 DEF Migrated, MigratedFor, NextVersion, Moves, Ready
<1> USE DEF CloseListener, Unlinked, Goto, Fault, shared, private
<1>6. Types'
  <2>1. (pc \in [Daemons -> Labels])'
    <3>1. "close server" \in Labels
      BY DEF Labels, Ready
    <3> QED BY <3>1 DEF Types
  <2>2. (path \in [Sockets -> {NoOne, AFile} \cup Daemons])'
    BY DEF Types
  <2> QED BY <1>2, <2>1, <2>2 DEF Types
<1>7. Locked'
  BY DEF Locked, Types
<1>8. SocketServed'
  <2> SUFFICES ASSUME NEW e \in Daemons, pc'[e] \in {"chmod", "start", "running"}, Exclusive(e)
               PROVE  path'[SocketOf[e]] = e
    BY DEF SocketServed, Exclusive
  <2>1. e # d /\ pc'[e] = pc[e]
    BY <1>1 DEF Moves
  <2>2. DirOf[e] # DirOf[d]
    BY <2>1 DEF Locked
  <2> QED BY <2>1, <2>2 DEF SocketServed, Exclusive, Types
<1> QED BY <1>3, <1>4, <1>5, <1>6, <1>7, <1>8

LEMMA CloseServerStep ==
  ASSUME IInv, NEW d \in Daemons, CloseServer(d) PROVE IInv'
<1> USE InstanceAssumption DEF IInv
<1>1. Moves(d, "close server", {"remove socket"})
  BY DEF Moves, Types, CloseServer, ClosePart, Goto, Fault, shared, private
<1>2. UNCHANGED <<lock, schema, path, tx, handle, work>>
  BY DEF CloseServer, ClosePart, Goto, Fault, shared, private
<1>3. Opened'
  BY <1>1, <1>2 DEF Opened, Moves, Ready
<1>4. /\ "server" \notin work[d] /\ parts'[d] = parts[d] \ {"server"}
     /\ \A e \in Daemons \ {d} : parts'[e] = parts[e]
  BY DEF Types, CloseServer, ClosePart, Goto, Fault, shared, private
<1>5. Running'
  <2>1. RunningFor(d)'
    <3>1. RunningFor(d) /\ parts[d] \subseteq {"worker", "service", "server"}
      BY DEF Running, Types, Parts
    <3>2. "worker" \notin parts[d] /\ "service" \notin parts[d]
      BY <1>1, <3>1 DEF RunningFor, Moves
    <3>3. work[d] = {} /\ parts'[d] = {}
      BY <1>4, <3>1, <3>2 DEF RunningFor
    <3> QED BY <1>2, <3>3 DEF RunningFor
  <2>2. ASSUME NEW e \in Daemons \ {d} PROVE RunningFor(e)'
    BY <1>1, <1>2, <1>4 DEF Running, RunningFor, Moves
  <2> QED BY <2>1, <2>2 DEF Running
<1>6. Migrated'
  BY <1>1, <1>2 DEF Migrated, MigratedFor, NextVersion, Moves, Ready
<1> USE DEF CloseServer, ClosePart, Goto, Fault, shared, private
<1>7. Types'
  <2>1. (pc \in [Daemons -> Labels])'
    <3>1. "remove socket" \in Labels
      BY DEF Labels, Ready
    <3> QED BY <3>1 DEF Types
  <2>2. (parts \in [Daemons -> SUBSET Parts])'
    BY DEF Types, Parts
  <2> QED BY <1>2, <2>1, <2>2 DEF Types
<1>8. Locked'
  BY DEF Locked, Types
<1>9. SocketServed'
  BY DEF SocketServed, Exclusive, Types, Locked
<1> QED BY <1>3, <1>5, <1>6, <1>7, <1>8, <1>9

\* As with the listener's close: whoever else uses the path exclusively is on the same
\* directory, so it is not there.
LEMMA RemoveSocketStep ==
  ASSUME IInv, NEW d \in Daemons, RemoveSocket(d) PROVE IInv'
<1> USE InstanceAssumption DEF IInv
<1>0. pc' \in [Daemons -> Labels]
  <2>1. Goto(d, "close database") \/ Goto(d, "unlock")
    BY DEF RemoveSocket
  <2>2. "close database" \in Labels /\ "unlock" \in Labels /\ pc \in [Daemons -> Labels]
    BY DEF Labels, Ready, Types
  <2> QED BY <2>1, <2>2 DEF Goto
<1>1. Moves(d, "remove socket", {"close database", "unlock"})
  <2>1. pc[d] = "remove socket" /\ (Goto(d, "close database") \/ Goto(d, "unlock"))
    BY DEF RemoveSocket
  <2> QED BY <2>1 DEF Moves, Types, Goto
<1>2. UNCHANGED <<lock, schema, tx, handle, parts, work>>
  BY DEF RemoveSocket, Unlinked, Goto, Fault, shared, private
<1>3. Opened'
  BY <1>1, <1>2 DEF Opened, Moves, Ready
<1>4. Running'
  BY <1>1, <1>2 DEF Running, RunningFor, Moves, Working
<1>5. Migrated'
  BY <1>1, <1>2 DEF Migrated, MigratedFor, NextVersion, Moves, Ready
<1> USE DEF RemoveSocket, Unlinked, Goto, Fault, shared, private
<1>6. Types'
  <2>1. (pc \in [Daemons -> Labels])'
    BY <1>0
  <2>2. (path \in [Sockets -> {NoOne, AFile} \cup Daemons])'
    BY DEF Types
  <2> QED BY <1>2, <2>1, <2>2 DEF Types
<1>7. Locked'
  BY DEF Locked, Types
<1>8. SocketServed'
  <2>1. CASE UNCHANGED path
    BY <2>1 DEF SocketServed, Exclusive, Types
  <2>2. CASE Unlinked(d)
    <3> SUFFICES ASSUME NEW e \in Daemons, pc'[e] \in {"chmod", "start", "running"}, Exclusive(e)
                 PROVE  path'[SocketOf[e]] = e
      BY DEF SocketServed, Exclusive
    <3>1. e # d /\ pc'[e] = pc[e]
      BY <1>1 DEF Moves
    <3>2. DirOf[e] # DirOf[d]
      BY <3>1 DEF Locked
    <3> QED BY <2>2, <3>1, <3>2 DEF SocketServed, Exclusive, Types
  <2> QED BY <2>1, <2>2
<1> QED BY <1>3, <1>4, <1>5, <1>6, <1>7, <1>8

LEMMA CloseDatabaseStep ==
  ASSUME IInv, NEW d \in Daemons, CloseDatabase(d) PROVE IInv'
<1> USE InstanceAssumption DEF IInv
<1>1. Moves(d, "close database", {"unlock"})
  BY DEF Moves, Types, CloseDatabase, Goto, Fault, shared, private
<1>2. UNCHANGED <<lock, schema, path, tx, parts, work>>
  BY DEF CloseDatabase, Goto, Fault, shared, private
<1>3. handle' \in {handle \ {d}, handle}
  BY DEF Types, CloseDatabase, Close, Goto, Fault, shared, private
<1>4. Opened'
  BY <1>1, <1>2, <1>3 DEF Opened, Moves, Ready
<1>5. Running'
  BY <1>1, <1>2 DEF Running, RunningFor, Moves, Working
<1>6. Migrated'
  BY <1>1, <1>2 DEF Migrated, MigratedFor, NextVersion, Moves, Ready
<1> USE DEF CloseDatabase, Close, Goto, Fault, shared, private
<1>7. Types'
  <2>1. (pc \in [Daemons -> Labels])'
    <3>1. "unlock" \in Labels
      BY DEF Labels, Ready
    <3> QED BY <3>1 DEF Types
  <2>2. (handle \subseteq Daemons)'
    BY DEF Types
  <2> QED BY <1>2, <2>1, <2>2 DEF Types
<1>8. Locked'
  BY DEF Locked, Types
<1>9. SocketServed'
  BY DEF SocketServed, Exclusive, Types, Locked
<1> QED BY <1>4, <1>5, <1>6, <1>7, <1>8, <1>9

\* The lock is free again, and only d was behind it.
LEMMA UnlockStep ==
  ASSUME IInv, NEW d \in Daemons, Unlock(d) PROVE IInv'
<1> USE InstanceAssumption DEF IInv
<1>1. Moves(d, "unlock", {"exit"})
  BY DEF Moves, Types, Unlock, Goto
<1>2. UNCHANGED <<schema, path, tx, handle, parts, work>>
  BY DEF Unlock, private
<1>3. Opened'
  BY <1>1, <1>2 DEF Opened, Moves, Ready
<1>4. Running'
  BY <1>1, <1>2 DEF Running, RunningFor, Moves, Working
<1>5. Migrated'
  BY <1>1, <1>2 DEF Migrated, MigratedFor, NextVersion, Moves, Ready
<1> USE DEF Unlock, Goto
<1>6. Types'
  <2>1. (pc \in [Daemons -> Labels])'
    BY DEF Types, Labels
  <2>2. (lock \in [Dirs -> Daemons \cup {NoOne}])'
    BY DEF Types
  <2> QED BY <1>2, <2>1, <2>2 DEF Types
<1>7. Locked'
  <2> SUFFICES ASSUME NEW e \in Daemons, pc'[e] \notin {"off", "exit"} PROVE lock'[DirOf[e]] = e
    BY DEF Locked
  <2>1. e # d /\ pc'[e] = pc[e]
    BY <1>1 DEF Moves
  <2>2. DirOf[e] # DirOf[d]
    BY <1>1, <2>1 DEF Locked, Moves
  <2> QED BY <2>1, <2>2 DEF Locked, Types
<1>8. SocketServed'
  BY <1>1, <1>2 DEF SocketServed, Exclusive, Moves
<1> QED BY <1>3, <1>4, <1>5, <1>6, <1>7, <1>8

LEMMA ReturnStep ==
  ASSUME IInv, NEW d \in Daemons, Return(d) PROVE IInv'
<1> USE InstanceAssumption DEF IInv, Return, Exit, Goto, Fault, shared, private
<1>1. Types'
  <2>1. (pc \in [Daemons -> Labels])' BY DEF Types, Labels
  <2>2. (lock \in [Dirs -> Daemons \cup {NoOne}])' BY DEF Types
  <2>3. (schema \in [Dirs -> Schema])' /\ (tx \in [Daemons -> Schema])'
    BY UptoTyped DEF Types
  <2>4. (handle \subseteq Daemons)' BY DEF Types
  <2>5. (parts \in [Daemons -> SUBSET Parts])' /\ (work \in [Daemons -> SUBSET Parts])' BY DEF Types, Parts
  <2>6. (path \in [Sockets -> {NoOne, AFile} \cup Daemons])' BY DEF Types
  <2> QED BY <2>1, <2>2, <2>3, <2>4, <2>5, <2>6 DEF Types
<1>2. Locked' BY DEF Locked, Types
<1>3. Opened' BY DEF Opened, Types, Ready
<1>4. Migrated' BY DEF Migrated, MigratedFor, Types, Locked, Ready, NextVersion
<1>5. Running' BY DEF Running, RunningFor, Types, Working, Ready
<1>6. SocketServed' BY DEF SocketServed, Exclusive, Types, Locked
<1> QED BY <1>1, <1>2, <1>3, <1>4, <1>5, <1>6

LEMMA KillStep ==
  ASSUME IInv, NEW d \in Daemons, Kill(d) PROVE IInv'
<1> USE InstanceAssumption DEF IInv, Kill, Exit, Goto, Fault, shared, private
<1>1. Types'
  <2>1. (pc \in [Daemons -> Labels])' BY DEF Types, Labels
  <2>2. (lock \in [Dirs -> Daemons \cup {NoOne}])' BY DEF Types
  <2>3. (schema \in [Dirs -> Schema])' /\ (tx \in [Daemons -> Schema])'
    BY UptoTyped DEF Types
  <2>4. (handle \subseteq Daemons)' BY DEF Types
  <2>5. (parts \in [Daemons -> SUBSET Parts])' /\ (work \in [Daemons -> SUBSET Parts])' BY DEF Types, Parts
  <2>6. (path \in [Sockets -> {NoOne, AFile} \cup Daemons])' BY DEF Types
  <2> QED BY <2>1, <2>2, <2>3, <2>4, <2>5, <2>6 DEF Types
<1>2. Locked' BY DEF Locked, Types
<1>3. Opened' BY DEF Opened, Types, Ready
<1>4. Migrated' BY DEF Migrated, MigratedFor, Types, Locked, Ready, NextVersion
<1>5. Running' BY DEF Running, RunningFor, Types, Working, Ready
<1>6. SocketServed' BY DEF SocketServed, Exclusive, Types, Locked
<1> QED BY <1>1, <1>2, <1>3, <1>4, <1>5, <1>6

-----------------------------------------------------------------------------
(* The whole specification                                                 *)

LEMMA BeginWorkStep ==
  ASSUME IInv, NEW d \in Daemons, NEW p \in Parts, BeginWork(d, p) PROVE IInv'
<1> USE DEF IInv, BeginWork, shared
<1>1. Types' BY DEF Types
<1>2. Locked' /\ Opened' /\ Migrated' /\ SocketServed'
  BY DEF Locked, Opened, Migrated, MigratedFor, NextVersion, SocketServed, Exclusive
<1>3. Running' BY DEF Running, RunningFor, Types, Working, Parts
<1> QED BY <1>1, <1>2, <1>3

LEMMA EndWorkStep ==
  ASSUME IInv, NEW d \in Daemons, NEW p \in Parts, EndWork(d, p) PROVE IInv'
<1> USE DEF IInv, EndWork, shared
<1>1. Types' BY DEF Types
<1>2. Locked' /\ Opened' /\ Migrated' /\ SocketServed'
  BY DEF Locked, Opened, Migrated, MigratedFor, NextVersion, SocketServed, Exclusive
<1>3. Running' BY DEF Running, RunningFor, Types
<1> QED BY <1>1, <1>2, <1>3

LEMMA StutterStep == IInv /\ UNCHANGED vars => IInv'
<1> SUFFICES ASSUME IInv, UNCHANGED vars PROVE IInv'
  OBVIOUS
<1> USE DEF IInv, vars, shared, private
<1>1. Types' BY DEF Types
<1>2. Locked' /\ Opened' /\ Running' /\ SocketServed'
  BY DEF Locked, Opened, Running, RunningFor, SocketServed, Exclusive
<1>3. Migrated' BY DEF Migrated, MigratedFor, NextVersion
<1> QED BY <1>1, <1>2, <1>3

LEMMA NextStep == IInv /\ [Next]_vars => IInv'
<1> SUFFICES ASSUME IInv, [Next]_vars PROVE IInv'
  OBVIOUS
<1>1. CASE UNCHANGED vars
  BY <1>1, StutterStep
<1>2. ASSUME NEW d \in Daemons, StartUp(d) PROVE IInv'
  BY <1>2, AcquireLockStep, OpenStep, BeginMigrationStep, ApplyStatementStep, CommitMigrationStep,
     NewServiceStep, RemoveStaleSocketStep, ListenStep, ChmodStep, AbortStep, StartServiceStep DEF StartUp
<1>3. ASSUME NEW d \in Daemons, ShutDown(d) PROVE IInv'
  BY <1>3, SignalStep, ClosePersisterStep, CloseServiceStep, CloseListenerStep, CloseServerStep,
     RemoveSocketStep, CloseDatabaseStep, UnlockStep, ReturnStep DEF ShutDown
<1> QED BY <1>1, <1>2, <1>3, KillStep, BeginWorkStep, EndWorkStep DEF Next

\* What it says of the database: whoever has it open has the lock or is about to end with no
\* service and no server, whoever uses it has the lock, after its migrations, which are whole.
LEMMA InvDatabase == IInv => DatabaseSafe
<1> SUFFICES ASSUME IInv PROVE DatabaseSafe
  OBVIOUS
<1> USE DEF IInv
<1>1. ASSUME NEW d \in handle PROVE lock[DirOf[d]] = d \/ (pc[d] = "exit" /\ parts[d] \subseteq {"worker"})
  <2>1. d \in Daemons /\ (lock[DirOf[d]] = d \/ pc[d] = "exit")
    BY <1>1 DEF Types, Locked, Opened
  <2>2. RunningFor(d) /\ parts[d] \subseteq {"worker", "service", "server"}
    BY <2>1 DEF Running, Types, Parts
  <2> QED BY <2>1, <2>2 DEF RunningFor, Working
<1>2. ASSUME NEW d \in Daemons, work[d] # {}
      PROVE  d \in handle /\ lock[DirOf[d]] = d /\ schema[DirOf[d]] = Upto(Latest)
  <2>1. pc[d] \in Ready
    BY <1>2 DEF Running, RunningFor, Working, Ready
  <2>2. d \in handle /\ lock[DirOf[d]] = d
    BY <2>1 DEF Opened, Locked, Ready
  <2> QED BY <2>1, <2>2, InstanceAssumption DEF Migrated, MigratedFor
<1> QED BY <1>1, <1>2 DEF DatabaseSafe, Migrated

\* The database of a directory is used by the lock's owner alone and in its latest version; a
\* process that has given the lock up, after a Close that failed, may have it open until it
\* ends but has nothing left that would use it; a killed process leaves its migration whole or undone.
THEOREM DatabaseIsSafe == Spec => []DatabaseSafe
<1>1. Init => IInv
  BY InitInv
<1>2. IInv /\ [Next]_vars => IInv'
  BY NextStep
<1>3. IInv => DatabaseSafe
  BY InvDatabase
<1> QED BY <1>1, <1>2, <1>3, PTL DEF Spec

\* A running daemon is reached at its path, whoever else starts or stops on its directory.
THEOREM SocketIsServed == Spec => []SocketServed
<1>1. Init => IInv
  BY InitInv
<1>2. IInv /\ [Next]_vars => IInv'
  BY NextStep
<1>3. IInv => SocketServed
  BY DEF IInv
<1> QED BY <1>1, <1>2, <1>3, PTL DEF Spec

-----------------------------------------------------------------------------
(* The abstract directory                                                  *)

\* What the directory's version is, while no migration is there in part.
LEMMA VersionIs ==
  ASSUME IInv PROVE Version = [r \in Dirs |-> schema[r].version] /\ \A r \in Dirs : Version[r] \in 0..Latest
BY DEF IInv, Types, Migrated, Version, Schema

LEMMA VersionBecomes ==
  ASSUME IInv' PROVE Version' = [r \in Dirs |-> schema'[r].version]
BY DEF IInv, Types, Migrated, Version, Schema

\* A step of d at its handle alone: it opens the database with the lock, or closes it with no
\* work in hand.
LEMMA HandleRefines ==
  ASSUME IInv, NEW d \in Daemons, UNCHANGED <<lock, schema, work>>,
         \/ handle' = handle
         \/ handle' = handle \cup {d} /\ lock[DirOf[d]] = d
         \/ handle' = handle \ {d} /\ work[d] = {}
  PROVE  Data!Next \/ UNCHANGED Data!vars
<1>1. Version' = Version
  BY DEF Version
<1>2. {e \in Daemons : work[e] # {}}' = {e \in Daemons : work[e] # {}}
  OBVIOUS
<1>3. CASE handle' = handle
  BY <1>1, <1>2, <1>3 DEF Data!vars
<1>4. CASE handle' = handle \cup {d} /\ lock[DirOf[d]] = d
  BY <1>1, <1>2, <1>4 DEF Data!Next, Data!Open
<1>5. CASE handle' = handle \ {d} /\ work[d] = {}
  BY <1>1, <1>2, <1>5 DEF Data!Next, Data!Close
<1> QED
  BY <1>3, <1>4, <1>5

\* Start-up, but for the lock and the commit of a migration.
LEMMA StartUpRefines ==
  ASSUME IInv, NEW d \in Daemons, StartUp(d), ~AcquireLock(d), ~CommitMigration(d)
  PROVE  Data!Next \/ UNCHANGED Data!vars
<1>1. UNCHANGED <<lock, schema, work>>
  BY DEF StartUp, Open, BeginMigration, ApplyStatement, NewService, RemoveStaleSocket, Listen, Chmod,
         Abort, StartService, shared, private
<1>2. \/ handle' = handle
      \/ handle' = handle \cup {d} /\ pc[d] = "open"
      \/ handle' = handle \ {d} /\ pc[d] \in {"open", "migrate", "apply", "new", "abort"}
  BY DEF StartUp, Open, BeginMigration, ApplyStatement, NewService, RemoveStaleSocket, Listen, Chmod,
         Abort, StartService, CloseAfter, Close, shared, private
<1>3. pc[d] \in {"open", "migrate", "apply", "new", "abort"} => lock[DirOf[d]] = d /\ work[d] = {}
  BY DEF IInv, Locked, Running, RunningFor, Working
<1> QED
  BY <1>1, <1>2, <1>3, HandleRefines

\* Shutdown, but for the lock and the end of the process.
LEMMA ShutDownRefines ==
  ASSUME IInv, NEW d \in Daemons, ShutDown(d), ~Unlock(d), ~Return(d)
  PROVE  Data!Next \/ UNCHANGED Data!vars
<1>1. UNCHANGED <<lock, schema, work>>
  BY DEF ShutDown, Signal, ClosePersister, CloseService, ClosePart, CloseListener, CloseServer,
         RemoveSocket, CloseDatabase, shared, private
<1>2. handle' = handle \/ (handle' = handle \ {d} /\ pc[d] = "close database")
  BY DEF ShutDown, Signal, ClosePersister, CloseService, ClosePart, CloseListener, CloseServer,
         RemoveSocket, CloseDatabase, Close, shared, private
<1>3. pc[d] = "close database" => work[d] = {}
  BY DEF IInv, Running, RunningFor, Working
<1> QED
  BY <1>1, <1>2, <1>3, HandleRefines

\* The lock: a process that gets it becomes the owner.
LEMMA AcquireRefines ==
  ASSUME IInv, NEW d \in Daemons, AcquireLock(d)
  PROVE  Data!Next \/ UNCHANGED Data!vars
<1>1. UNCHANGED <<schema, work, handle>>
  BY DEF AcquireLock, private
<1>2. Version' = Version /\ {e \in Daemons : work[e] # {}}' = {e \in Daemons : work[e] # {}}
  BY <1>1 DEF Version
<1>3. CASE lock[DirOf[d]] = NoOne
  BY <1>1, <1>2, <1>3 DEF AcquireLock, Data!Next, Data!Acquire
<1>4. CASE lock[DirOf[d]] # NoOne
  BY <1>1, <1>2, <1>4 DEF AcquireLock, Data!vars
<1> QED
  BY <1>3, <1>4

\* A migration that is committed is the whole next version.
LEMMA CommitRefines ==
  ASSUME IInv, IInv', NEW d \in Daemons, CommitMigration(d)
  PROVE  Data!Next \/ UNCHANGED Data!vars
<1> DEFINE r == DirOf[d]
<1>1. r \in Dirs
  BY InstanceAssumption
<1>2. CASE CloseAfter(d) /\ UNCHANGED schema
  <2>1. UNCHANGED <<lock, work>> /\ handle' \in {handle \ {d}, handle} /\ pc[d] = "apply"
    BY <1>2 DEF CommitMigration, CloseAfter
  <2>2. work[d] = {}
    BY <2>1 DEF IInv, Running, RunningFor, Working
  <2> QED
    BY <1>2, <2>1, <2>2, HandleRefines
<1>3. CASE schema' = [schema EXCEPT ![r] = [tx[d] EXCEPT !.version = NextVersion(d)]] /\ UNCHANGED handle
  <2>1. UNCHANGED <<lock, work>> /\ pc[d] = "apply"
    BY DEF CommitMigration
  <2>2. tx[d].version = schema[r].version /\ tx[d].version < Latest /\ d \in handle
    BY <2>1 DEF IInv, Migrated, MigratedFor, Opened
  <2>6. lock[r] = d
    BY <2>1 DEF IInv, Locked
  <2>3. schema'[r].version = schema[r].version + 1
    BY <1>1, <1>3, <2>2 DEF IInv, Types, Schema, NextVersion
  <2>4. \A q \in Dirs : q # r => schema'[q] = schema[q]
    BY <1>1, <1>3 DEF IInv, Types
  <2>5. Version' = [Version EXCEPT ![r] = @ + 1] /\ Version[r] < Latest
    BY <1>1, <2>2, <2>3, <2>4, VersionIs, VersionBecomes
  <2> QED
    BY <1>3, <2>1, <2>2, <2>5, <2>6 DEF Data!Next, Data!Upgrade
<1> QED
  BY <1>2, <1>3 DEF CommitMigration

\* Work begins with an open database in the last version, and ends.
LEMMA WorkRefines ==
  ASSUME IInv, IInv', NEW d \in Daemons, NEW p \in Parts, BeginWork(d, p) \/ EndWork(d, p)
  PROVE  Data!Next \/ UNCHANGED Data!vars
<1> DEFINE users == {e \in Daemons : work[e] # {}}
<1>1. UNCHANGED <<lock, schema, handle>>
  BY DEF BeginWork, EndWork, shared
<1>2. Version' = Version
  BY <1>1 DEF Version
<1>3. \A e \in Daemons : e # d => work'[e] = work[e]
  BY DEF BeginWork, EndWork, IInv, Types
<1>4. CASE work'[d] # {}
  <2>1. users' = users \cup {d}
    <3>1. \A e \in Daemons : work'[e] # {} <=> (work[e] # {} \/ e = d)
      BY <1>3, <1>4
    <3> QED
      BY <3>1
  <2>2. pc'[d] \in Working
    BY <1>4 DEF IInv, Running, RunningFor
  <2>3. d \in handle' /\ lock'[DirOf[d]] = d /\ schema'[DirOf[d]] = Upto(Latest)
    <3>1. d \in handle' /\ lock'[DirOf[d]] = d
      BY <2>2 DEF IInv, Opened, Locked, Working, Ready
    <3>2. schema'[DirOf[d]].version = Latest /\ schema'[DirOf[d]] = Upto(schema'[DirOf[d]].version)
      BY <2>2, InstanceAssumption DEF IInv, Migrated, MigratedFor, Working, Ready
    <3> QED BY <3>1, <3>2
  <2>4. Version[DirOf[d]] = Latest
    BY <1>1, <2>3, VersionIs, InstanceAssumption DEF Upto
  <2> QED
    BY <1>1, <1>2, <2>1, <2>3, <2>4 DEF Data!Next, Data!Use
<1>5. CASE work'[d] = {}
  <2>1. users' = users \ {d}
    <3>1. \A e \in Daemons : work'[e] # {} <=> (work[e] # {} /\ e # d)
      BY <1>3, <1>5
    <3> QED
      BY <3>1
  <2> QED
    BY <1>1, <1>2, <2>1 DEF Data!Next, Data!Rest
<1> QED
  BY <1>4, <1>5

\* The lock alone is given up, with no work in hand.
LEMMA UnlockRefines ==
  ASSUME IInv, NEW d \in Daemons, Unlock(d)
  PROVE  Data!Next \/ UNCHANGED Data!vars
<1>1. lock[DirOf[d]] = d /\ work[d] = {}
  BY DEF IInv, Locked, Running, RunningFor, Working, Unlock
<1>2. UNCHANGED <<schema, handle, work>>
  BY DEF Unlock, private
<1>3. Version' = Version /\ {e \in Daemons : work[e] # {}}' = {e \in Daemons : work[e] # {}}
  BY <1>2 DEF Version
<1> QED
  BY <1>1, <1>2, <1>3 DEF Unlock, Data!Next, Data!Release

\* A process ends: what it had is free again.
LEMMA ExitRefines ==
  ASSUME IInv, NEW d \in Daemons, Exit(d)
  PROVE  Data!Next \/ UNCHANGED Data!vars
<1> DEFINE users == {e \in Daemons : work[e] # {}}
<1> USE DEF IInv, Types, Exit
<1>1. users' = users \ {d}
  <2>1. \A e \in Daemons : work'[e] # {} <=> (work[e] # {} /\ e # d)
    OBVIOUS
  <2> QED
    BY <2>1
<1>2. Version' = Version /\ handle' = handle \ {d}
  BY DEF Version
<1> QED
  BY <1>1, <1>2 DEF Data!Next, Data!Leave

\* Every step of a daemon is one of the directory, or leaves it alone.
LEMMA NextRefines ==
  ASSUME IInv, IInv', [Next]_vars PROVE [Data!Next]_(Data!vars)
<1>1. ASSUME NEW d \in Daemons, StartUp(d) PROVE Data!Next \/ UNCHANGED Data!vars
  BY <1>1, AcquireRefines, CommitRefines, StartUpRefines
<1>2. ASSUME NEW d \in Daemons, ShutDown(d) PROVE Data!Next \/ UNCHANGED Data!vars
  <2>1. CASE Unlock(d)
    BY <2>1, UnlockRefines
  <2>2. CASE Return(d)
    BY <2>2, ExitRefines DEF Return
  <2> QED
    BY <1>2, <2>1, <2>2, ShutDownRefines
<1>3. ASSUME NEW d \in Daemons, Kill(d) PROVE Data!Next \/ UNCHANGED Data!vars
  BY <1>3, ExitRefines DEF Kill
<1>4. CASE UNCHANGED vars
  BY <1>4 DEF vars, shared, private, Data!vars, Version
<1> QED
  BY <1>1, <1>2, <1>3, <1>4, WorkRefines DEF Next

LEMMA InitRefines == Init => Data!Init
<1> SUFFICES ASSUME Init PROVE Data!Init
  OBVIOUS
<1>1. Version \in [Dirs -> 0..Latest]
  BY UptoTyped DEF Init, Version
<1>2. {d \in Daemons : work[d] # {}} = {}
  BY DEF Init
<1> QED
  BY <1>1, <1>2 DEF Init, Data!Init

\* Daemons on the same directories, however they start, fail and are killed, implement the
\* abstract directory: upgraded and used by one owner, in whole versions that only grow and in
\* the last one only, whatever a former owner has left open.
THEOREM DataDirImplemented == Spec => DataDirKept
<1>1. Init => IInv
  BY InitInv
<1>2. IInv /\ [Next]_vars => IInv' /\ [Data!Next]_(Data!vars)
  BY NextStep, NextRefines
<1> QED
  BY <1>1, <1>2, InitRefines, PTL DEF Spec, DataDirKept, Data!Spec

=============================================================================
