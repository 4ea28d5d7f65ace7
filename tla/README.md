# The WhatsApp daemon of caelestia in TLA+

This directory specifies `caelestia-whatsappd`, the daemon under
`src/whatsapp/daemon`: a Go process that keeps a WhatsApp session through the
whatsmeow library, stores messages in SQLite and serves a desktop shell over a
Unix socket.  The specifications are translated from the code; TLC checks
small instances of them, and TLAPS proves the most important properties for
every value of the constants.

Contents: [the system](#the-system) · [what is modelled where](#what-is-modelled-where) ·
[the runs](#the-runs) · [fairness](#fairness) · [what is proved](#what-is-proved) ·
[differences between code and documents](#where-the-code-and-its-documents-disagree) ·
[what is not modelled](#what-is-not-modelled) · [plan](#plan)

Run, in this directory:

    tlc -workers 2 -config MCLogin.cfg MCService.tla       # and MCService.cfg
    tlc -workers 2 -config MCMessaging.cfg MCMessaging.tla # and MCQueue, MCReadClears, MCHistoryEnds
    tlc -workers 2 -config MCIpcServer.cfg IpcServer.tla
    tlc -workers 2 -config MCMedia.cfg MCMedia.tla
    tlc -workers 2 -config MCAvatars.cfg Avatars.tla
    tlc -workers 2 -config MCNames.cfg MCNames.tla         # and MCRenameKept
    tlc -workers 2 -config MCInstance.cfg MCInstance.tla
    tlapm ServiceProofs.tla                                # likewise the other *Proofs modules

## The system

Paths are relative to `src/whatsapp/daemon`.  The rest of the repository
(`extras/`, `setup/`, `custom/`) is desktop configuration, installers and
patches of other projects, and holds none of this program's logic.

| component | state it keeps | operations | talks to |
|---|---|---|---|
| **Login and logout** (`internal/whatsapp/auth.go`) | the login slot `loginActive`, `loginGen`, `loginCancel` under `loginMu` | `StartLogin`, `consumeQRCodes`, `handleQRItem`, `stopLogin`, `stopLoginGen`, `CancelLogin`, `Logout` | called by IPC handlers; drives the whatsmeow client; publishes `auth.*` |
| **Connection state machine** (`events.go`, `service.go`) | `state` under `stateMu`, the queue `inbox`, the channel `ipcEvents`, the ban's expiry, `done`/`closing`/`emitClosed`, `wg` | `handleEvent`, `dispatchLoop`, `process`, `Connect`, `Start`, `scheduleBanRecovery`, `goTracked`, `emit`, `Close` | whatsmeow calls `handleEvent`; `main.go` pumps `ipcEvents` to the IPC server |
| **Persistence worker** (`persist.go`) | a queue of 4096 events, `done` | `handleEvent`, `run`, `drain`, `process` and one handler per event type | whatsmeow calls `handleEvent`; writes through the repository, then broadcasts domain events |
| **Repository and schema** (`internal/database/repo.go`, `migrations.go`, `db.go`) | the `cae_*` tables on one connection | upserts, status changes, `WithTx`, versioned migrations | persistence worker, RPC methods; shares the connection with whatsmeow's store |
| **RPC methods** (`methods.go`, `media_methods.go`) | none of their own | `message.send`, `message.read`, `chats.list`, `media.download`, … | IPC server calls them; network calls through the client, then repository |
| **IPC server** (`internal/ipc/server.go`) | client set, connection count, `done`, per-client write lock and error count | accept, read/dispatch/write loop, `Broadcast`, `Close` | shell and command line clients |
| **Media** (`media.go`, `media_methods.go`, `media_send.go`, `thumb_repair.go`) | files under the cache directory, thumbnails, temporary files, `cae_media` | `media.download`, `media.send`, `attachEmbeddedThumb`, the backfill of thumbnails | client (transfers), repository, worker (the echo of what was sent) |
| **Avatar store** (`avatars.go`) | TTL cache, busy set, semaphore of fetches | `lookup`, `remember`, `schedule`, `download` | methods that list chats; client and repository |
| **Name resolver and repair** (`names.go`, `group_repair.go`) | a cache of names with expiry, single-flight flags | `Resolve`, `Kick`, `applyName` | persistence worker, methods, dispatcher |
| **Lock and process** (`internal/database/lock.go`, `cmd/caelestia-whatsappd/main.go`) | the lock file, the socket file | start-up and shutdown order | all of the above |
| configuration, logging, CLI, QML front end | no state of the daemon | parsing, redaction, display | — |

Everything that runs Service code is a goroutine of its own: one IPC handler
per request, one consumer per login, the dispatcher, one timer per ban with an
expiry, the auto-connect goroutine of `Start`, the event pump, `Close`.  They
share the Service's fields under five different mutexes, none of which is held
across a call of another component.  That is the hard part of this program, and
it is why the Service was modelled first.

What makes each component correct:

* Login: at most one login runs; the slot is freed whenever a login ends, for
  whatever reason; a login that ends late does not free its successor's slot;
  a login that lost the slot ends.
* Connection: a permanent outcome (ban, replaced stream) is not undone by the
  `Disconnected` that always follows it; an expiring ban is left again; handlers
  never block for good; `Close` ends, and ends everything it is responsible for.
* Persistence: an accepted event is written; rows, last message and unread
  counter agree; events are published after the write and in its order; redelivery
  changes nothing.
* IPC: a client that is slow or wrong cannot harm the others; `Close` waits for
  every reader and leaves none; the connection count is the number of
  connections.
* Media: a row and the file it names agree, whatever fails and whoever else writes
  the same file; a message sent from here is announced once although its echo comes
  back; what was downloaded stays so.
* Avatars: no scheduled fetch runs twice at once, nor more than the limit; no mark and no
  slot outlives its fetch; who keeps asking gets a picture in the end.
* Names: a chat is named by a name of its own, never by a participant's or by what
  stands in for one; a failure to find a name does not last.
* Process: one daemon per data directory; no part uses the database before it is
  migrated or after it is closed; the socket belongs to the daemon that bound it.

`PROJECT.json` lists the hazards behind these properties, each with the line
where it bites.

## What is modelled where

| module | models |
|---|---|
| `ServiceState` | variables shared by all threads of the Service, and the shared operations: `setState`, `emit`, `stopLogin`, `stopLoginGen`, `goTracked`, the pump |
| `Login` | `auth.go`: `StartLogin` and its QR consumer, `CancelLogin`, `Logout`, and pairing |
| `Dispatcher` | `events.go` and the rest of `service.go`: `handleEvent`, `process`, ban timers, `Start`, `Connect` |
| `Service` | `New`, `Close`, the composition, fairness, and the properties |
| `LoginSlot` | the abstract specification of the login slot |
| `MCService` | the instance for TLC |
| `ServiceProofs` | theorems and proofs about the Service |
| `MessageStore` | `repo.go`: the tables of chats and messages, one operator per statement |
| `Persister` | `persist.go`: queue, shutdown, and the handlers of messages, edits, revocations, receipts and history, statement by statement |
| `Messaging` | `message.send` and `message.read` of `methods.go` beside the worker, crashes, the composition, fairness, and the properties |
| `Mailbox` | the abstract specification of the message tables and of what clients are told |
| `MCMessaging` | the instances for TLC |
| `MessagingProofs` | theorems and proofs about Messaging |
| `MailboxProofs` | the proof that Messaging implements Mailbox |
| `IpcServer` | `ipc/server.go`: connections, writes, `Broadcast`, `Close` |
| `IpcServerProofs` | theorems and proofs about IpcServer |
| `MediaStore` | `repo.go`: the table of media, and the names of the files its rows point to |
| `Media` | `media_methods.go`, `media_send.go`, `media.go`, `thumb_repair.go`, the media part of the worker's handler; faults, crashes, fairness, and the properties |
| `MCMedia` | the instance for TLC |
| `MediaProofs` | theorems and proofs about Media |
| `Avatars` | `avatars.go` |
| `FetchPool` | the abstract specification of its scheduled fetches |
| `AvatarsProofs` | theorems and proofs about Avatars |
| `Names` | `names.go`, `group_repair.go`, and who stores names: `persist.go`, `chats.list`, `message.send` |
| `MCNames` | the instances for TLC |
| `NamesProofs` | theorems and proofs about Names |
| `Instance` | `main.go`, `lock.go`, `db.go`, `migrations.go` and the socket path of `server.go` |
| `DataDir` | the abstract specification of a data directory |
| `MCInstance` | the instance for TLC |
| `InstanceProofs` | theorems and proofs about Instance |

Each group is a specification of its own.  The worker appears in three of them, with the
part of its handler that matters there: the order of the rows and events of a message in
`Persister`, its thumbnail and media row in `Media`, the name it looks up in `Names`.

### The Service

**Threads.**  `Threads` is the set of goroutines that run Service code; `pc[t]`
says what a thread does next.  A login (a member of `Attempts`) is one thread:
the IPC handler that runs `StartLogin` and, from `goTracked` on, the consumer of
its QR channel.  `Timers` are the goroutines of `scheduleBanRecovery`; a timer
can be used again after it ended, and there are as many as bans can be pending
at once.  `Workers` are the dispatcher, the goroutine of `Start`, `Logout`,
`Close`, and the calls of `CancelLogin` (one at a time; CancelLogin is one
critical section, followed by one call).

**Granularity.**  One action is a critical section, or the work between two
points at which another thread can interfere.  In particular these are
separate steps, because the code lets go of the lock between them:

* `isTerminal()` and the `setState` it guards (`processDowngrade` and
  `Transition`; `ConnectFailed` and `ConnectDowngrade`; `FireTimer` and
  `ConnectCheck`);
* `setState`'s assignment and the `connection.updated` it publishes: the thread
  puts its events into `outbox[t]` and sends them one by one with `Emit`, which
  waits while the channel is full;
* taking the cancel function out of the slot and calling it: `cancelling[t]`
  between the two;
* the consumer's look at its context and the state it sets for a last item
  (`handleQRItem`, `Conclude`);
* the steps of `StartLogin` after `loginMu` is released (rebuild, drop the
  socket, open the QR channel, announce, connect, spawn the consumer);
* the parts of `Close`.

`Ready(t)` says that a thread has sent its events and called its cancel
function, which every next step of it requires.

**whatsmeow** is external and modelled from the daemon's use of it: `client` is
the current client's socket (down, up, up and authenticated), `device` is the
session store (never paired, paired, deleted).  `GetQRChannel` refuses a
connected client and a paired device, `client.Connect` fails on a connected
client or because the network does, pairing can complete on any socket that is
up, the library reconnects by itself, and a QR channel shows some codes and then
a last item.  A client that was replaced by `rebuildClient` is not followed any
more: there is one `client`.

**Abstracted** in the Service: the content of QR codes and of events, error texts, logging, the
ban's expiry time (a ban either has one or not), presence, the kick of the group
repairer, and message events, which the Service's dispatcher only logs (the
persistence worker, which stores them, has its own queue).  The two closing
statements of `CloseBegin` (`close(done)` and `cancel()`) are one step.

### Messages

**A store** is a record of what the properties need of `cae_chats` and
`cae_messages`: a status per message ("none" is no row, "received" the empty
status of an incoming row), whether its text is the original, edited or deleted,
and per chat whether its row exists, the last message, the last timestamp (0 is
NULL) and the unread counter.  A statement of `repo.go` is an operator from
stores to stores with the `WHERE` and `ON CONFLICT` of its SQL as conditions.
`db` is the committed store.

**The worker** is a program counter, `worker`, and the event it took from
`inbox`, `job`.  A live message takes `chat` (UpsertChat), `insert`
(InsertMessage, which ends the handler if the row is there already), `last`
(UpdateChatLastMessage), `count` (IncrementUnread, incoming messages only) and
`publish`; each is one action, because each is one autocommitted statement, and
the methods, a failure or a crash can come between them.  Receipts take
`status` and, if they come from this account, `clear`.  A history batch is one
conversation: `begin` opens the transaction, `replay` stores its messages in
`tx`, in any order, or what its items do to them: an item may be an edit or a revocation of a
message that is stored already.  The commit makes `tx` the committed store.

**The one connection.**  `ConnectionFree` is a conjunct of every statement
outside a transaction: the pool has a single connection, which a transaction
holds to its end.  A name looked up inside the transaction also asks whatsmeow's
store, which reads through the same pool; if that store's caches do not hold the
answer the worker waits for itself, which is the state `stuck`.

**The methods.**  `message.send` goes to the network first (`SendMessage`) and
then makes three statements whose errors it ignores (`StoreOutgoing`);
`message.read` collects the pending messages, tells the network and then makes
two statements (`CollectPending`, `MarkRead`, `FinishRead`).  One call of each
runs at a time; the IPC server can run more, from several clients.

**Faults.**  `FailStatement` makes the statement at hand of the worker fail: its
handler returns, and a transaction rolls back.  A method goes on after a failed
statement.  `Crash` ends the process at any moment and starts it again: `db`
remains, everything in memory goes.  Three history variables say what a fault
excuses: `lost` are the messages whose event was in the queue or in the worker's
hands, `torn` those whose handler was cut off between the row of the message and
the row of its chat.

**Abstracted** in Messages: texts and media, names, senders, the tables of
contacts, groups, reactions, media and per-user receipts; the repository's
read queries except those of the modelled methods; errors other than "the
statement failed".  A batch of history is one conversation, its unread count is
at most `HistoryUnread`.

### The IPC server

**Goroutines.**  `pc[c]` is the program counter of the goroutine that
`handleConn` runs for connection `c`; `Broadcasters` are the goroutines that call
`Broadcast` (the event pump, the persistence worker, RPC methods); `server` is how
far `Close` has come.  `Accept` stands for a connection that `listener.Accept` has
returned: `Close` waits for it, by the accept loop's count or by its own.

**A write** has a beginning (`BeginWrite`: the lock, and the check of `closed`) and
an end (`FinishWrite`, or `FailWrite` when the socket was closed meanwhile, the
peer has gone or the deadline passed), because everything else can run while the
kernel takes the bytes.  `halved` is a history variable: the connections whose
last line is not whole.

**Separate steps** are also: the registration of a client and its look at `done`
(`Register`, `CheckDone`), which `Close` may fall between; `close(done)` and
the closing of listener and clients (`CloseBegin`, `CloseClients`); the removal
from the client set and the closing of the socket (`Leave`).

**Peers.**  A peer sends lines when it likes; at any moment it may become `deaf`:
it has gone or it does not read any more.  A connection that is closed here may
still have lines in its scanner's buffer, so `ReadLine` does not ask whether the
socket is open.

**Abstracted**: what requests ask for (a reply is an answer, a protocol error, or
the one to a line too long), JSON, blank lines.  `WithMaxConns` and
`WithReadIdleTimeout` are left out: `main.go` sets neither, so there is no cap and
no idle deadline.  The socket's path is `Instance`'s.

### Media

**State.**  `rows` and `media` are the tables, `files`, `thumbs` and `temps` the disk: a
file is known by its name, the digest of its bytes, so two messages with the same content
share one, and it is absent, whole, or (in `temps`) partial.  An embedded thumbnail is
named after the digest in the protobuf, or after the protobuf's own digest where that has
none, so the thumbnail a message gets from the worker and the one it gets from a download
can have different names (`EmbeddedOf`, `ContentOf`).

**Steps.**  A call of `media.download` is `MediaDownload` (the look at row and file, and the
temporary file), `DownloadToFile`, `PlaceDownload` (rename and mode),
`ThumbnailDownload`, `MarkDownload`; `media.send` is `UploadAndSend`, `copyToCache`,
`PlaceCopy`, `ThumbnailSend` and the statements of `finalizeSentMedia`; the worker's
handler and the backfill likewise.  No lock is held anywhere, so each is one action.

**Faults.**  Any step can fail, the way its own error path says: a rename that fails
removes the temporary file, a `chmod` that fails leaves the renamed file, a thumbnail that
cannot be written is done without.  `UploadAndSend` can fail after the network has the
message.  `Crash` keeps tables and files.  `RemoveFile` is a user who empties the cache.
History variables say what a fault excuses: `cut` (messages whose handler was cut
off between row and events), `slipped` (rows the backfill was made to pass over), and
`removed`.

**Abstracted**: classifying, decoding and scaling, sizes, MIME types, progress events,
captions, parameter checks.  The source file of a `media.send` is assumed to stay the same
during the call: the code uploads, hashes and copies it in three passes
(`media_send.go:283`).  Temporary files a crash leaves behind are never looked at again,
and nobody removes them; the model forgets them.

### Avatars

**State.**  A picture is a number; `picture` is the network's view, `file` the pictures
written and still there, `contact` the row, `cache` the store's map, with an
entry valid until `Expire`.  `busy` and `sem` are the marks and slots.  A lister is a
goroutine of `chats.list` or `chat.open` at one peer of its list; a fetcher is a goroutine
that `schedule` started (Go starts as many as are asked for, so there is one for each peer
that can be marked at once); `"rpc"` is `avatars.download`.

**Steps** lie between the accesses to map, channel, table, network and disk; a slot is
given back before its mark (`Free`, `Unmark`), as the deferred calls do.  Faults: any
query, statement, network call or write; somebody deletes the files; `Close` at any
moment, after which `goTracked` refuses (`RefusedFrees`, `RefusedUnmarks`); crash.

**Abstracted**: HTTP, sizes, types, events; the two times to live (an entry expires when
it likes).  `CacheCap` is the limit of 4096, at which `remember` drops results.

### Names

**State.**  A name is known by where it comes from; a subject also by its number in the
group's history.  `chats` and `groups` are the tables' name columns, `saved` and `pushed`
the contacts (the daemon's and whatsmeow's), `mapped` the known pairs of identities.
`user[u]` is what the worker, `chats.list` and `message.send` have in hand between looking
a name up, remembering it and writing it; `repair` is the group repair's pass.  `news` are the
GroupInfo events on their way.

**Steps.**  `Resolve` (the cache, or all sources, which are read without a lock),
`Remember`, `WriteChat`, `StoreContact` for the users; `NextGroup`, `FetchGroup`,
`RepairGroup`, `CompareName`, `ApplyName` for the repair.  In `Init` an older build may have
named groups after participants, or stored a peer under its raw identifier: what the repairs
are for.  Statements and queries fail, and a crash loses the news at hand.  A query of `resolve`
that fails counts as finding nothing, and the answer is remembered all the same (`missed`).
`chats.list` and the repair see `MaxListLimit` chats of those there are (1000 in the code).

**Abstracted**: the texts of names; the minute between two passes of the repair, the order of a listing; the
several places a saved name can be found in.

### The process

**State.**  `pc[d]` is the next call of `run` in process `d`; `lock`, `schema` and `path`
are what processes share: a data directory's lock, what is committed in its
database (version and statements of migrations), and whose socket is at a path.  `tx` is
the open migration, `handle` the open databases, `parts` and `work` what runs in a
process and which of it is at a statement.

**Steps.**  One action per call of `run`, in its order, deferred calls included; a
call that fails goes where the code's error path goes.  `Unlock` is the deferred `lock.Close`:
it releases the flock and nothing else, and what the process left open is open until it
returns (`Return`).  `Kill` and the end of a process (`Exit`) roll its transaction back, close
what it has open and release its lock; a killed process leaves its socket,
and `Init` starts with whatever earlier processes have left, a file that is not a socket
included.

**Abstracted**: what worker, service and server do (they have work in hand or not, and their
`Close` waits for it, which is what the other specifications show of them); options, logging.

### Wrong variants

Next to some operators stands one named `<operator>_<what
is wrong>`.  No specification uses it.  It is the operator with one mistake that
could be made in the code, and each property is known to fail when its variant
is used in place of the operator; `PROJECT.json` pairs them ("mutants").

## The runs

| run | cfg | checks | distinct states |
|---|---|---|---|
| login | `MCLogin` | `TypeOK`, `SlotOwned`, `LoserCancelled`, `NoTheft`, `OneLoginAtATime` | 2.6 million |
| service | `MCService` | `ShutdownQuiet`, `BanSurvivesDisconnect`; `CloseTerminates`, `LoginEnds`, `BanRecovered`, `HandlerUnblocked` (liveness) | 149 thousand |
| messages | `MCMessaging` | `TypeOK`, `NewestIsLast`, `PublishedIsPersisted`, `MailboxKept` | 2.4 million |
| queue | `MCQueue` | `AcceptedKept`; `AcceptedIsStored`, `CloseReturns` (liveness) | 73 thousand |
| ipc | `MCIpcServer` | `TypeOK`, `ClosedQuiet`, `LinesWhole`, `Delivered`; `CloseReturns`, `BroadcastEnds`, `ClosedIsLeft` (liveness) | 130 thousand |
| media | `MCMedia` | `TypeOK`, `CacheAgrees`, `AnnouncedOnce`, `PassComplete`, `CachedStays`; `Backfilled` (liveness) | 809 thousand |
| avatars | `MCAvatars` | `TypeOK`, `InFlight`, `PoolKept`; `PictureArrives` (liveness) | 311 thousand |
| names | `MCNames` | `TypeOK`, `TrueName`; `LearnsName` (liveness) | 74 thousand |
| instance | `MCInstance` | `SocketServed`, `DataDirKept` | 2.8 million |
| read_clears | `MCReadClears` | `ReadClears`, violated | — |
| history_ends | `MCHistoryEnds` | `HistoryEnds`, violated | — |
| rename_kept | `MCRenameKept` | `SubjectKept`, violated | — |

* **login**: two logins, a cancel and a logout in every interleaving, from an unpaired
  device.  Two logins are what the slot is about (an old one against its successor);
  cancel and logout free it under them; a third login adds no new pair.
  Codes are left out (they only repeat a step of the consumer).  The logins
  are symmetric.  The slot is never leaked (`SlotOwned`), never stolen
  (`NoTheft`), the loser is always cancelled (`LoserCancelled`), and the
  whole implements `LoginSlot` (`OneLoginAtATime`) with
  `holder <- loginCancel` and `served <-` the logins that once held it.
* **service**: every kind of event but one, two of them in any order, queues of one place, so that
  the handler finds the inbox full and the dispatcher finds the event channel full, a
  login that rebuilds the client, a ban timer, and `Close` at any moment.  Two
  events make the ban and the disconnect after it, or the reverse.  Every ban has an
  expiry here, as `BanRecovered` requires; after a ban without one the code waits for
  the user.  `ShutdownQuiet` says that `Close` waits only for who will end and leaves nobody to emit
  on the closed channel;
  `CloseTerminates` and `LoginEnds` that nothing waits for ever, the QR consumer and the
  ban timer included.  Deadlock is checked: `Close` always can, so the only state without
  a successor is `Finished`.  The kind left out is `refused`, a ConnectFailure that the code takes
  for a logout although the socket was never authenticated: with it the graph has 1.7 million states,
  on which the safety properties hold, and liveness is beyond the time a run may take.  Alone, two of
  them keep the liveness properties as well (243 thousand states), and the theorems hold for any
  kinds.
* **messages**: one chat with an older and a newer incoming message and one sent
  from here; every kind of event, any three of them in any order (so redeliveries,
  a receipt or an edit before its message, and a history batch before, between
  and after live messages), `message.send`, a call of `message.read`, and one
  fault or crash anywhere.  Two incoming messages are what order and counters are
  about; one chat suffices, since no statement touches two.  `MailboxKept` checks the
  refinement, with `tick`, `text` and `badge` read off the committed store, so that a
  transaction shows at its commit only, `told <- announced`, and `fresh` and `uncounted`
  read off the worker's next step.  `AnnouncedOnce`, `StatusAdvances`, `EditsSurvive` and
  `CountedOnce` follow from it: they are proved, and no run repeats them.
* **queue**: four deliveries into a queue of two places, live and history, with
  one fault and `Close` at any moment.  `AcceptedKept` and `AcceptedIsStored` say what
  the drain is for: nothing accepted is dropped, and it is written in the end; `CloseReturns` that `Close` does not hang.  Both leave the worker that
  waits for itself to run history_ends.
* **ipc**: two connections, one broadcaster, an error limit of two, and `Close` at
  any moment; lines and broadcasts are not limited.  Two connections are what
  it takes for one to hold up the other, and for one to be registered while `Close`
  closes the other; a connection's own replies compete with the broadcaster for its
  lock.  `LinesWhole` and `Delivered` say what the lock, the check of `closed` and
  the closing after a failed write are for together; `CloseReturns` and
  `BroadcastEnds` that neither a silent nor a deaf peer holds up the daemon.
  More broadcasters add nothing that a connection's own writes do not do to a
  broadcaster; the safety properties are proved for any number.
* **media**: a sent message, a received one with the same content and without thumbnail, and
  a received one whose protobuf does not carry the digest of its content; the received ones
  are rows of an older build at first.  One download, two deliveries (an echo and a
  redelivery), one sent message, the backfill, one fault or crash anywhere, and one removal.
  Two messages sharing a file are what makes writers of different rows meet.  A pass lists
  two rows while there can be three without thumbnail, so which rows are oldest matters
  (`PassComplete`).  The proofs
  cover any number of each.
* **avatars**: two peers and one slot, so that one waits for the other; a cache of one place,
  so that it is full; one peer whose pictures have no id.  One event (a changed picture, an
  `avatars.download`, or `Close`), one fault.  `PoolKept` is the refinement of `FetchPool`,
  with `fetched` the peers whose fetch has its slot and `marked <- busy`.
* **names**: two groups, one of them possibly misnamed, a peer known by an `@lid` and
  possibly stored raw; a cache of one place; listings of two of the three
  chats; a repair that may ask the network once a pass.  Two events of any kind (a renaming, a message, a history conversation, a
  contact or mapping learned, a sent message, a kick of the repair), one fault.  Two events
  are a change and somebody who used what was there before; `chats.list` and the expiry of
  the cache are not limited.
* **instance**: three processes on one data directory, two with the same socket path, each
  started twice, with three migrations of two statements, from any version, and two faults
  or kills anywhere.  Two processes are what locks are about; the third, with another
  path, shows that the lock does not depend on it.  The two with the same configuration are
  symmetric.  `DataDirKept` is the refinement of
  `DataDir`: `owner <- lock`, `open <- handle`, `using` the processes with work in hand, and
  `version` the committed version, or one beyond the last if the database holds a part of a
  migration.  `DatabaseSafe` follows from it; it is proved, and no run repeats it.
  The proofs cover any number, and several directories.

Where the cfg says `CHECK_DEADLOCK FALSE`, nobody has to do anything: the process
may rest with nothing to do.  The bounds (`MaxEvents`, `MaxCancels`, `MaxLogouts`,
`MaxCodes`, `MaxCloses`, `MaxFaults`, `MaxReads`, `MaxDownloads`, `MaxDeliveries`,
`MaxRemovals`, `MaxStarts`, counted down in `budget`) limit what users, the network and
failures do, never what the code does in response.

## Fairness

`FairSpec` adds weak fairness for what the Go scheduler and the runtime
guarantee: a goroutine that can go on does, a timer fires, the pump reads
(`main.go` ranges over the channel until it is closed).  One assumption is on
whatsmeow: a consumer that waits for its QR channel gets a last item, because
the codes it was given run out ("timeout").  A consumer of a client that was
swapped under it relies on the same.  Nothing is assumed of users, of the network
or of whatsmeow's events: nobody has to start or cancel a login, log out, close
the service or raise an event.

`FairSpec` of Messaging adds weak fairness for the worker, which is a goroutine
that goes on while the queue has events, and for the statements and the network
call of a method that has begun (the network call is bounded by `sendTimeout`, the
statements wait for the connection only while a transaction runs).  Nothing is
assumed of deliveries, of callers, of `Close` or of crashes.

`FairSpec` of IpcServer adds weak fairness for each connection's goroutine (its
handlers return, as the type `Handler` demands, and its write deadlines pass), for
broadcasters and for `Close`.  It is the only one with strong fairness, in two
places: the reader of a connection closed here comes to the end of what its scanner had
read ahead, which is finite; and a broadcaster that waits for a write lock gets it,
although the connection takes the lock again and again, since Go's `sync.Mutex`
hands over to a waiter that has waited for a millisecond.  Nothing is assumed of
peers.

`FairSpec` of Media, Avatars and Names adds weak fairness for whoever has begun: a download,
a `media.send`, the worker, the backfill, a lister, a fetch, the repair.  Their transfers and
queries have timeouts, so a step ends, one way or the other.  In Avatars and Names the
entries of the caches expire, as time passes.  Nobody has to call or list: `PictureArrives`
and `LearnsName` are about peers that are listed again and again.  Instance needs no
fairness: it states safety only.

## What is proved

`ServiceProofs` proves, for any sets of logins and timers, any capacities and
any bounds:

| theorem | states |
|---|---|
| `TypeCorrect` | `Spec => []TypeOK` |
| `SlotCorrect` | `Spec => []SlotOwned` |
| `LosersCorrect` | `Spec => []LoserCancelled` |
| `NoTheftCorrect` | `Spec => NoTheft` |
| `SlotImplemented` | `Spec => OneLoginAtATime`: the service implements `LoginSlot` |
| `ShutdownCorrect` | `Spec => []ShutdownQuiet` |
| `BanCorrect` | `Spec => []BanSurvivesDisconnect` |

Assumed of the constants: `ThreadsDisjoint` (threads have different names) and
`BoundsAreNatural` (capacities are positive, bounds are natural numbers).

* **Slot.**  `SlotOwned` and `LoserCancelled` are not inductive by themselves:
  whether a late `stopLoginGen` is harmless depends on generations.  `SlotInv`
  adds that no login's generation is larger than `loginGen`, that a login has a
  generation exactly once it left `idle`, and that two logins never share one.
  A lemma disposes of every action that leaves the slot alone (`SlotFrame`),
  another of every action that clears it (`SlotReleased`); what is left is
  `StartLogin` and `CallCancel`.  `NoTheft` and the refinement follow step by
  step from the same invariant.
* **Shutdown.**  `ShutdownQuiet` needs `QuietInv`: a running dispatcher, a timer
  in use and a consumer are counted in `tracked`, and whoever is counted runs; after
  `closing` nothing new is counted; and the channel is closed only when `tracked` was
  empty.  `ContextsDone` is the rest of it: `Close` cancels every login there is, and one
  that starts later derives its context from one that is done.
* **Ban.**  Only the dispatcher makes the state `banned` or
  `stream_replaced`, and it does so only at its loop, where no downgrade is
  decided.  The proof is a case split on who can set the state.

`MessagingProofs` proves, for any messages, chats, timestamps, deliveries and
bounds:

| theorem | states |
|---|---|
| `TypeCorrect` | `Spec => []TypeOK` |
| `NewestCorrect` | `Spec => []NewestIsLast` |
| `PublishedCorrect` | `Spec => []PublishedIsPersisted` |
| `AnnouncedCorrect` | `Spec => AnnouncedOnce` |
| `StatusCorrect` | `Spec => StatusAdvances` |
| `EditsCorrect` | `Spec => EditsSurvive` |
| `CountedCorrect` | `Spec => []CountedOnce` |
| `AcceptedCorrect` | `Spec => []AcceptedKept` |
| `MailboxImplemented` (in `MailboxProofs`) | `Spec => MailboxKept`: Messaging implements `Mailbox` |

Assumed of the constants: `MessagesAssumption` (finitely many messages, each with
a chat and a timestamp), `DeliveriesAssumption` (a message event carries one
message and its chat, a history batch messages of its chat) and
`LimitsAreNatural`.

* **Statements.**  One lemma per statement says what it keeps.  `Grows(s, t)`
  gathers what no statement ever takes back: chats, timestamps, ticks, edits.
  Growth is transitive, so a history transaction, many statements on `tx`, grows
  from `db` as well (`TxConsistent`); nobody else writes meanwhile, because the
  transaction has the connection.
* **Consistency.**  `Consistent` is the inductive invariant: rows have their
  chat; `NewestIsLast` and `PublishedIsPersisted`; `Ready`, which says what the
  worker relies on at each step (at `insert` the chat is there; from `last` on the
  row is there and unpublished; from `count` on the chat's timestamp covers it);
  and `TxConsistent`, the same of what will be committed.  `AnnouncedOnce` is
  `Ready` at `publish`.
* **Ticks and edits.**  `StoreGrows`: every step leaves a store grown from `db`.
* **Counter.**  `CountedOnce` is not inductive: between the row and the counter
  an increment is owed.  `Counted` adds `Owed(c)`, 1 from `last` to `count`, to
  the counter.  A reset by `message.read` in that window is the interesting case
  (`BadgeReset`): the owed increment then rests on the row that is already there.
* **Queue.**  `AcceptedKept` says where an accepted message can be; `Queued` adds what a step
  needs to keep it there: the worker ends after `Close` only, has no event in hand when it
  has no step to do, and no message in hand at the steps of receipts.  `Take` moves a
  message from the queue to the worker's hands (`TakeKeeps`), its last step finds the row
  stored, and every step that lets go of a message early is a fault, which puts it in
  `lost`.
* **Mailbox.**  One lemma per statement says what it does to ticks, texts and badges, and one
  per action which step of Mailbox it is: the worker's `insert` is `Receive`, `count` is
  `Count`, `publish` is `Tell`, a failing statement or a crash with a message in hand is
  `Forget`, and all other statements touch what Mailbox does not show.  A history batch is
  many statements and one `Import`, at the commit; for that the invariant `Staged` says
  what the open transaction has written: rows of its own chat that `db` does not have, with
  their first tick, and no other counter; the texts it changes are those of messages it sees.  Nobody writes `db` meanwhile.

`IpcServerProofs` proves, for any connections, any broadcasters and any error limit:

| theorem | states |
|---|---|
| `TypeCorrect` | `Spec => []TypeOK` |
| `QuietCorrect` | `Spec => []ClosedQuiet` |
| `LinesCorrect` | `Spec => LinesWhole` |
| `DeliveredCorrect` | `Spec => Delivered` |

Assumed: `ActorsDistinct`, `MaxErrorsPositive`.  `IInv` is the inductive invariant:
a connection that writes is at its reply and has errors to spare (`Types`); one that
is not served is neither registered nor open (`Served`); one that is not registered
yet is not closed, not written to and in no broadcast (`Fresh`), so that what
`CloseClients` closes and what `CheckDone` ends are together all that there is to close;
a line that is not whole is being written, or its client is closed (`Whole`); only a
broadcast under way has clients to write to (`Pending`).

`MediaProofs` proves, for any messages, contents, files, calls and bounds:

| theorem | states |
|---|---|
| `TypeCorrect` | `Spec => []TypeOK` |
| `RowsAgreeWithFiles` | `Spec => []CacheAgrees` |
| `AnnouncedExactlyOnce` | `Spec => []AnnouncedOnce` |
| `DownloadsStay` | `Spec => CachedStays` |
| `PassIsComplete` | `Spec => []PassComplete` |

Assumed: `MediaAssumption` (finitely many messages, each with a digest; no digest is the
empty path) and `CallsAssumption` (bounds are natural; a call is not one of the two
temporary files of `media.send`).  The argument is that *what a call still has to do says
what it has done*: `CallFacts` says for each step of each call that its message is one,
that its file is in place and that its thumbnail is written; `RowFacts` that a row names
only what is there.  Since no step takes a file away but the user, and no step undoes a
row, every call's facts survive everybody else's steps.  `AnnounceFacts` adds who is between a
message's row and its announcement: at most one of the worker and `media.send`, because the
row is new only once.  `PassComplete` rests on the listing: as it takes the oldest rows first
and an older build's are older than this one's, a list of `PassSize` rows holds every pending
row of an older build if there are no more than that (`OldestHoldsLegacy`, by cardinality); a
row then leaves the pass only with its thumbnail or into `slipped`, and no other writer takes
a thumbnail back (`RowsGrow`).

`InstanceProofs` proves, for any daemons, directories, paths, migrations and bounds:

| theorem | states |
|---|---|
| `DatabaseIsSafe` | `Spec => []DatabaseSafe` |
| `SocketIsServed` | `Spec => []SocketServed` |
| `DataDirImplemented` | `Spec => DataDirKept`: Instance implements `DataDir` |

Assumed: `InstanceAssumption`.  The lock is the first thing a process takes, and when it
gives it up all that is left of `run` is to return, so what a process has follows from the
call it is at: `Locked` (whoever is neither off nor at its exit has its directory's lock),
`Opened`, `Migrated` and `Running`.  Two processes on one directory are then never both between
`AcquireLock` and `Unlock`; one at its exit may have the database open, but by `Running` has no
service and no server; and a step of a process on
another directory touches neither the database nor, for an exclusive path, the socket.
The refinement of `DataDir` adds `Granted` (a lock is held by a process of its directory) and
a lemma that the committed database is always of a version (`VersionIs`), because statements
of a migration go to the transaction and only its commit, with all of them, to the database;
each call of `run` is then one step of `DataDir` or none.

`NamesProofs` proves, for any groups, peers, cache sizes and bounds:

| theorem | states |
|---|---|
| `TypeCorrect` | `Spec => []TypeOK` |
| `NamesAreTrue` | `Spec => []TrueName` |

Assumed: `NamesAssumption`.  `TrueName` is about the tables only and not inductive: a name is
read, carried, cached and written in different steps, by different goroutines.  The
invariant says that *a name never loses its chat*: what is in the tables (`RowNames`), in the
cache or in a user's hands (`Answers`), in the hands of the repair or on its way to the worker
is a name of that chat, or is marked as standing in for one, which `NameToStore` turns into
none.  Renaming only adds to `Own`, so a name read before it stays one of the chat's.

`AvatarsProofs` proves, for any peers, listers, limits and bounds:

| theorem | states |
|---|---|
| `TypeCorrect` | `Spec => []TypeOK` |
| `SlotsCorrect` | `Spec => []InFlight` |
| `PoolImplemented` | `Spec => PoolKept`: Avatars implements `FetchPool` |

Assumed: `AvatarsAssumption`, by which the sets are finite and every mark can have its
goroutine.  `InFlight` says that `sem` is the number of slot holders and `busy` the peers
of the marks; each claim, hand-over and release changes both sides alike (`ClaimInFlight`,
`LaunchInFlight`, `SlotFreed`, `MarkRemoved`), and every other step neither
(`InFlightFrame`).  That no two marks are about one peer does two things: taking a mark off
frees its peer, and a fetch that was let in finds an idle goroutine, by the pigeonhole
principle (`FetcherIdle`).  `TypeCorrect` needs besides that a fetch writes only a picture
there is (`FetchOK`) and that files named once are never unwritten (`Grows`).  The refinement
follows from the same invariant: a claim is `Admit`, because no more peers are fetched than
slots are held (`FetchedBounded`, by a surjection from the holders); the hand-over to the
goroutine changes nothing (`LaunchRefines`); and when a slot or a mark goes, nobody else is
about its peer (`OneSlotPerPeer`).

Only model-checked: all liveness and nothing else (`LoginEnds`, `CloseTerminates`, `BanRecovered`,
`HandlerUnblocked`, `AcceptedIsStored`, `CloseReturns`, `BroadcastEnds`, `ClosedIsLeft`,
`Backfilled`, `PictureArrives`, `LearnsName`), since the prover does not reason
about fairness and `ENABLED`.

## Where the code and its documents disagree

With a run that shows it:

1. *A badge that no `message.read` clears* (read_clears).  `docs/IPC.md` says
   the method zeroes the counter; it returns early when nothing is pending.  A
   call that comes between the worker's row and its increment marks the row read
   and zeroes the counter, and then the worker counts the message.
2. *A history batch that waits for itself* (history_ends).  `resolveName` is
   called inside the transaction, and part of the lookup goes to whatsmeow's store
   on the same one-connection pool.  The worker, and with it `Close`, never goes
   on.  This rests on one assumption about the library: that its store asks the
   database for what its caches do not hold, as the comment in `names.go`
   says.
3. *An old subject written over a new one* (rename_kept).  A comment in `persist.go` calls
   the subject in `cae_groups` authoritative for a group's chat; the resolver's cache is not
   told of a renaming, and the next message writes the cached name back.

Seen while modelling, and in the models, without a run of their own:

* A terminal state can be overwritten by a late `Disconnected`.  The comment at
  `service.go:517` calls it permanent; the check (`events.go:201`) and the transition are
  two critical sections, and a logout between them is overwritten.
* `auth.qr` after `auth.cancel`: `docs/IPC.md:268` excludes it; the consumer looks at its
  context before (`auth.go:139`), not while, it publishes a code.
* Messages discarded around shutdown: `docs/ARQUITETURA.md:132` says a Message event is
  never discarded; after `Persister.Close` the handler's `select` (`persist.go:187`) may drop
  it, or queue it for nobody.
* The lock released with the database open: a comment (`main.go:56`) has the lock held for the
  whole life of the process, so that two daemons never meet in SQLite.  If `ipcServer.Close` or
  `db.Close` fails, `run` returns, its deferred `lock.Close` releases the flock, and the database
  is open until the process is gone.  Another daemon can lock the directory and open it in
  between; `DatabaseSafe` and `DataDir` say so.  The process that is about to end has nothing
  left that would use the database (goroutines of whatsmeow's own are not modelled), but what
  SQLite itself still has to do at its end runs beside the other one.

Behaviour worth knowing, which contradicts no document:

* The answer of `GetGroupInfo` can be overtaken by a GroupInfo event, and the repair then
  stores the older subject (`group_repair.go:153`); likewise `message.send` writes back a
  chat name it read before (`methods.go:664`).
* Groups whose `GetGroupInfo` always fails use up the 25 questions of every pass that they
  come first in (`group_repair.go:116`).
* Rows without thumbnail whose protobuf has none are listed by every backfill; a thousand of
  them, and no later start gets past them (`thumb_repair.go:76`).  `Backfilled` is checked
  where a pass can list all.
* A scheduled avatar fetch that fails after `avatars.download` succeeded remembers "none"
  over the path for two minutes (`avatars.go:165`).  A full avatar cache takes nothing
  more until the process ends (`avatars.go:106`).  Peers without picture at the top of a
  list take the slots first, each time their entries have expired (`avatars.go:140`).
* Two daemons with different data directories and the same socket path remove each other's
  socket (`server.go:563`): `SocketServed` is stated for paths nobody else uses with
  another directory.
* If the IPC server cannot start, the persistence worker is left to the end of the process;
  if its `Close` fails, `db.Close` is skipped (`main.go:162`).

## What is not modelled

* **Configuration and logging**: options and redaction keep no state.
* **Command line client, shell client, shell configuration**: outside the daemon; they see
  it through the IPC server only.
* **Reactions, per-user receipts, sync state** (`persist.go`, `repo.go`): each is one upsert
  that no other state depends on.
* **Listings and searches**: queries; of `chats.list` and `chat.open` only what they write
  is modelled (names, avatars).
* **`banUntil`, presence**: shown by `auth.status` or sent, never read.
* **`WithMaxConns`, `WithReadIdleTimeout`, the check of a peer's uid**: not set by `main.go`,
  or without state.
* JSON and protobuf encoding, image decoding, HTTP, log texts, the contents of messages.

Under "Abstracted" above is what the modelled parts leave out.

## Plan

Done: the Service, Messaging, the IPC server, Media, Avatars, Names and Instance, each with
the proofs of its invariants; abstract specifications of the login slot, the mailbox, the
data directory and the pool of fetches, with the proofs that they are implemented.  Left, in
this order:

1. The composition of Persister, Service and IpcServer at shutdown, in place of `Instance`'s
   work in hand.
2. An abstract specification of the file cache (rows, files, thumbnails) that Media
   implements, and one of the chats' names that Names implements.
