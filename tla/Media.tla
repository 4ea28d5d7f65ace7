------------------------------- MODULE Media -------------------------------
(***************************************************************************)
(* Media files and their rows: media.download (media_methods.go),          *)
(* media.send (media_send.go), the media part of the persistence worker's  *)
(* message handler (persist.go) and the thumbnail backfill                 *)
(* (thumb_repair.go).                                                      *)
(*                                                                         *)
(* All of them write files and rows of one database, none takes a lock.    *)
(* What keeps them apart is the order of their steps: a temporary file, a  *)
(* rename, then the row.  One action is one such step.                     *)
(***************************************************************************)
EXTENDS MediaStore

CONSTANTS
  Downloads,    \* calls of media.download that can run at once
  Own,          \* messages this daemon sends; the others are received
  Legacy,       \* messages whose rows an older build stored without thumbnail
  PassSize,     \* ThumbRepairMaxPerRun, clamped to MaxListLimit (1000 in the code)
  MaxDownloads, \* bound: calls of media.download
  MaxDeliveries,\* bound: messages delivered, redeliveries and echoes included
  MaxFaults,    \* bound: steps that fail, crashes
  MaxRemovals   \* bound: cached files the user removes

ASSUME CallsAssumption ==
  /\ Own \subseteq Messages /\ Legacy \subseteq Messages \ Own
  /\ PassSize \in Nat \ {0}
  /\ Downloads \cap {"scratch", "copy"} = {}
  /\ MaxDownloads \in Nat /\ MaxDeliveries \in Nat /\ MaxFaults \in Nat /\ MaxRemovals \in Nat

VARIABLES
  rows,        \* messages with a row in cae_messages
  media,       \* cae_media
  files,       \* cache/<kind>/<digest>.<ext>
  removed,     \* cached files the user removed
  thumbs,      \* thumbnails/<digest>.jpg
  temps,       \* temporary files, by the call that created them
  download,    \* per call of media.download: next step, message, its thumbnail
  send,        \* media.send: next step, message, its thumbnail, whether its row is new
  onNetwork,   \* own messages the network has
  work,        \* the worker, likewise
  repair,      \* the backfill: next step, rows still to do, the one in hand
  published,   \* how often message.received was published for a message
  cut,         \* messages whose handler a fault cut off
  slipped,     \* rows a fault made the backfill pass over
  budget       \* what is left of the bounds

tables == <<rows, media>>
disk == <<files, removed, thumbs>>
sends == <<send, onNetwork>>
repairs == <<repair, slipped>>
notices == <<published, cut>>
vars == <<tables, disk, temps, download, sends, work, repairs, notices, budget>>

NoMessage == "none"
TempOwners == Downloads \cup {"scratch", "copy"}

\* Nothing in hand.
Returned == [at |-> "idle", msg |-> NoMessage, thumb |-> NoFile]
Idle == [at |-> "idle", msg |-> NoMessage, thumb |-> NoFile, fresh |-> FALSE]

\* Rows of an older build, and a backfill that EnablePersistence has kicked.
Init ==
  /\ rows = Legacy
  /\ media = [m \in Messages |-> IF m \in Legacy THEN [NoRow EXCEPT !.status = "known"] ELSE NoRow]
  /\ files = [f \in Digests |-> "absent"] /\ removed = {} /\ thumbs = {}
  /\ temps = [o \in TempOwners |-> "none"]
  /\ download = [d \in Downloads |-> Returned]
  /\ send = Idle /\ onNetwork = {} /\ work = Idle
  /\ repair = [at |-> "list", todo |-> {}, msg |-> NoMessage]
  /\ published = [m \in Messages |-> 0] /\ cut = {} /\ slipped = {}
  /\ budget = [downloads |-> MaxDownloads, deliveries |-> MaxDeliveries,
               faults |-> MaxFaults, removals |-> MaxRemovals]

Fault == budget.faults > 0 /\ budget' = [budget EXCEPT !.faults = @ - 1]

\* Rename: the temporary file takes the name of its content, whoever else wrote it.
PutInPlace(o, f) ==
  /\ files' = [files EXCEPT ![f] = temps[o]]
  /\ removed' = removed \ {f}
  /\ temps' = [temps EXCEPT ![o] = "none"]

Discard(o) == temps' = [temps EXCEPT ![o] = "none"]

\* A temporary file of its own and a rename: to its readers a thumbnail is there or not.
writeThumbFile(f) == thumbs' = thumbs \cup {f}

-----------------------------------------------------------------------------
(* media.download                                                          *)

Step(d, at) == download' = [download EXCEPT ![d].at = at]
Return(d) == download' = [download EXCEPT ![d] = Returned]
DownloadFrame == UNCHANGED <<rows, sends, work, repairs, notices>>

\* MediaDownload up to the temporary file.  A row marked done is answered from the
\* cache if its file is still there, which changes nothing.
MediaDownload(d, m) ==
  /\ download[d].at = "idle" /\ budget.downloads > 0
  /\ m \in rows /\ media[m].status # "absent"
  /\ ~(media[m].status = "done" /\ files[media[m].path] # "absent")
  /\ temps' = [temps EXCEPT ![d] = "partial"]
  /\ download' = [download EXCEPT ![d] = [Returned EXCEPT !.at = "fetch", !.msg = m]]
  /\ budget' = [budget EXCEPT !.downloads = @ - 1]
  /\ UNCHANGED <<media, disk>> /\ DownloadFrame

\* Wrong variant: an interrupted transfer is taken for a complete one.
DownloadToFile_IgnoresError(d) ==
  /\ download[d].at = "fetch"
  /\ \/ temps' = [temps EXCEPT ![d] = "whole"] /\ UNCHANGED budget
     \/ Fault /\ UNCHANGED temps
  /\ Step(d, "rename")
  /\ UNCHANGED <<media, disk>> /\ DownloadFrame

\* whatsmeow's DownloadToFile, external, which also verifies the digest; and the close.
DownloadToFile(d) ==
  /\ download[d].at = "fetch"
  /\ \/ temps' = [temps EXCEPT ![d] = "whole"] /\ Step(d, "rename") /\ UNCHANGED budget
     \/ Fault /\ Discard(d) /\ Return(d)
  /\ UNCHANGED <<media, disk>> /\ DownloadFrame

\* Rename, and the mode.  A rename that fails removes the temporary file; a chmod that
\* fails leaves the file under its name, unknown to the database.
PlaceDownload(d) ==
  /\ download[d].at = "rename"
  /\ \/ PutInPlace(d, ContentOf[download[d].msg]) /\ Step(d, "thumb") /\ UNCHANGED budget
     \/ Fault /\ PutInPlace(d, ContentOf[download[d].msg]) /\ Return(d)
     \/ Fault /\ Discard(d) /\ Return(d) /\ UNCHANGED <<files, removed>>
  /\ UNCHANGED <<media, thumbs>> /\ DownloadFrame

\* Wrong variant: the row names the thumbnail that could not be written.
ThumbnailDownload_NamesFailed(d) ==
  LET m == download[d].msg IN
  /\ download[d].at = "thumb"
  /\ \/ m \in Embedding /\ thumbs' = thumbs \cup {ContentOf[m]} /\ UNCHANGED budget
     \/ m \notin Embedding /\ UNCHANGED <<thumbs, budget>>
     \/ m \in Embedding /\ Fault /\ UNCHANGED thumbs
  /\ download' = [download EXCEPT ![d].thumb = IF m \in Embedding THEN ContentOf[m] ELSE NoFile,
                                 ![d].at = "mark"]
  /\ UNCHANGED <<media, files, removed, temps>> /\ DownloadFrame

\* A thumbnail that cannot be written is done without.
ThumbnailDownload(d) ==
  LET m == download[d].msg IN
  /\ download[d].at = "thumb"
  /\ \/ /\ m \in Embedding
        /\ writeThumbFile(ContentOf[m])
        /\ download' = [download EXCEPT ![d].thumb = ContentOf[m], ![d].at = "mark"]
        /\ UNCHANGED budget
     \/ m \notin Embedding /\ Step(d, "mark") /\ UNCHANGED <<thumbs, budget>>
     \/ m \in Embedding /\ Fault /\ Step(d, "mark") /\ UNCHANGED thumbs
  /\ UNCHANGED <<media, files, removed, temps>> /\ DownloadFrame

\* The row.  The call answers with the file either way.
MarkDownload(d) ==
  LET m == download[d].msg IN
  /\ download[d].at = "mark"
  /\ \/ media' = MarkMediaDownloaded(media, m, ContentOf[m], download[d].thumb) /\ UNCHANGED budget
     \/ Fault /\ UNCHANGED media
  /\ Return(d)
  /\ UNCHANGED <<disk, temps>> /\ DownloadFrame

DownloadStep(d) ==
  DownloadToFile(d) \/ PlaceDownload(d) \/ ThumbnailDownload(d) \/ MarkDownload(d)

-----------------------------------------------------------------------------
(* media.send                                                              *)

SendAt(at) == send' = [send EXCEPT !.at = at]
SendFrame == UNCHANGED <<download, work, repairs>>

\* The handler returns: whatever it still has in temporary files goes.
ReturnFromSend ==
  /\ send' = Idle
  /\ temps' = [temps EXCEPT !["scratch"] = "none", !["copy"] = "none"]

\* The checks passed and the scratch file for the encrypted bytes exists.
MediaSend(m) ==
  /\ send.at = "idle" /\ m \in Own \ onNetwork
  /\ send' = [Idle EXCEPT !.at = "send", !.msg = m]
  /\ temps' = [temps EXCEPT !["scratch"] = "partial"]
  /\ UNCHANGED <<tables, disk, onNetwork, notices, budget>> /\ SendFrame

\* Upload and SendMessage.  A call that failed can have reached the network.
UploadAndSend ==
  /\ send.at = "send"
  /\ \/ onNetwork' = onNetwork \cup {send.msg} /\ SendAt("copy") /\ UNCHANGED <<temps, budget>>
     \/ Fault /\ onNetwork' \in {onNetwork, onNetwork \cup {send.msg}} /\ ReturnFromSend
  /\ UNCHANGED <<tables, disk, notices>> /\ SendFrame

\* copyToCache: a file of that name is taken as it is, otherwise the source is copied.
copyToCache ==
  /\ send.at = "copy"
  /\ \/ files[ContentOf[send.msg]] # "absent" /\ SendAt("thumb") /\ UNCHANGED <<temps, budget>>
     \/ /\ files[ContentOf[send.msg]] = "absent"
        /\ SendAt("rename") /\ temps' = [temps EXCEPT !["copy"] = "whole"] /\ UNCHANGED budget
     \/ Fault /\ ReturnFromSend
  /\ UNCHANGED <<tables, disk, onNetwork, notices>> /\ SendFrame

\* As with a download, a chmod that fails leaves the file under its name.
PlaceCopy ==
  LET f == ContentOf[send.msg] IN
  /\ send.at = "rename"
  /\ \/ PutInPlace("copy", f) /\ SendAt("thumb") /\ UNCHANGED budget
     \/ Fault /\ files' = [files EXCEPT ![f] = temps["copy"]] /\ removed' = removed \ {f} /\ ReturnFromSend
     \/ Fault /\ ReturnFromSend /\ UNCHANGED <<files, removed>>
  /\ UNCHANGED <<tables, thumbs, onNetwork, notices>> /\ SendFrame

\* The thumbnail of an image sent from here is made from the image.
ThumbnailSend ==
  LET m == send.msg IN
  /\ send.at = "thumb"
  /\ \/ /\ m \in Embedding /\ writeThumbFile(ContentOf[m])
        /\ send' = [send EXCEPT !.thumb = ContentOf[m], !.at = "insert"] /\ UNCHANGED budget
     \/ m \notin Embedding /\ SendAt("insert") /\ UNCHANGED <<thumbs, budget>>
     \/ m \in Embedding /\ Fault /\ SendAt("insert") /\ UNCHANGED thumbs
  /\ UNCHANGED <<tables, files, removed, temps, onNetwork, notices>> /\ SendFrame

\* finalizeSentMedia's statements; one that fails ends the call, which still succeeds.
InsertSent ==
  /\ send.at = "insert"
  /\ \/ /\ rows' = rows \cup {send.msg}
        /\ send' = [send EXCEPT !.fresh = send.msg \notin rows, !.at = "media"]
        /\ UNCHANGED <<temps, budget>>
     \/ Fault /\ ReturnFromSend /\ UNCHANGED rows
  /\ UNCHANGED <<media, disk, onNetwork, notices>> /\ SendFrame

CutSend ==
  Fault /\ ReturnFromSend /\ cut' = IF send.fresh THEN cut \cup {send.msg} ELSE cut

UpsertSent ==
  /\ send.at = "media"
  /\ \/ /\ media' = UpsertMedia(media, send.msg, send.thumb)
        /\ SendAt("mark") /\ UNCHANGED <<temps, cut, budget>>
     \/ CutSend /\ UNCHANGED media
  /\ UNCHANGED <<rows, disk, onNetwork, published>> /\ SendFrame

MarkSent ==
  /\ send.at = "mark"
  /\ \/ /\ media' = MarkMediaDownloaded(media, send.msg, ContentOf[send.msg], send.thumb)
        /\ SendAt("publish") /\ UNCHANGED <<temps, cut, budget>>
     \/ CutSend /\ UNCHANGED media
  /\ UNCHANGED <<rows, disk, onNetwork, published>> /\ SendFrame

\* Wrong variant: the events go out whether or not the echo was stored before.
PublishSent_Always ==
  /\ send.at = "publish" /\ ReturnFromSend
  /\ published' = [published EXCEPT ![send.msg] = @ + 1]
  /\ UNCHANGED <<tables, disk, onNetwork, cut, budget>> /\ SendFrame

\* The chat's last message and the events, only if the row was new.
PublishSent ==
  /\ send.at = "publish"
  /\ \/ /\ ReturnFromSend
        /\ published' = IF send.fresh THEN [published EXCEPT ![send.msg] = @ + 1] ELSE published
        /\ UNCHANGED <<cut, budget>>
     \/ send.fresh /\ CutSend /\ UNCHANGED published
  /\ UNCHANGED <<tables, disk, onNetwork>> /\ SendFrame

SendStep ==
  \/ UploadAndSend \/ copyToCache \/ PlaceCopy \/ ThumbnailSend
  \/ InsertSent \/ UpsertSent \/ MarkSent \/ PublishSent

-----------------------------------------------------------------------------
(* The persistence worker's handler of a media message                     *)

WorkFrame == UNCHANGED <<files, removed, temps, download, sends, repairs>>

\* An own message comes back as an echo; messages are delivered more than once.
Deliver(m) ==
  /\ work.at = "idle" /\ budget.deliveries > 0
  /\ m \in Own => m \in onNetwork
  /\ work' = [Idle EXCEPT !.at = "thumb", !.msg = m]
  /\ budget' = [budget EXCEPT !.deliveries = @ - 1]
  /\ UNCHANGED <<tables, thumbs, notices>> /\ WorkFrame

attachEmbeddedThumb ==
  LET m == work.msg IN
  /\ work.at = "thumb"
  /\ \/ /\ m \in Embedding /\ writeThumbFile(EmbeddedOf[m])
        /\ work' = [work EXCEPT !.thumb = EmbeddedOf[m], !.at = "insert"] /\ UNCHANGED budget
     \/ m \notin Embedding /\ work' = [work EXCEPT !.at = "insert"] /\ UNCHANGED <<thumbs, budget>>
     \/ m \in Embedding /\ Fault /\ work' = [work EXCEPT !.at = "insert"] /\ UNCHANGED thumbs
  /\ UNCHANGED <<tables, notices>> /\ WorkFrame

InsertDelivered ==
  /\ work.at = "insert"
  /\ \/ /\ rows' = rows \cup {work.msg}
        /\ work' = [work EXCEPT !.fresh = work.msg \notin rows, !.at = "media"]
        /\ UNCHANGED budget
     \/ Fault /\ work' = Idle /\ UNCHANGED rows
  /\ UNCHANGED <<media, thumbs, notices>> /\ WorkFrame

CutWork == Fault /\ work' = Idle /\ cut' = IF work.fresh THEN cut \cup {work.msg} ELSE cut

\* The media row is refined even when the message's row was there.
UpsertDelivered ==
  /\ work.at = "media"
  /\ \/ /\ media' = UpsertMedia(media, work.msg, work.thumb)
        /\ work' = IF work.fresh THEN [work EXCEPT !.at = "publish"] ELSE Idle
        /\ UNCHANGED <<cut, budget>>
     \/ CutWork /\ UNCHANGED media
  /\ UNCHANGED <<rows, thumbs, published>> /\ WorkFrame

PublishDelivered ==
  /\ work.at = "publish"
  /\ \/ /\ work' = Idle /\ published' = [published EXCEPT ![work.msg] = @ + 1]
        /\ UNCHANGED <<cut, budget>>
     \/ CutWork /\ UNCHANGED published
  /\ UNCHANGED <<tables, thumbs>> /\ WorkFrame

WorkStep == attachEmbeddedThumb \/ InsertDelivered \/ UpsertDelivered \/ PublishDelivered

-----------------------------------------------------------------------------
(* The thumbnail backfill: one pass per start of the daemon                *)

RepairFrame == UNCHANGED <<rows, files, removed, temps, download, sends, work, notices>>

\* Wrong variant: the list is not ordered by age.
Oldest_AnyOrder(pending, some) ==
  IF Cardinality(pending) <= PassSize THEN some = pending ELSE Cardinality(some) = PassSize

\* The oldest rows, PassSize of them if there are as many; of rows this build stored,
\* any is the older one.
Oldest(pending, some) ==
  /\ IF Cardinality(pending) <= PassSize THEN some = pending ELSE Cardinality(some) = PassSize
  /\ some \subseteq Legacy \/ pending \cap Legacy \subseteq some

\* What RunOnce lists.  A list that cannot be read ends the pass.
ListPending ==
  /\ repair.at = "list"
  /\ \/ /\ \E some \in SUBSET PendingThumbnails(media) :
             /\ Oldest(PendingThumbnails(media), some)
             /\ repair' = [repair EXCEPT !.at = "next", !.todo = some]
        /\ UNCHANGED <<slipped, budget>>
     \/ /\ Fault /\ repair' = [repair EXCEPT !.at = "done"]
        /\ slipped' = slipped \cup PendingThumbnails(media)
  /\ UNCHANGED <<media, thumbs>> /\ RepairFrame

\* Wrong variant: the first row without a thumbnail of its own ends the pass.
RepairNext_StopsEarly ==
  /\ repair.at = "next"
  /\ \E m \in repair.todo :
       repair' = IF m \in Embedding
                   THEN [at |-> "write", todo |-> repair.todo \ {m}, msg |-> m]
                   ELSE [repair EXCEPT !.todo = {}]
  /\ UNCHANGED <<media, thumbs, slipped, budget>> /\ RepairFrame

\* A row whose protobuf has no thumbnail is passed over.
RepairNext ==
  /\ repair.at = "next"
  /\ \E m \in repair.todo :
       repair' = IF m \in Embedding
                   THEN [at |-> "write", todo |-> repair.todo \ {m}, msg |-> m]
                   ELSE [repair EXCEPT !.todo = @ \ {m}]
  /\ UNCHANGED <<media, thumbs, slipped, budget>> /\ RepairFrame

RowDone == repair' = [repair EXCEPT !.at = "next", !.msg = NoMessage]
SlipBy == Fault /\ RowDone /\ slipped' = slipped \cup {repair.msg}

RepairWrite ==
  /\ repair.at = "write"
  /\ \/ /\ writeThumbFile(EmbeddedOf[repair.msg])
        /\ repair' = [repair EXCEPT !.at = "store"] /\ UNCHANGED <<slipped, budget>>
     \/ SlipBy /\ UNCHANGED thumbs
  /\ UNCHANGED media /\ RepairFrame

\* The list was read long ago: the row can have got a thumbnail meanwhile.
RepairStore ==
  /\ repair.at = "store"
  /\ \/ /\ media' = SetMediaThumbPath(media, repair.msg, EmbeddedOf[repair.msg])
        /\ RowDone /\ UNCHANGED <<slipped, budget>>
     \/ SlipBy /\ UNCHANGED media
  /\ UNCHANGED thumbs /\ RepairFrame

\* Kick never starts another pass in this process.
EndRepair ==
  /\ repair.at = "next" /\ repair.todo = {}
  /\ repair' = [repair EXCEPT !.at = "done"]
  /\ UNCHANGED <<media, thumbs, slipped, budget>> /\ RepairFrame

RepairStep == ListPending \/ RepairNext \/ RepairWrite \/ RepairStore \/ EndRepair

-----------------------------------------------------------------------------
(* Crashes, and the user                                                   *)

\* Whether one of the two handlers is between a message's row and its announcement.
Receiving(m) == work.msg = m /\ work.fresh
Finalizing(m) == send.msg = m /\ send.fresh

\* The process ends at any moment and is started again.  Tables and files remain,
\* temporary files too, which nobody owns or looks at any more.
Crash ==
  /\ Fault
  /\ temps' = [o \in TempOwners |-> "none"]
  /\ download' = [d \in Downloads |-> Returned] /\ send' = Idle /\ work' = Idle
  /\ cut' = cut \cup {m \in Messages : Receiving(m) \/ Finalizing(m)}
  /\ repair' = [at |-> "list", todo |-> {}, msg |-> NoMessage]
  /\ UNCHANGED <<tables, disk, onNetwork, slipped, published>>

\* The user empties a cache directory.
RemoveFile(f) ==
  /\ budget.removals > 0 /\ files[f] # "absent"
  /\ files' = [files EXCEPT ![f] = "absent"] /\ removed' = removed \cup {f}
  /\ budget' = [budget EXCEPT !.removals = @ - 1]
  /\ UNCHANGED <<tables, thumbs, temps, download, sends, work, repairs, notices>>

Next ==
  \/ \E d \in Downloads, m \in Messages : MediaDownload(d, m)
  \/ \E d \in Downloads : DownloadStep(d)
  \/ \E m \in Messages : MediaSend(m) \/ Deliver(m)
  \/ SendStep \/ WorkStep \/ RepairStep
  \/ Crash
  \/ \E f \in Digests : RemoveFile(f)

Spec == Init /\ [][Next]_vars

\* Whoever has begun goes on; nobody has to call, deliver, crash or remove anything.
\* Transfers have timeouts, so each ends, one way or the other.
FairSpec ==
  /\ Spec
  /\ \A d \in Downloads : WF_vars(DownloadStep(d))
  /\ WF_vars(SendStep) /\ WF_vars(WorkStep) /\ WF_vars(RepairStep)

-----------------------------------------------------------------------------
(* Properties                                                              *)

TablesOK ==
  /\ rows \subseteq Messages /\ media \in [Messages -> Rows]
  /\ files \in [Digests -> {"absent", "whole"}]   \* never part of a file
  /\ removed \subseteq Digests /\ thumbs \subseteq Digests
DownloadOK ==
  /\ temps \in [TempOwners -> {"none", "whole", "partial"}]
  /\ download \in [Downloads -> [at : {"idle", "fetch", "rename", "thumb", "mark"},
                                 msg : Messages \cup {NoMessage}, thumb : Paths]]
SendOK ==
  send \in [at : {"idle", "send", "copy", "rename", "thumb", "insert", "media", "mark", "publish"},
            msg : Messages \cup {NoMessage}, thumb : Paths, fresh : BOOLEAN]
WorkOK ==
  work \in [at : {"idle", "thumb", "insert", "media", "publish"},
            msg : Messages \cup {NoMessage}, thumb : Paths, fresh : BOOLEAN]
RepairOK ==
  repair \in [at : {"list", "next", "write", "store", "done"},
              todo : SUBSET Messages, msg : Messages \cup {NoMessage}]
CountsOK ==
  /\ onNetwork \subseteq Own
  /\ published \in [Messages -> Nat] /\ cut \subseteq Messages /\ slipped \subseteq Messages
  /\ budget \in [downloads : Nat, deliveries : Nat, faults : Nat, removals : Nat]

TypeOK == TablesOK /\ DownloadOK /\ SendOK /\ WorkOK /\ RepairOK /\ CountsOK

\* A row marked done names the file with its message's content, and that file is there
\* and whole unless the user removed it; a thumbnail that a row names was written before.
\* Nobody's temporary file outlives the call that made it.
CacheAgrees ==
  /\ \A m \in Messages :
       /\ media[m].status = "done" =>
            /\ media[m].path = ContentOf[m]
            /\ files[ContentOf[m]] = "whole" \/ ContentOf[m] \in removed
       /\ media[m].thumb # NoFile => media[m].thumb \in thumbs
  /\ \A d \in Downloads : temps[d] # "none" => download[d].at \in {"fetch", "rename"}
  /\ temps["scratch"] # "none" \/ temps["copy"] # "none" => send.at # "idle"

\* A message is announced once, by whichever of its echo and finalizeSentMedia stored
\* its row, and it is announced unless a fault cut that handler off.
AnnouncedOnce ==
  \A m \in Messages :
    /\ published[m] <= 1
    /\ published[m] = 1 => m \in rows
    /\ m \in rows \ (Legacy \cup cut) =>
         IF Receiving(m) \/ Finalizing(m) THEN published[m] = 0 ELSE published[m] = 1

\* What the pass has listed and not yet done.
Ahead(m) ==
  \/ repair.at \in {"next", "write", "store"} /\ m \in repair.todo
  \/ repair.at \in {"write", "store"} /\ m = repair.msg

\* The backfill forgets no row that it can help: from the listing on, each of them has its
\* thumbnail or the pass has it ahead, unless a fault made it pass over the row; so at the
\* end of the pass none is left.  This is where a pass can list all rows of an older build,
\* whatever rows this build has left without thumbnail.
PassComplete ==
  Cardinality(Legacy) <= PassSize /\ repair.at # "list" =>
    \A m \in Legacy \cap Embedding : media[m].thumb # NoFile \/ m \in slipped \/ Ahead(m)

\* What is downloaded stays downloaded and what has a thumbnail keeps one, whatever is
\* redelivered, echoed or backfilled meanwhile.
CachedStays ==
  [][\A m \in Messages :
       /\ media[m].status = "done" => media'[m].status = "done"
       /\ media[m].thumb # NoFile => media'[m].thumb # NoFile]_vars

\* A row stored without the thumbnail of its protobuf gets it, if a pass holds all such
\* rows: the backfill reaches it, past the rows that have none to give, or a fault
\* made it pass over this one.
Backfilled ==
  \A m \in Legacy \cap Embedding : <>(media[m].thumb # NoFile \/ m \in slipped)

=============================================================================
