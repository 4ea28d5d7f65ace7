----------------------------- MODULE MediaProofs -----------------------------
(***************************************************************************)
(* Proofs about Media.tla, for any number of messages, digests and         *)
(* downloads.                                                              *)
(*                                                                         *)
(* The argument: what a call still has to do says what it has done.  A     *)
(* call that reached its rename holds a whole file, one that passed it has *)
(* its file in the cache unless the user removed it, one that holds a      *)
(* thumbnail has written it.  So the row, which comes last, is right when  *)
(* it is written, and no other call's step makes it wrong: files and       *)
(* thumbnails are only added, except by the user.                          *)
(***************************************************************************)
EXTENDS Media, FiniteSetTheorems, TLAPS

\* The file was put in the cache, whole, and nobody but the user took it away.
Seen(f) == files[f] = "whole" \/ f \in removed

\* What a download in progress has done so far, by its next step.
DownloadFacts ==
  \A d \in Downloads :
    /\ download[d].at # "idle" => download[d].msg \in Messages
    /\ temps[d] # "none" => download[d].at \in {"fetch", "rename"}
    /\ download[d].at = "rename" => temps[d] = "whole"
    /\ download[d].at \in {"thumb", "mark"} => Seen(ContentOf[download[d].msg])
    /\ download[d].thumb \in thumbs \cup {NoFile}

\* The same of media.send,
SendFacts ==
  /\ send.at # "idle" => send.msg \in Own
  /\ temps["scratch"] # "none" \/ temps["copy"] # "none" => send.at # "idle"
  /\ send.at = "rename" => temps["copy"] = "whole"
  /\ send.at \in {"thumb", "insert", "media", "mark", "publish"} => Seen(ContentOf[send.msg])
  /\ send.thumb \in thumbs \cup {NoFile}

\* of the worker,
WorkFacts ==
  /\ work.at # "idle" => work.msg \in Messages
  /\ work.thumb \in thumbs \cup {NoFile}

\* and of the backfill.
RepairFacts ==
  /\ repair.at \in {"write", "store"} => repair.msg \in Messages
  /\ repair.at = "store" => EmbeddedOf[repair.msg] \in thumbs

\* What the rows say is so.
RowFacts ==
  \A m \in Messages :
    /\ media[m].status = "done" => media[m].path = ContentOf[m] /\ Seen(ContentOf[m])
    /\ media[m].thumb # NoFile => media[m].thumb \in thumbs

CallFacts == DownloadFacts /\ SendFacts /\ WorkFacts /\ RepairFacts
\* The inductive invariant.
IInv == TypeOK /\ CallFacts /\ RowFacts

\* A handler or a call with nothing in hand is well formed.
LEMMA IdleTyped ==
  /\ Idle \in [at : {"idle", "send", "copy", "rename", "thumb", "insert", "media", "mark", "publish"},
              msg : Messages \cup {NoMessage}, thumb : Paths, fresh : BOOLEAN]
  /\ Idle \in [at : {"idle", "thumb", "insert", "media", "publish"},
              msg : Messages \cup {NoMessage}, thumb : Paths, fresh : BOOLEAN]
  BY DEF Idle, Paths

LEMMA ReturnedTyped ==
  Returned \in [at : {"idle", "fetch", "rename", "thumb", "mark"}, msg : Messages \cup {NoMessage}, thumb : Paths]
  BY DEF Returned, Paths

-----------------------------------------------------------------------------
(* Every action keeps the invariant: media.download                        *)

\* The call begins with a temporary file of its own.
LEMMA MediaDownloadStep ==
  ASSUME NEW d \in Downloads, NEW m \in Messages, IInv, MediaDownload(d, m) PROVE IInv'
<1> USE DEF IInv, TypeOK, CallFacts, MediaDownload, DownloadFrame, tables, disk, sends, repairs, notices
<1>1. TablesOK'
  BY MediaAssumption, CallsAssumption DEF TablesOK, DownloadOK, SendOK, WorkOK, RepairOK, DownloadFacts, SendFacts, WorkFacts, RepairFacts, Rows, Paths, TempOwners
<1>2. DownloadOK'
  BY MediaAssumption, CallsAssumption, ReturnedTyped DEF TablesOK, DownloadOK, Paths, TempOwners, DownloadFacts
<1>3. (SendOK /\ WorkOK /\ RepairOK)'
  BY MediaAssumption, CallsAssumption DEF TablesOK, SendOK, Paths, SendFacts, WorkOK, WorkFacts, RepairOK, NoMessage
<1>4. CountsOK'
  BY MediaAssumption, CallsAssumption DEF CountsOK, SendOK, WorkOK, RepairOK, TablesOK, SendFacts, WorkFacts, RepairFacts
<1>5. DownloadFacts'
  BY MediaAssumption, CallsAssumption DEF TablesOK, DownloadOK, DownloadFacts, Seen, TempOwners, Returned
<1>6. SendFacts'
  BY MediaAssumption, CallsAssumption DEF TablesOK, DownloadOK, SendOK, SendFacts, DownloadFacts, Seen, TempOwners, Idle
<1>7. (WorkFacts /\ RepairFacts)'
  BY MediaAssumption, CallsAssumption DEF TablesOK, WorkOK, WorkFacts, Idle, RepairOK, RepairFacts
<1>8. RowFacts'
  BY MediaAssumption, CallsAssumption DEF TablesOK, DownloadOK, DownloadFacts, SendOK, SendFacts, WorkOK, WorkFacts, RepairOK, RepairFacts, RowFacts, Seen, Rows, TempOwners
<1>9. QED BY <1>1, <1>2, <1>3, <1>4, <1>5, <1>6, <1>7, <1>8

\* The transfer ends whole, or the call returns without its temporary file.
LEMMA DownloadToFileStep ==
  ASSUME NEW d \in Downloads, IInv, DownloadToFile(d) PROVE IInv'
<1> USE DEF IInv, TypeOK, CallFacts, DownloadToFile, DownloadFrame, Step, Return, Discard, Fault, tables, disk, sends, repairs, notices
<1>1. TablesOK'
  BY MediaAssumption, CallsAssumption DEF TablesOK, DownloadOK, SendOK, WorkOK, RepairOK, DownloadFacts, SendFacts, WorkFacts, RepairFacts, Rows, Paths, TempOwners
<1>2. DownloadOK'
  BY MediaAssumption, CallsAssumption, ReturnedTyped DEF TablesOK, DownloadOK, Paths, TempOwners, DownloadFacts
<1>3. (SendOK /\ WorkOK /\ RepairOK)'
  BY MediaAssumption, CallsAssumption DEF TablesOK, SendOK, Paths, SendFacts, WorkOK, WorkFacts, RepairOK, NoMessage
<1>4. CountsOK'
  BY MediaAssumption, CallsAssumption DEF CountsOK, SendOK, WorkOK, RepairOK, TablesOK, SendFacts, WorkFacts, RepairFacts
<1>5. DownloadFacts'
  BY MediaAssumption, CallsAssumption DEF TablesOK, DownloadOK, DownloadFacts, Seen, TempOwners, Returned
<1>6. SendFacts'
  BY MediaAssumption, CallsAssumption DEF TablesOK, DownloadOK, SendOK, SendFacts, DownloadFacts, Seen, TempOwners, Idle
<1>7. (WorkFacts /\ RepairFacts)'
  BY MediaAssumption, CallsAssumption DEF TablesOK, WorkOK, WorkFacts, Idle, RepairOK, RepairFacts
<1>8. RowFacts'
  BY MediaAssumption, CallsAssumption DEF TablesOK, DownloadOK, DownloadFacts, SendOK, SendFacts, WorkOK, WorkFacts, RepairOK, RepairFacts, RowFacts, Seen, Rows, TempOwners
<1>9. QED BY <1>1, <1>2, <1>3, <1>4, <1>5, <1>6, <1>7, <1>8

\* The rename puts a whole file in place.
LEMMA PlaceDownloadStep ==
  ASSUME NEW d \in Downloads, IInv, PlaceDownload(d) PROVE IInv'
<1> USE DEF IInv, TypeOK, CallFacts, PlaceDownload, DownloadFrame, Step, Return, Discard, PutInPlace, Fault, tables, disk, sends, repairs, notices
<1>1. TablesOK'
  BY MediaAssumption, CallsAssumption DEF TablesOK, DownloadOK, SendOK, WorkOK, RepairOK, DownloadFacts, SendFacts, WorkFacts, RepairFacts, Rows, Paths, TempOwners
<1>2. DownloadOK'
  <2>1. CASE Step(d, "thumb")
    BY <2>1 DEF DownloadOK
  <2>2. CASE Return(d)
    BY <2>2, ReturnedTyped DEF DownloadOK
  <2>3. temps' \in [TempOwners -> {"none", "whole", "partial"}]
    BY DEF DownloadOK
  <2>4. QED BY <2>1, <2>2, <2>3 DEF DownloadOK
<1>3. (SendOK /\ WorkOK /\ RepairOK)'
  BY MediaAssumption, CallsAssumption DEF TablesOK, SendOK, Paths, SendFacts, WorkOK, WorkFacts, RepairOK, NoMessage
<1>4. CountsOK'
  BY MediaAssumption, CallsAssumption DEF CountsOK, SendOK, WorkOK, RepairOK, TablesOK, SendFacts, WorkFacts, RepairFacts
<1>5. DownloadFacts'
  BY MediaAssumption, CallsAssumption DEF TablesOK, DownloadOK, DownloadFacts, Seen, TempOwners, Returned
<1>6. SendFacts'
  BY MediaAssumption, CallsAssumption DEF TablesOK, DownloadOK, SendOK, SendFacts, DownloadFacts, Seen, TempOwners, Idle
<1>7. (WorkFacts /\ RepairFacts)'
  BY MediaAssumption, CallsAssumption DEF TablesOK, WorkOK, WorkFacts, Idle, RepairOK, RepairFacts
<1>8. RowFacts'
  BY MediaAssumption, CallsAssumption DEF TablesOK, DownloadOK, DownloadFacts, SendOK, SendFacts, WorkOK, WorkFacts, RepairOK, RepairFacts, RowFacts, Seen, Rows, TempOwners
<1>9. QED BY <1>1, <1>2, <1>3, <1>4, <1>5, <1>6, <1>7, <1>8

\* The thumbnail is written before the call holds its name.
LEMMA ThumbnailDownloadStep ==
  ASSUME NEW d \in Downloads, IInv, ThumbnailDownload(d) PROVE IInv'
<1> USE DEF IInv, TypeOK, CallFacts, ThumbnailDownload, writeThumbFile, DownloadFrame, Step, Fault, tables, disk, sends, repairs, notices
<1>1. TablesOK'
  BY MediaAssumption, CallsAssumption DEF TablesOK, DownloadOK, SendOK, WorkOK, RepairOK, DownloadFacts, SendFacts, WorkFacts, RepairFacts, Rows, Paths, TempOwners
<1>2. DownloadOK'
  <2>1. download' = [download EXCEPT ![d].thumb = ContentOf[download[d].msg], ![d].at = "mark"]
          \/ Step(d, "mark")
    OBVIOUS
  <2>2. download[d].msg \in Messages
    BY DEF DownloadFacts
  <2>3. QED BY <2>1, <2>2, MediaAssumption DEF DownloadOK, Paths
<1>3. (SendOK /\ WorkOK /\ RepairOK)'
  BY MediaAssumption, CallsAssumption DEF TablesOK, SendOK, Paths, SendFacts, WorkOK, WorkFacts, RepairOK, NoMessage
<1>4. CountsOK'
  BY MediaAssumption, CallsAssumption DEF CountsOK, SendOK, WorkOK, RepairOK, TablesOK, SendFacts, WorkFacts, RepairFacts
<1>5. DownloadFacts'
  BY MediaAssumption, CallsAssumption DEF TablesOK, DownloadOK, DownloadFacts, Seen, TempOwners, Returned
<1>6. SendFacts'
  BY MediaAssumption, CallsAssumption DEF TablesOK, DownloadOK, SendOK, SendFacts, DownloadFacts, Seen, TempOwners, Idle
<1>7. (WorkFacts /\ RepairFacts)'
  BY MediaAssumption, CallsAssumption DEF TablesOK, WorkOK, WorkFacts, Idle, RepairOK, RepairFacts
<1>8. RowFacts'
  BY MediaAssumption, CallsAssumption DEF TablesOK, DownloadOK, DownloadFacts, SendOK, SendFacts, WorkOK, WorkFacts, RepairOK, RepairFacts, RowFacts, Seen, Rows, TempOwners
<1>9. QED BY <1>1, <1>2, <1>3, <1>4, <1>5, <1>6, <1>7, <1>8

\* The row names a file and a thumbnail that are there.
LEMMA MarkDownloadStep ==
  ASSUME NEW d \in Downloads, IInv, MarkDownload(d) PROVE IInv'
<1> USE DEF IInv, TypeOK, CallFacts, MarkDownload, DownloadFrame, Return, MarkMediaDownloaded, Fault, tables, disk, sends, repairs, notices
<1>1. TablesOK'
  BY MediaAssumption, CallsAssumption DEF TablesOK, DownloadOK, SendOK, WorkOK, RepairOK, DownloadFacts, SendFacts, WorkFacts, RepairFacts, Rows, Paths, TempOwners
<1>2. DownloadOK'
  BY MediaAssumption, CallsAssumption, ReturnedTyped DEF TablesOK, DownloadOK, Paths, TempOwners, DownloadFacts
<1>3. (SendOK /\ WorkOK /\ RepairOK)'
  BY MediaAssumption, CallsAssumption DEF TablesOK, SendOK, Paths, SendFacts, WorkOK, WorkFacts, RepairOK, NoMessage
<1>4. CountsOK'
  BY MediaAssumption, CallsAssumption DEF CountsOK, SendOK, WorkOK, RepairOK, TablesOK, SendFacts, WorkFacts, RepairFacts
<1>5. DownloadFacts'
  BY MediaAssumption, CallsAssumption DEF TablesOK, DownloadOK, DownloadFacts, Seen, TempOwners, Returned
<1>6. SendFacts'
  BY MediaAssumption, CallsAssumption DEF TablesOK, DownloadOK, SendOK, SendFacts, DownloadFacts, Seen, TempOwners, Idle
<1>7. (WorkFacts /\ RepairFacts)'
  BY MediaAssumption, CallsAssumption DEF TablesOK, WorkOK, WorkFacts, Idle, RepairOK, RepairFacts
<1>8. RowFacts'
  BY MediaAssumption, CallsAssumption DEF TablesOK, DownloadOK, DownloadFacts, SendOK, SendFacts, WorkOK, WorkFacts, RepairOK, RepairFacts, RowFacts, Seen, Rows, TempOwners
<1>9. QED BY <1>1, <1>2, <1>3, <1>4, <1>5, <1>6, <1>7, <1>8

-----------------------------------------------------------------------------
(* media.send                                                              *)

\* Its scratch file.
LEMMA MediaSendStep ==
  ASSUME NEW m \in Messages, IInv, MediaSend(m) PROVE IInv'
<1> USE DEF IInv, TypeOK, CallFacts, MediaSend, SendFrame, tables, disk, sends, repairs, notices
<1>1. TablesOK'
  BY MediaAssumption, CallsAssumption DEF TablesOK, DownloadOK, SendOK, WorkOK, RepairOK, DownloadFacts, SendFacts, WorkFacts, RepairFacts, Rows, Paths, TempOwners
<1>2. DownloadOK'
  BY MediaAssumption, CallsAssumption, ReturnedTyped DEF TablesOK, DownloadOK, Paths, TempOwners, DownloadFacts
<1>3. SendOK'
  BY MediaAssumption, CallsAssumption, IdleTyped DEF TablesOK, SendOK, Paths, SendFacts
<1>4. (WorkOK /\ RepairOK)'
  BY MediaAssumption, CallsAssumption DEF TablesOK, WorkOK, Paths, WorkFacts, RepairOK, NoMessage
<1>5. CountsOK'
  BY MediaAssumption, CallsAssumption DEF CountsOK, SendOK, WorkOK, RepairOK, TablesOK, SendFacts, WorkFacts, RepairFacts
<1>6. DownloadFacts'
  BY MediaAssumption, CallsAssumption DEF TablesOK, DownloadOK, DownloadFacts, Seen, TempOwners, Returned
<1>7. SendFacts'
  BY MediaAssumption, CallsAssumption DEF TablesOK, DownloadOK, SendOK, SendFacts, DownloadFacts, Seen, TempOwners, Idle
<1>8. (WorkFacts /\ RepairFacts)'
  BY MediaAssumption, CallsAssumption DEF TablesOK, WorkOK, WorkFacts, Idle, RepairOK, RepairFacts
<1>9. RowFacts'
  BY MediaAssumption, CallsAssumption DEF TablesOK, DownloadOK, DownloadFacts, SendOK, SendFacts, WorkOK, WorkFacts, RepairOK, RepairFacts, RowFacts, Seen, Rows, TempOwners
<1>10. QED BY <1>1, <1>2, <1>3, <1>4, <1>5, <1>6, <1>7, <1>8, <1>9

\* Nothing is in the cache yet.
LEMMA UploadAndSendStep ==
  ASSUME IInv, UploadAndSend PROVE IInv'
<1> USE DEF IInv, TypeOK, CallFacts, UploadAndSend, SendFrame, SendAt, ReturnFromSend, Fault, tables, disk, sends, repairs, notices
<1>1. TablesOK'
  BY MediaAssumption, CallsAssumption DEF TablesOK, DownloadOK, SendOK, WorkOK, RepairOK, DownloadFacts, SendFacts, WorkFacts, RepairFacts, Rows, Paths, TempOwners
<1>2. DownloadOK'
  BY MediaAssumption, CallsAssumption, ReturnedTyped DEF TablesOK, DownloadOK, Paths, TempOwners, DownloadFacts
<1>3. SendOK'
  BY MediaAssumption, CallsAssumption, IdleTyped DEF TablesOK, SendOK, Paths, SendFacts
<1>4. (WorkOK /\ RepairOK)'
  BY MediaAssumption, CallsAssumption DEF TablesOK, WorkOK, Paths, WorkFacts, RepairOK, NoMessage
<1>5. CountsOK'
  BY MediaAssumption, CallsAssumption DEF CountsOK, SendOK, WorkOK, RepairOK, TablesOK, SendFacts, WorkFacts, RepairFacts
<1>6. DownloadFacts'
  BY MediaAssumption, CallsAssumption DEF TablesOK, DownloadOK, DownloadFacts, Seen, TempOwners, Returned
<1>7. SendFacts'
  BY MediaAssumption, CallsAssumption DEF TablesOK, DownloadOK, SendOK, SendFacts, DownloadFacts, Seen, TempOwners, Idle
<1>8. (WorkFacts /\ RepairFacts)'
  BY MediaAssumption, CallsAssumption DEF TablesOK, WorkOK, WorkFacts, Idle, RepairOK, RepairFacts
<1>9. RowFacts'
  BY MediaAssumption, CallsAssumption DEF TablesOK, DownloadOK, DownloadFacts, SendOK, SendFacts, WorkOK, WorkFacts, RepairOK, RepairFacts, RowFacts, Seen, Rows, TempOwners
<1>10. QED BY <1>1, <1>2, <1>3, <1>4, <1>5, <1>6, <1>7, <1>8, <1>9

\* A file of that name is whole; so is the copy of the source.
LEMMA copyToCacheStep ==
  ASSUME IInv, copyToCache PROVE IInv'
<1> USE DEF IInv, TypeOK, CallFacts, copyToCache, SendFrame, SendAt, ReturnFromSend, Fault, tables, disk, sends, repairs, notices
<1>1. TablesOK'
  BY MediaAssumption, CallsAssumption DEF TablesOK, DownloadOK, SendOK, WorkOK, RepairOK, DownloadFacts, SendFacts, WorkFacts, RepairFacts, Rows, Paths, TempOwners
<1>2. DownloadOK'
  BY MediaAssumption, CallsAssumption, ReturnedTyped DEF TablesOK, DownloadOK, Paths, TempOwners, DownloadFacts
<1>3. SendOK'
  BY MediaAssumption, CallsAssumption, IdleTyped DEF TablesOK, SendOK, Paths, SendFacts
<1>4. (WorkOK /\ RepairOK)'
  BY MediaAssumption, CallsAssumption DEF TablesOK, WorkOK, Paths, WorkFacts, RepairOK, NoMessage
<1>5. CountsOK'
  BY MediaAssumption, CallsAssumption DEF CountsOK, SendOK, WorkOK, RepairOK, TablesOK, SendFacts, WorkFacts, RepairFacts
<1>6. DownloadFacts'
  BY MediaAssumption, CallsAssumption DEF TablesOK, DownloadOK, DownloadFacts, Seen, TempOwners, Returned
<1>7. SendFacts'
  BY MediaAssumption, CallsAssumption DEF TablesOK, DownloadOK, SendOK, SendFacts, DownloadFacts, Seen, TempOwners, Idle
<1>8. (WorkFacts /\ RepairFacts)'
  BY MediaAssumption, CallsAssumption DEF TablesOK, WorkOK, WorkFacts, Idle, RepairOK, RepairFacts
<1>9. RowFacts'
  BY MediaAssumption, CallsAssumption DEF TablesOK, DownloadOK, DownloadFacts, SendOK, SendFacts, WorkOK, WorkFacts, RepairOK, RepairFacts, RowFacts, Seen, Rows, TempOwners
<1>10. QED BY <1>1, <1>2, <1>3, <1>4, <1>5, <1>6, <1>7, <1>8, <1>9

\* The rename puts the copy in place.
LEMMA PlaceCopyStep ==
  ASSUME IInv, PlaceCopy PROVE IInv'
<1> USE DEF IInv, TypeOK, CallFacts, PlaceCopy, SendFrame, SendAt, ReturnFromSend, PutInPlace, Fault, tables, disk, sends, repairs, notices
<1>1. TablesOK'
  BY MediaAssumption, CallsAssumption DEF TablesOK, DownloadOK, SendOK, WorkOK, RepairOK, DownloadFacts, SendFacts, WorkFacts, RepairFacts, Rows, Paths, TempOwners
<1>2. DownloadOK'
  BY MediaAssumption, CallsAssumption, ReturnedTyped DEF TablesOK, DownloadOK, Paths, TempOwners, DownloadFacts
<1>3. SendOK'
  BY MediaAssumption, CallsAssumption, IdleTyped DEF TablesOK, SendOK, Paths, SendFacts
<1>4. (WorkOK /\ RepairOK)'
  BY MediaAssumption, CallsAssumption DEF TablesOK, WorkOK, Paths, WorkFacts, RepairOK, NoMessage
<1>5. CountsOK'
  BY MediaAssumption, CallsAssumption DEF CountsOK, SendOK, WorkOK, RepairOK, TablesOK, SendFacts, WorkFacts, RepairFacts
<1>6. DownloadFacts'
  <2>1. \A f \in Digests : Seen(f) => Seen(f)'
    BY DEF TablesOK, Seen, SendFacts
  <2>2. \A d \in Downloads : temps'[d] = temps[d]
    BY CallsAssumption DEF DownloadOK, TempOwners
  <2>3. QED BY <2>1, <2>2, MediaAssumption DEF DownloadFacts, DownloadOK
<1>7. SendFacts'
  BY MediaAssumption, CallsAssumption DEF TablesOK, DownloadOK, SendOK, SendFacts, DownloadFacts, Seen, TempOwners, Idle
<1>8. (WorkFacts /\ RepairFacts)'
  BY MediaAssumption, CallsAssumption DEF TablesOK, WorkOK, WorkFacts, Idle, RepairOK, RepairFacts
<1>9. RowFacts'
  BY MediaAssumption, CallsAssumption DEF TablesOK, DownloadOK, DownloadFacts, SendOK, SendFacts, WorkOK, WorkFacts, RepairOK, RepairFacts, RowFacts, Seen, Rows, TempOwners
<1>10. QED BY <1>1, <1>2, <1>3, <1>4, <1>5, <1>6, <1>7, <1>8, <1>9

\* As with a download.
LEMMA ThumbnailSendStep ==
  ASSUME IInv, ThumbnailSend PROVE IInv'
<1> USE DEF IInv, TypeOK, CallFacts, ThumbnailSend, writeThumbFile, SendFrame, SendAt, Fault, tables, disk, sends, repairs, notices
<1>1. TablesOK'
  BY MediaAssumption, CallsAssumption DEF TablesOK, DownloadOK, SendOK, WorkOK, RepairOK, DownloadFacts, SendFacts, WorkFacts, RepairFacts, Rows, Paths, TempOwners
<1>2. DownloadOK'
  BY MediaAssumption, CallsAssumption, ReturnedTyped DEF TablesOK, DownloadOK, Paths, TempOwners, DownloadFacts
<1>3. SendOK'
  <2>1. CASE send' = [send EXCEPT !.at = "insert"]
    BY <2>1 DEF SendOK
  <2>2. CASE /\ send.msg \in Embedding
             /\ send' = [send EXCEPT !.thumb = ContentOf[send.msg], !.at = "insert"]
    <3>1. ContentOf[send.msg] \in Paths
      BY <2>2, MediaAssumption DEF Paths
    <3>2. QED BY <2>2, <3>1 DEF SendOK
  <2>3. QED BY <2>1, <2>2
<1>4. (WorkOK /\ RepairOK)'
  BY MediaAssumption, CallsAssumption DEF TablesOK, WorkOK, Paths, WorkFacts, RepairOK, NoMessage
<1>5. CountsOK'
  BY MediaAssumption, CallsAssumption DEF CountsOK, SendOK, WorkOK, RepairOK, TablesOK, SendFacts, WorkFacts, RepairFacts
<1>6. DownloadFacts'
  BY MediaAssumption, CallsAssumption DEF TablesOK, DownloadOK, DownloadFacts, Seen, TempOwners, Returned
<1>7. SendFacts'
  <2>1. Seen(ContentOf[send.msg]) /\ send.msg \in Own
    BY DEF SendFacts
  <2>2. CASE send' = [send EXCEPT !.at = "insert"] /\ thumbs \subseteq thumbs'
    BY <2>1, <2>2 DEF SendOK, SendFacts, Seen
  <2>3. CASE /\ send' = [send EXCEPT !.thumb = ContentOf[send.msg], !.at = "insert"]
             /\ thumbs' = thumbs \cup {ContentOf[send.msg]}
    BY <2>1, <2>3 DEF SendOK, SendFacts, Seen
  <2>4. QED BY <2>2, <2>3
<1>8. (WorkFacts /\ RepairFacts)'
  BY MediaAssumption, CallsAssumption DEF TablesOK, WorkOK, WorkFacts, Idle, RepairOK, RepairFacts
<1>9. RowFacts'
  BY MediaAssumption, CallsAssumption DEF TablesOK, DownloadOK, DownloadFacts, SendOK, SendFacts, WorkOK, WorkFacts, RepairOK, RepairFacts, RowFacts, Seen, Rows, TempOwners
<1>10. QED BY <1>1, <1>2, <1>3, <1>4, <1>5, <1>6, <1>7, <1>8, <1>9

\* finalizeSentMedia's statements: the insert,
LEMMA InsertSentStep ==
  ASSUME IInv, InsertSent PROVE IInv'
<1> USE DEF IInv, TypeOK, CallFacts, InsertSent, SendFrame, ReturnFromSend, Fault, tables, disk, sends, repairs, notices
<1>1. TablesOK'
  BY MediaAssumption, CallsAssumption DEF TablesOK, DownloadOK, SendOK, WorkOK, RepairOK, DownloadFacts, SendFacts, WorkFacts, RepairFacts, Rows, Paths, TempOwners
<1>2. DownloadOK'
  BY MediaAssumption, CallsAssumption, ReturnedTyped DEF TablesOK, DownloadOK, Paths, TempOwners, DownloadFacts
<1>3. SendOK'
  BY MediaAssumption, CallsAssumption, IdleTyped DEF TablesOK, SendOK, Paths, SendFacts
<1>4. (WorkOK /\ RepairOK)'
  BY MediaAssumption, CallsAssumption DEF TablesOK, WorkOK, Paths, WorkFacts, RepairOK, NoMessage
<1>5. CountsOK'
  BY MediaAssumption, CallsAssumption DEF CountsOK, SendOK, WorkOK, RepairOK, TablesOK, SendFacts, WorkFacts, RepairFacts
<1>6. DownloadFacts'
  BY MediaAssumption, CallsAssumption DEF TablesOK, DownloadOK, DownloadFacts, Seen, TempOwners, Returned
<1>7. SendFacts'
  <2>1. CASE ReturnFromSend
    BY <2>1 DEF SendFacts, Idle, DownloadOK, TempOwners
  <2>2. CASE send' = [send EXCEPT !.fresh = send.msg \notin rows, !.at = "media"]
    BY <2>2 DEF SendFacts, SendOK, Seen
  <2>3. QED BY <2>1, <2>2
<1>8. (WorkFacts /\ RepairFacts)'
  BY MediaAssumption, CallsAssumption DEF TablesOK, WorkOK, WorkFacts, Idle, RepairOK, RepairFacts
<1>9. RowFacts'
  BY MediaAssumption, CallsAssumption DEF TablesOK, DownloadOK, DownloadFacts, SendOK, SendFacts, WorkOK, WorkFacts, RepairOK, RepairFacts, RowFacts, Seen, Rows, TempOwners
<1>10. QED BY <1>1, <1>2, <1>3, <1>4, <1>5, <1>6, <1>7, <1>8, <1>9

\* the media row, which keeps a download state it finds,
LEMMA UpsertSentStep ==
  ASSUME IInv, UpsertSent PROVE IInv'
<1> USE DEF IInv, TypeOK, CallFacts, UpsertSent, SendFrame, SendAt, CutSend, ReturnFromSend, UpsertMedia, Fault, tables, disk, sends, repairs, notices
<1>1. TablesOK'
  BY MediaAssumption, CallsAssumption DEF TablesOK, DownloadOK, SendOK, WorkOK, RepairOK, DownloadFacts, SendFacts, WorkFacts, RepairFacts, Rows, Paths, TempOwners
<1>2. DownloadOK'
  BY MediaAssumption, CallsAssumption, ReturnedTyped DEF TablesOK, DownloadOK, Paths, TempOwners, DownloadFacts
<1>3. SendOK'
  BY MediaAssumption, CallsAssumption, IdleTyped DEF TablesOK, SendOK, Paths, SendFacts
<1>4. (WorkOK /\ RepairOK)'
  BY MediaAssumption, CallsAssumption DEF TablesOK, WorkOK, Paths, WorkFacts, RepairOK, NoMessage
<1>5. CountsOK'
  BY MediaAssumption, CallsAssumption DEF CountsOK, SendOK, WorkOK, RepairOK, TablesOK, SendFacts, WorkFacts, RepairFacts
<1>6. DownloadFacts'
  BY MediaAssumption, CallsAssumption DEF TablesOK, DownloadOK, DownloadFacts, Seen, TempOwners, Returned
<1>7. SendFacts'
  BY MediaAssumption, CallsAssumption DEF TablesOK, DownloadOK, SendOK, SendFacts, DownloadFacts, Seen, TempOwners, Idle
<1>8. (WorkFacts /\ RepairFacts)'
  BY MediaAssumption, CallsAssumption DEF TablesOK, WorkOK, WorkFacts, Idle, RepairOK, RepairFacts
<1>9. RowFacts'
  BY MediaAssumption, CallsAssumption DEF TablesOK, DownloadOK, DownloadFacts, SendOK, SendFacts, WorkOK, WorkFacts, RepairOK, RepairFacts, RowFacts, Seen, Rows, TempOwners
<1>10. QED BY <1>1, <1>2, <1>3, <1>4, <1>5, <1>6, <1>7, <1>8, <1>9

\* the mark, with the file in the cache,
LEMMA MarkSentStep ==
  ASSUME IInv, MarkSent PROVE IInv'
<1> USE DEF IInv, TypeOK, CallFacts, MarkSent, SendFrame, SendAt, CutSend, ReturnFromSend, MarkMediaDownloaded, Fault, tables, disk, sends, repairs, notices
<1>1. TablesOK'
  BY MediaAssumption, CallsAssumption DEF TablesOK, DownloadOK, SendOK, WorkOK, RepairOK, DownloadFacts, SendFacts, WorkFacts, RepairFacts, Rows, Paths, TempOwners
<1>2. DownloadOK'
  BY MediaAssumption, CallsAssumption, ReturnedTyped DEF TablesOK, DownloadOK, Paths, TempOwners, DownloadFacts
<1>3. SendOK'
  BY MediaAssumption, CallsAssumption, IdleTyped DEF TablesOK, SendOK, Paths, SendFacts
<1>4. (WorkOK /\ RepairOK)'
  BY MediaAssumption, CallsAssumption DEF TablesOK, WorkOK, Paths, WorkFacts, RepairOK, NoMessage
<1>5. CountsOK'
  BY MediaAssumption, CallsAssumption DEF CountsOK, SendOK, WorkOK, RepairOK, TablesOK, SendFacts, WorkFacts, RepairFacts
<1>6. DownloadFacts'
  BY MediaAssumption, CallsAssumption DEF TablesOK, DownloadOK, DownloadFacts, Seen, TempOwners, Returned
<1>7. SendFacts'
  BY MediaAssumption, CallsAssumption DEF TablesOK, DownloadOK, SendOK, SendFacts, DownloadFacts, Seen, TempOwners, Idle
<1>8. (WorkFacts /\ RepairFacts)'
  BY MediaAssumption, CallsAssumption DEF TablesOK, WorkOK, WorkFacts, Idle, RepairOK, RepairFacts
<1>9. RowFacts'
  BY MediaAssumption, CallsAssumption DEF TablesOK, DownloadOK, DownloadFacts, SendOK, SendFacts, WorkOK, WorkFacts, RepairOK, RepairFacts, RowFacts, Seen, Rows, TempOwners
<1>10. QED BY <1>1, <1>2, <1>3, <1>4, <1>5, <1>6, <1>7, <1>8, <1>9

\* and the events.
LEMMA PublishSentStep ==
  ASSUME IInv, PublishSent PROVE IInv'
<1> USE DEF IInv, TypeOK, CallFacts, PublishSent, SendFrame, CutSend, ReturnFromSend, Fault, tables, disk, sends, repairs, notices
<1>1. TablesOK'
  BY MediaAssumption, CallsAssumption DEF TablesOK, DownloadOK, SendOK, WorkOK, RepairOK, DownloadFacts, SendFacts, WorkFacts, RepairFacts, Rows, Paths, TempOwners
<1>2. DownloadOK'
  BY MediaAssumption, CallsAssumption, ReturnedTyped DEF TablesOK, DownloadOK, Paths, TempOwners, DownloadFacts
<1>3. SendOK'
  BY MediaAssumption, CallsAssumption, IdleTyped DEF TablesOK, SendOK, Paths, SendFacts
<1>4. (WorkOK /\ RepairOK)'
  BY MediaAssumption, CallsAssumption DEF TablesOK, WorkOK, Paths, WorkFacts, RepairOK, NoMessage
<1>5. CountsOK'
  BY MediaAssumption, CallsAssumption DEF CountsOK, SendOK, WorkOK, RepairOK, TablesOK, SendFacts, WorkFacts, RepairFacts
<1>6. DownloadFacts'
  BY MediaAssumption, CallsAssumption DEF TablesOK, DownloadOK, DownloadFacts, Seen, TempOwners, Returned
<1>7. SendFacts'
  BY MediaAssumption, CallsAssumption DEF TablesOK, DownloadOK, SendOK, SendFacts, DownloadFacts, Seen, TempOwners, Idle
<1>8. (WorkFacts /\ RepairFacts)'
  BY MediaAssumption, CallsAssumption DEF TablesOK, WorkOK, WorkFacts, Idle, RepairOK, RepairFacts
<1>9. RowFacts'
  BY MediaAssumption, CallsAssumption DEF TablesOK, DownloadOK, DownloadFacts, SendOK, SendFacts, WorkOK, WorkFacts, RepairOK, RepairFacts, RowFacts, Seen, Rows, TempOwners
<1>10. QED BY <1>1, <1>2, <1>3, <1>4, <1>5, <1>6, <1>7, <1>8, <1>9

-----------------------------------------------------------------------------
(* The worker                                                              *)

\* A message taken from the queue.
LEMMA DeliverStep ==
  ASSUME NEW m \in Messages, IInv, Deliver(m) PROVE IInv'
<1> USE DEF IInv, TypeOK, CallFacts, Deliver, WorkFrame, tables, disk, sends, repairs, notices
<1>1. TablesOK'
  BY MediaAssumption, CallsAssumption DEF TablesOK, DownloadOK, SendOK, WorkOK, RepairOK, DownloadFacts, SendFacts, WorkFacts, RepairFacts, Rows, Paths, TempOwners
<1>2. (DownloadOK /\ SendOK /\ RepairOK)'
  BY MediaAssumption, CallsAssumption DEF TablesOK, DownloadOK, Paths, TempOwners, DownloadFacts, SendOK, SendFacts, RepairOK, NoMessage
<1>3. WorkOK'
  BY MediaAssumption, CallsAssumption, IdleTyped DEF TablesOK, WorkOK, Paths, WorkFacts
<1>4. CountsOK'
  BY MediaAssumption, CallsAssumption DEF CountsOK, SendOK, WorkOK, RepairOK, TablesOK, SendFacts, WorkFacts, RepairFacts
<1>5. (DownloadFacts /\ SendFacts)'
  BY MediaAssumption, CallsAssumption DEF TablesOK, DownloadOK, DownloadFacts, Seen, TempOwners, Returned, SendOK, SendFacts, Idle
<1>6. WorkFacts'
  BY MediaAssumption, CallsAssumption DEF TablesOK, WorkOK, WorkFacts, Idle
<1>7. RepairFacts'
  BY MediaAssumption, CallsAssumption DEF TablesOK, RepairOK, RepairFacts
<1>8. RowFacts'
  BY MediaAssumption, CallsAssumption DEF TablesOK, DownloadOK, DownloadFacts, SendOK, SendFacts, WorkOK, WorkFacts, RepairOK, RepairFacts, RowFacts, Seen, Rows, TempOwners
<1>9. QED BY <1>1, <1>2, <1>3, <1>4, <1>5, <1>6, <1>7, <1>8

\* The thumbnail is written before the worker holds its name.
LEMMA attachEmbeddedThumbStep ==
  ASSUME IInv, attachEmbeddedThumb PROVE IInv'
<1> USE DEF IInv, TypeOK, CallFacts, attachEmbeddedThumb, writeThumbFile, WorkFrame, Fault, tables, disk, sends, repairs, notices
<1>1. TablesOK'
  BY MediaAssumption, CallsAssumption DEF TablesOK, DownloadOK, SendOK, WorkOK, RepairOK, DownloadFacts, SendFacts, WorkFacts, RepairFacts, Rows, Paths, TempOwners
<1>2. (DownloadOK /\ SendOK /\ RepairOK)'
  BY MediaAssumption, CallsAssumption DEF TablesOK, DownloadOK, Paths, TempOwners, DownloadFacts, SendOK, SendFacts, RepairOK, NoMessage
<1>3. WorkOK'
  <2>1. CASE work' = [work EXCEPT !.at = "insert"]
    BY <2>1 DEF WorkOK
  <2>2. CASE /\ work.msg \in Embedding
             /\ work' = [work EXCEPT !.thumb = EmbeddedOf[work.msg], !.at = "insert"]
    <3>1. EmbeddedOf[work.msg] \in Paths
      BY <2>2, MediaAssumption DEF Paths
    <3>2. QED BY <2>2, <3>1 DEF WorkOK
  <2>3. QED BY <2>1, <2>2
<1>4. CountsOK'
  BY MediaAssumption, CallsAssumption DEF CountsOK, SendOK, WorkOK, RepairOK, TablesOK, SendFacts, WorkFacts, RepairFacts
<1>5. (DownloadFacts /\ SendFacts)'
  BY MediaAssumption, CallsAssumption DEF TablesOK, DownloadOK, DownloadFacts, Seen, TempOwners, Returned, SendOK, SendFacts, Idle
<1>6. WorkFacts'
  BY MediaAssumption, CallsAssumption DEF TablesOK, WorkOK, WorkFacts, Idle
<1>7. RepairFacts'
  BY MediaAssumption, CallsAssumption DEF TablesOK, RepairOK, RepairFacts
<1>8. RowFacts'
  BY MediaAssumption, CallsAssumption DEF TablesOK, DownloadOK, DownloadFacts, SendOK, SendFacts, WorkOK, WorkFacts, RepairOK, RepairFacts, RowFacts, Seen, Rows, TempOwners
<1>9. QED BY <1>1, <1>2, <1>3, <1>4, <1>5, <1>6, <1>7, <1>8

\* The message's row.
LEMMA InsertDeliveredStep ==
  ASSUME IInv, InsertDelivered PROVE IInv'
<1> USE DEF IInv, TypeOK, CallFacts, InsertDelivered, WorkFrame, Fault, tables, disk, sends, repairs, notices
<1>1. TablesOK'
  BY MediaAssumption, CallsAssumption DEF TablesOK, DownloadOK, SendOK, WorkOK, RepairOK, DownloadFacts, SendFacts, WorkFacts, RepairFacts, Rows, Paths, TempOwners
<1>2. (DownloadOK /\ SendOK /\ RepairOK)'
  BY MediaAssumption, CallsAssumption DEF TablesOK, DownloadOK, Paths, TempOwners, DownloadFacts, SendOK, SendFacts, RepairOK, NoMessage
<1>3. WorkOK'
  <2>1. CASE work' = Idle
    BY <2>1, IdleTyped DEF WorkOK
  <2>2. CASE work' = [work EXCEPT !.fresh = work.msg \notin rows, !.at = "media"]
    BY <2>2 DEF WorkOK
  <2>3. QED BY <2>1, <2>2
<1>4. CountsOK'
  BY MediaAssumption, CallsAssumption DEF CountsOK, SendOK, WorkOK, RepairOK, TablesOK, SendFacts, WorkFacts, RepairFacts
<1>5. (DownloadFacts /\ SendFacts)'
  BY MediaAssumption, CallsAssumption DEF TablesOK, DownloadOK, DownloadFacts, Seen, TempOwners, Returned, SendOK, SendFacts, Idle
<1>6. WorkFacts'
  <2>1. CASE work' = Idle
    BY <2>1 DEF WorkFacts, Idle
  <2>2. CASE work' = [work EXCEPT !.fresh = work.msg \notin rows, !.at = "media"]
    BY <2>2 DEF WorkFacts, WorkOK
  <2>3. QED BY <2>1, <2>2
<1>7. RepairFacts'
  BY MediaAssumption, CallsAssumption DEF TablesOK, RepairOK, RepairFacts
<1>8. RowFacts'
  BY MediaAssumption, CallsAssumption DEF TablesOK, DownloadOK, DownloadFacts, SendOK, SendFacts, WorkOK, WorkFacts, RepairOK, RepairFacts, RowFacts, Seen, Rows, TempOwners
<1>9. QED BY <1>1, <1>2, <1>3, <1>4, <1>5, <1>6, <1>7, <1>8

\* The media row, with a thumbnail that is there.
LEMMA UpsertDeliveredStep ==
  ASSUME IInv, UpsertDelivered PROVE IInv'
<1> USE DEF IInv, TypeOK, CallFacts, UpsertDelivered, WorkFrame, CutWork, UpsertMedia, Fault, tables, disk, sends, repairs, notices
<1>1. TablesOK'
  BY MediaAssumption, CallsAssumption DEF TablesOK, DownloadOK, SendOK, WorkOK, RepairOK, DownloadFacts, SendFacts, WorkFacts, RepairFacts, Rows, Paths, TempOwners
<1>2. (DownloadOK /\ SendOK /\ RepairOK)'
  BY MediaAssumption, CallsAssumption DEF TablesOK, DownloadOK, Paths, TempOwners, DownloadFacts, SendOK, SendFacts, RepairOK, NoMessage
<1>3. WorkOK'
  BY MediaAssumption, CallsAssumption, IdleTyped DEF TablesOK, WorkOK, Paths, WorkFacts
<1>4. CountsOK'
  BY MediaAssumption, CallsAssumption DEF CountsOK, SendOK, WorkOK, RepairOK, TablesOK, SendFacts, WorkFacts, RepairFacts
<1>5. (DownloadFacts /\ SendFacts)'
  BY MediaAssumption, CallsAssumption DEF TablesOK, DownloadOK, DownloadFacts, Seen, TempOwners, Returned, SendOK, SendFacts, Idle
<1>6. WorkFacts'
  BY MediaAssumption, CallsAssumption DEF TablesOK, WorkOK, WorkFacts, Idle
<1>7. RepairFacts'
  BY MediaAssumption, CallsAssumption DEF TablesOK, RepairOK, RepairFacts
<1>8. RowFacts'
  BY MediaAssumption, CallsAssumption DEF TablesOK, DownloadOK, DownloadFacts, SendOK, SendFacts, WorkOK, WorkFacts, RepairOK, RepairFacts, RowFacts, Seen, Rows, TempOwners
<1>9. QED BY <1>1, <1>2, <1>3, <1>4, <1>5, <1>6, <1>7, <1>8

\* The event; the worker takes the next message.
LEMMA PublishDeliveredStep ==
  ASSUME IInv, PublishDelivered PROVE IInv'
<1> USE DEF IInv, TypeOK, CallFacts, PublishDelivered, WorkFrame, CutWork, Fault, tables, disk, sends, repairs, notices
<1>1. TablesOK'
  BY MediaAssumption, CallsAssumption DEF TablesOK, DownloadOK, SendOK, WorkOK, RepairOK, DownloadFacts, SendFacts, WorkFacts, RepairFacts, Rows, Paths, TempOwners
<1>2. (DownloadOK /\ SendOK /\ RepairOK)'
  BY MediaAssumption, CallsAssumption DEF TablesOK, DownloadOK, Paths, TempOwners, DownloadFacts, SendOK, SendFacts, RepairOK, NoMessage
<1>3. WorkOK'
  BY MediaAssumption, CallsAssumption, IdleTyped DEF TablesOK, WorkOK, Paths, WorkFacts
<1>4. CountsOK'
  BY MediaAssumption, CallsAssumption DEF CountsOK, SendOK, WorkOK, RepairOK, TablesOK, SendFacts, WorkFacts, RepairFacts
<1>5. (DownloadFacts /\ SendFacts)'
  BY MediaAssumption, CallsAssumption DEF TablesOK, DownloadOK, DownloadFacts, Seen, TempOwners, Returned, SendOK, SendFacts, Idle
<1>6. WorkFacts'
  BY MediaAssumption, CallsAssumption DEF TablesOK, WorkOK, WorkFacts, Idle
<1>7. RepairFacts'
  BY MediaAssumption, CallsAssumption DEF TablesOK, RepairOK, RepairFacts
<1>8. RowFacts'
  BY MediaAssumption, CallsAssumption DEF TablesOK, DownloadOK, DownloadFacts, SendOK, SendFacts, WorkOK, WorkFacts, RepairOK, RepairFacts, RowFacts, Seen, Rows, TempOwners
<1>9. QED BY <1>1, <1>2, <1>3, <1>4, <1>5, <1>6, <1>7, <1>8

-----------------------------------------------------------------------------
(* The backfill                                                            *)

\* Its list is of messages.
LEMMA ListPendingStep ==
  ASSUME IInv, ListPending PROVE IInv'
<1> USE DEF IInv, TypeOK, CallFacts, ListPending, RepairFrame, Fault, PendingThumbnails, Oldest, tables, disk, sends, repairs, notices
<1>1. TablesOK'
  BY MediaAssumption, CallsAssumption DEF TablesOK, DownloadOK, SendOK, WorkOK, RepairOK, DownloadFacts, SendFacts, WorkFacts, RepairFacts, Rows, Paths, TempOwners
<1>2. (DownloadOK /\ SendOK /\ WorkOK)'
  <2>1. UNCHANGED <<temps, download, send, work>>
    BY Zenon DEF ListPending
  <2> HIDE DEF ListPending
  <2>2. QED BY <2>1 DEF DownloadOK, SendOK, WorkOK
<1>3. RepairOK'
  BY MediaAssumption, CallsAssumption DEF RepairOK, NoMessage
<1>4. CountsOK'
  <2>1. \/ UNCHANGED <<slipped, budget>>
        \/ Fault /\ slipped' = slipped \cup PendingThumbnails(media)
    BY Zenon DEF ListPending
  <2>2. UNCHANGED <<onNetwork, published, cut>>
    OBVIOUS
  <2> HIDE DEF ListPending, Oldest
  <2>3. PendingThumbnails(media) \subseteq Messages
    OBVIOUS
  <2> HIDE DEF PendingThumbnails
  <2>4. CASE UNCHANGED <<slipped, budget>>
    BY <2>2, <2>4 DEF CountsOK
  <2>5. CASE Fault /\ slipped' = slipped \cup PendingThumbnails(media)
    BY <2>2, <2>3, <2>5 DEF CountsOK
  <2>6. QED BY <2>1, <2>4, <2>5
<1>5. (DownloadFacts /\ SendFacts /\ WorkFacts)'
  BY MediaAssumption, CallsAssumption DEF TablesOK, DownloadOK, DownloadFacts, Seen, TempOwners, Returned, SendOK, SendFacts, Idle, WorkOK, WorkFacts
<1>6. RepairFacts'
  BY MediaAssumption, CallsAssumption DEF TablesOK, RepairOK, RepairFacts
<1>7. RowFacts'
  BY MediaAssumption, CallsAssumption DEF TablesOK, DownloadOK, DownloadFacts, SendOK, SendFacts, WorkOK, WorkFacts, RepairOK, RepairFacts, RowFacts, Seen, Rows, TempOwners
<1>8. QED BY <1>1, <1>2, <1>3, <1>4, <1>5, <1>6, <1>7

\* One row in hand, with an embedded thumbnail.
LEMMA RepairNextStep ==
  ASSUME IInv, RepairNext PROVE IInv'
<1> USE DEF IInv, TypeOK, CallFacts, RepairNext, RepairFrame, tables, disk, sends, repairs, notices
<1>1. TablesOK'
  BY MediaAssumption, CallsAssumption DEF TablesOK, DownloadOK, SendOK, WorkOK, RepairOK, DownloadFacts, SendFacts, WorkFacts, RepairFacts, Rows, Paths, TempOwners
<1>2. (DownloadOK /\ SendOK /\ WorkOK)'
  BY MediaAssumption, CallsAssumption DEF TablesOK, DownloadOK, Paths, TempOwners, DownloadFacts, SendOK, SendFacts, WorkOK, WorkFacts
<1>3. RepairOK'
  BY MediaAssumption, CallsAssumption DEF RepairOK, NoMessage
<1>4. CountsOK'
  BY MediaAssumption, CallsAssumption DEF CountsOK, SendOK, WorkOK, RepairOK, TablesOK, SendFacts, WorkFacts, RepairFacts
<1>5. (DownloadFacts /\ SendFacts /\ WorkFacts)'
  BY MediaAssumption, CallsAssumption DEF TablesOK, DownloadOK, DownloadFacts, Seen, TempOwners, Returned, SendOK, SendFacts, Idle, WorkOK, WorkFacts
<1>6. RepairFacts'
  BY MediaAssumption, CallsAssumption DEF TablesOK, RepairOK, RepairFacts
<1>7. RowFacts'
  BY MediaAssumption, CallsAssumption DEF TablesOK, DownloadOK, DownloadFacts, SendOK, SendFacts, WorkOK, WorkFacts, RepairOK, RepairFacts, RowFacts, Seen, Rows, TempOwners
<1>8. QED BY <1>1, <1>2, <1>3, <1>4, <1>5, <1>6, <1>7

\* The thumbnail is written before the row names it.
LEMMA RepairWriteStep ==
  ASSUME IInv, RepairWrite PROVE IInv'
<1> USE DEF IInv, TypeOK, CallFacts, RepairWrite, writeThumbFile, RepairFrame, RowDone, SlipBy, Fault, tables, disk, sends, repairs, notices
<1>1. TablesOK'
  BY MediaAssumption, CallsAssumption DEF TablesOK, DownloadOK, SendOK, WorkOK, RepairOK, DownloadFacts, SendFacts, WorkFacts, RepairFacts, Rows, Paths, TempOwners
<1>2. (DownloadOK /\ SendOK /\ WorkOK)'
  BY MediaAssumption, CallsAssumption DEF TablesOK, DownloadOK, Paths, TempOwners, DownloadFacts, SendOK, SendFacts, WorkOK, WorkFacts
<1>3. RepairOK'
  BY MediaAssumption, CallsAssumption DEF RepairOK, NoMessage
<1>4. CountsOK'
  BY MediaAssumption, CallsAssumption DEF CountsOK, SendOK, WorkOK, RepairOK, TablesOK, SendFacts, WorkFacts, RepairFacts
<1>5. (DownloadFacts /\ SendFacts /\ WorkFacts)'
  BY MediaAssumption, CallsAssumption DEF TablesOK, DownloadOK, DownloadFacts, Seen, TempOwners, Returned, SendOK, SendFacts, Idle, WorkOK, WorkFacts
<1>6. RepairFacts'
  <2>1. CASE repair' = [repair EXCEPT !.at = "next", !.msg = NoMessage]
    <3>1. repair'.at = "next"
      BY <2>1 DEF RepairOK
    <3>2. QED BY <3>1 DEF RepairFacts
  <2>2. CASE repair' = [repair EXCEPT !.at = "store"] /\ thumbs' = thumbs \cup {EmbeddedOf[repair.msg]}
    BY <2>2 DEF RepairFacts, RepairOK
  <2>3. QED BY <2>1, <2>2
<1>7. RowFacts'
  BY MediaAssumption, CallsAssumption DEF TablesOK, DownloadOK, DownloadFacts, SendOK, SendFacts, WorkOK, WorkFacts, RepairOK, RepairFacts, RowFacts, Seen, Rows, TempOwners
<1>8. QED BY <1>1, <1>2, <1>3, <1>4, <1>5, <1>6, <1>7

\* The row names a thumbnail that is there.
LEMMA RepairStoreStep ==
  ASSUME IInv, RepairStore PROVE IInv'
<1> USE DEF IInv, TypeOK, CallFacts, RepairStore, RepairFrame, RowDone, SlipBy, Fault, SetMediaThumbPath, tables, disk, sends, repairs, notices
<1>1. TablesOK'
  <2>1. UNCHANGED <<rows, files, removed, thumbs>> /\ repair.msg \in Messages
    BY DEF RepairFacts
  <2>2. CASE UNCHANGED media
    BY <2>1, <2>2 DEF TablesOK
  <2>3. CASE media' = SetMediaThumbPath(media, repair.msg, EmbeddedOf[repair.msg])
    <3>1. EmbeddedOf[repair.msg] \in Paths
      BY <2>1, MediaAssumption DEF Paths
    <3>2. QED BY <2>1, <2>3, <3>1 DEF TablesOK, Rows
  <2>4. QED BY <2>2, <2>3
<1>2. (DownloadOK /\ SendOK /\ WorkOK)'
  BY MediaAssumption, CallsAssumption DEF TablesOK, DownloadOK, Paths, TempOwners, DownloadFacts, SendOK, SendFacts, WorkOK, WorkFacts
<1>3. RepairOK'
  BY MediaAssumption, CallsAssumption DEF RepairOK, NoMessage
<1>4. CountsOK'
  BY MediaAssumption, CallsAssumption DEF CountsOK, SendOK, WorkOK, RepairOK, TablesOK, SendFacts, WorkFacts, RepairFacts
<1>5. (DownloadFacts /\ SendFacts /\ WorkFacts)'
  BY MediaAssumption, CallsAssumption DEF TablesOK, DownloadOK, DownloadFacts, Seen, TempOwners, Returned, SendOK, SendFacts, Idle, WorkOK, WorkFacts
<1>6. RepairFacts'
  <2>1. repair' = [repair EXCEPT !.at = "next", !.msg = NoMessage]
    OBVIOUS
  <2>2. repair'.at = "next"
    BY <2>1 DEF RepairOK
  <2>3. QED BY <2>2 DEF RepairFacts
<1>7. RowFacts'
  BY MediaAssumption, CallsAssumption DEF TablesOK, DownloadOK, DownloadFacts, SendOK, SendFacts, WorkOK, WorkFacts, RepairOK, RepairFacts, RowFacts, Seen, Rows, TempOwners
<1>8. QED BY <1>1, <1>2, <1>3, <1>4, <1>5, <1>6, <1>7

\* The pass ends.
LEMMA EndRepairStep ==
  ASSUME IInv, EndRepair PROVE IInv'
<1> USE DEF IInv, TypeOK, CallFacts, EndRepair, RepairFrame, tables, disk, sends, repairs, notices
<1>1. TablesOK'
  BY MediaAssumption, CallsAssumption DEF TablesOK, DownloadOK, SendOK, WorkOK, RepairOK, DownloadFacts, SendFacts, WorkFacts, RepairFacts, Rows, Paths, TempOwners
<1>2. (DownloadOK /\ SendOK /\ WorkOK)'
  BY MediaAssumption, CallsAssumption DEF TablesOK, DownloadOK, Paths, TempOwners, DownloadFacts, SendOK, SendFacts, WorkOK, WorkFacts
<1>3. RepairOK'
  BY MediaAssumption, CallsAssumption DEF RepairOK, NoMessage
<1>4. CountsOK'
  BY MediaAssumption, CallsAssumption DEF CountsOK, SendOK, WorkOK, RepairOK, TablesOK, SendFacts, WorkFacts, RepairFacts
<1>5. (DownloadFacts /\ SendFacts /\ WorkFacts)'
  BY MediaAssumption, CallsAssumption DEF TablesOK, DownloadOK, DownloadFacts, Seen, TempOwners, Returned, SendOK, SendFacts, Idle, WorkOK, WorkFacts
<1>6. RepairFacts'
  BY MediaAssumption, CallsAssumption DEF TablesOK, RepairOK, RepairFacts
<1>7. RowFacts'
  BY MediaAssumption, CallsAssumption DEF TablesOK, DownloadOK, DownloadFacts, SendOK, SendFacts, WorkOK, WorkFacts, RepairOK, RepairFacts, RowFacts, Seen, Rows, TempOwners
<1>8. QED BY <1>1, <1>2, <1>3, <1>4, <1>5, <1>6, <1>7

-----------------------------------------------------------------------------
(* Crashes and the user                                                    *)

\* Nothing is in hand after a crash; rows and files are as they were.
LEMMA CrashStep ==
  ASSUME IInv, Crash PROVE IInv'
<1> USE DEF IInv, TypeOK, CallFacts, Crash, Receiving, Finalizing, Fault, tables, disk, sends, repairs, notices
<1>1. TablesOK'
  BY MediaAssumption, CallsAssumption DEF TablesOK, DownloadOK, SendOK, WorkOK, RepairOK, DownloadFacts, SendFacts, WorkFacts, RepairFacts, Rows, Paths, TempOwners
<1>2. DownloadOK'
  BY MediaAssumption, CallsAssumption, ReturnedTyped DEF TablesOK, DownloadOK, Paths, TempOwners, DownloadFacts
<1>3. (SendOK /\ WorkOK /\ RepairOK)'
  BY MediaAssumption, CallsAssumption, IdleTyped DEF TablesOK, SendOK, Paths, SendFacts, WorkOK, WorkFacts, RepairOK, NoMessage
<1>4. CountsOK'
  BY MediaAssumption, CallsAssumption DEF CountsOK, SendOK, WorkOK, RepairOK, TablesOK, SendFacts, WorkFacts, RepairFacts
<1>5. (DownloadFacts /\ SendFacts /\ WorkFacts)'
  BY MediaAssumption, CallsAssumption DEF TablesOK, DownloadOK, DownloadFacts, Seen, TempOwners, Returned, SendOK, SendFacts, Idle, WorkOK, WorkFacts
<1>6. RepairFacts'
  BY MediaAssumption, CallsAssumption DEF TablesOK, RepairOK, RepairFacts
<1>7. RowFacts'
  BY MediaAssumption, CallsAssumption DEF TablesOK, DownloadOK, DownloadFacts, SendOK, SendFacts, WorkOK, WorkFacts, RepairOK, RepairFacts, RowFacts, Seen, Rows, TempOwners
<1>8. QED BY <1>1, <1>2, <1>3, <1>4, <1>5, <1>6, <1>7

\* The user removes a file: removed remembers it.
LEMMA RemoveFileStep ==
  ASSUME NEW f \in Digests, IInv, RemoveFile(f) PROVE IInv'
<1> USE DEF IInv, TypeOK, CallFacts, RemoveFile, tables, disk, sends, repairs, notices
<1>1. TablesOK'
  BY MediaAssumption, CallsAssumption DEF TablesOK, DownloadOK, SendOK, WorkOK, RepairOK, DownloadFacts, SendFacts, WorkFacts, RepairFacts, Rows, Paths, TempOwners
<1>2. DownloadOK'
  BY MediaAssumption, CallsAssumption, ReturnedTyped DEF TablesOK, DownloadOK, Paths, TempOwners, DownloadFacts
<1>3. (SendOK /\ WorkOK /\ RepairOK)'
  BY MediaAssumption, CallsAssumption, IdleTyped DEF TablesOK, SendOK, Paths, SendFacts, WorkOK, WorkFacts, RepairOK, NoMessage
<1>4. CountsOK'
  BY MediaAssumption, CallsAssumption DEF CountsOK, SendOK, WorkOK, RepairOK, TablesOK, SendFacts, WorkFacts, RepairFacts
<1>5. (DownloadFacts /\ SendFacts /\ WorkFacts)'
  BY MediaAssumption, CallsAssumption DEF TablesOK, DownloadOK, DownloadFacts, Seen, TempOwners, Returned, SendOK, SendFacts, Idle, WorkOK, WorkFacts
<1>6. RepairFacts'
  BY MediaAssumption, CallsAssumption DEF TablesOK, RepairOK, RepairFacts
<1>7. RowFacts'
  BY MediaAssumption, CallsAssumption DEF TablesOK, DownloadOK, DownloadFacts, SendOK, SendFacts, WorkOK, WorkFacts, RepairOK, RepairFacts, RowFacts, Seen, Rows, TempOwners
<1>8. QED BY <1>1, <1>2, <1>3, <1>4, <1>5, <1>6, <1>7

-----------------------------------------------------------------------------
(* The theorems about files and rows                                       *)

-----------------------------------------------------------------------------
(* The theorems                                                            *)

\* Legacy rows have neither file nor thumbnail.
LEMMA InitInvariant == Init => IInv
<1> SUFFICES ASSUME Init PROVE IInv
  OBVIOUS
<1> USE MediaAssumption, CallsAssumption DEF Init
<1>1. TablesOK
  BY DEF TablesOK, Rows, Paths, NoRow
<1>2. DownloadOK /\ SendOK /\ WorkOK /\ RepairOK
  BY ReturnedTyped, IdleTyped DEF DownloadOK, SendOK, WorkOK, RepairOK, NoMessage
<1>3. CountsOK
  BY DEF CountsOK
<1>4. CallFacts
  BY DEF CallFacts, DownloadFacts, SendFacts, WorkFacts, RepairFacts, Returned, Idle, TempOwners
<1>5. RowFacts
  BY DEF RowFacts, NoRow
<1>6. QED BY <1>1, <1>2, <1>3, <1>4, <1>5 DEF IInv, TypeOK

\* Every step keeps the invariant.
LEMMA StepInvariant == IInv /\ [Next]_vars => IInv'
<1> SUFFICES ASSUME IInv, [Next]_vars PROVE IInv'
  OBVIOUS
<1>1. CASE \E d \in Downloads : DownloadStep(d) \/ \E m \in Messages : MediaDownload(d, m)
  BY <1>1, MediaDownloadStep, DownloadToFileStep, PlaceDownloadStep, ThumbnailDownloadStep,
     MarkDownloadStep DEF DownloadStep
<1>2. CASE SendStep \/ \E m \in Messages : MediaSend(m)
  BY <1>2, MediaSendStep, UploadAndSendStep, copyToCacheStep, PlaceCopyStep, ThumbnailSendStep,
     InsertSentStep, UpsertSentStep, MarkSentStep, PublishSentStep DEF SendStep
<1>3. CASE WorkStep \/ \E m \in Messages : Deliver(m)
  BY <1>3, DeliverStep, attachEmbeddedThumbStep, InsertDeliveredStep, UpsertDeliveredStep,
     PublishDeliveredStep DEF WorkStep
<1>4. CASE RepairStep
  BY <1>4, ListPendingStep, RepairNextStep, RepairWriteStep, RepairStoreStep, EndRepairStep
     DEF RepairStep
<1>5. CASE Crash \/ \E f \in Digests : RemoveFile(f)
  BY <1>5, CrashStep, RemoveFileStep
<1>6. CASE UNCHANGED vars
  BY <1>6 DEF IInv, vars, tables, disk, sends, repairs, notices, TypeOK, TablesOK, DownloadOK,
     SendOK, WorkOK, RepairOK, CountsOK, CallFacts, DownloadFacts, SendFacts, WorkFacts,
     RepairFacts, RowFacts, Seen
<1>7. QED BY <1>1, <1>2, <1>3, <1>4, <1>5, <1>6 DEF Next

\* The invariant holds throughout.
LEMMA Invariant == Spec => []IInv
<1>1. QED BY InitInvariant, StepInvariant, PTL DEF Spec

\* Every reachable state is well formed: in particular a file under its final name is whole.
THEOREM TypeCorrect == Spec => []TypeOK
<1>1. IInv => TypeOK
  BY DEF IInv
<1>2. QED BY <1>1, Invariant, PTL

\* The rows agree with the files, at every moment and after every crash (MarkMediaDownloaded
\* after the rename, and nothing but the user removes a file).
THEOREM RowsAgreeWithFiles == Spec => []CacheAgrees
<1>1. IInv => CacheAgrees
  BY DEF IInv, CallFacts, DownloadFacts, SendFacts, RowFacts, CacheAgrees, Seen
<1>2. QED BY <1>1, Invariant, PTL

-----------------------------------------------------------------------------
(* One announcement per message                                            *)

\* Who handles a new row, and what has been published for it.
AnnounceFact(m) ==
  /\ Receiving(m) \/ Finalizing(m) => m \in rows /\ published[m] = 0
  /\ ~(Receiving(m) /\ Finalizing(m))
  /\ published[m] \in {0, 1} /\ (published[m] = 1 => m \in rows)
  /\ m \in rows \ (Legacy \cup cut) => Receiving(m) \/ Finalizing(m) \/ published[m] = 1

\* When a handler has a new row in hand, and that fact of every message.
AnnounceFacts ==
  /\ work.fresh => work.at \in {"media", "publish"}
  /\ work.at = "publish" => work.fresh
  /\ send.fresh => send.at \in {"media", "mark", "publish"}
  /\ \A m \in Messages : AnnounceFact(m)

\* Steps of others, and steps of a handler that has no new row in hand.
LEMMA NothingAnnounced ==
  ASSUME AnnounceFacts, UNCHANGED <<rows, published, cut>>,
         UNCHANGED work \/ (~work.fresh /\ ~work'.fresh /\ work'.at # "publish"),
         UNCHANGED send \/ (~send.fresh /\ ~send'.fresh)
  PROVE  AnnounceFacts'
BY DEF AnnounceFacts, AnnounceFact, Receiving, Finalizing

\* What the two families of actions that announce nothing leave alone.
LEMMA DownloadsOnly ==
  ASSUME NEW d \in Downloads, DownloadStep(d)
  PROVE  DownloadFrame
<1>1. CASE DownloadToFile(d)
  BY <1>1 DEF DownloadToFile
<1>2. CASE PlaceDownload(d)
  BY <1>2 DEF PlaceDownload
<1>3. CASE ThumbnailDownload(d)
  BY <1>3 DEF ThumbnailDownload
<1>4. CASE MarkDownload(d)
  BY <1>4 DEF MarkDownload
<1>5. QED BY <1>1, <1>2, <1>3, <1>4, Zenon DEF DownloadStep

\* And the backfill.
LEMMA RepairsOnly ==
  ASSUME RepairStep PROVE RepairFrame
<1>1. CASE ListPending
  BY <1>1, Zenon DEF ListPending
<1>2. CASE RepairNext
  BY <1>2 DEF RepairNext
<1>3. CASE RepairWrite
  BY <1>3 DEF RepairWrite
<1>4. CASE RepairStore
  BY <1>4 DEF RepairStore
<1>5. CASE EndRepair
  BY <1>5 DEF EndRepair
<1>6. QED BY <1>1, <1>2, <1>3, <1>4, <1>5, Zenon DEF RepairStep

\* media.send: the insert decides whether the echo was there before.
LEMMA SendAnnounces == ASSUME IInv, AnnounceFacts, SendStep PROVE AnnounceFacts'
<1> USE DEF IInv, TypeOK, CallFacts, SendFrame, tables, notices
<1>1. CASE UploadAndSend \/ copyToCache \/ PlaceCopy \/ ThumbnailSend
  <2>1. ~send.fresh
    BY <1>1 DEF UploadAndSend, copyToCache, PlaceCopy, ThumbnailSend, AnnounceFacts
  <2>2. ~send'.fresh
    <3>1. CASE UploadAndSend
      BY <2>1, <3>1 DEF UploadAndSend, ReturnFromSend, SendAt, Idle, SendOK
    <3>2. CASE copyToCache
      BY <2>1, <3>2 DEF copyToCache, ReturnFromSend, SendAt, Idle, SendOK
    <3>3. CASE PlaceCopy
      BY <2>1, <3>3 DEF PlaceCopy, ReturnFromSend, SendAt, Idle, SendOK
    <3>4. CASE ThumbnailSend
      BY <2>1, <3>4 DEF ThumbnailSend, SendAt, SendOK
    <3>5. QED BY <1>1, <3>1, <3>2, <3>3, <3>4
  <2>3. UNCHANGED <<rows, published, cut, work>>
    BY <1>1 DEF UploadAndSend, copyToCache, PlaceCopy, ThumbnailSend
  <2>4. QED BY <2>1, <2>2, <2>3, NothingAnnounced
<1>2. CASE InsertSent
  <2>1. ~send.fresh
    BY <1>2 DEF InsertSent, AnnounceFacts
  <2>2. CASE ReturnFromSend /\ UNCHANGED rows
    BY <1>2, <2>1, <2>2, NothingAnnounced DEF InsertSent, ReturnFromSend, Idle
  <2>3. CASE /\ rows' = rows \cup {send.msg}
             /\ send' = [send EXCEPT !.fresh = send.msg \notin rows, !.at = "media"]
    <3>1. send'.msg = send.msg /\ send'.fresh = (send.msg \notin rows) /\ send'.at = "media"
      BY <2>3 DEF SendOK
    <3>2. UNCHANGED <<work, published, cut>>
      BY <1>2 DEF InsertSent
    <3>3. ASSUME NEW m \in Messages PROVE AnnounceFact(m)'
      <4>1. CASE m = send.msg
        BY <2>1, <2>3, <3>1, <3>2, <4>1 DEF AnnounceFacts, AnnounceFact, Receiving, Finalizing
      <4>2. CASE m # send.msg
        BY <2>1, <2>3, <3>1, <3>2, <4>2 DEF AnnounceFacts, AnnounceFact, Receiving, Finalizing
      <4>3. QED BY <4>1, <4>2
    <3>4. QED BY <3>1, <3>2, <3>3 DEF AnnounceFacts
  <2>4. QED BY <1>2, <2>2, <2>3 DEF InsertSent
<1>3. CASE UpsertSent \/ MarkSent
  <2>1. UNCHANGED <<rows, published, work>>
    BY <1>3 DEF UpsertSent, MarkSent
  <2>2. CASE CutSend
    BY <2>1, <2>2 DEF CutSend, ReturnFromSend, Idle, AnnounceFacts, AnnounceFact, Receiving, Finalizing
  <2>3. CASE (SendAt("mark") \/ SendAt("publish")) /\ UNCHANGED cut
    <3>1. send'.msg = send.msg /\ send'.fresh = send.fresh /\ send'.at \in {"mark", "publish"}
      BY <2>3 DEF SendAt, SendOK
    <3>2. QED BY <2>1, <2>3, <3>1 DEF AnnounceFacts, AnnounceFact, Receiving, Finalizing
  <2>4. QED BY <1>3, <2>2, <2>3 DEF UpsertSent, MarkSent
<1>4. CASE PublishSent
  <2>1. UNCHANGED <<rows, work>> /\ ~send'.fresh /\ send.msg \in Messages
    BY <1>4, CallsAssumption DEF PublishSent, CutSend, ReturnFromSend, Idle, SendFacts
  <2>2. CASE CutSend /\ UNCHANGED published
    BY <2>1, <2>2 DEF CutSend, AnnounceFacts, AnnounceFact, Receiving, Finalizing
  <2>3. CASE published' = (IF send.fresh THEN [published EXCEPT ![send.msg] = @ + 1] ELSE published) /\ UNCHANGED cut
    BY <2>1, <2>3 DEF CountsOK, AnnounceFacts, AnnounceFact, Receiving, Finalizing
  <2>4. QED BY <1>4, <2>2, <2>3 DEF PublishSent
<1>5. QED BY <1>1, <1>2, <1>3, <1>4 DEF SendStep

\* The worker likewise, for echoes and for received messages.
LEMMA WorkAnnounces == ASSUME IInv, AnnounceFacts, WorkStep PROVE AnnounceFacts'
<1> USE DEF IInv, TypeOK, CallFacts, WorkFrame, tables, sends, notices
<1>1. CASE attachEmbeddedThumb
  <2>1. ~work.fresh
    BY <1>1 DEF attachEmbeddedThumb, AnnounceFacts
  <2>2. ~work'.fresh /\ work'.at # "publish"
    BY <1>1, <2>1 DEF attachEmbeddedThumb, WorkOK
  <2>3. UNCHANGED <<rows, published, cut, send>>
    BY <1>1 DEF attachEmbeddedThumb
  <2>4. QED BY <2>1, <2>2, <2>3, NothingAnnounced
<1>2. CASE InsertDelivered
  <2>1. ~work.fresh
    BY <1>2 DEF InsertDelivered, AnnounceFacts
  <2>2. CASE work' = Idle /\ UNCHANGED rows
    BY <1>2, <2>1, <2>2, NothingAnnounced DEF InsertDelivered, Idle
  <2>3. CASE /\ rows' = rows \cup {work.msg}
             /\ work' = [work EXCEPT !.fresh = work.msg \notin rows, !.at = "media"]
    <3>1. work'.msg = work.msg /\ work'.fresh = (work.msg \notin rows) /\ work'.at = "media"
      BY <2>3 DEF WorkOK
    <3>2. UNCHANGED <<send, published, cut>>
      BY <1>2 DEF InsertDelivered
    <3>3. QED BY <2>1, <2>3, <3>1, <3>2 DEF AnnounceFacts, AnnounceFact, Receiving, Finalizing
  <2>4. QED BY <1>2, <2>2, <2>3 DEF InsertDelivered
<1>3. CASE UpsertDelivered
  <2>1. UNCHANGED <<rows, published, send>>
    BY <1>3 DEF UpsertDelivered
  <2>2. CASE CutWork
    BY <2>1, <2>2 DEF CutWork, Idle, AnnounceFacts, AnnounceFact, Receiving, Finalizing
  <2>3. CASE work' = (IF work.fresh THEN [work EXCEPT !.at = "publish"] ELSE Idle) /\ UNCHANGED cut
    <3>1. CASE work.fresh
      <4>1. work'.msg = work.msg /\ work'.fresh /\ work'.at = "publish"
        BY <2>3, <3>1 DEF WorkOK
      <4>2. QED BY <2>1, <2>3, <3>1, <4>1 DEF AnnounceFacts, AnnounceFact, Receiving, Finalizing
    <3>2. CASE ~work.fresh
      BY <2>1, <2>3, <3>2, NothingAnnounced DEF Idle
    <3>3. QED BY <3>1, <3>2
  <2>4. QED BY <1>3, <2>2, <2>3 DEF UpsertDelivered
<1>4. CASE PublishDelivered
  <2>1. /\ UNCHANGED <<rows, send>> /\ ~work'.fresh /\ work'.at = "idle"
        /\ work.fresh /\ work.msg \in Messages
    BY <1>4 DEF PublishDelivered, CutWork, Idle, WorkFacts, AnnounceFacts
  <2>2. CASE CutWork /\ UNCHANGED published
    BY <2>1, <2>2 DEF CutWork, AnnounceFacts, AnnounceFact, Receiving, Finalizing
  <2>3. CASE published' = [published EXCEPT ![work.msg] = @ + 1] /\ UNCHANGED cut
    BY <2>1, <2>3 DEF CountsOK, AnnounceFacts, AnnounceFact, Receiving, Finalizing
  <2>4. QED BY <1>4, <2>2, <2>3 DEF PublishDelivered
<1>5. QED BY <1>1, <1>2, <1>3, <1>4 DEF WorkStep

\* Every step keeps the facts.
LEMMA AnnounceStep == IInv /\ AnnounceFacts /\ [Next]_vars => AnnounceFacts'
<1> SUFFICES ASSUME IInv, AnnounceFacts, [Next]_vars PROVE AnnounceFacts'
  OBVIOUS
<1>1. CASE SendStep
  BY <1>1, SendAnnounces
<1>2. CASE WorkStep
  BY <1>2, WorkAnnounces
<1>3. CASE \E m \in Messages : MediaSend(m)
  <2>1. ~send.fresh /\ ~send'.fresh
    BY <1>3 DEF MediaSend, AnnounceFacts, Idle
  <2>2. UNCHANGED <<rows, published, cut, work>>
    BY <1>3 DEF MediaSend, SendFrame, tables, notices
  <2>3. QED BY <2>1, <2>2, NothingAnnounced
<1>4. CASE \E m \in Messages : Deliver(m)
  <2>1. ~work.fresh /\ ~work'.fresh /\ work'.at # "publish"
    BY <1>4 DEF Deliver, AnnounceFacts, Idle
  <2>2. UNCHANGED <<rows, published, cut, send>>
    BY <1>4 DEF Deliver, WorkFrame, tables, notices, sends
  <2>3. QED BY <2>1, <2>2, NothingAnnounced
<1>5. CASE Crash
  <2>1. ~work'.fresh /\ work'.at = "idle" /\ ~send'.fresh
    BY <1>5 DEF Crash, Idle
  <2>2. UNCHANGED <<rows, published>> /\ cut' = cut \cup {m \in Messages : Receiving(m) \/ Finalizing(m)}
    BY <1>5 DEF Crash, tables
  <2>3. QED BY <2>1, <2>2 DEF AnnounceFacts, AnnounceFact, Receiving, Finalizing
<1>6. CASE \E d \in Downloads, m \in Messages : MediaDownload(d, m)
  <2>1. PICK d \in Downloads, m \in Messages : MediaDownload(d, m)
    BY <1>6
  <2>2. DownloadFrame
    BY <2>1 DEF MediaDownload
  <2>3. QED BY <2>2, NothingAnnounced DEF DownloadFrame, sends, notices
<1>0. CASE \E d \in Downloads : DownloadStep(d)
  <2>1. PICK d \in Downloads : DownloadStep(d)
    BY <1>0
  <2>2. DownloadFrame
    BY <2>1, DownloadsOnly
  <2>3. QED BY <2>2, NothingAnnounced DEF DownloadFrame, sends, notices
<1>7. CASE RepairStep
  <2>1. RepairFrame
    BY <1>7, RepairsOnly
  <2>2. QED BY <2>1, NothingAnnounced DEF RepairFrame, sends, notices
<1>8. CASE \E f \in Digests : RemoveFile(f)
  BY <1>8, NothingAnnounced DEF RemoveFile, tables, sends, notices
<1>9. CASE UNCHANGED vars
  BY <1>9, NothingAnnounced DEF vars, tables, sends, notices
<1>10. QED BY <1>0, <1>1, <1>2, <1>3, <1>4, <1>5, <1>6, <1>7, <1>8, <1>9, Zenon DEF Next

\* A message is announced exactly once, however its echo and finalizeSentMedia interleave,
\* and nobody announces what is not in the tables.
THEOREM AnnouncedExactlyOnce == Spec => []AnnouncedOnce
<1>1. Init => AnnounceFacts
  BY DEF Init, AnnounceFacts, AnnounceFact, Receiving, Finalizing, Idle
<1>2. IInv /\ AnnounceFacts => AnnouncedOnce
  BY DEF AnnounceFacts, AnnounceFact, AnnouncedOnce
<1>3. QED BY <1>1, <1>2, Invariant, AnnounceStep, PTL DEF Spec

\* What no statement takes back of a row.
RowsStay(old, new) ==
  \A m \in Messages :
    /\ old[m].status = "done" => new[m].status = "done"
    /\ old[m].status # "absent" => new[m].status # "absent"
    /\ old[m].thumb # NoFile => new[m].thumb # NoFile

\* Every step takes nothing of it back.
LEMMA RowsGrow == IInv /\ [Next]_vars => RowsStay(media, media')
<1> SUFFICES ASSUME IInv, [Next]_vars PROVE RowsStay(media, media')
  OBVIOUS
<1> USE MediaAssumption DEF IInv, TypeOK, TablesOK, Rows, RowsStay
<1>1. CASE UNCHANGED media
  BY <1>1
<1>2. CASE \E m \in Messages, thumb \in Paths : media' = UpsertMedia(media, m, thumb)
  BY <1>2 DEF UpsertMedia
<1>3. CASE \E m \in Messages, path, thumb \in Paths : media' = MarkMediaDownloaded(media, m, path, thumb)
  BY <1>3 DEF MarkMediaDownloaded
<1>4. CASE \E m \in Messages, thumb \in Digests : media' = SetMediaThumbPath(media, m, thumb)
  BY <1>4 DEF SetMediaThumbPath
<1>5. \/ UNCHANGED media
      \/ \E m \in Messages, thumb \in Paths : media' = UpsertMedia(media, m, thumb)
      \/ \E m \in Messages, path, thumb \in Paths : media' = MarkMediaDownloaded(media, m, path, thumb)
      \/ \E m \in Messages, thumb \in Digests : media' = SetMediaThumbPath(media, m, thumb)
  <2>1. CASE \E d \in Downloads : MarkDownload(d)
    <3>1. PICK d \in Downloads : MarkDownload(d)
      BY <2>1
    <3>2. download[d].msg \in Messages /\ download[d].thumb \in Paths
      BY <3>1, CallsAssumption DEF MarkDownload, DownloadOK, CallFacts, DownloadFacts
    <3>3. QED BY <3>1, <3>2 DEF MarkDownload, Paths
  <2>2. CASE UpsertSent
    BY <2>2, CallsAssumption DEF UpsertSent, SendOK, CallFacts, SendFacts
  <2>3. CASE MarkSent
    BY <2>3, CallsAssumption DEF MarkSent, SendOK, CallFacts, SendFacts, Paths
  <2>4. CASE UpsertDelivered
    BY <2>4 DEF UpsertDelivered, WorkOK, CallFacts, WorkFacts
  <2>5. CASE RepairStore
    BY <2>5 DEF RepairStore, CallFacts, RepairFacts
  <2>6. CASE \E d \in Downloads : DownloadToFile(d)
    <3>1. PICK d \in Downloads : DownloadToFile(d)
      BY <2>6
    <3>2. QED BY <3>1 DEF DownloadToFile
  <2>7. CASE \E d \in Downloads : PlaceDownload(d)
    <3>1. PICK d \in Downloads : PlaceDownload(d)
      BY <2>7
    <3>2. QED BY <3>1 DEF PlaceDownload
  <2>8. CASE \E d \in Downloads : ThumbnailDownload(d)
    <3>1. PICK d \in Downloads : ThumbnailDownload(d)
      BY <2>8
    <3>2. QED BY <3>1 DEF ThumbnailDownload
  <2>9. CASE \E d \in Downloads, m \in Messages : MediaDownload(d, m)
    <3>1. PICK d \in Downloads, m \in Messages : MediaDownload(d, m)
      BY <2>9
    <3>2. QED BY <3>1 DEF MediaDownload
  <2>10. CASE UploadAndSend
    BY <2>10 DEF UploadAndSend, tables
  <2>11. CASE copyToCache
    BY <2>11 DEF copyToCache, tables
  <2>12. CASE PlaceCopy
    BY <2>12 DEF PlaceCopy, tables
  <2>13. CASE ThumbnailSend
    BY <2>13 DEF ThumbnailSend, tables
  <2>14. CASE InsertSent
    BY <2>14 DEF InsertSent
  <2>15. CASE PublishSent
    BY <2>15 DEF PublishSent, tables
  <2>16. CASE attachEmbeddedThumb
    BY <2>16 DEF attachEmbeddedThumb, tables
  <2>17. CASE InsertDelivered
    BY <2>17 DEF InsertDelivered
  <2>18. CASE PublishDelivered
    BY <2>18 DEF PublishDelivered, tables
  <2>19. CASE ListPending
    BY <2>19, Zenon DEF ListPending
  <2>20. CASE RepairNext
    BY <2>20 DEF RepairNext
  <2>21. CASE RepairWrite
    BY <2>21 DEF RepairWrite
  <2>22. CASE EndRepair
    BY <2>22 DEF EndRepair
  <2>23. CASE Crash
    BY <2>23 DEF Crash, tables
  <2>24. CASE \E m \in Messages : MediaSend(m)
    <3>1. PICK m \in Messages : MediaSend(m)
      BY <2>24
    <3>2. QED BY <3>1 DEF MediaSend, tables
  <2>25. CASE \E m \in Messages : Deliver(m)
    <3>1. PICK m \in Messages : Deliver(m)
      BY <2>25
    <3>2. QED BY <3>1 DEF Deliver, tables
  <2>26. CASE \E f \in Digests : RemoveFile(f)
    <3>1. PICK f \in Digests : RemoveFile(f)
      BY <2>26
    <3>2. QED BY <3>1 DEF RemoveFile, tables
  <2>27. CASE UNCHANGED vars
    BY <2>27 DEF vars, tables
  <2>28. QED
    BY <2>1, <2>2, <2>3, <2>4, <2>5, <2>6, <2>7, <2>8, <2>9, <2>10, <2>11, <2>12, <2>13, <2>14,
       <2>15, <2>16, <2>17, <2>18, <2>19, <2>20, <2>21, <2>22, <2>23, <2>24, <2>25, <2>26, <2>27,
       Zenon DEF Next, DownloadStep, SendStep, WorkStep, RepairStep
<1>6. QED BY <1>1, <1>2, <1>3, <1>4, <1>5

\* Nothing but a row's own improvement touches its download state: a redelivery, an echo or
\* the backfill never undoes a download or a thumbnail.
THEOREM DownloadsStay == Spec => CachedStays
<1>1. IInv /\ [Next]_vars =>
        [\A m \in Messages :
           /\ media[m].status = "done" => media'[m].status = "done"
           /\ media[m].thumb # NoFile => media'[m].thumb # NoFile]_vars
  BY RowsGrow DEF RowsStay
<1> QED
  BY <1>1, Invariant, PTL DEF Spec, CachedStays

-----------------------------------------------------------------------------
(* The backfill's pass                                                     *)

\* Rows of an older build have their media row, so a row without thumbnail is listed.
PassFacts == PassComplete /\ \A m \in Legacy : media[m].status # "absent"

\* A list of PassSize rows, oldest first, holds all pending rows of an older build.
LEMMA OldestHoldsLegacy ==
  ASSUME NEW pending \in SUBSET Messages, NEW some \in SUBSET pending, Oldest(pending, some),
         Cardinality(Legacy) <= PassSize
  PROVE  pending \cap Legacy \subseteq some
<1>1. CASE Cardinality(pending) <= PassSize \/ pending \cap Legacy \subseteq some
  BY <1>1 DEF Oldest
<1>2. CASE Cardinality(some) = PassSize /\ some \subseteq Legacy
  <2>1. IsFiniteSet(Legacy) /\ Cardinality(Legacy) \in Nat
    BY MediaAssumption, CallsAssumption, FS_Subset, FS_CardinalityType
  <2>2. some \in SUBSET Legacy /\ Cardinality(some) \in Nat
    BY <1>2, CallsAssumption
  <2>3. Cardinality(some) <= Cardinality(Legacy) /\ (Cardinality(Legacy) = Cardinality(some) => Legacy = some)
    BY <2>1, <2>2, FS_Subset
  <2> QED
    BY <1>2, <2>1, <2>2, <2>3, CallsAssumption
<1> QED
  BY <1>1, <1>2 DEF Oldest

\* A step that leaves the backfill alone.
LEMMA PassFrame ==
  ASSUME IInv, PassFacts, RowsStay(media, media'), UNCHANGED repairs
  PROVE  PassFacts'
BY CallsAssumption DEF PassFacts, PassComplete, RowsStay, Ahead, repairs

\* The backfill's own steps.
LEMMA RepairStepPasses ==
  ASSUME IInv, PassFacts, RowsStay(media, media'), RepairStep
  PROVE  PassFacts'
<1>1. \A m \in Legacy : m \in Messages /\ media'[m].status # "absent"
  BY CallsAssumption DEF PassFacts, RowsStay
<1>2. repair \in [at : {"list", "next", "write", "store", "done"},
                  todo : SUBSET Messages, msg : Messages \cup {NoMessage}]
  BY DEF IInv, TypeOK, RepairOK
<1> SUFFICES ASSUME Cardinality(Legacy) <= PassSize, repair'.at # "list",
                    NEW m \in Legacy \cap Embedding
             PROVE  media'[m].thumb # NoFile \/ m \in slipped' \/ Ahead(m)'
  BY <1>1 DEF PassFacts, PassComplete
<1>3. m \in Messages /\ (media[m].thumb # NoFile => media'[m].thumb # NoFile)
  BY <1>1 DEF RowsStay
<1>4. CASE ListPending
  <2>1. m \in PendingThumbnails(media) \/ media[m].thumb # NoFile
    BY <1>3 DEF PendingThumbnails, PassFacts
  <2>2. CASE slipped' = slipped \cup PendingThumbnails(media)
    BY <1>3, <2>1, <2>2
  <2>3. ASSUME NEW some \in SUBSET PendingThumbnails(media), Oldest(PendingThumbnails(media), some),
               repair' = [repair EXCEPT !.at = "next", !.todo = some]
        PROVE  media'[m].thumb # NoFile \/ Ahead(m)'
    <3>1. repair'.at = "next" /\ repair'.todo = some
      BY <1>2, <2>3
    <3>2. m \in PendingThumbnails(media) => m \in some
      BY <2>3, OldestHoldsLegacy DEF PendingThumbnails
    <3> QED
      BY <1>3, <2>1, <3>1, <3>2 DEF Ahead
  <2> QED
    BY <1>4, <2>2, <2>3 DEF ListPending
<1>5. CASE repair.at # "list" /\ ~ListPending
  <2>1. media[m].thumb # NoFile \/ m \in slipped \/ Ahead(m)
    BY <1>5 DEF PassFacts, PassComplete
  <2>2. slipped \subseteq slipped'
    BY <1>5 DEF RepairStep, RepairNext, RepairWrite, RepairStore, EndRepair, SlipBy
  <2>3. CASE RepairNext
    <3>1. PICK x \in repair.todo :
            repair' = IF x \in Embedding
                        THEN [at |-> "write", todo |-> repair.todo \ {x}, msg |-> x]
                        ELSE [repair EXCEPT !.todo = @ \ {x}]
      BY <2>3 DEF RepairNext
    <3>2. repair.at = "next"
      BY <2>3 DEF RepairNext
    <3>3. CASE x \in Embedding
      <4>1. repair'.at = "write" /\ repair'.todo = repair.todo \ {x} /\ repair'.msg = x
        BY <3>1, <3>3
      <4> QED
        BY <1>3, <2>1, <2>2, <3>2, <4>1 DEF Ahead
    <3>4. CASE x \notin Embedding
      <4>1. repair'.at = "next" /\ repair'.todo = repair.todo \ {x} /\ m # x
        BY <1>2, <3>1, <3>2, <3>4
      <4> QED
        BY <1>3, <2>1, <2>2, <3>2, <4>1 DEF Ahead
    <3> QED
      BY <3>3, <3>4
  <2>4. CASE RepairWrite \/ RepairStore
    <3>1. /\ repair.at \in {"write", "store"} /\ repair.msg \in Messages
          /\ \/ repair' = [repair EXCEPT !.at = "store"] /\ repair.at = "write"
             \/ RowDone /\ media' = SetMediaThumbPath(media, repair.msg, EmbeddedOf[repair.msg])
             \/ RowDone /\ slipped' = slipped \cup {repair.msg}
      BY <2>4 DEF RepairWrite, RepairStore, SlipBy, IInv, CallFacts, RepairFacts
    <3>2. CASE repair' = [repair EXCEPT !.at = "store"]
      <4>1. repair'.at = "store" /\ repair'.todo = repair.todo /\ repair'.msg = repair.msg
        BY <1>2, <3>2
      <4> QED
        BY <1>3, <2>1, <2>2, <3>1, <4>1 DEF Ahead
    <3>3. CASE RowDone
      <4>1. repair'.at = "next" /\ repair'.todo = repair.todo
        BY <1>2, <3>3 DEF RowDone
      <4>2. CASE m # repair.msg
        BY <1>3, <2>1, <2>2, <3>1, <4>1, <4>2 DEF Ahead
      <4>3. CASE m = repair.msg
        <5>1. m \in slipped' \/ media' = SetMediaThumbPath(media, m, EmbeddedOf[m])
          BY <1>2, <3>1, <3>3, <4>3 DEF RowDone
        <5>2. media[m].status # "absent" /\ media \in [Messages -> Rows]
          BY DEF PassFacts, IInv, TypeOK, TablesOK
        <5>3. EmbeddedOf[m] # NoFile
          BY <1>3, MediaAssumption
        <5> QED
          BY <1>3, <5>1, <5>2, <5>3 DEF SetMediaThumbPath, Rows
      <4> QED
        BY <4>2, <4>3
    <3> QED
      BY <3>1, <3>2, <3>3
  <2>5. CASE EndRepair
    BY <1>3, <2>1, <2>2, <2>5 DEF EndRepair, Ahead
  <2> QED
    BY <1>5, <2>3, <2>4, <2>5 DEF RepairStep
<1> QED
  BY <1>4, <1>5 DEF RepairStep, RepairNext, RepairWrite, RepairStore, EndRepair

\* From the listing to the end of the pass no row that the backfill can help is forgotten.
THEOREM PassIsComplete == Spec => []PassComplete
<1>1. Init => PassFacts
  <2> SUFFICES ASSUME Init PROVE PassFacts
    OBVIOUS
  <2>1. repair.at = "list"
    BY DEF Init
  <2>2. \A m \in Legacy : media[m] = [NoRow EXCEPT !.status = "known"]
    BY CallsAssumption DEF Init
  <2> QED
    BY <2>1, <2>2 DEF PassFacts, PassComplete, NoRow
<1>2. IInv /\ PassFacts /\ [Next]_vars => PassFacts'
  <2> SUFFICES ASSUME IInv, PassFacts, [Next]_vars PROVE PassFacts'
    OBVIOUS
  <2>1. RowsStay(media, media')
    BY RowsGrow
  <2>2. CASE RepairStep
    BY <2>1, <2>2, RepairStepPasses
  <2>3. CASE Crash
    <3>1. repair'.at = "list" /\ UNCHANGED media
      BY <2>3 DEF Crash, tables
    <3> QED
      BY <3>1 DEF PassFacts, PassComplete
  <2>4. CASE UNCHANGED repairs
    BY <2>1, <2>4, PassFrame
  <2>5. RepairStep \/ Crash \/ UNCHANGED repairs
    <3>1. (\E d \in Downloads : DownloadStep(d)) => UNCHANGED repairs
      BY DEF DownloadStep, DownloadToFile, PlaceDownload, ThumbnailDownload, MarkDownload,
             DownloadFrame
    <3>2. (\E d \in Downloads, m \in Messages : MediaDownload(d, m)) => UNCHANGED repairs
      BY DEF MediaDownload, DownloadFrame
    <3>3. SendStep \/ (\E m \in Messages : MediaSend(m)) => UNCHANGED repairs
      BY DEF SendStep, MediaSend, UploadAndSend, copyToCache, PlaceCopy, ThumbnailSend,
             InsertSent, UpsertSent, MarkSent, PublishSent, SendFrame
    <3>4. WorkStep \/ (\E m \in Messages : Deliver(m)) => UNCHANGED repairs
      BY DEF WorkStep, Deliver, attachEmbeddedThumb, InsertDelivered, UpsertDelivered,
             PublishDelivered, WorkFrame
    <3>5. (\E f \in Digests : RemoveFile(f)) \/ UNCHANGED vars => UNCHANGED repairs
      BY DEF RemoveFile, vars
    <3> QED
      BY <3>1, <3>2, <3>3, <3>4, <3>5 DEF Next
  <2> QED
    BY <2>2, <2>3, <2>4, <2>5
<1>3. PassFacts => PassComplete
  BY DEF PassFacts
<1> QED
  BY <1>1, <1>2, <1>3, Invariant, PTL DEF Spec

=============================================================================
