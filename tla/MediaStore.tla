----------------------------- MODULE MediaStore -----------------------------
(***************************************************************************)
(* The table cae_media and its statements (internal/database/repo.go), and *)
(* the names of the files its rows point to (internal/whatsapp/media.go).  *)
(*                                                                         *)
(* A file is known by its name, the digest of its bytes, so two messages   *)
(* with the same content share a file.  Kinds, sizes and formats are left  *)
(* out: they decide the directory and the extension, not who writes what.  *)
(***************************************************************************)
EXTENDS Naturals, FiniteSets

CONSTANTS
  Messages,       \* IDs of messages with media
  Digests,        \* digests of contents and of protobufs
  ContentOf,      \* the digest of a message's bytes
  Embedding,      \* the messages whose protobuf carries a thumbnail
  EmbeddedOf,     \* the digest that names it: the one in the protobuf, or the protobuf's own
  NoFile          \* the NULL or empty path

ASSUME MediaAssumption ==
  /\ IsFiniteSet(Messages) /\ NoFile \notin Digests
  /\ Embedding \subseteq Messages
  /\ ContentOf \in [Messages -> Digests] /\ EmbeddedOf \in [Messages -> Digests]

Paths == Digests \cup {NoFile}

\* A row as far as the files go.  "absent" is no row at all; the descriptor that a
\* download needs, and the embedded thumbnail, are in every row that extractMedia built.
Rows == [status : {"absent", "known", "done"}, path : Paths, thumb : Paths]

NoRow == [status |-> "absent", path |-> NoFile, thumb |-> NoFile]

\* Wrong variant: the refined row replaces the old one, download state included.
UpsertMedia_Replaces(table, m, thumb) ==
  [table EXCEPT ![m] = [status |-> "known", path |-> NoFile, thumb |-> thumb]]

\* A new row, or a refinement of one: the download state is left alone, and so is the
\* thumbnail unless this row brings one.
UpsertMedia(table, m, thumb) ==
  [table EXCEPT ![m] =
     [status |-> IF @.status = "absent" THEN "known" ELSE @.status,
      path   |-> @.path,
      thumb  |-> IF thumb # NoFile THEN thumb ELSE @.thumb]]

\* Without a row nothing is updated.
MarkMediaDownloaded(table, m, path, thumb) ==
  IF table[m].status = "absent" THEN table
  ELSE [table EXCEPT ![m] =
          [status |-> "done", path |-> path,
           thumb  |-> IF thumb # NoFile THEN thumb ELSE @.thumb]]

SetMediaThumbPath(table, m, thumb) ==
  IF table[m].status = "absent" THEN table ELSE [table EXCEPT ![m].thumb = thumb]

\* Rows without a thumbnail; whether their protobuf has one is not asked.
PendingThumbnails(table) ==
  {m \in Messages : table[m].status # "absent" /\ table[m].thumb = NoFile}

=============================================================================
