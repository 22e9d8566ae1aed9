---------------------------- MODULE FileTransfer ----------------------------
(***************************************************************************)
(* What an upload and a download of ControlFileService (zeaz_control/      *)
(* files.py) do with the bytes.  An upload is spooled to a private file in *)
(* chunks, validated there, sent to the provider, and listed only if the   *)
(* provider's record agrees; the file is unlinked.  A download is checked  *)
(* as it passes through: chunks have been delivered before the digest is.  *)
(* Contents are short sequences of tokens, their digests the contents.     *)
(***************************************************************************)
EXTENDS Integers, Sequences, FiniteSets, SequencesExt

CONSTANTS
  Tokens,        \* what contents are made of; "sig", "line", "lead", "trail"
  Media,         \* declared types: "image", "jsonl", "text", "octets"
  MaxChunkLen,   \* policy.max_chunk_bytes
  MaxUpload,     \* policy.max_upload_bytes
  MaxDownload,   \* policy.max_download_bytes
  MaxLines,      \* policy.max_jsonl_lines
  MaxUploads     \* bound: uploads begun

ASSUME TransferAssumption ==
  /\ MaxChunkLen \in Nat \ {0} /\ MaxUpload \in Nat \ {0}
  /\ MaxDownload \in Nat /\ MaxLines \in Nat /\ MaxUploads \in Nat

VARIABLES
  upload,        \* [at, id, media, read]: the upload in progress; read is what the source gave
  staging,       \* the staged files that exist, [id, content]
  remote,        \* the provider's files, [id, content]
  fileRows,       \* control_files, [id, bytes, sha256, media]
  download,      \* [at, row, got]: the download in progress and what it has delivered
  cutSpools      \* history: uploads cancelled while they were spooled

transferVars == <<upload, staging, remote, fileRows, download, cutSpools>>

NoUpload == [at |-> "idle", id |-> 0, media |-> "octets", read |-> <<>>]
NoDownload == [at |-> "idle", row |-> {}, got |-> <<>>]

Chunks(n) == UNION {[1..k -> Tokens] : k \in 1..n}

TransferInit ==
  /\ upload = NoUpload /\ staging = {} /\ remote = {} /\ fileRows = {}
  /\ download = NoDownload /\ cutSpools = {}

-----------------------------------------------------------------------------
Staged(id) == {f \in staging : f.id = id}

\* upload(): a temporary file is made.
BeginUpload ==
  /\ upload.at = "idle" /\ upload.id < MaxUploads
  /\ \E media \in Media :
       upload' = [at |-> "spooling", id |-> upload.id + 1, media |-> media, read |-> <<>>]
  /\ staging' = staging \union {[id |-> upload.id + 1, content |-> <<>>]}
  /\ UNCHANGED <<remote, fileRows, download, cutSpools>>

\* The finally of upload() and the except of _spool_upload(): the file is unlinked.
Unlink == staging' = staging \ Staged(upload.id)
EndUpload == upload' = [upload EXCEPT !.at = "idle"]

\* A chunk is written; one that is too long, or too much in all, ends the upload.
Spool ==
  /\ upload.at = "spooling"
  /\ \E chunk \in Chunks(MaxChunkLen + 1) :
       LET content == upload.read \o chunk IN
       IF Len(chunk) <= MaxChunkLen /\ Len(content) <= MaxUpload
       THEN /\ upload' = [upload EXCEPT !.read = content]
            /\ staging' = (staging \ Staged(upload.id)) \union {[id |-> upload.id, content |-> content]}
       ELSE Unlink /\ EndUpload
  /\ UNCHANGED <<remote, fileRows, download, cutSpools>>

\* The source fails, or ends without a byte.
SpoolFails ==
  /\ upload.at = "spooling" /\ Unlink /\ EndUpload
  /\ UNCHANGED <<remote, fileRows, download, cutSpools>>

\* A cancellation is no Exception: the file and its descriptor stay.
SpoolCancelled ==
  /\ upload.at = "spooling" /\ EndUpload
  /\ cutSpools' = cutSpools \union {upload.id}
  /\ UNCHANGED <<staging, remote, fileRows, download>>

\* Every line an object, none too many of them.
Jsonl(content) == Len(content) <= MaxLines /\ ToSet(content) = {"line"}

\* Strict UTF-8, decoded over the boundaries of the blocks it is read in.
Utf8(content) ==
  \A i \in DOMAIN content :
    /\ content[i] = "lead" => i < Len(content) /\ content[i + 1] = "trail"
    /\ content[i] = "trail" => i > 1 /\ content[i - 1] = "lead"

\* _validate_content(): the signature of the declared type, or its lines.
ValidContent(media, content) ==
  CASE media = "image" -> content[1] = "sig"
    [] media = "jsonl" -> Jsonl(content)
    [] media = "text" -> Utf8(content)
    [] media = "octets" -> TRUE

\* The source has ended: size and digest are final, the content is validated.
Validate ==
  /\ upload.at = "spooling" /\ upload.read # <<>>
  /\ IF ValidContent(upload.media, upload.read)
     THEN upload' = [upload EXCEPT !.at = "sending"] /\ staging' = staging
     ELSE Unlink /\ EndUpload
  /\ UNCHANGED <<remote, fileRows, download, cutSpools>>

\* The provider stores what it is sent, or something else (external).
RemoteStores ==
  /\ upload.at = "sending" /\ \A f \in remote : f.id # upload.id
  /\ \E f \in Staged(upload.id) : \E content \in {f.content, Reverse(f.content), <<>>} :
       remote' = remote \union {[f EXCEPT !.content = content]}
  /\ UNCHANGED <<upload, staging, fileRows, download, cutSpools>>

\* The answer names the size of the provider's copy.  It has no digest: the adapter
\* fills in the one it was given, so that of two copies of one size either agrees.
RecordAgrees(file) == Len(file.content) = Len(upload.read)

\* The provider's answer: the row is written if it agrees.
Sent ==
  /\ upload.at = "sending"
  /\ \E f \in remote :
       /\ f.id = upload.id
       /\ fileRows' = IF RecordAgrees(f)
                     THEN fileRows \union {[id |-> f.id, bytes |-> Len(upload.read),
                                           sha256 |-> upload.read, media |-> upload.media]}
                     ELSE fileRows
  /\ Unlink /\ EndUpload
  /\ UNCHANGED <<remote, download, cutSpools>>

\* The provider fails, the answer is lost, or the caller is cancelled.
SendFails ==
  /\ upload.at = "sending" /\ Unlink /\ EndUpload
  /\ UNCHANGED <<remote, fileRows, download, cutSpools>>

\* The provider's copy changes or loses its tail (external).
Decay ==
  /\ \E f \in remote : \E content \in {<<>>, Append(f.content, "sig"), Reverse(f.content)} :
       /\ Len(f.content) <= MaxUpload
       /\ remote' = (remote \ {f}) \union {[f EXCEPT !.content = content]}
  /\ UNCHANGED <<upload, staging, fileRows, download, cutSpools>>

\* download(): the row is read before the first chunk.
BeginDownload ==
  /\ download.at = "idle"
  /\ \E row \in fileRows : download' = [at |-> "passing", row |-> {row}, got |-> <<>>]
  /\ UNCHANGED <<upload, staging, remote, fileRows, cutSpools>>

Limit(row) == IF row.bytes < MaxDownload THEN row.bytes ELSE MaxDownload

\* A chunk is passed on unless it exceeds what the row, or the policy, allows.
PassChunk ==
  /\ download.at = "passing"
  /\ \E row \in download.row, f \in remote :
       /\ f.id = row.id
       /\ \E n \in 1..MaxChunkLen :
            LET total == Len(download.got) + n IN
            /\ total <= Len(f.content)
            /\ download' = IF total > Limit(row) THEN [download EXCEPT !.at = "failed"]
                           ELSE [download EXCEPT !.got = @ \o SubSeq(f.content, Len(@) + 1, total)]
  /\ UNCHANGED <<upload, staging, remote, fileRows, cutSpools>>

\* Mutation: only the size is looked at in the end.
WholeSize(row) == Len(download.got) = row.bytes

\* total == record.bytes and the digest is that of the record
Intact(row) == Len(download.got) = row.bytes /\ download.got = row.sha256

\* The provider's stream has ended.
DownloadEnds ==
  /\ download.at = "passing"
  /\ \E row \in download.row :
       download' = [download EXCEPT !.at = IF Intact(row) THEN "complete" ELSE "failed"]
  /\ UNCHANGED <<upload, staging, remote, fileRows, cutSpools>>

NextDownload ==
  /\ download.at \in {"complete", "failed"} /\ download' = NoDownload
  /\ UNCHANGED <<upload, staging, remote, fileRows, cutSpools>>

TransferNext ==
  \/ BeginUpload \/ Spool \/ SpoolFails \/ SpoolCancelled \/ Validate
  \/ RemoteStores \/ Sent \/ SendFails \/ Decay
  \/ BeginDownload \/ PassChunk \/ DownloadEnds \/ NextDownload

TransferSpec == TransferInit /\ [][TransferNext]_transferVars

-----------------------------------------------------------------------------
\* A listed file was validated as a whole, however it was cut into chunks; a download
\* that completes has delivered that very content, whatever the provider keeps, and
\* no download delivers more than the row's size; and the only staged files without
\* an upload are those of cancelled spools.
TransferFaithful ==
  /\ \A row \in fileRows : row.bytes = Len(row.sha256) /\ row.bytes \in 1..MaxUpload
                          /\ ValidContent(row.media, row.sha256)
  /\ \A row \in download.row :
       /\ Len(download.got) <= Limit(row)
       /\ download.at = "complete" => download.got = row.sha256
  /\ \A f \in staging : f.id \in cutSpools \/ (f.id = upload.id /\ upload.at # "idle")

=============================================================================
