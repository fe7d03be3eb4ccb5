----------------------------- MODULE FileUpload -----------------------------
(***************************************************************************)
(* One chunked upload (server/api/files.go) and the file it makes in the   *)
(* local storage backend (server/storage): the rows of files and           *)
(* file_uploads, the staging directory, and the stored file.  Requests run *)
(* concurrently and every SQL statement and file operation is a step of    *)
(* its own.  Whether a piece of data is the one the declared SHA-256       *)
(* stands for is all that is kept of contents.                             *)
(***************************************************************************)
EXTENDS Naturals, FiniteSets

CONSTANTS
    totalChunks,
    Req,         \* concurrent requests
    UploadMaxFaults    \* failed statements and server restarts

ASSUME FileUploadAssumption ==
    /\ {totalChunks, UploadMaxFaults} \subseteq Nat
    /\ totalChunks > 0

Chunk == 0..(totalChunks - 1)
Inode == 1..(Cardinality(Req) + 1)

VARIABLES
    row,        \* files: exists, storage_path is set, signature_verified, and whether
                \* signature and signature_key_id are both set
    upload,     \* file_uploads: uploaded_chunks, completed_at set, expires_at passed
    staged,     \* chunk files of the staging directory, while that exists
    dir,
    path,       \* the inode the storage path names, 0 for none
    data,       \* what each inode holds
    transfers,  \* a transfer job that is not finished refers to the file
    pc, at,     \* requests: where they are and the chunk they are at
    fd, sum,    \* completions: their open inode, and whether all they read was good
    url,        \* an agent was given the download URL
    uploadFaults,
    uploadOverlap,    \* history: a completion began while another was under way or
                      \* had set the path, or the statement that marks it failed
    served      \* history: what the agent's download delivered

uploadVars == <<row, upload, staged, dir, path, data, transfers, pc, at, fd, sum, url,
                uploadFaults, uploadOverlap, served>>
rows == <<row, upload>>
disk == <<staged, dir, path, data>>
uploadAgent == <<transfers, url, served>>
local == <<at, fd, sum>>
rest == <<uploadFaults, uploadOverlap>>

Contents == {"good", "bad"}
Empty == [c \in Chunk |-> "bad"]
Whole == [c \in Chunk |-> "good"]
CompletePCs == {"create", "assemble", "verify", "setPath", "setDone", "clean"}
PCs == {"idle", "chunkOpen", "chunkWrite", "chunkUpdate", "delSelect", "delRows", "delStore", "hung"}
       \cup CompletePCs

\* Rows, directories, inodes and requests have their types, and the storage path
\* is set only together with the outcome of the verification, which only a file with
\* a signature and the id of its key has.
UploadTypeOK ==
    /\ row \in [exists : BOOLEAN, path : BOOLEAN, verified : BOOLEAN, signed : BOOLEAN]
    /\ row.path => row.verified = row.signed
    /\ upload \in [chunks : SUBSET Chunk, completed : BOOLEAN, expired : BOOLEAN]
    /\ staged \in [Chunk -> Contents \cup {"none"}] /\ dir \in BOOLEAN
    /\ path \in Inode \cup {0}
    /\ data \in [Inode -> [Chunk -> Contents]]
    /\ transfers \in BOOLEAN /\ url \in BOOLEAN
    /\ pc \in [Req -> PCs] /\ at \in [Req -> Chunk]
    /\ fd \in [Req -> Inode \cup {0}] /\ sum \in [Req -> BOOLEAN]
    /\ uploadFaults \in 0..UploadMaxFaults /\ uploadOverlap \in BOOLEAN
    /\ served \in {"nothing", "whole", "other"}

\* after InitiateUpload
UploadInit ==
    /\ row \in [exists : {TRUE}, path : {FALSE}, verified : {FALSE}, signed : BOOLEAN]
    /\ upload = [chunks |-> {}, completed |-> FALSE, expired |-> FALSE]
    /\ staged = [c \in Chunk |-> "none"] /\ dir = TRUE
    /\ path = 0 /\ data = [i \in Inode |-> Empty]
    /\ transfers = FALSE
    /\ pc = [r \in Req |-> "idle"] /\ at = [r \in Req |-> 0]
    /\ fd = [r \in Req |-> 0] /\ sum = [r \in Req |-> TRUE]
    /\ url = FALSE /\ uploadFaults = 0 /\ uploadOverlap = FALSE /\ served = "nothing"

UploadGoto(r, p) == pc' = [pc EXCEPT ![r] = p]
Stay(r, p) == UploadGoto(r, p) /\ UNCHANGED local
Answer(r) ==
    /\ UploadGoto(r, "idle")
    /\ at' = [at EXCEPT ![r] = 0] /\ fd' = [fd EXCEPT ![r] = 0] /\ sum' = [sum EXCEPT ![r] = TRUE]
UploadFault == uploadFaults < UploadMaxFaults /\ uploadFaults' = uploadFaults + 1

\* the request's SELECT finds the session
Open == row.exists /\ ~upload.completed

-----------------------------------------------------------------------------
(* UploadChunk *)

ChunkSelect(r, c) ==
    /\ pc[r] = "idle" /\ Open /\ ~upload.expired
    /\ at' = [at EXCEPT ![r] = c] /\ UploadGoto(r, "chunkOpen")
    /\ UNCHANGED <<rows, disk, uploadAgent, fd, sum, rest>>

\* os.WriteFile truncates first; without its directory it fails
ChunkOpen(r) ==
    /\ pc[r] = "chunkOpen"
    /\ IF dir THEN staged' = [staged EXCEPT ![at[r]] = "bad"] /\ Stay(r, "chunkWrite")
              ELSE UNCHANGED staged /\ Answer(r)
    /\ UNCHANGED <<rows, dir, path, data, uploadAgent, rest>>

\* the client may have sent the wrong bytes
ChunkWrite(r, content) ==
    /\ pc[r] = "chunkWrite"
    /\ staged' = [staged EXCEPT ![at[r]] = IF dir THEN content ELSE @]
    /\ UploadGoto(r, "chunkUpdate")
    /\ UNCHANGED <<rows, dir, path, data, uploadAgent, local, rest>>

ChunkUpdate(r) ==
    /\ pc[r] = "chunkUpdate"
    /\ upload' = [upload EXCEPT !.chunks = @ \cup {at[r]}, !.expired = FALSE]
    /\ Answer(r)
    /\ UNCHANGED <<row, disk, uploadAgent, rest>>

-----------------------------------------------------------------------------
(* CompleteUpload *)

Completing == {r \in Req : pc[r] \in CompletePCs}

\* the expiry of the session is not looked at
CompleteSelect(r) ==
    /\ pc[r] = "idle" /\ Open
    /\ Cardinality(upload.chunks) = totalChunks
    /\ UploadGoto(r, "create") /\ sum' = [sum EXCEPT ![r] = TRUE]
    /\ uploadOverlap' = (uploadOverlap \/ Completing # {} \/ row.path)
    /\ UNCHANGED <<rows, disk, uploadAgent, at, fd, uploadFaults>>

\* storage.Save: os.Create truncates the file that is there or makes one
UploadCreate(r) ==
    /\ pc[r] = "create"
    /\ LET i == IF path = 0 THEN CHOOSE i \in Inode : \A q \in Req : fd[q] # i ELSE path IN
       /\ i \in Inode      \* there is one more than requests
       /\ path' = i
       /\ data' = [data EXCEPT ![i] = Empty]
       /\ fd' = [fd EXCEPT ![r] = i]
    /\ at' = [at EXCEPT ![r] = 0]
    /\ UploadGoto(r, "assemble")
    /\ UNCHANGED <<rows, staged, dir, uploadAgent, sum, rest>>

\* a chunk goes from the staging file through the hash and the pipe into the
\* inode; a missing one fails the copy, and Save removes what the path names
Assemble(r) ==
    /\ pc[r] = "assemble"
    /\ LET c == at[r] IN
       IF staged[c] = "none"
       THEN path' = 0 /\ Answer(r) /\ UNCHANGED data
       ELSE /\ data' = [data EXCEPT ![fd[r]][c] = staged[c]]
            /\ sum' = [sum EXCEPT ![r] = @ /\ staged[c] = "good"]
            /\ IF c = totalChunks - 1
               THEN UploadGoto(r, "verify") /\ UNCHANGED at
               ELSE at' = [at EXCEPT ![r] = c + 1] /\ UNCHANGED pc
            /\ UNCHANGED <<path, fd>>
    /\ UNCHANGED <<rows, staged, dir, uploadAgent, rest>>

\* Save itself fails, on a full disk say.  Nobody reads the pipe any more, so the next write into it
\* blocks for ever; only if there is none is the request answered.
SaveFails(r) ==
    /\ pc[r] \in {"create", "assemble"} /\ UploadFault
    /\ path' = IF pc[r] = "create" THEN path ELSE 0
    /\ \/ pc[r] = "assemble" /\ Answer(r)
       \/ Stay(r, "hung")
    /\ UNCHANGED <<rows, staged, dir, data, uploadAgent, uploadOverlap>>

\* passes a file without signature or without key id; the file's row must be there
verifyFileSignature == row.exists

\* storage.Delete
Unlink == path' = 0

\* checksum, then signature, which may be wrong; a rejected file is deleted from
\* storage
Verify(r) ==
    /\ pc[r] = "verify"
    /\ \/ sum[r] /\ verifyFileSignature /\ Stay(r, "setPath") /\ UNCHANGED path
       \/ Unlink /\ Answer(r)
    /\ UNCHANGED <<rows, staged, dir, data, uploadAgent, rest>>

\* errors of the two UPDATEs are dropped
SetPathOnly(r) ==
    /\ pc[r] = "setPath"
    /\ row' = [row EXCEPT !.path = TRUE] /\ UploadGoto(r, "setDone")
    /\ UNCHANGED <<upload, disk, uploadAgent, local, rest>>

SetPath(r) ==
    /\ pc[r] = "setPath"
    /\ \/ row' = [row EXCEPT !.path = row.exists, !.verified = row.exists /\ row.signed]
          /\ UNCHANGED uploadFaults
       \/ UploadFault /\ UNCHANGED row
    /\ UploadGoto(r, "setDone")
    /\ UNCHANGED <<upload, disk, uploadAgent, local, uploadOverlap>>

CleanFirst(r) ==
    /\ pc[r] = "setDone"
    /\ dir' = FALSE /\ staged' = [c \in Chunk |-> "none"]
    /\ UploadGoto(r, "clean")
    /\ UNCHANGED <<rows, path, data, uploadAgent, local, rest>>

SetDone(r) ==
    /\ pc[r] = "setDone"
    /\ \/ upload' = [upload EXCEPT !.completed = TRUE] /\ UNCHANGED <<uploadFaults, uploadOverlap>>
       \/ UploadFault /\ uploadOverlap' = TRUE /\ UNCHANGED upload
    /\ UploadGoto(r, "clean")
    /\ UNCHANGED <<row, disk, uploadAgent, local>>

Clean(r) ==
    /\ pc[r] = "clean"
    /\ dir' = FALSE /\ staged' = [c \in Chunk |-> "none"]
    /\ Answer(r)
    /\ UNCHANGED <<rows, path, data, uploadAgent, rest>>

-----------------------------------------------------------------------------
(* DeleteFile *)

\* an error of the count is dropped, and counts as no job
DeleteCount(r) ==
    /\ pc[r] = "idle" /\ UploadGoto(r, "delSelect")
    /\ \/ ~transfers /\ UNCHANGED rest
       \/ UploadFault /\ UNCHANGED uploadOverlap
    /\ UNCHANGED <<rows, disk, uploadAgent, local>>

\* sum remembers whether storage_path was set
DeleteSelect(r) ==
    /\ pc[r] = "delSelect"
    /\ IF row.exists
       THEN UploadGoto(r, "delRows") /\ sum' = [sum EXCEPT ![r] = row.path] /\ UNCHANGED <<at, fd>>
       ELSE Answer(r)
    /\ UNCHANGED <<rows, disk, uploadAgent, rest>>

\* cascades to file_uploads
DeleteRows(r) ==
    /\ pc[r] = "delRows"
    /\ row' = [row EXCEPT !.exists = FALSE, !.path = FALSE, !.verified = FALSE]
    /\ IF row.exists /\ sum[r] THEN Stay(r, "delStore") ELSE Answer(r)
    /\ UNCHANGED <<upload, disk, uploadAgent, rest>>

DeleteStore(r) ==
    /\ pc[r] = "delStore"
    /\ Unlink
    /\ Answer(r)
    /\ UNCHANGED <<rows, staged, dir, data, uploadAgent, rest>>

-----------------------------------------------------------------------------
(* The agent, time and faults *)

\* a signature or key id that is NULL does not scan into models.File and reads as not
\* found; a signed file that was not verified is refused
DownloadAllowed == row.exists /\ row.signed /\ row.verified

Download ==
    /\ ~url /\ DownloadAllowed
    /\ url' = TRUE
    /\ UNCHANGED <<rows, disk, transfers, pc, local, rest, served>>

\* ServeFileData opens whatever the path names
ServeFileData ==
    /\ url /\ path # 0 /\ served = "nothing"
    /\ served' = IF data[path] = Whole THEN "whole" ELSE "other"
    /\ UNCHANGED <<rows, disk, transfers, pc, local, rest, url>>

\* nobody looks whether the file of the payload is there
CreateTransfer == ~transfers /\ transfers' = TRUE
                  /\ UNCHANGED <<rows, disk, pc, local, rest, url, served>>

EndTransfer == transfers /\ transfers' = FALSE
               /\ UNCHANGED <<rows, disk, pc, local, rest, url, served>>

Expire ==
    /\ ~upload.expired /\ upload' = [upload EXCEPT !.expired = TRUE]
    /\ UNCHANGED <<row, disk, uploadAgent, pc, local, rest>>

ServerRestart ==
    /\ UploadFault
    /\ pc' = [r \in Req |-> "idle"] /\ at' = [r \in Req |-> 0]
    /\ fd' = [r \in Req |-> 0] /\ sum' = [r \in Req |-> TRUE]
    /\ UNCHANGED <<rows, disk, uploadAgent, uploadOverlap>>

UploadNext ==
    \/ \E r \in Req :
          \/ \E c \in Chunk : ChunkSelect(r, c)
          \/ \E content \in Contents : ChunkWrite(r, content)
          \/ ChunkOpen(r) \/ ChunkUpdate(r)
          \/ CompleteSelect(r) \/ UploadCreate(r) \/ Assemble(r) \/ SaveFails(r) \/ Verify(r)
          \/ SetPath(r) \/ SetDone(r) \/ Clean(r)
          \/ DeleteCount(r) \/ DeleteSelect(r) \/ DeleteRows(r) \/ DeleteStore(r)
    \/ Download \/ ServeFileData \/ CreateTransfer \/ EndTransfer
    \/ Expire \/ ServerRestart

UploadSpec == UploadInit /\ [][UploadNext]_uploadVars

-----------------------------------------------------------------------------
(* Properties *)

\* A file whose upload is completed is in storage, whole (CompleteUpload), until
\* it is deleted, whatever chunk requests, deletes and restarts interleave; two
\* completions at once, or one whose last statement failed, may destroy it.
CompletedIsStored ==
    (upload.completed /\ row.exists /\ row.path /\ ~uploadOverlap) => path # 0 /\ data[path] = Whole

\* A chunk the session lists as uploaded is in the staging directory until the
\* upload is completed, so a resumed upload has nothing to send again.
ListedIsStaged ==
    (row.exists /\ ~upload.completed /\ ~uploadOverlap) =>
        \A c \in upload.chunks : staged[c] # "none"

\* What an agent downloads, once Download gave it the URL, is the verified file,
\* unless completions overlapped.
ServedIsVerifiedUnlessOverlap == served = "other" => uploadOverlap

\* docs/FILE_TRANSFER_SPEC.md:76: "`signature` and `signature_key_id` are
\* optional"; Download hands out any completed file.
UnsignedIsDownloadable == (row.exists /\ row.path /\ upload.completed) => DownloadAllowed

\* files.go:385-387: "a file with a stored signature is guaranteed to be
\* verifiable by the time it is ever served".
ServedIsVerified == served # "other"

\* docs/FILE_TRANSFER_SPEC.md: deleting "Fails if the file is referenced by any
\* pending or active transfer jobs".
InUseIsKept == [][\A r \in Req : (DeleteRows(r) /\ row.exists) => ~transfers]_uploadVars

\* docs/FILE_TRANSFER_SPEC.md: "Upload sessions expire after 24 hours of
\* inactivity".
ExpiredIsNotCompleted == [][\A r \in Req : CompleteSelect(r) => ~upload.expired]_uploadVars

\* docs/FILE_TRANSFER_SPEC.md: "If either check fails, the upload is rejected and
\* the file record is deleted."
RejectedIsDeleted ==
    [][\A r \in Req : (Verify(r) /\ pc'[r] = "idle") => ~row'.exists]_uploadVars

\* Uploads: a completed upload is stored, a chunk that is listed is staged, and what
\* an agent is served was verified unless completions overlapped.
UploadsSafe == CompletedIsStored /\ ListedIsStaged /\ ServedIsVerifiedUnlessOverlap

=============================================================================
