------------------------------- MODULE FilesProofs -------------------------------
(***************************************************************************)
(* Theorems about files.  Uploads, for any number of requests, chunks and  *)
(* faults: what is stored and served is the uploaded file, unless          *)
(* completions of one upload overlap.  Transfers, for any number of jobs,  *)
(* files and stops: what a job delivers is the uploaded file, unless jobs  *)
(* for one file overlap.                                                   *)
(***************************************************************************)
EXTENDS FileUpload, FileTransfer, TLAPS

-----------------------------------------------------------------------------
(* Uploads *)

Early == {"create", "assemble", "verify", "setPath"}
Assembled == {"assemble", "verify", "setPath", "setDone", "clean"}

\* The file's row, and what a request still has to undo or to clean.
RowInv ==
    /\ row.path => row.exists
    /\ row.verified => row.path
    /\ url /\ row.exists => row.path
    /\ \A r \in Req : /\ pc[r] = "delStore" => ~row.exists
                      /\ pc[r] = "clean" => upload.completed \/ uploadOverlap

\* Until the upload is completed, what is listed or about to be is staged.
StagedInv ==
    ~upload.completed /\ ~uploadOverlap =>
        /\ \A c \in upload.chunks : staged[c] # "none"
        /\ \A r \in Req : pc[r] \in {"chunkWrite", "chunkUpdate"} => staged[at[r]] # "none"

\* The one completion at work: its inode is the one the path names, as long as
\* the row is there, and what it has read and found good is what it has written.
CompletionInv ==
    ~uploadOverlap =>
        /\ \A r, q \in Req : pc[r] \in CompletePCs /\ pc[q] \in CompletePCs => r = q
        /\ \A r \in Req : pc[r] \in Assembled =>
             /\ fd[r] \in Inode /\ path \in {0, fd[r]}
             /\ row.exists => path = fd[r]
             /\ pc[r] = "assemble" /\ sum[r] => \A c \in Chunk : c < at[r] => data[fd[r]][c] = "good"
             /\ pc[r] = "verify" /\ sum[r] => data[fd[r]] = Whole
             /\ pc[r] \in {"setPath", "setDone", "clean"} => data[fd[r]] = Whole

\* A stored file is whole and no completion is about to write it again.
SealedInv ==
    ~uploadOverlap /\ (row.path \/ url) =>
        /\ \A r \in Req : pc[r] \notin Early
        /\ row.path => path # 0
        /\ path # 0 => data[path] = Whole

UploadInv == /\ UploadTypeOK /\ RowInv /\ StagedInv /\ CompletionInv /\ SealedInv
             /\ ServedIsVerifiedUnlessOverlap

-----------------------------------------------------------------------------
ReqTypes ==
    /\ pc \in [Req -> PCs] /\ at \in [Req -> Chunk]
    /\ fd \in [Req -> Inode \cup {0}] /\ sum \in [Req -> BOOLEAN]
RowTypes ==
    /\ row \in [exists : BOOLEAN, path : BOOLEAN, verified : BOOLEAN, signed : BOOLEAN]
    /\ row.path => row.verified = row.signed
SessionTypes == upload \in [chunks : SUBSET Chunk, completed : BOOLEAN, expired : BOOLEAN]
DiskTypes ==
    /\ staged \in [Chunk -> Contents \cup {"none"}] /\ dir \in BOOLEAN
    /\ path \in Inode \cup {0} /\ data \in [Inode -> [Chunk -> Contents]]
RestTypes ==
    /\ transfers \in BOOLEAN /\ url \in BOOLEAN
    /\ uploadFaults \in 0..UploadMaxFaults /\ uploadOverlap \in BOOLEAN
    /\ served \in {"nothing", "whole", "other"}

\* UploadTypeOK by its parts.
LEMMA UploadParts == UploadTypeOK <=> ReqTypes /\ RowTypes /\ SessionTypes /\ DiskTypes /\ RestTypes
  BY Zenon DEF UploadTypeOK, ReqTypes, RowTypes, SessionTypes, DiskTypes, RestTypes

\* The first and the last chunk exist, and 0 is no inode.
LEMMA ChunkZero == 0 \in Chunk /\ totalChunks - 1 \in Chunk /\ 0 \notin Inode
  BY FileUploadAssumption DEF Chunk, Inode

\* What a step of one request leaves of the others.
Others(r) == \A q \in Req \ {r} : pc'[q] = pc[q] /\ at'[q] = at[q] /\ fd'[q] = fd[q] /\ sum'[q] = sum[q]

\* Where a request stands after a step that does not answer it.
LEMMA WentOn ==
    ASSUME ReqTypes, NEW r \in Req, NEW p \in PCs, UploadGoto(r, p),
           \/ UNCHANGED local
           \/ UNCHANGED <<at, fd>> /\ \E b \in BOOLEAN : sum' = [sum EXCEPT ![r] = b]
           \/ UNCHANGED <<fd, sum>> /\ \E c \in Chunk : at' = [at EXCEPT ![r] = c]
    PROVE  ReqTypes' /\ Others(r) /\ pc'[r] = p /\ fd' = fd
  BY Zenon DEF ReqTypes, Others, UploadGoto, local

\* An answered request is idle again.
LEMMA Answered ==
    ASSUME ReqTypes, NEW r \in Req, Answer(r)
    PROVE  ReqTypes' /\ Others(r) /\ pc'[r] = "idle"
  BY ChunkZero, Zenon DEF ReqTypes, Others, Answer, UploadGoto, PCs

\* What other requests do leaves the completion at work its file.
LEMMA CompletionFrame ==
    ASSUME CompletionInv, NEW r \in Req, Others(r), pc'[r] \notin CompletePCs,
           data' = data, uploadOverlap => uploadOverlap', row'.exists => row.exists,
           path' = path \/ (path' = 0 /\ ~row'.exists)
    PROVE  CompletionInv'
  <1> SUFFICES ASSUME ~uploadOverlap PROVE CompletionInv'
    BY Zenon DEF CompletionInv
  <1>1. \A p, q \in Req : pc'[p] \in CompletePCs /\ pc'[q] \in CompletePCs => p = q
    BY Zenon DEF CompletionInv, Others
  <1>2. ASSUME NEW q \in Req, pc'[q] \in Assembled
        PROVE  q # r /\ pc'[q] = pc[q] /\ fd'[q] = fd[q] /\ sum'[q] = sum[q] /\ at'[q] = at[q]
    BY <1>2, Zenon DEF Others, Assembled, CompletePCs
  <1> QED BY <1>1, <1>2 DEF CompletionInv

\* The completion at work goes on with its file.
LEMMA CompletionGoesOn ==
    ASSUME CompletionInv, NEW r \in Req, Others(r), pc[r] \in {"verify", "setPath", "setDone"},
           pc[r] = "verify" => sum[r], pc'[r] \in {"setPath", "setDone", "clean"}, fd' = fd,
           data' = data, path' = path, uploadOverlap => uploadOverlap', row'.exists => row.exists
    PROVE  CompletionInv'
  <1> SUFFICES ASSUME ~uploadOverlap PROVE CompletionInv'
    BY Zenon DEF CompletionInv
  <1>1. \A q \in Req \ {r} : pc'[q] \notin CompletePCs
    BY DEF CompletionInv, Others, CompletePCs
  <1>2. /\ fd[r] \in Inode /\ path \in {0, fd[r]} /\ (row.exists => path = fd[r])
        /\ data[fd[r]] = Whole
    BY Zenon DEF CompletionInv, Assembled
  <1>3. Assembled \subseteq CompletePCs
    BY Zenon DEF Assembled, CompletePCs
  <1> QED BY <1>1, <1>2, <1>3 DEF CompletionInv

\* A step that ends with no file, row or flag changed and no duty taken on.
LEMMA Quiet ==
    ASSUME UploadInv, NEW r \in Req, ReqTypes', Others(r),
           pc'[r] \in {"idle", "chunkOpen", "delSelect", "delRows"},
           UNCHANGED <<rows, disk, uploadAgent>>,
           UNCHANGED rest \/ (UploadFault /\ UNCHANGED uploadOverlap)
    PROVE  UploadInv'
  <1> USE DEF UploadInv
  <1>u. /\ row' = row /\ upload' = upload /\ staged' = staged /\ dir' = dir /\ path' = path /\ data' = data
        /\ transfers' = transfers /\ url' = url /\ served' = served /\ uploadOverlap' = uploadOverlap
    BY Zenon DEF rows, disk, uploadAgent, rest
  <1>f. uploadFaults' \in 0..UploadMaxFaults
    BY FileUploadAssumption DEF UploadTypeOK, UploadFault, rest
  <1>1. UploadTypeOK'
    BY <1>u, <1>f, UploadParts DEF UploadTypeOK, ReqTypes
  <1>2. RowInv'
    BY <1>u, Zenon DEF RowInv, Others
  <1>3. StagedInv'
    BY <1>u, Zenon DEF StagedInv, Others
  <1>4. CompletionInv'
    BY <1>u DEF CompletionInv, Others, CompletePCs, Assembled
  <1>5. SealedInv'
    BY <1>u, Zenon DEF SealedInv, Others, Early
  <1>6. ServedIsVerifiedUnlessOverlap'
    BY <1>u, Zenon DEF ServedIsVerifiedUnlessOverlap
  <1> QED BY <1>1, <1>2, <1>3, <1>4, <1>5, <1>6, Zenon

\* A chunk's bytes reach the staging file.
LEMMA ChunkStaged ==
    ASSUME UploadInv, NEW r \in Req, ReqTypes', Others(r), pc'[r] \in {"chunkWrite", "chunkUpdate"},
           at'[r] = at[r], NEW x \in Contents,
           \/ staged' = [staged EXCEPT ![at[r]] = x]
           \/ staged' = staged /\ pc[r] \in {"chunkWrite", "chunkUpdate"},
           UNCHANGED <<rows, dir, path, data, uploadAgent, rest>>
    PROVE  UploadInv'
  <1> USE DEF UploadInv
  <1>u. /\ row' = row /\ upload' = upload /\ dir' = dir /\ path' = path /\ data' = data
        /\ transfers' = transfers /\ url' = url /\ served' = served /\ uploadFaults' = uploadFaults
        /\ uploadOverlap' = uploadOverlap
    BY Zenon DEF rows, uploadAgent, rest
  <1>0. at[r] \in Chunk /\ staged' \in [Chunk -> Contents \cup {"none"}] /\ upload.chunks \subseteq Chunk
    BY DEF UploadTypeOK
  <1>1. UploadTypeOK'
    BY <1>0, <1>u DEF UploadTypeOK, ReqTypes
  <1>2. RowInv'
    BY <1>u, Zenon DEF RowInv, Others
  <1>3. StagedInv'
    <2>1. \A c \in Chunk : staged[c] # "none" => staged'[c] # "none"
      BY <1>0, Zenon DEF UploadTypeOK, Contents
    <2>2. ~upload.completed /\ ~uploadOverlap => staged'[at[r]] # "none"
      BY <1>0 DEF UploadTypeOK, Contents, StagedInv
    <2>3. \A q \in Req : at[q] \in Chunk
      BY Zenon DEF UploadTypeOK
    <2> QED BY <1>0, <1>u, <2>1, <2>2, <2>3 DEF StagedInv, Others
  <1>4. CompletionInv'
    BY <1>u DEF CompletionInv, Others, CompletePCs, Assembled
  <1>5. SealedInv'
    BY <1>u, Zenon DEF SealedInv, Others, Early
  <1>6. ServedIsVerifiedUnlessOverlap'
    BY <1>u, Zenon DEF ServedIsVerifiedUnlessOverlap
  <1> QED BY <1>1, <1>2, <1>3, <1>4, <1>5, <1>6, Zenon

\* The statements and file operations of UploadChunk keep the invariant.
LEMMA ChunkStep ==
    ASSUME UploadInv, NEW r \in Req,
           \/ \E c \in Chunk : ChunkSelect(r, c)
           \/ \E bytes \in Contents : ChunkWrite(r, bytes)
           \/ ChunkOpen(r) \/ ChunkUpdate(r)
    PROVE  UploadInv'
  <1>t. ReqTypes /\ at[r] \in Chunk
    BY UploadParts, Zenon DEF UploadInv, ReqTypes
  <1>p. {"chunkOpen", "chunkWrite", "chunkUpdate"} \subseteq PCs
    BY Zenon DEF PCs
  <1>1. ASSUME NEW c \in Chunk, ChunkSelect(r, c) PROVE UploadInv'
    <2>1. ReqTypes' /\ Others(r) /\ pc'[r] = "chunkOpen"
      BY <1>1, <1>t, <1>p, WentOn, Zenon DEF ChunkSelect
    <2> QED BY <1>1, <2>1, Quiet, Zenon DEF ChunkSelect
  <1>2. ASSUME NEW bytes \in Contents, ChunkWrite(r, bytes) PROVE UploadInv'
    <2>1. ReqTypes' /\ Others(r) /\ pc'[r] = "chunkUpdate" /\ at'[r] = at[r]
      BY <1>2, <1>t, <1>p, WentOn, Zenon DEF ChunkWrite, local
    <2>2. staged' = [staged EXCEPT ![at[r]] = bytes] \/ staged' = staged
      BY <1>2, Zenon DEF ChunkWrite, UploadInv, UploadTypeOK
    <2>3. pc[r] = "chunkWrite" /\ UNCHANGED <<rows, dir, path, data, uploadAgent, rest>>
      BY <1>2, Zenon DEF ChunkWrite
    <2> QED BY <2>1, <2>2, <2>3, ChunkStaged, Zenon
  <1>3. ASSUME ChunkOpen(r), dir PROVE UploadInv'
    <2>1. ReqTypes' /\ Others(r) /\ pc'[r] = "chunkWrite" /\ at'[r] = at[r]
      BY <1>3, <1>t, <1>p, WentOn, Zenon DEF ChunkOpen, Stay, local
    <2>2. staged' = [staged EXCEPT ![at[r]] = "bad"] /\ "bad" \in Contents
      BY <1>3, Zenon DEF ChunkOpen, Contents
    <2>3. UNCHANGED <<rows, dir, path, data, uploadAgent, rest>>
      BY <1>3, Zenon DEF ChunkOpen
    <2> QED BY <2>1, <2>2, <2>3, ChunkStaged, Zenon
  <1>4. ASSUME ChunkOpen(r), ~dir PROVE UploadInv'
    <2>1. ReqTypes' /\ Others(r) /\ pc'[r] = "idle"
      BY <1>4, <1>t, Answered, Zenon DEF ChunkOpen
    <2>2. UNCHANGED <<rows, disk, uploadAgent, rest>>
      BY <1>4, Zenon DEF ChunkOpen, disk
    <2> QED BY <2>1, <2>2, Quiet, Zenon
  <1>5. ASSUME ChunkUpdate(r) PROVE UploadInv'
    <2> USE DEF UploadInv
    <2>1. ReqTypes' /\ Others(r) /\ pc'[r] = "idle"
      BY <1>5, <1>t, Answered, Zenon DEF ChunkUpdate
    <2>u. /\ row' = row /\ staged' = staged /\ dir' = dir /\ path' = path /\ data' = data
          /\ transfers' = transfers /\ url' = url /\ served' = served /\ uploadFaults' = uploadFaults
          /\ uploadOverlap' = uploadOverlap
      BY <1>5, Zenon DEF ChunkUpdate, disk, uploadAgent, rest
    <2>2. /\ upload' \in [chunks : SUBSET Chunk, completed : BOOLEAN, expired : BOOLEAN]
          /\ upload'.chunks = upload.chunks \cup {at[r]} /\ upload'.completed = upload.completed
      BY <1>5, <1>t, Zenon DEF ChunkUpdate, UploadTypeOK
    <2>3. UploadTypeOK'
      BY <2>1, <2>u, <2>2 DEF UploadTypeOK, ReqTypes
    <2>4. RowInv'
      BY <2>1, <2>u, <2>2 DEF RowInv, Others
    <2>5. StagedInv'
      BY <1>5, <2>1, <2>u, <2>2 DEF StagedInv, Others, ChunkUpdate
    <2>6. CompletionInv'
      BY <2>1, <2>u DEF CompletionInv, Others, CompletePCs, Assembled
    <2>7. SealedInv'
      BY <2>1, <2>u, Zenon DEF SealedInv, Others, Early
    <2>8. ServedIsVerifiedUnlessOverlap'
      BY <2>u, Zenon DEF ServedIsVerifiedUnlessOverlap
    <2> QED BY <2>3, <2>4, <2>5, <2>6, <2>7, <2>8, Zenon
  <1> QED BY <1>1, <1>2, <1>3, <1>4, <1>5, Zenon

\* One completion opens the file, while no file is sealed.
LEMMA CompleteSelectStep ==
    ASSUME UploadInv, NEW r \in Req, CompleteSelect(r)
    PROVE  UploadInv'
  <1> USE DEF UploadInv
  <1>t. ReqTypes /\ "create" \in PCs
    BY UploadParts, Zenon DEF PCs, CompletePCs
  <1>1. ReqTypes' /\ Others(r) /\ pc'[r] = "create"
    BY <1>t, WentOn, Zenon DEF CompleteSelect
  <1>u. /\ row' = row /\ upload' = upload /\ staged' = staged /\ dir' = dir /\ path' = path /\ data' = data
        /\ transfers' = transfers /\ url' = url /\ served' = served /\ uploadFaults' = uploadFaults
        /\ uploadOverlap' \in BOOLEAN /\ row.exists /\ (uploadOverlap => uploadOverlap')
    BY Zenon DEF CompleteSelect, rows, disk, uploadAgent, Open, UploadTypeOK
  <1>a. ~uploadOverlap' => ~row.path /\ ~uploadOverlap /\ \A q \in Req : pc[q] \notin CompletePCs
    BY Zenon DEF CompleteSelect, Completing
  <1>2. UploadTypeOK'
    BY <1>1, <1>u DEF UploadTypeOK, ReqTypes
  <1>3. RowInv'
    BY <1>1, <1>u, Zenon DEF RowInv, Others
  <1>4. StagedInv'
    BY <1>1, <1>u, <1>a, Zenon DEF StagedInv, Others
  <1>5. CompletionInv'
    BY <1>1, <1>u, <1>a DEF CompletionInv, Others, Assembled, CompletePCs
  <1>6. SealedInv'
    BY <1>u, <1>a, Zenon DEF SealedInv, RowInv
  <1>7. ServedIsVerifiedUnlessOverlap'
    BY <1>u, Zenon DEF ServedIsVerifiedUnlessOverlap
  <1> QED BY <1>2, <1>3, <1>4, <1>5, <1>6, <1>7, Zenon

\* os.Create gives the completion an empty file that the path names.
LEMMA UploadCreateStep ==
    ASSUME UploadInv, NEW r \in Req, UploadCreate(r)
    PROVE  UploadInv'
  <1> USE DEF UploadInv
  <1>t. ReqTypes
    BY UploadParts, Zenon
  <1>p. "assemble" \in PCs /\ 0 \in Chunk
    BY ChunkZero, Zenon DEF PCs, CompletePCs
  <1>u. /\ row' = row /\ upload' = upload /\ staged' = staged /\ dir' = dir
        /\ transfers' = transfers /\ url' = url /\ served' = served /\ uploadFaults' = uploadFaults
        /\ uploadOverlap' = uploadOverlap /\ sum' = sum
    BY Zenon DEF UploadCreate, rows, uploadAgent, rest
  <1>1. PICK i \in Inode : path' = i /\ data' = [data EXCEPT ![i] = Empty] /\ fd' = [fd EXCEPT ![r] = i]
    BY Zenon DEF UploadCreate
  <1>2. at' = [at EXCEPT ![r] = 0] /\ pc' = [pc EXCEPT ![r] = "assemble"] /\ pc[r] = "create"
    BY Zenon DEF UploadCreate, UploadGoto
  <1>3. ReqTypes' /\ Others(r) /\ pc'[r] = "assemble" /\ at'[r] = 0 /\ fd'[r] = i
    BY <1>t, <1>p, <1>u, <1>1, <1>2, Zenon DEF ReqTypes, Others
  <1>4. data' \in [Inode -> [Chunk -> Contents]] /\ path' \in Inode
    BY <1>1, Zenon DEF UploadTypeOK, Empty, Contents
  <1>5. UploadTypeOK'
    BY <1>3, <1>4, <1>u DEF UploadTypeOK, ReqTypes
  <1>6. RowInv'
    BY <1>3, <1>u, Zenon DEF RowInv, Others
  <1>7. StagedInv'
    BY <1>3, <1>u, Zenon DEF StagedInv, Others
  <1>8. CompletionInv'
    <2>1. \A c \in Chunk : ~(c < 0)
      BY FileUploadAssumption DEF Chunk
    <2> QED BY <1>1, <1>2, <1>3, <1>u, <2>1 DEF CompletionInv, Others, Assembled, CompletePCs
  <1>9. SealedInv'
    BY <1>2, <1>u, Zenon DEF SealedInv, Early
  <1>10. ServedIsVerifiedUnlessOverlap'
    BY <1>u, Zenon DEF ServedIsVerifiedUnlessOverlap
  <1> QED BY <1>5, <1>6, <1>7, <1>8, <1>9, <1>10, Zenon

\* A completion that has not set the path gives up or hangs, and the path names what it named or
\* nothing.
LEMMA GaveUp ==
    ASSUME UploadInv, NEW r \in Req, pc[r] \in Early, Answer(r) \/ Stay(r, "hung"), path' \in {path, 0},
           UNCHANGED <<rows, staged, dir, data, uploadAgent>>, uploadOverlap' = uploadOverlap, uploadFaults' \in 0..UploadMaxFaults
    PROVE  UploadInv'
  <1> USE DEF UploadInv
  <1>1. ReqTypes' /\ Others(r) /\ pc'[r] \in {"idle", "hung"}
    BY UploadParts, Answered, WentOn, Zenon DEF Stay, PCs
  <1>u. /\ row' = row /\ upload' = upload /\ staged' = staged /\ dir' = dir /\ data' = data
        /\ transfers' = transfers /\ url' = url /\ served' = served
        /\ uploadOverlap' = uploadOverlap
    BY Zenon DEF rows, uploadAgent
  <1>2. UploadTypeOK'
    BY <1>1, <1>u DEF UploadTypeOK, ReqTypes
  <1>3. RowInv'
    BY <1>1, <1>u DEF RowInv, Others
  <1>4. StagedInv'
    BY <1>1, <1>u DEF StagedInv, Others
  <1>5. CompletionInv'
    BY <1>1, <1>u DEF CompletionInv, Others, Assembled, CompletePCs, Early
  <1>6. SealedInv'
    BY <1>u DEF SealedInv
  <1>7. ServedIsVerifiedUnlessOverlap'
    BY <1>u DEF ServedIsVerifiedUnlessOverlap
  <1> QED BY <1>2, <1>3, <1>4, <1>5, <1>6, <1>7

\* A chunk copied by CompleteUpload: what was read and good is what was written.
LEMMA AssembleStep ==
    ASSUME UploadInv, NEW r \in Req, Assemble(r)
    PROVE  UploadInv'
  <1> USE DEF UploadInv
  <1>t. ReqTypes /\ pc[r] = "assemble" /\ at[r] \in Chunk /\ sum[r] \in BOOLEAN
    BY UploadParts, Zenon DEF Assemble, ReqTypes
  <1>1. CASE staged[at[r]] = "none"
    BY <1>1, <1>t, GaveUp, Zenon DEF Assemble, Early, rest, UploadTypeOK
  <1>2. CASE staged[at[r]] # "none"
    <2>u. /\ row' = row /\ upload' = upload /\ staged' = staged /\ dir' = dir
          /\ transfers' = transfers /\ url' = url /\ served' = served /\ uploadFaults' = uploadFaults
          /\ uploadOverlap' = uploadOverlap /\ path' = path /\ fd' = fd
      BY <1>2, Zenon DEF Assemble, rows, uploadAgent, rest
    <2>d. data' = [data EXCEPT ![fd[r]][at[r]] = staged[at[r]]] /\ staged[at[r]] \in Contents
      BY <1>2, <1>t, Zenon DEF Assemble, UploadTypeOK
    <2>s. sum' = [sum EXCEPT ![r] = sum[r] /\ staged[at[r]] = "good"]
      BY <1>2, Zenon DEF Assemble
    <2>c. \/ /\ at[r] = totalChunks - 1 /\ pc' = [pc EXCEPT ![r] = "verify"] /\ at' = at
          \/ /\ at[r] # totalChunks - 1 /\ pc' = pc /\ at' = [at EXCEPT ![r] = at[r] + 1]
             /\ at[r] + 1 \in Chunk
      BY <1>2, <1>t, FileUploadAssumption DEF Assemble, UploadGoto, Chunk
    <2>1. ReqTypes' /\ Others(r)
      BY <1>t, <2>u, <2>s, <2>c DEF ReqTypes, Others, PCs, CompletePCs
    <2>2. data' \in [Inode -> [Chunk -> Contents]]
      BY <2>d, <1>t, Zenon DEF UploadTypeOK
    <2>3. UploadTypeOK'
      BY <2>1, <2>2, <2>u DEF UploadTypeOK, ReqTypes
    <2>p. pc'[r] \in {"assemble", "verify"}
      BY <1>t, <2>c, Zenon DEF ReqTypes
    <2>4. RowInv'
      BY <2>1, <2>p, <2>u, Zenon DEF RowInv, Others
    <2>5. StagedInv'
      BY <2>1, <2>p, <2>u, Zenon DEF StagedInv, Others
    <2>6. CompletionInv'
      <3> SUFFICES ASSUME ~uploadOverlap PROVE CompletionInv'
        BY <2>u, Zenon DEF CompletionInv
      <3>1. \A q \in Req \ {r} : pc'[q] \notin CompletePCs
        BY <1>t, <2>1, Zenon DEF CompletionInv, Others, CompletePCs
      <3>2. /\ fd[r] \in Inode /\ path \in {0, fd[r]} /\ (row.exists => path = fd[r])
            /\ sum[r] => \A c \in Chunk : c < at[r] => data[fd[r]][c] = "good"
        BY <1>t, Zenon DEF CompletionInv, Assembled
      <3>3. sum'[r] => \A c \in Chunk : c <= at[r] => data'[fd[r]][c] = "good"
        <4> SUFFICES ASSUME sum'[r], NEW c \in Chunk, c <= at[r] PROVE data'[fd[r]][c] = "good"
          BY Zenon
        <4>1. sum[r] /\ staged[at[r]] = "good"
          BY <1>t, <2>s, Zenon DEF ReqTypes
        <4>2. data'[fd[r]][c] = IF c = at[r] THEN "good" ELSE data[fd[r]][c]
          BY <1>t, <2>d, <3>2, <4>1, Zenon DEF UploadTypeOK
        <4>3. c = at[r] \/ c < at[r]
          BY <1>t, FileUploadAssumption DEF Chunk
        <4> QED BY <3>2, <4>1, <4>2, <4>3, Zenon
      <3>4. pc'[r] = "assemble" /\ sum'[r] => \A c \in Chunk : c < at'[r] => data'[fd[r]][c] = "good"
        <4>1. pc'[r] = "assemble" => at'[r] = at[r] + 1
          BY <1>t, <2>c, Zenon DEF ReqTypes
        <4>2. \A c \in Chunk : c < at[r] + 1 => c <= at[r]
          BY <1>t, FileUploadAssumption DEF Chunk
        <4> QED BY <3>3, <4>1, <4>2, Zenon
      <3>5. pc'[r] = "verify" /\ sum'[r] => data'[fd[r]] = Whole
        <4>1. pc'[r] = "verify" => \A c \in Chunk : c <= at[r]
          BY <1>t, <2>c, FileUploadAssumption DEF Chunk, ReqTypes
        <4>2. data'[fd[r]] \in [Chunk -> Contents]
          BY <2>2, <3>2, Zenon
        <4> QED BY <3>3, <4>1, <4>2, Zenon DEF Whole
      <3> QED BY <2>p, <2>u, <3>1, <3>2, <3>4, <3>5 DEF CompletionInv, CompletePCs, Assembled
    <2>7. SealedInv'
      BY <1>t, <2>u, Zenon DEF SealedInv, Early
    <2>8. ServedIsVerifiedUnlessOverlap'
      BY <2>u, Zenon DEF ServedIsVerifiedUnlessOverlap
    <2> QED BY <2>3, <2>4, <2>5, <2>6, <2>7, <2>8, Zenon
  <1> QED BY <1>1, <1>2, Zenon

\* A file that passes the checksum is whole; one that is rejected is unlinked.
LEMMA VerifyStep ==
    ASSUME UploadInv, NEW r \in Req, Verify(r)
    PROVE  UploadInv'
  <1> USE DEF UploadInv
  <1>t. ReqTypes /\ pc[r] = "verify"
    BY UploadParts, Zenon DEF Verify
  <1>1. CASE Unlink /\ Answer(r)
    BY <1>1, <1>t, GaveUp, Zenon DEF Verify, Unlink, Early, rest, UploadTypeOK
  <1>2. CASE sum[r] /\ Stay(r, "setPath") /\ UNCHANGED path
    <2>1. ReqTypes' /\ Others(r) /\ pc'[r] = "setPath" /\ fd' = fd
      BY <1>2, <1>t, WentOn, Zenon DEF Stay, PCs, CompletePCs
    <2>u. /\ row' = row /\ upload' = upload /\ staged' = staged /\ dir' = dir /\ path' = path
          /\ data' = data /\ transfers' = transfers /\ url' = url /\ served' = served /\ uploadFaults' = uploadFaults /\ uploadOverlap' = uploadOverlap
      BY <1>2, Zenon DEF Verify, rows, disk, uploadAgent, rest
    <2>T. UploadTypeOK'
      BY <2>1, <2>u DEF UploadTypeOK, ReqTypes
    <2>R. RowInv'
      BY <1>2, <1>t, <2>1, <2>u, Zenon DEF RowInv, Others
    <2>S. StagedInv'
      BY <1>2, <1>t, <2>1, <2>u DEF StagedInv, Others
    <2>C. CompletionInv'
      BY <1>2, <1>t, <2>1, <2>u, CompletionGoesOn, Zenon
    <2>L. SealedInv'
      BY <1>2, <1>t, <2>1, <2>u, Zenon DEF SealedInv, Others, Early
    <2>V. ServedIsVerifiedUnlessOverlap'
      BY <1>2, <1>t, <2>1, <2>u, Zenon DEF ServedIsVerifiedUnlessOverlap
    <2> QED BY <2>T, <2>R, <2>S, <2>C, <2>L, <2>V, Zenon
  <1> QED BY <1>1, <1>2, Zenon DEF Verify

\* Save fails under a completion.
LEMMA SaveFailsStep ==
    ASSUME UploadInv, NEW r \in Req, SaveFails(r)
    PROVE  UploadInv'
  <1>1. uploadFaults' \in 0..UploadMaxFaults
    BY FileUploadAssumption DEF SaveFails, UploadFault, UploadInv, UploadTypeOK
  <1> QED BY <1>1, GaveUp, Zenon DEF SaveFails, Early

\* The path is set on the row: the file is sealed.
LEMMA SetPathStep ==
    ASSUME UploadInv, NEW r \in Req, SetPath(r)
    PROVE  UploadInv'
  <1> USE DEF UploadInv
  <1>t. ReqTypes /\ pc[r] = "setPath" /\ fd[r] \in Inode \cup {0}
    BY UploadParts, Zenon DEF SetPath, ReqTypes
  <1>1. ReqTypes' /\ Others(r) /\ pc'[r] = "setDone" /\ fd' = fd
    BY <1>t, WentOn, Zenon DEF SetPath, PCs, CompletePCs
  <1>u. /\ upload' = upload /\ staged' = staged /\ dir' = dir /\ path' = path /\ data' = data
        /\ transfers' = transfers /\ url' = url /\ served' = served /\ uploadOverlap' = uploadOverlap
    BY Zenon DEF SetPath, rows, disk, uploadAgent, rest
  <1>f. uploadFaults' \in 0..UploadMaxFaults
    BY FileUploadAssumption DEF SetPath, UploadFault, UploadTypeOK
  <1>r. /\ row' \in [exists : BOOLEAN, path : BOOLEAN, verified : BOOLEAN, signed : BOOLEAN]
        /\ row'.exists = row.exists /\ row'.signed = row.signed
        /\ \/ row'.path = row.path /\ row'.verified = row.verified
           \/ row'.path = row.exists /\ row'.verified = (row.exists /\ row.signed)
    BY Zenon DEF SetPath, UploadTypeOK
  <1>T. UploadTypeOK'
    BY <1>1, <1>u, <1>f, <1>r DEF UploadTypeOK, ReqTypes
  <1>R. RowInv'
    BY <1>t, <1>1, <1>u, <1>f, <1>r DEF RowInv, Others
  <1>S. StagedInv'
    BY <1>t, <1>1, <1>u, <1>f, <1>r, Zenon DEF StagedInv, Others
  <1>C. CompletionInv'
    BY <1>t, <1>1, <1>u, <1>f, <1>r, CompletionGoesOn, Zenon
  <1>L. SealedInv'
    <2>1. ~uploadOverlap => /\ ~row.path /\ ~url /\ fd[r] # 0 /\ data[fd[r]] = Whole
                            /\ path \in {0, fd[r]} /\ (row.exists => path = fd[r])
                            /\ \A q \in Req \ {r} : pc[q] \notin CompletePCs
      BY <1>t, ChunkZero, Zenon DEF SealedInv, Early, CompletionInv, Assembled, CompletePCs
    <2> QED BY <1>1, <1>u, <1>r, <2>1 DEF SealedInv, Others, Early, CompletePCs
  <1>V. ServedIsVerifiedUnlessOverlap'
    BY <1>t, <1>1, <1>u, <1>f, <1>r, Zenon DEF ServedIsVerifiedUnlessOverlap
  <1> QED BY <1>T, <1>R, <1>S, <1>C, <1>L, <1>V, Zenon

\* The session is marked completed, or the failed statement counts as an overlap.
LEMMA SetDoneStep ==
    ASSUME UploadInv, NEW r \in Req, SetDone(r)
    PROVE  UploadInv'
  <1> USE DEF UploadInv
  <1>t. ReqTypes /\ pc[r] = "setDone"
    BY UploadParts, Zenon DEF SetDone
  <1>1. ReqTypes' /\ Others(r) /\ pc'[r] = "clean" /\ fd' = fd
    BY <1>t, WentOn, Zenon DEF SetDone, PCs, CompletePCs
  <1>u. /\ row' = row /\ staged' = staged /\ dir' = dir /\ path' = path /\ data' = data
        /\ transfers' = transfers /\ url' = url /\ served' = served
    BY Zenon DEF SetDone, rows, disk, uploadAgent, rest
  <1>o. uploadOverlap' \in BOOLEAN /\ (uploadOverlap => uploadOverlap')
    <2>1. (uploadOverlap' = uploadOverlap) \/ (uploadOverlap' = TRUE)
      BY Zenon DEF SetDone
    <2>2. uploadOverlap \in BOOLEAN
      BY Zenon DEF UploadTypeOK
    <2>3. CASE uploadOverlap' = uploadOverlap
      BY <2>2, <2>3, Zenon
    <2>4. CASE uploadOverlap' = TRUE
      BY <2>4, Zenon
    <2> QED BY <2>1, <2>3, <2>4, Zenon
  <1>f. uploadFaults' \in 0..UploadMaxFaults
    BY FileUploadAssumption DEF SetDone, UploadFault, UploadTypeOK
  <1>r. /\ upload' \in [chunks : SUBSET Chunk, completed : BOOLEAN, expired : BOOLEAN]
        /\ upload'.chunks = upload.chunks
        /\ \/ upload'.completed /\ uploadOverlap' = uploadOverlap
           \/ uploadOverlap' /\ upload'.completed = upload.completed
    BY Zenon DEF SetDone, UploadTypeOK
  <1>T. UploadTypeOK'
    BY <1>1, <1>u, <1>o, <1>f, <1>r DEF UploadTypeOK, ReqTypes
  <1>R. RowInv'
    BY <1>t, <1>1, <1>u, <1>o, <1>f, <1>r DEF RowInv, Others
  <1>S. StagedInv'
    BY <1>t, <1>1, <1>u, <1>o, <1>f, <1>r, Zenon DEF StagedInv, Others
  <1>C. CompletionInv'
    BY <1>t, <1>1, <1>u, <1>o, <1>f, <1>r, CompletionGoesOn, Zenon
  <1>L. SealedInv'
    BY <1>t, <1>1, <1>u, <1>o, <1>f, <1>r, Zenon DEF SealedInv, Others, Early
  <1>V. ServedIsVerifiedUnlessOverlap'
    BY <1>t, <1>1, <1>u, <1>o, <1>f, <1>r, Zenon DEF ServedIsVerifiedUnlessOverlap
  <1> QED BY <1>T, <1>R, <1>S, <1>C, <1>L, <1>V, Zenon

\* The staging directory goes only after the session is completed.
LEMMA CleanStep ==
    ASSUME UploadInv, NEW r \in Req, Clean(r)
    PROVE  UploadInv'
  <1> USE DEF UploadInv
  <1>t. ReqTypes /\ pc[r] = "clean"
    BY UploadParts, Zenon DEF Clean
  <1>1. ReqTypes' /\ Others(r) /\ pc'[r] = "idle"
    BY <1>t, Answered, Zenon DEF Clean
  <1>u. /\ row' = row /\ upload' = upload /\ path' = path /\ data' = data /\ transfers' = transfers
        /\ url' = url /\ served' = served /\ uploadFaults' = uploadFaults /\ uploadOverlap' = uploadOverlap
    BY Zenon DEF Clean, rows, disk, uploadAgent, rest
  <1>d. dir' \in BOOLEAN /\ staged' \in [Chunk -> Contents \cup {"none"}]
    BY Zenon DEF Clean
  <1>r. upload.completed \/ uploadOverlap
    BY <1>t, Zenon DEF RowInv
  <1>T. UploadTypeOK'
    BY <1>1, <1>u, <1>d, <1>r DEF UploadTypeOK, ReqTypes
  <1>R. RowInv'
    BY <1>t, <1>1, <1>u, <1>d, <1>r DEF RowInv, Others
  <1>S. StagedInv'
    BY <1>t, <1>1, <1>u, <1>d, <1>r, Zenon DEF StagedInv, Others
  <1>C. CompletionInv'
    BY <1>t, <1>1, <1>u, <1>d, <1>r, CompletionFrame, Zenon DEF CompletePCs
  <1>L. SealedInv'
    BY <1>t, <1>1, <1>u, <1>d, <1>r, Zenon DEF SealedInv, Others, Early
  <1>V. ServedIsVerifiedUnlessOverlap'
    BY <1>t, <1>1, <1>u, <1>d, <1>r, Zenon DEF ServedIsVerifiedUnlessOverlap
  <1> QED BY <1>T, <1>R, <1>S, <1>C, <1>L, <1>V, Zenon

\* DeleteFile removes the rows.
LEMMA DeleteRowsStep ==
    ASSUME UploadInv, NEW r \in Req, DeleteRows(r)
    PROVE  UploadInv'
  <1> USE DEF UploadInv
  <1>t. ReqTypes /\ pc[r] = "delRows" /\ "delStore" \in PCs
    BY UploadParts, Zenon DEF DeleteRows, PCs
  <1>1. ReqTypes' /\ Others(r) /\ pc'[r] \in {"idle", "delStore"}
    BY <1>t, WentOn, Answered, Zenon DEF DeleteRows, Stay
  <1>u. /\ upload' = upload /\ staged' = staged /\ dir' = dir /\ path' = path /\ data' = data
        /\ transfers' = transfers /\ url' = url /\ served' = served /\ uploadFaults' = uploadFaults /\ uploadOverlap' = uploadOverlap
    BY Zenon DEF DeleteRows, rows, disk, uploadAgent, rest
  <1>r. /\ row' \in [exists : BOOLEAN, path : BOOLEAN, verified : BOOLEAN, signed : BOOLEAN]
        /\ ~row'.exists /\ ~row'.path /\ ~row'.verified
    BY Zenon DEF DeleteRows, UploadTypeOK
  <1>T. UploadTypeOK'
    BY <1>1, <1>u, <1>r DEF UploadTypeOK, ReqTypes
  <1>R. RowInv'
    BY <1>t, <1>1, <1>u, <1>r DEF RowInv, Others
  <1>S. StagedInv'
    BY <1>t, <1>1, <1>u, <1>r, Zenon DEF StagedInv, Others
  <1>C. CompletionInv'
    BY <1>t, <1>1, <1>u, <1>r, CompletionFrame, Zenon DEF CompletePCs
  <1>L. SealedInv'
    BY <1>t, <1>1, <1>u, <1>r, Zenon DEF SealedInv, Others, Early
  <1>V. ServedIsVerifiedUnlessOverlap'
    BY <1>t, <1>1, <1>u, <1>r, Zenon DEF ServedIsVerifiedUnlessOverlap
  <1> QED BY <1>T, <1>R, <1>S, <1>C, <1>L, <1>V, Zenon

\* DeleteFile removes the stored file of a row that is gone.
LEMMA DeleteStoreStep ==
    ASSUME UploadInv, NEW r \in Req, DeleteStore(r)
    PROVE  UploadInv'
  <1> USE DEF UploadInv
  <1>t. ReqTypes /\ pc[r] = "delStore" /\ ~row.exists /\ ~row.path
    BY UploadParts, Zenon DEF DeleteStore, RowInv
  <1>1. ReqTypes' /\ Others(r) /\ pc'[r] = "idle"
    BY <1>t, Answered, Zenon DEF DeleteStore
  <1>u. /\ row' = row /\ upload' = upload /\ staged' = staged /\ dir' = dir /\ data' = data
        /\ transfers' = transfers /\ url' = url /\ served' = served /\ uploadFaults' = uploadFaults /\ uploadOverlap' = uploadOverlap
        /\ path' = 0
    BY Zenon DEF DeleteStore, Unlink, rows, disk, uploadAgent, rest
  <1>T. UploadTypeOK'
    BY <1>1, <1>u DEF UploadTypeOK, ReqTypes
  <1>R. RowInv'
    BY <1>t, <1>1, <1>u, Zenon DEF RowInv, Others
  <1>S. StagedInv'
    BY <1>t, <1>1, <1>u, Zenon DEF StagedInv, Others
  <1>C. CompletionInv'
    BY <1>t, <1>1, <1>u, CompletionFrame, Zenon DEF CompletePCs
  <1>L. SealedInv'
    BY <1>t, <1>1, <1>u, Zenon DEF SealedInv, Others, Early
  <1>V. ServedIsVerifiedUnlessOverlap'
    BY <1>t, <1>1, <1>u, Zenon DEF ServedIsVerifiedUnlessOverlap
  <1> QED BY <1>T, <1>R, <1>S, <1>C, <1>L, <1>V, Zenon

\* The two SELECTs of DeleteFile change nothing.
LEMMA DeleteStep ==
    ASSUME UploadInv, NEW r \in Req, DeleteCount(r) \/ DeleteSelect(r)
    PROVE  UploadInv'
  <1>t. ReqTypes /\ row.path \in BOOLEAN /\ {"delSelect", "delRows"} \subseteq PCs
    BY UploadParts, Zenon DEF UploadInv, UploadTypeOK, PCs
  <1>1. CASE DeleteCount(r)
    <2>1. ReqTypes' /\ Others(r) /\ pc'[r] = "delSelect"
      BY <1>1, <1>t, WentOn, Zenon DEF DeleteCount
    <2> QED BY <1>1, <2>1, Quiet, Zenon DEF DeleteCount
  <1>2. CASE DeleteSelect(r)
    <2>1. ReqTypes' /\ Others(r) /\ pc'[r] \in {"delRows", "idle"}
      BY <1>2, <1>t, WentOn, Answered, Zenon DEF DeleteSelect
    <2> QED BY <1>2, <2>1, Quiet, Zenon DEF DeleteSelect
  <1> QED BY <1>1, <1>2, Zenon

\* The agent's steps and time: the requests stay where they are.
LEMMA AgentStep ==
    ASSUME UploadInv, Download \/ ServeFileData \/ CreateTransfer \/ EndTransfer \/ Expire
    PROVE  UploadInv'
  <1> USE DEF UploadInv
  <1>t. ReqTypes
    BY UploadParts, Zenon
  <1>1. /\ pc' = pc /\ at' = at /\ fd' = fd /\ sum' = sum /\ row' = row /\ staged' = staged
        /\ dir' = dir /\ path' = path /\ data' = data /\ uploadFaults' = uploadFaults
        /\ uploadOverlap' = uploadOverlap
    BY Zenon DEF Download, ServeFileData, CreateTransfer, EndTransfer, Expire, local, rows, disk, rest
  <1>2. /\ upload' \in [chunks : SUBSET Chunk, completed : BOOLEAN, expired : BOOLEAN]
        /\ upload'.chunks = upload.chunks /\ upload'.completed = upload.completed
    BY Zenon DEF Download, ServeFileData, CreateTransfer, EndTransfer, Expire, rows, UploadTypeOK
  <1>3. transfers' \in BOOLEAN /\ url' \in BOOLEAN /\ (url' # url => url' /\ row.verified)
    BY Zenon DEF Download, ServeFileData, CreateTransfer, EndTransfer, Expire, uploadAgent, UploadTypeOK,
           DownloadAllowed
  <1>4. /\ served' \in {"nothing", "whole", "other"}
        /\ served' # served => url /\ path # 0 /\ (data[path] = Whole => served' = "whole")
    BY Zenon DEF Download, ServeFileData, CreateTransfer, EndTransfer, Expire, uploadAgent, UploadTypeOK
  <1>T. UploadTypeOK'
    BY <1>t, <1>1, <1>2, <1>3, <1>4, Zenon DEF UploadTypeOK, ReqTypes
  <1>R. RowInv'
    BY <1>t, <1>1, <1>2, <1>3, <1>4, Zenon DEF RowInv, Others
  <1>S. StagedInv'
    BY <1>t, <1>1, <1>2, <1>3, <1>4, Zenon DEF StagedInv, Others
  <1>C. CompletionInv'
    BY <1>t, <1>1, <1>2, <1>3, <1>4 DEF CompletionInv, Others, Assembled, CompletePCs
  <1>L. SealedInv'
    BY <1>t, <1>1, <1>2, <1>3, <1>4, Zenon DEF SealedInv, Others, Early, RowInv
  <1>V. ServedIsVerifiedUnlessOverlap'
    BY <1>t, <1>1, <1>2, <1>3, <1>4, Zenon DEF ServedIsVerifiedUnlessOverlap, SealedInv
  <1> QED BY <1>T, <1>R, <1>S, <1>C, <1>L, <1>V, Zenon

\* A restart of the server forgets the requests and keeps files and rows.
LEMMA RestartStep ==
    ASSUME UploadInv, ServerRestart
    PROVE  UploadInv'
  <1> USE DEF UploadInv
  <1>1. ReqTypes' /\ \A r \in Req : pc'[r] = "idle"
    BY ChunkZero, Zenon DEF ServerRestart, ReqTypes, PCs
  <1>u. /\ row' = row /\ upload' = upload /\ staged' = staged /\ dir' = dir /\ path' = path
        /\ data' = data /\ transfers' = transfers /\ url' = url /\ served' = served /\ uploadOverlap' = uploadOverlap
    BY Zenon DEF ServerRestart, rows, disk, uploadAgent, rest
  <1>f. uploadFaults' \in 0..UploadMaxFaults
    BY FileUploadAssumption DEF ServerRestart, UploadFault, UploadTypeOK
  <1>T. UploadTypeOK'
    BY <1>1, <1>u, <1>f DEF UploadTypeOK, ReqTypes
  <1>R. RowInv'
    BY <1>1, <1>u, <1>f, Zenon DEF RowInv, Others
  <1>S. StagedInv'
    BY <1>1, <1>u, <1>f, Zenon DEF StagedInv, Others
  <1>C. CompletionInv'
    BY <1>1, <1>u, <1>f, Zenon DEF CompletionInv, Others, Assembled, CompletePCs
  <1>L. SealedInv'
    BY <1>1, <1>u, <1>f, Zenon DEF SealedInv, Others, Early
  <1>V. ServedIsVerifiedUnlessOverlap'
    BY <1>1, <1>u, <1>f, Zenon DEF ServedIsVerifiedUnlessOverlap
  <1> QED BY <1>T, <1>R, <1>S, <1>C, <1>L, <1>V, Zenon

\* The invariant holds after InitiateUpload.
LEMMA UploadInitially == UploadInit => UploadInv
  <1> SUFFICES ASSUME UploadInit PROVE UploadInv
    BY Zenon
  <1> USE DEF UploadInit
  <1>1. UploadTypeOK
    <2>1. RowTypes /\ SessionTypes
      BY Zenon DEF RowTypes, SessionTypes
    <2>2. ReqTypes /\ DiskTypes
      BY ChunkZero, Zenon DEF ReqTypes, DiskTypes, Empty, Contents, PCs
    <2>3. RestTypes
      <3>1. uploadFaults \in 0..UploadMaxFaults
        BY FileUploadAssumption
      <3> QED BY <3>1, Zenon DEF RestTypes
    <2> QED BY <2>1, <2>2, <2>3, UploadParts, Zenon
  <1>2. RowInv /\ StagedInv
    BY Zenon DEF RowInv, StagedInv
  <1>3. CompletionInv /\ SealedInv
    BY Zenon DEF CompletionInv, SealedInv, CompletePCs, Assembled
  <1> QED BY <1>1, <1>2, <1>3, Zenon DEF UploadInv, ServedIsVerifiedUnlessOverlap

\* Every step of an upload keeps the invariant.
LEMMA UploadStep == UploadInv /\ [UploadNext]_uploadVars => UploadInv'
  <1> SUFFICES ASSUME UploadInv, [UploadNext]_uploadVars PROVE UploadInv'
    BY Zenon
  <1>1. ASSUME NEW r \in Req,
               \/ \E c \in Chunk : ChunkSelect(r, c)
               \/ \E bytes \in Contents : ChunkWrite(r, bytes)
               \/ ChunkOpen(r) \/ ChunkUpdate(r)
        PROVE  UploadInv'
    BY <1>1, ChunkStep, Zenon
  <1>2. ASSUME NEW r \in Req, CompleteSelect(r) \/ UploadCreate(r) \/ Assemble(r) \/ SaveFails(r) \/ Verify(r)
        PROVE  UploadInv'
    BY <1>2, CompleteSelectStep, UploadCreateStep, AssembleStep, SaveFailsStep, VerifyStep, Zenon
  <1>3. ASSUME NEW r \in Req, SetPath(r) \/ SetDone(r) \/ Clean(r)
        PROVE  UploadInv'
    BY <1>3, SetPathStep, SetDoneStep, CleanStep, Zenon
  <1>4. ASSUME NEW r \in Req, DeleteCount(r) \/ DeleteSelect(r) \/ DeleteRows(r) \/ DeleteStore(r)
        PROVE  UploadInv'
    BY <1>4, DeleteStep, DeleteRowsStep, DeleteStoreStep, Zenon
  <1>5. CASE Download \/ ServeFileData \/ CreateTransfer \/ EndTransfer \/ Expire
    BY <1>5, AgentStep, Zenon
  <1>6. CASE ServerRestart
    BY <1>6, RestartStep, Zenon
  <1>7. CASE UNCHANGED uploadVars
    <2>1. UploadTypeOK' /\ RowInv'
      BY <1>7 DEF uploadVars, UploadInv, UploadTypeOK, RowInv
    <2>2. StagedInv' /\ SealedInv' /\ ServedIsVerifiedUnlessOverlap'
      BY <1>7, Zenon DEF uploadVars, UploadInv, StagedInv, SealedInv, ServedIsVerifiedUnlessOverlap
    <2>3. CompletionInv'
      BY <1>7, Zenon DEF uploadVars, UploadInv, CompletionInv
    <2> QED BY <2>1, <2>2, <2>3, Zenon DEF UploadInv
  <1> QED BY <1>1, <1>2, <1>3, <1>4, <1>5, <1>6, <1>7, ZenonT(60) DEF UploadNext

\* The inductive invariant of the uploads, for any number of requests and chunks.
THEOREM UploadInvariant == UploadSpec => []UploadInv
  BY UploadInitially, UploadStep, PTL DEF UploadSpec

\* A completed upload is stored whole, a listed chunk is staged until then, and what
\* an agent downloads was verified, unless completions overlapped: for any requests,
\* chunks, failures and restarts.
THEOREM UploadsHold == UploadSpec => []UploadsSafe
  <1>1. UploadInv => UploadsSafe
    BY Zenon DEF UploadInv, UploadsSafe, CompletedIsStored, ListedIsStaged, SealedInv, StagedInv
  <1> QED BY <1>1, UploadInvariant, PTL

-----------------------------------------------------------------------------
(* Transfers *)

TransferPCs == Busy \cup {"idle", "completed", "failed", "lost"}
TransferJob == [pc : TransferPCs, file : TransferFiles \cup {None}, sha : BOOLEAN, sig : BOOLEAN,
                exec : BOOLEAN, ino : Jobs \cup {None}]
Inodes == {i \in Jobs : content[i] # "none"}

TransferTypes ==
    /\ job \in [Jobs -> TransferJob]
    /\ temp \in [TransferFiles -> Jobs \cup {None}] /\ final \in [TransferFiles -> Jobs \cup {None}]
    /\ content \in [Jobs -> {"none", "torn", "good", "bad"}]
    /\ opener \in [Jobs -> Jobs] /\ stops \in 0..MaxStops
    /\ transferOverlap \subseteq TransferFiles /\ unchecked \subseteq TransferFiles

\* A job at work has a file, its inode is one it or another job created, and
\* an inode comes into being only when its job downloads.
JobInv ==
    \A j \in Jobs :
      /\ job[j].pc \in Busy => job[j].file \in TransferFiles
      /\ job[j].pc \in {"idle", "preflight", "get"} => content[j] = "none"
      /\ job[j].pc = "copy" => job[j].ino \in Inodes
      /\ job[j].pc \in Busy /\ ~job[j].sha => job[j].file \in unchecked

\* No inode has two names, and a job writes only to an inode of its file.
NameInv ==
    /\ \A f \in TransferFiles : {temp[f], final[f]} \subseteq Inodes \cup {None}
    /\ \A f, g \in TransferFiles :
         /\ temp[f] # None => temp[f] # final[g] /\ (temp[f] = temp[g] => f = g)
         /\ final[f] # None /\ final[f] = final[g] => f = g
    /\ \A j \in Jobs : job[j].pc = "copy" =>
         \A f \in TransferFiles : job[j].ino \in {temp[f], final[f]} => f = job[j].file

\* A file of which one job at a time was at work: what the job writes is what
\* the temporary path names, and what it renames has been written to the end.
AtWork(j, f) == job[j].pc \in Busy /\ job[j].file = f

AloneInv ==
    \A f \in TransferFiles \ transferOverlap : \A j \in Jobs : AtWork(j, f) =>
      /\ \A k \in Jobs : AtWork(k, f) => k = j
      /\ job[j].pc = "copy" => temp[f] = job[j].ino /\ opener[temp[f]] = j
      /\ job[j].pc \in {"verify", "rename"} => temp[f] # None /\ content[temp[f]] \in {"good", "bad"}
      /\ job[j].pc = "rename" /\ job[j].sha => content[temp[f]] = "good"

\* A temporary file belongs to a job at work unless the agent stopped.
TempInv ==
    \A f \in TransferFiles : temp[f] # None /\ stops = 0 =>
      \E j \in Jobs : job[j].file = f /\ job[j].pc \in {"copy", "verify", "rename"}

TransferInv == TransferTypes /\ JobInv /\ NameInv /\ AloneInv /\ WholeUnlessOverlap /\ TempInv

-----------------------------------------------------------------------------
\* A job that changes, and the others.
LEMMA JobMoves ==
    ASSUME TransferTypes, NEW j \in Jobs, NEW r \in TransferJob, job' = [job EXCEPT ![j] = r]
    PROVE  /\ job' \in [Jobs -> TransferJob] /\ job'[j] = r
           /\ \A k \in Jobs \ {j} : job'[k] = job[k]
  BY Zenon DEF TransferTypes

\* A job that ends has its status, and the others are as they were.
LEMMA Ended ==
    ASSUME TransferTypes, NEW j \in Jobs, NEW status \in {"completed", "failed"}, End(j, status)
    PROVE  /\ job' \in [Jobs -> TransferJob] /\ job'[j].pc = status
           /\ \A k \in Jobs \ {j} : job'[k] = job[k]
  <1> DEFINE r == [TransferIdle EXCEPT !.pc = status, !.file = job[j].file, !.sig = job[j].sig]
  <1>1. job[j] \in TransferJob
    BY Zenon DEF TransferTypes
  <1>2. job[j].file \in TransferFiles \cup {None} /\ job[j].sig \in BOOLEAN
    BY <1>1, Zenon DEF TransferJob
  <1>3. r \in TransferJob /\ r.pc = status
    BY <1>2, Zenon DEF TransferJob, TransferIdle, TransferPCs
  <1> HIDE DEF r
  <1>4. job' = [job EXCEPT ![j] = r]
    BY Zenon DEF End, r
  <1> QED BY <1>3, <1>4, JobMoves, Zenon

\* A job that goes on keeps all but its program counter.
LEMMA Went ==
    ASSUME TransferTypes, NEW j \in Jobs, NEW p \in Busy, TransferGoto(j, p)
    PROVE  /\ job' \in [Jobs -> TransferJob]
           /\ job'[j].pc = p /\ job'[j].file = job[j].file /\ job'[j].sha = job[j].sha
           /\ job'[j].exec = job[j].exec /\ job'[j].ino = job[j].ino
           /\ \A k \in Jobs \ {j} : job'[k] = job[k]
  <1> DEFINE r == [job[j] EXCEPT !.pc = p]
  <1>1. job[j] \in TransferJob
    BY Zenon DEF TransferTypes
  <1>2. /\ r \in TransferJob /\ r.pc = p /\ r.file = job[j].file /\ r.sha = job[j].sha
        /\ r.exec = job[j].exec /\ r.ino = job[j].ino
    BY <1>1, Zenon DEF TransferJob, TransferPCs
  <1> HIDE DEF r
  <1>3. job' = [job EXCEPT ![j] = r]
    BY Zenon DEF TransferGoto, r
  <1> QED BY <1>2, <1>3, JobMoves, Zenon

\* A step that leaves the files as they are, of a job that did not create one
\* or has no more to do with it.
LEMMA FilesStay ==
    ASSUME TransferInv, NEW j \in Jobs, job' \in [Jobs -> TransferJob],
           \A k \in Jobs \ {j} : job'[k] = job[k],
           job'[j].pc \in {"completed", "failed"},
           job[j].pc \in {"preflight", "exec"},
           UNCHANGED <<temp, final, content, opener, stops, transferOverlap, unchecked>>
    PROVE  TransferInv'
  <1> USE DEF TransferInv
  <1>1. TransferTypes' /\ WholeUnlessOverlap'
    BY Zenon DEF TransferTypes, WholeUnlessOverlap, Delivered
  <1>2. JobInv' /\ NameInv'
    BY DEF JobInv, NameInv, Inodes, Busy
  <1>3. AloneInv'
    BY DEF AloneInv, AtWork, Busy
  <1>4. TempInv'
    BY DEF TempInv
  <1> QED BY <1>1, <1>2, <1>3, <1>4, Zenon

\* A job that ends and takes the temporary file with it.
LEMMA TempRemoved ==
    ASSUME TransferInv, NEW j \in Jobs, job[j].pc \in Busy, job' \in [Jobs -> TransferJob],
           \A k \in Jobs \ {j} : job'[k] = job[k],
           job'[j].pc \in {"completed", "failed"}, TransferRemove(j),
           UNCHANGED <<final, content, opener, stops, transferOverlap, unchecked>>
    PROVE  TransferInv'
  <1> USE DEF TransferInv
  <1> DEFINE f == job[j].file
  <1>1. f \in TransferFiles
    BY Zenon DEF JobInv
  <1>2. /\ temp' \in [TransferFiles -> Jobs \cup {None}] /\ temp'[f] = None
        /\ \A g \in TransferFiles \ {f} : temp'[g] = temp[g]
    BY <1>1, Zenon DEF TransferRemove, File, TransferTypes
  <1>3. TransferTypes' /\ WholeUnlessOverlap'
    BY <1>2, Zenon DEF TransferTypes, WholeUnlessOverlap, Delivered
  <1>4. JobInv'
    BY Zenon DEF JobInv, Inodes, Busy
  <1>5. NameInv'
    <2>1. Inodes' = Inodes
      BY Zenon DEF Inodes
    <2>2. \A g \in TransferFiles : temp'[g] \in {temp[g], None} /\ final'[g] = final[g]
      BY <1>2, Zenon
    <2>3. \A k \in Jobs : job'[k].pc = "copy" => job'[k] = job[k]
      BY Zenon
    <2>4. \A k \in Jobs : job[k].pc = "copy" => job[k].ino # None
      BY FileTransferAssumption DEF JobInv, Inodes, None
    <2> QED BY <2>1, <2>2, <2>3, <2>4 DEF NameInv
  <1>6. AloneInv'
    <2> SUFFICES ASSUME NEW g \in TransferFiles \ transferOverlap, NEW k \in Jobs, AtWork(k, g)'
                 PROVE  /\ k # j /\ AtWork(k, g) /\ \A i \in Jobs : AtWork(i, g)' => AtWork(i, g)
                        /\ temp'[g] = temp[g] /\ job'[k] = job[k]
      BY DEF AloneInv
    <2>1. k # j /\ AtWork(k, g) /\ \A i \in Jobs : AtWork(i, g)' => AtWork(i, g)
      BY Zenon DEF AtWork, Busy
    <2>2. g # f
      BY <2>1 DEF AloneInv, AtWork
    <2> QED BY <1>2, <2>1, <2>2, Zenon
  <1>7. TempInv'
    BY <1>2 DEF TempInv
  <1> QED BY <1>3, <1>4, <1>5, <1>6, <1>7, Zenon

\* A job that goes on from one step to the next without touching the files.
LEMMA JobGoesOn ==
    ASSUME TransferInv, NEW j \in Jobs, NEW p \in {"get", "rename"}, TransferGoto(j, p),
           p = "get" => job[j].pc = "preflight",
           p = "rename" => job[j].pc = "verify" /\ (~job[j].sha \/ TransferWhole(File(j))),
           UNCHANGED <<temp, final, content, opener, stops, transferOverlap, unchecked>>
    PROVE  TransferInv'
  <1> USE DEF TransferInv
  <1>1. /\ job' \in [Jobs -> TransferJob]
        /\ job'[j].pc = p /\ job'[j].file = job[j].file /\ job'[j].sha = job[j].sha
        /\ \A k \in Jobs \ {j} : job'[k] = job[k]
    BY Went, Zenon DEF Busy
  <1>2. TransferTypes' /\ WholeUnlessOverlap'
    BY <1>1, Zenon DEF TransferTypes, WholeUnlessOverlap, Delivered
  <1>3. JobInv' /\ NameInv'
    <2>1. Inodes' = Inodes
      BY Zenon DEF Inodes
    <2> QED BY <1>1, <2>1 DEF JobInv, NameInv, Busy
  <1>4. AloneInv'
    <2>1. \A k \in Jobs, f \in TransferFiles : AtWork(k, f)' <=> AtWork(k, f)
      BY <1>1, Zenon DEF AtWork, Busy
    <2> SUFFICES ASSUME NEW f \in TransferFiles \ transferOverlap, NEW k \in Jobs, AtWork(k, f)
                 PROVE  /\ job'[k].pc = "copy" => temp[f] = job'[k].ino /\ opener[temp[f]] = k
                        /\ job'[k].pc \in {"verify", "rename"} => temp[f] # None /\ content[temp[f]] \in {"good", "bad"}
                        /\ job'[k].pc = "rename" /\ job'[k].sha => content[temp[f]] = "good"
      BY <2>1 DEF AloneInv
    <2>2. CASE k # j
      BY <1>1, <2>2 DEF AloneInv
    <2>3. CASE k = j
      BY <1>1, <2>3 DEF AloneInv, AtWork, File, TransferWhole
    <2> QED BY <2>2, <2>3, Zenon
  <1>5. TempInv'
    BY <1>1 DEF TempInv
  <1> QED BY <1>2, <1>3, <1>4, <1>5, Zenon

\* A job is received: one more for its file, which counts as an overlap when
\* another is at work on it.
LEMMA ReceiveStep ==
    ASSUME TransferInv, NEW j \in Jobs, Receive(j)
    PROVE  TransferInv'
  <1> USE DEF TransferInv
  <1>1. PICK f \in TransferFiles, sha, sig, exec \in BOOLEAN :
          /\ job' = [job EXCEPT ![j] = [TransferIdle EXCEPT !.pc = "preflight", !.file = f, !.sha = sha,
                                                            !.sig = sig, !.exec = exec]]
          /\ transferOverlap' = IF Active(f) = {} THEN transferOverlap ELSE transferOverlap \cup {f}
          /\ unchecked' = IF sha THEN unchecked ELSE unchecked \cup {f}
    BY Zenon DEF Receive
  <1> DEFINE r == [TransferIdle EXCEPT !.pc = "preflight", !.file = f, !.sha = sha, !.sig = sig, !.exec = exec]
  <1>2. r \in TransferJob /\ r.pc = "preflight" /\ r.file = f /\ r.sha = sha
    BY Zenon DEF TransferJob, TransferIdle, TransferPCs, Busy
  <1> HIDE DEF r
  <1>3. job' \in [Jobs -> TransferJob] /\ job'[j] = r /\ \A k \in Jobs \ {j} : job'[k] = job[k]
    BY <1>1, <1>2, JobMoves, Zenon DEF r
  <1>4. /\ job[j].pc = "idle" /\ UNCHANGED <<temp, final, content, opener, stops>>
        /\ transferOverlap \subseteq transferOverlap' /\ transferOverlap' \subseteq TransferFiles
        /\ unchecked \subseteq unchecked' /\ unchecked' \subseteq TransferFiles
    BY <1>1, Zenon DEF Receive, TransferTypes
  <1>5. TransferTypes' /\ WholeUnlessOverlap'
    BY <1>3, <1>4, Zenon DEF TransferTypes, WholeUnlessOverlap, Delivered
  <1>6. JobInv' /\ NameInv'
    <2>1. Inodes' = Inodes
      BY <1>4, Zenon DEF Inodes
    <2>2. JobInv'
      BY <1>1, <1>2, <1>3, <1>4, <2>1 DEF JobInv, Busy
    <2> QED BY <1>2, <1>3, <1>4, <2>1, <2>2 DEF NameInv
  <1>7. AloneInv'
    <2> SUFFICES ASSUME NEW g \in TransferFiles \ transferOverlap', NEW k \in Jobs, AtWork(k, g)'
                 PROVE  /\ \A i \in Jobs : AtWork(i, g)' => i = k
                        /\ job'[k].pc = "copy" => temp[g] = job'[k].ino /\ opener[temp[g]] = k
                        /\ job'[k].pc \in {"verify", "rename"} => temp[g] # None /\ content[temp[g]] \in {"good", "bad"}
                        /\ job'[k].pc = "rename" /\ job'[k].sha => content[temp[g]] = "good"
      BY <1>4 DEF AloneInv
    <2>1. CASE g = f
      <3>1. Active(f) = {}
        BY <1>1, <2>1, Zenon
      <3>2. \A i \in Jobs : ~AtWork(i, f)
        BY <3>1, Zenon DEF Active, AtWork
      <3>3. \A i \in Jobs : AtWork(i, g)' => i = j
        BY <1>3, <2>1, <3>2, Zenon DEF AtWork
      <3> QED BY <1>2, <1>3, <3>3, Zenon
    <2>2. CASE g # f
      <3>1. \A i \in Jobs : AtWork(i, g)' => i # j /\ AtWork(i, g)
        BY <1>2, <1>3, <2>2, Zenon DEF AtWork
      <3> QED BY <1>3, <1>4, <3>1 DEF AloneInv
    <2> QED BY <2>1, <2>2, Zenon
  <1>8. TempInv'
    BY <1>3, <1>4 DEF TempInv
  <1> QED BY <1>5, <1>6, <1>7, <1>8, Zenon

\* Opening the temporary file keeps the invariant: it is empty and has one writer.
LEMMA TransferCreateStep ==
    ASSUME TransferInv, NEW j \in Jobs, TransferCreate(j)
    PROVE  TransferInv'
  <1> USE DEF TransferInv
  <1> DEFINE f == job[j].file
             i == IF temp[f] = None THEN j ELSE temp[f]
             r == [job[j] EXCEPT !.pc = "copy", !.ino = i]
  <1>1. job[j].pc = "get" /\ f \in TransferFiles /\ content[j] = "none" /\ job[j] \in TransferJob
    BY Zenon DEF TransferCreate, JobInv, Busy, TransferTypes
  <1>2. i \in Jobs /\ (temp[f] = None => i = j) /\ (temp[f] # None => i = temp[f])
    BY <1>1, Zenon DEF TransferTypes
  <1>3. /\ temp' = [temp EXCEPT ![f] = i] /\ content' = [content EXCEPT ![i] = "torn"]
        /\ opener' = [opener EXCEPT ![i] = j] /\ job' = [job EXCEPT ![j] = r]
        /\ UNCHANGED <<final, stops, transferOverlap, unchecked>>
    BY Zenon DEF TransferCreate, File
  <1>4. r \in TransferJob /\ r.pc = "copy" /\ r.file = f /\ r.sha = job[j].sha /\ r.ino = i
    BY <1>1, <1>2, Zenon DEF TransferJob, TransferPCs, Busy
  <1> HIDE DEF r, i
  <1>5. job' \in [Jobs -> TransferJob] /\ job'[j] = r /\ \A k \in Jobs \ {j} : job'[k] = job[k]
    BY <1>3, <1>4, JobMoves, Zenon
  <1>6. TransferTypes'
    BY <1>1, <1>2, <1>3, <1>5, Zenon DEF TransferTypes
  <1>7. /\ temp'[f] = i /\ \A g \in TransferFiles \ {f} : temp'[g] = temp[g]
        /\ content'[i] = "torn" /\ \A k \in Jobs \ {i} : content'[k] = content[k]
        /\ opener'[i] = j /\ \A k \in Jobs \ {i} : opener'[k] = opener[k]
    BY <1>1, <1>2, <1>3, Zenon DEF TransferTypes
  <1>8. /\ \A g \in TransferFiles : final[g] # i /\ (g # f => temp[g] # i)
        /\ \A k \in Jobs \ {j} : job[k].pc = "copy" /\ job[k].ino = i => job[k].file = f
    BY <1>1, <1>2, FileTransferAssumption DEF NameInv, JobInv, Inodes, None
  <1>9. Inodes' = Inodes \cup {i}
    BY <1>2, <1>7, Zenon DEF Inodes
  <1>n. i # None
    BY <1>2, FileTransferAssumption, Zenon DEF None
  <1>10. JobInv'
    <2> SUFFICES ASSUME NEW k \in Jobs
                 PROVE  /\ job'[k].pc \in Busy => job'[k].file \in TransferFiles
                        /\ job'[k].pc \in {"idle", "preflight", "get"} => content'[k] = "none"
                        /\ job'[k].pc = "copy" => job'[k].ino \in Inodes'
                        /\ job'[k].pc \in Busy /\ ~job'[k].sha => job'[k].file \in unchecked
      BY <1>3, Zenon DEF JobInv
    <2>1. CASE k = j
      BY <1>1, <1>4, <1>5, <1>9, <2>1, Zenon DEF JobInv, Busy
    <2>2. CASE k # j
      <3>1. k = i => content[k] # "none"
        BY <1>1, <1>2, <2>2, FileTransferAssumption DEF NameInv, Inodes, None
      <3> QED BY <1>5, <1>7, <1>9, <2>2, <3>1 DEF JobInv
    <2> QED BY <2>1, <2>2, Zenon
  <1>11. NameInv'
    <2>1. \A g \in TransferFiles : {temp'[g], final'[g]} \subseteq Inodes' \cup {None}
      BY <1>3, <1>7, <1>9 DEF NameInv
    <2>2. \A g, h \in TransferFiles :
            /\ temp'[g] # None => temp'[g] # final'[h] /\ (temp'[g] = temp'[h] => g = h)
            /\ final'[g] # None /\ final'[g] = final'[h] => g = h
      BY <1>3, <1>7, <1>8 DEF NameInv
    <2>3. \A k \in Jobs : job'[k].pc = "copy" =>
            \A g \in TransferFiles : job'[k].ino \in {temp'[g], final'[g]} => g = job'[k].file
      <3> SUFFICES ASSUME NEW k \in Jobs, job'[k].pc = "copy", NEW g \in TransferFiles,
                          job'[k].ino \in {temp'[g], final'[g]}
                   PROVE  g = job'[k].file
        BY Zenon
      <3>1. CASE k = j
        BY <1>3, <1>4, <1>5, <1>7, <1>8, <3>1
      <3>2. CASE k # j
        BY <1>3, <1>5, <1>7, <1>8, <3>2 DEF NameInv
      <3> QED BY <3>1, <3>2, Zenon
    <2> QED BY <2>1, <2>2, <2>3, Zenon DEF NameInv
  <1>12. AloneInv'
    <2>1. \A k \in Jobs, g \in TransferFiles : AtWork(k, g)' <=> AtWork(k, g)
      BY <1>1, <1>4, <1>5, Zenon DEF AtWork, Busy
    <2> SUFFICES ASSUME NEW g \in TransferFiles \ transferOverlap, NEW k \in Jobs, AtWork(k, g)
                 PROVE  /\ job'[k].pc = "copy" => temp'[g] = job'[k].ino /\ opener'[temp'[g]] = k
                        /\ job'[k].pc \in {"verify", "rename"} => temp'[g] # None /\ content'[temp'[g]] \in {"good", "bad"}
                        /\ job'[k].pc = "rename" /\ job'[k].sha => content'[temp'[g]] = "good"
      BY <1>3, <2>1 DEF AloneInv
    <2>2. CASE k = j
      BY <1>4, <1>5, <1>7, <2>2, Zenon DEF AtWork
    <2>3. CASE k # j
      <3>1. g # f
        BY <1>1, <2>3, Zenon DEF AloneInv, AtWork, Busy
      <3>2. temp'[g] = temp[g] /\ temp[g] # i /\ job'[k] = job[k]
        BY <1>5, <1>7, <1>8, <2>3, <3>1, Zenon
      <3>3. job[k].pc = "copy" => temp[g] = job[k].ino /\ temp[g] \in Jobs
        BY DEF AloneInv, JobInv, Inodes
      <3>4. temp[g] \in Jobs => opener'[temp[g]] = opener[temp[g]] /\ content'[temp[g]] = content[temp[g]]
        BY <1>7, <3>2, Zenon
      <3>5. temp[g] \in Jobs \cup {None}
        BY Zenon DEF TransferTypes
      <3> QED BY <3>2, <3>3, <3>4, <3>5 DEF AloneInv
    <2> QED BY <2>2, <2>3, Zenon
  <1>13. WholeUnlessOverlap'
    <2>1. \A g \in TransferFiles : final[g] # None => content'[final[g]] = content[final[g]]
      BY <1>7, <1>8 DEF TransferTypes
    <2> QED BY <1>3, <2>1, Zenon DEF WholeUnlessOverlap, Delivered
  <1>14. TempInv'
    <2> SUFFICES ASSUME NEW g \in TransferFiles, temp'[g] # None, stops = 0
                 PROVE  \E k \in Jobs : job'[k].file = g /\ job'[k].pc \in {"copy", "verify", "rename"}
      BY <1>3, Zenon DEF TempInv
    <2>1. CASE g = f
      BY <1>4, <1>5, <2>1, Zenon
    <2>2. CASE g # f
      <3>1. PICK k \in Jobs : job[k].file = g /\ job[k].pc \in {"copy", "verify", "rename"}
        BY <1>7, <2>2 DEF TempInv
      <3> QED BY <1>1, <1>5, <3>1, Zenon
    <2> QED BY <2>1, <2>2, Zenon
  <1> QED BY <1>6, <1>10, <1>11, <1>12, <1>13, <1>14, Zenon

\* Copying a chunk, or failing to, keeps the invariant.
LEMMA CopyStep ==
    ASSUME TransferInv, NEW j \in Jobs, Copy(j)
    PROVE  TransferInv'
  <1> USE DEF TransferInv
  <1> DEFINE f == job[j].file
             i == job[j].ino
             r == [job[j] EXCEPT !.pc = "verify", !.ino = None]
  <1>1. job[j].pc = "copy" /\ f \in TransferFiles /\ i \in Inodes /\ i \in Jobs /\ job[j] \in TransferJob
    BY Zenon DEF Copy, JobInv, Busy, Inodes, TransferTypes
  <1>2. PICK c \in {"torn", "good", "bad"} :
          content' = [content EXCEPT ![i] = c] /\ (opener[i] = j => c # "torn")
    <2> DEFINE v(q) == IF opener[i] = j THEN q ELSE IF content[i] = "torn" THEN "torn"
                       ELSE IF q = "bad" THEN "bad" ELSE content[i]
    <2>1. PICK q \in {"good", "bad"} : content' = [content EXCEPT ![i] = v(q)]
      BY Zenon DEF Copy
    <2>2. content[i] \in {"torn", "good", "bad"}
      BY <1>1, Zenon DEF TransferTypes, Inodes
    <2>3. CASE opener[i] = j
      <3>1. v(q) = q
        BY <2>3, Zenon
      <3> QED BY <2>1, <3>1, Zenon
    <2>4. CASE opener[i] # j
      <3>1. v(q) \in {"torn", "good", "bad"}
        BY <2>2, <2>4, Zenon
      <3> QED BY <2>1, <2>4, <3>1, Zenon
    <2> QED BY <2>3, <2>4, Zenon
  <1>3. /\ job' = [job EXCEPT ![j] = r]
        /\ UNCHANGED <<temp, final, opener, stops, transferOverlap, unchecked>>
    BY Zenon DEF Copy
  <1>4. r \in TransferJob /\ r.pc = "verify" /\ r.file = f /\ r.sha = job[j].sha
    BY <1>1, Zenon DEF TransferJob, TransferPCs, Busy
  <1> HIDE DEF r, i
  <1>5. job' \in [Jobs -> TransferJob] /\ job'[j] = r /\ \A k \in Jobs \ {j} : job'[k] = job[k]
    BY <1>3, <1>4, JobMoves, Zenon
  <1>6. TransferTypes'
    BY <1>1, <1>2, <1>3, <1>5, Zenon DEF TransferTypes
  <1>7. content'[i] = c /\ \A k \in Jobs \ {i} : content'[k] = content[k]
    BY <1>1, <1>2, Zenon DEF TransferTypes
  <1>8. Inodes' = Inodes
    BY <1>1, <1>7, Zenon DEF Inodes
  <1>9. JobInv'
    BY <1>1, <1>3, <1>4, <1>5, <1>7, <1>8 DEF JobInv, Busy, Inodes
  <1>10. NameInv'
    BY <1>3, <1>4, <1>5, <1>8 DEF NameInv
  <1>11. \A g \in TransferFiles : i \in {temp[g], final[g]} => g = f
    BY <1>1, Zenon DEF NameInv, i
  <1>12. f \notin transferOverlap => temp[f] = i /\ opener[i] = j /\ final[f] # i
    <2>1. f \notin transferOverlap => temp[f] = i /\ opener[i] = j
      BY <1>1 DEF AloneInv, AtWork, Busy, i
    <2> QED BY <1>1, <2>1, FileTransferAssumption DEF NameInv, None
  <1>13. AloneInv'
    <2>1. \A k \in Jobs, g \in TransferFiles : AtWork(k, g)' <=> AtWork(k, g)
      BY <1>1, <1>4, <1>5, Zenon DEF AtWork, Busy
    <2> SUFFICES ASSUME NEW g \in TransferFiles \ transferOverlap, NEW k \in Jobs, AtWork(k, g)
                 PROVE  /\ job'[k].pc = "copy" => temp[g] = job'[k].ino /\ opener[temp[g]] = k
                        /\ job'[k].pc \in {"verify", "rename"} => temp[g] # None /\ content'[temp[g]] \in {"good", "bad"}
                        /\ job'[k].pc = "rename" /\ job'[k].sha => content'[temp[g]] = "good"
      BY <1>3, <2>1, SMTT(30) DEF AloneInv
    <2>2. CASE k = j
      <3>1. g = f
        BY <2>2, Zenon DEF AtWork
      <3>2. temp[g] = i /\ content'[temp[g]] \in {"good", "bad"} /\ i # None
        BY <1>1, <1>2, <1>7, <1>12, <3>1, FileTransferAssumption, Zenon DEF None
      <3> QED BY <1>4, <1>5, <2>2, <3>2, Zenon
    <2>3. CASE k # j
      <3>1. g # f
        BY <1>1, <2>3, Zenon DEF AloneInv, AtWork, Busy
      <3>2. temp[g] # i /\ temp[g] \in Jobs \cup {None}
        BY <1>11, <3>1, Zenon DEF TransferTypes
      <3>3. temp[g] # None => content'[temp[g]] = content[temp[g]]
        BY <1>7, <3>2, Zenon
      <3>4. job'[k] = job[k]
        BY <1>5, <2>3, Zenon
      <3> QED BY <3>3, <3>4, SMTT(30) DEF AloneInv
    <2> QED BY <2>2, <2>3, Zenon
  <1>14. WholeUnlessOverlap'
    <2>1. \A g \in TransferFiles \ transferOverlap : final[g] # None => content'[final[g]] = content[final[g]]
      BY <1>7, <1>11, <1>12, Zenon DEF TransferTypes
    <2> QED BY <1>3, <2>1, Zenon DEF WholeUnlessOverlap, Delivered
  <1>15. TempInv'
    <2> SUFFICES ASSUME NEW g \in TransferFiles, temp[g] # None, stops = 0
                 PROVE  \E k \in Jobs : job'[k].file = g /\ job'[k].pc \in {"copy", "verify", "rename"}
      BY <1>3, Zenon DEF TempInv
    <2>1. PICK k \in Jobs : job[k].file = g /\ job[k].pc \in {"copy", "verify", "rename"}
      BY Zenon DEF TempInv
    <2> QED BY <1>4, <1>5, <2>1, Zenon
  <1> QED BY <1>6, <1>9, <1>10, <1>13, <1>14, <1>15, Zenon

\* Renaming the verified temporary file onto the destination keeps the invariant.
LEMMA RenameStep ==
    ASSUME TransferInv, NEW j \in Jobs, Rename(j)
    PROVE  TransferInv'
  <1> USE DEF TransferInv
  <1> DEFINE f == job[j].file
  <1>1. job[j].pc = "rename" /\ job[j].pc \in Busy /\ f \in TransferFiles /\ TransferRemove(j)
    BY Zenon DEF Rename, JobInv, Busy
  <1>2. CASE temp[f] = None
    <2>1. End(j, "failed") /\ UNCHANGED <<final, content, opener, stops, transferOverlap, unchecked>>
      BY <1>2, Zenon DEF Rename, File
    <2> QED BY <1>1, <2>1, Ended, TempRemoved, Zenon
  <1>3. CASE temp[f] # None
    <2>1. /\ final' = [final EXCEPT ![f] = temp[f]] /\ temp' = [temp EXCEPT ![f] = None]
          /\ UNCHANGED <<content, opener, stops, transferOverlap, unchecked>>
      BY <1>1, <1>3, Zenon DEF Rename, File, TransferRemove
    <2>2. /\ job' \in [Jobs -> TransferJob] /\ \A k \in Jobs \ {j} : job'[k] = job[k]
          /\ \/ job'[j].pc = "completed"
             \/ job'[j].pc = "exec" /\ job'[j].file = f /\ job'[j].sha = job[j].sha
      <3>1. CASE job[j].exec
        BY <1>3, <3>1, Went, Zenon DEF Rename, File, Busy
      <3>2. CASE ~job[j].exec
        BY <1>3, <3>2, Ended, Zenon DEF Rename, File
      <3> QED BY <3>1, <3>2, Zenon
    <2>3. /\ temp'[f] = None /\ final'[f] = temp[f]
          /\ \A g \in TransferFiles \ {f} : temp'[g] = temp[g] /\ final'[g] = final[g]
      BY <1>1, <2>1, Zenon DEF TransferTypes
    <2>4. TransferTypes'
      BY <1>1, <2>1, <2>2, Zenon DEF TransferTypes
    <2>5. Inodes' = Inodes
      BY <2>1, Zenon DEF Inodes
    <2>6. JobInv'
      BY <1>1, <2>1, <2>2, <2>5 DEF JobInv, Busy
    <2>7. NameInv'
      <3>1. \A g \in TransferFiles : {temp'[g], final'[g]} \subseteq Inodes' \cup {None}
        BY <1>1, <2>3, <2>5 DEF NameInv
      <3>2. \A g, h \in TransferFiles :
              /\ temp'[g] # None => temp'[g] # final'[h] /\ (temp'[g] = temp'[h] => g = h)
              /\ final'[g] # None /\ final'[g] = final'[h] => g = h
        BY <1>1, <1>3, <2>3 DEF NameInv
      <3>3. \A k \in Jobs : job'[k].pc = "copy" => job'[k] = job[k]
        BY <2>2, Zenon
      <3>4. \A k \in Jobs : job[k].pc = "copy" => job[k].ino # None
        BY FileTransferAssumption, Zenon DEF JobInv, Inodes, None
      <3>5. \A k \in Jobs : job'[k].pc = "copy" =>
              \A g \in TransferFiles : job'[k].ino \in {temp'[g], final'[g]} => g = job'[k].file
        BY <1>1, <2>3, <3>3, <3>4 DEF NameInv
      <3> QED BY <3>1, <3>2, <3>5, Zenon DEF NameInv
    <2>8. AloneInv'
      <3>1. \A k \in Jobs, g \in TransferFiles : AtWork(k, g)' => AtWork(k, g)
        BY <1>1, <2>2, Zenon DEF AtWork, Busy
      <3> SUFFICES ASSUME NEW g \in TransferFiles \ transferOverlap, NEW k \in Jobs, AtWork(k, g)'
                   PROVE  /\ job'[k].pc = "copy" => temp'[g] = job'[k].ino /\ opener[temp'[g]] = k
                          /\ job'[k].pc \in {"verify", "rename"} => temp'[g] # None /\ content[temp'[g]] \in {"good", "bad"}
                          /\ job'[k].pc = "rename" /\ job'[k].sha => content[temp'[g]] = "good"
        BY <2>1, <3>1, SMTT(30) DEF AloneInv
      <3>2. CASE k = j
        BY <2>2, <3>2, Zenon
      <3>3. CASE k # j
        <4>1. AtWork(k, g) /\ g # f
          BY <1>1, <3>1, <3>3, SMTT(30) DEF AloneInv, AtWork
        <4>2. job'[k] = job[k] /\ temp'[g] = temp[g]
          BY <2>2, <2>3, <3>3, <4>1, Zenon
        <4>3. /\ job[k].pc = "copy" => temp[g] = job[k].ino /\ opener[temp[g]] = k
              /\ job[k].pc \in {"verify", "rename"} => temp[g] # None /\ content[temp[g]] \in {"good", "bad"}
              /\ job[k].pc = "rename" /\ job[k].sha => content[temp[g]] = "good"
          BY <1>1, <4>1, Zenon DEF AloneInv
        <4> QED BY <4>2, <4>3, Zenon
      <3> QED BY <3>2, <3>3, Zenon
    <2>9. WholeUnlessOverlap'
      <3> SUFFICES ASSUME NEW g \in TransferFiles \ transferOverlap, final'[g] # None
                   PROVE  content[final'[g]] = "good" \/ (g \in unchecked /\ content[final'[g]] = "bad")
        BY <2>1, Zenon DEF WholeUnlessOverlap, Delivered
      <3>1. CASE g = f
        <4>1. content[temp[f]] \in {"good", "bad"} /\ (job[j].sha => content[temp[f]] = "good")
          BY <1>1, <3>1, Zenon DEF AloneInv, AtWork
        <4>2. ~job[j].sha => f \in unchecked
          BY <1>1, Zenon DEF JobInv
        <4> QED BY <2>3, <3>1, <4>1, <4>2, Zenon
      <3>2. CASE g # f
        BY <2>3, <3>2, Zenon DEF WholeUnlessOverlap, Delivered
      <3> QED BY <3>1, <3>2, Zenon
    <2>10. TempInv'
      <3> SUFFICES ASSUME NEW g \in TransferFiles, temp'[g] # None, stops = 0
                   PROVE  \E k \in Jobs : job'[k].file = g /\ job'[k].pc \in {"copy", "verify", "rename"}
        BY <2>1, Zenon DEF TempInv
      <3>1. g # f /\ temp[g] # None
        BY <2>3, Zenon
      <3>2. PICK k \in Jobs : job[k].file = g /\ job[k].pc \in {"copy", "verify", "rename"}
        BY <3>1, Zenon DEF TempInv
      <3> QED BY <2>2, <3>1, <3>2, Zenon
    <2> QED BY <2>4, <2>6, <2>7, <2>8, <2>9, <2>10, Zenon
  <1> QED BY <1>2, <1>3, Zenon

\* An agent that stops keeps the invariant: what jobs left on disk stays.
LEMMA StopStep ==
    ASSUME TransferInv, TransferStop
    PROVE  TransferInv'
  <1> USE DEF TransferInv
  <1> DEFINE r == [TransferIdle EXCEPT !.pc = "lost"]
  <1>1. r \in TransferJob /\ r.pc = "lost"
    BY Zenon DEF TransferJob, TransferIdle, TransferPCs
  <1> HIDE DEF r
  <1>2. /\ job' = [j \in Jobs |-> IF job[j].pc \in Busy THEN r ELSE job[j]]
        /\ stops' = stops + 1 /\ stops < MaxStops
        /\ UNCHANGED <<temp, final, content, opener, transferOverlap, unchecked>>
    BY Zenon DEF TransferStop, r
  <1>3. \A j \in Jobs : job'[j].pc \notin Busy /\ (job'[j] = r \/ job'[j] = job[j])
    BY <1>1, <1>2, Zenon DEF Busy
  <1>4. TransferTypes' /\ stops' > 0
    BY <1>1, <1>2, FileTransferAssumption DEF TransferTypes
  <1>5. WholeUnlessOverlap'
    BY <1>2, Zenon DEF WholeUnlessOverlap, Delivered
  <1>6. Inodes' = Inodes
    BY <1>2, Zenon DEF Inodes
  <1>7. JobInv' /\ NameInv'
    BY <1>1, <1>2, <1>3, <1>6 DEF JobInv, NameInv, Busy
  <1>8. AloneInv' /\ TempInv'
    BY <1>3, <1>4, SMTT(30) DEF AloneInv, AtWork, TempInv
  <1> QED BY <1>4, <1>5, <1>7, <1>8, Zenon

\* The invariant holds before the first job.
LEMMA TransferInitially == TransferInit => TransferInv
  <1> SUFFICES ASSUME TransferInit PROVE TransferInv
    BY Zenon
  <1>1. TransferIdle \in TransferJob /\ TransferIdle.pc = "idle"
    BY Zenon DEF TransferIdle, TransferJob, TransferPCs
  <1>2. \A j \in Jobs : job[j] = TransferIdle
    BY Zenon DEF TransferInit
  <1>3. TransferTypes
    BY <1>1, FileTransferAssumption DEF TransferInit, TransferTypes
  <1>4. JobInv /\ AloneInv
    BY <1>1, <1>2, Zenon DEF TransferInit, JobInv, AloneInv, AtWork, Busy
  <1>5. NameInv /\ WholeUnlessOverlap /\ TempInv
    BY <1>1, <1>2, Zenon DEF TransferInit, NameInv, WholeUnlessOverlap, TempInv
  <1> QED BY <1>3, <1>4, <1>5, Zenon DEF TransferInv

\* Every step of a file transfer keeps the invariant.
LEMMA TransferStep == TransferInv /\ [TransferNext]_transferVars => TransferInv'
  <1> SUFFICES ASSUME TransferInv, [TransferNext]_transferVars PROVE TransferInv'
    BY Zenon
  <1>t. TransferTypes
    BY Zenon DEF TransferInv
  <1>1. ASSUME NEW j \in Jobs, Preflight(j) PROVE TransferInv'
    <2>1. /\ job[j].pc = "preflight"
          /\ UNCHANGED <<temp, final, content, opener, stops, transferOverlap, unchecked>>
      BY <1>1, Zenon DEF Preflight
    <2>2. CASE TransferGoto(j, "get")
      BY <2>1, <2>2, JobGoesOn, Zenon
    <2>3. CASE End(j, "failed")
      BY <1>t, <2>1, <2>3, Ended, FilesStay, Zenon
    <2> QED BY <1>1, <2>2, <2>3, Zenon DEF Preflight
  <1>2. ASSUME NEW j \in Jobs, DownloadFailed(j) PROVE TransferInv'
    <2>1. /\ job[j].pc \in Busy /\ TransferRemove(j) /\ End(j, "failed")
          /\ UNCHANGED <<final, content, opener, stops, transferOverlap, unchecked>>
      BY <1>2, Zenon DEF DownloadFailed, Busy
    <2> QED BY <1>t, <2>1, Ended, TempRemoved, Zenon
  <1>3. ASSUME NEW j \in Jobs, TransferVerify(j) PROVE TransferInv'
    <2>1. /\ job[j].pc = "verify" /\ job[j].pc \in Busy
          /\ UNCHANGED <<final, content, opener, stops, transferOverlap, unchecked>>
      BY <1>3, Zenon DEF TransferVerify, Busy
    <2>2. CASE ~job[j].sha \/ TransferWhole(File(j))
      <3>1. TransferGoto(j, "rename") /\ UNCHANGED temp
        BY <1>3, <2>2, Zenon DEF TransferVerify
      <3> QED BY <2>1, <2>2, <3>1, JobGoesOn, Zenon
    <2>3. CASE ~(~job[j].sha \/ TransferWhole(File(j)))
      <3>1. TransferRemove(j) /\ End(j, "failed")
        BY <1>3, <2>3, Zenon DEF TransferVerify
      <3> QED BY <1>t, <2>1, <3>1, Ended, TempRemoved, Zenon
    <2> QED BY <2>2, <2>3, Zenon
  <1>4. ASSUME NEW j \in Jobs, RunOnComplete(j) PROVE TransferInv'
    <2>1. PICK status \in {"completed", "failed"} : End(j, status)
      BY <1>4, Zenon DEF RunOnComplete
    <2>2. /\ job[j].pc = "exec"
          /\ UNCHANGED <<temp, final, content, opener, stops, transferOverlap, unchecked>>
      BY <1>4, Zenon DEF RunOnComplete
    <2> QED BY <1>t, <2>1, <2>2, Ended, FilesStay, Zenon
  <1>5. CASE UNCHANGED transferVars
    BY <1>5 DEF transferVars, TransferInv, TransferTypes, JobInv, NameInv, Inodes, AloneInv, AtWork,
                WholeUnlessOverlap, Delivered, TempInv
  <1> QED BY <1>1, <1>2, <1>3, <1>4, <1>5, ReceiveStep, TransferCreateStep, CopyStep, RenameStep, StopStep, Zenon DEF TransferNext

\* The inductive invariant of the file transfers, for any jobs and files.
THEOREM TransferInvariant == TransferSpec => []TransferInv
  BY TransferInitially, TransferStep, PTL DEF TransferSpec

\* A file a transfer delivered is whole unless two jobs for it overlapped, and an
\* agent without jobs for it keeps no temporary file that no stop left behind, for
\* any jobs, files and stops.
THEOREM TransfersHold == TransferSpec => []TransfersSafe
  <1>1. TransferInv => NoTempLeft
    BY DEF TransferInv, TransferTypes, TempInv, NoTempLeft, Active, Busy
  <1>2. TransferInv => TransfersSafe
    BY <1>1, Zenon DEF TransferInv, TransfersSafe
  <1> QED BY <1>2, TransferInvariant, PTL

=============================================================================
