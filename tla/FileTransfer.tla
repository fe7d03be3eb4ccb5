---------------------------- MODULE FileTransfer ----------------------------
(***************************************************************************)
(* File transfer jobs on one agent (agent/executor/filetransfer.go).  Each *)
(* job runs in a goroutine of its own; two jobs for a file, or one job     *)
(* dispatched twice, share its paths in the drop directory.  Paths name    *)
(* inodes: a file created over an existing one is the same inode, emptied, *)
(* and a renamed file is still written by whoever has it open.             *)
(***************************************************************************)
EXTENDS Integers, FiniteSets

CONSTANTS
    Jobs, TransferFiles,
    Signed,         \* the files with a signature
    MaxStops        \* times the agent stops

ASSUME FileTransferAssumption ==
    /\ Signed \subseteq TransferFiles /\ MaxStops \in Nat
    /\ "none" \notin Jobs \cup TransferFiles

VARIABLES
    job,            \* jobs in the agent
    temp,           \* .downloading-<file>, an inode, named after the job that created it
    final,          \* <file> in the drop directory
    content,        \* of the inodes
    opener,         \* the job that emptied an inode last
    stops,
    transferOverlap,        \* the files two jobs have transferred at once
    unchecked       \* the files a job took without SHA-256

transferVars == <<job, temp, final, content, opener, stops, transferOverlap, unchecked>>

None == "none"
TransferIdle == [pc |-> "idle", file |-> None, sha |-> TRUE, sig |-> FALSE, exec |-> FALSE, ino |-> None]
Busy == {"preflight", "get", "copy", "verify", "rename", "exec"}
Active(f) == {j \in Jobs : job[j].pc \in Busy /\ job[j].file = f}

\* Paths name inodes that have been created, and a job that writes has one open.
TransferTypeOK ==
    /\ job \in [Jobs -> [pc : Busy \cup {"idle", "completed", "failed", "lost"},
                         file : TransferFiles \cup {None}, sha : BOOLEAN, sig : BOOLEAN, exec : BOOLEAN,
                         ino : Jobs \cup {None}]]
    /\ \A j \in Jobs : job[j].pc = "copy" => job[j].ino # None
    /\ temp \in [TransferFiles -> Jobs \cup {None}] /\ final \in [TransferFiles -> Jobs \cup {None}]
    /\ content \in [Jobs -> {"none", "torn", "good", "bad"}]
    /\ \A f \in TransferFiles : {temp[f], final[f]} \subseteq {i \in Jobs : content[i] # "none"} \cup {None}
    /\ opener \in [Jobs -> Jobs] /\ stops \in 0..MaxStops
    /\ transferOverlap \subseteq TransferFiles /\ unchecked \subseteq TransferFiles

TransferInit ==
    /\ job = [j \in Jobs |-> TransferIdle]
    /\ temp = [f \in TransferFiles |-> None] /\ final = [f \in TransferFiles |-> None]
    /\ content = [j \in Jobs |-> "none"] /\ opener = [j \in Jobs |-> j]
    /\ stops = 0 /\ transferOverlap = {} /\ unchecked = {}

-----------------------------------------------------------------------------
TransferGoto(j, p) == job' = [job EXCEPT ![j].pc = p]
End(j, status) ==
    job' = [job EXCEPT ![j] = [TransferIdle EXCEPT !.pc = status, !.file = job[j].file, !.sig = job[j].sig]]
File(j) == job[j].file

\* runJob has acknowledged the job; a payload without an integrity field requires SHA-256
Receive(j) ==
    /\ job[j].pc = "idle"
    /\ \E f \in TransferFiles, sha, sig, exec \in BOOLEAN :
         /\ job' = [job EXCEPT ![j] = [TransferIdle EXCEPT !.pc = "preflight", !.file = f, !.sha = sha,
                                                           !.sig = sig, !.exec = exec]]
         /\ transferOverlap' = IF Active(f) = {} THEN transferOverlap ELSE transferOverlap \cup {f}
         /\ unchecked' = IF sha THEN unchecked ELSE unchecked \cup {f}
    /\ UNCHANGED <<temp, final, content, opener, stops>>

\* getDownloadInfo, and the space check when it is enabled
Preflight(j) ==
    /\ job[j].pc = "preflight"
    /\ TransferGoto(j, "get") \/ End(j, "failed")
    /\ UNCHANGED <<temp, final, content, opener, stops, transferOverlap, unchecked>>

TransferRemove(j) == temp' = [temp EXCEPT ![File(j)] = None]

\* Writes the final path from the start
CreateInPlace(j) ==
    /\ job[j].pc = "get"
    /\ LET i == IF final[File(j)] = None THEN j ELSE final[File(j)] IN
         /\ final' = [final EXCEPT ![File(j)] = i]
         /\ temp' = [temp EXCEPT ![File(j)] = i]
         /\ content' = [content EXCEPT ![i] = "torn"]
         /\ opener' = [opener EXCEPT ![i] = j]
         /\ job' = [job EXCEPT ![j].pc = "copy", ![j].ino = i]
    /\ UNCHANGED <<stops, transferOverlap, unchecked>>

\* downloadFile: the answer has come and os.Create empties the temporary file
TransferCreate(j) ==
    /\ job[j].pc = "get"
    /\ LET i == IF temp[File(j)] = None THEN j ELSE temp[File(j)] IN
         /\ temp' = [temp EXCEPT ![File(j)] = i]
         /\ content' = [content EXCEPT ![i] = "torn"]
         /\ opener' = [opener EXCEPT ![i] = j]
         /\ job' = [job EXCEPT ![j].pc = "copy", ![j].ino = i]
    /\ UNCHANGED <<final, stops, transferOverlap, unchecked>>

\* io.Copy to the end.  The file is whole once the job that emptied it last has written all of
\* it; another writer may still spoil it.
Copy(j) ==
    /\ job[j].pc = "copy"
    /\ \E r \in {"good", "bad"} :
         content' = [content EXCEPT ![job[j].ino] =
             IF opener[job[j].ino] = j THEN r ELSE IF @ = "torn" THEN "torn" ELSE IF r = "bad" THEN "bad" ELSE @]
    /\ job' = [job EXCEPT ![j].pc = "verify", ![j].ino = None]
    /\ UNCHANGED <<temp, final, opener, stops, transferOverlap, unchecked>>

\* downloadFile fails before or within io.Copy
DownloadFailed(j) ==
    /\ job[j].pc \in {"get", "copy"}
    /\ TransferRemove(j) /\ End(j, "failed")
    /\ UNCHANGED <<final, content, opener, stops, transferOverlap, unchecked>>

TransferWhole(f) == temp[f] # None /\ content[temp[f]] = "good"

\* The hash of what the temporary path names now; no signature is looked at
TransferVerify(j) ==
    /\ job[j].pc = "verify"
    /\ IF ~job[j].sha \/ TransferWhole(File(j))
       THEN TransferGoto(j, "rename") /\ UNCHANGED temp
       ELSE TransferRemove(j) /\ End(j, "failed")
    /\ UNCHANGED <<final, content, opener, stops, transferOverlap, unchecked>>

Rename(j) ==
    /\ job[j].pc = "rename" /\ TransferRemove(j)
    /\ IF temp[File(j)] = None
       THEN End(j, "failed") /\ UNCHANGED final
       ELSE /\ final' = [final EXCEPT ![File(j)] = temp[File(j)]]
            /\ IF job[j].exec THEN TransferGoto(j, "exec") ELSE End(j, "completed")
    /\ UNCHANGED <<content, opener, stops, transferOverlap, unchecked>>

RunOnComplete(j) ==
    /\ job[j].pc = "exec"
    /\ \E status \in {"completed", "failed"} : End(j, status)
    /\ UNCHANGED <<temp, final, content, opener, stops, transferOverlap, unchecked>>

\* The agent stops, and its goroutines with it
TransferStop ==
    /\ stops < MaxStops /\ stops' = stops + 1
    /\ job' = [j \in Jobs |-> IF job[j].pc \in Busy THEN [TransferIdle EXCEPT !.pc = "lost"] ELSE job[j]]
    /\ UNCHANGED <<temp, final, content, opener, transferOverlap, unchecked>>

TransferNext ==
    \/ \E j \in Jobs :
         \/ Receive(j) \/ Preflight(j) \/ TransferCreate(j) \/ Copy(j)
         \/ DownloadFailed(j) \/ TransferVerify(j) \/ Rename(j) \/ RunOnComplete(j)
    \/ TransferStop

TransferSpec == TransferInit /\ [][TransferNext]_transferVars

-----------------------------------------------------------------------------
Delivered(f) == content[final[f]]

\* Download, check and rename (filetransfer.go:74-114): as long as no two jobs have transferred
\* a file at once, the file in the drop directory is whole, whenever the agent stops, and it is
\* the uploaded one unless a job did not ask for the SHA-256.
WholeUnlessOverlap ==
    \A f \in TransferFiles \ transferOverlap : final[f] # None =>
      Delivered(f) = "good" \/ (f \in unchecked /\ Delivered(f) = "bad")

\* Every path out of executeFileTransfer removes or renames the temporary file, also with jobs
\* that overlap: one is left behind only by an agent that stopped.
NoTempLeft ==
    \A f \in TransferFiles : Active(f) = {} /\ temp[f] # None => stops > 0

\* FILE_TRANSFER_SPEC.md:460 has the agent verify the full file: what jobs that ask for
\* the SHA-256 leave in the drop directory is the uploaded file.
DeliveredIsVerified ==
    \A f \in TransferFiles \ unchecked : final[f] # None => Delivered(f) = "good"

\* FILE_TRANSFER_SPEC.md:237: with require_signature a transfer of an unsigned file fails.
SignatureRequired ==
    \A j \in Jobs : job[j].pc = "completed" /\ job[j].sig => File(j) \in Signed

\* Transfers: a delivered file is whole unless jobs for it overlapped, and none of
\* them leaves a temporary file behind.
TransfersSafe == WholeUnlessOverlap /\ NoTempLeft

=============================================================================
