----------------------------- MODULE Installers -----------------------------
(***************************************************************************)
(* How an agent gets onto a machine: the registry of installers and of     *)
(* signing keys (server/api/installers.go, signingkeys.go) and the install *)
(* script the server generates (install_script.go), which fetches one      *)
(* version, its checksum and its signature in three requests and then runs *)
(* it.  Releases, deletions of keys and the end of the enrollment token    *)
(* happen between the requests.                                            *)
(***************************************************************************)
EXTENDS Sequences, Functions

CONSTANTS
    InsFiles,              \* uploaded files, which stand for their contents
    Keys,               \* signing keys
    Verdicts,           \* whether a signature given to Create verifies: a subset of BOOLEAN
    InsVersions,           \* versions of installers, for one platform and channel
    InsRequests,           \* POST /v1/installers and DELETE /v1/signing-keys
    Machines            \* machines that run the script

ASSUME InstallersAssumption ==
    /\ "none" \notin InsFiles \cup Keys /\ "garbled" \notin InsFiles
    /\ Verdicts \subseteq BOOLEAN

VARIABLES
    keys,               \* signing_keys
    insFiles,              \* file -> its record: the state of the upload, signature_key_id
    installers,         \* version -> row
    released,           \* versions by released_at
    insToken,              \* the enrollment token: "live" or "gone"
    insReq, run,
    apikey              \* answer to the last download with a live API key

insVars == <<keys, insFiles, installers, released, insToken, insReq, run, apikey>>

NoFile == [state |-> "none", key |-> "none"]
NoRow == [file |-> "none", sha256 |-> "none", key |-> "none", valid |-> FALSE]
Row == [file : InsFiles, sha256 : InsFiles, key : Keys, valid : Verdicts]
InsIdle == [pc |-> "idle", v |-> "none", row |-> NoRow, key |-> "none"]
Fresh == [pc |-> "idle", v |-> "none", expected |-> "none", got |-> "none"]
Garbled == "garbled"

\* Rows, requests and scripts have their types.
InsTypeOK ==
    /\ keys \subseteq Keys 
    /\ insFiles \in [InsFiles -> [state : {"none", "pending", "stored"}, key : Keys \cup {"none"}]]
    /\ installers \in [InsVersions -> Row \cup {NoRow}]
    /\ released \in Seq(InsVersions) /\ IsInjective(released)
    /\ insToken \in {"live", "gone"} /\ apikey \in {"none", "served", "refused"}
    /\ \A r \in InsRequests : insReq[r].pc \in {"idle", "insert", "delete"}
    /\ \A m \in Machines : /\ run[m].pc \in {"idle", "script", "checksum", "signature", "verify", "run",
                                             "installed", "failed"}
                           /\ run[m].got \in InsFiles \cup {"none", Garbled}

InsInit ==
    /\ keys = Keys /\ insFiles = [f \in InsFiles |-> NoFile] /\ installers = [v \in InsVersions |-> NoRow]
    /\ released = <<>> /\ insToken = "live"
    /\ insReq = [r \in InsRequests |-> InsIdle] /\ run = [m \in Machines |-> Fresh]
    /\ apikey = "none"

-----------------------------------------------------------------------------
(* Signing keys and uploads.                                               *)

\* A row that refers to the key.
References(k) == (\E f \in InsFiles : insFiles[f].key = k) \/ (\E v \in InsVersions : installers[v].key = k)

\* The record of a file exists from the start of its upload ...
InitUpload(f, k) ==
    /\ insFiles[f] = NoFile /\ k \in keys \cup {"none"}
    /\ insFiles' = [insFiles EXCEPT ![f] = [state |-> "pending", key |-> k]]
    /\ UNCHANGED <<keys, installers, released, insToken, insReq, run, apikey>>

\* ... and its contents from the end.
CompleteUpload(f) ==
    /\ insFiles[f].state = "pending" /\ insFiles' = [insFiles EXCEPT ![f].state = "stored"]
    /\ UNCHANGED <<keys, installers, released, insToken, insReq, run, apikey>>

\* The DELETE of a record fails when an installer refers to it.
DeleteFile(f) ==
    /\ insFiles[f] # NoFile /\ \A v \in InsVersions : installers[v].file # f
    /\ insFiles' = [insFiles EXCEPT ![f] = NoFile]
    /\ UNCHANGED <<keys, installers, released, insToken, insReq, run, apikey>>

CreateKey(k) ==
    /\ k \notin keys /\ keys' = keys \cup {k}
    /\ UNCHANGED <<insFiles, installers, released, insToken, insReq, run, apikey>>

\* Delete: the count of files with the key ...
CountFiles(r, k) ==
    /\ insReq[r].pc = "idle" /\ k \in keys /\ ~\E f \in InsFiles : insFiles[f].key = k
    /\ insReq' = [insReq EXCEPT ![r] = [InsIdle EXCEPT !.pc = "delete", !.key = k]]
    /\ UNCHANGED <<keys, insFiles, installers, released, insToken, run, apikey>>

\* ... and the DELETE, which the references of other tables fail.
TrustTheCount(r) ==
    /\ insReq[r].pc = "delete" /\ insReq' = [insReq EXCEPT ![r] = InsIdle]
    /\ keys' = keys \ {insReq[r].key}
    /\ UNCHANGED <<insFiles, installers, released, insToken, run, apikey>>
DeleteKey(r) ==
    /\ insReq[r].pc = "delete" /\ insReq' = [insReq EXCEPT ![r] = InsIdle]
    /\ keys' = IF References(insReq[r].key) THEN keys ELSE keys \ {insReq[r].key}
    /\ UNCHANGED <<insFiles, installers, released, insToken, run, apikey>>

-----------------------------------------------------------------------------
(* POST /v1/installers: the checksum and the signature are taken as given. *)

InsCreate(r, v, row) ==
    /\ insReq[r].pc = "idle" /\ insFiles[row.file] # NoFile /\ row.key \in keys
    /\ insReq' = [insReq EXCEPT ![r] = [InsIdle EXCEPT !.pc = "insert", !.v = v, !.row = row]]
    /\ UNCHANGED <<keys, insFiles, installers, released, insToken, run, apikey>>

\* The INSERT fails on a second row for the version, and without the file or the key.
Refers(row) == row.key \in keys /\ insFiles[row.file] # NoFile
Insert(r) ==
    /\ insReq[r].pc = "insert" /\ insReq' = [insReq EXCEPT ![r] = InsIdle]
    /\ IF installers[insReq[r].v] # NoRow \/ ~Refers(insReq[r].row)
       THEN UNCHANGED <<installers, released>>
       ELSE /\ installers' = [installers EXCEPT ![insReq[r].v] = insReq[r].row]
            /\ released' = Append(released, insReq[r].v)
    /\ UNCHANGED <<keys, insFiles, insToken, run, apikey>>

-----------------------------------------------------------------------------
(* Downloads.                                                              *)

\* The token is used, revoked or expired.
TokenEnds ==
    /\ insToken = "live" /\ insToken' = "gone"
    /\ UNCHANGED <<keys, insFiles, installers, released, insReq, run, apikey>>

\* checkInstallerAuth.  The query for an API key names a column revoked_at
\* that api_keys does not have, so it fails and the key is tried as a token.
checkInstallerAuth(credential) == credential = "token" /\ insToken = "live"

\* serveFile: the installer arrives, whole or garbled, once it is stored.
serveFile(f) == IF insFiles[f].state = "stored" THEN {f, Garbled} ELSE {}
lookupInstaller(v) == installers[v]
latestInstaller == released[Len(released)]

\* GET /v1/installers/{os}/{arch}/latest by an operator with a live API key.
DownloadLatest ==
    /\ released # <<>> /\ serveFile(lookupInstaller(latestInstaller).file) # {}
    /\ apikey' = IF checkInstallerAuth("apikey") THEN "served" ELSE "refused"
    /\ UNCHANGED <<keys, insFiles, installers, released, insToken, insReq, run>>

Step(m, from, rec) ==
    /\ run[m].pc = from /\ run' = [run EXCEPT ![m] = rec]
    /\ UNCHANGED <<keys, insFiles, installers, released, insToken, insReq, apikey>>

\* ServeInstallScript: the script for the latest version.
ServeInstallScript(m) ==
    /\ checkInstallerAuth("token") /\ released # <<>>
    /\ LET v == latestInstaller
       IN  Step(m, "idle", [Fresh EXCEPT !.pc = "script", !.v = v, !.expected = installers[v].sha256])

\* A request of the script is refused or breaks: curl -f and set -e end it.
Abort(m) ==
    /\ run[m].pc \in {"script", "checksum", "signature"}
    /\ Step(m, run[m].pc, [Fresh EXCEPT !.pc = "failed"])

\* The installer arrives.
InsDownload(m) ==
    /\ run[m].pc = "script" /\ checkInstallerAuth("token")
    /\ \E c \in serveFile(lookupInstaller(run[m].v).file) :
           Step(m, "script", [run[m] EXCEPT !.pc = "checksum", !.got = c])

Checksum(m) == checkInstallerAuth("token") /\ Step(m, "checksum", [run[m] EXCEPT !.pc = "signature"])
Signature(m) == checkInstallerAuth("token") /\ Step(m, "signature", [run[m] EXCEPT !.pc = "verify"])

\* The digest of what has arrived is compared with the one in the script.
InsVerify(m) == Step(m, "verify", IF run[m].got = run[m].expected THEN [run[m] EXCEPT !.pc = "run"]
                                                              ELSE [Fresh EXCEPT !.pc = "failed"])

InsInstall(m) == Step(m, "run", [run[m] EXCEPT !.pc = "installed"])

\* The operator runs the command again.
Again(m) == Step(m, "failed", Fresh)

InsNext ==
    \/ \E f \in InsFiles : \/ \E k \in Keys \cup {"none"} : InitUpload(f, k)
                           \/ CompleteUpload(f) \/ DeleteFile(f)
    \/ \E k \in Keys : CreateKey(k)
    \/ \E r \in InsRequests : \/ \E k \in Keys : CountFiles(r, k)
                              \/ DeleteKey(r) \/ Insert(r)
                              \/ \E v \in InsVersions, row \in Row : InsCreate(r, v, row)
    \/ TokenEnds \/ DownloadLatest
    \/ \E m \in Machines : \/ ServeInstallScript(m) \/ Abort(m) \/ InsDownload(m) \/ Checksum(m)
                           \/ Signature(m) \/ InsVerify(m) \/ InsInstall(m) \/ Again(m)

InsSpec == InsInit /\ [][InsNext]_insVars

-----------------------------------------------------------------------------
\* What the script runs is what was released as the version the script names,
\* whatever arrives and whatever is released meanwhile.
InstalledAsReleased ==
    \A m \in Machines : run[m].pc \in {"run", "installed"} =>
        /\ run[m].got = installers[run[m].v].sha256
        /\ run[m].got = installers[run[m].v].file

\* The key of an installer and of an uploaded file stays registered, although
\* Delete counts only files, and counts them before it deletes.
KeysStay == \A k \in Keys : References(k) => k \in keys

\* The file of a registered installer is not deleted, and the row of an
\* installer never changes, so that a script made for it stays good.
RegisteredStays ==
    [][\A v \in InsVersions : installers[v] # NoRow =>
          installers'[v] = installers[v] /\ insFiles'[installers[v].file] # NoFile]_insVars

\* The installer binary is uploaded when the installer is registered.
RegisteredIsUploaded ==
    \A v \in InsVersions : installers[v] # NoRow => insFiles[installers[v].file].state = "stored"

\* Both checks pass before the installer is executed: a signature that does
\* not verify stops the script.
InstalledIsSigned ==
    \A m \in Machines : run[m].pc = "installed" => installers[run[m].v].valid

\* A valid API key is accepted for downloads.
ApiKeyIsAccepted == apikey # "refused"

\* Installers: a machine runs what was released, keys in use stay, and a registered
\* installer neither changes nor loses its file.
InstallersSound == [](InstalledAsReleased /\ KeysStay) /\ RegisteredStays

=============================================================================
