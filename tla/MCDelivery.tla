------------------------------ MODULE MCDelivery ----------------------------
(***************************************************************************)
(* How software reaches a host: enrollment, uploads to the server, the     *)
(* transfer of files to agents, releases and rollouts, update policies,    *)
(* installers, and the installation on a host.  They share no state, and   *)
(* every property is about one of them, so a behaviour explores one of     *)
(* them and leaves the others as they start.                               *)
(***************************************************************************)
EXTENDS Enrollment, FileUpload, FileTransfer, Releases, UpdatePolicies, Installers,
        Installation, TLC

CONSTANT Parts      \* the components to explore

\* those that may come to an end, where a clock or a count is at its bound or
\* every request has been made
Ending == {"enrollment", "transfer", "releases", "installation"}

ASSUME PartsAssumption == Parts \subseteq Ending \cup {"upload", "policies", "installers"}

VARIABLE part       \* the one this behaviour explores

allVars == <<part, vars, uploadVars, transferVars, relVars, policyVars, insVars, hostVars>>

MCInit ==
    /\ part \in Parts
    /\ Init /\ UploadInit /\ TransferInit /\ RelInit /\ PolicyInit /\ InsInit /\ HostInit
    \* one initial state is enough for a component that is left alone
    /\ part # "upload" => row.signed
    /\ part # "releases" => files = Binaries

MCNext ==
    \/ /\ part = "enrollment" /\ Next
       /\ UNCHANGED <<part, uploadVars, transferVars, relVars, policyVars, insVars, hostVars>>
    \/ /\ part = "upload" /\ UploadNext
       /\ UNCHANGED <<part, vars, transferVars, relVars, policyVars, insVars, hostVars>>
    \/ /\ part = "transfer" /\ TransferNext
       /\ UNCHANGED <<part, vars, uploadVars, relVars, policyVars, insVars, hostVars>>
    \/ /\ part = "releases" /\ RelNext
       /\ UNCHANGED <<part, vars, uploadVars, transferVars, policyVars, insVars, hostVars>>
    \/ /\ part = "policies" /\ PolicyNext
       /\ UNCHANGED <<part, vars, uploadVars, transferVars, relVars, insVars, hostVars>>
    \/ /\ part = "installers" /\ InsNext
       /\ UNCHANGED <<part, vars, uploadVars, transferVars, relVars, policyVars, hostVars>>
    \/ /\ part = "installation" /\ HostNext
       /\ UNCHANGED <<part, vars, uploadVars, transferVars, relVars, policyVars, insVars>>
    \/ part \in Ending /\ UNCHANGED allVars

\* requests and hosts are alike, and so are tokens, files and versions
Symmetry ==
    UNION {Permutations(s) : s \in {Hosts, Req, Requests, Jobs,
                                    Tokens, InsFiles, InsVersions}}

MCSpec == MCInit /\ [][MCNext]_allVars

-----------------------------------------------------------------------------
\* The rows, files, requests and hosts of the component that takes steps have
\* their types.
Types ==
    CASE part = "enrollment" -> TypeOK
      [] part = "upload" -> UploadTypeOK
      [] part = "transfer" -> TransferTypeOK
      [] part = "releases" -> RelTypeOK
      [] part = "policies" -> PolicyTypeOK
      [] part = "installers" -> InsTypeOK
      [] part = "installation" -> HostTypeOK
=============================================================================
