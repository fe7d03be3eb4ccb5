------------------------------- MODULE MCAgent ------------------------------
(***************************************************************************)
(* The agent: its certificate, its CDM state, the local sessions, the      *)
(* certificates of its web UI, its updates, its socket and its inventory,  *)
(* each with the part of the server it talks to.  They share no state, and *)
(* every property is about one of them, so a behaviour explores one of     *)
(* them and leaves the others as they start.                               *)
(***************************************************************************)
EXTENDS Certificates, Cdm, LocalAccess, LocalCA, AgentUpdate, Ipc, Inventory

CONSTANT Parts      \* the components to explore

\* those that may come to an end, where a clock or a count is at its bound
Ending == {"certificates", "cdm", "webcert", "update", "ipc"}

ASSUME PartsAssumption == Parts \subseteq Ending \cup {"sessions", "inventory"}

VARIABLE part       \* the one this behaviour explores

allVars == <<part, vars, cdmVars, localVars, webVars, updVars, ipcVars, invVars>>

MCInit ==
    /\ part \in Parts
    /\ Init /\ CdmInit /\ LocalInit /\ WebInit /\ UpdInit /\ IpcInit /\ InvInit
    \* one package is there at first, which one is all the same
    /\ host = [Empty EXCEPT ![CHOOSE p \in Packages : TRUE] = CHOOSE v \in Versions : TRUE]

MCNext ==
    \/ /\ part = "certificates" /\ Next
       /\ UNCHANGED <<part, cdmVars, localVars, webVars, updVars, ipcVars, invVars>>
    \/ /\ part = "cdm" /\ CdmNext
       /\ UNCHANGED <<part, vars, localVars, webVars, updVars, ipcVars, invVars>>
    \/ /\ part = "sessions" /\ LocalNext
       /\ UNCHANGED <<part, vars, cdmVars, webVars, updVars, ipcVars, invVars>>
    \/ /\ part = "webcert" /\ WebNext
       /\ UNCHANGED <<part, vars, cdmVars, localVars, updVars, ipcVars, invVars>>
    \/ /\ part = "update" /\ UpdNext
       /\ UNCHANGED <<part, vars, cdmVars, localVars, webVars, ipcVars, invVars>>
    \/ /\ part = "ipc" /\ IpcNext
       /\ UNCHANGED <<part, vars, cdmVars, localVars, webVars, updVars, invVars>>
    \/ /\ part = "inventory" /\ InvNext
       /\ UNCHANGED <<part, vars, cdmVars, localVars, webVars, updVars, ipcVars>>
    \/ part \in Ending /\ UNCHANGED allVars

\* the fairness of the components
MCSpec ==
    /\ MCInit /\ [][MCNext]_allVars
    /\ WF_cdmVars(part = "cdm" /\ CdmTick)
    /\ WF_cdmVars(part = "cdm" /\ Snapshot)
    /\ WF_cdmVars(part = "cdm" /\ CdmStart)
    /\ WF_localVars(part = "sessions" /\ Cleanup)
    /\ WF_updVars(part = "update" /\ UpdStart)
    /\ \A j \in Jobs : WF_updVars(part = "update" /\ JobStep(j))
    /\ WF_ipcVars(part = "ipc" /\ ServeStep)
    /\ WF_ipcVars(part = "ipc" /\ CloseListener)
    /\ \A c \in Clients : /\ WF_ipcVars(part = "ipc" /\ HandlerStep(c))
                          /\ WF_ipcVars(part = "ipc" /\ CloseConn(c))
    /\ \A k \in Callers : WF_ipcVars(part = "ipc" /\ CallStep(k))

-----------------------------------------------------------------------------
\* The files, rows, sessions and connections of the component that takes steps
\* have their types.
Types ==
    CASE part = "certificates" -> TypeOK
      [] part = "cdm" -> CdmTypeOK
      [] part = "sessions" -> LocalTypeOK
      [] part = "webcert" -> WebTypeOK
      [] part = "update" -> UpdTypeOK
      [] part = "ipc" -> IpcTypeOK
      [] part = "inventory" -> InvTypeOK

\* What the agent has begun comes to an end: a CDM session after its deadline, a
\* local session nobody uses, an update job, Serve after its cancellation and every
\* call (cdm.Manager, cleanupLoop, Agent.Update, Server.Serve, Client.call).
AgentProgress == SessionsEnd /\ DeadSessionsGo /\ JobsEnd /\ ServeReturns /\ CallReturns
=============================================================================
