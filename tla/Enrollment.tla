----------------------------- MODULE Enrollment -----------------------------
(***************************************************************************)
(* Enrollment, from the operator's token to the files on the host:         *)
(*                                                                         *)
(*   server/api/enrollment_tokens.go, server/auth/enrollment.go            *)
(*   server/api/enroll.go, quota.CheckDevices                              *)
(*   agent/enrollment/enrollment.go and the start of runDaemon             *)
(*                                                                         *)
(* Several hosts enroll at once, possibly with one token.  The server's    *)
(* handler consumes the token, counts the devices, and then inserts the    *)
(* device, its groups and its certificate in one transaction; the agent    *)
(* writes its files one after the other and may stop in between.           *)
(***************************************************************************)
EXTENDS Naturals, Sequences, FiniteSets

CONSTANTS
    Hosts, Tokens, Groups,
    MaxDevices,     \* the tenant's device quota
    Expiry,         \* a token's lifetime
    MaxTime,
    MaxFaults       \* lost replies, failed statements and stopped agents

ASSUME EnrollmentAssumption == {MaxDevices, Expiry, MaxTime, MaxFaults} \subseteq Nat

VARIABLES
    now,
    token,      \* the rows of enrollment_tokens
    groups,     \* the groups that exist (tags and sites behave alike)
    devices,    \* the enrolled devices, each with its certificate
    file,       \* the files of each host, by the device they belong to
    tokenFile,  \* the enrollment token on each host
    agent,      \* where each agent is
    req,        \* the enrollment request of each host
    overlap,    \* whether two requests were ever past their token at once
    faults

vars == <<now, token, groups, devices, file, tokenFile, agent, req, overlap, faults>>
operatorVars == <<now, token, groups>>

NoToken == "none"
Idle == [pc |-> "idle", tok |-> NoToken, dev |-> 0]

\* SaveCredentials writes the files in this order, and removes the token last
Files == {"cert", "key", "ca", "id"}
After == [cert |-> "key", key |-> "ca", ca |-> "id", id |-> "token"]

\* Tokens, devices, files and requests have their types.
TypeOK ==
    /\ now \in 0..MaxTime /\ faults \in 0..MaxFaults /\ groups \subseteq Groups
    /\ token \in [Tokens -> [st : {"none", "unused", "used", "deleted", "reaped"},
                             exp : 0..(MaxTime + Expiry), scope : SUBSET Groups]]
    /\ devices \in Seq([tok : Tokens, groups : SUBSET Groups])
    /\ file \in [Hosts -> [Files -> 0..Len(devices)]]
    /\ tokenFile \in [Hosts -> Tokens \cup {NoToken}]
    /\ agent \in [Hosts -> {"down", "waiting", "token", "up"} \cup Files]
    /\ req \in [Hosts -> [pc : {"idle", "consume", "quota", "commit", "ok", "refused"},
                          tok : Tokens \cup {NoToken}, dev : 0..Len(devices)]]
    /\ overlap \in BOOLEAN

Init ==
    /\ now = 0 /\ faults = 0 /\ groups = Groups /\ devices = <<>> /\ overlap = FALSE
    /\ token = [t \in Tokens |-> [st |-> "none", exp |-> 0, scope |-> {}]]
    /\ file = [h \in Hosts |-> [f \in Files |-> 0]]
    /\ tokenFile = [h \in Hosts |-> NoToken]
    /\ agent = [h \in Hosts |-> "down"]
    /\ req = [h \in Hosts |-> Idle]

Fault == faults < MaxFaults /\ faults' = faults + 1

-----------------------------------------------------------------------------
(* Tokens *)

\* Create: the scope names groups of the tenant (ValidateScopeTenant)
Create(t) ==
    /\ token[t].st = "none"
    /\ \E s \in SUBSET groups :
         token' = [token EXCEPT ![t] = [st |-> "unused", exp |-> now + Expiry, scope |-> s]]
    /\ UNCHANGED <<now, groups, devices, file, tokenFile, agent, req, overlap, faults>>

Delete(t) ==
    /\ token[t].st \in {"unused", "used"}
    /\ token' = [token EXCEPT ![t].st = "deleted"]
    /\ UNCHANGED <<now, groups, devices, file, tokenFile, agent, req, overlap, faults>>

\* the tokens reapExpiredEnrollmentTokens deletes
Reaped == {t \in Tokens : token[t].st = "unused" /\ token[t].exp < now}

reapExpiredEnrollmentTokens ==
    /\ Reaped # {}
    /\ token' = [t \in Tokens |-> IF t \in Reaped THEN [token[t] EXCEPT !.st = "reaped"]
                                                  ELSE token[t]]
    /\ UNCHANGED <<now, groups, devices, file, tokenFile, agent, req, overlap, faults>>

\* the WHERE clause of Peek and of ValidateAndConsume
Valid(t) == token[t].st = "unused" /\ token[t].exp > now

\* A group is deleted, and with it the memberships; token scopes still name it
DeleteGroup(g) ==
    /\ g \in groups
    /\ groups' = groups \ {g}
    /\ devices' = [i \in 1..Len(devices) |-> [devices[i] EXCEPT !.groups = @ \ {g}]]
    /\ UNCHANGED <<now, token, file, tokenFile, agent, req, overlap, faults>>

Tick ==
    /\ now < MaxTime /\ now' = now + 1
    /\ UNCHANGED <<token, groups, devices, file, tokenFile, agent, req, overlap, faults>>

-----------------------------------------------------------------------------
(* The agent *)

\* The install script is served for a token Peek accepts, and leaves it on the host
Install(h, t) ==
    /\ Valid(t) /\ agent[h] = "down" /\ file[h].id = 0
    /\ tokenFile[h] # t
    /\ tokenFile' = [tokenFile EXCEPT ![h] = t]
    /\ UNCHANGED <<operatorVars, devices, file, agent, req, overlap, faults>>

\* runDaemon of a host without an agent_id: Enroll posts the request
Enroll(h) ==
    /\ agent[h] = "down" /\ file[h].id = 0 /\ tokenFile[h] # NoToken
    /\ req[h].pc = "idle"
    /\ agent' = [agent EXCEPT ![h] = "waiting"]
    /\ req' = [req EXCEPT ![h] = [pc |-> "consume", tok |-> tokenFile[h], dev |-> 0]]
    /\ UNCHANGED <<operatorVars, devices, file, tokenFile, overlap, faults>>

\* The reply reaches Enroll: the credentials are to be saved, or runDaemon fails
Reply(h) ==
    /\ req[h].pc \in {"ok", "refused"} /\ agent[h] = "waiting"
    /\ agent' = [agent EXCEPT ![h] = IF req[h].pc = "ok" THEN "cert" ELSE "down"]
    /\ req' = IF req[h].pc = "ok" THEN req ELSE [req EXCEPT ![h] = Idle]
    /\ UNCHANGED <<operatorVars, devices, file, tokenFile, overlap, faults>>

\* SaveCredentials: the next file is written
Save(h) ==
    /\ agent[h] \in Files
    /\ file' = [file EXCEPT ![h][agent[h]] = req[h].dev]
    /\ agent' = [agent EXCEPT ![h] = After[@]]
    /\ UNCHANGED <<operatorVars, devices, tokenFile, req, overlap, faults>>

\* SaveCredentials: the token is removed, and runDaemon goes on
RemoveToken(h) ==
    /\ agent[h] = "token"
    /\ tokenFile' = [tokenFile EXCEPT ![h] = NoToken]
    /\ agent' = [agent EXCEPT ![h] = "up"]
    /\ req' = [req EXCEPT ![h] = Idle]
    /\ UNCHANGED <<operatorVars, devices, file, overlap, faults>>

\* runDaemon of a host with an agent_id loads certificate, key and CA
Start(h) ==
    /\ agent[h] = "down" /\ file[h].id # 0
    /\ agent' = [agent EXCEPT ![h] = "up"]
    /\ UNCHANGED <<operatorVars, devices, file, tokenFile, req, overlap, faults>>

\* The agent stops; a file that is being written may be left empty.  Its request
\* is cancelled, or its answer is lost.
Stop(h) ==
    /\ agent[h] # "down" /\ Fault
    /\ agent' = [agent EXCEPT ![h] = "down"]
    /\ req' = [req EXCEPT ![h] = Idle]
    /\ \/ UNCHANGED file
       \/ agent[h] \in Files /\ file' = [file EXCEPT ![h][agent[h]] = 0]
    /\ UNCHANGED <<operatorVars, devices, tokenFile, overlap>>

-----------------------------------------------------------------------------
(* POST /v1/agents/enroll *)

Goto(h, p) == req' = [req EXCEPT ![h].pc = p]

ValidateAndConsumeReused(h) ==
    /\ req[h].pc = "consume"
    /\ LET t == req[h].tok
           ok == token[t].st \in {"unused", "used"} /\ token[t].exp > now IN
       /\ token' = IF ok THEN [token EXCEPT ![t].st = "used"] ELSE token
       /\ Goto(h, IF ok THEN "quota" ELSE "refused")
    /\ overlap' = (overlap \/ \E k \in Hosts \ {h} : req[k].pc \in {"quota", "commit"})
    /\ UNCHANGED <<now, groups, devices, file, tokenFile, agent, faults>>

\* One UPDATE ... RETURNING marks the token used
ValidateAndConsume(h) ==
    /\ req[h].pc = "consume"
    /\ LET t == req[h].tok IN
       /\ token' = IF Valid(t) THEN [token EXCEPT ![t].st = "used"] ELSE token
       /\ Goto(h, IF Valid(t) THEN "quota" ELSE "refused")
    /\ overlap' = (overlap \/ \E k \in Hosts \ {h} : req[k].pc \in {"quota", "commit"})
    /\ UNCHANGED <<now, groups, devices, file, tokenFile, agent, faults>>

\* The tenant's count, with this device, is over the limit
Full == Len(devices) + 1 > MaxDevices

CheckDevices(h) ==
    /\ req[h].pc = "quota"
    /\ Goto(h, IF Full THEN "refused" ELSE "commit")
    /\ UNCHANGED <<operatorVars, devices, file, tokenFile, agent, overlap, faults>>

\* applyScope: every group of the token's scope still exists in the tenant
applyScope(h) == token[req[h].tok].scope \subseteq groups

\* The transaction: device, memberships and certificate, or nothing of them
Commit(h) ==
    /\ req[h].pc = "commit"
    /\ IF applyScope(h)
       THEN /\ devices' = Append(devices, [tok |-> req[h].tok,
                                           groups |-> token[req[h].tok].scope \cap groups])
            /\ req' = [req EXCEPT ![h].pc = "ok", ![h].dev = Len(devices) + 1]
       ELSE Goto(h, "refused") /\ UNCHANGED devices
    /\ UNCHANGED <<operatorVars, file, tokenFile, agent, overlap, faults>>

\* A statement fails, or the CSR is refused: the transaction is rolled back
Fail(h) ==
    /\ req[h].pc \in {"quota", "commit"} /\ Fault
    /\ Goto(h, "refused")
    /\ UNCHANGED <<operatorVars, devices, file, tokenFile, agent, overlap>>

-----------------------------------------------------------------------------
Next ==
    \/ \E t \in Tokens : Create(t) \/ Delete(t)
    \/ \E g \in Groups : DeleteGroup(g)
    \/ reapExpiredEnrollmentTokens \/ Tick
    \/ \E h \in Hosts, t \in Tokens : Install(h, t)
    \/ \E h \in Hosts : \/ Enroll(h) \/ Reply(h) \/ Save(h) \/ RemoveToken(h)
                        \/ Start(h) \/ Stop(h)
                        \/ ValidateAndConsume(h) \/ CheckDevices(h)
                        \/ Commit(h) \/ Fail(h)

Spec == Init /\ [][Next]_vars

-----------------------------------------------------------------------------
(* Properties *)

\* A token enrolls at most one device, however many hosts present it at once
\* and however often an agent that was stopped presents it again.
OneDevicePerToken ==
    \A i, j \in 1..Len(devices) : devices[i].tok = devices[j].tok => i = j

\* A device is never enrolled into a part of its token's scope: when a group of
\* the scope was deleted after the token was created, the enrollment rolls back.
NeverHalfScoped ==
    [][\A i \in 1..Len(devices') \ 1..Len(devices) :
          devices'[i].groups = token[devices'[i].tok].scope]_vars

\* An agent_id on disk means a complete identity: the certificate, key and CA
\* next to it belong to the same device.  A host that was stopped while the
\* files were written enrolls again instead of failing to load them.
IdMeansComplete ==
    \A h \in Hosts : file[h].id # 0 => \A f \in DOMAIN file[h] : file[h][f] = file[h].id

\* The device quota is exceeded only by enrollments that were in the handler at
\* the same time, as the handler's comment says.
QuotaUnlessOverlap == Len(devices) > MaxDevices => overlap

\* The reaper never removes the token of a device: used tokens are kept.
UsedTokensAreKept == \A i \in 1..Len(devices) : token[devices[i].tok].st # "reaped"

\* A token is used up by a successful enrollment only
\* (docs/AGENT_AUTH_SPEC.md:61): a used token has a device or a request on the way.
UsedIsEnrolled ==
    \A t \in Tokens : token[t].st = "used" =>
        \/ \E i \in 1..Len(devices) : devices[i].tok = t
        \/ \E h \in Hosts : req[h].tok = t /\ req[h].pc # "refused"

\* Enrollment: a token makes one device and stays, an identity on disk is complete,
\* the quota holds unless requests overlap, and a scope is applied whole.
EnrollmentSound ==
    /\ [](OneDevicePerToken /\ IdMeansComplete /\ QuotaUnlessOverlap /\ UsedTokensAreKept)
    /\ NeverHalfScoped

=============================================================================
