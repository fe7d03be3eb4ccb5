------------------------------ MODULE ServerProofs ------------------------------
(***************************************************************************)
(* Theorems about what the server answers.  Enrollment, for any number of  *)
(* hosts, tokens and groups and any quota: a token enrolls at most one     *)
(* device, the scope of a token is applied whole, an agent_id on a host    *)
(* stands for a complete identity, and the quota is exceeded only by       *)
(* requests that overlap.  Paged lists, for any table and limits: what it  *)
(* takes for a walk over the pages to miss a row or to repeat one.         *)
(***************************************************************************)
EXTENDS Enrollment, Pagination, FiniteSetTheorems, WellFoundedInduction, TLAPS

-----------------------------------------------------------------------------
(* Enrollment *)

Device == [tok : Tokens, groups : SUBSET Groups]

\* The request of h has used up its token and is not answered yet.
Past(h) == req[h].pc \in {"quota", "commit"}

Spent(t) == token[t].st \in {"used", "deleted"}

\* What the handler knows between its statements: the token it consumed is
\* spent, nobody else holds it, and no device has it yet.
TokenInv ==
    /\ \A h \in Hosts : req[h].pc \in {"consume", "quota", "commit"} => req[h].tok \in Tokens
    /\ \A h \in Hosts : Past(h) => Spent(req[h].tok)
    /\ \A h, k \in Hosts : Past(h) /\ Past(k) /\ req[h].tok = req[k].tok => h = k
    /\ \A h \in Hosts : Past(h) => \A i \in 1..Len(devices) : devices[i].tok # req[h].tok
    /\ \A i \in 1..Len(devices) : Spent(devices[i].tok)
    /\ OneDevicePerToken

-----------------------------------------------------------------------------
(* Sequences *)

\* A sequence is a function on 1..Len.
LEMMA LenProperties ==
    ASSUME NEW S, NEW s \in Seq(S)
    PROVE  Len(s) \in Nat /\ s \in [1..Len(s) -> S] /\ DOMAIN s = 1..Len(s)
  OBVIOUS

\* Its elements are of its set.
LEMMA ElementOfSeq ==
    ASSUME NEW S, NEW s \in Seq(S), NEW i \in 1..Len(s)
    PROVE  s[i] \in S
  OBVIOUS

\* A function on 1..n is a sequence.
LEMMA SeqDef ==
    ASSUME NEW S, NEW n \in Nat, NEW s \in [1..n -> S]
    PROVE  s \in Seq(S)
  OBVIOUS

-----------------------------------------------------------------------------
(* Types *)

PCs == {"idle", "consume", "quota", "commit", "ok", "refused"}
Agents == {"down", "waiting", "token", "up"} \cup Files
Request(n) == [pc : PCs, tok : Tokens \cup {NoToken}, dev : 0..n]
TokenRow == [st : {"none", "unused", "used", "deleted", "reaped"},
             exp : 0..(MaxTime + Expiry), scope : SUBSET Groups]

\* TypeOK by its parts.
LEMMA TypeParts ==
    TypeOK <=> /\ now \in 0..MaxTime /\ faults \in 0..MaxFaults /\ groups \subseteq Groups
               /\ token \in [Tokens -> TokenRow] /\ devices \in Seq(Device)
               /\ file \in [Hosts -> [Files -> 0..Len(devices)]]
               /\ tokenFile \in [Hosts -> Tokens \cup {NoToken}]
               /\ agent \in [Hosts -> Agents] /\ req \in [Hosts -> Request(Len(devices))]
               /\ overlap \in BOOLEAN
  BY Zenon DEF TypeOK, TokenRow, Device, Agents, Request, PCs

\* Every device has a token and groups.
LEMMA DeviceTypes ==
    ASSUME TypeOK
    PROVE  Len(devices) \in Nat /\ \A i \in 1..Len(devices) : devices[i] \in Device /\ devices[i].tok \in Tokens
  <1>1. devices \in Seq(Device) /\ Len(devices) \in Nat
    BY TypeParts, LenProperties, Zenon
  <1>2. \A i \in 1..Len(devices) : devices[i] \in Device
    BY <1>1, ElementOfSeq, Zenon
  <1>3. \A d \in Device : d.tok \in Tokens
    BY Zenon DEF Device
  <1> QED BY <1>1, <1>2, <1>3, Zenon

\* What becomes of one request, and what the others keep.
LEMMA GotoTypes ==
    ASSUME NEW n \in Nat, req \in [Hosts -> Request(n)], NEW h \in Hosts, NEW p \in PCs, Goto(h, p)
    PROVE  /\ req' \in [Hosts -> Request(n)]
           /\ req'[h].pc = p /\ req'[h].tok = req[h].tok /\ req'[h].dev = req[h].dev
           /\ \A k \in Hosts : k # h => req'[k] = req[k]
  BY Zenon DEF Goto, Request

\* A token row whose status changes.
LEMMA TokenMoves ==
    ASSUME token \in [Tokens -> TokenRow], NEW t \in Tokens,
           NEW s \in {"none", "unused", "used", "deleted", "reaped"}
    PROVE  [token[t] EXCEPT !.st = s] \in TokenRow /\ [token EXCEPT ![t].st = s] \in [Tokens -> TokenRow]
  <1>1. [token[t] EXCEPT !.st = s] \in TokenRow
    BY Zenon DEF TokenRow
  <1>2. [token EXCEPT ![t].st = s] = [token EXCEPT ![t] = [token[t] EXCEPT !.st = s]]
    BY Zenon
  <1> HIDE DEF TokenRow
  <1> QED BY <1>1, <1>2, Zenon

\* The request of a host that is not enrolling.
LEMMA IdleTypes == \A n \in Nat : Idle \in Request(n) /\ Idle.pc = "idle"
  BY DEF Idle, Request, PCs

\* The request of a host whose transaction committed.
LEMMA Granted ==
    ASSUME NEW n, NEW r \in Request(n), NEW m
    PROVE  [r EXCEPT !.pc = "ok", !.dev = m] = [pc |-> "ok", tok |-> r.tok, dev |-> m]
  <1>1. [r EXCEPT !.pc = "ok"] = [pc |-> "ok", tok |-> r.tok, dev |-> r.dev]
    BY DEF Request
  <1>2. [[pc |-> "ok", tok |-> r.tok, dev |-> r.dev] EXCEPT !.dev = m]
          = [pc |-> "ok", tok |-> r.tok, dev |-> m]
    OBVIOUS
  <1> QED BY <1>1, <1>2, Zenon

\* The effect of a transaction that commits.
LEMMA CommitTypes ==
    ASSUME TypeOK, NEW h \in Hosts, Commit(h), applyScope(h), req[h].tok \in Tokens
    PROVE  /\ devices' \in Seq(Device) /\ Len(devices') = Len(devices) + 1
           /\ \A i \in 1..Len(devices) : devices'[i] = devices[i]
           /\ devices'[Len(devices) + 1] = [tok |-> req[h].tok, groups |-> token[req[h].tok].scope \cap groups]
           /\ req' \in [Hosts -> Request(Len(devices) + 1)]
           /\ req'[h].pc = "ok" /\ req'[h].tok = req[h].tok /\ req'[h].dev = Len(devices) + 1
           /\ \A k \in Hosts : k # h => req'[k] = req[k]
  <1> DEFINE d == [tok |-> req[h].tok, groups |-> token[req[h].tok].scope \cap groups]
             n == Len(devices)
  <1>1. d \in Device
    BY TypeParts, Zenon DEF Device
  <1>2. devices \in Seq(Device) /\ n \in Nat /\ req \in [Hosts -> Request(n)]
    BY TypeParts, LenProperties, Zenon
  <1>3. devices' = Append(devices, d)
    BY Zenon DEF Commit
  <1> HIDE DEF d
  <1>4. /\ devices' \in Seq(Device) /\ Len(devices') = n + 1
        /\ \A i \in 1..n : devices'[i] = devices[i]
        /\ devices'[n + 1] = d
    BY <1>1, <1>2, <1>3
  <1>5. req' = [req EXCEPT ![h] = [req[h] EXCEPT !.pc = "ok", !.dev = n + 1]]
    BY Zenon DEF Commit
  <1> HIDE DEF n
  <1>6. req[h] \in Request(n) /\ \A k \in Hosts : req[k] \in Request(n)
    BY <1>2, Zenon
  <1>7. /\ [req[h] EXCEPT !.pc = "ok", !.dev = n + 1] \in Request(n + 1)
        /\ [req[h] EXCEPT !.pc = "ok", !.dev = n + 1].pc = "ok"
        /\ [req[h] EXCEPT !.pc = "ok", !.dev = n + 1].tok = req[h].tok
        /\ [req[h] EXCEPT !.pc = "ok", !.dev = n + 1].dev = n + 1
    <2>1. [req[h] EXCEPT !.pc = "ok", !.dev = n + 1] = [pc |-> "ok", tok |-> req[h].tok, dev |-> n + 1]
      BY <1>6, Granted, Zenon
    <2>2. n + 1 \in 0..n + 1 /\ req[h].tok \in Tokens \cup {NoToken} /\ "ok" \in PCs
      BY <1>2, <1>6 DEF Request, PCs
    <2>3. [pc |-> "ok", tok |-> req[h].tok, dev |-> n + 1] \in Request(n + 1)
      BY <2>2, Zenon DEF Request
    <2> QED BY <2>1, <2>3, Zenon
  <1>8. Request(n) \subseteq Request(n + 1)
    BY <1>2 DEF Request
  <1>9. /\ req' \in [Hosts -> Request(n + 1)]
        /\ req'[h] = [req[h] EXCEPT !.pc = "ok", !.dev = n + 1]
        /\ \A k \in Hosts : k # h => req'[k] = req[k]
    BY <1>2, <1>5, <1>6, <1>7, <1>8, Zenon
  <1> QED BY <1>4, <1>7, <1>9, Zenon DEF d, n

\* Deleting a group leaves the devices and their tokens.
LEMMA DeleteGroupTypes ==
    ASSUME TypeOK, NEW g \in Groups, DeleteGroup(g)
    PROVE  /\ devices' \in Seq(Device) /\ Len(devices') = Len(devices)
           /\ \A i \in 1..Len(devices) : devices'[i].tok = devices[i].tok
  <1> DEFINE n == Len(devices)
  <1>1. devices \in Seq(Device) /\ n \in Nat /\ \A i \in 1..n : devices[i] \in Device
    BY TypeParts, LenProperties, ElementOfSeq, Zenon
  <1>2. devices' = [i \in 1..n |-> [devices[i] EXCEPT !.groups = @ \ {g}]]
    BY Zenon DEF DeleteGroup
  <1> HIDE DEF n
  <1>3. \A i \in 1..n : /\ devices'[i] \in Device
                        /\ devices'[i].tok = devices[i].tok
    BY <1>1, <1>2, Zenon DEF Device
  <1>4. devices' \in [1..n -> Device]
    BY <1>2, <1>3, Zenon
  <1>5. devices' \in Seq(Device)
    BY <1>1, <1>4, SeqDef, Zenon
  <1>6. DOMAIN devices' = 1..n /\ DOMAIN devices' = 1..Len(devices') /\ Len(devices') \in Nat
    BY <1>4, <1>5, LenProperties, Zenon
  <1>7. Len(devices') = n
    BY <1>1, <1>6
  <1> QED BY <1>3, <1>5, <1>7, Zenon DEF n

\* Types are kept by every step.
LEMMA TypeStep == TypeOK /\ TokenInv /\ [Next]_vars => TypeOK'
  <1> SUFFICES ASSUME TypeOK, TokenInv, [Next]_vars PROVE TypeOK'
    BY Zenon
  <1> DEFINE n == Len(devices)
  <1>n. n \in Nat /\ req \in [Hosts -> Request(n)] /\ devices \in Seq(Device)
    BY TypeParts, LenProperties, Zenon
  <1>t. ASSUME token' \in [Tokens -> TokenRow],
               UNCHANGED <<now, groups, devices, file, tokenFile, agent, req, faults, overlap>>
        PROVE  TypeOK'
    BY <1>t, TypeParts, Zenon DEF TypeOK, TokenRow
  <1>1. ASSUME NEW t \in Tokens, Create(t) PROVE TypeOK'
    BY <1>1, EnrollmentAssumption DEF Create, TypeOK
  <1>2. ASSUME NEW t \in Tokens, Delete(t) PROVE TypeOK'
    <2>1. token' \in [Tokens -> TokenRow]
      BY <1>2, TypeParts, TokenMoves, Zenon DEF Delete
    <2> QED BY <1>2, <1>t, <2>1, Zenon DEF Delete
  <1>3. ASSUME NEW g \in Groups, DeleteGroup(g) PROVE TypeOK'
    BY <1>3, DeleteGroupTypes, Zenon DEF DeleteGroup, TypeOK, Device
  <1>4. CASE reapExpiredEnrollmentTokens
    <2>1. \A t \in Tokens : token[t] \in TokenRow /\ [token[t] EXCEPT !.st = "reaped"] \in TokenRow
      BY TypeParts, TokenMoves, Zenon
    <2>2. token' \in [Tokens -> TokenRow]
      BY <1>4, <2>1, Zenon DEF reapExpiredEnrollmentTokens
    <2> QED BY <1>4, <1>t, <2>2, Zenon DEF reapExpiredEnrollmentTokens
  <1>5. CASE Tick
    BY <1>5, EnrollmentAssumption DEF Tick, TypeOK
  <1>6. ASSUME NEW h \in Hosts, NEW t \in Tokens, Install(h, t) PROVE TypeOK'
    BY <1>6, Zenon DEF Install, TypeOK, operatorVars
  <1>7. ASSUME NEW h \in Hosts, Enroll(h) PROVE TypeOK'
    BY <1>7 DEF Enroll, TypeOK, operatorVars
  <1>g. ASSUME NEW h \in Hosts, NEW p \in PCs, Goto(h, p), token' \in [Tokens -> TokenRow],
               overlap' \in BOOLEAN, faults' \in 0..MaxFaults,
               UNCHANGED <<now, groups, devices, file, tokenFile, agent>>
        PROVE  TypeOK'
    <2>1. req' \in [Hosts -> Request(n)]
      BY <1>g, <1>n, GotoTypes, Zenon
    <2> QED BY <1>g, <2>1, TypeParts, Zenon DEF TypeOK, TokenRow, Request, PCs
  <1>i. ASSUME req' \in [Hosts -> Request(n)], agent' \in [Hosts -> Agents],
               file' \in [Hosts -> [Files -> 0..n]], tokenFile' \in [Hosts -> Tokens \cup {NoToken}],
               faults' \in 0..MaxFaults, UNCHANGED <<now, token, groups, devices, overlap>>
        PROVE  TypeOK'
    BY <1>i, TypeParts, Zenon DEF TypeOK, Agents, Request, PCs
  <1>8. ASSUME NEW h \in Hosts, Reply(h) PROVE TypeOK'
    <2>1. req' \in [Hosts -> Request(n)]
      BY <1>8, <1>n, IdleTypes, Zenon DEF Reply
    <2>2. agent' \in [Hosts -> Agents]
      BY <1>8, TypeParts, Zenon DEF Reply, Agents, Files
    <2>3. UNCHANGED <<file, tokenFile, faults, now, token, groups, devices, overlap>>
      BY <1>8, Zenon DEF Reply, operatorVars
    <2> QED BY <1>i, <2>1, <2>2, <2>3, TypeParts, Zenon
  <1>9. ASSUME NEW h \in Hosts, Save(h) PROVE TypeOK'
    <2>1. agent[h] \in Files /\ req[h].dev \in 0..n
      BY <1>9, <1>n, Zenon DEF Save, Request
    <2>2. file' \in [Hosts -> [Files -> 0..n]]
      BY <1>9, <2>1, TypeParts, Zenon DEF Save
    <2>3. After[agent[h]] \in Agents
      BY <2>1 DEF After, Files, Agents
    <2>4. agent' \in [Hosts -> Agents]
      BY <1>9, <2>3, TypeParts, Zenon DEF Save
    <2>5. UNCHANGED <<req, tokenFile, faults, now, token, groups, devices, overlap>>
      BY <1>9, Zenon DEF Save, operatorVars
    <2> QED BY <1>i, <1>n, <2>2, <2>4, <2>5, TypeParts, Zenon
  <1>10. ASSUME NEW h \in Hosts, RemoveToken(h) PROVE TypeOK'
    <2>1. req' \in [Hosts -> Request(n)]
      BY <1>10, <1>n, IdleTypes, Zenon DEF RemoveToken
    <2>2. agent' \in [Hosts -> Agents] /\ tokenFile' \in [Hosts -> Tokens \cup {NoToken}]
      BY <1>10, TypeParts, Zenon DEF RemoveToken, Agents
    <2>3. UNCHANGED <<file, faults, now, token, groups, devices, overlap>>
      BY <1>10, Zenon DEF RemoveToken, operatorVars
    <2> QED BY <1>i, <2>1, <2>2, <2>3, TypeParts, Zenon
  <1>11. ASSUME NEW h \in Hosts, Start(h) PROVE TypeOK'
    BY <1>11, Zenon DEF Start, TypeOK, operatorVars
  <1>12. ASSUME NEW h \in Hosts, Stop(h) PROVE TypeOK'
    <2>1. req' \in [Hosts -> Request(n)]
      BY <1>12, <1>n, IdleTypes, Zenon DEF Stop
    <2>2. agent' \in [Hosts -> Agents] /\ faults' \in 0..MaxFaults
      BY <1>12, TypeParts, EnrollmentAssumption DEF Stop, Agents, Fault
    <2>3. UNCHANGED <<tokenFile, now, token, groups, devices, overlap>>
      BY <1>12, Zenon DEF Stop, operatorVars
    <2>4. 0 \in 0..n /\ file \in [Hosts -> [Files -> 0..n]]
      BY <1>n, TypeParts
    <2>5. file' \in [Hosts -> [Files -> 0..n]]
      <3>1. CASE UNCHANGED file
        BY <2>4, <3>1, Zenon
      <3>2. CASE agent[h] \in Files /\ file' = [file EXCEPT ![h][agent[h]] = 0]
        BY <2>4, <3>2, Zenon
      <3> QED BY <1>12, <3>1, <3>2, Zenon DEF Stop
    <2> QED BY <1>i, <2>1, <2>2, <2>3, <2>5, TypeParts, Zenon
  <1>13. ASSUME NEW h \in Hosts, ValidateAndConsume(h) PROVE TypeOK'
    <2>t. req[h].tok \in Tokens
      BY <1>13, Zenon DEF TokenInv, ValidateAndConsume
    <2>1. token' \in [Tokens -> TokenRow]
      BY <1>13, <2>t, TypeParts, TokenMoves, Zenon DEF ValidateAndConsume
    <2>2. PICK p \in {"quota", "refused"} : Goto(h, p)
      BY <1>13, Zenon DEF ValidateAndConsume
    <2>3. overlap' \in BOOLEAN /\ UNCHANGED <<now, groups, devices, file, tokenFile, agent, faults>>
      BY <1>13, Zenon DEF ValidateAndConsume
    <2> QED BY <1>g, <2>1, <2>2, <2>3, TypeParts, Zenon DEF PCs
  <1>14. ASSUME NEW h \in Hosts, CheckDevices(h) PROVE TypeOK'
    <2>1. PICK p \in {"commit", "refused"} : Goto(h, p)
      BY <1>14, Zenon DEF CheckDevices
    <2> QED BY <1>14, <1>g, <2>1, TypeParts, Zenon DEF CheckDevices, PCs, operatorVars
  <1>15. ASSUME NEW h \in Hosts, Commit(h) PROVE TypeOK'
    <2>1. req[h].tok \in Tokens /\ req[h].pc = "commit"
      BY <1>15, Zenon DEF TokenInv, Commit
    <2>2. CASE applyScope(h)
      <3>1. /\ devices' \in Seq(Device) /\ Len(devices') = n + 1
            /\ req' \in [Hosts -> Request(n + 1)]
        BY <1>15, <2>1, <2>2, CommitTypes, Zenon
      <3>2. 0..n \subseteq 0..(n + 1)
        BY <1>n
      <3>3. file \in [Hosts -> [Files -> 0..n]]
        BY TypeParts, Zenon
      <3> HIDE DEF n
      <3>4. file \in [Hosts -> [Files -> 0..(n + 1)]]
        BY <3>2, <3>3, Zenon
      <3>5. file' = file /\ UNCHANGED <<now, token, groups, tokenFile, agent, overlap, faults>>
        BY <1>15, Zenon DEF Commit, operatorVars
      <3> QED BY <3>1, <3>4, <3>5, TypeParts, Zenon DEF TypeOK, Device, Request, PCs
    <2>3. CASE ~applyScope(h)
      BY <1>15, <1>g, <2>3, TypeParts, Zenon DEF Commit, PCs, operatorVars
    <2> QED BY <2>2, <2>3, Zenon
  <1>16. ASSUME NEW h \in Hosts, Fail(h) PROVE TypeOK'
    <2>1. faults' \in 0..MaxFaults
      BY <1>16, TypeParts, EnrollmentAssumption DEF Fail, Fault
    <2> QED BY <1>16, <1>g, <2>1, TypeParts, Zenon DEF Fail, PCs, operatorVars
  <1>17. CASE UNCHANGED vars
    BY <1>17, Zenon DEF vars, TypeOK
  <1> QED BY <1>1, <1>2, <1>3, <1>4, <1>5, <1>6, <1>7, <1>8, <1>9, <1>10, <1>11, <1>12,
             <1>13, <1>14, <1>15, <1>16, <1>17, Zenon DEF Next

-----------------------------------------------------------------------------
(* Tokens *)

\* A step that enrolls nobody, lets no request past the token check and gives
\* no spent token back keeps the invariant.
LEMMA Quiet ==
    ASSUME TypeOK, TokenInv,
           Len(devices') = Len(devices),
           \A i \in 1..Len(devices) : devices'[i].tok = devices[i].tok,
           \A t \in Tokens : Spent(t) => Spent(t)',
           \A h \in Hosts : req'[h].pc \in {"quota", "commit"} => Past(h) /\ req'[h].tok = req[h].tok,
           \A h \in Hosts : req'[h].pc = "consume" => req'[h].tok \in Tokens
    PROVE  TokenInv'
  <1>1. \A i \in 1..Len(devices) : devices[i].tok \in Tokens
    BY DeviceTypes, Zenon
  <1>2. \A h \in Hosts : Past(h) => req[h].tok \in Tokens
    BY Zenon DEF TokenInv, Past
  <1> QED BY <1>1, <1>2 DEF TokenInv, Past, OneDevicePerToken

\* Spent tokens stay spent, whoever moves.
LEMMA SpentStays ==
    ASSUME TypeOK, [Next]_vars, NEW t \in Tokens, Spent(t)
    PROVE  Spent(t)'
  <1>1. ASSUME NEW u \in Tokens, Create(u) PROVE Spent(t)'
    BY <1>1, TypeParts, Zenon DEF Create, Spent
  <1>2. ASSUME NEW u \in Tokens, Delete(u) PROVE Spent(t)'
    BY <1>2, TypeParts, Zenon DEF Delete, Spent, TokenRow
  <1>3. CASE reapExpiredEnrollmentTokens
    BY <1>3, TypeParts, Zenon DEF reapExpiredEnrollmentTokens, Reaped, Spent
  <1>4. ASSUME NEW h \in Hosts, ValidateAndConsume(h) PROVE Spent(t)'
    BY <1>4, TypeParts, Zenon DEF ValidateAndConsume, Valid, Spent, TokenRow
  <1>5. CASE token' = token
    BY <1>5, Zenon DEF Spent
  <1>6. (\E g \in Groups : DeleteGroup(g)) => token' = token
    BY Zenon DEF DeleteGroup
  <1>7. Tick => token' = token
    BY Zenon DEF Tick
  <1>8. (\E h \in Hosts, u \in Tokens : Install(h, u)) => token' = token
    BY Zenon DEF Install, operatorVars
  <1>9. \A h \in Hosts : \/ Enroll(h) \/ Reply(h) \/ Save(h) \/ RemoveToken(h) \/ Start(h) \/ Stop(h)
                         => token' = token
    BY Zenon DEF Enroll, Reply, Save, RemoveToken, Start, Stop, operatorVars
  <1>10. \A h \in Hosts : CheckDevices(h) \/ Commit(h) \/ Fail(h) => token' = token
    BY Zenon DEF CheckDevices, Commit, Fail, operatorVars
  <1>11. UNCHANGED vars => token' = token
    BY Zenon DEF vars
  <1> QED BY <1>1, <1>2, <1>3, <1>4, <1>5, <1>6, <1>7, <1>8, <1>9, <1>10, <1>11, ZenonT(60) DEF Next

\* The token invariant is inductive.
LEMMA TokenStep == TypeOK /\ TokenInv /\ [Next]_vars => TokenInv'
  <1> SUFFICES ASSUME TypeOK, TokenInv, [Next]_vars PROVE TokenInv'
    BY Zenon
  <1> DEFINE n == Len(devices)
  <1>n. n \in Nat /\ req \in [Hosts -> Request(n)]
    BY TypeParts, LenProperties, Zenon
  <1>t. \A t \in Tokens : Spent(t) => Spent(t)'
    BY SpentStays, Zenon
  <1>u. \A h \in Hosts : req[h].pc \in {"consume", "quota", "commit"} => req[h].tok \in Tokens
    BY Zenon DEF TokenInv
  <1>q. ASSUME UNCHANGED devices, NEW h \in Hosts, NEW p \in PCs \ {"consume"}, Goto(h, p),
               p \in {"quota", "commit"} => Past(h)
        PROVE  TokenInv'
    <2>1. /\ req'[h].pc = p /\ req'[h].tok = req[h].tok
          /\ \A k \in Hosts : k # h => req'[k] = req[k]
      BY <1>q, <1>n, GotoTypes, Zenon
    <2>2. \A k \in Hosts : req'[k].pc \in {"quota", "commit"} => Past(k) /\ req'[k].tok = req[k].tok
      BY <1>q, <2>1, Zenon DEF Past
    <2>3. \A k \in Hosts : req'[k].pc = "consume" => req'[k].tok \in Tokens
      BY <1>q, <1>u, <2>1, Zenon
    <2> QED BY <1>q, <1>t, <2>2, <2>3, Quiet, Zenon
  <1>r. ASSUME UNCHANGED devices, UNCHANGED req PROVE TokenInv'
    BY <1>r, <1>t, <1>u, Quiet, Zenon DEF Past
  <1>s. ASSUME UNCHANGED devices, NEW h \in Hosts, req' = [req EXCEPT ![h] = Idle] PROVE TokenInv'
    <2>1. req'[h].pc = "idle" /\ \A k \in Hosts : k # h => req'[k] = req[k]
      BY <1>s, <1>n, IdleTypes, Zenon
    <2>2. \A k \in Hosts : req'[k].pc \in {"quota", "commit"} => Past(k) /\ req'[k].tok = req[k].tok
      BY <2>1, Zenon DEF Past
    <2>3. \A k \in Hosts : req'[k].pc = "consume" => req'[k].tok \in Tokens
      BY <1>u, <2>1, Zenon
    <2> QED BY <1>s, <1>t, <2>2, <2>3, Quiet, Zenon
  <1>1. ASSUME NEW t \in Tokens, Create(t) \/ Delete(t) PROVE TokenInv'
    BY <1>1, <1>r, Zenon DEF Create, Delete
  <1>2. ASSUME NEW g \in Groups, DeleteGroup(g) PROVE TokenInv'
    <2>1. UNCHANGED req
      BY <1>2, Zenon DEF DeleteGroup
    <2> QED BY <1>2, <1>t, <1>u, <2>1, DeleteGroupTypes, Quiet, Zenon DEF Past
  <1>3. CASE reapExpiredEnrollmentTokens \/ Tick
    BY <1>3, <1>r, Zenon DEF reapExpiredEnrollmentTokens, Tick
  <1>4. ASSUME NEW h \in Hosts, NEW t \in Tokens, Install(h, t) PROVE TokenInv'
    BY <1>4, <1>r, Zenon DEF Install
  <1>5. ASSUME NEW h \in Hosts, Enroll(h) PROVE TokenInv'
    <2>1. tokenFile[h] \in Tokens
      BY <1>5, TypeParts, Zenon DEF Enroll
    <2>2. /\ req'[h].pc = "consume" /\ req'[h].tok = tokenFile[h]
          /\ \A k \in Hosts : k # h => req'[k] = req[k]
      BY <1>5, <1>n, Zenon DEF Enroll
    <2>3. \A k \in Hosts : req'[k].pc \in {"quota", "commit"} => Past(k) /\ req'[k].tok = req[k].tok
      BY <2>2, Zenon DEF Past
    <2>4. \A k \in Hosts : req'[k].pc = "consume" => req'[k].tok \in Tokens
      BY <1>u, <2>1, <2>2, Zenon
    <2>5. UNCHANGED devices
      BY <1>5, Zenon DEF Enroll
    <2> QED BY <1>t, <2>3, <2>4, <2>5, Quiet, Zenon
  <1>6. ASSUME NEW h \in Hosts, Reply(h) \/ Save(h) \/ RemoveToken(h) \/ Start(h) \/ Stop(h)
        PROVE  TokenInv'
    BY <1>6, <1>r, <1>s, Zenon DEF Reply, Save, RemoveToken, Start, Stop
  <1>7. ASSUME NEW h \in Hosts, ValidateAndConsume(h) PROVE TokenInv'
    <2> DEFINE t == req[h].tok
    <2>1. UNCHANGED devices /\ req[h].pc = "consume" /\ t \in Tokens
      BY <1>7, <1>u, Zenon DEF ValidateAndConsume
    <2>2. CASE ~Valid(t)
      BY <1>7, <1>q, <2>1, <2>2, Zenon DEF ValidateAndConsume, PCs
    <2>3. CASE Valid(t)
      <3>1. Goto(h, "quota") /\ token' = [token EXCEPT ![t].st = "used"] /\ token[t].st = "unused"
        BY <1>7, <2>3, Zenon DEF ValidateAndConsume, Valid
      <3>2. token'[t].st \in {"used", "deleted"} /\ ~Spent(t)
        BY <2>1, <3>1, TypeParts DEF Spent, TokenRow
      <3>3. /\ req'[h].pc = "quota" /\ req'[h].tok = t
            /\ \A k \in Hosts : k # h => req'[k] = req[k]
        BY <1>n, <3>1, GotoTypes, Zenon DEF PCs
      <3>4. \A i \in 1..n : devices[i].tok # t
        BY <3>2, Zenon DEF TokenInv
      <3>5. \A k \in Hosts : Past(k) => req[k].tok # t
        BY <3>2, Zenon DEF TokenInv
      <3>6. \A i \in 1..n : devices[i].tok \in Tokens
        BY DeviceTypes, Zenon
      <3> HIDE DEF t
      <3> QED BY <1>t, <1>u, <2>1, <3>2, <3>3, <3>4, <3>5, <3>6 DEF TokenInv, Past, Spent, OneDevicePerToken
    <2> QED BY <2>2, <2>3, Zenon
  <1>8. ASSUME NEW h \in Hosts, CheckDevices(h) PROVE TokenInv'
    <2>1. UNCHANGED devices /\ Past(h) /\ (Goto(h, "commit") \/ Goto(h, "refused"))
      BY <1>8, Zenon DEF CheckDevices, Past
    <2> QED BY <1>q, <2>1, Zenon DEF PCs
  <1>9. ASSUME NEW h \in Hosts, Commit(h) PROVE TokenInv'
    <2>1. req[h].pc = "commit" /\ Past(h) /\ req[h].tok \in Tokens
      BY <1>9, <1>u, Zenon DEF Commit, Past
    <2>2. CASE ~applyScope(h)
      BY <1>9, <1>q, <2>2, Zenon DEF Commit, PCs
    <2>3. CASE applyScope(h)
      <3>1. /\ Len(devices') = n + 1
            /\ \A i \in 1..n : devices'[i] = devices[i]
            /\ devices'[n + 1] = [tok |-> req[h].tok, groups |-> token[req[h].tok].scope \cap groups]
            /\ req'[h].pc = "ok"
            /\ \A k \in Hosts : k # h => req'[k] = req[k]
        BY <1>9, <2>1, <2>3, CommitTypes, Zenon
      <3>2. \A i \in 1..n : devices[i].tok \in Tokens /\ devices[i].tok # req[h].tok /\ Spent(devices[i].tok)
        BY <2>1, DeviceTypes, Zenon DEF TokenInv
      <3>3. token'[req[h].tok].st \in {"used", "deleted"}
        BY <1>t, <2>1, Zenon DEF TokenInv, Spent
      <3>4. \A i \in 1..(n + 1) : i \in 1..n \/ i = n + 1
        BY <1>n
      <3>5. \A k \in Hosts : Past(k)' => k # h /\ Past(k) /\ req'[k].tok = req[k].tok /\ req[k].tok # req[h].tok
        BY <2>1, <3>1, Zenon DEF Past, TokenInv
      <3>6. \A k \in Hosts : Past(k)' => token'[req'[k].tok].st \in {"used", "deleted"}
        BY <1>t, <1>u, <3>5, Zenon DEF TokenInv, Past, Spent
      <3>7. OneDevicePerToken /\ \A k \in Hosts : Past(k) => \A i \in 1..n : devices[i].tok # req[k].tok
        BY Zenon DEF TokenInv
      <3>8. OneDevicePerToken'
        BY <3>1, <3>2, <3>4, <3>7 DEF OneDevicePerToken
      <3>9. \A i \in 1..Len(devices') : token'[devices'[i].tok].st \in {"used", "deleted"}
        BY <1>t, <3>1, <3>2, <3>3, <3>4 DEF Spent
      <3>10. \A k \in Hosts : Past(k)' => \A i \in 1..Len(devices') : devices'[i].tok # req'[k].tok
        BY <3>1, <3>4, <3>5, <3>7
      <3>11. \A k, j \in Hosts : Past(k)' /\ Past(j)' /\ req'[k].tok = req'[j].tok => k = j
        BY <3>5, Zenon DEF TokenInv
      <3>12. \A k \in Hosts : req'[k].pc \in {"consume", "quota", "commit"} => req'[k].tok \in Tokens
        BY <1>u, <3>1, Zenon
      <3> QED BY <3>5, <3>6, <3>8, <3>9, <3>10, <3>11, <3>12, Zenon DEF TokenInv, Spent
    <2> QED BY <2>2, <2>3, Zenon
  <1>10. ASSUME NEW h \in Hosts, Fail(h) PROVE TokenInv'
    BY <1>10, <1>q, Zenon DEF Fail, PCs
  <1>11. CASE UNCHANGED vars
    BY <1>11, <1>r, Zenon DEF vars
  <1> QED BY <1>1, <1>2, <1>3, <1>4, <1>5, <1>6, <1>7, <1>8, <1>9, <1>10, <1>11, ZenonT(60) DEF Next

-----------------------------------------------------------------------------
(* The files of an identity *)

\* The files SaveCredentials has written when the next one is f.
Written(f) == CASE f = "cert" -> {} [] f = "key" -> {"cert"} [] f = "ca" -> {"cert", "key"}
                [] f = "id" -> {"cert", "key", "ca"} [] OTHER -> {}

\* While credentials are being obtained there is no agent_id, and the files
\* written so far are those of the device in the reply.
HostInv(h) ==
    /\ agent[h] \in {"waiting"} \cup Files => file[h].id = 0
    /\ agent[h] \in Files => /\ req[h].pc = "ok"
                             /\ \A f \in Written(agent[h]) : file[h][f] = req[h].dev
    /\ file[h].id # 0 => \A f \in Files : file[h][f] = file[h].id

FileInv == \A h \in Hosts : HostInv(h)

\* A host the step leaves alone.
LEMMA HostKept ==
    ASSUME NEW h \in Hosts, HostInv(h), file'[h] = file[h], agent'[h] = agent[h],
           req'[h] = req[h] \/ agent[h] \notin Files
    PROVE  HostInv(h)'
  BY Zenon DEF HostInv

\* The files of every host are kept consistent.
LEMMA FileStep == TypeOK /\ TokenInv /\ FileInv /\ [Next]_vars => FileInv'
  <1> SUFFICES ASSUME TypeOK, TokenInv, FileInv, [Next]_vars, NEW k \in Hosts PROVE HostInv(k)'
    BY Zenon DEF FileInv
  <1> DEFINE n == Len(devices)
  <1>n. /\ n \in Nat /\ req \in [Hosts -> Request(n)] /\ agent \in [Hosts -> Agents]
        /\ file \in [Hosts -> [Files -> 0..n]] /\ HostInv(k)
    BY TypeParts, LenProperties, Zenon DEF FileInv
  <1>r. ASSUME UNCHANGED <<file, agent, req>> PROVE HostInv(k)'
    BY <1>r, <1>n, HostKept, Zenon
  <1>g. ASSUME NEW h \in Hosts, NEW p \in PCs, Goto(h, p), req[h].pc # "ok", UNCHANGED <<file, agent>>
        PROVE  HostInv(k)'
    <2>1. \A j \in Hosts : j # h => req'[j] = req[j]
      BY <1>g, <1>n, GotoTypes, Zenon
    <2>2. k = h => agent[k] \notin Files
      BY <1>g, <1>n, Zenon DEF HostInv
    <2> QED BY <1>g, <1>n, <2>1, <2>2, HostKept, Zenon
  <1>1. ASSUME NEW t \in Tokens, Create(t) \/ Delete(t) PROVE HostInv(k)'
    BY <1>1, <1>r, Zenon DEF Create, Delete
  <1>2. ASSUME NEW g \in Groups, DeleteGroup(g) PROVE HostInv(k)'
    BY <1>2, <1>r, Zenon DEF DeleteGroup
  <1>3. CASE reapExpiredEnrollmentTokens \/ Tick
    BY <1>3, <1>r, Zenon DEF reapExpiredEnrollmentTokens, Tick
  <1>4. ASSUME NEW h \in Hosts, NEW t \in Tokens, Install(h, t) PROVE HostInv(k)'
    BY <1>4, <1>r, Zenon DEF Install
  <1>5. ASSUME NEW h \in Hosts, Enroll(h) PROVE HostInv(k)'
    <2>1. CASE k # h
      BY <1>5, <1>n, <2>1, HostKept, Zenon DEF Enroll
    <2>2. CASE k = h
      <3>1. agent'[k] = "waiting" /\ file'[k] = file[k] /\ file[k].id = 0
        BY <1>5, <1>n, <2>2, Zenon DEF Enroll
      <3> QED BY <3>1, Zenon DEF HostInv, Files
    <2> QED BY <2>1, <2>2, Zenon
  <1>6. ASSUME NEW h \in Hosts, Reply(h) PROVE HostInv(k)'
    <2>1. CASE k # h
      BY <1>6, <1>n, <2>1, HostKept, Zenon DEF Reply
    <2>2. CASE k = h /\ req[h].pc = "ok"
      <3>1. agent'[k] = "cert" /\ file'[k] = file[k] /\ req'[k] = req[k] /\ file[k].id = 0
        BY <1>6, <1>n, <2>2, Zenon DEF Reply, HostInv
      <3> QED BY <2>2, <3>1, Zenon DEF HostInv, Written
    <2>3. CASE k = h /\ req[h].pc # "ok"
      <3>1. agent'[k] = "down" /\ file'[k] = file[k] /\ file[k].id = 0
        BY <1>6, <1>n, <2>3, Zenon DEF Reply, HostInv
      <3> QED BY <3>1, Zenon DEF HostInv, Files
    <2> QED BY <2>1, <2>2, <2>3, Zenon
  <1>7. ASSUME NEW h \in Hosts, Save(h) PROVE HostInv(k)'
    <2>1. CASE k # h
      BY <1>7, <1>n, <2>1, HostKept, Zenon DEF Save
    <2>2. CASE k = h
      <3> DEFINE a == agent[k]
                 d == req[k].dev
      <3>1. /\ a \in Files /\ req' = req /\ file[k].id = 0 /\ req[k].pc = "ok"
            /\ \A f \in Written(a) : file[k][f] = d
        BY <1>7, <1>n, <2>2, Zenon DEF Save, HostInv
      <3>2. agent'[k] = After[a]
        BY <1>7, <1>n, <2>2, Zenon DEF Save
      <3>3. file'[k] = [file[k] EXCEPT ![a] = d]
        BY <1>7, <1>n, <2>2, Zenon DEF Save
      <3>4. file'[k][a] = d /\ \A f \in Files : f # a => file'[k][f] = file[k][f]
        BY <1>n, <3>1, <3>3, Zenon
      <3> HIDE DEF a, d
      <3>5. CASE a = "cert"
        <4>1. agent'[k] = "key" /\ file'[k].id = 0 /\ file'[k].cert = d
          BY <3>1, <3>2, <3>4, <3>5, Zenon DEF After, Files
        <4> QED BY <3>1, <4>1, Zenon DEF HostInv, Written, d
      <3>6. CASE a = "key"
        <4>1. agent'[k] = "ca" /\ file'[k].id = 0 /\ file'[k].cert = d /\ file'[k].key = d
          BY <3>1, <3>2, <3>4, <3>6, Zenon DEF After, Files, Written
        <4> QED BY <3>1, <4>1, Zenon DEF HostInv, Written, d
      <3>7. CASE a = "ca"
        <4>1. agent'[k] = "id" /\ file'[k].id = 0 /\ file'[k].cert = d /\ file'[k].key = d /\ file'[k].ca = d
          BY <3>1, <3>2, <3>4, <3>7, Zenon DEF After, Files, Written
        <4> QED BY <3>1, <4>1, Zenon DEF HostInv, Written, d
      <3>8. CASE a = "id"
        <4>1. /\ agent'[k] = "token" /\ file'[k].id = d
              /\ file'[k].cert = d /\ file'[k].key = d /\ file'[k].ca = d
          BY <3>1, <3>2, <3>4, <3>8, Zenon DEF After, Files, Written
        <4> QED BY <4>1, Zenon DEF HostInv, Files
      <3> QED BY <3>1, <3>5, <3>6, <3>7, <3>8, Zenon DEF Files
    <2> QED BY <2>1, <2>2, Zenon
  <1>8. ASSUME NEW h \in Hosts, RemoveToken(h) \/ Start(h) PROVE HostInv(k)'
    <2>1. CASE k # h
      BY <1>8, <1>n, <2>1, HostKept, Zenon DEF RemoveToken, Start
    <2>2. CASE k = h
      <3>1. agent'[k] = "up" /\ file'[k] = file[k]
        BY <1>8, <1>n, <2>2, Zenon DEF RemoveToken, Start
      <3> QED BY <1>n, <3>1, Zenon DEF HostInv, Files
    <2> QED BY <2>1, <2>2, Zenon
  <1>9. ASSUME NEW h \in Hosts, Stop(h) PROVE HostInv(k)'
    <2>1. CASE k # h
      <3>1. file'[k] = file[k] /\ agent'[k] = agent[k] /\ req'[k] = req[k]
        <4>1. CASE UNCHANGED file
          BY <1>9, <1>n, <2>1, <4>1, Zenon DEF Stop
        <4>2. CASE agent[h] \in Files /\ file' = [file EXCEPT ![h][agent[h]] = 0]
          BY <1>9, <1>n, <2>1, <4>2, Zenon DEF Stop
        <4> QED BY <1>9, <4>1, <4>2, Zenon DEF Stop
      <3> QED BY <1>n, <3>1, HostKept, Zenon
    <2>2. CASE k = h
      <3>1. agent'[k] = "down"
        BY <1>9, <1>n, <2>2, Zenon DEF Stop
      <3>2. CASE UNCHANGED file
        BY <1>n, <3>1, <3>2, Zenon DEF HostInv, Files
      <3>3. CASE agent[k] \in Files /\ file' = [file EXCEPT ![k][agent[k]] = 0]
        <4>1. file[k].id = 0
          BY <1>n, <3>3, Zenon DEF HostInv
        <4>2. file'[k].id = 0
          BY <1>n, <3>3, <4>1, Zenon DEF Files
        <4> QED BY <3>1, <4>2, Zenon DEF HostInv, Files
      <3> QED BY <1>9, <2>2, <3>2, <3>3, Zenon DEF Stop
    <2> QED BY <2>1, <2>2, Zenon
  <1>10. ASSUME NEW h \in Hosts, ValidateAndConsume(h) \/ CheckDevices(h) \/ Fail(h) PROVE HostInv(k)'
    <2>1. UNCHANGED <<file, agent>> /\ req[h].pc # "ok" /\ \E p \in PCs : Goto(h, p)
      BY <1>10, Zenon DEF ValidateAndConsume, CheckDevices, Fail, PCs
    <2> QED BY <1>g, <2>1, Zenon
  <1>11. ASSUME NEW h \in Hosts, Commit(h) PROVE HostInv(k)'
    <2>1. CASE ~applyScope(h)
      BY <1>11, <1>g, <2>1, Zenon DEF Commit, PCs
    <2>2. CASE applyScope(h)
      <3>1. \A j \in Hosts : j # h => req'[j] = req[j]
        BY <1>11, <2>2, CommitTypes, Zenon DEF TokenInv, Commit
      <3>2. k = h => agent[k] \notin Files
        BY <1>11, <1>n, Zenon DEF HostInv, Commit
      <3>3. UNCHANGED <<file, agent>>
        BY <1>11, Zenon DEF Commit
      <3> QED BY <1>n, <3>1, <3>2, <3>3, HostKept, Zenon
    <2> QED BY <2>1, <2>2, Zenon
  <1>12. CASE UNCHANGED vars
    BY <1>12, <1>r, Zenon DEF vars
  <1> QED BY <1>1, <1>2, <1>3, <1>4, <1>5, <1>6, <1>7, <1>8, <1>9, <1>10, <1>11, <1>12, ZenonT(60) DEF Next

-----------------------------------------------------------------------------
(* The quota *)

\* Without overlap one request at a time is past its token, so the count that
\* CheckDevices read is still the count when its transaction commits.
QuotaInv ==
    overlap \/ (/\ Len(devices) <= MaxDevices
                /\ \A h, k \in Hosts : Past(h) /\ Past(k) => h = k
                /\ \A h \in Hosts : req[h].pc = "commit" => Len(devices) + 1 <= MaxDevices)

\* A step that enrolls nobody and moves no request forward keeps QuotaInv.
LEMMA QuotaKept ==
    ASSUME QuotaInv, overlap' = overlap, Len(devices') = Len(devices),
           \A h \in Hosts : req'[h].pc \in {"quota", "commit"} => req'[h].pc = req[h].pc
    PROVE  QuotaInv'
  BY Zenon DEF QuotaInv, Past

\* The quota invariant is inductive.
LEMMA QuotaStep == TypeOK /\ TokenInv /\ QuotaInv /\ [Next]_vars => QuotaInv'
  <1> SUFFICES ASSUME TypeOK, TokenInv, QuotaInv, [Next]_vars PROVE QuotaInv'
    BY Zenon
  <1> DEFINE n == Len(devices)
  <1>n. n \in Nat /\ req \in [Hosts -> Request(n)] /\ MaxDevices \in Nat
    BY TypeParts, LenProperties, EnrollmentAssumption, Zenon
  <1>r. ASSUME UNCHANGED <<overlap, devices, req>> PROVE QuotaInv'
    BY <1>r, QuotaKept, Zenon
  <1>s. ASSUME UNCHANGED <<overlap, devices>>, NEW h \in Hosts, req' = [req EXCEPT ![h] = Idle]
        PROVE  QuotaInv'
    <2>1. req'[h].pc = "idle" /\ \A k \in Hosts : k # h => req'[k] = req[k]
      BY <1>s, <1>n, IdleTypes, Zenon
    <2> QED BY <1>s, <2>1, QuotaKept, Zenon
  <1>g. ASSUME UNCHANGED <<overlap, devices>>, NEW h \in Hosts, Goto(h, "refused") PROVE QuotaInv'
    <2>1. req'[h].pc = "refused" /\ \A k \in Hosts : k # h => req'[k] = req[k]
      BY <1>g, <1>n, GotoTypes, Zenon DEF PCs
    <2> QED BY <1>g, <2>1, QuotaKept, Zenon
  <1>1. ASSUME NEW t \in Tokens, Create(t) \/ Delete(t) PROVE QuotaInv'
    BY <1>1, <1>r, Zenon DEF Create, Delete
  <1>2. ASSUME NEW g \in Groups, DeleteGroup(g) PROVE QuotaInv'
    BY <1>2, DeleteGroupTypes, QuotaKept, Zenon DEF DeleteGroup
  <1>3. CASE reapExpiredEnrollmentTokens \/ Tick
    BY <1>3, <1>r, Zenon DEF reapExpiredEnrollmentTokens, Tick
  <1>4. ASSUME NEW h \in Hosts, NEW t \in Tokens, Install(h, t) PROVE QuotaInv'
    BY <1>4, <1>r, Zenon DEF Install
  <1>5. ASSUME NEW h \in Hosts, Enroll(h) PROVE QuotaInv'
    <2>1. req'[h].pc = "consume" /\ \A k \in Hosts : k # h => req'[k] = req[k]
      BY <1>5, <1>n, Zenon DEF Enroll
    <2>2. UNCHANGED <<overlap, devices>>
      BY <1>5, Zenon DEF Enroll
    <2> QED BY <2>1, <2>2, QuotaKept, Zenon
  <1>6. ASSUME NEW h \in Hosts, Reply(h) \/ Save(h) \/ RemoveToken(h) \/ Start(h) \/ Stop(h)
        PROVE  QuotaInv'
    BY <1>6, <1>r, <1>s, Zenon DEF Reply, Save, RemoveToken, Start, Stop
  <1>7. ASSUME NEW h \in Hosts, ValidateAndConsume(h) PROVE QuotaInv'
    <2>1. UNCHANGED devices /\ (Goto(h, "quota") \/ Goto(h, "refused"))
      BY <1>7, Zenon DEF ValidateAndConsume
    <2>2. /\ req'[h].pc \in {"quota", "refused"}
          /\ \A k \in Hosts : k # h => req'[k] = req[k]
      BY <1>n, <2>1, GotoTypes, Zenon DEF PCs
    <2>3. overlap' \/ (~overlap /\ \A k \in Hosts \ {h} : ~Past(k))
      BY <1>7, Zenon DEF ValidateAndConsume, Past
    <2> QED BY <1>n, <2>1, <2>2, <2>3 DEF QuotaInv, Past
  <1>8. ASSUME NEW h \in Hosts, CheckDevices(h) PROVE QuotaInv'
    <2>1. UNCHANGED <<overlap, devices>> /\ req[h].pc = "quota"
      BY <1>8, Zenon DEF CheckDevices
    <2>2. CASE Full
      BY <1>8, <1>g, <2>1, <2>2, Zenon DEF CheckDevices
    <2>3. CASE ~Full
      <3>1. req'[h].pc = "commit" /\ \A k \in Hosts : k # h => req'[k] = req[k]
        BY <1>8, <1>n, <2>3, GotoTypes, Zenon DEF PCs, CheckDevices
      <3> QED BY <1>n, <2>1, <2>3, <3>1 DEF QuotaInv, Past, Full
    <2> QED BY <2>2, <2>3, Zenon
  <1>9. ASSUME NEW h \in Hosts, Commit(h) PROVE QuotaInv'
    <2>1. req[h].pc = "commit" /\ req[h].tok \in Tokens /\ overlap' = overlap
      BY <1>9, Zenon DEF Commit, TokenInv
    <2>2. CASE ~applyScope(h)
      BY <1>9, <1>g, <2>2, Zenon DEF Commit
    <2>3. CASE applyScope(h)
      <3>1. /\ Len(devices') = n + 1 /\ req'[h].pc = "ok"
            /\ \A k \in Hosts : k # h => req'[k] = req[k]
        BY <1>9, <2>1, <2>3, CommitTypes, Zenon
      <3> QED BY <1>n, <2>1, <3>1, Zenon DEF QuotaInv, Past
    <2> QED BY <2>2, <2>3, Zenon
  <1>10. ASSUME NEW h \in Hosts, Fail(h) PROVE QuotaInv'
    BY <1>10, <1>g, Zenon DEF Fail
  <1>11. CASE UNCHANGED vars
    BY <1>11, <1>r, Zenon DEF vars
  <1> QED BY <1>1, <1>2, <1>3, <1>4, <1>5, <1>6, <1>7, <1>8, <1>9, <1>10, <1>11, ZenonT(60) DEF Next

-----------------------------------------------------------------------------
(* Theorems *)

EnrollInv == TypeOK /\ TokenInv /\ FileInv /\ QuotaInv

\* The four parts of the invariant hold before anything happened.
LEMMA InitInv == Init => EnrollInv
  <1> SUFFICES ASSUME Init PROVE EnrollInv
    BY Zenon
  <1>1. devices = <<>> /\ Len(devices) = 0 /\ MaxDevices \in Nat /\ MaxTime \in Nat /\ MaxFaults \in Nat /\ Expiry \in Nat
    BY EnrollmentAssumption, Zenon DEF Init
  <1>2. \A h \in Hosts : req[h].pc = "idle" /\ agent[h] = "down" /\ file[h].id = 0
    BY Zenon DEF Init, Idle, Files
  <1>3. TypeOK
    <2>1. devices \in Seq(Device) /\ 0 \in 0..Len(devices)
      BY <1>1
    <2>2. token \in [Tokens -> TokenRow] /\ now \in 0..MaxTime /\ faults \in 0..MaxFaults
      BY <1>1 DEF Init, TokenRow
    <2>3. req \in [Hosts -> Request(Len(devices))]
      BY <1>1, IdleTypes, Zenon DEF Init
    <2>4. file \in [Hosts -> [Files -> 0..Len(devices)]]
      BY <2>1, Zenon DEF Init
    <2>5. agent \in [Hosts -> Agents] /\ tokenFile \in [Hosts -> Tokens \cup {NoToken}]
      BY Zenon DEF Init, Agents
    <2>6. groups \subseteq Groups /\ overlap \in BOOLEAN
      BY Zenon DEF Init
    <2> QED BY <2>1, <2>2, <2>3, <2>4, <2>5, <2>6, TypeParts, Zenon
  <1>4. TokenInv
    BY <1>1, <1>2 DEF TokenInv, Past, OneDevicePerToken
  <1>5. FileInv
    BY <1>2, Zenon DEF FileInv, HostInv, Files
  <1>6. QuotaInv
    BY <1>1, <1>2 DEF QuotaInv, Past
  <1> QED BY <1>3, <1>4, <1>5, <1>6, Zenon DEF EnrollInv

\* The invariant of enrollment: types, tokens, files and quota, as the handler
\* and SaveCredentials leave them between any two of their statements.
THEOREM EnrollmentInvariant == Spec => []EnrollInv
  <1>1. EnrollInv /\ [Next]_vars => EnrollInv'
    BY TypeStep, TokenStep, FileStep, QuotaStep, Zenon DEF EnrollInv
  <1> QED BY <1>1, InitInv, PTL DEF Spec

\* A token enrolls at most one device, whatever requests race for it and
\* whatever agents are stopped and try again (ValidateAndConsume).
THEOREM OneDevice == Spec => []OneDevicePerToken
  <1>1. EnrollInv => OneDevicePerToken
    BY Zenon DEF EnrollInv, TokenInv
  <1> QED BY <1>1, EnrollmentInvariant, PTL

\* The reaper leaves the token of every device (reapExpiredEnrollmentTokens).
THEOREM TokensKept == Spec => []UsedTokensAreKept
  <1>1. EnrollInv => UsedTokensAreKept
    BY Zenon DEF EnrollInv, TokenInv, Spent, UsedTokensAreKept
  <1> QED BY <1>1, EnrollmentInvariant, PTL

\* An agent_id on a host stands for a complete identity (SaveCredentials).
THEOREM CompleteIdentity == Spec => []IdMeansComplete
  <1>1. EnrollInv => IdMeansComplete
    <2> SUFFICES ASSUME EnrollInv, NEW h \in Hosts, file[h].id # 0
                 PROVE  \A f \in DOMAIN file[h] : file[h][f] = file[h].id
      BY Zenon DEF IdMeansComplete
    <2>1. DOMAIN file[h] = Files /\ HostInv(h)
      BY TypeParts, Zenon DEF EnrollInv, FileInv
    <2> QED BY <2>1, Zenon DEF HostInv
  <1> QED BY <1>1, EnrollmentInvariant, PTL

\* The quota is exceeded only by requests that overlap (CheckDevices).
THEOREM QuotaHolds == Spec => []QuotaUnlessOverlap
  <1>1. EnrollInv => QuotaUnlessOverlap
    <2> SUFFICES ASSUME EnrollInv PROVE QuotaUnlessOverlap
      BY Zenon
    <2>1. Len(devices) \in Nat /\ MaxDevices \in Nat /\ QuotaInv
      BY DeviceTypes, EnrollmentAssumption, Zenon DEF EnrollInv
    <2> QED BY <2>1 DEF QuotaInv, QuotaUnlessOverlap
  <1> QED BY <1>1, EnrollmentInvariant, PTL

\* A device joins the groups of its token's scope, all of them (applyScope).
THEOREM WholeScope == Spec => NeverHalfScoped
  <1> DEFINE Scoped == \A i \in 1..Len(devices') \ 1..Len(devices) :
                         devices'[i].groups = token[devices'[i].tok].scope
  <1>1. EnrollInv /\ [Next]_vars => [Scoped]_vars
    <2> SUFFICES ASSUME EnrollInv, Next PROVE Scoped
      BY Zenon
    <2>t. TypeOK /\ TokenInv /\ Len(devices) \in Nat
      BY DeviceTypes, Zenon DEF EnrollInv
    <2>1. ASSUME Len(devices') = Len(devices) PROVE Scoped
      BY <2>1, Zenon
    <2>2. ASSUME NEW h \in Hosts, Commit(h) PROVE Scoped
      <3>1. req[h].tok \in Tokens
        BY <2>t, <2>2, Zenon DEF Commit, TokenInv
      <3>2. CASE applyScope(h)
        <4>1. /\ Len(devices') = Len(devices) + 1
              /\ devices'[Len(devices) + 1] = [tok |-> req[h].tok, groups |-> token[req[h].tok].scope \cap groups]
          BY <2>t, <2>2, <3>1, <3>2, CommitTypes, Zenon
        <4>2. token[req[h].tok].scope \cap groups = token[req[h].tok].scope
          BY <3>2, Zenon DEF applyScope
        <4>3. \A i \in 1..Len(devices') \ 1..Len(devices) : i = Len(devices) + 1
          BY <2>t, <4>1
        <4>4. /\ devices'[Len(devices) + 1].groups = token[req[h].tok].scope
              /\ devices'[Len(devices) + 1].tok = req[h].tok
          BY <4>1, <4>2
        <4> QED BY <4>3, <4>4, Zenon
      <3>3. CASE ~applyScope(h)
        BY <2>1, <2>2, <3>3, Zenon DEF Commit
      <3> QED BY <3>2, <3>3, Zenon
    <2>3. \A g \in Groups : DeleteGroup(g) => Len(devices') = Len(devices)
      BY <2>t, DeleteGroupTypes, Zenon
    <2>4. \A t \in Tokens : Create(t) \/ Delete(t) => devices' = devices
      BY Zenon DEF Create, Delete
    <2>5. reapExpiredEnrollmentTokens \/ Tick => devices' = devices
      BY Zenon DEF reapExpiredEnrollmentTokens, Tick
    <2>6. \A h \in Hosts, t \in Tokens : Install(h, t) => devices' = devices
      BY Zenon DEF Install
    <2>7. \A h \in Hosts : \/ Enroll(h) \/ Reply(h) \/ Save(h) \/ RemoveToken(h) \/ Start(h) \/ Stop(h)
                           \/ ValidateAndConsume(h) \/ CheckDevices(h) \/ Fail(h)
                           => devices' = devices
      BY DEF Enroll, Reply, Save, RemoveToken, Start, Stop, ValidateAndConsume, CheckDevices, Fail
    <2> HIDE DEF Scoped
    <2> QED BY <2>1, <2>2, <2>3, <2>4, <2>5, <2>6, <2>7, ZenonT(60) DEF Next
  <1> QED BY <1>1, EnrollmentInvariant, PTL DEF Spec, NeverHalfScoped

\* All that enrollment promises (Enroll, ValidateAndConsume, SaveCredentials, applyScope
\* and the reaper), for any hosts, tokens, groups and faults.
THEOREM EnrollmentHolds == Spec => EnrollmentSound
  BY OneDevice, CompleteIdentity, QuotaHolds, TokensKept, WholeScope, PTL DEF EnrollmentSound

-----------------------------------------------------------------------------
(* Paged lists *)

\* The rows at hand: a finite part of a table in which no id occurs twice.
Table(S) == born \in Seq(Ids) /\ IsInjective(born) /\ S \subseteq Range(born) /\ IsFiniteSet(S)

\* A row that stayed and was not delivered yet is still to come, or some cursor's
\* row is younger and has a smaller id.
StillToCome ==
    state # "done" =>
      \A r \in stayed : delivered[r] = 0 =>
        \/ cursor = 0 \/ r < cursor
        \/ \E c \in cursors : Before(r, c) /\ r > c

\* A row that was delivered does not come again, unless some cursor's row is older
\* and has a larger id.
NotAgain ==
    state # "done" =>
      \A r \in Ids : delivered[r] > 0 =>
        \/ cursor # 0 /\ r >= cursor
        \/ \E c \in cursors : Before(c, r) /\ r < c

\* The inductive invariant of a walk.
WalkInv == PageTypeOK /\ Table(rows) /\ StillToCome /\ NotAgain /\ ExactUpToInversions

\* Rows are ordered by created_at.
LEMMA BeforeIsOrder ==
  ASSUME NEW S, Table(S)
  PROVE  /\ \A r \in S : ~Before(r, r)
         /\ \A r, s \in S : r = s \/ Before(r, s) \/ Before(s, r)
         /\ \A r, s, t \in S : Before(r, s) /\ Before(s, t) => Before(r, t)
         /\ \A r, s \in S : ~(Before(r, s) /\ Before(s, r))
  <1>1. born \in Seq(Ids) /\ Len(born) \in Nat /\ DOMAIN born = 1..Len(born)
    BY DEF Table
  <1>2. \A i, j \in 1..Len(born) : born[i] = born[j] => i = j
    BY <1>1, Zenon DEF Table, IsInjective
  <1>3. \A r \in S : \E i \in 1..Len(born) : born[i] = r
    BY <1>1, Zenon DEF Table, Range
  <1>. QED
    BY <1>1, <1>2, <1>3, SMT DEF Before

\* Of some positions one is the first and one the last.
LEMMA FirstAndLast ==
  ASSUME NEW N \in Nat, NEW T, T \subseteq 1..N, T # {}
  PROVE  /\ \E x \in T : \A y \in T : x <= y
         /\ \E x \in T : \A y \in T : y <= x
  <1>1. ASSUME NEW U \in SUBSET Nat, U # {}
        PROVE  \E x \in U : \A y \in U : ~(y < x)
    <2>1. PICK x \in U : \A y \in U : ~(<<y, x>> \in OpToRel(<, Nat))
      BY <1>1, NatLessThanWellFounded, WFMin, Zenon
    <2>2. ASSUME NEW y \in U, y < x PROVE FALSE
      <3>1. <<y, x>> \in OpToRel(<, Nat)
        BY <2>2, <1>1 DEF OpToRel
      <3>. QED
        BY <2>1, <3>1, Zenon
    <2>. QED
      BY <2>2, Zenon
  <1>2. T \in SUBSET Nat
    BY SMT
  <1>3. PICK x \in T : \A y \in T : ~(y < x)
    BY <1>1, <1>2, Zenon
  <1>4. \A y \in T : x <= y
    BY <1>2, <1>3, SMT
  <1>. DEFINE U == {k \in Nat : \E i \in T : k = N - i}
  <1>5. U \in SUBSET Nat /\ U # {} /\ \A i \in T : N - i \in U
    <2>1. \A i \in T : N - i \in Nat
      BY SMT
    <2>. QED
      BY <2>1, Zenon
  <1>6. PICK k \in U : \A y \in U : ~(y < k)
    BY <1>1, <1>5, Zenon
  <1>7. PICK m \in T : k = N - m
    BY <1>6, Zenon
  <1>8. ASSUME NEW y \in T PROVE y <= m
    <2>1. ~(N - y < N - m)
      BY <1>5, <1>6, <1>7, Zenon
    <2>. QED
      BY <2>1, <1>2, SMT
  <1>. QED
    BY <1>4, <1>8, Zenon

\* Of the rows at hand one is the oldest and one the youngest.
LEMMA OldestYoungest ==
  ASSUME NEW S, Table(S), S # {}
  PROVE  /\ \E r \in S : \A s \in S : s = r \/ Before(r, s)
         /\ \E r \in S : \A s \in S : s = r \/ Before(s, r)
  <1>1. born \in Seq(Ids) /\ Len(born) \in Nat /\ DOMAIN born = 1..Len(born)
    BY DEF Table
  <1>3. \A r \in S : \E i \in 1..Len(born) : born[i] = r
    BY <1>1, Zenon DEF Table, Range
  <1>. DEFINE T == {i \in 1..Len(born) : born[i] \in S}
  <1>4. T \subseteq 1..Len(born) /\ T # {} /\ \A s \in S : \E i \in T : born[i] = s
    BY <1>3, Zenon
  <1>5. PICK first \in T, last \in T : \A i \in T : first <= i /\ i <= last
    <2>. HIDE DEF T
    <2>. QED
      BY <1>1, <1>4, FirstAndLast, Zenon
  <1>6. ASSUME NEW s \in S
        PROVE  /\ s = born[first] \/ Before(born[first], s)
               /\ s = born[last] \/ Before(s, born[last])
    <2>1. PICK i \in T : born[i] = s
      BY <1>4, Zenon
    <2>2. {i, first, last} \subseteq 1..Len(born)
      BY Zenon
    <2>3. /\ i = first \/ first < i
          /\ i = last \/ i < last
      BY <1>1, <1>5, <2>2, SMT
    <2>. QED
      BY <2>1, <2>2, <2>3, Zenon DEF Before
  <1>. QED
    BY <1>6, Zenon

\* A part of the rows at hand is a table, and has no more of them.
LEMMA PartOfTable ==
  ASSUME NEW S, Table(S), NEW T, T \subseteq S
  PROVE  /\ Table(T) /\ {Cardinality(S), Cardinality(T)} \subseteq Nat /\ Cardinality(T) <= Cardinality(S)
         /\ Cardinality(S) = Cardinality(T) => S = T
  <1>1. /\ IsFiniteSet(T) /\ Cardinality(T) <= Cardinality(S)
        /\ Cardinality(S) = Cardinality(T) => S = T
    BY FS_Subset, Zenon DEF Table
  <1>2. Cardinality(S) \in Nat /\ Cardinality(T) \in Nat
    BY <1>1, FS_CardinalityType, Zenon DEF Table
  <1>. QED
    BY <1>1, <1>2, Zenon DEF Table

\* LIMIT n: what is left out is older than all that is returned; all is returned
\* if there are n rows at most; and something is if there is something.
LEMMA NewestIsNewest ==
  ASSUME NEW S, Table(S), NEW n \in Nat
  PROVE  /\ Newest(S, n) \subseteq S
         /\ \A r \in S \ Newest(S, n), s \in Newest(S, n) : Before(r, s)
         /\ Cardinality(S) <= n => Newest(S, n) = S
         /\ n # 0 /\ S # {} => Newest(S, n) # {}
  <1>. DEFINE Younger(r) == {s \in S : Before(r, s)}
  <1>1. Newest(S, n) \subseteq S
    BY Zenon DEF Newest
  <1>2. ASSUME NEW r \in S \ Newest(S, n), NEW s \in Newest(S, n) PROVE Before(r, s)
    <2>1. SUFFICES ASSUME Before(s, r) PROVE FALSE
      BY <1>1, BeforeIsOrder, Zenon DEF Newest
    <2>2. Younger(r) \subseteq Younger(s)
      BY <1>1, <2>1, BeforeIsOrder, Zenon
    <2>3. Table(Younger(s))
      BY PartOfTable, Zenon
    <2>4. {Cardinality(Younger(r)), Cardinality(Younger(s))} \subseteq Nat /\ Cardinality(Younger(r)) <= Cardinality(Younger(s))
      <3>. HIDE DEF Younger
      <3>. QED BY <2>2, <2>3, PartOfTable, Zenon
    <2>5. Cardinality(Younger(s)) < n /\ ~(Cardinality(Younger(r)) < n)
      BY Zenon DEF Newest
    <2>. HIDE DEF Younger
    <2>. QED
      BY <2>4, <2>5, SMT
  <1>3. ASSUME Cardinality(S) <= n, NEW r \in S PROVE Cardinality(Younger(r)) < n
    <2>1. Younger(r) \subseteq S /\ Younger(r) # S
      BY BeforeIsOrder, Zenon
    <2>2. /\ {Cardinality(S), Cardinality(Younger(r))} \subseteq Nat /\ Cardinality(Younger(r)) <= Cardinality(S)
          /\ Cardinality(S) # Cardinality(Younger(r))
      <3>. HIDE DEF Younger
      <3>. QED BY <2>1, PartOfTable, Zenon
    <2>. HIDE DEF Younger
    <2>. QED
      BY <2>2, <1>3, SMT
  <1>4. ASSUME n # 0, S # {} PROVE Newest(S, n) # {}
    <2>1. PICK r \in S : \A s \in S : s = r \/ Before(s, r)
      BY <1>4, OldestYoungest, Zenon
    <2>2. Younger(r) = {}
      BY <2>1, BeforeIsOrder, Zenon
    <2>3. Cardinality(Younger(r)) = 0
      BY <2>2, FS_EmptySet, Zenon
    <2>4. Cardinality(Younger(r)) < n
      <3>. HIDE DEF Younger
      <3>. QED BY <2>3, <1>4, SMT
    <2>. QED
      BY <2>4, Zenon DEF Newest
  <1>. QED
    BY <1>1, <1>2, <1>3, <1>4, Zenon DEF Newest

\* Fetching one row more than the page tells whether there are more: if not more
\* than n of n + 1 come, these are all.
LEMMA FetchedAll ==
  ASSUME NEW S, Table(S), NEW n \in Nat, ~(Cardinality(Newest(S, n + 1)) > n)
  PROVE  Newest(S, n + 1) = S
  <1>. DEFINE F == Newest(S, n + 1)
              Younger(r) == {s \in S : Before(r, s)}
  <1>1. n + 1 \in Nat
    OBVIOUS
  <1>2. F \subseteq S
    BY <1>1, NewestIsNewest, Zenon
  <1>3. Table(F) /\ Table(S \ F)
    <2>. HIDE DEF F
    <2>1. S \ F \subseteq S
      BY Zenon
    <2>. QED BY <1>2, <2>1, PartOfTable, Zenon
  <1>4. SUFFICES ASSUME S \ F # {} PROVE FALSE
    BY <1>2, Zenon
  <1>5. PICK r \in S \ F : \A s \in S \ F : s = r \/ Before(s, r)
    BY <1>3, <1>4, OldestYoungest, Zenon
  <1>6. Younger(r) \subseteq F
    BY <1>5, BeforeIsOrder, Zenon
  <1>7. ~(Cardinality(Younger(r)) < n + 1)
    BY <1>5, Zenon DEF Newest
  <1>8. {Cardinality(F), Cardinality(Younger(r))} \subseteq Nat /\ Cardinality(Younger(r)) <= Cardinality(F)
    <2>. HIDE DEF Younger, F
    <2>. QED BY <1>3, <1>6, PartOfTable, Zenon
  <1>9. ~(Cardinality(F) > n)
    OBVIOUS
  <1>. HIDE DEF Younger, F
  <1>. QED
    BY <1>7, <1>8, <1>9, SMT

\* A page: what matches and is not on it is older than all of it; its cursor is its
\* oldest row; and the last page has all that matches.
LEMMA PageIsCut ==
  ASSUME NEW S, Table(S), NEW n \in Nat, n # 0
  PROVE  LET page == Newest(Newest(S, n + 1), n)
             more == Cardinality(Newest(S, n + 1)) > n IN
         /\ page \subseteq S
         /\ \A r \in S \ page, s \in page : Before(r, s)
         /\ ~more => page = S
         /\ more => nextCursor(page) \in page /\ \A s \in page : s = nextCursor(page) \/ Before(nextCursor(page), s)
  <1>. DEFINE F == Newest(S, n + 1)
              page == Newest(F, n)
  <1>1. n + 1 \in Nat
    OBVIOUS
  <1>2. F \subseteq S /\ \A r \in S \ F, s \in F : Before(r, s)
    BY <1>1, NewestIsNewest, Zenon
  <1>3. Table(F)
    BY <1>2, PartOfTable, Zenon
  <1>4. ~(Cardinality(F) > n) => F = S
    BY FetchedAll, Zenon
  <1>5. Cardinality(F) \in Nat /\ (F = {} => Cardinality(F) = 0)
    BY <1>3, FS_CardinalityType, FS_EmptySet, Zenon DEF Table
  <1>. HIDE DEF F
  <1>6. /\ page \subseteq F /\ \A r \in F \ page, s \in page : Before(r, s)
        /\ Cardinality(F) <= n => page = F
        /\ F # {} => page # {}
    BY <1>3, NewestIsNewest, Zenon
  <1>7. Cardinality(F) > n => F # {}
    BY <1>5, SMT
  <1>8. ~(Cardinality(F) > n) => Cardinality(F) <= n
    BY <1>5, SMT
  <1>9. Table(page)
    BY <1>3, <1>6, PartOfTable, Zenon
  <1>10. ASSUME page # {}
         PROVE  nextCursor(page) \in page /\ \A s \in page : s = nextCursor(page) \/ Before(nextCursor(page), s)
    <2>. HIDE DEF page
    <2>1. \E r \in page : \A s \in page : s = r \/ Before(r, s)
      BY <1>9, <1>10, OldestYoungest, Zenon
    <2>. QED
      BY <2>1, Zenon DEF nextCursor
  <1>11. /\ page \subseteq S
         /\ \A r \in S \ page, s \in page : Before(r, s)
         /\ ~(Cardinality(F) > n) => page = S
         /\ Cardinality(F) > n => nextCursor(page) \in page /\ \A s \in page : s = nextCursor(page) \/ Before(nextCursor(page), s)
    <2>. HIDE DEF page
    <2>. QED
      BY <1>2, <1>4, <1>6, <1>7, <1>8, <1>10, Zenon
  <1>. QED
    BY <1>11, Zenon DEF F

\* Rows keep their order when another is inserted.
LEMMA BeforeStays ==
  ASSUME born \in Seq(Ids), NEW id \in Ids, born' = Append(born, id), NEW r, NEW s, Before(r, s)
  PROVE  Before(r, s)'
  <1>1. Len(born) \in Nat /\ Len(born') = Len(born) + 1 /\ \A i \in 1..Len(born) : born'[i] = born[i]
    OBVIOUS
  <1>2. \A i \in 1..Len(born) : i \in 1..Len(born')
    BY <1>1, SMT
  <1>. QED
    BY <1>1, <1>2, Zenon DEF Before

\* The table stays one when a row with a new id is inserted.
LEMMA TableStays ==
  ASSUME Table(rows), NEW id \in Ids, id \notin Range(born), born' = Append(born, id), rows' = rows \cup {id}
  PROVE  Table(rows)' /\ Range(born)' = Range(born) \cup {id}
  <1>1. born \in Seq(Ids) /\ Len(born) \in Nat /\ DOMAIN born = 1..Len(born)
    BY DEF Table
  <1>2. /\ born' \in Seq(Ids) /\ DOMAIN born' = 1..(Len(born) + 1)
        /\ \A i \in 1..Len(born) : born'[i] = born[i]
        /\ born'[Len(born) + 1] = id
    BY <1>1
  <1>3. \A i \in 1..(Len(born) + 1) : i \in 1..Len(born) \/ i = Len(born) + 1
    BY <1>1, SMT
  <1>4. \A i \in 1..Len(born) : i \in 1..(Len(born) + 1)
    BY <1>1, SMT
  <1>5. Len(born) + 1 \in 1..(Len(born) + 1)
    BY <1>1, SMT
  <1>6. Range(born') = Range(born) \cup {id}
    BY <1>1, <1>2, <1>3, <1>4, <1>5, Zenon DEF Range
  <1>7. IsInjective(born')
    <2>1. \A i \in 1..Len(born) : born[i] # id
      BY <1>1, Zenon DEF Range
    <2>2. \A i, j \in 1..Len(born) : born[i] = born[j] => i = j
      BY <1>1, Zenon DEF Table, IsInjective
    <2>3. ASSUME NEW i \in 1..(Len(born) + 1), NEW j \in 1..(Len(born) + 1), born'[i] = born'[j]
          PROVE  i = j
      <3>1. CASE i \in 1..Len(born) /\ j \in 1..Len(born)
        BY <1>2, <2>2, <2>3, <3>1, Zenon
      <3>2. CASE i = Len(born) + 1 \/ j = Len(born) + 1
        BY <1>2, <1>3, <2>1, <2>3, <3>2, Zenon
      <3>. QED
        BY <1>3, <3>1, <3>2, Zenon
    <2>. QED
      BY <1>2, <2>3, Zenon DEF IsInjective
  <1>8. IsFiniteSet(rows')
    BY FS_AddElement, Zenon DEF Table
  <1>. QED
    BY <1>2, <1>6, <1>7, <1>8, Zenon DEF Table

\* A limit is never zero.
LEMMA LimitIsPositive ==
  ASSUME NEW n \in Requested
  PROVE  PageLimit(n) \in Nat /\ PageLimit(n) # 0
  BY PaginationAssumption, SMT DEF PageLimit

\* What a page does to the walk.
LEMMA ListKeepsInv ==
  ASSUME WalkInv, NEW n \in Requested, List(n)
  PROVE  WalkInv'
  <1>0. /\ PageTypeOK /\ Table(rows) /\ StillToCome /\ NotAgain /\ ExactUpToInversions
        /\ state # "done" /\ UNCHANGED <<born, rows, stayed>>
    BY Zenon DEF WalkInv, List
  <1>. DEFINE limit == PageLimit(n)
              page == Page(limit)
              more == Cardinality(Fetched(limit)) > limit
  <1>1. limit \in Nat /\ limit # 0
    BY LimitIsPositive, Zenon
  <1>2. Table(Matching)
    <2>1. Matching \subseteq rows
      BY Zenon DEF Matching
    <2>. QED
      BY <1>0, <2>1, PartOfTable, Zenon
  <1>3. /\ page \subseteq Matching
        /\ \A r \in Matching \ page, s \in page : Before(r, s)
        /\ ~more => page = Matching
        /\ more => nextCursor(page) \in page /\ \A s \in page : s = nextCursor(page) \/ Before(nextCursor(page), s)
    <2>. HIDE DEF limit
    <2>. QED
      BY <1>1, <1>2, PageIsCut, Zenon DEF Page, Fetched
  <1>4. /\ delivered' = [r \in Ids |-> IF r \in page /\ delivered[r] < 2 THEN delivered[r] + 1 ELSE delivered[r]]
        /\ more => cursor' = nextCursor(page) /\ state' = "more" /\ cursors' = cursors \cup {cursor'}
        /\ ~more => UNCHANGED <<cursor, cursors>> /\ state' = "done"
    BY Zenon DEF List
  <1>. HIDE DEF page, more
  <1>5. /\ born \in Seq(Ids) /\ rows \subseteq Range(born) /\ Len(born) <= MaxRows /\ stayed \subseteq rows
        /\ delivered \in [Ids -> 0..2] /\ cursors \subseteq {r \in Ids : delivered[r] > 0}
        /\ cursor \in cursors \cup {0} /\ state \in {"start", "more", "done"}
    BY <1>0, Zenon DEF PageTypeOK
  <1>6. Range(born) \subseteq Ids
    BY <1>5 DEF Range
  <1>7. Matching \subseteq rows /\ \A r \in rows : r \in Matching <=> cursor = 0 \/ r < cursor
    BY Zenon DEF Matching
  <1>8. Ids \subseteq Nat \ {0}
    BY PaginationAssumption
  <1>9. page \subseteq Ids /\ stayed \subseteq Ids /\ cursors \subseteq Ids
    BY <1>3, <1>5, <1>6, <1>7, Zenon
  <1>10. delivered' \in [Ids -> 0..2]
    BY <1>4, <1>5, SMT
  <1>11. \A r \in Ids : /\ r \in page => delivered'[r] > 0 /\ (delivered'[r] > 1 => delivered[r] > 0)
                        /\ r \notin page => delivered'[r] = delivered[r]
                        /\ delivered[r] > 0 => delivered'[r] > 0
    BY <1>4, <1>5, SMT
  <1>12. \A r \in Ids : delivered[r] = 0 \/ delivered[r] > 0
    BY <1>5, SMT
  <1>13. \A r \in Ids : ~(delivered'[r] = 0 /\ delivered'[r] > 0)
    BY <1>10, SMT
  <1>14. cursors \subseteq cursors'
    BY <1>4, Zenon
  <1>15. \A r, s : Before(r, s) => Before(r, s)'
    BY <1>0, Zenon DEF Before
  <1>16. Table(rows)'
    BY <1>0, Zenon DEF Table
  <1>17. PageTypeOK'
    <2>1. cursors' \subseteq {r \in Ids : delivered'[r] > 0}
      <3>1. \A c \in cursors : c \in Ids /\ delivered'[c] > 0
        BY <1>5, <1>11, Zenon
      <3>2. \A c \in page : c \in Ids /\ delivered'[c] > 0
        BY <1>9, <1>11, Zenon
      <3>3. \A c \in cursors' : c \in cursors \/ c \in page
        BY <1>3, <1>4, Zenon
      <3>. QED
        BY <3>1, <3>2, <3>3, Zenon
    <2>2. cursor' \in cursors' \cup {0} /\ state' \in {"start", "more", "done"}
      BY <1>4, <1>5, Zenon
    <2>. QED
      BY <1>0, <1>5, <1>10, <2>1, <2>2, Zenon DEF PageTypeOK
  <1>18. ASSUME NEW r \in stayed, delivered'[r] = 0
         PROVE  \/ more /\ r < cursor'
                \/ \E c \in cursors' : Before(r, c)' /\ r > c
    <2>1. r \in Ids /\ r \notin page /\ delivered[r] = 0
      BY <1>9, <1>11, <1>13, <1>18, Zenon
    <2>2. cursor = 0 \/ r < cursor \/ \E c \in cursors : Before(r, c) /\ r > c
      BY <1>0, <2>1, Zenon DEF StillToCome
    <2>3. CASE \E c \in cursors : Before(r, c) /\ r > c
      BY <2>3, <1>14, <1>15, Zenon
    <2>4. CASE cursor = 0 \/ r < cursor
      <3>1. r \in Matching
        BY <2>4, <1>5, <1>7, Zenon
      <3>2. more /\ cursor' \in page /\ cursor' \in cursors' /\ Before(r, cursor')
        BY <3>1, <2>1, <1>3, <1>4, Zenon
      <3>3. r # cursor' /\ cursor' \in Ids
        BY <3>2, <2>1, <1>9, Zenon
      <3>4. r < cursor' \/ r > cursor'
        BY <3>3, <2>1, <1>8, SMT
      <3>. QED
        BY <3>2, <3>4, <1>0, Zenon DEF Before
    <2>. QED
      BY <2>2, <2>3, <2>4, Zenon
  <1>19. ASSUME NEW r \in Ids, delivered'[r] > 0, more
         PROVE  \/ cursor' # 0 /\ r >= cursor'
                \/ \E c \in cursors' : Before(c, r)' /\ r < c
    <2>0. cursor' \in page /\ cursor' \in cursors' /\ cursor' \in Ids /\ cursor' # 0
      BY <1>3, <1>4, <1>8, <1>9, <1>19, Zenon
    <2>1. CASE r \in page
      <3>1. r = cursor' \/ Before(cursor', r)
        BY <2>1, <1>3, <1>4, <1>19, Zenon
      <3>2. r >= cursor' \/ r < cursor'
        BY <2>0, <1>8, SMT
      <3>3. r = cursor' => r >= cursor'
        BY <2>0, <1>8, SMT
      <3>. QED
        BY <3>1, <3>2, <3>3, <2>0, <1>0, Zenon DEF Before
    <2>2. CASE r \notin page
      <3>1. (cursor # 0 /\ r >= cursor) \/ \E c \in cursors : Before(c, r) /\ r < c
        BY <2>2, <1>0, <1>11, <1>19, Zenon DEF NotAgain
      <3>2. CASE cursor # 0 /\ r >= cursor
        <4>1. cursor' < cursor /\ cursor \in Ids
          BY <3>2, <2>0, <1>3, <1>5, <1>7, <1>9, Zenon
        <4>2. r >= cursor'
          BY <3>2, <4>1, <2>0, <1>8, SMT
        <4>. QED
          BY <4>2, <2>0
      <3>. QED
        BY <3>1, <3>2, <1>14, <1>15, Zenon
    <2>. QED
      BY <2>1, <2>2
  <1>20. ASSUME NEW r \in Ids, delivered'[r] > 1
         PROVE  \E c \in cursors' : Before(c, r)' /\ r < c
    <2>1. CASE r \notin page
      BY <2>1, <1>0, <1>11, <1>14, <1>15, <1>20, Zenon DEF ExactUpToInversions
    <2>2. CASE r \in page
      <3>1. delivered[r] > 0 /\ (cursor = 0 \/ r < cursor)
        BY <2>2, <1>3, <1>7, <1>11, <1>20, Zenon
      <3>2. ~(cursor # 0 /\ r >= cursor)
        BY <3>1, <1>5, <1>8, <1>9, SMT
      <3>. QED
        BY <3>1, <3>2, <1>0, <1>14, <1>15, Zenon DEF NotAgain
    <2>. QED
      BY <2>1, <2>2
  <1>21. more <=> state' # "done"
    BY <1>4
  <1>22. StillToCome'
    BY <1>0, <1>18, <1>21, Zenon DEF StillToCome
  <1>23. NotAgain'
    BY <1>19, <1>21, Zenon DEF NotAgain
  <1>24. ExactUpToInversions'
    BY <1>0, <1>18, <1>20, <1>21, Zenon DEF ExactUpToInversions
  <1>. QED
    BY <1>16, <1>17, <1>22, <1>23, <1>24, Zenon DEF WalkInv

\* An insertion keeps the order of the rows that are there.
LEMMA InsertKeepsInv ==
  ASSUME WalkInv, NEW id \in Ids, PageInsert(id)
  PROVE  WalkInv'
  <1>0. /\ PageTypeOK /\ Table(rows) /\ StillToCome /\ NotAgain /\ ExactUpToInversions
        /\ born' = Append(born, id) /\ rows' = rows \cup {id} /\ id \notin Range(born) /\ Len(born) < MaxRows
        /\ UNCHANGED <<stayed, cursor, state, delivered, cursors>>
    BY Zenon DEF WalkInv, PageInsert, walk
  <1>1. Table(rows)' /\ Range(born)' = Range(born) \cup {id}
    BY <1>0, TableStays, Zenon
  <1>2. \A r, s : Before(r, s) => Before(r, s)'
    BY <1>0, BeforeStays, Zenon DEF PageTypeOK
  <1>3. PageTypeOK'
    <2>1. born' \in Seq(Ids) /\ Len(born') <= MaxRows
      BY <1>0, PaginationAssumption DEF PageTypeOK
    <2>2. rows' \subseteq Range(born)' /\ stayed' \subseteq rows'
      BY <1>0, <1>1, Zenon DEF PageTypeOK
    <2>. QED
      BY <1>0, <2>1, <2>2, Zenon DEF PageTypeOK
  <1>4. StillToCome'
    BY <1>0, <1>2, Zenon DEF StillToCome
  <1>5. NotAgain'
    BY <1>0, <1>2, Zenon DEF NotAgain
  <1>6. ExactUpToInversions'
    BY <1>0, <1>2, Zenon DEF ExactUpToInversions
  <1>. QED
    BY <1>1, <1>3, <1>4, <1>5, <1>6, Zenon DEF WalkInv

\* A deletion leaves fewer rows that stayed.
LEMMA DeleteKeepsInv ==
  ASSUME WalkInv, NEW id \in rows, PageDelete(id)
  PROVE  WalkInv'
  <1>0. /\ PageTypeOK /\ Table(rows) /\ StillToCome /\ NotAgain /\ ExactUpToInversions
        /\ rows' = rows \ {id} /\ stayed' = stayed \ {id}
        /\ UNCHANGED <<born, cursor, state, delivered, cursors>>
    BY Zenon DEF WalkInv, PageDelete, walk
  <1>1. Table(rows)'
    <2>1. IsFiniteSet(rows')
      BY <1>0, FS_RemoveElement, Zenon DEF Table
    <2>. QED
      BY <1>0, <2>1, Zenon DEF Table
  <1>2. \A r, s : Before(r, s) => Before(r, s)'
    BY <1>0, Zenon DEF Before
  <1>3. PageTypeOK'
    BY <1>0, Zenon DEF PageTypeOK
  <1>4. StillToCome'
    BY <1>0, <1>2, Zenon DEF StillToCome
  <1>5. NotAgain'
    BY <1>0, <1>2, Zenon DEF NotAgain
  <1>6. ExactUpToInversions'
    BY <1>0, <1>2, Zenon DEF ExactUpToInversions
  <1>. QED
    BY <1>1, <1>3, <1>4, <1>5, <1>6, Zenon DEF WalkInv

\* A table from which nothing was deleted yet, and no page read.
LEMMA WalkBegins == PageInit => WalkInv
  <1>. SUFFICES ASSUME PageInit PROVE WalkInv
    OBVIOUS
  <1>1. /\ rows = Range(born) /\ stayed = rows /\ cursor = 0 /\ state = "start"
        /\ delivered = [r \in Ids |-> 0] /\ cursors = {}
    BY Zenon DEF PageInit
  <1>2. PICK k \in 0..MaxRows : born \in [1..k -> Ids] /\ IsInjective(born)
    BY Zenon DEF PageInit
  <1>3. k \in Nat /\ k <= MaxRows
    BY PaginationAssumption, SMT
  <1>4. born \in Seq(Ids) /\ Len(born) = k /\ DOMAIN born = 1..k
    BY <1>2, <1>3
  <1>5. IsFiniteSet(1..k)
    BY <1>3, FS_Interval
  <1>6. IsFiniteSet(Range(born))
    <2>1. born \in [1..k -> Range(born)]
      BY <1>2, <1>4 DEF Range
    <2>2. born \in Surjection(1..k, Range(born))
      BY <2>1, <1>4, Zenon DEF Surjection, Range
    <2>. QED
      BY <1>5, <2>2, FS_Surjection, Zenon
  <1>7. Table(rows)
    BY <1>1, <1>2, <1>4, <1>6, Zenon DEF Table
  <1>8. \A r \in Ids : delivered[r] = 0 /\ ~(delivered[r] > 0) /\ ~(delivered[r] > 1) /\ delivered[r] \in 0..2
    BY <1>1, SMT
  <1>9. delivered \in [Ids -> 0..2]
    BY <1>1, SMT
  <1>10. PageTypeOK
    BY <1>1, <1>3, <1>4, <1>9, Zenon DEF PageTypeOK
  <1>11. StillToCome /\ NotAgain
    BY <1>1, <1>8, Zenon DEF StillToCome, NotAgain
  <1>12. state # "done"
    BY <1>1
  <1>13. ExactUpToInversions
    BY <1>8, <1>12, Zenon DEF ExactUpToInversions
  <1>. QED
    BY <1>7, <1>10, <1>11, <1>13, Zenon DEF WalkInv

\* Between two pages, what stayed and was not delivered is still to come and what
\* was delivered does not come again, up to inversions (ListFiles,
\* AuditLogHandler.List, ListUsers, ListAgentVersions).
THEOREM WalkInvariant == PageSpec => []WalkInv
  <1>1. PageInit => WalkInv
    BY WalkBegins
  <1>2. WalkInv /\ [PageNext]_pageVars => WalkInv'
    <2>. SUFFICES ASSUME WalkInv, [PageNext]_pageVars PROVE WalkInv'
      OBVIOUS
    <2>1. CASE \E n \in Requested : List(n)
      BY <2>1, ListKeepsInv, Zenon
    <2>2. CASE \E id \in Ids : PageInsert(id)
      BY <2>2, InsertKeepsInv, Zenon
    <2>3. CASE \E id \in rows : PageDelete(id)
      BY <2>3, DeleteKeepsInv, Zenon
    <2>4. CASE UNCHANGED pageVars
      <3>1. UNCHANGED <<born, rows, cursor, state, delivered, stayed, cursors>>
        BY <2>4, Zenon DEF pageVars
      <3>2. PageTypeOK' /\ Table(rows)' /\ \A r, s : Before(r, s) => Before(r, s)'
        BY <3>1, Zenon DEF WalkInv, PageTypeOK, Table, Before
      <3>3. StillToCome' /\ NotAgain'
        BY <3>1, <3>2, Zenon DEF WalkInv, StillToCome, NotAgain
      <3>4. ExactUpToInversions'
        BY <3>1, <3>2, Zenon DEF WalkInv, ExactUpToInversions
      <3>. QED
        BY <3>2, <3>3, <3>4, Zenon DEF WalkInv
    <2>. QED
      BY <2>1, <2>2, <2>3, <2>4, Zenon DEF PageNext
  <1>. QED
    BY <1>1, <1>2, PTL DEF PageSpec

\* A walk over the pages of a list misses a row that stays, or delivers one twice,
\* only where some cursor's row was created on the other side of it than its id
\* says (ListFiles, AuditLogHandler.List, ListUsers, ListAgentVersions), for any
\* table, limits, insertions and deletions.
THEOREM WalksExact == PageSpec => []ExactUpToInversions
  <1>1. WalkInv => ExactUpToInversions
    BY Zenon DEF WalkInv
  <1>. QED
    BY <1>1, WalkInvariant, PTL

=============================================================================
