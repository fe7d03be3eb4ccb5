---------------------------- MODULE Certificates ----------------------------
(***************************************************************************)
(* One device's client certificates, on both sides:                        *)
(*                                                                         *)
(*   server/auth/mtls.go, server/api/renew.go, RevokeDevice and the        *)
(*   update of the device in a check-in                                    *)
(*   agent/renewal/renewal.go, agent/tlsutil/tls.go, runDaemon             *)
(*                                                                         *)
(* The agent renews when it starts, writes certificate and key one after   *)
(* the other, and keeps its connection to the server open; the server      *)
(* looks at the certificate of the connection on every request.  Handlers  *)
(* may outlive the agent that called them, and the operator may revoke the *)
(* device while they run.                                                  *)
(***************************************************************************)
EXTENDS Naturals, Sequences, FiniteSets

CONSTANTS
    Validity,       \* defaultCertValidity
    Threshold,      \* RenewalThreshold
    Slots,          \* renewal requests the server may be handling at once
    MaxCerts, MaxTime,
    MaxFaults       \* lost replies, stopped agents and failed writes

ASSUME CertificatesAssumption ==
    {Validity, Threshold, MaxCerts, MaxTime, MaxFaults} \subseteq Nat

VARIABLES
    now,
    certs,      \* the rows of agent_certificates
    status,     \* of the device row
    crt, key,   \* the files, by the certificate they belong to (0: torn)
    pc,         \* where runDaemon is
    mem,        \* the CertProvider's certificate
    conn,       \* the certificate of the open connection (0: none)
    slot,       \* the renewal request the agent waits for
    req,        \* the renewals the server handles
    checkin,    \* a check-in is past the middleware
    last,       \* what the last check-in got
    late,       \* the handlers that finished after the device was revoked
    everRevoked, overlap, due,
    faults

vars == <<now, certs, status, crt, key, pc, mem, conn, slot, req, checkin, last, late,
          everRevoked, overlap, due, faults>>
disk == <<crt, key>>
history == <<late, everRevoked, overlap, due>>
server == <<certs, status, req, checkin>>

NoReq == [pc |-> "idle", supersede |-> {}, cert |-> 0]
NoSlot == "none"

\* Rows, files, requests and program counters have their types.
TypeOK ==
    /\ now \in 0..MaxTime /\ faults \in 0..MaxFaults /\ Len(certs) <= MaxCerts
    /\ certs \in Seq([exp : 0..(MaxTime + Validity), revoked : BOOLEAN])
    /\ status \in {"online", "revoked"}
    /\ {crt, key, mem, conn} \subseteq 0..Len(certs)
    /\ pc \in {"down", "renew", "waiting", "crt", "key", "swap", "run"}
    /\ slot \in Slots \cup {NoSlot}
    /\ req \in [Slots -> [pc : {"idle", "sign", "commit", "ok"},
                          supersede : SUBSET (1..Len(certs)), cert : 0..Len(certs)]]
    /\ checkin \in BOOLEAN /\ last \in {"none", "ok", "expired", "revoked"}
    /\ late \subseteq {"renew", "checkin"}
    /\ {everRevoked, overlap, due} \subseteq BOOLEAN

Init ==
    /\ now = 0 /\ faults = 0 /\ status = "online"
    /\ certs = <<[exp |-> Validity, revoked |-> FALSE]>>
    /\ crt = 1 /\ key = 1 /\ pc = "down" /\ mem = 0 /\ conn = 0
    /\ slot = NoSlot /\ req = [s \in Slots |-> NoReq]
    /\ checkin = FALSE /\ last = "none"
    /\ late = {} /\ everRevoked = FALSE /\ overlap = FALSE /\ due = FALSE

Fault == faults < MaxFaults /\ faults' = faults + 1

Live == {c \in 1..Len(certs) : ~certs[c].revoked}

-----------------------------------------------------------------------------
(* The mTLS middleware *)

\* What the middleware answers a request made with certificate c
Refusal(c) ==
    CASE now > certs[c].exp -> "expired"
      [] certs[c].revoked \/ status = "revoked" -> "revoked"
      [] OTHER -> "ok"

\* A request goes over the open connection, or opens one with the CertProvider's
\* certificate
Presented == IF conn # 0 THEN conn ELSE mem

-----------------------------------------------------------------------------
(* The agent *)

NeedsRenewal(c) == certs[c].exp <= now + Threshold

\* runDaemon loads the key pair; without a matching pair it fails
Start ==
    /\ pc = "down" /\ crt = key /\ crt # 0
    /\ mem' = crt /\ conn' = 0 /\ last' = "none" /\ due' = FALSE
    /\ pc' = IF NeedsRenewal(crt) THEN "renew" ELSE "run"
    /\ UNCHANGED <<now, disk, slot, server, late, everRevoked, overlap, faults>>

\* Renew: the request reaches a handler, or is refused and runDaemon goes on
Renew ==
    /\ pc = "renew" /\ conn' = Presented
    /\ \/ /\ Refusal(Presented) = "ok"
          /\ \E s \in Slots :
               /\ req[s].pc = "idle"
               /\ Cardinality({o \in Slots : req[o].pc \in {"sign", "commit"}}) + Len(certs)
                    < MaxCerts
               /\ req' = [req EXCEPT ![s] = [NoReq EXCEPT !.pc = "sign"]]
               /\ slot' = s
          /\ pc' = "waiting"
       \/ /\ Refusal(Presented) # "ok"
          /\ pc' = "run" /\ UNCHANGED <<slot, req>>
    /\ UNCHANGED <<now, certs, status, disk, mem, checkin, last, history, faults>>

Reply ==
    /\ pc = "waiting" /\ req[slot].pc = "ok"
    /\ pc' = "crt"
    /\ UNCHANGED <<now, disk, mem, conn, slot, server, last, history, faults>>

\* SaveRenewal
SaveCrt ==
    /\ pc = "crt"
    /\ crt' = req[slot].cert /\ pc' = "key"
    /\ UNCHANGED <<now, key, mem, conn, slot, server, last, history, faults>>

SaveKey ==
    /\ pc = "key"
    /\ key' = req[slot].cert /\ pc' = "swap"
    /\ UNCHANGED <<now, crt, mem, conn, slot, server, last, history, faults>>

\* Swap loads the new pair; connections that are open stay open
Swap ==
    /\ pc = "swap"
    /\ mem' = (IF crt = key THEN crt ELSE mem) /\ pc' = "run"
    /\ req' = [req EXCEPT ![slot] = NoReq] /\ slot' = NoSlot
    /\ UNCHANGED <<now, certs, status, disk, conn, checkin, last, history, faults>>

\* The answer is lost or a file cannot be written: runDaemon goes on with what
\* it has
Abandon ==
    /\ pc \in {"waiting", "crt", "key"} /\ Fault
    /\ pc' = "run" /\ slot' = NoSlot /\ conn' = IF pc = "waiting" THEN 0 ELSE conn
    /\ req' = IF req[slot].pc = "ok" THEN [req EXCEPT ![slot] = NoReq] ELSE req
    /\ UNCHANGED <<now, certs, status, disk, mem, checkin, last, history>>

\* A check-in of the poller meets the middleware
Checkin ==
    /\ pc = "run" /\ ~checkin
    /\ conn' = Presented
    /\ checkin' = (Refusal(Presented) = "ok")
    /\ last' = Refusal(Presented)
    /\ due' = (due \/ (Refusal(Presented) = "ok" /\ NeedsRenewal(Presented)))
    /\ UNCHANGED <<now, certs, status, disk, pc, mem, slot, req, late, everRevoked,
                   overlap, faults>>

\* The agent stops, for a restart or in the middle of writing a file
Stop ==
    /\ pc # "down"
    /\ pc \in {"run", "renew"} \/ faults < MaxFaults
    /\ faults' = IF pc \in {"run", "renew"} THEN faults ELSE faults + 1
    /\ pc' = "down" /\ mem' = 0 /\ conn' = 0 /\ slot' = NoSlot
    /\ crt' \in (IF pc = "crt" THEN {crt, 0} ELSE {crt})
    /\ key' \in (IF pc = "key" THEN {key, 0} ELSE {key})
    /\ req' = IF slot # NoSlot /\ req[slot].pc = "ok" THEN [req EXCEPT ![slot] = NoReq]
                                                      ELSE req
    /\ UNCHANGED <<now, certs, status, checkin, last, history>>

Drop ==
    /\ pc = "run" /\ conn # 0
    /\ conn' = 0
    /\ UNCHANGED <<now, disk, pc, mem, slot, server, last, history, faults>>

Tick ==
    /\ now < MaxTime /\ now' = now + 1
    /\ UNCHANGED <<disk, pc, mem, conn, slot, server, last, history, faults>>

-----------------------------------------------------------------------------
(* The server's handlers *)

SupersedeNone(s) ==
    /\ req[s].pc = "sign"
    /\ req' = [req EXCEPT ![s].pc = "commit"]
    /\ overlap' = (overlap \/ \E o \in Slots \ {s} : req[o].pc = "commit")
    /\ UNCHANGED <<now, certs, status, disk, pc, mem, conn, slot, checkin, last, late,
                   everRevoked, due, faults>>

\* In its transaction the renewal inserts the new certificate and revokes the
\* others: those its UPDATE sees, which are the committed ones
Supersede(s) ==
    /\ req[s].pc = "sign"
    /\ req' = [req EXCEPT ![s].pc = "commit", ![s].supersede = Live]
    /\ overlap' = (overlap \/ \E o \in Slots \ {s} : req[o].pc = "commit")
    /\ UNCHANGED <<now, certs, status, disk, pc, mem, conn, slot, checkin, last, late,
                   everRevoked, due, faults>>

\* The commit.  A caller that is gone gets no answer.
Commit(s) ==
    /\ req[s].pc = "commit"
    /\ certs' = Append([c \in 1..Len(certs) |->
                          IF c \in req[s].supersede THEN [certs[c] EXCEPT !.revoked = TRUE]
                                                    ELSE certs[c]],
                       [exp |-> now + Validity, revoked |-> FALSE])
    /\ req' = [req EXCEPT ![s] = IF s = slot THEN [NoReq EXCEPT !.pc = "ok", !.cert = Len(certs) + 1]
                                             ELSE NoReq]
    /\ late' = IF everRevoked THEN late \cup {"renew"} ELSE late
    /\ UNCHANGED <<now, status, disk, pc, mem, conn, slot, checkin, last, everRevoked,
                   overlap, due, faults>>

\* The check-in handler updates the device row
UpdateDevice ==
    /\ checkin
    /\ status' = "online" /\ checkin' = FALSE
    /\ late' = IF everRevoked THEN late \cup {"checkin"} ELSE late
    /\ UNCHANGED <<now, certs, disk, pc, mem, conn, slot, req, last, everRevoked, overlap,
                   due, faults>>

\* RevokeDevice: the device and its certificates in one transaction
RevokeDevice ==
    /\ status # "revoked" /\ ~everRevoked
    /\ status' = "revoked" /\ everRevoked' = TRUE
    /\ certs' = [c \in 1..Len(certs) |-> [certs[c] EXCEPT !.revoked = TRUE]]
    /\ UNCHANGED <<now, disk, pc, mem, conn, slot, req, checkin, last, late, overlap, due,
                   faults>>

-----------------------------------------------------------------------------
Next ==
    \/ Start \/ Renew \/ Reply \/ SaveCrt \/ SaveKey \/ Swap \/ Abandon \/ Checkin
    \/ Stop \/ Drop \/ Tick \/ UpdateDevice \/ RevokeDevice
    \/ \E s \in Slots : Supersede(s) \/ Commit(s)

Spec == Init /\ [][Next]_vars

-----------------------------------------------------------------------------
(* Properties *)

\* While no reply is lost, no write fails and the agent is not stopped in the
\* middle of a renewal, the running agent's files hold a pair that belongs
\* together, that the CertProvider uses, and that no renewal has superseded.
CurrentUnlessFault ==
    pc = "run" /\ faults = 0 /\ ~everRevoked => crt = key /\ mem = crt /\ ~certs[crt].revoked

\* A device has one certificate that is not revoked, unless two renewals of it
\* were in their transactions at once.
OneLiveUnlessOverlap == ~overlap => \A c, d \in Live : c = d

\* A revoked device stays out, even when a renewal or a check-in that was under
\* way at the revocation finishes afterwards: only both together, a certificate
\* issued late and a status set late, let it in again.
RevokedStaysOut ==
    everRevoked /\ late # {"renew", "checkin"} =>
        \A c \in 1..Len(certs) : Refusal(c) # "ok"

\* A revoked agent must enroll again to regain access (SECURITY.md:48): from
\* the revocation on, no certificate of the device is accepted.
RevocationIsFinal == everRevoked => \A c \in 1..Len(certs) : Refusal(c) # "ok"

\* Graceful rollover (server/api/renew.go:70-73): an agent that has swapped to a
\* live certificate is not refused as revoked.
GracefulRollover ==
    pc = "run" /\ last = "revoked" => everRevoked \/ certs[mem].revoked

\* Renewal never causes downtime (docs/AGENT_AUTH_SPEC.md:138): the certificate
\* on the agent's disk stays valid until it expires, whenever no renewal is under way.
NoDowntime ==
    pc \in {"down", "run"} /\ ~everRevoked /\ crt = key /\ crt # 0 => Refusal(crt) # "revoked"

\* Each check-in looks at the expiry (docs/IMPLEMENTATION_PLAN.md:267): an agent
\* whose check-ins are answered within the renewal threshold never presents an
\* expired certificate.
CheckinsRenew == due /\ faults = 0 => last # "expired"

\* The certificates of a device: the running agent holds the pair of its live
\* certificate unless something failed, one certificate is live unless renewals
\* overlapped, and a revoked device stays out.
CertificatesSafe == CurrentUnlessFault /\ OneLiveUnlessOverlap /\ RevokedStaysOut

=============================================================================
