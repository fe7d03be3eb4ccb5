------------------------------ MODULE LocalCA ------------------------------
(***************************************************************************)
(* The certificates of the local web UI (agent/localui/localca.go and      *)
(* Serve in server.go): the four PEM files of the per-device CA and its    *)
(* localhost certificate, made when missing and rotated when Serve starts. *)
(* Each file is truncated and written in place, one after the other; the   *)
(* agent may stop, and a write fail, at any point of that.                 *)
(***************************************************************************)
EXTENDS Naturals

CONSTANTS
    certValidity, renewBefore,  \* of the localhost certificate
    WebMaxTime,
    WebMaxFaults                   \* stops and errors in Serve's preparations

ASSUME LocalCAAssumption ==
    /\ {certValidity, renewBefore, WebMaxTime, WebMaxFaults} \subseteq Nat
    /\ renewBefore <= certValidity

VARIABLES
    webNow,
    webPc,         \* where Serve is
    caCrt, caKey, webCrt, webKey,     \* the files
    gen,        \* key pairs generated so far
    served,     \* the certificate Serve loaded
    webFaults

webVars == <<webNow, webPc, caCrt, caKey, webCrt, webKey, gen, served, webFaults>>
ca == <<caCrt, caKey>>
leaf == <<webCrt, webKey>>

\* A file is absent, torn, or has the key pair it belongs to; a localhost
\* certificate also names the CA that signed it and its last day.
File(p, by, end) == [pair |-> p, by |-> by, notAfter |-> end]
WebAbsent == File(0, 0, 0)
WebTorn == File(1, 0, 0)
Files == [pair : Nat, by : Nat, notAfter : Nat]
Readable(f) == f.pair > 1

\* Files, clock and the position of Serve have their types; only keys that have
\* been generated occur.
WebTypeOK ==
    /\ webNow \in 0..WebMaxTime /\ webFaults \in 0..WebMaxFaults /\ gen \in Nat
    /\ webPc \in {"down", "caKey", "cert", "key", "load", "failed", "serving"}
    /\ {caCrt, caKey, webCrt, webKey, served} \subseteq Files
    /\ \A f \in {caCrt, caKey, webCrt, webKey, served} : f.pair <= gen /\ f.by <= gen

WebInit ==
    /\ webNow = 0 /\ webPc = "down" /\ webFaults = 0 /\ gen = 1
    /\ caCrt = WebAbsent /\ caKey = WebAbsent /\ webCrt = WebAbsent /\ webKey = WebAbsent
    /\ served = WebAbsent

-----------------------------------------------------------------------------
(* Serve *)

fileExists(f) == f # WebAbsent

\* EnsureCA: keep the files, or generateCA up to the certificate's write
EnsureCA ==
    /\ webPc = "down"
    /\ IF fileExists(caCrt) /\ fileExists(caKey)
       THEN webPc' = "cert" /\ UNCHANGED <<caCrt, gen>>
       ELSE /\ gen' = gen + 1 /\ caCrt' = File(gen + 1, gen + 1, 0)
            /\ webPc' = "caKey"
    /\ UNCHANGED <<webNow, caKey, leaf, served, webFaults>>

WriteCAKey ==
    /\ webPc = "caKey"
    /\ caKey' = File(caCrt.pair, 0, 0)
    /\ webPc' = "cert"
    /\ UNCHANGED <<webNow, caCrt, leaf, gen, served, webFaults>>

needsRotationLate == ~Readable(webCrt) \/ webNow > webCrt.notAfter

needsRotation == ~Readable(webCrt) \/ webNow + renewBefore > webCrt.notAfter

CertIsGood == fileExists(webCrt) /\ fileExists(webKey) /\ ~needsRotation

\* loadCA parses both files; signing refuses a key that is not the certificate's
CAIsGood == Readable(caCrt) /\ caCrt.pair = caKey.pair

\* EnsureCert: keep the files, fail to load the CA, or issueCert up to the
\* certificate's write
EnsureCert ==
    /\ webPc = "cert"
    /\ \/ CertIsGood /\ webPc' = "load" /\ UNCHANGED <<webCrt, gen>>
       \/ ~CertIsGood /\ ~CAIsGood /\ webPc' = "failed" /\ UNCHANGED <<webCrt, gen>>
       \/ /\ ~CertIsGood /\ CAIsGood
          /\ gen' = gen + 1 /\ webCrt' = File(gen + 1, caCrt.pair, webNow + certValidity)
          /\ webPc' = "key"
    /\ UNCHANGED <<webNow, ca, webKey, served, webFaults>>

WriteKey ==
    /\ webPc = "key"
    /\ webKey' = File(webCrt.pair, 0, 0)
    /\ webPc' = "load"
    /\ UNCHANGED <<webNow, ca, webCrt, gen, served, webFaults>>

\* tls.LoadX509KeyPair refuses a torn file and a key of another certificate
TLSConfig ==
    /\ webPc = "load"
    /\ IF Readable(webCrt) /\ webCrt.pair = webKey.pair
       THEN served' = webCrt /\ webPc' = "serving"
       ELSE webPc' = "failed" /\ UNCHANGED served
    /\ UNCHANGED <<webNow, ca, leaf, gen, webFaults>>

\* Between two writes, or within the one that pc announces, the agent stops, or Serve returns
\* the error of the write or of net.Listen: runAgent logs it and goes on without its UI.
WebStop ==
    /\ webPc \in {"down", "caKey", "cert", "key", "load"} /\ webFaults < WebMaxFaults
    /\ webFaults' = webFaults + 1
    /\ webPc' \in {"down", "failed"} /\ served' = WebAbsent
    /\ \/ UNCHANGED <<ca, leaf>>
       \/ /\ webPc = "down" /\ ~(fileExists(caCrt) /\ fileExists(caKey))
          /\ caCrt' = WebTorn /\ UNCHANGED <<caKey, leaf>>
       \/ webPc = "caKey" /\ caKey' = WebTorn /\ UNCHANGED <<caCrt, leaf>>
       \/ webPc = "cert" /\ ~CertIsGood /\ CAIsGood /\ webCrt' = WebTorn /\ UNCHANGED <<ca, webKey>>
       \/ webPc = "key" /\ webKey' = WebTorn /\ UNCHANGED <<ca, webCrt>>
    /\ UNCHANGED <<webNow, gen>>

\* Somebody restarts the agent while it serves, or after Serve gave up; nothing in the agent does.
WebRestart ==
    /\ webPc \in {"serving", "failed"}
    /\ webPc' = "down" /\ served' = WebAbsent
    /\ UNCHANGED <<webNow, ca, leaf, gen, webFaults>>

\* preparations take no time worth counting
WebTick ==
    /\ webNow < WebMaxTime /\ webPc \in {"down", "serving", "failed"}
    /\ webNow' = webNow + 1
    /\ UNCHANGED <<webPc, ca, leaf, gen, served, webFaults>>

Serve == EnsureCA \/ WriteCAKey \/ EnsureCert \/ WriteKey \/ TLSConfig
WebNext == Serve \/ WebStop \/ WebRestart \/ WebTick

WebSpec == WebInit /\ [][WebNext]_webVars

-----------------------------------------------------------------------------
(* Properties *)

\* The UI only ever serves a certificate whose private key it holds and that the
\* CA in the trust store signed, whatever was interrupted before (Serve).
ServesItsOwn == webPc = "serving" => served.pair = webKey.pair /\ served.by = caCrt.pair

\* When Serve comes up, its certificate has at least renewBefore to live.
ServesFresh == [][(webPc # "serving" /\ webPc' = "serving") => webNow + renewBefore <= served'.notAfter]_webVars

\* An interrupted rotation is made good by the first Serve in the rotation window: a Serve that
\* nothing disturbs gives up only while the certificate whose key is missing is not due, or if
\* the write of the CA's key was cut off, which nothing repairs.
GivesUpOnlyEarly ==
    [][Serve /\ webPc' = "failed"
         => caKey = WebTorn \/ webNow + renewBefore <= webCrt.notAfter]_webVars

\* docs/LOCAL_UI_CLI_SPEC.md:63: the localhost certificate is "Rotated
\* automatically by the agent before expiry".
NeverServesExpired == webPc = "serving" => webNow <= served.notAfter

\* The web UI serves a certificate that its own CA has signed and that was not due
\* for rotation when it was loaded, and whatever interrupted Serve before, it comes
\* up again once the certificate is due (Serve, EnsureCA, EnsureCert).
ServesItsCertificate == []ServesItsOwn /\ ServesFresh /\ GivesUpOnlyEarly

=============================================================================
