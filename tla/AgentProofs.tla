------------------------------- MODULE AgentProofs -------------------------------
(***************************************************************************)
(* Theorems about the agent and its device.                                *)
(* The CDM manager, for every clock bound, every set of session lengths    *)
(* and every number of faults: the user's word governs the gate and        *)
(* survives in the file, and the manager implements CdmMode.  The device's *)
(* certificates, for any validity, threshold and number of renewals at     *)
(* once: what it takes to let a revoked device in again, to leave it with  *)
(* two live certificates, and to leave its agent with files that do not    *)
(* fit.  The agent's update of itself, for any jobs, errors and stops:     *)
(* what is installed, recorded, kept for a rollback and undone.  The       *)
(* inventory, for any packages, full inventories and faults: the server    *)
(* has what the agent last reported, with the exceptions named.  The       *)
(* certificate of the local UI, for any lifetimes, faults and restarts:    *)
(* what is served is its own and fresh.                                    *)
(***************************************************************************)
EXTENDS Cdm, Certificates, AgentUpdate, Inventory, LocalCA, TLAPS

-----------------------------------------------------------------------------
(* The local UI's certificate *)

\* The CA's files belong together, unless the key is absent or cut off.
CAInv == fileExists(caKey) => caKey = WebTorn \/ CAIsGood

\* A localhost certificate that can be read is one of the CA in the files, which
\* is not made again once both of its files are there; and what Serve is about
\* to load is not due for rotation.
WebInv ==
    /\ WebTypeOK /\ gen > 0 /\ (fileExists(caKey) => fileExists(caCrt))
    /\ Readable(webCrt) => fileExists(caCrt) /\ fileExists(caKey) /\ webCrt.by = caCrt.pair
    /\ CAInv
    /\ webPc = "caKey" => Readable(caCrt) /\ ~fileExists(caKey)
    /\ webPc \in {"cert", "key", "load"} => fileExists(caCrt) /\ fileExists(caKey)
    /\ webPc = "key" => Readable(webCrt)
    /\ webPc \in {"key", "load"} => webNow + renewBefore <= webCrt.notAfter
    /\ webPc = "serving" => served = webCrt /\ Readable(webCrt) /\ webCrt.pair = webKey.pair

\* The type of a file, and the types of all of them.
WebTyped(f) == f \in Files /\ f.pair <= gen /\ f.by <= gen

WebTypesIn ==
    /\ webNow \in 0..WebMaxTime /\ webFaults \in 0..WebMaxFaults /\ gen \in Nat
    /\ webPc \in {"down", "caKey", "cert", "key", "load", "failed", "serving"}
    /\ WebTyped(caCrt) /\ WebTyped(caKey) /\ WebTyped(webCrt) /\ WebTyped(webKey) /\ WebTyped(served)

\* The types of the local UI's files, answers and certificates, field by field.
LEMMA WebTypes == (WebTypeOK <=> WebTypesIn) /\ (WebTypeOK' <=> WebTypesIn')
  BY Zenon DEF WebTypeOK, WebTypesIn, WebTyped

\* What files are of, and that they are there unless they are absent.
LEMMA WebFiles ==
    /\ WebAbsent \in Files /\ WebAbsent.pair = 0 /\ WebAbsent.by = 0
    /\ WebTorn \in Files /\ WebTorn.pair = 1 /\ WebTorn.by = 0
    /\ \A f \in Files : f.pair \in Nat /\ f.by \in Nat /\ f.notAfter \in Nat
    /\ \A f \in Files : f.pair > 0 => fileExists(f)
  BY DEF WebAbsent, WebTorn, File, Files, fileExists

\* The preparations of Serve keep the invariant.
LEMMA WebServeStep ==
    ASSUME WebInv, Serve
    PROVE  WebInv'
  <1>0. /\ webNow \in Nat /\ gen \in Nat /\ gen > 0
        /\ WebTyped(caCrt) /\ WebTyped(caKey) /\ WebTyped(webCrt) /\ WebTyped(webKey) /\ WebTyped(served)
        /\ \A f \in {caCrt, caKey, webCrt, webKey, served} : WebTyped(f) /\ f.pair \in Nat /\ f.notAfter \in Nat
    BY WebTypes, WebFiles, LocalCAAssumption DEF WebTypesIn, WebInv, WebTyped
  <1>2. CASE EnsureCA
    <2>1. CASE fileExists(caCrt) /\ fileExists(caKey)
      BY <1>2, <2>1, Zenon DEF EnsureCA, WebTypeOK, WebInv, CAInv, CAIsGood, leaf, Readable, fileExists
    <2>2. CASE ~(fileExists(caCrt) /\ fileExists(caKey))
      <3>1. /\ gen' = gen + 1 /\ caCrt' = File(gen + 1, gen + 1, 0) /\ webPc = "down" /\ webPc' = "caKey"
            /\ UNCHANGED <<webNow, caKey, webCrt, webKey, served, webFaults>>
        BY <1>2, <2>2, Zenon DEF EnsureCA, leaf
      <3>2. caCrt' \in Files /\ caCrt'.pair = gen + 1 /\ caCrt'.by = gen + 1
        BY <1>0, <3>1 DEF File, Files
      <3>3. WebTyped(caCrt)' /\ WebTyped(caKey)' /\ WebTyped(webCrt)' /\ WebTyped(webKey)' /\ WebTyped(served)'
        BY <1>0, <3>1, <3>2, WebFiles DEF WebTyped
      <3>4. WebTypeOK'
        BY <1>0, <3>1, <3>3, WebTypes DEF WebTypesIn, WebInv
      <3>5. ~Readable(webCrt) /\ ~fileExists(caKey)
        BY <2>2, Zenon DEF WebInv
      <3>6. CAInv'
        BY <3>1, <3>5, Zenon DEF CAInv, fileExists
      <3> QED BY <1>0, <3>1, <3>2, <3>4, <3>5, <3>6 DEF WebInv, Readable, fileExists
    <2> QED BY <2>1, <2>2, Zenon
  <1>3. CASE WriteCAKey
    <2>1. /\ caKey' = File(caCrt.pair, 0, 0) /\ webPc' = "cert" /\ webPc = "caKey"
          /\ UNCHANGED <<webNow, caCrt, webCrt, webKey, gen, served, webFaults>>
      BY <1>3, Zenon DEF WriteCAKey, leaf
    <2>2. caKey' \in Files /\ caKey'.pair = caCrt.pair /\ caKey'.by = 0
      BY <1>0, <2>1, Zenon DEF File, Files
    <2>3. caCrt.pair > 0 /\ caCrt \in Files
      BY <1>0, <2>1 DEF WebInv, Readable, WebTyped
    <2>4. WebTypeOK'
      BY <1>0, <2>1, <2>2, WebTypes DEF WebTypesIn, WebInv, WebTyped
    <2>5. fileExists(caCrt) /\ fileExists(caKey)'
      BY <2>2, <2>3, WebFiles, Zenon DEF fileExists
    <2>6. ~Readable(webCrt)
      BY <2>1, Zenon DEF WebInv
    <2>7. CAInv'
      BY <2>1, <2>2, Zenon DEF WebInv, CAInv, CAIsGood, Readable
    <2> QED BY <2>1, <2>4, <2>5, <2>6, <2>7, Zenon DEF WebInv, fileExists, Readable
  <1>4. CASE EnsureCert
    <2>1. CASE CertIsGood /\ webPc' = "load" /\ UNCHANGED <<webCrt, gen>>
      <3>1. UNCHANGED <<webNow, caCrt, caKey, webCrt, webKey, gen, served, webFaults>> /\ webPc = "cert"
        BY <1>4, <2>1, Zenon DEF EnsureCert, ca
      <3>2. webNow + renewBefore <= webCrt.notAfter
        BY <1>0, <2>1, LocalCAAssumption DEF CertIsGood, needsRotation
      <3> QED BY <2>1, <3>1, <3>2, Zenon DEF WebInv, CAInv, CAIsGood, WebTypeOK, Readable, fileExists
    <2>2. CASE webPc' = "failed" /\ UNCHANGED <<webCrt, gen>>
      BY <1>4, <2>2, Zenon DEF EnsureCert, ca, WebInv, CAInv, CAIsGood, WebTypeOK, Readable, fileExists
    <2>3. CASE /\ gen' = gen + 1 /\ webCrt' = File(gen + 1, caCrt.pair, webNow + certValidity)
               /\ webPc' = "key"
      <3>1. UNCHANGED <<webNow, caCrt, caKey, webKey, served, webFaults>> /\ webPc = "cert"
        BY <1>4, Zenon DEF EnsureCert, ca
      <3>2. /\ webCrt' \in Files /\ webCrt'.pair = gen + 1 /\ webCrt'.by = caCrt.pair
            /\ webCrt'.notAfter = webNow + certValidity
        BY <1>0, <2>3, LocalCAAssumption DEF File, Files
      <3>3. WebTyped(caCrt)' /\ WebTyped(caKey)' /\ WebTyped(webCrt)' /\ WebTyped(webKey)' /\ WebTyped(served)'
        BY <1>0, <2>3, <3>1, <3>2, WebFiles DEF WebTyped
      <3>4. WebTypeOK'
        BY <1>0, <2>3, <3>1, <3>3, WebTypes DEF WebTypesIn, WebInv
      <3>5. webNow + renewBefore <= webCrt'.notAfter
        BY <1>0, <3>2, LocalCAAssumption
      <3>6. CAInv'
        BY <3>1, Zenon DEF WebInv, CAInv, CAIsGood, Readable, fileExists
      <3> QED BY <1>0, <2>3, <3>1, <3>2, <3>4, <3>5, <3>6 DEF WebInv, Readable, fileExists
    <2> QED BY <1>4, <2>1, <2>2, <2>3, Zenon DEF EnsureCert
  <1>5. CASE WriteKey
    <2>1. /\ webKey' = File(webCrt.pair, 0, 0) /\ webPc = "key" /\ webPc' = "load"
          /\ UNCHANGED <<webNow, caCrt, caKey, webCrt, gen, served, webFaults>>
      BY <1>5, Zenon DEF WriteKey, ca
    <2>2. webKey' \in Files /\ webKey'.pair = webCrt.pair /\ webKey'.by = 0
      BY <1>0, <2>1, Zenon DEF File, Files
    <2>3. WebTypeOK'
      BY <1>0, <2>1, <2>2, WebTypes DEF WebTypesIn, WebInv, WebTyped
    <2> QED BY <2>1, <2>3, Zenon DEF WebInv, CAInv, CAIsGood, Readable, fileExists
  <1>6. CASE TLSConfig
    BY <1>6, Zenon DEF TLSConfig, WebInv, CAInv, CAIsGood, WebTypeOK, Readable, fileExists, ca, leaf
  <1> QED BY <1>2, <1>3, <1>4, <1>5, <1>6, Zenon DEF Serve

\* The agent stops or Serve returns: a torn file is no certificate to serve.
LEMMA WebStopStep ==
    ASSUME WebInv, WebStop
    PROVE  WebInv'
  <1>1. webPc' \in {"down", "failed"} /\ UNCHANGED <<webNow, gen>> /\ served' = WebAbsent /\ webFaults' \in 0..WebMaxFaults
    BY LocalCAAssumption DEF WebStop, WebInv, WebTypeOK
  <1>2. WebTyped(WebAbsent) /\ WebTyped(WebTorn) /\ ~Readable(WebTorn) /\ fileExists(WebTorn)
    BY WebFiles DEF WebInv, WebTypeOK, WebTyped, Readable
  <1>3. /\ webNow \in 0..WebMaxTime /\ gen \in Nat
        /\ WebTyped(caCrt) /\ WebTyped(caKey) /\ WebTyped(webCrt) /\ WebTyped(webKey)
    BY WebTypes, Zenon DEF WebTypesIn, WebInv
  <1>4. \/ UNCHANGED <<caCrt, caKey, webCrt, webKey>>
        \/ /\ ~(fileExists(caCrt) /\ fileExists(caKey))
           /\ caCrt' = WebTorn /\ UNCHANGED <<caKey, webCrt, webKey>>
        \/ webPc = "caKey" /\ caKey' = WebTorn /\ UNCHANGED <<caCrt, webCrt, webKey>>
        \/ webCrt' = WebTorn /\ UNCHANGED <<caCrt, caKey, webKey>>
        \/ webKey' = WebTorn /\ UNCHANGED <<caCrt, caKey, webCrt>>
    BY Zenon DEF WebStop, ca, leaf
  <1>5. WebTyped(caCrt)' /\ WebTyped(caKey)' /\ WebTyped(webCrt)' /\ WebTyped(webKey)' /\ WebTyped(served)'
    BY <1>1, <1>2, <1>3, <1>4, Zenon DEF WebTyped
  <1>6. WebTypeOK'
    BY <1>1, <1>3, <1>5, WebTypes, Zenon DEF WebTypesIn
  <1>7. /\ (fileExists(caKey) => fileExists(caCrt))'
        /\ (Readable(webCrt) => fileExists(caCrt) /\ fileExists(caKey) /\ webCrt.by = caCrt.pair)'
    <2>1. Readable(caCrt) => fileExists(caCrt)
      BY <1>3, WebFiles DEF WebTyped, Readable
    <2> QED BY <1>1, <1>2, <1>4, <2>1, Zenon DEF WebInv, Readable, fileExists
  <1>8. CAInv'
    BY <1>4, Zenon DEF WebInv, CAInv, CAIsGood, Readable, fileExists
  <1> QED BY <1>1, <1>6, <1>7, <1>8, Zenon DEF WebInv

\* Each step keeps the invariant.
LEMMA WebStep ==
    ASSUME WebInv, [WebNext]_webVars
    PROVE  WebInv'
  <1>1. CASE UNCHANGED webVars
    BY <1>1, Zenon DEF webVars, WebInv, CAInv, CAIsGood, WebTypeOK, Readable, fileExists
  <1>2. CASE WebRestart
    <2>1. WebTypeOK'
      BY <1>2, WebFiles DEF WebRestart, WebInv, WebTypeOK, ca, leaf
    <2> QED BY <1>2, <2>1, Zenon DEF WebRestart, WebInv, CAInv, CAIsGood, ca, leaf, Readable, fileExists
  <1>3. CASE WebTick
    BY <1>3, LocalCAAssumption DEF WebTick, WebInv, CAInv, CAIsGood, WebTypeOK, Readable, fileExists, ca, leaf
  <1> QED BY <1>1, <1>2, <1>3, WebServeStep, WebStopStep, Zenon DEF WebNext

\* The inductive invariant of the localhost certificate's files, whenever Serve
\* was interrupted.
THEOREM WebInvariant == WebSpec => []WebInv
  <1>1. WebInit => WebInv
    <2>1. WebInit => WebTypeOK
      BY LocalCAAssumption, WebFiles DEF WebInit, WebTypeOK
    <2>2. WebInit => CAInv
      BY Zenon DEF WebInit, CAInv, fileExists
    <2> QED BY <2>1, <2>2, WebFiles DEF WebInit, WebInv, Readable
  <1>2. WebInv /\ [WebNext]_webVars => WebInv'
    BY WebStep, Zenon
  <1> QED BY <1>1, <1>2, PTL DEF WebSpec

\* The web UI serves a certificate of its own CA whose key it holds and that was
\* not due for rotation when it was loaded, and gives up only before the rotation is
\* due or for a CA key that was cut off (Serve), for any validity, renewal window and
\* number of interruptions.
THEOREM WebCertificateHolds == WebSpec => ServesItsCertificate
  <1>1. WebInv => ServesItsOwn
    BY Zenon DEF WebInv, ServesItsOwn
  <1>2. WebInv /\ [WebNext]_webVars =>
          [(webPc # "serving" /\ webPc' = "serving") => webNow + renewBefore <= served'.notAfter]_webVars
    <2> SUFFICES ASSUME WebInv, WebNext, webPc # "serving", webPc' = "serving"
                 PROVE  webNow + renewBefore <= served'.notAfter
      BY Zenon
    <2>1. TLSConfig
      BY Zenon DEF WebNext, Serve, EnsureCA, WriteCAKey, EnsureCert, WriteKey, WebStop, WebRestart, WebTick
    <2> QED BY <2>1, Zenon DEF TLSConfig, WebInv
  <1>3. WebInv /\ [WebNext]_webVars =>
          [Serve /\ webPc' = "failed"
             => caKey = WebTorn \/ webNow + renewBefore <= webCrt.notAfter]_webVars
    <2> SUFFICES ASSUME WebInv, Serve, webPc' = "failed"
                 PROVE  caKey = WebTorn \/ webNow + renewBefore <= webCrt.notAfter
      BY Zenon
    <2>1. CASE EnsureCert
      BY <2>1, Zenon DEF EnsureCert, WebInv, CAInv
    <2>2. CASE TLSConfig
      BY <2>2, Zenon DEF TLSConfig, WebInv
    <2> QED BY <2>1, <2>2, Zenon DEF Serve, EnsureCA, WriteCAKey, WriteKey
  <1> QED
    BY <1>1, <1>2, <1>3, WebInvariant, PTL DEF WebSpec, ServesItsCertificate, ServesFresh, GivesUpOnlyEarly

-----------------------------------------------------------------------------
(* The CDM manager *)

\* State s is what the user was told, or what is left of it after its deadline.
Agrees(s) ==
    \/ Meaning(s) = word
    \/ word.tells = "until" /\ cdmNow > word.deadline /\ Meaning(s) = Word("held")

\* Unless the user is unsure, the state of a running manager agrees with the
\* word as well as the file: without the first part, an expiry that could not
\* be written, or an enabling that copies the state to the file, could spoil
\* the second.
WordInv ==
    word.tells # "unsure" =>
        /\ up => Agrees(state)
        /\ file.kind # "torn" => Agrees(file.says)

-----------------------------------------------------------------------------
\* The record that holds the deadlines is well formed.
Sound(s) == s \in State /\ (s.active <=> s.expires # 0) /\ (s.active => s.enabled)

FileKinds == [kind : {"absent", "whole", "torn"}, says : State]

\* Saving, or failing to save, a sound state leaves a well-formed file.
LEMMA FileTypes ==
    ASSUME CdmTypeOK, NEW s, Sound(s), SavedOrNot(s)
    PROVE  /\ file' \in FileKinds /\ Sound(file'.says) /\ cdmFaults' \in 0..CdmMaxFaults
           /\ \/ file' = Whole(s)
              \/ file' \in {file, Torn}
  <1>1. Sound(Disabled) /\ Sound(file.says) /\ file \in FileKinds
    BY Zenon DEF CdmTypeOK, Sound, Disabled, State, FileKinds
  <1>2. CASE Saved(s)
    <2>1. file' = Whole(s) /\ cdmFaults' = cdmFaults
      BY <1>2, Zenon DEF Saved
    <2>2. Whole(s) \in FileKinds /\ Whole(s).says = s
      BY Zenon DEF Whole, FileKinds, Sound
    <2> QED BY <2>1, <2>2, Zenon DEF CdmTypeOK
  <1>3. CASE NotSaved
    <2>1. file' \in {file, Torn} /\ cdmFaults' \in 0..CdmMaxFaults
      BY <1>3, CdmAssumption DEF NotSaved, CdmFault, CdmTypeOK
    <2>2. Torn \in FileKinds /\ Torn.says = Disabled
      BY <1>1, Zenon DEF Torn, FileKinds, Sound
    <2> QED BY <1>1, <2>1, <2>2, Zenon
  <1> QED BY <1>2, <1>3, Zenon DEF SavedOrNot

\* Expiry keeps a state sound and never leaves an expired session.
LEMMA ExpiryTypes ==
    ASSUME NEW s, Sound(s)
    PROVE  /\ Sound(AfterExpiry(s))
           /\ ~Expired(s) => AfterExpiry(s) = s
           /\ Expired(s) => /\ s.enabled /\ AfterExpiry(s).enabled
                            /\ ~AfterExpiry(s).active
  BY Zenon DEF Sound, State, AfterExpiry, Expired

-----------------------------------------------------------------------------
\* One step at a time, TypeOK in the form the leaves use.
LEMMA TypeParts ==
    CdmTypeOK <=> /\ cdmNow \in 0..CdmMaxTime /\ up \in BOOLEAN /\ cdmFaults \in 0..CdmMaxFaults
                  /\ word \in Words /\ job \in {"none", "admitted", "executing"}
                  /\ file \in FileKinds /\ Sound(state) /\ Sound(file.says)
  BY Zenon DEF CdmTypeOK, FileKinds, Sound

\* checkExpiryLocked, on the state in memory or on the one just read.
LEMMA ExpiryStep ==
    ASSUME CdmTypeOK, NEW s, Sound(s), checkExpiryLocked(s)
    PROVE  /\ Sound(state') /\ state' = AfterExpiry(s)
           /\ file' \in FileKinds /\ Sound(file'.says) /\ cdmFaults' \in 0..CdmMaxFaults
           /\ \/ ~Expired(s) /\ file' = file
              \/ Expired(s) /\ (file' = Whole(AfterExpiry(s)) \/ file' \in {file, Torn})
  <1>1. Sound(AfterExpiry(s)) /\ state' = AfterExpiry(s)
    BY ExpiryTypes, Zenon DEF checkExpiryLocked
  <1>2. CASE Expired(s)
    <2>1. SavedOrNot(AfterExpiry(s))
      BY <1>2, Zenon DEF checkExpiryLocked
    <2> QED BY <1>1, <1>2, <2>1, FileTypes, Zenon
  <1>3. CASE ~Expired(s)
    <2>1. file' = file /\ cdmFaults' = cdmFaults
      BY <1>3, Zenon DEF checkExpiryLocked
    <2> QED BY <1>1, <1>3, <2>1, TypeParts, Zenon
  <1> QED BY <1>2, <1>3, Zenon

\* A decision, saved or not.
LEMMA DecisionStep ==
    ASSUME CdmTypeOK, NEW s, Sound(s), NEW w \in Words, Decided(s, w)
    PROVE  /\ CdmTypeOK' /\ state' = s /\ cdmNow' = cdmNow /\ up' = up /\ job' = job
           /\ \/ file' = Whole(s) /\ word' = w
              \/ file' \in {file, Torn} /\ word' = Word("unsure")
  <1>1. state' = s /\ cdmNow' = cdmNow /\ up' = up /\ job' = job /\ SavedOrNot(s)
    BY Zenon DEF Decided, SavedOrNot
  <1>2. file' \in FileKinds /\ Sound(file'.says) /\ cdmFaults' \in 0..CdmMaxFaults
    BY <1>1, FileTypes, Zenon
  <1>3. \/ file' = Whole(s) /\ word' = w
        \/ file' \in {file, Torn} /\ word' = Word("unsure")
    BY Zenon DEF Decided, Saved, NotSaved
  <1>4. Word("unsure") \in Words
    BY Zenon DEF Word, Words
  <1>5. word' \in Words
    BY <1>3, <1>4, Zenon
  <1>6. CdmTypeOK'
    BY <1>1, <1>2, <1>5, TypeParts, Zenon DEF FileKinds, Sound, CdmTypeOK
  <1> QED BY <1>1, <1>3, <1>6, Zenon

-----------------------------------------------------------------------------
\* The four decisions write sound states, with the words they are told in.
LEMMA Decisions ==
    ASSUME CdmTypeOK
    PROVE  /\ Sound(Disabled) /\ Meaning(Disabled) = Word("free") /\ Word("free") \in Words
           /\ LET s == [state EXCEPT !.enabled = TRUE] IN Sound(s) /\ Meaning(s) \in Words
           /\ \A d \in Durations : state.enabled =>
                 LET s == [state EXCEPT !.active = TRUE, !.expires = cdmNow + d]
                 IN  Sound(s) /\ Meaning(s) \in Words
           /\ state.active =>
                 LET s == [state EXCEPT !.active = FALSE, !.expires = 0]
                 IN  Sound(s) /\ Meaning(s) = Word("held") /\ Word("held") \in Words
  <1> USE DEF Sound, State, Meaning, Word, Words
  <1>1. Sound(Disabled) /\ Meaning(Disabled) = Word("free") /\ Word("free") \in Words
    BY Zenon DEF Disabled
  <1>2. Sound(state) /\ cdmNow \in Nat
    BY TypeParts
  <1>3. LET s == [state EXCEPT !.enabled = TRUE] IN Sound(s) /\ Meaning(s) \in Words
    BY <1>2, Zenon
  <1>4. ASSUME NEW d \in Durations, state.enabled
        PROVE  LET s == [state EXCEPT !.active = TRUE, !.expires = cdmNow + d]
               IN  Sound(s) /\ Meaning(s) \in Words
    <2> DEFINE s == [state EXCEPT !.active = TRUE, !.expires = cdmNow + d]
    <2>1. cdmNow + d \in Nat /\ cdmNow + d # 0
      BY <1>2, CdmAssumption
    <2>2. s \in State /\ s.active = TRUE /\ s.expires = cdmNow + d
      BY <1>2, <2>1, Zenon
    <2>3. s.enabled = state.enabled
      BY <1>2, Zenon
    <2> HIDE DEF s
    <2>4. Sound(s)
      BY <1>4, <2>1, <2>2, <2>3, Zenon
    <2>5. Meaning(s) \in Words
      BY <1>4, <2>1, <2>2, <2>3, Zenon
    <2> QED BY <2>4, <2>5, Zenon DEF s
  <1>5. ASSUME state.active
        PROVE  LET s == [state EXCEPT !.active = FALSE, !.expires = 0]
               IN  Sound(s) /\ Meaning(s) = Word("held") /\ Word("held") \in Words
    BY <1>2, <1>5, Zenon
  <1> QED BY <1>1, <1>3, <1>4, <1>5, Zenon

\* Enable leaves everything but the file when it cannot save.
LEMMA EnableStep ==
    ASSUME CdmTypeOK, Enable
    PROVE  LET s == [state EXCEPT !.enabled = TRUE] IN
           /\ CdmTypeOK' /\ up /\ up' = up /\ cdmNow' = cdmNow /\ job' = job
           /\ \/ state' = s /\ file' = Whole(s) /\ word' = Meaning(s)
              \/ state' = state /\ word' = word /\ file' \in {file, Torn}
  <1> DEFINE s == [state EXCEPT !.enabled = TRUE]
  <1>1. Sound(s) /\ Meaning(s) \in Words
    BY Decisions, Zenon
  <1>2. /\ up /\ up' = up /\ cdmNow' = cdmNow /\ job' = job /\ SavedOrNot(s)
        /\ \/ state' = s /\ file' = Whole(s) /\ word' = Meaning(s)
           \/ state' = state /\ word' = word /\ file' \in {file, Torn}
    BY Zenon DEF Enable, Saved, NotSaved, SavedOrNot
  <1> HIDE DEF s
  <1>3. file' \in FileKinds /\ Sound(file'.says) /\ cdmFaults' \in 0..CdmMaxFaults
    BY <1>1, <1>2, FileTypes, Zenon
  <1>4. Sound(state') /\ word' \in Words
    BY <1>1, <1>2, TypeParts, Zenon
  <1>5. CdmTypeOK'
    BY <1>2, <1>3, <1>4, TypeParts, Zenon DEF CdmTypeOK, FileKinds, Sound
  <1> QED BY <1>2, <1>5, Zenon DEF s

\* The steps that only look at the clock, on the state in memory.
LEMMA LookStep ==
    ASSUME CdmTypeOK, Snapshot \/ Admit \/ Execute
    PROVE  /\ CdmTypeOK' /\ up /\ up' = up /\ cdmNow' = cdmNow /\ word' = word
           /\ \/ state' = state /\ file' = file
              \/ checkExpiryLocked(state)
  <1>1. Sound(state) /\ job' \in {"none", "admitted", "executing"}
    BY TypeParts, Zenon DEF Snapshot, Admit, Execute
  <1>2. /\ up /\ up' = up /\ cdmNow' = cdmNow /\ word' = word
        /\ \/ state' = state /\ file' = file /\ cdmFaults' = cdmFaults
           \/ checkExpiryLocked(state)
    BY Zenon DEF Snapshot, Admit, Execute
  <1>3. CASE state' = state /\ file' = file /\ cdmFaults' = cdmFaults
    BY <1>1, <1>2, <1>3, Zenon DEF CdmTypeOK
  <1>4. CASE checkExpiryLocked(state)
    <2>1. /\ Sound(state') /\ file' \in FileKinds /\ Sound(file'.says)
          /\ cdmFaults' \in 0..CdmMaxFaults
      BY <1>1, <1>4, ExpiryStep, Zenon
    <2> QED BY <1>1, <1>2, <1>4, <2>1, TypeParts, Zenon DEF CdmTypeOK, FileKinds, Sound
  <1> QED BY <1>2, <1>3, <1>4, Zenon

\* The crash and the start.
LEMMA ProcessStep ==
    ASSUME CdmTypeOK, Crash \/ CdmStart
    PROVE  /\ CdmTypeOK' /\ cdmNow' = cdmNow /\ word' = word
           /\ \/ ~up' /\ state' = state /\ file' \in {file, Torn}
              \/ file.kind # "torn" /\ up' /\ checkExpiryLocked(file.says)
  <1>1. CASE Crash
    <2>1. /\ cdmNow' = cdmNow /\ word' = word /\ up' = FALSE /\ state' = state /\ job' = "none"
          /\ file' \in {file, Torn} /\ SavedOrNot(state)
      BY <1>1, Zenon DEF Crash, NotSaved, SavedOrNot
    <2>2. file' \in FileKinds /\ Sound(file'.says) /\ cdmFaults' \in 0..CdmMaxFaults
      BY <2>1, FileTypes, TypeParts, Zenon
    <2> QED BY <2>1, <2>2, TypeParts, Zenon DEF CdmTypeOK, FileKinds, Sound
  <1>2. CASE CdmStart
    <2>1. /\ cdmNow' = cdmNow /\ word' = word /\ up' = TRUE /\ job' = job
          /\ file.kind # "torn" /\ checkExpiryLocked(file.says)
      BY <1>2, Zenon DEF CdmStart
    <2>2. /\ Sound(state') /\ file' \in FileKinds /\ Sound(file'.says)
          /\ cdmFaults' \in 0..CdmMaxFaults
      BY <2>1, ExpiryStep, TypeParts, Zenon
    <2> QED BY <2>1, <2>2, TypeParts, Zenon DEF CdmTypeOK, FileKinds, Sound
  <1> QED BY <1>1, <1>2, Zenon

-----------------------------------------------------------------------------
(* The invariant *)

\* An expiry keeps a state in agreement with the word.
LEMMA ExpiryAgrees ==
    ASSUME CdmTypeOK, NEW s, Sound(s), Agrees(s)
    PROVE  Agrees(AfterExpiry(s))
  <1>1. CASE ~Expired(s)
    BY <1>1, ExpiryTypes, Zenon
  <1>2. CASE Expired(s)
    <2>1. AfterExpiry(s).enabled /\ ~AfterExpiry(s).active /\ s.enabled /\ s.active
      BY <1>2, ExpiryTypes, Zenon DEF Expired
    <2>2. Meaning(AfterExpiry(s)) = Word("held")
      BY <2>1, Zenon DEF Meaning
    <2>3. Meaning(s) = [tells |-> "until", deadline |-> s.expires] /\ cdmNow > s.expires
      BY <1>2, <2>1, Zenon DEF Meaning, Expired
    <2> QED BY <2>2, <2>3 DEF Agrees, Word
  <1> QED BY <1>1, <1>2, Zenon

\* Every step keeps the types.
LEMMA TypeStep == CdmTypeOK /\ [CdmNext]_cdmVars => CdmTypeOK'
  <1> SUFFICES ASSUME CdmTypeOK, [CdmNext]_cdmVars PROVE CdmTypeOK'
    BY Zenon
  <1>1. CASE Enable
    BY <1>1, EnableStep, Zenon
  <1>2. CASE Disable
    BY <1>2, Decisions, DecisionStep, Zenon DEF Disable
  <1>3. CASE RevokeSession
    BY <1>3, Decisions, DecisionStep, Zenon DEF RevokeSession
  <1>4. ASSUME NEW d \in Durations, GrantSession(d) PROVE CdmTypeOK'
    BY <1>4, Decisions, DecisionStep, Zenon DEF GrantSession
  <1>5. CASE Snapshot \/ Admit \/ Execute
    BY <1>5, LookStep, Zenon
  <1>6. CASE JobEnds
    BY <1>6, Zenon DEF JobEnds, CdmTypeOK
  <1>7. CASE Crash \/ CdmStart
    BY <1>7, ProcessStep, Zenon
  <1>8. CASE CdmTick
    BY <1>8, CdmAssumption DEF CdmTick, CdmTypeOK
  <1>9. CASE UNCHANGED cdmVars
    BY <1>9, Zenon DEF cdmVars, CdmTypeOK
  <1> QED BY <1>1, <1>2, <1>3, <1>4, <1>5, <1>6, <1>7, <1>8, <1>9, Zenon DEF CdmNext

\* A write that fails keeps the file in agreement or tears it.
LEMMA TornAgrees == Torn.kind = "torn" /\ \A s : Whole(s).says = s
  BY Zenon DEF Torn, Whole

\* Every step keeps the agreement between the word, the state and the file.
LEMMA WordStep == CdmTypeOK /\ WordInv /\ [CdmNext]_cdmVars => WordInv'
  <1> SUFFICES ASSUME CdmTypeOK, WordInv, [CdmNext]_cdmVars PROVE WordInv'
    BY Zenon
  <1>s. /\ Sound(state) /\ Sound(file.says) /\ cdmNow \in Nat /\ word \in Words
    BY TypeParts
  <1>1. CASE Enable
    <2> DEFINE s == [state EXCEPT !.enabled = TRUE]
    <2>1. \/ state' = s /\ file' = Whole(s) /\ word' = Meaning(s)
          \/ state' = state /\ word' = word /\ file' \in {file, Torn}
      BY <1>1, EnableStep, Zenon
    <2>2. up /\ up' = up /\ cdmNow' = cdmNow
      BY <1>1, EnableStep, Zenon
    <2> HIDE DEF s
    <2>3. CASE state' = s /\ file' = Whole(s) /\ word' = Meaning(s)
      BY <2>3, TornAgrees DEF WordInv, Agrees, Meaning
    <2>4. CASE state' = state /\ word' = word /\ file' \in {file, Torn}
      BY <2>2, <2>4, TornAgrees, Zenon DEF WordInv, Agrees, Meaning
    <2> QED BY <2>1, <2>3, <2>4, Zenon
  <1>2. ASSUME NEW s, Sound(s), Meaning(s) \in Words, Decided(s, Meaning(s)) PROVE WordInv'
    <2>1. /\ state' = s
          /\ \/ file' = Whole(s) /\ word' = Meaning(s)
             \/ word' = Word("unsure")
      BY <1>2, DecisionStep, Zenon
    <2>2. CASE file' = Whole(s) /\ word' = Meaning(s)
      BY <2>1, <2>2, TornAgrees DEF WordInv, Agrees, Meaning
    <2>3. CASE word' = Word("unsure")
      BY <2>3, Zenon DEF WordInv, Word
    <2> QED BY <2>1, <2>2, <2>3, Zenon
  <1>3. CASE Disable
    BY <1>2, <1>3, Decisions, Zenon DEF Disable
  <1>4. CASE RevokeSession
    BY <1>2, <1>4, Decisions, Zenon DEF RevokeSession
  <1>5. ASSUME NEW d \in Durations, GrantSession(d) PROVE WordInv'
    BY <1>2, <1>5, Decisions, Zenon DEF GrantSession
  <1>6. ASSUME NEW s, Sound(s), checkExpiryLocked(s), up' = TRUE, cdmNow' = cdmNow, word' = word,
               word.tells # "unsure" => Agrees(s)
        PROVE  WordInv'
    <2>1. state' = AfterExpiry(s)
      BY <1>6, ExpiryStep, Zenon
    <2>2. file' = Whole(AfterExpiry(s)) \/ file' \in {file, Torn}
      BY <1>6, ExpiryStep, Zenon
    <2>3. word.tells # "unsure" => Agrees(AfterExpiry(s))
      BY <1>6, ExpiryAgrees, Zenon
    <2>4. word'.tells # "unsure" => Agrees(state)'
      BY <1>6, <2>1, <2>3, Zenon DEF Agrees, Meaning
    <2>5. word'.tells # "unsure" /\ file'.kind # "torn" => Agrees(file.says)'
      BY <1>6, <2>2, <2>3, TornAgrees DEF WordInv, Agrees, Meaning
    <2> QED BY <2>4, <2>5, Zenon DEF WordInv
  <1>7. CASE Snapshot \/ Admit \/ Execute
    <2>1. /\ up /\ up' = up /\ cdmNow' = cdmNow /\ word' = word
          /\ \/ state' = state /\ file' = file
             \/ checkExpiryLocked(state)
      BY <1>7, LookStep, Zenon
    <2>2. CASE state' = state /\ file' = file
      BY <2>1, <2>2, Zenon DEF WordInv, Agrees, Meaning
    <2>3. CASE checkExpiryLocked(state)
      BY <1>s, <1>6, <2>1, <2>3, Zenon DEF WordInv, CdmTypeOK
    <2> QED BY <2>1, <2>2, <2>3, Zenon
  <1>8. CASE JobEnds
    BY <1>8, Zenon DEF JobEnds, WordInv, Agrees, Meaning
  <1>9. CASE Crash \/ CdmStart
    <2>1. /\ cdmNow' = cdmNow /\ word' = word
          /\ \/ ~up' /\ state' = state /\ file' \in {file, Torn}
             \/ file.kind # "torn" /\ up' /\ checkExpiryLocked(file.says)
      BY <1>9, ProcessStep, Zenon
    <2>2. CASE ~up' /\ state' = state /\ file' \in {file, Torn}
      BY <2>1, <2>2, TornAgrees, Zenon DEF WordInv, Agrees, Meaning
    <2>3. CASE file.kind # "torn" /\ up' /\ checkExpiryLocked(file.says)
      <3>1. up' = TRUE
        BY <1>9, <2>3, Zenon DEF Crash, CdmStart
      <3> QED BY <1>s, <1>6, <2>1, <2>3, <3>1, Zenon DEF WordInv
    <2> QED BY <2>1, <2>2, <2>3, Zenon
  <1>10. CASE CdmTick
    <2>1. /\ state' = state /\ file' = file /\ word' = word /\ up' = up
          /\ cdmNow' = cdmNow + 1
      BY <1>10, Zenon DEF CdmTick
    <2>2. \A n \in Nat : cdmNow > n => cdmNow' > n
      BY <1>s, <2>1
    <2>3. \A s : Agrees(s) => (word'.tells = "until" /\ cdmNow' > word'.deadline /\ Meaning(s) = Word("held"))
                             \/ Meaning(s) = word'
      BY <1>s, <2>1, <2>2, Zenon DEF Agrees, Words
    <2> QED BY <2>1, <2>3, Zenon DEF WordInv, Agrees, Meaning
  <1>11. CASE UNCHANGED cdmVars
    BY <1>11, Zenon DEF cdmVars, WordInv, Agrees, Meaning
  <1> QED BY <1>1, <1>3, <1>4, <1>5, <1>7, <1>8, <1>9, <1>10, <1>11, Zenon DEF CdmNext

-----------------------------------------------------------------------------
(* Theorems *)

\* The state and the file of the manager always have their types: a session
\* is there only while CDM is enabled, and always with a deadline.
THEOREM CdmTypes == CdmSpec => []CdmTypeOK
  <1>1. CdmInit => CdmTypeOK
    BY CdmAssumption DEF CdmInit, CdmTypeOK, Disabled, Absent, State, Word, Words
  <1> QED BY <1>1, TypeStep, PTL DEF CdmSpec

\* The word, the memory of a running manager and the file agree.
THEOREM WordHolds == CdmSpec => []WordInv
  <1>1. CdmInit => WordInv
    <2>1. Meaning(Disabled) = Word("free") /\ Absent.says = Disabled
      BY Zenon DEF Meaning, Disabled, Absent
    <2> QED BY <2>1, Zenon DEF CdmInit, WordInv, Agrees
  <1> QED BY <1>1, WordStep, CdmTypes, PTL DEF CdmSpec

\* What a restart would restore is what the user was last told, whatever
\* writes failed and whatever crashes came (persistLocked, New).
THEOREM FileKeeps == CdmSpec => []FileKeepsTheWord
  <1>1. WordInv => FileKeepsTheWord
    BY Zenon DEF WordInv, FileKeepsTheWord, Agrees
  <1> QED BY <1>1, WordHolds, PTL

\* CanExecuteJob admits a job only with the consent of the user.
THEOREM Consent == CdmSpec => AdmittedWithConsent
  <1>1. CdmTypeOK /\ WordInv => [Admit => Consents]_cdmVars
    <2> SUFFICES ASSUME CdmTypeOK, WordInv, Admit, word.tells # "unsure" PROVE Consents
      BY Zenon DEF Consents
    <2>1. Sound(state) /\ Agrees(state) /\ cdmNow \in Nat
      BY TypeParts DEF WordInv, Admit
    <2>2. state' = AfterExpiry(state) /\ (~state'.enabled \/ state'.active)
      BY Zenon DEF Admit, checkExpiryLocked
    <2>3. ~Expired(state) /\ state' = state
      BY <2>1, <2>2, ExpiryTypes, Zenon
    <2>4. CASE ~state.enabled
      BY <2>1, <2>4 DEF Agrees, Meaning, Word, Consents
    <2>5. CASE state.enabled /\ state.active
      <3>1. cdmNow <= state.expires
        BY <2>1, <2>3, <2>5 DEF Expired, Sound, State
      <3>2. Meaning(state) = [tells |-> "until", deadline |-> state.expires]
        BY <2>5, Zenon DEF Meaning
      <3> QED BY <2>1, <3>1, <3>2 DEF Agrees, Word, Consents
    <2> QED BY <2>2, <2>3, <2>4, <2>5, Zenon
  <1> QED BY <1>1, CdmTypes, WordHolds, PTL DEF AdmittedWithConsent

\* The mode of the running manager and the mode of its file, under the mapping.
SavedMode == IF file.kind = "torn" THEN "lost" ELSE ModeOf(file.says)

\* Every step of the manager is a step of CdmMode or leaves both modes alone.
LEMMA ModeStep ==
    ASSUME CdmTypeOK, [CdmNext]_cdmVars
    PROVE  [Mode!Next]_(Mode!vars)
  <1>s. Sound(state) /\ Sound(file.says)
    BY TypeParts, Zenon
  <1>m. \A s : ModeOf(s) \in {"off", "hold", "session"}
    BY Zenon DEF ModeOf
  <1>w. \A s : file' = Whole(s) => SavedMode' = ModeOf(s)
    BY DEF SavedMode, Whole, ModeOf
  <1>t. file' \in {file, Torn} => SavedMode' \in {SavedMode, "lost"}
    BY DEF SavedMode, Torn, ModeOf
  <1>d. ASSUME NEW s, <<ModeOf(state), ModeOf(s)>> \in Mode!Moves, state' = s,
               file' = Whole(s) \/ file' \in {file, Torn}
        PROVE  Mode!Next
    <2>1. Mode!Decide(ModeOf(s))
      BY <1>d, <1>w, <1>t, Zenon DEF Mode!Decide, SavedMode, ModeOf
    <2> QED BY <2>1, <1>m, Zenon DEF Mode!Next, Mode!Modes
  <1>k. ASSUME ModeOf(state') = ModeOf(state), SavedMode' \in {ModeOf(state), SavedMode, "lost"}
        PROVE  [Mode!Next]_(Mode!vars)
    BY <1>k, Zenon DEF Mode!Next, Mode!Write, Mode!vars, SavedMode, ModeOf
  <1>g. ASSUME NEW s, state' = s, file' = Whole(s) \/ file' \in {file, Torn},
               ModeOf(s) = ModeOf(state) \/ <<ModeOf(state), ModeOf(s)>> \in Mode!Moves
        PROVE  [Mode!Next]_(Mode!vars)
    <2>1. CASE ModeOf(s) = ModeOf(state)
      BY <1>g, <2>1, <1>k, <1>w, <1>t, Zenon
    <2>2. CASE <<ModeOf(state), ModeOf(s)>> \in Mode!Moves
      BY <1>g, <2>2, <1>d, Zenon
    <2> QED BY <1>g, <2>1, <2>2, Zenon
  <1>e. ASSUME NEW s, Sound(s), Expired(s) PROVE ModeOf(s) = "session" /\ ModeOf(AfterExpiry(s)) = "hold"
    BY <1>e, ExpiryTypes, Zenon DEF ModeOf, Expired
  <1>1. CASE Enable
    <2> DEFINE s == [state EXCEPT !.enabled = TRUE]
    <2>1. \/ state' = s /\ file' = Whole(s)
          \/ state' = state /\ file' \in {file, Torn}
      BY <1>1, EnableStep, Zenon
    <2>2. s.enabled = TRUE /\ s.active = state.active
      BY <1>s, Zenon DEF Sound, State
    <2> HIDE DEF s
    <2>3. ModeOf(s) = ModeOf(state) \/ (ModeOf(state) = "off" /\ ModeOf(s) = "hold")
      BY <1>s, <2>2, Zenon DEF ModeOf, Sound
    <2>4. ModeOf(s) = ModeOf(state) \/ <<ModeOf(state), ModeOf(s)>> \in Mode!Moves
      BY <2>3, Zenon DEF Mode!Moves
    <2>5. CASE state' = s /\ file' = Whole(s)
      BY <1>g, <2>4, <2>5, Zenon
    <2>6. CASE state' = state /\ file' \in {file, Torn}
      BY <1>g, <2>6, Zenon
    <2> QED BY <2>1, <2>5, <2>6, Zenon
  <1>2. CASE Disable
    <2>1. state' = Disabled /\ (file' = Whole(Disabled) \/ file' \in {file, Torn})
      BY <1>2, Decisions, DecisionStep, Zenon DEF Disable
    <2>2. ModeOf(Disabled) = "off"
      BY Zenon DEF ModeOf, Disabled
    <2>3. ModeOf(Disabled) = ModeOf(state) \/ <<ModeOf(state), ModeOf(Disabled)>> \in Mode!Moves
      BY <1>m, <2>2, Zenon DEF Mode!Moves
    <2> QED BY <1>g, <2>1, <2>3, Zenon
  <1>3. CASE RevokeSession
    <2> DEFINE s == [state EXCEPT !.active = FALSE, !.expires = 0]
    <2>1. state.active /\ Sound(s) /\ Meaning(s) = Word("held") /\ Word("held") \in Words
      BY <1>3, Decisions, Zenon DEF RevokeSession
    <2>2. state' = s /\ (file' = Whole(s) \/ file' \in {file, Torn})
      BY <1>3, <2>1, DecisionStep, Zenon DEF RevokeSession
    <2>3. s.enabled = state.enabled /\ s.active = FALSE
      BY <1>s, Zenon DEF Sound, State
    <2> HIDE DEF s
    <2>4. ModeOf(state) = "session" /\ ModeOf(s) = "hold"
      BY <1>s, <2>1, <2>3, Zenon DEF ModeOf, Sound
    <2> QED BY <1>g, <2>2, <2>4, Zenon DEF Mode!Moves
  <1>4. ASSUME NEW d \in Durations, GrantSession(d) PROVE [Mode!Next]_(Mode!vars)
    <2> DEFINE s == [state EXCEPT !.active = TRUE, !.expires = cdmNow + d]
    <2>1. state.enabled /\ Sound(s) /\ Meaning(s) \in Words
      BY <1>4, Decisions, Zenon DEF GrantSession
    <2>2. state' = s /\ (file' = Whole(s) \/ file' \in {file, Torn})
      BY <1>4, <2>1, DecisionStep, Zenon DEF GrantSession
    <2>3. s.enabled = state.enabled /\ s.active = TRUE
      BY <1>s, Zenon DEF Sound, State
    <2> HIDE DEF s
    <2>4. ModeOf(state) \in {"hold", "session"} /\ ModeOf(s) = "session"
      BY <2>1, <2>3, Zenon DEF ModeOf
    <2>5. ModeOf(s) = ModeOf(state) \/ <<ModeOf(state), ModeOf(s)>> \in Mode!Moves
      BY <2>4, Zenon DEF Mode!Moves
    <2> QED BY <1>g, <2>2, <2>5, Zenon
  <1>5. CASE Snapshot \/ Admit \/ Execute
    <2>1. CASE state' = state /\ file' = file
      BY <1>g, <2>1, Zenon
    <2>2. CASE checkExpiryLocked(state)
      <3>1. CASE Expired(state)
        <4>1. /\ state' = AfterExpiry(state)
              /\ file' = Whole(AfterExpiry(state)) \/ file' \in {file, Torn}
          BY <1>s, <2>2, <3>1, ExpiryStep, Zenon
        <4>2. <<ModeOf(state), ModeOf(AfterExpiry(state))>> \in Mode!Moves
          BY <1>s, <1>e, <3>1, Zenon DEF Mode!Moves
        <4> QED BY <1>g, <4>1, <4>2, Zenon
      <3>2. CASE ~Expired(state)
        <4>1. state' = state /\ file' = file
          BY <1>s, <2>2, <3>2, ExpiryStep, ExpiryTypes, Zenon
        <4> QED BY <2>1, <4>1, Zenon
      <3> QED BY <3>1, <3>2, Zenon
    <2> QED BY <1>5, <2>1, <2>2, LookStep, Zenon
  <1>6. CASE JobEnds \/ CdmTick \/ UNCHANGED cdmVars
    BY <1>g, <1>6, Zenon DEF JobEnds, CdmTick, cdmVars
  <1>7. CASE Crash \/ CdmStart
    <2>1. CASE state' = state /\ file' \in {file, Torn}
      BY <1>g, <2>1, Zenon
    <2>2. CASE file.kind # "torn" /\ checkExpiryLocked(file.says)
      <3>1. SavedMode = ModeOf(file.says) /\ SavedMode # "lost"
        BY <1>m, <2>2, Zenon DEF SavedMode
      <3>2. CASE Expired(file.says)
        <4>1. /\ state' = AfterExpiry(file.says)
              /\ file' = Whole(AfterExpiry(file.says)) \/ file' \in {file, Torn}
          BY <1>s, <2>2, <3>2, ExpiryStep, Zenon
        <4>2. SavedMode = "session" /\ ModeOf(state') = "hold"
          BY <1>s, <1>e, <3>1, <3>2, <4>1, Zenon
        <4>3. SavedMode' \in {SavedMode, "hold", "lost"}
          BY <1>w, <1>t, <4>1, <4>2, Zenon
        <4>4. Mode!Restart
          BY <4>2, <4>3, Zenon DEF Mode!Restart, SavedMode, ModeOf
        <4> QED BY <4>4, Zenon DEF Mode!Next
      <3>3. CASE ~Expired(file.says)
        <4>1. state' = file.says /\ file' = file
          BY <1>s, <2>2, <3>3, ExpiryStep, ExpiryTypes, Zenon
        <4>2. ModeOf(state') = SavedMode /\ SavedMode' = SavedMode
          BY <3>1, <4>1, Zenon DEF SavedMode, ModeOf
        <4>3. Mode!Restart
          BY <3>1, <4>2, Zenon DEF Mode!Restart, SavedMode, ModeOf
        <4> QED BY <4>3, Zenon DEF Mode!Next
      <3> QED BY <3>2, <3>3, Zenon
    <2> QED BY <1>7, <2>1, <2>2, ProcessStep, Zenon
  <1> QED BY <1>1, <1>2, <1>3, <1>4, <1>5, <1>6, <1>7, Zenon DEF CdmNext

\* The manager, with its clock, its file and its faults, implements the three
\* modes the rest of the agent relies on.
THEOREM Refinement == CdmSpec => ImplementsCdmMode
  <1>1. CdmInit => Mode!Init
    BY DEF CdmInit, Mode!Init, ModeOf, Disabled, Absent
  <1> QED BY <1>1, ModeStep, CdmTypes, PTL DEF CdmSpec, ImplementsCdmMode, Mode!Spec

\* The manager keeps its word to the user (persistLocked, CanExecuteJob), for every
\* set of session lengths, number of faults and order of decisions.
THEOREM WordKept == CdmSpec => KeepsTheWord
  BY FileKeeps, Consent, PTL DEF KeepsTheWord

-----------------------------------------------------------------------------
(* Certificates *)

Cert == [exp : Nat, revoked : BOOLEAN]
Request == [pc : {"idle", "sign", "commit", "ok"}, supersede : SUBSET Nat, cert : Nat]

Types ==
    /\ certs \in Seq(Cert) /\ now \in Nat /\ faults \in Nat
    /\ req \in [Slots -> Request] /\ {everRevoked, overlap} \subseteq BOOLEAN
    /\ late \subseteq {"renew", "checkin"}

\* A renewal in its transaction is the only one and will revoke all that is live.
OverlapInv ==
    overlap \/ (/\ \A c, d \in Live : c = d
                /\ \A s, t \in Slots : req[s].pc = "commit" /\ req[t].pc = "commit" => s = t
                /\ \A s \in Slots : req[s].pc = "commit" => Live \subseteq req[s].supersede)

\* After a revocation a certificate comes back only by a late renewal, and the
\* status only by a late check-in.
RevokedInv ==
    everRevoked => /\ "renew" \in late \/ Live = {}
                   /\ "checkin" \in late \/ status = "revoked"

-----------------------------------------------------------------------------
(* Sequences *)

\* A sequence is a function on 1..Len.
LEMMA LenProperties ==
    ASSUME NEW S, NEW s \in Seq(S)
    PROVE  Len(s) \in Nat /\ s \in [1..Len(s) -> S] /\ DOMAIN s = 1..Len(s)
  OBVIOUS

\* Its elements are of its set.
LEMMA ElementOfSeq ==
    ASSUME NEW S, NEW s \in Seq(S), NEW i \in 1..Len(s)
    PROVE  s[i] \in S
  OBVIOUS

\* A function on 1..n is a sequence.
LEMMA SeqDef ==
    ASSUME NEW S, NEW n \in Nat, NEW s \in [1..n -> S]
    PROVE  s \in Seq(S)
  OBVIOUS

\* Append adds one element and keeps the others.
LEMMA AppendProperties ==
    ASSUME NEW S, NEW s \in Seq(S), NEW e \in S
    PROVE  /\ Append(s, e) \in Seq(S) /\ Len(Append(s, e)) = Len(s) + 1
           /\ Append(s, e)[Len(s) + 1] = e /\ \A i \in 1..Len(s) : Append(s, e)[i] = s[i]
  OBVIOUS

-----------------------------------------------------------------------------
(* The rows *)

\* Every row is one, and Live are the ones that are not revoked.
LEMMA CertTypes ==
    ASSUME Types
    PROVE  Len(certs) \in Nat /\ \A c \in 1..Len(certs) : certs[c] \in Cert
  BY LenProperties, ElementOfSeq, Zenon DEF Types

\* The commit of a renewal adds a live certificate and revokes those it saw.
LEMMA CommitCerts ==
    ASSUME Types, NEW s \in Slots, Commit(s)
    PROVE  /\ certs' \in Seq(Cert) /\ Len(certs') = Len(certs) + 1
           /\ ~certs'[Len(certs) + 1].revoked
           /\ \A c \in 1..Len(certs) : /\ c \in req[s].supersede => certs'[c].revoked
                                       /\ c \notin req[s].supersede => certs'[c] = certs[c]
  <1> DEFINE n == Len(certs)
             before == [c \in 1..n |-> IF c \in req[s].supersede THEN [certs[c] EXCEPT !.revoked = TRUE]
                                                              ELSE certs[c]]
             new == [exp |-> now + Validity, revoked |-> FALSE]
  <1>1. n \in Nat /\ \A c \in 1..n : certs[c] \in Cert
    BY CertTypes, Zenon
  <1>2. new \in Cert /\ ~new.revoked
    BY CertificatesAssumption DEF Types, Cert
  <1>3. certs' = Append(before, new)
    BY Zenon DEF Commit
  <1> HIDE DEF n
  <1>4. \A c \in 1..n : /\ before[c] \in Cert
                        /\ c \in req[s].supersede => before[c].revoked
                        /\ c \notin req[s].supersede => before[c] = certs[c]
    BY <1>1, Zenon DEF Cert
  <1>5. before \in [1..n -> Cert]
    BY <1>4, Zenon
  <1> HIDE DEF before, new
  <1>6. before \in Seq(Cert)
    BY <1>1, <1>5, SeqDef, Zenon
  <1>7. Len(before) = n
    <2>1. DOMAIN before = 1..n /\ DOMAIN before = 1..Len(before) /\ Len(before) \in Nat
      BY <1>5, <1>6, LenProperties, Zenon
    <2> QED BY <1>1, <2>1
  <1>8. /\ certs' \in Seq(Cert) /\ Len(certs') = n + 1 /\ certs'[n + 1] = new
        /\ \A c \in 1..n : certs'[c] = before[c]
    BY <1>2, <1>3, <1>6, <1>7, AppendProperties
  <1> QED BY <1>2, <1>4, <1>8, Zenon DEF n

\* A revocation of the device revokes every row.
LEMMA RevokeCerts ==
    ASSUME Types, RevokeDevice
    PROVE  /\ certs' \in Seq(Cert) /\ Len(certs') = Len(certs)
           /\ \A c \in 1..Len(certs) : certs'[c].revoked
  <1> DEFINE n == Len(certs)
  <1>1. n \in Nat /\ \A c \in 1..n : certs[c] \in Cert
    BY CertTypes, Zenon
  <1>2. certs' = [c \in 1..n |-> [certs[c] EXCEPT !.revoked = TRUE]]
    BY Zenon DEF RevokeDevice
  <1> HIDE DEF n
  <1>3. \A c \in 1..n : certs'[c] \in Cert /\ certs'[c].revoked
    BY <1>1, <1>2, Zenon DEF Cert
  <1>4. certs' \in [1..n -> Cert]
    BY <1>2, <1>3, Zenon
  <1>5. certs' \in Seq(Cert)
    BY <1>1, <1>4, SeqDef, Zenon
  <1>6. DOMAIN certs' = 1..n /\ DOMAIN certs' = 1..Len(certs') /\ Len(certs') \in Nat
    BY <1>4, <1>5, LenProperties, Zenon
  <1>7. Len(certs') = n
    BY <1>1, <1>6
  <1> QED BY <1>3, <1>5, <1>7, Zenon DEF n

\* What the steps do to the live certificates.
LEMMA LiveSteps ==
    ASSUME Types
    PROVE  /\ RevokeDevice => Live' = {}
           /\ \A s \in Slots : Commit(s) => Live' = (Live \ req[s].supersede) \cup {Len(certs) + 1}
           /\ certs' = certs => Live' = Live
  <1>n. Len(certs) \in Nat
    BY CertTypes, Zenon
  <1>1. RevokeDevice => Live' = {}
    BY RevokeCerts, Zenon DEF Live
  <1>2. ASSUME NEW s \in Slots, Commit(s) PROVE Live' = (Live \ req[s].supersede) \cup {Len(certs) + 1}
    <2>1. Live' = {c \in 1..(Len(certs) + 1) : ~certs'[c].revoked}
      BY <1>2, CommitCerts, Zenon DEF Live
    <2> QED BY <1>2, <1>n, <2>1, CommitCerts DEF Live
  <1>3. certs' = certs => Live' = Live
    BY Zenon DEF Live
  <1> QED BY <1>1, <1>2, <1>3, Zenon

-----------------------------------------------------------------------------
(* Types *)

\* The requests a step may leave behind.
LEMMA Requests ==
    /\ NoReq \in Request /\ NoReq.pc = "idle"
    /\ [NoReq EXCEPT !.pc = "sign"] \in Request /\ [NoReq EXCEPT !.pc = "sign"].pc = "sign"
    /\ \A n \in Nat : LET r == [NoReq EXCEPT !.pc = "ok", !.cert = n]
                       IN  r \in Request /\ r.pc = "ok" /\ r.cert = n
  BY Zenon DEF NoReq, Request

\* A transaction takes note of the certificates it sees.
LEMMA Superseding ==
    ASSUME Types, NEW s \in Slots, Supersede(s)
    PROVE  /\ req' \in [Slots -> Request] /\ req'[s].pc = "commit" /\ req'[s].supersede = Live
           /\ \A t \in Slots \ {s} : req'[t] = req[t]
  <1>1. Live \subseteq Nat
    BY CertTypes DEF Live
  <1>2. req[s] \in Request /\ req \in [Slots -> Request]
    BY Zenon DEF Types
  <1> DEFINE L == Live
             r == [[req[s] EXCEPT !.pc = "commit"] EXCEPT !.supersede = L]
  <1>3. req' = [req EXCEPT ![s] = r]
    BY Zenon DEF Supersede
  <1> HIDE DEF L
  <1>4. r \in Request /\ r.pc = "commit" /\ r.supersede = L
    BY <1>1, <1>2, Zenon DEF Request, L
  <1> HIDE DEF r
  <1> QED BY <1>2, <1>3, <1>4, Zenon DEF L

\* A transaction that commits answers its caller, or nobody.
LEMMA Answering ==
    ASSUME Types, NEW s \in Slots, Commit(s)
    PROVE  /\ req' \in [Slots -> Request] /\ req'[s].pc \in {"ok", "idle"}
           /\ s = slot => req'[s].pc = "ok" /\ req'[s].cert = Len(certs) + 1
           /\ \A t \in Slots \ {s} : req'[t] = req[t]
  <1>1. Len(certs) + 1 \in Nat
    BY CertTypes
  <1> DEFINE r == IF s = slot THEN [NoReq EXCEPT !.pc = "ok", !.cert = Len(certs) + 1] ELSE NoReq
  <1>2. req' = [req EXCEPT ![s] = r]
    BY Zenon DEF Commit
  <1>3. r \in Request /\ r.pc \in {"ok", "idle"} /\ (s = slot => r.pc = "ok" /\ r.cert = Len(certs) + 1)
    BY <1>1, Requests, Zenon
  <1> HIDE DEF r
  <1> QED BY <1>2, <1>3, Zenon DEF Types

\* What the agent's steps do to the requests: they add one, or drop some.
LEMMA AgentRequests ==
    ASSUME Types, Renew \/ Swap \/ Abandon \/ Stop
    PROVE  /\ req' \in [Slots -> Request]
           /\ \A s \in Slots : req'[s] = req[s] \/ req'[s].pc \in {"idle", "sign"}
  <1>t. req \in [Slots -> Request]
    BY Zenon DEF Types
  <1>1. CASE Renew
    <2>1. req' = req \/ \E s \in Slots : req' = [req EXCEPT ![s] = [NoReq EXCEPT !.pc = "sign"]]
      BY <1>1, Zenon DEF Renew
    <2> DEFINE r == [NoReq EXCEPT !.pc = "sign"]
    <2>2. r \in Request /\ r.pc = "sign"
      BY Requests, Zenon
    <2> HIDE DEF r
    <2>3. req' = req \/ \E s \in Slots : req' = [req EXCEPT ![s] = r]
      BY <2>1, Zenon DEF r
    <2> QED BY <1>t, <2>2, <2>3, Zenon
  <1>2. CASE Swap \/ Abandon \/ Stop
    <2>1. req' = req \/ req' = [req EXCEPT ![slot] = NoReq]
      BY <1>2, Zenon DEF Swap, Abandon, Stop
    <2> QED BY <1>t, <2>1, Requests, Zenon
  <1> QED BY <1>1, <1>2, Zenon

\* The steps that leave rows and requests alone.
Bystander == Start \/ Reply \/ SaveCrt \/ SaveKey \/ Checkin \/ Drop \/ Tick \/ UpdateDevice \/ UNCHANGED vars

\* They do leave them alone.
LEMMA Bystanders == Bystander => UNCHANGED <<certs, req, overlap, everRevoked>>
  BY Zenon DEF Bystander, Start, Reply, SaveCrt, SaveKey, Checkin, Drop, Tick, UpdateDevice, vars, server, history

\* Types are kept by every step.
LEMMA TypesStep == Types /\ [Next]_vars => Types'
  <1> SUFFICES ASSUME Types, [Next]_vars PROVE Types'
    BY Zenon
  <1>1. CASE Bystander
    <2>1. now' \in Nat /\ faults' \in Nat /\ late' \subseteq {"renew", "checkin"}
      <3>1. CASE Tick
        BY <3>1 DEF Tick, history, Types
      <3>2. CASE UpdateDevice
        BY <3>2, Zenon DEF UpdateDevice, Types
      <3>3. CASE UNCHANGED <<now, faults, late>>
        BY <3>3, Zenon DEF Types
      <3>4. Bystander => Tick \/ UpdateDevice \/ UNCHANGED <<now, faults, late>>
        BY Zenon DEF Bystander, Start, Reply, SaveCrt, SaveKey, Checkin, Drop, vars, history
      <3> QED BY <1>1, <3>1, <3>2, <3>3, <3>4, Zenon
    <2> QED BY <1>1, <2>1, Bystanders, Zenon DEF Types
  <1>2. CASE Renew \/ Swap \/ Abandon \/ Stop
    <2>1. now' \in Nat /\ faults' \in Nat /\ UNCHANGED <<certs, overlap, everRevoked, late>>
      BY <1>2 DEF Renew, Swap, Abandon, Stop, Fault, history, Types
    <2> QED BY <1>2, <2>1, AgentRequests, Zenon DEF Types
  <1>3. CASE RevokeDevice
    <2>1. UNCHANGED <<now, faults, req, overlap, late>> /\ everRevoked' \in BOOLEAN
      BY <1>3, Zenon DEF RevokeDevice
    <2> QED BY <1>3, <2>1, RevokeCerts, Zenon DEF Types
  <1>4. ASSUME NEW s \in Slots, Supersede(s) PROVE Types'
    <2>1. UNCHANGED <<certs, now, faults, everRevoked, late>> /\ overlap' \in BOOLEAN
      BY <1>4, Zenon DEF Supersede
    <2> QED BY <1>4, <2>1, Superseding, Zenon DEF Types
  <1>5. ASSUME NEW s \in Slots, Commit(s) PROVE Types'
    <2>1. UNCHANGED <<now, faults, everRevoked, overlap>> /\ late' \subseteq {"renew", "checkin"}
      BY <1>5, Zenon DEF Commit, Types
    <2> QED BY <1>5, <2>1, CommitCerts, Answering, Zenon DEF Types
  <1> QED BY <1>1, <1>2, <1>3, <1>4, <1>5, ZenonT(60) DEF Next, Bystander

-----------------------------------------------------------------------------
(* One live certificate, and none after a revocation *)

\* A step that issues no certificate and begins no transaction.
LEMMA OverlapKept ==
    ASSUME OverlapInv, overlap' = overlap, Live' \subseteq Live,
           \A s \in Slots : req'[s].pc = "commit" => req'[s] = req[s]
    PROVE  OverlapInv'
  BY Zenon DEF OverlapInv

\* Without overlap there is one live certificate at most.
LEMMA OverlapStep == Types /\ OverlapInv /\ [Next]_vars => OverlapInv'
  <1> SUFFICES ASSUME Types, OverlapInv, [Next]_vars PROVE OverlapInv'
    BY Zenon
  <1>1. CASE Bystander
    BY <1>1, Bystanders, LiveSteps, OverlapKept, Zenon
  <1>2. CASE Renew \/ Swap \/ Abandon \/ Stop
    <2>1. UNCHANGED <<certs, overlap>>
      BY <1>2, Zenon DEF Renew, Swap, Abandon, Stop, history
    <2> QED BY <1>2, <2>1, AgentRequests, LiveSteps, OverlapKept, Zenon
  <1>3. CASE RevokeDevice
    <2>1. UNCHANGED <<req, overlap>>
      BY <1>3, Zenon DEF RevokeDevice
    <2> QED BY <1>3, <2>1, LiveSteps, OverlapKept, Zenon
  <1>4. ASSUME NEW s \in Slots, Supersede(s) PROVE OverlapInv'
    <2>1. certs' = certs
      BY <1>4, Zenon DEF Supersede
    <2>2. Live' = Live
      BY <2>1, LiveSteps, Zenon
    <2>3. overlap' \/ (~overlap /\ \A t \in Slots \ {s} : req[t].pc # "commit")
      BY <1>4, Zenon DEF Supersede
    <2> QED BY <1>4, <2>2, <2>3, Superseding DEF OverlapInv
  <1>5. ASSUME NEW s \in Slots, Commit(s) PROVE OverlapInv'
    <2>1. overlap' = overlap /\ req[s].pc = "commit"
      BY <1>5, Zenon DEF Commit
    <2>2. Live' = (Live \ req[s].supersede) \cup {Len(certs) + 1}
      BY <1>5, LiveSteps, Zenon
    <2>3. req'[s].pc # "commit" /\ \A t \in Slots \ {s} : req'[t] = req[t]
      BY <1>5, Answering, Zenon
    <2> QED BY <2>1, <2>2, <2>3, Zenon DEF OverlapInv
  <1> QED BY <1>1, <1>2, <1>3, <1>4, <1>5, ZenonT(60) DEF Next, Bystander

\* What late handlers may bring back after a revocation.
LEMMA RevokedStep == Types /\ RevokedInv /\ [Next]_vars => RevokedInv'
  <1> SUFFICES ASSUME Types, RevokedInv, [Next]_vars PROVE RevokedInv'
    BY Zenon
  <1>k. ASSUME UNCHANGED <<certs, status, late, everRevoked>> PROVE RevokedInv'
    BY <1>k, LiveSteps, Zenon DEF RevokedInv
  <1>1. CASE Bystander /\ ~UpdateDevice
    <2>1. UNCHANGED <<certs, status, late, everRevoked>>
      BY <1>1, Zenon DEF Bystander, Start, Reply, SaveCrt, SaveKey, Checkin, Drop, Tick, vars, server, history
    <2> QED BY <1>k, <2>1, Zenon
  <1>2. CASE UpdateDevice
    BY <1>2, LiveSteps, Zenon DEF UpdateDevice, RevokedInv
  <1>3. CASE Renew \/ Swap \/ Abandon \/ Stop
    <2>1. UNCHANGED <<certs, status, late, everRevoked>>
      BY <1>3, Zenon DEF Renew, Swap, Abandon, Stop, history
    <2> QED BY <1>k, <2>1, Zenon
  <1>4. CASE RevokeDevice
    BY <1>4, LiveSteps, Zenon DEF RevokeDevice, RevokedInv
  <1>5. ASSUME NEW s \in Slots, Supersede(s) PROVE RevokedInv'
    BY <1>5, <1>k, Zenon DEF Supersede
  <1>6. ASSUME NEW s \in Slots, Commit(s) PROVE RevokedInv'
    BY <1>6, Zenon DEF Commit, RevokedInv
  <1> QED BY <1>1, <1>2, <1>3, <1>4, <1>5, <1>6, ZenonT(60) DEF Next, Bystander

-----------------------------------------------------------------------------
(* The agent's files *)

Renewing == {"waiting", "crt", "key", "swap"}

\* While nothing has failed the only renewal is the one the agent waits for,
\* and what it has written so far is the certificate of the answer.
FilesInv ==
    faults = 0 /\ ~everRevoked =>
      /\ \A s \in Slots : req[s].pc # "idle" => s = slot /\ pc \in Renewing
      /\ pc \in {"down", "renew", "run"} => crt = key /\ crt \in Live /\ (pc # "down" => mem = crt)
      /\ pc \in Renewing => slot \in Slots
      /\ pc \in Renewing /\ req[slot].pc = "ok" => req[slot].cert \in Live
      /\ pc \in {"crt", "key", "swap"} => req[slot].pc = "ok"
      /\ pc \in {"key", "swap"} => crt = req[slot].cert
      /\ pc = "swap" => key = req[slot].cert

\* The files of an agent without faults are those of its live certificate.
LEMMA FilesStep == Types /\ FilesInv /\ [Next]_vars => FilesInv'
  <1> SUFFICES ASSUME Types, FilesInv, [Next]_vars, faults' = 0, ~everRevoked' PROVE FilesInv'
    BY Zenon DEF FilesInv
  <1>t. req \in [Slots -> Request] /\ faults \in Nat
    BY Zenon DEF Types
  <1>f. ~Fault
    BY <1>t DEF Fault
  <1>r. ~RevokeDevice
    BY Zenon DEF RevokeDevice
  <1>a. ~Abandon
    BY <1>f, Zenon DEF Abandon
  <1>z. faults = 0 /\ ~everRevoked
    <2>1. Bystander => UNCHANGED <<faults, everRevoked>>
      BY Zenon DEF Bystander, Start, Reply, SaveCrt, SaveKey, Checkin, Drop, Tick, UpdateDevice, vars, history
    <2>2. Renew \/ Swap => UNCHANGED <<faults, everRevoked>>
      BY Zenon DEF Renew, Swap, history
    <2>3. \A s \in Slots : Supersede(s) \/ Commit(s) => UNCHANGED <<faults, everRevoked>>
      BY Zenon DEF Supersede, Commit
    <2>4. Stop => UNCHANGED <<faults, everRevoked>>
      BY <1>t DEF Stop, history
    <2>5. UNCHANGED <<faults, everRevoked>>
      BY <1>a, <1>r, <2>1, <2>2, <2>3, <2>4, ZenonT(60) DEF Next, Bystander
    <2> QED BY <2>5, Zenon
  <1>i. /\ \A s \in Slots : req[s].pc # "idle" => s = slot /\ pc \in Renewing
        /\ pc \in {"down", "renew", "run"} => crt = key /\ crt \in Live /\ (pc # "down" => mem = crt)
        /\ pc \in Renewing => slot \in Slots
        /\ pc \in Renewing /\ req[slot].pc = "ok" => req[slot].cert \in Live
        /\ pc \in {"crt", "key", "swap"} => req[slot].pc = "ok"
        /\ pc \in {"key", "swap"} => crt = req[slot].cert
        /\ pc = "swap" => key = req[slot].cert
    BY <1>z, Zenon DEF FilesInv
  <1>l. certs' = certs => Live' = Live
    BY LiveSteps, Zenon
  <1>1. CASE Start
    <2>1. UNCHANGED <<certs, req, crt, key>> /\ pc = "down" /\ pc' \in {"renew", "run"} /\ mem' = crt
      BY <1>1, Zenon DEF Start, server, disk
    <2> QED BY <1>i, <1>l, <2>1, Zenon DEF FilesInv, Renewing
  <1>2. CASE Renew
    <2>1. UNCHANGED <<certs, crt, key, mem>> /\ pc = "renew"
      BY <1>2, Zenon DEF Renew, disk
    <2>2. CASE pc' = "run" /\ req' = req
      BY <1>i, <1>l, <2>1, <2>2, Zenon DEF FilesInv, Renewing
    <2>3. CASE \E s \in Slots : pc' = "waiting" /\ slot' = s /\ req' = [req EXCEPT ![s] = [NoReq EXCEPT !.pc = "sign"]]
      <3> DEFINE r == [NoReq EXCEPT !.pc = "sign"]
      <3>1. r \in Request /\ r.pc = "sign"
        BY Requests, Zenon
      <3> HIDE DEF r
      <3>2. PICK s \in Slots : pc' = "waiting" /\ slot' = s /\ req' = [req EXCEPT ![s] = r]
        BY <2>3, Zenon DEF r
      <3>3. req'[s] = r /\ \A t \in Slots \ {s} : req'[t] = req[t]
        BY <1>t, <3>2, Zenon
      <3>4. \A t \in Slots : req[t].pc = "idle"
        BY <1>i, <2>1, Zenon DEF Renewing
      <3> QED BY <3>1, <3>2, <3>3, <3>4, Zenon DEF FilesInv, Renewing
    <2> QED BY <1>2, <2>2, <2>3, Zenon DEF Renew
  <1>3. CASE Reply
    <2>1. UNCHANGED <<certs, req, slot, crt, key>> /\ pc = "waiting" /\ pc' = "crt" /\ req[slot].pc = "ok"
      BY <1>3, Zenon DEF Reply, server, disk
    <2> QED BY <1>i, <1>l, <2>1, Zenon DEF FilesInv, Renewing
  <1>4. CASE SaveCrt
    <2>1. UNCHANGED <<certs, req, slot, key>> /\ pc = "crt" /\ pc' = "key" /\ crt' = req[slot].cert
      BY <1>4, Zenon DEF SaveCrt, server
    <2> QED BY <1>i, <1>l, <2>1, Zenon DEF FilesInv, Renewing
  <1>5. CASE SaveKey
    <2>1. UNCHANGED <<certs, req, slot, crt>> /\ pc = "key" /\ pc' = "swap" /\ key' = req[slot].cert
      BY <1>5, Zenon DEF SaveKey, server
    <2> QED BY <1>i, <1>l, <2>1, Zenon DEF FilesInv, Renewing
  <1>6. CASE Swap
    <2>1. /\ UNCHANGED <<certs, crt, key>> /\ pc = "swap" /\ pc' = "run"
          /\ req' = [req EXCEPT ![slot] = NoReq] /\ mem' = (IF crt = key THEN crt ELSE mem)
      BY <1>6, Zenon DEF Swap, disk
    <2>2. slot \in Slots /\ crt = key /\ crt \in Live /\ \A s \in Slots : req[s].pc # "idle" => s = slot
      BY <1>i, <2>1, Zenon DEF Renewing
    <2>3. \A s \in Slots : req'[s].pc = "idle"
      BY <1>t, <2>1, <2>2, Requests, Zenon
    <2> QED BY <1>l, <2>1, <2>2, <2>3, Zenon DEF FilesInv, Renewing
  <1>7. CASE Stop
    <2>1. pc \in {"run", "renew"}
      BY <1>7, <1>z, <1>t DEF Stop
    <2>2. UNCHANGED <<certs, crt, key>> /\ pc' = "down"
      BY <1>7, <2>1, Zenon DEF Stop
    <2>3. \A s \in Slots : req[s].pc = "idle"
      BY <1>i, <2>1, Zenon DEF Renewing
    <2>4. req' = req \/ req' = [req EXCEPT ![slot] = NoReq]
      BY <1>7, Zenon DEF Stop
    <2>5. \A s \in Slots : req'[s].pc = "idle"
      BY <1>t, <2>3, <2>4, Requests, Zenon
    <2> QED BY <1>i, <1>l, <2>1, <2>2, <2>5, Zenon DEF FilesInv, Renewing
  <1>8. CASE Checkin \/ Drop \/ Tick \/ UpdateDevice \/ UNCHANGED vars
    <2>1. UNCHANGED <<certs, req, slot, crt, key, mem, pc>>
      BY <1>8, Zenon DEF Checkin, Drop, Tick, UpdateDevice, vars, server, disk
    <2> QED BY <1>i, <1>l, <2>1, Zenon DEF FilesInv
  <1>9. ASSUME NEW s \in Slots, Supersede(s) PROVE FilesInv'
    <2>1. UNCHANGED <<certs, slot, crt, key, mem, pc>> /\ req[s].pc = "sign"
      BY <1>9, Zenon DEF Supersede, disk
    <2>2. s = slot /\ pc = "waiting"
      BY <1>i, <2>1, Zenon DEF Renewing
    <2>3. req'[s].pc = "commit" /\ \A t \in Slots \ {s} : req'[t] = req[t]
      BY <1>9, Superseding, Zenon
    <2> QED BY <1>i, <2>1, <2>2, <2>3, Zenon DEF FilesInv, Renewing
  <1>10. ASSUME NEW s \in Slots, Commit(s) PROVE FilesInv'
    <2>1. UNCHANGED <<slot, crt, key, mem, pc>> /\ req[s].pc = "commit"
      BY <1>10, Zenon DEF Commit, disk
    <2>2. s = slot /\ pc = "waiting"
      BY <1>i, <2>1, Zenon DEF Renewing
    <2>3. req'[s].pc = "ok" /\ req'[s].cert = Len(certs) + 1 /\ \A t \in Slots \ {s} : req'[t] = req[t]
      BY <1>10, <2>2, Answering, Zenon
    <2>4. Len(certs) + 1 \in Live'
      BY <1>10, LiveSteps, Zenon
    <2> QED BY <1>i, <2>1, <2>2, <2>3, <2>4, Zenon DEF FilesInv, Renewing
  <1> QED BY <1>1, <1>2, <1>3, <1>4, <1>5, <1>6, <1>7, <1>8, <1>9, <1>10, <1>a, <1>r, ZenonT(60) DEF Next

-----------------------------------------------------------------------------
(* Theorems *)

CertificatesInv == Types /\ OverlapInv /\ RevokedInv /\ FilesInv

\* The parts of the invariant hold for a device that was just enrolled.
LEMMA InitInv == Init => CertificatesInv
  <1> SUFFICES ASSUME Init PROVE CertificatesInv
    BY Zenon
  <1> DEFINE first == [exp |-> Validity, revoked |-> FALSE]
  <1>1. first \in Cert /\ ~first.revoked
    BY CertificatesAssumption, Zenon DEF Cert
  <1>2. certs = <<first>>
    BY Zenon DEF Init
  <1> HIDE DEF first
  <1>3. certs \in Seq(Cert) /\ Len(certs) = 1 /\ certs[1] = first
    BY <1>1, <1>2
  <1>4. Live = {1}
    BY <1>1, <1>3 DEF Live
  <1>5. req \in [Slots -> Request] /\ \A s \in Slots : req[s].pc = "idle"
    BY Requests, Zenon DEF Init
  <1>6. Types
    BY <1>3, <1>5, Zenon DEF Init, Types
  <1>7. OverlapInv /\ RevokedInv
    BY <1>4, <1>5, Zenon DEF Init, OverlapInv, RevokedInv
  <1>8. FilesInv
    BY <1>4, <1>5, Zenon DEF Init, FilesInv, Renewing
  <1> QED BY <1>6, <1>7, <1>8, Zenon DEF CertificatesInv

\* The invariant of a device's certificates, in the server and on the agent.
THEOREM CertificatesInvariant == Spec => []CertificatesInv
  <1>1. CertificatesInv /\ [Next]_vars => CertificatesInv'
    BY TypesStep, OverlapStep, RevokedStep, FilesStep, Zenon DEF CertificatesInv
  <1> QED BY <1>1, InitInv, PTL DEF Spec

\* One certificate at most is live unless two renewals were in their
\* transactions at once (the UPDATE of renew.go).
THEOREM OneLive == Spec => []OneLiveUnlessOverlap
  <1>1. CertificatesInv => OneLiveUnlessOverlap
    BY Zenon DEF CertificatesInv, OverlapInv, OneLiveUnlessOverlap
  <1> QED BY <1>1, CertificatesInvariant, PTL

\* A revoked device is refused with every certificate until both a renewal
\* and a check-in that were under way have finished (the mTLS middleware).
THEOREM StaysOut == Spec => []RevokedStaysOut
  <1>1. CertificatesInv => RevokedStaysOut
    <2> SUFFICES ASSUME CertificatesInv, everRevoked, late # {"renew", "checkin"}, NEW c \in 1..Len(certs)
                 PROVE  Refusal(c) # "ok"
      BY Zenon DEF RevokedStaysOut
    <2>1. "renew" \notin late \/ "checkin" \notin late
      BY Zenon DEF CertificatesInv, Types
    <2>2. certs[c].revoked \/ status = "revoked"
      BY <2>1, Zenon DEF CertificatesInv, RevokedInv, Live
    <2> QED BY <2>2, Zenon DEF Refusal
  <1> QED BY <1>1, CertificatesInvariant, PTL

\* Without a fault the running agent's files are the pair of its one live
\* certificate, and the CertProvider has it (SaveRenewal, Swap).
THEOREM FilesCurrent == Spec => []CurrentUnlessFault
  <1>1. CertificatesInv => CurrentUnlessFault
    BY Zenon DEF CertificatesInv, FilesInv, CurrentUnlessFault, Live
  <1> QED BY <1>1, CertificatesInvariant, PTL

\* The safety of a device's certificates (Renew, Revoke, Checkin and the agent's
\* renewal), for any number of requests, faults and restarts.
THEOREM CertificatesHold == Spec => []CertificatesSafe
  <1>1. CurrentUnlessFault /\ OneLiveUnlessOverlap /\ RevokedStaysOut => CertificatesSafe
    BY Zenon DEF CertificatesSafe
  <1> QED BY <1>1, FilesCurrent, OneLive, StaysOut, PTL

-----------------------------------------------------------------------------
(* Updates *)

UpdRecord == [pc : Active \cup {"none", "ended"}, kind : {"update", "rollback"},
              v : Released, force : BOOLEAN, result : {"none", "failed", "restarting"}]

\* A job that uses the four paths.
InProgress == Active \ {"submit"}

\* What a job in progress has found out or done itself: the staging file is
\* verified from "backup" on, the backup is complete from "rename" on, and the
\* binary is the new one at "pending".
UpdJobInv(j) ==
  /\ updJob[j].pc \in {"backup", "copied", "rename"} => staging = updJob[j].v
  /\ updJob[j].pc = "rename" => prev = bin /\ (~stacked => bin = running /\ pending.job = NoJob)
  /\ updJob[j].pc = "pending" => bin = updJob[j].v /\ (~stacked => prev = running /\ pending.job = NoJob)
  /\ updJob[j].pc = "remove" => ~fresh

\* The binary, its backup and the record of an update.
UpdFilesInv ==
  /\ ~cutRestored => bin \in Released /\ prev \in {UpdAbsent, UpdTorn} \cup Released
  /\ pending.job # NoJob /\ ~stacked => prev \in {pending.previous, UpdAbsent, UpdTorn}
  /\ fresh /\ ~unrecorded => Installing \/ (pending.job # NoJob /\ pending.expected = bin)
  /\ ~unrecorded /\ pending.job # NoJob /\ bin # pending.expected =>
        Installing \/ prev \in {UpdAbsent, UpdTorn, bin}

\* Jobs that do not overlap have the paths to themselves.
AloneInv ==
  /\ \A j, k \in Jobs : updJob[j].pc \in InProgress /\ updJob[k].pc \in InProgress => j = k
  /\ \A j \in Jobs : UpdJobInv(j)
  /\ UpdFilesInv

UpdInv ==
  /\ updJob \in [Jobs -> UpdRecord]
  /\ \A j \in Jobs : updJob[j].pc \in Active => running # UpdAbsent /\ boot # "remove"
  /\ boot = "remove" => ~fresh
  /\ ~updOverlap => AloneInv

\* A record that is absent or cut off names no job.
LEMMA UpdNoRecord == NoPending.job = NoJob /\ TornPending.job = NoJob
  BY Zenon DEF NoPending, TornPending

\* What Goto and End leave of the jobs.
LEMMA UpdRecords ==
  ASSUME NEW j \in Jobs, updJob \in [Jobs -> UpdRecord]
  PROVE  /\ \A p \in Active \cup {"ended"} : Goto(j, p) =>
              /\ updJob' \in [Jobs -> UpdRecord]
              /\ updJob'[j].pc = p /\ updJob'[j].v = updJob[j].v
              /\ \A k \in Jobs \ {j} : updJob'[k] = updJob[k]
         /\ \A res \in {"failed", "restarting"} : End(j, res) =>
              /\ updJob' \in [Jobs -> UpdRecord]
              /\ updJob'[j].pc = "submit"
              /\ \A k \in Jobs \ {j} : updJob'[k] = updJob[k]
  <1>1. ASSUME NEW p \in Active \cup {"ended"}, Goto(j, p)
        PROVE  /\ updJob' \in [Jobs -> UpdRecord]
               /\ updJob'[j].pc = p /\ updJob'[j].v = updJob[j].v
               /\ \A k \in Jobs \ {j} : updJob'[k] = updJob[k]
    <2> DEFINE r == [updJob[j] EXCEPT !.pc = p]
    <2>1. r \in UpdRecord /\ r.pc = p /\ r.v = updJob[j].v
      BY Zenon DEF UpdRecord
    <2>2. updJob' = [updJob EXCEPT ![j] = r]
      BY <1>1, Zenon DEF Goto
    <2> QED BY <2>1, <2>2, Zenon
  <1>2. ASSUME NEW res \in {"failed", "restarting"}, End(j, res)
        PROVE  /\ updJob' \in [Jobs -> UpdRecord]
               /\ updJob'[j].pc = "submit"
               /\ \A k \in Jobs \ {j} : updJob'[k] = updJob[k]
    <2> DEFINE r == [updJob[j] EXCEPT !.pc = "submit", !.result = res]
    <2>1. r \in UpdRecord /\ r.pc = "submit"
      BY DEF UpdRecord, Active
    <2>2. updJob' = [updJob EXCEPT ![j] = r]
      BY <1>2, Zenon DEF End
    <2> QED BY <2>1, <2>2, Zenon
  <1> QED BY <1>1, <1>2, Zenon

\* What a step of one job does to the jobs: it goes to a place of P.
OneMoves(j, P) ==
  /\ updJob' \in [Jobs -> UpdRecord] /\ updJob'[j].pc \in P
  /\ \A k \in Jobs \ {j} : updJob'[k] = updJob[k]

\* A step of a job in progress: the others use none of the paths, unless jobs
\* overlap.
LEMMA UpdOwnStep ==
  ASSUME UpdInv, NEW j \in Jobs, updJob[j].pc \in InProgress, OneMoves(j, Active),
         UNCHANGED <<running, boot, updOverlap>>,
         ~updOverlap => UpdJobInv(j)' /\ UpdFilesInv'
  PROVE  UpdInv'
  <1>1. running # UpdAbsent /\ boot # "remove"
    BY Zenon DEF UpdInv, InProgress
  <1>2. \A k \in Jobs : updJob'[k].pc \in Active => running' # UpdAbsent /\ boot' # "remove"
    BY <1>1, Zenon
  <1>3. ASSUME ~updOverlap' PROVE AloneInv'
    <2>1. ~updOverlap /\ AloneInv
      BY <1>3, Zenon DEF UpdInv
    <2>2. \A k \in Jobs \ {j} : updJob'[k].pc \notin InProgress
      BY <2>1, Zenon DEF AloneInv, OneMoves
    <2>3. \A k \in Jobs \ {j} : UpdJobInv(k)'
      BY <2>2, Zenon DEF UpdJobInv, InProgress, Active
    <2>4. \A k \in Jobs : UpdJobInv(k)'
      BY <2>1, <2>3, Zenon
    <2>5. \A i, k \in Jobs : updJob'[i].pc \in InProgress /\ updJob'[k].pc \in InProgress => i = k
      BY <2>2, Zenon
    <2> QED BY <2>1, <2>4, <2>5, Zenon DEF AloneInv
  <1> QED BY <1>1, <1>2, <1>3, Zenon DEF UpdInv, OneMoves

\* While one job is in progress alone, an installation under way is its own.
LEMMA UpdInstalling ==
  ASSUME UpdInv, ~updOverlap, NEW j \in Jobs, updJob[j].pc \in InProgress
  PROVE  /\ AloneInv /\ UpdJobInv(j) /\ UpdFilesInv
         /\ updJob[j].pc # "pending" => ~Installing
  BY Zenon DEF UpdInv, AloneInv, Installing, InProgress, Active

\* A step of a job that moves on and leaves binary, backup and record.
LEMMA UpdMoves ==
  ASSUME UpdInv, NEW j \in Jobs, updJob[j].pc \in InProgress \ {"pending"}, OneMoves(j, Active),
         UNCHANGED <<bin, prev, pending, running, boot, updHistory>>,
         ~updOverlap => UpdJobInv(j)'
  PROVE  UpdInv'
  <1>1. ASSUME ~updOverlap PROVE UpdFilesInv'
    <2>1. UpdFilesInv /\ ~Installing
      BY <1>1, UpdInstalling, Zenon
    <2> QED BY <2>1, Zenon DEF UpdFilesInv, updHistory
  <1> QED BY <1>1, UpdOwnStep, Zenon DEF updHistory

\* A job that gives up leaves no duty.
LEMMA UpdGiveUp ==
  ASSUME UpdInv, NEW j \in Jobs, updJob[j].pc \in InProgress \ {"pending"}, End(j, "failed"),
         UNCHANGED <<bin, prev, pending, running, boot, updHistory>>
  PROVE  UpdInv'
  <1>1. updJob \in [Jobs -> UpdRecord]
    BY Zenon DEF UpdInv
  <1>2. OneMoves(j, {"submit"})
    BY <1>1, UpdRecords, Zenon DEF OneMoves
  <1>3. UpdJobInv(j)'
    BY <1>2, Zenon DEF UpdJobInv, OneMoves
  <1> QED BY <1>2, <1>3, UpdMoves, Zenon DEF OneMoves, Active

\* A rollback puts the backup in place, and leaves none.
LEMMA UpdRestores ==
  ASSUME UpdFilesInv, RestorePrevious, UNCHANGED <<pending, stacked, unrecorded>>
  PROVE  UpdFilesInv'
  BY Zenon DEF UpdFilesInv, RestorePrevious

\* The steps of an update up to its verification keep the invariant.
LEMMA UpdFetchKeeps ==
  ASSUME UpdInv, NEW j \in Jobs, Preflight(j) \/ Download(j) \/ Verify(j)
  PROVE  UpdInv'
  <1>0. updJob \in [Jobs -> UpdRecord]
    BY Zenon DEF UpdInv
  <1>1. /\ updJob[j].pc \in {"start", "download", "verify"}
        /\ UNCHANGED <<bin, prev, pending, running, boot, updHistory>>
        /\ \/ End(j, "failed")
           \/ Goto(j, "download")
           \/ Goto(j, "verify")
           \/ Goto(j, "backup") /\ staging = updJob[j].v /\ staging' = staging
    <2>1. CASE Preflight(j)
      BY <2>1, Zenon DEF Preflight
    <2>2. CASE Download(j)
      BY <2>2, Zenon DEF Download, GiveUp
    <2>3. CASE Verify(j)
      BY <2>3, Zenon DEF Verify, GiveUp
    <2> QED BY <2>1, <2>2, <2>3, Zenon
  <1>2. updJob[j].pc \in InProgress \ {"pending"}
    BY <1>1, Zenon DEF InProgress, Active
  <1>3. CASE End(j, "failed")
    BY <1>1, <1>2, <1>3, UpdGiveUp, Zenon
  <1>4. CASE Goto(j, "download") \/ Goto(j, "verify")
    <2>1. OneMoves(j, {"download", "verify"})
      BY <1>0, <1>4, UpdRecords, Zenon DEF OneMoves, Active
    <2>2. UpdJobInv(j)'
      BY <2>1, Zenon DEF UpdJobInv, OneMoves
    <2>3. OneMoves(j, Active)
      BY <2>1, Zenon DEF OneMoves, Active
    <2> QED BY <1>1, <1>2, <2>2, <2>3, UpdMoves, Zenon
  <1>5. CASE Goto(j, "backup") /\ staging = updJob[j].v /\ staging' = staging
    <2>1. OneMoves(j, {"backup"}) /\ updJob'[j].v = updJob[j].v
      BY <1>0, <1>5, UpdRecords, Zenon DEF OneMoves, Active
    <2>2. UpdJobInv(j)'
      BY <1>5, <2>1, Zenon DEF UpdJobInv, OneMoves
    <2>3. OneMoves(j, Active)
      BY <2>1, Zenon DEF OneMoves, Active
    <2> QED BY <1>1, <1>2, <2>2, <2>3, UpdMoves, Zenon
  <1> QED BY <1>1, <1>3, <1>4, <1>5, Zenon

\* The steps that make the backup keep the invariant.
LEMMA UpdBackupKeeps ==
  ASSUME UpdInv, NEW j \in Jobs, Backup(j) \/ CopyFile(j)
  PROVE  UpdInv'
  <1>0. updJob \in [Jobs -> UpdRecord]
    BY Zenon DEF UpdInv
  <1>1. CASE Backup(j)
    <2>1. /\ updJob[j].pc = "backup" /\ UNCHANGED <<bin, pending, running, boot, updHistory>>
          /\ \/ prev' = UpdTorn /\ Goto(j, "copied") /\ UNCHANGED staging
             \/ End(j, "failed") /\ UNCHANGED prev
      BY <1>1, Zenon DEF Backup, GiveUp
    <2>2. updJob[j].pc \in InProgress \ {"pending"}
      BY <2>1, Zenon DEF InProgress, Active
    <2>3. CASE End(j, "failed") /\ UNCHANGED prev
      BY <2>1, <2>2, <2>3, UpdGiveUp, Zenon
    <2>4. CASE prev' = UpdTorn /\ Goto(j, "copied") /\ UNCHANGED staging
      <3>1. OneMoves(j, {"copied"}) /\ updJob'[j].v = updJob[j].v
        BY <1>0, <2>4, UpdRecords, Zenon DEF OneMoves, Active
      <3>2. ASSUME ~updOverlap PROVE UpdJobInv(j)' /\ UpdFilesInv'
        <4>1. UpdJobInv(j) /\ UpdFilesInv /\ ~Installing
          BY <2>1, <2>2, <3>2, UpdInstalling, Zenon
        <4>2. UpdJobInv(j)'
          BY <2>1, <2>4, <3>1, <4>1, Zenon DEF UpdJobInv, OneMoves
        <4>3. UpdFilesInv'
          BY <2>1, <2>4, <4>1, Zenon DEF UpdFilesInv, updHistory
        <4> QED BY <4>2, <4>3, Zenon
      <3>3. OneMoves(j, Active)
        BY <3>1, Zenon DEF OneMoves, Active
      <3> QED BY <2>1, <2>2, <3>2, <3>3, UpdOwnStep, Zenon DEF updHistory
    <2> QED BY <2>1, <2>3, <2>4, Zenon
  <1>2. CASE CopyFile(j)
    <2>1. /\ updJob[j].pc = "copied"
          /\ UNCHANGED <<bin, pending, running, boot, updOverlap, cutRestored, fresh, unrecorded>>
          /\ \/ /\ prev' = bin /\ Goto(j, "rename") /\ UNCHANGED staging
                /\ stacked' = (stacked \/ bin # running \/ pending.job # NoJob)
             \/ End(j, "failed") /\ UNCHANGED <<prev, stacked>>
      BY <1>2, Zenon DEF CopyFile, GiveUp
    <2>2. updJob[j].pc \in InProgress \ {"pending"}
      BY <2>1, Zenon DEF InProgress, Active
    <2>3. CASE End(j, "failed") /\ UNCHANGED <<prev, stacked>>
      BY <2>1, <2>2, <2>3, UpdGiveUp, Zenon DEF updHistory
    <2>4. CASE /\ prev' = bin /\ Goto(j, "rename") /\ UNCHANGED staging
               /\ stacked' = (stacked \/ bin # running \/ pending.job # NoJob)
      <3>1. OneMoves(j, {"rename"}) /\ updJob'[j].v = updJob[j].v
        BY <1>0, <2>4, UpdRecords, Zenon DEF OneMoves, Active
      <3>2. ASSUME ~updOverlap PROVE UpdJobInv(j)' /\ UpdFilesInv'
        <4>1. UpdJobInv(j) /\ UpdFilesInv /\ ~Installing
          BY <2>1, <2>2, <3>2, UpdInstalling, Zenon
        <4>2. UpdJobInv(j)'
          BY <2>1, <2>4, <3>1, <4>1, Zenon DEF UpdJobInv, OneMoves
        <4>3. UpdFilesInv'
          BY <2>1, <2>4, <4>1, Zenon DEF UpdFilesInv
        <4> QED BY <4>2, <4>3, Zenon
      <3>3. OneMoves(j, Active)
        BY <3>1, Zenon DEF OneMoves, Active
      <3> QED BY <2>1, <2>2, <3>2, <3>3, UpdOwnStep, Zenon
    <2> QED BY <2>1, <2>3, <2>4, Zenon
  <1> QED BY <1>1, <1>2, Zenon

\* Putting the new binary in place and recording it keep the invariant.
LEMMA UpdInstallKeeps ==
  ASSUME UpdInv, NEW j \in Jobs, Rename(j) \/ WritePending(j)
  PROVE  UpdInv'
  <1>0. updJob \in [Jobs -> UpdRecord] /\ updJob[j].v \in Released
    BY Zenon DEF UpdInv, UpdRecord
  <1>1. CASE Rename(j)
    <2>1. /\ updJob[j].pc = "rename"
          /\ UNCHANGED <<prev, pending, running, boot, updOverlap, stacked, cutRestored, unrecorded>>
          /\ \/ bin' = staging /\ Goto(j, "pending") /\ fresh' = TRUE
             \/ End(j, "failed") /\ UNCHANGED <<bin, fresh>>
      BY <1>1, Zenon DEF Rename, GiveUp
    <2>2. updJob[j].pc \in InProgress \ {"pending"}
      BY <2>1, Zenon DEF InProgress, Active
    <2>3. CASE End(j, "failed") /\ UNCHANGED <<bin, fresh>>
      BY <2>1, <2>2, <2>3, UpdGiveUp, Zenon DEF updHistory
    <2>4. CASE bin' = staging /\ Goto(j, "pending") /\ fresh' = TRUE
      <3>1. OneMoves(j, {"pending"}) /\ updJob'[j].v = updJob[j].v
        BY <1>0, <2>4, UpdRecords, Zenon DEF OneMoves, Active
      <3>2. ASSUME ~updOverlap PROVE UpdJobInv(j)' /\ UpdFilesInv'
        <4>1. UpdJobInv(j) /\ UpdFilesInv
          BY <2>1, <2>2, <3>2, UpdInstalling, Zenon
        <4>2. UpdJobInv(j)'
          BY <2>1, <2>4, <3>1, <4>1, Zenon DEF UpdJobInv, OneMoves
        <4>3. Installing'
          BY <3>1, Zenon DEF OneMoves, Installing
        <4>4. bin' \in Released
          BY <1>0, <2>1, <2>4, <4>1, Zenon DEF UpdJobInv
        <4>5. UpdFilesInv'
          BY <2>1, <2>4, <4>1, <4>3, <4>4, Zenon DEF UpdFilesInv
        <4> QED BY <4>2, <4>5, Zenon
      <3>3. OneMoves(j, Active)
        BY <3>1, Zenon DEF OneMoves, Active
      <3> QED BY <2>1, <2>2, <3>2, <3>3, UpdOwnStep, Zenon
    <2> QED BY <2>1, <2>3, <2>4, Zenon
  <1>2. CASE WritePending(j)
    <2>1. /\ updJob[j].pc = "pending" /\ End(j, "restarting")
          /\ UNCHANGED <<bin, prev, running, boot, updOverlap, stacked, cutRestored, fresh>>
      BY <1>2, Zenon DEF WritePending
    <2>2. \/ /\ pending'.job = j /\ pending'.expected = updJob[j].v /\ pending'.previous = running
             /\ UNCHANGED unrecorded
          \/ (pending' = pending \/ pending'.job = NoJob) /\ unrecorded' = TRUE
      <3>1. CASE /\ pending' = [job |-> j, expected |-> updJob[j].v, previous |-> running,
                                deadline |-> updNow + Grace]
                 /\ UNCHANGED unrecorded
        BY <3>1
      <3>2. CASE pending' \in {pending, TornPending} /\ unrecorded' = TRUE
        BY <3>2, UpdNoRecord, Zenon
      <3> QED BY <1>2, <3>1, <3>2, Zenon DEF WritePending
    <2>3. OneMoves(j, {"submit"})
      BY <1>0, <2>1, UpdRecords, Zenon DEF OneMoves
    <2>4. ASSUME ~updOverlap PROVE UpdJobInv(j)' /\ UpdFilesInv'
      <3>1. UpdJobInv(j) /\ UpdFilesInv
        BY <2>1, <2>4, UpdInstalling, Zenon DEF InProgress, Active
      <3>2. bin = updJob[j].v /\ (~stacked => prev = running /\ pending.job = NoJob)
        BY <2>1, <3>1, Zenon DEF UpdJobInv
      <3>3. UpdJobInv(j)'
        BY <2>3, Zenon DEF UpdJobInv, OneMoves
      <3>4. CASE /\ pending'.job = j /\ pending'.expected = updJob[j].v /\ pending'.previous = running
                 /\ UNCHANGED unrecorded
        <4>1. pending'.job # NoJob
          BY <3>4, AgentUpdateAssumption, Zenon DEF NoJob
        <4> QED BY <4>1, <2>1, <3>1, <3>2, <3>3, <3>4, Zenon DEF UpdFilesInv
      <3>5. CASE (pending' = pending \/ pending'.job = NoJob) /\ unrecorded' = TRUE
        BY <2>1, <3>1, <3>2, <3>3, <3>5, Zenon DEF UpdFilesInv
      <3> QED BY <2>2, <3>4, <3>5, Zenon
    <2>5. OneMoves(j, Active)
      BY <2>3, Zenon DEF OneMoves, Active
    <2> QED BY <2>1, <2>4, <2>5, UpdOwnStep, Zenon DEF InProgress, Active
  <1> QED BY <1>1, <1>2, Zenon

\* A rollback job, and the submission of a result, keep the invariant.
LEMMA UpdEndKeeps ==
  ASSUME UpdInv, NEW j \in Jobs, ExecuteRollback(j) \/ RollbackRemove(j) \/ Submit(j)
  PROVE  UpdInv'
  <1>0. updJob \in [Jobs -> UpdRecord]
    BY Zenon DEF UpdInv
  <1>1. CASE ExecuteRollback(j)
    <2>1. /\ updJob[j].pc = "start"
          /\ UNCHANGED <<pending, running, boot, updOverlap, stacked, unrecorded>>
          /\ \/ RestorePrevious /\ Goto(j, "remove")
             \/ End(j, "failed") /\ UNCHANGED <<bin, prev, cutRestored, fresh>>
      BY <1>1, Zenon DEF ExecuteRollback
    <2>2. updJob[j].pc \in InProgress \ {"pending"}
      BY <2>1, Zenon DEF InProgress, Active
    <2>3. CASE End(j, "failed") /\ UNCHANGED <<bin, prev, cutRestored, fresh>>
      BY <2>1, <2>2, <2>3, UpdGiveUp, Zenon DEF updHistory
    <2>4. CASE RestorePrevious /\ Goto(j, "remove")
      <3>1. OneMoves(j, {"remove"})
        BY <1>0, <2>4, UpdRecords, Zenon DEF OneMoves, Active
      <3>2. ASSUME ~updOverlap PROVE UpdJobInv(j)' /\ UpdFilesInv'
        <4>1. UpdFilesInv
          BY <2>2, <3>2, UpdInstalling, Zenon
        <4>2. UpdJobInv(j)'
          BY <2>4, <3>1, Zenon DEF UpdJobInv, OneMoves, RestorePrevious
        <4>3. UpdFilesInv'
          BY <2>1, <2>4, <4>1, UpdRestores, Zenon
        <4> QED BY <4>2, <4>3, Zenon
      <3>3. OneMoves(j, Active)
        BY <3>1, Zenon DEF OneMoves, Active
      <3> QED BY <2>1, <2>2, <3>2, <3>3, UpdOwnStep, Zenon
    <2> QED BY <2>1, <2>3, <2>4, Zenon
  <1>2. CASE RollbackRemove(j)
    <2>1. /\ updJob[j].pc = "remove" /\ End(j, "restarting")
          /\ UNCHANGED <<bin, prev, running, boot, updHistory>>
          /\ pending' = pending \/ pending'.job = NoJob
      BY <1>2, UpdNoRecord, Zenon DEF RollbackRemove
    <2>2. updJob[j].pc \in InProgress \ {"pending"}
      BY <2>1, Zenon DEF InProgress, Active
    <2>3. OneMoves(j, {"submit"})
      BY <1>0, <2>1, UpdRecords, Zenon DEF OneMoves
    <2>4. ASSUME ~updOverlap PROVE UpdJobInv(j)' /\ UpdFilesInv'
      <3>1. UpdFilesInv /\ ~Installing /\ ~fresh
        BY <2>1, <2>2, <2>4, UpdInstalling, Zenon DEF UpdJobInv
      <3>2. UpdJobInv(j)'
        BY <2>3, Zenon DEF UpdJobInv, OneMoves
      <3>3. UpdFilesInv'
        BY <2>1, <3>1, Zenon DEF UpdFilesInv, updHistory
      <3> QED BY <3>2, <3>3, Zenon
    <2>5. OneMoves(j, Active)
      BY <2>3, Zenon DEF OneMoves, Active
    <2> QED BY <2>1, <2>2, <2>4, <2>5, UpdOwnStep, Zenon DEF updHistory
  <1>3. CASE Submit(j)
    <2>1. updJob[j].pc = "submit" /\ Goto(j, "ended")
          /\ UNCHANGED <<bin, staging, prev, pending, boot, updHistory>>
      BY <1>3, Zenon DEF Submit, files
    <2>2. running' = running
      BY <1>3, Zenon DEF Submit, Accepted
    <2>3. updJob' \in [Jobs -> UpdRecord] /\ updJob'[j].pc = "ended"
          /\ \A k \in Jobs \ {j} : updJob'[k] = updJob[k]
      BY <1>0, <2>1, UpdRecords, Zenon DEF Active
    <2>4. \A k \in Jobs : updJob'[k].pc \in Active => running' # UpdAbsent /\ boot' # "remove"
      BY <2>1, <2>2, <2>3, Zenon DEF UpdInv, Active
    <2>5. ASSUME ~updOverlap' PROVE AloneInv'
      <3>1. AloneInv
        BY <2>1, <2>5, Zenon DEF UpdInv, updHistory
      <3>2. Installing => Installing'
        BY <2>1, <2>3, Zenon DEF Installing
      <3>3. UpdFilesInv'
        BY <2>1, <3>1, <3>2, Zenon DEF AloneInv, UpdFilesInv, updHistory
      <3>4. \A k \in Jobs : UpdJobInv(k)'
        BY <2>1, <2>2, <2>3, <3>1, Zenon DEF AloneInv, UpdJobInv, updHistory
      <3>5. \A i, k \in Jobs : updJob'[i].pc \in InProgress /\ updJob'[k].pc \in InProgress => i = k
        BY <2>3, <3>1, Zenon DEF AloneInv, InProgress, Active
      <3> QED BY <3>3, <3>4, <3>5, Zenon DEF AloneInv
    <2>6. boot' = "remove" => ~fresh'
      BY <2>1, Zenon DEF UpdInv, updHistory
    <2> QED BY <2>3, <2>4, <2>5, <2>6, Zenon DEF UpdInv
  <1> QED BY <1>1, <1>2, <1>3, Zenon

\* A job that arrives while another is in progress makes them overlap.
LEMMA UpdReceiveKeeps ==
  ASSUME UpdInv, NEW j \in Jobs, Receive(j)
  PROVE  UpdInv'
  <1>1. PICK r \in UpdRecord : r.pc = "start" /\ updJob' = [updJob EXCEPT ![j] = r]
    <2>1. Installed \in Released /\ Targets \subseteq Released
      BY Zenon DEF Released
    <2>2. CASE \E v \in Targets, f \in BOOLEAN :
                 updJob' = [updJob EXCEPT ![j] = [NewJob EXCEPT !.pc = "start", !.v = v, !.force = f]]
      <3>1. PICK v \in Targets, f \in BOOLEAN :
              updJob' = [updJob EXCEPT ![j] = [NewJob EXCEPT !.pc = "start", !.v = v, !.force = f]]
        BY <2>2, Zenon
      <3>2. [NewJob EXCEPT !.pc = "start", !.v = v, !.force = f] \in UpdRecord
            /\ [NewJob EXCEPT !.pc = "start", !.v = v, !.force = f].pc = "start"
        BY <2>1, Zenon DEF NewJob, UpdRecord, Active
      <3> QED BY <3>1, <3>2, Zenon
    <2>3. CASE updJob' = [updJob EXCEPT ![j] = [NewJob EXCEPT !.pc = "start", !.kind = "rollback"]]
      <3>1. [NewJob EXCEPT !.pc = "start", !.kind = "rollback"] \in UpdRecord
            /\ [NewJob EXCEPT !.pc = "start", !.kind = "rollback"].pc = "start"
        BY <2>1, Zenon DEF NewJob, UpdRecord, Active
      <3> QED BY <2>3, <3>1, Zenon
    <2> QED BY <2>2, <2>3, Zenon DEF Receive
  <1>2. /\ updJob \in [Jobs -> UpdRecord] /\ updJob[j].pc = "none" /\ running # UpdAbsent /\ boot = "up"
        /\ UNCHANGED <<bin, staging, prev, pending, running, boot, stacked, cutRestored, fresh, unrecorded>>
        /\ updOverlap' = (updOverlap \/ \E k \in Jobs \ {j} : updJob[k].pc \in InProgress)
    BY Zenon DEF UpdInv, Receive, InProgress, files
  <1>3. updJob' \in [Jobs -> UpdRecord] /\ updJob'[j].pc = "start"
        /\ \A k \in Jobs \ {j} : updJob'[k] = updJob[k]
    BY <1>1, <1>2, Zenon
  <1>4. ASSUME ~updOverlap' PROVE AloneInv'
    <2>1. AloneInv /\ \A k \in Jobs \ {j} : updJob'[k].pc \notin InProgress
      BY <1>2, <1>3, <1>4, Zenon DEF UpdInv
    <2>2. Installing => Installing'
      BY <1>2, <1>3, Zenon DEF Installing
    <2>3. UpdFilesInv'
      BY <1>2, <2>1, <2>2, Zenon DEF AloneInv, UpdFilesInv
    <2>4. \A k \in Jobs : UpdJobInv(k)'
      BY <1>2, <1>3, <2>1, Zenon DEF AloneInv, UpdJobInv
    <2>5. \A i, k \in Jobs : updJob'[i].pc \in InProgress /\ updJob'[k].pc \in InProgress => i = k
      BY <2>1, Zenon
    <2> QED BY <2>3, <2>4, <2>5, Zenon DEF AloneInv
  <1>5. boot' # "remove"
    BY <1>2, Zenon
  <1> QED BY <1>2, <1>3, <1>4, <1>5, Zenon DEF UpdInv

\* A stop ends every job.
LEMMA UpdStopKeeps ==
  ASSUME UpdInv, UpdStop
  PROVE  UpdInv'
  <1>1. updJob \in [Jobs -> UpdRecord]
    BY Zenon DEF UpdInv
  <1>2. /\ UNCHANGED <<bin, staging, prev, updOverlap, stacked, cutRestored, fresh>>
        /\ unrecorded' = (unrecorded \/ Installing) /\ boot' = "up"
        /\ pending' = pending \/ (Installing /\ pending'.job = NoJob)
        /\ updJob' = [j \in Jobs |-> IF updJob[j].pc \in Active THEN [updJob[j] EXCEPT !.pc = "ended"] ELSE updJob[j]]
    BY UpdNoRecord, Zenon DEF UpdStop
  <1>3. \A j \in Jobs : updJob'[j] \in UpdRecord /\ updJob'[j].pc \in {"none", "ended"}
    <2> SUFFICES ASSUME NEW j \in Jobs PROVE updJob'[j] \in UpdRecord /\ updJob'[j].pc \in {"none", "ended"}
      BY Zenon
    <2>1. updJob[j] \in UpdRecord
      BY <1>1, Zenon
    <2>2. CASE updJob[j].pc \in Active
      <3>1. updJob'[j] = [updJob[j] EXCEPT !.pc = "ended"]
        BY <1>2, <2>2, Zenon
      <3> QED BY <2>1, <3>1, Zenon DEF UpdRecord
    <2>3. CASE updJob[j].pc \notin Active
      <3>1. updJob'[j] = updJob[j]
        BY <1>2, <2>3, Zenon
      <3> QED BY <2>1, <2>3, <3>1, Zenon DEF UpdRecord
    <2> QED BY <2>2, <2>3, Zenon
  <1>4. updJob' \in [Jobs -> UpdRecord]
    BY <1>2, <1>3, Zenon
  <1>5. \A j \in Jobs : updJob'[j].pc \notin Active
    BY <1>3, Zenon DEF Active
  <1>6. ASSUME ~updOverlap' PROVE AloneInv'
    <2>1. AloneInv
      BY <1>2, <1>6, Zenon DEF UpdInv
    <2>2. \A j \in Jobs : UpdJobInv(j)'
      BY <1>5, Zenon DEF UpdJobInv, Active
    <2>3. ~unrecorded' => ~unrecorded /\ ~Installing /\ pending' = pending
      BY <1>2, Zenon
    <2>4. pending' = pending \/ pending'.job = NoJob
      BY <1>2, Zenon
    <2>5. UNCHANGED <<bin, prev, stacked, cutRestored, fresh>>
      BY <1>2, Zenon
    <2>6. unrecorded' => UpdFilesInv'
      BY <2>1, <2>4, <2>5, Zenon DEF AloneInv, UpdFilesInv
    <2>7. ~unrecorded' => UpdFilesInv'
      BY <2>1, <2>3, <2>5, Zenon DEF AloneInv, UpdFilesInv
    <2>8. UpdFilesInv'
      BY <2>6, <2>7, Zenon
    <2> QED BY <1>5, <2>2, <2>8, Zenon DEF AloneInv, InProgress
  <1>7. boot' # "remove"
    BY <1>2, Zenon
  <1> QED BY <1>4, <1>5, <1>6, <1>7, Zenon DEF UpdInv

\* A start finds no job at work, so that it settles or rolls back undisturbed.
LEMMA UpdStartKeeps ==
  ASSUME UpdInv, UpdStart \/ StartRemove
  PROVE  UpdInv'
  <1>1. updJob \in [Jobs -> UpdRecord]
    BY Zenon DEF UpdInv
  <1>2. \A j \in Jobs : updJob[j].pc \notin Active
    BY Zenon DEF UpdInv, UpdStart, StartRemove
  <1>3. ~Installing
    BY <1>2, Zenon DEF Installing, Active
  <1>4. UNCHANGED <<updJob, staging, updOverlap, stacked, unrecorded>>
    BY Zenon DEF UpdStart, StartRemove, updHistory
  <1>5. ~fresh'
    BY Zenon DEF UpdStart, StartRemove, Rollback, RestorePrevious, UpdInv, updHistory
  <1>6. \/ UNCHANGED <<bin, prev, cutRestored>> /\ (pending' = pending \/ pending'.job = NoJob)
        \/ RestorePrevious /\ pending' = pending
    BY UpdNoRecord, Zenon DEF UpdStart, StartRemove, Rollback, updHistory
  <1>7. ASSUME ~updOverlap' PROVE AloneInv'
    <2>1. AloneInv
      BY <1>4, <1>7, Zenon DEF UpdInv
    <2>2. \A j \in Jobs : UpdJobInv(j)'
      BY <1>2, <1>4, Zenon DEF UpdJobInv, Active
    <2>3. UpdFilesInv'
      <3>1. CASE UNCHANGED <<bin, prev, cutRestored>> /\ (pending' = pending \/ pending'.job = NoJob)
        BY <1>3, <1>4, <1>5, <2>1, <3>1, Zenon DEF AloneInv, UpdFilesInv
      <3>2. CASE RestorePrevious /\ pending' = pending
        BY <1>4, <2>1, <3>2, UpdRestores, Zenon DEF AloneInv
      <3> QED BY <1>6, <3>1, <3>2, Zenon
    <2> QED BY <1>2, <1>4, <2>2, <2>3, Zenon DEF AloneInv, InProgress
  <1> QED BY <1>1, <1>2, <1>4, <1>5, <1>7, Zenon DEF UpdInv

\* The inductive invariant of updates, for any jobs, versions and stops.
THEOREM UpdatesInvariant == UpdSpec => []UpdInv
  <1>1. UpdInit => UpdInv
    <2> SUFFICES ASSUME UpdInit PROVE UpdInv
      BY Zenon
    <2>1. NewJob \in UpdRecord /\ NewJob.pc = "none" /\ NoPending.job = NoJob
      BY Zenon DEF NewJob, UpdRecord, Released, NoPending
    <2>2. updJob \in [Jobs -> UpdRecord] /\ \A j \in Jobs : updJob[j].pc = "none"
      BY <2>1, Zenon DEF UpdInit
    <2>3. \A j \in Jobs : updJob[j].pc \notin Active
      BY <2>2, Zenon DEF Active
    <2>4. UpdFilesInv
      BY <2>1, Zenon DEF UpdInit, UpdFilesInv, Released
    <2>5. \A j \in Jobs : UpdJobInv(j)
      BY <2>2, Zenon DEF UpdJobInv
    <2> QED BY <2>2, <2>3, <2>4, <2>5, Zenon DEF UpdInit, UpdInv, AloneInv, InProgress
  <1>2. UpdInv /\ [UpdNext]_updVars => UpdInv'
    <2> SUFFICES ASSUME UpdInv, [UpdNext]_updVars PROVE UpdInv'
      BY Zenon
    <2>1. CASE UNCHANGED <<bin, staging, prev, pending, running, boot, updJob, updHistory>>
      BY <2>1, Zenon DEF UpdInv, AloneInv, UpdFilesInv, UpdJobInv, Installing, updHistory
    <2>2. CASE UNCHANGED updVars
      BY <2>1, <2>2, Zenon DEF updVars, updHistory
    <2>3. CASE UpdTick
      BY <2>1, <2>3, Zenon DEF UpdTick, files
    <2>4. ASSUME NEW j \in Jobs, JobStep(j) PROVE UpdInv'
      BY <2>4, UpdFetchKeeps, UpdBackupKeeps, UpdInstallKeeps, UpdEndKeeps, Zenon DEF JobStep
    <2> QED
      BY <2>2, <2>3, <2>4, UpdReceiveKeeps, UpdStopKeeps, UpdStartKeeps, Zenon DEF UpdNext
  <1> QED BY <1>1, <1>2, PTL DEF UpdSpec

\* The binary on disk is a released one and the record of an update names it, and a start
\* restores the version before, and only when the restart came too late (agent/update,
\* executeAgentUpdate), with the exceptions UpdatesSound names, for any jobs, versions and stops.
THEOREM UpdatesHold == UpdSpec => UpdatesSound
  <1>1. UpdInv => BootableUnlessCut /\ RecordedUnlessCut
    BY Zenon DEF UpdInv, AloneInv, UpdFilesInv, BootableUnlessCut, RecordedUnlessCut
  <1>2. ASSUME UpdInv, UpdStart, ~updOverlap, prev # UpdTorn, bin' # bin \/ prev' # prev
        PROVE  /\ ~stacked => bin' = pending.previous
               /\ bin' # bin /\ ~unrecorded => updNow > pending.deadline
    <2>1. running = UpdAbsent /\ pending.job # NoJob /\ NeedRoll /\ prev # UpdAbsent /\ bin' = prev
      BY <1>2, Zenon DEF UpdStart, Rollback, RestorePrevious
    <2>2. ~Installing
      BY <1>2, <2>1, Zenon DEF UpdInv, Installing, Active
    <2>3. UpdFilesInv
      BY <1>2, Zenon DEF UpdInv, AloneInv
    <2> QED BY <1>2, <2>1, <2>2, <2>3, Zenon DEF UpdFilesInv, NeedRoll
  <1>3. UpdInv /\ [UpdNext]_updVars =>
          [(UpdStart /\ prev' # prev /\ ~updOverlap /\ ~stacked /\ prev # UpdTorn) => bin' = pending.previous]_updVars
    BY <1>2, Zenon
  <1>4. UpdInv /\ [UpdNext]_updVars =>
          [(UpdStart /\ bin' # bin /\ ~updOverlap /\ ~unrecorded /\ prev # UpdTorn) => updNow > pending.deadline]_updVars
    BY <1>2, Zenon
  <1> QED
    BY <1>1, <1>3, <1>4, UpdatesInvariant, PTL DEF UpdSpec, UpdatesSound, RollbackRestores, OnlyLateIsUndone

-----------------------------------------------------------------------------
(* The inventory *)

Row(v) == IF v = InvAbsent THEN <<>> ELSE <<v>>

\* The full inventory whose rows are being replaced, if there is one.
Storing == IF Replacing = {} THEN Idle ELSE full[CHOOSE f \in Replacing : TRUE]

\* The row a package has once the full inventory under way is through with it.
RowToBe(p) == IF Storing.pc = "replacing" /\ Storing.seen[p] # InvAbsent THEN Row(Storing.seen[p]) ELSE rows[p]

\* What a statement of the delta finds: no row to add, one to update.
Finds(s) ==
  /\ s.op \in {"added", "updated", "removed"} /\ s.v = invLast[s.p]
  /\ s.op = "removed" <=> s.v = InvAbsent
  /\ s.op = "added" => RowToBe(s.p) = <<>>
  /\ s.op = "updated" => \E w \in Versions : RowToBe(s.p) = <<w>>

\* The rows and the statements still to run make up the snapshot.
SyncInv ==
  /\ invLast \in Snapshots
  /\ \A s, u \in delta : s.p = u.p => s = u
  /\ \A s \in delta : Finds(s)
  /\ \A p \in Packages : (\A s \in delta : s.p # p) => RowToBe(p) = Row(invLast[p])
  /\ \A p \in Packages : Storing.pc = "replacing" /\ Storing.seen[p] # InvAbsent => rows[p] = <<>>
  /\ \A f, g \in Replacing : f = g

InvtTypes ==
  /\ host \in Snapshots /\ invLast \in Snapshots \cup {NoSnapshot} /\ DOMAIN rows = Packages
  /\ poller \in [pc : {"idle", "collected", "posted"}, seen : Snapshots]
  /\ pkgjob \in [pc : {"idle", "done", "collected"}, seen : Snapshots]
  /\ full \in [Fulls -> [pc : {"idle", "collected", "replacing"}, seen : Snapshots]]
  /\ \A s \in delta : s.p \in Packages
  /\ delta # {} => poller.pc = "posted"

InventoryInv == InvtTypes /\ (~drift => SyncInv)

\* What an INSERT and an UPDATE make of no row and of one.
LEMMA OneRow ==
  /\ \A v : Append(<<>>, v) = <<v>>
  /\ \A w, v : [i \in DOMAIN <<w>> |-> v] = <<v>>
  OBVIOUS

\* Records of the requests, and the snapshots they hold.
LEMMA InvtRecords ==
  /\ Empty \in Snapshots
  /\ \A h \in Snapshots : \A p \in Packages : [h EXCEPT ![p] = InvAbsent] \in Snapshots
  /\ Idle \in [pc : {"idle", "collected", "posted"}, seen : Snapshots]
  /\ Idle \in [pc : {"idle", "done", "collected"}, seen : Snapshots]
  /\ Idle \in [pc : {"idle", "collected", "replacing"}, seen : Snapshots]
  /\ Idle.pc = "idle"
  <1>1. Empty \in Snapshots
    BY Zenon DEF Empty, Snapshots
  <1>2. \A h \in Snapshots : \A p \in Packages : [h EXCEPT ![p] = InvAbsent] \in Snapshots
    BY Zenon DEF Snapshots
  <1> QED BY <1>1, <1>2, Zenon DEF Idle

\* Every statement of a delta is about a package, and there is one for each that
\* differs from the snapshot.
LEMMA DeltaStatements ==
  ASSUME NEW seen \in Snapshots, NEW s \in Delta(seen)
  PROVE  /\ invLast # NoSnapshot /\ s.p \in Packages /\ invLast[s.p] # seen[s.p] /\ s.v = seen[s.p]
         /\ s.op = CASE invLast[s.p] = InvAbsent -> "added"
                     [] seen[s.p] = InvAbsent -> "removed" [] OTHER -> "updated"
         /\ \A u \in Delta(seen) : u.p = s.p => u = s
  <1> DEFINE St(p) == [op |-> CASE invLast[p] = InvAbsent -> "added"
                                [] seen[p] = InvAbsent -> "removed" [] OTHER -> "updated",
                       p |-> p, v |-> seen[p]]
  <1>1. invLast # NoSnapshot
    BY Zenon DEF Delta
  <1>2. Delta(seen) = {St(p) : p \in {q \in Packages : invLast[q] # seen[q]}}
    BY <1>1, Zenon DEF Delta
  <1>3. \A p : St(p).p = p /\ St(p).v = seen[p]
               /\ St(p).op = CASE invLast[p] = InvAbsent -> "added"
                                [] seen[p] = InvAbsent -> "removed" [] OTHER -> "updated"
    BY Zenon
  <1> HIDE DEF St
  <1>4. PICK p \in Packages : invLast[p] # seen[p] /\ s = St(p)
    BY <1>2, Zenon
  <1>5. ASSUME NEW u \in Delta(seen), u.p = s.p PROVE u = s
    <2>1. PICK q \in Packages : u = St(q)
      BY <1>2, Zenon
    <2>2. St(q).p = q /\ St(p).p = p
      BY <1>3, Zenon
    <2>3. q = p
      BY <1>4, <1>5, <2>1, <2>2, Zenon
    <2> QED BY <1>4, <2>1, <2>3, Zenon
  <1> QED BY <1>1, <1>3, <1>4, <1>5, Zenon

\* A package that differs from the snapshot has a statement in the delta.
LEMMA DeltaCovers ==
  ASSUME NEW seen, NEW p \in Packages, invLast # NoSnapshot, invLast[p] # seen[p]
  PROVE  \E s \in Delta(seen) : s.p = p
  <1> DEFINE St(q) == [op |-> CASE invLast[q] = InvAbsent -> "added"
                                [] seen[q] = InvAbsent -> "removed" [] OTHER -> "updated",
                       p |-> q, v |-> seen[q]]
  <1>1. Delta(seen) = {St(q) : q \in {r \in Packages : invLast[r] # seen[r]}}
    BY Zenon DEF Delta
  <1>2. St(p).p = p
    BY Zenon
  <1> HIDE DEF St
  <1>3. St(p) \in Delta(seen)
    BY <1>1, Zenon
  <1> QED BY <1>2, <1>3, Zenon

\* The callers leave types and the position of the check-in as they are.
LEMMA InvtTyping ==
  ASSUME InvtTypes, [InvNext]_invVars
  PROVE  InvtTypes'
  <1> DEFINE Pol == [pc : {"idle", "collected", "posted"}, seen : Snapshots]
             Pkg == [pc : {"idle", "done", "collected"}, seen : Snapshots]
             Ful == [pc : {"idle", "collected", "replacing"}, seen : Snapshots]
  <1>0. /\ host \in Snapshots /\ invLast \in Snapshots \cup {NoSnapshot} /\ DOMAIN rows = Packages
        /\ poller \in Pol /\ pkgjob \in Pkg /\ full \in [Fulls -> Ful]
        /\ \A s \in delta : s.p \in Packages
        /\ delta # {} => poller.pc = "posted"
    BY Zenon DEF InvtTypes
  <1>1. Idle \in Pol /\ Idle \in Pkg /\ Idle \in Ful /\ Idle.pc = "idle"
    BY InvtRecords, Zenon
  <1>2. poller.seen \in Snapshots /\ pkgjob.seen \in Snapshots
        /\ \A f \in Fulls : full[f].seen \in Snapshots
    BY <1>0, Zenon
  <1>3. \A p : [poller EXCEPT !.pc = "posted"] \in Pol /\ [poller EXCEPT !.pc = "posted"].pc = "posted"
               /\ [pkgjob EXCEPT !.pc = "done"] \in Pkg 
               /\ \A f \in Fulls : [full[f] EXCEPT !.pc = "replacing"] \in Ful
    BY <1>0, Zenon
  <1>4. [pc |-> "collected", seen |-> host] \in Pol /\ [pc |-> "collected", seen |-> host] \in Pkg
        /\ [pc |-> "collected", seen |-> host] \in Ful
    BY <1>0, Zenon
  <1>5. \A p \in Packages, v \in Versions \cup {InvAbsent} : Change(p, v) => host' \in Snapshots
    BY <1>0 DEF Change, Snapshots
  <1> HIDE DEF Pol, Pkg, Ful
  <1>6. CASE Local
    BY <1>0, <1>5, <1>6, Zenon DEF Local, InvtTypes, Pol, Pkg, Ful
  <1>7. CASE CheckinCollect
    <2>1. delta = {}
      BY <1>0, <1>7, Zenon DEF CheckinCollect
    <2> QED BY <1>0, <1>4, <1>7, <2>1, Zenon DEF CheckinCollect, InvtTypes, Pol, Pkg, Ful
  <1>8. CASE CheckinPost
    <2>1. \A s \in Delta(poller.seen) : s.p \in Packages
      BY <1>2, DeltaStatements, Zenon
    <2> QED BY <1>0, <1>2, <1>3, <1>8, <2>1, Zenon DEF CheckinPost, InvtTypes, Pol, Pkg, Ful
  <1>9. CASE InvApply
    <2>1. PICK s \in delta : Run(s) /\ delta' = delta \ {s}
      BY <1>9, Zenon DEF InvApply
    <2>2. DOMAIN rows' = Packages
      BY <1>0, <2>1, Zenon DEF Run
    <2>3. \A u \in delta' : u \in delta
      BY <2>1, Zenon
    <2> QED BY <1>0, <1>9, <2>2, <2>3, Zenon DEF InvApply, InvtTypes, Pol, Pkg, Ful
  <1>10. CASE CheckinAnswered
    BY <1>0, <1>1, <1>10, Zenon DEF CheckinAnswered, InvtTypes, Pol, Pkg, Ful
  <1>11. CASE CheckinLost \/ ApplyFails
    BY <1>0, <1>1, <1>11, Zenon DEF CheckinLost, ApplyFails, InvtTypes, Pol, Pkg, Ful
  <1>12. CASE PackageJob
    BY <1>0, <1>3, <1>5, <1>12, Zenon DEF PackageJob, InvtTypes, Pol, Pkg, Ful
  <1>13. CASE RefreshCollect
    <2>1. pkgjob' \in Pkg
      BY <1>1, <1>4, <1>13, Zenon DEF RefreshCollect
    <2> QED BY <1>0, <1>13, <2>1, Zenon DEF RefreshCollect, InvtTypes, Pol, Pkg, Ful
  <1>14. CASE Refresh
    BY <1>0, <1>1, <1>2, <1>14, Zenon DEF Refresh, InvtTypes, Pol, Pkg, Ful
  <1>15. ASSUME NEW f \in Fulls, NEW r \in Ful, full' = [full EXCEPT ![f] = r]
         PROVE  full' \in [Fulls -> Ful]
    BY <1>0, <1>15, Zenon
  <1>16. ASSUME NEW f \in Fulls, FullJob(f)
         PROVE  \E r \in Ful : full' = [full EXCEPT ![f] = r]
    <2>1. CASE FullCollect(f)
      BY <1>4, <2>1, Zenon DEF FullCollect
    <2>2. CASE FullDelete(f)
      BY <1>1, <1>3, <2>2, Zenon DEF FullDelete
    <2>3. CASE FullInsert(f)
      <3>1. PICK p \in Packages :
              full' = [full EXCEPT ![f] = IF [full[f].seen EXCEPT ![p] = InvAbsent] = Empty THEN Idle
                                          ELSE [@ EXCEPT !.seen = [full[f].seen EXCEPT ![p] = InvAbsent]]]
        BY <2>3, Zenon DEF FullInsert
      <3>2. [full[f].seen EXCEPT ![p] = InvAbsent] \in Snapshots
        BY <1>2, InvtRecords, Zenon
      <3>3. \A r \in Snapshots : [full[f] EXCEPT !.seen = r] \in Ful
        BY <1>0, Zenon DEF Ful
      <3> QED BY <1>1, <3>1, <3>2, <3>3, Zenon
    <2>4. CASE FullFails(f)
      BY <1>1, <2>4, Zenon DEF FullFails
    <2> QED BY <1>16, <2>1, <2>2, <2>3, <2>4, Zenon DEF FullJob
  <1>17. ASSUME NEW f \in Fulls, FullJob(f)
         PROVE  DOMAIN rows' = Packages /\ UNCHANGED <<host, invLast, poller, delta, pkgjob>>
    BY <1>0, <1>17, Zenon DEF FullJob, FullCollect, FullDelete, FullInsert, FullFails
  <1>18. ASSUME NEW f \in Fulls, FullJob(f) PROVE InvtTypes'
    <2>1. full' \in [Fulls -> Ful]
      BY <1>15, <1>16, <1>18, Zenon
    <2>2. DOMAIN rows' = Packages /\ UNCHANGED <<host, invLast, poller, delta, pkgjob>>
      BY <1>17, <1>18, Zenon
    <2> QED BY <1>0, <2>1, <2>2, Zenon DEF InvtTypes, Pol, Pkg, Ful
  <1>19. CASE InvRestart
    <2>1. full' \in [Fulls -> Ful]
      BY <1>0, <1>1, <1>19, Zenon DEF InvRestart
    <2> QED BY <1>0, <1>1, <1>19, <2>1, Zenon DEF InvRestart, InvtTypes, Pol, Pkg, Ful
  <1>20. CASE UNCHANGED invVars
    BY <1>20, Zenon DEF invVars, InvtTypes
  <1> QED
    BY <1>6, <1>7, <1>8, <1>9, <1>10, <1>11, <1>12, <1>13, <1>14, <1>18, <1>19, <1>20, Zenon
    DEF InvNext, InvCheckin

\* Which full inventory is being stored.
LEMMA StoringOf ==
  ASSUME \A f, g \in Replacing : f = g
  PROVE  /\ \A f \in Replacing : Storing = full[f]
         /\ Replacing = {} => Storing = Idle
         /\ Storing.pc = "replacing" <=> Replacing # {}
  <1>1. ASSUME NEW f \in Replacing PROVE Storing = full[f] /\ Storing.pc = "replacing"
    <2>1. (CHOOSE h \in Replacing : TRUE) \in Replacing
      BY Zenon
    <2>2. (CHOOSE h \in Replacing : TRUE) = f
      BY <2>1, Zenon
    <2>3. Storing = full[f]
      BY <2>2, Zenon DEF Storing
    <2> QED BY <2>3, Zenon DEF Replacing
  <1>2. Replacing = {} => Storing = Idle /\ Storing.pc # "replacing"
    BY InvtRecords, Zenon DEF Storing
  <1> QED BY <1>1, <1>2, Zenon

\* A step of a full inventory job that replaces no rows leaves the one that does.
LEMMA StoringSame ==
  ASSUME InvtTypes, SyncInv, NEW f \in Fulls, NEW r, full' = [full EXCEPT ![f] = r],
         full[f].pc # "replacing", r.pc # "replacing"
  PROVE  Storing' = Storing /\ Replacing' = Replacing
  <1>1. full' [f] = r /\ \A g \in Fulls \ {f} : full'[g] = full[g]
    BY Zenon DEF InvtTypes
  <1>2. Replacing' = Replacing
    BY <1>1, Zenon DEF Replacing
  <1>3. \A g \in Replacing : full'[g] = full[g]
    BY <1>1, Zenon DEF Replacing
  <1>4. CASE Replacing = {}
    BY <1>2, <1>4, Zenon DEF Storing
  <1>5. CASE Replacing # {}
    BY <1>2, <1>3, <1>5, Zenon DEF Storing
  <1> QED BY <1>2, <1>4, <1>5, Zenon

\* A step that leaves the snapshot, the delta and the rows to be.
LEMMA SyncSame ==
  ASSUME InvtTypes, SyncInv, UNCHANGED <<invLast, delta>>,
         \A p \in Packages : RowToBe(p)' = RowToBe(p),
         \A p \in Packages : Storing'.pc = "replacing" /\ Storing'.seen[p] # InvAbsent => rows'[p] = <<>>,
         \A f, g \in Replacing' : f = g
  PROVE  SyncInv'
  <1>1. ASSUME NEW s \in delta PROVE Finds(s)'
    <2>1. Finds(s) /\ RowToBe(s.p)' = RowToBe(s.p)
      BY Zenon DEF SyncInv, InvtTypes
    <2> QED BY <2>1, Zenon DEF Finds
  <1>2. \A p \in Packages : (\A s \in delta' : s.p # p) => RowToBe(p)' = Row(invLast'[p])
    BY Zenon DEF SyncInv
  <1> QED BY <1>1, <1>2, Zenon DEF SyncInv

\* Statements of a delta that run one after the other, and inserts of a full
\* inventory, lead to the snapshot.
LEMMA SyncStep ==
  ASSUME InvtTypes, drift \/ SyncInv, [InvNext]_invVars, ~drift'
  PROVE  SyncInv'
  <1>1. CASE UNCHANGED <<invLast, delta, rows>> /\ Storing' = Storing /\ Replacing' = Replacing /\ SyncInv
    <2>1. \A p \in Packages : RowToBe(p)' = RowToBe(p)
      BY <1>1, Zenon DEF RowToBe
    <2> QED BY <1>1, <2>1, SyncSame, Zenon DEF SyncInv
  <1>2. UNCHANGED full => Storing' = Storing /\ Replacing' = Replacing
    <2> SUFFICES ASSUME UNCHANGED full PROVE Storing' = Storing /\ Replacing' = Replacing
      BY Zenon
    <2>1. Replacing' = Replacing
      BY Zenon DEF Replacing
    <2>2. (CHOOSE f \in Replacing' : TRUE) = (CHOOSE f \in Replacing : TRUE)
      BY <2>1, Zenon
    <2>3. full'[CHOOSE f \in Replacing' : TRUE] = full[CHOOSE f \in Replacing : TRUE]
      BY <2>2, Zenon
    <2> QED BY <2>1, <2>3, Zenon DEF Storing
  <1>3. CASE Local \/ CheckinCollect \/ CheckinAnswered \/ PackageJob \/ RefreshCollect \/ Refresh
             \/ CheckinLost \/ UNCHANGED invVars
    <2>1. UNCHANGED <<invLast, delta, rows, full>> /\ SyncInv
      BY <1>3, Zenon DEF Local, CheckinCollect, CheckinAnswered, PackageJob, RefreshCollect, Refresh,
         CheckinLost, invVars
    <2> QED BY <1>1, <1>2, <2>1, Zenon
  <1>4. ~ApplyFails /\ ~InvRestart
    BY Zenon DEF ApplyFails, InvRestart
  <1>5. ASSUME NEW f \in Fulls, FullCollect(f) \/ FullFails(f) PROVE SyncInv'
    <2>1. PICK r : full' = [full EXCEPT ![f] = r] /\ r.pc # "replacing" /\ full[f].pc # "replacing"
                   /\ UNCHANGED <<invLast, delta, rows>> /\ SyncInv
      <3>1. CASE FullCollect(f)
        <4>1. [pc |-> "collected", seen |-> host].pc = "collected"
          BY Zenon
        <4>2. full' = [full EXCEPT ![f] = [pc |-> "collected", seen |-> host]] /\ full[f].pc = "idle"
              /\ UNCHANGED <<invLast, delta, rows, drift>>
          BY <3>1, Zenon DEF FullCollect
        <4>3. [pc |-> "collected", seen |-> host].pc # "replacing" /\ full[f].pc # "replacing" /\ SyncInv
          BY <4>1, <4>2, Zenon
        <4> QED BY <4>2, <4>3, Zenon
      <3>2. CASE FullFails(f)
        <4>1. full' = [full EXCEPT ![f] = Idle] /\ full[f].pc # "replacing" /\ ~drift
          BY <3>2, Zenon DEF FullFails, Replacing
        <4> QED BY <3>2, <4>1, InvtRecords, Zenon DEF FullFails
      <3> QED BY <1>5, <3>1, <3>2, Zenon
    <2> QED BY <1>1, <2>1, StoringSame, Zenon
  <1>6. ASSUME NEW f \in Fulls, FullDelete(f) PROVE SyncInv'
    <2>1. CASE full[f].seen = Empty
      <3>1. full' = [full EXCEPT ![f] = Idle] /\ full[f].pc # "replacing"
            /\ UNCHANGED <<invLast, delta, rows, drift>>
        BY <1>6, <2>1, Zenon DEF FullDelete
      <3> QED BY <1>1, <3>1, StoringSame, InvtRecords, Zenon
    <2>2. CASE full[f].seen # Empty
      <3>1. delta' = {} /\ delta = {} /\ invLast = full[f].seen /\ invLast' = invLast /\ Replacing = {}
            /\ rows' = [p \in Packages |-> <<>>] /\ full' = [full EXCEPT ![f].pc = "replacing"]
        BY <1>6, <2>2, Zenon DEF FullDelete
      <3>2. full[f].seen \in Snapshots /\ full'[f].pc = "replacing" /\ full'[f].seen = full[f].seen
            /\ \A g \in Fulls \ {f} : full'[g] = full[g]
        <4>1. full' = [full EXCEPT ![f] = [full[f] EXCEPT !.pc = "replacing"]]
          BY <3>1, Zenon
        <4> QED BY <4>1, Zenon DEF InvtTypes
      <3>3. Replacing' = {f}
        BY <3>1, <3>2, ZenonT(60) DEF Replacing
      <3>4. Storing' = full'[f] /\ \A g, h \in Replacing' : g = h
        BY <3>3, StoringOf, Zenon DEF Storing
      <3>5. \A p \in Packages : RowToBe(p)' = Row(invLast'[p])
        BY <3>1, <3>2, <3>4 DEF RowToBe, Row
      <3> QED BY <3>1, <3>2, <3>4, <3>5, Zenon DEF SyncInv
    <2> QED BY <2>1, <2>2, Zenon
  <1>7. ASSUME NEW f \in Fulls, FullInsert(f) PROVE SyncInv'
    <2> DEFINE seen == full[f].seen
               Rest(p) == [seen EXCEPT ![p] = InvAbsent]
    <2>1. PICK p \in Packages :
            /\ seen[p] # InvAbsent
            /\ rows' = [rows EXCEPT ![p] = Append(@, seen[p])]
            /\ full' = [full EXCEPT ![f] = IF Rest(p) = Empty THEN Idle ELSE [@ EXCEPT !.seen = Rest(p)]]
      BY <1>7, Zenon DEF FullInsert
    <2>2. SyncInv /\ full[f].pc = "replacing" /\ UNCHANGED <<invLast, delta>>
      BY <1>7, Zenon DEF FullInsert
    <2>3. seen \in Snapshots /\ DOMAIN rows = Packages /\ full[f] \in [pc : {"idle", "collected", "replacing"}, seen : Snapshots]
          /\ f \in DOMAIN full /\ DOMAIN full = Fulls
      BY Zenon DEF InvtTypes
    <2>4. Replacing = {f} /\ Storing = full[f]
      <3>1. f \in Replacing
        BY <2>2, Zenon DEF Replacing
      <3> QED BY <2>2, <3>1, StoringOf, Zenon DEF SyncInv
    <2>5. rows[p] = <<>> /\ rows'[p] = <<seen[p]>> /\ \A q \in Packages \ {p} : rows'[q] = rows[q]
      BY <2>1, <2>2, <2>3, <2>4, OneRow, Zenon DEF SyncInv
    <2>6. \A q \in Packages : Rest(p)[q] = IF q = p THEN InvAbsent ELSE seen[q]
      BY <2>3, Zenon DEF Snapshots
    <2>7. \A g \in Fulls \ {f} : full'[g] = full[g] /\ full'[g].pc # "replacing"
      BY <2>1, <2>3, <2>4, Zenon DEF Replacing
    <2>8. CASE Rest(p) = Empty
      <3>1. full'[f] = Idle
        BY <2>1, <2>3, <2>8, Zenon
      <3>2. Replacing' = {}
        BY <2>7, <3>1, InvtRecords, Zenon DEF Replacing
      <3>3. Storing' = Idle /\ Idle.pc # "replacing"
        BY <3>2, InvtRecords, Zenon DEF Storing
      <3>4. \A q \in Packages \ {p} : seen[q] = InvAbsent
        BY <2>6, <2>8, Zenon DEF Empty
      <3>5. \A q \in Packages : RowToBe(q)' = RowToBe(q)
        BY <2>1, <2>2, <2>4, <2>5, <3>3, <3>4, Zenon DEF RowToBe, Row
      <3> QED BY <2>2, <3>2, <3>3, <3>5, SyncSame, Zenon
    <2>9. CASE Rest(p) # Empty
      <3>1. full'[f] = [full[f] EXCEPT !.seen = Rest(p)]
        BY <2>1, <2>3, <2>9, Zenon
      <3>2. full'[f].pc = "replacing" /\ full'[f].seen = Rest(p)
        BY <2>2, <2>3, <3>1, Zenon
      <3>3. Replacing' = {f}
        BY <2>7, <3>2, Zenon DEF Replacing
      <3>4. Storing' = full'[f] /\ \A g, h \in Replacing' : g = h
        BY <3>3, Zenon DEF Storing
      <3>5. \A q \in Packages : RowToBe(q)' = RowToBe(q)
        <4>1. RowToBe(p)' = RowToBe(p)
          BY <2>1, <2>2, <2>4, <2>5, <2>6, <3>2, <3>4, Zenon DEF RowToBe, Row
        <4>2. ASSUME NEW q \in Packages \ {p} PROVE RowToBe(q)' = RowToBe(q)
          <5>1. Storing'.seen[q] = Storing.seen[q] /\ rows'[q] = rows[q] /\ Storing'.pc = Storing.pc
            BY <2>2, <2>4, <2>5, <2>6, <3>2, <3>4, Zenon
          <5> QED BY <5>1, Zenon DEF RowToBe, Row
        <4> QED BY <4>1, <4>2, Zenon
      <3>6. \A q \in Packages : Storing'.seen[q] # InvAbsent => rows'[q] = <<>>
        BY <2>2, <2>4, <2>5, <2>6, <3>2, <3>4, Zenon DEF SyncInv
      <3> QED BY <2>2, <3>4, <3>5, <3>6, SyncSame, Zenon
    <2> QED BY <2>8, <2>9, Zenon
  <1>8. CASE CheckinPost
    <2>1. SyncInv /\ UNCHANGED rows /\ delta' = Delta(poller.seen) /\ invLast' = poller.seen
          /\ poller.pc = "collected" /\ Storing' = Storing /\ Replacing' = Replacing
      BY <1>2, <1>8, Zenon DEF CheckinPost
    <2>2. delta = {} /\ poller.seen \in Snapshots /\ invLast \in Snapshots
      BY <2>1, Zenon DEF InvtTypes, SyncInv
    <2>3. \A p \in Packages : RowToBe(p) = Row(invLast[p]) /\ RowToBe(p)' = RowToBe(p)
      BY <2>1, <2>2, Zenon DEF SyncInv, RowToBe
    <2>4. ASSUME NEW s \in delta' PROVE Finds(s)' /\ \A u \in delta' : s.p = u.p => s = u
      <3>1. /\ s.p \in Packages /\ invLast[s.p] # poller.seen[s.p] /\ s.v = poller.seen[s.p]
            /\ s.op = CASE invLast[s.p] = InvAbsent -> "added"
                        [] poller.seen[s.p] = InvAbsent -> "removed" [] OTHER -> "updated"
            /\ \A u \in delta' : u.p = s.p => u = s
        BY <2>1, <2>2, <2>4, DeltaStatements, Zenon
      <3>2. RowToBe(s.p)' = Row(invLast[s.p]) /\ invLast[s.p] \in Versions \cup {InvAbsent}
        BY <2>2, <2>3, <3>1, Zenon DEF Snapshots
      <3>3. CASE invLast[s.p] = InvAbsent
        BY <2>1, <3>1, <3>2, <3>3, Zenon DEF Finds, Row
      <3>4. CASE invLast[s.p] # InvAbsent /\ poller.seen[s.p] = InvAbsent
        BY <2>1, <3>1, <3>2, <3>4, Zenon DEF Finds, Row
      <3>5. CASE invLast[s.p] # InvAbsent /\ poller.seen[s.p] # InvAbsent
        BY <2>1, <3>1, <3>2, <3>5, Zenon DEF Finds, Row
      <3> QED BY <3>3, <3>4, <3>5, Zenon
    <2>5. ASSUME NEW p \in Packages, \A s \in delta' : s.p # p PROVE RowToBe(p)' = Row(invLast'[p])
      <3>1. invLast[p] = poller.seen[p]
        <4>1. CASE invLast = NoSnapshot
          <5>1. NoSnapshot[p] = -1 /\ invLast[p] \in Versions \cup {0}
            BY <2>2, Zenon DEF NoSnapshot, Snapshots, InvAbsent
          <5> QED BY <4>1, <5>1, InventoryAssumption
        <4>2. CASE invLast # NoSnapshot
          BY <2>1, <2>5, <4>2, DeltaCovers, Zenon
        <4> QED BY <4>1, <4>2, Zenon
      <3> QED BY <2>1, <2>3, <3>1, Zenon
    <2>6. \A p \in Packages : Storing'.pc = "replacing" /\ Storing'.seen[p] # InvAbsent => rows'[p] = <<>>
      BY <2>1, Zenon DEF SyncInv
    <2> QED BY <2>1, <2>2, <2>4, <2>5, <2>6, Zenon DEF SyncInv
  <1>9. CASE InvApply
    <2>1. PICK s \in delta : Run(s) /\ delta' = delta \ {s}
      BY <1>9, Zenon DEF InvApply
    <2>2. SyncInv /\ Storing.pc # "replacing" /\ UNCHANGED invLast /\ Storing' = Storing /\ Replacing' = Replacing
      <3>1. SyncInv /\ Replacing = {} /\ UNCHANGED <<invLast, full>>
        BY <1>9, Zenon DEF InvApply
      <3> QED BY <1>2, <3>1, StoringOf, Zenon DEF SyncInv
    <2>3. DOMAIN rows = Packages /\ s.p \in Packages /\ Finds(s)
      BY <2>1, <2>2, Zenon DEF SyncInv, InvtTypes
    <2>4. \A p \in Packages : RowToBe(p) = rows[p] /\ RowToBe(p)' = rows'[p]
      BY <2>2, Zenon DEF RowToBe
    <2>5. rows'[s.p] = Row(invLast[s.p])
      <3>1. CASE s.op = "added"
        <4>1. rows'[s.p] = Append(rows[s.p], s.v) /\ rows[s.p] = <<>> /\ s.v # InvAbsent /\ s.v = invLast[s.p]
          BY <2>1, <2>3, <2>4, <3>1, Zenon DEF Run, Finds
        <4> QED BY <4>1, OneRow, Zenon DEF Row
      <3>2. CASE s.op = "updated"
        <4>1. PICK w \in Versions : rows[s.p] = <<w>>
          BY <2>3, <2>4, <3>2, Zenon DEF Finds
        <4>2. rows'[s.p] = [i \in DOMAIN rows[s.p] |-> s.v] /\ s.v # InvAbsent /\ s.v = invLast[s.p]
          BY <2>1, <2>3, <3>2, Zenon DEF Run, Finds
        <4> QED BY <4>1, <4>2, OneRow DEF Row
      <3>3. CASE s.op = "removed"
        <4>1. rows'[s.p] = <<>> /\ s.v = InvAbsent /\ s.v = invLast[s.p]
          BY <2>1, <2>3, <3>3, Zenon DEF Run, Finds
        <4> QED BY <4>1, Zenon DEF Row
      <3> QED BY <2>3, <3>1, <3>2, <3>3, Zenon DEF Finds
    <2>6. \A p \in Packages \ {s.p} : rows'[p] = rows[p]
      BY <2>1, <2>3, Zenon DEF Run
    <2>7. ASSUME NEW u \in delta' PROVE Finds(u)'
      <3>1. u \in delta /\ u.p # s.p /\ Finds(u) /\ u.p \in Packages
        BY <2>1, <2>2, Zenon DEF SyncInv, InvtTypes
      <3>2. RowToBe(u.p)' = RowToBe(u.p)
        BY <2>4, <2>6, <3>1, Zenon
      <3> QED BY <2>2, <3>1, <3>2, Zenon DEF Finds
    <2>8. ASSUME NEW p \in Packages, \A u \in delta' : u.p # p PROVE RowToBe(p)' = Row(invLast'[p])
      <3>1. CASE p = s.p
        BY <2>2, <2>4, <2>5, <3>1, Zenon
      <3>2. CASE p # s.p
        <4>1. \A u \in delta : u.p # p
          BY <2>1, <2>8, <3>2, Zenon
        <4> QED BY <2>2, <2>4, <2>6, <3>2, <4>1, Zenon DEF SyncInv
      <3> QED BY <3>1, <3>2, Zenon
    <2> QED BY <2>1, <2>2, <2>7, <2>8, Zenon DEF SyncInv
  <1> QED
    BY <1>3, <1>4, <1>5, <1>6, <1>7, <1>8, <1>9, Zenon DEF InvNext, InvCheckin, FullJob

\* The inductive invariant of the package inventory, for any packages and
\* versions.
THEOREM InventoryInvariant == InvSpec => []InventoryInv
  <1>1. InvInit => InventoryInv
    <2> SUFFICES ASSUME InvInit PROVE InventoryInv
      BY Zenon
    <2>1. host \in Snapshots /\ DOMAIN rows = Packages /\ drift
      BY Zenon DEF InvInit
    <2> QED BY <2>1, InvtRecords, Zenon DEF InvInit, InventoryInv, InvtTypes
  <1>2. InventoryInv /\ [InvNext]_invVars => InventoryInv'
    BY InvtTyping, SyncStep, Zenon DEF InventoryInv
  <1> QED BY <1>1, <1>2, PTL DEF InvSpec

\* ComputeDelta and processPackageDelta keep the rows the collector's snapshot
\* whenever no request is under way, with the exceptions SyncedUnlessDrift
\* names, for any packages and versions.
THEOREM InventoryHolds == InvSpec => []SyncedUnlessDrift
  <1>1. InventoryInv => SyncedUnlessDrift
    <2> SUFFICES ASSUME InventoryInv, ~drift, delta = {}, Replacing = {}, NEW p \in Packages
                 PROVE  rows[p] = IF invLast[p] = InvAbsent THEN <<>> ELSE <<invLast[p]>>
      BY Zenon DEF SyncedUnlessDrift, Matches
    <2>1. SyncInv /\ RowToBe(p) = rows[p]
      BY StoringOf, Zenon DEF InventoryInv, SyncInv, RowToBe
    <2>2. RowToBe(p) = Row(invLast[p])
      BY <2>1, Zenon DEF SyncInv
    <2> QED BY <2>1, <2>2, Zenon DEF Row
  <1> QED BY <1>1, InventoryInvariant, PTL

=============================================================================
