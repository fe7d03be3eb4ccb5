-------------------------------- MODULE Cdm --------------------------------
(***************************************************************************)
(* The agent's CDM manager (agent/cdm/cdm.go): the state behind its mutex, *)
(* the JSON file it is persisted to, and the job gate of the executor.     *)
(* Every method holds the mutex from its first read to its last write, so  *)
(* each is one step; a job passes the gate, is acknowledged by the server  *)
(* and then executes, which are separate steps.  The agent may crash and   *)
(* writing the file may fail, with the file left as it was or truncated.   *)
(***************************************************************************)
EXTENDS Naturals

CONSTANTS
    CdmMaxTime,    \* the clock stops there
    Durations,  \* lengths a session may be granted for
    CdmMaxFaults   \* failed writes and crashes in a behaviour

ASSUME CdmAssumption ==
    /\ CdmMaxTime \in Nat /\ CdmMaxFaults \in Nat
    /\ Durations \subseteq Nat \ {0}

VARIABLES
    cdmNow,
    up,         \* the daemon runs
    state,      \* Manager.state: enabled, active, expires (0 for nil)
    file,       \* the state file: absent, whole with what it says, or torn
    job,        \* the executor's job: none, past the gate, or executing
    cdmFaults,
    word        \* history: what the last successful call told the user about
                \* jobs, or unsure after a decision that returned an error

cdmVars == <<cdmNow, up, state, file, job, cdmFaults, word>>

State == [enabled : BOOLEAN, active : BOOLEAN, expires : Nat]
Disabled == [enabled |-> FALSE, active |-> FALSE, expires |-> 0]
Whole(s) == [kind |-> "whole", says |-> s]
Absent   == [kind |-> "absent", says |-> Disabled]
Torn     == [kind |-> "torn", says |-> Disabled]

\* what the user was told: jobs run, jobs are held, jobs run until a deadline
Words == [tells : {"free", "held", "until", "unsure"}, deadline : Nat]
Word(t) == [tells |-> t, deadline |-> 0]

\* Clock, file, state and job have their types, and a session exists only
\* while CDM is enabled and always has a deadline, in memory and in the file.
CdmTypeOK ==
    /\ cdmNow \in 0..CdmMaxTime /\ up \in BOOLEAN /\ cdmFaults \in 0..CdmMaxFaults
    /\ state \in State /\ word \in Words
    /\ file \in [kind : {"absent", "whole", "torn"}, says : State]
    /\ job \in {"none", "admitted", "executing"}
    /\ \A s \in {state, file.says} :
          /\ s.active <=> s.expires # 0
          /\ s.active => s.enabled

CdmInit ==
    /\ cdmNow = 0 /\ up = TRUE /\ cdmFaults = 0
    /\ state = Disabled /\ file = Absent
    /\ job = "none"
    /\ word = Word("free")

-----------------------------------------------------------------------------
(* The file *)

CdmFault == cdmFaults < CdmMaxFaults /\ cdmFaults' = cdmFaults + 1

\* os.WriteFile truncates the file, then writes it
Saved(s) == file' = Whole(s) /\ UNCHANGED cdmFaults
NotSaved == CdmFault /\ file' \in {file, Torn}

\* persistLocked with its error dropped
SavedOrNot(s) == Saved(s) \/ NotSaved

Expired(s) == s.active /\ cdmNow > s.expires

AfterExpiryLate(s) == IF s.active /\ cdmNow > s.expires + 1
                      THEN [s EXCEPT !.active = FALSE, !.expires = 0] ELSE s

\* checkExpiryLocked: afterwards the manager's state is AfterExpiry
AfterExpiry(s) == IF Expired(s) THEN [s EXCEPT !.active = FALSE, !.expires = 0] ELSE s

checkExpiryLocked(s) ==
    /\ state' = AfterExpiry(s)
    /\ IF Expired(s) THEN SavedOrNot(AfterExpiry(s)) ELSE UNCHANGED <<file, cdmFaults>>

-----------------------------------------------------------------------------
(* What the local interfaces call *)

\* the decision s takes effect in memory whether or not it reaches the file
Decided(s, w) ==
    /\ state' = s
    /\ \/ Saved(s) /\ word' = w
       \/ NotSaved /\ word' = Word("unsure")
    /\ UNCHANGED <<cdmNow, up, job>>

\* what state s, once saved, lets the user count on
Meaning(s) == IF ~s.enabled THEN Word("free")
              ELSE IF s.active THEN [tells |-> "until", deadline |-> s.expires]
              ELSE Word("held")

\* a failed write is undone in memory, so the user's last word stands
Enable ==
    /\ up
    /\ LET s == [state EXCEPT !.enabled = TRUE] IN
       \/ state' = s /\ Saved(s) /\ word' = Meaning(s)
       \/ NotSaved /\ UNCHANGED <<state, word>>
    /\ UNCHANGED <<cdmNow, up, job>>

DisableOnly == up /\ Decided([state EXCEPT !.enabled = FALSE], Word("free"))

Disable == up /\ Decided(Disabled, Word("free"))

GrantSession(d) ==
    /\ up
    /\ state.enabled
    /\ LET s == [state EXCEPT !.active = TRUE, !.expires = cdmNow + d]
       IN  Decided(s, Meaning(s))

RevokeSession ==
    /\ up
    /\ state.active
    /\ Decided([state EXCEPT !.active = FALSE, !.expires = 0], Word("held"))

SnapshotUnchecked == up /\ UNCHANGED cdmVars

\* Snapshot and SessionActive: the status handlers and, every second, the feed
\* of the poller
Snapshot ==
    /\ up
    /\ checkExpiryLocked(state)
    /\ UNCHANGED <<cdmNow, up, job, word>>

-----------------------------------------------------------------------------
(* The executor's job *)

\* CanExecuteJob lets it pass
Admit ==
    /\ up /\ job = "none"
    /\ checkExpiryLocked(state)
    /\ ~state'.enabled \/ state'.active
    /\ job' = "admitted"
    /\ UNCHANGED <<cdmNow, up, word>>

\* acknowledged, then the audit entry (Snapshot), then execution; the gate is
\* not asked again
Execute ==
    /\ up /\ job = "admitted"
    /\ IF state.enabled THEN checkExpiryLocked(state) ELSE UNCHANGED <<state, file, cdmFaults>>
    /\ job' = "executing"
    /\ UNCHANGED <<cdmNow, up, word>>

\* the acknowledgement is refused or does not arrive, or the job ends
JobEnds ==
    /\ up /\ job # "none"
    /\ job' = "none"
    /\ UNCHANGED <<cdmNow, up, state, file, cdmFaults, word>>

-----------------------------------------------------------------------------
(* The process and the clock *)

\* a crash may come while the file is being written
Crash ==
    /\ up /\ up' = FALSE
    /\ NotSaved
    /\ job' = "none"
    /\ UNCHANGED <<cdmNow, state, word>>

\* New: an absent file is the zero State, a torn one keeps the daemon down
CdmStart ==
    /\ ~up /\ file.kind # "torn"
    /\ up' = TRUE
    /\ checkExpiryLocked(file.says)
    /\ UNCHANGED <<cdmNow, job, word>>

CdmTick == cdmNow < CdmMaxTime /\ cdmNow' = cdmNow + 1 /\ UNCHANGED <<up, state, file, job, cdmFaults, word>>

CdmNext == \/ Enable \/ Disable \/ RevokeSession \/ Snapshot
           \/ \E d \in Durations : GrantSession(d)
           \/ Admit \/ Execute \/ JobEnds
           \/ Crash \/ CdmStart \/ CdmTick

\* The CDM feed of the daemon's main loop calls Snapshot every second, and the
\* service manager starts the daemon again.
Fairness == WF_cdmVars(CdmTick) /\ WF_cdmVars(Snapshot) /\ WF_cdmVars(CdmStart)

CdmSpec == CdmInit /\ [][CdmNext]_cdmVars /\ Fairness

-----------------------------------------------------------------------------
(* Properties *)

\* the user's last word lets a job run now
Consents == \/ word.tells \in {"free", "unsure"}
            \/ word.tells = "until" /\ cdmNow <= word.deadline

\* The gate (CanExecuteJob) admits a job only with the user's consent: never
\* after a revocation, an enabling or the deadline of the grant the user was
\* told about, whatever restarts and failed writes came in between.  Only a
\* decision that was answered with an error leaves the user unsure.
AdmittedWithConsent == [][Admit => Consents]_cdmVars

\* What the file would restore is what the user was told, up to an expiry whose
\* write failed, unless the file is torn or the last decision was not saved.
FileKeepsTheWord ==
    (word.tells # "unsure" /\ file.kind # "torn") =>
        \/ Meaning(file.says) = word
        \/ word.tells = "until" /\ cdmNow > word.deadline /\ Meaning(file.says) = Word("held")

\* Every session ends: once its deadline has passed, the mode the poller reports
\* leaves "session" without anyone asking (the one-second CDM feed), unless the
\* file that a crash tore keeps the daemon down.
SessionsEnd ==
    (state.active /\ cdmNow > state.expires) ~> (~state.active \/ cdmNow <= state.expires
                                                \/ (~up /\ file.kind = "torn"))

\* docs/IMPLEMENTATION_PLAN.md:422: "If session expires during execution ->
\* in-flight job completes, no new jobs started".  The code asks the gate before
\* the acknowledgement and executes after it, when the session may be over.
NoJobStartsAfterExpiry == [][Execute => (word.tells = "until" => cdmNow <= word.deadline)]_cdmVars

\* The manager implements the abstract CDM mode: decisions and expiry follow its
\* moves, a decision that could not be saved lasts until the restart.
ModeOf(s) == IF ~s.enabled THEN "off" ELSE IF s.active THEN "session" ELSE "hold"
Mode == INSTANCE CdmMode WITH
            mode <- ModeOf(state),
            saved <- IF file.kind = "torn" THEN "lost" ELSE ModeOf(file.says)
ImplementsCdmMode == Mode!Spec

\* The manager keeps its word to the user: the file restores what they were told,
\* and the gate of the executor admits a job only with their consent.
KeepsTheWord == []FileKeepsTheWord /\ AdmittedWithConsent

=============================================================================
