------------------------------ MODULE JobState ------------------------------
(***************************************************************************)
(* The job state machine of server/jobs and shared/models: the statuses,   *)
(* the transition table and the predicates the request handlers consult.   *)
(***************************************************************************)
EXTENDS Integers

Statuses ==
    {"pending", "queued", "cdm_hold", "dispatched", "acknowledged", "running",
     "completed", "failed", "timed_out", "cancelled"}

TerminalStatuses == {"completed", "failed", "timed_out", "cancelled"}

CancellableStatuses == {"pending", "queued", "cdm_hold", "dispatched"}

validTransitions ==
    [pending      |-> {"queued", "cancelled"},
     queued       |-> {"dispatched", "cdm_hold", "cancelled"},
     cdm_hold     |-> {"dispatched", "cancelled"},
     dispatched   |-> {"acknowledged", "queued", "cancelled"},
     acknowledged |-> {"running", "queued"},
     running      |-> {"completed", "failed", "timed_out"}]

ValidateTransition(from, to) ==
    from \in DOMAIN validTransitions /\ to \in validTransitions[from]

IsTerminalStatus(s) == s \in TerminalStatuses

IsCancellable(s) == s \in CancellableStatuses

IsRetryable(s) == s \in {"failed", "timed_out"}

\* MUTANT of ShouldRetry: one retry too many.
ShouldRetryOffByOne(s, retryCount, maxRetries) ==
    IsRetryable(s) /\ retryCount <= maxRetries

ShouldRetry(s, retryCount, maxRetries) ==
    IsRetryable(s) /\ retryCount < maxRetries

=============================================================================
