------------------------------- MODULE Alerts -------------------------------
(***************************************************************************)
(* One alert rule: the handlers that change it, its evaluation at every    *)
(* tick of the scheduler (evaluateAgentOffline), and the notifications     *)
(* (server/notify).  Nothing remembers that a rule fired: it fires again   *)
(* at the next tick while a device is offline.  Statements and deliveries  *)
(* are steps; what the tick read may be stale when it is used.  A message  *)
(* is the names it lists.                                                  *)
(***************************************************************************)
EXTENDS Integers, FiniteSets

CONSTANTS
    AlertDevice,
    Subject,          \* the device followed: any of them
    Webhooks, Emails, \* the channels of the rule
    HasSMTP,          \* SMTP is configured
    MaxNamed,         \* names in a message, 10 in the code
    threshold,
    AlertMaxTime, AlertMaxFaults

ASSUME AlertsAssumption ==
    /\ Subject \in AlertDevice /\ Webhooks \cap Emails = {} /\ HasSMTP \in BOOLEAN
    /\ {MaxNamed, threshold, AlertMaxTime, AlertMaxFaults} \subseteq Nat

VARIABLES
    rule,      \* row of alert_rules: exists, enabled, has a scope
    alertMembers,   \* the devices the scope resolves to
    lastSeen,  \* devices.last_seen_at, Never before the first check-in
    revoked, alertNow,
    alertPc,        \* of the scheduler's tick
    at, scoped,  \* the tick's time, and whether the rule it listed has a scope
    ids,       \* the devices its scope resolved to
    named,     \* the devices its message names
    alertTodo,      \* channels to notify
    alertFaults,
    told       \* history: the channels on which Subject was named since it was last seen

Channel == Webhooks \cup Emails
Never == -1

alertVars == <<rule, alertMembers, lastSeen, revoked, alertNow, alertPc, at, scoped, ids, named,
               alertTodo, alertFaults, told>>
fleet == <<alertMembers, lastSeen, revoked, alertNow>>
tick == <<at, scoped, ids, named, alertTodo>>

\* The rule, the fleet and the tick have their types; a tick holds what it has still to use.
AlertTypeOK ==
    /\ rule \in [exists : BOOLEAN, enabled : BOOLEAN, scoped : BOOLEAN]
    /\ alertMembers \subseteq AlertDevice /\ revoked \subseteq AlertDevice
    /\ lastSeen \in [AlertDevice -> Never..AlertMaxTime] /\ alertNow \in 0..AlertMaxTime /\ at \in 0..AlertMaxTime
    /\ alertPc \in {"waiting", "resolve", "query", "send", "hung"} /\ scoped \in BOOLEAN
    /\ alertPc # "query" => ids = {}
    /\ alertPc \notin {"send", "hung"} => named = {} /\ alertTodo = {}
    /\ ids \subseteq AlertDevice /\ named \subseteq AlertDevice /\ alertTodo \subseteq Channel
    /\ alertFaults \in 0..AlertMaxFaults /\ told \subseteq Channel

AlertInit ==
    /\ rule \in [exists : {TRUE}, enabled : BOOLEAN, scoped : BOOLEAN]
    /\ alertMembers = {} /\ lastSeen = [d \in AlertDevice |-> Never] /\ revoked = {} /\ alertNow = 0
    /\ alertPc = "waiting" /\ at = 0 /\ scoped = FALSE
    /\ ids = {} /\ named = {} /\ alertTodo = {}
    /\ alertFaults = 0 /\ told = {}

AlertFault == alertFaults < AlertMaxFaults /\ alertFaults' = alertFaults + 1

AlertEndTick ==
    /\ alertPc' = "waiting" /\ at' = 0 /\ scoped' = FALSE
    /\ ids' = {} /\ named' = {} /\ alertTodo' = {}

-----------------------------------------------------------------------------
(* The tick *)

\* a rule whose condition has another type, or is no JSON, is as good as one that is not enabled
ListEnabledAlertRules ==
    /\ alertPc = "waiting" /\ rule.exists /\ rule.enabled
    /\ at' = alertNow /\ scoped' = rule.scoped /\ alertPc' = "resolve"
    /\ UNCHANGED <<rule, fleet, ids, named, alertTodo, alertFaults, told>>

Resolve ==
    /\ alertPc = "resolve"
    /\ \/ /\ ids' = IF scoped THEN alertMembers ELSE {}
          /\ alertPc' = "query" /\ UNCHANGED <<at, scoped, named, alertTodo, alertFaults>>
       \/ AlertFault /\ AlertEndTick
    /\ UNCHANGED <<rule, fleet, told>>

Late(d, t) == lastSeen[d] # Never /\ lastSeen[d] + threshold < t

\* without ids the query is about every device of the tenant; a NULL matches nothing
Matches(d) == d \notin revoked /\ Late(d, at) /\ (ids # {} => d \in ids)

truncateListShort(found) ==
    {n \in SUBSET found : Cardinality(n) = IF Cardinality(found) >= MaxNamed THEN MaxNamed - 1 ELSE Cardinality(found)}

\* truncateList: the first rows of a query without an order
truncateList(found) ==
    {n \in SUBSET found : Cardinality(n) = IF Cardinality(found) > MaxNamed THEN MaxNamed ELSE Cardinality(found)}

evaluateAgentOffline ==
    /\ alertPc = "query"
    /\ LET found == {d \in AlertDevice : Matches(d)} IN
       IF found = {}
       THEN AlertEndTick /\ UNCHANGED alertFaults
       ELSE \/ named' \in truncateList(found) /\ alertTodo' = Channel /\ alertPc' = "send"
               /\ at' = 0 /\ scoped' = FALSE /\ ids' = {} /\ UNCHANGED alertFaults
            \/ AlertFault /\ AlertEndTick
    /\ UNCHANGED <<rule, fleet, told>>

Sent(c) == IF alertTodo = {c} THEN AlertEndTick
           ELSE alertTodo' = alertTodo \ {c} /\ UNCHANGED <<alertPc, at, scoped, ids, named>>

\* Send, the webhooks first: a delivery that fails is logged and not repeated; one to a mail
\* server that does not answer never returns
Send(c) ==
    /\ alertPc = "send" /\ c \in alertTodo /\ (c \in Emails => alertTodo \subseteq Emails)
    /\ \/ /\ told' = IF Subject \in named /\ (c \in Emails => HasSMTP) THEN told \cup {c} ELSE told
          /\ Sent(c) /\ UNCHANGED alertFaults
       \/ AlertFault /\ Sent(c) /\ UNCHANGED told
       \/ /\ c \in Emails /\ HasSMTP /\ AlertFault
          /\ alertPc' = "hung" /\ UNCHANGED <<tick, told>>
    /\ UNCHANGED <<rule, fleet>>

\* Somebody stops a scheduler that hangs, and the next one ticks
Restart ==
    /\ alertPc = "hung" /\ AlertEndTick
    /\ UNCHANGED <<rule, fleet, alertFaults, told>>

-----------------------------------------------------------------------------
(* The API, the agents and time *)

AlertUpdate(b) ==
    /\ rule.exists /\ rule' = [rule EXCEPT !.scoped = b]
    /\ UNCHANGED <<fleet, alertPc, tick, alertFaults, told>>

AlertDelete ==
    /\ rule.exists /\ rule' = [rule EXCEPT !.exists = FALSE]
    /\ UNCHANGED <<fleet, alertPc, tick, alertFaults, told>>

AlertSetEnabled(b) ==
    /\ rule.exists /\ rule' = [rule EXCEPT !.enabled = b]
    /\ UNCHANGED <<fleet, alertPc, tick, alertFaults, told>>

AlertChangeMembers(d) ==
    /\ alertMembers' = IF d \in alertMembers THEN alertMembers \ {d} ELSE alertMembers \cup {d}
    /\ UNCHANGED <<rule, lastSeen, revoked, alertNow, alertPc, tick, alertFaults, told>>

CheckIn(d) ==
    /\ d \notin revoked
    /\ lastSeen' = [lastSeen EXCEPT ![d] = alertNow]
    /\ told' = IF d = Subject THEN {} ELSE told
    /\ UNCHANGED <<rule, alertMembers, revoked, alertNow, alertPc, tick, alertFaults>>

Revoke(d) ==
    /\ revoked' = revoked \cup {d}
    /\ UNCHANGED <<rule, alertMembers, lastSeen, alertNow, alertPc, tick, alertFaults, told>>

AlertTick ==
    /\ alertNow < AlertMaxTime /\ alertNow' = alertNow + 1
    /\ UNCHANGED <<rule, alertMembers, lastSeen, revoked, alertPc, tick, alertFaults, told>>

Ticks == ListEnabledAlertRules \/ Resolve \/ evaluateAgentOffline \/ \E c \in Channel : Send(c)

AlertNext ==
    \/ Ticks \/ Restart \/ AlertDelete \/ AlertTick
    \/ \E b \in BOOLEAN : AlertUpdate(b) \/ AlertSetEnabled(b)
    \/ \E d \in AlertDevice : AlertChangeMembers(d) \/ CheckIn(d) \/ Revoke(d)

\* the scheduler ticks for ever, unless it hangs
AlertSpec == AlertInit /\ [][AlertNext]_alertVars /\ WF_alertVars(Ticks)

-----------------------------------------------------------------------------
(* Properties *)

\* the rule is about d, and d is offline
Watched(d) ==
    /\ rule.exists /\ rule.enabled /\ ~rule.scoped
    /\ d \notin revoked /\ Late(d, alertNow)

Reached == IF HasSMTP THEN Channel ELSE Webhooks
TooMany == Cardinality({d \in AlertDevice : Watched(d)}) > MaxNamed

\* A device that has checked in once and goes offline is named on every channel that can be
\* reached, although no delivery is repeated and ticks fail: the rule fires again at the next
\* tick (evaluateAlertRules), until the device is back or the rule changes.  Two exceptions: of
\* more than ten offline devices ten are named, any ten (truncateList), and a mail server that
\* does not answer stops the ticks (sendEmail).
OfflineIsReported ==
    Watched(Subject) ~> (Reached \subseteq told \/ ~Watched(Subject) \/ TooMany \/ alertPc = "hung")

\* scheduler.go:435: "If scope has targets, resolve to device IDs; otherwise check
\* all devices for tenant": a rule with a scope reports devices of its scope.
ScopedStaysInScope == alertPc = "query" /\ scoped => {d \in AlertDevice : Matches(d)} \subseteq ids
=============================================================================
