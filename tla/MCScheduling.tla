---------------------------- MODULE MCScheduling ----------------------------
(***************************************************************************)
(* What the server does by itself or in the background of requests: the    *)
(* scheduler, the alert rules, the shipped logs and the paged lists.  They *)
(* share no state, and every property is about one of them, so a behaviour *)
(* explores one of them and leaves the others as they start.               *)
(***************************************************************************)
EXTENDS Scheduler, Alerts, LogShipper, Pagination

CONSTANT Parts      \* the components to explore

ASSUME PartsAssumption == Parts \subseteq {"scheduler", "alerts", "logs", "pages"}

VARIABLE part       \* the one this behaviour explores

allVars == <<part, vars, alertVars, logVars, pageVars>>

MCInit ==
    /\ part \in Parts
    /\ Init /\ AlertInit /\ LogInit /\ PageInit
    \* one initial state of those that are left alone is enough
    /\ part # "alerts" => rule.enabled /\ ~rule.scoped
    /\ part # "pages" => born = <<>>

MCNext ==
    \/ part = "scheduler" /\ Next /\ UNCHANGED <<part, alertVars, logVars, pageVars>>
    \/ part = "alerts" /\ AlertNext /\ UNCHANGED <<part, vars, logVars, pageVars>>
    \/ part = "logs" /\ LogNext /\ UNCHANGED <<part, vars, alertVars, pageVars>>
    \/ part = "pages" /\ PageNext /\ UNCHANGED <<part, vars, alertVars, logVars>>
    \* a walk that is done and a full table: nothing is left to do
    \/ part = "pages" /\ UNCHANGED allVars

\* the fairness of the components
MCSpec ==
    /\ MCInit /\ [][MCNext]_allVars
    /\ \A s \in Proc : /\ WF_vars(part = "scheduler" /\ Start(s))
                       /\ WF_vars(part = "scheduler" /\ Run(s))
    /\ WF_alertVars(part = "alerts" /\ Ticks)
    /\ WF_logVars(part = "logs" /\ Shipper)
    /\ WF_logVars(part = "logs" /\ Ingest)
    /\ WF_logVars(part = "logs" /\ Cancelled)
    /\ WF_pageVars(part = "pages" /\ \E n \in Requested : List(n))

-----------------------------------------------------------------------------
\* The rows, buffers, requests and pages of the component that takes steps have
\* their types.
Types ==
    CASE part = "scheduler" -> TypeOK
      [] part = "alerts" -> AlertTypeOK
      [] part = "logs" -> LogTypeOK
      [] part = "pages" -> PageTypeOK

\* What was begun comes to an end: an entry leaves the agent, unless the server stalls
\* it or the agent is stopped (Run), and, in the behaviours that walk, a reader that follows
\* next_cursor reaches the last page, whatever is inserted and deleted meanwhile.
LogsAndWalksEnd == EntriesLeave /\ (part = "pages" => WalkEnds)
=============================================================================
