----------------------------- MODULE LogShipper -----------------------------
(***************************************************************************)
(* The agent's log shipper (agent/logshipper/shipper.go, started by        *)
(* runDaemon) and the server's handler for what it ships                   *)
(* (server/api/logs.go).  An entry is its number in the order of logging.  *)
(* The shipper waits for one answer at a time; a connection may break with *)
(* the request still at work on the server, or stall: the client has no    *)
(* timeout.                                                                *)
(***************************************************************************)
EXTENDS Integers, Sequences, Functions

CONSTANTS
    MaxEntries,     \* entries logged
    MaxBuffer,      \* defaultMaxBuffer
    MaxBatch,       \* defaultMaxBatch
    MaxIngest,      \* entries Ingest takes in a request
    LogMaxFaults

ASSUME LogShipperAssumption ==
    /\ {MaxEntries, LogMaxFaults} \subseteq Nat
    /\ {MaxBuffer, MaxBatch, MaxIngest} \subseteq Nat \ {0}

VARIABLES
    agent,          \* "up", "stopping" once the context is cancelled, "down"
    logged,         \* the entries logged so far
    buffer,         \* s.buffer
    logPc,             \* flush: "idle", "wait" for the answer, its outcome; "returned" from Run
    batch,          \* the entries flush has taken
    final,          \* flush runs under context.Background()
    requests,       \* at work on the server
    stored,         \* device_logs, in commit order
    dropped,        \* entries given up: by a full buffer, by the cut, by a 4xx
    logFaults,
    broken,         \* a connection broke with the request on the server
    stalled         \* the server never answers

logVars == <<agent, logged, buffer, logPc, batch, final, requests, stored, dropped, logFaults, broken,
             stalled>>

Entries == 1..MaxEntries
Request == [entries : Seq(Entries), inserted : Nat, waited : BOOLEAN,
            conn : (0..LogMaxFaults) \X {"up", "stopping"}]     \* one connection per failure

LogFault == logFaults < LogMaxFaults /\ logFaults' = logFaults + 1

\* Queues stay within their bounds and a request never exceeds what Ingest takes.
LogTypeOK ==
    /\ agent \in {"up", "stopping", "down"} /\ logged \in 0..MaxEntries
    /\ buffer \in Seq(Entries) /\ Len(buffer) <= MaxBuffer
    /\ logPc \in {"idle", "wait", "stored", "failed", "refused", "returned"}
    /\ batch \in Seq(Entries) /\ Len(batch) <= MaxBatch
    /\ final \in BOOLEAN
    /\ \A r \in requests : r \in Request /\ r.inserted <= Len(r.entries)
    /\ stored \in Seq(Entries) /\ dropped \subseteq Entries
    /\ logFaults \in 0..LogMaxFaults /\ broken \in BOOLEAN /\ stalled \in BOOLEAN

LogInit ==
    /\ agent = "up" /\ logged = 0 /\ buffer = <<>> /\ logPc = "idle" /\ batch = <<>>
    /\ final = FALSE /\ requests = {} /\ stored = <<>> /\ dropped = {}
    /\ logFaults = 0 /\ broken = FALSE /\ stalled = FALSE

-----------------------------------------------------------------------------
(* The shipper *)

Add(entry) ==
    IF Len(buffer) >= MaxBuffer
    THEN dropped' = dropped \cup {entry} /\ UNCHANGED buffer
    ELSE buffer' = Append(buffer, entry) /\ UNCHANGED dropped

\* A record of at least the minimum level
Handle ==
    /\ agent # "down" /\ logged < MaxEntries
    /\ logged' = logged + 1
    /\ Add(logged + 1)
    /\ UNCHANGED <<agent, logPc, batch, final, requests, stored, logFaults, broken, stalled>>

\* The ticker, or the cancelled context, starts flush, which takes a batch and posts it
Flush ==
    /\ logPc = "idle" /\ agent # "down" /\ buffer # <<>>
    /\ LET n == IF Len(buffer) > MaxBatch THEN MaxBatch ELSE Len(buffer) IN
         /\ batch' = SubSeq(buffer, 1, n)
         /\ buffer' = SubSeq(buffer, n + 1, Len(buffer))
    /\ logPc' = "wait" /\ final' = (agent = "stopping")
    /\ requests' = requests \cup {[entries |-> batch', inserted |-> 0, waited |-> TRUE,
                                conn |-> <<logFaults, agent>>]}
    /\ UNCHANGED <<agent, logged, stored, dropped, logFaults, broken, stalled>>

ReturnEmpty ==
    /\ logPc = "idle" /\ agent = "stopping" /\ buffer = <<>>
    /\ logPc' = "returned"
    /\ UNCHANGED <<agent, logged, buffer, batch, final, requests, stored, dropped, logFaults, broken,
                   stalled>>

Resume == logPc' = (IF final THEN "returned" ELSE "idle") /\ batch' = <<>> /\ final' = FALSE

RebufferLast ==
    LET all == buffer \o batch
        kept == IF Len(all) > MaxBuffer THEN SubSeq(all, 1, MaxBuffer) ELSE all IN
      /\ buffer' = kept
      /\ dropped' = dropped \cup (Range(all) \ Range(kept))

\* The batch goes back in front, and what exceeds the buffer is cut off
Rebuffer ==
    LET all == batch \o buffer
        kept == IF Len(all) > MaxBuffer THEN SubSeq(all, 1, MaxBuffer) ELSE all IN
      /\ buffer' = kept
      /\ dropped' = dropped \cup (Range(all) \ Range(kept))

QuitOnError ==
    /\ logPc = "failed" /\ Rebuffer
    /\ logPc' = "returned" /\ batch' = <<>> /\ final' = FALSE
    /\ UNCHANGED <<agent, logged, requests, stored, logFaults, broken, stalled>>

\* An error of the client, or a 5xx
FlushFailed ==
    /\ logPc = "failed" /\ Rebuffer /\ Resume
    /\ UNCHANGED <<agent, logged, requests, stored, logFaults, broken, stalled>>

\* A 2xx, or a 4xx: the batch is forgotten
FlushAnswered ==
    /\ logPc \in {"stored", "refused"}
    /\ dropped' = IF logPc = "refused" THEN dropped \cup Range(batch) ELSE dropped
    /\ Resume
    /\ UNCHANGED <<agent, logged, buffer, requests, stored, logFaults, broken, stalled>>

-----------------------------------------------------------------------------
(* Ingest: one transaction; its rows are not seen before the commit *)

Answer(r, outcome) ==
    /\ requests' = requests \ {r}
    /\ logPc' = IF r.waited THEN outcome ELSE logPc

Insert(r) ==
    /\ r.inserted < Len(r.entries) /\ Len(r.entries) <= MaxIngest
    /\ requests' = (requests \ {r}) \cup {[r EXCEPT !.inserted = @ + 1]}
    /\ UNCHANGED <<agent, logged, buffer, logPc, batch, final, stored, dropped, logFaults, broken, stalled>>

Commit(r) ==
    /\ r.inserted = Len(r.entries)
    /\ stored' = stored \o r.entries
    /\ Answer(r, "stored")
    /\ UNCHANGED <<agent, logged, buffer, batch, final, dropped, logFaults, broken, stalled>>

\* A statement fails: 500 and the rollback
Rollback(r) ==
    /\ LogFault /\ Answer(r, "failed")
    /\ UNCHANGED <<agent, logged, buffer, batch, final, stored, dropped, broken, stalled>>

\* Too many entries, or one of the middlewares before Ingest: 4xx
Refuse(r) ==
    /\ r.inserted = 0
    /\ IF Len(r.entries) > MaxIngest THEN UNCHANGED logFaults ELSE LogFault
    /\ Answer(r, "refused")
    /\ UNCHANGED <<agent, logged, buffer, batch, final, stored, dropped, broken, stalled>>

-----------------------------------------------------------------------------
(* Connections, and the end of the process *)

Abandon(outcome) ==
    /\ logPc = "wait" /\ logPc' = outcome
    /\ requests' = {[r EXCEPT !.waited = FALSE] : r \in requests}
    /\ broken' = TRUE

\* The connection breaks while the server works on the request
Break ==
    /\ LogFault /\ ~stalled /\ Abandon("failed")
    /\ UNCHANGED <<agent, logged, buffer, batch, final, stored, dropped, stalled>>

\* The request never reaches a server that answers
Stall ==
    /\ LogFault /\ logPc = "wait" /\ ~stalled /\ stalled' = TRUE
    /\ requests' = {r \in requests : ~r.waited}
    /\ UNCHANGED <<agent, logged, buffer, logPc, batch, final, stored, dropped, broken>>

\* A signal cancels the context
LogStop ==
    /\ agent = "up" /\ agent' = "stopping"
    /\ UNCHANGED <<logged, buffer, logPc, batch, final, requests, stored, dropped, logFaults, broken,
                   stalled>>

\* A flush under the cancelled context gives up its request
Cancelled ==
    /\ agent = "stopping" /\ ~final /\ Abandon("failed") /\ stalled' = FALSE
    /\ UNCHANGED <<agent, logged, buffer, batch, final, stored, dropped, logFaults>>

\* runDaemon returns with the poller; it does not wait for the shipper
Exit ==
    /\ agent = "stopping" /\ agent' = "down"
    /\ requests' = {[r EXCEPT !.waited = FALSE] : r \in requests}
    /\ broken' = (broken \/ requests # {})
    /\ UNCHANGED <<logged, buffer, logPc, batch, final, stored, dropped, logFaults, stalled>>

Done == agent = "down" /\ requests = {} /\ UNCHANGED logVars

Ingest == \E r \in requests : Insert(r) \/ Commit(r)
Shipper == agent # "down" /\ (Flush \/ ReturnEmpty \/ FlushFailed \/ FlushAnswered)

LogNext ==
    \/ Handle \/ Shipper \/ Ingest
    \/ \E r \in requests : Rollback(r) \/ Refuse(r)
    \/ Break \/ Stall \/ LogStop \/ Cancelled \/ Exit \/ Done

LogSpec == LogInit /\ [][LogNext]_logVars

\* The ticker and the scheduler run the shipper's goroutine, the server works on what it has,
\* and a cancelled request returns
FairSpec == LogSpec /\ WF_logVars(Shipper) /\ WF_logVars(Ingest) /\ WF_logVars(Cancelled)

-----------------------------------------------------------------------------
Increasing(s) == \A i, k \in DOMAIN s : i < k => s[i] < s[k]
Held == Range(buffer) \cup Range(batch)

\* Add and flush: while the agent runs, an entry is buffered, on its way, stored, or was given
\* up by the full buffer, the cut or a 4xx; a failed flush loses nothing else.
NothingVanishes ==
    agent # "down" => 1..logged \subseteq Held \cup Range(stored) \cup dropped

\* flush and Ingest: as long as no connection broke under a request, the server stores every
\* entry at most once and in the order of logging.
OnceInOrderUnlessBroken == ~broken => Increasing(stored)

\* flush under a running Add: what waits on the agent is in the order of logging.
BufferInOrder == Increasing(batch \o buffer)

\* Run: an entry in the buffer reaches the server or is given up, unless the server stalls the
\* shipper or the agent is stopped.
EntriesLeave ==
    \A e \in Entries :
      (e \in Range(buffer)) ~> (e \in Range(stored) \cup dropped \/ stalled \/ agent # "up")

\* What the comment at shipper.go:114 says of a failed flush: its re-buffering loses no entry.
FailureLosesNothing == [][FlushFailed => dropped' = dropped]_logVars

\* What the comment of Run (shipper.go:61) says: shutdown makes a final attempt to flush.
FinalAttempt == agent = "down" /\ buffer # <<>> => logPc = "returned" \/ final

\* The shipper's promise about entries: none vanishes without a reason, they reach
\* the server once and in order unless a connection breaks, and the buffer keeps
\* their order when a failed batch returns to it.
ShippedInOrder == NothingVanishes /\ OnceInOrderUnlessBroken /\ BufferInOrder

=============================================================================
