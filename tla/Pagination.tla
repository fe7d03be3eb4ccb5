----------------------------- MODULE Pagination -----------------------------
(***************************************************************************)
(* A reader walks the pages of a list endpoint (files, audit log, users,   *)
(* agent versions) while rows are inserted and deleted.  Rows come newest  *)
(* first, and the cursor is the id of the last row of a page: the next     *)
(* page holds the rows with a smaller id.  Ids are random.                 *)
(***************************************************************************)
EXTENDS Integers, Sequences, FiniteSets, Functions

CONSTANTS
    MaxRows,       \* rows ever inserted
    Ids,           \* what newID may return
    Requested,     \* values of the limit parameter, 0 for none or a bad one
    defaultLimit, maxLimit

ASSUME PaginationAssumption ==
    /\ {MaxRows, defaultLimit, maxLimit} \subseteq Nat \ {0}
    /\ Ids \subseteq Nat \ {0} /\ Requested \subseteq Int

VARIABLES
    born,       \* ids in the order of created_at
    rows,       \* the rows that are still there
    cursor,     \* the reader's next cursor, 0 for none
    state,      \* of the walk
    delivered,  \* history: how often each row was on a page; 2 stands for more than once
    stayed,     \* history: rows that were there during the whole walk
    cursors     \* history: the cursors used

pageVars == <<born, rows, cursor, state, delivered, stayed, cursors>>
walk == <<cursor, state, delivered, cursors>>

\* The table, the walk and its history have their types: a cursor is a row that
\* was on a page.
PageTypeOK ==
    /\ born \in Seq(Ids) /\ rows \subseteq Range(born) /\ Len(born) <= MaxRows
    /\ stayed \subseteq rows
    /\ delivered \in [Ids -> 0..2]
    /\ cursors \subseteq {r \in Ids : delivered[r] > 0}
    /\ cursor \in cursors \cup {0}
    /\ state \in {"start", "more", "done"}

\* any table from which nothing has been deleted yet
PageInit ==
    /\ born \in {s \in UNION {[1..n -> Ids] : n \in 0..MaxRows} : IsInjective(s)}
    /\ rows = Range(born) /\ stayed = rows
    /\ cursor = 0 /\ state = "start" /\ delivered = [r \in Ids |-> 0] /\ cursors = {}

\* ParsePagination
PageLimit(n) == IF n <= 0 THEN defaultLimit ELSE IF n > maxLimit THEN maxLimit ELSE n

\* r.created_at is less than s.created_at
Before(r, s) == \E i, j \in 1..Len(born) : i < j /\ born[i] = r /\ born[j] = s

\* ORDER BY created_at DESC LIMIT n
Newest(S, n) == {r \in S : Cardinality({s \in S : Before(r, s)}) < n}

\* WHERE id < cursor
Matching == {r \in rows : cursor = 0 \/ r < cursor}

\* one row more than the page, to know whether there is more
FetchedExactly(limit) == Newest(Matching, limit)
Fetched(limit) == Newest(Matching, limit + 1)
Page(limit) == Newest(Fetched(limit), limit)

\* the last row of the page
nextCursorByOffset(page) == Cardinality(page)
nextCursor(page) == CHOOSE r \in page : \A s \in page : s = r \/ Before(r, s)

List(n) ==
    LET limit == PageLimit(n)
        page == Page(limit) IN
    /\ state # "done"
    /\ delivered' = [r \in Ids |-> IF r \in page /\ delivered[r] < 2
                                   THEN delivered[r] + 1 ELSE delivered[r]]
    /\ IF Cardinality(Fetched(limit)) > limit
       THEN cursor' = nextCursor(page) /\ state' = "more" /\ cursors' = cursors \cup {cursor'}
       ELSE UNCHANGED <<cursor, cursors>> /\ state' = "done"
    /\ UNCHANGED <<born, rows, stayed>>

\* newID is random, so the new id may be anywhere among the old ones
PageInsert(id) ==
    /\ Len(born) < MaxRows /\ id \notin Range(born)
    /\ born' = Append(born, id) /\ rows' = rows \cup {id}
    /\ UNCHANGED <<stayed, walk>>

PageDelete(id) ==
    /\ rows' = rows \ {id} /\ stayed' = stayed \ {id}
    /\ UNCHANGED <<born, walk>>

PageNext ==
    \/ \E n \in Requested : List(n)
    \/ \E id \in Ids : PageInsert(id)
    \/ \E id \in rows : PageDelete(id)

\* the reader keeps asking for the next page
PageSpec == PageInit /\ [][PageNext]_pageVars /\ WF_pageVars(\E n \in Requested : List(n))

-----------------------------------------------------------------------------
(* Properties *)

\* A walk misses a row that was there all along only where some cursor's row is
\* younger and has a smaller id, and delivers one twice only where some cursor's
\* row is older and has a larger id (ListFiles, AuditLogHandler.List, ListUsers,
\* ListAgentVersions): were ids in the order of creation, the walk would be exact
\* whatever is inserted and deleted meanwhile.
ExactUpToInversions ==
    /\ state = "done" =>
         \A r \in stayed : delivered[r] = 0 => \E c \in cursors : Before(r, c) /\ r > c
    /\ \A r \in Ids :
         delivered[r] > 1 => \E c \in cursors : Before(c, r) /\ r < c

\* A reader that follows next_cursor reaches the last page, however many rows are
\* inserted and deleted while it reads.
WalkEnds == <>(state = "done")

\* docs/REST_API_SPEC.md:37: "`cursor` is opaque and stable - safe to bookmark and
\* resume": a walk delivers every row that stays exactly once.
EachRowOnce == state = "done" => \A r \in stayed : delivered[r] = 1
=============================================================================
