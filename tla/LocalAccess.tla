---------------------------- MODULE LocalAccess ----------------------------
(***************************************************************************)
(* Local access to the agent: the in-memory sessions of agent/localauth,   *)
(* and the requests of the command line (over IPC) and of the web UI that  *)
(* need one.  A request is authenticated (Validate), then acts on CDM,     *)
(* then writes its entry to the local audit log: three steps, each under   *)
(* its own mutex, so requests interleave between them.  CDM is reduced to  *)
(* its mode; module Cdm has the manager itself.                            *)
(***************************************************************************)
EXTENDS Naturals, FiniteSets

CONSTANTS
    Token,           \* session tokens, each issued once
    Client,          \* concurrent requests
    Op,              \* what they ask for, among Ops
    NoToken,
    cliIdleTimeout, webIdleTimeout, webMaxLifetime,
    LocalMaxTime

ASSUME LocalAccessAssumption ==
    /\ NoToken \notin Token
    /\ Op \subseteq {"enable", "disable", "grant", "revoke", "status", "logout"}
    /\ {cliIdleTimeout, webIdleTimeout, webMaxLifetime, LocalMaxTime} \subseteq Nat

VARIABLES
    localNow,
    sessions,   \* the live entries of SessionManager.sessions
    session,    \* what each entry records
    gone,       \* history: tokens whose entry was removed
    mode,       \* CDM mode
    localPc, tok, op,
    old         \* history: the mode a request found when it changed CDM

localVars == <<localNow, sessions, session, gone, mode, localPc, tok, op, old>>
table == <<sessions, session, gone>>
request == <<localPc, tok, op, old>>

Kinds == {"cli", "web"}
Ops == {"enable", "disable", "grant", "revoke", "status", "logout"}
Modes == {"off", "hold", "session"}

\* Tables, requests and modes have their types; a command line session expires
\* one idle timeout after its last use, a web session at a fixed time.
LocalTypeOK ==
    /\ localNow \in 0..LocalMaxTime
    /\ sessions \subseteq Token /\ gone \subseteq Token
    /\ session \in [Token -> [type : Kinds, created : Nat, used : Nat, expires : Nat]]
    /\ \A t \in sessions : LET s == session[t] IN
          s.expires = IF s.type = "cli" THEN s.used + cliIdleTimeout ELSE s.created + webMaxLifetime
    /\ mode \in Modes
    /\ localPc \in [Client -> {"idle", "authenticated", "applied"}]
    /\ tok \in [Client -> Token \cup {NoToken}]
    /\ op \in [Client -> Ops] /\ old \in [Client -> Modes]

NoSession == [type |-> "cli", created |-> 0, used |-> 0, expires |-> 0]

NewSession(type) ==
    [type |-> type, created |-> localNow, used |-> localNow,
     expires |-> localNow + (IF type = "cli" THEN cliIdleTimeout ELSE webMaxLifetime)]

LocalInit ==
    /\ localNow = 0
    /\ sessions = {} /\ gone = {}
    /\ session = [t \in Token |-> NoSession]
    /\ mode = "off"
    /\ localPc = [c \in Client |-> "idle"] /\ tok = [c \in Client |-> NoToken]
    /\ op = [c \in Client |-> "status"] /\ old = [c \in Client |-> "off"]

-----------------------------------------------------------------------------
(* The session manager *)

idleTimeout(s) == IF s.type = "cli" THEN cliIdleTimeout ELSE webIdleTimeout

\* Validate and Cleanup test the same two deadlines
Dead(s) == localNow > s.expires \/ localNow - s.used > idleTimeout(s)

UsedForAll(s) == [s EXCEPT !.used = localNow, !.expires = localNow + idleTimeout(s)]

\* the session a successful Validate leaves
Used(s) == [s EXCEPT !.used = localNow,
                     !.expires = IF s.type = "cli" THEN localNow + cliIdleTimeout ELSE @]

Remove(T) ==
    /\ sessions' = sessions \ T /\ gone' = gone \cup (sessions \cap T)
    /\ session' = [t \in Token |-> IF t \in T THEN NoSession ELSE session[t]]

\* auth.login and /api/login, once the system has accepted the password
Login(t, type) ==
    /\ t \notin sessions \cup gone
    /\ sessions' = sessions \cup {t}
    /\ session' = [session EXCEPT ![t] = NewSession(type)]
    /\ UNCHANGED <<localNow, gone, mode, request>>

\* every minute
Cleanup ==
    /\ Remove({t \in sessions : Dead(session[t])})
    /\ UNCHANGED <<localNow, mode, request>>

\* RequireAuthMiddleware and requireAuth
Validated(c, t, o) ==
    /\ localPc[c] = "idle" /\ t \in sessions /\ ~Dead(session[t])
    /\ session' = [session EXCEPT ![t] = Used(@)]
    /\ localPc' = [localPc EXCEPT ![c] = "authenticated"]
    /\ tok' = [tok EXCEPT ![c] = t] /\ op' = [op EXCEPT ![c] = o]
    /\ UNCHANGED <<localNow, sessions, gone, mode, old>>

\* an expired session is deleted by the request that finds it; the request,
\* like one with an unknown token, is refused
Refused(t) ==
    /\ t \in sessions /\ Dead(session[t])
    /\ Remove({t})
    /\ UNCHANGED <<localNow, mode, request>>

-----------------------------------------------------------------------------
(* The handlers behind the authentication *)

Answer(c) ==
    /\ localPc' = [localPc EXCEPT ![c] = "idle"]
    /\ tok' = [tok EXCEPT ![c] = NoToken] /\ op' = [op EXCEPT ![c] = "status"]
    /\ old' = [old EXCEPT ![c] = "off"]

Logout(c) ==
    /\ localPc[c] = "authenticated" /\ op[c] = "logout"
    /\ Remove({tok[c]})
    /\ Answer(c)
    /\ UNCHANGED <<localNow, mode>>

\* auth.logout of the command line is not behind the authentication
CliLogout(t) ==
    /\ t \in sessions /\ session[t].type = "cli"
    /\ Remove({t})
    /\ UNCHANGED <<localNow, mode, request>>

\* the mode after a successful operation
NewMode(o) == CASE o = "enable"  -> IF mode = "off" THEN "hold" ELSE mode
                [] o = "disable" -> "off"
                [] o = "grant"   -> "session"
                [] o = "revoke"  -> "hold"

Allowed(o) == \/ o \in {"enable", "disable"}
              \/ o = "grant" /\ mode # "off"
              \/ o = "revoke" /\ mode = "session"

Apply(c) ==
    /\ localPc[c] = "authenticated" /\ Allowed(op[c])
    /\ mode' = NewMode(op[c])
    /\ old' = [old EXCEPT ![c] = mode]
    /\ localPc' = [localPc EXCEPT ![c] = "applied"]
    /\ UNCHANGED <<localNow, table, tok, op>>

\* status, log and audit requests change nothing; GrantSession without CDM and
\* RevokeSession without a session are answered with a conflict
NoChange(c) ==
    /\ localPc[c] = "authenticated" /\ op[c] # "logout" /\ ~Allowed(op[c])
    /\ Answer(c)
    /\ UNCHANGED <<localNow, table, mode>>

\* LogCDMToggle with the states the handler spells out, LogCDMGrant, LogCDMRevoke
StatedOld(o) == IF o = "enable" THEN "off" ELSE "hold"
LogAudit(c) ==
    /\ localPc[c] = "applied"
    /\ Answer(c)
    /\ UNCHANGED <<localNow, table, mode>>

-----------------------------------------------------------------------------

\* the sessions are in memory only, and so are the requests
Restart ==
    /\ Remove(sessions)
    /\ localPc' = [c \in Client |-> "idle"] /\ tok' = [c \in Client |-> NoToken]
    /\ op' = [c \in Client |-> "status"] /\ old' = [c \in Client |-> "off"]
    /\ UNCHANGED <<localNow, mode>>

SessionExpires == mode = "session" /\ mode' = "hold" /\ UNCHANGED <<localNow, table, request>>

LocalTick == localNow < LocalMaxTime /\ localNow' = localNow + 1 /\ UNCHANGED <<table, mode, request>>

LocalNext ==
    \/ \E t \in Token, type \in Kinds : Login(t, type)
    \/ \E t \in Token : Refused(t) \/ CliLogout(t)
    \/ \E c \in Client, t \in Token, o \in Op : Validated(c, t, o)
    \/ \E c \in Client : Logout(c) \/ Apply(c) \/ NoChange(c) \/ LogAudit(c)
    \/ Cleanup \/ Restart \/ SessionExpires \/ LocalTick

\* The daemon's cleanup goroutine runs every minute.
LocalSpec == LocalInit /\ [][LocalNext]_localVars /\ WF_localVars(Cleanup)

-----------------------------------------------------------------------------
(* Properties *)

\* A request that was authenticated against its session (Validate) had used it
\* within the idle timeout, and a web session within eight hours of its login,
\* however often it was refreshed; a command line session slides for ever.
AuthenticatedInTime ==
    [][\A c \in Client, t \in sessions : Validated(c, t, op'[c]) =>
          /\ localNow - session[t].used <= idleTimeout(session[t])
          /\ session[t].type = "web" => localNow <= session[t].created + webMaxLifetime]_localVars

\* Logging out, over IPC or in the UI, and restarting the agent end a session
\* for good: no request in flight refreshes it back into the table.
EndedStaysEnded == gone \cap sessions = {}

\* Cleanup takes away only sessions that Validate would refuse: the two
\* evaluate the deadlines in separate code.
NoEarlyRemoval == [][Cleanup => \A t \in sessions \ sessions' : Dead(session[t])]_localVars

\* Sessions nobody uses or logs out of do not stay in memory.
DeadSessionsGo == \A t \in Token : (t \in sessions /\ Dead(session[t])) ~> t \notin sessions

\* docs/LOCAL_UI_CLI_SPEC.md:201 lists "old state, new state" for a CDM toggle:
\* the entry states whether CDM was enabled before.
ToggleStatesOldState ==
    [][\A c \in Client : (LogAudit(c) /\ op[c] \in {"enable", "disable"}) =>
          (StatedOld(op[c]) = "off" <=> old[c] = "off")]_localVars

\* Local sessions: one that has ended stays ended, a request acts only within the
\* time of its session, and Cleanup removes dead sessions only.
SessionsSound == []EndedStaysEnded /\ AuthenticatedInTime /\ NoEarlyRemoval

=============================================================================
