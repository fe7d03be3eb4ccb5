-------------------------------- MODULE Ipc ---------------------------------
(***************************************************************************)
(* The agent's local socket (agent/ipc): a server that accepts connections *)
(* and answers one request after the other on each, and clients that any   *)
(* goroutine of the command line may call.                                 *)
(*                                                                         *)
(* A connection is a pair of first-in first-out streams.  The client never *)
(* compares the id of a response with that of its request, and neither     *)
(* side has a timeout: that answers arrive where they belong, and that the *)
(* server stops, rests on the client's mutex, on the order of the streams  *)
(* and on the goroutines that close what a reader is blocked on.           *)
(***************************************************************************)
EXTENDS Naturals, Sequences

CONSTANTS Clients,  \* connections of command-line processes
          Threads,  \* goroutines of one client
          MaxCalls  \* bound: calls on one client

ASSUME IpcConstants == MaxCalls \in Nat \ {0} /\ "free" \notin Threads

VARIABLES
  cancelled, \* is the daemon's context cancelled?
  listener,  \* "none", "open" or "closed"
  serve,     \* the goroutine of Serve
  ipcConn,      \* each client's connection
  handler,   \* each connection's goroutine in the server
  mu,        \* the holder of each client's mutex, or "free"
  seq,       \* each client's counter of request ids
  call       \* each goroutine's call

ipcVars == <<cancelled, listener, serve, ipcConn, handler, mu, seq, call>>

Callers == Clients \X Threads
NoConn == [state |-> "none", srvOpen |-> FALSE, cliOpen |-> FALSE, up |-> <<>>, down |-> <<>>]
NoCall == [pc |-> "idle", id |-> 0, got |-> 0]

IpcInit ==
  /\ cancelled = FALSE /\ listener = "none" /\ serve = "listen"
  /\ ipcConn = [c \in Clients |-> NoConn]
  /\ handler = [c \in Clients |-> [pc |-> "none", id |-> 0]]
  /\ mu = [c \in Clients |-> "free"]
  /\ seq = [c \in Clients |-> 0]
  /\ call = [k \in Callers |-> NoCall]

-----------------------------------------------------------------------------
(* Server                                                                  *)

\* The signal handler cancels the context of the whole daemon.
Cancel ==
  /\ ~cancelled /\ cancelled' = TRUE
  /\ UNCHANGED <<listener, serve, ipcConn, handler, mu, seq, call>>

\* createListener removes a stale socket and listens, or fails; then Serve
\* returns the error and the daemon goes on without a socket.
Listen ==
  /\ serve = "listen"
  /\ \/ listener' = "open" /\ serve' = "accept"
     \/ serve' = "failed" /\ UNCHANGED listener
  /\ UNCHANGED <<cancelled, ipcConn, handler, mu, seq, call>>

\* The goroutine of Serve that waits for the context and closes the listener;
\* connections that wait to be accepted are reset.
CloseListener ==
  /\ cancelled /\ listener = "open" /\ listener' = "closed"
  /\ ipcConn' = [c \in Clients |->
                   IF ipcConn[c].state = "queued" THEN [ipcConn[c] EXCEPT !.state = "dead"] ELSE ipcConn[c]]
  /\ UNCHANGED <<cancelled, serve, handler, mu, seq, call>>

\* Accept succeeds until the listener is closed, also after the cancellation.
Accept(c) ==
  /\ serve = "accept" /\ listener = "open" /\ ipcConn[c].state = "queued"
  /\ ipcConn' = [ipcConn EXCEPT ![c].state = "live", ![c].srvOpen = TRUE]
  /\ handler' = [handler EXCEPT ![c].pc = "read"]
  /\ UNCHANGED <<cancelled, listener, serve, mu, seq, call>>

\* Accept fails on the closed listener: the loop ends.
StopAccepting ==
  /\ serve = "accept" /\ listener = "closed" /\ serve' = "wait"
  /\ UNCHANGED <<cancelled, listener, ipcConn, handler, mu, seq, call>>

\* wg.Wait, then close(s.done).
IpcStop ==
  /\ serve = "wait" /\ \A c \in Clients : handler[c].pc \in {"none", "ended"}
  /\ serve' = "stopped"
  /\ UNCHANGED <<cancelled, listener, ipcConn, handler, mu, seq, call>>

\* The goroutine of handleConn that closes the connection under a blocked read.
CloseConn(c) ==
  /\ cancelled /\ ipcConn[c].srvOpen
  /\ ipcConn' = [ipcConn EXCEPT ![c].srvOpen = FALSE]
  /\ UNCHANGED <<cancelled, listener, serve, handler, mu, seq, call>>

\* ReadRequest returns the next line; the scanner may hold it already when
\* the connection is closed.
ReadRequest(c) ==
  /\ handler[c].pc = "read" /\ ipcConn[c].up # <<>>
  /\ handler' = [handler EXCEPT ![c] = [pc |-> "dispatch", id |-> Head(ipcConn[c].up)]]
  /\ ipcConn' = [ipcConn EXCEPT ![c].up = Tail(@)]
  /\ UNCHANGED <<cancelled, listener, serve, mu, seq, call>>

\* End of input, a closed connection, a line over 1 MB or one that does not
\* parse: handleConn returns and its deferred calls close the connection.
HangUp(c) ==
  /\ handler[c].pc = "read"
  /\ ~ipcConn[c].srvOpen \/ ipcConn[c].up # <<>> \/ ~ipcConn[c].cliOpen
  /\ handler' = [handler EXCEPT ![c] = [pc |-> "ended", id |-> 0]]
  /\ ipcConn' = [ipcConn EXCEPT ![c].srvOpen = FALSE, ![c].up = <<>>]
  /\ UNCHANGED <<cancelled, listener, serve, mu, seq, call>>

\* Router.Dispatch answers every request under its id: the result, "method not
\* found", the handler's error, or a result that does not marshal.
Dispatch(c) ==
  /\ handler[c].pc = "dispatch"
  /\ handler' = [handler EXCEPT ![c].pc = "write"]
  /\ UNCHANGED <<cancelled, listener, serve, ipcConn, mu, seq, call>>

\* WriteMessage: the loop goes on, or the connection is gone and it ends.
WriteResponse(c) ==
  /\ handler[c].pc = "write"
  /\ IF ipcConn[c].srvOpen /\ ipcConn[c].cliOpen
     THEN /\ ipcConn' = [ipcConn EXCEPT ![c].down = Append(@, handler[c].id)]
          /\ handler' = [handler EXCEPT ![c] = [pc |-> "read", id |-> 0]]
     ELSE /\ ipcConn' = [ipcConn EXCEPT ![c].srvOpen = FALSE, ![c].up = <<>>]
          /\ handler' = [handler EXCEPT ![c] = [pc |-> "ended", id |-> 0]]
  /\ UNCHANGED <<cancelled, listener, serve, mu, seq, call>>

-----------------------------------------------------------------------------
(* Client                                                                  *)

\* NewClient: the kernel queues the connection while the listener is open.
Dial(c) ==
  /\ ipcConn[c].state = "none" /\ listener = "open"
  /\ ipcConn' = [ipcConn EXCEPT ![c].state = "queued", ![c].cliOpen = TRUE]
  /\ UNCHANGED <<cancelled, listener, serve, handler, mu, seq, call>>

\* The slip of leaving out the mutex.
LockNothing(k) ==
  LET c == k[1] IN
  /\ call[k].pc = "idle" /\ ipcConn[c].cliOpen /\ seq[c] < MaxCalls
  /\ mu' = [mu EXCEPT ![c] = k[2]]
  /\ seq' = [seq EXCEPT ![c] = @ + 1]
  /\ call' = [call EXCEPT ![k] = [pc |-> "send", id |-> seq[c] + 1, got |-> 0]]
  /\ UNCHANGED <<cancelled, listener, serve, ipcConn, handler>>

\* Call and CallWithToken: take the mutex and draw an id.
Lock(k) ==
  LET c == k[1] IN
  /\ call[k].pc = "idle" /\ ipcConn[c].cliOpen /\ mu[c] = "free" /\ seq[c] < MaxCalls
  /\ mu' = [mu EXCEPT ![c] = k[2]]
  /\ seq' = [seq EXCEPT ![c] = @ + 1]
  /\ call' = [call EXCEPT ![k] = [pc |-> "send", id |-> seq[c] + 1, got |-> 0]]
  /\ UNCHANGED <<cancelled, listener, serve, ipcConn, handler>>

PeerGone(c) == ipcConn[c].state = "dead" \/ (ipcConn[c].state = "live" /\ ~ipcConn[c].srvOpen)

\* Returning unlocks the mutex, whatever the outcome.
Return(k, id) ==
  /\ mu' = [mu EXCEPT ![k[1]] = "free"]
  /\ call' = [call EXCEPT ![k].pc = "idle", ![k].got = id]

\* WriteMessage of the request.
Send(k) ==
  LET c == k[1] IN
  /\ call[k].pc = "send"
  /\ IF ipcConn[c].cliOpen /\ ~PeerGone(c)
     THEN /\ ipcConn' = [ipcConn EXCEPT ![c].up = Append(@, call[k].id)]
          /\ call' = [call EXCEPT ![k].pc = "receive"] /\ UNCHANGED mu
     ELSE Return(k, 0) /\ UNCHANGED ipcConn
  /\ UNCHANGED <<cancelled, listener, serve, handler, seq>>

\* ReadResponse takes the next line, whosever it is.
IpcReceive(k) ==
  LET c == k[1] IN
  /\ call[k].pc = "receive" /\ ipcConn[c].down # <<>>
  /\ ipcConn' = [ipcConn EXCEPT ![c].down = Tail(@)]
  /\ Return(k, Head(ipcConn[c].down))
  /\ UNCHANGED <<cancelled, listener, serve, handler, seq>>

\* ReadResponse fails when either end is closed, or on a line that does not
\* parse, which it has consumed.
ReceiveError(k) ==
  LET c == k[1] IN
  /\ call[k].pc = "receive"
  /\ \/ ~ipcConn[c].cliOpen /\ UNCHANGED ipcConn
     \/ PeerGone(c) /\ ipcConn[c].down = <<>> /\ UNCHANGED ipcConn
     \/ ipcConn[c].down # <<>> /\ ipcConn' = [ipcConn EXCEPT ![c].down = Tail(@)]
  /\ Return(k, 0)
  /\ UNCHANGED <<cancelled, listener, serve, handler, seq>>

\* Close, or the end of the process.
Close(c) ==
  /\ ipcConn[c].cliOpen
  /\ ipcConn' = [ipcConn EXCEPT ![c].cliOpen = FALSE]
  /\ UNCHANGED <<cancelled, listener, serve, handler, mu, seq, call>>

\* the goroutines: Serve, the handler of a connection, a caller in the client
ServeStep == Listen \/ StopAccepting \/ IpcStop \/ \E c \in Clients : Accept(c)
HandlerStep(c) == ReadRequest(c) \/ HangUp(c) \/ Dispatch(c) \/ WriteResponse(c)
CallStep(k) == Send(k) \/ IpcReceive(k) \/ ReceiveError(k)

IpcNext ==
  \/ Cancel \/ ServeStep \/ CloseListener
  \/ \E c \in Clients : HandlerStep(c) \/ CloseConn(c) \/ Dial(c) \/ Close(c)
  \/ \E k \in Callers : Lock(k) \/ CallStep(k)

IpcSpec == IpcInit /\ [][IpcNext]_ipcVars

\* Goroutines that can run do run, and every method of the router returns.
\* Nothing makes a client dial, call or hang up, or the daemon stop.
IpcFairness ==
  /\ WF_ipcVars(ServeStep) /\ WF_ipcVars(CloseListener)
  /\ \A c \in Clients : WF_ipcVars(HandlerStep(c)) /\ WF_ipcVars(CloseConn(c))
  /\ \A k \in Callers : WF_ipcVars(CallStep(k))

IpcFairSpec == IpcSpec /\ IpcFairness

-----------------------------------------------------------------------------
\* At most one message is on the way on a connection; the rest have their types.
IpcTypeOK ==
  /\ cancelled \in BOOLEAN /\ listener \in {"none", "open", "closed"}
  /\ serve \in {"listen", "accept", "wait", "stopped", "failed"}
  /\ ipcConn \in [Clients -> [state : {"none", "queued", "live", "dead"}, srvOpen : BOOLEAN,
                              cliOpen : BOOLEAN, up : Seq(1..MaxCalls), down : Seq(1..MaxCalls)]]
  /\ handler \in [Clients -> [pc : {"none", "read", "dispatch", "write", "ended"},
                              id : 0..MaxCalls]]
  /\ mu \in [Clients -> {"free"} \cup Threads]
  /\ seq \in [Clients -> 0..MaxCalls]
  /\ call \in [Callers -> [pc : {"idle", "send", "receive"}, id : 0..MaxCalls, got : 0..MaxCalls]]
  /\ \A c \in Clients : Len(ipcConn[c].up) + Len(ipcConn[c].down) <= 1

\* A call that returns a response returns the one to its own request, with
\* two goroutines on one client and no comparison of ids.
AnswerIsMine == \A k \in Callers : call[k].got \in {0, call[k].id}

\* When Serve has returned no handler is at work and none will start: what
\* the router's methods use may be torn down.
StoppedIsQuiet ==
  serve = "stopped" => \A c \in Clients : handler[c].pc \in {"none", "ended"} /\ ipcConn[c].state # "queued"

\* Serve "blocks until shutdown is complete", and that comes: after the
\* cancellation the server stops, however many clients stay connected and silent.
ServeReturns == cancelled ~> serve \in {"stopped", "failed"}

\* A call returns, with a response or an error, although the client waits
\* without a timeout: the server answers or hangs up, also while it shuts down.
CallReturns == \A k \in Callers : call[k].pc # "idle" ~> call[k].pc = "idle"

\* The socket: a server that has stopped does nothing more, and a caller gets the
\* answer to its own request.
SocketSafe == StoppedIsQuiet /\ AnswerIsMine

=============================================================================
