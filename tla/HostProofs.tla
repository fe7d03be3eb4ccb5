------------------------------- MODULE HostProofs -------------------------------
(***************************************************************************)
(* Theorems about what brings the agent to a host and what it offers there *)
(* to local users, for any releases, requests, callers, faults and         *)
(* restarts: the registry of agent versions and its files, the policies    *)
(* that choose a version, the published installers and the script that     *)
(* fetches one, the script that installs it, the agent's socket and its    *)
(* local sessions.                                                         *)
(***************************************************************************)
EXTENDS Releases, UpdatePolicies, Installers, Installation, Ipc, LocalAccess, TLAPS

-----------------------------------------------------------------------------
(* The socket *)

Serving(c) == handler[c].pc \in {"dispatch", "write"}
Waits(c, t) == call[<<c, t>>].pc = "receive"
Gone(c) == ~ipcConn[c].cliOpen \/ PeerGone(c)

\* A connection carries one message at a time: in one of the streams or with
\* its handler, and only while the goroutine that holds the mutex waits for it,
\* unless one of the ends is closed.
ConnInv(c) ==
  LET n == ipcConn[c] IN
  /\ n.up # <<>> => Len(n.up) = 1 /\ n.down = <<>> /\ ~Serving(c)
  /\ n.down # <<>> => Len(n.down) = 1 /\ ~Serving(c)
  /\ n.state = "none" => ~n.cliOpen /\ n.up = <<>> /\ n.down = <<>> /\ handler[c].pc = "none"
  /\ handler[c].pc \in {"read", "dispatch", "write"} \/ n.srvOpen => n.state = "live"
  /\ n.state = "queued" => listener = "open"
  /\ \A t \in Threads : call[<<c, t>>].pc # "idle" => mu[c] = t /\ call[<<c, t>>].id # 0
  /\ Serving(c) => handler[c].id # 0
  /\ \A t \in Threads : Waits(c, t) =>
       /\ n.up # <<>> => Head(n.up) = call[<<c, t>>].id
       /\ n.down # <<>> => Head(n.down) = call[<<c, t>>].id
       /\ Serving(c) => handler[c].id = call[<<c, t>>].id
  /\ ~Gone(c) /\ (\A t \in Threads : ~Waits(c, t)) => n.up = <<>> /\ n.down = <<>> /\ ~Serving(c)

\* The listener is open while Serve accepts, and closed before it waits.
ServerInv ==
  /\ serve \in {"listen", "failed"} => listener = "none"
  /\ serve \in {"wait", "stopped"} => listener = "closed"
  /\ serve = "stopped" => \A c \in Clients : handler[c].pc \in {"none", "ended"}

IpcInv == IpcTypeOK /\ ServerInv /\ AnswerIsMine /\ \A c \in Clients : ConnInv(c)

Message == 1..MaxCalls
Conn == [state : {"none", "queued", "live", "dead"}, srvOpen : BOOLEAN, cliOpen : BOOLEAN,
         up : Seq(Message), down : Seq(Message)]
Hand == [pc : {"none", "read", "dispatch", "write", "ended"}, id : 0..MaxCalls]
CallRecord == [pc : {"idle", "send", "receive"}, id : 0..MaxCalls, got : 0..MaxCalls]

IpcTypes ==
  /\ cancelled \in BOOLEAN /\ listener \in {"none", "open", "closed"}
  /\ serve \in {"listen", "accept", "wait", "stopped", "failed"}
  /\ ipcConn \in [Clients -> Conn] /\ handler \in [Clients -> Hand]
  /\ mu \in [Clients -> {"free"} \cup Threads] /\ seq \in [Clients -> 0..MaxCalls]
  /\ call \in [Callers -> CallRecord]

\* Streams of one message.
LEMMA OneMessage ==
  /\ \A s \in Seq(Message) : Len(s) = 1 => Head(s) \in Message /\ Tail(s) = <<>>
  /\ \A s \in Seq(Message) : s # <<>> => Head(s) \in Message /\ Tail(s) \in Seq(Message)
  /\ \A s \in Seq(Message), m \in Message : Append(s, m) \in Seq(Message)
  /\ \A m \in Message : /\ Append(<<>>, m) # <<>> /\ Len(Append(<<>>, m)) = 1
                        /\ Head(Append(<<>>, m)) = m
  /\ <<>> \in Seq(Message)
  /\ \A s, r \in Seq(Message) :
       (s # <<>> => Len(s) = 1 /\ r = <<>>) /\ (r # <<>> => Len(r) = 1) => Len(s) + Len(r) <= 1
  <1>1. ASSUME NEW s \in Seq(Message), Len(s) = 1 PROVE Head(s) \in Message /\ Tail(s) = <<>>
    <2>1. s # <<>> /\ Head(s) = s[1] /\ s[1] \in Message
      BY <1>1
    <2>2. Tail(s) \in Seq(Message) /\ Len(Tail(s)) = 0
      BY <1>1, <2>1
    <2>3. \A r \in Seq(Message) : Len(r) = 0 => r = <<>>
      OBVIOUS
    <2> QED BY <2>1, <2>2, <2>3, Zenon
  <1>2. ASSUME NEW s \in Seq(Message), s # <<>> PROVE Head(s) \in Message /\ Tail(s) \in Seq(Message)
    BY <1>2
  <1>3. ASSUME NEW s \in Seq(Message), NEW m \in Message PROVE Append(s, m) \in Seq(Message)
    BY <1>3
  <1>4. ASSUME NEW m \in Message
        PROVE  Append(<<>>, m) # <<>> /\ Len(Append(<<>>, m)) = 1 /\ Head(Append(<<>>, m)) = m
    BY <1>4
  <1>5. <<>> \in Seq(Message)
    OBVIOUS
  <1>6. ASSUME NEW s \in Seq(Message), NEW r \in Seq(Message),
               s # <<>> => Len(s) = 1 /\ r = <<>>, r # <<>> => Len(r) = 1
        PROVE  Len(s) + Len(r) <= 1
    <2>1. \A q \in Seq(Message) : q = <<>> => Len(q) = 0
      OBVIOUS
    <2>2. Len(s) \in Nat /\ Len(r) \in Nat
      OBVIOUS
    <2>3. Len(s) = 0 \/ (Len(s) = 1 /\ Len(r) = 0)
      BY <1>6, <2>1, Zenon
    <2>4. Len(r) \in {0, 1}
      BY <1>6, <2>1, Zenon
    <2>5. \A a, b \in Nat : (a = 0 \/ (a = 1 /\ b = 0)) /\ b \in {0, 1} => a + b <= 1
      OBVIOUS
    <2> QED BY <2>2, <2>3, <2>4, <2>5, Zenon
  <1> QED BY <1>1, <1>2, <1>3, <1>4, <1>5, <1>6, Zenon

\* The type invariant, and what the messages of a connection add up to.
LEMMA IpcTyping ==
  /\ IpcTypeOK => IpcTypes
  /\ IpcTypes' /\ (\A c \in Clients : ConnInv(c)') => IpcTypeOK'
  <1>1. IpcTypeOK => IpcTypes
    BY Zenon DEF IpcTypeOK, IpcTypes, Conn, Hand, CallRecord, Message
  <1>2. ASSUME IpcTypes', \A c \in Clients : ConnInv(c)' PROVE IpcTypeOK'
    <2>1. ASSUME NEW c \in Clients PROVE Len(ipcConn'[c].up) + Len(ipcConn'[c].down) <= 1
      BY <1>2, <2>1, OneMessage, Zenon DEF ConnInv, IpcTypes, Conn
    <2> QED BY <1>2, <2>1, Zenon DEF IpcTypeOK, IpcTypes, Conn, Hand, CallRecord, Message
  <1> QED BY <1>1, <1>2, Zenon

\* A step on one connection leaves the others theirs.
LEMMA OneConnection ==
  ASSUME IpcInv, NEW c \in Clients, IpcTypes', ServerInv', AnswerIsMine', ConnInv(c)', listener' = listener,
         \A d \in Clients \ {c} :
             /\ ipcConn'[d] = ipcConn[d] /\ handler'[d] = handler[d] /\ mu'[d] = mu[d]
             /\ \A t \in Threads : call'[<<d, t>>] = call[<<d, t>>]
  PROVE  IpcInv'
  <1>1. ASSUME NEW d \in Clients \ {c} PROVE ConnInv(d)'
    <2>1. ConnInv(d)
      BY Zenon DEF IpcInv
    <2>2. /\ ipcConn'[d] = ipcConn[d] /\ handler'[d] = handler[d] /\ mu'[d] = mu[d]
          /\ \A t \in Threads : call'[<<d, t>>] = call[<<d, t>>]
      BY <1>1, Zenon
    <2> QED BY <2>1, <2>2 DEF ConnInv, Serving, Waits, Gone, PeerGone
  <1>2. \A d \in Clients : ConnInv(d)'
    BY <1>1, Zenon
  <1> QED BY <1>2, IpcTyping, Zenon DEF IpcInv

\* A step of the server on a connection: the callers do not move.
LEMMA ServerStep ==
  ASSUME IpcInv, NEW c \in Clients, ipcConn' \in [Clients -> Conn], handler' \in [Clients -> Hand],
         \A d \in Clients \ {c} : ipcConn'[d] = ipcConn[d] /\ handler'[d] = handler[d],
         UNCHANGED <<cancelled, listener, serve, mu, seq, call>>,
         handler'[c].pc \in {"none", "ended"} \/ serve # "stopped", ConnInv(c)'
  PROVE  IpcInv'
  <1>1. IpcTypes
    BY IpcTyping, Zenon DEF IpcInv
  <1>2. IpcTypes'
    BY <1>1, Zenon DEF IpcTypes
  <1>3. ServerInv'
    BY Zenon DEF IpcInv, ServerInv
  <1>4. AnswerIsMine'
    BY Zenon DEF IpcInv, AnswerIsMine
  <1> QED BY <1>2, <1>3, <1>4, OneConnection, Zenon

\* handleConn and what opens and closes its connection.
LEMMA HandlerKeeps ==
  ASSUME IpcInv, NEW c \in Clients,
         Accept(c) \/ HandlerStep(c) \/ CloseConn(c) \/ Dial(c) \/ Close(c)
  PROVE  IpcInv'
  <1> DEFINE n == ipcConn[c]
             h == handler[c]
  <1>1. IpcTypes /\ ConnInv(c) /\ n \in Conn /\ h \in Hand
    BY IpcTyping, Zenon DEF IpcInv, IpcTypes
  <1>2. h.pc \in {"read", "dispatch", "write"} => serve # "stopped"
    BY Zenon DEF IpcInv, ServerInv
  <1>3. CASE Accept(c)
    <2>1. /\ ipcConn' = [ipcConn EXCEPT ![c].state = "live", ![c].srvOpen = TRUE]
          /\ handler' = [handler EXCEPT ![c].pc = "read"]
          /\ UNCHANGED <<cancelled, listener, serve, mu, seq, call>> /\ serve = "accept"
      BY <1>3, Zenon DEF Accept
    <2>2. ipcConn' \in [Clients -> Conn] /\ handler' \in [Clients -> Hand]
      BY <1>1, <2>1, Zenon DEF IpcTypes, Conn, Hand
    <2>3. \A d \in Clients \ {c} : ipcConn'[d] = ipcConn[d] /\ handler'[d] = handler[d]
      BY <1>1, <2>1, Zenon DEF IpcTypes
    <2>4. /\ ipcConn'[c].state = "live" /\ ipcConn'[c].srvOpen /\ ipcConn'[c].cliOpen = n.cliOpen
          /\ ipcConn'[c].up = n.up /\ ipcConn'[c].down = n.down /\ handler'[c].pc = "read"
      BY <1>1, <2>1, Zenon DEF IpcTypes, Conn, Hand
    <2>5. n.state = "queued" /\ h.pc \notin {"dispatch", "write"}
      BY <1>1, <1>3, Zenon DEF Accept, ConnInv
    <2>6. ConnInv(c)'
      BY <1>1, <2>1, <2>4, <2>5 DEF ConnInv, Serving, Waits, Gone, PeerGone
    <2> QED BY <2>1, <2>2, <2>3, <2>6, ServerStep, Zenon
  <1>4. CASE ReadRequest(c)
    <2>1. /\ ipcConn' = [ipcConn EXCEPT ![c].up = Tail(@)]
          /\ handler' = [handler EXCEPT ![c] = [pc |-> "dispatch", id |-> Head(n.up)]]
          /\ UNCHANGED <<cancelled, listener, serve, mu, seq, call>> /\ h.pc = "read" /\ n.up # <<>>
      BY <1>4, Zenon DEF ReadRequest
    <2>2. n.up \in Seq(Message) /\ Head(n.up) \in Message /\ Tail(n.up) = <<>> /\ n.down = <<>>
      BY <1>1, <2>1, OneMessage, Zenon DEF Conn, ConnInv
    <2>3. ipcConn' \in [Clients -> Conn]
      BY <1>1, <2>1, <2>2, OneMessage, Zenon DEF IpcTypes, Conn
    <2>4. handler' \in [Clients -> Hand]
      BY <1>1, <2>1, <2>2 DEF IpcTypes, Hand, Message
    <2>5. \A d \in Clients \ {c} : ipcConn'[d] = ipcConn[d] /\ handler'[d] = handler[d]
      BY <1>1, <2>1, Zenon DEF IpcTypes
    <2>6. /\ ipcConn'[c].state = n.state /\ ipcConn'[c].srvOpen = n.srvOpen /\ ipcConn'[c].cliOpen = n.cliOpen
          /\ ipcConn'[c].up = <<>> /\ ipcConn'[c].down = n.down
          /\ handler'[c].pc = "dispatch" /\ handler'[c].id = Head(n.up)
      BY <1>1, <2>1, <2>2, Zenon DEF IpcTypes, Conn
    <2>7. Head(n.up) # 0
      BY <2>2, IpcConstants DEF Message
    <2>8. ConnInv(c)'
      BY <1>1, <2>1, <2>2, <2>6, <2>7, Zenon DEF ConnInv, Serving, Waits, Gone, PeerGone
    <2> QED BY <1>2, <2>1, <2>3, <2>4, <2>5, <2>8, ServerStep, Zenon
  <1>5. CASE Dispatch(c)
    <2>1. /\ handler' = [handler EXCEPT ![c].pc = "write"] /\ h.pc = "dispatch"
          /\ UNCHANGED <<cancelled, listener, serve, ipcConn, mu, seq, call>>
      BY <1>5, Zenon DEF Dispatch
    <2>2. handler' \in [Clients -> Hand]
      BY <1>1, <2>1, Zenon DEF IpcTypes, Hand
    <2>3. \A d \in Clients \ {c} : ipcConn'[d] = ipcConn[d] /\ handler'[d] = handler[d]
      BY <1>1, <2>1, Zenon DEF IpcTypes
    <2>4. handler'[c].pc = "write" /\ handler'[c].id = h.id /\ ipcConn'[c] = n
      BY <1>1, <2>1, Zenon DEF IpcTypes, Hand
    <2>5. ConnInv(c)'
      BY <1>1, <2>1, <2>4, Zenon DEF ConnInv, Serving, Waits, Gone, PeerGone
    <2> QED BY <1>1, <1>2, <2>1, <2>2, <2>3, <2>5, ServerStep, Zenon DEF IpcTypes
  <1>6. ASSUME HangUp(c) \/ (WriteResponse(c) /\ ~(n.srvOpen /\ n.cliOpen)) PROVE IpcInv'
    <2>1. /\ ipcConn' = [ipcConn EXCEPT ![c].srvOpen = FALSE, ![c].up = <<>>]
          /\ handler' = [handler EXCEPT ![c] = [pc |-> "ended", id |-> 0]]
          /\ UNCHANGED <<cancelled, listener, serve, mu, seq, call>> /\ h.pc \in {"read", "write"}
      BY <1>6, Zenon DEF HangUp, WriteResponse
    <2>2. ipcConn' \in [Clients -> Conn]
      BY <1>1, <2>1, OneMessage, Zenon DEF IpcTypes, Conn
    <2>3. handler' \in [Clients -> Hand]
      BY <1>1, <2>1, IpcConstants DEF IpcTypes, Hand
    <2>4. \A d \in Clients \ {c} : ipcConn'[d] = ipcConn[d] /\ handler'[d] = handler[d]
      BY <1>1, <2>1, Zenon DEF IpcTypes
    <2>5. /\ ipcConn'[c].state = n.state /\ ~ipcConn'[c].srvOpen /\ ipcConn'[c].cliOpen = n.cliOpen
          /\ ipcConn'[c].up = <<>> /\ ipcConn'[c].down = n.down /\ handler'[c].pc = "ended"
      BY <1>1, <2>1, Zenon DEF IpcTypes, Conn
    <2>6. n.state = "live"
      BY <1>1, <2>1, Zenon DEF ConnInv
    <2>7. ConnInv(c)'
      BY <1>1, <2>1, <2>5, <2>6, Zenon DEF ConnInv, Serving, Waits, Gone, PeerGone
    <2> QED BY <2>1, <2>2, <2>3, <2>4, <2>5, <2>7, ServerStep, Zenon
  <1>7. ASSUME WriteResponse(c), n.srvOpen, n.cliOpen PROVE IpcInv'
    <2>1. /\ ipcConn' = [ipcConn EXCEPT ![c].down = Append(@, h.id)]
          /\ handler' = [handler EXCEPT ![c] = [pc |-> "read", id |-> 0]]
          /\ UNCHANGED <<cancelled, listener, serve, mu, seq, call>> /\ h.pc = "write"
      BY <1>7, Zenon DEF WriteResponse
    <2>2. n.up = <<>> /\ n.down = <<>> /\ n.state = "live"
      BY <1>1, <2>1, Zenon DEF ConnInv, Serving
    <2>3. PICK t \in Threads : Waits(c, t)
      BY <1>1, <1>7, <2>1, <2>2, Zenon DEF ConnInv, Serving, Gone, PeerGone
    <2>4. h.id = call[<<c, t>>].id
      BY <1>1, <2>1, <2>3, Zenon DEF ConnInv, Serving
    <2>5. h.id \in Message
      BY <1>1, <2>1, IpcConstants DEF Hand, Message, ConnInv, Serving
    <2>6. ipcConn' \in [Clients -> Conn]
      BY <1>1, <2>1, <2>5, OneMessage, Zenon DEF IpcTypes, Conn
    <2>7. handler' \in [Clients -> Hand]
      BY <1>1, <2>1, IpcConstants DEF IpcTypes, Hand
    <2>8. \A d \in Clients \ {c} : ipcConn'[d] = ipcConn[d] /\ handler'[d] = handler[d]
      BY <1>1, <2>1, Zenon DEF IpcTypes
    <2>9. /\ ipcConn'[c].state = n.state /\ ipcConn'[c].srvOpen = n.srvOpen /\ ipcConn'[c].cliOpen = n.cliOpen
          /\ ipcConn'[c].up = <<>> /\ ipcConn'[c].down = Append(<<>>, h.id) /\ handler'[c].pc = "read"
      BY <1>1, <2>1, <2>2, Zenon DEF IpcTypes, Conn
    <2>10. /\ ipcConn'[c].down # <<>> /\ Len(ipcConn'[c].down) = 1 /\ Head(ipcConn'[c].down) = h.id
      BY <2>5, <2>9, OneMessage, Zenon
    <2>11. ConnInv(c)'
      BY <1>1, <2>1, <2>2, <2>3, <2>9, <2>10, Zenon DEF ConnInv, Serving, Waits, Gone, PeerGone
    <2> QED BY <1>2, <2>1, <2>6, <2>7, <2>8, <2>11, ServerStep, Zenon
  <1>8. CASE CloseConn(c)
    <2>1. /\ ipcConn' = [ipcConn EXCEPT ![c].srvOpen = FALSE] /\ n.srvOpen
          /\ UNCHANGED <<cancelled, listener, serve, handler, mu, seq, call>>
      BY <1>8, Zenon DEF CloseConn
    <2>2. ipcConn' \in [Clients -> Conn]
      BY <1>1, <2>1, Zenon DEF IpcTypes, Conn
    <2>3. \A d \in Clients \ {c} : ipcConn'[d] = ipcConn[d] /\ handler'[d] = handler[d]
      BY <1>1, <2>1, Zenon DEF IpcTypes
    <2>4. /\ ipcConn'[c].state = n.state /\ ~ipcConn'[c].srvOpen /\ ipcConn'[c].cliOpen = n.cliOpen
          /\ ipcConn'[c].up = n.up /\ ipcConn'[c].down = n.down
      BY <1>1, <2>1, Zenon DEF IpcTypes, Conn
    <2>5. ConnInv(c)'
      BY <1>1, <2>1, <2>4 DEF ConnInv, Serving, Waits, Gone, PeerGone
    <2>6. handler'[c].pc \in {"none", "ended"} \/ serve # "stopped"
      BY <2>1, Zenon DEF IpcInv, ServerInv
    <2> QED BY <1>1, <2>1, <2>2, <2>3, <2>5, <2>6, ServerStep, Zenon DEF IpcTypes
  <1>9. CASE Dial(c)
    <2>1. /\ ipcConn' = [ipcConn EXCEPT ![c].state = "queued", ![c].cliOpen = TRUE]
          /\ n.state = "none" /\ listener = "open"
          /\ UNCHANGED <<cancelled, listener, serve, handler, mu, seq, call>>
      BY <1>9, Zenon DEF Dial
    <2>2. ipcConn' \in [Clients -> Conn]
      BY <1>1, <2>1, Zenon DEF IpcTypes, Conn
    <2>3. \A d \in Clients \ {c} : ipcConn'[d] = ipcConn[d] /\ handler'[d] = handler[d]
      BY <1>1, <2>1, Zenon DEF IpcTypes
    <2>4. /\ ipcConn'[c].state = "queued" /\ ipcConn'[c].srvOpen = n.srvOpen
          /\ ipcConn'[c].up = n.up /\ ipcConn'[c].down = n.down
      BY <1>1, <2>1, Zenon DEF IpcTypes, Conn
    <2>5. n.up = <<>> /\ n.down = <<>> /\ h.pc = "none" /\ ~n.srvOpen
      BY <1>1, <2>1, Zenon DEF ConnInv
    <2>6. ConnInv(c)'
      BY <1>1, <2>1, <2>4, <2>5, Zenon DEF ConnInv, Serving, Waits
    <2> QED BY <1>1, <2>1, <2>2, <2>3, <2>5, <2>6, ServerStep, Zenon DEF IpcTypes
  <1>10. CASE Close(c)
    <2>1. /\ ipcConn' = [ipcConn EXCEPT ![c].cliOpen = FALSE]
          /\ UNCHANGED <<cancelled, listener, serve, handler, mu, seq, call>>
      BY <1>10, Zenon DEF Close
    <2>2. ipcConn' \in [Clients -> Conn]
      BY <1>1, <2>1, Zenon DEF IpcTypes, Conn
    <2>3. \A d \in Clients \ {c} : ipcConn'[d] = ipcConn[d] /\ handler'[d] = handler[d]
      BY <1>1, <2>1, Zenon DEF IpcTypes
    <2>4. /\ ipcConn'[c].state = n.state /\ ipcConn'[c].srvOpen = n.srvOpen /\ ~ipcConn'[c].cliOpen
          /\ ipcConn'[c].up = n.up /\ ipcConn'[c].down = n.down
      BY <1>1, <2>1, Zenon DEF IpcTypes, Conn
    <2>5. ConnInv(c)'
      BY <1>1, <2>1, <2>4, Zenon DEF ConnInv, Serving, Waits, Gone, PeerGone
    <2>6. handler'[c].pc \in {"none", "ended"} \/ serve # "stopped"
      BY <2>1, Zenon DEF IpcInv, ServerInv
    <2> QED BY <1>1, <2>1, <2>2, <2>3, <2>5, <2>6, ServerStep, Zenon DEF IpcTypes
  <1> QED BY <1>3, <1>4, <1>5, <1>6, <1>7, <1>8, <1>9, <1>10, Zenon DEF HandlerStep

\* A step of a caller: only its own call moves, with its mutex.
LEMMA CallerStep ==
  ASSUME IpcInv, NEW c \in Clients, NEW t \in Threads, NEW r \in CallRecord, NEW m \in {"free"} \cup Threads,
         call' = [call EXCEPT ![<<c, t>>] = r], mu' = [mu EXCEPT ![c] = m],
         seq' \in [Clients -> 0..MaxCalls], ipcConn' \in [Clients -> Conn],
         \A d \in Clients \ {c} : ipcConn'[d] = ipcConn[d],
         UNCHANGED <<cancelled, listener, serve, handler>>, r.got \in {0, r.id}, ConnInv(c)'
  PROVE  IpcInv'
  <1>1. IpcTypes /\ <<c, t>> \in Callers
    BY IpcTyping, Zenon DEF IpcInv, Callers
  <1>2. IpcTypes'
    BY <1>1, Zenon DEF IpcTypes
  <1>3. ServerInv'
    BY Zenon DEF IpcInv, ServerInv
  <1>4. AnswerIsMine'
    BY <1>1, Zenon DEF IpcInv, AnswerIsMine, IpcTypes
  <1>5. ASSUME NEW d \in Clients \ {c}
        PROVE  mu'[d] = mu[d] /\ \A u \in Threads : call'[<<d, u>>] = call[<<d, u>>]
    <2>1. \A u \in Threads : <<d, u>> \in Callers /\ <<d, u>> # <<c, t>>
      BY <1>5, Zenon DEF Callers
    <2> QED BY <1>1, <2>1, Zenon DEF IpcTypes
  <1> QED BY <1>2, <1>3, <1>4, <1>5, OneConnection, Zenon

\* What a step makes of the calls on a connection.
LEMMA Callings ==
  ASSUME IpcTypes, NEW c \in Clients, NEW t \in Threads, NEW r \in CallRecord,
         call' = [call EXCEPT ![<<c, t>>] = r]
  PROVE  /\ call'[<<c, t>>] = r
         /\ \A u \in Threads \ {t} : call'[<<c, u>>] = call[<<c, u>>]
  <1>1. \A u \in Threads : <<c, u>> \in Callers /\ (u # t => <<c, u>> # <<c, t>>)
    BY Zenon DEF Callers
  <1> QED BY <1>1, Zenon DEF IpcTypes

\* Call: the mutex leaves the connection to one goroutine, so the next response
\* is to its request.
LEMMA CallKeeps ==
  ASSUME IpcInv, NEW c \in Clients, NEW t \in Threads, Lock(<<c, t>>) \/ CallStep(<<c, t>>)
  PROVE  IpcInv'
  <1> DEFINE k == <<c, t>>
             n == ipcConn[c]
  <1>1. /\ IpcTypes /\ ConnInv(c) /\ n \in Conn /\ k \in Callers /\ k[1] = c /\ k[2] = t
        /\ call[k] \in CallRecord /\ call[k].got \in {0, call[k].id}
    BY IpcTyping, Zenon DEF IpcInv, IpcTypes, Callers, AnswerIsMine
  <1>2. CASE Lock(k)
    <2> DEFINE r == [pc |-> "send", id |-> seq[c] + 1, got |-> 0]
    <2>1. /\ call' = [call EXCEPT ![k] = r] /\ mu' = [mu EXCEPT ![c] = t] /\ seq' = [seq EXCEPT ![c] = @ + 1]
          /\ mu[c] = "free" /\ seq[c] < MaxCalls
          /\ UNCHANGED <<cancelled, listener, serve, ipcConn, handler>>
      BY <1>1, <1>2, Zenon DEF Lock
    <2>2. seq[c] \in 0..MaxCalls
      BY <1>1, Zenon DEF IpcTypes
    <2>3. r \in CallRecord /\ r.got = 0 /\ r.pc = "send" /\ r.id # 0
      BY <2>1, <2>2, IpcConstants DEF CallRecord
    <2>4. seq' \in [Clients -> 0..MaxCalls]
      BY <1>1, <2>1, <2>2, IpcConstants DEF IpcTypes
    <2>5. call'[k] = r /\ \A u \in Threads \ {t} : call'[<<c, u>>] = call[<<c, u>>]
      BY <1>1, <2>1, <2>3, Callings, Zenon
    <2>6. \A u \in Threads : call[<<c, u>>].pc = "idle"
      BY <1>1, <2>1, IpcConstants, Zenon DEF ConnInv
    <2>7. mu'[c] = t
      BY <1>1, <2>1, Zenon DEF IpcTypes
    <2> HIDE DEF r
    <2>8. ConnInv(c)'
      BY <1>1, <2>1, <2>3, <2>5, <2>6, <2>7, Zenon DEF ConnInv, Serving, Waits, Gone, PeerGone
    <2> QED BY <1>1, <2>1, <2>3, <2>4, <2>8, CallerStep, Zenon DEF IpcTypes
  <1>3. ASSUME NEW i \in {0, call[k].id}, Return(k, i), ipcConn' \in [Clients -> Conn],
               \A d \in Clients \ {c} : ipcConn'[d] = ipcConn[d],
               UNCHANGED <<cancelled, listener, serve, handler, seq>>, call[k].pc # "idle",
               \/ ipcConn'[c] = n /\ (Gone(c) \/ call[k].pc = "send")
               \/ /\ n.down # <<>> /\ call[k].pc = "receive" /\ ipcConn'[c].down = <<>>
                  /\ ipcConn'[c].state = n.state /\ ipcConn'[c].srvOpen = n.srvOpen
                  /\ ipcConn'[c].cliOpen = n.cliOpen /\ ipcConn'[c].up = n.up
        PROVE  IpcInv'
    <2> DEFINE r == [call[k] EXCEPT !.pc = "idle", !.got = i]
    <2>1. call' = [call EXCEPT ![k] = r] /\ mu' = [mu EXCEPT ![c] = "free"]
      BY <1>1, <1>3, Zenon DEF Return
    <2>2. r \in CallRecord /\ r.pc = "idle" /\ r.got = i /\ r.id = call[k].id
      <3>1. i \in 0..MaxCalls
        <4>1. 0 \in 0..MaxCalls
          BY IpcConstants
        <4>2. call[k].id \in 0..MaxCalls
          BY <1>1, Zenon DEF CallRecord
        <4> QED BY <1>3, <4>1, <4>2, Zenon
      <3> QED BY <1>1, <3>1, Zenon DEF CallRecord
    <2> HIDE DEF r
    <2>3. call'[k] = r /\ \A u \in Threads \ {t} : call'[<<c, u>>] = call[<<c, u>>]
      BY <1>1, <2>1, <2>2, Callings, Zenon
    <2>4. \A u \in Threads \ {t} : call[<<c, u>>].pc = "idle"
      BY <1>1, <1>3, Zenon DEF ConnInv
    <2>5. \A u \in Threads : call'[<<c, u>>].pc = "idle"
      BY <2>2, <2>3, <2>4, Zenon
    <2>6. ConnInv(c)'
      <3>1. CASE ipcConn'[c] = n /\ (Gone(c) \/ call[k].pc = "send")
        <4>1. ~Gone(c) => n.up = <<>> /\ n.down = <<>> /\ ~Serving(c)
          BY <1>1, <2>4, <3>1, Zenon DEF ConnInv, Waits
        <4> QED BY <1>1, <1>3, <2>5, <3>1, <4>1, Zenon DEF ConnInv, Serving, Waits, Gone, PeerGone
      <3>2. CASE /\ n.down # <<>> /\ call[k].pc = "receive" /\ ipcConn'[c].down = <<>>
                 /\ ipcConn'[c].state = n.state /\ ipcConn'[c].srvOpen = n.srvOpen
                 /\ ipcConn'[c].cliOpen = n.cliOpen /\ ipcConn'[c].up = n.up
        <4>1. n.up = <<>> /\ ~Serving(c)
          BY <1>1, <3>2, Zenon DEF ConnInv
        <4> QED BY <1>1, <1>3, <2>5, <3>2, <4>1, Zenon DEF ConnInv, Serving, Waits, Gone, PeerGone
      <3> QED BY <1>3, <3>1, <3>2, Zenon
    <2>7. seq' \in [Clients -> 0..MaxCalls]
      BY <1>1, <1>3, Zenon DEF IpcTypes
    <2> QED BY <1>3, <2>1, <2>2, <2>6, <2>7, CallerStep, Zenon
  <1>4. ASSUME Send(k), n.cliOpen, ~PeerGone(c) PROVE IpcInv'
    <2> DEFINE r == [call[k] EXCEPT !.pc = "receive"]
    <2>1. /\ ipcConn' = [ipcConn EXCEPT ![c].up = Append(@, call[k].id)] /\ call[k].pc = "send"
          /\ call' = [call EXCEPT ![k] = r] /\ UNCHANGED <<mu, cancelled, listener, serve, handler, seq>>
      BY <1>1, <1>4, Zenon DEF Send
    <2>2. r \in CallRecord /\ r.pc = "receive" /\ r.id = call[k].id /\ r.got = call[k].got
      BY <1>1, Zenon DEF CallRecord
    <2> HIDE DEF r
    <2>3. call'[k] = r /\ \A u \in Threads \ {t} : call'[<<c, u>>] = call[<<c, u>>]
      BY <1>1, <2>1, <2>2, Callings, Zenon
    <2>4. mu[c] = t /\ call[k].id # 0 /\ \A u \in Threads \ {t} : call[<<c, u>>].pc = "idle"
      BY <1>1, <2>1, Zenon DEF ConnInv
    <2>5. call[k].id \in Message
      BY <1>1, <2>4, IpcConstants DEF CallRecord, Message
    <2>6. n.up = <<>> /\ n.down = <<>> /\ ~Serving(c)
      BY <1>1, <1>4, <2>1, <2>4, Zenon DEF ConnInv, Waits, Gone
    <2>7. ipcConn' \in [Clients -> Conn]
      BY <1>1, <2>1, <2>5, OneMessage, Zenon DEF IpcTypes, Conn
    <2>8. \A d \in Clients \ {c} : ipcConn'[d] = ipcConn[d]
      BY <1>1, <2>1, Zenon DEF IpcTypes
    <2>9. /\ ipcConn'[c].state = n.state /\ ipcConn'[c].srvOpen = n.srvOpen /\ ipcConn'[c].cliOpen = n.cliOpen
          /\ ipcConn'[c].up = Append(<<>>, call[k].id) /\ ipcConn'[c].down = <<>>
      BY <1>1, <2>1, <2>6, Zenon DEF IpcTypes, Conn
    <2>10. ipcConn'[c].up # <<>> /\ Len(ipcConn'[c].up) = 1 /\ Head(ipcConn'[c].up) = call[k].id
      BY <2>5, <2>9, OneMessage, Zenon
    <2>11. mu' = [mu EXCEPT ![c] = t] /\ t \in {"free"} \cup Threads
      BY <1>1, <2>1, <2>4, Zenon DEF IpcTypes
    <2>12. n.state # "none"
      BY <1>1, <1>4, Zenon DEF ConnInv
    <2>13. ConnInv(c)'
      BY <1>1, <2>1, <2>2, <2>3, <2>4, <2>6, <2>9, <2>10, <2>12 DEF ConnInv, Serving, Waits, Gone, PeerGone
    <2>14. seq' \in [Clients -> 0..MaxCalls]
      BY <1>1, <2>1, Zenon DEF IpcTypes
    <2> QED BY <1>1, <2>1, <2>2, <2>7, <2>8, <2>11, <2>13, <2>14, CallerStep, Zenon
  <1>5. ASSUME Send(k), ~(n.cliOpen /\ ~PeerGone(c)) PROVE IpcInv'
    <2>1. Return(k, 0) /\ UNCHANGED <<ipcConn, cancelled, listener, serve, handler, seq>> /\ call[k].pc = "send"
      BY <1>1, <1>5, Zenon DEF Send
    <2> QED BY <1>1, <1>3, <2>1, Zenon DEF IpcTypes
  <1>6. ASSUME call[k].pc = "receive", n.down # <<>>, NEW i \in {0, Head(n.down)}, Return(k, i),
               ipcConn' = [ipcConn EXCEPT ![c].down = Tail(@)],
               UNCHANGED <<cancelled, listener, serve, handler, seq>>
        PROVE  IpcInv'
    <2>1. i \in {0, call[k].id}
      BY <1>1, <1>6, Zenon DEF ConnInv, Waits
    <2>2. n.down \in Seq(Message) /\ Tail(n.down) = <<>>
      BY <1>1, <1>6, OneMessage, Zenon DEF Conn, ConnInv
    <2>3. ipcConn' \in [Clients -> Conn]
      BY <1>1, <1>6, <2>2, OneMessage, Zenon DEF IpcTypes, Conn
    <2>4. \A d \in Clients \ {c} : ipcConn'[d] = ipcConn[d]
      BY <1>1, <1>6, Zenon DEF IpcTypes
    <2>5. /\ ipcConn'[c].state = n.state /\ ipcConn'[c].srvOpen = n.srvOpen /\ ipcConn'[c].cliOpen = n.cliOpen
          /\ ipcConn'[c].up = n.up /\ ipcConn'[c].down = <<>>
      BY <1>1, <1>6, <2>2, Zenon DEF IpcTypes, Conn
    <2> QED BY <1>3, <1>6, <2>1, <2>3, <2>4, <2>5, Zenon
  <1>7. CASE IpcReceive(k)
    BY <1>1, <1>6, <1>7, Zenon DEF IpcReceive
  <1>8. CASE ReceiveError(k)
    <2>1. Return(k, 0) /\ call[k].pc = "receive" /\ UNCHANGED <<cancelled, listener, serve, handler, seq>>
      BY <1>8, Zenon DEF ReceiveError
    <2>2. CASE (~n.cliOpen \/ PeerGone(c)) /\ UNCHANGED ipcConn
      BY <1>1, <1>3, <2>1, <2>2, Zenon DEF IpcTypes, Gone
    <2>3. CASE n.down # <<>> /\ ipcConn' = [ipcConn EXCEPT ![c].down = Tail(@)]
      BY <1>6, <2>1, <2>3, Zenon
    <2> QED BY <1>1, <1>8, <2>2, <2>3, Zenon DEF ReceiveError
  <1> QED BY <1>1, <1>2, <1>4, <1>5, <1>7, <1>8, Zenon DEF CallStep

\* Steps of Serve and of the daemon that touch no connection.
LEMMA ServeKeeps ==
  ASSUME IpcInv, UNCHANGED <<ipcConn, handler, mu, seq, call>>, Cancel \/ Listen \/ StopAccepting \/ IpcStop
  PROVE  IpcInv'
  <1>1. IpcTypes
    BY IpcTyping, Zenon DEF IpcInv
  <1>2. IpcTypes'
    BY <1>1, Zenon DEF IpcTypes, Cancel, Listen, StopAccepting, IpcStop
  <1>3. ServerInv'
    BY Zenon DEF IpcInv, ServerInv, Cancel, Listen, StopAccepting, IpcStop
  <1>4. AnswerIsMine'
    BY Zenon DEF IpcInv, AnswerIsMine
  <1>5. listener = "open" => listener' = "open"
    BY Zenon DEF IpcInv, ServerInv, Cancel, Listen, StopAccepting, IpcStop
  <1>6. ASSUME NEW c \in Clients PROVE ConnInv(c)'
    <2>1. ConnInv(c)
      BY Zenon DEF IpcInv
    <2> QED BY <1>5, <2>1, Zenon DEF ConnInv, Serving, Waits, Gone, PeerGone
  <1> QED BY <1>2, <1>3, <1>4, <1>6, IpcTyping, Zenon DEF IpcInv

\* Closing the listener resets the connections that wait to be accepted.
LEMMA CloseKeeps ==
  ASSUME IpcInv, CloseListener
  PROVE  IpcInv'
  <1>1. IpcTypes
    BY IpcTyping, Zenon DEF IpcInv
  <1>2. listener' = "closed" /\ listener = "open" /\ UNCHANGED <<cancelled, serve, handler, mu, seq, call>>
    BY Zenon DEF CloseListener
  <1>3. ASSUME NEW c \in Clients
        PROVE  /\ ipcConn'[c] \in Conn /\ ipcConn'[c].up = ipcConn[c].up /\ ipcConn'[c].down = ipcConn[c].down
               /\ ipcConn'[c].srvOpen = ipcConn[c].srvOpen /\ ipcConn'[c].cliOpen = ipcConn[c].cliOpen
               /\ ipcConn'[c].state = IF ipcConn[c].state = "queued" THEN "dead" ELSE ipcConn[c].state
    <2>1. ipcConn[c] \in Conn
      BY <1>1, Zenon DEF IpcTypes
    <2>2. ipcConn'[c] = IF ipcConn[c].state = "queued" THEN [ipcConn[c] EXCEPT !.state = "dead"] ELSE ipcConn[c]
      BY Zenon DEF CloseListener
    <2> QED BY <2>1, <2>2, Zenon DEF Conn
  <1>4. ipcConn' \in [Clients -> Conn]
    BY <1>3, Zenon DEF CloseListener
  <1>5. IpcTypes'
    BY <1>1, <1>2, <1>4, Zenon DEF IpcTypes
  <1>6. ServerInv' /\ AnswerIsMine'
    BY <1>2, Zenon DEF IpcInv, ServerInv, AnswerIsMine
  <1>7. ASSUME NEW c \in Clients PROVE ConnInv(c)'
    <2>1. ConnInv(c)
      BY Zenon DEF IpcInv
    <2>2. ~Gone(c)' => ~Gone(c)
      BY <1>3, Zenon DEF Gone, PeerGone
    <2> QED BY <1>2, <1>3, <2>1, <2>2, Zenon DEF ConnInv, Serving, Waits
  <1> QED BY <1>5, <1>6, <1>7, IpcTyping, Zenon DEF IpcInv

\* Every step on the socket keeps the invariant.
LEMMA IpcStep ==
  ASSUME IpcInv, [IpcNext]_ipcVars
  PROVE  IpcInv'
  <1>1. CASE UNCHANGED ipcVars
    <2>1. IpcTypeOK' /\ ServerInv' /\ AnswerIsMine'
      BY <1>1, Zenon DEF ipcVars, IpcInv, IpcTypeOK, ServerInv, AnswerIsMine
    <2>2. ASSUME NEW c \in Clients PROVE ConnInv(c)'
      <3>1. ConnInv(c)
        BY Zenon DEF IpcInv
      <3>2. UNCHANGED <<listener, ipcConn, handler, mu, call>>
        BY <1>1, Zenon DEF ipcVars
      <3> QED BY <3>1, <3>2, Zenon DEF ConnInv, Serving, Waits, Gone, PeerGone
    <2> QED BY <2>1, <2>2, Zenon DEF IpcInv
  <1>2. CASE Cancel \/ Listen \/ StopAccepting \/ IpcStop
    <2>1. UNCHANGED <<ipcConn, handler, mu, seq, call>>
      BY <1>2, Zenon DEF Cancel, Listen, StopAccepting, IpcStop
    <2> QED BY <1>2, <2>1, ServeKeeps, Zenon
  <1>3. ASSUME NEW k \in Callers, Lock(k) \/ CallStep(k) PROVE IpcInv'
    <2>1. PICK c \in Clients, t \in Threads : k = <<c, t>>
      BY <1>3 DEF Callers
    <2> QED BY <1>3, <2>1, CallKeeps, Zenon
  <1> QED BY <1>1, <1>2, <1>3, HandlerKeeps, CloseKeeps, Zenon DEF IpcNext, ServeStep

\* The inductive invariant of the socket: one message on a connection, for the
\* goroutine that waits for it.
THEOREM SocketInvariant == IpcSpec => []IpcInv
  <1>1. IpcInit => IpcInv
    <2> SUFFICES ASSUME IpcInit PROVE IpcInv
      BY Zenon
    <2>1. NoConn \in Conn /\ NoCall \in CallRecord
      BY IpcConstants DEF NoConn, NoCall, Conn, CallRecord, Message
    <2>2. \A c \in Clients : ipcConn[c] = NoConn /\ handler[c] = [pc |-> "none", id |-> 0]
      BY Zenon DEF IpcInit
    <2>3. \A k \in Callers : call[k] = NoCall
      BY Zenon DEF IpcInit
    <2>4. IpcTypeOK
      <3>1. ipcConn \in [Clients -> Conn] /\ call \in [Callers -> CallRecord]
        BY <2>1, Zenon DEF IpcInit
      <3>2. handler \in [Clients -> Hand] /\ mu \in [Clients -> {"free"} \cup Threads] /\ seq \in [Clients -> 0..MaxCalls]
        BY IpcConstants DEF IpcInit, Hand
      <3>3. \A c \in Clients : Len(ipcConn[c].up) + Len(ipcConn[c].down) <= 1
        <4>1. NoConn.up = <<>> /\ NoConn.down = <<>>
          BY Zenon DEF NoConn
        <4>2. <<>> \in Seq(Message)
          OBVIOUS
        <4>3. Len(NoConn.up) + Len(NoConn.down) <= 1
          BY <4>1, <4>2, OneMessage, Zenon
        <4> QED BY <2>2, <4>3, Zenon
      <3> QED BY <3>1, <3>2, <3>3, Zenon DEF IpcInit, IpcTypeOK, Conn, CallRecord, Hand, Message
    <2>5. AnswerIsMine /\ ServerInv
      BY <2>3, Zenon DEF IpcInit, AnswerIsMine, ServerInv, NoCall
    <2>6. ASSUME NEW c \in Clients PROVE ConnInv(c)
      <3>1. \A t \in Threads : call[<<c, t>>] = NoCall
        BY <2>3, Zenon DEF Callers
      <3> QED BY <2>2, <3>1 DEF ConnInv, Serving, Waits, NoConn, NoCall
    <2> QED BY <2>4, <2>5, <2>6, Zenon DEF IpcInv
  <1>2. IpcInv /\ [IpcNext]_ipcVars => IpcInv'
    BY IpcStep, Zenon
  <1> QED BY <1>1, <1>2, PTL DEF IpcSpec

\* A caller gets the answer to its own request although no ids are compared
\* (Call), and a server that has stopped does nothing more (Serve), for any
\* clients, goroutines and calls.
THEOREM SocketHolds == IpcSpec => []SocketSafe
  <1>1. IpcInv => SocketSafe
    BY Zenon DEF IpcInv, ServerInv, ConnInv, SocketSafe, StoppedIsQuiet
  <1> QED BY <1>1, SocketInvariant, PTL

-----------------------------------------------------------------------------
(* Agent versions *)

\* What holds of one request: what it has still to insert and what it has make
\* up what it names; while it holds the version, nobody else has published it;
\* and an operation on a rollout starts from the status it has read, or is late.
RelRequestInv(r) ==
  LET q == relReq[r] IN
  /\ q.pc # "idle" => q.v \in Versions
  /\ q.pc \in {"check", "insert"} => q.todo = q.want /\ q.rows = {}
  /\ q.pc = "binaries" => q.todo \cup q.rows = q.want
  /\ q.pc = "commit" => q.rows = q.want
  /\ q.pc \in {"binaries", "commit"} => versions[q.v] = "none"
  /\ q.pc = "write" => /\ q.op \in DOMAIN Targets /\ rollout[q.v] # "none"
                       /\ q.stale \/ rollout[q.v] \in From(q.op)

RelInv ==
    /\ RelTypeOK /\ PublishedIsWhole
    /\ \A r \in Requests : RelRequestInv(r)
    /\ \A r, q \in Requests : \A v \in Versions : Holds(r, v) /\ Holds(q, v) => r = q

RelRecord == [pc : {"idle", "check", "insert", "binaries", "commit", "write"},
              op : {"none", "publish"} \cup DOMAIN Targets, v : Versions \cup {"none"},
              want : SUBSET Binaries, todo : SUBSET Binaries, rows : SUBSET Binaries,
              stale : BOOLEAN]

\* The fields of a request and of one that is not under way.
LEMMA RelRecords ==
    /\ RelIdle \in RelRecord /\ RelIdle.pc = "idle"
    /\ RelTypeOK => \A r \in Requests : relReq[r] \in RelRecord
    /\ DOMAIN Targets = {"pause", "resume", "abort"}
  BY Zenon DEF RelIdle, RelRecord, RelTypeOK, Targets

\* A statement that changes no row keeps the invariant if the request keeps its
\* part and does not become a second one that holds its version.
LEMMA OwnStep ==
    ASSUME RelInv, NEW r \in Requests, NEW rec \in RelRecord, Set(r, rec),
           UNCHANGED <<versions, binaries, rollout, files, named>>, RelRequestInv(r)',
           \A q \in Requests \ {r} : \A v \in Versions :
               Holds(q, v) => ~(rec.pc \in {"binaries", "commit"} /\ rec.v = v)
    PROVE  RelInv'
  <1> USE DEF RelInv
  <1>1. relReq \in [Requests -> RelRecord]
    BY Zenon DEF RelTypeOK, RelRecord
  <1>2. relReq' \in [Requests -> RelRecord] /\ relReq'[r] = rec
    BY <1>1, Zenon DEF Set
  <1>3. \A q \in Requests \ {r} : relReq'[q] = relReq[q]
    BY <1>1, Zenon DEF Set
  <1>4. RelTypeOK'
    BY <1>2, Zenon DEF RelTypeOK, RelRecord
  <1>5. PublishedIsWhole'
    BY Zenon DEF PublishedIsWhole
  <1>6. \A q \in Requests : RelRequestInv(q)'
    <2>1. ASSUME NEW q \in Requests \ {r} PROVE RelRequestInv(q)'
      BY <1>3, <2>1 DEF RelRequestInv
    <2> QED BY <2>1, Zenon
  <1>7. \A p, q \in Requests : \A v \in Versions : Holds(p, v)' /\ Holds(q, v)' => p = q
    <2> SUFFICES ASSUME NEW p \in Requests, NEW q \in Requests, NEW v \in Versions,
                        Holds(p, v)', Holds(q, v)'
                 PROVE  p = q
      BY Zenon
    <2>1. \A x \in Requests \ {r} : Holds(x, v)' => Holds(x, v)
      BY <1>3, Zenon DEF Holds
    <2>2. Holds(r, v)' => rec.pc \in {"binaries", "commit"} /\ rec.v = v
      BY <1>2, Zenon DEF Holds
    <2> QED BY <2>1, <2>2, Zenon
  <1> QED BY <1>4, <1>5, <1>6, <1>7, Zenon

\* COMMIT publishes what the request names, under a version that was free and
\* that no other open transaction holds.
LEMMA CommitStep ==
    ASSUME RelInv, NEW r \in Requests, RelCommit(r)
    PROVE  RelInv'
  <1> DEFINE w == relReq[r].v
  <1> USE DEF RelInv
  <1>1. relReq \in [Requests -> RelRecord]
    BY Zenon DEF RelTypeOK, RelRecord
  <1>2. w \in Versions /\ relReq[r].rows = relReq[r].want /\ versions[w] = "none"
    BY Zenon DEF RelCommit, RelRequestInv
  <1>3. relReq' \in [Requests -> RelRecord] /\ relReq'[r] = RelIdle
    BY <1>1, RelRecords, Zenon DEF RelCommit, Set
  <1>4. \A q \in Requests \ {r} : relReq'[q] = relReq[q]
    BY <1>1, Zenon DEF RelCommit, Set
  <1>5. relReq[r].rows \subseteq Binaries /\ relReq[r].want \subseteq Binaries
    BY <1>1, Zenon DEF RelRecord
  <1>6. RelTypeOK'
    <2>1. versions' \in [Versions -> {"none", "offered", "yanked"}]
      BY <1>2, Zenon DEF RelCommit, RelTypeOK
    <2>2. named' \in [Versions -> SUBSET Binaries]
      BY <1>2, <1>5, Zenon DEF RelCommit, RelTypeOK
    <2>3. binaries' \subseteq Versions \X Binaries
      BY <1>2, <1>5, Zenon DEF RelCommit, RelTypeOK
    <2>4. \A v \in Versions : rollout'[v] # "none" => versions'[v] # "none"
      BY <1>2, Zenon DEF RelCommit, RelTypeOK
    <2> QED BY <1>3, <2>1, <2>2, <2>3, <2>4, Zenon DEF RelCommit, RelTypeOK, RelRecord
  <1>7. PublishedIsWhole'
    <2> SUFFICES ASSUME NEW v \in Versions
                 PROVE  {b \in Binaries : <<v, b>> \in binaries'} = IF versions'[v] = "none" THEN {} ELSE named'[v]
      BY Zenon DEF PublishedIsWhole
    <2>1. CASE v = w
      <3>1. versions'[v] = "offered" /\ named'[v] = relReq[r].rows
        BY <1>2, <2>1, Zenon DEF RelCommit, RelTypeOK
      <3>2. {b \in Binaries : <<v, b>> \in binaries} = {}
        BY <1>2, <2>1, Zenon DEF PublishedIsWhole
      <3>3. \A b \in Binaries : <<v, b>> \in binaries' <=> b \in relReq[r].rows
        BY <2>1, <3>2, Zenon DEF RelCommit
      <3> QED BY <1>5, <3>1, <3>3, Zenon
    <2>2. CASE v # w
      <3>1. versions'[v] = versions[v] /\ named'[v] = named[v]
        BY <2>2, Zenon DEF RelCommit, RelTypeOK
      <3>2. \A b \in Binaries : <<v, b>> \in binaries' <=> <<v, b>> \in binaries
        BY <2>2, Zenon DEF RelCommit
      <3> QED BY <3>1, <3>2, Zenon DEF PublishedIsWhole
    <2> QED BY <2>1, <2>2, Zenon
  <1>8. \A q \in Requests : RelRequestInv(q)'
    <2>1. RelRequestInv(r)'
      BY <1>3, RelRecords, Zenon DEF RelRequestInv
    <2>2. ASSUME NEW q \in Requests \ {r} PROVE RelRequestInv(q)'
      <3>1. relReq[q].pc \in {"binaries", "commit"} => relReq[q].v # w
        BY <1>2, <2>2, Zenon DEF Holds, RelCommit
      <3>2. relReq[q].pc \in {"binaries", "commit"} => versions'[relReq[q].v] = "none"
        BY <2>2, <3>1, Zenon DEF RelCommit, RelTypeOK, RelRequestInv
      <3> QED BY <1>4, <2>2, <3>2 DEF RelRequestInv, RelCommit
    <2> QED BY <2>1, <2>2, Zenon
  <1>9. \A p, q \in Requests : \A v \in Versions : Holds(p, v)' /\ Holds(q, v)' => p = q
    <2>1. \A v \in Versions : \A x \in Requests : Holds(x, v)' => x # r /\ Holds(x, v)
      BY <1>3, <1>4, RelRecords, Zenon DEF Holds
    <2> QED BY <2>1, Zenon
  <1> QED BY <1>6, <1>7, <1>8, <1>9, Zenon

\* A write to a rollout leaves every other pending one late.
LEMMA RolloutStep ==
    ASSUME RelInv, NEW r \in Requests, UpdateRolloutStatus(r)
    PROVE  RelInv'
  <1> DEFINE w == relReq[r].v
  <1> USE DEF RelInv
  <1>1. relReq \in [Requests -> RelRecord]
    BY Zenon DEF RelTypeOK, RelRecord
  <1>2. w \in Versions /\ relReq[r].op \in DOMAIN Targets
    BY Zenon DEF UpdateRolloutStatus, RelRequestInv
  <1>3. \A q \in Requests : relReq[q] \in RelRecord /\ [relReq[q] EXCEPT !.stale = TRUE] \in RelRecord
    BY <1>1, Zenon DEF RelRecord
  <1>4. relReq' \in [Requests -> RelRecord] /\ relReq'[r] = RelIdle
    BY <1>3, RelRecords, Zenon DEF UpdateRolloutStatus
  <1>5. ASSUME NEW q \in Requests \ {r}
        PROVE  /\ relReq'[q].pc = relReq[q].pc /\ relReq'[q].op = relReq[q].op
               /\ relReq'[q].v = relReq[q].v /\ relReq'[q].want = relReq[q].want
               /\ relReq'[q].todo = relReq[q].todo /\ relReq'[q].rows = relReq[q].rows
               /\ relReq[q].stale => relReq'[q].stale
               /\ relReq[q].pc = "write" /\ relReq[q].v = w => relReq'[q].stale
    <2>1. CASE relReq[q].pc = "write" /\ relReq[q].v = w
      <3>1. relReq'[q] = [relReq[q] EXCEPT !.stale = TRUE]
        BY <1>5, <2>1, Zenon DEF UpdateRolloutStatus
      <3> QED BY <1>3, <1>5, <3>1 DEF RelRecord
    <2>2. CASE ~(relReq[q].pc = "write" /\ relReq[q].v = w)
      <3>1. relReq'[q] = relReq[q]
        BY <1>5, <2>2, Zenon DEF UpdateRolloutStatus
      <3> QED BY <2>2, <3>1, Zenon
    <2> QED BY <2>1, <2>2, Zenon
  <1>6. Targets[relReq[r].op] \in Statuses
    BY <1>2 DEF Targets, Statuses
  <1>7. /\ rollout' = [rollout EXCEPT ![w] = Targets[relReq[r].op]]
        /\ UNCHANGED <<versions, binaries, files, named>>
    BY Zenon DEF UpdateRolloutStatus
  <1>8. rollout[w] # "none"
    BY Zenon DEF UpdateRolloutStatus, RelRequestInv
  <1>9. RelTypeOK'
    <2>1. rollout' \in [Versions -> Statuses \cup {"none"}]
      BY <1>6, <1>7, Zenon DEF RelTypeOK
    <2>2. \A v \in Versions : rollout'[v] # "none" => versions'[v] # "none"
      BY <1>2, <1>7, <1>8, Zenon DEF RelTypeOK
    <2> QED BY <1>4, <1>7, <2>1, <2>2, Zenon DEF RelTypeOK, RelRecord
  <1>10. PublishedIsWhole'
    BY <1>7, Zenon DEF PublishedIsWhole
  <1>11. \A q \in Requests : RelRequestInv(q)'
    <2>1. RelRequestInv(r)'
      BY <1>4, RelRecords, Zenon DEF RelRequestInv
    <2>2. ASSUME NEW q \in Requests \ {r} PROVE RelRequestInv(q)'
      <3>1. relReq[q].pc = "write" =>
              /\ rollout'[relReq[q].v] # "none"
              /\ relReq'[q].stale \/ rollout'[relReq[q].v] \in From(relReq[q].op)
        <4>1. CASE relReq[q].v = w
          BY <1>2, <1>5, <1>6, <1>7, <2>2, <4>1, Zenon DEF RelTypeOK, Statuses
        <4>2. CASE relReq[q].v # w
          BY <1>5, <1>7, <2>2, <4>2, Zenon DEF RelTypeOK, RelRequestInv
        <4> QED BY <4>1, <4>2, Zenon
      <3> QED BY <1>5, <1>7, <2>2, <3>1, SMTT(30) DEF RelRequestInv
    <2> QED BY <2>1, <2>2, Zenon
  <1>12. \A p, q \in Requests : \A v \in Versions : Holds(p, v)' /\ Holds(q, v)' => p = q
    <2>1. \A v \in Versions : \A x \in Requests : Holds(x, v)' => Holds(x, v)
      BY <1>4, <1>5, RelRecords, Zenon DEF Holds
    <2> QED BY <2>1, Zenon
  <1> QED BY <1>9, <1>10, <1>11, <1>12, Zenon

\* Yanking a version and creating its rollout concern no request under way.
LEMMA RowStep ==
    ASSUME RelInv, NEW v \in Versions, Yank(v) \/ CreateRollout(v)
    PROVE  RelInv'
  <1> USE DEF RelInv
  <1>1. CASE Yank(v)
    <2>1. \A u \in Versions : versions'[u] = "none" <=> versions[u] = "none"
      BY <1>1, Zenon DEF Yank, RelTypeOK
    <2>2. UNCHANGED <<binaries, rollout, files, relReq, named>>
      BY <1>1, Zenon DEF Yank
    <2>3. RelTypeOK'
      BY <1>1, <2>1, <2>2, Zenon DEF Yank, RelTypeOK
    <2>4. PublishedIsWhole'
      BY <2>1, <2>2, Zenon DEF PublishedIsWhole
    <2>5. \A q \in Requests : RelRequestInv(q)'
      BY <2>1, <2>2, Zenon DEF RelRequestInv
    <2>6. \A p, q \in Requests : \A u \in Versions : Holds(p, u)' /\ Holds(q, u)' => p = q
      BY <2>2, Zenon DEF Holds
    <2> QED BY <2>3, <2>4, <2>5, <2>6, Zenon
  <1>2. CASE CreateRollout(v)
    <2>1. UNCHANGED <<versions, binaries, files, relReq, named>>
      BY <1>2, Zenon DEF CreateRollout
    <2>2. \A u \in Versions : rollout[u] # "none" => rollout'[u] = rollout[u]
      BY <1>2, Zenon DEF CreateRollout, RelTypeOK
    <2>3. RelTypeOK'
      BY <1>2, <2>1, Zenon DEF CreateRollout, RelTypeOK, Statuses
    <2>4. PublishedIsWhole'
      BY <2>1, Zenon DEF PublishedIsWhole
    <2>5. \A q \in Requests : RelRequestInv(q)'
      BY <2>1, <2>2, Zenon DEF RelRequestInv
    <2>6. \A p, q \in Requests : \A u \in Versions : Holds(p, u)' /\ Holds(q, u)' => p = q
      BY <2>1, Zenon DEF Holds
    <2> QED BY <2>3, <2>4, <2>5, <2>6, Zenon
  <1> QED BY <1>1, <1>2, Zenon

\* A request that is answered, or fails, is none.
LEMMA ToIdle ==
    ASSUME RelInv, NEW r \in Requests, Set(r, RelIdle),
           UNCHANGED <<versions, binaries, rollout, files, named>>
    PROVE  RelInv'
  <1>1. relReq'[r] = RelIdle
    BY Zenon DEF Set, RelInv, RelTypeOK
  <1>2. RelRequestInv(r)'
    BY <1>1, RelRecords, Zenon DEF RelRequestInv
  <1> QED BY <1>2, OwnStep, RelRecords, Zenon

\* The statements of a publication before its COMMIT.
LEMMA PublishStep ==
    ASSUME RelInv, NEW r \in Requests, CheckExisting(r) \/ InsertVersion(r) \/ InsertBinary(r)
    PROVE  RelInv'
  <1> DEFINE q == relReq[r]
  <1> USE DEF RelInv
  <1>1. q \in RelRecord
    BY RelRecords, Zenon
  <1>2. relReq \in [Requests -> RelRecord]
    BY Zenon DEF RelTypeOK, RelRecord
  <1>3. UNCHANGED <<versions, binaries, rollout, files, named>>
    BY Zenon DEF CheckExisting, InsertVersion, InsertBinary, Rows
  <1>4. CASE Set(r, RelIdle)
    BY <1>3, <1>4, ToIdle, Zenon
  <1>5. ASSUME CheckExisting(r), ~Set(r, RelIdle) PROVE RelInv'
    <2> DEFINE n == [q EXCEPT !.pc = "insert"]
    <2>1. Set(r, n) /\ n \in RelRecord
      BY <1>1, <1>5, Zenon DEF CheckExisting, RelRecord
    <2>2. relReq'[r] = n
      BY <1>2, <2>1, Zenon DEF Set
    <2>3. n.pc = "insert" /\ n.v = q.v /\ n.want = q.want /\ n.todo = q.todo /\ n.rows = q.rows
      BY <1>1, Zenon DEF RelRecord
    <2>4. RelRequestInv(r)'
      BY <1>5, <2>2, <2>3, Zenon DEF RelRequestInv, CheckExisting
    <2> QED BY <1>3, <2>1, <2>3, <2>4, OwnStep, Zenon
  <1>6. ASSUME InsertVersion(r), ~Set(r, RelIdle) PROVE RelInv'
    <2> DEFINE n == [q EXCEPT !.pc = "binaries"]
    <2>1. Set(r, n) /\ n \in RelRecord /\ versions[q.v] = "none"
      BY <1>1, <1>6, Zenon DEF InsertVersion, RelRecord
    <2>2. relReq'[r] = n
      BY <1>2, <2>1, Zenon DEF Set
    <2>3. n.pc = "binaries" /\ n.v = q.v /\ n.want = q.want /\ n.todo = q.todo /\ n.rows = q.rows
      BY <1>1, Zenon DEF RelRecord
    <2>4. RelRequestInv(r)'
      BY <1>3, <1>6, <2>1, <2>2, <2>3 DEF RelRequestInv, InsertVersion
    <2>5. \A x \in Requests \ {r} : \A v \in Versions : Holds(x, v) => n.v # v
      BY <1>6, <2>3, Zenon DEF InsertVersion
    <2> QED BY <1>3, <2>1, <2>4, <2>5, OwnStep, Zenon
  <1>7. ASSUME InsertBinary(r), ~Set(r, RelIdle) PROVE RelInv'
    <2>1. PICK b \in q.todo : Set(r, [q EXCEPT !.todo = @ \ {b}, !.rows = @ \cup {b},
                                                !.pc = IF q.todo = {b} THEN "commit" ELSE @])
      BY <1>7, Zenon DEF InsertBinary
    <2> DEFINE n == [q EXCEPT !.todo = @ \ {b}, !.rows = @ \cup {b},
                              !.pc = IF q.todo = {b} THEN "commit" ELSE @]
    <2>2. n \in RelRecord
      BY <1>1, Zenon DEF RelRecord
    <2>3. relReq'[r] = n
      BY <1>2, <2>1, <2>2, Zenon DEF Set
    <2>4. /\ n.v = q.v /\ n.want = q.want /\ n.todo = q.todo \ {b} /\ n.rows = q.rows \cup {b}
          /\ n.pc = IF q.todo = {b} THEN "commit" ELSE q.pc
      BY <1>1, Zenon DEF RelRecord
    <2>5. q.pc = "binaries" /\ q.v \in Versions /\ versions[q.v] = "none" /\ q.todo \cup q.rows = q.want
      BY <1>7, Zenon DEF InsertBinary, RelRequestInv
    <2>6. n.todo \cup n.rows = n.want /\ (n.pc = "commit" => n.todo = {})
      BY <2>4, <2>5, Zenon
    <2>7. RelRequestInv(r)'
      BY <1>3, <2>3, <2>4, <2>5, <2>6 DEF RelRequestInv
    <2>8. \A x \in Requests \ {r} : \A v \in Versions : Holds(x, v) => n.v # v
      BY <2>4, <2>5, Zenon DEF Holds
    <2> QED BY <1>3, <2>1, <2>2, <2>7, <2>8, OwnStep, Zenon
  <1> QED BY <1>4, <1>5, <1>6, <1>7, Zenon

\* The first statements of a request.
LEMMA StartStep ==
    ASSUME RelInv, NEW r \in Requests, NEW v \in Versions, NEW bs \in SUBSET Binaries,
           NEW act \in DOMAIN Targets, RelCreate(r, v, bs) \/ ReadRollout(r, v, act)
    PROVE  RelInv'
  <1> USE DEF RelInv
  <1>1. relReq \in [Requests -> RelRecord]
    BY Zenon DEF RelTypeOK, RelRecord
  <1>2. UNCHANGED <<versions, binaries, rollout, files, named>>
    BY Zenon DEF RelCreate, ReadRollout, Rows
  <1>3. CASE RelCreate(r, v, bs)
    <2> DEFINE n == [RelIdle EXCEPT !.pc = "check", !.op = "publish", !.v = v, !.want = bs, !.todo = bs]
    <2>1. Set(r, n)
      BY <1>3, Zenon DEF RelCreate
    <2>2. n \in RelRecord /\ n.pc = "check" /\ n.v = v /\ n.want = bs /\ n.todo = bs /\ n.rows = {}
      BY Zenon DEF RelIdle, RelRecord
    <2>3. relReq'[r] = n
      BY <1>1, <2>1, Zenon DEF Set
    <2>4. RelRequestInv(r)'
      BY <2>2, <2>3, Zenon DEF RelRequestInv
    <2> QED BY <1>2, <2>1, <2>2, <2>4, OwnStep, Zenon
  <1>4. CASE ReadRollout(r, v, act)
    <2> DEFINE n == [RelIdle EXCEPT !.pc = "write", !.op = act, !.v = v]
    <2>1. Set(r, n)
      BY <1>4, Zenon DEF ReadRollout
    <2>2. n \in RelRecord /\ n.pc = "write" /\ n.v = v /\ n.op = act
      BY Zenon DEF RelIdle, RelRecord
    <2>3. relReq'[r] = n
      BY <1>1, <2>1, Zenon DEF Set
    <2>4. rollout[v] \in From(act) /\ rollout[v] # "none"
      BY <1>4, Zenon DEF ReadRollout, From, Targets
    <2>5. RelRequestInv(r)'
      BY <1>2, <2>2, <2>3, <2>4, Zenon DEF RelRequestInv
    <2> QED BY <1>2, <2>1, <2>2, <2>5, OwnStep, Zenon
  <1> QED BY <1>3, <1>4, Zenon

\* Every step of the registry and the rollouts keeps the invariant.
LEMMA RelStep ==
    ASSUME RelInv, [RelNext]_relVars
    PROVE  RelInv'
  <1>1. CASE UNCHANGED relVars
    BY <1>1 DEF RelInv, RelTypeOK, PublishedIsWhole, RelRequestInv, Holds, relVars
  <1>2. ASSUME NEW r \in Requests, RelFail(r) PROVE RelInv'
    BY <1>2, ToIdle, Zenon DEF RelFail, Rows
  <1>3. ASSUME NEW r \in Requests, NEW v \in Versions, NEW bs \in SUBSET Binaries, RelCreate(r, v, bs)
        PROVE  RelInv'
    <2>1. "pause" \in DOMAIN Targets
      BY RelRecords, Zenon
    <2> QED BY <1>3, <2>1, StartStep, Zenon
  <1>4. ASSUME NEW r \in Requests, NEW v \in Versions, NEW act \in DOMAIN Targets, ReadRollout(r, v, act)
        PROVE  RelInv'
    <2>1. {} \in SUBSET Binaries
      BY Zenon
    <2> QED BY <1>4, <2>1, StartStep, Zenon
  <1> QED BY <1>1, <1>2, <1>3, <1>4, PublishStep, CommitStep, RolloutStep, RowStep, Zenon DEF RelNext

\* The inductive invariant of the registry of versions and its rollouts, kept
\* by the handlers of agent_versions.go and rollouts.go.
THEOREM ReleasesInvariant == RelSpec => []RelInv
  <1>1. RelInit => RelInv
    <2> SUFFICES ASSUME RelInit PROVE RelInv
      BY Zenon
    <2>1. relReq \in [Requests -> RelRecord] /\ \A r \in Requests : relReq[r].pc = "idle"
      BY RelRecords, Zenon DEF RelInit
    <2>2. RelTypeOK
      BY <2>1, Zenon DEF RelInit, RelTypeOK, RelRecord
    <2> QED BY <2>1, <2>2, Zenon DEF RelInit, RelInv, PublishedIsWhole, RelRequestInv, Holds
  <1>2. RelInv /\ [RelNext]_relVars => RelInv'
    BY RelStep, Zenon
  <1> QED BY <1>1, <1>2, PTL DEF RelSpec

\* A published version changes by being yanked only, and keeps its binaries.
LEMMA PublishedStays ==
    ASSUME RelInv, [RelNext]_relVars, NEW v \in Versions, versions[v] # "none"
    PROVE  /\ versions'[v] = versions[v] \/ versions'[v] = "yanked"
           /\ \A b \in Binaries : <<v, b>> \in binaries' <=> <<v, b>> \in binaries
  <1>1. CASE UNCHANGED <<versions, binaries>>
    BY <1>1, Zenon
  <1>2. ASSUME NEW r \in Requests, RelCommit(r)
        PROVE  /\ versions'[v] = versions[v] \/ versions'[v] = "yanked"
               /\ \A b \in Binaries : <<v, b>> \in binaries' <=> <<v, b>> \in binaries
    <2>1. relReq[r].v # v
      BY <1>2, Zenon DEF RelInv, RelRequestInv, RelCommit
    <2> QED BY <1>2, <2>1, Zenon DEF RelCommit, RelInv, RelTypeOK
  <1>3. ASSUME NEW u \in Versions, Yank(u)
        PROVE  /\ versions'[v] = versions[v] \/ versions'[v] = "yanked"
               /\ \A b \in Binaries : <<v, b>> \in binaries' <=> <<v, b>> \in binaries
    BY <1>3, Zenon DEF Yank, RelInv, RelTypeOK
  <1> QED BY <1>1, <1>2, <1>3, Zenon DEF RelNext, relVars, Rows, RelFail, RelCreate, ReadRollout, CheckExisting,
             InsertVersion, InsertBinary, UpdateRolloutStatus, CreateRollout

\* A rollout moves as the operation's check of its status allows, or the request
\* that moves it was overtaken by another one.
LEMMA RolloutMoves ==
    ASSUME RelInv, [RelNext]_relVars, NEW v \in Versions, rollout[v] \notin {"none", rollout'[v]}
    PROVE  \E act \in {"pause", "resume", "abort"} :
             /\ rollout'[v] = Targets[act]
             /\ \/ rollout[v] \in [pause |-> {"in_progress"}, resume |-> {"paused"},
                                   abort |-> {"in_progress", "paused"}][act]
                \/ \E r \in Requests : relReq[r].v = v /\ relReq[r].stale
  <1>1. CASE UNCHANGED rollout
    BY <1>1, Zenon
  <1>2. ASSUME NEW u \in Versions, CreateRollout(u) PROVE FALSE
    BY <1>2, Zenon DEF CreateRollout, RelInv, RelTypeOK
  <1>3. ASSUME NEW r \in Requests, UpdateRolloutStatus(r)
        PROVE  \E act \in {"pause", "resume", "abort"} :
                 /\ rollout'[v] = Targets[act]
                 /\ \/ rollout[v] \in [pause |-> {"in_progress"}, resume |-> {"paused"},
                                       abort |-> {"in_progress", "paused"}][act]
                    \/ \E q \in Requests : relReq[q].v = v /\ relReq[q].stale
    <2> DEFINE o == relReq[r].op
    <2>1. relReq[r].v = v /\ rollout'[v] = Targets[o]
      BY <1>3, Zenon DEF UpdateRolloutStatus, RelInv, RelTypeOK
    <2>2. o \in {"pause", "resume", "abort"} /\ (relReq[r].stale \/ rollout[v] \in From(o))
      BY <1>3, <2>1, RelRecords, Zenon DEF UpdateRolloutStatus, RelInv, RelRequestInv
    <2>3. From(o) = [pause |-> {"in_progress"}, resume |-> {"paused"},
                     abort |-> {"in_progress", "paused"}][o]
      BY <2>2 DEF From
    <2> QED BY <2>1, <2>2, <2>3, Zenon
  <1> QED BY <1>1, <1>2, <1>3, Zenon DEF RelNext, relVars, Rows, RelFail, RelCreate, ReadRollout, CheckExisting,
             InsertVersion, InsertBinary, RelCommit, Yank

\* A version is published once and with all its binaries, and a rollout moves as
\* updateRolloutStatus allows unless requests raced, for any versions, binaries
\* and requests.
THEOREM ReleasesHold == RelSpec => ReleasesSound
  <1>1. RelInv => PublishedIsWhole
    BY Zenon DEF RelInv
  <1>2. RelInv /\ [RelNext]_relVars =>
          [\A v \in Versions : versions[v] # "none" =>
             /\ versions'[v] = versions[v] \/ versions'[v] = "yanked"
             /\ \A b \in Binaries : <<v, b>> \in binaries' <=> <<v, b>> \in binaries]_relVars
    BY PublishedStays, Zenon
  <1>3. RelInv /\ [RelNext]_relVars =>
          [\A v \in Versions : rollout[v] \notin {"none", rollout'[v]} =>
             \E act \in {"pause", "resume", "abort"} :
               /\ rollout'[v] = Targets[act]
               /\ \/ rollout[v] \in [pause |-> {"in_progress"}, resume |-> {"paused"},
                                     abort |-> {"in_progress", "paused"}][act]
                  \/ \E r \in Requests : relReq[r].v = v /\ relReq[r].stale]_relVars
    BY RolloutMoves, Zenon
  <1> QED BY <1>1, <1>2, <1>3, ReleasesInvariant, PTL
          DEF RelSpec, ReleasesSound, PublishedOnce, LegalUnlessRaced

-----------------------------------------------------------------------------
(* Update policies *)

\* A group has one policy; and a group whose policy was there all along a
\* search is still to be asked for.
PolicyInv ==
    /\ PolicyTypeOK /\ OnePerGroup
    /\ held \subseteq search.todo /\ \A g \in held : Of(g) # {}

\* A write keeps the invariant if rows keep their types and groups one policy.
LEMMA PutStep ==
    ASSUME PolicyInv, NEW ps \in SUBSET Policy, Put(ps),
           \A p \in ps : p.group \in policyGroups \cup {Null},
           \A p, q \in ps : p.group = q.group /\ p.group \in PolicyGroups => p = q
    PROVE  PolicyInv'
  <1> USE DEF PolicyInv
  <1>1. PolicyTypeOK'
    BY Zenon DEF PolicyTypeOK, Put
  <1>2. OnePerGroup'
    BY DEF OnePerGroup, Of, Put
  <1>3. (held \subseteq search.todo)' /\ \A g \in held' : Of(g)' # {}
    BY Zenon DEF Put, Of
  <1> QED BY <1>1, <1>2, <1>3, Zenon

\* Upsert inserts where there is no row to conflict with and updates the one
\* there is; and a deletion takes a row away.
LEMMA WriteStep ==
    ASSUME PolicyInv,
           \/ \E g \in Owners, v \in Values : UpsertUpdatePolicy(g, v)
           \/ \E p \in policies : DeleteUpdatePolicy(p)
    PROVE  PolicyInv'
  <1> USE DEF PolicyInv
  <1>1. \A p, q \in policies : p.group = q.group /\ p.group \in PolicyGroups => p = q
    BY Zenon DEF OnePerGroup, Of
  <1>2. policies \subseteq Policy /\ \A p \in policies : p.group \in policyGroups \cup {Null}
    BY Zenon DEF PolicyTypeOK
  <1>3. ASSUME NEW p \in policies, DeleteUpdatePolicy(p) PROVE PolicyInv'
    <2>1. policies \ {p} \in SUBSET Policy /\ Put(policies \ {p})
      BY <1>2, <1>3, Zenon DEF DeleteUpdatePolicy
    <2> QED BY <1>1, <1>2, <2>1, PutStep, Zenon
  <1>4. ASSUME NEW g \in Owners, NEW v \in Values, UpsertUpdatePolicy(g, v) PROVE PolicyInv'
    <2>1. g \in policyGroups \cup {Null} /\ policyGroups \subseteq PolicyGroups
      BY <1>4, Zenon DEF UpsertUpdatePolicy, PolicyTypeOK
    <2>2. ASSUME NEW id \in Ids, Conflict(g) = {},
                 Put(policies \cup {[id |-> id, group |-> g, value |-> v]})
          PROVE  PolicyInv'
      <3> DEFINE new == [id |-> id, group |-> g, value |-> v]
      <3>1. new \in Policy /\ new.group = g
        BY Zenon DEF Policy
      <3>2. g \in PolicyGroups => \A p \in policies : p.group # g
        BY <2>2, UpdatePoliciesAssumption, Zenon DEF Conflict, Of
      <3>3. \A p, q \in policies \cup {new} : p.group = q.group /\ p.group \in PolicyGroups => p = q
        BY <1>1, <3>1, <3>2, Zenon
      <3>4. \A p \in policies \cup {new} : p.group \in policyGroups \cup {Null}
        BY <1>2, <2>1, <3>1, Zenon
      <3>5. policies \cup {new} \in SUBSET Policy
        BY <1>2, <3>1, Zenon
      <3> QED BY <2>2, <3>3, <3>4, <3>5, PutStep, Zenon
    <2>3. ASSUME NEW p \in Conflict(g), Put((policies \ {p}) \cup {[p EXCEPT !.value = v]})
          PROVE  PolicyInv'
      <3> DEFINE new == [p EXCEPT !.value = v]
      <3>1. p \in policies /\ p.group = g /\ g # Null
        BY <2>3, Zenon DEF Conflict, Of
      <3>2. new \in Policy /\ new.group = g
        BY <1>2, <3>1, Zenon DEF Policy
      <3>3. \A x, y \in (policies \ {p}) \cup {new} : x.group = y.group /\ x.group \in PolicyGroups => x = y
        BY <1>1, <3>1, <3>2, Zenon
      <3>4. \A x \in (policies \ {p}) \cup {new} : x.group \in policyGroups \cup {Null}
        BY <1>2, <2>1, <3>2, Zenon
      <3>5. (policies \ {p}) \cup {new} \in SUBSET Policy
        BY <1>2, <3>2, Zenon
      <3> QED BY <2>3, <3>3, <3>4, <3>5, PutStep, Zenon
    <2> QED BY <1>4, <2>2, <2>3, Zenon DEF UpsertUpdatePolicy
  <1> QED BY <1>3, <1>4, Zenon

\* Every step keeps the invariant.
LEMMA PolicyStep ==
    ASSUME PolicyInv, [PolicyNext]_policyVars
    PROVE  PolicyInv'
  <1> USE DEF PolicyInv
  <1>1. CASE UNCHANGED policyVars
    BY <1>1, Zenon DEF policyVars, PolicyTypeOK, OnePerGroup, Of
  <1>2. ASSUME NEW g \in PolicyGroups, PolicyDeleteGroup(g) \/ CreateGroup(g) PROVE PolicyInv'
    <2>1. UNCHANGED <<policies, search, held>> /\ policyGroups' \subseteq PolicyGroups
      BY <1>2, Zenon DEF PolicyDeleteGroup, CreateGroup, PolicyTypeOK
    <2>2. \A p \in policies : p.group \in policyGroups' \cup {Null}
      BY <1>2, Zenon DEF PolicyDeleteGroup, CreateGroup, PolicyTypeOK, Of
    <2> QED BY <2>1, <2>2, Zenon DEF PolicyTypeOK, OnePerGroup, Of
  <1>3. ASSUME NEW gs \in SUBSET PolicyGroups, GetEffectiveUpdatePolicy(gs) PROVE PolicyInv'
    BY <1>3, Zenon DEF GetEffectiveUpdatePolicy, PolicyTypeOK, OnePerGroup, Of
  <1>4. ASSUME NEW g \in Owners, GetUpdatePolicy(g) PROVE PolicyInv'
    <2>1. CASE Of(g) # {} \/ g = Null
      <3>1. search' = PolicyIdle /\ held' = {} /\ UNCHANGED <<policies, policyGroups>>
        BY <1>4, <2>1, Zenon DEF GetUpdatePolicy
      <3> QED BY <3>1, Zenon DEF PolicyIdle, PolicyTypeOK, OnePerGroup, Of
    <2>2. CASE ~(Of(g) # {} \/ g = Null)
      <3>1. search'.todo = search.todo \ {g} /\ search' \in [on : BOOLEAN, todo : SUBSET PolicyGroups]
        BY <1>4, <2>2, Zenon DEF GetUpdatePolicy, PolicyTypeOK
      <3>2. UNCHANGED <<held, policies, policyGroups>> /\ g \notin held
        BY <1>4, <2>2, Zenon DEF GetUpdatePolicy
      <3> QED BY <3>1, <3>2 DEF PolicyTypeOK, OnePerGroup, Of
    <2> QED BY <2>1, <2>2, Zenon
  <1> QED BY <1>1, <1>2, <1>3, <1>4, WriteStep, Zenon DEF PolicyNext

\* The inductive invariant of the update policies and the search among them.
THEOREM PoliciesInvariant == PolicySpec => []PolicyInv
  <1>1. PolicyInit => PolicyInv
    BY DEF PolicyInit, PolicyInv, PolicyTypeOK, OnePerGroup, Of, PolicyIdle
  <1>2. PolicyInv /\ [PolicyNext]_policyVars => PolicyInv'
    BY PolicyStep, Zenon
  <1> QED BY <1>1, <1>2, PTL DEF PolicySpec

\* A group has one policy, and GetEffectiveUpdatePolicy falls back to the
\* tenant's default only if no group of the device had one all along, for any
\* groups and policies.
THEOREM PoliciesHold == PolicySpec => PoliciesSound
  <1>1. PolicyInv => OnePerGroup
    BY Zenon DEF PolicyInv
  <1>2. PolicyInv /\ [PolicyNext]_policyVars =>
          [\A g \in Owners : GetUpdatePolicy(g) /\ g = Null => held = {}]_policyVars
    BY UpdatePoliciesAssumption, Zenon DEF PolicyInv, PolicyTypeOK, GetUpdatePolicy, Askable
  <1> QED BY <1>1, <1>2, PoliciesInvariant, PTL DEF PolicySpec, PoliciesSound, GroupsTakePrecedence

-----------------------------------------------------------------------------
(* Installers *)

FileRecord == [state : {"none", "pending", "stored"}, key : Keys \cup {"none"}]

\* What a script holds: the row of its version at every later step, and what has
\* arrived once it has been downloaded.
ScriptInv(m) ==
  LET s == run[m] IN
  /\ s.pc \in {"script", "checksum", "signature", "verify", "run", "installed"} =>
       s.v \in InsVersions /\ installers[s.v] # NoRow /\ s.expected = installers[s.v].sha256
  /\ s.pc \in {"checksum", "signature", "verify", "run", "installed"} =>
       s.got \in {installers[s.v].file, Garbled}
  /\ s.pc \in {"run", "installed"} => s.got = s.expected

\* Rows refer to files and keys that are there.
RegistryInv ==
  /\ insFiles \in [InsFiles -> FileRecord]
  /\ installers \in [InsVersions -> Row \cup {NoRow}]
  /\ released \in Seq(InsVersions)
  /\ \A i \in 1..Len(released) : installers[released[i]] # NoRow
  /\ DOMAIN insReq = InsRequests /\ DOMAIN run = Machines
  /\ \A r \in InsRequests : insReq[r].pc = "insert" => insReq[r].v \in InsVersions /\ insReq[r].row \in Row
  /\ \A v \in InsVersions : installers[v] # NoRow => insFiles[installers[v].file] # NoFile
  /\ KeysStay

InsInv == RegistryInv /\ \A m \in Machines : ScriptInv(m)

\* Rows that are there stay as they are: the INSERT takes a version without one.
LEMMA RowsStay ==
  ASSUME RegistryInv, [InsNext]_insVars, NEW v \in InsVersions, installers[v] # NoRow
  PROVE  installers'[v] = installers[v]
  <1>1. ASSUME NEW r \in InsRequests, Insert(r) PROVE installers'[v] = installers[v]
    <2>1. CASE installers[insReq[r].v] # NoRow \/ ~Refers(insReq[r].row)
      BY <1>1, <2>1, Zenon DEF Insert
    <2>2. CASE ~(installers[insReq[r].v] # NoRow \/ ~Refers(insReq[r].row))
      <3>1. installers' = [installers EXCEPT ![insReq[r].v] = insReq[r].row] /\ v # insReq[r].v
        BY <1>1, <2>2 DEF Insert
      <3> QED BY <3>1, Zenon DEF RegistryInv
    <2> QED BY <2>1, <2>2, Zenon
  <1>2. (\E r \in InsRequests : Insert(r)) \/ UNCHANGED installers
    BY Zenon DEF InsNext, insVars, InitUpload, CompleteUpload, DeleteFile, CreateKey, CountFiles, DeleteKey,
       InsCreate, TokenEnds, DownloadLatest, ServeInstallScript, Abort, InsDownload, Checksum, Signature,
       InsVerify, InsInstall, Again, Step
  <1> QED BY <1>1, <1>2, Zenon

\* The references of files and of installers, one by one.
LEMMA KeysOneByOne ==
  /\ KeysStay <=> /\ \A f \in InsFiles : insFiles[f].key \in Keys => insFiles[f].key \in keys
                  /\ \A v \in InsVersions : installers[v].key \in Keys => installers[v].key \in keys
  /\ KeysStay' <=> /\ \A f \in InsFiles : insFiles'[f].key \in Keys => insFiles'[f].key \in keys'
                   /\ \A v \in InsVersions : installers'[v].key \in Keys => installers'[v].key \in keys'
  BY Zenon DEF KeysStay, References

\* The handlers of files, keys and installers keep the registry, whatever other
\* requests do between their statements.
LEMMA RegistryStep ==
  ASSUME RegistryInv, [InsNext]_insVars
  PROVE  RegistryInv'
  <1>0. /\ insFiles \in [InsFiles -> FileRecord] /\ installers \in [InsVersions -> Row \cup {NoRow}]
        /\ released \in Seq(InsVersions) /\ DOMAIN insReq = InsRequests /\ DOMAIN run = Machines
    BY Zenon DEF RegistryInv
  <1>1. ASSUME NEW f \in InsFiles, NEW rec \in FileRecord, insFiles' = [insFiles EXCEPT ![f] = rec],
               rec.key \in keys \cup {"none"} \/ rec.key = insFiles[f].key,
               rec # NoFile \/ \A v \in InsVersions : installers[v].file # f,
               UNCHANGED <<keys, installers, released, insReq, run>>
        PROVE  RegistryInv'
    <2>1. insFiles' \in [InsFiles -> FileRecord] /\ insFiles'[f] = rec
          /\ \A g \in InsFiles \ {f} : insFiles'[g] = insFiles[g]
      BY <1>0, <1>1, Zenon
    <2>2. ASSUME NEW v \in InsVersions, installers'[v] # NoRow PROVE insFiles'[installers'[v].file] # NoFile
      <3>1. installers[v] \in Row /\ installers[v].file \in InsFiles /\ insFiles[installers[v].file] # NoFile
        BY <1>0, <1>1, <2>2, Zenon DEF RegistryInv, Row
      <3> QED BY <1>1, <2>1, <3>1, Zenon
    <2>3. KeysStay'
      <3>1. "none" \notin Keys
        BY InstallersAssumption, Zenon
      <3> QED BY <1>1, <2>1, <3>1, KeysOneByOne, Zenon DEF RegistryInv
    <2> QED BY <1>1, <2>1, <2>2, <2>3, Zenon DEF RegistryInv
  <1>2. ASSUME NEW f \in InsFiles, NEW k \in Keys \cup {"none"}, InitUpload(f, k) PROVE RegistryInv'
    <2>1. [state |-> "pending", key |-> k] \in FileRecord /\ [state |-> "pending", key |-> k] # NoFile
          /\ [state |-> "pending", key |-> k].key = k
      BY <1>2, Zenon DEF FileRecord, NoFile
    <2> QED BY <1>1, <1>2, <2>1, Zenon DEF InitUpload
  <1>3. ASSUME NEW f \in InsFiles, CompleteUpload(f) PROVE RegistryInv'
    <2> DEFINE rec == [insFiles[f] EXCEPT !.state = "stored"]
    <2>1. rec \in FileRecord /\ rec # NoFile /\ rec.key = insFiles[f].key
      BY <1>0, Zenon DEF FileRecord, NoFile
    <2>2. insFiles' = [insFiles EXCEPT ![f] = rec] /\ UNCHANGED <<keys, installers, released, insReq, run>>
      BY <1>3, Zenon DEF CompleteUpload
    <2> QED BY <1>1, <2>1, <2>2, Zenon
  <1>4. ASSUME NEW f \in InsFiles, DeleteFile(f) PROVE RegistryInv'
    <2>1. NoFile \in FileRecord /\ NoFile.key = "none"
      BY Zenon DEF NoFile, FileRecord
    <2> QED BY <1>1, <1>4, <2>1, Zenon DEF DeleteFile
  <1>5. ASSUME NEW k \in Keys, CreateKey(k) PROVE RegistryInv'
    <2>1. KeysStay'
      BY <1>5, Zenon DEF CreateKey, RegistryInv, KeysStay, References
    <2> QED BY <1>5, <2>1, Zenon DEF CreateKey, RegistryInv
  <1>6. ASSUME NEW r \in InsRequests, NEW q, insReq' = [insReq EXCEPT ![r] = q],
               q.pc = "insert" => q.v \in InsVersions /\ q.row \in Row
        PROVE  /\ DOMAIN insReq' = InsRequests
               /\ \A p \in InsRequests : insReq'[p].pc = "insert" => insReq'[p].v \in InsVersions /\ insReq'[p].row \in Row
    <2>1. DOMAIN insReq' = InsRequests /\ insReq'[r] = q /\ \A p \in InsRequests \ {r} : insReq'[p] = insReq[p]
      BY <1>0, <1>6, Zenon
    <2> QED BY <1>6, <2>1, Zenon DEF RegistryInv
  <1>7. InsIdle.pc = "idle"
    BY Zenon DEF InsIdle
  <1>8. ASSUME NEW r \in InsRequests, NEW k \in Keys, CountFiles(r, k) PROVE RegistryInv'
    <2>1. [InsIdle EXCEPT !.pc = "delete", !.key = k].pc = "delete"
      BY Zenon DEF InsIdle
    <2>2. UNCHANGED <<keys, insFiles, installers, released, run>>
          /\ insReq' = [insReq EXCEPT ![r] = [InsIdle EXCEPT !.pc = "delete", !.key = k]]
      BY <1>8, Zenon DEF CountFiles
    <2>3. /\ DOMAIN insReq' = InsRequests
          /\ \A p \in InsRequests : insReq'[p].pc = "insert" => insReq'[p].v \in InsVersions /\ insReq'[p].row \in Row
      BY <1>6, <2>1, <2>2, Zenon
    <2> QED BY <2>2, <2>3, Zenon DEF RegistryInv, KeysStay, References
  <1>9. ASSUME NEW r \in InsRequests, NEW v \in InsVersions, NEW row \in Row, InsCreate(r, v, row) PROVE RegistryInv'
    <2> DEFINE q == [InsIdle EXCEPT !.pc = "insert", !.v = v, !.row = row]
    <2>1. q.v = v /\ q.row = row
      BY Zenon DEF InsIdle
    <2>2. UNCHANGED <<keys, insFiles, installers, released, run>> /\ insReq' = [insReq EXCEPT ![r] = q]
      BY <1>9, Zenon DEF InsCreate
    <2> HIDE DEF q
    <2>3. /\ DOMAIN insReq' = InsRequests
          /\ \A p \in InsRequests : insReq'[p].pc = "insert" => insReq'[p].v \in InsVersions /\ insReq'[p].row \in Row
      BY <1>6, <2>1, <2>2, Zenon
    <2> QED BY <2>2, <2>3, Zenon DEF RegistryInv, KeysStay, References
  <1>10. ASSUME NEW r \in InsRequests, DeleteKey(r) PROVE RegistryInv'
    <2>1. /\ DOMAIN insReq' = InsRequests
          /\ \A p \in InsRequests : insReq'[p].pc = "insert" => insReq'[p].v \in InsVersions /\ insReq'[p].row \in Row
      BY <1>6, <1>7, <1>10, Zenon DEF DeleteKey
    <2>2. UNCHANGED <<insFiles, installers, released, run>>
      BY <1>10, Zenon DEF DeleteKey
    <2>3. KeysStay'
      <3> SUFFICES ASSUME NEW k \in Keys, References(k)' PROVE k \in keys'
        BY Zenon DEF KeysStay
      <3>1. References(k) /\ k \in keys
        BY <2>2, Zenon DEF RegistryInv, KeysStay, References
      <3>2. CASE References(insReq[r].key)
        BY <1>10, <3>1, <3>2 DEF DeleteKey
      <3>3. CASE ~References(insReq[r].key)
        <4>1. k # insReq[r].key /\ keys' = keys \ {insReq[r].key}
          BY <1>10, <3>1, <3>3 DEF DeleteKey
        <4> QED BY <3>1, <4>1
      <3> QED BY <3>2, <3>3, Zenon
    <2> QED BY <2>1, <2>2, <2>3, Zenon DEF RegistryInv
  <1>11. ASSUME NEW r \in InsRequests, Insert(r) PROVE RegistryInv'
    <2>1. /\ DOMAIN insReq' = InsRequests
          /\ \A p \in InsRequests : insReq'[p].pc = "insert" => insReq'[p].v \in InsVersions /\ insReq'[p].row \in Row
      BY <1>6, <1>7, <1>11, Zenon DEF Insert
    <2>2. UNCHANGED <<keys, insFiles, run>> /\ insReq[r].v \in InsVersions /\ insReq[r].row \in Row
      BY <1>11, Zenon DEF Insert, RegistryInv
    <2>3. CASE installers[insReq[r].v] # NoRow \/ ~Refers(insReq[r].row)
      <3>1. UNCHANGED <<installers, released>>
        BY <1>11, <2>3 DEF Insert
      <3> QED BY <2>1, <2>2, <3>1, Zenon DEF RegistryInv, KeysStay, References
    <2>4. CASE ~(installers[insReq[r].v] # NoRow \/ ~Refers(insReq[r].row))
      <3>1. /\ installers' = [installers EXCEPT ![insReq[r].v] = insReq[r].row]
            /\ released' = Append(released, insReq[r].v)
            /\ insReq[r].row.key \in keys /\ insFiles[insReq[r].row.file] # NoFile
        BY <1>11, <2>4 DEF Insert, Refers
      <3>2. installers' \in [InsVersions -> Row \cup {NoRow}] /\ installers'[insReq[r].v] = insReq[r].row
            /\ \A v \in InsVersions \ {insReq[r].v} : installers'[v] = installers[v]
        BY <1>0, <2>2, <3>1
      <3>3. insReq[r].row # NoRow
        BY <2>2, InstallersAssumption DEF Row, NoRow
      <3>4. released' \in Seq(InsVersions)
            /\ \A i \in 1..Len(released') : released'[i] = insReq[r].v \/ (i \in 1..Len(released) /\ released'[i] = released[i])
        BY <1>0, <2>2, <3>1
      <3>5. \A i \in 1..Len(released) : released[i] \in InsVersions
        BY <1>0
      <3>6. \A i \in 1..Len(released') : installers'[released'[i]] # NoRow
        BY <2>2, <3>2, <3>3, <3>4, <3>5, Zenon DEF RegistryInv
      <3>7. \A v \in InsVersions : installers'[v] # NoRow => insFiles'[installers'[v].file] # NoFile
        BY <2>2, <3>1, <3>2, Zenon DEF RegistryInv
      <3>8. KeysStay'
        BY <2>2, <3>1, <3>2, KeysOneByOne, Zenon DEF RegistryInv
      <3> QED BY <2>1, <2>2, <3>2, <3>4, <3>6, <3>7, <3>8, Zenon DEF RegistryInv
    <2> QED BY <2>3, <2>4, Zenon
  <1>12. CASE UNCHANGED <<keys, insFiles, installers, released, insReq>> /\ DOMAIN run' = Machines
    BY <1>12, Zenon DEF RegistryInv, KeysStay, References
  <1>13. CASE TokenEnds \/ DownloadLatest \/ UNCHANGED insVars
    BY <1>0, <1>12, <1>13, Zenon DEF TokenEnds, DownloadLatest, insVars
  <1>14. ASSUME NEW m \in Machines, NEW from, NEW rec, Step(m, from, rec) PROVE RegistryInv'
    <2>1. DOMAIN run' = Machines
      BY <1>0, <1>14 DEF Step
    <2> QED BY <1>12, <1>14, <2>1, Zenon DEF Step
  <1>15. ASSUME NEW m \in Machines,
                \/ ServeInstallScript(m) \/ Abort(m) \/ InsDownload(m) \/ Checksum(m)
                \/ Signature(m) \/ InsVerify(m) \/ InsInstall(m) \/ Again(m)
         PROVE  RegistryInv'
    BY <1>14, <1>15, Zenon DEF ServeInstallScript, Abort, InsDownload, Checksum, Signature, InsVerify,
       InsInstall, Again
  <1> QED
    BY <1>2, <1>3, <1>4, <1>5, <1>8, <1>9, <1>10, <1>11, <1>13, <1>15, Zenon DEF InsNext

\* A machine's script goes on with the row it was made for.
LEMMA ScriptStep ==
  ASSUME InsInv, [InsNext]_insVars, NEW m \in Machines
  PROVE  ScriptInv(m)'
  <1>0. ScriptInv(m) /\ RegistryInv /\ DOMAIN run = Machines
    BY Zenon DEF InsInv, RegistryInv
  <1>1. CASE run'[m] = run[m]
    BY <1>0, <1>1, RowsStay, Zenon DEF ScriptInv
  <1>2. ASSUME NEW from, NEW rec, Step(m, from, rec)
        PROVE  UNCHANGED installers /\ run'[m] = rec /\ run[m].pc = from
    BY <1>0, <1>2, Zenon DEF Step
  <1>3. ASSUME NEW n \in Machines \ {m}, NEW from, NEW rec, Step(n, from, rec) PROVE ScriptInv(m)'
    <2>1. run'[m] = run[m]
      BY <1>0, <1>3 DEF Step
    <2> QED BY <1>1, <2>1
  <1>4. CASE ServeInstallScript(m)
    <2> DEFINE v == latestInstaller
               rec == [Fresh EXCEPT !.pc = "script", !.v = v, !.expected = installers[v].sha256]
    <2>1. released # <<>> /\ Step(m, "idle", rec)
      BY <1>4, Zenon DEF ServeInstallScript
    <2>2. UNCHANGED installers /\ run'[m] = rec
      BY <1>2, <2>1
    <2>3. rec.pc = "script" /\ rec.v = v /\ rec.expected = installers[v].sha256
      BY Zenon DEF Fresh
    <2>4. v \in InsVersions /\ installers[v] # NoRow
      <3>1. Len(released) \in 1..Len(released) /\ released[Len(released)] \in InsVersions
        BY <1>0, <2>1 DEF RegistryInv
      <3> QED BY <1>0, <3>1, Zenon DEF RegistryInv, latestInstaller
    <2> HIDE DEF rec, v
    <2> QED BY <2>2, <2>3, <2>4 DEF ScriptInv
  <1>5. CASE Abort(m) \/ Again(m)
    <2>1. run'[m].pc \in {"failed", "idle"}
      BY <1>2, <1>5 DEF Abort, Again, Fresh
    <2> QED BY <2>1, Zenon DEF ScriptInv
  <1>6. CASE InsDownload(m)
    <2>1. PICK c \in serveFile(lookupInstaller(run[m].v).file) :
            Step(m, "script", [run[m] EXCEPT !.pc = "checksum", !.got = c])
      BY <1>6, Zenon DEF InsDownload
    <2>2. c \in {installers[run[m].v].file, Garbled}
      BY <2>1, Zenon DEF serveFile, lookupInstaller
    <2>3. UNCHANGED installers /\ run'[m] = [run[m] EXCEPT !.pc = "checksum", !.got = c] /\ run[m].pc = "script"
      BY <1>2, <2>1, Zenon
    <2>4. run'[m].pc = "checksum" => run'[m].v = run[m].v /\ run'[m].expected = run[m].expected
      BY <2>3
    <2> QED BY <1>0, <2>2, <2>3, <2>4 DEF ScriptInv
  <1>7. CASE Checksum(m) \/ Signature(m) \/ InsInstall(m)
    <2>1. PICK p \in {"signature", "verify", "installed"} :
            /\ UNCHANGED installers /\ run'[m] = [run[m] EXCEPT !.pc = p]
            /\ run[m].pc \in {"checksum", "signature", "run"} /\ (p = "installed" => run[m].pc = "run")
      BY <1>2, <1>7, Zenon DEF Checksum, Signature, InsInstall
    <2>2. run'[m].v = run[m].v /\ run'[m].expected = run[m].expected /\ run'[m].got = run[m].got
          /\ run'[m].pc \in {p, run[m].pc}
      BY <2>1
    <2> QED BY <1>0, <2>1, <2>2, Zenon DEF ScriptInv
  <1>8. CASE InsVerify(m)
    <2>1. CASE run[m].got = run[m].expected
      <3>1. UNCHANGED installers /\ run'[m] = [run[m] EXCEPT !.pc = "run"] /\ run[m].pc = "verify"
        BY <1>2, <1>8, <2>1, Zenon DEF InsVerify
      <3>2. run'[m].v = run[m].v /\ run'[m].expected = run[m].expected /\ run'[m].got = run[m].got
        BY <3>1
      <3> QED BY <1>0, <2>1, <3>1, <3>2, Zenon DEF ScriptInv
    <2>2. CASE run[m].got # run[m].expected
      BY <1>0, <1>2, <1>8, <2>2 DEF InsVerify, ScriptInv, Fresh
    <2> QED BY <2>1, <2>2, Zenon
  <1>9. ASSUME NEW n \in Machines \ {m},
               \/ ServeInstallScript(n) \/ Abort(n) \/ InsDownload(n) \/ Checksum(n)
               \/ Signature(n) \/ InsVerify(n) \/ InsInstall(n) \/ Again(n)
        PROVE  ScriptInv(m)'
    BY <1>3, <1>9, Zenon DEF ServeInstallScript, Abort, InsDownload, Checksum, Signature, InsVerify,
       InsInstall, Again
  <1>10. CASE UNCHANGED run
    BY <1>1, <1>10
  <1>11. \/ UNCHANGED run
         \/ \E n \in Machines : \/ ServeInstallScript(n) \/ Abort(n) \/ InsDownload(n) \/ Checksum(n)
                                \/ Signature(n) \/ InsVerify(n) \/ InsInstall(n) \/ Again(n)
    BY Zenon DEF InsNext, insVars, InitUpload, CompleteUpload, DeleteFile, CreateKey, CountFiles, DeleteKey,
       Insert, InsCreate, TokenEnds, DownloadLatest
  <1> QED BY <1>4, <1>5, <1>6, <1>7, <1>8, <1>9, <1>10, <1>11, Zenon

\* The inductive invariant of the installers, for any files, keys, versions,
\* requests and machines.
THEOREM InstallersInvariant == InsSpec => []InsInv
  <1>1. InsInit => InsInv
    <2> SUFFICES ASSUME InsInit PROVE InsInv
      BY Zenon
    <2>1. NoFile \in FileRecord /\ NoFile.key = "none" /\ NoRow.key = "none" /\ InsIdle.pc = "idle"
          /\ Fresh.pc = "idle"
      BY Zenon DEF NoFile, FileRecord, NoRow, InsIdle, Fresh
    <2>2. /\ insFiles \in [InsFiles -> FileRecord] /\ installers \in [InsVersions -> Row \cup {NoRow}]
          /\ \A v \in InsVersions : installers[v] = NoRow
          /\ DOMAIN insReq = InsRequests /\ DOMAIN run = Machines
          /\ \A r \in InsRequests : insReq[r] = InsIdle
          /\ \A m \in Machines : run[m] = Fresh
          /\ keys = Keys
      BY <2>1, Zenon DEF InsInit
    <2>3. released \in Seq(InsVersions) /\ \A i \in 1..Len(released) : installers[released[i]] # NoRow
      BY DEF InsInit
    <2>4. RegistryInv
      BY <2>1, <2>2, <2>3, Zenon DEF RegistryInv, KeysStay
    <2>5. ASSUME NEW m \in Machines PROVE ScriptInv(m)
      BY <2>1, <2>2 DEF ScriptInv
    <2> QED BY <2>4, <2>5 DEF InsInv
  <1>2. InsInv /\ [InsNext]_insVars => InsInv'
    BY RegistryStep, ScriptStep, Zenon DEF InsInv
  <1> QED BY <1>1, <1>2, PTL DEF InsSpec

\* A machine runs what was released as its script's version, keys in use stay
\* registered and a registered installer keeps its row and its file
\* (install_script.go, installers.go, signingkeys.go), for any files, keys,
\* versions, requests and machines.
THEOREM InstallersHold == InsSpec => InstallersSound
  <1>1. InsInv => InstalledAsReleased /\ KeysStay
    <2> SUFFICES ASSUME InsInv PROVE InstalledAsReleased
      BY Zenon DEF InsInv, RegistryInv
    <2> SUFFICES ASSUME NEW m \in Machines, run[m].pc \in {"run", "installed"}
                 PROVE  /\ run[m].got = installers[run[m].v].sha256
                        /\ run[m].got = installers[run[m].v].file
      BY Zenon DEF InstalledAsReleased
    <2>1. /\ run[m].v \in InsVersions /\ installers[run[m].v] # NoRow
          /\ run[m].got = installers[run[m].v].sha256 /\ run[m].got \in {installers[run[m].v].file, Garbled}
      BY Zenon DEF InsInv, ScriptInv
    <2>2. installers[run[m].v].sha256 \in InsFiles
      BY <2>1, Zenon DEF InsInv, RegistryInv, Row
    <2> QED BY <2>1, <2>2, InstallersAssumption DEF Garbled
  <1>2. InsInv /\ InsInv' /\ [InsNext]_insVars =>
          [\A v \in InsVersions : installers[v] # NoRow =>
             installers'[v] = installers[v] /\ insFiles'[installers[v].file] # NoFile]_insVars
    <2> SUFFICES ASSUME InsInv, InsInv', [InsNext]_insVars, NEW v \in InsVersions, installers[v] # NoRow
                 PROVE  installers'[v] = installers[v] /\ insFiles'[installers[v].file] # NoFile
      BY Zenon
    <2>1. installers'[v] = installers[v]
      BY RowsStay, Zenon DEF InsInv
    <2> QED BY <2>1, Zenon DEF InsInv, RegistryInv
  <1> QED
    BY <1>1, <1>2, InstallersInvariant, PTL DEF InsSpec, InstallersSound, RegisteredStays

-----------------------------------------------------------------------------
(* The host *)

HostRecord == [pc : {"idle"} \cup InstallSteps \cup UninstallSteps, release : Releases \cup {"none"},
               token : BOOLEAN, url : BOOLEAN, upgrade : BOOLEAN, purge : BOOLEAN,
               result : {"none", "ok", "failed", "busy"}]

\* What the run of install has done before each of its steps.
RunInv ==
  LET r == hostRun IN
  /\ r.pc \in InstallSteps => r.release \in Releases
  /\ r.pc \in {"backup", "copy", "config", "token", "unit", "start"} => account
  /\ r.pc \in {"config", "token", "unit", "start"} => binary = r.release
  /\ r.pc = "start" => unit
  /\ r.pc \in {"prepare", "backup"} /\ r.upgrade => binary # "none"
  /\ r.pc \in {"prepare", "backup", "copy"} /\ ~r.upgrade => ~complete
  /\ r.pc = "copy" /\ complete /\ ~unsafe => previous \in Releases

HostInv ==
  /\ hostRun \in HostRecord
  /\ binary \in Releases \cup {"none", Partial}
  /\ RunInv
  /\ complete => binary # "none" /\ hostRun.pc \notin UninstallSteps
  /\ WayBack

\* Moving on and ending change the step of the run, and nothing else of it that
\* later steps use.
LEMMA HostRecords ==
  ASSUME hostRun \in HostRecord
  PROVE  /\ \A pc \in InstallSteps \cup UninstallSteps : HostGoto(pc) =>
              /\ hostRun' \in HostRecord /\ hostRun'.pc = pc
              /\ hostRun'.release = hostRun.release /\ hostRun'.upgrade = hostRun.upgrade
         /\ \A result \in {"ok", "failed", "busy"} : HostEnd(result) =>
              hostRun' \in HostRecord /\ hostRun'.pc = "idle"
  BY Zenon DEF HostRecord, HostGoto, HostEnd, HostIdle

\* The steps of an installation.
LEMMA InstallKeeps ==
  ASSUME HostInv, InstallStep
  PROVE  HostInv'
  <1>0. hostRun \in HostRecord
    BY Zenon DEF HostInv
  <1>1. CASE Prepare
    <2>1. hostRun.pc = "prepare" /\ account' = TRUE /\ UNCHANGED <<binary, previous, unit, complete, unsafe>>
          /\ HostGoto("backup")
      BY <1>1, Zenon DEF Prepare, hostFiles, history
    <2>2. hostRun' \in HostRecord /\ hostRun'.pc = "backup" /\ hostRun'.release = hostRun.release
          /\ hostRun'.upgrade = hostRun.upgrade
      BY <1>0, <2>1, HostRecords, Zenon DEF InstallSteps
    <2> QED BY <2>1, <2>2, Zenon DEF HostInv, RunInv, WayBack, InstallSteps, UninstallSteps
  <1>2. CASE Backup
    <2>1. hostRun.pc = "backup" /\ UNCHANGED <<binary, account, unit, complete>> /\ HostGoto("copy")
      BY <1>2, Zenon DEF Backup
    <2>2. hostRun' \in HostRecord /\ hostRun'.pc = "copy" /\ hostRun'.release = hostRun.release
          /\ hostRun'.upgrade = hostRun.upgrade
      BY <1>0, <2>1, HostRecords, Zenon DEF InstallSteps
    <2>3. CASE hostRun.upgrade
      <3>1. unsafe' = TRUE \/ (previous' = binary /\ unsafe' = (unsafe \/ binary = Partial))
        BY <1>2, <2>3, Zenon DEF Backup
      <3>2. complete /\ ~unsafe' => binary \in Releases /\ previous' = binary
        BY <2>1, <2>3, <3>1, Zenon DEF HostInv, RunInv
      <3> QED BY <2>1, <2>2, <2>3, <3>1, <3>2, Zenon DEF HostInv, RunInv, WayBack, InstallSteps, UninstallSteps
    <2>4. CASE ~hostRun.upgrade
      <3>1. UNCHANGED <<previous, unsafe>>
        BY <1>2, <2>4, Zenon DEF Backup
      <3> QED BY <2>1, <2>2, <2>4, <3>1, Zenon DEF HostInv, RunInv, WayBack, InstallSteps, UninstallSteps
    <2> QED BY <2>3, <2>4, Zenon
  <1>3. CASE HostCopy \/ CopyNothing
    <2>1. /\ hostRun.pc = "copy" /\ UNCHANGED <<previous, account, unit, complete, unsafe>>
          /\ \/ HostEnd("busy") /\ UNCHANGED binary
             \/ HostGoto("config") /\ binary' = hostRun.release
      BY <1>3, Zenon DEF HostCopy, CopyNothing, hostFiles, history
    <2>2. CASE HostEnd("busy") /\ UNCHANGED binary
      <3>1. hostRun' \in HostRecord /\ hostRun'.pc = "idle"
        BY <1>0, <2>2, HostRecords, Zenon
      <3> QED BY <2>1, <2>2, <3>1, Zenon DEF HostInv, RunInv, WayBack, InstallSteps, UninstallSteps
    <2>3. CASE HostGoto("config") /\ binary' = hostRun.release
      <3>1. hostRun' \in HostRecord /\ hostRun'.pc = "config" /\ hostRun'.release = hostRun.release
        BY <1>0, <2>3, HostRecords, Zenon DEF InstallSteps
      <3>2. hostRun.release \in Releases /\ hostRun.release \notin {"none", Partial}
        BY <2>1, InstallationAssumption, Zenon DEF HostInv, RunInv, InstallSteps, Partial
      <3> QED BY <2>1, <2>3, <3>1, <3>2, Zenon DEF HostInv, RunInv, WayBack, InstallSteps, UninstallSteps
    <2> QED BY <2>1, <2>2, <2>3, Zenon
  <1>4. CASE CopyBreaks
    <2>1. hostRun.pc = "copy" /\ UNCHANGED <<previous, account, unit, complete, unsafe>> /\ HostEnd("failed")
          /\ binary' = Partial
      BY <1>4, Zenon DEF CopyBreaks, history
    <2>2. hostRun' \in HostRecord /\ hostRun'.pc = "idle" /\ Partial # "none"
      BY <1>0, <2>1, HostRecords, Zenon DEF Partial
    <2> QED BY <2>1, <2>2, Zenon DEF HostInv, RunInv, WayBack, InstallSteps, UninstallSteps
  <1>5. ASSUME NEW pc \in {"token", "unit", "start"}, HostGoto(pc), hostRun.pc \in {"config", "token", "unit"},
               pc = "start" => unit', UNCHANGED <<binary, previous, account, complete, unsafe>>
        PROVE  HostInv'
    <2>1. hostRun' \in HostRecord /\ hostRun'.pc = pc /\ hostRun'.release = hostRun.release
      BY <1>0, <1>5, HostRecords, Zenon DEF InstallSteps
    <2> QED BY <1>5, <2>1, Zenon DEF HostInv, RunInv, WayBack, InstallSteps, UninstallSteps
  <1>6. CASE WriteConfig \/ WriteToken \/ WriteUnit
    BY <1>5, <1>6, Zenon DEF WriteConfig, WriteToken, WriteUnit, hostFiles, history
  <1>7. CASE HostStart
    <2>1. hostRun.pc = "start" /\ UNCHANGED <<binary, previous, account, unit>> /\ HostEnd("ok")
      BY <1>7, Zenon DEF HostStart, hostFiles
    <2>2. hostRun' \in HostRecord /\ hostRun'.pc = "idle"
      BY <1>0, <2>1, HostRecords, Zenon
    <2>3. binary \in Releases /\ binary \notin {"none", Partial}
      BY <2>1, InstallationAssumption, Zenon DEF HostInv, RunInv, InstallSteps, Partial
    <2> QED BY <2>1, <2>2, <2>3, Zenon DEF HostInv, RunInv, WayBack, InstallSteps, UninstallSteps
  <1> QED BY <1>1, <1>2, <1>3, <1>4, <1>6, <1>7, Zenon DEF InstallStep

\* The start of a run, its failures and the steps of an uninstallation.
LEMMA UninstallKeeps ==
  ASSUME HostInv,
         \/ \E r \in Releases, t, u \in BOOLEAN : HostInstall(r, t, u)
         \/ HostFail \/ (\E p \in BOOLEAN : Uninstall(p)) \/ UninstallStep
  PROVE  HostInv'
  <1>0. hostRun \in HostRecord
    BY Zenon DEF HostInv
  <1>1. ASSUME hostRun' \in HostRecord, hostRun'.pc = "idle", UNCHANGED <<binary, previous, account, unit, complete, unsafe>>
        PROVE  HostInv'
    BY <1>1, Zenon DEF HostInv, RunInv, WayBack, InstallSteps, UninstallSteps
  <1>2. ASSUME NEW r \in Releases, NEW t \in BOOLEAN, NEW u \in BOOLEAN, HostInstall(r, t, u) PROVE HostInv'
    <2>1. hostRun.pc = "idle" /\ UNCHANGED <<binary, previous, account, unit, complete, unsafe>>
      BY <1>2, Zenon DEF HostInstall, hostFiles
    <2>2. CASE binary # "none" \/ (t /\ u)
      <3>1. hostRun' = [HostIdle EXCEPT !.pc = "prepare", !.release = r, !.token = t, !.url = u,
                                        !.upgrade = (binary # "none")]
        BY <1>2, <2>2, Zenon DEF HostInstall
      <3>2. hostRun' \in HostRecord /\ hostRun'.pc = "prepare" /\ hostRun'.release = r
        BY <3>1, Zenon DEF HostRecord, HostIdle, InstallSteps
      <3>3. hostRun'.upgrade = (binary # "none")
        BY <3>1, Zenon DEF HostIdle
      <3> QED BY <2>1, <3>2, <3>3, Zenon DEF HostInv, RunInv, WayBack, InstallSteps, UninstallSteps
    <2>3. CASE ~(binary # "none" \/ (t /\ u))
      <3>1. HostEnd("failed")
        BY <1>2, <2>3, Zenon DEF HostInstall
      <3> QED BY <1>0, <1>1, <2>1, <3>1, HostRecords, Zenon
    <2> QED BY <2>2, <2>3, Zenon
  <1>3. CASE HostFail
    <2>1. UNCHANGED <<binary, previous, account, unit, complete, unsafe>> /\ HostEnd("failed")
      BY <1>3, Zenon DEF HostFail, hostFiles, history
    <2> QED BY <1>0, <1>1, <2>1, HostRecords, Zenon
  <1>4. ASSUME NEW p \in BOOLEAN, Uninstall(p) PROVE HostInv'
    <2>1. UNCHANGED <<binary, previous, account, unit, unsafe>> /\ complete' = FALSE
          /\ hostRun' = [HostIdle EXCEPT !.pc = "stop", !.purge = p]
      BY <1>4, Zenon DEF Uninstall, hostFiles
    <2>2. hostRun' \in HostRecord /\ hostRun'.pc = "stop"
      BY <2>1, Zenon DEF HostRecord, HostIdle, UninstallSteps
    <2> QED BY <2>1, <2>2, Zenon DEF HostInv, RunInv, WayBack, InstallSteps, UninstallSteps
  <1>5. ASSUME NEW pc \in UninstallSteps, HostGoto(pc), hostRun.pc \in UninstallSteps,
               binary' \in {binary, "none"}, UNCHANGED complete
        PROVE  HostInv'
    <2>1. hostRun' \in HostRecord /\ hostRun'.pc \in UninstallSteps /\ ~complete
      BY <1>0, <1>5, HostRecords, Zenon DEF HostInv
    <2> QED BY <1>5, <2>1, Zenon DEF HostInv, RunInv, WayBack, InstallSteps, UninstallSteps
  <1>6. CASE HostStop \/ HostRemove \/ RemovePrevious \/ RemoveAccount
    BY <1>5, <1>6, Zenon DEF HostStop, HostRemove, RemovePrevious, RemoveAccount, hostFiles, history, UninstallSteps
  <1>7. CASE Purge
    <2>1. UNCHANGED <<binary, previous, account, unit, complete, unsafe>> /\ HostEnd("ok")
      BY <1>7, Zenon DEF Purge, hostFiles, history
    <2> QED BY <1>0, <1>1, <2>1, HostRecords, Zenon
  <1> QED BY <1>2, <1>3, <1>4, <1>6, <1>7, Zenon DEF UninstallStep

\* The inductive invariant of the installer, for any releases and number of runs.
THEOREM InstallationInvariant == HostSpec => []HostInv
  <1>1. HostInit => HostInv
    BY DEF HostInit, HostInv, HostRecord, HostIdle, RunInv, WayBack, InstallSteps, UninstallSteps, Partial
  <1>2. HostInv /\ [HostNext]_hostVars => HostInv'
    <2> SUFFICES ASSUME HostInv, [HostNext]_hostVars PROVE HostInv'
      BY Zenon
    <2>1. CASE UNCHANGED <<binary, previous, account, unit, hostRun, complete, unsafe>>
      BY <2>1, Zenon DEF HostInv, RunInv, WayBack
    <2>2. CASE Daemon \/ RunByHand \/ StopByHand \/ UNCHANGED hostVars
      BY <2>1, <2>2, Zenon DEF Daemon, Respawn, HostEnroll, Exit, RunByHand, StopByHand, hostFiles, history, hostVars
    <2> QED BY <2>2, InstallKeeps, UninstallKeeps, Zenon DEF HostNext
  <1> QED BY <1>1, <1>2, PTL DEF HostSpec

\* An upgrade keeps a way back, configuration and identity outlive everything but
\* a purge, and success leaves the whole installation (agent/installer), for any
\* releases and number of runs.
THEOREM InstallationHolds == HostSpec => InstallationSound
  <1>1. HostInv => WayBack
    BY Zenon DEF HostInv
  <1>2. [HostNext]_hostVars =>
          [/\ config /\ ~config' => hostRun.purge
           /\ identity /\ ~identity' => hostRun.purge]_hostVars
    <2> SUFFICES ASSUME HostNext PROVE /\ config /\ ~config' => hostRun.purge
                                       /\ identity /\ ~identity' => hostRun.purge
      BY Zenon
    <2>1. CASE Purge
      BY <2>1, Zenon DEF Purge, etc
    <2>2. CASE ~Purge
      <3>1. CASE WriteConfig
        BY <3>1, Zenon DEF WriteConfig
      <3>2. CASE HostEnroll
        BY <3>2, Zenon DEF HostEnroll
      <3>3. CASE ~WriteConfig /\ ~HostEnroll
        <4>1. UNCHANGED <<config, identity>>
          BY <2>2, <3>3, Zenon DEF HostNext, HostInstall, InstallStep, Prepare, Backup, HostCopy, CopyNothing,
             CopyBreaks, WriteToken, WriteUnit, HostStart, HostFail, Uninstall, UninstallStep, HostStop, HostRemove, RemovePrevious,
             RemoveAccount, Daemon, Respawn, Exit, RunByHand, StopByHand, etc
        <4> QED BY <4>1, Zenon
      <3> QED BY <3>1, <3>2, <3>3, Zenon
    <2> QED BY <2>1, <2>2, Zenon
  <1>3. HostInv => [(hostRun.pc = "start" /\ hostRun'.result = "ok") => binary = hostRun.release /\ account /\ unit]_hostVars
    BY Zenon DEF HostInv, RunInv
  <1> QED
    BY <1>1, <1>2, <1>3, InstallationInvariant, PTL
    DEF HostSpec, InstallationSound, KeptUnlessPurged, SuccessIsWhole

-----------------------------------------------------------------------------
(* Local sessions *)

SessionRecord == [type : Kinds, created : Nat, used : Nat, expires : Nat]

\* A command line session expires one idle timeout after its last use, a web
\* session a fixed time after its login.
Deadline(s) ==
  s.expires = IF s.type = "cli" THEN s.used + cliIdleTimeout ELSE s.created + webMaxLifetime

LocalInv ==
  /\ localNow \in Nat /\ sessions \subseteq Token
  /\ session \in [Token -> SessionRecord]
  /\ \A t \in sessions : Deadline(session[t])
  /\ EndedStaysEnded

\* What NewSession and Used make of a session.
LEMMA SessionRecords ==
  ASSUME localNow \in Nat
  PROVE  /\ NoSession \in SessionRecord
         /\ \A type \in Kinds : NewSession(type) \in SessionRecord /\ Deadline(NewSession(type))
         /\ \A s \in SessionRecord : Deadline(s) => Used(s) \in SessionRecord /\ Deadline(Used(s))
  <1>1. {cliIdleTimeout, webIdleTimeout, webMaxLifetime} \subseteq Nat
    BY LocalAccessAssumption, Zenon
  <1>2. NoSession \in SessionRecord
    BY Zenon DEF NoSession, SessionRecord, Kinds
  <1>3. ASSUME NEW type \in Kinds PROVE NewSession(type) \in SessionRecord /\ Deadline(NewSession(type))
    <2>1. CASE type = "cli"
      BY <1>1, <2>1 DEF NewSession, SessionRecord, Kinds, Deadline
    <2>2. CASE type = "web"
      BY <1>1, <2>2 DEF NewSession, SessionRecord, Kinds, Deadline
    <2> QED BY <2>1, <2>2, Zenon DEF Kinds
  <1>4. ASSUME NEW s \in SessionRecord, Deadline(s) PROVE Used(s) \in SessionRecord /\ Deadline(Used(s))
    <2>1. CASE s.type = "cli"
      <3>1. Used(s) = [s EXCEPT !.used = localNow, !.expires = localNow + cliIdleTimeout]
        BY <2>1, Zenon DEF Used
      <3>2. localNow + cliIdleTimeout \in Nat
        BY <1>1
      <3>3. Used(s) \in SessionRecord
        BY <3>1, <3>2, Zenon DEF SessionRecord
      <3>4. Used(s).type = "cli" /\ Used(s).used = localNow /\ Used(s).expires = localNow + cliIdleTimeout
        BY <2>1, <3>1, Zenon DEF SessionRecord
      <3> QED BY <3>3, <3>4, Zenon DEF Deadline
    <2>2. CASE s.type = "web"
      BY <1>1, <1>4, <2>2, Zenon DEF Used, SessionRecord, Kinds, Deadline
    <2> QED BY <2>1, <2>2, Zenon DEF SessionRecord, Kinds
  <1> QED BY <1>2, <1>3, <1>4, Zenon

\* Taking sessions out of the table keeps the invariant: what is taken out is
\* remembered as gone.
LEMMA RemoveKeeps ==
  ASSUME NEW T, LocalInv, Remove(T), localNow' = localNow
  PROVE  LocalInv'
  <1>1. session' \in [Token -> SessionRecord]
    BY SessionRecords, Zenon DEF LocalInv, Remove
  <1>2. sessions' \subseteq sessions /\ \A t \in sessions' : session'[t] = session[t]
    BY Zenon DEF LocalInv, Remove
  <1>3. EndedStaysEnded'
    BY Zenon DEF LocalInv, Remove, EndedStaysEnded
  <1>4. \A t \in sessions' : Deadline(session'[t])
    BY <1>2, Zenon DEF LocalInv
  <1> QED BY <1>1, <1>2, <1>3, <1>4, Zenon DEF LocalInv, Deadline

\* Every step of the agent keeps the invariant.
LEMMA LocalStep ==
  ASSUME LocalInv, [LocalNext]_localVars
  PROVE  LocalInv'
  <1>1. CASE UNCHANGED <<localNow, sessions, session, gone>>
    BY <1>1, Zenon DEF LocalInv, EndedStaysEnded, Deadline
  <1>2. ASSUME NEW t \in Token, NEW type \in Kinds, Login(t, type) PROVE LocalInv'
    <2>1. localNow' = localNow /\ gone' = gone /\ t \notin gone /\ sessions' = sessions \cup {t}
          /\ session' = [session EXCEPT ![t] = NewSession(type)]
      BY <1>2, Zenon DEF Login
    <2>2. NewSession(type) \in SessionRecord /\ Deadline(NewSession(type))
      BY SessionRecords, Zenon DEF LocalInv
    <2>3. session' \in [Token -> SessionRecord] /\ session'[t] = NewSession(type)
          /\ \A u \in Token \ {t} : session'[u] = session[u]
      BY <2>1, <2>2, Zenon DEF LocalInv
    <2>4. \A u \in sessions' : Deadline(session'[u])
      BY <2>1, <2>2, <2>3, Zenon DEF LocalInv
    <2>5. EndedStaysEnded' /\ sessions' \subseteq Token
      BY <2>1, Zenon DEF LocalInv, EndedStaysEnded
    <2> QED BY <2>1, <2>3, <2>4, <2>5, Zenon DEF LocalInv, Deadline
  <1>3. ASSUME NEW c \in Client, NEW t \in Token, NEW o \in Op, Validated(c, t, o) PROVE LocalInv'
    <2>1. localNow' = localNow /\ gone' = gone /\ t \in sessions /\ sessions' = sessions
          /\ session' = [session EXCEPT ![t] = Used(session[t])]
      BY <1>3, Zenon DEF Validated, LocalInv
    <2>2. Used(session[t]) \in SessionRecord /\ Deadline(Used(session[t]))
      BY <2>1, SessionRecords, Zenon DEF LocalInv
    <2>3. session' \in [Token -> SessionRecord] /\ session'[t] = Used(session[t])
          /\ \A u \in Token \ {t} : session'[u] = session[u]
      BY <2>1, <2>2, Zenon DEF LocalInv
    <2>4. \A u \in sessions' : Deadline(session'[u])
      BY <2>1, <2>2, <2>3, Zenon DEF LocalInv
    <2> QED BY <2>1, <2>3, <2>4, Zenon DEF LocalInv, EndedStaysEnded, Deadline
  <1>4. ASSUME NEW T, Remove(T), localNow' = localNow PROVE LocalInv'
    BY <1>4, RemoveKeeps, Zenon
  <1>5. ASSUME NEW t \in Token, Refused(t) \/ CliLogout(t) PROVE LocalInv'
    BY <1>4, <1>5, Zenon DEF Refused, CliLogout
  <1>6. CASE Cleanup
    BY <1>4, <1>6, Zenon DEF Cleanup
  <1>7. CASE Restart
    BY <1>4, <1>7, Zenon DEF Restart
  <1>8. ASSUME NEW c \in Client, Logout(c) PROVE LocalInv'
    BY <1>4, <1>8, Zenon DEF Logout
  <1>9. ASSUME NEW c \in Client, Apply(c) \/ NoChange(c) \/ LogAudit(c) PROVE LocalInv'
    BY <1>1, <1>9, Zenon DEF Apply, NoChange, LogAudit, table
  <1>10. CASE SessionExpires
    BY <1>1, <1>10, Zenon DEF SessionExpires, table
  <1>11. CASE LocalTick
    <2>1. localNow' \in Nat /\ UNCHANGED <<sessions, session, gone>>
      BY <1>11, LocalAccessAssumption DEF LocalTick, LocalInv, table
    <2> QED BY <2>1, Zenon DEF LocalInv, EndedStaysEnded, Deadline
  <1>12. CASE UNCHANGED localVars
    BY <1>1, <1>12, Zenon DEF localVars
  <1> QED
    BY <1>2, <1>3, <1>5, <1>6, <1>7, <1>8, <1>9, <1>10, <1>11, <1>12, Zenon DEF LocalNext

\* The inductive invariant of the session table, for any tokens, clients and
\* timeouts.
THEOREM SessionsInvariant == LocalSpec => []LocalInv
  <1>1. LocalInit => LocalInv
    BY SessionRecords DEF LocalInit, LocalInv, EndedStaysEnded
  <1>2. LocalInv /\ [LocalNext]_localVars => LocalInv'
    BY LocalStep, Zenon
  <1> QED BY <1>1, <1>2, PTL DEF LocalSpec

\* Validate accepts a session within both its deadlines only, Cleanup removes
\* none that Validate would accept, and no step brings back one that has ended
\* (agent/localauth), for any tokens, clients and timeouts.
THEOREM SessionsHold == LocalSpec => SessionsSound
  <1>1. ASSUME LocalInv, [LocalNext]_localVars
        PROVE  [\A c \in Client, t \in sessions : Validated(c, t, op'[c]) =>
                  /\ localNow - session[t].used <= idleTimeout(session[t])
                  /\ session[t].type = "web" => localNow <= session[t].created + webMaxLifetime]_localVars
    <2> SUFFICES ASSUME NEW c \in Client, NEW t \in sessions, Validated(c, t, op'[c])
                 PROVE  /\ localNow - session[t].used <= idleTimeout(session[t])
                        /\ session[t].type = "web" => localNow <= session[t].created + webMaxLifetime
      BY Zenon
    <2>1. session[t] \in SessionRecord /\ Deadline(session[t]) /\ localNow \in Nat
      BY <1>1, Zenon DEF LocalInv
    <2>2. ~Dead(session[t])
      BY Zenon DEF Validated
    <2>3. idleTimeout(session[t]) \in Nat /\ webMaxLifetime \in Nat
      BY LocalAccessAssumption, Zenon DEF idleTimeout
    <2>4. ~(localNow > session[t].expires) /\ ~(localNow - session[t].used > idleTimeout(session[t]))
      BY <2>2, Zenon DEF Dead
    <2>5. session[t].type = "web" => session[t].expires = session[t].created + webMaxLifetime
      BY <2>1, Zenon DEF Deadline
    <2>6. session[t].used \in Nat /\ session[t].created \in Nat
      BY <2>1, Zenon DEF SessionRecord
    <2> QED BY <2>1, <2>3, <2>4, <2>5, <2>6
  <1>2. [Cleanup => \A t \in sessions \ sessions' : Dead(session[t])]_localVars
    BY Zenon DEF Cleanup, Remove
  <1>3. LocalInv => EndedStaysEnded
    BY Zenon DEF LocalInv
  <1> QED
    BY <1>1, <1>2, <1>3, SessionsInvariant, PTL
    DEF LocalSpec, SessionsSound, AuthenticatedInTime, NoEarlyRemoval

=============================================================================
