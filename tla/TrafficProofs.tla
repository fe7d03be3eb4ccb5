------------------------------ MODULE TrafficProofs ------------------------------
(***************************************************************************)
(* Theorems about what reaches the server and when.  The rate limiters,    *)
(* for any keys, bursts and requests: Retry-After is kept, and where a     *)
(* bucket refills before it is evicted no key gets more than its burst and *)
(* rate.  The log shipper, for any buffer, batch and number of faults: no  *)
(* entry vanishes, and unless a connection breaks each is stored once and  *)
(* in order.                                                               *)
(***************************************************************************)
EXTENDS RateLimiter, LogShipper, TLAPS

-----------------------------------------------------------------------------
(* The log shipper *)

Below(s, t) == \A i \in DOMAIN s, k \in DOMAIN t : s[i] < t[k]
Upto(s, n) == \A i \in DOMAIN s : s[i] <= n

Connection == Nat \X {"up", "stopping"}
PostedRequest == [entries : Seq(Nat), inserted : Nat, waited : BOOLEAN, conn : Connection]

LogTypes ==
    /\ agent \in {"up", "stopping", "down"} /\ logged \in Nat /\ logFaults \in Nat
    /\ buffer \in Seq(Nat) /\ batch \in Seq(Nat) /\ stored \in Seq(Nat)
    /\ Upto(buffer, logged) /\ Upto(batch, logged) /\ Upto(stored, logged)

\* A request the shipper waits for is the only one and carries the batch.
PostInv ==
    /\ requests \subseteq PostedRequest /\ \A r \in requests : Upto(r.entries, logged)
    /\ \A r \in requests : r.waited => logPc = "wait" /\ r.entries = batch
    /\ \A r, s \in requests : r.waited /\ s.waited => r = s
    /\ ~broken => \A r \in requests : r.waited

\* What is stored comes before what the agent holds, unless a connection broke.
OrderInv ==
    /\ Increasing(batch) /\ Increasing(buffer) /\ Below(batch, buffer)
    /\ ~broken => Increasing(stored) /\ Below(stored, buffer) /\ (logPc # "stored" => Below(stored, batch))

\* The inductive invariant of the shipper.
LogInv ==
    /\ LogTypes /\ PostInv /\ OrderInv /\ NothingVanishes
    /\ logPc \in {"idle", "returned"} => batch = <<>>
    /\ logPc = "stored" => Range(batch) \subseteq Range(stored)

\* What a concatenation has and keeps.
LEMMA ConcatOf ==
  ASSUME NEW s \in Seq(Nat), NEW t \in Seq(Nat)
  PROVE  /\ s \o t \in Seq(Nat) /\ Range(s \o t) = Range(s) \cup Range(t)
         /\ Increasing(s) /\ Increasing(t) /\ Below(s, t) => Increasing(s \o t)
         /\ \A u \in Seq(Nat) : Below(u, s) /\ Below(u, t) => Below(u, s \o t)
         /\ \A u \in Seq(Nat) : Below(s, u) /\ Below(t, u) => Below(s \o t, u)
         /\ \A n \in Nat : Upto(s, n) /\ Upto(t, n) => Upto(s \o t, n)
  <1>1. s \o t \in Seq(Nat) /\ DOMAIN (s \o t) = 1..(Len(s) + Len(t)) /\ Len(s) \in Nat /\ Len(t) \in Nat
        /\ DOMAIN s = 1..Len(s) /\ DOMAIN t = 1..Len(t)
    OBVIOUS
  <1>2. \A i \in DOMAIN (s \o t) : (s \o t)[i] = IF i <= Len(s) THEN s[i] ELSE t[i - Len(s)]
    OBVIOUS
  <1>3. \A i \in DOMAIN (s \o t) : i \in DOMAIN s \/ i - Len(s) \in DOMAIN t
    BY <1>1
  <1>4. /\ \A i \in DOMAIN s : i \in DOMAIN (s \o t) /\ (s \o t)[i] = s[i]
        /\ \A i \in DOMAIN t : i + Len(s) \in DOMAIN (s \o t) /\ (s \o t)[i + Len(s)] = t[i]
    BY <1>1, <1>2
  <1>5. \A i \in DOMAIN (s \o t) : (i \in DOMAIN s /\ (s \o t)[i] = s[i])
                                   \/ (i - Len(s) \in DOMAIN t /\ (s \o t)[i] = t[i - Len(s)])
    BY <1>1, <1>2
  <1>6. Range(s \o t) = Range(s) \cup Range(t)
    <2>1. Range(s \o t) \subseteq Range(s) \cup Range(t)
      BY <1>5, Zenon DEF Range
    <2>2. Range(s) \subseteq Range(s \o t) /\ Range(t) \subseteq Range(s \o t)
      BY <1>4, Zenon DEF Range
    <2> QED BY <2>1, <2>2, Zenon
  <1>7. ASSUME Increasing(s), Increasing(t), Below(s, t) PROVE Increasing(s \o t)
    <2> SUFFICES ASSUME NEW i \in DOMAIN (s \o t), NEW k \in DOMAIN (s \o t), i < k
                 PROVE  (s \o t)[i] < (s \o t)[k]
      BY Zenon DEF Increasing
    <2>1. CASE k <= Len(s)
      BY <1>1, <1>2, <1>7, <2>1 DEF Increasing
    <2>2. CASE i <= Len(s) /\ k > Len(s)
      BY <1>1, <1>2, <1>7, <2>2 DEF Below
    <2>3. CASE i > Len(s)
      <3>1. i - Len(s) \in DOMAIN t /\ k - Len(s) \in DOMAIN t /\ i - Len(s) < k - Len(s) /\ k > Len(s)
        BY <1>1, <2>3
      <3>2. t[i - Len(s)] < t[k - Len(s)]
        BY <1>7, <3>1, Zenon DEF Increasing
      <3> QED BY <1>1, <1>2, <2>3, <3>1, <3>2
    <2> QED BY <1>1, <2>1, <2>2, <2>3
  <1>8. \A u \in Seq(Nat) : Below(u, s) /\ Below(u, t) => Below(u, s \o t)
    BY <1>5, Zenon DEF Below
  <1>9. \A u \in Seq(Nat) : Below(s, u) /\ Below(t, u) => Below(s \o t, u)
    BY <1>5, Zenon DEF Below
  <1>10. \A n \in Nat : Upto(s, n) /\ Upto(t, n) => Upto(s \o t, n)
    BY <1>5, Zenon DEF Upto
  <1> QED BY <1>1, <1>6, <1>7, <1>8, <1>9, <1>10, Zenon

\* What a piece of a sequence has and keeps.
LEMMA PieceOf ==
  ASSUME NEW s \in Seq(Nat), NEW a \in Nat \ {0}, NEW b \in Nat, a <= b + 1, b <= Len(s)
  PROVE  /\ SubSeq(s, a, b) \in Seq(Nat)
         /\ Increasing(s) => Increasing(SubSeq(s, a, b))
         /\ \A u \in Seq(Nat) : Below(u, s) => Below(u, SubSeq(s, a, b))
         /\ \A n \in Nat : Upto(s, n) => Upto(SubSeq(s, a, b), n)
  <1>1. SubSeq(s, a, b) \in Seq(Nat) /\ Len(SubSeq(s, a, b)) = b - a + 1
    OBVIOUS
  <1>2. \A i \in DOMAIN SubSeq(s, a, b) : i + a - 1 \in DOMAIN s /\ SubSeq(s, a, b)[i] = s[i + a - 1] /\ i \in Int
    BY <1>1
  <1>3. ASSUME Increasing(s) PROVE Increasing(SubSeq(s, a, b))
    <2> SUFFICES ASSUME NEW i \in DOMAIN SubSeq(s, a, b), NEW k \in DOMAIN SubSeq(s, a, b), i < k
                 PROVE  SubSeq(s, a, b)[i] < SubSeq(s, a, b)[k]
      BY Zenon DEF Increasing
    <2>1. i + a - 1 < k + a - 1
      BY <1>2
    <2> QED BY <1>2, <1>3, <2>1, Zenon DEF Increasing
  <1>4. \A u \in Seq(Nat) : Below(u, s) => Below(u, SubSeq(s, a, b))
    BY <1>2, Zenon DEF Below
  <1>5. \A n \in Nat : Upto(s, n) => Upto(SubSeq(s, a, b), n)
    BY <1>2, Zenon DEF Upto
  <1> QED BY <1>1, <1>3, <1>4, <1>5, Zenon

\* The two pieces of a sequence.
LEMMA TwoPieces ==
  ASSUME NEW s \in Seq(Nat), NEW n \in Nat, n <= Len(s)
  PROVE  /\ Range(s) \subseteq Range(SubSeq(s, 1, n)) \cup Range(SubSeq(s, n + 1, Len(s)))
         /\ Increasing(s) => Below(SubSeq(s, 1, n), SubSeq(s, n + 1, Len(s)))
  <1> DEFINE p == SubSeq(s, 1, n)
             q == SubSeq(s, n + 1, Len(s))
  <1>1. Len(s) \in Nat /\ DOMAIN s = 1..Len(s)
    OBVIOUS
  <1>2. DOMAIN p = 1..n /\ \A i \in 1..n : p[i] = s[i]
    BY <1>1
  <1>3. DOMAIN q = 1..(Len(s) - n) /\ \A i \in 1..(Len(s) - n) : q[i] = s[i + n]
    BY <1>1
  <1> HIDE DEF p, q
  <1>4. ASSUME NEW i \in DOMAIN s
        PROVE  (i \in DOMAIN p /\ p[i] = s[i]) \/ (i - n \in DOMAIN q /\ q[i - n] = s[i])
    <2>1. CASE i <= n
      BY <1>1, <1>2, <2>1
    <2>2. CASE i > n
      <3>1. i - n \in 1..(Len(s) - n) /\ (i - n) + n = i
        BY <1>1, <2>2
      <3> QED BY <1>3, <3>1
    <2> QED BY <1>1, <2>1, <2>2
  <1>5. Range(s) \subseteq Range(p) \cup Range(q)
    BY <1>4, Zenon DEF Range
  <1>6. ASSUME Increasing(s), NEW i \in DOMAIN p, NEW k \in DOMAIN q PROVE p[i] < q[k]
    <2>1. i \in DOMAIN s /\ k + n \in DOMAIN s /\ i < k + n
      BY <1>1, <1>2, <1>3
    <2> QED BY <1>2, <1>3, <1>6, <2>1, Zenon DEF Increasing
  <1>7. Increasing(s) => Below(p, q)
    BY <1>6, Zenon DEF Below
  <1> QED BY <1>5, <1>7 DEF p, q

\* One more entry at the end.
LEMMA AppendOf ==
  ASSUME NEW s \in Seq(Nat), NEW n \in Nat, Upto(s, n)
  PROVE  /\ Append(s, n + 1) \in Seq(Nat) /\ Range(Append(s, n + 1)) = Range(s) \cup {n + 1}
         /\ Increasing(s) => Increasing(Append(s, n + 1))
         /\ \A u \in Seq(Nat) : Upto(u, n) /\ Below(u, s) => Below(u, Append(s, n + 1))
         /\ Upto(Append(s, n + 1), n + 1)
  <1> DEFINE w == Append(s, n + 1)
  <1>1. w \in Seq(Nat) /\ DOMAIN w = 1..(Len(s) + 1) /\ DOMAIN s = 1..Len(s) /\ Len(s) \in Nat
        /\ w[Len(s) + 1] = n + 1 /\ \A i \in DOMAIN s : w[i] = s[i] /\ s[i] \in Nat
    OBVIOUS
  <1> HIDE DEF w
  <1>2. \A i \in DOMAIN w : (i \in DOMAIN s /\ w[i] = s[i]) \/ (i = Len(s) + 1 /\ w[i] = n + 1)
    BY <1>1
  <1>3. Range(w) = Range(s) \cup {n + 1}
    <2>1. \A i \in DOMAIN s : i \in DOMAIN w
      BY <1>1
    <2>2. Len(s) + 1 \in DOMAIN w
      BY <1>1
    <2>3. Range(w) \subseteq Range(s) \cup {n + 1}
      BY <1>2, Zenon DEF Range
    <2>4. Range(s) \subseteq Range(w) /\ n + 1 \in Range(w)
      BY <1>1, <2>1, <2>2, Zenon DEF Range
    <2> QED BY <2>3, <2>4, Zenon
  <1>4. Increasing(s) => Increasing(w)
    <2> SUFFICES ASSUME Increasing(s), NEW i \in DOMAIN w, NEW k \in DOMAIN w, i < k PROVE w[i] < w[k]
      BY Zenon DEF Increasing
    <2>1. i \in DOMAIN s /\ w[i] = s[i] /\ s[i] <= n /\ s[i] \in Nat
      BY <1>1 DEF Upto
    <2>2. CASE k = Len(s) + 1
      BY <1>1, <2>1, <2>2
    <2>3. CASE k \in DOMAIN s
      BY <1>1, <2>1, <2>3, Zenon DEF Increasing
    <2> QED BY <1>2, <2>2, <2>3, Zenon
  <1>5. ASSUME NEW u \in Seq(Nat), Upto(u, n), Below(u, s) PROVE Below(u, w)
    <2>1. \A i \in DOMAIN u : u[i] < n + 1
      BY <1>5 DEF Upto
    <2> QED BY <1>2, <1>5, <2>1, Zenon DEF Below
  <1>6. Upto(w, n + 1)
    BY <1>1, <1>2 DEF Upto
  <1> QED BY <1>1, <1>3, <1>4, <1>5, <1>6, Zenon DEF w

\* The empty sequence.
LEMMA EmptyOf ==
  /\ <<>> \in Seq(Nat) /\ Increasing(<<>>) /\ Range(<<>>) = {}
  /\ \A u : Below(u, <<>>) /\ Below(<<>>, u)
  /\ \A n : Upto(<<>>, n)
  <1>1. DOMAIN <<>> = {} /\ <<>> \in Seq(Nat)
    OBVIOUS
  <1> QED BY <1>1, Zenon DEF Increasing, Range, Below, Upto

\* A record logged.
LEMMA HandleKeeps ==
  ASSUME LogInv, Handle
  PROVE  LogInv'
  <1>0. LogTypes /\ PostInv /\ OrderInv /\ NothingVanishes
    BY Zenon DEF LogInv
  <1>1. agent # "down" /\ logged' = logged + 1 /\ Add(logged + 1)
        /\ UNCHANGED <<agent, logPc, batch, requests, stored, logFaults, broken>>
    BY Zenon DEF Handle
  <1>2. logged' \in Nat /\ \A s \in Seq(Nat) : Upto(s, logged) => Upto(s, logged')
    <2>1. logged \in Nat
      BY <1>0, Zenon DEF LogTypes
    <2>2. ASSUME NEW s \in Seq(Nat), Upto(s, logged) PROVE Upto(s, logged')
      <3>1. \A i \in DOMAIN s : s[i] \in Nat /\ s[i] <= logged
        BY <2>2 DEF Upto
      <3> QED BY <1>1, <2>1, <3>1 DEF Upto
    <2> QED BY <1>1, <2>1, <2>2
  <1>3. \/ buffer' = buffer /\ dropped' = dropped \cup {logged + 1}
        \/ buffer' = Append(buffer, logged + 1) /\ dropped' = dropped
    BY <1>1, Zenon DEF Add
  <1>4. /\ buffer' \in Seq(Nat) /\ Upto(buffer', logged') /\ Increasing(buffer') /\ Below(batch, buffer')
        /\ Below(stored, buffer) => Below(stored, buffer')
        /\ Range(buffer') \cup dropped' = Range(buffer) \cup dropped \cup {logged + 1}
    <2>1. CASE buffer' = buffer /\ dropped' = dropped \cup {logged + 1}
      BY <1>0, <1>2, <2>1, Zenon DEF LogTypes, OrderInv
    <2>2. CASE buffer' = Append(buffer, logged + 1) /\ dropped' = dropped
      <3>1. /\ buffer \in Seq(Nat) /\ logged \in Nat /\ Upto(buffer, logged) /\ Increasing(buffer)
            /\ batch \in Seq(Nat) /\ Upto(batch, logged) /\ Below(batch, buffer)
            /\ stored \in Seq(Nat) /\ Upto(stored, logged)
        BY <1>0, Zenon DEF LogTypes, OrderInv
      <3>2. /\ Append(buffer, logged + 1) \in Seq(Nat) /\ Upto(Append(buffer, logged + 1), logged + 1)
            /\ Range(Append(buffer, logged + 1)) = Range(buffer) \cup {logged + 1}
            /\ Increasing(Append(buffer, logged + 1))
        BY <3>1, AppendOf, Zenon
      <3>3. /\ Below(batch, Append(buffer, logged + 1))
            /\ Below(stored, buffer) => Below(stored, Append(buffer, logged + 1))
        BY <3>1, AppendOf, Zenon
      <3> QED BY <1>1, <2>2, <3>2, <3>3, Zenon
    <2> QED BY <1>3, <2>1, <2>2, Zenon
  <1>5. LogTypes'
    BY <1>0, <1>1, <1>2, <1>4, Zenon DEF LogTypes
  <1>6. PostInv'
    <2>1. \A r \in requests : r.entries \in Seq(Nat)
      BY <1>0, Zenon DEF PostInv, PostedRequest
    <2> QED BY <1>0, <1>1, <1>2, <2>1, Zenon DEF PostInv
  <1>7. OrderInv'
    BY <1>0, <1>1, <1>4, Zenon DEF OrderInv
  <1>8. NothingVanishes'
    <2>1. 1..logged' = (1..logged) \cup {logged + 1}
      BY <1>0, <1>1 DEF LogTypes
    <2>2. Held = Range(buffer) \cup Range(batch) /\ Held' = Range(buffer') \cup Range(batch)
      BY <1>1, Zenon DEF Held
    <2>3. 1..logged \subseteq Held \cup Range(stored) \cup dropped
      BY <1>0, <1>1, Zenon DEF NothingVanishes
    <2>4. 1..logged' \subseteq Held' \cup Range(stored') \cup dropped'
      BY <1>1, <1>4, <2>1, <2>2, <2>3, Zenon
    <2> QED BY <2>4, Zenon DEF NothingVanishes
  <1> QED BY <1>1, <1>5, <1>6, <1>7, <1>8, Zenon DEF LogInv

\* flush takes a batch off the front of the buffer.
LEMMA FlushKeeps ==
  ASSUME LogInv, Flush
  PROVE  LogInv'
  <1>0. LogTypes /\ PostInv /\ OrderInv /\ NothingVanishes /\ batch = <<>>
    BY Zenon DEF LogInv, Flush
  <1>1. PICK n \in Nat : /\ n <= Len(buffer)
                         /\ batch' = SubSeq(buffer, 1, n) /\ buffer' = SubSeq(buffer, n + 1, Len(buffer))
    <2>1. MaxBatch \in Nat /\ Len(buffer) \in Nat
      BY <1>0, LogShipperAssumption DEF LogTypes
    <2> DEFINE m == IF Len(buffer) > MaxBatch THEN MaxBatch ELSE Len(buffer)
    <2>2. m \in Nat /\ m <= Len(buffer)
      BY <2>1
    <2>3. batch' = SubSeq(buffer, 1, m) /\ buffer' = SubSeq(buffer, m + 1, Len(buffer))
      BY Zenon DEF Flush
    <2> QED BY <2>2, <2>3, Zenon
  <1>2. /\ logPc = "idle" /\ logPc' = "wait" /\ UNCHANGED <<agent, logged, stored, dropped, logFaults, broken>>
        /\ agent # "down"
        /\ requests' = requests \cup {[entries |-> batch', inserted |-> 0, waited |-> TRUE,
                                       conn |-> <<logFaults, agent>>]}
    BY Zenon DEF Flush
  <1>3. buffer \in Seq(Nat) /\ Upto(buffer, logged) /\ logged \in Nat /\ Increasing(buffer) /\ stored \in Seq(Nat)
        /\ Len(buffer) \in Nat
    BY <1>0 DEF LogTypes, OrderInv
  <1>4. /\ batch' \in Seq(Nat) /\ Upto(batch', logged) /\ Increasing(batch')
        /\ Below(stored, buffer) => Below(stored, batch')
    <2>1. 1 \in Nat \ {0} /\ 1 <= n + 1
      BY <1>1
    <2> QED BY <1>1, <1>3, <2>1, PieceOf, Zenon
  <1>5. /\ buffer' \in Seq(Nat) /\ Upto(buffer', logged) /\ Increasing(buffer')
        /\ Below(stored, buffer) => Below(stored, buffer')
    <2>1. n + 1 \in Nat \ {0} /\ n + 1 <= Len(buffer) + 1 /\ Len(buffer) <= Len(buffer)
      BY <1>1, <1>3
    <2> QED BY <1>1, <1>3, <2>1, PieceOf, Zenon
  <1>6. Below(batch', buffer') /\ Range(buffer) \subseteq Range(batch') \cup Range(buffer')
    BY <1>1, <1>3, TwoPieces, Zenon
  <1>7. LogTypes'
    BY <1>0, <1>2, <1>4, <1>5, Zenon DEF LogTypes
  <1>8. PostInv'
    <2> DEFINE post == [entries |-> batch', inserted |-> 0, waited |-> TRUE, conn |-> <<logFaults, agent>>]
    <2>0. <<logFaults, agent>> \in Connection
      BY <1>0, <1>2, Zenon DEF LogTypes, Connection
    <2>1. post \in PostedRequest /\ post.entries = batch' /\ post.waited
      BY <1>4, <2>0, Zenon DEF PostedRequest
    <2>2. requests' = requests \cup {post}
      BY <1>2, Zenon
    <2> HIDE DEF post
    <2>3. \A r \in requests : ~r.waited
      BY <1>0, <1>2, Zenon DEF PostInv
    <2> QED BY <1>0, <1>2, <1>4, <2>1, <2>2, <2>3, Zenon DEF PostInv
  <1>9. OrderInv'
    BY <1>0, <1>2, <1>4, <1>5, <1>6, Zenon DEF OrderInv
  <1>10. NothingVanishes'
    <2>1. Held \subseteq Held'
      BY <1>0, <1>6, EmptyOf, Zenon DEF Held
    <2> QED BY <1>0, <1>2, <2>1, Zenon DEF NothingVanishes
  <1> QED BY <1>2, <1>7, <1>8, <1>9, <1>10, Zenon DEF LogInv

\* A batch that failed goes back in front of the buffer, which is cut to its size.
LEMMA RebufferKeeps ==
  ASSUME LogInv, FlushFailed
  PROVE  LogInv'
  <1>0. LogTypes /\ PostInv /\ OrderInv /\ NothingVanishes
    BY Zenon DEF LogInv
  <1>1. /\ logPc = "failed" /\ logPc' \in {"returned", "idle"} /\ batch' = <<>>
        /\ UNCHANGED <<agent, logged, requests, stored, logFaults, broken>>
    BY Zenon DEF FlushFailed, Resume
  <1> DEFINE all == batch \o buffer
  <1>2. /\ batch \in Seq(Nat) /\ buffer \in Seq(Nat) /\ stored \in Seq(Nat) /\ logged \in Nat
        /\ Upto(batch, logged) /\ Upto(buffer, logged) /\ Increasing(batch) /\ Increasing(buffer) /\ Below(batch, buffer)
    BY <1>0, Zenon DEF LogTypes, OrderInv
  <1>3. /\ all \in Seq(Nat) /\ Range(all) = Range(batch) \cup Range(buffer) /\ Increasing(all) /\ Upto(all, logged)
        /\ Below(stored, batch) /\ Below(stored, buffer) => Below(stored, all)
    BY <1>2, ConcatOf, Zenon
  <1> DEFINE kept == IF Len(all) > MaxBuffer THEN SubSeq(all, 1, MaxBuffer) ELSE all
  <1>4. buffer' = kept /\ dropped' = dropped \cup (Range(all) \ Range(kept))
    BY Zenon DEF FlushFailed, Rebuffer
  <1> HIDE DEF all
  <1>5. /\ kept \in Seq(Nat) /\ Increasing(kept) /\ Upto(kept, logged)
        /\ Below(stored, all) => Below(stored, kept)
    <2>1. CASE Len(all) > MaxBuffer
      <3>1. MaxBuffer \in Nat /\ 1 \in Nat \ {0} /\ 1 <= MaxBuffer + 1 /\ MaxBuffer <= Len(all)
        BY <1>3, <2>1, LogShipperAssumption
      <3>2. kept = SubSeq(all, 1, MaxBuffer)
        BY <2>1, Zenon
      <3> QED BY <1>2, <1>3, <3>1, <3>2, PieceOf, Zenon
    <2>2. CASE ~(Len(all) > MaxBuffer)
      <3>1. kept = all
        BY <2>2, Zenon
      <3> QED BY <1>3, <3>1, Zenon
    <2> QED BY <2>1, <2>2, Zenon
  <1> HIDE DEF kept
  <1>6. LogTypes'
    BY <1>0, <1>1, <1>4, <1>5, EmptyOf, Zenon DEF LogTypes
  <1>7. PostInv'
    <2>1. \A r \in requests : ~r.waited
      BY <1>0, <1>1, Zenon DEF PostInv
    <2> QED BY <1>0, <1>1, <2>1, Zenon DEF PostInv
  <1>8. OrderInv'
    <2>1. logPc # "stored"
      BY <1>1, Zenon
    <2>2. ~broken => Increasing(stored) /\ Below(stored, kept)
      BY <1>0, <1>3, <1>5, <2>1, Zenon DEF OrderInv
    <2> QED BY <1>1, <1>4, <1>5, <2>2, EmptyOf, Zenon DEF OrderInv
  <1>9. NothingVanishes'
    <2>1. Held \cup dropped \subseteq Held' \cup dropped'
      BY <1>3, <1>4, Zenon DEF Held
    <2> QED BY <1>0, <1>1, <2>1, Zenon DEF NothingVanishes
  <1>10. logPc' # "stored"
    BY <1>1, Zenon
  <1> QED BY <1>1, <1>6, <1>7, <1>8, <1>9, <1>10, Zenon DEF LogInv

\* A batch that was answered is forgotten.
LEMMA AnsweredKeeps ==
  ASSUME LogInv, FlushAnswered
  PROVE  LogInv'
  <1>0. LogTypes /\ PostInv /\ OrderInv /\ NothingVanishes /\ (logPc = "stored" => Range(batch) \subseteq Range(stored))
    BY Zenon DEF LogInv
  <1>1. /\ logPc \in {"stored", "refused"} /\ logPc' \in {"returned", "idle"} /\ batch' = <<>>
        /\ UNCHANGED <<agent, logged, buffer, requests, stored, logFaults, broken>>
        /\ dropped' = IF logPc = "refused" THEN dropped \cup Range(batch) ELSE dropped
    BY Zenon DEF FlushAnswered, Resume
  <1>2. LogTypes'
    BY <1>0, <1>1, EmptyOf, Zenon DEF LogTypes
  <1>3. PostInv'
    <2>1. \A r \in requests : ~r.waited
      BY <1>0, <1>1, Zenon DEF PostInv
    <2> QED BY <1>0, <1>1, <2>1, Zenon DEF PostInv
  <1>4. OrderInv'
    BY <1>0, <1>1, EmptyOf, Zenon DEF OrderInv
  <1>5. NothingVanishes'
    <2>1. Range(batch) \subseteq Range(stored) \cup dropped' /\ dropped \subseteq dropped'
      BY <1>0, <1>1, Zenon
    <2>2. Held \cup Range(stored) \cup dropped \subseteq Held' \cup Range(stored') \cup dropped'
      BY <1>1, <2>1, Zenon DEF Held
    <2> QED BY <1>0, <1>1, <2>2, Zenon DEF NothingVanishes
  <1>6. logPc' # "stored"
    BY <1>1, Zenon
  <1> QED BY <1>1, <1>2, <1>3, <1>4, <1>5, <1>6, Zenon DEF LogInv

\* Ingest on a request.
LEMMA ServerKeeps ==
  ASSUME LogInv, NEW r \in requests, Insert(r) \/ Commit(r) \/ Rollback(r) \/ Refuse(r)
  PROVE  LogInv'
  <1>0. /\ LogTypes /\ PostInv /\ OrderInv /\ NothingVanishes /\ r \in PostedRequest /\ Upto(r.entries, logged)
        /\ r.waited => logPc = "wait" /\ r.entries = batch
        /\ logPc \in {"idle", "returned"} => batch = <<>>
        /\ logPc = "stored" => Range(batch) \subseteq Range(stored)
    BY Zenon DEF LogInv, PostInv
  <1>1. UNCHANGED <<agent, logged, buffer, batch, dropped, broken>> /\ logFaults' \in Nat
    BY <1>0 DEF Insert, Commit, Rollback, Refuse, LogFault, LogTypes
  <1>2. CASE Insert(r)
    <2> DEFINE one == [r EXCEPT !.inserted = @ + 1]
    <2>1. requests' = (requests \ {r}) \cup {one} /\ UNCHANGED <<logPc, stored>>
      BY <1>2, Zenon DEF Insert
    <2>2. one \in PostedRequest /\ one.entries = r.entries /\ one.waited = r.waited
      <3>1. r.inserted + 1 \in Nat
        BY <1>0 DEF PostedRequest
      <3> QED BY <1>0, <3>1, Zenon DEF PostedRequest
    <2> HIDE DEF one
    <2>3. PostInv'
      BY <1>0, <1>1, <2>1, <2>2, Zenon DEF PostInv
    <2>4. LogTypes' /\ OrderInv' /\ NothingVanishes'
      BY <1>0, <1>1, <2>1, Zenon DEF LogTypes, OrderInv, NothingVanishes, Held
    <2> QED BY <1>0, <1>1, <2>1, <2>3, <2>4, Zenon DEF LogInv
  <1>3. ASSUME NEW o \in {"stored", "failed", "refused"}, Answer(r, o) PROVE PostInv'
    <2>1. requests' = requests \ {r} /\ logPc' = IF r.waited THEN o ELSE logPc
      BY <1>3, Zenon DEF Answer
    <2>2. \A p \in requests' : p.waited => ~r.waited
      BY <1>0, <2>1, Zenon DEF PostInv
    <2> QED BY <1>0, <1>1, <2>1, <2>2, Zenon DEF PostInv
  <1>4. CASE Commit(r)
    <2>1. stored' = stored \o r.entries /\ Answer(r, "stored") /\ logPc' = IF r.waited THEN "stored" ELSE logPc
      BY <1>4, Zenon DEF Commit, Answer
    <2>2. stored \in Seq(Nat) /\ r.entries \in Seq(Nat) /\ buffer \in Seq(Nat) /\ logged \in Nat /\ Upto(stored, logged)
      BY <1>0, Zenon DEF LogTypes, PostedRequest
    <2>3. stored' \in Seq(Nat) /\ Range(stored') = Range(stored) \cup Range(r.entries) /\ Upto(stored', logged)
      BY <1>0, <2>1, <2>2, ConcatOf, Zenon
    <2>4. LogTypes'
      BY <1>0, <1>1, <2>3, Zenon DEF LogTypes
    <2>5. OrderInv'
      <3>1. Increasing(batch) /\ Increasing(buffer) /\ Below(batch, buffer)
        BY <1>0, Zenon DEF OrderInv
      <3>2. ASSUME ~broken PROVE r.waited /\ Increasing(stored') /\ Below(stored', buffer)
        <4>1. r.waited /\ r.entries = batch /\ logPc = "wait"
          BY <1>0, <3>2, Zenon DEF PostInv
        <4>2. Increasing(stored) /\ Below(stored, buffer) /\ Below(stored, batch)
          BY <1>0, <3>2, <4>1, Zenon DEF OrderInv
        <4> QED BY <2>1, <2>2, <3>1, <4>1, <4>2, ConcatOf, Zenon
      <3>3. r.waited => logPc' = "stored"
        BY <2>1, Zenon
      <3> QED BY <1>1, <3>1, <3>2, <3>3, Zenon DEF OrderInv
    <2>6. NothingVanishes'
      <3>1. Held' = Held
        BY <1>1, Zenon DEF Held
      <3> QED BY <1>0, <1>1, <2>3, <3>1, Zenon DEF NothingVanishes
    <2>7. logPc' = "stored" => Range(batch) \subseteq Range(stored')
      BY <1>0, <2>1, <2>3, Zenon
    <2>8. logPc' \in {"idle", "returned"} => batch = <<>>
      BY <1>0, <2>1, Zenon
    <2> QED BY <1>1, <1>3, <2>1, <2>4, <2>5, <2>6, <2>7, <2>8, Zenon DEF LogInv
  <1>5. ASSUME NEW o \in {"failed", "refused"}, Answer(r, o), UNCHANGED stored PROVE LogInv'
    <2>1. logPc' = IF r.waited THEN o ELSE logPc
      BY <1>5, Zenon DEF Answer
    <2>2. (logPc' = "stored" => logPc = "stored") /\ (logPc = "stored" => logPc' = "stored")
          /\ (logPc' \in {"idle", "returned"} => logPc \in {"idle", "returned"})
      BY <1>0, <2>1, Zenon
    <2>3. LogTypes' /\ NothingVanishes'
      BY <1>0, <1>1, <1>5, Zenon DEF LogTypes, NothingVanishes, Held
    <2>4. OrderInv'
      BY <1>0, <1>1, <1>5, <2>2, Zenon DEF OrderInv
    <2>5. PostInv'
      BY <1>3, <1>5, Zenon
    <2> QED BY <1>0, <1>1, <1>5, <2>2, <2>3, <2>4, <2>5, Zenon DEF LogInv
  <1>6. CASE Rollback(r)
    BY <1>5, <1>6, Zenon DEF Rollback
  <1>7. CASE Refuse(r)
    BY <1>5, <1>7, Zenon DEF Refuse
  <1> QED BY <1>2, <1>4, <1>6, <1>7, Zenon

\* Connections that break or stall, and the end of the process.
LEMMA ConnectionsKeep ==
  ASSUME LogInv, Break \/ Stall \/ LogStop \/ Cancelled \/ Exit \/ ReturnEmpty
  PROVE  LogInv'
  <1>0. /\ LogTypes /\ PostInv /\ OrderInv /\ NothingVanishes
        /\ logPc \in {"idle", "returned"} => batch = <<>>
        /\ logPc = "stored" => Range(batch) \subseteq Range(stored)
    BY Zenon DEF LogInv
  <1>1. /\ UNCHANGED <<logged, buffer, batch, stored, dropped>> /\ logFaults' \in Nat
        /\ agent' \in {"up", "stopping", "down"} /\ (agent = "down" => agent' = "down")
    BY <1>0 DEF Break, Stall, LogStop, Cancelled, Exit, ReturnEmpty, LogFault, LogTypes
  <1>2. LogTypes' /\ NothingVanishes'
    BY <1>0, <1>1, Zenon DEF LogTypes, NothingVanishes, Held
  <1>3. ASSUME requests' = {[r EXCEPT !.waited = FALSE] : r \in requests}, broken' \/ requests = {}
        PROVE  PostInv'
    <2>1. \A r \in requests : /\ [r EXCEPT !.waited = FALSE] \in PostedRequest
                              /\ [r EXCEPT !.waited = FALSE].waited = FALSE
                              /\ [r EXCEPT !.waited = FALSE].entries = r.entries
      BY <1>0, Zenon DEF PostInv, PostedRequest
    <2>2. \A q \in requests' : q \in PostedRequest /\ ~q.waited /\ Upto(q.entries, logged)
      BY <1>0, <1>3, <2>1, Zenon DEF PostInv
    <2>3. broken' \/ requests' = {}
      BY <1>3, Zenon
    <2> QED BY <1>1, <2>2, <2>3, Zenon DEF PostInv
  <1>4. CASE Break \/ Cancelled
    <2>1. /\ requests' = {[r EXCEPT !.waited = FALSE] : r \in requests} /\ broken' = TRUE
          /\ logPc' = "failed" /\ logPc = "wait"
      BY <1>4, Zenon DEF Break, Cancelled, Abandon
    <2>2. OrderInv'
      BY <1>0, <1>1, <2>1, Zenon DEF OrderInv
    <2>3. logPc' \notin {"idle", "returned", "stored"}
      BY <2>1, Zenon
    <2> QED BY <1>2, <1>3, <2>1, <2>2, <2>3, Zenon DEF LogInv
  <1>5. CASE Exit
    <2>1. /\ requests' = {[r EXCEPT !.waited = FALSE] : r \in requests} /\ broken' = (broken \/ requests # {})
          /\ logPc' = logPc
      BY <1>5, Zenon DEF Exit
    <2>2. (broken' \/ requests = {}) /\ (~broken' => ~broken)
      BY <2>1, Zenon
    <2>3. OrderInv'
      BY <1>0, <1>1, <2>1, <2>2, Zenon DEF OrderInv
    <2> QED BY <1>0, <1>1, <1>2, <1>3, <2>1, <2>2, <2>3, Zenon DEF LogInv
  <1>6. CASE Stall
    <2>1. requests' = {r \in requests : ~r.waited} /\ UNCHANGED <<logPc, broken>>
      BY <1>6, Zenon DEF Stall
    <2>2. PostInv'
      BY <1>0, <1>1, <2>1, Zenon DEF PostInv
    <2>3. OrderInv'
      BY <1>0, <1>1, <2>1, Zenon DEF OrderInv
    <2> QED BY <1>0, <1>1, <1>2, <2>1, <2>2, <2>3, Zenon DEF LogInv
  <1>7. CASE LogStop
    <2>1. UNCHANGED <<requests, logPc, broken>>
      BY <1>7, Zenon DEF LogStop
    <2>2. PostInv' /\ OrderInv'
      BY <1>0, <1>1, <2>1, Zenon DEF PostInv, OrderInv
    <2> QED BY <1>0, <1>1, <1>2, <2>1, <2>2, Zenon DEF LogInv
  <1>8. CASE ReturnEmpty
    <2>1. UNCHANGED <<requests, broken>> /\ logPc = "idle" /\ logPc' = "returned"
      BY <1>8, Zenon DEF ReturnEmpty
    <2>2. logPc # "stored" /\ logPc' # "stored" /\ \A r \in requests : ~r.waited
      BY <1>0, <2>1, Zenon DEF PostInv
    <2>3. PostInv' /\ OrderInv'
      BY <1>0, <1>1, <2>1, <2>2, Zenon DEF PostInv, OrderInv
    <2> QED BY <1>0, <1>1, <1>2, <2>1, <2>2, <2>3, Zenon DEF LogInv
  <1> QED BY <1>4, <1>5, <1>6, <1>7, <1>8, Zenon

\* The inductive invariant of the shipper, for any buffer, batch and number of
\* faults.
THEOREM ShipperInvariant == LogSpec => []LogInv
  <1>1. LogInit => LogInv
    <2> SUFFICES ASSUME LogInit PROVE LogInv
      BY Zenon
    <2>1. LogTypes
      BY EmptyOf, Zenon DEF LogInit, LogTypes
    <2>2. PostInv /\ OrderInv
      BY EmptyOf, Zenon DEF LogInit, PostInv, OrderInv
    <2>3. NothingVanishes
      BY DEF LogInit, NothingVanishes
    <2>4. batch = <<>> /\ logPc # "stored"
      BY Zenon DEF LogInit
    <2> QED BY <2>1, <2>2, <2>3, <2>4, Zenon DEF LogInv
  <1>2. LogInv /\ [LogNext]_logVars => LogInv'
    <2> SUFFICES ASSUME LogInv, [LogNext]_logVars PROVE LogInv'
      BY Zenon
    <2>1. CASE UNCHANGED logVars
      BY <2>1, Zenon DEF logVars, LogInv, LogTypes, PostInv, OrderInv, NothingVanishes, Held
    <2>2. CASE Done
      BY <2>1, <2>2, Zenon DEF Done
    <2> QED
      BY <2>1, <2>2, HandleKeeps, FlushKeeps, RebufferKeeps, AnsweredKeeps, ServerKeeps, ConnectionsKeep, Zenon
      DEF LogNext, Shipper, Ingest
  <1> QED BY <1>1, <1>2, PTL DEF LogSpec

\* No entry vanishes while the agent runs, what waits is in the order of logging,
\* and unless a connection breaks the server stores every entry once and in order
\* (shipper.go, logs.go), for any buffer, batch and number of faults.
THEOREM ShipperHolds == LogSpec => []ShippedInOrder
  <1>1. LogInv => ShippedInOrder
    <2> SUFFICES ASSUME LogInv PROVE ShippedInOrder
      BY Zenon
    <2>1. BufferInOrder
      BY ConcatOf, Zenon DEF LogInv, LogTypes, OrderInv, BufferInOrder
    <2> QED BY <2>1, Zenon DEF LogInv, OrderInv, OnceInOrderUnlessBroken, ShippedInOrder
  <1> QED BY <1>1, ShipperInvariant, PTL

-----------------------------------------------------------------------------
(* Rate limits *)

\* The line a bucket fills along, without the cap, at the moment 0
Base(b) == b.tokens - b.lastTime
AllGranted(t, k, s) == granted[t][k][s][MaxTime]

\* A request that waits for the lock has not read the clock long ago.
WaitInv(r) ==
    /\ rlReq[r].at \in Tier
    /\ rlReq[r].pc = "locking" =>
         /\ rlReq[r].key \in RlKeys[rlReq[r].at] /\ rlReq[r].now \in Time
         /\ rlReq[r].now <= clock /\ clock - rlReq[r].now <= MaxLag

\* What a bucket that refills in time lacks of its burst covers all that was granted from s on.
Covered(t, k, base) ==
    RefillsInTime(t) => \A s \in Time : AllGranted(t, k, s) > 0 => base + AllGranted(t, k, s) <= Full(t) - s

BucketInv(t, k) ==
    LET b == buckets[t][k] IN
      /\ b.tokens \in Int /\ b.lastTime \in Int /\ b.lastTime <= clock
      /\ b.tokens >= -MaxLag /\ Base(b) + clock >= 0
      /\ Covered(t, k, Base(b))

\* Of a key without a bucket, all that was granted has flowed in again.
AbsentInv(t, k) ==
    RefillsInTime(t) => \A s \in Time : AllGranted(t, k, s) > 0 => AllGranted(t, k, s) + s + MaxLag <= clock

GrantInv(t, k) ==
    \A s, e \in Time : /\ granted[t][k][s][e] \in Nat /\ granted[t][k][s][e] <= AllGranted(t, k, s)
                       /\ s <= e /\ RefillsInTime(t) => granted[t][k][s][e] <= Full(t) + (e - s)

PromiseInv(t, k) ==
    /\ promise[t][k] \in Int
    /\ (promise[t][k] # Never /\ k \in DOMAIN buckets[t]) => Level(buckets[t][k], promise[t][k]) >= Token

KeyInv(t, k) ==
    /\ IF k \in DOMAIN buckets[t] THEN BucketInv(t, k) ELSE AbsentInv(t, k)
    /\ GrantInv(t, k) /\ PromiseInv(t, k)

\* The inductive invariant of the limiters.
LimiterInv ==
    /\ clock \in Time /\ \A r \in RlRequests : WaitInv(r)
    /\ DOMAIN buckets = Tier /\ DOMAIN rlReq = RlRequests /\ DOMAIN calls = Tier
    /\ DOMAIN granted = Tier /\ DOMAIN promise = Tier
    /\ \A t \in Tier :
         /\ DOMAIN buckets[t] \subseteq RlKeys[t]
         /\ DOMAIN granted[t] = RlKeys[t] /\ DOMAIN promise[t] = RlKeys[t]
         /\ \A k \in RlKeys[t] : KeyInv(t, k)

\* The two-element minimum of Allow and the maximum of Retry-After.
LEMMA MinOf ==
    ASSUME NEW a \in Int, NEW b \in Int
    PROVE  Min({a, b}) \in Int /\ Min({a, b}) <= a /\ Min({a, b}) <= b /\ Min({a, b}) \in {a, b}
<1>1. CASE a <= b
  <2>1. a \in {a, b} /\ \A y \in {a, b} : a <= y
    BY <1>1
  <2>2. Min({a, b}) \in {a, b} /\ \A y \in {a, b} : Min({a, b}) <= y
    BY <2>1, Zenon DEF Min
  <2> QED
    BY <2>2
<1>2. CASE b <= a
  <2>1. b \in {a, b} /\ \A y \in {a, b} : b <= y
    BY <1>2
  <2>2. Min({a, b}) \in {a, b} /\ \A y \in {a, b} : Min({a, b}) <= y
    BY <2>1, Zenon DEF Min
  <2> QED
    BY <2>2
<1> QED
  BY <1>1, <1>2

\* Retry-After is a whole number of seconds, at least one and at least the wait.
LEMMA MaxOf ==
    ASSUME NEW a \in Int, NEW b \in Int
    PROVE  Max({a, b}) \in Int /\ Max({a, b}) >= a /\ Max({a, b}) >= b
<1>1. CASE a >= b
  <2>1. a \in {a, b} /\ \A y \in {a, b} : a >= y
    BY <1>1
  <2>2. Max({a, b}) \in {a, b} /\ \A y \in {a, b} : Max({a, b}) >= y
    BY <2>1, Zenon DEF Max
  <2> QED
    BY <2>2
<1>2. CASE b >= a
  <2>1. b \in {a, b} /\ \A y \in {a, b} : b >= y
    BY <1>2
  <2>2. Max({a, b}) \in {a, b} /\ \A y \in {a, b} : Max({a, b}) >= y
    BY <2>1, Zenon DEF Max
  <2> QED
    BY <2>2
<1> QED
  BY <1>1, <1>2

\* A burst is at least one token, and what it means to refill in time.
LEMMA FullOf ==
    ASSUME NEW t \in Tier
    PROVE  /\ Full(t) \in Nat /\ Full(t) >= Token /\ (RefillsInTime(t) => Full(t) + 2 * MaxLag <= TTL[t] + 1)
           /\ Token \in Nat /\ MaxLag \in Nat /\ TTL[t] \in Nat /\ MaxTime \in Nat /\ Token > 0
<1>1. Burst[t] \in Nat /\ Burst[t] >= 1 /\ Token \in Nat /\ Token >= 1
  BY RateLimiterAssumption DEF Tier
<1>2. Burst[t] * Token \in Nat /\ Burst[t] * Token >= Token
  BY <1>1
<1> QED
  BY <1>1, <1>2, RateLimiterAssumption DEF Tier, Full, RefillsInTime

\* limiter t now has the buckets bs but for idle ones
Cleaned(t, bs, now) ==
    /\ DOMAIN buckets' = Tier /\ DOMAIN calls' = Tier
    /\ \A u \in Tier : u # t => buckets'[u] = buckets[u]
    /\ DOMAIN buckets'[t] \subseteq DOMAIN bs
    /\ \A j \in DOMAIN buckets'[t] : buckets'[t][j] = bs[j]
    /\ \A j \in DOMAIN bs : j \notin DOMAIN buckets'[t] => ~(bs[j].lastTime >= now - TTL[t])

\* maybeCleanup removes idle buckets of one limiter and changes no other.
LEMMA CleanupOf ==
    ASSUME NEW t \in Tier, NEW bs, NEW now, DOMAIN buckets = Tier, DOMAIN calls = Tier, maybeCleanup(t, bs, now)
    PROVE  Cleaned(t, bs, now)
<1> DEFINE kept == [k \in Kept(t, bs, now) |-> bs[k]]
<1>1. DOMAIN kept = Kept(t, bs, now) /\ \A k \in Kept(t, bs, now) : kept[k] = bs[k]
  OBVIOUS
<1>2. /\ DOMAIN buckets' = Tier /\ DOMAIN calls' = Tier
      /\ \A u \in Tier : u # t => buckets'[u] = buckets[u]
      /\ buckets'[t] = kept \/ buckets'[t] = bs
  BY DEF maybeCleanup
<1> HIDE DEF kept
<1> QED
  BY <1>1, <1>2, Zenon DEF Kept, Cleaned

\* Allow stores the bucket c of the key k of limiter t, at the reading now
Stored(t, k, now, c) ==
    /\ t \in Tier /\ k \in RlKeys[t] /\ now \in Time /\ now <= clock /\ c.lastTime = now /\ clock' = clock
    /\ maybeCleanup(t, [j \in DOMAIN buckets[t] \cup {k} |-> IF j = k THEN c ELSE buckets[t][j]], now)
    /\ \A u \in Tier : \A j \in RlKeys[u] : ~(u = t /\ j = k) =>
          granted'[u][j] = granted[u][j] /\ promise'[u][j] = promise[u][j]

\* what this leaves of the other keys
EvictedFull ==
    \A u \in Tier : RefillsInTime(u) => \A j \in DOMAIN buckets[u] \ DOMAIN buckets'[u] : Level(buckets[u][j], clock) >= Full(u)
OthersInv(t, k, c) ==
    /\ DOMAIN buckets' = Tier /\ DOMAIN calls' = Tier
    /\ \A u \in Tier : DOMAIN buckets'[u] \subseteq RlKeys[u]
    /\ k \in DOMAIN buckets'[t] /\ buckets'[t][k] = c
    /\ \A u \in Tier : \A j \in RlKeys[u] : ~(u = t /\ j = k) => KeyInv(u, j)'
    /\ EvictedFull

\* Serving one key leaves the other keys of all limiters as they were, but for eviction.
LEMMA OthersKept ==
    ASSUME LimiterInv, NEW t, NEW k, NEW now, NEW c, Stored(t, k, now, c)
    PROVE  OthersInv(t, k, c)
<1>s. /\ t \in Tier /\ k \in RlKeys[t] /\ now \in Time /\ now <= clock /\ c.lastTime = now /\ clock' = clock
      /\ maybeCleanup(t, [j \in DOMAIN buckets[t] \cup {k} |-> IF j = k THEN c ELSE buckets[t][j]], now)
      /\ \A u \in Tier : \A j \in RlKeys[u] : ~(u = t /\ j = k) =>
            granted'[u][j] = granted[u][j] /\ promise'[u][j] = promise[u][j]
  BY Zenon DEF Stored
<1> USE <1>s
<1> DEFINE bs == [j \in DOMAIN buckets[t] \cup {k} |-> IF j = k THEN c ELSE buckets[t][j]]
<1>0. clock \in Int /\ now \in Int /\ MaxTime \in Time
  BY RateLimiterAssumption DEF LimiterInv, KeyInv, Time
<1>1. DOMAIN bs = DOMAIN buckets[t] \cup {k} /\ bs[k] = c /\ \A j \in DOMAIN buckets[t] : j # k => bs[j] = buckets[t][j]
  OBVIOUS
<1> HIDE DEF bs
<1>a. maybeCleanup(t, bs, now) /\ DOMAIN buckets = Tier /\ DOMAIN calls = Tier
  BY Zenon DEF LimiterInv, KeyInv, bs
<1>2. /\ DOMAIN buckets' = Tier /\ DOMAIN calls' = Tier
      /\ \A u \in Tier : u # t => buckets'[u] = buckets[u]
      /\ DOMAIN buckets'[t] \subseteq DOMAIN bs
      /\ \A j \in DOMAIN buckets'[t] : buckets'[t][j] = bs[j]
      /\ \A j \in DOMAIN bs : j \notin DOMAIN buckets'[t] => ~(bs[j].lastTime >= now - TTL[t])
  <2>1. Cleaned(t, bs, now)
    BY <1>a, CleanupOf, Zenon
  <2> QED
    BY <2>1, Zenon DEF Cleaned
<1>3. now >= now - TTL[t]
  BY <1>0, FullOf
<1>4. k \in DOMAIN buckets'[t] /\ buckets'[t][k] = c
  BY <1>1, <1>2, <1>3, Zenon
<1>5. ASSUME NEW u \in Tier PROVE DOMAIN buckets'[u] \subseteq RlKeys[u]
  <2>1. DOMAIN buckets[u] \subseteq RlKeys[u]
    BY Zenon DEF LimiterInv
  <2>2. CASE u = t
    BY <2>1, <2>2, <1>1, <1>2, Zenon
  <2>3. CASE u # t
    BY <2>1, <2>3, <1>2, Zenon
  <2> QED
    BY <2>2, <2>3, Zenon
<1>6. ASSUME NEW u \in Tier, NEW j \in RlKeys[u], ~(u = t /\ j = k)
      PROVE  /\ j \in DOMAIN buckets'[u] => j \in DOMAIN buckets[u] /\ buckets'[u][j] = buckets[u][j]
             /\ j \in DOMAIN buckets[u] => \/ j \in DOMAIN buckets'[u]
                                           \/ ~(buckets[u][j].lastTime >= now - TTL[u])
  <2>1. CASE u # t
    BY <2>1, <1>2, Zenon
  <2>2. CASE u = t
    <3>1. j # k /\ (j \in DOMAIN bs <=> j \in DOMAIN buckets[t])
      BY <2>2, <1>6, <1>1, Zenon
    <3>2. j \in DOMAIN buckets[t] => bs[j] = buckets[t][j]
      BY <3>1, <1>1, Zenon
    <3>3. j \in DOMAIN buckets'[t] => j \in DOMAIN bs /\ buckets'[t][j] = bs[j]
      BY <1>2, Zenon
    <3>4. j \in DOMAIN bs /\ j \notin DOMAIN buckets'[t] => ~(bs[j].lastTime >= now - TTL[t])
      BY <1>2, Zenon
    <3> QED
      BY <2>2, <3>1, <3>2, <3>3, <3>4, Zenon
  <2> QED
    BY <2>1, <2>2, Zenon
<1>7. ASSUME NEW u \in Tier, NEW j \in RlKeys[u], ~(u = t /\ j = k), j \in DOMAIN buckets[u], j \notin DOMAIN buckets'[u],
             RefillsInTime(u)
      PROVE  Base(buckets[u][j]) + clock >= Full(u) + MaxLag
  <2>1. BucketInv(u, j)
    BY <1>7, Zenon DEF LimiterInv, KeyInv
  <2>2. ~(buckets[u][j].lastTime >= now - TTL[u])
    BY <1>6, <1>7, Zenon
  <2> QED
    BY <2>1, <2>2, <1>0, <1>7, FullOf DEF BucketInv, Base
<1>8. ASSUME NEW u \in Tier, NEW j \in RlKeys[u], ~(u = t /\ j = k)
      PROVE  IF j \in DOMAIN buckets'[u] THEN BucketInv(u, j)' ELSE AbsentInv(u, j)'
  <2>0. \A s \in Time : AllGranted(u, j, s)' = AllGranted(u, j, s)
    BY <1>8, Zenon DEF AllGranted
  <2>1. CASE j \in DOMAIN buckets'[u]
    <3>1. BucketInv(u, j) /\ buckets'[u][j] = buckets[u][j]
      BY <2>1, <1>6, <1>8, Zenon DEF LimiterInv, KeyInv
    <3>2. Covered(u, j, Base(buckets[u][j]))'
      BY <3>1, <2>0, Zenon DEF BucketInv, Covered, Base
    <3> QED
      BY <3>1, <3>2, <2>1, Zenon DEF BucketInv, Base
  <2>2. CASE j \notin DOMAIN buckets'[u] /\ j \notin DOMAIN buckets[u]
    <3>1. AbsentInv(u, j)
      BY <2>2, Zenon DEF LimiterInv, KeyInv
    <3> QED
      BY <3>1, <2>0, <2>2, Zenon DEF AbsentInv
  <2>3. CASE j \notin DOMAIN buckets'[u] /\ j \in DOMAIN buckets[u]
    <3>1. BucketInv(u, j) /\ GrantInv(u, j)
      BY <2>3, Zenon DEF LimiterInv, KeyInv
    <3>2. RefillsInTime(u) => Base(buckets[u][j]) + clock >= Full(u) + MaxLag
      BY <1>7, <1>8, <2>3, Zenon
    <3>3. Base(buckets[u][j]) \in Int
      BY <3>1 DEF BucketInv, Base
    <3>4. ASSUME RefillsInTime(u), NEW s \in Time, AllGranted(u, j, s) > 0
          PROVE  AllGranted(u, j, s) + s + MaxLag <= clock
      <4>1. AllGranted(u, j, s) \in Nat
        BY <3>1, <1>0, Zenon DEF GrantInv, AllGranted
      <4>2. Base(buckets[u][j]) + AllGranted(u, j, s) <= Full(u) - s
        BY <3>1, <3>4, Zenon DEF BucketInv, Covered
      <4>3. s \in Int
        BY DEF Time
      <4> QED
        BY <4>1, <4>2, <4>3, <3>2, <3>3, <3>4, <1>0, FullOf
    <3> QED
      BY <3>4, <2>0, <2>3, Zenon DEF AbsentInv
  <2> QED
    BY <2>1, <2>2, <2>3, Zenon
<1>9. ASSUME NEW u \in Tier, NEW j \in RlKeys[u], ~(u = t /\ j = k)
      PROVE  GrantInv(u, j)' /\ PromiseInv(u, j)'
  <2>1. GrantInv(u, j) /\ PromiseInv(u, j)
    BY Zenon DEF LimiterInv, KeyInv
  <2> QED
    BY <2>1, <1>6, <1>9, Zenon DEF GrantInv, AllGranted, PromiseInv, Level
<1>10. ASSUME NEW u \in Tier, RefillsInTime(u), NEW j \in DOMAIN buckets[u] \ DOMAIN buckets'[u]
       PROVE  Level(buckets[u][j], clock) >= Full(u)
  <2>1. j \in RlKeys[u] /\ ~(u = t /\ j = k) /\ BucketInv(u, j)
    BY <1>4, Zenon DEF LimiterInv, KeyInv
  <2>2. Base(buckets[u][j]) + clock >= Full(u) + MaxLag
    BY <2>1, <1>7, <1>10, Zenon
  <2> QED
    BY <2>1, <2>2, <1>0, FullOf DEF BucketInv, Base, Level
<1>11. \A u \in Tier : \A j \in RlKeys[u] : ~(u = t /\ j = k) => KeyInv(u, j)'
  BY <1>8, <1>9, Zenon DEF KeyInv
<1> QED
  BY <1>2, <1>4, <1>5, <1>10, <1>11, Zenon DEF OthersInv, EvictedFull

\* Before Allow takes a token, the key's bucket covers what was granted, old or new.
LEMMA BucketOf ==
    ASSUME LimiterInv, NEW t \in Tier, NEW k \in RlKeys[t], NEW now \in Time, now <= clock, clock - now <= MaxLag
    PROVE  LET o == Bucket(t, k, now) IN
             /\ o.tokens \in Int /\ o.lastTime \in Int /\ Base(o) \in Int
             /\ Base(o) + clock >= 0 /\ Covered(t, k, Base(o))
             /\ k \notin DOMAIN buckets[t] => Base(o) = Full(t) - now
             /\ k \in DOMAIN buckets[t] => o = buckets[t][k]
<1>0. clock \in Int /\ now \in Int /\ MaxTime \in Time
  BY RateLimiterAssumption DEF LimiterInv, KeyInv, Time
<1>1. CASE k \in DOMAIN buckets[t]
  <2>1. BucketInv(t, k) /\ Bucket(t, k, now) = buckets[t][k]
    BY <1>1, Zenon DEF LimiterInv, KeyInv, Bucket
  <2>2. Base(buckets[t][k]) \in Int
    BY <2>1 DEF BucketInv, Base
  <2> QED
    BY <1>1, <2>1, <2>2, Zenon DEF BucketInv
<1>2. CASE k \notin DOMAIN buckets[t]
  <2> DEFINE o == [tokens |-> Full(t), lastTime |-> now]
  <2>1. AbsentInv(t, k) /\ GrantInv(t, k) /\ Bucket(t, k, now) = o
    BY <1>2, Zenon DEF LimiterInv, KeyInv, Bucket
  <2>2. o.tokens = Full(t) /\ o.lastTime = now
    OBVIOUS
  <2> HIDE DEF o
  <2>3. Base(o) \in Int /\ Base(o) = Full(t) - now /\ Base(o) + clock >= 0
    BY <2>2, <1>0, FullOf DEF Base
  <2>4. ASSUME RefillsInTime(t), NEW s \in Time, AllGranted(t, k, s) > 0
        PROVE  Base(o) + AllGranted(t, k, s) <= Full(t) - s
    <3>1. AllGranted(t, k, s) \in Nat
      BY <2>1, <1>0, Zenon DEF GrantInv, AllGranted
    <3>2. AllGranted(t, k, s) + s + MaxLag <= clock
      BY <2>1, <2>4, Zenon DEF AbsentInv
    <3>3. s \in Int
      BY DEF Time
    <3> QED
      BY <3>1, <3>2, <3>3, <2>3, <1>0, FullOf
  <2>5. Covered(t, k, Base(o))
    BY <2>4, Zenon DEF Covered
  <2>6. Full(t) \in Int /\ now \in Int
    BY <1>0, FullOf
  <2> QED
    BY <1>2, <2>1, <2>2, <2>3, <2>5, <2>6, Zenon
<1> QED
  BY <1>1, <1>2, Zenon

\* Allow takes a token from the level it finds
Paid(t, k, now, base, level, c) ==
    /\ t \in Tier /\ k \in RlKeys[t] /\ now \in Time /\ now <= clock /\ clock - now <= MaxLag
    /\ base \in Int /\ Covered(t, k, base) /\ level \in Int
    /\ level <= base + now /\ level <= Full(t) /\ level >= Token
    /\ c.tokens = level - Token /\ c.lastTime = now /\ clock' = clock
    /\ k \in DOMAIN buckets'[t] /\ buckets'[t][k] = c
    /\ granted'[t][k] = Granting(granted[t][k], now) /\ promise'[t][k] = Never

\* An allowed request: the bucket pays for what is granted.
LEMMA AllowedKeeps ==
    ASSUME LimiterInv, NEW t, NEW k, NEW now, NEW base, NEW level, NEW c, Paid(t, k, now, base, level, c)
    PROVE  KeyInv(t, k)'
<1>s. /\ t \in Tier /\ k \in RlKeys[t] /\ now \in Time /\ now <= clock /\ clock - now <= MaxLag
      /\ base \in Int /\ Covered(t, k, base) /\ level \in Int
      /\ level <= base + now /\ level <= Full(t) /\ level >= Token
      /\ c.tokens = level - Token /\ c.lastTime = now /\ clock' = clock
      /\ k \in DOMAIN buckets'[t] /\ buckets'[t][k] = c
      /\ granted'[t][k] = Granting(granted[t][k], now) /\ promise'[t][k] = Never
  BY Zenon DEF Paid
<1> USE <1>s
<1>0. /\ clock \in Int /\ now \in Int /\ MaxTime \in Time /\ MaxTime \in Int /\ now <= MaxTime
      /\ \A s \in Time : s \in Int /\ s <= MaxTime
  BY RateLimiterAssumption DEF LimiterInv, KeyInv, Time
<1>1. GrantInv(t, k)
  BY Zenon DEF LimiterInv, KeyInv
<1>2. \A s, e \in Time : granted'[t][k][s][e] = IF s <= now /\ now <= e THEN granted[t][k][s][e] + Token
                                                                        ELSE granted[t][k][s][e]
  BY DEF Granting
<1>3. \A s \in Time : AllGranted(t, k, s)' = IF s <= now THEN AllGranted(t, k, s) + Token ELSE AllGranted(t, k, s)
  BY <1>0, <1>2, Zenon DEF AllGranted
<1>4. \A s \in Time : AllGranted(t, k, s) \in Nat
  BY <1>0, <1>1, Zenon DEF GrantInv, AllGranted
<1>5. Base(c) \in Int /\ Base(c) = level - Token - now /\ Base(c) + now >= 0
  BY <1>0, FullOf DEF Base
<1>6. ASSUME RefillsInTime(t), NEW s \in Time, AllGranted(t, k, s)' > 0
      PROVE  Base(c) + AllGranted(t, k, s)' <= Full(t) - s
  <2>1. AllGranted(t, k, s) > 0 => base + AllGranted(t, k, s) <= Full(t) - s
    BY <1>6, Zenon DEF Covered
  <2>2. CASE AllGranted(t, k, s) > 0
    <3>1. base + AllGranted(t, k, s) <= Full(t) - s
      BY <2>1, <2>2, Zenon
    <3>2. AllGranted(t, k, s)' <= AllGranted(t, k, s) + Token /\ AllGranted(t, k, s)' \in Nat
          /\ (s <= now \/ AllGranted(t, k, s)' = AllGranted(t, k, s))
      BY <1>3, <1>4, FullOf
    <3>3. s \in Int /\ AllGranted(t, k, s) \in Nat
      BY <1>0, <1>4, Zenon
    <3> QED
      BY <3>1, <3>2, <3>3, <1>0, <1>5, FullOf
  <2>3. CASE ~(AllGranted(t, k, s) > 0)
    BY <2>3, <1>0, <1>3, <1>4, <1>5, <1>6, FullOf
  <2> QED
    BY <2>2, <2>3, Zenon
<1>7. BucketInv(t, k)'
  <2>1. Covered(t, k, Base(c))'
    BY <1>6, Zenon DEF Covered, Base
  <2>2. c.tokens \in Int /\ c.lastTime \in Int /\ c.lastTime <= clock' /\ c.tokens >= -MaxLag /\ Base(c) + clock' >= 0
    BY <1>0, <1>5, FullOf
  <2> QED
    BY <2>1, <2>2, Zenon DEF BucketInv, Base
<1>8. GrantInv(t, k)'
  <2> SUFFICES ASSUME NEW s \in Time, NEW e \in Time
               PROVE  /\ granted'[t][k][s][e] \in Nat /\ granted'[t][k][s][e] <= AllGranted(t, k, s)'
                      /\ s <= e /\ RefillsInTime(t) => granted'[t][k][s][e] <= Full(t) + (e - s)
    BY Zenon DEF GrantInv, AllGranted
  <2>1. /\ granted[t][k][s][e] \in Nat /\ granted[t][k][s][e] <= AllGranted(t, k, s)
        /\ s <= e /\ RefillsInTime(t) => granted[t][k][s][e] <= Full(t) + (e - s)
    BY <1>1, Zenon DEF GrantInv
  <2>2. AllGranted(t, k, s) \in Nat /\ s \in Int /\ e \in Int
    BY <1>0, <1>4, Zenon
  <2>3. CASE s <= now /\ now <= e
    <3>1. /\ granted'[t][k][s][e] = granted[t][k][s][e] + Token
          /\ AllGranted(t, k, s)' = AllGranted(t, k, s) + Token
      BY <2>3, <1>2, <1>3, Zenon
    <3>2. AllGranted(t, k, s)' > 0
      BY <3>1, <2>2, FullOf
    <3>3. RefillsInTime(t) => Base(c) + AllGranted(t, k, s)' <= Full(t) - s
      BY <3>2, <1>6, Zenon
    <3> QED
      BY <3>1, <3>3, <2>1, <2>2, <2>3, <1>0, <1>5, FullOf, SMTT(30)
  <2>4. CASE ~(s <= now /\ now <= e)
    <3>1. granted'[t][k][s][e] = granted[t][k][s][e]
      BY <2>4, <1>2, Zenon
    <3>2. AllGranted(t, k, s)' >= AllGranted(t, k, s) /\ AllGranted(t, k, s)' \in Nat
      BY <2>2, <1>3, FullOf
    <3> QED
      BY <3>1, <3>2, <2>1, <2>2
  <2> QED
    BY <2>3, <2>4, Zenon
<1>9. PromiseInv(t, k)'
  BY <1>0, FullOf DEF PromiseInv, Never
<1> QED
  BY <1>7, <1>8, <1>9, Zenon DEF KeyInv

\* Allow finds too little
Refused(t, k, now, level, c) ==
    /\ t \in Tier /\ k \in RlKeys[t] /\ now \in Time /\ now <= clock /\ clock - now <= MaxLag
    /\ k \in DOMAIN buckets[t] /\ level \in Int /\ level = Base(buckets[t][k]) + now /\ level < Token
    /\ c.tokens = level /\ c.lastTime = now /\ clock' = clock
    /\ k \in DOMAIN buckets'[t] /\ buckets'[t][k] = c /\ granted' = granted
    /\ promise'[t][k] = Min({promise[t][k], now + RetryAfter(level)})

\* A refused request finds a bucket, moves it along its own line, and is told the truth.
LEMMA RefusedKeeps ==
    ASSUME LimiterInv, NEW t, NEW k, NEW now, NEW level, NEW c, Refused(t, k, now, level, c)
    PROVE  KeyInv(t, k)'
<1>s. /\ t \in Tier /\ k \in RlKeys[t] /\ now \in Time /\ now <= clock /\ clock - now <= MaxLag
      /\ k \in DOMAIN buckets[t] /\ level \in Int /\ level = Base(buckets[t][k]) + now /\ level < Token
      /\ c.tokens = level /\ c.lastTime = now /\ clock' = clock
      /\ k \in DOMAIN buckets'[t] /\ buckets'[t][k] = c /\ granted' = granted
      /\ promise'[t][k] = Min({promise[t][k], now + RetryAfter(level)})
  BY Zenon DEF Refused
<1> USE <1>s
<1>0. clock \in Int /\ now \in Int
  BY RateLimiterAssumption DEF LimiterInv, KeyInv, Time
<1>1. BucketInv(t, k) /\ GrantInv(t, k) /\ PromiseInv(t, k)
  BY Zenon DEF LimiterInv, KeyInv
<1>2. Base(buckets[t][k]) \in Int
  BY <1>1 DEF BucketInv, Base
<1>3. Base(c) = Base(buckets[t][k])
  BY <1>0, <1>2 DEF Base
<1>4. BucketInv(t, k)'
  <2>1. Covered(t, k, Base(c))'
    BY <1>1, <1>3, Zenon DEF BucketInv, Covered, AllGranted, Base
  <2>2. Base(buckets[t][k]) + clock >= 0
    BY <1>1, Zenon DEF BucketInv
  <2>3. c.tokens \in Int /\ c.lastTime \in Int /\ c.lastTime <= clock' /\ c.tokens >= -MaxLag /\ Base(c) + clock' >= 0
    BY <1>0, <1>2, <1>3, <2>2, FullOf
  <2> QED
    BY <2>1, <2>3, Zenon DEF BucketInv, Base
<1>5. GrantInv(t, k)'
  BY <1>1, Zenon DEF GrantInv, AllGranted
<1>6. PromiseInv(t, k)'
  <2> DEFINE wait == RetryAfter(level)
  <2>1. wait \in Int /\ wait >= Token - level
    <3>1. 1 \in Int /\ Token - level \in Int
      BY FullOf
    <3> QED
      BY <3>1, MaxOf, Zenon DEF RetryAfter
  <2> HIDE DEF wait
  <2>2. promise[t][k] \in Int /\ now + wait \in Int
    BY <1>0, <1>1, <2>1 DEF PromiseInv
  <2>3. promise'[t][k] \in Int /\ promise'[t][k] \in {promise[t][k], now + wait}
    BY <2>2, MinOf, Zenon DEF wait
  <2>4. CASE promise'[t][k] = promise[t][k]
    <3>1. promise[t][k] # Never => Level(buckets[t][k], promise[t][k]) >= Token
      BY <1>1, Zenon DEF PromiseInv
    <3>2. Level(buckets[t][k], promise[t][k]) = Base(buckets[t][k]) + promise[t][k]
      BY <1>1, <2>2 DEF Level, Base, BucketInv
    <3>3. Level(c, promise[t][k]) = Base(buckets[t][k]) + promise[t][k]
      BY <1>0, <1>2, <2>2 DEF Level
    <3> QED
      BY <2>3, <2>4, <3>1, <3>2, <3>3, Zenon DEF PromiseInv, Level, Never
  <2>5. CASE promise'[t][k] = now + wait
    <3>1. Level(c, now + wait) >= Token
      BY <1>0, <2>1, FullOf DEF Level
    <3> QED
      BY <2>3, <2>5, <3>1, Zenon DEF PromiseInv, Level, Never
  <2> QED
    BY <2>3, <2>4, <2>5, Zenon
<1> QED
  BY <1>4, <1>5, <1>6, Zenon DEF KeyInv

\* Allow keeps the invariant, and evicts only full buckets.
LEMMA AllowStep ==
    ASSUME LimiterInv, NEW r \in RlRequests, Allow(r)
    PROVE  LimiterInv' /\ EvictedFull
<1>p. PICK t, k, now, o, b, paid :
         /\ t = rlReq[r].at /\ k = rlReq[r].key /\ now = rlReq[r].now /\ o = Bucket(t, k, now)
         /\ b = Refill(t, o, now) /\ paid = [b EXCEPT !.tokens = @ - Token]
  OBVIOUS
<1> DEFINE With(c) == [j \in DOMAIN buckets[t] \cup {k} |-> IF j = k THEN c ELSE buckets[t][j]]
<1>1. /\ clock' = clock
      /\ \/ /\ b.tokens >= Token /\ maybeCleanup(t, With(paid), now)
            /\ granted' = [granted EXCEPT ![t][k] = Granting(@, now)]
            /\ promise' = [promise EXCEPT ![t][k] = Never]
            /\ rlReq' = [rlReq EXCEPT ![r] = Onward(r)]
         \/ /\ b.tokens < Token /\ maybeCleanup(t, With(b), now)
            /\ promise' = [promise EXCEPT ![t][k] = Min({@, now + RetryAfter(b.tokens)})]
            /\ rlReq' = [rlReq EXCEPT ![r] = Arrived(1)]
            /\ granted' = granted
  BY <1>p, Zenon DEF Allow
<1>2. rlReq[r].pc = "locking"
  BY Zenon DEF Allow
<1>3. t \in Tier /\ k \in RlKeys[t] /\ now \in Time /\ now <= clock /\ clock - now <= MaxLag
  BY <1>p, <1>2, Zenon DEF LimiterInv, WaitInv
<1>4. /\ o.tokens \in Int /\ o.lastTime \in Int /\ Base(o) \in Int
      /\ Base(o) + clock >= 0 /\ Covered(t, k, Base(o))
      /\ k \notin DOMAIN buckets[t] => Base(o) = Full(t) - now
      /\ k \in DOMAIN buckets[t] => o = buckets[t][k]
  BY <1>p, <1>3, BucketOf, Zenon
<1>5. clock' \in Time /\ DOMAIN rlReq' = RlRequests /\ \A q \in RlRequests : WaitInv(q)'
  <2>1. Onward(r) = Arrived(IF t < Tiers THEN t + 1 ELSE 1)
    BY <1>p, Zenon DEF Onward
  <2>2. 1 \in Tier /\ (IF t < Tiers THEN t + 1 ELSE 1) \in Tier
    BY <1>3, RateLimiterAssumption DEF Tier
  <2>3. \E n \in Tier : rlReq' = [rlReq EXCEPT ![r] = Arrived(n)]
    BY <1>1, <2>1, <2>2, Zenon
  <2>4. PICK n \in Tier : rlReq' = [rlReq EXCEPT ![r] = Arrived(n)]
    BY <2>3, Zenon
  <2>5. Arrived(n).pc # "locking" /\ Arrived(n).at = n
    BY DEF Arrived
  <2>6. DOMAIN rlReq' = RlRequests /\ rlReq'[r] = Arrived(n) /\ \A q \in RlRequests : q # r => rlReq'[q] = rlReq[q]
    BY <2>4, Zenon DEF LimiterInv, KeyInv
  <2>7. ASSUME NEW q \in RlRequests PROVE WaitInv(q)'
    <3>1. WaitInv(q)
      BY Zenon DEF LimiterInv
    <3>2. CASE q = r
      BY <3>2, <2>5, <2>6, Zenon DEF WaitInv
    <3>3. CASE q # r
      BY <3>1, <3>3, <1>1, <2>6, Zenon DEF WaitInv
    <3> QED
      BY <3>2, <3>3, Zenon
  <2>8. clock' \in Time
    BY <1>1, Zenon DEF LimiterInv
  <2> QED
    BY <2>6, <2>7, <2>8, Zenon
<1>6. now \in Int
  BY <1>3 DEF Time
<1>7. Level(o, now) \in Int /\ Level(o, now) = Base(o) + now
  BY <1>4, <1>6 DEF Level, Base
<1>8. /\ b.tokens = Min({Full(t), Level(o, now)}) /\ b.lastTime = now
      /\ paid.tokens = b.tokens - Token /\ paid.lastTime = now
  BY <1>p DEF Refill
<1>9. Full(t) \in Int /\ Full(t) >= Token
  BY <1>3, FullOf
<1>10. /\ b.tokens \in Int /\ b.tokens <= Full(t) /\ b.tokens <= Base(o) + now
       /\ b.tokens = Full(t) \/ b.tokens = Base(o) + now
  <2>1. Min({Full(t), Level(o, now)}) \in Int /\ Min({Full(t), Level(o, now)}) <= Full(t)
        /\ Min({Full(t), Level(o, now)}) <= Level(o, now) /\ Min({Full(t), Level(o, now)}) \in {Full(t), Level(o, now)}
    BY <1>7, <1>9, MinOf, Zenon
  <2> QED
    BY <2>1, <1>7, <1>8, Zenon
<1>11. DOMAIN granted = Tier /\ DOMAIN promise = Tier /\ \A u \in Tier : DOMAIN granted[u] = RlKeys[u] /\ DOMAIN promise[u] = RlKeys[u]
  BY Zenon DEF LimiterInv, KeyInv
<1>12. CASE b.tokens >= Token
  <2>1. /\ maybeCleanup(t, With(paid), now)
        /\ granted' = [granted EXCEPT ![t][k] = Granting(@, now)]
        /\ promise' = [promise EXCEPT ![t][k] = Never]
    <3>1. ~(b.tokens < Token)
      BY <1>12, <1>3, <1>10, FullOf
    <3> QED
      BY <3>1, <1>1, Zenon
  <2>2. /\ granted'[t][k] = Granting(granted[t][k], now) /\ promise'[t][k] = Never
        /\ \A u \in Tier : \A j \in RlKeys[u] : ~(u = t /\ j = k) =>
               granted'[u][j] = granted[u][j] /\ promise'[u][j] = promise[u][j]
        /\ DOMAIN granted' = Tier /\ DOMAIN promise' = Tier
        /\ \A u \in Tier : DOMAIN granted'[u] = RlKeys[u] /\ DOMAIN promise'[u] = RlKeys[u]
    BY <2>1, <1>3, <1>11
  <2>a. Stored(t, k, now, paid)
    BY <1>1, <1>3, <1>8, <2>1, <2>2, Zenon DEF Stored
  <2>3. OthersInv(t, k, paid)
    BY <2>a, OthersKept, Zenon
  <2>b. Paid(t, k, now, Base(o), b.tokens, paid)
    BY <1>1, <1>3, <1>4, <1>8, <1>10, <1>12, <2>2, <2>3, Zenon DEF Paid, OthersInv
  <2>4. KeyInv(t, k)'
    BY <2>b, AllowedKeeps, Zenon
  <2>5. \A u \in Tier : \A j \in RlKeys[u] : KeyInv(u, j)'
    BY <2>3, <2>4, Zenon DEF OthersInv
  <2> QED
    BY <1>5, <2>2, <2>3, <2>5, Zenon DEF LimiterInv, OthersInv
<1>13. CASE b.tokens < Token
  <2>1. /\ maybeCleanup(t, With(b), now) /\ granted' = granted
        /\ promise' = [promise EXCEPT ![t][k] = Min({@, now + RetryAfter(b.tokens)})]
    <3>1. ~(b.tokens >= Token)
      BY <1>13, <1>3, <1>10, FullOf
    <3> QED
      BY <3>1, <1>1, Zenon
  <2>2. /\ promise'[t][k] = Min({promise[t][k], now + RetryAfter(b.tokens)})
        /\ \A u \in Tier : \A j \in RlKeys[u] : ~(u = t /\ j = k) =>
              granted'[u][j] = granted[u][j] /\ promise'[u][j] = promise[u][j]
        /\ DOMAIN promise' = Tier /\ \A u \in Tier : DOMAIN promise'[u] = RlKeys[u]
    BY <2>1, <1>3, <1>11
  <2>a. Stored(t, k, now, b)
    BY <1>1, <1>3, <1>8, <2>1, <2>2, Zenon DEF Stored
  <2>3. OthersInv(t, k, b)
    BY <2>a, OthersKept, Zenon
  <2>4. b.tokens = Base(o) + now /\ b.tokens # Full(t) /\ (Base(o) = Full(t) - now => Base(o) + now = Full(t))
    BY <1>3, <1>4, <1>6, <1>9, <1>10, <1>13, FullOf
  <2>5. k \in DOMAIN buckets[t] /\ b.tokens = Base(buckets[t][k]) + now
    BY <2>4, <1>4, Zenon
  <2>b. Refused(t, k, now, b.tokens, b)
    BY <1>1, <1>3, <1>8, <1>10, <1>13, <2>1, <2>2, <2>3, <2>5, Zenon DEF Refused, OthersInv
  <2>6. KeyInv(t, k)'
    BY <2>b, RefusedKeeps, Zenon
  <2>7. \A u \in Tier : \A j \in RlKeys[u] : KeyInv(u, j)'
    BY <2>3, <2>6, Zenon DEF OthersInv
  <2> QED
    BY <1>5, <1>11, <2>1, <2>2, <2>3, <2>7, Zenon DEF LimiterInv, OthersInv
<1> QED
  BY <1>1, <1>12, <1>13, Zenon

\* No step of a limiter leaves the invariant; only Allow touches a bucket.
LEMMA LimiterStep ==
    ASSUME LimiterInv, [RlNext]_rlVars
    PROVE  LimiterInv' /\ EvictedFull
<1>0. clock \in Int /\ MaxTime \in Int /\ MaxTime \in Time /\ MaxLag \in Nat /\ 0 \in Time
  BY RateLimiterAssumption DEF LimiterInv, KeyInv, Time
<1>k. ASSUME UNCHANGED <<clock, buckets, granted, promise>>, NEW t \in Tier, NEW k \in RlKeys[t]
      PROVE  KeyInv(t, k)'
  <2>1. KeyInv(t, k)
    BY Zenon DEF LimiterInv
  <2>2. GrantInv(t, k)' <=> GrantInv(t, k)
    BY <1>k, Zenon DEF GrantInv, AllGranted
  <2>3. PromiseInv(t, k)' <=> PromiseInv(t, k)
    BY <1>k, Zenon DEF PromiseInv, Level
  <2>4. AbsentInv(t, k)' <=> AbsentInv(t, k)
    BY <1>k, Zenon DEF AbsentInv, AllGranted
  <2>5. BucketInv(t, k)' <=> BucketInv(t, k)
    BY <1>k, Zenon DEF BucketInv, Covered, AllGranted, Base
  <2> QED
    BY <1>k, <2>1, <2>2, <2>3, <2>4, <2>5, Zenon DEF KeyInv
<1>1. CASE UNCHANGED rlVars
  <2>1. UNCHANGED <<clock, buckets, calls, rlReq, granted, promise>>
    BY <1>1, Zenon DEF rlVars
  <2>2. \A r \in RlRequests : WaitInv(r)'
    BY <2>1, Zenon DEF LimiterInv, WaitInv
  <2>3. \A t \in Tier : \A k \in RlKeys[t] : KeyInv(t, k)'
    BY <2>1, <1>k, Zenon
  <2> QED
    BY <2>1, <2>2, <2>3, Zenon DEF LimiterInv, EvictedFull
<1>2. CASE Tick
  <2>1. /\ buckets' = buckets /\ rlReq' = rlReq /\ granted' = granted /\ promise' = promise /\ calls' = calls
        /\ clock' = clock + 1 /\ clock < MaxTime
        /\ \A r \in RlRequests : rlReq[r].pc = "locking" => clock - rlReq[r].now < MaxLag
    BY <1>2, Zenon DEF Tick
  <2>2. clock' \in Time /\ clock' \in Int /\ clock <= clock'
    BY <2>1, <1>0 DEF LimiterInv, KeyInv, Time
  <2>3. ASSUME NEW r \in RlRequests PROVE WaitInv(r)'
    <3>1. WaitInv(r)
      BY Zenon DEF LimiterInv, KeyInv
    <3>2. ASSUME rlReq[r].pc = "locking"
          PROVE  rlReq[r].now <= clock' /\ clock' - rlReq[r].now <= MaxLag
      <4>1. rlReq[r].now \in Time /\ rlReq[r].now <= clock /\ clock - rlReq[r].now < MaxLag
        BY <3>1, <3>2, <2>1, Zenon DEF WaitInv
      <4> QED
        BY <4>1, <2>1, <1>0 DEF Time
    <3> QED
      BY <3>1, <3>2, <2>1, Zenon DEF WaitInv
  <2>4. ASSUME NEW t \in Tier, NEW k \in RlKeys[t]
        PROVE  /\ IF k \in DOMAIN buckets'[t] THEN BucketInv(t, k)' ELSE AbsentInv(t, k)'
               /\ GrantInv(t, k)' /\ PromiseInv(t, k)'
    <3>1. /\ IF k \in DOMAIN buckets[t] THEN BucketInv(t, k) ELSE AbsentInv(t, k)
          /\ GrantInv(t, k) /\ PromiseInv(t, k)
      BY Zenon DEF LimiterInv, KeyInv
    <3>2. GrantInv(t, k)' /\ PromiseInv(t, k)'
      BY <2>1, <3>1, Zenon DEF GrantInv, AllGranted, PromiseInv, Level
    <3>3. CASE k \in DOMAIN buckets[t]
      <4>1. BucketInv(t, k)
        BY <3>1, <3>3, Zenon
      <4>2. Covered(t, k, Base(buckets[t][k]))'
        BY <4>1, <2>1, Zenon DEF BucketInv, Covered, AllGranted, Base
      <4>3. buckets[t][k].lastTime <= clock' /\ Base(buckets[t][k]) + clock' >= 0
        BY <4>1, <2>1, <1>0 DEF BucketInv, Base
      <4>4. BucketInv(t, k)'
        BY <4>1, <4>2, <4>3, <2>1, Zenon DEF BucketInv, Base
      <4> QED
        BY <4>4, <3>2, <3>3, <2>1, Zenon
    <3>4. CASE k \notin DOMAIN buckets[t]
      <4>1. ASSUME RefillsInTime(t), NEW s \in Time, AllGranted(t, k, s) > 0
            PROVE  AllGranted(t, k, s) + s + MaxLag <= clock'
        <5>1. AllGranted(t, k, s) + s + MaxLag <= clock
          BY <3>1, <3>4, <4>1, Zenon DEF AbsentInv
        <5>2. AllGranted(t, k, s) \in Nat
          BY <3>1, <1>0, Zenon DEF GrantInv, AllGranted
        <5> QED
          BY <5>1, <5>2, <2>2, <1>0 DEF Time
      <4>2. AbsentInv(t, k)'
        BY <4>1, <2>1, Zenon DEF AbsentInv, AllGranted
      <4> QED
        BY <4>2, <3>2, <3>4, <2>1, Zenon
    <3> QED
      BY <3>3, <3>4, Zenon
  <2>5. \A t \in Tier : \A k \in RlKeys[t] : KeyInv(t, k)'
    BY <2>4, Zenon DEF KeyInv
  <2> QED
    BY <2>1, <2>2, <2>3, <2>5, Zenon DEF LimiterInv, EvictedFull
<1>3. ASSUME NEW r \in RlRequests, ReadClock(r) \/ NoIdentity(r)
      PROVE  LimiterInv' /\ buckets' = buckets
  <2>1. UNCHANGED <<clock, buckets, calls, total, granted, promise>>
    BY <1>3, Zenon DEF ReadClock, NoIdentity
  <2>2. /\ DOMAIN rlReq' = RlRequests /\ \A q \in RlRequests : q # r => rlReq'[q] = rlReq[q]
        /\ WaitInv(r)'
    <3>1. CASE ReadClock(r)
      <4>1. PICK key \in RlKeys[rlReq[r].at] :
               rlReq' = [rlReq EXCEPT ![r] = [pc |-> "locking", at |-> rlReq[r].at, key |-> key, now |-> clock]]
        BY <3>1, Zenon DEF ReadClock
      <4> DEFINE q == [pc |-> "locking", at |-> rlReq[r].at, key |-> key, now |-> clock]
      <4>2. q.at = rlReq[r].at /\ q.key = key /\ q.now = clock
        OBVIOUS
      <4>3. DOMAIN rlReq' = RlRequests /\ rlReq'[r] = q /\ \A p \in RlRequests : p # r => rlReq'[p] = rlReq[p]
        BY <4>1, Zenon DEF LimiterInv, KeyInv
      <4> HIDE DEF q
      <4>4. clock <= clock /\ clock - clock <= MaxLag
        BY <1>0
      <4> QED
        BY <4>2, <4>3, <4>4, <2>1, Zenon DEF LimiterInv, KeyInv, WaitInv
    <3>2. CASE NoIdentity(r)
      <4> DEFINE n == IF rlReq[r].at < Tiers THEN rlReq[r].at + 1 ELSE 1
      <4>1. rlReq' = [rlReq EXCEPT ![r] = Arrived(n)]
        BY <3>2, Zenon DEF NoIdentity, Onward
      <4>2. n \in Tier
        BY RateLimiterAssumption DEF LimiterInv, KeyInv, WaitInv, Tier
      <4>3. Arrived(n).pc # "locking" /\ Arrived(n).at = n
        BY DEF Arrived
      <4> HIDE DEF n
      <4>4. DOMAIN rlReq' = RlRequests /\ rlReq'[r] = Arrived(n) /\ \A p \in RlRequests : p # r => rlReq'[p] = rlReq[p]
        BY <4>1, Zenon DEF LimiterInv, KeyInv
      <4> QED
        BY <4>2, <4>3, <4>4, Zenon DEF WaitInv
    <3> QED
      BY <1>3, <3>1, <3>2, Zenon
  <2>3. \A q \in RlRequests : WaitInv(q)'
    BY <2>1, <2>2, Zenon DEF LimiterInv, KeyInv, WaitInv
  <2>4. \A t \in Tier : \A k \in RlKeys[t] : KeyInv(t, k)'
    BY <2>1, <1>k, Zenon
  <2> QED
    BY <2>1, <2>2, <2>3, <2>4, Zenon DEF LimiterInv
<1>4. ASSUME NEW r \in RlRequests, Allow(r)
      PROVE  LimiterInv' /\ EvictedFull
  BY <1>4, AllowStep, Zenon
<1>5. CASE buckets' = buckets
  <2>1. EvictedFull
    BY <1>5, Zenon DEF EvictedFull
  <2> QED
    BY <1>1, <1>2, <1>3, <1>4, <2>1, Zenon DEF RlNext
<1>6. CASE buckets' # buckets
  BY <1>2, <1>3, <1>4, <1>6, Zenon DEF RlNext, Tick, rlVars
<1> QED
  BY <1>5, <1>6, Zenon

\* Of every limiter, for any burst, time to live, key and number of requests: where a bucket refills
\* in time, what it lacks of its burst covers all that Allow has granted, and a key without a bucket
\* has had the time to fill.
THEOREM LimiterInvariant == RlSpec => []LimiterInv
<1>1. RlInit => LimiterInv
  <2> SUFFICES ASSUME RlInit PROVE LimiterInv
    OBVIOUS
  <2>1. clock \in Time /\ 0 \in Time /\ MaxTime \in Time /\ 1 \in Tier
    BY RateLimiterAssumption DEF RlInit, Time, Tier
  <2>2. \A r \in RlRequests : WaitInv(r)
    <3>1. Arrived(1).pc # "locking" /\ Arrived(1).at = 1
      BY DEF Arrived
    <3> QED
      BY <3>1, <2>1, Zenon DEF RlInit, WaitInv
  <2>3. /\ DOMAIN buckets = Tier /\ DOMAIN rlReq = RlRequests /\ DOMAIN calls = Tier
        /\ DOMAIN granted = Tier /\ DOMAIN promise = Tier
    BY Zenon DEF RlInit
  <2>4. ASSUME NEW t \in Tier
        PROVE  /\ DOMAIN buckets[t] = {}
               /\ DOMAIN granted[t] = RlKeys[t] /\ DOMAIN promise[t] = RlKeys[t]
    BY DEF RlInit
  <2>5. ASSUME NEW t \in Tier, NEW k \in RlKeys[t]
        PROVE  AbsentInv(t, k) /\ GrantInv(t, k) /\ PromiseInv(t, k)
    <3>1. \A s, e \in Time : granted[t][k][s][e] = 0
      BY Zenon DEF RlInit
    <3>2. \A s \in Time : AllGranted(t, k, s) = 0
      BY <3>1, <2>1, Zenon DEF AllGranted
    <3>3. AbsentInv(t, k)
      BY <3>2 DEF AbsentInv
    <3>4. GrantInv(t, k)
      BY <3>1, <3>2, FullOf DEF GrantInv, Time
    <3>5. promise[t][k] = Never
      BY Zenon DEF RlInit
    <3>6. PromiseInv(t, k)
      BY <3>5, FullOf DEF PromiseInv, Never
    <3> QED
      BY <3>3, <3>4, <3>6, Zenon
  <2> QED
    BY <2>1, <2>2, <2>3, <2>4, <2>5, Zenon DEF LimiterInv, KeyInv
<1>2. LimiterInv /\ [RlNext]_rlVars => LimiterInv'
  BY LimiterStep, Zenon
<1> QED
  BY <1>1, <1>2, PTL DEF RlSpec

\* Of every limiter, Retry-After is kept; of one whose buckets refill within their time to live, no
\* key gets more than its burst and its rate and maybeCleanup evicts only full buckets, in whatever
\* order requests that have read the clock take the lock.
THEOREM LimiterHolds == RlSpec => LimiterSound
<1>1. LimiterInv => RateBound
  BY Zenon DEF LimiterInv, KeyInv, GrantInv, RateBound
<1>2. LimiterInv => RetryAfterHolds
  <2> SUFFICES ASSUME LimiterInv, NEW t \in Tier, NEW k \in RlKeys[t], promise[t][k] # Never
               PROVE  Level(Bucket(t, k, promise[t][k]), promise[t][k]) >= Token
    BY Zenon DEF RetryAfterHolds
  <2>1. PromiseInv(t, k)
    BY Zenon DEF LimiterInv, KeyInv
  <2>2. CASE k \in DOMAIN buckets[t]
    BY <2>1, <2>2, Zenon DEF PromiseInv, Bucket
  <2>3. CASE k \notin DOMAIN buckets[t]
    <3> DEFINE o == [tokens |-> Full(t), lastTime |-> promise[t][k]]
    <3>1. Bucket(t, k, promise[t][k]) = o
      BY <2>3, Zenon DEF Bucket
    <3>2. o.tokens = Full(t) /\ o.lastTime = promise[t][k]
      OBVIOUS
    <3> HIDE DEF o
    <3> QED
      BY <2>1, <3>1, <3>2, FullOf DEF PromiseInv, Level
  <2> QED
    BY <2>2, <2>3, Zenon
<1>3. LimiterInv /\ [RlNext]_rlVars =>
        [\A t \in Tier : RefillsInTime(t) => \A k \in DOMAIN buckets[t] \ DOMAIN buckets'[t] :
            Level(buckets[t][k], clock) >= Full(t)]_rlVars
  BY LimiterStep, Zenon DEF EvictedFull
<1> QED
  BY <1>1, <1>2, <1>3, LimiterInvariant, PTL DEF RlSpec, LimiterSound, EvictionIsFree

=============================================================================
