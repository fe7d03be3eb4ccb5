---------------------------- MODULE RateLimiter -----------------------------
(***************************************************************************)
(* The token buckets of server/ratelimit and the chain of middlewares that *)
(* asks them: per IP, per tenant, per agent.  Allow reads the clock before *)
(* it takes the lock, so a goroutine that waits for the lock applies a     *)
(* reading that is older than the bucket's own: the elapsed time is then   *)
(* negative and lastTime moves backwards.                                  *)
(*                                                                         *)
(* A token is Token units and one unit flows in per tick (a second), which *)
(* keeps the code's fractions of tokens whole.                             *)
(***************************************************************************)
EXTENDS Integers, FiniteSetsExt

CONSTANTS
    Tiers,              \* the limiters a request meets are 1..Tiers
    RlKeys,               \* the keys of each of them
    Burst,              \* of each of them, in tokens
    Token,              \* ticks a token takes to flow in
    TTL,                \* cleanupTTL, of each of them
    Every,              \* the calls between two cleanups (1024)
    RlRequests,           \* goroutines that serve requests
    MaxLag,             \* longest wait for the lock
    MaxTime, MaxCalls   \* bounds on the clock and on all calls of Allow

ASSUME RateLimiterAssumption ==
    /\ {Tiers, Token, Every} \subseteq Nat \ {0} /\ {MaxLag, MaxTime, MaxCalls} \subseteq Nat
    /\ \A t \in 1..Tiers : Burst[t] \in Nat \ {0} /\ TTL[t] \in Nat

VARIABLES
    clock,
    buckets,            \* per limiter: key -> [tokens, lastTime]
    calls,              \* per limiter: calls since the last cleanup
    total,              \* all calls of Allow
    rlReq,                \* per request: the tier it is at, its key and its reading of the clock
    granted,            \* history, per limiter and key: the tokens, in units, of the allowed
                        \* requests that read the clock from s to e
    promise             \* history: the earliest Retry-After since the last allowed request

rlVars == <<clock, buckets, calls, total, rlReq, granted, promise>>

Tier == 1..Tiers
Time == 0..MaxTime
Full(t) == Burst[t] * Token
Arrived(t) == [pc |-> "arrived", at |-> t, key |-> "", now |-> 0]
Never == MaxTime + MaxLag + Token + 1       \* later than any Retry-After

\* No bucket exceeds its burst; the rest have their types.
RlTypeOK ==
    /\ clock \in Time /\ total \in 0..MaxCalls
    /\ \A t \in Tier :
        /\ DOMAIN buckets[t] \subseteq RlKeys[t]
        /\ \A k \in DOMAIN buckets[t] : /\ buckets[t][k].tokens \in -MaxLag..Full(t)
                                        /\ buckets[t][k].lastTime \in Time
        /\ calls[t] \in 0..(Every - 1)
        /\ granted[t] \in [RlKeys[t] -> [Time -> [Time -> 0..(MaxCalls * Token)]]]
        /\ promise[t] \in [RlKeys[t] -> 1..Never]
    /\ \A r \in RlRequests : /\ rlReq[r].pc \in {"arrived", "locking"} /\ rlReq[r].at \in Tier
                             /\ rlReq[r].key \in RlKeys[rlReq[r].at] \cup {""} /\ rlReq[r].now \in Time

RlInit ==
    /\ clock = 0
    /\ buckets = [t \in Tier |-> <<>>]
    /\ calls = [t \in Tier |-> 0] /\ total = 0
    /\ rlReq = [r \in RlRequests |-> Arrived(1)]
    /\ granted = [t \in Tier |-> [k \in RlKeys[t] |-> [s \in Time |-> [e \in Time |-> 0]]]]
    /\ promise = [t \in Tier |-> [k \in RlKeys[t] |-> Never]]

Tick ==
    /\ clock < MaxTime
    /\ \A r \in RlRequests : rlReq[r].pc = "locking" => clock - rlReq[r].now < MaxLag
    /\ clock' = clock + 1
    /\ UNCHANGED <<buckets, calls, total, rlReq, granted, promise>>

-----------------------------------------------------------------------------
(* The limiter.                                                            *)

\* What a bucket will hold at the moment n, without the cap.
Level(b, n) == b.tokens + (n - b.lastTime)

Refill(t, b, now) == [tokens |-> Min({Full(t), Level(b, now)}), lastTime |-> now]

EvictRecent(t, bs, now) == {k \in DOMAIN bs : bs[k].lastTime >= now}
Kept(t, bs, now) == {k \in DOMAIN bs : bs[k].lastTime >= now - TTL[t]}

\* maybeCleanup, for limiter t whose buckets have become bs.
maybeCleanup(t, bs, now) ==
    LET due == calls[t] + 1 = Every
    IN  /\ calls' = [calls EXCEPT ![t] = IF due THEN 0 ELSE @ + 1]
        /\ buckets' = [buckets EXCEPT ![t] = IF due THEN [k \in Kept(t, bs, now) |-> bs[k]] ELSE bs]

\* The bucket of a key; a new one is full.
Bucket(t, k, now) ==
    IF k \in DOMAIN buckets[t] THEN buckets[t][k] ELSE [tokens |-> Full(t), lastTime |-> now]

\* Retry-After: the wait for a token, in whole seconds and at least one.
RetryAfter(tokens) == Max({1, Token - tokens})

\* The next middleware; behind the last one the handler serves the request
\* and another one arrives.
Onward(r) == Arrived(IF rlReq[r].at < Tiers THEN rlReq[r].at + 1 ELSE 1)

\* A middleware takes the key and Allow reads the clock.
ReadClock(r) ==
    /\ rlReq[r].pc = "arrived"
    /\ \E k \in RlKeys[rlReq[r].at] :
           rlReq' = [rlReq EXCEPT ![r] = [pc |-> "locking", at |-> rlReq[r].at, key |-> k, now |-> clock]]
    /\ UNCHANGED <<clock, buckets, calls, total, granted, promise>>

\* Behind the first, a middleware lets a request without identity through.
NoIdentity(r) ==
    /\ rlReq[r].pc = "arrived" /\ rlReq[r].at > 1
    /\ rlReq' = [rlReq EXCEPT ![r] = Onward(r)]
    /\ UNCHANGED <<clock, buckets, calls, total, granted, promise>>

\* One token more in every interval that has the reading.
Granting(g, now) ==
    [s \in Time |-> [e \in Time |-> IF s <= now /\ now <= e THEN g[s][e] + Token ELSE g[s][e]]]

\* Allow under the lock, and the middleware's answer.
Allow(r) ==
    LET t == rlReq[r].at  k == rlReq[r].key  now == rlReq[r].now
        b == Refill(t, Bucket(t, k, now), now)
        With(c) == [j \in DOMAIN buckets[t] \cup {k} |-> IF j = k THEN c ELSE buckets[t][j]]
    IN  /\ rlReq[r].pc = "locking" /\ total < MaxCalls
        /\ total' = total + 1 /\ UNCHANGED clock
        /\ \/ /\ b.tokens >= Token
              /\ maybeCleanup(t, With([b EXCEPT !.tokens = @ - Token]), now)
              /\ granted' = [granted EXCEPT ![t][k] = Granting(@, now)]
              /\ promise' = [promise EXCEPT ![t][k] = Never]
              /\ rlReq' = [rlReq EXCEPT ![r] = Onward(r)]
           \/ /\ b.tokens < Token
              /\ maybeCleanup(t, With(b), now)
              /\ promise' = [promise EXCEPT ![t][k] = Min({@, now + RetryAfter(b.tokens)})]
              /\ rlReq' = [rlReq EXCEPT ![r] = Arrived(1)]
              /\ UNCHANGED granted

RlNext == Tick \/ \E r \in RlRequests : ReadClock(r) \/ NoIdentity(r) \/ Allow(r)

RlSpec == RlInit /\ [][RlNext]_rlVars

-----------------------------------------------------------------------------
\* An idle bucket is full before it is evicted, for every call under way.  Rate and burst are free
\* settings (config.go), the times to live are fixed (main.go: ten minutes or more, against the thirty
\* seconds that a bucket of the default settings takes to fill), and nothing compares them.
RefillsInTime(t) == Full(t) + 2 * MaxLag <= TTL[t] + 1

\* Among the requests of one key that read the clock from s to e, a limiter that refills in time
\* allows no more than the burst and what flows in meanwhile, in whatever order they take the lock
\* and whatever maybeCleanup evicts.
RateBound ==
    \A t \in Tier : RefillsInTime(t) => \A k \in RlKeys[t] : \A s, e \in Time :
        s <= e => granted[t][k][s][e] <= Full(t) + (e - s)

\* Of such a limiter maybeCleanup evicts only buckets that are full again, so that the key cannot
\* tell: a new bucket is full, too.
EvictionIsFree ==
    [][\A t \in Tier : RefillsInTime(t) => \A k \in DOMAIN buckets[t] \ DOMAIN buckets'[t] :
           Level(buckets[t][k], clock) >= Full(t)]_rlVars

\* Retry-After is kept, by every limiter: until the key's next request is allowed, its bucket
\* holds a token from the promised moment on, whatever refused requests with
\* older readings do to it in between.
RetryAfterHolds ==
    \A t \in Tier : \A k \in RlKeys[t] :
        promise[t][k] # Never => Level(Bucket(t, k, promise[t][k]), promise[t][k]) >= Token

\* Limiters: Retry-After is kept, and where a bucket refills within its time to live no key gets
\* more than its rate and burst, and an evicted bucket was full (Allow, maybeCleanup).
LimiterSound == []RateBound /\ []RetryAfterHolds /\ EvictionIsFree

=============================================================================
