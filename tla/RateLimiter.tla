----------------------------- MODULE RateLimiter -----------------------------
(***************************************************************************)
(* RateLimiter and TokenBucket (armp_ratelimit.py).                        *)
(*                                                                         *)
(* Every method runs to its end without an await, so each is one action;   *)
(* what happens between two of them is that the monotonic clock advances.  *)
(* One unit of time stands for a second, tokens are whole.  Names left     *)
(* empty by the caller of `allow` are NoName: that level is not asked.     *)
(***************************************************************************)
EXTENDS Integers, FiniteSets, Functions

CONSTANTS
  Names,          \* Names[s]: the agents, rooms and servers of each scope s
  NoName,         \* an argument of `allow` left empty
  Rates, Bursts,  \* the arguments of set_limit; burst 0 is a burst left out
  Counts,         \* the numbers of tokens an operation takes
  InitialTokens,  \* the tokens of a new bucket: 100 in the code
  BurstSeconds,   \* a burst left out is that many seconds' worth: 10
  HitLimit,       \* the rejections a key may have unpunished, and one: 10
  MaxBackoff,     \* the longest block: 32
  MaxTime,        \* bound on the clock
  MaxHits,        \* bound on a key's hit counter: the code has none
  MaxLimits       \* bound on the keys that have a limit

Scopes == {"agent", "room", "federation"}

ASSUME RateLimiterAssumption ==
  /\ DOMAIN Names = Scopes
  /\ \A s \in Scopes : {NoName, "default"} \cap Names[s] = {}
  /\ Rates \subseteq Nat /\ Bursts \subseteq Nat /\ Counts \subseteq Nat \ {0}
  /\ {InitialTokens, BurstSeconds, MaxTime, MaxHits, MaxLimits} \subseteq Nat
  /\ {HitLimit, MaxBackoff} \subseteq Nat \ {0}

VARIABLES
  rlNow,      \* time.monotonic()
  bucket,     \* _buckets: a record per key that has a limit
  hits,       \* _hit_counters
  blocked,    \* _blocked_until
  account     \* ghost: account[k].spent tokens were taken from k's bucket
              \* since account[k].since, when it was set or reset

rlVars == <<rlNow, bucket, hits, blocked, account>>

Global == <<"global", "">>
Default(scope) == <<scope, "default">>
NamedKeys == UNION {{<<s, n>> : n \in Names[s]} : s \in Scopes}
HitKeys == {Global} \union NamedKeys
Keys == HitKeys \union {Default("agent"), Default("room")}

\* An operation names an agent, a room, a server, or leaves some of them empty.
Operations == {op \in [Scopes -> UNION {Names[s] : s \in Scopes} \union {NoName}] :
                  \A s \in Scopes : op[s] \in Names[s] \union {NoName}}

Least(a, b) == IF a < b THEN a ELSE b

RLInit ==
  /\ rlNow = 0
  /\ bucket = <<>> /\ hits = <<>> /\ blocked = <<>> /\ account = <<>>

RLTick ==
  /\ rlNow < MaxTime
  /\ rlNow' = rlNow + 1
  /\ UNCHANGED <<bucket, hits, blocked, account>>
-----------------------------------------------------------------------------
(* Buckets                                                                 *)

NewBucket(rate, burst) ==
  [rate |-> rate, burst |-> IF burst = 0 THEN rate * BurstSeconds ELSE burst,
   tokens |-> InitialTokens, last |-> rlNow]

SetLimit(k, rate, burst) ==
  LET keys == DOMAIN bucket \union {k} IN
  /\ Cardinality(keys) <= MaxLimits
  /\ bucket' = [j \in keys |-> IF j = k THEN NewBucket(rate, burst) ELSE bucket[j]]
  /\ account' = [j \in keys |-> IF j = k THEN [spent |-> 0, since |-> rlNow] ELSE account[j]]
  /\ UNCHANGED <<rlNow, hits, blocked>>

\* Faulty variant: a refill forgets to write the time of the refill.
RefilledAgain(b) == [b EXCEPT !.tokens = Least(b.burst, b.tokens + (rlNow - b.last) * b.rate)]

Refilled(b) ==
  [b EXCEPT !.tokens = Least(b.burst, b.tokens + (rlNow - b.last) * b.rate),
            !.last = rlNow]

\* status reads the property `available`, which refills.
Status(k) ==
  /\ k \in DOMAIN bucket
  /\ bucket' = [bucket EXCEPT ![k] = Refilled(bucket[k])]
  /\ UNCHANGED <<rlNow, hits, blocked, account>>

\* reset(key) and, without a key, all of them.
Reset(keys) ==
  /\ bucket' = [k \in DOMAIN bucket |->
                  IF k \in keys THEN [bucket[k] EXCEPT !.tokens = bucket[k].burst] ELSE bucket[k]]
  /\ account' = [k \in DOMAIN bucket |->
                  IF k \in keys THEN [spent |-> 0, since |-> rlNow] ELSE account[k]]
  /\ hits' = Restrict(hits, DOMAIN hits \ keys)
  /\ blocked' = Restrict(blocked, DOMAIN blocked \ keys)
  /\ UNCHANGED rlNow
-----------------------------------------------------------------------------
(* allow.  The levels are asked in the order global, agent, room, server.  *)

Level(k) == [global |-> 1, agent |-> 2, room |-> 3, federation |-> 4][k[1]]
First(S) == CHOOSE k \in S : \A j \in S : Level(k) <= Level(j)
Above(k, S) == {j \in S : Level(j) < Level(k)}

Asked(op) == {<<s, op[s]>> : s \in {x \in Scopes : op[x] # NoName}}

\* The bucket that decides for a key: its own, or the shared default one.
Deciding(k) == IF k \in DOMAIN bucket THEN k ELSE Default(k[1])

Limited(op) == {k \in Asked(op) \union {Global} : Deciding(k) \in DOMAIN bucket}

Blocking(op) == {k \in Asked(op) \cap DOMAIN blocked : rlNow < blocked[k]}
Lapsed(op) == (Asked(op) \cap DOMAIN blocked) \ Blocking(op)

\* A level that is blocked refuses, and blocks found lapsed before it are deleted.
AllowBlocked(op) ==
  /\ Blocking(op) # {}
  /\ blocked' = Restrict(blocked, DOMAIN blocked \ Above(First(Blocking(op)), Lapsed(op)))
  /\ UNCHANGED <<rlNow, bucket, hits, account>>

\* Faulty variant: one token too few is enough.
RefusingLate(op, count) == {k \in Limited(op) : Refilled(bucket[Deciding(k)]).tokens < count - 1}

Refusing(op, count) == {k \in Limited(op) : Refilled(bucket[Deciding(k)]).tokens < count}

\* The buckets in `paid` give count tokens, those in `looked` are only refilled.
Consume(paid, looked, count) ==
  /\ bucket' = [k \in DOMAIN bucket |->
       IF k \in paid THEN [Refilled(bucket[k]) EXCEPT !.tokens = Refilled(bucket[k]).tokens - count]
       ELSE IF k \in looked THEN Refilled(bucket[k]) ELSE bucket[k]]
  /\ account' = [k \in DOMAIN bucket |->
       IF k \in paid THEN [account[k] EXCEPT !.spent = account[k].spent + count] ELSE account[k]]

AllowPasses(op, count) ==
  /\ Blocking(op) = {}
  /\ Refusing(op, count) = {}
  /\ Consume({Deciding(k) : k \in Limited(op)}, {}, count)
  /\ blocked' = Restrict(blocked, DOMAIN blocked \ Lapsed(op))
  /\ UNCHANGED <<rlNow, hits>>

HitsOf(k) == IF k \in DOMAIN hits THEN hits[k] ELSE 0

\* _record_hit counts the rejection and blocks the key from the HitLimit-th on.
RecordHit(k, open) ==
  LET n == HitsOf(k) + 1
      until == rlNow + Least(MaxBackoff, 2 ^ (n - HitLimit)) IN
  /\ hits' = [j \in DOMAIN hits \union {k} |-> IF j = k THEN n ELSE hits[j]]
  /\ blocked' = IF n < HitLimit THEN open
                ELSE [j \in DOMAIN open \union {k} |-> IF j = k THEN until ELSE open[j]]

\* The levels above the refusing one have given their tokens all the same.
AllowRefuses(op, count) ==
  /\ Blocking(op) = {}
  /\ Refusing(op, count) # {}
  /\ LET k == First(Refusing(op, count)) IN
     /\ HitsOf(k) < MaxHits
     /\ Consume({Deciding(j) : j \in Above(k, Limited(op))}, {Deciding(k)}, count)
     /\ RecordHit(k, Restrict(blocked, DOMAIN blocked \ Lapsed(op)))
  /\ UNCHANGED rlNow
-----------------------------------------------------------------------------
RLNext ==
  \/ RLTick
  \/ \E k \in Keys : Status(k) \/ Reset({k})
  \/ Reset(Keys)
  \/ \E k \in Keys, rate \in Rates, burst \in Bursts : SetLimit(k, rate, burst)
  \/ \E op \in Operations : AllowBlocked(op)
  \/ \E op \in Operations, count \in Counts : AllowPasses(op, count) \/ AllowRefuses(op, count)

RLSpec == RLInit /\ [][RLNext]_rlVars
-----------------------------------------------------------------------------
RLTypeOK ==
  /\ rlNow \in Nat
  /\ DOMAIN bucket \subseteq Keys /\ DOMAIN account = DOMAIN bucket
  /\ \A k \in DOMAIN bucket :
       /\ bucket[k] \in [rate : Nat, burst : Nat, tokens : Nat, last : Nat]
       /\ account[k] \in [spent : Nat, since : Nat]
  /\ DOMAIN hits \subseteq HitKeys /\ \A k \in DOMAIN hits : hits[k] \in Nat
  /\ DOMAIN blocked \subseteq DOMAIN hits /\ \A k \in DOMAIN blocked : blocked[k] \in Int

(* However operations, refills by status, resets and the clock interleave, *)
(* and whatever was asked and refused at other levels, a bucket gives no   *)
(* more than its burst and its rate times the time since it was set        *)
(* (TokenBucket.refill and consume, armp_ratelimit.py:56-69).              *)
SpentWithinLimit ==
  \A k \in DOMAIN bucket :
    account[k].spent <= bucket[k].burst + bucket[k].rate * (rlNow - account[k].since)

(* A key is blocked only after HitLimit rejections that no reset wiped     *)
(* out, and never for longer than MaxBackoff (armp_ratelimit.py:222-231).  *)
BlocksAreEarned ==
  \A k \in DOMAIN blocked :
    k \in DOMAIN hits /\ hits[k] >= HitLimit /\ blocked[k] <= rlNow + MaxBackoff
=============================================================================
