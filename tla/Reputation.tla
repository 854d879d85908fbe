------------------------------ MODULE Reputation ------------------------------
(***************************************************************************)
(* ReputationEngine and ReputationGate (armp_reputation.py): scores from   *)
(* task records and peer reviews, cached per agent until the next record.  *)
(*                                                                         *)
(* Ratings are in tenths, times in seconds, and scores in parts of Unit.   *)
(* The divisions below round down where the code has floats: they are      *)
(* exact for the up to four tasks and reviews and the times and ratings of *)
(* the run, and a longer history may score a few parts less.               *)
(***************************************************************************)
EXTENDS Lists, FiniteSets, Functions

CONSTANTS
  Agents,         \* DIDs
  Ratings,        \* the ratings reviewers give, in tenths; no range is asked for
  Times,          \* response times in seconds; 0 is a time left out
  MaxRecords      \* bound on the tasks and reviews recorded

ASSUME ReputationAssumption ==
  /\ Ratings \subseteq Int
  /\ Times \subseteq Nat
  /\ MaxRecords \in Nat

VARIABLES
  tasks,      \* _tasks: [completed, time] per task of an agent, in order
  reviews,    \* _reviews: the ratings of an agent, in order
  scores      \* _scores: the cached scores

reputationVars == <<tasks, reviews, scores>>

Unit == 1200

ReputationInit ==
  /\ tasks = [a \in Agents |-> <<>>]
  /\ reviews = [a \in Agents |-> <<>>]
  /\ scores = <<>>
-----------------------------------------------------------------------------
(* The score: 0.4 completion, 0.3 ratings, 0.15 time, 0.15 consistency     *)

Within(low, high, x) == IF x < low THEN low ELSE IF x > high THEN high ELSE x

Completed(ts) == Keep(ts, {i \in DOMAIN ts : ts[i].completed})

Completion(ts) ==
  IF ts = <<>> THEN 0 ELSE (4 * Unit * Len(Completed(ts))) \div (10 * Len(ts))

Rated(rs) ==
  IF rs = <<>> THEN (3 * Unit) \div 20 ELSE (3 * Unit * Total(rs)) \div (100 * Len(rs))

\* Only given times count: below 5 s is full, above 60 s is nothing.
Speed(ts) ==
  LET times == [i \in DOMAIN ts |-> ts[i].time]
      given == Keep(times, {i \in DOMAIN times : times[i] > 0})
      full == (15 * Unit) \div 100 IN
  CASE ts = <<>> -> 0
    [] ts # <<>> /\ given = <<>> -> full \div 2
    [] OTHER -> Within(0, full,
                  full - (full * (Total(given) - 5 * Len(given))) \div (55 * Len(given)))

\* One minus twenty times the variance of the ratings, from three ratings on.
Consistency(rs) ==
  LET n == Len(rs)
      full == (15 * Unit) \div 100
      spread == n * Total([i \in DOMAIN rs |-> rs[i] * rs[i]]) - Total(rs) * Total(rs) IN
  IF n < 3 THEN full \div 2
  ELSE Within(0, full, full - (full * 20 * spread) \div (100 * n * (n - 1)))

Score(ts, rs) ==
  LET sum == Completion(ts) + Rated(rs) + Speed(ts) + Consistency(rs) IN
  IF sum > Unit THEN Unit ELSE sum

\* get_score answers from the cache when it can.
GetScore(a) == IF a \in DOMAIN scores THEN scores[a] ELSE Score(tasks[a], reviews[a])

\* Every reader of scores leaves them in the cache.
Cached(as) == [a \in DOMAIN scores \union as |-> GetScore(a)]

\* get_score, get_tier, get_stats and ReputationGate read one agent's score.
ReadScore(a) ==
  /\ scores' = Cached({a})
  /\ UNCHANGED <<tasks, reviews>>

\* get_leaderboard reads those of all agents with a record.
GetLeaderboard ==
  /\ scores' = Cached({a \in Agents : tasks[a] # <<>> \/ reviews[a] # <<>>})
  /\ UNCHANGED <<tasks, reviews>>
-----------------------------------------------------------------------------
(* Records                                                                 *)

Records == FoldFunction(+, 0, [a \in Agents |-> Len(tasks[a]) + Len(reviews[a])])

\* Faulty variant: the cache keeps the score.
InvalidateNothing(a) == scores' = scores

\* The next reader computes the score again.
Invalidate(a) == scores' = Restrict(scores, DOMAIN scores \ {a})

RecordTask(a, completed, time) ==
  /\ Records < MaxRecords
  /\ tasks' = [tasks EXCEPT ![a] = Append(tasks[a], [completed |-> completed, time |-> time])]
  /\ Invalidate(a)
  /\ UNCHANGED reviews

AddReview(a, rating) ==
  /\ Records < MaxRecords
  /\ reviews' = [reviews EXCEPT ![a] = Append(reviews[a], rating)]
  /\ Invalidate(a)
  /\ UNCHANGED tasks

ReputationNext ==
  \/ \E a \in Agents : ReadScore(a)
  \/ GetLeaderboard
  \/ \E a \in Agents, completed \in BOOLEAN, time \in Times : RecordTask(a, completed, time)
  \/ \E a \in Agents, rating \in Ratings : AddReview(a, rating)

ReputationSpec == ReputationInit /\ [][ReputationNext]_reputationVars
-----------------------------------------------------------------------------
(* Readers of scores                                                       *)

\* tier_from_score: newcomer, bronze, silver, gold, platinum are 0 .. 4.
Tier(score) == Cardinality({t \in {3, 5, 7, 9} : 10 * score >= t * Unit})

\* get_tier is asked before get_score, and both may fill the cache.
AllowTask(a, minTier, minScore) == Tier(GetScore(a)) >= minTier /\ GetScore(a) >= minScore

RequirePremium(a) == AllowTask(a, 3, (8 * Unit) \div 10)
-----------------------------------------------------------------------------
ReputationTypeOK ==
  /\ tasks \in [Agents -> Seq([completed : BOOLEAN, time : Times])]
  /\ reviews \in [Agents -> Seq(Ratings)]
  /\ DOMAIN scores \subseteq Agents
  /\ \A a \in DOMAIN scores : scores[a] \in Int

(* A score is never read from a cache older than the last task or review   *)
(* of its agent, so that gate, tier and leaderboard judge by all that was  *)
(* recorded (get_score, armp_reputation.py:137-138, and the deletions in   *)
(* lines 123 and 132).                                                     *)
CacheIsFresh ==
  \A a \in DOMAIN scores : scores[a] = Score(tasks[a], reviews[a])

(* However good its completion, its times and its reviewers elsewhere, an  *)
(* agent nobody has reviewed is not admitted to premium tasks: what counts *)
(* for no reviews keeps it below the gate (the neutral values of           *)
(* get_score, armp_reputation.py:153-181, and require_premium, 282-284).   *)
PremiumIsReviewed == \A a \in Agents : RequirePremium(a) => reviews[a] # <<>>

(* The gate judges by all that was recorded and by what others said (both  *)
(* of the above).                                                          *)
GateIsSound == CacheIsFresh /\ PremiumIsReviewed
=============================================================================
