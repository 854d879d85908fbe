---------------------------- MODULE SlidingWindow ----------------------------
(***************************************************************************)
(* SlidingWindow (armp_ratelimit.py): events allowed within a moving       *)
(* window.  RateLimiter stores windows (set_window_limit) and never asks   *)
(* them: their callers are those who call `allow` of a window themselves.  *)
(***************************************************************************)
EXTENDS Lists

CONSTANTS
  WindowSize,     \* window_seconds
  MaxEvents,      \* max_events
  WindowTime      \* bound on the clock

ASSUME WindowAssumption ==
  /\ {WindowSize, MaxEvents} \subseteq Nat \ {0}
  /\ WindowTime \in Nat

VARIABLES
  windowNow,  \* time.monotonic()
  stamps,     \* _timestamps
  letIn       \* ghost: the times of all events that were allowed

windowVars == <<windowNow, stamps, letIn>>

WindowInit ==
  /\ windowNow = 0
  /\ stamps = <<>>
  /\ letIn = <<>>

WindowTick ==
  /\ windowNow < WindowTime
  /\ windowNow' = windowNow + 1
  /\ UNCHANGED <<stamps, letIn>>

\* Faulty variant: the cutoff is one unit late.
RecentLate(t) == t > windowNow - WindowSize + 1

Recent(t) == t > windowNow - WindowSize

WindowAllow ==
  LET kept == Keep(stamps, {i \in DOMAIN stamps : Recent(stamps[i])}) IN
  /\ IF Len(kept) < MaxEvents
     THEN /\ stamps' = Append(kept, windowNow)
          /\ letIn' = Append(letIn, windowNow)
     ELSE /\ stamps' = kept
          /\ UNCHANGED letIn
  /\ UNCHANGED windowNow

WindowNext == WindowTick \/ WindowAllow

WindowSpec == WindowInit /\ [][WindowNext]_windowVars
-----------------------------------------------------------------------------
WindowTypeOK ==
  /\ windowNow \in Nat
  /\ stamps \in Seq(Nat)
  /\ letIn \in Seq(Nat)

(* No interval as long as the window holds more than max_events events     *)
(* that were let in (SlidingWindow.allow, armp_ratelimit.py:94-105).       *)
WindowHolds ==
  \A i \in DOMAIN letIn :
    i + MaxEvents \in DOMAIN letIn => letIn[i + MaxEvents] - letIn[i] >= WindowSize
=============================================================================
