------------------------------ MODULE SyncLoop ------------------------------
(***************************************************************************)
(* Agent.start, Agent.stop and the background sync loop (amp_sdk.py): the  *)
(* loop asks the homeserver for the events after its token, advances the   *)
(* token, and handles the events one after the other.                      *)
(*                                                                         *)
(* start makes a new loop each time it is called and stop cancels none: a  *)
(* loop ends when it looks at _started and finds it False.  Every await is *)
(* a point where other loops and callers run: sync, a handler, a sleep.    *)
(***************************************************************************)
EXTENDS Integers, Sequences, Functions

CONSTANTS
  Starts,      \* the calls of start, each of which makes one loop
  MaxEvents,   \* bound on the events other agents send
  Limit        \* the homeserver's limit on the events of one sync answer

ASSUME SyncLoopAssumption ==
  /\ MaxEvents \in Nat
  /\ Limit \in Nat \ {0}

VARIABLES
  started,   \* Agent._started
  timeline,  \* how many events the homeserver has: event n is the n-th
  loop,      \* loop[l]: what _sync_loop number l is doing
  token,     \* token[l]: its sync_token, the number of events behind it
  batch,     \* batch[l]: the events of its last answer not yet handled
  handled,   \* ghost: handled[l]: the events its handlers finished, in order
  skipped    \* ghost: skipped[l]: the events it was not given, or gave up on

vars == <<started, timeline, loop, token, batch, handled, skipped>>

Init ==
  /\ started = FALSE
  /\ timeline = 0
  /\ loop = [l \in Starts |-> "none"]
  /\ token = [l \in Starts |-> 0]
  /\ batch = [l \in Starts |-> <<>>]
  /\ handled = [l \in Starts |-> <<>>]
  /\ skipped = [l \in Starts |-> {}]

\* Another agent's event reaches the homeserver.
Send ==
  /\ timeline < MaxEvents
  /\ timeline' = timeline + 1
  /\ UNCHANGED <<started, loop, token, batch, handled, skipped>>
-----------------------------------------------------------------------------
(* The caller                                                              *)

\* start has no test of _started.  If it raises before the loop is made,
\* nothing has changed.
Start(l) ==
  /\ loop[l] = "none"
  /\ started' = TRUE
  /\ loop' = [loop EXCEPT ![l] = "top"]
  /\ UNCHANGED <<timeline, token, batch, handled, skipped>>

Stop ==
  /\ started
  /\ started' = FALSE
  /\ UNCHANGED <<timeline, loop, token, batch, handled, skipped>>
-----------------------------------------------------------------------------
(* _sync_loop                                                              *)

\* The test of `while self._started`, up to the await of sync.
Turn(l) ==
  /\ loop[l] = "top"
  /\ loop' = [loop EXCEPT ![l] = IF started THEN "sync" ELSE "ended"]
  /\ UNCHANGED <<started, timeline, token, batch, handled, skipped>>

\* The first event of a sync answer: those after the token, the last ones only
\* if they are more than the homeserver's limit.
FirstOf(l) ==
  IF timeline - token[l] > Limit THEN timeline - Limit + 1 ELSE token[l] + 1

\* What Answer does apart from the token.
TakeBatch(l) ==
  /\ loop[l] = "sync"
  /\ loop' = [loop EXCEPT ![l] = "handle"]
  /\ batch' = [batch EXCEPT ![l] =
                 [i \in 1 .. timeline - FirstOf(l) + 1 |-> FirstOf(l) + i - 1]]
  /\ skipped' = [skipped EXCEPT ![l] = @ \union (token[l] + 1 .. FirstOf(l) - 1)]
  /\ UNCHANGED <<started, timeline, handled>>

\* Faulty variant: the token stays where it is.
AnswerAgain(l) == TakeBatch(l) /\ UNCHANGED token

\* Faulty variant: the token is that of the event to come.
AnswerAhead(l) == TakeBatch(l) /\ token' = [token EXCEPT ![l] = timeline + 1]

\* sync answers.  The token moves before any of the events is handled.
Answer(l) == TakeBatch(l) /\ token' = [token EXCEPT ![l] = timeline]

\* sync answers with a SyncError, or raises: the loop sleeps.
SyncFails(l) ==
  /\ loop[l] = "sync"
  /\ loop' = [loop EXCEPT ![l] = "sleep"]
  /\ UNCHANGED <<started, timeline, token, batch, handled, skipped>>

\* The handler of the next event runs to its end; after the last event the
\* loop is at its top again.
Handle(l) ==
  /\ loop[l] = "handle"
  /\ batch[l] # <<>>
  /\ handled' = [handled EXCEPT ![l] = Append(@, Head(batch[l]))]
  /\ batch' = [batch EXCEPT ![l] = Tail(@)]
  /\ UNCHANGED <<started, timeline, loop, token, skipped>>

BatchDone(l) ==
  /\ loop[l] = "handle"
  /\ batch[l] = <<>>
  /\ loop' = [loop EXCEPT ![l] = "top"]
  /\ UNCHANGED <<started, timeline, token, batch, handled, skipped>>

\* The handler of the next event does not come back: the message callback is the
\* user's code and is awaited without a timeout.  The loop is stuck for good.
Hang(l) ==
  /\ loop[l] = "handle"
  /\ batch[l] # <<>>
  /\ loop' = [loop EXCEPT ![l] = "stuck"]
  /\ UNCHANGED <<started, timeline, token, batch, handled, skipped>>

\* The handler raises: the event and all that follow it in the batch are gone,
\* since the token is already behind them.
HandlerRaises(l) ==
  /\ loop[l] = "handle"
  /\ batch[l] # <<>>
  /\ skipped' = [skipped EXCEPT ![l] = @ \union Range(batch[l])]
  /\ batch' = [batch EXCEPT ![l] = <<>>]
  /\ loop' = [loop EXCEPT ![l] = "sleep"]
  /\ UNCHANGED <<started, timeline, token, handled>>

\* Faulty variant: a loop that slept syncs again without a look at _started.
WakeToSync(l) ==
  /\ loop[l] = "sleep"
  /\ loop' = [loop EXCEPT ![l] = "sync"]
  /\ UNCHANGED <<started, timeline, token, batch, handled, skipped>>

\* asyncio.sleep(5) is over.
Wake(l) ==
  /\ loop[l] = "sleep"
  /\ loop' = [loop EXCEPT ![l] = "top"]
  /\ UNCHANGED <<started, timeline, token, batch, handled, skipped>>
-----------------------------------------------------------------------------
Loop(l) ==
  \/ Turn(l)
  \/ Answer(l) \/ SyncFails(l)
  \/ Handle(l) \/ HandlerRaises(l) \/ Hang(l) \/ BatchDone(l)
  \/ Wake(l)

Next ==
  \/ Send
  \/ Stop
  \/ \E l \in Starts : Start(l) \/ Loop(l)

\* sync has a timeout and a sleep ends, so that a loop which is not stuck in a
\* callback goes on; nothing is assumed of the callback, which may hang.
Spec == Init /\ [][Next]_vars /\ \A l \in Starts : WF_vars(Loop(l))
-----------------------------------------------------------------------------
(* Properties                                                              *)

TypeOK ==
  /\ started \in BOOLEAN
  /\ timeline \in 0 .. MaxEvents
  /\ loop \in [Starts -> {"none", "top", "sync", "handle", "stuck", "sleep", "ended"}]
  /\ token \in [Starts -> 0 .. timeline]
  /\ batch \in [Starts -> Seq(1 .. MaxEvents)]
  /\ handled \in [Starts -> Seq(1 .. MaxEvents)]
  /\ skipped \in [Starts -> SUBSET (1 .. MaxEvents)]

\* What is behind a loop's token it has handled, still holds in its batch, or
\* will never handle, and only one of these; what it handles comes in the order in
\* which it was sent.  So no handler sees an event twice from one loop, however
\* the handlers of several loops interleave, and a failure loses events but
\* never repeats them (amp_sdk.py:260-271).
EveryEventAccounted ==
  \A l \in Starts :
    LET seen == handled[l] \o batch[l] IN
      /\ \A i, j \in 1 .. Len(seen) : i < j => seen[i] < seen[j]
      /\ Range(seen) \intersect skipped[l] = {}
      /\ Range(seen) \union skipped[l] = 1 .. token[l]

Stream == INSTANCE EventStream WITH Readers <- Starts, sent <- timeline, got <- handled

\* Each loop reads an EventStream: in order, without repetition, with gaps.
ImplementsStream == Stream!Spec

\* If the agent is stopped and not started again, no loop is left running,
\* although stop cancels none: not even one that was in the middle of a batch
\* or of a sleep, or that a second start left beside the first.  Only a loop
\* whose callback never returns (amp_sdk.py:337-338) stays where it is.
StoppedLoopsEnd ==
  <>[]~started => \A l \in Starts : <>[](loop[l] \in {"none", "ended", "stuck"})

\* While the agent stays started and a loop stops failing, every event is
\* handled by it or was lost for it, unless a callback that never returns holds
\* the loop; it does not get lost behind a token.
EventsArrive ==
  \A l \in Starts :
    (<>[]started /\ <>[](loop[l] # "sleep")) =>
      \A n \in 1 .. MaxEvents :
        (timeline >= n /\ loop[l] \notin {"none", "ended"})
          ~> (n \in Range(handled[l]) \union skipped[l] \/ loop[l] \in {"ended", "stuck"})
=============================================================================
