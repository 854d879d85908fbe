--------------------------- MODULE ComputeSharing ---------------------------
(***************************************************************************)
(* ComputeManager (armp_compute.py): jobs that requesters submit, wait     *)
(* for, stream and cancel, while one asyncio task per job executes it      *)
(* under a semaphore.                                                      *)
(*                                                                         *)
(* The event loop switches only where the code awaits something that is    *)
(* not ready: before a new asyncio task first runs, at the semaphore, at   *)
(* the handler's next chunk, at an empty stream queue and in the sleeps of *)
(* submit_and_wait.  Everything between two such points is one action.     *)
(***************************************************************************)
EXTENDS Integers, Sequences, FiniteSets

CONSTANTS
  Jobs,           \* job ids
  MaxConcurrent,  \* ComputeManager._max_concurrent
  MaxChunks       \* bound on the chunks of a handler

ASSUME ComputeAssumption ==
  /\ IsFiniteSet(Jobs)
  /\ MaxConcurrent \in Nat \ {0}
  /\ MaxChunks \in Nat

VARIABLES
  status,    \* status[j]: ComputeJob.status, "none" before submit
  stamped,   \* the jobs with a completed_at
  executor,  \* executor[j]: where _execute(j) is
  waiters,   \* the executors waiting at the semaphore, first come first served
  chunks,    \* chunks[j]: how many chunks the handler of j has yielded
  queues,    \* queues[j]: the items in j's queue of _active_streams
  consumer,  \* consumer[j]: the call of stream() for j
  received,  \* received[j]: how many chunks that call has yielded to its caller
  poller     \* poller[j]: the call of submit_and_wait() for j

vars == <<status, stamped, executor, waiters, chunks, queues, consumer, received, poller>>
jobVars == <<status, stamped>>
streamVars == <<queues, consumer, received>>

Active == {"queued", "running", "streaming"}
Terminal == {"completed", "failed", "cancelled"}

Init ==
  /\ status = [j \in Jobs |-> "none"]
  /\ stamped = {}
  /\ executor = [j \in Jobs |-> "none"]
  /\ waiters = <<>>
  /\ chunks = [j \in Jobs |-> 0]
  /\ queues = [j \in Jobs |-> <<>>]
  /\ consumer = [j \in Jobs |-> "none"]
  /\ received = [j \in Jobs |-> 0]
  /\ poller = [j \in Jobs |-> "none"]

InHandler == {j \in Jobs : executor[j] = "handler"}

\* Faulty variant: the queue keeps only the newest item.
PutNewest(j, item) ==
  queues' = IF consumer[j] = "none" THEN queues ELSE [queues EXCEPT ![j] = <<item>>]

Put(j, item) ==
  queues' = IF consumer[j] = "none" THEN queues ELSE [queues EXCEPT ![j] = Append(@, item)]
-----------------------------------------------------------------------------
(* Requesters                                                              *)

\* submit creates the job and the asyncio task that will execute it.
Submit(j) ==
  /\ status[j] = "none"
  /\ status' = [status EXCEPT ![j] = "queued"]
  /\ executor' = [executor EXCEPT ![j] = "created"]
  /\ UNCHANGED <<stamped, waiters, chunks>>

SubmitPlain(j) == Submit(j) /\ UNCHANGED <<streamVars, poller>>

\* stream registers its queue before it first awaits.
Stream(j) ==
  /\ Submit(j)
  /\ consumer' = [consumer EXCEPT ![j] = "reading"]
  /\ UNCHANGED <<queues, received, poller>>

SubmitAndWait(j) ==
  /\ Submit(j)
  /\ poller' = [poller EXCEPT ![j] = "polling"]
  /\ UNCHANGED streamVars

\* Faulty variant: a job that has ended can be cancelled.
SetCancelledAlways(j) ==
  /\ status[j] # "none"
  /\ status' = [status EXCEPT ![j] = "cancelled"]
  /\ stamped' = stamped \union {j}

\* cancel: only an active job; it does not touch the executor.
SetCancelled(j) ==
  /\ status[j] \in Active
  /\ status' = [status EXCEPT ![j] = "cancelled"]
  /\ stamped' = stamped \union {j}

Cancel(j) ==
  /\ SetCancelled(j)
  /\ UNCHANGED <<executor, waiters, chunks, streamVars, poller>>

\* submit_and_wait wakes after its deadline and the job is still active.
TimeOut(j) ==
  /\ poller[j] = "polling"
  /\ SetCancelled(j)
  /\ poller' = [poller EXCEPT ![j] = "returned"]
  /\ UNCHANGED <<executor, waiters, chunks, streamVars>>

\* Faulty variant: the poller does not know that a job can be cancelled.
SeeEndOrCancel(j) ==
  /\ poller[j] = "polling"
  /\ status[j] \in {"completed", "failed"}
  /\ poller' = [poller EXCEPT ![j] = "returned"]
  /\ UNCHANGED <<jobVars, executor, waiters, chunks, streamVars>>

\* submit_and_wait wakes and finds the job ended.
SeeEnd(j) ==
  /\ poller[j] = "polling"
  /\ status[j] \notin Active
  /\ poller' = [poller EXCEPT ![j] = "returned"]
  /\ UNCHANGED <<jobVars, executor, waiters, chunks, streamVars>>

\* stream takes an item: a chunk is yielded, an error chunk raises, None ends.
Consume(j) ==
  /\ consumer[j] = "reading"
  /\ queues[j] # <<>>
  /\ queues' = [queues EXCEPT ![j] = Tail(@)]
  /\ consumer' = [consumer EXCEPT ![j] =
       CASE Head(queues[j]) = "chunk" -> "reading"
         [] Head(queues[j]) = "error" -> "raised"
         [] Head(queues[j]) = "end"   -> "ended"]
  /\ received' = [received EXCEPT ![j] = IF Head(queues[j]) = "chunk" THEN @ + 1 ELSE @]
  /\ UNCHANGED <<jobVars, executor, waiters, chunks, poller>>
-----------------------------------------------------------------------------
(* _execute                                                                *)

\* The code behind `async with self._semaphore`, up to the handler: the status
\* is set whatever it was.
Enter(j) ==
  /\ executor' = [executor EXCEPT ![j] = "handler"]
  /\ status' = [status EXCEPT ![j] = "running"]
  /\ UNCHANGED stamped

NoHandler(j) ==
  /\ executor[j] = "created"
  /\ executor' = [executor EXCEPT ![j] = "done"]
  /\ status' = [status EXCEPT ![j] = "failed"]
  /\ stamped' = stamped \union {j}
  /\ UNCHANGED <<waiters, chunks, streamVars, poller>>

\* Faulty variant: one handler too many.
PermitFreeOffByOne == Cardinality(InHandler) <= MaxConcurrent

PermitFree == Cardinality(InHandler) < MaxConcurrent

Start(j) ==
  /\ executor[j] = "created"
  /\ IF PermitFree /\ waiters = <<>>
     THEN Enter(j) /\ UNCHANGED waiters
     ELSE /\ executor' = [executor EXCEPT ![j] = "semaphore"]
          /\ waiters' = Append(waiters, j)
          /\ UNCHANGED jobVars
  /\ UNCHANGED <<chunks, streamVars, poller>>

\* Faulty variant: a cancelled job is not started, and keeps its place in line.
AcquireUnlessCancelled(j) ==
  /\ waiters # <<>> /\ j = Head(waiters)
  /\ PermitFree
  /\ status[j] # "cancelled"
  /\ waiters' = Tail(waiters)
  /\ Enter(j)
  /\ UNCHANGED <<chunks, streamVars, poller>>

Acquire(j) ==
  /\ waiters # <<>> /\ j = Head(waiters)
  /\ PermitFree
  /\ waiters' = Tail(waiters)
  /\ Enter(j)
  /\ UNCHANGED <<chunks, streamVars, poller>>

\* Faulty variant: the item is put twice.
ChunkTwice(j, item) ==
  /\ executor[j] = "handler"
  /\ chunks[j] < MaxChunks
  /\ chunks' = [chunks EXCEPT ![j] = @ + 1]
  /\ status' = IF chunks[j] = 0 THEN [status EXCEPT ![j] = "streaming"] ELSE status
  /\ queues' = IF consumer[j] = "none" THEN queues ELSE [queues EXCEPT ![j] = @ \o <<item, item>>]
  /\ UNCHANGED <<stamped, executor, waiters, consumer, received, poller>>

\* The handler yields a chunk.  Only the first one sets the status.
Chunk(j, item) ==
  /\ executor[j] = "handler"
  /\ chunks[j] < MaxChunks
  /\ chunks' = [chunks EXCEPT ![j] = @ + 1]
  /\ status' = IF chunks[j] = 0 THEN [status EXCEPT ![j] = "streaming"] ELSE status
  /\ Put(j, item)
  /\ UNCHANGED <<stamped, executor, waiters, consumer, received, poller>>

\* Faulty variant: the end of the stream is not signalled.
FinishSilently(j) ==
  /\ executor[j] = "handler"
  /\ executor' = [executor EXCEPT ![j] = "done"]
  /\ status' = [status EXCEPT ![j] = "completed"]
  /\ stamped' = stamped \union {j}
  /\ UNCHANGED <<waiters, chunks, streamVars, poller>>

\* The handler is exhausted: the status is set whatever it was.
Finish(j) ==
  /\ executor[j] = "handler"
  /\ executor' = [executor EXCEPT ![j] = "done"]
  /\ status' = [status EXCEPT ![j] = "completed"]
  /\ stamped' = stamped \union {j}
  /\ Put(j, "end")
  /\ UNCHANGED <<waiters, chunks, consumer, received, poller>>

\* The handler raises: nothing is put into the stream's queue.
HandlerRaises(j) ==
  /\ executor[j] = "handler"
  /\ executor' = [executor EXCEPT ![j] = "done"]
  /\ status' = [status EXCEPT ![j] = "failed"]
  /\ stamped' = stamped \union {j}
  /\ UNCHANGED <<waiters, chunks, streamVars, poller>>
-----------------------------------------------------------------------------
Request(j) == SubmitPlain(j) \/ Stream(j) \/ SubmitAndWait(j) \/ Cancel(j)

Poll(j) == TimeOut(j) \/ SeeEnd(j)

\* The steps of an executor that the event loop takes, and those of a handler.
Begin(j) == NoHandler(j) \/ Start(j) \/ Acquire(j)

Handle(j) == (\E item \in {"chunk", "error"} : Chunk(j, item)) \/ Finish(j) \/ HandlerRaises(j)

Next == \E j \in Jobs : Request(j) \/ Poll(j) \/ Consume(j) \/ Begin(j) \/ Handle(j)

\* The event loop runs whatever is ready and wakes sleepers; nothing is said
\* about handlers, which may run for ever.
Fairness == \A j \in Jobs : WF_vars(Poll(j)) /\ WF_vars(Consume(j)) /\ WF_vars(Begin(j))

Spec == Init /\ [][Next]_vars /\ Fairness
-----------------------------------------------------------------------------
(* Properties                                                              *)

TypeOK ==
  /\ status \in [Jobs -> {"none"} \union Active \union Terminal]
  /\ stamped \subseteq Jobs
  /\ executor \in [Jobs -> {"none", "created", "semaphore", "handler", "done"}]
  /\ waiters \in Seq(Jobs)
  /\ chunks \in [Jobs -> 0 .. MaxChunks]
  /\ queues \in [Jobs -> Seq({"chunk", "error", "end"})]
  /\ consumer \in [Jobs -> {"none", "reading", "raised", "ended"}]
  /\ received \in [Jobs -> 0 .. MaxChunks]
  /\ poller \in [Jobs -> {"none", "polling", "returned"}]

\* No more than _max_concurrent handlers run at once (armp_compute.py:178-179,
\* 282), and an executor waits at the semaphore in one place only.
BoundedConcurrency ==
  /\ Cardinality(InHandler) <= MaxConcurrent
  /\ \A j \in Jobs : (executor[j] = "semaphore") <=> \E i \in DOMAIN waiters : waiters[i] = j
  /\ \A i, k \in DOMAIN waiters : waiters[i] = waiters[k] => i = k

\* A completed or failed job stays so, with its completed_at: a late cancel or
\* a poller's deadline that races with the end of the job changes nothing
\* (armp_compute.py:247-248).
OutcomeIsFinal ==
  [][\A j \in Jobs : status[j] \in {"completed", "failed"} =>
       status'[j] = status[j] /\ j \in stamped]_vars

\* What a stream() call was given and what is still in its queue is all that
\* the handler yielded, from the first chunk on: the queue is registered before
\* the executor can run (armp_compute.py:230-232).  The end marker comes last
\* and only from an exhausted handler.
StreamIsComplete ==
  \A j \in Jobs :
    LET q == queues[j]
        ends == \E i \in DOMAIN q : q[i] = "end" IN
      /\ consumer[j] \in {"reading", "ended"} =>
           received[j] + Len(q) = chunks[j] + (IF ends THEN 1 ELSE 0)
      /\ ends => q[Len(q)] = "end" /\ executor[j] = "done" /\ status[j] = "completed"
      /\ consumer[j] = "ended" => q = <<>> /\ status[j] = "completed"

\* submit_and_wait returns, even if the handler never ends.
PollerReturns == \A j \in Jobs : poller[j] = "polling" ~> poller[j] = "returned"

HandlersEnd == \A j \in Jobs : executor[j] = "handler" ~> executor[j] = "done"

\* If handlers end, no job waits at the semaphore for ever, whatever else is
\* submitted or cancelled meanwhile.
NoStarvation == HandlersEnd => \A j \in Jobs : status[j] = "queued" ~> executor[j] = "done"

\* The reader of a job that completes gets to the end of its stream.
CompletedStreamEnds ==
  \A j \in Jobs : consumer[j] = "reading" /\ executor[j] = "done" /\ status[j] = "completed"
                  ~> consumer[j] # "reading"

\* The documented cancellation: "The provider stops execution and cleans up
\* resources" (specs/drafts/compute-sharing-v0.7.0.md:75): a cancelled job does
\* not run on, and does not complete.
CancelStopsJob ==
  [][\A j \in Jobs : status[j] = "cancelled" =>
       status'[j] \notin {"running", "streaming", "completed"}]_vars
=============================================================================
