------------------------ MODULE ComputeSharingProofs ------------------------
(***************************************************************************)
(* ComputeSharing, proved for every set of jobs, every number of permits   *)
(* and every number of chunks.                                             *)
(***************************************************************************)
EXTENDS ComputeSharing, FiniteSetTheorems, SequenceTheorems, TLAPS

Items == {"chunk", "error", "end"}

Marked(q) == \E i \in DOMAIN q : q[i] = "end"

\* What the status s of a job, the place e of its executor, the chunks n of its
\* handler and its reader c have to do with one another.  A cancelled job may
\* be anywhere but at its end: cancel does not stop the executor.
PhaseLaw(s, e, n, c) ==
  /\ s = "none" <=> e = "none"
  /\ e = "none" => c = "none"
  /\ e \in {"created", "semaphore"} => s \in {"queued", "cancelled"}
  /\ e = "handler" => s \in {"running", "streaming", "cancelled"}
  /\ e = "done" => s \in {"completed", "failed"}
  /\ e \notin {"handler", "done"} => n = 0

\* What the queue q of a stream, its reader c and the count r of chunks given to
\* it have to do with the job.  The end marker is the last item only, and there
\* only when the handler is exhausted; a reader never got more than was yielded,
\* even when an error made it stop.
StreamLaw(s, e, n, q, c, r) ==
  /\ c = "none" => q = <<>> /\ r = 0
  /\ c \in {"reading", "ended"} => r + Len(q) = n + (IF Marked(q) THEN 1 ELSE 0)
  /\ r <= n
  /\ \A i \in DOMAIN q : q[i] = "end" => i = Len(q) /\ e = "done" /\ s = "completed"
  /\ c = "ended" => q = <<>> /\ e = "done" /\ s = "completed"

JobLaws(j) ==
  /\ PhaseLaw(status[j], executor[j], chunks[j], consumer[j])
  /\ StreamLaw(status[j], executor[j], chunks[j], queues[j], consumer[j], received[j])
  /\ status[j] \in {"completed", "failed"} => j \in stamped

CSInv == TypeOK /\ BoundedConcurrency /\ \A j \in Jobs : JobLaws(j)

-----------------------------------------------------------------------------
(* What the steps of one job do to the queue of its stream.                *)

\* A chunk is put and counted (armp_compute.py:297-300).
LEMMA PutChunk ==
  ASSUME NEW s, NEW s1, NEW n \in Nat, NEW q \in Seq(Items), NEW c, NEW r \in Nat,
         NEW item \in {"chunk", "error"}, StreamLaw(s, "handler", n, q, c, r), c # "none"
  PROVE  /\ Append(q, item) \in Seq(Items)
         /\ StreamLaw(s1, "handler", n + 1, Append(q, item), c, r)
<1> DEFINE p == Append(q, item)
<1>1. /\ p \in Seq(Items) /\ Len(p) = Len(q) + 1 /\ Len(q) \in Nat
      /\ DOMAIN p = 1 .. Len(q) + 1 /\ DOMAIN q = 1 .. Len(q)
      /\ \A i \in 1 .. Len(q) : p[i] = q[i]
      /\ p[Len(q) + 1] = item
  BY DEF Items
<1>2. ~ Marked(q)
  BY DEF Marked, StreamLaw
<1>3. \A i \in DOMAIN p : p[i] # "end"
  BY <1>1, <1>2 DEF Marked
<1>4. ~ Marked(p)
  BY <1>3 DEF Marked
<1>5. c # "ended"
  BY DEF StreamLaw
<1>6. c = "reading" => r + Len(q) = n
  BY <1>2 DEF StreamLaw
<1>7. r <= n
  BY DEF StreamLaw
<1> HIDE DEF p
<1>8. StreamLaw(s1, "handler", n + 1, p, c, r)
  BY <1>1, <1>3, <1>4, <1>5, <1>6, <1>7 DEF StreamLaw
<1> QED  BY <1>1, <1>8 DEF p

\* The end marker is put (armp_compute.py:319).
LEMMA PutEnd ==
  ASSUME NEW s, NEW n \in Nat, NEW q \in Seq(Items), NEW c, NEW r \in Nat,
         StreamLaw(s, "handler", n, q, c, r), c # "none"
  PROVE  /\ Append(q, "end") \in Seq(Items)
         /\ StreamLaw("completed", "done", n, Append(q, "end"), c, r)
<1> DEFINE p == Append(q, "end")
<1>1. /\ p \in Seq(Items) /\ Len(p) = Len(q) + 1 /\ Len(q) \in Nat
      /\ DOMAIN p = 1 .. Len(q) + 1 /\ DOMAIN q = 1 .. Len(q)
      /\ \A i \in 1 .. Len(q) : p[i] = q[i]
      /\ p[Len(q) + 1] = "end"
  BY DEF Items
<1>2. ~ Marked(q)
  BY DEF Marked, StreamLaw
<1>3. \A i \in DOMAIN p : p[i] = "end" => i = Len(p)
  BY <1>1, <1>2 DEF Marked
<1>4. Marked(p)
  BY <1>1 DEF Marked
<1>5. c # "ended"
  BY DEF StreamLaw
<1>6. c = "reading" => r + Len(q) = n
  BY <1>2 DEF StreamLaw
<1>7. r <= n
  BY DEF StreamLaw
<1> HIDE DEF p
<1>8. StreamLaw("completed", "done", n, p, c, r)
  BY <1>1, <1>3, <1>4, <1>5, <1>6, <1>7 DEF StreamLaw
<1> QED  BY <1>1, <1>8 DEF p

\* The reader takes the first item (armp_compute.py:234-240).
LEMMA TakeItem ==
  ASSUME NEW s, NEW e, NEW n \in Nat, NEW q \in Seq(Items), NEW r \in Nat,
         StreamLaw(s, e, n, q, "reading", r), q # <<>>
  PROVE  /\ Tail(q) \in Seq(Items)
         /\ Head(q) \in Items
         /\ Head(q) = "chunk" => r + 1 <= n /\ StreamLaw(s, e, n, Tail(q), "reading", r + 1)
         /\ Head(q) = "error" => StreamLaw(s, e, n, Tail(q), "raised", r)
         /\ Head(q) = "end" => StreamLaw(s, e, n, Tail(q), "ended", r)
<1> DEFINE p == Tail(q)
<1>1. /\ p \in Seq(Items) /\ Len(p) = Len(q) - 1 /\ Len(q) \in Nat \ {0}
      /\ DOMAIN p = 1 .. Len(q) - 1 /\ DOMAIN q = 1 .. Len(q)
      /\ Head(q) = q[1] /\ Head(q) \in Items
      /\ \A i \in 1 .. Len(q) - 1 : p[i] = q[i + 1]
  <2>1. Head(q) \in Items /\ p \in Seq(Items) /\ Len(p) = Len(q) - 1
        /\ \A i \in 1 .. Len(p) : p[i] = q[i + 1]
    BY HeadTailProperties
  <2>2. Len(q) \in Nat \ {0}
    BY EmptySeq
  <2>3. DOMAIN p = 1 .. Len(p) /\ DOMAIN q = 1 .. Len(q)
    BY <2>1, LenProperties
  <2> QED  BY <2>1, <2>2, <2>3
<1>2. \A i \in DOMAIN q : q[i] = "end" => i = Len(q) /\ e = "done" /\ s = "completed"
  BY DEF StreamLaw
<1>3. r + Len(q) = n + (IF Marked(q) THEN 1 ELSE 0) /\ r <= n
  BY DEF StreamLaw
<1> HIDE DEF p
<1>4. \A i \in DOMAIN p : p[i] = "end" => i = Len(p) /\ e = "done" /\ s = "completed"
  <2> SUFFICES ASSUME NEW i \in DOMAIN p, p[i] = "end"
               PROVE  i = Len(p) /\ e = "done" /\ s = "completed"
    OBVIOUS
  <2>1. i + 1 \in DOMAIN q /\ q[i + 1] = "end"
    BY <1>1
  <2>2. i + 1 = Len(q) /\ e = "done" /\ s = "completed"
    BY <1>2, <2>1
  <2> QED  BY <1>1, <2>2
<1>5. Head(q) # "end" => (Marked(p) <=> Marked(q))
  <2>1. Marked(p) => Marked(q)
    <3> SUFFICES ASSUME NEW i \in DOMAIN p, p[i] = "end" PROVE Marked(q)
      BY DEF Marked
    <3>1. i + 1 \in DOMAIN q /\ q[i + 1] = "end"
      BY <1>1
    <3> QED  BY <3>1 DEF Marked
  <2>2. ASSUME Head(q) # "end", NEW i \in DOMAIN q, q[i] = "end" PROVE Marked(p)
    <3>1. i - 1 \in DOMAIN p /\ p[i - 1] = "end"
      BY <1>1, <2>2
    <3> QED  BY <3>1 DEF Marked
  <2> QED  BY <2>1, <2>2 DEF Marked
<1>6. CASE Head(q) = "chunk"
  <2>1. Marked(q) => Len(q) >= 2
    <3> SUFFICES ASSUME NEW i \in DOMAIN q, q[i] = "end" PROVE Len(q) >= 2
      BY DEF Marked
    <3> QED  BY <1>1, <1>6
  <2>2. r + 1 <= n
    BY <1>1, <1>3, <2>1
  <2>3. (r + 1) + Len(p) = n + (IF Marked(p) THEN 1 ELSE 0)
    <3>1. Len(p) = Len(q) - 1 /\ Len(q) \in Nat
      BY <1>1
    <3>2. CASE Marked(q)
      <4>1. Marked(p) /\ r + Len(q) = n + 1
        BY <1>3, <1>5, <1>6, <3>2
      <4> QED  BY <3>1, <4>1
    <3>3. CASE ~ Marked(q)
      <4>1. ~ Marked(p) /\ r + Len(q) = n
        BY <1>3, <1>5, <1>6, <3>3
      <4> QED  BY <3>1, <4>1
    <3> QED  BY <3>2, <3>3
  <2>4. StreamLaw(s, e, n, p, "reading", r + 1)
    BY <1>4, <2>2, <2>3 DEF StreamLaw
  <2> QED  BY <1>1, <1>6, <2>2, <2>4 DEF p
<1>7. CASE Head(q) = "error"
  <2>1. StreamLaw(s, e, n, p, "raised", r)
    BY <1>3, <1>4 DEF StreamLaw
  <2> QED  BY <1>1, <1>7, <2>1 DEF p
<1>8. CASE Head(q) = "end"
  <2>1. Len(q) = 1 /\ e = "done" /\ s = "completed"
    BY <1>1, <1>2, <1>8
  <2>2. p = <<>>
    BY <1>1, <2>1, EmptySeq
  <2>3. Marked(q) /\ ~ Marked(p) /\ Len(p) = 0
    BY <1>1, <1>8, <2>1 DEF Marked
  <2>4. r + Len(p) = n + (IF Marked(p) THEN 1 ELSE 0)
    BY <1>3, <2>1, <2>3
  <2>5. StreamLaw(s, e, n, p, "ended", r)
    BY <1>3, <1>4, <2>1, <2>2, <2>4 DEF StreamLaw
  <2> QED  BY <1>1, <1>8, <2>5 DEF p
<1> QED  BY <1>1, <1>6, <1>7, <1>8 DEF Items

-----------------------------------------------------------------------------
(* Frames: what a step of one job leaves alone.                            *)

\* A step of j that keeps the laws of j keeps those of every job.
LEMMA OthersKept ==
  ASSUME CSInv, NEW j \in Jobs, JobLaws(j)',
         \A k \in Jobs \ {j} :
            /\ status'[k] = status[k] /\ executor'[k] = executor[k] /\ chunks'[k] = chunks[k]
            /\ queues'[k] = queues[k] /\ consumer'[k] = consumer[k] /\ received'[k] = received[k]
            /\ k \in stamped => k \in stamped'
  PROVE  (\A k \in Jobs : JobLaws(k))'
<1>1. ASSUME NEW k \in Jobs \ {j} PROVE JobLaws(k)'
  <2>1. JobLaws(k)
    BY DEF CSInv
  <2> QED  BY <1>1, <2>1 DEF JobLaws
<1> QED  BY <1>1

\* A step that neither queues at the semaphore nor enters a handler.
LEMMA LineKept ==
  ASSUME CSInv, executor' \in [Jobs -> {"none", "created", "semaphore", "handler", "done"}],
         waiters' = waiters,
         \A k \in Jobs : /\ executor'[k] = "semaphore" <=> executor[k] = "semaphore"
                         /\ executor'[k] = "handler" => executor[k] = "handler"
  PROVE  BoundedConcurrency'
<1>1. InHandler' \subseteq InHandler
  <2>1. ASSUME NEW k \in Jobs, executor'[k] = "handler" PROVE executor[k] = "handler"
    BY <2>1
  <2> QED  BY <2>1 DEF InHandler
<1>2. IsFiniteSet(InHandler)
  BY FS_Subset, ComputeAssumption DEF InHandler
<1>3. Cardinality(InHandler') <= Cardinality(InHandler)
  BY <1>1, <1>2, FS_Subset
<1>4. Cardinality(InHandler) \in Nat /\ Cardinality(InHandler') \in Nat
  BY <1>1, <1>2, FS_Subset, FS_CardinalityType
<1>5. Cardinality(InHandler') <= MaxConcurrent
  BY <1>3, <1>4, ComputeAssumption DEF CSInv, BoundedConcurrency
<1>6. \A k \in Jobs : (executor'[k] = "semaphore") <=> \E i \in DOMAIN waiters' : waiters'[i] = k
  <2>1. ASSUME NEW k \in Jobs
        PROVE  (executor'[k] = "semaphore") <=> \E i \in DOMAIN waiters : waiters[i] = k
    <3>1. (executor'[k] = "semaphore") <=> (executor[k] = "semaphore")
      BY <2>1
    <3> QED  BY <3>1 DEF CSInv, BoundedConcurrency
  <2> QED  BY <2>1
<1>7. \A i, k \in DOMAIN waiters' : waiters'[i] = waiters'[k] => i = k
  BY DEF CSInv, BoundedConcurrency
<1> QED  BY <1>5, <1>6, <1>7 DEF BoundedConcurrency

\* A handler is entered only with a free permit.
LEMMA PermitTaken ==
  ASSUME CSInv, NEW j \in Jobs, PermitFree, executor' = [executor EXCEPT ![j] = "handler"]
  PROVE  Cardinality(InHandler)' <= MaxConcurrent
<1>1. InHandler' = InHandler \union {j}
  BY DEF InHandler, CSInv, TypeOK
<1>2. IsFiniteSet(InHandler)
  BY FS_Subset, ComputeAssumption DEF InHandler
<1>3. Cardinality(InHandler) \in Nat
  BY <1>2, FS_CardinalityType
<1>4. Cardinality(InHandler \union {j}) \in {Cardinality(InHandler), Cardinality(InHandler) + 1}
  BY <1>2, FS_AddElement
<1>5. Cardinality(InHandler') <= Cardinality(InHandler) + 1
  BY <1>1, <1>3, <1>4
<1>6. Cardinality(InHandler') \in Nat
  BY <1>1, <1>3, <1>4
<1> QED  BY <1>3, <1>5, <1>6, ComputeAssumption DEF PermitFree
-----------------------------------------------------------------------------
(* Every step keeps the invariant: requesters and pollers.                 *)

LEMMA InitHolds == Init => CSInv
<1> SUFFICES ASSUME Init PROVE CSInv
  OBVIOUS
<1> USE DEF Init
<1>1. TypeOK
  BY ComputeAssumption, EmptySeq DEF TypeOK
<1>2. BoundedConcurrency
  <2>1. InHandler = {}
    BY DEF InHandler
  <2>2. Cardinality(InHandler) <= MaxConcurrent
    BY <2>1, FS_EmptySet, ComputeAssumption
  <2> QED  BY <2>2 DEF BoundedConcurrency
<1>3. ASSUME NEW j \in Jobs PROVE JobLaws(j)
  <2>1. PhaseLaw("none", "none", 0, "none")
    BY DEF PhaseLaw
  <2>2. StreamLaw("none", "none", 0, <<>>, "none", 0)
    BY DEF StreamLaw
  <2> QED  BY <2>1, <2>2 DEF JobLaws
<1> QED  BY <1>1, <1>2, <1>3 DEF CSInv

LEMMA SubmitKeeps ==
  ASSUME CSInv, NEW j \in Jobs, SubmitPlain(j) \/ Stream(j) \/ SubmitAndWait(j)
  PROVE  CSInv'
<1>1. /\ Submit(j) /\ queues' = queues /\ received' = received
      /\ consumer' = consumer \/ consumer' = [consumer EXCEPT ![j] = "reading"]
      /\ poller' = poller \/ poller' = [poller EXCEPT ![j] = "polling"]
  BY DEF SubmitPlain, Stream, SubmitAndWait, streamVars
<1>2. TypeOK
  BY DEF CSInv
<1>3. TypeOK'
  BY <1>1, <1>2 DEF TypeOK, Submit, Active
<1>4. /\ status'[j] = "queued" /\ executor'[j] = "created" /\ chunks'[j] = chunks[j]
      /\ queues'[j] = queues[j] /\ received'[j] = received[j]
      /\ consumer'[j] \in {consumer[j], "reading"}
  BY <1>1, <1>2 DEF TypeOK, Submit
<1>5. /\ executor[j] = "none" /\ consumer[j] = "none" /\ chunks[j] = 0
      /\ queues[j] = <<>> /\ received[j] = 0
  BY <1>1 DEF CSInv, JobLaws, PhaseLaw, StreamLaw, Submit
<1>6. JobLaws(j)'
  <2>1. PhaseLaw("queued", "created", 0, consumer'[j])
    BY DEF PhaseLaw
  <2>2. StreamLaw("queued", "created", 0, <<>>, consumer'[j], 0)
    BY <1>4, <1>5 DEF StreamLaw, Marked
  <2> QED  BY <1>4, <1>5, <2>1, <2>2 DEF JobLaws
<1>7. (\A k \in Jobs : JobLaws(k))'
  BY <1>1, <1>2, <1>6, OthersKept DEF TypeOK, Submit
<1>8. BoundedConcurrency'
  BY <1>1, <1>2, <1>3, <1>5, LineKept DEF TypeOK, Submit
<1> QED  BY <1>3, <1>7, <1>8 DEF CSInv

\* cancel and the deadline of submit_and_wait write the status of an active job.
LEMMA CancelKeeps ==
  ASSUME CSInv, NEW j \in Jobs, Cancel(j) \/ TimeOut(j)
  PROVE  CSInv'
<1>1. /\ SetCancelled(j) /\ UNCHANGED <<executor, waiters, chunks, queues, consumer, received>>
      /\ poller' = poller \/ poller' = [poller EXCEPT ![j] = "returned"]
  BY DEF Cancel, TimeOut, streamVars
<1>2. TypeOK
  BY DEF CSInv
<1>3. TypeOK'
  BY <1>1, <1>2 DEF TypeOK, SetCancelled, Terminal
<1>4. status'[j] = "cancelled" /\ status[j] \in Active
  BY <1>1, <1>2 DEF TypeOK, SetCancelled
<1>5. PhaseLaw(status[j], executor[j], chunks[j], consumer[j])
      /\ StreamLaw(status[j], executor[j], chunks[j], queues[j], consumer[j], received[j])
  BY DEF CSInv, JobLaws
<1>6. PhaseLaw("cancelled", executor[j], chunks[j], consumer[j])
  BY <1>4, <1>5 DEF PhaseLaw, Active
<1>7. StreamLaw("cancelled", executor[j], chunks[j], queues[j], consumer[j], received[j])
  BY <1>4, <1>5 DEF StreamLaw, Active
<1>8. JobLaws(j)'
  BY <1>1, <1>4, <1>6, <1>7 DEF JobLaws
<1>9. (\A k \in Jobs : JobLaws(k))'
  BY <1>1, <1>2, <1>8, OthersKept DEF TypeOK, SetCancelled
<1>10. BoundedConcurrency'
  BY <1>1, <1>3, LineKept DEF TypeOK
<1> QED  BY <1>3, <1>9, <1>10 DEF CSInv

LEMMA SeeEndKeeps ==
  ASSUME CSInv, NEW j \in Jobs, SeeEnd(j)
  PROVE  CSInv'
<1>1. UNCHANGED <<status, stamped, executor, waiters, chunks, queues, consumer, received>>
  BY DEF SeeEnd, jobVars, streamVars
<1>2. TypeOK'
  BY DEF CSInv, TypeOK, SeeEnd, jobVars, streamVars
<1>3. (\A k \in Jobs : JobLaws(k))'
  BY <1>1 DEF CSInv, JobLaws
<1>4. BoundedConcurrency'
  BY <1>1 DEF CSInv, BoundedConcurrency, InHandler
<1> QED  BY <1>2, <1>3, <1>4 DEF CSInv

LEMMA ConsumeKeeps ==
  ASSUME CSInv, NEW j \in Jobs, Consume(j)
  PROVE  CSInv'
<1>1. TypeOK /\ queues[j] \in Seq(Items) /\ chunks[j] \in 0 .. MaxChunks /\ received[j] \in Nat
  BY ComputeAssumption DEF CSInv, TypeOK, Items
<1>2. UNCHANGED <<status, stamped, executor, waiters, chunks, poller>>
  BY DEF Consume, jobVars
<1>3. StreamLaw(status[j], executor[j], chunks[j], queues[j], "reading", received[j]) /\ queues[j] # <<>>
  BY DEF CSInv, JobLaws, Consume
<1>4. /\ Tail(queues[j]) \in Seq(Items) /\ Head(queues[j]) \in Items
      /\ Head(queues[j]) = "chunk" =>
           /\ received[j] + 1 <= chunks[j]
           /\ StreamLaw(status[j], executor[j], chunks[j], Tail(queues[j]), "reading", received[j] + 1)
      /\ Head(queues[j]) = "error" =>
           StreamLaw(status[j], executor[j], chunks[j], Tail(queues[j]), "raised", received[j])
      /\ Head(queues[j]) = "end" =>
           StreamLaw(status[j], executor[j], chunks[j], Tail(queues[j]), "ended", received[j])
  <2>1. chunks[j] \in Nat
    BY <1>1, ComputeAssumption
  <2> QED  BY <1>1, <1>3, <2>1, TakeItem
<1>5. /\ queues'[j] = Tail(queues[j])
      /\ Head(queues[j]) = "chunk" => consumer'[j] = "reading" /\ received'[j] = received[j] + 1
      /\ Head(queues[j]) = "error" => consumer'[j] = "raised" /\ received'[j] = received[j]
      /\ Head(queues[j]) = "end" => consumer'[j] = "ended" /\ received'[j] = received[j]
  BY <1>1 DEF Consume, TypeOK
<1>6. /\ StreamLaw(status[j], executor[j], chunks[j], queues'[j], consumer'[j], received'[j])
      /\ consumer'[j] \in {"reading", "raised", "ended"}
      /\ received'[j] \in 0 .. MaxChunks
  <2>1. received[j] \in 0 .. MaxChunks
    BY DEF CSInv, TypeOK
  <2>2. CASE Head(queues[j]) = "chunk"
    BY <1>1, <1>4, <1>5, <2>2, ComputeAssumption
  <2>3. CASE Head(queues[j]) = "error"
    BY <1>4, <1>5, <2>1, <2>3
  <2>4. CASE Head(queues[j]) = "end"
    BY <1>4, <1>5, <2>1, <2>4
  <2> QED  BY <1>4, <2>2, <2>3, <2>4 DEF Items
<1>7. TypeOK'
  <2>1. queues' \in [Jobs -> Seq(Items)]
    BY <1>1, <1>4 DEF Consume, TypeOK, Items
  <2>2. consumer' \in [Jobs -> {"none", "reading", "raised", "ended"}]
    <3>1. consumer' = [consumer EXCEPT ![j] = consumer'[j]]
      <4>1. PICK v : consumer' = [consumer EXCEPT ![j] = v]
        BY DEF Consume
      <4> QED  BY <1>1, <4>1 DEF TypeOK
    <3> QED  BY <1>1, <1>6, <3>1 DEF TypeOK
  <2>3. received' \in [Jobs -> 0 .. MaxChunks]
    <3>1. received' = [received EXCEPT ![j] = received'[j]]
      BY <1>1 DEF Consume, TypeOK
    <3> QED  BY <1>1, <1>6, <3>1 DEF TypeOK
  <2> QED  BY <1>1, <1>2, <2>1, <2>2, <2>3 DEF TypeOK, Items
<1>8. JobLaws(j)'
  <2>1. PhaseLaw(status[j], executor[j], chunks[j], consumer'[j])
    BY DEF CSInv, JobLaws, PhaseLaw, Consume
  <2>2. status[j] \in {"completed", "failed"} => j \in stamped
    BY DEF CSInv, JobLaws
  <2> QED  BY <1>2, <1>6, <2>1, <2>2 DEF JobLaws
<1>9. (\A k \in Jobs : JobLaws(k))'
  <2>1. \A k \in Jobs \ {j} : queues'[k] = queues[k] /\ consumer'[k] = consumer[k] /\ received'[k] = received[k]
    BY <1>1 DEF Consume, TypeOK
  <2> QED  BY <1>2, <1>8, <2>1, OthersKept
<1>10. BoundedConcurrency'
  BY <1>2 DEF CSInv, BoundedConcurrency, InHandler
<1> QED  BY <1>7, <1>9, <1>10 DEF CSInv
-----------------------------------------------------------------------------
(* Every step keeps the invariant: the executor.                           *)

\* A job that has not ended, whose executor ends: NoHandler and HandlerRaises
\* put nothing into the queue.
LEMMA FailKeeps ==
  ASSUME CSInv, NEW j \in Jobs, NoHandler(j) \/ HandlerRaises(j)
  PROVE  CSInv'
<1>1. /\ executor[j] \in {"created", "handler"}
      /\ executor' = [executor EXCEPT ![j] = "done"]
      /\ status' = [status EXCEPT ![j] = "failed"]
      /\ stamped' = stamped \union {j}
      /\ UNCHANGED <<waiters, chunks, queues, consumer, received, poller>>
  BY DEF NoHandler, HandlerRaises, streamVars
<1>2. TypeOK
  BY DEF CSInv
<1>3. TypeOK'
  BY <1>1, <1>2 DEF TypeOK, Terminal
<1>4. PhaseLaw(status[j], executor[j], chunks[j], consumer[j])
      /\ StreamLaw(status[j], executor[j], chunks[j], queues[j], consumer[j], received[j])
  BY DEF CSInv, JobLaws
<1>5. PhaseLaw("failed", "done", chunks[j], consumer[j])
  BY <1>1, <1>4 DEF PhaseLaw
<1>6. StreamLaw("failed", "done", chunks[j], queues[j], consumer[j], received[j])
  BY <1>1, <1>4 DEF StreamLaw
<1>7. JobLaws(j)'
  <2>1. status'[j] = "failed" /\ executor'[j] = "done"
    BY <1>1, <1>2 DEF TypeOK
  <2> QED  BY <1>1, <1>5, <1>6, <2>1 DEF JobLaws
<1>8. (\A k \in Jobs : JobLaws(k))'
  BY <1>1, <1>2, <1>7, OthersKept DEF TypeOK
<1>9. BoundedConcurrency'
  BY <1>1, <1>2, <1>3, LineKept DEF TypeOK
<1> QED  BY <1>3, <1>8, <1>9 DEF CSInv

\* The laws of a job whose executor enters the handler (armp_compute.py:282-285).
LEMMA EnterLaws ==
  ASSUME CSInv, NEW j \in Jobs, Enter(j), executor[j] \in {"created", "semaphore"},
         UNCHANGED <<chunks, queues, consumer, received, poller>>
  PROVE  (\A k \in Jobs : JobLaws(k))'
<1>1. TypeOK
  BY DEF CSInv
<1>2. status'[j] = "running" /\ executor'[j] = "handler" /\ stamped' = stamped
  BY <1>1 DEF Enter, TypeOK
<1>3. PhaseLaw(status[j], executor[j], chunks[j], consumer[j])
      /\ StreamLaw(status[j], executor[j], chunks[j], queues[j], consumer[j], received[j])
  BY DEF CSInv, JobLaws
<1>4. PhaseLaw("running", "handler", chunks[j], consumer[j])
  BY <1>3 DEF PhaseLaw
<1>5. StreamLaw("running", "handler", chunks[j], queues[j], consumer[j], received[j])
  BY <1>3 DEF StreamLaw
<1>6. JobLaws(j)'
  BY <1>2, <1>4, <1>5 DEF JobLaws
<1> QED  BY <1>1, <1>6, OthersKept DEF Enter, TypeOK

LEMMA StartKeeps ==
  ASSUME CSInv, NEW j \in Jobs, Start(j)
  PROVE  CSInv'
<1>1. /\ TypeOK /\ waiters \in Seq(Jobs)
      /\ executor[j] = "created" /\ UNCHANGED <<chunks, queues, consumer, received, poller>>
  BY DEF CSInv, TypeOK, Start, streamVars
<1>2. CASE PermitFree /\ waiters = <<>>
  <2>1. Enter(j) /\ UNCHANGED waiters
    BY <1>2 DEF Start
  <2>2. TypeOK'
    BY <1>1, <2>1 DEF TypeOK, Enter, Active
  <2>3. Cardinality(InHandler)' <= MaxConcurrent
    BY <1>2, <2>1, PermitTaken DEF Enter
  <2>4. BoundedConcurrency'
    <3>1. \A k \in Jobs : (executor[k] = "semaphore") <=> (executor'[k] = "semaphore")
      BY <1>1, <2>1 DEF Enter, TypeOK
    <3> QED  BY <2>1, <2>3, <3>1 DEF CSInv, BoundedConcurrency
  <2> QED  BY <1>1, <2>1, <2>2, <2>4, EnterLaws DEF CSInv
<1>3. CASE ~ (PermitFree /\ waiters = <<>>)
  <2>1. /\ executor' = [executor EXCEPT ![j] = "semaphore"]
        /\ waiters' = Append(waiters, j)
        /\ status' = status /\ stamped' = stamped
    BY <1>3 DEF Start, jobVars
  <2>2. TypeOK'
    BY <1>1, <2>1 DEF TypeOK
  <2>3. JobLaws(j)'
    <3>1. PhaseLaw(status[j], executor[j], chunks[j], consumer[j])
          /\ StreamLaw(status[j], executor[j], chunks[j], queues[j], consumer[j], received[j])
          /\ (status[j] \in {"completed", "failed"} => j \in stamped)
      BY DEF CSInv, JobLaws
    <3>2. PhaseLaw(status[j], "semaphore", chunks[j], consumer[j])
      BY <1>1, <3>1 DEF PhaseLaw
    <3>3. StreamLaw(status[j], "semaphore", chunks[j], queues[j], consumer[j], received[j])
      BY <1>1, <3>1 DEF StreamLaw
    <3>4. executor'[j] = "semaphore"
      BY <1>1, <2>1 DEF TypeOK
    <3> QED  BY <1>1, <2>1, <3>1, <3>2, <3>3, <3>4 DEF JobLaws
  <2>4. (\A k \in Jobs : JobLaws(k))'
    BY <1>1, <2>1, <2>3, OthersKept DEF TypeOK
  <2>5. BoundedConcurrency'
    <3>1. /\ DOMAIN waiters' = 1 .. Len(waiters) + 1 /\ DOMAIN waiters = 1 .. Len(waiters)
          /\ Len(waiters) \in Nat
          /\ \A i \in DOMAIN waiters : waiters'[i] = waiters[i]
          /\ waiters'[Len(waiters) + 1] = j
      BY <1>1, <2>1
    <3>2. \A i \in DOMAIN waiters : waiters[i] # j
      BY <1>1 DEF CSInv, BoundedConcurrency
    <3>3. \A i, k \in DOMAIN waiters' : waiters'[i] = waiters'[k] => i = k
      BY <3>1, <3>2 DEF CSInv, BoundedConcurrency
    <3>4. ASSUME NEW k \in Jobs
          PROVE  (executor'[k] = "semaphore") <=> \E i \in DOMAIN waiters' : waiters'[i] = k
      <4>1. CASE k = j
        <5>1. executor'[k] = "semaphore"
          BY <1>1, <2>1, <4>1 DEF TypeOK
        <5>2. Len(waiters) + 1 \in DOMAIN waiters' /\ waiters'[Len(waiters) + 1] = k
          BY <3>1, <4>1
        <5> QED  BY <5>1, <5>2
      <4>2. CASE k # j
        <5>1. executor'[k] = executor[k]
          BY <1>1, <2>1, <4>2 DEF TypeOK
        <5>2. (executor[k] = "semaphore") <=> \E i \in DOMAIN waiters : waiters[i] = k
          BY DEF CSInv, BoundedConcurrency
        <5>3. (\E i \in DOMAIN waiters : waiters[i] = k) <=> (\E i \in DOMAIN waiters' : waiters'[i] = k)
          BY <3>1, <4>2
        <5> QED  BY <5>1, <5>2, <5>3
      <4> QED  BY <4>1, <4>2
    <3>5. Cardinality(InHandler)' <= MaxConcurrent
      <4>1. InHandler' = InHandler
        BY <1>1, <2>1 DEF InHandler, TypeOK
      <4> QED  BY <4>1 DEF CSInv, BoundedConcurrency
    <3> QED  BY <3>3, <3>4, <3>5 DEF BoundedConcurrency
  <2> QED  BY <2>2, <2>4, <2>5 DEF CSInv
<1> QED  BY <1>2, <1>3

LEMMA AcquireKeeps ==
  ASSUME CSInv, NEW j \in Jobs, Acquire(j)
  PROVE  CSInv'
<1>1. /\ waiters \in Seq(Jobs) /\ waiters # <<>> /\ j = Head(waiters) /\ waiters' = Tail(waiters)
      /\ TypeOK /\ PermitFree /\ Enter(j)
      /\ UNCHANGED <<chunks, queues, consumer, received, poller>>
  BY DEF CSInv, TypeOK, Acquire, streamVars
<1>2. /\ waiters' \in Seq(Jobs) /\ Len(waiters) \in Nat \ {0}
      /\ DOMAIN waiters = 1 .. Len(waiters) /\ DOMAIN waiters' = 1 .. Len(waiters) - 1
      /\ \A i \in DOMAIN waiters' : waiters'[i] = waiters[i + 1]
      /\ waiters[1] = j
  <2>1. waiters' \in Seq(Jobs) /\ Len(waiters') = Len(waiters) - 1
        /\ \A i \in 1 .. Len(waiters') : waiters'[i] = waiters[i + 1]
    BY <1>1, HeadTailProperties
  <2>2. Len(waiters) \in Nat \ {0}
    BY <1>1, EmptySeq
  <2>3. DOMAIN waiters = 1 .. Len(waiters) /\ DOMAIN waiters' = 1 .. Len(waiters')
    BY <1>1, <2>1, LenProperties
  <2> QED  BY <1>1, <2>1, <2>2, <2>3
<1>3. executor[j] = "semaphore"
  BY <1>2 DEF CSInv, BoundedConcurrency
<1>4. TypeOK'
  BY <1>1, <1>2 DEF TypeOK, Enter, Active
<1>5. (\A k \in Jobs : JobLaws(k))'
  BY <1>1, <1>3, EnterLaws
<1>6. Cardinality(InHandler)' <= MaxConcurrent
  BY <1>1, PermitTaken DEF Enter
<1>7. \A i, k \in DOMAIN waiters : waiters[i] = waiters[k] => i = k
  BY DEF CSInv, BoundedConcurrency
<1>8. \A i, k \in DOMAIN waiters' : waiters'[i] = waiters'[k] => i = k
  <2> SUFFICES ASSUME NEW i \in DOMAIN waiters', NEW k \in DOMAIN waiters', waiters'[i] = waiters'[k]
               PROVE  i = k
    OBVIOUS
  <2>1. i + 1 \in DOMAIN waiters /\ k + 1 \in DOMAIN waiters /\ waiters[i + 1] = waiters[k + 1]
    BY <1>2
  <2>2. i + 1 = k + 1
    BY <1>7, <2>1
  <2> QED  BY <1>2, <2>2
<1>9. ASSUME NEW k \in Jobs
      PROVE  (executor'[k] = "semaphore") <=> \E i \in DOMAIN waiters' : waiters'[i] = k
  <2>1. CASE k = j
    <3>1. executor'[k] # "semaphore"
      BY <1>1, <2>1 DEF Enter, TypeOK
    <3>2. ASSUME NEW i \in DOMAIN waiters', waiters'[i] = k PROVE FALSE
      <4>1. i + 1 \in DOMAIN waiters /\ 1 \in DOMAIN waiters /\ waiters[i + 1] = waiters[1]
        BY <1>2, <2>1, <3>2
      <4>2. i + 1 = 1
        BY <1>7, <4>1
      <4> QED  BY <1>2, <4>2
    <3> QED  BY <3>1, <3>2
  <2>2. CASE k # j
    <3>1. executor'[k] = executor[k]
      BY <1>1, <2>2 DEF Enter, TypeOK
    <3>2. (executor[k] = "semaphore") <=> \E i \in DOMAIN waiters : waiters[i] = k
      BY DEF CSInv, BoundedConcurrency
    <3>3. ASSUME NEW i \in DOMAIN waiters, waiters[i] = k PROVE \E h \in DOMAIN waiters' : waiters'[h] = k
      <4>1. i - 1 \in DOMAIN waiters' /\ waiters'[i - 1] = k
        BY <1>2, <2>2, <3>3
      <4> QED  BY <4>1
    <3>4. ASSUME NEW i \in DOMAIN waiters', waiters'[i] = k PROVE \E h \in DOMAIN waiters : waiters[h] = k
      <4>1. i + 1 \in DOMAIN waiters /\ waiters[i + 1] = k
        BY <1>2, <3>4
      <4> QED  BY <4>1
    <3> QED  BY <3>1, <3>2, <3>3, <3>4
  <2> QED  BY <2>1, <2>2
<1>10. BoundedConcurrency'
  BY <1>6, <1>8, <1>9 DEF BoundedConcurrency
<1> QED  BY <1>4, <1>5, <1>10 DEF CSInv
LEMMA ChunkKeeps ==
  ASSUME CSInv, NEW j \in Jobs, NEW item \in {"chunk", "error"}, Chunk(j, item)
  PROVE  CSInv'
<1>1. /\ TypeOK /\ queues[j] \in Seq(Items) /\ received[j] \in Nat /\ chunks[j] \in Nat
      /\ executor[j] = "handler" /\ chunks[j] < MaxChunks
  BY ComputeAssumption DEF CSInv, TypeOK, Items, Chunk
<1>2. /\ UNCHANGED <<stamped, executor, waiters, consumer, received, poller>>
      /\ chunks'[j] = chunks[j] + 1
      /\ status'[j] \in {status[j], "streaming"}
      /\ status' = [status EXCEPT ![j] = status'[j]]
  BY <1>1 DEF Chunk, TypeOK
<1>3. PhaseLaw(status[j], "handler", chunks[j], consumer[j])
      /\ StreamLaw(status[j], "handler", chunks[j], queues[j], consumer[j], received[j])
  BY <1>1 DEF CSInv, JobLaws
<1>4. /\ queues' = [queues EXCEPT ![j] = queues'[j]]
      /\ queues'[j] \in Seq(Items)
      /\ StreamLaw(status'[j], "handler", chunks[j] + 1, queues'[j], consumer[j], received[j])
  <2>1. CASE consumer[j] = "none"
    <3>1. queues' = queues
      BY <2>1 DEF Chunk, Put
    <3>2. StreamLaw(status'[j], "handler", chunks[j] + 1, queues[j], consumer[j], received[j])
      BY <1>1, <1>3, <2>1 DEF StreamLaw
    <3>3. queues = [queues EXCEPT ![j] = queues[j]]
      BY <1>1 DEF TypeOK
    <3> QED  BY <1>1, <3>1, <3>2, <3>3
  <2>2. CASE consumer[j] # "none"
    <3>1. queues' = [queues EXCEPT ![j] = Append(queues[j], item)]
      BY <2>2 DEF Chunk, Put
    <3>2. queues'[j] = Append(queues[j], item)
      BY <1>1, <3>1 DEF TypeOK
    <3>3. Append(queues[j], item) \in Seq(Items)
          /\ StreamLaw(status'[j], "handler", chunks[j] + 1, Append(queues[j], item), consumer[j], received[j])
      BY <1>1, <1>3, <2>2, PutChunk
    <3> QED  BY <3>1, <3>2, <3>3
  <2> QED  BY <2>1, <2>2
<1>5. TypeOK'
  <2>1. queues' \in [Jobs -> Seq(Items)]
    BY <1>1, <1>4 DEF TypeOK, Items
  <2>2. chunks' \in [Jobs -> 0 .. MaxChunks]
    BY <1>1, ComputeAssumption DEF Chunk, TypeOK
  <2>3. status' \in [Jobs -> {"none"} \union Active \union Terminal]
    BY <1>1, <1>2 DEF TypeOK, Active
  <2> QED  BY <1>1, <1>2, <2>1, <2>2, <2>3 DEF TypeOK, Items
<1>6. PhaseLaw(status'[j], "handler", chunks[j] + 1, consumer[j])
  BY <1>2, <1>3 DEF PhaseLaw
<1>7. JobLaws(j)'
  <2>1. status'[j] \notin {"completed", "failed"}
    BY <1>6 DEF PhaseLaw
  <2> QED  BY <1>1, <1>2, <1>4, <1>6, <2>1 DEF JobLaws
<1>8. (\A k \in Jobs : JobLaws(k))'
  <2>1. \A k \in Jobs \ {j} : status'[k] = status[k] /\ queues'[k] = queues[k] /\ chunks'[k] = chunks[k]
    BY <1>1, <1>2, <1>4 DEF Chunk, TypeOK
  <2> QED  BY <1>2, <1>7, <2>1, OthersKept
<1>9. BoundedConcurrency'
  BY <1>2 DEF CSInv, BoundedConcurrency, InHandler
<1> QED  BY <1>5, <1>8, <1>9 DEF CSInv

LEMMA FinishKeeps ==
  ASSUME CSInv, NEW j \in Jobs, Finish(j)
  PROVE  CSInv'
<1>1. /\ TypeOK /\ queues[j] \in Seq(Items) /\ received[j] \in Nat /\ chunks[j] \in Nat
      /\ executor[j] = "handler"
  BY ComputeAssumption DEF CSInv, TypeOK, Items, Finish
<1>2. /\ UNCHANGED <<waiters, chunks, consumer, received, poller>>
      /\ executor' = [executor EXCEPT ![j] = "done"]
      /\ status' = [status EXCEPT ![j] = "completed"]
      /\ stamped' = stamped \union {j}
  BY DEF Finish
<1>3. PhaseLaw(status[j], "handler", chunks[j], consumer[j])
      /\ StreamLaw(status[j], "handler", chunks[j], queues[j], consumer[j], received[j])
  BY <1>1 DEF CSInv, JobLaws
<1>4. /\ queues' = [queues EXCEPT ![j] = queues'[j]]
      /\ queues'[j] \in Seq(Items)
      /\ StreamLaw("completed", "done", chunks[j], queues'[j], consumer[j], received[j])
  <2>1. CASE consumer[j] = "none"
    <3>1. queues' = queues
      BY <2>1 DEF Finish, Put
    <3>2. StreamLaw("completed", "done", chunks[j], queues[j], consumer[j], received[j])
      BY <1>1, <1>3, <2>1 DEF StreamLaw
    <3>3. queues = [queues EXCEPT ![j] = queues[j]]
      BY <1>1 DEF TypeOK
    <3> QED  BY <1>1, <3>1, <3>2, <3>3
  <2>2. CASE consumer[j] # "none"
    <3>1. queues' = [queues EXCEPT ![j] = Append(queues[j], "end")]
      BY <2>2 DEF Finish, Put
    <3>2. queues'[j] = Append(queues[j], "end")
      BY <1>1, <3>1 DEF TypeOK
    <3>3. Append(queues[j], "end") \in Seq(Items)
          /\ StreamLaw("completed", "done", chunks[j], Append(queues[j], "end"), consumer[j], received[j])
      BY <1>1, <1>3, <2>2, PutEnd
    <3> QED  BY <3>1, <3>2, <3>3
  <2> QED  BY <2>1, <2>2
<1>5. TypeOK'
  <2>1. queues' \in [Jobs -> Seq(Items)]
    BY <1>1, <1>4 DEF TypeOK, Items
  <2> QED  BY <1>1, <1>2, <2>1 DEF TypeOK, Items, Terminal
<1>6. PhaseLaw("completed", "done", chunks[j], consumer[j])
  BY <1>3 DEF PhaseLaw
<1>7. JobLaws(j)'
  <2>1. status'[j] = "completed" /\ executor'[j] = "done" /\ j \in stamped'
    BY <1>1, <1>2 DEF TypeOK
  <2> QED  BY <1>2, <1>4, <1>6, <2>1 DEF JobLaws
<1>8. (\A k \in Jobs : JobLaws(k))'
  <2>1. \A k \in Jobs \ {j} : status'[k] = status[k] /\ queues'[k] = queues[k] /\ executor'[k] = executor[k]
    BY <1>1, <1>2, <1>4 DEF TypeOK
  <2> QED  BY <1>2, <1>7, <2>1, OthersKept
<1>9. BoundedConcurrency'
  BY <1>1, <1>2, <1>5, LineKept DEF TypeOK
<1> QED  BY <1>5, <1>8, <1>9 DEF CSInv

LEMMA StepKeeps == CSInv /\ [Next]_vars => CSInv'
<1> SUFFICES ASSUME CSInv, [Next]_vars PROVE CSInv'
  OBVIOUS
<1>1. ASSUME NEW j \in Jobs, Request(j) PROVE CSInv'
  BY <1>1, SubmitKeeps, CancelKeeps DEF Request
<1>2. ASSUME NEW j \in Jobs, Poll(j) PROVE CSInv'
  BY <1>2, CancelKeeps, SeeEndKeeps DEF Poll
<1>3. ASSUME NEW j \in Jobs, Consume(j) PROVE CSInv'
  BY <1>3, ConsumeKeeps
<1>4. ASSUME NEW j \in Jobs, Begin(j) PROVE CSInv'
  BY <1>4, FailKeeps, StartKeeps, AcquireKeeps DEF Begin
<1>5. ASSUME NEW j \in Jobs, Handle(j) PROVE CSInv'
  BY <1>5, ChunkKeeps, FinishKeeps, FailKeeps DEF Handle
<1>6. CASE UNCHANGED vars
  BY <1>6 DEF CSInv, TypeOK, BoundedConcurrency, InHandler, JobLaws, vars
<1> QED  BY <1>1, <1>2, <1>3, <1>4, <1>5, <1>6 DEF Next

-----------------------------------------------------------------------------
(* The theorems.                                                           *)

\* The inductive invariant holds in every reachable state: the status of every
\* job, the place of its executor and the contents of its stream agree.
THEOREM ComputeInvariant == Spec => []CSInv
<1>1. CSInv /\ [Next]_vars => CSInv'
  BY StepKeeps
<1> QED  BY <1>1, InitHolds, PTL DEF Spec

\* The variables of ComputeManager keep their types (armp_compute.py:172-179).
THEOREM ComputeTypeCorrect == Spec => []TypeOK
<1>1. CSInv => TypeOK
  BY DEF CSInv
<1> QED  BY <1>1, ComputeInvariant, PTL

\* Never more than _max_concurrent handlers run, however jobs are submitted,
\* cancelled and timed out (armp_compute.py:178-179, 282).
THEOREM ConcurrencyIsBounded == Spec => []BoundedConcurrency
<1>1. CSInv => BoundedConcurrency
  BY DEF CSInv
<1> QED  BY <1>1, ComputeInvariant, PTL

\* No chunk of a stream is lost or given twice on its way through the queue, and
\* the end marker follows them all (armp_compute.py:228-240, 297-319).
THEOREM StreamsAreComplete == Spec => []StreamIsComplete
<1>1. ASSUME CSInv PROVE StreamIsComplete
  <2>1. ASSUME NEW j \in Jobs
        PROVE  /\ consumer[j] \in {"reading", "ended"} =>
                    received[j] + Len(queues[j]) = chunks[j] + (IF Marked(queues[j]) THEN 1 ELSE 0)
               /\ Marked(queues[j]) =>
                    queues[j][Len(queues[j])] = "end" /\ executor[j] = "done" /\ status[j] = "completed"
               /\ consumer[j] = "ended" => queues[j] = <<>> /\ status[j] = "completed"
    <3>1. StreamLaw(status[j], executor[j], chunks[j], queues[j], consumer[j], received[j])
      BY <1>1 DEF CSInv, JobLaws
    <3>2. Marked(queues[j]) =>
            queues[j][Len(queues[j])] = "end" /\ executor[j] = "done" /\ status[j] = "completed"
      BY <3>1 DEF StreamLaw, Marked
    <3>3. consumer[j] \in {"reading", "ended"} =>
            received[j] + Len(queues[j]) = chunks[j] + (IF Marked(queues[j]) THEN 1 ELSE 0)
      BY <3>1 DEF StreamLaw
    <3>4. consumer[j] = "ended" => queues[j] = <<>> /\ status[j] = "completed"
      BY <3>1 DEF StreamLaw
    <3> QED  BY <3>2, <3>3, <3>4
  <2> QED  BY <2>1 DEF StreamIsComplete, Marked
<1> QED  BY <1>1, ComputeInvariant, PTL

\* An executor that is done or has not begun sets no status: neither a late
\* cancel nor a deadline takes back an outcome (armp_compute.py:247-248).
THEOREM OutcomesAreFinal == Spec => OutcomeIsFinal
<1>1. ASSUME CSInv, [Next]_vars, NEW j \in Jobs, status[j] \in {"completed", "failed"}
      PROVE  status'[j] = status[j] /\ j \in stamped
  <2>1. j \in stamped /\ executor[j] = "done" /\ status \in [Jobs -> {"none"} \union Active \union Terminal]
    BY <1>1 DEF CSInv, JobLaws, PhaseLaw, TypeOK
  <2>2. ASSUME NEW k \in Jobs, Request(k) \/ Poll(k) \/ Consume(k) PROVE status'[j] = status[j]
    BY <1>1, <2>1, <2>2 DEF Request, Poll, Consume, SubmitPlain, Stream, SubmitAndWait, Submit,
         Cancel, TimeOut, SetCancelled, SeeEnd, Active, jobVars
  <2>3. ASSUME NEW k \in Jobs, Begin(k) PROVE status'[j] = status[j]
    <3>1. Acquire(k) => executor[k] = "semaphore"
      <4> SUFFICES ASSUME Acquire(k) PROVE executor[k] = "semaphore"
        OBVIOUS
      <4>1. waiters \in Seq(Jobs) /\ waiters # <<>> /\ k = Head(waiters)
        BY <1>1 DEF Acquire, CSInv, TypeOK
      <4>2. 1 \in DOMAIN waiters /\ waiters[1] = k
        BY <4>1
      <4> QED  BY <1>1, <4>2 DEF CSInv, BoundedConcurrency
    <3> QED  BY <2>1, <2>3, <3>1 DEF Begin, NoHandler, Start, Acquire, Enter, jobVars
  <2>4. ASSUME NEW k \in Jobs, Handle(k) PROVE status'[j] = status[j]
    BY <2>1, <2>4 DEF Handle, Chunk, Finish, HandlerRaises
  <2>5. CASE UNCHANGED vars
    BY <2>1, <2>5 DEF vars
  <2> QED  BY <1>1, <2>1, <2>2, <2>3, <2>4, <2>5 DEF Next
<1>2. CSInv /\ [Next]_vars =>
        [\A j \in Jobs : status[j] \in {"completed", "failed"} =>
           status'[j] = status[j] /\ j \in stamped]_vars
  BY <1>1
<1> QED  BY <1>2, ComputeInvariant, PTL DEF Spec, OutcomeIsFinal
=============================================================================
