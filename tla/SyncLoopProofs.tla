--------------------------- MODULE SyncLoopProofs ---------------------------
(***************************************************************************)
(* SyncLoop, proved for any number of starts, any bound on the events and  *)
(* any limit of the homeserver: no loop sees an event twice or out of      *)
(* order, and what it does not see was lost for it.                        *)
(***************************************************************************)
EXTENDS SyncLoop, SequenceTheorems, TLAPS

Events == 1 .. MaxEvents

Increasing(e) == \A i, j \in 1 .. Len(e) : i < j => e[i] < e[j]

\* The account of one loop: e are the events it handled and those of its batch,
\* s those it was not given or gave up on, t is its token.
Accounted(e, s, t) ==
  /\ Increasing(e)
  /\ Range(e) \intersect s = {}
  /\ Range(e) \union s = 1 .. t

\* A loop has a batch only while it handles it.
Balanced(l) ==
  /\ Accounted(handled[l] \o batch[l], skipped[l], token[l])
  /\ loop[l] \notin {"handle", "stuck"} => batch[l] = <<>>

SLInv == TypeOK /\ \A l \in Starts : Balanced(l)

-----------------------------------------------------------------------------
(* What the steps of a loop do to its account.                             *)

\* Moving the first event of the batch to the handled ones changes no order.
LEMMA MoveHead ==
  ASSUME NEW S, NEW h \in Seq(S), NEW b \in Seq(S), b # <<>>
  PROVE  /\ Append(h, Head(b)) \in Seq(S) /\ Tail(b) \in Seq(S)
         /\ Append(h, Head(b)) \o Tail(b) = h \o b
<1> DEFINE p == Append(h, Head(b))
           q == Tail(b)
<1>1. /\ Head(b) \in S /\ Head(b) = b[1] /\ q \in Seq(S) /\ Len(q) = Len(b) - 1
      /\ \A i \in 1 .. Len(q) : q[i] = b[i + 1]
  BY HeadTailProperties
<1>2. Len(b) \in Nat \ {0} /\ Len(h) \in Nat
  BY EmptySeq
<1>3. /\ p \in Seq(S) /\ Len(p) = Len(h) + 1
      /\ \A i \in 1 .. Len(h) : p[i] = h[i]
      /\ p[Len(h) + 1] = b[1]
  BY <1>1, <1>2
<1> HIDE DEF p, q
<1>4. /\ p \o q \in Seq(S) /\ Len(p \o q) = Len(h) + Len(b)
      /\ \A i \in 1 .. Len(h) + Len(b) : (p \o q)[i] = IF i <= Len(p) THEN p[i] ELSE q[i - Len(p)]
  <2>1. Len(p) + Len(q) = Len(h) + Len(b)
    BY <1>1, <1>2, <1>3
  <2>2. q \in Seq(S) /\ p \in Seq(S)
    BY <1>1, <1>3
  <2>3. /\ p \o q \in Seq(S) /\ Len(p \o q) = Len(p) + Len(q)
        /\ \A i \in 1 .. Len(p) + Len(q) : (p \o q)[i] = IF i <= Len(p) THEN p[i] ELSE q[i - Len(p)]
    BY <2>2, ConcatProperties
  <2> QED  BY <2>1, <2>3
<1>5. /\ h \o b \in Seq(S) /\ Len(h \o b) = Len(h) + Len(b)
      /\ \A i \in 1 .. Len(h) + Len(b) : (h \o b)[i] = IF i <= Len(h) THEN h[i] ELSE b[i - Len(h)]
  BY ConcatProperties
<1>6. ASSUME NEW i \in 1 .. Len(h) + Len(b) PROVE (p \o q)[i] = (h \o b)[i]
  <2>1. CASE i <= Len(h)
    BY <1>2, <1>3, <1>4, <1>5, <2>1
  <2>2. CASE i = Len(h) + 1
    BY <1>2, <1>3, <1>4, <1>5, <2>2
  <2>3. CASE i > Len(h) + 1
    <3>1. (p \o q)[i] = q[i - Len(p)] /\ (h \o b)[i] = b[i - Len(h)]
      BY <1>2, <1>3, <1>4, <1>5, <2>3
    <3>2. i - Len(p) \in 1 .. Len(q) /\ i - Len(p) + 1 = i - Len(h)
      BY <1>1, <1>2, <1>3, <2>3
    <3> QED  BY <1>1, <3>1, <3>2
  <2>4. i <= Len(h) \/ i = Len(h) + 1 \/ i > Len(h) + 1
    BY <1>2
  <2> QED  BY <2>1, <2>2, <2>3, <2>4
<1>7. p \o q = h \o b
  BY <1>4, <1>5, <1>6, SeqEqual
<1> QED  BY <1>1, <1>3, <1>7 DEF p, q

\* What is in two sequences joined.
LEMMA RangeOfConcat ==
  ASSUME NEW S, NEW h \in Seq(S), NEW b \in Seq(S)
  PROVE  Range(h \o b) = Range(h) \union Range(b)
<1>1. /\ Len(h) \in Nat /\ Len(b) \in Nat
      /\ DOMAIN h = 1 .. Len(h) /\ DOMAIN b = 1 .. Len(b)
  BY LenProperties
<1>2. /\ DOMAIN (h \o b) = 1 .. Len(h) + Len(b)
      /\ \A i \in 1 .. Len(h) + Len(b) : (h \o b)[i] = IF i <= Len(h) THEN h[i] ELSE b[i - Len(h)]
  BY ConcatProperties, LenProperties
<1>3. ASSUME NEW x \in Range(h \o b) PROVE x \in Range(h) \union Range(b)
  <2>1. PICK i \in 1 .. Len(h) + Len(b) : x = (h \o b)[i]
    BY <1>2, <1>3 DEF Range
  <2>2. CASE i <= Len(h)
    <3>1. x = h[i] /\ i \in DOMAIN h  BY <1>1, <1>2, <2>1, <2>2
    <3> QED  BY <3>1 DEF Range
  <2>3. CASE ~ i <= Len(h)
    <3>1. x = b[i - Len(h)] /\ i - Len(h) \in DOMAIN b  BY <1>1, <1>2, <2>1, <2>3
    <3> QED  BY <3>1 DEF Range
  <2> QED  BY <2>2, <2>3
<1>4. ASSUME NEW x \in Range(h) PROVE x \in Range(h \o b)
  <2>1. PICK i \in DOMAIN h : x = h[i]
    BY <1>4 DEF Range
  <2>2. i \in DOMAIN (h \o b) /\ (h \o b)[i] = x
    BY <1>1, <1>2, <2>1
  <2> QED  BY <2>2 DEF Range
<1>5. ASSUME NEW x \in Range(b) PROVE x \in Range(h \o b)
  <2>1. PICK i \in DOMAIN b : x = b[i]
    BY <1>5 DEF Range
  <2>2. i + Len(h) \in DOMAIN (h \o b) /\ (h \o b)[i + Len(h)] = x
    BY <1>1, <1>2, <2>1
  <2> QED  BY <2>2 DEF Range
<1> QED  BY <1>3, <1>4, <1>5

\* A batch given up on goes to the events skipped (amp_sdk.py:269-271).
LEMMA DropBatch ==
  ASSUME NEW h \in Seq(Events), NEW b \in Seq(Events), NEW s, NEW t, Accounted(h \o b, s, t)
  PROVE  Accounted(h \o <<>>, s \union Range(b), t)
<1>1. h \o <<>> = h
  BY ConcatEmptySeq
<1>2. /\ Len(h) \in Nat /\ Len(b) \in Nat
      /\ DOMAIN h = 1 .. Len(h) /\ DOMAIN b = 1 .. Len(b)
  BY LenProperties
<1>3. /\ Len(h \o b) = Len(h) + Len(b)
      /\ \A i \in 1 .. Len(h) + Len(b) : (h \o b)[i] = IF i <= Len(h) THEN h[i] ELSE b[i - Len(h)]
  BY ConcatProperties
<1>4. \A i, j \in 1 .. Len(h) + Len(b) : i < j => (h \o b)[i] < (h \o b)[j]
  BY <1>3 DEF Accounted, Increasing
<1>5. Increasing(h)
  <2> SUFFICES ASSUME NEW i \in 1 .. Len(h), NEW j \in 1 .. Len(h), i < j PROVE h[i] < h[j]
    BY DEF Increasing
  <2>1. i \in 1 .. Len(h) + Len(b) /\ j \in 1 .. Len(h) + Len(b)
    BY <1>2
  <2>2. (h \o b)[i] = h[i] /\ (h \o b)[j] = h[j]
    BY <1>3, <2>1
  <2> QED  BY <1>4, <2>1, <2>2
<1>6. Range(h) \intersect Range(b) = {}
  <2> SUFFICES ASSUME NEW i \in DOMAIN h, NEW j \in DOMAIN b, h[i] = b[j] PROVE FALSE
    BY DEF Range
  <2>1. i \in 1 .. Len(h) + Len(b) /\ j + Len(h) \in 1 .. Len(h) + Len(b) /\ i < j + Len(h)
    BY <1>2
  <2>2. (h \o b)[i] = h[i] /\ (h \o b)[j + Len(h)] = b[j]
    BY <1>2, <1>3, <2>1
  <2>3. h[i] < b[j]
    BY <1>4, <2>1, <2>2
  <2>4. h[i] \in Int
    BY <1>2, ElementOfSeq, SyncLoopAssumption DEF Events
  <2> QED  BY <2>3, <2>4
<1>7. Range(h \o b) = Range(h) \union Range(b)
  BY RangeOfConcat
<1> QED  BY <1>1, <1>5, <1>6, <1>7 DEF Accounted

\* The batch of an answer is the events f to n.
LEMMA BatchOf ==
  ASSUME NEW n \in 0 .. MaxEvents, NEW f \in Nat \ {0}, f <= n + 1,
         NEW b, b = [i \in 1 .. n - f + 1 |-> f + i - 1]
  PROVE  /\ b \in Seq(Events) /\ Len(b) = n - f + 1
         /\ \A i \in 1 .. n - f + 1 : b[i] = f + i - 1
<1>1. n - f + 1 \in Nat /\ n \in Nat /\ n <= MaxEvents /\ MaxEvents \in Nat
  BY SyncLoopAssumption
<1>2. \A i \in 1 .. n - f + 1 : f + i - 1 \in Events
  BY <1>1 DEF Events
<1>3. b \in [1 .. n - f + 1 -> Events]
  BY <1>2
<1>4. b \in Seq(Events)
  BY <1>1, <1>3, SeqDef
<1>5. DOMAIN b = 1 .. n - f + 1 /\ DOMAIN b = 1 .. Len(b) /\ Len(b) \in Nat
  BY <1>3, <1>4, LenProperties
<1>6. Len(b) = n - f + 1
  BY <1>1, <1>5
<1> QED  BY <1>4, <1>5, <1>6

\* An answer is accounted for: events f to n come in a batch, those between the
\* token and f are skipped (amp_sdk.py:262-266).
LEMMA FillBatch ==
  ASSUME NEW h \in Seq(Events), NEW s, NEW t \in Nat, NEW n \in 0 .. MaxEvents, NEW f \in Nat,
         t <= n, t < f, f <= n + 1, Accounted(h \o <<>>, s, t),
         NEW b \in Seq(Events), Len(b) = n - f + 1, \A i \in 1 .. n - f + 1 : b[i] = f + i - 1
  PROVE  Accounted(h \o b, s \union (t + 1 .. f - 1), n)
<1>1. n - f + 1 \in Nat /\ n \in Nat /\ n <= MaxEvents /\ MaxEvents \in Nat
  BY SyncLoopAssumption
<1>2. /\ b \in Seq(Events) /\ Len(b) = n - f + 1 /\ DOMAIN b = 1 .. n - f + 1
      /\ \A i \in 1 .. n - f + 1 : b[i] = f + i - 1
  BY LenProperties
<1>3. h \o <<>> = h
  BY ConcatEmptySeq
<1>4. Increasing(h) /\ Range(h) \intersect s = {} /\ Range(h) \union s = 1 .. t
  BY <1>3 DEF Accounted
<1>5. Len(h) \in Nat /\ DOMAIN h = 1 .. Len(h)
  BY LenProperties
<1>6. \A i \in 1 .. Len(h) : h[i] \in 1 .. t
  BY <1>4, <1>5 DEF Range
<1>7. Range(b) = f .. n
  <2>1. ASSUME NEW x \in f .. n PROVE x \in Range(b)
    <3>1. x - f + 1 \in DOMAIN b /\ b[x - f + 1] = x
      BY <1>1, <1>2
    <3> QED  BY <3>1 DEF Range
  <2>2. ASSUME NEW x \in Range(b) PROVE x \in f .. n
    <3>1. PICK i \in 1 .. n - f + 1 : x = b[i]
      BY <1>2 DEF Range
    <3> QED  BY <1>1, <1>2, <3>1
  <2> QED  BY <2>1, <2>2
<1>8. /\ Len(h \o b) = Len(h) + Len(b)
      /\ \A i \in 1 .. Len(h) + Len(b) : (h \o b)[i] = IF i <= Len(h) THEN h[i] ELSE b[i - Len(h)]
  BY <1>2, ConcatProperties
<1>9. Increasing(h \o b)
  <2> SUFFICES ASSUME NEW i \in 1 .. Len(h) + Len(b), NEW j \in 1 .. Len(h) + Len(b), i < j
               PROVE  (h \o b)[i] < (h \o b)[j]
    BY <1>8 DEF Increasing
  <2>1. CASE j <= Len(h)
    <3>1. (h \o b)[i] = h[i] /\ (h \o b)[j] = h[j] /\ i \in 1 .. Len(h) /\ j \in 1 .. Len(h)
      BY <1>5, <1>8, <2>1
    <3> QED  BY <1>4, <3>1 DEF Increasing
  <2>2. CASE i <= Len(h) /\ ~ j <= Len(h)
    <3>1. (h \o b)[i] = h[i] /\ i \in 1 .. Len(h)
      BY <1>5, <1>8, <2>2
    <3>2. (h \o b)[j] = b[j - Len(h)] /\ j - Len(h) \in 1 .. n - f + 1
      BY <1>1, <1>2, <1>5, <1>8, <2>2
    <3>3. h[i] \in 1 .. t /\ b[j - Len(h)] = f + (j - Len(h)) - 1
      BY <1>2, <1>6, <3>1, <3>2
    <3> QED  BY <1>1, <1>5, <3>1, <3>2, <3>3
  <2>3. CASE ~ i <= Len(h)
    <3>1. /\ (h \o b)[i] = b[i - Len(h)] /\ i - Len(h) \in 1 .. n - f + 1
          /\ (h \o b)[j] = b[j - Len(h)] /\ j - Len(h) \in 1 .. n - f + 1
      <4>1. i - Len(h) \in 1 .. n - f + 1 /\ j - Len(h) \in 1 .. n - f + 1
        BY <1>1, <1>2, <1>5, <2>3
      <4>2. ~ j <= Len(h)
        BY <1>2, <1>5, <2>3
      <4> QED  BY <1>8, <2>3, <4>1, <4>2
    <3>2. b[i - Len(h)] = f + (i - Len(h)) - 1 /\ b[j - Len(h)] = f + (j - Len(h)) - 1
      BY <1>2, <3>1
    <3> QED  BY <1>1, <1>5, <3>1, <3>2
  <2> QED  BY <2>1, <2>2, <2>3
<1>10. Range(h \o b) = Range(h) \union (f .. n)
  <2>1. Range(h \o b) = Range(h) \union Range(b)
    BY RangeOfConcat
  <2> QED  BY <1>7, <2>1
<1>11. (1 .. t) \union (t + 1 .. f - 1) \union (f .. n) = 1 .. n
  BY <1>1
<1>12. Range(h) \subseteq 1 .. t /\ s \subseteq 1 .. t
  BY <1>4
<1>13. Range(h \o b) \intersect (s \union (t + 1 .. f - 1)) = {}
  <2>1. (f .. n) \intersect (1 .. t) = {} /\ (f .. n) \intersect (t + 1 .. f - 1) = {}
        /\ (1 .. t) \intersect (t + 1 .. f - 1) = {}
    BY <1>1
  <2> QED  BY <1>4, <1>10, <1>12, <2>1
<1>14. Range(h \o b) \union (s \union (t + 1 .. f - 1)) = 1 .. n
  BY <1>4, <1>10, <1>11
<1> QED  BY <1>2, <1>9, <1>13, <1>14 DEF Accounted
-----------------------------------------------------------------------------
(* Every step keeps the invariant.                                         *)

\* A step of loop l that balances its account leaves the others' alone.
LEMMA OthersBalanced ==
  ASSUME SLInv, NEW l \in Starts, Balanced(l)',
         \A k \in Starts \ {l} :
            /\ handled'[k] = handled[k] /\ batch'[k] = batch[k] /\ skipped'[k] = skipped[k]
            /\ token'[k] = token[k] /\ loop'[k] = loop[k]
  PROVE  (\A k \in Starts : Balanced(k))'
<1>1. ASSUME NEW k \in Starts \ {l} PROVE Balanced(k)'
  <2>1. Balanced(k)
    BY DEF SLInv
  <2> QED  BY <1>1, <2>1 DEF Balanced
<1> QED  BY <1>1

LEMMA InitBalanced == Init => SLInv
<1> SUFFICES ASSUME Init PROVE SLInv
  OBVIOUS
<1> USE DEF Init
<1>1. TypeOK
  <2>1. <<>> \in Seq(1 .. MaxEvents) /\ 0 \in 0 .. timeline /\ timeline \in 0 .. MaxEvents
    BY EmptySeq, SyncLoopAssumption
  <2> QED  BY <2>1 DEF TypeOK
<1>2. ASSUME NEW l \in Starts PROVE Balanced(l)
  <2>1. <<>> \o <<>> = <<>> /\ Len(<<>>) = 0
    BY EmptySeq, ConcatEmptySeq
  <2>2. Increasing(<<>>)
    BY <2>1 DEF Increasing
  <2>3. Range(<<>>) = {}
    BY DEF Range
  <2>4. Accounted(<<>>, {}, 0)
    BY <2>2, <2>3 DEF Accounted
  <2> QED  BY <2>1, <2>4 DEF Balanced
<1> QED  BY <1>1, <1>2 DEF SLInv

\* The steps that only move a loop on, the caller's and the other agents': no
\* account changes.
LEMMA ControlKeeps ==
  ASSUME SLInv,
         \/ Send \/ Stop
         \/ \E l \in Starts : Start(l) \/ Turn(l) \/ SyncFails(l) \/ Hang(l) \/ BatchDone(l) \/ Wake(l)
  PROVE  SLInv'
<1>1. TypeOK
  BY DEF SLInv
<1>2. UNCHANGED <<token, batch, handled, skipped>>
  BY DEF Send, Stop, Start, Turn, SyncFails, Hang, BatchDone, Wake
<1>3. TypeOK'
  <2>1. timeline' \in 0 .. MaxEvents /\ timeline' >= timeline /\ timeline \in 0 .. MaxEvents
    BY <1>1, SyncLoopAssumption DEF TypeOK, Send, Stop, Start, Turn, SyncFails, Hang, BatchDone, Wake
  <2>2. token' \in [Starts -> 0 .. timeline']
    BY <1>1, <1>2, <2>1 DEF TypeOK
  <2>3. started' \in BOOLEAN
    BY <1>1 DEF TypeOK, Send, Stop, Start, Turn, SyncFails, Hang, BatchDone, Wake
  <2>4. loop' \in [Starts -> {"none", "top", "sync", "handle", "stuck", "sleep", "ended"}]
    BY <1>1 DEF TypeOK, Send, Stop, Start, Turn, SyncFails, Hang, BatchDone, Wake
  <2> QED  BY <1>1, <1>2, <2>1, <2>2, <2>3, <2>4 DEF TypeOK
<1>4. ASSUME NEW k \in Starts PROVE Balanced(k)'
  <2>1. Balanced(k)
    BY DEF SLInv
  <2>2. loop[k] \in {"handle", "stuck"} /\ loop'[k] \notin {"handle", "stuck"} => batch[k] = <<>>
    BY <1>1 DEF TypeOK, Send, Stop, Start, Turn, SyncFails, Hang, BatchDone, Wake
  <2> QED  BY <1>2, <2>1, <2>2 DEF Balanced
<1> QED  BY <1>3, <1>4 DEF SLInv

LEMMA AnswerKeeps ==
  ASSUME SLInv, NEW l \in Starts, Answer(l)
  PROVE  SLInv'
<1> DEFINE f == FirstOf(l)
           b == [i \in 1 .. timeline - f + 1 |-> f + i - 1]
<1>1. /\ TypeOK /\ UNCHANGED <<started, timeline, handled>>
      /\ loop[l] = "sync" /\ loop' = [loop EXCEPT ![l] = "handle"]
      /\ token' = [token EXCEPT ![l] = timeline]
      /\ batch' = [batch EXCEPT ![l] = b]
      /\ skipped' = [skipped EXCEPT ![l] = skipped[l] \union (token[l] + 1 .. f - 1)]
  BY DEF SLInv, Answer, TakeBatch
<1>2. /\ timeline \in 0 .. MaxEvents /\ timeline \in Nat /\ token[l] \in Nat /\ token[l] <= timeline
      /\ handled[l] \in Seq(Events)
  BY <1>1, SyncLoopAssumption DEF TypeOK, Events
<1>3. f \in Nat /\ token[l] < f /\ f <= timeline + 1
  BY <1>2, SyncLoopAssumption DEF FirstOf
<1>4. Accounted(handled[l] \o <<>>, skipped[l], token[l])
  BY <1>1 DEF SLInv, Balanced
<1> HIDE DEF f
<1>5. b \in Seq(Events) /\ Accounted(handled[l] \o b, skipped[l] \union (token[l] + 1 .. f - 1), timeline)
  <2>1. f \in Nat \ {0}
    BY <1>2, <1>3
  <2>2. b \in Seq(Events) /\ Len(b) = timeline - f + 1 /\ \A i \in 1 .. timeline - f + 1 : b[i] = f + i - 1
    BY <1>2, <1>3, <2>1, BatchOf
  <2> HIDE DEF b
  <2>3. Accounted(handled[l] \o b, skipped[l] \union (token[l] + 1 .. f - 1), timeline)
    BY <1>2, <1>3, <1>4, <2>2, FillBatch
  <2> QED  BY <2>2, <2>3
<1> HIDE DEF b
<1>6. /\ loop'[l] = "handle" /\ token'[l] = timeline /\ batch'[l] = b /\ handled'[l] = handled[l]
      /\ skipped'[l] = skipped[l] \union (token[l] + 1 .. f - 1)
  BY <1>1 DEF TypeOK
<1>7. Balanced(l)'
  BY <1>5, <1>6 DEF Balanced
<1>8. TypeOK'
  <2>1. token' \in [Starts -> 0 .. timeline']
    BY <1>1, <1>2 DEF TypeOK
  <2>2. batch' \in [Starts -> Seq(Events)]
    BY <1>1, <1>5 DEF TypeOK, Events
  <2>3. skipped' \in [Starts -> SUBSET (1 .. MaxEvents)]
    <3>1. token[l] + 1 .. f - 1 \subseteq 1 .. MaxEvents
      BY <1>2, <1>3, SyncLoopAssumption
    <3> QED  BY <1>1, <3>1 DEF TypeOK
  <2> QED  BY <1>1, <2>1, <2>2, <2>3 DEF TypeOK, Events
<1>9. \A k \in Starts \ {l} :
        /\ handled'[k] = handled[k] /\ batch'[k] = batch[k] /\ skipped'[k] = skipped[k]
        /\ token'[k] = token[k] /\ loop'[k] = loop[k]
  BY <1>1 DEF TypeOK
<1> QED  BY <1>7, <1>8, <1>9, OthersBalanced DEF SLInv

LEMMA HandleKeeps ==
  ASSUME SLInv, NEW l \in Starts, Handle(l)
  PROVE  SLInv'
<1>1. /\ TypeOK /\ handled[l] \in Seq(Events) /\ batch[l] \in Seq(Events) /\ batch[l] # <<>>
      /\ loop[l] = "handle" /\ UNCHANGED <<started, timeline, loop, token, skipped>>
  BY DEF SLInv, TypeOK, Events, Handle
<1>2. /\ Append(handled[l], Head(batch[l])) \in Seq(Events) /\ Tail(batch[l]) \in Seq(Events)
      /\ Append(handled[l], Head(batch[l])) \o Tail(batch[l]) = handled[l] \o batch[l]
  <2>1. handled[l] \in Seq(Events) /\ batch[l] \in Seq(Events) /\ batch[l] # <<>>
    BY <1>1
  <2> QED  BY <2>1, MoveHead, Zenon
<1>3. handled'[l] = Append(handled[l], Head(batch[l])) /\ batch'[l] = Tail(batch[l])
  BY <1>1 DEF Handle, TypeOK
<1>4. Balanced(l)'
  BY <1>1, <1>2, <1>3 DEF SLInv, Balanced
<1>5. TypeOK'
  <2>1. handled' \in [Starts -> Seq(Events)] /\ batch' \in [Starts -> Seq(Events)]
    BY <1>1, <1>2 DEF Handle, TypeOK, Events
  <2> QED  BY <1>1, <2>1 DEF TypeOK, Events
<1>6. \A k \in Starts \ {l} : handled'[k] = handled[k] /\ batch'[k] = batch[k]
  BY <1>1 DEF Handle, TypeOK
<1>7. (\A k \in Starts : Balanced(k))'
  BY <1>1, <1>4, <1>6, OthersBalanced
<1> QED  BY <1>5, <1>7 DEF SLInv

LEMMA HandlerRaisesKeeps ==
  ASSUME SLInv, NEW l \in Starts, HandlerRaises(l)
  PROVE  SLInv'
<1>1. /\ TypeOK /\ handled[l] \in Seq(Events) /\ batch[l] \in Seq(Events)
      /\ loop' = [loop EXCEPT ![l] = "sleep"] /\ batch' = [batch EXCEPT ![l] = <<>>]
      /\ skipped' = [skipped EXCEPT ![l] = skipped[l] \union Range(batch[l])]
      /\ UNCHANGED <<started, timeline, token, handled>>
  BY DEF SLInv, TypeOK, Events, HandlerRaises
<1>2. Accounted(handled[l] \o batch[l], skipped[l], token[l])
  BY DEF SLInv, Balanced
<1>3. Accounted(handled[l] \o <<>>, skipped[l] \union Range(batch[l]), token[l])
  BY <1>1, <1>2, DropBatch
<1>4. loop'[l] = "sleep" /\ batch'[l] = <<>> /\ skipped'[l] = skipped[l] \union Range(batch[l])
  BY <1>1 DEF TypeOK
<1>5. Balanced(l)'
  BY <1>1, <1>3, <1>4 DEF Balanced
<1>6. TypeOK'
  <2>1. Range(batch[l]) \subseteq 1 .. MaxEvents
    <3>1. ASSUME NEW i \in DOMAIN batch[l] PROVE batch[l][i] \in Events
      BY <1>1, LenProperties, ElementOfSeq
    <3> QED  BY <3>1 DEF Range, Events
  <2>2. skipped' \in [Starts -> SUBSET (1 .. MaxEvents)]
    BY <1>1, <2>1 DEF TypeOK
  <2>3. batch' \in [Starts -> Seq(Events)]
    BY <1>1, EmptySeq DEF TypeOK, Events
  <2> QED  BY <1>1, <2>2, <2>3 DEF TypeOK, Events
<1>7. \A k \in Starts \ {l} : loop'[k] = loop[k] /\ batch'[k] = batch[k] /\ skipped'[k] = skipped[k]
  BY <1>1 DEF TypeOK
<1>8. (\A k \in Starts : Balanced(k))'
  BY <1>1, <1>5, <1>7, OthersBalanced
<1> QED  BY <1>6, <1>8 DEF SLInv

LEMMA StepBalanced == SLInv /\ [Next]_vars => SLInv'
<1> SUFFICES ASSUME SLInv, [Next]_vars PROVE SLInv'
  OBVIOUS
<1>1. CASE Send \/ Stop
  BY <1>1, ControlKeeps
<1>2. ASSUME NEW l \in Starts, Start(l) \/ Loop(l) PROVE SLInv'
  BY <1>2, ControlKeeps, AnswerKeeps, HandleKeeps, HandlerRaisesKeeps DEF Loop
<1>3. CASE UNCHANGED vars
  BY <1>3 DEF SLInv, TypeOK, Balanced, vars
<1> QED  BY <1>1, <1>2, <1>3 DEF Next
-----------------------------------------------------------------------------
(* The theorems.                                                           *)

\* The inductive invariant holds in every reachable state: types, the accounts
\* of the loops, and a batch only where it is being handled.
THEOREM SyncInvariant == Spec => []SLInv
<1>1. SLInv /\ [Next]_vars => SLInv'
  BY StepBalanced
<1> QED  BY <1>1, InitBalanced, PTL DEF Spec

\* The variables keep their types; a token is never ahead of the homeserver
\* (amp_sdk.py:262).
THEOREM SyncTypeCorrect == Spec => []TypeOK
<1>1. SLInv => TypeOK
  BY DEF SLInv
<1> QED  BY <1>1, SyncInvariant, PTL

\* Of the events behind its token a loop handled, holds or lost each one once,
\* in the order they were sent (amp_sdk.py:260-271).
THEOREM EventsAccounted == Spec => []EveryEventAccounted
<1>1. ASSUME SLInv PROVE EveryEventAccounted
  <2>1. ASSUME NEW l \in Starts
        PROVE  /\ \A i, j \in 1 .. Len(handled[l] \o batch[l]) :
                     i < j => (handled[l] \o batch[l])[i] < (handled[l] \o batch[l])[j]
               /\ Range(handled[l] \o batch[l]) \intersect skipped[l] = {}
               /\ Range(handled[l] \o batch[l]) \union skipped[l] = 1 .. token[l]
    BY <1>1 DEF SLInv, Balanced, Accounted, Increasing
  <2> QED  BY <2>1 DEF EveryEventAccounted
<1> QED  BY <1>1, SyncInvariant, PTL

\* What is handled next is newer than all that was handled, and was sent.
LEMMA NextIsNewer ==
  ASSUME SLInv, NEW l \in Starts, batch[l] # <<>>
  PROVE  Head(batch[l]) \in Stream!Newest(l) + 1 .. timeline
<1> DEFINE h == handled[l]
           b == batch[l]
<1>1. /\ h \in Seq(Events) /\ b \in Seq(Events) /\ b # <<>>
      /\ timeline \in Nat /\ token[l] \in 0 .. timeline
      /\ Accounted(h \o b, skipped[l], token[l])
  BY SyncLoopAssumption DEF SLInv, TypeOK, Balanced, Events
<1>2. Stream!Newest(l) = IF h = <<>> THEN 0 ELSE h[Len(h)]
  BY DEF Stream!Newest
<1> HIDE DEF h, b
<1>3. Len(h) \in Nat /\ Len(b) \in Nat \ {0} /\ (h # <<>> => Len(h) \in Nat \ {0})
  BY <1>1, EmptySeq, LenProperties
<1>4. Head(b) = b[1]
  BY <1>1, HeadTailProperties
<1>5. /\ Len(h \o b) = Len(h) + Len(b) /\ DOMAIN (h \o b) = 1 .. Len(h) + Len(b)
      /\ \A i \in 1 .. Len(h) + Len(b) : (h \o b)[i] = IF i <= Len(h) THEN h[i] ELSE b[i - Len(h)]
  BY <1>1, ConcatProperties, LenProperties
<1>6. Len(h) + 1 \in 1 .. Len(h) + Len(b) /\ (h \o b)[Len(h) + 1] = b[1]
  BY <1>3, <1>5
<1>7. b[1] \in 1 .. timeline
  <2>1. b[1] \in Range(h \o b)
    BY <1>5, <1>6 DEF Range
  <2>2. b[1] \in 1 .. token[l]
    BY <1>1, <2>1 DEF Accounted
  <2> QED  BY <1>1, <2>2
<1>8. CASE h = <<>>
  <2>1. Stream!Newest(l) = 0
    BY <1>2, <1>8
  <2> QED  BY <1>4, <1>7, <2>1 DEF b
<1>9. CASE h # <<>>
  <2>1. Len(h) \in 1 .. Len(h) + Len(b) /\ (h \o b)[Len(h)] = h[Len(h)]
    BY <1>3, <1>5, <1>9
  <2>2. (h \o b)[Len(h)] < (h \o b)[Len(h) + 1]
    BY <1>1, <1>3, <1>5, <1>6, <2>1 DEF Accounted, Increasing
  <2>3. h[Len(h)] < b[1]
    BY <1>6, <2>1, <2>2
  <2>4. h[Len(h)] \in Int
    BY <1>1, <1>3, <1>9, ElementOfSeq, SyncLoopAssumption DEF Events
  <2>5. Stream!Newest(l) = h[Len(h)]
    BY <1>2, <1>9
  <2> QED  BY <1>4, <1>7, <2>3, <2>4, <2>5 DEF b
<1> QED  BY <1>8, <1>9

\* SyncLoop implements EventStream: every event given to a handler is one that
\* was sent and newer than those before it; no other step gives any.
THEOREM LoopsImplementStream == Spec => ImplementsStream
<1>1. Init => Stream!Init
  BY DEF Init, Stream!Init
<1>2. ASSUME SLInv, [Next]_vars PROVE [Stream!Next]_Stream!vars
  <2>1. CASE Send
    BY <2>1 DEF Send, Stream!Next, Stream!Send
  <2>2. CASE Stop
    BY <2>2 DEF Stop, Stream!vars
  <2>3. ASSUME NEW l \in Starts, Handle(l) PROVE Stream!Next
    <3>1. /\ batch[l] # <<>> /\ timeline' = timeline
          /\ handled' = [handled EXCEPT ![l] = Append(handled[l], Head(batch[l]))]
      BY <2>3 DEF Handle
    <3>2. Head(batch[l]) \in Stream!Newest(l) + 1 .. timeline
      BY <1>2, <3>1, NextIsNewer
    <3>3. Stream!Give(l)
      BY <3>1, <3>2 DEF Stream!Give
    <3> QED  BY <3>3 DEF Stream!Next
  <2>4. ASSUME NEW l \in Starts, Start(l) \/ (Loop(l) /\ ~ Handle(l)) PROVE UNCHANGED Stream!vars
    BY <2>4 DEF Loop, Start, Turn, Answer, TakeBatch, SyncFails, HandlerRaises, Hang, BatchDone, Wake, Stream!vars
  <2>5. CASE UNCHANGED vars
    BY <2>5 DEF vars, Stream!vars
  <2> QED  BY <1>2, <2>1, <2>2, <2>3, <2>4, <2>5 DEF Next, Loop
<1> QED  BY <1>1, <1>2, SyncInvariant, PTL DEF Spec, ImplementsStream, Stream!Spec
=============================================================================
