--------------------------- MODULE A2ABridgeProofs ---------------------------
(***************************************************************************)
(* Theorems about A2ABridge, for any tasks, requests and clients: an A2A   *)
(* client is told of the end of a task only when the task did end so, and  *)
(* a broadcast writes nobody twice and passes over nobody but for a client *)
(* that leaves behind it.                                                  *)
(***************************************************************************)
EXTENDS A2ABridge, SequenceTheorems, FiniteSetTheorems, TLAPS

\* A task has been along some of its statuses, and the room knows of some of those
\* steps.
PathsOK ==
  /\ path \in [Tasks -> Seq(TASK_STATUSES)]
  /\ told \in [Tasks -> SUBSET Nat]
  /\ table \in [Tasks -> A2A_STATUSES \union {"none"}]

Inv == PathsOK /\ OutcomesAreGenuine

\* Appending a status keeps those a path has.
LEMMA AppendKeeps ==
  ASSUME NEW p \in Seq(TASK_STATUSES), NEW s \in TASK_STATUSES
  PROVE  /\ Append(p, s) \in Seq(TASK_STATUSES)
         /\ Range(p) \subseteq Range(Append(p, s))
<1>1. Append(p, s) \in Seq(TASK_STATUSES)
  OBVIOUS
<1>2. \A i \in DOMAIN p : i \in DOMAIN Append(p, s) /\ Append(p, s)[i] = p[i]
  OBVIOUS
<1>. QED
  BY <1>1, <1>2 DEF Range

\* Only the ends of a task are translated to ends (armp_a2a_bridge.py:44-51).
LEMMA EndsAreEnds ==
  ASSUME NEW s \in TASK_STATUSES
  PROVE  /\ ARMP_TO_A2A(s) \in A2A_STATUSES
         /\ ARMP_TO_A2A(s) = "completed" => s = "COMPLETED"
         /\ ARMP_TO_A2A(s) = "failed" => s = "FAILED"
  BY DEF ARMP_TO_A2A, A2A_STATUSES, TASK_STATUSES

\* A table entry that claims no end of a task says nothing untrue.
LEMMA NoEndClaimed ==
  ASSUME Inv, NEW t \in Tasks, NEW s \in {"working", "canceled"},
         table' = [table EXCEPT ![t] = s], path' = path, told' = told
  PROVE  Inv'
  BY DEF Inv, PathsOK, OutcomesAreGenuine, A2A_STATUSES

LEMMA Unchanged ==
  ASSUME Inv, UNCHANGED <<path, told, table>>
  PROVE  Inv'
  BY DEF Inv, PathsOK, OutcomesAreGenuine

LEMMA MoveKeeps ==
  ASSUME Inv, NEW t \in Tasks, Move(t)
  PROVE  Inv'
<1>1. PICK s \in VALID_TRANSITIONS[Protocol!Current(t)] :
        path' = [path EXCEPT ![t] = Append(@, s)]
  BY DEF Move, Protocol!Move
<1>2. UNCHANGED <<told, table>>
  BY DEF Move, Protocol!Move
<1>3. Protocol!Current(t) \in TASK_STATUSES
  BY DEF Inv, PathsOK, Protocol!Current, TASK_STATUSES
<1>4. s \in TASK_STATUSES
  <2>1. \A u \in TASK_STATUSES : VALID_TRANSITIONS[u] \subseteq TASK_STATUSES
    BY DEF VALID_TRANSITIONS, TASK_STATUSES
  <2>. QED
    BY <1>1, <1>3, <2>1
<1>5. \A u \in Tasks : path'[u] \in Seq(TASK_STATUSES) /\ Range(path[u]) \subseteq Range(path'[u])
  <2>1. path[t] \in Seq(TASK_STATUSES)
    BY DEF Inv, PathsOK
  <2>. QED
    BY <1>1, <1>4, <2>1, AppendKeeps DEF Inv, PathsOK
<1>6. path' \in [Tasks -> Seq(TASK_STATUSES)]
  BY <1>1, <1>5 DEF Inv, PathsOK
<1>. QED
  BY <1>2, <1>5, <1>6 DEF Inv, PathsOK, OutcomesAreGenuine

LEMMA TaskUpdateKeeps ==
  ASSUME Inv, NEW t \in Tasks, TaskUpdate(t)
  PROVE  Inv'
<1>1. PICK n \in (0 .. Len(path[t])) \ told[t] : told' = [told EXCEPT ![t] = @ \union {n}]
  BY DEF TaskUpdate, Protocol!Tell
<1>2. path' = path
  BY DEF TaskUpdate, Protocol!Tell
<1>3. PICK k \in told'[t] \ told[t] :
        table' = [table EXCEPT ![t] = ARMP_TO_A2A(StatusAt(t, k))]
  BY DEF TaskUpdate
<1>4. k = n
  BY <1>1, <1>3 DEF Inv, PathsOK
<1>5. /\ StatusAt(t, n) \in TASK_STATUSES
      /\ StatusAt(t, n) # "CREATED" => StatusAt(t, n) \in Range(path[t])
  BY <1>1 DEF StatusAt, Inv, PathsOK, TASK_STATUSES, Range
<1>6. told' \in [Tasks -> SUBSET Nat]
  BY <1>1 DEF Inv, PathsOK
<1>7. table' \in [Tasks -> A2A_STATUSES \union {"none"}]
  BY <1>3, <1>4, <1>5, EndsAreEnds DEF Inv, PathsOK
<1>8. OutcomesAreGenuine'
  <2>. SUFFICES ASSUME NEW u \in Tasks
                PROVE  /\ table'[u] = "completed" => "COMPLETED" \in Range(path[u])
                       /\ table'[u] = "failed" => "FAILED" \in Range(path[u])
    BY <1>2 DEF OutcomesAreGenuine
  <2>1. CASE u = t
    <3>1. table'[u] = ARMP_TO_A2A(StatusAt(t, n))
      BY <2>1, <1>3, <1>4 DEF Inv, PathsOK
    <3>. QED
      BY <2>1, <3>1, <1>5, EndsAreEnds
  <2>2. CASE u # t
    BY <2>2, <1>3 DEF Inv, PathsOK, OutcomesAreGenuine
  <2>. QED
    BY <2>1, <2>2
<1>. QED
  BY <1>2, <1>6, <1>7, <1>8 DEF Inv, PathsOK

LEMMA Step ==
  ASSUME Inv, [Next]_vars
  PROVE  Inv'
<1>1. ASSUME NEW t \in Tasks, Move(t) PROVE Inv'
  BY <1>1, MoveKeeps
<1>2. ASSUME NEW t \in Tasks, TasksCancel(t) PROVE Inv'
  BY <1>2, NoEndClaimed DEF TasksCancel
<1>3. ASSUME NEW t \in Tasks, TaskUpdate(t) PROVE Inv'
  BY <1>3, TaskUpdateKeeps
<1>4. ASSUME NEW s \in Senders, NEW t \in Tasks, Send(s, t) PROVE Inv'
  BY <1>4, Unchanged DEF Send
<1>5. ASSUME NEW s \in Senders, SendReturns(s) PROVE Inv'
  BY <1>5, NoEndClaimed DEF SendReturns
<1>6. ASSUME NEW s \in Senders, SendRaises(s) PROVE Inv'
  BY <1>6, Unchanged DEF SendRaises
<1>7. ASSUME NEW b \in broadcasts, Start(b) \/ Write(b) \/ WalkOver(b) PROVE Inv'
  <2>1. UNCHANGED <<path, told, table>>
    BY <1>7 DEF Start, Write, WalkOver, Goes
  <2>. QED
    BY <2>1, Unchanged
<1>8. ASSUME NEW c \in Clients, Disconnect(c) PROVE Inv'
  BY <1>8, Unchanged DEF Disconnect
<1>9. ASSUME NEW c \in Clients, NEW t \in Tasks, Listen(c, t) \/ Leave(c, t) PROVE Inv'
  <2>1. UNCHANGED <<path, told, table>>
    BY <1>9 DEF Listen, Opens, Leave
  <2>. QED
    BY <2>1, Unchanged
<1>10. CASE UNCHANGED vars
  BY <1>10, Unchanged DEF vars
<1>. QED
  BY <1>1, <1>2, <1>3, <1>4, <1>5, <1>6, <1>7, <1>8, <1>9, <1>10 DEF Next
-----------------------------------------------------------------------------
(* The event streams                                                       *)

ListOK(l) == l \in Seq(Clients) /\ IsInjective(l)

Walks == [task : Tasks, step : Nat, next : Nat, audience : SUBSET Clients,
          written : Seq(Clients), left : SUBSET Clients]

\* What was written is behind the walk b of the list l, never ahead of it; and when
\* nobody left behind the walk, who has not been written is ahead of it, or lost.
WalkOK(b, l, lost) ==
  /\ b \in Walks
  /\ IsInjective(b.written)
  /\ Range(b.written) \subseteq Range(l) \union lost
  /\ b.next = 0 => b.written = <<>>
  /\ \A i \in DOMAIN l : i >= b.next => l[i] \notin Range(b.written)
  /\ b.left = {} => \A c \in b.audience \ lost :
       c \in Range(b.written) \/ \E i \in DOMAIN l : i >= b.next /\ l[i] = c

StreamsOK ==
  /\ gone \subseteq Clients
  /\ DOMAIN listening \subseteq Tasks
  /\ \A t \in Tasks : ListOK(ClientsOf(t))
  /\ \A b \in broadcasts : WalkOK(b, ClientsOf(b.task), gone)

\* A client that opens a stream is put behind the others.
LEMMA Joined ==
  ASSUME NEW l, ListOK(l), NEW c \in Clients, c \notin Range(l)
  PROVE  /\ ListOK(Append(l, c))
         /\ \A lost, b : WalkOK(b, l, lost) /\ c \notin lost => WalkOK(b, Append(l, c), lost)
<1>. DEFINE m == Append(l, c)
<1>1. /\ m \in Seq(Clients)
      /\ DOMAIN m = DOMAIN l \union {Len(l) + 1}
      /\ \A i \in DOMAIN l : m[i] = l[i]
      /\ m[Len(l) + 1] = c
      /\ DOMAIN l = 1 .. Len(l)
  BY DEF ListOK
<1>2. IsInjective(m)
  BY <1>1 DEF ListOK, IsInjective, Range
<1>3. ASSUME NEW lost, NEW b, WalkOK(b, l, lost), c \notin lost
      PROVE  WalkOK(b, m, lost)
  <2>. HIDE DEF m
  <2>1. Range(l) \subseteq Range(m)
    BY <1>1 DEF Range
  <2>2. \A i \in DOMAIN m : i >= b.next => m[i] \notin Range(b.written)
    BY <1>1, <1>3 DEF WalkOK
  <2>3. b.left = {} => \A d \in b.audience \ lost :
          d \in Range(b.written) \/ \E i \in DOMAIN m : i >= b.next /\ m[i] = d
    BY <1>1, <1>3 DEF WalkOK
  <2>. QED
    BY <1>3, <2>1, <2>2, <2>3 DEF WalkOK
<1>. QED
  BY <1>1, <1>2, <1>3 DEF ListOK

\* Losing a connection takes nobody out of a list.
LEMMA Lost ==
  ASSUME NEW b, NEW l, NEW lost, NEW c, WalkOK(b, l, lost)
  PROVE  WalkOK(b, l, lost \union {c})
  BY DEF WalkOK

\* A lost client is taken out of the list at i: those behind it move up by one.
LEMMA Removed ==
  ASSUME NEW l, ListOK(l), NEW i \in DOMAIN l
  PROVE  /\ ListOK(RemoveAt(l, i))
         /\ \A lost, b : WalkOK(b, l, lost) /\ l[i] \in lost /\ i >= b.next =>
              WalkOK(b, RemoveAt(l, i), lost)
         /\ \A lost, b : WalkOK(b, l, lost) /\ l[i] \in lost /\ i < b.next =>
              WalkOK([b EXCEPT !.left = @ \union {l[i]}], RemoveAt(l, i), lost)
<1>. DEFINE m == RemoveAt(l, i)
<1>1. /\ l \in Seq(Clients) /\ DOMAIN l = 1 .. Len(l) /\ Len(l) \in Nat
      /\ i \in 1 .. Len(l)
  BY DEF ListOK
<1>2. /\ m \in Seq(Clients)
      /\ Len(m) = Len(l) - 1
      /\ DOMAIN m = 1 .. Len(l) - 1
      /\ \A j \in 1 .. Len(l) - 1 : m[j] = IF j < i THEN l[j] ELSE l[j + 1]
  <2>. DEFINE p == SubSeq(l, 1, i - 1)
              q == SubSeq(l, i + 1, Len(l))
  <2>1. /\ p \in Seq(Clients) /\ Len(p) = i - 1
        /\ \A j \in 1 .. i - 1 : p[j] = l[j]
    BY <1>1, SubSeqProperties
  <2>2. /\ q \in Seq(Clients) /\ Len(q) = Len(l) - i
        /\ \A j \in 1 .. Len(l) - i : q[j] = l[i + j]
    <3>1. \A k \in i + 1 .. Len(l) : l[k] \in Clients
      BY <1>1
    <3>2. /\ q \in Seq(Clients)
          /\ Len(q) = IF i + 1 <= Len(l) THEN Len(l) - (i + 1) + 1 ELSE 0
          /\ \A j \in 1 .. Len(l) - (i + 1) + 1 : q[j] = l[(i + 1) + j - 1]
      <4>. HIDE DEF q
      <4>1. i + 1 \in Int /\ Len(l) \in Int
        BY <1>1
      <4>2. ASSUME NEW a \in Int, NEW c \in Int, \A k \in a .. c : l[k] \in Clients
            PROVE  /\ SubSeq(l, a, c) \in Seq(Clients)
                   /\ Len(SubSeq(l, a, c)) = IF a <= c THEN c - a + 1 ELSE 0
                   /\ \A j \in 1 .. c - a + 1 : SubSeq(l, a, c)[j] = l[a + j - 1]
        BY ONLY <4>2, SubSeqProperties, SMT
      <4>. QED
        BY <3>1, <4>1, <4>2, Zenon DEF q
    <3>3. /\ Len(l) - (i + 1) + 1 = Len(l) - i
          /\ i + 1 <= Len(l) \/ Len(l) = i
          /\ \A j \in 1 .. Len(l) - i : (i + 1) + j - 1 = i + j
      BY <1>1
    <3>. HIDE DEF q
    <3>4. Len(q) = Len(l) - i
      BY <1>1, <3>2, <3>3
    <3>. QED
      BY <3>2, <3>3, <3>4
  <2>. HIDE DEF p, q
  <2>3. m = p \o q
    BY DEF RemoveAt, p, q
  <2>4. /\ m \in Seq(Clients) /\ Len(m) = Len(l) - 1
        /\ \A j \in 1 .. Len(l) - 1 : m[j] = IF j <= i - 1 THEN p[j] ELSE q[j - (i - 1)]
    <3>1. Len(p) + Len(q) = Len(l) - 1
      BY <1>1, <2>1, <2>2
    <3>2. /\ p \o q \in Seq(Clients) /\ Len(p \o q) = Len(p) + Len(q)
          /\ \A j \in 1 .. Len(p) + Len(q) :
               (p \o q)[j] = IF j <= Len(p) THEN p[j] ELSE q[j - Len(p)]
      BY <2>1, <2>2, ConcatProperties
    <3>. HIDE DEF m
    <3>. QED
      BY <2>1, <2>3, <3>1, <3>2
  <2>5. \A j \in 1 .. Len(l) - 1 : m[j] = IF j < i THEN l[j] ELSE l[j + 1]
    <3>1. ASSUME NEW j \in 1 .. Len(l) - 1, j < i PROVE m[j] = l[j]
      BY <1>1, <2>1, <2>4, <3>1
    <3>2. ASSUME NEW j \in 1 .. Len(l) - 1, ~(j < i) PROVE m[j] = l[j + 1]
      <4>1. /\ j - (i - 1) \in 1 .. Len(l) - i
            /\ i + (j - (i - 1)) = j + 1
        BY <1>1, <3>2
      <4>2. m[j] = q[j - (i - 1)]
        BY <1>1, <2>4, <3>2
      <4>3. q[j - (i - 1)] = l[i + (j - (i - 1))]
        BY <2>2, <4>1
      <4>. QED
        BY <4>1, <4>2, <4>3
    <3>. QED
      BY <3>1, <3>2
  <2>. QED
    BY <2>4, <2>5
<1>. HIDE DEF m
<1>. DEFINE at(j) == IF j < i THEN j ELSE j + 1
<1>3. \A j \in DOMAIN m : at(j) \in DOMAIN l /\ at(j) >= j /\ m[j] = l[at(j)]
  BY <1>1, <1>2
<1>4. \A j, k \in DOMAIN m : at(j) = at(k) => j = k
  BY <1>1, <1>2
<1>5. IsInjective(m)
  <2>. HIDE DEF at
  <2>. QED
    BY <1>3, <1>4 DEF ListOK, IsInjective
<1>6. Range(l) \subseteq Range(m) \union {l[i]} /\ Range(m) \subseteq Range(l)
  <2>1. \A j \in DOMAIN l : j = i \/ (j < i /\ j \in DOMAIN m /\ m[j] = l[j])
                            \/ (j > i /\ j - 1 \in DOMAIN m /\ m[j - 1] = l[j])
    BY <1>1, <1>2
  <2>2. \A j \in DOMAIN m : m[j] \in Range(l)
    BY <1>1, <1>2 DEF Range
  <2>. QED
    BY <2>1, <2>2 DEF Range
<1>7. ASSUME NEW lost, NEW b, WalkOK(b, l, lost), l[i] \in lost
      PROVE  /\ Range(b.written) \subseteq Range(m) \union lost
             /\ \A j \in DOMAIN m : j >= b.next => m[j] \notin Range(b.written)
  <2>1. Range(b.written) \subseteq Range(m) \union lost
    BY <1>6, <1>7 DEF WalkOK
  <2>2. \A j \in DOMAIN m : j >= b.next => m[j] \notin Range(b.written)
    <3>1. \A j \in DOMAIN m : j >= b.next => at(j) >= b.next
      BY <1>1, <1>2, <1>7 DEF WalkOK, Walks
    <3>. HIDE DEF at
    <3>. QED
      BY <1>7, <1>3, <3>1 DEF WalkOK
  <2>. QED
    BY <2>1, <2>2
<1>8. ASSUME NEW lost, NEW b, WalkOK(b, l, lost), l[i] \in lost, i >= b.next
      PROVE  WalkOK(b, m, lost)
  <2>1. ASSUME b.left = {}, NEW c \in b.audience \ lost, c \notin Range(b.written)
        PROVE  \E j \in DOMAIN m : j >= b.next /\ m[j] = c
    <3>1. PICK k \in DOMAIN l : k >= b.next /\ l[k] = c
      BY <1>8, <2>1 DEF WalkOK
    <3>2. k # i
      BY <1>8, <2>1, <3>1
    <3>3. CASE k < i
      BY <1>1, <1>2, <3>1, <3>3
    <3>4. CASE k > i
      <4>1. k - 1 \in DOMAIN m /\ m[k - 1] = c /\ k - 1 >= b.next
        BY <1>1, <1>2, <1>8, <3>1, <3>4 DEF WalkOK, Walks
      <4>. QED
        BY <4>1
    <3>. QED
      BY <1>1, <3>2, <3>3, <3>4
  <2>. QED
    BY <1>7, <1>8, <2>1 DEF WalkOK
<1>9. ASSUME NEW lost, NEW b, WalkOK(b, l, lost), l[i] \in lost, i < b.next
      PROVE  WalkOK([b EXCEPT !.left = @ \union {l[i]}], m, lost)
  <2>. DEFINE d == [b EXCEPT !.left = @ \union {l[i]}]
  <2>1. l[i] \in Clients
    BY <1>1
  <2>2. /\ d \in Walks
        /\ d.written = b.written /\ d.next = b.next /\ l[i] \in d.left
    BY <1>9, <2>1 DEF WalkOK, Walks
  <2>. HIDE DEF d
  <2>3. WalkOK(d, m, lost)
    BY <1>7, <1>9, <2>2 DEF WalkOK
  <2>. QED
    BY <2>3 DEF d
<1>. QED
  BY <1>2, <1>5, <1>8, <1>9 DEF ListOK, m

\* The step of a walk that does not end it.
LEMMA Written ==
  ASSUME NEW l, ListOK(l), NEW lost, NEW b, WalkOK(b, l, lost), b.next \in DOMAIN l
  PROVE  WalkOK([b EXCEPT !.next = @ + 1,
                          !.written = IF l[b.next] \in lost THEN @ ELSE Append(@, l[b.next])],
                l, lost)
<1>. DEFINE c == l[b.next]
            w == IF c \in lost THEN b.written ELSE Append(b.written, c)
            d == [b EXCEPT !.next = @ + 1,
                           !.written = IF l[b.next] \in lost THEN @ ELSE Append(@, l[b.next])]
<1>1. /\ c \in Clients /\ c \in Range(l) /\ c \notin Range(b.written)
      /\ b \in Walks /\ b.written \in Seq(Clients) /\ b.next \in Nat
      /\ DOMAIN b.written = 1 .. Len(b.written)
  BY DEF ListOK, WalkOK, Walks, Range
<1>2. /\ w \in Seq(Clients) /\ IsInjective(w)
      /\ Range(w) = IF c \in lost THEN Range(b.written) ELSE Range(b.written) \union {c}
  <2>. HIDE DEF c
  <2>1. CASE c \in lost
    BY <1>1, <2>1 DEF WalkOK
  <2>2. CASE c \notin lost
    <3>1. /\ Append(b.written, c) \in Seq(Clients)
          /\ DOMAIN Append(b.written, c) = DOMAIN b.written \union {Len(b.written) + 1}
          /\ \A i \in DOMAIN b.written : Append(b.written, c)[i] = b.written[i]
          /\ Append(b.written, c)[Len(b.written) + 1] = c
      BY <1>1
    <3>2. IsInjective(Append(b.written, c))
      BY <1>1, <3>1 DEF WalkOK, IsInjective, Range
    <3>3. Range(Append(b.written, c)) = Range(b.written) \union {c}
      BY <3>1 DEF Range
    <3>. QED
      BY <2>2, <3>1, <3>2, <3>3
  <2>. QED
    BY <2>1, <2>2
<1>3. /\ d \in Walks /\ d.next = b.next + 1 /\ d.written = w
      /\ d.left = b.left /\ d.audience = b.audience
  <2>. DEFINE e == [b EXCEPT !.next = @ + 1]
  <2>1. e \in Walks /\ e.next = b.next + 1 /\ e.left = b.left /\ e.audience = b.audience
    BY <1>1 DEF Walks
  <2>2. d = [e EXCEPT !.written = w]
    BY <1>1 DEF Walks
  <2>. HIDE DEF d, e, w
  <2>. QED
    BY <1>2, <2>1, <2>2 DEF Walks
<1>4. \A i \in DOMAIN l : i >= b.next /\ i # b.next => i >= b.next + 1 /\ l[i] # c
  BY <1>1 DEF ListOK, IsInjective
<1>5. \A i \in DOMAIN l : i >= b.next + 1 => i >= b.next /\ i # b.next
  BY <1>1 DEF ListOK
<1>. HIDE DEF d, w
<1>6. Range(w) \subseteq Range(l) \union lost
  BY <1>1, <1>2 DEF WalkOK
<1>7. \A i \in DOMAIN l : i >= b.next + 1 => l[i] \notin Range(w)
  BY <1>2, <1>4, <1>5 DEF WalkOK
<1>8. b.left = {} => \A e \in b.audience \ lost :
        e \in Range(w) \/ \E i \in DOMAIN l : i >= b.next + 1 /\ l[i] = e
  BY <1>2, <1>4 DEF WalkOK
<1>9. b.next + 1 # 0
  BY <1>1
<1>10. WalkOK(d, l, lost)
  BY <1>2, <1>3, <1>6, <1>7, <1>8, <1>9 DEF WalkOK
<1>. QED
  BY <1>10 DEF d

LEMMA StreamsUnchanged ==
  ASSUME StreamsOK, UNCHANGED streamVars
  PROVE  StreamsOK'
  BY DEF StreamsOK, streamVars, ClientsOf

\* What becomes of b keeps StreamsOK if it is a good walk of the same list.
LEMMA GoesKeeps ==
  ASSUME StreamsOK, NEW b \in broadcasts, NEW ahead, Goes(b, ahead),
         \A d \in ahead : WalkOK(d, ClientsOf(d.task), gone)
  PROVE  StreamsOK'
  BY DEF StreamsOK, Goes, ClientsOf

LEMMA StartKeeps ==
  ASSUME StreamsOK, NEW b \in broadcasts, Start(b)
  PROVE  StreamsOK'
<1>. DEFINE d == [b EXCEPT !.next = 1]
<1>1. WalkOK(b, ClientsOf(b.task), gone) /\ ListOK(ClientsOf(b.task))
  BY DEF StreamsOK, WalkOK, Walks
<1>2. /\ d \in Walks /\ d.task = b.task /\ d.next = 1 /\ d.written = b.written
      /\ d.left = b.left /\ d.audience = b.audience
  BY <1>1 DEF WalkOK, Walks
<1>3. \A i \in DOMAIN ClientsOf(b.task) : i >= 1 /\ i >= b.next
  BY <1>1 DEF ListOK, Start
<1>4. Goes(b, IF b.task \in DOMAIN listening THEN {d} ELSE {})
  BY DEF Start
<1>. HIDE DEF d
<1>5. WalkOK(d, ClientsOf(d.task), gone)
  BY <1>1, <1>2, <1>3 DEF WalkOK
<1>. QED
  BY <1>4, <1>5, GoesKeeps

LEMMA WriteKeeps ==
  ASSUME StreamsOK, NEW b \in broadcasts, Write(b)
  PROVE  StreamsOK'
<1>. DEFINE l == ClientsOf(b.task)
            d == [b EXCEPT !.next = @ + 1,
                           !.written = IF l[b.next] \in gone THEN @ ELSE Append(@, l[b.next])]
<1>1. WalkOK(b, l, gone) /\ ListOK(l)
  BY DEF StreamsOK, WalkOK, Walks
<1>2. b.next \in DOMAIN l
  BY <1>1 DEF Write, AtEnd, ListOK, WalkOK, Walks
<1>3. WalkOK(d, l, gone)
  BY <1>1, <1>2, Written
<1>4. d.task = b.task
  BY <1>1 DEF WalkOK, Walks
<1>5. Goes(b, {d})
  BY DEF Write
<1>. HIDE DEF d
<1>. QED
  BY <1>3, <1>4, <1>5, GoesKeeps

LEMMA UpdateStreamsKeeps ==
  ASSUME PathsOK, StreamsOK, NEW t \in Tasks, TaskUpdate(t)
  PROVE  StreamsOK'
<1>1. PICK k \in told'[t] \ told[t] :
        broadcasts' = broadcasts \union
          {[task |-> t, step |-> k, next |-> 0, audience |-> Listed(t),
            written |-> <<>>, left |-> {}]}
  BY DEF TaskUpdate
<1>2. k \in Nat
  BY <1>1 DEF PathsOK, TaskUpdate, Protocol!Tell
<1>. DEFINE d == [task |-> t, step |-> k, next |-> 0, audience |-> Listed(t),
                  written |-> <<>>, left |-> {}]
            l == ClientsOf(t)
<1>3. ListOK(l)
  BY DEF StreamsOK
<1>4. Listed(t) = Range(l) /\ Range(l) \subseteq Clients
  BY <1>3 DEF Listed, ListOK, Range
<1>5. d \in Walks
  BY <1>2, <1>4 DEF Walks
<1>6. /\ IsInjective(d.written) /\ Range(d.written) = {} /\ d.next = 0
      /\ d.written = <<>> /\ d.task = t /\ d.audience = Listed(t)
  BY DEF IsInjective, Range
<1>. HIDE DEF d
<1>7. WalkOK(d, l, gone)
  <2>1. \A i \in DOMAIN l : i >= d.next
    BY <1>3, <1>6 DEF ListOK
  <2>2. \A e \in d.audience : \E i \in DOMAIN l : i >= d.next /\ l[i] = e
    BY <1>4, <1>6, <2>1 DEF Range
  <2>. QED
    BY <1>5, <1>6, <2>2 DEF WalkOK
<1>8. broadcasts' = broadcasts \union {d} /\ UNCHANGED <<listening, gone>>
  BY <1>1 DEF TaskUpdate, d
<1>. QED
  BY <1>6, <1>7, <1>8 DEF StreamsOK, ClientsOf

LEMMA ListenKeeps ==
  ASSUME StreamsOK, NEW c \in Clients, NEW t \in Tasks, Listen(c, t)
  PROVE  StreamsOK'
<1>. DEFINE l == ClientsOf(t)
<1>1. /\ c \notin gone /\ c \notin Range(l)
      /\ UNCHANGED <<gone, broadcasts>>
  BY DEF Listen, Opens, New, Listed
<1>2. listening' = [u \in DOMAIN listening \union {t} |->
                      IF u = t THEN Append(l, c) ELSE listening[u]]
  BY DEF Listen, Opens
<1>3. ClientsOf(t)' = Append(l, c)
  BY <1>2 DEF ClientsOf
<1>4. \A u \in Tasks : u # t => ClientsOf(u)' = ClientsOf(u)
  BY <1>2 DEF ClientsOf
<1>5. ListOK(l)
  BY DEF StreamsOK
<1>6. DOMAIN listening' \subseteq Tasks
  BY <1>2 DEF StreamsOK
<1>. HIDE DEF l
<1>7. \A u \in Tasks : ListOK(ClientsOf(u)')
  BY <1>1, <1>3, <1>4, <1>5, Joined DEF StreamsOK
<1>8. ASSUME NEW b \in broadcasts PROVE WalkOK(b, ClientsOf(b.task)', gone)
  <2>1. WalkOK(b, ClientsOf(b.task), gone) /\ b.task \in Tasks
    BY DEF StreamsOK, WalkOK, Walks
  <2>2. CASE b.task = t
    BY <1>1, <1>3, <1>5, <2>1, <2>2, Joined DEF l
  <2>3. CASE b.task # t
    BY <1>4, <2>1, <2>3
  <2>. QED
    BY <2>2, <2>3
<1>. QED
  BY <1>1, <1>6, <1>7, <1>8 DEF StreamsOK

LEMMA DisconnectKeeps ==
  ASSUME StreamsOK, NEW c \in Clients, Disconnect(c)
  PROVE  StreamsOK'
<1>1. gone' = gone \union {c} /\ UNCHANGED <<listening, broadcasts>>
  BY DEF Disconnect
<1>2. \A b \in broadcasts : WalkOK(b, ClientsOf(b.task), gone \union {c})
  BY Lost DEF StreamsOK
<1>. QED
  BY <1>1, <1>2 DEF StreamsOK, ClientsOf

LEMMA LeaveKeeps ==
  ASSUME StreamsOK, NEW c \in Clients, NEW t \in Tasks, Leave(c, t)
  PROVE  StreamsOK'
<1>. DEFINE l == ClientsOf(t)
<1>1. PICK i \in DOMAIN l :
        /\ listening[t][i] = c
        /\ listening' = [listening EXCEPT ![t] = RemoveAt(@, i)]
        /\ broadcasts' =
             {[b EXCEPT !.left = IF b.task = t /\ i < b.next THEN @ \union {c} ELSE @]
                : b \in broadcasts}
  BY DEF Leave
<1>2. c \in gone /\ gone' = gone
  BY DEF Leave
<1>3. t \in DOMAIN listening /\ l = listening[t]
  BY <1>1 DEF ClientsOf
<1>4. l[i] = c /\ ClientsOf(t)' = RemoveAt(l, i) /\ DOMAIN listening' = DOMAIN listening
  BY <1>1, <1>3 DEF ClientsOf
<1>5. \A u \in Tasks : u # t => ClientsOf(u)' = ClientsOf(u)
  BY <1>1, <1>3 DEF ClientsOf
<1>6. ListOK(l)
  BY DEF StreamsOK
<1>. HIDE DEF l
<1>7. \A u \in Tasks : ListOK(ClientsOf(u)')
  BY <1>4, <1>5, <1>6, Removed DEF StreamsOK
<1>8. ASSUME NEW b \in broadcasts,
             NEW d, d = [b EXCEPT !.left = IF b.task = t /\ i < b.next THEN @ \union {c} ELSE @]
      PROVE  WalkOK(d, ClientsOf(d.task)', gone)
  <2>1. WalkOK(b, ClientsOf(b.task), gone) /\ b.task \in Tasks /\ b \in Walks
    BY DEF StreamsOK, WalkOK, Walks
  <2>2. d.task = b.task
    BY <1>8, <2>1 DEF Walks
  <2>3. CASE b.task = t /\ i < b.next
    <3>1. d = [b EXCEPT !.left = @ \union {l[i]}]
      BY <1>4, <1>8, <2>3
    <3>. QED
      BY <1>2, <1>4, <1>6, <2>1, <2>2, <2>3, <3>1, Removed DEF l
  <2>4. CASE b.task = t /\ ~(i < b.next)
    <3>1. d = b
      BY <1>8, <2>1, <2>4 DEF Walks
    <3>2. i >= b.next
      BY <1>6, <2>1, <2>4 DEF ListOK, Walks
    <3>. QED
      BY <1>2, <1>4, <1>6, <2>1, <2>4, <3>1, <3>2, Removed DEF l
  <2>5. CASE b.task # t
    <3>1. d = b
      BY <1>8, <2>1, <2>5 DEF Walks
    <3>. QED
      BY <1>5, <2>1, <2>5, <3>1
  <2>. QED
    BY <2>3, <2>4, <2>5
<1>9. \A d \in broadcasts' : WalkOK(d, ClientsOf(d.task)', gone)
  BY <1>1, <1>8
<1>. QED
  BY <1>2, <1>4, <1>7, <1>9 DEF StreamsOK

LEMMA StreamsStep ==
  ASSUME PathsOK, StreamsOK, [Next]_vars
  PROVE  StreamsOK'
<1>1. ASSUME NEW t \in Tasks, TaskUpdate(t) PROVE StreamsOK'
  BY <1>1, UpdateStreamsKeeps
<1>2. ASSUME NEW t \in Tasks, Move(t) \/ TasksCancel(t) PROVE StreamsOK'
  BY <1>2, StreamsUnchanged DEF Move, TasksCancel
<1>3. ASSUME NEW s \in Senders, NEW t \in Tasks, Send(s, t) PROVE StreamsOK'
  BY <1>3, StreamsUnchanged DEF Send
<1>4. ASSUME NEW s \in Senders, SendReturns(s) \/ SendRaises(s) PROVE StreamsOK'
  BY <1>4, StreamsUnchanged DEF SendReturns, SendRaises
<1>5. ASSUME NEW b \in broadcasts, Start(b) PROVE StreamsOK'
  BY <1>5, StartKeeps
<1>6. ASSUME NEW b \in broadcasts, Write(b) PROVE StreamsOK'
  BY <1>6, WriteKeeps
<1>7. ASSUME NEW b \in broadcasts, WalkOver(b) PROVE StreamsOK'
  BY <1>7, GoesKeeps DEF WalkOver
<1>8. ASSUME NEW c \in Clients, Disconnect(c) PROVE StreamsOK'
  BY <1>8, DisconnectKeeps
<1>9. ASSUME NEW c \in Clients, NEW t \in Tasks, Listen(c, t) PROVE StreamsOK'
  BY <1>9, ListenKeeps
<1>10. ASSUME NEW c \in Clients, NEW t \in Tasks, Leave(c, t) PROVE StreamsOK'
  BY <1>10, LeaveKeeps
<1>11. CASE UNCHANGED vars
  BY <1>11, StreamsUnchanged DEF vars, streamVars
<1>. QED
  BY <1>1, <1>2, <1>3, <1>4, <1>5, <1>6, <1>7, <1>8, <1>9, <1>10, <1>11 DEF Next
-----------------------------------------------------------------------------
\* The two invariants together are inductive.
THEOREM BridgeInvariant == Spec => [](Inv /\ StreamsOK)
<1>1. Init => Inv
  BY DEF Init, Protocol!Init, Inv, PathsOK, OutcomesAreGenuine
<1>2. ASSUME Init PROVE StreamsOK
  <2>1. listening = [t \in {} |-> <<>>] /\ gone = {} /\ broadcasts = {}
    BY <1>2 DEF Init
  <2>2. \A t : ClientsOf(t) = <<>>
    BY <2>1 DEF ClientsOf
  <2>3. <<>> \in Seq(Clients) /\ IsInjective(<<>>)
    BY DEF IsInjective
  <2>. QED
    BY <2>1, <2>2, <2>3 DEF StreamsOK, ListOK
<1>3. Inv /\ [Next]_vars => Inv'
  BY Step
<1>4. Inv /\ StreamsOK /\ [Next]_vars => StreamsOK'
  BY StreamsStep DEF Inv
<1>. QED
  BY <1>1, <1>2, <1>3, <1>4, PTL DEF Spec

\* Whatever is sent and canceled, and in whatever order the events of a task come,
\* the table says completed or failed only of a task that did complete or fail
\* (armp_a2a_bridge.py:364-371, 404-411, 470-477).
THEOREM GenuineOutcomes == Spec => []OutcomesAreGenuine
<1>1. Inv => OutcomesAreGenuine
  BY DEF Inv
<1>. QED
  BY <1>1, BridgeInvariant, PTL

\* No broadcast writes a client twice, however clients come and go under its walk
\* (armp_a2a_bridge.py:307, 317, 492-494).
THEOREM NobodyTwice == Spec => []NobodyHearsTwice
<1>1. StreamsOK => NobodyHearsTwice
  BY DEF StreamsOK, WalkOK, NobodyHearsTwice
<1>. QED
  BY <1>1, BridgeInvariant, PTL

\* Unless a client leaves the list behind its walk, a broadcast reaches all who were
\* listed when it was announced and are connected still (armp_a2a_bridge.py:488-496).
THEOREM StayingHear == Spec => []StayingClientsHear
<1>1. ASSUME StreamsOK PROVE StayingClientsHear
  <2>. SUFFICES ASSUME NEW b \in broadcasts, b.left = {}, AtEnd(b),
                       NEW c \in b.audience \ gone
                PROVE  c \in Range(b.written)
    BY DEF StayingClientsHear, Reached
  <2>1. /\ WalkOK(b, ClientsOf(b.task), gone) /\ ListOK(ClientsOf(b.task))
        /\ b.next \in Nat
    BY <1>1 DEF StreamsOK, WalkOK, Walks
  <2>2. ~\E i \in DOMAIN ClientsOf(b.task) : i >= b.next
    BY <2>1 DEF AtEnd, ListOK
  <2>. QED
    BY <2>1, <2>2 DEF WalkOK
<1>. QED
  BY <1>1, BridgeInvariant, PTL
-----------------------------------------------------------------------------
(* The bounds                                                              *)

\* A task is told of no step it has not taken, and a walk goes no further than
\* one place behind the longest list there can be.
Counts ==
  /\ sending \in [Senders -> Tasks \union {"idle", "over"}]
  /\ \A t \in Tasks : Len(path[t]) <= MaxMoves /\ told[t] \subseteq 0 .. Len(path[t])
  /\ \A b \in broadcasts : b.step <= MaxMoves /\ b.next <= Cardinality(Clients) + 1

\* A list without repetitions is no longer than there are clients.
LEMMA ListIsShort ==
  ASSUME NEW l, ListOK(l)
  PROVE  /\ Len(l) \in Nat /\ Cardinality(Clients) \in Nat
         /\ Len(l) <= Cardinality(Clients)
<1>1. l \in [1 .. Len(l) -> Clients] /\ Len(l) \in Nat /\ DOMAIN l = 1 .. Len(l)
  BY DEF ListOK
<1>2. l \in Injection(1 .. Len(l), Clients)
  BY <1>1 DEF ListOK, IsInjective, Injection
<1>3. IsFiniteSet(Clients)
  BY A2ABridgeAssumption
<1>4. Cardinality(1 .. Len(l)) <= Cardinality(Clients)
  BY <1>2, <1>3, FS_Injection, Zenon
<1>5. Cardinality(1 .. Len(l)) = Len(l)
  <2>1. Cardinality(1 .. Len(l)) = IF 1 > Len(l) THEN 0 ELSE Len(l) - 1 + 1
    BY <1>1, FS_Interval
  <2>. QED
    BY <1>1, <2>1
<1>6. Cardinality(Clients) \in Nat
  BY <1>3, FS_CardinalityType
<1>. QED
  BY <1>1, <1>4, <1>5, <1>6

LEMMA CountsStep ==
  ASSUME Inv, StreamsOK, Counts, [Next]_vars
  PROVE  Counts'
<1>1. ASSUME NEW t \in Tasks, Move(t) PROVE Counts'
  <2>1. PICK s \in VALID_TRANSITIONS[Protocol!Current(t)] :
          path' = [path EXCEPT ![t] = Append(@, s)]
    BY <1>1 DEF Move, Protocol!Move
  <2>2. Len(path[t]) < MaxMoves /\ UNCHANGED <<told, sending, broadcasts>>
    BY <1>1 DEF Move, Protocol!Move, streamVars
  <2>3. path[t] \in Seq(TASK_STATUSES) /\ path'[t] = Append(path[t], s)
        /\ \A u \in Tasks : u # t => path'[u] = path[u]
    BY <2>1 DEF Inv, PathsOK
  <2>4. Len(path'[t]) = Len(path[t]) + 1 /\ Len(path[t]) \in Nat
    BY <2>3
  <2>5. Len(path'[t]) <= MaxMoves /\ 0 .. Len(path[t]) \subseteq 0 .. Len(path'[t])
    BY <2>2, <2>4, A2ABridgeAssumption
  <2>. QED
    BY <2>2, <2>3, <2>5 DEF Counts
<1>2. ASSUME NEW t \in Tasks, TaskUpdate(t) PROVE Counts'
  <2>1. PICK n \in (0 .. Len(path[t])) \ told[t] : told' = [told EXCEPT ![t] = @ \union {n}]
    BY <1>2 DEF TaskUpdate, Protocol!Tell
  <2>2. UNCHANGED <<path, sending>>
    BY <1>2 DEF TaskUpdate, Protocol!Tell
  <2>3. /\ told'[t] = told[t] \union {n}
        /\ \A u \in Tasks : u # t => told'[u] = told[u]
    BY <2>1 DEF Inv, PathsOK
  <2>4. PICK k \in told'[t] \ told[t] :
          broadcasts' = broadcasts \union
            {[task |-> t, step |-> k, next |-> 0, audience |-> Listed(t),
              written |-> <<>>, left |-> {}]}
    BY <1>2 DEF TaskUpdate
  <2>5. k = n
    BY <2>3, <2>4
  <2>6. n <= MaxMoves /\ 0 <= Cardinality(Clients) + 1
    <3>1. Len(path[t]) \in Nat /\ Len(path[t]) <= MaxMoves
      BY DEF Inv, PathsOK, Counts
    <3>2. Cardinality(Clients) \in Nat
      BY A2ABridgeAssumption, FS_CardinalityType
    <3>. QED
      BY <3>1, <3>2, A2ABridgeAssumption
  <2>. QED
    BY <2>1, <2>2, <2>3, <2>4, <2>5, <2>6 DEF Counts
<1>3. ASSUME NEW s \in Senders, (\E t \in Tasks : Send(s, t)) \/ SendReturns(s) \/ SendRaises(s)
      PROVE  Counts'
  <2>1. UNCHANGED <<path, told, broadcasts>>
    BY <1>3 DEF Send, SendReturns, SendRaises, streamVars
  <2>2. sending' \in [Senders -> Tasks \union {"idle", "over"}]
    BY <1>3 DEF Send, SendReturns, SendRaises, Counts
  <2>. QED
    BY <2>1, <2>2 DEF Counts
<1>4. ASSUME NEW b \in broadcasts, Start(b) PROVE Counts'
  <2>. DEFINE d == [b EXCEPT !.next = 1]
  <2>1. broadcasts' \subseteq broadcasts \union {d} /\ UNCHANGED <<path, told, sending>>
    BY <1>4 DEF Start, Goes
  <2>2. b \in Walks
    BY DEF StreamsOK, WalkOK
  <2>3. d.step = b.step /\ d.next = 1
    BY <2>2 DEF Walks
  <2>4. 1 <= Cardinality(Clients) + 1
    BY A2ABridgeAssumption, FS_CardinalityType
  <2>. HIDE DEF d
  <2>. QED
    BY <2>1, <2>3, <2>4 DEF Counts
<1>5. ASSUME NEW b \in broadcasts, Write(b) PROVE Counts'
  <2>. DEFINE l == ClientsOf(b.task)
              d == [b EXCEPT !.next = @ + 1,
                             !.written = IF l[b.next] \in gone THEN @ ELSE Append(@, l[b.next])]
  <2>1. broadcasts' = (broadcasts \ {b}) \union {d} /\ UNCHANGED <<path, told, sending>>
    BY <1>5 DEF Write, Goes
  <2>2. b \in Walks /\ ListOK(l)
    BY DEF StreamsOK, WalkOK, Walks
  <2>3. d.step = b.step /\ d.next = b.next + 1 /\ b.next \in Nat
    BY <2>2 DEF Walks
  <2>4. b.next <= Len(l)
    <3>1. Len(l) \in Nat
      BY <2>2 DEF ListOK
    <3>. QED
      BY <1>5, <2>3, <3>1 DEF Write, AtEnd
  <2>5. b.next + 1 <= Cardinality(Clients) + 1
    BY <2>2, <2>3, <2>4, ListIsShort
  <2>. HIDE DEF d
  <2>. QED
    BY <2>1, <2>3, <2>5 DEF Counts
<1>6. ASSUME NEW b \in broadcasts, WalkOver(b) PROVE Counts'
  BY <1>6 DEF WalkOver, Goes, Counts
<1>7. ASSUME NEW c \in Clients, NEW t \in Tasks, Leave(c, t) PROVE Counts'
  <2>1. PICK i \in DOMAIN ClientsOf(t) :
          broadcasts' =
            {[b EXCEPT !.left = IF b.task = t /\ i < b.next THEN @ \union {c} ELSE @]
               : b \in broadcasts}
    BY <1>7 DEF Leave
  <2>2. \A x : \A b \in broadcasts : /\ [b EXCEPT !.left = x].step = b.step
                                     /\ [b EXCEPT !.left = x].next = b.next
    BY DEF StreamsOK, WalkOK, Walks
  <2>3. ASSUME NEW d \in broadcasts'
        PROVE  d.step <= MaxMoves /\ d.next <= Cardinality(Clients) + 1
    <3>1. PICK b \in broadcasts :
            d = [b EXCEPT !.left = IF b.task = t /\ i < b.next THEN @ \union {c} ELSE @]
      BY <2>1
    <3>2. d.step = b.step /\ d.next = b.next
      BY <2>2, <3>1
    <3>. QED
      BY <3>2 DEF Counts
  <2>4. UNCHANGED <<path, told, sending>>
    BY <1>7 DEF Leave
  <2>. QED
    BY <2>3, <2>4 DEF Counts
<1>8. ASSUME NEW t \in Tasks, TasksCancel(t) PROVE Counts'
  BY <1>8 DEF TasksCancel, Counts, streamVars
<1>9. ASSUME NEW c \in Clients, Disconnect(c) \/ \E t \in Tasks : Listen(c, t) PROVE Counts'
  BY <1>9 DEF Disconnect, Listen, Opens, Counts
<1>10. CASE UNCHANGED vars
  BY <1>10 DEF vars, Counts
<1>. QED
  BY <1>1, <1>2, <1>3, <1>4, <1>5, <1>6, <1>7, <1>8, <1>9, <1>10 DEF Next

\* Every variable keeps its type: no walk, however its list grows and shrinks under
\* it, goes beyond one place behind the last client there can be.
THEOREM BridgeTypes == Spec => []TypeOK
<1>1. Init => Counts
  <2>1. \A t \in Tasks : Len(<<>>) <= MaxMoves /\ {} \subseteq 0 .. Len(<<>>)
    BY A2ABridgeAssumption
  <2>. QED
    BY <2>1 DEF Init, Protocol!Init, Counts
<1>2. Inv /\ StreamsOK /\ Counts /\ [Next]_vars => Counts'
  BY CountsStep
<1>3. ASSUME Inv, StreamsOK, Counts PROVE TypeOK
  <2>1. \A t \in DOMAIN listening : listening[t] \in Seq(Clients)
    BY <1>3 DEF StreamsOK, ListOK, ClientsOf
  <2>2. broadcasts \subseteq Broadcasts
    <3>1. Cardinality(Clients) \in Nat
      BY A2ABridgeAssumption, FS_CardinalityType
    <3>2. ASSUME NEW b \in broadcasts
          PROVE  b \in Broadcasts
      <4>1. b \in Walks /\ b.step <= MaxMoves /\ b.next <= Cardinality(Clients) + 1
        BY <1>3 DEF StreamsOK, WalkOK, Counts
      <4>2. b.step \in 0 .. MaxMoves /\ b.next \in 0 .. Cardinality(Clients) + 1
        BY <3>1, <4>1, A2ABridgeAssumption DEF Walks
      <4>. QED
        BY <4>1, <4>2 DEF Walks, Broadcasts
    <3>. QED
      BY <3>2
  <2>. QED
    BY <1>3, <2>1, <2>2 DEF Inv, PathsOK, StreamsOK, Counts, TypeOK
<1>. QED
  BY <1>1, <1>2, <1>3, BridgeInvariant, PTL DEF Spec
=============================================================================
