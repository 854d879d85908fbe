------------------------ MODULE TaskLifecycleProofs ------------------------
(***************************************************************************)
(* The safety of TaskLifecycle and its refinement of TaskProtocol, proved  *)
(* for every number of tasks and coroutines and every bound on a history.  *)
(***************************************************************************)
EXTENDS TaskLifecycle, SequenceTheorems, TLAPS

\* Nobody has touched a task that neither create_task nor get_task returned.
UnreturnedIsNew == \A t \in Tasks \ returned : task[t] = NewTask

\* Nothing was ever sent about a task that create_task has not registered.
InactiveIsSilent ==
  /\ \A r \in suspended : r.task \in active
  /\ \A t \in Tasks \ active : /\ \A rm \in Rooms : timeline[t][rm] = <<>>
                             /\ dropped[t] = {}

\* A suspended call announces the creation or a step the history records.
CallsMatchHistory ==
  \A r \in suspended : r.kind = "task" /\ r.nth # 0 =>
    /\ r.nth <= Len(task[r.task].history)
    /\ r.status = task[r.task].history[r.nth].to
    /\ r.status # "CANCELLED"

\* No two suspended calls announce the same step.
CallsDistinct ==
  \A r, q \in suspended :
    r.kind = "task" /\ q.kind = "task" /\ r.task = q.task /\ r.nth = q.nth => r = q

TaskObjects ==
  [status : TASK_STATUSES, progress : 0 .. Full, result : BOOLEAN, history : Seq(Transitions)]

\* Two parts of EveryTransitionAccounted.
EventsDistinct(t) ==
  \A rm, sm \in Rooms : \A i \in DOMAIN timeline[t][rm], j \in DOMAIN timeline[t][sm] :
    timeline[t][rm][i].nth = timeline[t][sm][j].nth => rm = sm /\ i = j
EventsRight(t) ==
  \A rm \in Rooms : \A i \in DOMAIN timeline[t][rm] :
    LET event == timeline[t][rm][i] IN
      event.nth # 0 => event.status = task[t].history[event.nth].to

Inv ==
  /\ TypeOK
  /\ HistoryIsLegalWalk
  /\ ResultOnlyWhenCompleted
  /\ UnreturnedIsNew
  /\ InactiveIsSilent
  /\ CallsMatchHistory
  /\ CallsDistinct
  /\ EveryTransitionAccounted
-----------------------------------------------------------------------------
(* The table and the objects                                               *)

LEMMA TableLemma ==
  /\ \A s \in TASK_STATUSES : VALID_TRANSITIONS[s] \subseteq TASK_STATUSES
  /\ VALID_TRANSITIONS["COMPLETED"] = {} /\ VALID_TRANSITIONS["CANCELLED"] = {}
  BY DEF VALID_TRANSITIONS, TASK_STATUSES

LEMMA CanTransitionLemma ==
  ASSUME TypeOK, NEW t \in Tasks, NEW new, CanTransition(t, new)
  PROVE  /\ new \in TASK_STATUSES
         /\ task[t].status \notin {"COMPLETED", "CANCELLED"}
         /\ Len(task[t].history) \in Nat /\ Len(task[t].history) + 1 <= MaxHistory
<1>1. task[t].status \in TASK_STATUSES /\ task[t].history \in Seq(Transitions)
  BY DEF TypeOK
<1>2. new \in TASK_STATUSES /\ task[t].status \notin {"COMPLETED", "CANCELLED"}
  BY <1>1, TableLemma DEF CanTransition
<1>3. Len(task[t].history) \in Nat
  BY <1>1
<1> QED
  BY <1>2, <1>3, LifecycleAssumption DEF CanTransition

\* What Task.transition makes of the object, field by field.
LEMMA TransitionedLemma ==
  ASSUME TypeOK, NEW t \in Tasks, NEW new \in TASK_STATUSES
  PROVE  /\ Transitioned(t, new) \in TaskObjects
         /\ Transitioned(t, new).status = new
         /\ Transitioned(t, new).progress = task[t].progress
         /\ Transitioned(t, new).result = task[t].result
         /\ Transitioned(t, new).history =
              Append(task[t].history, [from |-> task[t].status, to |-> new])
<1> DEFINE h == Append(task[t].history, [from |-> task[t].status, to |-> new])
<1>1. task[t] \in TaskObjects
  BY DEF TypeOK, TaskObjects
<1>2. h \in Seq(Transitions)
  BY <1>1 DEF TaskObjects, Transitions
<1>3. Transitioned(t, new) = [task[t] EXCEPT !.status = new, !.history = h]
  BY <1>1 DEF Transitioned, TaskObjects
<1> HIDE DEF h
<1>4. [task[t] EXCEPT !.status = new, !.history = h] \in TaskObjects
  BY <1>1, <1>2 DEF TaskObjects
<1> QED
  BY <1>1, <1>3, <1>4 DEF TaskObjects, h

\* What complete_task adds to it.
LEMMA CompletedLemma ==
  ASSUME NEW m \in TaskObjects, NEW b \in BOOLEAN, NEW p \in 0 .. Full
  PROVE  LET object == [m EXCEPT !.result = b, !.progress = p] IN
           /\ object \in TaskObjects /\ object.status = m.status /\ object.result = b
           /\ object.history = m.history
<1> DEFINE object == [m EXCEPT !.result = b, !.progress = p]
<1>1. object \in TaskObjects
  BY DEF TaskObjects
<1>2. object.status = m.status /\ object.history = m.history
  BY DEF TaskObjects
<1>3. object.result = b
  BY DEF TaskObjects
<1> QED  BY <1>1, <1>2, <1>3

\* One task's history becomes one entry longer, and nothing else is recorded.
Grown(t, new) ==
  /\ \A u \in Tasks : u # t => task'[u] = task[u]
  /\ Len(task'[t].history) = Len(task[t].history) + 1
  /\ \A i \in 1 .. Len(task[t].history) : task'[t].history[i] = task[t].history[i]
  /\ task'[t].history[Len(task[t].history) + 1].to = new

\* A transition is such a step, and keeps the walk.
LEMMA HistoryGrows ==
  ASSUME TypeOK, HistoryIsLegalWalk, NEW t \in Tasks, NEW new, CanTransition(t, new),
         NEW object \in TaskObjects, object.status = new,
         object.history = Append(task[t].history, [from |-> task[t].status, to |-> new]),
         task' = [task EXCEPT ![t] = object]
  PROVE  /\ task' \in [Tasks -> TaskObjects] /\ task'[t] = object
         /\ Grown(t, new)
         /\ HistoryIsLegalWalk'
<1> DEFINE old == task[t].history
           entry == [from |-> task[t].status, to |-> new]
<1>1. /\ task \in [Tasks -> TaskObjects] /\ old \in Seq(Transitions)
      /\ task[t].status \in TASK_STATUSES
  BY DEF TypeOK, TaskObjects
<1>2. new \in TASK_STATUSES /\ new \in VALID_TRANSITIONS[task[t].status] /\ Len(old) \in Nat
  BY CanTransitionLemma DEF CanTransition
<1>3. entry \in Transitions
  BY <1>1, <1>2 DEF Transitions
<1>4. /\ Len(object.history) = Len(old) + 1
      /\ \A i \in 1 .. Len(old) : object.history[i] = old[i]
      /\ object.history[Len(old) + 1] = entry
      /\ object.history # <<>>
  BY <1>1, <1>3, AppendProperties
<1>5. task' \in [Tasks -> TaskObjects] /\ task'[t] = object
      /\ \A u \in Tasks : u # t => task'[u] = task[u]
  BY <1>1
<1>6. HistoryIsLegalWalk'
  <2>1. ASSUME NEW i \in 1 .. Len(object.history)
        PROVE  /\ object.history[i].to \in VALID_TRANSITIONS[object.history[i].from]
               /\ object.history[i].from = IF i = 1 THEN "CREATED" ELSE object.history[i - 1].to
    <3>1. CASE i \in 1 .. Len(old)
      <4>1. /\ old[i].to \in VALID_TRANSITIONS[old[i].from]
            /\ old[i].from = IF i = 1 THEN "CREATED" ELSE old[i - 1].to
        BY <3>1 DEF HistoryIsLegalWalk
      <4>2. i # 1 => i - 1 \in 1 .. Len(old)
        BY <1>2, <3>1
      <4> QED  BY <1>4, <3>1, <4>1, <4>2
    <3>2. CASE i = Len(old) + 1
      <4>1. task[t].status = IF old = <<>> THEN "CREATED" ELSE old[Len(old)].to
        BY DEF HistoryIsLegalWalk
      <4>2. CASE old = <<>>
        <5>1. Len(old) = 0  BY <4>2
        <5> QED  BY <1>2, <1>4, <3>2, <4>1, <4>2, <5>1
      <4>3. CASE old # <<>>
        <5>1. Len(old) \in 1 .. Len(old)  BY <1>1, <4>3
        <5> QED  BY <1>2, <1>4, <3>2, <4>1, <4>3, <5>1
      <4> QED  BY <4>2, <4>3
    <3> QED  BY <1>2, <1>4, <3>1, <3>2
  <2>2. object.status = object.history[Len(object.history)].to
    BY <1>2, <1>4
  <2>3. ASSUME NEW u \in Tasks
        PROVE  LET h == task'[u].history IN
                 /\ \A i \in 1 .. Len(h) :
                      /\ h[i].to \in VALID_TRANSITIONS[h[i].from]
                      /\ h[i].from = IF i = 1 THEN "CREATED" ELSE h[i - 1].to
                 /\ task'[u].status = IF h = <<>> THEN "CREATED" ELSE h[Len(h)].to
    <3>1. CASE u = t
      BY <1>4, <1>5, <2>1, <2>2, <3>1, Zenon
    <3>2. CASE u # t
      <4>1. task'[u] = task[u]
        BY <1>5, <3>2, Zenon
      <4>2. LET h == task[u].history IN
              /\ \A i \in 1 .. Len(h) :
                   /\ h[i].to \in VALID_TRANSITIONS[h[i].from]
                   /\ h[i].from = IF i = 1 THEN "CREATED" ELSE h[i - 1].to
              /\ task[u].status = IF h = <<>> THEN "CREATED" ELSE h[Len(h)].to
        BY Zenon DEF HistoryIsLegalWalk
      <4> QED  BY <4>1, <4>2
    <3> QED  BY <3>1, <3>2, Zenon
  <2> QED
    BY <2>3, Zenon DEF HistoryIsLegalWalk
<1>7. Grown(t, new)
  BY <1>4, <1>5 DEF Grown
<1> QED
  BY <1>5, <1>6, <1>7

\* What a suspended call looks like.
LEMMA CallTypes ==
  ASSUME TypeOK, NEW r \in suspended
  PROVE  /\ r.task \in Tasks /\ r.kind \in {"task", "notice"} /\ r.room \in Rooms \union {NoRoom}
         /\ r.nth \in NOTICE .. MaxHistory
         /\ r.kind = "task" => r \in StatusCalls /\ r.nth \in 0 .. MaxHistory
         /\ r.kind = "notice" => r \in NoticeCalls /\ r.nth = NOTICE /\ r.room \in Rooms
<1>1. r \in StatusCalls \union NoticeCalls
  BY DEF TypeOK
<1>2. CASE r \in StatusCalls
  BY <1>2, LifecycleAssumption DEF StatusCalls, NOTICE
<1>3. CASE r \in NoticeCalls
  BY <1>3, LifecycleAssumption DEF NoticeCalls, NOTICE
<1> QED  BY <1>1, <1>2, <1>3

\* What an event of a room looks like.
LEMMA TimelineLemma ==
  ASSUME TypeOK, NEW t \in Tasks, NEW rm \in Rooms, NEW i \in DOMAIN timeline[t][rm]
  PROVE  /\ timeline[t][rm][i].nth \in Delivered(t) /\ timeline[t][rm][i].nth \in 0 .. MaxHistory
         /\ timeline[t][rm][i].status \in TASK_STATUSES
<1>1. timeline[t][rm] \in Seq(Events)
  BY DEF TypeOK
<1>2. i \in 1 .. Len(timeline[t][rm])
  BY <1>1
<1>3. timeline[t][rm][i] \in Events
  BY <1>1, <1>2, ElementOfSeq
<1>4. timeline[t][rm][i].nth \in Heard(t, rm)
  BY DEF Heard
<1> QED
  BY <1>3, <1>4 DEF Events, Delivered
-----------------------------------------------------------------------------
(* The operations                                                          *)

LEMMA InitLemma == Init => Inv
<1> SUFFICES ASSUME Init PROVE Inv
  OBVIOUS
<1> USE LifecycleAssumption DEF Init, NewTask
<1>1. TypeOK
  <2>1. timeline \in [Tasks -> [Rooms -> Seq(Events)]]
    BY EmptySeq
  <2>2. shown \in [Tasks -> [Rooms -> NOTHING .. Full]]
    BY DEF NOTHING
  <2> QED  BY <2>1, <2>2, EmptySeq DEF TypeOK, TASK_STATUSES
<1>2. HistoryIsLegalWalk  BY DEF HistoryIsLegalWalk
<1>3. ResultOnlyWhenCompleted  BY DEF ResultOnlyWhenCompleted
<1>4. UnreturnedIsNew  BY DEF UnreturnedIsNew
<1>5. InactiveIsSilent  BY DEF InactiveIsSilent
<1>6. CallsMatchHistory /\ CallsDistinct  BY DEF CallsMatchHistory, CallsDistinct
<1>7. EveryTransitionAccounted
  <2>1. \A t \in Tasks : Delivered(t) = {} /\ InFlight(t) = {} /\ ToAnnounce(t) = {}
    BY DEF Delivered, Heard, InFlight, ToAnnounce
  <2> QED
    BY <2>1 DEF EveryTransitionAccounted
<1> QED
  BY <1>1, <1>2, <1>3, <1>4, <1>5, <1>6, <1>7 DEF Inv

\* A delivered event names a step of the history.
LEMMA DeliveredLemma ==
  ASSUME Inv, NEW u \in Tasks, NEW rm \in Rooms, NEW i \in DOMAIN timeline[u][rm],
         timeline[u][rm][i].nth # 0
  PROVE  /\ timeline[u][rm][i].nth \in ToAnnounce(u)
         /\ timeline[u][rm][i].nth \in 1 .. Len(task[u].history)
         /\ timeline[u][rm][i].status = task[u].history[timeline[u][rm][i].nth].to
<1>1. timeline[u][rm][i].status = task[u].history[timeline[u][rm][i].nth].to
  BY DEF Inv, EveryTransitionAccounted
<1>2. timeline[u][rm][i].nth \in Delivered(u) /\ timeline[u][rm][i].nth \in 0 .. MaxHistory
  BY TimelineLemma DEF Inv
<1>3. timeline[u][rm][i].nth \in ToAnnounce(u)
  BY <1>2, LifecycleAssumption DEF Inv, EveryTransitionAccounted, NOTICE
<1> QED  BY <1>1, <1>3 DEF ToAnnounce

\* What holds of the objects after any transition, announced or not.
LEMMA ObjectsAfterMove ==
  ASSUME Inv, NEW t \in Tasks, t \in returned, NEW new, CanTransition(t, new),
         NEW object \in TaskObjects, object.status = new,
         object.result <=> new = "COMPLETED",
         object.history = Append(task[t].history, [from |-> task[t].status, to |-> new]),
         task' = [task EXCEPT ![t] = object], UNCHANGED returned
  PROVE  /\ task' \in [Tasks -> TaskObjects]
         /\ HistoryIsLegalWalk' /\ ResultOnlyWhenCompleted' /\ UnreturnedIsNew'
         /\ Grown(t, new)
<1>0. TypeOK /\ HistoryIsLegalWalk
  BY DEF Inv
<1>1. /\ task' \in [Tasks -> TaskObjects] /\ task'[t] = object
      /\ Grown(t, new)
      /\ HistoryIsLegalWalk'
  BY <1>0, HistoryGrows
<1> USE DEF Inv, Grown
<1>2. ResultOnlyWhenCompleted'
  BY <1>1 DEF ResultOnlyWhenCompleted
<1>3. UnreturnedIsNew'
  BY <1>1 DEF UnreturnedIsNew
<1> QED  BY <1>1, <1>2, <1>3

LEMMA MoveAndAnnounceStep ==
  ASSUME Inv, NEW c \in Callers, NEW t \in Tasks,
         NEW new, new # "CANCELLED", NEW room \in Rooms \union {NoRoom},
         NEW object \in TaskObjects, object.status = new,
         object.result <=> new = "COMPLETED",
         object.history = Append(task[t].history, [from |-> task[t].status, to |-> new]),
         MoveAndAnnounce(c, t, new, room, object)
  PROVE  Inv'
<1> DEFINE n == Len(task[t].history)
           call == StatusCall(c, t, room, new, n + 1)
<1>1. /\ t \in returned /\ CanTransition(t, new) /\ task' = [task EXCEPT ![t] = object]
      /\ suspended' = suspended \union {call}
      /\ overlapped' = overlapped \union {u \in {call.task} : \E r \in suspended : r.task = u}
      /\ UNCHANGED <<active, returned, timeline, shown, dropped>>
  BY DEF MoveAndAnnounce, Suspend
<1>2. /\ new \in TASK_STATUSES /\ n \in Nat /\ n + 1 <= MaxHistory
  BY <1>1, CanTransitionLemma DEF Inv
<1>3. /\ call \in StatusCalls /\ call.task = t /\ call.nth = n + 1 /\ call.kind = "task"
      /\ call.status = new
  BY <1>2, LifecycleAssumption DEF StatusCall, StatusCalls
<1>4. /\ task' \in [Tasks -> TaskObjects]
      /\ HistoryIsLegalWalk' /\ ResultOnlyWhenCompleted' /\ UnreturnedIsNew'
  BY <1>1, ObjectsAfterMove
<1>5. /\ \A u \in Tasks : u # t => task'[u] = task[u]
      /\ Len(task'[t].history) = n + 1
      /\ \A i \in 1 .. n : task'[t].history[i] = task[t].history[i]
      /\ task'[t].history[n + 1].to = new
  BY <1>1, ObjectsAfterMove DEF Grown
<1> HIDE DEF call, n
<1>6. TypeOK'
  BY <1>1, <1>3, <1>4 DEF Inv, TypeOK, TaskObjects
<1>7. InactiveIsSilent'
  BY <1>1, <1>3 DEF Inv, TypeOK, InactiveIsSilent
<1>8. CallsMatchHistory'
  <2>1. ASSUME NEW r \in suspended, r.kind = "task", r.nth # 0
        PROVE  /\ r.nth <= Len(task'[r.task].history)
               /\ r.status = task'[r.task].history[r.nth].to /\ r.status # "CANCELLED"
    <3>1. /\ r.nth <= Len(task[r.task].history)
          /\ r.status = task[r.task].history[r.nth].to /\ r.status # "CANCELLED"
      BY <2>1 DEF Inv, CallsMatchHistory
    <3>2. r.task \in Tasks /\ r.nth \in 0 .. MaxHistory
      BY <2>1, CallTypes DEF Inv
    <3>3. CASE r.task = t
      <4>1. r.nth <= n  BY <3>1, <3>3 DEF n
      <4>2. r.nth \in Nat  BY <3>2, LifecycleAssumption
      <4>3. r.nth \in 1 .. n  BY <1>2, <2>1, <4>1, <4>2
      <4>4. task'[t].history[r.nth] = task[t].history[r.nth] /\ Len(task'[t].history) = n + 1
        BY <1>5, <4>3
      <4>5. r.nth <= n + 1
        BY <1>2, <4>1, <4>2
      <4> QED  BY <3>1, <3>3, <4>4, <4>5, Zenon
    <3>4. CASE r.task # t
      BY <1>5, <3>1, <3>2, <3>4
    <3> QED  BY <3>3, <3>4
  <2>2. /\ call.nth <= Len(task'[call.task].history)
        /\ call.status = task'[call.task].history[call.nth].to /\ call.status # "CANCELLED"
    BY <1>2, <1>3, <1>5
  <2> QED
    BY <1>1, <2>1, <2>2 DEF CallsMatchHistory
<1>9. \A r \in suspended : r.kind = "task" /\ r.task = t => r.nth # n + 1
  BY <1>2, CallTypes, LifecycleAssumption DEF Inv, CallsMatchHistory, n
<1>10. CallsDistinct'
  BY <1>1, <1>3, <1>9 DEF Inv, CallsDistinct
<1>11. EveryTransitionAccounted'
  <2>1. \A u \in Tasks : Delivered(u)' = Delivered(u) /\ dropped'[u] = dropped[u]
    BY <1>1 DEF Delivered, Heard
  <2>2. /\ InFlight(t)' = InFlight(t) \union {n + 1}
        /\ \A u \in Tasks : u # t => InFlight(u)' = InFlight(u)
    BY <1>1, <1>3 DEF InFlight
  <2>3. ToAnnounce(t)' = ToAnnounce(t) \union {n + 1}
    <3>1. \A k : k \in 1 .. n + 1 <=> k \in 1 .. n \/ k = n + 1
      BY <1>2
    <3>2. ToAnnounce(t)' = {k \in 1 .. n + 1 : task'[t].history[k].to # "CANCELLED"}
      BY <1>5 DEF ToAnnounce
    <3>3. ToAnnounce(t) = {k \in 1 .. n : task[t].history[k].to # "CANCELLED"}
      BY DEF ToAnnounce, n
    <3> QED  BY <1>5, <3>1, <3>2, <3>3
  <2>4. \A u \in Tasks : u # t => ToAnnounce(u)' = ToAnnounce(u)
    BY <1>5 DEF ToAnnounce
  <2>5. n + 1 \notin Delivered(t) \union dropped[t] /\ n + 1 \notin {NOTICE, 0}
    <3>1. n + 1 \notin {NOTICE, 0}  BY <1>2 DEF NOTICE
    <3>2. n + 1 \notin ToAnnounce(t)  BY <1>2 DEF ToAnnounce, n
    <3> QED  BY <3>1, <3>2 DEF Inv, EveryTransitionAccounted
  <2>6. ASSUME NEW u \in Tasks, NEW rm \in Rooms, NEW i \in DOMAIN timeline[u][rm],
               timeline[u][rm][i].nth # 0
        PROVE  timeline[u][rm][i].status = task'[u].history[timeline[u][rm][i].nth].to
    <3>1. /\ timeline[u][rm][i].nth \in 1 .. Len(task[u].history)
          /\ timeline[u][rm][i].status = task[u].history[timeline[u][rm][i].nth].to
      BY <2>6, DeliveredLemma
    <3> QED  BY <1>5, <3>1 DEF n
  <2>7. \A u \in Tasks : u # t =>
          /\ (Delivered(u) \union InFlight(u) \union dropped[u])' \ {NOTICE, 0} = ToAnnounce(u)'
          /\ Delivered(u)' \intersect (InFlight(u)' \union dropped'[u]) = {}
          /\ InFlight(u)' \intersect dropped'[u] = {}
    BY <2>1, <2>2, <2>4 DEF Inv, EveryTransitionAccounted
  <2>8. /\ (Delivered(t) \union InFlight(t) \union dropped[t])' \ {NOTICE, 0} = ToAnnounce(t)'
        /\ Delivered(t)' \intersect (InFlight(t)' \union dropped'[t]) = {}
        /\ InFlight(t)' \intersect dropped'[t] = {}
    BY <2>1, <2>2, <2>3, <2>5 DEF Inv, EveryTransitionAccounted
  <2>9. \A u \in Tasks : EventsDistinct(u)' /\ EventsRight(u)'
    <3>1. \A u \in Tasks : EventsDistinct(u)'
      BY <1>1 DEF Inv, EveryTransitionAccounted, EventsDistinct
    <3>2. \A u \in Tasks : EventsRight(u)'
      <4>1. timeline' = timeline
        BY <1>1
      <4> QED  BY <2>6, <4>1 DEF EventsRight
    <3> QED  BY <3>1, <3>2
  <2>11. \A u \in Tasks :
           /\ (Delivered(u) \union InFlight(u) \union dropped[u])' \ {NOTICE, 0} = ToAnnounce(u)'
           /\ Delivered(u)' \intersect (InFlight(u)' \union dropped'[u]) = {}
           /\ InFlight(u)' \intersect dropped'[u] = {}
    BY <2>7, <2>8, Zenon
  <2> QED
    BY <2>9, <2>11 DEF EveryTransitionAccounted, EventsDistinct, EventsRight
<1> QED
  BY <1>4, <1>6, <1>7, <1>8, <1>10, <1>11 DEF Inv

\* The four operations that move a task are of this shape.
LEMMA OperationStep ==
  ASSUME Inv, NEW c \in Callers, NEW t \in Tasks,
         \/ AssignTask(c, t)
         \/ \E rm \in Rooms : StartTask(c, t, rm) \/ CompleteTask(c, t, rm) \/ FailTask(c, t, rm)
  PROVE  Inv'
<1>1. TypeOK /\ ResultOnlyWhenCompleted
  BY DEF Inv
<1>2. ASSUME NEW new \in TASK_STATUSES \ {"COMPLETED", "CANCELLED"},
             NEW room \in Rooms \union {NoRoom},
             MoveAndAnnounce(c, t, new, room, Transitioned(t, new))
      PROVE  Inv'
  <2> DEFINE object == Transitioned(t, new)
  <2>1. CanTransition(t, new)
    BY <1>2 DEF MoveAndAnnounce
  <2>2. task[t].status # "COMPLETED"
    BY <1>1, <2>1, CanTransitionLemma
  <2>3. /\ object \in TaskObjects /\ object.status = new /\ object.result = task[t].result
        /\ object.history = Append(task[t].history, [from |-> task[t].status, to |-> new])
    BY <1>1, TransitionedLemma
  <2>4. object.result <=> new = "COMPLETED"
    BY <1>1, <2>2, <2>3 DEF ResultOnlyWhenCompleted
  <2>5. MoveAndAnnounce(c, t, new, room, object)
    BY <1>2
  <2> HIDE DEF object
  <2> QED
    BY <2>3, <2>4, <2>5, MoveAndAnnounceStep
<1>3. ASSUME NEW rm \in Rooms, CompleteTask(c, t, rm) PROVE Inv'
  <2> DEFINE moved == Transitioned(t, "COMPLETED")
             object == [moved EXCEPT !.result = TRUE, !.progress = Full]
  <2>1. /\ moved \in TaskObjects /\ moved.status = "COMPLETED"
        /\ moved.history = Append(task[t].history, [from |-> task[t].status, to |-> "COMPLETED"])
    BY <1>1, TransitionedLemma DEF TASK_STATUSES
  <2>2. MoveAndAnnounce(c, t, "COMPLETED", rm, object)
    BY <1>3 DEF CompleteTask
  <2> HIDE DEF moved
  <2>3. /\ object \in TaskObjects /\ object.status = moved.status /\ object.result = TRUE
        /\ object.history = moved.history
    <3>1. TRUE \in BOOLEAN /\ Full \in 0 .. Full
      BY LifecycleAssumption
    <3> QED  BY <2>1, <3>1, CompletedLemma
  <2> HIDE DEF object
  <2> QED
    BY <2>1, <2>2, <2>3, MoveAndAnnounceStep
<1>4. /\ AssignTask(c, t) => MoveAndAnnounce(c, t, "ASSIGNED", NoRoom, Transitioned(t, "ASSIGNED"))
      /\ \A rm : StartTask(c, t, rm) =>
           MoveAndAnnounce(c, t, "IN_PROGRESS", rm, Transitioned(t, "IN_PROGRESS"))
      /\ \A rm : FailTask(c, t, rm) =>
           MoveAndAnnounce(c, t, "FAILED", rm, Transitioned(t, "FAILED"))
  BY DEF AssignTask, StartTask, FailTask
<1>5. {"ASSIGNED", "IN_PROGRESS", "FAILED"} \subseteq TASK_STATUSES \ {"COMPLETED", "CANCELLED"}
  BY DEF TASK_STATUSES
<1> QED
  BY <1>2, <1>3, <1>4, <1>5

\* A cancellation is recorded and announced to nobody.
LEMMA CancelStep ==
  ASSUME Inv, NEW t \in Tasks, Cancel(t)
  PROVE  Inv'
<1> DEFINE object == Transitioned(t, "CANCELLED")
           n == Len(task[t].history)
<1>1. TypeOK /\ ResultOnlyWhenCompleted /\ CanTransition(t, "CANCELLED") /\ t \in returned
  BY DEF Inv, Cancel
<1>2. task[t].status # "COMPLETED" /\ n \in Nat
  BY <1>1, CanTransitionLemma
<1>3. /\ object \in TaskObjects /\ object.status = "CANCELLED" /\ object.result = task[t].result
      /\ object.history = Append(task[t].history, [from |-> task[t].status, to |-> "CANCELLED"])
  BY <1>1, TransitionedLemma DEF TASK_STATUSES
<1>4. /\ task' = [task EXCEPT ![t] = object]
      /\ UNCHANGED <<active, returned, suspended, timeline, shown, dropped, overlapped>>
  BY DEF Cancel
<1>5. object.result <=> "CANCELLED" = "COMPLETED"
  BY <1>1, <1>2, <1>3 DEF ResultOnlyWhenCompleted
<1> HIDE DEF object
<1>6. /\ task' \in [Tasks -> TaskObjects]
      /\ HistoryIsLegalWalk' /\ ResultOnlyWhenCompleted' /\ UnreturnedIsNew'
      /\ Grown(t, "CANCELLED")
  BY <1>1, <1>3, <1>4, <1>5, ObjectsAfterMove
<1>7. /\ \A u \in Tasks : u # t => task'[u] = task[u]
      /\ Len(task'[t].history) = n + 1
      /\ \A i \in 1 .. n : task'[t].history[i] = task[t].history[i]
      /\ task'[t].history[n + 1].to = "CANCELLED"
  BY <1>6 DEF Grown
<1> HIDE DEF n
<1>8. TypeOK'  BY <1>1, <1>4, <1>6 DEF TypeOK, TaskObjects
<1>9. InactiveIsSilent'  BY <1>4 DEF Inv, InactiveIsSilent
<1>10. ASSUME NEW u \in Tasks, NEW k \in 1 .. Len(task[u].history)
       PROVE  k <= Len(task'[u].history) /\ task'[u].history[k] = task[u].history[k]
  <2>1. CASE u = t
    BY <1>2, <1>7, <1>10, <2>1 DEF n
  <2>2. CASE u # t
    <3>1. Len(task[u].history) \in Nat
      BY <1>1 DEF TypeOK, TaskObjects
    <3> QED  BY <1>7, <1>10, <2>2, <3>1
  <2> QED  BY <2>1, <2>2
<1>11. CallsMatchHistory'
  <2> SUFFICES ASSUME NEW r \in suspended, r.kind = "task", r.nth # 0
               PROVE  /\ r.nth <= Len(task'[r.task].history)
                      /\ r.status = task'[r.task].history[r.nth].to /\ r.status # "CANCELLED"
    BY <1>4 DEF CallsMatchHistory
  <2>1. /\ r.nth <= Len(task[r.task].history)
        /\ r.status = task[r.task].history[r.nth].to /\ r.status # "CANCELLED"
    BY DEF Inv, CallsMatchHistory
  <2>2. r.task \in Tasks /\ r.nth \in 0 .. MaxHistory
    BY <1>1, CallTypes
  <2>3. Len(task[r.task].history) \in Nat
    BY <1>1, <2>2 DEF TypeOK
  <2>4. r.nth \in 1 .. Len(task[r.task].history)
    BY <2>1, <2>2, <2>3, LifecycleAssumption
  <2> QED  BY <1>10, <2>1, <2>2, <2>4
<1>12. CallsDistinct'  BY <1>4 DEF Inv, CallsDistinct
<1>13. EveryTransitionAccounted'
  <2>1. \A u \in Tasks : /\ Delivered(u)' = Delivered(u) /\ InFlight(u)' = InFlight(u)
                         /\ dropped'[u] = dropped[u]
    BY <1>4 DEF Delivered, Heard, InFlight
  <2>2. \A u \in Tasks : ToAnnounce(u)' = ToAnnounce(u)
    <3>1. ToAnnounce(t)' = {k \in 1 .. n + 1 : task'[t].history[k].to # "CANCELLED"}
      BY <1>7 DEF ToAnnounce
    <3>2. ToAnnounce(t) = {k \in 1 .. n : task[t].history[k].to # "CANCELLED"}
      BY DEF ToAnnounce, n
    <3>3. \A k : k \in 1 .. n + 1 <=> k \in 1 .. n \/ k = n + 1
      BY <1>2
    <3>4. \A u \in Tasks : u # t => ToAnnounce(u)' = ToAnnounce(u)
      BY <1>7 DEF ToAnnounce
    <3>5. ToAnnounce(t)' = ToAnnounce(t)
      <4>1. ASSUME NEW k PROVE k \in ToAnnounce(t)' <=> k \in ToAnnounce(t)
        BY <1>7, <3>1, <3>2, <3>3
      <4> QED  BY <4>1 DEF ToAnnounce
    <3> QED  BY <3>4, <3>5, Zenon
  <2>3. ASSUME NEW u \in Tasks, NEW rm \in Rooms, NEW i \in DOMAIN timeline[u][rm],
               timeline[u][rm][i].nth # 0
        PROVE  timeline[u][rm][i].status = task'[u].history[timeline[u][rm][i].nth].to
    BY <1>1, <1>10, <2>3, DeliveredLemma DEF Inv
  <2> QED
    BY <1>4, <2>1, <2>2, <2>3 DEF Inv, EveryTransitionAccounted
<1> QED
  BY <1>6, <1>8, <1>9, <1>11, <1>12, <1>13 DEF Inv

\* The part of Inv about the objects does not see the calls.
LEMMA ObjectsUnchanged ==
  ASSUME Inv, UNCHANGED task, returned \subseteq returned'
  PROVE  HistoryIsLegalWalk' /\ ResultOnlyWhenCompleted' /\ UnreturnedIsNew'
<1>1. HistoryIsLegalWalk'  BY DEF Inv, HistoryIsLegalWalk
<1>2. ResultOnlyWhenCompleted'  BY DEF Inv, ResultOnlyWhenCompleted
<1>3. UnreturnedIsNew'  BY DEF Inv, UnreturnedIsNew
<1> QED  BY <1>1, <1>2, <1>3

\* get_task only adds a holder.
LEMMA GetTaskStep ==
  ASSUME Inv, NEW t \in Tasks, GetTask(t)
  PROVE  Inv'
<1>1. /\ t \in active /\ returned' = returned \union {t}
      /\ UNCHANGED <<task, active, suspended, timeline, shown, dropped, overlapped>>
  BY DEF GetTask
<1>2. HistoryIsLegalWalk' /\ ResultOnlyWhenCompleted' /\ UnreturnedIsNew'
  BY <1>1, ObjectsUnchanged
<1>3. TypeOK'  BY <1>1 DEF Inv, TypeOK
<1>4. InactiveIsSilent' /\ CallsMatchHistory' /\ CallsDistinct'
  BY <1>1 DEF Inv, InactiveIsSilent, CallsMatchHistory, CallsDistinct
<1>5. EveryTransitionAccounted'
  <2>1. \A u \in Tasks : /\ Delivered(u)' = Delivered(u) /\ InFlight(u)' = InFlight(u)
                         /\ ToAnnounce(u)' = ToAnnounce(u) /\ dropped'[u] = dropped[u]
    BY <1>1 DEF Delivered, Heard, InFlight, ToAnnounce
  <2> QED  BY <1>1, <2>1 DEF Inv, EveryTransitionAccounted
<1> QED  BY <1>2, <1>3, <1>4, <1>5 DEF Inv

\* Registered tasks are new to every room: their creation can be announced.
LEMMA CreateTaskStep ==
  ASSUME Inv, NEW c \in Callers, NEW t \in Tasks, NEW notify \in BOOLEAN,
         CreateTask(c, t, notify)
  PROVE  Inv'
<1> DEFINE call == StatusCall(c, t, NoRoom, "CREATED", 0)
<1>1. /\ t \notin active /\ active' = active \union {t}
      /\ UNCHANGED <<task, timeline, shown, dropped>>
  BY DEF CreateTask
<1>2. \/ /\ suspended' = suspended \union {call} /\ UNCHANGED returned
         /\ overlapped' = overlapped \union {u \in {call.task} : \E r \in suspended : r.task = u}
      \/ returned' = returned \union {t} /\ UNCHANGED <<suspended, overlapped>>
  BY DEF CreateTask, Suspend
<1>3. /\ call \in StatusCalls /\ call.task = t /\ call.nth = 0 /\ call.kind = "task"
  BY LifecycleAssumption DEF StatusCall, StatusCalls, TASK_STATUSES
<1> HIDE DEF call
<1>4. HistoryIsLegalWalk' /\ ResultOnlyWhenCompleted' /\ UnreturnedIsNew'
  <2>1. UNCHANGED task /\ returned \subseteq returned'  BY <1>1, <1>2
  <2> QED  BY <2>1, ObjectsUnchanged
<1>5. TypeOK'
  BY <1>1, <1>2, <1>3 DEF Inv, TypeOK
<1>6. InactiveIsSilent'
  BY <1>1, <1>2, <1>3 DEF Inv, InactiveIsSilent
<1>7. CallsMatchHistory'
  BY <1>1, <1>2, <1>3 DEF Inv, CallsMatchHistory
<1>8. \A r \in suspended : r.task # t
  BY <1>1 DEF Inv, InactiveIsSilent
<1>9. CallsDistinct'
  BY <1>2, <1>3, <1>8 DEF Inv, CallsDistinct
<1>10. EveryTransitionAccounted'
  <2>1. \A u \in Tasks : /\ Delivered(u)' = Delivered(u) /\ ToAnnounce(u)' = ToAnnounce(u)
                         /\ dropped'[u] = dropped[u]
    BY <1>1 DEF Delivered, Heard, ToAnnounce
  <2>2. /\ \A u \in Tasks : u # t => InFlight(u)' = InFlight(u)
        /\ InFlight(t)' \subseteq InFlight(t) \union {0} /\ InFlight(t) \subseteq InFlight(t)'
    BY <1>2, <1>3 DEF InFlight
  <2>3. Delivered(t) = {} /\ dropped[t] = {}
    <3>1. dropped[t] = {} /\ \A rm \in Rooms : timeline[t][rm] = <<>>
      BY <1>1 DEF Inv, InactiveIsSilent
    <3>2. \A rm \in Rooms : DOMAIN timeline[t][rm] = {}
      BY <3>1
    <3> QED  BY <3>1, <3>2 DEF Delivered, Heard
  <2>4. \A u \in Tasks :
          /\ (Delivered(u) \union InFlight(u) \union dropped[u])' \ {NOTICE, 0} = ToAnnounce(u)'
          /\ Delivered(u)' \intersect (InFlight(u)' \union dropped'[u]) = {}
          /\ InFlight(u)' \intersect dropped'[u] = {}
    BY <2>1, <2>2, <2>3 DEF Inv, EveryTransitionAccounted
  <2> QED
    BY <1>1, <2>4 DEF Inv, EveryTransitionAccounted
<1> QED
  BY <1>4, <1>5, <1>6, <1>7, <1>9, <1>10 DEF Inv

\* A progress report touches no field that Inv relates to the events.
LEMMA ReportProgressStep ==
  ASSUME Inv, NEW c \in Callers, NEW t \in Tasks, NEW rm \in Rooms,
         NEW p \in -1 .. Full + 1, ReportProgress(c, t, rm, p)
  PROVE  Inv'
<1> DEFINE call == NoticeCall(c, t, rm, Clamp(p))
<1>1. /\ t \in returned /\ task' = [task EXCEPT ![t].progress = Clamp(p)]
      /\ suspended' = suspended \union {call}
      /\ overlapped' = overlapped \union {u \in {call.task} : \E r \in suspended : r.task = u}
      /\ UNCHANGED <<active, returned, timeline, shown, dropped>>
  BY DEF ReportProgress, Suspend
<1>2. Clamp(p) \in 0 .. Full
  BY LifecycleAssumption DEF Clamp
<1>3. call \in NoticeCalls /\ call.task = t /\ call.kind = "notice"
  BY <1>2 DEF NoticeCall, NoticeCalls
<1> HIDE DEF call
<1>4. /\ task' \in [Tasks -> TaskObjects]
      /\ \A u \in Tasks : /\ task'[u].status = task[u].status
                          /\ task'[u].result = task[u].result
                          /\ task'[u].history = task[u].history
                          /\ u # t => task'[u] = task[u]
  BY <1>1, <1>2 DEF Inv, TypeOK, TaskObjects
<1>5. TypeOK'
  BY <1>1, <1>3, <1>4 DEF Inv, TypeOK, TaskObjects
<1>6. HistoryIsLegalWalk'  BY <1>4 DEF Inv, HistoryIsLegalWalk
<1>7. ResultOnlyWhenCompleted'  BY <1>4 DEF Inv, ResultOnlyWhenCompleted
<1>8. UnreturnedIsNew'  BY <1>1, <1>4 DEF Inv, UnreturnedIsNew
<1>9. InactiveIsSilent'  BY <1>1, <1>3 DEF Inv, TypeOK, InactiveIsSilent
<1>10. CallsMatchHistory'
  <2>1. \A r \in suspended : r.task \in Tasks  BY CallTypes DEF Inv
  <2> QED  BY <1>1, <1>3, <1>4, <2>1 DEF Inv, CallsMatchHistory
<1>11. CallsDistinct'  BY <1>1, <1>3 DEF Inv, CallsDistinct
<1>12. EveryTransitionAccounted'
  <2>1. \A u \in Tasks : /\ Delivered(u)' = Delivered(u) /\ InFlight(u)' = InFlight(u)
                         /\ ToAnnounce(u)' = ToAnnounce(u) /\ dropped'[u] = dropped[u]
    BY <1>1, <1>3, <1>4 DEF Delivered, Heard, InFlight, ToAnnounce
  <2> QED
    BY <1>1, <1>4, <2>1 DEF Inv, EveryTransitionAccounted
<1> QED
  BY <1>5, <1>6, <1>7, <1>8, <1>9, <1>10, <1>11, <1>12 DEF Inv
-----------------------------------------------------------------------------
(* The awaits                                                              *)

LEMMA EnsureDmReturnsStep ==
  ASSUME Inv, NEW r \in suspended, EnsureDmReturns(r)
  PROVE  Inv'
<1>0. PICK rm \in Rooms : suspended' = (suspended \ {r}) \union {[r EXCEPT !.room = rm]}
  BY DEF EnsureDmReturns
<1> DEFINE next == [r EXCEPT !.room = rm]
<1>1. /\ r.room = NoRoom /\ suspended' = (suspended \ {r}) \union {next}
      /\ UNCHANGED <<task, active, returned, timeline, shown, dropped, overlapped>>
  BY <1>0 DEF EnsureDmReturns
<1>2. r \in StatusCalls
  BY <1>1, CallTypes, LifecycleAssumption DEF Inv
<1>3. /\ next \in StatusCalls /\ next.task = r.task /\ next.kind = r.kind
      /\ next.nth = r.nth /\ next.status = r.status
  BY <1>2 DEF StatusCalls
<1> HIDE DEF next
<1>4. HistoryIsLegalWalk' /\ ResultOnlyWhenCompleted' /\ UnreturnedIsNew'
  BY <1>1, ObjectsUnchanged
<1>5. TypeOK'  BY <1>1, <1>3 DEF Inv, TypeOK
<1>6. InactiveIsSilent'  BY <1>1, <1>3 DEF Inv, InactiveIsSilent
<1>7. CallsMatchHistory'  BY <1>1, <1>3 DEF Inv, CallsMatchHistory
<1>8. CallsDistinct'  BY <1>1, <1>3 DEF Inv, CallsDistinct
<1>9. EveryTransitionAccounted'
  <2>1. \A u \in Tasks : /\ Delivered(u)' = Delivered(u) /\ InFlight(u)' = InFlight(u)
                         /\ ToAnnounce(u)' = ToAnnounce(u) /\ dropped'[u] = dropped[u]
    BY <1>1, <1>3 DEF Delivered, Heard, InFlight, ToAnnounce
  <2> QED  BY <1>1, <2>1 DEF Inv, EveryTransitionAccounted
<1> QED
  BY <1>4, <1>5, <1>6, <1>7, <1>8, <1>9 DEF Inv

\* A call that ends takes its step out of the steps in flight.
LEMMA CallEnds ==
  ASSUME Inv, NEW r \in suspended, Return(r) \/ Raise(r)
  PROVE  /\ suspended' = suspended \ {r}
         /\ returned \subseteq returned' /\ returned' \subseteq active
         /\ r.task \in Tasks /\ r.task \in active
         /\ r.kind = "task" => /\ InFlight(r.task)' = InFlight(r.task) \ {r.nth}
                              /\ r.nth \in InFlight(r.task) /\ r.nth \in 0 .. MaxHistory
         /\ r.kind = "notice" => InFlight(r.task)' = InFlight(r.task) /\ r.nth = NOTICE
         /\ \A u \in Tasks : u # r.task => InFlight(u)' = InFlight(u)
<1>1. /\ r.task \in Tasks /\ r.task \in active
      /\ r.kind = "notice" => r.nth = NOTICE
      /\ r.kind = "task" => r.nth \in 0 .. MaxHistory
  BY CallTypes DEF Inv, InactiveIsSilent
<1>2. /\ suspended' = suspended \ {r}
      /\ returned \subseteq returned' /\ returned' \subseteq active
  BY <1>1 DEF Return, Raise, Inv, TypeOK
<1>3. r.kind = "task" => /\ InFlight(r.task)' = InFlight(r.task) \ {r.nth}
                         /\ r.nth \in InFlight(r.task)
  BY <1>2 DEF InFlight, Inv, CallsDistinct
<1>4. r.kind = "notice" => InFlight(r.task)' = InFlight(r.task)
  BY <1>2 DEF InFlight
<1>5. \A u \in Tasks : u # r.task => InFlight(u)' = InFlight(u)
  BY <1>2 DEF InFlight
<1> QED  BY <1>1, <1>2, <1>3, <1>4, <1>5

\* The end of a call, delivered or not, preserves what Inv says of the rest.
LEMMA CallEndsFrame ==
  ASSUME Inv, NEW r \in suspended, Return(r) \/ Raise(r), UNCHANGED <<task, active, overlapped>>
  PROVE  /\ HistoryIsLegalWalk' /\ ResultOnlyWhenCompleted' /\ UnreturnedIsNew'
         /\ CallsMatchHistory' /\ CallsDistinct'
         /\ \A q \in suspended' : q.task \in active'
         /\ \A u \in Tasks : ToAnnounce(u)' = ToAnnounce(u)
<1>1. suspended' \subseteq suspended /\ returned \subseteq returned'
  BY CallEnds
<1>2. HistoryIsLegalWalk' /\ ResultOnlyWhenCompleted' /\ UnreturnedIsNew'
  BY <1>1, ObjectsUnchanged
<1>3. CallsMatchHistory'  BY <1>1 DEF Inv, CallsMatchHistory
<1>4. CallsDistinct'  BY <1>1 DEF Inv, CallsDistinct
<1>5. \A q \in suspended' : q.task \in active'  BY <1>1 DEF Inv, InactiveIsSilent
<1>6. \A u \in Tasks : ToAnnounce(u)' = ToAnnounce(u)  BY DEF ToAnnounce
<1> QED  BY <1>2, <1>3, <1>4, <1>5, <1>6

LEMMA DropStep ==
  ASSUME Inv, NEW r \in suspended, Return(r) \/ Raise(r), Drop(r)
  PROVE  Inv'
<1>1. /\ dropped' = [dropped EXCEPT ![r.task] = @ \union {r.nth}]
      /\ UNCHANGED <<task, active, timeline, shown, overlapped>>
  BY DEF Drop
<1>2. /\ HistoryIsLegalWalk' /\ ResultOnlyWhenCompleted' /\ UnreturnedIsNew'
      /\ CallsMatchHistory' /\ CallsDistinct'
      /\ \A q \in suspended' : q.task \in active'
      /\ \A u \in Tasks : ToAnnounce(u)' = ToAnnounce(u)
  BY <1>1, CallEndsFrame
<1>3. r.task \in Tasks /\ r.task \in active /\ suspended' \subseteq suspended /\ returned' \subseteq active
  BY CallEnds
<1>4. /\ dropped'[r.task] = dropped[r.task] \union {r.nth}
      /\ \A u \in Tasks : u # r.task => dropped'[u] = dropped[u]
  BY <1>1, <1>3 DEF Inv, TypeOK
<1>5. TypeOK'
  <2>1. r.nth \in NOTICE .. MaxHistory  BY CallTypes DEF Inv
  <2> QED  BY <1>1, <1>3, <2>1 DEF Inv, TypeOK
<1>6. InactiveIsSilent'
  BY <1>1, <1>2, <1>3, <1>4 DEF Inv, InactiveIsSilent
<1>7. \A u \in Tasks : Delivered(u)' = Delivered(u)
  BY <1>1 DEF Delivered, Heard
<1>8. EveryTransitionAccounted'
  <2>1. \A u \in Tasks : u # r.task =>
          /\ (Delivered(u) \union InFlight(u) \union dropped[u])' \ {NOTICE, 0} = ToAnnounce(u)'
          /\ Delivered(u)' \intersect (InFlight(u)' \union dropped'[u]) = {}
          /\ InFlight(u)' \intersect dropped'[u] = {}
    BY <1>2, <1>4, <1>7, CallEnds DEF Inv, EveryTransitionAccounted
  <2>2. LET u == r.task IN
          /\ (Delivered(u) \union InFlight(u) \union dropped[u])' \ {NOTICE, 0} = ToAnnounce(u)'
          /\ Delivered(u)' \intersect (InFlight(u)' \union dropped'[u]) = {}
          /\ InFlight(u)' \intersect dropped'[u] = {}
    <3>1. NOTICE \notin Delivered(r.task) \union InFlight(r.task)
      <4>1. NOTICE \notin Delivered(r.task)
        BY <1>3, TimelineLemma, LifecycleAssumption DEF Delivered, Heard, NOTICE, Inv
      <4>2. NOTICE \notin InFlight(r.task)
        BY CallTypes, LifecycleAssumption DEF InFlight, NOTICE, Inv
      <4> QED  BY <4>1, <4>2
    <3>2. CASE r.kind = "task"
      BY <1>2, <1>3, <1>4, <1>7, <3>2, CallEnds DEF Inv, EveryTransitionAccounted
    <3>3. CASE r.kind = "notice"
      BY <1>2, <1>3, <1>4, <1>7, <3>1, <3>3, CallEnds DEF Inv, EveryTransitionAccounted
    <3>4. r.kind \in {"task", "notice"}  BY CallTypes DEF Inv
    <3> QED  BY <3>2, <3>3, <3>4
  <2> QED
    BY <1>1, <2>1, <2>2 DEF Inv, EveryTransitionAccounted
<1> QED
  BY <1>2, <1>5, <1>6, <1>8 DEF Inv

\* A room's timeline gets one more event, of a step no room had heard of.
LEMMA DeliverTask ==
  ASSUME Inv, NEW r \in suspended, r.kind = "task", Deliver(r)
  PROVE  LET event == [status |-> r.status, nth |-> r.nth]
             old == timeline[r.task][r.room] IN
           /\ r.room \in Rooms /\ event \in Events /\ Len(old) \in Nat
           /\ timeline' \in [Tasks -> [Rooms -> Seq(Events)]]
           /\ DOMAIN timeline'[r.task][r.room] = 1 .. Len(old) + 1 /\ DOMAIN old = 1 .. Len(old)
           /\ \A i \in 1 .. Len(old) : timeline'[r.task][r.room][i] = old[i]
           /\ timeline'[r.task][r.room][Len(old) + 1] = event
           /\ \A rm \in Rooms : rm # r.room => timeline'[r.task][rm] = timeline[r.task][rm]
           /\ Delivered(r.task)' = Delivered(r.task) \union {r.nth}
           /\ \A u \in Tasks : u # r.task => timeline'[u] = timeline[u] /\ Delivered(u)' = Delivered(u)
<1> DEFINE event == [status |-> r.status, nth |-> r.nth]
           old == timeline[r.task][r.room]
<1>1. r \in StatusCalls /\ r.task \in Tasks /\ r.room \in Rooms
  BY CallTypes DEF Inv, Deliver
<1>2. event \in Events
  BY <1>1 DEF StatusCalls, Events
<1>3. timeline \in [Tasks -> [Rooms -> Seq(Events)]]
  BY DEF Inv, TypeOK
<1>4. timeline' = [timeline EXCEPT ![r.task] = [@ EXCEPT ![r.room] = Append(old, event)]]
  BY <1>1, <1>3 DEF Deliver
<1> HIDE DEF event
<1>5. /\ old \in Seq(Events) /\ Len(old) \in Nat /\ DOMAIN old = 1 .. Len(old)
      /\ Append(old, event) \in Seq(Events)
      /\ Len(Append(old, event)) = Len(old) + 1
      /\ \A i \in 1 .. Len(old) : Append(old, event)[i] = old[i]
      /\ Append(old, event)[Len(old) + 1] = event
  BY <1>1, <1>2, <1>3, AppendProperties
<1>6. /\ timeline' \in [Tasks -> [Rooms -> Seq(Events)]]
      /\ timeline'[r.task][r.room] = Append(old, event)
      /\ \A rm \in Rooms : rm # r.room => timeline'[r.task][rm] = timeline[r.task][rm]
      /\ \A u \in Tasks : u # r.task => timeline'[u] = timeline[u]
  BY <1>1, <1>3, <1>4, <1>5
<1>7. DOMAIN timeline'[r.task][r.room] = 1 .. Len(old) + 1
  BY <1>5, <1>6
<1>8. event.nth = r.nth
  BY DEF event
<1>9. Delivered(r.task)' = Delivered(r.task) \union {r.nth}
  <2>1. Heard(r.task, r.room)' = {timeline'[r.task][r.room][i].nth : i \in 1 .. Len(old) + 1}
    BY <1>7 DEF Heard
  <2>2. Heard(r.task, r.room) = {old[i].nth : i \in 1 .. Len(old)}
    BY <1>5 DEF Heard
  <2>3. \A i : i \in 1 .. Len(old) + 1 <=> i \in 1 .. Len(old) \/ i = Len(old) + 1
    BY <1>5
  <2>4. Heard(r.task, r.room)' = Heard(r.task, r.room) \union {r.nth}
    <3> DEFINE new == timeline'[r.task][r.room]
    <3>1. \A i \in 1 .. Len(old) : new[i] = old[i]
      BY <1>5, <1>6
    <3>2. new[Len(old) + 1].nth = r.nth
      BY <1>5, <1>6, <1>8
    <3> HIDE DEF new, old
    <3>3. {new[i].nth : i \in 1 .. Len(old) + 1} = {old[i].nth : i \in 1 .. Len(old)} \union {r.nth}
      BY <2>3, <3>1, <3>2
    <3> QED  BY <2>1, <2>2, <3>3 DEF new, old
  <2>5. \A rm \in Rooms : rm # r.room => Heard(r.task, rm)' = Heard(r.task, rm)
    BY <1>6 DEF Heard
  <2> QED  BY <1>1, <2>4, <2>5 DEF Delivered
<1>10. \A u \in Tasks : u # r.task => Delivered(u)' = Delivered(u)
  BY <1>6 DEF Delivered, Heard
<1> QED
  BY <1>1, <1>2, <1>5, <1>6, <1>7, <1>9, <1>10 DEF event

LEMMA DeliverStep ==
  ASSUME Inv, NEW r \in suspended, Return(r) \/ Raise(r), Deliver(r)
  PROVE  Inv'
<1>1. UNCHANGED <<task, active, dropped, overlapped>>
  BY DEF Deliver
<1>2. /\ HistoryIsLegalWalk' /\ ResultOnlyWhenCompleted' /\ UnreturnedIsNew'
      /\ CallsMatchHistory' /\ CallsDistinct'
      /\ \A q \in suspended' : q.task \in active'
      /\ \A u \in Tasks : ToAnnounce(u)' = ToAnnounce(u)
  BY <1>1, CallEndsFrame
<1>3. r.task \in Tasks /\ r.task \in active /\ suspended' \subseteq suspended /\ returned' \subseteq active
  BY CallEnds
<1>4. CASE r.kind = "notice"
  <2>1. UNCHANGED timeline /\ shown' = [shown EXCEPT ![r.task][r.room] = r.progress]
    BY <1>4 DEF Deliver
  <2>2. r.progress \in NOTHING .. Full
    BY <1>4, CallTypes DEF Inv, NoticeCalls, NOTHING
  <2>3. TypeOK'
    <3>1. shown' \in [Tasks -> [Rooms -> NOTHING .. Full]]
      BY <2>1, <2>2 DEF Inv, TypeOK
    <3> QED  BY <1>1, <1>3, <2>1, <3>1 DEF Inv, TypeOK
  <2>4. InactiveIsSilent'  BY <1>1, <1>2, <2>1 DEF Inv, InactiveIsSilent
  <2>5. EveryTransitionAccounted'
    <3>1. \A u \in Tasks : Delivered(u)' = Delivered(u) /\ InFlight(u)' = InFlight(u)
      BY <1>3, <1>4, <2>1, CallEnds DEF Delivered, Heard
    <3> QED  BY <1>1, <1>2, <2>1, <3>1 DEF Inv, EveryTransitionAccounted
  <2> QED
    BY <1>2, <2>3, <2>4, <2>5 DEF Inv
<1>5. CASE r.kind = "task"
  <2> DEFINE event == [status |-> r.status, nth |-> r.nth]
             old == timeline[r.task][r.room]
  <2>1. /\ r.room \in Rooms /\ event \in Events /\ Len(old) \in Nat
        /\ timeline' \in [Tasks -> [Rooms -> Seq(Events)]]
        /\ DOMAIN timeline'[r.task][r.room] = 1 .. Len(old) + 1 /\ DOMAIN old = 1 .. Len(old)
        /\ \A i \in 1 .. Len(old) : timeline'[r.task][r.room][i] = old[i]
        /\ timeline'[r.task][r.room][Len(old) + 1] = event
        /\ \A rm \in Rooms : rm # r.room => timeline'[r.task][rm] = timeline[r.task][rm]
        /\ Delivered(r.task)' = Delivered(r.task) \union {r.nth}
        /\ \A u \in Tasks : u # r.task => timeline'[u] = timeline[u] /\ Delivered(u)' = Delivered(u)
    BY <1>5, DeliverTask
  <2>2. event.nth = r.nth /\ event.status = r.status
    OBVIOUS
  <2> HIDE DEF event
  <2>3. /\ InFlight(r.task)' = InFlight(r.task) \ {r.nth} /\ r.nth \in InFlight(r.task)
        /\ \A u \in Tasks : u # r.task => InFlight(u)' = InFlight(u)
    BY <1>5, CallEnds
  <2>4. UNCHANGED shown
    BY <1>5 DEF Deliver
  <2>5. TypeOK'
    <3>1. timeline' \in [Tasks -> [Rooms -> Seq(Events)]]
      BY <2>1
    <3> QED  BY <1>1, <1>3, <2>4, <3>1 DEF Inv, TypeOK
  <2>6. InactiveIsSilent'
    <3>1. \A u \in Tasks \ active : timeline'[u] = timeline[u]
      BY <1>3, <2>1
    <3> QED  BY <1>1, <1>2, <3>1 DEF Inv, InactiveIsSilent
  <2>7. r.nth \notin Delivered(r.task) /\ r.nth \notin dropped[r.task]
    BY <1>3, <2>3 DEF Inv, EveryTransitionAccounted
  <2>8. \A u \in Tasks :
          /\ (Delivered(u) \union InFlight(u) \union dropped[u])' \ {NOTICE, 0} = ToAnnounce(u)'
          /\ Delivered(u)' \intersect (InFlight(u)' \union dropped'[u]) = {}
          /\ InFlight(u)' \intersect dropped'[u] = {}
    <3>1. \A u \in Tasks : u # r.task =>
            /\ (Delivered(u) \union InFlight(u) \union dropped[u])' \ {NOTICE, 0} = ToAnnounce(u)'
            /\ Delivered(u)' \intersect (InFlight(u)' \union dropped'[u]) = {}
            /\ InFlight(u)' \intersect dropped'[u] = {}
      BY <1>1, <1>2, <2>1, <2>3 DEF Inv, EveryTransitionAccounted
    <3>2. LET u == r.task IN
            /\ (Delivered(u) \union InFlight(u) \union dropped[u])' \ {NOTICE, 0} = ToAnnounce(u)'
            /\ Delivered(u)' \intersect (InFlight(u)' \union dropped'[u]) = {}
            /\ InFlight(u)' \intersect dropped'[u] = {}
      BY <1>1, <1>2, <1>3, <2>1, <2>3, <2>7 DEF Inv, EveryTransitionAccounted
    <3> QED  BY <3>1, <3>2
  <2>9. \A u \in Tasks : EventsDistinct(u)'
    <3>1. EventsDistinct(r.task)
      BY <1>3 DEF Inv, EveryTransitionAccounted, EventsDistinct
    <3>2. \A rm \in Rooms : \A i \in DOMAIN timeline[r.task][rm] :
            timeline[r.task][rm][i].nth # r.nth
      BY <1>3, <2>7, TimelineLemma DEF Inv
    <3>3. \A i \in 1 .. Len(old) + 1 : i \in 1 .. Len(old) \/ i = Len(old) + 1
      BY <2>1
    <3>4. ASSUME NEW rm \in Rooms, NEW i \in DOMAIN timeline'[r.task][rm]
          PROVE  \/ i \in DOMAIN timeline[r.task][rm] /\ timeline'[r.task][rm][i] = timeline[r.task][rm][i]
                 \/ rm = r.room /\ i = Len(old) + 1 /\ timeline'[r.task][rm][i].nth = r.nth
      BY <2>1, <2>2, <3>3, <3>4
    <3>5. EventsDistinct(r.task)'
      <4> SUFFICES ASSUME NEW rm \in Rooms, NEW sm \in Rooms,
                          NEW i \in DOMAIN timeline'[r.task][rm],
                          NEW j \in DOMAIN timeline'[r.task][sm],
                          timeline'[r.task][rm][i].nth = timeline'[r.task][sm][j].nth
                   PROVE  rm = sm /\ i = j
        BY DEF EventsDistinct
      <4>1. \/ i \in DOMAIN timeline[r.task][rm] /\ timeline'[r.task][rm][i] = timeline[r.task][rm][i]
            \/ rm = r.room /\ i = Len(old) + 1 /\ timeline'[r.task][rm][i].nth = r.nth
        BY <3>4
      <4>2. \/ j \in DOMAIN timeline[r.task][sm] /\ timeline'[r.task][sm][j] = timeline[r.task][sm][j]
            \/ sm = r.room /\ j = Len(old) + 1 /\ timeline'[r.task][sm][j].nth = r.nth
        BY <3>4
      <4> HIDE DEF old
      <4>3. CASE i \in DOMAIN timeline[r.task][rm] /\ j \in DOMAIN timeline[r.task][sm]
                 /\ timeline'[r.task][rm][i] = timeline[r.task][rm][i]
                 /\ timeline'[r.task][sm][j] = timeline[r.task][sm][j]
        <5>1. timeline[r.task][rm][i].nth = timeline[r.task][sm][j].nth
          BY <4>3
        <5>2. \A km, lm \in Rooms :
                \A k \in DOMAIN timeline[r.task][km], l \in DOMAIN timeline[r.task][lm] :
                  timeline[r.task][km][k].nth = timeline[r.task][lm][l].nth => km = lm /\ k = l
          BY <3>1 DEF EventsDistinct
        <5> QED  BY <4>3, <5>1, <5>2
      <4>4. CASE timeline'[r.task][rm][i].nth = r.nth
        <5>1. timeline'[r.task][sm][j].nth = r.nth
          BY <4>4
        <5>2. rm = r.room /\ i = Len(old) + 1
          <6>1. ~(/\ i \in DOMAIN timeline[r.task][rm]
                  /\ timeline'[r.task][rm][i] = timeline[r.task][rm][i])
            BY <3>2, <4>4
          <6> QED  BY <4>1, <6>1
        <5>3. sm = r.room /\ j = Len(old) + 1
          <6>1. ~(/\ j \in DOMAIN timeline[r.task][sm]
                  /\ timeline'[r.task][sm][j] = timeline[r.task][sm][j])
            BY <3>2, <5>1
          <6> QED  BY <4>2, <6>1
        <5> QED  BY <5>2, <5>3
      <4>5. CASE timeline'[r.task][sm][j].nth = r.nth
        <5>1. timeline'[r.task][rm][i].nth = r.nth
          BY <4>5
        <5> QED  BY <4>4, <5>1
      <4> QED  BY <4>1, <4>2, <4>3, <4>4, <4>5, Zenon
    <3>6. ASSUME NEW u \in Tasks, u # r.task PROVE EventsDistinct(u)'
      <4>1. EventsDistinct(u) /\ timeline'[u] = timeline[u]
        BY <2>1, <3>6 DEF Inv, EveryTransitionAccounted, EventsDistinct
      <4> QED  BY <4>1 DEF EventsDistinct
    <3> QED  BY <3>5, <3>6
  <2>10. \A u \in Tasks : EventsRight(u)'
    <3>1. EventsRight(r.task)
      BY <1>3 DEF Inv, EveryTransitionAccounted, EventsRight
    <3>2. r.nth # 0 => r.status = task[r.task].history[r.nth].to
      BY <1>5 DEF Inv, CallsMatchHistory
    <3>3. \A i \in 1 .. Len(old) + 1 : i \in 1 .. Len(old) \/ i = Len(old) + 1
      BY <2>1
    <3>4. ASSUME NEW rm \in Rooms, NEW i \in DOMAIN timeline'[r.task][rm]
          PROVE  \/ i \in DOMAIN timeline[r.task][rm] /\ timeline'[r.task][rm][i] = timeline[r.task][rm][i]
                 \/ timeline'[r.task][rm][i] = event
      BY <2>1, <3>3, <3>4
    <3>5. EventsRight(r.task)'
      <4> SUFFICES ASSUME NEW rm \in Rooms, NEW i \in DOMAIN timeline'[r.task][rm],
                          timeline'[r.task][rm][i].nth # 0
                   PROVE  timeline'[r.task][rm][i].status =
                            task'[r.task].history[timeline'[r.task][rm][i].nth].to
        BY DEF EventsRight
      <4>1. CASE /\ i \in DOMAIN timeline[r.task][rm]
                 /\ timeline'[r.task][rm][i] = timeline[r.task][rm][i]
        BY <1>1, <3>1, <4>1, Zenon DEF EventsRight
      <4>2. CASE timeline'[r.task][rm][i] = event
        BY <1>1, <2>2, <3>2, <4>2
      <4> QED  BY <3>4, <4>1, <4>2
    <3>6. ASSUME NEW u \in Tasks, u # r.task PROVE EventsRight(u)'
      <4>1. EventsRight(u) /\ timeline'[u] = timeline[u]
        BY <2>1, <3>6 DEF Inv, EveryTransitionAccounted, EventsRight
      <4> QED  BY <1>1, <4>1 DEF EventsRight
    <3> QED  BY <3>5, <3>6
  <2>11. EveryTransitionAccounted'
    BY <2>8, <2>9, <2>10 DEF EveryTransitionAccounted, EventsDistinct, EventsRight
  <2> QED
    BY <1>2, <2>5, <2>6, <2>11 DEF Inv
<1>6. r.kind \in {"task", "notice"}
  BY CallTypes DEF Inv
<1> QED
  BY <1>4, <1>5, <1>6
-----------------------------------------------------------------------------
(* The invariants                                                          *)

LEMMA NextStep == Inv /\ [Next]_vars => Inv'
<1> SUFFICES ASSUME Inv, [Next]_vars PROVE Inv'
  OBVIOUS
<1>1. CASE \E c \in Callers, t \in Tasks : Operation(c, t)
  <2> SUFFICES ASSUME NEW c \in Callers, NEW t \in Tasks, Operation(c, t) PROVE Inv'
    BY <1>1
  <2> QED
    BY OperationStep, CreateTaskStep, ReportProgressStep DEF Operation
<1>2. CASE \E t \in Tasks : Cancel(t) \/ GetTask(t)
  BY <1>2, CancelStep, GetTaskStep
<1>3. CASE \E r \in suspended : Resume(r)
  BY <1>3, EnsureDmReturnsStep, DropStep, DeliverStep DEF Resume, RoomSendReturns, AwaitRaises
<1>4. CASE UNCHANGED vars
  <2> USE <1>4 DEF vars
  <2>1. HistoryIsLegalWalk' /\ ResultOnlyWhenCompleted' /\ UnreturnedIsNew'  BY ObjectsUnchanged
  <2>2. TypeOK'  BY DEF Inv, TypeOK
  <2>3. InactiveIsSilent' /\ CallsMatchHistory' /\ CallsDistinct'
    BY DEF Inv, InactiveIsSilent, CallsMatchHistory, CallsDistinct
  <2>4. EveryTransitionAccounted'
    <3>1. \A u \in Tasks : /\ Delivered(u)' = Delivered(u) /\ InFlight(u)' = InFlight(u)
                           /\ ToAnnounce(u)' = ToAnnounce(u) /\ dropped'[u] = dropped[u]
      BY DEF Delivered, Heard, InFlight, ToAnnounce
    <3> QED  BY <3>1 DEF Inv, EveryTransitionAccounted
  <2> QED  BY <2>1, <2>2, <2>3, <2>4 DEF Inv
<1> QED
  BY <1>1, <1>2, <1>3, <1>4 DEF Next

\* The inductive invariant holds in every state of every run.
THEOREM LifecycleInvariant == Spec => []Inv
  BY InitLemma, NextStep, PTL DEF Spec

\* Every variable keeps its type; the history is no longer than its bound.
THEOREM TypeCorrect == Spec => []TypeOK
<1>1. Inv => TypeOK  BY DEF Inv
<1> QED  BY LifecycleInvariant, <1>1, PTL

\* Whatever coroutines race on a task, its history is a walk of the table that
\* ends in its status.
THEOREM HistoriesAreLegal == Spec => []HistoryIsLegalWalk
<1>1. Inv => HistoryIsLegalWalk  BY DEF Inv
<1> QED  BY LifecycleInvariant, <1>1, PTL

\* A task has a result exactly when it is completed.
THEOREM ResultsAreFinal == Spec => []ResultOnlyWhenCompleted
<1>1. Inv => ResultOnlyWhenCompleted  BY DEF Inv
<1> QED  BY LifecycleInvariant, <1>1, PTL

\* Every announced step was taken, once; every step taken is announced, in
\* flight, or was lost by an await that failed: for any number of coroutines.
THEOREM AnnouncementsAccounted == Spec => []EveryTransitionAccounted
<1>1. Inv => EveryTransitionAccounted  BY DEF Inv
<1> QED  BY LifecycleInvariant, <1>1, PTL
-----------------------------------------------------------------------------
(* TerminalIsFinal                                                         *)

\* The action of TerminalIsFinal, without the box.
TerminalKept ==
  \A t \in Tasks :
    task[t].status \in {"COMPLETED", "CANCELLED"} =>
      /\ task'[t].status = task[t].status
      /\ task'[t].result = task[t].result
      /\ task'[t].history = task[t].history

LEMMA TerminalKeptStep ==
  ASSUME TypeOK, Next
  PROVE  TerminalKept
<1>1. ASSUME NEW t \in Tasks, NEW new, CanTransition(t, new), NEW object,
             task' = [task EXCEPT ![t] = object]
      PROVE  TerminalKept
  <2>1. task[t].status \notin {"COMPLETED", "CANCELLED"}
    BY <1>1, CanTransitionLemma
  <2>2. \A u \in Tasks : u # t => task'[u] = task[u]
    BY <1>1 DEF TypeOK
  <2> QED  BY <2>1, <2>2 DEF TerminalKept
<1>2. CASE UNCHANGED task
  BY <1>2 DEF TerminalKept
<1>3. ASSUME NEW c \in Callers, NEW t \in Tasks, Operation(c, t)
      PROVE  TerminalKept
  <2>1. CASE \/ AssignTask(c, t)
             \/ \E rm \in Rooms :
                  StartTask(c, t, rm) \/ CompleteTask(c, t, rm) \/ FailTask(c, t, rm)
    BY <1>1, <2>1 DEF AssignTask, StartTask, CompleteTask, FailTask, MoveAndAnnounce
  <2>2. CASE \E notify \in BOOLEAN : CreateTask(c, t, notify)
    BY <1>2, <2>2 DEF CreateTask
  <2>3. CASE \E rm \in Rooms : \E p \in -1 .. Full + 1 : ReportProgress(c, t, rm, p)
    <3>1. PICK rm \in Rooms, p \in -1 .. Full + 1 : task' = [task EXCEPT ![t].progress = Clamp(p)]
      BY <2>3 DEF ReportProgress
    <3>2. \A u \in Tasks : /\ task'[u].status = task[u].status
                          /\ task'[u].result = task[u].result
                          /\ task'[u].history = task[u].history
      BY <3>1 DEF TypeOK
    <3> QED  BY <3>2 DEF TerminalKept
  <2> QED  BY <1>3, <2>1, <2>2, <2>3 DEF Operation
<1>4. ASSUME NEW t \in Tasks, Cancel(t) \/ GetTask(t) PROVE TerminalKept
  BY <1>1, <1>2, <1>4 DEF Cancel, GetTask
<1>5. ASSUME NEW r \in suspended, Resume(r) PROVE UNCHANGED task
  BY <1>5 DEF Resume, EnsureDmReturns, RoomSendReturns, AwaitRaises, Deliver, Drop
<1> QED
  BY <1>2, <1>3, <1>4, <1>5 DEF Next

\* Nothing reopens a completed or cancelled task.
THEOREM TerminalsAreFinal == Spec => TerminalIsFinal
<1>1. TypeOK /\ [Next]_vars => [TerminalKept]_vars
  BY TerminalKeptStep
<1> QED
  BY TypeCorrect, <1>1, PTL DEF Spec, TerminalIsFinal, TerminalKept
-----------------------------------------------------------------------------
(* A room's picture of a task                                              *)

\* Room rm was told the last step of t; its last notice shows t's progress.
Told(t, rm) == LastTold(t, rm) = Len(task[t].history)
Drawn(t, rm) == task[t].status # "COMPLETED" => Shows(t, rm) = task[t].progress

\* A suspended call is about to say all that room rm does not know yet.
SaysTheRest(r, rm) ==
  \/ r.kind = "task" /\ r.nth = Len(task[r.task].history) /\ Drawn(r.task, rm)
  \/ r.kind = "notice" /\ Told(r.task, rm) /\ r.progress = task[r.task].progress

\* RoomUpToDate speaks of the moments between calls.  During the only call on a
\* task, what its only room lacks is what that call is about to say.
LoneCallOf(t, rm) ==
  /\ \A r, q \in suspended : r.task = t /\ q.task = t => r = q
  /\ OnlyIn(t, rm) /\ dropped[t] = {} /\ task[t].status # "CANCELLED" =>
       /\ (\A r \in suspended : r.task # t) => Told(t, rm) /\ Drawn(t, rm)
       /\ \A r \in suspended : r.task = t => SaysTheRest(r, rm)

LoneCall == \A t \in Tasks \ overlapped, rm \in Rooms : LoneCallOf(t, rm)

\* A step that does not touch a task leaves its part of LoneCall alone.
Untouched(t) ==
  /\ task'[t] = task[t] /\ timeline'[t] = timeline[t]
  /\ shown'[t] = shown[t] /\ dropped'[t] = dropped[t]
  /\ \A r : r.task = t => (r \in suspended' <=> r \in suspended)

LEMMA UntouchedKeeps ==
  ASSUME NEW t, NEW rm, LoneCallOf(t, rm), Untouched(t)
  PROVE  LoneCallOf(t, rm)'
<1>1. Told(t, rm)' <=> Told(t, rm)
  BY DEF Told, LastTold, Untouched
<1>2. Drawn(t, rm)' <=> Drawn(t, rm)
  BY DEF Drawn, Shows, Untouched
<1>3. ASSUME NEW r, r.task = t PROVE SaysTheRest(r, rm)' <=> SaysTheRest(r, rm)
  BY <1>1, <1>2, <1>3 DEF SaysTheRest, Untouched
<1> QED
  BY <1>1, <1>2, <1>3 DEF LoneCallOf, OnlyIn, Untouched

\* A call starts: unless another is under way, it is to say what it changed.
LEMMA CallStarts ==
  ASSUME LoneCall, NEW t \in Tasks, NEW call, call.task = t,
         suspended' = suspended \union {call},
         overlapped' = overlapped \union {u \in {call.task} : \E r \in suspended : r.task = u},
         \A u \in Tasks : u # t => task'[u] = task[u],
         UNCHANGED <<timeline, shown, dropped>>,
         \A rm \in Rooms :
           /\ LoneCallOf(t, rm) /\ OnlyIn(t, rm) /\ dropped[t] = {}
           /\ \A r \in suspended : r.task # t
           => SaysTheRest(call, rm)'
  PROVE  LoneCall'
<1> SUFFICES ASSUME NEW u \in Tasks, u \notin overlapped', NEW rm \in Rooms PROVE LoneCallOf(u, rm)'
  BY DEF LoneCall
<1>1. LoneCallOf(u, rm)
  BY DEF LoneCall
<1>2. CASE u # t
  <2>1. Untouched(u)
    BY <1>2 DEF Untouched
  <2> QED  BY <1>1, <2>1, UntouchedKeeps
<1>3. CASE u = t
  <2>1. \A r \in suspended : r.task # t
    BY <1>3
  <2>2. \A r \in suspended' : r.task = t => r = call
    BY <2>1
  <2>3. OnlyIn(t, rm)' <=> OnlyIn(t, rm)
    BY DEF OnlyIn
  <2>4. dropped'[t] = {} /\ OnlyIn(t, rm) => SaysTheRest(call, rm)'
    BY <1>1, <1>3, <2>1
  <2> QED  BY <1>3, <2>2, <2>3, <2>4 DEF LoneCallOf
<1> QED  BY <1>2, <1>3

\* A step of a task that suspends no call: only Cancel is one.
LEMMA RoomAfterCancel ==
  ASSUME Inv, LoneCall, NEW t \in Tasks, Cancel(t)
  PROVE  LoneCall'
<1> DEFINE object == Transitioned(t, "CANCELLED")
<1>1. /\ task' = [task EXCEPT ![t] = object]
      /\ UNCHANGED <<active, returned, suspended, timeline, shown, dropped, overlapped>>
  BY DEF Cancel
<1>2. object.status = "CANCELLED"
  BY TransitionedLemma DEF Inv, TASK_STATUSES
<1> HIDE DEF object
<1>3. task'[t].status = "CANCELLED" /\ \A u \in Tasks : u # t => task'[u] = task[u]
  BY <1>1, <1>2 DEF Inv, TypeOK
<1> SUFFICES ASSUME NEW u \in Tasks \ overlapped, NEW rm \in Rooms PROVE LoneCallOf(u, rm)'
  BY <1>1 DEF LoneCall
<1>4. LoneCallOf(u, rm)
  BY DEF LoneCall
<1>5. CASE u # t
  <2>1. Untouched(u)  BY <1>1, <1>3, <1>5 DEF Untouched
  <2> QED  BY <1>4, <2>1, UntouchedKeeps
<1>6. CASE u = t
  BY <1>1, <1>3, <1>4, <1>6 DEF LoneCallOf
<1> QED  BY <1>5, <1>6

\* A move records a step and suspends the call that announces it.
LEMMA RoomAfterMove ==
  ASSUME Inv, LoneCall, NEW c \in Callers, NEW t \in Tasks, NEW new, NEW room,
         NEW object \in TaskObjects, object.status = new,
         new = "COMPLETED" \/ object.progress = task[t].progress,
         object.history = Append(task[t].history, [from |-> task[t].status, to |-> new]),
         MoveAndAnnounce(c, t, new, room, object)
  PROVE  LoneCall'
<1> DEFINE n == Len(task[t].history)
<1>0. PICK call : call = StatusCall(c, t, room, new, n + 1)
  OBVIOUS
<1>1. /\ CanTransition(t, new) /\ task' = [task EXCEPT ![t] = object]
      /\ suspended' = suspended \union {call}
      /\ overlapped' = overlapped \union {u \in {call.task} : \E r \in suspended : r.task = u}
      /\ UNCHANGED <<timeline, shown, dropped>>
  BY <1>0 DEF MoveAndAnnounce, Suspend
<1>2. call.task = t /\ call.nth = n + 1 /\ call.kind = "task"
  BY <1>0 DEF StatusCall
<1>3. /\ task'[t] = object /\ Grown(t, new)
  BY <1>1, HistoryGrows DEF Inv
<1>4. /\ \A u \in Tasks : u # t => task'[u] = task[u]
      /\ Len(task'[t].history) = n + 1
  BY <1>3 DEF Grown
<1>5. task[t].status \notin {"COMPLETED", "CANCELLED"}
  BY <1>1, CanTransitionLemma DEF Inv
<1>6. ASSUME NEW rm \in Rooms, LoneCallOf(t, rm), OnlyIn(t, rm), dropped[t] = {},
             \A r \in suspended : r.task # t
      PROVE  SaysTheRest(call, rm)'
  <2>1. Drawn(t, rm)
    BY <1>5, <1>6 DEF LoneCallOf
  <2>2. Shows(t, rm) = task[t].progress
    BY <1>5, <2>1 DEF Drawn
  <2>3. Drawn(t, rm)'
    BY <1>1, <1>3, <2>2 DEF Drawn, Shows
  <2> QED  BY <1>2, <1>4, <2>3 DEF SaysTheRest
<1> QED
  BY <1>1, <1>2, <1>4, <1>6, CallStarts

LEMMA RoomAfterOperation ==
  ASSUME Inv, LoneCall, NEW c \in Callers, NEW t \in Tasks,
         \/ AssignTask(c, t)
         \/ \E rm \in Rooms : StartTask(c, t, rm) \/ CompleteTask(c, t, rm) \/ FailTask(c, t, rm)
  PROVE  LoneCall'
<1>1. TypeOK  BY DEF Inv
<1>2. ASSUME NEW new \in TASK_STATUSES, NEW room,
             MoveAndAnnounce(c, t, new, room, Transitioned(t, new))
      PROVE  LoneCall'
  BY <1>1, <1>2, TransitionedLemma, RoomAfterMove
<1>3. ASSUME NEW rm \in Rooms, CompleteTask(c, t, rm) PROVE LoneCall'
  <2> DEFINE moved == Transitioned(t, "COMPLETED")
             object == [moved EXCEPT !.result = TRUE, !.progress = Full]
  <2>1. /\ moved \in TaskObjects /\ moved.status = "COMPLETED"
        /\ moved.history = Append(task[t].history, [from |-> task[t].status, to |-> "COMPLETED"])
    BY <1>1, TransitionedLemma DEF TASK_STATUSES
  <2>2. MoveAndAnnounce(c, t, "COMPLETED", rm, object)
    BY <1>3 DEF CompleteTask
  <2> HIDE DEF moved
  <2>3. object \in TaskObjects /\ object.status = moved.status /\ object.history = moved.history
    <3>1. TRUE \in BOOLEAN /\ Full \in 0 .. Full
      BY LifecycleAssumption
    <3> QED  BY <2>1, <3>1, CompletedLemma
  <2> HIDE DEF object
  <2> QED  BY <2>1, <2>2, <2>3, RoomAfterMove
<1>4. /\ AssignTask(c, t) => MoveAndAnnounce(c, t, "ASSIGNED", NoRoom, Transitioned(t, "ASSIGNED"))
      /\ \A rm : StartTask(c, t, rm) =>
           MoveAndAnnounce(c, t, "IN_PROGRESS", rm, Transitioned(t, "IN_PROGRESS"))
      /\ \A rm : FailTask(c, t, rm) =>
           MoveAndAnnounce(c, t, "FAILED", rm, Transitioned(t, "FAILED"))
  BY DEF AssignTask, StartTask, FailTask
<1>5. {"ASSIGNED", "IN_PROGRESS", "FAILED"} \subseteq TASK_STATUSES
  BY DEF TASK_STATUSES
<1> QED
  BY <1>2, <1>3, <1>4, <1>5

\* create_task announces a task nobody has touched.
LEMMA RoomAfterCreate ==
  ASSUME Inv, LoneCall, NEW c \in Callers, NEW t \in Tasks, NEW notify \in BOOLEAN,
         CreateTask(c, t, notify)
  PROVE  LoneCall'
<1> DEFINE call == StatusCall(c, t, NoRoom, "CREATED", 0)
<1>1. /\ t \notin active /\ UNCHANGED <<task, timeline, shown, dropped>>
  BY DEF CreateTask
<1>2. CASE UNCHANGED <<suspended, overlapped>>
  BY <1>1, <1>2, UntouchedKeeps DEF LoneCall, Untouched
<1>3. CASE /\ suspended' = suspended \union {call}
           /\ overlapped' = overlapped \union {u \in {call.task} : \E r \in suspended : r.task = u}
  <2>1. call.task = t /\ call.nth = 0 /\ call.kind = "task"
    BY DEF StatusCall
  <2> HIDE DEF call
  <2>2. task[t] = NewTask
    BY <1>1 DEF Inv, TypeOK, UnreturnedIsNew
  <2>3. Len(task[t].history) = 0 /\ task[t].status # "CANCELLED"
    BY <2>2 DEF NewTask
  <2>4. ASSUME NEW rm \in Rooms, LoneCallOf(t, rm), OnlyIn(t, rm), dropped[t] = {},
               \A r \in suspended : r.task # t
        PROVE  SaysTheRest(call, rm)'
    <3>1. Drawn(t, rm)  BY <2>3, <2>4 DEF LoneCallOf
    <3>2. Drawn(t, rm)'  BY <1>1, <3>1 DEF Drawn, Shows
    <3> QED  BY <1>1, <2>1, <2>3, <3>2 DEF SaysTheRest
  <2> QED  BY <1>1, <1>3, <2>1, <2>4, CallStarts
<1> QED
  BY <1>2, <1>3 DEF CreateTask, Suspend

\* report_progress changes the progress and suspends the notice that shows it.
LEMMA RoomAfterReport ==
  ASSUME Inv, LoneCall, NEW c \in Callers, NEW t \in Tasks, NEW rm \in Rooms,
         NEW p \in -1 .. Full + 1, ReportProgress(c, t, rm, p)
  PROVE  LoneCall'
<1> DEFINE call == NoticeCall(c, t, rm, Clamp(p))
<1>1. /\ task' = [task EXCEPT ![t].progress = Clamp(p)]
      /\ suspended' = suspended \union {call}
      /\ overlapped' = overlapped \union {u \in {call.task} : \E r \in suspended : r.task = u}
      /\ UNCHANGED <<timeline, shown, dropped>>
  BY DEF ReportProgress, Suspend
<1>2. call.task = t /\ call.kind = "notice" /\ call.progress = Clamp(p)
  BY DEF NoticeCall
<1> HIDE DEF call
<1>3. /\ \A u \in Tasks : u # t => task'[u] = task[u]
      /\ task'[t].progress = Clamp(p) /\ task'[t].history = task[t].history
      /\ task'[t].status = task[t].status
  BY <1>1 DEF Inv, TypeOK
<1>4. CASE task[t].status = "CANCELLED"
  <2> SUFFICES ASSUME NEW u \in Tasks, u \notin overlapped', NEW sm \in Rooms PROVE LoneCallOf(u, sm)'
    BY DEF LoneCall
  <2>1. LoneCallOf(u, sm)
    BY <1>1 DEF LoneCall
  <2>2. CASE u # t
    <3>1. Untouched(u)  BY <1>1, <1>2, <1>3, <2>2 DEF Untouched
    <3> QED  BY <2>1, <3>1, UntouchedKeeps
  <2>3. CASE u = t
    BY <1>1, <1>2, <1>3, <1>4, <2>3 DEF LoneCallOf
  <2> QED  BY <2>2, <2>3
<1>5. CASE task[t].status # "CANCELLED"
  <2>1. ASSUME NEW sm \in Rooms, LoneCallOf(t, sm), OnlyIn(t, sm), dropped[t] = {},
               \A r \in suspended : r.task # t
        PROVE  SaysTheRest(call, sm)'
    <3>1. Told(t, sm)  BY <1>5, <2>1 DEF LoneCallOf
    <3>2. Told(t, sm)'  BY <1>1, <1>3, <3>1 DEF Told, LastTold
    <3> QED  BY <1>2, <1>3, <3>2 DEF SaysTheRest
  <2> QED  BY <1>1, <1>2, <1>3, <2>1, CallStarts
<1> QED
  BY <1>4, <1>5

LEMMA RoomAfterEnsureDm ==
  ASSUME Inv, LoneCall, NEW r \in suspended, EnsureDmReturns(r)
  PROVE  LoneCall'
<1>0. PICK sm \in Rooms : suspended' = (suspended \ {r}) \union {[r EXCEPT !.room = sm]}
  BY DEF EnsureDmReturns
<1> DEFINE next == [r EXCEPT !.room = sm]
<1>1. /\ r.room = NoRoom /\ suspended' = (suspended \ {r}) \union {next}
      /\ UNCHANGED <<task, timeline, shown, dropped, overlapped>>
  BY <1>0 DEF EnsureDmReturns
<1>2. r \in StatusCalls
  BY <1>1, CallTypes, LifecycleAssumption DEF Inv
<1>3. next.task = r.task /\ next.kind = r.kind /\ next.nth = r.nth /\ r.kind = "task"
  BY <1>2 DEF StatusCalls
<1> HIDE DEF next
<1> SUFFICES ASSUME NEW t \in Tasks \ overlapped, NEW rm \in Rooms PROVE LoneCallOf(t, rm)'
  BY <1>1 DEF LoneCall
<1>4. LoneCallOf(t, rm)
  BY DEF LoneCall
<1>5. CASE t # r.task
  <2>1. Untouched(t)  BY <1>1, <1>3, <1>5 DEF Untouched
  <2> QED  BY <1>4, <2>1, UntouchedKeeps
<1>6. CASE t = r.task
  <2>1. \A q \in suspended' : q.task = t => q = next
    BY <1>1, <1>4, <1>6 DEF LoneCallOf
  <2>2. next \in suspended' /\ next.task = t
    BY <1>1, <1>3, <1>6
  <2>3. OnlyIn(t, rm) /\ dropped[t] = {} /\ task[t].status # "CANCELLED" => SaysTheRest(r, rm)
    BY <1>4, <1>6 DEF LoneCallOf
  <2>4. SaysTheRest(r, rm) => SaysTheRest(next, rm)'
    BY <1>1, <1>3 DEF SaysTheRest, Drawn, Shows
  <2> QED  BY <1>1, <2>1, <2>2, <2>3, <2>4 DEF LoneCallOf, OnlyIn
<1> QED  BY <1>5, <1>6

\* The call ends, and the room it was made for hears what it had to say.
LEMMA RoomAfterDeliver ==
  ASSUME Inv, LoneCall, NEW r \in suspended, Return(r) \/ Raise(r), Deliver(r)
  PROVE  LoneCall'
<1>1. /\ suspended' = suspended \ {r} /\ r.task \in Tasks /\ r.kind \in {"task", "notice"}
      /\ r.room \in Rooms
      /\ UNCHANGED <<task, dropped, overlapped>>
  BY CallEnds, CallTypes DEF Deliver, Inv
<1>2. /\ \A u \in Tasks : u # r.task => timeline'[u] = timeline[u] /\ shown'[u] = shown[u]
      /\ \A sm \in Rooms : sm # r.room => /\ timeline'[r.task][sm] = timeline[r.task][sm]
                                          /\ shown'[r.task][sm] = shown[r.task][sm]
      /\ r.kind = "notice" => /\ shown'[r.task][r.room] = r.progress /\ r.progress # NOTHING
                              /\ timeline'[r.task][r.room] = timeline[r.task][r.room]
      /\ r.kind = "task" => /\ LastTold(r.task, r.room)' = r.nth
                            /\ timeline'[r.task][r.room] # <<>>
                            /\ shown'[r.task][r.room] = shown[r.task][r.room]
  <2>1. CASE r.kind = "notice"
    <3>1. UNCHANGED timeline /\ shown' = [shown EXCEPT ![r.task][r.room] = r.progress]
      BY <2>1 DEF Deliver
    <3>2. r.progress # NOTHING
      BY <2>1, CallTypes, LifecycleAssumption DEF Inv, NoticeCalls, NOTHING
    <3>3. /\ \A u \in Tasks : u # r.task => shown'[u] = shown[u]
          /\ \A sm \in Rooms : sm # r.room => shown'[r.task][sm] = shown[r.task][sm]
          /\ shown'[r.task][r.room] = r.progress
      BY <1>1, <3>1 DEF Inv, TypeOK
    <3> QED  BY <2>1, <3>1, <3>2, <3>3
  <2>2. CASE r.kind = "task"
    <3> DEFINE old == timeline[r.task][r.room]
    <3>1. /\ timeline' \in [Tasks -> [Rooms -> Seq(Events)]] /\ Len(old) \in Nat
          /\ DOMAIN timeline'[r.task][r.room] = 1 .. Len(old) + 1
          /\ timeline'[r.task][r.room][Len(old) + 1] = [status |-> r.status, nth |-> r.nth]
          /\ \A sm \in Rooms : sm # r.room => timeline'[r.task][sm] = timeline[r.task][sm]
          /\ \A u \in Tasks : u # r.task => timeline'[u] = timeline[u]
      BY <2>2, DeliverTask
    <3>2. timeline'[r.task][r.room] \in Seq(Events)
      BY <1>1, <3>1
    <3> HIDE DEF old
    <3>3. Len(timeline'[r.task][r.room]) = Len(old) + 1
      BY <3>1, <3>2
    <3>4. timeline'[r.task][r.room] # <<>>
      BY <3>1, <3>3
    <3>5. LastTold(r.task, r.room)' = r.nth
      BY <3>1, <3>3, <3>4 DEF LastTold
    <3>6. UNCHANGED shown
      BY <2>2 DEF Deliver
    <3> QED  BY <2>2, <3>1, <3>4, <3>5, <3>6
  <2> QED  BY <1>1, <2>1, <2>2
<1> SUFFICES ASSUME NEW t \in Tasks \ overlapped, NEW rm \in Rooms PROVE LoneCallOf(t, rm)'
  BY <1>1 DEF LoneCall
<1>3. LoneCallOf(t, rm)
  BY DEF LoneCall
<1>4. CASE t # r.task
  <2>1. Untouched(t)  BY <1>1, <1>2, <1>4 DEF Untouched
  <2> QED  BY <1>3, <2>1, UntouchedKeeps
<1>5. CASE t = r.task /\ rm # r.room
  \* Room rm is not the only one any more.
  <2>1. ~OnlyIn(t, rm)'
    BY <1>1, <1>2, <1>5 DEF OnlyIn
  <2> QED  BY <1>1, <1>3, <2>1 DEF LoneCallOf
<1>6. CASE t = r.task /\ rm = r.room
  <2>1. \A q \in suspended' : q.task # t
    BY <1>1, <1>3, <1>6 DEF LoneCallOf
  <2>2. OnlyIn(t, rm)' => OnlyIn(t, rm)
    BY <1>2, <1>6 DEF OnlyIn
  <2>3. ASSUME SaysTheRest(r, rm) PROVE Told(t, rm)' /\ Drawn(t, rm)'
    <3>1. CASE r.kind = "task"
      <4>1. r.nth = Len(task[t].history) /\ Drawn(t, rm)
        BY <1>6, <2>3, <3>1 DEF SaysTheRest
      <4> QED  BY <1>1, <1>2, <1>6, <3>1, <4>1 DEF Told, Drawn, Shows
    <3>2. CASE r.kind = "notice"
      <4>1. Told(t, rm) /\ r.progress = task[t].progress
        BY <1>6, <2>3, <3>2 DEF SaysTheRest
      <4> QED  BY <1>1, <1>2, <1>6, <3>2, <4>1 DEF Told, LastTold, Drawn, Shows
    <3> QED  BY <1>1, <3>1, <3>2
  <2> QED  BY <1>1, <1>3, <1>6, <2>1, <2>2, <2>3 DEF LoneCallOf
<1> QED  BY <1>4, <1>5, <1>6

\* The call ends and its event is lost: LoneCall promises nothing of its task.
LEMMA RoomAfterDrop ==
  ASSUME Inv, LoneCall, NEW r \in suspended, Return(r) \/ Raise(r), Drop(r)
  PROVE  LoneCall'
<1>1. /\ suspended' = suspended \ {r} /\ r.task \in Tasks
      /\ dropped' = [dropped EXCEPT ![r.task] = @ \union {r.nth}]
      /\ UNCHANGED <<task, timeline, shown, overlapped>>
  BY CallEnds DEF Drop
<1>2. dropped'[r.task] # {} /\ \A u \in Tasks : u # r.task => dropped'[u] = dropped[u]
  BY <1>1 DEF Inv, TypeOK
<1> SUFFICES ASSUME NEW t \in Tasks \ overlapped, NEW rm \in Rooms PROVE LoneCallOf(t, rm)'
  BY <1>1 DEF LoneCall
<1>3. LoneCallOf(t, rm)
  BY DEF LoneCall
<1>4. CASE t # r.task
  <2>1. Untouched(t)  BY <1>1, <1>2, <1>4 DEF Untouched
  <2> QED  BY <1>3, <2>1, UntouchedKeeps
<1>5. CASE t = r.task
  BY <1>1, <1>2, <1>3, <1>5 DEF LoneCallOf
<1> QED  BY <1>4, <1>5

LEMMA RoomStep == Inv /\ LoneCall /\ [Next]_vars => LoneCall'
<1> SUFFICES ASSUME Inv, LoneCall, [Next]_vars PROVE LoneCall'
  OBVIOUS
<1>1. CASE \E c \in Callers, t \in Tasks : Operation(c, t)
  <2> SUFFICES ASSUME NEW c \in Callers, NEW t \in Tasks, Operation(c, t) PROVE LoneCall'
    BY <1>1
  <2> QED
    BY RoomAfterOperation, RoomAfterCreate, RoomAfterReport DEF Operation
<1>2. CASE \E t \in Tasks : Cancel(t) \/ GetTask(t)
  <2>1. CASE \E t \in Tasks : Cancel(t)
    BY <2>1, RoomAfterCancel
  <2>2. CASE \E t \in Tasks : GetTask(t)
    <3>1. UNCHANGED <<task, suspended, timeline, shown, dropped, overlapped>>
      BY <2>2 DEF GetTask
    <3> QED  BY <3>1, UntouchedKeeps DEF LoneCall, Untouched
  <2> QED  BY <1>2, <2>1, <2>2
<1>3. CASE \E r \in suspended : Resume(r)
  BY <1>3, RoomAfterEnsureDm, RoomAfterDeliver, RoomAfterDrop
     DEF Resume, RoomSendReturns, AwaitRaises
<1>4. CASE UNCHANGED vars
  BY <1>4, UntouchedKeeps DEF vars, LoneCall, Untouched
<1> QED
  BY <1>1, <1>2, <1>3, <1>4 DEF Next

LEMMA RoomInit == Init => LoneCall
  BY DEF Init, NewTask, LoneCall, LoneCallOf, Told, LastTold, Drawn, Shows

\* While the calls on a task take turns, no send fails and all of them name one
\* room, that room's last event and last notice are the task's status and
\* progress between the calls, whatever happens to other tasks in any room.
THEOREM RoomFollows == Spec => []RoomUpToDate
<1>1. Inv /\ LoneCall => RoomUpToDate
  BY DEF Inv, TypeOK, LoneCall, LoneCallOf, Told, Drawn, RoomUpToDate
<1> QED
  BY RoomInit, RoomStep, LifecycleInvariant, <1>1, PTL DEF Spec
-----------------------------------------------------------------------------
(* The refinement of TaskProtocol                                          *)

\* The refinement mapping: the statuses in a history, in order.
Steps(t) == [i \in 1 .. Len(task[t].history) |-> task[t].history[i].to]
Paths == [t \in Tasks |-> Steps(t)]
Tellings == [t \in Tasks |-> Delivered(t)]

LEMMA StepsLemma ==
  ASSUME TypeOK, NEW t \in Tasks
  PROVE  /\ Steps(t) \in Seq(TASK_STATUSES)
         /\ Len(Steps(t)) = Len(task[t].history) /\ Len(Steps(t)) \in Nat
         /\ \A i \in 1 .. Len(task[t].history) : Steps(t)[i] = task[t].history[i].to
<1> DEFINE n == Len(task[t].history)
<1>1. task[t].history \in Seq(Transitions)
  BY DEF TypeOK
<1>2. n \in Nat /\ \A i \in 1 .. n : task[t].history[i] \in Transitions
  BY <1>1, LenProperties, ElementOfSeq
<1>3. \A i \in 1 .. n : task[t].history[i].to \in TASK_STATUSES
  BY <1>2 DEF Transitions
<1>4. Steps(t) \in [1 .. n -> TASK_STATUSES]
  BY <1>3 DEF Steps
<1>5. Steps(t) \in Seq(TASK_STATUSES)
  BY <1>2, <1>4, SeqDef
<1>6. DOMAIN Steps(t) = 1 .. n
  BY DEF Steps
<1>7. Len(Steps(t)) = n
  BY <1>2, <1>5, <1>6, LenProperties
<1> QED
  BY <1>2, <1>5, <1>7 DEF Steps

\* Where the abstract task is, is the status of the Task object.
LEMMA CurrentLemma ==
  ASSUME TypeOK, HistoryIsLegalWalk, NEW t \in Tasks
  PROVE  (IF Steps(t) = <<>> THEN "CREATED" ELSE Steps(t)[Len(Steps(t))]) = task[t].status
<1>1. /\ Steps(t) \in Seq(TASK_STATUSES) /\ Len(Steps(t)) = Len(task[t].history)
      /\ Len(Steps(t)) \in Nat
      /\ \A i \in 1 .. Len(task[t].history) : Steps(t)[i] = task[t].history[i].to
  BY StepsLemma
<1>2. task[t].history \in Seq(Transitions)
  BY DEF TypeOK
<1>3. CASE task[t].history = <<>>
  <2>1. Steps(t) = <<>>  BY <1>1, <1>3
  <2> QED  BY <1>3, <2>1 DEF HistoryIsLegalWalk
<1>4. CASE task[t].history # <<>>
  <2>1. Len(task[t].history) \in 1 .. Len(task[t].history)  BY <1>2, <1>4
  <2>2. Steps(t) # <<>>  BY <1>1, <2>1
  <2> QED  BY <1>1, <1>4, <2>1, <2>2 DEF HistoryIsLegalWalk
<1> QED  BY <1>3, <1>4

\* A transition appends to the path.
LEMMA PathGrows ==
  ASSUME TypeOK, TypeOK', NEW t \in Tasks, NEW new \in TASK_STATUSES, Grown(t, new)
  PROVE  Paths' = [Paths EXCEPT ![t] = Append(@, new)]
<1> DEFINE n == Len(task[t].history)
<1>1. /\ \A u \in Tasks : u # t => task'[u] = task[u]
      /\ Len(task'[t].history) = n + 1
      /\ \A i \in 1 .. n : task'[t].history[i] = task[t].history[i]
      /\ task'[t].history[n + 1].to = new
  BY DEF Grown
<1>2. \A u \in Tasks : u # t => Steps(u)' = Steps(u)
  BY <1>1 DEF Steps
<1>3. Steps(t)' = Append(Steps(t), new)
  <2>1. /\ Steps(t) \in Seq(TASK_STATUSES) /\ Len(Steps(t)) = n /\ n \in Nat
        /\ \A i \in 1 .. n : Steps(t)[i] = task[t].history[i].to
    BY StepsLemma
  <2>2. /\ Append(Steps(t), new) \in Seq(TASK_STATUSES)
        /\ Len(Append(Steps(t), new)) = n + 1
        /\ \A i \in 1 .. n : Append(Steps(t), new)[i] = Steps(t)[i]
        /\ Append(Steps(t), new)[n + 1] = new
    BY <2>1, AppendProperties
  <2>3. /\ Steps(t)' \in Seq(TASK_STATUSES) /\ Len(Steps(t)') = n + 1
        /\ \A i \in 1 .. n + 1 : Steps(t)'[i] = task'[t].history[i].to
    <3>1. task'[t].history \in Seq(Transitions)
      BY DEF TypeOK
    <3>2. \A i \in 1 .. n + 1 : task'[t].history[i].to \in TASK_STATUSES
      <4>1. \A i \in 1 .. n + 1 : task'[t].history[i] \in Transitions
        BY <1>1, <3>1, ElementOfSeq
      <4> QED  BY <4>1 DEF Transitions
    <3>3. Steps(t)' = [i \in 1 .. n + 1 |-> task'[t].history[i].to]
      BY <1>1 DEF Steps
    <3>4. Steps(t)' \in [1 .. n + 1 -> TASK_STATUSES] /\ n + 1 \in Nat
      BY <2>1, <3>2, <3>3
    <3>5. Steps(t)' \in Seq(TASK_STATUSES)
      BY <3>4, SeqDef
    <3> QED  BY <3>3, <3>4, <3>5, LenProperties
  <2>4. \A i \in 1 .. n + 1 : i \in 1 .. n \/ i = n + 1
    BY <2>1
  <2>5. \A i \in 1 .. n + 1 : Steps(t)'[i] = Append(Steps(t), new)[i]
    BY <1>1, <2>1, <2>2, <2>3, <2>4
  <2> QED
    BY <2>2, <2>3, <2>5, SeqEqual
<1> QED
  BY <1>2, <1>3 DEF Paths

LEMMA InitRefines ==
  ASSUME Init
  PROVE  Protocol!Init
<1>1. \A t \in Tasks : Steps(t) = <<>>
  BY DEF Init, NewTask, Steps
<1>2. \A t \in Tasks : Delivered(t) = {}
  BY DEF Init, Delivered, Heard
<1> QED
  BY <1>1, <1>2 DEF Protocol!Init, Steps

\* Any transition of a returned task is a Move of the protocol.
LEMMA MoveRefines ==
  ASSUME Inv, Inv', NEW t \in Tasks, NEW new, CanTransition(t, new), Grown(t, new),
         UNCHANGED timeline
  PROVE  Protocol!Next
<1>1. TypeOK /\ TypeOK' /\ HistoryIsLegalWalk
  BY DEF Inv
<1>2. new \in TASK_STATUSES /\ new \in VALID_TRANSITIONS[task[t].status]
  BY <1>1, CanTransitionLemma DEF CanTransition
<1>3. Paths' = [Paths EXCEPT ![t] = Append(@, new)]
  BY <1>1, <1>2, PathGrows
<1>4. Tellings' = Tellings
  BY DEF Tellings, Delivered, Heard
<1>5. Protocol!Current(t) = task[t].status
  BY <1>1, CurrentLemma DEF Protocol!Current, Steps
<1>6. Protocol!Move(t)
  BY <1>2, <1>3, <1>4, <1>5 DEF Protocol!Move, Paths, Steps, Tellings
<1> QED
  BY <1>6 DEF Protocol!Next

\* The delivery of an announcement is a Tell of the protocol.
LEMMA TellRefines ==
  ASSUME Inv, NEW r \in suspended, r.kind = "task", Return(r) \/ Raise(r), Deliver(r)
  PROVE  Protocol!Next
<1> DEFINE t == r.task
           n == r.nth
<1>1. TypeOK
  BY DEF Inv
<1>2. t \in Tasks /\ n \in 0 .. MaxHistory /\ n \in InFlight(t)
  BY CallEnds
<1>3. /\ Delivered(t)' = Delivered(t) \union {n}
      /\ \A u \in Tasks : u # t => Delivered(u)' = Delivered(u)
  BY DeliverTask
<1>4. Tellings' = [Tellings EXCEPT ![t] = @ \union {n}]
  BY <1>2, <1>3 DEF Tellings
<1>5. Paths' = Paths
  BY DEF Deliver, Paths, Steps
<1>6. n \notin Tellings[t]
  BY <1>2 DEF Inv, EveryTransitionAccounted, Tellings
<1>7. /\ Len(Steps(t)) = Len(task[t].history) /\ Len(Steps(t)) \in Nat
      /\ \A i \in 1 .. Len(task[t].history) : Steps(t)[i] = task[t].history[i].to
  BY <1>1, <1>2, StepsLemma
<1>8. n # 0 => n <= Len(task[t].history) /\ task[t].history[n].to # "CANCELLED"
  BY DEF Inv, CallsMatchHistory
<1>9. n \in 0 .. Len(Steps(t))
  BY <1>2, <1>7, <1>8, LifecycleAssumption
<1>10. n # 0 => Steps(t)[n] \notin {"CANCELLED"}
  BY <1>2, <1>7, <1>8, LifecycleAssumption
<1> HIDE DEF t, n
<1>11. Paths[t] = Steps(t)
  BY <1>2 DEF Paths
<1>12. Protocol!Tell(t)
  BY <1>2, <1>4, <1>5, <1>6, <1>9, <1>10, <1>11 DEF Protocol!Tell, Paths, Steps, Tellings
<1> QED
  BY <1>2, <1>12 DEF Protocol!Next

LEMMA StutterRefines ==
  ASSUME UNCHANGED timeline, \A t \in Tasks : task'[t].history = task[t].history
  PROVE  UNCHANGED Protocol!vars
  BY DEF Protocol!vars, Delivered, Heard

LEMMA NextRefines ==
  ASSUME Inv, Inv', Next
  PROVE  Protocol!Next \/ UNCHANGED Protocol!vars
<1>1. TypeOK /\ HistoryIsLegalWalk
  BY DEF Inv
<1>2. ASSUME NEW c \in Callers, NEW t \in Tasks, Operation(c, t)
      PROVE  Protocol!Next \/ UNCHANGED Protocol!vars
  <2>1. ASSUME NEW new \in TASK_STATUSES, NEW room, NEW object \in TaskObjects,
               object.status = new,
               object.history = Append(task[t].history, [from |-> task[t].status, to |-> new]),
               MoveAndAnnounce(c, t, new, room, object)
        PROVE  Protocol!Next
    <3>1. /\ CanTransition(t, new) /\ task' = [task EXCEPT ![t] = object] /\ UNCHANGED timeline
      BY <2>1 DEF MoveAndAnnounce
    <3>2. Grown(t, new)
      BY <1>1, <2>1, <3>1, HistoryGrows
    <3> QED  BY <3>1, <3>2, MoveRefines
  <2>2. ASSUME NEW new \in TASK_STATUSES, NEW room,
               MoveAndAnnounce(c, t, new, room, Transitioned(t, new))
        PROVE  Protocol!Next
    <3> DEFINE object == Transitioned(t, new)
    <3>1. /\ object \in TaskObjects /\ object.status = new
          /\ object.history = Append(task[t].history, [from |-> task[t].status, to |-> new])
      BY <1>1, TransitionedLemma
    <3>2. MoveAndAnnounce(c, t, new, room, object)  BY <2>2
    <3> HIDE DEF object
    <3> QED  BY <2>1, <3>1, <3>2
  <2>3. ASSUME NEW rm \in Rooms, CompleteTask(c, t, rm) PROVE Protocol!Next
    <3> DEFINE moved == Transitioned(t, "COMPLETED")
               object == [moved EXCEPT !.result = TRUE, !.progress = Full]
    <3>1. /\ moved \in TaskObjects /\ moved.status = "COMPLETED"
          /\ moved.history = Append(task[t].history, [from |-> task[t].status, to |-> "COMPLETED"])
      BY <1>1, TransitionedLemma DEF TASK_STATUSES
    <3>2. MoveAndAnnounce(c, t, "COMPLETED", rm, object)
      BY <2>3 DEF CompleteTask
    <3> HIDE DEF moved
    <3>3. TRUE \in BOOLEAN /\ Full \in 0 .. Full
      BY LifecycleAssumption
    <3>4. object \in TaskObjects /\ object.status = moved.status /\ object.history = moved.history
      BY <3>1, <3>3, CompletedLemma
    <3>5. "COMPLETED" \in TASK_STATUSES
      BY DEF TASK_STATUSES
    <3> HIDE DEF object
    <3> QED  BY <2>1, <3>1, <3>2, <3>4, <3>5
  <2>4. ASSUME NEW rm \in Rooms, StartTask(c, t, rm) \/ FailTask(c, t, rm)
        PROVE  Protocol!Next
    <3>1. {"IN_PROGRESS", "FAILED"} \subseteq TASK_STATUSES
      BY DEF TASK_STATUSES
    <3> QED  BY <2>2, <2>4, <3>1 DEF StartTask, FailTask
  <2>5. CASE \E notify \in BOOLEAN : CreateTask(c, t, notify)
    BY <2>5, StutterRefines DEF CreateTask
  <2>6. CASE \E rm \in Rooms : \E p \in -1 .. Full + 1 : ReportProgress(c, t, rm, p)
    <3>1. PICK rm \in Rooms, p \in -1 .. Full + 1 : task' = [task EXCEPT ![t].progress = Clamp(p)]
      BY <2>6 DEF ReportProgress
    <3>2. \A u \in Tasks : task'[u].history = task[u].history
      BY <1>1, <3>1 DEF TypeOK
    <3>3. UNCHANGED timeline
      BY <2>6 DEF ReportProgress
    <3> QED  BY <3>2, <3>3, StutterRefines
  <2>7. CASE AssignTask(c, t)
    <3>1. "ASSIGNED" \in TASK_STATUSES
      BY DEF TASK_STATUSES
    <3> QED  BY <2>2, <2>7, <3>1 DEF AssignTask
  <2> QED  BY <1>2, <2>3, <2>4, <2>5, <2>6, <2>7 DEF Operation
<1>3. ASSUME NEW t \in Tasks, Cancel(t)
      PROVE  Protocol!Next
  <2> DEFINE object == Transitioned(t, "CANCELLED")
  <2>1. /\ CanTransition(t, "CANCELLED") /\ task' = [task EXCEPT ![t] = object]
        /\ UNCHANGED timeline
    BY <1>3 DEF Cancel
  <2>2. /\ object \in TaskObjects /\ object.status = "CANCELLED"
        /\ object.history = Append(task[t].history, [from |-> task[t].status, to |-> "CANCELLED"])
    BY <1>1, TransitionedLemma DEF TASK_STATUSES
  <2> HIDE DEF object
  <2>3. Grown(t, "CANCELLED")
    BY <1>1, <2>1, <2>2, HistoryGrows
  <2> QED  BY <2>1, <2>3, MoveRefines
<1>4. ASSUME NEW r \in suspended, Resume(r)
      PROVE  Protocol!Next \/ UNCHANGED Protocol!vars
  <2>1. UNCHANGED task
    BY <1>4 DEF Resume, EnsureDmReturns, RoomSendReturns, AwaitRaises, Deliver, Drop
  <2>2. CASE UNCHANGED timeline
    BY <2>1, <2>2, StutterRefines
  <2>3. CASE Deliver(r) /\ (Return(r) \/ Raise(r))
    <3>1. CASE r.kind = "task"
      BY <2>3, <3>1, TellRefines
    <3>2. CASE r.kind # "task"
      BY <2>1, <2>3, <3>2, StutterRefines DEF Deliver
    <3> QED  BY <3>1, <3>2
  <2> QED
    BY <1>4, <2>2, <2>3 DEF Resume, EnsureDmReturns, RoomSendReturns, AwaitRaises, Drop
<1>5. ASSUME NEW t \in Tasks, GetTask(t)
      PROVE  Protocol!Next \/ UNCHANGED Protocol!vars
  <2>1. UNCHANGED <<task, timeline>>
    BY <1>5 DEF GetTask
  <2> QED  BY <2>1, StutterRefines
<1> QED
  BY <1>2, <1>3, <1>4, <1>5 DEF Next

\* The agent implements TaskProtocol: however its coroutines interleave and
\* whichever awaits fail, a task takes one legal step at a time and some room is
\* told each step at most once and never before it was taken.
THEOREM Refinement == Spec => ImplementsProtocol
<1>1. Inv /\ Inv' /\ [Next]_vars => [Protocol!Next]_(Protocol!vars)
  <2> SUFFICES ASSUME Inv, Inv', [Next]_vars
               PROVE  Protocol!Next \/ UNCHANGED Protocol!vars
    OBVIOUS
  <2>1. CASE Next
    BY <2>1, NextRefines
  <2>2. CASE UNCHANGED vars
    BY <2>2, StutterRefines DEF vars
  <2> QED  BY <2>1, <2>2
<1> QED
  BY InitRefines, LifecycleInvariant, <1>1, PTL DEF Spec, ImplementsProtocol, Protocol!Spec
=============================================================================
