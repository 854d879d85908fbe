---------------------------- MODULE TaskLifecycle ----------------------------
(***************************************************************************)
(* The task operations of the Python SDK (amp_sdk.py): the Task state      *)
(* machine and Agent.create_task, assign_task, start_task,                 *)
(* report_progress, complete_task and fail_task, called by several         *)
(* coroutines of one agent's event loop.                                   *)
(*                                                                         *)
(* An operation changes the Task object first and without an await, and    *)
(* then awaits _ensure_dm and room_send: between the change and the event  *)
(* other coroutines run, and either await may fail.  One action is the     *)
(* code up to the first await; a suspended call is a record of             *)
(* `suspended`, and each of its awaits ends in an action of its own.  An   *)
(* operation that Task.transition rejects returns False and changes        *)
(* nothing, so it is no step of the model.                                 *)
(***************************************************************************)
EXTENDS Integers, Sequences, TaskStates

CONSTANTS
  Tasks,      \* the task ids create_task may draw
  Callers,    \* the coroutines that use the agent
  Rooms,      \* the rooms a task's events may be sent to
  NoRoom,     \* no room: the call still waits for _ensure_dm
  Full,       \* progress 1.0, in units of progress
  MaxHistory  \* bound on a task's transitions: the code retries without one

ASSUME LifecycleAssumption == Full \in Nat \ {0} /\ MaxHistory \in Nat /\ NoRoom \notin Rooms

VARIABLES
  task,       \* task[t]: status, progress, result and history of the Task object
  active,     \* the keys of Agent._active_tasks
  returned,   \* the tasks create_task or get_task returned: the callers hold them
  suspended,  \* the calls waiting for an await, with the event they are to send
  timeline,   \* timeline[t][rm]: the m.agent.task events of t that room rm received
  shown,      \* shown[t][rm]: the progress in the last m.notice of t that rm received
  dropped,    \* ghost: positions of the history whose event will never arrive
  overlapped  \* ghost: the tasks two suspended calls ever shared

vars == <<task, active, returned, suspended, timeline, shown, dropped, overlapped>>

Transitions == [from : TASK_STATUSES, to : TASK_STATUSES]
Events == [status : TASK_STATUSES, nth : 0 .. MaxHistory]

\* A suspended call announces a status (position nth of the history, 0 for
\* the creation) or a progress, which has no place in the history.  Its event
\* goes to `room`: the caller's argument, or what _ensure_dm answers.
NOTICE == -1
NOTHING == -1  \* shown[t][rm] before the first notice
StatusCalls == [caller : Callers, task : Tasks, room : Rooms \union {NoRoom}, kind : {"task"},
                status : TASK_STATUSES, nth : 0 .. MaxHistory]
NoticeCalls == [caller : Callers, task : Tasks, room : Rooms, kind : {"notice"},
                nth : {NOTICE}, progress : 0 .. Full]

StatusCall(c, t, rm, s, n) ==
  [caller |-> c, task |-> t, room |-> rm, kind |-> "task", status |-> s, nth |-> n]
NoticeCall(c, t, rm, p) ==
  [caller |-> c, task |-> t, room |-> rm, kind |-> "notice", nth |-> NOTICE, progress |-> p]

\* The state of Task(...): the dataclass's defaults.
NewTask == [status |-> "CREATED", progress |-> 0, result |-> FALSE, history |-> <<>>]

Busy(c) == \E r \in suspended : r.caller = c

Init ==
  /\ task = [t \in Tasks |-> NewTask]
  /\ active = {}
  /\ returned = {}
  /\ suspended = {}
  /\ timeline = [t \in Tasks |-> [rm \in Rooms |-> <<>>]]
  /\ shown = [t \in Tasks |-> [rm \in Rooms |-> NOTHING]]
  /\ dropped = [t \in Tasks |-> {}]
  /\ overlapped = {}
-----------------------------------------------------------------------------
(* Task.transition                                                         *)

\* The test of Task.transition: is the new status a successor of the old one?
CanTransition(t, new) ==
  /\ new \in VALID_TRANSITIONS[task[t].status]
  /\ Len(task[t].history) < MaxHistory

\* The assignments of Task.transition.
Transitioned(t, new) ==
  [task[t] EXCEPT !.status  = new,
                  !.history = Append(@, [from |-> task[t].status, to |-> new])]

\* The coroutine awaits: _ensure_dm or directly room_send.
Suspend(call) ==
  /\ suspended' = suspended \union {call}
  /\ overlapped' = overlapped \union {t \in {call.task} : \E r \in suspended : r.task = t}

\* An operation that moves t to `new` and then announces the move in room rm.
MoveAndAnnounce(c, t, new, rm, object) ==
  /\ ~Busy(c)
  /\ t \in returned
  /\ CanTransition(t, new)
  /\ task' = [task EXCEPT ![t] = object]
  /\ Suspend(StatusCall(c, t, rm, new, Len(task[t].history) + 1))
  /\ UNCHANGED <<active, returned, timeline, shown, dropped>>
-----------------------------------------------------------------------------
(* The operations of Agent, up to their first await                        *)

\* create_task registers the task; with an assignee's user id it then
\* announces it, without one it returns at once.
CreateTask(c, t, notify) ==
  /\ ~Busy(c)
  /\ t \notin active
  /\ active' = active \union {t}
  /\ UNCHANGED <<task, timeline, shown, dropped>>
  /\ IF notify
     THEN Suspend(StatusCall(c, t, NoRoom, "CREATED", 0)) /\ UNCHANGED returned
     ELSE returned' = returned \union {t} /\ UNCHANGED <<suspended, overlapped>>

AssignTask(c, t) ==
  MoveAndAnnounce(c, t, "ASSIGNED", NoRoom, Transitioned(t, "ASSIGNED"))

\* From here on the caller names the room.
StartTask(c, t, rm) ==
  MoveAndAnnounce(c, t, "IN_PROGRESS", rm, Transitioned(t, "IN_PROGRESS"))

CompleteTask(c, t, rm) ==
  MoveAndAnnounce(c, t, "COMPLETED", rm,
    [Transitioned(t, "COMPLETED") EXCEPT !.result = TRUE, !.progress = Full])

\* Faulty variant: nobody is told of the failure.
FailSilently(c, t, rm) ==
  /\ ~Busy(c)
  /\ t \in returned
  /\ CanTransition(t, "FAILED")
  /\ task' = [task EXCEPT ![t] = Transitioned(t, "FAILED")]
  /\ UNCHANGED <<active, returned, suspended, timeline, shown, dropped, overlapped>>

FailTask(c, t, rm) ==
  MoveAndAnnounce(c, t, "FAILED", rm, Transitioned(t, "FAILED"))

\* Faulty variant: no lower end.
ClampAbove(p) == IF p > Full THEN Full ELSE p

\* max(0.0, min(1.0, progress))
Clamp(p) == IF p < 0 THEN 0 ELSE IF p > Full THEN Full ELSE p

\* Faulty variant: the notice shows the progress from before the report.
ReportOldProgress(c, t, rm, p) ==
  /\ ~Busy(c)
  /\ t \in returned
  /\ task' = [task EXCEPT ![t].progress = Clamp(p)]
  /\ Suspend(NoticeCall(c, t, rm, task[t].progress))
  /\ UNCHANGED <<active, returned, timeline, shown, dropped>>

\* report_progress clamps its argument and looks at no status.
ReportProgress(c, t, rm, p) ==
  /\ ~Busy(c)
  /\ t \in returned
  /\ task' = [task EXCEPT ![t].progress = Clamp(p)]
  /\ Suspend(NoticeCall(c, t, rm, Clamp(p)))
  /\ UNCHANGED <<active, returned, timeline, shown, dropped>>

\* The agent has no operation that cancels: a caller uses Task.transition,
\* which announces nothing.
Cancel(t) ==
  /\ t \in returned
  /\ CanTransition(t, "CANCELLED")
  /\ task' = [task EXCEPT ![t] = Transitioned(t, "CANCELLED")]
  /\ UNCHANGED <<active, returned, suspended, timeline, shown, dropped, overlapped>>

\* get_task hands out any registered task, also one whose create_task has not
\* returned, or raised.
GetTask(t) ==
  /\ t \in active
  /\ returned' = returned \union {t}
  /\ UNCHANGED <<task, active, suspended, timeline, shown, dropped, overlapped>>
-----------------------------------------------------------------------------
(* The awaits of a suspended call                                          *)

\* _ensure_dm answers with a room: the call goes on to room_send.
EnsureDmReturns(r) ==
  /\ r.room = NoRoom
  /\ \E rm \in Rooms : suspended' = (suspended \ {r}) \union {[r EXCEPT !.room = rm]}
  /\ UNCHANGED <<task, active, returned, timeline, shown, dropped, overlapped>>

\* The call returns; if it was create_task, its caller now holds the task.
Return(r) ==
  /\ suspended' = suspended \ {r}
  /\ returned' = returned \union {t \in {r.task} : r.nth = 0}

\* An exception ends the call.
Raise(r) ==
  /\ suspended' = suspended \ {r}
  /\ UNCHANGED returned

\* Faulty variant: the event is built from the task after the await.
DeliverCurrent(r) ==
  /\ r.room # NoRoom
  /\ IF r.kind = "task"
     THEN /\ timeline' = [timeline EXCEPT ![r.task][r.room] =
               Append(@, [status |-> task[r.task].status, nth |-> Len(task[r.task].history)])]
          /\ UNCHANGED shown
     ELSE /\ shown' = [shown EXCEPT ![r.task][r.room] = r.progress]
          /\ UNCHANGED timeline
  /\ UNCHANGED <<task, active, dropped, overlapped>>

\* The homeserver takes the event of r, for the room of r.
Deliver(r) ==
  /\ r.room # NoRoom
  /\ IF r.kind = "task"
     THEN /\ timeline' = [timeline EXCEPT ![r.task][r.room] =
                            Append(@, [status |-> r.status, nth |-> r.nth])]
          /\ UNCHANGED shown
     ELSE /\ shown' = [shown EXCEPT ![r.task][r.room] = r.progress]
          /\ UNCHANGED timeline
  /\ UNCHANGED <<task, active, dropped, overlapped>>

\* The event of r never reaches the homeserver.
Drop(r) ==
  /\ dropped' = [dropped EXCEPT ![r.task] = @ \union {r.nth}]
  /\ UNCHANGED <<task, active, timeline, shown, overlapped>>

\* room_send answers.  The operations do not look at the answer: they return
\* in the same way after a RoomSendError.
RoomSendReturns(r) == Return(r) /\ (Deliver(r) \/ (r.room # NoRoom /\ Drop(r)))

\* _ensure_dm raises, or room_send does, before or after the homeserver took
\* the event.
AwaitRaises(r) == Raise(r) /\ (Deliver(r) \/ Drop(r))
-----------------------------------------------------------------------------
Operation(c, t) ==
  \/ \E notify \in BOOLEAN : CreateTask(c, t, notify)
  \/ AssignTask(c, t)
  \/ \E rm \in Rooms :
       \/ StartTask(c, t, rm)
       \/ CompleteTask(c, t, rm)
       \/ FailTask(c, t, rm)
       \/ \E p \in -1 .. Full + 1 : ReportProgress(c, t, rm, p)

Resume(r) ==
  \/ EnsureDmReturns(r)
  \/ RoomSendReturns(r)
  \/ AwaitRaises(r)

Next ==
  \/ \E c \in Callers, t \in Tasks : Operation(c, t)
  \/ \E t \in Tasks : Cancel(t) \/ GetTask(t)
  \/ \E r \in suspended : Resume(r)

Spec == Init /\ [][Next]_vars
-----------------------------------------------------------------------------
(* Properties                                                              *)

TypeOK ==
  /\ task \in [Tasks -> [status : TASK_STATUSES, progress : 0 .. Full,
                         result : BOOLEAN, history : Seq(Transitions)]]
  /\ active \subseteq Tasks
  /\ returned \subseteq active
  /\ suspended \subseteq StatusCalls \union NoticeCalls
  /\ timeline \in [Tasks -> [Rooms -> Seq(Events)]]
  /\ shown \in [Tasks -> [Rooms -> NOTHING .. Full]]
  /\ dropped \in [Tasks -> SUBSET (NOTICE .. MaxHistory)]
  /\ overlapped \subseteq Tasks

\* The history of a task is a walk along VALID_TRANSITIONS from CREATED to the
\* task's status, whatever coroutines raced on the task (amp_sdk.py:128-141):
\* no operation slips a status in without its record, or a record the table
\* forbids.
HistoryIsLegalWalk ==
  \A t \in Tasks :
    LET h == task[t].history IN
      /\ \A i \in 1 .. Len(h) :
           /\ h[i].to \in VALID_TRANSITIONS[h[i].from]
           /\ h[i].from = IF i = 1 THEN "CREATED" ELSE h[i - 1].to
      /\ task[t].status = IF h = <<>> THEN "CREATED" ELSE h[Len(h)].to

\* A completed or cancelled task keeps its status, its result and its history
\* for good (amp_sdk.py:114,116): a late operation of another coroutine does
\* not reopen it.  Its progress is not covered: report_progress changes it.
TerminalIsFinal ==
  [][\A t \in Tasks :
       task[t].status \in {"COMPLETED", "CANCELLED"} =>
         /\ task'[t].status = task[t].status
         /\ task'[t].result = task[t].result
         /\ task'[t].history = task[t].history]_vars

\* A task has a result exactly when it is completed: no interleaving of
\* complete_task, fail_task and a retry leaves a result on a task that is not
\* COMPLETED, or completes one without a result.
ResultOnlyWhenCompleted ==
  \A t \in Tasks : task[t].result <=> task[t].status = "COMPLETED"

\* The positions of t's history that room rm, or some room, was told of.
Heard(t, rm) == {timeline[t][rm][i].nth : i \in DOMAIN timeline[t][rm]}
Delivered(t) == UNION {Heard(t, rm) : rm \in Rooms}
InFlight(t) == {r.nth : r \in {q \in suspended : q.kind = "task" /\ q.task = t}}
ToAnnounce(t) == {n \in 1 .. Len(task[t].history) : task[t].history[n].to # "CANCELLED"}

\* Every transition of a task except a cancellation is on its way to a room, or
\* in a room, or was dropped by a failed await, and only one of these: no status
\* is announced twice (in one room or in two) or before it was reached, and none
\* is forgotten.
EveryTransitionAccounted ==
  \A t \in Tasks :
    /\ (Delivered(t) \union InFlight(t) \union dropped[t]) \ {NOTICE, 0} = ToAnnounce(t)
    /\ Delivered(t) \intersect (InFlight(t) \union dropped[t]) = {}
    /\ InFlight(t) \intersect dropped[t] = {}
    /\ \A rm, sm \in Rooms : \A i \in DOMAIN timeline[t][rm], j \in DOMAIN timeline[t][sm] :
         timeline[t][rm][i].nth = timeline[t][sm][j].nth => rm = sm /\ i = j
    /\ \A rm \in Rooms : \A i \in DOMAIN timeline[t][rm] :
         LET event == timeline[t][rm][i] IN
           event.nth # 0 => event.status = task[t].history[event.nth].to

\* The position of the last status room rm was told, and the progress it shows.
LastTold(t, rm) ==
  IF timeline[t][rm] = <<>> THEN 0 ELSE timeline[t][rm][Len(timeline[t][rm])].nth
Shows(t, rm) == IF shown[t][rm] = NOTHING THEN 0 ELSE shown[t][rm]

\* Nothing of t was ever sent to a room other than rm.
OnlyIn(t, rm) == \A sm \in Rooms \ {rm} : timeline[t][sm] = <<>> /\ shown[t][sm] = NOTHING

\* If no two calls on a task ever overlapped, no send failed, and the callers and
\* _ensure_dm chose one room for all its events, then between calls that room's
\* picture of the task is the agent's own, unless the task was cancelled: the
\* last event names its status and the last notice its progress (a completion
\* shows none).  This is the discipline callers must keep: the operations change
\* the task before they send, and keep no note of the room (amp_sdk.py:666, 689,
\* 705-785), so that a room used earlier is left with an old picture.
RoomUpToDate ==
  \A t \in returned \ overlapped, rm \in Rooms :
    /\ OnlyIn(t, rm)
    /\ dropped[t] = {}
    /\ \A r \in suspended : r.task # t
    /\ task[t].status # "CANCELLED"
    => /\ LastTold(t, rm) = Len(task[t].history)
       /\ task[t].status # "COMPLETED" => Shows(t, rm) = task[t].progress

\* The abstract protocol's view of the state.
Protocol == INSTANCE TaskProtocol WITH
  Statuses     <- TASK_STATUSES,
  Initial      <- "CREATED",
  NextStatuses <- VALID_TRANSITIONS,
  Unannounced  <- {"CANCELLED"},
  path <- [t \in Tasks |-> [i \in 1 .. Len(task[t].history) |-> task[t].history[i].to]],
  told <- [t \in Tasks |-> Delivered(t)]

\* The agent implements TaskProtocol: histories grow one legal step at a time,
\* and some room is told each step at most once and never ahead of it.
ImplementsProtocol == Protocol!Spec
=============================================================================
