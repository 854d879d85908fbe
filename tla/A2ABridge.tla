------------------------------ MODULE A2ABridge ------------------------------
(***************************************************************************)
(* A2ABridge (armp_a2a_bridge.py): A2A clients send and cancel tasks by    *)
(* JSON-RPC, ARMP agents announce their tasks' steps by Matrix events, and *)
(* both write one table.  Every Matrix event is broadcast to the task's    *)
(* event-stream clients by a coroutine of its own, which walks the list of *)
(* clients and awaits each write, while clients come and go.               *)
(*                                                                         *)
(* The ARMP side is TaskProtocol.  tasks/cancel sends it an event that it  *)
(* does nothing about (amp_sdk.py, _handle_task_event).                    *)
(***************************************************************************)
EXTENDS Integers, Sequences, FiniteSets, Functions, SequencesExt, TaskStates

CONSTANTS
  Tasks,
  Senders,        \* the message/send and message/stream requests
  Clients,        \* the event-stream requests
  MaxMoves,       \* bound on the steps of one task
  MaxBroadcasts   \* bound on the broadcasts that are going on at once

ASSUME A2ABridgeAssumption ==
  MaxMoves \in Nat /\ MaxBroadcasts \in Nat /\ IsFiniteSet(Clients)

VARIABLES
  path, told,  \* as in TaskProtocol
  table,       \* table[t]: the status of the bridge's A2ATask, "none" without one
  sending,     \* sending[s]: "idle", "over", or the task whose message is awaited
  listening,   \* _sse_clients: the lists of clients, of the tasks that have a list
  gone,        \* the clients whose connection is lost, listed still or not
  broadcasts   \* the coroutines of _broadcast_sse

Protocol == INSTANCE TaskProtocol WITH
  Statuses     <- TASK_STATUSES,
  Initial      <- "CREATED",
  NextStatuses <- VALID_TRANSITIONS,
  Unannounced  <- {"CANCELLED"}

streamVars == <<listening, gone, broadcasts>>
vars == <<path, told, table, sending, listening, gone, broadcasts>>

\* The coroutine that tells the clients of a task of a step: next is the place of
\* its iterator on the list, 0 before it has run.  Ghosts: the clients listed when
\* the step was announced, those written so far, and those who left the list
\* when the walk had passed them.
Broadcasts == [task : Tasks, step : 0 .. MaxMoves, next : 0 .. Cardinality(Clients) + 1,
               audience : SUBSET Clients, written : Seq(Clients), left : SUBSET Clients]

ClientsOf(t) == IF t \in DOMAIN listening THEN listening[t] ELSE <<>>

Listed(t) == Range(ClientsOf(t))

AtEnd(b) == b.next > Len(ClientsOf(b.task))

A2A_STATUSES == {"input-required", "working", "completed", "failed", "canceled"}

\* Faulty variant: the statuses that have another name only.
ARMP_TO_A2A_Renamed(s) ==
  CASE s \in {"CREATED", "ASSIGNED"} -> "input-required"
    [] s = "IN_PROGRESS"             -> "working"
    [] OTHER                         -> s

\* Faulty variant: an end is an end.
ARMP_TO_A2A_Ended(s) ==
  CASE s \in {"CREATED", "ASSIGNED"} -> "input-required"
    [] s = "IN_PROGRESS"             -> "working"
    [] OTHER                         -> "completed"

ARMP_TO_A2A(s) ==
  CASE s \in {"CREATED", "ASSIGNED"} -> "input-required"
    [] s = "IN_PROGRESS"             -> "working"
    [] s = "COMPLETED"               -> "completed"
    [] s = "FAILED"                  -> "failed"
    [] s = "CANCELLED"               -> "canceled"

Init ==
  /\ Protocol!Init
  /\ table = [t \in Tasks |-> "none"]
  /\ sending = [s \in Senders |-> "idle"]
  /\ listening = [t \in {} |-> <<>>]
  /\ gone = {}
  /\ broadcasts = {}

\* The ARMP agents: a task takes a step.
Move(t) ==
  /\ Len(path[t]) < MaxMoves
  /\ Protocol!Move(t)
  /\ UNCHANGED <<table, sending, streamVars>>
-----------------------------------------------------------------------------
(* The JSON-RPC requests                                                   *)

\* message/send and message/stream, up to the await of Matrix.
Send(s, t) ==
  /\ sending[s] = "idle"
  /\ sending' = [sending EXCEPT ![s] = t]
  /\ UNCHANGED <<path, told, table, streamVars>>

\* Matrix took the message: a new task replaces what the table has by now.
SendReturns(s) ==
  /\ sending[s] \in Tasks
  /\ table' = [table EXCEPT ![sending[s]] = "working"]
  /\ sending' = [sending EXCEPT ![s] = "over"]
  /\ UNCHANGED <<path, told, streamVars>>

SendRaises(s) ==
  /\ sending[s] \in Tasks
  /\ sending' = [sending EXCEPT ![s] = "over"]
  /\ UNCHANGED <<path, told, table, streamVars>>

\* tasks/cancel: whatever the status, and whether or not Matrix takes the event.
TasksCancel(t) ==
  /\ table[t] # "none"
  /\ table' = [table EXCEPT ![t] = "canceled"]
  /\ UNCHANGED <<path, told, sending, streamVars>>
-----------------------------------------------------------------------------
(* The event streams                                                       *)

\* The ARMP status of the n-th step of t.
StatusAt(t, n) == IF n = 0 THEN "CREATED" ELSE path[t][n]

\* armp_task_to_a2a: the bridge learns of a step of t, puts a new task into the
\* table whatever was there, and schedules a broadcast.
TaskUpdate(t) ==
  /\ Cardinality(broadcasts) < MaxBroadcasts
  /\ Protocol!Tell(t)
  /\ \E n \in told'[t] \ told[t] :
       /\ table' = [table EXCEPT ![t] = ARMP_TO_A2A(StatusAt(t, n))]
       /\ broadcasts' = broadcasts \union
            {[task |-> t, step |-> n, next |-> 0, audience |-> Listed(t),
              written |-> <<>>, left |-> {}]}
  /\ UNCHANGED <<sending, listening, gone>>

Goes(b, ahead) ==
  /\ broadcasts' = (broadcasts \ {b}) \union ahead
  /\ UNCHANGED <<path, told, table, sending, listening, gone>>

\* b gets the list of its task, an empty one if the task has none yet.
Start(b) ==
  /\ b.next = 0
  /\ Goes(b, IF b.task \in DOMAIN listening THEN {[b EXCEPT !.next = 1]} ELSE {})

\* Faulty variant: a lost connection ends the walk.
WriteUntilLost(b) ==
  /\ b.next > 0 /\ ~AtEnd(b)
  /\ LET c == ClientsOf(b.task)[b.next] IN
       Goes(b, IF c \in gone THEN {[b EXCEPT !.next = Cardinality(Clients) + 1]}
               ELSE {[b EXCEPT !.next = @ + 1, !.written = Append(@, c)]})

\* b writes the next client; a write to a lost connection raises, which is caught.
Write(b) ==
  /\ b.next > 0 /\ ~AtEnd(b)
  /\ LET c == ClientsOf(b.task)[b.next] IN
       Goes(b, {[b EXCEPT !.next = @ + 1,
                          !.written = IF c \in gone THEN @ ELSE Append(@, c)]})

WalkOver(b) == AtEnd(b) /\ Goes(b, {})

New(c) == c \notin gone /\ \A t \in Tasks : c \notin Listed(t)

Opens(c, t, clients) ==
  /\ New(c)
  /\ listening' = [u \in DOMAIN listening \union {t} |-> IF u = t THEN clients ELSE listening[u]]
  /\ UNCHANGED <<path, told, table, sending, gone, broadcasts>>

\* Faulty variant: a new client goes to the front.
ListenFirst(c, t) == Opens(c, t, <<c>> \o ClientsOf(t))

\* A client opens a stream.
Listen(c, t) == Opens(c, t, Append(ClientsOf(t), c))

Disconnect(c) ==
  /\ c \notin gone /\ ~New(c)
  /\ gone' = gone \union {c}
  /\ UNCHANGED <<path, told, table, sending, listening, broadcasts>>

\* The heartbeat to a lost client raises, or its handler is cancelled, and it is
\* removed.  The clients behind it move up, under the walks that have passed it.
Leave(c, t) ==
  /\ c \in gone
  /\ \E i \in DOMAIN ClientsOf(t) :
       /\ listening[t][i] = c
       /\ listening' = [listening EXCEPT ![t] = RemoveAt(@, i)]
       /\ broadcasts' =
            {[b EXCEPT !.left = IF b.task = t /\ i < b.next THEN @ \union {c} ELSE @]
               : b \in broadcasts}
  /\ UNCHANGED <<path, told, table, sending, gone>>
-----------------------------------------------------------------------------
Next ==
  \/ \E t \in Tasks : Move(t) \/ TasksCancel(t) \/ TaskUpdate(t)
  \/ \E s \in Senders : (\E t \in Tasks : Send(s, t)) \/ SendReturns(s) \/ SendRaises(s)
  \/ \E b \in broadcasts : Start(b) \/ Write(b) \/ WalkOver(b)
  \/ \E c \in Clients : Disconnect(c) \/ \E t \in Tasks : Listen(c, t) \/ Leave(c, t)

Spec == Init /\ [][Next]_vars
-----------------------------------------------------------------------------
(* Properties                                                              *)

TypeOK ==
  /\ table \in [Tasks -> A2A_STATUSES \union {"none"}]
  /\ sending \in [Senders -> Tasks \union {"idle", "over"}]
  /\ DOMAIN listening \subseteq Tasks
  /\ \A t \in DOMAIN listening : listening[t] \in Seq(Clients)
  /\ gone \subseteq Clients
  /\ broadcasts \subseteq Broadcasts

\* The table says completed or failed only of a task that did complete or fail,
\* whatever A2A clients sent or canceled meanwhile and in whatever order the
\* events came (armp_a2a_bridge.py:44-51, 364-371, 411, 470-477).
OutcomesAreGenuine ==
  \A t \in Tasks :
    /\ table[t] = "completed" => "COMPLETED" \in Range(path[t])
    /\ table[t] = "failed" => "FAILED" \in Range(path[t])

\* No broadcast writes a client twice, though the client may open its stream, and
\* others may leave, while it is going on (armp_a2a_bridge.py:307, 317, 492-494).
NobodyHearsTwice == \A b \in broadcasts : IsInjective(b.written)

\* Those who were listed when the step of b was announced and are connected still
\* have heard it by the end of the walk.
Reached(b) == AtEnd(b) => b.audience \ gone \subseteq Range(b.written)

\* Lost connections, and clients that come, keep no one from hearing a step; only
\* a client that leaves the list behind the walk does (armp_a2a_bridge.py:488-496).
StayingClientsHear == \A b \in broadcasts : b.left = {} => Reached(b)
=============================================================================
