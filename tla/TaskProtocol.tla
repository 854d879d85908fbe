---------------------------- MODULE TaskProtocol ----------------------------
(***************************************************************************)
(* What the task lifecycle promises to the agents of a room, with nothing  *)
(* of how an agent keeps it: a task walks along the transition table, and  *)
(* each step of the walk is announced at most once, only after it was      *)
(* taken.  TaskLifecycle (one agent, several coroutines, sends that fail)  *)
(* is shown to implement it.                                               *)
(***************************************************************************)
EXTENDS Naturals, Sequences

CONSTANTS
  Tasks,           \* task ids
  Statuses,        \* the statuses of a task
  Initial,         \* the status a new task has
  NextStatuses,    \* NextStatuses[s]: the statuses that may follow s
  Unannounced      \* statuses nobody is told about

VARIABLES
  path,  \* path[t]: the statuses task t has moved to, in order
  told   \* told[t]: the positions of path[t] the room was told about (0: its creation)

vars == <<path, told>>

Current(t) == IF path[t] = <<>> THEN Initial ELSE path[t][Len(path[t])]

Init ==
  /\ path = [t \in Tasks |-> <<>>]
  /\ told = [t \in Tasks |-> {}]

\* A task takes one step of the transition table.
Move(t) ==
  /\ \E s \in NextStatuses[Current(t)] : path' = [path EXCEPT ![t] = Append(@, s)]
  /\ UNCHANGED told

\* The room learns one step that was taken and that it was not told about before.
Tell(t) ==
  /\ \E n \in (0 .. Len(path[t])) \ told[t] :
       /\ n # 0 => path[t][n] \notin Unannounced
       /\ told' = [told EXCEPT ![t] = @ \union {n}]
  /\ UNCHANGED path

Next == \E t \in Tasks : Move(t) \/ Tell(t)

Spec == Init /\ [][Next]_vars
=============================================================================
