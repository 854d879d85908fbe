---------------------------- MODULE MCDirectory ----------------------------
(* Values for TLC: one agent that publishes no card and meets two others,  *)
(* one with what the task requires, one whose card may be replaced by one  *)
(* with what the task prefers as well, or the other way round.             *)
(*                                                                         *)
(* To bound the states, a behaviour has calls of one kind: messages to     *)
(* users, with MaxRooms rooms, or publication and routing, with one room   *)
(* less.  Calls of the two kinds meet in the rooms alone, and what either  *)
(* does there the room operations do as well.  What is published is always *)
(* the better card: nothing of it but the topic is ever used.              *)
EXTENDS Directory, TLC

CONSTANTS a, b, d, need, wish

VARIABLE kind    \* bound: the kind of calls

MCCards == a :> {{need}} @@ b :> {} @@ d :> {{need}, {need, wish}}
MCWants == {{}, {need}}
MCMeetings == {<<b, a>>, <<b, d>>}

Stages == [messages |-> {"free", "look", "send"},
           routing |-> {"free", "put", "rules", "walk", "read", "leave", "done"}]

MCInit == Init /\ kind \in DOMAIN Stages

MCNext ==
  /\ Next
  /\ \A c \in Calls : call'[c].stage \in Stages[kind]
  /\ kind = "messages" => UNCHANGED peers
  /\ kind = "routing" => Len(rooms') < MaxRooms
  /\ \A r \in DOMAIN rooms' : {rooms'[r].topic, rooms'[r].card} \subseteq {{}, {need, wish}}
  /\ UNCHANGED kind

MCSpec == MCInit /\ [][MCNext]_<<vars, kind>>
=============================================================================
