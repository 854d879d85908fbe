----------------------------- MODULE Directory -----------------------------
(***************************************************************************)
(* The rooms of the homeserver as the agents of src/amp_sdk.py use them:   *)
(* the room operations (461-502), the search for a direct room             *)
(* (_ensure_dm, 504-524), the publication of the agent's card              *)
(* (register_card, 966-1019), the discovery of agents (849-905) and the    *)
(* routing of a task to the best one (909-964).                            *)
(*                                                                         *)
(* A call of one of these takes a step per await, so the calls of all      *)
(* agents, and several of one agent, interleave.  The homeserver may       *)
(* answer any request with an error, and the client may raise.  A card is  *)
(* the capabilities it names; an agent's card may be another each time it  *)
(* is published or sent (module Negotiation has the exchange).             *)
(***************************************************************************)
EXTENDS Naturals, Sequences, FiniteSets

CONSTANTS
  Agents,        \* the agents, each with one DID and one user
  NoAgent,       \* what route_task returns when nobody fits
  Calls,         \* the slots for calls that wait at an await
  Capabilities,  \* what an agent may offer
  Cards,         \* [Agents -> SUBSET SUBSET Capabilities]: the cards of each agent
  Required,      \* task_spec["capabilities_required"]
  Preferred,     \* task_spec["capabilities_preferred"]
  Active,        \* bound: the agents that call; the others are only met
  Meetings,      \* bound: the pairs whose first may learn the card of the second
  Wants,         \* bound: the capabilities asked for, none or one
  MaxRooms       \* bound: rooms ever created

ASSUME DirectoryAssumption ==
  /\ NoAgent \notin Agents
  /\ Cards \in [Agents -> SUBSET SUBSET Capabilities]
  /\ Required \subseteq Capabilities /\ IsFiniteSet(Required)
  /\ Preferred \subseteq Capabilities /\ IsFiniteSet(Preferred)
  /\ Active \subseteq Agents
  /\ Meetings \subseteq Agents \X Agents
  /\ Wants \subseteq SUBSET Capabilities
  /\ MaxRooms \in Nat

VARIABLES
  rooms,     \* the homeserver's rooms, in order of creation
  peers,     \* Agent._peers: the cards an agent has, by DID
  call,      \* the calls at an await
  standing,  \* ghost: the rooms that have been the direct room a call looks
             \* for ever since it listed them, and were not refused to it
  renewed    \* ghost: the agents from which the caller got another card than
             \* the one a discovery had taken already
vars == <<rooms, peers, call, standing, renewed>>

Free == [stage |-> "free"]

\* What register_card puts into a room (992), and where discover_agents looks
\* for a card in a room's state (880).
Published == "card fields"
LookedFor == {"agent_card", "m.agent"}

Room(a, guests, public, topic) ==
  [owner |-> a, members |-> {a}, invited |-> guests, public |-> public,
   topic |-> topic, content |-> "none", card |-> {}]

-----------------------------------------------------------------------------
(* What the steps are built from.                                          *)

Joined(a) == {r \in DOMAIN rooms : a \in rooms[r].members}

\* A room that holds the two and nobody else.
IsPair(room, a, b) == room.members = {a, b}

\* The test of _ensure_dm (516).
IsDmWith(room, b) == Cardinality(room.members) = 2 /\ b \in room.members

\* What remains of `standing` when the rooms become rs.
StillStanding(rs) ==
  [c \in Calls |-> {r \in standing[c] : IsPair(rs[r], call[c].by, call[c].with)}]

\* The public rooms whose topic names what is wanted (868-870).
Listed(want) == {r \in DOMAIN rooms : rooms[r].public /\ want \subseteq rooms[r].topic}

\* The peers' cards that name what is wanted (859-863, 1026-1031).
Matching(a, want) == [b \in {o \in DOMAIN peers[a] : want \subseteq peers[a][o]} |-> peers[a][b]]

\* The cards a reader of the room's state recognises (878-885).
CardsIn(room) == [a \in IF room.content \in LookedFor THEN {room.owner} ELSE {} |-> room.card]

\* More cards, of agents that are not among the results (884, 894).
Added(found, more) ==
  [b \in DOMAIN found \cup DOMAIN more |-> IF b \in DOMAIN found THEN found[b] ELSE more[b]]

\* _score_capability_match, in tenths of 1 / |Preferred|: 0.6 for the required
\* ones, all of which must be there, and 0.4 for the share of preferred ones.
Score(card) ==
  IF Required = {} /\ Preferred = {} THEN 5
  ELSE IF ~ Required \subseteq card THEN 0
  ELSE IF Preferred = {} THEN 10
  ELSE 6 * Cardinality(Preferred) + 4 * Cardinality(Preferred \cap card)

\* The loop of route_task keeps the first card that scores above all before it;
\* which of several best ones is first depends on the order of dictionaries.
Best(found) ==
  LET best == {b \in DOMAIN found : /\ Score(found[b]) > 0
                                    /\ \A o \in DOMAIN found : Score(found[o]) <= Score(found[b])}
  IN  IF best = {} THEN {NoAgent} ELSE best

-----------------------------------------------------------------------------
Init ==
  /\ rooms = <<>>
  /\ peers = [a \in Agents |-> <<>>]
  /\ call = [c \in Calls |-> Free]
  /\ standing = [c \in Calls |-> {}]
  /\ renewed = [c \in Calls |-> {}]

-----------------------------------------------------------------------------
(* The room operations, one request each.                                  *)

\* create_room with one member to invite, or none (461-486).
CreateRoom(a, guests) ==
  /\ Len(rooms) < MaxRooms
  /\ rooms' = Append(rooms, Room(a, guests \ {a}, FALSE, {}))
  /\ UNCHANGED <<peers, call, standing, renewed>>

SetMembers(r, members, invited) ==
  /\ rooms' = [rooms EXCEPT ![r].members = members, ![r].invited = invited]
  /\ standing' = StillStanding(rooms')

Admits(r, a) == rooms[r].public \/ a \in rooms[r].invited \cup rooms[r].members

\* join_room (488-492).
JoinRoom(a, r) ==
  /\ Admits(r, a)
  /\ SetMembers(r, rooms[r].members \cup {a}, rooms[r].invited \ {a})
  /\ UNCHANGED <<peers, call, renewed>>

\* leave_room (494-496).
LeaveRoom(a, r) ==
  /\ a \in rooms[r].members
  /\ SetMembers(r, rooms[r].members \ {a}, rooms[r].invited)
  /\ UNCHANGED <<peers, call, renewed>>

\* invite (498-502): the server refuses one who is there already.
Invite(a, r, b) ==
  /\ a \in rooms[r].members /\ b \notin rooms[r].members
  /\ SetMembers(r, rooms[r].members, rooms[r].invited \cup {b})
  /\ UNCHANGED <<peers, call, renewed>>

\* A discovery goes on, and has taken cards.
Walks(c) == call[c].stage \in {"walk", "read", "leave"}

\* A capability response arrives (370-378): the peer's card is stored, in the
\* place of one stored before; a discovery keeps the cards it took.
Meet(a, b, card) ==
  /\ peers' = [peers EXCEPT ![a] = Added([x \in {b} |-> card], @)]
  /\ renewed' = [c \in Calls |->
       renewed[c] \cup {x \in {b} : /\ Walks(c) /\ call[c].by = a
                                    /\ x \in DOMAIN call[c].found
                                    /\ call[c].found[x] # card}]
  /\ UNCHANGED <<rooms, call, standing>>

-----------------------------------------------------------------------------
(* send_message and send_file to a user: _ensure_dm, then the requests     *)
(* that send.                                                              *)

SetCall(c, record) == call' = [call EXCEPT ![c] = record]
Drop(c) == standing' = [standing EXCEPT ![c] = {}]

\* joined_rooms has answered (507-509).
SendTo(c, a, b) ==
  /\ call[c] = Free /\ a # b
  /\ SetCall(c, [stage |-> "look", by |-> a, with |-> b, todo |-> Joined(a), room |-> 0])
  /\ standing' = [standing EXCEPT ![c] = {r \in Joined(a) : IsPair(rooms[r], a, b)}]
  /\ UNCHANGED <<rooms, peers, renewed>>

\* Faulty variant: the first room decides.
RestAfterNone(todo, r) == {}

RestAfter(todo, r) == todo \ {r}

\* joined_members answers for one room (511-517); the server tells only members.
LookAt(c, r) ==
  /\ call[c].stage = "look" /\ r \in call[c].todo
  /\ \/ /\ call[c].by \in rooms[r].members
        /\ IsDmWith(rooms[r], call[c].with)
        /\ SetCall(c, [call[c] EXCEPT !.stage = "send", !.room = r])
        /\ Drop(c)
     \/ /\ call[c].by \in rooms[r].members
        /\ ~ IsDmWith(rooms[r], call[c].with)
        /\ SetCall(c, [call[c] EXCEPT !.todo = RestAfter(@, r)])
        /\ UNCHANGED standing
  /\ UNCHANGED <<rooms, peers, renewed>>

\* The answer is an error, and the room is passed over (513-514).
LookFails(c, r) ==
  /\ call[c].stage = "look" /\ r \in call[c].todo
  /\ SetCall(c, [call[c] EXCEPT !.todo = @ \ {r}])
  /\ standing' = [standing EXCEPT ![c] = @ \ {r}]
  /\ UNCHANGED <<rooms, peers, renewed>>

\* No room was right, and one is made (519-524).
CreateDm(c) ==
  /\ call[c].stage = "look" /\ call[c].todo = {}
  /\ Len(rooms) < MaxRooms
  /\ rooms' = Append(rooms, Room(call[c].by, {call[c].with}, FALSE, {}))
  /\ SetCall(c, [call[c] EXCEPT !.stage = "send", !.room = Len(rooms) + 1])
  /\ Drop(c)
  /\ UNCHANGED <<peers, renewed>>

\* The requests behind _ensure_dm are over (431-446, 612-643), or a request of
\* _ensure_dm raised, or its room was refused (481-483).
SendEnds(c) ==
  /\ call[c].stage \in {"look", "send"}
  /\ SetCall(c, Free)
  /\ Drop(c)
  /\ UNCHANGED <<rooms, peers, renewed>>

-----------------------------------------------------------------------------
(* register_card: each call publishes a new room.                          *)

\* Faulty variant: the answer is not tested, and the room may not be there.
RegisterCardUntested(c, a, card) ==
  /\ call[c] = Free
  /\ SetCall(c, [stage |-> "put", by |-> a, room |-> Len(rooms) + 1])
  /\ UNCHANGED <<rooms, peers, standing, renewed>>

\* The room is created, public and with the capabilities in its topic; when that
\* is refused nothing more is done (979-988).
RegisterCard(c, a, card) ==
  /\ call[c] = Free /\ Len(rooms) < MaxRooms
  /\ rooms' = Append(rooms, Room(a, {}, TRUE, card))
  /\ SetCall(c, [stage |-> "put", by |-> a, room |-> Len(rooms) + 1])
  /\ UNCHANGED <<peers, standing, renewed>>

\* room_put_state of the card as it is by now; an error answer is not looked at
\* (990-994).
PutCard(c, taken, card) ==
  /\ call[c].stage = "put" /\ card \in Cards[call[c].by]
  /\ rooms' = IF taken THEN [rooms EXCEPT ![call[c].room].content = Published,
                                          ![call[c].room].card = card] ELSE rooms
  /\ SetCall(c, [call[c] EXCEPT !.stage = "rules"])
  /\ UNCHANGED <<peers, standing, renewed>>

\* The join rules, which the room has had from its creation, are put, and its id
\* goes into a field that nothing reads (996-1001); or a put raises, which is
\* logged and forgotten (1003-1004).
PutEnds(c) ==
  /\ call[c].stage \in {"put", "rules"}
  /\ SetCall(c, Free)
  /\ UNCHANGED <<rooms, peers, standing, renewed>>

-----------------------------------------------------------------------------
(* route_task, and discover_agents within it: known peers, then a visit to *)
(* every listed room, then the peers again.                                *)

\* room_directory has answered: with a list, or with an error (866-867).
Discover(c, a, want) ==
  /\ call[c] = Free
  /\ \E todo \in {Listed(want), {}} :
       SetCall(c, [stage |-> "walk", by |-> a, want |-> want, todo |-> todo, room |-> 0,
                   found |-> Matching(a, want), seen |-> {}])
  /\ renewed' = [renewed EXCEPT ![c] = {}]
  /\ UNCHANGED <<rooms, peers, standing>>

\* The room is joined (874-875), also when the agent was in it before.
VisitJoin(c, r) ==
  /\ call[c].stage = "walk" /\ r \in call[c].todo
  /\ Admits(r, call[c].by)
  /\ SetMembers(r, rooms[r].members \cup {call[c].by}, rooms[r].invited \ {call[c].by})
  /\ SetCall(c, [call[c] EXCEPT !.stage = "read", !.room = r, !.todo = @ \ {r}])
  /\ UNCHANGED <<peers, renewed>>

\* The join is refused or raises (888-889).
VisitRefused(c, r) ==
  /\ call[c].stage = "walk" /\ r \in call[c].todo
  /\ SetCall(c, [call[c] EXCEPT !.todo = @ \ {r}])
  /\ UNCHANGED <<rooms, peers, standing, renewed>>

\* room_get_state answers, with the state or with an error (876-885).
VisitRead(c, answered) ==
  /\ call[c].stage = "read"
  /\ LET room == rooms[call[c].room] IN
       SetCall(c, IF answered
                  THEN [call[c] EXCEPT !.stage = "leave", !.found = Added(@, CardsIn(room)),
                                       !.seen = IF room.content = "none" THEN @ ELSE @ \cup {room.owner}]
                  ELSE [call[c] EXCEPT !.stage = "leave"])
  /\ UNCHANGED <<rooms, peers, standing, renewed>>

\* The room is left (886).
VisitLeave(c) ==
  /\ call[c].stage = "leave"
  /\ SetMembers(call[c].room, rooms[call[c].room].members \ {call[c].by},
                rooms[call[c].room].invited)
  /\ SetCall(c, [call[c] EXCEPT !.stage = "walk"])
  /\ UNCHANGED <<peers, renewed>>

\* A request of the visit fails: the walk goes on and the agent stays (888-889).
VisitRaises(c) ==
  /\ call[c].stage \in {"read", "leave"}
  /\ SetCall(c, [call[c] EXCEPT !.stage = "walk"])
  /\ UNCHANGED <<rooms, peers, standing, renewed>>

\* Faulty variant: no third step.
WithoutRegistry(found, a, want) == found

WithRegistry(found, a, want) == Added(found, Matching(a, want))

\* The peers once more (892-895, 1021-1031), and the choice of route_task.
Finish(c) ==
  /\ call[c].stage = "walk" /\ call[c].todo = {}
  /\ LET found == WithRegistry(call[c].found, call[c].by, call[c].want) IN
       \E b \in Best(found) :
         SetCall(c, [stage |-> "done", by |-> call[c].by, found |-> found,
                     seen |-> call[c].seen, answer |-> b])
  /\ UNCHANGED <<rooms, peers, standing, renewed>>

Return(c) ==
  /\ call[c].stage = "done"
  /\ SetCall(c, Free)
  /\ UNCHANGED <<rooms, peers, standing, renewed>>

-----------------------------------------------------------------------------
RoomOperation ==
  \E a \in Active :
    \/ \E b \in Active : CreateRoom(a, {b})
    \/ \E r \in DOMAIN rooms :
         JoinRoom(a, r) \/ LeaveRoom(a, r) \/ \E b \in Active : Invite(a, r, b)

CallStep(c) ==
  \/ \E a \in Active :
       \/ \E card \in Cards[a] : RegisterCard(c, a, card)
       \/ \E b \in Active : SendTo(c, a, b)
       \/ \E want \in Wants : Discover(c, a, want)
  \/ \E taken \in BOOLEAN, card \in UNION {Cards[a] : a \in Active} : PutCard(c, taken, card)
  \/ \E r \in DOMAIN rooms : LookAt(c, r) \/ LookFails(c, r) \/ VisitJoin(c, r) \/ VisitRefused(c, r)
  \/ \E answered \in BOOLEAN : VisitRead(c, answered)
  \/ CreateDm(c) \/ SendEnds(c) \/ PutEnds(c)
  \/ VisitLeave(c) \/ VisitRaises(c) \/ Finish(c) \/ Return(c)

Next ==
  \/ RoomOperation
  \/ \E pair \in Meetings : \E card \in Cards[pair[2]] : Meet(pair[1], pair[2], card)
  \/ \E c \in Calls : CallStep(c)
Spec == Init /\ [][Next]_vars

-----------------------------------------------------------------------------
(* Properties.                                                             *)

Rooms ==
  [owner : Agents, members : SUBSET Agents, invited : SUBSET Agents, public : BOOLEAN,
   topic : SUBSET Capabilities, content : {"none", Published}, card : SUBSET Capabilities]

\* Cards by DID.
Decks == UNION {[D -> SUBSET Capabilities] : D \in SUBSET Agents}

CallRecords ==
  {Free}
  \cup [stage : {"look", "send"}, by : Agents, with : Agents, todo : SUBSET DOMAIN rooms,
        room : {0} \cup DOMAIN rooms]
  \cup [stage : {"put", "rules"}, by : Agents, room : DOMAIN rooms]
  \cup [stage : {"walk"}, by : Agents, want : SUBSET Capabilities, todo : SUBSET DOMAIN rooms,
        room : {0} \cup DOMAIN rooms, found : Decks, seen : SUBSET Agents]
  \cup [stage : {"read", "leave"}, by : Agents, want : SUBSET Capabilities,
        todo : SUBSET DOMAIN rooms, room : DOMAIN rooms, found : Decks, seen : SUBSET Agents]
  \cup [stage : {"done"}, by : Agents, found : Decks, seen : SUBSET Agents,
        answer : Agents \cup {NoAgent}]

\* Types; and a call holds on to rooms that exist, its own room while it has one
\* (the room ids that cross the awaits of amp_sdk.py:504-524, 872-886, 981-1001).
DirectoryTypeOK ==
  /\ rooms \in Seq(Rooms)
  /\ peers \in [Agents -> Decks]
  /\ DOMAIN call = Calls /\ \A c \in Calls : call[c] \in CallRecords
  /\ standing \in [Calls -> SUBSET DOMAIN rooms]
  /\ renewed \in [Calls -> SUBSET Agents]

\* _ensure_dm creates a room only when none was there to be found: if a room
\* with exactly the two has existed ever since the call listed the rooms and
\* was not refused to it, the call uses a room of its list, whatever the others
\* create, join and leave between its requests (amp_sdk.py:511-524).
NoNeedlessRoom ==
  [][\A c \in Calls :
       (call[c].stage = "look" /\ call'[c].stage = "send" /\ rooms' # rooms)
         => standing[c] = {}]_vars

\* A card serves the task better than the answer does by the card it was scored by.
ServesBetter(card, answer, found) ==
  /\ Required \subseteq card
  /\ \/ answer = NoAgent
     \/ ~ Required \subseteq found[answer]
     \/ Cardinality(Preferred \cap card) > Cardinality(Preferred \cap found[answer])

\* route_task passes over no peer without cause: when it answers, no card that
\* the caller has by then and that matches the filter would serve the task better
\* than the card it answers with, cards that came during the walk through the
\* rooms included.  Excepted are agents whose card it had taken before they sent
\* another: these it scores by the old card (amp_sdk.py:859-863, 893-895, 909-964).
RouteServes ==
  [][\A c \in Calls :
       (call[c].stage = "walk" /\ call'[c].stage = "done") =>
         LET cards == Matching(call[c].by, call[c].want)
         IN  \A b \in DOMAIN cards \ renewed[c] :
               ~ ServesBetter(cards[b], call'[c].answer, call'[c].found)]_vars

\* "Discover agents across the ARMP network by capability. Searches: room topics,
\* room state events, known peers" (amp_sdk.py:852-855): an agent whose published
\* card a discovery has read is among its results.
PublishedIsFound ==
  \A c \in Calls : call[c].stage = "done" => call[c].seen \subseteq DOMAIN call[c].found
=============================================================================
