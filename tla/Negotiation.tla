----------------------------- MODULE Negotiation -----------------------------
(***************************************************************************)
(* Capability negotiation (amp_sdk.py): an agent sends its card to the     *)
(* room it has with a peer, the sync loop of every other member answers    *)
(* with that member's card, the sync loop of every member but the answerer *)
(* stores it among its peers, and the call polls the peers for a card.     *)
(*                                                                         *)
(* A message once sent may be handled by a member at any later time, in    *)
(* any order, any number of times or never: an invited one may join late   *)
(* or not at all or leave, room_send's error answer is not looked at, a    *)
(* handler that raises drops the rest of its batch, and an agent that is   *)
(* started again reads its rooms anew (SyncLoop).                          *)
(*                                                                         *)
(* An agent, its user id and the DID in its card are one here.             *)
(***************************************************************************)
EXTENDS Integers, Sequences, FiniteSets

CONSTANTS
  Agents,
  Rooms,
  Calls,       \* the calls of negotiate
  MaxMembers,  \* bound on the members of all rooms when one more is invited
  MaxVersion,  \* bound on the changes of one agent's card
  MaxPolls     \* 20 in the code

ASSUME NegotiationAssumption ==
  /\ MaxMembers \in Nat
  /\ MaxVersion \in Nat \ {0}
  /\ MaxPolls \in Nat \ {0}

VARIABLES
  card,    \* card[a]: how many capabilities _card has, 0 when it is None
  peers,   \* peers[a]: _peers in the order of the dict, of [did, version]
  members, \* members[r]: who made r and who was ever invited to it
  sent,    \* every request and response that was sent
  call     \* call[c]: the state of one call of negotiate

vars == <<card, peers, members, sent, call>>

Cards == [did : Agents, version : 1 .. MaxVersion]

Messages == [kind : {"request", "response"}, room : Rooms, from : Agents,
             id : Calls, card : Cards]

NoCall == [phase |-> "none"]

Init ==
  /\ card = [a \in Agents |-> 0]
  /\ peers = [a \in Agents |-> <<>>]
  /\ members = [r \in Rooms |-> {}]
  /\ sent = {}
  /\ call = [c \in Calls |-> NoCall]

CardOf(a) == [did |-> a, version |-> card[a]]

\* set_capability: the first call makes the card, every call adds to it.
SetCapability(a) ==
  /\ card[a] < MaxVersion
  /\ card' = [card EXCEPT ![a] = @ + 1]
  /\ UNCHANGED <<peers, members, sent, call>>

\* A member invites a third agent to a room.
Invite(r, a) ==
  /\ members[r] # {} /\ a \notin members[r]
  /\ Cardinality({x \in Rooms \X Agents : x[2] \in members[x[1]]}) < MaxMembers
  /\ members' = [members EXCEPT ![r] = @ \union {a}]
  /\ UNCHANGED <<card, peers, sent, call>>
-----------------------------------------------------------------------------
(* negotiate                                                               *)

\* Identifiers mean nothing, so that each new one is the next that is not in use.
NewCall == CHOOSE c \in Calls : call[c].phase = "none"
NewRoom == CHOOSE r \in Rooms : members[r] = {}

\* Up to the await of _ensure_dm.  Without a card it raises and nothing changes.
Negotiate(c, a, p) ==
  /\ call[c].phase = "none" /\ c = NewCall
  /\ p # a
  /\ card[a] > 0
  /\ call' = [call EXCEPT ![c] = [phase |-> "room", agent |-> a, peer |-> p, polls |-> 0]]
  /\ UNCHANGED <<card, peers, members, sent>>

Raised(k) == [phase |-> "raised", agent |-> k.agent, peer |-> k.peer]

\* _ensure_dm: a room with the two (and others, if they are not in it yet or have
\* left it), or a new one, whether or not such a room stands.
EnsureDm(a, p, r) ==
  \/ {a, p} \subseteq members[r] /\ UNCHANGED members
  \/ members[r] = {} /\ r = NewRoom /\ members' = [members EXCEPT ![r] = {a, p}]

\* The request goes out to the room, with the call as its request_id; room_send
\* may raise when the homeserver has taken it.
SendRequest(c, r) ==
  /\ call[c].phase = "room"
  /\ EnsureDm(call[c].agent, call[c].peer, r)
  /\ sent' = sent \union
       {[kind |-> "request", room |-> r, from |-> call[c].agent, id |-> c,
         card |-> CardOf(call[c].agent)]}
  /\ call' \in {[call EXCEPT ![c].phase = "polling"], [call EXCEPT ![c] = Raised(@)]}
  /\ UNCHANGED <<card, peers>>

\* _ensure_dm raises, or room_send when nothing was sent.
NoRoom(c) ==
  /\ call[c].phase = "room"
  /\ call' = [call EXCEPT ![c] = Raised(@)]
  /\ UNCHANGED <<card, peers, members, sent>>

Known(c) == peers[call[c].agent]

\* Half a second later there is a card: the first of _peers, whoever's it is.
Found(c) ==
  /\ call[c].phase = "polling"
  /\ Known(c) # <<>>
  /\ call' = [call EXCEPT ![c] =
       [phase |-> "done", agent |-> @.agent, peer |-> @.peer, result |-> Head(Known(c))]]
  /\ UNCHANGED <<card, peers, members, sent>>

Empty(c) == call[c].phase = "polling" /\ Known(c) = <<>>

\* Faulty variant: the empty polls are not counted.
WaitOn(c) == Empty(c) /\ UNCHANGED vars

\* Half a second later there is none, and polls are left.
NotFound(c) ==
  /\ Empty(c)
  /\ call[c].polls + 1 < MaxPolls
  /\ call' = [call EXCEPT ![c].polls = @ + 1]
  /\ UNCHANGED <<card, peers, members, sent>>

\* There is none at the last poll: the call raises.  An answer that comes later
\* is stored all the same.
GiveUp(c) ==
  /\ Empty(c)
  /\ call[c].polls + 1 = MaxPolls
  /\ call' = [call EXCEPT ![c] = Raised(@)]
  /\ UNCHANGED <<card, peers, members, sent>>
-----------------------------------------------------------------------------
(* The handlers of the sync loops                                          *)

\* self._peers[did] = card: a known did keeps its place in the dict.
Store(known, new) ==
  IF \E i \in DOMAIN known : known[i].did = new.did
  THEN [i \in DOMAIN known |-> IF known[i].did = new.did THEN new ELSE known[i]]
  ELSE Append(known, new)

\* Every member of a room gets a message but the one that sent it, whose loop
\* skips its own events.
Gets(a, m) == a \in members[m.room] /\ a # m.from

\* What a answers to request m, in the room it came from.
AnswerTo(m, a) ==
  [kind |-> "response", room |-> m.room, from |-> a, id |-> m.id, card |-> CardOf(a)]

\* Faulty variant: it also keeps the card that came with the request.
HandleRequestAndStore(m, a) ==
  /\ m.kind = "request" /\ Gets(a, m)
  /\ card[a] > 0
  /\ sent' = sent \union {AnswerTo(m, a)}
  /\ peers' = [peers EXCEPT ![a] = Store(@, m.card)]
  /\ UNCHANGED <<card, members, call>>

\* Faulty variant: it answers without a card.
HandleRequestWithoutCard(m, a) ==
  /\ m.kind = "request" /\ Gets(a, m)
  /\ sent' = sent \union {AnswerTo(m, a)}
  /\ UNCHANGED <<card, peers, members, call>>

\* _handle_cap_request: an agent without a card does not answer, and the
\* requester's card is not kept.
HandleRequest(m, a) ==
  /\ m.kind = "request" /\ Gets(a, m)
  /\ card[a] > 0
  /\ sent' = sent \union {AnswerTo(m, a)}
  /\ UNCHANGED <<card, peers, members, call>>

\* Faulty variant: an agent stores what it has answered itself.
HandleAnyResponse(m, a) ==
  /\ m.kind = "response" /\ a \in members[m.room]
  /\ peers' = [peers EXCEPT ![a] = Store(@, m.card)]
  /\ UNCHANGED <<card, members, sent, call>>

\* _handle_cap_response: whoever asked for it, and whether or not a call still
\* waits for it.
HandleResponse(m, a) ==
  /\ m.kind = "response" /\ Gets(a, m)
  /\ peers' = [peers EXCEPT ![a] = Store(@, m.card)]
  /\ UNCHANGED <<card, members, sent, call>>
-----------------------------------------------------------------------------
Step(c) ==
  (\E r \in Rooms : SendRequest(c, r)) \/ NoRoom(c) \/ Found(c) \/ NotFound(c) \/ GiveUp(c)

Next ==
  \/ \E a \in Agents : SetCapability(a)
  \/ \E r \in Rooms, a \in Agents : Invite(r, a)
  \/ \E c \in Calls, a, p \in Agents : Negotiate(c, a, p)
  \/ \E c \in Calls : Step(c)
  \/ \E m \in sent, a \in Agents : HandleRequest(m, a) \/ HandleResponse(m, a)

\* asyncio.sleep and the homeserver's answers end; that a message is ever
\* handled is not assumed.
Spec == Init /\ [][Next]_vars /\ \A c \in Calls : WF_vars(Step(c))
-----------------------------------------------------------------------------
(* Properties                                                              *)

CallStates ==
  {NoCall}
    \union [phase : {"room", "polling"}, agent : Agents, peer : Agents,
            polls : 0 .. MaxPolls - 1]
    \union [phase : {"raised"}, agent : Agents, peer : Agents]
    \union [phase : {"done"}, agent : Agents, peer : Agents, result : Cards]

TypeOK ==
  /\ card \in [Agents -> 0 .. MaxVersion]
  /\ peers \in [Agents -> Seq(Cards)]
  /\ members \in [Rooms -> SUBSET Agents]
  /\ sent \subseteq Messages
  /\ call \in [Calls -> CallStates]

\* The agents whose card may reach a: they were in a room with it in which
\* another agent has asked, a itself or a third.
Heard(a) ==
  {d \in Agents \ {a} :
     \E m \in sent : m.kind = "request" /\ m.from # d /\ {a, d} \subseteq members[m.room]}

\* A stored card is one that its agent really had, and that agent was in a room
\* with this one where somebody else asked; there is one card of an agent and
\* none of its own, whatever the order in which requests and answers are handled
\* by whatever members, and however often (amp_sdk.py:350-377).  The agent that
\* is asked does not get the card it is asked with.
PeersAreGenuine ==
  \A a \in Agents :
    /\ \A i \in DOMAIN peers[a] :
         /\ peers[a][i].version <= card[peers[a][i].did]
         /\ peers[a][i].did \in Heard(a)
    /\ \A i, j \in DOMAIN peers[a] : peers[a][i].did = peers[a][j].did => i = j

AskedIn(a, r) == \E m \in sent : m.kind = "request" /\ m.from = a /\ m.room = r

\* Every room that a has been in is a direct one, and the rooms it asked in are
\* rooms with p.
AskedOnly(a, p) ==
  \A r \in Rooms : a \in members[r] =>
    \E b \in Agents : members[r] \subseteq {a, b} /\ (AskedIn(a, r) => b = p)

\* An agent that only asked in direct rooms with one peer gets a card of that
\* peer, though other agents negotiate with it meanwhile and the poll takes any
\* card (amp_sdk.py:820-826).  A third member of a room would be answered by or
\* overheard: its card could be the first (amp_sdk.py:350-378).
OnePeerIsRight ==
  \A c \in Calls :
    (call[c].phase = "done" /\ AskedOnly(call[c].agent, call[c].peer))
      => call[c].result.did = call[c].peer

\* Every call returns or raises, though no message is ever handled.
NegotiationEnds ==
  \A c \in Calls : call[c].phase = "room" ~> call[c].phase \in {"done", "raised"}

\* What negotiate's docstring says (amp_sdk.py:794-796): it waits for the
\* response of the peer it was called with, and matches against that.
NegotiatedWithThePeer ==
  \A c \in Calls : call[c].phase = "done" => call[c].result.did = call[c].peer
=============================================================================
