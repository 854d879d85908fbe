-------------------------- MODULE NegotiationProofs --------------------------
(***************************************************************************)
(* Theorems about Negotiation, for all agents, rooms and calls: an agent   *)
(* keeps only genuine cards of agents it was in a room with where somebody *)
(* else asked, and one that only asked in direct rooms with one peer       *)
(* negotiates with that peer.                                              *)
(***************************************************************************)
EXTENDS Negotiation, SequenceTheorems, TLAPS

\* Somebody else than a asked in room r.
OtherAsked(r, a) == \E m \in sent : m.kind = "request" /\ m.room = r /\ m.from # a

\* What was sent comes from a member of its room, and a response answers another
\* member with a card its sender really had (amp_sdk.py:802-816, 358-368).
GenuineMessage(m) ==
  /\ m.from \in members[m.room]
  /\ m.kind = "response" =>
       /\ m.card.did = m.from
       /\ m.card.version <= card[m.from]
       /\ OtherAsked(m.room, m.from)

SentIsGenuine == \A m \in sent : GenuineMessage(m)

\* A result was one of the peers, and so was heard (amp_sdk.py:822-826).
ResultsWereHeard ==
  \A c \in Calls : call[c].phase = "done" => call[c].result.did \in Heard(call[c].agent)

\* The part of PeersAreGenuine about one agent, for a card list k.
GenuineFor(a, k) ==
  /\ \A i \in DOMAIN k : k[i].version <= card[k[i].did] /\ k[i].did \in Heard(a)
  /\ \A i, j \in DOMAIN k : k[i].did = k[j].did => i = j

\* Who makes a call has a card, and keeps one (amp_sdk.py:799-800).
CallersHaveCards == \A c \in Calls : call[c].phase # "none" => card[call[c].agent] > 0

Inv == TypeOK /\ PeersAreGenuine /\ SentIsGenuine /\ ResultsWereHeard /\ CallersHaveCards

\* The state of a call that has one of the given phases.
LEMMA CallFields ==
  ASSUME TypeOK, NEW c \in Calls
  PROVE  /\ call[c].phase # "none" => call[c].agent \in Agents /\ call[c].peer \in Agents
         /\ call[c].phase = "done" => call[c].result \in Cards
         /\ call[c].phase \in {"room", "polling"} =>
              call[c] \in [phase : {"room", "polling"}, agent : Agents,
                           peer : Agents, polls : 0 .. MaxPolls - 1]
  BY DEF TypeOK, CallStates, NoCall

\* Moving a call to another phase changes nothing else of it.
LEMMA PhaseChange ==
  ASSUME TypeOK, NEW c \in Calls, call[c].phase \in {"room", "polling"},
         NEW s \in {[call[c] EXCEPT !.phase = "polling"], Raised(call[c])}
  PROVE  /\ s \in CallStates
         /\ s.phase \in {"polling", "raised"}
         /\ s.agent = call[c].agent
         /\ s.peer = call[c].peer
  BY CallFields DEF CallStates, Raised

\* Nor does counting one more poll.
LEMMA PollCounts ==
  ASSUME TypeOK, NEW c \in Calls, call[c].phase = "polling",
         call[c].polls + 1 < MaxPolls
  PROVE  /\ [call[c] EXCEPT !.polls = @ + 1] \in CallStates
         /\ [call[c] EXCEPT !.polls = @ + 1].phase = "polling"
         /\ [call[c] EXCEPT !.polls = @ + 1].agent = call[c].agent
         /\ [call[c] EXCEPT !.polls = @ + 1].peer = call[c].peer
  BY CallFields, NegotiationAssumption DEF CallStates

\* Storing a genuine card keeps a list genuine (amp_sdk.py:377).
LEMMA StoreIsGenuine ==
  ASSUME NEW a \in Agents, NEW k \in Seq(Cards), NEW new \in Cards,
         GenuineFor(a, k), new.version <= card[new.did], new.did \in Heard(a)
  PROVE  Store(k, new) \in Seq(Cards) /\ GenuineFor(a, Store(k, new))
<1>1. CASE \E i \in DOMAIN k : k[i].did = new.did
  <2> DEFINE s == [i \in DOMAIN k |-> IF k[i].did = new.did THEN new ELSE k[i]]
  <2>1. Store(k, new) = s
    BY <1>1 DEF Store
  <2>2. DOMAIN k = 1 .. Len(k) /\ Len(k) \in Nat /\ \A i \in DOMAIN k : k[i] \in Cards
    BY LenProperties, ElementOfSeq
  <2>3. s \in [1 .. Len(k) -> Cards]
    BY <2>2
  <2>4. s \in Seq(Cards)
    BY <2>2, <2>3
  <2>5. DOMAIN s = DOMAIN k /\ \A i \in DOMAIN k : s[i].did = k[i].did
    OBVIOUS
  <2>6. \A i \in DOMAIN s : s[i].version <= card[s[i].did] /\ s[i].did \in Heard(a)
    BY DEF GenuineFor
  <2>7. \A i, j \in DOMAIN s : s[i].did = s[j].did => i = j
    BY <2>5 DEF GenuineFor
  <2> QED BY <2>1, <2>4, <2>6, <2>7 DEF GenuineFor
<1>2. CASE ~ \E i \in DOMAIN k : k[i].did = new.did
  <2> DEFINE s == Append(k, new)
  <2>1. Store(k, new) = s
    BY <1>2 DEF Store
  <2>2. /\ s \in Seq(Cards)
        /\ DOMAIN k = 1 .. Len(k)
        /\ DOMAIN s = 1 .. Len(k) + 1
        /\ Len(k) \in Nat
        /\ \A i \in DOMAIN k : s[i] = k[i]
        /\ s[Len(k) + 1] = new
    BY AppendProperties, LenProperties
  <2> HIDE DEF s
  <2>3. \A i \in DOMAIN s : i \in DOMAIN k \/ i = Len(k) + 1
    BY <2>2
  <2>4. \A i \in DOMAIN s : s[i].version <= card[s[i].did] /\ s[i].did \in Heard(a)
    BY <2>2, <2>3 DEF GenuineFor
  <2>5. \A i, j \in DOMAIN s : s[i].did = s[j].did => i = j
    BY <1>2, <2>2, <2>3 DEF GenuineFor
  <2> QED BY <2>1, <2>2, <2>4, <2>5 DEF GenuineFor
<1> QED BY <1>1, <1>2

\* What every step preserves: the messages, the members and the cards' versions.
Grown ==
  /\ sent \subseteq sent'
  /\ \A r \in Rooms : members[r] \subseteq members'[r]
  /\ \A a \in Agents : card[a] <= card'[a]

LEMMA HeardGrows ==
  ASSUME TypeOK, Grown, NEW a \in Agents
  PROVE  Heard(a) \subseteq Heard(a)'
<1> SUFFICES ASSUME NEW d \in Heard(a) PROVE d \in Heard(a)'
  OBVIOUS
<1>1. PICK m \in sent :
        d \in Agents \ {a} /\ m.kind = "request" /\ m.from # d /\ {a, d} \subseteq members[m.room]
  BY DEF Heard
<1>2. m.room \in Rooms
  BY <1>1 DEF TypeOK, Messages
<1>3. m \in sent' /\ {a, d} \subseteq members'[m.room]
  BY <1>1, <1>2 DEF Grown
<1> QED BY <1>1, <1>3 DEF Heard

\* Then what was genuine stays so.
LEMMA GenuineStays ==
  ASSUME TypeOK, TypeOK', Grown
  PROVE  /\ \A a \in Agents : peers'[a] = peers[a] =>
              (GenuineFor(a, peers[a]) => GenuineFor(a, peers[a])')
         /\ \A m \in sent : GenuineMessage(m) => GenuineMessage(m)'
<1>1. ASSUME NEW a \in Agents, peers'[a] = peers[a], GenuineFor(a, peers[a])
      PROVE  GenuineFor(a, peers[a])'
  <2>1. \A i \in DOMAIN peers[a] : peers[a][i] \in Cards
    BY ElementOfSeq, LenProperties DEF TypeOK
  <2>2. \A d \in Agents : card[d] \in Nat /\ card'[d] \in Nat
    BY NegotiationAssumption DEF TypeOK
  <2>3. Heard(a) \subseteq Heard(a)'
    BY HeardGrows
  <2> QED BY <1>1, <2>1, <2>2, <2>3 DEF GenuineFor, Grown, Cards
<1>2. ASSUME NEW m \in sent, GenuineMessage(m)
      PROVE  GenuineMessage(m)'
  <2>1. m.from \in Agents /\ m.room \in Rooms /\ m.card.version \in Nat
    BY DEF TypeOK, Messages, Cards
  <2>2. card[m.from] \in Nat /\ card'[m.from] \in Nat
    BY <2>1, NegotiationAssumption DEF TypeOK
  <2>3. OtherAsked(m.room, m.from) => OtherAsked(m.room, m.from)'
    BY DEF OtherAsked, Grown
  <2>4. m.from \in members'[m.room]
    BY <1>2, <2>1 DEF GenuineMessage, Grown
  <2>5. m.card.version <= card[m.from] => m.card.version <= card'[m.from]
    BY <2>1, <2>2 DEF Grown
  <2> QED BY <1>2, <2>3, <2>4, <2>5 DEF GenuineMessage
<1> QED BY <1>1, <1>2

\* The calls keep their makers, and a new result is a card of an agent asked.
CallsStay ==
  \A c \in Calls :
    /\ call[c].phase # "none" =>
         /\ call'[c].phase # "none"
         /\ call'[c].agent = call[c].agent
         /\ call'[c].peer = call[c].peer
    /\ call'[c].phase = "done" =>
         /\ call[c].phase # "none"
         /\ \/ call[c].phase = "done" /\ call'[c].result = call[c].result
            \/ call'[c].result.did \in Heard(call[c].agent)
    /\ call'[c].phase # "none" => card'[call'[c].agent] > 0

LEMMA CallResults ==
  ASSUME Inv, Grown, CallsStay
  PROVE  ResultsWereHeard'
<1> SUFFICES ASSUME NEW c \in Calls, call'[c].phase = "done"
             PROVE  (call[c].result.did \in Heard(call[c].agent))'
  BY DEF ResultsWereHeard
<1>1. /\ call[c].phase # "none"
      /\ call'[c].agent = call[c].agent
      /\ \/ call[c].phase = "done" /\ call'[c].result = call[c].result
         \/ call'[c].result.did \in Heard(call[c].agent)
  BY DEF CallsStay
<1>2. call[c].agent \in Agents
  BY <1>1, CallFields DEF Inv
<1>3. call'[c].result.did \in Heard(call[c].agent)
  BY <1>1 DEF Inv, ResultsWereHeard
<1>4. PICK a \in Agents : a = call[c].agent
  BY <1>2
<1>5. call'[c].result.did \in Heard(a)'
  BY <1>3, <1>4, HeardGrows DEF Inv
<1>6. call'[c].result.did \in {d \in Agents \ {call'[c].agent} :
        \E m \in sent' : m.kind = "request" /\ m.from # d
                        /\ {call'[c].agent, d} \subseteq members'[m.room]}
  BY <1>1, <1>4, <1>5 DEF Heard
<1> QED BY <1>1, <1>3, <1>6 DEF Heard

\* A step keeps Inv if what it stores, sends and returns is genuine.
LEMMA GenuineStep ==
  ASSUME Inv, TypeOK', Grown, CallsStay,
         \A a \in Agents : peers'[a] = peers[a] \/ GenuineFor(a, peers[a])',
         \A m \in sent' : m \in sent \/ GenuineMessage(m)'
  PROVE  Inv'
<1>0. TypeOK
  BY DEF Inv
<1>1. \A a \in Agents : GenuineFor(a, peers[a])
  BY DEF Inv, PeersAreGenuine, GenuineFor
<1>2. \A a \in Agents : GenuineFor(a, peers[a])'
  BY <1>0, <1>1, GenuineStays
<1>3. PeersAreGenuine'
  BY <1>2 DEF PeersAreGenuine, GenuineFor
<1>4. SentIsGenuine'
  BY <1>0, GenuineStays DEF Inv, SentIsGenuine
<1>5. ResultsWereHeard' /\ CallersHaveCards'
  BY CallResults DEF CallersHaveCards, CallsStay
<1> QED BY <1>3, <1>4, <1>5 DEF Inv

\* A step that only changes the phase of a call that is not over keeps Inv.
LEMMA PhaseStep ==
  ASSUME Inv, NEW c \in Calls, call[c].phase \in {"room", "polling"},
         NEW s \in CallStates, s.phase \notin {"none", "done"},
         s.agent = call[c].agent, s.peer = call[c].peer,
         call' = [call EXCEPT ![c] = s], UNCHANGED <<card, peers, members, sent>>
  PROVE  Inv'
<1>0. TypeOK
  BY DEF Inv
<1>1. TypeOK'
  BY <1>0 DEF TypeOK
<1>2. Grown
  BY <1>0, NegotiationAssumption DEF TypeOK, Grown
<1>3. CallsStay
  BY <1>0 DEF TypeOK, Inv, CallersHaveCards, CallsStay
<1> QED BY <1>1, <1>2, <1>3, GenuineStep

LEMMA InitInv == Init => Inv
<1> SUFFICES ASSUME Init PROVE Inv
  OBVIOUS
<1>1. TypeOK
  BY NegotiationAssumption DEF Init, TypeOK, CallStates
<1>2. \A c \in Calls : call[c].phase = "none"
  BY DEF Init, NoCall
<1>3. PeersAreGenuine /\ SentIsGenuine
  BY DEF Init, PeersAreGenuine, SentIsGenuine
<1>4. ResultsWereHeard /\ CallersHaveCards
  BY <1>2 DEF ResultsWereHeard, CallersHaveCards
<1> QED BY <1>1, <1>3, <1>4 DEF Inv

LEMMA StepInv == Inv /\ [Next]_vars => Inv'
<1> SUFFICES ASSUME Inv, [Next]_vars PROVE Inv'
  OBVIOUS
<1> USE NegotiationAssumption
<1>0. TypeOK
  BY DEF Inv
<1>1. ASSUME NEW a \in Agents, SetCapability(a) PROVE Inv'
  <2>1. TypeOK'
    BY <1>0, <1>1 DEF SetCapability, TypeOK
  <2>2. \A d \in Agents : card[d] <= card'[d]
    BY <1>0, <1>1 DEF SetCapability, TypeOK
  <2>3. Grown
    BY <1>1, <2>2 DEF SetCapability, Grown
  <2>4. CallsStay
    <3> SUFFICES ASSUME NEW c \in Calls, call[c].phase # "none"
                 PROVE  card'[call[c].agent] > 0
      BY <1>1 DEF SetCapability, CallsStay
    <3>1. call[c].agent \in Agents
      BY <1>0, CallFields
    <3>2. card[call[c].agent] > 0
      BY DEF Inv, CallersHaveCards
    <3> QED BY <1>0, <2>1, <2>2, <3>1, <3>2 DEF TypeOK
  <2> QED BY <1>1, <2>1, <2>3, <2>4, GenuineStep DEF SetCapability
<1>2. ASSUME NEW c \in Calls, NEW a \in Agents, NEW p \in Agents, Negotiate(c, a, p)
      PROVE  Inv'
  <2> DEFINE new == [phase |-> "room", agent |-> a, peer |-> p, polls |-> 0]
  <2>1. new \in CallStates
    BY DEF CallStates
  <2>2. call' = [call EXCEPT ![c] = new]
    BY <1>2 DEF Negotiate
  <2>3. new.phase = "room" /\ new.agent = a
    OBVIOUS
  <2> HIDE DEF new
  <2>4. TypeOK'
    BY <1>0, <1>2, <2>1, <2>2 DEF Negotiate, TypeOK
  <2>5. Grown
    BY <1>0, <1>2 DEF Negotiate, TypeOK, Grown
  <2>6. CallsStay
    BY <1>0, <1>2, <2>2, <2>3 DEF Negotiate, TypeOK, Inv, CallersHaveCards, CallsStay
  <2> QED BY <1>2, <2>4, <2>5, <2>6, GenuineStep DEF Negotiate
<1>11. ASSUME NEW r \in Rooms, NEW a \in Agents, Invite(r, a) PROVE Inv'
  <2>1. UNCHANGED <<card, peers, sent, call>>
        /\ members' = [members EXCEPT ![r] = @ \union {a}]
    BY <1>11 DEF Invite
  <2>2. TypeOK'
    BY <1>0, <2>1 DEF TypeOK
  <2>3. Grown
    BY <1>0, <2>1 DEF TypeOK, Grown
  <2>4. CallsStay
    BY <2>1 DEF Inv, CallersHaveCards, CallsStay
  <2> QED BY <2>1, <2>2, <2>3, <2>4, GenuineStep
<1>3. ASSUME NEW c \in Calls, NEW r \in Rooms, SendRequest(c, r) PROVE Inv'
  <2>1. PICK a \in Agents, p \in Agents : a = call[c].agent /\ p = call[c].peer
    BY <1>0, <1>3, CallFields DEF SendRequest
  <2> PICK m :
        m = [kind |-> "request", room |-> r, from |-> a, id |-> c, card |-> CardOf(a)]
    OBVIOUS
  <2>2. card[a] \in 1 .. MaxVersion
    <3>1. card[a] > 0
      BY <1>3, <2>1 DEF SendRequest, Inv, CallersHaveCards
    <3>2. card[a] \in 0 .. MaxVersion
      BY <1>0 DEF TypeOK
    <3> QED BY <3>1, <3>2
  <2>3. m \in Messages
    BY <2>2 DEF Messages, Cards, CardOf
  <2>4. sent' = sent \union {m}
    BY <1>3, <2>1 DEF SendRequest
  <2>5. m.kind = "request" /\ m.from = a /\ m.room = r
    OBVIOUS
  <2>6. PICK s \in {[call[c] EXCEPT !.phase = "polling"], Raised(call[c])} :
          call' = [call EXCEPT ![c] = s]
    BY <1>3 DEF SendRequest
  <2>7. s \in CallStates /\ s.phase \in {"polling", "raised"} /\ s.agent = a /\ s.peer = p
    BY <1>0, <1>3, <2>1, PhaseChange DEF SendRequest
  <2>8. /\ members' \in [Rooms -> SUBSET Agents]
        /\ \A q \in Rooms : members[q] \subseteq members'[q]
        /\ a \in members'[r]
    <3>1. \/ {a, p} \subseteq members[r] /\ UNCHANGED members
          \/ members[r] = {} /\ members' = [members EXCEPT ![r] = {a, p}]
      BY <1>3, <2>1 DEF SendRequest, EnsureDm
    <3> QED BY <1>0, <3>1 DEF TypeOK
  <2>9. UNCHANGED <<card, peers>> /\ call[c].phase = "room"
    BY <1>3 DEF SendRequest
  <2>10. TypeOK'
    BY <1>0, <2>3, <2>4, <2>6, <2>7, <2>8, <2>9 DEF TypeOK
  <2>11. Grown
    BY <1>0, <2>4, <2>8, <2>9 DEF TypeOK, Grown
  <2>12. CallsStay
    BY <1>0, <2>1, <2>2, <2>6, <2>7, <2>9 DEF TypeOK, Inv, CallersHaveCards, CallsStay
  <2>13. GenuineMessage(m)'
    BY <2>5, <2>8 DEF GenuineMessage
  <2> QED BY <2>4, <2>9, <2>10, <2>11, <2>12, <2>13, GenuineStep
<1>4. ASSUME NEW c \in Calls, NoRoom(c) PROVE Inv'
  <2>1. PICK s : s = Raised(call[c])
    OBVIOUS
  <2>2. /\ s \in CallStates
        /\ s.phase \in {"polling", "raised"}
        /\ s.agent = call[c].agent
        /\ s.peer = call[c].peer
    BY <1>0, <1>4, <2>1, PhaseChange DEF NoRoom
  <2>3. call' = [call EXCEPT ![c] = s] /\ UNCHANGED <<card, peers, members, sent>>
    BY <1>4, <2>1 DEF NoRoom
  <2> QED BY <1>4, <2>2, <2>3, PhaseStep DEF NoRoom
<1>5. ASSUME NEW c \in Calls, Found(c) PROVE Inv'
  <2>1. PICK a \in Agents, p \in Agents : a = call[c].agent /\ p = call[c].peer
    BY <1>0, <1>5, CallFields DEF Found
  <2>2. PICK r : r = Head(peers[a])
    OBVIOUS
  <2>3. peers[a] \in Seq(Cards) /\ peers[a] # <<>>
    BY <1>0, <1>5, <2>1 DEF TypeOK, Found, Known
  <2>4. r \in Cards /\ 1 \in DOMAIN peers[a] /\ r = peers[a][1]
    BY <2>2, <2>3, EmptySeq, LenProperties, ElementOfSeq
  <2>5. r.did \in Heard(a)
    BY <2>4 DEF Inv, PeersAreGenuine
  <2> DEFINE s == [phase |-> "done", agent |-> a, peer |-> p, result |-> r]
  <2>6. /\ s \in CallStates
        /\ s.phase = "done"
        /\ s.agent = a
        /\ s.peer = p
        /\ s.result = r
    BY <2>4 DEF CallStates
  <2>7. /\ call' = [call EXCEPT ![c] = s]
        /\ UNCHANGED <<card, peers, members, sent>>
        /\ call[c].phase = "polling"
    BY <1>5, <2>1, <2>2 DEF Found, Known
  <2> HIDE DEF s
  <2>8. TypeOK'
    BY <1>0, <2>6, <2>7 DEF TypeOK
  <2>9. Grown
    BY <1>0, <2>7 DEF TypeOK, Grown
  <2>10. CallsStay
    BY <1>0, <2>1, <2>5, <2>6, <2>7 DEF TypeOK, Inv, CallersHaveCards, CallsStay
  <2> QED BY <2>7, <2>8, <2>9, <2>10, GenuineStep
<1>6. ASSUME NEW c \in Calls, NotFound(c) PROVE Inv'
  <2>1. PICK s : s = [call[c] EXCEPT !.polls = @ + 1]
    OBVIOUS
  <2>2. call' = [call EXCEPT ![c] = s] /\ UNCHANGED <<card, peers, members, sent>>
    BY <1>6, <2>1 DEF NotFound
  <2>3. /\ s \in CallStates
        /\ s.phase = "polling"
        /\ s.agent = call[c].agent
        /\ s.peer = call[c].peer
    BY <1>0, <1>6, <2>1, PollCounts DEF NotFound, Empty
  <2> QED BY <1>6, <2>2, <2>3, PhaseStep DEF NotFound, Empty
<1>7. ASSUME NEW c \in Calls, GiveUp(c) PROVE Inv'
  <2>1. PICK s : s = Raised(call[c])
    OBVIOUS
  <2>2. /\ s \in CallStates
        /\ s.phase \in {"polling", "raised"}
        /\ s.agent = call[c].agent
        /\ s.peer = call[c].peer
    BY <1>0, <1>7, <2>1, PhaseChange DEF GiveUp, Empty
  <2>3. call' = [call EXCEPT ![c] = s] /\ UNCHANGED <<card, peers, members, sent>>
    BY <1>7, <2>1 DEF GiveUp
  <2> QED BY <1>7, <2>2, <2>3, PhaseStep DEF GiveUp, Empty
<1>8. ASSUME NEW m \in sent, NEW a \in Agents, HandleRequest(m, a) PROVE Inv'
  <2>1. m \in Messages /\ m.kind = "request" /\ a \in members[m.room] /\ m.from # a
    BY <1>0, <1>8 DEF HandleRequest, Gets, TypeOK
  <2>2. m.room \in Rooms /\ m.id \in Calls
    BY <2>1 DEF Messages
  <2>3. card[a] \in 1 .. MaxVersion
    BY <1>0, <1>8 DEF HandleRequest, TypeOK
  <2> PICK n : n = AnswerTo(m, a)
    OBVIOUS
  <2>4. /\ n \in Messages
        /\ n.from = a
        /\ n.room = m.room
        /\ n.card.did = a
        /\ n.card.version = card[a]
    BY <2>2, <2>3 DEF AnswerTo, Messages, Cards, CardOf
  <2>5. sent' = sent \union {n} /\ UNCHANGED <<card, peers, members, call>>
    BY <1>8 DEF HandleRequest
  <2>6. TypeOK'
    BY <1>0, <2>4, <2>5 DEF TypeOK
  <2>7. Grown
    BY <1>0, <2>5, NegotiationAssumption DEF TypeOK, Grown
  <2>8. CallsStay
    BY <2>5 DEF Inv, CallersHaveCards, CallsStay
  <2>9. OtherAsked(n.room, n.from)'
    BY <2>1, <2>4, <2>5 DEF OtherAsked
  <2>10. GenuineMessage(n)'
    BY <2>1, <2>3, <2>4, <2>5, <2>9 DEF GenuineMessage
  <2> QED BY <2>5, <2>6, <2>7, <2>8, <2>10, GenuineStep
<1>9. ASSUME NEW m \in sent, NEW a \in Agents, HandleResponse(m, a) PROVE Inv'
  <2>1. m \in Messages /\ GenuineMessage(m) /\ m.kind = "response"
        /\ a \in members[m.room] /\ a # m.from
    BY <1>0, <1>9 DEF HandleResponse, Gets, TypeOK, Inv, SentIsGenuine
  <2>2. PICK d \in Agents : d = m.from /\ m.card \in Cards
    BY <2>1 DEF Messages
  <2>3. m.card.did = d /\ m.card.version <= card[d] /\ d \in members[m.room]
        /\ OtherAsked(m.room, d)
    BY <2>1, <2>2 DEF GenuineMessage
  <2>4. d \in Heard(a)
    <3>1. PICK q \in sent : q.kind = "request" /\ q.room = m.room /\ q.from # d
      BY <2>3 DEF OtherAsked
    <3> QED BY <2>1, <2>2, <2>3, <3>1 DEF Heard
  <2>5. peers[a] \in Seq(Cards) /\ GenuineFor(a, peers[a])
    BY <1>0 DEF TypeOK, Inv, PeersAreGenuine, GenuineFor
  <2>6. PICK k : k = Store(peers[a], m.card)
    OBVIOUS
  <2>7. k \in Seq(Cards) /\ GenuineFor(a, k)
    BY <2>2, <2>3, <2>4, <2>5, <2>6, StoreIsGenuine
  <2>8. peers' = [peers EXCEPT ![a] = k] /\ UNCHANGED <<card, members, sent, call>>
    BY <1>9, <2>6 DEF HandleResponse
  <2>9. TypeOK'
    BY <1>0, <2>7, <2>8 DEF TypeOK
  <2>10. Grown
    BY <1>0, <2>8, NegotiationAssumption DEF TypeOK, Grown
  <2>11. CallsStay
    BY <2>8 DEF Inv, CallersHaveCards, CallsStay
  <2>12. peers'[a] = k /\ \A b \in Agents : b # a => peers'[b] = peers[b]
    BY <1>0, <2>8 DEF TypeOK
  <2>13. GenuineFor(a, peers[a])'
    BY <2>7, <2>8, <2>12 DEF GenuineFor, Heard
  <2> QED BY <2>8, <2>9, <2>10, <2>11, <2>12, <2>13, GenuineStep
<1>10. ASSUME UNCHANGED vars PROVE Inv'
  BY <1>10 DEF vars, Inv, TypeOK, PeersAreGenuine, SentIsGenuine, GenuineMessage,
              ResultsWereHeard, CallersHaveCards, Heard, OtherAsked
<1> QED
  BY <1>1, <1>2, <1>3, <1>4, <1>5, <1>6, <1>7, <1>8, <1>9, <1>10, <1>11 DEF Next, Step

\* Inv holds in every reachable state.
THEOREM NegotiationInvariant == Spec => []Inv
<1>1. Init => Inv
  BY InitInv
<1>2. Inv /\ [Next]_vars => Inv'
  BY StepInv
<1> QED BY <1>1, <1>2, PTL DEF Spec

\* The state has its type: no agent ever sends a card it does not have
\* (amp_sdk.py:352-353, 799-800).
THEOREM TypeCorrect == Spec => []TypeOK
<1>1. Inv => TypeOK
  BY DEF Inv
<1> QED BY <1>1, NegotiationInvariant, PTL

\* An agent keeps one card per peer and none of its own, each one its peer really
\* had, of peers that were in a room with it where somebody else asked
\* (amp_sdk.py:350-377).
THEOREM GenuinePeers == Spec => []PeersAreGenuine
<1>1. Inv => PeersAreGenuine
  BY DEF Inv
<1> QED BY <1>1, NegotiationInvariant, PTL

\* The one agent whose card may reach an agent that only asked in direct rooms
\* with one peer is that peer.
LEMMA OneIsHeard ==
  ASSUME TypeOK, SentIsGenuine, NEW a \in Agents, NEW p \in Agents, NEW d \in Heard(a),
         AskedOnly(a, p)
  PROVE  d = p
<1>1. PICK m \in sent : m.kind = "request" /\ m.from # d /\ {a, d} \subseteq members[m.room]
  BY DEF Heard
<1>2. m.room \in Rooms /\ m.from \in members[m.room] /\ d # a
  BY <1>1 DEF TypeOK, Messages, SentIsGenuine, GenuineMessage, Heard
<1>3. PICK b \in Agents : members[m.room] \subseteq {a, b} /\ (AskedIn(a, m.room) => b = p)
  BY <1>1, <1>2 DEF AskedOnly
<1>4. d = b /\ m.from = a
  BY <1>1, <1>2, <1>3
<1>5. AskedIn(a, m.room)
  BY <1>1, <1>4 DEF AskedIn
<1> QED BY <1>3, <1>4, <1>5

\* An agent that only asked in direct rooms with one peer negotiates with it,
\* though the poll takes any card (amp_sdk.py:820-826).
THEOREM OnePeer == Spec => []OnePeerIsRight
<1>1. Inv => OnePeerIsRight
  <2> SUFFICES ASSUME Inv, NEW c \in Calls, call[c].phase = "done",
                      AskedOnly(call[c].agent, call[c].peer)
               PROVE  call[c].result.did = call[c].peer
    BY DEF OnePeerIsRight
  <2>1. call[c].agent \in Agents /\ call[c].peer \in Agents
    BY CallFields DEF Inv
  <2>2. call[c].result.did \in Heard(call[c].agent)
    BY DEF Inv, ResultsWereHeard
  <2> QED BY <2>1, <2>2, OneIsHeard DEF Inv
<1> QED BY <1>1, NegotiationInvariant, PTL
=============================================================================
