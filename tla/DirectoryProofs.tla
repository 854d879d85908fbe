--------------------------- MODULE DirectoryProofs ---------------------------
(***************************************************************************)
(* Rooms, discovery and routing, proved for any agents, cards, calls and   *)
(* number of rooms.                                                        *)
(***************************************************************************)
EXTENDS Directory, FiniteSetTheorems, WellFoundedInduction, TLAPS

-----------------------------------------------------------------------------
(* The invariant.                                                          *)

\* The records of calls while the rooms are those of D, by what the calls do.
Senders(D) ==
  [stage : {"look", "send"}, by : Agents, with : Agents, todo : SUBSET D, room : {0} \cup D]
Putters(D) == [stage : {"put", "rules"}, by : Agents, room : D]
Walking(D) ==
  [stage : {"walk"}, by : Agents, want : SUBSET Capabilities, todo : SUBSET D,
   room : {0} \cup D, found : Decks, seen : SUBSET Agents]
Visiting(D) ==
  [stage : {"read", "leave"}, by : Agents, want : SUBSET Capabilities, todo : SUBSET D,
   room : D, found : Decks, seen : SUBSET Agents]
Answering ==
  [stage : {"done"}, by : Agents, found : Decks, seen : SUBSET Agents,
   answer : Agents \cup {NoAgent}]

Records(D) ==
  {Free} \cup Senders(D) \cup Putters(D) \cup Walking(D) \cup Visiting(D) \cup Answering

\* A call that looks for a direct room has yet to ask about every room that has
\* been right ever since, and each of these holds the two and nobody else.
LookRight(record, stand, rs) ==
  record.stage = "look" =>
    /\ stand \subseteq record.todo
    /\ record.by # record.with
    /\ \A r \in stand : IsPair(rs[r], record.by, record.with)

RoomsOK == rooms \in Seq(Rooms)
PeersOK == peers \in [Agents -> Decks]
CallsOK == DOMAIN call = Calls /\ \A c \in Calls : call[c] \in Records(DOMAIN rooms)
StandingOK == standing \in [Calls -> SUBSET DOMAIN rooms]
LooksOK == \A c \in Calls : LookRight(call[c], standing[c], rooms)

DirectoryInv == RoomsOK /\ PeersOK /\ CallsOK /\ StandingOK /\ LooksOK

-----------------------------------------------------------------------------
(* Cards by DID.                                                           *)

LEMMA DeckLemma ==
  ASSUME NEW deck \in Decks
  PROVE  /\ DOMAIN deck \in SUBSET Agents /\ deck = [b \in DOMAIN deck |-> deck[b]]
         /\ \A b \in DOMAIN deck : deck[b] \in SUBSET Capabilities
<1>1. PICK D \in SUBSET Agents : deck \in [D -> SUBSET Capabilities]
  BY DEF Decks
<1> QED
  BY <1>1

LEMMA AddedLemma ==
  ASSUME NEW found \in Decks, NEW more \in Decks
  PROVE  /\ Added(found, more) \in Decks
         /\ DOMAIN Added(found, more) = DOMAIN found \cup DOMAIN more
         /\ \A b \in DOMAIN found : Added(found, more)[b] = found[b]
         /\ \A b \in DOMAIN more \ DOMAIN found : Added(found, more)[b] = more[b]
<1>1. PICK D : D = DOMAIN found \cup DOMAIN more
  OBVIOUS
<1>2. D \in SUBSET Agents
  BY <1>1, DeckLemma
<1>3. \A b \in D : (IF b \in DOMAIN found THEN found[b] ELSE more[b]) \in SUBSET Capabilities
  BY <1>1, DeckLemma
<1>4. Added(found, more) = [b \in D |-> IF b \in DOMAIN found THEN found[b] ELSE more[b]]
  BY <1>1 DEF Added
<1>5. Added(found, more) \in [D -> SUBSET Capabilities]
  BY <1>3, <1>4
<1>6. Added(found, more) \in Decks
  BY <1>2, <1>5 DEF Decks
<1> QED
  BY <1>1, <1>4, <1>6

LEMMA MatchingLemma ==
  ASSUME PeersOK, NEW a \in Agents, NEW want
  PROVE  /\ Matching(a, want) \in Decks
         /\ DOMAIN Matching(a, want) \subseteq DOMAIN peers[a]
         /\ \A b \in DOMAIN Matching(a, want) : Matching(a, want)[b] = peers[a][b]
<1>1. PICK deck \in Decks : deck = peers[a]
  BY DEF PeersOK
<1>2. PICK D : D = {o \in DOMAIN deck : want \subseteq deck[o]}
  OBVIOUS
<1>3. Matching(a, want) = [b \in D |-> deck[b]]
  BY <1>1, <1>2 DEF Matching
<1>4. D \in SUBSET Agents /\ \A b \in D : deck[b] \in SUBSET Capabilities
  BY <1>2, DeckLemma
<1>5. Matching(a, want) \in Decks
  BY <1>3, <1>4 DEF Decks
<1> QED
  BY <1>1, <1>2, <1>3, <1>5

\* No reader recognises what is published.
LEMMA CardsInLemma ==
  ASSUME NEW room \in Rooms
  PROVE  CardsIn(room) \in Decks /\ DOMAIN CardsIn(room) = {}
<1>1. room.content \in {"none", Published}
  BY DEF Rooms
<1>2. room.content \notin LookedFor
  BY <1>1 DEF Published, LookedFor
<1>3. CardsIn(room) = [a \in {} |-> room.card]
  BY <1>2 DEF CardsIn
<1>4. CardsIn(room) \in [{} -> SUBSET Capabilities]
  BY <1>3
<1> QED
  BY <1>3, <1>4 DEF Decks

-----------------------------------------------------------------------------
(* What records of calls are.                                              *)

LEMMA SortLemma ==
  ASSUME NEW D, NEW record \in Records(D)
  PROVE  /\ record.stage \in {"look", "send"} => record \in Senders(D)
         /\ record.stage \in {"put", "rules"} => record \in Putters(D)
         /\ record.stage = "walk" => record \in Walking(D)
         /\ record.stage \in {"read", "leave"} => record \in Visiting(D)
         /\ record.stage = "done" => record \in Answering
  BY DEF Records, Free, Senders, Putters, Walking, Visiting, Answering

\* A record stays one when rooms are added.
LEMMA MoreRecords ==
  ASSUME NEW D, NEW E, D \subseteq E
  PROVE  Records(D) \subseteq Records(E)
<1>1. Senders(D) \subseteq Senders(E)
  BY DEF Senders
<1>2. Putters(D) \subseteq Putters(E)
  BY DEF Putters
<1>3. Walking(D) \subseteq Walking(E)
  BY DEF Walking
<1>4. Visiting(D) \subseteq Visiting(E)
  BY DEF Visiting
<1> QED
  BY <1>1, <1>2, <1>3, <1>4 DEF Records

LEMMA DoesNotLook ==
  ASSUME NEW D, NEW record \in Putters(D) \cup Walking(D) \cup Visiting(D) \cup Answering \cup {Free}
  PROVE  record \in Records(D) /\ record.stage # "look"
  BY DEF Records, Free, Putters, Walking, Visiting, Answering

-----------------------------------------------------------------------------
(* What a step does to rooms, calls and standing rooms.                    *)

\* The state a step leaves is right if what it makes of rooms, of standing rooms
\* and of the record of one call is.
LEMMA OneCall ==
  ASSUME DirectoryInv, RoomsOK', PeersOK', StandingOK', DOMAIN rooms \subseteq DOMAIN rooms',
         NEW c \in Calls, DOMAIN call' = Calls, \A d \in Calls : d # c => call'[d] = call[d],
         call'[c] \in Records(DOMAIN rooms'), LookRight(call'[c], standing'[c], rooms'),
         \A d \in Calls : d # c => LookRight(call[d], standing'[d], rooms')
  PROVE  DirectoryInv'
<1>1. Records(DOMAIN rooms) \subseteq Records(DOMAIN rooms')
  BY MoreRecords
<1>2. CallsOK'
  BY <1>1 DEF DirectoryInv, CallsOK
<1>3. LooksOK'
  <2> SUFFICES ASSUME NEW d \in Calls PROVE LookRight(call'[d], standing'[d], rooms')
    BY DEF LooksOK
  <2> QED  OBVIOUS
<1> QED
  BY <1>2, <1>3 DEF DirectoryInv

\* No call is looked at again when members stay and no room becomes right.
LEMMA Undisturbed ==
  ASSUME DirectoryInv, \A d \in Calls : standing'[d] \subseteq standing[d],
         \A r \in DOMAIN rooms : rooms'[r].members = rooms[r].members
  PROVE  \A d \in Calls : LookRight(call[d], standing'[d], rooms')
<1> SUFFICES ASSUME NEW d \in Calls PROVE LookRight(call[d], standing'[d], rooms')
  OBVIOUS
<1>1. standing[d] \subseteq DOMAIN rooms
  BY DEF DirectoryInv, StandingOK
<1>2. LookRight(call[d], standing[d], rooms)
  BY DEF DirectoryInv, LooksOK
<1> QED
  BY <1>1, <1>2 DEF LookRight, IsPair

LEMMA RoomLemma ==
  ASSUME NEW a \in Agents, NEW guests \in SUBSET Agents, NEW public \in BOOLEAN,
         NEW topic \in SUBSET Capabilities
  PROVE  Room(a, guests, public, topic) \in Rooms
  BY DEF Room, Rooms

LEMMA AppendLemma ==
  ASSUME RoomsOK, NEW room \in Rooms, rooms' = Append(rooms, room)
  PROVE  /\ RoomsOK' /\ DOMAIN rooms \subseteq DOMAIN rooms'
         /\ Len(rooms) + 1 \in DOMAIN rooms'
         /\ \A r \in DOMAIN rooms : rooms'[r] = rooms[r]
<1>1. PICK rs \in Seq(Rooms) : rs = rooms
  BY DEF RoomsOK
<1>2. PICK n \in Nat : n = Len(rs) /\ DOMAIN rs = 1 .. n
  OBVIOUS
<1>3. /\ Append(rs, room) \in Seq(Rooms) /\ DOMAIN Append(rs, room) = 1 .. n + 1
      /\ \A r \in 1 .. n : Append(rs, room)[r] = rs[r]
  BY <1>2
<1>4. 1 .. n \subseteq 1 .. n + 1 /\ n + 1 \in 1 .. n + 1
  OBVIOUS
<1> QED
  BY <1>1, <1>2, <1>3, <1>4 DEF RoomsOK

LEMMA SetMembersLemma ==
  ASSUME DirectoryInv, NEW r \in DOMAIN rooms, NEW members \in SUBSET Agents,
         NEW invited \in SUBSET Agents, SetMembers(r, members, invited)
  PROVE  /\ RoomsOK' /\ StandingOK' /\ DOMAIN rooms' = DOMAIN rooms
         /\ \A d \in Calls : LookRight(call[d], standing'[d], rooms')
<1>1. rooms \in Seq(Rooms) /\ rooms[r] \in Rooms
  BY DEF DirectoryInv, RoomsOK
<1>2. [rooms[r] EXCEPT !.members = members, !.invited = invited] \in Rooms
  BY <1>1 DEF Rooms
<1>3. /\ rooms' = [rooms EXCEPT ![r] = [rooms[r] EXCEPT !.members = members, !.invited = invited]]
      /\ standing' = StillStanding(rooms')
  BY DEF SetMembers
<1>4. PICK room \in Rooms : room = [rooms[r] EXCEPT !.members = members, !.invited = invited]
  BY <1>2
<1>5. rooms' \in Seq(Rooms) /\ DOMAIN rooms' = DOMAIN rooms
  BY <1>1, <1>3, <1>4
<1>6. ASSUME NEW d \in Calls
      PROVE  /\ standing'[d] \subseteq standing[d] /\ standing'[d] \subseteq DOMAIN rooms'
             /\ LookRight(call[d], standing'[d], rooms')
  <2>1. standing'[d] = {s \in standing[d] : IsPair(rooms'[s], call[d].by, call[d].with)}
    BY <1>3 DEF StillStanding
  <2>2. standing[d] \subseteq DOMAIN rooms /\ LookRight(call[d], standing[d], rooms)
    BY DEF DirectoryInv, StandingOK, LooksOK
  <2> QED  BY <1>5, <2>1, <2>2 DEF LookRight
<1>7. DOMAIN standing' = Calls /\ \E f : standing' = [d \in Calls |-> f[d]]
  BY <1>3 DEF StillStanding
<1> QED
  BY <1>5, <1>6, <1>7 DEF RoomsOK, StandingOK

\* A step of a call that leaves rooms alone and does not look for a room.
LEMMA QuietStep ==
  ASSUME DirectoryInv, UNCHANGED <<rooms, peers, standing>>,
         NEW c \in Calls, DOMAIN call' = Calls, \A d \in Calls : d # c => call'[d] = call[d],
         call'[c] \in Records(DOMAIN rooms), call'[c].stage # "look"
  PROVE  DirectoryInv'
<1>1. RoomsOK' /\ PeersOK' /\ StandingOK'
  BY DEF DirectoryInv, RoomsOK, PeersOK, StandingOK
<1>2. \A d \in Calls : LookRight(call[d], standing'[d], rooms')
  BY Undisturbed
<1>3. LookRight(call'[c], standing'[c], rooms')
  BY DEF LookRight
<1> QED
  BY <1>1, <1>2, <1>3, OneCall

-----------------------------------------------------------------------------
(* The steps.                                                              *)

LEMMA InitLemma == Init => DirectoryInv
<1> SUFFICES ASSUME Init PROVE DirectoryInv
  OBVIOUS
<1>1. rooms \in Seq(Rooms)
  BY DEF Init
<1>2. Free \in Records(DOMAIN rooms) /\ Free.stage # "look"
  BY DEF Records, Free
<1>3. PeersOK
  <2>1. <<>> \in [{} -> SUBSET Capabilities]
    OBVIOUS
  <2>2. <<>> \in Decks
    BY <2>1 DEF Decks
  <2> QED  BY <2>2 DEF Init, PeersOK
<1>4. StandingOK /\ DOMAIN call = Calls /\ \A c \in Calls : call[c] = Free
  BY DEF Init, StandingOK
<1>5. CallsOK /\ LooksOK
  BY <1>2, <1>4 DEF CallsOK, LooksOK, LookRight
<1> QED
  BY <1>1, <1>3, <1>4, <1>5 DEF DirectoryInv, RoomsOK

LEMMA CreateRoomLemma ==
  ASSUME DirectoryInv, NEW a \in Agents, NEW guests \in SUBSET Agents, CreateRoom(a, guests)
  PROVE  DirectoryInv'
<1>1. PICK room \in Rooms : rooms' = Append(rooms, room)
  <2>1. {} \in SUBSET Capabilities /\ guests \ {a} \in SUBSET Agents
    OBVIOUS
  <2> QED  BY <2>1, RoomLemma DEF CreateRoom
<1>2. RoomsOK' /\ DOMAIN rooms \subseteq DOMAIN rooms' /\ \A r \in DOMAIN rooms : rooms'[r] = rooms[r]
  BY <1>1, AppendLemma DEF DirectoryInv
<1>3. UNCHANGED <<peers, call, standing>>
  BY DEF CreateRoom
<1>4. \A d \in Calls : LookRight(call[d], standing'[d], rooms')
  BY <1>2, <1>3, Undisturbed
<1>5. PeersOK' /\ StandingOK'
  BY <1>2, <1>3 DEF DirectoryInv, PeersOK, StandingOK
<1>6. CallsOK'
  BY <1>2, <1>3, MoreRecords DEF DirectoryInv, CallsOK
<1>7. LooksOK'
  BY <1>3, <1>4 DEF LooksOK
<1> QED
  BY <1>2, <1>5, <1>6, <1>7 DEF DirectoryInv

LEMMA RoomFields ==
  ASSUME DirectoryInv, NEW r \in DOMAIN rooms
  PROVE  /\ rooms[r] \in Rooms /\ rooms[r].owner \in Agents
         /\ rooms[r].members \in SUBSET Agents /\ rooms[r].invited \in SUBSET Agents
<1>1. rooms \in Seq(Rooms)
  BY DEF DirectoryInv, RoomsOK
<1>2. rooms[r] \in Rooms
  BY <1>1
<1> QED
  BY <1>2 DEF Rooms

\* Members come and go, and no call takes a step.
LEMMA MembersLemma ==
  ASSUME DirectoryInv, NEW r \in DOMAIN rooms, NEW members \in SUBSET Agents,
         NEW invited \in SUBSET Agents, SetMembers(r, members, invited),
         UNCHANGED <<peers, call>>
  PROVE  DirectoryInv'
<1>1. RoomsOK' /\ StandingOK' /\ DOMAIN rooms' = DOMAIN rooms
      /\ \A d \in Calls : LookRight(call[d], standing'[d], rooms')
  BY SetMembersLemma
<1>2. PeersOK' /\ CallsOK' /\ LooksOK'
  BY <1>1 DEF DirectoryInv, PeersOK, CallsOK, LooksOK
<1> QED
  BY <1>1, <1>2 DEF DirectoryInv

LEMMA RoomOperationLemma ==
  ASSUME DirectoryInv, RoomOperation
  PROVE  DirectoryInv'
<1>1. Active \subseteq Agents
  BY DirectoryAssumption
<1>2. PICK a \in Active :
        \/ \E b \in Active : CreateRoom(a, {b})
        \/ \E r \in DOMAIN rooms :
             JoinRoom(a, r) \/ LeaveRoom(a, r) \/ \E b \in Active : Invite(a, r, b)
  BY DEF RoomOperation
<1>3. CASE \E b \in Active : CreateRoom(a, {b})
  BY <1>1, <1>3, CreateRoomLemma
<1>4. ASSUME NEW r \in DOMAIN rooms,
             JoinRoom(a, r) \/ LeaveRoom(a, r) \/ \E b \in Active : Invite(a, r, b)
      PROVE  DirectoryInv'
  <2>1. rooms[r].members \in SUBSET Agents /\ rooms[r].invited \in SUBSET Agents
    BY RoomFields
  <2>2. CASE JoinRoom(a, r)
    BY <1>1, <2>1, <2>2, MembersLemma DEF JoinRoom
  <2>3. CASE LeaveRoom(a, r)
    BY <1>1, <2>1, <2>3, MembersLemma DEF LeaveRoom
  <2>4. CASE \E b \in Active : Invite(a, r, b)
    BY <1>1, <2>1, <2>4, MembersLemma DEF Invite
  <2> QED  BY <1>4, <2>2, <2>3, <2>4
<1> QED
  BY <1>2, <1>3, <1>4

LEMMA MeetLemma ==
  ASSUME DirectoryInv, NEW a \in Agents, NEW b \in Agents, NEW card \in SUBSET Capabilities,
         Meet(a, b, card)
  PROVE  DirectoryInv'
<1>1. PICK new \in Decks : new = [x \in {b} |-> card]
  <2>1. [x \in {b} |-> card] \in [{b} -> SUBSET Capabilities]
    OBVIOUS
  <2> QED  BY <2>1 DEF Decks
<1>2. peers \in [Agents -> Decks] /\ peers' = [peers EXCEPT ![a] = Added(new, peers[a])]
  BY <1>1 DEF Meet, DirectoryInv, PeersOK
<1>3. Added(new, peers[a]) \in Decks
  BY <1>2, AddedLemma
<1>4. PeersOK'
  BY <1>2, <1>3 DEF PeersOK
<1> QED
  BY <1>4 DEF Meet, DirectoryInv, RoomsOK, CallsOK, StandingOK, LooksOK

\* A call whose record is set leaves the others as they are.
LEMMA SetCallLemma ==
  ASSUME DirectoryInv, NEW c \in Calls, NEW record, SetCall(c, record)
  PROVE  /\ DOMAIN call' = Calls /\ call'[c] = record
         /\ \A d \in Calls : d # c => call'[d] = call[d]
  BY DEF DirectoryInv, CallsOK, SetCall

LEMMA DropLemma ==
  ASSUME DirectoryInv, NEW c \in Calls, Drop(c), DOMAIN rooms \subseteq DOMAIN rooms'
  PROVE  StandingOK' /\ standing'[c] = {} /\ \A d \in Calls : standing'[d] \subseteq standing[d]
  BY DEF DirectoryInv, StandingOK, Drop

LEMMA SendToLemma ==
  ASSUME DirectoryInv, NEW c \in Calls, NEW a \in Agents, NEW b \in Agents, SendTo(c, a, b)
  PROVE  DirectoryInv'
<1>1. PICK record : record = [stage |-> "look", by |-> a, with |-> b, todo |-> Joined(a), room |-> 0]
  OBVIOUS
<1>2. SetCall(c, record) /\ a # b /\ UNCHANGED <<rooms, peers>>
  BY <1>1 DEF SendTo
<1>3. /\ DOMAIN call' = Calls /\ call'[c] = record
      /\ \A d \in Calls : d # c => call'[d] = call[d]
  BY <1>2, SetCallLemma
<1>4. Joined(a) \in SUBSET DOMAIN rooms
  BY DEF Joined
<1>5. record \in Records(DOMAIN rooms)
  BY <1>1, <1>4 DEF Records, Senders
<1>6. /\ standing' = [standing EXCEPT ![c] = {r \in Joined(a) : IsPair(rooms[r], a, b)}]
      /\ standing \in [Calls -> SUBSET DOMAIN rooms]
  BY DEF SendTo, DirectoryInv, StandingOK
<1>7. RoomsOK' /\ PeersOK' /\ StandingOK'
  BY <1>2, <1>4, <1>6 DEF DirectoryInv, RoomsOK, PeersOK, StandingOK
<1>8. \A d \in Calls : d # c => LookRight(call[d], standing'[d], rooms')
  BY <1>2, <1>6 DEF DirectoryInv, LooksOK
<1>9. LookRight(call'[c], standing'[c], rooms')
  BY <1>1, <1>2, <1>3, <1>6 DEF LookRight
<1> QED
  BY <1>2, <1>3, <1>5, <1>7, <1>8, <1>9, OneCall

\* What a call that looks for a room or sends is.
LEMMA SenderLemma ==
  ASSUME DirectoryInv, NEW c \in Calls, call[c].stage \in {"look", "send"}
  PROVE  call[c] \in Senders(DOMAIN rooms)
  BY SortLemma DEF DirectoryInv, CallsOK

LEMMA PairLemma ==
  ASSUME NEW a, NEW b, a # b
  PROVE  Cardinality({a, b}) = 2
<1>1. IsFiniteSet({a}) /\ Cardinality({a}) = 1
  BY FS_Singleton
<1>2. b \notin {a}
  OBVIOUS
<1>3. Cardinality({a} \cup {b}) = Cardinality({a}) + 1
  BY <1>1, <1>2, FS_AddElement
<1>4. {a} \cup {b} = {a, b}
  OBVIOUS
<1> QED
  BY <1>1, <1>3, <1>4

LEMMA LookAtLemma ==
  ASSUME DirectoryInv, NEW c \in Calls, NEW r \in DOMAIN rooms, LookAt(c, r)
  PROVE  DirectoryInv'
<1>1. UNCHANGED <<rooms, peers>> /\ call[c].stage = "look"
  BY DEF LookAt
<1>2. PICK old \in Senders(DOMAIN rooms) : old = call[c]
  BY <1>1, SenderLemma
<1>3. RoomsOK' /\ PeersOK'
  BY <1>1 DEF DirectoryInv, RoomsOK, PeersOK
<1>4. CASE SetCall(c, [call[c] EXCEPT !.stage = "send", !.room = r]) /\ Drop(c)
  <2>1. PICK record : record = [old EXCEPT !.stage = "send", !.room = r]
    OBVIOUS
  <2>2. record \in Senders(DOMAIN rooms) /\ record.stage = "send"
    BY <2>1 DEF Senders
  <2>3. /\ DOMAIN call' = Calls /\ call'[c] = record
        /\ \A d \in Calls : d # c => call'[d] = call[d]
    BY <1>2, <1>4, <2>1, SetCallLemma
  <2>4. StandingOK' /\ \A d \in Calls : standing'[d] \subseteq standing[d]
    BY <1>1, <1>4, DropLemma
  <2>5. \A d \in Calls : LookRight(call[d], standing'[d], rooms')
    BY <1>1, <2>4, Undisturbed
  <2>6. record \in Records(DOMAIN rooms') /\ LookRight(record, standing'[c], rooms')
    BY <1>1, <2>2 DEF Records, LookRight
  <2> QED  BY <1>1, <1>3, <2>3, <2>4, <2>5, <2>6, OneCall
<1>5. CASE /\ ~ IsDmWith(rooms[r], call[c].with)
           /\ SetCall(c, [call[c] EXCEPT !.todo = RestAfter(@, r)])
           /\ UNCHANGED standing
  <2>1. PICK record : record = [old EXCEPT !.todo = old.todo \ {r}]
    OBVIOUS
  <2>2. /\ record \in Senders(DOMAIN rooms) /\ record.todo = old.todo \ {r}
        /\ record.stage = old.stage /\ record.by = old.by /\ record.with = old.with
    BY <2>1 DEF Senders
  <2>3. /\ DOMAIN call' = Calls /\ call'[c] = record
        /\ \A d \in Calls : d # c => call'[d] = call[d]
    BY <1>2, <1>5, <2>1, SetCallLemma DEF RestAfter
  <2>4. \A d \in Calls : LookRight(call[d], standing'[d], rooms')
    BY <1>1, <1>5, Undisturbed
  <2>5. r \notin standing[c]
    <3>1. SUFFICES ASSUME r \in standing[c] PROVE FALSE
      OBVIOUS
    <3>2. IsPair(rooms[r], old.by, old.with) /\ old.by # old.with
      BY <1>1, <1>2, <3>1 DEF DirectoryInv, LooksOK, LookRight
    <3>3. Cardinality({old.by, old.with}) = 2
      BY <3>2, PairLemma
    <3> QED  BY <1>2, <1>5, <3>2, <3>3 DEF IsPair, IsDmWith
  <2>6. LookRight(record, standing'[c], rooms')
    BY <1>1, <1>2, <1>5, <2>2, <2>5 DEF DirectoryInv, LooksOK, LookRight
  <2>7. StandingOK' /\ record \in Records(DOMAIN rooms')
    BY <1>1, <1>5, <2>2 DEF Records, DirectoryInv, StandingOK
  <2> QED  BY <1>1, <1>3, <2>3, <2>4, <2>6, <2>7, OneCall
<1> QED
  BY <1>4, <1>5 DEF LookAt

LEMMA LookFailsLemma ==
  ASSUME DirectoryInv, NEW c \in Calls, NEW r \in DOMAIN rooms, LookFails(c, r)
  PROVE  DirectoryInv'
<1>1. UNCHANGED <<rooms, peers>> /\ call[c].stage = "look"
  BY DEF LookFails
<1>2. PICK old \in Senders(DOMAIN rooms) : old = call[c]
  BY <1>1, SenderLemma
<1>3. PICK record : record = [old EXCEPT !.todo = old.todo \ {r}]
  OBVIOUS
<1>4. /\ record \in Senders(DOMAIN rooms) /\ record.todo = old.todo \ {r}
      /\ record.stage = old.stage /\ record.by = old.by /\ record.with = old.with
  BY <1>3 DEF Senders
<1>5. /\ DOMAIN call' = Calls /\ call'[c] = record
      /\ \A d \in Calls : d # c => call'[d] = call[d]
  BY <1>2, <1>3, SetCallLemma DEF LookFails
<1>6. /\ standing' = [standing EXCEPT ![c] = standing[c] \ {r}]
      /\ standing \in [Calls -> SUBSET DOMAIN rooms]
  BY DEF LookFails, DirectoryInv, StandingOK
<1>7. StandingOK' /\ \A d \in Calls : standing'[d] \subseteq standing[d]
  BY <1>1, <1>6 DEF StandingOK
<1>8. \A d \in Calls : LookRight(call[d], standing'[d], rooms')
  BY <1>1, <1>7, Undisturbed
<1>9. LookRight(record, standing'[c], rooms')
  BY <1>1, <1>2, <1>4, <1>6 DEF DirectoryInv, LooksOK, LookRight
<1>10. RoomsOK' /\ PeersOK' /\ record \in Records(DOMAIN rooms')
  BY <1>1, <1>4 DEF Records, DirectoryInv, RoomsOK, PeersOK
<1> QED
  BY <1>1, <1>5, <1>7, <1>8, <1>9, <1>10, OneCall

LEMMA CreateDmLemma ==
  ASSUME DirectoryInv, NEW c \in Calls, CreateDm(c)
  PROVE  DirectoryInv'
<1>1. UNCHANGED peers /\ call[c].stage = "look" /\ Drop(c)
  BY DEF CreateDm
<1>2. PICK old \in Senders(DOMAIN rooms) : old = call[c]
  BY <1>1, SenderLemma
<1>3. PICK room \in Rooms : rooms' = Append(rooms, room)
  <2>1. old.by \in Agents /\ {old.with} \in SUBSET Agents /\ {} \in SUBSET Capabilities
    BY DEF Senders
  <2> QED  BY <1>2, <2>1, RoomLemma DEF CreateDm
<1>4. /\ RoomsOK' /\ DOMAIN rooms \subseteq DOMAIN rooms' /\ Len(rooms) + 1 \in DOMAIN rooms'
      /\ \A r \in DOMAIN rooms : rooms'[r] = rooms[r]
  BY <1>3, AppendLemma DEF DirectoryInv
<1>5. PICK record : record = [old EXCEPT !.stage = "send", !.room = Len(rooms) + 1]
  OBVIOUS
<1>6. record \in Senders(DOMAIN rooms') /\ record.stage = "send"
  BY <1>4, <1>5 DEF Senders
<1>7. /\ DOMAIN call' = Calls /\ call'[c] = record
      /\ \A d \in Calls : d # c => call'[d] = call[d]
  BY <1>2, <1>5, SetCallLemma DEF CreateDm
<1>8. StandingOK' /\ \A d \in Calls : standing'[d] \subseteq standing[d]
  BY <1>1, <1>4, DropLemma
<1>9. \A d \in Calls : LookRight(call[d], standing'[d], rooms')
  BY <1>4, <1>8, Undisturbed
<1>10. record \in Records(DOMAIN rooms') /\ LookRight(record, standing'[c], rooms')
  BY <1>6 DEF Records, LookRight
<1>11. PeersOK'
  BY <1>1 DEF DirectoryInv, PeersOK
<1> QED
  BY <1>4, <1>7, <1>8, <1>9, <1>10, <1>11, OneCall

LEMMA SendEndsLemma ==
  ASSUME DirectoryInv, NEW c \in Calls, SendEnds(c)
  PROVE  DirectoryInv'
<1>1. UNCHANGED <<rooms, peers>> /\ SetCall(c, Free) /\ Drop(c)
  BY DEF SendEnds
<1>2. /\ DOMAIN call' = Calls /\ call'[c] = Free
      /\ \A d \in Calls : d # c => call'[d] = call[d]
  BY <1>1, SetCallLemma
<1>3. StandingOK' /\ \A d \in Calls : standing'[d] \subseteq standing[d]
  BY <1>1, DropLemma
<1>4. \A d \in Calls : LookRight(call[d], standing'[d], rooms')
  BY <1>1, <1>3, Undisturbed
<1>5. Free \in Records(DOMAIN rooms') /\ LookRight(Free, standing'[c], rooms')
  BY DEF Records, Free, LookRight
<1>6. RoomsOK' /\ PeersOK'
  BY <1>1 DEF DirectoryInv, RoomsOK, PeersOK
<1> QED
  BY <1>1, <1>2, <1>3, <1>4, <1>5, <1>6, OneCall

LEMMA RegisterCardLemma ==
  ASSUME DirectoryInv, NEW c \in Calls, NEW a \in Agents, NEW card \in SUBSET Capabilities,
         RegisterCard(c, a, card)
  PROVE  DirectoryInv'
<1>1. UNCHANGED <<peers, standing>>
  BY DEF RegisterCard
<1>2. PICK room \in Rooms : rooms' = Append(rooms, room)
  <2>1. {} \in SUBSET Agents
    OBVIOUS
  <2> QED  BY <2>1, RoomLemma DEF RegisterCard
<1>3. /\ RoomsOK' /\ DOMAIN rooms \subseteq DOMAIN rooms' /\ Len(rooms) + 1 \in DOMAIN rooms'
      /\ \A r \in DOMAIN rooms : rooms'[r] = rooms[r]
  BY <1>2, AppendLemma DEF DirectoryInv
<1>4. PICK record : record = [stage |-> "put", by |-> a, room |-> Len(rooms) + 1]
  OBVIOUS
<1>5. record \in Putters(DOMAIN rooms')
  BY <1>3, <1>4 DEF Putters
<1>6. record \in Records(DOMAIN rooms') /\ record.stage # "look"
  BY <1>5, DoesNotLook
<1>7. /\ DOMAIN call' = Calls /\ call'[c] = record
      /\ \A d \in Calls : d # c => call'[d] = call[d]
  BY <1>4, SetCallLemma DEF RegisterCard
<1>8. \A d \in Calls : LookRight(call[d], standing'[d], rooms')
  BY <1>1, <1>3, Undisturbed
<1>9. PeersOK' /\ StandingOK'
  BY <1>1, <1>3 DEF DirectoryInv, PeersOK, StandingOK
<1> QED
  BY <1>3, <1>6, <1>7, <1>8, <1>9, OneCall DEF LookRight

LEMMA PutCardLemma ==
  ASSUME DirectoryInv, NEW c \in Calls, NEW taken \in BOOLEAN, NEW card \in SUBSET Capabilities,
         PutCard(c, taken, card)
  PROVE  DirectoryInv'
<1>1. UNCHANGED <<peers, standing>> /\ call[c].stage = "put"
  BY DEF PutCard
<1>2. PICK old \in Putters(DOMAIN rooms) : old = call[c]
  BY <1>1, SortLemma DEF DirectoryInv, CallsOK
<1>3. PICK r \in DOMAIN rooms : r = old.room
  BY DEF Putters
<1>4. rooms \in Seq(Rooms) /\ rooms[r] \in Rooms
  BY RoomFields DEF DirectoryInv, RoomsOK
<1>5. PICK room \in Rooms : room = [rooms[r] EXCEPT !.content = Published, !.card = card]
  BY <1>4 DEF Rooms
<1>6. rooms' = IF taken THEN [rooms EXCEPT ![r] = room] ELSE rooms
  BY <1>2, <1>3, <1>5 DEF PutCard
<1>7. room.members = rooms[r].members
  BY <1>4, <1>5 DEF Rooms
<1>8. RoomsOK' /\ DOMAIN rooms' = DOMAIN rooms
      /\ \A s \in DOMAIN rooms : rooms'[s].members = rooms[s].members
  BY <1>4, <1>6, <1>7 DEF RoomsOK
<1>9. PICK record : record = [old EXCEPT !.stage = "rules"]
  OBVIOUS
<1>10. record \in Putters(DOMAIN rooms')
  BY <1>8, <1>9 DEF Putters
<1>11. record \in Records(DOMAIN rooms') /\ record.stage # "look"
  BY <1>10, DoesNotLook
<1>12. /\ DOMAIN call' = Calls /\ call'[c] = record
       /\ \A d \in Calls : d # c => call'[d] = call[d]
  BY <1>2, <1>9, SetCallLemma DEF PutCard
<1>13. \A d \in Calls : LookRight(call[d], standing'[d], rooms')
  BY <1>1, <1>8, Undisturbed
<1>14. PeersOK' /\ StandingOK'
  BY <1>1, <1>8 DEF DirectoryInv, PeersOK, StandingOK
<1> QED
  BY <1>8, <1>11, <1>12, <1>13, <1>14, OneCall DEF LookRight

\* Calls that end.
LEMMA EndLemma ==
  ASSUME DirectoryInv, NEW c \in Calls, PutEnds(c) \/ Return(c)
  PROVE  DirectoryInv'
<1>1. SetCall(c, Free) /\ UNCHANGED <<rooms, peers, standing>>
  BY DEF PutEnds, Return
<1>2. Free \in Records(DOMAIN rooms) /\ Free.stage # "look"
  BY DEF Records, Free
<1>3. /\ DOMAIN call' = Calls /\ call'[c] = Free
      /\ \A d \in Calls : d # c => call'[d] = call[d]
  BY <1>1, SetCallLemma
<1> QED
  BY <1>1, <1>2, <1>3, QuietStep

LEMMA DiscoverLemma ==
  ASSUME DirectoryInv, NEW c \in Calls, NEW a \in Agents, NEW want \in SUBSET Capabilities,
         Discover(c, a, want)
  PROVE  DirectoryInv'
<1>1. UNCHANGED <<rooms, peers, standing>>
  BY DEF Discover
<1>2. PICK todo \in {Listed(want), {}} :
        SetCall(c, [stage |-> "walk", by |-> a, want |-> want, todo |-> todo, room |-> 0,
                    found |-> Matching(a, want), seen |-> {}])
  BY DEF Discover
<1>3. todo \in SUBSET DOMAIN rooms
  BY DEF Listed
<1>4. Matching(a, want) \in Decks
  BY MatchingLemma DEF DirectoryInv
<1>5. PICK record : record = [stage |-> "walk", by |-> a, want |-> want, todo |-> todo, room |-> 0,
                              found |-> Matching(a, want), seen |-> {}]
  OBVIOUS
<1>6. record \in Walking(DOMAIN rooms)
  BY <1>3, <1>4, <1>5 DEF Walking
<1>7. record \in Records(DOMAIN rooms) /\ record.stage # "look"
  BY <1>6, DoesNotLook
<1>8. /\ DOMAIN call' = Calls /\ call'[c] = record
      /\ \A d \in Calls : d # c => call'[d] = call[d]
  BY <1>2, <1>5, SetCallLemma
<1> QED
  BY <1>1, <1>7, <1>8, QuietStep

\* What a call between two visits, or on a visit, is.
LEMMA WalkerLemma ==
  ASSUME DirectoryInv, NEW c \in Calls
  PROVE  /\ call[c].stage = "walk" => call[c] \in Walking(DOMAIN rooms)
         /\ call[c].stage \in {"read", "leave"} => call[c] \in Visiting(DOMAIN rooms)
  BY SortLemma DEF DirectoryInv, CallsOK

LEMMA VisitJoinLemma ==
  ASSUME DirectoryInv, NEW c \in Calls, NEW r \in DOMAIN rooms, VisitJoin(c, r)
  PROVE  DirectoryInv'
<1>1. UNCHANGED peers /\ call[c].stage = "walk"
  BY DEF VisitJoin
<1>2. PICK old \in Walking(DOMAIN rooms) : old = call[c]
  BY <1>1, WalkerLemma
<1>3. rooms[r].members \cup {old.by} \in SUBSET Agents /\ rooms[r].invited \ {old.by} \in SUBSET Agents
  BY RoomFields DEF Walking
<1>4. SetMembers(r, rooms[r].members \cup {old.by}, rooms[r].invited \ {old.by})
  BY <1>2 DEF VisitJoin
<1>5. PICK members \in SUBSET Agents : members = rooms[r].members \cup {old.by}
  BY <1>3
<1>6. PICK invited \in SUBSET Agents : invited = rooms[r].invited \ {old.by}
  BY <1>3
<1>7. RoomsOK' /\ StandingOK' /\ DOMAIN rooms' = DOMAIN rooms
      /\ \A d \in Calls : LookRight(call[d], standing'[d], rooms')
  BY <1>4, <1>5, <1>6, SetMembersLemma
<1>8. PICK record : record = [old EXCEPT !.stage = "read", !.room = r, !.todo = old.todo \ {r}]
  OBVIOUS
<1>9. record \in Visiting(DOMAIN rooms')
  BY <1>7, <1>8 DEF Walking, Visiting
<1>10. record \in Records(DOMAIN rooms') /\ record.stage # "look"
  BY <1>9, DoesNotLook
<1>11. /\ DOMAIN call' = Calls /\ call'[c] = record
       /\ \A d \in Calls : d # c => call'[d] = call[d]
  BY <1>2, <1>8, SetCallLemma DEF VisitJoin
<1>12. PeersOK'
  BY <1>1 DEF DirectoryInv, PeersOK
<1> QED
  BY <1>7, <1>10, <1>11, <1>12, OneCall DEF LookRight

LEMMA VisitRefusedLemma ==
  ASSUME DirectoryInv, NEW c \in Calls, NEW r \in DOMAIN rooms, VisitRefused(c, r)
  PROVE  DirectoryInv'
<1>1. UNCHANGED <<rooms, peers, standing>> /\ call[c].stage = "walk"
  BY DEF VisitRefused
<1>2. PICK old \in Walking(DOMAIN rooms) : old = call[c]
  BY <1>1, WalkerLemma
<1>3. PICK record : record = [old EXCEPT !.todo = old.todo \ {r}]
  OBVIOUS
<1>4. record \in Walking(DOMAIN rooms)
  BY <1>3 DEF Walking
<1>5. record \in Records(DOMAIN rooms) /\ record.stage # "look"
  BY <1>4, DoesNotLook
<1>6. /\ DOMAIN call' = Calls /\ call'[c] = record
      /\ \A d \in Calls : d # c => call'[d] = call[d]
  BY <1>2, <1>3, SetCallLemma DEF VisitRefused
<1> QED
  BY <1>1, <1>5, <1>6, QuietStep

LEMMA VisitReadLemma ==
  ASSUME DirectoryInv, NEW c \in Calls, NEW answered \in BOOLEAN, VisitRead(c, answered)
  PROVE  DirectoryInv'
<1>1. UNCHANGED <<rooms, peers, standing>> /\ call[c].stage = "read"
  BY DEF VisitRead
<1>2. PICK old \in Visiting(DOMAIN rooms) : old = call[c]
  BY <1>1, WalkerLemma
<1>3. PICK r \in DOMAIN rooms : r = old.room
  BY DEF Visiting
<1>4. rooms[r].owner \in Agents /\ CardsIn(rooms[r]) \in Decks
  BY RoomFields, CardsInLemma
<1>5. PICK found \in Decks : found = Added(old.found, CardsIn(rooms[r]))
  BY <1>4, AddedLemma DEF Visiting
<1>6. PICK seen \in SUBSET Agents :
        seen = IF rooms[r].content = "none" THEN old.seen ELSE old.seen \cup {rooms[r].owner}
  BY <1>4 DEF Visiting
<1>7. PICK record : record = IF answered
                             THEN [old EXCEPT !.stage = "leave", !.found = found, !.seen = seen]
                             ELSE [old EXCEPT !.stage = "leave"]
  OBVIOUS
<1>8. record \in Visiting(DOMAIN rooms)
  BY <1>7 DEF Visiting
<1>9. record \in Records(DOMAIN rooms) /\ record.stage # "look"
  BY <1>8, DoesNotLook
<1>10. SetCall(c, record)
  BY <1>2, <1>3, <1>5, <1>6, <1>7 DEF VisitRead
<1>11. /\ DOMAIN call' = Calls /\ call'[c] = record
       /\ \A d \in Calls : d # c => call'[d] = call[d]
  BY <1>10, SetCallLemma
<1> QED
  BY <1>1, <1>9, <1>11, QuietStep

LEMMA VisitLeaveLemma ==
  ASSUME DirectoryInv, NEW c \in Calls, VisitLeave(c)
  PROVE  DirectoryInv'
<1>1. UNCHANGED peers /\ call[c].stage = "leave"
  BY DEF VisitLeave
<1>2. PICK old \in Visiting(DOMAIN rooms) : old = call[c]
  BY <1>1, WalkerLemma
<1>3. PICK r \in DOMAIN rooms : r = old.room
  BY DEF Visiting
<1>4. PICK members \in SUBSET Agents : members = rooms[r].members \ {old.by}
  BY RoomFields
<1>5. PICK invited \in SUBSET Agents : invited = rooms[r].invited
  BY RoomFields
<1>6. SetMembers(r, members, invited)
  BY <1>2, <1>3, <1>4, <1>5 DEF VisitLeave
<1>7. RoomsOK' /\ StandingOK' /\ DOMAIN rooms' = DOMAIN rooms
      /\ \A d \in Calls : LookRight(call[d], standing'[d], rooms')
  BY <1>6, SetMembersLemma
<1>8. PICK record : record = [old EXCEPT !.stage = "walk"]
  OBVIOUS
<1>9. record \in Walking(DOMAIN rooms')
  BY <1>7, <1>8 DEF Walking, Visiting
<1>10. record \in Records(DOMAIN rooms') /\ record.stage # "look"
  BY <1>9, DoesNotLook
<1>11. /\ DOMAIN call' = Calls /\ call'[c] = record
       /\ \A d \in Calls : d # c => call'[d] = call[d]
  BY <1>2, <1>8, SetCallLemma DEF VisitLeave
<1>12. PeersOK'
  BY <1>1 DEF DirectoryInv, PeersOK
<1> QED
  BY <1>7, <1>10, <1>11, <1>12, OneCall DEF LookRight

LEMMA VisitRaisesLemma ==
  ASSUME DirectoryInv, NEW c \in Calls, VisitRaises(c)
  PROVE  DirectoryInv'
<1>1. UNCHANGED <<rooms, peers, standing>> /\ call[c].stage \in {"read", "leave"}
  BY DEF VisitRaises
<1>2. PICK old \in Visiting(DOMAIN rooms) : old = call[c]
  BY <1>1, WalkerLemma
<1>3. PICK record : record = [old EXCEPT !.stage = "walk"]
  OBVIOUS
<1>4. record \in Walking(DOMAIN rooms)
  BY <1>3 DEF Walking, Visiting
<1>5. record \in Records(DOMAIN rooms) /\ record.stage # "look"
  BY <1>4, DoesNotLook
<1>6. /\ DOMAIN call' = Calls /\ call'[c] = record
      /\ \A d \in Calls : d # c => call'[d] = call[d]
  BY <1>2, <1>3, SetCallLemma DEF VisitRaises
<1> QED
  BY <1>1, <1>5, <1>6, QuietStep

LEMMA FinishLemma ==
  ASSUME DirectoryInv, NEW c \in Calls, Finish(c)
  PROVE  DirectoryInv'
<1>1. UNCHANGED <<rooms, peers, standing>> /\ call[c].stage = "walk"
  BY DEF Finish
<1>2. PICK old \in Walking(DOMAIN rooms) : old = call[c]
  BY <1>1, WalkerLemma
<1>3. old.by \in Agents /\ old.found \in Decks /\ old.seen \in SUBSET Agents
  BY DEF Walking
<1>4. Matching(old.by, old.want) \in Decks
  BY <1>3, MatchingLemma DEF DirectoryInv
<1>5. PICK found \in Decks : found = WithRegistry(old.found, old.by, old.want)
  BY <1>3, <1>4, AddedLemma DEF WithRegistry
<1>6. PICK b \in Best(found) :
        SetCall(c, [stage |-> "done", by |-> old.by, found |-> found, seen |-> old.seen, answer |-> b])
  BY <1>2, <1>5 DEF Finish
<1>7. b \in Agents \cup {NoAgent}
  BY DeckLemma DEF Best
<1>8. PICK record :
        record = [stage |-> "done", by |-> old.by, found |-> found, seen |-> old.seen, answer |-> b]
  OBVIOUS
<1>9. record \in Answering
  BY <1>3, <1>7, <1>8 DEF Answering
<1>10. record \in Records(DOMAIN rooms) /\ record.stage # "look"
  BY <1>9, DoesNotLook
<1>11. /\ DOMAIN call' = Calls /\ call'[c] = record
       /\ \A d \in Calls : d # c => call'[d] = call[d]
  BY <1>6, <1>8, SetCallLemma
<1> QED
  BY <1>1, <1>10, <1>11, QuietStep

LEMMA NextLemma == DirectoryInv /\ [Next]_vars => DirectoryInv'
<1> SUFFICES ASSUME DirectoryInv, [Next]_vars PROVE DirectoryInv'
  OBVIOUS
<1>1. CASE UNCHANGED vars
  BY <1>1 DEF vars, DirectoryInv, RoomsOK, PeersOK, CallsOK, StandingOK, LooksOK
<1>2. CASE RoomOperation
  BY <1>2, RoomOperationLemma
<1>3. CASE \E pair \in Meetings : \E card \in Cards[pair[2]] : Meet(pair[1], pair[2], card)
  <2>1. PICK pair \in Meetings : \E card \in Cards[pair[2]] : Meet(pair[1], pair[2], card)
    BY <1>3
  <2>2. pair[1] \in Agents /\ pair[2] \in Agents
    BY DirectoryAssumption
  <2>3. Cards[pair[2]] \subseteq SUBSET Capabilities
    BY <2>2, DirectoryAssumption
  <2> QED  BY <2>1, <2>2, <2>3, MeetLemma
<1>4. ASSUME NEW c \in Calls, CallStep(c) PROVE DirectoryInv'
  <2>1. Active \subseteq Agents /\ Wants \subseteq SUBSET Capabilities
    BY DirectoryAssumption
  <2>2. CASE \E a \in Active : \/ \E card \in Cards[a] : RegisterCard(c, a, card)
                               \/ \E b \in Active : SendTo(c, a, b)
                               \/ \E want \in Wants : Discover(c, a, want)
    <3>1. \A a \in Active : Cards[a] \subseteq SUBSET Capabilities
      BY <2>1, DirectoryAssumption
    <3> QED  BY <2>1, <2>2, <3>1, RegisterCardLemma, SendToLemma, DiscoverLemma
  <2>3. CASE \E r \in DOMAIN rooms : LookAt(c, r) \/ LookFails(c, r) \/ VisitJoin(c, r)
                                     \/ VisitRefused(c, r)
    BY <2>3, LookAtLemma, LookFailsLemma, VisitJoinLemma, VisitRefusedLemma
  <2>4. CASE \/ \E taken \in BOOLEAN, card \in UNION {Cards[a] : a \in Active} : PutCard(c, taken, card)
             \/ \E answered \in BOOLEAN : VisitRead(c, answered)
    <3>1. UNION {Cards[a] : a \in Active} \subseteq SUBSET Capabilities
      BY <2>1, DirectoryAssumption
    <3> QED  BY <2>4, <3>1, PutCardLemma, VisitReadLemma
  <2>5. CASE CreateDm(c) \/ SendEnds(c) \/ PutEnds(c) \/ Return(c)
    BY <2>5, CreateDmLemma, SendEndsLemma, EndLemma
  <2>6. CASE VisitLeave(c) \/ VisitRaises(c) \/ Finish(c)
    BY <2>6, VisitLeaveLemma, VisitRaisesLemma, FinishLemma
  <2> QED  BY <1>4, <2>2, <2>3, <2>4, <2>5, <2>6 DEF CallStep
<1> QED
  BY <1>1, <1>2, <1>3, <1>4 DEF Next

(* Rooms, peers and calls stay well formed, and a call that looks for a    *)
(* direct room has yet to ask about every room that has been right ever    *)
(* since it listed them (amp_sdk.py:461-524, 849-1019).                    *)
THEOREM DirectoryInvariant == Spec => []DirectoryInv
  BY InitLemma, NextLemma, PTL DEF Spec

-----------------------------------------------------------------------------
(* No room without need.                                                   *)

\* A step of a call sets the record of that call.
LEMMA CallStepSets ==
  ASSUME NEW d \in Calls, CallStep(d)
  PROVE  \E record : SetCall(d, record)
<1>1. CASE \E a \in Active : \/ \E card \in Cards[a] : RegisterCard(d, a, card)
                             \/ \E b \in Active : SendTo(d, a, b)
                             \/ \E want \in Wants : Discover(d, a, want)
  BY <1>1 DEF RegisterCard, SendTo, Discover
<1>2. CASE \E r \in DOMAIN rooms : LookAt(d, r) \/ LookFails(d, r) \/ VisitJoin(d, r)
                                   \/ VisitRefused(d, r)
  BY <1>2 DEF LookAt, LookFails, VisitJoin, VisitRefused
<1>3. CASE \/ \E taken \in BOOLEAN, card \in UNION {Cards[a] : a \in Active} : PutCard(d, taken, card)
           \/ \E answered \in BOOLEAN : VisitRead(d, answered)
  BY <1>3 DEF PutCard, VisitRead
<1>4. CASE CreateDm(d) \/ SendEnds(d) \/ PutEnds(d) \/ Return(d)
  BY <1>4 DEF CreateDm, SendEnds, PutEnds, Return
<1>5. CASE VisitLeave(d) \/ VisitRaises(d) \/ Finish(d)
  BY <1>5 DEF VisitLeave, VisitRaises, Finish
<1> QED
  BY <1>1, <1>2, <1>3, <1>4, <1>5 DEF CallStep

\* What a call becomes, it becomes by a step of its own.
LEMMA OwnStep ==
  ASSUME DirectoryInv, [Next]_vars, NEW c \in Calls, call'[c] # call[c]
  PROVE  CallStep(c)
<1>1. CASE UNCHANGED call
  BY <1>1
<1>2. ASSUME NEW d \in Calls, CallStep(d) PROVE CallStep(c)
  <2>1. PICK record : SetCall(d, record)
    BY <1>2, CallStepSets
  <2>2. c = d
    BY <2>1, SetCallLemma
  <2> QED  BY <1>2, <2>2
<1>3. CASE RoomOperation
  BY <1>1, <1>3 DEF RoomOperation, CreateRoom, JoinRoom, LeaveRoom, Invite
<1>4. CASE \E pair \in Meetings : \E card \in Cards[pair[2]] : Meet(pair[1], pair[2], card)
  BY <1>1, <1>4 DEF Meet
<1> QED
  BY <1>1, <1>2, <1>3, <1>4 DEF Next, vars

LEMMA NeedlessLemma ==
  ASSUME DirectoryInv, [Next]_vars, NEW c \in Calls,
         call[c].stage = "look", call'[c].stage = "send", rooms' # rooms
  PROVE  standing[c] = {}
<1>1. CallStep(c)
  BY OwnStep
<1>2. call[c] # Free
  BY DEF Free
<1>3. CreateDm(c)
  <2>1. ~ \E a \in Active : \/ \E card \in Cards[a] : RegisterCard(c, a, card)
                            \/ \E b \in Active : SendTo(c, a, b)
                            \/ \E want \in Wants : Discover(c, a, want)
    BY <1>2 DEF RegisterCard, SendTo, Discover
  <2>2. ~ \E r \in DOMAIN rooms : LookAt(c, r) \/ LookFails(c, r) \/ VisitJoin(c, r)
                                  \/ VisitRefused(c, r)
    BY DEF LookAt, LookFails, VisitJoin, VisitRefused
  <2>3. /\ ~ \E taken \in BOOLEAN, card \in UNION {Cards[a] : a \in Active} : PutCard(c, taken, card)
        /\ ~ \E answered \in BOOLEAN : VisitRead(c, answered)
    BY DEF PutCard, VisitRead
  <2>4. ~ (SendEnds(c) \/ PutEnds(c) \/ Return(c))
    BY DEF SendEnds, PutEnds, Return
  <2>5. ~ (VisitLeave(c) \/ VisitRaises(c) \/ Finish(c))
    BY DEF VisitLeave, VisitRaises, Finish
  <2> QED  BY <1>1, <2>1, <2>2, <2>3, <2>4, <2>5 DEF CallStep
<1>4. standing[c] \subseteq call[c].todo
  BY DEF DirectoryInv, LooksOK, LookRight
<1> QED
  BY <1>3, <1>4 DEF CreateDm

(* _ensure_dm makes a room only when none was there to be found, whatever  *)
(* the others create, join and leave meanwhile (amp_sdk.py:511-524).       *)
THEOREM RoomsAreNeeded == Spec => NoNeedlessRoom
<1> DEFINE Needed ==
      \A c \in Calls :
        (call[c].stage = "look" /\ call'[c].stage = "send" /\ rooms' # rooms) => standing[c] = {}
<1>1. DirectoryInv /\ [Next]_vars => [Needed]_vars
  BY NeedlessLemma
<1> QED
  BY <1>1, DirectoryInvariant, PTL DEF Spec, NoNeedlessRoom

-----------------------------------------------------------------------------
(* What a discovery knows.                                                 *)

\* The cards found are those the agent has now, but for agents that sent another.
Fresh(found, cards, again) ==
  \A b \in DOMAIN found \cap DOMAIN cards : found[b] = cards[b] \/ b \in again

RenewedOK == renewed \in [Calls -> SUBSET Agents]

FreshInv ==
  /\ RenewedOK
  /\ \A c \in Calls : Walks(c) => Fresh(call[c].found, peers[call[c].by], renewed[c])

LEMMA FreshInit == Init => FreshInv
  BY DEF Init, FreshInv, RenewedOK, Walks, Free

LEMMA MeetFresh ==
  ASSUME DirectoryInv, FreshInv, NEW a \in Agents, NEW b \in Agents,
         NEW card \in SUBSET Capabilities, Meet(a, b, card)
  PROVE  FreshInv'
<1>1. PICK new \in Decks : new = [x \in {b} |-> card]
  <2>1. [x \in {b} |-> card] \in [{b} -> SUBSET Capabilities]
    OBVIOUS
  <2> QED  BY <2>1 DEF Decks
<1>2. peers \in [Agents -> Decks] /\ peers' = [peers EXCEPT ![a] = Added(new, peers[a])]
  BY <1>1 DEF Meet, DirectoryInv, PeersOK
<1>3. PICK old \in Decks : old = peers[a]
  BY <1>2
<1>4. PICK cards : cards = Added(new, old)
  OBVIOUS
<1>5. /\ DOMAIN cards = {b} \cup DOMAIN old /\ cards[b] = card
      /\ \A o \in DOMAIN old \ {b} : cards[o] = old[o]
  BY <1>1, <1>4, AddedLemma
<1>6. peers'[a] = cards /\ \A x \in Agents : x # a => peers'[x] = peers[x]
  BY <1>2, <1>3, <1>4
<1>7. /\ renewed \in [Calls -> SUBSET Agents]
      /\ renewed' = [c \in Calls |->
           renewed[c] \cup {x \in {b} : /\ Walks(c) /\ call[c].by = a
                                        /\ x \in DOMAIN call[c].found
                                        /\ call[c].found[x] # card}]
      /\ call' = call
  BY DEF Meet, FreshInv, RenewedOK
<1>8. RenewedOK'
  BY <1>7 DEF RenewedOK
<1>9. ASSUME NEW c \in Calls, Walks(c)
      PROVE  Fresh(call[c].found, peers'[call[c].by], renewed'[c])
  <2>1. call[c].by \in Agents
    BY <1>9, WalkerLemma DEF Walks, Walking, Visiting
  <2>2. Fresh(call[c].found, peers[call[c].by], renewed[c]) /\ renewed[c] \subseteq renewed'[c]
    BY <1>7, <1>9 DEF FreshInv
  <2>3. CASE call[c].by # a
    BY <1>6, <2>1, <2>2, <2>3 DEF Fresh
  <2>4. CASE call[c].by = a
    <3> SUFFICES ASSUME NEW o \in DOMAIN call[c].found \cap DOMAIN cards
                 PROVE  call[c].found[o] = cards[o] \/ o \in renewed'[c]
      BY <1>6, <2>4 DEF Fresh
    <3>1. CASE o = b
      BY <1>5, <1>7, <1>9, <2>4, <3>1
    <3>2. CASE o # b
      BY <1>3, <1>5, <2>2, <2>4, <3>2 DEF Fresh
    <3> QED  BY <3>1, <3>2
  <2> QED  BY <2>3, <2>4
<1>10. ASSUME NEW c \in Calls, Walks(c)'
       PROVE  Fresh(call'[c].found, peers'[call'[c].by], renewed'[c])
  BY <1>7, <1>9, <1>10 DEF Walks
<1> QED
  BY <1>8, <1>10 DEF FreshInv

\* A discovery that goes on by a step of its own has the cards it had: what it
\* reads in a room adds none.
LEMMA WalkKeeps ==
  ASSUME DirectoryInv, NEW c \in Calls, CallStep(c), Walks(c)',
         ~ \E a \in Active : \E want \in Wants : Discover(c, a, want)
  PROVE  /\ Walks(c) /\ call'[c].by = call[c].by
         /\ DOMAIN call'[c].found = DOMAIN call[c].found
         /\ \A b \in DOMAIN call[c].found : call'[c].found[b] = call[c].found[b]
<1>1. call'[c].stage \in {"walk", "read", "leave"}
  BY DEF Walks
<1>2. ASSUME NEW record, SetCall(c, record)
      PROVE  call'[c] = record /\ record.stage \in {"walk", "read", "leave"}
  BY <1>1, <1>2, SetCallLemma
<1>3. ASSUME NEW a \in Active PROVE ~ (\E card \in Cards[a] : RegisterCard(c, a, card))
                                    /\ ~ \E b \in Active : SendTo(c, a, b)
  <2>1. ASSUME NEW card \in Cards[a], RegisterCard(c, a, card) PROVE FALSE
    <3>1. PICK record : record = [stage |-> "put", by |-> a, room |-> Len(rooms) + 1]
      OBVIOUS
    <3>2. SetCall(c, record) /\ record.stage = "put"
      BY <2>1, <3>1 DEF RegisterCard
    <3> QED  BY <1>2, <3>2
  <2>2. ASSUME NEW b \in Active, SendTo(c, a, b) PROVE FALSE
    <3>1. PICK record : record = [stage |-> "look", by |-> a, with |-> b, todo |-> Joined(a), room |-> 0]
      OBVIOUS
    <3>2. SetCall(c, record) /\ record.stage = "look"
      BY <2>2, <3>1 DEF SendTo
    <3> QED  BY <1>2, <3>2
  <2> QED  BY <2>1, <2>2
<1>4. ~ (SendEnds(c) \/ PutEnds(c) \/ Return(c))
  <2>1. ~ SetCall(c, Free)
    BY <1>2 DEF Free
  <2> QED  BY <2>1 DEF SendEnds, PutEnds, Return
<1>5. call[c].stage \in {"look", "send"} => call[c] \in Senders(DOMAIN rooms)
  BY SortLemma DEF DirectoryInv, CallsOK
<1>6. call[c].stage \in {"put", "rules"} => call[c] \in Putters(DOMAIN rooms)
  BY SortLemma DEF DirectoryInv, CallsOK
<1>7. ASSUME NEW r \in DOMAIN rooms PROVE ~ LookAt(c, r) /\ ~ LookFails(c, r)
  <2>1. SUFFICES ASSUME LookAt(c, r) \/ LookFails(c, r) PROVE FALSE
    OBVIOUS
  <2>2. PICK old \in Senders(DOMAIN rooms) : old = call[c]
    BY <1>5, <2>1 DEF LookAt, LookFails
  <2>3. PICK sends : sends = [old EXCEPT !.stage = "send", !.room = r]
    OBVIOUS
  <2>4. PICK looks : looks = [old EXCEPT !.todo = old.todo \ {r}]
    OBVIOUS
  <2>5. old.stage = "look" /\ (SetCall(c, sends) \/ SetCall(c, looks))
    BY <2>1, <2>2, <2>3, <2>4 DEF LookAt, LookFails, RestAfter
  <2>6. sends.stage = "send" /\ looks.stage = "look"
    BY <2>3, <2>4, <2>5 DEF Senders
  <2> QED  BY <1>2, <2>5, <2>6
<1>8. ~ CreateDm(c)
  <2>1. SUFFICES ASSUME CreateDm(c) PROVE FALSE
    OBVIOUS
  <2>2. PICK old \in Senders(DOMAIN rooms) : old = call[c]
    BY <1>5, <2>1 DEF CreateDm
  <2>3. PICK record : record = [old EXCEPT !.stage = "send", !.room = Len(rooms) + 1]
    OBVIOUS
  <2>4. SetCall(c, record) /\ record.stage = "send"
    BY <2>1, <2>2, <2>3 DEF CreateDm, Senders
  <2> QED  BY <1>2, <2>4
<1>9. ASSUME NEW taken \in BOOLEAN, NEW card PROVE ~ PutCard(c, taken, card)
  <2>1. SUFFICES ASSUME PutCard(c, taken, card) PROVE FALSE
    OBVIOUS
  <2>2. PICK old \in Putters(DOMAIN rooms) : old = call[c]
    BY <1>6, <2>1 DEF PutCard
  <2>3. PICK record : record = [old EXCEPT !.stage = "rules"]
    OBVIOUS
  <2>4. SetCall(c, record) /\ record.stage = "rules"
    BY <2>1, <2>2, <2>3 DEF PutCard, Putters
  <2> QED  BY <1>2, <2>4
<1>10. ~ Finish(c)
  <2>1. SUFFICES ASSUME Finish(c) PROVE FALSE
    OBVIOUS
  <2>2. PICK found, b :
          SetCall(c, [stage |-> "done", by |-> call[c].by, found |-> found,
                      seen |-> call[c].seen, answer |-> b])
    BY <2>1 DEF Finish
  <2>3. PICK record : record = [stage |-> "done", by |-> call[c].by, found |-> found,
                                seen |-> call[c].seen, answer |-> b]
    OBVIOUS
  <2>4. SetCall(c, record) /\ record.stage = "done"
    BY <2>2, <2>3
  <2> QED  BY <1>2, <2>4
<1>11. ASSUME NEW r \in DOMAIN rooms, VisitJoin(c, r) \/ VisitRefused(c, r)
       PROVE  Walks(c) /\ call'[c].by = call[c].by /\ call'[c].found = call[c].found
  <2>1. call[c].stage = "walk"
    BY <1>11 DEF VisitJoin, VisitRefused
  <2>2. PICK old \in Walking(DOMAIN rooms) : old = call[c]
    BY <2>1, WalkerLemma
  <2>3. PICK reads : reads = [old EXCEPT !.stage = "read", !.room = r, !.todo = old.todo \ {r}]
    OBVIOUS
  <2>4. PICK walks : walks = [old EXCEPT !.todo = old.todo \ {r}]
    OBVIOUS
  <2>5. SetCall(c, reads) \/ SetCall(c, walks)
    BY <1>11, <2>2, <2>3, <2>4 DEF VisitJoin, VisitRefused
  <2>6. call'[c] = reads \/ call'[c] = walks
    BY <1>2, <2>5
  <2>7. reads.by = old.by /\ reads.found = old.found /\ walks.by = old.by /\ walks.found = old.found
    BY <2>3, <2>4 DEF Walking
  <2> QED  BY <2>1, <2>2, <2>6, <2>7 DEF Walks
<1>12. ASSUME VisitLeave(c) \/ VisitRaises(c)
       PROVE  Walks(c) /\ call'[c].by = call[c].by /\ call'[c].found = call[c].found
  <2>1. call[c].stage \in {"read", "leave"}
    BY <1>12 DEF VisitLeave, VisitRaises
  <2>2. PICK old \in Visiting(DOMAIN rooms) : old = call[c]
    BY <2>1, WalkerLemma
  <2>3. PICK record : record = [old EXCEPT !.stage = "walk"]
    OBVIOUS
  <2>4. SetCall(c, record)
    BY <1>12, <2>2, <2>3 DEF VisitLeave, VisitRaises
  <2>5. record.by = old.by /\ record.found = old.found
    BY <2>3 DEF Visiting
  <2> QED  BY <1>2, <2>1, <2>2, <2>4, <2>5 DEF Walks
<1>13. ASSUME NEW answered \in BOOLEAN, VisitRead(c, answered)
       PROVE  /\ Walks(c) /\ call'[c].by = call[c].by
              /\ DOMAIN call'[c].found = DOMAIN call[c].found
              /\ \A b \in DOMAIN call[c].found : call'[c].found[b] = call[c].found[b]
  <2>1. call[c].stage = "read"
    BY <1>13 DEF VisitRead
  <2>2. PICK old \in Visiting(DOMAIN rooms) : old = call[c]
    BY <2>1, WalkerLemma
  <2>3. PICK r \in DOMAIN rooms : r = old.room
    BY DEF Visiting
  <2>4. PICK more \in Decks : more = CardsIn(rooms[r]) /\ DOMAIN more = {}
    BY RoomFields, CardsInLemma
  <2>5. PICK found : found = Added(old.found, more)
    OBVIOUS
  <2>6. DOMAIN found = DOMAIN old.found /\ \A b \in DOMAIN old.found : found[b] = old.found[b]
    <3>1. PICK before \in Decks : before = old.found
      BY DEF Visiting
    <3>2. found = Added(before, more)
      BY <2>5, <3>1
    <3>3. /\ DOMAIN found = DOMAIN before \cup DOMAIN more
          /\ \A b \in DOMAIN before : found[b] = before[b]
      BY <3>2, AddedLemma
    <3> QED  BY <2>4, <3>1, <3>3
  <2>7. PICK seen :
          seen = IF rooms[r].content = "none" THEN old.seen ELSE old.seen \cup {rooms[r].owner}
    OBVIOUS
  <2>8. PICK reads : reads = [old EXCEPT !.stage = "leave", !.found = found, !.seen = seen]
    OBVIOUS
  <2>9. PICK leaves : leaves = [old EXCEPT !.stage = "leave"]
    OBVIOUS
  <2>10. SetCall(c, reads) \/ SetCall(c, leaves)
    BY <1>13, <2>2, <2>3, <2>4, <2>5, <2>7, <2>8, <2>9 DEF VisitRead
  <2>11. call'[c] = reads \/ call'[c] = leaves
    BY <1>2, <2>10
  <2>12. reads.by = old.by /\ reads.found = found /\ leaves.by = old.by /\ leaves.found = old.found
    BY <2>8, <2>9 DEF Visiting
  <2> QED  BY <2>1, <2>2, <2>6, <2>11, <2>12 DEF Walks
<1> QED
  BY <1>3, <1>4, <1>7, <1>8, <1>9, <1>10, <1>11, <1>12, <1>13 DEF CallStep

\* What a step of a call leaves alone.
LEMMA CallStepLeaves ==
  ASSUME NEW c \in Calls, CallStep(c),
         ~ \E a \in Active : \E want \in Wants : Discover(c, a, want)
  PROVE  peers' = peers /\ renewed' = renewed
<1>1. CASE \E a \in Active : \/ \E card \in Cards[a] : RegisterCard(c, a, card)
                             \/ \E b \in Active : SendTo(c, a, b)
  BY <1>1 DEF RegisterCard, SendTo
<1>2. CASE \E r \in DOMAIN rooms : LookAt(c, r) \/ LookFails(c, r) \/ VisitJoin(c, r)
                                   \/ VisitRefused(c, r)
  BY <1>2 DEF LookAt, LookFails, VisitJoin, VisitRefused
<1>3. CASE \/ \E taken \in BOOLEAN, card \in UNION {Cards[a] : a \in Active} : PutCard(c, taken, card)
           \/ \E answered \in BOOLEAN : VisitRead(c, answered)
  BY <1>3 DEF PutCard, VisitRead
<1>4. CASE CreateDm(c) \/ SendEnds(c) \/ PutEnds(c) \/ Return(c)
  BY <1>4 DEF CreateDm, SendEnds, PutEnds, Return
<1>5. CASE VisitLeave(c) \/ VisitRaises(c) \/ Finish(c)
  BY <1>5 DEF VisitLeave, VisitRaises, Finish
<1> QED
  BY <1>1, <1>2, <1>3, <1>4, <1>5 DEF CallStep

LEMMA DiscoverFresh ==
  ASSUME DirectoryInv, FreshInv, NEW c \in Calls, NEW a \in Agents, NEW want, Discover(c, a, want)
  PROVE  FreshInv'
<1>1. PICK todo :
        SetCall(c, [stage |-> "walk", by |-> a, want |-> want, todo |-> todo, room |-> 0,
                    found |-> Matching(a, want), seen |-> {}])
  BY DEF Discover
<1>2. PICK record : record = [stage |-> "walk", by |-> a, want |-> want, todo |-> todo, room |-> 0,
                              found |-> Matching(a, want), seen |-> {}]
  OBVIOUS
<1>3. call'[c] = record /\ \A d \in Calls : d # c => call'[d] = call[d]
  BY <1>1, <1>2, SetCallLemma
<1>4. /\ peers' = peers /\ renewed' = [renewed EXCEPT ![c] = {}]
      /\ renewed \in [Calls -> SUBSET Agents]
  BY DEF Discover, FreshInv, RenewedOK
<1>5. RenewedOK'
  BY <1>4 DEF RenewedOK
<1>6. Fresh(record.found, peers[record.by], {})
  <2>1. record.found = Matching(a, want) /\ record.by = a
    BY <1>2
  <2>2. \A b \in DOMAIN Matching(a, want) : Matching(a, want)[b] = peers[a][b]
    BY MatchingLemma DEF DirectoryInv
  <2> QED  BY <2>1, <2>2 DEF Fresh
<1>7. ASSUME NEW d \in Calls, Walks(d)'
      PROVE  Fresh(call'[d].found, peers'[call'[d].by], renewed'[d])
  <2>1. CASE d = c
    BY <1>3, <1>4, <1>6, <2>1 DEF Fresh
  <2>2. CASE d # c
    BY <1>3, <1>4, <1>7, <2>2 DEF FreshInv, Walks
  <2> QED  BY <2>1, <2>2
<1> QED
  BY <1>5, <1>7 DEF FreshInv

LEMMA FreshNext == DirectoryInv /\ FreshInv /\ [Next]_vars => FreshInv'
<1> SUFFICES ASSUME DirectoryInv, FreshInv, [Next]_vars PROVE FreshInv'
  OBVIOUS
<1>1. CASE UNCHANGED <<call, peers, renewed>>
  BY <1>1 DEF FreshInv, RenewedOK, Walks
<1>2. CASE UNCHANGED vars
  BY <1>1, <1>2 DEF vars
<1>3. CASE RoomOperation
  BY <1>1, <1>3 DEF RoomOperation, CreateRoom, JoinRoom, LeaveRoom, Invite
<1>4. CASE \E pair \in Meetings : \E card \in Cards[pair[2]] : Meet(pair[1], pair[2], card)
  <2>1. PICK pair \in Meetings : \E card \in Cards[pair[2]] : Meet(pair[1], pair[2], card)
    BY <1>4
  <2>2. pair[1] \in Agents /\ pair[2] \in Agents
    BY DirectoryAssumption
  <2>3. Cards[pair[2]] \subseteq SUBSET Capabilities
    BY <2>2, DirectoryAssumption
  <2> QED  BY <2>1, <2>2, <2>3, MeetFresh
<1>5. ASSUME NEW c \in Calls, CallStep(c) PROVE FreshInv'
  <2>1. CASE \E a \in Active : \E want \in Wants : Discover(c, a, want)
    <3>1. Active \subseteq Agents
      BY DirectoryAssumption
    <3> QED  BY <2>1, <3>1, DiscoverFresh
  <2>2. CASE ~ \E a \in Active : \E want \in Wants : Discover(c, a, want)
    <3>1. peers' = peers /\ renewed' = renewed
      BY <1>5, <2>2, CallStepLeaves
    <3>2. \A d \in Calls : d # c => call'[d] = call[d]
      <4>1. PICK record : SetCall(c, record)
        BY <1>5, CallStepSets
      <4> QED  BY <4>1, SetCallLemma
    <3>3. ASSUME NEW d \in Calls, Walks(d)'
          PROVE  Fresh(call'[d].found, peers'[call'[d].by], renewed'[d])
      <4>1. CASE d = c
        <5>1. /\ Walks(c) /\ call'[c].by = call[c].by
              /\ DOMAIN call'[c].found = DOMAIN call[c].found
              /\ \A b \in DOMAIN call[c].found : call'[c].found[b] = call[c].found[b]
          BY <1>5, <2>2, <3>3, <4>1, WalkKeeps
        <5>2. Fresh(call[c].found, peers[call[c].by], renewed[c])
          BY <5>1 DEF FreshInv
        <5> QED  BY <3>1, <4>1, <5>1, <5>2 DEF Fresh
      <4>2. CASE d # c
        BY <3>1, <3>2, <3>3, <4>2 DEF FreshInv, Walks
      <4> QED  BY <4>1, <4>2
    <3>4. RenewedOK'
      BY <3>1 DEF FreshInv, RenewedOK
    <3> QED  BY <3>3, <3>4 DEF FreshInv
  <2> QED  BY <2>1, <2>2
<1> QED
  BY <1>2, <1>3, <1>4, <1>5 DEF Next

(* While a discovery goes on, the cards it took are those its agent has,   *)
(* but for agents that have sent another since (amp_sdk.py:370-378,        *)
(* 859-863, 893).                                                          *)
THEOREM TakenCardsFresh == Spec => []FreshInv
  BY FreshInit, FreshNext, DirectoryInvariant, PTL DEF Spec

LEMMA TypesLemma == DirectoryInv /\ FreshInv => DirectoryTypeOK
<1> SUFFICES ASSUME DirectoryInv, FreshInv PROVE DirectoryTypeOK
  OBVIOUS
<1>1. Records(DOMAIN rooms) \subseteq CallRecords
  BY DEF Records, CallRecords, Senders, Putters, Walking, Visiting, Answering
<1> QED
  BY <1>1 DEF DirectoryInv, RoomsOK, PeersOK, CallsOK, StandingOK, FreshInv, RenewedOK, DirectoryTypeOK

(* Types; a call holds on to rooms that exist (amp_sdk.py:504-524,         *)
(* 872-886, 981-1001).                                                     *)
THEOREM DirectoryTypes == Spec => []DirectoryTypeOK
  BY TypesLemma, DirectoryInvariant, TakenCardsFresh, PTL

-----------------------------------------------------------------------------
(* The best agent.                                                         *)

\* A set of numbers that is not empty and bounded has a greatest element.
LEMMA GreatestOne ==
  ASSUME NEW T, T \subseteq Nat, T # {}, NEW bound \in Nat, \A x \in T : x <= bound
  PROVE  \E x \in T : \A y \in T : y <= x
<1> DEFINE U == {bound - x : x \in T}
<1>1. U \subseteq Nat /\ U # {}
  <2>1. \A x \in T : bound - x \in Nat
    OBVIOUS
  <2> QED  BY <2>1
<1>2. IsWellFoundedOn(OpToRel(<, Nat), Nat)
  BY NatLessThanWellFounded
<1>3. PICK u \in U : \A v \in U : ~ (<<v, u>> \in OpToRel(<, Nat))
  BY <1>1, <1>2, WFMin, Zenon
<1>4. \A v \in U : ~ (v < u)
  BY <1>1, <1>3 DEF OpToRel
<1>5. PICK x \in T : u = bound - x
  BY <1>3
<1>6. ASSUME NEW y \in T PROVE y <= x
  <2>1. ~ (bound - y < bound - x)
    BY <1>4, <1>5
  <2>2. x \in Nat /\ y \in Nat
    OBVIOUS
  <2> QED  BY <2>1, <2>2
<1> QED
  BY <1>6

Preferring(card) == Cardinality(Preferred \cap card)

LEMMA PreferringLemma ==
  ASSUME NEW card
  PROVE  /\ Preferring(card) \in Nat /\ Cardinality(Preferred) \in Nat
         /\ Preferring(card) <= Cardinality(Preferred)
         /\ Preferred # {} => Cardinality(Preferred) >= 1
<1>1. IsFiniteSet(Preferred)
  BY DirectoryAssumption
<1>2. Preferred \cap card \subseteq Preferred
  OBVIOUS
<1>3. IsFiniteSet(Preferred \cap card) /\ Cardinality(Preferred \cap card) <= Cardinality(Preferred)
  BY <1>1, <1>2, FS_Subset
<1>4. Preferring(card) \in Nat /\ Cardinality(Preferred) \in Nat
  BY <1>1, <1>3, FS_CardinalityType DEF Preferring
<1>5. Preferred # {} => Cardinality(Preferred) # 0
  BY <1>1, FS_EmptySet
<1> QED
  BY <1>3, <1>4, <1>5 DEF Preferring

\* Scores are numbers up to a bound, and rank those that have what is required
\* by what they have of the preferred.
LEMMA ScoreLemma ==
  ASSUME NEW card
  PROVE  /\ Score(card) \in Nat /\ Score(card) <= 10 + 10 * Cardinality(Preferred)
         /\ Required \subseteq card => Score(card) > 0
         /\ Score(card) > 0 => Required \subseteq card
         /\ Preferred # {} /\ Required \subseteq card =>
              Score(card) = 6 * Cardinality(Preferred) + 4 * Preferring(card)
<1>1. PICK n \in Nat : n = Cardinality(Preferred)
  BY PreferringLemma
<1>2. PICK k \in Nat : k = Preferring(card) /\ k <= n /\ (Preferred # {} => n >= 1)
  BY <1>1, PreferringLemma
<1>3. CASE Required = {} /\ Preferred = {}
  BY <1>1, <1>3 DEF Score
<1>4. CASE ~ (Required = {} /\ Preferred = {}) /\ ~ Required \subseteq card
  BY <1>1, <1>4 DEF Score
<1>5. CASE Required # {} /\ Preferred = {} /\ Required \subseteq card
  BY <1>1, <1>5 DEF Score
<1>6. CASE Preferred # {} /\ Required \subseteq card
  <2>1. Score(card) = 6 * n + 4 * k
    BY <1>1, <1>2, <1>6 DEF Score, Preferring
  <2>2. 6 * n + 4 * k \in Nat /\ 6 * n + 4 * k <= 10 + 10 * n /\ 6 * n + 4 * k > 0
    BY <1>2, <1>6
  <2> QED  BY <1>1, <1>2, <1>6, <2>1, <2>2
<1> QED
  BY <1>3, <1>4, <1>5, <1>6

\* No card found serves better than that of one of the best.
LEMMA BestLemma ==
  ASSUME NEW found \in Decks, NEW answer \in Best(found), NEW b \in DOMAIN found
  PROVE  ~ ServesBetter(found[b], answer, found)
<1>1. SUFFICES ASSUME ServesBetter(found[b], answer, found) PROVE FALSE
  OBVIOUS
<1>2. Required \subseteq found[b] /\ Score(found[b]) > 0
  BY <1>1, ScoreLemma DEF ServesBetter
<1> DEFINE best == {x \in DOMAIN found : /\ Score(found[x]) > 0
                                        /\ \A o \in DOMAIN found : Score(found[o]) <= Score(found[x])}
<1>3. best # {}
  <2> DEFINE scores == {Score(found[x]) : x \in DOMAIN found}
  <2>1. PICK bound \in Nat : bound = 10 + 10 * Cardinality(Preferred)
    BY PreferringLemma
  <2>2. \A x \in DOMAIN found : Score(found[x]) \in Nat /\ Score(found[x]) <= bound
    BY <2>1, ScoreLemma
  <2>3. scores \subseteq Nat /\ scores # {} /\ \A s \in scores : s <= bound
    BY <2>2
  <2>4. PICK s \in scores : \A y \in scores : y <= s
    BY <2>3, GreatestOne
  <2>5. PICK x \in DOMAIN found : s = Score(found[x])
    BY <2>4
  <2>6. \A o \in DOMAIN found : Score(found[o]) <= Score(found[x])
    BY <2>4, <2>5
  <2>7. Score(found[x]) > 0
    BY <1>2, <2>2, <2>6
  <2> QED  BY <2>6, <2>7
<1>4. answer \in best
  BY <1>3 DEF Best
<1>5. answer \in DOMAIN found /\ Score(found[answer]) > 0 /\ Score(found[b]) <= Score(found[answer])
  BY <1>4
<1>6. answer \in Agents
  BY <1>5, DeckLemma
<1>7. Required \subseteq found[answer] /\ answer # NoAgent
  BY <1>5, <1>6, ScoreLemma, DirectoryAssumption
<1>8. Preferring(found[b]) > Preferring(found[answer])
  BY <1>1, <1>7 DEF ServesBetter, Preferring
<1>9. Preferred # {}
  <2>1. SUFFICES ASSUME Preferred = {} PROVE FALSE
    OBVIOUS
  <2>2. Preferred \cap found[b] = {} /\ Preferred \cap found[answer] = {}
    BY <2>1
  <2>3. Preferring(found[b]) = Preferring(found[answer])
    BY <2>2 DEF Preferring
  <2>4. Preferring(found[b]) \in Nat
    BY PreferringLemma
  <2> QED  BY <1>8, <2>3, <2>4
<1>10. /\ Score(found[b]) = 6 * Cardinality(Preferred) + 4 * Preferring(found[b])
       /\ Score(found[answer]) = 6 * Cardinality(Preferred) + 4 * Preferring(found[answer])
  BY <1>2, <1>7, <1>9, ScoreLemma
<1>11. PICK n \in Nat : n = Cardinality(Preferred)
  BY PreferringLemma
<1>12. PICK k \in Nat : k = Preferring(found[b])
  BY PreferringLemma
<1>13. PICK l \in Nat : l = Preferring(found[answer])
  BY PreferringLemma
<1>14. 6 * n + 4 * k <= 6 * n + 4 * l /\ k > l
  BY <1>5, <1>8, <1>10, <1>11, <1>12, <1>13
<1> QED
  BY <1>14

LEMMA RouteLemma ==
  ASSUME DirectoryInv, FreshInv, [Next]_vars, NEW c \in Calls,
         call[c].stage = "walk", call'[c].stage = "done",
         NEW b \in DOMAIN Matching(call[c].by, call[c].want) \ renewed[c]
  PROVE  ~ ServesBetter(Matching(call[c].by, call[c].want)[b], call'[c].answer, call'[c].found)
<1>1. CallStep(c)
  BY OwnStep
<1>2. call[c] # Free
  BY DEF Free
<1>3. PICK old \in Walking(DOMAIN rooms) : old = call[c]
  BY WalkerLemma
<1>4. Finish(c)
  <2>1. ~ \E a \in Active : \/ \E card \in Cards[a] : RegisterCard(c, a, card)
                            \/ \E x \in Active : SendTo(c, a, x)
                            \/ \E want \in Wants : Discover(c, a, want)
    BY <1>2 DEF RegisterCard, SendTo, Discover
  <2>2. ASSUME NEW r \in DOMAIN rooms PROVE ~ VisitJoin(c, r) /\ ~ VisitRefused(c, r)
    <3>1. [old EXCEPT !.stage = "read", !.room = r, !.todo = old.todo \ {r}].stage = "read"
          /\ [old EXCEPT !.todo = old.todo \ {r}].stage = "walk"
      BY <1>3 DEF Walking
    <3>2. PICK x : x = [old EXCEPT !.stage = "read", !.room = r, !.todo = old.todo \ {r}]
      OBVIOUS
    <3>3. PICK y : y = [old EXCEPT !.todo = old.todo \ {r}]
      OBVIOUS
    <3>4. ~ SetCall(c, x) /\ ~ SetCall(c, y)
      BY <3>1, <3>2, <3>3, SetCallLemma
    <3> QED  BY <1>3, <3>2, <3>3, <3>4 DEF VisitJoin, VisitRefused
  <2>3. ~ \E r \in DOMAIN rooms : LookAt(c, r) \/ LookFails(c, r)
    BY DEF LookAt, LookFails
  <2>4. /\ ~ \E taken \in BOOLEAN, card \in UNION {Cards[a] : a \in Active} : PutCard(c, taken, card)
        /\ ~ \E answered \in BOOLEAN : VisitRead(c, answered)
    BY DEF PutCard, VisitRead
  <2>5. ~ (CreateDm(c) \/ SendEnds(c) \/ PutEnds(c) \/ Return(c))
    BY DEF CreateDm, SendEnds, PutEnds, Return
  <2>6. ~ (VisitLeave(c) \/ VisitRaises(c))
    BY DEF VisitLeave, VisitRaises
  <2> QED  BY <1>1, <2>1, <2>2, <2>3, <2>4, <2>5, <2>6 DEF CallStep
<1>5. old.by \in Agents /\ old.found \in Decks
  BY <1>3 DEF Walking
<1>6. PICK cards \in Decks : cards = Matching(old.by, old.want)
  BY <1>5, MatchingLemma DEF DirectoryInv
<1>7. PICK found \in Decks : found = Added(old.found, cards)
  BY <1>5, AddedLemma
<1>8. PICK answer \in Best(found) :
        SetCall(c, [stage |-> "done", by |-> old.by, found |-> found, seen |-> old.seen,
                    answer |-> answer])
  BY <1>3, <1>4, <1>6, <1>7 DEF Finish, WithRegistry
<1>9. PICK record : record = [stage |-> "done", by |-> old.by, found |-> found, seen |-> old.seen,
                              answer |-> answer]
  OBVIOUS
<1>10. call'[c] = record /\ record.answer = answer /\ record.found = found
  BY <1>8, <1>9, SetCallLemma
<1>11. b \in DOMAIN cards \ renewed[c]
  BY <1>3, <1>6
<1>12. b \in DOMAIN found /\ found[b] = cards[b]
  <2>1. DOMAIN cards \subseteq DOMAIN peers[old.by] /\ cards[b] = peers[old.by][b]
    BY <1>5, <1>6, <1>11, MatchingLemma DEF DirectoryInv
  <2>2. Fresh(old.found, peers[old.by], renewed[c])
    BY <1>3 DEF FreshInv, Walks
  <2>3. b \in DOMAIN old.found => old.found[b] = cards[b]
    BY <1>11, <2>1, <2>2 DEF Fresh
  <2>4. PICK before \in Decks : before = old.found
    BY <1>5
  <2>5. found = Added(before, cards)
    BY <1>7, <2>4
  <2>6. /\ DOMAIN found = DOMAIN before \cup DOMAIN cards
        /\ \A o \in DOMAIN before : found[o] = before[o]
        /\ \A o \in DOMAIN cards \ DOMAIN before : found[o] = cards[o]
    BY <2>5, AddedLemma
  <2> QED  BY <1>11, <2>3, <2>4, <2>6
<1>13. ~ ServesBetter(found[b], answer, found)
  BY <1>12, BestLemma
<1> QED
  BY <1>3, <1>6, <1>10, <1>12, <1>13

(* route_task passes over no peer without cause: no card the caller has by *)
(* then serves better, cards that came during the walk included, and but   *)
(* for agents whose card had been taken before they sent another           *)
(* (amp_sdk.py:859-964).                                                   *)
THEOREM RoutesServe == Spec => RouteServes
<1> DEFINE Served ==
      \A c \in Calls :
        (call[c].stage = "walk" /\ call'[c].stage = "done") =>
          LET cards == Matching(call[c].by, call[c].want)
          IN  \A b \in DOMAIN cards \ renewed[c] :
                ~ ServesBetter(cards[b], call'[c].answer, call'[c].found)
<1>1. DirectoryInv /\ FreshInv /\ [Next]_vars => [Served]_vars
  <2> SUFFICES ASSUME DirectoryInv, FreshInv, [Next]_vars, NEW c \in Calls,
                      call[c].stage = "walk", call'[c].stage = "done"
               PROVE  \A b \in DOMAIN Matching(call[c].by, call[c].want) \ renewed[c] :
                        ~ ServesBetter(Matching(call[c].by, call[c].want)[b], call'[c].answer,
                                       call'[c].found)
    OBVIOUS
  <2> QED  BY RouteLemma
<1> QED
  BY <1>1, DirectoryInvariant, TakenCardsFresh, PTL DEF Spec, RouteServes

=============================================================================
