------------------------------- MODULE AuditLog -------------------------------
(***************************************************************************)
(* AuditLogger (armp_audit.py): a list of events, each with the hash of    *)
(* the one before it.                                                      *)
(*                                                                         *)
(* A hash is modelled by what it is a hash of: that of an event is the     *)
(* previous hash with the event's payload and time appended, and so the    *)
(* sequence of all of them up to the event; genesis is the empty sequence. *)
(* An event's session and address are stored and not hashed.  Events carry *)
(* the wall clock's time, which may be set back.                           *)
(***************************************************************************)
EXTENDS Lists

CONSTANTS
  Payloads,       \* what an event says: type, actor, action, result, details
  Origins,        \* where it came from: session_id, source_ip
  Retention,      \* retention_days, in units of the clock; 0 keeps all
  Capacity,       \* max_events
  AuditTimes,     \* the times the wall clock may show
  MaxLogged,      \* bound on the events logged: the code has none
  MaxChanges      \* bound on the changes somebody makes to stored events

ASSUME AuditAssumption ==
  /\ {Retention, Capacity, MaxLogged, MaxChanges} \subseteq Nat
  /\ AuditTimes \subseteq Nat /\ AuditTimes # {}

VARIABLES
  auditNow,   \* datetime.now
  events,     \* _events; ghost: at, the number of the event among all logged,
              \* and rehashed, whether a hash it carries was changed since
  lastHash,   \* _last_hash
  changes     \* ghost: how many changes were made to stored events

auditVars == <<auditNow, events, lastHash, changes>>

Genesis == <<>>

\* AuditEvent.compute_hash
ComputeHash(payload, time, previous) == Append(previous, <<payload, time>>)

AuditInit ==
  /\ auditNow \in AuditTimes
  /\ events = <<>>
  /\ lastHash = Genesis
  /\ changes = 0

\* The wall clock moves on, or is set back.
AuditClock ==
  /\ auditNow' \in AuditTimes
  /\ UNCHANGED <<events, lastHash, changes>>
-----------------------------------------------------------------------------
\* Faulty variant: the event is linked to the last one that is stored.
NewEventAfterStored(payload, origin) ==
  LET previous == IF events = <<>> THEN Genesis ELSE events[1].hash IN
  [payload |-> payload, origin |-> origin, time |-> auditNow, previous |-> previous,
   hash |-> ComputeHash(payload, auditNow, previous), at |-> Len(lastHash) + 1,
   rehashed |-> FALSE]

NewEvent(payload, origin) ==
  [payload |-> payload, origin |-> origin, time |-> auditNow, previous |-> lastHash,
   hash |-> ComputeHash(payload, auditNow, lastHash), at |-> Len(lastHash) + 1,
   rehashed |-> FALSE]

\* _prune_old_events drops every event whose time is before the retention.
Retained(event) == event.time >= auditNow - Retention

Pruned(log) ==
  IF Retention = 0 THEN log ELSE Keep(log, {i \in DOMAIN log : Retained(log[i])})

\* log appends, and prunes when the log has become too long.
Log(payload, origin) ==
  LET longer == Append(events, NewEvent(payload, origin)) IN
  /\ Len(lastHash) < MaxLogged
  /\ events' = IF Len(longer) > Capacity THEN Pruned(longer) ELSE longer
  /\ lastHash' = NewEvent(payload, origin).hash
  /\ UNCHANGED <<auditNow, changes>>

\* Somebody puts another event in the place of a stored one, which the hashes are
\* there to show.
Change(i, event) ==
  /\ changes < MaxChanges
  /\ events' = [events EXCEPT ![i] = event]
  /\ changes' = changes + 1
  /\ UNCHANGED <<auditNow, lastHash>>

\* It says something else, or is of another time or origin.
Alter(i, payload, time, origin) ==
  Change(i, [events[i] EXCEPT !.payload = payload, !.time = time, !.origin = origin])

\* It carries other hashes.
Rehash(i, previous, hash) ==
  Change(i, [events[i] EXCEPT !.previous = previous, !.hash = hash, !.rehashed = TRUE])

\* The hashes that can be had: those stored, and the one that an event should have.
KnownHashes ==
  UNION {{events[i].previous, events[i].hash,
          ComputeHash(events[i].payload, events[i].time, events[i].previous)} : i \in DOMAIN events}

\* Somebody drops a stored event.
Drop(i) ==
  /\ events' = SubSeq(events, 1, i - 1) \o SubSeq(events, i + 1, Len(events))
  /\ UNCHANGED <<auditNow, lastHash, changes>>

AuditNext ==
  \/ AuditClock
  \/ \E payload \in Payloads, origin \in Origins : Log(payload, origin)
  \/ \E i \in DOMAIN events :
       \/ Drop(i)
       \/ \E payload \in Payloads, time \in AuditTimes, origin \in Origins :
            Alter(i, payload, time, origin)
       \/ \E previous, hash \in KnownHashes : Rehash(i, previous, hash)

AuditSpec == AuditInit /\ [][AuditNext]_auditVars
-----------------------------------------------------------------------------
(* verify_integrity: the indices at which it reports an error.             *)

ExpectedHash(i) == IF i = 1 THEN Genesis ELSE events[i - 1].hash

\* Faulty variant: the walk starts at the first stored event's own hash.
BrokenLinkButFirst(i) == i > 1 /\ events[i].previous # ExpectedHash(i)

BrokenLink(i) == events[i].previous # ExpectedHash(i)

WrongHash(i) ==
  events[i].hash # ComputeHash(events[i].payload, events[i].time, events[i].previous)

Errors == {i \in DOMAIN events : BrokenLink(i) \/ WrongHash(i)}
-----------------------------------------------------------------------------
AuditTypeOK ==
  /\ auditNow \in Nat
  /\ lastHash \in Seq(Payloads \X Nat)
  /\ events \in Seq([payload : Payloads, origin : Origins, time : Nat,
                     previous : Seq(Payloads \X Nat), hash : Seq(Payloads \X Nat),
                     at : Nat \ {0}, rehashed : BOOLEAN])
  /\ changes \in Nat

\* The event before the i-th in the store is the one logged just before it.
FollowsDirectly(i) == events[i].at = IF i = 1 THEN 1 ELSE events[i - 1].at + 1

Content(i) == <<events[i].payload, events[i].time>>

(* As long as nobody changes the hashes that are stored with an event and  *)
(* the one before it, verify_integrity reports the event if and only if    *)
(* its hashed content was changed or the event logged just before it is    *)
(* not there (armp_audit.py:186-218 and 322-328).                          *)
(* It is not said why it is missing: pruning by the log itself is reported *)
(* like a removal, and a lost tail is not reported at all.  Nor is another *)
(* session or address: compute_hash (lines 82-96) leaves both out.         *)
ReportsChanges ==
  \A i \in DOMAIN events :
    (~events[i].rehashed /\ (i > 1 => ~events[i - 1].rehashed))
      => (i \in Errors <=> Content(i) # lastHash[events[i].at] \/ ~FollowsDirectly(i))

(* Whatever was changed, hashes included: when nothing is reported and the *)
(* last event carries the log's last hash, the hashed contents stored are  *)
(* all that was ever logged, in its order.                                 *)
CleanMeansLogged ==
  (Errors = {} /\ events # <<>> /\ events[Len(events)].hash = lastHash)
    => [i \in DOMAIN events |-> Content(i)] = lastHash

(* verify_integrity tells where the store differs from what was logged     *)
(* (both of the above).                                                    *)
VerdictIsExact == ReportsChanges /\ CleanMeansLogged
=============================================================================
