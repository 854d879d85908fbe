-------------------------------- MODULE Trust --------------------------------
(***************************************************************************)
(* TrustRegistry and VerificationService (armp_trust.py): credentials that *)
(* issuers give to agents, their revocation, and what is concluded from    *)
(* them.                                                                   *)
(*                                                                         *)
(* issue_capability makes a credential without proof or expiration; its    *)
(* caller holds the stored object and may give it an expiration date and   *)
(* sign it, later or never.  A credential's id is a hash of its issuer,    *)
(* its subject and the time, so two issued at one instant share it.        *)
(* Levels and ratings are in tenths, scores in parts of TrustUnit: the     *)
(* divisions are exact for up to three credentials and ratings.            *)
(***************************************************************************)
EXTENDS Lists, FiniteSets

CONSTANTS
  Subjects,       \* DIDs of the agents attested
  Issuers,        \* DIDs of the issuers
  Capabilities,   \* names of capabilities
  Levels,         \* the levels used, a subset of DOMAIN LevelRank
  PeerRatings,    \* the scores in _ratings, in tenths; no range is asked for
  TrustTimes,     \* the times the wall clock may show, from 1
  MaxIssued       \* bound on the credentials and ratings of an agent

ASSUME TrustAssumption ==
  /\ PeerRatings \subseteq Int
  /\ TrustTimes \subseteq Nat \ {0} /\ TrustTimes # {}
  /\ Levels \subseteq {"basic", "intermediate", "expert", "master"}
  /\ MaxIssued \in Nat

VARIABLES
  trustNow,       \* datetime.now and time.time
  issuers,        \* _issuers: the registered issuers, with what was said of them
  credentials,    \* _credentials, in order; ghost: vouched, that the issuer
                  \* was trusted when the credential was issued
  revoked,        \* _revoked: ids
  ratings         \* _ratings, which callers write themselves

trustVars == <<trustNow, issuers, credentials, revoked, ratings>>

TrustUnit == 600
LevelRank == [basic |-> 0, intermediate |-> 1, expert |-> 2, master |-> 3]
LevelScore == [basic |-> 3, intermediate |-> 6, expert |-> 10, master |-> 10]
Never == 0        \* the expiration date that was left out

TrustInit ==
  /\ trustNow \in TrustTimes
  /\ issuers = <<>>
  /\ credentials = [a \in Subjects |-> <<>>]
  /\ revoked = {}
  /\ ratings = [a \in Subjects |-> <<>>]

TrustClock ==
  /\ trustNow' \in TrustTimes
  /\ UNCHANGED <<issuers, credentials, revoked, ratings>>
-----------------------------------------------------------------------------
(* The registry                                                            *)

Trusted(i) == i \in DOMAIN issuers /\ issuers[i]

RegisterIssuer(i, trusted) ==
  /\ issuers' = [j \in DOMAIN issuers \union {i} |-> IF j = i THEN trusted ELSE issuers[j]]
  /\ UNCHANGED <<trustNow, credentials, revoked, ratings>>

NewId(i, a) == <<i, a, trustNow>>

\* Faulty variant: an issuer that is registered may issue.
MayIssueRegistered(i) == i \in DOMAIN issuers

MayIssue(i) == Trusted(i)

IssueCapability(i, a, capability, level) ==
  /\ MayIssue(i)
  /\ Len(credentials[a]) < MaxIssued
  /\ credentials' = [credentials EXCEPT ![a] = Append(credentials[a],
       [id |-> NewId(i, a), issuer |-> i, capability |-> capability, level |-> level,
        expires |-> Never, signed |-> FALSE, vouched |-> Trusted(i)])]
  /\ UNCHANGED <<trustNow, issuers, revoked, ratings>>

\* Who got the credential dates and signs it.
Sign(a, n, expires) ==
  /\ credentials' = [credentials EXCEPT ![a][n].expires = expires, ![a][n].signed = TRUE]
  /\ UNCHANGED <<trustNow, issuers, revoked, ratings>>

RevokeCredential(id) ==
  /\ revoked' = revoked \union {id}
  /\ UNCHANGED <<trustNow, issuers, credentials, ratings>>

Rate(a, rating) ==
  /\ Len(ratings[a]) < MaxIssued
  /\ ratings' = [ratings EXCEPT ![a] = Append(ratings[a], rating)]
  /\ UNCHANGED <<trustNow, issuers, credentials, revoked>>

TrustNext ==
  \/ TrustClock
  \/ \E i \in Issuers, trusted \in BOOLEAN : RegisterIssuer(i, trusted)
  \/ \E i \in Issuers, a \in Subjects, c \in Capabilities, l \in Levels : IssueCapability(i, a, c, l)
  \/ \E a \in Subjects, rating \in PeerRatings : Rate(a, rating)
  \/ \E a \in Subjects : \E n \in DOMAIN credentials[a] :
       \/ RevokeCredential(credentials[a][n].id)
       \/ \E expires \in TrustTimes \union {Never} : Sign(a, n, expires)

TrustSpec == TrustInit /\ [][TrustNext]_trustVars
-----------------------------------------------------------------------------
(* Conclusions                                                             *)

\* VerifiableCredential.verify
Verifies(vc) == vc.signed /\ (vc.expires = Never \/ trustNow <= vc.expires)

\* Faulty variant: revoked credentials count.
ActiveCredentialsEver(a) == credentials[a]

ActiveCredentials(a) ==
  Keep(credentials[a], {n \in DOMAIN credentials[a] : credentials[a][n].id \notin revoked})

VerifyAgentCapability(a, capability, minLevel) ==
  \E n \in DOMAIN ActiveCredentials(a) : LET vc == ActiveCredentials(a)[n] IN
    /\ vc.capability = capability
    /\ Verifies(vc)
    /\ LevelRank[vc.level] >= LevelRank[minLevel]

Mean(weight, total, n) == (weight * TrustUnit * total) \div (100 * n)

\* get_trust_score: 0.3 number, 0.2 level, 0.2 issuers, 0.3 ratings.  The
\* credentials counted are those not revoked, expired and unsigned ones among them.
TrustScore(a) ==
  LET vcs == ActiveCredentials(a)
      n == Len(vcs)
      number == (3 * TrustUnit * (IF n < 10 THEN n ELSE 10)) \div 100
      level == Mean(2, Total([k \in 1 .. n |-> LevelScore[vcs[k].level]]), n)
      issuer == Mean(20, Cardinality({k \in 1 .. n : Trusted(vcs[k].issuer)}), n)
      rating == IF ratings[a] = <<>> THEN (15 * TrustUnit) \div 100
                ELSE Mean(3, Total(ratings[a]), Len(ratings[a]))
      sum == rating + IF n = 0 THEN 0 ELSE number + level + issuer IN
  IF sum > TrustUnit THEN TrustUnit ELSE sum

ShouldTrust(a, threshold) == TrustScore(a) >= threshold
-----------------------------------------------------------------------------
Ids == Issuers \X Subjects \X TrustTimes

TrustTypeOK ==
  /\ trustNow \in TrustTimes
  /\ DOMAIN issuers \subseteq Issuers /\ \A i \in DOMAIN issuers : issuers[i] \in BOOLEAN
  /\ credentials \in [Subjects -> Seq([id : Ids, issuer : Issuers, capability : Capabilities,
       level : Levels, expires : TrustTimes \union {Never}, signed : BOOLEAN, vouched : BOOLEAN])]
  /\ revoked \subseteq Ids
  /\ ratings \in [Subjects -> Seq(PeerRatings)]

\* A credential of the agent that was issued by an issuer trusted at the time
\* and was not revoked.
Vouched(a, Test(_)) ==
  \E n \in DOMAIN credentials[a] : LET vc == credentials[a][n] IN
    vc.vouched /\ vc.id \notin revoked /\ Test(vc)

(* A capability that is found verified was attested at a level that        *)
(* suffices by an issuer trusted at the time, and the credential has a     *)
(* proof, is not expired and was not revoked.  That the proof is the       *)
(* issuer's the code does not check, nor does it look at the issuer again  *)
(* (armp_trust.py:114-135, 187-188, 206-217, 283-293).                     *)
VerifiedIsVouched ==
  \A a \in Subjects, capability \in Capabilities, minLevel \in Levels :
    VerifyAgentCapability(a, capability, minLevel) =>
      Vouched(a, LAMBDA vc :
        /\ vc.capability = capability
        /\ vc.signed
        /\ vc.expires # Never => trustNow <= vc.expires
        /\ LevelRank[minLevel] <= LevelRank[vc.level])

\* As long as nobody has rated the agent above 1.0, which nothing prevents.
RatedInRange(a) == \A n \in DOMAIN ratings[a] : ratings[a][n] <= 10

(* Ratings of at most 1.0, however many, do not make an agent trusted at   *)
(* the default threshold: it takes a credential from an issuer trusted     *)
(* when it was issued that was not revoked.  The score asks no more of it: *)
(* an expired credential counts, and one that nobody signed                *)
(* (armp_trust.py:187-188, 224-268, 295-297).                              *)
TrustNeedsCredential ==
  \A a \in Subjects : RatedInRange(a) /\ ShouldTrust(a, TrustUnit \div 2) =>
    Vouched(a, LAMBDA vc : TRUE)

(* A revoked credential, or one of an issuer that was not trusted, makes   *)
(* neither a capability verified nor an agent trusted (both of the above). *)
TrustIsVouched == VerifiedIsVouched /\ TrustNeedsCredential
=============================================================================
