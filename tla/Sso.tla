--------------------------------- MODULE Sso ---------------------------------
(***************************************************************************)
(* SSOService and JWTValidator (armp_sso.py): API keys, JWTs and service   *)
(* tokens against the wall clock.                                          *)
(*                                                                         *)
(* A token is where it comes from and when it expires; its roles, which    *)
(* has_permission and require_role look up in fixed tables, are left out.  *)
(* Nobody stores JWTs or service tokens; `session` is the token the last   *)
(* caller of an authenticating method holds, and it holds it for as long   *)
(* as it likes.                                                            *)
(***************************************************************************)
EXTENDS Integers

CONSTANTS
  ApiKeys,        \* the keys in use
  Providers,      \* names of OIDC providers
  IssuerUrls,     \* the issuers of providers and JWTs
  KeyLife,        \* the life of a key: 365 days
  ServiceLife,    \* ttl_hours of a service token
  SsoTimes        \* the times the wall clock may show, from 1

ASSUME SsoAssumption ==
  /\ {KeyLife, ServiceLife} \subseteq Nat
  /\ SsoTimes \subseteq Nat \ {0} /\ SsoTimes # {}

NoExpiry == 0
NoToken == [expires |-> NoExpiry, from |-> "nobody"]
Token == [expires : Nat, from : {"key", "jwt", "service", "nobody"}]

VARIABLES
  ssoNow,     \* datetime.now and time.time
  keys,       \* _api_keys: the tokens of the registered keys
  providers,  \* _oidc_providers: the issuer of each
  session,    \* the token returned last
  refused     \* ghost: the keys refused as expired and not registered since

ssoVars == <<ssoNow, keys, providers, session, refused>>

SsoInit ==
  /\ ssoNow \in SsoTimes
  /\ keys = <<>> /\ providers = <<>>
  /\ session = NoToken
  /\ refused = {}

SsoClock ==
  /\ ssoNow' \in SsoTimes
  /\ UNCHANGED <<keys, providers, session, refused>>
-----------------------------------------------------------------------------
RegisterProvider(p, issuer) ==
  /\ providers' = [q \in DOMAIN providers \union {p} |-> IF q = p THEN issuer ELSE providers[q]]
  /\ UNCHANGED <<ssoNow, keys, session, refused>>

Expired(token) == token.expires # NoExpiry /\ ssoNow > token.expires

\* A key that is registered again has a token of its own.
RegisterKey(k) ==
  LET token == [expires |-> ssoNow + KeyLife, from |-> "key"] IN
  /\ keys' = [j \in DOMAIN keys \union {k} |-> IF j = k THEN token ELSE keys[j]]
  /\ session' = token
  /\ refused' = refused \ {k}
  /\ UNCHANGED <<ssoNow, providers>>

\* Faulty variant: an expired key is refused and kept.
DeleteNothing(k) == keys' = keys

\* An expired key is deleted.
Delete(k) == keys' = [j \in DOMAIN keys \ {k} |-> keys[j]]

AuthenticateKey(k) ==
  /\ \/ /\ k \notin DOMAIN keys
        /\ session' = NoToken
        /\ UNCHANGED <<keys, refused>>
     \/ /\ k \in DOMAIN keys /\ Expired(keys[k])
        /\ session' = NoToken
        /\ Delete(k)
        /\ refused' = refused \union {k}
     \/ /\ k \in DOMAIN keys /\ ~ Expired(keys[k])
        /\ session' = keys[k]
        /\ UNCHANGED <<keys, refused>>
  /\ UNCHANGED <<ssoNow, providers>>

\* Without a provider of that name the issuer is not looked at.
ValidateJwt(p, issuer, expires) ==
  /\ session' = IF \/ expires # NoExpiry /\ ssoNow > expires
                   \/ p \in DOMAIN providers /\ issuer # providers[p]
                THEN NoToken
                ELSE [expires |-> expires, from |-> "jwt"]
  /\ UNCHANGED <<ssoNow, keys, providers, refused>>

CreateServiceToken ==
  /\ session' = [expires |-> ssoNow + ServiceLife, from |-> "service"]
  /\ UNCHANGED <<ssoNow, keys, providers, refused>>

SsoNext ==
  \/ SsoClock
  \/ \E p \in Providers, issuer \in IssuerUrls : RegisterProvider(p, issuer)
  \/ \E k \in ApiKeys : AuthenticateKey(k) \/ RegisterKey(k)
  \/ CreateServiceToken
  \/ \E p \in Providers, issuer \in IssuerUrls, expires \in SsoTimes \union {NoExpiry} :
       ValidateJwt(p, issuer, expires)

SsoSpec == SsoInit /\ [][SsoNext]_ssoVars
-----------------------------------------------------------------------------
SsoTypeOK ==
  /\ ssoNow \in SsoTimes
  /\ DOMAIN keys \subseteq ApiKeys /\ \A k \in DOMAIN keys : keys[k] \in Token
  /\ DOMAIN providers \subseteq Providers /\ \A p \in DOMAIN providers : providers[p] \in IssuerUrls
  /\ session \in Token
  /\ refused \subseteq ApiKeys

(* A key that was refused because it had expired is never let in again     *)
(* until somebody registers it again, although the wall clock that found   *)
(* it expired may be set back before the key's expiry                      *)
(* (authenticate_api_key, armp_sso.py:251-259).                            *)
RefusedKeyStaysRefused ==
  \A k \in refused : k \notin DOMAIN keys \/ Expired(keys[k])
=============================================================================
