------------------------------ MODULE Services ------------------------------
(***************************************************************************)
(* The services around the SDK that neither call each other nor hold       *)
(* money, side by side: rate limiter and window, audit log, reputation,    *)
(* trust, SSO and the MCP bridge.                                          *)
(*                                                                         *)
(* No service calls another or reads another's state, so that a step of    *)
(* one commutes with a step of any other and interleaving them shows       *)
(* nothing new: a behaviour here is one of the service chosen at the       *)
(* start, the others staying as they were made.                            *)
(***************************************************************************)
EXTENDS RateLimiter, SlidingWindow, AuditLog, Reputation, Trust, Sso, Mcp

VARIABLE service    \* the service whose behaviour this is

ServiceNames == {"limits", "window", "audit", "reputation", "trust", "sso", "mcp"}

Init ==
  /\ service \in ServiceNames
  /\ RLInit
  /\ WindowInit
  /\ AuditInit /\ (service # "audit" => auditNow = CHOOSE t \in AuditTimes : TRUE)
  /\ ReputationInit
  /\ TrustInit /\ (service # "trust" => trustNow = CHOOSE t \in TrustTimes : TRUE)
  /\ SsoInit /\ (service # "sso" => ssoNow = CHOOSE t \in SsoTimes : TRUE)
  /\ McpInit

LimitsStep ==
  /\ service = "limits" /\ RLNext
  /\ UNCHANGED <<service, windowVars, auditVars, reputationVars, trustVars, ssoVars, mcpVars>>

WindowStep ==
  /\ service = "window" /\ WindowNext
  /\ UNCHANGED <<service, rlVars, auditVars, reputationVars, trustVars, ssoVars, mcpVars>>

AuditStep ==
  /\ service = "audit" /\ AuditNext
  /\ UNCHANGED <<service, rlVars, windowVars, reputationVars, trustVars, ssoVars, mcpVars>>

ReputationStep ==
  /\ service = "reputation" /\ ReputationNext
  /\ UNCHANGED <<service, rlVars, windowVars, auditVars, trustVars, ssoVars, mcpVars>>

TrustStep ==
  /\ service = "trust" /\ TrustNext
  /\ UNCHANGED <<service, rlVars, windowVars, auditVars, reputationVars, ssoVars, mcpVars>>

SsoStep ==
  /\ service = "sso" /\ SsoNext
  /\ UNCHANGED <<service, rlVars, windowVars, auditVars, reputationVars, trustVars, mcpVars>>

McpStep ==
  /\ service = "mcp" /\ McpNext
  /\ UNCHANGED <<service, rlVars, windowVars, auditVars, reputationVars, trustVars, ssoVars>>

Next ==
  \/ LimitsStep
  \/ WindowStep
  \/ AuditStep
  \/ ReputationStep
  \/ TrustStep
  \/ SsoStep
  \/ McpStep

Spec == Init /\ [][Next]_<<service, rlVars, windowVars, auditVars, reputationVars,
                           trustVars, ssoVars, mcpVars>>
-----------------------------------------------------------------------------
(* Each service keeps its state well formed, whatever is called.           *)
ServicesTypeOK ==
  /\ RLTypeOK
  /\ WindowTypeOK
  /\ AuditTypeOK
  /\ ReputationTypeOK
  /\ TrustTypeOK
  /\ SsoTypeOK
  /\ McpTypeOK
=============================================================================
