----------------------------- MODULE AccessPolicy -----------------------------
(***************************************************************************)
(* What the control API decides about a request before it touches a store: *)
(* which settings a server starts with, whose token it accepts, on whose   *)
(* behalf and in which scope a request acts, who is authorized, and which  *)
(* HTTP status a refusal is sent with.                                     *)
(*                                                                         *)
(* An operator ...Refusal returns the error code of the first check that   *)
(* fails, in the order of the code, or Passed.                             *)
(***************************************************************************)
EXTENDS Naturals

CONSTANTS
  Configs,  \* settings the server may be started with
  Tenants,
  Subjects, \* with a tenant, a scope
  Actors,
  Keys,     \* idempotency keys
  Nobody    \* no actor, no principal, no request

ASSUME NobodyAssumption ==
  Nobody \notin Actors /\ Nobody \notin [actor: Actors, tenant: Tenants]

-----------------------------------------------------------------------------
(* Settings, and the process that is started with them.                    *)

Environments == {"development", "test", "staging", "production"}

Hardening == {"no_sensitive_telemetry", "dsn_host", "dsn_verify_full", "temporal_tls"}

Settings ==
  [environment: Environments,
   hardened: SUBSET Hardening,
   http: BOOLEAN,
   modules: SUBSET {"memory", "runtime"},
   oidc: SUBSET {"enabled", "issuer", "jwks_uri", "dev_signing_key"}]

ASSUME ConfigsAssumption == Configs \subseteq Settings

Local == {"development", "test"}

ValidInProduction(s) ==
  /\ s.hardened = Hardening
  /\ "enabled" \in s.oidc =>
       {"issuer", "jwks_uri"} \subseteq s.oidc /\ "dev_signing_key" \notin s.oidc

\* Mutant: the development key is used wherever it is configured.
VerifierWherever(s) ==
  IF "enabled" \notin s.oidc THEN "none" ELSE
  IF "dev_signing_key" \in s.oidc THEN "dev_key" ELSE
  IF "jwks_uri" \in s.oidc THEN "provider" ELSE "misconfigured"

\* create_token_verifier, named for the key whose signatures it accepts.
Verifier(s) ==
  IF "enabled" \notin s.oidc THEN "none" ELSE
  IF s.environment \in Local /\ "dev_signing_key" \in s.oidc THEN "dev_key" ELSE
  IF "jwks_uri" \in s.oidc THEN "provider" ELSE "misconfigured"

\* The server's main, and the start-up of the modules.
Starts(s) ==
  /\ s.environment = "production" => ValidInProduction(s)
  /\ s.http
  /\ Verifier(s) # "misconfigured"
  /\ "runtime" \in s.modules => "memory" \in s.modules

\* What of its settings a serving process decides by.
Processes ==
  {[environment |-> s.environment, verifier |-> Verifier(s), modules |-> s.modules] :
     s \in {x \in Configs : Starts(x)}}

-----------------------------------------------------------------------------
(* Requests.                                                               *)

Principals == [actor: Actors, tenant: Tenants]

\* The Authorization header: none, one that holds no verifiable token, or a
\* token that one of the two keys has signed.
Headers ==
  [signed: {"absent", "no_bearer", "unverifiable"}, who: {Nobody}]
    \cup [signed: {"dev_key", "provider"}, who: Principals]

Creates == {"record_episode", "start_execution"}
Posts   == Creates \cup {"cancel_execution"}
Lists   == {"list_episodes", "list_claims", "list_executions"}
ById    == {"get_episode", "get_claim", "get_execution", "cancel_execution"}

ClaimReads   == {"get_claim", "list_claims"}
EpisodeReads == {"get_episode", "list_episodes"}
EpisodeOps   == EpisodeReads \cup {"record_episode"}
Operations   == Posts \cup Lists \cup ById

KindOf(op) ==
  IF op \in EpisodeOps THEN "episode" ELSE
  IF op \in ClaimReads THEN "claim" ELSE "execution"

ModuleOf(op) == IF KindOf(op) = "execution" THEN "runtime" ELSE "memory"

\* What may be wrong with a request besides its identities.  "blank" is what
\* the schema lets pass and a domain class refuses: a blank field or a naive
\* observed_at of an episode, a blank workspace_id of a query.
Flaws(op) ==
  {"none", "schema"}
    \cup (IF op \in Posts THEN {"correlation_id"} ELSE {"blank"})
    \cup (IF op = "record_episode" THEN {"blank"} ELSE {})
    \cup (IF op = "start_execution" THEN {"memory_query"} ELSE {})
    \cup (IF op \in Lists THEN {"cursor"} ELSE {})

\* tenant is the path's, body the one of the scope in a body; owner and key
\* name the row a request is about.  A query has no body and takes its scope's
\* tenant from the path.
Requests ==
  {r \in [op: Operations, header: Headers, tenant: Tenants, body: Tenants,
          subject: Subjects, actor: Actors \cup {Nobody}, owner: Tenants, key: Keys,
          flaw: UNION {Flaws(op) : op \in Operations}] :
     /\ r.flaw \in Flaws(r.op)
     /\ r.op \notin Posts => r.body = r.tenant
     /\ r.op \notin ById => r.owner = r.tenant}

ASSUME RequestsAssumption == Nobody \notin Requests

-----------------------------------------------------------------------------
(* The checks of one request.                                              *)

Passed == "passed"

Then(first, second) == IF first # Passed THEN first ELSE second

\* parse_bearer_token and authenticate_tenant_request.
AuthenticationRefusal(process, r) ==
  IF process.verifier = "none" THEN Passed ELSE
  IF r.header.signed = "absent" THEN "authentication_required" ELSE
  IF r.header.signed # process.verifier THEN "invalid_token" ELSE
  IF r.header.who.tenant # r.tenant THEN "tenant_access_denied" ELSE Passed

\* A key endpoint that does not answer makes any token invalid.
KeysUnavailable(process, r) ==
  process.verifier = "provider" /\ r.header.signed \notin {"absent", "no_bearer"}

CorrelationRefusal(r) ==
  IF r.flaw = "correlation_id" THEN "validation_error" ELSE Passed

ScopeRefusal(r) == IF r.body # r.tenant THEN "validation_error" ELSE Passed

ActorRefusal(principal, actor) ==
  IF principal # Nobody /\ actor # Nobody THEN "actor_id_not_allowed" ELSE
  IF principal = Nobody /\ actor = Nobody THEN "actor_id_required" ELSE Passed

ActorOf(principal, actor) == IF principal # Nobody THEN principal.actor ELSE actor

MemoryQueryRefusal(r) == IF r.flaw = "memory_query" THEN "validation_error" ELSE Passed

\* A ValueError that no handler is registered for.
DomainRefusal(r) == IF r.flaw = "blank" THEN "internal_error" ELSE Passed

ToCommand(r, principal) ==
  Then(ScopeRefusal(r), Then(ActorRefusal(principal, r.actor), DomainRefusal(r)))

ToStartExecution(r, principal) ==
  Then(ScopeRefusal(r), Then(ActorRefusal(principal, r.actor), MemoryQueryRefusal(r)))

ToCancelExecution(r, principal) ==
  Then(ScopeRefusal(r), ActorRefusal(principal, r.actor))

\* Mutant: every endpoint passes its principal on.
PassedAlways(op, principal) == principal

\* The principal that an endpoint passes on to the mapper of its query: the
\* claim endpoints pass their own, the others none.
PassedOn(op, principal) == IF op \in ClaimReads THEN principal ELSE Nobody

\* The endpoint resolves the actor, and the mapper resolves what it is given.
ToQuery(r, principal) ==
  Then(ActorRefusal(principal, r.actor),
       Then(ActorRefusal(PassedOn(r.op, principal), ActorOf(principal, r.actor)),
            DomainRefusal(r)))

MappingRefusal(r, principal) ==
  IF r.op \notin Posts THEN ToQuery(r, principal) ELSE
  Then(CorrelationRefusal(r),
       IF r.op = "record_episode" THEN ToCommand(r, principal) ELSE
       IF r.op = "start_execution" THEN ToStartExecution(r, principal)
       ELSE ToCancelExecution(r, principal))

\* The accessor of the handler.
ModuleRefusal(process, r) ==
  IF ModuleOf(r.op) \notin process.modules THEN "service_unavailable" ELSE Passed

\* TenantScoped..., or EnvironmentGated... where nothing is authenticated.
Authorized(process, r, principal) ==
  IF process.verifier = "none"
  THEN process.environment \in Local
  ELSE /\ ActorOf(principal, r.actor) = principal.actor
       /\ r.tenant = principal.tenant

DeniedCode(op) ==
  IF op = "record_episode" THEN "episode_authorization_denied" ELSE
  IF op \in EpisodeReads THEN "episode_read_authorization_denied" ELSE
  IF op \in ClaimReads THEN "claim_read_authorization_denied"
  ELSE "execution_authorization_denied"

AuthorizationRefusal(process, r, principal) ==
  IF Authorized(process, r, principal) THEN Passed ELSE DeniedCode(r.op)

\* The checks between the verified token and the store call.
RequestRefusal(process, r, principal) ==
  Then(MappingRefusal(r, principal),
       Then(ModuleRefusal(process, r), AuthorizationRefusal(process, r, principal)))

-----------------------------------------------------------------------------
(* register_exception_handlers: the status of a code.                      *)

Unauthenticated == {"authentication_required", "invalid_token"}

Forbidden ==
  {"tenant_access_denied", "episode_authorization_denied",
   "episode_read_authorization_denied", "claim_read_authorization_denied",
   "execution_authorization_denied"}

Absent == {"episode_not_found", "claim_not_found", "execution_not_found"}

Conflicts ==
  {"episode_idempotency_conflict", "execution_idempotency_conflict",
   "invalid_execution_transition"}

Unprocessable ==
  {"validation_error", "actor_id_not_allowed", "actor_id_required",
   "invalid_episode_cursor", "invalid_claim_cursor", "invalid_execution_cursor"}

Unavailable == {"service_unavailable", "orchestration_unavailable", "claims_unavailable"}

Codes ==
  {"ok", "created", "internal_error"} \cup Unauthenticated \cup Forbidden \cup Absent
    \cup Conflicts \cup Unprocessable \cup Unavailable

Status(code) ==
  IF code = "ok" THEN 200 ELSE
  IF code = "created" THEN 201 ELSE
  IF code \in Unauthenticated THEN 401 ELSE
  IF code \in Forbidden THEN 403 ELSE
  IF code \in Absent THEN 404 ELSE
  IF code \in Conflicts THEN 409 ELSE
  IF code \in Unprocessable THEN 422 ELSE
  IF code \in Unavailable THEN 503 ELSE 500

=============================================================================
