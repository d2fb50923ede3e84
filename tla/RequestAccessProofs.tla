--------------------------- MODULE RequestAccessProofs ---------------------------
(***************************************************************************)
(* Theorems about RequestAccess and their proofs: AccessInv is inductive,  *)
(* for any settings, any number of concurrent requests, and any tenants,   *)
(* subjects, actors and keys.                                              *)
(***************************************************************************)
EXTENDS RequestAccess, TLAPS

-----------------------------------------------------------------------------
(* Settings, requests and codes.                                           *)

LEMMA ProcessFacts ==
  ASSUME process \in Processes
  PROVE  /\ process.verifier \in {"none", "dev_key", "provider"}
         /\ process.verifier = "dev_key" => process.environment \in Local
         /\ process.modules \in SUBSET {"memory", "runtime"}
         /\ process \in [environment: Environments, verifier: {"none", "dev_key", "provider"},
                         modules: SUBSET {"memory", "runtime"}]
<1>1. PICK s \in Configs : Starts(s) /\ process = [environment |-> s.environment,
                             verifier |-> Verifier(s), modules |-> s.modules]
  BY DEF Processes
<1>2. s \in Settings  BY ConfigsAssumption
<1>3. Verifier(s) # "misconfigured"  BY <1>1 DEF Starts
<1>4. /\ Verifier(s) \in {"none", "dev_key", "provider"}
      /\ Verifier(s) = "dev_key" => s.environment \in Local
  BY <1>3 DEF Verifier
<1> QED  BY <1>1, <1>2, <1>4 DEF Settings

LEMMA RequestFields ==
  ASSUME NEW r \in Requests
  PROVE  /\ r.op \in Operations
         /\ r.header \in Headers
         /\ r.tenant \in Tenants /\ r.body \in Tenants /\ r.subject \in Subjects
         /\ r.actor \in Actors \cup {Nobody} /\ r.owner \in Tenants /\ r.key \in Keys
         /\ r.flaw \in Flaws(r.op)
  BY DEF Requests

LEMMA HeaderFields ==
  ASSUME NEW h \in Headers
  PROVE  \/ h.signed \in {"absent", "no_bearer", "unverifiable"} /\ h.who = Nobody
         \/ /\ h.signed \in {"dev_key", "provider"}
            /\ h.who.actor \in Actors /\ h.who.tenant \in Tenants
            /\ h.who \in Principals /\ h.who # Nobody
  BY NobodyAssumption DEF Headers, Principals

LEMMA StatusOfCode ==
  ASSUME NEW code \in Codes
  PROVE  /\ Status(code) \in 200..599
         /\ Status(code) \in 200..299 <=> code \in {"ok", "created"}
         /\ Status(code) = 201 <=> code = "created"
         /\ Status(code) \in 400..499 <=>
              code \in Unauthenticated \cup Forbidden \cup Absent \cup Conflicts
                         \cup Unprocessable
  BY DEF Codes, Status, Unauthenticated, Forbidden, Absent, Conflicts, Unprocessable,
         Unavailable

LEMMA KindsOfOperations ==
  ASSUME NEW op \in Operations
  PROVE  /\ KindOf(op) \in {"episode", "claim", "execution"}
         /\ op = "record_episode" => KindOf(op) = "episode"
         /\ op \in {"start_execution", "cancel_execution"} => KindOf(op) = "execution"
         /\ op \in Creates => op \in {"record_episode", "start_execution"}
  BY DEF KindOf, EpisodeOps, EpisodeReads, ClaimReads, Creates

-----------------------------------------------------------------------------
(* What the checks let pass, and why they refuse.                          *)

\* The principal is the token's, and nobody where nothing is authenticated.
LEMMA PassedAuthentication ==
  ASSUME process \in Processes, NEW t \in Tasks, asked[t] \in Requests,
         AuthenticationRefusal(process, asked[t]) = Passed
  PROVE  /\ Principal(t) \in Principals \cup {Nobody}
         /\ Authenticating <=> Principal(t) # Nobody
         /\ Authenticating =>
              /\ asked[t].header.signed = process.verifier
              /\ Principal(t) = asked[t].header.who
              /\ asked[t].header.who.tenant = asked[t].tenant
         /\ ActorOf(Principal(t), asked[t].actor) = ActsFor(asked[t])
<1>1. process.verifier \in {"none", "dev_key", "provider"}  BY ProcessFacts
<1>2. asked[t].header \in Headers  BY RequestFields
<1>3. CASE process.verifier = "none"
  BY <1>3 DEF Principal, Authenticating, ActorOf, ActsFor
<1>4. CASE process.verifier # "none"
  <2>1. /\ asked[t].header.signed = process.verifier
        /\ asked[t].header.who.tenant = asked[t].tenant
    BY <1>4 DEF AuthenticationRefusal, Passed
  <2>2. asked[t].header.who \in Principals /\ asked[t].header.who # Nobody
    BY <1>1, <1>2, <1>4, <2>1, HeaderFields
  <2> QED  BY <1>4, <2>1, <2>2 DEF Principal, Authenticating, ActorOf, ActsFor
<1> QED  BY <1>3, <1>4

\* Whoever passes every check is entitled.
LEMMA PassedIsEntitled ==
  ASSUME process \in Processes, NEW t \in Tasks, asked[t] \in Requests,
         AuthenticationRefusal(process, asked[t]) = Passed,
         RequestRefusal(process, asked[t], Principal(t)) = Passed
  PROVE  Entitled(asked[t])
<1>1. Authorized(process, asked[t], Principal(t))
  BY DEF RequestRefusal, Then, Passed, AuthorizationRefusal, DeniedCode
<1>2. process.verifier = "dev_key" => process.environment \in Local  BY ProcessFacts
<1> QED  BY <1>1, <1>2, PassedAuthentication DEF Entitled, Authorized, Authenticating

LEMMA AuthenticationRefusesForCause ==
  ASSUME process \in Processes, NEW r \in Requests,
         AuthenticationRefusal(process, r) # Passed
  PROVE  ~Entitled(r) /\ AuthenticationRefusal(process, r) \in Codes \ Conflicts
<1>1. process.verifier # "none" /\ process.verifier \in {"dev_key", "provider"}
  BY ProcessFacts DEF AuthenticationRefusal
<1>2. \/ r.header.signed # process.verifier
      \/ r.header.who.tenant # r.tenant
  BY <1>1 DEF AuthenticationRefusal
<1>3. ~Entitled(r)  BY <1>1, <1>2 DEF Entitled, Authenticating
<1> QED
  BY <1>3 DEF AuthenticationRefusal, Codes, Unauthenticated, Forbidden, Conflicts

\* What an actor is refused for: it is given next to a principal, or nowhere.
LEMMA ActorRefusedForCause ==
  ASSUME NEW principal_, NEW actor, ActorRefusal(principal_, actor) # Passed
  PROVE  /\ principal_ # Nobody <=> actor # Nobody
         /\ ActorRefusal(principal_, actor) =
              IF principal_ # Nobody THEN "actor_id_not_allowed" ELSE "actor_id_required"
  BY DEF ActorRefusal

\* The mapping of a request fails on the request, except that a read of claims
\* fails on its own principal.
LEMMA MappingRefusesForCause ==
  ASSUME NEW r \in Requests, NEW principal_ \in Principals \cup {Nobody},
         MappingRefusal(r, principal_) # Passed
  PROVE  /\ MappingRefusal(r, principal_) \in
              {"validation_error", "actor_id_not_allowed", "actor_id_required",
               "internal_error"}
         /\ \/ r.flaw # "none" \/ r.body # r.tenant
            \/ principal_ # Nobody <=> r.actor # Nobody
            \/ /\ MappingRefusal(r, principal_) = "actor_id_not_allowed"
               /\ principal_ # Nobody /\ r.op \in ClaimReads
<1>1. CASE r.op \notin Posts
  <2>1. MappingRefusal(r, principal_) = ToQuery(r, principal_)  BY <1>1 DEF MappingRefusal
  <2>2. CASE ActorRefusal(principal_, r.actor) # Passed
    <3>1. ToQuery(r, principal_) = ActorRefusal(principal_, r.actor)
      BY <2>2 DEF ToQuery, Then
    <3> QED  BY <2>1, <2>2, <3>1, ActorRefusedForCause
  <2>3. CASE /\ ActorRefusal(principal_, r.actor) = Passed
             /\ ActorRefusal(PassedOn(r.op, principal_), ActorOf(principal_, r.actor)) # Passed
    <3>1. ToQuery(r, principal_) =
            ActorRefusal(PassedOn(r.op, principal_), ActorOf(principal_, r.actor))
      BY <2>3 DEF ToQuery, Then
    <3>2. CASE r.op \in ClaimReads /\ principal_ # Nobody
      BY <2>1, <2>3, <3>1, <3>2, ActorRefusedForCause DEF PassedOn
    <3>3. CASE r.op \in ClaimReads /\ principal_ = Nobody
      BY <2>3, <3>3 DEF PassedOn, ActorOf
    <3>4. CASE r.op \notin ClaimReads /\ principal_ = Nobody
      BY <2>3, <3>4 DEF PassedOn, ActorOf
    <3>5. CASE r.op \notin ClaimReads /\ principal_ # Nobody
      <4>1. ActorOf(principal_, r.actor) # Nobody
        BY <3>5, NobodyAssumption DEF ActorOf, Principals
      <4> QED  BY <2>3, <3>5, <4>1, ActorRefusedForCause DEF PassedOn
    <3> QED  BY <3>2, <3>3, <3>4, <3>5
  <2>4. CASE /\ ActorRefusal(principal_, r.actor) = Passed
             /\ ActorRefusal(PassedOn(r.op, principal_), ActorOf(principal_, r.actor)) = Passed
    BY <2>1, <2>4 DEF ToQuery, Then, DomainRefusal, Passed
  <2> QED  BY <2>2, <2>3, <2>4
<1>2. CASE r.op \in Posts
  <2> DEFINE codes == {CorrelationRefusal(r), ScopeRefusal(r), MemoryQueryRefusal(r),
                       DomainRefusal(r), ActorRefusal(principal_, r.actor)}
  <2>1. MappingRefusal(r, principal_) \in codes
    BY <1>2 DEF MappingRefusal, ToCommand, ToStartExecution, ToCancelExecution, Then, Passed
  <2>2. CASE MappingRefusal(r, principal_) = ActorRefusal(principal_, r.actor)
    BY <2>2, ActorRefusedForCause
  <2>3. CASE MappingRefusal(r, principal_) # ActorRefusal(principal_, r.actor)
    BY <2>1, <2>3
    DEF CorrelationRefusal, ScopeRefusal, MemoryQueryRefusal, DomainRefusal, Passed
  <2> QED  BY <2>2, <2>3
<1> QED  BY <1>1, <1>2

LEMMA ChecksRefuseForCause ==
  ASSUME process \in Processes, NEW t \in Tasks, asked[t] \in Requests,
         AuthenticationRefusal(process, asked[t]) = Passed,
         RequestRefusal(process, asked[t], Principal(t)) # Passed
  PROVE  /\ RequestRefusal(process, asked[t], Principal(t)) \in Codes \ Conflicts
         /\ \/ Status(RequestRefusal(process, asked[t], Principal(t))) \notin 400..499
            \/ AtFault(asked[t], RequestRefusal(process, asked[t], Principal(t)))
         /\ Status(RequestRefusal(process, asked[t], Principal(t))) \notin 200..299
<1> DEFINE r == asked[t]
           code == RequestRefusal(process, asked[t], Principal(t))
<1>1. /\ Principal(t) \in Principals \cup {Nobody}
      /\ Authenticating <=> Principal(t) # Nobody
  BY PassedAuthentication
<1>2. CASE MappingRefusal(r, Principal(t)) # Passed
  <2>1. code = MappingRefusal(r, Principal(t))  BY <1>2 DEF RequestRefusal, Then
  <2>2. /\ code \in {"validation_error", "actor_id_not_allowed", "actor_id_required",
                     "internal_error"}
        /\ AtFault(r, code)
    BY <1>1, <1>2, <2>1, MappingRefusesForCause DEF AtFault
  <2>3. code \in Codes \ Conflicts /\ Status(code) \notin 200..299
    BY <2>2, StatusOfCode DEF Codes, Unprocessable, Conflicts
  <2> QED  BY <2>2, <2>3
<1>3. CASE MappingRefusal(r, Principal(t)) = Passed /\ ModuleRefusal(process, r) # Passed
  <2>1. code = "service_unavailable"
    BY <1>3 DEF RequestRefusal, Then, ModuleRefusal
  <2> QED  BY <2>1 DEF Codes, Conflicts, Unavailable, Status, Unauthenticated, Forbidden,
                       Absent, Unprocessable
<1>4. CASE MappingRefusal(r, Principal(t)) = Passed /\ ModuleRefusal(process, r) = Passed
  <2>1. code = DeniedCode(r.op) /\ ~Authorized(process, r, Principal(t))
    BY <1>4 DEF RequestRefusal, Then, AuthorizationRefusal
  <2>2. ~Entitled(r)
    BY <2>1, PassedAuthentication DEF Entitled, Authorized, Authenticating, ActorOf
  <2>3. code \in Forbidden  BY <2>1 DEF DeniedCode, Forbidden
  <2>4. code \in Codes \ Conflicts /\ Status(code) \notin 200..299
    BY <2>3, StatusOfCode DEF Codes, Forbidden, Conflicts
  <2> QED  BY <2>2, <2>4 DEF AtFault
<1> QED  BY <1>2, <1>3, <1>4

-----------------------------------------------------------------------------
(* Rows.                                                                   *)

LEMMA RowFields ==
  ASSUME NEW row \in Rows
  PROVE  /\ row.kind \in {"episode", "claim", "execution"}
         /\ row.tenant \in Tenants /\ row.key \in Keys /\ row.subject \in Subjects
         /\ row.actor \in Actors \cup {Nobody}
         /\ row.kind # "episode" => row.actor = Nobody
         /\ row = [kind |-> row.kind, tenant |-> row.tenant, key |-> row.key,
                   subject |-> row.subject, actor |-> row.actor, status |-> row.status]
         /\ row.kind = "execution" <=> row.status \in {"open", "cancelled", "succeeded"}
  BY DEF Rows

Restated(row, status) == [row EXCEPT !.status = status]

LEMMA RestatedRow ==
  ASSUME NEW row \in Rows, row.kind = "execution",
         NEW status \in {"open", "cancelled", "succeeded"}
  PROVE  /\ Restated(row, status) \in Rows
         /\ Restated(row, status).status = status
         /\ Restated(row, status).kind = row.kind
         /\ Restated(row, status).tenant = row.tenant
         /\ Restated(row, status).key = row.key
         /\ Restated(row, status).subject = row.subject
         /\ Restated(row, status).actor = row.actor
  BY DEF Rows, Restated

LEMMA ClaimRow ==
  ASSUME NEW row \in Rows, row.kind = "episode"
  PROVE  /\ ClaimOf(row) \in Rows
         /\ ClaimOf(row).kind = "claim" /\ ClaimOf(row).tenant = row.tenant
         /\ ClaimOf(row).key = row.key /\ ClaimOf(row).subject = row.subject
<1> DEFINE mid == [row EXCEPT !.kind = "claim"]
<1>1. mid = [kind |-> "claim", tenant |-> row.tenant, key |-> row.key,
             subject |-> row.subject, actor |-> row.actor, status |-> row.status]
  BY DEF Rows
<1>2. ClaimOf(row) = [mid EXCEPT !.actor = Nobody]  BY Zenon DEF ClaimOf
<1>3. ClaimOf(row) =
        [kind |-> "claim", tenant |-> row.tenant, key |-> row.key,
         subject |-> row.subject, actor |-> Nobody, status |-> row.status]
  BY <1>1, <1>2
<1>4. row.status = "kept"  BY DEF Rows
<1> QED  BY <1>3, <1>4, RowFields DEF Rows

LEMMA NewRowFields ==
  ASSUME NEW t \in Tasks, asked[t] \in Requests, asked[t].op \in Creates,
         ActorOf(principal[t], asked[t].actor) = ActsFor(asked[t]),
         ActsFor(asked[t]) \in Actors
  PROVE  /\ NewRow(t) \in Rows
         /\ NewRow(t).kind = KindOf(asked[t].op) /\ NewRow(t).kind # "claim"
         /\ NewRow(t).tenant = asked[t].tenant
         /\ NewRow(t).key = asked[t].key
         /\ NewRow(t).subject = asked[t].subject
         /\ NewRow(t).kind = "episode" <=> asked[t].op = "record_episode"
         /\ NewRow(t).kind = "episode" => NewRow(t).actor = ActsFor(asked[t])
  BY RequestFields, KindsOfOperations DEF NewRow, Rows

\* What a step does to the rows.
Insert(t) ==
  /\ phase[t] = "calling"
  /\ asked[t].op \in Creates
  /\ Taken(t) = {}
  /\ rows' = rows \cup {NewRow(t)}

Restate ==
  \E row \in rows, status \in {"cancelled", "succeeded"} :
    /\ row.kind = "execution" /\ row.status # "succeeded"
    /\ rows' = (rows \ {row}) \cup {Restated(row, status)}

AddClaim ==
  \E row \in rows : row.kind = "episode" /\ rows' = rows \cup {ClaimOf(row)}

\* The same row, with another status at most.
Like(row, new) ==
  /\ new.kind = row.kind /\ new.tenant = row.tenant /\ new.key = row.key
  /\ new.subject = row.subject /\ new.actor = row.actor
  /\ row.status = "succeeded" => new = row

RowsMove(t) == UNCHANGED rows \/ Insert(t) \/ Restate \/ AddClaim

\* No row is lost.
LEMMA RowsStay ==
  ASSUME rows \subseteq Rows, NEW t, RowsMove(t), NEW row \in rows
  PROVE  \E new \in rows' : Like(row, new)
<1>1. CASE Restate
  <2>1. PICK old \in rows, status \in {"cancelled", "succeeded"} :
          /\ old.kind = "execution" /\ old.status # "succeeded"
          /\ rows' = (rows \ {old}) \cup {Restated(old, status)}
    BY <1>1 DEF Restate
  <2>2. CASE row = old  BY <2>1, <2>2, RestatedRow DEF Like
  <2>3. CASE row # old  BY <2>1, <2>3 DEF Like
  <2> QED  BY <2>2, <2>3
<1>2. CASE ~Restate
  <2>1. row \in rows'  BY <1>2 DEF RowsMove, Insert, AddClaim
  <2> QED  BY <2>1 DEF Like
<1> QED  BY <1>1, <1>2

\* A row that is not new stands for one that was there.
LEMMA RowsCome ==
  ASSUME rows \subseteq Rows, NEW t, RowsMove(t), NEW new \in rows'
  PROVE  \/ \E row \in rows : Like(row, new)
         \/ \E row \in rows : row.kind = "episode" /\ new = ClaimOf(row)
         \/ Insert(t) /\ new = NewRow(t)
<1>1. CASE new \in rows  BY <1>1 DEF Like
<1>2. CASE new \notin rows /\ Restate
  <2>1. PICK old \in rows, status \in {"cancelled", "succeeded"} :
          /\ old.kind = "execution" /\ old.status # "succeeded"
          /\ rows' = (rows \ {old}) \cup {Restated(old, status)}
    BY <1>2 DEF Restate
  <2>2. new = Restated(old, status)  BY <1>2, <2>1
  <2> QED  BY <2>1, <2>2, RestatedRow DEF Like
<1>3. CASE new \notin rows /\ ~Restate
  BY <1>3 DEF RowsMove, Insert, AddClaim
<1> QED  BY <1>1, <1>2, <1>3

LEMMA OneRowStays ==
  ASSUME rows \subseteq Rows, OneRow,
         UNCHANGED rows \/ Restate \/ AddClaim \/
           \E t \in Tasks :
             /\ Insert(t)
             /\ NewRow(t).kind = KindOf(asked[t].op)
             /\ NewRow(t).tenant = asked[t].tenant /\ NewRow(t).key = asked[t].key
  PROVE  OneRow'
<1>1. CASE UNCHANGED rows  BY <1>1 DEF OneRow
<1>2. CASE Restate
  <2>1. PICK old \in rows, status \in {"cancelled", "succeeded"} :
          /\ old.kind = "execution" /\ old.status # "succeeded"
          /\ rows' = (rows \ {old}) \cup {Restated(old, status)}
    BY <1>2 DEF Restate
  <2> QED  BY <2>1, RestatedRow DEF OneRow, SameName
<1>3. CASE AddClaim
  BY <1>3, ClaimRow DEF AddClaim, OneRow, SameName
<1>4. ASSUME NEW t \in Tasks, Insert(t),
             NewRow(t).kind = KindOf(asked[t].op),
             NewRow(t).tenant = asked[t].tenant, NewRow(t).key = asked[t].key
      PROVE  OneRow'
  BY <1>4 DEF Insert, Taken, OneRow, SameName
<1> QED  BY <1>1, <1>2, <1>3, <1>4

-----------------------------------------------------------------------------
(* What the steps of a task have in common.                                *)

\* A task that calls a store acts for an entitled caller, as who it is.
LEMMA CallingIsEntitled ==
  ASSUME AccessInv, NEW t \in Tasks, phase[t] = "calling"
  PROVE  /\ asked[t] \in Requests
         /\ Entitled(asked[t])
         /\ ActorOf(principal[t], asked[t].actor) = ActsFor(asked[t])
         /\ asked[t].op \in Creates => ActsFor(asked[t]) \in Actors
<1>1. /\ asked[t] \in Requests /\ process \in Processes
      /\ AuthenticationRefusal(process, asked[t]) = Passed
      /\ RequestRefusal(process, asked[t], Principal(t)) = Passed
      /\ principal[t] = Principal(t)
  BY DEF AccessInv, TypeOK, Cleared
<1>2. Entitled(asked[t])  BY <1>1, PassedIsEntitled
<1>3. ActorOf(principal[t], asked[t].actor) = ActsFor(asked[t])
  BY <1>1, PassedAuthentication
<1>4. ASSUME asked[t].op \in Creates  PROVE ActsFor(asked[t]) \in Actors
  <2>1. MappingRefusal(asked[t], Principal(t)) = Passed
    BY <1>1 DEF RequestRefusal, Then
  <2>2. ActorRefusal(Principal(t), asked[t].actor) = Passed
    BY <1>4, <2>1 DEF MappingRefusal, ToCommand, ToStartExecution, Then, Creates, Posts
  <2>3. CASE Authenticating
    BY <1>1, <2>3, PassedAuthentication DEF ActsFor, Principals
  <2>4. CASE ~Authenticating
    <3>1. Principal(t) = Nobody /\ asked[t].actor # Nobody
      BY <1>1, <2>2, <2>4, PassedAuthentication DEF ActorRefusal, Passed
    <3> QED  BY <1>1, <2>4, <3>1, RequestFields DEF ActsFor
  <2> QED  BY <2>3, <2>4
<1> QED  BY <1>1, <1>2, <1>3, <1>4

LEMMA CallingRow ==
  ASSUME AccessInv, NEW t \in Tasks, phase[t] = "calling", asked[t].op \in Creates
  PROVE  /\ NewRow(t) \in Rows
         /\ NewRow(t).kind = KindOf(asked[t].op) /\ NewRow(t).kind # "claim"
         /\ NewRow(t).tenant = asked[t].tenant
         /\ NewRow(t).key = asked[t].key
         /\ NewRow(t).subject = asked[t].subject
         /\ NewRow(t).kind = "episode" <=> asked[t].op = "record_episode"
         /\ NewRow(t).kind = "episode" => NewRow(t).actor = ActsFor(asked[t])
  BY CallingIsEntitled, NewRowFields

\* A response and what happens to the rows with it, as far as the invariant
\* needs to know.
Sound(t, code, shown) ==
  /\ code \in {"ok", "created"} \cup Conflicts \/ shown # {} => phase[t] = "calling"
  /\ \A row \in shown : row.tenant = asked[t].tenant /\ row.subject = asked[t].subject
  /\ UNCHANGED rows \/ Restate \/ Insert(t)
  /\ Status(code) \in 400..499 => UNCHANGED rows /\ AtFault(asked[t], code)
  /\ code = "created" => Insert(t)
  /\ code = "ok" /\ asked[t].op \in Creates =>
       UNCHANGED rows /\ \E row \in Taken(t) : SameRequest(row, NewRow(t))

Responds(t) ==
  /\ phase[t] \in {"received", "calling"}
  /\ \E code \in Codes, shown \in SUBSET Rows : Respond(t, code, shown) /\ Sound(t, code, shown)

LEMMA RefusalResponds ==
  ASSUME NEW t \in Tasks, phase[t] \in {"received", "calling"},
         NEW code \in Codes \ {"ok", "created"}, code \in Conflicts => phase[t] = "calling",
         Status(code) \in 400..499 => AtFault(asked[t], code),
         Refuse(t, code)
  PROVE  Responds(t)
<1>1. Sound(t, code, {})  BY DEF Sound, Refuse
<1> QED  BY <1>1 DEF Responds, Refuse

LEMMA ChecksRespond ==
  ASSUME AccessInv, NEW t \in Tasks,
         RefuseAuthentication(t) \/ LoseKeys(t) \/ RefuseRequest(t)
  PROVE  Responds(t)
<1>1. process \in Processes /\ phase[t] = "received" /\ asked[t] \in Requests
  BY DEF AccessInv, TypeOK, RefuseAuthentication, LoseKeys, RefuseRequest
<1>2. CASE RefuseAuthentication(t)
  <2> DEFINE code == AuthenticationRefusal(process, asked[t])
  <2>1. ~Entitled(asked[t]) /\ code \in Codes \ Conflicts
    BY <1>1, <1>2, AuthenticationRefusesForCause DEF RefuseAuthentication
  <2>2. code \notin {"ok", "created"}
    BY <1>2 DEF RefuseAuthentication, AuthenticationRefusal, Passed
  <2> QED  BY <1>1, <1>2, <2>1, <2>2, RefusalResponds DEF RefuseAuthentication, AtFault
<1>3. CASE LoseKeys(t)
  <2>1. "invalid_token" \in Codes \ {"ok", "created"} /\ "invalid_token" \notin Conflicts
    BY DEF Codes, Unauthenticated, Conflicts
  <2>2. AtFault(asked[t], "invalid_token")
    BY <1>3 DEF LoseKeys, KeysUnavailable, AtFault
  <2> QED  BY <1>1, <1>3, <2>1, <2>2, RefusalResponds DEF LoseKeys
<1>4. CASE RefuseRequest(t)
  <2> DEFINE code == RequestRefusal(process, asked[t], Principal(t))
  <2>1. /\ code \in Codes \ Conflicts
        /\ Status(code) \in 400..499 => AtFault(asked[t], code)
        /\ Status(code) \notin 200..299
    BY <1>1, <1>4, ChecksRefuseForCause DEF RefuseRequest
  <2>2. code \notin {"ok", "created"}  BY <2>1, StatusOfCode
  <2> QED  BY <1>1, <1>4, <2>1, <2>2, RefusalResponds DEF RefuseRequest
<1> QED  BY <1>2, <1>3, <1>4

LEMMA CreatesRespond ==
  ASSUME AccessInv, NEW t \in Tasks, Create(t) \/ Replay(t) \/ RefuseReplay(t)
  PROVE  Responds(t)
<1>1. /\ rows \subseteq Rows
      /\ phase[t] = "calling" /\ asked[t].op \in Creates /\ asked[t] \in Requests
  BY CallingIsEntitled DEF AccessInv, TypeOK, Create, Replay, RefuseReplay
<1>2. "ok" \in Codes /\ "created" \in Codes  BY DEF Codes
<1>3. Status("ok") \notin 400..499 /\ Status("created") \notin 400..499
  BY <1>2, StatusOfCode
<1>4. \A row \in Taken(t) :
        /\ row \in rows /\ row.kind = KindOf(asked[t].op)
        /\ row.tenant = asked[t].tenant /\ row.key = asked[t].key
  BY DEF Taken
<1>5. CASE Create(t)
  <2>1. Insert(t)  BY <1>5 DEF Create, Insert
  <2>2. {NewRow(t)} \in SUBSET Rows  BY <1>1, CallingRow
  <2>3. Sound(t, "created", {NewRow(t)})
    BY <1>1, <1>3, <2>1, CallingRow DEF Sound
  <2> QED  BY <1>1, <1>2, <1>5, <2>2, <2>3 DEF Responds, Create
<1>6. CASE Replay(t)
  <2>1. PICK row \in Taken(t) : SameRequest(row, NewRow(t)) /\ Respond(t, "ok", {row})
    BY <1>6 DEF Replay
  <2>2. row.subject = asked[t].subject  BY <1>1, <2>1, CallingRow DEF SameRequest
  <2>3. {row} \in SUBSET Rows  BY <1>1, <1>4
  <2>4. Sound(t, "ok", {row})
    BY <1>1, <1>3, <1>4, <1>6, <2>1, <2>2 DEF Sound, Replay
  <2> QED  BY <1>1, <1>2, <2>1, <2>3, <2>4 DEF Responds
<1>7. CASE RefuseReplay(t)
  <2> DEFINE code == ConflictCode(asked[t].op)
  <2>1. code \in Conflicts /\ code \in Codes \ {"ok", "created"}
    BY DEF ConflictCode, Conflicts, Codes
  <2>2. PICK row \in Taken(t) : ~SameRequest(row, NewRow(t))  BY <1>7 DEF RefuseReplay
  <2>3. row.subject = asked[t].subject =>
          asked[t].op = "record_episode" /\ row.actor # ActsFor(asked[t])
    <3>1. CASE asked[t].op = "record_episode"
      BY <1>1, <2>2, <3>1, CallingRow DEF SameRequest
    <3>2. CASE asked[t].op # "record_episode"
      <4>1. row.actor = Nobody
        BY <1>1, <1>4, <3>2, RowFields, RequestFields, KindsOfOperations
      <4>2. NewRow(t).actor = Nobody  BY <3>2 DEF NewRow
      <4> QED  BY <1>1, <2>2, <4>1, <4>2, CallingRow DEF SameRequest
    <3> QED  BY <3>1, <3>2
  <2>4. AtFault(asked[t], code)
    BY <1>1, <1>4, <2>1, <2>3 DEF AtFault
  <2> HIDE DEF code
  <2>5. Refuse(t, code)  BY <1>7 DEF RefuseReplay, code
  <2> QED  BY <1>1, <2>1, <2>4, <2>5, RefusalResponds
<1> QED  BY <1>5, <1>6, <1>7

LEMMA ReadsRespond ==
  ASSUME AccessInv, NEW t \in Tasks,
         Get(t) \/ FindNothing(t) \/ List(t) \/ RefuseCursor(t)
  PROVE  Responds(t)
<1>1. rows \subseteq Rows /\ phase[t] = "calling" /\ asked[t] \in Requests
  BY CallingIsEntitled DEF AccessInv, TypeOK, Get, FindNothing, List, RefuseCursor
<1>2. "ok" \in Codes /\ Status("ok") \notin 400..499
  BY StatusOfCode DEF Codes
<1>3. /\ InScope(t) \in SUBSET Rows /\ Named(t) \in SUBSET Rows
      /\ \A row \in InScope(t) \cup Named(t) :
           row.tenant = asked[t].tenant /\ row.subject = asked[t].subject
  BY <1>1 DEF InScope, Named
<1>4. CASE Get(t)
  <2>1. Sound(t, "ok", Named(t))
    BY <1>1, <1>2, <1>3, <1>4 DEF Sound, Get, ById, Posts, Creates
  <2> QED  BY <1>1, <1>2, <1>3, <1>4, <2>1 DEF Responds, Get
<1>5. CASE List(t)
  <2>1. Sound(t, "ok", InScope(t))
    BY <1>1, <1>2, <1>3, <1>5 DEF Sound, List, Lists, Creates
  <2> QED  BY <1>1, <1>2, <1>3, <1>5, <2>1 DEF Responds, List
<1>6. CASE FindNothing(t)
  <2> DEFINE code == AbsentCode(asked[t].op)
  <2>1. code \in Absent /\ code \in Codes \ {"ok", "created"} /\ code \notin Conflicts
    BY DEF AbsentCode, Absent, Codes, Conflicts
  <2>2. AtFault(asked[t], code)  BY <1>6, <2>1 DEF FindNothing, AtFault
  <2> QED  BY <1>1, <1>6, <2>1, <2>2, RefusalResponds DEF FindNothing
<1>7. CASE RefuseCursor(t)
  <2> DEFINE code == CursorCode(asked[t].op)
  <2>1. code \in Codes \ {"ok", "created"} /\ code \notin Conflicts
    BY DEF CursorCode, Unprocessable, Codes, Conflicts
  <2>2. AtFault(asked[t], code)  BY <1>7 DEF RefuseCursor, AtFault
  <2> QED  BY <1>1, <1>7, <2>1, <2>2, RefusalResponds DEF RefuseCursor
<1> QED  BY <1>4, <1>5, <1>6, <1>7

LEMMA CancelsRespond ==
  ASSUME AccessInv, NEW t \in Tasks, Cancel(t) \/ RefuseCancel(t)
  PROVE  Responds(t)
<1>1. /\ rows \subseteq Rows /\ phase[t] = "calling" /\ asked[t] \in Requests
      /\ asked[t].op = "cancel_execution"
  BY CallingIsEntitled DEF AccessInv, TypeOK, Cancel, RefuseCancel
<1>2. \A row \in Named(t) :
        /\ row \in rows /\ row.kind = "execution" /\ row.tenant = asked[t].tenant
        /\ row.subject = asked[t].subject /\ row.key = asked[t].key
  BY <1>1, KindsOfOperations, RequestFields DEF Named, InScope
<1>3. CASE Cancel(t)
  <2>1. PICK row \in Named(t) :
          /\ row.status # "succeeded"
          /\ rows' = (rows \ {row}) \cup {Cancelled(row)}
          /\ Respond(t, "ok", {Cancelled(row)})
    BY <1>3 DEF Cancel
  <2>2. Cancelled(row) = Restated(row, "cancelled")  BY DEF Cancelled, Restated
  <2>3. Restate  BY <1>2, <2>1, <2>2 DEF Restate
  <2>4. /\ Cancelled(row) \in Rows /\ Cancelled(row).tenant = asked[t].tenant
        /\ Cancelled(row).subject = asked[t].subject
    BY <1>1, <1>2, <2>2, RestatedRow
  <2>5. "ok" \in Codes /\ Status("ok") \notin 400..499
    BY StatusOfCode DEF Codes
  <2>6. Sound(t, "ok", {Cancelled(row)})
    BY <1>1, <2>3, <2>4, <2>5 DEF Sound, Creates
  <2> QED  BY <1>1, <2>1, <2>4, <2>5, <2>6 DEF Responds
<1>4. CASE RefuseCancel(t)
  <2> DEFINE code == "invalid_execution_transition"
  <2>1. code \in Conflicts /\ code \in Codes \ {"ok", "created"}
    BY DEF Conflicts, Codes
  <2>2. PICK row \in Named(t) : row.status = "succeeded"  BY <1>4 DEF RefuseCancel
  <2>3. KindOf(asked[t].op) = "execution" /\ asked[t].op \notin Creates
    BY <1>1, KindsOfOperations, RequestFields DEF Creates
  <2>4. AtFault(asked[t], code)
    BY <1>2, <2>1, <2>2, <2>3 DEF AtFault, About
  <2> QED  BY <1>1, <1>4, <2>1, <2>4, RefusalResponds DEF RefuseCancel
<1> QED  BY <1>3, <1>4

LEMMA FailuresRespond ==
  ASSUME AccessInv, NEW t \in Tasks, FailCall(t)
  PROVE  Responds(t)
<1>1. rows \subseteq Rows /\ phase[t] = "calling" /\ asked[t] \in Requests
  BY CallingIsEntitled DEF AccessInv, TypeOK, FailCall
<1>2. PICK code \in FailureCodes(asked[t].op) : Respond(t, code, {})
  BY DEF FailCall
<1>3. code \in {"internal_error", "orchestration_unavailable"}
  BY DEF FailureCodes
<1>4. code \in Codes /\ code \notin Conflicts /\ Status(code) \notin 400..499
      /\ code \notin {"ok", "created"}
  BY <1>3, StatusOfCode
  DEF Codes, Conflicts, Unauthenticated, Forbidden, Absent, Unprocessable, Unavailable
<1>5. UNCHANGED rows \/ Restate \/ Insert(t)
  <2>1. CASE UNCHANGED rows  BY <2>1
  <2>2. CASE asked[t].op \in Creates /\ Taken(t) = {} /\ rows' = rows \cup {NewRow(t)}
    BY <1>1, <2>2 DEF Insert
  <2>3. ASSUME asked[t].op = "cancel_execution", NEW row \in Named(t),
               row.status = "open", rows' = (rows \ {row}) \cup {Cancelled(row)}
        PROVE  Restate
    <3>1. Cancelled(row) = Restated(row, "cancelled")  BY DEF Cancelled, Restated
    <3>2. row \in rows /\ row.kind = "execution"
      BY <1>1, <2>3, KindsOfOperations, RequestFields DEF Named, InScope
    <3> QED  BY <2>3, <3>1, <3>2 DEF Restate
  <2> QED  BY <2>1, <2>2, <2>3 DEF FailCall
<1>6. Sound(t, code, {})  BY <1>4, <1>5 DEF Sound
<1> QED  BY <1>1, <1>2, <1>4, <1>6 DEF Responds

LEMMA Outcomes ==
  ASSUME AccessInv, NEW t \in Tasks, Step(t)
  PROVE  Receive(t) \/ Call(t) \/ Responds(t)
  BY ChecksRespond, CreatesRespond, ReadsRespond, CancelsRespond, FailuresRespond DEF Step

-----------------------------------------------------------------------------
(* The invariant.                                                          *)

\* A task that has answered stays as it is.
Persist ==
  /\ UNCHANGED process
  /\ \A u \in Tasks : phase[u] = "answered" =>
       asked'[u] = asked[u] /\ phase'[u] = "answered" /\ answer'[u] = answer[u]

\* What a response does to its task, and to the others.
LEMMA ResponseEffect ==
  ASSUME TypeOK, NEW t \in Tasks, phase[t] # "idle", NEW code, NEW shown,
         Respond(t, code, shown)
  PROVE  /\ UNCHANGED <<process, asked>>
         /\ phase' = [phase EXCEPT ![t] = "answered"] /\ phase'[t] = "answered"
         /\ answer'[t] = Response(code, shown)
         /\ principal' = [principal EXCEPT ![t] = Nobody] /\ principal'[t] = Nobody
         /\ \A u \in Tasks \ {t} : /\ phase'[u] = phase[u] /\ answer'[u] = answer[u]
                                   /\ principal'[u] = principal[u]
  BY DEF TypeOK, Respond, Goto

LEMMA Persistence ==
  ASSUME TypeOK, NEW t \in Tasks, Receive(t) \/ Call(t) \/ Responds(t)
  PROVE  Persist
<1>1. CASE Receive(t) \/ Call(t)
  BY <1>1 DEF Receive, Call, Bind, Goto, TypeOK, Persist
<1>2. CASE Responds(t)
  BY <1>2, ResponseEffect DEF Responds, Persist
<1> QED  BY <1>1, <1>2

LEMMA TaskMoves ==
  ASSUME NEW t \in Tasks, Receive(t) \/ Call(t) \/ Responds(t)
  PROVE  RowsMove(t)
  BY DEF Receive, Call, Responds, Sound, RowsMove

\* The pipeline and the orchestrator.
LEMMA BackgroundMoves ==
  ASSUME TypeOK, NEW row \in rows, Extract(row) \/ Finish(row)
  PROVE  /\ Restate \/ AddClaim
         /\ UNCHANGED <<process, phase, asked, principal, answer>>
<1>1. CASE Extract(row)  BY <1>1 DEF Extract, AddClaim
<1>2. CASE Finish(row)
  <2>1. row.kind = "execution"  BY <1>2, RowFields DEF TypeOK, Finish
  <2>2. [row EXCEPT !.status = "succeeded"] = Restated(row, "succeeded")  BY DEF Restated
  <2> QED  BY <1>2, <2>1, <2>2 DEF Finish, Restate
<1> QED  BY <1>1, <1>2

LEMMA RowsInv ==
  ASSUME AccessInv, NEW t, t \in Tasks \/ ~Insert(t), RowsMove(t)
  PROVE  rows' \subseteq Rows /\ OneRow'
<1>1. rows \subseteq Rows /\ OneRow  BY DEF AccessInv, TypeOK
<1>2. CASE Insert(t)
  <2>1. t \in Tasks /\ phase[t] = "calling" /\ asked[t].op \in Creates
    BY <1>2 DEF Insert
  <2>2. NewRow(t) \in Rows /\ NewRow(t).kind = KindOf(asked[t].op)
        /\ NewRow(t).tenant = asked[t].tenant /\ NewRow(t).key = asked[t].key
    BY <2>1, CallingRow
  <2> QED  BY <1>1, <1>2, <2>1, <2>2, OneRowStays DEF Insert
<1>3. CASE ~Insert(t)
  <2>1. UNCHANGED rows \/ Restate \/ AddClaim  BY <1>3 DEF RowsMove
  <2>2. rows' \subseteq Rows
    BY <1>1, <2>1, RestatedRow, ClaimRow DEF Restate, AddClaim
  <2> QED  BY <1>1, <2>1, <2>2, OneRowStays
<1> QED  BY <1>2, <1>3

LEMMA ResponseType ==
  ASSUME NEW code \in Codes, NEW shown \in SUBSET Rows
  PROVE  /\ Response(code, shown) \in [code: Codes \cup {"none"}, status: {0} \cup 200..599,
                                       shown: SUBSET Rows]
         /\ Response(code, shown).status # 0
         /\ Response(code, shown).status = Status(code)
         /\ Response(code, shown).code = code
         /\ Response(code, shown).shown = shown
  BY StatusOfCode DEF Response

LEMMA TypeTask ==
  ASSUME AccessInv, NEW t \in Tasks, Receive(t) \/ Call(t) \/ Responds(t)
  PROVE  TypeOK'
<1>1. TypeOK  BY DEF AccessInv
<1>2. rows' \subseteq Rows  BY TaskMoves, RowsInv
<1>3. CASE Receive(t)
  <2>1. PICK r \in Clients[t] : asked' = [asked EXCEPT ![t] = r]  BY <1>3 DEF Receive
  <2>2. r \in Requests /\ r # Nobody  BY ClientsAssumption, RequestsAssumption
  <2>3. asked'[t] = r  BY <1>1, <2>1 DEF TypeOK
  <2>4. "validation_error" \in Codes /\ {} \in SUBSET Rows  BY DEF Codes, Unprocessable
  <2>5. CASE r.flaw = "schema"
    <3>1. /\ phase' = [phase EXCEPT ![t] = "answered"]
          /\ answer' = [answer EXCEPT ![t] = Response("validation_error", {})]
          /\ UNCHANGED <<process, rows, principal>>
          /\ phase[t] = "idle"
      BY <1>3, <2>3, <2>5 DEF Receive, Goto
    <3> HIDE DEF Response
    <3> QED  BY <1>1, <2>1, <2>2, <2>4, <3>1, ResponseType DEF TypeOK, Phases
  <2>6. CASE r.flaw # "schema"
    <3>1. /\ phase' = [phase EXCEPT ![t] = "received"]
          /\ UNCHANGED <<process, rows, principal, answer>>
          /\ phase[t] = "idle"
      BY <1>3, <2>3, <2>6 DEF Receive, Goto
    <3> QED  BY <1>1, <2>1, <2>2, <3>1 DEF TypeOK, Phases
  <2> QED  BY <2>5, <2>6
<1>4. CASE Call(t)
  <2>1. asked[t] \in Requests /\ process \in Processes
    BY <1>1, <1>4 DEF AccessInv, TypeOK, Call
  <2>2. Principal(t) \in Principals \cup {Nobody}
    BY <1>4, <2>1, PassedAuthentication DEF Call
  <2> QED  BY <1>1, <1>4, <2>2 DEF TypeOK, Phases, Call, Bind, Goto
<1>5. CASE Responds(t)
  <2>1. PICK code \in Codes, shown \in SUBSET Rows : Respond(t, code, shown)
    BY <1>5 DEF Responds
  <2>2. phase[t] # "idle"  BY <1>5 DEF Responds
  <2>3. answer' = [answer EXCEPT ![t] = Response(code, shown)]  BY <2>1 DEF Respond
  <2> QED
    BY <1>1, <1>2, <2>1, <2>2, <2>3, ResponseType, ResponseEffect DEF TypeOK, Phases
<1> QED  BY <1>3, <1>4, <1>5

LEMMA ClearedTask ==
  ASSUME AccessInv, NEW t \in Tasks, Receive(t) \/ Call(t) \/ Responds(t)
  PROVE  Cleared'
<1>1. TypeOK /\ Cleared  BY DEF AccessInv
<1>2. /\ UNCHANGED process
      /\ \A u \in Tasks \ {t} : phase'[u] = phase[u] /\ asked'[u] = asked[u]
                                /\ principal'[u] = principal[u]
  <2>1. CASE Receive(t) \/ Call(t)
    BY <1>1, <2>1 DEF Receive, Call, Bind, Goto, TypeOK
  <2>2. CASE Responds(t)  BY <1>1, <2>2, ResponseEffect DEF Responds
  <2> QED  BY <2>1, <2>2
<1>3. CASE Call(t)
  <2>1. asked' = asked /\ principal'[t] = Principal(t)
    BY <1>1, <1>3 DEF Call, Bind, TypeOK
  <2> QED  BY <1>1, <1>2, <1>3, <2>1 DEF Call, Cleared, Principal
<1>4. CASE Receive(t)
  <2>1. phase'[t] # "calling"  BY <1>1, <1>4 DEF Receive, Goto, TypeOK
  <2> QED  BY <1>1, <1>2, <2>1 DEF Cleared, Principal
<1>5. CASE Responds(t)
  <2>1. phase'[t] # "calling"  BY <1>1, <1>5, ResponseEffect DEF Responds
  <2> QED  BY <1>1, <1>2, <2>1 DEF Cleared, Principal
<1> QED  BY <1>3, <1>4, <1>5

\* A reason to refuse a request remains one.
LEMMA AtFaultStays ==
  ASSUME rows \subseteq Rows, UNCHANGED process, NEW t, RowsMove(t),
         NEW r, NEW code, AtFault(r, code)
  PROVE  AtFault(r, code)'
<1>1. Entitled(r)' <=> Entitled(r)  BY DEF Entitled, Authenticating
<1>2. ActsFor(r)' = ActsFor(r) /\ (Authenticating' <=> Authenticating)
  BY DEF ActsFor, Authenticating
<1>3. CASE code \in Conflicts /\ r.op \in Creates
  <2>1. ASSUME NEW row \in rows, row.kind = KindOf(r.op), row.tenant = r.tenant,
               row.key = r.key,
               \/ row.subject # r.subject
               \/ r.op = "record_episode" /\ row.actor # ActsFor(r)
        PROVE  AtFault(r, code)'
    <3>1. PICK new \in rows' : Like(row, new)  BY RowsStay
    <3> QED  BY <1>2, <1>3, <2>1, <3>1 DEF AtFault, Like
  <2> QED  BY <1>1, <1>2, <1>3, <2>1 DEF AtFault
<1>4. CASE code \in Conflicts /\ r.op \notin Creates
  <2>1. ASSUME NEW row \in rows, About(r, row), row.status = "succeeded"
        PROVE  AtFault(r, code)'
    <3>1. row \in rows'  BY <2>1, RowsStay DEF Like
    <3>2. About(r, row)'  BY <2>1 DEF About
    <3> QED  BY <1>4, <2>1, <3>1, <3>2 DEF AtFault
  <2> QED  BY <1>1, <1>2, <1>4, <2>1 DEF AtFault
<1>5. CASE code \notin Conflicts
  BY <1>1, <1>2, <1>5 DEF AtFault
<1> QED  BY <1>3, <1>4, <1>5

\* What holds of the tasks that have answered goes on to hold.
LEMMA AnsweredBefore ==
  ASSUME AccessInv, Persist, NEW t, RowsMove(t), NEW u \in Answered
  PROVE  /\ u \in Answered' /\ asked'[u] = asked[u] /\ answer'[u] = answer[u]
         /\ Entitled(asked[u])' <=> Entitled(asked[u])
         /\ ActsFor(asked[u])' = ActsFor(asked[u])
         /\ Refused(u)' <=> Refused(u)
         /\ Succeeded(u)' <=> Succeeded(u)
  BY DEF Persist, Answered, Entitled, ActsFor, Authenticating, Refused, Succeeded

LEMMA MadeByStays ==
  ASSUME AccessInv, Persist, NEW t, RowsMove(t), NEW u \in Answered,
         NEW row \in Rows, NEW new \in Rows, MadeBy(row, u),
         Like(row, new) \/ (row.kind = "episode" /\ new = ClaimOf(row))
  PROVE  MadeBy(new, u)'
<1>1. /\ asked'[u] = asked[u]
      /\ Entitled(asked[u])' <=> Entitled(asked[u])
      /\ ActsFor(asked[u])' = ActsFor(asked[u])
      /\ Refused(u)' <=> Refused(u)
  BY AnsweredBefore
<1>2. asked[u] \in Requests
  BY DEF AccessInv, TypeOK, Answered
<1>3. About(asked[u], IF row.kind = "claim" THEN [row EXCEPT !.kind = "episode"] ELSE row)
  BY DEF MadeBy
<1>4. /\ row.tenant = asked[u].tenant /\ row.key = asked[u].key
      /\ row.subject = asked[u].subject
      /\ KindOf(asked[u].op) = IF row.kind = "claim" THEN "episode" ELSE row.kind
  BY <1>3 DEF About, Rows
<1>5. /\ new.tenant = row.tenant /\ new.key = row.key /\ new.subject = row.subject
      /\ KindOf(asked[u].op) = IF new.kind = "claim" THEN "episode" ELSE new.kind
      /\ new.kind = "episode" => new.actor = row.actor /\ row.kind = "episode"
  <2>1. CASE row.kind = "episode" /\ new = ClaimOf(row)
    BY <1>4, <2>1, ClaimRow
  <2>2. CASE Like(row, new)
    BY <1>4, <2>2 DEF Like
  <2> QED  BY <2>1, <2>2
<1> QED  BY <1>1, <1>4, <1>5 DEF MadeBy, About, Rows

\* The response that a step of a task gives, if it gives one.
Responded(t, code, shown) ==
  /\ phase[t] \in {"received", "calling"} /\ UNCHANGED asked
  /\ answer'[t] = Response(code, shown)
  /\ Sound(t, code, shown)

RefusedSchema(t) ==
  /\ phase[t] = "idle" /\ UNCHANGED rows
  /\ asked'[t].flaw = "schema"
  /\ answer'[t] = Response("validation_error", {})

LEMMA NewAnswer ==
  ASSUME AccessInv, NEW t \in Tasks, Receive(t) \/ Call(t) \/ Responds(t),
         t \in Answered'
  PROVE  /\ t \notin Answered
         /\ \/ \E code \in Codes, shown \in SUBSET Rows : Responded(t, code, shown)
            \/ RefusedSchema(t)
<1>1. TypeOK  BY DEF AccessInv
<1>2. CASE Receive(t)
  BY <1>1, <1>2 DEF Receive, Goto, TypeOK, Answered, RefusedSchema
<1>3. CASE Call(t)
  BY <1>1, <1>3 DEF Call, Goto, TypeOK, Answered
<1>4. CASE Responds(t)
  BY <1>1, <1>4, ResponseEffect DEF Responds, Responded, Answered
<1> QED  BY <1>2, <1>3, <1>4

LEMMA OtherAnswers ==
  ASSUME AccessInv, NEW t \in Tasks, Receive(t) \/ Call(t) \/ Responds(t),
         NEW u \in Answered', u # t
  PROVE  u \in Answered
<1>1. TypeOK  BY DEF AccessInv
<1>2. CASE Receive(t) \/ Call(t)
  BY <1>1, <1>2 DEF Receive, Call, Goto, TypeOK, Answered
<1>3. CASE Responds(t)
  BY <1>1, <1>3, ResponseEffect DEF Responds, Answered
<1> QED  BY <1>2, <1>3

\* What a response says of a task that it answers.
LEMMA RespondedFacts ==
  ASSUME AccessInv, NEW t \in Tasks, UNCHANGED process,
         NEW code \in Codes, NEW shown \in SUBSET Rows, Responded(t, code, shown)
  PROVE  /\ asked'[t] = asked[t] /\ asked[t] \in Requests
         /\ answer'[t].code = code /\ answer'[t].shown = shown
         /\ answer'[t].status = Status(code)
         /\ Refused(t)' <=> Status(code) \in 400..499
         /\ Succeeded(t)' <=> code \in {"ok", "created"}
         /\ answer'[t].status = 201 <=> code = "created"
         /\ Entitled(asked[t])' <=> Entitled(asked[t])
         /\ ActsFor(asked[t])' = ActsFor(asked[t])
<1>1. asked[t] \in Requests  BY DEF AccessInv, TypeOK, Responded
<1>2. UNCHANGED asked /\ answer'[t] = Response(code, shown)  BY DEF Responded
<1> HIDE DEF Responded
<1>3. /\ answer'[t].code = code /\ answer'[t].shown = shown
      /\ answer'[t].status = Status(code)
  BY <1>2, ResponseType
<1> QED
  BY <1>1, <1>2, <1>3, StatusOfCode
  DEF Refused, Succeeded, Entitled, ActsFor, Authenticating

\* The rows are still there for the requests that made them.
LEMMA RowsBefore ==
  ASSUME AccessInv, Persist, NEW t, t \in Tasks \/ ~Insert(t), RowsMove(t),
         NEW new \in rows', ~(Insert(t) /\ new = NewRow(t))
  PROVE  \E u \in Answered' : MadeBy(new, u)'
<1>1. rows \subseteq Rows /\ NothingWithoutEntitlement  BY DEF AccessInv, TypeOK
<1>2. new \in Rows  BY RowsInv
<1>3. PICK row \in rows : Like(row, new) \/ (row.kind = "episode" /\ new = ClaimOf(row))
  BY <1>1, RowsCome
<1>4. PICK u \in Answered : MadeBy(row, u)  BY <1>1 DEF NothingWithoutEntitlement
<1>5. MadeBy(new, u)'  BY <1>1, <1>2, <1>3, <1>4, MadeByStays
<1> QED  BY <1>4, <1>5, AnsweredBefore

\* Only an answer that is not a refusal makes a row.
LEMMA RowOfTask ==
  ASSUME AccessInv, NEW t \in Tasks, Responds(t), Insert(t), NEW new, new = NewRow(t)
  PROVE  t \in Answered' /\ MadeBy(new, t)'
<1>1. TypeOK /\ UNCHANGED process  BY ResponseEffect DEF AccessInv, Responds
<1>2. PICK code \in Codes, shown \in SUBSET Rows :
        Respond(t, code, shown) /\ Sound(t, code, shown)
  BY DEF Responds
<1>3. t \in Answered'  BY <1>1, <1>2, ResponseEffect DEF Responds, Answered
<1>4. Responded(t, code, shown)
  BY <1>1, <1>2, ResponseEffect DEF Responds, Responded
<1>5. /\ phase[t] = "calling" /\ asked[t].op \in Creates /\ Taken(t) = {}
      /\ rows' = rows \cup {NewRow(t)}
  BY DEF Insert
<1>6. rows' # rows
  BY <1>5, CallingRow DEF Taken
<1>7. Status(code) \notin 400..499  BY <1>2, <1>6 DEF Sound
<1>8. /\ asked'[t] = asked[t] /\ Entitled(asked[t])' /\ ~Refused(t)'
      /\ ActsFor(asked[t])' = ActsFor(asked[t])
  BY <1>1, <1>4, <1>5, <1>7, RespondedFacts, CallingIsEntitled
<1>9. About(asked[t], NewRow(t))  BY <1>5, CallingRow DEF About
<1> HIDE DEF NewRow
<1>10. /\ NewRow(t).kind # "claim"
       /\ NewRow(t).kind = "episode" => NewRow(t).actor = ActsFor(asked[t])
  BY <1>5, CallingRow
<1>11. MadeBy(new, t)'  BY <1>5, <1>8, <1>9, <1>10 DEF MadeBy, About
<1> QED  BY <1>3, <1>11

\* The tasks that answered earlier keep what they were told.
LEMMA OldEntitlement ==
  ASSUME AccessInv, Persist, NEW t, RowsMove(t), NEW u \in Answered
  PROVE  /\ answer'[u].shown # {} \/ answer'[u].code \in Conflicts => Entitled(asked[u])'
         /\ \A row \in answer'[u].shown :
              row.tenant = asked'[u].tenant /\ row.subject = asked'[u].subject
  BY AnsweredBefore DEF AccessInv, NothingWithoutEntitlement

LEMMA EntitlementTask ==
  ASSUME AccessInv, NEW t \in Tasks, Receive(t) \/ Call(t) \/ Responds(t)
  PROVE  NothingWithoutEntitlement'
<1>1. Persist /\ RowsMove(t) /\ UNCHANGED process
  BY Persistence, TaskMoves DEF AccessInv, Persist
<1>2. ASSUME NEW new \in rows'  PROVE \E u \in Answered' : MadeBy(new, u)'
  <2>1. CASE Insert(t) /\ new = NewRow(t)
    <3>1. Responds(t)  BY <2>1 DEF Receive, Call, Insert
    <3> QED  BY <2>1, <3>1, RowOfTask
  <2> QED  BY <1>1, <1>2, <2>1, RowsBefore
<1>3. ASSUME NEW u \in Answered'
      PROVE  /\ answer'[u].shown # {} \/ answer'[u].code \in Conflicts => Entitled(asked[u])'
             /\ \A row \in answer'[u].shown :
                  row.tenant = asked'[u].tenant /\ row.subject = asked'[u].subject
  <2>1. CASE u # t  BY <1>1, <1>3, <2>1, OtherAnswers, OldEntitlement
  <2>2. CASE u = t /\ RefusedSchema(t)
    <3>1. "validation_error" \in Codes /\ "validation_error" \notin Conflicts
          /\ {} \in SUBSET Rows
      BY DEF Codes, Unprocessable, Conflicts
    <3>2. answer'[u].shown = {} /\ answer'[u].code = "validation_error"
      BY <2>2, <3>1, ResponseType DEF RefusedSchema
    <3> QED  BY <3>1, <3>2
  <2>3. ASSUME u = t, NEW code \in Codes, NEW shown \in SUBSET Rows,
               Responded(t, code, shown)
        PROVE  /\ answer'[u].shown # {} \/ answer'[u].code \in Conflicts
                    => Entitled(asked[u])'
               /\ \A row \in answer'[u].shown :
                    row.tenant = asked'[u].tenant /\ row.subject = asked'[u].subject
    BY <1>1, <2>3, RespondedFacts, CallingIsEntitled DEF Responded, Sound
  <2> QED  BY <1>3, <2>1, <2>2, <2>3, NewAnswer
<1> QED  BY <1>2, <1>3 DEF NothingWithoutEntitlement

\* Whoever was told of a row can still find it.
LEMMA OldRow ==
  ASSUME AccessInv, Persist, NEW t, RowsMove(t), NEW u \in Answered,
         asked[u].op \in Creates, Succeeded(u)
  PROVE  \E row \in rows' :
           /\ About(asked[u], row)'
           /\ asked'[u].op = "record_episode" => row.actor = ActsFor(asked[u])'
<1>1. PICK row \in rows :
        /\ About(asked[u], row)
        /\ asked[u].op = "record_episode" => row.actor = ActsFor(asked[u])
  BY DEF AccessInv, ToldOfRows
<1>2. PICK new \in rows' : Like(row, new)  BY RowsStay DEF AccessInv, TypeOK
<1> QED  BY <1>1, <1>2, AnsweredBefore DEF About, Like

LEMMA ToldTask ==
  ASSUME AccessInv, NEW t \in Tasks, Receive(t) \/ Call(t) \/ Responds(t)
  PROVE  ToldOfRows'
<1>1. Persist /\ RowsMove(t) /\ UNCHANGED process
  BY Persistence, TaskMoves DEF AccessInv, Persist
<1> SUFFICES ASSUME NEW u \in Answered', asked'[u].op \in Creates, Succeeded(u)'
             PROVE  \E row \in rows' :
                      /\ About(asked[u], row)'
                      /\ asked'[u].op = "record_episode" => row.actor = ActsFor(asked[u])'
  BY DEF ToldOfRows
<1>2. CASE u # t  BY <1>1, <1>2, OtherAnswers, AnsweredBefore, OldRow
<1>3. CASE u = t /\ RefusedSchema(t)
  <2>1. "validation_error" \in Codes /\ {} \in SUBSET Rows
        /\ Status("validation_error") \notin 200..299
    BY StatusOfCode DEF Codes, Unprocessable
  <2>2. answer'[u].status = Status("validation_error")
    BY <1>3, <2>1, ResponseType DEF RefusedSchema
  <2> QED  BY <2>1, <2>2 DEF Succeeded
<1>4. ASSUME u = t, NEW code \in Codes, NEW shown \in SUBSET Rows,
             Responded(t, code, shown)
      PROVE  \E row \in rows' :
               /\ About(asked[u], row)'
               /\ asked'[u].op = "record_episode" => row.actor = ActsFor(asked[u])'
  <2>1. /\ asked'[u] = asked[t] /\ code \in {"ok", "created"} /\ asked[t].op \in Creates
        /\ ActsFor(asked[u])' = ActsFor(asked[t])
        /\ phase[t] = "calling" /\ asked[t] \in Requests
    BY <1>1, <1>4, RespondedFacts DEF Responded, Sound
  <2>2. CASE code = "created"
    <3>1. NewRow(t) \in rows'  BY <1>4, <2>2 DEF Responded, Sound, Insert
    <3>2. /\ About(asked[t], NewRow(t))
          /\ asked[t].op = "record_episode" => NewRow(t).actor = ActsFor(asked[t])
      BY <2>1, CallingRow DEF About
    <3> HIDE DEF NewRow
    <3> QED  BY <2>1, <3>1, <3>2 DEF About
  <2>3. CASE code = "ok"
    <3>1. PICK row \in Taken(t) : SameRequest(row, NewRow(t))
      BY <1>4, <2>1, <2>3 DEF Responded, Sound
    <3>2. row \in rows'  BY <1>4, <2>1, <2>3, <3>1 DEF Responded, Sound, Taken
    <3>3. /\ About(asked[t], row)
          /\ asked[t].op = "record_episode" => row.actor = ActsFor(asked[t])
      BY <2>1, <3>1, CallingRow DEF About, Taken, SameRequest
    <3> QED  BY <2>1, <3>2, <3>3 DEF About
  <2> QED  BY <2>1, <2>2, <2>3
<1> QED  BY <1>2, <1>3, <1>4, NewAnswer

\* Two requests that share a key are told of one row, because there is one.
SharedKey(t, u) ==
  /\ asked[t].op \in Creates /\ asked[u].op = asked[t].op
  /\ asked[u].tenant = asked[t].tenant /\ asked[u].key = asked[t].key
  /\ Succeeded(t) /\ Succeeded(u)

SameRowTold ==
  \A t, u \in Answered : SharedKey(t, u) =>
    /\ asked[u].subject = asked[t].subject
    /\ asked[t].op = "record_episode" => ActsFor(asked[u]) = ActsFor(asked[t])

LEMMA OneRowTold ==
  TypeOK /\ OneRow /\ ToldOfRows => SameRowTold
<1> SUFFICES ASSUME TypeOK, OneRow, ToldOfRows, NEW t \in Answered, NEW u \in Answered,
                    SharedKey(t, u)
             PROVE  /\ asked[u].subject = asked[t].subject
                    /\ asked[t].op = "record_episode" =>
                         ActsFor(asked[u]) = ActsFor(asked[t])
  BY DEF SameRowTold
<1>1. PICK row \in rows :
        /\ About(asked[t], row)
        /\ asked[t].op = "record_episode" => row.actor = ActsFor(asked[t])
  BY DEF ToldOfRows, SharedKey
<1>2. PICK other \in rows :
        /\ About(asked[u], other)
        /\ asked[u].op = "record_episode" => other.actor = ActsFor(asked[u])
  BY DEF ToldOfRows, SharedKey
<1>3. row.kind # "claim"
  <2>1. asked[t] \in Requests  BY DEF TypeOK, Answered
  <2> QED
    BY <1>1, <2>1
    DEF About, SharedKey, Creates, KindOf, EpisodeOps, EpisodeReads, ClaimReads
<1>4. row = other  BY <1>1, <1>2, <1>3 DEF OneRow, SameName, About, SharedKey
<1> QED  BY <1>1, <1>2, <1>4 DEF About, SharedKey

\* Whoever is told that it created has found no row, so that nobody has been
\* told of one before.
LEMMA FirstToCreate ==
  ASSUME AccessInv, NEW t \in Tasks, NEW u \in Answered, UNCHANGED process,
         NEW code \in Codes, NEW shown \in SUBSET Rows, Responded(t, code, shown),
         asked[t].op \in Creates, asked[u].op = asked[t].op,
         asked[u].tenant = asked[t].tenant, asked[u].key = asked[t].key, Succeeded(u)
  PROVE  code # "created"
<1>1. SUFFICES ASSUME code = "created" PROVE FALSE  OBVIOUS
<1>2. Taken(t) = {}  BY <1>1 DEF Responded, Sound, Insert
<1>3. PICK row \in rows : About(asked[u], row)  BY DEF AccessInv, ToldOfRows
<1> QED  BY <1>2, <1>3 DEF Taken, About

LEMMA CreatedTask ==
  ASSUME AccessInv, NEW t \in Tasks, Receive(t) \/ Call(t) \/ Responds(t),
         TypeOK', OneRow', ToldOfRows'
  PROVE  CreatedOnce'
<1>1. Persist /\ RowsMove(t) /\ UNCHANGED process
  BY Persistence, TaskMoves DEF AccessInv, Persist
<1>2. SameRowTold'  BY OneRowTold, PTL
<1>3. ASSUME NEW v \in Answered', NEW w \in Answered', SharedKey(v, w)',
             answer'[v].status = 201, answer'[w].status = 201,
             w = t, v # t
      PROVE  FALSE
  <2>1. v \in Answered /\ asked'[v] = asked[v] /\ Succeeded(v)
    BY <1>1, <1>3, OtherAnswers, AnsweredBefore DEF SharedKey
  <2>2. PICK code \in Codes, shown \in SUBSET Rows : Responded(t, code, shown)
    <3>1. CASE RefusedSchema(t)
      <4>1. "validation_error" \in Codes /\ {} \in SUBSET Rows
            /\ Status("validation_error") # 201
        BY StatusOfCode DEF Codes, Unprocessable
      <4> QED  BY <1>3, <3>1, <4>1, ResponseType DEF RefusedSchema
    <3> QED  BY <1>3, <3>1, NewAnswer
  <2>3. asked'[t] = asked[t] /\ code = "created"
    BY <1>1, <1>3, <2>2, RespondedFacts
  <2> QED  BY <1>1, <1>3, <2>1, <2>2, <2>3, FirstToCreate DEF SharedKey
<1>4. ASSUME NEW v \in Answered', NEW w \in Answered', SharedKey(v, w)',
             answer'[v].status = 201, answer'[w].status = 201,
             v # t, w # t
      PROVE  v = w
  <2>1. /\ v \in Answered /\ w \in Answered
        /\ asked'[v] = asked[v] /\ asked'[w] = asked[w]
        /\ answer'[v] = answer[v] /\ answer'[w] = answer[w]
        /\ Succeeded(v) /\ Succeeded(w)
    BY <1>1, <1>4, OtherAnswers, AnsweredBefore DEF SharedKey
  <2> QED  BY <1>4, <2>1 DEF AccessInv, CreatedOnce, SharedKey
<1>5. ASSUME NEW v \in Answered', NEW w \in Answered', SharedKey(v, w)',
             answer'[v].status = 201, answer'[w].status = 201
      PROVE  v = w
  <2>1. SharedKey(w, v)'  BY <1>5 DEF SharedKey
  <2> QED  BY <1>3, <1>4, <1>5, <2>1
<1> QED  BY <1>2, <1>5 DEF CreatedOnce, SameRowTold, SharedKey

LEMMA RefusedTask ==
  ASSUME AccessInv, NEW t \in Tasks, Receive(t) \/ Call(t) \/ Responds(t)
  PROVE  RefusedForCause'
<1>1. /\ Persist /\ RowsMove(t) /\ UNCHANGED process
      /\ rows \subseteq Rows
  BY Persistence, TaskMoves DEF AccessInv, TypeOK, Persist
<1> SUFFICES ASSUME NEW u \in Answered', Refused(u)'
             PROVE  AtFault(asked[u], answer[u].code)'
  BY DEF RefusedForCause
<1>2. CASE u # t
  <2>1. /\ u \in Answered /\ asked'[u] = asked[u] /\ answer'[u] = answer[u] /\ Refused(u)
    BY <1>1, <1>2, OtherAnswers, AnsweredBefore
  <2> DEFINE r == asked[u]
             code == answer[u].code
  <2>2. AtFault(r, code)  BY <2>1 DEF AccessInv, RefusedForCause
  <2>3. \A q, c : q = r /\ c = code => AtFault(q, c)'
    <3> SUFFICES ASSUME NEW q, NEW c, q = r, c = code  PROVE AtFault(q, c)'
      OBVIOUS
    <3>1. AtFault(q, c)  BY <2>2
    <3> QED  BY <1>1, <3>1, AtFaultStays
  <2> QED  BY <2>1, <2>3
<1>3. CASE u = t /\ RefusedSchema(t)
  BY <1>3 DEF RefusedSchema, AtFault
<1>4. ASSUME u = t, NEW code \in Codes, NEW shown \in SUBSET Rows,
             Responded(t, code, shown)
      PROVE  AtFault(asked[u], answer[u].code)'
  <2>1. /\ asked'[t] = asked[t] /\ answer'[t].code = code
        /\ UNCHANGED rows /\ AtFault(asked[t], code)
    BY <1>1, <1>4, RespondedFacts DEF Responded, Sound
  <2>2. \A q : q = asked[t] => AtFault(q, code)'
    <3> SUFFICES ASSUME NEW q, q = asked[t]  PROVE AtFault(q, code)'
      OBVIOUS
    <3>1. AtFault(q, code)  BY <2>1
    <3> QED  BY <1>1, <3>1, AtFaultStays
  <2> QED  BY <1>4, <2>1, <2>2
<1> QED  BY <1>2, <1>3, <1>4, NewAnswer

\* The pipeline and the orchestrator move rows, and no task.
LEMMA BackgroundInv ==
  ASSUME AccessInv, Restate \/ AddClaim,
         UNCHANGED <<process, phase, asked, principal, answer>>
  PROVE  AccessInv'
<1>1. PICK t \in Answered : ~Insert(t)
  BY DEF AccessInv, NothingWithoutEntitlement, Restate, AddClaim, Answered, Insert
<1>2. /\ t \in Tasks /\ RowsMove(t) /\ Persist /\ Answered' = Answered
      /\ UNCHANGED process
  BY DEF RowsMove, Persist, Answered
<1>3. rows' \subseteq Rows /\ OneRow'  BY <1>1, <1>2, RowsInv
<1>4. TypeOK' /\ (process \in Processes)' /\ Cleared'
  BY <1>3 DEF AccessInv, TypeOK, Cleared, Principal
<1>5. ToldOfRows'
  BY <1>2, AnsweredBefore, OldRow DEF ToldOfRows
<1>6. NothingWithoutEntitlement'
  BY <1>1, <1>2, RowsBefore, OldEntitlement DEF NothingWithoutEntitlement
<1>7. CreatedOnce'
  BY DEF AccessInv, CreatedOnce, Answered, Succeeded, ActsFor, Authenticating
<1>8. RefusedForCause'
  <2> SUFFICES ASSUME NEW u \in Answered, Refused(u)
               PROVE  AtFault(asked[u], answer[u].code)'
    BY <1>2 DEF RefusedForCause, Refused
  <2>1. asked'[u] = asked[u] /\ answer'[u] = answer[u]  OBVIOUS
  <2>2. AtFault(asked[u], answer[u].code)  BY DEF AccessInv, RefusedForCause
  <2> DEFINE r == asked[u]
             code == answer[u].code
  <2>3. \A q, c : q = r /\ c = code => AtFault(q, c)'
    <3> SUFFICES ASSUME NEW q, NEW c, q = r, c = code  PROVE AtFault(q, c)'
      OBVIOUS
    <3>1. AtFault(q, c)  BY <2>2
    <3>2. rows \subseteq Rows  BY DEF AccessInv, TypeOK
    <3> QED  BY <1>2, <3>1, <3>2, AtFaultStays
  <2> QED  BY <2>1, <2>3
<1> QED  BY <1>3, <1>4, <1>5, <1>6, <1>7, <1>8 DEF AccessInv

LEMMA TaskInv ==
  ASSUME AccessInv, NEW t \in Tasks, Step(t)
  PROVE  AccessInv'
<1>1. Receive(t) \/ Call(t) \/ Responds(t)  BY Outcomes
<1>2. Persist /\ RowsMove(t)  BY <1>1, Persistence, TaskMoves DEF AccessInv
<1>3. TypeOK' /\ OneRow' /\ Cleared' /\ ToldOfRows'
  BY <1>1, <1>2, TypeTask, RowsInv, ClearedTask, ToldTask
<1>4. NothingWithoutEntitlement' /\ CreatedOnce' /\ RefusedForCause'
  BY <1>1, <1>3, EntitlementTask, CreatedTask, RefusedTask
<1>5. (process \in Processes)'  BY <1>2 DEF AccessInv, Persist
<1> QED  BY <1>3, <1>4, <1>5 DEF AccessInv

LEMMA AccessInvInit == Init => AccessInv
<1> SUFFICES ASSUME Init PROVE AccessInv  OBVIOUS
<1>1. Answered = {} /\ rows = {}  BY DEF Init, Answered
<1>2. \A t \in Tasks : phase[t] = "idle"  BY DEF Init
<1>3. NoResponse \in [code: Codes \cup {"none"}, status: {0} \cup 200..599,
                      shown: SUBSET Rows]
  BY DEF NoResponse
<1>4. TypeOK
  BY <1>3, ProcessFacts DEF Init, TypeOK, Phases, NoResponse
<1>5. process \in Processes /\ Cleared  BY <1>2 DEF Init, Cleared
<1> QED
  BY <1>1, <1>4, <1>5
  DEF AccessInv, OneRow, ToldOfRows, NothingWithoutEntitlement, CreatedOnce,
      RefusedForCause

LEMMA AccessInvNext == AccessInv /\ [Next]_vars => AccessInv'
<1> SUFFICES ASSUME AccessInv, [Next]_vars PROVE AccessInv'  OBVIOUS
<1>1. ASSUME NEW t \in Tasks, Step(t)  PROVE AccessInv'  BY <1>1, TaskInv
<1>2. ASSUME NEW row \in rows, Extract(row) \/ Finish(row)  PROVE AccessInv'
  <2>1. /\ Restate \/ AddClaim
        /\ UNCHANGED <<process, phase, asked, principal, answer>>
    BY <1>2, BackgroundMoves DEF AccessInv
  <2> QED  BY <2>1, BackgroundInv
<1>3. CASE UNCHANGED vars
  BY <1>3
  DEF vars, AccessInv, TypeOK, Cleared, Principal, OneRow, ToldOfRows,
      NothingWithoutEntitlement, CreatedOnce, RefusedForCause, Answered, MadeBy,
      AtFault, Entitled, ActsFor, Authenticating, Refused, Succeeded, About
<1> QED  BY <1>1, <1>2, <1>3 DEF Next

-----------------------------------------------------------------------------
(* The theorems.                                                           *)

\* Whatever the requests, their tasks and the pipeline do, the parts of
\* AccessInv hold together.
THEOREM AccessInvariant == Spec => []AccessInv
  BY AccessInvInit, AccessInvNext, PTL DEF Spec

\* The state is of its type, and no task keeps its principal after it has
\* responded.
THEOREM TypeCorrect == Spec => []TypeOK
<1>1. AccessInv => TypeOK  BY DEF AccessInv
<1> QED  BY <1>1, AccessInvariant, PTL

\* Authentication and authorization stand before everything that the API
\* stores, shows, or gives away by a conflict.
THEOREM Entitlement == Spec => []NothingWithoutEntitlement
<1>1. AccessInv => NothingWithoutEntitlement  BY DEF AccessInv
<1> QED  BY <1>1, AccessInvariant, PTL

\* An idempotency key creates once, whoever else sends it and whatever fails.
THEOREM Created == Spec => []CreatedOnce
<1>1. AccessInv => CreatedOnce  BY DEF AccessInv
<1> QED  BY <1>1, AccessInvariant, PTL

\* No request is refused without a cause, but for the claim reads and the keys
\* that cannot be fetched.
THEOREM Refusals == Spec => []RefusedForCause
<1>1. AccessInv => RefusedForCause  BY DEF AccessInv
<1> QED  BY <1>1, AccessInvariant, PTL

-----------------------------------------------------------------------------
(* What a step may do to the rows.                                         *)

\* Every row stays, but an open execution may end.
RowsKept ==
  \A row \in rows :
    \/ row \in rows'
    \/ /\ row.status = "open"
       /\ \E status \in {"cancelled", "succeeded"} : Restated(row, status) \in rows'

Changed == (rows \ rows') \cup (rows' \ rows)

\* A request changes rows of its own scope, and none unless it is entitled.
WritesInScope ==
  \A t \in Tasks : Step(t) =>
    \A row \in Changed :
      /\ Entitled(asked[t]) /\ asked[t].op \in Posts
      /\ row.kind = KindOf(asked[t].op)
      /\ row.tenant = asked[t].tenant /\ row.subject = asked[t].subject

ClaimsHaveEpisodes ==
  \A row \in rows : row.kind = "claim" =>
    \E other \in rows : /\ other.kind = "episode" /\ other.tenant = row.tenant
                        /\ other.key = row.key /\ other.subject = row.subject

LEMMA Writes ==
  ASSUME NEW t \in Tasks, Step(t), rows' # rows
  PROVE  /\ phase[t] = "calling"
         /\ \/ asked[t].op \in Creates /\ rows' = rows \cup {NewRow(t)}
            \/ /\ asked[t].op = "cancel_execution"
               /\ \E row \in Named(t) :
                    /\ row.status # "succeeded"
                    /\ rows' = (rows \ {row}) \cup {Cancelled(row)}
<1>1. ~(Receive(t) \/ RefuseAuthentication(t) \/ LoseKeys(t) \/ RefuseRequest(t) \/ Call(t))
  BY DEF Receive, RefuseAuthentication, LoseKeys, RefuseRequest, Call, Refuse
<1>2. ~(Replay(t) \/ RefuseReplay(t) \/ RefuseCancel(t) \/ Get(t) \/ FindNothing(t)
        \/ List(t) \/ RefuseCursor(t))
  BY DEF Replay, RefuseReplay, RefuseCancel, Get, FindNothing, List, RefuseCursor, Refuse
<1>3. Create(t) \/ Cancel(t) \/ FailCall(t)  BY <1>1, <1>2 DEF Step
<1>4. CASE Create(t)  BY <1>4 DEF Create
<1>5. CASE Cancel(t)  BY <1>5 DEF Cancel
<1>6. CASE FailCall(t)  BY <1>6 DEF FailCall
<1> QED  BY <1>3, <1>4, <1>5, <1>6

\* What the task of a cancellation finds is an execution of its scope.
LEMMA NamedExecution ==
  ASSUME AccessInv, NEW t \in Tasks, phase[t] = "calling",
         asked[t].op = "cancel_execution", NEW row \in Named(t)
  PROVE  /\ row \in rows /\ row.kind = "execution" /\ KindOf(asked[t].op) = "execution"
         /\ row.tenant = asked[t].tenant /\ row.subject = asked[t].subject
         /\ Cancelled(row) = Restated(row, "cancelled")
         /\ row.status \in {"open", "cancelled", "succeeded"}
<1>1. row \in rows /\ rows \subseteq Rows  BY DEF AccessInv, TypeOK, Named, InScope
<1>2. KindOf(asked[t].op) = "execution"
  BY DEF KindOf, EpisodeOps, EpisodeReads, ClaimReads
<1>3. row.kind = "execution" /\ row.tenant = asked[t].tenant
      /\ row.subject = asked[t].subject
  BY <1>2 DEF Named, InScope
<1>4. row.status \in {"open", "cancelled", "succeeded"}  BY <1>1, <1>3, RowFields
<1> QED  BY <1>1, <1>2, <1>3, <1>4 DEF Cancelled, Restated

LEMMA TaskKeeps ==
  ASSUME AccessInv, NEW t \in Tasks, Step(t)
  PROVE  RowsKept
<1>1. CASE rows' = rows  BY <1>1 DEF RowsKept
<1>2. CASE rows' # rows /\ asked[t].op \in Creates /\ rows' = rows \cup {NewRow(t)}
  BY <1>2 DEF RowsKept
<1>3. ASSUME asked[t].op = "cancel_execution", phase[t] = "calling", NEW row \in Named(t),
             row.status # "succeeded", rows' = (rows \ {row}) \cup {Cancelled(row)}
      PROVE  RowsKept
  <2>1. /\ row \in rows /\ row.kind = "execution"
        /\ Cancelled(row) = Restated(row, "cancelled")
        /\ row.status \in {"open", "cancelled", "succeeded"}
    BY <1>3, NamedExecution
  <2>2. CASE row.status = "open"  BY <1>3, <2>1, <2>2 DEF RowsKept
  <2>3. CASE row.status = "cancelled"
    <3>1. row \in Rows  BY <2>1 DEF AccessInv, TypeOK
    <3>2. Restated(row, "cancelled") = row  BY <2>3, <3>1 DEF Rows, Restated
    <3> QED  BY <1>3, <2>1, <3>2 DEF RowsKept
  <2> QED  BY <1>3, <2>1, <2>2, <2>3
<1> QED  BY <1>1, <1>2, <1>3, Writes

LEMMA TaskWrites ==
  ASSUME AccessInv, NEW t \in Tasks, Step(t), NEW row \in Changed
  PROVE  /\ Entitled(asked[t]) /\ asked[t].op \in Posts
         /\ row.kind = KindOf(asked[t].op)
         /\ row.tenant = asked[t].tenant /\ row.subject = asked[t].subject
<1>1. rows' # rows  BY DEF Changed
<1>2. phase[t] = "calling" /\ Entitled(asked[t])  BY <1>1, Writes, CallingIsEntitled
<1>3. CASE asked[t].op \in Creates /\ rows' = rows \cup {NewRow(t)}
  BY <1>2, <1>3, CallingRow DEF Changed, Posts
<1>4. ASSUME asked[t].op = "cancel_execution", NEW old \in Named(t),
             rows' = (rows \ {old}) \cup {Cancelled(old)}
      PROVE  asked[t].op \in Posts /\ row.kind = KindOf(asked[t].op)
             /\ row.tenant = asked[t].tenant /\ row.subject = asked[t].subject
  <2>1. /\ old \in rows /\ old.kind = "execution" /\ KindOf(asked[t].op) = "execution"
        /\ old.tenant = asked[t].tenant /\ old.subject = asked[t].subject
        /\ Cancelled(old) = Restated(old, "cancelled")
    BY <1>2, <1>4, NamedExecution
  <2>2. old \in Rows  BY <2>1 DEF AccessInv, TypeOK
  <2>3. row = old \/ row = Restated(old, "cancelled")  BY <1>4, <2>1 DEF Changed
  <2> QED  BY <1>4, <2>1, <2>2, <2>3, RestatedRow DEF Posts
<1> QED  BY <1>1, <1>2, <1>3, <1>4, Writes

\* No store gives up a row, and the status of an execution that has ended is not
\* replaced.  A request, whatever came of it, changed rows of the scope that it
\* names only, and only if the caller was entitled to that tenant: nothing is
\* written before authentication and authorization have passed.
THEOREM Confinement == Spec => [][RowsKept /\ WritesInScope]_vars
<1>1. AccessInv /\ [Next]_vars => [RowsKept /\ WritesInScope]_vars
  <2> SUFFICES ASSUME AccessInv, Next  PROVE RowsKept /\ WritesInScope  OBVIOUS
  <2>1. WritesInScope  BY TaskWrites DEF WritesInScope
  <2>2. ASSUME NEW row \in rows, Extract(row) \/ Finish(row)  PROVE RowsKept
    <3>1. CASE Extract(row)  BY <3>1 DEF Extract, RowsKept
    <3>2. CASE Finish(row)
      <4>1. [row EXCEPT !.status = "succeeded"] = Restated(row, "succeeded")
        BY DEF Restated
      <4> QED  BY <3>2, <4>1 DEF Finish, RowsKept
    <3> QED  BY <2>2, <3>1, <3>2
  <2> QED  BY <2>1, <2>2, TaskKeeps DEF Next
<1> QED  BY <1>1, AccessInvariant, PTL DEF Spec

\* A claim that can be read is of an episode that can be read, under the same
\* tenant and subject: extraction does not carry a memory into another scope.
THEOREM Claims == Spec => []ClaimsHaveEpisodes
<1>1. Init => ClaimsHaveEpisodes  BY DEF Init, ClaimsHaveEpisodes
<1>2. AccessInv /\ ClaimsHaveEpisodes /\ [Next]_vars => ClaimsHaveEpisodes'
  <2> SUFFICES ASSUME AccessInv, ClaimsHaveEpisodes, [Next]_vars
               PROVE  ClaimsHaveEpisodes'
    OBVIOUS
  <2>1. rows \subseteq Rows  BY DEF AccessInv, TypeOK
  <2>2. ASSUME RowsKept PROVE \A row \in rows : row.kind = "episode" => row \in rows'
    BY <2>1, <2>2, RowFields DEF RowsKept
  <2>3. ASSUME NEW t \in Tasks, Step(t)  PROVE ClaimsHaveEpisodes'
    <3>1. RowsKept  BY <2>3, TaskKeeps
    <3>2. \A row \in rows' : row.kind = "claim" => row \in rows
      <4> SUFFICES ASSUME NEW row \in rows', row \notin rows  PROVE row.kind # "claim"
        OBVIOUS
      <4>1. row.kind = KindOf(asked[t].op) /\ asked[t].op \in Posts
        BY <2>3, TaskWrites DEF Changed
      <4> QED
        BY <4>1 DEF KindOf, Posts, Creates, EpisodeOps, EpisodeReads, ClaimReads
    <3> QED  BY <2>2, <3>1, <3>2 DEF ClaimsHaveEpisodes
  <2>4. ASSUME NEW row \in rows, Extract(row)  PROVE ClaimsHaveEpisodes'
    BY <2>1, <2>4, ClaimRow DEF Extract, ClaimsHaveEpisodes
  <2>5. ASSUME NEW row \in rows, Finish(row)  PROVE ClaimsHaveEpisodes'
    <3>1. row.kind = "execution"  BY <2>1, <2>5, RowFields DEF Finish
    <3>2. /\ [row EXCEPT !.status = "succeeded"] = Restated(row, "succeeded")
          /\ Restated(row, "succeeded").kind = "execution"
      BY <2>1, <3>1, RestatedRow DEF Restated
    <3> QED  BY <2>5, <3>1, <3>2 DEF Finish, ClaimsHaveEpisodes
  <2>6. CASE UNCHANGED vars  BY <2>6 DEF vars, ClaimsHaveEpisodes
  <2> QED  BY <2>3, <2>4, <2>5, <2>6 DEF Next
<1> QED  BY <1>1, <1>2, AccessInvariant, PTL DEF Spec

=============================================================================
