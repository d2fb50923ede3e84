----------------------------- MODULE RequestAccess -----------------------------
(***************************************************************************)
(* Requests to the control API, each served by a task of its own: from the *)
(* validation of the request to the response, over the rows of the stores. *)
(*                                                                         *)
(* A store call is one step here.  The modules EpisodeIngest, RuntimeStore *)
(* and TemporalStart open it up and show what of that atomicity holds.     *)
(***************************************************************************)
EXTENDS AccessPolicy, FiniteSets

CONSTANTS
  Tasks,   \* requests, and the tasks that serve them
  Clients  \* Clients[t]: the requests that may reach task t

ASSUME ClientsAssumption == Clients \in [Tasks -> SUBSET Requests]

VARIABLES
  process,    \* what the serving process decides by
  rows,       \* episodes, claims and executions in the stores
  phase,      \* phase[t]: how far task t is
  asked,      \* asked[t]: the request of task t
  principal,  \* principal[t]: the context variable, as task t sees it
  answer      \* answer[t]: the response

vars == <<process, rows, phase, asked, principal, answer>>

\* The row that an episode or an execution makes is named by its key, and a
\* claim by its episode.  Executions do not record who started them.
Rows ==
  [kind: {"episode"}, tenant: Tenants, key: Keys, subject: Subjects,
   actor: Actors, status: {"kept"}]
    \cup [kind: {"claim"}, tenant: Tenants, key: Keys, subject: Subjects,
          actor: {Nobody}, status: {"kept"}]
    \cup [kind: {"execution"}, tenant: Tenants, key: Keys, subject: Subjects,
          actor: {Nobody}, status: {"open", "cancelled", "succeeded"}]

Phases == {"idle", "received", "calling", "answered"}

Response(code, shown) == [code |-> code, status |-> Status(code), shown |-> shown]
NoResponse == [code |-> "none", status |-> 0, shown |-> {}]

Init ==
  /\ process \in Processes
  /\ rows = {}
  /\ phase = [t \in Tasks |-> "idle"]
  /\ asked = [t \in Tasks |-> Nobody]
  /\ principal = [t \in Tasks |-> Nobody]
  /\ answer = [t \in Tasks |-> NoResponse]

Goto(t, p) == phase' = [phase EXCEPT ![t] = p]

\* The response leaves the authentication context, which unbinds the principal.
Respond(t, code, shown) ==
  /\ Goto(t, "answered")
  /\ answer' = [answer EXCEPT ![t] = Response(code, shown)]
  /\ principal' = [principal EXCEPT ![t] = Nobody]
  /\ UNCHANGED <<process, asked>>

Refuse(t, code) == Respond(t, code, {}) /\ UNCHANGED rows

-----------------------------------------------------------------------------
(* Before the store call.                                                  *)

\* FastAPI validates path, query, headers and body before the endpoint runs.
Receive(t) ==
  /\ phase[t] = "idle"
  /\ \E r \in Clients[t] : asked' = [asked EXCEPT ![t] = r]
  /\ IF asked'[t].flaw = "schema"
     THEN /\ Goto(t, "answered")
          /\ answer' = [answer EXCEPT ![t] = Response("validation_error", {})]
     ELSE Goto(t, "received") /\ UNCHANGED answer
  /\ UNCHANGED <<process, rows, principal>>

Principal(t) == IF process.verifier = "none" THEN Nobody ELSE asked[t].header.who

Bind(t) == principal' = [principal EXCEPT ![t] = Principal(t)]

RefuseAuthentication(t) ==
  /\ phase[t] = "received"
  /\ AuthenticationRefusal(process, asked[t]) # Passed
  /\ Refuse(t, AuthenticationRefusal(process, asked[t]))

LoseKeys(t) ==
  /\ phase[t] = "received"
  /\ KeysUnavailable(process, asked[t])
  /\ Refuse(t, "invalid_token")

\* Nothing suspends a task between Bind and the store call, so that the checks
\* in between are one step with it.
RefuseRequest(t) ==
  /\ phase[t] = "received"
  /\ AuthenticationRefusal(process, asked[t]) = Passed
  /\ RequestRefusal(process, asked[t], Principal(t)) # Passed
  /\ Refuse(t, RequestRefusal(process, asked[t], Principal(t)))

Call(t) ==
  /\ phase[t] = "received"
  /\ AuthenticationRefusal(process, asked[t]) = Passed
  /\ RequestRefusal(process, asked[t], Principal(t)) = Passed
  /\ Bind(t)
  /\ Goto(t, "calling")
  /\ UNCHANGED <<process, rows, asked, answer>>

-----------------------------------------------------------------------------
(* The store call.                                                         *)

InScope(t) ==
  {row \in rows : /\ row.kind = KindOf(asked[t].op)
                  /\ row.tenant = asked[t].tenant
                  /\ row.subject = asked[t].subject}

Named(t) ==
  {row \in InScope(t) : row.tenant = asked[t].owner /\ row.key = asked[t].key}

\* The rows that the idempotency key of a create is taken by.
Taken(t) ==
  {row \in rows : /\ row.kind = KindOf(asked[t].op)
                  /\ row.tenant = asked[t].tenant
                  /\ row.key = asked[t].key}

NewRow(t) ==
  [kind    |-> KindOf(asked[t].op),
   tenant  |-> asked[t].tenant,
   key     |-> asked[t].key,
   subject |-> asked[t].subject,
   actor   |-> IF asked[t].op = "record_episode"
               THEN ActorOf(principal[t], asked[t].actor) ELSE Nobody,
   status  |-> IF asked[t].op = "record_episode" THEN "kept" ELSE "open"]

\* Mutant: the actor is no part of the fingerprint.
SameRequestOfAnyone(row, new) == row.subject = new.subject

\* The fingerprint: the actor is a part of an episode's, and of no execution's.
SameRequest(row, new) == row.subject = new.subject /\ row.actor = new.actor

Create(t) ==
  /\ phase[t] = "calling"
  /\ asked[t].op \in Creates
  /\ Taken(t) = {}
  /\ rows' = rows \cup {NewRow(t)}
  /\ Respond(t, "created", {NewRow(t)})

Replay(t) ==
  /\ phase[t] = "calling"
  /\ asked[t].op \in Creates
  /\ \E row \in Taken(t) : SameRequest(row, NewRow(t)) /\ Respond(t, "ok", {row})
  /\ UNCHANGED rows

ConflictCode(op) ==
  IF op = "record_episode" THEN "episode_idempotency_conflict"
  ELSE "execution_idempotency_conflict"

RefuseReplay(t) ==
  /\ phase[t] = "calling"
  /\ asked[t].op \in Creates
  /\ \E row \in Taken(t) : ~SameRequest(row, NewRow(t))
  /\ Refuse(t, ConflictCode(asked[t].op))

\* Mutant: the status that a cancellation leaves is misspelled.
Canceled(row) == [row EXCEPT !.status = "canceled"]

Cancelled(row) == [row EXCEPT !.status = "cancelled"]

Cancel(t) ==
  /\ phase[t] = "calling"
  /\ asked[t].op = "cancel_execution"
  /\ \E row \in Named(t) :
       /\ row.status # "succeeded"
       /\ rows' = (rows \ {row}) \cup {Cancelled(row)}
       /\ Respond(t, "ok", {Cancelled(row)})

RefuseCancel(t) ==
  /\ phase[t] = "calling"
  /\ asked[t].op = "cancel_execution"
  /\ \E row \in Named(t) : row.status = "succeeded"
  /\ Refuse(t, "invalid_execution_transition")

Get(t) ==
  /\ phase[t] = "calling"
  /\ asked[t].op \in ById \ Posts
  /\ Named(t) # {}
  /\ Respond(t, "ok", Named(t))
  /\ UNCHANGED rows

AbsentCode(op) ==
  IF op = "get_episode" THEN "episode_not_found" ELSE
  IF op = "get_claim" THEN "claim_not_found" ELSE "execution_not_found"

\* A row of another scope is answered like one that is not there.
FindNothing(t) ==
  /\ phase[t] = "calling"
  /\ asked[t].op \in ById
  /\ Named(t) = {}
  /\ Refuse(t, AbsentCode(asked[t].op))

\* Pages are the subject of module KeysetPaging.
List(t) ==
  /\ phase[t] = "calling"
  /\ asked[t].op \in Lists
  /\ asked[t].flaw # "cursor"
  /\ Respond(t, "ok", InScope(t))
  /\ UNCHANGED rows

CursorCode(op) ==
  IF op = "list_episodes" THEN "invalid_episode_cursor" ELSE
  IF op = "list_claims" THEN "invalid_claim_cursor" ELSE "invalid_execution_cursor"

RefuseCursor(t) ==
  /\ phase[t] = "calling"
  /\ asked[t].flaw = "cursor"
  /\ Refuse(t, CursorCode(asked[t].op))

\* OrchestrationUnavailable, which only the Temporal adapter raises, or any
\* other exception.  No store that a server uses raises ClaimsUnavailable.
FailureCodes(op) ==
  {"internal_error"}
    \cup IF KindOf(op) = "execution" /\ op \notin Lists
         THEN {"orchestration_unavailable"} ELSE {}

\* The call fails before its transaction has committed or after.
FailCall(t) ==
  /\ phase[t] = "calling"
  /\ \E code \in FailureCodes(asked[t].op) : Respond(t, code, {})
  /\ \/ UNCHANGED rows
     \/ /\ asked[t].op \in Creates
        /\ Taken(t) = {}
        /\ rows' = rows \cup {NewRow(t)}
     \/ /\ asked[t].op = "cancel_execution"
        /\ \E row \in Named(t) :
             /\ row.status = "open"
             /\ rows' = (rows \ {row}) \cup {Cancelled(row)}

-----------------------------------------------------------------------------
(* The pipeline and the orchestrator.                                      *)

ClaimOf(row) == [row EXCEPT !.kind = "claim", !.actor = Nobody]

Extract(row) ==
  /\ row.kind = "episode"
  /\ rows' = rows \cup {ClaimOf(row)}
  /\ UNCHANGED <<process, phase, asked, principal, answer>>

Finish(row) ==
  /\ row.status = "open"
  /\ rows' = (rows \ {row}) \cup {[row EXCEPT !.status = "succeeded"]}
  /\ UNCHANGED <<process, phase, asked, principal, answer>>

Step(t) ==
  \/ Receive(t)
  \/ RefuseAuthentication(t)
  \/ LoseKeys(t)
  \/ RefuseRequest(t)
  \/ Call(t)
  \/ Create(t)
  \/ Replay(t)
  \/ RefuseReplay(t)
  \/ Cancel(t)
  \/ RefuseCancel(t)
  \/ Get(t)
  \/ FindNothing(t)
  \/ List(t)
  \/ RefuseCursor(t)
  \/ FailCall(t)

Next ==
  \/ \E t \in Tasks : Step(t)
  \/ \E row \in rows : Extract(row) \/ Finish(row)

Spec == Init /\ [][Next]_vars

-----------------------------------------------------------------------------
(* Properties.                                                             *)

\* The process, the stores, the tasks and their responses are of their types,
\* and only a task in its handler has a principal.
TypeOK ==
  /\ process \in [environment: Environments, verifier: {"none", "dev_key", "provider"},
                  modules: SUBSET {"memory", "runtime"}]
  /\ rows \subseteq Rows
  /\ phase \in [Tasks -> Phases]
  /\ asked \in [Tasks -> Requests \cup {Nobody}]
  /\ principal \in [Tasks -> Principals \cup {Nobody}]
  /\ answer \in [Tasks -> [code: Codes \cup {"none"}, status: {0} \cup 200..599,
                            shown: SUBSET Rows]]
  /\ \A t \in Tasks :
       /\ phase[t] = "idle" <=> asked[t] = Nobody
       /\ phase[t] = "answered" <=> answer[t].status # 0
       /\ phase[t] # "calling" => principal[t] = Nobody

Answered == {t \in Tasks : phase[t] = "answered"}

Authenticating == process.verifier # "none"

\* Who may act for the tenant of the path: whoever holds a token of that tenant
\* which the identity provider signed, or the development key in development;
\* and anybody where nothing is authenticated, which is for development only.
Entitled(r) ==
  IF Authenticating
  THEN /\ r.header.signed = process.verifier
       /\ r.header.signed = "dev_key" => process.environment \in Local
       /\ r.header.who.tenant = r.tenant
  ELSE process.environment \in Local

ActsFor(r) == IF Authenticating THEN r.header.who.actor ELSE r.actor

Succeeded(t) == answer[t].status \in 200..299
Refused(t)   == answer[t].status \in 400..499

About(r, row) ==
  /\ row.kind = KindOf(r.op)
  /\ row.tenant = r.tenant
  /\ row.key = r.key
  /\ row.subject = r.subject

\* Task t has made the row, or for a claim its episode, for who asked for it.
MadeBy(row, t) ==
  /\ asked[t].op \in Creates
  /\ About(asked[t], IF row.kind = "claim" THEN [row EXCEPT !.kind = "episode"] ELSE row)
  /\ Entitled(asked[t]) /\ ~Refused(t)
  /\ row.kind = "episode" => row.actor = ActsFor(asked[t])

\* Nothing is stored, shown or given away by a conflict but to a caller who is
\* entitled to it: a row belongs to the scope of a request that asked for it
\* and was not refused, an episode names the actor that was proven, and a
\* response shows rows of the asked scope only.
NothingWithoutEntitlement ==
  /\ \A row \in rows : \E t \in Answered : MadeBy(row, t)
  /\ \A t \in Answered :
       /\ answer[t].shown # {} \/ answer[t].code \in Conflicts => Entitled(asked[t])
       /\ \A row \in answer[t].shown :
            row.tenant = asked[t].tenant /\ row.subject = asked[t].subject

\* One of the requests that share a key is told that it created, and the others
\* are told of the same row, if they come from the same actor or, as executions
\* do not belong to an actor, start an execution.
CreatedOnce ==
  \A t, u \in Answered :
    /\ asked[t].op \in Creates
    /\ asked[u].op = asked[t].op
    /\ asked[u].tenant = asked[t].tenant
    /\ asked[u].key = asked[t].key
    /\ Succeeded(t) /\ Succeeded(u)
    => /\ answer[t].status = 201 /\ answer[u].status = 201 => t = u
       /\ asked[u].subject = asked[t].subject
       /\ asked[t].op = "record_episode" => ActsFor(asked[u]) = ActsFor(asked[t])

\* Why a request of r may be refused with a code.
AtFault(r, code) ==
  \/ ~Entitled(r)
  \/ r.flaw # "none" \/ r.body # r.tenant
  \/ Authenticating <=> r.actor # Nobody
  \/ code \in Absent /\ r.op \in ById
  \/ code \in Conflicts /\ \E row \in rows :
       IF r.op \in Creates
       THEN /\ row.kind = KindOf(r.op) /\ row.tenant = r.tenant /\ row.key = r.key
            /\ \/ row.subject # r.subject
               \/ r.op = "record_episode" /\ row.actor # ActsFor(r)
       ELSE About(r, row) /\ row.status = "succeeded"
  \/ code = "actor_id_not_allowed" /\ Authenticating /\ r.op \in ClaimReads
  \/ code = "invalid_token" /\ process.verifier = "provider"

\* What is refused is at fault: a request of an entitled caller that is well
\* formed fails with a conflict or because there is no such row.  Not so a read
\* of claims: whoever is authenticated is refused, with actor_id_not_allowed.
\* And when the provider's keys cannot be fetched a good token is called invalid.
RefusedForCause ==
  \A t \in Answered : Refused(t) => AtFault(asked[t], answer[t].code)

-----------------------------------------------------------------------------
(* The inductive invariant.                                                *)

\* A task that calls a store has passed every check as who it is.
Cleared ==
  \A t \in Tasks : phase[t] = "calling" =>
    /\ AuthenticationRefusal(process, asked[t]) = Passed
    /\ RequestRefusal(process, asked[t], Principal(t)) = Passed
    /\ principal[t] = Principal(t)

SameName(row, other) ==
  row.kind = other.kind /\ row.tenant = other.tenant /\ row.key = other.key

OneRow ==
  \A row, other \in rows : row.kind # "claim" /\ SameName(row, other) => row = other

\* Whoever is told that a create succeeded can find its row.
ToldOfRows ==
  \A t \in Answered :
    asked[t].op \in Creates /\ Succeeded(t) =>
      \E row \in rows :
        /\ About(asked[t], row)
        /\ asked[t].op = "record_episode" => row.actor = ActsFor(asked[t])

\* The parts together are inductive.
AccessInv ==
  /\ TypeOK
  /\ process \in Processes
  /\ Cleared
  /\ OneRow
  /\ ToldOfRows
  /\ NothingWithoutEntitlement
  /\ CreatedOnce
  /\ RefusedForCause

=============================================================================
