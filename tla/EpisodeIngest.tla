---------------------------- MODULE EpisodeIngest ----------------------------
(***************************************************************************)
(* RecordEpisodeHandler.handle over PostgresMemoryUnitOfWork.              *)
(*                                                                         *)
(* Calls run concurrently, in one process or in several: what orders them  *)
(* is PostgreSQL alone.  Each call works in one READ COMMITTED transaction *)
(* (the default of the server): a statement sees the committed rows and    *)
(* the rows its own transaction wrote.  The first statement takes the      *)
(* transaction-scoped advisory lock of the request's tenant and key, which *)
(* the server frees when the transaction ends, whichever way it ends.      *)
(*                                                                         *)
(* Rows that name a call's own episode carry the call: it drew the id.     *)
(***************************************************************************)
EXTENDS Naturals

CONSTANTS
  Calls,         \* record_episode invocations, and the ids they generate
  Tenants,
  Keys,          \* idempotency keys
  Fingerprints,  \* the episode-defining fields that a replay must repeat
  Hash           \* hashtext(): 32 bits, so two keys may share an advisory lock

ASSUME HashAssumption == Hash \in [Tenants \cup Keys -> Nat]

VARIABLES
  asked,        \* asked[c]: the request of call c
  phase,        \* phase[c]: the statement call c is at
  target,       \* target[c]: AppendResult.episode_id, once append returned
  episodes,     \* committed rows of memory_episodes
  idempotency,  \* committed rows of memory_episode_idempotency
  outbox,       \* committed rows of memory_outbox_events
  staged,       \* staged[c]: the rows the open transaction of c has written
  answer        \* answer[c]: what the caller was told

tables == <<episodes, idempotency, outbox>>
vars == <<asked, phase, target, episodes, idempotency, outbox, staged, answer>>

Ledger == INSTANCE EpisodeLedger
  WITH entries <- idempotency, announced <- {e.aggregate : e \in outbox}

Requests      == Ledger!Requests
Reply(k, id)  == Ledger!Reply(k, id)
Row(c)        == [id |-> c, request |-> asked[c]]

\* Mutant: the event names the idempotency key instead of the episode.
KeyedEvent(c) == [aggregate |-> asked[c].key, tenant |-> asked[c].tenant]

Event(c) == [aggregate |-> c, tenant |-> asked[c].tenant]

\* The tables' key: WHERE and UNIQUE (tenant_id, idempotency_key).
SameKey(r, s) == r.tenant = s.tenant /\ r.key = s.key

Rows   == [id: Calls, request: Requests]
Events == [aggregate: Calls, tenant: Tenants]

InTransaction ==
  {"locked", "absent", "inserted", "appended", "published", "replaying"}
Ended  == {"ended", "violated"}
Phases == {"idle", "drawn", "committed"} \cup InTransaction \cup Ended

Writes == [episodes: SUBSET Rows, idempotency: SUBSET Rows, outbox: SUBSET Events]

NothingStaged == [episodes |-> {}, idempotency |-> {}, outbox |-> {}]

\* The advisory lock: two 32-bit keys, so collisions only serialise more.
Lock(r) == <<Hash[r.tenant], Hash[r.key]>>

\* Mutant: no advisory lock.
NoLock(c) == TRUE

LockFree(c) ==
  \A d \in Calls :
    phase[d] \in InTransaction => Lock(asked[d]) # Lock(asked[c])

Init ==
  /\ asked \in [Calls -> Requests]
  /\ phase = [c \in Calls |-> "idle"]
  /\ target = [c \in Calls |-> c]
  /\ episodes = {}
  /\ idempotency = {}
  /\ outbox = {}
  /\ staged = [c \in Calls |-> NothingStaged]
  /\ answer = [c \in Calls |-> Reply("pending", c)]

Goto(c, p)  == phase' = [phase EXCEPT ![c] = p]
Stage(c, w) == staged' = [staged EXCEPT ![c] = w]

\* Mutant: the transaction is left open, its rows keep their keys busy.
AbandonTransaction(c, p, kind) ==
  /\ Goto(c, p)
  /\ answer' = [answer EXCEPT ![c] = Reply(kind, c)]
  /\ UNCHANGED <<asked, target, tables, staged>>

\* The transaction ends without effect: its rows and its lock are gone.
Abort(c, p, kind) ==
  /\ Goto(c, p)
  /\ Stage(c, NothingStaged)
  /\ answer' = [answer EXCEPT ![c] = Reply(kind, c)]
  /\ UNCHANGED <<asked, target, tables>>

-----------------------------------------------------------------------------
(* Steps of one call, in the order of the code.                            *)

Authorize(c) ==
  /\ phase[c] = "idle"
  /\ Goto(c, "drawn")
  /\ UNCHANGED <<asked, target, tables, staged, answer>>

DenyAuthorization(c) ==
  /\ phase[c] = "idle"
  /\ Abort(c, "ended", "failed")

AcquireLock(c) ==
  /\ phase[c] = "drawn"
  /\ LockFree(c)
  /\ Goto(c, "locked")
  /\ UNCHANGED <<asked, target, tables, staged, answer>>

\* Mutant: the replay returns the id drawn by this call.
ResolveToOwnId(c, row) ==
  IF row.request = asked[c]
  THEN Goto(c, "replaying") /\ UNCHANGED <<asked, target, tables, staged, answer>>
  ELSE Abort(c, "ended", "conflict")

\* Mutant: a replay is not compared with the first request.
ReplayUnconditionally(c, row) ==
  /\ Goto(c, "replaying")
  /\ target' = [target EXCEPT ![c] = row.id]
  /\ UNCHANGED <<asked, tables, staged, answer>>

\* append() found the row of an earlier request: replay it or refuse.
Resolve(c, row) ==
  IF row.request = asked[c]
  THEN /\ Goto(c, "replaying")
       /\ target' = [target EXCEPT ![c] = row.id]
       /\ UNCHANGED <<asked, tables, staged, answer>>
  ELSE Abort(c, "ended", "conflict")

FindIdempotencyRow(c) ==
  /\ phase[c] = "locked"
  /\ \E row \in idempotency :
       /\ SameKey(row.request, asked[c])
       /\ Resolve(c, row)

FindNoIdempotencyRow(c) ==
  /\ phase[c] = "locked"
  /\ \A row \in idempotency : ~SameKey(row.request, asked[c])
  /\ Goto(c, "absent")
  /\ UNCHANGED <<asked, target, tables, staged, answer>>

\* An insert into a unique index waits for the transactions that have
\* inserted the same key and have not ended.
KeyUncontended(c) ==
  \A d \in Calls \ {c} :
    \A row \in staged[d].episodes : ~SameKey(row.request, asked[c])

KeyTaken(c, table) == \E row \in table : SameKey(row.request, asked[c])

\* UNIQUE (tenant_id, idempotency_key) on memory_episodes has no ON CONFLICT
\* clause: a taken key is an error of the whole call.
InsertEpisode(c) ==
  /\ phase[c] = "absent"
  /\ KeyUncontended(c)
  /\ IF KeyTaken(c, episodes)
     THEN Abort(c, "violated", "failed")
     ELSE /\ Goto(c, "inserted")
          /\ Stage(c, [staged[c] EXCEPT !.episodes = {Row(c)}])
          /\ UNCHANGED <<asked, target, tables, answer>>

\* INSERT ... ON CONFLICT DO NOTHING, and the second look when it did nothing.
InsertIdempotencyRow(c) ==
  /\ phase[c] = "inserted"
  /\ IF KeyTaken(c, idempotency)
     THEN \E row \in idempotency :
            /\ SameKey(row.request, asked[c])
            /\ Resolve(c, row)
     ELSE /\ Goto(c, "appended")
          /\ Stage(c, [staged[c] EXCEPT !.idempotency = {Row(c)}])
          /\ UNCHANGED <<asked, target, tables, answer>>

\* The outbox refuses an event whose aggregate is unknown or of another tenant.
Publish(c) ==
  /\ phase[c] = "appended"
  /\ IF \E row \in episodes \cup staged[c].episodes :
          row.id = c /\ row.request.tenant = asked[c].tenant
     THEN /\ Goto(c, "published")
          /\ Stage(c, [staged[c] EXCEPT !.outbox = {Event(c)}])
          /\ UNCHANGED <<asked, target, tables, answer>>
     ELSE Abort(c, "violated", "failed")

\* Mutant: the handler commits without publishing.
CommitUnpublished(c) ==
  /\ phase[c] \in {"appended", "replaying"}
  /\ episodes' = episodes \cup staged[c].episodes
  /\ idempotency' = idempotency \cup staged[c].idempotency
  /\ Stage(c, NothingStaged)
  /\ Goto(c, "committed")
  /\ UNCHANGED <<asked, target, outbox, answer>>

Commit(c) ==
  /\ phase[c] \in {"published", "replaying"}
  /\ episodes' = episodes \cup staged[c].episodes
  /\ idempotency' = idempotency \cup staged[c].idempotency
  /\ outbox' = outbox \cup staged[c].outbox
  /\ Stage(c, NothingStaged)
  /\ Goto(c, "committed")
  /\ UNCHANGED <<asked, target, answer>>

Return(c) ==
  /\ phase[c] = "committed"
  /\ Goto(c, "ended")
  /\ answer' = [answer EXCEPT ![c] =
       Reply(IF target[c] = c THEN "created" ELSE "replayed", target[c])]
  /\ UNCHANGED <<asked, target, tables, staged>>

\* The process dies, the task is cancelled or the connection is lost.  The
\* server rolls back what is not committed; a commit it has made stays made
\* although the caller never learns of it.
Interrupt(c) ==
  /\ phase[c] \in InTransaction \cup {"drawn", "committed"}
  /\ Abort(c, "ended", "failed")

Step(c) ==
  \/ Authorize(c)
  \/ DenyAuthorization(c)
  \/ AcquireLock(c)
  \/ FindIdempotencyRow(c)
  \/ FindNoIdempotencyRow(c)
  \/ InsertEpisode(c)
  \/ InsertIdempotencyRow(c)
  \/ Publish(c)
  \/ Commit(c)
  \/ Return(c)

Next == \E c \in Calls : Step(c) \/ Interrupt(c)

\* A running call takes its next step unless the database makes it wait.
Fairness == \A c \in Calls : WF_vars(Step(c))

Spec     == Init /\ [][Next]_vars
FairSpec == Spec /\ Fairness

-----------------------------------------------------------------------------
(* Properties.                                                             *)

\* Requests, tables and transactions hold values of their types.
TypeOK ==
  /\ asked \in [Calls -> Requests]
  /\ phase \in [Calls -> Phases]
  /\ target \in [Calls -> Calls]
  /\ episodes \subseteq Rows
  /\ idempotency \subseteq Rows
  /\ outbox \subseteq Events
  /\ staged \in [Calls -> Writes]
  /\ answer \in [Calls -> [kind: Ledger!Kinds, id: Calls]]

\* A committed episode has its idempotency row and its memory.episode-recorded
\* event, and neither exists without it: a crash, a lost acknowledgement or a
\* concurrent call never leaves one of the three tables behind the others.
RowsTogether ==
  /\ episodes = idempotency
  /\ outbox = {[aggregate |-> row.id, tenant |-> row.request.tenant] :
                 row \in episodes}

\* No tenant has two episodes under one idempotency key.
OneEpisodePerKey ==
  \A row, other \in episodes :
    Ledger!SameKey(row.request, other.request) => row = other

Acknowledged(c) == answer[c].kind \in {"created", "replayed"}

\* Callers that repeat a key are all told the same episode id, also across a
\* retry of a call whose acknowledgement was lost, and one at most created it.
AnswersAgree ==
  \A c, d \in Calls :
    /\ Ledger!SameKey(asked[c], asked[d])
    /\ Acknowledged(c)
    /\ Acknowledged(d)
    => /\ answer[c].id = answer[d].id
       /\ answer[c].kind = "created" /\ answer[d].kind = "created" => c = d

\* The advisory lock and the fresh snapshot of the read after it keep a losing
\* call off the unique indexes: it replays or conflicts, it never fails with
\* an integrity error, and the second look after ON CONFLICT is never needed.
NoIntegrityError ==
  \A c \in Calls :
    /\ phase[c] # "violated"
    /\ phase[c] = "inserted" => ~KeyTaken(c, idempotency)

\* The transactions implement the ledger: accepted and announced at once.
LedgerSpec == Ledger!Spec

\* Every call is answered: waiting for locks and unique keys never becomes a
\* circle, and a lock is always given back.
EveryCallEnds ==
  \A c \in Calls : phase[c] = "drawn" ~> phase[c] \in Ended

-----------------------------------------------------------------------------
(* The inductive invariant behind the safety properties.                   *)

\* Transactions on one key never overlap.
LockExcludes ==
  \A c, d \in Calls :
    /\ phase[c] \in InTransaction
    /\ phase[d] \in InTransaction
    /\ SameKey(asked[c], asked[d])
    => c = d

\* A transaction has written exactly what its phase says.
StagedByPhase ==
  \A c \in Calls :
    /\ staged[c].episodes =
         IF phase[c] \in {"inserted", "appended", "published"} THEN {Row(c)} ELSE {}
    /\ staged[c].idempotency =
         IF phase[c] \in {"appended", "published"} THEN {Row(c)} ELSE {}
    /\ staged[c].outbox = IF phase[c] = "published" THEN {Event(c)} ELSE {}

\* A committed row belongs to a call that is past its commit.
RowsOfPastCalls ==
  \A row \in idempotency :
    /\ row = Row(row.id)
    /\ phase[row.id] \in {"committed", "ended"}

\* What the read under the lock found missing is still missing.
AbsenceHolds ==
  \A c \in Calls :
    phase[c] \in {"absent", "inserted", "appended", "published"}
      => ~KeyTaken(c, idempotency)

\* The id append() returned is the call's own or that of a row it agrees with.
TargetByPhase ==
  \A c \in Calls :
    /\ phase[c] \in {"idle", "drawn", "locked", "absent", "inserted", "appended", "published"}
         => target[c] = c
    /\ phase[c] = "replaying" => target[c] # c
    /\ phase[c] \in {"replaying", "committed"}
         => \E row \in idempotency : row.id = target[c] /\ row.request = asked[c]

\* What a caller was told is backed by a committed row.
AnswersBacked ==
  \A c \in Calls :
    /\ answer[c].kind = "pending" <=> phase[c] \notin Ended
    /\ answer[c].kind = "created" => answer[c].id = c
    /\ Acknowledged(c)
         => \E row \in idempotency : row.id = answer[c].id /\ row.request = asked[c]

\* The parts together are inductive: what every transaction, whichever phase
\* it is in, preserves of the tables and of its own answer.
IInv ==
  /\ TypeOK
  /\ RowsTogether
  /\ OneEpisodePerKey
  /\ LockExcludes
  /\ StagedByPhase
  /\ RowsOfPastCalls
  /\ AbsenceHolds
  /\ TargetByPhase
  /\ AnswersBacked
  /\ \A c \in Calls : phase[c] # "violated"

=============================================================================
