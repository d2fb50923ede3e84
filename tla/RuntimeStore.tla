------------------------------ MODULE RuntimeStore ------------------------------
(***************************************************************************)
(* StartExecutionHandler and CancelExecutionHandler over the orchestrator  *)
(* that needs no Temporal server, on PostgresRuntimeDatabase.              *)
(*                                                                         *)
(* Each process owns one database object, whose asyncio lock admits one    *)
(* read or write at a time; processes share nothing but PostgreSQL.  A     *)
(* write is a READ COMMITTED transaction: it loads the index and then the  *)
(* snapshots (two statements, two server snapshots), asks the callback for *)
(* the next state, and writes the difference back.                         *)
(*                                                                         *)
(* Nothing is deleted and no index row is replaced by these two callbacks, *)
(* so the difference is what a plan holds: rows to insert and snapshots to *)
(* insert or overwrite.                                                    *)
(***************************************************************************)
EXTENDS ExecutionStates

CONSTANTS
  Calls,      \* start and cancel invocations; a start draws its execution id
  Earlier,    \* executions that a deployment with Temporal may have projected
  Found,      \* the statuses it may have left them in
  Keys,       \* (tenant, idempotency key) pairs
  Specs,      \* the fingerprints of specs
  Scopes,
  ScopeOf,    \* the scope is a part of the spec
  Processes,  \* processes, each with one PostgresRuntimeDatabase
  MaxTries    \* _MAX_IDEMPOTENCY_WRITE_RETRIES

ASSUME ExecutionsAssumption == Calls \cap Earlier = {}
ASSUME ScopeAssumption == ScopeOf \in [Specs -> Scopes]
ASSUME FoundAssumption == Found \subseteq Statuses
ASSUME MaxTriesAssumption == MaxTries \in Nat /\ MaxTries >= 2

VARIABLES
  asked,      \* asked[c]: the request of call c
  process,    \* process[c]: the process that serves call c
  phase,      \* phase[c]: the statement call c is at
  seen,       \* seen[c]: the index rows _load_state read
  plan,       \* plan[c]: what _persist_state is to write
  tries,      \* tries[c]: how often the transaction was begun
  index,      \* committed rows of runtime_start_idempotency
  snapshots,  \* committed rows of runtime_execution_snapshots
  outbox,     \* committed rows of runtime_outbox_events
  answer      \* answer[c]: what the caller was told

tables == <<index, snapshots, outbox>>
vars == <<asked, process, phase, seen, plan, tries, index, snapshots, outbox, answer>>

Ledger == INSTANCE ExecutionLedger

Executions == Calls \cup Earlier
Requests   == Ledger!Requests
Reply(kind, exec, status) == Ledger!Reply(kind, exec, status)

IndexRows == [key: Keys, exec: Executions, spec: Specs]
Snapshots == [exec: Executions, scope: Scopes, status: Statuses, revision: Nat \ {0}]
Events    == [exec: Executions, revision: Nat \ {0},
              previous: Statuses \cup {"none"}, status: Statuses, by: Calls]
Plans     == [index: SUBSET IndexRows, snapshots: SUBSET Snapshots,
              outbox: SUBSET Events]

NoPlan == [index |-> {}, snapshots |-> {}, outbox |-> {}]

InWrite == {"locked", "indexed", "decided", "claimed", "staged"}
Phases  == InWrite \cup {"idle", "written", "ended"}

\* Mutant: every call has a lock of its own.
NoLock(c) == TRUE

LockFree(c) ==
  \A d \in Calls : phase[d] \in InWrite => process[d] # process[c]

Init ==
  /\ Ledger!Init
  /\ process \in [Calls -> Processes]
  /\ phase = [c \in Calls |-> "idle"]
  /\ seen = [c \in Calls |-> {}]
  /\ plan = [c \in Calls |-> NoPlan]
  /\ tries = [c \in Calls |-> 0]

Goto(c, p) == phase' = [phase EXCEPT ![c] = p]

\* The transaction, if one is open, is rolled back and its lock is released.
End(c, reply) ==
  /\ Goto(c, "ended")
  /\ plan' = [plan EXCEPT ![c] = NoPlan]
  /\ answer' = [answer EXCEPT ![c] = reply]
  /\ UNCHANGED <<asked, process, seen, tries, tables>>

Fail(c) == End(c, Reply("failed", c, "none"))

DenyAuthorization(c) ==
  /\ phase[c] = "idle"
  /\ Fail(c)

-----------------------------------------------------------------------------
(* A write, statement by statement.                                        *)

AcquireLock(c) ==
  /\ phase[c] = "idle"
  /\ LockFree(c)
  /\ Goto(c, "locked")
  /\ tries' = [tries EXCEPT ![c] = 1]
  /\ UNCHANGED <<asked, process, seen, plan, tables, answer>>

\* Mutant: the state is loaded once, before the retries.
LoadIndexOnce(c) ==
  /\ phase[c] = "locked"
  /\ Goto(c, "indexed")
  /\ seen' = [seen EXCEPT ![c] = IF tries[c] = 1 THEN index ELSE @]
  /\ UNCHANGED <<asked, process, plan, tries, tables, answer>>

LoadIndex(c) ==
  /\ phase[c] = "locked"
  /\ Goto(c, "indexed")
  /\ seen' = [seen EXCEPT ![c] = index]
  /\ UNCHANGED <<asked, process, plan, tries, tables, answer>>

Decide(c, p) ==
  /\ Goto(c, "decided")
  /\ plan' = [plan EXCEPT ![c] = p]
  /\ UNCHANGED <<asked, process, seen, tries, tables, answer>>

\* The callback returned the state it was given: the transaction is empty.
WriteNothing(c) ==
  /\ Goto(c, "written")
  /\ UNCHANGED <<asked, process, seen, plan, tries, tables, answer>>

StartPlan(c) ==
  LET new == Snapshot(c, ScopeOf[asked[c].spec], "pending", 1) IN
    [index     |-> {[key |-> asked[c].key, exec |-> c, spec |-> asked[c].spec]},
     snapshots |-> {new},
     outbox    |-> {StatusChanged("none", new, c)}]

StartNew(c) ==
  /\ phase[c] = "indexed"
  /\ asked[c].op = "start"
  /\ \A row \in seen[c] : row.key # asked[c].key
  /\ Decide(c, StartPlan(c))

StartKnown(c) ==
  /\ phase[c] = "indexed"
  /\ asked[c].op = "start"
  /\ \E row \in seen[c] :
       /\ row.key = asked[c].key
       /\ IF row.spec = asked[c].spec
          THEN WriteNothing(c)
          ELSE End(c, Reply("conflict", c, "none"))

Visible(c) == Ledger!Visible(asked[c].exec, asked[c].scope)

\* Mutant: one event for the whole chain.
CancelAtOnce(c, s) ==
  LET cancelled == Advance(IF s.status = "cancelling" THEN s
                           ELSE Advance(s, "cancelling"), "cancelled")
  IN [index     |-> {},
      snapshots |-> {cancelled},
      outbox    |-> {StatusChanged(s.status, cancelled, c)}]

\* _cancel_transitions, the snapshot s as the second SELECT read it.
CancelPlan(c, s) ==
  LET cancelling == IF s.status = "cancelling" THEN s ELSE Advance(s, "cancelling")
      cancelled  == Advance(cancelling, "cancelled")
  IN [index     |-> {},
      snapshots |-> {cancelled},
      outbox    |-> {StatusChanged("cancelling", cancelled, c)}
                      \cup IF s = cancelling THEN {}
                           ELSE {StatusChanged(s.status, cancelling, c)}]

CancelRunning(c) ==
  /\ phase[c] = "indexed"
  /\ asked[c].op = "cancel"
  /\ \E s \in Visible(c) :
       /\ s.status = "cancelling" \/ CanTransition(s.status, "cancelling")
       /\ Decide(c, CancelPlan(c, s))

CancelDone(c) ==
  /\ phase[c] = "indexed"
  /\ asked[c].op = "cancel"
  /\ \E s \in Visible(c) : s.status \in {"cancelled", "failed"}
  /\ WriteNothing(c)

CancelIllegal(c) ==
  /\ phase[c] = "indexed"
  /\ asked[c].op = "cancel"
  /\ \E s \in Visible(c) :
       /\ s.status \notin {"cancelled", "failed", "cancelling"}
       /\ ~CanTransition(s.status, "cancelling")
  /\ End(c, Reply("invalid", c, "none"))

CancelUnknown(c) ==
  /\ phase[c] = "indexed"
  /\ asked[c].op = "cancel"
  /\ Visible(c) = {}
  /\ End(c, Reply("not_found", c, "none"))

\* Another transaction has written a row of the same key and may yet commit.
KeyContended(c) ==
  \E d \in Calls \ {c} :
    /\ phase[d] \in {"claimed", "staged"}
    /\ \E row \in plan[d].index, mine \in plan[c].index : row.key = mine.key

KeyTaken(c) == \E row \in index, mine \in plan[c].index : row.key = mine.key

\* INSERT ... ON CONFLICT DO NOTHING, which waits for contenders; a write
\* without a new key has no such statement.
ClaimKey(c) ==
  /\ phase[c] = "decided"
  /\ ~KeyContended(c)
  /\ ~KeyTaken(c)
  /\ Goto(c, "claimed")
  /\ UNCHANGED <<asked, process, seen, plan, tries, tables, answer>>

\* _IdempotencyInsertRaceError: the lock is kept, the state is loaded again.
LoseKey(c) ==
  /\ phase[c] = "decided"
  /\ ~KeyContended(c)
  /\ KeyTaken(c)
  /\ IF tries[c] < MaxTries
     THEN /\ Goto(c, "locked")
          /\ tries' = [tries EXCEPT ![c] = @ + 1]
          /\ plan' = [plan EXCEPT ![c] = NoPlan]
          /\ UNCHANGED <<asked, process, seen, tables, answer>>
     ELSE Fail(c)

\* Mutant: the snapshots are loaded FOR SHARE, which an UPDATE waits for.
RowShared(c) ==
  \E d \in Calls \ {c} :
    /\ phase[d] \in {"decided", "claimed", "staged"}
    /\ \E s \in plan[d].snapshots, mine \in plan[c].snapshots : s.exec = mine.exec

\* An UPDATE waits for the transaction that has updated the same row; when
\* that one commits, the WHERE clause still matches and the row is overwritten.
RowContended(c) ==
  \E d \in Calls \ {c} :
    /\ phase[d] = "staged"
    /\ \E s \in plan[d].snapshots, mine \in plan[c].snapshots : s.exec = mine.exec

StageRows(c) ==
  /\ phase[c] = "claimed"
  /\ ~RowContended(c)
  /\ Goto(c, "staged")
  /\ UNCHANGED <<asked, process, seen, plan, tries, tables, answer>>

\* Mutant: the buffered events are written by a later statement.
CommitUnannounced(c) ==
  /\ phase[c] = "staged"
  /\ index' = index \cup plan[c].index
  /\ snapshots' = {s \in snapshots : \A new \in plan[c].snapshots : s.exec # new.exec}
                    \cup plan[c].snapshots
  /\ Goto(c, "written")
  /\ plan' = [plan EXCEPT ![c] = NoPlan]
  /\ UNCHANGED <<asked, process, seen, tries, outbox, answer>>

Commit(c) ==
  /\ phase[c] = "staged"
  /\ index' = index \cup plan[c].index
  /\ snapshots' = {s \in snapshots : \A new \in plan[c].snapshots : s.exec # new.exec}
                    \cup plan[c].snapshots
  /\ outbox' = outbox \cup plan[c].outbox
  /\ Goto(c, "written")
  /\ plan' = [plan EXCEPT ![c] = NoPlan]
  /\ UNCHANGED <<asked, process, seen, tries, answer>>

\* The read after the write.  The row it looks for in the index is committed
\* already and is never removed, so its two statements see what the last sees.
ReadBack(c) ==
  /\ phase[c] = "written"
  /\ LockFree(c)
  /\ \E s \in snapshots :
       /\ IF asked[c].op = "cancel"
          THEN s.exec = asked[c].exec /\ s.scope = asked[c].scope
          ELSE /\ s.scope = ScopeOf[asked[c].spec]
               /\ \E row \in index : row.key = asked[c].key /\ row.exec = s.exec
       /\ End(c, Reply("ok", s.exec, s.status))

\* The process dies, the task is cancelled or the connection is lost.
Interrupt(c) ==
  /\ phase[c] \notin {"idle", "ended"}
  /\ Fail(c)

Step(c) ==
  \/ DenyAuthorization(c)
  \/ AcquireLock(c)
  \/ LoadIndex(c)
  \/ StartNew(c)
  \/ StartKnown(c)
  \/ CancelRunning(c)
  \/ CancelDone(c)
  \/ CancelIllegal(c)
  \/ CancelUnknown(c)
  \/ ClaimKey(c)
  \/ LoseKey(c)
  \/ StageRows(c)
  \/ Commit(c)
  \/ ReadBack(c)

Next == \E c \in Calls : Step(c) \/ Interrupt(c)

Spec == Init /\ [][Next]_vars

-----------------------------------------------------------------------------
(* Properties.                                                             *)

\* Requests, tables and transactions hold values of their types, and one lost
\* race is enough to learn of the winner: no call begins its transaction more
\* than twice, so that none fails with "exceeded retry limit".
TypeOK ==
  /\ asked \in [Calls -> Requests]
  /\ process \in [Calls -> Processes]
  /\ phase \in [Calls -> Phases]
  /\ seen \in [Calls -> SUBSET IndexRows]
  /\ plan \in [Calls -> Plans]
  /\ tries \in [Calls -> 0..2]
  /\ index \subseteq IndexRows
  /\ snapshots \subseteq Snapshots
  /\ outbox \subseteq Events
  /\ answer \in [Calls -> [kind: Ledger!Kinds, exec: Executions,
                           status: Statuses \cup {"none"}]]

Announced(exec) == {e \in outbox : e.exec = exec}

\* The events of an execution tell its whole life: for every revision since it
\* was first seen there is one legal transition, which starts where the one
\* before ended, and copies of a revision's event differ in their id only.
HistoryIsAPath ==
  \A s \in snapshots :
    /\ \A e \in Announced(s.exec) :
         /\ e.previous = "none" => e.status = "pending" /\ e.revision = 1
         /\ e.previous # "none" => CanTransition(e.previous, e.status)
         /\ \A f \in Announced(s.exec) :
              /\ e.revision = f.revision
                   => e.previous = f.previous /\ e.status = f.status
              /\ e.revision + 1 = f.revision => e.status = f.previous
         /\ e.revision <= s.revision
         /\ e.revision = s.revision => e.status = s.status
    /\ \A r \in 2..s.revision : \E e \in Announced(s.exec) : e.revision = r

\* Copies come from different processes only: the lock of one orders the
\* cancellations that it serves.
CopiesCrossProcesses ==
  \A e, f \in outbox :
    e.exec = f.exec /\ e.revision = f.revision /\ process[e.by] = process[f.by] => e = f

\* Some call can always go on: process locks, unique keys and rows are never
\* waited for in a circle.
NoCircularWait ==
  (\E c \in Calls : phase[c] # "ended") => \E c \in Calls : ENABLED Step(c)

\* The transactions of all processes implement the ledger.
LedgerSpec == Ledger!Spec

\* "Atomically replace committed state with callback's result": the row that
\* a commit replaces is the one the callback was given, so every transition it
\* announces leads on from there.
ReplacesWhatItRead ==
  [][\A c \in Calls : \A e \in plan[c].outbox, s \in snapshots :
       phase[c] = "staged" /\ phase'[c] = "written" /\ s.exec = e.exec
         => s.revision < e.revision]_vars

-----------------------------------------------------------------------------
(* The inductive invariant: what the tables, and the calls between their   *)
(* statements, have in common.                                             *)

Planned == {"decided", "claimed", "staged"}

LockExcludes ==
  \A c, d \in Calls :
    c # d /\ phase[c] \in InWrite /\ phase[d] \in InWrite => process[c] # process[d]

\* A key and an execution have one row each, and a snapshot stays with its row.
RowsTogether ==
  /\ \A row, other \in index : row.key = other.key => row = other
  /\ \A s, t \in snapshots : s.exec = t.exec => s = t
  /\ \A row \in index : \E s \in snapshots :
       s.exec = row.exec /\ s.scope = ScopeOf[row.spec]
  /\ \A e \in outbox : \E s \in snapshots : s.exec = e.exec
  /\ \A s \in snapshots : s.exec \in Calls =>
       asked[s.exec].op = "start" /\ phase[s.exec] \in {"written", "ended"}

\* A lost race is remembered: the key is taken, and the next load finds it.
RetriesKnow ==
  \A c \in Calls : tries[c] = 2 =>
    /\ asked[c].op = "start"
    /\ phase[c] \in Phases \ (Planned \cup {"idle"})
    /\ \E row \in index :
         row.key = asked[c].key /\ (phase[c] = "indexed" => row \in seen[c])

\* Executions as they are before anyone cancels them.
Firsts == [exec: Executions, scope: Scopes, status: Statuses, revision: {1}]

Cancellable(s) == s.status = "cancelling" \/ CanTransition(s.status, "cancelling")

\* What a cancellation makes of s, and announces.
Cancelled(s) ==
  Advance(IF s.status = "cancelling" THEN s ELSE Advance(s, "cancelling"), "cancelled")

CancelEvents(c, s) == CancelPlan(c, s).outbox

IsBirth(e, s) == s.status = "pending" /\ e = StatusChanged("none", s, s.exec)

\* Nobody has cancelled s, or some calls have, each from s.
Untouched(s) == s \in snapshots /\ \A e \in Announced(s.exec) : IsBirth(e, s)

CancelledFrom(s) ==
  /\ Cancellable(s)
  /\ Cancelled(s) \in snapshots
  /\ \E d \in Calls : CancelEvents(d, s) \subseteq outbox
  /\ \A e \in Announced(s.exec) : IsBirth(e, s) \/ e \in CancelEvents(e.by, s)

Lives ==
  \A s \in snapshots : \E first \in Firsts :
    \/ s = first /\ Untouched(first)
    \/ s = Cancelled(first) /\ CancelledFrom(first)

\* The cancellation that c has planned is of an execution that nobody else has
\* cancelled, or that other processes have, from the snapshot that c read.
CancelHolds(c) ==
  \E first \in Firsts :
    /\ first.exec = asked[c].exec
    /\ first.scope = asked[c].scope
    /\ Cancellable(first)
    /\ plan[c] = CancelPlan(c, first)
    /\ Untouched(first) \/ CancelledFrom(first)
    /\ \A e \in Announced(first.exec) : e.previous # "none" => process[e.by] # process[c]

PlansHold ==
  \A c \in Calls :
    /\ seen[c] \subseteq index
    /\ phase[c] \notin Planned => plan[c] = NoPlan
    /\ phase[c] \in Planned =>
         IF asked[c].op = "start" THEN plan[c] = StartPlan(c) ELSE CancelHolds(c)

\* A new key that is claimed is in no committed row and is claimed by one call.
Claiming(c) == asked[c].op = "start" /\ phase[c] \in {"claimed", "staged"}

ClaimsHold ==
  \A c \in Calls : Claiming(c) =>
    /\ \A row \in index : row.key # asked[c].key
    /\ \A d \in Calls \ {c} : Claiming(d) => asked[d].key # asked[c].key

\* What a call that is about to answer has written or found.
Done(c) ==
  IF asked[c].op = "start"
  THEN \E row \in index : row.key = asked[c].key /\ row.spec = asked[c].spec
  ELSE \E s \in Visible(c) : s.status \in {"cancelled", "failed"}

AnswersFollow ==
  \A c \in Calls :
    /\ phase[c] # "ended" => answer[c].kind = "pending"
    /\ phase[c] = "written" => Done(c)

\* The parts together are inductive.
StoreInv ==
  /\ TypeOK
  /\ LockExcludes
  /\ RowsTogether
  /\ RetriesKnow
  /\ Lives
  /\ PlansHold
  /\ ClaimsHold
  /\ AnswersFollow

=============================================================================
