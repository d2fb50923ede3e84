--------------------------- MODULE RuntimeStoreProofs ---------------------------
(***************************************************************************)
(* Theorems about RuntimeStore and their proofs: StoreInv is inductive,    *)
(* for any number of calls, processes, keys and executions, and with it    *)
(* the transactions of all processes implement ExecutionLedger.            *)
(***************************************************************************)
EXTENDS RuntimeStore, TLAPS

-----------------------------------------------------------------------------
(* Snapshots, events and plans.                                            *)

LEMMA Transitions ==
  /\ Statuses = {"pending", "planning", "running", "waiting", "retrying", "cancelling",
                 "compensating", "succeeded", "failed", "cancelled"}
  /\ \A s \in Statuses : CanTransition(s, "cancelling") <=>
       s \in {"pending", "planning", "running", "waiting", "retrying"}
  /\ CanTransition("cancelling", "cancelled")
  BY DEF Statuses, EXECUTION_TRANSITIONS, CanTransition

LEMMA AdvanceFields ==
  ASSUME NEW s \in Snapshots, NEW status \in Statuses
  PROVE  Advance(s, status) =
           [exec |-> s.exec, scope |-> s.scope, status |-> status,
            revision |-> s.revision + 1]
<1> DEFINE t == [s EXCEPT !.status = status]
<1>1. t = [exec |-> s.exec, scope |-> s.scope, status |-> status,
           revision |-> s.revision]
  BY DEF Snapshots
<1>2. Advance(s, status) = [t EXCEPT !.revision = s.revision + 1]
  BY Zenon DEF Advance
<1> QED  BY <1>1, <1>2

LEMMA FirstSnapshot ==
  ASSUME NEW s \in Firsts
  PROVE  /\ s \in Snapshots
         /\ s.exec \in Executions /\ s.scope \in Scopes /\ s.status \in Statuses
         /\ s.revision = 1
  BY DEF Firsts, Snapshots

\* A cancellation of an untouched execution leads to revision 2 or 3.
LEMMA CancelledFields ==
  ASSUME NEW s \in Firsts
  PROVE  /\ Cancelled(s) \in Snapshots
         /\ Cancelled(s) = [exec |-> s.exec, scope |-> s.scope, status |-> "cancelled",
                            revision |-> IF s.status = "cancelling" THEN 2 ELSE 3]
<1>1. s \in Snapshots /\ "cancelled" \in Statuses /\ "cancelling" \in Statuses
  BY FirstSnapshot, Transitions
<1>2. CASE s.status = "cancelling"
  <2>1. Cancelled(s) = Advance(s, "cancelled")  BY <1>2 DEF Cancelled
  <2>2. Cancelled(s) = [exec |-> s.exec, scope |-> s.scope, status |-> "cancelled",
                        revision |-> 2]
    BY <1>1, <2>1, AdvanceFields, FirstSnapshot
  <2> QED  BY <1>1, <1>2, <2>2, FirstSnapshot DEF Snapshots
<1>3. CASE s.status # "cancelling"
  <2> DEFINE t == Advance(s, "cancelling")
  <2>1. t = [exec |-> s.exec, scope |-> s.scope, status |-> "cancelling", revision |-> 2]
    BY <1>1, AdvanceFields, FirstSnapshot
  <2>2. t \in Snapshots  BY <1>1, <2>1, FirstSnapshot DEF Snapshots
  <2>3. Cancelled(s) = Advance(t, "cancelled")  BY <1>3 DEF Cancelled
  <2> HIDE DEF t
  <2>4. Cancelled(s) = [exec |-> t.exec, scope |-> t.scope, status |-> "cancelled",
                        revision |-> t.revision + 1]
    BY <1>1, <2>2, <2>3, AdvanceFields
  <2>5. Cancelled(s) = [exec |-> s.exec, scope |-> s.scope, status |-> "cancelled",
                        revision |-> 3]
    BY <2>1, <2>4
  <2> QED  BY <1>1, <1>3, <2>5, FirstSnapshot DEF Snapshots
<1> QED  BY <1>2, <1>3

Cancellation(c, s, previous, status, revision) ==
  [exec |-> s.exec, revision |-> revision, previous |-> previous, status |-> status,
   by |-> c]

LEMMA CancelPlanFields ==
  ASSUME NEW c, NEW s \in Firsts
  PROVE  /\ CancelPlan(c, s).index = {}
         /\ CancelPlan(c, s).snapshots = {Cancelled(s)}
         /\ CancelEvents(c, s) =
              IF s.status = "cancelling"
              THEN {Cancellation(c, s, "cancelling", "cancelled", 2)}
              ELSE {Cancellation(c, s, s.status, "cancelling", 2),
                    Cancellation(c, s, "cancelling", "cancelled", 3)}
         /\ CancelPlan(c, s) = [index |-> {}, snapshots |-> {Cancelled(s)},
                                outbox |-> CancelEvents(c, s)]
<1>1. s \in Snapshots /\ "cancelled" \in Statuses /\ "cancelling" \in Statuses
  BY FirstSnapshot, Transitions
<1> DEFINE mid == IF s.status = "cancelling" THEN s ELSE Advance(s, "cancelling")
<1>2. Advance(s, "cancelling") =
        [exec |-> s.exec, scope |-> s.scope, status |-> "cancelling", revision |-> 2]
  BY <1>1, AdvanceFields, FirstSnapshot
<1>3. mid.exec = s.exec /\ mid.status = "cancelling"
      /\ mid.revision = IF s.status = "cancelling" THEN 1 ELSE 2
  BY <1>2, FirstSnapshot
<1>4. s = mid <=> s.status = "cancelling"
  BY <1>3
<1>5. Advance(mid, "cancelled") = Cancelled(s)
  BY DEF Cancelled
<1>6. StatusChanged("cancelling", Cancelled(s), c) =
        Cancellation(c, s, "cancelling", "cancelled",
                     IF s.status = "cancelling" THEN 2 ELSE 3)
  BY CancelledFields DEF StatusChanged, Cancellation
<1>7. s.status # "cancelling" =>
        StatusChanged(s.status, mid, c) = Cancellation(c, s, s.status, "cancelling", 2)
  BY <1>3 DEF StatusChanged, Cancellation
<1>8. CancelPlan(c, s) =
        [index     |-> {},
         snapshots |-> {Cancelled(s)},
         outbox    |-> {StatusChanged("cancelling", Cancelled(s), c)}
                         \cup IF s = mid THEN {} ELSE {StatusChanged(s.status, mid, c)}]
  BY <1>5 DEF CancelPlan
<1> HIDE DEF mid
<1> QED  BY <1>4, <1>6, <1>7, <1>8 DEF CancelEvents

LEMMA CancelPlanType ==
  ASSUME NEW c \in Calls, NEW s \in Firsts
  PROVE  CancelPlan(c, s) \in Plans
<1>1. Cancelled(s) \in Snapshots  BY CancelledFields
<1>2. \A status \in Statuses, previous \in Statuses, r \in {2, 3} :
        Cancellation(c, s, previous, status, r) \in Events
  BY FirstSnapshot DEF Cancellation, Events
<1>3. {"cancelling", "cancelled", s.status} \subseteq Statuses
  BY FirstSnapshot, Transitions
<1>4. CancelEvents(c, s) \subseteq Events
  BY <1>2, <1>3, CancelPlanFields
<1> QED  BY <1>1, <1>4, CancelPlanFields DEF Plans

LEMMA AskedFields ==
  ASSUME TypeOK, NEW c \in Calls
  PROVE  /\ asked[c].op \in {"start", "cancel"}
         /\ asked[c].op = "start" => asked[c].key \in Keys /\ asked[c].spec \in Specs
         /\ asked[c].op = "cancel" => asked[c].exec \in Executions /\ asked[c].scope \in Scopes
<1>1. asked[c] \in Ledger!Requests  BY DEF TypeOK, Requests
<1> QED  BY <1>1 DEF Ledger!Requests, Ledger!Executions, Executions

\* The first snapshot of the execution that c starts.
NewSnapshot(c) == Snapshot(c, ScopeOf[asked[c].spec], "pending", 1)

LEMMA StartPlanFields ==
  ASSUME TypeOK, NEW c \in Calls, asked[c].op = "start"
  PROVE  /\ StartPlan(c) \in Plans
         /\ StartPlan(c) =
              [index     |-> {[key |-> asked[c].key, exec |-> c, spec |-> asked[c].spec]},
               snapshots |-> {NewSnapshot(c)},
               outbox    |-> {StatusChanged("none", NewSnapshot(c), c)}]
         /\ NewSnapshot(c) \in Firsts
         /\ NewSnapshot(c).exec = c
         /\ NewSnapshot(c).scope = ScopeOf[asked[c].spec]
         /\ NewSnapshot(c).status = "pending"
<1>1. asked[c].key \in Keys /\ asked[c].spec \in Specs  BY AskedFields
<1>2. ScopeOf[asked[c].spec] \in Scopes  BY <1>1, ScopeAssumption
<1>3. NewSnapshot(c) \in Firsts /\ NewSnapshot(c).exec = c
      /\ NewSnapshot(c).scope = ScopeOf[asked[c].spec]
      /\ NewSnapshot(c).status = "pending" /\ NewSnapshot(c).revision = 1
  BY <1>2, Transitions DEF NewSnapshot, Snapshot, Firsts, Executions
<1>4. StatusChanged("none", NewSnapshot(c), c) \in Events
  BY <1>3, Transitions DEF StatusChanged, Events, Executions
<1>5. [key |-> asked[c].key, exec |-> c, spec |-> asked[c].spec] \in IndexRows
  BY <1>1 DEF IndexRows, Executions
<1>6. StartPlan(c) =
        [index     |-> {[key |-> asked[c].key, exec |-> c, spec |-> asked[c].spec]},
         snapshots |-> {NewSnapshot(c)},
         outbox    |-> {StatusChanged("none", NewSnapshot(c), c)}]
  BY DEF StartPlan, NewSnapshot
<1>7. StartPlan(c) \in Plans
  BY <1>3, <1>4, <1>5, <1>6, FirstSnapshot DEF Plans
<1> QED  BY <1>3, <1>6, <1>7

LEMMA NoPlanType == NoPlan \in Plans
  BY DEF NoPlan, Plans

-----------------------------------------------------------------------------
(* The steps by what they do.                                              *)

Replies == [kind: Ledger!Kinds, exec: Executions, status: Statuses \cup {"none"}]

Ends(c) == phase[c] # "ended" /\ \E reply \in Replies : End(c, reply)

\* There is nothing to write.
Skips(c) == phase[c] = "indexed" /\ Done(c) /\ WriteNothing(c)

Retries(c) ==
  /\ phase[c] = "decided"
  /\ KeyTaken(c)
  /\ Goto(c, "locked")
  /\ tries' = [tries EXCEPT ![c] = @ + 1]
  /\ plan' = [plan EXCEPT ![c] = NoPlan]
  /\ UNCHANGED <<asked, process, seen, tables, answer>>

Move(c) ==
  \/ Ends(c)
  \/ AcquireLock(c)
  \/ LoadIndex(c)
  \/ StartNew(c)
  \/ CancelRunning(c)
  \/ Skips(c)
  \/ ClaimKey(c)
  \/ Retries(c)
  \/ StageRows(c)

LEMMA ReplyTypes ==
  ASSUME NEW kind \in {"ok", "conflict", "invalid", "not_found", "failed"},
         NEW exec \in Executions, NEW status \in Statuses \cup {"none"}
  PROVE  Reply(kind, exec, status) \in Replies
  BY DEF Replies, Reply, Ledger!Reply, Ledger!Kinds

LEMMA Moves ==
  ASSUME StoreInv, NEW c \in Calls, Step(c) \/ Interrupt(c)
  PROVE  Move(c) \/ Commit(c)
<1>1. TypeOK /\ seen[c] \subseteq index  BY DEF StoreInv, PlansHold
<1>2. c \in Executions /\ "none" \in Statuses \cup {"none"}  BY DEF Executions
<1>3. ASSUME NEW kind \in {"conflict", "invalid", "not_found", "failed"},
             phase[c] # "ended", End(c, Reply(kind, c, "none"))
      PROVE  Ends(c)
  BY <1>2, <1>3, ReplyTypes DEF Ends
<1>4. CASE DenyAuthorization(c) \/ Interrupt(c)
  BY <1>3, <1>4 DEF DenyAuthorization, Interrupt, Fail, Move
<1>5. CASE StartKnown(c)
  <2>1. PICK row \in seen[c] :
          /\ row.key = asked[c].key
          /\ IF row.spec = asked[c].spec
             THEN WriteNothing(c) ELSE End(c, Reply("conflict", c, "none"))
    BY <1>5 DEF StartKnown
  <2>2. phase[c] = "indexed" /\ asked[c].op = "start"  BY <1>5 DEF StartKnown
  <2>3. row.spec = asked[c].spec => Done(c)  BY <1>1, <2>1, <2>2 DEF Done
  <2> QED  BY <1>3, <2>1, <2>2, <2>3 DEF Move, Skips
<1>6. CASE CancelDone(c)
  <2>1. Done(c) /\ phase[c] = "indexed" /\ WriteNothing(c)
    BY <1>6 DEF CancelDone, Done
  <2> QED  BY <2>1 DEF Move, Skips
<1>7. CASE CancelIllegal(c) \/ CancelUnknown(c)
  BY <1>3, <1>7 DEF CancelIllegal, CancelUnknown, Move
<1>8. CASE LoseKey(c)
  <2>1. CASE tries[c] < MaxTries  BY <1>8, <2>1 DEF LoseKey, Move, Retries
  <2>2. CASE ~(tries[c] < MaxTries)
    BY <1>3, <1>8, <2>2 DEF LoseKey, Move, Fail
  <2> QED  BY <2>1, <2>2
<1>9. CASE ReadBack(c)
  <2>1. PICK s \in snapshots : End(c, Reply("ok", s.exec, s.status))
    BY <1>9 DEF ReadBack
  <2>2. s.exec \in Executions /\ s.status \in Statuses
    BY <1>1 DEF TypeOK, Snapshots
  <2>3. Reply("ok", s.exec, s.status) \in Replies  BY <2>2, ReplyTypes
  <2> QED  BY <1>9, <2>1, <2>3 DEF ReadBack, Move, Ends
<1> QED
  BY <1>4, <1>5, <1>6, <1>7, <1>8, <1>9 DEF Step, Move

\* A step leaves the requests, and the other calls, as they are.
LEMMA Others ==
  ASSUME TypeOK, NEW c \in Calls, Move(c) \/ Commit(c)
  PROVE  /\ UNCHANGED <<asked, process>>
         /\ \A d \in Calls \ {c} :
              /\ phase'[d] = phase[d]
              /\ seen'[d] = seen[d]
              /\ plan'[d] = plan[d]
              /\ tries'[d] = tries[d]
              /\ answer'[d] = answer[d]
<1> USE DEF TypeOK, Goto
<1>1. CASE Ends(c)  BY <1>1 DEF Ends, End
<1>2. CASE AcquireLock(c) \/ LoadIndex(c)  BY <1>2 DEF AcquireLock, LoadIndex
<1>3. CASE StartNew(c) \/ CancelRunning(c)  BY <1>3 DEF StartNew, CancelRunning, Decide
<1>4. CASE Skips(c)  BY <1>4 DEF Skips, WriteNothing
<1>5. CASE ClaimKey(c) \/ StageRows(c)  BY <1>5 DEF ClaimKey, StageRows
<1>6. CASE Retries(c)  BY <1>6 DEF Retries
<1>7. CASE Commit(c)  BY <1>7 DEF Commit
<1> QED  BY <1>1, <1>2, <1>3, <1>4, <1>5, <1>6, <1>7 DEF Move

\* Where each step leads from where.
LEMMA Phasing ==
  ASSUME TypeOK, NEW c \in Calls
  PROVE  /\ Ends(c) => phase[c] # "ended" /\ phase'[c] = "ended"
         /\ AcquireLock(c) => phase[c] = "idle" /\ phase'[c] = "locked"
         /\ LoadIndex(c) => phase[c] = "locked" /\ phase'[c] = "indexed"
         /\ StartNew(c) \/ CancelRunning(c) =>
              phase[c] = "indexed" /\ phase'[c] = "decided"
         /\ Skips(c) => phase[c] = "indexed" /\ phase'[c] = "written"
         /\ ClaimKey(c) => phase[c] = "decided" /\ phase'[c] = "claimed"
         /\ Retries(c) => phase[c] = "decided" /\ phase'[c] = "locked"
         /\ StageRows(c) => phase[c] = "claimed" /\ phase'[c] = "staged"
         /\ Commit(c) => phase[c] = "staged" /\ phase'[c] = "written"
  BY DEF TypeOK, Goto, Ends, End, AcquireLock, LoadIndex, StartNew, CancelRunning, Decide,
         Skips, WriteNothing, ClaimKey, Retries, StageRows, Commit

\* Only a commit changes the tables.
LEMMA Tables ==
  ASSUME NEW c \in Calls, Move(c)
  PROVE  UNCHANGED tables
  BY DEF tables, Move, Ends, End, AcquireLock, LoadIndex, StartNew, CancelRunning, Decide,
         Skips, WriteNothing, ClaimKey, Retries, StageRows

\* What a call that can cancel reads: an execution that nobody has cancelled.
LEMMA CancelReads ==
  ASSUME StoreInv, NEW c \in Calls, CancelRunning(c)
  PROVE  \E first \in Firsts :
           /\ first.exec = asked[c].exec /\ first.scope = asked[c].scope
           /\ Cancellable(first) /\ Untouched(first)
           /\ Decide(c, CancelPlan(c, first))
<1>1. PICK s \in Visible(c) :
        /\ s.status = "cancelling" \/ CanTransition(s.status, "cancelling")
        /\ Decide(c, CancelPlan(c, s))
  BY DEF CancelRunning
<1>2. s \in snapshots /\ s.exec = asked[c].exec /\ s.scope = asked[c].scope
  BY DEF Visible, Ledger!Visible
<1>3. Cancellable(s)  BY <1>1 DEF Cancellable
<1>4. PICK first \in Firsts :
        \/ s = first /\ Untouched(first)
        \/ s = Cancelled(first) /\ CancelledFrom(first)
  BY <1>2 DEF StoreInv, Lives
<1>5. s # Cancelled(first)  BY <1>3, CancelledFields, Transitions DEF Cancellable
<1> QED  BY <1>1, <1>2, <1>3, <1>4, <1>5

-----------------------------------------------------------------------------
(* Types.                                                                  *)

LEMMA TypeMove ==
  ASSUME StoreInv, NEW c \in Calls, Move(c)
  PROVE  TypeOK'
<1>1. TypeOK  BY DEF StoreInv
<1> USE <1>1 DEF TypeOK, Goto, Phases, InWrite
<1>2. CASE Ends(c)  BY <1>2, NoPlanType DEF Ends, End, tables, Replies
<1>3. CASE AcquireLock(c)  BY <1>3 DEF AcquireLock, tables
<1>4. CASE LoadIndex(c)  BY <1>4 DEF LoadIndex, tables
<1>5. CASE StartNew(c)
  BY <1>5, StartPlanFields DEF StartNew, Decide, tables
<1>6. CASE CancelRunning(c)
  <2>1. PICK first \in Firsts : Decide(c, CancelPlan(c, first))  BY <1>6, CancelReads
  <2>2. CancelPlan(c, first) \in Plans  BY CancelPlanType
  <2> QED  BY <2>1, <2>2 DEF Decide, tables
<1>7. CASE Skips(c)  BY <1>7 DEF Skips, WriteNothing, tables
<1>8. CASE ClaimKey(c) \/ StageRows(c)  BY <1>8 DEF ClaimKey, StageRows, tables
<1>9. CASE Retries(c)
  <2>1. tries[c] # 2  BY <1>9 DEF StoreInv, RetriesKnow, Retries, Planned
  <2>2. tries[c] + 1 \in 0..2  BY <2>1
  <2> QED  BY <1>9, <2>2, NoPlanType DEF Retries, tables
<1> QED  BY <1>2, <1>3, <1>4, <1>5, <1>6, <1>7, <1>8, <1>9 DEF Move

LEMMA TypeCommit ==
  ASSUME StoreInv, NEW c \in Calls, Commit(c)
  PROVE  TypeOK'
<1>1. TypeOK  BY DEF StoreInv
<1>2. plan[c] \in Plans  BY <1>1 DEF TypeOK
<1>3. /\ plan[c].index \subseteq IndexRows
      /\ plan[c].snapshots \subseteq Snapshots
      /\ plan[c].outbox \subseteq Events
  BY <1>2 DEF Plans
<1> QED  BY <1>1, <1>3, NoPlanType DEF TypeOK, Commit, Goto, Phases

-----------------------------------------------------------------------------
(* Steps that leave the tables alone.                                      *)

LEMMA SameTables ==
  ASSUME UNCHANGED tables, NEW s
  PROVE  /\ Untouched(s)' <=> Untouched(s)
         /\ CancelledFrom(s)' <=> CancelledFrom(s)
  BY DEF tables, Untouched, CancelledFrom, Announced

LEMMA LockMove ==
  ASSUME StoreInv, NEW c \in Calls, Move(c) \/ Commit(c)
  PROVE  LockExcludes'
<1>1. TypeOK /\ LockExcludes  BY DEF StoreInv
<1>2. UNCHANGED process /\ \A d \in Calls \ {c} : phase'[d] = phase[d]
  BY <1>1, Others
<1>3. phase'[c] \in InWrite => phase[c] \in InWrite \/ LockFree(c)
  BY <1>1, Phasing DEF Move, InWrite, AcquireLock
<1>4. LockFree(c) => \A d \in Calls \ {c} : phase[d] \in InWrite => process[d] # process[c]
  BY DEF LockFree
<1> QED  BY <1>1, <1>2, <1>3, <1>4 DEF LockExcludes

LEMMA RowsMove ==
  ASSUME StoreInv, NEW c \in Calls, Move(c)
  PROVE  RowsTogether'
<1>1. TypeOK /\ RowsTogether  BY DEF StoreInv
<1>2. UNCHANGED asked /\ \A d \in Calls \ {c} : phase'[d] = phase[d]
  BY <1>1, Others
<1>3. phase[c] \in {"written", "ended"} => phase'[c] \in {"written", "ended"}
  BY <1>1, Phasing DEF Move
<1> QED  BY <1>1, <1>2, <1>3, Tables DEF RowsTogether, tables

LEMMA RetriesMove ==
  ASSUME StoreInv, NEW c \in Calls, Move(c)
  PROVE  RetriesKnow'
<1>1. TypeOK /\ RetriesKnow  BY DEF StoreInv
<1>2. /\ UNCHANGED <<asked, index>>
      /\ \A d \in Calls \ {c} :
           phase'[d] = phase[d] /\ seen'[d] = seen[d] /\ tries'[d] = tries[d]
  BY <1>1, Others, Tables DEF tables
<1>3. SUFFICES ASSUME tries'[c] = 2
               PROVE  /\ asked[c].op = "start"
                      /\ phase'[c] \in Phases \ (Planned \cup {"idle"})
                      /\ \E row \in index : row.key = asked[c].key
                                            /\ (phase'[c] = "indexed" => row \in seen'[c])
  BY <1>1, <1>2 DEF RetriesKnow
<1>4. phase'[c] \in Phases  BY TypeMove DEF TypeOK
<1>5. CASE Retries(c)
  <2>1. phase[c] \in Planned /\ KeyTaken(c)  BY <1>5 DEF Retries, Planned
  <2>2. asked[c].op = "start" /\ plan[c] = StartPlan(c)
    <3>1. CASE asked[c].op # "start"
      <4>1. PICK first \in Firsts : plan[c] = CancelPlan(c, first)
        BY <2>1, <3>1 DEF StoreInv, PlansHold, CancelHolds
      <4>2. plan[c].index = {}  BY <4>1, CancelPlanFields
      <4> QED  BY <2>1, <4>2 DEF KeyTaken
    <3>2. CASE asked[c].op = "start"  BY <2>1, <3>2 DEF StoreInv, PlansHold
    <3> QED  BY <3>1, <3>2
  <2>3. \E row \in index : row.key = asked[c].key
    BY <1>1, <2>1, <2>2, StartPlanFields DEF KeyTaken
  <2>4. phase'[c] = "locked"  BY <1>1, <1>5, Phasing
  <2> QED  BY <1>4, <2>2, <2>3, <2>4 DEF Planned
<1>6. CASE ~Retries(c)
  <2>1. tries[c] = 2
    BY <1>1, <1>3, <1>6
    DEF TypeOK, Move, Ends, End, AcquireLock, LoadIndex, StartNew, CancelRunning, Decide,
        Skips, WriteNothing, ClaimKey, StageRows
  <2>2. PICK row \in index :
          row.key = asked[c].key /\ (phase[c] = "indexed" => row \in seen[c])
    BY <1>1, <2>1 DEF RetriesKnow
  <2>3. asked[c].op = "start" /\ phase[c] \in Phases \ (Planned \cup {"idle"})
    BY <1>1, <2>1 DEF RetriesKnow
  <2>4. ~StartNew(c) /\ ~CancelRunning(c)
    BY <2>2, <2>3 DEF StartNew, CancelRunning
  <2>5. phase'[c] \in Phases \ (Planned \cup {"idle"})
    BY <1>1, <1>4, <1>6, <2>3, <2>4, Phasing DEF Move, Planned
  <2>6. phase'[c] = "indexed" => LoadIndex(c)
    BY <1>1, <1>6, <2>3, <2>4, Phasing DEF Move
  <2>7. LoadIndex(c) => seen'[c] = index
    BY <1>1 DEF LoadIndex, TypeOK
  <2> QED  BY <2>2, <2>3, <2>5, <2>6, <2>7
<1> QED  BY <1>5, <1>6

LEMMA LivesMove ==
  ASSUME StoreInv, NEW c \in Calls, Move(c)
  PROVE  Lives'
<1>1. UNCHANGED tables  BY Tables
<1>2. Lives  BY DEF StoreInv
<1> QED  BY <1>1, <1>2, SameTables DEF Lives, tables

\* The plans of the calls that do not move.
LEMMA SamePlan ==
  ASSUME TypeOK, UNCHANGED <<asked, process, tables>>, NEW d \in Calls,
         plan'[d] = plan[d]
  PROVE  /\ plan[d] = StartPlan(d) => plan'[d] = StartPlan(d)'
         /\ CancelHolds(d) => CancelHolds(d)'
<1>1. plan[d] = StartPlan(d) => plan'[d] = StartPlan(d)'
  BY DEF StartPlan
<1>2. ASSUME CancelHolds(d)  PROVE CancelHolds(d)'
  BY <1>2, SameTables DEF CancelHolds, Announced, tables
<1> QED  BY <1>1, <1>2

LEMMA PlansMove ==
  ASSUME StoreInv, NEW c \in Calls, Move(c)
  PROVE  PlansHold'
<1>1. TypeOK /\ PlansHold  BY DEF StoreInv
<1>2. /\ UNCHANGED <<asked, process, tables>>
      /\ \A d \in Calls \ {c} :
           phase'[d] = phase[d] /\ seen'[d] = seen[d] /\ plan'[d] = plan[d]
  BY <1>1, Others, Tables
<1>3. ASSUME NEW d \in Calls \ {c}
      PROVE  /\ seen'[d] \subseteq index'
             /\ phase'[d] \notin Planned => plan'[d] = NoPlan
             /\ phase'[d] \in Planned =>
                  IF asked'[d].op = "start" THEN plan'[d] = StartPlan(d)'
                  ELSE CancelHolds(d)'
  BY <1>1, <1>2, SamePlan DEF PlansHold, tables
<1>4. seen'[c] \subseteq index'
  <2>1. seen[c] \subseteq index  BY <1>1 DEF PlansHold
  <2>2. seen'[c] = seen[c] \/ seen'[c] = index
    BY <1>1
    DEF TypeOK, Move, Ends, End, AcquireLock, LoadIndex, StartNew, CancelRunning, Decide,
        Skips, WriteNothing, ClaimKey, Retries, StageRows
  <2> QED  BY <1>2, <2>1, <2>2 DEF tables
<1>5. phase'[c] \notin Planned => plan'[c] = NoPlan
  <2>1. SUFFICES ASSUME phase'[c] \notin Planned  PROVE plan'[c] = NoPlan  OBVIOUS
  <2>2. CASE Ends(c)  BY <1>1, <2>2 DEF Ends, End, TypeOK
  <2>3. CASE Retries(c)  BY <1>1, <2>3 DEF Retries, TypeOK
  <2>4. CASE AcquireLock(c) \/ LoadIndex(c) \/ Skips(c)
    <3>1. phase[c] \notin Planned  BY <1>1, <2>4, Phasing DEF Planned
    <3>2. plan'[c] = plan[c]
      BY <2>4 DEF AcquireLock, LoadIndex, Skips, WriteNothing
    <3> QED  BY <1>1, <3>1, <3>2 DEF PlansHold
  <2> QED  BY <1>1, <2>1, <2>2, <2>3, <2>4, Phasing DEF Move, Planned
<1>6. phase'[c] \in Planned =>
        IF asked'[c].op = "start" THEN plan'[c] = StartPlan(c)' ELSE CancelHolds(c)'
  <2>1. SUFFICES ASSUME phase'[c] \in Planned
                 PROVE  IF asked'[c].op = "start" THEN plan'[c] = StartPlan(c)'
                        ELSE CancelHolds(c)'
    OBVIOUS
  <2>2. CASE StartNew(c)
    <3>1. plan'[c] = StartPlan(c) /\ asked[c].op = "start"
      BY <1>1, <2>2 DEF StartNew, Decide, TypeOK
    <3>2. StartPlan(c)' = StartPlan(c)  BY <1>2 DEF StartPlan
    <3> QED  BY <1>2, <3>1, <3>2
  <2>3. CASE CancelRunning(c)
    <3>1. PICK first \in Firsts :
            /\ first.exec = asked[c].exec /\ first.scope = asked[c].scope
            /\ Cancellable(first) /\ Untouched(first)
            /\ Decide(c, CancelPlan(c, first))
      BY <2>3, CancelReads
    <3>2. plan'[c] = CancelPlan(c, first)  BY <1>1, <3>1 DEF Decide, TypeOK
    <3>3. \A e \in Announced(first.exec) : e.previous = "none"
      BY <3>1 DEF Untouched, IsBirth, StatusChanged
    <3>4. CancelHolds(c)'
      BY <1>2, <3>1, <3>2, <3>3, SameTables DEF CancelHolds, Announced, tables
    <3>5. asked[c].op = "cancel"  BY <2>3 DEF CancelRunning
    <3> QED  BY <1>2, <3>4, <3>5
  <2>4. CASE ClaimKey(c) \/ StageRows(c)
    <3>1. phase[c] \in Planned /\ plan'[c] = plan[c]
      BY <2>4 DEF ClaimKey, StageRows, Planned
    <3> QED  BY <1>1, <1>2, <3>1, SamePlan DEF PlansHold
  <2> QED  BY <1>1, <2>1, <2>2, <2>3, <2>4, Phasing DEF Move, Planned
<1> QED  BY <1>3, <1>4, <1>5, <1>6 DEF PlansHold

LEMMA ClaimsMove ==
  ASSUME StoreInv, NEW c \in Calls, Move(c)
  PROVE  ClaimsHold'
<1>1. TypeOK /\ PlansHold /\ ClaimsHold  BY DEF StoreInv
<1>2. UNCHANGED <<asked, index>> /\ \A d \in Calls \ {c} : phase'[d] = phase[d]
  BY <1>1, Others, Tables DEF tables
<1>3. \A d \in Calls \ {c} : Claiming(d)' <=> Claiming(d)
  BY <1>2 DEF Claiming
<1>4. CASE ~Claiming(c)' \/ Claiming(c)
  BY <1>1, <1>2, <1>3, <1>4 DEF ClaimsHold
<1>5. CASE Claiming(c)' /\ ~Claiming(c)
  <2>1. asked[c].op = "start" /\ phase'[c] \in {"claimed", "staged"}
        /\ phase[c] \notin {"claimed", "staged"}
    BY <1>2, <1>5 DEF Claiming
  <2>2. ClaimKey(c)  BY <1>1, <2>1, Phasing DEF Move
  <2>3. plan[c] = StartPlan(c)
    BY <1>1, <2>1, <2>2 DEF ClaimKey, PlansHold, Planned
  <2>4. \A row \in index : row.key # asked[c].key
    <3>1. [key |-> asked[c].key, exec |-> c, spec |-> asked[c].spec] \in plan[c].index
      BY <1>1, <2>1, <2>3, StartPlanFields
    <3> QED  BY <2>2, <3>1 DEF ClaimKey, KeyTaken
  <2>5. ASSUME NEW d \in Calls \ {c}, Claiming(d)  PROVE asked[d].key # asked[c].key
    <3>1. plan[d] = StartPlan(d)  BY <1>1, <2>5 DEF Claiming, PlansHold, Planned
    <3>2. [key |-> asked[d].key, exec |-> d, spec |-> asked[d].spec] \in plan[d].index
      BY <1>1, <2>5, <3>1, StartPlanFields DEF Claiming
    <3>3. [key |-> asked[c].key, exec |-> c, spec |-> asked[c].spec] \in plan[c].index
      BY <1>1, <2>1, <2>3, StartPlanFields
    <3> QED  BY <2>2, <2>5, <3>2, <3>3 DEF ClaimKey, KeyContended, Claiming
  <2> QED  BY <1>1, <1>2, <1>3, <2>4, <2>5 DEF ClaimsHold
<1> QED  BY <1>4, <1>5

LEMMA AnswersMove ==
  ASSUME StoreInv, NEW c \in Calls, Move(c)
  PROVE  AnswersFollow'
<1>1. TypeOK /\ AnswersFollow  BY DEF StoreInv
<1>2. /\ UNCHANGED <<asked, tables>>
      /\ \A d \in Calls \ {c} : phase'[d] = phase[d] /\ answer'[d] = answer[d]
  BY <1>1, Others, Tables
<1>3. \A d \in Calls : Done(d)' <=> Done(d)
  BY <1>2 DEF Done, Visible, Ledger!Visible, tables
<1>4. phase'[c] = "written" => Done(c)
  BY <1>1, Phasing DEF Move, Skips
<1>5. phase'[c] # "ended" => phase[c] # "ended" /\ answer'[c] = answer[c]
  BY <1>1, Phasing
  DEF Move, AcquireLock, LoadIndex, StartNew, CancelRunning, Decide,
      Skips, WriteNothing, ClaimKey, Retries, StageRows
<1> QED  BY <1>1, <1>2, <1>3, <1>4, <1>5 DEF AnswersFollow

-----------------------------------------------------------------------------
(* Commits.                                                                *)

\* A start adds a row, a snapshot and an event, all of them new.
LEMMA StartCommits ==
  ASSUME StoreInv, NEW c \in Calls, Commit(c), asked[c].op = "start"
  PROVE  /\ index' = index \cup {[key |-> asked[c].key, exec |-> c, spec |-> asked[c].spec]}
         /\ snapshots' = snapshots \cup {NewSnapshot(c)}
         /\ outbox' = outbox \cup {StatusChanged("none", NewSnapshot(c), c)}
         /\ \A s \in snapshots : s.exec # c
         /\ \A e \in outbox : e.exec # c
         /\ \A row \in index : row.key # asked[c].key
<1>1. TypeOK /\ phase[c] = "staged"  BY DEF StoreInv, Commit
<1>2. plan[c] = StartPlan(c)  BY <1>1 DEF StoreInv, PlansHold, Planned
<1>3. /\ plan[c].index = {[key |-> asked[c].key, exec |-> c, spec |-> asked[c].spec]}
      /\ plan[c].snapshots = {NewSnapshot(c)}
      /\ plan[c].outbox = {StatusChanged("none", NewSnapshot(c), c)}
      /\ NewSnapshot(c).exec = c
  BY <1>1, <1>2, StartPlanFields
<1>4. \A s \in snapshots : s.exec # c  BY <1>1 DEF StoreInv, RowsTogether
<1>5. \A e \in outbox : e.exec # c  BY <1>4 DEF StoreInv, RowsTogether
<1>6. \A row \in index : row.key # asked[c].key
  BY <1>1 DEF StoreInv, ClaimsHold, Claiming
<1>7. {s \in snapshots : \A new \in plan[c].snapshots : s.exec # new.exec} = snapshots
  BY <1>3, <1>4
<1> QED  BY <1>3, <1>4, <1>5, <1>6, <1>7 DEF Commit

\* A cancellation replaces the snapshot of an execution that exists.
LEMMA CancelCommits ==
  ASSUME StoreInv, NEW c \in Calls, Commit(c), asked[c].op # "start"
  PROVE  \E first \in Firsts :
           /\ first.exec = asked[c].exec /\ first.scope = asked[c].scope
           /\ Cancellable(first)
           /\ Untouched(first) \/ CancelledFrom(first)
           /\ \A e \in Announced(first.exec) :
                e.previous # "none" => process[e.by] # process[c]
           /\ index' = index
           /\ snapshots' = {s \in snapshots : s.exec # first.exec} \cup {Cancelled(first)}
           /\ outbox' = outbox \cup CancelEvents(c, first)
<1>1. CancelHolds(c)  BY DEF StoreInv, PlansHold, Commit, Planned
<1>2. PICK first \in Firsts :
        /\ first.exec = asked[c].exec /\ first.scope = asked[c].scope
        /\ Cancellable(first)
        /\ plan[c] = CancelPlan(c, first)
        /\ Untouched(first) \/ CancelledFrom(first)
        /\ \A e \in Announced(first.exec) :
             e.previous # "none" => process[e.by] # process[c]
  BY <1>1 DEF CancelHolds
<1>3. /\ plan[c].index = {}
      /\ plan[c].snapshots = {Cancelled(first)}
      /\ plan[c].outbox = CancelEvents(c, first)
  BY <1>2, CancelPlanFields
<1>4. Cancelled(first).exec = first.exec  BY CancelledFields
<1> QED  BY <1>2, <1>3, <1>4 DEF Commit

\* An execution in the tables has one first snapshot.
LEMMA Origin ==
  ASSUME NEW s \in Firsts, Untouched(s) \/ CancelledFrom(s)
  PROVE  \E t \in snapshots : t.exec = s.exec /\ t.scope = s.scope
                              /\ (t = s \/ t = Cancelled(s))
  BY CancelledFields DEF Untouched, CancelledFrom

\* The second event of an execution tells from which status it was cancelled.
LEMMA SecondEvent ==
  ASSUME NEW c, NEW s \in Firsts
  PROVE  /\ Cancellation(c, s, s.status,
                         IF s.status = "cancelling" THEN "cancelled" ELSE "cancelling", 2)
              \in CancelEvents(c, s)
         /\ \A e \in CancelEvents(c, s) :
              /\ e.exec = s.exec /\ e.by = c /\ e.previous # "none" /\ e.revision \in {2, 3}
              /\ e.revision = 2 => e.previous = s.status
<1>1. s.status # "none"  BY FirstSnapshot, Transitions
<1> QED  BY <1>1, CancelPlanFields DEF Cancellation

LEMMA OneFirst ==
  ASSUME RowsTogether, NEW s \in Firsts, NEW t \in Firsts, s.exec = t.exec,
         Untouched(s) \/ CancelledFrom(s), Untouched(t) \/ CancelledFrom(t)
  PROVE  s = t
<1>1. /\ Cancelled(s).revision \in {2, 3} /\ Cancelled(t).revision \in {2, 3}
      /\ Cancelled(s).exec = s.exec /\ Cancelled(t).exec = t.exec
      /\ Cancelled(s).scope = s.scope /\ Cancelled(t).scope = t.scope
      /\ s.revision = 1 /\ t.revision = 1
  BY CancelledFields, FirstSnapshot
<1>2. CASE Untouched(s) \/ Untouched(t)
  BY <1>1, <1>2 DEF RowsTogether, Untouched, CancelledFrom
<1>3. CASE CancelledFrom(s) /\ CancelledFrom(t)
  <2>1. s.scope = t.scope  BY <1>1, <1>3 DEF RowsTogether, CancelledFrom
  <2>2. PICK d \in Calls : CancelEvents(d, t) \subseteq outbox  BY <1>3 DEF CancelledFrom
  <2> DEFINE e == Cancellation(d, t, t.status,
                    IF t.status = "cancelling" THEN "cancelled" ELSE "cancelling", 2)
  <2>3. e \in outbox /\ e.exec = s.exec /\ e.revision = 2 /\ e.previous = t.status
    BY <2>2, SecondEvent DEF Cancellation
  <2> HIDE DEF e
  <2>4. IsBirth(e, s) \/ e \in CancelEvents(e.by, s)
    BY <1>3, <2>3 DEF CancelledFrom, Announced
  <2>5. ~IsBirth(e, s)  BY <1>1, <2>3 DEF IsBirth, StatusChanged
  <2>6. e.previous = s.status  BY <2>3, <2>4, <2>5, SecondEvent
  <2>7. \A f \in Firsts : f = [exec |-> f.exec, scope |-> f.scope, status |-> f.status,
                              revision |-> f.revision]
    BY DEF Firsts
  <2>8. s.status = t.status  BY <2>3, <2>6
  <2> QED  BY <1>1, <2>1, <2>7, <2>8
<1> QED  BY <1>2, <1>3

\* A commit that is about another execution.
LEMMA Frame ==
  ASSUME NEW x, NEW s \in Firsts, s.exec # x,
         \A t : t.exec # x => (t \in snapshots' <=> t \in snapshots),
         outbox \subseteq outbox',
         \A e \in outbox' : e \in outbox \/ e.exec = x
  PROVE  /\ Announced(s.exec)' = Announced(s.exec)
         /\ Untouched(s) => Untouched(s)'
         /\ CancelledFrom(s) => CancelledFrom(s)'
<1>1. Announced(s.exec)' = Announced(s.exec)  BY DEF Announced
<1>2. Cancelled(s).exec = s.exec  BY CancelledFields
<1>3. Untouched(s) => Untouched(s)'  BY <1>1 DEF Untouched
<1>4. CancelledFrom(s) => CancelledFrom(s)'
  BY <1>1, <1>2 DEF CancelledFrom
<1> QED  BY <1>1, <1>3, <1>4

\* What a commit leaves of an execution that it is not about.
LEMMA CommitFrame ==
  ASSUME StoreInv, NEW c \in Calls, Commit(c), NEW s \in Firsts,
         s.exec # IF asked[c].op = "start" THEN c ELSE asked[c].exec
  PROVE  /\ Announced(s.exec)' = Announced(s.exec)
         /\ Untouched(s) => Untouched(s)'
         /\ CancelledFrom(s) => CancelledFrom(s)'
<1>1. TypeOK  BY DEF StoreInv
<1>2. CASE asked[c].op = "start"
  <2>1. StatusChanged("none", NewSnapshot(c), c).exec = c
    BY <1>1, <1>2, StartPlanFields DEF StatusChanged
  <2>2. NewSnapshot(c).exec = c  BY <1>1, <1>2, StartPlanFields
  <2> QED  BY <1>2, <2>1, <2>2, StartCommits, Frame
<1>3. CASE asked[c].op # "start"
  <2>1. PICK first \in Firsts :
          /\ first.exec = asked[c].exec
          /\ snapshots' = {t \in snapshots : t.exec # first.exec} \cup {Cancelled(first)}
          /\ outbox' = outbox \cup CancelEvents(c, first)
    BY <1>3, CancelCommits
  <2>2. Cancelled(first).exec = first.exec  BY CancelledFields
  <2>3. \A e \in CancelEvents(c, first) : e.exec = first.exec  BY SecondEvent
  <2>4. \A t : t.exec # first.exec => (t \in snapshots' <=> t \in snapshots)
    BY <2>1, <2>2
  <2> QED  BY <1>3, <2>1, <2>3, <2>4, Frame
<1> QED  BY <1>2, <1>3

\* A cancelled execution has been cancelled from its first snapshot.
LEMMA CancelLeaves ==
  ASSUME StoreInv, NEW c \in Calls, Commit(c), NEW first \in Firsts,
         Cancellable(first),
         Untouched(first) \/ CancelledFrom(first),
         snapshots' = {s \in snapshots : s.exec # first.exec} \cup {Cancelled(first)},
         outbox' = outbox \cup CancelEvents(c, first)
  PROVE  CancelledFrom(first)'
<1>1. Cancelled(first) \in snapshots' /\ CancelEvents(c, first) \subseteq outbox'
  OBVIOUS
<1>2. ASSUME NEW e \in outbox', e.exec = first.exec
      PROVE  IsBirth(e, first) \/ e \in CancelEvents(e.by, first)
  <2>1. CASE e \in outbox
    BY <1>2, <2>1 DEF Untouched, CancelledFrom, Announced
  <2>2. CASE e \in CancelEvents(c, first)  BY <2>2, SecondEvent
  <2> QED  BY <2>1, <2>2
<1> QED  BY <1>1, <1>2 DEF CancelledFrom, Announced

LEMMA RowsCommit ==
  ASSUME StoreInv, NEW c \in Calls, Commit(c)
  PROVE  RowsTogether'
<1>1. TypeOK /\ RowsTogether  BY DEF StoreInv
<1>2. UNCHANGED asked /\ phase[c] = "staged" /\ phase'[c] = "written"
      /\ \A d \in Calls \ {c} : phase'[d] = phase[d]
  BY <1>1, Others, Phasing
<1>3. CASE asked[c].op = "start"
  <2>1. /\ NewSnapshot(c).exec = c
        /\ NewSnapshot(c).scope = ScopeOf[asked[c].spec]
        /\ StatusChanged("none", NewSnapshot(c), c).exec = c
    BY <1>1, <1>3, StartPlanFields DEF StatusChanged
  <2> DEFINE new == [key |-> asked[c].key, exec |-> c, spec |-> asked[c].spec]
  <2>2. new.key = asked[c].key /\ new.exec = c /\ new.spec = asked[c].spec  OBVIOUS
  <2>3. /\ index' = index \cup {new}
        /\ snapshots' = snapshots \cup {NewSnapshot(c)}
        /\ outbox' = outbox \cup {StatusChanged("none", NewSnapshot(c), c)}
        /\ \A s \in snapshots : s.exec # c
        /\ \A row \in index : row.key # asked[c].key
    BY <1>3, StartCommits
  <2> HIDE DEF new
  <2>4. \A row, other \in index' : row.key = other.key => row = other
    BY <1>1, <2>2, <2>3 DEF RowsTogether
  <2>5. \A s, t \in snapshots' : s.exec = t.exec => s = t
    BY <1>1, <2>1, <2>3 DEF RowsTogether
  <2>6. \A row \in index' : \E s \in snapshots' :
          s.exec = row.exec /\ s.scope = ScopeOf[row.spec]
    BY <1>1, <2>1, <2>2, <2>3 DEF RowsTogether
  <2>7. \A e \in outbox' : \E s \in snapshots' : s.exec = e.exec
    BY <1>1, <2>1, <2>3 DEF RowsTogether
  <2>8. \A s \in snapshots' : s.exec \in Calls =>
          asked[s.exec].op = "start" /\ phase'[s.exec] \in {"written", "ended"}
    BY <1>1, <1>2, <1>3, <2>1, <2>3 DEF RowsTogether
  <2> QED  BY <1>2, <2>4, <2>5, <2>6, <2>7, <2>8 DEF RowsTogether
<1>4. CASE asked[c].op # "start"
  <2>1. PICK first \in Firsts :
          /\ Untouched(first) \/ CancelledFrom(first)
          /\ index' = index
          /\ snapshots' = {s \in snapshots : s.exec # first.exec} \cup {Cancelled(first)}
          /\ outbox' = outbox \cup CancelEvents(c, first)
    BY <1>4, CancelCommits
  <2>2. Cancelled(first).exec = first.exec /\ Cancelled(first).scope = first.scope
    BY CancelledFields
  <2>3. PICK t \in snapshots : t.exec = first.exec /\ t.scope = first.scope
    BY <2>1, Origin
  <2>4. \A e \in CancelEvents(c, first) : e.exec = first.exec  BY SecondEvent
  <2>5. \A s \in snapshots : \E u \in snapshots' : u.exec = s.exec /\ u.scope = s.scope
    BY <1>1, <2>1, <2>2, <2>3 DEF RowsTogether
  <2>6. \A s, u \in snapshots' : s.exec = u.exec => s = u
    BY <1>1, <2>1, <2>2 DEF RowsTogether
  <2>7. \A row \in index' : \E s \in snapshots' :
          s.exec = row.exec /\ s.scope = ScopeOf[row.spec]
    BY <1>1, <2>1, <2>5 DEF RowsTogether
  <2>8. \A e \in outbox' : \E s \in snapshots' : s.exec = e.exec
    BY <1>1, <2>1, <2>3, <2>4, <2>5 DEF RowsTogether
  <2>9. \A s \in snapshots' : s.exec \in Calls =>
          asked[s.exec].op = "start" /\ phase'[s.exec] \in {"written", "ended"}
    BY <1>1, <1>2, <2>1, <2>2, <2>3 DEF RowsTogether
  <2> QED  BY <1>1, <1>2, <2>1, <2>6, <2>7, <2>8, <2>9 DEF RowsTogether
<1> QED  BY <1>3, <1>4

LEMMA RetriesCommit ==
  ASSUME StoreInv, NEW c \in Calls, Commit(c)
  PROVE  RetriesKnow'
<1>1. TypeOK /\ RetriesKnow  BY DEF StoreInv
<1>2. /\ UNCHANGED asked /\ tries' = tries /\ seen' = seen
      /\ index \subseteq index'
      /\ \A d \in Calls \ {c} : phase'[d] = phase[d]
  BY <1>1, Others DEF Commit
<1>3. tries[c] # 2  BY <1>1 DEF RetriesKnow, Commit, Planned
<1> QED  BY <1>1, <1>2, <1>3 DEF RetriesKnow

LEMMA LivesCommit ==
  ASSUME StoreInv, NEW c \in Calls, Commit(c)
  PROVE  Lives'
<1>1. TypeOK /\ Lives  BY DEF StoreInv
<1> DEFINE x == IF asked[c].op = "start" THEN c ELSE asked[c].exec
<1>2. ASSUME NEW s \in snapshots, s.exec # x
      PROVE  \E first \in Firsts :
               \/ s = first /\ Untouched(first)'
               \/ s = Cancelled(first) /\ CancelledFrom(first)'
  <2>1. PICK first \in Firsts :
          \/ s = first /\ Untouched(first)
          \/ s = Cancelled(first) /\ CancelledFrom(first)
    BY <1>1 DEF Lives
  <2>2. first.exec # x  BY <1>2, <2>1, CancelledFields
  <2> QED  BY <2>1, <2>2, CommitFrame
<1>3. CASE asked[c].op = "start"
  <2>1. /\ snapshots' = snapshots \cup {NewSnapshot(c)}
        /\ outbox' = outbox \cup {StatusChanged("none", NewSnapshot(c), c)}
        /\ \A s \in snapshots : s.exec # c
        /\ \A e \in outbox : e.exec # c
    BY <1>3, StartCommits
  <2>2. /\ NewSnapshot(c) \in Firsts /\ NewSnapshot(c).exec = c
        /\ NewSnapshot(c).status = "pending"
    BY <1>1, <1>3, StartPlanFields
  <2>3. Untouched(NewSnapshot(c))'
    <3> DEFINE new == NewSnapshot(c)
    <3>1. new' = new
      BY <1>1, Others DEF NewSnapshot
    <3>2. \A e \in outbox' : e.exec = new.exec => IsBirth(e, new)
      BY <2>1, <2>2 DEF IsBirth
    <3>3. new \in snapshots'  BY <2>1
    <3> HIDE DEF new
    <3> QED  BY <3>1, <3>2, <3>3 DEF Untouched, Announced, new
  <2>4. NewSnapshot(c)' = NewSnapshot(c)
    BY <1>1, Others DEF NewSnapshot
  <2> QED  BY <1>2, <1>3, <2>1, <2>2, <2>3, <2>4 DEF Lives
<1>4. CASE asked[c].op # "start"
  <2>1. PICK first \in Firsts :
          /\ first.exec = asked[c].exec
          /\ Cancellable(first)
          /\ Untouched(first) \/ CancelledFrom(first)
          /\ snapshots' = {s \in snapshots : s.exec # first.exec} \cup {Cancelled(first)}
          /\ outbox' = outbox \cup CancelEvents(c, first)
    BY <1>4, CancelCommits
  <2>2. CancelledFrom(first)'  BY <2>1, CancelLeaves
  <2> QED  BY <1>2, <1>4, <2>1, <2>2 DEF Lives
<1> QED  BY <1>3, <1>4

LEMMA PlansCommit ==
  ASSUME StoreInv, NEW c \in Calls, Commit(c)
  PROVE  PlansHold'
<1>1. TypeOK /\ PlansHold /\ RowsTogether /\ LockExcludes  BY DEF StoreInv
<1>2. /\ UNCHANGED <<asked, process, seen>>
      /\ phase[c] = "staged" /\ phase'[c] = "written" /\ plan'[c] = NoPlan
      /\ index \subseteq index'
      /\ \A d \in Calls \ {c} : phase'[d] = phase[d] /\ plan'[d] = plan[d]
  BY <1>1, Others, Phasing DEF Commit, TypeOK
<1>3. \A d \in Calls : plan[d] = StartPlan(d) => plan[d] = StartPlan(d)'
  BY <1>2 DEF StartPlan
<1>4. ASSUME NEW d \in Calls \ {c}, phase[d] \in Planned, CancelHolds(d)
      PROVE  CancelHolds(d)'
  <2>1. PICK mine \in Firsts :
          /\ mine.exec = asked[d].exec
          /\ mine.scope = asked[d].scope
          /\ Cancellable(mine)
          /\ plan[d] = CancelPlan(d, mine)
          /\ Untouched(mine) \/ CancelledFrom(mine)
          /\ \A e \in Announced(mine.exec) : e.previous # "none" => process[e.by] # process[d]
    BY <1>4 DEF CancelHolds
  <2>2. SUFFICES /\ Untouched(mine)' \/ CancelledFrom(mine)'
                 /\ \A e \in Announced(mine.exec)' :
                      e.previous # "none" => process[e.by] # process[d]
    BY <1>2, <2>1 DEF CancelHolds
  <2>3. CASE mine.exec # IF asked[c].op = "start" THEN c ELSE asked[c].exec
    BY <2>1, <2>3, CommitFrame
  <2>4. CASE asked[c].op = "start" /\ mine.exec = c
    BY <2>1, <2>4, Origin, StartCommits
  <2>5. CASE asked[c].op # "start" /\ mine.exec = asked[c].exec
    <3>1. PICK first \in Firsts :
            /\ first.exec = asked[c].exec
            /\ Cancellable(first)
            /\ Untouched(first) \/ CancelledFrom(first)
            /\ snapshots' = {s \in snapshots : s.exec # first.exec} \cup {Cancelled(first)}
            /\ outbox' = outbox \cup CancelEvents(c, first)
      BY <2>5, CancelCommits
    <3>2. first = mine  BY <1>1, <2>1, <2>5, <3>1, OneFirst
    <3>3. CancelledFrom(mine)'  BY <3>1, <3>2, CancelLeaves
    <3>4. process[c] # process[d]
      BY <1>1, <1>2, <1>4 DEF LockExcludes, InWrite, Planned
    <3>5. ASSUME NEW e \in Announced(mine.exec)', e.previous # "none"
          PROVE  process[e.by] # process[d]
      <4>1. e \in outbox \/ e \in CancelEvents(c, first)
        BY <3>1, <3>5 DEF Announced
      <4>2. CASE e \in outbox  BY <2>1, <3>5, <4>2 DEF Announced
      <4>3. CASE e \in CancelEvents(c, first)  BY <3>4, <4>3, SecondEvent
      <4> QED  BY <4>1, <4>2, <4>3
    <3> QED  BY <3>3, <3>5
  <2> QED  BY <2>3, <2>4, <2>5
<1> QED  BY <1>1, <1>2, <1>3, <1>4 DEF PlansHold, Planned

LEMMA ClaimsCommit ==
  ASSUME StoreInv, NEW c \in Calls, Commit(c)
  PROVE  ClaimsHold'
<1>1. TypeOK /\ ClaimsHold  BY DEF StoreInv
<1>2. /\ UNCHANGED asked /\ phase[c] = "staged" /\ phase'[c] = "written"
      /\ \A d \in Calls \ {c} : phase'[d] = phase[d]
  BY <1>1, Others, Phasing
<1>3. ~Claiming(c)' /\ \A d \in Calls \ {c} : Claiming(d)' <=> Claiming(d)
  BY <1>2 DEF Claiming
<1>4. ASSUME NEW d \in Calls \ {c}, Claiming(d), NEW row \in index'
      PROVE  row.key # asked[d].key
  <2>1. row \in index \/ (Claiming(c) /\ row.key = asked[c].key)
    BY <1>2, StartCommits, CancelCommits DEF Claiming
  <2> QED  BY <1>1, <1>4, <2>1 DEF ClaimsHold
<1> QED  BY <1>1, <1>2, <1>3, <1>4 DEF ClaimsHold

LEMMA AnswersCommit ==
  ASSUME StoreInv, NEW c \in Calls, Commit(c)
  PROVE  AnswersFollow'
<1>1. TypeOK /\ AnswersFollow /\ RowsTogether  BY DEF StoreInv
<1>2. /\ UNCHANGED <<asked, answer>>
      /\ phase[c] = "staged" /\ phase'[c] = "written"
      /\ \A d \in Calls \ {c} : phase'[d] = phase[d]
      /\ index \subseteq index'
  BY <1>1, Others, Phasing DEF Commit
<1>3. ASSUME NEW d \in Calls, asked[d].op = "start", Done(d)
      PROVE  Done(d)'
  BY <1>2, <1>3 DEF Done
<1>4. CASE asked[c].op = "start"
  <2>1. [key |-> asked[c].key, exec |-> c, spec |-> asked[c].spec] \in index'
        /\ snapshots \subseteq snapshots'
    BY <1>4, StartCommits
  <2>2. Done(c)'
    BY <1>2, <1>4, <2>1 DEF Done
  <2>3. \A d \in Calls : Done(d) => Done(d)'
    BY <1>2, <1>3, <2>1 DEF Done, Visible, Ledger!Visible
  <2> QED  BY <1>1, <1>2, <2>2, <2>3 DEF AnswersFollow
<1>5. CASE asked[c].op # "start"
  <2>1. PICK first \in Firsts :
          /\ first.exec = asked[c].exec /\ first.scope = asked[c].scope
          /\ Untouched(first) \/ CancelledFrom(first)
          /\ snapshots' = {s \in snapshots : s.exec # first.exec} \cup {Cancelled(first)}
    BY <1>5, CancelCommits
  <2>2. /\ Cancelled(first).exec = first.exec /\ Cancelled(first).scope = first.scope
        /\ Cancelled(first).status = "cancelled"
    BY CancelledFields
  <2>3. PICK t \in snapshots : t.exec = first.exec /\ t.scope = first.scope
    BY <2>1, Origin
  <2>4. Done(c)'
    BY <1>2, <1>5, <2>1, <2>2 DEF Done, Visible, Ledger!Visible
  <2>5. ASSUME NEW d \in Calls, asked[d].op # "start", Done(d)
        PROVE  Done(d)'
    <3>1. PICK s \in snapshots : /\ s.exec = asked[d].exec /\ s.scope = asked[d].scope
                                 /\ s.status \in {"cancelled", "failed"}
      BY <2>5 DEF Done, Visible, Ledger!Visible
    <3>2. CASE s.exec # first.exec
      BY <1>2, <2>1, <2>5, <3>1, <3>2 DEF Done, Visible, Ledger!Visible
    <3>3. CASE s.exec = first.exec
      <4>1. s = t  BY <1>1, <2>3, <3>3 DEF RowsTogether
      <4> QED
        BY <1>2, <2>1, <2>2, <2>3, <2>5, <3>1, <4>1 DEF Done, Visible, Ledger!Visible
    <3> QED  BY <3>2, <3>3
  <2> QED  BY <1>1, <1>2, <1>3, <2>4, <2>5 DEF AnswersFollow
<1> QED  BY <1>4, <1>5

-----------------------------------------------------------------------------
(* The invariant.                                                          *)

LEMMA StoreInvInit == Init => StoreInv
<1> SUFFICES ASSUME Init  PROVE StoreInv  OBVIOUS
<1>1. /\ asked \in [Calls -> Requests] /\ process \in [Calls -> Processes]
      /\ phase = [c \in Calls |-> "idle"]
      /\ seen = [c \in Calls |-> {}]
      /\ plan = [c \in Calls |-> NoPlan]
      /\ tries = [c \in Calls |-> 0]
      /\ outbox = {}
      /\ answer = [c \in Calls |-> Reply("pending", c, "none")]
  BY DEF Init, Ledger!Init, Requests, Reply
<1>2. PICK there \in SUBSET Earlier :
        \E key \in [there -> Keys], spec \in [there -> Specs], status \in [there -> Found] :
          /\ \A x, y \in there : key[x] = key[y] => x = y
          /\ index = {[key |-> key[x], exec |-> x, spec |-> spec[x]] : x \in there}
          /\ snapshots = {Snapshot(x, ScopeOf[spec[x]], status[x], 1) : x \in there}
  BY DEF Init, Ledger!Init, Ledger!Snapshot, Snapshot
<1>3. PICK key \in [there -> Keys], spec \in [there -> Specs], status \in [there -> Found] :
        /\ \A x, y \in there : key[x] = key[y] => x = y
        /\ index = {[key |-> key[x], exec |-> x, spec |-> spec[x]] : x \in there}
        /\ snapshots = {Snapshot(x, ScopeOf[spec[x]], status[x], 1) : x \in there}
  BY <1>2
<1>4. ASSUME NEW x \in there
      PROVE  /\ [key |-> key[x], exec |-> x, spec |-> spec[x]] \in IndexRows
             /\ Snapshot(x, ScopeOf[spec[x]], status[x], 1) \in Firsts
             /\ x \notin Calls
  <2>1. /\ x \in Executions /\ key[x] \in Keys /\ spec[x] \in Specs
        /\ status[x] \in Statuses /\ ScopeOf[spec[x]] \in Scopes /\ x \notin Calls
    BY <1>3, ExecutionsAssumption, ScopeAssumption, FoundAssumption DEF Executions
  <2> QED  BY <2>1 DEF IndexRows, Snapshot, Firsts
<1>5. index \subseteq IndexRows /\ snapshots \subseteq Firsts
  BY <1>3, <1>4
<1>6. \A c \in Calls : Reply("pending", c, "none") \in Replies
                       /\ Reply("pending", c, "none").kind = "pending"
  BY DEF Reply, Ledger!Reply, Replies, Ledger!Kinds, Executions
<1>7. TypeOK
  BY <1>1, <1>5, <1>6, NoPlanType, FirstSnapshot DEF TypeOK, Phases, Replies
<1>8. RowsTogether
  <2>1. \A s \in snapshots : s.exec \in there
    BY <1>3 DEF Snapshot
  <2>2. \A row, other \in index : row.key = other.key => row = other
    BY <1>3
  <2>3. \A s, t \in snapshots : s.exec = t.exec => s = t
    BY <1>3 DEF Snapshot
  <2>4. ASSUME NEW row \in index
        PROVE  \E s \in snapshots : s.exec = row.exec /\ s.scope = ScopeOf[row.spec]
    <3>1. PICK x \in there : row = [key |-> key[x], exec |-> x, spec |-> spec[x]]
      BY <1>3
    <3> DEFINE s == Snapshot(x, ScopeOf[spec[x]], status[x], 1)
    <3>2. s \in snapshots  BY <1>3
    <3>3. s.exec = row.exec /\ s.scope = ScopeOf[row.spec]  BY <3>1 DEF Snapshot
    <3> QED  BY <3>2, <3>3
  <2>5. \A s \in snapshots : s.exec \notin Calls
    BY <1>4, <2>1
  <2> QED  BY <1>1, <2>2, <2>3, <2>4, <2>5, Zenon DEF RowsTogether
<1>9. Lives
  BY <1>1, <1>5 DEF Lives, Untouched, Announced
<1>10. LockExcludes /\ RetriesKnow /\ PlansHold /\ ClaimsHold /\ AnswersFollow
  BY <1>1, <1>6
  DEF LockExcludes, RetriesKnow, PlansHold, ClaimsHold, AnswersFollow, InWrite, Planned,
      Claiming
<1> QED  BY <1>7, <1>8, <1>9, <1>10 DEF StoreInv

LEMMA StoreInvStep == StoreInv /\ [Next]_vars => StoreInv'
<1> SUFFICES ASSUME StoreInv, [Next]_vars  PROVE StoreInv'  OBVIOUS
<1>1. ASSUME NEW c \in Calls, Move(c)  PROVE StoreInv'
  BY <1>1, TypeMove, LockMove, RowsMove, RetriesMove, LivesMove, PlansMove, ClaimsMove,
     AnswersMove DEF StoreInv
<1>2. ASSUME NEW c \in Calls, Commit(c)  PROVE StoreInv'
  BY <1>2, TypeCommit, LockMove, RowsCommit, RetriesCommit, LivesCommit, PlansCommit,
     ClaimsCommit, AnswersCommit DEF StoreInv
<1>3. CASE UNCHANGED vars
  <2>1. UNCHANGED <<asked, process, phase, seen, plan, tries, answer, tables>>
    BY <1>3 DEF vars, tables
  <2>2. /\ \A d \in Calls : plan[d] = StartPlan(d) => plan'[d] = StartPlan(d)'
        /\ \A d \in Calls : CancelHolds(d) => CancelHolds(d)'
    BY <2>1, SamePlan DEF StoreInv
  <2>3. PlansHold'  BY <2>1, <2>2 DEF StoreInv, PlansHold, tables
  <2>4. Lives'  BY <2>1, SameTables DEF StoreInv, Lives, tables
  <2>5. TypeOK' /\ LockExcludes' /\ RowsTogether' /\ RetriesKnow'
    BY <2>1 DEF StoreInv, TypeOK, LockExcludes, RowsTogether, RetriesKnow, tables
  <2>6. ClaimsHold' /\ AnswersFollow'
    BY <2>1 DEF StoreInv, ClaimsHold, Claiming, AnswersFollow, Done, Visible,
                Ledger!Visible, tables
  <2> QED  BY <2>3, <2>4, <2>5, <2>6 DEF StoreInv
<1> QED  BY <1>1, <1>2, <1>3, Moves DEF Next

\* Any number of concurrent writes keep the tables and the calls consistent.
THEOREM StoreInvariant == Spec => []StoreInv
  BY StoreInvInit, StoreInvStep, PTL DEF Spec

\* Values stay of their types, and no call loses the race for a key twice, so
\* that "exceeded retry limit" is never reported.
THEOREM TypeCorrect == Spec => []TypeOK
<1>1. StoreInv => TypeOK  BY DEF StoreInv
<1> QED  BY <1>1, StoreInvariant, PTL

-----------------------------------------------------------------------------
(* The events of an execution.                                             *)

\* An event of a cancelled execution is its birth, the step to "cancelling" if
\* it was not on its way already, or the step to "cancelled".
LEMMA EventsOfCancelled ==
  ASSUME NEW first \in Firsts, CancelledFrom(first), NEW e \in Announced(first.exec)
  PROVE  \/ /\ first.status = "pending"
            /\ e.previous = "none" /\ e.status = "pending" /\ e.revision = 1
         \/ /\ first.status # "cancelling" /\ CanTransition(first.status, "cancelling")
            /\ e.previous = first.status /\ e.status = "cancelling" /\ e.revision = 2
         \/ /\ e.previous = "cancelling" /\ e.status = "cancelled"
            /\ e.revision = IF first.status = "cancelling" THEN 2 ELSE 3
<1>1. IsBirth(e, first) \/ e \in CancelEvents(e.by, first)  BY DEF CancelledFrom
<1>2. CASE IsBirth(e, first)
  BY <1>2, FirstSnapshot DEF IsBirth, StatusChanged
<1>3. CASE e \in CancelEvents(e.by, first)
  BY <1>3, CancelPlanFields DEF Cancellation, CancelledFrom, Cancellable
<1> QED  BY <1>1, <1>2, <1>3

\* Every revision of a cancelled execution since it was found has an event.
LEMMA RevisionsOfCancelled ==
  ASSUME NEW first \in Firsts, CancelledFrom(first),
         NEW r \in 2..Cancelled(first).revision
  PROVE  \E e \in Announced(first.exec) : e.revision = r
<1>1. PICK d \in Calls : CancelEvents(d, first) \subseteq outbox  BY DEF CancelledFrom
<1>2. r = 2 \/ (first.status # "cancelling" /\ r = 3)  BY CancelledFields
<1>3. CASE r = 2
  <2> DEFINE e == Cancellation(d, first, first.status,
                    IF first.status = "cancelling" THEN "cancelled" ELSE "cancelling", 2)
  <2>1. e \in outbox /\ e.exec = first.exec /\ e.revision = 2
    BY <1>1, SecondEvent DEF Cancellation
  <2> QED  BY <1>3, <2>1 DEF Announced
<1>4. CASE first.status # "cancelling" /\ r = 3
  <2> DEFINE e == Cancellation(d, first, "cancelling", "cancelled", 3)
  <2>1. e \in outbox /\ e.exec = first.exec /\ e.revision = 3
    BY <1>1, <1>4, CancelPlanFields DEF Cancellation
  <2> QED  BY <1>4, <2>1 DEF Announced
<1> QED  BY <1>2, <1>3, <1>4

LEMMA HistoryFollows == StoreInv => HistoryIsAPath
<1> SUFFICES ASSUME StoreInv, NEW s \in snapshots
    PROVE  /\ \A e \in Announced(s.exec) :
                /\ e.previous = "none" => e.status = "pending" /\ e.revision = 1
                /\ e.previous # "none" => CanTransition(e.previous, e.status)
                /\ \A f \in Announced(s.exec) :
                     /\ e.revision = f.revision
                          => e.previous = f.previous /\ e.status = f.status
                     /\ e.revision + 1 = f.revision => e.status = f.previous
                /\ e.revision <= s.revision
                /\ e.revision = s.revision => e.status = s.status
           /\ \A r \in 2..s.revision : \E e \in Announced(s.exec) : e.revision = r
  BY DEF HistoryIsAPath
<1>1. PICK first \in Firsts :
        \/ s = first /\ Untouched(first)
        \/ s = Cancelled(first) /\ CancelledFrom(first)
  BY DEF StoreInv, Lives
<1>2. CASE s = first /\ Untouched(first)
  <2>1. s.revision = 1  BY <1>2, FirstSnapshot
  <2>2. \A e \in Announced(s.exec) :
          e.previous = "none" /\ e.status = "pending" /\ e.revision = 1
          /\ s.status = "pending"
    BY <1>2, <2>1 DEF Untouched, IsBirth, StatusChanged
  <2> QED  BY <2>1, <2>2
<1>3. CASE s = Cancelled(first) /\ CancelledFrom(first)
  <2>1. /\ s.exec = first.exec /\ s.status = "cancelled"
        /\ s.revision = IF first.status = "cancelling" THEN 2 ELSE 3
        /\ first.status # "none"
    BY <1>3, CancelledFields, FirstSnapshot, Transitions
  <2>2. \A r \in 2..s.revision : \E e \in Announced(s.exec) : e.revision = r
    BY <1>3, <2>1, RevisionsOfCancelled
  <2>3. ASSUME NEW e \in Announced(s.exec)
        PROVE  /\ e.previous = "none" => e.status = "pending" /\ e.revision = 1
               /\ e.previous # "none" => CanTransition(e.previous, e.status)
               /\ e.revision <= s.revision
               /\ e.revision = s.revision => e.status = s.status
    BY <1>3, <2>1, EventsOfCancelled, Transitions
  <2>4. ASSUME NEW e \in Announced(s.exec), NEW f \in Announced(s.exec)
        PROVE  /\ e.revision = f.revision
                    => e.previous = f.previous /\ e.status = f.status
               /\ e.revision + 1 = f.revision => e.status = f.previous
    BY <1>3, <2>1, EventsOfCancelled
  <2> QED  BY <2>2, <2>3, <2>4
<1> QED  BY <1>1, <1>2, <1>3

\* The outbox tells a legal, gap-free path for every execution, though several
\* processes may announce the same cancellation.
THEOREM History == Spec => []HistoryIsAPath
  BY StoreInvariant, HistoryFollows, PTL

LEMMA CopiesStep ==
  ASSUME StoreInv, CopiesCrossProcesses, [Next]_vars
  PROVE  CopiesCrossProcesses'
<1>1. TypeOK  BY DEF StoreInv
<1>2. CASE UNCHANGED outbox /\ UNCHANGED process
  BY <1>2 DEF CopiesCrossProcesses
<1>3. ASSUME NEW c \in Calls, Commit(c), asked[c].op = "start"
      PROVE  CopiesCrossProcesses'
  <2>1. /\ outbox' = outbox \cup {StatusChanged("none", NewSnapshot(c), c)}
        /\ \A e \in outbox : e.exec # c
    BY <1>3, StartCommits
  <2>2. StatusChanged("none", NewSnapshot(c), c).exec = c
    BY <1>1, <1>3, StartPlanFields DEF StatusChanged
  <2> QED  BY <1>1, <1>3, <2>1, <2>2, Others DEF CopiesCrossProcesses
<1>4. ASSUME NEW c \in Calls, Commit(c), asked[c].op # "start"
      PROVE  CopiesCrossProcesses'
  <2>1. PICK first \in Firsts :
          /\ Untouched(first) \/ CancelledFrom(first)
          /\ \A e \in Announced(first.exec) :
               e.previous # "none" => process[e.by] # process[c]
          /\ outbox' = outbox \cup CancelEvents(c, first)
    BY <1>4, CancelCommits
  <2>2. \A e, f \in CancelEvents(c, first) : e.revision = f.revision => e = f
    BY CancelPlanFields DEF Cancellation
  <2>3. ASSUME NEW e \in outbox, NEW f \in CancelEvents(c, first),
               e.exec = f.exec, e.revision = f.revision
        PROVE  process[e.by] # process[f.by]
    <3>1. f.by = c /\ f.exec = first.exec /\ f.revision # 1  BY SecondEvent
    <3>2. e \in Announced(first.exec)  BY <2>3, <3>1 DEF Announced
    <3>3. IsBirth(e, first) \/ e \in CancelEvents(e.by, first)
      BY <2>1, <3>2 DEF Untouched, CancelledFrom
    <3>4. ~IsBirth(e, first)
      BY <2>3, <3>1, FirstSnapshot DEF IsBirth, StatusChanged
    <3>5. e.previous # "none"  BY <3>3, <3>4, SecondEvent
    <3> QED  BY <2>1, <3>1, <3>2, <3>5
  <2> QED  BY <1>1, <1>4, <2>1, <2>2, <2>3, Others DEF CopiesCrossProcesses
<1>5. ASSUME NEW c \in Calls, Move(c)  PROVE CopiesCrossProcesses'
  BY <1>1, <1>2, <1>5, Tables, Others DEF tables
<1> QED  BY <1>2, <1>3, <1>4, <1>5, Moves DEF Next, vars

\* One process never announces a revision of an execution twice: its lock lets
\* the second cancellation see what the first has committed.
THEOREM Copies == Spec => []CopiesCrossProcesses
<1>1. Init => CopiesCrossProcesses
  BY DEF Init, Ledger!Init, CopiesCrossProcesses
<1> QED  BY <1>1, CopiesStep, StoreInvariant, PTL DEF Spec

-----------------------------------------------------------------------------
(* The store implements the ledger.                                        *)

LEMMA PendingCall ==
  ASSUME StoreInv, NEW c \in Calls, phase[c] # "ended"
  PROVE  Ledger!Pending(c)
  BY DEF StoreInv, AnswersFollow, Ledger!Pending

\* The ledger knows the same transitions.
LEMMA SameStates ==
  /\ \A s, t : Ledger!CanTransition(s, t) <=> CanTransition(s, t)
  /\ \A s, status : Ledger!Advance(s, status) = Advance(s, status)
  /\ \A e, x, status, r : Ledger!Snapshot(e, x, status, r) = Snapshot(e, x, status, r)
  /\ \A p, s, c : Ledger!StatusChanged(p, s, c) = StatusChanged(p, s, c)
  BY DEF Ledger!CanTransition, CanTransition, Ledger!EXECUTION_TRANSITIONS,
         EXECUTION_TRANSITIONS, Ledger!Advance, Advance, Ledger!Snapshot, Snapshot,
         Ledger!StatusChanged, StatusChanged

LEMMA EndRefines ==
  ASSUME StoreInv, NEW c \in Calls, phase[c] # "ended", NEW reply, End(c, reply),
         answer' = [answer EXCEPT ![c] = reply] =>
           \/ Ledger!AnswerStarted(c)   \/ Ledger!AnswerConflict(c)
           \/ Ledger!AnswerCancelled(c) \/ Ledger!AnswerInvalid(c)
           \/ Ledger!AnswerNotFound(c)  \/ Ledger!AnswerFailed(c)
  PROVE  Ledger!Next
  BY PendingCall DEF End, tables, Ledger!Answer, Ledger!Next

LEMMA FailRefines ==
  ASSUME StoreInv, NEW c \in Calls, phase[c] # "ended", Fail(c)
  PROVE  Ledger!Next
  BY EndRefines DEF Fail, Reply, Ledger!AnswerFailed

LEMMA RefusalRefines ==
  ASSUME StoreInv, NEW c \in Calls, CancelIllegal(c) \/ CancelUnknown(c)
  PROVE  Ledger!Next
<1>1. CASE CancelUnknown(c)
  <2>1. End(c, Reply("not_found", c, "none")) /\ phase[c] # "ended"
        /\ asked[c].op = "cancel" /\ Visible(c) = {}
    BY <1>1 DEF CancelUnknown
  <2> QED  BY <2>1, EndRefines DEF Visible, Reply, Ledger!AnswerNotFound
<1>2. CASE CancelIllegal(c)
  <2>1. End(c, Reply("invalid", c, "none")) /\ phase[c] # "ended" /\ asked[c].op = "cancel"
    BY <1>2 DEF CancelIllegal
  <2>2. PICK s \in Visible(c) : /\ s.status \notin {"cancelled", "failed", "cancelling"}
                                /\ ~CanTransition(s.status, "cancelling")
    BY <1>2 DEF CancelIllegal
  <2>3. s \in Snapshots  BY <2>2 DEF StoreInv, TypeOK, Visible, Ledger!Visible
  <2>4. s.status \in {"succeeded", "compensating"}
    BY <2>2, <2>3, Transitions DEF Snapshots
  <2> QED  BY <2>1, <2>2, <2>4, EndRefines DEF Visible, Reply, Ledger!AnswerInvalid
<1> QED  BY <1>1, <1>2

LEMMA KnownRefines ==
  ASSUME StoreInv, NEW c \in Calls, StartKnown(c)
  PROVE  Ledger!Next \/ UNCHANGED Ledger!ledgerVars
<1>1. PICK row \in seen[c] :
        /\ row.key = asked[c].key
        /\ IF row.spec = asked[c].spec
           THEN WriteNothing(c) ELSE End(c, Reply("conflict", c, "none"))
  BY DEF StartKnown
<1>2. row \in index /\ asked[c].op = "start" /\ phase[c] # "ended"
  BY DEF StartKnown, StoreInv, PlansHold
<1>3. CASE row.spec = asked[c].spec
  BY <1>1, <1>3 DEF WriteNothing, tables, Ledger!ledgerVars
<1>4. CASE row.spec # asked[c].spec
  BY <1>1, <1>2, <1>4, EndRefines DEF Reply, Ledger!AnswerConflict
<1> QED  BY <1>3, <1>4

LEMMA ReadBackRefines ==
  ASSUME StoreInv, NEW c \in Calls, ReadBack(c)
  PROVE  Ledger!Next
<1>1. TypeOK /\ RowsTogether /\ Done(c) /\ phase[c] # "ended"
  BY DEF StoreInv, AnswersFollow, ReadBack
<1>2. PICK s \in snapshots :
        /\ IF asked[c].op = "cancel"
           THEN s.exec = asked[c].exec /\ s.scope = asked[c].scope
           ELSE /\ s.scope = ScopeOf[asked[c].spec]
                /\ \E row \in index : row.key = asked[c].key /\ row.exec = s.exec
        /\ End(c, Reply("ok", s.exec, s.status))
  BY DEF ReadBack
<1>3. CASE asked[c].op = "start"
  <2>1. PICK row \in index : row.key = asked[c].key /\ row.exec = s.exec  BY <1>2, <1>3
  <2>2. row.spec = asked[c].spec  BY <1>1, <1>3, <2>1 DEF Done, RowsTogether
  <2>3. s \in Ledger!Visible(row.exec, ScopeOf[asked[c].spec])
    BY <1>2, <1>3, <2>1 DEF Ledger!Visible
  <2>4. answer' = [answer EXCEPT ![c] = Reply("ok", s.exec, s.status)]
          => Ledger!AnswerStarted(c)
    BY <1>3, <2>1, <2>2, <2>3 DEF Reply, Ledger!AnswerStarted
  <2> QED  BY <1>1, <1>2, <2>4, EndRefines
<1>4. CASE asked[c].op = "cancel"
  <2>1. s \in Ledger!Visible(asked[c].exec, asked[c].scope)
    BY <1>2, <1>4 DEF Ledger!Visible
  <2>2. PICK t \in Visible(c) : t.status \in {"cancelled", "failed"}
    BY <1>1, <1>4 DEF Done
  <2>3. s = t  BY <1>1, <2>1, <2>2 DEF Visible, Ledger!Visible, RowsTogether
  <2>4. answer' = [answer EXCEPT ![c] = Reply("ok", s.exec, s.status)]
          => Ledger!AnswerCancelled(c)
    BY <1>4, <2>1, <2>2, <2>3 DEF Reply, Ledger!AnswerCancelled
  <2> QED  BY <1>1, <1>2, <2>4, EndRefines
<1> QED  BY <1>1, <1>3, <1>4, AskedFields

LEMMA StartCommitRefines ==
  ASSUME StoreInv, NEW c \in Calls, Commit(c), asked[c].op = "start"
  PROVE  Ledger!Next
<1>1. Ledger!Pending(c) /\ UNCHANGED <<asked, answer>>
  BY PendingCall DEF Commit
<1>2. NewSnapshot(c) = Ledger!Snapshot(c, ScopeOf[asked[c].spec], "pending", 1)
  BY SameStates DEF NewSnapshot
<1>3. Ledger!Start(c)
  BY <1>1, <1>2, StartCommits, SameStates DEF Ledger!Start
<1> QED  BY <1>3 DEF Ledger!Next

LEMMA FirstCancelRefines ==
  ASSUME StoreInv, NEW c \in Calls, Commit(c), asked[c].op = "cancel",
         NEW first \in Firsts,
         first.exec = asked[c].exec, first.scope = asked[c].scope,
         Cancellable(first), Untouched(first),
         index' = index,
         snapshots' = {s \in snapshots : s.exec # first.exec} \cup {Cancelled(first)},
         outbox' = outbox \cup CancelEvents(c, first)
  PROVE  Ledger!Cancel(c)
<1>1. Ledger!Pending(c) /\ UNCHANGED <<asked, answer>>
  BY PendingCall DEF Commit
<1>2. first \in Ledger!Visible(asked[c].exec, asked[c].scope)
  BY DEF Untouched, Ledger!Visible
<1>3. snapshots' = (snapshots \ {first}) \cup {Cancelled(first)}
  BY DEF StoreInv, RowsTogether, Untouched
<1> DEFINE mid == IF first.status = "cancelling" THEN first
                  ELSE Ledger!Advance(first, "cancelling")
<1>4. Ledger!Advance(mid, "cancelled") = Cancelled(first)
  BY SameStates DEF Cancelled
<1>5. CancelEvents(c, first) =
        {Ledger!StatusChanged("cancelling", Cancelled(first), c)}
          \cup IF first = mid THEN {}
               ELSE {Ledger!StatusChanged(first.status, mid, c)}
  BY SameStates DEF CancelEvents, CancelPlan, Cancelled
<1>6. first.status = "cancelling" \/ Ledger!CanTransition(first.status, "cancelling")
  BY SameStates DEF Cancellable
<1>7. snapshots' = (snapshots \ {first}) \cup {Ledger!Advance(mid, "cancelled")}
  BY <1>3, <1>4
<1>8. outbox' = outbox \cup {Ledger!StatusChanged("cancelling",
                                                  Ledger!Advance(mid, "cancelled"), c)}
                  \cup IF first = mid THEN {}
                       ELSE {Ledger!StatusChanged(first.status, mid, c)}
  BY <1>4, <1>5
<1> QED  BY <1>1, <1>2, <1>6, <1>7, <1>8, Zenon DEF Ledger!Cancel

LEMMA NextCancelRefines ==
  ASSUME StoreInv, NEW c \in Calls, Commit(c), asked[c].op = "cancel",
         NEW first \in Firsts,
         first.exec = asked[c].exec, first.scope = asked[c].scope,
         CancelledFrom(first),
         \A e \in Announced(first.exec) : e.previous # "none" => process[e.by] # process[c],
         index' = index,
         snapshots' = {s \in snapshots : s.exec # first.exec} \cup {Cancelled(first)},
         outbox' = outbox \cup CancelEvents(c, first)
  PROVE  Ledger!CancelAgain(c)
<1>1. Ledger!Pending(c) /\ UNCHANGED <<asked, answer>>
  BY PendingCall DEF Commit
<1>2. /\ Cancelled(first).exec = first.exec /\ Cancelled(first).scope = first.scope
      /\ Cancelled(first).status = "cancelled"
  BY CancelledFields
<1>3. Cancelled(first) \in Ledger!Visible(asked[c].exec, asked[c].scope)
  BY <1>2 DEF CancelledFrom, Ledger!Visible
<1>4. snapshots' = snapshots
  BY <1>2 DEF StoreInv, RowsTogether, CancelledFrom
<1>5. PICK d \in Calls : CancelEvents(d, first) \subseteq outbox
  BY DEF CancelledFrom
<1>6. d # c
  <2>1. PICK e \in CancelEvents(d, first) :
          e.exec = first.exec /\ e.by = d /\ e.previous # "none"
    BY SecondEvent
  <2> QED  BY <1>5, <2>1 DEF Announced
<1> DEFINE theirs == {e \in outbox : e.exec = Cancelled(first).exec /\ e.by = d
                                     /\ e.previous # "none"}
<1>7. theirs = CancelEvents(d, first)
  <2>1. \A e \in theirs : e \in CancelEvents(d, first)
    BY <1>2 DEF CancelledFrom, Announced, IsBirth, StatusChanged
  <2>2. \A e \in CancelEvents(d, first) : e \in theirs
    BY <1>2, <1>5, SecondEvent
  <2> QED  BY <2>1, <2>2
<1>8. {[e EXCEPT !.by = c] : e \in CancelEvents(d, first)} = CancelEvents(c, first)
  <2>1. \A previous, status, r :
          [Cancellation(d, first, previous, status, r) EXCEPT !.by = c] =
            Cancellation(c, first, previous, status, r)
    BY DEF Cancellation
  <2> QED  BY <2>1, CancelPlanFields
<1>9. outbox' = outbox \cup {[e EXCEPT !.by = c] : e \in theirs}
  BY <1>7, <1>8
<1>10. UNCHANGED <<asked, index, snapshots, answer>>  BY <1>1, <1>4
<1> QED  BY <1>1, <1>2, <1>3, <1>6, <1>9, <1>10 DEF Ledger!CancelAgain

LEMMA CommitRefines ==
  ASSUME StoreInv, NEW c \in Calls, Commit(c)
  PROVE  Ledger!Next
<1>1. CASE asked[c].op = "start"  BY <1>1, StartCommitRefines
<1>2. CASE asked[c].op # "start"
  <2>1. asked[c].op = "cancel"  BY <1>2, AskedFields DEF StoreInv
  <2>2. Ledger!Cancel(c) \/ Ledger!CancelAgain(c)
    BY <1>2, <2>1, CancelCommits, FirstCancelRefines, NextCancelRefines
  <2> QED  BY <2>2 DEF Ledger!Next
<1> QED  BY <1>1, <1>2

LEMMA StepRefines ==
  ASSUME StoreInv, [Next]_vars
  PROVE  [Ledger!Next]_(Ledger!ledgerVars)
<1>1. CASE UNCHANGED vars
  BY <1>1 DEF vars, Ledger!ledgerVars
<1>2. ASSUME NEW c \in Calls, Step(c) \/ Interrupt(c)
      PROVE  Ledger!Next \/ UNCHANGED Ledger!ledgerVars
  <2>1. CASE AcquireLock(c) \/ LoadIndex(c) \/ StartNew(c) \/ ClaimKey(c) \/ StageRows(c)
    BY <2>1 DEF AcquireLock, LoadIndex, StartNew, Decide, ClaimKey, StageRows, tables,
                Ledger!ledgerVars
  <2>2. CASE CancelRunning(c) \/ CancelDone(c)
    BY <2>2 DEF CancelRunning, Decide, CancelDone, WriteNothing, tables, Ledger!ledgerVars
  <2>3. CASE DenyAuthorization(c) \/ Interrupt(c)
    BY <2>3, FailRefines DEF DenyAuthorization, Interrupt
  <2>4. CASE LoseKey(c)
    BY <2>4, FailRefines DEF LoseKey, tables, Ledger!ledgerVars
  <2> QED
    BY <1>2, <2>1, <2>2, <2>3, <2>4, KnownRefines, RefusalRefines, CommitRefines,
       ReadBackRefines DEF Step
<1> QED  BY <1>1, <1>2 DEF Next

\* The transactions of all processes, whatever their interleaving and wherever
\* they are interrupted, implement calls that take effect in one instant, but
\* for the cancellations that are announced again.
THEOREM ImplementsLedger == Spec => LedgerSpec
<1>1. Init => Ledger!Init  BY DEF Init
<1> QED
  BY <1>1, StepRefines, StoreInvariant, PTL DEF Spec, LedgerSpec, Ledger!Spec

-----------------------------------------------------------------------------
(* Waiting.  NoCircularWait speaks of ENABLED, which stays with TLC; this   *)
(* is the argument for it, with the guards of the statements.              *)

\* What c would read back is there.
ReadsBack(c) ==
  \E s \in snapshots :
    IF asked[c].op = "cancel"
    THEN s.exec = asked[c].exec /\ s.scope = asked[c].scope
    ELSE /\ s.scope = ScopeOf[asked[c].spec]
         /\ \E row \in index : row.key = asked[c].key /\ row.exec = s.exec

\* c waits for the lock of its process, for a key or for a row.
Waits(c) ==
  \/ phase[c] \in {"idle", "written"} /\ ~LockFree(c)
  \/ phase[c] = "decided" /\ KeyContended(c)
  \/ phase[c] = "claimed" /\ RowContended(c)

LEMMA WrittenFinds ==
  ASSUME StoreInv, NEW c \in Calls, phase[c] = "written"
  PROVE  ReadsBack(c)
<1>1. Done(c)  BY DEF StoreInv, AnswersFollow
<1>2. CASE asked[c].op = "start"
  <2>1. PICK row \in index : row.key = asked[c].key /\ row.spec = asked[c].spec
    BY <1>1, <1>2 DEF Done
  <2>2. PICK s \in snapshots : s.exec = row.exec /\ s.scope = ScopeOf[row.spec]
    BY <2>1 DEF StoreInv, RowsTogether
  <2> QED  BY <1>2, <2>1, <2>2 DEF ReadsBack
<1>3. CASE asked[c].op # "start"
  <2>1. asked[c].op = "cancel"  BY <1>3, AskedFields DEF StoreInv
  <2>2. \E s \in snapshots : s.exec = asked[c].exec /\ s.scope = asked[c].scope
    BY <1>1, <1>3 DEF Done, Visible, Ledger!Visible
  <2> QED  BY <2>1, <2>2 DEF ReadsBack
<1> QED  BY <1>2, <1>3

\* A staged call waits for nobody, then a claimed one, then a decided one, and so on.
LEMMA SomeoneFirst ==
  ASSUME StoreInv, NEW c \in Calls, phase[c] # "ended"
  PROVE  \E d \in Calls : phase[d] # "ended" /\ ~Waits(d)
<1>1. \A d \in Calls : phase[d] \in Phases  BY DEF StoreInv, TypeOK
<1>2. CASE \E d \in Calls : phase[d] = "staged"  BY <1>2 DEF Waits
<1>3. CASE ~(\E d \in Calls : phase[d] = "staged") /\ \E d \in Calls : phase[d] = "claimed"
  BY <1>3 DEF Waits, RowContended
<1>4. CASE ~(\E d \in Calls : phase[d] \in {"staged", "claimed"})
           /\ \E d \in Calls : phase[d] = "decided"
  BY <1>4 DEF Waits, KeyContended
<1>5. CASE \E d \in Calls : phase[d] \in {"locked", "indexed"}
  BY <1>5 DEF Waits
<1>6. CASE \A d \in Calls : phase[d] \notin InWrite
  BY <1>6 DEF Waits, LockFree, InWrite
<1> QED  BY <1>1, <1>2, <1>3, <1>4, <1>5, <1>6 DEF Phases, InWrite

\* While a call has not ended, one that has not ended waits for nobody, and the
\* read after a write always finds its execution: the lock of a process, the
\* unique key and the rows are taken in this order by every write.
THEOREM NobodyInACircle ==
  Spec => []( /\ (\E c \in Calls : phase[c] # "ended") =>
                   \E d \in Calls : phase[d] # "ended" /\ ~Waits(d)
              /\ \A c \in Calls : phase[c] = "written" => ReadsBack(c) )
<1>1. StoreInv => /\ (\E c \in Calls : phase[c] # "ended") =>
                       \E d \in Calls : phase[d] # "ended" /\ ~Waits(d)
                  /\ \A c \in Calls : phase[c] = "written" => ReadsBack(c)
  BY SomeoneFirst, WrittenFinds
<1> QED  BY <1>1, StoreInvariant, PTL

-----------------------------------------------------------------------------
(* What the ledger means for those who were answered, and for the tables.  *)

\* A snapshot stays, or moves on from a status that may be cancelled.
Continues(s, t) ==
  /\ t.exec = s.exec /\ t.scope = s.scope
  /\ t = s \/ (t.revision > s.revision /\ Cancellable(s))

TablesGrow ==
  /\ index \subseteq index' /\ outbox \subseteq outbox'
  /\ \A s \in snapshots : \E t \in snapshots' : Continues(s, t)

\* What an answer told of the tables is still so.
Stands(c) ==
  /\ answer[c].kind = "ok" /\ asked[c].op = "start" =>
       \E row \in index : /\ row.key = asked[c].key /\ row.spec = asked[c].spec
                          /\ row.exec = answer[c].exec
  /\ answer[c].kind = "conflict" =>
       \E row \in index : row.key = asked[c].key /\ row.spec # asked[c].spec
  /\ answer[c].kind = "ok" /\ asked[c].op = "cancel" =>
       \E s \in snapshots : /\ s.exec = asked[c].exec /\ s.scope = asked[c].scope
                            /\ s.status = answer[c].status
                            /\ s.status \in {"cancelled", "failed"}
  /\ answer[c].kind = "invalid" =>
       \E s \in snapshots : /\ s.exec = asked[c].exec /\ s.scope = asked[c].scope
                            /\ s.status \in {"succeeded", "compensating"}

AnswersStand == \A c \in Calls : Stands(c)

\* Callers of one key were told the same.
CallersAgree ==
  \A c, d \in Calls :
    /\ asked[c].op = "start" /\ asked[d].op = "start" /\ asked[c].key = asked[d].key
    /\ answer[c].kind = "ok"
    => /\ answer[d].kind = "ok" =>
            answer[d].exec = answer[c].exec /\ asked[d].spec = asked[c].spec
       /\ answer[d].kind = "conflict" => asked[d].spec # asked[c].spec

LEMMA CancelledContinues ==
  ASSUME NEW s \in Snapshots, Cancellable(s)
  PROVE  Continues(s, Cancelled(s))
<1>1. s.revision \in Nat /\ "cancelling" \in Statuses /\ "cancelled" \in Statuses
  BY Transitions DEF Snapshots
<1> DEFINE mid == IF s.status = "cancelling" THEN s ELSE Advance(s, "cancelling")
<1>2. /\ mid \in Snapshots /\ mid.exec = s.exec /\ mid.scope = s.scope
      /\ mid.revision \in Nat /\ mid.revision >= s.revision
  <2>1. CASE s.status = "cancelling"  BY <1>1, <2>1
  <2>2. CASE s.status # "cancelling"
    BY <1>1, <2>2, AdvanceFields DEF Snapshots
  <2> QED  BY <2>1, <2>2
<1>3. Cancelled(s) = Advance(mid, "cancelled")  BY DEF Cancelled
<1> HIDE DEF mid
<1>4. Cancelled(s) = [exec |-> mid.exec, scope |-> mid.scope, status |-> "cancelled",
                      revision |-> mid.revision + 1]
  BY <1>1, <1>2, <1>3, AdvanceFields
<1>5. Cancelled(s).exec = s.exec /\ Cancelled(s).scope = s.scope
      /\ Cancelled(s).revision > s.revision
  BY <1>1, <1>2, <1>4
<1> QED  BY <1>5 DEF Continues

LEMMA LedgerGrows ==
  ASSUME TypeOK, [Ledger!Next]_(Ledger!ledgerVars)
  PROVE  TablesGrow /\ asked' = asked
<1> USE DEF Continues, TablesGrow
<1>1. CASE UNCHANGED Ledger!ledgerVars  BY <1>1 DEF Ledger!ledgerVars
<1>2. ASSUME NEW c \in Calls, Ledger!Start(c)  PROVE TablesGrow /\ asked' = asked
  BY <1>2 DEF Ledger!Start
<1>3. ASSUME NEW c \in Calls, Ledger!CancelAgain(c) \/ Ledger!Answer(c)
      PROVE  TablesGrow /\ asked' = asked
  BY <1>3 DEF Ledger!CancelAgain, Ledger!Answer
<1>4. ASSUME NEW c \in Calls, Ledger!Cancel(c)  PROVE TablesGrow /\ asked' = asked
  <2>1. PICK s \in Ledger!Visible(asked[c].exec, asked[c].scope) :
          LET cancelling == IF s.status = "cancelling" THEN s
                            ELSE Ledger!Advance(s, "cancelling")
              cancelled  == Ledger!Advance(cancelling, "cancelled")
          IN /\ s.status = "cancelling" \/ Ledger!CanTransition(s.status, "cancelling")
             /\ snapshots' = (snapshots \ {s}) \cup {cancelled}
             /\ outbox' = outbox \cup {Ledger!StatusChanged("cancelling", cancelled, c)}
                            \cup IF s = cancelling THEN {}
                                 ELSE {Ledger!StatusChanged(s.status, cancelling, c)}
    BY <1>4, Zenon DEF Ledger!Cancel
  <2>2. s \in Snapshots /\ s \in snapshots  BY DEF TypeOK, Ledger!Visible
  <2>3. snapshots' = (snapshots \ {s}) \cup {Cancelled(s)}
    BY <2>1, SameStates DEF Cancelled
  <2>4. outbox \subseteq outbox'  BY <2>1
  <2>5. Cancellable(s)  BY <2>1, SameStates DEF Cancellable
  <2>6. Continues(s, Cancelled(s))  BY <2>2, <2>5, CancelledContinues
  <2>7. UNCHANGED <<asked, index>>  BY <1>4 DEF Ledger!Cancel
  <2> HIDE DEF Continues
  <2>8. \A t \in snapshots : \E u \in snapshots' : Continues(t, u)
    <3>1. \A t \in snapshots : t # s => t \in snapshots' /\ Continues(t, t)
      BY <2>3 DEF Continues
    <3> QED  BY <2>3, <2>6, <3>1
  <2> QED  BY <2>4, <2>7, <2>8
<1> QED  BY <1>1, <1>2, <1>3, <1>4 DEF Ledger!Next

LEMMA KeepsStanding ==
  ASSUME NEW c \in Calls, Stands(c), TablesGrow, asked' = asked,
         answer'[c] = answer[c]
  PROVE  Stands(c)'
<1>1. index \subseteq index'  BY DEF TablesGrow
<1>2. \A s \in snapshots :
        s.status \in {"cancelled", "failed", "succeeded", "compensating"} => s \in snapshots'
  <2>1. \A s : Cancellable(s) =>
          s.status \notin {"cancelled", "failed", "succeeded", "compensating"}
    BY Transitions DEF Cancellable
  <2> QED  BY <2>1 DEF TablesGrow, Continues
<1> QED  BY <1>1, <1>2 DEF Stands

LEMMA AnswerStands ==
  ASSUME TypeOK, NEW c \in Calls, Ledger!Answer(c)
  PROVE  Stands(c)' /\ \A d \in Calls \ {c} : answer'[d] = answer[d]
<1>1. UNCHANGED <<asked, index, snapshots>> /\ DOMAIN answer = Calls
  BY DEF Ledger!Answer, TypeOK
<1> USE DEF Ledger!Reply, Ledger!Visible
<1>2. CASE Ledger!AnswerStarted(c)
  BY <1>1, <1>2 DEF Ledger!AnswerStarted, Stands
<1>3. CASE Ledger!AnswerConflict(c)
  BY <1>1, <1>3 DEF Ledger!AnswerConflict, Stands
<1>4. CASE Ledger!AnswerCancelled(c)
  BY <1>1, <1>4 DEF Ledger!AnswerCancelled, Stands
<1>5. CASE Ledger!AnswerInvalid(c)
  BY <1>1, <1>5 DEF Ledger!AnswerInvalid, Stands
<1>6. CASE Ledger!AnswerNotFound(c)
  BY <1>1, <1>6 DEF Ledger!AnswerNotFound, Stands
<1>7. CASE Ledger!AnswerFailed(c)
  BY <1>1, <1>7 DEF Ledger!AnswerFailed, Stands
<1> QED  BY <1>2, <1>3, <1>4, <1>5, <1>6, <1>7 DEF Ledger!Answer

LEMMA StandsStep ==
  ASSUME TypeOK, AnswersStand, [Ledger!Next]_(Ledger!ledgerVars)
  PROVE  AnswersStand'
<1>1. TablesGrow /\ asked' = asked  BY LedgerGrows
<1>2. CASE answer' = answer
  BY <1>1, <1>2, KeepsStanding DEF AnswersStand
<1>3. ASSUME NEW c \in Calls, Ledger!Answer(c)  PROVE AnswersStand'
  BY <1>1, <1>3, AnswerStands, KeepsStanding DEF AnswersStand
<1> QED
  BY <1>2, <1>3
  DEF Ledger!Next, Ledger!ledgerVars, Ledger!Start, Ledger!Cancel, Ledger!CancelAgain

LEMMA AnswersStandAlways == Spec => []AnswersStand
<1>1. Init => AnswersStand
  BY DEF Init, Ledger!Init, Ledger!Reply, AnswersStand, Stands
<1>2. StoreInv /\ AnswersStand /\ [Next]_vars => AnswersStand'
  BY StepRefines, StandsStep DEF StoreInv
<1> QED  BY <1>1, <1>2, StoreInvariant, PTL DEF Spec

\* What a start or a cancellation was told stays so after the response is sent:
\* the key leads to that execution, another spec keeps the key, a "cancelled" or
\* "failed" execution is not touched again, and one that could not be cancelled
\* never will be.  So of all starts that share an idempotency key, in whatever
\* processes, those that succeed are told one execution and asked for one spec,
\* and those that meet a conflict asked for another.
THEOREM Agreement == Spec => [](AnswersStand /\ CallersAgree)
<1>1. StoreInv /\ AnswersStand => CallersAgree
  BY DEF StoreInv, RowsTogether, AnswersStand, Stands, CallersAgree
<1> QED  BY <1>1, StoreInvariant, AnswersStandAlways, PTL

\* "Atomically replace committed state" loses nothing, although every write
\* computes its rows from a state that others have overtaken: no step of any
\* process drops a key or an event, and each snapshot stays or gives way to one
\* of a later revision, never if it had ended.
THEOREM NothingTakenBack == Spec => [][TablesGrow]_vars
<1>1. StoreInv /\ [Next]_vars => [TablesGrow]_vars
  BY StepRefines, LedgerGrows DEF StoreInv
<1> QED  BY <1>1, StoreInvariant, PTL DEF Spec

=============================================================================
