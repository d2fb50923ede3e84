------------------------- MODULE EpisodeIngestProofs -------------------------
(***************************************************************************)
(* EpisodeIngest keeps its inductive invariant for every set of calls,     *)
(* tenants, keys and fingerprints and every hash, and implements           *)
(* EpisodeLedger.                                                          *)
(***************************************************************************)
EXTENDS EpisodeIngest, TLAPS

LEMMA InitTypeOK == Init => TypeOK
  BY DEF Init, TypeOK, NothingStaged, Writes, Phases, Reply, Ledger!Reply,
         Ledger!Kinds, Requests, Rows, Events

\* A row or an event of a call is well typed.
LEMMA RowsTyped ==
  ASSUME TypeOK, NEW c \in Calls
  PROVE  Row(c) \in Rows /\ Event(c) \in Events
  BY DEF TypeOK, Row, Event, Rows, Events, Requests, Ledger!Requests

\* Writing one more table of a transaction keeps its record well formed.
LEMMA WritesTyped ==
  ASSUME TypeOK, NEW c \in Calls
  PROVE  /\ [staged[c] EXCEPT !.episodes = {Row(c)}] \in Writes
         /\ [staged[c] EXCEPT !.idempotency = {Row(c)}] \in Writes
         /\ [staged[c] EXCEPT !.outbox = {Event(c)}] \in Writes
  <1>1. {Row(c)} \in SUBSET Rows /\ {Event(c)} \in SUBSET Events
    BY RowsTyped
  <1>2. staged[c] \in Writes
    BY DEF TypeOK
  <1> QED BY <1>1, <1>2 DEF Writes

LEMMA StageTypeOK ==
  ASSUME TypeOK, NEW c \in Calls, NEW p \in Phases, NEW w \in Writes,
         Goto(c, p), Stage(c, w), UNCHANGED <<asked, target, tables, answer>>
  PROVE  TypeOK'
  BY DEF TypeOK, Goto, Stage, tables

LEMMA AbortTypeOK ==
  ASSUME TypeOK, NEW c \in Calls, NEW p \in Ended,
         NEW kind \in {"failed", "conflict"}, Abort(c, p, kind)
  PROVE  TypeOK'
  BY DEF TypeOK, Abort, Goto, Stage, NothingStaged, Writes, Phases, Reply, Ledger!Reply,
         Ledger!Kinds, tables

LEMMA ResolveTypeOK ==
  ASSUME TypeOK, NEW c \in Calls, NEW row \in Rows, Resolve(c, row)
  PROVE  TypeOK'
  <1>1. CASE row.request = asked[c]
    BY <1>1 DEF TypeOK, Resolve, Goto, Phases, InTransaction, tables, Rows
  <1>2. CASE row.request # asked[c]
    BY <1>2, AbortTypeOK DEF Resolve, Ended
  <1> QED BY <1>1, <1>2

LEMMA NextTypeOK == TypeOK /\ [Next]_vars => TypeOK'
  <1> SUFFICES ASSUME TypeOK, [Next]_vars PROVE TypeOK'
    OBVIOUS
  <1> USE DEF Phases, InTransaction, Ended
  <1>1. ASSUME NEW c \in Calls, Authorize(c) PROVE TypeOK'
    BY <1>1 DEF TypeOK, Authorize, Goto, tables
  <1>2. ASSUME NEW c \in Calls, DenyAuthorization(c) PROVE TypeOK'
    BY <1>2, AbortTypeOK DEF DenyAuthorization
  <1>3. ASSUME NEW c \in Calls, AcquireLock(c) PROVE TypeOK'
    BY <1>3 DEF TypeOK, AcquireLock, Goto, tables
  <1>4. ASSUME NEW c \in Calls, FindIdempotencyRow(c) PROVE TypeOK'
    BY <1>4, ResolveTypeOK DEF TypeOK, FindIdempotencyRow
  <1>5. ASSUME NEW c \in Calls, FindNoIdempotencyRow(c) PROVE TypeOK'
    BY <1>5 DEF TypeOK, FindNoIdempotencyRow, Goto, tables
  <1>6. ASSUME NEW c \in Calls, InsertEpisode(c) PROVE TypeOK'
    <2>1. CASE KeyTaken(c, episodes)
      BY <1>6, <2>1, AbortTypeOK DEF InsertEpisode
    <2>2. CASE ~KeyTaken(c, episodes)
      BY <1>6, <2>2, WritesTyped, StageTypeOK DEF InsertEpisode
    <2> QED BY <2>1, <2>2
  <1>7. ASSUME NEW c \in Calls, InsertIdempotencyRow(c) PROVE TypeOK'
    <2>1. CASE KeyTaken(c, idempotency)
      BY <1>7, <2>1, ResolveTypeOK DEF TypeOK, InsertIdempotencyRow
    <2>2. CASE ~KeyTaken(c, idempotency)
      BY <1>7, <2>2, WritesTyped, StageTypeOK DEF InsertIdempotencyRow
    <2> QED BY <2>1, <2>2
  <1>8. ASSUME NEW c \in Calls, Publish(c) PROVE TypeOK'
    <2>1. CASE Abort(c, "violated", "failed")
      BY <2>1, AbortTypeOK
    <2>2. CASE ~Abort(c, "violated", "failed")
      BY <1>8, <2>2, WritesTyped, StageTypeOK DEF Publish
    <2> QED BY <2>1, <2>2
  <1>9. ASSUME NEW c \in Calls, Commit(c) PROVE TypeOK'
    BY <1>9 DEF TypeOK, Commit, Goto, Stage, NothingStaged, Writes
  <1>10. ASSUME NEW c \in Calls, Return(c) PROVE TypeOK'
    BY <1>10 DEF TypeOK, Return, Goto, tables, Reply, Ledger!Reply, Ledger!Kinds
  <1>11. ASSUME NEW c \in Calls, Interrupt(c) PROVE TypeOK'
    BY <1>11, AbortTypeOK DEF Interrupt
  <1>12. CASE UNCHANGED vars
    BY <1>12 DEF TypeOK, vars, tables
  <1> QED
    BY <1>1, <1>2, <1>3, <1>4, <1>5, <1>6, <1>7, <1>8, <1>9, <1>10, <1>11,
       <1>12 DEF Next, Step

\* Every reachable state is well typed.
THEOREM TypeCorrect == Spec => []TypeOK
  BY InitTypeOK, NextTypeOK, PTL DEF Spec

-----------------------------------------------------------------------------
(* The inductive invariant, one lemma per kind of step.                    *)

LEMMA InitIInv == Init => IInv
  <1> SUFFICES ASSUME Init PROVE IInv
    OBVIOUS
  <1>1. TypeOK
    BY InitTypeOK
  <1>2. StagedByPhase /\ LockExcludes /\ TargetByPhase
    BY DEF Init, StagedByPhase, LockExcludes, TargetByPhase, NothingStaged, InTransaction
  <1>3. AnswersBacked
    BY DEF Init, AnswersBacked, Acknowledged, Ended, Reply, Ledger!Reply
  <1>4. RowsTogether /\ OneEpisodePerKey /\ RowsOfPastCalls /\ AbsenceHolds
    BY DEF Init, RowsTogether, OneEpisodePerKey, RowsOfPastCalls, AbsenceHolds
  <1> QED BY <1>1, <1>2, <1>3, <1>4 DEF Init, IInv

\* A step that changes neither the tables nor the asked requests keeps what
\* relates the tables to one another.
LEMMA TablesUnchanged ==
  ASSUME IInv, UNCHANGED <<asked, tables>>
  PROVE  RowsTogether' /\ OneEpisodePerKey'
  BY DEF IInv, RowsTogether, OneEpisodePerKey, tables

\* Ending a call without a commit.
LEMMA AbortIInv ==
  ASSUME IInv, NEW c \in Calls, phase[c] \notin Ended,
         NEW kind \in {"failed", "conflict"}, Abort(c, "ended", kind)
  PROVE  IInv'
  <1> USE DEF IInv, Abort, Goto, Stage, tables
  <1>1. TypeOK'
    BY AbortTypeOK DEF Ended
  <1>2. phase' = [phase EXCEPT ![c] = "ended"] /\ phase \in [Calls -> Phases]
    BY DEF TypeOK
  <1>3. LockExcludes'
    BY <1>2 DEF LockExcludes, InTransaction
  <1>4. StagedByPhase'
    BY <1>2 DEF StagedByPhase, TypeOK, NothingStaged, Row, Event
  <1>5. RowsOfPastCalls'
    BY <1>2 DEF RowsOfPastCalls, Row, TypeOK, Rows
  <1>6. AbsenceHolds'
    BY <1>2 DEF AbsenceHolds, KeyTaken
  <1>7. TargetByPhase'
    BY <1>2 DEF TargetByPhase
  <1>8. AnswersBacked'
    BY <1>2 DEF AnswersBacked, Acknowledged, Reply, Ledger!Reply, Ended, TypeOK
  <1>9. \A d \in Calls : phase'[d] # "violated"
    BY <1>2
  <1> QED BY <1>1, <1>3, <1>4, <1>5, <1>6, <1>7, <1>8, <1>9, TablesUnchanged

\* Moving on without touching tables, staged rows or answers, to a phase that
\* is not the last and claims nothing more than the one before.
LEMMA AuthorizeIInv ==
  ASSUME IInv, NEW c \in Calls, Authorize(c)
  PROVE  IInv'
  <1> USE DEF IInv, Authorize, Goto, tables
  <1>1. TypeOK'
    BY NextTypeOK DEF Next, Step
  <1>2. phase' = [phase EXCEPT ![c] = "drawn"] /\ phase \in [Calls -> Phases]
    BY DEF TypeOK
  <1>3. LockExcludes' /\ AbsenceHolds' /\ TargetByPhase'
    BY <1>2 DEF LockExcludes, InTransaction, AbsenceHolds, KeyTaken, TargetByPhase
  <1>4. StagedByPhase'
    BY <1>2 DEF StagedByPhase, Row, Event
  <1>5. RowsOfPastCalls'
    BY <1>2 DEF RowsOfPastCalls, Row, TypeOK, Rows
  <1>6. AnswersBacked'
    BY <1>2 DEF AnswersBacked, Acknowledged, Ended
  <1>7. \A d \in Calls : phase'[d] # "violated"
    BY <1>2
  <1> QED BY <1>1, <1>3, <1>4, <1>5, <1>6, <1>7, TablesUnchanged

LEMMA AcquireLockIInv ==
  ASSUME IInv, NEW c \in Calls, AcquireLock(c)
  PROVE  IInv'
  <1> USE DEF IInv, AcquireLock, Goto, tables
  <1>1. TypeOK'
    BY NextTypeOK DEF Next, Step
  <1>2. phase' = [phase EXCEPT ![c] = "locked"] /\ phase \in [Calls -> Phases]
    BY DEF TypeOK
  <1>3. LockExcludes'
    <2> SUFFICES ASSUME NEW a \in Calls, NEW b \in Calls, a # b,
                        phase'[a] \in InTransaction, phase'[b] \in InTransaction,
                        SameKey(asked[a], asked[b])
                 PROVE  FALSE
      BY DEF LockExcludes, SameKey
    <2>1. Lock(asked[a]) = Lock(asked[b])
      BY DEF Lock, SameKey
    <2>2. CASE a = c
      BY <1>2, <2>1, <2>2 DEF LockFree
    <2>3. CASE b = c
      BY <1>2, <2>1, <2>3 DEF LockFree
    <2>4. CASE a # c /\ b # c
      BY <1>2, <2>4 DEF LockExcludes
    <2> QED BY <2>2, <2>3, <2>4
  <1>4. AbsenceHolds' /\ TargetByPhase'
    BY <1>2 DEF AbsenceHolds, KeyTaken, TargetByPhase
  <1>5. StagedByPhase'
    BY <1>2 DEF StagedByPhase, Row, Event
  <1>6. RowsOfPastCalls'
    BY <1>2 DEF RowsOfPastCalls, Row, TypeOK, Rows
  <1>7. AnswersBacked'
    BY <1>2 DEF AnswersBacked, Acknowledged, Ended
  <1>8. \A d \in Calls : phase'[d] # "violated"
    BY <1>2
  <1> QED BY <1>1, <1>3, <1>4, <1>5, <1>6, <1>7, <1>8, TablesUnchanged

LEMMA FindIdempotencyRowIInv ==
  ASSUME IInv, NEW c \in Calls, FindIdempotencyRow(c)
  PROVE  IInv'
  <1> USE DEF IInv, FindIdempotencyRow
  <1>1. PICK row \in idempotency : SameKey(row.request, asked[c]) /\ Resolve(c, row)
    OBVIOUS
  <1>2. CASE row.request # asked[c]
    BY <1>1, <1>2, AbortIInv DEF Resolve, Ended
  <1>3. CASE row.request = asked[c]
    <2> USE DEF Resolve, Goto, tables
    <2>1. TypeOK'
      BY NextTypeOK DEF Next, Step
    <2>2. /\ phase' = [phase EXCEPT ![c] = "replaying"]
          /\ target' = [target EXCEPT ![c] = row.id]
          /\ UNCHANGED <<asked, episodes, idempotency, outbox, staged, answer>>
      BY <1>1, <1>3
    <2>3. phase \in [Calls -> Phases] /\ target \in [Calls -> Calls]
      BY DEF TypeOK
    <2>4. LockExcludes' /\ AbsenceHolds'
      BY <2>2, <2>3 DEF LockExcludes, InTransaction, AbsenceHolds, KeyTaken
    <2>5. row.id # c
      BY <1>1 DEF RowsOfPastCalls
    <2>6. TargetByPhase'
      BY <1>1, <1>3, <2>2, <2>3, <2>5 DEF TargetByPhase
    <2>7. StagedByPhase'
      BY <2>2, <2>3 DEF StagedByPhase, Row, Event
    <2>8. RowsOfPastCalls'
      BY <2>2, <2>3 DEF RowsOfPastCalls, Row, TypeOK, Rows
    <2>9. AnswersBacked'
      BY <2>2, <2>3 DEF AnswersBacked, Acknowledged, Ended
    <2>10. \A d \in Calls : phase'[d] # "violated"
      BY <2>2, <2>3
    <2> QED BY <2>1, <2>2, <2>4, <2>6, <2>7, <2>8, <2>9, <2>10, TablesUnchanged
  <1> QED BY <1>2, <1>3

LEMMA FindNoIdempotencyRowIInv ==
  ASSUME IInv, NEW c \in Calls, FindNoIdempotencyRow(c)
  PROVE  IInv'
  <1> USE DEF IInv, FindNoIdempotencyRow, Goto, tables
  <1>1. TypeOK'
    BY NextTypeOK DEF Next, Step
  <1>2. phase' = [phase EXCEPT ![c] = "absent"] /\ phase \in [Calls -> Phases]
    BY DEF TypeOK
  <1>3. LockExcludes' /\ TargetByPhase'
    BY <1>2 DEF LockExcludes, InTransaction, TargetByPhase
  <1>4. AbsenceHolds'
    BY <1>2 DEF AbsenceHolds, KeyTaken
  <1>5. StagedByPhase'
    BY <1>2 DEF StagedByPhase, Row, Event
  <1>6. RowsOfPastCalls'
    BY <1>2 DEF RowsOfPastCalls, Row, TypeOK, Rows
  <1>7. AnswersBacked'
    BY <1>2 DEF AnswersBacked, Acknowledged, Ended
  <1>8. \A d \in Calls : phase'[d] # "violated"
    BY <1>2
  <1> QED BY <1>1, <1>3, <1>4, <1>5, <1>6, <1>7, <1>8, TablesUnchanged

\* Writing a row into the open transaction.
LEMMA StageIInv ==
  ASSUME IInv, NEW c \in Calls, NEW p \in Phases, NEW q \in Phases, NEW w \in Writes,
         phase[c] = p, Goto(c, q), Stage(c, w),
         UNCHANGED <<asked, target, tables, answer>>,
         \/ /\ p = "absent" /\ q = "inserted"
            /\ w = [staged[c] EXCEPT !.episodes = {Row(c)}]
         \/ /\ p = "inserted" /\ q = "appended"
            /\ w = [staged[c] EXCEPT !.idempotency = {Row(c)}]
         \/ /\ p = "appended" /\ q = "published"
            /\ w = [staged[c] EXCEPT !.outbox = {Event(c)}]
  PROVE  IInv'
  <1> USE DEF IInv, Goto, Stage, tables
  <1>1. TypeOK'
    BY StageTypeOK
  <1>2. phase' = [phase EXCEPT ![c] = q] /\ phase \in [Calls -> Phases]
    BY DEF TypeOK
  <1>3. LockExcludes' /\ TargetByPhase' /\ AbsenceHolds'
    BY <1>2 DEF LockExcludes, InTransaction, TargetByPhase, AbsenceHolds, KeyTaken
  <1>4. StagedByPhase'
    <2>1. staged \in [Calls -> Writes] /\ staged' = [staged EXCEPT ![c] = w]
      BY DEF TypeOK
    <2>2. \A d \in Calls : Row(d)' = Row(d) /\ Event(d)' = Event(d)
      BY DEF Row, Event
    <2> SUFFICES ASSUME NEW d \in Calls
                 PROVE  /\ staged'[d].episodes =
                             IF phase'[d] \in {"inserted", "appended", "published"}
                             THEN {Row(d)} ELSE {}
                        /\ staged'[d].idempotency =
                             IF phase'[d] \in {"appended", "published"}
                             THEN {Row(d)} ELSE {}
                        /\ staged'[d].outbox =
                             IF phase'[d] = "published" THEN {Event(d)} ELSE {}
      BY <2>2 DEF StagedByPhase
    <2>3. CASE d # c
      BY <1>2, <2>1, <2>3 DEF StagedByPhase
    <2>4. CASE d = c
      <3>1. staged[c] \in Writes /\ staged'[c] = w /\ phase'[c] = q
        BY <1>2, <2>1
      <3>2. /\ staged[c].episodes =
                 IF p \in {"inserted", "appended", "published"} THEN {Row(c)} ELSE {}
            /\ staged[c].idempotency =
                 IF p \in {"appended", "published"} THEN {Row(c)} ELSE {}
            /\ staged[c].outbox = IF p = "published" THEN {Event(c)} ELSE {}
        BY DEF StagedByPhase
      <3> QED BY <2>4, <3>1, <3>2 DEF Writes
    <2> QED BY <2>3, <2>4
  <1>5. RowsOfPastCalls'
    BY <1>2 DEF RowsOfPastCalls, Row, TypeOK, Rows
  <1>6. AnswersBacked'
    BY <1>2 DEF AnswersBacked, Acknowledged, Ended
  <1>7. \A d \in Calls : phase'[d] # "violated"
    BY <1>2
  <1> QED BY <1>1, <1>3, <1>4, <1>5, <1>6, <1>7, TablesUnchanged

LEMMA InsertEpisodeIInv ==
  ASSUME IInv, NEW c \in Calls, InsertEpisode(c)
  PROVE  IInv'
  <1>1. ~KeyTaken(c, episodes)
    BY DEF IInv, InsertEpisode, AbsenceHolds, RowsTogether
  <1> QED BY <1>1, WritesTyped, StageIInv
          DEF IInv, InsertEpisode, Phases, InTransaction

LEMMA InsertIdempotencyRowIInv ==
  ASSUME IInv, NEW c \in Calls, InsertIdempotencyRow(c)
  PROVE  IInv'
  <1>1. ~KeyTaken(c, idempotency)
    BY DEF IInv, InsertIdempotencyRow, AbsenceHolds
  <1> QED BY <1>1, WritesTyped, StageIInv
          DEF IInv, InsertIdempotencyRow, Phases, InTransaction

LEMMA PublishIInv ==
  ASSUME IInv, NEW c \in Calls, Publish(c)
  PROVE  IInv'
  <1>1. Row(c) \in staged[c].episodes
    BY DEF IInv, Publish, StagedByPhase
  <1>2. \E row \in episodes \cup staged[c].episodes :
           row.id = c /\ row.request.tenant = asked[c].tenant
    BY <1>1 DEF Row
  <1> QED BY <1>2, WritesTyped, StageIInv
          DEF IInv, Publish, Phases, InTransaction

\* The commit of a call that created its episode.
LEMMA CommitCreatedIInv ==
  ASSUME IInv, NEW c \in Calls, Commit(c), phase[c] = "published"
  PROVE  IInv'
  <1> USE DEF IInv
  <1>1. TypeOK'
    BY NextTypeOK DEF Next, Step
  <1>2. /\ episodes' = episodes \cup {Row(c)}
        /\ idempotency' = idempotency \cup {Row(c)}
        /\ outbox' = outbox \cup {Event(c)}
        /\ UNCHANGED <<asked, target, answer>>
    BY DEF Commit, StagedByPhase
  <1>3. /\ phase' = [phase EXCEPT ![c] = "committed"]
        /\ phase \in [Calls -> Phases]
        /\ staged' = [staged EXCEPT ![c] = NothingStaged]
        /\ staged \in [Calls -> Writes]
    BY DEF Commit, Goto, Stage, TypeOK
  <1>4. Row(c).id = c /\ Row(c).request = asked[c]
    BY DEF Row
  <1>5. \A row \in idempotency : ~SameKey(row.request, asked[c])
    BY DEF AbsenceHolds, KeyTaken
  <1>6. RowsTogether'
    <2>1. Event(c) = [aggregate |-> Row(c).id, tenant |-> Row(c).request.tenant]
      BY DEF Event, Row
    <2> QED BY <1>2, <2>1 DEF RowsTogether
  <1>7. OneEpisodePerKey'
    BY <1>2, <1>4, <1>5 DEF OneEpisodePerKey, RowsTogether, SameKey, Ledger!SameKey
  <1>8. LockExcludes'
    BY <1>2, <1>3 DEF LockExcludes, InTransaction
  <1>9. StagedByPhase'
    BY <1>2, <1>3 DEF StagedByPhase, NothingStaged, Row, Event
  <1>10. RowsOfPastCalls'
    BY <1>2, <1>3, <1>4 DEF RowsOfPastCalls, Row, TypeOK, Rows
  <1>11. AbsenceHolds'
    <2> SUFFICES ASSUME NEW d \in Calls,
                        phase'[d] \in {"absent", "inserted", "appended", "published"}
                 PROVE  ~KeyTaken(d, idempotency)'
      BY DEF AbsenceHolds
    <2>1. d # c /\ phase[d] = phase'[d]
      BY <1>3
    <2>2. ~SameKey(asked[c], asked[d])
      BY <2>1 DEF LockExcludes, InTransaction
    <2> QED BY <1>2, <1>4, <2>1, <2>2 DEF AbsenceHolds, KeyTaken
  <1>12. TargetByPhase'
    BY <1>2, <1>3, <1>4 DEF TargetByPhase
  <1>13. AnswersBacked'
    BY <1>2, <1>3 DEF AnswersBacked, Acknowledged, Ended
  <1>14. \A d \in Calls : phase'[d] # "violated"
    BY <1>3
  <1> QED BY <1>1, <1>6, <1>7, <1>8, <1>9, <1>10, <1>11, <1>12, <1>13, <1>14

\* The commit of a call that replays: nothing is written.
LEMMA CommitReplayedIInv ==
  ASSUME IInv, NEW c \in Calls, Commit(c), phase[c] = "replaying"
  PROVE  IInv'
  <1> USE DEF IInv
  <1>1. TypeOK'
    BY NextTypeOK DEF Next, Step
  <1>2. UNCHANGED <<asked, target, episodes, idempotency, outbox, answer>>
    BY DEF Commit, StagedByPhase
  <1>3. /\ phase' = [phase EXCEPT ![c] = "committed"]
        /\ phase \in [Calls -> Phases]
        /\ staged' = [staged EXCEPT ![c] = NothingStaged]
        /\ staged \in [Calls -> Writes]
    BY DEF Commit, Goto, Stage, TypeOK
  <1>4. LockExcludes' /\ AbsenceHolds' /\ TargetByPhase'
    BY <1>2, <1>3 DEF LockExcludes, InTransaction, AbsenceHolds, KeyTaken, TargetByPhase
  <1>5. StagedByPhase'
    BY <1>2, <1>3 DEF StagedByPhase, NothingStaged, Row, Event
  <1>6. RowsOfPastCalls'
    BY <1>2, <1>3 DEF RowsOfPastCalls, Row, TypeOK, Rows
  <1>7. AnswersBacked'
    BY <1>2, <1>3 DEF AnswersBacked, Acknowledged, Ended
  <1>8. \A d \in Calls : phase'[d] # "violated"
    BY <1>3
  <1> QED BY <1>1, <1>2, <1>4, <1>5, <1>6, <1>7, <1>8, TablesUnchanged DEF tables

LEMMA ReturnIInv ==
  ASSUME IInv, NEW c \in Calls, Return(c)
  PROVE  IInv'
  <1> USE DEF IInv, Return, Goto, tables
  <1>1. TypeOK'
    BY NextTypeOK DEF Next, Step
  <1>2. phase' = [phase EXCEPT ![c] = "ended"] /\ phase \in [Calls -> Phases]
    BY DEF TypeOK
  <1>3. LockExcludes' /\ AbsenceHolds' /\ TargetByPhase'
    BY <1>2 DEF LockExcludes, InTransaction, AbsenceHolds, KeyTaken, TargetByPhase
  <1>4. StagedByPhase'
    BY <1>2 DEF StagedByPhase, Row, Event
  <1>5. RowsOfPastCalls'
    BY <1>2 DEF RowsOfPastCalls, Row, TypeOK, Rows
  <1>6. AnswersBacked'
    <2>1. \E row \in idempotency : row.id = target[c] /\ row.request = asked[c]
      BY DEF TargetByPhase
    <2>2. /\ answer'[c].id = target[c]
          /\ answer'[c].kind = IF target[c] = c THEN "created" ELSE "replayed"
          /\ \A d \in Calls \ {c} : answer'[d] = answer[d]
      BY DEF TypeOK, Reply, Ledger!Reply
    <2> QED BY <1>2, <2>1, <2>2 DEF AnswersBacked, Acknowledged, Ended
  <1>7. \A d \in Calls : phase'[d] # "violated"
    BY <1>2
  <1> QED BY <1>1, <1>3, <1>4, <1>5, <1>6, <1>7, TablesUnchanged

LEMMA StutterIInv == IInv /\ UNCHANGED vars => IInv'
  <1> SUFFICES ASSUME IInv, UNCHANGED vars PROVE IInv'
    OBVIOUS
  <1> USE DEF IInv, vars, tables
  <1>1. TypeOK'
    BY NextTypeOK
  <1>2. LockExcludes' /\ AbsenceHolds' /\ TargetByPhase' /\ RowsOfPastCalls'
    BY DEF LockExcludes, AbsenceHolds, KeyTaken, TargetByPhase, RowsOfPastCalls, Row
  <1>3. StagedByPhase' /\ AnswersBacked'
    BY DEF StagedByPhase, Row, Event, AnswersBacked, Acknowledged
  <1> QED BY <1>1, <1>2, <1>3, TablesUnchanged

LEMMA NextIInv == IInv /\ [Next]_vars => IInv'
  <1> SUFFICES ASSUME IInv, Next PROVE IInv'
    BY StutterIInv
  <1>1. PICK c \in Calls : Step(c) \/ Interrupt(c)
    BY DEF Next
  <1>2. CASE DenyAuthorization(c)
    BY <1>2, AbortIInv DEF DenyAuthorization, Ended
  <1>3. CASE Interrupt(c)
    BY <1>3, AbortIInv DEF Interrupt, Ended, InTransaction
  <1>4. CASE Commit(c)
    BY <1>4, CommitCreatedIInv, CommitReplayedIInv DEF Commit
  <1> QED
    BY <1>1, <1>2, <1>3, <1>4, AuthorizeIInv, AcquireLockIInv,
       FindIdempotencyRowIInv, FindNoIdempotencyRowIInv, InsertEpisodeIInv,
       InsertIdempotencyRowIInv, PublishIInv, ReturnIInv DEF Step

\* The inductive invariant holds in every reachable state.
THEOREM Invariance == Spec => []IInv
  BY InitIInv, NextIInv, PTL DEF Spec

-----------------------------------------------------------------------------
(* What callers and readers of the tables rely on.                         *)

\* Episode, idempotency row and episode-recorded event are committed together
\* or not at all, and no key of a tenant has two episodes, whatever crashes,
\* retries and overlaps.
THEOREM AtomicRecording == Spec => [](RowsTogether /\ OneEpisodePerKey)
  <1>1. IInv => RowsTogether /\ OneEpisodePerKey
    BY DEF IInv
  <1> QED BY <1>1, Invariance, PTL

\* Calls that repeat a key are answered with one id, created by at most one.
THEOREM AgreedAnswers == Spec => []AnswersAgree
  <1>1. IInv => AnswersAgree
    <2> SUFFICES ASSUME IInv, NEW c \in Calls, NEW d \in Calls,
                        Ledger!SameKey(asked[c], asked[d]),
                        Acknowledged(c), Acknowledged(d)
                 PROVE  /\ answer[c].id = answer[d].id
                        /\ answer[c].kind = "created" /\ answer[d].kind = "created"
                             => c = d
      BY DEF AnswersAgree
    <2>1. PICK r \in idempotency : r.id = answer[c].id /\ r.request = asked[c]
      BY DEF IInv, AnswersBacked
    <2>2. PICK s \in idempotency : s.id = answer[d].id /\ s.request = asked[d]
      BY DEF IInv, AnswersBacked
    <2>3. r = s
      BY <2>1, <2>2 DEF IInv, OneEpisodePerKey, RowsTogether
    <2> QED BY <2>1, <2>2, <2>3 DEF IInv, AnswersBacked
  <1> QED BY <1>1, Invariance, PTL

\* No call runs into a unique index: the advisory lock always comes first.
THEOREM NoIntegrityErrors == Spec => []NoIntegrityError
  <1>1. IInv => NoIntegrityError
    BY DEF IInv, NoIntegrityError, AbsenceHolds
  <1> QED BY <1>1, Invariance, PTL

-----------------------------------------------------------------------------
(* EpisodeIngest implements EpisodeLedger.                                 *)

\* The steps that change neither an answer nor a committed row stutter.
LEMMA QuietStep ==
  ASSUME UNCHANGED <<asked, idempotency, outbox, answer>>
  PROVE  UNCHANGED Ledger!ledgerVars
  BY DEF Ledger!ledgerVars

\* A call that ends without a commit of its own fails or is refused.
LEMMA AbortRefines ==
  ASSUME IInv, NEW c \in Calls, phase[c] \notin Ended,
         NEW kind \in {"failed", "conflict"}, Abort(c, "ended", kind),
         kind = "conflict" =>
           \E row \in idempotency :
             SameKey(row.request, asked[c]) /\ row.request # asked[c]
  PROVE  Ledger!Next
  <1>1. answer[c].kind = "pending"
    BY DEF IInv, AnswersBacked
  <1>2. Ledger!AnswerFailed(c) \/ Ledger!AnswerConflict(c)
    BY DEF Abort, Reply, Ledger!AnswerFailed, Ledger!AnswerConflict,
           SameKey, Ledger!SameKey
  <1>3. Ledger!Answer(c)
    BY <1>1, <1>2 DEF Ledger!Answer, Abort, tables
  <1> QED BY <1>3 DEF Ledger!Next

LEMMA FindRefines ==
  ASSUME IInv, NEW c \in Calls, FindIdempotencyRow(c)
  PROVE  Ledger!Next \/ UNCHANGED Ledger!ledgerVars
  <1>1. PICK row \in idempotency : SameKey(row.request, asked[c]) /\ Resolve(c, row)
    BY DEF FindIdempotencyRow
  <1>2. CASE row.request = asked[c]
    BY <1>1, <1>2, QuietStep DEF Resolve, tables
  <1>3. CASE row.request # asked[c]
    BY <1>1, <1>3, AbortRefines DEF Resolve, FindIdempotencyRow, Ended
  <1> QED BY <1>2, <1>3

\* The commit that publishes is the moment of acceptance.
LEMMA CommitRefines ==
  ASSUME IInv, NEW c \in Calls, Commit(c)
  PROVE  Ledger!Next \/ UNCHANGED Ledger!ledgerVars
  <1>1. CASE phase[c] = "replaying"
    BY <1>1, QuietStep DEF Commit, IInv, StagedByPhase
  <1>2. CASE phase[c] = "published"
    <2>1. /\ idempotency' = idempotency \cup {Row(c)}
          /\ outbox' = outbox \cup {Event(c)}
          /\ UNCHANGED <<asked, answer>>
      BY <1>2 DEF Commit, IInv, StagedByPhase
    <2>2. answer[c].kind = "pending"
      BY <1>2 DEF IInv, AnswersBacked, Ended
    <2>3. \A e \in idempotency : ~Ledger!SameKey(e.request, asked[c])
      BY <1>2 DEF IInv, AbsenceHolds, KeyTaken, SameKey, Ledger!SameKey
    <2>4. {e.aggregate : e \in outbox'} = {e.aggregate : e \in outbox} \cup {c}
      <3>1. Event(c).aggregate = c
        BY DEF Event
      <3>2. \A e : e \in outbox' <=> e \in outbox \/ e = Event(c)
        BY <2>1
      <3> QED BY <3>1, <3>2, Zenon
    <2>5. Ledger!Accept(c)
      BY <2>1, <2>2, <2>3, <2>4 DEF Ledger!Accept, Ledger!Entry, Row
    <2> QED BY <2>5 DEF Ledger!Next
  <1> QED BY <1>1, <1>2 DEF Commit

LEMMA ReturnRefines ==
  ASSUME IInv, NEW c \in Calls, Return(c)
  PROVE  Ledger!Next
  <1>1. PICK row \in idempotency : row.id = target[c] /\ row.request = asked[c]
    BY DEF IInv, TargetByPhase, Return
  <1>2. answer[c].kind = "pending"
    BY DEF IInv, AnswersBacked, Return, Ended
  <1>3. CASE target[c] = c
    <2>1. Ledger!Entry(c, asked[c]) \in idempotency
      BY <1>1, <1>3 DEF IInv, RowsOfPastCalls, Row, Ledger!Entry
    <2>2. Ledger!AnswerCreated(c)
      BY <1>3, <2>1 DEF Return, Reply, Ledger!AnswerCreated
    <2> QED BY <1>2, <2>2 DEF Return, tables, Ledger!Answer, Ledger!Next
  <1>4. CASE target[c] # c
    <2>1. Ledger!AnswerReplayed(c)
      BY <1>1, <1>4 DEF Return, Reply, Ledger!AnswerReplayed
    <2> QED BY <1>2, <2>1 DEF Return, tables, Ledger!Answer, Ledger!Next
  <1> QED BY <1>3, <1>4

LEMMA StepRefines ==
  ASSUME IInv, [Next]_vars
  PROVE  [Ledger!Next]_(Ledger!ledgerVars)
  <1>1. CASE UNCHANGED vars
    BY <1>1, QuietStep DEF vars, tables
  <1>2. ASSUME NEW c \in Calls, Step(c) \/ Interrupt(c)
        PROVE  Ledger!Next \/ UNCHANGED Ledger!ledgerVars
    <2>1. CASE Authorize(c) \/ AcquireLock(c) \/ FindNoIdempotencyRow(c)
      BY <2>1, QuietStep DEF Authorize, AcquireLock, FindNoIdempotencyRow, tables
    <2>2. CASE DenyAuthorization(c)
      BY <2>2, AbortRefines DEF DenyAuthorization, Ended
    <2>3. CASE Interrupt(c)
      BY <2>3, AbortRefines DEF Interrupt, Ended, InTransaction
    <2>4. CASE InsertEpisode(c)
      <3>1. ~KeyTaken(c, episodes)
        BY <2>4 DEF IInv, InsertEpisode, AbsenceHolds, RowsTogether
      <3> QED BY <2>4, <3>1, QuietStep DEF InsertEpisode, tables
    <2>5. CASE InsertIdempotencyRow(c)
      <3>1. ~KeyTaken(c, idempotency)
        BY <2>5 DEF IInv, InsertIdempotencyRow, AbsenceHolds
      <3> QED BY <2>5, <3>1, QuietStep DEF InsertIdempotencyRow, tables
    <2>6. CASE Publish(c)
      <3>1. Row(c) \in staged[c].episodes
        BY <2>6 DEF IInv, Publish, StagedByPhase
      <3>2. \E row \in episodes \cup staged[c].episodes :
               row.id = c /\ row.request.tenant = asked[c].tenant
        BY <3>1 DEF Row
      <3> QED BY <2>6, <3>2, QuietStep DEF Publish, tables
    <2> QED BY <1>2, <2>1, <2>2, <2>3, <2>4, <2>5, <2>6, FindRefines,
               CommitRefines, ReturnRefines DEF Step
  <1> QED BY <1>1, <1>2 DEF Next

\* Concurrent transactions under crashes and retries implement the ledger that
\* accepts and announces an episode in one instant.
THEOREM ImplementsLedger == Spec => LedgerSpec
  <1>1. Init => Ledger!Init
    BY DEF Init, Ledger!Init, Requests, Reply
  <1> QED
    BY <1>1, StepRefines, Invariance, PTL DEF Spec, LedgerSpec, Ledger!Spec

-----------------------------------------------------------------------------
(* What the ledger means for those who were refused, and for the tables.   *)

\* A conflict was met with a committed episode of other content.
ConflictsBacked ==
  \A c \in Calls : answer[c].kind = "conflict" =>
    \E row \in idempotency :
      Ledger!SameKey(row.request, asked[c]) /\ row.request # asked[c]

\* One request owns a key: all who were acknowledged have sent it, and nobody
\* who met a conflict has.
OneRequestPerKey ==
  \A c, d \in Calls :
    /\ Ledger!SameKey(asked[c], asked[d])
    /\ Acknowledged(c)
    => /\ Acknowledged(d) => asked[d] = asked[c]
       /\ answer[d].kind = "conflict" => asked[d] # asked[c]

\* No row and no event of an episode is ever taken back.
NothingRetracted ==
  /\ episodes \subseteq episodes' /\ idempotency \subseteq idempotency'
  /\ outbox \subseteq outbox'

LEMMA LedgerGrows ==
  ASSUME [Ledger!Next]_(Ledger!ledgerVars)
  PROVE  idempotency \subseteq idempotency' /\ asked' = asked
  BY DEF Ledger!ledgerVars, Ledger!Next, Ledger!Accept, Ledger!Answer

LEMMA ConflictsBackedStep ==
  ASSUME TypeOK, ConflictsBacked, [Ledger!Next]_(Ledger!ledgerVars)
  PROVE  ConflictsBacked'
  <1>1. idempotency \subseteq idempotency' /\ asked' = asked
    BY LedgerGrows
  <1>2. CASE answer' = answer
    BY <1>1, <1>2 DEF ConflictsBacked, Ledger!SameKey
  <1>3. ASSUME NEW c \in Calls, Ledger!Answer(c)
        PROVE  ConflictsBacked'
    <2>1. \A d \in Calls \ {c} : answer'[d] = answer[d]
      BY <1>3 DEF TypeOK, Ledger!Answer, Ledger!AnswerCreated, Ledger!AnswerReplayed,
                  Ledger!AnswerConflict, Ledger!AnswerFailed
    <2>2. answer'[c].kind = "conflict" =>
            \E row \in idempotency :
              Ledger!SameKey(row.request, asked[c]) /\ row.request # asked[c]
      BY <1>3 DEF TypeOK, Ledger!Answer, Ledger!AnswerCreated, Ledger!AnswerReplayed,
                  Ledger!AnswerConflict, Ledger!AnswerFailed, Ledger!Reply
    <2> QED BY <1>1, <2>1, <2>2 DEF ConflictsBacked, Ledger!SameKey
  <1> QED BY <1>2, <1>3 DEF Ledger!ledgerVars, Ledger!Next, Ledger!Accept

LEMMA ConflictsBackedAlways == Spec => []ConflictsBacked
  <1>1. Init => ConflictsBacked
    BY DEF Init, ConflictsBacked, Reply, Ledger!Reply
  <1>2. IInv /\ ConflictsBacked /\ [Next]_vars => ConflictsBacked'
    BY StepRefines, ConflictsBackedStep DEF IInv
  <1> QED BY <1>1, <1>2, Invariance, PTL DEF Spec

\* Of all requests that share a tenant and a key, whichever transactions they
\* ran in, those that are acknowledged have the same episode-defining fields,
\* and a conflict is met only by a request whose fields differ from those of an
\* episode that is committed.
THEOREM KeysHaveOneRequest == Spec => [](ConflictsBacked /\ OneRequestPerKey)
  <1>1. IInv /\ ConflictsBacked => OneRequestPerKey
    <2> SUFFICES ASSUME IInv, ConflictsBacked, NEW c \in Calls, NEW d \in Calls,
                        Ledger!SameKey(asked[c], asked[d]), Acknowledged(c)
                 PROVE  /\ Acknowledged(d) => asked[d] = asked[c]
                        /\ answer[d].kind = "conflict" => asked[d] # asked[c]
      BY DEF OneRequestPerKey
    <2>1. PICK r \in idempotency : r.request = asked[c]
      BY DEF IInv, AnswersBacked
    <2>2. \A s \in idempotency : Ledger!SameKey(s.request, asked[d]) => s = r
      BY <2>1 DEF IInv, OneEpisodePerKey, RowsTogether, Ledger!SameKey
    <2>3. ASSUME Acknowledged(d)  PROVE asked[d] = asked[c]
      <3>1. PICK s \in idempotency : s.request = asked[d]
        BY <2>3 DEF IInv, AnswersBacked
      <3> QED BY <2>1, <2>2, <3>1 DEF Ledger!SameKey
    <2>4. ASSUME answer[d].kind = "conflict"  PROVE asked[d] # asked[c]
      <3>1. PICK s \in idempotency :
              Ledger!SameKey(s.request, asked[d]) /\ s.request # asked[d]
        BY <2>4 DEF ConflictsBacked
      <3> QED BY <2>1, <2>2, <3>1
    <2> QED BY <2>3, <2>4
  <1> QED BY <1>1, Invariance, ConflictsBackedAlways, PTL

\* A committed episode stays, with its idempotency row and its event, and is not
\* replaced: a rollback gives up what its own transaction has written only.
THEOREM EpisodesStay == Spec => [][NothingRetracted]_vars
  <1>1. IInv /\ IInv' /\ [Next]_vars => [NothingRetracted]_vars
    <2> SUFFICES ASSUME IInv, IInv', [Next]_vars  PROVE NothingRetracted
      OBVIOUS
    <2>1. idempotency \subseteq idempotency'
      BY StepRefines, LedgerGrows
    <2>2. episodes = idempotency /\ episodes' = idempotency'
      BY DEF IInv, RowsTogether
    <2>3. outbox \subseteq outbox'
      BY <2>1, <2>2 DEF IInv, RowsTogether
    <2> QED BY <2>1, <2>2, <2>3 DEF NothingRetracted
  <1> QED BY <1>1, Invariance, PTL DEF Spec

=============================================================================
