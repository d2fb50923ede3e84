------------------------- MODULE MemoryPipelineProofs -------------------------
(***************************************************************************)
(* Theorems about MemoryPipeline and their proofs.                         *)
(*                                                                         *)
(* PipelineInv is inductive with any number of relays and any faults.      *)
(* InboxMeansProcessed is inductive relative to it when no relay is        *)
(* interrupted, ExtractionInv when there is but one relay besides, and     *)
(* FaultFreeInv with any number of relays until something fails.           *)
(***************************************************************************)
EXTENDS MemoryPipeline, TLAPS

-----------------------------------------------------------------------------
(* Which steps touch which tables.                                         *)

\* The only ways claims and outbox change.
LEMMA TableSteps ==
  ASSUME Next
  PROVE  \/ UNCHANGED <<outbox, claims>>
         \/ \E e \in Episodes : RecordEpisode(e)
         \/ \E r \in Relays : \E e \in todo[r] :
              Extract(e) /\ Current(r, e) /\ stage[r] = "process"
<1>1. ASSUME NEW r \in Relays, RelayStep(r) \/ FaultStep(r)
      PROVE  \/ UNCHANGED <<outbox, claims>>
             \/ \E e \in todo[r] :
                  Extract(e) /\ Current(r, e) /\ stage[r] = "process"
  <2>1. CASE Process(r)  BY <2>1 DEF Process
  <2>2. CASE ProcessFails(r)  BY <2>2 DEF ProcessFails
  <2>3. CASE StartRelay(r) \/ CallFails(r) \/ Interrupted(r)
    BY <2>3 DEF StartRelay, CallFails, Interrupted, stores
  <2>4. CASE Fetch(r) \/ SkipInbox(r)
    BY <2>4 DEF Fetch, SkipInbox, stores
  <2>5. CASE TryRecord(r) \/ Deliver(r) \/ MarkPublished(r) \/ RemoveRecord(r)
    BY <2>5 DEF TryRecord, Deliver, MarkPublished, RemoveRecord
  <2> QED  BY <1>1, <2>1, <2>2, <2>3, <2>4, <2>5 DEF RelayStep, FaultStep
<1> QED  BY <1>1 DEF Next

\* Extract adds one claim and its announcement under a fresh id, or nothing.
LEMMA ExtractEffect ==
  ASSUME NEW e \in Rows, Extract(e)
  PROVE  \/ UNCHANGED <<outbox, claims>> /\ Claimed(e.episode)
         \/ /\ \A c \in claims : c.episode # e.episode
            /\ \E i \in FreshIds :
                 /\ claims' = claims \cup {[id |-> i, episode |-> e.episode]}
                 /\ outbox' = outbox \cup {Propose(e, i)}
  BY DEF Extract, Claimed

-----------------------------------------------------------------------------
(* Types.                                                                  *)

LEMMA TypeInit == Init => TypeOK
  BY FaultAssumption DEF Init, TypeOK, Stages

LEMMA TableTypes ==
  ASSUME TypeOK, Next
  PROVE  outbox' \subseteq Rows /\ claims' \subseteq Claims
<1>1. CASE UNCHANGED <<outbox, claims>>  BY <1>1 DEF TypeOK
<1>2. CASE \E e \in Episodes : RecordEpisode(e)
  BY <1>2 DEF RecordEpisode, TypeOK, FreshIds, Rows
<1>3. ASSUME NEW r \in Relays, NEW e \in todo[r], Extract(e)
      PROVE  outbox' \subseteq Rows /\ claims' \subseteq Claims
  <2>1. e \in Rows  BY <1>3 DEF TypeOK
  <2> QED  BY <1>3, <2>1, ExtractEffect DEF TypeOK, FreshIds, Propose, Rows, Claims
<1> QED  BY <1>1, <1>2, <1>3, TableSteps

LEMMA RelayTypes ==
  ASSUME TypeOK, NEW r \in Relays, RelayStep(r) \/ FaultStep(r)
  PROVE  /\ stage' \in [Relays -> Stages]
         /\ batch' \in [Relays -> SUBSET Rows]
         /\ todo' \in [Relays -> SUBSET Rows]
         /\ published' \subseteq Ids
         /\ inbox' \subseteq Ids
         /\ delivered' \subseteq Ids
         /\ faults' \in 0..MaxFaults
         /\ enabled' = enabled
<1> USE DEF TypeOK, Stages, Goto, stores
<1>1. CASE StartRelay(r)  BY <1>1 DEF StartRelay
<1>2. CASE Fetch(r)  BY <1>2 DEF Fetch, Oldest, Unpublished
<1>3. CASE SkipInbox(r)  BY <1>3 DEF SkipInbox
<1>4. CASE TryRecord(r)  BY <1>4 DEF TryRecord, Rows
<1>5. CASE Process(r)  BY <1>5 DEF Process
<1>6. CASE Deliver(r)  BY <1>6 DEF Deliver, Rows
<1>7. CASE MarkPublished(r)  BY <1>7 DEF MarkPublished, Rows
<1>8. CASE RemoveRecord(r)  BY <1>8 DEF RemoveRecord, Halt
<1>9. CASE ProcessFails(r)  BY <1>9, FaultAssumption DEF ProcessFails, Fault
<1>10. CASE CallFails(r)  BY <1>10, FaultAssumption DEF CallFails, Fault, Halt
<1>11. CASE Interrupted(r)  BY <1>11, FaultAssumption DEF Interrupted, Fault, Halt
<1> QED
  BY <1>1, <1>2, <1>3, <1>4, <1>5, <1>6, <1>7, <1>8, <1>9, <1>10, <1>11
  DEF RelayStep, FaultStep

LEMMA TypeStep == TypeOK /\ [Next]_vars => TypeOK'
<1> SUFFICES ASSUME TypeOK, [Next]_vars  PROVE TypeOK'  OBVIOUS
<1>1. CASE UNCHANGED vars  BY <1>1 DEF vars, TypeOK
<1>2. CASE Next
  <2>1. outbox' \subseteq Rows /\ claims' \subseteq Claims  BY <1>2, TableTypes
  <2>2. CASE \E e \in Episodes : RecordEpisode(e)
    BY <2>1, <2>2 DEF RecordEpisode, TypeOK
  <2>3. CASE \E r \in Relays : RelayStep(r) \/ FaultStep(r)
    BY <2>1, <2>3, RelayTypes DEF TypeOK
  <2> QED  BY <1>2, <2>2, <2>3 DEF Next
<1> QED  BY <1>1, <1>2

\* The tables and the relays' variables keep their types.
THEOREM TypeCorrect == Spec => []TypeOK
  BY TypeInit, TypeStep, PTL DEF Spec

-----------------------------------------------------------------------------
(* Rows of the outbox, the claims, and what the relays hold of them.       *)

LEMMA OutboxGrows == ASSUME Next PROVE outbox \subseteq outbox'
<1>1. CASE \E e \in Episodes : RecordEpisode(e)  BY <1>1 DEF RecordEpisode
<1>2. ASSUME NEW e, Extract(e)  PROVE outbox \subseteq outbox'  BY <1>2 DEF Extract
<1> QED  BY <1>1, <1>2, TableSteps

LEMMA ClaimsGrow == ASSUME Next PROVE claims \subseteq claims'
<1>1. CASE \E e \in Episodes : RecordEpisode(e)  BY <1>1 DEF RecordEpisode
<1>2. ASSUME NEW e, Extract(e)  PROVE claims \subseteq claims'  BY <1>2 DEF Extract
<1> QED  BY <1>1, <1>2, TableSteps

LEMMA UniqueIdsStep ==
  ASSUME TypeOK, UniqueIds, Next
  PROVE  UniqueIds'
<1>1. ASSUME NEW row, row.id \in FreshIds, outbox' = outbox \cup {row}
      PROVE  UniqueIds'
  BY <1>1 DEF UniqueIds, FreshIds
<1>2. CASE UNCHANGED <<outbox, claims>>  BY <1>2 DEF UniqueIds
<1>3. CASE \E e \in Episodes : RecordEpisode(e)
  <2>1. PICK e \in Episodes : RecordEpisode(e)  BY <1>3
  <2>2. PICK i \in FreshIds, t \in Times :
          outbox' = outbox \cup {[id |-> i, kind |-> "recorded", episode |-> e, at |-> t]}
    BY <2>1 DEF RecordEpisode
  <2> QED  BY <1>1, <2>2
<1>4. ASSUME NEW r \in Relays, NEW e \in todo[r], Extract(e)  PROVE UniqueIds'
  <2>1. CASE UNCHANGED <<outbox, claims>>  BY <2>1 DEF UniqueIds
  <2>2. CASE \E i \in FreshIds : outbox' = outbox \cup {Propose(e, i)}
    BY <1>1, <2>2 DEF Propose
  <2> QED  BY <1>4, <2>1, <2>2 DEF Extract
<1> QED  BY <1>2, <1>3, <1>4, TableSteps

LEMMA OneProposalStep ==
  ASSUME TypeOK, OneProposalPerEpisode, Next
  PROVE  OneProposalPerEpisode'
<1>1. CASE UNCHANGED <<outbox, claims>>
  BY <1>1 DEF OneProposalPerEpisode, Announces
<1>2. CASE \E e \in Episodes : RecordEpisode(e)
  <2>1. claims' = claims  BY <1>2 DEF RecordEpisode
  <2>2. \E row : row.kind = "recorded" /\ outbox' = outbox \cup {row}
    BY <1>2 DEF RecordEpisode
  <2> QED  BY <2>1, <2>2 DEF OneProposalPerEpisode, Announces
<1>3. ASSUME NEW r \in Relays, NEW e \in todo[r], Extract(e)
      PROVE  OneProposalPerEpisode'
  <2>1. e \in Rows  BY DEF TypeOK
  <2>2. CASE UNCHANGED <<outbox, claims>>
    BY <2>2 DEF OneProposalPerEpisode, Announces
  <2>3. ASSUME \A c \in claims : c.episode # e.episode,
               NEW i \in FreshIds,
               claims' = claims \cup {[id |-> i, episode |-> e.episode]},
               outbox' = outbox \cup {Propose(e, i)}
        PROVE  OneProposalPerEpisode'
    <3> DEFINE new == [id |-> i, episode |-> e.episode]
    <3>1. Announces(Propose(e, i), new)  BY DEF Announces, Propose
    <3>2. \A c, d \in claims' : c.episode = d.episode => c = d
      BY <2>3 DEF OneProposalPerEpisode
    <3>3. \A c \in claims' : \E row \in outbox' : Announces(row, c)
      BY <2>3, <3>1 DEF OneProposalPerEpisode
    <3>4. \A row \in outbox' : row.kind = "proposed" => \E c \in claims' : Announces(row, c)
      BY <2>3, <3>1 DEF OneProposalPerEpisode
    <3> QED  BY <3>2, <3>3, <3>4 DEF OneProposalPerEpisode, Announces
  <2> QED  BY <1>3, <2>1, <2>2, <2>3, ExtractEffect
<1> QED  BY <1>1, <1>2, <1>3, TableSteps

\* Relays and the inbox only name rows that exist.
LEMMA BookkeepingStep ==
  ASSUME TypeOK, KnownIds, BatchesInOutbox, MarkAfterAll, Next
  PROVE  KnownIds' /\ BatchesInOutbox'
<1>0. outbox \subseteq outbox'  BY OutboxGrows
<1>1. CASE \E e \in Episodes : RecordEpisode(e)
  BY <1>0, <1>1 DEF RecordEpisode, KnownIds, BatchesInOutbox
<1>2. ASSUME NEW r \in Relays, RelayStep(r) \/ FaultStep(r)
      PROVE  KnownIds' /\ BatchesInOutbox'
  <2> USE <1>0 DEF KnownIds, BatchesInOutbox, TypeOK, stores
  <2>1. CASE StartRelay(r)  BY <2>1 DEF StartRelay
  <2>2. CASE Fetch(r)  BY <2>2 DEF Fetch, Oldest, Unpublished
  <2>3. CASE SkipInbox(r)  BY <2>3 DEF SkipInbox
  <2>4. CASE TryRecord(r)  BY <2>4 DEF TryRecord
  <2>5. CASE Process(r)  BY <2>5 DEF Process
  <2>6. CASE Deliver(r)  BY <2>6 DEF Deliver
  <2>7. CASE MarkPublished(r)  BY <2>7 DEF MarkPublished, MarkAfterAll
  <2>8. CASE RemoveRecord(r)  BY <2>8 DEF RemoveRecord, Halt
  <2>9. CASE ProcessFails(r)  BY <2>9 DEF ProcessFails
  <2>10. CASE CallFails(r) \/ Interrupted(r)
    BY <2>10 DEF CallFails, Interrupted, Halt
  <2> QED
    BY <1>2, <2>1, <2>2, <2>3, <2>4, <2>5, <2>6, <2>7, <2>8, <2>9, <2>10
    DEF RelayStep, FaultStep
<1> QED  BY <1>1, <1>2 DEF Next

\* A relay marks what it dispatched, and nothing else.
LEMMA DeliveryStep ==
  ASSUME TypeOK, BatchesInOutbox, DispatchedWasDelivered, MarkAfterAll,
         PublishedWasDelivered, Next
  PROVE  DispatchedWasDelivered' /\ MarkAfterAll' /\ PublishedWasDelivered'
<1> USE DEF DispatchedWasDelivered, MarkAfterAll, PublishedWasDelivered
<1>1. CASE \E e \in Episodes : RecordEpisode(e)  BY <1>1 DEF RecordEpisode
<1>2. ASSUME NEW r \in Relays, RelayStep(r) \/ FaultStep(r)
      PROVE  DispatchedWasDelivered' /\ MarkAfterAll' /\ PublishedWasDelivered'
  <2> USE DEF TypeOK, Goto, stores
  <2>1. CASE StartRelay(r)  BY <2>1 DEF StartRelay
  <2>2. CASE Fetch(r)  BY <2>2 DEF Fetch
  <2>3. CASE SkipInbox(r)  BY <2>3 DEF SkipInbox
  <2>4. CASE TryRecord(r)  BY <2>4 DEF TryRecord
  <2>5. CASE Process(r)  BY <2>5 DEF Process
  <2>6. CASE Deliver(r)  BY <2>6 DEF Deliver
  <2>7. CASE MarkPublished(r)  BY <2>7 DEF MarkPublished
  <2>8. CASE RemoveRecord(r)  BY <2>8 DEF RemoveRecord, Halt
  <2>9. CASE ProcessFails(r)  BY <2>9 DEF ProcessFails
  <2>10. CASE CallFails(r) \/ Interrupted(r)
    BY <2>10 DEF CallFails, Interrupted, Halt
  <2> QED
    BY <1>2, <2>1, <2>2, <2>3, <2>4, <2>5, <2>6, <2>7, <2>8, <2>9, <2>10
    DEF RelayStep, FaultStep
<1> QED  BY <1>1, <1>2 DEF Next

LEMMA PipelineInit == Init => PipelineInv
<1> SUFFICES ASSUME Init PROVE PipelineInv  OBVIOUS
<1>1. TypeOK  BY TypeInit
<1>2. UniqueIds /\ KnownIds /\ BatchesInOutbox /\ DispatchedWasDelivered /\ MarkAfterAll
  BY DEF Init, UniqueIds, KnownIds, BatchesInOutbox, DispatchedWasDelivered, MarkAfterAll
<1>3. OneProposalPerEpisode /\ PublishedWasDelivered
  BY DEF Init, OneProposalPerEpisode, PublishedWasDelivered
<1> QED  BY <1>1, <1>2, <1>3 DEF PipelineInv

LEMMA PipelineStep == PipelineInv /\ [Next]_vars => PipelineInv'
<1> SUFFICES ASSUME PipelineInv, [Next]_vars  PROVE PipelineInv'  OBVIOUS
<1>1. CASE UNCHANGED vars
  BY <1>1 DEF vars, PipelineInv, TypeOK, UniqueIds, KnownIds, BatchesInOutbox,
     DispatchedWasDelivered, MarkAfterAll, OneProposalPerEpisode, Announces,
     PublishedWasDelivered
<1>2. CASE Next
  BY <1>2, TypeStep, UniqueIdsStep, BookkeepingStep, DeliveryStep, OneProposalStep
  DEF PipelineInv
<1> QED  BY <1>1, <1>2

THEOREM PipelineInvariance == Spec => []PipelineInv
  BY PipelineInit, PipelineStep, PTL DEF Spec

\* Redelivery, lost acknowledgements and concurrent relays never make a second
\* claim for an episode, nor a second or a missing announcement.
THEOREM AtMostOneProposal == Spec => []OneProposalPerEpisode
<1>1. PipelineInv => OneProposalPerEpisode  BY DEF PipelineInv
<1> QED  BY <1>1, PipelineInvariance, PTL

\* published_at is only set on events that the delegate was given.
THEOREM AtLeastOnceDelivery == Spec => []PublishedWasDelivered
<1>1. PipelineInv => PublishedWasDelivered  BY DEF PipelineInv
<1> QED  BY <1>1, PipelineInvariance, PTL

-----------------------------------------------------------------------------
(* One relay, never interrupted: nothing is dropped.                       *)

OneRelay      == \A r, s \in Relays : r = s
Uninterrupted == "interrupt" \notin Faults

\* The event a relay is at is unique.
LEMMA CurrentUnique ==
  ASSUME TypeOK, UniqueIds, BatchesInOutbox,
         NEW r \in Relays, NEW e, NEW f, Current(r, e), Current(r, f)
  PROVE  e = f
<1>1. e \in outbox /\ f \in outbox  BY DEF Current, BatchesInOutbox
<1>2. Before(e, f) /\ Before(f, e)  BY DEF Current
<1>3. e.id \in Int /\ f.id \in Int /\ e.at \in Int /\ f.at \in Int
  BY <1>1, IdsAssumption DEF TypeOK, Rows
<1>4. e.id = f.id  BY <1>2, <1>3 DEF Before
<1> QED  BY <1>1, <1>4 DEF UniqueIds

\* Claims are never withdrawn.
LEMMA ClaimedStays ==
  ASSUME Next, NEW e, Claimed(e)
  PROVE  Claimed(e)'
  BY ClaimsGrow DEF Claimed

\* After an extraction, its episode has a claim.
LEMMA ExtractClaims ==
  ASSUME NEW e \in Rows, Extract(e)
  PROVE  Claimed(e.episode)'
<1>1. CASE UNCHANGED <<outbox, claims>> /\ Claimed(e.episode)  BY <1>1 DEF Claimed
<1>2. ASSUME NEW i, claims' = claims \cup {[id |-> i, episode |-> e.episode]}
      PROVE  Claimed(e.episode)'
  <2>1. [id |-> i, episode |-> e.episode] \in claims'  BY <1>2
  <2>2. [id |-> i, episode |-> e.episode].episode = e.episode  OBVIOUS
  <2> QED  BY <2>1, <2>2, Zenon DEF Claimed
<1> QED  BY <1>1, <1>2, ExtractEffect

\* A row that is new carries an id nothing has referred to yet.
LEMMA NewRow ==
  ASSUME TypeOK, KnownIds, Next, NEW row \in outbox' \ outbox
  PROVE  row.id \notin inbox /\ row.id \notin published
<1>1. row.id \in FreshIds => row.id \notin inbox /\ row.id \notin published
  BY DEF KnownIds, FreshIds
<1>2. CASE \E e \in Episodes : RecordEpisode(e)  BY <1>1, <1>2 DEF RecordEpisode
<1>3. ASSUME NEW r \in Relays, NEW e \in todo[r], Extract(e)
      PROVE  row.id \in FreshIds
  BY <1>3 DEF Extract, Propose
<1> QED  BY <1>1, <1>2, <1>3, TableSteps

\* A step of one relay leaves the others where they are.
LEMMA OthersStay ==
  ASSUME TypeOK, NEW s \in Relays, RelayStep(s) \/ FaultStep(s),
         NEW r \in Relays, r # s
  PROVE  stage'[r] = stage[r] /\ batch'[r] = batch[r] /\ todo'[r] = todo[r]
<1> USE DEF TypeOK, Goto, Halt
<1>1. CASE StartRelay(s) \/ Fetch(s) \/ SkipInbox(s) \/ TryRecord(s)
  BY <1>1 DEF StartRelay, Fetch, SkipInbox, TryRecord
<1>2. CASE Process(s) \/ Deliver(s) \/ MarkPublished(s) \/ RemoveRecord(s)
  BY <1>2 DEF Process, Deliver, MarkPublished, RemoveRecord
<1>3. CASE ProcessFails(s) \/ CallFails(s) \/ Interrupted(s)
  BY <1>3 DEF ProcessFails, CallFails, Interrupted
<1> QED  BY <1>1, <1>2, <1>3 DEF RelayStep, FaultStep

\* A relay that inserts an inbox row processes the event next.
LEMMA NewInboxRow ==
  ASSUME NEW s \in Relays, RelayStep(s) \/ FaultStep(s), NEW i, i \in inbox' \ inbox
  PROVE  \E e \in todo[s] :
           /\ Current(s, e) /\ e.id = i /\ UNCHANGED <<outbox, todo>>
           /\ Goto(s, "process")
<1>1. TryRecord(s)
  BY DEF RelayStep, FaultStep, StartRelay, Fetch, SkipInbox, Process, Deliver,
         MarkPublished, RemoveRecord, ProcessFails, CallFails, Interrupted, stores
<1>2. PICK e \in todo[s] : /\ Current(s, e)
                           /\ inbox' = inbox \cup {e.id}
                           /\ Goto(s, IF e.id \in inbox THEN "deliver" ELSE "process")
  BY <1>1 DEF TryRecord
<1> QED  BY <1>1, <1>2 DEF TryRecord

LEMMA ExtractionInit == Init => ExtractionInv
  BY DEF Init, ExtractionInv, InboxMeansProcessed, DispatchedWasExtracted,
     PublishedWasExtracted

LEMMA InboxStep ==
  ASSUME Uninterrupted, PipelineInv, InboxMeansProcessed, Next
  PROVE  InboxMeansProcessed'
<1> SUFFICES ASSUME NEW row \in outbox', (Extracting /\ row.id \in inbox)',
                    row.kind = "recorded"
             PROVE  \/ Claimed(row.episode)'
                    \/ \E r \in Relays :
                         (stage[r] \in {"process", "remove"} /\ Current(r, row))'
  BY DEF InboxMeansProcessed
<1> USE DEF PipelineInv
<1>1. CASE \E e \in Episodes : RecordEpisode(e)
  <2>1. row \in outbox /\ Extracting /\ row.id \in inbox
    BY <1>1, NewRow DEF RecordEpisode, Extracting
  <2> QED  BY <1>1, <2>1 DEF RecordEpisode, InboxMeansProcessed, Claimed, Current
<1>2. ASSUME NEW s \in Relays, RelayStep(s) \/ FaultStep(s)
      PROVE  \/ Claimed(row.episode)'
             \/ \E r \in Relays :
                  (stage[r] \in {"process", "remove"} /\ Current(r, row))'
  <2>1. Extracting  BY <1>2, RelayTypes DEF Extracting
  <2>2. CASE row \in outbox /\ row.id \in inbox
    <3>1. CASE Claimed(row.episode)  BY <3>1, ClaimedStays
    <3>2. ASSUME NEW r \in Relays, stage[r] \in {"process", "remove"}, Current(r, row), r # s
          PROVE  (stage[r] \in {"process", "remove"} /\ Current(r, row))'
      BY <1>2, <3>2, OthersStay DEF Current
    <3>3. CASE stage[s] \in {"process", "remove"} /\ Current(s, row)
      <4>1. CASE Process(s)
        <5>1. PICK e \in todo[s] : Current(s, e) /\ Extract(e)
          BY <2>1, <4>1 DEF Process, Extracting, Features
        <5>2. e = row  BY <3>3, <5>1, CurrentUnique
        <5>3. e \in Rows  BY DEF TypeOK
        <5> QED  BY <5>1, <5>2, <5>3, ExtractClaims
      <4>2. CASE ProcessFails(s)
        BY <3>3, <4>2 DEF ProcessFails, Goto, Current, TypeOK
      <4>3. CASE RemoveRecord(s)
        <5>1. PICK e \in todo[s] : Current(s, e) /\ inbox' = inbox \ {e.id}
          BY <4>3 DEF RemoveRecord
        <5>2. e = row  BY <3>3, <5>1, CurrentUnique
        <5> QED  BY <5>1, <5>2
      <4>4. ~Interrupted(s)  BY DEF Interrupted, Fault, Uninterrupted
      <4> QED
        BY <1>2, <3>3, <4>1, <4>2, <4>3, <4>4
        DEF RelayStep, FaultStep, StartRelay, Fetch, SkipInbox, TryRecord,
            Deliver, MarkPublished, CallFails
    <3> QED  BY <2>1, <2>2, <3>1, <3>2, <3>3 DEF InboxMeansProcessed
  <2>3. CASE row.id \notin inbox
    <3>1. PICK e \in todo[s] :
            /\ Current(s, e) /\ e.id = row.id /\ UNCHANGED <<outbox, todo>>
            /\ Goto(s, "process")
      BY <1>2, <2>3, NewInboxRow
    <3>2. e = row  BY <3>1 DEF UniqueIds, BatchesInOutbox
    <3> QED  BY <3>1, <3>2 DEF Goto, Current, TypeOK
  <2>4. CASE row \notin outbox /\ row.id \in inbox  BY <2>4, NewRow
  <2> QED  BY <2>2, <2>3, <2>4
<1> QED  BY <1>1, <1>2 DEF Next

LEMMA DispatchedStep ==
  ASSUME OneRelay, Uninterrupted, PipelineInv, ExtractionInv, Next
  PROVE  DispatchedWasExtracted'
<1> SUFFICES ASSUME NEW r \in Relays, NEW row \in batch'[r], Extracting',
                    row.kind = "recorded",
                    row \notin todo'[r] \/ (stage[r] = "deliver" /\ Current(r, row))'
             PROVE  Claimed(row.episode)'
  BY DEF DispatchedWasExtracted
<1> DEFINE Done == row \in batch[r] /\ (row \notin todo[r] \/ (stage[r] = "deliver" /\ Current(r, row)))
<1> USE DEF PipelineInv, TypeOK, Goto, stores
<1>1. Extracting  BY RelayTypes DEF Next, RecordEpisode, Extracting
<1>2. CASE Done
  BY <1>1, <1>2, ClaimedStays DEF ExtractionInv, DispatchedWasExtracted
<1>3. ASSUME ~Done, NEW s \in Relays, RelayStep(s) \/ FaultStep(s)
      PROVE  Claimed(row.episode)'
  <2>1. s = r  BY DEF OneRelay
  <2>2. CASE SkipInbox(r)
    <3>1. PICK e \in todo[r] : Current(r, e) /\ e.kind # "recorded"
      BY <1>1, <2>2 DEF SkipInbox, Extracting, Features
    <3>2. Current(r, row)  BY <1>3, <2>2 DEF SkipInbox, Current
    <3> QED  BY <3>1, <3>2, CurrentUnique
  <2>3. CASE TryRecord(r)
    <3>1. PICK e \in todo[r] : /\ Current(r, e)
                               /\ Goto(r, IF e.id \in inbox THEN "deliver" ELSE "process")
      BY <2>3 DEF TryRecord
    <3>2. Current(r, row)  BY <1>3, <2>3 DEF TryRecord, Current
    <3>3. e = row  BY <3>1, <3>2, CurrentUnique
    <3>4. row.id \in inbox  BY <1>3, <3>1, <3>3, <2>3 DEF TryRecord
    <3>5. row \in outbox /\ \A q \in Relays : stage[q] = "dispatch"
      BY <2>3, <3>2 DEF TryRecord, BatchesInOutbox, Current, OneRelay
    <3>6. Claimed(row.episode)
      BY <1>1, <3>4, <3>5 DEF ExtractionInv, InboxMeansProcessed
    <3> QED  BY <3>6, ClaimedStays
  <2>4. CASE Process(r)
    <3>1. PICK e \in todo[r] : Current(r, e) /\ Extract(e)
      BY <1>1, <2>4 DEF Process, Extracting, Features
    <3>2. Current(r, row)  BY <1>3, <2>4 DEF Process, Current
    <3>3. e = row  BY <3>1, <3>2, CurrentUnique
    <3>4. e \in Rows  OBVIOUS
    <3> QED  BY <3>1, <3>3, <3>4, ExtractClaims
  <2>5. CASE Deliver(r)
    <3>1. PICK e \in todo[r] : Current(r, e) /\ todo' = [todo EXCEPT ![r] = @ \ {e}]
      BY <2>5 DEF Deliver
    <3>2. row \in batch[r] /\ row \in todo[r] /\ stage[r] = "deliver"
      BY <1>3, <2>5 DEF Deliver
    <3>3. stage'[r] # "deliver"  BY <2>5 DEF Deliver
    <3>4. row = e  BY <3>1, <3>2, <3>3
    <3> QED  BY <1>3, <3>1, <3>2, <3>4
  <2>6. CASE Fetch(r)  BY <2>6 DEF Fetch
  <2>7. CASE ProcessFails(r)  BY <1>3, <2>7 DEF ProcessFails
  <2>8. CASE StartRelay(r) \/ MarkPublished(r)
    BY <1>3, <2>8 DEF StartRelay, MarkPublished
  <2>9. CASE RemoveRecord(r) \/ CallFails(r) \/ Interrupted(r)
    BY <2>9 DEF RemoveRecord, CallFails, Interrupted, Halt
  <2> QED
    BY <1>3, <2>1, <2>2, <2>3, <2>4, <2>5, <2>6, <2>7, <2>8, <2>9
    DEF RelayStep, FaultStep
<1>4. ASSUME ~Done, NEW e \in Episodes, RecordEpisode(e)
      PROVE  Claimed(row.episode)'
  BY <1>4 DEF RecordEpisode, Current
<1> QED  BY <1>2, <1>3, <1>4 DEF Next

LEMMA PublishedStep ==
  ASSUME PipelineInv, ExtractionInv, Next
  PROVE  PublishedWasExtracted'
<1> SUFFICES ASSUME NEW row \in outbox', Extracting', row.kind = "recorded",
                    row.id \in published'
             PROVE  Claimed(row.episode)'
  BY DEF PublishedWasExtracted
<1> USE DEF PipelineInv
<1>1. Extracting  BY RelayTypes DEF Next, RecordEpisode, Extracting
<1>2. CASE row.id \in published
  <2>1. row \in outbox  BY <1>2, NewRow
  <2> QED
    BY <1>1, <1>2, <2>1, ClaimedStays DEF ExtractionInv, PublishedWasExtracted
<1>3. CASE row.id \notin published
  <2>1. PICK r \in Relays : MarkPublished(r)
    BY <1>3
    DEF Next, RecordEpisode, RelayStep, FaultStep, StartRelay, Fetch, SkipInbox,
        TryRecord, Process, Deliver, RemoveRecord, ProcessFails, CallFails,
        Interrupted, stores
  <2>2. PICK b \in batch[r] : b.id = row.id  BY <1>3, <2>1 DEF MarkPublished
  <2>3. row \in outbox /\ b \in outbox  BY <2>1 DEF MarkPublished, BatchesInOutbox
  <2>4. b = row  BY <2>2, <2>3 DEF UniqueIds
  <2>5. row \notin todo[r]  BY <2>1 DEF MarkPublished, MarkAfterAll
  <2>6. Claimed(row.episode)
    BY <1>1, <2>2, <2>4, <2>5 DEF ExtractionInv, DispatchedWasExtracted
  <2> QED  BY <2>6, ClaimedStays
<1> QED  BY <1>2, <1>3

LEMMA ExtractionStep ==
  ASSUME OneRelay, Uninterrupted, PipelineInv, ExtractionInv, [Next]_vars
  PROVE  ExtractionInv'
<1>1. CASE UNCHANGED vars
  BY <1>1 DEF vars, ExtractionInv, InboxMeansProcessed, DispatchedWasExtracted,
     PublishedWasExtracted, Claimed, Current, Extracting
<1>2. CASE Next
  BY <1>2, InboxStep, DispatchedStep, PublishedStep DEF ExtractionInv
<1> QED  BY <1>1, <1>2

\* With one relay whose process is never cut off between the inbox row and the
\* processor's return, exceptions and lost acknowledgements drop no episode:
\* an inbox row means that its event is processed, and an event is not marked
\* as published before its claim exists.
THEOREM NoEpisodeDropped ==
  ASSUME OneRelay, Uninterrupted
  PROVE  Spec => [](InboxMeansProcessed /\ PublishedWasExtracted)
<1>1. PipelineInv /\ ExtractionInv /\ [Next]_vars => ExtractionInv'
  BY ExtractionStep
<1>2. ExtractionInv => InboxMeansProcessed /\ PublishedWasExtracted
  BY DEF ExtractionInv
<1> QED  BY <1>1, <1>2, ExtractionInit, PipelineInvariance, PTL DEF Spec

\* Where no relay is cut off, an inbox row stands for an event that was
\* processed, or is now, however many relays run: the row is inserted before the
\* processor runs, by one relay only, which removes it when the processor raises
\* (ProcessInboxEventHandler).
THEOREM InboxRows ==
  ASSUME Uninterrupted
  PROVE  Spec => []InboxMeansProcessed
<1>1. Init => InboxMeansProcessed  BY DEF Init, InboxMeansProcessed
<1>2. PipelineInv /\ InboxMeansProcessed /\ [Next]_vars => InboxMeansProcessed'
  <2>1. InboxMeansProcessed /\ UNCHANGED vars => InboxMeansProcessed'
    BY DEF vars, InboxMeansProcessed, Claimed, Current, Extracting
  <2> QED  BY <2>1, InboxStep
<1> QED  BY <1>1, <1>2, PipelineInvariance, PTL DEF Spec

-----------------------------------------------------------------------------
(* Any number of relays, as long as nothing fails.                         *)

InHand(row) == Claimed(row.episode) \/ InProcess(row)

\* A step after which no fault has happened yet.
LEMMA FaultFreeNext ==
  ASSUME TypeOK, FaultFreeInv, Next, faults' = 0
  PROVE  /\ faults = 0
         /\ \/ \E e \in Episodes : RecordEpisode(e)
            \/ \E s \in Relays : RelayStep(s) /\ ~RemoveRecord(s)
<1>1. faults \in Nat  BY FaultAssumption DEF TypeOK
<1>2. ASSUME NEW s \in Relays, FaultStep(s)  PROVE faults' # 0
  BY <1>1, <1>2 DEF FaultStep, ProcessFails, CallFails, Interrupted, Fault
<1>3. ASSUME NEW s \in Relays, RelayStep(s)  PROVE faults' = faults
  BY <1>3 DEF RelayStep, StartRelay, Fetch, SkipInbox, TryRecord, Process, Deliver,
     MarkPublished, RemoveRecord
<1>4. faults = 0  BY <1>2, <1>3 DEF Next, RecordEpisode
<1>5. ASSUME NEW s \in Relays  PROVE ~RemoveRecord(s)
  BY <1>4 DEF FaultFreeInv, RemoveRecord
<1> QED  BY <1>2, <1>4, <1>5 DEF Next

\* What is in hand stays so: its relay makes the claim.
LEMMA InHandStays ==
  ASSUME PipelineInv, FaultFreeInv, Next, faults' = 0, Extracting,
         NEW row, InHand(row)
  PROVE  InHand(row)'
<1> USE DEF PipelineInv
<1>1. CASE Claimed(row.episode)  BY <1>1, ClaimedStays DEF InHand
<1>2. ASSUME NEW r \in Relays, stage[r] = "process", Current(r, row)  PROVE InHand(row)'
  <2>1. CASE \E e \in Episodes : RecordEpisode(e)
    BY <1>2, <2>1 DEF RecordEpisode, InHand, InProcess, Current
  <2>2. ASSUME NEW s \in Relays, RelayStep(s), s # r  PROVE InHand(row)'
    <3>1. (stage[r] = "process" /\ Current(r, row))'
      BY <1>2, <2>2, OthersStay DEF Current
    <3> QED  BY <3>1 DEF InHand, InProcess
  <2>3. CASE RelayStep(r)
    <3>1. Process(r)
      BY <1>2, <2>3 DEF RelayStep, StartRelay, Fetch, SkipInbox, TryRecord, Deliver,
         MarkPublished, RemoveRecord
    <3>2. PICK e \in todo[r] : Current(r, e) /\ Extract(e)
      BY <3>1 DEF Process, Extracting, Features
    <3>3. e = row /\ e \in Rows  BY <1>2, <3>2, CurrentUnique DEF TypeOK
    <3>4. Claimed(row.episode)'  BY <3>2, <3>3, ExtractClaims
    <3> QED  BY <3>4 DEF InHand
  <2> QED  BY <2>1, <2>2, <2>3, FaultFreeNext
<1> QED  BY <1>1, <1>2 DEF InHand, InProcess

LEMMA FaultFreeInbox ==
  ASSUME PipelineInv, FaultFreeInv, Next, faults' = 0, Extracting,
         NEW row \in outbox', row.kind = "recorded", row.id \in inbox'
  PROVE  InHand(row)'
<1> USE DEF PipelineInv
<1>1. CASE row.id \in inbox
  <2>1. row \in outbox  BY <1>1, NewRow
  <2>2. InHand(row)  BY <1>1, <2>1, FaultFreeNext DEF FaultFreeInv, InHand
  <2> QED  BY <2>2, InHandStays
<1>2. CASE row.id \notin inbox
  <2>1. PICK s \in Relays : RelayStep(s)
    BY <1>2, FaultFreeNext DEF RecordEpisode
  <2>2. PICK e \in todo[s] :
          /\ Current(s, e) /\ e.id = row.id /\ UNCHANGED <<outbox, todo>>
          /\ Goto(s, "process")
    BY <1>2, <2>1, NewInboxRow
  <2>3. e = row  BY <2>2 DEF UniqueIds, BatchesInOutbox
  <2>4. (stage[s] = "process" /\ Current(s, row))'
    BY <2>2, <2>3 DEF Goto, Current, TypeOK
  <2> QED  BY <2>4 DEF InHand, InProcess
<1> QED  BY <1>1, <1>2

Dispatched(r, row) ==
  row \in batch[r] /\ (row \notin todo[r] \/ (stage[r] = "deliver" /\ Current(r, row)))

LEMMA FaultFreeDispatch ==
  ASSUME PipelineInv, FaultFreeInv, Next, faults' = 0, Extracting,
         NEW r \in Relays, NEW row, row.kind = "recorded", Dispatched(r, row)'
  PROVE  InHand(row)'
<1> USE DEF PipelineInv, TypeOK, Goto, stores
<1>1. CASE Dispatched(r, row)
  <2>1. InHand(row)  BY <1>1, FaultFreeNext DEF FaultFreeInv, InHand, Dispatched
  <2> QED  BY <2>1, InHandStays
<1>2. CASE ~Dispatched(r, row)
  <2>1. RelayStep(r) /\ ~RemoveRecord(r)
    <3>1. ASSUME NEW e \in Episodes, RecordEpisode(e)  PROVE Dispatched(r, row)
      BY <3>1 DEF RecordEpisode, Dispatched, Current
    <3>2. ASSUME NEW s \in Relays, s # r, RelayStep(s)  PROVE Dispatched(r, row)
      BY <3>2, OthersStay DEF Dispatched, Current
    <3> QED  BY <1>2, <3>1, <3>2, FaultFreeNext
  <2>2. CASE SkipInbox(r)
    <3>1. PICK e \in todo[r] : Current(r, e) /\ e.kind # "recorded"
      BY <2>2 DEF SkipInbox, Extracting, Features
    <3>2. Current(r, row)  BY <1>2, <2>2 DEF SkipInbox, Current, Dispatched
    <3> QED  BY <3>1, <3>2, CurrentUnique
  <2>3. CASE TryRecord(r)
    <3>1. PICK e \in todo[r] : /\ Current(r, e)
                               /\ Goto(r, IF e.id \in inbox THEN "deliver" ELSE "process")
      BY <2>3 DEF TryRecord
    <3>2. Current(r, row)  BY <1>2, <2>3 DEF TryRecord, Current, Dispatched
    <3>3. e = row  BY <3>1, <3>2, CurrentUnique
    <3>4. row.id \in inbox /\ row \in outbox
      BY <1>2, <2>3, <3>1, <3>2, <3>3 DEF TryRecord, Dispatched, Current, BatchesInOutbox
    <3>5. InHand(row)  BY <3>4, FaultFreeNext DEF FaultFreeInv, InHand
    <3> QED  BY <3>5, InHandStays
  <2>4. CASE Process(r)
    <3>1. PICK e \in todo[r] : Current(r, e) /\ Extract(e)
      BY <2>4 DEF Process, Extracting, Features
    <3>2. Current(r, row)  BY <1>2, <2>4 DEF Process, Current, Dispatched
    <3>3. e = row  BY <3>1, <3>2, CurrentUnique
    <3>4. e \in Rows  OBVIOUS
    <3>5. Claimed(row.episode)'  BY <3>1, <3>3, <3>4, ExtractClaims
    <3> QED  BY <3>5 DEF InHand
  <2>5. CASE Deliver(r)
    <3>1. PICK e \in todo[r] : Current(r, e) /\ todo' = [todo EXCEPT ![r] = @ \ {e}]
      BY <2>5 DEF Deliver
    <3>2. row \in batch[r] /\ row \in todo[r] /\ stage[r] = "deliver"
      BY <1>2, <2>5 DEF Deliver, Dispatched
    <3>3. stage'[r] # "deliver"  BY <2>5 DEF Deliver
    <3>4. row = e  BY <3>1, <3>2, <3>3 DEF Dispatched
    <3> QED  BY <1>2, <3>1, <3>2, <3>4 DEF Dispatched
  <2>6. CASE Fetch(r)  BY <2>6 DEF Fetch, Dispatched
  <2>7. CASE StartRelay(r) \/ MarkPublished(r)
    BY <1>2, <2>7 DEF StartRelay, MarkPublished, Dispatched
  <2> QED  BY <2>1, <2>2, <2>3, <2>4, <2>5, <2>6, <2>7 DEF RelayStep
<1> QED  BY <1>1, <1>2

LEMMA FaultFreePublished ==
  ASSUME PipelineInv, FaultFreeInv, PublishedIsInProcess, Next, faults' = 0, Extracting,
         NEW row \in outbox', row.kind = "recorded", row.id \in published'
  PROVE  InHand(row)'
<1> USE DEF PipelineInv
<1>1. CASE row.id \in published
  <2>1. row \in outbox  BY <1>1, NewRow
  <2>2. InHand(row)  BY <1>1, <2>1, FaultFreeNext DEF PublishedIsInProcess, InHand
  <2> QED  BY <2>2, InHandStays
<1>2. CASE row.id \notin published
  <2>1. PICK r \in Relays : MarkPublished(r)
    BY <1>2, FaultFreeNext
    DEF RecordEpisode, RelayStep, StartRelay, Fetch, SkipInbox, TryRecord, Process,
        Deliver, stores
  <2>2. PICK b \in batch[r] : b.id = row.id  BY <1>2, <2>1 DEF MarkPublished
  <2>3. b = row
    BY <2>1, <2>2 DEF MarkPublished, BatchesInOutbox, UniqueIds
  <2>4. row \notin todo[r]  BY <2>1 DEF MarkPublished, MarkAfterAll
  <2>5. InHand(row)
    BY <2>2, <2>3, <2>4, FaultFreeNext DEF FaultFreeInv, InHand
  <2> QED  BY <2>5, InHandStays
<1> QED  BY <1>1, <1>2

LEMMA FaultFreeStep ==
  ASSUME PipelineInv, FaultFreeInv, PublishedIsInProcess, [Next]_vars
  PROVE  FaultFreeInv' /\ PublishedIsInProcess'
<1>1. CASE UNCHANGED vars
  BY <1>1 DEF vars, FaultFreeInv, PublishedIsInProcess, InProcess, Claimed, Current,
     Extracting
<1>2. CASE Next /\ faults' = 0
  <2>1. Extracting' = Extracting
    BY <1>2, RelayTypes DEF Next, RecordEpisode, Extracting, PipelineInv
  <2>2. ASSUME NEW r \in Relays  PROVE stage'[r] # "remove"
    <3>1. stage[r] # "remove"  BY <1>2, FaultFreeNext DEF PipelineInv, FaultFreeInv
    <3>2. ASSUME NEW s \in Relays, RelayStep(s)  PROVE stage'[r] # "remove"
      BY <3>1, <3>2 DEF RelayStep, StartRelay, Fetch, SkipInbox, TryRecord, Process,
         Deliver, MarkPublished, RemoveRecord, Goto, Halt, PipelineInv, TypeOK
    <3> QED  BY <1>2, <3>1, <3>2, FaultFreeNext DEF PipelineInv, RecordEpisode
  <2>3. FaultFreeInv'
    BY <1>2, <2>1, <2>2, FaultFreeInbox, FaultFreeDispatch
    DEF FaultFreeInv, InHand, Dispatched
  <2>4. PublishedIsInProcess'
    BY <1>2, <2>1, FaultFreePublished DEF PublishedIsInProcess, InHand
  <2> QED  BY <2>3, <2>4
<1>3. CASE faults' # 0  BY <1>3 DEF FaultFreeInv, PublishedIsInProcess
<1> QED  BY <1>1, <1>2, <1>3

\* Several relays fetch the same rows and one of them publishes what another is
\* still processing (ProcessInboxEventHandler); until a call fails or a process
\* ends, that other one is really at work on it.
THEOREM PublishedInProcess == Spec => []PublishedIsInProcess
<1>1. Init => FaultFreeInv /\ PublishedIsInProcess
  BY DEF Init, FaultFreeInv, PublishedIsInProcess
<1>2. PipelineInv /\ FaultFreeInv /\ PublishedIsInProcess /\ [Next]_vars
        => FaultFreeInv' /\ PublishedIsInProcess'
  BY FaultFreeStep
<1> QED  BY <1>1, <1>2, PipelineInvariance, PTL DEF Spec

-----------------------------------------------------------------------------
(* The tables as a feed of claims and events.                              *)

\* A claim is only made of a recorded episode.
LEMMA ExtractIsClaim ==
  ASSUME PipelineInv, NEW e \in outbox, Extract(e), UNCHANGED <<published, delivered>>
  PROVE  [Feed!Next]_Feed!vars
<1>1. e \in Rows  BY DEF PipelineInv, TypeOK
<1>2. CASE UNCHANGED <<outbox, claims>>  BY <1>2 DEF Feed!vars
<1>3. ASSUME \A c \in claims : c.episode # e.episode,
             NEW i \in FreshIds,
             claims' = claims \cup {[id |-> i, episode |-> e.episode]},
             outbox' = outbox \cup {Propose(e, i)}
      PROVE  Feed!Claim(e)
  <2>1. e.kind = "recorded"
    <3>1. e.kind = "proposed" => \E c \in claims : Announces(e, c)
      BY DEF PipelineInv, OneProposalPerEpisode
    <3> QED  BY <1>1, <1>3, <3>1 DEF Announces, Rows
  <2>2. i \in Ids /\ Feed!Fresh(i)  BY DEF FreshIds, Feed!Fresh
  <2> QED  BY <1>3, <2>1, <2>2 DEF Feed!Claim, Propose
<1> QED  BY <1>1, <1>2, <1>3, ExtractEffect DEF Feed!Next

LEMMA RelayIsFeed ==
  ASSUME PipelineInv, NEW r \in Relays, RelayStep(r) \/ FaultStep(r)
  PROVE  [Feed!Next]_Feed!vars
<1> USE DEF stores, Feed!vars
<1>1. ASSUME NEW e \in todo[r]  PROVE e \in outbox
  BY DEF PipelineInv, BatchesInOutbox
<1>2. CASE Process(r)
  <2>1. UNCHANGED <<published, delivered>>  BY <1>2 DEF Process
  <2>2. CASE UNCHANGED <<claims, outbox>>  BY <2>1, <2>2
  <2>3. ASSUME NEW e \in todo[r], Extract(e)  PROVE [Feed!Next]_Feed!vars
    BY <1>1, <2>1, <2>3, ExtractIsClaim
  <2> QED  BY <1>2, <2>2, <2>3 DEF Process
<1>3. CASE ProcessFails(r)
  <2>1. UNCHANGED <<published, delivered>>  BY <1>3 DEF ProcessFails
  <2>2. CASE UNCHANGED <<claims, outbox>>  BY <2>1, <2>2
  <2>3. ASSUME NEW e \in todo[r], Extract(e)  PROVE [Feed!Next]_Feed!vars
    BY <1>1, <2>1, <2>3, ExtractIsClaim
  <2> QED  BY <1>3, <2>2, <2>3 DEF ProcessFails
<1>4. CASE Deliver(r)
  <2>1. PICK e \in todo[r] : delivered' = delivered \cup {e.id}  BY <1>4 DEF Deliver
  <2>2. Feed!Deliver(e)  BY <1>4, <2>1 DEF Deliver, Feed!Deliver
  <2> QED  BY <1>1, <2>2 DEF Feed!Next
<1>5. CASE MarkPublished(r)
  <2>1. batch[r] \in SUBSET outbox  BY DEF PipelineInv, BatchesInOutbox
  <2>2. \A row \in batch[r] : row.id \in delivered
    <3>1. todo[r] = {}  BY <1>5 DEF MarkPublished, PipelineInv, MarkAfterAll
    <3> QED  BY <3>1 DEF PipelineInv, DispatchedWasDelivered
  <2>3. Feed!Publish(batch[r])  BY <1>5, <2>2 DEF MarkPublished, Feed!Publish
  <2> QED  BY <2>1, <2>3 DEF Feed!Next
<1>6. CASE StartRelay(r) \/ Fetch(r) \/ SkipInbox(r) \/ TryRecord(r) \/ RemoveRecord(r)
  BY <1>6 DEF StartRelay, Fetch, SkipInbox, TryRecord, RemoveRecord
<1>7. CASE CallFails(r) \/ Interrupted(r)
  BY <1>7 DEF CallFails, Interrupted
<1> QED
  BY <1>2, <1>3, <1>4, <1>5, <1>6, <1>7 DEF RelayStep, FaultStep

LEMMA StepIsFeed ==
  ASSUME PipelineInv, [Next]_vars
  PROVE  [Feed!Next]_Feed!vars
<1>1. ASSUME NEW e \in Episodes, RecordEpisode(e)  PROVE Feed!Next
  <2>1. PICK i \in FreshIds, t \in Times :
          outbox' = outbox \cup {[id |-> i, kind |-> "recorded", episode |-> e, at |-> t]}
    BY <1>1 DEF RecordEpisode
  <2>2. i \in Ids /\ Feed!Fresh(i)  BY DEF FreshIds, Feed!Fresh
  <2>3. Feed!Record(e)  BY <1>1, <2>1, <2>2 DEF RecordEpisode, Feed!Record
  <2> QED  BY <2>3 DEF Feed!Next
<1>2. CASE UNCHANGED vars  BY <1>2 DEF vars, Feed!vars
<1> QED  BY <1>1, <1>2, RelayIsFeed DEF Next

\* Whatever relays and faults do (RelayOutboxEventsHandler,
\* ProcessInboxEventHandler, ExtractClaimsFromEpisodeHandler), the tables are a
\* feed: an episode is claimed once and announced in the same step, an event is
\* published after it was delivered, and rows are never withdrawn.
THEOREM ImplementsFeed == Spec => FeedSpec
<1>1. Init => Feed!Init  BY DEF Init, Feed!Init
<1>2. PipelineInv /\ [Next]_vars => [Feed!Next]_Feed!vars  BY StepIsFeed
<1>3. Spec => Feed!Spec
  BY <1>1, <1>2, PipelineInvariance, PTL DEF Spec, Feed!Spec
<1> QED  BY <1>3 DEF FeedSpec

=============================================================================
