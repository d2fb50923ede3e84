---------------------------- MODULE MemoryPipeline ----------------------------
(***************************************************************************)
(* From a recorded episode to its claim: the memory outbox, the relay that *)
(* polls it, the inbox that deduplicates what the relay dispatches, and    *)
(* the extraction of a claim, which writes to the outbox again.            *)
(*                                                                         *)
(* A relay handles one batch at a time: fetch, dispatch each event in      *)
(* order, mark the whole batch.  Every store call is a transaction of its  *)
(* own, so the process may end, be cancelled or meet an exception between  *)
(* any two of them.                                                        *)
(***************************************************************************)
EXTENDS Integers, FiniteSets

CONSTANTS
  Episodes,   \* episodes the callers record
  Ids,        \* event ids, in the order of their uuids
  Times,      \* occurred_at stamps
  Relays,     \* processes that run the relay loop
  BatchSize,  \* outbox_relay.batch_size
  Faults,     \* kinds of fault that may happen, of "error" and "interrupt"
  MaxFaults   \* bound on the number of faults

ASSUME IdsAssumption   == Ids \subseteq Int /\ Times \subseteq Int
ASSUME BatchAssumption == BatchSize \in Nat \ {0}
ASSUME FaultAssumption ==
  Faults \subseteq {"error", "interrupt"} /\ MaxFaults \in Nat

VARIABLES
  enabled,    \* which of inbox.enabled and claim_extraction.enabled are set
  outbox,     \* rows of memory_outbox_events
  published,  \* ids of the rows with published_at set
  inbox,      \* event ids in memory_inbox_events
  claims,     \* rows of memory_claim_proposals
  delivered,  \* ids the delegate publisher has been given
  stage,      \* stage[r]: the call relay r is at
  batch,      \* batch[r]: the rows relay r has fetched
  todo,       \* todo[r]: those not dispatched yet
  faults      \* number of faults so far

stores == <<outbox, published, inbox, claims, delivered>>
vars   == <<enabled, outbox, published, inbox, claims, delivered,
            stage, batch, todo, faults>>

Rows   == [id: Ids, kind: {"recorded", "proposed"}, episode: Episodes, at: Times]
Claims == [id: Ids, episode: Episodes]

Features == {"inbox", "extraction"}

Stages == {"down", "idle", "dispatch", "process", "remove", "deliver", "mark"}

\* Mutant: events with an inbox row are taken for done.
UnpublishedUnprocessed ==
  {row \in outbox : row.id \notin published /\ row.id \notin inbox}

Unpublished == {row \in outbox : row.id \notin published}
FreshIds    == Ids \ {row.id : row \in outbox}

\* ORDER BY occurred_at ASC, event_id ASC
Before(e, f) == e.at < f.at \/ (e.at = f.at /\ e.id <= f.id)

\* LIMIT batch_size
Oldest(S) ==
  {B \in SUBSET S :
     /\ Cardinality(B) = IF Cardinality(S) < BatchSize THEN Cardinality(S) ELSE BatchSize
     /\ \A e \in B, f \in S \ B : Before(e, f)}

\* Relay r is busy with e, the first event left of its batch.
Current(r, e) == e \in todo[r] /\ \A f \in todo[r] : Before(e, f)

Goto(r, s) == stage' = [stage EXCEPT ![r] = s]

Init ==
  /\ enabled \in SUBSET Features
  /\ outbox = {}
  /\ published = {}
  /\ inbox = {}
  /\ claims = {}
  /\ delivered = {}
  /\ stage = [r \in Relays |-> "down"]
  /\ batch = [r \in Relays |-> {}]
  /\ todo = [r \in Relays |-> {}]
  /\ faults = 0

-----------------------------------------------------------------------------
(* The environment.                                                        *)

\* A recording transaction commits its event (module EpisodeIngest).  The
\* stamp was taken before the transaction began, so rows do not become
\* visible in the order of their stamps.
RecordEpisode(e) ==
  /\ \A row \in outbox : row.episode # e
  /\ \E i \in FreshIds, t \in Times :
       outbox' = outbox \cup {[id |-> i, kind |-> "recorded", episode |-> e, at |-> t]}
  /\ UNCHANGED <<enabled, published, inbox, claims, delivered, stage, batch, todo, faults>>

-----------------------------------------------------------------------------
(* The relay: RelayOutboxEventsHandler.handle in run_outbox_relay_loop.    *)

\* The relay is started, by the operator after a fault ended it.
StartRelay(r) ==
  /\ stage[r] = "down"
  /\ Goto(r, "idle")
  /\ UNCHANGED <<enabled, stores, batch, todo, faults>>

Fetch(r) ==
  /\ stage[r] = "idle"
  /\ Unpublished # {}
  /\ \E B \in Oldest(Unpublished) :
       /\ batch' = [batch EXCEPT ![r] = B]
       /\ todo' = [todo EXCEPT ![r] = B]
  /\ Goto(r, "dispatch")
  /\ UNCHANGED <<enabled, stores, faults>>

\* The event goes straight to the delegate: without the inbox, or when it has
\* no processor, which only memory.episode-recorded has.
SkipInbox(r) ==
  /\ stage[r] = "dispatch"
  /\ \E e \in todo[r] :
       Current(r, e) /\ ("inbox" \notin enabled \/ e.kind # "recorded")
  /\ Goto(r, "deliver")
  /\ UNCHANGED <<enabled, stores, batch, todo, faults>>

\* Mutant: what try_record returns is taken the wrong way round.
ProcessDuplicates(r) ==
  /\ stage[r] = "dispatch"
  /\ "inbox" \in enabled
  /\ \E e \in todo[r] :
       /\ Current(r, e)
       /\ e.kind = "recorded"
       /\ inbox' = inbox \cup {e.id}
       /\ Goto(r, IF e.id \in inbox THEN "process" ELSE "deliver")
  /\ UNCHANGED <<enabled, outbox, published, claims, delivered, batch, todo, faults>>

\* try_record: the row is committed before the event is processed.
TryRecord(r) ==
  /\ stage[r] = "dispatch"
  /\ "inbox" \in enabled
  /\ \E e \in todo[r] :
       /\ Current(r, e)
       /\ e.kind = "recorded"
       /\ inbox' = inbox \cup {e.id}
       /\ Goto(r, IF e.id \in inbox THEN "deliver" ELSE "process")
  /\ UNCHANGED <<enabled, outbox, published, claims, delivered, batch, todo, faults>>

\* Mutant: the event is given a type of its own.
ProposeUntyped(e, i) ==
  [id |-> i, kind |-> "extracted", episode |-> e.episode, at |-> e.at]

Propose(e, i) ==
  [id |-> i, kind |-> "proposed", episode |-> e.episode, at |-> e.at]

\* Mutant: the event is published whether or not the proposal is new.
ExtractAndAlwaysPublish(e) ==
  \E i \in FreshIds :
    /\ outbox' = outbox \cup {Propose(e, i)}
    /\ claims' = IF \E claim \in claims : claim.episode = e.episode
                 THEN claims
                 ELSE claims \cup {[id |-> i, episode |-> e.episode]}

\* add_proposal and its event, in one transaction.  UNIQUE (tenant_id,
\* episode_id, extractor_version) turns the second proposal into a no-op.
Extract(e) ==
  IF \E claim \in claims : claim.episode = e.episode
  THEN UNCHANGED <<claims, outbox>>
  ELSE \E i \in FreshIds :
         /\ claims' = claims \cup {[id |-> i, episode |-> e.episode]}
         /\ outbox' = outbox \cup {Propose(e, i)}

Process(r) ==
  /\ stage[r] = "process"
  /\ \E e \in todo[r] :
       /\ Current(r, e)
       /\ IF "extraction" \in enabled THEN Extract(e) ELSE UNCHANGED <<claims, outbox>>
  /\ Goto(r, "deliver")
  /\ UNCHANGED <<enabled, published, inbox, delivered, batch, todo, faults>>

Deliver(r) ==
  /\ stage[r] = "deliver"
  /\ \E e \in todo[r] :
       /\ Current(r, e)
       /\ delivered' = delivered \cup {e.id}
       /\ todo' = [todo EXCEPT ![r] = @ \ {e}]
  /\ Goto(r, IF todo'[r] = {} THEN "mark" ELSE "dispatch")
  /\ UNCHANGED <<enabled, outbox, published, inbox, claims, batch, faults>>

\* Mutant: the batch is marked before it is dispatched.
MarkFetched(r) ==
  /\ stage[r] \in {"dispatch", "mark"}
  /\ published' = published \cup {row.id : row \in batch[r]}
  /\ UNCHANGED <<enabled, outbox, inbox, claims, delivered, stage, batch, todo, faults>>

MarkPublished(r) ==
  /\ stage[r] = "mark"
  /\ published' = published \cup {row.id : row \in batch[r]}
  /\ batch' = [batch EXCEPT ![r] = {}]
  /\ Goto(r, "idle")
  /\ UNCHANGED <<enabled, outbox, inbox, claims, delivered, todo, faults>>

-----------------------------------------------------------------------------
(* Faults.                                                                 *)

Fault(kind) ==
  /\ kind \in Faults
  /\ faults < MaxFaults
  /\ faults' = faults + 1

Halt(r) ==
  /\ Goto(r, "down")
  /\ batch' = [batch EXCEPT ![r] = {}]
  /\ todo' = [todo EXCEPT ![r] = {}]

\* Mutant: the handler swallows the exception.
ProcessFailureSwallowed(r) ==
  /\ stage[r] = "process"
  /\ Fault("error")
  /\ Goto(r, "deliver")
  /\ UNCHANGED <<enabled, stores, batch, todo>>

\* The processor raises.  Its transaction was rolled back, or it was
\* committed and only the acknowledgement was lost.
ProcessFails(r) ==
  /\ stage[r] = "process"
  /\ Fault("error")
  /\ \/ UNCHANGED <<claims, outbox>>
     \/ \E e \in todo[r] : "extraction" \in enabled /\ Current(r, e) /\ Extract(e)
  /\ Goto(r, "remove")
  /\ UNCHANGED <<enabled, published, inbox, delivered, batch, todo>>

\* Mutant: the exception is raised without remove_record.
RaiseOnly(r) ==
  /\ stage[r] = "remove"
  /\ Halt(r)
  /\ UNCHANGED <<enabled, stores, faults>>

\* remove_record, and the exception ends the relay loop.
RemoveRecord(r) ==
  /\ stage[r] = "remove"
  /\ \E e \in todo[r] : Current(r, e) /\ inbox' = inbox \ {e.id}
  /\ Halt(r)
  /\ UNCHANGED <<enabled, outbox, published, claims, delivered, faults>>

\* Any other call raises: fetch, try_record, the delegate, mark.
CallFails(r) ==
  /\ stage[r] \in {"idle", "dispatch", "deliver", "mark"}
  /\ Fault("error")
  /\ Halt(r)
  /\ UNCHANGED <<enabled, stores>>

\* The relay is cut off wherever it is: the process dies, its task is cancelled
\* (CancelledError is no Exception, so ProcessInboxEventHandler does not see
\* it), the connection is lost between the commit of try_record and its
\* acknowledgement, or remove_record fails.
Interrupted(r) ==
  /\ stage[r] # "down"
  /\ Fault("interrupt")
  /\ Halt(r)
  /\ UNCHANGED <<enabled, stores>>

-----------------------------------------------------------------------------

RelayStep(r) ==
  \/ StartRelay(r)
  \/ Fetch(r)
  \/ SkipInbox(r)
  \/ TryRecord(r)
  \/ Process(r)
  \/ Deliver(r)
  \/ MarkPublished(r)
  \/ RemoveRecord(r)

FaultStep(r) ==
  \/ ProcessFails(r)
  \/ CallFails(r)
  \/ Interrupted(r)

Next ==
  \/ \E e \in Episodes : RecordEpisode(e)
  \/ \E r \in Relays : RelayStep(r) \/ FaultStep(r)

\* The loop polls for ever and is started again when a fault ended it.
\* Recording an episode and faults are never owed.
Fairness == \A r \in Relays : WF_vars(RelayStep(r))

Spec     == Init /\ [][Next]_vars
FairSpec == Spec /\ Fairness

-----------------------------------------------------------------------------
(* Properties.                                                             *)

\* Extraction runs inside the inbox consumer.
Extracting == Features \subseteq enabled

Recorded(e) == \E row \in outbox : row.kind = "recorded" /\ row.episode = e
Claimed(e)  == \E claim \in claims : claim.episode = e

\* The event that memory.claim-proposed's aggregate id ties to the claim.
Announces(row, claim) ==
  row.kind = "proposed" /\ row.id = claim.id /\ row.episode = claim.episode

\* The tables and the relays' variables hold values of their types.
TypeOK ==
  /\ enabled \subseteq Features
  /\ outbox \subseteq Rows
  /\ published \subseteq Ids
  /\ inbox \subseteq Ids
  /\ claims \subseteq Claims
  /\ delivered \subseteq Ids
  /\ stage \in [Relays -> Stages]
  /\ batch \in [Relays -> SUBSET Rows]
  /\ todo \in [Relays -> SUBSET Rows]
  /\ faults \in 0..MaxFaults

\* However often an event is redelivered, also after a commit whose
\* acknowledgement was lost and with two relays at once, an episode yields one
\* claim, and that claim is announced by exactly one memory.claim-proposed.
OneProposalPerEpisode ==
  /\ \A c, d \in claims : c.episode = d.episode => c = d
  /\ \A c \in claims : \E row \in outbox : Announces(row, c)
  /\ \A row \in outbox :
       row.kind = "proposed" => \E c \in claims : Announces(row, c)

\* At-least-once delivery: published_at is never set on an event that the
\* delegate publisher was not given.
PublishedWasDelivered == published \subseteq delivered

\* However many relays run and whatever fails: a feed of claims, each made once
\* and announced with it, and of events published after their delivery.
Feed     == INSTANCE ClaimFeed
FeedSpec == Feed!Spec

\* An inbox row means that the event was processed, or is being processed now.
InboxMeansProcessed ==
  \A row \in outbox :
    /\ Extracting
    /\ row.kind = "recorded"
    /\ row.id \in inbox
    => \/ Claimed(row.episode)
       \/ \E r \in Relays : stage[r] \in {"process", "remove"} /\ Current(r, row)

\* No episode is dropped: when its event is marked as published, its claim has
\* been extracted.
PublishedWasExtracted ==
  \A row \in outbox :
    Extracting /\ row.kind = "recorded" /\ row.id \in published => Claimed(row.episode)

InProcess(row) == \E r \in Relays : stage[r] = "process" /\ Current(r, row)

\* A second relay that finds an inbox row delivers and publishes the event while
\* the first one may still be processing it: until something fails, a published
\* episode without a claim is one that a relay is busy with.
PublishedIsInProcess ==
  faults = 0 =>
    \A row \in outbox :
      Extracting /\ row.kind = "recorded" /\ row.id \in published
      => Claimed(row.episode) \/ InProcess(row)

\* Every event is published in the end, late commits with old stamps included.
EventuallyPublished == \A i \in Ids : (\E row \in outbox : row.id = i) ~> i \in published

\* Every recorded episode gets its claim.
EventuallyClaimed == \A e \in Episodes : (Extracting /\ Recorded(e)) ~> Claimed(e)

-----------------------------------------------------------------------------
(* The inductive invariants behind the safety properties.                  *)

UniqueIds == \A x, y \in outbox : x.id = y.id => x = y

KnownIds == \A i \in inbox \cup published : \E row \in outbox : row.id = i

BatchesInOutbox == \A r \in Relays : todo[r] \subseteq batch[r] /\ batch[r] \subseteq outbox

DispatchedWasDelivered ==
  \A r \in Relays : \A row \in batch[r] \ todo[r] : row.id \in delivered

MarkAfterAll == \A r \in Relays : stage[r] = "mark" => todo[r] = {}

\* Holds with any number of relays and any faults.
PipelineInv ==
  /\ TypeOK
  /\ UniqueIds
  /\ KnownIds
  /\ BatchesInOutbox
  /\ DispatchedWasDelivered
  /\ MarkAfterAll
  /\ OneProposalPerEpisode
  /\ PublishedWasDelivered

\* Past its processing, an event of the batch has its claim.
DispatchedWasExtracted ==
  \A r \in Relays : \A row \in batch[r] :
    /\ Extracting
    /\ row.kind = "recorded"
    /\ row \notin todo[r] \/ (stage[r] = "deliver" /\ Current(r, row))
    => Claimed(row.episode)

\* Holds with any number of relays until the first fault.
FaultFreeInv ==
  faults = 0 =>
    /\ \A r \in Relays : stage[r] # "remove"
    /\ \A row \in outbox :
         Extracting /\ row.kind = "recorded" /\ row.id \in inbox
         => Claimed(row.episode) \/ InProcess(row)
    /\ \A r \in Relays : \A row \in batch[r] :
         /\ Extracting
         /\ row.kind = "recorded"
         /\ row \notin todo[r] \/ (stage[r] = "deliver" /\ Current(r, row))
         => Claimed(row.episode) \/ InProcess(row)

\* Holds with one relay that is never interrupted.
ExtractionInv ==
  /\ InboxMeansProcessed
  /\ DispatchedWasExtracted
  /\ PublishedWasExtracted

=============================================================================
