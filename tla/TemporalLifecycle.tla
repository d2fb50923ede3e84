---------------------------- MODULE TemporalLifecycle ----------------------------
(***************************************************************************)
(* One execution under Temporal: ExecutionLifecycleWorkflow, the attempts  *)
(* of its activities, the orchestrator's start and cancel calls, and the   *)
(* two tables the activities write to.                                     *)
(*                                                                         *)
(* The snapshot in the workflow is the authority.  An activity attempt     *)
(* gets it as an argument, inserts an event and upserts the projection for *)
(* every transition, each in a transaction of its own, and returns the     *)
(* next snapshot.  Temporal makes up to MaxAttempts attempts, the next one *)
(* when an attempt fails or its time is up; one whose time is up is not    *)
(* stopped, so it may go on writing while later ones run.                  *)
(***************************************************************************)
EXTENDS ExecutionStates, Sequences, FiniteSets

CONSTANTS
  Cancels,      \* cancel calls
  MaxAttempts,  \* RetryPolicy(maximum_attempts)
  MaxFaults     \* bound on attempts that fail or run out of time

ASSUME AttemptsAssumption == MaxAttempts \in Nat \ {0} /\ MaxFaults \in Nat

VARIABLES
  workflow,     \* "none", "running", "completed" or "failed"
  snapshot,     \* [status, revision]: the snapshot the workflow holds
  cancelAsked,  \* _cancel_requested
  scheduled,    \* the activity attempt the workflow waits for, or NoAttempt
  attempts,     \* the attempts that are being executed
  events,       \* rows of runtime_outbox_events, without their ids
  projection,   \* the row of runtime_execution_snapshots, or NoRow
  starter,      \* the start call: where it is, and the snapshot it was told
  cancel,       \* cancel[c]: where cancel call c is, or its answer
  faults        \* number of faults so far

vars == <<workflow, snapshot, cancelAsked, scheduled, attempts, events,
          projection, starter, cancel, faults>>

At(status, revision) == [status |-> status, revision |-> revision]
NoRow == At("none", 0)

Activities == {"planning", "running", "succeeded", "cancel"}
NoAttempt  == [activity |-> "none", try |-> 0]

Event(previous, s) == [previous |-> previous, status |-> s.status, revision |-> s.revision]

Transition(s, target) == At(target, s.revision + 1)

\* The writes of one transition, in the order of the code.
Publish(previous, s) == [op |-> "publish", previous |-> previous, snapshot |-> s]
Upsert(previous, s)  == [op |-> "upsert", previous |-> previous, snapshot |-> s]
Write(previous, s)   == <<Publish(previous, s), Upsert(previous, s)>>

Done(s) == s.status \in {"succeeded", "failed", "cancelled"}

\* What an attempt of an activity writes when it is given snapshot s, and what
\* it returns: an advance that is illegal raises, a cancellation that is illegal
\* returns what it was given.
CancelWork(s) ==
  LET cancelling == IF s.status = "cancelling" THEN s ELSE Transition(s, "cancelling")
      cancelled  == Transition(cancelling, "cancelled")
  IN IF Done(s) \/ (s.status # "cancelling" /\ ~CanTransition(s.status, "cancelling"))
     THEN [todo |-> <<>>, result |-> s]
     ELSE [todo   |-> (IF s = cancelling THEN <<>> ELSE Write(s.status, cancelling))
                        \o Write("cancelling", cancelled),
           result |-> cancelled]

\* Mutant: an advance announces nothing and leaves that to the workflow.
Unannounced(activity, s) ==
  IF activity = "cancel" THEN CancelWork(s)
  ELSE [todo |-> <<Upsert(s.status, Transition(s, activity))>>,
        result |-> Transition(s, activity)]

Work(activity, s) ==
  IF activity = "cancel" THEN CancelWork(s)
  ELSE [todo   |-> Write(s.status, Transition(s, activity)),
        result |-> Transition(s, activity)]

Init ==
  /\ workflow = "none"
  /\ snapshot = NoRow
  /\ cancelAsked = FALSE
  /\ scheduled = NoAttempt
  /\ attempts = {}
  /\ events = {}
  /\ projection = NoRow
  /\ starter = [at |-> "idle", told |-> NoRow]
  /\ cancel = [c \in Cancels |-> "idle"]
  /\ faults = 0

-----------------------------------------------------------------------------
(* The start call and the projection of what it was told.                  *)

\* start_workflow; the first workflow task makes the pending snapshot.
StartWorkflow ==
  /\ starter.at = "idle"
  /\ workflow = "none"
  /\ workflow' = "running"
  /\ snapshot' = At("pending", 1)
  /\ starter' = [starter EXCEPT !.at = "describing"]
  /\ UNCHANGED <<cancelAsked, scheduled, attempts, events, projection, cancel, faults>>

DescribeStarted ==
  /\ starter.at = "describing"
  /\ starter' = [at |-> "projecting", told |-> snapshot]
  /\ UNCHANGED <<workflow, snapshot, cancelAsked, scheduled, attempts, events,
                 projection, cancel, faults>>

\* Mutant: the row is overwritten whatever its revision.
UpsertAlways(s) == projection' = s

\* Mutant: ON CONFLICT DO NOTHING
InsertSnapshot(s) == projection' = IF projection = NoRow THEN s ELSE projection

\* ON CONFLICT DO UPDATE ... WHERE revision < EXCLUDED.revision
UpsertSnapshot(s) ==
  projection' = IF projection.revision < s.revision THEN s ELSE projection

ProjectStarted ==
  /\ starter.at = "projecting"
  /\ UpsertSnapshot(starter.told)
  /\ starter' = [starter EXCEPT !.at = "ended"]
  /\ UNCHANGED <<workflow, snapshot, cancelAsked, scheduled, attempts, events,
                 cancel, faults>>

\* The caller's process ends, or the upsert raises.
AbandonStart ==
  /\ starter.at \in {"describing", "projecting"}
  /\ starter' = [starter EXCEPT !.at = "ended"]
  /\ UNCHANGED <<workflow, snapshot, cancelAsked, scheduled, attempts, events,
                 projection, cancel, faults>>

-----------------------------------------------------------------------------
(* The workflow.                                                           *)

Waiting == scheduled # NoAttempt

\* A new attempt is given to a worker, with the workflow's snapshot; the rest
\* of the attempts goes on.
Attempt(activity, try, rest) ==
  /\ scheduled' = [activity |-> activity, try |-> try]
  /\ attempts' = rest \cup
       {[activity |-> activity, try |-> try,
         todo |-> Work(activity, snapshot).todo,
         result |-> Work(activity, snapshot).result]}

\* The next activity of run(): the flag is checked before every advance.
NextActivity ==
  IF cancelAsked THEN "cancel"
  ELSE CASE snapshot.status = "pending"  -> "planning"
         [] snapshot.status = "planning" -> "running"
         [] snapshot.status = "running"  -> "succeeded"

Schedule ==
  /\ workflow = "running"
  /\ ~Waiting
  /\ ~Done(snapshot)
  /\ Attempt(NextActivity, 1, attempts)
  /\ UNCHANGED <<workflow, snapshot, cancelAsked, events, projection, starter, cancel, faults>>

\* Nothing follows the last advance or a cancellation.
Complete ==
  /\ workflow = "running"
  /\ ~Waiting
  /\ Done(snapshot)
  /\ workflow' = "completed"
  /\ UNCHANGED <<snapshot, cancelAsked, scheduled, attempts, events, projection,
                 starter, cancel, faults>>

-----------------------------------------------------------------------------
(* An activity attempt, one transaction at a time.                         *)

Perform(a) ==
  /\ a.todo # <<>>
  /\ LET w == Head(a.todo) IN
       IF w.op = "publish"
       THEN events' = events \cup {Event(w.previous, w.snapshot)} /\ UNCHANGED projection
       ELSE UpsertSnapshot(w.snapshot) /\ UNCHANGED events
  /\ attempts' = (attempts \ {a}) \cup {[a EXCEPT !.todo = Tail(@)]}
  /\ UNCHANGED <<workflow, snapshot, cancelAsked, scheduled, starter, cancel, faults>>

IsScheduled(a) == scheduled = [activity |-> a.activity, try |-> a.try]

\* The server takes the result of the attempt it waits for only.
Return(a) ==
  /\ a.todo = <<>>
  /\ attempts' = attempts \ {a}
  /\ IF IsScheduled(a)
     THEN snapshot' = a.result /\ scheduled' = NoAttempt
     ELSE UNCHANGED <<snapshot, scheduled>>
  /\ UNCHANGED <<workflow, cancelAsked, events, projection, starter, cancel, faults>>

\* Mutant: there is no end to the attempts.
RetryForEver(rest) ==
  /\ Attempt(scheduled.activity, scheduled.try + 1, rest)
  /\ UNCHANGED workflow

\* The attempt the workflow waits for is over, without a result.
Retry(rest) ==
  IF scheduled.try < MaxAttempts
  THEN /\ Attempt(scheduled.activity, scheduled.try + 1, rest)
       /\ UNCHANGED workflow
  ELSE /\ scheduled' = NoAttempt
       /\ attempts' = rest
       /\ workflow' = "failed"

Fault == faults < MaxFaults /\ faults' = faults + 1

\* A write raises, or the worker ends.
AttemptFails(a) ==
  /\ Fault
  /\ IF IsScheduled(a)
     THEN Retry(attempts \ {a})
     ELSE attempts' = attempts \ {a} /\ UNCHANGED <<workflow, scheduled>>
  /\ UNCHANGED <<snapshot, cancelAsked, events, projection, starter, cancel>>

\* start_to_close_timeout: the attempt goes on, but nobody waits for it.
AttemptTimesOut(a) ==
  /\ Fault
  /\ IsScheduled(a)
  /\ Retry(attempts)
  /\ UNCHANGED <<snapshot, cancelAsked, events, projection, starter, cancel>>

-----------------------------------------------------------------------------
(* A cancel call.                                                          *)

Told(c, a) ==
  /\ cancel' = [cancel EXCEPT ![c] = a]
  /\ UNCHANGED <<workflow, snapshot, cancelAsked, scheduled, attempts, events,
                 projection, starter, faults>>

\* The answer that a query's snapshot gives, if it is final.
FinalAnswer(c) ==
  IF snapshot.status = "succeeded" THEN Told(c, "invalid")
  ELSE snapshot.status \in {"cancelled", "failed"} /\ Told(c, "ok")

CancelUnknown(c) ==
  /\ cancel[c] = "idle"
  /\ workflow = "none"
  /\ Told(c, "not_found")

CancelFinished(c) ==
  /\ cancel[c] = "idle"
  /\ workflow # "none"
  /\ Done(snapshot)
  /\ FinalAnswer(c)

\* Mutant: the caller is not made to wait for the workflow.
CancelAtOnce(c) ==
  /\ cancel[c] = "idle"
  /\ workflow # "none"
  /\ ~Done(snapshot)
  /\ cancelAsked' = TRUE
  /\ cancel' = [cancel EXCEPT ![c] = "ok"]
  /\ UNCHANGED <<workflow, snapshot, scheduled, attempts, events, projection, starter, faults>>

CancelBegins(c) ==
  /\ cancel[c] = "idle"
  /\ workflow # "none"
  /\ ~Done(snapshot)
  /\ Told(c, "signalling")

\* The signal is noted by a workflow that runs.
Signal(c) ==
  /\ cancel[c] = "signalling"
  /\ workflow = "running"
  /\ cancelAsked' = TRUE
  /\ cancel' = [cancel EXCEPT ![c] = "polling"]
  /\ UNCHANGED <<workflow, snapshot, scheduled, attempts, events, projection, starter, faults>>

\* The workflow has closed since it was queried: query it once more.
SignalTooLate(c) ==
  /\ cancel[c] = "signalling"
  /\ workflow \in {"completed", "failed"}
  /\ IF Done(snapshot) THEN FinalAnswer(c) ELSE Told(c, "unavailable")

Poll(c) ==
  /\ cancel[c] = "polling"
  /\ Done(snapshot)
  /\ FinalAnswer(c)

\* The last poll, or a remote call that fails.
GiveUp(c) ==
  /\ cancel[c] \in {"signalling", "polling"}
  /\ Told(c, "unavailable")

CancelCall(c) ==
  \/ CancelUnknown(c)
  \/ CancelFinished(c)
  \/ CancelBegins(c)
  \/ Signal(c)
  \/ SignalTooLate(c)
  \/ Poll(c)
  \/ GiveUp(c)

-----------------------------------------------------------------------------

WorkerStep   == \E a \in attempts : Perform(a) \/ Return(a)
WorkflowStep == Schedule \/ Complete
StartStep    == DescribeStarted \/ ProjectStarted \/ AbandonStart

Next ==
  \/ StartWorkflow
  \/ StartStep
  \/ WorkflowStep
  \/ WorkerStep
  \/ \E a \in attempts : AttemptFails(a) \/ AttemptTimesOut(a)
  \/ \E c \in Cancels : CancelCall(c)

\* A worker is running: it takes up workflow tasks and activity attempts.
\* Callers and faults are under no obligation.
Fairness == WF_vars(WorkflowStep) /\ WF_vars(WorkerStep)

Spec     == Init /\ [][Next]_vars
FairSpec == Spec /\ Fairness

-----------------------------------------------------------------------------
(* Properties.                                                             *)

WriteOps == [op: {"publish", "upsert"}, previous: Statuses,
             snapshot: [status: Statuses, revision: 1..5]]

\* Workflow, attempts, tables and calls hold values of their types.
TypeOK ==
  /\ workflow \in {"none", "running", "completed", "failed"}
  /\ snapshot \in {NoRow} \cup [status: Statuses, revision: 1..5]
  /\ cancelAsked \in BOOLEAN
  /\ scheduled \in {NoAttempt} \cup [activity: Activities, try: 1..MaxAttempts]
  /\ attempts \subseteq [activity: Activities, try: 1..MaxAttempts, todo: Seq(WriteOps),
                         result: [status: Statuses, revision: 1..5]]
  /\ \A a \in attempts : Len(a.todo) <= 4
  /\ events \subseteq [previous: Statuses, status: Statuses, revision: 2..5]
  /\ projection \in {NoRow} \cup [status: Statuses, revision: 1..5]
  /\ cancel \in [Cancels -> {"idle", "signalling", "polling", "ok", "invalid",
                             "not_found", "unavailable"}]

\* Copies that retries make, and those of attempts nobody waits for any more,
\* agree with each other in all but the event id, so that consumers may
\* deduplicate by (execution_id, revision); the events in the order of their
\* revisions are a legal path from pending without a gap.
EventsTellOnePath ==
  /\ \A e, f \in events : e.revision = f.revision => e = f
  /\ \A e \in events :
       /\ CanTransition(e.previous, e.status)
       /\ IF e.revision = 2 THEN e.previous = "pending"
          ELSE \E f \in events : f.revision + 1 = e.revision /\ f.status = e.previous

\* No status is projected before it was announced, and none that was not.
ProjectionAnnounced ==
  projection.revision > 1 =>
    \E e \in events :
      e.revision = projection.revision /\ e.status = projection.status

\* Whatever attempts are late, and however late the starter is: neither the
\* projection nor the workflow ever goes back to an earlier revision.
NeverRegresses ==
  [][/\ projection'.revision >= projection.revision
     /\ snapshot'.revision >= snapshot.revision]_vars

\* Whatever is retried, late or lost: workflow, events and projection are a log
\* that grows by the next legal change only, an authority that moves on to the
\* change announced last, and a register that takes announced states of later
\* revisions only.
History     == INSTANCE ExecutionHistory
HistorySpec == History!Spec

\* A caller who was told that the execution is cancelled will never see it
\* succeed, neither in the workflow nor in an event.
CancelledIsFinal ==
  \A c \in Cancels :
    cancel[c] = "ok" =>
      snapshot.status = "cancelled" /\ \A e \in events : e.status # "succeeded"

\* While faults are too few to use up the attempts of an activity, a started
\* execution comes to its end and the projection shows it.
Settles ==
  workflow = "running" ~>
    \/ workflow = "completed" /\ Done(snapshot) /\ projection = snapshot
    \/ faults >= MaxAttempts

-----------------------------------------------------------------------------
(* The inductive invariant.                                                *)

\* What the workflow may hold: an advance, or a cancellation of one.
Held ==
  {At("pending", 1), At("planning", 2), At("running", 3), At("succeeded", 4),
   At("cancelled", 3), At("cancelled", 4), At("cancelled", 5)}

\* The status at revision n on the one way to snapshot s, and the event there.
StatusOn(s, n) ==
  IF s.status = "cancelled" /\ n = s.revision     THEN "cancelled" ELSE
  IF s.status = "cancelled" /\ n = s.revision - 1 THEN "cancelling" ELSE
  IF n = 1 THEN "pending" ELSE IF n = 2 THEN "planning" ELSE
  IF n = 3 THEN "running" ELSE "succeeded"

EventOn(s, n) == Event(StatusOn(s, n - 1), At(StatusOn(s, n), n))

\* The way to s is the beginning of the way to goal.
Towards(s, goal) ==
  s.revision <= goal.revision /\ \A n \in 1..s.revision : StatusOn(s, n) = StatusOn(goal, n)

\* The k-th last write of an attempt that leads to s.
WriteLeft(s, k) ==
  LET n == IF k > 2 THEN s.revision - 1 ELSE s.revision
  IN IF k \in {2, 4}
     THEN Publish(StatusOn(s, n - 1), At(StatusOn(s, n), n))
     ELSE Upsert(StatusOn(s, n - 1), At(StatusOn(s, n), n))

\* An attempt, late or not, is on the way to the goal, and what it has written
\* and has still to write are the events up to its result, in their order.
Working(a, goal) ==
  /\ a.result \in Held \ {At("pending", 1)}
  /\ Towards(a.result, goal)
  /\ a.activity = IF a.result.status = "cancelled" THEN "cancel" ELSE a.result.status
  /\ a.todo \in Seq(WriteOps)
  /\ Len(a.todo) <= IF a.activity = "cancel" THEN 4 ELSE 2
  /\ \A i \in 1..Len(a.todo) : a.todo[i] = WriteLeft(a.result, Len(a.todo) + 1 - i)
  /\ \A n \in 2..a.result.revision :
       Len(a.todo) <= 2 * (a.result.revision - n) + 1 => EventOn(a.result, n) \in events

\* A row or a report of a revision on the way to the goal that is announced.
Reported(s, goal) ==
  /\ s.revision \in 1..goal.revision
  /\ s = At(StatusOn(goal, s.revision), s.revision)
  /\ s.revision > 1 => EventOn(goal, s.revision) \in events

\* All that anybody writes is on the way to one goal: the snapshot, or the
\* result of the activity that the workflow waits for or has given up.
Heading(goal) ==
  /\ snapshot \in Held
  /\ Towards(snapshot, goal)
  /\ workflow = "running" => goal = IF Waiting THEN Work(scheduled.activity, snapshot).result
                                    ELSE snapshot
  /\ \A e \in events : e.revision \in 2..goal.revision /\ e = EventOn(goal, e.revision)
  /\ \A n \in 3..goal.revision : EventOn(goal, n) \in events => EventOn(goal, n - 1) \in events
  /\ \A n \in 2..snapshot.revision : EventOn(goal, n) \in events
  /\ \A a \in attempts : Working(a, goal)
  /\ projection = NoRow \/ Reported(projection, goal)
  /\ starter.at = "projecting" => Reported(starter.told, goal)

NotStarted ==
  /\ snapshot = NoRow /\ projection = NoRow /\ scheduled = NoAttempt
  /\ attempts = {} /\ events = {} /\ starter.at = "idle"

LifecycleInv ==
  /\ TypeOK
  /\ Waiting => workflow = "running" /\ ~Done(snapshot)
  /\ IF workflow = "none" THEN NotStarted ELSE \E goal \in Held : Heading(goal)
  /\ \A c \in Cancels : cancel[c] = "ok" => workflow # "none" /\ snapshot.status = "cancelled"

=============================================================================
