------------------------------ MODULE TemporalStart ------------------------------
(***************************************************************************)
(* TemporalOrchestratorPort.start: an execution is registered in the index *)
(* in PostgreSQL, its workflow is started on the Temporal server, and the  *)
(* workflow is asked for its snapshot.  Two stores, no common transaction: *)
(* calls interleave, end and fail between any two of these steps.          *)
(*                                                                         *)
(* A write of the index is one step here; module RuntimeStore has its      *)
(* statements.  The projection of the snapshot, which follows the answer   *)
(* to a new start, is in module TemporalLifecycle.                         *)
(***************************************************************************)
CONSTANTS
  Calls,   \* start invocations, and the execution ids they draw
  Keys,    \* (tenant, idempotency key) pairs
  Specs,   \* the fingerprints of specs
  Faults   \* what may go wrong at most, a subset of FaultKinds

\* "refused": start_workflow raises RPCError and has no effect;
\* "lost": it raises RPCError, but the server has started the workflow;
\* "unanswered": a query raises RPCError;  "crash": the caller's process ends.
FaultKinds == {"refused", "lost", "unanswered", "crash"}

ASSUME FaultsAssumption == Faults \subseteq FaultKinds

VARIABLES
  faulty,     \* what may go wrong in this behaviour
  asked,      \* asked[c]: the request of call c
  phase,      \* phase[c]: the remote call that c makes next
  target,     \* target[c]: the execution c is about, once it is registered
  index,      \* rows of runtime_start_idempotency
  workflows,  \* workflows[e]: the workflow of execution e on the server
  answer      \* answer[c]: what the caller was told

vars == <<faulty, asked, phase, target, index, workflows, answer>>

Requests  == [key: Keys, spec: Specs]
Rows      == [key: Keys, exec: Calls, spec: Specs]
Answers   == {"pending", "ok", "conflict", "failed"}
Phases    == {"idle", "starting", "rolling_back", "looking", "restarting",
              "checking", "describing", "ended"}

\* A workflow may be run several times; specs are those it was run with.
Workflows == [state: {"none", "running", "closed"}, specs: SUBSET Specs]

Init ==
  /\ faulty \in SUBSET Faults
  /\ asked \in [Calls -> Requests]
  /\ phase = [c \in Calls |-> "idle"]
  /\ target = [c \in Calls |-> c]
  /\ index = {}
  /\ workflows = [e \in Calls |-> [state |-> "none", specs |-> {}]]
  /\ answer = [c \in Calls |-> "pending"]

Goto(c, p) == phase' = [phase EXCEPT ![c] = p]

End(c, a) ==
  /\ Goto(c, "ended")
  /\ answer' = [answer EXCEPT ![c] = a]

-----------------------------------------------------------------------------
(* The index.                                                              *)

DenyAuthorization(c) ==
  /\ phase[c] = "idle"
  /\ End(c, "failed")
  /\ UNCHANGED <<faulty, asked, target, index, workflows>>

OwnRow(c) == [key |-> asked[c].key, exec |-> c, spec |-> asked[c].spec]

\* Mutant: the index is not looked at before the row is added.
RegisterAnyway(c) ==
  /\ phase[c] = "idle"
  /\ index' = index \cup {OwnRow(c)}
  /\ Goto(c, "starting")
  /\ UNCHANGED <<faulty, asked, target, workflows, answer>>

Register(c) ==
  /\ phase[c] = "idle"
  /\ \A row \in index : row.key # asked[c].key
  /\ index' = index \cup {OwnRow(c)}
  /\ Goto(c, "starting")
  /\ UNCHANGED <<faulty, asked, target, workflows, answer>>

\* Mutant: a replay takes the whole row for the execution id.
ReplayRow(c) ==
  /\ phase[c] = "idle"
  /\ \E row \in index :
       /\ row.key = asked[c].key
       /\ Goto(c, "looking")
       /\ target' = [target EXCEPT ![c] = row]
  /\ UNCHANGED <<faulty, asked, index, workflows, answer>>

\* Mutant: the fingerprint is not compared.
ReplayAnything(c) ==
  /\ phase[c] = "idle"
  /\ \E row \in index :
       /\ row.key = asked[c].key
       /\ Goto(c, "looking")
       /\ target' = [target EXCEPT ![c] = row.exec]
  /\ UNCHANGED <<faulty, asked, index, workflows, answer>>

Replay(c) ==
  /\ phase[c] = "idle"
  /\ \E row \in index :
       /\ row.key = asked[c].key
       /\ IF row.spec = asked[c].spec
          THEN /\ Goto(c, "looking")
               /\ target' = [target EXCEPT ![c] = row.exec]
               /\ UNCHANGED answer
          ELSE End(c, "conflict") /\ UNCHANGED target
  /\ UNCHANGED <<faulty, asked, index, workflows>>

\* Takes back the registration of a workflow that may not have started.
RollbackRegistration(c) ==
  /\ phase[c] = "rolling_back"
  /\ index' = index \ {row \in index : row.key = asked[c].key /\ row.exec = c}
  /\ End(c, "failed")
  /\ UNCHANGED <<faulty, asked, target, workflows>>

\* Mutant: the fingerprint is looked up under the id of the call's own spec.
CheckOwnFingerprint(c) ==
  /\ phase[c] = "checking"
  /\ IF \E row \in index : row.exec = c /\ row.spec = asked[c].spec
     THEN Goto(c, "describing") /\ UNCHANGED answer
     ELSE End(c, "conflict")
  /\ UNCHANGED <<faulty, asked, target, index, workflows>>

\* After WorkflowAlreadyStartedError.
CheckFingerprint(c) ==
  /\ phase[c] = "checking"
  /\ IF \E row \in index : row.exec = target[c] /\ row.spec = asked[c].spec
     THEN Goto(c, "describing") /\ UNCHANGED answer
     ELSE End(c, "conflict")
  /\ UNCHANGED <<faulty, asked, target, index, workflows>>

-----------------------------------------------------------------------------
(* The Temporal server.                                                    *)

Exists(e) == workflows[e].state # "none"

\* The id of a workflow that has closed may be used again: start_workflow is
\* called with the default reuse policy, which allows duplicates.
Run(e, spec) ==
  workflows' = [workflows EXCEPT ![e] =
    [state |-> "running", specs |-> @.specs \cup {spec}]]

StartWorkflow(c) ==
  /\ phase[c] \in {"starting", "restarting"}
  /\ workflows[target[c]].state # "running"
  /\ Run(target[c], asked[c].spec)
  /\ Goto(c, "describing")
  /\ UNCHANGED <<faulty, asked, target, index, answer>>

AlreadyStarted(c) ==
  /\ phase[c] \in {"starting", "restarting"}
  /\ workflows[target[c]].state = "running"
  /\ Goto(c, "checking")
  /\ UNCHANGED <<faulty, asked, target, index, workflows, answer>>

\* RPCError: the call that registered the execution takes that back.
StartFails(c) ==
  /\ phase[c] \in {"starting", "restarting"}
  /\ \/ "refused" \in faulty /\ UNCHANGED workflows
     \/ /\ "lost" \in faulty
        /\ workflows[target[c]].state # "running"
        /\ Run(target[c], asked[c].spec)
  /\ IF phase[c] = "starting"
     THEN Goto(c, "rolling_back") /\ UNCHANGED answer
     ELSE End(c, "failed")
  /\ UNCHANGED <<faulty, asked, target, index>>

Describe(c) ==
  /\ phase[c] \in {"looking", "describing"}
  /\ Exists(target[c])
  /\ End(c, "ok")
  /\ UNCHANGED <<faulty, asked, target, index, workflows>>

\* A replay finds no workflow: its starter has not come so far, or never will.
FindNoWorkflow(c) ==
  /\ phase[c] = "looking"
  /\ ~Exists(target[c])
  /\ Goto(c, "restarting")
  /\ UNCHANGED <<faulty, asked, target, index, workflows, answer>>

QueryFails(c) ==
  /\ phase[c] \in {"looking", "describing"}
  /\ "unanswered" \in faulty
  /\ End(c, "failed")
  /\ UNCHANGED <<faulty, asked, target, index, workflows>>

Crash(c) ==
  /\ phase[c] \notin {"idle", "ended"}
  /\ "crash" \in faulty
  /\ End(c, "failed")
  /\ UNCHANGED <<faulty, asked, target, index, workflows>>

\* The worker brings the workflow to its end, whenever that is.
Close(e) ==
  /\ workflows[e].state = "running"
  /\ workflows' = [workflows EXCEPT ![e].state = "closed"]
  /\ UNCHANGED <<faulty, asked, phase, target, index, answer>>

Next ==
  \/ \E c \in Calls :
       \/ DenyAuthorization(c)
       \/ Register(c)
       \/ Replay(c)
       \/ RollbackRegistration(c)
       \/ CheckFingerprint(c)
       \/ StartWorkflow(c)
       \/ AlreadyStarted(c)
       \/ StartFails(c)
       \/ Describe(c)
       \/ FindNoWorkflow(c)
       \/ QueryFails(c)
       \/ Crash(c)
  \/ \E e \in Calls : Close(e)

Spec == Init /\ [][Next]_vars

-----------------------------------------------------------------------------
(* Properties.                                                             *)

\* Requests, index, workflows and calls hold values of their types.
TypeOK ==
  /\ faulty \subseteq Faults
  /\ asked \in [Calls -> Requests]
  /\ phase \in [Calls -> Phases]
  /\ target \in [Calls -> Calls]
  /\ index \subseteq Rows
  /\ workflows \in [Calls -> Workflows]
  /\ answer \in [Calls -> Answers]

\* Whatever is refused, lost or rolled back: a caller who is told of an
\* execution finds a workflow, and every run of it has the caller's own spec.
AnsweredWithOwnSpec ==
  \A c \in Calls :
    answer[c] = "ok" =>
      /\ Exists(target[c])
      /\ workflows[target[c]].specs = {asked[c].spec}

\* No registration is ever taken back.
RegistrationsStay == faulty \cap {"refused", "lost"} = {}

\* While registrations are not taken back, a key has one execution, although
\* its starter may have ended before the workflow was started and any of the
\* replays may have started it instead; so all callers are told the same one.
OneExecutionPerKey ==
  RegistrationsStay =>
    \A e, f \in Calls :
      Exists(e) /\ Exists(f) /\ asked[e].key = asked[f].key => e = f

\* While registrations are not taken back, a conflict means that the key was
\* used with another spec; losing the race for a workflow is none.
ConflictsAreReal ==
  RegistrationsStay =>
    \A c \in Calls :
      answer[c] = "conflict" =>
        \E d \in Calls : asked[d].key = asked[c].key /\ asked[d].spec # asked[c].spec

\* "Exact replays describe the existing workflow instead of creating a new one":
\* callers who repeat a key are told the same execution.
ReplaysAgree ==
  \A c, d \in Calls :
    answer[c] = "ok" /\ answer[d] = "ok" /\ asked[c].key = asked[d].key
      => target[c] = target[d]

-----------------------------------------------------------------------------
(* The inductive invariant behind AnsweredWithOwnSpec, OneExecutionPerKey  *)
(* and ConflictsAreReal.                                                   *)

\* A call is about the execution it has drawn until it finds another one in the
\* index, and is answered when it ends.
CallsInOrder ==
  \A c \in Calls :
    /\ phase[c] \in {"idle", "starting"} => target[c] = c
    /\ phase[c] # "ended" => answer[c] = "pending"

\* Only calls with one and the same spec ever get to work on an execution: the
\* call that drew its id, and those that found its row in the index.
SpecOfExecution ==
  /\ \A row \in index : row.spec = asked[row.exec].spec
  /\ \A c \in Calls :
       phase[c] # "ended" \/ answer[c] = "ok"
         => asked[c].spec = asked[target[c]].spec
  /\ \A e \in Calls : workflows[e].specs \subseteq {asked[e].spec}

\* A call that describes its execution, or has described it, found a workflow.
DescribedExists ==
  \A c \in Calls :
    phase[c] \in {"checking", "describing"} \/ answer[c] = "ok" => Exists(target[c])

\* A workflow that exists has run, for somebody's spec.
RunsHaveSpecs == \A e \in Calls : Exists(e) => workflows[e].specs # {}

\* The index has one row for a key, with the key of the call that wrote it.
RowOfKey ==
  /\ \A row \in index : row.key = asked[row.exec].key
  /\ \A row, other \in index : row.key = other.key => row = other

\* While registrations are not taken back, what exists on the server and what a
\* call is at work on is registered.
Registered ==
  RegistrationsStay =>
    /\ \A e \in Calls : Exists(e) => \E row \in index : row.exec = e
    /\ \A c \in Calls :
         /\ phase[c] # "rolling_back"
         /\ phase[c] \notin {"idle", "ended"} => \E row \in index : row.exec = target[c]

\* The parts together are inductive.
StartInv ==
  /\ TypeOK
  /\ CallsInOrder
  /\ SpecOfExecution
  /\ DescribedExists
  /\ RunsHaveSpecs
  /\ RowOfKey
  /\ Registered
  /\ ConflictsAreReal

=============================================================================
