---------------------------- MODULE ExecutionStates ----------------------------
(***************************************************************************)
(* The life of an execution, as both orchestrators know it: the legal      *)
(* status transitions and the snapshot, event and index rows built on them.*)
(***************************************************************************)
EXTENDS Naturals

EXECUTION_TRANSITIONS ==
  [pending      |-> {"planning", "cancelling"},
   planning     |-> {"running", "waiting", "cancelling", "failed"},
   running      |-> {"waiting", "retrying", "cancelling", "compensating",
                     "succeeded", "failed"},
   waiting      |-> {"running", "cancelling", "failed"},
   retrying     |-> {"running", "cancelling", "failed"},
   cancelling   |-> {"compensating", "cancelled", "failed"},
   compensating |-> {"cancelled", "failed"},
   succeeded    |-> {},
   failed       |-> {},
   cancelled    |-> {}]

Statuses == DOMAIN EXECUTION_TRANSITIONS

CanTransition(current, target) == target \in EXECUTION_TRANSITIONS[current]

Terminal == {s \in Statuses : EXECUTION_TRANSITIONS[s] = {}}

Snapshot(exec, scope, status, revision) ==
  [exec |-> exec, scope |-> scope, status |-> status, revision |-> revision]

\* The snapshot of the next revision.
Advance(snapshot, target) ==
  [snapshot EXCEPT !.status = target, !.revision = @ + 1]

\* build_execution_status_changed_event: "by" stands for the event id.
StatusChanged(previous, snapshot, by) ==
  [exec |-> snapshot.exec, revision |-> snapshot.revision,
   previous |-> previous, status |-> snapshot.status, by |-> by]

=============================================================================
