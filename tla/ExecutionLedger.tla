---------------------------- MODULE ExecutionLedger ----------------------------
(***************************************************************************)
(* What starting and cancelling executions promises its callers when no    *)
(* Temporal server is involved, as if every call took effect in one        *)
(* instant: one execution for an idempotency key, a status change event    *)
(* for every revision of an execution, and answers taken from the current  *)
(* snapshot.  A call may fail before or after it took effect.              *)
(*                                                                         *)
(* Calls of several processes are not kept from announcing a cancellation  *)
(* again: the copies differ in the event id only.                          *)
(***************************************************************************)
EXTENDS ExecutionStates

CONSTANTS
  Calls,    \* start and cancel invocations; a start draws its execution id
  Earlier,  \* executions that may exist at the beginning
  Found,    \* the statuses these may be in
  Keys,     \* (tenant, idempotency key) pairs
  Specs,    \* the fingerprints of specs
  Scopes,
  ScopeOf   \* the scope is a part of the spec

VARIABLES asked, index, snapshots, outbox, answer

ledgerVars == <<asked, index, snapshots, outbox, answer>>

Executions == Calls \cup Earlier

Requests ==
  [op: {"start"}, key: Keys, spec: Specs]
    \cup [op: {"cancel"}, exec: Executions, scope: Scopes]

Kinds == {"pending", "ok", "conflict", "invalid", "not_found", "failed"}

Reply(kind, exec, status) == [kind |-> kind, exec |-> exec, status |-> status]

Pending(c) == answer[c].kind = "pending"

\* The snapshot a request may see: a foreign scope hides it.
Visible(exec, scope) == {s \in snapshots : s.exec = exec /\ s.scope = scope}

Start(c) ==
  /\ Pending(c)
  /\ asked[c].op = "start"
  /\ \A row \in index : row.key # asked[c].key
  /\ LET new == Snapshot(c, ScopeOf[asked[c].spec], "pending", 1) IN
       /\ index' = index \cup {[key |-> asked[c].key, exec |-> c, spec |-> asked[c].spec]}
       /\ snapshots' = snapshots \cup {new}
       /\ outbox' = outbox \cup {StatusChanged("none", new, c)}
  /\ UNCHANGED <<asked, answer>>

\* Every status on the way to "cancelled" has a revision and an event.
Cancel(c) ==
  /\ Pending(c)
  /\ asked[c].op = "cancel"
  /\ \E s \in Visible(asked[c].exec, asked[c].scope) :
       LET cancelling == IF s.status = "cancelling" THEN s ELSE Advance(s, "cancelling")
           cancelled  == Advance(cancelling, "cancelled")
       IN /\ s.status = "cancelling" \/ CanTransition(s.status, "cancelling")
          /\ snapshots' = (snapshots \ {s}) \cup {cancelled}
          /\ outbox' = outbox \cup {StatusChanged("cancelling", cancelled, c)}
                         \cup IF s = cancelling THEN {}
                              ELSE {StatusChanged(s.status, cancelling, c)}
  /\ UNCHANGED <<asked, index, answer>>

\* Another process has cancelled the execution while c was about to.
CancelAgain(c) ==
  /\ Pending(c)
  /\ asked[c].op = "cancel"
  /\ \E s \in Visible(asked[c].exec, asked[c].scope), d \in Calls \ {c} :
       /\ s.status = "cancelled"
       /\ LET theirs == {e \in outbox : e.exec = s.exec /\ e.by = d /\ e.previous # "none"}
          IN outbox' = outbox \cup {[e EXCEPT !.by = c] : e \in theirs}
  /\ UNCHANGED <<asked, index, snapshots, answer>>

AnswerStarted(c) ==
  /\ asked[c].op = "start"
  /\ \E row \in index :
       /\ row.key = asked[c].key
       /\ row.spec = asked[c].spec
       /\ \E s \in Visible(row.exec, ScopeOf[asked[c].spec]) :
            answer' = [answer EXCEPT ![c] = Reply("ok", s.exec, s.status)]

AnswerConflict(c) ==
  /\ asked[c].op = "start"
  /\ \E row \in index : row.key = asked[c].key /\ row.spec # asked[c].spec
  /\ answer' = [answer EXCEPT ![c] = Reply("conflict", c, "none")]

\* A cancellation is answered when nothing is left to cancel.
AnswerCancelled(c) ==
  /\ asked[c].op = "cancel"
  /\ \E s \in Visible(asked[c].exec, asked[c].scope) :
       /\ s.status \in {"cancelled", "failed"}
       /\ answer' = [answer EXCEPT ![c] = Reply("ok", s.exec, s.status)]

AnswerInvalid(c) ==
  /\ asked[c].op = "cancel"
  /\ \E s \in Visible(asked[c].exec, asked[c].scope) :
       s.status \in {"succeeded", "compensating"}
  /\ answer' = [answer EXCEPT ![c] = Reply("invalid", c, "none")]

AnswerNotFound(c) ==
  /\ asked[c].op = "cancel"
  /\ Visible(asked[c].exec, asked[c].scope) = {}
  /\ answer' = [answer EXCEPT ![c] = Reply("not_found", c, "none")]

AnswerFailed(c) == answer' = [answer EXCEPT ![c] = Reply("failed", c, "none")]

Answer(c) ==
  /\ Pending(c)
  /\ \/ AnswerStarted(c)
     \/ AnswerConflict(c)
     \/ AnswerCancelled(c)
     \/ AnswerInvalid(c)
     \/ AnswerNotFound(c)
     \/ AnswerFailed(c)
  /\ UNCHANGED <<asked, index, snapshots, outbox>>

Next == \E c \in Calls : Start(c) \/ Cancel(c) \/ CancelAgain(c) \/ Answer(c)

Init ==
  /\ asked \in [Calls -> Requests]
  \* Revisions are counted from the one an execution is found in.
  /\ \E there \in SUBSET Earlier :
       \E key \in [there -> Keys], spec \in [there -> Specs], status \in [there -> Found] :
         /\ \A x, y \in there : key[x] = key[y] => x = y
         /\ index = {[key |-> key[x], exec |-> x, spec |-> spec[x]] : x \in there}
         /\ snapshots = {Snapshot(x, ScopeOf[spec[x]], status[x], 1) : x \in there}
  /\ outbox = {}
  /\ answer = [c \in Calls |-> Reply("pending", c, "none")]

Spec == Init /\ [][Next]_ledgerVars

=============================================================================
