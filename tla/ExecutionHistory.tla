---------------------------- MODULE ExecutionHistory ----------------------------
(***************************************************************************)
(* What one execution promises whoever follows it from outside: its events *)
(* are a log to which only the next legal change of status is ever added,  *)
(* the authority moves on to changes that were announced, and the          *)
(* projection is a register that takes any state the execution is known to *)
(* have had, but never one of an earlier revision.                         *)
(***************************************************************************)
EXTENDS ExecutionStates

VARIABLES
  snapshot,     \* [status, revision]: what the authority holds, or NoRow
  events,       \* the log, without the ids of its entries
  projection    \* the row that readers see, or NoRow

vars == <<snapshot, events, projection>>

NoRow == [status |-> "none", revision |-> 0]
First == [status |-> "pending", revision |-> 1]

\* The states that a reader of the log knows of; the last of them.
Known == {First} \cup {[status |-> e.status, revision |-> e.revision] : e \in events}
Latest(s) == s \in Known /\ \A t \in Known : t.revision <= s.revision

Init == snapshot = NoRow /\ events = {} /\ projection = NoRow

Begin ==
  /\ snapshot = NoRow
  /\ snapshot' = First
  /\ UNCHANGED <<events, projection>>

\* An announcement that is repeated changes nothing: entries have no ids here.
Announce(s, target) ==
  /\ snapshot # NoRow
  /\ Latest(s)
  /\ CanTransition(s.status, target)
  /\ events' = events \cup
       {[previous |-> s.status, status |-> target, revision |-> s.revision + 1]}
  /\ UNCHANGED <<snapshot, projection>>

\* Several changes may be taken up at once.
MoveOn(s) ==
  /\ snapshot # NoRow
  /\ Latest(s)
  /\ s.revision > snapshot.revision
  /\ snapshot' = s
  /\ UNCHANGED <<events, projection>>

Project(s) ==
  /\ snapshot # NoRow
  /\ s.revision > projection.revision
  /\ projection' = s
  /\ UNCHANGED <<snapshot, events>>

Next ==
  \/ Begin
  \/ \E s \in Known : MoveOn(s) \/ Project(s) \/ \E target \in Statuses : Announce(s, target)

Spec == Init /\ [][Next]_vars

=============================================================================
