------------------------ MODULE TemporalLifecycleProofs ------------------------
(***************************************************************************)
(* Theorems about TemporalLifecycle and their proofs: LifecycleInv is      *)
(* inductive for any number of cancel calls, attempts per activity and     *)
(* faults.                                                                 *)
(***************************************************************************)
EXTENDS TemporalLifecycle, SequenceTheorems, TLAPS

-----------------------------------------------------------------------------
(* The ways through an execution.                                          *)

LEMMA StatusNames ==
  /\ Statuses = {"pending", "planning", "running", "waiting", "retrying", "cancelling",
                 "compensating", "succeeded", "failed", "cancelled"}
  /\ CanTransition("pending", "planning") /\ CanTransition("pending", "cancelling")
  /\ CanTransition("planning", "running") /\ CanTransition("planning", "cancelling")
  /\ CanTransition("running", "succeeded") /\ CanTransition("running", "cancelling")
  /\ CanTransition("cancelling", "cancelled")
  BY DEF Statuses, CanTransition, EXECUTION_TRANSITIONS

LEMMA HeldFields ==
  ASSUME NEW s \in Held
  PROVE  /\ s = At(s.status, s.revision)
         /\ s.revision \in 1..5 /\ s.status \in Statuses
         /\ s # NoRow /\ s \in [status: Statuses, revision: 1..5]
         /\ s.status = "cancelled" => s.revision \in 3..5
         /\ s.status # "cancelled" => s.revision \in 1..4
         /\ Done(s) <=> s.status \in {"succeeded", "cancelled"}
         /\ s.revision = 1 <=> s = At("pending", 1)
         /\ s.status = StatusOn(s, s.revision)
  BY StatusNames DEF Held, At, NoRow, Done, StatusOn

LEMMA EventFacts ==
  ASSUME NEW s \in Held, NEW n \in 2..s.revision
  PROVE  /\ EventOn(s, n) \in [previous: Statuses, status: Statuses, revision: 2..5]
         /\ EventOn(s, n).revision = n
         /\ EventOn(s, n).previous = StatusOn(s, n - 1)
         /\ EventOn(s, n).status = StatusOn(s, n)
         /\ CanTransition(StatusOn(s, n - 1), StatusOn(s, n))
         /\ n = 2 => StatusOn(s, n - 1) = "pending"
<1>1. /\ StatusOn(s, n - 1) \in Statuses /\ StatusOn(s, n) \in Statuses
      /\ CanTransition(StatusOn(s, n - 1), StatusOn(s, n))
      /\ n = 2 => StatusOn(s, n - 1) = "pending"
  BY StatusNames DEF Held, At, StatusOn
<1>2. n \in 2..5  BY HeldFields
<1> QED  BY <1>1, <1>2 DEF EventOn, Event, At

LEMMA SameWay ==
  ASSUME NEW s \in Held, NEW goal \in Held, Towards(s, goal)
  PROVE  \A n \in 2..s.revision :
           /\ n \in 2..goal.revision /\ EventOn(s, n) = EventOn(goal, n)
           /\ StatusOn(s, n) = StatusOn(goal, n)
<1> TAKE n \in 2..s.revision
<1>1. s.revision \in Nat /\ goal.revision \in Nat /\ s.revision <= goal.revision
  BY HeldFields DEF Towards
<1>2. n \in 1..s.revision /\ n - 1 \in 1..s.revision /\ n \in 2..goal.revision
  BY <1>1
<1>3. StatusOn(s, n) = StatusOn(goal, n) /\ StatusOn(s, n - 1) = StatusOn(goal, n - 1)
  BY <1>2 DEF Towards
<1> QED  BY <1>2, <1>3 DEF EventOn

LEMMA TowardsFurther ==
  ASSUME NEW s \in Held, NEW goal \in Held, NEW further \in Held,
         Towards(s, goal), Towards(goal, further)
  PROVE  Towards(s, further)
  BY HeldFields DEF Towards

LEMMA TowardsItself == \A s \in Held : Towards(s, s)
  BY HeldFields DEF Towards

\* What is final stays the goal.
LEMMA FinalGoal ==
  ASSUME NEW s \in Held, NEW goal \in Held, Towards(s, goal), Done(s)
  PROVE  goal = s
<1>1. s.status = StatusOn(goal, s.revision) /\ s.revision <= goal.revision
  BY HeldFields DEF Towards
<1> QED  BY <1>1 DEF Held, At, StatusOn, Done

\* Two results of one activity on one way are the same.
LEMMA OneResult ==
  ASSUME NEW s \in Held, NEW goal \in Held, Towards(s, goal), s.status = goal.status
  PROVE  s = goal
<1>1. s.status = StatusOn(goal, s.revision) /\ s.revision <= goal.revision
  BY HeldFields DEF Towards
<1>2. s.status # "cancelled" => s.revision = goal.revision
  BY DEF Held, At
<1>3. s.status = "cancelled" => s.revision = goal.revision
  <2> SUFFICES ASSUME s.status = "cancelled"  PROVE s.revision = goal.revision
    OBVIOUS
  <2>1. StatusOn(goal, s.revision) = "cancelled"  BY <1>1
  <2> QED  BY <2>1 DEF StatusOn
<1> QED  BY <1>2, <1>3, HeldFields

-----------------------------------------------------------------------------
(* The work of an activity.                                                *)

LEMMA WriteFacts ==
  ASSUME NEW previous \in Statuses, NEW s \in [status: Statuses, revision: 1..5]
  PROVE  /\ Write(previous, s) \in Seq(WriteOps) /\ Len(Write(previous, s)) = 2
         /\ Write(previous, s)[1] = Publish(previous, s)
         /\ Write(previous, s)[2] = Upsert(previous, s)
  BY DEF Write, Publish, Upsert, WriteOps

LEMMA TwoWrites ==
  ASSUME NEW p \in Statuses, NEW s \in [status: Statuses, revision: 1..5],
         NEW q \in Statuses, NEW u \in [status: Statuses, revision: 1..5]
  PROVE  LET w == Write(p, s) \o Write(q, u) IN
         /\ w \in Seq(WriteOps) /\ Len(w) = 4
         /\ w[1] = Publish(p, s) /\ w[2] = Upsert(p, s)
         /\ w[3] = Publish(q, u) /\ w[4] = Upsert(q, u)
<1> DEFINE v == Write(p, s)
           x == Write(q, u)
<1>1. /\ v \in Seq(WriteOps) /\ Len(v) = 2 /\ x \in Seq(WriteOps) /\ Len(x) = 2
      /\ v[1] = Publish(p, s) /\ v[2] = Upsert(p, s)
      /\ x[1] = Publish(q, u) /\ x[2] = Upsert(q, u)
  BY WriteFacts
<1> HIDE DEF v, x
<1>2. /\ v \o x \in Seq(WriteOps) /\ Len(v \o x) = Len(v) + Len(x)
      /\ \A i \in 1..(Len(v) + Len(x)) :
           (v \o x)[i] = IF i <= Len(v) THEN v[i] ELSE x[i - Len(v)]
  BY <1>1, ConcatProperties, Zenon
<1> DEFINE w == v \o x
<1>3. /\ w \in Seq(WriteOps) /\ Len(w) = 4
      /\ \A i \in 1..4 : w[i] = IF i <= 2 THEN v[i] ELSE x[i - 2]
  BY <1>1, <1>2
<1> HIDE DEF w
<1>4. w[1] = v[1] /\ w[2] = v[2] /\ w[3] = x[1] /\ w[4] = x[2]
  BY <1>3
<1> QED  BY <1>1, <1>3, <1>4 DEF v, w, x

\* What an attempt of an activity does when it is given a snapshot.
LEMMA AdvanceWork ==
  ASSUME NEW s \in Held, ~Done(s), NEW activity \in {"planning", "running", "succeeded"},
         Work(activity, s).result \in Held
  PROVE  LET w == Work(activity, s) IN
         /\ w.result = At(activity, s.revision + 1)
         /\ w.todo \in Seq(WriteOps) /\ Len(w.todo) = 2
         /\ w.todo[1] = WriteLeft(w.result, 2) /\ w.todo[2] = WriteLeft(w.result, 1)
         /\ Towards(s, w.result)
<1>1. Work(activity, s) = [todo |-> Write(s.status, At(activity, s.revision + 1)),
                           result |-> At(activity, s.revision + 1)]
  BY DEF Work, Transition
<1>2. At(activity, s.revision + 1) \in Held  BY <1>1
<1> DEFINE next == At(activity, s.revision + 1)
<1>3. /\ s.status = StatusOn(next, next.revision - 1)
      /\ activity = StatusOn(next, next.revision)
      /\ next.revision = s.revision + 1 /\ next.status = activity
  BY <1>2 DEF Held, At, StatusOn, Done
<1>4. /\ WriteLeft(next, 2) = Publish(s.status, next)
      /\ WriteLeft(next, 1) = Upsert(s.status, next)
  BY <1>2, <1>3, HeldFields DEF WriteLeft
<1>5. Towards(s, next)
  BY <1>2 DEF Held, At, StatusOn, Towards, Done
<1>6. s.status \in Statuses /\ next \in [status: Statuses, revision: 1..5]
  BY <1>2, HeldFields
<1> QED  BY <1>1, <1>4, <1>5, <1>6, WriteFacts

LEMMA CancellationWork ==
  ASSUME NEW s \in Held, ~Done(s)
  PROVE  LET w == Work("cancel", s) IN
         /\ w.result = At("cancelled", s.revision + 2) /\ w.result \in Held
         /\ w.todo \in Seq(WriteOps) /\ Len(w.todo) = 4
         /\ \A k \in 1..4 : w.todo[5 - k] = WriteLeft(w.result, k)
         /\ Towards(s, w.result)
<1> DEFINE c == At("cancelling", s.revision + 1)
           d == At("cancelled", s.revision + 2)
<1>1. /\ s.status \in {"pending", "planning", "running"}
      /\ s.status # "cancelling" /\ CanTransition(s.status, "cancelling")
  BY StatusNames DEF Held, At, Done
<1>2. Transition(s, "cancelling") = c /\ Transition(c, "cancelled") = d /\ s # c
  BY <1>1, HeldFields DEF Transition, At
<1>3. Work("cancel", s) = [todo |-> Write(s.status, c) \o Write("cancelling", d),
                           result |-> d]
  BY <1>1, <1>2 DEF Work, CancelWork
<1>4. d \in Held /\ d.revision = s.revision + 2 /\ d.status = "cancelled"
      /\ s.revision \in 1..3
  BY <1>1 DEF Held, At
<1>5. /\ StatusOn(d, s.revision) = s.status
      /\ StatusOn(d, s.revision + 1) = "cancelling"
      /\ StatusOn(d, s.revision + 2) = "cancelled"
  BY <1>1, <1>4 DEF Held, At, StatusOn
<1>6. /\ WriteLeft(d, 4) = Publish(s.status, c) /\ WriteLeft(d, 3) = Upsert(s.status, c)
      /\ WriteLeft(d, 2) = Publish("cancelling", d) /\ WriteLeft(d, 1) = Upsert("cancelling", d)
  <2>1. d.revision - 1 = s.revision + 1 /\ d.revision - 1 - 1 = s.revision
    BY <1>4
  <2> HIDE DEF d
  <2> QED  BY <1>4, <1>5, <2>1 DEF WriteLeft, d
<1>7. Towards(s, d)  BY <1>1, <1>4 DEF Held, At, StatusOn, Towards
<1>8. /\ s.status \in Statuses /\ "cancelling" \in Statuses
      /\ c \in [status: Statuses, revision: 1..5] /\ d \in [status: Statuses, revision: 1..5]
  BY <1>4, StatusNames, HeldFields DEF At
<1> DEFINE w == Write(s.status, c) \o Write("cancelling", d)
<1>9. /\ w \in Seq(WriteOps) /\ Len(w) = 4
      /\ w[1] = Publish(s.status, c) /\ w[2] = Upsert(s.status, c)
      /\ w[3] = Publish("cancelling", d) /\ w[4] = Upsert("cancelling", d)
  BY <1>8, TwoWrites, Zenon
<1> HIDE DEF c, d, w
<1>10. \A k \in 1..4 : w[5 - k] = WriteLeft(d, k)
  BY <1>6, <1>9
<1>11. Work("cancel", s).todo = w /\ Work("cancel", s).result = d
  <2>1. Work("cancel", s) = [todo |-> w, result |-> d]  BY <1>3 DEF d, w, c
  <2> QED  BY <2>1
<1>12. d = At("cancelled", s.revision + 2)  BY DEF d
<1> QED  BY <1>4, <1>7, <1>9, <1>10, <1>11, <1>12

\* An attempt that has only begun is on the way to its result.
LEMMA WorkBegins ==
  ASSUME NEW s \in Held, ~Done(s), NEW activity \in Activities, NEW try,
         Work(activity, s).result \in Held,
         \A n \in 2..s.revision : EventOn(s, n) \in events
  PROVE  /\ Towards(s, Work(activity, s).result)
         /\ Working([activity |-> activity, try |-> try, todo |-> Work(activity, s).todo,
                     result |-> Work(activity, s).result], Work(activity, s).result)
<1> DEFINE w == Work(activity, s)
           a == [activity |-> activity, try |-> try, todo |-> w.todo, result |-> w.result]
<1>1. CASE activity # "cancel"
  <2>1. /\ w.result = At(activity, s.revision + 1)
        /\ w.todo \in Seq(WriteOps) /\ Len(w.todo) = 2
        /\ w.todo[1] = WriteLeft(w.result, 2) /\ w.todo[2] = WriteLeft(w.result, 1)
        /\ Towards(s, w.result)
    BY <1>1, AdvanceWork DEF Activities
  <2>2. /\ w.result \in Held \ {At("pending", 1)} /\ w.result.status = activity
        /\ activity # "cancelled" /\ w.result.revision = s.revision + 1
    BY <1>1, <2>1 DEF Activities, At
  <2> HIDE DEF w
  <2>3. \A i \in 1..2 : w.todo[i] = WriteLeft(w.result, 3 - i)
    BY <2>1
  <2>4. Towards(w.result, w.result)  BY <2>2, TowardsItself
  <2>5. \A n \in 2..w.result.revision :
          2 <= 2 * (w.result.revision - n) + 1 => EventOn(w.result, n) \in events
    BY <2>1, <2>2, SameWay, HeldFields
  <2>6. a.activity = activity /\ a.todo = w.todo /\ a.result = w.result  OBVIOUS
  <2> HIDE DEF a
  <2>7. \A i \in 1..Len(a.todo) : a.todo[i] = WriteLeft(a.result, Len(a.todo) + 1 - i)
    <3> SUFFICES ASSUME NEW i \in 1..Len(a.todo)
                 PROVE  a.todo[i] = WriteLeft(a.result, Len(a.todo) + 1 - i)
      OBVIOUS
    <3>1. Len(a.todo) = 2  BY <2>1, <2>6
    <3>2. i \in 1..2 /\ Len(a.todo) + 1 - i = 3 - i  BY <3>1
    <3> QED  BY <2>3, <2>6, <3>2
  <2>8. \A n \in 2..a.result.revision :
          Len(a.todo) <= 2 * (a.result.revision - n) + 1 => EventOn(a.result, n) \in events
    BY <2>1, <2>5, <2>6
  <2>9. Working(a, w.result)
    BY <1>1, <2>1, <2>2, <2>4, <2>6, <2>7, <2>8 DEF Working
  <2> QED  BY <2>1, <2>9 DEF a, w
<1>2. CASE activity = "cancel"
  <2>1. /\ w.result = At("cancelled", s.revision + 2) /\ w.result \in Held
        /\ w.todo \in Seq(WriteOps) /\ Len(w.todo) = 4
        /\ \A k \in 1..4 : w.todo[5 - k] = WriteLeft(w.result, k)
        /\ Towards(s, w.result)
    BY <1>2, CancellationWork
  <2>2. /\ w.result \in Held \ {At("pending", 1)} /\ w.result.status = "cancelled"
        /\ w.result.revision = s.revision + 2
    BY <2>1 DEF At
  <2> HIDE DEF w
  <2>3. \A i \in 1..4 : w.todo[i] = WriteLeft(w.result, 5 - i)
    <3> TAKE i \in 1..4
    <3>1. 5 - i \in 1..4 /\ 5 - (5 - i) = i  OBVIOUS
    <3> QED  BY <2>1, <3>1
  <2>4. Towards(w.result, w.result)  BY <2>2, TowardsItself
  <2>5. \A n \in 2..w.result.revision :
          4 <= 2 * (w.result.revision - n) + 1 => EventOn(w.result, n) \in events
    BY <2>1, <2>2, SameWay, HeldFields
  <2>6. a.activity = activity /\ a.todo = w.todo /\ a.result = w.result  OBVIOUS
  <2> HIDE DEF a
  <2>7. \A i \in 1..Len(a.todo) : a.todo[i] = WriteLeft(a.result, Len(a.todo) + 1 - i)
    <3> SUFFICES ASSUME NEW i \in 1..Len(a.todo)
                 PROVE  a.todo[i] = WriteLeft(a.result, Len(a.todo) + 1 - i)
      OBVIOUS
    <3>1. Len(a.todo) = 4  BY <2>1, <2>6
    <3>2. i \in 1..4 /\ Len(a.todo) + 1 - i = 5 - i  BY <3>1
    <3> QED  BY <2>3, <2>6, <3>2
  <2>8. \A n \in 2..a.result.revision :
          Len(a.todo) <= 2 * (a.result.revision - n) + 1 => EventOn(a.result, n) \in events
    BY <2>1, <2>5, <2>6
  <2>9. Working(a, w.result)
    <3>1. a.todo \in Seq(WriteOps) /\ Len(a.todo) = 4  BY <2>1, <2>6
    <3>2. a.result \in Held \ {At("pending", 1)} /\ a.result.status = "cancelled"
          /\ Towards(a.result, w.result) /\ a.activity = "cancel"
      BY <1>2, <2>2, <2>4, <2>6
    <3> QED  BY <2>7, <2>8, <3>1, <3>2 DEF Working
  <2> QED  BY <2>1, <2>9 DEF a, w
<1> QED  BY <1>1, <1>2

LEMMA NextIsLegal ==
  ASSUME snapshot \in Held, ~Done(snapshot)
  PROVE  NextActivity \in Activities /\ Work(NextActivity, snapshot).result \in Held
<1>1. CASE cancelAsked  BY <1>1, CancellationWork DEF NextActivity, Activities
<1>2. CASE ~cancelAsked
  BY <1>2 DEF NextActivity, Activities, Work, Transition, Held, At, Done
<1> QED  BY <1>1, <1>2

LEMMA ResultOfWork ==
  ASSUME NEW s \in Held, ~Done(s), NEW activity \in Activities,
         Work(activity, s).result \in Held
  PROVE  activity = IF Work(activity, s).result.status = "cancelled" THEN "cancel"
                    ELSE Work(activity, s).result.status
<1>1. CASE activity = "cancel"
  <2>1. Work(activity, s).result = At("cancelled", s.revision + 2)
    BY <1>1, CancellationWork
  <2> QED  BY <1>1, <2>1 DEF At
<1>2. CASE activity # "cancel"
  <2>1. Work(activity, s).result = At(activity, s.revision + 1)
    BY <1>2, AdvanceWork DEF Activities
  <2> QED  BY <1>2, <2>1 DEF At, Activities
<1> QED  BY <1>1, <1>2

-----------------------------------------------------------------------------
(* What a step leaves as it is.                                            *)

LEMMA WorkingStays ==
  ASSUME NEW goal \in Held, NEW further \in Held, Towards(goal, further),
         events \subseteq events', NEW a, Working(a, goal)
  PROVE  Working(a, further)'
<1>1. Towards(a.result, further)  BY TowardsFurther DEF Working
<1> QED  BY <1>1 DEF Working

LEMMA ReportedStays ==
  ASSUME NEW goal \in Held, NEW further \in Held, Towards(goal, further),
         events \subseteq events', NEW s, Reported(s, goal)
  PROVE  Reported(s, further)'
<1>1. s.revision \in 1..goal.revision /\ s.revision \in 1..further.revision
  BY HeldFields DEF Reported, Towards
<1>2. StatusOn(goal, s.revision) = StatusOn(further, s.revision)
  BY <1>1 DEF Towards
<1>3. s.revision > 1 => EventOn(goal, s.revision) = EventOn(further, s.revision)
  <2> SUFFICES ASSUME s.revision > 1
               PROVE  EventOn(goal, s.revision) = EventOn(further, s.revision)
    OBVIOUS
  <2>1. s.revision \in 2..goal.revision  BY <1>1
  <2> QED  BY <2>1, SameWay
<1> QED  BY <1>1, <1>2, <1>3 DEF Reported

\* A step that announces nothing, with the old goal or a further one.
LEMMA HeadingStays ==
  ASSUME NEW goal \in Held, NEW further \in Held, Heading(goal), Towards(goal, further),
         UNCHANGED events,
         snapshot' \in Held, Towards(snapshot', further),
         workflow' = "running" =>
           further = IF Waiting' THEN Work(scheduled'.activity, snapshot').result
                     ELSE snapshot',
         \A n \in 2..snapshot'.revision : EventOn(further, n) \in events,
         \A a \in attempts' : a \in attempts \/ Working(a, further)',
         projection' = projection \/ Reported(projection', goal),
         starter'.at = "projecting" => starter' = starter \/ Reported(starter'.told, goal)
  PROVE  Heading(further)'
<1>1. \A n \in 2..goal.revision : n \in 2..further.revision /\ EventOn(goal, n) = EventOn(further, n)
  BY SameWay
<1>2. goal.revision \in Nat /\ further.revision \in Nat  BY HeldFields
<1>3. \A e \in events : e.revision \in 2..further.revision /\ e = EventOn(further, e.revision)
  BY <1>1 DEF Heading
<1>4. ASSUME NEW n \in 3..further.revision, EventOn(further, n) \in events
      PROVE  EventOn(further, n - 1) \in events
  <2>1. EventOn(further, n).revision = n  BY <1>2, <1>4, EventFacts
  <2>2. n \in 2..goal.revision  BY <1>4, <2>1 DEF Heading
  <2>3. n \in 3..goal.revision /\ n - 1 \in 2..goal.revision  BY <1>2, <1>4, <2>2
  <2> QED  BY <1>1, <1>4, <2>2, <2>3 DEF Heading
<1>5. \A a \in attempts' : Working(a, further)'  BY WorkingStays DEF Heading
<1>6. projection' = NoRow \/ Reported(projection, further)'
  <2>1. \A s : Reported(s, goal) => Reported(s, further)'  BY ReportedStays
  <2>2. projection' = NoRow \/ Reported(projection', goal)  BY DEF Heading
  <2> QED  BY <2>1, <2>2 DEF Reported
<1>7. starter'.at = "projecting" => Reported(starter.told, further)'
  <2>1. \A s : Reported(s, goal) => Reported(s, further)'  BY ReportedStays
  <2>2. starter'.at = "projecting" => Reported(starter'.told, goal)  BY DEF Heading
  <2> QED  BY <2>1, <2>2 DEF Reported
<1> QED  BY <1>3, <1>4, <1>5, <1>6, <1>7 DEF Heading, Waiting

-----------------------------------------------------------------------------
(* A write of an attempt.                                                  *)

LEMMA WriteOf ==
  ASSUME NEW goal \in Held, NEW a, Working(a, goal), a.todo # <<>>
  PROVE  LET k == Len(a.todo)
             n == IF k > 2 THEN a.result.revision - 1 ELSE a.result.revision
             s == At(StatusOn(goal, n), n) IN
         /\ k \in 1..4 /\ n \in 2..goal.revision /\ n \in 2..a.result.revision
         /\ EventOn(a.result, n) = EventOn(goal, n)
         /\ Head(a.todo) = IF k \in {2, 4} THEN Publish(StatusOn(goal, n - 1), s)
                           ELSE Upsert(StatusOn(goal, n - 1), s)
         /\ Tail(a.todo) \in Seq(WriteOps) /\ Len(Tail(a.todo)) = k - 1
         /\ \A i \in 1..(k - 1) : Tail(a.todo)[i] = WriteLeft(a.result, k - i)
         /\ k \in {1, 3} => EventOn(goal, n) \in events
         /\ n > 2 => EventOn(goal, n - 1) \in events \/ (k = 1 /\ EventOn(goal, n) \in events)
<1> DEFINE k == Len(a.todo)
           r == a.result
           n == IF k > 2 THEN r.revision - 1 ELSE r.revision
<1>1. /\ r \in Held /\ r.revision \in 2..5 /\ Towards(r, goal)
      /\ r.status = "cancelled" => r.revision \in 3..5
  BY HeldFields DEF Working
<1>2. /\ a.todo \in Seq(WriteOps) /\ k \in Nat /\ k # 0
      /\ k <= IF r.status = "cancelled" THEN 4 ELSE 2
  <2>1. a.todo \in Seq(WriteOps) /\ a.todo # <<>>  BY DEF Working
  <2>2. Len(a.todo) \in Nat /\ Len(a.todo) # 0  BY <2>1, EmptySeq
  <2>3. a.activity = "cancel" <=> r.status = "cancelled"
    <3>1. r.status # "cancel"  BY <1>1, StatusNames, HeldFields
    <3> QED  BY <3>1 DEF Working
  <2>4. Len(a.todo) <= IF a.activity = "cancel" THEN 4 ELSE 2  BY DEF Working
  <2> QED  BY <2>1, <2>2, <2>3, <2>4
<1> HIDE DEF k
<1>3. k \in 1..4 /\ n \in 2..r.revision  BY <1>1, <1>2
<1>4. /\ n \in 2..goal.revision /\ EventOn(r, n) = EventOn(goal, n)
      /\ StatusOn(r, n) = StatusOn(goal, n)
  BY <1>1, <1>3, SameWay DEF Working
<1>5. StatusOn(r, n - 1) = StatusOn(goal, n - 1)
  <2>1. n - 1 \in 1..r.revision  BY <1>1, <1>3
  <2> QED  BY <1>1, <2>1 DEF Towards
<1>6. Head(a.todo) = WriteLeft(r, k)
  <2>1. Head(a.todo) = a.todo[1]  BY <1>2
  <2>2. 1 \in 1..k /\ k + 1 - 1 = k  BY <1>3
  <2> QED  BY <2>1, <2>2 DEF Working, k
<1>7. /\ Tail(a.todo) \in Seq(WriteOps) /\ Len(Tail(a.todo)) = k - 1
      /\ \A i \in 1..(k - 1) : Tail(a.todo)[i] = a.todo[i + 1]
  BY <1>2, HeadTailProperties DEF k
<1>8. \A i \in 1..(k - 1) : Tail(a.todo)[i] = WriteLeft(r, k - i)
  <2> SUFFICES ASSUME NEW i \in 1..(k - 1)  PROVE Tail(a.todo)[i] = WriteLeft(r, k - i)
    OBVIOUS
  <2>1. i + 1 \in 1..k /\ k + 1 - (i + 1) = k - i  BY <1>3
  <2> QED  BY <1>7, <2>1 DEF Working, k
<1>9. \A m \in 2..r.revision : k <= 2 * (r.revision - m) + 1 => EventOn(goal, m) \in events
  BY <1>1, SameWay DEF Working, k
<1>10. k \in {1, 3} => EventOn(goal, n) \in events
  BY <1>1, <1>3, <1>9
<1>11. n > 2 => EventOn(goal, n - 1) \in events \/ (k = 1 /\ EventOn(goal, n) \in events)
  <2> SUFFICES ASSUME n > 2, k # 1  PROVE EventOn(goal, n - 1) \in events
    BY <1>10
  <2>1. n - 1 \in 2..r.revision /\ k <= 2 * (r.revision - (n - 1)) + 1
    <3>1. PICK m \in 2..5 : m = r.revision  BY <1>1
    <3>2. CASE k = 2
      <4>1. n = m /\ n - 1 \in 2..m /\ 2 <= 2 * (m - (n - 1)) + 1  BY <3>1, <3>2
      <4> QED  BY <3>1, <3>2, <4>1
    <3>3. CASE k \in {3, 4}
      <4>1. n = m - 1 /\ n - 1 \in 2..m /\ k <= 2 * (m - (n - 1)) + 1  BY <3>1, <3>3
      <4> QED  BY <3>1, <4>1
    <3> QED  BY <1>3, <3>2, <3>3
  <2> QED  BY <1>9, <2>1
<1> HIDE DEF k, r, n
<1>12. WriteLeft(r, k) = IF k \in {2, 4}
                         THEN Publish(StatusOn(goal, n - 1), At(StatusOn(goal, n), n))
                         ELSE Upsert(StatusOn(goal, n - 1), At(StatusOn(goal, n), n))
  BY <1>4, <1>5 DEF WriteLeft, n
<1> QED
  BY <1>3, <1>4, <1>6, <1>7, <1>8, <1>10, <1>11, <1>12 DEF k, n, r

LEMMA PerformedAttempt ==
  ASSUME NEW goal \in Held, NEW a \in attempts, TypeOK, Working(a, goal), Perform(a)
  PROVE  LET b == [a EXCEPT !.todo = Tail(@)] IN
         /\ attempts' = (attempts \ {a}) \cup {b}
         /\ b.activity = a.activity /\ b.try = a.try /\ b.result = a.result
         /\ b.todo = Tail(a.todo)
         /\ b \in [activity: Activities, try: 1..MaxAttempts, todo: Seq(WriteOps),
                   result: [status: Statuses, revision: 1..5]]
<1>1. a \in [activity: Activities, try: 1..MaxAttempts, todo: Seq(WriteOps),
             result: [status: Statuses, revision: 1..5]]
  BY DEF TypeOK
<1>2. Tail(a.todo) \in Seq(WriteOps)  BY WriteOf DEF Perform
<1>3. attempts' = (attempts \ {a}) \cup {[a EXCEPT !.todo = Tail(@)]}  BY DEF Perform
<1> QED  BY <1>1, <1>2, <1>3

\* What the head of the writes does, and what is left after it.
LEMMA PerformEffect ==
  ASSUME NEW goal \in Held, NEW a \in attempts, TypeOK, Working(a, goal), Perform(a)
  PROVE  /\ \E n \in 2..goal.revision :
              \/ /\ events' = events \cup {EventOn(goal, n)} /\ UNCHANGED projection
                 /\ n > 2 => EventOn(goal, n - 1) \in events
              \/ /\ UNCHANGED events /\ EventOn(goal, n) \in events
                 /\ UpsertSnapshot(At(StatusOn(goal, n), n))
         /\ Working([a EXCEPT !.todo = Tail(@)], goal)'
<1> DEFINE k == Len(a.todo)
           r == a.result
           n == IF k > 2 THEN r.revision - 1 ELSE r.revision
           s == At(StatusOn(goal, n), n)
           w == Head(a.todo)
           b == [a EXCEPT !.todo = Tail(@)]
<1>1. /\ k \in 1..4 /\ n \in 2..goal.revision /\ n \in 2..r.revision
      /\ EventOn(r, n) = EventOn(goal, n)
      /\ w = IF k \in {2, 4} THEN Publish(StatusOn(goal, n - 1), s)
             ELSE Upsert(StatusOn(goal, n - 1), s)
      /\ Tail(a.todo) \in Seq(WriteOps) /\ Len(Tail(a.todo)) = k - 1
      /\ \A i \in 1..(k - 1) : Tail(a.todo)[i] = WriteLeft(r, k - i)
      /\ k \in {1, 3} => EventOn(goal, n) \in events
      /\ n > 2 => EventOn(goal, n - 1) \in events \/ (k = 1 /\ EventOn(goal, n) \in events)
  BY WriteOf DEF Perform
<1>2. /\ b.activity = a.activity /\ b.result = r /\ b.todo = Tail(a.todo)
  BY PerformedAttempt
<1>3. IF w.op = "publish"
      THEN events' = events \cup {Event(w.previous, w.snapshot)} /\ UNCHANGED projection
      ELSE UpsertSnapshot(w.snapshot) /\ UNCHANGED events
  BY DEF Perform
<1>4. r \in Held /\ r.revision \in 2..5 /\ n = IF k > 2 THEN r.revision - 1 ELSE r.revision
  BY HeldFields DEF Working
<1>5. \A m \in 2..r.revision : k <= 2 * (r.revision - m) + 1 => EventOn(r, m) \in events
  BY DEF Working
<1>6. /\ Towards(r, goal) /\ r \in Held \ {At("pending", 1)}
      /\ a.activity = IF r.status = "cancelled" THEN "cancel" ELSE r.status
      /\ k <= IF a.activity = "cancel" THEN 4 ELSE 2
  BY DEF Working
<1> HIDE DEF k, n, w, b, r
<1>7. ASSUME k \in {2, 4}
      PROVE  /\ events' = events \cup {EventOn(goal, n)} /\ UNCHANGED projection
             /\ n > 2 => EventOn(goal, n - 1) \in events
  <2>1. w.op = "publish" /\ Event(w.previous, w.snapshot) = EventOn(goal, n)
    BY <1>1, <1>7 DEF Publish, EventOn
  <2>2. events' = events \cup {EventOn(goal, n)} /\ UNCHANGED projection
    BY <1>3, <2>1
  <2> QED  BY <1>1, <1>7, <2>2
<1>8. ASSUME k \notin {2, 4}
      PROVE  /\ UNCHANGED events /\ EventOn(goal, n) \in events
             /\ UpsertSnapshot(s)
  <2>1. w.op = "upsert" /\ w.snapshot = s
    BY <1>1, <1>8 DEF Upsert
  <2>2. UNCHANGED events /\ UpsertSnapshot(s)
    BY <1>3, <2>1
  <2>3. k \in {1, 3}  BY <1>1, <1>8
  <2> QED  BY <1>1, <2>2, <2>3
<1>9. \A m \in 2..r.revision : k - 1 <= 2 * (r.revision - m) + 1 => EventOn(r, m) \in events'
  <2> SUFFICES ASSUME NEW m \in 2..r.revision, k - 1 <= 2 * (r.revision - m) + 1
               PROVE  EventOn(r, m) \in events'
    OBVIOUS
  <2>1. events \subseteq events'  BY <1>7, <1>8, <1>3
  <2>2. CASE k <= 2 * (r.revision - m) + 1  BY <1>5, <2>1, <2>2
  <2>3. CASE k > 2 * (r.revision - m) + 1
    <3>1. PICK v \in 2..5 : v = r.revision /\ m \in 2..v  BY <1>4
    <3>2. k = 2 * (v - m) + 2  BY <1>1, <2>3, <3>1
    <3>3. k \in {2, 4} /\ m = n
      <4>1. CASE k = 2
        <5>1. m = v
          <6>1. \A x \in Nat : 2 = 2 * x + 2 => x = 0  OBVIOUS
          <6>2. v - m \in Nat /\ v \in Nat /\ m \in Nat  BY <3>1
          <6>3. v - m = 0  BY <3>2, <4>1, <6>1, <6>2, Zenon
          <6> QED  BY <6>2, <6>3
        <5>2. n = v  BY <1>4, <3>1, <4>1
        <5> QED  BY <4>1, <5>1, <5>2
      <4>2. CASE k = 4  BY <1>4, <3>1, <3>2, <4>2
      <4>3. k # 1 /\ k # 3  BY <3>1, <3>2
      <4> QED  BY <1>1, <4>1, <4>2, <4>3
    <3>4. w.op = "publish" /\ Event(w.previous, w.snapshot) = EventOn(goal, n)
      BY <1>1, <3>3 DEF Publish, EventOn
    <3> QED  BY <1>1, <1>3, <3>3, <3>4
  <2> QED  BY <1>1, <1>4, <2>2, <2>3
<1>10. Working(b, goal)'
  <2>1. Len(b.todo) = k - 1 /\ b.todo \in Seq(WriteOps) /\ k \in Nat
    BY <1>1, <1>2
  <2>2. \A i \in 1..Len(b.todo) : b.todo[i] = WriteLeft(b.result, Len(b.todo) + 1 - i)
    <3> SUFFICES ASSUME NEW i \in 1..(k - 1)
                 PROVE  b.todo[i] = WriteLeft(r, k - 1 + 1 - i)
      BY <1>2, <2>1
    <3>1. k - 1 + 1 - i = k - i  BY <1>1
    <3> QED  BY <1>1, <1>2, <3>1
  <2>3. \A m \in 2..b.result.revision :
          Len(b.todo) <= 2 * (b.result.revision - m) + 1 => EventOn(b.result, m) \in events'
    BY <1>2, <1>9, <2>1
  <2>4. Len(b.todo) <= IF b.activity = "cancel" THEN 4 ELSE 2
    <3>1. k - 1 <= IF a.activity = "cancel" THEN 4 ELSE 2  BY <1>6, <2>1
    <3> QED  BY <1>2, <2>1, <3>1
  <2> QED  BY <1>2, <1>6, <2>1, <2>2, <2>3, <2>4 DEF Working
<1> QED  BY <1>1, <1>7, <1>8, <1>10 DEF b

LEMMA PerformHeading ==
  ASSUME TypeOK, NEW goal \in Held, Heading(goal), NEW a \in attempts, Perform(a)
  PROVE  Heading(goal)'
<1> DEFINE b == [a EXCEPT !.todo = Tail(@)]
<1>1. Working(a, goal)  BY DEF Heading
<1>2. attempts' = (attempts \ {a}) \cup {b} /\ Working(b, goal)'
  BY <1>1, PerformedAttempt, PerformEffect
<1>3. UNCHANGED <<workflow, snapshot, scheduled, starter>>  BY DEF Perform
<1>4. goal.revision \in Nat /\ Towards(goal, goal)  BY HeldFields, TowardsItself
<1>5. PICK n \in 2..goal.revision :
        \/ /\ events' = events \cup {EventOn(goal, n)} /\ UNCHANGED projection
           /\ n > 2 => EventOn(goal, n - 1) \in events
        \/ /\ UNCHANGED events /\ EventOn(goal, n) \in events
           /\ UpsertSnapshot(At(StatusOn(goal, n), n))
  BY <1>1, PerformEffect
<1> HIDE DEF b
<1>6. CASE /\ events' = events \cup {EventOn(goal, n)} /\ UNCHANGED projection
           /\ n > 2 => EventOn(goal, n - 1) \in events
  <2>1. EventOn(goal, n).revision = n  BY EventFacts
  <2>2. \A e \in events' : e.revision \in 2..goal.revision /\ e = EventOn(goal, e.revision)
    BY <1>6, <2>1 DEF Heading
  <2>3. ASSUME NEW m \in 3..goal.revision, EventOn(goal, m) \in events'
        PROVE  EventOn(goal, m - 1) \in events'
    <3>1. CASE EventOn(goal, m) \in events  BY <1>6, <2>3, <3>1 DEF Heading
    <3>2. CASE EventOn(goal, m) = EventOn(goal, n)
      <4>1. m \in 2..goal.revision  BY <1>4
      <4>2. m = n  BY <2>1, <3>2, <4>1, EventFacts
      <4> QED  BY <1>6, <4>2
    <3> QED  BY <1>6, <2>3, <3>1, <3>2
  <2>4. events \subseteq events'  BY <1>6
  <2>5. \A x \in attempts' : Working(x, goal)'
    BY <1>2, <1>4, <2>4, WorkingStays DEF Heading
  <2>6. projection' = NoRow \/ Reported(projection, goal)'
    BY <1>6 DEF Heading, Reported
  <2>7. starter'.at = "projecting" => Reported(starter.told, goal)'
    BY <1>3, <1>6 DEF Heading, Reported
  <2> QED  BY <1>3, <1>6, <2>2, <2>3, <2>5, <2>6, <2>7 DEF Heading, Waiting
<1>7. CASE /\ UNCHANGED events /\ EventOn(goal, n) \in events
           /\ UpsertSnapshot(At(StatusOn(goal, n), n))
  <2>1. Reported(At(StatusOn(goal, n), n), goal)'
    BY <1>4, <1>7 DEF Reported, At
  <2>2. projection' = projection \/ Reported(projection', goal)
    BY <1>7, <2>1 DEF UpsertSnapshot, Reported
  <2> QED
    BY <1>2, <1>3, <1>4, <1>7, <2>2, HeadingStays DEF Heading, Waiting
<1> QED  BY <1>5, <1>6, <1>7

\* The workflow waits for an attempt with the goal of the others.
LEMMA ScheduledGoal ==
  ASSUME TypeOK, Waiting => workflow = "running" /\ ~Done(snapshot),
         NEW goal \in Held, Heading(goal), Waiting
  PROVE  /\ ~Done(snapshot) /\ snapshot \in Held /\ Towards(snapshot, goal)
         /\ scheduled \in [activity: Activities, try: 1..MaxAttempts]
         /\ goal = Work(scheduled.activity, snapshot).result
         /\ scheduled.activity = IF goal.status = "cancelled" THEN "cancel" ELSE goal.status
<1>1. /\ ~Done(snapshot) /\ snapshot \in Held /\ Towards(snapshot, goal)
      /\ scheduled \in [activity: Activities, try: 1..MaxAttempts]
      /\ goal = Work(scheduled.activity, snapshot).result
  BY DEF TypeOK, Waiting, Heading
<1> QED  BY <1>1, ResultOfWork

LEMMA ReturnHeading ==
  ASSUME TypeOK, Waiting => workflow = "running" /\ ~Done(snapshot),
         NEW goal \in Held, Heading(goal), NEW a \in attempts, Return(a)
  PROVE  /\ Heading(goal)'
         /\ IsScheduled(a) => Waiting /\ a.result = goal
<1>1. Working(a, goal) /\ Towards(goal, goal)  BY TowardsItself DEF Heading
<1>2. /\ UNCHANGED <<workflow, events, projection, starter>>
      /\ attempts' \subseteq attempts
  BY DEF Return
<1>3. CASE ~IsScheduled(a)
  <2>1. UNCHANGED <<snapshot, scheduled>>  BY <1>3 DEF Return
  <2>2. \A n \in 2..snapshot'.revision : EventOn(goal, n) \in events
    BY <2>1 DEF Heading
  <2> QED  BY <1>1, <1>2, <1>3, <2>1, <2>2, HeadingStays DEF Heading, Waiting
<1>4. CASE IsScheduled(a)
  <2>1. a.activity \in Activities /\ scheduled.activity = a.activity
    BY <1>4 DEF TypeOK, IsScheduled
  <2>2. Waiting
    BY <1>4, <2>1 DEF Waiting, NoAttempt, IsScheduled, Activities
  <2>3. a.result.status = goal.status
    <3>1. a.result.status # "cancel" /\ goal.status # "cancel"
      BY <1>1, StatusNames, HeldFields DEF Working
    <3> QED  BY <1>1, <2>1, <2>2, <3>1, ScheduledGoal DEF Working
  <2>4. a.result = goal  BY <1>1, <2>3, OneResult DEF Working
  <2>5. snapshot' = goal /\ scheduled' = NoAttempt
    BY <1>4, <2>4 DEF Return
  <2>6. \A n \in 2..goal.revision : EventOn(goal, n) \in events
    <3>1. Len(a.todo) = 0  BY DEF Return
    <3>2. \A n \in 2..goal.revision : 0 <= 2 * (goal.revision - n) + 1
      BY HeldFields
    <3> QED  BY <1>1, <2>4, <3>1, <3>2 DEF Working
  <2>7. ~Waiting'  BY <2>5 DEF Waiting
  <2> QED  BY <1>1, <1>2, <2>2, <2>4, <2>5, <2>6, <2>7, HeadingStays
<1> QED  BY <1>3, <1>4

LEMMA RetryHeading ==
  ASSUME TypeOK, Waiting => workflow = "running" /\ ~Done(snapshot),
         NEW goal \in Held, Heading(goal), Waiting,
         NEW rest \in SUBSET attempts, Retry(rest),
         UNCHANGED <<snapshot, events, projection, starter>>
  PROVE  Heading(goal)'
<1>1. /\ ~Done(snapshot) /\ snapshot \in Held /\ Towards(snapshot, goal)
      /\ scheduled \in [activity: Activities, try: 1..MaxAttempts]
      /\ goal = Work(scheduled.activity, snapshot).result
  BY ScheduledGoal
<1>2. /\ Towards(goal, goal)
      /\ \A n \in 2..snapshot'.revision : EventOn(goal, n) \in events
  BY TowardsItself DEF Heading
<1>3. CASE scheduled.try < MaxAttempts
  <2>0. PICK x : x = [activity |-> scheduled.activity, try |-> scheduled.try + 1,
                      todo |-> Work(scheduled.activity, snapshot).todo,
                      result |-> Work(scheduled.activity, snapshot).result]
    OBVIOUS
  <2>1. /\ scheduled' = [activity |-> scheduled.activity, try |-> scheduled.try + 1]
        /\ attempts' = rest \cup {x} /\ UNCHANGED workflow
    BY <1>3, <2>0 DEF Retry, Attempt
  <2>2. \A n \in 2..snapshot.revision : EventOn(snapshot, n) \in events
    BY <1>1, <1>2, SameWay DEF Heading
  <2>3. Working(x, goal)  BY <1>1, <2>0, <2>2, WorkBegins
  <2>4. Working(x, goal)'  BY <1>2, <2>3, WorkingStays
  <2>5. Waiting' /\ scheduled'.activity = scheduled.activity
    BY <1>1, <2>1 DEF Waiting, NoAttempt, Activities
  <2> QED  BY <1>1, <1>2, <2>1, <2>4, <2>5, HeadingStays
<1>4. CASE ~(scheduled.try < MaxAttempts)
  BY <1>1, <1>2, <1>4, HeadingStays DEF Retry
<1> QED  BY <1>3, <1>4

LEMMA ScheduleHeading ==
  ASSUME TypeOK, NEW goal \in Held, Heading(goal), Schedule
  PROVE  \E further \in Held : Heading(further)'
<1>1. goal = snapshot /\ ~Done(snapshot) /\ workflow' = workflow
  BY DEF Schedule, Heading
<1>2. PICK further : further = Work(NextActivity, snapshot).result
  OBVIOUS
<1>3. PICK x : x = [activity |-> NextActivity, try |-> 1,
                    todo |-> Work(NextActivity, snapshot).todo, result |-> further]
  OBVIOUS
<1>4. NextActivity \in Activities /\ further \in Held
  BY <1>1, <1>2, NextIsLegal
<1>5. \A n \in 2..goal.revision : EventOn(goal, n) \in events  BY <1>1 DEF Heading
<1>6. Towards(goal, further) /\ Working(x, further)
  BY <1>1, <1>2, <1>3, <1>4, <1>5, WorkBegins
<1>7. /\ scheduled' = [activity |-> NextActivity, try |-> 1]
      /\ attempts' = attempts \cup {x}
      /\ UNCHANGED <<workflow, snapshot, events, projection, starter>>
  BY <1>2, <1>3 DEF Schedule, Attempt
<1>8. Waiting' /\ scheduled'.activity = NextActivity
  BY <1>4, <1>7 DEF Waiting, NoAttempt, Activities
<1>9. further = Work(scheduled'.activity, snapshot').result
  BY <1>2, <1>7, <1>8
<1>10. Working(x, further)'
  BY <1>4, <1>6, <1>7, TowardsItself, WorkingStays
<1>11. \A n \in 2..snapshot'.revision : EventOn(further, n) \in events
  BY <1>1, <1>4, <1>5, <1>6, <1>7, SameWay
<1>12. Heading(further)'
  BY <1>1, <1>4, <1>6, <1>7, <1>8, <1>9, <1>10, <1>11, HeadingStays
<1> QED  BY <1>4, <1>12

\* The steps of the callers, and the workflow's last one.
LEMMA CallerHeading ==
  ASSUME NEW goal \in Held, Heading(goal),
         UNCHANGED <<snapshot, scheduled, attempts, events>>,
         workflow' = "running" => workflow = "running",
         projection' = projection \/ Reported(projection', goal),
         starter'.at = "projecting" => starter' = starter \/ Reported(starter'.told, goal)
  PROVE  Heading(goal)'
<1>1. /\ Towards(goal, goal) /\ snapshot' \in Held /\ Towards(snapshot', goal)
      /\ \A n \in 2..snapshot'.revision : EventOn(goal, n) \in events
      /\ workflow' = "running" =>
           goal = IF Waiting' THEN Work(scheduled'.activity, snapshot').result ELSE snapshot'
  BY TowardsItself DEF Heading, Waiting
<1> QED  BY <1>1, HeadingStays

LEMMA SnapshotReported ==
  ASSUME NEW goal \in Held, Heading(goal)
  PROVE  Reported(snapshot, goal)
<1>1. /\ snapshot \in Held /\ Towards(snapshot, goal)
      /\ \A n \in 2..snapshot.revision : EventOn(goal, n) \in events
  BY DEF Heading
<1>2. /\ snapshot.revision \in 1..5 /\ snapshot.revision \in 1..goal.revision
      /\ snapshot = At(snapshot.status, snapshot.revision)
      /\ snapshot.status = StatusOn(snapshot, snapshot.revision)
  BY <1>1, HeldFields DEF Towards
<1>3. StatusOn(snapshot, snapshot.revision) = StatusOn(goal, snapshot.revision)
  BY <1>1, <1>2 DEF Towards
<1>4. snapshot.revision > 1 => EventOn(goal, snapshot.revision) \in events
  <2>1. snapshot.revision > 1 => snapshot.revision \in 2..snapshot.revision  BY <1>2
  <2> QED  BY <1>1, <2>1
<1> QED  BY <1>2, <1>3, <1>4 DEF Reported

LEMMA StarterHeading ==
  ASSUME TypeOK, NEW goal \in Held, Heading(goal), StartStep
  PROVE  Heading(goal)'
<1>1. CASE DescribeStarted
  <2>1. Reported(starter'.told, goal)
    BY <1>1, SnapshotReported DEF DescribeStarted
  <2> QED  BY <1>1, <2>1, CallerHeading DEF DescribeStarted
<1>2. CASE ProjectStarted
  <2>1. projection' = projection \/ Reported(projection', goal)
    BY <1>2 DEF ProjectStarted, UpsertSnapshot, Heading
  <2>2. starter'.at = "projecting" => starter' = starter
    BY <1>2 DEF ProjectStarted
  <2> QED  BY <1>2, <2>1, <2>2, CallerHeading DEF ProjectStarted
<1>3. CASE AbandonStart
  <2>1. starter'.at = "projecting" => starter' = starter
    BY <1>3 DEF AbandonStart
  <2> QED  BY <1>3, <2>1, CallerHeading DEF AbandonStart
<1> QED  BY <1>1, <1>2, <1>3 DEF StartStep

\* What a cancel call may change, and be told.
LEMMA CancelEffect ==
  ASSUME TypeOK, NEW c \in Cancels, CancelCall(c)
  PROVE  /\ UNCHANGED <<workflow, snapshot, scheduled, attempts, events, projection, starter>>
         /\ cancelAsked' \in BOOLEAN
         /\ \E told \in {"signalling", "polling", "ok", "invalid", "not_found", "unavailable"} :
              /\ cancel' = [cancel EXCEPT ![c] = told]
              /\ told = "ok" => snapshot.status \in {"cancelled", "failed"}
<1>1. TypeOK  OBVIOUS
<1>2. CASE CancelUnknown(c)  BY <1>1, <1>2 DEF CancelUnknown, Told, TypeOK
<1>3. CASE CancelFinished(c)
  BY <1>1, <1>3 DEF CancelFinished, FinalAnswer, Told, TypeOK
<1>4. CASE CancelBegins(c)  BY <1>1, <1>4 DEF CancelBegins, Told, TypeOK
<1>5. CASE Signal(c)  BY <1>5 DEF Signal
<1>6. CASE SignalTooLate(c)
  BY <1>1, <1>6 DEF SignalTooLate, FinalAnswer, Told, TypeOK
<1>7. CASE Poll(c)  BY <1>1, <1>7 DEF Poll, FinalAnswer, Told, TypeOK
<1>8. CASE GiveUp(c)  BY <1>1, <1>8 DEF GiveUp, Told, TypeOK
<1> QED  BY <1>2, <1>3, <1>4, <1>5, <1>6, <1>7, <1>8 DEF CancelCall

-----------------------------------------------------------------------------
(* The parts of the invariant that do not depend on the goal.              *)

ControlOK ==
  /\ workflow \in {"none", "running", "completed", "failed"}
  /\ cancelAsked \in BOOLEAN
  /\ scheduled \in {NoAttempt} \cup [activity: Activities, try: 1..MaxAttempts]
  /\ \A a \in attempts :
       /\ a.activity \in Activities /\ a.try \in 1..MaxAttempts
       /\ a = [activity |-> a.activity, try |-> a.try, todo |-> a.todo, result |-> a.result]
  /\ cancel \in [Cancels -> {"idle", "signalling", "polling", "ok", "invalid",
                             "not_found", "unavailable"}]

Shape == IF workflow = "none" THEN NotStarted ELSE \E goal \in Held : Heading(goal)

LEMMA TypeOfShape == ControlOK /\ Shape => TypeOK
<1> SUFFICES ASSUME ControlOK, Shape  PROVE TypeOK  OBVIOUS
<1>1. CASE workflow = "none"
  BY <1>1 DEF ControlOK, Shape, NotStarted, TypeOK
<1>2. CASE workflow # "none"
  <2>1. PICK goal \in Held : Heading(goal)  BY <1>2 DEF Shape
  <2>2. snapshot \in [status: Statuses, revision: 1..5]
    BY <2>1, HeldFields DEF Heading
  <2>3. events \subseteq [previous: Statuses, status: Statuses, revision: 2..5]
    BY <2>1, EventFacts DEF Heading
  <2>4. projection \in {NoRow} \cup [status: Statuses, revision: 1..5]
    <3>1. ASSUME Reported(projection, goal)
          PROVE  projection \in [status: Statuses, revision: 1..5]
      <4>1. projection.revision \in 1..goal.revision /\ goal.revision \in 1..5
        BY <3>1, HeldFields DEF Reported
      <4>2. StatusOn(goal, projection.revision) \in Statuses
        BY StatusNames DEF StatusOn
      <4>3. projection = At(StatusOn(goal, projection.revision), projection.revision)
        BY <3>1 DEF Reported
      <4>4. \A q \in Statuses, n \in 1..5 : At(q, n) \in [status: Statuses, revision: 1..5]
        BY DEF At
      <4>5. projection.revision \in 1..5  BY <4>1
      <4> QED  BY <4>2, <4>3, <4>4, <4>5
    <3> QED  BY <2>1, <3>1 DEF Heading
  <2>5. ASSUME NEW a \in attempts
        PROVE  /\ a \in [activity: Activities, try: 1..MaxAttempts, todo: Seq(WriteOps),
                         result: [status: Statuses, revision: 1..5]]
               /\ Len(a.todo) <= 4
    <3>1. Working(a, goal)  BY <2>1 DEF Heading
    <3>2. /\ a.todo \in Seq(WriteOps) /\ Len(a.todo) \in Nat
          /\ Len(a.todo) <= IF a.activity = "cancel" THEN 4 ELSE 2
          /\ a.result \in [status: Statuses, revision: 1..5]
      BY <3>1, HeldFields DEF Working
    <3>3. /\ a.activity \in Activities /\ a.try \in 1..MaxAttempts
          /\ a = [activity |-> a.activity, try |-> a.try, todo |-> a.todo,
                  result |-> a.result]
      BY DEF ControlOK
    <3>4. Len(a.todo) <= 4  BY <3>2
    <3> QED  BY <3>2, <3>3, <3>4
  <2> QED  BY <2>2, <2>3, <2>4, <2>5 DEF ControlOK, TypeOK
<1> QED  BY <1>1, <1>2

LEMMA ControlOfType == TypeOK => ControlOK
  BY DEF TypeOK, ControlOK

\* A new attempt is of its type.
LEMMA AttemptControl ==
  ASSUME TypeOK, NEW activity \in Activities, NEW try \in 1..MaxAttempts,
         NEW rest \in SUBSET attempts, Attempt(activity, try, rest)
  PROVE  /\ scheduled' \in [activity: Activities, try: 1..MaxAttempts]
         /\ \A a \in attempts' :
              /\ a.activity \in Activities /\ a.try \in 1..MaxAttempts
              /\ a = [activity |-> a.activity, try |-> a.try, todo |-> a.todo,
                      result |-> a.result]
  BY DEF Attempt, TypeOK

LEMMA RetryControl ==
  ASSUME TypeOK, Waiting, NEW rest \in SUBSET attempts, Retry(rest)
  PROVE  /\ workflow' \in {workflow, "failed"}
         /\ Waiting' => workflow' = workflow
         /\ scheduled' \in {NoAttempt} \cup [activity: Activities, try: 1..MaxAttempts]
         /\ \A a \in attempts' :
              /\ a.activity \in Activities /\ a.try \in 1..MaxAttempts
              /\ a = [activity |-> a.activity, try |-> a.try, todo |-> a.todo,
                      result |-> a.result]
<1>1. scheduled \in [activity: Activities, try: 1..MaxAttempts]
  BY DEF TypeOK, Waiting
<1>2. CASE scheduled.try < MaxAttempts
  <2>1. scheduled.try + 1 \in 1..MaxAttempts
    BY <1>1, <1>2, AttemptsAssumption
  <2> QED  BY <1>1, <1>2, <2>1, AttemptControl DEF Retry
<1>3. CASE ~(scheduled.try < MaxAttempts)
  BY <1>3 DEF Retry, TypeOK, Waiting
<1> QED  BY <1>2, <1>3

-----------------------------------------------------------------------------
(* The invariant.                                                          *)

WaitsOK == Waiting => workflow = "running" /\ ~Done(snapshot)

ToldOK ==
  \A c \in Cancels : cancel[c] = "ok" => workflow # "none" /\ snapshot.status = "cancelled"

Parts == ControlOK /\ Shape /\ WaitsOK /\ ToldOK

LEMMA PartsOfInv == LifecycleInv <=> Parts
  BY TypeOfShape, ControlOfType DEF LifecycleInv, Parts, Shape, WaitsOK, ToldOK

LEMMA StartWorkflowParts ==
  ASSUME LifecycleInv, StartWorkflow
  PROVE  Parts'
<1>1. NotStarted /\ ControlOK /\ ToldOK
  BY PartsOfInv DEF Parts, Shape, StartWorkflow
<1> DEFINE goal == At("pending", 1)
<1>2. goal \in Held /\ goal.revision = 1 /\ Towards(goal, goal)
  BY TowardsItself DEF Held, At
<1>3. ControlOK'
  BY <1>1, AttemptsAssumption DEF NotStarted, ControlOK, StartWorkflow
<1>4. /\ snapshot' = goal /\ workflow' = "running" /\ ~Waiting' /\ starter'.at # "projecting"
      /\ UNCHANGED <<scheduled, attempts, events, projection, cancel>>
  BY <1>1 DEF StartWorkflow, NotStarted, Waiting
<1>5. Heading(goal)'
  BY <1>1, <1>2, <1>4 DEF Heading, NotStarted
<1>6. WaitsOK' /\ ToldOK'
  BY <1>1, <1>4 DEF WaitsOK, ToldOK, StartWorkflow
<1> QED  BY <1>2, <1>3, <1>4, <1>5, <1>6 DEF Parts, Shape

\* Every other step but a cancel call's is one of a workflow that has started.
LEMMA Started ==
  ASSUME LifecycleInv,
         \/ StartStep
         \/ WorkflowStep
         \/ \E a \in attempts : TRUE
  PROVE  workflow # "none"
  BY DEF LifecycleInv, NotStarted, StartStep, DescribeStarted, ProjectStarted,
         AbandonStart, WorkflowStep, Schedule, Complete

LEMMA StartStepParts ==
  ASSUME LifecycleInv, StartStep
  PROVE  Parts'
<1>1. /\ ControlOK /\ WaitsOK /\ ToldOK /\ TypeOK
      /\ workflow # "none"
  BY PartsOfInv, Started DEF Parts, LifecycleInv
<1>2. UNCHANGED <<workflow, snapshot, cancelAsked, scheduled, attempts, cancel>>
  BY DEF StartStep, DescribeStarted, ProjectStarted, AbandonStart
<1>3. PICK goal \in Held : Heading(goal)  BY <1>1 DEF LifecycleInv
<1>4. Heading(goal)'  BY <1>1, <1>3, StarterHeading
<1> QED
  BY <1>1, <1>2, <1>4 DEF Parts, Shape, ControlOK, WaitsOK, ToldOK, Waiting

LEMMA WorkflowParts ==
  ASSUME LifecycleInv, WorkflowStep
  PROVE  Parts'
<1>1. /\ ControlOK /\ WaitsOK /\ ToldOK /\ TypeOK
      /\ workflow # "none"
  BY PartsOfInv, Started DEF Parts, LifecycleInv
<1>2. PICK goal \in Held : Heading(goal)  BY <1>1 DEF LifecycleInv
<1>3. CASE Schedule
  <2>1. snapshot \in Held /\ ~Done(snapshot) /\ 1 \in 1..MaxAttempts
    BY <1>2, <1>3, AttemptsAssumption DEF Schedule, Heading
  <2>2. NextActivity \in Activities /\ Attempt(NextActivity, 1, attempts)
    BY <1>3, <2>1, NextIsLegal DEF Schedule
  <2>3. ControlOK'
    BY <1>1, <1>3, <2>1, <2>2, AttemptControl DEF ControlOK, Schedule
  <2>4. Shape'  BY <1>1, <1>2, <1>3, ScheduleHeading DEF Shape, Schedule
  <2>5. WaitsOK' /\ ToldOK'
    BY <1>1, <1>3 DEF WaitsOK, ToldOK, Schedule, Done
  <2> QED  BY <2>3, <2>4, <2>5 DEF Parts
<1>4. CASE Complete
  <2>1. Heading(goal)'  BY <1>2, <1>4, CallerHeading DEF Complete
  <2>2. ControlOK' /\ WaitsOK' /\ ToldOK'
    BY <1>1, <1>4 DEF ControlOK, WaitsOK, ToldOK, Waiting, Complete
  <2>3. workflow' # "none"  BY <1>4 DEF Complete
  <2> QED  BY <2>1, <2>2, <2>3 DEF Parts, Shape
<1> QED  BY <1>3, <1>4 DEF WorkflowStep

LEMMA PerformParts ==
  ASSUME LifecycleInv, NEW a \in attempts, Perform(a)
  PROVE  Parts'
<1>1. /\ ControlOK /\ WaitsOK /\ ToldOK /\ TypeOK
      /\ workflow # "none"
  BY PartsOfInv, Started DEF Parts, LifecycleInv
<1>2. PICK goal \in Held : Heading(goal)  BY <1>1 DEF LifecycleInv
<1>3. Heading(goal)'  BY <1>1, <1>2, PerformHeading
<1>4. Working(a, goal)  BY <1>2 DEF Heading
<1> DEFINE b == [a EXCEPT !.todo = Tail(@)]
<1>5. /\ attempts' = (attempts \ {a}) \cup {b}
      /\ b \in [activity: Activities, try: 1..MaxAttempts, todo: Seq(WriteOps),
                result: [status: Statuses, revision: 1..5]]
  BY <1>1, <1>4, PerformedAttempt
<1> HIDE DEF b
<1>6. UNCHANGED <<workflow, snapshot, cancelAsked, scheduled, starter, cancel>>
  BY DEF Perform
<1>7. ControlOK'  BY <1>1, <1>5, <1>6 DEF ControlOK
<1> QED
  BY <1>1, <1>3, <1>6, <1>7 DEF Parts, Shape, WaitsOK, ToldOK, Waiting

LEMMA ReturnParts ==
  ASSUME LifecycleInv, NEW a \in attempts, Return(a)
  PROVE  Parts'
<1>1. /\ ControlOK /\ WaitsOK /\ ToldOK /\ TypeOK
      /\ workflow # "none"
  BY PartsOfInv, Started DEF Parts, LifecycleInv
<1>2. PICK goal \in Held : Heading(goal)  BY <1>1 DEF LifecycleInv
<1>3. Heading(goal)' /\ (IsScheduled(a) => Waiting)
  BY <1>1, <1>2, ReturnHeading DEF WaitsOK
<1>4. /\ UNCHANGED <<workflow, cancelAsked, cancel>> /\ attempts' \subseteq attempts
      /\ IF IsScheduled(a) THEN scheduled' = NoAttempt
         ELSE UNCHANGED <<snapshot, scheduled>>
  BY DEF Return
<1>5. ControlOK'  BY <1>1, <1>4 DEF ControlOK
<1>6. WaitsOK' /\ ToldOK'
  BY <1>1, <1>3, <1>4 DEF WaitsOK, ToldOK, Waiting, Done
<1> QED  BY <1>1, <1>3, <1>4, <1>5, <1>6 DEF Parts, Shape

LEMMA FaultParts ==
  ASSUME LifecycleInv, NEW a \in attempts, AttemptFails(a) \/ AttemptTimesOut(a)
  PROVE  Parts'
<1>1. /\ ControlOK /\ WaitsOK /\ ToldOK /\ TypeOK
      /\ workflow # "none"
  BY PartsOfInv, Started DEF Parts, LifecycleInv
<1>2. PICK goal \in Held : Heading(goal)  BY <1>1 DEF LifecycleInv
<1>3. UNCHANGED <<snapshot, cancelAsked, events, projection, starter, cancel>>
  BY DEF AttemptFails, AttemptTimesOut
<1>4. CASE IsScheduled(a)
  <2>1. a.activity \in Activities /\ Waiting
    BY <1>1, <1>4 DEF ControlOK, Waiting, NoAttempt, IsScheduled, Activities
  <2>2. PICK rest \in SUBSET attempts : Retry(rest)
    BY <1>4 DEF AttemptFails, AttemptTimesOut
  <2>3. Heading(goal)'
    BY <1>1, <1>2, <1>3, <2>1, <2>2, RetryHeading DEF WaitsOK
  <2>4. /\ workflow' \in {workflow, "failed"}
        /\ Waiting' => workflow' = workflow
        /\ scheduled' \in {NoAttempt} \cup [activity: Activities, try: 1..MaxAttempts]
        /\ \A x \in attempts' :
             /\ x.activity \in Activities /\ x.try \in 1..MaxAttempts
             /\ x = [activity |-> x.activity, try |-> x.try, todo |-> x.todo,
                     result |-> x.result]
    BY <1>1, <2>1, <2>2, RetryControl
  <2>5. ControlOK'  BY <1>1, <1>3, <2>4 DEF ControlOK
  <2>6. WaitsOK' /\ ToldOK'
    BY <1>1, <1>3, <2>1, <2>4 DEF WaitsOK, ToldOK, Done
  <2> QED  BY <1>1, <2>3, <2>4, <2>5, <2>6 DEF Parts, Shape
<1>5. CASE ~IsScheduled(a)
  <2>1. attempts' \subseteq attempts /\ UNCHANGED <<workflow, scheduled>>
    BY <1>5 DEF AttemptFails, AttemptTimesOut
  <2>2. Heading(goal)'
    <3>1. /\ Towards(goal, goal) /\ snapshot' \in Held /\ Towards(snapshot', goal)
          /\ \A n \in 2..snapshot'.revision : EventOn(goal, n) \in events
          /\ workflow' = "running" =>
               goal = IF Waiting' THEN Work(scheduled'.activity, snapshot').result
                      ELSE snapshot'
      BY <1>2, <1>3, <2>1, TowardsItself DEF Heading, Waiting
    <3> QED  BY <1>2, <1>3, <2>1, <3>1, HeadingStays
  <2>3. ControlOK' /\ WaitsOK' /\ ToldOK'
    BY <1>1, <1>3, <2>1 DEF ControlOK, WaitsOK, ToldOK, Waiting
  <2> QED  BY <1>1, <2>1, <2>2, <2>3 DEF Parts, Shape
<1> QED  BY <1>4, <1>5

LEMMA CancelParts ==
  ASSUME LifecycleInv, NEW c \in Cancels, CancelCall(c)
  PROVE  Parts'
<1>1. ControlOK /\ Shape /\ WaitsOK /\ ToldOK /\ TypeOK
  BY PartsOfInv DEF Parts, LifecycleInv
<1>2. PICK told \in {"signalling", "polling", "ok", "invalid", "not_found", "unavailable"} :
        /\ UNCHANGED <<workflow, snapshot, scheduled, attempts, events, projection, starter>>
        /\ cancelAsked' \in BOOLEAN
        /\ cancel' = [cancel EXCEPT ![c] = told]
        /\ told = "ok" => snapshot.status \in {"cancelled", "failed"}
  BY <1>1, CancelEffect
<1>3. ControlOK' /\ WaitsOK'
  BY <1>1, <1>2 DEF ControlOK, WaitsOK, Waiting
<1>4. CASE workflow = "none"
  <2>1. NotStarted /\ snapshot.status = "none"
    BY <1>1, <1>4 DEF Shape, NotStarted, NoRow, At
  <2>2. Shape' /\ ToldOK'
    BY <1>1, <1>2, <1>4, <2>1 DEF Shape, NotStarted, ToldOK, ControlOK
  <2> QED  BY <1>3, <2>2 DEF Parts
<1>5. CASE workflow # "none"
  <2>1. PICK goal \in Held : Heading(goal)  BY <1>1, <1>5 DEF Shape
  <2>2. Heading(goal)'  BY <1>2, <2>1, CallerHeading
  <2>3. snapshot.status # "failed"  BY <2>1 DEF Heading, Held, At
  <2>4. ToldOK'  BY <1>1, <1>2, <1>5, <2>3 DEF ToldOK, ControlOK
  <2> QED  BY <1>2, <1>3, <1>5, <2>2, <2>4 DEF Parts, Shape
<1> QED  BY <1>4, <1>5

LEMMA StutterParts ==
  ASSUME Parts, UNCHANGED vars
  PROVE  Parts'
  BY DEF Parts, ControlOK, Shape, NotStarted, Heading, Towards, Working, Reported,
         WaitsOK, ToldOK, Waiting, Done, vars

LEMMA LifecycleInit == Init => LifecycleInv
<1> SUFFICES ASSUME Init  PROVE LifecycleInv  OBVIOUS
<1>1. TypeOK  BY DEF Init, TypeOK
<1>2. NotStarted /\ workflow = "none" /\ ~Waiting
  BY DEF Init, NotStarted, Waiting
<1>3. \A c \in Cancels : cancel[c] # "ok"  BY DEF Init
<1> QED  BY <1>1, <1>2, <1>3 DEF LifecycleInv

LEMMA LifecycleNext == LifecycleInv /\ [Next]_vars => LifecycleInv'
<1> SUFFICES ASSUME LifecycleInv, [Next]_vars  PROVE Parts'
  <2>1. LifecycleInv' <=> Parts'  BY PartsOfInv, PTL
  <2> QED  BY <2>1
<1>1. CASE StartWorkflow  BY <1>1, StartWorkflowParts
<1>2. CASE StartStep  BY <1>2, StartStepParts
<1>3. CASE WorkflowStep  BY <1>3, WorkflowParts
<1>4. ASSUME NEW a \in attempts, Perform(a)  PROVE Parts'
  BY <1>4, PerformParts
<1>5. ASSUME NEW a \in attempts, Return(a)  PROVE Parts'
  BY <1>5, ReturnParts
<1>6. ASSUME NEW a \in attempts, AttemptFails(a) \/ AttemptTimesOut(a)  PROVE Parts'
  BY <1>6, FaultParts
<1>7. ASSUME NEW c \in Cancels, CancelCall(c)  PROVE Parts'
  BY <1>7, CancelParts
<1>8. CASE UNCHANGED vars  BY <1>8, PartsOfInv, StutterParts
<1> QED
  BY <1>1, <1>2, <1>3, <1>4, <1>5, <1>6, <1>7, <1>8 DEF Next, WorkerStep

\* Whatever fails, is late or is done twice, all attempts, rows and reports are
\* on the way to one goal of the workflow (ExecutionLifecycleWorkflow and its
\* activities).
THEOREM LifecycleInvariant == Spec => []LifecycleInv
  BY LifecycleInit, LifecycleNext, PTL DEF Spec

\* The state of the workflow, its attempts, the two tables and the calls is of
\* its type: no revision passes 5 and no attempt is numbered past MaxAttempts.
THEOREM TypeCorrect == Spec => []TypeOK
<1>1. LifecycleInv => TypeOK  BY DEF LifecycleInv
<1> QED  BY <1>1, LifecycleInvariant, PTL

-----------------------------------------------------------------------------
(* What the invariant says of the outbox, the projection and the callers.  *)

LEMMA PathOfInv == LifecycleInv => EventsTellOnePath
<1> SUFFICES ASSUME LifecycleInv  PROVE EventsTellOnePath  OBVIOUS
<1>1. CASE workflow = "none"
  BY <1>1 DEF LifecycleInv, NotStarted, EventsTellOnePath
<1>2. CASE workflow # "none"
  <2>1. PICK goal \in Held : Heading(goal)  BY <1>2 DEF LifecycleInv
  <2>2. goal.revision \in 1..5  BY HeldFields
  <2>3. \A e \in events : e.revision \in 2..goal.revision /\ e = EventOn(goal, e.revision)
    BY <2>1 DEF Heading
  <2>4. ASSUME NEW e \in events
        PROVE  /\ CanTransition(e.previous, e.status)
               /\ IF e.revision = 2 THEN e.previous = "pending"
                  ELSE \E f \in events : f.revision + 1 = e.revision /\ f.status = e.previous
    <3>1. PICK n \in 2..goal.revision : n = e.revision /\ e = EventOn(goal, n)
      BY <2>3
    <3>2. /\ e.previous = StatusOn(goal, n - 1) /\ e.status = StatusOn(goal, n)
          /\ CanTransition(StatusOn(goal, n - 1), StatusOn(goal, n))
          /\ n = 2 => StatusOn(goal, n - 1) = "pending"
      BY <3>1, EventFacts
    <3>3. CASE n = 2  BY <3>1, <3>2, <3>3
    <3>4. CASE n # 2
      <4>1. n \in 3..goal.revision /\ n - 1 \in 2..goal.revision /\ (n - 1) + 1 = n
        BY <2>2, <3>1, <3>4
      <4>2. EventOn(goal, n - 1) \in events  BY <2>1, <3>1, <4>1 DEF Heading
      <4>3. /\ EventOn(goal, n - 1).revision = n - 1
            /\ EventOn(goal, n - 1).status = StatusOn(goal, n - 1)
        BY <4>1, EventFacts
      <4> QED  BY <3>1, <3>2, <3>4, <4>1, <4>2, <4>3
    <3> QED  BY <3>3, <3>4
  <2> QED  BY <2>3, <2>4 DEF EventsTellOnePath
<1> QED  BY <1>1, <1>2

\* Retries and late attempts announce one legal path without a gap
\* (ExecutionActivities, each transition's event inserted under its revision).
THEOREM OnePath == Spec => []EventsTellOnePath
  BY PathOfInv, LifecycleInvariant, PTL

LEMMA AnnouncedOfInv == LifecycleInv => ProjectionAnnounced
<1> SUFFICES ASSUME LifecycleInv, projection.revision > 1
             PROVE  \E e \in events :
                      e.revision = projection.revision /\ e.status = projection.status
  BY DEF ProjectionAnnounced
<1>1. projection # NoRow  BY DEF NoRow, At
<1>2. workflow # "none"  BY <1>1 DEF LifecycleInv, NotStarted
<1>3. PICK goal \in Held : Heading(goal)  BY <1>2 DEF LifecycleInv
<1>4. Reported(projection, goal)  BY <1>1, <1>3 DEF Heading
<1>5. goal.revision \in 1..5  BY HeldFields
<1>6. PICK n \in 2..goal.revision :
        /\ n = projection.revision /\ projection = At(StatusOn(goal, n), n)
        /\ EventOn(goal, n) \in events
  BY <1>4, <1>5 DEF Reported
<1>7. EventOn(goal, n).revision = n /\ EventOn(goal, n).status = StatusOn(goal, n)
  BY <1>6, EventFacts
<1>8. projection.status = StatusOn(goal, n)  BY <1>6 DEF At
<1> QED  BY <1>6, <1>7, <1>8

\* The projection shows nothing that was not announced before: the event of a
\* transition is inserted before its upsert, in every attempt.
THEOREM Announced == Spec => []ProjectionAnnounced
  BY AnnouncedOfInv, LifecycleInvariant, PTL

LEMMA FinalOfInv == LifecycleInv => CancelledIsFinal
<1> SUFFICES ASSUME LifecycleInv, NEW c \in Cancels, cancel[c] = "ok"
             PROVE  snapshot.status = "cancelled" /\ \A e \in events : e.status # "succeeded"
  BY DEF CancelledIsFinal
<1>1. workflow # "none" /\ snapshot.status = "cancelled"  BY DEF LifecycleInv
<1>2. PICK goal \in Held : Heading(goal)  BY <1>1 DEF LifecycleInv
<1>3. snapshot \in Held /\ Towards(snapshot, goal) /\ Done(snapshot)
  BY <1>1, <1>2 DEF Heading, Done
<1>4. goal = snapshot  BY <1>3, FinalGoal
<1>5. ASSUME NEW e \in events  PROVE e.status # "succeeded"
  <2>1. PICK n \in 2..goal.revision : e = EventOn(goal, n)
    BY <1>2 DEF Heading
  <2>2. e.status = StatusOn(goal, n)  BY <2>1, EventFacts
  <2>3. StatusOn(goal, n) # "succeeded"
    BY <1>1, <1>4, <2>1 DEF Held, At, StatusOn
  <2> QED  BY <2>2, <2>3
<1> QED  BY <1>1, <1>5

\* Who was told that the execution is cancelled (cancel_execution) never sees
\* it succeed.
THEOREM CancelFinal == Spec => []CancelledIsFinal
  BY FinalOfInv, LifecycleInvariant, PTL

-----------------------------------------------------------------------------
(* The workflow and the projection only go forward.                        *)

LEMMA Forward ==
  ASSUME LifecycleInv, TypeOK', [Next]_vars
  PROVE  /\ projection'.revision >= projection.revision
         /\ snapshot'.revision >= snapshot.revision
<1>1. /\ projection.revision \in 0..5 /\ snapshot.revision \in 0..5
      /\ projection'.revision \in 0..5 /\ snapshot'.revision \in 0..5
  BY DEF LifecycleInv, TypeOK, NoRow, At
<1>2. ASSUME NEW s, UpsertSnapshot(s)
      PROVE  projection'.revision >= projection.revision
  <2>1. CASE projection.revision < s.revision
    BY <1>1, <1>2, <2>1 DEF UpsertSnapshot
  <2>2. CASE ~(projection.revision < s.revision)
    BY <1>1, <1>2, <2>2 DEF UpsertSnapshot
  <2> QED  BY <2>1, <2>2
<1>3. CASE StartWorkflow
  <2>1. snapshot = NoRow  BY <1>3 DEF LifecycleInv, NotStarted, StartWorkflow
  <2> QED  BY <1>1, <1>3, <2>1 DEF StartWorkflow, NoRow, At
<1>4. CASE StartStep
  BY <1>1, <1>2, <1>4 DEF StartStep, DescribeStarted, ProjectStarted, AbandonStart
<1>5. CASE WorkflowStep
  BY <1>1, <1>5 DEF WorkflowStep, Schedule, Complete
<1>6. ASSUME NEW a \in attempts, Perform(a)
      PROVE  /\ projection'.revision >= projection.revision
             /\ snapshot'.revision >= snapshot.revision
  <2>1. UNCHANGED snapshot /\ (UNCHANGED projection \/ UpsertSnapshot(Head(a.todo).snapshot))
    BY <1>6 DEF Perform
  <2> QED  BY <1>1, <1>2, <2>1
<1>7. ASSUME NEW a \in attempts, Return(a)
      PROVE  /\ projection'.revision >= projection.revision
             /\ snapshot'.revision >= snapshot.revision
  <2>1. UNCHANGED projection  BY <1>7 DEF Return
  <2>2. CASE IsScheduled(a)
    <3>1. PICK goal \in Held : Heading(goal)  BY Started DEF LifecycleInv
    <3>2. a.result = goal  BY <1>7, <2>2, <3>1, ReturnHeading DEF LifecycleInv
    <3>3. snapshot'.revision = goal.revision  BY <1>7, <2>2, <3>2 DEF Return
    <3>4. snapshot.revision <= goal.revision  BY <3>1 DEF Heading, Towards
    <3> QED  BY <1>1, <2>1, <3>3, <3>4
  <2>3. CASE ~IsScheduled(a)  BY <1>1, <1>7, <2>1, <2>3 DEF Return
  <2> QED  BY <2>2, <2>3
<1>8. ASSUME NEW a \in attempts, AttemptFails(a) \/ AttemptTimesOut(a)
      PROVE  UNCHANGED <<projection, snapshot>>
  BY <1>8 DEF AttemptFails, AttemptTimesOut
<1>9. ASSUME NEW c \in Cancels, CancelCall(c)
      PROVE  UNCHANGED <<projection, snapshot>>
  BY <1>9, CancelEffect DEF LifecycleInv
<1>10. CASE UNCHANGED vars  BY <1>1, <1>10 DEF vars
<1> QED
  BY <1>1, <1>3, <1>4, <1>5, <1>6, <1>7, <1>8, <1>9, <1>10 DEF Next, WorkerStep

\* However late an attempt or the starter is, neither the projection nor the
\* workflow's snapshot goes back (ON CONFLICT DO UPDATE ... WHERE revision <).
THEOREM Monotone == Spec => NeverRegresses
<1>1. LifecycleInv /\ TypeOK' /\ [Next]_vars =>
        [/\ projection'.revision >= projection.revision
         /\ snapshot'.revision >= snapshot.revision]_vars
  BY Forward
<1>2. Spec => [][/\ projection'.revision >= projection.revision
                 /\ snapshot'.revision >= snapshot.revision]_vars
  BY <1>1, LifecycleInvariant, TypeCorrect, PTL DEF Spec
<1> QED  BY <1>2 DEF NeverRegresses

-----------------------------------------------------------------------------
(* The steps of an execution, seen from outside.                           *)

LEMMA HistoryNames ==
  /\ History!NoRow = NoRow /\ History!First = At("pending", 1)
  /\ \A s, t : History!CanTransition(s, t) <=> CanTransition(s, t)
  /\ History!Statuses = Statuses
  BY DEF History!NoRow, History!First, NoRow, At, History!CanTransition, CanTransition,
         History!EXECUTION_TRANSITIONS, EXECUTION_TRANSITIONS, History!Statuses, Statuses

\* On the way to a goal there is one state for each revision.
LEMMA StateOn ==
  ASSUME NEW s \in Held, NEW n \in 1..s.revision
  PROVE  /\ n \in Nat /\ StatusOn(s, n) \in Statuses
         /\ n = 1 => StatusOn(s, n) = "pending"
         /\ At(StatusOn(s, n), n).revision = n
         /\ At(StatusOn(s, n), n).status = StatusOn(s, n)
         /\ n > 1 => [status |-> EventOn(s, n).status, revision |-> EventOn(s, n).revision]
                       = At(StatusOn(s, n), n)
<1>1. n \in 1..5  BY HeldFields
<1>2. StatusOn(s, n) \in Statuses /\ (n = 1 => StatusOn(s, n) = "pending")
  BY StatusNames DEF Held, At, StatusOn
<1>3. n > 1 => EventOn(s, n).status = StatusOn(s, n) /\ EventOn(s, n).revision = n
  <2>1. n > 1 => n \in 2..s.revision  BY HeldFields
  <2> QED  BY <2>1, EventFacts
<1> QED  BY <1>1, <1>2, <1>3 DEF At

\* What a reader of the events knows of are the announced states on the way.
LEMMA KnownStates ==
  ASSUME NEW goal \in Held, Heading(goal)
  PROVE  /\ \A n \in 1..goal.revision :
              n = 1 \/ EventOn(goal, n) \in events => At(StatusOn(goal, n), n) \in History!Known
         /\ \A s \in History!Known :
              /\ s.revision \in 1..goal.revision
              /\ s = At(StatusOn(goal, s.revision), s.revision)
              /\ s.revision = 1 \/ EventOn(goal, s.revision) \in events
<1>1. goal.revision \in 1..5  BY HeldFields
<1>2. ASSUME NEW n \in 1..goal.revision, n = 1 \/ EventOn(goal, n) \in events
      PROVE  At(StatusOn(goal, n), n) \in History!Known
  <2>1. CASE n = 1
    BY <2>1, StateOn, HistoryNames DEF History!Known
  <2>2. CASE n # 1
    <3>1. EventOn(goal, n) \in events /\ n > 1  BY <1>1, <1>2, <2>2
    <3>2. [status |-> EventOn(goal, n).status, revision |-> EventOn(goal, n).revision]
            = At(StatusOn(goal, n), n)
      BY <3>1, StateOn
    <3> QED  BY <3>1, <3>2 DEF History!Known
  <2> QED  BY <2>1, <2>2
<1>3. ASSUME NEW s \in History!Known
      PROVE  /\ s.revision \in 1..goal.revision
             /\ s = At(StatusOn(goal, s.revision), s.revision)
             /\ s.revision = 1 \/ EventOn(goal, s.revision) \in events
  <2>1. CASE s = At("pending", 1)
    <3>1. 1 \in 1..goal.revision /\ s.revision = 1  BY <1>1, <2>1 DEF At
    <3> QED  BY <2>1, <3>1, StateOn
  <2>2. CASE s # At("pending", 1)
    <3>1. PICK e \in events : s = [status |-> e.status, revision |-> e.revision]
      BY <2>2, HistoryNames DEF History!Known
    <3>2. PICK n \in 2..goal.revision : n = e.revision /\ e = EventOn(goal, n)
      BY <3>1 DEF Heading
    <3>3. n \in 1..goal.revision /\ n > 1  BY <1>1, <3>2
    <3>4. s = At(StatusOn(goal, n), n)  BY <3>1, <3>2, <3>3, StateOn
    <3>5. s.revision = n  BY <3>3, <3>4, StateOn
    <3> QED  BY <3>2, <3>3, <3>4, <3>5
  <2> QED  BY <2>1, <2>2
<1> QED  BY <1>2, <1>3

\* The events have no gap: the last state is the one whose next is missing.
LEMMA LatestState ==
  ASSUME NEW goal \in Held, Heading(goal), NEW n \in 1..goal.revision,
         n = 1 \/ EventOn(goal, n) \in events,
         n < goal.revision => EventOn(goal, n + 1) \notin events
  PROVE  History!Latest(At(StatusOn(goal, n), n))
<1>1. goal.revision \in 1..5 /\ n \in 1..5  BY HeldFields
<1>2. \A m \in 3..goal.revision : EventOn(goal, m) \in events => EventOn(goal, m - 1) \in events
  BY DEF Heading
<1>3. ASSUME NEW m \in (n + 1)..goal.revision  PROVE EventOn(goal, m) \notin events
  <2>1. m \in 2..5 /\ n + 1 \in 2..5 /\ m >= n + 1  BY <1>1
  <2>2. EventOn(goal, n + 1) \notin events  BY <1>1
  <2>3. n + 2 <= goal.revision => EventOn(goal, n + 2) \notin events
    <3>1. n + 2 <= goal.revision => n + 2 \in 3..goal.revision /\ (n + 2) - 1 = n + 1  BY <1>1
    <3> QED  BY <1>2, <2>2, <3>1
  <2>4. n + 3 <= goal.revision => EventOn(goal, n + 3) \notin events
    <3>1. n + 3 <= goal.revision =>
            n + 3 \in 3..goal.revision /\ (n + 3) - 1 = n + 2 /\ n + 2 <= goal.revision
      BY <1>1
    <3> QED  BY <1>2, <2>3, <3>1
  <2>5. n + 4 <= goal.revision => EventOn(goal, n + 4) \notin events
    <3>1. n + 4 <= goal.revision =>
            n + 4 \in 3..goal.revision /\ (n + 4) - 1 = n + 3 /\ n + 3 <= goal.revision
      BY <1>1
    <3> QED  BY <1>2, <2>4, <3>1
  <2>6. m \in {n + 1, n + 2, n + 3, n + 4}  BY <1>1, <2>1
  <2> QED  BY <1>1, <2>2, <2>3, <2>4, <2>5, <2>6
<1>4. ASSUME NEW t \in History!Known  PROVE t.revision <= n
  <2>1. /\ t.revision \in 1..goal.revision
        /\ t.revision = 1 \/ EventOn(goal, t.revision) \in events
    BY KnownStates
  <2>2. t.revision \in 1..goal.revision /\ ~(t.revision <= n) => t.revision \in (n + 1)..goal.revision
    BY <1>1
  <2> QED  BY <1>1, <1>3, <2>1, <2>2
<1>5. At(StatusOn(goal, n), n).revision = n  BY StateOn
<1>6. At(StatusOn(goal, n), n) \in History!Known  BY KnownStates
<1> QED  BY <1>4, <1>5, <1>6 DEF History!Latest

\* The upsert of a reported state is a projection, or comes too late.
LEMMA UpsertProjects ==
  ASSUME TypeOK, NEW goal \in Held, Heading(goal), NEW s, Reported(s, goal),
         UpsertSnapshot(s), UNCHANGED <<snapshot, events>>
  PROVE  [History!Next]_History!vars
<1>1. s.revision \in Nat /\ projection.revision \in Nat
  BY HeldFields DEF Reported, TypeOK, NoRow, At
<1>2. s \in History!Known
  <2>1. s.revision \in 1..goal.revision /\ (s.revision = 1 \/ EventOn(goal, s.revision) \in events)
        /\ s = At(StatusOn(goal, s.revision), s.revision)
    BY HeldFields DEF Reported
  <2>2. PICK n \in 1..goal.revision : n = s.revision  BY <2>1
  <2> QED  BY <2>1, <2>2, KnownStates
<1>3. snapshot # History!NoRow  BY HeldFields, HistoryNames DEF Heading
<1>4. CASE projection.revision < s.revision
  <2>1. History!Project(s)
    BY <1>1, <1>3, <1>4 DEF UpsertSnapshot, History!Project
  <2> QED  BY <1>2, <2>1 DEF History!Next
<1>5. CASE ~(projection.revision < s.revision)
  BY <1>5 DEF UpsertSnapshot, History!vars
<1> QED  BY <1>4, <1>5

\* The event of an attempt is the next one, or a copy.
LEMMA PublishAnnounces ==
  ASSUME NEW goal \in Held, Heading(goal), NEW n \in 2..goal.revision,
         n > 2 => EventOn(goal, n - 1) \in events,
         events' = events \cup {EventOn(goal, n)}, UNCHANGED <<snapshot, projection>>
  PROVE  [History!Next]_History!vars
<1>1. CASE EventOn(goal, n) \in events
  BY <1>1 DEF History!vars
<1>2. CASE EventOn(goal, n) \notin events
  <2>1. PICK m \in 1..goal.revision : m = n - 1 /\ m + 1 = n /\ m < goal.revision /\ (m = 1 \/ n > 2)
    <3>1. goal.revision \in 1..5  BY HeldFields
    <3>2. n - 1 \in 1..goal.revision /\ (n - 1) + 1 = n /\ n - 1 < goal.revision
          /\ (n - 1 = 1 \/ n > 2)
      BY <3>1
    <3> QED  BY <3>2
  <2> DEFINE s == At(StatusOn(goal, m), m)
  <2>2. m = 1 \/ EventOn(goal, m) \in events  BY <2>1
  <2>3. History!Latest(s)  BY <1>2, <2>1, <2>2, LatestState
  <2>4. s.revision = m /\ s.status = StatusOn(goal, m)  BY StateOn
  <2>5. /\ EventOn(goal, n).revision = n /\ EventOn(goal, n).previous = StatusOn(goal, m)
        /\ EventOn(goal, n).status = StatusOn(goal, n)
        /\ CanTransition(StatusOn(goal, m), StatusOn(goal, n))
        /\ StatusOn(goal, n) \in Statuses
    <3>1. n \in 1..goal.revision  BY <2>1, HeldFields
    <3> QED  BY <2>1, <3>1, EventFacts, StateOn
  <2>6. EventOn(goal, n) = [previous |-> s.status, status |-> StatusOn(goal, n),
                            revision |-> s.revision + 1]
    BY <2>1, <2>4, <2>5 DEF EventOn, Event, At
  <2>7. snapshot # History!NoRow  BY HeldFields, HistoryNames DEF Heading
  <2>8. History!CanTransition(s.status, StatusOn(goal, n))  BY <2>4, <2>5, HistoryNames
  <2> HIDE DEF s
  <2>9. History!Announce(s, StatusOn(goal, n))
    BY <2>3, <2>6, <2>7, <2>8 DEF History!Announce
  <2>10. s \in History!Known /\ StatusOn(goal, n) \in History!Statuses
    BY <2>3, <2>5, HistoryNames DEF History!Latest
  <2> QED  BY <2>9, <2>10 DEF History!Next
<1> QED  BY <1>1, <1>2

\* The result that the workflow takes was announced last.
LEMMA ReturnMovesOn ==
  ASSUME LifecycleInv, NEW goal \in Held, Heading(goal), NEW a \in attempts, Return(a)
  PROVE  [History!Next]_History!vars
<1>1. UNCHANGED <<events, projection>>  BY DEF Return
<1>2. CASE ~IsScheduled(a)
  BY <1>1, <1>2 DEF Return, History!vars
<1>3. CASE IsScheduled(a)
  <2>1. Waiting /\ a.result = goal  BY <1>3, ReturnHeading DEF LifecycleInv
  <2>2. /\ ~Done(snapshot) /\ snapshot \in Held
        /\ scheduled.activity \in Activities
        /\ goal = Work(scheduled.activity, snapshot).result
    BY <2>1, ScheduledGoal DEF LifecycleInv
  <2>3. snapshot.revision \in 1..5 /\ goal.revision \in 1..5  BY <2>2, HeldFields
  <2>4. goal.revision > snapshot.revision
    <3>1. CASE scheduled.activity = "cancel"
      <4>1. goal = At("cancelled", snapshot.revision + 2)
        BY <2>2, <3>1, CancellationWork
      <4>2. goal.revision = snapshot.revision + 2  BY <4>1 DEF At
      <4> QED  BY <2>3, <4>2
    <3>2. CASE scheduled.activity # "cancel"
      <4>0. PICK activity \in {"planning", "running", "succeeded"} : activity = scheduled.activity
        BY <2>2, <3>2 DEF Activities
      <4>1. goal = At(activity, snapshot.revision + 1)
        BY <2>2, <4>0, AdvanceWork
      <4>2. goal.revision = snapshot.revision + 1  BY <4>1 DEF At
      <4> QED  BY <2>3, <4>2
    <3> QED  BY <3>1, <3>2
  <2>5. goal.revision = 1 \/ EventOn(goal, goal.revision) \in events
    <3>1. Working(a, goal) /\ Len(a.todo) = 0  BY DEF Heading, Return
    <3>2. goal.revision # 1 => goal.revision \in 2..goal.revision
                               /\ 0 <= 2 * (goal.revision - goal.revision) + 1
      BY <2>3
    <3> QED  BY <2>1, <3>1, <3>2 DEF Working
  <2>6. goal.revision \in 1..goal.revision /\ ~(goal.revision < goal.revision)  BY <2>3
  <2>7. History!Latest(At(StatusOn(goal, goal.revision), goal.revision))
    BY <2>5, <2>6, LatestState
  <2>8. goal = At(StatusOn(goal, goal.revision), goal.revision)  BY HeldFields
  <2>9. snapshot' = goal  BY <1>3, <2>1 DEF Return
  <2>10. snapshot # History!NoRow  BY <2>2, HeldFields, HistoryNames
  <2>11. History!MoveOn(goal)
    BY <1>1, <2>4, <2>7, <2>8, <2>9, <2>10 DEF History!MoveOn
  <2>12. goal \in History!Known  BY <2>7, <2>8 DEF History!Latest
  <2> QED  BY <2>11, <2>12 DEF History!Next
<1> QED  BY <1>2, <1>3

LEMMA PerformIsHistory ==
  ASSUME LifecycleInv, NEW goal \in Held, Heading(goal), NEW a \in attempts, Perform(a)
  PROVE  [History!Next]_History!vars
<1>1. Working(a, goal) /\ TypeOK /\ UNCHANGED snapshot
  BY DEF Heading, LifecycleInv, Perform
<1>2. PICK n \in 2..goal.revision :
        \/ /\ events' = events \cup {EventOn(goal, n)} /\ UNCHANGED projection
           /\ n > 2 => EventOn(goal, n - 1) \in events
        \/ /\ UNCHANGED events /\ EventOn(goal, n) \in events
           /\ UpsertSnapshot(At(StatusOn(goal, n), n))
  BY <1>1, PerformEffect
<1>3. CASE /\ events' = events \cup {EventOn(goal, n)} /\ UNCHANGED projection
           /\ n > 2 => EventOn(goal, n - 1) \in events
  BY <1>1, <1>3, PublishAnnounces
<1>4. CASE /\ UNCHANGED events /\ EventOn(goal, n) \in events
           /\ UpsertSnapshot(At(StatusOn(goal, n), n))
  <2>1. n \in 1..goal.revision  BY HeldFields
  <2>2. At(StatusOn(goal, n), n).revision = n  BY <2>1, StateOn
  <2>3. Reported(At(StatusOn(goal, n), n), goal)  BY <1>4, <2>1, <2>2 DEF Reported
  <2> QED  BY <1>1, <1>4, <2>3, UpsertProjects
<1> QED  BY <1>2, <1>3, <1>4

LEMMA StepIsHistory ==
  ASSUME LifecycleInv, [Next]_vars
  PROVE  [History!Next]_History!vars
<1>1. CASE StartWorkflow
  <2>1. snapshot = NoRow  BY <1>1 DEF LifecycleInv, NotStarted, StartWorkflow
  <2>2. History!Begin  BY <1>1, <2>1, HistoryNames DEF StartWorkflow, History!Begin
  <2> QED  BY <2>2 DEF History!Next
<1>2. CASE StartStep
  <2>1. PICK goal \in Held : Heading(goal)  BY <1>2, Started DEF LifecycleInv
  <2>2. CASE ProjectStarted
    <3>1. /\ Reported(starter.told, goal) /\ UpsertSnapshot(starter.told)
          /\ UNCHANGED <<snapshot, events>>
      BY <2>1, <2>2 DEF ProjectStarted, Heading
    <3> QED  BY <2>1, <3>1, UpsertProjects DEF LifecycleInv
  <2>3. CASE DescribeStarted \/ AbandonStart
    BY <2>3 DEF DescribeStarted, AbandonStart, History!vars
  <2> QED  BY <1>2, <2>2, <2>3 DEF StartStep
<1>3. CASE WorkflowStep
  BY <1>3 DEF WorkflowStep, Schedule, Complete, History!vars
<1>4. ASSUME NEW a \in attempts  PROVE \E goal \in Held : Heading(goal)
  BY Started DEF LifecycleInv
<1>5. ASSUME NEW a \in attempts, Perform(a)  PROVE [History!Next]_History!vars
  BY <1>4, <1>5, PerformIsHistory
<1>6. ASSUME NEW a \in attempts, Return(a)  PROVE [History!Next]_History!vars
  BY <1>4, <1>6, ReturnMovesOn
<1>7. ASSUME NEW a \in attempts, AttemptFails(a) \/ AttemptTimesOut(a)
      PROVE  [History!Next]_History!vars
  BY <1>7 DEF AttemptFails, AttemptTimesOut, History!vars
<1>8. ASSUME NEW c \in Cancels, CancelCall(c)  PROVE [History!Next]_History!vars
  BY <1>8, CancelEffect DEF LifecycleInv, History!vars
<1>9. CASE UNCHANGED vars  BY <1>9 DEF vars, History!vars
<1> QED
  BY <1>1, <1>2, <1>3, <1>5, <1>6, <1>7, <1>8, <1>9 DEF Next, WorkerStep

\* Seen from outside (runtime_outbox_events, runtime_execution_snapshots and the
\* workflow's query) an execution is an atomic history: the attempts, retries and
\* late writes of ExecutionActivities append the next legal event or repeat one,
\* the workflow takes up what was announced last, and the projection only ever
\* advances to announced states.
THEOREM ImplementsHistory == Spec => HistorySpec
<1>1. Init => History!Init
  BY HistoryNames DEF Init, History!Init
<1>2. LifecycleInv /\ [Next]_vars => [History!Next]_History!vars
  BY StepIsHistory
<1>3. Spec => History!Spec
  BY <1>1, <1>2, LifecycleInvariant, PTL DEF Spec, History!Spec
<1> QED  BY <1>3 DEF HistorySpec

=============================================================================
