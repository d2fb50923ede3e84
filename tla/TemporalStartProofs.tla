-------------------------- MODULE TemporalStartProofs --------------------------
(***************************************************************************)
(* Theorems about TemporalStart and their proofs: StartInv is inductive,   *)
(* for any number of calls, keys and specs and any choice of faults.       *)
(***************************************************************************)
EXTENDS TemporalStart, TLAPS

-----------------------------------------------------------------------------
(* What the steps have in common.                                          *)

CallStep(c) ==
  \/ DenyAuthorization(c)
  \/ Register(c)
  \/ Replay(c)
  \/ RollbackRegistration(c)
  \/ CheckFingerprint(c)
  \/ StartWorkflow(c)
  \/ AlreadyStarted(c)
  \/ StartFails(c)
  \/ Describe(c)
  \/ FindNoWorkflow(c)
  \/ QueryFails(c)
  \/ Crash(c)

\* Every step is a call's or the end of a workflow.
LEMMA Steps ==
  ASSUME Next
  PROVE  (\E c \in Calls : CallStep(c)) \/ \E e \in Calls : Close(e)
  BY DEF Next, CallStep

\* The index and the server are changed by a few steps only.
LEMMA StoreSteps ==
  ASSUME NEW c \in Calls, CallStep(c)
  PROVE  /\ UNCHANGED <<faulty, asked>>
         /\ UNCHANGED index \/ Register(c) \/ RollbackRegistration(c)
         /\ UNCHANGED workflows \/ StartWorkflow(c) \/ StartFails(c)
<1>1. CASE DenyAuthorization(c) \/ Register(c) \/ Replay(c) \/ RollbackRegistration(c)
  BY <1>1 DEF DenyAuthorization, Register, Replay, RollbackRegistration
<1>2. CASE CheckFingerprint(c) \/ StartWorkflow(c) \/ AlreadyStarted(c) \/ StartFails(c)
  BY <1>2 DEF CheckFingerprint, StartWorkflow, AlreadyStarted, StartFails
<1>3. CASE Describe(c) \/ FindNoWorkflow(c) \/ QueryFails(c) \/ Crash(c)
  BY <1>3 DEF Describe, FindNoWorkflow, QueryFails, Crash
<1> QED  BY <1>1, <1>2, <1>3 DEF CallStep

-----------------------------------------------------------------------------
(* Types.                                                                  *)

LEMMA TypeInit == Init => TypeOK
  BY DEF Init, TypeOK, Requests, Phases, Answers, Workflows

\* A run changes one workflow, which exists from then on.
LEMMA RunEffect ==
  ASSUME TypeOK, NEW e \in Calls, NEW spec \in Specs, Run(e, spec)
  PROVE  /\ workflows' \in [Calls -> Workflows]
         /\ \A f \in Calls \ {e} : workflows'[f] = workflows[f]
         /\ workflows'[e].state = "running"
         /\ workflows'[e].specs = workflows[e].specs \cup {spec}
<1> DEFINE new == [state |-> "running", specs |-> workflows[e].specs \cup {spec}]
<1>1. workflows[e] \in Workflows  BY DEF TypeOK
<1>2. new \in Workflows  BY <1>1 DEF Workflows
<1>3. workflows' = [workflows EXCEPT ![e] = new]  BY DEF Run
<1>4. workflows \in [Calls -> Workflows]  BY DEF TypeOK
<1>5. workflows'[e] = new  BY <1>3, <1>4
<1> HIDE DEF new
<1>6. workflows' \in [Calls -> Workflows]
      /\ \A f \in Calls \ {e} : workflows'[f] = workflows[f]
  BY <1>2, <1>3, <1>4
<1> QED  BY <1>5, <1>6 DEF new

LEMMA CallTypes ==
  ASSUME TypeOK, NEW c \in Calls, CallStep(c)
  PROVE  /\ phase' \in [Calls -> Phases]
         /\ target' \in [Calls -> Calls]
         /\ answer' \in [Calls -> Answers]
<1> USE DEF TypeOK, Goto, End, Phases, Answers
<1>1. CASE DenyAuthorization(c)  BY <1>1 DEF DenyAuthorization
<1>2. CASE Register(c)  BY <1>2 DEF Register
<1>3. CASE Replay(c)  BY <1>3 DEF Replay, Rows
<1>4. CASE RollbackRegistration(c)  BY <1>4 DEF RollbackRegistration
<1>5. CASE CheckFingerprint(c)  BY <1>5 DEF CheckFingerprint
<1>6. CASE StartWorkflow(c)  BY <1>6 DEF StartWorkflow
<1>7. CASE AlreadyStarted(c)  BY <1>7 DEF AlreadyStarted
<1>8. CASE StartFails(c)  BY <1>8 DEF StartFails
<1>9. CASE Describe(c)  BY <1>9 DEF Describe
<1>10. CASE FindNoWorkflow(c)  BY <1>10 DEF FindNoWorkflow
<1>11. CASE QueryFails(c)  BY <1>11 DEF QueryFails
<1>12. CASE Crash(c)  BY <1>12 DEF Crash
<1> QED
  BY <1>1, <1>2, <1>3, <1>4, <1>5, <1>6, <1>7, <1>8, <1>9, <1>10, <1>11, <1>12
  DEF CallStep

LEMMA StoreTypes ==
  ASSUME TypeOK, NEW c \in Calls, CallStep(c)
  PROVE  index' \subseteq Rows /\ workflows' \in [Calls -> Workflows]
<1> USE DEF TypeOK
<1>1. asked[c] \in Requests  OBVIOUS
<1>2. asked[c].spec \in Specs /\ asked[c].key \in Keys  BY <1>1 DEF Requests
<1>3. OwnRow(c) \in Rows  BY <1>2 DEF OwnRow, Rows
<1>4. index' \subseteq Rows
  BY <1>3, StoreSteps DEF Register, RollbackRegistration
<1>5. UNCHANGED workflows \/ Run(target[c], asked[c].spec)
  BY StoreSteps DEF StartWorkflow, StartFails
<1>6. target[c] \in Calls  OBVIOUS
<1> QED  BY <1>2, <1>4, <1>5, <1>6, RunEffect

\* The end of a workflow changes its state only.
LEMMA CloseEffect ==
  ASSUME TypeOK, NEW e \in Calls, Close(e)
  PROVE  /\ workflows' \in [Calls -> Workflows]
         /\ \A f \in Calls : /\ workflows'[f].specs = workflows[f].specs
                             /\ Exists(f)' <=> Exists(f)
<1>1. workflows \in [Calls -> Workflows]  BY DEF TypeOK
<1>2. workflows[e] \in Workflows  BY <1>1
<1> DEFINE new == [workflows[e] EXCEPT !.state = "closed"]
<1>3. new \in Workflows /\ new.specs = workflows[e].specs /\ new.state = "closed"
  BY <1>2 DEF Workflows
<1>4. workflows' = [workflows EXCEPT ![e] = new]  BY DEF Close
<1>5. workflows[e].state = "running"  BY DEF Close
<1> HIDE DEF new
<1>6. workflows'[e] = new /\ \A f \in Calls \ {e} : workflows'[f] = workflows[f]
  BY <1>1, <1>4
<1>7. workflows' \in [Calls -> Workflows]  BY <1>1, <1>3, <1>4
<1> QED  BY <1>3, <1>5, <1>6, <1>7 DEF Exists

LEMMA TypeStep == TypeOK /\ [Next]_vars => TypeOK'
<1> SUFFICES ASSUME TypeOK, [Next]_vars  PROVE TypeOK'  OBVIOUS
<1>1. CASE UNCHANGED vars  BY <1>1 DEF vars, TypeOK
<1>2. ASSUME NEW c \in Calls, CallStep(c)  PROVE TypeOK'
  BY <1>2, CallTypes, StoreTypes, StoreSteps DEF TypeOK
<1>3. ASSUME NEW e \in Calls, Close(e)  PROVE TypeOK'
  BY <1>3, CloseEffect DEF TypeOK, Close
<1> QED  BY <1>1, <1>2, <1>3, Steps

\* Requests, index, workflows and calls hold values of their types.
THEOREM TypeCorrect == Spec => []TypeOK
  BY TypeInit, TypeStep, PTL DEF Spec

-----------------------------------------------------------------------------
(* What a step does to the calls and to the workflows.                     *)

\* No step but c's own moves c.
LEMMA OthersStay ==
  ASSUME TypeOK, NEW c \in Calls, CallStep(c), NEW d \in Calls \ {c}
  PROVE  phase'[d] = phase[d] /\ target'[d] = target[d] /\ answer'[d] = answer[d]
<1> USE DEF TypeOK, Goto, End
<1>1. CASE DenyAuthorization(c)  BY <1>1 DEF DenyAuthorization
<1>2. CASE Register(c)  BY <1>2 DEF Register
<1>3. CASE Replay(c)  BY <1>3 DEF Replay
<1>4. CASE RollbackRegistration(c)  BY <1>4 DEF RollbackRegistration
<1>5. CASE CheckFingerprint(c)  BY <1>5 DEF CheckFingerprint
<1>6. CASE StartWorkflow(c)  BY <1>6 DEF StartWorkflow
<1>7. CASE AlreadyStarted(c)  BY <1>7 DEF AlreadyStarted
<1>8. CASE StartFails(c)  BY <1>8 DEF StartFails
<1>9. CASE Describe(c)  BY <1>9 DEF Describe
<1>10. CASE FindNoWorkflow(c)  BY <1>10 DEF FindNoWorkflow
<1>11. CASE QueryFails(c)  BY <1>11 DEF QueryFails
<1>12. CASE Crash(c)  BY <1>12 DEF Crash
<1> QED
  BY <1>1, <1>2, <1>3, <1>4, <1>5, <1>6, <1>7, <1>8, <1>9, <1>10, <1>11, <1>12
  DEF CallStep

\* A workflow that is changed is the one the call is at work on, before it or
\* as soon as it exists, and the call adds its own spec.
LEMMA WorkflowSteps ==
  ASSUME TypeOK, NEW c \in Calls, CallStep(c)
  PROVE  \/ UNCHANGED workflows
         \/ /\ phase[c] \in {"starting", "restarting"}
            /\ \A f \in Calls \ {target[c]} : workflows'[f] = workflows[f]
            /\ workflows'[target[c]].state = "running"
            /\ workflows'[target[c]].specs = workflows[target[c]].specs \cup {asked[c].spec}
<1>1. \/ UNCHANGED workflows
      \/ phase[c] \in {"starting", "restarting"} /\ Run(target[c], asked[c].spec)
  BY StoreSteps DEF StartWorkflow, StartFails
<1>2. target[c] \in Calls /\ asked[c] \in Requests  BY DEF TypeOK
<1>3. asked[c].spec \in Specs  BY <1>2 DEF Requests
<1>4. ASSUME Run(target[c], asked[c].spec)
      PROVE  /\ \A f \in Calls \ {target[c]} : workflows'[f] = workflows[f]
             /\ workflows'[target[c]].state = "running"
             /\ workflows'[target[c]].specs = workflows[target[c]].specs \cup {asked[c].spec}
  BY <1>2, <1>3, <1>4, RunEffect
<1> QED  BY <1>1, <1>4

-----------------------------------------------------------------------------
(* The index.                                                              *)

LEMMA RowOfKeyStep ==
  ASSUME TypeOK, RowOfKey, Next
  PROVE  RowOfKey'
<1>1. ASSUME NEW c \in Calls, CallStep(c)  PROVE RowOfKey'
  <2>1. asked' = asked  BY <1>1, StoreSteps
  <2>2. CASE UNCHANGED index \/ RollbackRegistration(c)
    <3>1. index' \subseteq index  BY <2>2 DEF RollbackRegistration
    <3> QED  BY <2>1, <3>1 DEF RowOfKey
  <2>3. CASE Register(c)
    <3>1. index' = index \cup {OwnRow(c)}  BY <2>3 DEF Register
    <3>2. \A row \in index : row.key # asked[c].key  BY <2>3 DEF Register
    <3>3. OwnRow(c).key = asked[c].key /\ OwnRow(c).exec = c  BY DEF OwnRow
    <3> QED  BY <2>1, <3>1, <3>2, <3>3 DEF RowOfKey
  <2> QED  BY <1>1, <2>2, <2>3, StoreSteps
<1>2. ASSUME NEW e \in Calls, Close(e)  PROVE RowOfKey'
  BY <1>2 DEF Close, RowOfKey
<1> QED  BY <1>1, <1>2, Steps

-----------------------------------------------------------------------------
(* The calls.                                                              *)

\* A call moves until it has ended, and is about another execution only when it
\* has found that one's row, with its own key and spec.
LEMMA TargetSteps ==
  ASSUME TypeOK, NEW c \in Calls, CallStep(c)
  PROVE  /\ phase[c] # "ended"
         /\ \/ target'[c] = target[c]
            \/ \E row \in index :
                 /\ phase[c] = "idle" /\ phase'[c] = "looking"
                 /\ row.key = asked[c].key
                 /\ row.spec = asked[c].spec
                 /\ target'[c] = row.exec
                 /\ answer' = answer
<1> USE DEF TypeOK, Goto, End
<1>1. CASE DenyAuthorization(c)  BY <1>1 DEF DenyAuthorization
<1>2. CASE Register(c)  BY <1>2 DEF Register
<1>3. CASE Replay(c)  BY <1>3 DEF Replay, Rows
<1>4. CASE RollbackRegistration(c)  BY <1>4 DEF RollbackRegistration
<1>5. CASE CheckFingerprint(c)  BY <1>5 DEF CheckFingerprint
<1>6. CASE StartWorkflow(c)  BY <1>6 DEF StartWorkflow
<1>7. CASE AlreadyStarted(c)  BY <1>7 DEF AlreadyStarted
<1>8. CASE StartFails(c)  BY <1>8 DEF StartFails
<1>9. CASE Describe(c)  BY <1>9 DEF Describe
<1>10. CASE FindNoWorkflow(c)  BY <1>10 DEF FindNoWorkflow
<1>11. CASE QueryFails(c)  BY <1>11 DEF QueryFails
<1>12. CASE Crash(c)  BY <1>12 DEF Crash
<1> QED
  BY <1>1, <1>2, <1>3, <1>4, <1>5, <1>6, <1>7, <1>8, <1>9, <1>10, <1>11, <1>12
  DEF CallStep

\* Where a call may come from, by where it is and how it is answered.
LEMMA PhaseSteps ==
  ASSUME TypeOK, NEW c \in Calls, CallStep(c)
  PROVE  /\ phase'[c] # "idle"
         /\ phase'[c] # "ended" => answer'[c] = answer[c]
         /\ phase'[c] = "starting" => target'[c] = target[c] /\ Register(c)
         /\ phase'[c] = "rolling_back" => StartFails(c)
         /\ phase'[c] \in {"checking", "describing"} \/ (phase'[c] = "ended" /\ answer'[c] = "ok")
              => \/ StartWorkflow(c) \/ AlreadyStarted(c) \/ CheckFingerprint(c)
                 \/ Describe(c)
         /\ phase'[c] = "ended" /\ answer'[c] = "conflict" => Replay(c) \/ CheckFingerprint(c)
         /\ phase'[c] \notin {"idle", "ended"} =>
              \/ Register(c)
              \/ phase'[c] = "looking" /\ Replay(c)
              \/ target'[c] = target[c] /\ phase[c] \notin {"idle", "ended"}
<1> USE DEF TypeOK, Goto, End
<1>1. CASE DenyAuthorization(c)  BY <1>1 DEF DenyAuthorization
<1>2. CASE Register(c)  BY <1>2 DEF Register
<1>3. CASE Replay(c)  BY <1>3 DEF Replay, Rows
<1>4. CASE RollbackRegistration(c)  BY <1>4 DEF RollbackRegistration
<1>5. CASE CheckFingerprint(c)  BY <1>5 DEF CheckFingerprint
<1>6. CASE StartWorkflow(c)  BY <1>6 DEF StartWorkflow
<1>7. CASE AlreadyStarted(c)  BY <1>7 DEF AlreadyStarted
<1>8. CASE StartFails(c)  BY <1>8 DEF StartFails
<1>9. CASE Describe(c)  BY <1>9 DEF Describe
<1>10. CASE FindNoWorkflow(c)  BY <1>10 DEF FindNoWorkflow
<1>11. CASE QueryFails(c)  BY <1>11 DEF QueryFails
<1>12. CASE Crash(c)  BY <1>12 DEF Crash
<1> QED
  BY <1>1, <1>2, <1>3, <1>4, <1>5, <1>6, <1>7, <1>8, <1>9, <1>10, <1>11, <1>12
  DEF CallStep

LEMMA CallsInOrderStep ==
  ASSUME TypeOK, CallsInOrder, Next
  PROVE  CallsInOrder'
<1>1. ASSUME NEW c \in Calls, CallStep(c)  PROVE CallsInOrder'
  <2>1. phase[c] # "ended"  BY <1>1, TargetSteps
  <2>2. phase'[c] = "starting" => phase[c] = "idle" /\ target'[c] = target[c]
    BY <1>1, PhaseSteps DEF Register
  <2>3. phase'[c] # "idle" /\ (phase'[c] # "ended" => answer'[c] = answer[c])
    BY <1>1, PhaseSteps
  <2>4. /\ phase'[c] \in {"idle", "starting"} => target'[c] = c
        /\ phase'[c] # "ended" => answer'[c] = "pending"
    BY <2>1, <2>2, <2>3 DEF CallsInOrder
  <2>5. ASSUME NEW d \in Calls \ {c}
        PROVE  /\ phase'[d] \in {"idle", "starting"} => target'[d] = d
               /\ phase'[d] # "ended" => answer'[d] = "pending"
    BY <1>1, OthersStay DEF CallsInOrder
  <2> QED  BY <2>4, <2>5 DEF CallsInOrder
<1>2. ASSUME NEW e \in Calls, Close(e)  PROVE CallsInOrder'
  BY <1>2 DEF Close, CallsInOrder
<1> QED  BY <1>1, <1>2, Steps

-----------------------------------------------------------------------------
(* One spec for an execution.                                              *)

\* Whoever joins an execution has the spec of the call that drew its id.
LEMMA SpecOfCallStep ==
  ASSUME TypeOK, SpecOfExecution, NEW c \in Calls, CallStep(c)
  PROVE  asked[c].spec = asked[target'[c]].spec
<1>1. phase[c] # "ended"  BY TargetSteps
<1>2. CASE target'[c] = target[c]  BY <1>1, <1>2 DEF SpecOfExecution
<1>3. CASE \E row \in index : row.spec = asked[c].spec /\ target'[c] = row.exec
  BY <1>3 DEF SpecOfExecution
<1> QED  BY <1>2, <1>3, TargetSteps

LEMMA SpecOfExecutionStep ==
  ASSUME TypeOK, SpecOfExecution, Next
  PROVE  SpecOfExecution'
<1>1. ASSUME NEW c \in Calls, CallStep(c)  PROVE SpecOfExecution'
  <2>1. asked' = asked  BY <1>1, StoreSteps
  <2>2. \A row \in index' : row.spec = asked[row.exec].spec
    <3>1. CASE index' = index \cup {OwnRow(c)}
      BY <3>1 DEF SpecOfExecution, OwnRow
    <3>2. CASE index' \subseteq index  BY <3>2 DEF SpecOfExecution
    <3> QED  BY <1>1, <3>1, <3>2, StoreSteps DEF Register, RollbackRegistration
  <2>3. asked[c].spec = asked[target'[c]].spec  BY <1>1, SpecOfCallStep
  <2>4. ASSUME NEW d \in Calls \ {c}, phase'[d] # "ended" \/ answer'[d] = "ok"
        PROVE  asked[d].spec = asked[target'[d]].spec
    BY <1>1, <2>4, OthersStay DEF SpecOfExecution
  <2>5. \A e \in Calls : workflows'[e].specs \subseteq {asked[e].spec}
    <3>1. CASE UNCHANGED workflows  BY <3>1 DEF SpecOfExecution
    <3>2. CASE /\ \A f \in Calls \ {target[c]} : workflows'[f] = workflows[f]
               /\ workflows'[target[c]].specs = workflows[target[c]].specs \cup {asked[c].spec}
      <4>1. phase[c] # "ended" /\ target[c] \in Calls  BY <1>1, TargetSteps DEF TypeOK
      <4>2. asked[c].spec = asked[target[c]].spec  BY <4>1 DEF SpecOfExecution
      <4> QED  BY <3>2, <4>1, <4>2 DEF SpecOfExecution
    <3> QED  BY <1>1, <3>1, <3>2, WorkflowSteps
  <2> QED  BY <2>1, <2>2, <2>3, <2>4, <2>5 DEF SpecOfExecution
<1>2. ASSUME NEW e \in Calls, Close(e)  PROVE SpecOfExecution'
  BY <1>2, CloseEffect DEF Close, SpecOfExecution
<1> QED  BY <1>1, <1>2, Steps

-----------------------------------------------------------------------------
(* What is described exists.                                               *)

LEMMA DescribedCallStep ==
  ASSUME TypeOK, CallsInOrder, DescribedExists, NEW c \in Calls, CallStep(c),
         phase'[c] \in {"checking", "describing"} \/ answer'[c] = "ok"
  PROVE  target'[c] = target[c] /\ workflows'[target[c]].state # "none"
<1> USE DEF TypeOK
<1>1. phase[c] # "ended" /\ answer[c] = "pending" /\ target[c] \in Calls
  BY TargetSteps DEF CallsInOrder
<1>2. phase'[c] = "ended" \/ answer'[c] = "pending"  BY <1>1, PhaseSteps
<1>3. \/ StartWorkflow(c) \/ AlreadyStarted(c) \/ CheckFingerprint(c) \/ Describe(c)
  BY <1>2, PhaseSteps
<1>4. target' = target
  BY <1>3 DEF StartWorkflow, AlreadyStarted, CheckFingerprint, Describe
<1>5. CASE StartWorkflow(c)
  <2>1. phase[c] \in {"starting", "restarting"} /\ Run(target[c], asked[c].spec)
    BY <1>5 DEF StartWorkflow
  <2>2. asked[c].spec \in Specs  BY DEF Requests
  <2> QED  BY <1>1, <1>4, <2>1, <2>2, RunEffect
<1>6. CASE AlreadyStarted(c)  BY <1>4, <1>6 DEF AlreadyStarted
<1>7. CASE CheckFingerprint(c)
  BY <1>4, <1>7 DEF CheckFingerprint, DescribedExists, Exists
<1>8. CASE Describe(c)  BY <1>4, <1>8 DEF Describe, Exists
<1> QED  BY <1>3, <1>5, <1>6, <1>7, <1>8

LEMMA DescribedExistsStep ==
  ASSUME TypeOK, CallsInOrder, DescribedExists, Next
  PROVE  DescribedExists'
<1>1. ASSUME NEW c \in Calls, CallStep(c)  PROVE DescribedExists'
  <2>1. ASSUME phase'[c] \in {"checking", "describing"} \/ answer'[c] = "ok"
        PROVE  workflows'[target'[c]].state # "none"
    BY <1>1, <2>1, DescribedCallStep
  <2>2. ASSUME NEW d \in Calls \ {c},
               phase'[d] \in {"checking", "describing"} \/ answer'[d] = "ok"
        PROVE  workflows'[target'[d]].state # "none"
    <3>1. target'[d] = target[d] /\ Exists(target[d]) /\ target[d] \in Calls
      BY <1>1, <2>2, OthersStay DEF DescribedExists, TypeOK
    <3>2. CASE UNCHANGED workflows  BY <3>1, <3>2 DEF Exists
    <3>3. CASE target[d] # target[c] /\ \A f \in Calls \ {target[c]} : workflows'[f] = workflows[f]
      BY <3>1, <3>3 DEF Exists
    <3>4. CASE target[d] = target[c] /\ workflows'[target[c]].state = "running"
      BY <3>1, <3>4
    <3> QED  BY <1>1, <3>2, <3>3, <3>4, WorkflowSteps
  <2> QED  BY <2>1, <2>2 DEF DescribedExists, Exists
<1>2. ASSUME NEW e \in Calls, Close(e)  PROVE DescribedExists'
  BY <1>2, CloseEffect DEF Close, DescribedExists, Exists, TypeOK
<1> QED  BY <1>1, <1>2, Steps

LEMMA RunsHaveSpecsStep ==
  ASSUME TypeOK, RunsHaveSpecs, Next
  PROVE  RunsHaveSpecs'
<1>1. ASSUME NEW c \in Calls, CallStep(c)  PROVE RunsHaveSpecs'
  <2>1. CASE UNCHANGED workflows  BY <2>1 DEF RunsHaveSpecs, Exists
  <2>2. CASE /\ \A f \in Calls \ {target[c]} : workflows'[f] = workflows[f]
             /\ workflows'[target[c]].specs = workflows[target[c]].specs \cup {asked[c].spec}
    BY <2>2 DEF RunsHaveSpecs, Exists
  <2> QED  BY <1>1, <2>1, <2>2, WorkflowSteps
<1>2. ASSUME NEW e \in Calls, Close(e)  PROVE RunsHaveSpecs'
  BY <1>2, CloseEffect DEF RunsHaveSpecs
<1> QED  BY <1>1, <1>2, Steps

-----------------------------------------------------------------------------
(* While registrations are not taken back.                                 *)

LEMMA RegisteredStep ==
  ASSUME TypeOK, CallsInOrder, Registered, Next
  PROVE  Registered'
<1>1. ASSUME NEW c \in Calls, CallStep(c), RegistrationsStay, RegistrationsStay'
      PROVE  /\ \A e \in Calls :
                  workflows'[e].state # "none" => \E row \in index' : row.exec = e
             /\ \A d \in Calls :
                  /\ phase'[d] # "rolling_back"
                  /\ phase'[d] \notin {"idle", "ended"} =>
                       \E row \in index' : row.exec = target'[d]
  <2>1. /\ \A e \in Calls : Exists(e) => \E row \in index : row.exec = e
        /\ \A d \in Calls :
             /\ phase[d] # "rolling_back"
             /\ phase[d] \notin {"idle", "ended"} => \E row \in index : row.exec = target[d]
    BY <1>1 DEF Registered
  <2>2. index \subseteq index'
    BY <1>1, <2>1, StoreSteps DEF Register, RollbackRegistration
  <2>3. ASSUME NEW e \in Calls, workflows'[e].state # "none"
        PROVE  \E row \in index' : row.exec = e
    <3>1. CASE Exists(e)  BY <2>1, <2>2, <3>1
    <3>2. CASE ~Exists(e)
      <4>1. workflows'[e] # workflows[e]  BY <2>3, <3>2 DEF Exists
      <4>2. e = target[c] /\ phase[c] \in {"starting", "restarting"}
        BY <1>1, <2>3, <4>1, WorkflowSteps
      <4> QED  BY <2>1, <2>2, <4>2
    <3> QED  BY <3>1, <3>2
  <2>4. phase'[c] # "rolling_back"
    BY <1>1, PhaseSteps DEF StartFails, RegistrationsStay
  <2>5. ASSUME phase'[c] \notin {"idle", "ended"}
        PROVE  \E row \in index' : row.exec = target'[c]
    <3>1. CASE Register(c)
      <4>1. target'[c] = c  BY <3>1 DEF Register, CallsInOrder
      <4>2. OwnRow(c) \in index' /\ OwnRow(c).exec = c  BY <3>1 DEF Register, OwnRow
      <4> QED  BY <4>1, <4>2
    <3>2. CASE phase'[c] = "looking" /\ Replay(c)
      <4>1. CASE target'[c] = target[c] /\ \A row \in index : target'[c] # row.exec
        BY <2>5, <3>2, <4>1 DEF Replay, Goto, End, TypeOK, Rows
      <4>2. CASE \E row \in index : target'[c] = row.exec  BY <2>2, <4>2
      <4> QED  BY <1>1, <4>1, <4>2, TargetSteps
    <3>3. CASE target'[c] = target[c] /\ phase[c] \notin {"idle", "ended"}
      BY <2>1, <2>2, <3>3
    <3> QED  BY <1>1, <2>5, <3>1, <3>2, <3>3, PhaseSteps
  <2>6. ASSUME NEW d \in Calls \ {c}
        PROVE  /\ phase'[d] # "rolling_back"
               /\ phase'[d] \notin {"idle", "ended"} =>
                    \E row \in index' : row.exec = target'[d]
    BY <1>1, <2>1, <2>2, OthersStay
  <2> QED  BY <2>3, <2>4, <2>5, <2>6
<1>2. ASSUME NEW c \in Calls, CallStep(c)  PROVE Registered'
  <2>1. RegistrationsStay' => RegistrationsStay
    BY <1>2, StoreSteps DEF RegistrationsStay
  <2> QED  BY <1>1, <1>2, <2>1 DEF Registered, Exists
<1>3. ASSUME NEW e \in Calls, Close(e)  PROVE Registered'
  BY <1>3, CloseEffect DEF Close, Registered, RegistrationsStay
<1> QED  BY <1>2, <1>3, Steps

\* A call that loses the race for its own execution's workflow still finds its
\* row; one that is refused at the index has met another call's spec.
LEMMA ConflictsAreRealStep ==
  ASSUME TypeOK, CallsInOrder, SpecOfExecution, RowOfKey, Registered,
         ConflictsAreReal, Next
  PROVE  ConflictsAreReal'
<1>1. ASSUME NEW c \in Calls, CallStep(c), RegistrationsStay, answer'[c] = "conflict"
      PROVE  \E d \in Calls : asked[d].key = asked[c].key /\ asked[d].spec # asked[c].spec
  <2>1. phase[c] # "ended" /\ answer[c] = "pending"
    BY <1>1, TargetSteps DEF CallsInOrder
  <2>2. Replay(c) \/ CheckFingerprint(c)
    BY <1>1, <2>1, PhaseSteps
  <2>3. CASE Replay(c)
    <3>1. PICK row \in index : row.key = asked[c].key /\ row.spec # asked[c].spec
      BY <1>1, <2>1, <2>3 DEF Replay
    <3>2. row.exec \in Calls /\ asked[row.exec].key = row.key /\ asked[row.exec].spec = row.spec
      BY DEF TypeOK, Rows, RowOfKey, SpecOfExecution
    <3> QED  BY <3>1, <3>2
  <2>4. CASE CheckFingerprint(c)
    <3>1. phase[c] = "checking"  BY <2>4 DEF CheckFingerprint
    <3>2. PICK row \in index : row.exec = target[c]
      BY <1>1, <3>1 DEF Registered
    <3>3. row.spec = asked[c].spec  BY <3>1, <3>2 DEF SpecOfExecution
    <3>4. answer' = answer  BY <2>4, <3>2, <3>3 DEF CheckFingerprint
    <3> QED  BY <1>1, <2>1, <3>4
  <2> QED  BY <2>2, <2>3, <2>4
<1>2. ASSUME NEW c \in Calls, CallStep(c)  PROVE ConflictsAreReal'
  <2>1. asked' = asked /\ (RegistrationsStay' => RegistrationsStay)
    BY <1>2, StoreSteps DEF RegistrationsStay
  <2>2. \A d \in Calls \ {c} : answer'[d] = answer[d]  BY <1>2, OthersStay
  <2> QED  BY <1>1, <1>2, <2>1, <2>2 DEF ConflictsAreReal
<1>3. ASSUME NEW e \in Calls, Close(e)  PROVE ConflictsAreReal'
  BY <1>3 DEF Close, ConflictsAreReal, RegistrationsStay
<1> QED  BY <1>2, <1>3, Steps

-----------------------------------------------------------------------------
(* The theorems.                                                           *)

LEMMA StartInvInit == Init => StartInv
<1> SUFFICES ASSUME Init  PROVE StartInv  OBVIOUS
<1>1. TypeOK  BY TypeInit
<1>2. CallsInOrder  BY DEF Init, CallsInOrder
<1>3. SpecOfExecution  BY DEF Init, SpecOfExecution
<1>4. DescribedExists /\ RunsHaveSpecs
  BY DEF Init, DescribedExists, RunsHaveSpecs, Exists
<1>5. RowOfKey /\ Registered /\ ConflictsAreReal
  BY DEF Init, RowOfKey, Registered, ConflictsAreReal, Exists
<1> QED  BY <1>1, <1>2, <1>3, <1>4, <1>5 DEF StartInv

LEMMA StartInvStep == StartInv /\ [Next]_vars => StartInv'
<1> SUFFICES ASSUME StartInv, [Next]_vars  PROVE StartInv'  OBVIOUS
<1>1. CASE UNCHANGED vars
  BY <1>1 DEF vars, StartInv, TypeOK, CallsInOrder, SpecOfExecution, DescribedExists,
     RunsHaveSpecs, RowOfKey, Registered, ConflictsAreReal, RegistrationsStay, Exists
<1>2. CASE Next
  BY <1>2, TypeStep, CallsInOrderStep, SpecOfExecutionStep, DescribedExistsStep,
     RunsHaveSpecsStep, RowOfKeyStep, RegisteredStep, ConflictsAreRealStep DEF StartInv
<1> QED  BY <1>1, <1>2

\* The inductive invariant of starts on Temporal holds, whatever goes wrong.
THEOREM StartInvariance == Spec => []StartInv
  BY StartInvInit, StartInvStep, PTL DEF Spec

\* Whatever is refused, lost or rolled back: a caller who is told of an
\* execution finds a workflow, and every run of it has the caller's own spec.
THEOREM OwnSpecs == Spec => []AnsweredWithOwnSpec
<1>1. StartInv => AnsweredWithOwnSpec
  <2> SUFFICES ASSUME StartInv, NEW c \in Calls, answer[c] = "ok"
               PROVE  Exists(target[c]) /\ workflows[target[c]].specs = {asked[c].spec}
    BY DEF AnsweredWithOwnSpec
  <2>1. target[c] \in Calls  BY DEF StartInv, TypeOK
  <2>2. Exists(target[c])  BY DEF StartInv, DescribedExists
  <2>3. workflows[target[c]].specs # {}  BY <2>1, <2>2 DEF StartInv, RunsHaveSpecs
  <2>4. /\ workflows[target[c]].specs \subseteq {asked[target[c]].spec}
        /\ asked[c].spec = asked[target[c]].spec
    BY <2>1 DEF StartInv, SpecOfExecution
  <2> QED  BY <2>2, <2>3, <2>4
<1> QED  BY <1>1, StartInvariance, PTL

\* While registrations are not taken back, a key has one execution.
THEOREM OneExecution == Spec => []OneExecutionPerKey
<1>1. StartInv => OneExecutionPerKey
  <2> SUFFICES ASSUME StartInv, RegistrationsStay, NEW e \in Calls, NEW f \in Calls,
                      Exists(e), Exists(f), asked[e].key = asked[f].key
               PROVE  e = f
    BY DEF OneExecutionPerKey
  <2>1. PICK row \in index : row.exec = e  BY DEF StartInv, Registered
  <2>2. PICK other \in index : other.exec = f  BY DEF StartInv, Registered
  <2>3. row.key = other.key  BY <2>1, <2>2 DEF StartInv, RowOfKey
  <2> QED  BY <2>1, <2>2, <2>3 DEF StartInv, RowOfKey
<1> QED  BY <1>1, StartInvariance, PTL

\* While registrations are not taken back, a conflict means that the key was
\* used with another spec.
THEOREM RealConflicts == Spec => []ConflictsAreReal
  BY StartInvariance, PTL DEF StartInv

-----------------------------------------------------------------------------
(* What callers who repeat a key are told, and what the stores keep.       *)

\* A call is at work on an execution of its own key.
KeyOfExecution == \A c \in Calls : asked[c].key = asked[target[c]].key

LEMMA KeyOfExecutionStep ==
  ASSUME TypeOK, RowOfKey, KeyOfExecution, [Next]_vars
  PROVE  KeyOfExecution'
<1>1. ASSUME NEW c \in Calls, CallStep(c)  PROVE KeyOfExecution'
  <2>1. asked' = asked  BY <1>1, StoreSteps
  <2>2. asked[c].key = asked[target'[c]].key
    <3>1. CASE target'[c] = target[c]  BY <3>1 DEF KeyOfExecution
    <3>2. CASE \E row \in index : row.key = asked[c].key /\ target'[c] = row.exec
      BY <3>2 DEF RowOfKey
    <3> QED  BY <1>1, <3>1, <3>2, TargetSteps
  <2>3. \A d \in Calls \ {c} : asked[d].key = asked[target'[d]].key
    BY <1>1, OthersStay DEF KeyOfExecution
  <2> QED  BY <2>1, <2>2, <2>3 DEF KeyOfExecution
<1>2. ASSUME NEW e \in Calls, Close(e)  PROVE KeyOfExecution'
  BY <1>2 DEF Close, KeyOfExecution
<1>3. CASE UNCHANGED vars  BY <1>3 DEF vars, KeyOfExecution
<1> QED  BY <1>1, <1>2, <1>3, Steps

LEMMA KeyOfExecutionAlways == Spec => []KeyOfExecution
<1>1. ASSUME Init  PROVE KeyOfExecution
  <2>1. \A c \in Calls : target[c] = c  BY <1>1 DEF Init
  <2> QED  BY <2>1, Zenon DEF KeyOfExecution
<1>2. StartInv /\ KeyOfExecution /\ [Next]_vars => KeyOfExecution'
  BY KeyOfExecutionStep DEF StartInv
<1> QED  BY <1>1, <1>2, StartInvariance, PTL DEF Spec

\* Callers who repeat a key are told one execution, but where a registration may
\* be taken back after start_workflow has raised RPCError: crashes, unanswered
\* queries, starters that never come to their workflow and ids that are used
\* again after the workflow has closed do not part them.
THEOREM ReplaysToldTheSame == Spec => [](RegistrationsStay => ReplaysAgree)
<1>1. StartInv /\ KeyOfExecution /\ OneExecutionPerKey => (RegistrationsStay => ReplaysAgree)
  <2> SUFFICES ASSUME StartInv, KeyOfExecution, OneExecutionPerKey, RegistrationsStay,
                      NEW c \in Calls, NEW d \in Calls,
                      answer[c] = "ok", answer[d] = "ok", asked[c].key = asked[d].key
               PROVE  target[c] = target[d]
    BY DEF ReplaysAgree
  <2>1. target[c] \in Calls /\ target[d] \in Calls  BY DEF StartInv, TypeOK
  <2>2. Exists(target[c]) /\ Exists(target[d])  BY DEF StartInv, DescribedExists
  <2>3. asked[target[c]].key = asked[target[d]].key  BY DEF KeyOfExecution
  <2> QED  BY <2>1, <2>2, <2>3 DEF OneExecutionPerKey
<1> QED  BY <1>1, StartInvariance, KeyOfExecutionAlways, OneExecution, PTL

\* A registration goes with the call that made it and cannot know whether its
\* workflow has started, and a workflow that has run is not forgotten.
StoresKeep ==
  /\ \A row \in index : row \notin index' =>
       /\ ~RegistrationsStay
       /\ phase[row.exec] = "rolling_back" /\ answer'[row.exec] = "failed"
  /\ \A e \in Calls : Exists(e) =>
       Exists(e)' /\ workflows[e].specs \subseteq workflows'[e].specs

LEMMA StoresKeepStep ==
  ASSUME StartInv, Next
  PROVE  StoresKeep
<1>1. TypeOK  BY DEF StartInv
<1>2. ASSUME NEW c \in Calls, CallStep(c)  PROVE StoresKeep
  <2>1. ASSUME NEW row \in index, row \notin index'
        PROVE  /\ ~RegistrationsStay
               /\ phase[row.exec] = "rolling_back" /\ answer'[row.exec] = "failed"
    <3>1. RollbackRegistration(c)  BY <1>2, <2>1, StoreSteps DEF Register
    <3>2. row.exec = c /\ phase[c] = "rolling_back" /\ answer'[c] = "failed"
      BY <1>1, <2>1, <3>1 DEF RollbackRegistration, End, TypeOK
    <3> QED  BY <3>2 DEF StartInv, Registered
  <2>2. \A e \in Calls : Exists(e) =>
          Exists(e)' /\ workflows[e].specs \subseteq workflows'[e].specs
    BY <1>1, <1>2, WorkflowSteps DEF Exists
  <2> QED  BY <2>1, <2>2 DEF StoresKeep
<1>3. ASSUME NEW e \in Calls, Close(e)  PROVE StoresKeep
  BY <1>1, <1>3, CloseEffect DEF Close, StoresKeep, Exists
<1> QED  BY <1>2, <1>3, Steps

\* A row of the index goes only with the rollback of the call that wrote it, and
\* only where starts are refused or lost: no replay loses the registration of
\* another, and no run of a workflow is forgotten.
THEOREM RegistrationsKept == Spec => [][StoresKeep]_vars
<1>1. StartInv /\ [Next]_vars => [StoresKeep]_vars
  BY StoresKeepStep
<1> QED  BY <1>1, StartInvariance, PTL DEF Spec

=============================================================================
