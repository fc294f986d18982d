------------------------ MODULE DeploymentQueueProofs ------------------------
(***************************************************************************)
(* Proofs about DeploymentQueue, for every number of applications, worker  *)
(* processes, rows, restarts and faults.                                   *)
(***************************************************************************)
EXTENDS DeploymentQueue, FiniteSetTheorems, TLAPS

-----------------------------------------------------------------------------
(* Type correctness.                                                       *)

\* Counting one more execution of a row keeps the counter a function into Nat.
LEMMA BumpType ==
  ASSUME NEW S, NEW f \in [S -> Nat], NEW x
  PROVE  [f EXCEPT ![x] = @ + 1] \in [S -> Nat]
<1> DEFINE g == [f EXCEPT ![x] = @ + 1]
<1>1. g = [y \in S |-> IF y = x THEN f[x] + 1 ELSE f[y]]
  OBVIOUS
<1>2. ASSUME NEW y \in S PROVE (IF y = x THEN f[x] + 1 ELSE f[y]) \in Nat
  <2>1. f[y] \in Nat OBVIOUS
  <2>2. CASE y = x BY <2>1, <2>2
  <2>3. CASE y # x BY <2>1, <2>3
  <2> QED BY <2>2, <2>3
<1> QED BY <1>1, <1>2

\* Handlers, cancellation and retries keep the types.
LEMMA UserTypeOK ==
  ASSUME TypeOK, UserStep \/ \E d \in Ids : RequestStep(d)
  PROVE  TypeOK'
<1> USE ConstantsAssumption DEF TypeOK, workerVars, countVars, rowVars, Statuses, Terminal
<1>1. ASSUME NEW a \in Applications, CreateDeployment(a) PROVE TypeOK'
  BY <1>1 DEF CreateDeployment
<1>2. ASSUME NEW d \in Ids, RetryDeployment(d) PROVE TypeOK'
  BY <1>2 DEF RetryDeployment, CreateDeployment
<1>3. ASSUME NEW d \in Ids, CancelDeployment(d) PROVE TypeOK'
  BY <1>3 DEF CancelDeployment
<1>4. ASSUME NEW d \in Ids, Enqueue(d) PROVE TypeOK'
  BY <1>4 DEF Enqueue
<1>5. ASSUME NEW d \in Ids, EnqueueFails(d) PROVE TypeOK'
  <2>0. queue' = queue \/ queue' = Append(queue, d)
    BY <1>5 DEF EnqueueFails
  <2>1. queue' \in Seq(Ids)
    <3>1. CASE queue' = queue BY <3>1
    <3>2. CASE queue' = Append(queue, d) BY <3>2
    <3> QED BY <2>0, <3>1, <3>2
  <2>2. request' \in [Ids -> {"none", "enqueue", "markFailed", "done"}]
    BY <1>5 DEF EnqueueFails
  <2>3. faults' \in 0..MaxFaults
    BY <1>5 DEF EnqueueFails, Fault
  <2> QED BY <1>5, <2>1, <2>2, <2>3 DEF EnqueueFails, Fault
<1>6. ASSUME NEW d \in Ids, MarkDeploymentEnqueueFailed(d) PROVE TypeOK'
  BY <1>6 DEF MarkDeploymentEnqueueFailed
<1>7. ASSUME NEW d \in Ids, RequestDies(d) PROVE TypeOK'
  BY <1>7 DEF RequestDies, Fault
<1> QED BY <1>1, <1>2, <1>3, <1>4, <1>5, <1>6, <1>7 DEF UserStep, RequestStep

\* So do the startup, the shutdown and the queue loop of a worker process.
LEMMA WorkerTypeOK ==
  ASSUME TypeOK, NEW w \in Workers,
         StartupStep(w) \/ RunStep(w) \/ Deploy(w) \/ StopProcess(w)
  PROVE  TypeOK'
<1> USE ConstantsAssumption
    DEF TypeOK, workerVars, countVars, rowVars, Statuses, Terminal, Goto, Drop,
        WorkerStates, Executing, Reporting, Holding, Booting, NoDeployment
<1>1. CASE StartProcess(w)       BY <1>1 DEF StartProcess
<1>2. CASE RecoverInterrupted(w) BY <1>2 DEF RecoverInterrupted
<1>3. CASE ListQueued(w)         BY <1>3 DEF ListQueued, QueuedRows
<1>4. CASE Requeue(w)
  <2>0. queue' = queue \/ \E d \in Ids : queue' = Append(queue, d)
    BY <1>4 DEF Requeue
  <2>1. queue' \in Seq(Ids)
    <3>1. CASE queue' = queue BY <3>1
    <3>2. CASE \E d \in Ids : queue' = Append(queue, d) BY <3>2
    <3> QED BY <2>0, <3>1, <3>2
  <2>2. pc' = pc \/ pc' = [pc EXCEPT ![w] = "idle"]
    BY <1>4 DEF Requeue
  <2>3. pc' \in [Workers -> WorkerStates]
    <3>1. CASE pc' = pc BY <3>1
    <3>2. CASE pc' = [pc EXCEPT ![w] = "idle"] BY <3>2
    <3> QED BY <2>2, <3>1, <3>2
  <2>4. todo' = todo \/ \E d : todo' = [todo EXCEPT ![w] = @ \ {d}]
    BY <1>4 DEF Requeue
  <2>5. todo' \in [Workers -> SUBSET Ids]
    <3>1. CASE todo' = todo BY <3>1
    <3>2. CASE \E d : todo' = [todo EXCEPT ![w] = @ \ {d}] BY <3>2
    <3> QED BY <2>4, <3>1, <3>2
  <2>6. UNCHANGED <<rowVars, request, appStatus, current, countVars>>
    BY <1>4 DEF Requeue
  <2> QED BY <2>1, <2>3, <2>5, <2>6
<1>5. CASE RecoveryFails(w)      BY <1>5 DEF RecoveryFails, Fault
<1>6. CASE StopProcess(w)        BY <1>6 DEF StopProcess
<1>7. CASE Pop(w)                BY <1>7 DEF Pop
<1>8. CASE PopFails(w)           BY <1>8 DEF PopFails, Fault
<1>9. CASE Load(w)               BY <1>9 DEF Load
<1>10. CASE StartQueued(w)
  <2>1. CASE status[current[w]] = "queued"
    <3>1. status' = [status EXCEPT ![current[w]] = "running"]
      BY <1>10, <2>1 DEF StartQueued
    <3>2. executions' = [executions EXCEPT ![current[w]] = @ + 1]
      BY <1>10, <2>1 DEF StartQueued
    <3>3. pc' = [pc EXCEPT ![w] = "started"] /\ current' = current
      BY <1>10, <2>1 DEF StartQueued
    <3>4. UNCHANGED <<application, queue, request, appStatus, todo, countVars>>
      BY <1>10 DEF StartQueued
    <3>5. status' \in [Ids -> Statuses]   BY <3>1
    <3>6. executions' \in [Ids -> Nat]    BY <3>2, BumpType
    <3> QED BY <3>3, <3>4, <3>5, <3>6
  <2>2. CASE status[current[w]] # "queued"
    BY <1>10, <2>2 DEF StartQueued
  <2> QED BY <2>1, <2>2
<1>11. CASE HandleFails(w)       BY <1>11 DEF HandleFails, Fault
<1>12. CASE LoadTarget(w)        BY <1>12 DEF LoadTarget, SetAppStatus
<1>13. CASE LoadTargetFails(w)   BY <1>13 DEF LoadTargetFails, Fault
<1>14. CASE Deploy(w)            BY <1>14 DEF Deploy
<1>15. CASE Finish(w)
  <2>1. status' \in [Ids -> Statuses]
    BY <1>15 DEF Finish
  <2>2. pc' \in [Workers -> WorkerStates] /\ current' \in [Workers -> Ids \cup {0}]
    BY <1>15 DEF Finish
  <2> QED BY <1>15, <2>1, <2>2 DEF Finish
<1>16. CASE FinishFails(w)
  <2>1. status' \in [Ids -> Statuses]
    BY <1>16 DEF FinishFails
  <2>2. pc' \in [Workers -> WorkerStates] /\ current' \in [Workers -> Ids \cup {0}]
    BY <1>16 DEF FinishFails
  <2> QED BY <1>16, <2>1, <2>2 DEF FinishFails, Fault
<1>17. CASE Report(w)            BY <1>17 DEF Report, SetAppStatus
<1>18. CASE ReportFails(w)       BY <1>18 DEF ReportFails, Fault
<1> QED BY <1>1, <1>2, <1>3, <1>4, <1>5, <1>6, <1>7, <1>8, <1>9, <1>10, <1>11,
           <1>12, <1>13, <1>14, <1>15, <1>16, <1>17, <1>18
        DEF StartupStep, RunStep

\* Every reachable state of the queue is well typed.
THEOREM TypeCorrect == Spec => []TypeOK
<1>1. Init => TypeOK
  BY ConstantsAssumption
     DEF Init, TypeOK, Statuses, WorkerStates, Booting, NoDeployment
<1>2. TypeOK /\ [Next]_vars => TypeOK'
  <2> SUFFICES ASSUME TypeOK, [Next]_vars PROVE TypeOK'
    OBVIOUS
  <2>1. CASE UNCHANGED vars BY <2>1 DEF TypeOK, vars
  <2>2. CASE Next BY <2>2, UserTypeOK, WorkerTypeOK DEF Next
  <2> QED BY <2>1, <2>2
<1> QED BY <1>1, <1>2, PTL DEF Spec

-----------------------------------------------------------------------------
(* Rows: exclusive, executed at most once.                                 *)

Busy == Holding \cup Executing \cup Reporting

\* The inductive invariant behind OneInProgress and RunsAtMostOnce: a worker past
\* the conditional UPDATE holds a row that was executed (so it left "queued" for
\* good), a handler only ever touches a row it has inserted, and inserted rows
\* belong to an application.
WorkersHoldRows ==
  \A w \in Workers :
    /\ pc[w] \in Busy => current[w] \in Ids
    /\ pc[w] \in Executing \cup Reporting => executions[current[w]] = 1

RequestsHaveRows ==
  \A d \in Ids :
    /\ request[d] \in {"enqueue", "markFailed"} => status[d] # "none"
    /\ status[d] # "none" => application[d] \in Applications

RowInv == WorkersHoldRows /\ RequestsHaveRows /\ RunsAtMostOnce /\ OneInProgress

\* Handlers, cancellation and retries keep the invariant.
LEMMA UserRowInv ==
  ASSUME TypeOK, RowInv, UserStep \/ \E d \in Ids : RequestStep(d)
  PROVE  RowInv'
<1> USE DEF TypeOK, RowInv, WorkersHoldRows, RequestsHaveRows, RunsAtMostOnce,
            OneInProgress, InProgress, workerVars, rowVars, countVars
<1>1. ASSUME NEW a \in Applications, CreateDeployment(a) PROVE RowInv'
  <2> PICK d \in Ids :
        /\ status[d] = "none"
        /\ status' = [status EXCEPT ![d] = "queued"]
        /\ application' = [application EXCEPT ![d] = a]
        /\ request' = [request EXCEPT ![d] = "enqueue"]
    <3>1. \A d \in Ids : d >= d BY ConstantsAssumption DEF Ids
    <3> QED BY <1>1, <3>1 DEF CreateDeployment
  <2>1. UNCHANGED <<pc, current, executions>>
    BY <1>1 DEF CreateDeployment
  <2>2. WorkersHoldRows' BY <2>1
  <2>3. RequestsHaveRows' OBVIOUS
  <2>4. RunsAtMostOnce' BY <2>1
  <2>5. OneInProgress' BY <1>1 DEF CreateDeployment
  <2> QED BY <2>2, <2>3, <2>4, <2>5
<1>2. ASSUME NEW d \in Ids, RetryDeployment(d) PROVE RowInv'
  BY <1>1, <1>2 DEF RetryDeployment
<1>3. ASSUME NEW d \in Ids, CancelDeployment(d) PROVE RowInv'
  BY <1>3 DEF CancelDeployment
<1>4. ASSUME NEW d \in Ids, Enqueue(d) PROVE RowInv'
  BY <1>4 DEF Enqueue
<1>5. ASSUME NEW d \in Ids, EnqueueFails(d) PROVE RowInv'
  BY <1>5 DEF EnqueueFails
<1>6. ASSUME NEW d \in Ids, MarkDeploymentEnqueueFailed(d) PROVE RowInv'
  BY <1>6 DEF MarkDeploymentEnqueueFailed
<1>7. ASSUME NEW d \in Ids, RequestDies(d) PROVE RowInv'
  BY <1>7 DEF RequestDies
<1> QED BY <1>1, <1>2, <1>3, <1>4, <1>5, <1>6, <1>7 DEF UserStep, RequestStep

\* A worker step that leaves the rows alone keeps the invariant, provided the
\* worker is still entitled to what it holds.
LEMMA IdleRowInv ==
  ASSUME TypeOK, RowInv, NEW w \in Workers,
         UNCHANGED <<status, application, executions, request>>,
         pc' \in [Workers -> WorkerStates], current' \in [Workers -> Ids \cup {NoDeployment}],
         \A v \in Workers \ {w} : pc'[v] = pc[v] /\ current'[v] = current[v],
         pc'[w] \in Busy => current'[w] \in Ids,
         pc'[w] \in Executing \cup Reporting =>
           pc[w] \in Executing \cup Reporting /\ current'[w] = current[w]
  PROVE  RowInv'
<1> USE DEF TypeOK, RowInv, WorkersHoldRows
<1>1. WorkersHoldRows'
  <2> SUFFICES ASSUME NEW v \in Workers
               PROVE  /\ pc'[v] \in Busy => current'[v] \in Ids
                      /\ pc'[v] \in Executing \cup Reporting => executions[current'[v]] = 1
    OBVIOUS
  <2>1. CASE v = w BY <2>1
  <2>2. CASE v # w BY <2>2
  <2> QED BY <2>1, <2>2
<1>2. RequestsHaveRows' /\ RunsAtMostOnce' /\ OneInProgress'
  BY DEF RequestsHaveRows, RunsAtMostOnce, OneInProgress, InProgress
<1> QED BY <1>1, <1>2

\* Starting a queued row, or giving an inserted row an outcome, keeps the row part.
LEMMA RowUpdate ==
  ASSUME TypeOK, RowInv, NEW d \in Ids, NEW s \in {"running", "succeeded", "failed"},
         status' = [status EXCEPT ![d] = s],
         s = "running" => status[d] = "queued", status[d] # "none",
         UNCHANGED <<application, executions, request>>
  PROVE  RequestsHaveRows' /\ RunsAtMostOnce' /\ OneInProgress'
<1>1. RequestsHaveRows'
  BY DEF TypeOK, RowInv, RequestsHaveRows
<1>2. RunsAtMostOnce'
  BY DEF TypeOK, RowInv, RunsAtMostOnce
<1>3. OneInProgress'
  BY DEF TypeOK, RowInv, OneInProgress, InProgress
<1> QED BY <1>1, <1>2, <1>3

\* Worker steps keep the invariant.
LEMMA WorkerRowInv ==
  ASSUME TypeOK, TypeOK', RowInv, NEW w \in Workers,
         StartupStep(w) \/ RunStep(w) \/ Deploy(w) \/ StopProcess(w)
  PROVE  RowInv'
<1> DEFINE Untouched == UNCHANGED <<status, application, executions, request>>
<1>t. /\ pc \in [Workers -> WorkerStates] /\ current \in [Workers -> Ids \cup {NoDeployment}]
      /\ pc' \in [Workers -> WorkerStates] /\ current' \in [Workers -> Ids \cup {NoDeployment}]
  BY DEF TypeOK
<1>h. pc[w] \in Busy => current[w] \in Ids
  BY DEF RowInv, WorkersHoldRows
<1>1. CASE StartProcess(w) \/ ListQueued(w) \/ Requeue(w) \/ RecoveryFails(w)
           \/ StopProcess(w) \/ Pop(w) \/ PopFails(w) \/ Load(w)
           \/ LoadTarget(w) \/ LoadTargetFails(w) \/ Deploy(w) \/ Report(w) \/ ReportFails(w)
  <2>1. Untouched
    BY <1>1 DEF StartProcess, ListQueued, Requeue, RecoveryFails, StopProcess, Pop, PopFails,
       Load, LoadTarget, LoadTargetFails, Deploy, Report, ReportFails, rowVars
  <2>2. \A v \in Workers \ {w} : pc'[v] = pc[v] /\ current'[v] = current[v]
    BY <1>1, <1>t DEF StartProcess, ListQueued, Requeue, RecoveryFails, StopProcess, Pop,
       PopFails, Load, LoadTarget, LoadTargetFails, Deploy, Report, ReportFails, Goto, Drop,
       workerVars
  <2>3. pc'[w] \in Busy => current'[w] \in Ids
    <3>1. CASE Pop(w)
      BY <3>1, <1>t DEF Pop, TypeOK
    <3>2. CASE ~Pop(w)
      BY <1>1, <3>2, <1>t, <1>h
         DEF StartProcess, ListQueued, Requeue, RecoveryFails, StopProcess,
             PopFails, Load, LoadTarget, LoadTargetFails, Deploy, Report, ReportFails, Goto,
             Drop, workerVars, Busy, Holding, Executing, Reporting
    <3> QED BY <3>1, <3>2
  <2>4. pc'[w] \in Executing \cup Reporting =>
          pc[w] \in Executing \cup Reporting /\ current'[w] = current[w]
    BY <1>1, <1>t DEF StartProcess, ListQueued, Requeue, RecoveryFails, StopProcess, Pop,
       PopFails, Load, LoadTarget, LoadTargetFails, Deploy, Report, ReportFails, Goto, Drop,
       workerVars, Executing, Reporting
  <2> QED BY <2>1, <2>2, <2>3, <2>4, <1>t, IdleRowInv
<1>2. CASE RecoverInterrupted(w)
  BY <1>2, <1>t DEF RecoverInterrupted, Goto, TypeOK, RowInv, WorkersHoldRows, RequestsHaveRows,
     RunsAtMostOnce, OneInProgress, InProgress, Busy, Holding, Executing, Reporting
<1>3. CASE StartQueued(w)
  <2>1. CASE status[current[w]] = "queued"
    <3>0. current[w] \in Ids
      BY <1>3, <1>h DEF StartQueued, Busy, Holding
    <3>1. status' = [status EXCEPT ![current[w]] = "running"]
      BY <1>3, <2>1 DEF StartQueued
    <3>2. executions' = [executions EXCEPT ![current[w]] = @ + 1]
      BY <1>3, <2>1 DEF StartQueued
    <3>3. pc' = [pc EXCEPT ![w] = "started"] /\ current' = current
      BY <1>3, <2>1 DEF StartQueued, Goto
    <3>4. UNCHANGED <<application, request>>
      BY <1>3 DEF StartQueued
    <3>5. executions[current[w]] = 0
      <4>1. executions[current[w]] \in Nat
        BY <3>0 DEF TypeOK
      <4>2. executions[current[w]] <= 1 /\ executions[current[w]] # 1
        BY <3>0, <2>1 DEF RowInv, RunsAtMostOnce
      <4> QED BY <4>1, <4>2
    <3>6. WorkersHoldRows'
      BY <3>0, <3>2, <3>3, <3>5, <1>t DEF RowInv, WorkersHoldRows, TypeOK
    <3>7. RequestsHaveRows'
      BY <3>0, <3>1, <3>4, <2>1 DEF RowInv, RequestsHaveRows, TypeOK
    <3>8. RunsAtMostOnce'
      BY <3>0, <3>1, <3>2, <3>5 DEF RowInv, RunsAtMostOnce, TypeOK
    <3>9. OneInProgress'
      BY <3>0, <3>1, <3>4, <2>1 DEF RowInv, OneInProgress, InProgress, TypeOK
    <3> QED BY <3>6, <3>7, <3>8, <3>9 DEF RowInv
  <2>2. CASE status[current[w]] # "queued"
    <3>1. Untouched /\ pc' = [pc EXCEPT ![w] = "idle"]
            /\ current' = [current EXCEPT ![w] = NoDeployment]
      BY <1>3, <2>2 DEF StartQueued, Drop, Goto
    <3> QED BY <3>1, <1>t, IdleRowInv DEF Busy, Holding, Executing, Reporting
  <2> QED BY <2>1, <2>2
<1>4. CASE HandleFails(w)
  <2>0. current[w] \in Ids
    BY <1>4, <1>h DEF HandleFails, Busy, Holding
  <2>1. /\ pc' = [pc EXCEPT ![w] = "idle"]
        /\ current' = [current EXCEPT ![w] = NoDeployment]
        /\ UNCHANGED <<application, executions, request>>
    BY <1>4 DEF HandleFails, Drop, Goto
  <2>2. status' = status \/ (/\ status[current[w]] = "queued"
                             /\ status' = [status EXCEPT ![current[w]] = "running"])
    BY <1>4 DEF HandleFails
  <2>3. WorkersHoldRows'
    BY <2>1, <1>t DEF RowInv, WorkersHoldRows, Busy, Holding, Executing, Reporting
  <2>4. RequestsHaveRows' /\ RunsAtMostOnce' /\ OneInProgress'
    <3>1. CASE status' = status
      BY <2>1, <3>1 DEF RowInv, RequestsHaveRows, RunsAtMostOnce, OneInProgress, InProgress
    <3>2. CASE status' # status
      BY <2>0, <2>1, <2>2, <3>2, RowUpdate
    <3> QED BY <3>1, <3>2
  <2> QED BY <2>3, <2>4 DEF RowInv
<1>5. CASE Finish(w) \/ FinishFails(w)
  <2>0. current[w] \in Ids /\ executions[current[w]] = 1
    BY <1>5 DEF Finish, FinishFails, RowInv, WorkersHoldRows, Executing, Busy
  <2>n. status[current[w]] # "none"
    BY <2>0 DEF RowInv, RunsAtMostOnce
  <2>1. UNCHANGED <<application, executions, request>>
    BY <1>5 DEF Finish, FinishFails
  <2>2. \/ status' = status
        \/ status' = [status EXCEPT ![current[w]] = "succeeded"]
        \/ status' = [status EXCEPT ![current[w]] = "failed"]
    BY <1>5 DEF Finish, FinishFails
  <2>3. \A v \in Workers \ {w} : pc'[v] = pc[v] /\ current'[v] = current[v]
    BY <1>5, <1>t DEF Finish, FinishFails, Goto, Drop
  <2>4. pc'[w] = "idle" \/ current'[w] = current[w]
    BY <1>5, <1>t DEF Finish, FinishFails, Goto, Drop
  <2>5. WorkersHoldRows'
    BY <2>0, <2>1, <2>3, <2>4, <1>t
       DEF RowInv, WorkersHoldRows, Busy, Holding, Executing, Reporting
  <2>6. RequestsHaveRows' /\ RunsAtMostOnce' /\ OneInProgress'
    <3>1. CASE status' = status
      BY <2>1, <3>1 DEF RowInv, RequestsHaveRows, RunsAtMostOnce, OneInProgress, InProgress
    <3>2. CASE status' # status
      BY <2>0, <2>n, <2>1, <2>2, <3>2, RowUpdate
    <3> QED BY <3>1, <3>2
  <2> QED BY <2>5, <2>6 DEF RowInv
<1> QED BY <1>1, <1>2, <1>3, <1>4, <1>5 DEF StartupStep, RunStep

\* Every reachable state satisfies the row invariant.
THEOREM RowsCorrect == Spec => []RowInv
<1>1. Init => RowInv
  BY DEF Init, RowInv, WorkersHoldRows, RequestsHaveRows, RunsAtMostOnce, OneInProgress,
         InProgress, Busy, Holding, Executing, Reporting
<1>2. TypeOK /\ TypeOK' /\ RowInv /\ [Next]_vars => RowInv'
  <2> SUFFICES ASSUME TypeOK, TypeOK', RowInv, [Next]_vars PROVE RowInv'
    OBVIOUS
  <2>1. CASE UNCHANGED vars
    BY <2>1 DEF vars, RowInv, WorkersHoldRows, RequestsHaveRows, RunsAtMostOnce,
                OneInProgress, InProgress
  <2>2. CASE Next BY <2>2, UserRowInv, WorkerRowInv DEF Next
  <2> QED BY <2>1, <2>2
<1> QED BY <1>1, <1>2, TypeCorrect, PTL DEF Spec

\* An application never has two rows queued or running.
THEOREM Exclusive == Spec => []OneInProgress
<1>1. RowInv => OneInProgress BY DEF RowInv
<1> QED BY <1>1, RowsCorrect, PTL

\* The runner executes a row at most once, and never a cancelled one.
THEOREM ExecutesAtMostOnce == Spec => []RunsAtMostOnce
<1>1. RowInv => RunsAtMostOnce BY DEF RowInv
<1> QED BY <1>1, RowsCorrect, PTL

-----------------------------------------------------------------------------
(* Workers and the rows they execute.                                      *)

\* How a step changes who executes what: only one worker moves, and it starts
\* to execute a row only when that row was queued.
LEMMA WhoExecutes ==
  ASSUME TypeOK, TypeOK', NEW w \in Workers,
         StartupStep(w) \/ RunStep(w) \/ Deploy(w) \/ StopProcess(w)
  PROVE  /\ \A v \in Workers \ {w} : pc'[v] = pc[v] /\ current'[v] = current[v]
         /\ pc'[w] \in Executing =>
              /\ current'[w] = current[w]
              /\ \/ pc[w] \in Executing
                 \/ pc[w] = "loaded" /\ status[current[w]] = "queued"
<1>t. /\ pc \in [Workers -> WorkerStates] /\ current \in [Workers -> Ids \cup {NoDeployment}]
  BY DEF TypeOK
<1>1. \A v \in Workers \ {w} : pc'[v] = pc[v] /\ current'[v] = current[v]
  <2>1. CASE StartupStep(w) \/ Deploy(w) \/ StopProcess(w)
    BY <1>t, <2>1 DEF StartupStep, StartProcess, RecoverInterrupted, ListQueued, Requeue,
       RecoveryFails, Deploy, StopProcess, Goto, Drop
  <2>2. CASE RunStep(w)
    BY <1>t, <2>2 DEF RunStep, Pop, PopFails, Load, StartQueued, HandleFails, LoadTarget,
       LoadTargetFails, Finish, FinishFails, Report, ReportFails, Goto, Drop, workerVars
  <2> QED BY <2>1, <2>2
<1>2. ASSUME pc'[w] \in Executing
      PROVE  /\ current'[w] = current[w]
             /\ \/ pc[w] \in Executing
                \/ pc[w] = "loaded" /\ status[current[w]] = "queued"
  <2>1. CASE StartupStep(w) \/ Deploy(w) \/ StopProcess(w)
    BY <1>t, <1>2, <2>1 DEF StartupStep, StartProcess, RecoverInterrupted, ListQueued, Requeue,
       RecoveryFails, Deploy, StopProcess, Goto, Drop, Executing
  <2>2. CASE RunStep(w)
    BY <1>t, <1>2, <2>2 DEF RunStep, Pop, PopFails, Load, StartQueued, HandleFails, LoadTarget,
       LoadTargetFails, Finish, FinishFails, Report, ReportFails, Goto, Drop, workerVars,
       Executing, Reporting, Holding
  <2> QED BY <2>1, <2>2
<1> QED BY <1>1, <1>2

\* The handlers leave the workers alone.
LEMMA HandlersLeaveWorkers ==
  ASSUME UserStep \/ \E d \in Ids : RequestStep(d)
  PROVE  UNCHANGED <<pc, current, todo>>
BY DEF UserStep, RequestStep, CreateDeployment, RetryDeployment, CancelDeployment, Enqueue,
       EnqueueFails, MarkDeploymentEnqueueFailed, RequestDies, workerVars

\* Two workers never execute the same row, also when a process that starts has
\* marked the row of a living worker failed: a row is started from "queued"
\* only, and nothing takes an executed row back there.
THEOREM WorkersExclusive == Spec => []OneWorkerPerDeployment
<1>1. Init => OneWorkerPerDeployment
  BY DEF Init, OneWorkerPerDeployment, Executing
<1>2. TypeOK /\ TypeOK' /\ RowInv /\ OneWorkerPerDeployment /\ [Next]_vars => OneWorkerPerDeployment'
  <2> SUFFICES ASSUME TypeOK, TypeOK', RowInv, OneWorkerPerDeployment, [Next]_vars
               PROVE  OneWorkerPerDeployment'
    OBVIOUS
  <2>1. CASE UNCHANGED vars
    BY <2>1 DEF vars, OneWorkerPerDeployment
  <2>2. CASE UserStep \/ \E d \in Ids : RequestStep(d)
    BY <2>2, HandlersLeaveWorkers DEF OneWorkerPerDeployment
  <2>3. ASSUME NEW w \in Workers, StartupStep(w) \/ RunStep(w) \/ Deploy(w) \/ StopProcess(w)
        PROVE  OneWorkerPerDeployment'
    <3>1. ASSUME NEW v \in Workers \ {w}, pc'[v] \in Executing, pc'[w] \in Executing,
                 current'[v] = current'[w]
          PROVE  FALSE
      <4>1. pc[v] \in Executing /\ current[v] = current[w]
        BY <2>3, <3>1, WhoExecutes
      <4>2. pc[w] = "loaded" /\ status[current[w]] = "queued"
        BY <2>3, <3>1, <4>1, WhoExecutes DEF OneWorkerPerDeployment
      <4>3. current[v] \in Ids /\ executions[current[v]] = 1
        BY <4>1 DEF RowInv, WorkersHoldRows, Busy
      <4>4. status[current[v]] \in {"running", "succeeded", "failed"}
        BY <4>3 DEF RowInv, RunsAtMostOnce
      <4> QED BY <4>1, <4>2, <4>4
    <3> QED BY <2>3, <3>1, WhoExecutes DEF OneWorkerPerDeployment
  <2> QED BY <2>1, <2>2, <2>3 DEF Next
<1> QED BY <1>1, <1>2, TypeCorrect, RowsCorrect, PTL DEF Spec

-----------------------------------------------------------------------------
(* One worker and no failed call: the executing worker owns its row.       *)

\* What a step without a fault can do to one row d that is already inserted: an
\* update names the state it expects, or comes from the worker that executes
\* the row.
LEMMA QuietRowSteps ==
  ASSUME TypeOK, RowInv, Next, faults' = 0, NEW d \in Ids,
         status[d] # "none", request[d] # "markFailed"
  PROVE  \/ status'[d] = status[d]
         \/ status[d] = "queued"
         \/ status[d] = "running" /\ \E w \in Workers : RecoverInterrupted(w)
         \/ \E w \in Workers : Finish(w) /\ current[w] = d
<1> USE DEF rowVars
<1>0. faults \in Nat /\ status \in [Ids -> Statuses] BY DEF TypeOK
<1>f. ~Fault BY <1>0 DEF Fault
<1>1. ASSUME NEW a \in Applications, CreateDeployment(a) PROVE status'[d] = status[d]
  <2>1. \A e \in Ids : e >= e BY ConstantsAssumption DEF Ids
  <2> QED BY <1>0, <1>1, <2>1 DEF CreateDeployment
<1>2. CASE UserStep
  <2>1. ASSUME NEW e \in Ids, RetryDeployment(e) PROVE status'[d] = status[d]
    BY <1>1, <2>1 DEF RetryDeployment, RowInv, RequestsHaveRows
  <2>2. ASSUME NEW e \in Ids, CancelDeployment(e)
        PROVE  status'[d] = status[d] \/ status[d] = "queued"
    BY <1>0, <2>2 DEF CancelDeployment
  <2> QED BY <1>1, <1>2, <2>1, <2>2 DEF UserStep
<1>3. ASSUME NEW e \in Ids, RequestStep(e) PROVE status'[d] = status[d]
  BY <1>0, <1>3, <1>f DEF RequestStep, Enqueue, EnqueueFails, MarkDeploymentEnqueueFailed,
     RequestDies
<1>4. ASSUME NEW w \in Workers, StartupStep(w)
      PROVE  status'[d] = status[d] \/ (status[d] = "running" /\ RecoverInterrupted(w))
  BY <1>0, <1>4 DEF StartupStep, StartProcess, RecoverInterrupted, ListQueued, Requeue,
     RecoveryFails
<1>5. ASSUME NEW w \in Workers, RunStep(w)
      PROVE  \/ status'[d] = status[d]
             \/ status[d] = "queued"
             \/ Finish(w) /\ current[w] = d
  <2>1. CASE Finish(w)
    BY <1>0, <2>1 DEF Finish
  <2>2. CASE StartQueued(w)
    BY <1>0, <2>2 DEF StartQueued
  <2>3. CASE Pop(w) \/ Load(w) \/ LoadTarget(w) \/ Report(w)
    BY <2>3 DEF Pop, Load, LoadTarget, Report
  <2> QED BY <1>5, <1>f, <2>1, <2>2, <2>3 DEF RunStep, PopFails, HandleFails, LoadTargetFails,
             FinishFails, ReportFails
<1>6. ASSUME NEW w \in Workers, Deploy(w) \/ StopProcess(w) PROVE status'[d] = status[d]
  BY <1>6 DEF Deploy, StopProcess
<1> QED BY <1>2, <1>3, <1>4, <1>5, <1>6 DEF Next

\* Faults are only counted up.
LEMMA FaultsOnlyGrow ==
  ASSUME TypeOK, [Next]_vars, faults' = 0
  PROVE  faults = 0
<1>0. faults \in Nat BY DEF TypeOK
<1>1. ASSUME Fault PROVE FALSE BY <1>0, <1>1 DEF Fault
<1>2. CASE UserStep \/ \E d \in Ids : RequestStep(d)
  BY <1>1, <1>2 DEF UserStep, RequestStep, CreateDeployment, RetryDeployment, CancelDeployment,
     Enqueue, EnqueueFails, MarkDeploymentEnqueueFailed, RequestDies, countVars
<1>3. ASSUME NEW w \in Workers, StartupStep(w) \/ Deploy(w) \/ StopProcess(w) PROVE faults = 0
  BY <1>1, <1>3 DEF StartupStep, StartProcess, RecoverInterrupted, ListQueued, Requeue,
     RecoveryFails, Deploy, StopProcess, countVars
<1>4. ASSUME NEW w \in Workers, RunStep(w) PROVE faults = 0
  BY <1>1, <1>4 DEF RunStep, Pop, PopFails, Load, StartQueued, HandleFails, LoadTarget,
     LoadTargetFails, Finish, FinishFails, Report, ReportFails, countVars
<1>5. CASE UNCHANGED vars BY <1>5 DEF vars
<1> QED BY <1>2, <1>3, <1>4, <1>5 DEF Next

\* A handler marks its row failed only after a failed push.
NoMarking == faults = 0 => \A d \in Ids : request[d] # "markFailed"

LEMMA NoMarkingStep ==
  ASSUME TypeOK, NoMarking, [Next]_vars
  PROVE  NoMarking'
<1> SUFFICES ASSUME faults' = 0, NEW d \in Ids, request'[d] = "markFailed" PROVE FALSE
  BY DEF NoMarking
<1>0. faults = 0 /\ faults \in Nat /\ request[d] # "markFailed"
  BY FaultsOnlyGrow DEF TypeOK, NoMarking
<1>f. ~Fault BY <1>0 DEF Fault
<1>t. request \in [Ids -> {"none", "enqueue", "markFailed", "done"}] BY DEF TypeOK
<1>2. CASE UserStep \/ \E e \in Ids : RequestStep(e)
  BY <1>0, <1>f, <1>t, <1>2 DEF UserStep, RequestStep, CreateDeployment, RetryDeployment,
     CancelDeployment, Enqueue, EnqueueFails, MarkDeploymentEnqueueFailed, RequestDies
<1>3. ASSUME NEW w \in Workers, StartupStep(w) \/ Deploy(w) \/ StopProcess(w)
      PROVE  UNCHANGED request
  BY <1>3 DEF StartupStep, StartProcess, RecoverInterrupted, ListQueued, Requeue,
     RecoveryFails, Deploy, StopProcess
<1>4. ASSUME NEW w \in Workers, RunStep(w) PROVE UNCHANGED request
  BY <1>4 DEF RunStep, Pop, PopFails, Load, StartQueued, HandleFails, LoadTarget,
     LoadTargetFails, Finish, FinishFails, Report, ReportFails
<1>5. CASE UNCHANGED vars BY <1>0, <1>5 DEF vars
<1> QED BY <1>0, <1>2, <1>3, <1>4, <1>5 DEF Next

\* The worker that executes a row keeps it "running": with one worker the
\* recovery cannot run meanwhile, and no handler updates a running row.
LEMMA OwnerStep ==
  ASSUME TypeOK, TypeOK', RowInv, NoMarking, WorkerOwnsRow, [Next]_vars
  PROVE  WorkerOwnsRow'
<1> SUFFICES ASSUME SingleWorker, faults' = 0, NEW w \in Workers, pc'[w] \in Executing
             PROVE  status'[current'[w]] = "running"
  BY DEF WorkerOwnsRow, SingleWorker
<1>0. faults = 0 BY FaultsOnlyGrow
<1>t. /\ status \in [Ids -> Statuses] /\ pc \in [Workers -> WorkerStates]
      /\ faults \in Nat
  BY DEF TypeOK
<1>f. ~Fault BY <1>0, <1>t DEF Fault
<1>1. CASE UNCHANGED vars
  BY <1>0, <1>1 DEF WorkerOwnsRow, vars
<1>2. ASSUME Next, pc[w] \in Executing, current'[w] = current[w], ~Finish(w)
      PROVE  status'[current'[w]] = "running"
  <2>1. current[w] \in Ids /\ status[current[w]] = "running"
    BY <1>0, <1>2 DEF WorkerOwnsRow, RowInv, WorkersHoldRows, Busy
  <2>2. ~RecoverInterrupted(w)
    BY <1>2 DEF RecoverInterrupted, Executing
  <2>3. request[current[w]] # "markFailed"
    BY <1>0, <2>1 DEF NoMarking
  <2> QED BY <1>2, <2>1, <2>2, <2>3, QuietRowSteps DEF SingleWorker
<1>3. CASE UserStep \/ \E d \in Ids : RequestStep(d)
  <2>1. UNCHANGED <<pc, current>> BY <1>3, HandlersLeaveWorkers
  <2>2. ~Finish(w)
    BY <1>t, <2>1 DEF Finish, Goto, Drop
  <2>3. Next BY <1>3 DEF Next
  <2> QED BY <1>2, <2>1, <2>2, <2>3
<1>4. ASSUME NEW v \in Workers, StartupStep(v) \/ RunStep(v) \/ Deploy(v) \/ StopProcess(v)
      PROVE  status'[current'[w]] = "running"
  <2>0. v = w BY DEF SingleWorker
  <2>1. /\ current'[w] = current[w]
        /\ pc[w] \in Executing \/ (pc[w] = "loaded" /\ status[current[w]] = "queued")
    BY <1>4, <2>0, WhoExecutes
  <2>2. ~Finish(w)
    BY <1>t DEF Finish, Goto, Drop, Executing
  <2>3. CASE pc[w] \in Executing
    BY <1>2, <1>4, <2>0, <2>1, <2>2, <2>3 DEF Next
  <2>4. CASE pc[w] = "loaded" /\ status[current[w]] = "queued"
    <3>1. ~Load(w) /\ ~HandleFails(w) /\ ~Deploy(w) /\ ~StopProcess(w) /\ ~StartupStep(w)
      BY <1>f, <1>t, <2>4 DEF Load, HandleFails, Deploy, StopProcess, StartupStep, StartProcess,
         RecoverInterrupted, ListQueued, Requeue, RecoveryFails, Drop, Goto, Executing
    <3>2. StartQueued(w)
      BY <1>4, <2>0, <2>4, <3>1, <1>f
         DEF RunStep, Pop, PopFails, LoadTarget, LoadTargetFails, Finish, FinishFails,
             Report, ReportFails
    <3>3. current[w] \in Ids
      BY <2>4 DEF RowInv, WorkersHoldRows, Busy, Holding
    <3> QED BY <1>t, <2>1, <2>4, <3>2, <3>3 DEF StartQueued
  <2> QED BY <2>1, <2>3, <2>4
<1> QED BY <1>1, <1>3, <1>4 DEF Next

\* Whatever is retried, cancelled or killed, the row of the executing worker is
\* "running" until that worker writes its outcome.
THEOREM RowsAreOwned == Spec => [](NoMarking /\ WorkerOwnsRow)
<1>1. Init => NoMarking /\ WorkerOwnsRow
  BY DEF Init, NoMarking, WorkerOwnsRow, Executing
<1>2. TypeOK /\ TypeOK' /\ RowInv /\ NoMarking /\ WorkerOwnsRow /\ [Next]_vars
        => NoMarking' /\ WorkerOwnsRow'
  BY NoMarkingStep, OwnerStep
<1> QED BY <1>1, <1>2, TypeCorrect, RowsCorrect, PTL DEF Spec

\* A recorded outcome is never overwritten: the only unconditional updates of a
\* row come from its owner, whose row is still running, and from a handler
\* whose push failed.
THEOREM OutcomesAreFinal == Spec => OutcomeIsFinal
<1> DEFINE Final == SingleWorker /\ faults' = 0 =>
                      \A d \in Ids : status[d] \in Terminal => status'[d] = status[d]
<1>1. TypeOK /\ RowInv /\ NoMarking /\ WorkerOwnsRow /\ [Next]_vars => [Final]_vars
  <2> SUFFICES ASSUME TypeOK, RowInv, NoMarking, WorkerOwnsRow, Next, SingleWorker,
                      faults' = 0, NEW d \in Ids, status[d] \in Terminal
               PROVE  status'[d] = status[d]
    OBVIOUS
  <2>0. faults = 0 BY FaultsOnlyGrow
  <2>1. status[d] \notin {"none", "queued", "running"} /\ request[d] # "markFailed"
    BY <2>0 DEF Terminal, NoMarking
  <2>2. ASSUME NEW w \in Workers, Finish(w), current[w] = d PROVE FALSE
    BY <2>0, <2>1, <2>2 DEF Finish, WorkerOwnsRow, Executing
  <2> QED BY <2>1, <2>2, QuietRowSteps
<1>2. OutcomeIsFinal <=> [][Final]_vars BY DEF OutcomeIsFinal
<1> QED BY <1>1, <1>2, TypeCorrect, RowsCorrect, RowsAreOwned, PTL DEF Spec

-----------------------------------------------------------------------------
(* No queued row is stranded.                                              *)

\* The index leaves at most one queued row per application, so a limit of at
\* least the number of applications lists every queued row.
LEMMA ListsEveryQueuedRow ==
  ASSUME TypeOK, RowInv, Cardinality(Applications) <= RecoveryLimit, NEW d \in QueuedRows
  PROVE  Cardinality({e \in QueuedRows : e <= d}) <= RecoveryLimit
<1> DEFINE S == {e \in QueuedRows : e <= d}
           f == [e \in S |-> application[e]]
<1>1. \A e \in S : e \in Ids /\ application[e] \in Applications
  BY DEF QueuedRows, RowInv, RequestsHaveRows
<1>2. f \in [S -> Applications]
  BY <1>1
<1>3. ASSUME NEW x \in S, NEW y \in S, f[x] = f[y] PROVE x = y
  BY <1>1, <1>3 DEF QueuedRows, RowInv, OneInProgress, InProgress
<1>4. f \in Injection(S, Applications)
  BY <1>2, <1>3 DEF Injection, IsInjective
<1>5. /\ Cardinality(S) <= Cardinality(Applications) /\ Cardinality(Applications) \in Nat
      /\ Cardinality(S) \in Nat
  BY <1>4, ConstantsAssumption, FS_Injection, FS_CardinalityType
<1> QED BY <1>5, ConstantsAssumption

\* What is in the list stays in it when an id is pushed, and only its first id
\* goes when one is popped.
LEMMA QueueSteps ==
  ASSUME queue \in Seq(Ids)
  PROVE  /\ \A e \in Ids : queue' = Append(queue, e) =>
              InQueue(e)' /\ \A d \in Ids : InQueue(d) => InQueue(d)'
         /\ queue # <<>> /\ queue' = Tail(queue) =>
              \A d \in Ids : InQueue(d) => d = Head(queue) \/ InQueue(d)'
<1>1. ASSUME NEW e \in Ids, queue' = Append(queue, e)
      PROVE  InQueue(e)' /\ \A d \in Ids : InQueue(d) => InQueue(d)'
  <2>1. /\ Len(queue) \in Nat /\ Len(queue') = Len(queue) + 1
        /\ queue'[Len(queue) + 1] = e
        /\ \A i \in 1..Len(queue) : queue'[i] = queue[i]
    BY <1>1
  <2>2. InQueue(e)'
    <3>1. Len(queue) + 1 \in 1..Len(queue') BY <2>1
    <3> QED BY <2>1, <3>1 DEF InQueue
  <2>3. ASSUME NEW d \in Ids, InQueue(d) PROVE InQueue(d)'
    <3>1. PICK i \in 1..Len(queue) : queue[i] = d BY <2>3 DEF InQueue
    <3>2. i \in 1..Len(queue') /\ queue'[i] = d BY <2>1, <3>1
    <3> QED BY <3>2 DEF InQueue
  <2> QED BY <2>2, <2>3
<1>2. ASSUME queue # <<>>, queue' = Tail(queue), NEW d \in Ids, InQueue(d)
      PROVE  d = Head(queue) \/ InQueue(d)'
  <2>1. PICK i \in 1..Len(queue) : queue[i] = d BY <1>2 DEF InQueue
  <2>2. CASE i = 1 BY <2>1, <2>2, <1>2
  <2>3. CASE i # 1
    <3>1. i - 1 \in 1..Len(queue') /\ queue'[i - 1] = d
      BY <2>1, <2>3, <1>2
    <3> QED BY <3>1 DEF InQueue
  <2> QED BY <2>2, <2>3
<1> QED BY <1>1, <1>2

\* Every step that is no fault leaves a queued row within reach.
LEMMA StrandedStep ==
  ASSUME TypeOK, TypeOK', RowInv, NoneStranded, Next,
         Cardinality(Applications) <= RecoveryLimit
  PROVE  NoneStranded'
<1> SUFFICES ASSUME faults' = 0, NEW d \in Ids, status'[d] = "queued"
             PROVE  Reachable(d)'
  BY DEF NoneStranded
<1>0. faults = 0 BY FaultsOnlyGrow
<1>t. /\ status \in [Ids -> Statuses] /\ pc \in [Workers -> WorkerStates]
      /\ faults \in Nat /\ queue \in Seq(Ids) /\ current \in [Workers -> Ids \cup {NoDeployment}]
      /\ todo \in [Workers -> SUBSET Ids]
      /\ request \in [Ids -> {"none", "enqueue", "markFailed", "done"}]
  BY DEF TypeOK
<1>f. ~Fault BY <1>0, <1>t DEF Fault
<1>r. status[d] = "queued" => Reachable(d) BY <1>0 DEF NoneStranded
<1>1. ASSUME NEW a, CreateDeployment(a) PROVE Reachable(d)'
  <2>1. UNCHANGED <<queue, pc, current, todo>>
    BY <1>1 DEF CreateDeployment, workerVars
  <2>2. PICK e \in Ids : /\ status' = [status EXCEPT ![e] = "queued"]
                         /\ request' = [request EXCEPT ![e] = "enqueue"]
    BY <1>1 DEF CreateDeployment
  <2>3. CASE e = d BY <1>t, <2>2, <2>3 DEF Reachable
  <2>4. CASE e # d
    <3>1. status[d] = "queued" /\ request'[d] = request[d] BY <1>t, <2>2, <2>4
    <3> QED BY <1>r, <2>1, <3>1 DEF Reachable, InQueue
  <2> QED BY <2>3, <2>4
<1>2. CASE UserStep
  <2>1. ASSUME NEW e \in Ids, CancelDeployment(e) PROVE Reachable(d)'
    <3>1. status[d] = "queued" /\ UNCHANGED <<queue, pc, current, todo, request>>
      BY <1>t, <2>1 DEF CancelDeployment, workerVars
    <3> QED BY <1>r, <3>1 DEF Reachable, InQueue
  <2> QED BY <1>1, <1>2, <2>1 DEF UserStep, RetryDeployment
<1>3. ASSUME NEW e \in Ids, RequestStep(e) PROVE Reachable(d)'
  <2>1. CASE Enqueue(e)
    <3>1. /\ UNCHANGED <<status, pc, current, todo>> /\ queue' = Append(queue, e)
          /\ request' = [request EXCEPT ![e] = "done"]
      BY <2>1 DEF Enqueue, rowVars, workerVars
    <3>2. CASE e = d BY <1>t, <3>1, <3>2, QueueSteps DEF Reachable
    <3>3. CASE e # d
      <4>1. request'[d] = request[d] BY <1>t, <3>1, <3>3
      <4>2. Reachable(d) BY <1>r, <3>1
      <4>3. InQueue(d) => InQueue(d)' BY <1>t, <3>1, QueueSteps
      <4> QED BY <3>1, <4>1, <4>2, <4>3 DEF Reachable
    <3> QED BY <3>2, <3>3
  <2>2. CASE MarkDeploymentEnqueueFailed(e)
    <3>1. /\ status[d] = "queued" /\ e # d /\ UNCHANGED <<queue, pc, current, todo>>
          /\ request'[d] = request[d]
      BY <1>t, <2>2 DEF MarkDeploymentEnqueueFailed, workerVars
    <3> QED BY <1>r, <3>1 DEF Reachable, InQueue
  <2> QED BY <1>3, <1>f, <2>1, <2>2 DEF RequestStep, EnqueueFails, RequestDies
<1>4. ASSUME NEW w \in Workers, pc'[w] \in Booting PROVE Reachable(d)'
  BY <1>4 DEF Reachable
<1>5. ASSUME NEW w \in Workers, StartupStep(w) \/ StopProcess(w) PROVE Reachable(d)'
  <2>1. CASE StartProcess(w) \/ StopProcess(w) \/ RecoverInterrupted(w)
    <3>1. pc'[w] \in Booting
      BY <1>t, <2>1 DEF StartProcess, StopProcess, RecoverInterrupted, Goto, Drop, Booting
    <3> QED BY <1>4, <3>1
  <2>2. CASE ListQueued(w)
    <3>1. pc'[w] = "requeue" /\ UNCHANGED status
      BY <1>t, <2>2 DEF ListQueued, Goto, rowVars
    <3>2. todo'[w] = {e \in QueuedRows :
                        Cardinality({x \in QueuedRows : x <= e}) <= RecoveryLimit}
      BY <1>t, <2>2 DEF ListQueued
    <3>3. d \in QueuedRows BY <3>1 DEF QueuedRows
    <3>4. d \in todo'[w] BY <3>2, <3>3, ListsEveryQueuedRow
    <3> QED BY <3>1, <3>4 DEF Reachable
  <2>3. CASE Requeue(w)
    <3>1. UNCHANGED <<status, request, current>> BY <2>3 DEF Requeue, rowVars
    <3>2. Reachable(d) BY <1>r, <3>1
    <3>3. ASSUME NEW e \in todo[w], queue' = Append(queue, e),
                 todo' = [todo EXCEPT ![w] = @ \ {e}], UNCHANGED pc
          PROVE  Reachable(d)'
      <4>1. e \in Ids BY <1>t
      <4>2. InQueue(e)' /\ (InQueue(d) => InQueue(d)') BY <1>t, <3>3, <4>1, QueueSteps
      <4>3. ASSUME NEW v \in Workers, d \in todo[v] PROVE d \in todo'[v] \/ d = e
        BY <1>t, <3>3, <4>3
      <4> QED BY <3>1, <3>2, <3>3, <4>2, <4>3 DEF Reachable
    <3>4. CASE /\ todo[w] = {} /\ pc' = [pc EXCEPT ![w] = "idle"] /\ UNCHANGED <<queue, todo>>
               /\ pc[w] = "requeue"
      <4>1. \A v \in Workers \ {w} : pc'[v] = pc[v] BY <1>t, <3>4
      <4>2. pc[w] \notin Holding \cup Booting BY <3>4 DEF Holding, Booting
      <4> QED BY <3>1, <3>2, <3>4, <4>1, <4>2 DEF Reachable, InQueue
    <3> QED BY <2>3, <3>3, <3>4 DEF Requeue, Goto
  <2> QED BY <1>5, <1>f, <2>1, <2>2, <2>3 DEF StartupStep, RecoveryFails
<1>6. ASSUME NEW w \in Workers, Pop(w) PROVE Reachable(d)'
  <2>1. /\ UNCHANGED <<status, request, todo>> /\ queue # <<>> /\ queue' = Tail(queue)
        /\ current' = [current EXCEPT ![w] = Head(queue)]
        /\ pc' = [pc EXCEPT ![w] = "popped"] /\ pc[w] = "idle"
    BY <1>6 DEF Pop, Goto, rowVars
  <2>2. Reachable(d) BY <1>r, <2>1
  <2>3. CASE d = Head(queue)
    BY <1>t, <2>1, <2>3 DEF Reachable, Holding
  <2>4. CASE d # Head(queue)
    <3>1. InQueue(d) => InQueue(d)' BY <1>t, <2>1, <2>4, QueueSteps
    <3>2. \A v \in Workers \ {w} : pc'[v] = pc[v] /\ current'[v] = current[v]
      BY <1>t, <2>1
    <3>3. pc[w] \notin Holding \cup Booting \cup {"requeue"}
      BY <2>1 DEF Holding, Booting
    <3> QED BY <2>1, <2>2, <3>1, <3>2, <3>3 DEF Reachable
  <2> QED BY <2>3, <2>4
<1>7. ASSUME NEW w \in Workers,
             UNCHANGED <<queue, request, todo>>,
             \A v \in Workers \ {w} : pc'[v] = pc[v] /\ current'[v] = current[v],
             status[d] = "queued",
             pc[w] \notin Booting \cup {"requeue"},
             pc[w] \in Holding /\ current[w] = d => pc'[w] \in Holding /\ current'[w] = d
      PROVE  Reachable(d)'
  BY <1>r, <1>7 DEF Reachable, InQueue
<1>8. ASSUME NEW w \in Workers, RunStep(w) \/ Deploy(w) PROVE Reachable(d)'
  <2>1. CASE Load(w)
    <3>1. UNCHANGED <<queue, request, todo, status>> /\ pc[w] = "popped"
      BY <2>1 DEF Load, rowVars
    <3>2. \A v \in Workers \ {w} : pc'[v] = pc[v] /\ current'[v] = current[v]
      BY <1>t, <2>1 DEF Load, Goto, Drop
    <3>3. current[w] = d => pc'[w] = "loaded" /\ current'[w] = d
      BY <1>t, <2>1, <3>1 DEF Load, Goto, Drop
    <3> QED BY <1>7, <3>1, <3>2, <3>3 DEF Holding, Booting
  <2>2. CASE StartQueued(w)
    <3>1. UNCHANGED <<queue, request, todo>> /\ pc[w] = "loaded"
      BY <2>2 DEF StartQueued
    <3>2. \A v \in Workers \ {w} : pc'[v] = pc[v] /\ current'[v] = current[v]
      BY <1>t, <2>2 DEF StartQueued, Goto, Drop
    <3>3. status[d] = "queued" /\ current[w] # d
      BY <1>t, <2>2 DEF StartQueued
    <3> QED BY <1>7, <3>1, <3>2, <3>3 DEF Holding, Booting
  <2>3. CASE LoadTarget(w) \/ Deploy(w) \/ Report(w) \/ Finish(w)
    <3>1. UNCHANGED <<queue, request, todo>> /\ pc[w] \in Executing \cup Reporting
      BY <2>3 DEF LoadTarget, Deploy, Report, Finish, Executing, Reporting
    <3>2. \A v \in Workers \ {w} : pc'[v] = pc[v] /\ current'[v] = current[v]
      BY <1>t, <2>3 DEF LoadTarget, Deploy, Report, Finish, Goto, Drop
    <3>3. status[d] = "queued"
      BY <1>t, <2>3 DEF LoadTarget, Deploy, Report, Finish, rowVars
    <3>4. pc[w] \notin Booting \cup {"requeue"} \cup Holding
      BY <3>1 DEF Executing, Reporting, Booting, Holding
    <3> QED BY <1>7, <3>1, <3>2, <3>3, <3>4
  <2> QED BY <1>6, <1>8, <1>f, <2>1, <2>2, <2>3
          DEF RunStep, PopFails, HandleFails, LoadTargetFails, FinishFails, ReportFails
<1> QED BY <1>2, <1>3, <1>5, <1>8 DEF Next

\* While the recovery limit is at least the number of applications and no call
\* has failed, every queued row is still on its way to a worker, however often
\* worker processes are killed and started.
THEOREM NoRowIsStranded ==
  ASSUME Cardinality(Applications) <= RecoveryLimit
  PROVE  Spec => []NoneStranded
<1>1. Init => NoneStranded
  BY DEF Init, NoneStranded
<1>2. TypeOK /\ TypeOK' /\ RowInv /\ NoneStranded /\ [Next]_vars => NoneStranded'
  <2> SUFFICES ASSUME TypeOK, TypeOK', RowInv, NoneStranded, [Next]_vars PROVE NoneStranded'
    OBVIOUS
  <2>1. CASE UNCHANGED vars BY <2>1 DEF vars, NoneStranded, Reachable, InQueue
  <2>2. CASE Next BY <2>2, StrandedStep
  <2> QED BY <2>1, <2>2
<1> QED BY <1>1, <1>2, TypeCorrect, RowsCorrect, PTL DEF Spec

-----------------------------------------------------------------------------
(* Refinement: the abstract lifecycle.                                     *)

\* What any step can do to the rows.
Submits == \E d \in Ids, a \in Applications :
  /\ status[d] = "none"
  /\ \A e \in Ids : status[e] # "none" => e < d
  /\ \A e \in Ids : InProgress(e) => application[e] # a
  /\ status' = [status EXCEPT ![d] = "queued"]
  /\ application' = [application EXCEPT ![d] = a]

Starts == \E d \in Ids :
  /\ status[d] = "queued"
  /\ status' = [status EXCEPT ![d] = "running"]
  /\ UNCHANGED application

Ends == \E d \in Ids, s \in Terminal :
  /\ status[d] # "none"
  /\ status' = [status EXCEPT ![d] = s]
  /\ UNCHANGED application

FailsRunning ==
  /\ status' = [d \in Ids |-> IF status[d] = "running" THEN "failed" ELSE status[d]]
  /\ UNCHANGED application

\* Every step of the system is one of these, or leaves the rows alone.
LEMMA RowSteps ==
  ASSUME TypeOK, RowInv, Next
  PROVE  Submits \/ Starts \/ Ends \/ FailsRunning \/ UNCHANGED <<status, application>>
<1> USE DEF rowVars
<1>1. ASSUME NEW a \in Applications, CreateDeployment(a) PROVE Submits
  <2>1. \A d, e \in Ids : d >= d /\ (e >= d \/ e < d) BY ConstantsAssumption DEF Ids
  <2> QED BY <1>1, <2>1 DEF CreateDeployment, Submits
<1>2. CASE UserStep
  <2>1. ASSUME NEW d \in Ids, RetryDeployment(d) PROVE Submits
    BY <2>1, <1>1 DEF RetryDeployment, RowInv, RequestsHaveRows
  <2>2. ASSUME NEW d \in Ids, CancelDeployment(d) PROVE Ends
    BY <2>2 DEF CancelDeployment, Ends, Terminal
  <2> QED BY <1>1, <1>2, <2>1, <2>2 DEF UserStep
<1>3. ASSUME NEW d \in Ids, RequestStep(d)
      PROVE  Ends \/ UNCHANGED <<status, application>>
  <2>1. CASE MarkDeploymentEnqueueFailed(d)
    BY <2>1 DEF MarkDeploymentEnqueueFailed, Ends, Terminal, RowInv, RequestsHaveRows
  <2>2. CASE Enqueue(d) \/ EnqueueFails(d) \/ RequestDies(d)
    BY <2>2 DEF Enqueue, EnqueueFails, RequestDies
  <2> QED BY <1>3, <2>1, <2>2 DEF RequestStep
<1>4. ASSUME NEW w \in Workers, StartupStep(w)
      PROVE  FailsRunning \/ UNCHANGED <<status, application>>
  BY <1>4 DEF StartupStep, StartProcess, RecoverInterrupted, ListQueued, Requeue,
              RecoveryFails, FailsRunning
<1>5. ASSUME NEW w \in Workers, RunStep(w)
      PROVE  Starts \/ Ends \/ UNCHANGED <<status, application>>
  <2>1. CASE StartQueued(w) \/ HandleFails(w)
    <3>1. current[w] \in Ids
      BY <2>1 DEF StartQueued, HandleFails, Holding, Busy, RowInv, WorkersHoldRows
    <3> QED BY <2>1, <3>1 DEF StartQueued, HandleFails, Starts
  <2>2. CASE Finish(w) \/ FinishFails(w)
    <3>1. current[w] \in Ids /\ executions[current[w]] = 1
      BY <2>2 DEF Finish, FinishFails, Executing, Busy, RowInv, WorkersHoldRows
    <3>2. status[current[w]] # "none"
      BY <3>1 DEF RowInv, RunsAtMostOnce
    <3>3. /\ UNCHANGED application
          /\ \/ status' = status
             \/ status' = [status EXCEPT ![current[w]] = "succeeded"]
             \/ status' = [status EXCEPT ![current[w]] = "failed"]
      BY <2>2 DEF Finish, FinishFails
    <3> QED BY <3>1, <3>2, <3>3 DEF Ends, Terminal
  <2>3. CASE \/ Pop(w) \/ PopFails(w) \/ Load(w) \/ LoadTarget(w)
             \/ LoadTargetFails(w) \/ Report(w) \/ ReportFails(w)
    BY <2>3 DEF Pop, PopFails, Load, LoadTarget, LoadTargetFails, Report, ReportFails
  <2> QED BY <1>5, <2>1, <2>2, <2>3 DEF RunStep
<1>6. ASSUME NEW w \in Workers, Deploy(w) \/ StopProcess(w)
      PROVE  UNCHANGED <<status, application>>
  BY <1>6 DEF Deploy, StopProcess
<1> QED BY <1>2, <1>3, <1>4, <1>5, <1>6 DEF Next

\* Every step maps to a step of the lifecycle or to a stutter.
LEMMA LifecycleStep ==
  ASSUME TypeOK, RowInv, [Next]_vars
  PROVE  [Lifecycle!Next]_(Lifecycle!vars)
<1> DEFINE phase == [d \in Ids |-> Phase(status[d])]
<1> USE DEF Lifecycle!vars, Phase, Terminal
<1>0. status \in [Ids -> Statuses]
  BY DEF TypeOK
<1>1. CASE Submits
  <2> PICK d \in Ids, a \in Applications :
        /\ status[d] = "none"
        /\ \A e \in Ids : InProgress(e) => application[e] # a
        /\ status' = [status EXCEPT ![d] = "queued"]
        /\ application' = [application EXCEPT ![d] = a]
    BY <1>1 DEF Submits
  <2>1. Lifecycle!Submit(d, a)
    BY <1>0 DEF Lifecycle!Submit, Lifecycle!Live, InProgress, Statuses
  <2> QED BY <2>1 DEF Lifecycle!Next
<1>2. CASE Starts
  <2> PICK d \in Ids :
        /\ status[d] = "queued"
        /\ status' = [status EXCEPT ![d] = "running"]
        /\ UNCHANGED application
    BY <1>2 DEF Starts
  <2>1. Lifecycle!Begin(d)
    BY <1>0 DEF Lifecycle!Begin, Statuses
  <2> QED BY <2>1 DEF Lifecycle!Next
<1>3. CASE Ends
  <2> PICK d \in Ids, s \in Terminal :
        /\ status[d] # "none"
        /\ status' = [status EXCEPT ![d] = s]
        /\ UNCHANGED application
    BY <1>3 DEF Ends
  <2>1. CASE status[d] \in Terminal
    BY <1>0, <2>1
  <2>2. CASE status[d] \notin Terminal
    <3>1. Lifecycle!End({d})
      BY <1>0, <2>2 DEF Lifecycle!End, Lifecycle!Live, Statuses
    <3> QED BY <3>1 DEF Lifecycle!Next
  <2> QED BY <2>1, <2>2
<1>4. CASE FailsRunning
  <2> PICK R \in SUBSET Ids : R = {d \in Ids : status[d] = "running"}
    OBVIOUS
  <2>1. Lifecycle!End(R)
    BY <1>0, <1>4 DEF Lifecycle!End, Lifecycle!Live, Statuses, FailsRunning
  <2> QED BY <2>1 DEF Lifecycle!Next
<1>5. CASE UNCHANGED <<status, application>>
  BY <1>5
<1> QED BY <1>1, <1>2, <1>3, <1>4, <1>5, RowSteps DEF vars

\* The queue implements the lifecycle, for every number of workers, crashes and
\* failed calls: deployments are single-use locks on their application.
THEOREM RefinesLifecycle == Spec => ImplementsLifecycle
<1>1. Init => Lifecycle!Init
  BY DEF Init, Lifecycle!Init, Phase, Terminal
<1>2. TypeOK /\ RowInv /\ [Next]_vars => [Lifecycle!Next]_(Lifecycle!vars)
  BY LifecycleStep
<1>3. Spec => Lifecycle!Spec
  BY <1>1, <1>2, TypeCorrect, RowsCorrect, PTL DEF Spec, Lifecycle!Spec
<1> QED BY <1>3 DEF ImplementsLifecycle

-----------------------------------------------------------------------------
(* applications.status shows the last outcome.                             *)

\* The row in progress is the newest of its application: it was inserted after
\* every other, and nothing is inserted beside it.
NewestInProgress ==
  \A d, e \in Ids :
    InProgress(d) /\ status[e] # "none" /\ application[e] = application[d] => e <= d

\* d was executed, and no newer row of its application was.
LastExecuted(d) ==
  /\ executions[d] = 1
  /\ \A e \in Ids : executions[e] = 1 /\ application[e] = application[d] => e <= d

ShowsOutcome(d) ==
  /\ appStatus[application[d]] = "healthy" => status[d] = "succeeded"
  /\ appStatus[application[d]] = "failed" => status[d] = "failed"
  /\ appStatus[application[d]] = "deploying" => restarts > 0

\* What one worker keeps true between the update of its row and the update of
\* the application: the application is "deploying" from LoadTarget to Report, the
\* row it reports is the one executed last, and its outcome is written.
WorkerReports ==
  SingleWorker /\ faults = 0 =>
    \A w \in Workers :
      /\ pc[w] # "unloaded"
      /\ pc[w] \in {"deploying", "completing", "failing"} \cup Reporting =>
           appStatus[application[current[w]]] = "deploying"
      /\ pc[w] \in Reporting => LastExecuted(current[w])
      /\ pc[w] = "reportHealthy" => status[current[w]] = "succeeded"
      /\ pc[w] = "reportFailed" => status[current[w]] = "failed"

\* While nobody runs or reports the row executed last, the application shows its
\* outcome.
OutcomeShown ==
  SingleWorker /\ faults = 0 =>
    \A d \in Ids :
      /\ status[d] = "running" => executions[d] = 1
      /\ /\ LastExecuted(d)
         /\ status[d] # "running"
         /\ \A w \in Workers : ~(pc[w] \in Reporting /\ current[w] = d)
         => ShowsOutcome(d)

\* Inserting is the only way to a new row, and it takes the next id.
LEMMA NewestStep ==
  ASSUME TypeOK, RowInv, NewestInProgress, [Next]_vars
  PROVE  NewestInProgress'
<1> USE DEF NewestInProgress, InProgress
<1>t. status \in [Ids -> Statuses] /\ application \in [Ids -> Applications \cup {NoApplication}]
  BY DEF TypeOK
<1>n. \A d, e \in Ids : e < d => e <= d BY ConstantsAssumption DEF Ids
<1>e. \A d \in Ids : d <= d BY ConstantsAssumption DEF Ids
<1>1. CASE Submits
  <2> PICK d \in Ids, a \in Applications :
        /\ \A e \in Ids : status[e] # "none" => e < d
        /\ \A e \in Ids : InProgress(e) => application[e] # a
        /\ status' = [status EXCEPT ![d] = "queued"]
        /\ application' = [application EXCEPT ![d] = a]
    BY <1>1 DEF Submits
  <2> QED BY <1>t, <1>n, <1>e
<1>2. CASE Starts
  BY <1>t, <1>2 DEF Starts
<1>3. CASE Ends
  BY <1>t, <1>3 DEF Ends, Terminal
<1>4. CASE FailsRunning
  BY <1>t, <1>4 DEF FailsRunning
<1>5. CASE UNCHANGED <<status, application>>
  BY <1>5
<1> QED BY <1>1, <1>2, <1>3, <1>4, <1>5, RowSteps DEF vars

\* The row in progress of an application is the last one that can have been
\* executed.
LEMMA NewestIsLast ==
  ASSUME TypeOK, RowInv, NewestInProgress, NEW d \in Ids, NEW e \in Ids,
         InProgress(d), executions[e] = 1, application[e] = application[d]
  PROVE  e <= d
<1>1. status[e] # "none" BY DEF RowInv, RunsAtMostOnce
<1> QED BY <1>1 DEF NewestInProgress

\* Steps that leave executed rows, workers and applications alone.
LEMMA FrameReports ==
  ASSUME TypeOK, RowInv, WorkerReports, OutcomeShown, SingleWorker, faults = 0,
         UNCHANGED <<pc, current, appStatus, executions, restarts>>,
         \A d \in Ids : executions[d] = 1 => status'[d] = status[d] /\ application'[d] = application[d],
         \A d \in Ids : status'[d] = "running" => status[d] = "running"
  PROVE  WorkerReports' /\ OutcomeShown'
<1>1. \A d \in Ids : LastExecuted(d)' <=> LastExecuted(d)
  BY DEF LastExecuted
<1>2. \A d \in Ids : executions[d] = 1 => (ShowsOutcome(d)' <=> ShowsOutcome(d))
  BY DEF ShowsOutcome
<1>3. WorkerReports'
  <2> SUFFICES ASSUME NEW w \in Workers
               PROVE  /\ pc[w] # "unloaded"
                      /\ pc[w] \in {"deploying", "completing", "failing"} \cup Reporting =>
                           appStatus[application'[current[w]]] = "deploying"
                      /\ pc[w] \in Reporting => LastExecuted(current[w])'
                      /\ pc[w] = "reportHealthy" => status'[current[w]] = "succeeded"
                      /\ pc[w] = "reportFailed" => status'[current[w]] = "failed"
    BY DEF WorkerReports
  <2>1. CASE pc[w] \in Executing \cup Reporting
    <3>1. current[w] \in Ids /\ executions[current[w]] = 1
      BY <2>1 DEF RowInv, WorkersHoldRows, Busy
    <3> QED BY <1>1, <3>1 DEF WorkerReports
  <2>2. CASE pc[w] \notin Executing \cup Reporting
    BY <2>2 DEF Executing, Reporting
  <2> QED BY <2>1, <2>2
<1>4. OutcomeShown'
  <2> SUFFICES ASSUME NEW d \in Ids
               PROVE  /\ status'[d] = "running" => executions'[d] = 1
                      /\ /\ LastExecuted(d)'
                         /\ status'[d] # "running"
                         /\ \A w \in Workers : ~(pc[w] \in Reporting /\ current[w] = d)
                         => ShowsOutcome(d)'
    BY DEF OutcomeShown
  <2>1. LastExecuted(d)' => executions[d] = 1 BY DEF LastExecuted
  <2> QED BY <1>1, <1>2, <2>1 DEF OutcomeShown
<1> QED BY <1>3, <1>4

\* Steps of the worker that leave the rows and the applications alone, outside
\* the report.
LEMMA WorkerFrame ==
  ASSUME TypeOK, RowInv, WorkerReports, OutcomeShown, SingleWorker, faults = 0, NEW w \in Workers,
         UNCHANGED <<status, application, appStatus, executions, restarts>>,
         pc[w] \notin Reporting, pc'[w] \notin Reporting, pc'[w] # "unloaded",
         pc'[w] \in {"deploying", "completing", "failing"} =>
           pc[w] \in {"deploying", "completing", "failing"} /\ current'[w] = current[w]
  PROVE  WorkerReports' /\ OutcomeShown'
<1>1. \A v \in Workers : v = w BY DEF SingleWorker
<1>2. \A d \in Ids : (LastExecuted(d)' <=> LastExecuted(d)) /\ (ShowsOutcome(d)' <=> ShowsOutcome(d))
  BY DEF LastExecuted, ShowsOutcome
<1>3. WorkerReports'
  <2>1. pc'[w] # "reportHealthy" /\ pc'[w] # "reportFailed" BY DEF Reporting
  <2>2. pc'[w] \in {"deploying", "completing", "failing"} =>
          appStatus[application[current'[w]]] = "deploying"
    BY DEF WorkerReports
  <2> QED BY <1>1, <2>1, <2>2 DEF WorkerReports
<1>4. OutcomeShown'
  BY <1>1, <1>2 DEF OutcomeShown
<1> QED BY <1>3, <1>4

\* How each step of the worker keeps the application's status honest.
LEMMA ReportStep ==
  ASSUME TypeOK, TypeOK', RowInv, NoMarking, WorkerOwnsRow, NewestInProgress,
         WorkerReports, OutcomeShown, SingleWorker, faults' = 0, Next
  PROVE  WorkerReports' /\ OutcomeShown'
<1>0. faults = 0 BY FaultsOnlyGrow
<1>t. /\ status \in [Ids -> Statuses] /\ pc \in [Workers -> WorkerStates]
      /\ application \in [Ids -> Applications \cup {NoApplication}]
      /\ appStatus \in [Applications -> {"idle", "deploying", "healthy", "failed"}]
      /\ executions \in [Ids -> Nat] /\ current \in [Workers -> Ids \cup {NoDeployment}]
      /\ faults \in Nat /\ restarts \in Nat
  BY DEF TypeOK
<1>f. ~Fault BY <1>0, <1>t DEF Fault
<1>s. \A v, w \in Workers : v = w BY DEF SingleWorker
<1>a. \A d, e \in Ids : d <= e /\ e <= d => d = e BY ConstantsAssumption DEF Ids
<1>x. \A d \in Ids : executions[d] = 1 => status[d] \in {"running", "succeeded", "failed"}
  BY DEF RowInv, RunsAtMostOnce
<1>h. \A w \in Workers : pc[w] \in Executing \cup Reporting =>
        current[w] \in Ids /\ executions[current[w]] = 1 /\ application[current[w]] \in Applications
  BY <1>x DEF RowInv, WorkersHoldRows, Busy, RequestsHaveRows
<1>l. \A d, e \in Ids : LastExecuted(d) /\ InProgress(e) /\ executions[e] = 1
                          /\ application[d] = application[e] => d = e
  BY <1>a, NewestIsLast DEF LastExecuted
<1>1. CASE UserStep \/ \E d \in Ids : RequestStep(d)
  <2>1. UNCHANGED <<pc, current, appStatus, executions, restarts>>
    BY <1>1, <1>f DEF UserStep, RequestStep, CreateDeployment, RetryDeployment, CancelDeployment,
       Enqueue, EnqueueFails, MarkDeploymentEnqueueFailed, RequestDies, workerVars, countVars,
       rowVars
  <2>2. ASSUME NEW a, CreateDeployment(a), NEW d \in Ids
        PROVE  /\ executions[d] = 1 => status'[d] = status[d] /\ application'[d] = application[d]
               /\ status'[d] = "running" => status[d] = "running"
    <3>1. PICK e \in Ids : /\ \A x \in Ids : status[x] = "none" <=> x >= e
                           /\ status' = [status EXCEPT ![e] = "queued"]
                           /\ application' = [application EXCEPT ![e] = a]
      BY <2>2 DEF CreateDeployment
    <3>2. e >= e BY ConstantsAssumption DEF Ids
    <3>3. status[e] = "none" BY <3>1, <3>2
    <3> QED BY <1>t, <1>x, <3>1, <3>3
  <2>3. ASSUME NEW e \in Ids, CancelDeployment(e) \/ RequestStep(e), NEW d \in Ids
        PROVE  /\ executions[d] = 1 => status'[d] = status[d] /\ application'[d] = application[d]
               /\ status'[d] = "running" => status[d] = "running"
    BY <1>0, <1>t, <1>x, <1>f, <2>3 DEF CancelDeployment, RequestStep, Enqueue, EnqueueFails,
       MarkDeploymentEnqueueFailed, RequestDies, NoMarking, rowVars
  <2>4. \A d \in Ids :
          /\ executions[d] = 1 => status'[d] = status[d] /\ application'[d] = application[d]
          /\ status'[d] = "running" => status[d] = "running"
    BY <1>1, <2>2, <2>3 DEF UserStep, RetryDeployment
  <2> QED BY <1>0, <2>1, <2>4, FrameReports
<1>2. ASSUME NEW w \in Workers,
             StartProcess(w) \/ ListQueued(w) \/ Requeue(w) \/ Pop(w) \/ Load(w) \/ Deploy(w)
      PROVE  WorkerReports' /\ OutcomeShown'
  <2>1. UNCHANGED <<status, application, appStatus, executions, restarts>>
    BY <1>2 DEF StartProcess, ListQueued, Requeue, Pop, Load, Deploy, rowVars, countVars
  <2>2. /\ pc[w] \notin Reporting /\ pc'[w] \notin Reporting /\ pc'[w] # "unloaded"
        /\ pc'[w] \in {"deploying", "completing", "failing"} =>
             pc[w] \in {"deploying", "completing", "failing"} /\ current'[w] = current[w]
    BY <1>t, <1>2 DEF StartProcess, ListQueued, Requeue, Pop, Load, Deploy, Goto, Drop, Reporting
  <2> QED BY <1>0, <2>1, <2>2, WorkerFrame
<1>3. ASSUME NEW w \in Workers, StopProcess(w) PROVE WorkerReports' /\ OutcomeShown'
  <2>1. UNCHANGED <<status, application, appStatus, executions>> /\ pc'[w] = "down"
        /\ restarts' = restarts + 1
    BY <1>t, <1>3 DEF StopProcess, Drop, Goto, rowVars
  <2>2. \A d \in Ids : LastExecuted(d)' <=> LastExecuted(d)
    BY <2>1 DEF LastExecuted
  <2>3. \A d \in Ids : ShowsOutcome(d) => ShowsOutcome(d)'
    BY <1>t, <2>1 DEF ShowsOutcome
  <2>4. ASSUME NEW d \in Ids, pc[w] \in Reporting, current[w] = d PROVE ShowsOutcome(d)'
    <3>1. appStatus[application[d]] = "deploying" BY <1>0, <2>4 DEF WorkerReports
    <3> QED BY <1>t, <2>1, <3>1 DEF ShowsOutcome
  <2>5. WorkerReports' BY <1>s, <2>1 DEF WorkerReports, Reporting
  <2>6. OutcomeShown' BY <1>0, <1>s, <2>1, <2>2, <2>3, <2>4 DEF OutcomeShown
  <2> QED BY <2>5, <2>6
<1>4. ASSUME NEW w \in Workers, RecoverInterrupted(w) PROVE WorkerReports' /\ OutcomeShown'
  <2>1. /\ UNCHANGED <<application, executions, restarts>> /\ pc'[w] = "recoverQueued"
        /\ pc[w] = "recoverInterrupted"
    BY <1>t, <1>4 DEF RecoverInterrupted, Goto, countVars
  <2>2. WorkerReports' BY <1>s, <2>1 DEF WorkerReports, Reporting
  <2>3. \A d \in Ids : LastExecuted(d)' <=> LastExecuted(d)
    BY <2>1 DEF LastExecuted
  <2>4. ASSUME NEW d \in Ids, LastExecuted(d) PROVE ShowsOutcome(d)'
    <3>0. executions[d] = 1 /\ application[d] \in Applications
      BY <1>x, <2>4 DEF LastExecuted, RowInv, RequestsHaveRows
    <3>1. CASE status[d] = "running"
      <4>1. status'[d] = "failed" /\ appStatus'[application[d]] = "failed"
        BY <1>4, <3>0, <3>1 DEF RecoverInterrupted
      <4> QED BY <2>1, <4>1 DEF ShowsOutcome
    <3>2. CASE status[d] # "running"
      <4>1. ASSUME NEW e \in Ids, status[e] = "running", application[e] = application[d] PROVE FALSE
        <5>1. executions[e] = 1 BY <1>0, <4>1 DEF OutcomeShown
        <5> QED BY <1>l, <2>4, <3>2, <4>1, <5>1 DEF InProgress
      <4>2. status'[d] = status[d] /\ appStatus'[application[d]] = appStatus[application[d]]
        BY <1>4, <3>0, <3>2, <4>1 DEF RecoverInterrupted
      <4>3. \A v \in Workers : ~(pc[v] \in Reporting /\ current[v] = d)
        BY <1>s, <2>1 DEF Reporting
      <4>4. ShowsOutcome(d) BY <1>0, <2>4, <3>2, <4>3 DEF OutcomeShown
      <4> QED BY <2>1, <4>2, <4>4 DEF ShowsOutcome
    <3> QED BY <3>1, <3>2
  <2>5. \A d \in Ids : status'[d] # "running" BY <1>4 DEF RecoverInterrupted
  <2> QED BY <2>2, <2>3, <2>4, <2>5 DEF OutcomeShown
<1>5. ASSUME NEW w \in Workers, StartQueued(w) PROVE WorkerReports' /\ OutcomeShown'
  <2>1. CASE status[current[w]] # "queued"
    <3>1. UNCHANGED <<status, application, appStatus, executions, restarts>> /\ pc[w] = "loaded"
          /\ pc' = [pc EXCEPT ![w] = "idle"]
      BY <1>5, <2>1 DEF StartQueued, Drop, Goto, countVars
    <3> QED BY <1>0, <1>t, <3>1, WorkerFrame DEF Reporting
  <2>2. CASE status[current[w]] = "queued"
    <3> DEFINE c == current[w]
    <3>0. c \in Ids BY <1>5 DEF StartQueued, RowInv, WorkersHoldRows, Busy, Holding
    <3>1. /\ UNCHANGED <<application, appStatus, restarts>> /\ pc[w] = "loaded"
          /\ status' = [status EXCEPT ![c] = "running"]
          /\ executions' = [executions EXCEPT ![c] = @ + 1]
          /\ pc' = [pc EXCEPT ![w] = "started"]
      BY <1>5, <2>2 DEF StartQueued, Goto, countVars
    <3>2. executions'[c] = 1
      <4>1. executions[c] \in Nat /\ executions[c] <= 1 /\ executions[c] # 1
        BY <1>t, <1>x, <2>2, <3>0 DEF RowInv, RunsAtMostOnce
      <4> QED BY <1>t, <3>0, <3>1, <4>1
    <3>3. \A d \in Ids \ {c} : executions'[d] = executions[d] /\ status'[d] = status[d]
      BY <1>t, <3>0, <3>1
    <3>4. status'[c] = "running" BY <1>t, <3>0, <3>1
    <3>5. WorkerReports'
      <4>1. pc'[w] = "started" BY <1>t, <3>1
      <4> QED BY <1>s, <4>1 DEF WorkerReports, Reporting
    <3>6. ASSUME NEW d \in Ids, LastExecuted(d)', status'[d] # "running" PROVE ShowsOutcome(d)'
      <4>1. d # c BY <3>4, <3>6
      <4>2. executions[d] = 1 BY <3>3, <3>6, <4>1 DEF LastExecuted
      <4>3. application[d] # application[c]
        <5>1. ASSUME application[d] = application[c] PROVE FALSE
          <6>1. c <= d BY <3>0, <3>1, <3>2, <3>6, <5>1 DEF LastExecuted
          <6>2. d <= c BY <2>2, <3>0, <4>2, <5>1, NewestIsLast DEF InProgress
          <6> QED BY <1>a, <3>0, <4>1, <6>1, <6>2
        <5> QED BY <5>1
      <4>4. LastExecuted(d) BY <3>0, <3>1, <3>3, <3>6, <4>2, <4>3 DEF LastExecuted
      <4>5. \A v \in Workers : ~(pc[v] \in Reporting /\ current[v] = d)
        BY <1>s, <3>1 DEF Reporting
      <4>6. ShowsOutcome(d) BY <1>0, <3>3, <3>6, <4>1, <4>4, <4>5 DEF OutcomeShown
      <4> QED BY <3>1, <3>3, <4>1, <4>6 DEF ShowsOutcome
    <3>7. \A d \in Ids : status'[d] = "running" => executions'[d] = 1
      BY <1>0, <3>2, <3>3 DEF OutcomeShown
    <3> QED BY <3>5, <3>6, <3>7 DEF OutcomeShown
  <2> QED BY <2>1, <2>2
<1>6. ASSUME NEW w \in Workers, LoadTarget(w) PROVE WorkerReports' /\ OutcomeShown'
  <2> DEFINE c == current[w]
  <2>0. c \in Ids /\ executions[c] = 1 /\ application[c] \in Applications /\ status[c] = "running"
    BY <1>0, <1>6, <1>h DEF LoadTarget, Executing, WorkerOwnsRow
  <2>1. /\ UNCHANGED <<status, application, executions, restarts, current>> /\ pc[w] = "started"
        /\ appStatus' = [appStatus EXCEPT ![application[c]] = "deploying"]
        /\ pc'[w] = "deploying"
    BY <1>t, <1>6 DEF LoadTarget, SetAppStatus, Goto, rowVars, countVars
  <2>2. WorkerReports'
    BY <1>s, <1>t, <2>0, <2>1 DEF WorkerReports, Reporting
  <2>3. ASSUME NEW d \in Ids, LastExecuted(d)', status'[d] # "running" PROVE ShowsOutcome(d)'
    <3>1. LastExecuted(d) BY <2>1, <2>3 DEF LastExecuted
    <3>2. application[d] # application[c]
      BY <1>l, <2>0, <2>1, <2>3, <3>1 DEF InProgress
    <3>3. \A v \in Workers : ~(pc[v] \in Reporting /\ current[v] = d)
      BY <1>s, <2>1 DEF Reporting
    <3>4. ShowsOutcome(d) BY <1>0, <2>1, <2>3, <3>1, <3>3 DEF OutcomeShown
    <3>5. appStatus'[application[d]] = appStatus[application[d]]
      BY <1>t, <2>1, <3>2
    <3> QED BY <2>1, <3>4, <3>5 DEF ShowsOutcome
  <2>4. \A d \in Ids : status'[d] = "running" => executions'[d] = 1
    BY <1>0, <2>1 DEF OutcomeShown
  <2> QED BY <2>2, <2>3, <2>4 DEF OutcomeShown
<1>7. ASSUME NEW w \in Workers, Finish(w) PROVE WorkerReports' /\ OutcomeShown'
  <2> DEFINE c == current[w]
  <2>0. c \in Ids /\ executions[c] = 1 /\ application[c] \in Applications /\ status[c] = "running"
    BY <1>0, <1>7, <1>h DEF Finish, Executing, WorkerOwnsRow
  <2>1. UNCHANGED <<application, executions, restarts, appStatus>>
    BY <1>7 DEF Finish, countVars
  <2>2. /\ pc[w] \in {"completing", "failing"} /\ current' = current
        /\ \/ pc'[w] = "reportHealthy" /\ status' = [status EXCEPT ![c] = "succeeded"]
           \/ pc'[w] = "reportFailed" /\ status' = [status EXCEPT ![c] = "failed"]
    BY <1>0, <1>t, <1>7 DEF Finish, Goto, WorkerReports
  <2>3. \A d \in Ids : LastExecuted(d)' <=> LastExecuted(d)
    BY <2>1 DEF LastExecuted
  <2>4. LastExecuted(c)
    BY <2>0, NewestIsLast DEF LastExecuted, InProgress
  <2>5. appStatus[application[c]] = "deploying"
    BY <1>0, <2>2 DEF WorkerReports
  <2>6. WorkerReports'
    BY <1>s, <1>t, <2>0, <2>1, <2>2, <2>3, <2>4, <2>5 DEF WorkerReports, Reporting
  <2>7. \A d \in Ids \ {c} : status'[d] = status[d]
    BY <1>t, <2>0, <2>2
  <2>8. ASSUME NEW d \in Ids \ {c}, LastExecuted(d)', status'[d] # "running" PROVE ShowsOutcome(d)'
    <3>1. \A v \in Workers : ~(pc[v] \in Reporting /\ current[v] = d)
      BY <1>s, <2>2 DEF Reporting
    <3>2. ShowsOutcome(d) BY <1>0, <2>3, <2>7, <2>8, <3>1 DEF OutcomeShown
    <3> QED BY <2>1, <2>7, <3>2 DEF ShowsOutcome
  <2>9. pc'[w] \in Reporting /\ current'[w] = c BY <2>2 DEF Reporting
  <2>10. \A d \in Ids : status'[d] = "running" => executions'[d] = 1
    BY <1>0, <2>0, <2>1, <2>7 DEF OutcomeShown
  <2> QED BY <2>6, <2>8, <2>9, <2>10 DEF OutcomeShown
<1>8. ASSUME NEW w \in Workers, Report(w) PROVE WorkerReports' /\ OutcomeShown'
  <2>0. PICK c \in Ids :
          c = current[w] /\ executions[c] = 1 /\ application[c] \in Applications
    BY <1>8, <1>h DEF Report, Reporting
  <2>1. /\ UNCHANGED <<status, application, executions, restarts>> /\ pc'[w] = "idle"
        /\ \/ /\ pc[w] = "reportHealthy"
              /\ appStatus' = [appStatus EXCEPT ![application[c]] = "healthy"]
           \/ /\ pc[w] = "reportFailed"
              /\ appStatus' = [appStatus EXCEPT ![application[c]] = "failed"]
    BY <1>t, <1>8, <2>0 DEF Report, SetAppStatus, Drop, Goto, rowVars, countVars
  <2>2. WorkerReports' BY <1>s, <2>1 DEF WorkerReports, Reporting
  <2>3. \A d \in Ids : LastExecuted(d)' <=> LastExecuted(d)
    BY <2>1 DEF LastExecuted
  <2>4. /\ LastExecuted(c)
        /\ pc[w] = "reportHealthy" => status[c] = "succeeded"
        /\ pc[w] = "reportFailed" => status[c] = "failed"
    BY <1>0, <2>0, <2>1 DEF WorkerReports, Reporting
  <2>5. ShowsOutcome(c)'
    BY <1>t, <2>0, <2>1, <2>4 DEF ShowsOutcome
  <2>6. ASSUME NEW d \in Ids \ {c}, LastExecuted(d), status[d] # "running" PROVE ShowsOutcome(d)'
    <3>1. application[d] # application[c]
      BY <1>a, <2>0, <2>4, <2>6 DEF LastExecuted
    <3>2. \A v \in Workers : ~(pc[v] \in Reporting /\ current[v] = d)
      BY <1>s, <2>0, <2>6
    <3>3. ShowsOutcome(d) BY <1>0, <2>6, <3>2 DEF OutcomeShown
    <3>4. appStatus'[application[d]] = appStatus[application[d]]
      <4>1. application[d] \in Applications
        BY <1>x, <2>6 DEF LastExecuted, RowInv, RequestsHaveRows
      <4> QED BY <1>t, <2>1, <3>1, <4>1
    <3> QED BY <2>1, <3>3, <3>4 DEF ShowsOutcome
  <2>7. \A d \in Ids : status'[d] = "running" => executions'[d] = 1
    BY <1>0, <2>1 DEF OutcomeShown
  <2> QED BY <2>1, <2>2, <2>3, <2>5, <2>6, <2>7 DEF OutcomeShown
<1> QED BY <1>f, <1>1, <1>2, <1>3, <1>4, <1>5, <1>6, <1>7, <1>8
        DEF Next, StartupStep, RunStep, RecoveryFails, PopFails, HandleFails, LoadTargetFails,
            FinishFails, ReportFails

\* With one worker and no failed call, "healthy" and "failed" of an application
\* nobody works on are the outcome of the row executed last, whatever crashed,
\* was cancelled or retried in between.
THEOREM StatusIsLastOutcome == Spec => []AppStatusIsLastOutcome
<1> DEFINE AppInv == NewestInProgress /\ WorkerReports /\ OutcomeShown
<1>1. Init => AppInv
  BY DEF Init, NewestInProgress, InProgress, WorkerReports, OutcomeShown, LastExecuted, Reporting
<1>2. /\ TypeOK /\ TypeOK' /\ RowInv /\ NoMarking /\ WorkerOwnsRow /\ AppInv /\ [Next]_vars
      => AppInv'
  <2> SUFFICES ASSUME TypeOK, TypeOK', RowInv, NoMarking, WorkerOwnsRow, AppInv, [Next]_vars
               PROVE  AppInv'
    OBVIOUS
  <2>1. NewestInProgress' BY NewestStep
  <2>2. CASE UNCHANGED vars
    BY <2>1, <2>2 DEF vars, WorkerReports, OutcomeShown, LastExecuted, ShowsOutcome
  <2>3. CASE Next /\ SingleWorker /\ faults' = 0
    BY <2>1, <2>3, ReportStep
  <2>4. CASE ~(SingleWorker /\ faults' = 0)
    BY <2>1, <2>4 DEF WorkerReports, OutcomeShown, SingleWorker
  <2> QED BY <2>2, <2>3, <2>4
<1>3. AppInv => AppStatusIsLastOutcome
  <2> SUFFICES ASSUME AppInv, SingleWorker, faults = 0, NEW a \in Applications,
                      \A d \in Executed(a) : /\ status[d] # "running"
                                             /\ \A w \in Workers : current[w] # d,
                      NEW d \in Executed(a), \A e \in Executed(a) : e <= d
               PROVE  /\ appStatus[a] = "healthy" => status[d] = "succeeded"
                      /\ appStatus[a] = "failed" => status[d] = "failed"
                      /\ appStatus[a] = "deploying" => restarts > 0
    BY DEF AppStatusIsLastOutcome
  <2>1. d \in Ids /\ application[d] = a /\ executions[d] = 1 BY DEF Executed
  <2>2. LastExecuted(d) BY <2>1 DEF LastExecuted, Executed
  <2>3. ShowsOutcome(d) BY <2>1, <2>2 DEF OutcomeShown
  <2> QED BY <2>1, <2>3 DEF ShowsOutcome
<1> QED BY <1>1, <1>2, <1>3, TypeCorrect, RowsCorrect, RowsAreOwned, PTL DEF Spec
=============================================================================
