--------------------------- MODULE DeploymentQueue ---------------------------
(***************************************************************************)
(* The deployment queue: the deployments table in PostgreSQL, the Redis    *)
(* list "deployments:queue", the HTTP handlers that insert a row and then  *)
(* push its id, and the worker processes that recover, pop and run.        *)
(*                                                                         *)
(*   handler   CreateDeployment -> Enqueue -> (push failed) mark failed    *)
(*   worker    RecoverInterrupted -> RecoverQueued -> loop:                *)
(*             BLPop -> GetDeployment -> StartQueuedDeployment -> deploy   *)
(*             -> UpdateDeploymentStatus -> UpdateApplicationStatus        *)
(*                                                                         *)
(* PostgreSQL and Redis are two stores and every arrow is a separate call, *)
(* so a process can die, or a call can fail, between any two of them.      *)
(* What the runner does on the target host is module BlueGreen; here a     *)
(* deployment attempt just ends well or badly.                             *)
(***************************************************************************)
EXTENDS Naturals, Sequences, FiniteSets

CONSTANTS
  Applications,    \* the applications
  NoApplication,   \* application_id of a row not inserted yet
  Workers,         \* processes with DEPLOYMENT_WORKER_ENABLED=true
  RecoveryLimit,   \* LIMIT of ListQueuedDeploymentsForRecovery (100)
  MaxDeployments,  \* bound: rows ever inserted
  MaxRestarts,     \* bound: worker processes killed or stopped
  MaxFaults        \* bound: calls that return an error, requests that die

ASSUME ConstantsAssumption ==
  /\ IsFiniteSet(Applications)
  /\ NoApplication \notin Applications
  /\ RecoveryLimit \in Nat \ {0}
  /\ MaxDeployments \in Nat
  /\ MaxRestarts \in Nat
  /\ MaxFaults \in Nat

\* Row ids in created_at order.  The Redis list needs no bound of its own: an id
\* is pushed once per handler, fault and recovery.
Ids == 1..MaxDeployments
NoDeployment == 0

VARIABLES
  status,       \* deployments.status, "none" before the row is inserted
  application,  \* deployments.application_id
  queue,        \* the Redis list
  request,      \* the handler that inserted the row: what it still has to do
  appStatus,    \* applications.status
  pc,           \* where each worker process is
  current,      \* the deployment each worker holds
  todo,         \* rows RecoverQueued has listed and not yet pushed
  executions,   \* history: how often the runner started a row
  restarts,     \* history: worker processes killed so far
  faults        \* history: failed calls so far

rowVars == <<status, application, executions>>
workerVars == <<pc, current, todo>>
countVars == <<restarts, faults>>
vars == <<status, application, queue, request, appStatus, pc, current, todo,
          executions, restarts, faults>>

Terminal == {"succeeded", "failed", "cancelled"}
Statuses == {"none", "queued", "running"} \cup Terminal

\* A worker that has started current[w] and has not yet written its outcome.
Executing == {"started", "unloaded", "deploying", "completing", "failing"}
\* The outcome is written, applications.status is not.
Reporting == {"reportHealthy", "reportFailed"}
\* The id is popped from Redis and the row is not started.
Holding == {"popped", "loaded"}
\* Startup, before the queued rows are listed again.
Booting == {"down", "recoverInterrupted", "recoverQueued"}
WorkerStates == Executing \cup Reporting \cup Holding \cup Booting
                  \cup {"requeue", "idle"}

InProgress(d) == status[d] \in {"queued", "running"}
InQueue(d) == \E i \in 1..Len(queue) : queue[i] = d
QueuedRows == {d \in Ids : status[d] = "queued"}

(***************************************************************************)
(* HTTP handlers.  createDeployment, retryDeployment, rollbackApplication, *)
(* the GitHub webhook, build completion and the configuration redeploys    *)
(* all insert the row with CreateDeployment and then call                  *)
(* enqueueDeployment.  The partial unique index                            *)
(* deployments_one_in_progress_per_application rejects the insert while    *)
(* the application has a queued or running row.                            *)
(***************************************************************************)
\* Mutant: the index covers running rows only.
CreateIgnoringQueued(a) ==
  /\ \A e \in Ids : status[e] = "running" => application[e] # a
  /\ \E d \in Ids :
       /\ \A e \in Ids : status[e] = "none" <=> e >= d
       /\ status' = [status EXCEPT ![d] = "queued"]
       /\ application' = [application EXCEPT ![d] = a]
       /\ request' = [request EXCEPT ![d] = "enqueue"]
  /\ UNCHANGED <<queue, appStatus, workerVars, executions, countVars>>

CreateDeployment(a) ==
  /\ \A e \in Ids : InProgress(e) => application[e] # a
  /\ \E d \in Ids :
       /\ \A e \in Ids : status[e] = "none" <=> e >= d
       /\ status' = [status EXCEPT ![d] = "queued"]
       /\ application' = [application EXCEPT ![d] = a]
       /\ request' = [request EXCEPT ![d] = "enqueue"]
  /\ UNCHANGED <<queue, appStatus, workerVars, executions, countVars>>

\* Only failed or cancelled rows can be retried; the retry is a new row.
RetryDeployment(source) ==
  /\ status[source] \in {"failed", "cancelled"}
  /\ CreateDeployment(application[source])

\* RPUSH of the id, acknowledged.
Enqueue(d) ==
  /\ request[d] = "enqueue"
  /\ queue' = Append(queue, d)
  /\ request' = [request EXCEPT ![d] = "done"]
  /\ UNCHANGED <<rowVars, appStatus, workerVars, countVars>>

Fault ==
  /\ faults < MaxFaults
  /\ faults' = faults + 1
  /\ UNCHANGED restarts

\* RPUSH returns an error.  Redis may have executed it all the same, and the
\* client library may push again before it gives up.
EnqueueFails(d) ==
  /\ Fault
  /\ request[d] = "enqueue"
  /\ \/ /\ queue' = queue
        /\ request' = [request EXCEPT ![d] = "markFailed"]
     \/ /\ queue' = Append(queue, d)
        /\ \/ request' = [request EXCEPT ![d] = "markFailed"]
           \/ request' = request
  /\ UNCHANGED <<rowVars, appStatus, workerVars>>

\* markDeploymentEnqueueFailed updates the row whatever its status is by now.
MarkDeploymentEnqueueFailed(d) ==
  /\ request[d] = "markFailed"
  /\ status' = [status EXCEPT ![d] = "failed"]
  /\ request' = [request EXCEPT ![d] = "done"]
  /\ UNCHANGED <<application, executions, queue, appStatus, workerVars, countVars>>

\* The client disconnects (both calls use the request's context), the process
\* of the handler dies, or marking the row failed fails too.
RequestDies(d) ==
  /\ Fault
  /\ request[d] \in {"enqueue", "markFailed"}
  /\ request' = [request EXCEPT ![d] = "done"]
  /\ UNCHANGED <<rowVars, queue, appStatus, workerVars>>

\* Mutant: UPDATE without the condition on status.
CancelAny(d) ==
  /\ status[d] # "none"
  /\ status' = [status EXCEPT ![d] = "cancelled"]
  /\ UNCHANGED <<application, executions, queue, request, appStatus, workerVars,
                 countVars>>

\* CancelQueuedDeployment: UPDATE ... WHERE status = 'queued'.
CancelDeployment(d) ==
  /\ status[d] = "queued"
  /\ status' = [status EXCEPT ![d] = "cancelled"]
  /\ UNCHANGED <<application, executions, queue, request, appStatus, workerVars,
                 countVars>>

(***************************************************************************)
(* A worker process: startup.                                              *)
(***************************************************************************)
Goto(w, state) == pc' = [pc EXCEPT ![w] = state]
Drop(w, state) == Goto(w, state) /\ current' = [current EXCEPT ![w] = NoDeployment]

\* Mutant: the worker loop starts without recovery.
SkipRecovery(w) ==
  /\ pc[w] = "down"
  /\ Goto(w, "idle")
  /\ UNCHANGED <<rowVars, queue, request, appStatus, current, todo, countVars>>

StartProcess(w) ==
  /\ pc[w] = "down"
  /\ Goto(w, "recoverInterrupted")
  /\ UNCHANGED <<rowVars, queue, request, appStatus, current, todo, countVars>>

\* Mutant: recovery fails the rows and leaves the applications alone.
RecoverRowsOnly(w) ==
  /\ pc[w] = "recoverInterrupted"
  /\ status' = [d \in Ids |-> IF status[d] = "running" THEN "failed" ELSE status[d]]
  /\ Goto(w, "recoverQueued")
  /\ UNCHANGED <<application, executions, queue, request, appStatus, current, todo,
                 countVars>>

\* FailRunningDeploymentsForRecovery: one statement over every running row.
RecoverInterrupted(w) ==
  /\ pc[w] = "recoverInterrupted"
  /\ status' = [d \in Ids |-> IF status[d] = "running" THEN "failed" ELSE status[d]]
  /\ appStatus' = [a \in Applications |->
                     IF \E d \in Ids : status[d] = "running" /\ application[d] = a
                       THEN "failed" ELSE appStatus[a]]
  /\ Goto(w, "recoverQueued")
  /\ UNCHANGED <<application, executions, queue, request, current, todo, countVars>>

\* Mutant: off by one in the limit.
ListTooFew(w) ==
  /\ pc[w] = "recoverQueued"
  /\ todo' = [todo EXCEPT ![w] =
                {d \in QueuedRows :
                   Cardinality({e \in QueuedRows : e <= d}) < RecoveryLimit}]
  /\ Goto(w, "requeue")
  /\ UNCHANGED <<rowVars, queue, request, appStatus, current, countVars>>

\* ListQueuedDeploymentsForRecovery: the oldest RecoveryLimit queued rows.
ListQueued(w) ==
  /\ pc[w] = "recoverQueued"
  /\ todo' = [todo EXCEPT ![w] =
                {d \in QueuedRows :
                   Cardinality({e \in QueuedRows : e <= d}) <= RecoveryLimit}]
  /\ Goto(w, "requeue")
  /\ UNCHANGED <<rowVars, queue, request, appStatus, current, countVars>>

\* recoverQueued pushes what it listed, oldest first; then StartWorker.
Requeue(w) ==
  /\ pc[w] = "requeue"
  /\ \/ \E d \in todo[w] :
          /\ \A e \in todo[w] : d <= e
          /\ queue' = Append(queue, d)
          /\ todo' = [todo EXCEPT ![w] = @ \ {d}]
          /\ UNCHANGED pc
     \/ /\ todo[w] = {}
        /\ Goto(w, "idle")
        /\ UNCHANGED <<queue, todo>>
  /\ UNCHANGED <<rowVars, request, appStatus, current, countVars>>

\* An error of any recovery call ends newApplication and the process.
RecoveryFails(w) ==
  /\ Fault
  /\ pc[w] \in {"recoverInterrupted", "recoverQueued", "requeue"}
  /\ Goto(w, "down")
  /\ todo' = [todo EXCEPT ![w] = {}]
  /\ UNCHANGED <<rowVars, queue, request, appStatus, current>>

\* SIGKILL, or SIGTERM: the cancelled context makes every later call of the
\* worker fail, so it changes nothing any more.
StopProcess(w) ==
  /\ restarts < MaxRestarts
  /\ pc[w] # "down"
  /\ Drop(w, "down")
  /\ todo' = [todo EXCEPT ![w] = {}]
  /\ restarts' = restarts + 1
  /\ UNCHANGED <<rowVars, queue, request, appStatus, faults>>

(***************************************************************************)
(* A worker process: the queue loop.                                       *)
(***************************************************************************)
Pop(w) ==
  /\ pc[w] = "idle"
  /\ queue # <<>>
  /\ queue' = Tail(queue)
  /\ current' = [current EXCEPT ![w] = Head(queue)]
  /\ Goto(w, "popped")
  /\ UNCHANGED <<rowVars, request, appStatus, todo, countVars>>

\* BLPOP errors after Redis removed the element: the id is gone.
PopFails(w) ==
  /\ Fault
  /\ pc[w] = "idle"
  /\ queue # <<>>
  /\ queue' = Tail(queue)
  /\ UNCHANGED <<rowVars, request, appStatus, workerVars>>

\* handle: GetDeployment, then shouldRunDeployment.
Load(w) ==
  /\ pc[w] = "popped"
  /\ \/ /\ status[current[w]] = "queued"
        /\ Goto(w, "loaded")
        /\ UNCHANGED current
     \/ /\ status[current[w]] # "queued"
        /\ Drop(w, "idle")
  /\ UNCHANGED <<rowVars, queue, request, appStatus, todo, countVars>>

\* Mutant: the row is started on the strength of the earlier read.
StartLoaded(w) ==
  /\ pc[w] = "loaded"
  /\ status' = [status EXCEPT ![current[w]] = "running"]
  /\ executions' = [executions EXCEPT ![current[w]] = @ + 1]
  /\ Goto(w, "started")
  /\ UNCHANGED <<application, queue, request, appStatus, current, todo, countVars>>

\* StartQueuedDeployment: UPDATE ... WHERE status = 'queued'; no row, no run.
StartQueued(w) ==
  /\ pc[w] = "loaded"
  /\ \/ /\ status[current[w]] = "queued"
        /\ status' = [status EXCEPT ![current[w]] = "running"]
        /\ executions' = [executions EXCEPT ![current[w]] = @ + 1]
        /\ Goto(w, "started")
        /\ UNCHANGED current
     \/ /\ status[current[w]] # "queued"
        /\ Drop(w, "idle")
        /\ UNCHANGED <<status, executions>>
  /\ UNCHANGED <<application, queue, request, appStatus, todo, countVars>>

\* Either call errs and the item is dropped; the UPDATE may have committed.
HandleFails(w) ==
  /\ Fault
  /\ pc[w] \in Holding
  /\ Drop(w, "idle")
  /\ \/ status' = status
     \/ /\ pc[w] = "loaded"
        /\ status[current[w]] = "queued"
        /\ status' = [status EXCEPT ![current[w]] = "running"]
  /\ UNCHANGED <<application, executions, queue, request, appStatus, todo>>

SetAppStatus(w, s) ==
  appStatus' = [appStatus EXCEPT ![application[current[w]]] = s]

\* GetDeploymentTarget, then applications.status = 'deploying'.
LoadTarget(w) ==
  /\ pc[w] = "started"
  /\ SetAppStatus(w, "deploying")
  /\ Goto(w, "deploying")
  /\ UNCHANGED <<rowVars, queue, request, current, todo, countVars>>

\* GetDeploymentTarget errs: the row fails and the application is not touched;
\* or the application update errs, which the runner ignores.
LoadTargetFails(w) ==
  /\ Fault
  /\ pc[w] = "started"
  /\ Goto(w, "unloaded") \/ Goto(w, "deploying")
  /\ UNCHANGED <<rowVars, queue, request, appStatus, current, todo>>

\* deploy returns, with or without an error.
Deploy(w) ==
  /\ pc[w] = "deploying"
  /\ Goto(w, "completing") \/ Goto(w, "failing")
  /\ UNCHANGED <<rowVars, queue, request, appStatus, current, todo, countVars>>

\* UpdateDeploymentStatus, whatever the row's status is by now.
Finish(w) ==
  /\ \/ /\ pc[w] = "completing"
        /\ status' = [status EXCEPT ![current[w]] = "succeeded"]
        /\ Goto(w, "reportHealthy")
        /\ UNCHANGED current
     \/ /\ pc[w] = "failing"
        /\ status' = [status EXCEPT ![current[w]] = "failed"]
        /\ Goto(w, "reportFailed")
        /\ UNCHANGED current
     \/ /\ pc[w] = "unloaded"
        /\ status' = [status EXCEPT ![current[w]] = "failed"]
        /\ Drop(w, "idle")
  /\ UNCHANGED <<application, executions, queue, request, appStatus, todo, countVars>>

\* The update errs, committed or not: complete gives up, fail carries on.
FinishFails(w) ==
  /\ Fault
  /\ \/ /\ pc[w] = "completing"
        /\ Drop(w, "idle")
        /\ status' \in {status, [status EXCEPT ![current[w]] = "succeeded"]}
     \/ /\ pc[w] = "failing"
        /\ Goto(w, "reportFailed")
        /\ status' = status
        /\ UNCHANGED current
     \/ /\ pc[w] = "unloaded"
        /\ Drop(w, "idle")
        /\ status' = status
  /\ UNCHANGED <<application, executions, queue, request, appStatus, todo>>

\* UpdateApplicationStatus closes Run.
Report(w) ==
  /\ \/ pc[w] = "reportHealthy" /\ SetAppStatus(w, "healthy")
     \/ pc[w] = "reportFailed" /\ SetAppStatus(w, "failed")
  /\ Drop(w, "idle")
  /\ UNCHANGED <<rowVars, queue, request, todo, countVars>>

\* Its error is ignored.
ReportFails(w) ==
  /\ Fault
  /\ pc[w] \in Reporting
  /\ Drop(w, "idle")
  /\ UNCHANGED <<rowVars, queue, request, appStatus, todo>>

-----------------------------------------------------------------------------
Init ==
  /\ status = [d \in Ids |-> "none"]
  /\ application = [d \in Ids |-> NoApplication]
  /\ queue = <<>>
  /\ request = [d \in Ids |-> "none"]
  /\ appStatus = [a \in Applications |-> "idle"]
  /\ pc = [w \in Workers |-> "down"]
  /\ current = [w \in Workers |-> NoDeployment]
  /\ todo = [w \in Workers |-> {}]
  /\ executions = [d \in Ids |-> 0]
  /\ restarts = 0
  /\ faults = 0

UserStep ==
  \/ \E a \in Applications : CreateDeployment(a)
  \/ \E d \in Ids : RetryDeployment(d) \/ CancelDeployment(d)

RequestStep(d) ==
  Enqueue(d) \/ EnqueueFails(d) \/ MarkDeploymentEnqueueFailed(d) \/ RequestDies(d)

StartupStep(w) ==
  \/ StartProcess(w) \/ RecoverInterrupted(w) \/ ListQueued(w) \/ Requeue(w)
  \/ RecoveryFails(w)

RunStep(w) ==
  \/ Pop(w) \/ PopFails(w) \/ Load(w) \/ StartQueued(w) \/ HandleFails(w)
  \/ LoadTarget(w) \/ LoadTargetFails(w) \/ Finish(w) \/ FinishFails(w)
  \/ Report(w) \/ ReportFails(w)

Next ==
  \/ UserStep
  \/ \E d \in Ids : RequestStep(d)
  \/ \E w \in Workers : StartupStep(w) \/ RunStep(w) \/ Deploy(w) \/ StopProcess(w)

Spec == Init /\ [][Next]_vars

\* A handler finishes unless it dies; the supervisor starts a worker process
\* that is down, and a process that runs takes its next step.  Nothing forces a
\* user to act, a fault to happen, or a remote command to return: Deploy, which
\* has no timeout in the code, gets no fairness.
FairSpec ==
  /\ Spec
  /\ \A d \in Ids : WF_vars(RequestStep(d))
  /\ \A w \in Workers : WF_vars(StartupStep(w)) /\ WF_vars(RunStep(w))
-----------------------------------------------------------------------------
(***************************************************************************)
(* Properties.                                                             *)
(***************************************************************************)

\* Every variable stays in its type: the CHECK constraints of the schema, the
\* program points of handlers and workers, the ids in Redis.
TypeOK ==
  /\ status \in [Ids -> Statuses]
  /\ application \in [Ids -> Applications \cup {NoApplication}]
  /\ queue \in Seq(Ids)
  /\ request \in [Ids -> {"none", "enqueue", "markFailed", "done"}]
  /\ appStatus \in [Applications -> {"idle", "deploying", "healthy", "failed"}]
  /\ pc \in [Workers -> WorkerStates]
  /\ current \in [Workers -> Ids \cup {NoDeployment}]
  /\ todo \in [Workers -> SUBSET Ids]
  /\ executions \in [Ids -> Nat]
  /\ restarts \in 0..MaxRestarts
  /\ faults \in 0..MaxFaults

\* An application never has two rows in progress.  The index checks inserts; the
\* property needs that no later UPDATE (start, cancel, fail, finish, recovery)
\* takes a finished row back to queued or running.
OneInProgress ==
  \A d, e \in Ids :
    InProgress(d) /\ InProgress(e) /\ application[d] = application[e] => d = e

\* However often an id is pushed again (recovery on startup while the id is
\* still in Redis, a retried RPUSH), the runner executes the row at most once,
\* and a cancelled row that was never started is never executed.
RunsAtMostOnce ==
  \A d \in Ids :
    /\ executions[d] <= 1
    /\ executions[d] = 1 => status[d] \in {"running", "succeeded", "failed"}

\* Two workers never execute the same row.
OneWorkerPerDeployment ==
  \A v, w \in Workers :
    pc[v] \in Executing /\ pc[w] \in Executing /\ current[v] = current[w] => v = w

\* Unless some call failed, a queued row is never stranded: its handler still has
\* to push it, or its id is in Redis, or a worker holds it, or a worker has to
\* list the queued rows when it starts.  Crashes do not break this.  It needs the
\* index and the recovery limit: at most one row per application is queued, so
\* the limit is enough for RecoveryLimit applications.
Reachable(d) ==
  \/ request[d] = "enqueue"
  \/ InQueue(d)
  \/ \E w \in Workers :
       \/ pc[w] \in Holding /\ current[w] = d
       \/ pc[w] \in Booting
       \/ pc[w] = "requeue" /\ d \in todo[w]

NoneStranded ==
  faults = 0 => \A d \in Ids : status[d] = "queued" => Reachable(d)

\* With the one worker process of the documented topology and no failed call,
\* the row a worker executes is "running" all along, so its owner is the only
\* writer of its outcome: nobody can retry or delete it meanwhile.
SingleWorker == \A v, w \in Workers : v = w

WorkerOwnsRow ==
  SingleWorker /\ faults = 0 =>
    \A w \in Workers : pc[w] \in Executing => status[current[w]] = "running"

\* Under the same conditions the recorded outcome of a deployment is final.
OutcomeIsFinal ==
  [][SingleWorker /\ faults' = 0 =>
       \A d \in Ids : status[d] \in Terminal => status'[d] = status[d]]_vars

\* Under the same conditions applications.status never shows a wrong outcome:
\* while nobody works on the application, "healthy" and "failed" are the outcome
\* of the deployment executed last.  ("deploying" can be left behind by a crash
\* between the two updates.)
Executed(a) == {d \in Ids : application[d] = a /\ executions[d] = 1}

AppStatusIsLastOutcome ==
  SingleWorker /\ faults = 0 =>
    \A a \in Applications :
      (\A d \in Executed(a) : status[d] # "running" /\ \A w \in Workers : current[w] # d)
        => \A d \in Executed(a) :
             (\A e \in Executed(a) : e <= d) =>
               /\ appStatus[a] = "healthy" => status[d] = "succeeded"
               /\ appStatus[a] = "failed" => status[d] = "failed"
               /\ appStatus[a] = "deploying" => restarts > 0

\* A queued row leaves the queue (started, cancelled or failed) as long as no
\* call fails, worker processes are restarted a bounded number of times, and no
\* remote command hangs for ever in the single-threaded worker.
QueuedIsServed ==
  (\A w \in Workers : []<>(pc[w] # "deploying")) =>
    \A d \in Ids : status[d] = "queued" ~> status[d] # "queued"

\* Under the same conditions a row that is running reaches an outcome, also
\* when its worker is killed: the application can be deployed again.
RunningEnds ==
  (\A w \in Workers : []<>(pc[w] # "deploying")) =>
    \A d \in Ids : status[d] = "running" ~> status[d] \in Terminal

\* The detailed system implements the abstract lifecycle, whatever fails: seen as
\* none, queued, running or done, a row only moves forward, and it is submitted
\* only while its application has no other row in progress.
Phase(s) == IF s \in Terminal THEN "done" ELSE s

Lifecycle == INSTANCE DeploymentLifecycle
               WITH phase <- [d \in Ids |-> Phase(status[d])], owner <- application

ImplementsLifecycle == Lifecycle!Spec
=============================================================================
