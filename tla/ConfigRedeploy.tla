---------------------------- MODULE ConfigRedeploy ----------------------------
(***************************************************************************)
(* Configuration of the applications of one project, and when a service    *)
(* has to be redeployed because its configuration changed.                 *)
(*                                                                         *)
(* A deployment row stores a snapshot of the configuration when it is      *)
(* created; the runner reads the configuration, piece by piece, when it    *)
(* runs the row; the "redeploy required" flag compares the configuration   *)
(* of now with the snapshot of the deployment in the active slot.  Rows    *)
(* written before migration 034 have no snapshot, and are judged by        *)
(* revision counters.  Edits, runs and redeploy transactions interleave.   *)
(*                                                                         *)
(* The two colors of an application are told apart by their role only,     *)
(* "active" or "standby"; BlueGreen models how traffic moves between them. *)
(***************************************************************************)
EXTENDS Naturals, Sequences, FiniteSets, FiniteSetsExt

CONSTANTS
  Apps,            \* applications of the project
  Values,          \* values of a piece of configuration
  NoConfig,        \* an element of Values: no runtime configuration row
  NoState,         \* snapshot of a deployment created before migration 034
  MaxDeployments,  \* bound: deployment rows
  MaxEdits         \* bound: configuration edits

ASSUME ConfigRedeployAssumption ==
  /\ NoConfig \in Values
  /\ NoState \notin [source: Values, fields: Values, service: Values, project: Values]
  /\ MaxDeployments \in Nat \ {0}
  /\ MaxEdits \in Nat

States == [source: Values, fields: Values, service: Values, project: Values]
Statuses == {"queued", "running", "succeeded", "failed"}
Triggers == {"manual", "rollback", "redeploy"}
Steps == {"idle", "target", "project", "service", "up", "record", "activate",
          "rollback", "complete", "mark"}

VARIABLES
  config,      \* applications row and its service runtime configuration
  project,     \* project_runtime_variables
  rev,         \* applications.configuration_revision
  projectRev,  \* projects.configuration_revision
  deployed,    \* applications.deployed_*_revision
  rows,        \* deployments, in order of creation
  slots,       \* deployment_id of the active and the standby slot, 0 if none
  host,        \* host: deployment whose containers run in each of the two
  run,         \* the runner's local state, per application
  lock,        \* the redeploy transaction that holds the application row
  batch,       \* candidates a project redeploy still has to visit
  edits,       \* history: edits made
  ran,         \* history: configuration a deployment's containers run with
  touched,     \* history: deployments edited under between creation and run
  marked       \* history: deployment that last marked the revisions

edited == <<config, project, rev, projectRev, edits>>
placed == <<slots, host>>
history == <<ran, touched, marked>>
vars == <<config, project, rev, projectRev, deployed, rows, slots, host, run,
          lock, batch, edits, ran, touched, marked>>

Ids == 1..Len(rows)
Initially == [source |-> NoConfig, fields |-> NoConfig, service |-> NoConfig,
              project |-> NoConfig]
Idle == [pc |-> "idle", dep |-> 0, got |-> Initially, rev |-> 0, projectRev |-> 0]
Free == [pc |-> "free", from |-> 0]
InProgress(a) == {d \in Ids : rows[d].app = a /\ rows[d].status \in {"queued", "running"}}
Succeeded(a) == {d \in Ids : rows[d].app = a /\ rows[d].status = "succeeded"}

\* application_configuration_state(application_id), without the columns that
\* are not configuration (domain, status, versions, github_auto_deploy).
ConfigurationState(a) ==
  [source |-> config[a].source, fields |-> config[a].fields,
   service |-> config[a].service, project |-> project]

(***************************************************************************)
(* Edits.  A request that changes nothing leaves the revision alone.       *)
(***************************************************************************)
\* Rows whose run has not read all of its configuration yet.
Window(a) == {d \in InProgress(a) : \/ rows[d].status = "queued"
                                    \/ run[a].pc \in {"target", "project", "service"}}

EditedUnder(apps) ==
  /\ edits < MaxEdits
  /\ edits' = edits + 1
  /\ touched' = touched \cup UNION {Window(a) : a \in apps}
  /\ UNCHANGED <<deployed, rows, slots, host, run, lock, batch, ran, marked>>

BumpApplicationConfigurationRevision(a) ==
  rev' = [rev EXCEPT ![a] = @ + 1]

IncrementProjectConfigurationRevision ==
  projectRev' = projectRev + 1

\* The UPDATE counts a revision when a configuration column is distinct.
UpdateApplicationRow(a, source, fields) ==
  /\ <<source, fields>> # <<config[a].source, config[a].fields>>
  /\ config' = [config EXCEPT ![a].source = source, ![a].fields = fields]
  /\ BumpApplicationConfigurationRevision(a)

\* updateApplication; its UPDATE waits for a redeploy that holds the row.
UpdateApplication(a) ==
  /\ lock[a] = Free
  /\ \E source, fields \in Values : UpdateApplicationRow(a, source, fields)
  /\ UNCHANGED <<project, projectRev>>
  /\ EditedUnder({a})

UpsertApplicationServiceRuntimeConfig(a, value) ==
  value # NoConfig /\ config' = [config EXCEPT ![a].service = value]

DeleteApplicationServiceRuntimeConfig(a, value) ==
  value = NoConfig /\ config' = [config EXCEPT ![a].service = NoConfig]

\* storeApplicationServiceRuntimeConfig, one transaction under FOR UPDATE.
ReplaceServiceRuntimeConfig(a) ==
  /\ lock[a] = Free
  /\ \E value \in Values :
       /\ value # config[a].service
       /\ \/ UpsertApplicationServiceRuntimeConfig(a, value)
          \/ DeleteApplicationServiceRuntimeConfig(a, value)
  /\ BumpApplicationConfigurationRevision(a)
  /\ UNCHANGED <<project, projectRev>>
  /\ EditedUnder({a})

\* storeProjectRuntimeVariables: locks the project, no application.
ReplaceProjectVariables ==
  /\ \E value \in Values : value # project /\ project' = value
  /\ IncrementProjectConfigurationRevision
  /\ UNCHANGED <<config, rev>>
  /\ EditedUnder(Apps)

(***************************************************************************)
(* Creation of deployment rows.                                            *)
(***************************************************************************)
\* The snapshot is taken by the INSERT itself.  An artifact is named by the
\* deployment that first built or pulled it.
CreateDeployment(a, trigger, artifact) ==
  /\ InProgress(a) = {}      \* deployments_one_in_progress_per_application
  /\ Len(rows) < MaxDeployments
  /\ rows' = Append(rows, [app |-> a, trigger |-> trigger, status |-> "queued",
                           snapshot |-> ConfigurationState(a), artifact |-> artifact])

Fresh == Len(rows) + 1

\* createDeployment; the foreign key check waits for a held application row.
Deploy(a) ==
  /\ lock[a] = Free
  /\ CreateDeployment(a, "manual", Fresh)
  /\ UNCHANGED <<edited, deployed, placed, run, lock, batch, history>>

\* rollbackApplication: what the standby slot names.
Rollback(a) ==
  /\ lock[a] = Free
  /\ slots[a].standby # 0
  /\ CreateDeployment(a, "rollback", rows[slots[a].standby].artifact)
  /\ UNCHANGED <<edited, deployed, placed, run, lock, batch, history>>

(***************************************************************************)
(* Is a redeploy required?                                                 *)
(***************************************************************************)
\* Mutant: the latest successful deployment, whatever slot is active.
LatestSucceeded(a) == IF Succeeded(a) = {} THEN 0 ELSE Max(Succeeded(a))

\* The deployment a redeploy starts from, 0 if none: the successful one in the
\* active slot, else the latest successful one.
GetApplicationConfigurationRedeployCandidate(a) ==
  IF Succeeded(a) = {} THEN 0
  ELSE IF slots[a].active \in Succeeded(a) THEN slots[a].active
  ELSE Max(Succeeded(a))

RedeployRequired(a) ==
  LET d == GetApplicationConfigurationRedeployCandidate(a)
  IN  /\ d # 0
      /\ IF rows[d].snapshot = NoState
           THEN rev[a] > deployed[a].rev \/ projectRev > deployed[a].projectRev
           ELSE ConfigurationState(a) # rows[d].snapshot

ListProjectConfigurationRedeployCandidates == {a \in Apps : RedeployRequired(a)}

(***************************************************************************)
(* createConfigurationRedeployment: one transaction per application, in    *)
(* three statements.  While it holds the row only project variables move.  *)
(***************************************************************************)
GetApplicationForUpdate(a) ==
  /\ lock[a] = Free
  /\ lock' = [lock EXCEPT ![a].pc = "check"]

Release(a) == lock' = [lock EXCEPT ![a] = Free]

\* redeployApplicationConfiguration.
RedeployApplication(a) ==
  /\ GetApplicationForUpdate(a)
  /\ UNCHANGED <<edited, deployed, rows, placed, run, batch, history>>

\* redeployProjectConfiguration: list the candidates, then one after the other.
RedeployProject ==
  /\ batch = {}
  /\ batch' = ListProjectConfigurationRedeployCandidates
  /\ batch' # {}
  /\ UNCHANGED <<edited, deployed, rows, placed, run, lock, history>>

RedeployNext(a) ==
  /\ a \in batch
  /\ GetApplicationForUpdate(a)
  /\ batch' = batch \ {a}
  /\ UNCHANGED <<edited, deployed, rows, placed, run, history>>

\* configurationRedeploySourceChanged.  A deployment of before migration 034 was
\* given the repository and branch of its application by the migration.
SourceChanged(a, d) ==
  LET recorded == IF rows[d].snapshot = NoState THEN ran[d].source ELSE rows[d].snapshot.source
  IN  config[a].source # recorded

\* Mutant: the redeploy resolves the branch again.
Unpinned(a, d) == Fresh

\* configurationRedeployInput: the pinned artifact of the candidate, or a new
\* one when the repository or the branch changed.
ConfigurationRedeployInput(a, d) ==
  IF SourceChanged(a, d) THEN Fresh ELSE rows[d].artifact

\* The candidate query and the early returns: current, or in progress.
RedeployCheck(a) ==
  /\ lock[a].pc = "check"
  /\ IF RedeployRequired(a) /\ InProgress(a) = {}
       THEN lock' = [lock EXCEPT ![a] =
                       [pc |-> "insert", from |-> GetApplicationConfigurationRedeployCandidate(a)]]
       ELSE Release(a)
  /\ UNCHANGED <<edited, deployed, rows, placed, run, batch, history>>

RedeployInsert(a) ==
  /\ lock[a].pc = "insert"
  /\ CreateDeployment(a, "redeploy", ConfigurationRedeployInput(a, lock[a].from))
  /\ Release(a)
  /\ UNCHANGED <<edited, deployed, placed, run, batch, history>>

\* A validation or database error: the transaction is rolled back.
RedeployRefused(a) ==
  /\ lock[a].pc = "insert"
  /\ Release(a)
  /\ UNCHANGED <<edited, deployed, rows, placed, run, batch, history>>

(***************************************************************************)
(* The run of a deployment, as far as it reads configuration.              *)
(***************************************************************************)
At(a, pc) == run[a].pc = pc
Goto(a, pc) == run' = [run EXCEPT ![a].pc = pc]

StartQueued(a) ==
  /\ At(a, "idle")
  /\ \E d \in InProgress(a) :
       /\ rows[d].status = "queued"
       /\ rows' = [rows EXCEPT ![d].status = "running"]
       /\ run' = [run EXCEPT ![a].pc = "target", ![a].dep = d]
  /\ UNCHANGED <<edited, deployed, placed, lock, batch, history>>

\* Repository and branch from the row, everything else and both revisions as
\* they are now, in one SELECT.
GetDeploymentTarget(a, d) ==
  [pc |-> IF rows[d].trigger = "rollback" THEN "rollback" ELSE "project", dep |-> d,
   got |-> [Initially EXCEPT !.source = rows[d].snapshot.source, !.fields = config[a].fields],
   rev |-> rev[a], projectRev |-> projectRev]

LoadTarget(a) ==
  /\ At(a, "target")
  /\ run' = [run EXCEPT ![a] = GetDeploymentTarget(a, run[a].dep)]
  /\ UNCHANGED <<edited, deployed, rows, placed, lock, batch, history>>

\* deploymentRuntimeVariables.
ReadProjectVariables(a) ==
  /\ At(a, "project")
  /\ run' = [run EXCEPT ![a].pc = "service", ![a].got.project = project]
  /\ UNCHANGED <<edited, deployed, rows, placed, lock, batch, history>>

\* deploymentServiceRuntimeVariables.
ReadServiceVariables(a) ==
  /\ At(a, "service")
  /\ run' = [run EXCEPT ![a].pc = "up", ![a].got.service = config[a].service]
  /\ UNCHANGED <<edited, deployed, rows, placed, lock, batch, history>>

\* The remote steps replace the containers of the standby color.
Up(a) ==
  /\ At(a, "up")
  /\ host' = [host EXCEPT ![a].standby = run[a].dep]
  /\ ran' = [ran EXCEPT ![run[a].dep] = run[a].got]
  /\ Goto(a, "record")
  /\ UNCHANGED <<edited, deployed, rows, slots, lock, batch, touched, marked>>

RecordSlot(a) ==
  /\ At(a, "record")
  /\ slots' = [slots EXCEPT ![a].standby = run[a].dep]
  /\ Goto(a, "activate")
  /\ UNCHANGED <<edited, deployed, rows, host, lock, batch, history>>

Swap(pair) == [active |-> pair.standby, standby |-> pair.active]

\* Traffic and the slot statuses move to the other color.
Activate(a) ==
  /\ At(a, "activate") \/ (At(a, "rollback") /\ slots[a].standby # 0)
  /\ slots' = [slots EXCEPT ![a] = Swap(@)]
  /\ host' = [host EXCEPT ![a] = Swap(@)]
  /\ Goto(a, "complete")
  /\ UNCHANGED <<edited, deployed, rows, lock, batch, history>>

Complete(a) ==
  /\ At(a, "complete")
  /\ rows' = [rows EXCEPT ![run[a].dep].status = "succeeded"]
  /\ IF rows[run[a].dep].trigger = "rollback"
       THEN run' = [run EXCEPT ![a] = Idle]
       ELSE Goto(a, "mark")
  /\ UNCHANGED <<edited, deployed, placed, lock, batch, history>>

Greatest(x, y) == IF x > y THEN x ELSE y

\* Mutant: the revisions of now, not those the run loaded.
MarkCurrentRevisions(a) ==
  deployed' = [deployed EXCEPT ![a] = [rev |-> rev[a], projectRev |-> projectRev]]

MarkApplicationConfigurationDeployed(a) ==
  deployed' = [deployed EXCEPT ![a] =
                 [rev |-> Greatest(@.rev, run[a].rev),
                  projectRev |-> Greatest(@.projectRev, run[a].projectRev)]]

\* A failed UPDATE is only logged.
Mark(a) ==
  /\ At(a, "mark")
  /\ \/ lock[a] = Free /\ MarkApplicationConfigurationDeployed(a)
                       /\ marked' = [marked EXCEPT ![a] = run[a].dep]
     \/ UNCHANGED <<deployed, marked>>
  /\ run' = [run EXCEPT ![a] = Idle]
  /\ UNCHANGED <<edited, rows, placed, lock, batch, ran, touched>>

\* fail, or the recovery of the next process after this one died.
Fail(a) ==
  /\ run[a].pc \notin {"idle", "mark"}
  /\ rows' = [rows EXCEPT ![run[a].dep].status = "failed"]
  /\ run' = [run EXCEPT ![a] = Idle]
  /\ UNCHANGED <<edited, deployed, placed, lock, batch, history>>

(***************************************************************************)
(* The specification.                                                      *)
(***************************************************************************)
Default == [source |-> NoConfig, fields |-> NoConfig, service |-> NoConfig]
Legacy(a) == [app |-> a, trigger |-> "manual", status |-> "succeeded",
              snapshot |-> NoState, artifact |-> 1]

\* A new installation, or one where an application was deployed before 034.
Init ==
  /\ config = [a \in Apps |-> Default]
  /\ project = NoConfig
  /\ rev = [a \in Apps |-> 0]
  /\ projectRev = 0
  /\ deployed = [a \in Apps |-> [rev |-> 0, projectRev |-> 0]]
  /\ \/ /\ rows = <<>>
        /\ slots = [a \in Apps |-> [active |-> 0, standby |-> 0]]
     \/ \E old \in Apps :
          /\ rows = <<Legacy(old)>>
          /\ slots = [a \in Apps |-> [active |-> IF a = old THEN 1 ELSE 0, standby |-> 0]]
  /\ host = slots
  /\ run = [a \in Apps |-> Idle]
  /\ lock = [a \in Apps |-> Free]
  /\ batch = {}
  /\ edits = 0
  /\ ran = [d \in 1..MaxDeployments |-> Initially]
  /\ touched = {}
  /\ marked = [a \in Apps |-> 0]

Edit == ReplaceProjectVariables \/ \E a \in Apps : UpdateApplication(a) \/ ReplaceServiceRuntimeConfig(a)
Request == RedeployProject \/ \E a \in Apps :
  \/ Deploy(a) \/ Rollback(a) \/ RedeployApplication(a) \/ RedeployNext(a)
  \/ RedeployCheck(a) \/ RedeployInsert(a) \/ RedeployRefused(a)
Work == \E a \in Apps :
  \/ StartQueued(a) \/ LoadTarget(a) \/ ReadProjectVariables(a) \/ ReadServiceVariables(a)
  \/ Up(a) \/ RecordSlot(a) \/ Activate(a) \/ Complete(a) \/ Mark(a) \/ Fail(a)

Next == Edit \/ Request \/ Work
Spec == Init /\ [][Next]_vars

(***************************************************************************)
(* Properties.                                                             *)
(***************************************************************************)
\* The type invariant of the module.
TypeOK ==
  /\ config \in [Apps -> [source: Values, fields: Values, service: Values]]
  /\ project \in Values
  /\ rev \in [Apps -> 0..MaxEdits] /\ projectRev \in 0..MaxEdits
  /\ deployed \in [Apps -> [rev: 0..MaxEdits, projectRev: 0..MaxEdits]]
  /\ rows \in Seq([app: Apps, trigger: Triggers, status: Statuses,
                   snapshot: States \cup {NoState}, artifact: 1..MaxDeployments])
  /\ Len(rows) <= MaxDeployments
  /\ slots \in [Apps -> [active: 0..MaxDeployments, standby: 0..MaxDeployments]]
  /\ host \in [Apps -> [active: 0..MaxDeployments, standby: 0..MaxDeployments]]
  /\ run \in [Apps -> [pc: Steps, dep: 0..MaxDeployments, got: States,
                       rev: 0..MaxEdits, projectRev: 0..MaxEdits]]
  /\ lock \in [Apps -> [pc: {"free", "check", "insert"}, from: 0..MaxDeployments]]
  /\ batch \subseteq Apps
  /\ edits \in 0..MaxEdits
  /\ ran \in [1..MaxDeployments -> States]
  /\ touched \subseteq Ids
  /\ marked \in [Apps -> 0..MaxDeployments]

\* The slot names the containers that serve, and their deployment succeeded.
Settled(a) ==
  LET d == slots[a].active
  IN  d # 0 /\ host[a].active = d /\ rows[d].status = "succeeded"

\* Counters still say what they said when a legacy deployment was made.
CountersKept(a) == marked[a] = 0

\* The redeploy flag never hides a difference between what an application runs
\* with and what it is configured to run with, and for deployments that have a
\* snapshot it shows nothing else, provided no edit fell between the creation of
\* the serving deployment and its run.  It has to hold through rollbacks, failed
\* runs, and edits that are made and taken back (GetApplicationConfigurationRedeployCandidate).
FlagFollowsDrift ==
  \A a \in Apps : LET d == slots[a].active IN
    Settled(a) /\ d \notin touched =>
      IF rows[d].snapshot = NoState
        THEN CountersKept(a) /\ ConfigurationState(a) # ran[d] => RedeployRequired(a)
        ELSE RedeployRequired(a) <=> ConfigurationState(a) # ran[d]

\* The revision counters never claim an edit the run did not read: when both are
\* up to date, the deployment that marked them runs the variables and fields of
\* now, although it read them in three statements (runner.complete).
CountersNeverAhead ==
  \A a \in Apps :
    marked[a] # 0 /\ deployed[a] = [rev |-> rev[a], projectRev |-> projectRev] =>
      /\ ran[marked[a]].fields = config[a].fields
      /\ ran[marked[a]].service = config[a].service
      /\ ran[marked[a]].project = project

\* A configuration redeploy whose repository and branch are unchanged carries the
\* artifact that serves traffic, also after a rollback and whatever was created
\* while it waited for the application row (createConfigurationRedeployment).
RedeployKeepsArtifact ==
  [][\A a \in Apps : RedeployInsert(a) /\ Settled(a) /\ ~SourceChanged(a, slots[a].active) =>
       rows'[Len(rows')].artifact = rows[host[a].active].artifact]_vars
=============================================================================
