# Deploy Manager: TLA+ specifications

Deploy Manager is a control plane, written in Go, that deploys Docker Compose
applications to servers over SSH. It keeps its state in PostgreSQL, hands work to
a background worker through a Redis list, and on the target host drives
`docker compose` and a reverse proxy. These modules specify the parts where the
order of steps, a crash or a failed call can do damage; TLC checks them on small
instances and TLAPS proves the main results for all instances.

    tlc -config DeploymentQueue.cfg MCDeploymentQueue      # a run
    tlapm DeploymentQueueProofs.tla                        # the proofs

## 1. Inventory

| component | state | operations | talks to | what makes it correct |
|---|---|---|---|---|
| deployment handlers (`httpapi/deployments.go`) | `deployments` rows | create, retry, rollback, cancel, enqueue, mark enqueue failed | PostgreSQL, Redis | one row in progress per application; a row is pushed, or recovered later; outcomes are final; a retry repeats, a rollback restores what it names |
| queue and worker (`deployments/queue.go`, `cmd/server/main.go`) | Redis list, one goroutine per process | recover interrupted, recover queued, pop, handle | PostgreSQL, Redis, runner | a row runs at most once; none is stranded; an interrupted one is failed |
| runner (`runner.go`, `remote_steps.go`) | `application_deployment_slots`, `proxy_routes`, `applications.status` | deploy, rollback, switch singletons, apply routes, activate, compensate | SSH host, PostgreSQL | traffic only to checked containers; singletons never twice; a failed run leaves the old color in charge |
| proxy commands, manager and API (`internal/proxy`, `httpapi/proxy.go`) | route files on the host, `proxy_routes` | save, apply, delete, promote a route | SSH host, PostgreSQL | the row and the host agree |
| log bus and log stream (`logbus.go`, `deployment_logs.go`) | `deployment_logs`, Redis pub/sub | append, publish, stream with resume | Redis, browsers | no line lost or doubled between history and live messages |
| build loop (`builds.go`, `github.go`, `replay_cache.go`) | `build_runs`, replay cache | webhook, dispatch, complete build, auto-deploy | GitHub, handlers | a delivery and a build lead to one deployment of each application they concern |
| configuration redeploy (`configuration_redeploy.go`, variables) | revisions and snapshots | edit, redeploy a service or a project | handlers, runner | a change is deployed or shown as pending |
| applications, projects (`applications.go`, `projects.go`) | their tables, stacks on the host | create, update, move, import, delete with remote cleanup | SSH host, GitHub | the tree is whole; a deletion leaves nothing on the host |
| developer users (`server_dev_users.go`) | `server_dev_sudo_users`, a file, sudoers and groups on the host | add, rename, delete, apply | SSH host | table and host agree; access is revoked |
| connectors and credentials (`connectors.go`, `connector_sync.go`, `github_repositories.go`, `credential_inventory*.go`) | `connector_accounts`, `credentials` and their permissions and usages | save, install, repository sync, credential sync, import | GitHub, PostgreSQL | a status is about what was imported; imports do not mix; targets are kept |
| servers, checks, commands, terminal, rate limit, migrations, notifications, audit log, SSH client, web interface | see "Not modelled" | | | |

PostgreSQL and Redis are not updated together, every call can fail after it took
effect, the worker is killed by every self-deployment, remote commands have no
timeout, compensation ignores errors, and almost every handler reads, calls out and
writes back without a lock. The list of what that can lead to, with the line where it
bites, is `hazards` in `PROJECT.json`.

## 2. Modules

| module | models | composed with |
|---|---|---|
| `DeploymentQueue` | handlers, Redis list, worker processes | implements `DeploymentLifecycle` (INSTANCE) |
| `DeploymentLifecycle` | what the deployments table promises | |
| `BlueGreen` | one run of the blue/green strategy, deploy and rollback | is one `Deploy` step of the queue |
| `DeploymentArtifact` | what a deployment builds, pulls and records as rollback point | rows as in the queue, slots as in `BlueGreen` |
| `ConfigRedeploy` | edits, snapshots, revision counters, the redeploy flag | rows, slots and runs of one project |
| `ServiceRemoval` | deletion of a service on the host and in the tables | deployments and routes of the same services |
| `ProjectTree` | projects, environments, services | |
| `ProxyRoutes` | saving, applying, deleting and promoting routes | requests and the worker on one host |
| `BuildLoop` | push webhook, builds, callbacks | |
| `LogStream` | the log bus and the event stream | |
| `DevUsers` | developer users of a server | |
| `CredentialInventory` | the transactions of an inventory import | |
| `ConnectorAccounts` | the GitHub account, its listings and syncs | extends `CredentialInventory`: the import of a sync is one of its transactions |
| `DeploymentQueueProofs`, `BlueGreenProofs`, `ConfigRedeployProofs`, `BuildLoopProofs`, `ProxyRoutesProofs` | theorems about the module of that name | |
| `DeploymentRecordProofs` | theorems about `DeploymentArtifact` and `LogStream` | |
| `OperatorProofs` | theorems about `ServiceRemoval`, `ConnectorAccounts`, `CredentialInventory` | |
| `AdministrationProofs` | theorems about `ProjectTree` and `DevUsers` | |
| `MC*` | what TLC's runs start from: symmetry and bounded inputs | |

One action is one SQL statement, one Redis command, one remote command or one page of an
API with the Go code up to the next one. A call that can fail has an action, or a disjunct,
for its failure, with and without the effect having happened.
A variable that says what happened (`stale`, `raced`, `upset`, `blurred`, ...) is history: no
guard reads it, and properties use it to say exactly what they tolerate.

**DeploymentQueue.** `status`, `application` are columns of `deployments`, `appStatus` of
`applications`, `queue` is the Redis list. `request[d]` is what the handler that inserted
row `d` has still to do, `pc[w]`, `current[w]`, `todo[w]` are a worker process.
`StopProcess` kills a worker anywhere; SIGTERM is the same, since the cancelled context
fails every later call. All callers that create rows (create, retry, rollback, webhook,
build completion, configuration redeploy) are `CreateDeployment`, which the partial unique
index guards; `RetryDeployment` has its own guard. Row ids are numbers in `created_at` order.

**BlueGreen.** One application on one server, with or without singleton services
(`hasSingletons`, fixed). `slot`, `slotDep` are `application_deployment_slots`, `routeUrl`,
`routeStatus` are `proxy_routes` with `upstream_url` as the color it points to. On the host,
`stack[c]` is the deployment whose containers color `c` runs, `checked` whether these
have passed a health check, `single` whether its singletons run. A Caddy route
command writes its own file and reloads all of them: `file` and `live`. `undo` holds the
compensating commands of `rollbackProxyRoutes` and `restoreSingletonServices`, whose
errors nobody looks at. `failedAt` and `crashedAt` record at which calls something went
wrong; `"lost"` marks a call that took effect and reported an error, `"partial"` a route
command that wrote its file and did not reload. Assumed: both color upstreams of a route are
set and `upstream_url` starts as blue; the slot is tracked (`blueGreenSlotTracked`), which
holds once an image or a commit is known. Everything before `docker compose up` changes
nothing these properties see: its failures are the first disjunct of `UpFails`. A command
cut off by a crash is taken to have happened, or not, before the next run.

**DeploymentArtifact.** `head` is the branch, `tree` the checkout on the host, `deps` the rows
with `commit` and `image`, `containers[c]` what color `c` runs, `slots[c]` the identity the table gives
it. One worker runs row `cur`. A request posts a deployment of any trigger, also `rollback` with any
image; its enqueue can fail as long as the row is in `posting`, and the row is then marked failed whatever
it is by now, also while the worker runs it. A request of the rollback endpoint (`restores`) reads the
standby slot and inserts in a second step. `built`, `pulled` and `switched` (history) are what each
deployment really built, pulled and made active; `mislabelled` are colors whose containers a run has
replaced and not recorded, `early` retries of a row that the worker still ran, `stale` rollbacks whose
slot changed before their insert or was mislabelled.

**ConfigRedeploy.** A configuration is four pieces (source, fields, service variables, project
variables) with a value each. `rows[d].snapshot` is what `CreateDeployment` stores, `ran[d]`
(history) what the runner read in its three statements. Init has an application with and
without a deployment from before migration 034. Slots are told apart by their role only.

**ServiceRemoval.** `stack` maps compose project names to the application whose containers run
under them, `proxied` is what the proxy serves. A project name is the slug of the application, split at
its dashes, and the color: web in blue and a service web-blue are one project. A deletion is: plan (`del`),
`docker compose down` of the three projects of its name, route removals one by one, one transaction. Nothing
keeps names apart, and a service may be renamed while it runs; `aliased` and `raced` remember it. `hidden`
are domains the proxy serves though their row is pending: saved again, applied by a command whose outcome
was not recorded, or put back by an undone run.

**ProxyRoutes.** `row` is `proxy_routes`, `file` and `live` the host. `proxy`, fixed, is Caddy with
a file per route, Caddy with one shared file which a script reads and rewrites as a whole, Traefik,
where a file is live at once, or none. A request applies or deletes, the worker applies all routes of
the application, promotes them, or undoes them. The UPDATE that promotes can commit and its reply be lost:
the table then has the new upstream and the host goes back. `blurred` are domains two actors worked on at
once or where a promotion, a deletion, a compensation or a process failed half way.

**BuildLoop.** Deliveries, the replay cache (`seen`), request goroutines that walk over their
applications (`handler`), `build_runs`, and a bag of callbacks on their way. `config`, fixed, is one of five
installations in the run and any in the proofs: applications with their directories, connectors with
their entries, whether the server has a GitHub App (`githubApp`) and the push a readable repository
(`repoNamed`); without either `tryBuildDispatch` deploys from source whatever the paths. An entry gives its
application by id, by name (`byName`) or not at all; a build an operator starts for one without an id
belongs to no application and is deployed to all of the repository. A path and a filter are sequences of the
segments between slashes, and `pathFilterMatches` trims them as the code does. `OnlyAffected` is stated
with `Covers`, what a filter stands for, which shares nothing with the trimming. An entry without filters is
for every path, or for the directory of the compose file when it names no application: `OnlyAffected` is about
each entry's filters (`FilterSets`), and not about their union, which is false beside an entry that is
for every path. An insert or an update can fail with its effect or without (`CreateFails`,
`autoDeployFails`, `DispatchFails`). GitHub is external: a workflow ends, is re-run and reports again, or its
callback is lost.

**LogStream.** A line is its id. The runner stores and publishes in two steps; the handler
subscribes, reads the history and forwards what the channel delivers. `redis`, fixed, says which
bus: over Redis the subscription takes effect at a later moment. An insert can be done and its answer lost, so
that the line is published without its id, and a line can fail to be published (`PublishFails`): Redis
refuses it, which nobody looks at, or the worker dies first. `missed` (history) are lines that were
not published to a stream which had read its history, and lines beyond the history limit.

**DevUsers.** `db`, `file`, `sudoers`, `groups` are the four places a user is in; the script grants,
writes and revokes in steps, may stop after any and goes on when its request has timed out. `call[r]`
is what request goroutine `r` has read and where its script is.

**ProjectTree.** Tables as functions on their existing ids; a handler that checks and then writes is
two actions. Foreign keys are guards of the deleting statements.

**ConnectorAccounts, CredentialInventory.** `account` is the row whose `config` holds the build
targets, `listed` the repositories of the installation, read page by page. A credential sync makes a
batch from the account it read and runs it as a transaction: `lock` are row locks, `tx` what a
transaction has still to do, `facts` permissions and usages as committed. The endpoints import
other batches at the same time, and the registration of a server (`CreateServerWithSSHInventory`) adds to
the facts of its key in one statement; PostgreSQL (external) breaks deadlocks. A commit whose answer is lost
is a failed import.

## 3. Runs

| run | instance | shows |
|---|---|---|
| `queue` | 2 applications, 1 worker, 2 rows, 2 crashes, fairness | `NoneStranded`, `WorkerOwnsRow`, `AppStatusIsLastOutcome`, `OutcomeIsFinal`, `QueuedIsServed`, `RunningEnds` |
| `queue_two_workers` | 1 application, 2 workers, 2 rows, 2 crashes, 1 failed call | `OneInProgress`, `OneWorkerPerDeployment`, `RunsAtMostOnce`, `ImplementsLifecycle` |
| `blue_green` | with and without singletons, 2 routes, 4 runs, 2 crashes, 2 failed calls | `SlotsAreUnambiguous`, `NoSingletonOverlap`, `TrafficOnlyToChecked`, `EveryRunSettles` |
| `config_redeploy` | 1 application, 2 values, 3 rows, 2 edits | `FlagFollowsDrift`, `CountersNeverAhead`, `RedeployKeepsArtifact` |
| `service_removal` | 2 applications, 3 names of which 2 share a project, 1 domain, 3 requests (deployments, changes, saves) | `NoOrphanStack`, `NoOrphanRoute`, `EachKeepsItsStack` |
| `proxy_routes` | 4 kinds of proxy, 2 domains, a request and the worker, 2 saves, 1 failure | `AppliedIsLive`, `NoOrphanRoute` |
| `build_loop` | 5 installations, 2 handlers, 2 deliveries of a push, 2 runs of a workflow, cache of 1 | `OneDeploymentPerBuild`, `RedeliveryStartsNothing`, `OnlyAffected`, `AcceptedIsComplete` |
| `dev_users` | 3 users and an invalid name, 3 requests, 2 at a time, 2 failures | `SettledAgrees`, `AccessIsRevoked` |
| `log_stream` | both buses, 5 lines, channel of 2, history of 3, 2 broken connections, fairness | `NeverRepeatsOrReorders`, `NoSilentGap`, `EveryLineArrives` |
| `project_tree` | 2 projects, 3 environments, 2 services, 4 requests, 2 at a time | `NothingDangles`, `ProductionStays`, `ServicesAreNotSwept` |
| `connectors` | 2 repositories, pages of 1, 2 requests, 3 saves, 1 import of another batch, registrations of a server, 1 change of the listing, 1 failure | `OkMeansImported`, `InventoryIsOneImport`, `SyncKeepsTargets` |
| `deployment_artifact` | 2 commits, 1 image, 3 deployments, 2 failures | `RecordedIsBuilt`, `RetryRepeats`, `RollbackRestoresNamed` |

Each module also states its type invariant. It is proved for all of them (section 4), so the runs spend
their properties on the hazards.

**Bounds.** Each instance is the least in which the cases its properties are about happen.
Queue: two rows are a deployment and its retry, or one of each application, which the recovery limit and
the order of the list need; two crashes let a worker die during its recovery from the first.
Blue/green: two routes are the least for "applied", "failing" and "not reached" to differ; four runs
are two to fill both colors, one that fails, one that meets what it left. Redeploys: two edits
can be made and taken back, three rows are two colors and a redeploy. Removal: one domain that both
services want, and names that both may get, that share a project and that do not. Routes: two, so that one can be applied and the other
fail; a shared file has no failing call, since its interleaved reads already multiply the states.
Build loop: a cache of one is at its limit with the second push; the filters of the monorepo have slashes
before and after them, a wildcard and none. Logs: five lines overrun channel and
history. Connectors: two credentials are what a deadlock needs, a third is the key of a server, pages of one are what a
shifted listing needs. Artifacts: three deployments are two colors and a rollback, or a row marked
failed under the worker, its retry and what follows.
Deadlock is not checked: with the bounds used up every system rests. Symmetry is used for values
that no formula tells apart, and never in a run with a liveness property.

**Fairness.** `FairSpec` of the queue: a handler's and a worker's next step are weakly fair, since
goroutines are scheduled and the supervisor (`restart: unless-stopped`) starts a process that is
down. `Deploy` has no fairness because a remote command has no timeout; the liveness
properties assume in their statement that no worker stays in `deploying` for ever.
`LiveSpec` of the log: a worker with a stored line publishes it, fails to or dies, the handler and the
network move, and the browser's EventSource reconnects. Users, crashes, failures and GitHub are never forced.

**What the properties tolerate.**

* `OneInProgress`, `RunsAtMostOnce`, `OneWorkerPerDeployment`, `ImplementsLifecycle`,
  `SlotsAreUnambiguous`, `NothingDangles`, `ProductionStays`, `ServicesAreNotSwept`,
  `OneDeploymentPerBuild`, `NeverRepeatsOrReorders`, `CountersNeverAhead` hold whatever fails or
  interleaves, as does `InventoryIsOneImport`, which counts the servers registered since the import.
* `RecordedIsBuilt` leaves out the slot of a color whose containers a failed run has replaced
  (`mislabelled`). `RetryRepeats` leaves out the commit of retries made while the worker still ran the row
  they copy, which only an enqueue error makes possible (`early`).
* `NoneStranded` tolerates crashes and not failed calls: a request that dies after its INSERT
  does leave a row until the next restart, as does a failed status update. It needs at most
  `RecoveryLimit` applications.
* `WorkerOwnsRow`, `OutcomeIsFinal`, `AppStatusIsLastOutcome` also need the documented single
  worker (`ops/self-deploy/README.md`): a second one that starts fails the first one's row.
  A failed call breaks them because `markDeploymentEnqueueFailed` writes whatever the status.
* `NoSingletonOverlap` tolerates crashes and all failures but those of stopping the old
  color and of a compensating command. `TrafficOnlyToChecked` tolerates everything before the
  first route command. `EveryRunSettles` tolerates calls rejected outright, one of the
  compensation excepted; it does not hold after a lost reply, after a route command that wrote
  its file and failed (the reload of a later rollback command activates the file), or after a
  failed activation in a run that has no color to go back to.
* `FlagFollowsDrift` leaves out deployments that were edited under between their creation and their
  run (`touched`). `NoOrphanStack`, `EachKeepsItsStack` leave out services that share a project name
  or were renamed while they ran (`aliased`), and with `NoOrphanRoute` those that changed under their
  deletion (`raced`). `NoOrphanRoute` leaves out routes that are served while their row is pending (`hidden`),
  which a deletion skips.
* `AppliedIsLive`, `NoOrphanRoute` of the routes need one actor at a time on a domain, and none that
  failed half way, until an actor alone has applied the route again.
* `RedeliveryStartsNothing` counts how often the cache lost an id. `AcceptedIsComplete` and
  `OnlyAffected` leave out what met a database error (`upset`); `OnlyAffected` also source deployments of a
  server without a GitHub App or a readable repository, and operators' builds of no application. A failed
  dispatch counts as started, and a delivery that ends with an error is never accepted.
* `SettledAgrees` and `AccessIsRevoked` are about the state after a request that ran alone and
  succeeded, whatever came before; users granted by a request that failed keep their groups.
* `NoSilentGap`, `EveryLineArrives` leave out `missed` lines.
* `OkMeansImported`, `SyncKeepsTargets` leave out requests overtaken by another write of the
  account (`stale`, `unsure`). `RollbackRestoresNamed` leaves out `stale` rollbacks and is about
  those of the rollback endpoint: a posted one activates the standby slot whatever it names.

### Disagreements with the documentation

Met while modelling. Each is an exception some property states, or a hazard with a note.

* README.md:136, "recovers queued/interrupted work on startup": at most 100 rows, once per process
  (the premise of `NoneStranded`).
* runner.go:724, the slot stores "the identity ... so a later rollback knows what to restore": a
  candidate that failed its health check has replaced the standby containers and the slot still
  names the deployment before it; a rollback activates the candidate under the old name.
* examples/workflows-server-blue-green/README.md:49, "starts the inactive color": after a
  crash between the first route command and the activation, the color the table calls standby
  serves traffic, and the next deployment replaces its containers (`CleanCutover`).
* db/core_sql_test.go:59, the redeploy state "must compare the current configuration with the deployed
  snapshot": the snapshot is taken when the row is created, the runner reads later (`touched`).
* docs/prosights-internal-monorepo.md:86, "Each application remains a compose stack": slugs are
  not unique, and with its color one is another service's; remote_steps.go:570, "stops every project name an application may have used": not
  those of an earlier name (`aliased`).
* applications.go:175, "wait for or cancel the active deployment": the check is made once, before the
  remote cleanup (`raced`); and a service whose only deployment was cancelled has no directory, so
  that its deletion fails.
* docs/prosights-internal-monorepo.md:75, "dispatches builds only for affected apps": without a GitHub App, or
  when the repository's name cannot be read, every application is deployed from source whatever the
  paths; :82, "deploys only the application tied to that build id": a build an operator starts for an entry
  that gives its application by name is tied to none and deployed to all (`OnlyAffected`).
* github.go:300-302 means a filter of wildcards only to match everything; the slashes are trimmed before,
  so that `**` and `/**` are compared as a name and match nothing.
* deployments.go:403-410 accepts a posted deployment with the trigger `rollback` and any image_ref; the
  runner activates the standby slot and never looks at the image (`RollbackRestoresNamed`).
* github.go:143-145, "configured image builds stay on GitHub Actions": when the connectors cannot be
  listed the application is built from source (`upset`).
* README.md:164, "A successful callback ... queues blue/green deployments": not for an
  application with a deployment in progress, and the callback is not repeated.
* server_dev_users.go:361-362, the file's users are provisioned: not after two overlapping requests.
* README.md:137 on live logs: a line published before Redis has handled the SUBSCRIBE is lost to
  that connection (`missed`).
* github_repositories.go:613-615: an import overwrites a repository of record set after it read the
  project; applications.go:93: an update writes back execution modes it read earlier.
* web/src project-detail.tsx:2476 says deleting a project takes its services; projects.go:93 refuses.
* github_repositories.go:210: a target saved during a repository sync is overwritten (`stale`).
* deployments.go:320-321, "a buildable or pullable source": the retry of a rollback to a source
  deployment pulls a commit (`RetryRepeats` says only that it pulls what that row names).

## 4. Proofs

`DeploymentQueueProofs`, from `ConstantsAssumption` (finite set of applications, bounds are
naturals), for any applications, workers and bounds:

* `TypeCorrect`: `Spec => []TypeOK`.
* `RowsCorrect`: `RowInv`, the inductive invariant about rows: which rows can be
  queued, running or executed, and that no application has two in progress. It is
  needed because `OneInProgress` is checked by the index on insert only: that no
  UPDATE revives a row has to be carried through every action.
* `Exclusive` and `ExecutesAtMostOnce`: `OneInProgress` and `RunsAtMostOnce` follow from it.
* `WorkersExclusive`: `OneWorkerPerDeployment`, since the statement that starts a row is the only
  way into execution and no row is started twice.
* `RefinesLifecycle`: `Spec => ImplementsLifecycle`; every action maps to `Submit`, `Begin`,
  `End` or a stutter under `phase <- Phase(status)`, `owner <- application`.

* `RowsAreOwned` and `OutcomesAreFinal`: `WorkerOwnsRow` and `OutcomeIsFinal`. Needed is `NoMarking`:
  without a failed call no handler is about to mark its row as failed, which is the one UPDATE
  that does not look at the status.
* `NoRowIsStranded`: `NoneStranded`, with at most `RecoveryLimit` applications, which is what it takes for
  a recovery to list every queued row. A row that only a worker held when it died is reachable
  through the next start of a worker: the invariant follows a row from the handler to the list, to the
  worker and, after a crash, to the recovery.
* `StatusIsLastOutcome`: `AppStatusIsLastOutcome`. Needed are that the row in progress is the newest of its
  application (`NewestInProgress`), and what holds between the UPDATE of the row and that of the
  application (`WorkerReports`, `OutcomeShown`).

`BlueGreenProofs`, from `BlueGreenAssumption`, for any number of routes, runs, crashes and
failed calls, with and without singletons:

* `BlueGreenTypeCorrect`: `TypeOK /\ RunInv`. `TypeOK` alone is not inductive: a
  compensating command has a color only because the run that plans it has one.
* `SlotsUnambiguous`: by `SlotInv`, a deployment records its slot only beside an active
  one or as the first, and activates only a slot that is recorded.
* `RunsKeepTheirColors`: `BaseInv`, which the next three share: a run comes from the
  color beside its target (`ColorInv`), and singletons run only in recorded colors (`SingletonInv`).
* `SingletonsNeverOverlap`: `NoSingletonOverlap`. `OverlapInv` adds that a plan of compensation stops the new
  color before it starts the old one, from whichever step it was made.
* `TrafficIsChecked`: `TrafficOnlyToChecked`. `ServedInv` and `CutoverInv` say where traffic can be in
  each step: on the active color, or on the target after its health check, route by route.
* `RunsSettle`: `EveryRunSettles`. `TowardInv` says how far a run has got towards its target, `BackInv` that
  what is left of a compensation plan leads back to the color the run came from.

`ProxyRoutesProofs`, from `ProxyRoutesAssumption` (finitely many domains, since a plan lists the routes
of an application), for any domains, requests, saves and failures and the four kinds of proxy:

* `RoutesTypeCorrect`; `AppliedRoutesAreLive` (`AppliedIsLive`) and `NoRouteIsLeft` (`NoOrphanRoute`) by
  `RoutesInv`. Neither is inductive: between the command and the UPDATE of the row the host is
  ahead of the table. `Sound` says what a row promises while nobody works on its route; for an actor at
  work, `KeptOf` that the row is the one it read and `HostOf` how far the host is with each route of its
  plan: promoted ones before the present one, untouched ones after it. `PairOf` says that routes two
  actors share are blurred, all of them with a shared file, as are those of a promotion that is undone
  although it was stored, and `SeenOf` that a script which has read the
  shared file knows it as it is. `AloneOf` is why an apply by one actor alone clears the blur.

`OperatorProofs` on `ServiceRemoval`, from `ServiceRemovalAssumption`, for any applications, names, domains and any
slug function: `ServiceRemovalTypeCorrect`, `DeletedStacksGo` (`NoOrphanStack`), `ServedRoutesKeepRows`
(`NoOrphanRoute`), `StacksAreKept` (`EachKeepsItsStack`). A deletion plans, works and writes in
statements that nothing ties together; `PlanInv` and `RouteInv` say that its plan stays true as long as
nobody changes the service and that a served domain has a row that is not pending or is `hidden`,
`StackInv` and `KeepInv` which project names can hold whose containers. A project name does not say whose
it is: that two services which are not `aliased` have no name in common is part of the invariant.

`ConfigRedeployProofs`, from `ConfigRedeployAssumption` (among others: "no snapshot" is not a
snapshot), for any applications, values, rows and edits: `ConfigRedeployTypeCorrect`; `FlagIsTrue`
(`FlagFollowsDrift`) by `SnapInv`, while a run still reads, what it reads is in its snapshot or its row is
`touched`; `CountersAreHonest` (`CountersNeverAhead`) by `CounterInv`, a run that loaded the counters of
now has read the configuration of now, as far as it has read, which is why the counters must be loaded
first; `RedeploysKeepArtifact` (`RedeployKeepsArtifact`) by `LockInv`, a redeploy that holds the
application row still has the candidate it looked up.

`OperatorProofs` on the connectors, from `ConnectorAssumption` and `BatchAssumption`, for any
repositories, configurations, batches, page sizes and concurrent requests:

* `ConnectorTypeCorrect`.
* `ImportsNeverMix`: `InventoryIsOneImport`. A transaction deletes what it sees and inserts in later
  statements, so the claim at its COMMIT is about statements long past: `LockInv` says that it has held the
  row of every credential it has stored, `FactInv` that what it deleted is therefore still all there is.
  `RegistrationInv` is the step of a server's registration, which waits for that lock too.
* `OkIsImported`: `OkMeansImported`, by `RequestOf` and `ImportOf`: a sync that is not stale works on the
  account as it is, and its batch has an item of every repository.
* `TargetsSurviveSync`: `SyncKeepsTargets`, by `ListingOf`, the pages read so far are the beginning of the
  listing, and by lemmas about `ConfigWithDefaults` for sequences of any length.

`DeploymentRecordProofs` on `DeploymentArtifact`, from `RefAssumption`, for any commits, images, requests and deployments:
`ArtifactTypeCorrect`; `CommitIsWhatRuns` (`RecordedIsBuilt`) by `BuildInv`, which follows the commit from
the checkout to the row, the images and the slot, though the row may be marked failed or be followed by
others while the worker is at it; `RetriesRepeat` (`RetryRepeats`) by `RetryInv`, the row a retry copied
keeps its commit unless the worker is still to record it; `RollbacksRestore` (`RollbackRestoresNamed`) by
`ColorInv`, there is one color a request can read and a run can switch to, and `RollbackInv`.

`DeploymentRecordProofs` on `LogStream`, from `LimitsAssumption`, for any number of lines and broken
connections, any size of the channel and the history, and both buses:

* `LogTypeCorrect`.
* `LinesComeInOrder`: `NeverRepeatsOrReorders` by `OrderInv`: what the browser has, what is on the wire and what
  waits in the channel is ordered, and `lastEventID` is ahead of the first two, which is why one comparison
  in the handler is enough.
* `NothingFallsBetween`: `NoSilentGap` by `GapInv`: a line up to `lastEventID` is with the browser, on the wire or
  missed, and while the stream is live a later one is in the channel, not yet published or missed (`Losses`:
  whatever keeps it from the bus). It needs
  that the handler subscribes before it reads the history.

`BuildLoopProofs`, from `ConfigAssumption` (an application is listed once; entries name applications
that exist), for any configurations, requests and cache size:

* `BuildLoopTypeCorrect`.
* `BuildsDeployOnce`: `OneDeploymentPerBuild` by `DepInv`: the UPDATE to `succeeded` has one winner, so that a
  build has at most one request that deploys it, and this one never meets an application twice.
* `RedeliveriesStartNothing`: `RedeliveryStartsNothing` by `CountInv`, an accounting: what a push has
  started for an application, and the requests that may still start it, are paid for by the id
  in the cache and by the times the cache has lost it.
* `OthersAreLeftAlone` and `AnsweredPushesAreDone`: `OnlyAffected` and `AcceptedIsComplete`. The first rests on
  `MatchIsCovered`: a filter that matches after the code's trimming (`TrimSlashesFacts`,
  `TrimSuffixFacts`) covers the path, for filters and paths of any length.

`AdministrationProofs` on `DevUsers`, from `UsersAssumption`: `DevUsersTypeCorrect`; `SettledRequestsAgree` and
`NobodyKeepsAccess` by an invariant that says, for a request that has met no other, what each
step of its script has made of file, sudoers and groups.

`AdministrationProofs` on `ProjectTree`, from `IdsAssumption`: `TreeIsWhole`, `ProductionIsKept` and
`OnlyDeletedServicesGo`, for any number of interleaved requests; the invariant adds that
ids are not reused and that a deletion under way named an environment that is not production.
`TreeTypeCorrect` needs `Prepared`: what a request carries from its checks to its write is fit to be
written, the merged execution modes in particular.

The inductive invariants were checked with TLC on the instances of section 3 before they were proved.

Two tools for sequences: what `FlattenSeq` computes and where a sequence has its first or last element of a
kind are shown without an induction scheme, by taking the least counterexample (`WFMin` of the library, with
`NatLessThanWellFounded`).

Only model-checked: `QueuedIsServed`, `RunningEnds` and `EveryLineArrives`. They are liveness properties under
fairness, which is out of the prover's reach. Every other property of the runs is a theorem. That the
actions are the code's is argued by the modules' comments and `map` in `PROJECT.json`, and is not proved.

## 5. Plan

Done: the modules of section 2, the runs of section 3, the proofs of section 4. What would come next: the rest
of the repository setup (workflow files and pull requests), and one module in which the worker's run is
`BlueGreen` instead of a single `Deploy` step, to prove that a crash between the two tables is seen by both.

### Not modelled

* SSH client and host keys, terminal, server commands and checks: they pass bytes between a
  request and a session and keep nothing. The missing command timeout is the fairness
  assumption of the queue; a command that outlives its request is modelled where it matters, in
  `DevUsers`.
* Servers API: a server is registered by one statement, whose effect on the credential inventory is
  modelled in `CredentialInventory`; what a check measures is stored by another one.
* Rate limit: one counter per address under one lock.
* Migrations: files in order under an advisory lock, each in its transaction; what could go wrong is
  PostgreSQL's.
* Notifications and audit log: best-effort output that nothing reads back.
* Clients of Doppler, Tailscale, OpenRouter and object storage: they read external
  services and return a list; the import of that list is modelled.
* GitHub App tokens, compose file discovery, webhook signature and payload parsing: pure
  functions of their input, without state or order.
* Text of shell commands, compose overrides, environment and proxy files: modelled by their effect.
  That `routeSlug` can map two domains to one file is not modelled: each domain has its own.
* Web interface: a client of the HTTP API. `internal/db` is generated from
  `db/queries/core.sql`; its statements are modelled where a module keeps what they change, the
  listings for the interface are not.
