------------------------------ MODULE BuildLoop ------------------------------
(* The build loop: a push webhook from GitHub, the builds it dispatches, the  *)
(* callback of a finished workflow and the deployments both of them create.   *)
(*                                                                            *)
(* Every application here has the pushed repository and branch and            *)
(* github_auto_deploy = true.  A push is its delivery id, its commit and the  *)
(* paths it changed.  A path, a path filter and the directory of a compose    *)
(* file are the segments between their slashes: "portal/**" is                *)
(* <<"portal", "**">> and "/portal/" is <<"", "portal", "">>.                 *)
(* Deliveries may be repeated, a workflow may be re-run and report again, its *)
(* callback may be lost, database and GitHub calls may fail, and the process  *)
(* may crash, which empties the replay cache.                                 *)
EXTENDS Naturals, Sequences, SequencesExt, FiniteSets, Bags

CONSTANTS
    Configurations, \* the configurations looked at, see below
    NoApp, NoPush,
    Handlers,       \* request goroutines
    CacheLimit,     \* newReplayCache(limit): 1024 in the server
    MaxRuns         \* bound: runs of a workflow

\* A configuration fixes what operators have set up and what is pushed:
\*   apps           the applications, ORDER BY name
\*   dir            [application -> directory of its compose file]
\*   healthChecked  applications whose health check URL suits blue/green
\*   withCompose    applications with a compose path
\*   githubApp      whether the server has a GitHub App
\*   repoNamed      whether the push names the repository in a form it can read
\*   accounts       the enabled GitHub connectors: sequences of entries; an entry
\*                  is for app, which it gives by its id or byName, or for NoApp
\*   changed        [push -> set of the paths it changed]
\* and the bounds maxDeliveries (of a push), maxBuilds, maxFaults, maxRestarts.
\* Every list of a configuration is a sequence, however long.
IsRowSequence(s) == s \in Seq(Range(s))
ASSUME ConfigAssumption ==
    /\ CacheLimit \in Nat \ {0} /\ MaxRuns \in Nat
    /\ \A c \in Configurations :
         /\ IsRowSequence(c.apps) /\ \A i, j \in DOMAIN c.apps : c.apps[i] = c.apps[j] => i = j
         /\ NoApp \notin Range(c.apps) /\ NoPush \notin DOMAIN c.changed
         /\ IsRowSequence(c.accounts) /\ \A i \in DOMAIN c.accounts : IsRowSequence(c.accounts[i])
         /\ c.maxDeliveries \in Nat
         /\ c.dir \in [Range(c.apps) -> Seq(STRING)]
         /\ \A p \in DOMAIN c.changed : c.changed[p] \subseteq Seq(STRING)
         /\ c.healthChecked \cup c.withCompose \subseteq Range(c.apps)
         /\ \A i \in DOMAIN c.accounts : \A j \in DOMAIN c.accounts[i] :
              /\ c.accounts[i][j].app \in Range(c.apps) \cup {NoApp}
              /\ c.accounts[i][j].filters \subseteq Seq(STRING)

VARIABLES
    config,     \* the configuration, fixed
    sent,       \* [push -> deliveries so far]
    seen,       \* the replay cache, oldest first
    handler,    \* [handler -> the request it serves and how far it is]
    builds,     \* build_runs, in the order of their creation
    calls,      \* bag of callbacks on their way
    deployments,\* bag of the deployments created
    open,       \* applications with a deployment queued or running
    faults, restarts,
    forgotten,  \* [push -> times the cache lost it]
    accepted,   \* pushes answered with their batch
    upset       \* <<app, push>> whose handling met a database error

vars == <<config, sent, seen, handler, builds, calls, deployments, open, faults,
          restarts, forgotten, accepted, upset>>
history == <<forgotten, accepted, upset>>

AppOrder == config.apps
Apps == Range(AppOrder)
Accounts == config.accounts
HealthChecked == config.healthChecked
WithCompose == config.withCompose
Changed == config.changed
Pushes == DOMAIN Changed

Idle == [pc |-> "idle", push |-> NoPush, build |-> 0, todo |-> <<>>]
BuildStatuses == {"dispatched", "failed", "succeeded", "cancelled"}

-----------------------------------------------------------------------------
\* Which applications a push affects, and how.

applicationPathFilters(a) == IF config.dir[a] = <<>> THEN {} ELSE {Append(config.dir[a], "**")}

\* strings.Trim(s, "/")
TrimSlashes(s) ==
    LET named == {i \in DOMAIN s : s[i] # ""}
    IN  IF named = {} THEN <<>> ELSE SubSeq(s, Min(named), Max(named))

\* Mutant: the last segment goes, wildcard or not.
TrimLast(s, wildcard) == IF Len(s) > 1 THEN Front(s) ELSE s

\* strings.TrimSuffix(s, "/" + wildcard)
TrimSuffix(s, wildcard) ==
    IF Len(s) > 1 /\ Last(s) = wildcard THEN Front(s) ELSE s

\* The filter or something below it.  A filter that is a wildcard alone has no
\* slash before it and is taken literally.
pathFilterMatches(filter, path) ==
    LET trimmed == TrimSlashes(filter)
    IN  /\ trimmed # <<>> /\ path # <<>>
        /\ IsPrefix(TrimSuffix(TrimSuffix(trimmed, "**"), "*"), path)

repositoryMatchesChangedPaths(filters, paths) ==
    filters = {} \/ \E f \in filters, p \in paths : pathFilterMatches(f, TrimSlashes(p))

repositoryTargetsApplication(entry, a) == entry.app \in {a, NoApp}

EntryFilters(entry, a) ==
    IF entry.filters = {} /\ entry.app = NoApp
    THEN applicationPathFilters(a) ELSE entry.filters

\* The entries of an account that target a.
Targets(account, a) ==
    {j \in DOMAIN account : repositoryTargetsApplication(account[j], a)}

\* The first of them, those made for the application before the others.
TargetEntry(account, a) ==
    LET own == {j \in Targets(account, a) : account[j].app # NoApp}
    IN  account[Min(IF own # {} THEN own ELSE Targets(account, a))]

Owners(a) == {i \in DOMAIN Accounts : Targets(Accounts[i], a) # {}}

\* The owning accounts whose entry matches the push.
githubConnectorBuildTarget(a, p) ==
    {i \in Owners(a) :
        repositoryMatchesChangedPaths(EntryFilters(TargetEntry(Accounts[i], a), a), Changed[p])}

\* What tryBuildDispatch decides: "build", "skip" or "source".  Without a GitHub App
\* or the repository's name it is "source", whatever the paths.  An entry without
\* image_ref only gives access to the source; any other ends the loop over accounts.
PushTarget(a, p) ==
    LET matched == githubConnectorBuildTarget(a, p)
        entry(i) == TargetEntry(Accounts[i], a)
        stops   == {i \in matched : ~entry(i).installed \/ entry(i).image}
        first   == entry(Min(stops))
    IN  IF ~config.githubApp \/ ~config.repoNamed THEN "source"
        ELSE IF stops # {}
        THEN IF first.installed /\ first.valid THEN "build" ELSE "skip"
        ELSE IF matched # {} THEN "source"
        ELSE IF Owners(a) # {}
                \/ ~repositoryMatchesChangedPaths(applicationPathFilters(a), Changed[p])
        THEN "skip" ELSE "source"

-----------------------------------------------------------------------------
\* SQL statements.

CreateBuildRun(a, p, manual) ==
    builds' = Append(builds, [app |-> a, push |-> p, status |-> "dispatched",
                              manual |-> manual, runs |-> 0, running |-> FALSE])

\* Mutant: the statement also updates a build that has succeeded.
CompleteAlways(b) == TRUE

\* UPDATE build_runs ... WHERE id = $1 AND status <> 'succeeded'
CompleteBuildRun(b) ==
    builds[b].status # "succeeded"

\* The unique index on deployments in progress refuses a second one.
CreateDeployment(a, p, b) ==
    /\ a \notin open
    /\ open' = open \cup {a}
    /\ deployments' = deployments (+) SetToBag({[app |-> a, push |-> p, build |-> b]})

\* The insert fails, or it is done and its answer lost, or the row is not queued:
\* it is then marked failed, unless that update fails as well.
CreateFails(a, p, b) ==
    \/ UNCHANGED <<deployments, open>>
    \/ /\ a \notin open
       /\ deployments' = deployments (+) SetToBag({[app |-> a, push |-> p, build |-> b]})
       /\ open' \in {open, open \cup {a}}

\* autoDeploy: the application of the build, or all of the repository's.
ListApplicationsForBuildComplete(b) ==
    IF builds[b].app = NoApp THEN AppOrder ELSE <<builds[b].app>>

-----------------------------------------------------------------------------
Fault ==
    /\ faults < config.maxFaults
    /\ faults' = faults + 1

\* The process dies: requests end where they are, the cache is empty again.
Restart ==
    /\ restarts < config.maxRestarts
    /\ restarts' = restarts + 1
    /\ seen' = <<>>
    /\ handler' = [h \in Handlers |-> Idle]
    /\ forgotten' = [p \in Pushes |-> IF p \in Range(seen) THEN forgotten[p] + 1
                                                          ELSE forgotten[p]]
    /\ UNCHANGED <<sent, builds, calls, deployments, open, faults, accepted, upset>>

\* Mutant: the oldest id is forgotten when the cache is full, not overfull.
RememberFewer(p) ==
    /\ seen' = IF Len(seen) + 1 >= CacheLimit THEN Tail(Append(seen, p))
                                             ELSE Append(seen, p)
    /\ UNCHANGED forgotten

\* replayCache.Seen for an id it does not hold: append, evict the oldest.
Remember(p) ==
    LET order == Append(seen, p)
        full  == Len(order) > CacheLimit
    IN  /\ seen' = IF full THEN Tail(order) ELSE order
        /\ forgotten' = IF full THEN [forgotten EXCEPT ![Head(order)] = @ + 1]
                                ELSE forgotten

\* githubWebhook up to its loop: GitHub delivers push p (again).
githubWebhook(h, p) ==
    /\ handler[h].pc = "idle"
    /\ sent[p] < config.maxDeliveries
    /\ sent' = [sent EXCEPT ![p] = @ + 1]
    /\ IF p \in Range(seen)
       THEN UNCHANGED <<seen, forgotten, handler>>
       ELSE /\ Remember(p)
            /\ handler' = [handler EXCEPT ![h] =
                 [pc |-> "push", push |-> p, build |-> 0, todo |-> AppOrder]]
    /\ UNCHANGED <<builds, calls, deployments, open, faults, restarts, accepted, upset>>

\* The next application of the batch.
PushApp(h, a) ==
    /\ handler[h].pc = "push"
    /\ handler[h].todo # <<>>
    /\ a = Head(handler[h].todo)

\* Mutant: an application that is skipped ends the batch.
StopBatch(h) ==
    handler' = [handler EXCEPT ![h].todo = <<>>]

NextApp(h) ==
    handler' = [handler EXCEPT ![h].todo = Tail(@)]

PushSkip(h, a) ==
    /\ PushApp(h, a)
    /\ \/ a \notin HealthChecked
       \/ PushTarget(a, handler[h].push) = "skip"
       \/ PushTarget(a, handler[h].push) = "source" /\ a \notin WithCompose
    /\ NextApp(h)
    /\ UNCHANGED <<sent, seen, builds, calls, deployments, open, faults, restarts, history>>

\* tryBuildDispatch inserts the build and goes on to call GitHub.
PushBuild(h, a) ==
    /\ PushApp(h, a)
    /\ a \in HealthChecked
    /\ PushTarget(a, handler[h].push) = "build"
    /\ Len(builds) < config.maxBuilds
    /\ CreateBuildRun(a, handler[h].push, FALSE)
    /\ handler' = [handler EXCEPT ![h].pc = "dispatch", ![h].build = Len(builds) + 1,
                                  ![h].todo = Tail(@)]
    /\ UNCHANGED <<sent, seen, calls, deployments, open, faults, restarts, history>>

\* CreateBuildRun fails: the batch goes on without a word about it.  (When only
\* its answer is lost, see DispatchFails.)
PushBuildFails(h, a) ==
    /\ PushApp(h, a)
    /\ a \in HealthChecked
    /\ PushTarget(a, handler[h].push) = "build"
    /\ Fault
    /\ NextApp(h)
    /\ upset' = upset \cup {<<a, handler[h].push>>}
    /\ UNCHANGED <<sent, seen, builds, calls, deployments, open, restarts, forgotten, accepted>>

\* The source path: a deployment of the pushed commit.  It is also taken when
\* ListConnectorAccounts fails, whatever the connectors say.
PushSource(h, a) ==
    LET p == handler[h].push
    IN  /\ PushApp(h, a)
        /\ a \in HealthChecked /\ a \in WithCompose
        /\ \/ PushTarget(a, p) = "source" /\ UNCHANGED <<faults, upset>>
           \/ config.githubApp /\ Fault /\ upset' = upset \cup {<<a, p>>}
        /\ CreateDeployment(a, p, 0)
        /\ NextApp(h)
        /\ UNCHANGED <<sent, seen, builds, calls, restarts, forgotten, accepted>>

\* CreateDeployment is refused, or the queue does: an error answers the
\* request and the rest of the batch is not looked at.
PushSourceFails(h, a) ==
    LET p == handler[h].push
    IN  /\ PushApp(h, a)
        /\ a \in HealthChecked /\ a \in WithCompose
        /\ \/ PushTarget(a, p) = "source" /\ a \in open /\ UNCHANGED <<faults, deployments, open>>
           \/ PushTarget(a, p) = "source" /\ Fault /\ CreateFails(a, p, 0)
           \/ config.githubApp /\ Fault /\ a \in open /\ UNCHANGED <<deployments, open>>
        /\ handler' = [handler EXCEPT ![h] = Idle]
        /\ UNCHANGED <<sent, seen, builds, calls, restarts, history>>

PushReply(h) ==
    /\ handler[h].pc = "push"
    /\ handler[h].todo = <<>>
    /\ handler' = [handler EXCEPT ![h] = Idle]
    /\ accepted' = accepted \cup {handler[h].push}
    /\ UNCHANGED <<sent, seen, builds, calls, deployments, open, faults, restarts,
                   forgotten, upset>>

-----------------------------------------------------------------------------
\* dispatchGitHubBuild: an operator starts a build of an entry, which the request
\* names by application id, or not at all when the connector has one entry.  The
\* build is of the entry's application id: of none where the entry has no id.
dispatchGitHubBuild(h, p) ==
    /\ handler[h].pc = "idle"
    /\ config.githubApp
    /\ sent[p] > 0
    /\ Len(builds) < config.maxBuilds
    /\ \E i \in DOMAIN Accounts : \E j \in DOMAIN Accounts[i] :
         LET e == Accounts[i][j]
         IN  /\ e.installed /\ e.valid
             /\ e.app = NoApp \/ e.byName => Len(Accounts[i]) = 1
             /\ CreateBuildRun(IF e.byName THEN NoApp ELSE e.app, p, TRUE)
    /\ handler' = [handler EXCEPT ![h] =
         [pc |-> "dispatch", push |-> NoPush, build |-> Len(builds) + 1, todo |-> <<>>]]
    /\ UNCHANGED <<sent, seen, calls, deployments, open, faults, restarts, history>>

\* GitHub Actions (external): a run of the workflow begins.
WorkflowStarts(b) ==
    builds' = [builds EXCEPT ![b].running = TRUE, ![b].runs = @ + 1]

AfterDispatch(h) ==
    handler' = [handler EXCEPT ![h] = IF @.push = NoPush THEN Idle
                                      ELSE [@ EXCEPT !.pc = "push", !.build = 0]]

DispatchWorkflow(h) ==
    /\ handler[h].pc = "dispatch"
    /\ WorkflowStarts(handler[h].build)
    /\ AfterDispatch(h)
    /\ UNCHANGED <<sent, seen, calls, deployments, open, faults, restarts, history>>

\* GitHub refuses the dispatch, or its answer is lost after it started the
\* workflow: the build is completed as failed, unless that update fails too or
\* GitHub was not called, for the answer of the build's insert was lost.
DispatchFails(h) ==
    LET b == handler[h].build
    IN  /\ handler[h].pc = "dispatch"
        /\ Fault
        /\ \E started, marked \in BOOLEAN :
             builds' = [builds EXCEPT ![b].status = IF marked /\ CompleteBuildRun(b) THEN "failed" ELSE @,
                                      ![b].running = started,
                                      ![b].runs = IF started THEN @ + 1 ELSE @]
        /\ AfterDispatch(h)
        /\ UNCHANGED <<sent, seen, calls, deployments, open, restarts, history>>

-----------------------------------------------------------------------------
\* GitHub Actions (external): a run of the workflow ends and reports.
WorkflowEnds(b, status) ==
    /\ builds[b].running
    /\ builds' = [builds EXCEPT ![b].running = FALSE]
    /\ calls' = calls (+) SetToBag({[build |-> b, status |-> status]})
    /\ UNCHANGED <<sent, seen, handler, deployments, open, faults, restarts, history>>

\* Someone re-runs the workflow on GitHub with the inputs it had.
WorkflowRerun(b) ==
    /\ ~builds[b].running
    /\ builds[b].runs \in 1 .. MaxRuns - 1
    /\ WorkflowStarts(b)
    /\ UNCHANGED <<sent, seen, handler, calls, deployments, open, faults, restarts, history>>

\* The report is one curl call without a retry.
CallbackLost(call) ==
    /\ Fault
    /\ calls' = calls (-) SetToBag({call})
    /\ UNCHANGED <<sent, seen, handler, builds, deployments, open, restarts, history>>

\* completeBuildRun: the update decides; a build that has already succeeded
\* is answered with no deployments.
completeBuildRun(h, call) ==
    LET b == call.build
    IN  /\ handler[h].pc = "idle"
        /\ calls' = calls (-) SetToBag({call})
        /\ IF CompleteBuildRun(b)
           THEN /\ builds' = [builds EXCEPT ![b].status = call.status]
                /\ handler' = IF call.status # "succeeded" THEN handler
                     ELSE [handler EXCEPT ![h] =
                       [pc |-> "deploy", push |-> NoPush, build |-> b,
                        todo |-> ListApplicationsForBuildComplete(b)]]
           ELSE UNCHANGED <<builds, handler>>
        /\ UNCHANGED <<sent, seen, deployments, open, faults, restarts, history>>

DeployApp(h, a) ==
    /\ handler[h].pc = "deploy"
    /\ handler[h].todo # <<>>
    /\ a = Head(handler[h].todo)

DeployNext(h) ==
    LET rest == Tail(handler[h].todo)
    IN  handler' = [handler EXCEPT ![h] =
          IF rest = <<>> THEN Idle ELSE [@ EXCEPT !.todo = rest]]

\* One application of autoDeploy: an error of any kind only skips it.
autoDeploy(h, a) ==
    LET b == handler[h].build
    IN  /\ DeployApp(h, a)
        /\ a \in HealthChecked
        /\ \/ CreateDeployment(a, builds[b].push, b) /\ UNCHANGED faults
           \/ Fault /\ CreateFails(a, builds[b].push, b)
        /\ DeployNext(h)
        /\ UNCHANGED <<sent, seen, builds, calls, restarts, history>>

\* The applications are not found, or the answer of the build's update is lost:
\* the build has succeeded and nothing is deployed.
autoDeployFails(h, a) ==
    /\ DeployApp(h, a)
    /\ handler[h].todo = ListApplicationsForBuildComplete(handler[h].build)
    /\ Fault
    /\ handler' = [handler EXCEPT ![h] = Idle]
    /\ UNCHANGED <<sent, seen, builds, calls, deployments, open, restarts, history>>

autoDeploySkip(h, a) ==
    /\ DeployApp(h, a)
    /\ a \notin HealthChecked \/ a \in open
    /\ DeployNext(h)
    /\ UNCHANGED <<sent, seen, builds, calls, deployments, open, faults, restarts, history>>

\* The worker finishes the application's deployment (DeploymentQueue).
DeploymentEnds(a) ==
    /\ a \in open
    /\ open' = open \ {a}
    /\ UNCHANGED <<sent, seen, handler, builds, calls, deployments, faults, restarts, history>>

-----------------------------------------------------------------------------
Init ==
    /\ config \in Configurations
    /\ sent = [p \in Pushes |-> 0]
    /\ seen = <<>>
    /\ handler = [h \in Handlers |-> Idle]
    /\ builds = <<>>
    /\ calls = EmptyBag /\ deployments = EmptyBag
    /\ open = {}
    /\ faults = 0 /\ restarts = 0
    /\ forgotten = [p \in Pushes |-> 0]
    /\ accepted = {} /\ upset = {}

Next ==
    /\ \/ Restart
       \/ \E h \in Handlers, p \in Pushes :
             githubWebhook(h, p) \/ dispatchGitHubBuild(h, p)
       \/ \E h \in Handlers, a \in Apps :
             \/ PushSkip(h, a) \/ PushBuild(h, a) \/ PushBuildFails(h, a)
             \/ PushSource(h, a) \/ PushSourceFails(h, a)
             \/ autoDeploy(h, a) \/ autoDeployFails(h, a) \/ autoDeploySkip(h, a)
       \/ \E h \in Handlers : PushReply(h) \/ DispatchWorkflow(h) \/ DispatchFails(h)
       \/ \E b \in DOMAIN builds :
             \/ WorkflowRerun(b)
             \/ \E s \in BuildStatuses \ {"dispatched"} : WorkflowEnds(b, s)
       \/ \E call \in BagToSet(calls) :
             CallbackLost(call) \/ \E h \in Handlers : completeBuildRun(h, call)
       \/ \E a \in Apps : DeploymentEnds(a)
    /\ UNCHANGED config

Spec == Init /\ [][Next]_vars

-----------------------------------------------------------------------------
\* The type invariant of the module.
TypeOK ==
    /\ config \in Configurations
    /\ sent \in [Pushes -> 0 .. config.maxDeliveries]
    /\ Len(seen) <= CacheLimit /\ Range(seen) \subseteq Pushes
    /\ \A h \in Handlers :
         /\ handler[h].pc \in {"idle", "push", "dispatch", "deploy"}
         /\ handler[h].push \in Pushes \cup {NoPush}
         /\ handler[h].build \in 0 .. Len(builds)
         /\ Range(handler[h].todo) \subseteq Apps
    /\ \A b \in DOMAIN builds :
         /\ builds[b].app \in Apps \cup {NoApp}
         /\ builds[b].push \in Pushes
         /\ builds[b].status \in BuildStatuses
    /\ open \subseteq Apps

Copies(d) == IF BagIn(d, deployments) THEN deployments[d] ELSE 0

\* However often a workflow reports, and however its reports, their requests
\* and crashes interleave, a build deploys to an application at most once.
OneDeploymentPerBuild ==
    \A d \in BagToSet(deployments) :
        d.build # 0 => Copies(d) = 1

PushBuilds(a, p) ==
    {b \in DOMAIN builds : builds[b].app = a /\ builds[b].push = p /\ ~builds[b].manual}
SourceDeployment(a, p) == [app |-> a, push |-> p, build |-> 0]

\* A delivery that is repeated, also while the first is still being served,
\* starts an application's build or source deployment once more only if the
\* replay cache has lost its id to its limit or to a restart in between.
RedeliveryStartsNothing ==
    \A p \in Pushes, a \in Apps :
        Cardinality(PushBuilds(a, p)) + Copies(SourceDeployment(a, p)) <= 1 + forgotten[p]

\* The path filters that speak for an application: those of the connector entries
\* that target it, or its own where there are none.  An empty set is every path.
FilterSets(a) ==
    LET entries == UNION {{Accounts[i][j] : j \in Targets(Accounts[i], a)} : i \in DOMAIN Accounts}
    IN  IF entries = {} THEN {applicationPathFilters(a)} ELSE {EntryFilters(e, a) : e \in entries}
\* What a filter stands for: segments i to j of it name a file or a directory, with
\* slashes before and slashes and wildcards after them, and the path, leading
\* slashes aside, is that file or is in that directory.
Covers(filter, path) ==
    \E i, j \in DOMAIN filter, k \in DOMAIN path :
        /\ i <= j /\ filter[i] # ""
        /\ \A n \in DOMAIN filter : n < i => filter[n] = ""
        /\ \A n \in DOMAIN filter : n > j => filter[n] \in {"", "*", "**"}
        /\ \A n \in DOMAIN path : n < k => path[n] = ""
        /\ k + j - i \in DOMAIN path
        /\ \A n \in 0 .. j - i : path[k + n] = filter[i + n]
Affects(p, a) ==
    \E filters \in FilterSets(a) :
        filters = {} \/ \E f \in filters, path \in Changed[p] : Covers(f, path)

\* A push builds single applications, and only those whose paths it changed.  It
\* deploys from source to no others, except where the server has no GitHub App,
\* cannot read the repository's name or failed to list the connectors.  A build
\* is deployed to the application it was made for, or, when an operator started
\* it for an entry without an application id, to those of the repository.
OnlyAffected ==
    /\ \A b \in DOMAIN builds : ~builds[b].manual =>
         builds[b].app # NoApp /\ Affects(builds[b].push, builds[b].app)
    /\ \A d \in BagToSet(deployments) :
         IF d.build = 0
         THEN \/ ~config.githubApp \/ ~config.repoNamed
              \/ <<d.app, d.push>> \in upset
              \/ Affects(d.push, d.app)
         ELSE \/ builds[d.build].app = d.app
              \/ builds[d.build].app = NoApp /\ builds[d.build].manual

\* A push that was answered with its batch has started something for every
\* application it asks for, unless an insert failed on the way.
AcceptedIsComplete ==
    \A p \in accepted, a \in HealthChecked :
        \/ PushBuilds(a, p) # {}
        \/ BagIn(SourceDeployment(a, p), deployments)
        \/ <<a, p>> \in upset
        \/ PushTarget(a, p) = "skip"
        \/ PushTarget(a, p) = "source" /\ a \notin WithCompose
=============================================================================
