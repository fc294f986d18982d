---------------------------- MODULE ServiceRemoval ----------------------------
(***************************************************************************)
(* Deletion of a service: what the handler plans from the database, what   *)
(* it takes down on the host over SSH, and what it then deletes, while     *)
(* deployments and routes of the same service come and go.                 *)
(*                                                                         *)
(* One server.  A stack on the host is a compose project; its name is the  *)
(* slug of the application's name and, for blue/green, "-" and the color,  *)
(* so that two applications can share one although their slugs differ.     *)
(* Nothing ties the three steps of a deletion together: only the last one  *)
(* is a transaction.                                                       *)
(***************************************************************************)
EXTENDS Naturals, Sequences, FiniteSets

CONSTANTS
  Apps,           \* applications
  Names,          \* application names
  Slug,           \* projectSlug of each application name, split at "-"
  Domains,        \* domains
  NoApp,          \* no application
  NoName,         \* no name
  MaxRequests     \* bound: deployments created, applications changed and routes saved

ASSUME ServiceRemovalAssumption ==
  /\ NoApp \notin Apps /\ NoName \notin Names
  /\ \A n \in Names : Slug[n] \in Seq(STRING) /\ Slug[n] # <<>>
  /\ MaxRequests \in Nat

\* COMPOSE_PROJECT_NAME: the slug, or the slug and "-" and the color.
Variants == {"rolling", "blue", "green"}
Suffix(variant) == IF variant = "rolling" THEN <<>> ELSE <<variant>>
ProjectName(n, variant) == Slug[n] \o Suffix(variant)
Projects(n) == {ProjectName(n, variant) : variant \in Variants}
Stacks == UNION {Projects(n) : n \in Names}
NoStack == <<>>
RouteStatuses == {"absent", "pending", "applied", "failed"}
NoRoute == [app |-> NoApp, status |-> "absent"]

VARIABLES
  app,      \* applications and whether they have deployments, one in progress
  run,      \* the runner's work on an application
  del,      \* the deletion request of an application and its plan
  tree,     \* host: applications whose remote directory holds their compose file
  stack,    \* host: application whose containers run in each compose project
  route,    \* proxy_routes
  proxied,  \* host: domains the proxy serves
  requests, \* history: deployments created, applications changed and routes saved
  up,       \* history: compose project each application last brought up
  raced,    \* history: applications that changed under a deletion of theirs
  aliased,  \* history: applications that shared a project name with another one, or
            \* were renamed with containers up
  hidden    \* history: domains the proxy serves though their row is pending

host == <<tree, stack>>
routes == <<route, proxied, hidden>>
vars == <<app, run, del, tree, stack, route, proxied, requests, up,
          raced, aliased, hidden>>

Unborn == [state |-> "unborn", name |-> NoName, has |-> FALSE, progress |-> "none"]
Idle == [pc |-> "idle", name |-> NoName]
NoPlan == [pc |-> "idle", name |-> NoName, has |-> FALSE, status |-> [d \in {} |-> "absent"]]
Request == requests < MaxRequests /\ requests' = requests + 1
Alive == {a \in Apps : app[a].state = "alive"}
Deleting(a) == del[a].pc # "idle"
Racing(a) == raced' = IF Deleting(a) THEN raced \cup {a} ELSE raced
RacingRoute(d, a) ==
  raced' = raced \cup {b \in Apps : Deleting(b) /\ (b = a \/ d \in DOMAIN del[b].status)}

(***************************************************************************)
(* The application row.                                                    *)
(***************************************************************************)
Namesakes(a, n) == {b \in Alive \ {a} : Projects(app[b].name) \cap Projects(n) # {}}
Clash(a, n) == IF Namesakes(a, n) = {} THEN {} ELSE Namesakes(a, n) \cup {a}

\* Nothing asks for a name whose projects no other application of the server has.
CreateApplication(a, n) ==
  /\ app[a].state = "unborn"
  /\ app' = [app EXCEPT ![a].state = "alive", ![a].name = n]
  /\ aliased' = aliased \cup Clash(a, n)
  /\ UNCHANGED <<run, del, host, routes, requests, up, raced>>

\* updateApplication: another name, another remote directory, or both.
UpdateApplication(a, n) ==
  /\ a \in Alive
  /\ Request
  /\ app' = [app EXCEPT ![a].name = n]
  /\ \/ tree' = tree \ {a}
     \/ tree' = tree /\ n # app[a].name
  /\ Racing(a)
  /\ aliased' = aliased \cup Clash(a, n)
                  \cup {b \in {a} : n # app[a].name /\ (up[a] # NoStack \/ run[a].pc # "idle")}
  /\ UNCHANGED <<run, del, stack, routes, up>>

(***************************************************************************)
(* Deployments, as far as a deletion can tell them apart.                  *)
(***************************************************************************)
CreateDeployment(a) ==
  /\ a \in Alive
  /\ app[a].progress = "none"
  /\ Request
  /\ app' = [app EXCEPT ![a].has = TRUE, ![a].progress = "queued"]
  /\ Racing(a)
  /\ UNCHANGED <<run, del, host, routes, up, aliased>>

CancelQueuedDeployment(a) ==
  /\ app[a].progress = "queued"
  /\ app' = [app EXCEPT ![a].progress = "none"]
  /\ UNCHANGED <<run, del, host, routes, requests, up, raced, aliased>>

\* StartQueuedDeployment, then GetDeploymentTarget.
Start(a) ==
  /\ app[a].progress = "queued"
  /\ run[a].pc = "idle"
  /\ app' = [app EXCEPT ![a].progress = "running"]
  /\ run' = [run EXCEPT ![a] = [pc |-> "sync", name |-> app[a].name]]
  /\ UNCHANGED <<del, host, routes, requests, up, raced, aliased>>

\* The first remote steps: the directory, and the repository with the compose file.
Sync(a) ==
  /\ run[a].pc = "sync"
  /\ tree' = tree \cup {a}
  /\ run' = [run EXCEPT ![a].pc = "up"]
  /\ UNCHANGED <<app, del, stack, routes, requests, up, raced, aliased>>

\* docker compose up in the project of the name loaded at the start.
ComposeUp(a) ==
  /\ run[a].pc = "up"
  /\ \E variant \in Variants :
       LET key == ProjectName(run[a].name, variant)
       IN  stack' = [stack EXCEPT ![key] = a] /\ up' = [up EXCEPT ![a] = key]
  /\ run' = [run EXCEPT ![a].pc = "finish"]
  /\ UNCHANGED <<app, del, tree, routes, requests, raced, aliased>>

\* complete, or fail at any step; the row may have been deleted meanwhile.
FinishRun(a) ==
  /\ run[a].pc # "idle"
  /\ run' = [run EXCEPT ![a] = Idle]
  /\ app' = [app EXCEPT ![a].progress = "none"]
  /\ UNCHANGED <<del, host, routes, requests, up, raced, aliased>>

(***************************************************************************)
(* Routes.  ProxyRoutes models their commands; here a command is a step.   *)
(***************************************************************************)
\* CreateProxyRoute: an upsert, which may take the domain from another application.
SaveRoute(a, d) ==
  /\ a \in Alive
  /\ route[d] # [app |-> a, status |-> "pending"]
  /\ Request
  /\ route' = [route EXCEPT ![d] = [app |-> a, status |-> "pending"]]
  /\ hidden' = IF d \in proxied THEN hidden \cup {d} ELSE hidden
  /\ RacingRoute(d, a)
  /\ UNCHANGED <<app, run, del, host, proxied, up, aliased>>

\* A manual apply, or the routes of a deployment.  The status may stay as it was: the
\* statement that would record the outcome fails, the process dies, or a deployment has
\* put the route on the host and back to the upstream of its row.
ApplyRoute(d) ==
  /\ route[d].status # "absent"
  /\ \/ /\ route' = [route EXCEPT ![d].status = "applied"]
        /\ proxied' = proxied \cup {d}
        /\ hidden' = hidden \ {d}
     \/ /\ route' = [route EXCEPT ![d].status = "failed"]
        /\ proxied' \in {proxied, proxied \cup {d}}
        /\ hidden' = hidden \ {d}
     \/ /\ route' = route
        /\ proxied' = proxied \cup {d}
        /\ hidden' = IF route[d].status = "pending" THEN hidden \cup {d} ELSE hidden
  /\ RacingRoute(d, route[d].app)
  /\ UNCHANGED <<app, run, del, host, requests, up, aliased>>

(***************************************************************************)
(* deleteApplication.                                                      *)
(***************************************************************************)
GetApplicationDeletionState(a) ==
  [has |-> app[a].has, progress |-> app[a].progress \in {"queued", "running"}]

ListProxyRouteTargetsForApplication(a) ==
  LET mine == {d \in Domains : route[d].status # "absent" /\ route[d].app = a}
  IN  [d \in mine |-> route[d].status]

\* The routes of the plan that the proxy may serve and that are not removed yet.
ToRemove(a) == {d \in DOMAIN del[a].status : del[a].status[d] # "pending"}

\* The first command of cleanupApplication for a plan.
Cleanup(has) == IF has THEN "down" ELSE "routes"

\* prepareApplicationDeletion.
PrepareApplicationDeletion(a) ==
  /\ a \in Alive /\ ~Deleting(a)
  /\ ~GetApplicationDeletionState(a).progress
  /\ LET state == GetApplicationDeletionState(a)
     IN  del' = [del EXCEPT ![a] =
                   [pc |-> Cleanup(state.has), name |-> app[a].name, has |-> state.has,
                    status |-> ListProxyRouteTargetsForApplication(a)]]
  /\ UNCHANGED <<app, run, host, routes, requests, up, raced, aliased>>

\* Mutant: only the projects of a blue/green deployment.
ColorsOnly(n) == {ProjectName(n, color) : color \in {"blue", "green"}}

\* Mutant: docker compose down without a project name, whatever runs.
DownAll(n) == Stacks

\* The projects BuildComposeDownCommand takes down, the rolling one and both colors.
BuildComposeDownCommand(n) ==
  Projects(n)

\* It tests for the directory and the compose file first.
ComposeDown(a) ==
  /\ del[a].pc = "down"
  /\ a \in tree
  /\ LET down == BuildComposeDownCommand(del[a].name)
     IN  /\ stack' = [s \in Stacks |-> IF s \in down THEN NoApp ELSE stack[s]]
         /\ up' = [up EXCEPT ![a] = IF @ \in down THEN NoStack ELSE @]
  /\ del' = [del EXCEPT ![a].pc = "routes"]
  /\ UNCHANGED <<app, run, tree, routes, requests, raced, aliased>>

\* BuildRemoveCommand of the next route of the plan.
RemoveRoute(a, d) ==
  /\ del[a].pc = "routes"
  /\ d \in ToRemove(a)
  /\ proxied' = proxied \ {d}
  /\ del' = [del EXCEPT ![a].status[d] = "pending"]
  /\ UNCHANGED <<app, run, host, route, requests, up, raced, aliased, hidden>>

\* Mutant: the records go before the routes are off the host.
RoutesPlanned(a) == TRUE

\* Every planned route was removed, or never served.
RoutesRemoved(a) ==
  ToRemove(a) = {}

\* deleteApplicationRecords in one transaction.  Deployments and slots cascade; a
\* route the plan does not know keeps its row, without an application.
DeleteApplicationRecords(a) ==
  /\ del[a].pc = "routes"
  /\ RoutesRemoved(a)
  /\ app' = [app EXCEPT ![a] = [@ EXCEPT !.state = "deleted", !.has = FALSE, !.progress = "none"]]
  /\ route' = [d \in Domains |->
                 IF d \in DOMAIN del[a].status THEN NoRoute
                 ELSE IF route[d].app = a THEN [route[d] EXCEPT !.app = NoApp]
                 ELSE route[d]]
  /\ del' = [del EXCEPT ![a] = NoPlan]
  /\ UNCHANGED <<run, host, proxied, requests, up, raced, aliased, hidden>>

\* A command or a statement errs, the 2 minutes are over, or the process dies.
DeleteFails(a) ==
  /\ Deleting(a)
  /\ del' = [del EXCEPT ![a] = NoPlan]
  /\ UNCHANGED <<app, run, host, routes, requests, up, raced, aliased>>

(***************************************************************************)
(* The specification.                                                      *)
(***************************************************************************)
Init ==
  /\ app = [a \in Apps |-> Unborn]
  /\ run = [a \in Apps |-> Idle]
  /\ del = [a \in Apps |-> NoPlan]
  /\ tree = {}
  /\ stack = [s \in Stacks |-> NoApp]
  /\ route = [d \in Domains |-> NoRoute]
  /\ proxied = {}
  /\ requests = 0
  /\ up = [a \in Apps |-> NoStack]
  /\ raced = {}
  /\ aliased = {}
  /\ hidden = {}

Next ==
  \/ \E a \in Apps, n \in Names : CreateApplication(a, n) \/ UpdateApplication(a, n)
  \/ \E a \in Apps :
       \/ CreateDeployment(a) \/ CancelQueuedDeployment(a)
       \/ Start(a) \/ Sync(a) \/ ComposeUp(a) \/ FinishRun(a)
       \/ PrepareApplicationDeletion(a) \/ ComposeDown(a)
       \/ DeleteApplicationRecords(a) \/ DeleteFails(a)
  \/ \E a \in Apps, d \in Domains : SaveRoute(a, d) \/ RemoveRoute(a, d)
  \/ \E d \in Domains : ApplyRoute(d)

Spec == Init /\ [][Next]_vars

(***************************************************************************)
(* Properties.                                                             *)
(***************************************************************************)
\* The type invariant of the module.
TypeOK ==
  /\ app \in [Apps -> [state: {"unborn", "alive", "deleted"}, name: Names \cup {NoName},
                       has: BOOLEAN, progress: {"none", "queued", "running"}]]
  /\ run \in [Apps -> [pc: {"idle", "sync", "up", "finish"}, name: Names \cup {NoName}]]
  /\ \A a \in Apps :
       /\ del[a].pc \in {"idle", "down", "routes"} /\ del[a].name \in Names \cup {NoName}
       /\ del[a].has \in BOOLEAN
       /\ DOMAIN del[a].status \subseteq Domains
  /\ tree \subseteq Apps
  /\ stack \in [Stacks -> Apps \cup {NoApp}]
  /\ route \in [Domains -> [app: Apps \cup {NoApp}, status: RouteStatuses]]
  /\ proxied \subseteq Domains /\ hidden \subseteq Domains
  /\ requests \in 0..MaxRequests
  /\ up \in [Apps -> Stacks \cup {NoStack}]
  /\ raced \subseteq Apps /\ aliased \subseteq Apps

\* Containers of a deleted service are gone, whatever strategies it was deployed
\* with, however often its deletion failed half way, unless the service was renamed
\* while its containers ran or changed while the deletion was under way
\* (deleteApplication).
NoOrphanStack ==
  \A s \in Stacks :
    stack[s] # NoApp /\ stack[s] \notin raced \cup aliased => stack[s] \in Alive

\* A domain the proxy serves has a row, so that it can be removed, unless the row
\* was pending all the same when it was deleted (saved again, or put on the host by a
\* command whose outcome was not recorded or by an undone deployment, which
\* deleteApplication cannot tell from a route that was never applied), or a service
\* changed under a deletion.
NoOrphanRoute ==
  raced = {} => \A d \in proxied : route[d].status = "absent" => d \in hidden

\* Each application's containers stay those it last brought up until its own
\* deletion takes them down: neither a deployment nor a deletion of another
\* application touches them, as long as no two share a project name (web in blue and
\* web-blue do) and no service changes under its deletion.
EachKeepsItsStack ==
  raced = {} /\ aliased = {} => \A a \in Alive : up[a] # NoStack => stack[up[a]] = a
===============================================================================
