--------------------------- MODULE OperatorProofs ---------------------------
(* Operations of a person beside the worker: deleting a service               *)
(* (ServiceRemoval) and keeping its credentials (ConnectorAccounts and        *)
(* CredentialInventory).                                                      *)
EXTENDS ServiceRemoval, ConnectorAccounts, SequenceTheorems, WellFoundedInduction,
        TLAPS

(***************************************************************************)
(* Proofs about ServiceRemoval, for any number of applications, names and  *)
(* domains and any slug function: what a deletion leaves on the host.      *)
(*                                                                         *)
(* A deletion reads, works and writes in three steps that nothing ties     *)
(* together, so the argument is about what stays true of its plan from the *)
(* first step to the last as long as the service is left alone (RunInv,    *)
(* PlanInv, RouteInv), and about which compose projects can hold whose     *)
(* containers (StackInv, KeepInv).                                         *)
(***************************************************************************)

\* Statuses of the planned routes, by domain.
Plans == UNION {[D -> RouteStatuses] : D \in SUBSET Domains}

\* Rows, runs and deletions.
AppRows == [state: {"unborn", "alive", "deleted"}, name: Names \cup {NoName},
            has: BOOLEAN, progress: {"none", "queued", "running"}]
RunRows == [pc: {"idle", "sync", "up", "finish"}, name: Names \cup {NoName}]
DelRows == [pc: {"idle", "down", "routes"}, name: Names \cup {NoName}, has: BOOLEAN,
            status: Plans]

\* The types of TypeOK, with the plan of a deletion as a record.
TypeInv ==
  /\ app \in [Apps -> AppRows]
  /\ run \in [Apps -> RunRows]
  /\ del \in [Apps -> DelRows]
  /\ tree \subseteq Apps
  /\ stack \in [Stacks -> Apps \cup {NoApp}]
  /\ route \in [Domains -> [app: Apps \cup {NoApp}, status: RouteStatuses]]
  /\ proxied \subseteq Domains /\ hidden \subseteq Domains
  /\ requests \in 0..MaxRequests
  /\ up \in [Apps -> Stacks \cup {NoStack}]
  /\ raced \subseteq Apps /\ aliased \subseteq Apps

\* An application that lives has a name, one that is deployed lives, and a run has
\* the name of its application unless that was deleted or renamed under it.
RunInv ==
  /\ \A a \in Apps : app[a].state = "alive" => app[a].name \in Names
  /\ \A a \in Apps : app[a].progress # "none" => app[a].state = "alive" /\ app[a].has
  /\ \A a \in Apps : run[a].pc # "idle" =>
       /\ run[a].name \in Names
       /\ a \notin raced => app[a].progress = "running"
       /\ a \notin raced \cup aliased => run[a].name = app[a].name

\* The plan of a deletion is still true of its application.
PlanInv ==
  \A a \in Apps : Deleting(a) /\ a \notin raced =>
    /\ app[a].state = "alive"
    /\ app[a].progress = "none"
    /\ del[a].name = app[a].name
    /\ del[a].has = app[a].has

\* Containers of an application are in the projects of its name, it lives and has
\* brought them up, and its deletion has them down before it goes on to the routes.
StackInv ==
  \A s \in Stacks : stack[s] # NoApp /\ stack[s] \notin raced \cup aliased =>
    LET a == stack[s]
    IN  /\ app[a].state = "alive"
        /\ app[a].has
        /\ up[a] # NoStack
        /\ s \in Projects(app[a].name)
        /\ del[a].pc # "routes"

\* A domain that is served has a row that says so, and so has one that a deletion
\* will not take off the host.
RouteInv ==
  /\ \A a \in Apps : ~Deleting(a) => DOMAIN del[a].status = {}
  /\ raced = {} =>
       /\ \A d \in proxied : route[d].status \in {"absent", "pending"} => d \in hidden
       /\ \A a \in Apps : \A d \in DOMAIN del[a].status :
            d \in proxied /\ del[a].status[d] = "pending" => d \in hidden

\* Project names differ, and what an application brought up is in its own project.
KeepInv ==
  raced = {} /\ aliased = {} =>
    /\ \A a \in Apps : app[a].state = "unborn" => up[a] = NoStack
    /\ \A a, b \in Alive : a # b => Projects(app[a].name) \cap Projects(app[b].name) = {}
    /\ \A a \in Alive : up[a] # NoStack =>
         up[a] \in Projects(app[a].name) /\ stack[up[a]] = a

\* What the arguments below share.
Inv == TypeInv /\ RunInv /\ PlanInv

-----------------------------------------------------------------------------
\* The histories only grow.
LEMMA HistoriesGrow ==
  ASSUME [Next]_vars
  PROVE  raced \subseteq raced' /\ aliased \subseteq aliased'
<1>1. CASE UNCHANGED vars BY <1>1 DEF vars
<1>2. CASE Next
  BY <1>2 DEF Next, CreateApplication, UpdateApplication, CreateDeployment, CancelQueuedDeployment,
       Start, Sync, ComposeUp, FinishRun, PrepareApplicationDeletion, ComposeDown,
       DeleteApplicationRecords, DeleteFails, SaveRoute, RemoveRoute, ApplyRoute, Racing, RacingRoute
<1> QED BY <1>1, <1>2

\* An upsert of a plan's entry is a plan, and so is what the query returns.
LEMMA PlansKeep ==
  /\ \A f \in Plans : DOMAIN f \subseteq Domains
  /\ \A f \in Plans : \A x : [f EXCEPT ![x] = "pending"] \in Plans
  /\ \A D \in SUBSET Domains : \A f \in [D -> RouteStatuses] : f \in Plans
<1>1. \A D \in SUBSET Domains : \A f \in [D -> RouteStatuses] : f \in Plans
  BY DEF Plans
<1>2. ASSUME NEW f \in Plans
      PROVE  /\ DOMAIN f \subseteq Domains
             /\ \A x : [f EXCEPT ![x] = "pending"] \in Plans
  <2>1. PICK D \in SUBSET Domains : f \in [D -> RouteStatuses] BY DEF Plans
  <2>2. \A x : [f EXCEPT ![x] = "pending"] \in [D -> RouteStatuses] BY <2>1 DEF RouteStatuses
  <2> QED BY <2>1, <2>2, <1>1
<1> QED BY <1>1, <1>2

\* The projects of a name, and the stack that is none.
LEMMA StackFacts ==
  /\ \A n \in Names, v \in Variants : ProjectName(n, v) \in Stacks
  /\ \A n : \A v \in Variants : ProjectName(n, v) \in Projects(n)
  /\ NoStack \notin Stacks
<1>1. \A n : \A v \in Variants : ProjectName(n, v) \in Projects(n) BY DEF Projects
<1>2. \A n \in Names, v \in Variants : ProjectName(n, v) \in Stacks BY <1>1 DEF Stacks
<1>3. ASSUME NEW n \in Names, NEW v \in Variants PROVE ProjectName(n, v) # NoStack
  <2> DEFINE S == STRING \cup Variants
  <2>1. Slug[n] \in Seq(S) /\ Slug[n] # <<>>
    <3>1. Slug[n] \in Seq(STRING) /\ Slug[n] # <<>> BY ServiceRemovalAssumption
    <3> QED BY <3>1
  <2>2. Suffix(v) \in Seq(S)
    <3>1. v \in S OBVIOUS
    <3> HIDE DEF S
    <3>2. <<>> \in Seq(S) /\ <<v>> \in Seq(S) BY <3>1
    <3> QED BY <3>2 DEF Suffix
  <2> HIDE DEF S
  <2>3. Len(Slug[n]) > 0 BY <2>1, EmptySeq
  <2>4. Len(Slug[n] \o Suffix(v)) = Len(Slug[n]) + Len(Suffix(v)) BY <2>1, <2>2
  <2>5. Len(Slug[n]) \in Nat /\ Len(Suffix(v)) \in Nat BY <2>1, <2>2
  <2> QED BY <2>3, <2>4, <2>5 DEF ProjectName, NoStack
<1>4. NoStack \notin Stacks BY <1>3 DEF Stacks, Projects
<1> QED BY <1>1, <1>2, <1>4

-----------------------------------------------------------------------------
\* Types, and the names of applications and runs.
LEMMA TypeStep ==
  ASSUME TypeInv, RunInv, Next
  PROVE  TypeInv'
<1> USE ServiceRemovalAssumption
<1>1. ASSUME NEW a \in Apps, NEW n \in Names, CreateApplication(a, n) PROVE TypeInv'
  <2>1. Clash(a, n) \subseteq Apps BY DEF Clash, Namesakes, Alive
  <2>2. app' \in [Apps -> AppRows]
    <3>1. app' = [app EXCEPT ![a] = [@ EXCEPT !.state = "alive", !.name = n]]
      BY <1>1 DEF CreateApplication
    <3>2. app[a] \in AppRows BY DEF TypeInv
    <3>3. [app[a] EXCEPT !.state = "alive", !.name = n] \in AppRows BY <3>2 DEF AppRows
    <3> QED BY <3>1, <3>3 DEF TypeInv
  <2> QED BY <1>1, <2>1, <2>2 DEF TypeInv, CreateApplication, host, routes
<1>2. ASSUME NEW a \in Apps, NEW n \in Names, UpdateApplication(a, n) PROVE TypeInv'
  <2>1. Clash(a, n) \subseteq Apps BY DEF Clash, Namesakes, Alive
  <2>2. raced' \subseteq Apps /\ aliased' \subseteq Apps /\ tree' \subseteq Apps
    BY <1>2, <2>1 DEF TypeInv, UpdateApplication, Racing
  <2>3. requests' \in 0..MaxRequests BY <1>2 DEF TypeInv, UpdateApplication, Request
  <2>4. app' \in [Apps -> AppRows]
    <3>1. app' = [app EXCEPT ![a] = [@ EXCEPT !.name = n]] BY <1>2 DEF UpdateApplication
    <3>2. app[a] \in AppRows BY DEF TypeInv
    <3>3. [app[a] EXCEPT !.name = n] \in AppRows BY <3>2 DEF AppRows
    <3> QED BY <3>1, <3>3 DEF TypeInv
  <2> QED BY <1>2, <2>2, <2>3, <2>4 DEF TypeInv, UpdateApplication, routes
<1>3. ASSUME NEW a \in Apps, CreateDeployment(a) PROVE TypeInv'
  <2>1. raced' \subseteq Apps BY <1>3 DEF TypeInv, CreateDeployment, Racing
  <2>2. requests' \in 0..MaxRequests BY <1>3 DEF TypeInv, CreateDeployment, Request
  <2>3. app' \in [Apps -> AppRows] BY <1>3 DEF TypeInv, CreateDeployment, AppRows
  <2> QED BY <1>3, <2>1, <2>2, <2>3 DEF TypeInv, CreateDeployment, host, routes
<1>4. ASSUME NEW a \in Apps, CancelQueuedDeployment(a) PROVE TypeInv'
  <2>a. app[a] \in AppRows BY DEF TypeInv
  <2>b. [app[a] EXCEPT !.progress = "none"] \in AppRows BY <2>a DEF AppRows
  <2>1. app' \in [Apps -> AppRows] BY <1>4, <2>b DEF TypeInv, CancelQueuedDeployment
  <2> QED BY <1>4, <2>1 DEF TypeInv, CancelQueuedDeployment, host, routes
<1>5. ASSUME NEW a \in Apps, Start(a) PROVE TypeInv'
  <2>1. app' \in [Apps -> AppRows] BY <1>5 DEF TypeInv, Start, AppRows
  <2>2. run' \in [Apps -> RunRows] BY <1>5 DEF TypeInv, Start, AppRows, RunRows
  <2> QED BY <1>5, <2>1, <2>2 DEF TypeInv, Start, host, routes
<1>6. ASSUME NEW a \in Apps, Sync(a) PROVE TypeInv'
  <2>1. run' \in [Apps -> RunRows] BY <1>6 DEF TypeInv, Sync, RunRows
  <2> QED BY <1>6, <2>1 DEF TypeInv, Sync, routes
<1>7. ASSUME NEW a \in Apps, ComposeUp(a) PROVE TypeInv'
  <2>1. PICK v \in Variants :
          LET key == ProjectName(run[a].name, v)
          IN  stack' = [stack EXCEPT ![key] = a] /\ up' = [up EXCEPT ![a] = key]
    BY <1>7 DEF ComposeUp
  <2>2. ProjectName(run[a].name, v) \in Stacks BY <1>7, StackFacts DEF ComposeUp, RunInv
  <2>3. stack' \in [Stacks -> Apps \cup {NoApp}] /\ up' \in [Apps -> Stacks \cup {NoStack}]
    BY <2>1, <2>2 DEF TypeInv
  <2>4. run' \in [Apps -> RunRows] BY <1>7 DEF TypeInv, ComposeUp, RunRows
  <2> QED BY <1>7, <2>3, <2>4 DEF TypeInv, ComposeUp, routes
<1>8. ASSUME NEW a \in Apps, FinishRun(a) PROVE TypeInv'
  <2>a. app \in [Apps -> AppRows] BY DEF TypeInv
  <2>b. [app[a] EXCEPT !.progress = "none"] \in AppRows BY <1>8, <2>a DEF AppRows
  <2>c. app' = [app EXCEPT ![a] = [app[a] EXCEPT !.progress = "none"]] BY <1>8, <2>a DEF FinishRun
  <2>1. app' \in [Apps -> AppRows] BY <2>a, <2>b, <2>c
  <2>2. run' \in [Apps -> RunRows] BY <1>8 DEF TypeInv, FinishRun, RunRows, Idle
  <2> QED BY <1>8, <2>1, <2>2 DEF TypeInv, FinishRun, host, routes
<1>9. ASSUME NEW a \in Apps, PrepareApplicationDeletion(a) PROVE TypeInv'
  <2> DEFINE mine == {d \in Domains : route[d].status # "absent" /\ route[d].app = a}
             list == [d \in mine |-> route[d].status]
  <2>1. mine \in SUBSET Domains /\ list \in [mine -> RouteStatuses] BY DEF TypeInv
  <2>2. list \in Plans BY <2>1, PlansKeep
  <2>3. ListProxyRouteTargetsForApplication(a) = list
    BY DEF ListProxyRouteTargetsForApplication
  <2>4. Cleanup(app[a].has) \in {"down", "routes"} BY DEF Cleanup
  <2>5. app[a].has \in BOOLEAN /\ app[a].name \in Names \cup {NoName} BY DEF TypeInv, AppRows
  <2> HIDE DEF list
  <2>6. del' \in [Apps -> DelRows]
    BY <1>9, <2>2, <2>3, <2>4, <2>5
       DEF TypeInv, PrepareApplicationDeletion, GetApplicationDeletionState, DelRows
  <2> QED BY <1>9, <2>6 DEF TypeInv, PrepareApplicationDeletion, host, routes
<1>10. ASSUME NEW a \in Apps, ComposeDown(a) PROVE TypeInv'
  <2>1. stack' \in [Stacks -> Apps \cup {NoApp}] /\ up' \in [Apps -> Stacks \cup {NoStack}]
    BY <1>10 DEF TypeInv, ComposeDown
  <2>2. del' \in [Apps -> DelRows] BY <1>10 DEF TypeInv, ComposeDown, DelRows
  <2> QED BY <1>10, <2>1, <2>2 DEF TypeInv, ComposeDown, routes
<1>n. NoPlan \in DelRows
  <2>1. {} \in SUBSET Domains /\ [d \in {} |-> "absent"] \in [{} -> RouteStatuses] OBVIOUS
  <2>2. [d \in {} |-> "absent"] \in Plans BY <2>1, PlansKeep
  <2> QED BY <2>2 DEF NoPlan, DelRows
<1>11. ASSUME NEW a \in Apps, DeleteApplicationRecords(a) PROVE TypeInv'
  <2>1. route' \in [Domains -> [app: Apps \cup {NoApp}, status: RouteStatuses]]
    BY <1>11 DEF TypeInv, DeleteApplicationRecords, NoRoute, RouteStatuses
  <2>2. [app[a] EXCEPT !.state = "deleted", !.has = FALSE, !.progress = "none"] \in AppRows
    <3>1. app[a] \in AppRows BY DEF TypeInv
    <3> QED BY <3>1 DEF AppRows
  <2>3. app' \in [Apps -> AppRows] BY <1>11, <2>2 DEF TypeInv, DeleteApplicationRecords
  <2>4. del' \in [Apps -> DelRows] BY <1>11, <1>n DEF TypeInv, DeleteApplicationRecords
  <2> QED BY <1>11, <2>1, <2>3, <2>4 DEF TypeInv, DeleteApplicationRecords, host
<1>12. ASSUME NEW a \in Apps, DeleteFails(a) PROVE TypeInv'
  BY <1>12, <1>n DEF TypeInv, DeleteFails, host, routes
<1>13. ASSUME NEW a \in Apps, NEW d \in Domains, SaveRoute(a, d) PROVE TypeInv'
  BY <1>13 DEF TypeInv, SaveRoute, Request, host, RacingRoute, RouteStatuses
<1>14. ASSUME NEW a \in Apps, NEW d \in Domains, RemoveRoute(a, d) PROVE TypeInv'
  <2>1. del[a].status \in Plans BY DEF TypeInv, DelRows
  <2>2. [del[a].status EXCEPT ![d] = "pending"] \in Plans BY <2>1, PlansKeep
  <2> DEFINE new == [del[a].status EXCEPT ![d] = "pending"]
  <2>3. del' = [del EXCEPT ![a].status = new]
    BY <1>14 DEF RemoveRoute
  <2>4. del' \in [Apps -> DelRows]
    <3>1. new \in Plans BY <2>2
    <3> HIDE DEF new
    <3>2. del[a] \in DelRows BY DEF TypeInv
    <3>3. [del[a] EXCEPT !.status = new] \in DelRows BY <3>1, <3>2 DEF DelRows
    <3>4. del' = [del EXCEPT ![a] = [del[a] EXCEPT !.status = new]] BY <2>3
    <3> QED BY <3>3, <3>4 DEF TypeInv
  <2> QED BY <1>14, <2>4 DEF TypeInv, RemoveRoute, host
<1>15. ASSUME NEW d \in Domains, ApplyRoute(d) PROVE TypeInv'
  <2>1. route' \in [Domains -> [app: Apps \cup {NoApp}, status: RouteStatuses]]
    BY <1>15 DEF TypeInv, ApplyRoute, RouteStatuses
  <2>2. proxied' \subseteq Domains /\ hidden' \subseteq Domains /\ raced' \subseteq Apps
    BY <1>15 DEF TypeInv, ApplyRoute, RacingRoute
  <2> QED BY <1>15, <2>1, <2>2 DEF TypeInv, ApplyRoute, host
<1> QED BY <1>1, <1>2, <1>3, <1>4, <1>5, <1>6, <1>7, <1>8, <1>9, <1>10, <1>11, <1>12, <1>13,
          <1>14, <1>15 DEF Next

\* Runs have the name of their application.
LEMMA RunStep ==
  ASSUME TypeInv, RunInv, PlanInv, Next
  PROVE  RunInv'
<1>g. raced \subseteq raced' /\ aliased \subseteq aliased' BY HistoriesGrow
<1>1. ASSUME NEW a \in Apps, NEW n \in Names, CreateApplication(a, n) PROVE RunInv'
  <2>1. app[a].progress = "none" /\ (run[a].pc # "idle" => a \in raced)
    BY <1>1 DEF RunInv, CreateApplication
  <2> QED BY <1>1, <1>g, <2>1 DEF TypeInv, AppRows, RunRows, DelRows, RunInv, CreateApplication
<1>2. ASSUME NEW a \in Apps, NEW n \in Names, UpdateApplication(a, n) PROVE RunInv'
  <2>1. run[a].pc # "idle" /\ n # app[a].name => a \in aliased' BY <1>2 DEF UpdateApplication
  <2> QED BY <1>2, <1>g, <2>1 DEF TypeInv, AppRows, RunRows, DelRows, RunInv, UpdateApplication
<1>3. ASSUME NEW a \in Apps, CreateDeployment(a) PROVE RunInv'
  BY <1>3, <1>g DEF TypeInv, AppRows, RunRows, DelRows, RunInv, CreateDeployment, Alive
<1>4. ASSUME NEW a \in Apps, CancelQueuedDeployment(a) PROVE RunInv'
  BY <1>4 DEF TypeInv, AppRows, RunRows, DelRows, RunInv, CancelQueuedDeployment
<1>5. ASSUME NEW a \in Apps, Start(a) PROVE RunInv'
  BY <1>5 DEF TypeInv, AppRows, RunRows, DelRows, RunInv, Start
<1>6. ASSUME NEW a \in Apps, Sync(a) \/ ComposeUp(a) PROVE RunInv'
  <2>1. CASE Sync(a) BY <2>1 DEF TypeInv, RunRows, RunInv, Sync
  <2>2. CASE ComposeUp(a) BY <2>2 DEF TypeInv, RunRows, RunInv, ComposeUp
  <2> QED BY <1>6, <2>1, <2>2
<1>11. ASSUME NEW a \in Apps, FinishRun(a) PROVE RunInv'
  BY <1>11 DEF TypeInv, AppRows, RunRows, RunInv, FinishRun, Idle
<1>7. ASSUME NEW a \in Apps, PrepareApplicationDeletion(a) \/ ComposeDown(a) \/ DeleteFails(a)
      PROVE  RunInv'
  BY <1>7 DEF RunInv, PrepareApplicationDeletion, ComposeDown, DeleteFails
<1>8. ASSUME NEW a \in Apps, DeleteApplicationRecords(a) PROVE RunInv'
  <2>1. a \notin raced => run[a].pc = "idle"
    BY <1>8 DEF DeleteApplicationRecords, PlanInv, Deleting, RunInv
  <2> QED BY <1>8, <2>1 DEF TypeInv, AppRows, RunRows, DelRows, RunInv, DeleteApplicationRecords
<1>9. ASSUME NEW a \in Apps, NEW d \in Domains, SaveRoute(a, d) \/ RemoveRoute(a, d) PROVE RunInv'
  BY <1>9, <1>g DEF RunInv, SaveRoute, RemoveRoute
<1>10. ASSUME NEW d \in Domains, ApplyRoute(d) PROVE RunInv'
  BY <1>10, <1>g DEF RunInv, ApplyRoute
<1> QED BY <1>1, <1>2, <1>3, <1>4, <1>5, <1>6, <1>7, <1>8, <1>9, <1>10, <1>11 DEF Next

\* Plans stay true.
LEMMA PlanStep ==
  ASSUME TypeInv, RunInv, PlanInv, Next
  PROVE  PlanInv'
<1>g. raced \subseteq raced' /\ aliased \subseteq aliased' BY HistoriesGrow
<1>1. ASSUME NEW a \in Apps, NEW n \in Names, CreateApplication(a, n) PROVE PlanInv'
  <2>1. Deleting(a) => a \in raced BY <1>1 DEF PlanInv, CreateApplication
  <2> QED BY <1>1, <1>g, <2>1 DEF TypeInv, AppRows, RunRows, DelRows, PlanInv, CreateApplication, Deleting
<1>2. ASSUME NEW a \in Apps, NEW n \in Names, UpdateApplication(a, n) PROVE PlanInv'
  BY <1>2, <1>g DEF TypeInv, AppRows, RunRows, DelRows, PlanInv, UpdateApplication, Deleting, Racing
<1>3. ASSUME NEW a \in Apps, CreateDeployment(a) PROVE PlanInv'
  BY <1>3, <1>g DEF TypeInv, AppRows, RunRows, DelRows, PlanInv, CreateDeployment, Deleting, Racing
<1>4. ASSUME NEW a \in Apps, CancelQueuedDeployment(a) PROVE PlanInv'
  BY <1>4 DEF TypeInv, AppRows, RunRows, DelRows, PlanInv, CancelQueuedDeployment, Deleting
<1>5. ASSUME NEW a \in Apps, Start(a) PROVE PlanInv'
  BY <1>5 DEF TypeInv, AppRows, RunRows, DelRows, PlanInv, Start, Deleting
<1>6. ASSUME NEW a \in Apps, Sync(a) \/ ComposeUp(a) PROVE PlanInv'
  BY <1>6 DEF PlanInv, Sync, ComposeUp, Deleting
<1>7. ASSUME NEW a \in Apps, FinishRun(a) PROVE PlanInv'
  BY <1>7 DEF TypeInv, AppRows, RunRows, DelRows, PlanInv, FinishRun, Deleting
<1>8. ASSUME NEW a \in Apps, PrepareApplicationDeletion(a) PROVE PlanInv'
  <2>1. app[a].state = "alive" /\ app[a].progress = "none"
    BY <1>8 DEF TypeInv, AppRows, RunRows, DelRows, PrepareApplicationDeletion, GetApplicationDeletionState, Alive
  <2>2. del'[a].name = app[a].name /\ del'[a].has = app[a].has
        /\ \A b \in Apps \ {a} : del'[b] = del[b]
    BY <1>8 DEF TypeInv, AppRows, RunRows, DelRows, PrepareApplicationDeletion, GetApplicationDeletionState
  <2> QED BY <1>8, <2>1, <2>2 DEF PlanInv, PrepareApplicationDeletion, Deleting
<1>9. ASSUME NEW a \in Apps, ComposeDown(a) PROVE PlanInv'
  BY <1>9 DEF TypeInv, AppRows, RunRows, DelRows, PlanInv, ComposeDown, Deleting
<1>10. ASSUME NEW a \in Apps, DeleteFails(a) PROVE PlanInv'
  BY <1>10 DEF TypeInv, AppRows, RunRows, DelRows, PlanInv, DeleteFails, Deleting, NoPlan
<1>11. ASSUME NEW a \in Apps, DeleteApplicationRecords(a) PROVE PlanInv'
  BY <1>11 DEF TypeInv, AppRows, RunRows, DelRows, PlanInv, DeleteApplicationRecords, Deleting, NoPlan
<1>12. ASSUME NEW a \in Apps, NEW d \in Domains, SaveRoute(a, d) PROVE PlanInv'
  BY <1>12, <1>g DEF PlanInv, SaveRoute, Deleting
<1>13. ASSUME NEW a \in Apps, NEW d \in Domains, RemoveRoute(a, d) PROVE PlanInv'
  BY <1>13 DEF TypeInv, AppRows, RunRows, DelRows, PlanInv, RemoveRoute, Deleting
<1>14. ASSUME NEW d \in Domains, ApplyRoute(d) PROVE PlanInv'
  BY <1>14, <1>g DEF PlanInv, ApplyRoute, Deleting
<1> QED BY <1>1, <1>2, <1>3, <1>4, <1>5, <1>6, <1>7, <1>8, <1>9, <1>10, <1>11, <1>12, <1>13,
          <1>14 DEF Next

-----------------------------------------------------------------------------
\* Where containers are.
LEMMA StackStep ==
  ASSUME Inv, StackInv, Next
  PROVE  StackInv'
<1>g. raced \subseteq raced' /\ aliased \subseteq aliased' BY HistoriesGrow
<1>t. /\ app \in [Apps -> AppRows] /\ run \in [Apps -> RunRows] /\ del \in [Apps -> DelRows]
      /\ stack \in [Stacks -> Apps \cup {NoApp}] /\ up \in [Apps -> Stacks \cup {NoStack}]
  BY DEF Inv, TypeInv
<1> USE <1>g, <1>t
<1> SUFFICES ASSUME NEW s \in Stacks, NEW b \in Apps, stack'[s] = b, b \notin raced' \cup aliased'
             PROVE  /\ app'[b].state = "alive" /\ app'[b].has
                    /\ up'[b] # NoStack
                    /\ s \in Projects(app'[b].name)
                    /\ del'[b].pc # "routes"
  <2>1. stack' \in [Stacks -> Apps \cup {NoApp}] BY TypeStep DEF Inv, TypeInv
  <2> QED BY <2>1 DEF StackInv
<1>0. ASSUME stack[s] = b
      PROVE  /\ app[b].state = "alive" /\ app[b].has
             /\ up[b] # NoStack
             /\ s \in Projects(app[b].name)
             /\ del[b].pc # "routes"
  BY <1>0, ServiceRemovalAssumption DEF StackInv
<1> DEFINE Goal == /\ app'[b].state = "alive" /\ app'[b].has
                   /\ up'[b] # NoStack
                   /\ s \in Projects(app'[b].name)
                   /\ del'[b].pc # "routes"
<1>1. ASSUME NEW a \in Apps, NEW n \in Names, CreateApplication(a, n) PROVE Goal
  <2>1. stack[s] = b /\ up' = up /\ del' = del BY <1>1 DEF CreateApplication, host
  <2>2. b # a BY <1>0, <1>1, <2>1 DEF CreateApplication
  <2>3. app'[b] = app[b] BY <1>1, <2>2 DEF CreateApplication
  <2> QED BY <1>0, <2>1, <2>3
<1>2. ASSUME NEW a \in Apps, NEW n \in Names, UpdateApplication(a, n) PROVE Goal
  <2>1. stack[s] = b /\ up' = up /\ del' = del BY <1>2 DEF UpdateApplication
  <2>2. app'[b].state = app[b].state /\ app'[b].has = app[b].has
    BY <1>2 DEF UpdateApplication, AppRows
  <2>3. b = a => n = app[a].name BY <1>0, <1>2, <2>1 DEF UpdateApplication
  <2>4. app'[b].name = app[b].name BY <1>2, <2>3 DEF UpdateApplication, AppRows
  <2> QED BY <1>0, <2>1, <2>2, <2>4
<1>3. ASSUME NEW a \in Apps, CreateDeployment(a) \/ CancelQueuedDeployment(a) PROVE Goal
  <2>1. stack[s] = b /\ up' = up /\ del' = del
    BY <1>3 DEF CreateDeployment, CancelQueuedDeployment, host
  <2>2. app'[b].state = app[b].state /\ (app[b].has => app'[b].has) /\ app'[b].name = app[b].name
    BY <1>3 DEF CreateDeployment, CancelQueuedDeployment, AppRows
  <2> QED BY <1>0, <2>1, <2>2
<1>4. ASSUME NEW a \in Apps, Start(a) \/ Sync(a) \/ FinishRun(a) PROVE Goal
  <2>1. stack[s] = b /\ up' = up /\ del' = del BY <1>4 DEF Start, Sync, FinishRun, host
  <2>2. app'[b].state = app[b].state /\ app'[b].has = app[b].has /\ app'[b].name = app[b].name
    <3>1. app[a] \in AppRows OBVIOUS
    <3>2. CASE Start(a) BY <3>1, <3>2 DEF Start, AppRows
    <3>3. CASE Sync(a) BY <3>3 DEF Sync
    <3>4. CASE FinishRun(a) BY <3>1, <3>4 DEF FinishRun, AppRows
    <3> QED BY <1>4, <3>2, <3>3, <3>4
  <2> QED BY <1>0, <2>1, <2>2
<1>5. ASSUME NEW a \in Apps, ComposeUp(a) PROVE Goal
  <2>1. PICK v \in Variants :
          LET key == ProjectName(run[a].name, v)
          IN  stack' = [stack EXCEPT ![key] = a] /\ up' = [up EXCEPT ![a] = key]
    BY <1>5 DEF ComposeUp
  <2> DEFINE key == ProjectName(run[a].name, v)
  <2>2. key \in Stacks /\ key # NoStack BY <1>5, StackFacts DEF ComposeUp, Inv, RunInv
  <2>3. stack' = [stack EXCEPT ![key] = a] /\ up' = [up EXCEPT ![a] = key]
        /\ app' = app /\ del' = del
    BY <1>5, <2>1 DEF ComposeUp
  <2>4. CASE s # key
    <3>1. stack[s] = b BY <2>2, <2>3, <2>4
    <3>2. up'[b] # NoStack BY <1>0, <2>2, <2>3, <3>1
    <3> QED BY <1>0, <2>3, <3>1, <3>2
  <2>5. CASE s = key
    <3>1. b = a BY <2>2, <2>3, <2>5
    <3>2. app[a].progress = "running" /\ run[a].name = app[a].name
      BY <1>5, <3>1 DEF ComposeUp, Inv, RunInv
    <3>3. app[a].state = "alive" /\ app[a].has BY <3>2 DEF Inv, RunInv
    <3>4. del[a].pc # "routes" BY <3>1, <3>2 DEF Inv, PlanInv, Deleting
    <3>5. up'[a] = key BY <2>3
    <3>6. key \in Projects(app[a].name) BY <3>2, StackFacts
    <3> QED BY <2>2, <2>3, <2>5, <3>1, <3>3, <3>4, <3>5, <3>6
  <2> QED BY <2>4, <2>5
<1>6. ASSUME NEW a \in Apps, PrepareApplicationDeletion(a) PROVE Goal
  <2>1. stack[s] = b /\ up' = up /\ app' = app BY <1>6 DEF PrepareApplicationDeletion, host
  <2>2. del'[b].pc # "routes"
    BY <1>0, <1>6, <2>1
       DEF PrepareApplicationDeletion, GetApplicationDeletionState, Cleanup
  <2> QED BY <1>0, <2>1, <2>2
<1>7. ASSUME NEW a \in Apps, ComposeDown(a) PROVE Goal
  <2>1. s \notin Projects(del[a].name) /\ stack[s] = b /\ app' = app
    BY <1>7, ServiceRemovalAssumption DEF ComposeDown, BuildComposeDownCommand
  <2>2. b # a BY <1>0, <1>7, <2>1 DEF ComposeDown, Inv, PlanInv, Deleting
  <2>3. up'[b] = up[b] /\ del'[b] = del[b] BY <1>7, <2>2 DEF ComposeDown
  <2> QED BY <1>0, <2>1, <2>3
<1>8. ASSUME NEW a \in Apps, DeleteApplicationRecords(a) PROVE Goal
  <2>1. stack[s] = b /\ up' = up /\ b # a
    BY <1>0, <1>8 DEF DeleteApplicationRecords, host
  <2>2. app'[b] = app[b] /\ del'[b] = del[b] BY <1>8, <2>1 DEF DeleteApplicationRecords
  <2> QED BY <1>0, <2>1, <2>2
<1>9. ASSUME NEW a \in Apps, DeleteFails(a) PROVE Goal
  <2>1. stack[s] = b /\ up' = up /\ app' = app BY <1>9 DEF DeleteFails, host
  <2>2. del'[b].pc # "routes" BY <1>0, <1>9, <2>1 DEF DeleteFails, NoPlan
  <2> QED BY <1>0, <2>1, <2>2
<1>10. ASSUME NEW a \in Apps, NEW d \in Domains, RemoveRoute(a, d) PROVE Goal
  <2>1. stack[s] = b /\ up' = up /\ app' = app BY <1>10 DEF RemoveRoute, host
  <2>2. del'[b].pc = del[b].pc BY <1>10 DEF RemoveRoute, DelRows
  <2> QED BY <1>0, <2>1, <2>2
<1>11. ASSUME NEW d \in Domains, ApplyRoute(d) \/ \E a \in Apps : SaveRoute(a, d) PROVE Goal
  <2>1. stack[s] = b /\ up' = up /\ app' = app /\ del' = del
    BY <1>11 DEF ApplyRoute, SaveRoute, host
  <2> QED BY <1>0, <2>1
<1> QED BY <1>1, <1>2, <1>3, <1>4, <1>5, <1>6, <1>7, <1>8, <1>9, <1>10, <1>11 DEF Next

\* Whose project an application's containers are in.
LEMMA KeepStep ==
  ASSUME Inv, KeepInv, Next
  PROVE  KeepInv'
<1>g. raced \subseteq raced' /\ aliased \subseteq aliased' BY HistoriesGrow
<1>t. /\ app \in [Apps -> AppRows] /\ run \in [Apps -> RunRows] /\ del \in [Apps -> DelRows]
      /\ stack \in [Stacks -> Apps \cup {NoApp}] /\ up \in [Apps -> Stacks \cup {NoStack}]
  BY DEF Inv, TypeInv
<1> SUFFICES ASSUME raced' = {}, aliased' = {}
             PROVE  /\ \A a \in Apps : app'[a].state = "unborn" => up'[a] = NoStack
                    /\ \A a, b \in Alive' : a # b => Projects(app'[a].name) \cap Projects(app'[b].name) = {}
                    /\ \A a \in Alive' : up'[a] # NoStack =>
                         up'[a] \in Projects(app'[a].name) /\ stack'[up'[a]] = a
  BY DEF KeepInv
<1> DEFINE Goal == /\ \A a \in Apps : app'[a].state = "unborn" => up'[a] = NoStack
                   /\ \A a, b \in Alive' : a # b => Projects(app'[a].name) \cap Projects(app'[b].name) = {}
                   /\ \A a \in Alive' : up'[a] # NoStack =>
                        up'[a] \in Projects(app'[a].name) /\ stack'[up'[a]] = a
<1>0. /\ raced = {} /\ aliased = {}
      /\ \A a \in Apps : app[a].state = "unborn" => up[a] = NoStack
      /\ \A a, b \in Alive : a # b => Projects(app[a].name) \cap Projects(app[b].name) = {}
      /\ \A a \in Alive : up[a] # NoStack =>
           up[a] \in Projects(app[a].name) /\ stack[up[a]] = a
  BY <1>g DEF KeepInv
<1>1. ASSUME NEW a \in Apps, NEW n \in Names, CreateApplication(a, n) PROVE Goal
  <2>1. Clash(a, n) = {} BY <1>1 DEF CreateApplication
  <2>2. \A b \in Alive \ {a} : Projects(app[b].name) \cap Projects(n) = {} BY <2>1 DEF Clash, Namesakes
  <2>3. app[a].state = "unborn" /\ stack' = stack /\ up' = up /\ app'[a].name = n
        /\ app'[a].state = "alive" /\ \A b \in Apps \ {a} : app'[b] = app[b]
    BY <1>1, <1>t DEF CreateApplication, host, AppRows
  <2>4. Alive' = Alive \cup {a} BY <2>3 DEF Alive
  <2>5. up[a] = NoStack BY <1>0, <2>3
  <2>6. Alive \subseteq Apps BY DEF Alive
  <2> QED BY <1>0, <2>2, <2>3, <2>4, <2>5, <2>6
<1>2. ASSUME NEW a \in Apps, NEW n \in Names, UpdateApplication(a, n) PROVE Goal
  <2>1. Clash(a, n) = {} /\ (n # app[a].name => up[a] = NoStack) BY <1>2 DEF UpdateApplication
  <2>2. \A b \in Alive \ {a} : Projects(app[b].name) \cap Projects(n) = {} BY <2>1 DEF Clash, Namesakes
  <2>3. a \in Alive /\ stack' = stack /\ up' = up /\ app'[a].name = n
        /\ app'[a].state = app[a].state /\ \A b \in Apps \ {a} : app'[b] = app[b]
    BY <1>2, <1>t DEF UpdateApplication, AppRows
  <2>4. Alive' = Alive /\ Alive \subseteq Apps BY <2>3 DEF Alive
  <2> QED BY <1>0, <2>1, <2>2, <2>3, <2>4
<1>s. ASSUME stack' = stack, up' = up,
             \A a \in Apps : app'[a].state = app[a].state /\ app'[a].name = app[a].name
      PROVE  Goal
  <2>1. Alive' = Alive /\ Alive \subseteq Apps BY <1>s DEF Alive
  <2> QED BY <1>0, <1>s, <2>1
<1>3. ASSUME NEW a \in Apps, \/ CreateDeployment(a) \/ CancelQueuedDeployment(a)
                             \/ Start(a) \/ Sync(a) \/ FinishRun(a)
      PROVE  Goal
  <2>1. stack' = stack /\ up' = up
    BY <1>3 DEF CreateDeployment, CancelQueuedDeployment, Start, Sync, FinishRun, host
  <2>2. \A b \in Apps : app'[b].state = app[b].state /\ app'[b].name = app[b].name
    BY <1>3, <1>t DEF CreateDeployment, CancelQueuedDeployment, Start, Sync, FinishRun, AppRows
  <2> QED BY <1>s, <2>1, <2>2
<1>4. ASSUME NEW a \in Apps, ComposeUp(a) PROVE Goal
  <2>1. PICK v \in Variants :
          LET key == ProjectName(run[a].name, v)
          IN  stack' = [stack EXCEPT ![key] = a] /\ up' = [up EXCEPT ![a] = key]
    BY <1>4 DEF ComposeUp
  <2>2. app[a].progress = "running" /\ run[a].name = app[a].name /\ run[a].name \in Names
    BY <1>0, <1>4 DEF ComposeUp, Inv, RunInv
  <2> DEFINE key == ProjectName(app[a].name, v)
  <2>3. key \in Stacks /\ key # NoStack BY <2>2, StackFacts
  <2>4. stack' = [stack EXCEPT ![key] = a] /\ up' = [up EXCEPT ![a] = key] /\ app' = app
    BY <1>4, <2>1, <2>2 DEF ComposeUp
  <2>5. a \in Alive BY <2>2 DEF Inv, RunInv, Alive
  <2>6. Alive' = Alive /\ Alive \subseteq Apps BY <2>4 DEF Alive
  <2>7. up'[a] = key /\ stack'[key] = a BY <1>t, <2>3, <2>4
  <2>8. ASSUME NEW b \in Alive, b # a, up'[b] # NoStack
        PROVE  up'[b] \in Projects(app[b].name) /\ stack'[up'[b]] = b
    <3>1. up'[b] = up[b] BY <1>t, <2>4, <2>6, <2>8
    <3>2. up[b] \in Projects(app[b].name) /\ stack[up[b]] = b BY <1>0, <2>8, <3>1
    <3>3. Projects(app[a].name) \cap Projects(app[b].name) = {} BY <1>0, <2>5, <2>8
    <3>4. up[b] # key /\ up[b] \in Stacks BY <1>t, <2>6, <2>8, <3>1, <3>2, <3>3, StackFacts
    <3> QED BY <1>t, <2>4, <3>1, <3>2, <3>4
  <2>9. key \in Projects(app[a].name) BY StackFacts
  <2>10. \A b \in Apps : app'[b].state = "unborn" => up'[b] = NoStack
    BY <1>t, <1>0, <2>4, <2>5 DEF Alive
  <2> HIDE DEF key
  <2>11. \A b \in Alive' : up'[b] # NoStack =>
           up'[b] \in Projects(app'[b].name) /\ stack'[up'[b]] = b
    BY <2>4, <2>6, <2>7, <2>8, <2>9
  <2>12. \A b, c \in Alive' : b # c => Projects(app'[b].name) \cap Projects(app'[c].name) = {}
    BY <1>0, <2>4, <2>6
  <2> QED BY <2>10, <2>11, <2>12
<1>5. ASSUME NEW a \in Apps, ComposeDown(a) PROVE Goal
  <2>1. app[a].state = "alive" /\ del[a].name = app[a].name
    BY <1>0, <1>5 DEF ComposeDown, Inv, PlanInv, Deleting
  <2> DEFINE down == Projects(app[a].name)
  <2>2. /\ stack' = [s \in Stacks |-> IF s \in down THEN NoApp ELSE stack[s]]
        /\ up' = [up EXCEPT ![a] = IF @ \in down THEN NoStack ELSE @]
        /\ app' = app
    BY <1>5, <2>1 DEF ComposeDown, BuildComposeDownCommand
  <2>3. a \in Alive /\ Alive' = Alive /\ Alive \subseteq Apps BY <2>1, <2>2 DEF Alive
  <2>4. up'[a] = NoStack BY <1>0, <1>t, <2>2, <2>3
  <2>5. ASSUME NEW b \in Alive, b # a, up'[b] # NoStack
        PROVE  up'[b] \in Projects(app[b].name) /\ stack'[up'[b]] = b
    <3>1. up'[b] = up[b] BY <1>t, <2>2, <2>3, <2>5
    <3>2. up[b] \in Projects(app[b].name) /\ stack[up[b]] = b BY <1>0, <2>5, <3>1
    <3>3. Projects(app[a].name) \cap Projects(app[b].name) = {} BY <1>0, <2>3, <2>5
    <3>4. up[b] \notin down /\ up[b] \in Stacks BY <1>t, <2>3, <2>5, <3>1, <3>2, <3>3
    <3> QED BY <1>t, <2>2, <3>1, <3>2, <3>4
  <2>6. \A b \in Apps : app'[b].state = "unborn" => up'[b] = NoStack
    BY <1>t, <1>0, <2>2, <2>4
  <2> HIDE DEF down
  <2>7. \A b \in Alive' : up'[b] # NoStack =>
          up'[b] \in Projects(app'[b].name) /\ stack'[up'[b]] = b
    BY <2>2, <2>3, <2>4, <2>5
  <2>8. \A b, c \in Alive' : b # c => Projects(app'[b].name) \cap Projects(app'[c].name) = {}
    BY <1>0, <2>2, <2>3
  <2> QED BY <2>6, <2>7, <2>8
<1>6. ASSUME NEW a \in Apps, DeleteApplicationRecords(a) PROVE Goal
  <2>1. stack' = stack /\ up' = up /\ app'[a].state = "deleted"
        /\ \A b \in Apps \ {a} : app'[b] = app[b]
    BY <1>6, <1>t DEF DeleteApplicationRecords, host, AppRows
  <2>2. Alive' = Alive \ {a} /\ Alive \subseteq Apps BY <2>1 DEF Alive
  <2> QED BY <1>0, <2>1, <2>2
<1>7. ASSUME NEW a \in Apps, PrepareApplicationDeletion(a) \/ DeleteFails(a) PROVE Goal
  BY <1>7, <1>s DEF PrepareApplicationDeletion, DeleteFails, host
<1>8. ASSUME NEW d \in Domains,
             ApplyRoute(d) \/ \E a \in Apps : SaveRoute(a, d) \/ RemoveRoute(a, d)
      PROVE  Goal
  BY <1>8, <1>s DEF ApplyRoute, SaveRoute, RemoveRoute, host
<1> QED BY <1>1, <1>2, <1>3, <1>4, <1>5, <1>6, <1>7, <1>8 DEF Next

\* Which domains are served.
LEMMA RouteStep ==
  ASSUME Inv, RouteInv, Next
  PROVE  RouteInv'
<1>g. raced \subseteq raced' BY HistoriesGrow
<1>t. /\ del \in [Apps -> DelRows] /\ proxied \subseteq Domains
      /\ route \in [Domains -> [app: Apps \cup {NoApp}, status: RouteStatuses]]
  BY DEF Inv, TypeInv
<1>0. ASSUME UNCHANGED <<del, route, proxied, hidden>> PROVE RouteInv'
  BY <1>0, <1>g DEF RouteInv, Deleting
<1>1. ASSUME NEW a \in Apps, NEW n \in Names, CreateApplication(a, n) \/ UpdateApplication(a, n)
      PROVE  RouteInv'
  BY <1>0, <1>1 DEF CreateApplication, UpdateApplication, routes
<1>2. ASSUME NEW a \in Apps, \/ CreateDeployment(a) \/ CancelQueuedDeployment(a) \/ Start(a)
                             \/ Sync(a) \/ ComposeUp(a) \/ FinishRun(a)
      PROVE  RouteInv'
  BY <1>0, <1>2 DEF CreateDeployment, CancelQueuedDeployment, Start, Sync, ComposeUp, FinishRun,
                    routes
<1>3. ASSUME NEW a \in Apps, PrepareApplicationDeletion(a) PROVE RouteInv'
  <2>1. UNCHANGED <<route, proxied, hidden>> BY <1>3 DEF PrepareApplicationDeletion, routes
  <2>2. del'[a].pc # "idle" /\ \A b \in Apps \ {a} : del'[b] = del[b]
    BY <1>3, <1>t DEF PrepareApplicationDeletion, Cleanup
  <2>3. \A d \in DOMAIN del'[a].status : del'[a].status[d] = route[d].status
    BY <1>3, <1>t DEF PrepareApplicationDeletion, ListProxyRouteTargetsForApplication
  <2> QED BY <1>g, <2>1, <2>2, <2>3 DEF RouteInv, Deleting
<1>4. ASSUME NEW a \in Apps, ComposeDown(a) PROVE RouteInv'
  <2>1. UNCHANGED <<route, proxied, hidden>> BY <1>4 DEF ComposeDown, routes
  <2>2. /\ \A b \in Apps : del'[b].status = del[b].status
        /\ \A b \in Apps : del'[b].pc = "idle" => del[b].pc = "idle"
    BY <1>4, <1>t DEF ComposeDown, DelRows
  <2> QED BY <1>g, <2>1, <2>2 DEF RouteInv, Deleting
<1>n. DOMAIN NoPlan.status = {} BY DEF NoPlan
<1>5. ASSUME NEW a \in Apps, DeleteFails(a) PROVE RouteInv'
  <2>1. UNCHANGED <<route, proxied, hidden>> BY <1>5 DEF DeleteFails, routes
  <2>2. del'[a] = NoPlan /\ \A b \in Apps \ {a} : del'[b] = del[b] BY <1>5, <1>t DEF DeleteFails
  <2> QED BY <1>g, <1>n, <2>1, <2>2 DEF RouteInv, Deleting
<1>6. ASSUME NEW a \in Apps, DeleteApplicationRecords(a) PROVE RouteInv'
  <2>1. UNCHANGED <<proxied, hidden, raced>> BY <1>6 DEF DeleteApplicationRecords
  <2>2. del'[a] = NoPlan /\ \A b \in Apps \ {a} : del'[b] = del[b]
    BY <1>6, <1>t DEF DeleteApplicationRecords
  <2>3. \A d \in DOMAIN del[a].status : del[a].status[d] = "pending"
    BY <1>6 DEF DeleteApplicationRecords, RoutesRemoved, ToRemove
  <2>4. \A d \in Domains \ DOMAIN del[a].status : route'[d].status = route[d].status
    BY <1>6, <1>t DEF DeleteApplicationRecords
  <2>5. ASSUME raced = {}, NEW d \in proxied, route'[d].status \in {"absent", "pending"}
        PROVE  d \in hidden
    BY <1>t, <2>3, <2>4, <2>5 DEF RouteInv
  <2> QED BY <1>n, <2>1, <2>2, <2>5 DEF RouteInv, Deleting
<1>7. ASSUME NEW a \in Apps, NEW d \in Domains, SaveRoute(a, d) PROVE RouteInv'
  <2>1. UNCHANGED <<del, proxied>> /\ hidden \subseteq hidden'
        /\ (d \in proxied => d \in hidden')
    BY <1>7 DEF SaveRoute
  <2>2. \A e \in Domains \ {d} : route'[e] = route[e] BY <1>7, <1>t DEF SaveRoute
  <2> QED BY <1>g, <1>t, <2>1, <2>2 DEF RouteInv, Deleting
<1>8. ASSUME NEW a \in Apps, NEW d \in Domains, RemoveRoute(a, d) PROVE RouteInv'
  <2>1. UNCHANGED <<route, hidden, raced>> /\ proxied' = proxied \ {d} BY <1>8 DEF RemoveRoute
  <2>2. del' = [del EXCEPT ![a].status = [del[a].status EXCEPT ![d] = "pending"]]
    BY <1>8 DEF RemoveRoute
  <2>3. /\ \A b \in Apps : DOMAIN del'[b].status = DOMAIN del[b].status
        /\ \A b \in Apps : del'[b].pc = del[b].pc
        /\ \A b \in Apps : \A e \in DOMAIN del[b].status \ {d} :
             del'[b].status[e] = del[b].status[e]
    BY <1>t, <2>2 DEF DelRows
  <2> QED BY <2>1, <2>3 DEF RouteInv, Deleting
<1>9. ASSUME NEW d \in Domains, ApplyRoute(d) PROVE RouteInv'
  <2>1. /\ del' = del /\ proxied' \subseteq proxied \cup {d}
        /\ hidden \ {d} \subseteq hidden'
        /\ d \in proxied' /\ route'[d].status \in {"absent", "pending"} => d \in hidden'
        /\ \A e \in Domains \ {d} : route'[e] = route[e]
    <3>1. route[d] \in [app: Apps \cup {NoApp}, status: RouteStatuses] BY <1>t
    <3> QED BY <1>9, <1>t, <3>1 DEF ApplyRoute
  <2>2. raced' = {} => \A b \in Apps : Deleting(b) => d \notin DOMAIN del[b].status
    BY <1>9 DEF ApplyRoute, RacingRoute
  <2>3. raced' = {} => \A b \in Apps : d \notin DOMAIN del[b].status
    BY <2>2 DEF RouteInv
  <2>4. proxied' \subseteq Domains BY <1>t, <2>1
  <2> QED BY <1>g, <2>1, <2>3, <2>4 DEF RouteInv, Deleting
<1> QED BY <1>1, <1>2, <1>3, <1>4, <1>5, <1>6, <1>7, <1>8, <1>9 DEF Next

-----------------------------------------------------------------------------
\* The invariants that the theorems share.
LEMMA Invariance == Spec => []Inv
<1>1. Init => Inv
  <2> SUFFICES ASSUME Init PROVE Inv OBVIOUS
  <2>1. {} \in SUBSET Domains /\ [d \in {} |-> "absent"] \in [{} -> RouteStatuses] OBVIOUS
  <2>2. [d \in {} |-> "absent"] \in Plans BY <2>1, PlansKeep
  <2>3. NoPlan \in DelRows BY <2>2 DEF NoPlan, DelRows
  <2>4. Unborn \in AppRows /\ Idle \in RunRows BY DEF Unborn, Idle, AppRows, RunRows
  <2>5. NoRoute \in [app: Apps \cup {NoApp}, status: RouteStatuses]
    BY DEF NoRoute, RouteStatuses
  <2>6. TypeInv BY <2>3, <2>4, <2>5, ServiceRemovalAssumption DEF Init, TypeInv
  <2>7. RunInv BY DEF Init, RunInv, Unborn, Idle
  <2>8. PlanInv BY DEF Init, PlanInv, Deleting, NoPlan
  <2> QED BY <2>6, <2>7, <2>8 DEF Inv
<1>2. Inv /\ [Next]_vars => Inv'
  <2> SUFFICES ASSUME Inv, [Next]_vars PROVE Inv' OBVIOUS
  <2>1. CASE Next BY <2>1, TypeStep, RunStep, PlanStep DEF Inv
  <2>2. CASE UNCHANGED vars
    BY <2>2 DEF vars, Inv, TypeInv, RunInv, PlanInv, Deleting
  <2> QED BY <2>1, <2>2
<1> QED BY <1>1, <1>2, PTL DEF Spec

\* The type invariant holds.
THEOREM ServiceRemovalTypeCorrect == Spec => []TypeOK
<1>1. Inv => TypeOK
  <2> SUFFICES ASSUME Inv PROVE TypeOK OBVIOUS
  <2>1. \A a \in Apps : DOMAIN del[a].status \subseteq Domains
    BY PlansKeep DEF Inv, TypeInv, DelRows
  <2> QED BY <2>1 DEF Inv, TypeInv, TypeOK, AppRows, RunRows, DelRows
<1> QED BY <1>1, Invariance, PTL

\* Containers of a deleted service are gone, for any strategies, failures of its
\* deletion and interleaving with other services (deleteApplication).
THEOREM DeletedStacksGo == Spec => []NoOrphanStack
<1>1. Init => StackInv BY DEF Init, StackInv
<1>2. Inv /\ StackInv /\ [Next]_vars => StackInv'
  <2>1. Inv /\ StackInv /\ UNCHANGED vars => StackInv' BY DEF vars, StackInv
  <2> QED BY <2>1, StackStep
<1>3. Inv /\ StackInv => NoOrphanStack
  BY DEF Inv, TypeInv, StackInv, NoOrphanStack, Alive
<1> QED BY <1>1, <1>2, <1>3, Invariance, PTL DEF Spec

\* A domain the proxy serves keeps a row to remove it by (deleteApplicationRecords
\* after the routes are off the host).
THEOREM ServedRoutesKeepRows == Spec => []NoOrphanRoute
<1>1. Init => RouteInv BY DEF Init, RouteInv, NoPlan
<1>2. Inv /\ RouteInv /\ [Next]_vars => RouteInv'
  <2>1. Inv /\ RouteInv /\ UNCHANGED vars => RouteInv' BY DEF vars, RouteInv, Deleting
  <2> QED BY <2>1, RouteStep
<1>3. RouteInv => NoOrphanRoute BY DEF RouteInv, NoOrphanRoute
<1> QED BY <1>1, <1>2, <1>3, Invariance, PTL DEF Spec

\* Neither a deployment nor a deletion of another application touches the containers
\* of an application, for any slug function (BuildComposeDownCommand).
THEOREM StacksAreKept == Spec => []EachKeepsItsStack
<1>1. Init => KeepInv BY DEF Init, KeepInv, Unborn, Alive
<1>2. Inv /\ KeepInv /\ [Next]_vars => KeepInv'
  <2>1. Inv /\ KeepInv /\ UNCHANGED vars => KeepInv' BY DEF vars, KeepInv, Alive
  <2> QED BY <2>1, KeepStep
<1>3. KeepInv => EachKeepsItsStack BY DEF KeepInv, EachKeepsItsStack
<1> QED BY <1>1, <1>2, <1>3, Invariance, PTL DEF Spec

-----------------------------------------------------------------------------
(* For any accounts, listings, batches and requests: what two transactions    *)
(* leave of a credential is one import and the servers registered since, by   *)
(* the row locks (LockOf, FactOf);                                            *)
(* what a request carries from its reads to its writes is still true unless   *)
(* it is stale (Handled).                                                     *)

\* A transaction is open.
Open(r) == tx[r].pc \in {"upsert", "delete", "insert"}
\* What a transaction has deleted of a credential, and what it has inserted.
Gone(r, c) == {f \in Facts : <<c, f>> \in tx[r].gone}
Put(r, c) == {f \in Facts : <<c, f>> \in tx[r].put}
\* The item a transaction is at.
Working(r, c) == tx[r].pc \in {"delete", "insert"} /\ c = ItemCred(r)

\* A transaction holds the row of every credential it has stored, until it ends.
LockOf(r) ==
  /\ tx[r].done \subseteq CredsOf(tx[r].batch)
  /\ tx[r].pc \in {"delete", "insert"} => Todo(r) # {}
  /\ \A c \in Creds :
       /\ lock[c] = r => Open(r)
       /\ c \in tx[r].done \/ Working(r, c) => lock[c] = r
LockInv == \A r \in Requests : LockOf(r)

\* Because of the lock, what it deleted of a credential is still all there is.
Emptied(r, c) == c \in tx[r].done \/ (Working(r, c) /\ tx[r].pc = "insert")
FactOf(r, c) ==
  /\ Gone(r, c) = IF Emptied(r, c) THEN facts[c] ELSE {}
  /\ Put(r, c) = IF c \in tx[r].done
                   THEN mergeCredentialInventoryItems(tx[r].batch)[c].facts ELSE {}
FactInv == \A r \in Requests : \A c \in Creds : FactOf(r, c)

\* The inventory for itself.
InventoryInv == InventoryTypes /\ LockInv /\ FactInv /\ InventoryIsOneImport

\* A credential sync works on what it read; unless it is stale that is the account as
\* it is now.
RequestOf(r) ==
  /\ req[r].pc \in {"list", "write"} => req[r].op \in {"install", "sync"}
  /\ req[r].pc \in {"collect", "import", "ok", "failed"} => req[r].op = "creds"
  /\ req[r].pc # "idle" /\ req[r].op # "install" =>
       account # NoAccount /\ req[r].read \in AccountRows
  /\ req[r].pc # "idle" /\ req[r].op = "creds" => req[r].read.enabled
  /\ req[r].pc # "idle" /\ req[r].op # "install" /\ r \notin stale =>
       account.enabled = req[r].read.enabled /\ account.config = req[r].read.config

\* Its transaction imports a credential of every repository.
ImportOf(r) ==
  /\ req[r].pc \in {"import", "ok"} => req[r].read.config # <<>>
  /\ req[r].pc = "import" => tx[r].batch = SyncCredentials(req[r].read.config)
  /\ req[r].pc = "ok" => \A e \in Range(req[r].read.config) : status[e.repo] # None

\* Unless the listing changed, the pages read so far are its beginning.
ListingOf(r) ==
  /\ req[r].pc = "list" /\ r \notin stale =>
       /\ req[r].page * PerPage <= Len(listed)
       /\ req[r].got = SubSeq(listed, 1, req[r].page * PerPage)
  /\ req[r].pc = "write" /\ r \notin stale => req[r].got = listed

Handled(r) == RequestOf(r) /\ ImportOf(r) /\ ListingOf(r)

\* Everything together.
ConnectorInv ==
  /\ AccountTypes /\ InventoryInv
  /\ \A r \in Requests : Handled(r)
  /\ OkMeansImported

-----------------------------------------------------------------------------
\* A set of places that is not empty has a first one.
LEMMA FirstPlace ==
  ASSUME NEW S, S \subseteq Nat, S # {}
  PROVE  (CHOOSE i \in S : \A j \in S : i <= j) \in S
<1> DEFINE R == OpToRel(<, Nat)
<1>1. IsWellFoundedOn(R, Nat) BY NatLessThanWellFounded
<1>2. PICK i \in S : \A j \in S : ~(<<j, i>> \in R)
  <2> HIDE DEF R
  <2> QED BY <1>1, WFMin
<1>3. \A j \in S : ~(j < i) BY <1>2 DEF OpToRel
<1>4. \A j \in S : i <= j BY <1>3
<1> QED BY <1>4

\* The item a transaction is at is one of its batch that it has not stored yet.
LEMMA ItemFacts ==
  ASSUME InventoryTypes, NEW r \in Requests, Todo(r) # {}
  PROVE  ItemCred(r) \in Creds /\ ItemCred(r) \in CredsOf(tx[r].batch) /\ ItemCred(r) \notin tx[r].done
<1> DEFINE b == tx[r].batch
<1>1. b \in Seq(GoodItems) BY DEF InventoryTypes, Transactions
<1>2. Todo(r) \subseteq DOMAIN b BY DEF Todo
<1>3. Todo(r) \subseteq Nat BY <1>1, <1>2
<1>4. PICK i \in Todo(r) : ItemCred(r) = b[i].cred BY <1>3, FirstPlace DEF ItemCred
<1>5. b[i] \in GoodItems BY <1>1, <1>2, <1>4
<1> QED BY <1>2, <1>4, <1>5 DEF Todo, CredsOf, GoodItems

\* The credentials of a batch are the ones it has an item of.
LEMMA NamedCreds ==
  ASSUME NEW b, NEW c
  PROVE  c \in CredsOf(b) <=> SameCred(b, c) # {}
BY DEF CredsOf, SameCred

\* mergedCredentialStatus finds the most alarming one.
LEMMA MostAlarming ==
  ASSUME NEW S, S \subseteq ValidStatuses, S # {}
  PROVE  mergedCredentialStatus(S) \in S
         /\ \A t \in S : Priority(mergedCredentialStatus(S)) >= Priority(t)
<1>1. Priority("revoked") = 4 /\ Priority("rotating") = 3 /\ Priority("unknown") = 2
      /\ Priority("active") = 1
  BY DEF Priority
<1>2. \E s \in S : \A t \in S : Priority(s) >= Priority(t)
  <2>1. CASE "revoked" \in S BY <2>1, <1>1 DEF ValidStatuses
  <2>2. CASE "revoked" \notin S /\ "rotating" \in S BY <2>2, <1>1 DEF ValidStatuses
  <2>3. CASE "revoked" \notin S /\ "rotating" \notin S /\ "unknown" \in S
    BY <2>3, <1>1 DEF ValidStatuses
  <2>4. CASE "revoked" \notin S /\ "rotating" \notin S /\ "unknown" \notin S
    <3>1. \A t \in S : t = "active" BY <2>4 DEF ValidStatuses
    <3>2. \A s, t \in S : Priority(s) >= Priority(t) BY <3>1, <1>1
    <3> QED BY <3>2
  <2> QED BY <2>1, <2>2, <2>3, <2>4
<1> QED BY <1>2 DEF mergedCredentialStatus

\* What a batch makes of a credential it names.
LEMMA Merging ==
  ASSUME NEW b \in Seq(GoodItems), NEW c \in CredsOf(b)
  PROVE  LET m == mergeCredentialInventoryItems(b)[c]
             S == {x.status : x \in SameCred(b, c)}
         IN  /\ m.status \in S /\ \A t \in S : Priority(m.status) >= Priority(t)
             /\ S \subseteq ValidStatuses
             /\ m.facts = UNION {x.facts : x \in SameCred(b, c)} /\ m.facts \subseteq Facts
<1> DEFINE S == {x.status : x \in SameCred(b, c)}
           m == mergeCredentialInventoryItems(b)[c]
<1>1. SameCred(b, c) \subseteq GoodItems BY DEF SameCred
<1>2. S \subseteq ValidStatuses BY <1>1 DEF GoodItems
<1>3. S # {} BY NamedCreds
<1>4. m = [status |-> mergedCredentialStatus(S), facts |-> UNION {x.facts : x \in SameCred(b, c)}]
  BY DEF mergeCredentialInventoryItems
<1>5. m.status = mergedCredentialStatus(S) /\ m.facts = UNION {x.facts : x \in SameCred(b, c)}
  BY <1>4
<1>6. m.facts \subseteq Facts BY <1>1, <1>5 DEF GoodItems
<1>7. m.status \in S /\ \A t \in S : Priority(m.status) >= Priority(t)
  <2> HIDE DEF S, m
  <2> QED BY <1>2, <1>3, <1>5, MostAlarming
<1> QED BY <1>2, <1>5, <1>6, <1>7

\* A step of another transaction that leaves this one's rows alone.
LEMMA OtherRequests ==
  ASSUME NEW q \in Requests, LockOf(q), \A c \in Creds : FactOf(q, c), tx'[q] = tx[q],
         \A c \in Creds : lock'[c] = q <=> lock[c] = q,
         \A c \in Creds : lock[c] = q => facts'[c] = facts[c]
  PROVE  LockOf(q)' /\ \A c \in Creds : FactOf(q, c)'
<1>1. Todo(q)' = Todo(q) BY DEF Todo
<1>2. ItemCred(q)' = ItemCred(q) BY <1>1 DEF ItemCred
<1>3. \A c \in Creds : (Working(q, c)' <=> Working(q, c)) /\ (Emptied(q, c)' <=> Emptied(q, c))
  BY <1>2 DEF Working, Emptied
<1>4. LockOf(q)' BY <1>1, <1>3 DEF LockOf, Open
<1>5. ASSUME NEW c \in Creds PROVE FactOf(q, c)'
  <2>1. Gone(q, c)' = Gone(q, c) /\ Put(q, c)' = Put(q, c) BY DEF Gone, Put
  <2>2. Emptied(q, c) => facts'[c] = facts[c] BY DEF LockOf, Emptied
  <2> QED BY <1>3, <2>1, <2>2 DEF FactOf
<1> QED BY <1>4, <1>5

\* A transaction that has not begun, or is over, has nothing.
LEMMA NothingDone ==
  ASSUME NEW r, tx[r].done = {}, tx[r].gone = {}, tx[r].put = {}, tx[r].pc \in {"idle", "mark", "upsert"}
  PROVE  \A c \in Creds : FactOf(r, c) /\ ~Working(r, c)
BY DEF FactOf, Gone, Put, Emptied, Working

-----------------------------------------------------------------------------
\* The initial inventory.
LEMMA InventoryInitInv ==
  ASSUME InventoryInit PROVE InventoryInv
<1>1. InventoryTypes
  <2>1. NoTx \in Transactions BY DEF NoTx, Transactions
  <2> QED BY <2>1 DEF InventoryInit, InventoryTypes
<1>2. ASSUME NEW r \in Requests PROVE LockOf(r) /\ \A c \in Creds : FactOf(r, c)
  <2>1. tx[r] = NoTx BY DEF InventoryInit
  <2>2. tx[r].done = {} /\ tx[r].gone = {} /\ tx[r].put = {} /\ tx[r].pc = "idle" BY <2>1 DEF NoTx
  <2>3. \A c \in Creds : FactOf(r, c) /\ ~Working(r, c) BY <2>2, NothingDone
  <2>4. \A c \in Creds : lock[c] # r BY BatchAssumption DEF InventoryInit
  <2>5. LockOf(r) BY <2>2, <2>3, <2>4 DEF LockOf
  <2> QED BY <2>3, <2>5
<1>3. InventoryIsOneImport BY DEF InventoryInit, InventoryIsOneImport
<1> QED BY <1>1, <1>2, <1>3 DEF InventoryInv, LockInv, FactInv

\* A transaction begins.
LEMMA BeginBatchInv ==
  ASSUME InventoryInv, NEW r \in Requests, NEW b \in Seq(GoodItems), BeginBatch(r, b)
  PROVE  InventoryInv'
<1>1. tx'[r] = [pc |-> "upsert", batch |-> b, done |-> {}, gone |-> {}, put |-> {}]
      /\ \A q \in Requests : q # r => tx'[q] = tx[q]
  BY DEF InventoryInv, InventoryTypes, BeginBatch, NoTx
<1>2. UNCHANGED <<status, facts, lock, synced, last>> BY DEF BeginBatch
<1>3. InventoryTypes'
  <2>1. tx'[r] \in Transactions BY <1>1 DEF Transactions
  <2>2. tx' = [tx EXCEPT ![r] = tx'[r]] BY DEF BeginBatch, InventoryInv, InventoryTypes
  <2> QED BY <1>2, <2>1, <2>2 DEF InventoryInv, InventoryTypes
<1>4. ASSUME NEW q \in Requests PROVE LockOf(q)' /\ \A c \in Creds : FactOf(q, c)'
  <2>1. CASE q # r BY <2>1, <1>1, <1>2, OtherRequests DEF InventoryInv, LockInv, FactInv
  <2>2. CASE q = r
    <3>1. tx'[r].done = {} /\ tx'[r].gone = {} /\ tx'[r].put = {} /\ tx'[r].pc = "upsert" BY <1>1
    <3>2. \A c \in Creds : FactOf(r, c)' /\ ~Working(r, c)'
      BY <3>1 DEF FactOf, Gone, Put, Emptied, Working
    <3>3. LockOf(r)' BY <3>1, <3>2 DEF LockOf, Open
    <3> QED BY <2>2, <3>2, <3>3
  <2> QED BY <2>1, <2>2
<1>5. InventoryIsOneImport' BY <1>2 DEF InventoryInv, InventoryIsOneImport
<1> QED BY <1>3, <1>4, <1>5 DEF InventoryInv, LockInv, FactInv

\* The upsert locks the row of the item.
LEMMA UpsertCredentialInv ==
  ASSUME InventoryInv, NEW r \in Requests, UpsertCredential(r)
  PROVE  InventoryInv'
<1>0. ItemCred(r) \in Creds /\ ItemCred(r) \notin tx[r].done
  BY ItemFacts DEF InventoryInv, UpsertCredential
<1>1. /\ tx'[r] = [tx[r] EXCEPT !.pc = "delete"]
      /\ \A q \in Requests : q # r => tx'[q] = tx[q]
      /\ tx[r].pc = "upsert" /\ Todo(r) # {}
      /\ lock[ItemCred(r)] \in {None, r} /\ lock' = [lock EXCEPT ![ItemCred(r)] = r]
      /\ UNCHANGED <<status, facts, synced, last>>
  BY DEF InventoryInv, InventoryTypes, UpsertCredential, LockRow, Free
<1>2. /\ tx'[r].pc = "delete" /\ tx'[r].batch = tx[r].batch /\ tx'[r].done = tx[r].done
      /\ tx'[r].gone = tx[r].gone /\ tx'[r].put = tx[r].put
  BY <1>1 DEF InventoryInv, InventoryTypes, Transactions
<1>3. InventoryTypes'
  <2>1. tx'[r] \in Transactions
    <3>1. tx[r] \in Transactions BY DEF InventoryInv, InventoryTypes
    <3> QED BY <3>1, <1>1 DEF Transactions
  <2>2. lock' \in [Creds -> Requests \cup {None}]
    <3>1. lock \in [Creds -> Requests \cup {None}] BY DEF InventoryInv, InventoryTypes
    <3> QED BY <3>1, <1>1
  <2>3. tx' \in [Requests -> Transactions]
    <3>1. tx' = [tx EXCEPT ![r] = tx'[r]] BY <1>1 DEF UpsertCredential, InventoryInv, InventoryTypes
    <3> QED BY <2>1, <3>1 DEF InventoryInv, InventoryTypes
  <2> QED BY <2>2, <1>1, <2>3 DEF InventoryInv, InventoryTypes
<1>4. \A c \in Creds : lock'[c] = IF c = ItemCred(r) THEN r ELSE lock[c]
  BY <1>1 DEF InventoryInv, InventoryTypes
<1>5. ASSUME NEW q \in Requests PROVE LockOf(q)' /\ \A c \in Creds : FactOf(q, c)'
  <2>1. CASE q # r
    <3>1. \A c \in Creds : lock'[c] = q <=> lock[c] = q
      BY <2>1, <1>0, <1>1, <1>4, BatchAssumption
    <3> QED BY <2>1, <3>1, <1>1, OtherRequests DEF InventoryInv, LockInv, FactInv
  <2>2. CASE q = r
    <3>1. Todo(r)' = Todo(r) BY <1>2 DEF Todo
    <3>2. ItemCred(r)' = ItemCred(r) BY <1>2, <3>1 DEF ItemCred
    <3>3. LockOf(r)' BY <1>1, <1>2, <1>4, <3>1, <3>2 DEF InventoryInv, LockInv, LockOf, Open, Working
    <3>4. ASSUME NEW c \in Creds PROVE FactOf(r, c)'
      <4>1. FactOf(r, c) BY DEF InventoryInv, FactInv
      <4>2. Gone(r, c)' = Gone(r, c) /\ Put(r, c)' = Put(r, c) BY <1>2 DEF Gone, Put
      <4>3. Emptied(r, c)' <=> Emptied(r, c) BY <1>1, <1>2 DEF Emptied, Working
      <4> QED BY <1>1, <1>2, <4>1, <4>2, <4>3 DEF FactOf
    <3> QED BY <2>2, <3>3, <3>4
  <2> QED BY <2>1, <2>2
<1>6. InventoryIsOneImport' BY <1>1 DEF InventoryInv, InventoryIsOneImport
<1> QED BY <1>3, <1>5, <1>6 DEF InventoryInv, LockInv, FactInv

\* The deletion of the facts that are visible: all of them.
LEMMA DeleteCredentialFactsInv ==
  ASSUME InventoryInv, NEW r \in Requests, DeleteCredentialFacts(r)
  PROVE  InventoryInv'
<1> DEFINE i == ItemCred(r)
           seen == {<<i, f>> : f \in facts[i]}
<1>0. tx[r].pc = "delete" /\ Todo(r) # {}
  BY DEF DeleteCredentialFacts, InventoryInv, LockInv, LockOf
<1>1. i \in Creds /\ i \notin tx[r].done BY <1>0, ItemFacts DEF InventoryInv
<1>2. facts[i] \subseteq Facts /\ seen \subseteq Creds \X Facts
  BY <1>1 DEF InventoryInv, InventoryTypes
<1>3. /\ tx' = [tx EXCEPT ![r].pc = "insert", ![r].gone = @ \cup seen]
      /\ UNCHANGED <<status, facts, lock, synced, last>>
  BY DEF DeleteCredentialFacts
<1> HIDE DEF seen
<1>4. /\ tx'[r].pc = "insert" /\ tx'[r].batch = tx[r].batch /\ tx'[r].done = tx[r].done
      /\ tx'[r].gone = tx[r].gone \cup seen /\ tx'[r].put = tx[r].put
      /\ \A q \in Requests : q # r => tx'[q] = tx[q]
  BY <1>3 DEF InventoryInv, InventoryTypes, Transactions
<1>5. InventoryTypes'
  <2>1. tx[r] \in Transactions BY DEF InventoryInv, InventoryTypes
  <2>2. [tx[r] EXCEPT !.pc = "insert", !.gone = @ \cup seen] \in Transactions
    BY <2>1, <1>2 DEF Transactions
  <2>3. tx' = [tx EXCEPT ![r] = [tx[r] EXCEPT !.pc = "insert", !.gone = @ \cup seen]]
    BY <1>3 DEF InventoryInv, InventoryTypes
  <2>4. tx' \in [Requests -> Transactions] BY <2>2, <2>3 DEF InventoryInv, InventoryTypes
  <2> QED BY <2>4, <1>3 DEF InventoryInv, InventoryTypes
<1>6. ASSUME NEW q \in Requests PROVE LockOf(q)' /\ \A c \in Creds : FactOf(q, c)'
  <2>1. CASE q # r BY <2>1, <1>3, <1>4, OtherRequests DEF InventoryInv, LockInv, FactInv
  <2>2. CASE q = r
    <3>1. Todo(r)' = Todo(r) BY <1>4 DEF Todo
    <3>2. ItemCred(r)' = i BY <1>4, <3>1 DEF ItemCred
    <3>3. LockOf(r)'
      <4>1. LockOf(r) BY DEF InventoryInv, LockInv
      <4>2. Open(r)' /\ \A c : Working(r, c)' <=> Working(r, c)
        BY <1>0, <1>4, <3>2 DEF Open, Working
      <4> QED BY <1>0, <1>3, <1>4, <3>1, <4>1, <4>2 DEF LockOf
    <3>4. ASSUME NEW c \in Creds PROVE FactOf(r, c)'
      <4>1. FactOf(r, c) BY DEF InventoryInv, FactInv
      <4>2. Put(r, c)' = Put(r, c) BY <1>4 DEF Put
      <4>3. CASE c = i
        <5>1. Gone(r, c) = {} BY <4>1, <4>3, <1>0, <1>1 DEF FactOf, Emptied
        <5>2. Gone(r, c)' = facts[c]
          BY <5>1, <4>3, <1>2, <1>4 DEF Gone, seen
        <5>3. Emptied(r, c)' BY <4>3, <3>2, <1>4 DEF Emptied, Working
        <5> QED BY <4>1, <4>2, <5>2, <5>3, <1>3, <1>4 DEF FactOf
      <4>4. CASE c # i
        <5>1. Gone(r, c)' = Gone(r, c) BY <4>4, <1>4 DEF Gone, seen
        <5>2. Emptied(r, c)' <=> Emptied(r, c) BY <4>4, <3>2, <1>4 DEF Emptied, Working
        <5> QED BY <4>1, <4>2, <5>1, <5>2, <1>3, <1>4 DEF FactOf
      <4> QED BY <4>3, <4>4
    <3> QED BY <2>2, <3>3, <3>4
  <2> QED BY <2>1, <2>2
<1>7. InventoryIsOneImport' BY <1>3 DEF InventoryInv, InventoryIsOneImport
<1> QED BY <1>5, <1>6, <1>7 DEF InventoryInv, LockInv, FactInv

\* The item's facts are inserted.
LEMMA UpsertCredentialFactsInv ==
  ASSUME InventoryInv, NEW r \in Requests, UpsertCredentialFacts(r)
  PROVE  InventoryInv'
<1> DEFINE i == ItemCred(r)
           new == {<<i, f>> : f \in Item(r).facts}
<1>0. tx[r].pc = "insert" /\ Todo(r) # {}
  BY DEF UpsertCredentialFacts, InventoryInv, LockInv, LockOf
<1>1. i \in Creds /\ i \notin tx[r].done /\ i \in CredsOf(tx[r].batch)
  BY <1>0, ItemFacts DEF InventoryInv
<1>b. tx[r].batch \in Seq(GoodItems) BY DEF InventoryInv, InventoryTypes, Transactions
<1>2. /\ Item(r).facts = mergeCredentialInventoryItems(tx[r].batch)[i].facts
      /\ Item(r).facts \subseteq Facts /\ new \subseteq Creds \X Facts
  <2>1. Item(r).facts = mergeCredentialInventoryItems(tx[r].batch)[i].facts BY DEF Item
  <2>2. Item(r).facts \subseteq Facts BY <2>1, <1>1, <1>b, Merging
  <2> QED BY <2>1, <2>2, <1>1
<1>3. /\ tx' = [tx EXCEPT ![r].pc = "upsert", ![r].put = @ \cup new, ![r].done = @ \cup {i}]
      /\ UNCHANGED <<status, facts, lock, synced, last>>
  BY DEF UpsertCredentialFacts
<1> HIDE DEF new
<1>4. /\ tx'[r].pc = "upsert" /\ tx'[r].batch = tx[r].batch /\ tx'[r].done = tx[r].done \cup {i}
      /\ tx'[r].put = tx[r].put \cup new /\ tx'[r].gone = tx[r].gone
      /\ \A q \in Requests : q # r => tx'[q] = tx[q]
  BY <1>3 DEF InventoryInv, InventoryTypes, Transactions
<1>5. InventoryTypes'
  <2>1. tx[r] \in Transactions BY DEF InventoryInv, InventoryTypes
  <2>2. [tx[r] EXCEPT !.pc = "upsert", !.put = @ \cup new, !.done = @ \cup {i}] \in Transactions
    BY <2>1, <1>1, <1>2 DEF Transactions
  <2>3. tx' = [tx EXCEPT ![r] = [tx[r] EXCEPT !.pc = "upsert", !.put = @ \cup new, !.done = @ \cup {i}]]
    BY <1>3 DEF InventoryInv, InventoryTypes
  <2>4. tx' \in [Requests -> Transactions] BY <2>2, <2>3 DEF InventoryInv, InventoryTypes
  <2> QED BY <2>4, <1>3 DEF InventoryInv, InventoryTypes
<1>6. ASSUME NEW q \in Requests PROVE LockOf(q)' /\ \A c \in Creds : FactOf(q, c)'
  <2>1. CASE q # r BY <2>1, <1>3, <1>4, OtherRequests DEF InventoryInv, LockInv, FactInv
  <2>2. CASE q = r
    <3>1. \A c : ~Working(r, c)' BY <1>4 DEF Working
    <3>2. LockOf(r) /\ Working(r, i) BY <1>0 DEF InventoryInv, LockInv, Working
    <3>3. LockOf(r)' BY <1>1, <1>3, <1>4, <3>1, <3>2 DEF LockOf, Open
    <3>4. ASSUME NEW c \in Creds PROVE FactOf(r, c)'
      <4>1. FactOf(r, c) BY DEF InventoryInv, FactInv
      <4>2. Gone(r, c)' = Gone(r, c) BY <1>4 DEF Gone
      <4>3. Emptied(r, c)' <=> Emptied(r, c) BY <1>0, <1>4, <3>1 DEF Emptied, Working
      <4>4. CASE c = i
        <5>1. Put(r, c) = {} BY <4>1, <4>4, <1>1 DEF FactOf
        <5>2. Put(r, c)' = Item(r).facts BY <5>1, <4>4, <1>2, <1>4 DEF Put, new
        <5> QED BY <4>1, <4>2, <4>3, <4>4, <5>2, <1>2, <1>3, <1>4 DEF FactOf
      <4>5. CASE c # i
        <5>1. Put(r, c)' = Put(r, c) BY <4>5, <1>4 DEF Put, new
        <5> QED BY <4>1, <4>2, <4>3, <4>5, <5>1, <1>3, <1>4 DEF FactOf
      <4> QED BY <4>4, <4>5
    <3> QED BY <2>2, <3>3, <3>4
  <2> QED BY <2>1, <2>2
<1>7. InventoryIsOneImport' BY <1>3 DEF InventoryInv, InventoryIsOneImport
<1> QED BY <1>5, <1>6, <1>7 DEF InventoryInv, LockInv, FactInv

\* What is left of it.
LEMMA EndedTx ==
  ASSUME NEW then \in {"idle", "mark"}
  PROVE  LET t == [NoTx EXCEPT !.pc = then]
         IN  /\ t \in Transactions
             /\ t.pc = then /\ t.done = {} /\ t.gone = {} /\ t.put = {}
<1>1. NoTx \in Transactions /\ NoTx.done = {} /\ NoTx.gone = {} /\ NoTx.put = {}
  BY DEF NoTx, Transactions
<1>2. then \in {"idle", "upsert", "delete", "insert", "mark"} OBVIOUS
<1> QED BY <1>1, <1>2 DEF Transactions

\* A transaction that ends gives up its rows and nobody else's.
LEMMA Releasing ==
  ASSUME InventoryInv, NEW r \in Requests, Release(r), NEW then \in {"idle", "mark"},
         tx' = [tx EXCEPT ![r] = [NoTx EXCEPT !.pc = then]],
         \A c \in Creds : lock[c] # r => facts'[c] = facts[c]
  PROVE  /\ tx' \in [Requests -> Transactions] /\ lock' \in [Creds -> Requests \cup {None}]
         /\ LockInv' /\ FactInv'
<1>1. [NoTx EXCEPT !.pc = then] \in Transactions BY EndedTx
<1>2. tx' \in [Requests -> Transactions] BY <1>1 DEF InventoryInv, InventoryTypes
<1>3. lock' \in [Creds -> Requests \cup {None}] BY DEF InventoryInv, InventoryTypes, Release
<1>4. tx'[r] = [NoTx EXCEPT !.pc = then] /\ \A q \in Requests : q # r => tx'[q] = tx[q]
  BY DEF InventoryInv, InventoryTypes
<1>5. ASSUME NEW q \in Requests PROVE LockOf(q)' /\ \A c \in Creds : FactOf(q, c)'
  <2>1. CASE q # r
    <3>1. \A c \in Creds : lock'[c] = q <=> lock[c] = q BY <2>1, BatchAssumption DEF Release
    <3>2. \A c \in Creds : lock[c] = q => facts'[c] = facts[c] BY <2>1
    <3> QED BY <2>1, <3>1, <3>2, <1>4, OtherRequests DEF InventoryInv, LockInv, FactInv
  <2>2. CASE q = r
    <3>1. tx'[r].done = {} /\ tx'[r].gone = {} /\ tx'[r].put = {} /\ tx'[r].pc \in {"idle", "mark"}
      BY <1>4, EndedTx
    <3>2. \A c \in Creds : FactOf(r, c)' /\ ~Working(r, c)'
      BY <3>1 DEF FactOf, Gone, Put, Emptied, Working
    <3>3. \A c \in Creds : lock'[c] # r BY BatchAssumption DEF Release
    <3>4. LockOf(r)' BY <3>1, <3>2, <3>3 DEF LockOf
    <3> QED BY <2>2, <3>2, <3>4
  <2> QED BY <2>1, <2>2
<1> QED BY <1>2, <1>3, <1>5 DEF LockInv, FactInv

\* A failed statement, or a deadlock.
LEMMA AbortInv ==
  ASSUME InventoryInv, NEW r \in Requests, Rollback(r) \/ DeadlockDetected(r)
  PROVE  InventoryInv'
<1>1. /\ Release(r) /\ tx' = [tx EXCEPT ![r] = NoTx]
      /\ UNCHANGED <<status, facts, synced, last>>
  BY DEF Rollback, DeadlockDetected
<1>2. NoTx = [NoTx EXCEPT !.pc = "idle"] BY DEF NoTx
<1>3. tx' \in [Requests -> Transactions] /\ lock' \in [Creds -> Requests \cup {None}]
      /\ LockInv' /\ FactInv'
  BY <1>1, <1>2, Releasing
<1>4. InventoryTypes' BY <1>1, <1>3 DEF InventoryInv, InventoryTypes
<1>5. InventoryIsOneImport' BY <1>1 DEF InventoryInv, InventoryIsOneImport
<1> QED BY <1>3, <1>4, <1>5 DEF InventoryInv

\* After the commit of an endpoint's batch.
LEMMA MarkSyncedInv ==
  ASSUME InventoryInv, NEW r \in Requests, markInventoryConnectorsSynced(r)
  PROVE  InventoryInv'
<1>1. /\ tx' = [tx EXCEPT ![r] = NoTx] /\ tx[r].pc = "mark"
      /\ UNCHANGED <<status, facts, lock, last>> /\ (synced' = TRUE \/ synced' = synced)
  BY DEF markInventoryConnectorsSynced
<1>2. \A c \in Creds : lock[c] # r BY <1>1 DEF InventoryInv, LockInv, LockOf, Open
<1>3. Release(r)
  <2>1. lock = [c \in Creds |-> lock[c]] BY DEF InventoryInv, InventoryTypes
  <2> QED BY <1>1, <1>2, <2>1 DEF Release
<1>4. NoTx = [NoTx EXCEPT !.pc = "idle"] BY DEF NoTx
<1>5. tx' \in [Requests -> Transactions] /\ LockInv' /\ FactInv'
  BY <1>1, <1>3, <1>4, Releasing
<1>6. InventoryTypes' BY <1>1, <1>5 DEF InventoryInv, InventoryTypes
<1>7. InventoryIsOneImport' BY <1>1 DEF InventoryInv, InventoryIsOneImport
<1> QED BY <1>5, <1>6, <1>7 DEF InventoryInv

\* The commit: what it deleted is all there was, and what it inserted is all there is.
LEMMA CommitInv ==
  ASSUME InventoryInv, NEW r \in Requests, NEW then \in {"idle", "mark"}, Commit(r, then)
  PROVE  /\ InventoryInv'
         /\ \A c \in CredsOf(tx[r].batch) : status'[c] \in ValidStatuses
         /\ \A c \in Creds : c \in CredsOf(tx[r].batch) \/ status'[c] = status[c]
<1> DEFINE b == tx[r].batch
           merged == mergeCredentialInventoryItems(b)
<1>1. b \in Seq(GoodItems) BY DEF InventoryInv, InventoryTypes, Transactions
<1>2. tx[r].pc = "upsert" /\ Todo(r) = {} BY DEF Commit
<1>3. tx[r].done = CredsOf(b)
  <2>1. CredsOf(b) \subseteq tx[r].done BY <1>2 DEF Todo, CredsOf
  <2> QED BY <2>1 DEF InventoryInv, LockInv, LockOf
<1>4. \A c \in Creds : FactOf(r, c) /\ (Emptied(r, c) <=> c \in CredsOf(b))
  BY <1>2, <1>3 DEF InventoryInv, FactInv, Emptied, Working
<1>5. \A c \in Creds : facts'[c] = (facts[c] \ Gone(r, c)) \cup Put(r, c)
  BY DEF Commit, Gone, Put
<1>6. \A c \in Creds : facts'[c] = IF c \in CredsOf(b) THEN merged[c].facts ELSE facts[c]
  BY <1>3, <1>4, <1>5 DEF FactOf
<1>7. DOMAIN merged = CredsOf(b) BY DEF mergeCredentialInventoryItems
<1>8. \A c \in Creds : status'[c] = IF c \in CredsOf(b) THEN merged[c].status ELSE status[c]
  BY <1>7 DEF Commit
<1>9. \A c \in Creds : last'[c] = IF c \notin CredsOf(b) THEN last[c]
        ELSE [statuses |-> {x.status : x \in SameCred(b, c)},
              facts |-> UNION {x.facts : x \in SameCred(b, c)}]
  BY NamedCreds DEF Commit
<1>10. \A c \in CredsOf(b) : c \in Creds
  <2>1. \A i \in DOMAIN b : b[i] \in GoodItems BY <1>1
  <2>2. \A i \in DOMAIN b : b[i].cred \in Creds BY <2>1 DEF GoodItems
  <2> HIDE DEF b
  <2> QED BY <2>2 DEF CredsOf
<1>11. /\ Release(r) /\ tx' = [tx EXCEPT ![r] = [NoTx EXCEPT !.pc = then]]
       /\ synced' = synced
  BY DEF Commit
<1>12. \A c \in Creds : lock[c] # r => facts'[c] = facts[c]
  BY <1>3, <1>6 DEF InventoryInv, LockInv, LockOf
<1>13. tx' \in [Requests -> Transactions] /\ lock' \in [Creds -> Requests \cup {None}]
       /\ LockInv' /\ FactInv'
  BY <1>11, <1>12, Releasing
<1>14. ASSUME NEW c \in Creds, c \in CredsOf(b)
       PROVE  /\ status'[c] \in last'[c].statuses
              /\ \A t \in last'[c].statuses : Priority(status'[c]) >= Priority(t)
              /\ last'[c].statuses \subseteq ValidStatuses
              /\ last'[c].facts \subseteq Facts /\ facts'[c] = last'[c].facts
  <2> DEFINE S == {x.status : x \in SameCred(b, c)}
             m == merged[c]
             F == UNION {x.facts : x \in SameCred(b, c)}
  <2>1. /\ m.status \in S /\ \A t \in S : Priority(m.status) >= Priority(t)
        /\ S \subseteq ValidStatuses
        /\ m.facts = F /\ m.facts \subseteq Facts
    BY <1>1, <1>14, Merging
  <2>2. last'[c] = [statuses |-> S, facts |-> F] BY <1>9, <1>14
  <2>3. last'[c].statuses = S /\ last'[c].facts = F BY <2>2
  <2>4. status'[c] = m.status /\ facts'[c] = m.facts BY <1>6, <1>8, <1>14
  <2> HIDE DEF S, m, F
  <2> QED BY <2>1, <2>3, <2>4
<1>15. InventoryTypes'
  <2>1. status' \in [Creds -> ValidStatuses \cup {None}]
    <3>1. \A c \in Creds : status'[c] \in ValidStatuses \cup {None}
      BY <1>8, <1>14 DEF InventoryInv, InventoryTypes
    <3>2. status' = [c \in Creds |-> status'[c]] BY DEF Commit
    <3> QED BY <3>1, <3>2
  <2>2. facts' \in [Creds -> SUBSET Facts]
    <3>1. \A c \in Creds : facts'[c] \in SUBSET Facts
      BY <1>6, <1>14 DEF InventoryInv, InventoryTypes
    <3>2. facts' = [c \in Creds |-> facts'[c]] BY DEF Commit
    <3> QED BY <3>1, <3>2
  <2>3. last' \in [Creds -> [statuses : SUBSET ValidStatuses, facts : SUBSET Facts]]
    <3>1. \A c \in Creds : last'[c] \in [statuses : SUBSET ValidStatuses, facts : SUBSET Facts]
      <4> SUFFICES ASSUME NEW c \in Creds
                   PROVE  last'[c] \in [statuses : SUBSET ValidStatuses, facts : SUBSET Facts]
        OBVIOUS
      <4>1. CASE c \notin CredsOf(b) BY <4>1, <1>9 DEF InventoryInv, InventoryTypes
      <4>2. CASE c \in CredsOf(b)
        <5>1. last'[c].statuses \subseteq ValidStatuses /\ last'[c].facts \subseteq Facts
          BY <4>2, <1>14
        <5>2. \E S, F : last'[c] = [statuses |-> S, facts |-> F] BY <4>2, <1>9
        <5> QED BY <5>1, <5>2
      <4> QED BY <4>1, <4>2
    <3>2. last' = [c \in Creds |-> last'[c]] BY DEF Commit
    <3> QED BY <3>1, <3>2
  <2> QED BY <2>1, <2>2, <2>3, <1>11, <1>13 DEF InventoryInv, InventoryTypes
<1>16. InventoryIsOneImport'
  <2> SUFFICES ASSUME NEW c \in Creds
               PROVE  /\ facts'[c] = last'[c].facts
                      /\ \A s \in last'[c].statuses :
                           status'[c] \in last'[c].statuses /\ Priority(status'[c]) >= Priority(s)
    BY DEF InventoryIsOneImport
  <2>1. CASE c \in CredsOf(b) BY <2>1, <1>14
  <2>2. CASE c \notin CredsOf(b)
    BY <2>2, <1>6, <1>8, <1>9 DEF InventoryInv, InventoryIsOneImport
  <2> QED BY <2>1, <2>2
<1>17. \A c \in CredsOf(b) : status'[c] \in ValidStatuses BY <1>10, <1>14
<1> QED BY <1>8, <1>13, <1>15, <1>16, <1>17 DEF InventoryInv

\* A server is registered: no transaction has the row of its key.
LEMMA RegistrationInv ==
  ASSUME InventoryInv, NEW key \in SshKeys, NEW server \in Servers,
         CreateServerWithSSHInventory(key, server)
  PROVE  InventoryInv' /\ \A c \in Creds : status[c] # None => status'[c] # None
<1> DEFINE new == [statuses |-> {"active"}, facts |-> last[key].facts \cup {server}]
<1>1. key \in Creds /\ server \in Facts BY BatchAssumption
<1>2. /\ status \in [Creds -> ValidStatuses \cup {None}] /\ facts \in [Creds -> SUBSET Facts]
      /\ last \in [Creds -> [statuses : SUBSET ValidStatuses, facts : SUBSET Facts]]
  BY DEF InventoryInv, InventoryTypes
<1>3. /\ lock[key] = None /\ UNCHANGED <<lock, tx, synced>>
      /\ status' = [status EXCEPT ![key] = "active"]
      /\ facts' = [facts EXCEPT ![key] = facts[key] \cup {server}]
      /\ last' = [last EXCEPT ![key] = new]
  BY <1>1, <1>2 DEF CreateServerWithSSHInventory
<1>4. new \in [statuses : SUBSET ValidStatuses, facts : SUBSET Facts]
      /\ new.statuses = {"active"} /\ new.facts = last[key].facts \cup {server}
  BY <1>1, <1>2 DEF ValidStatuses
<1> HIDE DEF new
<1>5. InventoryTypes'
  <2>1. status' \in [Creds -> ValidStatuses \cup {None}] BY <1>1, <1>2, <1>3 DEF ValidStatuses
  <2>2. facts' \in [Creds -> SUBSET Facts] BY <1>1, <1>2, <1>3
  <2>3. last' \in [Creds -> [statuses : SUBSET ValidStatuses, facts : SUBSET Facts]]
    BY <1>2, <1>3, <1>4
  <2> QED BY <1>3, <2>1, <2>2, <2>3 DEF InventoryInv, InventoryTypes
<1>6. \A c \in Creds : lock[c] # None => facts'[c] = facts[c] BY <1>2, <1>3
<1>7. ASSUME NEW q \in Requests PROVE LockOf(q)' /\ \A c \in Creds : FactOf(q, c)'
  <2>1. \A c \in Creds : lock[c] = q => facts'[c] = facts[c] BY <1>6, BatchAssumption
  <2> QED BY <1>3, <2>1, OtherRequests DEF InventoryInv, LockInv, FactInv
<1>8. ASSUME NEW c \in Creds
      PROVE  /\ facts'[c] = last'[c].facts
             /\ \A s \in last'[c].statuses :
                  status'[c] \in last'[c].statuses /\ Priority(status'[c]) >= Priority(s)
  <2>1. facts[c] = last[c].facts BY DEF InventoryInv, InventoryIsOneImport
  <2>2. CASE c = key
    <3>1. facts'[c] = facts[c] \cup {server} /\ last'[c] = new /\ status'[c] = "active"
      BY <1>1, <1>2, <1>3, <2>2
    <3>2. Priority("active") >= Priority("active") BY DEF Priority
    <3> QED BY <1>4, <2>1, <2>2, <3>1, <3>2
  <2>3. CASE c # key
    <3>1. facts'[c] = facts[c] /\ last'[c] = last[c] /\ status'[c] = status[c]
      BY <1>2, <1>3, <2>3
    <3> QED BY <3>1 DEF InventoryInv, InventoryIsOneImport
  <2> QED BY <2>2, <2>3
<1>9. \A c \in Creds : status[c] # None => status'[c] # None
  <2>1. "active" # None BY BatchAssumption DEF ValidStatuses
  <2> QED BY <1>2, <1>3, <2>1
<1> QED BY <1>5, <1>7, <1>8, <1>9 DEF InventoryInv, LockInv, FactInv, InventoryIsOneImport

-----------------------------------------------------------------------------
\* What is in one of two sequences is in the two joined.
LEMMA JoinedRange ==
  ASSUME NEW S, NEW s \in Seq(S), NEW t \in Seq(S)
  PROVE  s \o t \in Seq(S) /\ Range(s) \subseteq Range(s \o t) /\ Range(t) \subseteq Range(s \o t)
<1> DEFINE u == s \o t
<1>1. u \in Seq(S) /\ Len(u) = Len(s) + Len(t) /\ DOMAIN u = 1 .. Len(u) OBVIOUS
<1>2. ASSUME NEW x \in Range(s) PROVE x \in Range(u)
  <2>1. PICK i \in DOMAIN s : x = s[i] BY <1>2 DEF Range
  <2>2. i \in DOMAIN u /\ u[i] = x BY <2>1
  <2> HIDE DEF u
  <2> QED BY <2>2 DEF Range
<1>3. ASSUME NEW x \in Range(t) PROVE x \in Range(u)
  <2>1. PICK i \in DOMAIN t : x = t[i] BY <1>3 DEF Range
  <2>2. Len(s) + i \in DOMAIN u /\ u[Len(s) + i] = x BY <2>1
  <2> HIDE DEF u
  <2> QED BY <2>2 DEF Range
<1> HIDE DEF u
<1>4. Range(s) \subseteq Range(u) /\ Range(t) \subseteq Range(u) BY <1>2, <1>3
<1> QED BY <1>1, <1>4 DEF u

\* What defines the function FlattenSeq uses, on the first m sequences.
IsFlattening(f, ss, m) == f = [i \in 1 .. m |-> IF i = 1 THEN ss[i] ELSE f[i - 1] \o ss[i]]

\* A set of numbers that is not empty has a least one.
LEMMA Least ==
  ASSUME NEW T, T \subseteq Nat, T # {}
  PROVE  \E m \in T : \A k \in T : m <= k
<1> DEFINE R == OpToRel(<, Nat)
<1>1. IsWellFoundedOn(R, Nat) BY NatLessThanWellFounded
<1>2. PICK i \in T : \A j \in T : ~(<<j, i>> \in R)
  <2> HIDE DEF R
  <2> QED BY <1>1, WFMin
<1>3. \A j \in T : ~(j < i) BY <1>2 DEF OpToRel
<1>4. \A j \in T : i <= j BY <1>3
<1> QED BY <1>4

\* There is such a function.
LEMMA FlatteningExists ==
  ASSUME NEW ss, NEW n \in Nat
  PROVE  \E f : IsFlattening(f, ss, n)
<1> DEFINE T == {m \in Nat : ~\E f : IsFlattening(f, ss, m)}
<1>1. ASSUME T # {} PROVE FALSE
  <2>1. PICK m \in T : \A k \in T : m <= k BY <1>1, Least
  <2>2. m \in Nat /\ ~\E f : IsFlattening(f, ss, m) OBVIOUS
  <2>3. CASE m = 0
    <3> DEFINE g == [i \in 1 .. 0 |-> ss]
    <3>1. 1 .. 0 = {} OBVIOUS
    <3>2. IsFlattening(g, ss, 0) BY <3>1 DEF IsFlattening
    <3> QED BY <2>2, <2>3, <3>2
  <2>4. CASE m # 0
    <3>1. m - 1 \in Nat /\ ~(m <= m - 1) BY <2>2, <2>4
    <3>2. m - 1 \notin T BY <2>1, <3>1
    <3>3. PICK f : IsFlattening(f, ss, m - 1) BY <3>1, <3>2
    <3> DEFINE g == [i \in 1 .. m |-> IF i = 1 THEN ss[i] ELSE f[i - 1] \o ss[i]]
    <3>4. \A i \in 1 .. m - 1 : f[i] = IF i = 1 THEN ss[i] ELSE f[i - 1] \o ss[i]
      BY <3>3 DEF IsFlattening
    <3>5. \A i \in 1 .. m : i # 1 => i - 1 \in 1 .. m - 1 BY <2>2
    <3>6. \A i \in 1 .. m - 1 : i \in 1 .. m BY <2>2
    <3>7. \A i \in 1 .. m - 1 : g[i] = f[i] BY <3>4, <3>6
    <3>8. \A i \in 1 .. m : g[i] = IF i = 1 THEN ss[i] ELSE g[i - 1] \o ss[i]
      <4> SUFFICES ASSUME NEW i \in 1 .. m
                   PROVE  g[i] = IF i = 1 THEN ss[i] ELSE g[i - 1] \o ss[i]
        OBVIOUS
      <4>1. g[i] = IF i = 1 THEN ss[i] ELSE f[i - 1] \o ss[i] OBVIOUS
      <4>2. i # 1 => g[i - 1] = f[i - 1] BY <3>5, <3>7
      <4> HIDE DEF g
      <4> QED BY <4>1, <4>2
    <3>9. g = [i \in 1 .. m |-> g[i]] OBVIOUS
    <3> HIDE DEF g
    <3>10. IsFlattening(g, ss, m) BY <3>8, <3>9 DEF IsFlattening
    <3> QED BY <2>2, <3>10
  <2> QED BY <2>3, <2>4
<1> QED BY <1>1

\* FlattenSeq of sequences over S is one, and nothing is lost.
LEMMA Flattened ==
  ASSUME NEW S, NEW ss \in Seq(Seq(S))
  PROVE  FlattenSeq(ss) \in Seq(S) /\ \A i \in DOMAIN ss : Range(ss[i]) \subseteq Range(FlattenSeq(ss))
<1> DEFINE n == Len(ss)
<1>0. n \in Nat /\ DOMAIN ss = 1 .. n /\ \A i \in 1 .. n : ss[i] \in Seq(S) OBVIOUS
<1>1. CASE n = 0
  <2>1. FlattenSeq(ss) = ss BY <1>1 DEF FlattenSeq
  <2>2. ss = <<>> /\ <<>> \in Seq(S) /\ DOMAIN ss = {} BY <1>1, <1>0
  <2> QED BY <2>1, <2>2
<1>2. CASE n # 0
  <2> DEFINE F == CHOOSE f : IsFlattening(f, ss, n)
  <2>1. IsFlattening(F, ss, n)
    <3> HIDE DEF n
    <3> QED BY <1>0, FlatteningExists
  <2>2. FlattenSeq(ss) = F[n] BY <1>2 DEF FlattenSeq, IsFlattening
  <2> HIDE DEF F, n
  <2>3. \A i \in 1 .. n : F[i] = IF i = 1 THEN ss[i] ELSE F[i - 1] \o ss[i]
    BY <2>1 DEF IsFlattening
  <2> DEFINE Good(m) == F[m] \in Seq(S) /\ \A i \in 1 .. m : Range(ss[i]) \subseteq Range(F[m])
             T == {m \in 1 .. n : ~Good(m)}
  <2>4. ASSUME T # {} PROVE FALSE
    <3>0. T \subseteq Nat BY <1>0
    <3>1. PICK m \in T : \A k \in T : m <= k
      <4> HIDE DEF T
      <4> QED BY <2>4, <3>0, Least
    <3>2. m \in 1 .. n /\ ~Good(m) /\ m \in Nat /\ ss[m] \in Seq(S) BY <1>0
    <3>3. CASE m = 1
      <4>1. F[m] = ss[m] BY <2>3, <3>2, <3>3
      <4>2. \A i \in 1 .. m : i = m BY <3>3
      <4> QED BY <4>1, <4>2, <3>2
    <3>4. CASE m # 1
      <4>1. m - 1 \in 1 .. n /\ ~(m <= m - 1) BY <3>2, <3>4, <1>0
      <4>2. Good(m - 1)
        <5> HIDE DEF Good
        <5> QED BY <3>1, <4>1
      <4>3. F[m] = F[m - 1] \o ss[m] BY <2>3, <3>2, <3>4
      <4>4. F[m - 1] \in Seq(S) /\ \A i \in 1 .. m - 1 : Range(ss[i]) \subseteq Range(F[m - 1]) BY <4>2
      <4>5. F[m] \in Seq(S) /\ Range(F[m - 1]) \subseteq Range(F[m]) /\ Range(ss[m]) \subseteq Range(F[m])
        BY <3>2, <4>3, <4>4, JoinedRange
      <4>6. \A i \in 1 .. m : i = m \/ i \in 1 .. m - 1 BY <3>2
      <4>7. Good(m) BY <4>4, <4>5, <4>6
      <4> QED BY <3>2, <4>7
    <3> QED BY <3>3, <3>4
  <2>5. n \in 1 .. n BY <1>0, <1>2
  <2>6. Good(n)
    <3> HIDE DEF Good
    <3> QED BY <2>4, <2>5
  <2> QED BY <2>2, <2>6, <1>0 DEF n
<1> QED BY <1>1, <1>2

-----------------------------------------------------------------------------
\* The entries of a repository are kept.
LEMMA EntriesKept ==
  ASSUME NEW existing \in Seq(Entries), NEW repo
  PROVE  /\ EntriesOf(repo, existing) \in Seq(Entries)
         /\ \A e \in Range(existing) :
              e.repo = repo => [e EXCEPT !.filled = TRUE] \in Range(EntriesOf(repo, existing))
<1> DEFINE item(k) == IF existing[k].repo = repo THEN <<[existing[k] EXCEPT !.filled = TRUE]>> ELSE <<>>
           ss == [k \in DOMAIN existing |-> item(k)]
<1>0. Len(existing) \in Nat /\ DOMAIN existing = 1 .. Len(existing) OBVIOUS
<1>1. \A k \in DOMAIN existing : item(k) \in Seq(Entries)
  <2> SUFFICES ASSUME NEW k \in DOMAIN existing PROVE item(k) \in Seq(Entries) OBVIOUS
  <2>1. existing[k] \in Entries OBVIOUS
  <2>2. [existing[k] EXCEPT !.filled = TRUE] \in Entries BY <2>1 DEF Entries
  <2> QED BY <2>2
<1>2. EntriesOf(repo, existing) = FlattenSeq(ss) BY DEF EntriesOf
<1>3. \A k \in DOMAIN existing : ss[k] = item(k) OBVIOUS
<1>4. ss \in Seq(Seq(Entries)) /\ DOMAIN ss = DOMAIN existing
  <2> HIDE DEF item
  <2> QED BY <1>0, <1>1
<1>5. ASSUME NEW e \in Range(existing), e.repo = repo
      PROVE  [e EXCEPT !.filled = TRUE] \in Range(FlattenSeq(ss))
  <2>1. PICK k \in DOMAIN existing : e = existing[k] BY <1>5 DEF Range
  <2>2. ss[k] = <<[e EXCEPT !.filled = TRUE]>> BY <2>1, <1>3, <1>5
  <2> HIDE DEF ss
  <2>3. DOMAIN ss[k] = {1} /\ ss[k][1] = [e EXCEPT !.filled = TRUE] BY <2>2
  <2>4. [e EXCEPT !.filled = TRUE] \in Range(ss[k]) BY <2>3 DEF Range
  <2> QED BY <2>1, <2>4, <1>4, Flattened
<1> HIDE DEF ss
<1> QED BY <1>2, <1>4, <1>5, Flattened

\* githubConfigFromInstallationRepositoriesWithDefaults keeps the entries of every
\* repository that is listed.
LEMMA DefaultsKeep ==
  ASSUME NEW repos \in Seq(Repos), NEW existing \in Seq(Entries)
  PROVE  /\ ConfigWithDefaults(repos, existing) \in Seq(Entries)
         /\ \A e \in Range(existing) : e.repo \in Range(repos) =>
              [e EXCEPT !.filled = TRUE] \in Range(ConfigWithDefaults(repos, existing))
<1> DEFINE item(i) == IF EntriesOf(repos[i], existing) = <<>> THEN <<NewEntry(repos[i])>>
                      ELSE EntriesOf(repos[i], existing)
           ss == [i \in DOMAIN repos |-> item(i)]
<1>0. Len(repos) \in Nat /\ DOMAIN repos = 1 .. Len(repos) OBVIOUS
<1>1. \A i \in DOMAIN repos : item(i) \in Seq(Entries)
  <2> SUFFICES ASSUME NEW i \in DOMAIN repos PROVE item(i) \in Seq(Entries) OBVIOUS
  <2>1. NewEntry(repos[i]) \in Entries BY DEF NewEntry, Entries
  <2>2. EntriesOf(repos[i], existing) \in Seq(Entries) BY EntriesKept
  <2> QED BY <2>1, <2>2
<1>2. ConfigWithDefaults(repos, existing) = FlattenSeq(ss) BY DEF ConfigWithDefaults
<1>3. \A i \in DOMAIN repos : ss[i] = item(i) OBVIOUS
<1>4. ss \in Seq(Seq(Entries)) /\ DOMAIN ss = DOMAIN repos
  <2> HIDE DEF item
  <2> QED BY <1>0, <1>1
<1>5. ASSUME NEW e \in Range(existing), e.repo \in Range(repos)
      PROVE  [e EXCEPT !.filled = TRUE] \in Range(FlattenSeq(ss))
  <2>1. PICK i \in DOMAIN repos : e.repo = repos[i] BY <1>5 DEF Range
  <2>2. [e EXCEPT !.filled = TRUE] \in Range(EntriesOf(repos[i], existing)) BY <2>1, EntriesKept
  <2>3. EntriesOf(repos[i], existing) # <<>>
    <3>1. DOMAIN <<>> = {} OBVIOUS
    <3> QED BY <2>2, <3>1 DEF Range
  <2>4. ss[i] = EntriesOf(repos[i], existing) BY <2>1, <2>3, <1>3
  <2> HIDE DEF ss
  <2> QED BY <2>1, <2>2, <2>4, <1>4, Flattened
<1> HIDE DEF ss
<1> QED BY <1>2, <1>4, <1>5, Flattened

-----------------------------------------------------------------------------
\* The repositories of an account are credentials, and an import takes none away.
LEMMA StillImported ==
  ASSUME NEW row \in AccountRows, \A c \in Creds : status[c] # None => status'[c] # None,
         \A e \in Range(row.config) : status[e.repo] # None
  PROVE  \A e \in Range(row.config) : status'[e.repo] # None
<1>1. row.config \in Seq(Entries) BY DEF AccountRows
<1>2. Range(row.config) \subseteq Entries BY <1>1 DEF Range
<1>3. \A e \in Range(row.config) : e.repo \in Creds BY <1>2, ConnectorAssumption DEF Entries
<1> QED BY <1>3

\* A step that leaves a request alone, and its account and listing too unless it
\* makes the request stale.
LEMMA OtherHandlers ==
  ASSUME NEW q \in Requests, Handled(q), req'[q] = req[q], tx'[q] = tx[q],
         \A c \in Creds : status[c] # None => status'[c] # None,
         account # NoAccount => account' # NoAccount,
         \/ q \in stale' \/ req[q].pc = "idle"
         \/ /\ q \notin stale /\ listed' = listed
            /\ account'.enabled = account.enabled /\ account'.config = account.config
  PROVE  Handled(q)'
<1>1. RequestOf(q)' BY DEF Handled, RequestOf
<1>2. ImportOf(q)'
  <2>1. req[q].pc = "ok" => req[q].read \in AccountRows BY DEF Handled, RequestOf
  <2> QED BY <2>1, StillImported DEF Handled, ImportOf, SyncCredentials
<1>3. ListingOf(q)' BY DEF Handled, ListingOf
<1> QED BY <1>1, <1>2, <1>3 DEF Handled

\* A request that ends.
LEMMA EndedHandled ==
  ASSUME NEW q \in Requests, req'[q].pc = "idle"
  PROVE  Handled(q)'
BY DEF Handled, RequestOf, ImportOf, ListingOf

\* The account as UpsertConnectorAccount leaves it.
LEMMA UpsertFacts ==
  ASSUME AccountTypes, NEW enabled \in BOOLEAN, NEW installed \in BOOLEAN, NEW config \in Seq(Entries),
         installed \/ config # <<>>, UpsertConnectorAccount(enabled, installed, config)
  PROVE  /\ account' \in AccountRows /\ account' # NoAccount
         /\ account'.installed \/ account'.config # <<>>
         /\ account'.enabled = enabled /\ account'.config = config
         /\ account' = account \/ account'.status = None
<1> DEFINE same == account # NoAccount /\ account.enabled = enabled
                    /\ account.installed = installed /\ account.config = config
<1>1. account' = [enabled |-> enabled, installed |-> installed, config |-> config,
                  status |-> IF same THEN account.status ELSE None]
  BY DEF UpsertConnectorAccount
<1>2. same => account \in AccountRows BY DEF AccountTypes
<1>3. account' \in AccountRows
  <2>1. (IF same THEN account.status ELSE None) \in {None, "ok", "failed"} BY <1>2 DEF AccountRows
  <2> HIDE DEF same
  <2> QED BY <1>1, <2>1 DEF AccountRows
<1>4. /\ account'.enabled = enabled /\ account'.config = config /\ account'.installed = installed
      /\ account'.status = IF same THEN account.status ELSE None
  BY <1>1
<1>5. ASSUME same PROVE account' = account
  <2>1. account \in AccountRows BY <1>2, <1>5
  <2>2. account = [enabled |-> account.enabled, installed |-> account.installed,
                   config |-> account.config, status |-> account.status]
    BY <2>1 DEF AccountRows
  <2> QED BY <1>1, <1>5, <2>2
<1>6. account' # NoAccount BY <1>3, ConnectorAssumption
<1> HIDE DEF same
<1> QED BY <1>3, <1>4, <1>5, <1>6

\* Nothing of the inventory changes.
LEMMA TablesKept ==
  ASSUME InventoryInv, UNCHANGED <<status, facts, lock, tx, synced, last>> PROVE InventoryInv'
<1>1. UNCHANGED <<status, facts, lock, tx, synced, last>> OBVIOUS
<1>2. InventoryTypes' BY <1>1 DEF InventoryInv, InventoryTypes
<1>3. \A r \in Requests : LockOf(r)' /\ \A c \in Creds : FactOf(r, c)'
  BY <1>1, OtherRequests DEF InventoryInv, LockInv, FactInv
<1>4. InventoryIsOneImport' BY <1>1 DEF InventoryInv, InventoryIsOneImport
<1> QED BY <1>2, <1>3, <1>4 DEF InventoryInv, LockInv, FactInv

LEMMA InventoryKept ==
  ASSUME InventoryInv, UNCHANGED inventory PROVE InventoryInv'
<1>1. UNCHANGED <<status, facts, lock, tx, synced, last>> BY DEF inventory
<1> QED BY <1>1, TablesKept

\* An operator saves the account.
LEMMA UpsertConnectorInv ==
  ASSUME ConnectorInv, UNCHANGED inventory, NEW enabled \in BOOLEAN, NEW installed \in BOOLEAN,
         NEW config \in Configs, upsertConnector(enabled, installed, config)
  PROVE  ConnectorInv'
<1>0. UNCHANGED <<status, tx>> BY DEF inventory
<1>1. /\ account' \in AccountRows /\ account' # NoAccount
      /\ account'.installed \/ account'.config # <<>>
      /\ account' = account \/ account'.status = None
  <2>1. config \in Seq(Entries) BY ConnectorAssumption
  <2> QED BY <2>1, UpsertFacts DEF ConnectorInv, upsertConnector, validateConnectorConfig
<1>2. /\ saves < MaxSaves /\ saves' = saves + 1
      /\ stale' = IF account' = account THEN stale ELSE stale \cup Active
      /\ unsure' = (unsure /\ account' = account)
      /\ UNCHANGED <<listed, req, changes, faults>>
  BY DEF upsertConnector
<1>3. AccountTypes'
  <2>1. saves' \in 0 .. MaxSaves BY <1>2, ConnectorAssumption DEF ConnectorInv, AccountTypes
  <2>2. stale' \subseteq Requests BY <1>2 DEF ConnectorInv, AccountTypes, Active
  <2>3. unsure' \in BOOLEAN BY <1>2
  <2> QED BY <1>1, <1>2, <2>1, <2>2, <2>3 DEF ConnectorInv, AccountTypes
<1>4. ASSUME NEW q \in Requests PROVE Handled(q)'
  <2>1. q \in stale' \/ req[q].pc = "idle" \/ (q \notin stale /\ account' = account)
    BY <1>2 DEF Active
  <2> QED BY <2>1, <1>0, <1>1, <1>2, OtherHandlers DEF ConnectorInv
<1>5. OkMeansImported'
  <2>1. CASE account' = account BY <2>1, <1>0, <1>2 DEF ConnectorInv, OkMeansImported
  <2>2. CASE account'.status = None BY <2>2, ConnectorAssumption DEF OkMeansImported
  <2> QED BY <1>1, <2>1, <2>2
<1> QED BY <1>3, <1>4, <1>5, InventoryKept DEF ConnectorInv

\* The listing of GitHub changes.
LEMMA RepositoryListedInv ==
  ASSUME ConnectorInv, UNCHANGED inventory, NEW repo \in Repos, RepositoryListed(repo)
  PROVE  ConnectorInv'
<1>0. UNCHANGED <<status, tx>> BY DEF inventory
<1>1. /\ changes < MaxChanges /\ changes' = changes + 1 /\ stale' = stale \cup Active
      /\ UNCHANGED <<account, req, saves, faults, unsure>>
  BY DEF RepositoryListed
<1>2. listed' \in Seq(Repos)
  <2>0. listed \in Seq(Repos) BY DEF ConnectorInv, AccountTypes
  <2>1. CASE repo \in Range(listed)
    <3> DEFINE i == CHOOSE i \in DOMAIN listed : listed[i] = repo
    <3>1. i \in DOMAIN listed BY <2>1 DEF Range
    <3>2. i \in 1 .. Len(listed) BY <2>0, <3>1
    <3>3. listed' = SubSeq(listed, 1, i - 1) \o SubSeq(listed, i + 1, Len(listed))
      BY <2>1 DEF RepositoryListed, RemoveAt
    <3> HIDE DEF i
    <3>4. SubSeq(listed, 1, i - 1) \in Seq(Repos) /\ SubSeq(listed, i + 1, Len(listed)) \in Seq(Repos)
      <4>1. \A k \in 1 .. i - 1 : listed[k] \in Repos BY <2>0, <3>2
      <4>2. \A k \in i + 1 .. Len(listed) : listed[k] \in Repos BY <2>0, <3>2
      <4>3. i - 1 \in Int /\ i + 1 \in Int /\ Len(listed) \in Int BY <2>0, <3>2
      <4> QED BY <4>1, <4>2, <4>3, SubSeqProperties
    <3> QED BY <3>3, <3>4
  <2>2. CASE repo \notin Range(listed)
    <3>1. listed' = Append(listed, repo) BY <2>2 DEF RepositoryListed
    <3> QED BY <2>0, <3>1
  <2> QED BY <2>1, <2>2
<1>3. AccountTypes'
  <2>1. changes' \in 0 .. MaxChanges BY <1>1, ConnectorAssumption DEF ConnectorInv, AccountTypes
  <2>2. stale' \subseteq Requests BY <1>1 DEF ConnectorInv, AccountTypes, Active
  <2> QED BY <1>1, <1>2, <2>1, <2>2 DEF ConnectorInv, AccountTypes
<1>4. ASSUME NEW q \in Requests PROVE Handled(q)'
  <2>1. q \in stale' \/ req[q].pc = "idle" BY <1>1 DEF Active
  <2> QED BY <2>1, <1>0, <1>1, OtherHandlers DEF ConnectorInv
<1>5. OkMeansImported' BY <1>0, <1>1 DEF ConnectorInv, OkMeansImported
<1> QED BY <1>3, <1>4, <1>5, InventoryKept DEF ConnectorInv

\* The record of a request.
RequestRows ==
  [op : {None, "install", "sync", "creds"}, page : Nat,
   pc : {"idle", "list", "write", "collect", "import", "ok", "failed"},
   read : AccountRows \cup {NoAccount}, got : Seq(Repos)]

\* A step of one request on the account: what is left to show for it.
LEMMA OneRequest ==
  ASSUME ConnectorInv, NEW r \in Requests, UNCHANGED <<account, listed, unsure>>,
         \A c \in Creds : status[c] # None => status'[c] # None,
         req' = [req EXCEPT ![r] = req'[r]], req'[r] \in RequestRows,
         \A q \in Requests : q # r => tx'[q] = tx[q],
         saves' \in 0 .. MaxSaves, changes' = changes, faults' \in 0 .. MaxFaults,
         stale' \in {stale, stale \ {r}}, Handled(r)', InventoryInv'
  PROVE  ConnectorInv'
<1>1. req \in [Requests -> RequestRows] BY DEF ConnectorInv, AccountTypes, RequestRows
<1>2. req' \in [Requests -> RequestRows] BY <1>1
<1>3. stale' \subseteq Requests /\ (\A q \in Requests : q # r => (q \in stale' <=> q \in stale))
  BY DEF ConnectorInv, AccountTypes
<1>4. AccountTypes' BY <1>2, <1>3 DEF ConnectorInv, AccountTypes, RequestRows
<1>5. ASSUME NEW q \in Requests PROVE Handled(q)'
  <2>1. CASE q = r BY <2>1
  <2>2. CASE q # r
    <3>1. req'[q] = req[q] BY <2>2, <1>1
    <3> QED BY <2>2, <3>1, <1>3, OtherHandlers DEF ConnectorInv
  <2> QED BY <2>1, <2>2
<1>6. OkMeansImported'
  <2>1. account # NoAccount => account \in AccountRows BY DEF ConnectorInv, AccountTypes
  <2> QED BY <2>1, StillImported DEF ConnectorInv, OkMeansImported
<1> QED BY <1>4, <1>5, <1>6 DEF ConnectorInv

\* The record of a request that begins.
LEMMA FreshRequest ==
  /\ NoRequest \in RequestRows
  /\ NoRequest.op = None /\ NoRequest.pc = "idle" /\ NoRequest.page = 0
  /\ NoRequest.read = NoAccount /\ NoRequest.got = <<>>
<1>1. NoRequest.op = None /\ NoRequest.pc = "idle" /\ NoRequest.page = 0
      /\ NoRequest.read = NoAccount /\ NoRequest.got = <<>>
  BY DEF NoRequest
<1>2. NoRequest \in RequestRows BY DEF NoRequest, RequestRows
<1> QED BY <1>1, <1>2

\* The installation callback and the repository sync begin: no page is read yet.
LEMMA BeginListingInv ==
  ASSUME ConnectorInv, UNCHANGED inventory, NEW r \in Requests,
         githubInstallCallback(r) \/ syncGitHubConnectorRepositories(r)
  PROVE  ConnectorInv'
<1>0. UNCHANGED <<status, tx>> BY DEF inventory
<1>1. req \in [Requests -> RequestRows] BY DEF ConnectorInv, AccountTypes, RequestRows
<1>2. /\ req' = [req EXCEPT ![r] = req'[r]] /\ req'[r] \in RequestRows
      /\ req'[r].op \in {"install", "sync"} /\ req'[r].pc = "list" /\ req'[r].page = 0
      /\ req'[r].got = <<>>
      /\ req'[r].op = "sync" => account # NoAccount /\ req'[r].read = account
  <2>1. CASE githubInstallCallback(r)
    <3> DEFINE x == [NoRequest EXCEPT !.op = "install", !.pc = "list"]
    <3>1. req' = [req EXCEPT ![r] = x] BY <2>1 DEF githubInstallCallback
    <3>2. x \in RequestRows BY FreshRequest DEF RequestRows
    <3>3. x.op = "install" /\ x.pc = "list" /\ x.page = 0 /\ x.got = <<>>
      BY FreshRequest DEF RequestRows
    <3> HIDE DEF x
    <3>4. req'[r] = x BY <3>1, <1>1
    <3> QED BY <3>1, <3>2, <3>3, <3>4
  <2>2. CASE syncGitHubConnectorRepositories(r)
    <3> DEFINE x == [NoRequest EXCEPT !.op = "sync", !.pc = "list", !.read = account]
    <3>0. account \in AccountRows \cup {NoAccount} BY DEF ConnectorInv, AccountTypes
    <3>1. req' = [req EXCEPT ![r] = x] /\ account # NoAccount
      BY <2>2 DEF syncGitHubConnectorRepositories
    <3>2. x \in RequestRows BY FreshRequest, <3>0 DEF RequestRows
    <3>3. x.op = "sync" /\ x.pc = "list" /\ x.page = 0 /\ x.got = <<>> /\ x.read = account
      BY FreshRequest DEF RequestRows
    <3> HIDE DEF x
    <3>4. req'[r] = x BY <3>1, <1>1
    <3> QED BY <3>1, <3>2, <3>3, <3>4
  <2> QED BY <2>1, <2>2
<1>3. /\ saves < MaxSaves /\ saves' = saves + 1 /\ stale' = stale \ {r}
      /\ UNCHANGED <<account, listed, changes, faults, unsure>>
  BY DEF githubInstallCallback, syncGitHubConnectorRepositories
<1>4. saves' \in 0 .. MaxSaves /\ faults' \in 0 .. MaxFaults
  BY <1>3, ConnectorAssumption DEF ConnectorInv, AccountTypes
<1>5. account # NoAccount => account \in AccountRows BY DEF ConnectorInv, AccountTypes
<1>6. r \notin stale' BY <1>3
<1>7. RequestOf(r)' BY <1>2, <1>3, <1>5 DEF RequestOf
<1>8. ImportOf(r)' BY <1>2 DEF ImportOf
<1>9. ListingOf(r)'
  <2>1. 0 * PerPage = 0 BY ConnectorAssumption
  <2>2. Len(listed) \in Nat BY DEF ConnectorInv, AccountTypes
  <2>3. SubSeq(listed, 1, 0) = <<>> BY SubSeqEmpty
  <2> QED BY <1>2, <1>3, <2>1, <2>2, <2>3 DEF ListingOf
<1>10. InventoryInv' BY InventoryKept DEF ConnectorInv
<1> QED BY <1>0, <1>2, <1>3, <1>4, <1>7, <1>8, <1>9, <1>10, OneRequest DEF Handled

\* A credential sync begins.
LEMMA SyncConnectorInv ==
  ASSUME ConnectorInv, UNCHANGED inventory, NEW r \in Requests, syncConnector(r)
  PROVE  ConnectorInv'
<1>0. UNCHANGED <<status, tx>> BY DEF inventory
<1>1. req \in [Requests -> RequestRows] BY DEF ConnectorInv, AccountTypes, RequestRows
<1> DEFINE x == [NoRequest EXCEPT !.op = "creds", !.pc = "collect", !.read = account]
<1>2. /\ saves < MaxSaves /\ saves' = saves + 1 /\ stale' = stale \ {r}
      /\ account # NoAccount /\ account.enabled /\ req' = [req EXCEPT ![r] = x]
      /\ UNCHANGED <<account, listed, changes, faults, unsure>>
  BY DEF syncConnector
<1>3. account \in AccountRows BY <1>2 DEF ConnectorInv, AccountTypes
<1>4. x \in RequestRows BY FreshRequest, <1>3 DEF RequestRows
<1>5. x.op = "creds" /\ x.pc = "collect" /\ x.read = account BY FreshRequest DEF RequestRows
<1> HIDE DEF x
<1>6. req'[r] = x BY <1>1, <1>2
<1>7. saves' \in 0 .. MaxSaves /\ faults' \in 0 .. MaxFaults
  BY <1>2, ConnectorAssumption DEF ConnectorInv, AccountTypes
<1>8. RequestOf(r)' BY <1>2, <1>3, <1>5, <1>6 DEF RequestOf
<1>9. ImportOf(r)' BY <1>5, <1>6 DEF ImportOf
<1>10. ListingOf(r)' BY <1>5, <1>6 DEF ListingOf
<1>11. InventoryInv' BY InventoryKept DEF ConnectorInv
<1> QED BY <1>0, <1>2, <1>4, <1>6, <1>7, <1>8, <1>9, <1>10, <1>11, OneRequest DEF Handled

\* A request fails, or making its batch does.
LEMMA RequestFailsInv ==
  ASSUME ConnectorInv, UNCHANGED inventory, NEW r \in Requests, RequestFails(r)
  PROVE  ConnectorInv'
<1>0. UNCHANGED <<status, tx>> BY DEF inventory
<1>1. req \in [Requests -> RequestRows] BY DEF ConnectorInv, AccountTypes, RequestRows
<1>2. /\ req' = [req EXCEPT ![r] = NoRequest] /\ faults < MaxFaults /\ faults' = faults + 1
      /\ UNCHANGED <<account, listed, saves, changes, stale, unsure>>
  BY DEF RequestFails, End
<1>3. req'[r] = NoRequest BY <1>1, <1>2
<1>4. saves' \in 0 .. MaxSaves /\ faults' \in 0 .. MaxFaults
  BY <1>2, ConnectorAssumption DEF ConnectorInv, AccountTypes
<1>5. Handled(r)' BY <1>3, FreshRequest, EndedHandled
<1>6. InventoryInv' BY InventoryKept DEF ConnectorInv
<1> QED BY <1>0, <1>2, <1>3, <1>4, <1>5, <1>6, FreshRequest, OneRequest

LEMMA CollectFailsInv ==
  ASSUME ConnectorInv, UNCHANGED inventory, NEW r \in Requests, CollectFails(r)
  PROVE  ConnectorInv'
<1>0. UNCHANGED <<status, tx>> BY DEF inventory
<1>1. req \in [Requests -> RequestRows] BY DEF ConnectorInv, AccountTypes, RequestRows
<1> DEFINE x == [req[r] EXCEPT !.pc = "failed"]
<1>2. /\ req[r].pc = "collect" /\ req' = [req EXCEPT ![r] = x]
      /\ UNCHANGED <<account, listed, saves, changes, stale, unsure>>
  BY DEF CollectFails, Outcome
<1>3. req[r] \in RequestRows BY <1>1
<1>4. x \in RequestRows BY <1>3 DEF RequestRows
<1>5. x.op = req[r].op /\ x.pc = "failed" /\ x.read = req[r].read BY <1>3 DEF RequestRows
<1> HIDE DEF x
<1>6. req'[r] = x BY <1>1, <1>2
<1>7. saves' \in 0 .. MaxSaves /\ faults' \in 0 .. MaxFaults
  BY <1>2, ConnectorAssumption DEF ConnectorInv, AccountTypes, CollectFails
<1>8. RequestOf(r)' BY <1>2, <1>5, <1>6 DEF RequestOf, ConnectorInv, Handled
<1>9. ImportOf(r)' BY <1>5, <1>6 DEF ImportOf
<1>10. ListingOf(r)' BY <1>5, <1>6 DEF ListingOf
<1>11. InventoryInv' BY InventoryKept DEF ConnectorInv
<1> QED BY <1>0, <1>2, <1>4, <1>6, <1>7, <1>8, <1>9, <1>10, <1>11, OneRequest DEF Handled

\* A page of the listing, joined to the ones before.
LEMMA ListPageInv ==
  ASSUME ConnectorInv, UNCHANGED inventory, NEW r \in Requests, ListInstallationRepositories(r)
  PROVE  ConnectorInv'
<1>0. UNCHANGED <<status, tx>> BY DEF inventory
<1>1. req \in [Requests -> RequestRows] /\ listed \in Seq(Repos)
  BY DEF ConnectorInv, AccountTypes, RequestRows
<1> DEFINE from == req[r].page * PerPage
           more == Len(listed) > from + PerPage
           to == IF more THEN from + PerPage ELSE Len(listed)
           x == [req[r] EXCEPT !.got = @ \o SubSeq(listed, from + 1, to), !.page = @ + 1,
                               !.pc = IF more THEN "list" ELSE "write"]
<1>2. /\ req[r].pc = "list" /\ req' = [req EXCEPT ![r] = x]
      /\ UNCHANGED <<account, listed, saves, changes, faults, stale, unsure>>
  BY DEF ListInstallationRepositories
<1>3. req[r] \in RequestRows BY <1>1
<1>4. req[r].page \in Nat /\ req[r].got \in Seq(Repos) BY <1>3 DEF RequestRows
<1>5. from \in Nat /\ from + PerPage \in Nat /\ Len(listed) \in Nat /\ to \in Nat /\ to <= Len(listed)
      /\ (req[r].page + 1) * PerPage = from + PerPage
  <2>1. \A a, b \in Nat : a * b \in Nat /\ (a + 1) * b = a * b + b OBVIOUS
  <2>2. from \in Nat /\ (req[r].page + 1) * PerPage = from + PerPage
    BY <2>1, <1>4, ConnectorAssumption
  <2> HIDE DEF from
  <2> QED BY <2>2, <1>1, ConnectorAssumption
<1>6. SubSeq(listed, from + 1, to) \in Seq(Repos)
  <2> HIDE DEF from, to
  <2>1. \A i \in from + 1 .. to : listed[i] \in Repos BY <1>1, <1>5
  <2>2. from + 1 \in Int /\ to \in Int BY <1>5
  <2> QED BY <2>1, <2>2, SubSeqProperties
<1>7. req[r].got \o SubSeq(listed, from + 1, to) \in Seq(Repos)
  <2> HIDE DEF from, to
  <2> QED BY <1>4, <1>6
<1>8. x \in RequestRows
  <2> DEFINE got == req[r].got \o SubSeq(listed, from + 1, to)
             pc == IF more THEN "list" ELSE "write"
  <2>1. x = [req[r] EXCEPT !.got = got, !.page = req[r].page + 1, !.pc = pc] OBVIOUS
  <2>2. got \in Seq(Repos) /\ pc \in {"list", "write"} /\ req[r].page + 1 \in Nat BY <1>4, <1>7
  <2> HIDE DEF from, to, more, got, pc, x
  <2> QED BY <1>3, <2>1, <2>2 DEF RequestRows
<1>9. /\ x.op = req[r].op /\ x.read = req[r].read /\ x.page = req[r].page + 1
      /\ x.pc = (IF more THEN "list" ELSE "write")
      /\ x.got = req[r].got \o SubSeq(listed, from + 1, to)
  <2> HIDE DEF from, to, more
  <2> QED BY <1>3 DEF RequestRows
<1>10. req'[r] = x
  <2> HIDE DEF x
  <2> QED BY <1>1, <1>2
<1> HIDE DEF x
<1>11. x.pc \in {"list", "write"} BY <1>9
<1>12. saves' \in 0 .. MaxSaves /\ faults' \in 0 .. MaxFaults
  BY <1>2 DEF ConnectorInv, AccountTypes
<1>13. RequestOf(r)' BY <1>2, <1>9, <1>10, <1>11 DEF RequestOf, ConnectorInv, Handled
<1>14. ImportOf(r)' BY <1>10, <1>11 DEF ImportOf
<1>15. ListingOf(r)'
  <2> SUFFICES ASSUME r \notin stale PROVE ListingOf(r)' BY <1>2 DEF ListingOf
  <2>1. from <= Len(listed) /\ req[r].got = SubSeq(listed, 1, from)
    BY <1>2 DEF ConnectorInv, Handled, ListingOf
  <2>2. x.got = SubSeq(listed, 1, to)
    <3> HIDE DEF from, to
    <3>1. from \in Nat /\ from + 1 \in Int /\ to \in Int BY <1>5
    <3>2. from <= to BY <1>5, <2>1, ConnectorAssumption DEF to
    <3>3. 1 \in 1 .. from + 1 /\ from \in 0 .. to /\ to <= Len(listed) BY <1>5, <3>2
    <3>4. SubSeq(listed, 1, from) \o SubSeq(listed, from + 1, to) = SubSeq(listed, 1, to)
      BY <1>1, <1>5, <3>3, ConcatAdjacentSubSeq
    <3> QED BY <1>9, <2>1, <3>4
  <2>3. CASE more
    <3>1. x.pc = "list" /\ to = from + PerPage /\ from + PerPage <= Len(listed)
      BY <2>3, <1>5, <1>9
    <3>2. req'[r].page * PerPage = from + PerPage BY <1>5, <1>9, <1>10
    <3> HIDE DEF from, to, more
    <3> QED BY <1>2, <1>10, <2>2, <3>1, <3>2 DEF ListingOf
  <2>4. CASE ~more
    <3>1. x.pc = "write" /\ to = Len(listed) BY <2>4, <1>9
    <3>2. x.got = listed BY <1>1, <2>2, <3>1, SubSeqFull
    <3> QED BY <1>2, <1>10, <3>1, <3>2 DEF ListingOf
  <2> QED BY <2>3, <2>4
<1>16. InventoryInv' BY InventoryKept DEF ConnectorInv
<1> QED BY <1>0, <1>2, <1>8, <1>10, <1>12, <1>13, <1>14, <1>15, <1>16, OneRequest DEF Handled

\* A request ends with a write of the account.
LEMMA AccountWritten ==
  ASSUME ConnectorInv, UNCHANGED inventory, NEW r \in Requests, End(r),
         account' \in AccountRows \cup {NoAccount}, account # NoAccount => account' # NoAccount,
         account' # NoAccount => account'.installed \/ account'.config # <<>>,
         UNCHANGED <<listed, saves, changes, faults>>, unsure' \in BOOLEAN, stale' \subseteq Requests,
         \A q \in Requests : q # r =>
           \/ q \in stale' \/ req[q].pc = "idle"
           \/ /\ q \notin stale
              /\ account'.enabled = account.enabled /\ account'.config = account.config,
         OkMeansImported'
  PROVE  ConnectorInv'
<1>0. UNCHANGED <<status, tx>> BY DEF inventory
<1>1. req \in [Requests -> RequestRows] BY DEF ConnectorInv, AccountTypes, RequestRows
<1>2. req' = [req EXCEPT ![r] = NoRequest] BY DEF End
<1>3. req' \in [Requests -> RequestRows] /\ req'[r] = NoRequest BY <1>1, <1>2, FreshRequest
<1>4. AccountTypes' BY <1>3 DEF ConnectorInv, AccountTypes, RequestRows
<1>5. ASSUME NEW q \in Requests PROVE Handled(q)'
  <2>1. CASE q = r BY <2>1, <1>3, FreshRequest, EndedHandled
  <2>2. CASE q # r
    <3>1. req'[q] = req[q] BY <2>2, <1>1, <1>2
    <3> QED BY <2>2, <3>1, <1>0, OtherHandlers DEF ConnectorInv
  <2> QED BY <2>1, <2>2
<1> QED BY <1>4, <1>5, InventoryKept DEF ConnectorInv

\* What the end of a listing makes of the account.
LEMMA SavedListing ==
  ASSUME ConnectorInv, NEW r \in Requests, SaveListing(r)
  PROVE  /\ account' = account \/ (account' \in AccountRows /\ account' # NoAccount
                                   /\ account'.status = None
                                   /\ (account'.installed \/ account'.config # <<>>))
         /\ account' # account =>
              account'.config = ConfigWithDefaults(req[r].got,
                                  IF req[r].op = "sync" THEN req[r].read.config ELSE <<>>)
         /\ account' # account /\ req[r].op = "sync" => account'.enabled = req[r].read.enabled
<1> DEFINE sync == req[r].op = "sync"
           existing == IF sync THEN req[r].read.config ELSE <<>>
           config == ConfigWithDefaults(req[r].got, existing)
<1>1. req[r] \in RequestRows BY DEF ConnectorInv, AccountTypes, RequestRows
<1>2. req[r].pc = "write" BY DEF SaveListing
<1>3. sync => req[r].read \in AccountRows BY <1>2 DEF ConnectorInv, Handled, RequestOf
<1>4. existing \in Seq(Entries) /\ (~sync \/ req[r].read.enabled) \in BOOLEAN
  BY <1>3 DEF AccountRows
<1>5. req[r].got \in Seq(Repos) BY <1>1 DEF RequestRows
<1>6. config \in Seq(Entries)
  <2> HIDE DEF existing
  <2> QED BY <1>4, <1>5, DefaultsKeep
<1>7. IF config = <<>> THEN UNCHANGED account
      ELSE UpsertConnectorAccount(~sync \/ req[r].read.enabled, TRUE, config)
  BY DEF SaveListing
<1>8. CASE config = <<>> BY <1>7, <1>8
<1>9. CASE config # <<>>
  <2> DEFINE enabled == ~sync \/ req[r].read.enabled
  <2>1. /\ account' \in AccountRows /\ account' # NoAccount
        /\ account'.installed \/ account'.config # <<>>
        /\ account'.enabled = enabled /\ account'.config = config
        /\ account' = account \/ account'.status = None
    <3>1. enabled \in BOOLEAN BY <1>4
    <3>2. UpsertConnectorAccount(enabled, TRUE, config) BY <1>7, <1>9
    <3> HIDE DEF enabled, config
    <3> QED BY <1>6, <1>9, <3>1, <3>2, UpsertFacts DEF ConnectorInv
  <2>2. sync => account'.enabled = req[r].read.enabled
    <3>1. sync => req[r].read.enabled \in BOOLEAN BY <1>3 DEF AccountRows
    <3> QED BY <2>1, <3>1
  <2> QED BY <2>1, <2>2
<1> QED BY <1>8, <1>9

\* A listing is saved.
LEMMA SaveListingInv ==
  ASSUME ConnectorInv, UNCHANGED inventory, NEW r \in Requests, SaveListing(r)
  PROVE  ConnectorInv'
<1>1. /\ End(r) /\ Overtakes(r) /\ unsure' = (unsure /\ account' = account)
      /\ UNCHANGED <<listed, saves, changes, faults>>
  BY DEF SaveListing
<1>2. account' = account \/ (account' \in AccountRows /\ account' # NoAccount
                             /\ account'.status = None
                             /\ (account'.installed \/ account'.config # <<>>))
  BY SavedListing
<1>3. /\ account' \in AccountRows \cup {NoAccount} /\ (account # NoAccount => account' # NoAccount)
      /\ account' # NoAccount => account'.installed \/ account'.config # <<>>
  BY <1>2 DEF ConnectorInv, AccountTypes
<1>4. unsure' \in BOOLEAN BY <1>1
<1>5. stale' = (IF account' = account THEN stale ELSE stale \cup Active) \ {r} BY <1>1 DEF Overtakes
<1>6. stale' \subseteq Requests BY <1>5 DEF ConnectorInv, AccountTypes, Active
<1>7. \A q \in Requests : q # r =>
        q \in stale' \/ req[q].pc = "idle" \/ (q \notin stale /\ account' = account)
  BY <1>5 DEF Active
<1>8. OkMeansImported'
  <2>1. CASE account' = account BY <2>1, <1>1 DEF ConnectorInv, OkMeansImported, inventory
  <2>2. CASE account'.status = None BY <2>2, ConnectorAssumption DEF OkMeansImported
  <2> QED BY <1>2, <2>1, <2>2
<1>9. \A q \in Requests : q # r =>
        \/ q \in stale' \/ req[q].pc = "idle"
        \/ q \notin stale /\ account'.enabled = account.enabled /\ account'.config = account.config
  BY <1>7
<1> QED BY <1>1, <1>3, <1>4, <1>6, <1>8, <1>9, AccountWritten

\* A credential sync marks its outcome.
LEMMA MarkConnectorSyncInv ==
  ASSUME ConnectorInv, UNCHANGED inventory, NEW r \in Requests, markConnectorSync(r)
  PROVE  ConnectorInv'
<1>1. /\ req[r].pc \in {"ok", "failed"} /\ account' = [account EXCEPT !.status = req[r].pc]
      /\ End(r) /\ unsure' = (r \in stale) /\ stale' = stale \ {r}
      /\ UNCHANGED <<listed, saves, changes, faults>>
  BY DEF markConnectorSync, MarkConnectorSync
<1>2. Handled(r) BY DEF ConnectorInv
<1>3. req[r].op = "creds" /\ account # NoAccount BY <1>1, <1>2 DEF Handled, RequestOf
<1>4. account \in AccountRows /\ (account.installed \/ account.config # <<>>)
  BY <1>3 DEF ConnectorInv, AccountTypes
<1>5. /\ account' \in AccountRows /\ account'.status = req[r].pc /\ account'.enabled = account.enabled
      /\ account'.installed = account.installed /\ account'.config = account.config
  BY <1>1, <1>4 DEF AccountRows
<1>6. account' # NoAccount BY <1>5, ConnectorAssumption
<1>7. stale' \subseteq Requests BY <1>1 DEF ConnectorInv, AccountTypes
<1>8. \A q \in Requests : q # r => q \in stale' \/ q \notin stale BY <1>1
<1>9. OkMeansImported'
  <2> SUFFICES ASSUME account'.status = "ok", ~unsure'
               PROVE  /\ account'.enabled /\ account'.config # <<>>
                      /\ \A e \in Range(account'.config) : status'[e.repo] # None
    BY DEF OkMeansImported
  <2>1. req[r].pc = "ok" /\ r \notin stale BY <1>1, <1>5
  <2>2. account.enabled = req[r].read.enabled /\ account.config = req[r].read.config
        /\ req[r].read.enabled
    BY <1>2, <1>3, <2>1 DEF Handled, RequestOf
  <2>3. req[r].read.config # <<>> /\ \A e \in Range(req[r].read.config) : status[e.repo] # None
    BY <1>2, <2>1 DEF Handled, ImportOf
  <2>4. status' = status BY DEF inventory
  <2> QED BY <1>5, <2>2, <2>3, <2>4
<1>10. unsure' \in BOOLEAN BY <1>1
<1> QED BY <1>1, <1>4, <1>5, <1>6, <1>7, <1>8, <1>9, <1>10, AccountWritten

-----------------------------------------------------------------------------
\* A step of a transaction, as the accounts see it.
LEMMA InventoryStep ==
  ASSUME ConnectorInv, UNCHANGED accounts, NEW r \in Requests,
         \A q \in Requests : q # r => tx'[q] = tx[q],
         tx'[r].batch = tx[r].batch \/ req[r].pc # "import",
         \A c \in Creds : status[c] # None => status'[c] # None,
         faults' \in 0 .. MaxFaults, InventoryInv'
  PROVE  ConnectorInv'
<1>1. UNCHANGED <<account, listed, req, saves, changes, stale, unsure>> BY DEF accounts
<1>2. req \in [Requests -> RequestRows] BY DEF ConnectorInv, AccountTypes, RequestRows
<1>3. req' = [req EXCEPT ![r] = req'[r]] /\ req'[r] \in RequestRows BY <1>1, <1>2
<1>4. saves' \in 0 .. MaxSaves BY <1>1 DEF ConnectorInv, AccountTypes
<1>5. Handled(r)'
  <2>1. Handled(r) BY DEF ConnectorInv
  <2>2. RequestOf(r)' BY <1>1, <2>1 DEF Handled, RequestOf
  <2>3. ListingOf(r)' BY <1>1, <2>1 DEF Handled, ListingOf
  <2>4. ImportOf(r)'
    <3>1. req[r].pc = "ok" => req[r].read \in AccountRows BY <2>1 DEF Handled, RequestOf
    <3> QED BY <1>1, <2>1, <3>1, StillImported DEF Handled, ImportOf, SyncCredentials
  <2> QED BY <2>2, <2>3, <2>4 DEF Handled
<1> QED BY <1>1, <1>3, <1>4, <1>5, OneRequest

\* A statement of a transaction.
LEMMA StatementInv ==
  ASSUME ConnectorInv, UNCHANGED accounts, NEW r \in Requests, Statement(r)
  PROVE  ConnectorInv'
<1>1. tx \in [Requests -> Transactions] BY DEF ConnectorInv, InventoryInv, InventoryTypes
<1>2. tx[r] \in Transactions BY <1>1
<1>3. UNCHANGED <<status, faults>>
  BY DEF Statement, UpsertCredential, DeleteCredentialFacts, UpsertCredentialFacts
<1>4. /\ \A q \in Requests : q # r => tx'[q] = tx[q]
      /\ tx'[r].batch = tx[r].batch
  <2>1. CASE UpsertCredential(r) BY <2>1, <1>1, <1>2 DEF UpsertCredential, Transactions
  <2>2. CASE DeleteCredentialFacts(r) BY <2>2, <1>1, <1>2 DEF DeleteCredentialFacts, Transactions
  <2>3. CASE UpsertCredentialFacts(r) BY <2>3, <1>1, <1>2 DEF UpsertCredentialFacts, Transactions
  <2> QED BY <2>1, <2>2, <2>3 DEF Statement
<1>5. InventoryInv'
  BY UpsertCredentialInv, DeleteCredentialFactsInv, UpsertCredentialFactsInv DEF Statement, ConnectorInv
<1>6. faults' \in 0 .. MaxFaults BY <1>3 DEF ConnectorInv, AccountTypes
<1> QED BY <1>3, <1>4, <1>5, <1>6, InventoryStep

\* What the end of a transaction does, for the accounts.
LEMMA AbortedTx ==
  ASSUME ConnectorInv, NEW r \in Requests, Rollback(r) \/ DeadlockDetected(r)
  PROVE  /\ \A q \in Requests : q # r => tx'[q] = tx[q]
         /\ status' = status /\ faults' \in 0 .. MaxFaults /\ InventoryInv'
<1>1. tx \in [Requests -> Transactions] BY DEF ConnectorInv, InventoryInv, InventoryTypes
<1>2. faults \in 0 .. MaxFaults BY DEF ConnectorInv, AccountTypes
<1>3. tx' = [tx EXCEPT ![r] = NoTx] /\ status' = status BY DEF Rollback, DeadlockDetected
<1>4. faults' \in 0 .. MaxFaults BY <1>2, ConnectorAssumption DEF Rollback, DeadlockDetected
<1> QED BY <1>1, <1>3, <1>4, AbortInv DEF ConnectorInv

LEMMA CommittedTx ==
  ASSUME ConnectorInv, NEW r \in Requests, NEW then \in {"idle", "mark"}, Commit(r, then)
  PROVE  /\ \A q \in Requests : q # r => tx'[q] = tx[q]
         /\ \A c \in Creds : status[c] # None => status'[c] # None
         /\ \A c \in CredsOf(tx[r].batch) : status'[c] # None
         /\ faults' \in 0 .. MaxFaults /\ InventoryInv'
<1>1. tx \in [Requests -> Transactions] BY DEF ConnectorInv, InventoryInv, InventoryTypes
<1>2. faults' \in 0 .. MaxFaults BY DEF ConnectorInv, AccountTypes, Commit
<1>3. \A q \in Requests : q # r => tx'[q] = tx[q] BY <1>1 DEF Commit
<1>4. /\ InventoryInv' /\ \A c \in CredsOf(tx[r].batch) : status'[c] \in ValidStatuses
      /\ \A c \in Creds : c \in CredsOf(tx[r].batch) \/ status'[c] = status[c]
  BY CommitInv DEF ConnectorInv
<1>5. \A c \in CredsOf(tx[r].batch) : status'[c] # None BY <1>4, BatchAssumption
<1> QED BY <1>2, <1>3, <1>4, <1>5

\* The request of an endpoint: its transaction ends, and it marks the connectors.
LEMMA EndpointStepInv ==
  ASSUME ConnectorInv, NEW r \in Requests, EndpointStep(r)
  PROVE  ConnectorInv'
<1>1. req[r].pc = "idle" /\ UNCHANGED accounts BY DEF EndpointStep
<1>2. req[r].pc # "import" BY <1>1
<1>3. CASE Commit(r, "mark") \/ Commit(r, "idle")
  <2>1. PICK then \in {"idle", "mark"} : Commit(r, then) BY <1>3
  <2> QED BY <1>1, <1>2, <2>1, CommittedTx, InventoryStep
<1>4. CASE markInventoryConnectorsSynced(r)
  <2>1. tx' = [tx EXCEPT ![r] = NoTx] /\ status' = status BY <1>4 DEF markInventoryConnectorsSynced
  <2>2. \A q \in Requests : q # r => tx'[q] = tx[q]
    BY <2>1 DEF ConnectorInv, InventoryInv, InventoryTypes
  <2>3. InventoryInv' BY <1>4, MarkSyncedInv DEF ConnectorInv
  <2>4. faults' \in 0 .. MaxFaults
    BY <1>4, ConnectorAssumption DEF markInventoryConnectorsSynced, ConnectorInv, AccountTypes
  <2> QED BY <1>1, <1>2, <2>1, <2>2, <2>3, <2>4, InventoryStep
<1>5. CASE Rollback(r) \/ DeadlockDetected(r)
  BY <1>1, <1>2, <1>5, AbortedTx, InventoryStep
<1> QED BY <1>3, <1>4, <1>5 DEF EndpointStep

\* A batch arrives at an endpoint: it is refused, or its transaction starts.
LEMMA EndpointBatchInv ==
  ASSUME ConnectorInv, UNCHANGED accounts, NEW r \in Requests, req[r].pc = "idle",
         NEW batch \in Batches, upsertCredentialInventory(r, batch)
  PROVE  ConnectorInv'
<1> DEFINE Sent == [cred : Creds, status : Statuses, facts : SUBSET Facts]
<1>1. batch \in Seq(Sent) BY BatchAssumption
<1>2. req[r].pc # "import" OBVIOUS
<1>3. faults' \in 0 .. MaxFaults BY DEF upsertCredentialInventory, ConnectorInv, AccountTypes
<1>4. CASE \A i \in DOMAIN batch : validCredentialStatus(batch[i].status)
  <2>1. \A i \in DOMAIN batch : batch[i] \in GoodItems
    <3> SUFFICES ASSUME NEW i \in DOMAIN batch PROVE batch[i] \in GoodItems OBVIOUS
    <3>1. batch[i] \in Sent
      <4> HIDE DEF Sent
      <4> QED BY <1>1
    <3>2. batch[i].status \in ValidStatuses BY <1>4 DEF validCredentialStatus
    <3> QED BY <3>1, <3>2 DEF GoodItems
  <2>2. batch \in Seq(GoodItems) BY <1>1, <2>1
  <2>3. BeginBatch(r, batch) BY <1>4 DEF upsertCredentialInventory
  <2>4. InventoryInv' BY <2>2, <2>3, BeginBatchInv DEF ConnectorInv
  <2>5. status' = status /\ \A q \in Requests : q # r => tx'[q] = tx[q]
    BY <2>3 DEF BeginBatch, ConnectorInv, InventoryInv, InventoryTypes
  <2> QED BY <1>2, <1>3, <2>4, <2>5, InventoryStep
<1>5. CASE ~\A i \in DOMAIN batch : validCredentialStatus(batch[i].status)
  <2>1. UNCHANGED <<tx, status, facts, lock, synced, last>> BY <1>5 DEF upsertCredentialInventory
  <2>2. InventoryInv' BY <2>1, TablesKept DEF ConnectorInv
  <2> QED BY <1>3, <2>1, <2>2, InventoryStep
<1> QED BY <1>4, <1>5

\* The batch of a connector: a good item for every repository.
LEMMA SyncBatch ==
  ASSUME NEW config \in Seq(Entries)
  PROVE  /\ SyncCredentials(config) \in Seq(GoodItems)
         /\ \A e \in Range(config) : e.repo \in CredsOf(SyncCredentials(config))
<1> DEFINE item(i) == [cred |-> config[i].repo, status |-> "active", facts |-> {Access}]
           b == [i \in DOMAIN config |-> item(i)]
<1>0. Len(config) \in Nat /\ DOMAIN config = 1 .. Len(config) OBVIOUS
<1>1. b = SyncCredentials(config) BY DEF SyncCredentials
<1>2. \A i \in DOMAIN config : item(i) \in GoodItems
  <2> SUFFICES ASSUME NEW i \in DOMAIN config PROVE item(i) \in GoodItems OBVIOUS
  <2>1. config[i] \in Entries OBVIOUS
  <2>2. config[i].repo \in Creds BY <2>1, ConnectorAssumption DEF Entries
  <2>3. "active" \in ValidStatuses /\ {Access} \subseteq Facts BY ConnectorAssumption DEF ValidStatuses
  <2> QED BY <2>2, <2>3 DEF GoodItems
<1>3. b \in Seq(GoodItems)
  <2> HIDE DEF item
  <2> QED BY <1>0, <1>2
<1>4. ASSUME NEW e \in Range(config) PROVE e.repo \in CredsOf(b)
  <2>1. PICK i \in DOMAIN config : e = config[i] BY DEF Range
  <2>2. b[i].cred = e.repo BY <2>1
  <2>3. i \in DOMAIN b BY <2>1
  <2> HIDE DEF b
  <2> QED BY <2>2, <2>3 DEF CredsOf
<1> HIDE DEF b
<1> QED BY <1>1, <1>3, <1>4

\* A credential sync starts its import.
LEMMA ImportCredentialsInv ==
  ASSUME ConnectorInv, NEW r \in Requests, ImportCredentials(r)
  PROVE  ConnectorInv'
<1>1. req \in [Requests -> RequestRows] BY DEF ConnectorInv, AccountTypes, RequestRows
<1> DEFINE b == SyncCredentials(req[r].read.config)
           x == [req[r] EXCEPT !.pc = "import"]
<1>2. /\ req[r].pc = "collect" /\ req[r].read.config # <<>> /\ BeginBatch(r, b)
      /\ req' = [req EXCEPT ![r] = x]
      /\ UNCHANGED <<account, listed, saves, changes, faults, stale, unsure>>
  BY DEF ImportCredentials, RepositoriesFromConfig
<1>3. req[r].read \in AccountRows BY <1>2 DEF ConnectorInv, Handled, RequestOf
<1>4. req[r].read.config \in Seq(Entries) BY <1>3 DEF AccountRows
<1>5. b \in Seq(GoodItems) BY <1>4, SyncBatch
<1>6. req[r] \in RequestRows BY <1>1
<1>7. x \in RequestRows BY <1>6 DEF RequestRows
<1>8. x.op = req[r].op /\ x.pc = "import" /\ x.read = req[r].read BY <1>6 DEF RequestRows
<1>9. req'[r] = x
  <2> HIDE DEF x
  <2> QED BY <1>1, <1>2
<1>10. InventoryInv'
  <2> HIDE DEF b
  <2> QED BY <1>2, <1>5, BeginBatchInv DEF ConnectorInv
<1>11. /\ status' = status /\ tx'[r].batch = b
       /\ \A q \in Requests : q # r => tx'[q] = tx[q]
  <2> HIDE DEF b
  <2> QED BY <1>2 DEF BeginBatch, ConnectorInv, InventoryInv, InventoryTypes, NoTx
<1>12. saves' \in 0 .. MaxSaves /\ faults' \in 0 .. MaxFaults
  BY <1>2 DEF ConnectorInv, AccountTypes
<1> HIDE DEF x
<1>13. RequestOf(r)' BY <1>2, <1>8, <1>9 DEF RequestOf, ConnectorInv, Handled
<1>14. ImportOf(r)'
  <2>1. req'[r].read.config = req[r].read.config BY <1>8, <1>9
  <2>2. b = SyncCredentials(req'[r].read.config) BY <2>1
  <2> HIDE DEF b
  <2>3. SyncCredentials(req[r].read.config)' = b BY <2>2 DEF SyncCredentials
  <2> QED BY <1>2, <1>8, <1>9, <1>11, <2>1, <2>3 DEF ImportOf
<1>15. ListingOf(r)' BY <1>8, <1>9 DEF ListingOf
<1> QED BY <1>2, <1>7, <1>9, <1>10, <1>11, <1>12, <1>13, <1>14, <1>15, OneRequest DEF Handled

\* The import of a credential sync ends, well or not.
LEMMA ImportOverInv ==
  ASSUME ConnectorInv, NEW r \in Requests, req[r].pc = "import", ImportEnds(r) \/ ImportFails(r)
  PROVE  ConnectorInv'
<1>1. req \in [Requests -> RequestRows] BY DEF ConnectorInv, AccountTypes, RequestRows
<1>2. req[r] \in RequestRows /\ Handled(r) BY <1>1 DEF ConnectorInv
<1>3. PICK pc \in {"ok", "failed"} :
        /\ Outcome(r, pc)
        /\ Commit(r, "idle") \/ (pc = "failed" /\ (Rollback(r) \/ DeadlockDetected(r)))
  BY DEF ImportEnds, ImportFails
<1> DEFINE x == [req[r] EXCEPT !.pc = pc]
<1>4. /\ req' = [req EXCEPT ![r] = x]
      /\ UNCHANGED <<account, listed, saves, changes, stale, unsure>>
  BY <1>3 DEF Outcome
<1>5. x \in RequestRows BY <1>2 DEF RequestRows
<1>6. x.op = req[r].op /\ x.pc = pc /\ x.read = req[r].read BY <1>2 DEF RequestRows
<1> HIDE DEF x
<1>7. req'[r] = x BY <1>1, <1>4
<1>8. req[r].read \in AccountRows BY <1>2 DEF Handled, RequestOf
<1>9. req[r].read.config \in Seq(Entries) BY <1>8 DEF AccountRows
<1>10. /\ \A q \in Requests : q # r => tx'[q] = tx[q]
       /\ \A c \in Creds : status[c] # None => status'[c] # None
       /\ faults' \in 0 .. MaxFaults /\ InventoryInv'
       /\ pc = "ok" => \A c \in CredsOf(tx[r].batch) : status'[c] # None
  <2>1. CASE Commit(r, "idle")
    <3>1. "idle" \in {"idle", "mark"} OBVIOUS
    <3> QED BY <2>1, <3>1, CommittedTx
  <2>2. CASE pc = "failed" /\ (Rollback(r) \/ DeadlockDetected(r))
    BY <2>2, AbortedTx
  <2> QED BY <1>3, <2>1, <2>2
<1>11. saves' \in 0 .. MaxSaves BY <1>4 DEF ConnectorInv, AccountTypes
<1>12. RequestOf(r)' BY <1>2, <1>4, <1>6, <1>7 DEF RequestOf, Handled
<1>13. ListingOf(r)' BY <1>6, <1>7 DEF ListingOf
<1>14. ImportOf(r)'
  <2>1. tx[r].batch = SyncCredentials(req[r].read.config) /\ req[r].read.config # <<>>
    BY <1>2 DEF Handled, ImportOf
  <2>2. \A e \in Range(req[r].read.config) : e.repo \in CredsOf(tx[r].batch) BY <1>9, <2>1, SyncBatch
  <2> QED BY <1>6, <1>7, <1>10, <2>1, <2>2 DEF ImportOf
<1> QED BY <1>4, <1>5, <1>7, <1>10, <1>11, <1>12, <1>13, <1>14, OneRequest DEF Handled

-----------------------------------------------------------------------------
LEMMA ConnectorInvInit ==
  ASSUME ConnectorsInit PROVE ConnectorInv
<1>1. listed \in Seq(Repos)
  <2>1. PICK n \in 0 .. Cardinality(Repos) : listed \in [1 .. n -> Repos] BY DEF ConnectorsInit
  <2>2. n \in Nat BY <2>1
  <2> QED BY <2>1, <2>2
<1>2. req = [r \in Requests |-> NoRequest] BY DEF ConnectorsInit
<1>3. AccountTypes
  <2>1. req \in [Requests -> RequestRows] BY <1>2, FreshRequest
  <2>2. 0 \in 0 .. MaxSaves /\ 0 \in 0 .. MaxChanges /\ 0 \in 0 .. MaxFaults BY ConnectorAssumption
  <2> QED BY <1>1, <2>1, <2>2 DEF ConnectorsInit, AccountTypes, RequestRows
<1>4. ASSUME NEW r \in Requests PROVE Handled(r)
  <2>1. req[r].pc = "idle" BY <1>2, FreshRequest
  <2> QED BY <2>1 DEF Handled, RequestOf, ImportOf, ListingOf
<1>5. OkMeansImported BY DEF ConnectorsInit, OkMeansImported
<1> QED BY <1>3, <1>4, <1>5, InventoryInitInv DEF ConnectorInv, ConnectorsInit

LEMMA ConnectorInvNext ==
  ASSUME ConnectorInv, [ConnectorsNext]_connectorVars PROVE ConnectorInv'
<1>1. CASE AccountStep
  <2>0. UNCHANGED inventory BY <1>1 DEF AccountStep
  <2>1. ASSUME NEW enabled \in BOOLEAN, NEW installed \in BOOLEAN, NEW config \in Configs,
               upsertConnector(enabled, installed, config)
        PROVE  ConnectorInv'
    BY <2>0, <2>1, UpsertConnectorInv
  <2>2. ASSUME NEW repo \in Repos, RepositoryListed(repo) PROVE ConnectorInv'
    BY <2>0, <2>2, RepositoryListedInv
  <2>3. ASSUME NEW r \in Requests,
               \/ githubInstallCallback(r) \/ syncGitHubConnectorRepositories(r)
               \/ ListInstallationRepositories(r) \/ SaveListing(r)
               \/ syncConnector(r) \/ CollectFails(r)
               \/ markConnectorSync(r) \/ RequestFails(r)
        PROVE  ConnectorInv'
    BY <2>0, <2>3, BeginListingInv, ListPageInv, SaveListingInv, SyncConnectorInv, CollectFailsInv,
       MarkConnectorSyncInv, RequestFailsInv
  <2> QED BY <1>1, <2>1, <2>2, <2>3 DEF AccountStep
<1>2. ASSUME NEW r \in Requests, ImportCredentials(r) PROVE ConnectorInv'
  BY <1>2, ImportCredentialsInv
<1>3. ASSUME NEW r \in Requests, req[r].pc = "idle", UNCHANGED accounts,
             NEW batch \in Batches, upsertCredentialInventory(r, batch)
      PROVE  ConnectorInv'
  BY <1>3, EndpointBatchInv
<1>4. ASSUME NEW r \in Requests, Transaction(r) PROVE ConnectorInv'
  BY <1>4, StatementInv, EndpointStepInv, ImportOverInv DEF Transaction
<1>6. ASSUME UNCHANGED accounts, NEW key \in SshKeys, NEW server \in Servers,
             CreateServerWithSSHInventory(key, server)
      PROVE  ConnectorInv'
  <2>1. UNCHANGED <<account, listed, req, saves, changes, stale, unsure, tx, faults>>
    BY <1>6 DEF accounts, CreateServerWithSSHInventory
  <2>2. InventoryInv' /\ \A c \in Creds : status[c] # None => status'[c] # None
    BY <1>6, RegistrationInv DEF ConnectorInv
  <2>3. AccountTypes' BY <2>1 DEF ConnectorInv, AccountTypes
  <2>4. ASSUME NEW r \in Requests PROVE Handled(r)'
    <3>1. r \in stale' \/ r \notin stale BY <2>1
    <3> QED BY <2>1, <2>2, <3>1, OtherHandlers DEF ConnectorInv
  <2>5. OkMeansImported'
    <3>1. ASSUME account # NoAccount, NEW e \in Range(account.config) PROVE e.repo \in Creds
      <4>1. account.config \in Seq(Entries) BY <3>1 DEF ConnectorInv, AccountTypes, AccountRows
      <4>2. e \in Entries BY <3>1, <4>1 DEF Range
      <4> QED BY <4>2, ConnectorAssumption DEF Entries
    <3> QED BY <2>1, <2>2, <3>1 DEF ConnectorInv, OkMeansImported
  <2> QED BY <2>2, <2>3, <2>4, <2>5 DEF ConnectorInv
<1>5. CASE UNCHANGED connectorVars
  <2>1. UNCHANGED <<accounts, inventory, faults>> BY <1>5 DEF connectorVars
  <2>2. UNCHANGED <<account, listed, req, saves, changes, stale, unsure>> BY <2>1 DEF accounts
  <2>3. UNCHANGED <<status, tx>> BY <2>1 DEF inventory
  <2>4. AccountTypes' BY <2>1, <2>2 DEF ConnectorInv, AccountTypes
  <2>5. ASSUME NEW r \in Requests PROVE Handled(r)'
    <3>1. r \in stale' \/ r \notin stale BY <2>2
    <3> QED BY <2>2, <2>3, <3>1, OtherHandlers DEF ConnectorInv
  <2>6. OkMeansImported' BY <2>2, <2>3 DEF ConnectorInv, OkMeansImported
  <2> QED BY <2>1, <2>4, <2>5, <2>6, InventoryKept DEF ConnectorInv
<1> QED BY <1>1, <1>2, <1>3, <1>4, <1>5, <1>6 DEF ConnectorsNext

\* The invariant holds throughout.
LEMMA ConnectorInvariant == ConnectorsSpec => []ConnectorInv
<1>1. ConnectorsInit => ConnectorInv BY ConnectorInvInit
<1>2. ConnectorInv /\ [ConnectorsNext]_connectorVars => ConnectorInv' BY ConnectorInvNext
<1> QED BY <1>1, <1>2, PTL DEF ConnectorsSpec

\* The account, its requests and the transactions keep their types.
THEOREM ConnectorTypeCorrect == ConnectorsSpec => []ConnectorTypes
<1>1. ConnectorInv => ConnectorTypes BY DEF ConnectorInv, InventoryInv, ConnectorTypes
<1> QED BY <1>1, ConnectorInvariant, PTL

\* However many imports and registrations of servers run at once, for any batches and
\* any set of credentials, what is stored of a credential is what one committed batch
\* said of it and the servers registered since (upsertCredentialInventoryBatch,
\* CreateServerWithSSHInventory and the row lock their upserts take).
THEOREM ImportsNeverMix == ConnectorsSpec => []InventoryIsOneImport
<1>1. ConnectorInv => InventoryIsOneImport BY DEF ConnectorInv, InventoryInv
<1> QED BY <1>1, ConnectorInvariant, PTL

\* An account that shows a successful sync has a credential for every repository of
\* its present configuration, unless the sync was overtaken (syncConnector,
\* markConnectorSync and the CASE of UpsertConnectorAccount that clears the status).
THEOREM OkIsImported == ConnectorsSpec => []OkMeansImported
<1>1. ConnectorInv => OkMeansImported BY DEF ConnectorInv
<1> QED BY <1>1, ConnectorInvariant, PTL

-----------------------------------------------------------------------------
\* A repository sync that wrote the account did it in SaveListing.
LEMMA OnlySaveListing ==
  ASSUME ConnectorInv, ConnectorsNext, NEW r \in Requests, req[r].pc = "write",
         req'[r].pc = "idle", account' # account
  PROVE  SaveListing(r)
<1>1. req \in [Requests -> RequestRows] BY DEF ConnectorInv, AccountTypes, RequestRows
<1>2. ASSUME NEW q \in Requests, End(q) PROVE q = r
  <2>1. req' = [req EXCEPT ![q] = NoRequest] BY <1>2 DEF End
  <2> QED BY <1>1, <2>1
<1>3. ~UNCHANGED req OBVIOUS
<1>4. CASE AccountStep
  <2>1. ASSUME NEW q \in Requests, SaveListing(q) PROVE SaveListing(r)
    BY <2>1, <1>2 DEF SaveListing
  <2>2. ASSUME NEW q \in Requests, markConnectorSync(q) PROVE FALSE
    BY <2>2, <1>2 DEF markConnectorSync
  <2>3. ASSUME NEW q \in Requests,
               \/ githubInstallCallback(q) \/ syncGitHubConnectorRepositories(q)
               \/ ListInstallationRepositories(q) \/ syncConnector(q) \/ CollectFails(q) \/ RequestFails(q)
        PROVE  FALSE
    BY <2>3 DEF githubInstallCallback, syncGitHubConnectorRepositories, ListInstallationRepositories,
                syncConnector, CollectFails, RequestFails, Outcome
  <2>4. \A repo \in Repos : ~RepositoryListed(repo) BY DEF RepositoryListed
  <2>5. \A enabled, installed \in BOOLEAN : \A config \in Configs :
          ~upsertConnector(enabled, installed, config)
    BY <1>3 DEF upsertConnector
  <2> QED BY <1>4, <2>1, <2>2, <2>3, <2>4, <2>5 DEF AccountStep
<1>5. CASE ~AccountStep
  <2>0. \A key, server : CreateServerWithSSHInventory(key, server) => ~UNCHANGED accounts
    BY DEF accounts
  <2>1. PICK q \in Requests :
          \/ ImportCredentials(q)
          \/ /\ req[q].pc = "idle"
             /\ \E batch \in Batches : upsertCredentialInventory(q, batch)
             /\ UNCHANGED accounts
          \/ Transaction(q)
    BY <1>5, <2>0 DEF ConnectorsNext
  <2>2. account' = account
    BY <2>1 DEF ImportCredentials, Transaction, EndpointStep, ImportEnds, ImportFails, Outcome, accounts
  <2> QED BY <2>2
<1> QED BY <1>4, <1>5

\* A target is kept with its entry.
LEMMA TargetsKept ==
  ASSUME NEW repos \in Seq(Repos), NEW existing \in Seq(Entries), NEW t \in Targets(existing),
         t[1] \in Range(repos)
  PROVE  t \in Targets(ConfigWithDefaults(repos, existing))
<1>1. PICK e \in Range(existing) : e.app # NoTarget /\ t = <<e.repo, e.app>> BY DEF Targets
<1>2. e \in Entries BY <1>1 DEF Range
<1> DEFINE f == [e EXCEPT !.filled = TRUE]
<1>3. f.repo = e.repo /\ f.app = e.app BY <1>2 DEF Entries
<1>4. e.repo \in Range(repos) BY <1>1
<1>5. f \in Range(ConfigWithDefaults(repos, existing)) BY <1>1, <1>4, DefaultsKeep
<1> HIDE DEF f
<1> QED BY <1>1, <1>3, <1>5 DEF Targets

\* What one step of a repository sync may do to the account.
TargetsStep ==
  \A r \in Requests :
    (/\ req[r].pc = "write" /\ req[r].op = "sync" /\ r \notin stale
     /\ req'[r].pc = "idle" /\ account' # account) =>
        /\ \A t \in Targets(account.config) :
              t[1] \in Range(listed) => t \in Targets(account'.config)
        /\ account'.enabled = account.enabled

LEMMA OneStepKeepsTargets ==
  ASSUME ConnectorInv, ConnectorsNext PROVE TargetsStep
<1> SUFFICES ASSUME NEW r \in Requests, req[r].pc = "write", req[r].op = "sync", r \notin stale,
                    req'[r].pc = "idle", account' # account
             PROVE  /\ \A t \in Targets(account.config) :
                          t[1] \in Range(listed) => t \in Targets(account'.config)
                    /\ account'.enabled = account.enabled
  BY DEF TargetsStep
<1>1. SaveListing(r) BY OnlySaveListing
<1>2. account'.config = ConfigWithDefaults(req[r].got, req[r].read.config)
      /\ account'.enabled = req[r].read.enabled
  BY <1>1, SavedListing
<1>3. Handled(r) BY DEF ConnectorInv
<1>4. /\ req[r].got = listed /\ account.config = req[r].read.config
      /\ account.enabled = req[r].read.enabled /\ req[r].read \in AccountRows
  BY <1>3 DEF Handled, RequestOf, ListingOf
<1>5. listed \in Seq(Repos) /\ account.config \in Seq(Entries)
  BY <1>4 DEF ConnectorInv, AccountTypes, AccountRows
<1> QED BY <1>2, <1>4, <1>5, TargetsKept

\* For a listing of any length and pages of any size: a repository sync that nobody
\* overtook keeps the build targets of every repository that is still listed, and
\* leaves a disabled account disabled (syncGitHubConnectorRepositories and
\* githubConfigFromInstallationRepositoriesWithDefaults).
THEOREM TargetsSurviveSync == ConnectorsSpec => SyncKeepsTargets
<1>1. ConnectorInv /\ [ConnectorsNext]_connectorVars => [TargetsStep]_connectorVars
  BY OneStepKeepsTargets
<1>2. ConnectorsSpec => [][TargetsStep]_connectorVars BY <1>1, ConnectorInvariant, PTL DEF ConnectorsSpec
<1> QED BY <1>2 DEF SyncKeepsTargets, TargetsStep
=============================================================================
