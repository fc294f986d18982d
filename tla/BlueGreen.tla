------------------------------ MODULE BlueGreen ------------------------------
(***************************************************************************)
(* One blue/green application on one server, as the runner drives it: the  *)
(* deployment slots and proxy routes in PostgreSQL, the two compose stacks *)
(* and the Caddy configuration on the host, and the run of one deployment  *)
(* (or rollback) at a time that moves traffic from one color to the other. *)
(*                                                                         *)
(*   deploy    up -> health -> record slot -> switch -> activate           *)
(*   rollback  health of the standby color -> switch -> activate           *)
(*   switch    stop old singletons, start and verify new ones, one proxy   *)
(*             command per route, promote the routes in the database       *)
(*                                                                         *)
(* Every arrow is a remote command or a database call that can fail, with  *)
(* or without having taken effect; a failure is answered by best-effort    *)
(* compensation, and the process can die anywhere.                         *)
(***************************************************************************)
EXTENDS Naturals, Sequences, FiniteSets

CONSTANTS
  NRoutes,         \* the application's proxy routes, in ORDER BY domain
  MaxDeployments,  \* bound: deployments and rollbacks run
  MaxCrashes,      \* bound: times the process dies or is stopped
  MaxFaults        \* bound: commands and database calls that return an error

ASSUME BlueGreenAssumption ==
  /\ NRoutes \in Nat \ {0}
  /\ MaxDeployments \in Nat
  /\ MaxCrashes \in Nat
  /\ MaxFaults \in Nat

Colors == {"blue", "green"}
None == "none"
Other(c) == IF c = "blue" THEN "green" ELSE "blue"
Routes == 1..NRoutes

VARIABLES
  hasSingletons,  \* it has compose services that must not run twice; never changes
  slot,         \* application_deployment_slots.status per color
  slotDep,      \* its deployment_id
  routeUrl,     \* proxy_routes.upstream_url, as the color it points to
  routeStatus,  \* proxy_routes.status
  stack,        \* host: the deployment whose containers a color runs, 0 if none
  checked,      \* host: these containers have passed a health check
  single,       \* host: singleton services of the color are running
  file,         \* host: upstream in the route's Caddy configuration file
  live,         \* host: upstream in the configuration Caddy has loaded
  pc,           \* the next call of the run
  dep,          \* id of the deployment that runs, or ran last
  target,       \* targetColor, or slot.Color in a rollback
  from,         \* currentColor / activeColor, None for ""
  next,         \* the next route of applyProxyRoutes
  undo,         \* compensating commands still to run
  crashes, faults,     \* history: how many
  crashedAt, failedAt  \* history: at which calls, and how they failed

slotVars == <<slot, slotDep>>
routeVars == <<routeUrl, routeStatus>>
stackVars == <<stack, checked>>
proxyVars == <<file, live>>
runVars == <<dep, target, from>>
crashVars == <<crashes, crashedAt>>
faultVars == <<faults, failedAt>>
vars == <<hasSingletons, slot, slotDep, routeUrl, routeStatus, stack, checked, single,
          file, live, pc, dep, target, from, next, undo, crashes, faults, crashedAt,
          failedAt>>

\* Calls of a run.  "reroute" and "repromote" are applyProxyRoutes called a second
\* time, with the old color, after the activation of the new one failed.
Switching == {"stopOld", "startNew", "verify"}
Cutover == {"routes", "promote", "activate"}
Compensation == {"reroute", "repromote", "undo"}
Calls == {"up", "health", "record", "rollbackHealth"}
           \cup Switching \cup Cutover \cup Compensation

(***************************************************************************)
(* How calls fail.  Failure records where, and what is special about it.   *)
(***************************************************************************)
Failure(remark) ==
  /\ faults < MaxFaults
  /\ faults' = faults + 1
  /\ failedAt' = failedAt \cup {pc} \cup remark
  /\ UNCHANGED crashVars

Rejected == Failure({})              \* nothing happened
Lost == Failure({"lost"})            \* it happened, and the caller saw an error
Partial == Failure({"partial"})      \* the file is written, Caddy not reloaded

\* The run returns; its local variables are gone.
Return ==
  /\ pc' = "idle"
  /\ target' = None
  /\ from' = None
  /\ next' = 1
  /\ undo' = <<>>
  /\ UNCHANGED dep

Step(call) == pc' = call /\ UNCHANGED <<dep, target, from, next, undo>>

(***************************************************************************)
(* Compensation: restoreSingletonServices and rollbackProxyRoutes, as the  *)
(* list of commands they will run whatever becomes of each of them.        *)
(***************************************************************************)
Compose(op, c) == [op |-> op, route |-> 1, color |-> c]

RestoreSingletonServices ==
  IF ~hasSingletons THEN <<>>
  ELSE IF from = None THEN <<Compose("stop", target)>>
  ELSE <<Compose("stop", target), Compose("start", from)>>

\* Mutant: the loop stops before index 0.
RollbackAllButFirst(n) ==
  IF n = 0 THEN <<>>
  ELSE [k \in 1..(n - 1) |->
          [op |-> "route", route |-> n + 1 - k, color |-> routeUrl[n + 1 - k]]]

\* The first n routes, last one first, back to the recorded upstream.
RollbackProxyRoutes(n) ==
  [k \in 1..n |-> [op |-> "route", route |-> n + 1 - k, color |-> routeUrl[n + 1 - k]]]

Compensate(commands) ==
  \/ commands = <<>> /\ Return
  \/ /\ commands # <<>>
     /\ pc' = "undo"
     /\ undo' = commands
     /\ UNCHANGED <<dep, target, from, next>>

(***************************************************************************)
(* Start of a run.                                                         *)
(***************************************************************************)
\* nextDeploymentColors.
BeginDeploy ==
  /\ pc = "idle"
  /\ dep < MaxDeployments
  /\ dep' = dep + 1
  /\ pc' = "up"
  /\ \/ /\ \A c \in Colors : slot[c] # "active"
        /\ target' = "blue"
        /\ from' = None
     \/ \E c \in Colors :
          /\ slot[c] = "active"
          /\ target' = Other(c)
          /\ from' = c
  /\ UNCHANGED <<slotVars, routeVars, stackVars, single, proxyVars, next, undo,
                 crashVars, faultVars>>

\* rollback: the standby slot; only with singletons does it need the active one.
BeginRollback ==
  /\ pc = "idle"
  /\ dep < MaxDeployments
  /\ dep' = dep + 1
  /\ pc' = "rollbackHealth"
  /\ \E c \in Colors :
       /\ slot[c] = "standby"
       /\ target' = c
       /\ \/ ~hasSingletons /\ from' = None
          \/ hasSingletons /\ slot[Other(c)] = "active" /\ from' = Other(c)
  /\ UNCHANGED <<slotVars, routeVars, stackVars, single, proxyVars, next, undo,
                 crashVars, faultVars>>

(***************************************************************************)
(* The candidate stack.                                                    *)
(***************************************************************************)
\* "up -d --remove-orphans --scale <singleton>=0", singletons recreated stopped.
ReplaceStack ==
  /\ stack' = [stack EXCEPT ![target] = dep]
  /\ checked' = [checked EXCEPT ![target] = FALSE]
  /\ single' = [single EXCEPT ![target] = FALSE]

Up ==
  /\ pc = "up"
  /\ ReplaceStack
  /\ Step("health")
  /\ UNCHANGED <<slotVars, routeVars, proxyVars, crashVars, faultVars>>

\* This step or an earlier one (checkout, environment files, build, pull) fails.
UpFails ==
  /\ pc = "up"
  /\ \/ Rejected /\ UNCHANGED <<stackVars, single>>
     \/ Lost /\ ReplaceStack
  /\ Return
  /\ UNCHANGED <<slotVars, routeVars, proxyVars>>

\* Mutant: the new singletons start while the old ones run.
StartFirst == IF ~hasSingletons THEN "routes" ELSE "startNew"

\* Where the switch to the target color begins.
FirstSwitch ==
  IF ~hasSingletons THEN "routes" ELSE IF from = None THEN "startNew" ELSE "stopOld"

HealthPasses ==
  /\ \/ pc = "health" /\ Step("record")
     \/ pc = "rollbackHealth" /\ Step(FirstSwitch)
  /\ checked' = [checked EXCEPT ![target] = TRUE]
  /\ UNCHANGED <<slotVars, routeVars, stack, single, proxyVars, crashVars, faultVars>>

\* Mutant: the error of the health check is not returned.
HealthIgnored ==
  /\ pc = "health"
  /\ Step("record")
  /\ UNCHANGED <<slotVars, routeVars, stackVars, single, proxyVars, crashVars,
                 faultVars>>

\* The candidate is unhealthy: the run ends and leaves it in place.
HealthFails ==
  /\ pc \in {"health", "rollbackHealth"}
  /\ Return
  /\ UNCHANGED <<slotVars, routeVars, stackVars, single, proxyVars, crashVars,
                 faultVars>>

WriteSlot ==
  /\ slot' = [slot EXCEPT ![target] = "standby"]
  /\ slotDep' = [slotDep EXCEPT ![target] = dep]

\* upsertSlot(..., "standby").
RecordSlot ==
  /\ pc = "record"
  /\ WriteSlot
  /\ Step(FirstSwitch)
  /\ UNCHANGED <<routeVars, stackVars, single, proxyVars, crashVars, faultVars>>

RecordSlotFails ==
  /\ pc = "record"
  /\ \/ Rejected /\ UNCHANGED slotVars
     \/ Lost /\ WriteSlot
  /\ Return
  /\ UNCHANGED <<routeVars, stackVars, single, proxyVars>>

(***************************************************************************)
(* switchSingletonServices.                                                *)
(***************************************************************************)
SetSingle(c, running) == single' = [single EXCEPT ![c] = running]

StopOld ==
  /\ pc = "stopOld"
  /\ SetSingle(from, FALSE)
  /\ Step("startNew")
  /\ UNCHANGED <<slotVars, routeVars, stackVars, proxyVars, crashVars, faultVars>>

StopOldFails ==
  /\ pc = "stopOld"
  /\ \/ Rejected /\ UNCHANGED single
     \/ Lost /\ SetSingle(from, FALSE)
  /\ Compensate(<<Compose("start", from)>>)
  /\ UNCHANGED <<slotVars, routeVars, stackVars, proxyVars>>

StartNew ==
  /\ pc = "startNew"
  /\ SetSingle(target, TRUE)
  /\ Step("verify")
  /\ UNCHANGED <<slotVars, routeVars, stackVars, proxyVars, crashVars, faultVars>>

StartNewFails ==
  /\ pc = "startNew"
  /\ \/ Rejected /\ UNCHANGED single
     \/ Lost /\ SetSingle(target, TRUE)
  /\ Compensate(RestoreSingletonServices)
  /\ UNCHANGED <<slotVars, routeVars, stackVars, proxyVars>>

Verify ==
  /\ pc = "verify"
  /\ Step("routes")
  /\ UNCHANGED <<slotVars, routeVars, stackVars, single, proxyVars, crashVars,
                 faultVars>>

\* A singleton service did not stay running (others may), or the check errs.
VerifyFails ==
  /\ pc = "verify"
  /\ \/ \E running \in BOOLEAN : SetSingle(target, running)
        /\ UNCHANGED <<crashVars, faultVars>>
     \/ Rejected /\ UNCHANGED single
  /\ Compensate(RestoreSingletonServices)
  /\ UNCHANGED <<slotVars, routeVars, stackVars, proxyVars>>

(***************************************************************************)
(* applyProxyRoutes.  A route's command writes its own file, then validates *)
(* and reloads the whole Caddy configuration: every file takes effect.     *)
(***************************************************************************)
Applying == IF pc \in {"reroute", "repromote"} THEN from ELSE target

WriteFile(r, c) == file' = [file EXCEPT ![r] = c]
RouteCommand(r, c) == WriteFile(r, c) /\ live' = file'

ApplyRoute ==
  /\ pc \in {"routes", "reroute"}
  /\ RouteCommand(next, Applying)
  /\ \/ next < NRoutes /\ next' = next + 1 /\ pc' = pc
     \/ /\ next = NRoutes
        /\ next' = 1
        /\ pc' = IF pc = "routes" THEN "promote" ELSE "repromote"
  /\ UNCHANGED <<slotVars, routeVars, stackVars, single, runVars, undo, crashVars,
                 faultVars>>

\* The route is marked failed (best effort; not when listing the routes failed),
\* the routes already applied are rolled back: not the one that failed.
ApplyRouteFails ==
  /\ pc \in {"routes", "reroute"}
  /\ \/ Rejected /\ UNCHANGED proxyVars
     \/ Partial /\ WriteFile(next, Applying) /\ UNCHANGED live
     \/ Lost /\ RouteCommand(next, Applying)
  /\ routeStatus' \in {routeStatus, [routeStatus EXCEPT ![next] = "failed"]}
  /\ Compensate(RollbackProxyRoutes(next - 1) \o RestoreSingletonServices)
  /\ UNCHANGED <<slotVars, routeUrl, stackVars, single>>

PromoteRoutes ==
  /\ routeUrl' = [r \in Routes |-> Applying]
  /\ routeStatus' = [r \in Routes |-> "applied"]

PromoteProxyRoutes ==
  /\ PromoteRoutes
  /\ \/ pc = "promote" /\ Step("activate")
     \/ pc = "repromote" /\ Compensate(RestoreSingletonServices)
  /\ UNCHANGED <<slotVars, stackVars, single, proxyVars, crashVars, faultVars>>

PromoteFails ==
  /\ pc \in {"promote", "repromote"}
  /\ \/ Rejected /\ UNCHANGED routeVars
     \/ Lost /\ PromoteRoutes
  /\ Compensate(RollbackProxyRoutes(NRoutes) \o RestoreSingletonServices)
  /\ UNCHANGED <<slotVars, stackVars, single, proxyVars>>

(***************************************************************************)
(* ActivateDeploymentSlot closes the run.                                  *)
(***************************************************************************)
\* Mutant: the old color is not demoted.
ActivateOnly ==
  /\ slot' = [slot EXCEPT ![target] = "active"]
  /\ UNCHANGED slotDep

ActivateSlot ==
  /\ slot' = [c \in Colors |-> IF slot[c] = None THEN None
                               ELSE IF c = target THEN "active" ELSE "standby"]
  /\ UNCHANGED slotDep

ActivateDeploymentSlot ==
  /\ pc = "activate"
  /\ ActivateSlot
  /\ Return
  /\ UNCHANGED <<routeVars, stackVars, single, proxyVars, crashVars, faultVars>>

\* The routes go back only when the run knows the color that was active.
ActivateFails ==
  /\ pc = "activate"
  /\ \/ Rejected /\ UNCHANGED slotVars
     \/ Lost /\ ActivateSlot
  /\ \/ from # None /\ Step("reroute")
     \/ from = None /\ Compensate(RestoreSingletonServices)
  /\ UNCHANGED <<routeVars, stackVars, single, proxyVars>>

(***************************************************************************)
(* A compensating command; nobody looks at its result.                     *)
(***************************************************************************)
NextUndo == Compensate(Tail(undo))

RunCommand(k) ==
  \/ k.op = "route" /\ RouteCommand(k.route, k.color) /\ UNCHANGED single
  \/ k.op = "stop" /\ SetSingle(k.color, FALSE) /\ UNCHANGED proxyVars
  \/ k.op = "start" /\ SetSingle(k.color, TRUE) /\ UNCHANGED proxyVars

Undo ==
  /\ pc = "undo"
  /\ RunCommand(Head(undo))
  /\ NextUndo
  /\ UNCHANGED <<slotVars, routeVars, stackVars, crashVars, faultVars>>

UndoFails ==
  /\ pc = "undo"
  /\ Rejected
  /\ NextUndo
  /\ UNCHANGED <<slotVars, routeVars, stackVars, single, proxyVars>>

\* SIGKILL, or SIGTERM: with the context cancelled every later call fails, those
\* of the compensation too.  A route command can be cut off after its write.
Crash ==
  /\ pc # "idle"
  /\ crashes < MaxCrashes
  /\ crashes' = crashes + 1
  /\ crashedAt' = crashedAt \cup {pc}
  /\ Return
  /\ \/ UNCHANGED file
     \/ pc \in {"routes", "reroute"} /\ WriteFile(next, Applying)
  /\ UNCHANGED <<slotVars, routeVars, stackVars, single, live, faultVars>>

-----------------------------------------------------------------------------
\* An application with its routes created (upstream_url is the blue color, nothing
\* applied) and nothing deployed.
Init ==
  /\ hasSingletons \in BOOLEAN
  /\ slot = [c \in Colors |-> None]
  /\ slotDep = [c \in Colors |-> 0]
  /\ routeUrl = [r \in Routes |-> "blue"]
  /\ routeStatus = [r \in Routes |-> "pending"]
  /\ stack = [c \in Colors |-> 0]
  /\ checked = [c \in Colors |-> FALSE]
  /\ single = [c \in Colors |-> FALSE]
  /\ file = [r \in Routes |-> None]
  /\ live = [r \in Routes |-> None]
  /\ pc = "idle"
  /\ dep = 0
  /\ target = None
  /\ from = None
  /\ next = 1
  /\ undo = <<>>
  /\ crashes = 0
  /\ faults = 0
  /\ crashedAt = {}
  /\ failedAt = {}

Next ==
  /\ \/ BeginDeploy \/ BeginRollback
     \/ Up \/ UpFails \/ HealthPasses \/ HealthFails \/ RecordSlot \/ RecordSlotFails
     \/ StopOld \/ StopOldFails \/ StartNew \/ StartNewFails \/ Verify \/ VerifyFails
     \/ ApplyRoute \/ ApplyRouteFails \/ PromoteProxyRoutes \/ PromoteFails
     \/ ActivateDeploymentSlot \/ ActivateFails
     \/ Undo \/ UndoFails \/ Crash
  /\ UNCHANGED hasSingletons

Spec == Init /\ [][Next]_vars
-----------------------------------------------------------------------------
(***************************************************************************)
(* Properties.                                                             *)
(***************************************************************************)
Commands ==
  [op : {"route", "stop", "start"}, route : Routes, color : Colors]

\* Slots, routes, containers, Caddy configuration and the run stay in their types.
TypeOK ==
  /\ hasSingletons \in BOOLEAN
  /\ slot \in [Colors -> {None, "active", "standby"}]
  /\ slotDep \in [Colors -> 0..MaxDeployments]
  /\ routeUrl \in [Routes -> Colors]
  /\ routeStatus \in [Routes -> {"pending", "applied", "failed"}]
  /\ stack \in [Colors -> 0..MaxDeployments]
  /\ checked \in [Colors -> BOOLEAN]
  /\ single \in [Colors -> BOOLEAN]
  /\ file \in [Routes -> Colors \cup {None}]
  /\ live \in [Routes -> Colors \cup {None}]
  /\ pc \in Calls \cup {"idle"}
  /\ dep \in 0..MaxDeployments
  /\ target \in Colors \cup {None}
  /\ from \in Colors \cup {None}
  /\ next \in Routes
  /\ undo \in Seq(Commands)
  /\ crashes \in 0..MaxCrashes
  /\ faults \in 0..MaxFaults
  /\ crashedAt \subseteq Calls
  /\ failedAt \subseteq Calls \cup {"lost", "partial"}

\* GetActiveDeploymentSlot and GetStandbyDeploymentSlot take the latest of
\* possibly many rows.  Whatever fails and wherever the process dies, there is at
\* most one of each, so neither the color to deploy to nor the color to roll back
\* to depends on updated_at.
SlotsAreUnambiguous ==
  \A c \in Colors : slot[c] # None => slot[Other(c)] # slot[c]

\* Why: what a run knows while it makes its calls.  It works on a color, it goes
\* back only to a color, the slot it will activate is recorded, and the slot it
\* will record is not the active one.
RunInv ==
  /\ pc # "idle" => target \in Colors
  /\ pc \in {"stopOld", "reroute", "repromote"} => from \in Colors
  /\ pc = "undo" => undo # <<>>

SlotInv ==
  /\ SlotsAreUnambiguous
  /\ slot["green"] # None => \E c \in Colors : slot[c] = "active"
  /\ pc \in Switching \cup Cutover \cup {"rollbackHealth", "reroute", "repromote"} =>
       slot[target] # None
  /\ pc \in {"up", "health", "record"} =>
       \/ slot[Other(target)] = "active"
       \/ target = "blue" /\ slot["green"] = None

\* "Stop the old color before starting the new one so singleton services never
\* overlap": they never do, wherever the process dies and whatever fails, except
\* that a stop of the old color fails or a compensating command does.
NoSingletonOverlap ==
  failedAt \cap {"stopOld", "undo"} = {} => ~(single["blue"] /\ single["green"])

\* No call failed, and the process did not die, once routes began to move.
CleanCutover ==
  /\ failedAt \cap (Cutover \cup Compensation) = {}
  /\ crashedAt \cap (Cutover \cup Compensation) = {}

\* Traffic reaches only containers that have passed a health check since they
\* were created: a deployment never replaces the containers a route points to,
\* failed candidates and crashes before the cutover included.
TrafficOnlyToChecked ==
  CleanCutover => \A r \in Routes : live[r] # None => checked[live[r]]

\* Compensation is complete: with no reply lost, no half-executed route command,
\* no failed compensating call and no crash in the switch, every run that
\* ends, however it ends, leaves all routes, in the database, in the files and in
\* Caddy, and the singleton services on the color of the active slot.  A failed
\* activation is the exception where the run has no color to go back to.
NoAmbiguity ==
  /\ failedAt \cap ({"lost", "partial"} \cup Compensation) = {}
  /\ crashedAt \cap (Switching \cup Cutover \cup Compensation) = {}
  /\ "activate" \in failedAt => hasSingletons

EveryRunSettles ==
  pc = "idle" /\ NoAmbiguity =>
    \A c \in Colors : slot[c] = "active" =>
      /\ \A r \in Routes : routeUrl[r] = c /\ file[r] = c /\ live[r] = c
      /\ hasSingletons => single[c] /\ ~single[Other(c)]
=============================================================================
