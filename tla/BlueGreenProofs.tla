--------------------------- MODULE BlueGreenProofs ---------------------------
(***************************************************************************)
(* Proofs about BlueGreen, for any number of routes, deployments, crashes  *)
(* and failed calls, with and without singleton services.                  *)
(*                                                                         *)
(* TypeOK is inductive only together with RunInv: a compensating command   *)
(* has a color because the run that plans it has one.  The slots stay      *)
(* unambiguous because of SlotInv: a deployment records its slot only      *)
(* beside an active one, or as the first.  The other results follow the    *)
(* run and its compensation plan step by step: OverlapInv the singletons,  *)
(* ServedInv and CutoverInv the traffic, TowardInv and BackInv what a run  *)
(* leaves behind; ColorInv and SingletonInv are what they share.           *)
(***************************************************************************)
EXTENDS BlueGreen, TLAPS

\* The other color is a color, and another one.
LEMMA OtherType == \A c \in Colors : Other(c) \in Colors /\ Other(c) # c
BY DEF Other, Colors

\* rollbackProxyRoutes plans a command for a route for each of the first n.
LEMMA RollbackType ==
  ASSUME TypeOK, NEW n \in 0..NRoutes
  PROVE  RollbackProxyRoutes(n) \in Seq(Commands)
<1>1. \A k \in 1..n : n + 1 - k \in Routes
  BY BlueGreenAssumption DEF Routes
<1>2. \A k \in 1..n : [op |-> "route", route |-> n + 1 - k,
                       color |-> routeUrl[n + 1 - k]] \in Commands
  BY <1>1 DEF TypeOK, Commands
<1>3. RollbackProxyRoutes(n) \in [1..n -> Commands]
  BY <1>2 DEF RollbackProxyRoutes
<1> QED BY <1>3

\* A run that works on a color plans commands on colors.
LEMMA RestoreType ==
  ASSUME TypeOK, target \in Colors
  PROVE  RestoreSingletonServices \in Seq(Commands)
<1>1. 1 \in Routes
  BY BlueGreenAssumption DEF Routes
<1>2. \A op \in {"stop", "start"}, c \in Colors : Compose(op, c) \in Commands
  BY <1>1 DEF Compose, Commands
<1>3. from # None => from \in Colors
  BY DEF TypeOK
<1>4. <<>> \in Seq(Commands)
  OBVIOUS
<1>5. <<Compose("stop", target)>> \in Seq(Commands)
  BY <1>2
<1>6. from # None => <<Compose("stop", target), Compose("start", from)>> \in Seq(Commands)
  BY <1>2, <1>3
<1> QED BY <1>4, <1>5, <1>6 DEF RestoreSingletonServices

\* The control part of the type invariant and RunInv.
Control ==
  /\ pc \in Calls \cup {"idle"}
  /\ dep \in 0..MaxDeployments
  /\ target \in Colors \cup {None}
  /\ from \in Colors \cup {None}
  /\ next \in Routes
  /\ undo \in Seq(Commands)
  /\ RunInv

LEMMA ReturnControl ==
  ASSUME TypeOK, Return
  PROVE  Control'
<1>1. 1 \in Routes
  BY BlueGreenAssumption DEF Routes
<1>2. <<>> \in Seq(Commands)
  OBVIOUS
<1> QED BY <1>1, <1>2 DEF TypeOK, Return, Control, RunInv

LEMMA CompensateControl ==
  ASSUME TypeOK, target \in Colors, NEW commands \in Seq(Commands), Compensate(commands)
  PROVE  Control'
<1>1. CASE Return
  BY <1>1, ReturnControl
<1>2. CASE commands # <<>> /\ pc' = "undo" /\ undo' = commands
             /\ UNCHANGED <<dep, target, from, next>>
  BY <1>2 DEF TypeOK, Control, RunInv, Calls, Compensation
<1> QED BY <1>1, <1>2 DEF Compensate

LEMMA StepControl ==
  ASSUME TypeOK, target \in Colors, NEW call \in Calls \ {"undo"}, Step(call),
         call \in {"stopOld", "reroute", "repromote"} => from \in Colors
  PROVE  Control'
BY DEF TypeOK, Control, RunInv, Step, Calls

\* The rest of the type invariant, by where the state lives.
DatabaseType ==
  /\ slot \in [Colors -> {None, "active", "standby"}]
  /\ slotDep \in [Colors -> 0..MaxDeployments]
  /\ routeUrl \in [Routes -> Colors]
  /\ routeStatus \in [Routes -> {"pending", "applied", "failed"}]

HostType ==
  /\ stack \in [Colors -> 0..MaxDeployments]
  /\ checked \in [Colors -> BOOLEAN]
  /\ single \in [Colors -> BOOLEAN]
  /\ file \in [Routes -> Colors \cup {None}]
  /\ live \in [Routes -> Colors \cup {None}]

HistoryType ==
  /\ crashes \in 0..MaxCrashes
  /\ faults \in 0..MaxFaults
  /\ crashedAt \subseteq Calls
  /\ failedAt \subseteq Calls \cup {"lost", "partial"}

LEMMA TypeParts ==
  TypeOK /\ RunInv <=>
    hasSingletons \in BOOLEAN /\ Control /\ DatabaseType /\ HostType /\ HistoryType
BY DEF TypeOK, Control, DatabaseType, HostType, HistoryType

\* Histories change only where a call fails or the process dies.
LEMMA HistoryStep ==
  ASSUME TypeOK, RunInv, [Next]_vars
  PROVE  HistoryType'
<1> USE DEF TypeOK, HistoryType, crashVars, faultVars
<1>1. ASSUME UNCHANGED <<crashVars, faultVars>>
      PROVE  HistoryType'
  BY <1>1
<1>2. ASSUME pc # "idle", NEW remark \in SUBSET {"lost", "partial"}, Failure(remark)
      PROVE  HistoryType'
  <2>1. faults' \in 0..MaxFaults
    BY <1>2, BlueGreenAssumption DEF Failure
  <2>2. pc \in Calls
    BY <1>2
  <2>3. failedAt' \subseteq Calls \cup {"lost", "partial"}
    BY <1>2, <2>2 DEF Failure
  <2>4. UNCHANGED crashVars
    BY <1>2 DEF Failure
  <2> QED BY <2>1, <2>3, <2>4
<1>3. ASSUME pc # "idle", Rejected \/ Lost \/ Partial
      PROVE  HistoryType'
  BY <1>2, <1>3 DEF Rejected, Lost, Partial
<1>4. CASE BeginDeploy \/ BeginRollback \/ Up \/ HealthPasses \/ HealthFails
  BY <1>1, <1>4 DEF BeginDeploy, BeginRollback, Up, HealthPasses, HealthFails
<1>5. CASE RecordSlot \/ StopOld \/ StartNew \/ Verify \/ ApplyRoute
  BY <1>1, <1>5 DEF RecordSlot, StopOld, StartNew, Verify, ApplyRoute
<1>6. CASE PromoteProxyRoutes \/ ActivateDeploymentSlot \/ Undo
  BY <1>1, <1>6 DEF PromoteProxyRoutes, ActivateDeploymentSlot, Undo
<1>7. CASE UpFails \/ RecordSlotFails \/ StopOldFails \/ StartNewFails
  BY <1>3, <1>7 DEF UpFails, RecordSlotFails, StopOldFails, StartNewFails
<1>8. CASE ApplyRouteFails \/ PromoteFails \/ ActivateFails \/ UndoFails
  BY <1>3, <1>8 DEF ApplyRouteFails, PromoteFails, ActivateFails, UndoFails
<1>9. CASE VerifyFails
  BY <1>1, <1>3, <1>9 DEF VerifyFails
<1>10. CASE Crash
  BY <1>10, BlueGreenAssumption DEF Crash
<1>11. CASE UNCHANGED vars
  BY <1>1, <1>11 DEF vars
<1> QED
  BY <1>4, <1>5, <1>6, <1>7, <1>8, <1>9, <1>10, <1>11 DEF Next

\* Each writer of the database writes values of its columns.
LEMMA DatabaseStep ==
  ASSUME TypeOK, RunInv, [Next]_vars
  PROVE  DatabaseType'
<1> USE DEF TypeOK, DatabaseType, slotVars, routeVars
<1>1. ASSUME UNCHANGED slotVars PROVE DatabaseType!1' /\ DatabaseType!2'
  BY <1>1
<1>2. ASSUME UNCHANGED routeVars PROVE DatabaseType!3' /\ DatabaseType!4'
  BY <1>2
<1>3. ASSUME target \in Colors, WriteSlot PROVE DatabaseType!1' /\ DatabaseType!2'
  BY <1>3 DEF WriteSlot
<1>4. ASSUME ActivateSlot PROVE DatabaseType!1' /\ DatabaseType!2'
  BY <1>4 DEF ActivateSlot
<1>5. ASSUME Applying \in Colors, PromoteRoutes PROVE DatabaseType!3' /\ DatabaseType!4'
  BY <1>5 DEF PromoteRoutes
<1>6. pc # "idle" => target \in Colors /\ Applying \in Colors
  BY DEF RunInv, Applying
<1>7. CASE BeginDeploy \/ BeginRollback \/ Up \/ UpFails \/ HealthPasses \/ HealthFails
  BY <1>1, <1>2, <1>7 DEF BeginDeploy, BeginRollback, Up, UpFails, HealthPasses, HealthFails
<1>8. CASE RecordSlot \/ RecordSlotFails
  BY <1>1, <1>2, <1>3, <1>6, <1>8 DEF RecordSlot, RecordSlotFails
<1>9. CASE StopOld \/ StopOldFails \/ StartNew \/ StartNewFails \/ Verify \/ VerifyFails
  BY <1>1, <1>2, <1>9 DEF StopOld, StopOldFails, StartNew, StartNewFails, Verify, VerifyFails
<1>10. CASE ApplyRoute \/ Undo \/ UndoFails \/ Crash
  BY <1>1, <1>2, <1>10 DEF ApplyRoute, Undo, UndoFails, Crash
<1>11. CASE ApplyRouteFails
  BY <1>11 DEF ApplyRouteFails
<1>12. CASE PromoteProxyRoutes \/ PromoteFails
  BY <1>1, <1>2, <1>5, <1>6, <1>12 DEF PromoteProxyRoutes, PromoteFails
<1>13. CASE ActivateDeploymentSlot \/ ActivateFails
  BY <1>1, <1>2, <1>4, <1>13 DEF ActivateDeploymentSlot, ActivateFails
<1>14. CASE UNCHANGED vars
  BY <1>14 DEF vars
<1> QED
  BY <1>7, <1>8, <1>9, <1>10, <1>11, <1>12, <1>13, <1>14 DEF Next

\* Each command leaves the host in its type.
LEMMA HostStep ==
  ASSUME TypeOK, RunInv, [Next]_vars
  PROVE  HostType'
<1> USE DEF TypeOK, HostType, stackVars, proxyVars
<1>1. ASSUME UNCHANGED <<stackVars, single>> PROVE HostType!1' /\ HostType!2' /\ HostType!3'
  BY <1>1
<1>2. ASSUME UNCHANGED proxyVars PROVE HostType!4' /\ HostType!5'
  BY <1>2
<1>3. ASSUME target \in Colors, ReplaceStack PROVE HostType!1' /\ HostType!2' /\ HostType!3'
  BY <1>3 DEF ReplaceStack
<1>4. ASSUME NEW c \in Colors, NEW running \in BOOLEAN, SetSingle(c, running) PROVE HostType!3'
  BY <1>4 DEF SetSingle
<1>5. ASSUME NEW r \in Routes, NEW c \in Colors, WriteFile(r, c),
             UNCHANGED live \/ live' = file'
      PROVE  HostType!4' /\ HostType!5'
  BY <1>5 DEF WriteFile
<1>6. pc # "idle" => target \in Colors /\ Applying \in Colors
  BY DEF RunInv, Applying
<1>7. pc = "stopOld" => from \in Colors
  BY DEF RunInv
<1>8. CASE BeginDeploy \/ BeginRollback \/ HealthFails \/ RecordSlot \/ RecordSlotFails
  BY <1>1, <1>2, <1>8 DEF BeginDeploy, BeginRollback, HealthFails, RecordSlot, RecordSlotFails
<1>9. CASE Up \/ UpFails
  BY <1>1, <1>2, <1>3, <1>6, <1>9 DEF Up, UpFails
<1>10. CASE HealthPasses
  BY <1>2, <1>6, <1>10 DEF HealthPasses
<1>11. CASE StopOld \/ StopOldFails
  BY <1>2, <1>4, <1>7, <1>11 DEF StopOld, StopOldFails
<1>12. CASE StartNew \/ StartNewFails
  BY <1>2, <1>4, <1>6, <1>12 DEF StartNew, StartNewFails
<1>13. CASE Verify \/ VerifyFails
  BY <1>1, <1>2, <1>4, <1>6, <1>13 DEF Verify, VerifyFails
<1>14. CASE ApplyRoute \/ ApplyRouteFails
  BY <1>1, <1>2, <1>5, <1>6, <1>14 DEF ApplyRoute, ApplyRouteFails, RouteCommand
<1>15. CASE PromoteProxyRoutes \/ PromoteFails \/ ActivateDeploymentSlot \/ ActivateFails
  BY <1>1, <1>2, <1>15 DEF PromoteProxyRoutes, PromoteFails, ActivateDeploymentSlot, ActivateFails
<1>16. CASE Undo
  <2>1. Head(undo) \in Commands
    BY <1>16 DEF Undo, RunInv
  <2>2. Head(undo).route \in Routes /\ Head(undo).color \in Colors
    BY <2>1 DEF Commands
  <2> QED BY <1>2, <1>4, <1>5, <1>16, <2>2 DEF Undo, RunCommand, RouteCommand
<1>17. CASE UndoFails
  BY <1>1, <1>2, <1>17 DEF UndoFails
<1>18. CASE Crash
  BY <1>1, <1>2, <1>5, <1>6, <1>18 DEF Crash
<1>19. CASE UNCHANGED vars
  BY <1>19 DEF vars
<1> QED
  BY <1>8, <1>9, <1>10, <1>11, <1>12, <1>13, <1>14, <1>15, <1>16, <1>17, <1>18, <1>19
  DEF Next

\* Each step leaves the run at one of its calls, with the colors that call needs.
LEMMA ControlStep ==
  ASSUME TypeOK, RunInv, [Next]_vars
  PROVE  Control'
<1>1. pc # "idle" => target \in Colors
  BY DEF RunInv
<1>2. ASSUME pc # "idle", NEW call \in Calls \ {"undo"}, Step(call),
             call \in {"stopOld", "reroute", "repromote"} => from \in Colors
      PROVE  Control'
  BY <1>1, <1>2, StepControl
<1>3. ASSUME pc # "idle", NEW n \in 0..NRoutes,
             Compensate(RollbackProxyRoutes(n) \o RestoreSingletonServices)
      PROVE  Control'
  <2>1. RollbackProxyRoutes(n) \in Seq(Commands) /\ RestoreSingletonServices \in Seq(Commands)
    BY <1>1, <1>3, RollbackType, RestoreType
  <2>2. RollbackProxyRoutes(n) \o RestoreSingletonServices \in Seq(Commands)
    BY <2>1
  <2> QED BY <1>1, <1>3, <2>2, CompensateControl
<1>4. ASSUME pc # "idle", Compensate(RestoreSingletonServices)
      PROVE  Control'
  BY <1>1, <1>4, RestoreType, CompensateControl
<1>5. ASSUME pc # "idle" PROVE
        /\ FirstSwitch \in Calls \ {"undo"}
        /\ FirstSwitch = "stopOld" => from \in Colors
        /\ FirstSwitch \notin {"reroute", "repromote"}
  BY DEF FirstSwitch, Calls, Switching, Cutover, TypeOK
<1>6. CASE BeginDeploy
  <2>1. dep' \in 0..MaxDeployments
    BY <1>6, BlueGreenAssumption DEF BeginDeploy, TypeOK
  <2>2. target' \in Colors /\ from' \in Colors \cup {None}
    BY <1>6, OtherType DEF BeginDeploy, TypeOK, Colors
  <2> QED BY <1>6, <2>1, <2>2 DEF BeginDeploy, TypeOK, Control, RunInv, Calls
<1>7. CASE BeginRollback
  <2>1. dep' \in 0..MaxDeployments
    BY <1>7, BlueGreenAssumption DEF BeginRollback, TypeOK
  <2>2. target' \in Colors /\ from' \in Colors \cup {None}
    BY <1>7, OtherType DEF BeginRollback, TypeOK
  <2> QED BY <1>7, <2>1, <2>2 DEF BeginRollback, TypeOK, Control, RunInv, Calls
<1>8. CASE UpFails \/ HealthFails \/ RecordSlotFails \/ ActivateDeploymentSlot \/ Crash
  BY <1>8, ReturnControl
  DEF UpFails, HealthFails, RecordSlotFails, ActivateDeploymentSlot, Crash
<1>9. CASE Up \/ StopOld \/ StartNew \/ Verify
  BY <1>2, <1>9 DEF Up, StopOld, StartNew, Verify, Calls, Switching, Cutover
<1>10. CASE HealthPasses
  BY <1>2, <1>5, <1>10 DEF HealthPasses, Calls
<1>11. CASE RecordSlot
  BY <1>2, <1>5, <1>11 DEF RecordSlot
<1>12. CASE StopOldFails
  <2>1. Compose("start", from) \in Commands
    BY <1>12, BlueGreenAssumption DEF StopOldFails, RunInv, Compose, Commands, Routes
  <2>2. <<Compose("start", from)>> \in Seq(Commands)
    BY <2>1
  <2> QED BY <1>1, <1>12, <2>2, CompensateControl DEF StopOldFails
<1>13. CASE StartNewFails \/ VerifyFails
  BY <1>4, <1>13 DEF StartNewFails, VerifyFails
<1>14. CASE ApplyRoute
  <2>1. next' \in Routes
    BY <1>14, BlueGreenAssumption DEF ApplyRoute, TypeOK, Routes
  <2>2. pc' \in {"routes", "reroute", "promote", "repromote"}
        /\ (pc' \in {"reroute", "repromote"} => pc = "reroute")
    BY <1>14 DEF ApplyRoute
  <2> QED
    BY <1>14, <2>1, <2>2
    DEF ApplyRoute, TypeOK, Control, RunInv, runVars, Calls, Cutover, Compensation
<1>15. CASE ApplyRouteFails
  <2>1. next - 1 \in 0..NRoutes
    BY BlueGreenAssumption DEF TypeOK, Routes
  <2> QED BY <1>3, <1>15, <2>1 DEF ApplyRouteFails
<1>16. CASE PromoteProxyRoutes
  BY <1>2, <1>4, <1>16 DEF PromoteProxyRoutes, Calls, Cutover
<1>17. CASE PromoteFails
  <2>1. NRoutes \in 0..NRoutes
    BY BlueGreenAssumption
  <2> QED BY <1>3, <1>17, <2>1 DEF PromoteFails
<1>18. CASE ActivateFails
  <2>1. from # None => from \in Colors
    BY DEF TypeOK
  <2>2. "reroute" \in Calls \ {"undo"}
    BY DEF Calls, Compensation
  <2> QED BY <1>2, <1>4, <1>18, <2>1, <2>2 DEF ActivateFails
<1>19. CASE Undo \/ UndoFails
  <2>1. pc = "undo" /\ NextUndo
    BY <1>19 DEF Undo, UndoFails
  <2>2. undo # <<>> /\ undo \in Seq(Commands)
    BY <2>1 DEF RunInv, TypeOK
  <2>3. Tail(undo) \in Seq(Commands)
    BY <2>2
  <2> QED BY <1>1, <2>1, <2>3, CompensateControl DEF NextUndo
<1>20. CASE UNCHANGED vars
  BY <1>20 DEF vars, TypeOK, Control, RunInv
<1> QED
  BY <1>6, <1>7, <1>8, <1>9, <1>10, <1>11, <1>12, <1>13, <1>14, <1>15, <1>16, <1>17,
     <1>18, <1>19, <1>20 DEF Next

LEMMA InitType == Init => TypeOK /\ RunInv
<1> SUFFICES ASSUME Init PROVE Control /\ DatabaseType /\ HostType /\ HistoryType
  BY TypeParts DEF Init
<1>1. 1 \in Routes /\ 0 \in 0..MaxDeployments /\ 0 \in 0..MaxCrashes /\ 0 \in 0..MaxFaults
  BY BlueGreenAssumption DEF Routes
<1>2. Control
  BY <1>1 DEF Init, Control, RunInv
<1>3. DatabaseType /\ HostType /\ HistoryType
  BY <1>1 DEF Init, DatabaseType, HostType, HistoryType, Colors
<1> QED BY <1>2, <1>3

\* Slots, routes, host and run stay in their types, for any number of routes,
\* runs, failed calls and crashes: compensating commands always name a route and
\* a color.
THEOREM BlueGreenTypeCorrect == Spec => [](TypeOK /\ RunInv)
<1>1. TypeOK /\ RunInv /\ [Next]_vars => (TypeOK /\ RunInv)'
  <2> SUFFICES ASSUME TypeOK, RunInv, [Next]_vars PROVE (TypeOK /\ RunInv)'
    OBVIOUS
  <2>1. Control' /\ DatabaseType' /\ HostType' /\ HistoryType'
    BY ControlStep, DatabaseStep, HostStep, HistoryStep
  <2>2. hasSingletons' = hasSingletons
    BY DEF Next, vars
  <2> QED
    BY <2>1, <2>2 DEF TypeOK, Control, DatabaseType, HostType, HistoryType
<1> QED BY <1>1, InitType, PTL DEF Spec

\* Only three actions write slots; the others keep what the run knows of them.
LEMMA SlotStep ==
  ASSUME TypeOK, RunInv, SlotInv, [Next]_vars
  PROVE  SlotInv'
<1> USE DEF SlotInv, SlotsAreUnambiguous, Colors, Other
<1>1. slot \in [Colors -> {None, "active", "standby"}]
  BY DEF TypeOK
<1>2. CASE BeginDeploy
  BY <1>1, <1>2 DEF BeginDeploy, slotVars, Switching, Cutover, None
<1>3. CASE BeginRollback
  BY <1>1, <1>3 DEF BeginRollback, slotVars, Switching, Cutover, None
<1>4. ASSUME Return, UNCHANGED slot PROVE SlotInv'
  BY <1>4 DEF Return, Switching, Cutover
<1>5. ASSUME Return \/ (pc' = "undo"), UNCHANGED slot PROVE SlotInv'
  BY <1>5 DEF Return, Switching, Cutover
<1>6. ASSUME NEW commands, Compensate(commands), UNCHANGED slot PROVE SlotInv'
  BY <1>5, <1>6 DEF Compensate
<1>7. CASE UpFails \/ HealthFails \/ Crash
  BY <1>4, <1>7 DEF UpFails, HealthFails, Crash, slotVars
<1>8. CASE StopOldFails \/ StartNewFails \/ VerifyFails \/ ApplyRouteFails \/ PromoteFails
  BY <1>6, <1>8
  DEF StopOldFails, StartNewFails, VerifyFails, ApplyRouteFails, PromoteFails, slotVars
<1>9. CASE Undo \/ UndoFails
  BY <1>6, <1>9 DEF Undo, UndoFails, NextUndo, slotVars
<1>10. CASE Up
  BY <1>10 DEF Up, Step, slotVars, Switching, Cutover
<1>11. CASE HealthPasses
  BY <1>11 DEF HealthPasses, Step, FirstSwitch, slotVars, Switching, Cutover
<1>12. CASE StopOld \/ StartNew \/ Verify
  BY <1>12 DEF StopOld, StartNew, Verify, Step, slotVars, Switching, Cutover
<1>13. CASE ApplyRoute
  BY <1>13 DEF ApplyRoute, runVars, slotVars, Switching, Cutover
<1>14. CASE PromoteProxyRoutes
  <2>1. CASE pc = "promote" /\ Step("activate")
    BY <1>14, <2>1 DEF PromoteProxyRoutes, Step, slotVars, Switching, Cutover
  <2> QED BY <1>6, <1>14, <2>1 DEF PromoteProxyRoutes, slotVars
<1>15. ASSUME pc = "record", WriteSlot
       PROVE  /\ SlotsAreUnambiguous'
              /\ slot'["green"] # None => \E c \in Colors : slot'[c] = "active"
              /\ slot'[target] # None
  BY <1>1, <1>15 DEF WriteSlot, RunInv, None
<1>16. CASE RecordSlot
  BY <1>15, <1>16 DEF RecordSlot, Step, FirstSwitch, Switching, Cutover
<1>17. CASE RecordSlotFails
  BY <1>4, <1>15, <1>17 DEF RecordSlotFails, Return, slotVars, Switching, Cutover
<1>18. ASSUME pc = "activate", ActivateSlot
       PROVE  /\ SlotsAreUnambiguous'
              /\ slot'["green"] # None => \E c \in Colors : slot'[c] = "active"
              /\ slot'[target] # None
  BY <1>1, <1>18 DEF ActivateSlot, RunInv, Cutover, None
<1>19. CASE ActivateDeploymentSlot
  BY <1>18, <1>19 DEF ActivateDeploymentSlot, Return, Switching, Cutover
<1>20. CASE ActivateFails
  <2>1. /\ SlotsAreUnambiguous'
        /\ slot'["green"] # None => \E c \in Colors : slot'[c] = "active"
        /\ slot'[target] # None
    BY <1>18, <1>20 DEF ActivateFails, slotVars, Cutover
  <2>2. CASE Step("reroute")
    BY <2>1, <2>2 DEF Step, Switching, Cutover
  <2>3. CASE Compensate(RestoreSingletonServices)
    BY <2>1, <2>3 DEF Compensate, Return, Switching, Cutover
  <2> QED BY <1>20, <2>2, <2>3 DEF ActivateFails
<1>21. CASE UNCHANGED vars
  BY <1>21 DEF vars
<1> QED
  BY <1>2, <1>3, <1>7, <1>8, <1>9, <1>10, <1>11, <1>12, <1>13, <1>14, <1>16, <1>17,
     <1>19, <1>20, <1>21 DEF Next

\* However runs fail or die, there is at most one active and one standby slot, so
\* the color to deploy to and the color to roll back to are determined by the
\* table's contents and not by updated_at.
THEOREM SlotsUnambiguous == Spec => []SlotsAreUnambiguous
<1>1. Init => SlotInv
  BY DEF Init, SlotInv, SlotsAreUnambiguous, Switching, Cutover, Colors, Other
<1>2. TypeOK /\ RunInv /\ SlotInv /\ [Next]_vars => SlotInv'
  BY SlotStep
<1>3. SlotInv => SlotsAreUnambiguous
  BY DEF SlotInv
<1> QED BY <1>1, <1>2, <1>3, BlueGreenTypeCorrect, PTL DEF Spec

-----------------------------------------------------------------------------
(* What every run knows about its colors and its singleton services.       *)

\* The commands of a plan, whatever their order.
Planned(s) == {s[i] : i \in 1..Len(s)}

\* A run comes from the color beside its target; with singletons it has none to
\* come from only when nothing was ever recorded there.  Singletons run only in
\* recorded colors of an application that has some.  Routes are applied from the
\* first one, and compensation starts and stops the colors of its run.
ColorInv ==
  /\ from # None => from = Other(target) /\ slot[from] # None
  /\ pc # "idle" /\ hasSingletons /\ from = None => target = "blue" /\ slot["green"] = None
  /\ pc \in Switching => hasSingletons
  /\ pc \notin {"routes", "reroute", "undo"} => next = 1
  /\ pc \in {"up", "health", "record"} => slot[target] # "active"

\* See ColorInv.
SingletonInv ==
  /\ \A c \in Colors : slot[c] = None \/ ~hasSingletons => ~single[c]
  /\ pc = "undo" =>
       \A k \in Planned(undo) :
         /\ k.op \in {"start", "stop"} => hasSingletons
         /\ k.op = "start" => from # None /\ k.color = from
         /\ k.op = "stop" => k.color = target /\ slot[target] # None

\* NoSingletonOverlap, strengthened: from the stop of the old color on it does
\* not run, and a planned start is the last command and preceded by the stop of
\* the other color.
OverlapInv ==
  failedAt \cap {"stopOld", "undo"} = {} =>
    /\ ~(single["blue"] /\ single["green"])
    /\ pc \in {"startNew", "verify"} \cup Cutover \cup {"reroute", "repromote"} =>
         ~single[Other(target)]
    /\ pc = "undo" =>
         \A i \in 1..Len(undo) : undo[i].op = "start" =>
           /\ i = Len(undo)
           /\ i > 1 => undo[i - 1].op = "stop"
           /\ i = 1 => ~single[target]

-----------------------------------------------------------------------------
(* Plans.                                                                  *)

LEMMA PlanTail ==
  ASSUME NEW s \in Seq(Commands), s # <<>>
  PROVE  /\ Planned(s) = {Head(s)} \cup Planned(Tail(s))
         /\ Head(s) \in Commands /\ Tail(s) \in Seq(Commands)
         /\ Len(Tail(s)) = Len(s) - 1 /\ Len(s) \in Nat \ {0}
         /\ \A i \in 1..Len(Tail(s)) : Tail(s)[i] = s[i + 1]
<1>1. /\ Head(s) = s[1] /\ Len(s) \in Nat \ {0} /\ Len(Tail(s)) = Len(s) - 1
      /\ \A i \in 1..Len(Tail(s)) : Tail(s)[i] = s[i + 1]
      /\ Head(s) \in Commands /\ Tail(s) \in Seq(Commands)
  OBVIOUS
<1>2. ASSUME NEW i \in 1..Len(s) PROVE s[i] \in {Head(s)} \cup Planned(Tail(s))
  <2>1. CASE i = 1 BY <1>1, <2>1
  <2>2. CASE i # 1
    <3>1. i - 1 \in 1..Len(Tail(s)) /\ s[i] = Tail(s)[i - 1] BY <1>1, <2>2
    <3> QED BY <3>1 DEF Planned
  <2> QED BY <2>1, <2>2
<1>3. ASSUME NEW i \in 1..Len(Tail(s)) PROVE Tail(s)[i] \in Planned(s)
  <2>1. i + 1 \in 1..Len(s) BY <1>1
  <2> QED BY <1>1, <2>1 DEF Planned
<1>4. Head(s) \in Planned(s)
  <2>1. 1 \in 1..Len(s) BY <1>1
  <2> QED BY <1>1, <2>1 DEF Planned
<1>5. Planned(s) \subseteq {Head(s)} \cup Planned(Tail(s)) BY <1>2 DEF Planned
<1>6. Planned(Tail(s)) \subseteq Planned(s) BY <1>3 DEF Planned
<1> QED BY <1>1, <1>4, <1>5, <1>6

LEMMA PlanConcat ==
  ASSUME NEW s \in Seq(Commands), NEW t \in Seq(Commands)
  PROVE  Planned(s \o t) = Planned(s) \cup Planned(t)
<1>1. /\ Len(s) \in Nat /\ Len(t) \in Nat /\ Len(s \o t) = Len(s) + Len(t)
      /\ \A i \in 1..(Len(s) + Len(t)) :
           (s \o t)[i] = IF i <= Len(s) THEN s[i] ELSE t[i - Len(s)]
  OBVIOUS
<1>2. ASSUME NEW i \in 1..Len(s \o t) PROVE (s \o t)[i] \in Planned(s) \cup Planned(t)
  <2>1. CASE i <= Len(s)
    <3>1. i \in 1..Len(s) /\ (s \o t)[i] = s[i] BY <1>1, <2>1
    <3> QED BY <3>1 DEF Planned
  <2>2. CASE ~(i <= Len(s))
    <3>1. i - Len(s) \in 1..Len(t) /\ (s \o t)[i] = t[i - Len(s)] BY <1>1, <2>2
    <3> QED BY <3>1 DEF Planned
  <2> QED BY <2>1, <2>2
<1>3. ASSUME NEW i \in 1..Len(s) PROVE s[i] \in Planned(s \o t)
  <2>1. i \in 1..Len(s \o t) /\ (s \o t)[i] = s[i] BY <1>1
  <2> QED BY <2>1 DEF Planned
<1>4. ASSUME NEW i \in 1..Len(t) PROVE t[i] \in Planned(s \o t)
  <2>1. Len(s) + i \in 1..Len(s \o t) /\ (s \o t)[Len(s) + i] = t[i] BY <1>1
  <2> QED BY <2>1 DEF Planned
<1>5. Planned(s \o t) \subseteq Planned(s) \cup Planned(t) BY <1>2 DEF Planned
<1>6. Planned(s) \subseteq Planned(s \o t) /\ Planned(t) \subseteq Planned(s \o t)
  BY <1>3, <1>4 DEF Planned
<1> QED BY <1>5, <1>6

\* restoreSingletonServices stops the target and then starts the color it
\* came from.
LEMMA PlanRestore ==
  ASSUME TypeOK, target \in Colors
  PROVE  /\ Planned(RestoreSingletonServices) =
              IF ~hasSingletons THEN {}
              ELSE IF from = None THEN {Compose("stop", target)}
              ELSE {Compose("stop", target), Compose("start", from)}
         /\ RestoreSingletonServices \in Seq(Commands)
<1>1. Planned(<<>>) = {} BY DEF Planned
<1>2. \A x : Planned(<<x>>) = {x} BY DEF Planned
<1>3. \A x, y : Planned(<<x, y>>) = {x, y}
  <2> SUFFICES ASSUME NEW x, NEW y PROVE Planned(<<x, y>>) = {x, y}
    OBVIOUS
  <2>1. Len(<<x, y>>) = 2 /\ <<x, y>>[1] = x /\ <<x, y>>[2] = y OBVIOUS
  <2>2. 1..2 = {1, 2} OBVIOUS
  <2> QED BY <2>1, <2>2 DEF Planned
<1> QED BY <1>1, <1>2, <1>3, RestoreType DEF RestoreSingletonServices

\* rollbackProxyRoutes plans one command for each of the first n routes.
LEMMA PlanRollback ==
  ASSUME TypeOK, NEW n \in 0..NRoutes
  PROVE  /\ Planned(RollbackProxyRoutes(n)) =
              {[op |-> "route", route |-> r, color |-> routeUrl[r]] : r \in 1..n}
         /\ RollbackProxyRoutes(n) \in Seq(Commands)
<1> DEFINE s == RollbackProxyRoutes(n)
           C(r) == [op |-> "route", route |-> r, color |-> routeUrl[r]]
<1>1. s \in Seq(Commands) BY RollbackType
<1>2. DOMAIN s = 1..n /\ n \in Nat BY BlueGreenAssumption DEF RollbackProxyRoutes
<1>3. Len(s) = n BY <1>1, <1>2
<1>4. \A i \in 1..n : s[i] = C(n + 1 - i) BY DEF RollbackProxyRoutes
<1>5. \A i \in 1..n : n + 1 - i \in 1..n /\ n + 1 - (n + 1 - i) = i BY <1>2
<1>6. Planned(s) \subseteq {C(r) : r \in 1..n}
  BY <1>3, <1>4, <1>5 DEF Planned
<1>7. ASSUME NEW r \in 1..n PROVE C(r) \in Planned(s)
  <2>1. n + 1 - r \in 1..n /\ s[n + 1 - r] = C(r) BY <1>4, <1>5
  <2> QED BY <1>3, <2>1 DEF Planned
<1> QED BY <1>1, <1>6, <1>7

\* The two together, as applyProxyRoutes and switchSingletonServices leave them.
LEMMA PlanBoth ==
  ASSUME TypeOK, target \in Colors, NEW n \in 0..NRoutes
  PROVE  Planned(RollbackProxyRoutes(n) \o RestoreSingletonServices) =
           Planned(RollbackProxyRoutes(n)) \cup Planned(RestoreSingletonServices)
BY PlanRestore, PlanRollback, PlanConcat

-----------------------------------------------------------------------------
(* Colors and singleton services.                                          *)

LEMMA ColorStep ==
  ASSUME TypeOK, RunInv, SlotInv, ColorInv, [Next]_vars
  PROVE  ColorInv'
<1> USE DEF ColorInv, Colors, Other, None
<1>t. /\ slot \in [Colors -> {None, "active", "standby"}] /\ hasSingletons' = hasSingletons
      /\ target \in Colors \cup {None} /\ from \in Colors \cup {None}
  BY DEF TypeOK, Next, vars
<1>r. pc # "idle" => target \in Colors BY DEF RunInv
<1>1. ASSUME Return PROVE ColorInv'
  BY <1>1 DEF Return, Switching
<1>2. ASSUME pc # "idle", UNCHANGED <<target, from>>, pc' = "undo",
             \A c \in Colors : slot'[c] = None <=> slot[c] = None
      PROVE  ColorInv'
  BY <1>t, <1>r, <1>2 DEF Switching
<1>3. ASSUME NEW commands, pc # "idle", Compensate(commands),
             \A c \in Colors : slot'[c] = None <=> slot[c] = None
      PROVE  ColorInv'
  BY <1>1, <1>2, <1>3 DEF Compensate
<1>4. CASE BeginDeploy
  BY <1>t, <1>4 DEF BeginDeploy, slotVars, Switching, SlotInv, SlotsAreUnambiguous
<1>5. CASE BeginRollback
  BY <1>t, <1>5 DEF BeginRollback, slotVars, Switching
<1>6. CASE UpFails \/ HealthFails \/ RecordSlotFails \/ ActivateDeploymentSlot \/ Crash
  BY <1>1, <1>6 DEF UpFails, HealthFails, RecordSlotFails, ActivateDeploymentSlot, Crash
<1>7. CASE Up
  BY <1>t, <1>7 DEF Up, Step, slotVars, Switching
<1>8. CASE HealthPasses
  BY <1>t, <1>8 DEF HealthPasses, Step, FirstSwitch, slotVars, Switching
<1>9. CASE RecordSlot
  BY <1>t, <1>r, <1>9 DEF RecordSlot, WriteSlot, Step, FirstSwitch, Switching
<1>10. CASE StopOld \/ StartNew \/ Verify
  BY <1>t, <1>10 DEF StopOld, StartNew, Verify, Step, slotVars, Switching
<1>11. CASE StopOldFails \/ StartNewFails \/ VerifyFails \/ ApplyRouteFails \/ PromoteFails
  BY <1>3, <1>11
  DEF StopOldFails, StartNewFails, VerifyFails, ApplyRouteFails, PromoteFails, slotVars
<1>12. CASE ApplyRoute
  BY <1>t, <1>12 DEF ApplyRoute, runVars, slotVars, Switching
<1>13. CASE PromoteProxyRoutes
  <2>1. CASE pc = "promote" /\ Step("activate")
    BY <1>13, <1>t, <2>1 DEF PromoteProxyRoutes, Step, slotVars, Switching
  <2>2. CASE pc = "repromote" /\ Compensate(RestoreSingletonServices)
    BY <1>3, <1>13, <2>2 DEF PromoteProxyRoutes, slotVars
  <2> QED BY <1>13, <2>1, <2>2 DEF PromoteProxyRoutes
<1>14. CASE ActivateFails
  <2>1. pc = "activate" /\ \A c \in Colors : slot'[c] = None <=> slot[c] = None
    BY <1>t, <1>14 DEF ActivateFails, ActivateSlot, slotVars
  <2>2. CASE Step("reroute")
    BY <1>t, <1>r, <2>1, <2>2 DEF Step, Switching
  <2>3. CASE Compensate(RestoreSingletonServices)
    BY <1>3, <2>1, <2>3
  <2> QED BY <1>14, <2>2, <2>3 DEF ActivateFails
<1>15. CASE Undo \/ UndoFails
  BY <1>3, <1>15 DEF Undo, UndoFails, NextUndo, slotVars
<1>16. CASE UNCHANGED vars
  BY <1>16 DEF vars
<1> QED
  BY <1>4, <1>5, <1>6, <1>7, <1>8, <1>9, <1>10, <1>11, <1>12, <1>13, <1>14, <1>15, <1>16
  DEF Next

\* Compensation touches only the colors of the run.
PlanInv(s) ==
  \A k \in Planned(s) :
    /\ k.op \in {"start", "stop"} => hasSingletons
    /\ k.op = "start" => from # None /\ k.color = from
    /\ k.op = "stop" => k.color = target /\ slot[target] # None

LEMMA PlansAreSound ==
  ASSUME TypeOK, RunInv, target \in Colors, slot[target] # None
  PROVE  /\ PlanInv(RestoreSingletonServices)
         /\ \A n \in 0..NRoutes : PlanInv(RollbackProxyRoutes(n) \o RestoreSingletonServices)
<1>1. PlanInv(RestoreSingletonServices)
  BY PlanRestore DEF PlanInv, Compose
<1>2. ASSUME NEW n \in 0..NRoutes
      PROVE  PlanInv(RollbackProxyRoutes(n) \o RestoreSingletonServices)
  <2>1. \A k \in Planned(RollbackProxyRoutes(n)) : k.op = "route"
    BY PlanRollback
  <2> QED BY <1>1, <2>1, PlanBoth DEF PlanInv
<1> QED BY <1>1, <1>2

LEMMA SingletonStep ==
  ASSUME TypeOK, RunInv, SlotInv, ColorInv, SingletonInv, [Next]_vars
  PROVE  SingletonInv'
<1> DEFINE Quiet == \A c \in Colors : slot[c] = None \/ ~hasSingletons => ~single[c]
<1>t. /\ slot \in [Colors -> {None, "active", "standby"}] /\ hasSingletons' = hasSingletons
      /\ single \in [Colors -> BOOLEAN]
  BY DEF TypeOK, Next, vars
<1>r. pc # "idle" => target \in Colors BY DEF RunInv
<1>q. Quiet BY DEF SingletonInv
<1>s. pc \in Switching \cup Cutover \cup {"reroute", "repromote"} => slot[target] # None
  BY DEF SlotInv
<1>1. ASSUME Quiet', pc' # "undo" PROVE SingletonInv'
  BY <1>1 DEF SingletonInv
<1>2. ASSUME NEW commands, PlanInv(commands), Quiet', Compensate(commands),
             slot[target] # None => slot'[target] # None
      PROVE  SingletonInv'
  <2>1. CASE Return BY <1>1, <1>2, <2>1 DEF Return
  <2>2. CASE undo' = commands /\ UNCHANGED <<target, from>>
    BY <1>2, <1>t, <2>2 DEF SingletonInv, PlanInv
  <2> QED BY <1>2, <2>1, <2>2 DEF Compensate
<1>3. ASSUME UNCHANGED <<slot, single>> PROVE Quiet'
  BY <1>3, <1>t, <1>q
<1>4. ASSUME UNCHANGED slot, NEW c \in Colors, SetSingle(c, FALSE) PROVE Quiet'
  BY <1>4, <1>t, <1>q DEF SetSingle
<1>5. ASSUME UNCHANGED slot, NEW c \in Colors, NEW running \in BOOLEAN, SetSingle(c, running),
             slot[c] # None, hasSingletons
      PROVE  Quiet'
  BY <1>5, <1>t, <1>q DEF SetSingle
<1>6. CASE BeginDeploy \/ BeginRollback \/ HealthPasses \/ HealthFails \/ Verify \/ ApplyRoute
           \/ Crash
  <2>1. UNCHANGED <<slot, single>>
    BY <1>6 DEF BeginDeploy, BeginRollback, HealthPasses, HealthFails, Verify, ApplyRoute, Crash,
       slotVars
  <2>2. pc' # "undo"
    BY <1>6 DEF BeginDeploy, BeginRollback, HealthPasses, HealthFails, Verify, ApplyRoute, Crash,
       Step, Return, FirstSwitch
  <2> QED BY <1>1, <1>3, <2>1, <2>2
<1>7. CASE Up \/ UpFails
  <2>1. UNCHANGED slot /\ target \in Colors /\ pc' # "undo"
    BY <1>7, <1>r DEF Up, UpFails, slotVars, Step, Return
  <2>2. UNCHANGED single \/ SetSingle(target, FALSE)
    BY <1>7 DEF Up, UpFails, ReplaceStack, SetSingle
  <2> QED BY <1>1, <1>3, <1>4, <2>1, <2>2
<1>8. CASE RecordSlot \/ RecordSlotFails
  <2>1. UNCHANGED single /\ target \in Colors /\ pc' # "undo"
    BY <1>8, <1>r DEF RecordSlot, RecordSlotFails, Step, Return, FirstSwitch
  <2>2. UNCHANGED slot \/ slot' = [slot EXCEPT ![target] = "standby"]
    BY <1>8 DEF RecordSlot, RecordSlotFails, WriteSlot, slotVars
  <2>3. Quiet' BY <1>t, <1>q, <2>1, <2>2 DEF None
  <2> QED BY <1>1, <2>1, <2>3
<1>9. CASE StopOld \/ StopOldFails
  <2>1. UNCHANGED slot /\ from \in Colors /\ pc = "stopOld" /\ hasSingletons
    BY <1>9 DEF StopOld, StopOldFails, slotVars, RunInv, ColorInv, Switching
  <2>2. UNCHANGED single \/ SetSingle(from, FALSE)
    BY <1>9 DEF StopOld, StopOldFails
  <2>3. Quiet' BY <1>3, <1>4, <2>1, <2>2
  <2>4. CASE StopOld BY <1>1, <2>3, <2>4 DEF StopOld, Step
  <2>5. CASE StopOldFails
    <3>1. Planned(<<Compose("start", from)>>) = {Compose("start", from)} BY DEF Planned
    <3>2. PlanInv(<<Compose("start", from)>>) BY <2>1, <3>1 DEF PlanInv, Compose, Colors, None
    <3> QED BY <1>2, <2>1, <2>3, <2>5, <3>2 DEF StopOldFails
  <2> QED BY <1>9, <2>4, <2>5
<1>10. CASE StartNew \/ StartNewFails \/ VerifyFails
  <2>1. UNCHANGED slot /\ target \in Colors /\ pc \in Switching /\ hasSingletons
        /\ slot[target] # None
    BY <1>10, <1>r, <1>s DEF StartNew, StartNewFails, VerifyFails, slotVars, ColorInv, Switching
  <2>2. UNCHANGED single \/ \E running \in BOOLEAN : SetSingle(target, running)
    BY <1>10 DEF StartNew, StartNewFails, VerifyFails
  <2>3. Quiet' BY <1>3, <1>5, <2>1, <2>2
  <2>4. PlanInv(RestoreSingletonServices) BY <2>1, PlansAreSound
  <2> QED BY <1>1, <1>2, <1>10, <2>1, <2>3, <2>4
          DEF StartNew, StartNewFails, VerifyFails, Step
<1>11. CASE ApplyRouteFails \/ PromoteFails
  <2>1. UNCHANGED <<slot, single>> /\ target \in Colors /\ slot[target] # None
    BY <1>11, <1>r, <1>s DEF ApplyRouteFails, PromoteFails, slotVars, Cutover
  <2>2. next - 1 \in 0..NRoutes /\ NRoutes \in 0..NRoutes
    BY BlueGreenAssumption DEF TypeOK, Routes
  <2> QED BY <1>2, <1>3, <1>11, <2>1, <2>2, PlansAreSound DEF ApplyRouteFails, PromoteFails
<1>12. CASE PromoteProxyRoutes
  <2>1. UNCHANGED <<slot, single>> /\ target \in Colors /\ slot[target] # None
    BY <1>12, <1>r, <1>s DEF PromoteProxyRoutes, slotVars, Cutover
  <2> QED BY <1>1, <1>2, <1>3, <1>12, <2>1, PlansAreSound DEF PromoteProxyRoutes, Step
<1>13. CASE ActivateDeploymentSlot \/ ActivateFails
  <2>1. UNCHANGED single /\ target \in Colors /\ slot[target] # None
    BY <1>13, <1>r, <1>s DEF ActivateDeploymentSlot, ActivateFails, Cutover
  <2>2. \A c \in Colors : slot'[c] = None <=> slot[c] = None
    BY <1>t, <1>13 DEF ActivateDeploymentSlot, ActivateFails, ActivateSlot, slotVars, None
  <2>3. Quiet' BY <1>t, <1>q, <2>1, <2>2
  <2> QED BY <1>1, <1>2, <1>13, <2>1, <2>2, <2>3, PlansAreSound
          DEF ActivateDeploymentSlot, ActivateFails, Step, Return
<1>14. CASE Undo \/ UndoFails
  <2>1. /\ pc = "undo" /\ undo \in Seq(Commands) /\ undo # <<>> /\ UNCHANGED slot
        /\ Compensate(Tail(undo)) /\ target \in Colors
    BY <1>14, <1>r DEF Undo, UndoFails, NextUndo, RunInv, TypeOK, slotVars
  <2>2. PlanInv(undo) BY <2>1 DEF SingletonInv, PlanInv
  <2>3. PlanInv(Tail(undo)) /\ Head(undo) \in Planned(undo) /\ Head(undo) \in Commands
    BY <2>1, <2>2, PlanTail DEF PlanInv
  <2>4. Quiet'
    <3>1. CASE UNCHANGED single BY <1>3, <2>1, <3>1
    <3>2. CASE Head(undo).op = "stop" /\ SetSingle(Head(undo).color, FALSE)
      BY <1>4, <2>1, <2>3, <3>2 DEF Commands
    <3>3. CASE Head(undo).op = "start" /\ SetSingle(Head(undo).color, TRUE)
      <4>1. hasSingletons /\ slot[Head(undo).color] # None /\ Head(undo).color \in Colors
        BY <2>2, <2>3, <3>3 DEF PlanInv, ColorInv, Commands
      <4> QED BY <1>5, <2>1, <3>3, <4>1
    <3> QED BY <1>14, <3>1, <3>2, <3>3 DEF Undo, UndoFails, RunCommand
  <2> QED BY <1>2, <2>1, <2>3, <2>4
<1>15. CASE UNCHANGED vars
  BY <1>15 DEF vars, SingletonInv
<1> QED
  BY <1>6, <1>7, <1>8, <1>9, <1>10, <1>11, <1>12, <1>13, <1>14, <1>15 DEF Next

\* What later proofs start from.
BaseInv == TypeOK /\ RunInv /\ SlotInv /\ ColorInv /\ SingletonInv

\* Runs keep to their colors, whatever fails.
THEOREM RunsKeepTheirColors == Spec => []BaseInv
<1>1. Init => SlotInv /\ ColorInv /\ SingletonInv
  BY DEF Init, SlotInv, SlotsAreUnambiguous, ColorInv, SingletonInv, Switching, Cutover, Colors,
         Other, None
<1>2. TypeOK /\ RunInv /\ SlotInv /\ ColorInv /\ SingletonInv /\ [Next]_vars
        => (SlotInv /\ ColorInv /\ SingletonInv)'
  BY SlotStep, ColorStep, SingletonStep
<1>3. TypeOK /\ RunInv /\ SlotInv /\ ColorInv /\ SingletonInv <=> BaseInv
  BY DEF BaseInv
<1> QED BY <1>1, <1>2, <1>3, BlueGreenTypeCorrect, PTL DEF Spec

-----------------------------------------------------------------------------
(* Singleton services never overlap.                                       *)

\* A start is the last command of a plan and follows a stop.
StopsFirst(s) ==
  \A i \in 1..Len(s) : s[i].op = "start" => i = Len(s) /\ i > 1 /\ s[i - 1].op = "stop"

LEMMA RestoreStopsFirst ==
  ASSUME TypeOK, target \in Colors
  PROVE  /\ StopsFirst(RestoreSingletonServices)
         /\ \A n \in 0..NRoutes : StopsFirst(RollbackProxyRoutes(n) \o RestoreSingletonServices)
<1> DEFINE t == RestoreSingletonServices
<1>1. t \in Seq(Commands) BY RestoreType
<1>2. StopsFirst(t)
  <2>1. CASE t = <<>> BY <2>1 DEF StopsFirst
  <2>2. CASE t = <<Compose("stop", target)>>
    <3>1. Len(t) = 1 /\ t[1].op = "stop" BY <2>2 DEF Compose
    <3> QED BY <3>1 DEF StopsFirst
  <2>3. CASE t = <<Compose("stop", target), Compose("start", from)>>
    <3>1. Len(t) = 2 /\ t[1].op = "stop" BY <2>3 DEF Compose
    <3>2. \A i \in 1..2 : i = 1 \/ i = 2 OBVIOUS
    <3> QED BY <3>1, <3>2 DEF StopsFirst
  <2> QED BY <2>1, <2>2, <2>3 DEF RestoreSingletonServices
<1>3. ASSUME NEW n \in 0..NRoutes PROVE StopsFirst(RollbackProxyRoutes(n) \o t)
  <2> DEFINE s == RollbackProxyRoutes(n)
  <2>1. s \in Seq(Commands) /\ \A i \in 1..Len(s) : s[i].op = "route"
    BY PlanRollback DEF Planned
  <2>2. /\ Len(s) \in Nat /\ Len(t) \in Nat /\ Len(s \o t) = Len(s) + Len(t)
        /\ \A i \in 1..(Len(s) + Len(t)) :
             (s \o t)[i] = IF i <= Len(s) THEN s[i] ELSE t[i - Len(s)]
    BY <1>1, <2>1
  <2> HIDE DEF s, t
  <2>3. ASSUME NEW i \in 1..Len(s \o t), (s \o t)[i].op = "start"
        PROVE  i = Len(s \o t) /\ i > 1 /\ (s \o t)[i - 1].op = "stop"
    <3>1. i > Len(s)
      <4>1. ASSUME i <= Len(s) PROVE FALSE
        <5>1. i \in 1..Len(s) /\ (s \o t)[i] = s[i] BY <2>2, <2>3, <4>1
        <5> QED BY <2>1, <2>3, <5>1
      <4> QED BY <2>2, <4>1
    <3>2. i - Len(s) \in 1..Len(t) /\ (s \o t)[i] = t[i - Len(s)] BY <2>2, <3>1
    <3>3. i - Len(s) = Len(t) /\ i - Len(s) > 1 /\ t[i - Len(s) - 1].op = "stop"
      BY <1>2, <2>3, <3>2 DEF StopsFirst
    <3>4. i - 1 \in 1..(Len(s) + Len(t)) /\ ~(i - 1 <= Len(s)) /\ i = Len(s) + Len(t)
      BY <2>2, <3>3
    <3>5. (s \o t)[i - 1] = t[i - 1 - Len(s)] BY <2>2, <3>4
    <3>6. i - 1 - Len(s) = i - Len(s) - 1 BY <2>2
    <3> QED BY <2>2, <3>3, <3>4, <3>5, <3>6
  <2> QED BY <2>3 DEF StopsFirst, s, t
<1> QED BY <1>2, <1>3

\* Histories are only added to.
LEMMA HistoriesGrow ==
  ASSUME [Next]_vars
  PROVE  failedAt \subseteq failedAt' /\ crashedAt \subseteq crashedAt'
<1>1. CASE BeginDeploy \/ BeginRollback \/ Up \/ HealthPasses \/ HealthFails \/ RecordSlot
           \/ StopOld \/ StartNew \/ Verify \/ ApplyRoute \/ PromoteProxyRoutes
           \/ ActivateDeploymentSlot \/ Undo
  BY <1>1 DEF BeginDeploy, BeginRollback, Up, HealthPasses, HealthFails, RecordSlot, StopOld,
     StartNew, Verify, ApplyRoute, PromoteProxyRoutes, ActivateDeploymentSlot, Undo, faultVars,
     crashVars
<1>2. ASSUME Rejected \/ Lost \/ Partial \/ UNCHANGED <<crashVars, faultVars>>
      PROVE  failedAt \subseteq failedAt' /\ crashedAt \subseteq crashedAt'
  BY <1>2 DEF Rejected, Lost, Partial, Failure, crashVars, faultVars
<1>3. CASE UpFails \/ RecordSlotFails \/ StopOldFails \/ StartNewFails \/ VerifyFails
           \/ ApplyRouteFails \/ PromoteFails \/ ActivateFails \/ UndoFails
  BY <1>2, <1>3 DEF UpFails, RecordSlotFails, StopOldFails, StartNewFails, VerifyFails,
     ApplyRouteFails, PromoteFails, ActivateFails, UndoFails
<1>4. CASE Crash BY <1>4 DEF Crash, faultVars
<1>5. CASE UNCHANGED vars BY <1>5 DEF vars
<1> QED BY <1>1, <1>3, <1>4, <1>5 DEF Next

LEMMA FailuresAreRecorded ==
  ASSUME Rejected \/ Lost \/ Partial
  PROVE  pc \in failedAt' /\ (Lost => "lost" \in failedAt') /\ (Partial => "partial" \in failedAt')
BY DEF Rejected, Lost, Partial, Failure

LEMMA OverlapStep ==
  ASSUME BaseInv, OverlapInv, [Next]_vars, failedAt' \cap {"stopOld", "undo"} = {}
  PROVE  OverlapInv'
<1> DEFINE Alone == ~(single["blue"] /\ single["green"])
           After == {"startNew", "verify"} \cup Cutover \cup {"reroute", "repromote"}
           Ordered(s) == \A i \in 1..Len(s) : s[i].op = "start" =>
                           /\ i = Len(s)
                           /\ i > 1 => s[i - 1].op = "stop"
                           /\ i = 1 => ~single[target]
<1>t. /\ single \in [Colors -> BOOLEAN] /\ target \in Colors \cup {None}
      /\ from \in Colors \cup {None} /\ slot \in [Colors -> {None, "active", "standby"}]
      /\ hasSingletons' = hasSingletons
  BY DEF BaseInv, TypeOK, Next, vars
<1>b. TypeOK /\ RunInv /\ SlotInv /\ ColorInv /\ SingletonInv BY DEF BaseInv
<1>r. pc # "idle" => target \in Colors BY <1>b DEF RunInv
<1>c. from # None => from = Other(target) BY <1>b DEF ColorInv
<1>0. failedAt \cap {"stopOld", "undo"} = {} BY HistoriesGrow
<1>i. /\ Alone /\ (pc \in After => ~single[Other(target)])
      /\ (pc = "undo" => Ordered(undo))
  BY <1>0 DEF OverlapInv
<1>o. \A c \in Colors : Other(c) \in Colors /\ Other(c) # c /\ Other(Other(c)) = c
                        /\ (Alone <=> ~(single[c] /\ single[Other(c)]))
  BY <1>t DEF Other, Colors
<1>o2. \A c \in Colors : Alone' <=> ~(single'[c] /\ single'[Other(c)])
  BY DEF Other, Colors
<1>1. ASSUME Alone', pc' \notin After \cup {"undo"} PROVE OverlapInv'
  BY <1>1 DEF OverlapInv
<1>2. ASSUME Alone', UNCHANGED target, ~single'[Other(target)], pc' # "undo" PROVE OverlapInv'
  BY <1>2 DEF OverlapInv
<1>3. ASSUME NEW commands \in Seq(Commands), Compensate(commands), Alone',
             \A i \in 1..Len(commands) : commands[i].op = "start" =>
                           /\ i = Len(commands)
                           /\ i > 1 => commands[i - 1].op = "stop"
                           /\ i = 1 => ~single'[target]
      PROVE  OverlapInv'
  <2>1. CASE Return BY <1>1, <1>3, <2>1 DEF Return, Cutover
  <2>2. CASE undo' = commands /\ pc' = "undo" /\ UNCHANGED target
    BY <1>3, <2>2 DEF OverlapInv, Cutover
  <2> QED BY <1>3, <2>1, <2>2 DEF Compensate
<1>4. ASSUME target \in Colors, Alone', NEW n \in 0..NRoutes,
             \/ Compensate(RestoreSingletonServices)
             \/ Compensate(RollbackProxyRoutes(n) \o RestoreSingletonServices)
      PROVE  OverlapInv'
  <2>1. /\ RestoreSingletonServices \in Seq(Commands)
        /\ RollbackProxyRoutes(n) \o RestoreSingletonServices \in Seq(Commands)
    BY <1>b, <1>4, PlanRestore, PlanRollback
  <2>2. /\ StopsFirst(RestoreSingletonServices)
        /\ StopsFirst(RollbackProxyRoutes(n) \o RestoreSingletonServices)
    BY <1>b, <1>4, RestoreStopsFirst
  <2>3. ASSUME NEW s \in Seq(Commands), StopsFirst(s), Compensate(s) PROVE OverlapInv'
    <3>1. \A i \in 1..Len(s) : i > 1 => i # 1 OBVIOUS
    <3>2. \A i \in 1..Len(s) : s[i].op = "start" =>
            i = Len(s) /\ (i > 1 => s[i - 1].op = "stop") /\ i # 1
      BY <2>3, <3>1 DEF StopsFirst
    <3> QED BY <1>3, <1>4, <2>3, <3>2
  <2> QED BY <1>4, <2>1, <2>2, <2>3
<1>n. next - 1 \in 0..NRoutes /\ NRoutes \in 0..NRoutes
  BY <1>b, BlueGreenAssumption DEF TypeOK, Routes
<1>w. FirstSwitch \in After /\ FirstSwitch # "stopOld" => ~single[Other(target)] \/ pc = "idle"
  <2>1. CASE ~hasSingletons
    BY <1>b, <1>o, <1>r, <2>1 DEF SingletonInv
  <2>2. CASE hasSingletons /\ from = None
    BY <1>b, <2>2 DEF SingletonInv, ColorInv, Other, Colors
  <2>3. CASE hasSingletons /\ from # None
    BY <2>3 DEF FirstSwitch
  <2> QED BY <2>1, <2>2, <2>3
<1>5. CASE BeginDeploy \/ BeginRollback \/ HealthFails \/ RecordSlotFails \/ Crash
           \/ ActivateDeploymentSlot
  <2>1. UNCHANGED single
    BY <1>5 DEF BeginDeploy, BeginRollback, HealthFails, RecordSlotFails, Crash,
       ActivateDeploymentSlot
  <2>2. pc' \notin After \cup {"undo"}
    BY <1>5 DEF BeginDeploy, BeginRollback, HealthFails, RecordSlotFails, Crash, Return,
       ActivateDeploymentSlot, Cutover
  <2> QED BY <1>1, <1>i, <2>1, <2>2
<1>6. CASE Up \/ UpFails
  <2>1. pc' \notin After \cup {"undo"} /\ target \in Colors
    BY <1>6, <1>r DEF Up, UpFails, Step, Return, Cutover
  <2>2. UNCHANGED single \/ single' = [single EXCEPT ![target] = FALSE]
    BY <1>6 DEF Up, UpFails, ReplaceStack
  <2>3. Alone' BY <1>t, <1>i, <1>o, <1>o2, <2>1, <2>2
  <2> QED BY <1>1, <2>1, <2>3
<1>7. CASE HealthPasses \/ RecordSlot
  <2>1. UNCHANGED <<single, target>> /\ pc # "idle"
    BY <1>7 DEF HealthPasses, RecordSlot, Step
  <2>2. pc' = "record" \/ pc' = FirstSwitch
    BY <1>7 DEF HealthPasses, RecordSlot, Step
  <2>3. CASE pc' \in {"record", "stopOld"}
    BY <1>1, <1>i, <2>1, <2>3 DEF Cutover
  <2>4. CASE pc' \notin {"record", "stopOld"}
    <3>1. FirstSwitch \in After /\ FirstSwitch # "stopOld" /\ pc' # "undo"
      BY <2>2, <2>4 DEF FirstSwitch, Cutover
    <3> QED BY <1>2, <1>i, <1>w, <2>1, <3>1
  <2> QED BY <2>3, <2>4
<1>8. CASE StopOld
  <2>1. /\ single' = [single EXCEPT ![from] = FALSE] /\ UNCHANGED target /\ pc' # "undo"
        /\ from \in Colors /\ target \in Colors
    BY <1>8, <1>b, <1>r DEF StopOld, SetSingle, Step, RunInv
  <2>2. from = Other(target) BY <1>c, <2>1 DEF Colors, None
  <2>3. Alone' /\ ~single'[Other(target)] BY <1>t, <1>i, <1>o, <1>o2, <2>1, <2>2
  <2> QED BY <1>2, <2>1, <2>3
<1>9. CASE StopOldFails
  BY <1>9, FailuresAreRecorded DEF StopOldFails
<1>10. CASE StartNew \/ StartNewFails \/ Verify \/ VerifyFails
  <2>1. target \in Colors /\ ~single[Other(target)]
    BY <1>10, <1>r, <1>i DEF StartNew, StartNewFails, Verify, VerifyFails
  <2>2. UNCHANGED single \/ \E running \in BOOLEAN : single' = [single EXCEPT ![target] = running]
    BY <1>10 DEF StartNew, StartNewFails, Verify, VerifyFails, SetSingle
  <2>3. Alone' /\ ~single'[Other(target)] BY <1>t, <1>i, <1>o, <1>o2, <2>1, <2>2
  <2>4. CASE StartNew \/ Verify
    BY <1>2, <2>3, <2>4 DEF StartNew, Verify, Step
  <2>5. CASE StartNewFails \/ VerifyFails
    BY <1>4, <1>n, <2>1, <2>3, <2>5 DEF StartNewFails, VerifyFails
  <2> QED BY <1>10, <2>4, <2>5
<1>11. CASE ApplyRoute \/ ApplyRouteFails \/ PromoteProxyRoutes \/ PromoteFails \/ ActivateFails
  <2>1. target \in Colors /\ ~single[Other(target)] /\ UNCHANGED single
    BY <1>11, <1>r, <1>i DEF ApplyRoute, ApplyRouteFails, PromoteProxyRoutes, PromoteFails,
       ActivateFails, Cutover
  <2>2. CASE ApplyRoute
    BY <1>2, <1>i, <2>1, <2>2 DEF ApplyRoute, runVars
  <2>3. CASE ApplyRouteFails \/ PromoteFails
    BY <1>4, <1>i, <1>n, <2>1, <2>3 DEF ApplyRouteFails, PromoteFails
  <2>4. CASE PromoteProxyRoutes
    BY <1>2, <1>4, <1>i, <1>n, <2>1, <2>4 DEF PromoteProxyRoutes, Step
  <2>5. CASE ActivateFails
    BY <1>2, <1>4, <1>i, <1>n, <2>1, <2>5 DEF ActivateFails, Step
  <2> QED BY <1>11, <2>2, <2>3, <2>4, <2>5
<1>12. CASE Undo
  <2>1. /\ pc = "undo" /\ undo \in Seq(Commands) /\ undo # <<>> /\ target \in Colors
        /\ Compensate(Tail(undo)) /\ RunCommand(Head(undo))
    BY <1>12, <1>b, <1>r DEF Undo, NextUndo, RunInv, TypeOK
  <2>2. /\ Head(undo) = undo[1] /\ Head(undo) \in Planned(undo) /\ Tail(undo) \in Seq(Commands)
        /\ Len(Tail(undo)) = Len(undo) - 1 /\ Len(undo) \in Nat \ {0}
        /\ \A i \in 1..Len(Tail(undo)) : Tail(undo)[i] = undo[i + 1]
    BY <2>1, PlanTail
  <2>3. /\ Head(undo).op = "start" => Head(undo).color = Other(target) /\ Len(undo) = 1
                                      /\ ~single[target]
        /\ Head(undo).op = "stop" => Head(undo).color = target
    <3>1. 1 \in 1..Len(undo) BY <2>2
    <3> QED BY <1>b, <1>c, <1>i, <2>1, <2>2, <3>1 DEF SingletonInv
  <2>4. \/ Head(undo).op = "route" /\ UNCHANGED single
        \/ Head(undo).op = "stop" /\ single' = [single EXCEPT ![target] = FALSE]
        \/ Head(undo).op = "start" /\ single' = [single EXCEPT ![Other(target)] = TRUE]
    BY <2>1, <2>3 DEF RunCommand, SetSingle
  <2>5. Alone' BY <1>t, <1>i, <1>o, <1>o2, <2>1, <2>3, <2>4
  <2>6. ASSUME NEW i \in 1..Len(Tail(undo)), Tail(undo)[i].op = "start"
        PROVE  /\ i = Len(Tail(undo))
               /\ i > 1 => Tail(undo)[i - 1].op = "stop"
               /\ i = 1 => ~single'[target]
    <3>1. i + 1 \in 1..Len(undo) /\ undo[i + 1].op = "start" /\ i \in Nat /\ i + 1 > 1
      BY <2>2, <2>6
    <3>2. i + 1 = Len(undo) /\ undo[i].op = "stop"
      <4>1. i + 1 - 1 = i BY <3>1
      <4>2. i + 1 = Len(undo) /\ undo[i + 1 - 1].op = "stop" BY <1>i, <2>1, <3>1
      <4> QED BY <4>1, <4>2
    <3>3. i > 1 => i - 1 \in 1..Len(Tail(undo)) /\ Tail(undo)[i - 1] = undo[i]
      BY <2>2, <3>1, <3>2
    <3>4. i = 1 => ~single'[target]
      BY <1>t, <2>1, <2>2, <2>4, <3>2
    <3>5. i = Len(Tail(undo))
      <4>1. Len(Tail(undo)) = Len(undo) - 1 BY <2>2
      <4>2. i \in Nat /\ Len(undo) = i + 1 BY <3>1, <3>2
      <4>3. i = (i + 1) - 1 BY <4>2
      <4> QED BY <4>1, <4>2, <4>3, Zenon
    <3> QED BY <3>2, <3>3, <3>4, <3>5
  <2> QED BY <1>3, <2>1, <2>2, <2>5, <2>6
<1>13. CASE UndoFails
  BY <1>13, FailuresAreRecorded DEF UndoFails
<1>14. CASE UNCHANGED vars
  BY <1>14 DEF vars, OverlapInv
<1> QED
  BY <1>5, <1>6, <1>7, <1>8, <1>9, <1>10, <1>11, <1>12, <1>13, <1>14 DEF Next

\* The singleton services of the two colors never run at the same time, unless
\* the stop of the old color or a compensating command failed.
THEOREM SingletonsNeverOverlap == Spec => []NoSingletonOverlap
<1>1. Init => OverlapInv
  BY DEF Init, OverlapInv, Cutover, Colors
<1>2. BaseInv /\ OverlapInv /\ [Next]_vars => OverlapInv'
  <2> SUFFICES ASSUME BaseInv, OverlapInv, [Next]_vars PROVE OverlapInv'
    OBVIOUS
  <2>1. CASE failedAt' \cap {"stopOld", "undo"} = {} BY <2>1, OverlapStep
  <2>2. CASE failedAt' \cap {"stopOld", "undo"} # {} BY <2>2 DEF OverlapInv
  <2> QED BY <2>1, <2>2
<1>3. OverlapInv => NoSingletonOverlap
  BY DEF OverlapInv, NoSingletonOverlap
<1> QED BY <1>1, <1>2, <1>3, RunsKeepTheirColors, PTL DEF Spec

-----------------------------------------------------------------------------
(* Traffic reaches checked containers only.                                *)

\* TrafficOnlyToChecked, strengthened: traffic is on the active color, or during
\* the cutover on the checked target; no file waits for a reload; routes move one
\* after the other; and no plan moves a route back.
ServedInv ==
  /\ file = live
  /\ \A r \in Routes : live[r] # None =>
       /\ checked[live[r]]
       /\ slot[live[r]] = "active" \/ (pc \in Cutover /\ live[r] = target)

\* See ServedInv.
CutoverInv ==
  /\ pc \in Switching \cup Cutover \cup {"record"} => checked[target]
  /\ pc = "routes" => \A r \in Routes : r < next => live[r] = target
  /\ pc \in {"promote", "activate"} => \A r \in Routes : live[r] = target
  /\ pc \notin {"reroute", "repromote"}
  /\ pc = "undo" => \A k \in Planned(undo) : k.op # "route"

LEMMA TrafficStep ==
  ASSUME BaseInv, ServedInv, CutoverInv, Next, CleanCutover'
  PROVE  ServedInv' /\ CutoverInv'
<1>b. TypeOK /\ RunInv /\ SlotInv /\ ColorInv BY DEF BaseInv
<1>t. /\ target \in Colors \cup {None} /\ slot \in [Colors -> {None, "active", "standby"}]
      /\ checked \in [Colors -> BOOLEAN] /\ live \in [Routes -> Colors \cup {None}]
      /\ file \in [Routes -> Colors \cup {None}] /\ next \in Routes
      /\ undo \in Seq(Commands)
  BY <1>b DEF TypeOK
<1>r. pc # "idle" => target \in Colors BY <1>b DEF RunInv
<1>f. pc \in Cutover \cup Compensation => ~Rejected /\ ~Lost /\ ~Partial /\ ~Crash
  BY FailuresAreRecorded DEF CleanCutover, Crash
<1>1. ASSUME UNCHANGED <<file, live, checked, slot>>, pc \notin Cutover PROVE ServedInv'
  BY <1>1 DEF ServedInv
<1>2. ASSUME Return PROVE CutoverInv'
  BY <1>2 DEF Return, CutoverInv, Switching, Cutover
<1>3. ASSUME NEW commands, Compensate(commands), \A k \in Planned(commands) : k.op # "route"
      PROVE  CutoverInv'
  <2>1. CASE pc' = "undo" /\ undo' = commands
    BY <1>3, <2>1 DEF CutoverInv, Switching, Cutover
  <2> QED BY <1>2, <1>3, <2>1 DEF Compensate
<1>4. CASE BeginDeploy \/ BeginRollback
  <2>1. UNCHANGED <<file, live, checked, slot>> /\ pc = "idle" /\ pc' \in {"up", "rollbackHealth"}
    BY <1>4 DEF BeginDeploy, BeginRollback, slotVars, stackVars, proxyVars
  <2>2. ServedInv' BY <1>1, <2>1 DEF Cutover
  <2>3. CutoverInv' BY <2>1 DEF CutoverInv, Switching, Cutover
  <2> QED BY <2>2, <2>3
<1>5. CASE Up \/ UpFails
  <2>1. /\ UNCHANGED <<file, live, slot>> /\ target \in Colors /\ slot[target] # "active"
        /\ pc \notin Cutover
        /\ \A c \in Colors \ {target} : checked'[c] = checked[c]
    BY <1>b, <1>t, <1>r, <1>5
       DEF Up, UpFails, slotVars, stackVars, proxyVars, ReplaceStack, ColorInv, Cutover
  <2>2. ServedInv' BY <1>t, <2>1 DEF ServedInv, None, Colors
  <2>3. CutoverInv'
    <3>1. CASE Step("health") BY <3>1 DEF Step, CutoverInv, Switching, Cutover
    <3> QED BY <1>2, <1>5, <3>1 DEF Up, UpFails
  <2> QED BY <2>2, <2>3
<1>6. CASE HealthPasses
  <2>1. /\ UNCHANGED <<file, live, slot, target, next>> /\ target \in Colors /\ pc \notin Cutover
        /\ checked' = [checked EXCEPT ![target] = TRUE] /\ next = 1
        /\ pc' = "record" \/ pc' = FirstSwitch
    BY <1>b, <1>r, <1>6 DEF HealthPasses, slotVars, proxyVars, ColorInv, Cutover, Step
  <2>2. ServedInv' BY <1>t, <2>1 DEF ServedInv
  <2>3. \A r \in Routes : ~(r < 1) BY BlueGreenAssumption DEF Routes
  <2>4. CutoverInv' BY <1>t, <2>1, <2>3 DEF CutoverInv, FirstSwitch
  <2> QED BY <2>2, <2>4
<1>7. CASE HealthFails
  <2>1. UNCHANGED <<file, live, checked, slot>> /\ pc \notin Cutover
    BY <1>7 DEF HealthFails, slotVars, stackVars, proxyVars, Cutover
  <2> QED BY <1>1, <1>2, <1>7, <2>1 DEF HealthFails
<1>8. CASE RecordSlot \/ RecordSlotFails
  <2>1. /\ UNCHANGED <<file, live, checked>> /\ target \in Colors /\ pc = "record"
        /\ slot[target] # "active" /\ next = 1
        /\ slot' = slot \/ slot' = [slot EXCEPT ![target] = "standby"]
    BY <1>b, <1>r, <1>8 DEF RecordSlot, RecordSlotFails, WriteSlot, slotVars, stackVars, proxyVars,
       ColorInv
  <2>2. ServedInv' BY <1>t, <2>1 DEF ServedInv, Cutover
  <2>3. CutoverInv'
    <3>1. \A r \in Routes : ~(r < 1) BY BlueGreenAssumption DEF Routes
    <3>2. CASE RecordSlot
      BY <2>1, <3>1, <3>2 DEF RecordSlot, Step, FirstSwitch, CutoverInv
    <3> QED BY <1>2, <1>8, <3>2 DEF RecordSlotFails
  <2> QED BY <2>2, <2>3
<1>9. CASE StopOld \/ StartNew \/ Verify
  <2>1. /\ UNCHANGED <<file, live, checked, slot, target, next>> /\ pc \in Switching
        /\ pc' \in {"startNew", "verify", "routes"} /\ next = 1
    BY <1>b, <1>9 DEF StopOld, StartNew, Verify, slotVars, stackVars, proxyVars, ColorInv,
       Switching, Step
  <2>2. ServedInv' BY <1>1, <2>1 DEF Switching, Cutover
  <2>3. \A r \in Routes : ~(r < 1) BY BlueGreenAssumption DEF Routes
  <2>4. CutoverInv' BY <2>1, <2>3 DEF CutoverInv
  <2> QED BY <2>2, <2>4
<1>10. CASE StopOldFails \/ StartNewFails \/ VerifyFails
  <2>1. UNCHANGED <<file, live, checked, slot>> /\ pc \in Switching /\ target \in Colors
    BY <1>r, <1>10 DEF StopOldFails, StartNewFails, VerifyFails, slotVars, stackVars, proxyVars,
       Switching
  <2>2. ServedInv' BY <1>1, <2>1 DEF Switching, Cutover
  <2>3. \A k \in Planned(<<Compose("start", from)>>) : k.op # "route"
    BY DEF Planned, Compose
  <2>4. \A k \in Planned(RestoreSingletonServices) : k.op # "route"
    BY <1>b, <2>1, PlanRestore DEF Compose
  <2> QED BY <1>3, <1>10, <2>2, <2>3, <2>4 DEF StopOldFails, StartNewFails, VerifyFails
<1>11. CASE ApplyRoute
  <2>1. /\ pc = "routes" /\ target \in Colors /\ UNCHANGED <<checked, slot, target>>
        /\ live' = [live EXCEPT ![next] = target] /\ file' = live'
        /\ \/ next < NRoutes /\ next' = next + 1 /\ pc' = "routes"
           \/ next = NRoutes /\ pc' = "promote"
    BY <1>r, <1>11 DEF ApplyRoute, CutoverInv, ServedInv, slotVars, stackVars, runVars,
       RouteCommand, WriteFile, Applying
  <2>2. \A r \in Routes : live'[r] = IF r = next THEN target ELSE live[r]
    BY <1>t, <2>1
  <2>3. checked[target] BY <2>1 DEF CutoverInv, Cutover
  <2>4. ServedInv' BY <2>1, <2>2, <2>3 DEF ServedInv, Cutover
  <2>5. \A r \in Routes : r < next => live[r] = target BY <2>1 DEF CutoverInv
  <2>6. \A r \in Routes : r < next + 1 => r < next \/ r = next
    BY <1>t, BlueGreenAssumption DEF Routes
  <2>7. \A r \in Routes : next = NRoutes => r < next \/ r = next
    BY <1>t, BlueGreenAssumption DEF Routes
  <2>8. CutoverInv' BY <2>1, <2>2, <2>3, <2>5, <2>6, <2>7 DEF CutoverInv
  <2> QED BY <2>4, <2>8
<1>12. CASE PromoteProxyRoutes
  <2>1. UNCHANGED <<file, live, checked, slot, target>> /\ pc = "promote" /\ pc' = "activate"
    BY <1>12 DEF PromoteProxyRoutes, slotVars, stackVars, proxyVars, CutoverInv, Step
  <2> QED BY <2>1 DEF ServedInv, CutoverInv, Cutover
<1>13. CASE ApplyRouteFails \/ PromoteFails \/ ActivateFails \/ UndoFails
  BY <1>f, <1>13 DEF ApplyRouteFails, PromoteFails, ActivateFails, UndoFails, Cutover, Compensation
<1>14. CASE ActivateDeploymentSlot
  <2>1. /\ UNCHANGED <<file, live, checked>> /\ pc = "activate" /\ target \in Colors
        /\ slot[target] # None /\ Return
        /\ slot' = [c \in Colors |-> IF slot[c] = None THEN None
                                     ELSE IF c = target THEN "active" ELSE "standby"]
    BY <1>b, <1>r, <1>14 DEF ActivateDeploymentSlot, ActivateSlot, stackVars, proxyVars, SlotInv,
       Cutover
  <2>2. slot'[target] = "active" BY <2>1
  <2>3. \A r \in Routes : live[r] = target BY <2>1 DEF CutoverInv
  <2>4. ServedInv' BY <2>1, <2>2, <2>3 DEF ServedInv
  <2> QED BY <1>2, <2>1, <2>4
<1>15. CASE Undo
  <2>1. /\ pc = "undo" /\ undo # <<>> /\ Compensate(Tail(undo)) /\ UNCHANGED <<checked, slot>>
        /\ RunCommand(Head(undo))
    BY <1>b, <1>15 DEF Undo, NextUndo, RunInv, slotVars, stackVars
  <2>2. Planned(undo) = {Head(undo)} \cup Planned(Tail(undo)) BY <1>t, <2>1, PlanTail
  <2>3. \A k \in Planned(undo) : k.op # "route" BY <2>1 DEF CutoverInv
  <2>4. UNCHANGED <<file, live>> BY <2>1, <2>2, <2>3 DEF RunCommand, proxyVars
  <2> QED BY <1>1, <1>3, <2>1, <2>2, <2>3, <2>4 DEF Cutover
<1>16. CASE Crash
  <2>1. pc \notin Cutover \cup Compensation BY <1>f, <1>16
  <2>2. UNCHANGED <<file, live, checked, slot>>
    BY <1>16, <2>1 DEF Crash, slotVars, stackVars, Cutover, Compensation
  <2> QED BY <1>1, <1>2, <1>16, <2>1, <2>2 DEF Crash
<1> QED
  BY <1>4, <1>5, <1>6, <1>7, <1>8, <1>9, <1>10, <1>11, <1>12, <1>13, <1>14, <1>15, <1>16 DEF Next

\* A deployment never replaces the containers that serve traffic: with a clean
\* cutover every route leads to containers that passed a health check since they
\* were created, for any sequence of failed candidates, rollbacks and crashes.
THEOREM TrafficIsChecked == Spec => []TrafficOnlyToChecked
<1> DEFINE Inv == CleanCutover => ServedInv /\ CutoverInv
<1>1. Init => Inv
  BY DEF Init, ServedInv, CutoverInv, Switching, Cutover
<1>2. BaseInv /\ Inv /\ [Next]_vars => Inv'
  <2> SUFFICES ASSUME BaseInv, Inv, [Next]_vars, CleanCutover' PROVE ServedInv' /\ CutoverInv'
    OBVIOUS
  <2>1. CleanCutover BY HistoriesGrow DEF CleanCutover
  <2>2. CASE UNCHANGED vars BY <2>1, <2>2 DEF vars, ServedInv, CutoverInv
  <2>3. CASE Next BY <2>1, <2>3, TrafficStep
  <2> QED BY <2>2, <2>3
<1>3. Inv => TrafficOnlyToChecked
  BY DEF ServedInv, TrafficOnlyToChecked
<1> QED BY <1>1, <1>2, <1>3, RunsKeepTheirColors, PTL DEF Spec

-----------------------------------------------------------------------------
(* Every run settles.                                                      *)

RoutesAt(c) == \A r \in Routes : routeUrl[r] = c
FilesAt(c) == \A r \in Routes : file[r] = c
SinglesAt(c) == hasSingletons => single[c] /\ ~single[Other(c)]

\* EveryRunSettles, strengthened to the middle of a run: how far the run has got
\* towards its target ...
TowardInv ==
  /\ file = live
  /\ from # None => slot[from] = "active"
  /\ pc # "idle" => slot[target] # "active"
  /\ pc \in {"startNew", "verify"} => ~single[Other(target)]
  /\ pc \in {"verify"} \cup Cutover \cup {"reroute", "repromote"} => SinglesAt(target)
  /\ pc = "routes" => \A r \in Routes : r < next => file[r] = target
  /\ pc \in {"promote", "activate"} => FilesAt(target)
  /\ pc = "activate" => RoutesAt(target)
  /\ pc \in {"reroute", "repromote"} => hasSingletons

\* ... and what is still on the active color, or will be brought back to it by
\* the commands that are planned.
BroughtBack(c, s) ==
  /\ RoutesAt(c)
  /\ \A r \in Routes : file[r] = c \/ \E k \in Planned(s) : k.op = "route" /\ k.route = r
  /\ \A k \in Planned(s) : k.op = "route" => k.color = c
  /\ hasSingletons =>
       /\ single[c] \/ \E k \in Planned(s) : k.op = "start"
       /\ ~single[Other(c)] \/ \E k \in Planned(s) : k.op = "stop"

\* See BroughtBack.
BackInv ==
  \A c \in Colors : slot[c] = "active" =>
    /\ pc \notin {"activate", "reroute", "repromote"} => RoutesAt(c)
    /\ pc \notin Cutover \cup Compensation => FilesAt(c)
    /\ pc \notin {"startNew", "verify"} \cup Cutover \cup Compensation => SinglesAt(c)
    /\ pc = "routes" => \A r \in Routes : r >= next => file[r] = c
    /\ pc = "reroute" => \A r \in Routes : r < next => file[r] = c
    /\ pc = "repromote" => FilesAt(c)
    /\ pc = "undo" => BroughtBack(c, undo)

\* A plan that brings the active color back keeps both parts, also when it is
\* empty and the run returns at once.
LEMMA PlanSettles ==
  ASSUME TypeOK, RunInv, pc # "idle", NEW commands, Compensate(commands),
         file' = live', UNCHANGED <<slot, hasSingletons>>,
         from # None => slot[from] = "active",
         slot[target] # "active",
         \A c \in Colors : slot[c] = "active" =>
           /\ RoutesAt(c)'
           /\ \A r \in Routes :
                file'[r] = c \/ \E k \in Planned(commands) : k.op = "route" /\ k.route = r
           /\ \A k \in Planned(commands) : k.op = "route" => k.color = c
           /\ hasSingletons =>
                /\ single'[c] \/ \E k \in Planned(commands) : k.op = "start"
                /\ ~single'[Other(c)] \/ \E k \in Planned(commands) : k.op = "stop"
  PROVE  TowardInv' /\ BackInv'
<1>1. CASE commands = <<>> /\ Return
  <2>1. Planned(commands) = {} BY <1>1 DEF Planned
  <2>2. pc' = "idle" /\ from' = None BY <1>1 DEF Return
  <2>3. TowardInv' BY <2>2 DEF TowardInv, Cutover
  <2>4. BackInv' BY <2>1, <2>2 DEF BackInv, FilesAt, SinglesAt, Cutover, Compensation
  <2> QED BY <2>3, <2>4
<1>2. CASE pc' = "undo" /\ undo' = commands /\ UNCHANGED <<dep, target, from, next>>
  <2>1. TowardInv' BY <1>2 DEF TowardInv, Cutover
  <2>2. BackInv' BY <1>2 DEF BackInv, BroughtBack, Cutover, Compensation
  <2> QED BY <2>1, <2>2
<1> QED BY <1>1, <1>2 DEF Compensate

LEMMA SettleStep ==
  ASSUME BaseInv, TowardInv, BackInv, Next, NoAmbiguity'
  PROVE  TowardInv' /\ BackInv'
<1>b. TypeOK /\ RunInv /\ SlotInv /\ ColorInv /\ SingletonInv BY DEF BaseInv
<1>t. /\ target \in Colors \cup {None} /\ from \in Colors \cup {None}
      /\ slot \in [Colors -> {None, "active", "standby"}] /\ single \in [Colors -> BOOLEAN]
      /\ live \in [Routes -> Colors \cup {None}] /\ file \in [Routes -> Colors \cup {None}]
      /\ routeUrl \in [Routes -> Colors] /\ next \in Routes /\ undo \in Seq(Commands)
  BY <1>b DEF TypeOK
<1>h. hasSingletons' = hasSingletons BY DEF Next
<1>r. pc # "idle" => target \in Colors BY <1>b DEF RunInv
<1>l. ~Lost /\ ~Partial /\ (pc \in Compensation => ~Rejected)
      /\ (pc = "activate" /\ Rejected => hasSingletons)
  <2>1. pc = "activate" /\ Rejected => "activate" \in failedAt' BY FailuresAreRecorded
  <2> QED BY <1>h, <2>1, FailuresAreRecorded DEF NoAmbiguity
<1>z. pc \in Switching \cup Cutover \cup Compensation => ~Crash
  BY DEF NoAmbiguity, Crash
<1>o. \A c \in Colors : Other(c) \in Colors /\ Other(c) # c /\ Other(Other(c)) = c
  BY DEF Other, Colors
<1>a. \A c \in Colors : pc # "idle" /\ slot[c] = "active" =>
        c = Other(target) /\ Other(c) = target /\ (hasSingletons => from = c)
  <2> SUFFICES ASSUME NEW c \in Colors, pc # "idle", slot[c] = "active"
               PROVE  c = Other(target) /\ Other(c) = target /\ (hasSingletons => from = c)
    OBVIOUS
  <2>1. c # target /\ target \in Colors BY <1>r DEF TowardInv
  <2>2. c = Other(target) /\ Other(c) = target BY <2>1 DEF Other, Colors
  <2>3. hasSingletons => from # None
    BY <1>b, <2>1, <2>2 DEF ColorInv, Other, Colors, None
  <2> QED BY <1>b, <2>2, <2>3 DEF ColorInv
<1>n1. \A r \in Routes : ~(r < 1) /\ r >= 1 BY BlueGreenAssumption DEF Routes
<1>n. next - 1 \in 0..NRoutes /\ NRoutes \in 0..NRoutes
  BY <1>t, BlueGreenAssumption DEF Routes
<1>p. pc # "idle" =>
        /\ \A k \in Planned(RestoreSingletonServices) : k.op # "route"
        /\ \A c \in Colors : slot[c] = "active" /\ hasSingletons =>
             /\ \E k \in Planned(RestoreSingletonServices) : k.op = "start"
             /\ \E k \in Planned(RestoreSingletonServices) : k.op = "stop"
  <2> SUFFICES ASSUME pc # "idle"
               PROVE  /\ \A k \in Planned(RestoreSingletonServices) : k.op # "route"
                      /\ \A c \in Colors : slot[c] = "active" /\ hasSingletons =>
                           /\ \E k \in Planned(RestoreSingletonServices) : k.op = "start"
                           /\ \E k \in Planned(RestoreSingletonServices) : k.op = "stop"
    OBVIOUS
  <2>1. Planned(RestoreSingletonServices) =
              IF ~hasSingletons THEN {}
              ELSE IF from = None THEN {Compose("stop", target)}
              ELSE {Compose("stop", target), Compose("start", from)}
    BY <1>b, <1>r, PlanRestore
  <2>2. Compose("stop", target).op = "stop" /\ Compose("start", from).op = "start"
    BY DEF Compose
  <2>3. \A k \in Planned(RestoreSingletonServices) : k.op # "route" BY <2>1, <2>2
  <2>4. ASSUME NEW c \in Colors, slot[c] = "active", hasSingletons
        PROVE  /\ \E k \in Planned(RestoreSingletonServices) : k.op = "start"
               /\ \E k \in Planned(RestoreSingletonServices) : k.op = "stop"
    <3>1. from # None BY <1>a, <2>4 DEF Colors, None
    <3>2. Planned(RestoreSingletonServices) = {Compose("stop", target), Compose("start", from)}
      BY <2>1, <2>4, <3>1
    <3> QED BY <2>2, <3>2
  <2> QED BY <2>3, <2>4
<1>1. ASSUME Return, UNCHANGED <<slot, routeUrl, file, live, single>>,
             pc \in {"up", "health", "record", "rollbackHealth"}
      PROVE  TowardInv' /\ BackInv'
  BY <1>1, <1>h DEF Return, TowardInv, BackInv, RoutesAt, FilesAt, SinglesAt, Switching, Cutover,
     Compensation
<1>2. CASE BeginDeploy \/ BeginRollback
  <2>1. /\ UNCHANGED <<slot, routeUrl, file, live, single>> /\ pc = "idle"
        /\ pc' \in {"up", "rollbackHealth"}
    BY <1>2 DEF BeginDeploy, BeginRollback, slotVars, routeVars, proxyVars
  <2>2. (from' # None => slot[from'] = "active") /\ slot[target'] # "active"
    BY <1>b, <1>t, <1>2 DEF BeginDeploy, BeginRollback, SlotInv, SlotsAreUnambiguous, Colors, Other,
       None
  <2>3. TowardInv' BY <2>1, <2>2 DEF TowardInv, Cutover
  <2>4. BackInv' BY <1>h, <2>1 DEF BackInv, RoutesAt, FilesAt, SinglesAt, Cutover, Compensation
  <2> QED BY <2>3, <2>4
<1>3. CASE Up
  <2>1. /\ UNCHANGED <<slot, routeUrl, file, live, target, from>> /\ pc = "up" /\ pc' = "health"
        /\ single' = [single EXCEPT ![target] = FALSE] /\ target \in Colors
    BY <1>r, <1>3 DEF Up, ReplaceStack, slotVars, routeVars, proxyVars, Step
  <2>2. TowardInv' BY <2>1 DEF TowardInv, Cutover
  <2>3. BackInv'
    <3> SUFFICES ASSUME NEW c \in Colors, slot[c] = "active"
                 PROVE  RoutesAt(c)' /\ FilesAt(c)' /\ SinglesAt(c)'
      BY <2>1 DEF BackInv, Cutover, Compensation
    <3>1. RoutesAt(c) /\ FilesAt(c) /\ SinglesAt(c)
      BY <2>1 DEF BackInv, Cutover, Compensation
    <3>2. Other(c) = target /\ c # target BY <1>a, <1>o, <2>1
    <3> QED BY <1>h, <1>t, <2>1, <3>1, <3>2 DEF RoutesAt, FilesAt, SinglesAt
  <2> QED BY <2>2, <2>3
<1>4. CASE UpFails \/ HealthFails \/ RecordSlotFails
  <2>1. /\ Return /\ UNCHANGED <<slot, routeUrl, file, live, single>>
        /\ pc \in {"up", "health", "record", "rollbackHealth"}
    BY <1>l, <1>4 DEF UpFails, HealthFails, RecordSlotFails, slotVars, routeVars, proxyVars
  <2> QED BY <1>1, <2>1
<1>5. ASSUME pc \in {"health", "rollbackHealth", "record"}, pc' \in {"record", FirstSwitch},
             UNCHANGED <<routeUrl, file, live, single, target, from, next>>,
             \A c \in Colors : slot'[c] = "active" <=> slot[c] = "active"
      PROVE  TowardInv' /\ BackInv'
  <2>0. target \in Colors /\ next = 1 BY <1>b, <1>r, <1>5 DEF ColorInv
  <2>1. pc' \in {"record", "stopOld", "startNew", "routes"}
        /\ (pc' = "startNew" => hasSingletons /\ from = None)
        /\ (pc' = "routes" => ~hasSingletons)
    BY <1>5 DEF FirstSwitch
  <2>2. pc' = "startNew" => ~single[Other(target)]
    BY <1>b, <1>5, <2>1 DEF ColorInv, SingletonInv, Other, Colors
  <2>3. TowardInv'
    BY <1>h, <1>n1, <1>t, <1>5, <2>0, <2>1, <2>2 DEF TowardInv, SinglesAt, Cutover
  <2>4. BackInv'
    BY <1>h, <1>n1, <1>5, <2>0, <2>1
       DEF BackInv, RoutesAt, FilesAt, SinglesAt, Cutover, Compensation
  <2> QED BY <2>3, <2>4
<1>6. CASE HealthPasses
  <2>1. /\ UNCHANGED <<slot, routeUrl, file, live, single, target, from, next>>
        /\ pc \in {"health", "rollbackHealth"} /\ pc' \in {"record", FirstSwitch}
    BY <1>6 DEF HealthPasses, slotVars, routeVars, proxyVars, Step
  <2> QED BY <1>5, <2>1
<1>7. CASE RecordSlot
  <2>1. /\ UNCHANGED <<routeUrl, file, live, single, target, from, next>>
        /\ pc = "record" /\ pc' = FirstSwitch /\ slot' = [slot EXCEPT ![target] = "standby"]
        /\ slot[target] # "active"
    BY <1>7 DEF RecordSlot, WriteSlot, routeVars, proxyVars, Step, TowardInv
  <2>2. \A c \in Colors : slot'[c] = "active" <=> slot[c] = "active" BY <1>t, <2>1
  <2> QED BY <1>5, <2>1, <2>2
<1>8. CASE StopOld
  <2>1. /\ UNCHANGED <<slot, routeUrl, file, live, target, from>> /\ pc = "stopOld"
        /\ pc' = "startNew" /\ single' = [single EXCEPT ![from] = FALSE] /\ from \in Colors
        /\ target \in Colors
    BY <1>b, <1>r, <1>8 DEF StopOld, SetSingle, slotVars, routeVars, proxyVars, Step, RunInv
  <2>2. from = Other(target) BY <1>b, <2>1 DEF ColorInv, Colors, None
  <2>3. TowardInv' BY <1>t, <2>1, <2>2 DEF TowardInv, Cutover
  <2>4. BackInv' BY <2>1 DEF BackInv, RoutesAt, FilesAt, Cutover, Compensation
  <2> QED BY <2>3, <2>4
<1>9. CASE StopOldFails
  <2>1. /\ UNCHANGED <<slot, routeUrl, file, live, single>> /\ pc = "stopOld"
        /\ Compensate(<<Compose("start", from)>>)
    BY <1>l, <1>9 DEF StopOldFails, slotVars, routeVars, proxyVars
  <2>2. \A k \in Planned(<<Compose("start", from)>>) : k.op # "route"
    BY DEF Planned, Compose
  <2>3. \A c \in Colors : slot[c] = "active" => RoutesAt(c) /\ FilesAt(c) /\ SinglesAt(c)
    BY <2>1 DEF BackInv, Cutover, Compensation
  <2>4. \A c \in Colors : RoutesAt(c) => RoutesAt(c)' BY <2>1 DEF RoutesAt
  <2> QED BY <1>b, <1>h, <2>1, <2>2, <2>3, <2>4, PlanSettles DEF TowardInv, FilesAt, SinglesAt
<1>10. CASE StartNew
  <2>1. /\ UNCHANGED <<slot, routeUrl, file, live, target, from>> /\ pc = "startNew"
        /\ pc' = "verify" /\ single' = [single EXCEPT ![target] = TRUE] /\ target \in Colors
    BY <1>r, <1>10 DEF StartNew, SetSingle, slotVars, routeVars, proxyVars, Step
  <2>2. ~single[Other(target)] BY <2>1 DEF TowardInv
  <2>3. SinglesAt(target)' BY <1>t, <1>o, <2>1, <2>2 DEF SinglesAt
  <2>4. ~single'[Other(target)] BY <1>t, <1>o, <2>1, <2>2
  <2>5. TowardInv' BY <2>1, <2>3, <2>4 DEF TowardInv, Cutover
  <2>6. BackInv' BY <2>1 DEF BackInv, RoutesAt, FilesAt, Cutover, Compensation
  <2> QED BY <2>5, <2>6
<1>11. CASE StartNewFails \/ VerifyFails
  <2>1. /\ UNCHANGED <<slot, routeUrl, file, live>> /\ pc \in {"startNew", "verify"}
        /\ Compensate(RestoreSingletonServices)
    BY <1>11 DEF StartNewFails, VerifyFails, slotVars, routeVars, proxyVars
  <2>2. \A c \in Colors : slot[c] = "active" => RoutesAt(c) /\ FilesAt(c)
    BY <2>1 DEF BackInv, Cutover, Compensation
  <2>3. \A c \in Colors : RoutesAt(c) => RoutesAt(c)' BY <2>1 DEF RoutesAt
  <2> QED BY <1>b, <1>h, <1>p, <2>1, <2>2, <2>3, PlanSettles DEF TowardInv, FilesAt
<1>12. CASE Verify
  <2>1. /\ UNCHANGED <<slot, routeUrl, file, live, single, target, from, next>> /\ pc = "verify"
        /\ pc' = "routes" /\ next = 1
    BY <1>b, <1>12 DEF Verify, slotVars, routeVars, proxyVars, Step, ColorInv
  <2>2. TowardInv' BY <1>h, <1>n1, <2>1 DEF TowardInv, SinglesAt
  <2>3. BackInv' BY <2>1 DEF BackInv, RoutesAt, FilesAt, Cutover, Compensation
  <2> QED BY <2>2, <2>3
<1>13. CASE ApplyRoute
  <2> DEFINE x == Applying
  <2>1. /\ UNCHANGED <<slot, routeUrl, single, target, from>>
        /\ file' = [file EXCEPT ![next] = x] /\ live' = file'
        /\ \/ next < NRoutes /\ next' = next + 1 /\ pc' = pc
           \/ next = NRoutes /\ pc' = IF pc = "routes" THEN "promote" ELSE "repromote"
        /\ pc \in {"routes", "reroute"}
    BY <1>13 DEF ApplyRoute, slotVars, routeVars, runVars, RouteCommand, WriteFile
  <2>2. \A r \in Routes : file'[r] = IF r = next THEN x ELSE file[r] BY <1>t, <2>1
  <2>3. \A r \in Routes : /\ r < next + 1 => r < next \/ r = next
                          /\ next = NRoutes => r < next \/ r = next
                          /\ r >= next + 1 => r >= next /\ r # next
    BY <1>t, BlueGreenAssumption DEF Routes
  <2>4. CASE pc = "routes"
    <3>1. x = target BY <2>4 DEF Applying
    <3>2. \A r \in Routes : r < next => file[r] = target BY <2>4 DEF TowardInv
    <3>3. SinglesAt(target)' BY <1>h, <2>1, <2>4 DEF TowardInv, SinglesAt, Cutover
    <3>4. TowardInv' BY <2>1, <2>2, <2>3, <2>4, <3>1, <3>2, <3>3
                     DEF TowardInv, FilesAt
    <3>5. BackInv' BY <2>1, <2>2, <2>3, <2>4 DEF BackInv, RoutesAt, Cutover, Compensation
    <3> QED BY <3>4, <3>5
  <2>5. CASE pc = "reroute"
    <3>1. x = from /\ from # None /\ pc # "idle"
      BY <1>b, <2>5 DEF Applying, RunInv, Colors, None
    <3>2. \A c \in Colors : slot[c] = "active" => c = from
      BY <1>a, <2>5 DEF TowardInv
    <3>3. \A c \in Colors : slot[c] = "active" => \A r \in Routes : r < next => file[r] = c
      BY <2>5 DEF BackInv
    <3>4. SinglesAt(target)' BY <1>h, <2>1, <2>5 DEF TowardInv, SinglesAt
    <3>5. TowardInv' BY <1>h, <2>1, <2>5, <3>4 DEF TowardInv
    <3>6. BackInv' BY <2>1, <2>2, <2>3, <2>5, <3>1, <3>2, <3>3
                   DEF BackInv, FilesAt, Cutover, Compensation
    <3> QED BY <3>5, <3>6
  <2> QED BY <2>1, <2>4, <2>5
<1>14. CASE ApplyRouteFails \/ PromoteFails
  <2> DEFINE n == IF pc = "routes" THEN next - 1 ELSE NRoutes
             s == RollbackProxyRoutes(n) \o RestoreSingletonServices
  <2>1. /\ UNCHANGED <<slot, routeUrl, file, live, single>> /\ pc \in {"routes", "promote"}
        /\ Compensate(s)
    BY <1>l, <1>14 DEF ApplyRouteFails, PromoteFails, slotVars, routeVars, proxyVars, Compensation
  <2>2. n \in 0..NRoutes BY <1>n
  <2>3. Planned(s) = {[op |-> "route", route |-> r, color |-> routeUrl[r]] : r \in 1..n}
                       \cup Planned(RestoreSingletonServices)
    BY <1>b, <1>r, <2>1, <2>2, PlanBoth, PlanRollback
  <2>4. \A r \in 1..n : r \in Routes BY <2>2, BlueGreenAssumption DEF Routes
  <2>5. ASSUME NEW r \in Routes PROVE r \in 1..n \/ (pc = "routes" /\ r >= next)
    BY <1>t, <2>1, <2>5, BlueGreenAssumption DEF Routes
  <2> HIDE DEF s, n
  <2>6. ASSUME NEW c \in Colors, slot[c] = "active"
        PROVE  /\ RoutesAt(c)'
               /\ \A r \in Routes :
                    file'[r] = c \/ \E k \in Planned(s) : k.op = "route" /\ k.route = r
               /\ \A k \in Planned(s) : k.op = "route" => k.color = c
               /\ hasSingletons =>
                    /\ single'[c] \/ \E k \in Planned(s) : k.op = "start"
                    /\ ~single'[Other(c)] \/ \E k \in Planned(s) : k.op = "stop"
    <3>1. RoutesAt(c) /\ (pc = "routes" => \A r \in Routes : r >= next => file[r] = c)
      BY <2>1, <2>6 DEF BackInv
    <3>2. RoutesAt(c)' BY <2>1, <3>1 DEF RoutesAt
    <3>3. ASSUME NEW r \in Routes
          PROVE  file'[r] = c \/ \E k \in Planned(s) : k.op = "route" /\ k.route = r
      <4>1. CASE r \in 1..n
        <5> DEFINE k == [op |-> "route", route |-> r, color |-> routeUrl[r]]
        <5>1. k \in Planned(s) BY <2>3, <4>1
        <5>2. k.op = "route" /\ k.route = r OBVIOUS
        <5> QED BY <5>1, <5>2
      <4>2. CASE r \notin 1..n BY <2>1, <2>5, <3>1, <4>2
      <4> QED BY <4>1, <4>2
    <3>4. \A k \in Planned(s) : k.op = "route" => k.color = c
      BY <1>p, <2>1, <2>3, <2>4, <3>1 DEF RoutesAt
    <3>5. hasSingletons => /\ \E k \in Planned(s) : k.op = "start"
                           /\ \E k \in Planned(s) : k.op = "stop"
      BY <1>p, <2>1, <2>3, <2>6
    <3> QED BY <3>2, <3>3, <3>4, <3>5
  <2>7. pc # "idle" /\ file' = live' /\ (from # None => slot[from] = "active")
        /\ slot[target] # "active"
    BY <2>1 DEF TowardInv
  <2> QED BY <1>b, <1>h, <2>1, <2>6, <2>7, PlanSettles
<1>15. CASE PromoteProxyRoutes
  <2>1. /\ UNCHANGED <<slot, file, live, single>> /\ routeUrl' = [r \in Routes |-> Applying]
    BY <1>15 DEF PromoteProxyRoutes, PromoteRoutes, slotVars, proxyVars
  <2>2. CASE pc = "promote" /\ Step("activate")
    <3>1. Applying = target /\ UNCHANGED <<target, from>> /\ pc' = "activate"
      BY <2>2 DEF Applying, Step
    <3>2. RoutesAt(target)' /\ FilesAt(target)' /\ SinglesAt(target)'
      BY <1>h, <2>1, <2>2, <3>1 DEF TowardInv, RoutesAt, FilesAt, SinglesAt, Cutover
    <3>3. TowardInv' BY <2>1, <2>2, <3>1, <3>2 DEF TowardInv
    <3>4. BackInv' BY <3>1 DEF BackInv, Cutover, Compensation
    <3> QED BY <3>3, <3>4
  <2>3. CASE pc = "repromote" /\ Compensate(RestoreSingletonServices)
    <3>1. Applying = from /\ from # None BY <1>b, <2>3 DEF Applying, RunInv, Colors, None
    <3>2. \A c \in Colors : slot[c] = "active" => c = from /\ FilesAt(c)
      BY <1>a, <2>3 DEF TowardInv, BackInv
    <3>3. \A c \in Colors : slot[c] = "active" => RoutesAt(c)'
      BY <2>1, <3>1, <3>2 DEF RoutesAt
    <3> QED BY <1>b, <1>h, <1>p, <2>1, <2>3, <3>2, <3>3, PlanSettles DEF TowardInv, FilesAt
  <2> QED BY <1>15, <2>2, <2>3 DEF PromoteProxyRoutes
<1>16. CASE ActivateDeploymentSlot
  <2>1. /\ UNCHANGED <<routeUrl, file, live, single>> /\ pc = "activate" /\ target \in Colors
        /\ Return
        /\ slot' = [c \in Colors |-> IF slot[c] = None THEN None
                                     ELSE IF c = target THEN "active" ELSE "standby"]
    BY <1>r, <1>16 DEF ActivateDeploymentSlot, ActivateSlot, routeVars, proxyVars
  <2>2. \A c \in Colors : slot'[c] = "active" => c = target BY <2>1 DEF None
  <2>3. RoutesAt(target) /\ FilesAt(target) /\ SinglesAt(target)
    BY <2>1 DEF TowardInv, Cutover
  <2>4. ASSUME NEW c \in Colors, slot'[c] = "active"
        PROVE  RoutesAt(c)' /\ FilesAt(c)' /\ SinglesAt(c)'
    BY <1>h, <2>1, <2>2, <2>3, <2>4 DEF RoutesAt, FilesAt, SinglesAt
  <2>5. pc' = "idle" /\ from' = None BY <2>1 DEF Return
  <2>6. TowardInv' BY <2>1, <2>5 DEF TowardInv, Cutover
  <2>7. BackInv' BY <2>4, <2>5 DEF BackInv
  <2> QED BY <2>6, <2>7
<1>17. CASE ActivateFails
  <2>1. UNCHANGED <<slot, routeUrl, file, live, single>> /\ pc = "activate" /\ hasSingletons
    BY <1>l, <1>17 DEF ActivateFails, slotVars, routeVars, proxyVars
  <2>2. CASE from # None /\ Step("reroute")
    <3>1. UNCHANGED <<target, from, next>> /\ pc' = "reroute" /\ next = 1
      BY <1>b, <2>1, <2>2 DEF Step, ColorInv
    <3>2. TowardInv' BY <1>h, <2>1, <3>1 DEF TowardInv, SinglesAt, Cutover
    <3>3. BackInv' BY <1>n1, <3>1 DEF BackInv, Cutover, Compensation
    <3> QED BY <3>2, <3>3
  <2>3. CASE from = None /\ Compensate(RestoreSingletonServices)
    <3>1. \A c \in Colors : slot[c] # "active" BY <1>a, <2>1, <2>3 DEF Colors, None
    <3> QED BY <1>b, <1>h, <2>1, <2>3, <3>1, PlanSettles DEF TowardInv
  <2> QED BY <1>17, <2>2, <2>3 DEF ActivateFails
<1>18. CASE Undo
  <2> DEFINE h == Head(undo)
             s == Tail(undo)
  <2>1. /\ pc = "undo" /\ undo # <<>> /\ Compensate(s) /\ UNCHANGED <<slot, routeUrl>>
        /\ RunCommand(h) /\ target \in Colors
    BY <1>b, <1>r, <1>18 DEF Undo, NextUndo, RunInv, slotVars, routeVars
  <2>2. Planned(undo) = {h} \cup Planned(s) /\ h \in Commands BY <1>t, <2>1, PlanTail
  <2>c. h.route \in Routes /\ h.color \in Colors BY <2>2 DEF Commands
  <2>3. /\ h.op = "start" => hasSingletons /\ h.color = from
        /\ h.op = "stop" => hasSingletons /\ h.color = target
    BY <1>b, <2>1, <2>2 DEF SingletonInv
  <2>4. \/ /\ h.op = "route" /\ UNCHANGED single
           /\ file' = [file EXCEPT ![h.route] = h.color] /\ live' = file'
        \/ h.op = "stop" /\ single' = [single EXCEPT ![h.color] = FALSE] /\ UNCHANGED <<file, live>>
        \/ h.op = "start" /\ single' = [single EXCEPT ![h.color] = TRUE] /\ UNCHANGED <<file, live>>
    BY <2>1 DEF RunCommand, RouteCommand, WriteFile, SetSingle, proxyVars
  <2> HIDE DEF s, h
  <2>5. ASSUME NEW c \in Colors, slot[c] = "active"
        PROVE  /\ RoutesAt(c)'
               /\ \A r \in Routes :
                    file'[r] = c \/ \E k \in Planned(s) : k.op = "route" /\ k.route = r
               /\ \A k \in Planned(s) : k.op = "route" => k.color = c
               /\ hasSingletons =>
                    /\ single'[c] \/ \E k \in Planned(s) : k.op = "start"
                    /\ ~single'[Other(c)] \/ \E k \in Planned(s) : k.op = "stop"
    <3>1. BroughtBack(c, undo) BY <2>1, <2>5 DEF BackInv
    <3>2. c = Other(target) /\ Other(c) = target /\ (hasSingletons => from = c)
      BY <1>a, <2>1, <2>5
    <3>3. RoutesAt(c)' BY <2>1, <3>1 DEF BroughtBack, RoutesAt
    <3>4. \A k \in Planned(s) : k.op = "route" => k.color = c
      BY <2>2, <3>1 DEF BroughtBack
    <3>5. ASSUME NEW r \in Routes
          PROVE  file'[r] = c \/ \E k \in Planned(s) : k.op = "route" /\ k.route = r
      <4>1. file[r] = c \/ (h.op = "route" /\ h.route = r)
              \/ \E k \in Planned(s) : k.op = "route" /\ k.route = r
        BY <2>2, <3>1 DEF BroughtBack
      <4>2. h.op = "route" => h.color = c BY <2>2, <3>1 DEF BroughtBack
      <4> QED BY <1>t, <2>c, <2>4, <4>1, <4>2
    <3>6. ASSUME hasSingletons
          PROVE  /\ single'[c] \/ \E k \in Planned(s) : k.op = "start"
                 /\ ~single'[Other(c)] \/ \E k \in Planned(s) : k.op = "stop"
      <4>1. /\ single[c] \/ h.op = "start" \/ \E k \in Planned(s) : k.op = "start"
            /\ ~single[Other(c)] \/ h.op = "stop" \/ \E k \in Planned(s) : k.op = "stop"
        BY <2>2, <3>1, <3>6 DEF BroughtBack
      <4>2. c # Other(c) /\ Other(c) \in Colors BY <1>o
      <4> QED BY <1>t, <2>3, <2>4, <3>2, <3>6, <4>1, <4>2
    <3> QED BY <3>3, <3>4, <3>5, <3>6
  <2>6. pc # "idle" /\ file' = live' /\ (from # None => slot[from] = "active")
        /\ slot[target] # "active"
    BY <2>1, <2>4 DEF TowardInv
  <2> QED BY <1>b, <1>h, <2>1, <2>5, <2>6, PlanSettles
<1>19. CASE UndoFails
  BY <1>l, <1>19 DEF UndoFails, Compensation
<1>20. CASE Crash
  <2>1. pc \in {"up", "health", "record", "rollbackHealth"}
    BY <1>b, <1>z, <1>20 DEF Crash, TypeOK, Calls
  <2>2. UNCHANGED <<slot, routeUrl, file, live, single>> /\ Return
    BY <1>20, <2>1 DEF Crash, slotVars, routeVars
  <2> QED BY <1>1, <2>1, <2>2
<1> QED
  BY <1>2, <1>3, <1>4, <1>6, <1>7, <1>8, <1>9, <1>10, <1>11, <1>12, <1>13, <1>14, <1>15,
     <1>16, <1>17, <1>18, <1>19, <1>20 DEF Next

\* Compensation is complete: for any number of routes, every run that ends
\* without an ambiguous failure leaves database, files, Caddy and singleton
\* services on the color of the active slot.
THEOREM RunsSettle == Spec => []EveryRunSettles
<1> DEFINE Inv == NoAmbiguity => TowardInv /\ BackInv
<1>1. Init => Inv
  <2> SUFFICES ASSUME Init PROVE TowardInv /\ BackInv
    OBVIOUS
  <2>1. pc = "idle" /\ from = None /\ \A c \in Colors : slot[c] # "active"
    BY DEF Init, None
  <2>2. file = live BY DEF Init
  <2>3. TowardInv BY <2>1, <2>2 DEF TowardInv, Switching, Cutover
  <2>4. BackInv BY <2>1 DEF BackInv
  <2> QED BY <2>3, <2>4
<1>2. BaseInv /\ Inv /\ [Next]_vars => Inv'
  <2> SUFFICES ASSUME BaseInv, Inv, [Next]_vars, NoAmbiguity' PROVE TowardInv' /\ BackInv'
    OBVIOUS
  <2>1. hasSingletons' = hasSingletons BY DEF Next, vars
  <2>2. NoAmbiguity BY <2>1, HistoriesGrow DEF NoAmbiguity
  <2>3. CASE UNCHANGED vars
    BY <2>2, <2>3 DEF vars, TowardInv, BackInv, RoutesAt, FilesAt, SinglesAt, BroughtBack
  <2>4. CASE Next BY <2>2, <2>4, SettleStep
  <2> QED BY <2>3, <2>4
<1>3. Inv => EveryRunSettles
  BY DEF EveryRunSettles, TowardInv, BackInv, RoutesAt, FilesAt, SinglesAt, Cutover, Compensation
<1> QED BY <1>1, <1>2, <1>3, RunsKeepTheirColors, PTL DEF Spec
=============================================================================
