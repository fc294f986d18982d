------------------------ MODULE ConfigRedeployProofs ------------------------
(***************************************************************************)
(* Proofs about ConfigRedeploy, for any applications, values, rows and     *)
(* edits.  Three questions, three invariants over the same run:            *)
(*                                                                         *)
(*   SnapInv     while a run still reads, either nothing it reads has      *)
(*               changed since the snapshot or its row is marked touched   *)
(*   CounterInv  a run that has loaded the counters of now has read the    *)
(*               configuration of now, as far as it has read at all        *)
(*   LockInv     a redeploy transaction that holds the application row     *)
(*               still has the candidate it looked up                      *)
(***************************************************************************)
EXTENDS ConfigRedeploy, WellFoundedInduction, TLAPS

\* What the rows, the runs, the slots and the locks are made of.
Row == [app: Apps, trigger: Triggers, status: Statuses,
        snapshot: States \cup {NoState}, artifact: 1..MaxDeployments]
Run == [pc: Steps, dep: 0..MaxDeployments, got: States, rev: 0..MaxEdits,
        projectRev: 0..MaxEdits]
Pair == [active: 0..MaxDeployments, standby: 0..MaxDeployments]
Lock == [pc: {"free", "check", "insert"}, from: 0..MaxDeployments]

\* The types, and every counted revision is an edit.
TypeInv ==
  /\ TypeOK
  /\ projectRev <= edits
  /\ \A a \in Apps : rev[a] <= edits

\* The calls of a run before and after its containers are up.
Reading == {"target", "project", "service"}
Deploying == {"project", "service", "up", "record", "activate", "mark"}
NotInSlot == Reading \cup {"up", "record"}

\* A run and its row.
RunInv ==
  \A a \in Apps : run[a].pc # "idle" =>
    LET d == run[a].dep
    IN  /\ d \in Ids
        /\ rows[d].app = a
        /\ rows[d].snapshot \in States
        /\ rows[d].status = IF run[a].pc = "mark" THEN "succeeded" ELSE "running"
        /\ run[a].pc \in Deploying => rows[d].trigger # "rollback"
        /\ run[a].pc = "rollback" => rows[d].trigger = "rollback"

\* Slots name rows of their application that have been brought up.
InSlot(a, d) == d # 0 /\ (d = slots[a].active \/ d = slots[a].standby)
SlotInv ==
  \A a \in Apps, d \in Nat : InSlot(a, d) =>
    /\ d \in Ids
    /\ rows[d].app = a
    /\ rows[d].status # "queued"
    /\ run[a].pc \in NotInSlot => run[a].dep # d

\* Deployments from before the snapshots, and installations without an edit.
LegacyInv ==
  /\ \A d \in Ids : rows[d].snapshot = NoState =>
       rows[d].status = "succeeded" /\ ran[d] = Initially
  /\ projectRev = 0 => project = NoConfig
  /\ \A a \in Apps : rev[a] = 0 => config[a] = Default
  /\ \A a \in Apps : marked[a] = 0 => deployed[a] = [rev |-> 0, projectRev |-> 0]

\* Nothing a row still has to read has changed since its snapshot, and what it has
\* read is what the snapshot says, unless an edit touched it.
SnapQueued(d) ==
  rows[d].status = "queued" => rows[d].snapshot = ConfigurationState(rows[d].app)
SnapRun(a) ==
  LET snapshot == rows[run[a].dep].snapshot
      got == run[a].got
  IN  /\ run[a].pc \in Reading => snapshot = ConfigurationState(a)
      /\ run[a].pc \in {"project", "service"} =>
           got.source = snapshot.source /\ got.fields = snapshot.fields
      /\ run[a].pc = "service" => got.project = snapshot.project
      /\ run[a].pc = "up" => got = snapshot
      /\ run[a].pc = "record" => ran[run[a].dep] = snapshot
SnapInv ==
  /\ \A d \in Ids \ touched : SnapQueued(d)
  /\ \A a \in Apps : run[a].pc # "idle" /\ run[a].dep \notin touched => SnapRun(a)
  /\ \A a \in Apps, d \in Nat : InSlot(a, d) /\ d \notin touched /\ rows[d].snapshot # NoState =>
       ran[d] = rows[d].snapshot

\* What a run has read by the time it has the revisions of now.
ReadService(a) == \/ run[a].pc \in {"up", "record", "activate", "mark"}
                  \/ run[a].pc = "complete" /\ rows[run[a].dep].trigger # "rollback"
IsUp(a) == ReadService(a) /\ run[a].pc # "up"
CounterRun(a) ==
  /\ run[a].pc \notin {"idle", "target"} =>
       /\ deployed[a].rev <= run[a].rev /\ run[a].rev <= rev[a]
       /\ deployed[a].projectRev <= run[a].projectRev /\ run[a].projectRev <= projectRev
       /\ run[a].rev = rev[a] => run[a].got.fields = config[a].fields
  /\ ReadService(a) /\ run[a].rev = rev[a] => run[a].got.service = config[a].service
  /\ (ReadService(a) \/ run[a].pc = "service") /\ run[a].projectRev = projectRev =>
       run[a].got.project = project
  /\ IsUp(a) => ran[run[a].dep] = run[a].got
CounterMark(a) ==
  /\ deployed[a].rev <= rev[a] /\ deployed[a].projectRev <= projectRev
  /\ marked[a] # 0 =>
       /\ marked[a] \in Ids
       /\ rows[marked[a]].status = "succeeded"
       /\ deployed[a].rev = rev[a] =>
            /\ ran[marked[a]].fields = config[a].fields
            /\ ran[marked[a]].service = config[a].service
       /\ deployed[a].projectRev = projectRev => ran[marked[a]].project = project
CounterInv == \A a \in Apps : CounterRun(a) /\ CounterMark(a)

\* Under the lock of a redeploy nothing of the application moves.
LockInv ==
  \A a \in Apps : lock[a].pc = "insert" =>
    /\ InProgress(a) = {}
    /\ Succeeded(a) # {}
    /\ lock[a].from = GetApplicationConfigurationRedeployCandidate(a)

-----------------------------------------------------------------------------
\* The greatest of some numbers up to n is one of them.
LEMMA MaxIsElement ==
  ASSUME NEW n \in Nat, NEW S, S \subseteq 1..n, S # {}
  PROVE  Max(S) \in S
<1> DEFINE T == {n - x : x \in S}
           R == OpToRel(<, Nat)
<1>0. \A x \in S : x \in Nat /\ x <= n OBVIOUS
<1>1. T \subseteq Nat /\ T # {}
  <2>1. \A x \in S : n - x \in Nat BY <1>0
  <2>2. PICK x : x \in S OBVIOUS
  <2>3. n - x \in T BY <2>2
  <2> QED BY <2>1, <2>3
<1>2. IsWellFoundedOn(R, Nat) BY NatLessThanWellFounded
<1>3. PICK t \in T : \A y \in T : ~(<<y, t>> \in R)
  <2> HIDE DEF T, R
  <2> QED BY <1>1, <1>2, WFMin
<1>4. \A y \in T : ~(y < t) BY <1>1, <1>3 DEF OpToRel
<1>5. PICK x \in S : t = n - x OBVIOUS
<1>6. \A y \in S : x >= y
  <2> SUFFICES ASSUME NEW y \in S PROVE x >= y OBVIOUS
  <2>1. n - y \in T OBVIOUS
  <2>2. ~(n - y < n - x) BY <1>4, <1>5, <2>1
  <2>3. x \in Nat /\ y \in Nat /\ n \in Nat BY <1>0
  <2> HIDE DEF T, R
  <2> QED BY <2>2, <2>3
<1> QED BY <1>6 DEF Max

\* A new row at the end of the table.
LEMMA AppendFacts ==
  ASSUME NEW s \in Seq(Row), NEW e \in Row
  PROVE  /\ Append(s, e) \in Seq(Row)
         /\ Len(Append(s, e)) = Len(s) + 1
         /\ \A i \in 1..Len(s) : Append(s, e)[i] = s[i]
         /\ Append(s, e)[Len(s) + 1] = e
OBVIOUS

\* A new status of one row.
LEMMA StatusFacts ==
  ASSUME NEW s \in Seq(Row), NEW d \in 1..Len(s), NEW st \in Statuses
  PROVE  LET t == [s EXCEPT ![d].status = st]
         IN  /\ t \in Seq(Row)
             /\ Len(t) = Len(s)
             /\ \A i \in 1..Len(s) \ {d} : t[i] = s[i]
             /\ t[d].status = st
             /\ \A i \in 1..Len(s) : /\ t[i].app = s[i].app
                                     /\ t[i].trigger = s[i].trigger
                                     /\ t[i].snapshot = s[i].snapshot
                                     /\ t[i].artifact = s[i].artifact
<1>1. s[d] \in Row OBVIOUS
<1> DEFINE r == [s[d] EXCEPT !.status = st]
           t == [s EXCEPT ![d] = r]
<1>2. r \in Row BY <1>1 DEF Row
<1>3. r.status = st /\ r.app = s[d].app /\ r.trigger = s[d].trigger
      /\ r.snapshot = s[d].snapshot /\ r.artifact = s[d].artifact
  BY <1>1 DEF Row
<1>4. [s EXCEPT ![d].status = st] = t OBVIOUS
<1> HIDE DEF r
<1>5. t \in Seq(Row) /\ Len(t) = Len(s) /\ t[d] = r /\ \A i \in 1..Len(s) \ {d} : t[i] = s[i]
  BY <1>2
<1> HIDE DEF t
<1> QED BY <1>3, <1>4, <1>5

\* Another value of one piece of a configuration.
LEMMA StateFacts ==
  ASSUME TypeOK
  PROVE  /\ \A a \in Apps : ConfigurationState(a) \in States
         /\ Initially \in States
         /\ \A a \in Apps : /\ ConfigurationState(a).source = config[a].source
                            /\ ConfigurationState(a).fields = config[a].fields
                            /\ ConfigurationState(a).service = config[a].service
                            /\ ConfigurationState(a).project = project
BY ConfigRedeployAssumption DEF TypeOK, ConfigurationState, States, Initially

\* The candidate of a redeploy is a successful row of its application.
LEMMA CandidateFacts ==
  ASSUME TypeOK, NEW a \in Apps
  PROVE  LET d == GetApplicationConfigurationRedeployCandidate(a)
         IN  /\ Succeeded(a) # {} => d \in Succeeded(a)
             /\ Succeeded(a) = {} => d = 0
<1>1. Succeeded(a) \subseteq 1..Len(rows) /\ Len(rows) \in Nat BY DEF TypeOK, Succeeded, Ids
<1>2. Succeeded(a) # {} => Max(Succeeded(a)) \in Succeeded(a) BY <1>1, MaxIsElement
<1> QED BY <1>2 DEF GetApplicationConfigurationRedeployCandidate

-----------------------------------------------------------------------------
(* What each kind of step does, in types and components.                   *)

\* An edit of applications A.
EditStep(A) ==
  /\ config' \in [Apps -> [source: Values, fields: Values, service: Values]]
  /\ project' \in Values
  /\ edits' \in 0..MaxEdits
  /\ rev' \in [Apps -> 0..MaxEdits] /\ projectRev' \in 0..MaxEdits
  /\ \/ projectRev' = projectRev /\ project' = project
     \/ projectRev' = projectRev + 1 /\ A = Apps
  /\ \A a \in Apps : \/ rev'[a] = rev[a] /\ config'[a] = config[a]
                     \/ rev'[a] = rev[a] + 1 /\ a \in A
  /\ projectRev' <= edits' /\ \A a \in Apps : rev'[a] <= edits'
  /\ touched' = touched \cup UNION {Window(a) : a \in A}
  /\ UNCHANGED <<deployed, rows, slots, host, run, lock, batch, ran, marked>>

\* The three edits are such steps.
LEMMA Edits ==
  ASSUME TypeInv, Edit
  PROVE  \E A \in SUBSET Apps : EditStep(A)
<1> USE ConfigRedeployAssumption
<1>t. /\ config \in [Apps -> [source: Values, fields: Values, service: Values]]
      /\ project \in Values /\ rev \in [Apps -> 0..MaxEdits] /\ projectRev \in 0..MaxEdits
      /\ edits \in 0..MaxEdits /\ projectRev <= edits /\ \A a \in Apps : rev[a] <= edits
  BY DEF TypeInv, TypeOK
<1>b. ASSUME NEW a \in Apps, edits < MaxEdits, edits' = edits + 1,
             BumpApplicationConfigurationRevision(a)
      PROVE  /\ rev' \in [Apps -> 0..MaxEdits] /\ edits' \in 0..MaxEdits
             /\ \A b \in Apps : rev'[b] <= edits'
             /\ rev'[a] = rev[a] + 1 /\ \A b \in Apps \ {a} : rev'[b] = rev[b]
  <2>1. rev' = [rev EXCEPT ![a] = rev[a] + 1] BY <1>b DEF BumpApplicationConfigurationRevision
  <2>2. rev[a] + 1 \in 0..MaxEdits /\ rev[a] + 1 <= edits' /\ edits' \in 0..MaxEdits
    BY <1>t, <1>b
  <2>3. \A b \in Apps : rev[b] <= edits'
    <3> TAKE b \in Apps
    <3>1. rev[b] \in Nat /\ rev[b] <= edits /\ edits \in Nat BY <1>t
    <3> QED BY <1>b, <3>1
  <2> QED BY <1>t, <2>1, <2>2, <2>3
<1>1. ASSUME NEW a \in Apps, UpdateApplication(a) PROVE EditStep({a})
  <2>1. PICK source, fields \in Values : UpdateApplicationRow(a, source, fields)
    BY <1>1 DEF UpdateApplication
  <2>2. config' \in [Apps -> [source: Values, fields: Values, service: Values]]
        /\ \A b \in Apps \ {a} : config'[b] = config[b]
    BY <1>t, <2>1 DEF UpdateApplicationRow
  <2>3. edits < MaxEdits /\ edits' = edits + 1 /\ BumpApplicationConfigurationRevision(a)
    BY <1>1, <2>1 DEF UpdateApplication, EditedUnder, UpdateApplicationRow
  <2>4. projectRev <= edits' BY <1>t, <2>3
  <2>5. UNCHANGED <<project, projectRev>> /\ EditedUnder({a}) BY <1>1 DEF UpdateApplication
  <2> QED BY <1>t, <1>b, <2>2, <2>3, <2>4, <2>5 DEF EditStep, EditedUnder
<1>2. ASSUME NEW a \in Apps, ReplaceServiceRuntimeConfig(a) PROVE EditStep({a})
  <2>1. PICK value \in Values : config' = [config EXCEPT ![a].service = value]
    BY <1>2 DEF ReplaceServiceRuntimeConfig, UpsertApplicationServiceRuntimeConfig,
                DeleteApplicationServiceRuntimeConfig
  <2>2. config' \in [Apps -> [source: Values, fields: Values, service: Values]]
        /\ \A b \in Apps \ {a} : config'[b] = config[b]
    BY <1>t, <2>1
  <2>3. edits < MaxEdits /\ edits' = edits + 1 /\ BumpApplicationConfigurationRevision(a)
    BY <1>2 DEF ReplaceServiceRuntimeConfig, EditedUnder
  <2>4. projectRev <= edits' BY <1>t, <2>3
  <2>5. UNCHANGED <<project, projectRev>> /\ EditedUnder({a})
    BY <1>2 DEF ReplaceServiceRuntimeConfig
  <2> QED BY <1>t, <1>b, <2>2, <2>3, <2>4, <2>5 DEF EditStep, EditedUnder
<1>3. ASSUME ReplaceProjectVariables PROVE EditStep(Apps)
  <2>1. /\ project' \in Values /\ projectRev' = projectRev + 1 /\ UNCHANGED <<config, rev>>
        /\ edits < MaxEdits /\ edits' = edits + 1 /\ EditedUnder(Apps)
    BY <1>3 DEF ReplaceProjectVariables, IncrementProjectConfigurationRevision, EditedUnder
  <2>2. edits' \in 0..MaxEdits /\ projectRev' \in 0..MaxEdits /\ projectRev' <= edits'
    BY <1>t, <2>1
  <2>3. \A b \in Apps : rev[b] <= edits'
    <3> TAKE b \in Apps
    <3>1. rev[b] \in Nat /\ rev[b] <= edits /\ edits \in Nat BY <1>t
    <3> QED BY <2>1, <3>1
  <2> QED BY <1>t, <2>1, <2>2, <2>3 DEF EditStep, EditedUnder
<1> QED BY <1>1, <1>2, <1>3 DEF Edit

\* A new row of application a, by a request that holds no lock on it afterwards.
CreateStep(a, row) ==
  /\ row \in Row
  /\ row.app = a /\ row.status = "queued" /\ row.snapshot = ConfigurationState(a)
  /\ InProgress(a) = {}
  /\ Len(rows) < MaxDeployments
  /\ rows' = Append(rows, row)
  /\ lock' \in [Apps -> Lock]
  /\ lock'[a] = Free /\ \A b \in Apps \ {a} : lock'[b] = lock[b]
  /\ UNCHANGED <<edited, deployed, placed, run, batch, history>>

\* A statement of a redeploy transaction or of the list of candidates.
LockStep ==
  /\ lock' \in [Apps -> Lock]
  /\ batch' \subseteq Apps
  /\ \A a \in Apps : lock'[a] # lock[a] /\ lock'[a].pc = "insert" =>
       /\ InProgress(a) = {} /\ Succeeded(a) # {}
       /\ lock'[a].from = GetApplicationConfigurationRedeployCandidate(a)
  /\ UNCHANGED <<edited, deployed, rows, placed, run, history>>

\* The row that CreateDeployment inserts.
LEMMA Insert ==
  ASSUME TypeInv, NEW a \in Apps, NEW trigger \in Triggers, NEW artifact \in 1..MaxDeployments,
         CreateDeployment(a, trigger, artifact),
         lock' \in [Apps -> Lock], lock'[a] = Free, \A b \in Apps \ {a} : lock'[b] = lock[b],
         UNCHANGED <<edited, deployed, placed, run, batch, history>>
  PROVE  \E row \in Row : CreateStep(a, row)
<1> DEFINE row == [app |-> a, trigger |-> trigger, status |-> "queued",
                   snapshot |-> ConfigurationState(a), artifact |-> artifact]
<1>1. row \in Row BY StateFacts DEF TypeInv, Row, Statuses
<1>2. row.app = a /\ row.status = "queued" /\ row.snapshot = ConfigurationState(a) OBVIOUS
<1>3. CreateStep(a, row) BY <1>1, <1>2 DEF CreateDeployment, CreateStep
<1> QED BY <1>1, <1>3

\* Requests create a row or work on locks.
LEMMA Requests ==
  ASSUME TypeInv, SlotInv, LockInv, Request
  PROVE  LockStep \/ \E a \in Apps, row \in Row : CreateStep(a, row)
<1> USE ConfigRedeployAssumption
<1>t. /\ lock \in [Apps -> Lock] /\ batch \subseteq Apps /\ rows \in Seq(Row)
      /\ slots \in [Apps -> Pair]
  BY DEF TypeInv, TypeOK, Lock, Row, Pair
<1>f. Free \in Lock BY DEF Free, Lock
<1>r. ASSUME NEW i \in Ids PROVE rows[i].artifact \in 1..MaxDeployments /\ i \in 0..MaxDeployments
  <2>1. rows[i] \in Row BY <1>t DEF Ids
  <2>2. Len(rows) \in Nat /\ Len(rows) <= MaxDeployments BY <1>t DEF TypeInv, TypeOK
  <2> QED BY <2>1, <2>2 DEF Ids, Row
<1>1. ASSUME NEW a \in Apps, Deploy(a) PROVE \E row \in Row : CreateStep(a, row)
  <2>1. Fresh \in 1..MaxDeployments BY <1>1, <1>t DEF Deploy, CreateDeployment, Fresh
  <2>2. CreateDeployment(a, "manual", Fresh) /\ lock[a] = Free
        /\ UNCHANGED <<edited, deployed, placed, run, lock, batch, history>>
    BY <1>1 DEF Deploy
  <2>3. "manual" \in Triggers BY DEF Triggers
  <2> QED BY <1>t, <2>1, <2>2, <2>3, Insert
<1>2. ASSUME NEW a \in Apps, Rollback(a) PROVE \E row \in Row : CreateStep(a, row)
  <2> DEFINE artifact == rows[slots[a].standby].artifact
  <2>1. slots[a].standby \in Ids BY <1>2, <1>t DEF Rollback, SlotInv, InSlot, Pair
  <2>2. artifact \in 1..MaxDeployments BY <1>r, <2>1
  <2>3. CreateDeployment(a, "rollback", artifact) /\ lock[a] = Free
        /\ UNCHANGED <<edited, deployed, placed, run, lock, batch, history>>
    BY <1>2 DEF Rollback
  <2>4. "rollback" \in Triggers BY DEF Triggers
  <2> HIDE DEF artifact
  <2> QED BY <1>t, <2>2, <2>3, <2>4, Insert
<1>3. ASSUME NEW a \in Apps, RedeployInsert(a) PROVE \E row \in Row : CreateStep(a, row)
  <2> DEFINE artifact == ConfigurationRedeployInput(a, lock[a].from)
  <2>1. lock[a].from \in Ids
    BY <1>3, CandidateFacts DEF RedeployInsert, LockInv, TypeInv, Succeeded
  <2>2. rows[lock[a].from].artifact \in 1..MaxDeployments BY <1>r, <2>1
  <2>3. Fresh \in 1..MaxDeployments BY <1>3, <1>t DEF RedeployInsert, CreateDeployment, Fresh
  <2>4. artifact \in 1..MaxDeployments BY <2>2, <2>3 DEF ConfigurationRedeployInput
  <2>5. CreateDeployment(a, "redeploy", artifact) /\ Release(a)
        /\ UNCHANGED <<edited, deployed, placed, run, batch, history>>
    BY <1>3 DEF RedeployInsert
  <2>6. lock' \in [Apps -> Lock] /\ lock'[a] = Free /\ \A b \in Apps \ {a} : lock'[b] = lock[b]
    BY <1>t, <1>f, <2>5 DEF Release
  <2>7. "redeploy" \in Triggers BY DEF Triggers
  <2> HIDE DEF artifact
  <2> QED BY <2>4, <2>5, <2>6, <2>7, Insert
<1>4. ASSUME NEW a \in Apps, RedeployApplication(a) \/ RedeployNext(a) PROVE LockStep
  <2>1. lock' = [lock EXCEPT ![a].pc = "check"] BY <1>4 DEF RedeployApplication, RedeployNext,
                                                            GetApplicationForUpdate
  <2>2. lock' \in [Apps -> Lock] /\ lock'[a].pc = "check" /\ \A b \in Apps \ {a} : lock'[b] = lock[b]
    BY <1>t, <2>1 DEF Lock
  <2>3. batch' \subseteq Apps /\ UNCHANGED <<edited, deployed, rows, placed, run, history>>
    BY <1>4, <1>t DEF RedeployApplication, RedeployNext
  <2> QED BY <2>2, <2>3 DEF LockStep
<1>5. ASSUME RedeployProject PROVE LockStep
  <2>1. lock' = lock /\ batch' \subseteq Apps
        /\ UNCHANGED <<edited, deployed, rows, placed, run, history>>
    BY <1>5 DEF RedeployProject, ListProjectConfigurationRedeployCandidates
  <2> QED BY <1>t, <2>1 DEF LockStep
<1>6. ASSUME NEW a \in Apps, RedeployRefused(a) PROVE LockStep
  <2>1. lock' \in [Apps -> Lock] /\ lock'[a].pc = "free" /\ \A b \in Apps \ {a} : lock'[b] = lock[b]
    BY <1>t, <1>f, <1>6 DEF RedeployRefused, Release, Free
  <2>2. batch' \subseteq Apps /\ UNCHANGED <<edited, deployed, rows, placed, run, history>>
    BY <1>6, <1>t DEF RedeployRefused
  <2> QED BY <2>1, <2>2 DEF LockStep
<1>7. ASSUME NEW a \in Apps, RedeployCheck(a) PROVE LockStep
  <2>1. batch' \subseteq Apps /\ UNCHANGED <<edited, deployed, rows, placed, run, history>>
    BY <1>7, <1>t DEF RedeployCheck
  <2> DEFINE d == GetApplicationConfigurationRedeployCandidate(a)
  <2>2. CASE RedeployRequired(a) /\ InProgress(a) = {}
    <3>1. lock' = [lock EXCEPT ![a] = [pc |-> "insert", from |-> d]]
      BY <1>7, <2>2 DEF RedeployCheck
    <3>2. d # 0 BY <2>2 DEF RedeployRequired
    <3>3. Succeeded(a) # {} /\ d \in Ids BY <3>2, CandidateFacts DEF TypeInv, Succeeded
    <3>4. d \in 0..MaxDeployments BY <1>r, <3>3
    <3> HIDE DEF d
    <3>5. lock' \in [Apps -> Lock] /\ lock'[a].from = d /\ \A b \in Apps \ {a} : lock'[b] = lock[b]
      BY <1>t, <3>1, <3>4 DEF Lock
    <3> QED BY <2>1, <2>2, <3>3, <3>5 DEF LockStep, d
  <2>3. CASE ~(RedeployRequired(a) /\ InProgress(a) = {})
    <3>1. Release(a) BY <1>7, <2>3 DEF RedeployCheck
    <3>2. lock' \in [Apps -> Lock] /\ lock'[a].pc = "free"
          /\ \A b \in Apps \ {a} : lock'[b] = lock[b]
      BY <1>t, <1>f, <3>1 DEF Release, Free
    <3> QED BY <2>1, <3>2 DEF LockStep
  <2> QED BY <2>2, <2>3
<1> QED BY <1>1, <1>2, <1>3, <1>4, <1>5, <1>6, <1>7 DEF Request

\* The runner's local state of a becomes this.
RunTo(a, pc, dep, got, r, p) ==
  /\ run' \in [Apps -> Run]
  /\ run'[a] = [pc |-> pc, dep |-> dep, got |-> got, rev |-> r, projectRev |-> p]
  /\ \A b \in Apps \ {a} : run'[b] = run[b]
Goes(a, pc) == RunTo(a, pc, run[a].dep, run[a].got, run[a].rev, run[a].projectRev)
Rests(a) == RunTo(a, "idle", 0, Initially, 0, 0)

\* The fields of a run.
LEMMA RunFields ==
  ASSUME run \in [Apps -> Run], NEW a \in Apps
  PROVE  /\ run[a].pc \in Steps /\ run[a].dep \in 0..MaxDeployments /\ run[a].got \in States
         /\ run[a].rev \in 0..MaxEdits /\ run[a].projectRev \in 0..MaxEdits
         /\ run[a] = [pc |-> run[a].pc, dep |-> run[a].dep, got |-> run[a].got,
                      rev |-> run[a].rev, projectRev |-> run[a].projectRev]
<1>1. run[a] \in Run OBVIOUS
<1> QED BY <1>1 DEF Run

\* Two fields of a run change.
LEMMA RunExcept ==
  ASSUME NEW q \in Run, NEW pc, NEW x
  PROVE  /\ [q EXCEPT !.pc = pc, !.dep = x] =
              [pc |-> pc, dep |-> x, got |-> q.got, rev |-> q.rev, projectRev |-> q.projectRev]
         /\ [q EXCEPT !.pc = pc, !.got = x] =
              [pc |-> pc, dep |-> q.dep, got |-> x, rev |-> q.rev, projectRev |-> q.projectRev]
<1>1. q = [pc |-> q.pc, dep |-> q.dep, got |-> q.got, rev |-> q.rev, projectRev |-> q.projectRev]
  BY DEF Run
<1> DEFINE m == [q EXCEPT !.pc = pc]
<1>2. m = [pc |-> pc, dep |-> q.dep, got |-> q.got, rev |-> q.rev, projectRev |-> q.projectRev]
  BY <1>1
<1>3. [q EXCEPT !.pc = pc, !.dep = x] = [m EXCEPT !.dep = x]
      /\ [q EXCEPT !.pc = pc, !.got = x] = [m EXCEPT !.got = x]
  OBVIOUS
<1> HIDE DEF m
<1>4. [m EXCEPT !.dep = x] =
        [pc |-> pc, dep |-> x, got |-> q.got, rev |-> q.rev, projectRev |-> q.projectRev]
  BY <1>2
<1>5. [m EXCEPT !.got = x] =
        [pc |-> pc, dep |-> q.dep, got |-> x, rev |-> q.rev, projectRev |-> q.projectRev]
  BY <1>2
<1> QED BY <1>3, <1>4, <1>5

\* A new record for one run.
LEMMA RunSet ==
  ASSUME run \in [Apps -> Run], NEW a \in Apps, NEW pc \in Steps, NEW dep \in 0..MaxDeployments,
         NEW got \in States, NEW r \in 0..MaxEdits, NEW p \in 0..MaxEdits,
         run' = [run EXCEPT ![a] = [pc |-> pc, dep |-> dep, got |-> got, rev |-> r, projectRev |-> p]]
  PROVE  RunTo(a, pc, dep, got, r, p)
<1> DEFINE n == [pc |-> pc, dep |-> dep, got |-> got, rev |-> r, projectRev |-> p]
<1>1. n \in Run BY DEF Run
<1>2. run' = [run EXCEPT ![a] = n] OBVIOUS
<1> HIDE DEF n
<1>3. run' \in [Apps -> Run] /\ run'[a] = n /\ \A b \in Apps \ {a} : run'[b] = run[b]
  BY <1>1, <1>2
<1> QED BY <1>3 DEF RunTo, n

\* A step to another call, and the end of a run.
LEMMA RunGoes ==
  ASSUME run \in [Apps -> Run], NEW a \in Apps, NEW pc \in Steps
  PROVE  /\ Goto(a, pc) => Goes(a, pc)
         /\ run' = [run EXCEPT ![a] = Idle] => Rests(a)
<1>1. ASSUME Goto(a, pc) PROVE Goes(a, pc)
  <2>1. [run[a] EXCEPT !.pc = pc] =
          [pc |-> pc, dep |-> run[a].dep, got |-> run[a].got, rev |-> run[a].rev,
           projectRev |-> run[a].projectRev]
    BY RunFields
  <2>2. run' = [run EXCEPT ![a] = [run[a] EXCEPT !.pc = pc]] BY <1>1 DEF Goto
  <2> QED BY <2>1, <2>2, RunFields, RunSet DEF Goes
<1>2. ASSUME run' = [run EXCEPT ![a] = Idle] PROVE Rests(a)
  <2>1. "idle" \in Steps /\ 0 \in 0..MaxDeployments /\ 0 \in 0..MaxEdits /\ Initially \in States
    BY ConfigRedeployAssumption DEF Steps, Initially, States
  <2> QED BY <1>2, <2>1, RunSet DEF Idle, Rests
<1> QED BY <1>1, <1>2

\* Steps of the runner on the row d of application a.
WorkStarts(a, d) ==
  /\ run[a].pc = "idle" /\ d \in InProgress(a) /\ rows[d].status = "queued"
  /\ rows' = [rows EXCEPT ![d].status = "running"]
  /\ RunTo(a, "target", d, run[a].got, run[a].rev, run[a].projectRev)
  /\ UNCHANGED <<edited, deployed, placed, lock, batch, history>>

WorkReads(a) ==
  /\ \/ /\ run[a].pc = "target"
        /\ RunTo(a, IF rows[run[a].dep].trigger = "rollback" THEN "rollback" ELSE "project",
                 run[a].dep, [Initially EXCEPT !.source = rows[run[a].dep].snapshot.source,
                                               !.fields = config[a].fields],
                 rev[a], projectRev)
     \/ /\ run[a].pc = "project"
        /\ RunTo(a, "service", run[a].dep, [run[a].got EXCEPT !.project = project],
                 run[a].rev, run[a].projectRev)
     \/ /\ run[a].pc = "service"
        /\ RunTo(a, "up", run[a].dep, [run[a].got EXCEPT !.service = config[a].service],
                 run[a].rev, run[a].projectRev)
  /\ UNCHANGED <<edited, deployed, rows, placed, lock, batch, history>>

\* The ends of a run, with the status they leave.
WorkEnds(a, st) ==
  /\ run[a].pc \notin {"idle", "mark"}
  /\ st = "succeeded" => run[a].pc = "complete"
  /\ rows' = [rows EXCEPT ![run[a].dep].status = st]
  /\ \/ Rests(a) /\ (st = "succeeded" => rows[run[a].dep].trigger = "rollback")
     \/ st = "succeeded" /\ rows[run[a].dep].trigger # "rollback" /\ Goes(a, "mark")
  /\ UNCHANGED <<edited, deployed, placed, lock, batch, history>>

WorkStep(a) ==
  \/ \E d \in Ids : WorkStarts(a, d)
  \/ WorkReads(a)
  \/ WorkEnds(a, "succeeded") \/ WorkEnds(a, "failed")
  \/ Up(a) /\ Goes(a, "record")
  \/ RecordSlot(a) /\ Goes(a, "activate")
  \/ Activate(a) /\ Goes(a, "complete")
  \/ Mark(a) /\ Rests(a)

\* The runner takes such steps.
LEMMA Works ==
  ASSUME TypeInv, RunInv, Work
  PROVE  \E a \in Apps : WorkStep(a)
<1> USE ConfigRedeployAssumption
<1>t. /\ run \in [Apps -> Run] /\ rows \in Seq(Row)
      /\ config \in [Apps -> [source: Values, fields: Values, service: Values]]
      /\ project \in Values /\ rev \in [Apps -> 0..MaxEdits] /\ projectRev \in 0..MaxEdits
      /\ Len(rows) \in Nat /\ Len(rows) <= MaxDeployments
  BY DEF TypeInv, TypeOK, Run, Row
<1>s. {"idle", "target", "project", "service", "up", "record", "activate", "rollback",
       "complete", "mark"} \subseteq Steps
  BY DEF Steps
<1>1. ASSUME NEW a \in Apps, StartQueued(a) PROVE WorkStep(a)
  <2>1. PICK d \in InProgress(a) :
          /\ rows[d].status = "queued"
          /\ rows' = [rows EXCEPT ![d].status = "running"]
          /\ run' = [run EXCEPT ![a].pc = "target", ![a].dep = d]
    BY <1>1 DEF StartQueued
  <2>2. d \in Ids /\ d \in 0..MaxDeployments BY <1>t DEF InProgress, Ids
  <2>3. run' = [run EXCEPT ![a] = [run[a] EXCEPT !.pc = "target", !.dep = d]] BY <2>1
  <2>4. [run[a] EXCEPT !.pc = "target", !.dep = d] =
          [pc |-> "target", dep |-> d, got |-> run[a].got, rev |-> run[a].rev,
           projectRev |-> run[a].projectRev]
    BY <1>t, RunExcept
  <2>5. RunTo(a, "target", d, run[a].got, run[a].rev, run[a].projectRev)
    BY <1>t, <1>s, <2>2, <2>3, <2>4, RunFields, RunSet
  <2>6. run[a].pc = "idle" /\ UNCHANGED <<edited, deployed, placed, lock, batch, history>>
    BY <1>1 DEF StartQueued, At
  <2>7. WorkStarts(a, d) BY <2>1, <2>5, <2>6 DEF WorkStarts
  <2> QED BY <2>2, <2>7 DEF WorkStep
<1>2. ASSUME NEW a \in Apps, LoadTarget(a) PROVE WorkStep(a)
  <2> DEFINE d == run[a].dep
             got == [Initially EXCEPT !.source = rows[d].snapshot.source,
                                      !.fields = config[a].fields]
             pc == IF rows[d].trigger = "rollback" THEN "rollback" ELSE "project"
  <2>1. run[a].pc = "target" /\ UNCHANGED <<edited, deployed, rows, placed, lock, batch, history>>
        /\ run' = [run EXCEPT ![a] = GetDeploymentTarget(a, d)]
    BY <1>2 DEF LoadTarget, At
  <2>2. rows[d].snapshot \in States BY <2>1 DEF RunInv
  <2>3. got \in States BY <1>t, <2>2 DEF Initially, States
  <2>4. pc \in Steps /\ d \in 0..MaxDeployments BY <1>t, <1>s, RunFields
  <2>5. GetDeploymentTarget(a, d) = [pc |-> pc, dep |-> d, got |-> got, rev |-> rev[a],
                                     projectRev |-> projectRev]
    BY DEF GetDeploymentTarget
  <2>6. rev[a] \in 0..MaxEdits BY <1>t
  <2> HIDE DEF d, got, pc
  <2>7. RunTo(a, pc, d, got, rev[a], projectRev)
    BY <1>t, <2>1, <2>3, <2>4, <2>5, <2>6, RunSet
  <2>8. WorkReads(a) BY <2>1, <2>7 DEF WorkReads, d, got, pc
  <2> QED BY <2>8 DEF WorkStep
<1>3. ASSUME NEW a \in Apps, ReadProjectVariables(a) PROVE WorkStep(a)
  <2> DEFINE got == [run[a].got EXCEPT !.project = project]
  <2>1. run[a].pc = "project" /\ UNCHANGED <<edited, deployed, rows, placed, lock, batch, history>>
    BY <1>3 DEF ReadProjectVariables, At
  <2>2. run' = [run EXCEPT ![a] = [run[a] EXCEPT !.pc = "service", !.got = got]]
    BY <1>3, <1>t DEF ReadProjectVariables
  <2>3. run[a].got \in States BY <1>t, RunFields
  <2>4. got \in States BY <1>t, <2>3 DEF States
  <2> HIDE DEF got
  <2>5. [run[a] EXCEPT !.pc = "service", !.got = got] =
          [pc |-> "service", dep |-> run[a].dep, got |-> got, rev |-> run[a].rev,
           projectRev |-> run[a].projectRev]
    BY <1>t, RunExcept
  <2>6. RunTo(a, "service", run[a].dep, got, run[a].rev, run[a].projectRev)
    BY <1>t, <1>s, <2>2, <2>4, <2>5, RunFields, RunSet
  <2> QED BY <2>1, <2>6 DEF WorkStep, WorkReads, got
<1>4. ASSUME NEW a \in Apps, ReadServiceVariables(a) PROVE WorkStep(a)
  <2> DEFINE got == [run[a].got EXCEPT !.service = config[a].service]
  <2>1. run[a].pc = "service" /\ UNCHANGED <<edited, deployed, rows, placed, lock, batch, history>>
    BY <1>4 DEF ReadServiceVariables, At
  <2>2. run' = [run EXCEPT ![a] = [run[a] EXCEPT !.pc = "up", !.got = got]]
    BY <1>4, <1>t DEF ReadServiceVariables
  <2>3. run[a].got \in States BY <1>t, RunFields
  <2>4. got \in States BY <1>t, <2>3 DEF States
  <2> HIDE DEF got
  <2>5. [run[a] EXCEPT !.pc = "up", !.got = got] =
          [pc |-> "up", dep |-> run[a].dep, got |-> got, rev |-> run[a].rev,
           projectRev |-> run[a].projectRev]
    BY <1>t, RunExcept
  <2>6. RunTo(a, "up", run[a].dep, got, run[a].rev, run[a].projectRev)
    BY <1>t, <1>s, <2>2, <2>4, <2>5, RunFields, RunSet
  <2> QED BY <2>1, <2>6 DEF WorkStep, WorkReads, got
<1>5. ASSUME NEW a \in Apps, Up(a) \/ RecordSlot(a) \/ Activate(a) \/ Mark(a) PROVE WorkStep(a)
  BY <1>5, <1>t, <1>s, RunGoes DEF Up, RecordSlot, Activate, Mark, WorkStep
<1>6. ASSUME NEW a \in Apps, Complete(a) PROVE WorkStep(a)
  <2>1. run[a].pc = "complete" /\ rows' = [rows EXCEPT ![run[a].dep].status = "succeeded"]
        /\ UNCHANGED <<edited, deployed, placed, lock, batch, history>>
    BY <1>6 DEF Complete, At
  <2>2. CASE rows[run[a].dep].trigger = "rollback"
    <3>1. Rests(a) BY <1>6, <1>t, <1>s, <2>2, RunGoes DEF Complete
    <3> QED BY <2>1, <2>2, <3>1 DEF WorkStep, WorkEnds
  <2>3. CASE rows[run[a].dep].trigger # "rollback"
    <3>1. Goes(a, "mark") BY <1>6, <1>t, <1>s, <2>3, RunGoes DEF Complete
    <3> QED BY <2>1, <2>3, <3>1 DEF WorkStep, WorkEnds
  <2> QED BY <2>2, <2>3
<1>7. ASSUME NEW a \in Apps, Fail(a) PROVE WorkStep(a)
  <2>1. Rests(a) BY <1>7, <1>t, <1>s, RunGoes DEF Fail
  <2> QED BY <1>7, <2>1 DEF Fail, WorkStep, WorkEnds
<1> QED BY <1>1, <1>2, <1>3, <1>4, <1>5, <1>6, <1>7 DEF Work

-----------------------------------------------------------------------------
(* The invariants are inductive.                                           *)

\* A step of the specification, by kind.
AnyStep ==
  \/ \E A \in SUBSET Apps : EditStep(A)
  \/ \E a \in Apps, row \in Row : CreateStep(a, row)
  \/ LockStep
  \/ \E a \in Apps : WorkStep(a)

\* Every step is of one of these kinds.
LEMMA Kinds ==
  ASSUME TypeInv, RunInv, SlotInv, LockInv, Next
  PROVE  AnyStep
BY Edits, Requests, Works DEF Next, AnyStep

\* What a status update of the runner leaves of the rows.
LEMMA EndFacts ==
  ASSUME TypeInv, RunInv, NEW a \in Apps, NEW st \in {"succeeded", "failed"}, WorkEnds(a, st)
  PROVE  /\ run[a].dep \in Ids /\ rows[run[a].dep].app = a
         /\ rows[run[a].dep].status = "running"
         /\ rows' \in Seq(Row) /\ Len(rows') = Len(rows)
         /\ \A i \in Ids \ {run[a].dep} : rows'[i] = rows[i]
         /\ rows'[run[a].dep].status = st
         /\ \A i \in Ids : /\ rows'[i].app = rows[i].app
                           /\ rows'[i].trigger = rows[i].trigger
                           /\ rows'[i].snapshot = rows[i].snapshot
<1>1. run[a].dep \in Ids /\ rows[run[a].dep].app = a /\ rows[run[a].dep].status = "running"
  BY DEF WorkEnds, RunInv
<1>2. rows \in Seq(Row) /\ st \in Statuses BY DEF TypeInv, TypeOK, Row, Statuses
<1>3. rows' = [rows EXCEPT ![run[a].dep].status = st] BY DEF WorkEnds
<1> QED BY <1>1, <1>2, <1>3, StatusFacts DEF Ids

\* What the start of a run leaves of them.
LEMMA StartFacts ==
  ASSUME TypeInv, NEW a \in Apps, NEW d \in Ids, WorkStarts(a, d)
  PROVE  /\ rows[d].app = a /\ rows[d].status = "queued"
         /\ rows' \in Seq(Row) /\ Len(rows') = Len(rows)
         /\ \A i \in Ids \ {d} : rows'[i] = rows[i]
         /\ rows'[d].status = "running"
         /\ \A i \in Ids : /\ rows'[i].app = rows[i].app
                           /\ rows'[i].trigger = rows[i].trigger
                           /\ rows'[i].snapshot = rows[i].snapshot
<1>1. rows[d].app = a /\ rows[d].status = "queued" BY DEF WorkStarts, InProgress
<1>2. rows \in Seq(Row) /\ "running" \in Statuses BY DEF TypeInv, TypeOK, Row, Statuses
<1>3. rows' = [rows EXCEPT ![d].status = "running"] BY DEF WorkStarts
<1> QED BY <1>1, <1>2, <1>3, StatusFacts DEF Ids

\* What a new row leaves of them.
LEMMA CreateFacts ==
  ASSUME TypeInv, NEW a \in Apps, NEW row \in Row, CreateStep(a, row)
  PROVE  /\ rows' \in Seq(Row) /\ Len(rows') = Len(rows) + 1
         /\ Len(rows) \in Nat
         /\ \A i \in Ids : rows'[i] = rows[i] /\ i # Len(rows) + 1
         /\ rows'[Len(rows) + 1] = row
         /\ Ids' = Ids \cup {Len(rows) + 1}
<1>1. rows \in Seq(Row) /\ rows' = Append(rows, row) BY DEF TypeInv, TypeOK, Row, CreateStep
<1>2. /\ rows' \in Seq(Row) /\ Len(rows') = Len(rows) + 1 /\ Len(rows) \in Nat
      /\ \A i \in 1..Len(rows) : rows'[i] = rows[i]
      /\ rows'[Len(rows) + 1] = row
  BY <1>1, AppendFacts
<1>3. Ids' = Ids \cup {Len(rows) + 1} BY <1>2 DEF Ids
<1> QED BY <1>2, <1>3 DEF Ids

\* Types.
LEMMA TypeStep ==
  ASSUME TypeInv, RunInv, AnyStep
  PROVE  TypeInv'
<1> USE ConfigRedeployAssumption
<1>t. /\ run \in [Apps -> Run] /\ rows \in Seq(Row)
      /\ slots \in [Apps -> Pair] /\ host \in [Apps -> Pair]
      /\ lock \in [Apps -> Lock]
      /\ Len(rows) \in Nat /\ Len(rows) <= MaxDeployments
      /\ touched \subseteq Ids
  BY DEF TypeInv, TypeOK, Run, Row, Pair, Lock
<1>1. ASSUME NEW A \in SUBSET Apps, EditStep(A) PROVE TypeInv'
  <2>1. \A a \in Apps : Window(a) \subseteq Ids BY DEF Window, InProgress
  <2>2. touched' \subseteq Ids BY <1>1, <1>t, <2>1 DEF EditStep
  <2> QED BY <1>1, <2>2 DEF EditStep, TypeInv, TypeOK, Ids
<1>2. ASSUME NEW a \in Apps, NEW row \in Row, CreateStep(a, row) PROVE TypeInv'
  <2>1. rows' \in Seq(Row) /\ Len(rows') <= MaxDeployments /\ Ids \subseteq Ids'
    BY <1>2, <1>t, CreateFacts DEF CreateStep
  <2>2. touched' \subseteq Ids' BY <1>2, <1>t, <2>1 DEF CreateStep, history
  <2> QED BY <1>2, <2>1, <2>2
          DEF CreateStep, edited, placed, history, TypeInv, TypeOK, Row, Lock
<1>3. ASSUME LockStep PROVE TypeInv'
  BY <1>3 DEF LockStep, edited, placed, history, TypeInv, TypeOK, Lock, Ids
<1>w. ASSUME run' \in [Apps -> Run], rows' \in Seq(Row), Len(rows') = Len(rows),
             slots' \in [Apps -> Pair], host' \in [Apps -> Pair],
             deployed' \in [Apps -> [rev: 0..MaxEdits, projectRev: 0..MaxEdits]],
             ran' \in [1..MaxDeployments -> States], marked' \in [Apps -> 0..MaxDeployments],
             UNCHANGED <<edited, lock, batch, touched>>
      PROVE  TypeInv'
  BY <1>w DEF edited, TypeInv, TypeOK, Run, Row, Pair, Ids
<1>u. /\ deployed \in [Apps -> [rev: 0..MaxEdits, projectRev: 0..MaxEdits]]
      /\ ran \in [1..MaxDeployments -> States] /\ marked \in [Apps -> 0..MaxDeployments]
  BY DEF TypeInv, TypeOK
<1>4. ASSUME NEW a \in Apps, NEW d \in Ids, WorkStarts(a, d) PROVE TypeInv'
  BY <1>4, <1>t, <1>u, <1>w, StartFacts DEF WorkStarts, RunTo, placed, history
<1>5. ASSUME NEW a \in Apps, WorkReads(a) PROVE TypeInv'
  BY <1>5, <1>t, <1>u, <1>w DEF WorkReads, RunTo, placed, history
<1>6. ASSUME NEW a \in Apps, NEW st \in {"succeeded", "failed"}, WorkEnds(a, st) PROVE TypeInv'
  <2>1. run' \in [Apps -> Run] /\ UNCHANGED <<edited, deployed, placed, lock, batch, history>>
    BY <1>6 DEF WorkEnds, Rests, Goes, RunTo
  <2> QED BY <1>6, <1>t, <1>u, <1>w, <2>1, EndFacts DEF placed, history
<1>d. ASSUME NEW a \in Apps, run[a].pc # "idle"
      PROVE  run[a].dep \in 1..MaxDeployments /\ run[a].dep \in 0..MaxDeployments
  BY <1>d, <1>t DEF RunInv, Ids
<1>7. ASSUME NEW a \in Apps, Up(a), Goes(a, "record") PROVE TypeInv'
  <2>1. run[a].pc = "up" /\ host' = [host EXCEPT ![a].standby = run[a].dep]
        /\ ran' = [ran EXCEPT ![run[a].dep] = run[a].got]
        /\ UNCHANGED <<edited, deployed, rows, slots, lock, batch, touched, marked>>
    BY <1>7 DEF Up, At
  <2>2. host' \in [Apps -> Pair] BY <1>t, <1>d, <2>1 DEF Pair
  <2>3. run[a].got \in States BY <1>t, RunFields
  <2>4. ran' \in [1..MaxDeployments -> States] BY <1>u, <2>1, <2>3
  <2>5. run' \in [Apps -> Run] BY <1>7 DEF Goes, RunTo
  <2> QED BY <1>t, <1>u, <1>w, <2>1, <2>2, <2>4, <2>5
<1>8. ASSUME NEW a \in Apps, RecordSlot(a), Goes(a, "activate") PROVE TypeInv'
  <2>1. run[a].pc = "record" /\ slots' = [slots EXCEPT ![a].standby = run[a].dep]
        /\ UNCHANGED <<edited, deployed, rows, host, lock, batch, history>>
    BY <1>8 DEF RecordSlot, At
  <2>2. slots' \in [Apps -> Pair] BY <1>t, <1>d, <2>1 DEF Pair
  <2>3. run' \in [Apps -> Run] BY <1>8 DEF Goes, RunTo
  <2> QED BY <1>t, <1>u, <1>w, <2>1, <2>2, <2>3 DEF history
<1>9. ASSUME NEW a \in Apps, Activate(a), Goes(a, "complete") PROVE TypeInv'
  <2>1. slots' = [slots EXCEPT ![a] = Swap(slots[a])] /\ host' = [host EXCEPT ![a] = Swap(host[a])]
        /\ UNCHANGED <<edited, deployed, rows, lock, batch, history>>
    BY <1>9 DEF Activate
  <2>2. Swap(slots[a]) \in Pair /\ Swap(host[a]) \in Pair BY <1>t DEF Pair, Swap
  <2>3. slots' \in [Apps -> Pair] /\ host' \in [Apps -> Pair] BY <1>t, <2>1, <2>2
  <2>4. run' \in [Apps -> Run] BY <1>9 DEF Goes, RunTo
  <2> QED BY <1>t, <1>u, <1>w, <2>1, <2>3, <2>4 DEF history
<1>10. ASSUME NEW a \in Apps, Mark(a), Rests(a) PROVE TypeInv'
  <2>1. run[a].pc = "mark" /\ UNCHANGED <<edited, rows, placed, lock, batch, ran, touched>>
    BY <1>10 DEF Mark, At
  <2>2. run' \in [Apps -> Run] BY <1>10 DEF Rests, RunTo
  <2>3. deployed' \in [Apps -> [rev: 0..MaxEdits, projectRev: 0..MaxEdits]]
        /\ marked' \in [Apps -> 0..MaxDeployments]
    <3>1. CASE UNCHANGED <<deployed, marked>> BY <1>u, <3>1
    <3>2. CASE MarkApplicationConfigurationDeployed(a) /\ marked' = [marked EXCEPT ![a] = run[a].dep]
      <4> DEFINE n == [rev |-> Greatest(deployed[a].rev, run[a].rev),
                       projectRev |-> Greatest(deployed[a].projectRev, run[a].projectRev)]
      <4>1. deployed' = [deployed EXCEPT ![a] = n]
        BY <3>2 DEF MarkApplicationConfigurationDeployed
      <4>2. n \in [rev: 0..MaxEdits, projectRev: 0..MaxEdits]
        BY <1>t, <1>u, RunFields DEF Greatest
      <4> HIDE DEF n
      <4> QED BY <1>u, <1>d, <2>1, <3>2, <4>1, <4>2
    <3> QED BY <1>10, <3>1, <3>2 DEF Mark
  <2> QED BY <1>t, <1>u, <1>w, <2>1, <2>2, <2>3 DEF placed
<1> QED BY <1>1, <1>2, <1>3, <1>4, <1>5, <1>6, <1>7, <1>8, <1>9, <1>10 DEF AnyStep, WorkStep

\* Runs and their rows.
LEMMA RunStep ==
  ASSUME TypeInv, RunInv, LegacyInv, AnyStep
  PROVE  RunInv'
<1> USE DEF RunInv
<1>t. run \in [Apps -> Run] /\ rows \in Seq(Row) BY DEF TypeInv, TypeOK, Run, Row
<1>1. ASSUME NEW A \in SUBSET Apps, EditStep(A) PROVE RunInv'
  BY <1>1 DEF EditStep, Ids
<1>2. ASSUME NEW a \in Apps, NEW row \in Row, CreateStep(a, row) PROVE RunInv'
  <2>1. run' = run BY <1>2 DEF CreateStep
  <2>2. Ids \subseteq Ids' /\ \A i \in Ids : rows'[i] = rows[i] BY <1>2, CreateFacts
  <2> SUFFICES ASSUME NEW b \in Apps, run[b].pc # "idle"
               PROVE  /\ run[b].dep \in Ids' /\ rows'[run[b].dep] = rows[run[b].dep]
    BY <2>1
  <2> QED BY <2>2
<1>3. ASSUME LockStep PROVE RunInv'
  BY <1>3 DEF LockStep, Ids
<1>4. ASSUME NEW a \in Apps, NEW d \in Ids, WorkStarts(a, d) PROVE RunInv'
  <2>1. run'[a].pc = "target" /\ run'[a].dep = d /\ \A b \in Apps \ {a} : run'[b] = run[b]
    BY <1>4 DEF WorkStarts, RunTo
  <2>2. Ids' = Ids BY <1>4, StartFacts DEF Ids
  <2>3. rows[d].snapshot \in States
    <3>1. rows[d].snapshot # NoState BY <1>4, StartFacts DEF LegacyInv
    <3>2. rows[d] \in Row BY <1>t DEF Ids
    <3> QED BY <3>1, <3>2 DEF Row
  <2>4. \A b \in Apps \ {a} : run[b].pc # "idle" => run[b].dep # d BY <1>4, StartFacts
  <2> QED BY <1>4, <2>1, <2>2, <2>3, <2>4, StartFacts DEF Deploying
<1>5. ASSUME NEW a \in Apps, WorkReads(a) PROVE RunInv'
  <2>1. /\ rows' = rows /\ run[a].pc \in Reading /\ run'[a].dep = run[a].dep
        /\ run'[a].pc \in {"rollback", "project", "service", "up"}
        /\ run'[a].pc = "rollback" => rows[run[a].dep].trigger = "rollback"
        /\ run'[a].pc # "rollback" => rows[run[a].dep].trigger # "rollback"
        /\ \A b \in Apps \ {a} : run'[b] = run[b]
    <3>1. rows' = rows BY <1>5 DEF WorkReads
    <3>2. CASE run[a].pc = "target" BY <1>5, <3>1, <3>2 DEF WorkReads, RunTo, Reading
    <3>3. CASE run[a].pc # "target" BY <1>5, <3>1, <3>3 DEF WorkReads, RunTo, Reading, Deploying
    <3> QED BY <3>2, <3>3
  <2>2. /\ run[a].dep \in Ids /\ rows[run[a].dep].app = a
        /\ rows[run[a].dep].snapshot \in States /\ rows[run[a].dep].status = "running"
    BY <2>1 DEF Reading
  <2>3. Ids' = Ids BY <2>1 DEF Ids
  <2>4. run'[a].pc # "mark" BY <2>1
  <2> QED BY <2>1, <2>2, <2>3, <2>4 DEF Deploying
<1>6. ASSUME NEW a \in Apps, NEW st \in {"succeeded", "failed"}, WorkEnds(a, st) PROVE RunInv'
  <2>1. Ids' = Ids BY <1>6, EndFacts DEF Ids
  <2>2. \A b \in Apps \ {a} : run[b].pc # "idle" => run[b].dep # run[a].dep BY <1>6, EndFacts
  <2>3. \A b \in Apps \ {a} : run'[b] = run[b]
    BY <1>6 DEF WorkEnds, Rests, Goes, RunTo
  <2>4. \/ run'[a].pc = "idle"
        \/ /\ run'[a].pc = "mark" /\ run'[a].dep = run[a].dep /\ st = "succeeded"
           /\ rows[run[a].dep].trigger # "rollback" /\ run[a].pc # "idle"
    BY <1>6 DEF WorkEnds, Rests, Goes, RunTo
  <2>5. ASSUME NEW b \in Apps, b # a, run'[b].pc # "idle"
        PROVE  rows'[run[b].dep] = rows[run[b].dep] /\ run[b].dep \in Ids
    BY <1>6, <2>2, <2>3, <2>5, EndFacts
  <2>6. CASE run'[a].pc = "idle" BY <2>1, <2>3, <2>5, <2>6
  <2>7. CASE run'[a].pc # "idle"
    <3>1. /\ rows'[run[a].dep].status = st /\ rows'[run[a].dep].app = a
          /\ rows'[run[a].dep].snapshot \in States /\ rows'[run[a].dep].trigger # "rollback"
          /\ run[a].dep \in Ids
      BY <1>6, <2>4, <2>7, EndFacts
    <3> QED BY <2>1, <2>3, <2>4, <2>5, <2>7, <3>1
  <2> QED BY <2>6, <2>7
<1>7. ASSUME NEW a \in Apps, \/ Up(a) /\ Goes(a, "record")
                             \/ RecordSlot(a) /\ Goes(a, "activate")
                             \/ Activate(a) /\ Goes(a, "complete")
      PROVE  RunInv'
  <2>1. /\ rows' = rows /\ run'[a].dep = run[a].dep
        /\ run'[a].pc \in {"record", "activate", "complete"}
        /\ run[a].pc \in {"up", "record", "activate", "rollback"}
        /\ run'[a].pc # "complete" => run[a].pc \in {"up", "record"}
        /\ \A b \in Apps \ {a} : run'[b] = run[b]
    BY <1>7 DEF Up, RecordSlot, Activate, At, Goes, RunTo
  <2> QED BY <2>1 DEF Ids, Deploying
<1>8. ASSUME NEW a \in Apps, Mark(a), Rests(a) PROVE RunInv'
  BY <1>8 DEF Mark, Rests, RunTo, Ids
<1> QED BY <1>1, <1>2, <1>3, <1>4, <1>5, <1>6, <1>7, <1>8 DEF AnyStep, WorkStep

\* Slots and their rows.
LEMMA SlotStep ==
  ASSUME TypeInv, RunInv, SlotInv, AnyStep
  PROVE  SlotInv'
<1> USE DEF SlotInv, InSlot
<1>t. run \in [Apps -> Run] /\ rows \in Seq(Row) /\ slots \in [Apps -> Pair]
  BY DEF TypeInv, TypeOK, Run, Row, Pair
<1>1. ASSUME NEW A \in SUBSET Apps, EditStep(A) PROVE SlotInv'
  BY <1>1 DEF EditStep, Ids
<1>2. ASSUME NEW a \in Apps, NEW row \in Row, CreateStep(a, row) PROVE SlotInv'
  <2>1. run' = run /\ slots' = slots BY <1>2 DEF CreateStep, placed
  <2>2. Ids \subseteq Ids' /\ \A i \in Ids : rows'[i] = rows[i] BY <1>2, CreateFacts
  <2> QED BY <2>1, <2>2
<1>3. ASSUME LockStep PROVE SlotInv'
  BY <1>3 DEF LockStep, Ids, placed
<1>4. ASSUME NEW a \in Apps, NEW d \in Ids, WorkStarts(a, d) PROVE SlotInv'
  <2>1. run'[a].dep = d /\ (\A b \in Apps \ {a} : run'[b] = run[b]) /\ slots' = slots
    BY <1>4 DEF WorkStarts, RunTo, placed
  <2>2. Ids' = Ids BY <1>4, StartFacts DEF Ids
  <2>3. \A b \in Apps : ~InSlot(b, d) BY <1>4, StartFacts DEF Ids
  <2> QED BY <1>4, <2>1, <2>2, <2>3, StartFacts
<1>5. ASSUME NEW a \in Apps, WorkReads(a) PROVE SlotInv'
  <2>1. /\ rows' = rows /\ slots' = slots /\ run[a].pc \in NotInSlot
        /\ run'[a].dep = run[a].dep /\ \A b \in Apps \ {a} : run'[b] = run[b]
    BY <1>5 DEF WorkReads, RunTo, placed, NotInSlot, Reading
  <2> QED BY <2>1 DEF Ids
<1>6. ASSUME NEW a \in Apps, NEW st \in {"succeeded", "failed"}, WorkEnds(a, st) PROVE SlotInv'
  <2>1. Ids' = Ids BY <1>6, EndFacts DEF Ids
  <2>2. slots' = slots /\ (\A b \in Apps \ {a} : run'[b] = run[b]) /\ run'[a].pc \in {"idle", "mark"}
    BY <1>6 DEF WorkEnds, Rests, Goes, RunTo, placed
  <2>3. \A i \in Ids : rows'[i].app = rows[i].app
                       /\ (rows[i].status # "queued" => rows'[i].status # "queued")
    BY <1>6, EndFacts
  <2>4. run'[a].pc \notin NotInSlot BY <2>2 DEF NotInSlot, Reading
  <2> QED BY <2>1, <2>2, <2>3, <2>4
<1>7. ASSUME NEW a \in Apps, Up(a), Goes(a, "record") PROVE SlotInv'
  <2>1. /\ rows' = rows /\ slots' = slots /\ run[a].pc \in NotInSlot
        /\ run'[a].dep = run[a].dep /\ \A b \in Apps \ {a} : run'[b] = run[b]
    BY <1>7 DEF Up, At, Goes, RunTo, NotInSlot
  <2> QED BY <2>1 DEF Ids
<1>8. ASSUME NEW a \in Apps, RecordSlot(a), Goes(a, "activate") PROVE SlotInv'
  <2>1. /\ rows' = rows /\ run[a].pc = "record" /\ run'[a].pc = "activate"
        /\ \A b \in Apps \ {a} : run'[b] = run[b] /\ slots'[b] = slots[b]
        /\ slots'[a].active = slots[a].active /\ slots'[a].standby = run[a].dep
    BY <1>8, <1>t DEF RecordSlot, At, Goes, RunTo, Pair
  <2>2. run[a].dep \in Ids /\ rows[run[a].dep].app = a /\ rows[run[a].dep].status = "running"
    BY <2>1 DEF RunInv
  <2> QED BY <2>1, <2>2 DEF Ids, NotInSlot, Reading
<1>9. ASSUME NEW a \in Apps, Activate(a), Goes(a, "complete") PROVE SlotInv'
  <2>1. /\ rows' = rows /\ run'[a].pc = "complete"
        /\ \A b \in Apps \ {a} : run'[b] = run[b] /\ slots'[b] = slots[b]
        /\ slots'[a].active = slots[a].standby /\ slots'[a].standby = slots[a].active
    BY <1>9, <1>t DEF Activate, Goes, RunTo, Swap
  <2> QED BY <2>1 DEF Ids, NotInSlot, Reading
<1>10. ASSUME NEW a \in Apps, Mark(a), Rests(a) PROVE SlotInv'
  <2>1. /\ rows' = rows /\ slots' = slots /\ run'[a].pc = "idle"
        /\ \A b \in Apps \ {a} : run'[b] = run[b]
    BY <1>10 DEF Mark, Rests, RunTo, placed
  <2> QED BY <2>1 DEF Ids, NotInSlot, Reading
<1> QED BY <1>1, <1>2, <1>3, <1>4, <1>5, <1>6, <1>7, <1>8, <1>9, <1>10 DEF AnyStep, WorkStep

\* What was there before the snapshots.
LEMMA LegacyStep ==
  ASSUME TypeInv, RunInv, LegacyInv, AnyStep
  PROVE  LegacyInv'
<1> USE DEF LegacyInv
<1>1. ASSUME NEW A \in SUBSET Apps, EditStep(A) PROVE LegacyInv'
  <2>1. projectRev \in Nat /\ \A a \in Apps : rev[a] \in Nat BY DEF TypeInv, TypeOK
  <2>2. projectRev' = 0 => projectRev = 0 /\ project' = project BY <1>1, <2>1 DEF EditStep
  <2>3. ASSUME NEW a \in Apps, rev'[a] = 0 PROVE config'[a] = config[a] /\ rev[a] = 0
    <3>1. rev'[a] # rev[a] + 1 BY <2>1, <2>3
    <3> QED BY <1>1, <2>3, <3>1 DEF EditStep
  <2> QED BY <1>1, <2>2, <2>3 DEF EditStep, Ids
<1>2. ASSUME NEW a \in Apps, NEW row \in Row, CreateStep(a, row) PROVE LegacyInv'
  <2>1. row.snapshot # NoState
    BY <1>2, StateFacts, ConfigRedeployAssumption DEF CreateStep, TypeInv, States
  <2>2. UNCHANGED <<project, projectRev, config, rev, deployed, ran, marked>>
    BY <1>2 DEF CreateStep, edited, history
  <2>3. \A i \in Ids' : rows'[i].snapshot = NoState => i \in Ids /\ rows'[i] = rows[i]
    BY <1>2, <2>1, CreateFacts
  <2> QED BY <2>2, <2>3
<1>3. ASSUME LockStep PROVE LegacyInv'
  BY <1>3 DEF LockStep, edited, history, Ids
<1>l. ASSUME UNCHANGED <<edited, deployed, marked, ran>>, Ids' = Ids,
             \A i \in Ids : rows'[i].snapshot = rows[i].snapshot
                            /\ (rows[i].status = "succeeded" => rows'[i].status = "succeeded")
      PROVE  LegacyInv'
  BY <1>l DEF edited
<1>4. ASSUME NEW a \in Apps, NEW d \in Ids, WorkStarts(a, d) PROVE LegacyInv'
  <2>1. Ids' = Ids BY <1>4, StartFacts DEF Ids
  <2> QED BY <1>4, <1>l, <2>1, StartFacts DEF WorkStarts, history
<1>5. ASSUME NEW a \in Apps, WorkReads(a) PROVE LegacyInv'
  BY <1>5, <1>l DEF WorkReads, history, Ids
<1>6. ASSUME NEW a \in Apps, NEW st \in {"succeeded", "failed"}, WorkEnds(a, st) PROVE LegacyInv'
  <2>1. Ids' = Ids BY <1>6, EndFacts DEF Ids
  <2>2. UNCHANGED <<edited, deployed, marked, ran>> BY <1>6 DEF WorkEnds, history
  <2>3. \A i \in Ids : rows'[i].snapshot = rows[i].snapshot
                       /\ (rows[i].status = "succeeded" => rows'[i].status = "succeeded")
    BY <1>6, EndFacts
  <2> QED BY <1>l, <2>1, <2>2, <2>3
<1>7. ASSUME NEW a \in Apps, Up(a) PROVE LegacyInv'
  <2>1. /\ run[a].pc = "up" /\ ran' = [ran EXCEPT ![run[a].dep] = run[a].got]
        /\ UNCHANGED <<edited, deployed, rows, marked>>
    BY <1>7 DEF Up, At
  <2>2. rows[run[a].dep].status = "running" BY <2>1 DEF RunInv
  <2>3. \A i \in Ids : rows[i].snapshot = NoState => i # run[a].dep
    BY <2>2
  <2>4. \A i \in Ids : i # run[a].dep => ran'[i] = ran[i]
    BY <2>1 DEF Ids, TypeInv, TypeOK
  <2> QED BY <2>1, <2>3, <2>4 DEF edited, Ids
<1>8. ASSUME NEW a \in Apps, RecordSlot(a) \/ Activate(a) PROVE LegacyInv'
  BY <1>8, <1>l DEF RecordSlot, Activate, history, Ids
<1>9. ASSUME NEW a \in Apps, Mark(a) PROVE LegacyInv'
  <2>1. run[a].pc = "mark" /\ UNCHANGED <<edited, rows, ran>> BY <1>9 DEF Mark, At
  <2>2. run[a].dep # 0
    <3>1. run[a].dep \in Ids BY <2>1 DEF RunInv
    <3>2. 0 \notin Ids BY DEF Ids, TypeInv, TypeOK
    <3> QED BY <3>1, <3>2
  <2>3. \A b \in Apps : marked'[b] = 0 => marked[b] = 0 /\ deployed'[b] = deployed[b]
    BY <1>9, <2>2 DEF Mark, MarkApplicationConfigurationDeployed, TypeInv, TypeOK
  <2> QED BY <2>1, <2>3 DEF edited, Ids
<1> QED BY <1>1, <1>2, <1>3, <1>4, <1>5, <1>6, <1>7, <1>8, <1>9 DEF AnyStep, WorkStep

\* Snapshots and what is read after them.
LEMMA SnapStep ==
  ASSUME TypeInv, RunInv, SlotInv, SnapInv, AnyStep
  PROVE  SnapInv'
<1>t. /\ run \in [Apps -> Run] /\ rows \in Seq(Row) /\ slots \in [Apps -> Pair]
      /\ ran \in [1..MaxDeployments -> States]
      /\ Len(rows) \in Nat /\ Len(rows) <= MaxDeployments
  BY DEF TypeInv, TypeOK, Run, Row, Pair
<1>i. ASSUME NEW i \in Ids PROVE i \in Nat /\ i \in 1..MaxDeployments /\ rows[i].app \in Apps
  <2>1. rows[i] \in Row BY <1>t DEF Ids
  <2> QED BY <1>t, <2>1, ConfigRedeployAssumption DEF Ids, Row
<1>c. ASSUME UNCHANGED edited PROVE \A b \in Apps : ConfigurationState(b)' = ConfigurationState(b)
  BY <1>c DEF edited, ConfigurationState
\* What holds of the slots when only statuses change.
<1>s. ASSUME UNCHANGED <<ran, slots, touched>>,
             \A i \in Ids : rows'[i].snapshot = rows[i].snapshot
      PROVE  \A b \in Apps, d \in Nat :
               InSlot(b, d)' /\ d \notin touched' /\ rows'[d].snapshot # NoState =>
                 ran'[d] = rows'[d].snapshot
  <2>1. \A b \in Apps, d \in Nat : InSlot(b, d)' => InSlot(b, d) /\ d \in Ids
    BY <1>s DEF InSlot, SlotInv
  <2> QED BY <1>s, <2>1 DEF SnapInv
\* What holds of the runs whose record does not change.
<1>r. ASSUME NEW b \in Apps, run'[b] = run[b], UNCHANGED <<edited, ran, touched>>,
             \A i \in Ids : rows'[i].snapshot = rows[i].snapshot
      PROVE  run'[b].pc # "idle" /\ run'[b].dep \notin touched' => SnapRun(b)'
  <2>1. SUFFICES ASSUME run[b].pc # "idle", run[b].dep \notin touched PROVE SnapRun(b)'
    BY <1>r
  <2>2. run[b].dep \in Ids BY <2>1 DEF RunInv
  <2>3. SnapRun(b) /\ ConfigurationState(b)' = ConfigurationState(b) BY <1>r, <1>c, <2>1 DEF SnapInv
  <2> QED BY <1>r, <2>2, <2>3 DEF SnapRun
\* What holds of the rows whose record does not change.
<1>q. ASSUME NEW i \in Ids, rows'[i] = rows[i], UNCHANGED <<edited, touched>>, i \notin touched
      PROVE  SnapQueued(i)'
  BY <1>q, <1>c, <1>i DEF SnapQueued, SnapInv
<1>1. ASSUME NEW A \in SUBSET Apps, EditStep(A) PROVE SnapInv'
  <2>1. ASSUME NEW b \in Apps, b \notin A PROVE ConfigurationState(b)' = ConfigurationState(b)
    BY <1>1, <2>1 DEF EditStep, ConfigurationState
  <2>2. /\ UNCHANGED <<rows, run, slots, ran>> /\ Ids' = Ids
        /\ touched \subseteq touched' /\ \A b \in A : Window(b) \subseteq touched'
    BY <1>1 DEF EditStep, Ids
  <2>3. ASSUME NEW i \in Ids, i \notin touched' PROVE SnapQueued(i)'
    <3> SUFFICES ASSUME rows[i].status = "queued"
                 PROVE  rows[i].snapshot = ConfigurationState(rows[i].app)'
      BY <2>2 DEF SnapQueued, ConfigurationState
    <3>1. i \in Window(rows[i].app) /\ rows[i].app \in Apps BY <1>i DEF Window, InProgress
    <3>2. ConfigurationState(rows[i].app)' = ConfigurationState(rows[i].app)
      <4>1. PICK b \in Apps : b = rows[i].app BY <3>1
      <4>2. b \notin A BY <2>2, <2>3, <3>1, <4>1
      <4>3. ConfigurationState(b)' = ConfigurationState(b) BY <2>1, <4>2
      <4> QED BY <2>2, <4>1, <4>3 DEF ConfigurationState
    <3> QED BY <2>2, <2>3, <3>2 DEF SnapInv, SnapQueued
  <2>4. ASSUME NEW b \in Apps, run[b].pc # "idle", run[b].dep \notin touched' PROVE SnapRun(b)'
    <3>1. SnapRun(b) BY <2>2, <2>4 DEF SnapInv
    <3>2. ASSUME run[b].pc \in Reading PROVE ConfigurationState(b)' = ConfigurationState(b)
      <4>1. run[b].dep \in Window(b) BY <2>4, <3>2 DEF RunInv, Window, InProgress, Reading
      <4> QED BY <2>1, <2>2, <2>4, <4>1
    <3> QED BY <2>2, <3>1, <3>2 DEF SnapRun
  <2>5. \A b \in Apps, d \in Nat : InSlot(b, d)' /\ d \notin touched' /\ rows'[d].snapshot # NoState =>
          ran'[d] = rows'[d].snapshot
    BY <2>2 DEF SnapInv, InSlot
  <2> QED BY <2>2, <2>3, <2>4, <2>5 DEF SnapInv
<1>2. ASSUME NEW a \in Apps, NEW row \in Row, CreateStep(a, row) PROVE SnapInv'
  <2>1. UNCHANGED <<edited, run, slots, ran, touched>>
    BY <1>2 DEF CreateStep, placed, history
  <2>2. \A i \in Ids : rows'[i] = rows[i] BY <1>2, CreateFacts
  <2>3. ASSUME NEW i \in Ids', i \notin touched' PROVE SnapQueued(i)'
    <3>1. CASE i \in Ids BY <1>q, <2>1, <2>2, <2>3, <3>1
    <3>2. CASE i \notin Ids
      <4>1. rows'[i] = row BY <1>2, <3>2, CreateFacts
      <4>2. row.app = a /\ row.snapshot = ConfigurationState(a) BY <1>2 DEF CreateStep
      <4> QED BY <1>c, <2>1, <4>1, <4>2 DEF SnapQueued, ConfigurationState
    <3> QED BY <3>1, <3>2
  <2> QED BY <1>r, <1>s, <2>1, <2>2, <2>3 DEF SnapInv
<1>3. ASSUME LockStep PROVE SnapInv'
  <2>1. UNCHANGED <<edited, rows, run, slots, ran, touched>>
    BY <1>3 DEF LockStep, placed, history
  <2> QED BY <1>q, <1>r, <1>s, <2>1 DEF SnapInv, Ids
<1>4. ASSUME NEW a \in Apps, NEW d \in Ids, WorkStarts(a, d) PROVE SnapInv'
  <2>1. UNCHANGED <<edited, slots, ran, touched>> /\ \A b \in Apps \ {a} : run'[b] = run[b]
    BY <1>4 DEF WorkStarts, RunTo, placed, history
  <2>2. run'[a].pc = "target" /\ run'[a].dep = d BY <1>4 DEF WorkStarts, RunTo
  <2>3. Ids' = Ids /\ (\A i \in Ids : rows'[i].snapshot = rows[i].snapshot)
        /\ rows[d].app = a /\ rows[d].status = "queued" /\ rows'[d].status = "running"
        /\ \A i \in Ids \ {d} : rows'[i] = rows[i]
    BY <1>4, StartFacts DEF Ids
  <2>4. ASSUME d \notin touched PROVE SnapRun(a)'
    <3>1. rows[d].snapshot = ConfigurationState(a) BY <2>3, <2>4 DEF SnapInv, SnapQueued
    <3>2. ConfigurationState(a)' = ConfigurationState(a) BY <1>c, <2>1
    <3> QED BY <2>2, <2>3, <3>1, <3>2 DEF SnapRun
  <2>5. SnapQueued(d)' BY <2>3 DEF SnapQueued
  <2>6. \A i \in Ids' \ touched' : SnapQueued(i)' BY <1>q, <2>1, <2>3, <2>5
  <2>7. \A b \in Apps : run'[b].pc # "idle" /\ run'[b].dep \notin touched' => SnapRun(b)'
    BY <1>r, <2>1, <2>2, <2>3, <2>4
  <2> QED BY <1>s, <2>1, <2>3, <2>6, <2>7 DEF SnapInv
\* A run whose calls change nothing but its own record.
<1>w. ASSUME NEW a \in Apps, UNCHANGED <<edited, rows, touched, ran>>,
             \A b \in Apps \ {a} : run'[b] = run[b],
             run'[a].pc # "idle" /\ run'[a].dep \notin touched => SnapRun(a)',
             \A b \in Apps, d \in Nat :
               InSlot(b, d)' /\ d \notin touched' /\ rows'[d].snapshot # NoState =>
                 ran'[d] = rows'[d].snapshot
      PROVE  SnapInv'
  <2>1. \A i \in Ids' \ touched' : SnapQueued(i)' BY <1>q, <1>w DEF Ids
  <2>2. \A b \in Apps : run'[b].pc # "idle" /\ run'[b].dep \notin touched' => SnapRun(b)'
    BY <1>r, <1>w
  <2> QED BY <1>w, <2>1, <2>2 DEF SnapInv
<1>5. ASSUME NEW a \in Apps, WorkReads(a) PROVE SnapInv'
  <2>1. UNCHANGED <<edited, rows, slots, ran, touched>> /\ \A b \in Apps \ {a} : run'[b] = run[b]
    BY <1>5 DEF WorkReads, RunTo, placed, history
  <2>2. ASSUME run'[a].dep \notin touched PROVE SnapRun(a)'
    <3> DEFINE d == run[a].dep
               snapshot == rows[d].snapshot
    <3>1. run[a].pc \in Reading /\ run'[a].dep = d BY <1>5 DEF WorkReads, RunTo, Reading
    <3>2. SnapRun(a) /\ snapshot \in States BY <2>2, <3>1 DEF SnapInv, RunInv, Reading
    <3>3. snapshot = ConfigurationState(a) BY <3>1, <3>2 DEF SnapRun
    <3>4. ConfigurationState(a)' = ConfigurationState(a) BY <1>c, <2>1
    <3>5. rows'[run'[a].dep].snapshot = snapshot BY <2>1, <3>1
    <3> HIDE DEF snapshot
    <3>6. snapshot.source = config[a].source /\ snapshot.fields = config[a].fields
          /\ snapshot.service = config[a].service /\ snapshot.project = project
      BY <3>3, StateFacts DEF TypeInv
    <3>7. CASE run[a].pc = "target"
      <4>1. run'[a].pc \in {"rollback", "project"} BY <1>5, <3>7 DEF WorkReads, RunTo
      <4>2. run'[a].got = [Initially EXCEPT !.source = snapshot.source, !.fields = config[a].fields]
        BY <1>5, <3>7 DEF WorkReads, RunTo, snapshot
      <4>3. run'[a].got.source = snapshot.source /\ run'[a].got.fields = snapshot.fields
        BY <3>6, <4>2 DEF Initially
      <4> QED BY <3>3, <3>4, <3>5, <4>1, <4>3 DEF SnapRun
    <3>8. CASE run[a].pc = "project"
      <4>1. run'[a].pc = "service" /\ run'[a].got = [run[a].got EXCEPT !.project = project]
        BY <1>5, <3>8 DEF WorkReads, RunTo
      <4>2. run[a].got.source = snapshot.source /\ run[a].got.fields = snapshot.fields
        BY <3>2, <3>8 DEF SnapRun, snapshot
      <4>3. run[a].got \in States BY <1>t, RunFields
      <4>4. run'[a].got.source = run[a].got.source /\ run'[a].got.fields = run[a].got.fields
            /\ run'[a].got.project = project
        BY <4>1, <4>3 DEF States
      <4> QED BY <3>3, <3>4, <3>5, <3>6, <4>1, <4>2, <4>4 DEF SnapRun
    <3>9. CASE run[a].pc = "service"
      <4>1. run'[a].pc = "up" /\ run'[a].got = [run[a].got EXCEPT !.service = config[a].service]
        BY <1>5, <3>9 DEF WorkReads, RunTo
      <4>2. run[a].got.source = snapshot.source /\ run[a].got.fields = snapshot.fields
            /\ run[a].got.project = snapshot.project
        BY <3>2, <3>9 DEF SnapRun, snapshot
      <4>3. run[a].got \in States BY <1>t, RunFields
      <4>4. run'[a].got = snapshot BY <3>2, <3>6, <4>1, <4>2, <4>3 DEF States
      <4> QED BY <3>5, <4>1, <4>4 DEF SnapRun, Reading
    <3> QED BY <3>1, <3>7, <3>8, <3>9 DEF Reading
  <2> QED BY <1>s, <1>w, <2>1, <2>2
<1>6. ASSUME NEW a \in Apps, NEW st \in {"succeeded", "failed"}, WorkEnds(a, st) PROVE SnapInv'
  <2>1. UNCHANGED <<edited, slots, ran, touched>> /\ \A b \in Apps \ {a} : run'[b] = run[b]
    BY <1>6 DEF WorkEnds, Rests, Goes, RunTo, placed, history
  <2>2. run'[a].pc \in {"idle", "mark"} BY <1>6 DEF WorkEnds, Rests, Goes, RunTo
  <2>3. Ids' = Ids /\ (\A i \in Ids : rows'[i].snapshot = rows[i].snapshot)
        /\ rows'[run[a].dep].status = st
        /\ \A i \in Ids \ {run[a].dep} : rows'[i] = rows[i]
    BY <1>6, EndFacts DEF Ids
  <2>4. SnapRun(a)' BY <2>2 DEF SnapRun, Reading
  <2>6. \A i \in Ids' \ touched' : SnapQueued(i)' BY <1>q, <2>1, <2>3 DEF SnapQueued
  <2>7. \A b \in Apps : run'[b].pc # "idle" /\ run'[b].dep \notin touched' => SnapRun(b)'
    BY <1>r, <2>1, <2>3, <2>4
  <2> QED BY <1>s, <2>1, <2>3, <2>6, <2>7 DEF SnapInv
<1>7. ASSUME NEW a \in Apps, Up(a), Goes(a, "record") PROVE SnapInv'
  <2> DEFINE d == run[a].dep
  <2>1. /\ run[a].pc = "up" /\ ran' = [ran EXCEPT ![d] = run[a].got]
        /\ UNCHANGED <<edited, rows, slots, touched>>
        /\ run'[a].pc = "record" /\ run'[a].dep = d /\ \A b \in Apps \ {a} : run'[b] = run[b]
    BY <1>7 DEF Up, At, Goes, RunTo
  <2>2. d \in Ids /\ rows[d].app = a BY <2>1 DEF RunInv
  <2>3. ran'[d] = run[a].got /\ \A i \in Ids \ {d} : ran'[i] = ran[i] BY <1>i, <1>t, <2>1, <2>2
  <2>4. d \notin touched => SnapRun(a)'
    <3>1. SUFFICES ASSUME d \notin touched PROVE SnapRun(a)' OBVIOUS
    <3>2. run[a].got = rows[d].snapshot BY <2>1, <3>1 DEF SnapInv, SnapRun
    <3> QED BY <2>1, <2>3, <3>2 DEF SnapRun, Reading
  <2>5. ASSUME NEW b \in Apps \ {a}, run'[b].pc # "idle", run'[b].dep \notin touched' PROVE SnapRun(b)'
    <3>1. run'[b] = run[b] BY <2>1
    <3>2. run[b].dep \in Ids /\ rows[run[b].dep].app = b BY <2>5, <3>1 DEF RunInv
    <3>3. ran'[run[b].dep] = ran[run[b].dep] BY <2>2, <2>3, <3>2
    <3>4. SnapRun(b) BY <2>1, <2>5, <3>1 DEF SnapInv
    <3>5. ConfigurationState(b)' = ConfigurationState(b) BY <1>c, <2>1
    <3> QED BY <2>1, <3>1, <3>3, <3>4, <3>5 DEF SnapRun
  <2>6. ASSUME NEW b \in Apps, NEW e \in Nat, InSlot(b, e)', e \notin touched',
               rows'[e].snapshot # NoState
        PROVE  ran'[e] = rows'[e].snapshot
    <3>1. InSlot(b, e) BY <2>1, <2>6 DEF InSlot
    <3>2. e \in Ids /\ e # d BY <2>1, <2>2, <3>1 DEF SlotInv, NotInSlot
    <3> QED BY <2>1, <2>3, <2>6, <3>1, <3>2 DEF SnapInv
  <2>7. \A i \in Ids' \ touched' : SnapQueued(i)' BY <1>q, <2>1 DEF Ids
  <2> QED BY <2>1, <2>4, <2>5, <2>6, <2>7 DEF SnapInv
<1>8. ASSUME NEW a \in Apps, RecordSlot(a), Goes(a, "activate") PROVE SnapInv'
  <2>1. /\ run[a].pc = "record" /\ run'[a].pc = "activate"
        /\ UNCHANGED <<edited, rows, ran, touched>>
        /\ \A b \in Apps \ {a} : run'[b] = run[b] /\ slots'[b] = slots[b]
        /\ slots'[a].active = slots[a].active /\ slots'[a].standby = run[a].dep
    BY <1>8, <1>t DEF RecordSlot, At, Goes, RunTo, Pair, history
  <2>2. SnapRun(a)' BY <2>1 DEF SnapRun, Reading
  <2>3. run[a].dep \notin touched => ran[run[a].dep] = rows[run[a].dep].snapshot
    BY <2>1 DEF SnapInv, SnapRun
  <2>4. \A b \in Apps, e \in Nat : InSlot(b, e)' => InSlot(b, e) \/ (b = a /\ e = run[a].dep)
    BY <2>1 DEF InSlot
  <2> QED BY <1>w, <2>1, <2>2, <2>3, <2>4 DEF SnapInv
<1>9. ASSUME NEW a \in Apps, Activate(a), Goes(a, "complete") PROVE SnapInv'
  <2>1. /\ run'[a].pc = "complete" /\ UNCHANGED <<edited, rows, ran, touched>>
        /\ \A b \in Apps \ {a} : run'[b] = run[b] /\ slots'[b] = slots[b]
        /\ slots'[a].active = slots[a].standby /\ slots'[a].standby = slots[a].active
    BY <1>9, <1>t DEF Activate, Goes, RunTo, Swap, history
  <2>2. SnapRun(a)' BY <2>1 DEF SnapRun, Reading
  <2>3. \A b \in Apps, e \in Nat : InSlot(b, e)' => InSlot(b, e) BY <2>1 DEF InSlot
  <2> QED BY <1>w, <2>1, <2>2, <2>3 DEF SnapInv
<1>10. ASSUME NEW a \in Apps, Mark(a), Rests(a) PROVE SnapInv'
  <2>1. /\ run'[a].pc = "idle" /\ UNCHANGED <<edited, rows, slots, ran, touched>>
        /\ \A b \in Apps \ {a} : run'[b] = run[b]
    BY <1>10 DEF Mark, Rests, RunTo, placed
  <2> QED BY <1>s, <1>w, <2>1
<1> QED BY <1>1, <1>2, <1>3, <1>4, <1>5, <1>6, <1>7, <1>8, <1>9, <1>10 DEF AnyStep, WorkStep

\* Revisions and what is read with them.
LEMMA CounterStep ==
  ASSUME TypeInv, RunInv, CounterInv, AnyStep
  PROVE  CounterInv'
<1>t. /\ run \in [Apps -> Run] /\ rows \in Seq(Row)
      /\ config \in [Apps -> [source: Values, fields: Values, service: Values]]
      /\ deployed \in [Apps -> [rev: 0..MaxEdits, projectRev: 0..MaxEdits]]
      /\ marked \in [Apps -> 0..MaxDeployments] /\ ran \in [1..MaxDeployments -> States]
      /\ Len(rows) \in Nat /\ Len(rows) <= MaxDeployments
  BY DEF TypeInv, TypeOK, Run, Row
<1>v. projectRev \in Nat /\ \A a \in Apps : rev[a] \in Nat BY DEF TypeInv, TypeOK
<1>n. ASSUME NEW a \in Apps
      PROVE  /\ deployed[a].rev \in Nat /\ deployed[a].projectRev \in Nat
             /\ run[a].rev \in Nat /\ run[a].projectRev \in Nat
  BY <1>t, RunFields
<1>i. ASSUME NEW i \in Ids PROVE i \in 1..MaxDeployments /\ i # 0
  BY <1>t, ConfigRedeployAssumption DEF Ids
\* Runs whose record, row and containers are as before.
<1>r. ASSUME NEW b \in Apps, run'[b] = run[b], UNCHANGED <<edited, deployed>>,
             run[b].pc # "idle" => /\ ran'[run[b].dep] = ran[run[b].dep]
                                   /\ rows'[run[b].dep].trigger = rows[run[b].dep].trigger
      PROVE  CounterRun(b)'
  <2>1. CASE run[b].pc = "idle"
    BY <1>r, <2>1 DEF CounterRun, ReadService, IsUp
  <2>2. CASE run[b].pc # "idle"
    <3>1. (ReadService(b)' <=> ReadService(b)) /\ (IsUp(b)' <=> IsUp(b))
      BY <1>r, <2>2 DEF ReadService, IsUp
    <3> QED BY <1>r, <2>2, <3>1 DEF CounterInv, CounterRun, edited
  <2> QED BY <2>1, <2>2
\* Marks whose row and containers are as before.
<1>m. ASSUME NEW b \in Apps, UNCHANGED <<edited>>, deployed'[b] = deployed[b], marked'[b] = marked[b],
             Ids \subseteq Ids',
             \A i \in Ids : rows[i].status = "succeeded" =>
               rows'[i].status = "succeeded" /\ ran'[i] = ran[i]
      PROVE  CounterMark(b)'
  BY <1>m DEF CounterInv, CounterMark, edited
<1>1. ASSUME NEW A \in SUBSET Apps, EditStep(A) PROVE CounterInv'
  <2>1. SUFFICES ASSUME NEW b \in Apps PROVE CounterRun(b)' /\ CounterMark(b)' BY DEF CounterInv
  <2>2. /\ UNCHANGED <<deployed, rows, run, ran, marked>> /\ Ids' = Ids
        /\ \/ projectRev' = projectRev /\ project' = project
           \/ projectRev' = projectRev + 1
        /\ \/ rev'[b] = rev[b] /\ config'[b] = config[b]
           \/ rev'[b] = rev[b] + 1
    BY <1>1 DEF EditStep, Ids
  <2>3. (ReadService(b)' <=> ReadService(b)) /\ (IsUp(b)' <=> IsUp(b))
    BY <2>2 DEF ReadService, IsUp
  <2>4. rev[b] <= rev'[b] /\ projectRev <= projectRev' /\ rev'[b] \in Nat /\ projectRev' \in Nat
    BY <1>v, <2>2
  <2>5. ASSUME NEW n \in Nat, n <= rev[b], n = rev'[b] PROVE n = rev[b] /\ config'[b] = config[b]
    BY <1>t, <1>v, <2>2, <2>5
  <2>6. ASSUME NEW n \in Nat, n <= projectRev, n = projectRev'
        PROVE  n = projectRev /\ project' = project
    BY <1>t, <1>v, <2>2, <2>6
  <2>7. CounterRun(b)'
    <3>1. CounterRun(b) BY DEF CounterInv
    <3>2. CASE run[b].pc \in {"idle", "target"}
      BY <2>2, <3>2 DEF CounterRun, ReadService, IsUp
    <3>3. CASE run[b].pc \notin {"idle", "target"}
      <4>1. /\ deployed[b].rev <= run[b].rev /\ run[b].rev <= rev[b]
            /\ deployed[b].projectRev <= run[b].projectRev /\ run[b].projectRev <= projectRev
        BY <3>1, <3>3 DEF CounterRun
      <4>2. run[b].rev <= rev'[b] /\ run[b].projectRev <= projectRev'
        BY <1>n, <1>t, <1>v, <2>4, <4>1
      <4>3. run[b].rev = rev'[b] => run[b].rev = rev[b] /\ config'[b] = config[b]
        BY <1>n, <2>5, <4>1
      <4>4. run[b].projectRev = projectRev' => run[b].projectRev = projectRev /\ project' = project
        BY <1>n, <2>6, <4>1
      <4> QED BY <2>2, <2>3, <3>1, <3>3, <4>1, <4>2, <4>3, <4>4 DEF CounterRun
    <3> QED BY <3>2, <3>3
  <2>8. CounterMark(b)'
    <3>1. CounterMark(b) BY DEF CounterInv
    <3>2. deployed[b].rev <= rev'[b] /\ deployed[b].projectRev <= projectRev'
      BY <1>n, <1>t, <1>v, <2>4, <3>1 DEF CounterMark
    <3>3. deployed[b].rev = rev'[b] => deployed[b].rev = rev[b] /\ config'[b] = config[b]
      BY <1>n, <2>5, <3>1 DEF CounterMark
    <3>4. deployed[b].projectRev = projectRev' =>
            deployed[b].projectRev = projectRev /\ project' = project
      BY <1>n, <2>6, <3>1 DEF CounterMark
    <3> QED BY <2>2, <3>1, <3>2, <3>3, <3>4 DEF CounterMark
  <2> QED BY <2>7, <2>8
<1>2. ASSUME NEW a \in Apps, NEW row \in Row, CreateStep(a, row) PROVE CounterInv'
  <2>1. UNCHANGED <<edited, deployed, run, ran, marked>> BY <1>2 DEF CreateStep, history
  <2>2. Ids \subseteq Ids' /\ \A i \in Ids : rows'[i] = rows[i] BY <1>2, CreateFacts
  <2>3. \A b \in Apps : run[b].pc # "idle" => run[b].dep \in Ids BY DEF RunInv
  <2>4. \A b \in Apps : CounterRun(b)' BY <1>r, <2>1, <2>2, <2>3
  <2>5. \A b \in Apps : CounterMark(b)' BY <1>m, <2>1, <2>2
  <2> QED BY <2>4, <2>5 DEF CounterInv
<1>3. ASSUME LockStep PROVE CounterInv'
  <2>1. UNCHANGED <<edited, deployed, rows, run, ran, marked>> /\ Ids' = Ids
    BY <1>3 DEF LockStep, history, Ids
  <2>2. \A b \in Apps : CounterRun(b)' BY <1>r, <2>1
  <2>3. \A b \in Apps : CounterMark(b)' BY <1>m, <2>1
  <2> QED BY <2>2, <2>3 DEF CounterInv
<1>4. ASSUME NEW a \in Apps, NEW d \in Ids, WorkStarts(a, d) PROVE CounterInv'
  <2>1. UNCHANGED <<edited, deployed, ran, marked>> /\ (\A b \in Apps \ {a} : run'[b] = run[b])
        /\ run'[a].pc = "target"
    BY <1>4 DEF WorkStarts, RunTo, history
  <2>2. Ids' = Ids /\ (\A i \in Ids : rows'[i].trigger = rows[i].trigger)
        /\ \A i \in Ids : rows[i].status = "succeeded" => rows'[i].status = "succeeded"
    BY <1>4, StartFacts DEF Ids
  <2>3. \A b \in Apps : run[b].pc # "idle" => run[b].dep \in Ids BY DEF RunInv
  <2>4. CounterRun(a)' BY <2>1 DEF CounterRun, ReadService, IsUp
  <2>5. \A b \in Apps \ {a} : CounterRun(b)' BY <1>r, <2>1, <2>2, <2>3
  <2>6. \A b \in Apps : CounterMark(b)' BY <1>m, <2>1, <2>2
  <2> QED BY <2>4, <2>5, <2>6 DEF CounterInv
<1>5. ASSUME NEW a \in Apps, WorkReads(a) PROVE CounterInv'
  <2>1. UNCHANGED <<edited, deployed, rows, ran, marked>> /\ Ids' = Ids
        /\ \A b \in Apps \ {a} : run'[b] = run[b]
    BY <1>5 DEF WorkReads, RunTo, history, Ids
  <2>2. UNCHANGED <<config, project, rev, projectRev>> BY <2>1 DEF edited
  <2>3. CounterRun(a)'
    <3>0. CounterRun(a) /\ CounterMark(a) BY DEF CounterInv
    <3>1. CASE run[a].pc = "target"
      <4>1. run'[a].pc \in {"rollback", "project"} /\ run'[a].rev = rev[a]
            /\ run'[a].projectRev = projectRev
            /\ run'[a].got = [Initially EXCEPT !.source = rows[run[a].dep].snapshot.source,
                                               !.fields = config[a].fields]
        BY <1>5, <3>1 DEF WorkReads, RunTo
      <4>2. run'[a].got.fields = config[a].fields BY <4>1 DEF Initially
      <4>3. ~ReadService(a)' BY <4>1 DEF ReadService
      <4>4. rev[a] <= rev[a] /\ projectRev <= projectRev BY <1>v
      <4> QED BY <2>1, <2>2, <3>0, <4>1, <4>2, <4>3, <4>4 DEF CounterRun, CounterMark, IsUp
    <3>2. CASE run[a].pc = "project"
      <4>1. run'[a].pc = "service" /\ run'[a].rev = run[a].rev
            /\ run'[a].projectRev = run[a].projectRev
            /\ run'[a].got = [run[a].got EXCEPT !.project = project]
        BY <1>5, <3>2 DEF WorkReads, RunTo
      <4>2. run[a].got \in States BY <1>t, RunFields
      <4>3. run'[a].got.fields = run[a].got.fields /\ run'[a].got.project = project
        BY <4>1, <4>2 DEF States
      <4>4. ~ReadService(a)' BY <4>1 DEF ReadService
      <4> QED BY <2>1, <2>2, <3>0, <3>2, <4>1, <4>3, <4>4 DEF CounterRun, IsUp
    <3>3. CASE run[a].pc = "service"
      <4>1. run'[a].pc = "up" /\ run'[a].rev = run[a].rev
            /\ run'[a].projectRev = run[a].projectRev
            /\ run'[a].got = [run[a].got EXCEPT !.service = config[a].service]
        BY <1>5, <3>3 DEF WorkReads, RunTo
      <4>2. run[a].got \in States BY <1>t, RunFields
      <4>3. run'[a].got.fields = run[a].got.fields /\ run'[a].got.project = run[a].got.project
            /\ run'[a].got.service = config[a].service
        BY <4>1, <4>2 DEF States
      <4> QED BY <2>1, <2>2, <3>0, <3>3, <4>1, <4>3 DEF CounterRun, IsUp
    <3> QED BY <1>5, <3>1, <3>2, <3>3 DEF WorkReads
  <2>4. \A b \in Apps \ {a} : CounterRun(b)' BY <1>r, <2>1
  <2>5. \A b \in Apps : CounterMark(b)' BY <1>m, <2>1
  <2> QED BY <2>3, <2>4, <2>5 DEF CounterInv
<1>6. ASSUME NEW a \in Apps, NEW st \in {"succeeded", "failed"}, WorkEnds(a, st) PROVE CounterInv'
  <2>1. UNCHANGED <<edited, deployed, ran, marked>> /\ \A b \in Apps \ {a} : run'[b] = run[b]
    BY <1>6 DEF WorkEnds, Rests, Goes, RunTo, history
  <2>2. Ids' = Ids /\ (\A i \in Ids : rows'[i].trigger = rows[i].trigger)
        /\ \A i \in Ids : rows[i].status = "succeeded" => rows'[i].status = "succeeded"
    BY <1>6, EndFacts DEF Ids
  <2>3. \A b \in Apps : run[b].pc # "idle" => run[b].dep \in Ids BY DEF RunInv
  <2>4. CounterRun(a)'
    <3>1. CASE run'[a].pc = "idle" BY <3>1 DEF CounterRun, ReadService, IsUp
    <3>2. CASE run'[a].pc # "idle"
      <4>1. /\ run[a].pc = "complete" /\ rows[run[a].dep].trigger # "rollback"
            /\ run'[a].pc = "mark" /\ run'[a].dep = run[a].dep /\ run'[a].got = run[a].got
            /\ run'[a].rev = run[a].rev /\ run'[a].projectRev = run[a].projectRev
        BY <1>6, <3>2 DEF WorkEnds, Rests, Goes, RunTo
      <4>2. ReadService(a) /\ IsUp(a) BY <4>1 DEF ReadService, IsUp
      <4>3. CounterRun(a) BY DEF CounterInv
      <4> QED BY <2>1, <4>1, <4>2, <4>3 DEF CounterRun, edited
    <3> QED BY <3>1, <3>2
  <2>5. \A b \in Apps \ {a} : CounterRun(b)' BY <1>r, <2>1, <2>2, <2>3
  <2>6. \A b \in Apps : CounterMark(b)' BY <1>m, <2>1, <2>2
  <2> QED BY <2>4, <2>5, <2>6 DEF CounterInv
<1>7. ASSUME NEW a \in Apps, Up(a), Goes(a, "record") PROVE CounterInv'
  <2> DEFINE d == run[a].dep
  <2>1. /\ run[a].pc = "up" /\ ran' = [ran EXCEPT ![d] = run[a].got]
        /\ UNCHANGED <<edited, deployed, rows, marked>> /\ Ids' = Ids
        /\ run'[a].pc = "record" /\ run'[a].dep = d /\ run'[a].got = run[a].got
        /\ run'[a].rev = run[a].rev /\ run'[a].projectRev = run[a].projectRev
        /\ \A b \in Apps \ {a} : run'[b] = run[b]
    BY <1>7 DEF Up, At, Goes, RunTo, Ids
  <2>2. d \in Ids /\ rows[d].app = a /\ rows[d].status = "running" BY <2>1 DEF RunInv
  <2>3. ran'[d] = run[a].got /\ \A i \in Ids \ {d} : ran'[i] = ran[i] BY <1>i, <1>t, <2>1, <2>2
  <2>4. \A b \in Apps \ {a} : run[b].pc # "idle" => run[b].dep \in Ids \ {d} BY <2>2 DEF RunInv
  <2>5. CounterRun(a)'
    <3>1. CounterRun(a) BY DEF CounterInv
    <3> HIDE DEF d
    <3> QED BY <2>1, <2>3, <3>1 DEF CounterRun, ReadService, IsUp, edited, d
  <2>6. \A b \in Apps \ {a} : CounterRun(b)' BY <1>r, <2>1, <2>3, <2>4
  <2>7. \A i \in Ids : rows[i].status = "succeeded" =>
          rows'[i].status = "succeeded" /\ ran'[i] = ran[i]
    BY <2>1, <2>2, <2>3
  <2>8. \A b \in Apps : CounterMark(b)' BY <1>m, <2>1, <2>7
  <2> QED BY <2>5, <2>6, <2>8 DEF CounterInv
<1>8. ASSUME NEW a \in Apps, NEW pc \in {"activate", "complete"}, Goes(a, pc),
             \/ RecordSlot(a) /\ pc = "activate"
             \/ Activate(a) /\ pc = "complete"
      PROVE  CounterInv'
  <2>1. /\ UNCHANGED <<edited, deployed, rows, ran, marked>> /\ Ids' = Ids
        /\ run'[a].pc = pc /\ run'[a].dep = run[a].dep /\ run'[a].got = run[a].got
        /\ run'[a].rev = run[a].rev /\ run'[a].projectRev = run[a].projectRev
        /\ \A b \in Apps \ {a} : run'[b] = run[b]
    BY <1>8 DEF RecordSlot, Activate, Goes, RunTo, history, Ids
  <2>2. run[a].pc \in {"record", "activate", "rollback"} BY <1>8 DEF RecordSlot, Activate, At
  <2>3. CounterRun(a)'
    <3>1. CounterRun(a) BY DEF CounterInv
    <3>2. CASE run[a].pc = "rollback"
      <4>1. pc = "complete" BY <1>8, <3>2 DEF RecordSlot, At
      <4>2. rows[run[a].dep].trigger = "rollback" BY <3>2 DEF RunInv
      <4>3. ~ReadService(a)' BY <2>1, <4>1, <4>2 DEF ReadService
      <4> QED BY <2>1, <3>1, <3>2, <4>1, <4>3 DEF CounterRun, IsUp, edited
    <3>3. CASE run[a].pc # "rollback"
      <4>1. ReadService(a) /\ IsUp(a) BY <2>2, <3>3 DEF ReadService, IsUp
      <4> QED BY <2>1, <2>2, <3>1, <3>3, <4>1 DEF CounterRun, edited
    <3> QED BY <3>2, <3>3
  <2>4. \A b \in Apps \ {a} : CounterRun(b)' BY <1>r, <2>1
  <2>5. \A b \in Apps : CounterMark(b)' BY <1>m, <2>1
  <2> QED BY <2>3, <2>4, <2>5 DEF CounterInv
<1>9. ASSUME NEW a \in Apps, Mark(a), Rests(a) PROVE CounterInv'
  <2>1. /\ run[a].pc = "mark" /\ run'[a].pc = "idle"
        /\ UNCHANGED <<edited, rows, ran>> /\ Ids' = Ids
        /\ \A b \in Apps \ {a} : run'[b] = run[b]
    BY <1>9 DEF Mark, At, Rests, RunTo, Ids
  <2>2. \/ UNCHANGED <<deployed, marked>>
        \/ MarkApplicationConfigurationDeployed(a) /\ marked' = [marked EXCEPT ![a] = run[a].dep]
    BY <1>9 DEF Mark
  <2>3. \A b \in Apps \ {a} : deployed'[b] = deployed[b] /\ marked'[b] = marked[b]
    BY <1>t, <2>2 DEF MarkApplicationConfigurationDeployed
  <2>4. CounterRun(a)' BY <2>1 DEF CounterRun, ReadService, IsUp
  <2>5. ASSUME NEW b \in Apps \ {a} PROVE CounterRun(b)'
    <3>1. CounterRun(b) /\ run'[b] = run[b] /\ deployed'[b] = deployed[b]
      BY <2>1, <2>3 DEF CounterInv
    <3>2. (ReadService(b)' <=> ReadService(b)) /\ (IsUp(b)' <=> IsUp(b))
      BY <2>1, <3>1 DEF ReadService, IsUp
    <3> QED BY <2>1, <3>1, <3>2 DEF CounterRun, edited
  <2>6. \A b \in Apps \ {a} : CounterMark(b)' BY <1>m, <2>1, <2>3
  <2>7. CounterMark(a)'
    <3>1. CASE UNCHANGED <<deployed, marked>> BY <1>m, <2>1, <3>1
    <3>2. CASE MarkApplicationConfigurationDeployed(a) /\ marked' = [marked EXCEPT ![a] = run[a].dep]
      <4>1. CounterRun(a) /\ ReadService(a) /\ IsUp(a)
        BY <2>1 DEF CounterInv, ReadService, IsUp
      <4>2. /\ deployed[a].rev <= run[a].rev /\ run[a].rev <= rev[a]
            /\ deployed[a].projectRev <= run[a].projectRev /\ run[a].projectRev <= projectRev
        BY <2>1, <4>1 DEF CounterRun
      <4>3. Greatest(deployed[a].rev, run[a].rev) = run[a].rev
            /\ Greatest(deployed[a].projectRev, run[a].projectRev) = run[a].projectRev
        BY <1>n, <1>v, <4>2 DEF Greatest
      <4>4. deployed'[a].rev = run[a].rev /\ deployed'[a].projectRev = run[a].projectRev
        BY <1>t, <3>2, <4>3 DEF MarkApplicationConfigurationDeployed
      <4>5. marked'[a] = run[a].dep /\ run[a].dep \in Ids /\ rows[run[a].dep].status = "succeeded"
        BY <1>t, <2>1, <3>2 DEF RunInv
      <4>6. ran[run[a].dep] = run[a].got
            /\ (run[a].rev = rev[a] => run[a].got.fields = config[a].fields
                                       /\ run[a].got.service = config[a].service)
            /\ (run[a].projectRev = projectRev => run[a].got.project = project)
        BY <2>1, <4>1 DEF CounterRun
      <4> QED BY <2>1, <4>2, <4>4, <4>5, <4>6 DEF CounterMark, edited
    <3> QED BY <2>2, <3>1, <3>2
  <2> QED BY <2>4, <2>5, <2>6, <2>7 DEF CounterInv
<1> QED BY <1>1, <1>2, <1>3, <1>4, <1>5, <1>6, <1>7, <1>8, <1>9 DEF AnyStep, WorkStep

\* Redeploy transactions and their candidate.
LEMMA LockKept ==
  ASSUME TypeInv, RunInv, LockInv, AnyStep
  PROVE  LockInv'
<1>t. slots \in [Apps -> Pair] /\ rows \in Seq(Row) /\ lock \in [Apps -> Lock]
  BY DEF TypeInv, TypeOK, Row, Pair, Lock
<1> DEFINE Held(b) == lock[b].pc = "insert" =>
             /\ InProgress(b) = {} /\ Succeeded(b) # {}
             /\ lock[b].from = GetApplicationConfigurationRedeployCandidate(b)
\* An application whose rows and slots are as before.
<1>h. ASSUME NEW b \in Apps, lock'[b] = lock[b], slots'[b] = slots[b], Ids \subseteq Ids',
             \A i \in Ids : rows'[i].app = rows[i].app,
             \A i \in Ids : rows[i].app = b => rows'[i] = rows[i],
             \A i \in Ids' \ Ids : rows'[i].app # b
      PROVE  Held(b)'
  <2>1. InProgress(b)' = InProgress(b) /\ Succeeded(b)' = Succeeded(b)
    BY <1>h DEF InProgress, Succeeded
  <2>2. GetApplicationConfigurationRedeployCandidate(b)' =
          GetApplicationConfigurationRedeployCandidate(b)
    BY <1>h, <2>1 DEF GetApplicationConfigurationRedeployCandidate
  <2> QED BY <1>h, <2>1, <2>2 DEF LockInv
<1>w. ASSUME NEW a \in Apps, run[a].pc \notin {"idle", "mark"} PROVE lock[a].pc # "insert"
  <2>1. run[a].dep \in InProgress(a) BY <1>w DEF RunInv, InProgress
  <2> QED BY <2>1 DEF LockInv
<1>1. ASSUME NEW A \in SUBSET Apps, EditStep(A) PROVE LockInv'
  <2>1. UNCHANGED <<rows, slots, lock>> /\ Ids' = Ids BY <1>1 DEF EditStep, Ids
  <2>2. \A b \in Apps : Held(b)' BY <1>h, <2>1
  <2> QED BY <2>2 DEF LockInv
<1>2. ASSUME NEW a \in Apps, NEW row \in Row, CreateStep(a, row) PROVE LockInv'
  <2>1. slots' = slots /\ lock'[a].pc # "insert" /\ (\A b \in Apps \ {a} : lock'[b] = lock[b])
        /\ row.app = a
    BY <1>2 DEF CreateStep, placed, Free
  <2>2. Ids \subseteq Ids' /\ (\A i \in Ids : rows'[i] = rows[i])
        /\ \A i \in Ids' \ Ids : rows'[i] = row
    BY <1>2, CreateFacts
  <2>3. \A b \in Apps \ {a} : Held(b)' BY <1>h, <2>1, <2>2
  <2> QED BY <2>1, <2>3 DEF LockInv
<1>3. ASSUME LockStep PROVE LockInv'
  <2>1. UNCHANGED <<rows, slots>> /\ Ids' = Ids BY <1>3 DEF LockStep, placed, Ids
  <2>2. SUFFICES ASSUME NEW b \in Apps PROVE Held(b)' BY DEF LockInv
  <2>3. CASE lock'[b] = lock[b] BY <1>h, <2>1, <2>3
  <2>4. CASE lock'[b] # lock[b]
    <3>1. InProgress(b)' = InProgress(b) /\ Succeeded(b)' = Succeeded(b)
      BY <2>1 DEF InProgress, Succeeded
    <3>2. GetApplicationConfigurationRedeployCandidate(b)' =
            GetApplicationConfigurationRedeployCandidate(b)
      BY <2>1, <3>1 DEF GetApplicationConfigurationRedeployCandidate
    <3> QED BY <1>3, <2>4, <3>1, <3>2 DEF LockStep
  <2> QED BY <2>3, <2>4
\* The run of a row of a, which is not locked, or moves no row and no slot.
<1>r. ASSUME NEW a \in Apps, lock' = lock, Ids' = Ids,
             \A b \in Apps \ {a} : slots'[b] = slots[b],
             \A i \in Ids : rows'[i].app = rows[i].app,
             \A i \in Ids : rows[i].app # a => rows'[i] = rows[i],
             lock[a].pc # "insert"
      PROVE  LockInv'
  <2>1. \A b \in Apps \ {a} : Held(b)' BY <1>h, <1>r
  <2> QED BY <1>r, <2>1 DEF LockInv
<1>4. ASSUME NEW a \in Apps, NEW d \in Ids, WorkStarts(a, d) PROVE LockInv'
  <2>1. lock' = lock /\ slots' = slots /\ d \in InProgress(a) BY <1>4 DEF WorkStarts, placed
  <2>2. lock[a].pc # "insert" BY <2>1 DEF LockInv
  <2>3. /\ Ids' = Ids /\ rows[d].app = a /\ \A i \in Ids : rows'[i].app = rows[i].app
        /\ \A i \in Ids \ {d} : rows'[i] = rows[i]
    BY <1>4, StartFacts DEF Ids
  <2> QED BY <1>r, <2>1, <2>2, <2>3
<1>5. ASSUME NEW a \in Apps, WorkReads(a) \/ Up(a) \/ Mark(a) PROVE LockInv'
  <2>1. lock' = lock /\ slots' = slots /\ rows' = rows /\ Ids' = Ids
    BY <1>5 DEF WorkReads, Up, Mark, placed, Ids
  <2>2. \A b \in Apps : Held(b)' BY <1>h, <2>1
  <2> QED BY <2>2 DEF LockInv
<1>6. ASSUME NEW a \in Apps, NEW st \in {"succeeded", "failed"}, WorkEnds(a, st) PROVE LockInv'
  <2>1. lock' = lock /\ slots' = slots /\ run[a].pc \notin {"idle", "mark"}
    BY <1>6 DEF WorkEnds, placed
  <2>2. lock[a].pc # "insert" BY <1>w, <2>1
  <2>3. /\ Ids' = Ids /\ rows[run[a].dep].app = a /\ \A i \in Ids : rows'[i].app = rows[i].app
        /\ \A i \in Ids \ {run[a].dep} : rows'[i] = rows[i]
    BY <1>6, EndFacts DEF Ids
  <2> QED BY <1>r, <2>1, <2>2, <2>3
<1>7. ASSUME NEW a \in Apps, RecordSlot(a) \/ Activate(a) PROVE LockInv'
  <2>1. lock' = lock /\ rows' = rows /\ Ids' = Ids /\ run[a].pc \notin {"idle", "mark"}
        /\ \A b \in Apps \ {a} : slots'[b] = slots[b]
    BY <1>7, <1>t DEF RecordSlot, Activate, At, Ids
  <2>2. lock[a].pc # "insert" BY <1>w, <2>1
  <2> QED BY <1>r, <2>1, <2>2
<1> QED BY <1>1, <1>2, <1>3, <1>4, <1>5, <1>6, <1>7 DEF AnyStep, WorkStep

-----------------------------------------------------------------------------
(* Theorems.                                                               *)

IInv == TypeInv /\ RunInv /\ SlotInv /\ LegacyInv /\ SnapInv /\ CounterInv /\ LockInv

\* An installation starts in the invariant, with or without an old deployment.
LEMMA InitInv ==
  ASSUME Init
  PROVE  IInv
<1> USE ConfigRedeployAssumption
<1>1. /\ config = [a \in Apps |-> Default] /\ project = NoConfig /\ rev = [a \in Apps |-> 0]
      /\ projectRev = 0 /\ deployed = [a \in Apps |-> [rev |-> 0, projectRev |-> 0]]
      /\ run = [a \in Apps |-> Idle] /\ lock = [a \in Apps |-> Free] /\ batch = {} /\ edits = 0
      /\ ran = [d \in 1..MaxDeployments |-> Initially] /\ touched = {}
      /\ marked = [a \in Apps |-> 0] /\ host = slots
  BY DEF Init
<1>2. /\ rows \in Seq(Row) /\ Len(rows) <= MaxDeployments /\ slots \in [Apps -> Pair]
      /\ \A d \in Ids : /\ d \in 1..MaxDeployments
                        /\ rows[d].status = "succeeded" /\ rows[d].snapshot = NoState
      /\ \A a \in Apps, d \in Nat : InSlot(a, d) => d \in Ids /\ rows[d].app = a
  <2>1. CASE rows = <<>> /\ slots = [a \in Apps |-> [active |-> 0, standby |-> 0]]
    <3>1. Len(rows) = 0 /\ Ids = {} /\ rows \in Seq(Row) BY <2>1 DEF Ids
    <3>2. slots \in [Apps -> Pair] BY <2>1 DEF Pair
    <3>3. \A a \in Apps, d \in Nat : ~InSlot(a, d) BY <2>1 DEF InSlot
    <3> QED BY <3>1, <3>2, <3>3
  <2>2. ASSUME NEW old \in Apps, rows = <<Legacy(old)>>,
               slots = [a \in Apps |-> [active |-> IF a = old THEN 1 ELSE 0, standby |-> 0]]
        PROVE  <1>2!:
    <3>1. Legacy(old) \in Row BY DEF Legacy, Row, Triggers, Statuses
    <3>2. rows \in Seq(Row) /\ Len(rows) = 1 /\ rows[1] = Legacy(old) BY <2>2, <3>1
    <3>3. Ids = {1} BY <3>2 DEF Ids
    <3>4. slots \in [Apps -> Pair] BY <2>2 DEF Pair
    <3>5. \A a \in Apps, d \in Nat : InSlot(a, d) => d = 1 /\ a = old BY <2>2 DEF InSlot
    <3> QED BY <3>2, <3>3, <3>4, <3>5 DEF Legacy
  <2> QED BY <2>1, <2>2 DEF Init
<1>3. TypeInv
  <2>1. Default \in [source: Values, fields: Values, service: Values] BY DEF Default
  <2>2. Initially \in States /\ Idle \in Run /\ Free \in Lock
    BY DEF Initially, States, Idle, Run, Steps, Free, Lock
  <2>3. lock \in [Apps -> Lock] /\ run \in [Apps -> Run] BY <1>1, <2>2
  <2> QED BY <1>1, <1>2, <2>1, <2>2, <2>3 DEF TypeInv, TypeOK, Row, Pair, Run, Lock
<1>4. \A a \in Apps : run[a].pc = "idle" /\ lock[a].pc = "free" BY <1>1 DEF Idle, Free
<1>5. RunInv /\ LockInv BY <1>4 DEF RunInv, LockInv
<1>6. SlotInv BY <1>2, <1>4 DEF SlotInv, NotInSlot, Reading
<1>7. LegacyInv BY <1>1, <1>2 DEF LegacyInv
<1>8. SnapInv BY <1>2, <1>4 DEF SnapInv, SnapQueued
<1>9. CounterInv
  <2>1. \A a \in Apps : ~ReadService(a) /\ ~IsUp(a) BY <1>4 DEF ReadService, IsUp
  <2> QED BY <1>1, <1>4, <2>1 DEF CounterInv, CounterRun, CounterMark
<1> QED BY <1>3, <1>5, <1>6, <1>7, <1>8, <1>9 DEF IInv

\* A step that moves no variable keeps the invariant.
LEMMA StutterInv ==
  ASSUME IInv, UNCHANGED vars
  PROVE  IInv'
<1>1. LockStep
  BY DEF IInv, TypeInv, TypeOK, vars, LockStep, Lock, edited, placed, history
<1>2. AnyStep BY <1>1 DEF AnyStep
<1> QED BY <1>2, TypeStep, RunStep, SlotStep, LegacyStep, SnapStep, CounterStep, LockKept DEF IInv

\* The invariant holds throughout.
LEMMA Invariance == Spec => []IInv
<1>1. Init => IInv BY InitInv
<1>2. IInv /\ [Next]_vars => IInv'
  <2>1. ASSUME IInv, Next PROVE IInv'
    <3>1. AnyStep BY <2>1, Kinds DEF IInv
    <3> QED BY <2>1, <3>1, TypeStep, RunStep, SlotStep, LegacyStep, SnapStep, CounterStep, LockKept
            DEF IInv
  <2> QED BY <2>1, StutterInv
<1> QED BY <1>1, <1>2, PTL DEF Spec

\* Every state is well typed: no counter passes the edits made, no slot, run or
\* redeploy transaction names a row outside the table.
THEOREM ConfigRedeployTypeCorrect == Spec => []TypeOK
<1>1. IInv => TypeOK BY DEF IInv, TypeInv
<1> QED BY <1>1, Invariance, PTL

\* The serving deployment of a settled application is the one a redeploy compares with.
LEMMA SettledCandidate ==
  ASSUME IInv, NEW a \in Apps, Settled(a)
  PROVE  LET d == slots[a].active
         IN  /\ d \in Ids /\ d # 0 /\ InSlot(a, d) /\ d \in Nat
             /\ GetApplicationConfigurationRedeployCandidate(a) = d
<1>1. slots[a].active \in Nat BY DEF IInv, TypeInv, TypeOK
<1>2. slots[a].active # 0 /\ rows[slots[a].active].status = "succeeded" BY DEF Settled
<1>3. InSlot(a, slots[a].active) BY <1>2 DEF InSlot
<1>4. slots[a].active \in Ids /\ rows[slots[a].active].app = a
  BY <1>1, <1>3 DEF IInv, SlotInv
<1>5. slots[a].active \in Succeeded(a) BY <1>2, <1>4 DEF Succeeded
<1> QED BY <1>1, <1>2, <1>3, <1>4, <1>5 DEF GetApplicationConfigurationRedeployCandidate

\* The "redeploy required" flag of a service whose serving deployment nobody edited
\* under is right, through rollbacks, failed runs and edits that are taken back: with
\* a snapshot exactly, and by the counters it at least hides nothing.
THEOREM FlagIsTrue == Spec => []FlagFollowsDrift
<1>1. IInv => FlagFollowsDrift
  <2>1. SUFFICES ASSUME IInv, NEW a \in Apps, Settled(a), slots[a].active \notin touched
                 PROVE  LET d == slots[a].active
                        IN  IF rows[d].snapshot = NoState
                              THEN CountersKept(a) /\ ConfigurationState(a) # ran[d] =>
                                     RedeployRequired(a)
                              ELSE RedeployRequired(a) <=> ConfigurationState(a) # ran[d]
    BY DEF FlagFollowsDrift
  <2> DEFINE d == slots[a].active
  <2>2. /\ d \in Ids /\ d # 0 /\ InSlot(a, d) /\ d \in Nat
        /\ GetApplicationConfigurationRedeployCandidate(a) = d
    BY <2>1, SettledCandidate
  <2>3. d \notin touched BY <2>1
  <2> HIDE DEF d
  <2>4. CASE rows[d].snapshot # NoState
    <3>1. ran[d] = rows[d].snapshot BY <2>1, <2>2, <2>3, <2>4 DEF IInv, SnapInv
    <3>2. RedeployRequired(a) <=> ConfigurationState(a) # rows[d].snapshot
      BY <2>2, <2>4 DEF RedeployRequired
    <3> QED BY <2>4, <3>1, <3>2 DEF d
  <2>5. CASE rows[d].snapshot = NoState
    <3>1. SUFFICES ASSUME marked[a] = 0, ConfigurationState(a) # ran[d] PROVE RedeployRequired(a)
      BY <2>5 DEF CountersKept, d
    <3>2. ran[d] = Initially /\ deployed[a] = [rev |-> 0, projectRev |-> 0]
      BY <2>1, <2>2, <2>5, <3>1 DEF IInv, LegacyInv
    <3>3. rev[a] # 0 \/ projectRev # 0
      <4>1. SUFFICES ASSUME rev[a] = 0, projectRev = 0 PROVE FALSE OBVIOUS
      <4>2. config[a] = Default /\ project = NoConfig BY <2>1, <4>1 DEF IInv, LegacyInv
      <4>3. ConfigurationState(a) = Initially BY <4>2 DEF ConfigurationState, Initially, Default
      <4> QED BY <3>1, <3>2, <4>3
    <3>4. rev[a] \in Nat /\ projectRev \in Nat BY <2>1 DEF IInv, TypeInv, TypeOK
    <3>5. rev[a] > deployed[a].rev \/ projectRev > deployed[a].projectRev BY <3>2, <3>3, <3>4
    <3> QED BY <2>2, <2>5, <3>5 DEF RedeployRequired
  <2> QED BY <2>4, <2>5 DEF d
<1> QED BY <1>1, Invariance, PTL

\* The revision counters never run ahead of what the marking run read, although it
\* loads them in one statement and the variables in two later ones.
THEOREM CountersAreHonest == Spec => []CountersNeverAhead
<1>1. IInv => CountersNeverAhead
  BY DEF IInv, CounterInv, CounterMark, CountersNeverAhead
<1> QED BY <1>1, Invariance, PTL

\* A configuration redeploy with unchanged repository and branch carries the artifact
\* that serves traffic when the row is inserted, whatever happened since the request.
THEOREM RedeploysKeepArtifact == Spec => RedeployKeepsArtifact
<1>1. ASSUME IInv, NEW a \in Apps, RedeployInsert(a), Settled(a),
             ~SourceChanged(a, slots[a].active)
      PROVE  rows'[Len(rows')].artifact = rows[host[a].active].artifact
  <2> DEFINE d == slots[a].active
             row == [app |-> a, trigger |-> "redeploy", status |-> "queued",
                     snapshot |-> ConfigurationState(a), artifact |-> rows[d].artifact]
  <2>1. GetApplicationConfigurationRedeployCandidate(a) = d /\ d \in Ids
    BY <1>1, SettledCandidate
  <2>2. lock[a].from = d BY <1>1, <2>1 DEF IInv, LockInv, RedeployInsert
  <2>3. host[a].active = d BY <1>1 DEF Settled
  <2>4. rows' = Append(rows, row)
    BY <1>1, <2>2 DEF RedeployInsert, CreateDeployment, ConfigurationRedeployInput
  <2>5. rows \in Seq(Row) BY <1>1 DEF IInv, TypeInv, TypeOK, Row
  <2>6. row.artifact = rows[d].artifact OBVIOUS
  <2> HIDE DEF d, row
  <2>7. rows'[Len(rows')] = row BY <2>4, <2>5
  <2> QED BY <2>3, <2>6, <2>7
<1>2. IInv => [\A a \in Apps : RedeployInsert(a) /\ Settled(a) /\ ~SourceChanged(a, slots[a].active) =>
                 rows'[Len(rows')].artifact = rows[host[a].active].artifact]_vars
  BY <1>1
<1> QED BY <1>2, Invariance, PTL DEF RedeployKeepsArtifact
=============================================================================
