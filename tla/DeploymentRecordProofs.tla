----------------------- MODULE DeploymentRecordProofs -----------------------
(* What a deployment leaves to be read: its row with the commit and images it *)
(* was built from (DeploymentArtifact), and its log (LogStream).              *)
EXTENDS DeploymentArtifact, LogStream, FiniteSetTheorems, SequenceTheorems,
        WellFoundedInduction, TLAPS

(***************************************************************************)
(* Proofs about DeploymentArtifact, for any commits, images, requests,     *)
(* deployments and faults.  A row is followed from its creation to the     *)
(* slot it makes active:                                                   *)
(*                                                                         *)
(*   RowInv       the row in progress and the one the worker runs          *)
(*   BuildInv     the commit in the tree, on the row, in the images and    *)
(*                in the containers, and the name the slot gives these     *)
(*   RetryInv     a row and the row it retries                             *)
(*   ColorInv     at most one color is active and at most one stands by    *)
(*   RollbackInv  the identity on a rollback row is that of the standby    *)
(***************************************************************************)

\* What the rows and the slots are made of, and the steps of the worker.
Statuses == {"queued", "running", "succeeded", "failed", "cancelled"}
Row == [trigger: {"manual", "retry", "rollback"}, commit: Commits \cup {NoRef},
        image: Refs \cup {NoRef}, of: 0 .. MaxDeployments, status: Statuses]
Slot == [ref: Refs \cup {NoRef}, status: {"none", "standby", "active"}]
PCs == {"idle", "sync", "resolve", "start", "slot", "rollback", "activate"}

\* The types.
TypeInv ==
    /\ head \in Commits /\ tree \in Commits \cup {NoRef}
    /\ deps \in Seq(Row) /\ Len(deps) <= MaxDeployments
    /\ slots \in [Colors -> Slot]
    /\ \A c \in Colors : slots[c].status # "none" => slots[c].ref \in Refs
    /\ containers \in [Colors -> Refs \cup {NoRef}]
    /\ pc \in PCs /\ color \in Colors /\ cur \in 0 .. Len(deps)
    /\ asked \in [Requests -> Refs \cup {NoRef}]
    /\ built \in [1 .. MaxDeployments -> Commits \cup {NoRef}]
    /\ pulled \in [1 .. MaxDeployments -> Refs \cup {NoRef}]
    /\ switched \in [1 .. MaxDeployments -> Refs \cup {NoRef}]
    /\ posting \subseteq 1 .. Len(deps) /\ restores \subseteq 1 .. Len(deps)
    /\ stale \subseteq 1 .. MaxDeployments /\ early \subseteq 1 .. MaxDeployments

\* Only the last row is in progress, and the row the worker runs fits its step.  That
\* row may have been marked failed, and others may have been inserted after it.
RowInv ==
    /\ \A i \in 1 .. d : i # d => deps[i].status \notin {"queued", "running"}
    /\ pc # "idle" => cur > 0 /\ Dep.status \in {"running", "failed"}
    /\ pc = "rollback" => Dep.trigger = "rollback"
    /\ pc \in {"sync", "resolve", "start", "slot"} => Dep.trigger # "rollback"

\* The commit of a source deployment, from the checkout to the containers and the slot.
BuildInv ==
    /\ \A i \in 1 .. MaxDeployments : i > d => built[i] = NoRef /\ pulled[i] = NoRef
    /\ \A i \in 1 .. d :
         /\ built[i] # NoRef => /\ deps[i].image = NoRef /\ deps[i].commit = built[i]
                                /\ deps[i].trigger # "rollback"
         /\ pulled[i] \in {NoRef, deps[i].image}
         /\ built[i] # NoRef /\ deps[i].status = "succeeded" => switched[i] = built[i]
    /\ pc = "resolve" => tree \in Commits /\ Dep.commit \in {NoRef, tree}
    /\ pc = "start" /\ Dep.image = NoRef => tree \in Commits /\ Dep.commit = tree
    /\ pc = "slot" => containers[color] \in Refs /\ containers[color] = slotRollbackRef
    /\ pc \in {"slot", "activate"} /\ built[cur] # NoRef => containers[color] = built[cur]
    /\ \A c \in Colors \ mislabelled : slots[c].ref = containers[c]

\* What a retry took over is still on both rows.
RetryInv ==
    \A i \in 1 .. d : deps[i].of > 0 =>
        LET source == deps[deps[i].of]
        IN  /\ deps[i].of \in 1 .. d /\ deps[i].of < i
            /\ deps[i].image = source.image
            /\ source.commit # NoRef /\ i \notin early => deps[i].commit = source.commit
            /\ pc # "idle" /\ cur = deps[i].of => i \in early

\* The colors, and the one the worker has chosen.
ColorInv ==
    /\ ~(slots["blue"].status = "active" /\ slots["green"].status = "active")
    /\ slots["green"].status # "none" =>
         slots["blue"].status = "active" \/ slots["green"].status = "active"
    /\ pc \in {"sync", "resolve", "start", "slot"} =>
         color = IF slots["blue"].status = "active" THEN "green" ELSE "blue"
    /\ pc = "activate" => slots[color].status = "standby"

\* From the insert of a rollback row to the switch.
Standby(ref) == \E c \in Colors : slots[c].status = "standby" /\ slots[c].ref = ref
RollbackInv ==
    \A i \in restores :
        /\ deps[i].trigger = "rollback"
        /\ i \notin stale =>
             /\ deps[i].status = "queued" => pc = "idle" /\ Standby(deps[i].image)
             /\ pc = "rollback" /\ cur = i => Standby(deps[i].image)
             /\ pc = "activate" /\ cur = i => slots[color].ref = deps[i].image
             /\ deps[i].status = "succeeded" => switched[i] = deps[i].image

-----------------------------------------------------------------------------
(* What each kind of step does to the rows.                                *)

others == <<head, slots, tree, containers, mislabelled, pc, cur, color, built, pulled, switched>>

\* A request inserts a row.
CreateStep(row) ==
    /\ row \in Row /\ row.status = "queued"
    /\ ~InProgress /\ d < MaxDeployments
    /\ deps' = Append(deps, row)
    /\ asked' \in [Requests -> Refs \cup {NoRef}]
    /\ posting' = posting \cup {d + 1}
    /\ restores \subseteq restores' /\ restores' \subseteq restores \cup {d + 1}
    /\ stale \subseteq stale' /\ stale' \subseteq 1 .. MaxDeployments
    /\ early \subseteq early' /\ early' \subseteq 1 .. MaxDeployments
    /\ d + 1 \in restores' =>
         /\ row.trigger = "rollback"
         /\ d + 1 \notin stale' => pc = "idle" /\ Standby(row.image)
    /\ row.of > 0 => /\ row.of \in 1 .. d
                     /\ row.image = deps[row.of].image /\ row.commit = deps[row.of].commit
                     /\ pc # "idle" /\ cur = row.of => d + 1 \in early'
    /\ UNCHANGED others

\* The branch moves, or a rollback request is read or refused.
QuietStep ==
    /\ head' \in Commits /\ asked' \in [Requests -> Refs \cup {NoRef}]
    /\ UNCHANGED <<deps, slots, tree, containers, mislabelled, pc, cur, color, posting,
                   built, pulled, switched, restores, stale, early>>

\* Row i gets another status, or its commit.
RowTo(i, status, commit) ==
    /\ i \in 1 .. d /\ d \in Nat /\ d' = d /\ d <= MaxDeployments
    /\ deps' \in Seq(Row)
    /\ \A j \in 1 .. d : j # i => deps'[j] = deps[j]
    /\ deps'[i].status = status /\ deps'[i].commit = commit
    /\ deps'[i].trigger = deps[i].trigger /\ deps'[i].image = deps[i].image
    /\ deps'[i].of = deps[i].of

\* A request ends a row.
MarkStep(i) ==
    /\ \/ RowTo(i, "failed", deps[i].commit)
       \/ RowTo(i, "cancelled", deps[i].commit) /\ deps[i].status = "queued"
    /\ posting' \subseteq posting
    /\ UNCHANGED others /\ UNCHANGED <<asked, restores, stale, early>>

Starts == StartDeployment /\ RowTo(d, "running", Latest.commit)
Resolves ==
    /\ resolveSourceCommit
    /\ RowTo(cur, Dep.status, SetDeploymentCommitSHA)
Completes == complete /\ RowTo(cur, "succeeded", Dep.commit)
Fails ==
    /\ DeploymentFails
    /\ \E commit \in Commits \cup {NoRef} :
         RowTo(cur, "failed", commit) /\ (Dep.commit # NoRef => commit = Dep.commit)

AnyStep ==
    \/ \E row \in Row : CreateStep(row)
    \/ QuietStep
    \/ \E i \in 1 .. d : MarkStep(i)
    \/ Starts \/ SyncRepository \/ Resolves \/ StartColor \/ upsertSlot \/ loadRollbackSlot
    \/ Completes
    \/ Fails

\* The fields of a row.
LEMMA RowFields ==
    ASSUME TypeInv, NEW i \in 1 .. d
    PROVE  /\ deps[i] \in Row /\ deps[i].status \in Statuses
           /\ deps[i].commit \in Commits \cup {NoRef} /\ deps[i].image \in Refs \cup {NoRef}
           /\ deps[i].of \in Nat /\ i \in 1 .. MaxDeployments
<1>1. deps[i] \in Row BY DEF TypeInv, d
<1>2. d \in Nat /\ d <= MaxDeployments /\ MaxDeployments \in Nat BY RefAssumption DEF TypeInv, d
<1> QED BY <1>1, <1>2 DEF Row

\* A row is appended.
LEMMA AppendFacts ==
    ASSUME TypeInv, NEW row \in Row, CreateStep(row)
    PROVE  /\ deps' \in Seq(Row) /\ d' = d + 1 /\ d \in Nat /\ d' <= MaxDeployments
           /\ \A i \in 1 .. d : deps'[i] = deps[i] /\ i \in 1 .. d' /\ i # d'
           /\ deps'[d'] = row
           /\ \A i \in 1 .. d' : i \in 1 .. d \/ i = d'
<1>1. deps \in Seq(Row) /\ deps' = Append(deps, row) /\ d \in Nat /\ MaxDeployments \in Nat
  BY RefAssumption DEF TypeInv, CreateStep, d
<1>2. /\ deps' \in Seq(Row) /\ Len(deps') = Len(deps) + 1
      /\ \A i \in 1 .. Len(deps) : deps'[i] = deps[i]
      /\ deps'[Len(deps) + 1] = row
  BY <1>1
<1>3. d' = d + 1 BY <1>2 DEF d
<1>4. d' <= MaxDeployments BY <1>1, <1>3 DEF CreateStep
<1>5. \A i \in 1 .. d : deps'[i] = deps[i] BY <1>2 DEF d
<1>6. deps'[d'] = row BY <1>2, <1>3 DEF d
<1>7. \A n \in Nat : \A i \in 1 .. n : i \in 1 .. (n + 1) /\ i # n + 1 OBVIOUS
<1>8. \A n \in Nat : \A i \in 1 .. (n + 1) : i \in 1 .. n \/ i = n + 1 OBVIOUS
<1>9. \A i \in 1 .. d : i \in 1 .. d' /\ i # d' BY <1>1, <1>3, <1>7
<1>10. \A i \in 1 .. d' : i \in 1 .. d \/ i = d' BY <1>1, <1>3, <1>8
<1> QED BY <1>1, <1>2, <1>3, <1>4, <1>5, <1>6, <1>9, <1>10

\* Another record for a row.
LEMMA RowFacts ==
    ASSUME TypeInv, NEW i \in 1 .. d, NEW row \in Row, deps' = [deps EXCEPT ![i] = row],
           row.trigger = deps[i].trigger, row.image = deps[i].image, row.of = deps[i].of
    PROVE  RowTo(i, row.status, row.commit)
<1>1. deps \in Seq(Row) /\ d = Len(deps) /\ d \in Nat /\ d <= MaxDeployments
  BY RefAssumption DEF TypeInv, d
<1>2. deps' \in Seq(Row) /\ Len(deps') = Len(deps) /\ deps'[i] = row
      /\ \A j \in 1 .. d : j # i => deps'[j] = deps[j]
  BY <1>1
<1>3. d' = d BY <1>1, <1>2 DEF d
<1> QED BY <1>1, <1>2, <1>3 DEF RowTo

\* Its status and its commit.
LEMMA RowStatus ==
    ASSUME TypeInv, NEW i \in 1 .. d, NEW st \in Statuses, NEW c \in Commits \cup {NoRef}
    PROVE  /\ deps' = [deps EXCEPT ![i] = [@ EXCEPT !.commit = c, !.status = st]] => RowTo(i, st, c)
           /\ deps' = [deps EXCEPT ![i].status = st] => RowTo(i, st, deps[i].commit)
           /\ deps' = [deps EXCEPT ![i].commit = c] => RowTo(i, deps[i].status, c)
<1>1. deps[i] \in Row BY RowFields
<1>2. ASSUME deps' = [deps EXCEPT ![i].status = st] PROVE RowTo(i, st, deps[i].commit)
  <2> DEFINE row == [deps[i] EXCEPT !.status = st]
  <2>1. row \in Row BY <1>1 DEF Row
  <2>2. row.status = st /\ row.commit = deps[i].commit /\ row.trigger = deps[i].trigger
        /\ row.image = deps[i].image /\ row.of = deps[i].of
    BY <1>1 DEF Row
  <2>3. deps' = [deps EXCEPT ![i] = row] BY <1>2
  <2> HIDE DEF row
  <2>4. RowTo(i, row.status, row.commit) BY <2>1, <2>2, <2>3, RowFacts
  <2> QED BY <2>2, <2>4
<1>3. ASSUME deps' = [deps EXCEPT ![i].commit = c] PROVE RowTo(i, deps[i].status, c)
  <2> DEFINE row == [deps[i] EXCEPT !.commit = c]
  <2>1. row \in Row BY <1>1 DEF Row
  <2>2. row.status = deps[i].status /\ row.commit = c /\ row.trigger = deps[i].trigger
        /\ row.image = deps[i].image /\ row.of = deps[i].of
    BY <1>1 DEF Row
  <2>3. deps' = [deps EXCEPT ![i] = row] BY <1>3
  <2> HIDE DEF row
  <2>4. RowTo(i, row.status, row.commit) BY <2>1, <2>2, <2>3, RowFacts
  <2> QED BY <2>2, <2>4
<1>4. ASSUME deps' = [deps EXCEPT ![i] = [@ EXCEPT !.commit = c, !.status = st]] PROVE RowTo(i, st, c)
  <2> DEFINE row == [deps[i] EXCEPT !.commit = c, !.status = st]
  <2>1. row \in Row BY <1>1 DEF Row
  <2>2. row.status = st /\ row.commit = c /\ row.trigger = deps[i].trigger
        /\ row.image = deps[i].image /\ row.of = deps[i].of
    BY <1>1 DEF Row
  <2>3. deps' = [deps EXCEPT ![i] = row] BY <1>4
  <2> HIDE DEF row
  <2>4. RowTo(i, row.status, row.commit) BY <2>1, <2>2, <2>3, RowFacts
  <2> QED BY <2>2, <2>4
<1> QED BY <1>2, <1>3, <1>4

\* The row of a worker at work.
LEMMA AtWork ==
    ASSUME TypeInv, RowInv, pc # "idle"
    PROVE  /\ cur \in 1 .. d /\ cur \in 1 .. MaxDeployments /\ d \in Nat
           /\ Dep \in Row /\ Dep.status \in {"running", "failed"}
           /\ Dep.commit \in Commits \cup {NoRef} /\ Dep.image \in Refs \cup {NoRef}
<1>1. cur > 0 /\ Dep.status \in {"running", "failed"} /\ cur \in 0 .. d /\ d \in Nat
  BY DEF RowInv, TypeInv, d
<1>2. cur \in 1 .. d BY <1>1
<1> QED BY <1>1, <1>2, RowFields DEF Dep

\* Every request that inserts a row inserts such a row.
LEMMA Creates ==
    ASSUME TypeInv, RowInv,
           \/ \E trigger \in {"manual", "rollback"}, commit \in Commits \cup {NoRef},
                image \in Images \cup {NoRef} : createDeployment(trigger, commit, image)
           \/ \E s \in DOMAIN deps : retryDeployment(s)
           \/ \E r \in Requests : CreateRollback(r)
    PROVE  \E row \in Row : CreateStep(row)
<1> USE RefAssumption
<1>t. /\ asked \in [Requests -> Refs \cup {NoRef}] /\ stale \subseteq 1 .. MaxDeployments
      /\ early \subseteq 1 .. MaxDeployments /\ restores \subseteq 1 .. d
      /\ DOMAIN deps = 1 .. d /\ d \in Nat /\ MaxDeployments \in Nat
  BY DEF TypeInv, d
<1>f. d + 1 \notin restores BY <1>t
<1>q. "queued" \in Statuses BY DEF Statuses
<1>o. ASSUME UNCHANGED <<host, work, ghosts, head>> PROVE UNCHANGED others
  BY <1>o DEF host, work, ghosts, others
<1>1. ASSUME NEW trigger \in {"manual", "rollback"}, NEW commit \in Commits \cup {NoRef},
             NEW image \in Images \cup {NoRef}, createDeployment(trigger, commit, image)
      PROVE  \E row \in Row : CreateStep(row)
  <2> DEFINE row == [trigger |-> trigger, commit |-> commit, image |-> image, of |-> 0,
                     status |-> "queued"]
  <2>1. row \in Row /\ row.status = "queued" /\ row.of = 0 BY <1>q, <1>t DEF Row, Refs
  <2>2. /\ CreateDeployment(trigger, commit, image, 0)
        /\ UNCHANGED <<asked, restores, stale, early>>
    BY <1>1 DEF createDeployment, asides
  <2>3. /\ ~InProgress /\ d < MaxDeployments /\ deps' = Append(deps, row)
        /\ posting' = posting \cup {d + 1} /\ UNCHANGED <<host, work, ghosts, head>>
    BY <2>2 DEF CreateDeployment
  <2>4. UNCHANGED others BY <1>o, <2>3
  <2> HIDE DEF row
  <2>5. CreateStep(row) BY <1>f, <1>t, <2>1, <2>2, <2>3, <2>4 DEF CreateStep
  <2> QED BY <2>1, <2>5
<1>2. ASSUME NEW s \in DOMAIN deps, retryDeployment(s)
      PROVE  \E row \in Row : CreateStep(row)
  <2> DEFINE row == [trigger |-> "retry", commit |-> deps[s].commit, image |-> deps[s].image,
                     of |-> s, status |-> "queued"]
  <2>1. s \in 1 .. d BY <1>t
  <2>2. row \in Row /\ row.status = "queued" /\ row.of = s /\ row.image = deps[s].image
        /\ row.commit = deps[s].commit
    <3>1. s \in 0 .. MaxDeployments /\ deps[s].commit \in Commits \cup {NoRef}
          /\ deps[s].image \in Refs \cup {NoRef}
      BY <1>t, <2>1, RowFields
    <3> QED BY <1>q, <3>1 DEF Row
  <2>3. CreateDeployment("retry", deps[s].commit, deps[s].image, s)
        /\ UNCHANGED <<asked, restores, stale>>
        /\ early' = IF pc # "idle" /\ cur = s THEN early \cup {d + 1} ELSE early
    BY <1>2 DEF retryDeployment
  <2>4. /\ ~InProgress /\ d < MaxDeployments /\ deps' = Append(deps, row)
        /\ posting' = posting \cup {d + 1} /\ UNCHANGED <<host, work, ghosts, head>>
    BY <2>3 DEF CreateDeployment
  <2>5. UNCHANGED others BY <1>o, <2>4
  <2>6. /\ early \subseteq early' /\ early' \subseteq 1 .. MaxDeployments
        /\ pc # "idle" /\ cur = s => d + 1 \in early'
    BY <1>t, <2>3, <2>4
  <2> HIDE DEF row
  <2>7. CreateStep(row) BY <1>f, <1>t, <2>1, <2>2, <2>3, <2>4, <2>5, <2>6 DEF CreateStep
  <2> QED BY <2>2, <2>7
<1>3. ASSUME NEW r \in Requests, CreateRollback(r)
      PROVE  \E row \in Row : CreateStep(row)
  <2> DEFINE row == [trigger |-> "rollback", commit |-> NoRef, image |-> asked[r], of |-> 0,
                     status |-> "queued"]
  <2>1. asked[r] \in Refs \cup {NoRef} BY <1>t
  <2>2. row \in Row /\ row.status = "queued" /\ row.of = 0 /\ row.trigger = "rollback"
        /\ row.image = asked[r]
    BY <1>q, <1>t, <2>1 DEF Row
  <2>3. /\ CreateDeployment("rollback", NoRef, asked[r], 0)
        /\ asked' = [asked EXCEPT ![r] = NoRef]
        /\ restores' = restores \cup {d + 1} /\ UNCHANGED early
    BY <1>3 DEF CreateRollback
  <2>4. asked' \in [Requests -> Refs \cup {NoRef}] BY <1>t, <2>3
  <2>5. /\ ~InProgress /\ d < MaxDeployments /\ deps' = Append(deps, row)
        /\ posting' = posting \cup {d + 1} /\ UNCHANGED <<host, work, ghosts, head>>
    BY <2>3 DEF CreateDeployment
  <2>6. UNCHANGED others BY <1>o, <2>5
  <2>7. d + 1 \in 1 .. MaxDeployments BY <1>t, <2>5
  <2>8. /\ stale \subseteq stale' /\ stale' \subseteq 1 .. MaxDeployments
        /\ d + 1 \notin stale' => pc = "idle" /\ Standby(asked[r])
    BY <1>t, <1>3, <2>7 DEF CreateRollback, GetStandbyDeploymentSlot, Standby
  <2> HIDE DEF row
  <2>9. CreateStep(row)
    BY <1>t, <2>2, <2>3, <2>4, <2>5, <2>6, <2>8 DEF CreateStep
  <2> QED BY <2>2, <2>9
<1> QED BY <1>1, <1>2, <1>3

\* Every step is of one of these kinds.
LEMMA Kinds ==
    ASSUME TypeInv, RowInv, BuildInv, Next
    PROVE  AnyStep
<1> USE RefAssumption
<1>t. /\ asked \in [Requests -> Refs \cup {NoRef}] /\ head \in Commits /\ slots \in [Colors -> Slot]
      /\ tree \in Commits \cup {NoRef} /\ d \in Nat /\ posting \subseteq 1 .. d
  BY DEF TypeInv, d
<1>s. Statuses = {"queued", "running", "succeeded", "failed", "cancelled"} BY DEF Statuses
<1>n. NoRef \in Commits \cup {NoRef} OBVIOUS
<1>1. ASSUME NEW r \in Requests, rollbackApplication(r) PROVE QuietStep
  <2>1. PICK c \in Colors : slots[c].ref # NoRef /\ asked' = [asked EXCEPT ![r] = slots[c].ref]
    BY <1>1 DEF rollbackApplication, GetStandbyDeploymentSlot
  <2>2. slots[c].ref \in Refs \cup {NoRef} BY <1>t DEF Slot
  <2> QED BY <1>1, <1>t, <2>1, <2>2 DEF rollbackApplication, QuietStep, host, work, ghosts, asides
<1>2. ASSUME NEW r \in Requests, RollbackRefused(r) PROVE QuietStep
  BY <1>2, <1>t DEF RollbackRefused, QuietStep, host, work, ghosts, asides
<1>3. ASSUME BranchMoves PROVE QuietStep
  <2>1. head + 1 \in Commits BY <1>3, <1>t DEF BranchMoves, Commits
  <2> QED BY <1>3, <1>t, <2>1 DEF BranchMoves, QuietStep, host, work, ghosts, asides
<1>4. ASSUME cancelDeployment PROVE \E i \in 1 .. d : MarkStep(i)
  <2>1. d \in 1 .. d /\ deps[d].status = "queued" BY <1>4, <1>t DEF cancelDeployment, Latest
  <2>2. RowTo(d, "cancelled", deps[d].commit) BY <1>4, <1>n, <1>s, <2>1, RowStatus DEF cancelDeployment
  <2>3. UNCHANGED others /\ UNCHANGED <<asked, restores, stale, early, posting>>
    BY <1>4 DEF cancelDeployment, host, work, ghosts, asides, others
  <2>4. MarkStep(d) BY <2>1, <2>2, <2>3 DEF MarkStep
  <2> QED BY <2>1, <2>4
<1>4e. ASSUME NEW i \in posting, EnqueueFails(i) PROVE \E j \in 1 .. d : MarkStep(j)
  <2>1. i \in 1 .. d BY <1>t
  <2>2. RowTo(i, "failed", deps[i].commit) BY <1>4e, <1>n, <1>s, <2>1, RowStatus DEF EnqueueFails
  <2>3. UNCHANGED others /\ UNCHANGED <<asked, restores, stale, early>> /\ posting' \subseteq posting
    BY <1>4e DEF EnqueueFails, host, work, ghosts, asides, others
  <2>4. MarkStep(i) BY <2>1, <2>2, <2>3 DEF MarkStep
  <2> QED BY <2>1, <2>4
<1>5. ASSUME StartDeployment PROVE Starts
  <2>1. d \in 1 .. d BY <1>5, <1>t DEF StartDeployment
  <2>2. RowTo(d, "running", deps[d].commit) BY <1>5, <1>n, <1>s, <2>1, RowStatus DEF StartDeployment
  <2> QED BY <1>5, <2>2 DEF Starts, Latest
<1>6. ASSUME resolveSourceCommit PROVE Resolves
  <2>1. pc # "idle" BY <1>6 DEF resolveSourceCommit, Step
  <2>2. cur \in 1 .. d /\ Dep.commit \in Commits \cup {NoRef} BY <2>1, AtWork
  <2> DEFINE c == SetDeploymentCommitSHA
  <2>3. c \in Commits \cup {NoRef} BY <1>t, <2>2 DEF SetDeploymentCommitSHA
  <2>4. deps' = [deps EXCEPT ![cur].commit = c] BY <1>6 DEF resolveSourceCommit
  <2> HIDE DEF c
  <2>5. RowTo(cur, Dep.status, c) BY <1>s, <2>2, <2>3, <2>4, RowStatus DEF Dep
  <2> QED BY <1>6, <2>5 DEF Resolves, c
<1>7. ASSUME complete PROVE Completes
  <2>1. pc # "idle" BY <1>7 DEF complete, Step
  <2>2. cur \in 1 .. d BY <2>1, AtWork
  <2>3. RowTo(cur, "succeeded", Dep.commit) BY <1>7, <1>n, <1>s, <2>2, RowStatus DEF complete, Dep
  <2> QED BY <1>7, <2>3 DEF Completes
<1>8. ASSUME DeploymentFails PROVE Fails
  <2>1. pc # "idle" BY <1>8 DEF DeploymentFails
  <2>2. cur \in 1 .. d /\ Dep.commit \in Commits \cup {NoRef} BY <2>1, AtWork
  <2>3. PICK c \in {Dep.commit} \cup (IF pc = "resolve" THEN {SetDeploymentCommitSHA} ELSE {}) :
               deps' = [deps EXCEPT ![cur] = [@ EXCEPT !.commit = c, !.status = "failed"]]
    BY <1>8 DEF DeploymentFails
  <2>4. c \in Commits \cup {NoRef} /\ (Dep.commit # NoRef => c = Dep.commit)
    BY <1>t, <2>2 DEF SetDeploymentCommitSHA
  <2>5. RowTo(cur, "failed", c) BY <1>s, <2>2, <2>3, <2>4, RowStatus
  <2> QED BY <1>8, <2>4, <2>5 DEF Fails
<1>9. ASSUME \/ \E trigger \in {"manual", "rollback"}, commit \in Commits \cup {NoRef},
                  image \in Images \cup {NoRef} : createDeployment(trigger, commit, image)
             \/ \E s \in DOMAIN deps : retryDeployment(s)
             \/ \E r \in Requests : CreateRollback(r)
      PROVE  \E row \in Row : CreateStep(row)
  BY <1>9, Creates
<1> QED BY <1>1, <1>2, <1>3, <1>4, <1>4e, <1>5, <1>6, <1>7, <1>8, <1>9 DEF Next, Worker, AnyStep

-----------------------------------------------------------------------------
(* The invariants are inductive.                                           *)

\* Activating a slot moves statuses only.
LEMMA Activation ==
    ASSUME slots \in [Colors -> Slot], color \in Colors, ActivateDeploymentSlot
    PROVE  /\ slots' \in [Colors -> Slot]
           /\ \A c \in Colors :
                /\ slots'[c].ref = slots[c].ref
                /\ c = color => slots'[c].status = "active"
                /\ c # color => /\ slots'[c].status # "active"
                                /\ slots'[c].status # "none" => slots[c].status # "none"
<1>1. slots' = [c \in Colors |->
             IF c = color THEN [slots[c] EXCEPT !.status = "active"]
             ELSE IF slots[c].status = "active" THEN [slots[c] EXCEPT !.status = "standby"]
             ELSE slots[c]]
  BY DEF ActivateDeploymentSlot
<1>2. ASSUME NEW c \in Colors
      PROVE  /\ slots'[c] \in Slot /\ slots'[c].ref = slots[c].ref
             /\ c = color => slots'[c].status = "active"
             /\ c # color => /\ slots'[c].status # "active"
                             /\ slots'[c].status # "none" => slots[c].status # "none"
  <2>1. slots[c] \in Slot OBVIOUS
  <2>2. /\ [slots[c] EXCEPT !.status = "active"] \in Slot
        /\ [slots[c] EXCEPT !.status = "standby"] \in Slot
        /\ [slots[c] EXCEPT !.status = "active"].ref = slots[c].ref
        /\ [slots[c] EXCEPT !.status = "standby"].ref = slots[c].ref
        /\ [slots[c] EXCEPT !.status = "active"].status = "active"
        /\ [slots[c] EXCEPT !.status = "standby"].status = "standby"
    BY <2>1 DEF Slot
  <2> QED BY <1>1, <2>1, <2>2
<1>3. slots' \in [Colors -> Slot] BY <1>1, <1>2
<1> QED BY <1>2, <1>3

\* Starting a color builds or pulls for the row at work.
LEMMA Upping ==
    ASSUME TypeInv, RowInv, BuildInv, pc = "start", Up
    PROVE  /\ containers' \in [Colors -> Refs \cup {NoRef}]
           /\ containers'[color] \in Refs /\ containers'[color] = slotRollbackRef
           /\ \A c \in Colors : c # color => containers'[c] = containers[c]
           /\ mislabelled' = mislabelled \cup {color}
           /\ built' \in [1 .. MaxDeployments -> Commits \cup {NoRef}]
           /\ pulled' \in [1 .. MaxDeployments -> Refs \cup {NoRef}]
           /\ \A i \in 1 .. MaxDeployments : i # cur => built'[i] = built[i] /\ pulled'[i] = pulled[i]
           /\ \/ /\ Dep.image = NoRef /\ Dep.commit \in Commits /\ built'[cur] = Dep.commit
                 /\ containers'[color] = built'[cur] /\ pulled'[cur] = pulled[cur]
              \/ /\ Dep.image # NoRef /\ pulled'[cur] = Dep.image /\ built'[cur] = built[cur]
                 /\ built[cur] = NoRef
<1> USE RefAssumption
<1>1. /\ containers \in [Colors -> Refs \cup {NoRef}] /\ color \in Colors
      /\ built \in [1 .. MaxDeployments -> Commits \cup {NoRef}]
      /\ pulled \in [1 .. MaxDeployments -> Refs \cup {NoRef}]
  BY DEF TypeInv
<1>2. /\ cur \in 1 .. d /\ cur \in 1 .. MaxDeployments
      /\ Dep.commit \in Commits \cup {NoRef} /\ Dep.image \in Refs \cup {NoRef}
  BY AtWork
<1>3. Dep.image = NoRef => tree \in Commits /\ Dep.commit = tree BY DEF BuildInv
<1>4. NoRef \notin Commits /\ Commits \subseteq Refs BY DEF Commits, Refs
<1>5. built[cur] # NoRef => Dep.image = NoRef BY <1>2 DEF BuildInv, Dep
<1>6. CASE Dep.image = NoRef
  <2>1. /\ containers' = [containers EXCEPT ![color] = tree] /\ mislabelled' = mislabelled \cup {color}
        /\ built' = [built EXCEPT ![cur] = tree] /\ pulled' = pulled
    BY <1>6 DEF Up, isSourceDeploy
  <2>2. slotRollbackRef = tree BY <1>3, <1>6 DEF slotRollbackRef
  <2> QED BY <1>1, <1>2, <1>3, <1>4, <1>6, <2>1, <2>2
<1>7. CASE Dep.image # NoRef
  <2>1. /\ containers' = [containers EXCEPT ![color] = Dep.image] /\ mislabelled' = mislabelled \cup {color}
        /\ pulled' = [pulled EXCEPT ![cur] = Dep.image] /\ built' = built
    BY <1>7 DEF Up, isSourceDeploy
  <2>2. slotRollbackRef = Dep.image /\ Dep.image \in Refs BY <1>2, <1>7 DEF slotRollbackRef
  <2> QED BY <1>1, <1>2, <1>5, <1>7, <2>1, <2>2
<1> QED BY <1>6, <1>7

\* The slot is given the identity of the containers.
LEMMA Upserting ==
    ASSUME TypeInv, BuildInv, pc = "slot", UpsertSlot
    PROVE  /\ slots' \in [Colors -> Slot]
           /\ slots'[color].ref = containers[color] /\ slots'[color].status = "standby"
           /\ slots'[color].ref \in Refs
           /\ \A c \in Colors : c # color => slots'[c] = slots[c]
           /\ mislabelled' = mislabelled \ {color}
<1> DEFINE new == [ref |-> slotRollbackRef, status |-> "standby"]
<1>1. slots \in [Colors -> Slot] /\ color \in Colors BY DEF TypeInv
<1>2. slotRollbackRef \in Refs /\ slotRollbackRef = containers[color] BY DEF BuildInv
<1>3. new \in Slot /\ new.ref = slotRollbackRef /\ new.status = "standby" BY <1>2 DEF Slot
<1>4. slots' = [slots EXCEPT ![color] = new] /\ mislabelled' = mislabelled \ {color}
  BY DEF UpsertSlot
<1> HIDE DEF new
<1> QED BY <1>1, <1>2, <1>3, <1>4

\* What a run that fails leaves on the host.
FailedHost ==
    \/ pc = "start" /\ Up /\ slots' = slots
    \/ pc = "slot" /\ UpsertSlot /\ UNCHANGED <<containers, built, pulled>>
    \/ pc = "activate" /\ ActivateDeploymentSlot
       /\ UNCHANGED <<containers, mislabelled, built, pulled>>
    \/ UNCHANGED <<slots, containers, mislabelled, built, pulled>>

\* A failed run.
LEMMA Failing ==
    ASSUME Fails
    PROVE  /\ pc # "idle" /\ pc' = "idle" /\ FailedHost
           /\ UNCHANGED <<head, tree, cur, color, asked, posting, switched, restores, stale, early>>
BY DEF Fails, DeploymentFails, FailedHost, asides

\* Types.
LEMMA TypeStep ==
    ASSUME TypeInv, RowInv, BuildInv, ColorInv, AnyStep
    PROVE  TypeInv'
<1> USE RefAssumption
<1>t. /\ head \in Commits /\ tree \in Commits \cup {NoRef}
      /\ deps \in Seq(Row) /\ Len(deps) <= MaxDeployments /\ Len(deps) = d /\ d \in Nat
      /\ slots \in [Colors -> Slot]
      /\ \A c \in Colors : slots[c].status # "none" => slots[c].ref \in Refs
      /\ containers \in [Colors -> Refs \cup {NoRef}]
      /\ pc \in PCs /\ color \in Colors /\ cur \in 0 .. d
      /\ asked \in [Requests -> Refs \cup {NoRef}]
      /\ built \in [1 .. MaxDeployments -> Commits \cup {NoRef}]
      /\ pulled \in [1 .. MaxDeployments -> Refs \cup {NoRef}]
      /\ switched \in [1 .. MaxDeployments -> Refs \cup {NoRef}]
      /\ posting \subseteq 1 .. d /\ restores \subseteq 1 .. d
      /\ stale \subseteq 1 .. MaxDeployments /\ early \subseteq 1 .. MaxDeployments
  BY DEF TypeInv, d
<1>l. ASSUME NEW i, NEW st, NEW c, RowTo(i, st, c)
      PROVE deps' \in Seq(Row) /\ Len(deps') <= MaxDeployments /\ Len(deps') = d
  BY <1>l DEF RowTo, d
<1>p. PCs = {"idle", "sync", "resolve", "start", "slot", "rollback", "activate"} BY DEF PCs
<1>1. ASSUME NEW row \in Row, CreateStep(row) PROVE TypeInv'
  <2>1. deps' \in Seq(Row) /\ Len(deps') <= MaxDeployments /\ Len(deps') = d + 1
    BY <1>1, AppendFacts DEF d
  <2>2. cur \in 0 .. d + 1 /\ posting' \subseteq 1 .. d + 1 /\ restores' \subseteq 1 .. d + 1
    BY <1>1, <1>t DEF CreateStep
  <2> QED BY <1>1, <1>t, <2>1, <2>2 DEF CreateStep, others, TypeInv
<1>2. ASSUME QuietStep PROVE TypeInv'
  BY <1>2, <1>t DEF QuietStep, TypeInv
<1>3. ASSUME NEW i \in 1 .. d, MarkStep(i) PROVE TypeInv'
  <2>1. deps' \in Seq(Row) /\ Len(deps') <= MaxDeployments /\ Len(deps') = d
    BY <1>3, <1>l DEF MarkStep
  <2> QED BY <1>3, <1>t, <2>1 DEF MarkStep, others, TypeInv
<1>4. ASSUME Starts PROVE TypeInv'
  <2>1. color' \in Colors BY <1>4 DEF Starts, StartDeployment, Colors
  <2>2. pc' \in PCs BY <1>4, <1>p DEF Starts, StartDeployment, Step
  <2>3. deps' \in Seq(Row) /\ Len(deps') <= MaxDeployments /\ Len(deps') = d BY <1>4, <1>l DEF Starts
  <2>4. cur' \in 0 .. d BY <1>4, <1>t DEF Starts, StartDeployment
  <2>5. UNCHANGED <<head, slots, tree, containers, asked, posting, built, pulled, switched,
                    restores, stale, early>>
    BY <1>4 DEF Starts, StartDeployment, host, ghosts, asides
  <2> QED BY <1>t, <2>1, <2>2, <2>3, <2>4, <2>5 DEF TypeInv
<1>5. ASSUME SyncRepository PROVE TypeInv'
  <2>1. /\ pc = "sync" /\ pc' = "resolve"
        /\ UNCHANGED <<head, deps, slots, containers, cur, color, asked, posting, built, pulled,
                       switched, restores, stale, early>>
        /\ tree' = IF Dep.commit # NoRef THEN Dep.commit ELSE head
    BY <1>5 DEF SyncRepository, Step, ghosts, asides
  <2>2. Dep.commit \in Commits \cup {NoRef} BY <2>1, AtWork
  <2>3. tree' \in Commits \cup {NoRef} BY <1>t, <2>1, <2>2
  <2>4. pc' \in PCs BY <1>p, <2>1
  <2> QED BY <1>t, <2>1, <2>3, <2>4 DEF TypeInv
<1>6. ASSUME Resolves PROVE TypeInv'
  <2>1. /\ pc' = "start"
        /\ UNCHANGED <<head, slots, tree, containers, cur, color, asked, posting, built, pulled,
                       switched, restores, stale, early>>
    BY <1>6 DEF Resolves, resolveSourceCommit, Step, host, ghosts, asides
  <2>2. pc' \in PCs BY <1>p, <2>1
  <2>3. deps' \in Seq(Row) /\ Len(deps') <= MaxDeployments /\ Len(deps') = d BY <1>6, <1>l DEF Resolves
  <2> QED BY <1>t, <2>1, <2>2, <2>3 DEF TypeInv
<1>7. ASSUME StartColor PROVE TypeInv'
  <2>1. /\ pc = "start" /\ pc' = "slot" /\ Up
        /\ UNCHANGED <<head, deps, slots, tree, cur, color, asked, posting, switched,
                       restores, stale, early>>
    BY <1>7 DEF StartColor, Step, asides
  <2>2. pc' \in PCs BY <1>p, <2>1
  <2> QED BY <1>t, <2>1, <2>2, Upping DEF TypeInv
<1>8. ASSUME upsertSlot PROVE TypeInv'
  <2>1. /\ pc = "slot" /\ pc' = "activate" /\ UpsertSlot
        /\ UNCHANGED <<head, deps, tree, containers, cur, color, asked, posting, built, pulled,
                       switched, restores, stale, early>>
    BY <1>8 DEF upsertSlot, Step, ghosts, asides
  <2>2. slots' \in [Colors -> Slot]
        /\ \A c \in Colors : slots'[c].status # "none" => slots'[c].ref \in Refs
    BY <1>t, <2>1, Upserting
  <2>3. pc' \in PCs BY <1>p, <2>1
  <2> QED BY <1>t, <2>1, <2>2, <2>3 DEF TypeInv
<1>9. ASSUME loadRollbackSlot PROVE TypeInv'
  <2>1. /\ pc' = "activate" /\ color' \in Colors
        /\ UNCHANGED <<head, deps, slots, tree, containers, cur, asked, posting, built, pulled,
                       switched, restores, stale, early>>
    BY <1>9 DEF loadRollbackSlot, Step, GetStandbyDeploymentSlot, host, ghosts, asides
  <2>2. pc' \in PCs BY <1>p, <2>1
  <2> QED BY <1>t, <2>1, <2>2 DEF TypeInv
\* A slot that is active has an identity.
<1>a. ASSUME pc = "activate", ActivateDeploymentSlot
      PROVE  /\ slots' \in [Colors -> Slot]
             /\ \A c \in Colors : slots'[c].status # "none" => slots'[c].ref \in Refs
  <2>1. slots[color].status # "none" BY <1>a DEF ColorInv
  <2> QED BY <1>a, <1>t, <2>1, Activation
<1>10. ASSUME Completes PROVE TypeInv'
  <2>1. /\ pc = "activate" /\ pc' = "idle" /\ ActivateDeploymentSlot
        /\ switched' = [switched EXCEPT ![cur] = containers[color]]
        /\ stale' \subseteq stale \cup {cur}
        /\ UNCHANGED <<head, tree, containers, cur, color, asked, posting, built, pulled,
                       restores, early>>
    BY <1>10 DEF Completes, complete, Step
  <2>2. cur \in 1 .. MaxDeployments BY <2>1, AtWork
  <2>3. switched' \in [1 .. MaxDeployments -> Refs \cup {NoRef}] BY <1>t, <2>1
  <2>4. deps' \in Seq(Row) /\ Len(deps') <= MaxDeployments /\ Len(deps') = d BY <1>10, <1>l DEF Completes
  <2>5. stale' \subseteq 1 .. MaxDeployments BY <1>t, <2>1, <2>2
  <2>6. pc' \in PCs BY <1>p, <2>1
  <2> QED BY <1>a, <1>t, <2>1, <2>3, <2>4, <2>5, <2>6 DEF TypeInv
<1>11. ASSUME Fails PROVE TypeInv'
  <2>1. /\ pc' = "idle" /\ FailedHost
        /\ UNCHANGED <<head, tree, cur, color, asked, posting, switched, restores, stale, early>>
    BY <1>11, Failing
  <2>2. pc' \in PCs BY <1>p, <2>1
  <2>3. deps' \in Seq(Row) /\ Len(deps') <= MaxDeployments /\ Len(deps') = d BY <1>11, <1>l DEF Fails
  <2>4. /\ slots' \in [Colors -> Slot]
        /\ \A c \in Colors : slots'[c].status # "none" => slots'[c].ref \in Refs
        /\ containers' \in [Colors -> Refs \cup {NoRef}]
        /\ built' \in [1 .. MaxDeployments -> Commits \cup {NoRef}]
        /\ pulled' \in [1 .. MaxDeployments -> Refs \cup {NoRef}]
    <3>1. CASE pc = "start" /\ Up /\ slots' = slots BY <1>t, <3>1, Upping
    <3>2. CASE pc = "slot" /\ UpsertSlot /\ UNCHANGED <<containers, built, pulled>>
      BY <1>t, <3>2, Upserting
    <3>3. CASE pc = "activate" /\ ActivateDeploymentSlot
               /\ UNCHANGED <<containers, mislabelled, built, pulled>>
      BY <1>a, <1>t, <3>3
    <3>4. CASE UNCHANGED <<slots, containers, mislabelled, built, pulled>> BY <1>t, <3>4
    <3> QED BY <2>1, <3>1, <3>2, <3>3, <3>4 DEF FailedHost
  <2> QED BY <1>t, <2>1, <2>2, <2>3, <2>4 DEF TypeInv
<1> QED BY <1>1, <1>2, <1>3, <1>4, <1>5, <1>6, <1>7, <1>8, <1>9, <1>10, <1>11 DEF AnyStep

\* Rows and the worker's step.
LEMMA RowStep ==
    ASSUME TypeInv, RowInv, AnyStep
    PROVE  RowInv'
<1> USE RefAssumption
<1>d. d \in Nat /\ cur \in 0 .. d BY DEF TypeInv, d
\* A row changes its status or its commit, and none is put in progress but the last.
<1>l. ASSUME NEW i, NEW st, NEW c, RowTo(i, st, c), i # d => st \notin {"queued", "running"}
      PROVE  /\ d' = d /\ deps'[i].status = st /\ deps'[i].trigger = deps[i].trigger
             /\ \A j \in 1 .. d' : j # d' => deps'[j].status \notin {"queued", "running"}
  BY <1>l DEF RowTo, RowInv
\* The worker's row, when another row or nothing changes.
<1>w. ASSUME UNCHANGED <<pc, cur>>, cur > 0 => deps'[cur].trigger = deps[cur].trigger,
             pc # "idle" => deps'[cur].status \in {"running", "failed"},
             \A i \in 1 .. d' : i # d' => deps'[i].status \notin {"queued", "running"}
      PROVE  RowInv'
  <2>1. Dep' = deps'[cur] BY <1>w DEF Dep
  <2>2. pc # "idle" => cur > 0 BY DEF RowInv
  <2> QED BY <1>w, <2>1, <2>2 DEF RowInv, Dep
<1>1. ASSUME NEW row \in Row, CreateStep(row) PROVE RowInv'
  <2>1. \A i \in 1 .. d : deps[i].status \notin {"queued", "running"}
    <3>1. d \in 1 .. d => deps[d].status \notin {"queued", "running"}
      BY <1>1, <1>d DEF CreateStep, InProgress, Latest
    <3> QED BY <3>1 DEF RowInv
  <2>2. /\ \A i \in 1 .. d' : (i \in 1 .. d /\ deps'[i] = deps[i]) \/ i = d'
        /\ \A i \in 1 .. d : deps'[i] = deps[i]
    BY <1>1, AppendFacts
  <2>3. UNCHANGED <<pc, cur>> BY <1>1 DEF CreateStep, others
  <2>4. cur > 0 => deps'[cur] = deps[cur] BY <1>d, <2>2
  <2>5. pc # "idle" => cur > 0 /\ deps[cur].status \in {"running", "failed"} BY DEF RowInv, Dep
  <2>6. \A i \in 1 .. d' : i # d' => deps'[i].status \notin {"queued", "running"} BY <2>1, <2>2
  <2>7. cur > 0 => deps'[cur].trigger = deps[cur].trigger BY <2>4
  <2>8. pc # "idle" => deps'[cur].status \in {"running", "failed"} BY <2>4, <2>5
  <2> QED BY <1>w, <2>3, <2>6, <2>7, <2>8
<1>2. ASSUME UNCHANGED <<deps, pc, cur>> PROVE RowInv'
  BY <1>2 DEF RowInv, d, Dep
<1>3. ASSUME NEW i \in 1 .. d, MarkStep(i) PROVE RowInv'
  <2>1. PICK st \in {"failed", "cancelled"} :
          RowTo(i, st, deps[i].commit) /\ (st = "cancelled" => deps[i].status = "queued")
    BY <1>3 DEF MarkStep
  <2>2. UNCHANGED <<pc, cur>> BY <1>3 DEF MarkStep, others
  <2>3. /\ \A j \in 1 .. d' : j # d' => deps'[j].status \notin {"queued", "running"}
        /\ deps'[i].status = st
    BY <1>l, <2>1
  <2>4. \A j \in 1 .. d : deps'[j].trigger = deps[j].trigger /\ (j # i => deps'[j] = deps[j])
    BY <2>1 DEF RowTo
  <2>5. cur > 0 => deps'[cur].trigger = deps[cur].trigger BY <1>d, <2>4
  <2>6. pc # "idle" => deps'[cur].status \in {"running", "failed"}
    <3>1. SUFFICES ASSUME pc # "idle" PROVE deps'[cur].status \in {"running", "failed"} OBVIOUS
    <3>2. cur \in 1 .. d /\ deps[cur].status \in {"running", "failed"} BY <3>1, AtWork DEF Dep
    <3>3. CASE cur = i BY <2>1, <2>3, <3>2, <3>3
    <3>4. CASE cur # i BY <2>4, <3>2, <3>4
    <3> QED BY <3>3, <3>4
  <2> QED BY <1>w, <2>2, <2>3, <2>5, <2>6
<1>4. ASSUME Starts PROVE RowInv'
  <2>1. \/ Latest.trigger = "rollback" /\ pc' = "rollback"
        \/ Latest.trigger # "rollback" /\ pc' \in {"sync", "start"}
    BY <1>4 DEF Starts, StartDeployment, Step
  <2>2. cur' = d /\ RowTo(d, "running", Latest.commit) BY <1>4 DEF Starts, StartDeployment
  <2>3. Dep' = deps'[d] /\ d > 0 BY <1>d, <2>2 DEF Dep, RowTo
  <2>4. /\ \A j \in 1 .. d' : j # d' => deps'[j].status \notin {"queued", "running"}
        /\ deps'[d].status = "running" /\ deps'[d].trigger = Latest.trigger
    BY <1>l, <2>2 DEF Latest
  <2> QED BY <2>1, <2>2, <2>3, <2>4 DEF RowInv
<1>5. ASSUME UNCHANGED <<deps, cur>>, pc \in {"sync", "start", "slot", "rollback"},
             pc' \in {"resolve", "slot", "activate"}, pc = "rollback" => pc' = "activate"
      PROVE  RowInv'
  <2>1. d' = d /\ Dep' = Dep BY <1>5 DEF d, Dep
  <2> QED BY <1>5, <2>1 DEF RowInv
<1>6. ASSUME Resolves PROVE RowInv'
  <2>1. pc = "resolve" /\ pc' = "start" /\ cur' = cur
    BY <1>6 DEF Resolves, resolveSourceCommit, Step
  <2>2. Dep.trigger # "rollback" /\ Dep.status \in {"running", "failed"} /\ cur \in 1 .. d
    BY <2>1, AtWork DEF RowInv
  <2>3. Dep' = deps'[cur] BY <2>1 DEF Dep
  <2>4. cur # d => Dep.status \notin {"queued", "running"} BY <2>2 DEF RowInv, Dep
  <2>5. /\ d' = d /\ deps'[cur].status = Dep.status /\ deps'[cur].trigger = Dep.trigger
        /\ \A j \in 1 .. d' : j # d' => deps'[j].status \notin {"queued", "running"}
    BY <1>6, <1>l, <2>4 DEF Resolves, Dep
  <2> QED BY <1>d, <2>1, <2>2, <2>3, <2>5 DEF RowInv
<1>7. ASSUME Completes \/ Fails PROVE RowInv'
  <2>1. pc' = "idle" BY <1>7, Failing DEF Completes, complete, Step
  <2>2. \A j \in 1 .. d' : j # d' => deps'[j].status \notin {"queued", "running"}
    BY <1>7, <1>l DEF Completes, Fails
  <2> QED BY <2>1, <2>2 DEF RowInv
<1>8. ASSUME SyncRepository \/ StartColor \/ upsertSlot \/ loadRollbackSlot PROVE RowInv'
  BY <1>5, <1>8 DEF SyncRepository, StartColor, upsertSlot, loadRollbackSlot, Step
<1>9. ASSUME QuietStep PROVE RowInv' BY <1>2, <1>9 DEF QuietStep
<1> QED BY <1>1, <1>3, <1>4, <1>6, <1>7, <1>8, <1>9 DEF AnyStep

\* Retries.
LEMMA RetryStep ==
    ASSUME TypeInv, RowInv, RetryInv, AnyStep
    PROVE  RetryInv'
<1>d. d \in Nat BY DEF TypeInv, d
<1> DEFINE Ok(i) == LET source == deps[deps[i].of]
                    IN  /\ deps[i].of \in 1 .. d /\ deps[i].of < i
                        /\ deps[i].image = source.image
                        /\ source.commit # NoRef /\ i \notin early => deps[i].commit = source.commit
                        /\ pc # "idle" /\ cur = deps[i].of => i \in early
<1>b. \A i \in 1 .. d : deps[i].of > 0 => Ok(i) BY DEF RetryInv
<1>q. ASSUME \A i \in 1 .. d' : deps'[i].of > 0 => Ok(i)' PROVE RetryInv' BY <1>q DEF RetryInv
<1>1. ASSUME NEW row \in Row, CreateStep(row) PROVE RetryInv'
  <2>1. /\ \A i \in 1 .. d : deps'[i] = deps[i] /\ i \in 1 .. d'
        /\ \A i \in 1 .. d' : i \in 1 .. d \/ i = d'
        /\ deps'[d'] = row /\ d' = d + 1
    BY <1>1, AppendFacts
  <2>2. early \subseteq early' /\ UNCHANGED <<pc, cur>> BY <1>1 DEF CreateStep, others
  <2>3. ASSUME NEW i \in 1 .. d, deps'[i].of > 0 PROVE Ok(i)'
    <3>1. Ok(i) /\ deps'[i] = deps[i] BY <1>b, <2>1, <2>3
    <3>2. deps[i].of \in 1 .. d BY <3>1
    <3> QED BY <2>1, <2>2, <3>1, <3>2
  <2>4. ASSUME NEW i \in 1 .. d', i = d', deps'[i].of > 0 PROVE Ok(i)'
    <3>0. deps'[i] = row /\ row.of > 0 BY <2>1, <2>4
    <3>1. /\ row.of \in 1 .. d /\ row.image = deps[row.of].image /\ row.commit = deps[row.of].commit
          /\ pc # "idle" /\ cur = row.of => d + 1 \in early'
      BY <1>1, <3>0 DEF CreateStep
    <3>2. row.of < d' /\ row.of \in 1 .. d' /\ deps'[row.of] = deps[row.of] BY <1>d, <2>1, <3>1
    <3> QED BY <2>1, <2>2, <2>4, <3>0, <3>1, <3>2
  <2> QED BY <1>q, <2>1, <2>3, <2>4
<1>2. ASSUME UNCHANGED <<deps, early, cur>>, pc' # "idle" => pc # "idle" PROVE RetryInv'
  BY <1>2 DEF RetryInv, d
\* A row changes; a commit that is set is the one of the worker's row.
<1>3. ASSUME NEW i, NEW st, NEW c, RowTo(i, st, c), UNCHANGED early,
             deps[i].commit # NoRef => c = deps[i].commit,
             c # deps[i].commit => pc # "idle" /\ i = cur,
             pc' # "idle" => (pc # "idle" /\ cur' = cur) \/ cur' = d
      PROVE  RetryInv'
  <2>1. /\ d' = d /\ i \in 1 .. d
        /\ \A j \in 1 .. d : /\ deps'[j].of = deps[j].of /\ deps'[j].image = deps[j].image
                             /\ j # i => deps'[j] = deps[j]
        /\ deps'[i].commit = c
    BY <1>3 DEF RowTo
  <2>2. ASSUME NEW j \in 1 .. d, deps'[j].of > 0 PROVE Ok(j)'
    <3>1. Ok(j) /\ deps'[j].of = deps[j].of BY <1>b, <2>1, <2>2
    <3> DEFINE s == deps[j].of
    <3>2. s \in 1 .. d /\ s < j /\ s # j /\ s # d BY <1>d, <3>1
    <3>3. pc' # "idle" /\ cur' = s => j \in early' BY <1>3, <3>1, <3>2
    <3>4. deps'[j].image = deps'[s].image BY <2>1, <3>1, <3>2
    <3>5. ASSUME deps'[s].commit # NoRef, j \notin early PROVE deps'[j].commit = deps'[s].commit
      <4>1. CASE s = i
        <5>1. pc # "idle" /\ s = cur => FALSE BY <3>1, <3>5
        <5>2. deps'[s].commit = deps[s].commit BY <1>3, <2>1, <4>1, <5>1
        <5>3. deps'[j] = deps[j] BY <2>1, <3>2, <4>1
        <5> QED BY <3>1, <3>5, <5>2, <5>3
      <4>2. CASE s # i
        <5>1. deps'[s] = deps[s] BY <2>1, <3>2, <4>2
        <5>2. deps[j].commit = deps[s].commit BY <3>1, <3>5, <5>1
        <5>3. deps'[j].commit = deps[j].commit
          <6>1. CASE j = i BY <1>3, <2>1, <3>5, <5>1, <5>2, <6>1
          <6>2. CASE j # i BY <2>1, <6>2
          <6> QED BY <6>1, <6>2
        <5> QED BY <5>1, <5>2, <5>3
      <4> QED BY <4>1, <4>2
    <3> HIDE DEF s
    <3>6. deps'[j].of = s BY <3>1 DEF s
    <3> QED BY <1>3, <2>1, <3>2, <3>3, <3>4, <3>5, <3>6
  <2> QED BY <1>q, <2>1, <2>2
<1>4. ASSUME NEW i \in 1 .. d, MarkStep(i) PROVE RetryInv'
  <2>1. UNCHANGED <<early, pc, cur>> BY <1>4 DEF MarkStep, others
  <2> QED BY <1>3, <1>4, <2>1 DEF MarkStep
<1>5. ASSUME Starts PROVE RetryInv'
  <2>1. /\ RowTo(d, "running", deps[d].commit) /\ UNCHANGED early /\ cur' = d
    BY <1>5 DEF Starts, StartDeployment, asides, Latest
  <2> QED BY <1>3, <2>1
<1>6. ASSUME Resolves PROVE RetryInv'
  <2> DEFINE c == SetDeploymentCommitSHA
  <2>1. RowTo(cur, deps[cur].status, c) /\ UNCHANGED <<early, cur>> /\ pc # "idle"
    BY <1>6 DEF Resolves, resolveSourceCommit, Step, asides, Dep
  <2>2. deps[cur].commit # NoRef => c = deps[cur].commit BY DEF SetDeploymentCommitSHA, Dep
  <2> HIDE DEF c
  <2> QED BY <1>3, <2>1, <2>2
<1>7. ASSUME Completes PROVE RetryInv'
  <2>1. RowTo(cur, "succeeded", deps[cur].commit) /\ UNCHANGED early /\ pc' = "idle"
    BY <1>7 DEF Completes, complete, Step, Dep
  <2> QED BY <1>3, <2>1
<1>8. ASSUME Fails PROVE RetryInv'
  <2>1. PICK c \in Commits \cup {NoRef} :
          RowTo(cur, "failed", c) /\ (deps[cur].commit # NoRef => c = deps[cur].commit)
    BY <1>8 DEF Fails, Dep
  <2>2. UNCHANGED early /\ pc' = "idle" /\ pc # "idle" BY <1>8, Failing
  <2> QED BY <1>3, <2>1, <2>2
<1>9. ASSUME SyncRepository \/ StartColor \/ upsertSlot \/ loadRollbackSlot \/ QuietStep
      PROVE  RetryInv'
  BY <1>2, <1>9 DEF SyncRepository, StartColor, upsertSlot, loadRollbackSlot, QuietStep, Step, asides
<1> QED BY <1>1, <1>4, <1>5, <1>6, <1>7, <1>8, <1>9 DEF AnyStep

\* Colors.
LEMMA ColorStep ==
    ASSUME TypeInv, RowInv, BuildInv, ColorInv, AnyStep
    PROVE  ColorInv'
<1>t. slots \in [Colors -> Slot] /\ color \in {"blue", "green"} /\ Colors = {"blue", "green"}
      /\ color \in Colors
  BY DEF TypeInv, Colors
<1>1. ASSUME UNCHANGED <<slots, pc, color>> PROVE ColorInv' BY <1>1 DEF ColorInv
<1>2. ASSUME Starts PROVE ColorInv'
  <2>1. UNCHANGED slots /\ pc' \in {"rollback", "sync", "start"}
        /\ color' = IF GetActiveDeploymentSlot = {"blue"} THEN "green" ELSE "blue"
    BY <1>2 DEF Starts, StartDeployment, Step, host
  <2>2. GetActiveDeploymentSlot = {"blue"} <=> slots["blue"].status = "active"
    BY <1>t DEF GetActiveDeploymentSlot, ColorInv
  <2> QED BY <2>1, <2>2 DEF ColorInv
<1>3. ASSUME SyncRepository \/ Resolves \/ StartColor PROVE ColorInv'
  <2>1. UNCHANGED <<slots, color>> /\ pc \in {"sync", "resolve", "start"}
        /\ pc' \in {"resolve", "start", "slot"}
    BY <1>3 DEF SyncRepository, Resolves, resolveSourceCommit, StartColor, Step, host
  <2> QED BY <2>1 DEF ColorInv
\* The colors after an upsert and after an activation.
<1>u. ASSUME pc = "slot", UpsertSlot
      PROVE  /\ ~(slots'["blue"].status = "active" /\ slots'["green"].status = "active")
             /\ slots'["green"].status # "none" =>
                  slots'["blue"].status = "active" \/ slots'["green"].status = "active"
             /\ slots'[color].status = "standby"
  <2>1. slots'[color].status = "standby" /\ \A c \in Colors : c # color => slots'[c] = slots[c]
    BY <1>u, Upserting
  <2>2. color = IF slots["blue"].status = "active" THEN "green" ELSE "blue" BY <1>u DEF ColorInv
  <2>3. CASE color = "blue" BY <1>t, <2>1, <2>2, <2>3 DEF ColorInv
  <2>4. CASE color = "green" BY <1>t, <2>1, <2>2, <2>4 DEF ColorInv
  <2> QED BY <1>t, <2>3, <2>4
<1>a. ASSUME ActivateDeploymentSlot
      PROVE  /\ ~(slots'["blue"].status = "active" /\ slots'["green"].status = "active")
             /\ slots'["blue"].status = "active" \/ slots'["green"].status = "active"
  BY <1>a, <1>t, Activation
<1>4. ASSUME upsertSlot PROVE ColorInv'
  <2>1. pc = "slot" /\ pc' = "activate" /\ UNCHANGED color /\ UpsertSlot
    BY <1>4 DEF upsertSlot, Step
  <2> QED BY <1>u, <2>1 DEF ColorInv
<1>5. ASSUME loadRollbackSlot PROVE ColorInv'
  BY <1>5 DEF loadRollbackSlot, Step, GetStandbyDeploymentSlot, ColorInv, host
<1>6. ASSUME Completes PROVE ColorInv'
  <2>1. pc' = "idle" /\ ActivateDeploymentSlot BY <1>6 DEF Completes, complete, Step
  <2> QED BY <1>a, <2>1 DEF ColorInv
<1>7. ASSUME Fails PROVE ColorInv'
  <2>1. pc' = "idle" /\ FailedHost BY <1>7, Failing
  <2> QED BY <1>a, <1>u, <2>1 DEF ColorInv, FailedHost
<1>8. ASSUME \/ \E row \in Row : CreateStep(row)
             \/ QuietStep
             \/ \E i \in 1 .. d : MarkStep(i)
      PROVE  ColorInv'
  BY <1>1, <1>8 DEF CreateStep, others, QuietStep, MarkStep
<1> QED BY <1>2, <1>3, <1>4, <1>5, <1>6, <1>7, <1>8 DEF AnyStep

\* The commit of a source deployment.
LEMMA BuildStep ==
    ASSUME TypeInv, RowInv, BuildInv, ColorInv, AnyStep
    PROVE  BuildInv'
<1> USE RefAssumption
<1>t. /\ head \in Commits /\ color \in Colors /\ slots \in [Colors -> Slot]
      /\ built \in [1 .. MaxDeployments -> Commits \cup {NoRef}]
      /\ switched \in [1 .. MaxDeployments -> Refs \cup {NoRef}]
      /\ d \in Nat /\ d <= MaxDeployments /\ cur \in 0 .. d
  BY DEF TypeInv, d
<1>n. NoRef \notin Commits BY DEF Commits
<1> DEFINE Unbuilt == \A i \in 1 .. MaxDeployments : i > d => built[i] = NoRef /\ pulled[i] = NoRef
           Ok(i) == /\ built[i] # NoRef => /\ deps[i].image = NoRef /\ deps[i].commit = built[i]
                                           /\ deps[i].trigger # "rollback"
                    /\ pulled[i] \in {NoRef, deps[i].image}
                    /\ built[i] # NoRef /\ deps[i].status = "succeeded" => switched[i] = built[i]
           AtStep == /\ pc = "resolve" => tree \in Commits /\ Dep.commit \in {NoRef, tree}
                     /\ pc = "start" /\ Dep.image = NoRef => tree \in Commits /\ Dep.commit = tree
                     /\ pc = "slot" => containers[color] \in Refs /\ containers[color] = slotRollbackRef
                     /\ pc \in {"slot", "activate"} /\ built[cur] # NoRef => containers[color] = built[cur]
           Labels == \A c \in Colors \ mislabelled : slots[c].ref = containers[c]
<1>b. Unbuilt /\ (\A i \in 1 .. d : Ok(i)) /\ AtStep /\ Labels BY DEF BuildInv
<1>q. ASSUME Unbuilt', \A i \in 1 .. d' : Ok(i)', AtStep', Labels' PROVE BuildInv'
  BY <1>q DEF BuildInv
\* A row keeps its image, and a commit it has.
<1>l. ASSUME NEW k, NEW st, NEW c, RowTo(k, st, c), UNCHANGED <<built, pulled>>,
             deps[k].commit # NoRef => c = deps[k].commit,
             built[k] # NoRef /\ st = "succeeded" => switched'[k] = built[k],
             \A i \in 1 .. MaxDeployments : i # k => switched'[i] = switched[i]
      PROVE  Unbuilt' /\ \A i \in 1 .. d' : Ok(i)'
  <2>1. /\ d' = d /\ k \in 1 .. d /\ \A i \in 1 .. d : i # k => deps'[i] = deps[i]
        /\ deps'[k].status = st /\ deps'[k].commit = c /\ deps'[k].image = deps[k].image
        /\ deps'[k].trigger = deps[k].trigger
    BY <1>l DEF RowTo
  <2>2. Unbuilt' BY <1>b, <1>l, <2>1
  <2>3. ASSUME NEW i \in 1 .. d, i # k PROVE Ok(i)'
    <3>1. i \in 1 .. MaxDeployments BY RowFields
    <3> QED BY <1>b, <1>l, <2>1, <2>3, <3>1
  <2>4. Ok(k)'
    <3>1. Ok(k) BY <1>b, <2>1
    <3>2. built[k] # NoRef => c = built[k] BY <1>l, <3>1
    <3>3. built'[k] # NoRef => /\ deps'[k].image = NoRef /\ deps'[k].commit = built'[k]
                               /\ deps'[k].trigger # "rollback"
      BY <1>l, <2>1, <3>1, <3>2
    <3>4. pulled'[k] \in {NoRef, deps'[k].image} BY <1>l, <2>1, <3>1
    <3>5. built'[k] # NoRef /\ deps'[k].status = "succeeded" => switched'[k] = built'[k]
      BY <1>l, <2>1
    <3> QED BY <3>3, <3>4, <3>5
  <2> QED BY <2>1, <2>2, <2>3, <2>4
\* Rows and what was built stay.
<1>k. ASSUME UNCHANGED <<deps, cur, built, pulled, switched>>
      PROVE  d' = d /\ Dep' = Dep /\ Unbuilt' /\ \A i \in 1 .. d' : Ok(i)'
  BY <1>b, <1>k DEF d, Dep
\* The row at work keeps commit and image, and the worker its step.
<1>w. ASSUME UNCHANGED others, pc # "idle" => deps'[cur].commit = deps[cur].commit
                                              /\ deps'[cur].image = deps[cur].image
      PROVE  AtStep' /\ Labels'
  <2>1. UNCHANGED <<slots, tree, containers, mislabelled, pc, cur, color, built>> BY <1>w DEF others
  <2>2. pc # "idle" => Dep'.commit = Dep.commit /\ Dep'.image = Dep.image BY <1>w, <2>1 DEF Dep
  <2>3. pc # "idle" => slotRollbackRef' = slotRollbackRef BY <2>2 DEF slotRollbackRef
  <2> QED BY <1>b, <2>1, <2>2, <2>3
<1>1. ASSUME NEW row \in Row, CreateStep(row) PROVE BuildInv'
  <2>1. UNCHANGED others /\ UNCHANGED <<built, pulled, switched>> /\ row.status = "queued"
    BY <1>1 DEF CreateStep, others
  <2>2. /\ d' = d + 1 /\ d' <= MaxDeployments /\ deps'[d'] = row
        /\ \A i \in 1 .. d' : (i \in 1 .. d /\ deps'[i] = deps[i]) \/ i = d'
        /\ \A i \in 1 .. d : deps'[i] = deps[i]
    BY <1>1, AppendFacts
  <2>3. d' \in 1 .. MaxDeployments /\ d' > d BY <1>t, <2>2
  <2>4. built[d'] = NoRef /\ pulled[d'] = NoRef BY <1>b, <2>3
  <2>5. Unbuilt'
    <3>1. \A i \in 1 .. MaxDeployments : i > d' => i > d BY <1>t, <2>2
    <3> QED BY <1>b, <2>1, <3>1
  <2>6. \A i \in 1 .. d' : Ok(i)' BY <1>b, <2>1, <2>2, <2>4
  <2>7. pc # "idle" => deps'[cur] = deps[cur] BY <2>2, AtWork
  <2>8. AtStep' /\ Labels' BY <1>w, <2>1, <2>7
  <2> QED BY <1>q, <2>5, <2>6, <2>8
<1>2. ASSUME QuietStep PROVE BuildInv'
  <2>1. UNCHANGED <<deps, slots, tree, containers, mislabelled, pc, cur, color, built, pulled, switched>>
    BY <1>2 DEF QuietStep
  <2>2. slotRollbackRef' = slotRollbackRef BY <1>k, <2>1 DEF slotRollbackRef
  <2>3. AtStep' /\ Labels' BY <1>b, <1>k, <2>1, <2>2
  <2> QED BY <1>k, <1>q, <2>1, <2>3
<1>3. ASSUME NEW i \in 1 .. d, MarkStep(i) PROVE BuildInv'
  <2>1. UNCHANGED others /\ UNCHANGED <<built, pulled, switched>> BY <1>3 DEF MarkStep, others
  <2>2. PICK st \in {"failed", "cancelled"} : RowTo(i, st, deps[i].commit) BY <1>3 DEF MarkStep
  <2>3. Unbuilt' /\ \A j \in 1 .. d' : Ok(j)' BY <1>l, <2>1, <2>2
  <2>4. \A j \in 1 .. d : deps'[j].commit = deps[j].commit /\ deps'[j].image = deps[j].image
    BY <2>2 DEF RowTo
  <2>5. AtStep' /\ Labels' BY <1>w, <2>1, <2>4, AtWork
  <2> QED BY <1>q, <2>3, <2>5
<1>4. ASSUME Starts PROVE BuildInv'
  <2>1. /\ UNCHANGED <<slots, containers, mislabelled, built, pulled, switched>>
        /\ RowTo(d, "running", deps[d].commit) /\ cur' = d
        /\ pc' \in {"rollback", "sync", "start"} /\ (pc' = "start" => deps[d].image # NoRef)
    BY <1>4 DEF Starts, StartDeployment, Step, shouldSyncRepository, ghosts, host, Latest
  <2>2. Dep'.image = deps[d].image BY <2>1 DEF RowTo, Dep
  <2>3. AtStep' BY <2>1, <2>2
  <2>4. Unbuilt' /\ \A i \in 1 .. d' : Ok(i)' BY <1>l, <2>1
  <2> QED BY <1>b, <1>q, <2>1, <2>3, <2>4
<1>5. ASSUME SyncRepository PROVE BuildInv'
  <2>1. /\ pc = "sync" /\ pc' = "resolve"
        /\ UNCHANGED <<deps, cur, slots, containers, mislabelled, built, pulled, switched>>
        /\ tree' = IF Dep.commit # NoRef THEN Dep.commit ELSE head
    BY <1>5 DEF SyncRepository, Step, ghosts
  <2>2. Dep.commit \in Commits \cup {NoRef} BY <2>1, AtWork
  <2>3. tree' \in Commits /\ Dep.commit \in {NoRef, tree'} BY <1>t, <2>1, <2>2
  <2>4. AtStep' BY <1>k, <2>1, <2>3
  <2> QED BY <1>b, <1>k, <1>q, <2>1, <2>4
<1>6. ASSUME Resolves PROVE BuildInv'
  <2> DEFINE c == SetDeploymentCommitSHA
  <2>1. /\ pc = "resolve" /\ pc' = "start"
        /\ UNCHANGED <<tree, cur, slots, containers, mislabelled, built, pulled, switched>>
        /\ RowTo(cur, Dep.status, c)
    BY <1>6 DEF Resolves, resolveSourceCommit, Step, ghosts, host
  <2>2. tree \in Commits /\ Dep.commit \in {NoRef, tree} BY <1>b, <2>1
  <2>3. c = tree /\ (deps[cur].commit # NoRef => c = deps[cur].commit)
    BY <2>2 DEF SetDeploymentCommitSHA, Dep
  <2>4. Dep.status \in {"running", "failed"} BY <2>1, AtWork
  <2> HIDE DEF c
  <2>5. Dep'.commit = c BY <2>1 DEF RowTo, Dep
  <2>6. AtStep' BY <2>1, <2>2, <2>3, <2>5
  <2>7. Unbuilt' /\ \A i \in 1 .. d' : Ok(i)' BY <1>l, <2>1, <2>3, <2>4
  <2> QED BY <1>b, <1>q, <2>1, <2>6, <2>7
\* The containers of a color are replaced.
<1>u. ASSUME pc = "start", Up, UNCHANGED <<cur, color, slots, switched>>,
             \/ deps' = deps
             \/ \E c : RowTo(cur, "failed", c) /\ (Dep.commit # NoRef => c = Dep.commit)
      PROVE  d' = d /\ Unbuilt' /\ (\A i \in 1 .. d' : Ok(i)') /\ Labels'
  <2>1. /\ cur \in 1 .. d /\ cur \in 1 .. MaxDeployments /\ Dep.status \in {"running", "failed"}
        /\ Dep.trigger # "rollback"
    BY <1>u, AtWork DEF RowInv
  <2>2. /\ \A c \in Colors : c # color => containers'[c] = containers[c]
        /\ mislabelled' = mislabelled \cup {color}
        /\ \A i \in 1 .. MaxDeployments : i # cur => built'[i] = built[i] /\ pulled'[i] = pulled[i]
        /\ \/ /\ Dep.image = NoRef /\ Dep.commit \in Commits /\ built'[cur] = Dep.commit
              /\ pulled'[cur] = pulled[cur]
           \/ Dep.image # NoRef /\ pulled'[cur] = Dep.image /\ built'[cur] = NoRef
    BY <1>u, Upping
  <2>3. Labels' BY <1>b, <1>u, <2>2
  <2>4. /\ d' = d /\ \A i \in 1 .. d : i # cur => deps'[i] = deps[i]
        /\ deps'[cur].image = Dep.image /\ (Dep.commit # NoRef => deps'[cur].commit = Dep.commit)
        /\ deps'[cur].status \in {"running", "failed"} /\ deps'[cur].trigger = Dep.trigger
    BY <1>u, <2>1 DEF RowTo, Dep, d
  <2>5. Unbuilt'
    <3>1. \A i \in 1 .. MaxDeployments : i > d => i # cur BY <1>t
    <3> QED BY <1>b, <2>2, <2>4, <3>1
  <2>6. Ok(cur) BY <1>b, <2>1
  <2>7. ASSUME NEW i \in 1 .. d PROVE Ok(i)'
    <3>1. i \in 1 .. MaxDeployments /\ Ok(i) BY <1>b, RowFields
    <3>2. CASE i # cur BY <1>u, <2>2, <2>4, <3>1, <3>2
    <3>3. CASE i = cur
      <4>1. deps'[i].image = Dep.image /\ deps'[i].status # "succeeded" /\ deps'[i].trigger # "rollback"
            /\ (Dep.commit # NoRef => deps'[i].commit = Dep.commit)
        BY <2>1, <2>4, <3>3
      <4>2. pulled[cur] \in {NoRef, Dep.image} BY <2>6 DEF Dep
      <4>3. CASE /\ Dep.image = NoRef /\ Dep.commit \in Commits /\ built'[cur] = Dep.commit
                 /\ pulled'[cur] = pulled[cur]
        BY <1>n, <3>3, <4>1, <4>2, <4>3
      <4>4. CASE Dep.image # NoRef /\ pulled'[cur] = Dep.image /\ built'[cur] = NoRef
        BY <3>3, <4>1, <4>4
      <4> QED BY <2>2, <4>3, <4>4
    <3> QED BY <3>2, <3>3
  <2> QED BY <2>3, <2>4, <2>5, <2>7
<1>7. ASSUME StartColor PROVE BuildInv'
  <2>1. pc = "start" /\ pc' = "slot" /\ Up /\ UNCHANGED <<deps, slots, tree, cur, color, switched>>
    BY <1>7 DEF StartColor, Step
  <2>2. Dep' = Dep /\ slotRollbackRef' = slotRollbackRef BY <2>1 DEF Dep, slotRollbackRef
  <2>3. containers'[color] \in Refs /\ containers'[color] = slotRollbackRef
        /\ (built'[cur] # NoRef => containers'[color] = built'[cur])
    BY <2>1, Upping
  <2>4. AtStep' BY <2>1, <2>2, <2>3
  <2>5. Unbuilt' /\ (\A i \in 1 .. d' : Ok(i)') /\ Labels' BY <1>u, <2>1
  <2> QED BY <1>q, <2>4, <2>5
<1>s. ASSUME pc = "slot", UpsertSlot, UNCHANGED containers PROVE Labels'
  BY <1>b, <1>s, <1>t, Upserting
<1>8. ASSUME upsertSlot PROVE BuildInv'
  <2>1. /\ pc = "slot" /\ pc' = "activate" /\ UpsertSlot
        /\ UNCHANGED <<deps, cur, containers, color, built, pulled, switched>>
    BY <1>8 DEF upsertSlot, Step, ghosts
  <2>2. AtStep' BY <1>b, <2>1
  <2> QED BY <1>k, <1>q, <1>s, <2>1, <2>2
<1>9. ASSUME loadRollbackSlot PROVE BuildInv'
  <2>1. /\ pc = "rollback" /\ pc' = "activate"
        /\ UNCHANGED <<deps, cur, slots, containers, mislabelled, built, pulled, switched>>
    BY <1>9 DEF loadRollbackSlot, Step, ghosts, host
  <2>2. cur \in 1 .. d BY <2>1, AtWork
  <2>3. built[cur] = NoRef BY <1>b, <2>1, <2>2 DEF RowInv, Dep
  <2>4. AtStep' BY <2>1, <2>3
  <2> QED BY <1>b, <1>k, <1>q, <2>1, <2>4
<1>a. ASSUME ActivateDeploymentSlot, UNCHANGED <<containers, mislabelled>> PROVE Labels'
  BY <1>a, <1>b, <1>t, Activation
<1>10. ASSUME Completes PROVE BuildInv'
  <2>1. /\ pc = "activate" /\ pc' = "idle" /\ ActivateDeploymentSlot
        /\ UNCHANGED <<containers, mislabelled, built, pulled>>
        /\ switched' = [switched EXCEPT ![cur] = containers[color]]
        /\ RowTo(cur, "succeeded", deps[cur].commit)
    BY <1>10 DEF Completes, complete, Step, Dep
  <2>2. cur \in 1 .. MaxDeployments BY <2>1, AtWork
  <2>3. switched'[cur] = containers[color]
        /\ \A i \in 1 .. MaxDeployments : i # cur => switched'[i] = switched[i]
    BY <1>t, <2>1, <2>2
  <2>4. built[cur] # NoRef => switched'[cur] = built[cur] BY <1>b, <2>1, <2>3
  <2>5. Unbuilt' /\ \A i \in 1 .. d' : Ok(i)' BY <1>l, <2>1, <2>3, <2>4
  <2> QED BY <1>a, <1>q, <2>1, <2>5
<1>11. ASSUME Fails PROVE BuildInv'
  <2>1. pc' = "idle" /\ FailedHost /\ UNCHANGED <<cur, color, switched>> BY <1>11, Failing
  <2>2. PICK c : RowTo(cur, "failed", c) /\ (Dep.commit # NoRef => c = Dep.commit) BY <1>11 DEF Fails
  <2>3. AtStep' BY <2>1
  <2>4. Unbuilt' /\ (\A i \in 1 .. d' : Ok(i)') /\ Labels'
    <3>1. CASE pc = "start" /\ Up /\ slots' = slots BY <1>u, <2>1, <2>2, <3>1
    <3>2. ASSUME UNCHANGED <<built, pulled>> PROVE Unbuilt' /\ \A i \in 1 .. d' : Ok(i)'
      <4>1. deps[cur].commit # NoRef => c = deps[cur].commit BY <2>2 DEF Dep
      <4> QED BY <1>l, <2>1, <2>2, <3>2, <4>1
    <3>3. CASE pc = "slot" /\ UpsertSlot /\ UNCHANGED <<containers, built, pulled>>
      BY <1>s, <3>2, <3>3
    <3>4. CASE pc = "activate" /\ ActivateDeploymentSlot
               /\ UNCHANGED <<containers, mislabelled, built, pulled>>
      BY <1>a, <3>2, <3>4
    <3>5. CASE UNCHANGED <<slots, containers, mislabelled, built, pulled>> BY <1>b, <3>2, <3>5
    <3> QED BY <2>1, <3>1, <3>3, <3>4, <3>5 DEF FailedHost
  <2> QED BY <1>q, <2>3, <2>4
<1> QED BY <1>1, <1>2, <1>3, <1>4, <1>5, <1>6, <1>7, <1>8, <1>9, <1>10, <1>11 DEF AnyStep

\* Rollbacks.
LEMMA RollbackStep ==
    ASSUME TypeInv, RowInv, BuildInv, ColorInv, RollbackInv, AnyStep
    PROVE  RollbackInv'
<1>t. /\ slots \in [Colors -> Slot] /\ d \in Nat /\ restores \subseteq 1 .. d /\ cur \in 0 .. d
      /\ switched \in [1 .. MaxDeployments -> Refs \cup {NoRef}] /\ Colors = {"blue", "green"}
      /\ color \in Colors
  BY DEF TypeInv, Colors, d
<1> DEFINE Coming(i) == /\ deps[i].status = "queued" => pc = "idle" /\ Standby(deps[i].image)
                        /\ pc = "rollback" /\ cur = i => Standby(deps[i].image)
                        /\ pc = "activate" /\ cur = i => slots[color].ref = deps[i].image
                        /\ deps[i].status = "succeeded" => switched[i] = deps[i].image
<1>b. \A i \in restores : deps[i].trigger = "rollback" /\ (i \notin stale => Coming(i))
  BY DEF RollbackInv
<1>q. ASSUME \A i \in restores' : deps'[i].trigger = "rollback" /\ (i \notin stale' => Coming(i)')
      PROVE  RollbackInv'
  BY <1>q DEF RollbackInv
\* Only the last row is queued.
<1>o. \A i \in 1 .. d : deps[i].status = "queued" => i = d BY DEF RowInv
<1>1. ASSUME NEW row \in Row, CreateStep(row) PROVE RollbackInv'
  <2>1. /\ UNCHANGED <<slots, pc, cur, color, switched>> /\ row.status = "queued"
        /\ stale \subseteq stale' /\ restores' \subseteq restores \cup {d + 1}
        /\ d + 1 \in restores' =>
             row.trigger = "rollback" /\ (d + 1 \notin stale' => pc = "idle" /\ Standby(row.image))
    BY <1>1 DEF CreateStep, others
  <2>2. d' = d + 1 /\ deps'[d'] = row /\ \A i \in 1 .. d : deps'[i] = deps[i]
    BY <1>1, AppendFacts
  <2>3. \A ref : Standby(ref)' <=> Standby(ref) BY <2>1 DEF Standby
  <2>4. ASSUME NEW i \in restores' PROVE deps'[i].trigger = "rollback" /\ (i \notin stale' => Coming(i)')
    <3>1. CASE i = d + 1
      <4>1. deps'[i] = row /\ cur # i BY <1>t, <2>2, <3>1
      <4> QED BY <2>1, <2>3, <2>4, <3>1, <4>1
    <3>2. CASE i # d + 1
      <4>1. i \in restores /\ deps'[i] = deps[i] BY <1>t, <2>1, <2>2, <2>4, <3>2
      <4> QED BY <1>b, <2>1, <2>3, <4>1
    <3> QED BY <3>1, <3>2
  <2> QED BY <1>q, <2>4
<1>2. ASSUME QuietStep PROVE RollbackInv'
  <2>1. UNCHANGED <<deps, switched, restores, stale, slots, pc, cur, color>> BY <1>2 DEF QuietStep
  <2>2. \A ref : Standby(ref)' <=> Standby(ref) BY <2>1 DEF Standby
  <2> QED BY <1>b, <1>q, <2>1, <2>2
<1>3. ASSUME NEW k \in 1 .. d, MarkStep(k) PROVE RollbackInv'
  <2>1. UNCHANGED <<switched, restores, stale, slots, pc, cur, color>> BY <1>3 DEF MarkStep, others
  <2>2. \A ref : Standby(ref)' <=> Standby(ref) BY <2>1 DEF Standby
  <2>3. PICK st \in {"failed", "cancelled"} : RowTo(k, st, deps[k].commit) BY <1>3 DEF MarkStep
  <2>4. \A i \in 1 .. d : /\ deps'[i].trigger = deps[i].trigger /\ deps'[i].image = deps[i].image
                          /\ i = k => deps'[i].status \in {"failed", "cancelled"}
                          /\ i # k => deps'[i].status = deps[i].status
    BY <2>3 DEF RowTo
  <2>5. ASSUME NEW i \in restores PROVE deps'[i].trigger = "rollback" /\ (i \notin stale => Coming(i)')
    <3>1. i \in 1 .. d BY <1>t
    <3> QED BY <1>b, <2>1, <2>2, <2>4, <3>1
  <2> QED BY <1>q, <2>1, <2>5
<1>4. ASSUME Starts PROVE RollbackInv'
  <2>1. /\ UNCHANGED <<switched, restores, stale, slots>> /\ RowTo(d, "running", Latest.commit)
        /\ cur' = d /\ deps[d].status = "queued" /\ pc' \in {"rollback", "sync", "start"}
    BY <1>4 DEF Starts, StartDeployment, Step, ghosts, host, asides, Latest
  <2>2. \A ref : Standby(ref)' <=> Standby(ref) BY <2>1 DEF Standby
  <2>3. \A i \in 1 .. d : /\ deps'[i].trigger = deps[i].trigger /\ deps'[i].image = deps[i].image
                          /\ i = d => deps'[i].status = "running"
                          /\ i # d => deps'[i].status = deps[i].status
    BY <2>1 DEF RowTo
  <2>4. ASSUME NEW i \in restores PROVE deps'[i].trigger = "rollback" /\ (i \notin stale => Coming(i)')
    <3>1. i \in 1 .. d BY <1>t
    <3> QED BY <1>b, <1>o, <2>1, <2>2, <2>3, <3>1
  <2> QED BY <1>q, <2>1, <2>4
\* Steps of a run that is no rollback, and its end.
<1>r. ASSUME pc \in {"sync", "resolve", "start", "slot"}, pc' \in {"resolve", "start", "slot", "activate"},
             UNCHANGED <<switched, restores, stale, cur>>,
             \/ deps' = deps
             \/ \E c : RowTo(cur, Dep.status, c)
      PROVE  RollbackInv'
  <2>1. Dep.trigger # "rollback" /\ cur \in 1 .. d BY <1>r, AtWork DEF RowInv
  <2>2. \A i \in 1 .. d : /\ deps'[i].trigger = deps[i].trigger /\ deps'[i].image = deps[i].image
                          /\ deps'[i].status = deps[i].status
    BY <1>r DEF RowTo, Dep
  <2>3. ASSUME NEW i \in restores PROVE deps'[i].trigger = "rollback" /\ (i \notin stale => Coming(i)')
    <3>1. i \in 1 .. d BY <1>t
    <3>2. cur # i BY <1>b, <2>1 DEF Dep
    <3>3. i \notin stale => deps[i].status # "queued" BY <1>b, <1>r
    <3> QED BY <1>b, <1>r, <2>2, <3>1, <3>2, <3>3
  <2> QED BY <1>q, <1>r, <2>3
<1>5. ASSUME SyncRepository \/ StartColor \/ upsertSlot PROVE RollbackInv'
  <2>1. /\ UNCHANGED <<deps, cur, switched, restores, stale>>
        /\ pc \in {"sync", "start", "slot"} /\ pc' \in {"resolve", "slot", "activate"}
    BY <1>5 DEF SyncRepository, StartColor, upsertSlot, Step, ghosts, asides
  <2> QED BY <1>r, <2>1
<1>6. ASSUME Resolves PROVE RollbackInv'
  <2>1. /\ UNCHANGED <<cur, switched, restores, stale>> /\ pc = "resolve" /\ pc' = "start"
        /\ RowTo(cur, Dep.status, SetDeploymentCommitSHA)
    BY <1>6 DEF Resolves, resolveSourceCommit, Step, ghosts, asides
  <2> QED BY <1>r, <2>1
<1>8. ASSUME loadRollbackSlot PROVE RollbackInv'
  <2>1. /\ UNCHANGED <<deps, cur, switched, restores, stale, slots>>
        /\ pc = "rollback" /\ pc' = "activate"
        /\ color' \in Colors /\ slots[color'].status = "standby"
    BY <1>8 DEF loadRollbackSlot, Step, ghosts, host, asides, GetStandbyDeploymentSlot
  <2>2. \A c, e \in Colors : slots[c].status = "standby" /\ slots[e].status = "standby" => c = e
    BY <1>t DEF ColorInv
  <2>3. ASSUME NEW i \in restores, i \notin stale PROVE Coming(i)'
    <3>1. Coming(i) BY <1>b, <2>3
    <3>2. ASSUME cur = i PROVE slots[color'].ref = deps[i].image
      <4>1. PICK c \in Colors : slots[c].status = "standby" /\ slots[c].ref = deps[i].image
        BY <2>1, <3>1, <3>2 DEF Standby
      <4> QED BY <2>1, <2>2, <4>1
    <3> QED BY <2>1, <3>1, <3>2
  <2> QED BY <1>b, <1>q, <2>1, <2>3
\* The end of a run.
<1>e. ASSUME pc # "idle", pc' = "idle", UNCHANGED restores, stale \subseteq stale',
             NEW st \in {"succeeded", "failed"}, NEW c, RowTo(cur, st, c),
             \A i \in 1 .. MaxDeployments : i # cur => switched'[i] = switched[i],
             st = "succeeded" /\ cur \in restores /\ cur \notin stale' => switched'[cur] = Dep.image
      PROVE  RollbackInv'
  <2>1. \A i \in 1 .. d : /\ deps'[i].trigger = deps[i].trigger /\ deps'[i].image = deps[i].image
                          /\ i = cur => deps'[i].status = st
                          /\ i # cur => deps'[i].status = deps[i].status
    BY <1>e DEF RowTo
  <2>2. ASSUME NEW i \in restores PROVE deps'[i].trigger = "rollback" /\ (i \notin stale' => Coming(i)')
    <3>1. i \in 1 .. d /\ i \in 1 .. MaxDeployments BY <1>t, RowFields
    <3>2. ASSUME i \notin stale' PROVE Coming(i)'
      <4>1. Coming(i) BY <1>b, <1>e, <3>2
      <4>2. deps[i].status # "queued" BY <1>e, <4>1
      <4>3. CASE i = cur BY <1>e, <2>1, <3>1, <3>2, <4>3 DEF Dep
      <4>4. CASE i # cur BY <1>e, <2>1, <3>1, <4>1, <4>2, <4>4
      <4> QED BY <4>3, <4>4
    <3> QED BY <1>b, <2>1, <3>1, <3>2
  <2> QED BY <1>e, <1>q, <2>2
<1>9. ASSUME Completes PROVE RollbackInv'
  <2>1. /\ pc = "activate" /\ pc' = "idle" /\ UNCHANGED restores
        /\ switched' = [switched EXCEPT ![cur] = containers[color]]
        /\ stale' = IF cur \in restores /\ color \in mislabelled THEN stale \cup {cur} ELSE stale
        /\ RowTo(cur, "succeeded", Dep.commit)
    BY <1>9 DEF Completes, complete, Step
  <2>2. cur \in 1 .. MaxDeployments BY <2>1, AtWork
  <2>3. switched'[cur] = containers[color]
        /\ \A i \in 1 .. MaxDeployments : i # cur => switched'[i] = switched[i]
    BY <1>t, <2>1, <2>2
  <2>4. ASSUME cur \in restores, cur \notin stale' PROVE switched'[cur] = Dep.image
    <3>1. color \notin mislabelled /\ cur \notin stale BY <2>1, <2>4
    <3>2. slots[color].ref = Dep.image BY <1>b, <2>1, <2>4, <3>1 DEF Dep
    <3>3. slots[color].ref = containers[color] BY <1>t, <3>1 DEF BuildInv
    <3> QED BY <2>3, <3>2, <3>3
  <2>5. stale \subseteq stale' BY <2>1
  <2> QED BY <1>e, <2>1, <2>3, <2>4, <2>5
<1>10. ASSUME Fails PROVE RollbackInv'
  <2>1. pc # "idle" /\ pc' = "idle" /\ UNCHANGED <<switched, restores, stale>> BY <1>10, Failing
  <2>2. PICK c : RowTo(cur, "failed", c) BY <1>10 DEF Fails
  <2> QED BY <1>e, <2>1, <2>2
<1> QED BY <1>1, <1>2, <1>3, <1>4, <1>5, <1>6, <1>8, <1>9, <1>10 DEF AnyStep

-----------------------------------------------------------------------------
(* Theorems.                                                               *)

IInv == TypeInv /\ RowInv /\ BuildInv /\ RetryInv /\ ColorInv /\ RollbackInv

\* The invariant holds throughout.
LEMMA Invariance == Spec => []IInv
<1>1. ASSUME Init PROVE IInv
  <2> USE RefAssumption
  <2>1. /\ head = 1 /\ deps = <<>> /\ slots = [c \in Colors |-> NoSlot] /\ tree = NoRef
        /\ containers = [c \in Colors |-> NoRef]
        /\ pc = "idle" /\ cur = 0 /\ color = "blue" /\ asked = [r \in Requests |-> NoRef]
        /\ posting = {} /\ built = [i \in 1 .. MaxDeployments |-> NoRef]
        /\ pulled = built /\ switched = built
        /\ mislabelled = {} /\ restores = {} /\ stale = {} /\ early = {}
    BY <1>1 DEF Init
  <2>2. d = 0 /\ deps \in Seq(Row) /\ Len(deps) = 0 /\ 1 .. d = {} BY <2>1 DEF d
  <2>3. head \in Commits BY <2>1 DEF Commits
  <2>4. slots \in [Colors -> Slot] /\ \A c \in Colors : slots[c].status = "none" /\ slots[c].ref = NoRef
    BY <2>1 DEF NoSlot, Slot
  <2>5. pc \in PCs /\ color \in Colors BY <2>1 DEF PCs, Colors
  <2>6. TypeInv BY <2>1, <2>2, <2>3, <2>4, <2>5 DEF TypeInv
  <2>7. RowInv /\ RetryInv /\ RollbackInv BY <2>1, <2>2 DEF RowInv, RetryInv, RollbackInv
  <2>8. BuildInv BY <2>1, <2>2, <2>4 DEF BuildInv
  <2>9. ColorInv BY <2>1, <2>4 DEF ColorInv, Colors
  <2> QED BY <2>6, <2>7, <2>8, <2>9 DEF IInv
<1>2. ASSUME IInv, [Next]_vars PROVE IInv'
  <2>1. AnyStep
    <3>1. CASE Next BY <1>2, <3>1, Kinds DEF IInv
    <3>2. CASE UNCHANGED vars
      BY <1>2, <3>2 DEF IInv, TypeInv, vars, host, work, ghosts, asides, AnyStep, QuietStep
    <3> QED BY <1>2, <3>1, <3>2
  <2> QED BY <1>2, <2>1, TypeStep, RowStep, BuildStep, RetryStep, ColorStep, RollbackStep DEF IInv
<1> QED BY <1>1, <1>2, PTL DEF Spec

\* Rows, slots, containers, requests and what was built, pulled and switched stay within
\* their types.
THEOREM ArtifactTypeCorrect == Spec => []TypeOK
<1>1. IInv => TypeOK
  <2>1. ASSUME IInv PROVE TypeOK
    <3>1. DOMAIN deps = 1 .. d BY <2>1 DEF IInv, TypeInv, d
    <3>2. \A i \in DOMAIN deps :
            /\ deps[i].commit \in Commits \cup {NoRef} /\ deps[i].image \in Refs \cup {NoRef}
            /\ deps[i].status \in Statuses
      BY <2>1, <3>1, RowFields DEF IInv
    <3>3. \A i \in 1 .. d : i \in 1 .. MaxDeployments BY <2>1, RowFields DEF IInv
    <3>4. posting \cup restores \cup stale \cup early \subseteq 1 .. MaxDeployments
      BY <2>1, <3>3 DEF IInv, TypeInv, d
    <3> QED BY <2>1, <3>2, <3>4 DEF IInv, TypeInv, TypeOK, Statuses, PCs
  <2> QED BY <2>1
<1> QED BY <1>1, Invariance, PTL

\* The commit on a row is the one its images were built from and what the color it made
\* active ran, however the branch moves while it is checked out and built; and a slot
\* names what its containers run, unless a failed run replaced them.
THEOREM CommitIsWhatRuns == Spec => []RecordedIsBuilt
<1>1. IInv => RecordedIsBuilt
  <2>1. ASSUME IInv PROVE RecordedIsBuilt
    <3>1. DOMAIN deps = 1 .. d BY <2>1 DEF IInv, TypeInv, d
    <3> QED BY <2>1, <3>1 DEF IInv, BuildInv, RecordedIsBuilt
  <2> QED BY <2>1
<1> QED BY <1>1, Invariance, PTL

\* A retry builds the commit its source recorded and pulls nothing but its image, along
\* any chain of retries and whatever answer of the queue is lost; only a retry requested
\* while the worker still ran its source may build another commit.
THEOREM RetriesRepeat == Spec => []RetryRepeats
<1>1. IInv => RetryRepeats
  <2>1. ASSUME IInv PROVE RetryRepeats
    <3>1. DOMAIN deps = 1 .. d BY <2>1 DEF IInv, TypeInv, d
    <3>2. ASSUME NEW i \in 1 .. d, deps[i].of > 0
          PROVE  LET source == deps[deps[i].of]
                 IN  /\ source.commit # NoRef /\ built[i] # NoRef /\ i \notin early =>
                          built[i] = source.commit
                     /\ pulled[i] \in {NoRef, source.image}
      <4>1. /\ deps[i].image = deps[deps[i].of].image
            /\ deps[deps[i].of].commit # NoRef /\ i \notin early =>
                 deps[i].commit = deps[deps[i].of].commit
        BY <2>1, <3>2 DEF IInv, RetryInv
      <4>2. (built[i] # NoRef => deps[i].commit = built[i]) /\ pulled[i] \in {NoRef, deps[i].image}
        BY <2>1 DEF IInv, BuildInv
      <4> QED BY <4>1, <4>2
    <3> QED BY <3>1, <3>2 DEF RetryRepeats
  <2> QED BY <2>1
<1> QED BY <1>1, Invariance, PTL

\* A deployment of the rollback endpoint that succeeds makes active containers that run
\* what its row names, unless the slots changed before its insert, a run was on at that
\* moment or a failed run had replaced those containers.
THEOREM RollbacksRestore == Spec => []RollbackRestoresNamed
<1>1. IInv => RollbackRestoresNamed BY DEF IInv, RollbackInv, RollbackRestoresNamed
<1> QED BY <1>1, Invariance, PTL

-----------------------------------------------------------------------------
\* The log of a deployment, for any number of lines, broken connections, sizes of the
\* channel and of the history, over Redis and in-process.

\* Stored lines come in the order of their ids.
Ordered(s) == \A i, j \in DOMAIN s : i < j /\ s[i] > 0 /\ s[j] > 0 => s[i] < s[j]
\* Stored lines of s are older than those of t.
Precedes(s, t) == \A x \in Range(s), y \in Range(t) : x > 0 /\ y > 0 => x < y
\* No line of s is newer than n.
UpTo(s, n) == \A x \in Range(s) : x <= n

\* What the browser has, what is on its way to it and what waits in the channel is
\* ordered, and the handler's lastEventID is ahead of the first two.
OrderInv ==
  /\ Ordered(got) /\ Ordered(wire) /\ Ordered(channel)
  /\ Precedes(got, wire) /\ Precedes(channel, outbox)
  /\ UpTo(got, rows) /\ UpTo(channel, rows) /\ UpTo(outbox, rows)
  /\ last <= rows
  /\ stream = "closed" => wire = <<>> /\ channel = <<>>
  /\ stream # "closed" => UpTo(got, last) /\ UpTo(wire, last)

\* A line is accounted for: the browser has it, it is on its way, or it was missed.
GapInv ==
  /\ subscribed => stream # "closed"
  /\ ~redis /\ stream # "closed" => subscribed
  /\ \A n \in Range(got) : \A id \in 1 .. n : id \in Range(got) \cup missed
  /\ stream # "closed" => \A id \in 1 .. last : id \in Range(got) \cup Range(wire) \cup missed
  /\ stream = "live" =>
       \A id \in last + 1 .. rows : id \in Range(channel) \cup Range(outbox) \cup missed

\* Everything together.
LogInv == LogTypeOK /\ OrderInv /\ GapInv

-----------------------------------------------------------------------------
\* A set of places in a sequence that is not empty has a last one.
LEMMA LastPlace ==
  ASSUME NEW n \in Nat, NEW S, S \subseteq 1 .. n, S # {}
  PROVE  Max(S) \in S /\ \A y \in S : Max(S) >= y
<1> DEFINE T == {n - x : x \in S}
           R == OpToRel(<, Nat)
<1>0. \A x \in S : x \in Nat /\ x <= n OBVIOUS
<1>1. T \subseteq Nat /\ T # {}
  <2>1. \A x \in S : n - x \in Nat BY <1>0
  <2>2. PICK x : x \in S OBVIOUS
  <2>3. n - x \in T BY <2>2
  <2> QED BY <2>1, <2>3
<1>2. IsWellFoundedOn(R, Nat) BY NatLessThanWellFounded
<1>3. PICK t \in T : \A y \in T : ~(<<y, t>> \in R)
  <2> HIDE DEF T, R
  <2> QED BY <1>1, <1>2, WFMin
<1>4. \A y \in T : ~(y < t) BY <1>1, <1>3 DEF OpToRel
<1>5. PICK x \in S : t = n - x OBVIOUS
<1>6. \A y \in S : x >= y
  <2> SUFFICES ASSUME NEW y \in S PROVE x >= y OBVIOUS
  <2>1. n - y \in T OBVIOUS
  <2>2. ~(n - y < n - x) BY <1>4, <1>5, <2>1
  <2>3. x \in Nat /\ y \in Nat /\ n \in Nat BY <1>0
  <2> HIDE DEF T, R
  <2> QED BY <2>2, <2>3
<1> QED BY <1>6 DEF Max

\* The Last-Event-ID is 0 or an id the browser has, and no id it has is larger.
LEMMA ClientLastFacts ==
  ASSUME LogTypeOK, Ordered(got)
  PROVE  /\ ClientLast = 0 \/ \E i \in DOMAIN got : got[i] = ClientLast
         /\ ClientLast \in 0 .. MaxLines
         /\ UpTo(got, ClientLast)
<1> DEFINE S == Numbered(got)
<1>0. got \in Seq(0 .. MaxLines) /\ MaxLines \in Nat BY LimitsAssumption DEF LogTypeOK
<1>1. S \subseteq 1 .. Len(got) /\ Len(got) \in Nat BY <1>0 DEF Numbered
<1>2. \A i \in DOMAIN got : got[i] \in 0 .. MaxLines BY <1>0
<1>3. CASE S = {}
  <2>1. ClientLast = 0 BY <1>3 DEF ClientLast
  <2>2. \A i \in DOMAIN got : ~(got[i] > 0) BY <1>3 DEF Numbered
  <2> QED BY <1>0, <1>2, <2>1, <2>2 DEF UpTo, Range
<1>4. CASE S # {}
  <2>1. Max(S) \in S /\ \A y \in S : Max(S) >= y
    <3> HIDE DEF S
    <3> QED BY <1>1, <1>4, LastPlace
  <2>2. ClientLast = got[Max(S)] BY <1>4 DEF ClientLast
  <2> DEFINE m == Max(S)
  <2>3. m \in DOMAIN got /\ got[m] > 0 /\ m \in 1 .. Len(got) BY <2>1, <1>1 DEF Numbered
  <2>4. ASSUME NEW i \in DOMAIN got PROVE got[i] <= got[m]
    <3>1. CASE ~(got[i] > 0) BY <3>1, <1>2, <2>3, <1>0
    <3>2. CASE got[i] > 0
      <4>1. i \in S BY <3>2 DEF Numbered
      <4>2. m >= i BY <4>1, <2>1
      <4>3. i \in 1 .. Len(got) BY <1>0
      <4>4. i < m \/ i = m BY <4>2, <4>3, <2>3, <1>1
      <4>5. CASE i < m BY <4>5, <3>2, <2>3, <1>2, <1>0 DEF Ordered
      <4>6. CASE i = m BY <4>6, <1>2, <1>0
      <4> QED BY <4>4, <4>5, <4>6
    <3> QED BY <3>1, <3>2
  <2> HIDE DEF m
  <2> QED BY <1>2, <2>2, <2>3, <2>4 DEF UpTo, Range, m
<1> QED BY <1>3, <1>4

-----------------------------------------------------------------------------
\* The ids of lines, 0 for one that was not stored.
Ids == 0 .. MaxLines

\* What holds of two sequences of ids holds of one after the other.
LEMMA Joined ==
  ASSUME NEW s \in Seq(Ids), NEW t \in Seq(Ids)
  PROVE  /\ s \o t \in Seq(Ids)
         /\ Len(s \o t) = Len(s) + Len(t)
         /\ Range(s \o t) = Range(s) \cup Range(t)
         /\ Ordered(s) /\ Ordered(t) /\ Precedes(s, t) => Ordered(s \o t)
<1>0. Len(s) \in Nat /\ Len(t) \in Nat /\ DOMAIN s = 1 .. Len(s) /\ DOMAIN t = 1 .. Len(t)
  OBVIOUS
<1>1. /\ s \o t \in Seq(Ids) /\ Len(s \o t) = Len(s) + Len(t)
      /\ DOMAIN (s \o t) = 1 .. Len(s) + Len(t) OBVIOUS
<1>2. \A i \in 1 .. Len(s) : (s \o t)[i] = s[i] OBVIOUS
<1>3. \A i \in 1 .. Len(t) : (s \o t)[Len(s) + i] = t[i] OBVIOUS
<1>4. \A i \in 1 .. Len(s) + Len(t) :
        i \in 1 .. Len(s) \/ \E j \in 1 .. Len(t) : i = Len(s) + j
  <2> SUFFICES ASSUME NEW i \in 1 .. Len(s) + Len(t), ~(i \in 1 .. Len(s))
               PROVE  \E j \in 1 .. Len(t) : i = Len(s) + j OBVIOUS
  <2>1. i - Len(s) \in 1 .. Len(t) /\ i = Len(s) + (i - Len(s)) BY <1>0
  <2> QED BY <2>1
<1>5. Range(s \o t) = Range(s) \cup Range(t)
  <2> DEFINE u == s \o t
  <2>1. ASSUME NEW x \in Range(s) PROVE x \in Range(u)
    <3>1. PICK i \in DOMAIN s : x = s[i] BY <2>1 DEF Range
    <3>2. i \in DOMAIN u /\ u[i] = x BY <1>0, <1>1, <1>2, <3>1
    <3> HIDE DEF u
    <3> QED BY <3>2 DEF Range
  <2>2. ASSUME NEW x \in Range(t) PROVE x \in Range(u)
    <3>1. PICK i \in DOMAIN t : x = t[i] BY <2>2 DEF Range
    <3>2. Len(s) + i \in DOMAIN u /\ u[Len(s) + i] = x BY <1>0, <1>1, <1>3, <3>1
    <3> HIDE DEF u
    <3> QED BY <3>2 DEF Range
  <2>3. ASSUME NEW x \in Range(u) PROVE x \in Range(s) \cup Range(t)
    <3>1. PICK i \in DOMAIN u : x = u[i]
      <4> HIDE DEF u
      <4> QED BY <2>3 DEF Range
    <3>2. CASE i \in 1 .. Len(s)
      <4>1. i \in DOMAIN s /\ x = s[i] BY <3>1, <3>2, <1>0, <1>2
      <4> QED BY <4>1 DEF Range
    <3>3. CASE \E j \in 1 .. Len(t) : i = Len(s) + j
      <4>1. PICK j \in 1 .. Len(t) : i = Len(s) + j BY <3>3
      <4>2. j \in DOMAIN t /\ x = t[j] BY <3>1, <4>1, <1>0, <1>3
      <4> QED BY <4>2 DEF Range
    <3> QED BY <3>1, <3>2, <3>3, <1>1, <1>4
  <2> HIDE DEF u
  <2>4. Range(u) = Range(s) \cup Range(t) BY <2>1, <2>2, <2>3
  <2> QED BY <2>4 DEF u
<1>6. ASSUME Ordered(s), Ordered(t), Precedes(s, t) PROVE Ordered(s \o t)
  <2> DEFINE u == s \o t
  <2> SUFFICES ASSUME NEW i \in DOMAIN u, NEW j \in DOMAIN u, i < j, u[i] > 0, u[j] > 0
               PROVE  u[i] < u[j]
    BY DEF Ordered
  <2>0. i \in 1 .. Len(s) + Len(t) /\ j \in 1 .. Len(s) + Len(t) BY <1>1
  <2>1. CASE i \in 1 .. Len(s) /\ j \in 1 .. Len(s)
    <3>1. u[i] = s[i] /\ u[j] = s[j] /\ i \in DOMAIN s /\ j \in DOMAIN s BY <2>1, <1>0, <1>2
    <3> HIDE DEF u
    <3> QED BY <3>1, <1>6 DEF Ordered
  <2>2. CASE i \in 1 .. Len(s) /\ \E k \in 1 .. Len(t) : j = Len(s) + k
    <3>1. PICK k \in 1 .. Len(t) : j = Len(s) + k BY <2>2
    <3>2. u[i] = s[i] /\ u[j] = t[k] /\ i \in DOMAIN s /\ k \in DOMAIN t
      BY <2>2, <3>1, <1>0, <1>2, <1>3
    <3> HIDE DEF u
    <3> QED BY <3>2, <1>6 DEF Precedes, Range
  <2>3. CASE j \in 1 .. Len(s) /\ \E k \in 1 .. Len(t) : i = Len(s) + k
    <3> HIDE DEF u
    <3> QED BY <2>3, <2>0, <1>0
  <2>4. CASE (\E k \in 1 .. Len(t) : i = Len(s) + k) /\ (\E k \in 1 .. Len(t) : j = Len(s) + k)
    <3>1. PICK k \in 1 .. Len(t) : i = Len(s) + k BY <2>4
    <3>2. PICK m \in 1 .. Len(t) : j = Len(s) + m BY <2>4
    <3>3. u[i] = t[k] /\ u[j] = t[m] /\ k \in DOMAIN t /\ m \in DOMAIN t
      BY <3>1, <3>2, <1>0, <1>3
    <3>4. k < m BY <3>1, <3>2, <1>0
    <3> HIDE DEF u
    <3> QED BY <3>3, <3>4, <1>6 DEF Ordered
  <2> QED BY <2>0, <2>1, <2>2, <2>3, <2>4, <1>4
<1> QED BY <1>1, <1>5, <1>6

\* A sequence of one line.
LEMMA Single ==
  ASSUME NEW x \in Ids
  PROVE  <<x>> \in Seq(Ids) /\ Len(<<x>>) = 1 /\ Range(<<x>>) = {x} /\ Ordered(<<x>>)
<1>1. DOMAIN <<x>> = {1} /\ <<x>>[1] = x OBVIOUS
<1>2. Range(<<x>>) = {x} BY <1>1 DEF Range
<1>3. Ordered(<<x>>)
  <2>1. \A i, j \in DOMAIN <<x>> : ~(i < j) OBVIOUS
  <2> QED BY <2>1 DEF Ordered
<1> QED BY <1>2, <1>3

\* No line.
LEMMA Empty == <<>> \in Seq(Ids) /\ Len(<<>>) = 0 /\ Range(<<>>) = {} /\ Ordered(<<>>)
<1>1. DOMAIN <<>> = {} OBVIOUS
<1> QED BY <1>1 DEF Range, Ordered

\* Taking the first line off a sequence.
LEMMA Rest ==
  ASSUME NEW s \in Seq(Ids), s # <<>>
  PROVE  /\ Head(s) \in Ids /\ Tail(s) \in Seq(Ids) /\ Len(Tail(s)) = Len(s) - 1
         /\ Range(s) = {Head(s)} \cup Range(Tail(s))
         /\ Ordered(s) => Ordered(Tail(s)) /\ Precedes(<<Head(s)>>, Tail(s))
<1>1. /\ Head(s) \in Ids /\ Tail(s) \in Seq(Ids) /\ Len(Tail(s)) = Len(s) - 1
      /\ \A i \in 1 .. Len(Tail(s)) : Tail(s)[i] = s[i + 1]
  BY HeadTailProperties
<1>2. /\ Len(s) \in Nat /\ Len(s) > 0 /\ DOMAIN s = 1 .. Len(s)
      /\ DOMAIN Tail(s) = 1 .. Len(s) - 1 /\ Head(s) = s[1]
  BY <1>1
<1> DEFINE t == Tail(s)
<1>3. \A i \in DOMAIN t : i + 1 \in DOMAIN s /\ t[i] = s[i + 1] BY <1>1, <1>2
<1>4. \A i \in DOMAIN s : i = 1 \/ \E j \in DOMAIN t : i = j + 1
  <2> SUFFICES ASSUME NEW i \in DOMAIN s, i # 1 PROVE \E j \in DOMAIN t : i = j + 1 OBVIOUS
  <2>1. i - 1 \in DOMAIN t /\ i = (i - 1) + 1 BY <1>2
  <2> QED BY <2>1
<1>5. DOMAIN t \subseteq Nat BY <1>2
<1>6. Head(s) = s[1] /\ 1 \in DOMAIN s BY <1>2
<1> HIDE DEF t
<1>7. Range(s) = {Head(s)} \cup Range(t)
  <2>1. ASSUME NEW x \in Range(s) PROVE x \in {Head(s)} \cup Range(t)
    <3>1. PICK i \in DOMAIN s : x = s[i] BY <2>1 DEF Range
    <3> QED BY <3>1, <1>3, <1>4, <1>6 DEF Range
  <2>2. ASSUME NEW x \in Range(t) PROVE x \in Range(s)
    <3>1. PICK i \in DOMAIN t : x = t[i] BY <2>2 DEF Range
    <3> QED BY <3>1, <1>3 DEF Range
  <2>3. Head(s) \in Range(s) BY <1>6 DEF Range
  <2> QED BY <2>1, <2>2, <2>3
<1>8. ASSUME Ordered(s) PROVE Ordered(t)
  <2> SUFFICES ASSUME NEW i \in DOMAIN t, NEW j \in DOMAIN t, i < j, t[i] > 0, t[j] > 0
               PROVE  t[i] < t[j]
    BY DEF Ordered
  <2>1. i + 1 < j + 1 BY <1>5
  <2> QED BY <2>1, <1>3, <1>8 DEF Ordered
<1>9. ASSUME Ordered(s) PROVE Precedes(<<Head(s)>>, t)
  <2> SUFFICES ASSUME NEW y \in Range(t), Head(s) > 0, y > 0 PROVE Head(s) < y
    BY <1>1, Single DEF Precedes
  <2>1. PICK j \in DOMAIN t : y = t[j] BY DEF Range
  <2>2. 1 < j + 1
    <3>1. j \in 1 .. Len(s) - 1 BY <1>2 DEF t
    <3> QED BY <3>1, <1>2
  <2> QED BY <2>1, <2>2, <1>3, <1>6, <1>9 DEF Ordered
<1> QED BY <1>1, <1>7, <1>8, <1>9 DEF t

\* The stored lines a stream starts with: all newer than its last one, in order, none
\* of them recognised as old.
LEMMA History ==
  ASSUME rows \in 0 .. MaxLines, last \in 0 .. MaxLines, last <= rows,
         NEW h, h = listDeploymentLogHistory(last)
  PROVE  /\ h \in Seq(Ids) /\ Ordered(h)
         /\ Range(h) \subseteq last + 1 .. rows
         /\ {i \in DOMAIN h : ~ShouldSend(last, h[i])} = {}
         /\ SubSeq(h, 1, Len(h)) = h
         /\ h # <<>> => Last(h) \in Range(h) /\ UpTo(h, Last(h))
<1>0. MaxLines \in Nat /\ HistoryLimit \in Nat \ {0} BY LimitsAssumption
<1>1. PICK b \in Nat, n \in Nat : h = [i \in 1 .. n |-> b + i] /\ b >= last /\ b + n <= rows
  <2>1. CASE last > 0
    <3> DEFINE n == IF rows - last > HistoryLimit THEN HistoryLimit ELSE rows - last
    <3>1. h = [i \in 1 .. n |-> last + i]
      BY <2>1 DEF listDeploymentLogHistory, ListDeploymentLogsAfter
    <3>2. n \in Nat /\ last + n <= rows /\ last \in Nat BY <1>0
    <3> HIDE DEF n
    <3> QED BY <3>1, <3>2
  <2>2. CASE ~(last > 0)
    <3> DEFINE from == IF rows > HistoryLimit THEN rows - HistoryLimit ELSE 0
               n == rows - from
    <3>1. h = [i \in 1 .. n |-> from + i]
      BY <2>2 DEF listDeploymentLogHistory, ListRecentDeploymentLogs
    <3>2. n \in Nat /\ from \in Nat /\ from >= last /\ from + n <= rows BY <1>0, <2>2
    <3> HIDE DEF n, from
    <3> QED BY <3>1, <3>2
  <2> QED BY <2>1, <2>2
<1>2. \A i \in 1 .. n : b + i \in last + 1 .. rows /\ b + i \in Ids
  <2> SUFFICES ASSUME NEW i \in 1 .. n PROVE b + i \in last + 1 .. rows /\ b + i \in Ids
    OBVIOUS
  <2>1. i \in Nat /\ 1 <= i /\ i <= n OBVIOUS
  <2>2. last \in Nat /\ rows \in Nat /\ rows <= MaxLines BY <1>0
  <2>3. b >= last /\ b + n <= rows BY <1>1
  <2>4. b + i >= last + 1 BY <2>1, <2>2, <2>3
  <2>5. b + i <= rows BY <2>1, <2>2, <2>3
  <2>6. b + i \in Nat /\ b + i <= MaxLines BY <2>1, <2>2, <2>5, <1>0
  <2> QED BY <2>2, <2>4, <2>5, <2>6, <1>0 DEF Ids
<1>3. h \in Seq(Ids) /\ Len(h) = n /\ DOMAIN h = 1 .. n
  <2>1. h = [i \in 1 .. n |-> b + i] BY <1>1
  <2> DEFINE e(i) == b + i
  <2>2. \A i \in 1 .. n : e(i) \in Ids BY <1>2
  <2> HIDE DEF e
  <2>3. [i \in 1 .. n |-> e(i)] \in Seq(Ids) BY <2>2
  <2>4. Len([i \in 1 .. n |-> e(i)]) = n OBVIOUS
  <2> QED BY <2>1, <2>3, <2>4 DEF e
<1>4. \A i \in DOMAIN h : h[i] = b + i /\ h[i] \in last + 1 .. rows BY <1>1, <1>2, <1>3
<1>5. Range(h) \subseteq last + 1 .. rows BY <1>4 DEF Range
<1>6. Ordered(h)
  <2> SUFFICES ASSUME NEW i \in DOMAIN h, NEW j \in DOMAIN h, i < j PROVE h[i] < h[j]
    BY DEF Ordered
  <2>1. i \in Nat /\ j \in Nat BY <1>3
  <2> QED BY <2>1, <1>1, <1>4
<1>7. {i \in DOMAIN h : ~ShouldSend(last, h[i])} = {}
  <2>1. \A i \in DOMAIN h : h[i] > last BY <1>0, <1>4
  <2> QED BY <2>1 DEF ShouldSend
<1>8. SubSeq(h, 1, Len(h)) = h BY <1>3, SubSeqFull
<1>9. ASSUME h # <<>> PROVE Last(h) \in Range(h) /\ UpTo(h, Last(h))
  <2>1. n > 0 BY <1>3, <1>9
  <2>2. n \in DOMAIN h /\ Last(h) = h[n] BY <1>3, <2>1 DEF Last
  <2>3. Last(h) \in Range(h) BY <2>2 DEF Range
  <2>4. \A i \in DOMAIN h : h[i] <= h[n]
    <3> SUFFICES ASSUME NEW i \in DOMAIN h PROVE h[i] <= h[n] OBVIOUS
    <3>1. i \in Nat /\ i <= n BY <1>3
    <3>2. b + i <= b + n BY <3>1, <1>1
    <3> QED BY <3>2, <1>4, <2>2
  <2> QED BY <2>2, <2>3, <2>4 DEF UpTo, Range
<1> QED BY <1>3, <1>5, <1>6, <1>7, <1>8, <1>9

\* What is later than m is later than what comes before m.
LEMMA Later ==
  ASSUME NEW l \in Nat, NEW m \in Nat, NEW n \in Nat, l <= m, NEW id \in m + 1 .. n
  PROVE  id \in l + 1 .. n /\ id > m /\ id > l /\ id \in Nat
<1>1. id \in Int /\ m + 1 <= id /\ id <= n OBVIOUS
<1>2. l + 1 <= id /\ id > m /\ id > l BY <1>1
<1> QED BY <1>1, <1>2

-----------------------------------------------------------------------------
\* The initial states satisfy the invariant.
LEMMA LogInitInv == LogInit => LogInv
<1> SUFFICES ASSUME LogInit PROVE LogInv OBVIOUS
<1> USE LimitsAssumption
<1>1. LogTypeOK
  <2>1. 0 \in 0 .. MaxLines /\ 0 \in 0 .. MaxUnsaved /\ 0 \in 0 .. MaxBreaks OBVIOUS
  <2>2. <<>> \in Seq(0 .. MaxLines) /\ Len(<<>>) = 0 OBVIOUS
  <2>3. Len(<<>>) <= Buffer /\ Len(<<>>) <= 1 BY <2>2
  <2>4. redis \in BOOLEAN /\ subscribed \in BOOLEAN /\ missed \subseteq 0 .. MaxLines
    BY DEF LogInit
  <2> QED BY <2>1, <2>2, <2>3, <2>4 DEF LogInit, LogTypeOK
<1>2. OrderInv BY Empty DEF LogInit, OrderInv, Precedes, UpTo
<1>3. GapInv BY Empty DEF LogInit, GapInv
<1> QED BY <1>1, <1>2, <1>3 DEF LogInv

\* Storing a line: the only one not accounted for is on its way to the bus.
LEMMA AppendDeploymentLogInv ==
  ASSUME LogInv, AppendDeploymentLog, redis' = redis PROVE LogInv'
<1> USE LimitsAssumption
<1>1. rows + 1 \in Ids /\ rows \in Ids BY DEF LogInv, LogTypeOK, AppendDeploymentLog, Ids
<1>2. /\ outbox' = <<rows + 1>> /\ rows' = rows + 1 /\ Range(outbox') = {rows + 1}
      /\ outbox' \in Seq(Ids) /\ Len(outbox') = 1
  BY <1>1, Single DEF AppendDeploymentLog
<1>3. Range(outbox) = {} BY Empty DEF AppendDeploymentLog
<1>4. LogTypeOK' BY <1>1, <1>2 DEF LogInv, LogTypeOK, AppendDeploymentLog, reader, Ids
<1>5. OrderInv'
  <2>1. \A x \in Ids : x <= rows => x < rows + 1 /\ x <= rows + 1 BY <1>1 DEF Ids
  <2>2. Range(got) \subseteq Ids /\ Range(channel) \subseteq Ids
    BY DEF LogInv, LogTypeOK, Range, Ids
  <2>3. UpTo(got, rows + 1) /\ UpTo(channel, rows + 1) /\ Precedes(channel, outbox')
        /\ UpTo(outbox', rows + 1)
    BY <2>1, <2>2, <1>1, <1>2 DEF LogInv, OrderInv, UpTo, Precedes, Ids
  <2>4. last <= rows + 1 BY <1>1 DEF LogInv, LogTypeOK, OrderInv, Ids
  <2> QED BY <1>2, <2>3, <2>4 DEF LogInv, OrderInv, AppendDeploymentLog, reader
<1>6. GapInv'
  <2>1. \A id \in last + 1 .. rows + 1 : id \in last + 1 .. rows \/ id = rows + 1
    BY <1>1 DEF LogInv, LogTypeOK, Ids
  <2> QED BY <2>1, <1>2, <1>3 DEF LogInv, GapInv, AppendDeploymentLog, reader
<1> QED BY <1>4, <1>5, <1>6 DEF LogInv

\* What is lost to the stream is missed, and nothing else.
LEMMA Losses ==
  ASSUME LogTypeOK, NEW ids \in SUBSET Ids, missed' = Lost(ids)
  PROVE  /\ missed' \subseteq 0 .. MaxLines /\ missed \subseteq missed'
         /\ stream = "live" => \A id \in ids : id > last => id \in missed'
BY DEF LogTypeOK, Lost, Ids

\* A line whose insert fails, or is done without an answer: it is stored then, and a
\* live stream misses it.
LEMMA AppendFailsInv ==
  ASSUME LogInv, AppendFails, redis' = redis PROVE LogInv'
<1> USE LimitsAssumption
<1>1. 0 \in Ids /\ rows \in Ids BY DEF Ids, LogInv, LogTypeOK
<1>2. /\ outbox' = <<0>> /\ Range(outbox') = {0}
      /\ outbox' \in Seq(Ids) /\ Len(outbox') = 1
  BY <1>1, Single DEF AppendFails
<1>3. Range(outbox) = {} BY Empty DEF AppendFails
<1>4. /\ rows' \in Ids /\ rows <= rows' /\ missed' \subseteq 0 .. MaxLines /\ missed \subseteq missed'
      /\ rows' = rows \/ rows' = rows + 1
      /\ rows' # rows /\ stream = "live" => rows' \in missed'
  <2>1. CASE UNCHANGED <<rows, missed>> BY <2>1, <1>1 DEF LogInv, LogTypeOK, Ids
  <2>2. CASE rows < MaxLines /\ rows' = rows + 1 /\ missed' = Lost({rows + 1})
    <3>1. rows' \in Ids /\ rows <= rows' /\ {rows + 1} \in SUBSET Ids BY <2>2, <1>1 DEF Ids
    <3>2. rows' > last BY <2>2, <1>1 DEF LogInv, LogTypeOK, OrderInv, Ids
    <3>3. LogTypeOK BY DEF LogInv
    <3>4. /\ missed' \subseteq 0 .. MaxLines /\ missed \subseteq missed'
          /\ stream = "live" => \A id \in {rows + 1} : id > last => id \in missed'
      BY <2>2, <3>1, <3>3, Losses
    <3> QED BY <2>2, <3>1, <3>2, <3>4
  <2> QED BY <2>1, <2>2 DEF AppendFails
<1>5. LogTypeOK' BY <1>1, <1>2, <1>4 DEF LogInv, LogTypeOK, AppendFails, reader, Ids
<1>6. OrderInv'
  <2>1. UpTo(outbox', rows') /\ Precedes(channel, outbox')
    BY <1>2, <1>4 DEF UpTo, Precedes, Ids
  <2>2. \A x \in Ids : x <= rows => x <= rows' BY <1>1, <1>4 DEF Ids
  <2>3. Range(got) \subseteq Ids /\ Range(channel) \subseteq Ids
    BY DEF LogInv, LogTypeOK, Range, Ids
  <2>4. UpTo(got, rows') /\ UpTo(channel, rows')
    BY <2>2, <2>3 DEF LogInv, OrderInv, UpTo
  <2>5. last <= rows' BY <2>2 DEF LogInv, LogTypeOK, OrderInv, Ids
  <2> QED BY <1>2, <2>1, <2>4, <2>5 DEF LogInv, OrderInv, AppendFails, reader
<1>7. GapInv'
  <2>1. \A id \in last + 1 .. rows' : id \in last + 1 .. rows \/ (id = rows' /\ rows' # rows)
    BY <1>1, <1>4 DEF LogInv, LogTypeOK, Ids
  <2>2. stream = "live" =>
          \A id \in last + 1 .. rows' : id \in Range(channel) \cup Range(outbox') \cup missed'
    BY <1>3, <1>4, <2>1 DEF LogInv, GapInv
  <2> QED BY <1>4, <2>2 DEF LogInv, GapInv, AppendFails, reader
<1> QED BY <1>5, <1>6, <1>7 DEF LogInv

\* Publishing a line: it joins the channel after older ones, or is missed.
LEMMA PublishInv ==
  ASSUME LogInv, Publish, redis' = redis PROVE LogInv'
<1> USE LimitsAssumption
<1> DEFINE reaches == subscribed /\ HasRoom
<1>1. outbox \in Seq(Ids) /\ channel \in Seq(Ids) /\ Len(outbox) = 1
  <2>1. outbox \in Seq(Ids) /\ channel \in Seq(Ids) /\ Len(outbox) <= 1
    BY DEF LogInv, LogTypeOK, Ids
  <2>2. outbox # <<>> BY DEF Publish
  <2>3. Len(outbox) # 0 /\ Len(outbox) \in Nat BY <2>1, <2>2
  <2>4. \A k \in Nat : k # 0 /\ k <= 1 => k = 1 OBVIOUS
  <2> QED BY <2>1, <2>3, <2>4
<1>2. outbox' = <<>> /\ Range(outbox') = {} /\ outbox' \in Seq(Ids) /\ Len(outbox') = 0
  BY Empty DEF Publish
<1>3. DOMAIN outbox = {1} /\ outbox[1] \in Ids BY <1>1
<1> DEFINE x == outbox[1]
<1>4. x \in Ids /\ Ordered(outbox) /\ Range(outbox) = {x} BY <1>3 DEF Ordered, Range
<1> HIDE DEF x
<1>5. /\ channel' = channel \/ (channel' = channel \o outbox /\ reaches)
      /\ reaches => channel' = channel \o outbox
  BY DEF Publish
<1>6. missed' = missed \/ missed' = missed \cup {id \in Range(outbox) : id > last}
  BY DEF Publish, Lost
<1>7. /\ channel \o outbox \in Seq(Ids) /\ Len(channel \o outbox) = Len(channel) + 1
      /\ Range(channel \o outbox) = Range(channel) \cup {x}
      /\ Ordered(channel \o outbox)
  BY <1>1, <1>4, Joined DEF LogInv, OrderInv
<1>8. channel' \in Seq(Ids) /\ Ordered(channel') /\ Range(channel) \subseteq Range(channel')
      /\ Range(channel') \subseteq Range(channel) \cup {x}
  BY <1>1, <1>5, <1>7 DEF LogInv, OrderInv
<1>9. LogTypeOK'
  <2>1. ASSUME ~redis PROVE Len(channel') <= Buffer
    <3>1. CASE channel' = channel BY <2>1, <3>1 DEF LogInv, LogTypeOK
    <3>2. CASE channel' = channel \o outbox /\ reaches
      <4>1. Len(channel) < Buffer BY <2>1, <3>2 DEF HasRoom
      <4>2. Len(channel) \in Nat BY <1>1
      <4> QED BY <3>2, <4>1, <4>2, <1>7
    <3> QED BY <1>5, <3>1, <3>2
  <2>2. missed' \subseteq 0 .. MaxLines BY <1>4, <1>6 DEF LogInv, LogTypeOK, Ids
  <2> QED BY <1>2, <1>8, <2>1, <2>2 DEF LogInv, LogTypeOK, Publish, Ids
<1>10. OrderInv'
  <2>1. UpTo(channel', rows) BY <1>4, <1>8 DEF LogInv, OrderInv, UpTo
  <2>2. Precedes(channel', outbox') /\ UpTo(outbox', rows) BY <1>2 DEF Precedes, UpTo
  <2>3. stream # "closed" \/ channel' = channel
    <3>1. CASE stream # "closed" BY <3>1
    <3>2. CASE stream = "closed" /\ subscribed BY <3>2 DEF LogInv, GapInv
    <3>3. CASE ~subscribed BY <3>3, <1>5
    <3> QED BY <3>1, <3>2, <3>3 DEF LogInv, LogTypeOK
  <2> QED BY <1>8, <2>1, <2>2, <2>3 DEF LogInv, OrderInv, Publish
<1>11. GapInv'
  <2>1. missed \subseteq missed' BY <1>6
  <2>2. ASSUME stream = "live", NEW id \in last + 1 .. rows
        PROVE  id \in Range(channel') \cup Range(outbox') \cup missed'
    <3>1. CASE id \in Range(channel) \cup missed BY <3>1, <1>8, <2>1
    <3>2. CASE id = x
      <4>1. CASE reaches BY <4>1, <3>2, <1>5, <1>7
      <4>2. CASE ~reaches
        <5>1. subscribed \/ redis BY <2>2 DEF LogInv, GapInv
        <5>2. missed' = missed \cup {y \in Range(outbox) : y > last}
          BY <4>2, <5>1, <2>2 DEF Publish, Lost
        <5>3. id > last BY <2>2 DEF LogInv, LogTypeOK
        <5> QED BY <5>2, <5>3, <3>2, <1>4
      <4> QED BY <4>1, <4>2
    <3> QED BY <3>1, <3>2, <2>2, <1>4 DEF LogInv, GapInv
  <2> QED BY <2>1, <2>2 DEF LogInv, GapInv, Publish
<1> QED BY <1>9, <1>10, <1>11 DEF LogInv

\* A line that is not published: a live stream misses it.
LEMMA PublishFailsInv ==
  ASSUME LogInv, PublishFails, redis' = redis PROVE LogInv'
<1>1. outbox' = <<>> /\ Range(outbox') = {} /\ outbox' \in Seq(Ids) /\ Len(outbox') = 0
  BY Empty DEF PublishFails
<1>2. Range(outbox) \in SUBSET Ids
  <2>1. outbox \in Seq(Ids) BY DEF LogInv, LogTypeOK, Ids
  <2>2. \A i \in DOMAIN outbox : outbox[i] \in Ids BY <2>1
  <2> QED BY <2>2 DEF Range
<1>3. /\ missed' \subseteq 0 .. MaxLines /\ missed \subseteq missed'
      /\ stream = "live" => \A id \in Range(outbox) : id > last => id \in missed'
  BY <1>2, Losses DEF LogInv, PublishFails
<1>4. LogTypeOK' BY <1>1, <1>3 DEF LogInv, LogTypeOK, PublishFails, reader, Ids
<1>5. OrderInv' BY <1>1 DEF LogInv, OrderInv, PublishFails, reader, Precedes, UpTo
<1>6. GapInv'
  <2>1. ASSUME stream = "live", NEW id \in last + 1 .. rows
        PROVE  id \in Range(channel) \cup missed'
    <3>1. id > last BY <2>1 DEF LogInv, LogTypeOK
    <3> QED BY <1>3, <2>1, <3>1 DEF LogInv, GapInv
  <2> QED BY <1>1, <1>3, <2>1 DEF LogInv, GapInv, PublishFails, reader
<1> QED BY <1>4, <1>5, <1>6 DEF LogInv

\* Connecting: the stream starts after the last line the browser has.
LEMMA ConnectInv ==
  ASSUME LogInv, Connect, redis' = redis PROVE LogInv'
<1> USE LimitsAssumption
<1>1. /\ ClientLast = 0 \/ ClientLast \in Range(got)
      /\ ClientLast \in 0 .. MaxLines /\ UpTo(got, ClientLast)
  BY ClientLastFacts DEF LogInv, OrderInv, Range
<1>2. wire = <<>> /\ channel = <<>> BY DEF LogInv, OrderInv, Connect
<1>3. LogTypeOK' BY <1>1 DEF LogInv, LogTypeOK, Connect, Subscribe
<1>4. OrderInv'
  <2>1. ClientLast <= rows BY <1>1 DEF LogInv, LogTypeOK, OrderInv, UpTo
  <2>2. UpTo(wire, ClientLast) BY <1>2, Empty DEF UpTo
  <2> QED BY <1>1, <2>1, <2>2 DEF LogInv, OrderInv, Connect
<1>5. GapInv'
  <2>1. ASSUME NEW id \in 1 .. ClientLast PROVE id \in Range(got) \cup missed
    BY <2>1, <1>1 DEF LogInv, GapInv
  <2> QED BY <2>1 DEF LogInv, GapInv, Connect, Subscribe
<1> QED BY <1>3, <1>4, <1>5 DEF LogInv

\* Redis has handled the SUBSCRIBE.
LEMMA RedisSubscribedInv ==
  ASSUME LogInv, RedisSubscribed, redis' = redis PROVE LogInv'
<1>1. LogTypeOK' BY DEF LogInv, LogTypeOK, RedisSubscribed
<1>2. OrderInv' BY DEF LogInv, OrderInv, RedisSubscribed
<1>3. GapInv' BY DEF LogInv, GapInv, RedisSubscribed
<1> QED BY <1>1, <1>2, <1>3 DEF LogInv

\* Sending the history: every stored line after the last one is sent or missed.
LEMMA SendHistoryInv ==
  ASSUME LogInv, SendHistory, redis' = redis PROVE LogInv'
<1> USE LimitsAssumption
<1> DEFINE h == listDeploymentLogHistory(last)
           old == {i \in DOMAIN h : ~ShouldSend(last, h[i])}
<1>0. rows \in 0 .. MaxLines /\ last \in 0 .. MaxLines /\ last <= rows
  BY DEF LogInv, LogTypeOK, OrderInv
<1>1. /\ h \in Seq(Ids) /\ Ordered(h) /\ Range(h) \subseteq last + 1 .. rows
      /\ old = {} /\ SubSeq(h, 1, Len(h)) = h
      /\ h # <<>> => Last(h) \in Range(h) /\ UpTo(h, Last(h))
  BY <1>0, History
<1>2. Cardinality(old) + 1 = 1
  <2>1. Cardinality({}) = 0 BY FS_EmptySet
  <2>2. old = {} BY <1>1
  <2> HIDE DEF old
  <2> QED BY <2>1, <2>2
<1>3. /\ wire' = wire \o SubSeq(h, Cardinality(old) + 1, Len(h))
      /\ last' = IF h = <<>> THEN last ELSE Advance(last, Last(h))
      /\ missed' = missed \cup ((last + 1 .. rows) \ Range(h))
      /\ stream = "open" /\ stream' = "live"
      /\ UNCHANGED <<rows, outbox, subscribed, channel, got, unsaved, breaks>>
  BY DEF SendHistory
<1> HIDE DEF h, old
<1>4. wire' = wire \o h BY <1>1, <1>2, <1>3
<1>5. UpTo(got, last) /\ UpTo(wire, last) /\ wire \in Seq(Ids)
  BY <1>3 DEF LogInv, OrderInv, LogTypeOK, Ids
<1>6. Range(got) \subseteq Ids /\ Range(wire) \subseteq Ids
  BY DEF LogInv, LogTypeOK, Range, Ids
<1>7. Precedes(got, h) /\ Precedes(wire, h) /\ Range(h) \subseteq Ids
  BY <1>0, <1>1, <1>5, <1>6 DEF Precedes, UpTo, Ids
<1>8. wire' \in Seq(Ids) /\ Ordered(wire') /\ Range(wire') = Range(wire) \cup Range(h)
  BY <1>1, <1>4, <1>5, <1>7, Joined DEF LogInv, OrderInv
<1>9. last' \in last .. rows /\ UpTo(h, last')
  <2>1. CASE h = <<>> BY <2>1, <1>0, <1>3, Empty DEF UpTo
  <2>2. CASE h # <<>>
    <3>1. Last(h) \in last + 1 .. rows BY <2>2, <1>1
    <3>2. last' = Last(h) BY <2>2, <3>1, <1>0, <1>3 DEF Advance
    <3> QED BY <3>1, <3>2, <2>2, <1>0, <1>1
  <2> QED BY <2>1, <2>2
<1>10. LogTypeOK'
  <2>1. last' \in 0 .. MaxLines BY <1>0, <1>9
  <2>2. missed' \subseteq 0 .. MaxLines
    <3>1. last + 1 .. rows \subseteq 0 .. MaxLines BY <1>0
    <3>2. missed \subseteq 0 .. MaxLines BY DEF LogInv, LogTypeOK
    <3> QED BY <3>1, <3>2, <1>3
  <2> QED BY <2>1, <2>2, <1>3, <1>8 DEF LogInv, LogTypeOK, Ids
<1>11. OrderInv'
  <2>1. Precedes(got, wire') BY <1>7, <1>8 DEF LogInv, OrderInv, Precedes
  <2>2. last' <= rows /\ last <= last' /\ last' \in Nat /\ last \in Nat BY <1>0, <1>9
  <2>3. UpTo(got, last') /\ UpTo(wire, last') BY <1>5, <1>6, <2>2 DEF UpTo, Ids
  <2>4. UpTo(wire', last') BY <1>8, <1>9, <2>3 DEF UpTo
  <2> QED BY <1>3, <1>8, <2>1, <2>2, <2>3, <2>4 DEF LogInv, OrderInv
<1>12. GapInv'
  <2>1. ASSUME NEW id \in 1 .. last' PROVE id \in Range(got) \cup Range(wire') \cup missed'
    <3>1. CASE id <= last
      <4>1. id \in 1 .. last BY <3>1, <2>1, <1>0, <1>9
      <4> QED BY <4>1, <1>3, <1>8 DEF LogInv, GapInv
    <3>2. CASE ~(id <= last)
      <4>1. id \in last + 1 .. rows BY <3>2, <2>1, <1>0, <1>9
      <4> QED BY <4>1, <1>3, <1>8
    <3> QED BY <3>1, <3>2
  <2>2. ASSUME NEW id \in last' + 1 .. rows PROVE id \in missed'
    <3>0. last' \in Nat /\ last <= last' /\ last \in Nat /\ rows \in Nat BY <1>0, <1>9
    <3>1. id \in last + 1 .. rows /\ id > last' /\ id \in Nat BY <3>0, <2>2, Later
    <3>2. id \notin Range(h) BY <3>0, <3>1, <1>9 DEF UpTo
    <3> QED BY <3>1, <3>2, <1>3
  <2>3. missed \subseteq missed' BY <1>3
  <2> QED BY <1>3, <2>1, <2>2, <2>3 DEF LogInv, GapInv
<1> QED BY <1>10, <1>11, <1>12 DEF LogInv

\* Sending or skipping a line of the channel: the channel is in order, so that what
\* lies between it and the last line sent was missed.
LEMMA SendEventInv ==
  ASSUME LogInv, SendEvent, redis' = redis PROVE LogInv'
<1> USE LimitsAssumption
<1> DEFINE x == Head(channel)
<1>0. rows \in 0 .. MaxLines /\ last \in 0 .. MaxLines /\ last <= rows /\ last \in Nat
      /\ rows \in Nat
  BY DEF LogInv, LogTypeOK, OrderInv
<1>1. channel \in Seq(Ids) /\ channel # <<>> /\ wire \in Seq(Ids) /\ stream = "live"
  BY DEF LogInv, LogTypeOK, SendEvent, Ids
<1>2. /\ x \in Ids /\ channel' \in Seq(Ids) /\ Len(channel') = Len(channel) - 1
      /\ Range(channel) = {x} \cup Range(channel')
      /\ Ordered(channel') /\ Precedes(<<x>>, channel')
  BY <1>1, Rest DEF LogInv, OrderInv, SendEvent
<1>3. Range(<<x>>) = {x} /\ <<x>> \in Seq(Ids) /\ Ordered(<<x>>) BY <1>2, Single
<1>4. x <= rows BY <1>2 DEF LogInv, OrderInv, UpTo
<1>5. Range(got) \subseteq Ids /\ Range(wire) \subseteq Ids
  BY DEF LogInv, LogTypeOK, Range, Ids
<1>6. UpTo(got, last) /\ UpTo(wire, last) BY <1>1 DEF LogInv, OrderInv
<1>7. wire' = wire \/ (wire' = wire \o <<x>> /\ (x = 0 \/ x > last))
  <2>1. Append(wire, x) = wire \o <<x>> BY <1>1, <1>2, AppendIsConcat
  <2>2. ShouldSend(last, x) => x = 0 \/ x > last BY <1>0, <1>2 DEF ShouldSend, Ids
  <2>3. wire' = IF ShouldSend(last, x) THEN Append(wire, x) ELSE wire BY DEF SendEvent
  <2> HIDE DEF x
  <2> QED BY <2>1, <2>2, <2>3
<1>8. last' \in last .. rows /\ last' >= x /\ last' \in Nat
  BY <1>0, <1>2, <1>4 DEF SendEvent, Advance, Ids
<1>9. wire' \in Seq(Ids) /\ Ordered(wire') /\ Precedes(got, wire') /\ UpTo(wire', last')
  <2>1. UpTo(wire, last') BY <1>0, <1>5, <1>6, <1>8 DEF UpTo, Ids
  <2>2. CASE wire' = wire BY <2>1, <2>2, <1>1 DEF LogInv, OrderInv
  <2>3. CASE wire' = wire \o <<x>> /\ (x = 0 \/ x > last)
    <3>1. Precedes(wire, <<x>>) /\ Precedes(got, <<x>>)
      BY <2>3, <1>0, <1>2, <1>3, <1>5, <1>6 DEF Precedes, UpTo, Ids
    <3>2. Range(wire') = Range(wire) \cup {x} /\ wire' \in Seq(Ids) /\ Ordered(wire')
      BY <2>3, <3>1, <1>1, <1>3, Joined DEF LogInv, OrderInv
    <3>3. Precedes(got, wire') BY <3>1, <3>2, <1>3 DEF LogInv, OrderInv, Precedes
    <3>4. UpTo(wire', last') BY <3>2, <2>1, <1>8 DEF UpTo
    <3> QED BY <3>2, <3>3, <3>4
  <2> QED BY <1>7, <2>2, <2>3
<1>10. LogTypeOK'
  <2>1. ~redis => Len(channel') <= Buffer
    <3>1. Len(channel) \in Nat BY <1>1
    <3> QED BY <3>1, <1>2 DEF LogInv, LogTypeOK
  <2>2. last' \in 0 .. MaxLines BY <1>0, <1>8
  <2> QED BY <2>1, <2>2, <1>2, <1>9 DEF LogInv, LogTypeOK, SendEvent, Ids
<1>11. OrderInv'
  <2>1. UpTo(got, last') BY <1>0, <1>5, <1>6, <1>8 DEF UpTo, Ids
  <2>2. Precedes(channel', outbox) /\ UpTo(channel', rows)
    BY <1>2 DEF LogInv, OrderInv, Precedes, UpTo
  <2>3. last' <= rows BY <1>0, <1>8
  <2> QED BY <1>1, <1>2, <1>9, <2>1, <2>2, <2>3 DEF LogInv, OrderInv, SendEvent
<1>12. GapInv'
  <2>1. ASSUME NEW id \in 1 .. last'
        PROVE  id \in Range(got) \cup Range(wire') \cup missed
    <3>0. Range(wire) \subseteq Range(wire')
      <4>1. CASE wire' = wire BY <4>1
      <4>2. CASE wire' = wire \o <<x>>
        <5>1. Range(wire \o <<x>>) = Range(wire) \cup {x} BY <1>1, <1>3, Joined
        <5> QED BY <4>2, <5>1
      <4> QED BY <1>7, <4>1, <4>2
    <3>1. CASE id <= last
      <4>1. id \in 1 .. last BY <3>1, <2>1, <1>0, <1>8
      <4> QED BY <4>1, <3>0, <1>1 DEF LogInv, GapInv
    <3>2. CASE ~(id <= last)
      <4>1. x > last /\ last' = x
        BY <3>2, <2>1, <1>0, <1>2 DEF SendEvent, Advance, Ids
      <4>2. wire' = wire \o <<x>>
        <5>1. Append(wire, x) = wire \o <<x>> BY <1>1, <1>2, AppendIsConcat
        <5> QED BY <5>1, <4>1 DEF SendEvent, ShouldSend
      <4>3. x \in Range(wire')
        <5>1. Range(wire \o <<x>>) = Range(wire) \cup {x} BY <1>1, <1>3, Joined
        <5> QED BY <4>2, <5>1
      <4>4. CASE id = x BY <4>3, <4>4
      <4>5. CASE id # x
        <5>1. id < x /\ id > 0 /\ x > 0 BY <4>1, <4>5, <2>1, <1>0, <1>2 DEF Ids
        <5>2. id \in last + 1 .. rows BY <3>2, <5>1, <2>1, <1>0, <1>2, <1>4 DEF Ids
        <5>3. id \in Range(channel) \cup Range(outbox) \cup missed
          BY <5>2, <1>1 DEF LogInv, GapInv
        <5>4. id \notin Range(channel')
          <6>1. id \in Range(channel') => x < id BY <5>1, <1>2, <1>3 DEF Precedes
          <6> QED BY <6>1, <5>1, <2>1, <1>2 DEF Ids
        <5>5. id \notin Range(outbox)
          <6>1. id \in Range(outbox) => x < id
            BY <5>1, <1>2 DEF LogInv, OrderInv, Precedes
          <6> QED BY <6>1, <5>1, <2>1, <1>2 DEF Ids
        <5> QED BY <5>3, <5>4, <5>5, <1>2, <4>5
      <4> QED BY <4>4, <4>5
    <3> QED BY <3>1, <3>2
  <2>2. ASSUME NEW id \in last' + 1 .. rows
        PROVE  id \in Range(channel') \cup Range(outbox) \cup missed
    <3>0. last' \in Nat /\ last <= last' /\ x <= last' /\ x \in Nat
      BY <1>0, <1>2, <1>8 DEF Ids
    <3> HIDE DEF x
    <3>a. id \in last + 1 .. rows /\ id > last' /\ id \in Nat BY <3>0, <2>2, <1>0, Later
    <3>1. id \in last + 1 .. rows /\ id # x BY <3>0, <3>a
    <3>2. id \in Range(channel) \cup Range(outbox) \cup missed
      BY <3>1, <1>1 DEF LogInv, GapInv
    <3> QED BY <3>1, <3>2, <1>2
  <2> QED BY <2>1, <2>2 DEF LogInv, GapInv, SendEvent
<1> QED BY <1>10, <1>11, <1>12 DEF LogInv

\* The browser receives a line: those before it on the wire are none.
LEMMA ReceiveInv ==
  ASSUME LogInv, Receive, redis' = redis PROVE LogInv'
<1> USE LimitsAssumption
<1> DEFINE x == Head(wire)
<1>1. wire \in Seq(Ids) /\ got \in Seq(Ids) /\ wire # <<>> /\ stream # "closed"
  BY DEF LogInv, LogTypeOK, OrderInv, Receive, Ids
<1>2. /\ x \in Ids /\ wire' \in Seq(Ids) /\ Range(wire) = {x} \cup Range(wire')
      /\ Ordered(wire') /\ Precedes(<<x>>, wire')
  BY <1>1, Rest DEF LogInv, OrderInv, Receive
<1>3. Range(<<x>>) = {x} /\ <<x>> \in Seq(Ids) /\ Ordered(<<x>>) BY <1>2, Single
<1>4. got' = got \o <<x>> BY <1>1, <1>2, AppendIsConcat DEF Receive
<1>5. Precedes(got, <<x>>) /\ Precedes(got, wire')
  BY <1>2, <1>3 DEF LogInv, OrderInv, Precedes
<1>6. got' \in Seq(Ids) /\ Range(got') = Range(got) \cup {x} /\ Ordered(got')
  BY <1>1, <1>3, <1>4, <1>5, Joined DEF LogInv, OrderInv
<1>7. UpTo(got, last) /\ UpTo(wire, last) BY <1>1 DEF LogInv, OrderInv
<1>8. last \in 0 .. MaxLines /\ rows \in 0 .. MaxLines /\ last <= rows /\ x <= last
  BY <1>2, <1>7 DEF LogInv, LogTypeOK, OrderInv, UpTo
<1>9. LogTypeOK' BY <1>2, <1>6 DEF LogInv, LogTypeOK, Receive, Ids
<1>10. OrderInv'
  <2>1. Precedes(got', wire') BY <1>2, <1>3, <1>5, <1>6 DEF Precedes
  <2>2. UpTo(got', last) /\ UpTo(wire', last) BY <1>2, <1>6, <1>7, <1>8 DEF UpTo
  <2>3. UpTo(got', rows)
    <3>1. x <= rows BY <1>2, <1>8 DEF Ids
    <3> QED BY <3>1, <1>6 DEF LogInv, OrderInv, UpTo
  <2> QED BY <1>1, <1>2, <1>6, <2>1, <2>2, <2>3 DEF LogInv, OrderInv, Receive
<1>11. GapInv'
  <2>1. ASSUME NEW id \in 1 .. x PROVE id \in Range(got') \cup missed
    <3>1. id \in 1 .. last BY <2>1, <1>2, <1>8 DEF Ids
    <3>2. id \in Range(got) \cup Range(wire) \cup missed
      BY <3>1, <1>1 DEF LogInv, GapInv
    <3>3. ASSUME id \in Range(wire'), id # x PROVE FALSE
      <4>1. id > 0 /\ x > 0 /\ id < x BY <2>1, <1>2, <3>3 DEF Ids
      <4>2. x < id BY <4>1, <3>3, <1>2, <1>3 DEF Precedes
      <4> QED BY <4>1, <4>2, <2>1, <1>2 DEF Ids
    <3> QED BY <3>2, <3>3, <1>2, <1>6
  <2>2. ASSUME NEW n \in Range(got'), NEW id \in 1 .. n PROVE id \in Range(got') \cup missed
    <3>1. CASE n = x BY <3>1, <2>1, <2>2
    <3>2. CASE n \in Range(got) BY <3>2, <2>2, <1>6 DEF LogInv, GapInv
    <3> QED BY <3>1, <3>2, <1>6
  <2>3. ASSUME NEW id \in 1 .. last PROVE id \in Range(got') \cup Range(wire') \cup missed
    BY <2>3, <1>1, <1>2, <1>6 DEF LogInv, GapInv
  <2> QED BY <2>2, <2>3 DEF LogInv, GapInv, Receive
<1> QED BY <1>9, <1>10, <1>11 DEF LogInv

\* The connection breaks.
LEMMA BreakInv ==
  ASSUME LogInv, Break, redis' = redis PROVE LogInv'
<1> USE LimitsAssumption
<1>1. <<>> \in Seq(0 .. MaxLines) /\ Len(<<>>) <= Buffer BY Empty DEF Ids
<1>2. LogTypeOK'
  <2>1. breaks' \in 0 .. MaxBreaks BY DEF LogInv, LogTypeOK, Break
  <2>2. channel' \in Seq(0 .. MaxLines) /\ Len(channel') <= Buffer /\ wire' \in Seq(0 .. MaxLines)
    BY <1>1 DEF Break
  <2> QED BY <2>1, <2>2 DEF LogInv, LogTypeOK, Break
<1>3. OrderInv' BY Empty DEF LogInv, OrderInv, Break, Precedes, UpTo
<1>4. GapInv' BY DEF LogInv, GapInv, Break
<1> QED BY <1>2, <1>3, <1>4 DEF LogInv

\* Every step keeps the invariant.
LEMMA LogNextInv == ASSUME LogInv, [LogNext]_logVars PROVE LogInv'
<1>1. CASE UNCHANGED logVars
  <2>1. LogTypeOK' = LogTypeOK BY <1>1 DEF logVars, LogTypeOK
  <2>2. OrderInv' = OrderInv BY <1>1 DEF logVars, OrderInv, Ordered, Precedes, UpTo
  <2>3. GapInv' = GapInv BY <1>1 DEF logVars, GapInv
  <2> QED BY <2>1, <2>2, <2>3 DEF LogInv
<1>2. CASE LogNext
  <2>1. redis' = redis BY <1>2 DEF LogNext
  <2>2. CASE AppendDeploymentLog BY <2>1, <2>2, AppendDeploymentLogInv
  <2>3. CASE AppendFails BY <2>1, <2>3, AppendFailsInv
  <2>4. CASE Publish BY <2>1, <2>4, PublishInv
  <2>5. CASE Connect BY <2>1, <2>5, ConnectInv
  <2>6. CASE RedisSubscribed BY <2>1, <2>6, RedisSubscribedInv
  <2>7. CASE SendHistory BY <2>1, <2>7, SendHistoryInv
  <2>8. CASE SendEvent BY <2>1, <2>8, SendEventInv
  <2>9. CASE Break BY <2>1, <2>9, BreakInv
  <2>10. CASE Receive BY <2>1, <2>10, ReceiveInv
  <2>11. CASE PublishFails BY <2>1, <2>11, PublishFailsInv
  <2> QED BY <1>2, <2>2, <2>3, <2>4, <2>5, <2>6, <2>7, <2>8, <2>9, <2>10, <2>11 DEF LogNext
<1> QED BY <1>1, <1>2

\* The invariant holds in every reachable state.
LEMMA LogCorrect == LogSpec => []LogInv
BY LogInitInv, LogNextInv, PTL DEF LogSpec

\* streamDeploymentLogs and LogBus keep their channel within its capacity and their ids
\* among the stored ones.
THEOREM LogTypeCorrect == LogSpec => []LogTypeOK
<1>1. LogInv => LogTypeOK BY DEF LogInv
<1> QED BY <1>1, LogCorrect, PTL

\* streamDeploymentLogs sends history and bus over any number of connections, and the
\* browser sees each stored line once and in order.
THEOREM LinesComeInOrder == LogSpec => []NeverRepeatsOrReorders
<1>1. LogInv => NeverRepeatsOrReorders
  BY DEF LogInv, OrderInv, Ordered, NeverRepeatsOrReorders, Numbered
<1> QED BY <1>1, LogCorrect, PTL

\* streamDeploymentLogs subscribes before it reads the history: what the browser lacks
\* before its last line was never published to its live stream or lay beyond the
\* history limit.
THEOREM NothingFallsBetween == LogSpec => []NoSilentGap
<1>1. ASSUME LogInv PROVE NoSilentGap
  <2>1. ClientLast = 0 \/ ClientLast \in Range(got)
    BY <1>1, ClientLastFacts DEF LogInv, OrderInv, Range
  <2> QED BY <1>1, <2>1 DEF LogInv, GapInv, NoSilentGap
<1> QED BY <1>1, LogCorrect, PTL
=============================================================================
