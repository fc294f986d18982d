-------------------------- MODULE DeploymentArtifact --------------------------
(* What a deployment runs: the commit it builds on the target or the image it *)
(* pulls.  One application, whose branch moves, and one worker.  A deployment *)
(* is created by a request, by the retry of another or by a rollback to the   *)
(* standby slot; the runner checks out the source, records the commit it      *)
(* found, builds or pulls and records what it started as the rollback point   *)
(* of a color.  A failing call is taken with and without its effect.          *)
EXTENDS Naturals, Sequences, FiniteSets

CONSTANTS
    Images,     \* image references
    NoRef,      \* neither commit nor image
    Requests,
    MaxCommits, MaxDeployments, MaxFaults

ASSUME RefAssumption ==
    /\ MaxCommits \in Nat \ {0} /\ MaxDeployments \in Nat /\ MaxFaults \in Nat
    /\ Images \cap (1 .. MaxCommits) = {} /\ NoRef \notin Images \cup (1 .. MaxCommits)

Commits == 1 .. MaxCommits
Refs == Commits \cup Images
Colors == {"blue", "green"}

VARIABLES
    head,      \* the head of the branch
    deps,      \* the rows of deployments, in order
    slots,     \* [color -> its slot: rollback identity and status]
    tree,      \* the commit checked out in the remote directory
    containers,\* [color -> what its containers run]
    pc,        \* the worker: "idle" or its step
    cur,       \* the deployment it runs
    color,     \* the color it deploys to
    asked,     \* [request -> the identity a rollback request has read]
    posting,   \* rows whose request may still wait for the answer of the queue
    faults,
    built,     \* [deployment -> the commit its images were built from]
    pulled,    \* [deployment -> the reference it pulled]
    switched,  \* [deployment -> what the color it made active runs]
    mislabelled, \* colors whose containers were replaced and the slot not yet
    restores,  \* deployments made by the rollback endpoint
    stale,     \* those inserted when the slot read was not the standby or a run was
               \* on, and those that activated a mislabelled color
    early      \* retries of a row marked failed while the worker ran it

host == <<slots, tree, containers, mislabelled>>
work == <<pc, cur, color>>
ghosts == <<built, pulled, switched>>
asides == <<restores, stale, early>>
vars == <<head, deps, host, work, asked, posting, faults, ghosts, asides>>

NoSlot == [ref |-> NoRef, status |-> "none"]
d == Len(deps)
Latest == deps[d]
Dep == deps[cur]
\* A row is inserted when none is in progress, so that only the last can be.
InProgress == d > 0 /\ Latest.status \in {"queued", "running"}

GetActiveDeploymentSlot == {c \in Colors : slots[c].status = "active"}

\* Mutant: any slot that is not empty.
AnySlot == {c \in Colors : slots[c].status # "none"}

GetStandbyDeploymentSlot ==
    {c \in Colors : slots[c].status = "standby"}

-----------------------------------------------------------------------------
\* The handlers.  CreateDeployment inserts a row unless one is in progress.
CreateDeployment(trigger, commit, image, of) ==
    /\ ~InProgress
    /\ d < MaxDeployments
    /\ deps' = Append(deps, [trigger |-> trigger, commit |-> commit, image |-> image,
                             of |-> of, status |-> "queued"])
    /\ posting' = posting \cup {d + 1}
    /\ UNCHANGED <<head, host, work, faults, ghosts>>

\* The body names the trigger; all but rollback are run alike.
createDeployment(trigger, commit, image) ==
    /\ commit \in Commits => commit <= head
    /\ CreateDeployment(trigger, commit, image, 0)
    /\ UNCHANGED <<asked, asides>>

\* markDeploymentEnqueueFailed, when RPUSH fails or its answer is lost: the row
\* is marked failed whatever became of it in the meantime.
EnqueueFails(i) ==
    /\ i \in posting /\ faults < MaxFaults
    /\ posting' = posting \ {i} /\ faults' = faults + 1
    /\ deps' = [deps EXCEPT ![i].status = "failed"]
    /\ UNCHANGED <<head, host, work, asked, ghosts, asides>>

Retryable(s) == s \in {"failed", "cancelled"}

\* Mutant: the retry builds whatever the branch has now.
UnpinnedRetry(s) ==
    /\ Retryable(deps[s].status)
    /\ CreateDeployment("retry", NoRef, deps[s].image, s)
    /\ early' = IF pc # "idle" /\ cur = s THEN early \cup {d + 1} ELSE early
    /\ UNCHANGED <<asked, restores, stale>>

\* retryDeploymentInput: commit, image and digest of the source.
retryDeployment(s) ==
    /\ Retryable(deps[s].status)
    /\ CreateDeployment("retry", deps[s].commit, deps[s].image, s)
    /\ early' = IF pc # "idle" /\ cur = s THEN early \cup {d + 1} ELSE early
    /\ UNCHANGED <<asked, restores, stale>>

\* rollbackApplication reads the standby slot ...
rollbackApplication(r) ==
    /\ asked[r] = NoRef
    /\ \E c \in GetStandbyDeploymentSlot :
         /\ slots[c].ref # NoRef
         /\ asked' = [asked EXCEPT ![r] = slots[c].ref]
    /\ UNCHANGED <<head, deps, host, work, posting, faults, ghosts, asides>>

\* ... and creates the deployment with its identity as the image_ref.
CreateRollback(r) ==
    /\ asked[r] # NoRef
    /\ CreateDeployment("rollback", NoRef, asked[r], 0)
    /\ asked' = [asked EXCEPT ![r] = NoRef]
    /\ restores' = restores \cup {d + 1}
    /\ stale' = IF pc = "idle" /\ \E c \in GetStandbyDeploymentSlot : slots[c].ref = asked[r]
                THEN stale ELSE stale \cup {d + 1}
    /\ UNCHANGED early

\* CreateDeployment refuses it.
RollbackRefused(r) ==
    /\ asked[r] # NoRef
    /\ InProgress
    /\ asked' = [asked EXCEPT ![r] = NoRef]
    /\ UNCHANGED <<head, deps, host, work, posting, faults, ghosts, asides>>

cancelDeployment ==
    /\ d > 0 /\ Latest.status = "queued"
    /\ deps' = [deps EXCEPT ![d].status = "cancelled"]
    /\ UNCHANGED <<head, host, work, asked, posting, faults, ghosts, asides>>

\* A push to the branch (external).
BranchMoves ==
    /\ head < MaxCommits
    /\ head' = head + 1
    /\ UNCHANGED <<deps, host, work, asked, posting, faults, ghosts, asides>>

-----------------------------------------------------------------------------
\* The runner.
isSourceDeploy == Dep.image = NoRef
shouldSyncRepository(dep) == dep.image = NoRef \/ dep.commit # NoRef

Step(from, to) == pc = from /\ pc' = to

\* nextDeploymentColors, after the row was set to running.
StartDeployment ==
    /\ d > 0 /\ Latest.status = "queued"
    /\ deps' = [deps EXCEPT ![d].status = "running"]
    /\ cur' = d
    /\ Step("idle", IF Latest.trigger = "rollback" THEN "rollback"
                    ELSE IF shouldSyncRepository(Latest) THEN "sync" ELSE "start")
    /\ color' = IF GetActiveDeploymentSlot = {"blue"} THEN "green" ELSE "blue"
    /\ UNCHANGED <<head, host, asked, posting, faults, ghosts, asides>>

\* Fetch and reset to the branch, then detach at the pinned commit.
SyncRepository ==
    /\ Step("sync", "resolve")
    /\ tree' = IF Dep.commit # NoRef THEN Dep.commit ELSE head
    /\ UNCHANGED <<head, deps, slots, containers, mislabelled, cur, color, asked, posting, faults>>
    /\ UNCHANGED <<ghosts, asides>>

\* Mutant: the head of the branch is recorded.
RecordHead == IF Dep.commit # NoRef THEN Dep.commit ELSE head

\* SetDeploymentCommitSHA: COALESCE(commit_sha, what git log says).
SetDeploymentCommitSHA == IF Dep.commit # NoRef THEN Dep.commit ELSE tree

resolveSourceCommit ==
    /\ Step("resolve", "start")
    /\ deps' = [deps EXCEPT ![cur].commit = SetDeploymentCommitSHA]
    /\ UNCHANGED <<head, host, cur, color, asked, posting, faults, ghosts, asides>>

\* Build from the tree or pull the image_ref, then up; the command for an
\* image_ref the registry has not got may fail (DeploymentFails).  The slot of
\* the color still has the identity of the containers this replaces.
Up ==
    /\ containers' = [containers EXCEPT ![color] = IF isSourceDeploy THEN tree ELSE Dep.image]
    /\ mislabelled' = mislabelled \cup {color}
    /\ IF isSourceDeploy
       THEN built' = [built EXCEPT ![cur] = tree] /\ UNCHANGED pulled
       ELSE pulled' = [pulled EXCEPT ![cur] = Dep.image] /\ UNCHANGED built

StartColor ==
    /\ Step("start", "slot")
    /\ Up
    /\ UNCHANGED <<head, deps, slots, tree, cur, color, asked, posting, faults, switched, asides>>

\* The image_ref, otherwise the commit_sha.
slotRollbackRef ==
    IF Dep.image # NoRef THEN Dep.image ELSE Dep.commit

UpsertSlot ==
    /\ slots' = [slots EXCEPT ![color] = [ref |-> slotRollbackRef, status |-> "standby"]]
    /\ mislabelled' = mislabelled \ {color}

upsertSlot ==
    /\ Step("slot", "activate")
    /\ UpsertSlot
    /\ UNCHANGED <<head, deps, tree, containers, cur, color, asked, posting, faults, ghosts, asides>>

\* rollback: the standby slot of this moment.
loadRollbackSlot ==
    /\ Step("rollback", "activate")
    /\ GetStandbyDeploymentSlot # {}
    /\ color' \in GetStandbyDeploymentSlot
    /\ UNCHANGED <<head, deps, host, cur, asked, posting, faults, ghosts, asides>>

ActivateDeploymentSlot ==
    slots' = [c \in Colors |->
         IF c = color THEN [slots[c] EXCEPT !.status = "active"]
         ELSE IF slots[c].status = "active" THEN [slots[c] EXCEPT !.status = "standby"]
         ELSE slots[c]]

\* Traffic has moved: the slot is activated and the row succeeds, also one that
\* was marked failed under the worker.
complete ==
    /\ Step("activate", "idle")
    /\ ActivateDeploymentSlot
    /\ switched' = [switched EXCEPT ![cur] = containers[color]]
    /\ deps' = [deps EXCEPT ![cur].status = "succeeded"]
    /\ stale' = IF cur \in restores /\ color \in mislabelled THEN stale \cup {cur} ELSE stale
    /\ UNCHANGED <<head, tree, containers, mislabelled, cur, color, asked, posting, faults>>
    /\ UNCHANGED <<built, pulled, restores, early>>

\* A run ends without success: there is nothing to roll back to, or a command
\* or a statement fails, with its effect or without.  The row is marked failed,
\* by the runner or by the recovery after it died.
DeploymentFails ==
    /\ pc # "idle" /\ pc' = "idle"
    /\ \/ pc = "rollback" /\ GetStandbyDeploymentSlot = {} /\ UNCHANGED faults
       \/ faults < MaxFaults /\ faults' = faults + 1
    /\ \/ pc = "start" /\ Up /\ UNCHANGED slots
       \/ pc = "slot" /\ UpsertSlot /\ UNCHANGED <<containers, built, pulled>>
       \/ pc = "activate" /\ ActivateDeploymentSlot
          /\ UNCHANGED <<containers, mislabelled, built, pulled>>
       \/ UNCHANGED <<slots, containers, mislabelled, built, pulled>>
    /\ \E commit \in {Dep.commit} \cup (IF pc = "resolve" THEN {SetDeploymentCommitSHA} ELSE {}) :
         deps' = [deps EXCEPT ![cur] = [@ EXCEPT !.commit = commit, !.status = "failed"]]
    /\ UNCHANGED <<head, tree, cur, color, asked, posting, switched, asides>>

-----------------------------------------------------------------------------
Init ==
    /\ head = 1 /\ deps = <<>>
    /\ slots = [c \in Colors |-> NoSlot]
    /\ containers = [c \in Colors |-> NoRef]
    /\ tree = NoRef /\ pc = "idle" /\ cur = 0 /\ color = "blue"
    /\ asked = [r \in Requests |-> NoRef] /\ posting = {} /\ faults = 0
    /\ built = [i \in 1 .. MaxDeployments |-> NoRef]
    /\ pulled = built /\ switched = built
    /\ mislabelled = {} /\ restores = {} /\ stale = {} /\ early = {}

Worker ==
    \/ StartDeployment \/ SyncRepository \/ resolveSourceCommit \/ StartColor
    \/ upsertSlot \/ loadRollbackSlot \/ complete

Next ==
    \/ \E trigger \in {"manual", "rollback"}, commit \in Commits \cup {NoRef},
         image \in Images \cup {NoRef} : createDeployment(trigger, commit, image)
    \/ \E i \in posting : EnqueueFails(i)
    \/ \E s \in DOMAIN deps : retryDeployment(s)
    \/ \E r \in Requests : rollbackApplication(r) \/ CreateRollback(r) \/ RollbackRefused(r)
    \/ cancelDeployment \/ BranchMoves
    \/ Worker \/ DeploymentFails

Spec == Init /\ [][Next]_vars

-----------------------------------------------------------------------------
\* The type invariant of the module.
TypeOK ==
    /\ head \in Commits /\ tree \in Commits \cup {NoRef}
    /\ \A i \in DOMAIN deps :
         /\ deps[i].commit \in Commits \cup {NoRef} /\ deps[i].image \in Refs \cup {NoRef}
         /\ deps[i].status \in {"queued", "running", "succeeded", "failed", "cancelled"}
    /\ \A c \in Colors : slots[c].status # "none" => slots[c].ref \in Refs
    /\ pc \in {"idle", "sync", "resolve", "start", "slot", "rollback", "activate"}
    /\ color \in Colors
    /\ asked \in [Requests -> Refs \cup {NoRef}]
    /\ containers \in [Colors -> Refs \cup {NoRef}] /\ cur \in 0 .. Len(deps)
    /\ posting \cup restores \cup stale \cup early \subseteq 1 .. MaxDeployments

\* The commit on the row of a deployment is the one its images were built from,
\* though the branch moves at any moment, and what the color it made active ran;
\* and a slot names what the containers of its color run, unless they were
\* replaced by a run that failed before it recorded them.
RecordedIsBuilt ==
    /\ \A i \in DOMAIN deps : built[i] # NoRef =>
         /\ deps[i].commit = built[i]
         /\ deps[i].status = "succeeded" => switched[i] = built[i]
    /\ \A c \in Colors \ mislabelled : slots[c].ref = containers[c]

\* A retry runs what the row it retries had, after any number of retries and pushes:
\* it builds the commit that row recorded, however far the branch has moved, and it
\* pulls nothing but that row's image, so that the retry of a source deployment pulls
\* nothing (retryDeploymentInput).  The commit of a row that was marked failed by its
\* request while the worker ran it can be recorded after the retry copied the row;
\* those retries repeat the image only.
RetryRepeats ==
    \A i \in DOMAIN deps : deps[i].of > 0 =>
        LET source == deps[deps[i].of]
        IN  /\ source.commit # NoRef /\ built[i] # NoRef /\ i \notin early =>
                 built[i] = source.commit
            /\ pulled[i] \in {NoRef, source.image}

\* A deployment of the rollback endpoint that succeeds makes active containers that
\* run what its row names, though other requests, failures and marks of its row come
\* in between.  Left out are rollbacks whose insert came when the standby slot was
\* another than the one read, or while a run was on, and standby colors whose
\* containers a failed run has replaced; and a deployment posted with the trigger
\* rollback, which takes the standby slot whatever it names.
RollbackRestoresNamed ==
    \A i \in restores \ stale :
        deps[i].status = "succeeded" => switched[i] = deps[i].image

=============================================================================
