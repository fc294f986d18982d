------------------------- MODULE DeploymentLifecycle -------------------------
(***************************************************************************)
(* What the deployments table promises, without Redis, handlers, workers,  *)
(* crashes or failed calls: a deployment is a single-use lock on its       *)
(* application.  Submitting takes the lock, ending releases it, and a row  *)
(* that has ended never takes it again.                                    *)
(***************************************************************************)
CONSTANTS Applications, NoApplication, Ids

VARIABLES
  phase,   \* "none", "queued", "running" or "done"
  owner    \* the application a row belongs to

vars == <<phase, owner>>

Live(d) == phase[d] \in {"queued", "running"}

Init ==
  /\ phase = [d \in Ids |-> "none"]
  /\ owner = [d \in Ids |-> NoApplication]

Submit(d, a) ==
  /\ phase[d] = "none"
  /\ \A e \in Ids : Live(e) => owner[e] # a
  /\ phase' = [phase EXCEPT ![d] = "queued"]
  /\ owner' = [owner EXCEPT ![d] = a]

Begin(d) ==
  /\ phase[d] = "queued"
  /\ phase' = [phase EXCEPT ![d] = "running"]
  /\ UNCHANGED owner

\* Several rows can end in one step: recovery fails every running one.
End(S) ==
  /\ \A d \in S : Live(d)
  /\ phase' = [d \in Ids |-> IF d \in S THEN "done" ELSE phase[d]]
  /\ UNCHANGED owner

Next ==
  \/ \E d \in Ids, a \in Applications : Submit(d, a)
  \/ \E d \in Ids : Begin(d)
  \/ \E S \in SUBSET Ids : End(S)

Spec == Init /\ [][Next]_vars
=============================================================================
