------------------------------ MODULE ProxyRoutes ------------------------------
(***************************************************************************)
(* Proxy routes of one server: the rows an operator saves, the commands    *)
(* that put them on the host, and who runs them.  A manual apply, a        *)
(* deletion and the deployment worker each read the rows, run commands     *)
(* over SSH and write the outcome back, and none of them locks anything.   *)
(*                                                                         *)
(* A host keeps one file per route and reloads them all (Caddy), one file  *)
(* per route that is picked up at once (Traefik), or one shared Caddyfile  *)
(* that a command reads and rewrites as a whole.                           *)
(***************************************************************************)
EXTENDS Naturals, Sequences, FiniteSets, SequencesExt

CONSTANTS
  Colors,     \* "blue" and "green"
  Domains,    \* domains
  Requests,   \* HTTP requests that apply or delete a route
  Worker,     \* the deployment worker
  MaxSaves,   \* bound: routes saved
  MaxFaults   \* bound: calls that fail, for each kind of proxy

\* servers.proxy_type, and for Caddy whether it runs in a container from one shared
\* Caddyfile.
Proxies == {"none", "traefik", "caddy", "caddyShared"}
Off == "off"

ASSUME ProxyRoutesAssumption ==
  /\ IsFiniteSet(Domains)
  /\ Worker \notin Requests
  /\ Off \notin Colors
  /\ MaxSaves \in Nat /\ MaxFaults \in [Proxies -> Nat]

Upstreams == Colors \cup {Off}
Kinds == {"colored", "plain", "unlinked"}  \* both color upstreams, none, no application
Absent == [id |-> 0, status |-> "absent", upstream |-> Off, kind |-> "plain"]
Procs == Requests \cup {Worker}

VARIABLES
  proxy,    \* the server's proxy, fixed: see Proxies
  row,      \* proxy_routes, by domain
  ids,      \* rows created
  file,     \* host: upstream configured for each domain
  live,     \* host: upstream the proxy has loaded for each domain
  proc,     \* the work of each request and of the worker
  faults,   \* calls that failed
  blurred,  \* history: domains two actors worked on at once, or left half way
  hidden    \* history: domains whose row is pending after a command was sent

vars == <<proxy, row, ids, file, live, proc, faults, blurred, hidden>>
tables == <<row, ids>>
disks == <<file, live>>

Unread == [d \in {} |-> Off]
Idle == [pc |-> "idle", op |-> "none", plan |-> <<>>, k |-> 0, seen |-> Unread, alone |-> FALSE]
On(p) == {proc[p].plan[i].domain : i \in 1..Len(proc[p].plan)}
Busy(d) == \E p \in Procs : d \in On(p)
At(p, pc) == proc[p].pc = pc
Goto(p, pc) == proc' = [proc EXCEPT ![p].pc = pc]
Now(p) == proc[p].plan[proc[p].k]
Want(p) == IF proc[p].op = "undo" THEN Now(p).was ELSE Now(p).want
Fault == faults < MaxFaults[proxy] /\ faults' = faults + 1

(***************************************************************************)
(* Statements.                                                             *)
(***************************************************************************)
\* Mutant: a saved route keeps its status.
SaveKeepsStatus(d, u, kind) ==
  [id |-> IF row[d] = Absent THEN ids + 1 ELSE row[d].id, upstream |-> u, kind |-> kind,
   status |-> IF row[d] = Absent THEN "pending" ELSE row[d].status]

\* INSERT ... ON CONFLICT (server_id, domain) DO UPDATE: the row keeps its id.
CreateProxyRoute(d, u, kind) ==
  [id |-> IF row[d] = Absent THEN ids + 1 ELSE row[d].id, upstream |-> u, kind |-> kind,
   status |-> "pending"]

\* A status update by id: nothing when the row is gone.
SetStatus(item, status) ==
  [row EXCEPT ![item.domain].status = IF row[item.domain].id = item.id THEN status ELSE @]

MarkProxyRouteApplied(item) == SetStatus(item, "applied")
MarkProxyRouteFailed(item) == SetStatus(item, "failed")

\* Those routes of the plan that still have their row.
Kept(plan) == {i \in 1..Len(plan) : row[plan[i].domain].id = plan[i].id}
PromoteProxyRoutes(plan) ==
  [d \in Domains |->
     IF \E i \in Kept(plan) : plan[i].domain = d
       THEN LET i == CHOOSE i \in Kept(plan) : plan[i].domain = d
            IN  [row[d] EXCEPT !.status = "applied", !.upstream = plan[i].want]
       ELSE row[d]]

DeleteProxyRoute(item) ==
  [row EXCEPT ![item.domain] = IF @.id = item.id THEN Absent ELSE @]

GetProxyRouteTarget(d) ==
  [domain |-> d, id |-> row[d].id, want |-> row[d].upstream, was |-> row[d].upstream]

\* The routes of the application, in a fixed order.
ListProxyRouteTargetsForApplication ==
  LET linked == {d \in Domains : row[d] # Absent /\ row[d].kind # "unlinked"}
      names == SetToSeq(linked)
  IN  [i \in 1..Len(names) |-> GetProxyRouteTarget(names[i])]

(***************************************************************************)
(* Commands on the host.                                                   *)
(***************************************************************************)
SharedFile == proxy = "caddyShared"
ValidateTarget == proxy # "none"
First == IF SharedFile THEN "read" ELSE "write"

\* Someone else works on the domain, or on the file it is kept in.
Overlap(ds) ==
  IF SharedFile /\ (\E p \in Procs : ~At(p, "idle")) THEN Domains
  ELSE {d \in ds : Busy(d)}

\* alone (history): nobody else was at work since this actor began.
Begin(p, op, plan, pc) ==
  /\ At(p, "idle")
  /\ proc' = [q \in Procs |->
       IF q # p THEN [proc[q] EXCEPT !.alone = FALSE]
       ELSE [Idle EXCEPT !.pc = pc, !.op = op, !.plan = plan, !.k = 1,
                         !.alone = \A r \in Procs : At(r, "idle")]]
  /\ blurred' = blurred \cup Overlap({plan[i].domain : i \in 1..Len(plan)})

\* The script of a shared Caddyfile reads all of it.
ReadCaddyfile(p) ==
  /\ At(p, "read")
  /\ proc' = [proc EXCEPT ![p].pc = "write", ![p].seen = file]
  /\ UNCHANGED <<tables, disks, faults, blurred, hidden>>

\* Mutant: the removal leaves the file.
KeepFile(p) ==
  LET base == IF SharedFile THEN proc[p].seen ELSE file
  IN  [base EXCEPT ![Now(p).domain] = IF Want(p) = Off THEN @ ELSE Want(p)]

\* The configuration with this route written, or removed.
Written(p) ==
  IF SharedFile THEN [proc[p].seen EXCEPT ![Now(p).domain] = Want(p)]
  ELSE [file EXCEPT ![Now(p).domain] = Want(p)]

WriteConfig(p) ==
  /\ At(p, "write")
  /\ file' = Written(p)
  /\ IF proxy = "traefik" THEN live' = file' /\ Goto(p, "done")
                              ELSE live' = live /\ Goto(p, "reload")
  /\ UNCHANGED <<tables, faults, blurred, hidden>>

\* caddy validate passes and the reload loads every route.
Reload(p) ==
  /\ At(p, "reload")
  /\ live' = file
  /\ Goto(p, "done")
  /\ UNCHANGED <<tables, file, faults, blurred, hidden>>

\* The command exits with an error, times out, or its outcome is lost.
CommandFails(p) ==
  /\ proc[p].pc \in {"read", "write", "reload", "done"}
  /\ Fault
  /\ Goto(p, "error")
  /\ UNCHANGED <<tables, disks, blurred, hidden>>

End(p) == proc' = [proc EXCEPT ![p] = Idle]

(***************************************************************************)
(* The HTTP handlers.                                                      *)
(***************************************************************************)
\* createProxyRoute.
SaveRoute(d, u, kind) ==
  /\ ValidateTarget
  /\ ids < MaxSaves
  /\ row' = [row EXCEPT ![d] = CreateProxyRoute(d, u, kind)]
  /\ ids' = ids + 1
  /\ hidden' = IF row[d].status \in {"applied", "failed"} THEN hidden \cup {d} ELSE hidden
  /\ blurred' = IF Busy(d) THEN blurred \cup {d} ELSE blurred
  /\ proc' = [p \in Procs |-> [proc[p] EXCEPT !.alone = @ /\ d \notin On(p)]]
  /\ UNCHANGED <<disks, faults>>

\* Manager.Apply up to the command.
BeginApply(p, d) ==
  /\ row[d] # Absent
  /\ Begin(p, "apply", <<GetProxyRouteTarget(d)>>, First)
  /\ UNCHANGED <<tables, disks, faults, hidden>>

\* A route is marked failed before any command of it was sent.
Refuse(item) ==
  /\ row' = MarkProxyRouteFailed(item)
  /\ hidden' = hidden \ {item.domain}
  /\ blurred' = IF Busy(item.domain) THEN blurred \cup {item.domain} ELSE blurred

\* The server has no SSH key, or the command cannot be built.
ApplyRefused(p, d) ==
  /\ At(p, "idle") /\ row[d] # Absent
  /\ Fault
  /\ Refuse(GetProxyRouteTarget(d))
  /\ UNCHANGED <<ids, disks, proc>>

\* A route that one actor alone has just put on the host is no longer blurred.
Cleared(p) == IF proc[p].alone THEN blurred \ {Now(p).domain} ELSE blurred

ApplyDone(p) ==
  /\ At(p, "done") /\ proc[p].op = "apply"
  /\ row' = MarkProxyRouteApplied(Now(p))
  /\ hidden' = hidden \ {Now(p).domain}
  /\ blurred' = Cleared(p)
  /\ End(p)
  /\ UNCHANGED <<ids, disks, faults>>

\* markFailed; it may fail as well, for one when the context the command ran under has
\* expired.
MarkFailed(p) ==
  \/ row' = MarkProxyRouteFailed(Now(p)) /\ hidden' = hidden \ {Now(p).domain}
  \/ row' = row /\ hidden' = hidden \cup {Now(p).domain}

ApplyFails(p) ==
  /\ At(p, "error") /\ proc[p].op = "apply"
  /\ MarkFailed(p)
  /\ End(p)
  /\ UNCHANGED <<ids, disks, faults, blurred>>

\* deleteProxyRoute: a pending route is not taken off the host.
BeginDelete(p, d) ==
  /\ row[d] # Absent
  /\ Begin(p, "delete", <<[GetProxyRouteTarget(d) EXCEPT !.want = Off]>>,
           IF row[d].status # "pending" THEN First ELSE "done")
  /\ UNCHANGED <<tables, disks, faults, hidden>>

DeleteDone(p) ==
  /\ At(p, "done") /\ proc[p].op = "delete"
  /\ row' = DeleteProxyRoute(Now(p))
  /\ End(p)
  /\ UNCHANGED <<ids, disks, faults, blurred, hidden>>

\* The row stays as it was, whatever the command did.
DeleteFails(p) ==
  /\ At(p, "error") /\ proc[p].op = "delete"
  /\ End(p)
  /\ blurred' = blurred \cup {Now(p).domain}
  /\ UNCHANGED <<tables, disks, faults, hidden>>

(***************************************************************************)
(* The routes of a deployment: Runner.applyProxyRoutes.                    *)
(***************************************************************************)
\* proxyRouteUpstream fails for a route without color upstreams; nothing was run yet.
PromoteRefused(p) ==
  LET plan == ListProxyRouteTargetsForApplication
      bad == {i \in 1..Len(plan) : row[plan[i].domain].kind = "plain"}
  IN  /\ p = Worker /\ At(p, "idle")
      /\ bad # {}
      /\ Refuse(plan[CHOOSE i \in bad : \A j \in bad : i <= j])
      /\ UNCHANGED <<ids, disks, proc, faults>>

BeginPromote(p, color) ==
  LET plan == ListProxyRouteTargetsForApplication
  IN  /\ p = Worker
      /\ plan # <<>>
      /\ \A i \in 1..Len(plan) : row[plan[i].domain].kind = "colored"
      /\ Begin(p, "promote", [i \in 1..Len(plan) |-> [plan[i] EXCEPT !.want = color]], First)
      /\ UNCHANGED <<tables, disks, faults, hidden>>

NextRoute(p) ==
  /\ At(p, "done") /\ proc[p].op = "promote" /\ proc[p].k < Len(proc[p].plan)
  /\ proc' = [proc EXCEPT ![p].pc = First, ![p].k = @ + 1]
  /\ UNCHANGED <<tables, disks, faults, blurred, hidden>>

\* rollbackProxyRoutes over the first n routes, last one first.
Undo(p, n) ==
  IF n = 0 THEN End(p)
  ELSE proc' = [proc EXCEPT ![p].pc = First, ![p].op = "undo", ![p].k = n]

\* Rows deleted meanwhile: the others are promoted all the same, then undone on the host.
Promote(p) ==
  LET plan == proc[p].plan
  IN  /\ At(p, "done") /\ proc[p].op = "promote" /\ proc[p].k = Len(plan)
      /\ row' = PromoteProxyRoutes(plan)
      /\ hidden' = hidden \ On(p)
      /\ IF Cardinality(Kept(plan)) = Len(plan)
           THEN End(p) /\ blurred' = blurred
           ELSE Undo(p, Len(plan)) /\ blurred' = blurred \cup On(p)
      /\ UNCHANGED <<ids, disks, faults>>

\* The update fails, or it is done and its answer lost: the host is undone all the same.
PromoteFails(p) ==
  LET plan == proc[p].plan
  IN  /\ At(p, "done") /\ proc[p].op = "promote" /\ proc[p].k = Len(plan)
      /\ Fault
      /\ \/ UNCHANGED <<row, hidden, blurred>>
         \/ /\ row' = PromoteProxyRoutes(plan)
            /\ hidden' = hidden \ On(p)
            /\ blurred' = blurred \cup On(p)
      /\ Undo(p, Len(plan))
      /\ UNCHANGED <<ids, disks>>

\* The route that failed is marked and not undone.
RouteFails(p) ==
  /\ At(p, "error") /\ proc[p].op = "promote"
  /\ MarkFailed(p)
  /\ blurred' = IF row' = row THEN blurred \cup {Now(p).domain} ELSE blurred
  /\ Undo(p, proc[p].k - 1)
  /\ UNCHANGED <<ids, disks, faults>>

\* Errors of compensating commands are dropped.  A route that was pending is on the
\* host now, with the upstream its row had, and its row is pending still.
UndoNext(p) ==
  /\ proc[p].pc \in {"done", "error"} /\ proc[p].op = "undo"
  /\ hidden' = IF row[Now(p).domain].status = "pending" THEN hidden \cup {Now(p).domain} ELSE hidden
  /\ blurred' = IF At(p, "error") THEN blurred \cup {Now(p).domain} ELSE blurred
  /\ Undo(p, proc[p].k - 1)
  /\ UNCHANGED <<tables, disks, faults>>

\* The process dies, or the statement that would record an apply or a deletion fails.
Crash(p) ==
  /\ ~At(p, "idle")
  /\ Fault
  /\ blurred' = blurred \cup On(p)
  /\ End(p)
  /\ UNCHANGED <<tables, disks, hidden>>

(***************************************************************************)
(* The specification.                                                      *)
(***************************************************************************)
Init ==
  /\ proxy \in Proxies
  /\ row = [d \in Domains |-> Absent]
  /\ ids = 0
  /\ file = [d \in Domains |-> Off]
  /\ live = [d \in Domains |-> Off]
  /\ proc = [p \in Procs |-> Idle]
  /\ faults = 0
  /\ blurred = {}
  /\ hidden = {}

Next ==
  /\ \/ \E d \in Domains, u \in Colors, kind \in Kinds : SaveRoute(d, u, kind)
     \/ \E p \in Requests, d \in Domains : BeginApply(p, d) \/ ApplyRefused(p, d) \/ BeginDelete(p, d)
     \/ \E color \in Colors : BeginPromote(Worker, color)
     \/ \E p \in Procs :
          \/ ReadCaddyfile(p) \/ WriteConfig(p) \/ Reload(p) \/ CommandFails(p)
          \/ ApplyDone(p) \/ ApplyFails(p) \/ DeleteDone(p) \/ DeleteFails(p)
          \/ PromoteRefused(p) \/ NextRoute(p) \/ Promote(p) \/ PromoteFails(p)
          \/ RouteFails(p) \/ UndoNext(p) \/ Crash(p)
  /\ UNCHANGED proxy

Spec == Init /\ [][Next]_vars

(***************************************************************************)
(* Properties.                                                             *)
(***************************************************************************)
Rows == [id: 0..MaxSaves, status: {"absent", "pending", "applied", "failed"},
         upstream: Upstreams, kind: Kinds]
Items == [domain: Domains, id: 1..MaxSaves, want: Upstreams, was: Upstreams]
Work == [pc: {"idle", "read", "write", "reload", "done", "error"},
         op: {"none", "apply", "delete", "promote", "undo"},
         plan: Seq(Items), k: Nat, seen: [Domains -> Upstreams] \cup {Unread}, alone: BOOLEAN]

\* The type invariant of the module.
TypeOK ==
  /\ proxy \in Proxies
  /\ row \in [Domains -> Rows]
  /\ ids \in 0..MaxSaves
  /\ file \in [Domains -> Upstreams] /\ live \in [Domains -> Upstreams]
  /\ proc \in [Procs -> Work]
  /\ faults \in 0..MaxFaults[proxy]
  /\ blurred \subseteq Domains /\ hidden \subseteq Domains

Quiet(d) == ~Busy(d) /\ d \notin blurred

\* A route the table shows as applied is the one the proxy serves: through failed
\* commands, undone deployments and routes deleted and saved again, as long as only
\* one actor works on a route at a time, no deletion, compensation or process fails
\* half way and no answer to a promotion is lost; a later apply by one actor alone
\* repairs what it finds (Manager.Apply, applyProxyRoutes).
AppliedIsLive ==
  \A d \in Domains : Quiet(d) /\ row[d].status = "applied" => live[d] = row[d].upstream

\* A domain without a row is not on the host, with the same proviso, unless the row
\* was pending when it was deleted although a command had been sent: after a save of
\* an applied route, a deployment that undid its first route, or an apply that could
\* not record its failure (deleteProxyRoute).
NoOrphanRoute ==
  \A d \in Domains : Quiet(d) /\ row[d] = Absent /\ d \notin hidden =>
    file[d] = Off /\ live[d] = Off
================================================================================
