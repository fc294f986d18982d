--------------------------- MODULE ProxyRoutesProofs ---------------------------
(* Proofs about ProxyRoutes, for any domains, requests, saves and failures,   *)
(* and for the four kinds of proxy.  An actor reads its routes once and then  *)
(* sends one command after the other, so the argument follows each route of   *)
(* its plan (HostOf, KeptOf) as long as nobody else has blurred it; what an   *)
(* actor alone does to a blurred route is AloneOf.                            *)
EXTENDS ProxyRoutes, FiniteSetTheorems, TLAPS

\* A domain's configuration is written and loaded.
Put(d, u) == file[d] = u /\ live[d] = u
\* What the row promises of the host, when nobody works on the route.
Sound(d) ==
  /\ row[d].status = "applied" => Put(d, row[d].upstream)
  /\ row[d].status \in {"absent", "pending"} /\ d \notin hidden => Put(d, Off)

\* A row has an id, unless it is absent.
RowOf(d) == IF row[d].id = 0 THEN row[d] = Absent ELSE row[d].status # "absent"

\* The work of one actor for itself.
Places(p) == 1..Len(proc[p].plan)
ShapeOf(p) ==
  /\ At(p, "idle") => proc[p].plan = <<>> /\ ~proc[p].alone
  /\ ~At(p, "idle") => proc[p].k \in Places(p) /\ proc[p].op # "none"
  /\ proc[p].op \in {"apply", "delete"} => Len(proc[p].plan) = 1
  /\ ~At(p, "idle") /\ proc[p].op = "apply" => Now(p).want = Now(p).was
  /\ ~At(p, "idle") /\ proc[p].op = "delete" => Now(p).want = Off
  /\ \A i, j \in Places(p) : proc[p].plan[i].domain = proc[p].plan[j].domain => i = j
  /\ SharedFile /\ At(p, "write") => proc[p].seen \in [Domains -> Upstreams]

\* Two actors: whoever is alone has nobody beside him, and what they share is blurred.
PairOf(p, q) ==
  /\ proc[p].alone => At(q, "idle")
  /\ On(p) \cap On(q) \subseteq blurred
  /\ SharedFile /\ ~At(p, "idle") /\ ~At(q, "idle") => blurred = Domains

\* A script that has read the shared Caddyfile knows it as it is.
SeenOf(p) ==
  SharedFile /\ At(p, "write") => \A d \in Domains \ blurred : proc[p].seen[d] = file[d]

\* The row is the one the actor read, until it compensates.
KeptOf(p, i) ==
  LET item == proc[p].plan[i]
  IN  (proc[p].alone /\ proc[p].op # "undo") \/ item.domain \notin blurred =>
        row[item.domain].id = item.id /\ row[item.domain].upstream = item.was

\* Where the host is with a route of the plan: the promoted ones before the present one
\* are there, the present one is as far as the command, the ones after it are untouched
\* or restored.
HostOf(p, i) ==
  LET d == proc[p].plan[i].domain
  IN  d \notin blurred =>
        /\ i < proc[p].k /\ proc[p].op = "promote" => Put(d, proc[p].plan[i].want)
        /\ i > proc[p].k => Sound(d)
        /\ i = proc[p].k =>
             /\ At(p, "reload") => file[d] = Want(p)
             /\ At(p, "done") => Put(d, Want(p)) \/ (proc[p].op = "delete" /\ d \in hidden)
             /\ proc[p].op = "apply" /\ row[d].status = "applied" => Put(d, Now(p).was)

\* An apply by one actor alone writes the route whatever the state was before.
AloneOf(p) ==
  proc[p].alone /\ proc[p].op = "apply" =>
    /\ proc[p].pc \in {"reload", "done"} => file[Now(p).domain] = Want(p)
    /\ At(p, "done") => live[Now(p).domain] = Want(p)

WorkOf(p) == ShapeOf(p) /\ SeenOf(p) /\ AloneOf(p) /\ \A i \in Places(p) : KeptOf(p, i) /\ HostOf(p, i)

RoutesInv ==
  /\ TypeOK
  /\ \A d \in Domains : RowOf(d) /\ (Quiet(d) => Sound(d))
  /\ \A p \in Procs : WorkOf(p)
  /\ \A p, q \in Procs : p # q => PairOf(p, q)

\* A step that leaves a route alone: at most the proxy loads what is written.
Calm(d) ==
  /\ row'[d] = row[d] /\ file'[d] = file[d] /\ live'[d] \in {live[d], file[d]}
  /\ d \in hidden' <=> d \in hidden
\* A step that leaves an actor's work alone; it may have company now.
Same(q) ==
  /\ proc'[q].pc = proc[q].pc /\ proc'[q].op = proc[q].op /\ proc'[q].plan = proc[q].plan
  /\ proc'[q].k = proc[q].k /\ proc'[q].seen = proc[q].seen
  /\ proc'[q].alone => proc[q].alone

-----------------------------------------------------------------------------
LEMMA CalmPut ==
  ASSUME NEW d, NEW u, Calm(d), Put(d, u) PROVE Put(d, u)'
BY DEF Calm, Put

LEMMA CalmSound ==
  ASSUME NEW d, Calm(d), Sound(d) PROVE Sound(d)'
BY DEF Calm, Put, Sound

\* What the types say of one actor.
LEMMA WorkTypes ==
  ASSUME TypeOK, NEW p \in Procs
  PROVE  /\ proc[p] \in Work /\ proc[p].plan \in Seq(Items) /\ proc[p].k \in Nat
         /\ Len(proc[p].plan) \in Nat
         /\ \A i \in Places(p) : proc[p].plan[i] \in Items
         /\ \A i \in Places(p) : proc[p].plan[i].domain \in Domains /\ proc[p].plan[i].domain \in On(p)
         /\ On(p) \subseteq Domains
<1>1. proc[p] \in Work BY DEF TypeOK
<1>2. proc[p].plan \in Seq(Items) /\ proc[p].k \in Nat BY <1>1 DEF Work
<1>3. Len(proc[p].plan) \in Nat /\ \A i \in Places(p) : proc[p].plan[i] \in Items BY <1>2 DEF Places
<1>4. \A i \in Places(p) : proc[p].plan[i].domain \in Domains BY <1>3 DEF Items
<1>5. \A i \in Places(p) : proc[p].plan[i].domain \in On(p) BY DEF On, Places
<1>6. On(p) \subseteq Domains BY <1>4 DEF On, Places
<1> QED BY <1>1, <1>2, <1>3, <1>4, <1>5, <1>6

\* An actor whose work the step leaves alone, as it does the routes of it that are not
\* blurred.
LEMMA OtherWork ==
  ASSUME TypeOK, NEW q \in Procs, WorkOf(q), Same(q), UNCHANGED proxy,
         \A d \in On(q) \ blurred' : d \notin blurred /\ Calm(d),
         SharedFile /\ At(q, "write") =>
           \A d \in Domains \ blurred' : d \notin blurred /\ file'[d] = file[d],
         proc'[q].alone => \A d \in On(q) :
           /\ row'[d].id = row[d].id /\ row'[d].upstream = row[d].upstream
           /\ file'[d] = file[d] /\ live'[d] \in {live[d], file[d]}
  PROVE  WorkOf(q)'
<1>1. /\ proc'[q].pc = proc[q].pc /\ proc'[q].op = proc[q].op /\ proc'[q].plan = proc[q].plan
      /\ proc'[q].k = proc[q].k /\ proc'[q].seen = proc[q].seen
      /\ proc'[q].alone => proc[q].alone
  BY DEF Same
<1>2. /\ Now(q)' = Now(q) /\ Want(q)' = Want(q) /\ Places(q)' = Places(q) /\ SharedFile' = SharedFile
      /\ \A pc : At(q, pc)' = At(q, pc)
  BY <1>1 DEF Now, Want, Places, SharedFile, At
<1>3. ShapeOf(q)' BY <1>1, <1>2 DEF WorkOf, ShapeOf
<1>4. SeenOf(q)' BY <1>1, <1>2 DEF WorkOf, SeenOf
<1>5. AloneOf(q)'
  <2> SUFFICES ASSUME proc'[q].alone, proc[q].op = "apply", proc[q].pc \in {"reload", "done"}
               PROVE  /\ file'[Now(q).domain] = Want(q)
                      /\ proc[q].pc = "done" => live'[Now(q).domain] = Want(q)
    BY <1>1, <1>2 DEF AloneOf, At
  <2>1. proc[q].k \in Places(q) BY DEF WorkOf, ShapeOf, At
  <2>2. Now(q).domain \in On(q) BY <2>1, WorkTypes DEF Now
  <2>3. /\ file[Now(q).domain] = Want(q) /\ (proc[q].pc = "done" => live[Now(q).domain] = Want(q))
    BY <1>1 DEF WorkOf, AloneOf, At
  <2> QED BY <2>2, <2>3
<1>6. ASSUME NEW i \in Places(q) PROVE KeptOf(q, i)' /\ HostOf(q, i)'
  <2>0. PICK d \in Domains : d = proc[q].plan[i].domain BY WorkTypes
  <2>1. d \in On(q) /\ d = proc'[q].plan[i].domain BY <1>1, <2>0, WorkTypes
  <2>2. KeptOf(q, i) /\ HostOf(q, i) BY DEF WorkOf
  <2>3. KeptOf(q, i)' BY <1>1, <2>0, <2>1, <2>2 DEF KeptOf, Calm
  <2>4. HostOf(q, i)'
    <3> SUFFICES ASSUME d \notin blurred' PROVE HostOf(q, i)' BY <2>1 DEF HostOf
    <3>1. d \notin blurred /\ Calm(d) BY <2>1
    <3>2. i > proc[q].k => Sound(d)' BY <2>0, <2>2, <3>1, CalmSound DEF HostOf
    <3>3. i < proc[q].k /\ proc[q].op = "promote" => Put(d, proc[q].plan[i].want)'
      BY <1>1, <2>0, <2>2, <3>1 DEF HostOf, Put, Calm
    <3>4. i = proc[q].k =>
             /\ At(q, "reload") => file'[d] = Want(q)
             /\ At(q, "done") => (file'[d] = Want(q) /\ live'[d] = Want(q))
                                 \/ (proc[q].op = "delete" /\ d \in hidden')
             /\ proc[q].op = "apply" /\ row'[d].status = "applied" =>
                  file'[d] = Now(q).was /\ live'[d] = Now(q).was
      BY <2>0, <2>2, <3>1 DEF HostOf, Put, Calm
    <3> QED BY <1>1, <1>2, <2>1, <3>2, <3>3, <3>4 DEF HostOf, Put
  <2> QED BY <2>3, <2>4
<1> QED BY <1>2, <1>3, <1>4, <1>5, <1>6 DEF WorkOf

-----------------------------------------------------------------------------
\* A step of an actor at work: what is left to show is about its own work and routes.
LEMMA ActiveStep ==
  ASSUME RoutesInv, NEW p \in Procs, ~At(p, "idle"), UNCHANGED proxy, TypeOK',
         proc' = [proc EXCEPT ![p] = proc'[p]],
         proc'[p].plan = proc[p].plan \/ At(p, "idle")', proc'[p].alone => proc[p].alone,
         blurred \ On(p) \subseteq blurred',
         blurred \subseteq blurred' \/ proc[p].alone,
         \A d \in Domains \ blurred' : d \notin On(p) => Calm(d),
         \A d \in Domains : RowOf(d)',
         \A d \in On(p) \ blurred' : At(p, "idle")' => Sound(d)',
         WorkOf(p)'
  PROVE  RoutesInv'
<1>0. TypeOK BY DEF RoutesInv
<1>1. proc \in [Procs -> Work] /\ blurred \subseteq Domains /\ blurred' \subseteq Domains
  BY DEF RoutesInv, TypeOK
<1>2. \A q \in Procs : q # p => proc'[q] = proc[q] BY <1>1
<1>3. \A q \in Procs : q # p => On(q)' = On(q) /\ \A pc : At(q, pc)' = At(q, pc) BY <1>2 DEF On, At
<1>4. \A q \in Procs : q # p => ~proc[q].alone BY DEF RoutesInv, PairOf
<1>5. \A q \in Procs : At(q, "idle") => On(q) = {}
  <2> SUFFICES ASSUME NEW q \in Procs, At(q, "idle") PROVE On(q) = {} OBVIOUS
  <2>1. proc[q].plan = <<>> BY DEF RoutesInv, WorkOf, ShapeOf
  <2>2. 1..Len(proc[q].plan) = {} BY <2>1
  <2> QED BY <2>2 DEF On
<1>6. At(p, "idle")' => On(p)' = {}
  <2> SUFFICES ASSUME At(p, "idle")' PROVE On(p)' = {} OBVIOUS
  <2>1. proc'[p].plan = <<>> BY DEF WorkOf, ShapeOf
  <2>2. 1..Len(proc'[p].plan) = {} BY <2>1
  <2> QED BY <2>2 DEF On
<1>7. On(p)' = {} \/ On(p)' = On(p) BY <1>6 DEF On
<1>8. \A q \in Procs : q # p => blurred \subseteq blurred' \/ At(q, "idle") BY DEF RoutesInv, PairOf
<1>9. ASSUME NEW q \in Procs, q # p PROVE WorkOf(q)'
  <2>1. Same(q) BY <1>2, <1>9 DEF Same
  <2>2. \A d \in On(q) \ blurred' : d \notin blurred /\ Calm(d)
    <3>1. On(q) \subseteq Domains BY <1>0, WorkTypes
    <3>2. On(q) # {} => blurred \subseteq blurred' BY <1>5, <1>8, <1>9
    <3>3. On(q) \cap On(p) \subseteq blurred BY <1>9 DEF RoutesInv, PairOf
    <3> QED BY <3>1, <3>2, <3>3
  <2>3. SharedFile /\ At(q, "write") => \A d \in Domains \ blurred' : d \notin blurred /\ file'[d] = file[d]
    <3> SUFFICES ASSUME SharedFile, At(q, "write") PROVE blurred' = Domains OBVIOUS
    <3>1. ~At(q, "idle") BY DEF At
    <3>2. blurred = Domains BY <1>9, <3>1 DEF RoutesInv, PairOf
    <3> QED BY <1>1, <1>8, <1>9, <3>1, <3>2
  <2>4. WorkOf(q) /\ ~proc'[q].alone BY <1>2, <1>4, <1>9 DEF RoutesInv
  <2> QED BY <1>0, <2>1, <2>2, <2>3, <2>4, OtherWork
<1>10. ASSUME NEW q \in Procs, NEW r \in Procs, q # r PROVE PairOf(q, r)'
  <2>1. PairOf(q, r) BY <1>10 DEF RoutesInv
  <2>2. At(r, "idle")' \/ ~proc'[q].alone
    <3>1. CASE q = p BY <3>1, <1>3, <1>10, <2>1 DEF PairOf
    <3>2. CASE q # p BY <3>2, <1>2, <1>4
    <3> QED BY <3>1, <3>2
  <2>3. On(q)' \subseteq On(q) /\ On(r)' \subseteq On(r) BY <1>3, <1>7
  <2>4. PICK s \in {q, r} : s # p BY <1>10
  <2>5. blurred \subseteq blurred' \/ (At(s, "idle") /\ At(s, "idle")' /\ On(s) = {})
    BY <1>3, <1>5, <1>8, <2>4
  <2>6. On(q)' \cap On(r)' \subseteq blurred' BY <2>1, <2>3, <2>4, <2>5 DEF PairOf
  <2>7. ASSUME SharedFile', ~At(q, "idle")', ~At(r, "idle")' PROVE blurred' = Domains
    <3>1. SharedFile BY <2>7 DEF SharedFile
    <3>2. ~At(q, "idle") /\ ~At(r, "idle") BY <1>3, <2>7
    <3>3. blurred = Domains BY <2>1, <3>1, <3>2 DEF PairOf
    <3> QED BY <1>1, <2>4, <2>5, <2>7, <3>3
  <2> QED BY <2>2, <2>6, <2>7 DEF PairOf
<1>11. ASSUME NEW d \in Domains, Quiet(d)' PROVE Sound(d)'
  <2>1. d \notin blurred' /\ \A q \in Procs : d \notin On(q)' BY <1>11 DEF Quiet, Busy
  <2>2. CASE d \in On(p) BY <2>1, <2>2, <1>7 DEF On
  <2>3. CASE d \notin On(p)
    <3>1. \A q \in Procs : d \notin On(q) BY <1>3, <2>1, <2>3
    <3>2. d \notin blurred BY <2>1, <2>3
    <3>3. Sound(d) BY <3>1, <3>2 DEF RoutesInv, Quiet, Busy
    <3>4. Calm(d) BY <2>1, <2>3
    <3> QED BY <3>3, <3>4, CalmSound
  <2> QED BY <2>2, <2>3
<1> QED BY <1>9, <1>10, <1>11 DEF RoutesInv

-----------------------------------------------------------------------------
\* The command at hand goes on: the other routes of the plan are as they were.
LEMMA OwnStep ==
  ASSUME RoutesInv, NEW p \in Procs, ~At(p, "idle"), ~At(p, "idle")',
         UNCHANGED <<proxy, row, blurred, hidden>>,
         proc'[p].plan = proc[p].plan, proc'[p].op = proc[p].op, proc'[p].k = proc[p].k,
         proc'[p].alone = proc[p].alone,
         NEW d0 \in Domains, d0 = Now(p).domain,
         \A d \in Domains \ blurred : d # d0 => Calm(d),
         SharedFile /\ At(p, "write")' => proc'[p].seen \in [Domains -> Upstreams]
                                          /\ \A d \in Domains : proc'[p].seen[d] = file'[d],
         proc[p].op = "apply" /\ row[d0].status = "applied" /\ d0 \notin blurred =>
           file'[d0] = Now(p).was /\ live'[d0] = Now(p).was,
         d0 \notin blurred \/ (proc[p].alone /\ proc[p].op = "apply") =>
           /\ proc'[p].pc \in {"reload", "done"} => file'[d0] = Want(p)
           /\ At(p, "done")' => live'[d0] = Want(p)
  PROVE  WorkOf(p)'
<1>0. TypeOK /\ WorkOf(p) BY DEF RoutesInv
<1>1. /\ Now(p)' = Now(p) /\ Want(p)' = Want(p) /\ Places(p)' = Places(p) /\ SharedFile' = SharedFile
  BY DEF Now, Want, Places, SharedFile
<1>2. ShapeOf(p)' BY <1>0, <1>1 DEF WorkOf, ShapeOf
<1>3. SeenOf(p)' BY <1>1 DEF SeenOf
<1>4. AloneOf(p)' BY <1>1 DEF AloneOf, At
<1>5. ASSUME NEW i \in Places(p) PROVE KeptOf(p, i)' /\ HostOf(p, i)'
  <2>0. PICK d \in Domains : d = proc[p].plan[i].domain BY <1>0, WorkTypes
  <2>1. KeptOf(p, i) /\ HostOf(p, i) BY <1>0 DEF WorkOf
  <2>2. KeptOf(p, i)' BY <2>0, <2>1 DEF KeptOf
  <2>3. HostOf(p, i)'
    <3> SUFFICES ASSUME d \notin blurred PROVE HostOf(p, i)' BY <2>0 DEF HostOf
    <3>1. proc[p].k \in Places(p) /\ i \in Nat /\ proc[p].k \in Nat
      BY <1>0, WorkTypes DEF WorkOf, ShapeOf, Places
    <3>2. d = d0 => i = proc[p].k
      BY <1>0, <2>0, <3>1 DEF WorkOf, ShapeOf, Now
    <3>3. i = proc[p].k => d = d0 BY <2>0 DEF Now
    <3>4. i # proc[p].k => Calm(d) BY <3>2
    <3>5. i > proc[p].k => Sound(d)' BY <2>0, <2>1, <3>1, <3>4, CalmSound DEF HostOf
    <3>6. i < proc[p].k /\ proc[p].op = "promote" => Put(d, proc[p].plan[i].want)'
      BY <2>0, <2>1, <3>1, <3>4 DEF HostOf, Put, Calm
    <3>7. i = proc[p].k =>
             /\ At(p, "reload")' => file'[d] = Want(p)
             /\ At(p, "done")' => file'[d] = Want(p) /\ live'[d] = Want(p)
             /\ proc[p].op = "apply" /\ row[d].status = "applied" =>
                  file'[d] = Now(p).was /\ live'[d] = Now(p).was
      BY <3>3 DEF At
    <3> QED BY <1>1, <2>0, <3>5, <3>6, <3>7 DEF HostOf, Put
  <2> QED BY <2>2, <2>3
<1> QED BY <1>1, <1>2, <1>3, <1>4, <1>5 DEF WorkOf

\* A change of the place in the command only.
LEMMA Goes ==
  ASSUME TypeOK, NEW p \in Procs, NEW pc \in {"read", "write", "reload", "done", "error"}, Goto(p, pc)
  PROVE  /\ proc' \in [Procs -> Work] /\ proc' = [proc EXCEPT ![p] = proc'[p]]
         /\ proc'[p].pc = pc /\ proc'[p].op = proc[p].op /\ proc'[p].plan = proc[p].plan
         /\ proc'[p].k = proc[p].k /\ proc'[p].seen = proc[p].seen
         /\ proc'[p].alone = proc[p].alone
<1> DEFINE x == [proc[p] EXCEPT !.pc = pc]
<1>1. proc' = [proc EXCEPT ![p] = x] BY DEF Goto
<1>2. proc[p] \in Work /\ proc \in [Procs -> Work] BY DEF TypeOK
<1>3. x \in Work BY <1>2 DEF Work
<1>4. /\ x.pc = pc /\ x.op = proc[p].op /\ x.plan = proc[p].plan /\ x.k = proc[p].k
      /\ x.seen = proc[p].seen /\ x.alone = proc[p].alone
  BY <1>2 DEF Work
<1> HIDE DEF x
<1>5. proc'[p] = x BY <1>1, <1>2
<1> QED BY <1>1, <1>2, <1>3, <1>4, <1>5

\* The present route of an actor at work.
LEMMA Present ==
  ASSUME RoutesInv, NEW p \in Procs, ~At(p, "idle")
  PROVE  /\ proc[p].k \in Places(p) /\ Now(p) \in Items /\ Now(p).domain \in Domains
         /\ Now(p).domain \in On(p) /\ Want(p) \in Upstreams /\ Now(p).id \in 1..MaxSaves
<1>1. TypeOK /\ proc[p].k \in Places(p) BY DEF RoutesInv, WorkOf, ShapeOf
<1>2. Now(p) \in Items /\ Now(p).domain \in On(p) BY <1>1, WorkTypes DEF Now
<1>3. Now(p).domain \in Domains /\ Want(p) \in Upstreams /\ Now(p).id \in 1..MaxSaves
  BY <1>2 DEF Items, Want
<1> QED BY <1>1, <1>2, <1>3

\* The script reads the shared Caddyfile.
LEMMA ReadCaddyfileInv ==
  ASSUME RoutesInv, UNCHANGED proxy, NEW p \in Procs, ReadCaddyfile(p) PROVE RoutesInv'
<1> DEFINE x == [proc[p] EXCEPT !.pc = "write", !.seen = file]
<1>1. /\ At(p, "read") /\ proc' = [proc EXCEPT ![p] = x]
      /\ UNCHANGED <<row, ids, file, live, faults, blurred, hidden>>
  BY DEF ReadCaddyfile, tables, disks
<1>2. /\ proc[p] \in Work /\ proc \in [Procs -> Work] /\ file \in [Domains -> Upstreams]
      /\ \A d \in Domains : RowOf(d)
  BY DEF RoutesInv, TypeOK
<1>3. x \in Work BY <1>2 DEF Work
<1>4. /\ x.pc = "write" /\ x.op = proc[p].op /\ x.plan = proc[p].plan /\ x.k = proc[p].k
      /\ x.seen = file /\ x.alone = proc[p].alone
  BY <1>2 DEF Work
<1> HIDE DEF x
<1>5. proc'[p] = x BY <1>1, <1>2
<1>6. TypeOK' BY <1>1, <1>2, <1>3 DEF RoutesInv, TypeOK
<1>7. ~At(p, "idle") /\ ~At(p, "idle")' BY <1>1, <1>4, <1>5 DEF At
<1>8. \A d \in Domains : Calm(d) /\ RowOf(d)' BY <1>1, <1>2 DEF Calm, RowOf
<1>9. PICK d0 \in Domains : d0 = Now(p).domain BY <1>7, Present
<1>10. proc[p].op = "apply" /\ row[d0].status = "applied" /\ d0 \notin blurred =>
         file[d0] = Now(p).was /\ live[d0] = Now(p).was
  BY <1>7, <1>9, Present DEF RoutesInv, WorkOf, HostOf, Now, Put
<1>11. WorkOf(p)' BY <1>1, <1>2, <1>4, <1>5, <1>7, <1>8, <1>9, <1>10, OwnStep DEF At
<1> QED BY <1>1, <1>4, <1>5, <1>6, <1>7, <1>8, <1>11, ActiveStep

\* The route is written.
LEMMA WriteConfigInv ==
  ASSUME RoutesInv, UNCHANGED proxy, NEW p \in Procs, WriteConfig(p) PROVE RoutesInv'
<1>0. TypeOK /\ \A d \in Domains : RowOf(d) BY DEF RoutesInv
<1>1. /\ At(p, "write") /\ file' = Written(p) /\ UNCHANGED <<row, ids, faults, blurred, hidden>>
  BY DEF WriteConfig, tables
<1>2. PICK pc \in {"reload", "done"} :
        /\ Goto(p, pc)
        /\ pc = "done" => live' = file'
        /\ pc = "reload" => live' = live
  BY DEF WriteConfig
<1>3. /\ proc' \in [Procs -> Work] /\ proc' = [proc EXCEPT ![p] = proc'[p]]
      /\ proc'[p].pc = pc /\ proc'[p].op = proc[p].op /\ proc'[p].plan = proc[p].plan
      /\ proc'[p].k = proc[p].k /\ proc'[p].alone = proc[p].alone
  BY <1>0, <1>2, Goes
<1>4. ~At(p, "idle") /\ ~At(p, "idle")' /\ ~At(p, "write")' BY <1>1, <1>2, <1>3 DEF At
<1>5. PICK d0 \in Domains : d0 = Now(p).domain BY <1>4, Present
<1>6. Want(p) \in Upstreams BY <1>4, Present
<1>7. /\ file' \in [Domains -> Upstreams] /\ file'[d0] = Want(p)
      /\ \A d \in Domains \ blurred : d # d0 => file'[d] = file[d]
  <2>0. file \in [Domains -> Upstreams] BY <1>0 DEF TypeOK
  <2>1. CASE SharedFile
    <3>1. proc[p].seen \in [Domains -> Upstreams] /\ \A d \in Domains \ blurred : proc[p].seen[d] = file[d]
      BY <1>1, <2>1 DEF RoutesInv, WorkOf, ShapeOf, SeenOf
    <3>2. file' = [proc[p].seen EXCEPT ![d0] = Want(p)] BY <1>1, <1>5, <2>1 DEF Written
    <3> QED BY <1>6, <3>1, <3>2
  <2>2. CASE ~SharedFile
    <3>1. file' = [file EXCEPT ![d0] = Want(p)] BY <1>1, <1>5, <2>2 DEF Written
    <3> QED BY <1>6, <2>0, <3>1
  <2> QED BY <2>1, <2>2
<1>8. \A d \in Domains \ blurred : d # d0 => Calm(d) BY <1>1, <1>2, <1>7 DEF Calm
<1>9. TypeOK' BY <1>0, <1>1, <1>2, <1>3, <1>7 DEF TypeOK
<1>10. proc[p].op = "apply" /\ row[d0].status = "applied" /\ d0 \notin blurred =>
         file'[d0] = Now(p).was /\ live'[d0] = Now(p).was
  <2> SUFFICES ASSUME proc[p].op = "apply", row[d0].status = "applied", d0 \notin blurred
               PROVE  file'[d0] = Now(p).was /\ live'[d0] = Now(p).was
    OBVIOUS
  <2>1. live[d0] = Now(p).was
    BY <1>4, <1>5, Present DEF RoutesInv, WorkOf, HostOf, Now, Put
  <2>2. ShapeOf(p) BY DEF RoutesInv, WorkOf
  <2>3. Want(p) = Now(p).was BY <1>4, <2>2 DEF ShapeOf, Want
  <2> QED BY <2>3, <1>2, <1>7, <2>1, <2>2
<1>11. WorkOf(p)' BY <1>1, <1>2, <1>3, <1>4, <1>5, <1>7, <1>8, <1>10, OwnStep DEF At
<1>12. \A d \in Domains : RowOf(d)' BY <1>0, <1>1 DEF RowOf
<1>13. \A d \in Domains \ blurred' : d \notin On(p) => Calm(d) BY <1>1, <1>4, <1>5, <1>8, Present
<1> QED BY <1>1, <1>3, <1>4, <1>9, <1>11, <1>12, <1>13, ActiveStep

\* The proxy loads every route.
LEMMA ReloadInv ==
  ASSUME RoutesInv, UNCHANGED proxy, NEW p \in Procs, Reload(p) PROVE RoutesInv'
<1>0. TypeOK /\ \A d \in Domains : RowOf(d) BY DEF RoutesInv
<1>1. /\ At(p, "reload") /\ live' = file /\ Goto(p, "done")
      /\ UNCHANGED <<row, ids, file, faults, blurred, hidden>>
  BY DEF Reload, tables
<1>2. /\ proc' \in [Procs -> Work] /\ proc' = [proc EXCEPT ![p] = proc'[p]]
      /\ proc'[p].pc = "done" /\ proc'[p].op = proc[p].op /\ proc'[p].plan = proc[p].plan
      /\ proc'[p].k = proc[p].k /\ proc'[p].alone = proc[p].alone
  BY <1>0, <1>1, Goes
<1>3. ~At(p, "idle") /\ ~At(p, "idle")' /\ ~At(p, "write")' BY <1>1, <1>2 DEF At
<1>4. PICK d0 \in Domains : d0 = Now(p).domain BY <1>3, Present
<1>5. \A d \in Domains : Calm(d) /\ RowOf(d)' BY <1>0, <1>1 DEF Calm, RowOf
<1>6. TypeOK' BY <1>0, <1>1, <1>2 DEF TypeOK
<1>7. proc[p].op = "apply" /\ row[d0].status = "applied" /\ d0 \notin blurred => file[d0] = Now(p).was
  BY <1>3, <1>4, Present DEF RoutesInv, WorkOf, HostOf, Now, Put
<1>8. d0 \notin blurred \/ (proc[p].alone /\ proc[p].op = "apply") => file[d0] = Want(p)
  <2>1. d0 \notin blurred => file[d0] = Want(p)
    BY <1>1, <1>3, <1>4, Present DEF RoutesInv, WorkOf, HostOf, Now
  <2>2. proc[p].alone /\ proc[p].op = "apply" => file[d0] = Want(p)
    BY <1>1, <1>4 DEF RoutesInv, WorkOf, AloneOf, At
  <2> QED BY <2>1, <2>2
<1>9. WorkOf(p)' BY <1>1, <1>2, <1>3, <1>4, <1>5, <1>7, <1>8, OwnStep
<1> QED BY <1>1, <1>2, <1>3, <1>5, <1>6, <1>9, ActiveStep

\* A command fails.
LEMMA CommandFailsInv ==
  ASSUME RoutesInv, UNCHANGED proxy, NEW p \in Procs, CommandFails(p) PROVE RoutesInv'
<1>0. TypeOK /\ \A d \in Domains : RowOf(d) BY DEF RoutesInv
<1>1. /\ proc[p].pc \in {"read", "write", "reload", "done"} /\ Goto(p, "error")
      /\ UNCHANGED <<row, ids, file, live, blurred, hidden>>
      /\ faults < MaxFaults[proxy] /\ faults' = faults + 1
  BY DEF CommandFails, tables, disks, Fault
<1>2. /\ proc' \in [Procs -> Work] /\ proc' = [proc EXCEPT ![p] = proc'[p]]
      /\ proc'[p].pc = "error" /\ proc'[p].op = proc[p].op /\ proc'[p].plan = proc[p].plan
      /\ proc'[p].k = proc[p].k /\ proc'[p].alone = proc[p].alone
  BY <1>0, <1>1, Goes
<1>3. ~At(p, "idle") /\ ~At(p, "idle")' /\ ~At(p, "write")' /\ ~At(p, "done")' BY <1>1, <1>2 DEF At
<1>4. PICK d0 \in Domains : d0 = Now(p).domain BY <1>3, Present
<1>5. \A d \in Domains : Calm(d) /\ RowOf(d)' BY <1>0, <1>1 DEF Calm, RowOf
<1>6. TypeOK'
  <2>1. MaxFaults[proxy] \in Nat BY <1>0, ProxyRoutesAssumption DEF TypeOK
  <2>2. faults' \in 0..MaxFaults[proxy] BY <1>0, <1>1, <2>1 DEF TypeOK
  <2> QED BY <1>0, <1>1, <1>2, <2>2 DEF TypeOK
<1>7. proc[p].op = "apply" /\ row[d0].status = "applied" /\ d0 \notin blurred =>
         file[d0] = Now(p).was /\ live[d0] = Now(p).was
  BY <1>3, <1>4, Present DEF RoutesInv, WorkOf, HostOf, Now, Put
<1>8. WorkOf(p)' BY <1>1, <1>2, <1>3, <1>4, <1>5, <1>7, OwnStep
<1> QED BY <1>1, <1>2, <1>3, <1>5, <1>6, <1>8, ActiveStep

-----------------------------------------------------------------------------
LEMMA IdleWork ==
  /\ Idle \in Work /\ Idle.pc = "idle" /\ Idle.op = "none" /\ Idle.plan = <<>> /\ Idle.k = 0
  /\ Idle.seen = Unread /\ ~Idle.alone
<1>1. /\ Idle.pc = "idle" /\ Idle.op = "none" /\ Idle.plan = <<>> /\ Idle.k = 0
      /\ Idle.seen = Unread /\ ~Idle.alone
  BY DEF Idle
<1>2. <<>> \in Seq(Items) /\ 0 \in Nat OBVIOUS
<1> HIDE DEF Unread
<1>3. Idle \in Work BY <1>2 DEF Idle, Work
<1> QED BY <1>1, <1>3

\* A status is set by id: the row of that id, and no other.
LEMMA SetsStatus ==
  ASSUME TypeOK, \A d \in Domains : RowOf(d), NEW item \in Items,
         NEW st \in {"pending", "applied", "failed"}, row' = SetStatus(item, st)
  PROVE  /\ row' \in [Domains -> Rows] /\ \A d \in Domains : RowOf(d)'
         /\ \A d \in Domains : d # item.domain => row'[d] = row[d]
         /\ row'[item.domain].id = row[item.domain].id
         /\ row'[item.domain].upstream = row[item.domain].upstream
         /\ row[item.domain].id = item.id => row'[item.domain].status = st
<1> DEFINE d0 == item.domain
           s0 == IF row[d0].id = item.id THEN st ELSE row[d0].status
           x == [row[d0] EXCEPT !.status = s0]
<1>1. row' = [row EXCEPT ![d0] = x] BY DEF SetStatus
<1>2. row \in [Domains -> Rows] /\ d0 \in Domains /\ item.id \in 1..MaxSaves BY DEF TypeOK, Items
<1>3. row[d0] \in Rows BY <1>2
<1>4. s0 \in {"absent", "pending", "applied", "failed"} BY <1>3 DEF Rows
<1> HIDE DEF s0
<1>5. x \in Rows /\ x.id = row[d0].id /\ x.status = s0 /\ x.upstream = row[d0].upstream
      /\ x.kind = row[d0].kind
  BY <1>3, <1>4 DEF Rows
<1>6. s0 = row[d0].status => x = row[d0]
  <2>1. row[d0] = [row[d0] EXCEPT !.status = row[d0].status] BY <1>3 DEF Rows
  <2> QED BY <2>1
<1> HIDE DEF x
<1>7. row' \in [Domains -> Rows] /\ row'[d0] = x /\ \A d \in Domains : d # d0 => row'[d] = row[d]
  BY <1>1, <1>2, <1>5
<1>8. ASSUME NEW d \in Domains PROVE RowOf(d)'
  <2>1. CASE d # d0 BY <2>1, <1>7 DEF RowOf
  <2>2. CASE d = d0 /\ row[d0].id = item.id
    <3>1. s0 = st /\ row[d0].id # 0 BY <2>2, <1>2 DEF s0
    <3> QED BY <2>2, <3>1, <1>5, <1>7 DEF RowOf
  <2>3. CASE d = d0 /\ row[d0].id # item.id
    <3>1. x = row[d0] BY <2>3, <1>6 DEF s0
    <3> QED BY <2>3, <3>1, <1>7 DEF RowOf
  <2> QED BY <2>1, <2>2, <2>3
<1>9. row[d0].id = item.id => s0 = st BY DEF s0
<1> QED BY <1>5, <1>7, <1>8, <1>9

\* The work of an actor ends.
LEMMA EndStep ==
  ASSUME RoutesInv, NEW p \in Procs, ~At(p, "idle"), UNCHANGED <<proxy, ids, file, live>>, End(p),
         row' \in [Domains -> Rows], faults' \in 0..MaxFaults[proxy],
         blurred' \subseteq Domains, hidden' \subseteq Domains,
         blurred \ On(p) \subseteq blurred', blurred \subseteq blurred' \/ proc[p].alone,
         \A d \in Domains : d \notin On(p) => row'[d] = row[d] /\ (d \in hidden' <=> d \in hidden),
         \A d \in Domains : RowOf(d)',
         \A d \in On(p) \ blurred' : Sound(d)'
  PROVE  RoutesInv'
<1>1. proc \in [Procs -> Work] BY DEF RoutesInv, TypeOK
<1>2. proc' = [proc EXCEPT ![p] = Idle] BY DEF End
<1>3. proc' \in [Procs -> Work] /\ proc'[p] = Idle BY <1>1, <1>2, IdleWork
<1>4. TypeOK' BY <1>3 DEF RoutesInv, TypeOK
<1>5. At(p, "idle")' /\ ~proc'[p].alone /\ proc'[p].plan = <<>> BY <1>3, IdleWork DEF At
<1>6. Places(p)' = {} BY <1>5 DEF Places
<1>7. WorkOf(p)'
  <2>1. ShapeOf(p)' BY <1>3, <1>5, <1>6, IdleWork DEF ShapeOf, At
  <2>2. SeenOf(p)' /\ AloneOf(p)' BY <1>5 DEF SeenOf, AloneOf, At
  <2> QED BY <1>6, <2>1, <2>2 DEF WorkOf
<1>8. \A d \in Domains \ blurred' : d \notin On(p) => Calm(d) BY DEF Calm
<1> QED BY <1>2, <1>3, <1>4, <1>5, <1>7, <1>8, ActiveStep

\* What the invariant says of the present route.
LEMMA NowFacts ==
  ASSUME RoutesInv, NEW p \in Procs, ~At(p, "idle"), NEW d0, d0 = Now(p).domain
  PROVE  /\ (proc[p].alone /\ proc[p].op # "undo") \/ d0 \notin blurred =>
              row[d0].id = Now(p).id /\ row[d0].upstream = Now(p).was /\ row[d0].status # "absent"
         /\ d0 \notin blurred =>
              /\ At(p, "done") => Put(d0, Want(p)) \/ (proc[p].op = "delete" /\ d0 \in hidden)
              /\ proc[p].op = "apply" /\ row[d0].status = "applied" => Put(d0, Now(p).was)
         /\ proc[p].op = "apply" => Want(p) = Now(p).was
         /\ proc[p].op = "delete" => Want(p) = Off
         /\ proc[p].op \in {"apply", "delete"} => On(p) = {d0}
         /\ proc[p].op = "apply" /\ proc[p].alone /\ At(p, "done") => Put(d0, Want(p))
<1>0. TypeOK /\ proc[p].k \in Places(p) /\ d0 \in Domains BY Present DEF RoutesInv
<1>1. ShapeOf(p) /\ AloneOf(p) /\ KeptOf(p, proc[p].k) /\ HostOf(p, proc[p].k)
  BY <1>0 DEF RoutesInv, WorkOf
<1>2. (proc[p].alone /\ proc[p].op # "undo") \/ d0 \notin blurred =>
        row[d0].id = Now(p).id /\ row[d0].upstream = Now(p).was
  BY <1>1 DEF KeptOf, Now
<1>3. Now(p).id # 0
  <2>1. Now(p).id \in 1..MaxSaves BY Present
  <2> QED BY <2>1, ProxyRoutesAssumption
<1>4. row[d0].id = Now(p).id => row[d0].status # "absent" BY <1>0, <1>3 DEF RoutesInv, RowOf
<1>5. d0 \notin blurred =>
        /\ At(p, "done") => Put(d0, Want(p)) \/ (proc[p].op = "delete" /\ d0 \in hidden)
        /\ proc[p].op = "apply" /\ row[d0].status = "applied" => Put(d0, Now(p).was)
  BY <1>1 DEF HostOf, Now
<1>6. /\ proc[p].op = "apply" => Want(p) = Now(p).was
      /\ proc[p].op = "delete" => Want(p) = Off
  BY <1>1 DEF ShapeOf, Want
<1>7. proc[p].op \in {"apply", "delete"} => On(p) = {d0}
  <2> SUFFICES ASSUME proc[p].op \in {"apply", "delete"} PROVE On(p) = {d0} OBVIOUS
  <2>1. Len(proc[p].plan) = 1 BY <1>1 DEF ShapeOf
  <2>2. 1..1 = {1} OBVIOUS
  <2>3. proc[p].k = 1 BY <1>0, <2>1, <2>2 DEF Places
  <2> QED BY <2>1, <2>2, <2>3 DEF On, Now
<1>8. proc[p].op = "apply" /\ proc[p].alone /\ At(p, "done") => Put(d0, Want(p))
  BY <1>1 DEF AloneOf, Put, At
<1> QED BY <1>2, <1>4, <1>5, <1>6, <1>7, <1>8

\* An apply succeeds.
LEMMA ApplyDoneInv ==
  ASSUME RoutesInv, UNCHANGED proxy, NEW p \in Procs, ApplyDone(p) PROVE RoutesInv'
<1>0. TypeOK /\ \A d \in Domains : RowOf(d) BY DEF RoutesInv
<1>1. /\ At(p, "done") /\ proc[p].op = "apply" /\ row' = SetStatus(Now(p), "applied")
      /\ hidden' = hidden \ {Now(p).domain} /\ blurred' = Cleared(p) /\ End(p)
      /\ UNCHANGED <<ids, file, live, faults>>
  BY DEF ApplyDone, MarkProxyRouteApplied, disks
<1>2. ~At(p, "idle") BY <1>1 DEF At
<1>3. Now(p) \in Items BY <1>2, Present
<1>4. PICK d0 \in Domains : d0 = Now(p).domain BY <1>2, Present
<1>5. /\ row' \in [Domains -> Rows] /\ \A d \in Domains : RowOf(d)'
      /\ \A d \in Domains : d # d0 => row'[d] = row[d]
      /\ row'[d0].upstream = row[d0].upstream
      /\ row[d0].id = Now(p).id => row'[d0].status = "applied"
  BY <1>0, <1>1, <1>3, <1>4, SetsStatus
<1>6. On(p) = {d0} BY <1>1, <1>2, <1>4, NowFacts
<1>7. blurred' = IF proc[p].alone THEN blurred \ {d0} ELSE blurred BY <1>1, <1>4 DEF Cleared
<1>8. /\ blurred' \subseteq Domains /\ hidden' \subseteq Domains /\ faults' \in 0..MaxFaults[proxy]
  BY <1>0, <1>1, <1>7 DEF TypeOK
<1>9. ASSUME d0 \notin blurred' PROVE Sound(d0)'
  <2>1. proc[p].alone \/ d0 \notin blurred BY <1>7, <1>9
  <2>2. row[d0].id = Now(p).id /\ row[d0].upstream = Now(p).was
    BY <1>1, <1>2, <1>4, <2>1, NowFacts
  <2>3. Put(d0, Now(p).was) BY <1>1, <1>2, <1>4, <2>1, NowFacts
  <2> QED BY <1>1, <1>5, <2>2, <2>3 DEF Sound, Put
<1> QED BY <1>1, <1>2, <1>4, <1>5, <1>6, <1>7, <1>8, <1>9, EndStep

\* An apply fails, and cannot record it perhaps.
LEMMA ApplyFailsInv ==
  ASSUME RoutesInv, UNCHANGED proxy, NEW p \in Procs, ApplyFails(p) PROVE RoutesInv'
<1>0. TypeOK /\ \A d \in Domains : RowOf(d) BY DEF RoutesInv
<1>1. /\ At(p, "error") /\ proc[p].op = "apply" /\ MarkFailed(p) /\ End(p)
      /\ UNCHANGED <<ids, file, live, faults, blurred>>
  BY DEF ApplyFails, disks
<1>2. ~At(p, "idle") BY <1>1 DEF At
<1>3. Now(p) \in Items BY <1>2, Present
<1>4. PICK d0 \in Domains : d0 = Now(p).domain BY <1>2, Present
<1>5. On(p) = {d0} BY <1>1, <1>2, <1>4, NowFacts
<1>6. blurred' \subseteq Domains /\ faults' \in 0..MaxFaults[proxy] BY <1>0, <1>1 DEF TypeOK
<1>7. CASE row' = SetStatus(Now(p), "failed") /\ hidden' = hidden \ {d0}
  <2>1. /\ row' \in [Domains -> Rows] /\ \A d \in Domains : RowOf(d)'
        /\ \A d \in Domains : d # d0 => row'[d] = row[d]
        /\ row[d0].id = Now(p).id => row'[d0].status = "failed"
    BY <1>0, <1>3, <1>4, <1>7, SetsStatus
  <2>2. hidden' \subseteq Domains BY <1>0, <1>7 DEF TypeOK
  <2>3. d0 \notin blurred' => Sound(d0)' BY <1>1, <1>2, <1>4, <2>1, NowFacts DEF Sound
  <2> QED BY <1>1, <1>2, <1>5, <1>6, <1>7, <2>1, <2>2, <2>3, EndStep
<1>8. CASE row' = row /\ hidden' = hidden \cup {d0}
  <2>1. row' \in [Domains -> Rows] /\ \A d \in Domains : RowOf(d)' BY <1>0, <1>8 DEF TypeOK, RowOf
  <2>2. hidden' \subseteq Domains BY <1>0, <1>8 DEF TypeOK
  <2>3. d0 \notin blurred' => Sound(d0)'
    <3>1. d0 \notin blurred /\ row[d0].status = "applied" =>
            Put(d0, row[d0].upstream)
      BY <1>1, <1>2, <1>4, NowFacts
    <3> QED BY <1>1, <1>8, <3>1 DEF Sound, Put
  <2> QED BY <1>1, <1>2, <1>5, <1>6, <1>8, <2>1, <2>2, <2>3, EndStep
<1> QED BY <1>1, <1>4, <1>7, <1>8 DEF MarkFailed, MarkProxyRouteFailed

\* The row of a deleted route goes.
LEMMA DeleteDoneInv ==
  ASSUME RoutesInv, UNCHANGED proxy, NEW p \in Procs, DeleteDone(p) PROVE RoutesInv'
<1>0. TypeOK /\ \A d \in Domains : RowOf(d) BY DEF RoutesInv
<1>1. /\ At(p, "done") /\ proc[p].op = "delete" /\ row' = DeleteProxyRoute(Now(p)) /\ End(p)
      /\ UNCHANGED <<ids, file, live, faults, blurred, hidden>>
  BY DEF DeleteDone, disks
<1>2. ~At(p, "idle") BY <1>1 DEF At
<1>3. PICK d0 \in Domains : d0 = Now(p).domain BY <1>2, Present
<1>4. On(p) = {d0} BY <1>1, <1>2, <1>3, NowFacts
<1>5. /\ blurred' \subseteq Domains /\ hidden' \subseteq Domains /\ faults' \in 0..MaxFaults[proxy]
  BY <1>0, <1>1 DEF TypeOK
<1>6. Absent \in Rows /\ Absent.id = 0 /\ Absent.status = "absent"
  <2>1. 0 \in 0..MaxSaves BY ProxyRoutesAssumption
  <2> QED BY <2>1 DEF Absent, Rows, Upstreams, Kinds
<1>7. row' = [row EXCEPT ![d0] = IF row[d0].id = Now(p).id THEN Absent ELSE row[d0]]
  BY <1>1, <1>3 DEF DeleteProxyRoute
<1>8. row \in [Domains -> Rows] BY <1>0 DEF TypeOK
<1>9. /\ row' \in [Domains -> Rows] /\ \A d \in Domains : d # d0 => row'[d] = row[d]
      /\ row'[d0] \in {Absent, row[d0]} /\ (row[d0].id = Now(p).id => row'[d0] = Absent)
  BY <1>6, <1>7, <1>8
<1>10. ASSUME NEW d \in Domains PROVE RowOf(d)'
  <2>1. CASE row'[d] = row[d] BY <2>1, <1>0 DEF RowOf
  <2>2. CASE row'[d] = Absent BY <2>2, <1>6 DEF RowOf
  <2> QED BY <2>1, <2>2, <1>9
<1>11. d0 \notin blurred' => Sound(d0)'
  <2> SUFFICES ASSUME d0 \notin blurred PROVE Sound(d0)' BY <1>1
  <2>1. row'[d0].status = "absent" BY <1>2, <1>3, <1>6, <1>9, NowFacts
  <2>2. Put(d0, Off) \/ d0 \in hidden BY <1>1, <1>2, <1>3, NowFacts
  <2> QED BY <1>1, <2>1, <2>2 DEF Sound, Put
<1> QED BY <1>1, <1>2, <1>4, <1>5, <1>9, <1>10, <1>11, EndStep

\* A deletion fails half way, or a process dies: what it worked on is blurred.
LEMMA HalfWayInv ==
  ASSUME RoutesInv, UNCHANGED proxy, NEW p \in Procs, DeleteFails(p) \/ Crash(p) PROVE RoutesInv'
<1>0. TypeOK /\ \A d \in Domains : RowOf(d) BY DEF RoutesInv
<1>1. /\ ~At(p, "idle") /\ End(p) /\ UNCHANGED <<row, ids, file, live, hidden>>
  BY DEF DeleteFails, Crash, tables, disks, At
<1>2. blurred' = blurred \cup On(p)
  <2>1. CASE DeleteFails(p)
    <3>1. PICK d0 \in Domains : d0 = Now(p).domain BY <1>1, Present
    <3>2. On(p) = {d0} BY <2>1, <1>1, <3>1, NowFacts DEF DeleteFails
    <3> QED BY <2>1, <3>1, <3>2 DEF DeleteFails
  <2>2. CASE Crash(p) BY <2>2 DEF Crash
  <2> QED BY <2>1, <2>2
<1>3. faults' \in 0..MaxFaults[proxy]
  <2>1. MaxFaults[proxy] \in Nat BY <1>0, ProxyRoutesAssumption DEF TypeOK
  <2> QED BY <1>0, <2>1 DEF TypeOK, DeleteFails, Crash, Fault
<1>4. /\ blurred' \subseteq Domains /\ hidden' \subseteq Domains /\ row' \in [Domains -> Rows]
  BY <1>0, <1>1, <1>2, WorkTypes DEF TypeOK
<1>5. \A d \in Domains : RowOf(d)' BY <1>0, <1>1 DEF RowOf
<1> QED BY <1>1, <1>2, <1>3, <1>4, <1>5, EndStep

-----------------------------------------------------------------------------
LEMMA FirstPlaces == First \in {"read", "write"} /\ (SharedFile => First = "read")
BY DEF First, SharedFile

\* What the invariant says of a route of a plan.
LEMMA ItemFacts ==
  ASSUME RoutesInv, NEW p \in Procs, ~At(p, "idle"), NEW i \in Places(p),
         NEW d, d = proc[p].plan[i].domain
  PROVE  /\ d \in Domains /\ d \in On(p) /\ i \in Nat /\ proc[p].k \in Nat /\ proc[p].k \in Places(p)
         /\ i # proc[p].k <=> d # Now(p).domain
         /\ (proc[p].alone /\ proc[p].op # "undo") \/ d \notin blurred =>
              row[d].id = proc[p].plan[i].id /\ row[d].upstream = proc[p].plan[i].was
         /\ d \notin blurred =>
              /\ i < proc[p].k /\ proc[p].op = "promote" => Put(d, proc[p].plan[i].want)
              /\ i > proc[p].k => Sound(d)
<1>0. TypeOK /\ proc[p].k \in Places(p) BY Present DEF RoutesInv
<1>1. d \in Domains /\ d \in On(p) /\ i \in Nat /\ proc[p].k \in Nat BY <1>0, WorkTypes DEF Places
<1>2. ShapeOf(p) /\ KeptOf(p, i) /\ HostOf(p, i) BY DEF RoutesInv, WorkOf
<1>3. i # proc[p].k <=> d # Now(p).domain BY <1>0, <1>2 DEF ShapeOf, Now
<1>4. (proc[p].alone /\ proc[p].op # "undo") \/ d \notin blurred =>
        row[d].id = proc[p].plan[i].id /\ row[d].upstream = proc[p].plan[i].was
  BY <1>2 DEF KeptOf
<1>5. d \notin blurred =>
        /\ i < proc[p].k /\ proc[p].op = "promote" => Put(d, proc[p].plan[i].want)
        /\ i > proc[p].k => Sound(d)
  BY <1>2 DEF HostOf
<1> QED BY <1>0, <1>1, <1>3, <1>4, <1>5

\* On to the next route of a deployment.
LEMMA NextRouteInv ==
  ASSUME RoutesInv, UNCHANGED proxy, NEW p \in Procs, NextRoute(p) PROVE RoutesInv'
<1>0. TypeOK /\ \A d \in Domains : RowOf(d) BY DEF RoutesInv
<1> DEFINE x == [proc[p] EXCEPT !.pc = First, !.k = proc[p].k + 1]
<1>1. /\ At(p, "done") /\ proc[p].op = "promote" /\ proc[p].k < Len(proc[p].plan)
      /\ proc' = [proc EXCEPT ![p] = x]
      /\ UNCHANGED <<row, ids, file, live, faults, blurred, hidden>>
  BY DEF NextRoute, tables, disks
<1>2. proc[p] \in Work /\ proc \in [Procs -> Work] /\ proc[p].k \in Nat /\ Len(proc[p].plan) \in Nat
  BY <1>0, WorkTypes DEF TypeOK
<1>3. x \in Work
  <2>1. PICK f \in {"read", "write"}, k \in Nat : f = First /\ k = proc[p].k + 1 BY <1>2, FirstPlaces
  <2>2. x = [proc[p] EXCEPT !.pc = f, !.k = k] BY <2>1
  <2> HIDE DEF x
  <2> QED BY <1>2, <2>2 DEF Work
<1>4. /\ x.pc = First /\ x.op = proc[p].op /\ x.plan = proc[p].plan /\ x.k = proc[p].k + 1
      /\ x.seen = proc[p].seen /\ x.alone = proc[p].alone
  BY <1>2 DEF Work
<1> HIDE DEF x
<1>5. proc'[p] = x BY <1>1, <1>2
<1>6. TypeOK' BY <1>0, <1>1, <1>2, <1>3 DEF TypeOK
<1>7. ~At(p, "idle") /\ ~At(p, "idle")' /\ ~At(p, "reload")' /\ ~At(p, "done")'
  BY <1>1, <1>4, <1>5, FirstPlaces DEF At
<1>8. \A d \in Domains : Calm(d) /\ RowOf(d)' BY <1>0, <1>1 DEF Calm, RowOf
<1>9. WorkOf(p)'
  <2>0. Places(p)' = Places(p) /\ proc[p].k \in Places(p) BY <1>4, <1>5, <1>7, Present DEF Places
  <2>1. ShapeOf(p)'
    <3>1. proc'[p].k \in Places(p) BY <1>1, <1>2, <1>4, <1>5, <2>0 DEF Places
    <3>2. ~(SharedFile' /\ At(p, "write")') BY <1>4, <1>5, FirstPlaces DEF At, SharedFile
    <3>3. \A i, j \in Places(p) : proc[p].plan[i].domain = proc[p].plan[j].domain => i = j
      BY DEF RoutesInv, WorkOf, ShapeOf
    <3> QED BY <1>1, <1>4, <1>5, <1>7, <2>0, <3>1, <3>2, <3>3 DEF ShapeOf
  <2>2. SeenOf(p)' BY <1>4, <1>5, FirstPlaces DEF SeenOf, At, SharedFile
  <2>3. AloneOf(p)' BY <1>1, <1>4, <1>5 DEF AloneOf
  <2>4. ASSUME NEW i \in Places(p) PROVE KeptOf(p, i)' /\ HostOf(p, i)'
    <3>0. PICK d \in Domains : d = proc[p].plan[i].domain BY <1>0, WorkTypes
    <3>1. d = proc'[p].plan[i].domain BY <3>0, <1>4, <1>5
    <3>2. KeptOf(p, i)' BY <1>1, <1>4, <1>5, <3>0, <1>7, ItemFacts DEF KeptOf
    <3>3. HostOf(p, i)'
      <4> SUFFICES ASSUME d \notin blurred PROVE HostOf(p, i)' BY <1>1, <3>1 DEF HostOf
      <4>1. i \in Nat BY <1>7, <3>0, ItemFacts
      <4>2. i > proc[p].k + 1 => Sound(d)
        BY <4>1, <1>2, <1>7, <3>0, ItemFacts
      <4>3. i < proc[p].k + 1 => Put(d, proc[p].plan[i].want)
        <5>1. CASE i < proc[p].k BY <5>1, <1>1, <1>7, <3>0, ItemFacts
        <5>2. CASE i = proc[p].k
          <6>1. Want(p) = proc[p].plan[i].want /\ d = Now(p).domain BY <5>2, <1>1, <3>0 DEF Want, Now
          <6> QED BY <6>1, <1>1, <1>7, NowFacts
        <5> QED BY <4>1, <1>2, <5>1, <5>2
      <4>4. Calm(d) BY <1>8
      <4>5. i > proc[p].k + 1 => Sound(d)' BY <4>2, <4>4, CalmSound
      <4>6. i < proc[p].k + 1 => Put(d, proc[p].plan[i].want)'
        BY <4>3, <1>1, <1>4, <1>5 DEF Put
      <4> QED BY <1>1, <1>4, <1>5, <1>7, <3>1, <4>5, <4>6 DEF HostOf
    <3> QED BY <3>2, <3>3
  <2> QED BY <2>0, <2>1, <2>2, <2>3, <2>4 DEF WorkOf
<1> QED BY <1>1, <1>4, <1>5, <1>6, <1>7, <1>8, <1>9, ActiveStep

\* The first n routes of a plan are to be undone, the others are sound.
LEMMA UndoStep ==
  ASSUME RoutesInv, NEW p \in Procs, ~At(p, "idle"), UNCHANGED <<proxy, ids, file, live>>,
         proc[p].op \in {"promote", "undo"}, NEW n \in 0..Len(proc[p].plan), Undo(p, n),
         row' \in [Domains -> Rows], \A d \in Domains : RowOf(d)', faults' \in 0..MaxFaults[proxy],
         blurred \subseteq blurred', blurred' \subseteq Domains, hidden' \subseteq Domains,
         \A d \in Domains : d \notin On(p) => row'[d] = row[d] /\ (d \in hidden' <=> d \in hidden),
         \A i \in Places(p) : \A d \in Domains :
           d = proc[p].plan[i].domain =>
             /\ d \notin blurred' =>
                  row'[d].id = row[d].id /\ row'[d].upstream = row[d].upstream
             /\ i > n /\ d \notin blurred' => Sound(d)'
  PROVE  RoutesInv'
<1>0. TypeOK BY DEF RoutesInv
<1>1. CASE n = 0
  <2>1. End(p) BY <1>1 DEF Undo
  <2>2. \A d \in On(p) \ blurred' : Sound(d)'
    <3> SUFFICES ASSUME NEW d \in On(p), d \notin blurred' PROVE Sound(d)' OBVIOUS
    <3>1. PICK i \in Places(p) : d = proc[p].plan[i].domain BY DEF On, Places
    <3>2. d \in Domains /\ i > 0 BY <1>0, <3>1, WorkTypes DEF Places
    <3> QED BY <1>1, <3>1, <3>2
  <2> QED BY <2>1, <2>2, EndStep
<1>2. CASE n # 0
  <2> DEFINE x == [proc[p] EXCEPT !.pc = First, !.op = "undo", !.k = n]
  <2>1. proc' = [proc EXCEPT ![p] = x] BY <1>2 DEF Undo
  <2>2. proc[p] \in Work /\ proc \in [Procs -> Work] /\ n \in Nat /\ Len(proc[p].plan) \in Nat
    BY <1>0, WorkTypes DEF TypeOK
  <2>3. x \in Work BY <2>2, FirstPlaces DEF Work
  <2>4. /\ x.pc = First /\ x.op = "undo" /\ x.plan = proc[p].plan /\ x.k = n
        /\ x.seen = proc[p].seen /\ x.alone = proc[p].alone
    BY <2>2 DEF Work
  <2> HIDE DEF x
  <2>5. proc'[p] = x BY <2>1, <2>2
  <2>6. TypeOK' BY <1>0, <2>1, <2>2, <2>3 DEF TypeOK
  <2>7. ~At(p, "idle")' /\ ~At(p, "reload")' /\ ~At(p, "done")' BY <2>4, <2>5, FirstPlaces DEF At
  <2>8. WorkOf(p)'
    <3>0. Places(p)' = Places(p) /\ n \in Places(p) BY <1>2, <2>2, <2>4, <2>5 DEF Places
    <3>1. ShapeOf(p)'
      <4>1. ~(SharedFile' /\ At(p, "write")') BY <2>4, <2>5, FirstPlaces DEF At, SharedFile
      <4>2. \A i, j \in Places(p) : proc[p].plan[i].domain = proc[p].plan[j].domain => i = j
        BY DEF RoutesInv, WorkOf, ShapeOf
      <4>3. proc'[p].k = n /\ proc'[p].op = "undo" /\ proc'[p].plan = proc[p].plan BY <2>4, <2>5
      <4>4. \A i, j \in Places(p)' : proc'[p].plan[i].domain = proc'[p].plan[j].domain => i = j
        <5>1. \A i, j \in Places(p)' : proc[p].plan[i].domain = proc[p].plan[j].domain => i = j
          BY <3>0, <4>2
        <5> QED BY <4>3, <5>1
      <4>5. proc'[p].k \in Places(p)' /\ proc'[p].op \notin {"none", "apply", "delete"}
        BY <3>0, <4>3
      <4> QED BY <2>7, <4>1, <4>4, <4>5, Zenon DEF ShapeOf
    <3>2. SeenOf(p)' BY <2>4, <2>5, FirstPlaces DEF SeenOf, At, SharedFile
    <3>3. AloneOf(p)' BY <2>4, <2>5 DEF AloneOf
    <3>4. ASSUME NEW i \in Places(p) PROVE KeptOf(p, i)' /\ HostOf(p, i)'
      <4>0. PICK d \in Domains : d = proc[p].plan[i].domain BY <1>0, WorkTypes
      <4>1. d = proc'[p].plan[i].domain BY <4>0, <2>4, <2>5
      <4>2. KeptOf(p, i)'
        <5>1. d \notin blurred' =>
                row[d].id = proc[p].plan[i].id /\ row[d].upstream = proc[p].plan[i].was
          BY <4>0, ItemFacts
        <5> QED BY <2>4, <2>5, <4>0, <4>1, <5>1 DEF KeptOf
      <4>3. HostOf(p, i)'
        <5>1. i > n /\ d \notin blurred' => Sound(d)' BY <4>0
        <5> QED BY <2>4, <2>5, <2>7, <4>1, <5>1 DEF HostOf
      <4> QED BY <4>2, <4>3
    <3> QED BY <3>0, <3>1, <3>2, <3>3, <3>4 DEF WorkOf
  <2>9. \A d \in Domains \ blurred' : d \notin On(p) => Calm(d) BY DEF Calm
  <2> QED BY <2>1, <2>4, <2>5, <2>6, <2>7, <2>8, <2>9, ActiveStep
<1> QED BY <1>1, <1>2

\* The place before a place of a sequence, or none.
LEMMA PlaceBefore ==
  ASSUME NEW l \in Nat, NEW k \in 1..l PROVE k - 1 \in 0..l
OBVIOUS

\* Back from the present route, which is sound now, to the one before it.
LEMMA StepBack ==
  ASSUME RoutesInv, NEW p \in Procs, ~At(p, "idle"), UNCHANGED <<proxy, ids, file, live>>,
         proc[p].op \in {"promote", "undo"}, Undo(p, proc[p].k - 1),
         row' \in [Domains -> Rows], \A d \in Domains : RowOf(d)', faults' \in 0..MaxFaults[proxy],
         blurred \subseteq blurred', blurred' \subseteq Domains, hidden' \subseteq Domains,
         NEW d0 \in Domains, d0 = Now(p).domain,
         \A d \in Domains : d # d0 => row'[d] = row[d] /\ (d \in hidden' <=> d \in hidden),
         row'[d0].id = row[d0].id, row'[d0].upstream = row[d0].upstream,
         d0 \notin blurred' => Sound(d0)'
  PROVE  RoutesInv'
<1>0. TypeOK BY DEF RoutesInv
<1>1. proc[p].k \in Places(p) /\ d0 \in On(p) BY Present
<1>2. PICK n \in 0..Len(proc[p].plan) : n = proc[p].k - 1
  <2>1. Len(proc[p].plan) \in Nat /\ proc[p].k \in 1..Len(proc[p].plan) BY <1>0, <1>1, WorkTypes DEF Places
  <2>2. proc[p].k - 1 \in 0..Len(proc[p].plan) BY ONLY <2>1, PlaceBefore
  <2> QED BY ONLY <2>2
<1>3. Undo(p, n) BY <1>2
<1>4. ASSUME NEW i \in Places(p), NEW d \in Domains, d = proc[p].plan[i].domain, i > n, d \notin blurred'
      PROVE  Sound(d)'
  <2>1. CASE i = proc[p].k
    <3>1. d = d0 BY <1>4, <2>1, ItemFacts
    <3> QED BY <1>4, <3>1
  <2>2. CASE i # proc[p].k
    <3>0. d \notin blurred BY <1>4
    <3>1. d # d0 /\ i \in Nat /\ proc[p].k \in Nat BY <1>4, <2>2, ItemFacts
    <3>2. i > proc[p].k BY <1>2, <1>4, <2>2, <3>1
    <3>3. Sound(d) BY <1>4, <3>0, <3>2, ItemFacts
    <3>4. Calm(d) BY <3>1 DEF Calm
    <3> QED BY <3>3, <3>4, CalmSound
  <2> QED BY <2>1, <2>2
<1>5. \A d \in Domains : row'[d].id = row[d].id /\ row'[d].upstream = row[d].upstream
  <2> SUFFICES ASSUME NEW d \in Domains
               PROVE  row'[d].id = row[d].id /\ row'[d].upstream = row[d].upstream
    OBVIOUS
  <2>1. d = d0 \/ row'[d] = row[d] OBVIOUS
  <2> QED BY <2>1
<1>6. \A d \in Domains : d \notin On(p) => row'[d] = row[d] /\ (d \in hidden' <=> d \in hidden)
  BY <1>1
<1> QED BY <1>3, <1>4, <1>5, <1>6, UndoStep

\* The command of a route fails during a deployment: it is marked, the ones before it
\* are undone.
LEMMA RouteFailsInv ==
  ASSUME RoutesInv, UNCHANGED proxy, NEW p \in Procs, RouteFails(p) PROVE RoutesInv'
<1>0. TypeOK /\ \A d \in Domains : RowOf(d) BY DEF RoutesInv
<1>1. /\ At(p, "error") /\ proc[p].op = "promote" /\ MarkFailed(p) /\ Undo(p, proc[p].k - 1)
      /\ blurred' = IF row' = row THEN blurred \cup {Now(p).domain} ELSE blurred
      /\ UNCHANGED <<ids, file, live, faults>>
  BY DEF RouteFails, disks
<1>2. ~At(p, "idle") BY <1>1 DEF At
<1>3. Now(p) \in Items BY <1>2, Present
<1>4. PICK d0 \in Domains : d0 = Now(p).domain BY <1>2, Present
<1>5. /\ blurred \subseteq blurred' /\ blurred' \subseteq Domains /\ faults' \in 0..MaxFaults[proxy]
      /\ row' = row => d0 \in blurred'
  BY <1>0, <1>1, <1>4 DEF TypeOK
<1>6. CASE row' = SetStatus(Now(p), "failed") /\ hidden' = hidden \ {d0}
  <2>1. /\ row' \in [Domains -> Rows] /\ \A d \in Domains : RowOf(d)'
        /\ \A d \in Domains : d # d0 => row'[d] = row[d]
        /\ row'[d0].id = row[d0].id /\ row'[d0].upstream = row[d0].upstream
        /\ row[d0].id = Now(p).id => row'[d0].status = "failed"
    BY <1>0, <1>3, <1>4, <1>6, SetsStatus
  <2>2. hidden' \subseteq Domains BY <1>0, <1>6 DEF TypeOK
  <2>3. d0 \notin blurred' => Sound(d0)' BY <1>2, <1>4, <1>5, <2>1, NowFacts DEF Sound
  <2> QED BY <1>1, <1>2, <1>4, <1>5, <1>6, <2>1, <2>2, <2>3, StepBack
<1>7. CASE row' = row /\ hidden' = hidden \cup {d0}
  <2>1. row' \in [Domains -> Rows] /\ (\A d \in Domains : RowOf(d)') /\ hidden' \subseteq Domains
    BY <1>0, <1>7 DEF TypeOK, RowOf
  <2> QED BY <1>1, <1>2, <1>4, <1>5, <1>7, <2>1, StepBack
<1> QED BY <1>1, <1>4, <1>6, <1>7 DEF MarkFailed, MarkProxyRouteFailed

\* A route is restored, or its compensation fails.
LEMMA UndoNextInv ==
  ASSUME RoutesInv, UNCHANGED proxy, NEW p \in Procs, UndoNext(p) PROVE RoutesInv'
<1>0. TypeOK /\ \A d \in Domains : RowOf(d) BY DEF RoutesInv
<1>1. /\ proc[p].pc \in {"done", "error"} /\ proc[p].op = "undo" /\ Undo(p, proc[p].k - 1)
      /\ UNCHANGED <<row, ids, file, live, faults>>
  BY DEF UndoNext, tables, disks
<1>2. ~At(p, "idle") BY <1>1 DEF At
<1>3. PICK d0 \in Domains : d0 = Now(p).domain BY <1>2, Present
<1>4. /\ hidden' = IF row[d0].status = "pending" THEN hidden \cup {d0} ELSE hidden
      /\ blurred' = IF At(p, "error") THEN blurred \cup {d0} ELSE blurred
  BY <1>3 DEF UndoNext
<1>5. /\ row' \in [Domains -> Rows] /\ \A d \in Domains : RowOf(d)'
      /\ blurred \subseteq blurred' /\ blurred' \subseteq Domains /\ hidden' \subseteq Domains
      /\ faults' \in 0..MaxFaults[proxy]
  BY <1>0, <1>1, <1>4 DEF TypeOK, RowOf
<1>6. d0 \notin blurred' => Sound(d0)'
  <2> SUFFICES ASSUME d0 \notin blurred' PROVE Sound(d0)' OBVIOUS
  <2>1. At(p, "done") /\ d0 \notin blurred BY <1>1, <1>4 DEF At
  <2>2. row[d0].upstream = Now(p).was /\ row[d0].status # "absent" BY <1>2, <1>3, <2>1, NowFacts
  <2>3. Want(p) = Now(p).was BY <1>1 DEF Want
  <2>4. Put(d0, Want(p)) BY <1>1, <1>2, <1>3, <2>1, NowFacts
  <2> QED BY <1>1, <1>4, <2>2, <2>3, <2>4 DEF Sound, Put
<1> QED BY <1>1, <1>2, <1>3, <1>4, <1>5, <1>6, StepBack

\* The rows of a deployment's routes show it; those deleted meanwhile do not.
LEMMA Promoting ==
  ASSUME RoutesInv, NEW p \in Procs, ~At(p, "idle"), row' = PromoteProxyRoutes(proc[p].plan)
  PROVE  /\ row' \in [Domains -> Rows] /\ \A d \in Domains : RowOf(d)'
         /\ \A d \in Domains : d \notin On(p) => row'[d] = row[d]
         /\ \A i \in Places(p) : \A d \in Domains :
              d = proc[p].plan[i].domain /\ row[d].id = proc[p].plan[i].id =>
                row'[d].status = "applied" /\ row'[d].upstream = proc[p].plan[i].want
<1> DEFINE plan == proc[p].plan
<1>0. TypeOK /\ (\A d \in Domains : RowOf(d)) /\ row \in [Domains -> Rows] BY DEF RoutesInv, TypeOK
<1>1. Kept(plan) \subseteq Places(p) BY DEF Kept, Places
<1>2. DOMAIN row' = Domains BY DEF PromoteProxyRoutes
<1>3. ASSUME NEW d \in Domains, ~\E i \in Kept(plan) : plan[i].domain = d PROVE row'[d] = row[d]
  BY <1>3 DEF PromoteProxyRoutes
<1>4. ASSUME NEW d \in Domains, NEW i \in Kept(plan), plan[i].domain = d
      PROVE  /\ row'[d] \in Rows /\ row'[d].id = row[d].id /\ row[d].id # 0
             /\ row'[d].status = "applied" /\ row'[d].upstream = plan[i].want
  <2> DEFINE c == CHOOSE j \in Kept(plan) : plan[j].domain = d
             x == [row[d] EXCEPT !.status = "applied", !.upstream = plan[c].want]
  <2>1. c \in Kept(plan) /\ plan[c].domain = d BY <1>4
  <2>2. row'[d] = x BY <1>4 DEF PromoteProxyRoutes
  <2> HIDE DEF c
  <2>3. c = i BY <1>1, <1>4, <2>1 DEF RoutesInv, WorkOf, ShapeOf
  <2>4. plan[i] \in Items BY <1>0, <1>1, <1>4, WorkTypes
  <2>5. plan[i].want \in Upstreams /\ plan[i].id \in 1..MaxSaves /\ row[d] \in Rows
    BY <1>0, <2>4 DEF Items
  <2>6. x \in Rows /\ x.id = row[d].id /\ x.status = "applied" /\ x.upstream = plan[i].want
    BY <2>3, <2>5 DEF Rows
  <2>7. row[d].id = plan[i].id BY <1>4 DEF Kept
  <2>8. row[d].id # 0 BY <2>5, <2>7, ProxyRoutesAssumption
  <2> QED BY <2>2, <2>6, <2>8
<1>5. \A d \in Domains : row'[d] \in Rows BY <1>0, <1>3, <1>4
<1>6. row' \in [Domains -> Rows]
  <2>1. row' = [d \in Domains |-> row'[d]] BY DEF PromoteProxyRoutes
  <2> QED BY <1>5, <2>1
<1>7. ASSUME NEW d \in Domains PROVE RowOf(d)'
  <2>1. CASE \E i \in Kept(plan) : plan[i].domain = d BY <2>1, <1>4 DEF RowOf
  <2>2. CASE ~\E i \in Kept(plan) : plan[i].domain = d BY <2>2, <1>0, <1>3 DEF RowOf
  <2> QED BY <2>1, <2>2
<1>8. \A d \in Domains : d \notin On(p) => row'[d] = row[d] BY <1>1, <1>3 DEF On, Places
<1>9. ASSUME NEW i \in Places(p), NEW d \in Domains, d = plan[i].domain, row[d].id = plan[i].id
      PROVE  row'[d].status = "applied" /\ row'[d].upstream = plan[i].want
  <2>1. i \in Kept(plan) BY <1>9 DEF Kept, Places
  <2> QED BY <1>4, <1>9, <2>1
<1> QED BY <1>6, <1>7, <1>8, <1>9

\* The promotion fails in the database, or its answer is lost: every route is undone.
LEMMA PromoteFailsInv ==
  ASSUME RoutesInv, UNCHANGED proxy, NEW p \in Procs, PromoteFails(p) PROVE RoutesInv'
<1>0. TypeOK /\ \A d \in Domains : RowOf(d) BY DEF RoutesInv
<1>1. /\ At(p, "done") /\ proc[p].op = "promote" /\ Undo(p, Len(proc[p].plan))
      /\ UNCHANGED <<ids, file, live>>
      /\ faults < MaxFaults[proxy] /\ faults' = faults + 1
      /\ \/ UNCHANGED <<row, hidden, blurred>>
         \/ /\ row' = PromoteProxyRoutes(proc[p].plan) /\ hidden' = hidden \ On(p)
            /\ blurred' = blurred \cup On(p)
  BY DEF PromoteFails, disks, Fault
<1>2. ~At(p, "idle") BY <1>1 DEF At
<1>3. PICK n \in 0..Len(proc[p].plan) : n = Len(proc[p].plan) BY <1>0, WorkTypes
<1>4. Undo(p, n) BY <1>1, <1>3
<1>5. \A i \in Places(p) : ~(i > n) BY <1>0, <1>3, WorkTypes DEF Places
<1>6. faults' \in 0..MaxFaults[proxy]
  <2>1. MaxFaults[proxy] \in Nat BY <1>0, ProxyRoutesAssumption DEF TypeOK
  <2> QED BY <1>0, <1>1, <2>1 DEF TypeOK
<1>7. CASE UNCHANGED <<row, hidden, blurred>>
  <2>1. /\ row' \in [Domains -> Rows] /\ blurred' \subseteq Domains /\ hidden' \subseteq Domains
        /\ \A d \in Domains : RowOf(d)'
    BY <1>0, <1>7 DEF TypeOK, RowOf
  <2> QED BY <1>1, <1>2, <1>4, <1>5, <1>6, <1>7, <2>1, UndoStep
<1>8. CASE /\ row' = PromoteProxyRoutes(proc[p].plan) /\ hidden' = hidden \ On(p)
           /\ blurred' = blurred \cup On(p)
  <2>1. /\ row' \in [Domains -> Rows] /\ \A d \in Domains : RowOf(d)'
        /\ \A d \in Domains : d \notin On(p) => row'[d] = row[d]
    BY <1>2, <1>8, Promoting
  <2>2. hidden' \subseteq Domains /\ blurred \subseteq blurred' /\ blurred' \subseteq Domains
    BY <1>0, <1>8, WorkTypes DEF TypeOK
  <2>3. \A d \in Domains : d \notin On(p) => row'[d] = row[d] /\ (d \in hidden' <=> d \in hidden)
    BY <1>8, <2>1
  <2>4. \A i \in Places(p) : proc[p].plan[i].domain \in blurred' BY <1>0, <1>8, WorkTypes
  <2> QED BY <1>1, <1>2, <1>4, <1>6, <2>1, <2>2, <2>3, <2>4, UndoStep
<1> QED BY <1>1, <1>7, <1>8

\* The promotion.
LEMMA PromoteInv ==
  ASSUME RoutesInv, UNCHANGED proxy, NEW p \in Procs, Promote(p) PROVE RoutesInv'
<1>0. TypeOK BY DEF RoutesInv
<1>1. /\ At(p, "done") /\ proc[p].op = "promote" /\ proc[p].k = Len(proc[p].plan)
      /\ row' = PromoteProxyRoutes(proc[p].plan) /\ hidden' = hidden \ On(p)
      /\ IF Cardinality(Kept(proc[p].plan)) = Len(proc[p].plan)
           THEN End(p) /\ blurred' = blurred
           ELSE Undo(p, Len(proc[p].plan)) /\ blurred' = blurred \cup On(p)
      /\ UNCHANGED <<ids, file, live, faults>>
  BY DEF Promote, disks
<1>2. ~At(p, "idle") BY <1>1 DEF At
<1>3. /\ row' \in [Domains -> Rows] /\ \A d \in Domains : RowOf(d)'
      /\ \A d \in Domains : d \notin On(p) => row'[d] = row[d]
      /\ \A i \in Places(p) : \A d \in Domains :
           d = proc[p].plan[i].domain /\ row[d].id = proc[p].plan[i].id =>
             row'[d].status = "applied" /\ row'[d].upstream = proc[p].plan[i].want
  BY <1>1, <1>2, Promoting
<1>4. /\ hidden' \subseteq Domains /\ blurred \subseteq blurred' /\ blurred' \subseteq Domains
      /\ faults' \in 0..MaxFaults[proxy]
  BY <1>0, <1>1, WorkTypes DEF TypeOK
<1>5. \A d \in Domains : d \notin On(p) => row'[d] = row[d] /\ (d \in hidden' <=> d \in hidden)
  BY <1>1, <1>3
<1>6. CASE Cardinality(Kept(proc[p].plan)) = Len(proc[p].plan)
  <2>1. End(p) /\ blurred' = blurred BY <1>1, <1>6
  <2>2. ASSUME NEW d \in On(p), d \notin blurred PROVE Sound(d)'
    <3>1. PICK i \in Places(p) : d = proc[p].plan[i].domain BY DEF On, Places
    <3>2. d \in Domains /\ i \in Nat /\ proc[p].k \in Nat /\ row[d].id = proc[p].plan[i].id
      BY <1>2, <2>2, <3>1, ItemFacts
    <3>3. i <= proc[p].k BY <1>1, <3>2 DEF Places
    <3>4. Put(d, proc[p].plan[i].want)
      <4>1. CASE i < proc[p].k BY <4>1, <1>1, <1>2, <2>2, <3>1, ItemFacts
      <4>2. CASE i = proc[p].k
        <5>1. d = Now(p).domain /\ Want(p) = proc[p].plan[i].want BY <4>2, <1>1, <3>1 DEF Now, Want
        <5> QED BY <5>1, <1>1, <1>2, <2>2, NowFacts
      <4> QED BY <3>2, <3>3, <4>1, <4>2
    <3>5. row'[d].status = "applied" /\ row'[d].upstream = proc[p].plan[i].want BY <1>3, <3>1, <3>2
    <3> QED BY <1>1, <3>4, <3>5 DEF Sound, Put
  <2> QED BY <1>1, <1>2, <1>3, <1>4, <1>5, <2>1, <2>2, EndStep
<1>7. CASE Cardinality(Kept(proc[p].plan)) # Len(proc[p].plan)
  <2>1. Undo(p, Len(proc[p].plan)) /\ blurred' = blurred \cup On(p) BY <1>1, <1>7
  <2>3. PICK n \in 0..Len(proc[p].plan) : n = Len(proc[p].plan) BY <1>0, WorkTypes
  <2>4. Undo(p, n) BY <2>1, <2>3
  <2>5. \A i \in Places(p) : proc[p].plan[i].domain \in blurred' BY <1>0, <2>1, WorkTypes
  <2> QED BY <1>1, <1>2, <1>3, <1>4, <1>5, <2>4, <2>5, UndoStep
<1> QED BY <1>6, <1>7

-----------------------------------------------------------------------------
\* A statement on one row by somebody who is at no command.
LEMMA RowStep ==
  ASSUME RoutesInv, UNCHANGED <<proxy, file, live>>, TypeOK', NEW d0 \in Domains,
         \A q \in Procs : Same(q),
         \A d \in Domains : d # d0 => row'[d] = row[d] /\ (d \in hidden' <=> d \in hidden),
         blurred' = IF Busy(d0) THEN blurred \cup {d0} ELSE blurred,
         \A q \in Procs : proc'[q].alone /\ d0 \in On(q) =>
           row'[d0].id = row[d0].id /\ row'[d0].upstream = row[d0].upstream,
         RowOf(d0)', Quiet(d0) => Sound(d0)'
  PROVE  RoutesInv'
<1>0. TypeOK /\ \A d \in Domains : RowOf(d) BY DEF RoutesInv
<1>1. \A d \in Domains : d # d0 => Calm(d) BY DEF Calm
<1>2. \A d \in Domains : RowOf(d)' BY <1>0 DEF RowOf
<1>3. \A q \in Procs : On(q)' = On(q) /\ (At(q, "idle")' <=> At(q, "idle")) BY DEF Same, On, At
<1>4. ASSUME NEW q \in Procs PROVE WorkOf(q)'
  <2>1. On(q) \subseteq Domains BY <1>0, WorkTypes
  <2>2. d0 \in On(q) => d0 \in blurred' BY DEF Busy
  <2>3. \A d \in On(q) \ blurred' : d \notin blurred /\ Calm(d) BY <1>1, <2>1, <2>2
  <2>4. \A d \in Domains \ blurred' : d \notin blurred /\ file'[d] = file[d] OBVIOUS
  <2>5. proc'[q].alone => \A d \in On(q) :
           /\ row'[d].id = row[d].id /\ row'[d].upstream = row[d].upstream
           /\ file'[d] = file[d] /\ live'[d] \in {live[d], file[d]}
    <3> SUFFICES ASSUME proc'[q].alone, NEW d \in On(q)
                 PROVE  row'[d].id = row[d].id /\ row'[d].upstream = row[d].upstream
      OBVIOUS
    <3>1. d = d0 \/ row'[d] = row[d] BY <2>1
    <3> QED BY <3>1
  <2>6. WorkOf(q) BY DEF RoutesInv
  <2> QED BY <1>0, <2>3, <2>4, <2>5, <2>6, OtherWork
<1>5. ASSUME NEW p \in Procs, NEW q \in Procs, p # q PROVE PairOf(p, q)'
  <2>1. PairOf(p, q) BY <1>5 DEF RoutesInv
  <2>2. blurred \subseteq blurred' /\ blurred' \subseteq Domains BY DEF TypeOK
  <2>3. proc'[p].alone => proc[p].alone BY DEF Same
  <2> QED BY <1>3, <2>1, <2>2, <2>3 DEF PairOf, SharedFile
<1>6. ASSUME NEW d \in Domains, Quiet(d)' PROVE Sound(d)'
  <2>1. Quiet(d) BY <1>3, <1>6 DEF Quiet, Busy
  <2>2. CASE d = d0 BY <2>1, <2>2
  <2>3. CASE d # d0
    <3>1. Sound(d) BY <2>1 DEF RoutesInv
    <3> QED BY <1>1, <2>3, <3>1, CalmSound
  <2> QED BY <2>2, <2>3
<1> QED BY <1>2, <1>4, <1>5, <1>6 DEF RoutesInv

\* A route is saved.
LEMMA SaveRouteInv ==
  ASSUME RoutesInv, UNCHANGED proxy, NEW d0 \in Domains, NEW u \in Colors, NEW kind \in Kinds,
         SaveRoute(d0, u, kind)
  PROVE  RoutesInv'
<1>0. TypeOK /\ \A d \in Domains : RowOf(d) BY DEF RoutesInv
<1> DEFINE x == CreateProxyRoute(d0, u, kind)
<1>1. /\ ids < MaxSaves /\ row' = [row EXCEPT ![d0] = x] /\ ids' = ids + 1
      /\ hidden' = IF row[d0].status \in {"applied", "failed"} THEN hidden \cup {d0} ELSE hidden
      /\ blurred' = IF Busy(d0) THEN blurred \cup {d0} ELSE blurred
      /\ proc' = [p \in Procs |-> [proc[p] EXCEPT !.alone = @ /\ d0 \notin On(p)]]
      /\ UNCHANGED <<file, live, faults>>
  BY DEF SaveRoute, disks
<1>2. row \in [Domains -> Rows] /\ row[d0] \in Rows /\ ids \in 0..MaxSaves /\ proc \in [Procs -> Work]
  BY <1>0 DEF TypeOK
<1>3. /\ x \in Rows /\ x.status = "pending" /\ x.upstream = u /\ x.id # 0
  <2> DEFINE id == IF row[d0] = Absent THEN ids + 1 ELSE row[d0].id
  <2>1. x = [id |-> id, upstream |-> u, kind |-> kind, status |-> "pending"] BY DEF CreateProxyRoute
  <2>2. id \in 1..MaxSaves
    <3>1. CASE row[d0] = Absent BY <3>1, <1>1, <1>2, ProxyRoutesAssumption
    <3>2. CASE row[d0] # Absent
      <4>1. row[d0].id # 0 BY <3>2, <1>0 DEF RowOf
      <4>2. row[d0].id \in 0..MaxSaves BY <1>2 DEF Rows
      <4> QED BY <3>2, <4>1, <4>2, ProxyRoutesAssumption
    <3> QED BY <3>1, <3>2
  <2>3. u \in Upstreams BY DEF Upstreams
  <2> HIDE DEF x, id
  <2>4. x.id = id /\ x.status = "pending" /\ x.upstream = u BY <2>1
  <2>5. id \in 0..MaxSaves /\ id # 0 BY <2>2, ProxyRoutesAssumption
  <2> QED BY <2>1, <2>3, <2>4, <2>5 DEF Rows
<1> HIDE DEF x
<1>4. row' \in [Domains -> Rows] /\ row'[d0] = x /\ \A d \in Domains : d # d0 => row'[d] = row[d]
  BY <1>1, <1>2, <1>3
<1>5. ASSUME NEW q \in Procs
      PROVE  proc'[q] \in Work /\ Same(q) /\ (proc'[q].alone => d0 \notin On(q))
  <2> DEFINE y == [proc[q] EXCEPT !.alone = proc[q].alone /\ d0 \notin On(q)]
  <2>1. proc'[q] = y BY <1>1
  <2>2. proc[q] \in Work BY <1>2
  <2>3. proc[q].alone \in BOOLEAN BY <2>2 DEF Work
  <2>4. y \in Work BY <2>2, <2>3 DEF Work
  <2>5. /\ y.pc = proc[q].pc /\ y.op = proc[q].op /\ y.plan = proc[q].plan /\ y.k = proc[q].k
        /\ y.seen = proc[q].seen /\ y.alone = (proc[q].alone /\ d0 \notin On(q))
    BY <2>2 DEF Work
  <2> HIDE DEF y
  <2> QED BY <2>1, <2>3, <2>4, <2>5 DEF Same
<1>6. proc' \in [Procs -> Work]
  <2>1. proc' = [q \in Procs |-> proc'[q]] BY <1>1
  <2> QED BY <1>5, <2>1
<1>7. TypeOK'
  <2>1. ids' \in 0..MaxSaves BY <1>1, <1>2, ProxyRoutesAssumption
  <2>2. blurred' \subseteq Domains /\ hidden' \subseteq Domains BY <1>0, <1>1 DEF TypeOK
  <2> QED BY <1>0, <1>1, <1>4, <1>6, <2>1, <2>2 DEF TypeOK
<1>8. RowOf(d0)' BY <1>3, <1>4 DEF RowOf
<1>9. Quiet(d0) => Sound(d0)'
  <2> SUFFICES ASSUME Quiet(d0) PROVE Sound(d0)' OBVIOUS
  <2>1. Sound(d0) BY DEF RoutesInv
  <2>2. row[d0].status \in {"absent", "pending", "applied", "failed"} BY <1>2 DEF Rows
  <2> QED BY <1>1, <1>3, <1>4, <2>1, <2>2 DEF Sound, Put
<1>10. \A d \in Domains : d # d0 => row'[d] = row[d] /\ (d \in hidden' <=> d \in hidden) BY <1>1, <1>4
<1> QED BY <1>1, <1>5, <1>7, <1>8, <1>9, <1>10, RowStep

\* A route is marked failed before any command of it was sent.
LEMMA RefuseInv ==
  ASSUME RoutesInv, UNCHANGED <<proxy, ids, file, live, proc>>, faults' \in 0..MaxFaults[proxy],
         NEW item \in Items, row[item.domain].id = item.id, Refuse(item)
  PROVE  RoutesInv'
<1>0. TypeOK /\ \A d \in Domains : RowOf(d) BY DEF RoutesInv
<1>1. PICK d0 \in Domains : d0 = item.domain BY DEF Items
<1>2. /\ row' = SetStatus(item, "failed") /\ hidden' = hidden \ {d0}
      /\ blurred' = IF Busy(d0) THEN blurred \cup {d0} ELSE blurred
  BY <1>1 DEF Refuse, MarkProxyRouteFailed
<1>3. /\ row' \in [Domains -> Rows] /\ \A d \in Domains : RowOf(d)'
      /\ \A d \in Domains : d # d0 => row'[d] = row[d]
      /\ row'[d0].id = row[d0].id /\ row'[d0].upstream = row[d0].upstream
      /\ row'[d0].status = "failed"
  BY <1>0, <1>1, <1>2, SetsStatus
<1>4. TypeOK' BY <1>0, <1>2, <1>3 DEF TypeOK
<1>5. \A q \in Procs : Same(q) BY DEF Same
<1>6. Sound(d0)' BY <1>3 DEF Sound
<1>7. \A d \in Domains : d # d0 => row'[d] = row[d] /\ (d \in hidden' <=> d \in hidden) BY <1>2, <1>3
<1> QED BY <1>2, <1>3, <1>4, <1>5, <1>6, <1>7, RowStep

-----------------------------------------------------------------------------
\* The target of a row.
LEMMA TargetFacts ==
  ASSUME RoutesInv, NEW d \in Domains, row[d] # Absent
  PROVE  LET t == GetProxyRouteTarget(d)
         IN  /\ t \in Items /\ t.domain = d /\ t.id = row[d].id
             /\ t.want = row[d].upstream /\ t.was = row[d].upstream
<1>1. row[d] \in Rows /\ row[d].id # 0 BY DEF RoutesInv, TypeOK, RowOf
<1>2. row[d].id \in 0..MaxSaves /\ row[d].upstream \in Upstreams BY <1>1 DEF Rows
<1>3. row[d].id \in 1..MaxSaves BY <1>1, <1>2, ProxyRoutesAssumption
<1> QED BY <1>2, <1>3 DEF GetProxyRouteTarget, Items

\* The routes of the application are listed once each.
LEMMA ListFacts ==
  ASSUME RoutesInv
  PROVE  LET plan == ListProxyRouteTargetsForApplication
         IN  /\ plan \in Seq(Items)
             /\ \A i \in 1..Len(plan) :
                  /\ plan[i] \in Items /\ row[plan[i].domain].id = plan[i].id
                  /\ row[plan[i].domain].upstream = plan[i].was
             /\ \A i, j \in 1..Len(plan) : plan[i].domain = plan[j].domain => i = j
<1> DEFINE linked == {d \in Domains : row[d] # Absent /\ row[d].kind # "unlinked"}
           names == SetToSeq(linked)
           plan == ListProxyRouteTargetsForApplication
<1>1. IsFiniteSet(linked)
  <2>1. linked \in SUBSET Domains OBVIOUS
  <2> HIDE DEF linked
  <2> QED BY <2>1, ProxyRoutesAssumption, FS_Subset
<1>2. PICK n \in Nat : n = Cardinality(linked) /\ ExistsBijection(1..n, linked)
  <2> HIDE DEF linked
  <2> QED BY <1>1, FS_NatBijection, FS_CountingElements
<1>3. \E f \in [1..n -> linked] : IsInjective(f)
  BY <1>2 DEF ExistsBijection, Bijection, Injection
<1>4. names \in [1..n -> linked] /\ IsInjective(names)
  <2> HIDE DEF linked
  <2> QED BY <1>2, <1>3 DEF SetToSeq
<1>5. Len(names) = n /\ \A i \in 1..n : names[i] \in linked
  <2> HIDE DEF linked, names
  <2> QED BY <1>4
<1>6. plan = [i \in 1..n |-> GetProxyRouteTarget(names[i])]
  BY <1>5 DEF ListProxyRouteTargetsForApplication
<1> HIDE DEF plan, names
<1>7. \A i \in 1..n : /\ plan[i] \in Items /\ plan[i].domain = names[i]
                      /\ row[names[i]].id = plan[i].id /\ row[names[i]].upstream = plan[i].was
  <2> SUFFICES ASSUME NEW i \in 1..n
               PROVE  /\ plan[i] \in Items /\ plan[i].domain = names[i]
                      /\ row[names[i]].id = plan[i].id /\ row[names[i]].upstream = plan[i].was
    OBVIOUS
  <2>1. PICK d \in Domains : d = names[i] /\ row[d] # Absent BY <1>5
  <2>2. plan[i] = GetProxyRouteTarget(d) BY <1>6, <2>1
  <2> QED BY <2>1, <2>2, TargetFacts
<1>8. plan \in Seq(Items) /\ Len(plan) = n
  <2>1. DOMAIN plan = 1..n /\ plan = [i \in 1..n |-> plan[i]] BY <1>6
  <2>2. plan \in [1..n -> Items] BY <1>7, <2>1
  <2> QED BY <2>2
<1>9. \A i, j \in 1..n : plan[i].domain = plan[j].domain => i = j
  <2>1. \A i, j \in 1..n : names[i] = names[j] => i = j BY <1>4 DEF IsInjective
  <2> QED BY <1>7, <2>1
<1> QED BY <1>7, <1>8, <1>9 DEF plan

\* Somebody starts to work on routes.
LEMMA BeginStep ==
  ASSUME RoutesInv, UNCHANGED <<proxy, row, ids, file, live, faults, hidden>>, NEW p \in Procs,
         NEW plan \in Seq(Items), plan # <<>>, NEW op \in {"apply", "delete", "promote"},
         NEW pc \in {"read", "write", "done"}, Begin(p, op, plan, pc),
         \A i \in 1..Len(plan) :
           row[plan[i].domain].id = plan[i].id /\ row[plan[i].domain].upstream = plan[i].was,
         \A i, j \in 1..Len(plan) : plan[i].domain = plan[j].domain => i = j,
         op \in {"apply", "delete"} => Len(plan) = 1,
         op = "apply" => plan[1].want = plan[1].was,
         op = "delete" => plan[1].want = Off,
         SharedFile => pc # "write",
         pc = "done" => op = "delete" /\ row[plan[1].domain].status = "pending"
  PROVE  RoutesInv'
<1>0. TypeOK /\ \A d \in Domains : RowOf(d) BY DEF RoutesInv
<1>1. proc \in [Procs -> Work] BY <1>0 DEF TypeOK
<1> DEFINE alone == \A r \in Procs : At(r, "idle")
           x == [Idle EXCEPT !.pc = pc, !.op = op, !.plan = plan, !.k = 1, !.alone = alone]
           ds == {plan[i].domain : i \in 1..Len(plan)}
<1>2. /\ At(p, "idle") /\ blurred' = blurred \cup Overlap(ds)
      /\ proc' = [q \in Procs |-> IF q # p THEN [proc[q] EXCEPT !.alone = FALSE] ELSE x]
  BY DEF Begin
<1>3. x \in Work
  <2>1. alone \in BOOLEAN OBVIOUS
  <2> HIDE DEF alone
  <2> QED BY <2>1, IdleWork DEF Work
<1>4. x.pc = pc /\ x.op = op /\ x.plan = plan /\ x.k = 1 /\ x.alone = alone
  <2> HIDE DEF alone
  <2> QED BY IdleWork DEF Work
<1> HIDE DEF x
<1>5. proc'[p] = x BY <1>2
<1>6. ASSUME NEW q \in Procs, q # p PROVE proc'[q] \in Work /\ Same(q) /\ ~proc'[q].alone
  <2> DEFINE y == [proc[q] EXCEPT !.alone = FALSE]
  <2>1. proc'[q] = y /\ proc[q] \in Work BY <1>1, <1>2, <1>6
  <2>2. /\ y \in Work /\ y.pc = proc[q].pc /\ y.op = proc[q].op /\ y.plan = proc[q].plan
        /\ y.k = proc[q].k /\ y.seen = proc[q].seen /\ ~y.alone
    BY <2>1 DEF Work
  <2> HIDE DEF y
  <2> QED BY <2>1, <2>2 DEF Same
<1>7. Len(plan) \in Nat /\ Len(plan) >= 1 /\ \A i \in 1..Len(plan) : plan[i] \in Items /\ plan[i].domain \in Domains
  <2>1. Len(plan) \in Nat /\ Len(plan) # 0 /\ \A i \in 1..Len(plan) : plan[i] \in Items OBVIOUS
  <2>2. \A k \in Nat : k # 0 => k >= 1 OBVIOUS
  <2> QED BY <2>1, <2>2 DEF Items
<1>8. ds \subseteq Domains BY <1>7
<1>9. /\ blurred' \subseteq Domains /\ blurred \subseteq blurred'
      /\ SharedFile /\ (\E q \in Procs : ~At(q, "idle")) => blurred' = Domains
      /\ \A d \in ds : Busy(d) => d \in blurred'
  <2> HIDE DEF ds
  <2>1. Overlap(ds) \subseteq Domains /\ (SharedFile /\ (\E q \in Procs : ~At(q, "idle")) => Overlap(ds) = Domains)
    BY <1>8 DEF Overlap
  <2>2. \A d \in ds : Busy(d) => d \in Overlap(ds) BY <1>8 DEF Overlap
  <2> QED BY <1>0, <1>2, <2>1, <2>2 DEF TypeOK
<1>10. TypeOK'
  <2>1. proc' = [q \in Procs |-> proc'[q]] BY <1>2
  <2>2. \A q \in Procs : proc'[q] \in Work BY <1>3, <1>5, <1>6
  <2>3. proc' \in [Procs -> Work] BY <2>1, <2>2
  <2> QED BY <1>0, <1>9, <2>3 DEF TypeOK
<1>11. \A d \in Domains : Calm(d) /\ RowOf(d)' BY <1>0 DEF Calm, RowOf
<1>12. \A q \in Procs : q # p => On(q)' = On(q) /\ (At(q, "idle")' <=> At(q, "idle"))
  BY <1>6 DEF Same, On, At
<1>13. On(p)' = ds /\ Places(p)' = 1..Len(plan) BY <1>4, <1>5 DEF On, Places
<1>14. ~At(p, "idle")' /\ ~At(p, "reload")' /\ (At(p, "done")' <=> pc = "done") BY <1>4, <1>5 DEF At
<1>15. ASSUME NEW d \in ds, d \notin blurred' PROVE Sound(d)
  <2>1. ~Busy(d) /\ d \notin blurred /\ d \in Domains BY <1>8, <1>9, <1>15
  <2> QED BY <2>1 DEF RoutesInv, Quiet
<1>16. WorkOf(p)'
  <2>1. ShapeOf(p)'
    <3>1. Now(p)' = plan[1] BY <1>4, <1>5 DEF Now
    <3>2. 1 \in 1..Len(plan) BY <1>7
    <3>3. ~(SharedFile' /\ At(p, "write")') BY <1>4, <1>5 DEF SharedFile, At
    <3>4. \A i, j \in Places(p)' : proc'[p].plan[i].domain = proc'[p].plan[j].domain => i = j
      BY <1>4, <1>5, <1>13
    <3>5. /\ proc'[p].k \in Places(p)' /\ proc'[p].op = op /\ op # "none"
          /\ Len(proc'[p].plan) = Len(plan)
      BY <1>4, <1>5, <1>13, <3>2
    <3> QED BY <1>14, <3>1, <3>3, <3>4, <3>5 DEF ShapeOf
  <2>2. SeenOf(p)' BY <1>4, <1>5 DEF SeenOf, At, SharedFile
  <2>3. AloneOf(p)' BY <1>4, <1>5, <1>14 DEF AloneOf, At
  <2>4. ASSUME NEW i \in 1..Len(plan) PROVE KeptOf(p, i)' /\ HostOf(p, i)'
    <3>0. PICK d \in Domains : d = plan[i].domain BY <1>7
    <3>1. d = proc'[p].plan[i].domain /\ d \in ds BY <3>0, <1>4, <1>5
    <3>2. KeptOf(p, i)' BY <1>4, <1>5, <3>0 DEF KeptOf
    <3>3. HostOf(p, i)'
      <4> SUFFICES ASSUME d \notin blurred' PROVE HostOf(p, i)' BY <3>1 DEF HostOf
      <4>1. Sound(d) /\ Sound(d)' BY <1>11, <1>15, <3>1, CalmSound
      <4>2. ~(i < 1) BY <1>7
      <4>3. i = 1 /\ op = "apply" /\ row[d].status = "applied" => Put(d, plan[1].was)
        BY <3>0, <4>1 DEF Sound
      <4>4. i = 1 /\ pc = "done" => op = "delete" /\ (d \in hidden \/ Put(d, Off))
        BY <3>0, <4>1 DEF Sound
      <4>5. Now(p)' = plan[1] /\ (op = "delete" => Want(p)' = Off)
        BY <1>4, <1>5 DEF Now, Want
      <4>6. i = 1 /\ op = "apply" /\ row'[d].status = "applied" => file'[d] = plan[1].was /\ live'[d] = plan[1].was
        BY <4>3 DEF Put
      <4>7. i = 1 /\ At(p, "done")' => op = "delete" /\ (d \in hidden' \/ (file'[d] = Off /\ live'[d] = Off))
        BY <1>14, <4>4 DEF Put
      <4>8. proc'[p].k = 1 /\ proc'[p].op = op BY <1>4, <1>5
      <4> QED BY <1>14, <3>1, <4>1, <4>2, <4>5, <4>6, <4>7, <4>8 DEF HostOf, Put
    <3> QED BY <3>2, <3>3
  <2> QED BY <1>13, <2>1, <2>2, <2>3, <2>4 DEF WorkOf
<1>17. ASSUME NEW q \in Procs, q # p PROVE WorkOf(q)'
  <2>1. Same(q) /\ ~proc'[q].alone /\ WorkOf(q) BY <1>6, <1>17 DEF RoutesInv
  <2>2. On(q) \subseteq Domains BY <1>0, WorkTypes
  <2>3. \A d \in On(q) \ blurred' : d \notin blurred /\ Calm(d) BY <1>9, <1>11, <2>2
  <2>4. \A d \in Domains \ blurred' : d \notin blurred /\ file'[d] = file[d] BY <1>9
  <2> QED BY <1>0, <2>1, <2>3, <2>4, OtherWork
<1>18. ASSUME NEW q \in Procs, NEW r \in Procs, q # r PROVE PairOf(q, r)'
  <2>1. CASE q # p /\ r # p
    <3>1. PairOf(q, r) BY <1>18 DEF RoutesInv
    <3>2. ~proc'[q].alone BY <1>6, <2>1
    <3> QED BY <1>9, <1>12, <2>1, <3>1, <3>2 DEF PairOf, SharedFile
  <2>2. CASE q = p \/ r = p
    <3>1. PICK s \in {q, r} : s # p /\ {q, r} = {s, p} BY <1>18, <2>2
    <3>2. proc'[q].alone => At(r, "idle")'
      <4>1. CASE q = p BY <4>1, <1>4, <1>5, <1>12, <1>18
      <4>2. CASE q # p BY <4>2, <1>6
      <4> QED BY <4>1, <4>2
    <3>3. On(s)' \cap On(p)' \subseteq blurred'
      <4>1. \A d \in On(s) : Busy(d) BY <3>1 DEF Busy
      <4> QED BY <1>9, <1>12, <1>13, <3>1, <4>1
    <3>4. SharedFile' /\ ~At(s, "idle")' => blurred' = Domains
      BY <1>9, <1>12, <3>1 DEF SharedFile
    <3>5. On(q)' \cap On(r)' = On(s)' \cap On(p)' BY <3>1, <2>2, <1>18
    <3>6. ~At(q, "idle")' /\ ~At(r, "idle")' => ~At(s, "idle")' BY <3>1
    <3> QED BY <3>2, <3>3, <3>4, <3>5, <3>6 DEF PairOf
  <2> QED BY <2>1, <2>2
<1>19. ASSUME NEW d \in Domains, Quiet(d)' PROVE Sound(d)'
  <2>0. At(p, "idle") => On(p) = {}
    <3>1. proc[p].plan = <<>> BY <1>2 DEF RoutesInv, WorkOf, ShapeOf
    <3>2. 1..Len(proc[p].plan) = {} BY <3>1
    <3> QED BY <3>2 DEF On
  <2>1. Quiet(d) BY <1>2, <1>9, <1>12, <1>19, <2>0 DEF Quiet, Busy
  <2>2. Sound(d) BY <2>1 DEF RoutesInv
  <2> QED BY <1>11, <2>2, CalmSound
<1> QED BY <1>10, <1>11, <1>16, <1>17, <1>18, <1>19 DEF RoutesInv

\* An apply or a deletion begins.
LEMMA BeginOneInv ==
  ASSUME RoutesInv, UNCHANGED proxy, NEW p \in Procs, NEW d \in Domains,
         BeginApply(p, d) \/ BeginDelete(p, d)
  PROVE  RoutesInv'
<1> DEFINE t == GetProxyRouteTarget(d)
<1>1. row[d] # Absent /\ UNCHANGED <<row, ids, file, live, faults, hidden>>
  BY DEF BeginApply, BeginDelete, tables, disks
<1>2. /\ t \in Items /\ t.domain = d /\ t.id = row[d].id /\ t.want = row[d].upstream
      /\ t.was = row[d].upstream
  BY <1>1, TargetFacts
<1> HIDE DEF t
<1>3. \A s \in Items : /\ <<s>> \in Seq(Items) /\ <<s>> # <<>> /\ Len(<<s>>) = 1 /\ <<s>>[1] = s
                       /\ 1..Len(<<s>>) = {1}
  OBVIOUS
<1>4. CASE BeginApply(p, d)
  <2>1. Begin(p, "apply", <<t>>, First) BY <1>4 DEF BeginApply, t
  <2>2. PICK plan \in Seq(Items), pc \in {"read", "write", "done"} :
          /\ plan = <<t>> /\ pc = First
          /\ pc # "done"
          /\ SharedFile => pc # "write"
    BY <1>2, <1>3, FirstPlaces
  <2>3. plan # <<>> /\ Len(plan) = 1 /\ plan[1] = t /\ 1..Len(plan) = {1} BY <1>2, <1>3, <2>2
  <2>4. Begin(p, "apply", plan, pc) BY <2>1, <2>2
  <2>5. "apply" \in {"apply", "delete", "promote"} OBVIOUS
  <2> QED BY <1>1, <1>2, <2>2, <2>3, <2>4, <2>5, BeginStep
<1>5. CASE BeginDelete(p, d)
  <2> DEFINE s == [t EXCEPT !.want = Off]
  <2>0. s \in Items /\ s.domain = d /\ s.id = row[d].id /\ s.want = Off /\ s.was = row[d].upstream
    <3>1. Off \in Upstreams BY DEF Upstreams
    <3> QED BY <1>2, <3>1 DEF Items
  <2>1. Begin(p, "delete", <<s>>, IF row[d].status # "pending" THEN First ELSE "done")
    BY <1>5 DEF BeginDelete, t
  <2> HIDE DEF s
  <2>2. PICK plan \in Seq(Items), pc \in {"read", "write", "done"} :
          /\ plan = <<s>> /\ pc = IF row[d].status # "pending" THEN First ELSE "done"
          /\ pc = "done" => row[d].status = "pending"
          /\ SharedFile => pc # "write"
    BY <2>0, <1>3, FirstPlaces
  <2>3. plan # <<>> /\ Len(plan) = 1 /\ plan[1] = s /\ 1..Len(plan) = {1} BY <2>0, <1>3, <2>2
  <2>4. Begin(p, "delete", plan, pc) BY <2>1, <2>2
  <2>5. "delete" \in {"apply", "delete", "promote"} OBVIOUS
  <2> QED BY <1>1, <2>0, <2>2, <2>3, <2>4, <2>5, BeginStep
<1> QED BY <1>4, <1>5

\* A deployment begins to apply its routes.
LEMMA BeginPromoteInv ==
  ASSUME RoutesInv, UNCHANGED proxy, NEW p \in Procs, NEW color \in Colors, BeginPromote(p, color)
  PROVE  RoutesInv'
<1> DEFINE l == ListProxyRouteTargetsForApplication
           plan == [i \in 1..Len(l) |-> [l[i] EXCEPT !.want = color]]
<1>1. /\ l # <<>> /\ Begin(p, "promote", plan, First)
      /\ UNCHANGED <<row, ids, file, live, faults, hidden>>
  BY DEF BeginPromote, tables, disks
<1>2. /\ l \in Seq(Items)
      /\ \A i \in 1..Len(l) : /\ l[i] \in Items /\ row[l[i].domain].id = l[i].id
                              /\ row[l[i].domain].upstream = l[i].was
      /\ \A i, j \in 1..Len(l) : l[i].domain = l[j].domain => i = j
  BY ListFacts
<1> HIDE DEF l
<1>3. Len(l) \in Nat /\ Len(l) # 0 BY <1>1, <1>2
<1>4. ASSUME NEW i \in 1..Len(l)
      PROVE  plan[i] \in Items /\ plan[i].domain = l[i].domain /\ plan[i].id = l[i].id /\ plan[i].was = l[i].was
  <2>1. plan[i] = [l[i] EXCEPT !.want = color] OBVIOUS
  <2>2. color \in Upstreams BY DEF Upstreams
  <2> HIDE DEF plan
  <2> QED BY <1>2, <2>1, <2>2 DEF Items
<1>5. plan \in Seq(Items) /\ Len(plan) = Len(l)
  <2>1. plan = [i \in 1..Len(l) |-> plan[i]] OBVIOUS
  <2> HIDE DEF plan
  <2>2. plan \in [1..Len(l) -> Items] BY <1>4, <2>1
  <2> QED BY <1>3, <2>2
<1> HIDE DEF plan
<1>6. PICK q \in Seq(Items), pc \in {"read", "write", "done"} :
        /\ q = plan /\ pc = First
        /\ pc # "done"
        /\ SharedFile => pc # "write"
  BY <1>5, FirstPlaces
<1>7. q # <<>> BY <1>3, <1>5, <1>6
<1>8. Begin(p, "promote", q, pc) BY <1>1, <1>6
<1>9. \A i \in 1..Len(q) : row[q[i].domain].id = q[i].id /\ row[q[i].domain].upstream = q[i].was
  BY <1>2, <1>4, <1>5, <1>6
<1>10. \A i, j \in 1..Len(q) : q[i].domain = q[j].domain => i = j BY <1>2, <1>4, <1>5, <1>6
<1>11. "promote" \in {"apply", "delete", "promote"} OBVIOUS
<1> QED BY <1>1, <1>6, <1>7, <1>8, <1>9, <1>10, <1>11, BeginStep

\* An apply that cannot start.
LEMMA ApplyRefusedInv ==
  ASSUME RoutesInv, UNCHANGED proxy, NEW p \in Procs, NEW d \in Domains, ApplyRefused(p, d)
  PROVE  RoutesInv'
<1>0. TypeOK BY DEF RoutesInv
<1>1. /\ row[d] # Absent /\ Refuse(GetProxyRouteTarget(d)) /\ UNCHANGED <<ids, file, live, proc>>
      /\ faults < MaxFaults[proxy] /\ faults' = faults + 1
  BY DEF ApplyRefused, disks, Fault
<1>2. faults' \in 0..MaxFaults[proxy]
  <2>1. MaxFaults[proxy] \in Nat BY <1>0, ProxyRoutesAssumption DEF TypeOK
  <2> QED BY <1>0, <1>1, <2>1 DEF TypeOK
<1>3. PICK item \in Items : item = GetProxyRouteTarget(d) /\ item.domain = d /\ item.id = row[d].id
  BY <1>1, TargetFacts
<1>4. Refuse(item) /\ row[item.domain].id = item.id BY <1>1, <1>3
<1> QED BY <1>1, <1>2, <1>4, RefuseInv

\* A set of places that is not empty has a first one.
LEMMA FirstOf ==
  ASSUME NEW S, S \subseteq Nat, S # {}
  PROVE  (CHOOSE i \in S : \A j \in S : i <= j) \in S
<1> DEFINE R == OpToRel(<, Nat)
<1>1. IsWellFoundedOn(R, Nat) BY NatLessThanWellFounded
<1>2. PICK i \in S : \A j \in S : ~(<<j, i>> \in R)
  <2> HIDE DEF R
  <2> QED BY <1>1, WFMin
<1>3. \A j \in S : ~(j < i) BY <1>2 DEF OpToRel
<1>4. \A j \in S : i <= j BY <1>3
<1> QED BY <1>4

\* A deployment with a route it cannot switch.
LEMMA PromoteRefusedInv ==
  ASSUME RoutesInv, UNCHANGED proxy, NEW p \in Procs, PromoteRefused(p)
  PROVE  RoutesInv'
<1> DEFINE l == ListProxyRouteTargetsForApplication
           bad == {i \in 1..Len(l) : row[l[i].domain].kind = "plain"}
           first == CHOOSE i \in bad : \A j \in bad : i <= j
<1>1. bad # {} /\ Refuse(l[first]) /\ UNCHANGED <<ids, file, live, proc, faults>>
  BY DEF PromoteRefused, disks
<1>2. \A i \in 1..Len(l) : l[i] \in Items /\ row[l[i].domain].id = l[i].id BY ListFacts
<1>3. first \in bad
  <2>1. l \in Seq(Items) BY ListFacts
  <2> HIDE DEF l
  <2>2. bad \subseteq Nat BY <2>1
  <2> HIDE DEF bad
  <2> QED BY <1>1, <2>2, FirstOf
<1>4. PICK item \in Items : item = l[first] /\ row[item.domain].id = item.id BY <1>2, <1>3
<1>5. Refuse(item) BY <1>1, <1>4
<1>6. faults' \in 0..MaxFaults[proxy] BY <1>1 DEF RoutesInv, TypeOK
<1> QED BY <1>1, <1>4, <1>5, <1>6, RefuseInv

-----------------------------------------------------------------------------
LEMMA RoutesInvInit ==
  ASSUME Init PROVE RoutesInv
<1>1. Absent \in Rows /\ Absent.id = 0 /\ Absent.status = "absent"
  <2>1. 0 \in 0..MaxSaves BY ProxyRoutesAssumption
  <2> QED BY <2>1 DEF Absent, Rows, Upstreams, Kinds
<1>2. proc = [p \in Procs |-> Idle] /\ row = [d \in Domains |-> Absent] BY DEF Init
<1>3. TypeOK
  <2>1. proc \in [Procs -> Work] BY <1>2, IdleWork
  <2>2. row \in [Domains -> Rows] BY <1>1, <1>2
  <2>3. MaxFaults[proxy] \in Nat BY ProxyRoutesAssumption DEF Init
  <2>4. ids \in 0..MaxSaves /\ faults \in 0..MaxFaults[proxy] BY <2>3, ProxyRoutesAssumption DEF Init
  <2>5. file \in [Domains -> Upstreams] /\ live \in [Domains -> Upstreams] BY DEF Init, Upstreams
  <2>6. proxy \in Proxies /\ blurred \subseteq Domains /\ hidden \subseteq Domains BY DEF Init
  <2> QED BY <2>1, <2>2, <2>4, <2>5, <2>6 DEF TypeOK
<1>4. \A d \in Domains : RowOf(d) /\ Sound(d)
  BY <1>1, <1>2 DEF Init, RowOf, Sound, Put
<1>5. ASSUME NEW p \in Procs PROVE At(p, "idle") /\ On(p) = {} /\ ~proc[p].alone /\ WorkOf(p)
  <2>1. proc[p] = Idle BY <1>2
  <2>2. At(p, "idle") /\ ~proc[p].alone /\ proc[p].plan = <<>> /\ proc[p].op = "none"
    BY <2>1, IdleWork DEF At
  <2>3. 1..Len(proc[p].plan) = {} BY <2>2
  <2>4. Places(p) = {} /\ On(p) = {} BY <2>3 DEF Places, On
  <2>5. ShapeOf(p) BY <2>2, <2>4 DEF ShapeOf, At
  <2>6. SeenOf(p) /\ AloneOf(p) BY <2>2 DEF SeenOf, AloneOf, At
  <2> QED BY <2>2, <2>4, <2>5, <2>6 DEF WorkOf
<1>6. \A p, q \in Procs : p # q => PairOf(p, q) BY <1>5 DEF PairOf
<1> QED BY <1>3, <1>4, <1>5, <1>6 DEF RoutesInv

LEMMA RoutesInvNext ==
  ASSUME RoutesInv, [Next]_vars PROVE RoutesInv'
<1>1. CASE Next
  <2>0. UNCHANGED proxy /\ Worker \in Procs /\ Requests \subseteq Procs BY <1>1 DEF Next, Procs
  <2>1. ASSUME NEW d \in Domains, NEW u \in Colors, NEW kind \in Kinds, SaveRoute(d, u, kind)
        PROVE  RoutesInv'
    BY <2>0, <2>1, SaveRouteInv
  <2>2. ASSUME NEW p \in Requests, NEW d \in Domains,
               BeginApply(p, d) \/ ApplyRefused(p, d) \/ BeginDelete(p, d)
        PROVE  RoutesInv'
    <3>1. p \in Procs BY <2>0
    <3> QED BY <2>0, <2>2, <3>1, BeginOneInv, ApplyRefusedInv
  <2>3. ASSUME NEW color \in Colors, BeginPromote(Worker, color) PROVE RoutesInv'
    BY <2>0, <2>3, BeginPromoteInv
  <2>4. ASSUME NEW p \in Procs,
               ReadCaddyfile(p) \/ WriteConfig(p) \/ Reload(p) \/ CommandFails(p)
        PROVE  RoutesInv'
    BY <2>0, <2>4, ReadCaddyfileInv, WriteConfigInv, ReloadInv, CommandFailsInv
  <2>5. ASSUME NEW p \in Procs,
               ApplyDone(p) \/ ApplyFails(p) \/ DeleteDone(p) \/ DeleteFails(p) \/ Crash(p)
        PROVE  RoutesInv'
    BY <2>0, <2>5, ApplyDoneInv, ApplyFailsInv, DeleteDoneInv, HalfWayInv
  <2>6. ASSUME NEW p \in Procs,
               \/ PromoteRefused(p) \/ NextRoute(p) \/ Promote(p) \/ PromoteFails(p)
               \/ RouteFails(p) \/ UndoNext(p)
        PROVE  RoutesInv'
    BY <2>0, <2>6, PromoteRefusedInv, NextRouteInv, PromoteInv, PromoteFailsInv, RouteFailsInv, UndoNextInv
  <2> QED BY <1>1, <2>1, <2>2, <2>3, <2>4, <2>5, <2>6 DEF Next
<1>2. CASE UNCHANGED vars
  <2>1. UNCHANGED <<proxy, row, ids, file, live, proc, faults, blurred, hidden>> BY <1>2 DEF vars
  <2>2. TypeOK' BY <2>1 DEF RoutesInv, TypeOK
  <2>3. \A d \in Domains : Calm(d) /\ RowOf(d)' BY <2>1 DEF RoutesInv, Calm, RowOf
  <2>4. \A q \in Procs : Same(q) BY <2>1 DEF Same
  <2>5. ASSUME NEW q \in Procs PROVE WorkOf(q)'
    <3>1. TypeOK /\ WorkOf(q) /\ On(q) \subseteq Domains BY WorkTypes DEF RoutesInv
    <3>2. \A d \in On(q) \ blurred' : d \notin blurred /\ Calm(d) BY <2>1, <2>3, <3>1
    <3>3. \A d \in Domains \ blurred' : d \notin blurred /\ file'[d] = file[d] BY <2>1
    <3> QED BY <2>1, <2>4, <3>1, <3>2, <3>3, OtherWork
  <2>6. \A p, q \in Procs : p # q => PairOf(p, q)' BY <2>1 DEF RoutesInv, PairOf, At, On, SharedFile
  <2>7. ASSUME NEW d \in Domains, Quiet(d)' PROVE Sound(d)'
    <3>1. Quiet(d) BY <2>1, <2>7 DEF Quiet, Busy, On
    <3> QED BY <2>3, <3>1, CalmSound DEF RoutesInv
  <2> QED BY <2>2, <2>3, <2>5, <2>6, <2>7 DEF RoutesInv
<1> QED BY <1>1, <1>2

LEMMA RoutesInvariant == Spec => []RoutesInv
<1>1. Init => RoutesInv BY RoutesInvInit
<1>2. RoutesInv /\ [Next]_vars => RoutesInv' BY RoutesInvNext
<1> QED BY <1>1, <1>2, PTL DEF Spec

\* The rows, the files and the work of every actor keep their types.
THEOREM RoutesTypeCorrect == Spec => []TypeOK
<1>1. RoutesInv => TypeOK BY DEF RoutesInv
<1> QED BY <1>1, RoutesInvariant, PTL

\* For any number of domains and requests and for each kind of proxy: a route the
\* table shows as applied is the one the proxy has loaded, unless two actors worked on
\* it at once, somebody failed half way or the answer to a promotion was lost (Manager.Apply, Runner.applyProxyRoutes).
THEOREM AppliedRoutesAreLive == Spec => []AppliedIsLive
<1>1. RoutesInv => AppliedIsLive BY DEF RoutesInv, AppliedIsLive, Sound, Put
<1> QED BY <1>1, RoutesInvariant, PTL

\* With the same proviso, a domain without a row is not on the host
\* (deleteProxyRoute).
THEOREM NoRouteIsLeft == Spec => []NoOrphanRoute
<1>1. Absent.status = "absent" BY DEF Absent
<1>2. RoutesInv => NoOrphanRoute BY <1>1 DEF RoutesInv, NoOrphanRoute, Sound, Put
<1> QED BY <1>2, RoutesInvariant, PTL
================================================================================
