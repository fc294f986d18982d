------------------------ MODULE AdministrationProofs ------------------------
(* What operators administer: projects, environments and services             *)
(* (ProjectTree) and the developer users of a server (DevUsers).              *)
EXTENDS ProjectTree, DevUsers, TLAPS

(* For any number of projects, environments, services and requests: handlers  *)
(* that check first and write later, without a lock, never leave a service    *)
(* without its environment or a project without its production environment,  *)
(* and only deleteApplication makes a service disappear.                      *)

\* The rows that exist were given an id, and the requests are a table.
Known ==
    /\ DOMAIN env \subseteq ids /\ DOMAIN env \subseteq Envs
    /\ DOMAIN repo \subseteq ids
    /\ req = [r \in Requests |-> req[r]]

\* deleteEnvironment remembers an environment that was not production when it
\* was read: it still is not, or has gone, and its id does not come back.
Unprotected ==
    \A r \in Requests : req[r].op = "deleteEnvironment" =>
        /\ req[r].env \in ids
        /\ req[r].env \in DOMAIN env => env[req[r].env].kind # "production"

Inv == Known /\ Unprotected /\ NothingDangles /\ ProductionStays /\ ServicesAreNotSwept

\* A step in which only requests change.
Reads(r) ==
    \/ \E p \in Projects : deleteProject(r, p) \/ \E kind \in Kinds : createEnvironment(r, p, kind)
    \/ \E p \in Projects, source \in Repos \cup {None} : updateProjectRepository(r, p, source)
    \/ \E e \in Envs : deleteEnvironment(r, e) \/ createApplication(r, e)
    \/ \E e \in Envs, source \in Repos : importGitHubRepositoryServices(r, e, source)
    \/ \E e \in Envs, a \in Apps, asked \in Asked : updateApplication(r, a, e, asked)

\* A step that writes what an earlier one has prepared.
Writes(r) ==
    \/ \E e \in Envs : insertEnvironment(r, e)
    \/ \E a \in Apps : insertApplication(r, a)
    \/ deleteProjectRow(r) \/ deleteEnvironmentRow(r)
    \/ updateApplicationRow(r) \/ updateProjectRepositoryRow(r)

-----------------------------------------------------------------------------
\* Every step is one of four kinds.
LEMMA Kinds4 ==
    ASSUME Next
    PROVE  \/ \E p \in Projects, e \in Envs : createProject(p, e)
           \/ \E a \in Apps : deleteApplication(a)
           \/ \E r \in Requests : Reads(r) \/ Writes(r)
<1>1. CASE \E p \in Projects, e \in Envs : createProject(p, e)
  BY <1>1
<1>2. CASE \E a \in Apps : deleteApplication(a)
  BY <1>2
<1>3. ASSUME NEW r \in Requests,
        \/ \E p \in Projects :
            \/ deleteProject(r, p)
            \/ \E kind \in Kinds : createEnvironment(r, p, kind)
            \/ \E source \in Repos \cup {None} : updateProjectRepository(r, p, source)
        \/ \E e \in Envs :
            \/ insertEnvironment(r, e) \/ deleteEnvironment(r, e)
            \/ createApplication(r, e)
            \/ \E source \in Repos : importGitHubRepositoryServices(r, e, source)
            \/ \E a \in Apps, asked \in Asked : updateApplication(r, a, e, asked)
        \/ \E a \in Apps : insertApplication(r, a)
        \/ deleteProjectRow(r) \/ deleteEnvironmentRow(r)
        \/ updateApplicationRow(r) \/ updateProjectRepositoryRow(r)
      PROVE Reads(r) \/ Writes(r)
  BY <1>3 DEF Reads, Writes
<1> QED BY <1>1, <1>2, <1>3 DEF Next

\* Reading changes nothing but the request, which may now be a deletion of an
\* environment that is not production.
LEMMA ReadStep ==
    ASSUME Inv, NEW r \in Requests, Reads(r)
    PROVE  Inv'
<1>1. UNCHANGED <<repo, env, app, ids, removed>>
  BY DEF Reads, deleteProject, createEnvironment, updateProjectRepository, deleteEnvironment,
         createApplication, importGitHubRepositoryServices, updateApplication, tree
<1> DEFINE Noted ==
      /\ req' = [q \in Requests |-> req'[q]]
      /\ \A q \in Requests \ {r} : req'[q] = req[q]
      /\ \/ req'[r] = req[r]
         \/ req'[r].op = "deleteEnvironment" =>
              req'[r].env \in DOMAIN env /\ env[req'[r].env].kind # "production"
<1>2. Noted
  <2>1. ASSUME NEW p \in Projects, deleteProject(r, p) PROVE Noted
    BY <2>1 DEF deleteProject, Begin, Inv, Known
  <2>2. ASSUME NEW p \in Projects, NEW kind \in Kinds, createEnvironment(r, p, kind) PROVE Noted
    BY <2>2 DEF createEnvironment, Begin, Inv, Known
  <2>3. ASSUME NEW p \in Projects, NEW source \in Repos \cup {None},
               updateProjectRepository(r, p, source)
        PROVE Noted
    BY <2>3 DEF updateProjectRepository, Begin, Inv, Known
  <2>4. ASSUME NEW e \in Envs, deleteEnvironment(r, e) PROVE Noted
    BY <2>4 DEF deleteEnvironment, Deletable, Begin, Inv, Known
  <2>5. ASSUME NEW e \in Envs, createApplication(r, e) PROVE Noted
    BY <2>5 DEF createApplication, Begin, Inv, Known
  <2>6. ASSUME NEW e \in Envs, NEW source \in Repos, importGitHubRepositoryServices(r, e, source)
        PROVE Noted
    BY <2>6 DEF importGitHubRepositoryServices, Begin, Inv, Known
  <2>7. ASSUME NEW e \in Envs, NEW a \in Apps, NEW asked \in Asked, updateApplication(r, a, e, asked)
        PROVE Noted
    BY <2>7 DEF updateApplication, Begin, Inv, Known
  <2> QED BY <2>1, <2>2, <2>3, <2>4, <2>5, <2>6, <2>7 DEF Reads
<1>3. Known'
  BY <1>1, <1>2 DEF Inv, Known
<1>4. Unprotected'
  BY <1>1, <1>2 DEF Inv, Known, Unprotected
<1>5. NothingDangles' /\ ProductionStays' /\ ServicesAreNotSwept'
  BY <1>1 DEF Inv, NothingDangles, ProductionStays, ServicesAreNotSwept, EnvsOf
<1> QED BY <1>3, <1>4, <1>5 DEF Inv

-----------------------------------------------------------------------------
\* An id that has been given out names the same environment or none.
LEMMA StaysUnprotected ==
    ASSUME Known, Unprotected,
           \A q \in Requests : req'[q] = req[q] \/ req'[q].op = "idle",
           ids \subseteq ids',
           \A e \in DOMAIN env' : \/ e \in DOMAIN env /\ env'[e] = env[e]
                                  \/ e \notin ids
    PROVE  Unprotected'
BY DEF Unprotected

\* A new project comes with its production environment.
LEMMA CreateStep ==
    ASSUME Inv, NEW p \in Projects, NEW e \in Envs, createProject(p, e)
    PROVE  Inv'
<1>1. /\ p \notin ids /\ e \notin ids /\ ids' = ids \cup {p, e}
      /\ DOMAIN repo' = DOMAIN repo \cup {p} /\ DOMAIN env' = DOMAIN env \cup {e}
      /\ \A x \in DOMAIN env : env'[x] = env[x]
      /\ env'[e].project = p /\ env'[e].kind = "production"
      /\ UNCHANGED <<app, req, removed>>
  BY DEF createProject, CreateProjectWithDefaultEnvironments, With, Inv, Known
<1>2. Known'
  BY <1>1 DEF Inv, Known
<1>3. Unprotected'
  BY <1>1, StaysUnprotected DEF Inv
<1>4. NothingDangles'
  BY <1>1 DEF Inv, NothingDangles
<1>5. ProductionStays'
  <2> SUFFICES ASSUME NEW x \in DOMAIN repo'
               PROVE  \E y \in DOMAIN env' : env'[y].project = x /\ env'[y].kind = "production"
    BY DEF ProductionStays, EnvsOf
  <2>1. CASE x = p
    BY <1>1, <2>1
  <2>2. CASE x \in DOMAIN repo
    BY <1>1, <2>2 DEF Inv, ProductionStays, EnvsOf
  <2> QED BY <1>1, <2>1, <2>2
<1>6. ServicesAreNotSwept'
  BY <1>1, IdsAssumption DEF Inv, ServicesAreNotSwept
<1> QED BY <1>2, <1>3, <1>4, <1>5, <1>6 DEF Inv

LEMMA RemoveStep ==
    ASSUME Inv, NEW a \in Apps, deleteApplication(a)
    PROVE  Inv'
<1>1. /\ DOMAIN app' = DOMAIN app \ {a} /\ \A x \in DOMAIN app' : app'[x] = app[x]
      /\ removed' = removed \cup {a} /\ UNCHANGED <<repo, env, req, ids>>
  BY DEF deleteApplication, Without
<1> QED BY <1>1 DEF Inv, Known, Unprotected, NothingDangles, ProductionStays, ServicesAreNotSwept, EnvsOf

-----------------------------------------------------------------------------
\* The six statements that end a request.
LEMMA WriteStep ==
    ASSUME Inv, NEW r \in Requests, Writes(r)
    PROVE  Inv'
<1>0. /\ req' = [q \in Requests |-> req'[q]]
      /\ \A q \in Requests : req'[q] = req[q] \/ req'[q].op = "idle"
  <2>1. req' = [req EXCEPT ![r] = Idle]
    BY DEF Writes, insertEnvironment, insertApplication, deleteProjectRow, deleteEnvironmentRow,
           updateApplicationRow, updateProjectRepositoryRow, End
  <2> QED BY <2>1 DEF Inv, Known, Idle
<1>1. ASSUME NEW e \in Envs, insertEnvironment(r, e) PROVE Inv'
  <2>1. CASE req[r].project \in DOMAIN repo
    <3>1. /\ e \notin ids /\ ids' = ids \cup {e}
          /\ DOMAIN env' = DOMAIN env \cup {e}
          /\ \A x \in DOMAIN env : env'[x] = env[x]
          /\ env'[e].project \in DOMAIN repo
          /\ UNCHANGED <<repo, app, removed>>
      BY <1>1, <2>1 DEF insertEnvironment, CreateEnvironment, With, Inv, Known
    <3>2. Known' /\ Unprotected'
      BY <1>0, <3>1, StaysUnprotected DEF Inv, Known
    <3>3. ProductionStays'
      BY <3>1 DEF Inv, ProductionStays, EnvsOf
    <3> QED BY <3>1, <3>2, <3>3, IdsAssumption DEF Inv, NothingDangles, ServicesAreNotSwept
  <2>2. CASE req[r].project \notin DOMAIN repo
    <3>1. UNCHANGED <<repo, env, app, ids, removed>>
      BY <1>1, <2>2 DEF insertEnvironment, CreateEnvironment
    <3>2. Known' /\ Unprotected'
      BY <1>0, <3>1, StaysUnprotected DEF Inv, Known
    <3> QED BY <3>1, <3>2 DEF Inv, NothingDangles, ProductionStays, ServicesAreNotSwept, EnvsOf
  <2> QED BY <2>1, <2>2
<1>2. ASSUME NEW a \in Apps, insertApplication(r, a) PROVE Inv'
  <2>1. CASE req[r].env \notin DOMAIN env
    <3>1. UNCHANGED <<repo, env, app, ids, removed>>
      BY <1>2, <2>1 DEF insertApplication
    <3>2. Known' /\ Unprotected'
      BY <1>0, <3>1, StaysUnprotected DEF Inv, Known
    <3> QED BY <3>1, <3>2 DEF Inv, NothingDangles, ProductionStays, ServicesAreNotSwept, EnvsOf
  <2>2. CASE req[r].env \in DOMAIN env
    <3>1. /\ ids' = ids \cup {a} /\ UNCHANGED <<env, removed>>
          /\ DOMAIN app' = DOMAIN app \cup {a} /\ app'[a].env \in DOMAIN env
          /\ \A x \in DOMAIN app \ {a} : app'[x] = app[x]
      BY <1>2, <2>2 DEF insertApplication, CreateApplication, With
    <3>2. DOMAIN repo' = DOMAIN repo
      <4>1. env[req[r].env].project \in DOMAIN repo
        BY <2>2 DEF Inv, NothingDangles
      <4> QED BY <1>2, <2>2, <4>1 DEF insertApplication, UpdateProjectRepository, With
    <3>3. Known' /\ Unprotected'
      BY <1>0, <3>1, <3>2, StaysUnprotected DEF Inv, Known
    <3> QED BY <3>1, <3>2, <3>3 DEF Inv, NothingDangles, ProductionStays, ServicesAreNotSwept, EnvsOf
  <2> QED BY <2>1, <2>2
<1>3. CASE deleteProjectRow(r)
  <2> DEFINE p == req[r].project
  <2>1. UNCHANGED <<app, ids, removed>>
    BY <1>3 DEF deleteProjectRow, DeleteProject, tree
  <2>2. CASE \E e \in EnvsOf(p) : AppsIn(e) # {}
    <3>1. UNCHANGED <<repo, env>>
      BY <1>3, <2>2 DEF deleteProjectRow, DeleteProject, tree
    <3>2. Known' /\ Unprotected'
      BY <1>0, <2>1, <3>1, StaysUnprotected DEF Inv, Known
    <3> QED BY <2>1, <3>1, <3>2 DEF Inv, NothingDangles, ProductionStays, ServicesAreNotSwept, EnvsOf
  <2>3. CASE \A e \in EnvsOf(p) : AppsIn(e) = {}
    <3>1. /\ DOMAIN repo' = DOMAIN repo \ {p} /\ DOMAIN env' = DOMAIN env \ EnvsOf(p)
          /\ \A x \in DOMAIN env' : env'[x] = env[x]
      BY <1>3, <2>3 DEF deleteProjectRow, DeleteProject, Without
    <3>2. Known' /\ Unprotected'
      BY <1>0, <2>1, <3>1, StaysUnprotected DEF Inv, Known
    <3>3. NothingDangles'
      <4>1. ASSUME NEW a \in DOMAIN app' PROVE app'[a].env \in DOMAIN env'
        <5>1. app[a].env \in DOMAIN env /\ a \in AppsIn(app[a].env)
          BY <2>1 DEF Inv, NothingDangles, AppsIn
        <5>2. app[a].env \notin EnvsOf(p)
          BY <2>3, <5>1
        <5> QED BY <2>1, <3>1, <5>1, <5>2
      <4>2. ASSUME NEW e \in DOMAIN env' PROVE env'[e].project \in DOMAIN repo'
        BY <3>1 DEF Inv, NothingDangles, EnvsOf
      <4> QED BY <4>1, <4>2 DEF NothingDangles
    <3>4. ProductionStays'
      BY <3>1 DEF Inv, ProductionStays, EnvsOf
    <3> QED BY <2>1, <3>2, <3>3, <3>4 DEF Inv, ServicesAreNotSwept
  <2> QED BY <2>2, <2>3
<1>4. CASE deleteEnvironmentRow(r)
  <2> DEFINE e == req[r].env
  <2>1. UNCHANGED <<repo, app, ids, removed>> /\ req[r].op = "deleteEnvironment"
    BY <1>4 DEF deleteEnvironmentRow, DeleteEnvironment
  <2>2. CASE AppsIn(e) # {}
    <3>1. UNCHANGED env
      BY <1>4, <2>2 DEF deleteEnvironmentRow, DeleteEnvironment
    <3>2. Known' /\ Unprotected'
      BY <1>0, <2>1, <3>1, StaysUnprotected DEF Inv, Known
    <3> QED BY <2>1, <3>1, <3>2 DEF Inv, NothingDangles, ProductionStays, ServicesAreNotSwept, EnvsOf
  <2>3. CASE AppsIn(e) = {}
    <3>1. DOMAIN env' = DOMAIN env \ {e} /\ \A x \in DOMAIN env' : env'[x] = env[x]
      BY <1>4, <2>3 DEF deleteEnvironmentRow, DeleteEnvironment, Without
    <3>2. Known' /\ Unprotected'
      BY <1>0, <2>1, <3>1, StaysUnprotected DEF Inv, Known
    <3>3. NothingDangles'
      BY <2>1, <2>3, <3>1 DEF Inv, NothingDangles, AppsIn
    <3>4. ProductionStays'
      BY <2>1, <3>1 DEF Inv, Unprotected, ProductionStays, EnvsOf
    <3> QED BY <2>1, <3>2, <3>3, <3>4 DEF Inv, ServicesAreNotSwept
  <2> QED BY <2>2, <2>3
<1>5. CASE updateApplicationRow(r)
  <2>1. UNCHANGED <<repo, env, ids, removed>>
    BY <1>5 DEF updateApplicationRow
  <2>2. Known' /\ Unprotected'
    BY <1>0, <2>1, StaysUnprotected DEF Inv, Known
  <2>3. DOMAIN app' = DOMAIN app /\ \A a \in DOMAIN app : app'[a].env \in DOMAIN env
    <3>1. CASE req[r].app \in DOMAIN app /\ req[r].env \in DOMAIN env
      <4>1. app' = With(app, req[r].app, [env |-> req[r].env, mode |-> req[r].mode])
        BY <1>5, <3>1 DEF updateApplicationRow, UpdateApplication
      <4> QED BY <3>1, <4>1 DEF With, Inv, NothingDangles
    <3>2. CASE ~(req[r].app \in DOMAIN app /\ req[r].env \in DOMAIN env)
      BY <1>5, <3>2 DEF updateApplicationRow, Inv, NothingDangles
    <3> QED BY <3>1, <3>2
  <2> QED BY <2>1, <2>2, <2>3 DEF Inv, NothingDangles, ProductionStays, ServicesAreNotSwept, EnvsOf
<1>6. CASE updateProjectRepositoryRow(r)
  <2>1. UNCHANGED <<env, app, ids, removed>>
    BY <1>6 DEF updateProjectRepositoryRow
  <2>2. DOMAIN repo' = DOMAIN repo
    BY <1>6 DEF updateProjectRepositoryRow, UpdateProjectRepository, With
  <2>3. Known' /\ Unprotected'
    BY <1>0, <2>1, <2>2, StaysUnprotected DEF Inv, Known
  <2> QED BY <2>1, <2>2, <2>3 DEF Inv, NothingDangles, ProductionStays, ServicesAreNotSwept, EnvsOf
<1> QED BY <1>1, <1>2, <1>3, <1>4, <1>5, <1>6 DEF Writes

-----------------------------------------------------------------------------
LEMMA TreeInv == Spec => []Inv
<1>1. Init => Inv
  BY DEF Init, Inv, Known, Unprotected, NothingDangles, ProductionStays, ServicesAreNotSwept, Idle
<1>2. Inv /\ [Next]_vars => Inv'
  <2> SUFFICES ASSUME Inv, [Next]_vars PROVE Inv'
    OBVIOUS
  <2>1. CASE Next
    BY <2>1, Kinds4, CreateStep, RemoveStep, ReadStep, WriteStep
  <2>2. CASE UNCHANGED vars
    BY <2>2 DEF vars, Inv, Known, Unprotected, NothingDangles, ProductionStays,
                ServicesAreNotSwept, EnvsOf
  <2> QED BY <2>1, <2>2
<1> QED BY <1>1, <1>2, PTL DEF Spec

\* The foreign keys make up for the missing locks: whatever a handler had
\* checked when it read, no row refers to one that has gone.
THEOREM TreeIsWhole == Spec => []NothingDangles
<1>1. Inv => NothingDangles
  BY DEF Inv
<1> QED BY TreeInv, <1>1, PTL

\* No interleaving of deletions takes a project its production environment.
THEOREM ProductionIsKept == Spec => []ProductionStays
<1>1. Inv => ProductionStays
  BY DEF Inv
<1> QED BY TreeInv, <1>1, PTL

\* A service that was created is there until deleteApplication removes it,
\* so its containers are never left to nobody by another deletion.
THEOREM OnlyDeletedServicesGo == Spec => []ServicesAreNotSwept
<1>1. Inv => ServicesAreNotSwept
  BY DEF Inv
<1> QED BY TreeInv, <1>1, PTL

-----------------------------------------------------------------------------
\* What a request carries from its checks to its write is fit to be written: in
\* particular the merged execution modes, which were validated before.
Prepared ==
    \A r \in Requests :
        /\ req[r].op = "createEnvironment" => req[r].project \in Projects /\ req[r].kind \in Kinds
        /\ req[r].op = "updateProjectRepository" => req[r].repo \in Repos \cup {None}
        /\ req[r].op = "import" => req[r].repo \in Repos
        /\ req[r].op = "updateApplication" => req[r].mode \in [Services -> Modes]

\* A request is prepared from rows that have their types.
LEMMA ReadsPrepare ==
    ASSUME Inv, TypeOK, Prepared, NEW r \in Requests, Reads(r)
    PROVE  TypeOK' /\ Prepared'
<1>1. UNCHANGED <<repo, env, app, ids>>
  BY DEF Reads, deleteProject, createEnvironment, updateProjectRepository, deleteEnvironment,
         createApplication, importGitHubRepositoryServices, updateApplication, tree
<1>2. TypeOK'
  BY <1>1 DEF TypeOK
<1>3. ASSUME NEW p \in Projects, deleteProject(r, p) PROVE Prepared'
  BY <1>3 DEF deleteProject, Begin, Inv, Known, Prepared
<1>4. ASSUME NEW p \in Projects, NEW kind \in Kinds, createEnvironment(r, p, kind) PROVE Prepared'
  BY <1>4 DEF createEnvironment, Begin, Inv, Known, Prepared
<1>5. ASSUME NEW p \in Projects, NEW source \in Repos \cup {None},
             updateProjectRepository(r, p, source)
      PROVE Prepared'
  BY <1>5 DEF updateProjectRepository, Begin, Inv, Known, Prepared
<1>6. ASSUME NEW e \in Envs, deleteEnvironment(r, e) PROVE Prepared'
  BY <1>6 DEF deleteEnvironment, Begin, Inv, Known, Prepared
<1>7. ASSUME NEW e \in Envs, createApplication(r, e) PROVE Prepared'
  BY <1>7 DEF createApplication, Begin, Inv, Known, Prepared
<1>8. ASSUME NEW e \in Envs, NEW source \in Repos, importGitHubRepositoryServices(r, e, source)
      PROVE Prepared'
  BY <1>8 DEF importGitHubRepositoryServices, Begin, Inv, Known, Prepared
<1>9. ASSUME NEW e \in Envs, NEW a \in Apps, NEW asked \in Asked, updateApplication(r, a, e, asked)
      PROVE Prepared'
  <2>1. mergeServiceExecutionModes(app[a].mode, asked) \in [Services -> Modes]
    BY <1>9 DEF updateApplication, mergeServiceExecutionModes, validServiceExecutionMode, TypeOK
  <2> QED BY <1>9, <2>1 DEF updateApplication, Begin, Inv, Known, Prepared
<1> QED BY <1>2, <1>3, <1>4, <1>5, <1>6, <1>7, <1>8, <1>9 DEF Reads

\* Rows that are as they were, or new and of the right type.
LEMMA RowsKeepTypes ==
    ASSUME TypeOK, ids' \subseteq ids \cup Projects \cup Envs \cup Apps,
           \A p \in DOMAIN repo' : \/ p \in DOMAIN repo /\ repo'[p] = repo[p]
                                   \/ p \in Projects /\ repo'[p] \in Repos \cup {None},
           \A e \in DOMAIN env' : \/ e \in DOMAIN env /\ env'[e] = env[e]
                                  \/ e \in Envs /\ env'[e].project \in Projects /\ env'[e].kind \in Kinds,
           \A a \in DOMAIN app' : \/ a \in DOMAIN app /\ app'[a] = app[a]
                                  \/ a \in Apps /\ app'[a].env \in Envs /\ app'[a].mode \in [Services -> Modes]
    PROVE  TypeOK'
<1>1. DOMAIN repo' \subseteq Projects /\ \A p \in DOMAIN repo' : repo'[p] \in Repos \cup {None}
  BY DEF TypeOK
<1>2. /\ DOMAIN env' \subseteq Envs
      /\ \A e \in DOMAIN env' : env'[e].project \in Projects /\ env'[e].kind \in Kinds
  BY DEF TypeOK
<1>3. /\ DOMAIN app' \subseteq Apps
      /\ \A a \in DOMAIN app' : app'[a].env \in Envs /\ app'[a].mode \in [Services -> Modes]
  BY DEF TypeOK
<1>4. ids' \subseteq Projects \cup Envs \cup Apps
  BY DEF TypeOK
<1> QED BY <1>1, <1>2, <1>3, <1>4 DEF TypeOK

\* What was prepared is written, or nothing is.
LEMMA WritesKeepTypes ==
    ASSUME Inv, TypeOK, Prepared, NEW r \in Requests, Writes(r)
    PROVE  TypeOK' /\ Prepared'
<1>1. Prepared'
  <2>1. req' = [req EXCEPT ![r] = Idle]
    BY DEF Writes, insertEnvironment, insertApplication, deleteProjectRow, deleteEnvironmentRow,
           updateApplicationRow, updateProjectRepositoryRow, End
  <2> QED BY <2>1 DEF Inv, Known, Idle, Prepared
<1>2. ASSUME NEW e \in Envs, insertEnvironment(r, e) PROVE TypeOK'
  <2>1. CASE req[r].project \in DOMAIN repo
    BY <1>2, <2>1 DEF insertEnvironment, CreateEnvironment, With, TypeOK, Prepared
  <2>2. CASE req[r].project \notin DOMAIN repo
    BY <1>2, <2>2 DEF insertEnvironment, CreateEnvironment, TypeOK
  <2> QED BY <2>1, <2>2
<1>3. ASSUME NEW a \in Apps, insertApplication(r, a) PROVE TypeOK'
  <2>1. CASE req[r].env \notin DOMAIN env
    BY <1>3, <2>1 DEF insertApplication, TypeOK
  <2>2. CASE req[r].env \in DOMAIN env
    <3>1. /\ ids' = ids \cup {a} /\ UNCHANGED env
          /\ DOMAIN app' = DOMAIN app \cup {a} /\ \A x \in DOMAIN app \ {a} : app'[x] = app[x]
          /\ app'[a].env \in Envs /\ app'[a].mode \in [Services -> Modes]
      BY <1>3, <2>2 DEF insertApplication, CreateApplication, With, Modes, TypeOK
    <3>2. DOMAIN repo' \subseteq Projects /\ \A p \in DOMAIN repo' : repo'[p] \in Repos \cup {None}
      <4>1. CASE req[r].op = "import" /\ req[r].known = None
        <5>1. env[req[r].env].project \in Projects /\ req[r].repo \in Repos
          BY <2>2, <4>1 DEF TypeOK, Prepared
        <5>2. repo' = With(repo, env[req[r].env].project, req[r].repo)
          BY <1>3, <2>2, <4>1 DEF insertApplication, UpdateProjectRepository
        <5> QED BY <5>1, <5>2 DEF With, TypeOK
      <4>2. CASE ~(req[r].op = "import" /\ req[r].known = None)
        BY <1>3, <2>2, <4>2 DEF insertApplication, TypeOK
      <4> QED BY <4>1, <4>2
    <3> QED BY <3>1, <3>2 DEF TypeOK
  <2> QED BY <2>1, <2>2
<1>4. CASE deleteProjectRow(r)
  <2>1. /\ UNCHANGED <<app, ids>>
        /\ DOMAIN repo' \subseteq DOMAIN repo /\ \A p \in DOMAIN repo' : repo'[p] = repo[p]
        /\ DOMAIN env' \subseteq DOMAIN env /\ \A e \in DOMAIN env' : env'[e] = env[e]
    <3>1. CASE \E e \in EnvsOf(req[r].project) : AppsIn(e) # {}
      BY <1>4, <3>1 DEF deleteProjectRow, DeleteProject, tree
    <3>2. CASE ~ \E e \in EnvsOf(req[r].project) : AppsIn(e) # {}
      BY <1>4, <3>2 DEF deleteProjectRow, DeleteProject, Without
    <3> QED BY <3>1, <3>2
  <2> QED BY <1>1, <2>1, RowsKeepTypes
<1>5. CASE deleteEnvironmentRow(r)
  <2>1. /\ UNCHANGED <<repo, app, ids>>
        /\ DOMAIN env' \subseteq DOMAIN env /\ \A e \in DOMAIN env' : env'[e] = env[e]
    <3>1. CASE AppsIn(req[r].env) = {}
      BY <1>5, <3>1 DEF deleteEnvironmentRow, DeleteEnvironment, Without
    <3>2. CASE AppsIn(req[r].env) # {}
      BY <1>5, <3>2 DEF deleteEnvironmentRow, DeleteEnvironment
    <3> QED BY <3>1, <3>2
  <2> QED BY <1>1, <2>1, RowsKeepTypes
<1>6. CASE updateApplicationRow(r)
  <2>1. UNCHANGED <<repo, env, ids>> /\ req[r].mode \in [Services -> Modes]
    BY <1>6 DEF updateApplicationRow, Prepared
  <2>2. CASE req[r].app \in DOMAIN app /\ req[r].env \in DOMAIN env
    <3>1. app' = With(app, req[r].app, [env |-> req[r].env, mode |-> req[r].mode])
      BY <1>6, <2>2 DEF updateApplicationRow, UpdateApplication
    <3>2. /\ DOMAIN app' = DOMAIN app
          /\ \A a \in DOMAIN app \ {req[r].app} : app'[a] = app[a]
          /\ app'[req[r].app].env = req[r].env /\ app'[req[r].app].mode = req[r].mode
      BY <2>2, <3>1 DEF With
    <3>3. req[r].env \in Envs
      BY <2>2 DEF TypeOK
    <3>4. \A a \in DOMAIN app' : \/ a \in DOMAIN app /\ app'[a] = app[a]
                                 \/ a \in Apps /\ app'[a].env \in Envs /\ app'[a].mode \in [Services -> Modes]
      BY <2>1, <2>2, <3>2, <3>3 DEF TypeOK
    <3> QED BY <1>1, <2>1, <3>4, RowsKeepTypes
  <2>3. CASE ~(req[r].app \in DOMAIN app /\ req[r].env \in DOMAIN env)
    <3>1. UNCHANGED app
      BY <1>6, <2>3 DEF updateApplicationRow
    <3> QED BY <1>1, <2>1, <3>1, RowsKeepTypes
  <2> QED BY <2>2, <2>3
<1>7. CASE updateProjectRepositoryRow(r)
  <2>1. UNCHANGED <<env, app, ids>> /\ req[r].repo \in Repos \cup {None}
    BY <1>7 DEF updateProjectRepositoryRow, Prepared
  <2>2. DOMAIN repo' = DOMAIN repo /\ \A p \in DOMAIN repo' : repo'[p] \in Repos \cup {None}
    <3>1. CASE req[r].project \in DOMAIN repo
      <4>1. repo' = With(repo, req[r].project, req[r].repo)
        BY <1>7, <3>1 DEF updateProjectRepositoryRow, UpdateProjectRepository
      <4> QED BY <2>1, <3>1, <4>1 DEF With, TypeOK
    <3>2. CASE req[r].project \notin DOMAIN repo
      <4>1. UNCHANGED repo
        BY <1>7, <3>2 DEF updateProjectRepositoryRow
      <4> QED BY <4>1 DEF TypeOK
    <3> QED BY <3>1, <3>2
  <2>3. \A p \in DOMAIN repo' : p \in Projects /\ repo'[p] \in Repos \cup {None}
    BY <2>2 DEF TypeOK
  <2> QED BY <1>1, <2>1, <2>3, RowsKeepTypes
<1> QED BY <1>1, <1>2, <1>3, <1>4, <1>5, <1>6, <1>7 DEF Writes

\* The rows keep their types through every interleaving of checks and writes: an
\* execution mode that updateApplication does not accept never reaches a row.
THEOREM TreeTypeCorrect == Spec => []TypeOK
<1>1. Init => TypeOK /\ Prepared
  BY DEF Init, TypeOK, Prepared, Idle
<1>2. Inv /\ TypeOK /\ Prepared /\ [Next]_vars => TypeOK' /\ Prepared'
  <2> SUFFICES ASSUME Inv, TypeOK, Prepared, [Next]_vars PROVE TypeOK' /\ Prepared'
    OBVIOUS
  <2>1. ASSUME NEW p \in Projects, NEW e \in Envs, createProject(p, e) PROVE TypeOK' /\ Prepared'
    BY <2>1 DEF createProject, CreateProjectWithDefaultEnvironments, With, Kinds, TypeOK, Prepared
  <2>2. ASSUME NEW a \in Apps, deleteApplication(a) PROVE TypeOK' /\ Prepared'
    BY <2>2 DEF deleteApplication, Without, TypeOK, Prepared
  <2>3. CASE UNCHANGED vars
    BY <2>3 DEF vars, TypeOK, Prepared
  <2> QED BY <2>1, <2>2, <2>3, Kinds4, ReadsPrepare, WritesKeepTypes
<1> QED BY <1>1, <1>2, TreeInv, PTL DEF Spec

-----------------------------------------------------------------------------
(* For any users, requests, failures and timeouts: a request that runs alone  *)
(* and succeeds leaves the table, the file and the host in agreement, and     *)
(* nobody with access but the users on the list and those of a request that   *)
(* failed or met another one.                                                 *)

\* Everyone whose groups some request answers for, and who is not in sudoers.
Answered == leaked \cup UNION {call[r].desired : r \in Callers}

\* A request that has met no other one is the only one.
Apart ==
    \A r, q \in Callers :
        call[r].pc # "idle" /\ r \notin overlap /\ q # r => call[q].pc = "idle"

\* Nothing is settled while a request is under way.
Resting == settled => \A r \in Callers : call[r].pc = "idle"

\* What the script has read and done, request by request.
Scripted ==
    \A r \in Callers :
        /\ call[r].pc \in {"idle", "install", "provision"} => call[r].desired = {}
        /\ call[r].pc = "grant" => call[r].todo \subseteq call[r].desired
        /\ call[r].pc = "revoke" => call[r].todo \cap call[r].desired = {}

\* A request alone finds the host as it left it.
Undisturbed ==
    \A r \in Callers :
        call[r].pc # "idle" /\ r \notin overlap =>
            /\ call[r].pc \notin {"install"} => file = call[r].want
            /\ call[r].pc \in {"grant", "revoke", "persist"} => call[r].desired = call[r].want
            /\ call[r].pc = "grant" => call[r].desired \ call[r].todo \subseteq groups
            /\ call[r].pc \in {"revoke", "persist"} => call[r].desired \subseteq groups
            /\ call[r].pc = "persist" => sudoers = call[r].desired

\* Access that is neither recorded in sudoers nor answered for does not exist,
\* also once a request that looked at sudoers earlier has replaced it.
Accounted ==
    /\ groups \subseteq sudoers \cup Answered
    /\ \A r \in Callers :
        /\ call[r].pc \in {"grant", "revoke"} => sudoers \subseteq call[r].old \cup Answered
        /\ call[r].pc = "revoke" => groups \cap (call[r].old \ call[r].todo) \subseteq Answered

UsersInv == UsersTypeOK /\ Apart /\ Resting /\ Scripted /\ Undisturbed /\ Accounted

\* The steps after the four handlers have begun.
Work(r) ==
    \/ InstallFile(r) \/ Provision(r) \/ Granted(r) \/ InstallSudoers(r)
    \/ \E u \in Names : Grant(r, u) \/ Revoke(r, u)
    \/ Persist(r) \/ Applied(r) \/ Fails(r) \/ TimesOut(r)

-----------------------------------------------------------------------------
\* The four handlers begin with some list of valid users: normalizeDevUsername
\* refuses every other name.
LEMMA Handlers ==
    ASSUME UsersTypeOK, UsersNext
    PROVE  \E r \in Callers :
              \/ Work(r)
              \/ \E users \in SUBSET Users, persist \in BOOLEAN : BeginCall(r, users, persist)
<1>1. PICK r \in Callers :
        \/ \E u \in Names : addServerDevUser(r, u) \/ deleteServerDevUser(r, u)
        \/ \E u, v \in Names : updateServerDevUser(r, u, v)
        \/ applyServerDevUsers(r)
        \/ Work(r)
  BY DEF UsersNext, Work
<1>2. CASE Work(r)
  BY <1>2
<1>3. ASSUME NEW u \in Names, addServerDevUser(r, u)
      PROVE  \E users \in SUBSET Users, persist \in BOOLEAN : BeginCall(r, users, persist)
  <2>1. addDevUser(readServerDevUsers, u) \in SUBSET Users
    BY <1>3 DEF addServerDevUser, addDevUser, readServerDevUsers, normalizeDevUsername, UsersTypeOK
  <2> QED BY <1>3, <2>1 DEF addServerDevUser
<1>4. ASSUME NEW u \in Names, deleteServerDevUser(r, u)
      PROVE  \E users \in SUBSET Users, persist \in BOOLEAN : BeginCall(r, users, persist)
  <2>1. removeDevUser(readServerDevUsers, u) \in SUBSET Users
    BY DEF removeDevUser, readServerDevUsers, UsersTypeOK
  <2> QED BY <1>4, <2>1 DEF deleteServerDevUser
<1>5. ASSUME NEW u \in Names, NEW v \in Names, updateServerDevUser(r, u, v)
      PROVE  \E users \in SUBSET Users, persist \in BOOLEAN : BeginCall(r, users, persist)
  <2>1. replaceDevUser(readServerDevUsers, u, v) \in SUBSET Users
    BY <1>5 DEF updateServerDevUser, replaceDevUser, readServerDevUsers, normalizeDevUsername, UsersTypeOK
  <2> QED BY <1>5, <2>1 DEF updateServerDevUser
<1>6. ASSUME applyServerDevUsers(r)
      PROVE  \E users \in SUBSET Users, persist \in BOOLEAN : BeginCall(r, users, persist)
  <2>1. readServerDevUsers \in SUBSET Users
    BY DEF readServerDevUsers, UsersTypeOK
  <2> QED BY <1>6, <2>1 DEF applyServerDevUsers
<1> QED BY <1>1, <1>2, <1>3, <1>4, <1>5, <1>6

-----------------------------------------------------------------------------
\* Types.
ReqType == [pc : PCs, want : SUBSET Users, desired : SUBSET Users,
            old : SUBSET Users, todo : SUBSET Users, persist : BOOLEAN]

LEMMA BeginTypes ==
    ASSUME UsersTypeOK, NEW r \in Callers, NEW users \in SUBSET Users, NEW persist \in BOOLEAN,
           BeginCall(r, users, persist)
    PROVE  UsersTypeOK'
<1> USE UsersAssumption
<1>1. call' \in [Callers -> ReqType]
  BY DEF UsersTypeOK, BeginCall, NoCall, PCs, ReqType
<1>2. calls' \in 0 .. MaxCalls
  BY DEF UsersTypeOK, BeginCall
<1>3. overlap' \subseteq Callers
  BY DEF UsersTypeOK, BeginCall, Active
<1> QED BY <1>1, <1>2, <1>3 DEF UsersTypeOK, BeginCall, host, ReqType

LEMMA EndTypes ==
    ASSUME UsersTypeOK, NEW r \in Callers, NEW ok \in BOOLEAN, EndCall(r, ok)
    PROVE  /\ call' \in [Callers -> ReqType]
           /\ settled' \in BOOLEAN
           /\ leaked' \subseteq Users
<1>1. call' \in [Callers -> ReqType]
  BY DEF UsersTypeOK, EndCall, NoCall, PCs, ReqType
<1>2. settled' \in BOOLEAN
  BY DEF EndCall
<1>3. call[r].desired \subseteq Users
  BY DEF UsersTypeOK
<1>4. leaked' \subseteq Users
  BY <1>3 DEF UsersTypeOK, EndCall
<1> QED BY <1>1, <1>2, <1>4

LEMMA WorkTypes ==
    ASSUME UsersTypeOK, NEW r \in Callers, Work(r)
    PROVE  UsersTypeOK'
<1> USE UsersAssumption
<1>1. CASE InstallFile(r)
  BY <1>1 DEF UsersTypeOK, InstallFile, PCs
<1>2. CASE Provision(r)
  <2>1. call' = [call EXCEPT ![r] = [@ EXCEPT !.pc = "grant", !.desired = file,
                                            !.todo = file, !.old = sudoers]]
    BY <1>2 DEF Provision, OldUsers
  <2>2. [call[r] EXCEPT !.pc = "grant", !.desired = file, !.todo = file, !.old = sudoers] \in ReqType
    BY DEF UsersTypeOK, ReqType, PCs
  <2>3. call' \in [Callers -> ReqType]
    BY <2>1, <2>2 DEF UsersTypeOK, ReqType
  <2> QED BY <1>2, <2>3 DEF UsersTypeOK, Provision, host, ReqType
<1>3. CASE Granted(r)
  <2>1. call' = [call EXCEPT ![r] = [@ EXCEPT !.pc = "revoke",
                                            !.todo = call[r].old \ call[r].desired]]
    BY <1>3 DEF Granted
  <2>2. [call[r] EXCEPT !.pc = "revoke", !.todo = call[r].old \ call[r].desired] \in ReqType
    BY DEF UsersTypeOK, ReqType, PCs
  <2>3. call' \in [Callers -> ReqType]
    BY <2>1, <2>2 DEF UsersTypeOK, ReqType
  <2> QED BY <1>3, <2>3 DEF UsersTypeOK, Granted, host, ReqType
<1>4. CASE InstallSudoers(r)
  BY <1>4 DEF UsersTypeOK, InstallSudoers, PCs
<1>5. ASSUME NEW u \in Names, Grant(r, u) PROVE UsersTypeOK'
  <2>1. u \in Users
    BY <1>5 DEF UsersTypeOK, Grant
  <2> QED BY <1>5, <2>1 DEF UsersTypeOK, Grant, PCs
<1>6. ASSUME NEW u \in Names, Revoke(r, u) PROVE UsersTypeOK'
  BY <1>6 DEF UsersTypeOK, Revoke, PCs
<1>7. CASE Persist(r)
  <2>1. EndCall(r, TRUE) /\ db' = call[r].want /\ UNCHANGED <<host, calls, faults, overlap>>
    BY <1>7 DEF Persist, ReplaceServerDevSudoUsers
  <2> QED BY <2>1, EndTypes DEF UsersTypeOK, host, ReqType
<1>8. CASE Applied(r)
  <2>1. EndCall(r, db = call[r].want) /\ UNCHANGED <<db, host, calls, faults, overlap>>
    BY <1>8 DEF Applied
  <2> QED BY <2>1, EndTypes DEF UsersTypeOK, host, ReqType
<1>9. CASE Fails(r)
  <2>1. EndCall(r, FALSE) /\ UNCHANGED <<db, host, calls, overlap>>
    BY <1>9 DEF Fails
  <2>2. faults' \in 0 .. MaxFaults
    BY <1>9 DEF Fails, Fault, UsersTypeOK
  <2> QED BY <2>1, <2>2, EndTypes DEF UsersTypeOK, host, ReqType
<1>10. CASE TimesOut(r)
  <2>1. call' = [call EXCEPT ![r] = [call[r] EXCEPT !.persist = FALSE]]
    BY <1>10 DEF TimesOut
  <2>2. [call[r] EXCEPT !.persist = FALSE] \in ReqType
    BY DEF UsersTypeOK, ReqType
  <2>3. call' \in [Callers -> ReqType]
    BY <2>1, <2>2 DEF UsersTypeOK, ReqType
  <2>4. faults' \in 0 .. MaxFaults
    BY <1>10 DEF TimesOut, Fault, UsersTypeOK
  <2> QED BY <1>10, <2>3, <2>4 DEF UsersTypeOK, TimesOut, host, ReqType
<1> QED BY <1>1, <1>2, <1>3, <1>4, <1>5, <1>6, <1>7, <1>8, <1>9, <1>10 DEF Work

-----------------------------------------------------------------------------
\* What a step does to the requests, field by field.
LEMMA Others ==
    ASSUME UsersTypeOK, NEW r \in Callers,
           Work(r) \/ \E users \in SUBSET Users, persist \in BOOLEAN : BeginCall(r, users, persist),
           NEW q \in Callers, q # r
    PROVE  call'[q] = call[q]
<1>1. \E x : call' = [call EXCEPT ![r] = x]
  <2>1. CASE \E users \in SUBSET Users, persist \in BOOLEAN : BeginCall(r, users, persist)
    BY <2>1 DEF BeginCall
  <2>2. CASE Work(r)
    BY <2>2 DEF Work, InstallFile, Provision, Granted, InstallSudoers, Grant, Revoke, Persist,
            Applied, Fails, TimesOut, EndCall
  <2> QED BY <2>1, <2>2
<1> QED BY <1>1 DEF UsersTypeOK

\* The end of a request.
LEMMA Ended ==
    ASSUME UsersTypeOK, NEW r \in Callers, Persist(r) \/ Applied(r) \/ Fails(r)
    PROVE  /\ call'[r] = NoCall
           /\ UNCHANGED <<file, sudoers, groups, overlap>>
           /\ r \in overlap => ~settled' /\ leaked' = leaked \cup call[r].desired
           /\ r \notin overlap =>
                \/ ~settled' /\ leaked' = leaked \cup call[r].desired
                \/ call[r].pc = "persist" /\ db' = call[r].want /\ leaked' = leaked
<1>1. call'[r] = NoCall
  BY DEF UsersTypeOK, Persist, Applied, Fails, EndCall
<1>2. UNCHANGED <<file, sudoers, groups, overlap>>
  BY DEF Persist, Applied, Fails, host
<1>3. CASE Persist(r)
  BY <1>1, <1>2, <1>3 DEF Persist, EndCall, ReplaceServerDevSudoUsers
<1>4. CASE Applied(r)
  BY <1>1, <1>2, <1>4 DEF Applied, EndCall
<1>5. CASE Fails(r)
  BY <1>1, <1>2, <1>5 DEF Fails, EndCall
<1> QED BY <1>3, <1>4, <1>5

\* Apart and Resting.
LEMMA StaysApart ==
    ASSUME UsersTypeOK, Apart, Resting, NEW r \in Callers,
           Work(r) \/ \E users \in SUBSET Users, persist \in BOOLEAN : BeginCall(r, users, persist)
    PROVE  Apart' /\ Resting'
<1>0. \A q \in Callers \ {r} : call'[q] = call[q]
  BY Others
<1>1. CASE \E users \in SUBSET Users, persist \in BOOLEAN : BeginCall(r, users, persist)
  <2>1. /\ overlap' = IF Active = {} THEN overlap \ {r} ELSE overlap \cup Active \cup {r}
        /\ call[r].pc = "idle" /\ ~settled'
    BY <1>1 DEF BeginCall
  <2> QED BY <1>0, <2>1 DEF Apart, Resting, Active
<1>2. CASE Persist(r) \/ Applied(r) \/ Fails(r)
  <2>1. call'[r].pc = "idle"
    BY <1>2, Ended DEF NoCall
  <2>2. Apart'
    BY <1>0, <2>1, <1>2, Ended DEF Apart
  <2>3. Resting'
    <3>1. CASE ~settled'
      BY <3>1 DEF Resting
    <3>2. CASE settled'
      <4>1. r \notin overlap /\ call[r].pc = "persist"
        BY <1>2, <3>2, Ended
      <4> QED BY <1>0, <2>1, <4>1 DEF Apart, Resting
    <3> QED BY <3>1, <3>2
  <2> QED BY <2>2, <2>3
<1>3. CASE Work(r) /\ ~(Persist(r) \/ Applied(r) \/ Fails(r))
  <2>1. /\ call[r].pc # "idle"
        /\ UNCHANGED <<overlap, settled>>
    BY <1>3 DEF Work, InstallFile, Provision, Granted, InstallSudoers, Grant, Revoke, TimesOut, Active
  <2> QED BY <1>0, <2>1 DEF Apart, Resting
<1> QED BY <1>1, <1>2, <1>3 DEF Work

-----------------------------------------------------------------------------
\* Scripted.
LEMMA StaysScripted ==
    ASSUME UsersTypeOK, Scripted, NEW r \in Callers,
           Work(r) \/ \E users \in SUBSET Users, persist \in BOOLEAN : BeginCall(r, users, persist)
    PROVE  Scripted'
<1>0. \A q \in Callers \ {r} : call'[q] = call[q]
  BY Others
<1> SUFFICES /\ call'[r].pc \in {"idle", "install", "provision"} => call'[r].desired = {}
             /\ call'[r].pc = "grant" => call'[r].todo \subseteq call'[r].desired
             /\ call'[r].pc = "revoke" => call'[r].todo \cap call'[r].desired = {}
  BY <1>0 DEF Scripted
<1>1. CASE \E users \in SUBSET Users, persist \in BOOLEAN : BeginCall(r, users, persist)
  BY <1>1 DEF BeginCall, NoCall, UsersTypeOK
<1>2. CASE Persist(r) \/ Applied(r) \/ Fails(r)
  BY <1>2, Ended DEF NoCall
<1>3. CASE InstallFile(r)
  BY <1>3 DEF InstallFile, Scripted, UsersTypeOK
<1>4. CASE Provision(r)
  BY <1>4 DEF Provision, UsersTypeOK
<1>5. CASE Granted(r)
  BY <1>5 DEF Granted, UsersTypeOK
<1>6. CASE InstallSudoers(r)
  BY <1>6 DEF InstallSudoers, UsersTypeOK
<1>7. ASSUME NEW u \in Names, Grant(r, u)
      PROVE  call'[r].pc = "grant" /\ call'[r].todo \subseteq call'[r].desired
  BY <1>7 DEF Grant, Scripted, UsersTypeOK
<1>8. ASSUME NEW u \in Names, Revoke(r, u)
      PROVE  call'[r].pc = "revoke" /\ call'[r].todo \cap call'[r].desired = {}
  BY <1>8 DEF Revoke, Scripted, UsersTypeOK
<1>9. CASE TimesOut(r)
  <2>1. /\ call'[r].pc = call[r].pc /\ call'[r].desired = call[r].desired
        /\ call'[r].todo = call[r].todo
    BY <1>9 DEF TimesOut, UsersTypeOK
  <2> QED BY <2>1 DEF Scripted
<1> QED BY <1>1, <1>2, <1>3, <1>4, <1>5, <1>6, <1>7, <1>8, <1>9 DEF Work

-----------------------------------------------------------------------------
\* Undisturbed.
LEMMA StaysUndisturbed ==
    ASSUME UsersTypeOK, Apart, Scripted, Undisturbed, NEW r \in Callers,
           Work(r) \/ \E users \in SUBSET Users, persist \in BOOLEAN : BeginCall(r, users, persist)
    PROVE  Undisturbed'
<1>0. \A q \in Callers \ {r} : call'[q] = call[q]
  BY Others
<1>a. CASE \E users \in SUBSET Users, persist \in BOOLEAN : BeginCall(r, users, persist)
  <2>1. /\ overlap' = IF Active = {} THEN overlap \ {r} ELSE overlap \cup Active \cup {r}
        /\ UNCHANGED <<file, sudoers, groups>>
    BY <1>a DEF BeginCall, host
  <2>2. call'[r].pc = "install"
    <3>1. PICK users \in SUBSET Users, persist \in BOOLEAN : BeginCall(r, users, persist)
      BY <1>a
    <3>2. call'[r] = [NoCall EXCEPT !.pc = "install", !.want = users, !.persist = persist]
      BY <3>1 DEF BeginCall, UsersTypeOK
    <3> QED BY <3>2 DEF NoCall
  <2> QED BY <1>0, <2>1, <2>2 DEF Undisturbed, Active
<1>b. CASE Persist(r) \/ Applied(r) \/ Fails(r)
  BY <1>0, <1>b, Ended DEF Undisturbed, NoCall
<1>c. CASE Work(r) /\ ~(Persist(r) \/ Applied(r) \/ Fails(r))
  <2>1. call[r].pc # "idle" /\ UNCHANGED overlap
    BY <1>c DEF Work, InstallFile, Provision, Granted, InstallSudoers, Grant, Revoke, TimesOut, Active
  <2>2. SUFFICES ASSUME r \notin overlap
                 PROVE  /\ call'[r].pc \notin {"install"} => file' = call'[r].want
                        /\ call'[r].pc \in {"grant", "revoke", "persist"} => call'[r].desired = call'[r].want
                        /\ call'[r].pc = "grant" => call'[r].desired \ call'[r].todo \subseteq groups'
                        /\ call'[r].pc \in {"revoke", "persist"} => call'[r].desired \subseteq groups'
                        /\ call'[r].pc = "persist" => sudoers' = call'[r].desired
    <3>1. ASSUME NEW q \in Callers, q # r, call'[q].pc # "idle" PROVE q \in overlap'
      BY <1>0, <2>1, <3>1 DEF Apart
    <3> QED BY <1>0, <2>1, <3>1 DEF Undisturbed
  <2>3. CASE InstallFile(r)
    BY <2>3 DEF InstallFile, UsersTypeOK
  <2>4. CASE Provision(r)
    <3>1. /\ call'[r].pc = "grant" /\ call'[r].want = call[r].want /\ call'[r].desired = file
          /\ call'[r].todo = file /\ UNCHANGED <<file, groups, sudoers>>
      BY <2>4 DEF Provision, UsersTypeOK, host
    <3>2. file = call[r].want
      BY <2>2, <2>4 DEF Provision, Undisturbed
    <3> QED BY <3>1, <3>2
  <2>5. CASE Granted(r)
    <3>1. /\ call'[r].pc = "revoke" /\ call'[r].want = call[r].want
          /\ call'[r].desired = call[r].desired /\ UNCHANGED <<file, groups, sudoers>>
      BY <2>5 DEF Granted, UsersTypeOK, host
    <3>2. file = call[r].want /\ call[r].desired = call[r].want /\ call[r].desired \subseteq groups
      BY <2>2, <2>5 DEF Granted, Undisturbed
    <3> QED BY <3>1, <3>2
  <2>6. CASE InstallSudoers(r)
    <3>1. /\ call'[r].pc = "persist" /\ call'[r].want = call[r].want
          /\ call'[r].desired = call[r].desired /\ sudoers' = call[r].desired
          /\ UNCHANGED <<file, groups>>
      BY <2>6 DEF InstallSudoers, UsersTypeOK
    <3> QED BY <2>2, <2>6, <3>1 DEF InstallSudoers, Undisturbed
  <2>7. ASSUME NEW u \in Names, Grant(r, u)
        PROVE  /\ call'[r].pc = "grant" /\ file' = call'[r].want /\ call'[r].desired = call'[r].want
               /\ call'[r].desired \ call'[r].todo \subseteq groups'
    <3>1. /\ call'[r].pc = "grant" /\ call'[r].want = call[r].want
          /\ call'[r].desired = call[r].desired /\ call'[r].todo = call[r].todo \ {u}
          /\ groups' = groups \cup {u} /\ file' = file
      BY <2>7 DEF Grant, UsersTypeOK
    <3> QED BY <2>2, <2>7, <3>1 DEF Grant, Undisturbed
  <2>8. ASSUME NEW u \in Names, Revoke(r, u)
        PROVE  /\ call'[r].pc = "revoke" /\ file' = call'[r].want /\ call'[r].desired = call'[r].want
               /\ call'[r].desired \subseteq groups'
    <3>1. /\ call'[r].pc = "revoke" /\ call'[r].want = call[r].want
          /\ call'[r].desired = call[r].desired
          /\ groups' = groups \ {u} /\ file' = file
      BY <2>8 DEF Revoke, UsersTypeOK
    <3>2. u \notin call[r].desired
      BY <2>8 DEF Revoke, Scripted
    <3> QED BY <2>2, <2>8, <3>1, <3>2 DEF Revoke, Undisturbed
  <2>9. CASE TimesOut(r)
    <3>1. /\ call'[r].pc = call[r].pc /\ call'[r].want = call[r].want
          /\ call'[r].desired = call[r].desired /\ call'[r].todo = call[r].todo
          /\ UNCHANGED <<file, groups, sudoers>>
      BY <2>9 DEF TimesOut, UsersTypeOK, host
    <3> QED BY <2>1, <2>2, <3>1 DEF Undisturbed
  <2> QED BY <1>c, <2>3, <2>4, <2>5, <2>6, <2>7, <2>8, <2>9 DEF Work
<1> QED BY <1>a, <1>b, <1>c DEF Work

-----------------------------------------------------------------------------
\* Accounted.  Answered can only grow while somebody else is at work.
LEMMA AnsweredGrows ==
    ASSUME UsersTypeOK, NEW r \in Callers,
           \A q \in Callers \ {r} : call'[q] = call[q],
           call[r].desired \subseteq call'[r].desired \cup leaked',
           leaked \subseteq leaked'
    PROVE  Answered \subseteq Answered'
<1> SUFFICES ASSUME NEW x \in Answered PROVE x \in Answered'
  OBVIOUS
<1>1. CASE x \in leaked
  BY <1>1 DEF Answered
<1>2. CASE x \notin leaked
  <2>1. PICK q \in Callers : x \in call[q].desired
    BY <1>2 DEF Answered
  <2> QED BY <2>1 DEF Answered
<1> QED BY <1>1, <1>2

LEMMA StaysAccounted ==
    ASSUME UsersTypeOK, Apart, Scripted, Undisturbed, Accounted, NEW r \in Callers,
           Work(r) \/ \E users \in SUBSET Users, persist \in BOOLEAN : BeginCall(r, users, persist)
    PROVE  Accounted'
<1>0. \A q \in Callers \ {r} : call'[q] = call[q]
  BY Others
<1>a. CASE \E users \in SUBSET Users, persist \in BOOLEAN : BeginCall(r, users, persist)
  <2>1. UNCHANGED <<file, sudoers, groups, leaked>> /\ call[r].pc = "idle"
    BY <1>a DEF BeginCall, host
  <2>2. call'[r].pc = "install"
    <3>1. PICK users \in SUBSET Users, persist \in BOOLEAN : BeginCall(r, users, persist)
      BY <1>a
    <3>2. call'[r] = [NoCall EXCEPT !.pc = "install", !.want = users, !.persist = persist]
      BY <3>1 DEF BeginCall, UsersTypeOK
    <3> QED BY <3>2 DEF NoCall
  <2>3. call[r].desired = {}
    BY <2>1 DEF Scripted
  <2>4. Answered \subseteq Answered'
    BY <1>0, <2>1, <2>3, AnsweredGrows
  <2> QED BY <1>0, <2>1, <2>2, <2>4 DEF Accounted
<1>b. CASE Persist(r) \/ Applied(r) \/ Fails(r)
  <2>1. UNCHANGED <<sudoers, groups>> /\ call'[r].pc = "idle"
    BY <1>b, Ended DEF NoCall
  <2>2. CASE leaked' = leaked \cup call[r].desired
    <3>1. Answered \subseteq Answered'
      BY <1>0, <2>2, AnsweredGrows
    <3> QED BY <1>0, <2>1, <3>1 DEF Accounted
  <2>3. CASE ~(leaked' = leaked \cup call[r].desired)
    <3>1. r \notin overlap /\ call[r].pc = "persist" /\ leaked' = leaked
      BY <1>b, <2>3, Ended
    <3>2. sudoers = call[r].desired
      BY <3>1 DEF Undisturbed
    <3>3. \A q \in Callers \ {r} : call[q].pc = "idle" /\ call[q].desired = {}
      BY <3>1 DEF Apart, Scripted
    <3>4. Answered \subseteq sudoers \cup leaked
      BY <3>2, <3>3 DEF Answered
    <3>5. leaked' \subseteq Answered'
      BY DEF Answered
    <3>6. groups' \subseteq sudoers' \cup Answered'
      BY <2>1, <3>1, <3>4, <3>5 DEF Accounted
    <3>7. \A q \in Callers : call'[q].pc = "idle"
      BY <1>0, <2>1, <3>3
    <3> QED BY <3>6, <3>7 DEF Accounted
  <2> QED BY <2>2, <2>3
<1>c. CASE Work(r) /\ ~(Persist(r) \/ Applied(r) \/ Fails(r))
  <2>0. leaked' = leaked
    BY <1>c DEF Work, InstallFile, Provision, Granted, InstallSudoers, Grant, Revoke, TimesOut
  <2>1. CASE InstallFile(r)
    <3>1. UNCHANGED <<sudoers, groups>> /\ call'[r].pc = "provision" /\ call'[r].desired = call[r].desired
      BY <2>1 DEF InstallFile, UsersTypeOK
    <3>2. Answered \subseteq Answered'
      BY <1>0, <2>0, <3>1, AnsweredGrows
    <3> QED BY <1>0, <3>1, <3>2 DEF Accounted
  <2>2. CASE Provision(r)
    <3>1. UNCHANGED <<sudoers, groups>> /\ call'[r].pc = "grant" /\ call'[r].old = sudoers
      BY <2>2 DEF Provision, UsersTypeOK, host, OldUsers
    <3>2. call[r].desired = {}
      BY <2>2 DEF Provision, Scripted
    <3>3. Answered \subseteq Answered'
      BY <1>0, <2>0, <3>2, AnsweredGrows
    <3> QED BY <1>0, <3>1, <3>3 DEF Accounted
  <2>3. CASE Granted(r)
    <3>1. /\ UNCHANGED <<sudoers, groups>> /\ call[r].pc = "grant" /\ call'[r].pc = "revoke"
          /\ call'[r].old = call[r].old /\ call'[r].desired = call[r].desired
          /\ call'[r].todo = call[r].old \ call[r].desired
      BY <2>3 DEF Granted, UsersTypeOK, host
    <3>2. Answered \subseteq Answered' /\ call'[r].desired \subseteq Answered'
      BY <1>0, <2>0, <3>1, AnsweredGrows DEF Answered
    <3> QED BY <1>0, <3>1, <3>2 DEF Accounted
  <2>4. CASE InstallSudoers(r)
    <3>1. /\ groups' = groups /\ sudoers' = call[r].desired /\ call[r].pc = "revoke"
          /\ call[r].todo = {} /\ call'[r].pc = "persist" /\ call'[r].desired = call[r].desired
      BY <2>4 DEF InstallSudoers, UsersTypeOK
    <3>2. Answered \subseteq Answered' /\ sudoers' \subseteq Answered'
      BY <1>0, <2>0, <3>1, AnsweredGrows DEF Answered
    <3>3. groups \subseteq Answered
      BY <3>1 DEF Accounted
    <3> QED BY <1>0, <3>1, <3>2, <3>3 DEF Accounted
  <2>5. ASSUME NEW u \in Names, Grant(r, u)
        PROVE  Accounted'
    <3>1. /\ groups' = groups \cup {u} /\ sudoers' = sudoers /\ call[r].pc = "grant"
          /\ u \in call[r].todo /\ call'[r].pc = "grant" /\ call'[r].desired = call[r].desired
          /\ call'[r].old = call[r].old
      BY <2>5 DEF Grant, UsersTypeOK
    <3>2. u \in call'[r].desired
      BY <3>1 DEF Scripted
    <3>3. Answered \subseteq Answered' /\ u \in Answered'
      BY <1>0, <2>0, <3>1, <3>2, AnsweredGrows DEF Answered
    <3> QED BY <1>0, <3>1, <3>3 DEF Accounted
  <2>6. ASSUME NEW u \in Names, Revoke(r, u)
        PROVE  Accounted'
    <3>1. /\ groups' = groups \ {u} /\ sudoers' = sudoers /\ call[r].pc = "revoke"
          /\ call'[r].pc = "revoke" /\ call'[r].desired = call[r].desired
          /\ call'[r].old = call[r].old /\ call'[r].todo = call[r].todo \ {u}
      BY <2>6 DEF Revoke, UsersTypeOK
    <3>2. Answered \subseteq Answered'
      BY <1>0, <2>0, <3>1, AnsweredGrows
    <3> QED BY <1>0, <3>1, <3>2 DEF Accounted
  <2>7. CASE TimesOut(r)
    <3>1. /\ UNCHANGED <<sudoers, groups>> /\ call'[r].pc = call[r].pc
          /\ call'[r].desired = call[r].desired /\ call'[r].old = call[r].old
          /\ call'[r].todo = call[r].todo
      BY <2>7 DEF TimesOut, UsersTypeOK, host
    <3>2. Answered \subseteq Answered'
      BY <1>0, <2>0, <3>1, AnsweredGrows
    <3> QED BY <1>0, <3>1, <3>2 DEF Accounted
  <2> QED BY <1>c, <2>1, <2>2, <2>3, <2>4, <2>5, <2>6, <2>7 DEF Work
<1> QED BY <1>a, <1>b, <1>c DEF Work

-----------------------------------------------------------------------------
\* What is settled follows from the step that settled it.
LEMMA KeepsAgreeing ==
    ASSUME UsersTypeOK, Resting, Undisturbed, SettledAgrees, NEW r \in Callers,
           Work(r) \/ \E users \in SUBSET Users, persist \in BOOLEAN : BeginCall(r, users, persist)
    PROVE  SettledAgrees'
<1>1. CASE \E users \in SUBSET Users, persist \in BOOLEAN : BeginCall(r, users, persist)
  BY <1>1 DEF BeginCall, SettledAgrees
<1>2. CASE Persist(r) \/ Applied(r) \/ Fails(r)
  <2> SUFFICES ASSUME settled' PROVE db' = file' /\ file' = sudoers' /\ sudoers' \subseteq groups'
    BY DEF SettledAgrees
  <2>1. /\ r \notin overlap /\ call[r].pc = "persist" /\ db' = call[r].want
        /\ UNCHANGED <<file, sudoers, groups>>
    BY <1>2, Ended
  <2> QED BY <2>1 DEF Undisturbed
<1>3. CASE Work(r) /\ ~(Persist(r) \/ Applied(r) \/ Fails(r))
  <2>1. call[r].pc # "idle" /\ UNCHANGED settled
    BY <1>3 DEF Work, InstallFile, Provision, Granted, InstallSudoers, Grant, Revoke, TimesOut, Active
  <2> QED BY <2>1 DEF Resting, SettledAgrees
<1> QED BY <1>1, <1>2, <1>3 DEF Work

LEMMA InvHolds == UsersSpec => [](UsersInv /\ SettledAgrees)
<1>1. UsersInit => UsersInv /\ SettledAgrees
  <2> SUFFICES ASSUME UsersInit PROVE UsersInv /\ SettledAgrees
    OBVIOUS
  <2>1. UsersTypeOK
    <3>1. NoCall \in ReqType
      BY DEF NoCall, ReqType, PCs
    <3>2. call \in [Callers -> ReqType]
      BY <3>1 DEF UsersInit
    <3>3. calls \in 0 .. MaxCalls /\ faults \in 0 .. MaxFaults
      BY UsersAssumption DEF UsersInit
    <3>4. settled \in BOOLEAN
      BY DEF UsersInit
    <3> QED BY <3>2, <3>3, <3>4, UsersAssumption DEF UsersInit, UsersTypeOK, ReqType
  <2>2. \A r \in Callers : call[r].pc = "idle" /\ call[r].desired = {}
    BY DEF UsersInit, NoCall
  <2> QED BY <2>1, <2>2 DEF UsersInit, UsersInv, SettledAgrees, Apart, Resting, Scripted, Undisturbed, Accounted
<1>2. UsersInv /\ SettledAgrees /\ [UsersNext]_usersVars => (UsersInv /\ SettledAgrees)'
  <2> SUFFICES ASSUME UsersInv, SettledAgrees, [UsersNext]_usersVars PROVE UsersInv' /\ SettledAgrees'
    OBVIOUS
  <2>1. CASE UsersNext
    <3>1. PICK r \in Callers :
            \/ Work(r)
            \/ \E users \in SUBSET Users, persist \in BOOLEAN : BeginCall(r, users, persist)
      BY <2>1, Handlers DEF UsersInv
    <3>2. UsersTypeOK'
      BY <3>1, BeginTypes, WorkTypes DEF UsersInv
    <3>3. Apart' /\ Resting'
      BY <3>1, StaysApart DEF UsersInv
    <3>4. Scripted'
      BY <3>1, StaysScripted DEF UsersInv
    <3>5. Undisturbed'
      BY <3>1, StaysUndisturbed DEF UsersInv
    <3>6. Accounted'
      BY <3>1, StaysAccounted DEF UsersInv
    <3>7. SettledAgrees'
      BY <3>1, KeepsAgreeing DEF UsersInv
    <3> QED BY <3>2, <3>3, <3>4, <3>5, <3>6, <3>7 DEF UsersInv
  <2>2. CASE UNCHANGED usersVars
    BY <2>2 DEF usersVars, UsersInv, SettledAgrees, UsersTypeOK, Apart, Resting, Scripted, Undisturbed, Accounted, Answered
  <2> QED BY <2>1, <2>2
<1> QED BY <1>1, <1>2, PTL DEF UsersSpec

\* Names that are not Linux user names never reach the table, the file, the
\* sudoers file or the groups, and every variable stays in its type.
THEOREM DevUsersTypeCorrect == UsersSpec => []UsersTypeOK
<1>1. UsersInv => UsersTypeOK
  BY DEF UsersInv
<1> QED BY InvHolds, <1>1, PTL

\* A request that ran alone and succeeded repairs whatever earlier ones left.
THEOREM SettledRequestsAgree == UsersSpec => []SettledAgrees
BY InvHolds, PTL

\* And it takes away the access of everyone who is no longer on the list,
\* except of users some failed or overlapping request had granted it to.
THEOREM NobodyKeepsAccess == UsersSpec => []AccessIsRevoked
<1>1. UsersInv => AccessIsRevoked
  <2> SUFFICES ASSUME UsersInv, settled PROVE groups \subseteq sudoers \cup leaked
    BY DEF AccessIsRevoked
  <2>1. \A r \in Callers : call[r].desired = {}
    BY DEF UsersInv, Resting, Scripted
  <2>2. Answered = leaked
    BY <2>1 DEF Answered
  <2> QED BY <2>2 DEF UsersInv, Accounted
<1> QED BY InvHolds, <1>1, PTL
=============================================================================
