----------------------------- MODULE ProjectTree -----------------------------
(* Projects, their environments and the services (applications) in them.      *)
(* A handler reads what its checks need and writes later, without a lock, so  *)
(* every two-step handler is two actions.  What keeps the tree whole between  *)
(* them are the foreign keys: environments go with their project (CASCADE),   *)
(* an environment with services cannot go (RESTRICT).  Ids are never reused.  *)
EXTENDS Naturals, FiniteSets

CONSTANTS
    Projects, Envs, Apps,
    Repos,          \* repositories the GitHub connectors offer
    Services,       \* compose services of an application
    Requests,
    None,
    MaxRequests

ASSUME IdsAssumption ==
    /\ Projects \cap Envs = {} /\ Projects \cap Apps = {} /\ Envs \cap Apps = {}
    /\ MaxRequests \in Nat

VARIABLES
    repo,      \* [project -> repository of record or None], existing projects
    env,       \* [environment -> its project and kind], existing ones
    app,       \* [application -> its environment and execution modes]
    req,       \* [request -> what it has read and is about to write]
    begun,
    ids,       \* ids handed out
    removed    \* applications deleted by deleteApplication

vars == <<repo, env, app, req, begun, ids, removed>>
tree == <<repo, env, app>>

Modes == {"follow_stack", "singleton"}
Kinds == {"production", "development", "preview"}
Idle == [op |-> "idle"]

EnvsOf(p) == {e \in DOMAIN env : env[e].project = p}
AppsIn(e) == {a \in DOMAIN app : app[a].env = e}

\* A function without, or with, some of its arguments.
Without(f, S) == [x \in DOMAIN f \ S |-> f[x]]
With(f, x, v) == [y \in DOMAIN f \cup {x} |-> IF y = x THEN v ELSE f[y]]

-----------------------------------------------------------------------------
\* SQL statements.

CreateProjectWithDefaultEnvironments(p, e) ==
    /\ repo' = With(repo, p, None)
    /\ env' = With(env, e, [project |-> p, kind |-> "production"])
    /\ ids' = ids \cup {p, e}

\* Mutant: services do not hold their environments.
DeleteAnyway(p) ==
    /\ repo' = Without(repo, {p})
    /\ env' = Without(env, EnvsOf(p))
    /\ UNCHANGED app

\* DELETE FROM projects: the environments follow unless one has services.
DeleteProject(p) ==
    IF \E e \in EnvsOf(p) : AppsIn(e) # {}
    THEN UNCHANGED tree
    ELSE /\ repo' = Without(repo, {p})
         /\ env' = Without(env, EnvsOf(p))
         /\ UNCHANGED app

CreateEnvironment(e, p, kind) ==
    IF p \in DOMAIN repo
    THEN env' = With(env, e, [project |-> p, kind |-> kind]) /\ ids' = ids \cup {e}
    ELSE UNCHANGED <<env, ids>>

\* Mutant: the environment's services are deleted along with it.
DeleteWithServices(e) ==
    /\ env' = Without(env, {e})
    /\ app' = Without(app, AppsIn(e))

\* DELETE FROM environments ... AND NOT EXISTS (SELECT 1 FROM applications ...)
DeleteEnvironment(e) ==
    /\ env' = IF AppsIn(e) = {} THEN Without(env, {e}) ELSE env
    /\ UNCHANGED app

\* INSERT INTO applications: refused when the environment has gone.
CreateApplication(a, e) ==
    app' = With(app, a, [env |-> e, mode |-> [s \in Services |-> "follow_stack"]])

UpdateApplication(a, e, mode) ==
    app' = With(app, a, [env |-> e, mode |-> mode])

UpdateProjectRepository(p, r) == repo' = With(repo, p, r)

-----------------------------------------------------------------------------
\* A handler has read what it needs and will write as x says.
Begin(r, x) ==
    /\ req[r] = Idle
    /\ begun < MaxRequests
    /\ begun' = begun + 1
    /\ req' = [req EXCEPT ![r] = x]

End(r) == req' = [req EXCEPT ![r] = Idle]

createProject(p, e) ==
    /\ p \notin ids /\ e \notin ids
    /\ CreateProjectWithDefaultEnvironments(p, e)
    /\ UNCHANGED <<app, req, begun, removed>>

\* deleteProject: services of the project are an error.
deleteProject(r, p) ==
    /\ p \in DOMAIN repo
    /\ \A e \in EnvsOf(p) : AppsIn(e) = {}
    /\ Begin(r, [op |-> "deleteProject", project |-> p])
    /\ UNCHANGED <<tree, ids, removed>>

deleteProjectRow(r) ==
    /\ req[r].op = "deleteProject"
    /\ DeleteProject(req[r].project)
    /\ End(r)
    /\ UNCHANGED <<begun, ids, removed>>

createEnvironment(r, p, kind) ==
    /\ p \in DOMAIN repo
    /\ Begin(r, [op |-> "createEnvironment", project |-> p, kind |-> kind])
    /\ UNCHANGED <<tree, ids, removed>>

insertEnvironment(r, e) ==
    /\ req[r].op = "createEnvironment"
    /\ e \notin ids
    /\ CreateEnvironment(e, req[r].project, req[r].kind)
    /\ End(r)
    /\ UNCHANGED <<repo, app, begun, removed>>

\* Mutant: any environment may be deleted.
AnyKind(kind) == TRUE

Deletable(kind) ==
    kind # "production"

deleteEnvironment(r, e) ==
    /\ e \in DOMAIN env
    /\ Deletable(env[e].kind)
    /\ Begin(r, [op |-> "deleteEnvironment", env |-> e])
    /\ UNCHANGED <<tree, ids, removed>>

deleteEnvironmentRow(r) ==
    /\ req[r].op = "deleteEnvironment"
    /\ DeleteEnvironment(req[r].env)
    /\ End(r)
    /\ UNCHANGED <<repo, begun, ids, removed>>

-----------------------------------------------------------------------------
createApplication(r, e) ==
    /\ e \in DOMAIN env
    /\ Begin(r, [op |-> "createApplication", env |-> e])
    /\ UNCHANGED <<tree, ids, removed>>

\* The insert, also of an import, which then gives a project without a
\* repository of record its own: without one when it was read.
insertApplication(r, a) ==
    /\ req[r].op \in {"createApplication", "import"}
    /\ a \notin ids
    /\ IF req[r].env \notin DOMAIN env
       THEN UNCHANGED <<repo, app, ids>>
       ELSE /\ CreateApplication(a, req[r].env)
            /\ ids' = ids \cup {a}
            /\ IF req[r].op = "import" /\ req[r].known = None
               THEN UpdateProjectRepository(env[req[r].env].project, req[r].repo)
               ELSE UNCHANGED repo
    /\ End(r)
    /\ UNCHANGED <<env, begun, removed>>

\* importGitHubRepositoryServices up to its transaction.
importGitHubRepositoryServices(r, e, source) ==
    /\ e \in DOMAIN env
    /\ Begin(r, [op |-> "import", env |-> e, repo |-> source,
                 known |-> repo[env[e].project]])
    /\ UNCHANGED <<tree, ids, removed>>

\* mergeServiceExecutionModes: the modes as read, with those asked for.
mergeServiceExecutionModes(mode, asked) ==
    [s \in Services |-> IF s \in DOMAIN asked THEN asked[s] ELSE mode[s]]

validServiceExecutionMode(mode) ==
    mode \in Modes

updateApplication(r, a, e, asked) ==
    /\ a \in DOMAIN app
    /\ e \in DOMAIN env
    /\ \A s \in DOMAIN asked : validServiceExecutionMode(asked[s])
    /\ Begin(r, [op |-> "updateApplication", app |-> a, env |-> e, asked |-> asked,
                 mode |-> mergeServiceExecutionModes(app[a].mode, asked)])
    /\ UNCHANGED <<tree, ids, removed>>

updateApplicationRow(r) ==
    /\ req[r].op = "updateApplication"
    /\ IF req[r].app \in DOMAIN app /\ req[r].env \in DOMAIN env
       THEN UpdateApplication(req[r].app, req[r].env, req[r].mode)
       ELSE UNCHANGED app
    /\ End(r)
    /\ UNCHANGED <<repo, env, begun, ids, removed>>

\* The last step of deleteApplication (ServiceRemoval).
deleteApplication(a) ==
    /\ a \in DOMAIN app
    /\ app' = Without(app, {a})
    /\ removed' = removed \cup {a}
    /\ UNCHANGED <<repo, env, req, begun, ids>>

\* The connector is looked up first; a blank repository disconnects.
updateProjectRepository(r, p, source) ==
    /\ Begin(r, [op |-> "updateProjectRepository", project |-> p, repo |-> source])
    /\ UNCHANGED <<tree, ids, removed>>

updateProjectRepositoryRow(r) ==
    /\ req[r].op = "updateProjectRepository"
    /\ IF req[r].project \in DOMAIN repo
       THEN UpdateProjectRepository(req[r].project, req[r].repo)
       ELSE UNCHANGED repo
    /\ End(r)
    /\ UNCHANGED <<env, app, begun, ids, removed>>

-----------------------------------------------------------------------------
Init ==
    /\ repo = [p \in {} |-> None]
    /\ env = [e \in {} |-> None]
    /\ app = [a \in {} |-> None]
    /\ req = [r \in Requests |-> Idle]
    /\ begun = 0
    /\ ids = {} /\ removed = {}

Asked == {[s \in {} |-> "singleton"]} \cup UNION {[{s} -> Modes \cup {"other"}] : s \in Services}

Next ==
    \/ \E p \in Projects, e \in Envs : createProject(p, e)
    \/ \E a \in Apps : deleteApplication(a)
    \/ \E r \in Requests :
        \/ \E p \in Projects :
            \/ deleteProject(r, p)
            \/ \E kind \in Kinds : createEnvironment(r, p, kind)
            \/ \E source \in Repos \cup {None} : updateProjectRepository(r, p, source)
        \/ \E e \in Envs :
            \/ insertEnvironment(r, e) \/ deleteEnvironment(r, e)
            \/ createApplication(r, e)
            \/ \E source \in Repos : importGitHubRepositoryServices(r, e, source)
            \/ \E a \in Apps, asked \in Asked : updateApplication(r, a, e, asked)
        \/ \E a \in Apps : insertApplication(r, a)
        \/ deleteProjectRow(r) \/ deleteEnvironmentRow(r)
        \/ updateApplicationRow(r) \/ updateProjectRepositoryRow(r)

Spec == Init /\ [][Next]_vars

-----------------------------------------------------------------------------
\* The type invariant of the module.
TypeOK ==
    /\ DOMAIN repo \subseteq Projects /\ \A p \in DOMAIN repo : repo[p] \in Repos \cup {None}
    /\ DOMAIN env \subseteq Envs
    /\ \A e \in DOMAIN env : env[e].project \in Projects /\ env[e].kind \in Kinds
    /\ DOMAIN app \subseteq Apps
    /\ \A a \in DOMAIN app : app[a].env \in Envs /\ app[a].mode \in [Services -> Modes]
    /\ ids \subseteq Projects \cup Envs \cup Apps

\* Whatever two requests have checked before they write, a service is always
\* in an environment that exists, and that in a project that exists.
NothingDangles ==
    /\ \A a \in DOMAIN app : app[a].env \in DOMAIN env
    /\ \A e \in DOMAIN env : env[e].project \in DOMAIN repo

\* A project keeps a production environment as long as it exists.
ProductionStays ==
    \A p \in DOMAIN repo : \E e \in EnvsOf(p) : env[e].kind = "production"

\* A service disappears only through its own deletion, which stops its
\* containers: deleting a project or an environment never takes one along.
ServicesAreNotSwept ==
    \A a \in Apps \cap ids : a \in DOMAIN app \/ a \in removed
=============================================================================
