-------------------------- MODULE ConnectorAccounts --------------------------
(* The GitHub connector account: its row holds the build targets of every     *)
(* repository, and four handlers write it.  An operator saves it as a whole;  *)
(* the installation callback and the repository sync list the repositories of *)
(* the GitHub App page by page and then save it; a credential sync reads it,  *)
(* imports a credential per repository and marks the outcome.  None of them   *)
(* holds a lock between its read and its write.                               *)
(*                                                                            *)
(* The import is a transaction of CredentialInventory, where it competes with *)
(* the inventory endpoints for the same rows.                                 *)
EXTENDS CredentialInventory, SequencesExt

CONSTANTS
    Repos,      \* each is the credential of its access
    BuildApps,
    NoTarget,      \* an entry that gives access and no build target
    NoAccount,
    Access,     \* the fact that a repository is used for builds
    Configs,    \* the repositories an operator may save
    PerPage,    \* repositories per page of the listing: 100 in the code
    MaxSaves, MaxChanges

Entries == [repo : Repos, app : BuildApps \cup {NoTarget}, filled : BOOLEAN]
AccountRows == [enabled : BOOLEAN, installed : BOOLEAN, config : Seq(Entries),
                status : {None, "ok", "failed"}]

ASSUME ConnectorAssumption ==
    /\ PerPage \in Nat \ {0}
    /\ Repos \subseteq Creds /\ Access \in Facts /\ Configs \subseteq Seq(Entries)
    /\ None \notin {"ok", "failed"} /\ NoAccount \notin AccountRows
    /\ MaxSaves \in Nat /\ MaxChanges \in Nat /\ MaxFaults \in Nat

VARIABLES
    account,    \* the row of connector_accounts: github / GitHub
    listed,     \* the repositories of the installation, in GitHub's order
    req,        \* [request -> what it has read and where it is]
    saves, changes,
    stale,      \* requests whose account or listing changed under them
    unsure      \* the status was marked by a stale request

accounts == <<account, listed, req, saves, changes, stale, unsure>>
connectorVars == <<accounts, inventory, faults>>

NoRequest == [op |-> None, pc |-> "idle", page |-> 0, read |-> NoAccount, got |-> <<>>]
Active == {r \in Requests : req[r].pc # "idle"}

Unused(r) == req[r].pc = "idle" /\ tx[r].pc = "idle"

\* The targets of a configuration: which application is built from what.
Targets(config) == {<<e.repo, e.app>> : e \in {x \in Range(config) : x.app # NoTarget}}

-----------------------------------------------------------------------------
\* Mutant: the status of the last sync survives a change of the account.
KeepStatus(enabled, installed, config) ==
    account' = [enabled |-> enabled, installed |-> installed, config |-> config,
                status |-> IF account = NoAccount THEN None ELSE account.status]

\* UpsertConnectorAccount: a change of enabled or config clears the status.
UpsertConnectorAccount(enabled, installed, config) ==
    LET same == account # NoAccount /\ account.enabled = enabled
                    /\ account.installed = installed /\ account.config = config
    IN  account' = [enabled |-> enabled, installed |-> installed, config |-> config,
                    status |-> IF same THEN account.status ELSE None]

MarkConnectorSync(outcome) == account' = [account EXCEPT !.status = outcome]

\* What a write of the account does to the others under way.
Overtakes(r) ==
    stale' = (IF account' = account THEN stale ELSE stale \cup Active) \ {r}

End(r) == req' = [req EXCEPT ![r] = NoRequest]

-----------------------------------------------------------------------------

\* normalizeConnectorAccount: a GitHub account needs one or the other.
validateConnectorConfig(installed, config) ==
    installed \/ config # <<>>

upsertConnector(enabled, installed, config) ==
    /\ saves < MaxSaves
    /\ validateConnectorConfig(installed, config)
    /\ saves' = saves + 1
    /\ UpsertConnectorAccount(enabled, installed, config)
    /\ stale' = IF account' = account THEN stale ELSE stale \cup Active
    /\ unsure' = (unsure /\ account' = account)
    /\ UNCHANGED <<listed, req, changes, faults>>

-----------------------------------------------------------------------------
\* The GitHub App's listing.
githubInstallCallback(r) ==
    /\ Unused(r)
    /\ saves < MaxSaves
    /\ saves' = saves + 1
    /\ req' = [req EXCEPT ![r] = [NoRequest EXCEPT !.op = "install", !.pc = "list"]]
    /\ stale' = stale \ {r}
    /\ UNCHANGED <<account, listed, changes, faults, unsure>>

syncGitHubConnectorRepositories(r) ==
    /\ Unused(r)
    /\ saves < MaxSaves
    /\ account # NoAccount /\ account.installed
    /\ saves' = saves + 1
    /\ req' = [req EXCEPT ![r] = [NoRequest EXCEPT !.op = "sync", !.pc = "list", !.read = account]]
    /\ stale' = stale \ {r}
    /\ UNCHANGED <<account, listed, changes, faults, unsure>>

\* One page; the Link header says whether there is another.
ListInstallationRepositories(r) ==
    LET from == req[r].page * PerPage
        more == Len(listed) > from + PerPage
    IN  /\ req[r].pc = "list"
        /\ req' = [req EXCEPT
             ![r].got = @ \o SubSeq(listed, from + 1, IF more THEN from + PerPage ELSE Len(listed)),
             ![r].page = @ + 1,
             ![r].pc = IF more THEN "list" ELSE "write"]
        /\ UNCHANGED <<account, listed, saves, changes, faults, stale, unsure>>

\* The entries of a repository, with the defaults ParseConfig gave them.
EntriesOf(repo, existing) ==
    FlattenSeq([k \in DOMAIN existing |->
        IF existing[k].repo = repo THEN <<[existing[k] EXCEPT !.filled = TRUE]>> ELSE <<>>])

NewEntry(repo) == [repo |-> repo, app |-> NoTarget, filled |-> FALSE]

\* Mutant: one entry per repository is kept, the first.
FirstEntries(repos, existing) ==
    [i \in DOMAIN repos |-> Head(EntriesOf(repos[i], existing) \o <<NewEntry(repos[i])>>)]

\* githubConfigFromInstallationRepositoriesWithDefaults: the entries of a
\* repository that is listed are kept.
ConfigWithDefaults(repos, existing) ==
    FlattenSeq([i \in DOMAIN repos |->
        LET previous == EntriesOf(repos[i], existing)
        IN  IF previous = <<>> THEN <<NewEntry(repos[i])>> ELSE previous])

\* The end of both: refused when nothing was listed.
SaveListing(r) ==
    LET sync     == req[r].op = "sync"
        existing == IF sync THEN req[r].read.config ELSE <<>>
        config   == ConfigWithDefaults(req[r].got, existing)
    IN  /\ req[r].pc = "write"
        /\ IF config = <<>> THEN UNCHANGED account
           ELSE UpsertConnectorAccount(~sync \/ req[r].read.enabled, TRUE, config)
        /\ End(r)
        /\ Overtakes(r)
        /\ unsure' = (unsure /\ account' = account)
        /\ UNCHANGED <<listed, saves, changes, faults>>

-----------------------------------------------------------------------------
\* The credential sync of a connector.
syncConnector(r) ==
    /\ Unused(r)
    /\ saves < MaxSaves
    /\ account # NoAccount /\ account.enabled
    /\ saves' = saves + 1
    /\ req' = [req EXCEPT ![r] = [NoRequest EXCEPT !.op = "creds", !.pc = "collect", !.read = account]]
    /\ stale' = stale \ {r}
    /\ UNCHANGED <<account, listed, changes, faults, unsure>>

\* RepositoriesFromConfig fails for a configuration without repositories.
RepositoriesFromConfig(config) ==
    config # <<>>

\* toCredentialInventory of every entry.  The code drops a repeated repository here;
\* in the batch the merge makes one item of its equal ones.
SyncCredentials(config) ==
    [i \in DOMAIN config |-> [cred |-> config[i].repo, status |-> "active", facts |-> {Access}]]

\* The batch is made and its transaction starts.
ImportCredentials(r) ==
    /\ req[r].pc = "collect"
    /\ RepositoriesFromConfig(req[r].read.config)
    /\ BeginBatch(r, SyncCredentials(req[r].read.config))
    /\ req' = [req EXCEPT ![r].pc = "import"]
    /\ UNCHANGED <<account, listed, saves, changes, faults, stale, unsure, imports>>

Outcome(r, pc) ==
    /\ req' = [req EXCEPT ![r].pc = pc]
    /\ UNCHANGED <<account, listed, saves, changes, stale, unsure>>

\* Nothing to import, or making the batch fails.
CollectFails(r) ==
    /\ req[r].pc = "collect"
    /\ \/ ~RepositoriesFromConfig(req[r].read.config) /\ UNCHANGED faults
       \/ faults < MaxFaults /\ faults' = faults + 1
    /\ Outcome(r, "failed")

\* upsertCredentialInventoryBatch returns.
ImportEnds(r) ==
    Commit(r, "idle") /\ Outcome(r, "ok")

\* It returns an error, perhaps because the answer to the commit was lost.
ImportFails(r) ==
    (Rollback(r) \/ DeadlockDetected(r) \/ Commit(r, "idle")) /\ Outcome(r, "failed")

markConnectorSync(r) ==
    /\ req[r].pc \in {"ok", "failed"}
    /\ MarkConnectorSync(req[r].pc)
    /\ End(r)
    /\ unsure' = (r \in stale)
    /\ stale' = stale \ {r}
    /\ UNCHANGED <<listed, saves, changes, faults>>

\* A call of a request fails, to GitHub or to the database.
RequestFails(r) ==
    /\ req[r].pc \notin {"idle", "import"}
    /\ faults < MaxFaults
    /\ faults' = faults + 1
    /\ End(r)
    /\ UNCHANGED <<account, listed, saves, changes, stale, unsure>>

\* GitHub (external): a repository joins or leaves the installation.
RepositoryListed(repo) ==
    /\ changes < MaxChanges
    /\ changes' = changes + 1
    /\ listed' = IF repo \in Range(listed)
                 THEN RemoveAt(listed, CHOOSE i \in DOMAIN listed : listed[i] = repo)
                 ELSE Append(listed, repo)
    /\ stale' = stale \cup Active
    /\ UNCHANGED <<account, req, saves, faults, unsure>>

-----------------------------------------------------------------------------
ConnectorsInit ==
    /\ account = NoAccount
    /\ listed \in {s \in UNION {[1 .. n -> Repos] : n \in 0 .. Cardinality(Repos)} :
                      \A i, j \in DOMAIN s : s[i] = s[j] => i = j}
    /\ req = [r \in Requests |-> NoRequest]
    /\ saves = 0 /\ changes = 0 /\ faults = 0
    /\ stale = {} /\ unsure = FALSE
    /\ InventoryInit

\* Steps of the account alone.
AccountStep ==
    /\ \/ \E enabled, installed \in BOOLEAN : \E config \in Configs :
            upsertConnector(enabled, installed, config)
       \/ \E repo \in Repos : RepositoryListed(repo)
       \/ \E r \in Requests :
            \/ githubInstallCallback(r) \/ syncGitHubConnectorRepositories(r)
            \/ ListInstallationRepositories(r) \/ SaveListing(r)
            \/ syncConnector(r) \/ CollectFails(r)
            \/ markConnectorSync(r) \/ RequestFails(r)
    /\ UNCHANGED inventory

\* A request of an endpoint is in no account handler.  It marks nothing when the answer
\* to its commit was lost.
EndpointStep(r) ==
    /\ req[r].pc = "idle"
    /\ \/ Commit(r, "mark") \/ Commit(r, "idle") \/ markInventoryConnectorsSynced(r)
       \/ Rollback(r) \/ DeadlockDetected(r)
    /\ UNCHANGED accounts

Transaction(r) ==
    \/ Statement(r) /\ UNCHANGED accounts
    \/ EndpointStep(r)
    \/ req[r].pc = "import" /\ (ImportEnds(r) \/ ImportFails(r))

ConnectorsNext ==
    \/ AccountStep
    \/ \E key \in SshKeys, server \in Servers :
         CreateServerWithSSHInventory(key, server) /\ UNCHANGED accounts
    \/ \E r \in Requests :
         \/ ImportCredentials(r)
         \/ /\ req[r].pc = "idle"
            /\ \E batch \in Batches : upsertCredentialInventory(r, batch)
            /\ UNCHANGED accounts
         \/ Transaction(r)

ConnectorsSpec == ConnectorsInit /\ [][ConnectorsNext]_connectorVars

-----------------------------------------------------------------------------
\* The types of the accounts.
AccountTypes ==
    /\ account \in AccountRows \cup {NoAccount}
    /\ account # NoAccount => account.installed \/ account.config # <<>>
    /\ listed \in Seq(Repos)
    /\ req \in [Requests ->
         [op : {None, "install", "sync", "creds"}, page : Nat,
          pc : {"idle", "list", "write", "collect", "import", "ok", "failed"},
          read : AccountRows \cup {NoAccount}, got : Seq(Repos)]]
    /\ saves \in 0 .. MaxSaves /\ changes \in 0 .. MaxChanges /\ faults \in 0 .. MaxFaults
    /\ stale \subseteq Requests /\ unsure \in BOOLEAN

\* The type invariant of the module.
ConnectorTypes == AccountTypes /\ InventoryTypes

\* An account that shows a successful sync is enabled and every repository of
\* its present configuration has a credential in the inventory, however often
\* it was edited, disabled or synced before; only a sync that was overtaken by
\* an edit may claim more than it imported.
OkMeansImported ==
    (account # NoAccount /\ account.status = "ok" /\ ~unsure) =>
        /\ account.enabled
        /\ account.config # <<>>
        /\ \A e \in Range(account.config) : status[e.repo] # None

\* A repository sync keeps every build target of a repository that is still
\* listed, and leaves a disabled account disabled, when neither the account
\* nor the listing changed while it listed page after page.
SyncKeepsTargets ==
    [][\A r \in Requests :
          (/\ req[r].pc = "write" /\ req[r].op = "sync" /\ r \notin stale
           /\ req'[r].pc = "idle" /\ account' # account) =>
              /\ \A t \in Targets(account.config) :
                    t[1] \in Range(listed) => t \in Targets(account'.config)
              /\ account'.enabled = account.enabled]_connectorVars
=============================================================================
