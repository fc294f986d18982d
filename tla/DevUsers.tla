------------------------------- MODULE DevUsers -------------------------------
(* The developer users of a server.  A request reads the list from the        *)
(* database, changes it, writes the whole list into a file on the host, runs  *)
(* a provisioning script there and stores the list.  Nothing serialises two   *)
(* requests, a script may stop after any of its commands, and a request that  *)
(* times out leaves its script running.                                       *)
EXTENDS Naturals, FiniteSets

CONSTANTS
    Names,       \* user names a request may carry
    Users,       \* those that are valid Linux user names
    Seed,        \* the list the migration filled in
    Callers,     \* request goroutines
    MaxCalls, MaxFaults

ASSUME UsersAssumption ==
    /\ Users \subseteq Names
    /\ Seed \subseteq Users
    /\ MaxCalls \in Nat /\ MaxFaults \in Nat

VARIABLES
    db,        \* server_dev_sudo_users
    file,      \* dev-sudo-users.txt on the host
    sudoers,   \* users of /etc/sudoers.d/90-prosights-devs
    groups,    \* users in the groups sudo, docker and deployers
    call,      \* [request -> where it is and what it has read]
    calls, faults,
    overlap,   \* requests that have met another one
    settled,   \* the last request ran alone and succeeded
    leaked     \* users a request granted that failed or met another

usersVars == <<db, file, sudoers, groups, call, calls, faults, overlap, settled, leaked>>
host == <<file, sudoers, groups>>

PCs == {"idle", "install", "provision", "grant", "revoke", "persist"}
NoCall == [pc |-> "idle", want |-> {}, desired |-> {}, old |-> {}, todo |-> {},
         persist |-> FALSE]
Active == {r \in Callers : call[r].pc # "idle"}

-----------------------------------------------------------------------------
\* The list as a request changes it.

normalizeDevUsername(name) ==
    name \in Users

addDevUser(users, u) == users \cup {u}
removeDevUser(users, u) == users \ {u}
replaceDevUser(users, u, v) == (users \ {u}) \cup {v}

readServerDevUsers == db

\* Mutant: users that are no longer wanted stay in the table.
InsertOnly(users) == db' = db \cup users

ReplaceServerDevSudoUsers(users) ==
    db' = users

-----------------------------------------------------------------------------
\* A request begins with the list it wants the server to have.
BeginCall(r, users, persist) ==
    /\ call[r].pc = "idle"
    /\ calls < MaxCalls
    /\ calls' = calls + 1
    /\ call' = [call EXCEPT ![r] = [NoCall EXCEPT !.pc = "install", !.want = users,
                                                  !.persist = persist]]
    /\ overlap' = IF Active = {} THEN overlap \ {r} ELSE overlap \cup Active \cup {r}
    /\ settled' = FALSE
    /\ UNCHANGED <<db, host, faults, leaked>>

addServerDevUser(r, u) ==
    /\ normalizeDevUsername(u)
    /\ BeginCall(r, addDevUser(readServerDevUsers, u), TRUE)

updateServerDevUser(r, u, v) ==
    /\ normalizeDevUsername(u) /\ normalizeDevUsername(v)
    /\ u \in readServerDevUsers
    /\ BeginCall(r, replaceDevUser(readServerDevUsers, u, v), TRUE)

deleteServerDevUser(r, u) ==
    /\ normalizeDevUsername(u)
    /\ BeginCall(r, removeDevUser(readServerDevUsers, u), TRUE)

\* Applying the list as it is stores nothing.
applyServerDevUsers(r) == BeginCall(r, readServerDevUsers, FALSE)

\* The end of a request; what it granted may outlive it unless all went well.
EndCall(r, ok) ==
    /\ call' = [call EXCEPT ![r] = NoCall]
    /\ settled' = (ok /\ r \notin overlap)
    /\ leaked' = IF ok /\ r \notin overlap THEN leaked ELSE leaked \cup call[r].desired

-----------------------------------------------------------------------------
\* devUsersApplyScript: the list and the script are installed ...
InstallFile(r) ==
    /\ call[r].pc = "install"
    /\ file' = call[r].want
    /\ call' = [call EXCEPT ![r].pc = "provision"]
    /\ UNCHANGED <<db, sudoers, groups, calls, faults, overlap, settled, leaked>>

\* Mutant: the users to revoke are looked for in the file just installed.
OldInFile == file

\* The users who have had access so far, from the sudoers file.
OldUsers ==
    sudoers

\* ... and devUsersProvisionScript reads what is there now.
Provision(r) ==
    /\ call[r].pc = "provision"
    /\ call' = [call EXCEPT ![r] = [@ EXCEPT !.pc = "grant", !.desired = file,
                                           !.todo = file, !.old = OldUsers]]
    /\ UNCHANGED <<db, host, calls, faults, overlap, settled, leaked>>

\* useradd and usermod -aG sudo,docker,deployers for one user of the file.
Grant(r, u) ==
    /\ call[r].pc = "grant"
    /\ u \in call[r].todo
    /\ groups' = groups \cup {u}
    /\ call' = [call EXCEPT ![r].todo = @ \ {u}]
    /\ UNCHANGED <<db, file, sudoers, calls, faults, overlap, settled, leaked>>

Granted(r) ==
    /\ call[r].pc = "grant"
    /\ call[r].todo = {}
    /\ call' = [call EXCEPT ![r] = [@ EXCEPT !.pc = "revoke", !.todo = call[r].old \ call[r].desired]]
    /\ UNCHANGED <<db, host, calls, faults, overlap, settled, leaked>>

\* gpasswd -d for one user who had access and is not in the file.
Revoke(r, u) ==
    /\ call[r].pc = "revoke"
    /\ u \in call[r].todo
    /\ groups' = groups \ {u}
    /\ call' = [call EXCEPT ![r].todo = @ \ {u}]
    /\ UNCHANGED <<db, file, sudoers, calls, faults, overlap, settled, leaked>>

\* install the new sudoers file; visudo -cf looks at it afterwards.
InstallSudoers(r) ==
    /\ call[r].pc = "revoke"
    /\ call[r].todo = {}
    /\ sudoers' = call[r].desired
    /\ call' = [call EXCEPT ![r].pc = "persist"]
    /\ UNCHANGED <<db, file, groups, calls, faults, overlap, settled, leaked>>

Persist(r) ==
    /\ call[r].pc = "persist"
    /\ call[r].persist
    /\ ReplaceServerDevSudoUsers(call[r].want)
    /\ EndCall(r, TRUE)
    /\ UNCHANGED <<host, calls, faults, overlap>>

\* An apply, or a request whose client has gone: the list the host has got is
\* the table's only if the request did not mean to change it.
Applied(r) ==
    /\ call[r].pc = "persist"
    /\ ~call[r].persist
    /\ EndCall(r, db = call[r].want)
    /\ UNCHANGED <<db, host, calls, faults, overlap>>

-----------------------------------------------------------------------------
Fault ==
    /\ faults < MaxFaults
    /\ faults' = faults + 1

\* A command of the script, or the statement after it, fails.
Fails(r) ==
    /\ r \in Active
    /\ Fault
    /\ EndCall(r, FALSE)
    /\ UNCHANGED <<db, host, calls, overlap>>

\* The operation times out: the client is answered with an error, nothing
\* will be stored, and the script goes on.
TimesOut(r) ==
    /\ r \in Active
    /\ call[r].pc # "persist" /\ call[r].persist
    /\ Fault
    /\ call' = [call EXCEPT ![r].persist = FALSE]
    /\ UNCHANGED <<db, host, calls, overlap, settled, leaked>>

UsersInit ==
    /\ db = Seed
    /\ file = {} /\ sudoers = {} /\ groups = {}
    /\ call = [r \in Callers |-> NoCall]
    /\ calls = 0 /\ faults = 0
    /\ overlap = {} /\ settled = FALSE /\ leaked = {}

UsersNext ==
    \E r \in Callers :
        \/ \E u \in Names : addServerDevUser(r, u) \/ deleteServerDevUser(r, u)
        \/ \E u, v \in Names : updateServerDevUser(r, u, v)
        \/ applyServerDevUsers(r)
        \/ InstallFile(r) \/ Provision(r) \/ Granted(r) \/ InstallSudoers(r)
        \/ \E u \in Names : Grant(r, u) \/ Revoke(r, u)
        \/ Persist(r) \/ Applied(r) \/ Fails(r) \/ TimesOut(r)

UsersSpec == UsersInit /\ [][UsersNext]_usersVars

-----------------------------------------------------------------------------
\* The type invariant of the module.
UsersTypeOK ==
    /\ db \subseteq Users /\ file \subseteq Users
    /\ sudoers \subseteq Users /\ groups \subseteq Users
    /\ call \in [Callers -> [pc : PCs, want : SUBSET Users, desired : SUBSET Users,
                             old : SUBSET Users, todo : SUBSET Users, persist : BOOLEAN]]
    /\ calls \in 0 .. MaxCalls /\ faults \in 0 .. MaxFaults
    /\ overlap \subseteq Callers /\ settled \in BOOLEAN /\ leaked \subseteq Users

\* Whatever earlier requests, failures and timeouts have left behind, one
\* request that runs alone and succeeds makes the table, the file and the
\* sudoers file equal, and gives every user in them the groups.
SettledAgrees ==
    settled => /\ db = file /\ file = sudoers
               /\ sudoers \subseteq groups

\* After such a request nobody keeps the groups without being on the list,
\* except users of a request that failed, timed out or met another one: the
\* script revokes only what the sudoers file records.
AccessIsRevoked ==
    settled => groups \subseteq sudoers \cup leaked
=============================================================================
