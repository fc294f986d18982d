-------------------------- MODULE CredentialInventory --------------------------
(* Imports of the credential inventory: a batch of credentials with what each *)
(* may do and where it is used (its facts: credential_permissions and         *)
(* credential_usages) replaces what is stored, credential by credential, in   *)
(* one transaction.  Imports run concurrently: connector syncs, the inventory *)
(* endpoint and the object storage endpoint share this code.  Registering a   *)
(* server adds to what is stored of its SSH key, in one statement.            *)
(* Transactions are read committed: a statement sees what is committed when   *)
(* it starts, an upsert of a credential locks its row until the transaction   *)
(* ends.                                                                      *)
(*                                                                            *)
(* ConnectorAccounts extends this module with the connectors and composes the *)
(* two.                                                                       *)
EXTENDS Naturals, Sequences, FiniteSets

CONSTANTS
    Creds,      \* (provider, external_ref)
    SshKeys,    \* the credentials of provider ssh
    Facts,
    Servers,    \* names of servers: the fact that a server is reached with a key
    Statuses,   \* status strings an import may carry
    Batches,    \* the batches that may be sent: sequences of items
    Requests,   \* requests of the endpoints and of the connectors
    None,
    MaxImports, MaxFaults

ValidStatuses == {"revoked", "rotating", "unknown", "active"}

\* credentialStatusPriority
Priority(s) ==
    CASE s = "revoked" -> 4 [] s = "rotating" -> 3 [] s = "unknown" -> 2
      [] s = "active" -> 1 [] OTHER -> 0

ASSUME BatchAssumption ==
    /\ Batches \subseteq Seq([cred : Creds, status : Statuses, facts : SUBSET Facts])
    /\ None \notin Requests /\ None \notin ValidStatuses
    /\ SshKeys \subseteq Creds /\ Servers \subseteq Facts

VARIABLES
    status,    \* credentials: [credential -> status or None], committed
    facts,     \* [credential -> facts], committed
    lock,      \* [credential -> the transaction that holds its row]
    tx,        \* [request -> its transaction]
    imports, faults,
    synced,    \* connector_accounts shows a successful inventory import
    last       \* [credential -> status and facts of its last committed import, with those
               \* of the servers registered since]

inventory == <<status, facts, lock, tx, imports, synced, last>>

NoTx == [pc |-> "idle", batch |-> <<>>, done |-> {}, gone |-> {}, put |-> {}]

-----------------------------------------------------------------------------
\* mergeCredentialInventoryItems: one item per credential.

validCredentialStatus(s) ==
    s \in ValidStatuses

SameCred(batch, c) == {batch[i] : i \in {i \in DOMAIN batch : batch[i].cred = c}}
CredsOf(batch) == {batch[i].cred : i \in DOMAIN batch}

mergedCredentialStatus(S) ==
    CHOOSE s \in S : \A t \in S : Priority(s) >= Priority(t)

mergeCredentialInventoryItems(batch) ==
    [c \in CredsOf(batch) |->
        [status |-> mergedCredentialStatus({x.status : x \in SameCred(batch, c)}),
         facts  |-> UNION {x.facts : x \in SameCred(batch, c)}]]

-----------------------------------------------------------------------------
\* The transaction of a batch starts.
BeginBatch(r, batch) ==
    /\ tx[r].pc = "idle"
    /\ tx' = [tx EXCEPT ![r] = [NoTx EXCEPT !.pc = "upsert", !.batch = batch]]
    /\ UNCHANGED <<status, facts, lock, synced, last>>

\* The two endpoints.  A batch is refused as a whole when an item is not valid.
upsertCredentialInventory(r, batch) ==
    /\ imports < MaxImports
    /\ imports' = imports + 1
    /\ IF \A i \in DOMAIN batch : validCredentialStatus(batch[i].status)
       THEN BeginBatch(r, batch)
       ELSE tx[r].pc = "idle" /\ UNCHANGED <<tx, status, facts, lock, synced, last>>
    /\ UNCHANGED faults

\* The merged items are stored one after the other, each at its first place.
Todo(r) == {i \in DOMAIN tx[r].batch : tx[r].batch[i].cred \notin tx[r].done}
ItemCred(r) == tx[r].batch[CHOOSE i \in Todo(r) : \A j \in Todo(r) : i <= j].cred
Item(r) == mergeCredentialInventoryItems(tx[r].batch)[ItemCred(r)]
Free(r, c) == lock[c] \in {None, r}

\* Mutant: the row is not locked, as with ON CONFLICT DO NOTHING.
NoLock(r) == UNCHANGED lock

LockRow(r) ==
    /\ Free(r, ItemCred(r))
    /\ lock' = [lock EXCEPT ![ItemCred(r)] = r]

\* INSERT INTO credentials ... ON CONFLICT DO UPDATE waits for the row.
UpsertCredential(r) ==
    /\ tx[r].pc = "upsert"
    /\ Todo(r) # {}
    /\ LockRow(r)
    /\ tx' = [tx EXCEPT ![r].pc = "delete"]
    /\ UNCHANGED <<status, facts, imports, faults, synced, last>>

\* DELETE of the permissions and usages that are visible now.
DeleteCredentialFacts(r) ==
    /\ tx[r].pc = "delete"
    /\ tx' = [tx EXCEPT ![r].pc = "insert",
                        ![r].gone = @ \cup {<<ItemCred(r), f>> : f \in facts[ItemCred(r)]}]
    /\ UNCHANGED <<status, facts, lock, imports, faults, synced, last>>

\* The item's permissions and usages are inserted; on to the next item.
UpsertCredentialFacts(r) ==
    /\ tx[r].pc = "insert"
    /\ tx' = [tx EXCEPT ![r].pc = "upsert",
                        ![r].put = @ \cup {<<ItemCred(r), f>> : f \in Item(r).facts},
                        ![r].done = @ \cup {ItemCred(r)}]
    /\ UNCHANGED <<status, facts, lock, imports, faults, synced, last>>

Release(r) ==
    lock' = [c \in Creds |-> IF lock[c] = r THEN None ELSE lock[c]]

\* The end of the transaction, and what the request does then.
Commit(r, then) ==
    LET merged == mergeCredentialInventoryItems(tx[r].batch)
        Seen(S, c) == {f \in Facts : <<c, f>> \in S}
    IN  /\ tx[r].pc = "upsert"
        /\ Todo(r) = {}
        /\ status' = [c \in Creds |-> IF c \in DOMAIN merged THEN merged[c].status ELSE status[c]]
        /\ facts' = [c \in Creds |-> (facts[c] \ Seen(tx[r].gone, c)) \cup Seen(tx[r].put, c)]
        /\ last' = [c \in Creds |->
             LET same == SameCred(tx[r].batch, c)
             IN  IF same = {} THEN last[c]
                 ELSE [statuses |-> {x.status : x \in same},
                       facts    |-> UNION {x.facts : x \in same}]]
        /\ Release(r)
        /\ tx' = [tx EXCEPT ![r] = [NoTx EXCEPT !.pc = then]]
        /\ UNCHANGED <<imports, faults, synced>>

\* After the commit; an error is ignored.
markInventoryConnectorsSynced(r) ==
    /\ tx[r].pc = "mark"
    /\ \/ synced' = TRUE /\ UNCHANGED faults
       \/ faults < MaxFaults /\ faults' = faults + 1 /\ UNCHANGED synced
    /\ tx' = [tx EXCEPT ![r] = NoTx]
    /\ UNCHANGED <<status, facts, lock, imports, last>>

\* createServer with a key.  The statement upserts the credential and adds a permission
\* and a usage to those there are; it waits for the row like an import.
CreateServerWithSSHInventory(key, server) ==
    /\ lock[key] = None
    /\ status' = [status EXCEPT ![key] = "active"]
    /\ facts' = [facts EXCEPT ![key] = @ \cup {server}]
    /\ last' = [last EXCEPT ![key] = [statuses |-> {"active"}, facts |-> @.facts \cup {server}]]
    /\ UNCHANGED <<lock, tx, imports, faults, synced>>

\* A statement fails: the deferred Rollback ends the transaction.
Rollback(r) ==
    /\ tx[r].pc \in {"upsert", "delete", "insert"}
    /\ faults < MaxFaults
    /\ faults' = faults + 1
    /\ Release(r)
    /\ tx' = [tx EXCEPT ![r] = NoTx]
    /\ UNCHANGED <<status, facts, imports, synced, last>>

\* PostgreSQL (external) ends a transaction of two that wait for each other.
Waits(r, s) ==
    /\ tx[r].pc = "upsert" /\ Todo(r) # {}
    /\ lock[ItemCred(r)] = s
DeadlockDetected(r) ==
    /\ \E s \in Requests \ {r} : Waits(r, s) /\ Waits(s, r)
    /\ Release(r)
    /\ tx' = [tx EXCEPT ![r] = NoTx]
    /\ UNCHANGED <<status, facts, imports, faults, synced, last>>

-----------------------------------------------------------------------------
InventoryInit ==
    /\ status = [c \in Creds |-> None]
    /\ facts = [c \in Creds |-> {}]
    /\ lock = [c \in Creds |-> None]
    /\ tx = [r \in Requests |-> NoTx]
    /\ imports = 0 /\ synced = FALSE
    /\ last = [c \in Creds |-> [statuses |-> {}, facts |-> {}]]

\* The statements of a transaction, for an endpoint and a connector alike.
Statement(r) ==
    UpsertCredential(r) \/ DeleteCredentialFacts(r) \/ UpsertCredentialFacts(r)

-----------------------------------------------------------------------------
GoodItems == [cred : Creds, status : ValidStatuses, facts : SUBSET Facts]
Transactions ==
    [pc : {"idle", "upsert", "delete", "insert", "mark"}, batch : Seq(GoodItems),
     done : SUBSET Creds, gone : SUBSET (Creds \X Facts), put : SUBSET (Creds \X Facts)]

\* The types of the inventory.
InventoryTypes ==
    /\ status \in [Creds -> ValidStatuses \cup {None}]
    /\ facts \in [Creds -> SUBSET Facts]
    /\ lock \in [Creds -> Requests \cup {None}]
    /\ tx \in [Requests -> Transactions]
    /\ synced \in BOOLEAN
    /\ last \in [Creds -> [statuses : SUBSET ValidStatuses, facts : SUBSET Facts]]

\* However imports and registrations of servers overlap, the facts of a credential
\* are those of one batch, the last committed, and of the servers registered with it
\* since: never a mixture of two batches, and no registration is lost to a batch that
\* began before it.  The status is that of the last of them; where a batch named the
\* credential several times, the most alarming of its statuses
\* (upsertCredentialInventoryBatch and CreateServerWithSSHInventory).
InventoryIsOneImport ==
    \A c \in Creds :
        /\ facts[c] = last[c].facts
        /\ \A s \in last[c].statuses :
             status[c] \in last[c].statuses /\ Priority(status[c]) >= Priority(s)

=============================================================================
