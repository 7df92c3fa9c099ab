--------------------------- MODULE PendingLedger ---------------------------
(***************************************************************************)
(* The ledger of reviewed inventory changes                                *)
(* (src/internal/inventorytransaction/transaction.go): what `host`, `keys  *)
(* remove` and `import-json` record, which recorded change needs which     *)
(* other one, and what `push` and `push --only` publish of it.             *)
(*                                                                         *)
(* A vault holds the local inventory, the recorded changes that were not   *)
(* published yet, and the inventory they start from.  A push projects the  *)
(* selected changes onto that base, keeps a durable intent while it talks  *)
(* to the server, and takes the published changes off the ledger only when *)
(* the server is known to hold them.  Any step may be the last one of its  *)
(* process, and commands go on changing the inventory in between.          *)
(*                                                                         *)
(* VaultSync models the same publication against other devices; here one   *)
(* device talks to its server and the contents of the changes matter.      *)
(***************************************************************************)
EXTENDS Integers, Sequences, FiniteSets

CONSTANTS
    Bases,              \* names as typed by the user
    Copies,             \* how many suffixed copies of a name an import may make
    Materials,          \* private keys are 1..Materials
    Fields,             \* everything else of a connection is one of 1..Fields
    HostChanges,        \* the `host` commands that may be given
    Imports,            \* the server lists that may be imported
    InitialInventories, \* inventories a device may start with
    MaxMutations,       \* changes recorded in one behaviour
    MaxPublications,    \* publications started in one behaviour
    MaxIntent           \* maxPublishingIntentTransactions

ASSUME LedgerBounds ==
    /\ {Copies, Materials, Fields, MaxIntent} \subseteq Nat \ {0}
    /\ {MaxMutations, MaxPublications} \subseteq Nat

VARIABLES
    vault,        \* [inv, base, hasBase, pending]: the local vault file
    remote,       \* [number, inv]: the blob the server holds
    intent,       \* the durable publishing intent
    publisher,    \* the process that is publishing, if any
    recorded,     \* changes recorded so far
    published,    \* publications started so far
    seen,         \* every way each alias has ever been reached locally
    refused       \* the last refused `push --only` and what it was told

ledgerVars ==
    <<vault, remote, intent, publisher, recorded, published, seen, refused>>

(***************************************************************************)
(* Inventories.                                                            *)
(***************************************************************************)
\* Aliases and saved keys share one space of names; <<"web", 2>> is web-2.
Names == Bases \X (1..Copies)

Password == <<"password", 0>>
NoAuth   == <<"none", 0>>
NoName   == <<"default", 0>>

Connection == [auth: Names \cup {Password}, fields: 1..Fields]
NoConnection == [auth |-> NoAuth, fields |-> 0]
Inventory == [conns: [Names -> Connection \cup {NoConnection}],
              keys:  [Names -> 0..Materials]]

Has(inv, alias) == inv.conns[alias] # NoConnection

References(inv, key) == {a \in Names : inv.conns[a].auth = key}

\* What reaching the alias uses: its fields and the secret behind its auth.
Reach(inv, alias) ==
    LET c == inv.conns[alias]
    IN  [fields |-> c.fields,
         secret |-> IF c.auth \in Names THEN <<"key", inv.keys[c.auth]>> ELSE c.auth]

(***************************************************************************)
(* Host changes: buildHostCandidate and what it calls.  A candidate that   *)
(* is refused has ok = FALSE and leaves the vault alone.                   *)
(***************************************************************************)
Refusal(inv) == [ok |-> FALSE, inv |-> inv]

RemoveHost(inv, change) ==
    LET auth == inv.conns[change.alias].auth
        gone == [inv EXCEPT !.conns[change.alias] = NoConnection]
        prune == change.prune /\ auth \in Names /\ References(gone, auth) = {}
    IN  [ok  |-> Has(inv, change.alias),
         inv |-> IF prune THEN [gone EXCEPT !.keys[auth] = 0] ELSE gone]

\* A key file: the named key, or the alias's own, or one named after the alias.
\* The same material is shared; a saved key is replaced only by its only user.
InstallHostKey(inv, change) ==
    LET current == inv.conns[change.alias].auth
        name == CASE change.keyName # NoName -> change.keyName
                  [] change.keyName = NoName /\ current \in Names -> current
                  [] OTHER -> change.alias
        ownedAlone == current = name /\ References(inv, name) \subseteq {change.alias}
    IN  [ok   |-> inv.keys[name] \in {0, change.material} \/ ownedAlone,
         auth |-> name,
         keys |-> [inv.keys EXCEPT ![name] = change.material]]

HostCredential(inv, change) ==
    LET with(ok, auth) == [ok |-> ok, auth |-> auth, keys |-> inv.keys]
    IN  CASE change.auth = "keep"     -> with(TRUE, inv.conns[change.alias].auth)
          [] change.auth = "password" -> with(TRUE, Password)
          [] change.auth = "saved"    -> with(inv.keys[change.keyName] # 0, change.keyName)
          [] change.auth = "file"     -> InstallHostKey(inv, change)

\* validateManagedConnection: some authentication, and a saved key that exists.
ManagedConnectionOK(connection, keys) ==
    /\ connection.auth # NoAuth
    /\ connection.auth \in Names => keys[connection.auth] # 0

SetHost(inv, change) ==
    LET exists == Has(inv, change.alias)
        credential == HostCredential(inv, change)
        fields == IF change.fields # 0 THEN change.fields ELSE inv.conns[change.alias].fields
        connection == [auth |-> credential.auth, fields |-> fields]
    IN  IF /\ change.action = "add" => ~exists
           /\ change.action = "update" => exists
           /\ credential.ok
           /\ ManagedConnectionOK(connection, credential.keys)
        THEN [ok |-> TRUE, inv |-> [conns |-> [inv.conns EXCEPT ![change.alias] = connection],
                                    keys  |-> credential.keys]]
        ELSE Refusal(inv)

BuildHostCandidate(inv, change) ==
    IF change.action = "remove" THEN RemoveHost(inv, change) ELSE SetHost(inv, change)

\* validateHostCommandOptions: what the command line lets through.
HostCommandOK(change) ==
    /\ change.action \in {"add", "upsert"} => change.fields # 0
    /\ change.action = "add" => change.auth # "keep"
    /\ change.action = "update" => change.fields # 0 \/ change.auth # "keep"

\* The commands as the command line hands them over.
HostChange == [action: {"add", "update", "upsert", "remove"}, alias: Names,
               auth: {"keep", "password", "saved", "file"}, keyName: Names \cup {NoName},
               material: 0..Materials, fields: 0..Fields, prune: BOOLEAN]
ImportServer == [name: Bases, material: 0..Materials, fields: 1..Fields, complete: BOOLEAN]

(***************************************************************************)
(* Imports: servers become connections one after the other; a name already *)
(* used gets the next free suffix, and equal key material shares one key.  *)
(***************************************************************************)
EmptyInventory == [conns |-> [n \in Names |-> NoConnection], keys |-> [n \in Names |-> 0]]

UniqueName(base, used) ==
    LET free == {i \in 1..Copies : <<base, i>> \notin used}
    IN  <<base, CHOOSE i \in free : \A j \in free : i <= j>>

ConvertImportServer(inv, server) ==
    LET name == UniqueName(server.name, {n \in Names : Has(inv, n)})
        sharing == {k \in Names : server.material # 0 /\ inv.keys[k] = server.material}
        key == IF sharing # {} THEN CHOOSE k \in sharing : TRUE ELSE name
        connect(auth) == [inv.conns EXCEPT ![name] = [auth |-> auth, fields |-> server.fields]]
    IN  IF server.material = 0
        THEN [inv EXCEPT !.conns = connect(Password)]
        ELSE [conns |-> connect(key), keys |-> [inv.keys EXCEPT ![key] = server.material]]

\* Incomplete servers are skipped.
LoadServerImport(servers) ==
    LET converted[n \in 0..Len(servers)] ==
            IF n = 0 THEN EmptyInventory
            ELSE IF servers[n].complete THEN ConvertImportServer(converted[n - 1], servers[n])
            ELSE converted[n - 1]
    IN  converted[Len(servers)]

ImportOK(inv) == \A a \in Names : Has(inv, a) => ManagedConnectionOK(inv.conns[a], inv.keys)

\* MergeVaultsWithReport: what the import names wins, the rest stays.
MergeVaults(local, imported) ==
    [conns |-> [n \in Names |-> IF Has(imported, n) THEN imported.conns[n] ELSE local.conns[n]],
     keys  |-> [n \in Names |-> IF imported.keys[n] # 0 THEN imported.keys[n] ELSE local.keys[n]]]

(***************************************************************************)
(* Recorded changes.                                                       *)
(***************************************************************************)
\* keyDelta: the keys that changed, with both values (0 is no key).
KeyDelta(before, after) ==
    [k \in {n \in Names : before.keys[n] # after.keys[n]} |->
        [before |-> before.keys[k], after |-> after.keys[k]]]

KeyChange(mutation, key) ==
    IF key \notin DOMAIN mutation.delta THEN "none"
    ELSE CASE mutation.delta[key].before = 0 -> "create"
           [] mutation.delta[key].after = 0 -> "delete"
           [] OTHER -> "replace"

ReferenceRemoved(mutation, key) ==
    mutation.before.auth = key /\ mutation.after.auth # key

ApplyMutation(inv, mutation) ==
    LET keys == [k \in Names |-> IF k \in DOMAIN mutation.delta
                                 THEN mutation.delta[k].after ELSE inv.keys[k]]
    IN  CASE mutation.kind = "bulk" -> mutation.bulk
          [] mutation.kind = "key"  -> [inv EXCEPT !.keys = keys]
          [] mutation.kind = "host" -> [conns |-> [inv.conns EXCEPT ![mutation.alias] = mutation.after],
                                        keys  |-> keys]

Replay(inv, mutations) ==
    LET after[n \in 0..Len(mutations)] ==
            IF n = 0 THEN inv ELSE ApplyMutation(after[n - 1], mutations[n])
    IN  after[Len(mutations)]

(***************************************************************************)
(* Which earlier change a recorded change needs.                           *)
(***************************************************************************)
\* A plausible bug: a key that only lost a reference is free to be replaced.
KeyDependencyIgnoresReferences(earlier, later) ==
    \/ \E k \in DOMAIN later.delta : KeyChange(earlier, k) # "none"
    \/ later.after.auth \in Names /\ KeyChange(earlier, later.after.auth) \in {"create", "replace"}

\* A plausible bug: using a key another change made needs nothing.
KeyDependencyIgnoresUse(earlier, later) ==
    \E k \in DOMAIN later.delta :
        \/ KeyChange(earlier, k) # "none"
        \/ KeyChange(later, k) \in {"replace", "delete"} /\ ReferenceRemoved(earlier, k)

\* The key rules: a key both touch, a key the later one changes and the
\* earlier one stopped using, a key the later one uses and the earlier made.
KeyDependency(earlier, later) ==
    \/ \E k \in DOMAIN later.delta :
        \/ KeyChange(earlier, k) # "none"
        \/ KeyChange(later, k) \in {"replace", "delete"} /\ ReferenceRemoved(earlier, k)
    \/ later.after.auth \in Names /\ KeyChange(earlier, later.after.auth) \in {"create", "replace"}

DirectDependencies(mutations, index) ==
    LET later == mutations[index]
    IN  {i \in 1..(index - 1) :
            \/ "bulk" \in {later.kind, mutations[i].kind}
            \/ /\ {later.kind, mutations[i].kind} = {"host"}
               /\ mutations[i].alias = later.alias
            \/ KeyDependency(mutations[i], later)}

\* A plausible bug: only what the selected change itself needs is reported.
DependenciesDirectOnly(mutations, selected) == DirectDependencies(mutations, selected)

\* dependencies: everything the selected change needs, however indirectly.
Dependencies(mutations, selected) ==
    LET needs[i \in 1..selected] ==
            LET direct == DirectDependencies(mutations, i)
            IN  direct \cup UNION {needs[j] : j \in direct}
    IN  needs[selected]

(***************************************************************************)
(* The vault's ledger.                                                     *)
(***************************************************************************)
ValidateLedger(v) ==
    /\ v.hasBase <=> v.pending # <<>>
    /\ \A i, j \in DOMAIN v.pending : v.pending[i].id = v.pending[j].id => i = j

Ids(mutations) == {mutations[i].id : i \in DOMAIN mutations}

PendingIndex(v, id) == CHOOSE i \in DOMAIN v.pending : v.pending[i].id = id

\* The changes with one of these IDs, in ledger order.
Selected(mutations, ids) ==
    LET kept[n \in 0..Len(mutations)] ==
            IF n = 0 THEN <<>>
            ELSE IF mutations[n].id \in ids THEN Append(kept[n - 1], mutations[n])
            ELSE kept[n - 1]
    IN  kept[Len(mutations)]

Without(mutations, ids) == Selected(mutations, Ids(mutations) \ ids)

\* Appending one change: the first one fixes the base the ledger starts from.
Record(v, after, mutation) ==
    [inv |-> after, hasBase |-> TRUE, pending |-> Append(v.pending, mutation),
     base |-> IF v.hasBase THEN v.base ELSE v.inv]

\* A plausible bug: the base stays where it was although changes left the ledger.
MarkPublishedKeepsBase(v, ids, projected) ==
    LET remaining == Without(v.pending, ids)
    IN  [v EXCEPT !.pending = remaining, !.hasBase = remaining # <<>>]

\* A plausible bug: a publication takes everything off the ledger.
MarkPublishedClearsLedger(v, ids, projected) ==
    [v EXCEPT !.pending = <<>>, !.hasBase = FALSE, !.base = v.inv]

\* markPublished; a base nobody needs any more is the inventory itself.
MarkPublished(v, ids, projected) ==
    LET remaining == Without(v.pending, ids)
    IN  [v EXCEPT !.pending = remaining, !.hasBase = remaining # <<>>,
                  !.base = IF remaining # <<>> THEN projected ELSE v.inv]

\* What a publication of these changes puts on the server.
Projected(v, ids) == Replay(v.base, Selected(v.pending, ids))

(***************************************************************************)
(* Commands that change the inventory.                                     *)
(***************************************************************************)
Remember(after) == seen' = [a \in Names |-> seen[a] \cup {Reach(after, a)}]

RecordChange(after, mutation) ==
    /\ recorded < MaxMutations
    /\ ValidateLedger(vault)
    /\ vault' = Record(vault, after, mutation)
    /\ recorded' = recorded + 1
    /\ Remember(after)
    /\ UNCHANGED <<remote, intent, publisher, published, refused>>

\* ApplyHost; an unchanged, unverified or refused candidate records nothing.
ApplyHost(change) ==
    LET candidate == BuildHostCandidate(vault.inv, change)
    IN  /\ candidate.ok /\ candidate.inv # vault.inv
        /\ RecordChange(candidate.inv,
            [id |-> recorded + 1, kind |-> "host", alias |-> change.alias,
             before |-> vault.inv.conns[change.alias],
             after |-> candidate.inv.conns[change.alias],
             delta |-> KeyDelta(vault.inv, candidate.inv), bulk |-> EmptyInventory])

RemoveSavedKey(key) ==
    LET after == [vault.inv EXCEPT !.keys[key] = 0]
    IN  /\ vault.inv.keys[key] # 0
        /\ References(vault.inv, key) = {}
        /\ RecordChange(after,
            [id |-> recorded + 1, kind |-> "key", alias |-> NoName,
             before |-> NoConnection, after |-> NoConnection,
             delta |-> KeyDelta(vault.inv, after), bulk |-> EmptyInventory])

\* An import is one change of the whole inventory, even if it changes nothing.
ApplyImport(imported, replace) ==
    LET after == IF replace THEN imported ELSE MergeVaults(vault.inv, imported)
    IN  /\ ImportOK(imported)
        /\ RecordChange(after,
            [id |-> recorded + 1, kind |-> "bulk", alias |-> NoName,
             before |-> NoConnection, after |-> NoConnection,
             delta |-> KeyDelta(vault.inv, after), bulk |-> after])

\* The commands.  Refreshing from the server first brings nothing new to the only
\* device that writes there; `host ... --push` goes on with PublishOnly.
HostCommand(change) == HostCommandOK(change) /\ ApplyHost(change)

KeysRemove(key) == RemoveSavedKey(key)

ImportJSON(servers, replace) == ApplyImport(LoadServerImport(servers), replace)

(***************************************************************************)
(* Publication.                                                            *)
(***************************************************************************)
NoIntent == [state |-> "none", scope |-> "none", ids |-> {}, target |-> 0, prerequisite |-> 0]
NoBlob == [number |-> 0, inv |-> EmptyInventory]
Idle == [pc |-> "idle", blob |-> NoBlob]

\* The intent is durable before anything is sent; one too large is not saved.
SaveIntent(scope, ids) ==
    /\ ids # {}
    /\ Cardinality(ids) <= MaxIntent
    /\ published < MaxPublications
    /\ published' = published + 1
    /\ intent' = [state |-> "prepared", scope |-> scope, ids |-> ids,
                  target |-> published + 1, prerequisite |-> remote.number]
    /\ publisher' = [pc |-> "prepared",
                     blob |-> [number |-> published + 1, inv |-> Projected(vault, ids)]]

\* Preflight lets one change go out alone only if it needs no pending one.
PublishOnly(id) ==
    LET required == Dependencies(vault.pending, PendingIndex(vault, id))
    IN  \/ /\ required = {}
           /\ SaveIntent("only", {id})
           /\ UNCHANGED refused
        \/ /\ required # {}
           /\ refused' = [id |-> id, required |-> {vault.pending[i].id : i \in required}]
           /\ intent' = NoIntent
           /\ UNCHANGED <<publisher, published>>

Publish ==
    /\ publisher = Idle /\ intent = NoIntent
    /\ ValidateLedger(vault)
    /\ \/ SaveIntent("all", Ids(vault.pending)) /\ UNCHANGED refused
       \/ \E id \in Ids(vault.pending) : PublishOnly(id)
    /\ UNCHANGED <<vault, remote, recorded, seen>>

\* PreparePublication reads the server again, or fails before anything was sent.
PreparePublication ==
    /\ publisher.pc = "prepared"
    /\ \/ /\ intent' = [intent EXCEPT !.state = "ready", !.prerequisite = remote.number]
          /\ publisher' = [publisher EXCEPT !.pc = "ready"]
       \/ intent' = NoIntent /\ publisher' = Idle
    /\ UNCHANGED <<vault, remote, recorded, published, seen, refused>>

\* SendPublication: stored and answered; refused; or stored or not, nobody knows.
SendPublication ==
    /\ publisher.pc = "ready"
    /\ \/ /\ remote' = publisher.blob
          /\ publisher' = [publisher EXCEPT !.pc = "answered"]
          /\ UNCHANGED intent
       \/ /\ intent' = NoIntent /\ publisher' = Idle
          /\ UNCHANGED remote
       \/ /\ remote' \in {remote, publisher.blob}
          /\ intent' = [intent EXCEPT !.state = "ambiguous"] /\ publisher' = Idle
    /\ UNCHANGED <<vault, recorded, published, seen, refused>>

\* finalizePublishingIntent: the changes leave the ledger, then the intent goes;
\* a second finalization finds the changes gone and only removes the intent.
\* Either half may fail, or be the last thing the process does.
FinalizePublishingIntent ==
    LET done == intent.ids \cap Ids(vault.pending) = {}
        clean == IF done THEN vault ELSE MarkPublished(vault, intent.ids, Projected(vault, intent.ids))
    IN  \/ vault' = clean /\ intent' = NoIntent
        \/ vault' \in {vault, clean} /\ intent' = [intent EXCEPT !.state = "finalization_failed"]
        \/ vault' \in {vault, clean} /\ UNCHANGED intent

Finalize ==
    /\ publisher.pc = "answered"
    /\ FinalizePublishingIntent
    /\ publisher' = Idle
    /\ UNCHANGED <<remote, recorded, published, seen, refused>>

Crash ==
    /\ publisher # Idle
    /\ publisher' = Idle
    /\ UNCHANGED <<vault, remote, intent, recorded, published, seen, refused>>

(***************************************************************************)
(* Recovery by the next status or push.                                    *)
(***************************************************************************)
\* The publication never happened: the intent goes, and a push of the same
\* scope starts again with the same changes, never with newer ones.
ReturnToPending ==
    \/ /\ intent' = NoIntent
       /\ UNCHANGED <<publisher, published, refused>>
    \/ /\ intent.scope = "all"
       /\ intent.ids \subseteq Ids(vault.pending)
       /\ SaveIntent("all", intent.ids)
       /\ UNCHANGED refused
    \/ \E id \in Ids(vault.pending) : intent.ids = {id} /\ PublishOnly(id)

Reconcile ==
    /\ publisher = Idle /\ intent # NoIntent
    /\ \/ /\ intent.state = "prepared"
          /\ ReturnToPending
          /\ UNCHANGED vault
       \/ /\ intent.state = "finalization_failed"
          /\ FinalizePublishingIntent
          /\ UNCHANGED <<publisher, published, refused>>
       \/ /\ intent.state \in {"ready", "ambiguous"}
          /\ \/ /\ remote.number = intent.target
                /\ FinalizePublishingIntent
                /\ UNCHANGED <<publisher, published, refused>>
             \/ /\ remote.number = intent.prerequisite
                /\ ReturnToPending
                /\ UNCHANGED vault
    /\ UNCHANGED <<remote, recorded, seen>>

\* What is given to the commands, and the inventory a device starts with: one whose
\* connections have their keys, as every command leaves it.
ASSUME LedgerInputs ==
    /\ HostChanges \subseteq HostChange
    /\ \A change \in HostChanges : change.auth = "saved" => change.keyName \in Names
    /\ Imports \subseteq Seq(ImportServer)
    /\ \A inv \in InitialInventories : inv \in Inventory /\ ImportOK(inv)

(***************************************************************************)
(* Specification.                                                          *)
(***************************************************************************)
Init ==
    \E inv \in InitialInventories :
        /\ vault = [inv |-> inv, base |-> inv, hasBase |-> FALSE, pending |-> <<>>]
        /\ remote = [number |-> 0, inv |-> inv]
        /\ intent = NoIntent /\ publisher = Idle
        /\ recorded = 0 /\ published = 0
        /\ seen = [a \in Names |-> {Reach(inv, a)}]
        /\ refused = [id |-> 0, required |-> {}]

Next ==
    \/ \E change \in HostChanges : HostCommand(change)
    \/ \E key \in Names : KeysRemove(key)
    \/ \E servers \in Imports, replace \in BOOLEAN : ImportJSON(servers, replace)
    \/ Publish
    \/ PreparePublication
    \/ SendPublication
    \/ Finalize
    \/ Crash
    \/ Reconcile

Spec == Init /\ [][Next]_ledgerVars

(***************************************************************************)
(* Properties.                                                             *)
(***************************************************************************)
\* Type invariant of the ledger, its intent and the server's blob.
TypeOK ==
    /\ vault.inv \in Inventory /\ vault.base \in Inventory
    /\ vault.hasBase \in BOOLEAN
    /\ Ids(vault.pending) \subseteq 1..recorded
    /\ remote.inv \in Inventory /\ remote.number \in 0..published
    /\ intent.state \in {"none", "prepared", "ready", "ambiguous", "finalization_failed"}
    /\ intent.ids \subseteq 1..recorded
    /\ publisher.pc \in {"idle", "prepared", "ready", "answered"}
    /\ recorded \in 0..MaxMutations /\ published \in 0..MaxPublications

\* The ledger always explains the inventory: replaying what is pending over the
\* base gives the local inventory, whatever was published, in whatever order,
\* in between (project, applyMutation, markPublished).
LedgerExplains ==
    /\ ValidateLedger(vault)
    /\ Replay(vault.base, vault.pending) = vault.inv

\* Nothing is lost and nothing is published twice: what the server holds and
\* the changes it does not hold yet make the local inventory, through lost
\* answers, crashes, failed finalizations and changes made meanwhile.
NothingLost ==
    LET stored == IF intent # NoIntent /\ remote.number = intent.target THEN intent.ids ELSE {}
    IN  Replay(remote.inv, Without(vault.pending, stored)) = vault.inv

\* The server never holds a host that cannot be reached the way its user set it
\* up: every published alias has fields and key material it had locally at some
\* time, never a missing key or another change's key (directDependencyEdges).
PublishedWasReviewed ==
    \A a \in Names : Reach(remote.inv, a) \in seen[a]

\* Publishing one host's change alone leaves every other host on the server as
\* it was, the material of its key included (Preflight).
OnlyTouchesItsAlias ==
    [][ remote' # remote /\ intent.scope = "only" =>
            \A id \in intent.ids, a \in Names :
                LET m == vault.pending[PendingIndex(vault, id)]
                IN  m.kind = "host" /\ a # m.alias => Reach(remote'.inv, a) = Reach(remote.inv, a)
      ]_ledgerVars

\* A refused push is told a plan that works: pushing the named changes one by
\* one in ledger order, and then the refused one, is never refused again
\* (dependencies and DependencyError.Required).
RefusalIsAPlan ==
    LET plan == (refused.required \cup {refused.id}) \cap Ids(vault.pending)
    IN  plan # {} =>
            LET first == CHOOSE id \in plan :
                            \A other \in plan : PendingIndex(vault, id) <= PendingIndex(vault, other)
            IN  DirectDependencies(vault.pending, PendingIndex(vault, first)) = {}

\* The ledger is a faithful account of what separates the local inventory from
\* its base (LedgerExplains) and from the server's blob (NothingLost), through
\* partial publications, crashes, lost answers and failed finalizations.
LedgerSound == LedgerExplains /\ NothingLost
=============================================================================
