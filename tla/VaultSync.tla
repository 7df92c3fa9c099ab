------------------------------ MODULE VaultSync ------------------------------
(***************************************************************************)
(* One ssm machine, the processes (CLI commands and detached background    *)
(* syncs) that share its configuration directory, and the sync server.     *)
(*                                                                         *)
(* An encrypted vault blob is named by its identity (SHA-256 of the bytes) *)
(* and every Save and every publication encrypts with a fresh salt, so a   *)
(* blob is written once: blobs[i] is the content of identity i, and files, *)
(* requests and evidence hold identities.  0 stands for "no blob" / "".    *)
(* Inventory content is abstracted to the set of transactions it contains: *)
(* base is the confirmed part, pend the pending ledger.                    *)
(*                                                                         *)
(* A step of a process is what it does between two points where another    *)
(* process, a crash or the network can intervene; sections under the vault *)
(* write lock that write one file are one step, those that write several   *)
(* (commitSuccess, finalization) are split between the writes.             *)
(***************************************************************************)
EXTENDS Naturals, Sequences, FiniteSets

CONSTANTS Procs,         \* concurrent ssm processes on this machine
          Tx,            \* transaction IDs this machine may mint
          Foreign,       \* transactions other machines may publish
          NoProc,        \* a lock or claim nobody holds
          Commands,      \* the commands the processes may run
          Starts,        \* initial situations, see Init
          MaxBlobs,      \* bound: encrypted blobs ever created
          MaxFaults,     \* bound: crashes, losses, timeouts, server errors
          MaxRestores,   \* bound: server restores from an old backup
          MaxSuperseded  \* maxSuperseded: length of sync-superseded.json

ASSUME NoProcAssumption == NoProc \notin Procs
ASSUME TxAssumption == Tx \cap Foreign = {}
ASSUME BoundsAssumption == /\ MaxBlobs \in Nat \ {0, 1}
                           /\ MaxFaults \in Nat
                           /\ MaxRestores \in Nat
                           /\ MaxSuperseded \in Nat \ {0}

VARIABLES
  \* Files of the configuration directory.
  local,       \* identity of connections.enc
  cached,      \* remote.etag: last confirmed remote identity
  conflict,    \* sync-conflict.json
  superseded,  \* sync-superseded.json
  maxSeen,     \* sync-generation.json
  intent,      \* publishing-intent.json
  claim,       \* sync-state.json: the process whose background claim is live
  \* Kernel locks.
  vaultLock, pubLock,
  \* Server and network.
  remote,      \* identity stored for the account
  inflight,    \* PUT requests the server has not yet handled
  \* Blobs.
  blobs, nblobs,
  \* Process memory.
  pc, cmd,
  loaded,      \* identity of the vault (or of its facts) when it was read
  seen,        \* cached remote identity when it was read
  got,         \* remote identity observed by HEAD or GET (expected, for adopt)
  body,        \* identity of the downloaded blob, 0 before the download
  want,        \* transaction IDs of a publication scope
  \* Bounds and observations.
  faults, restores,
  minted,      \* transactions saved so far by local mutations
  requested,   \* transactions some push command named or found pending
  published,   \* own transactions in some blob the server has stored
  everRemote,  \* identities the server has stored
  replaced,    \* identities replaced since the last reset and not confirmed or adopted again
  unrecorded,  \* those whose entry in the ledger a swallowed failure lost
  discarded,   \* <<t, c>>: command c overwrote pending t, not in the new blob
  revoked      \* background processes started before the last reset

disk == <<local, cached, conflict, superseded, maxSeen, intent, claim>>
locks == <<vaultLock, pubLock>>
net == <<remote, inflight>>
memory == <<pc, cmd, loaded, seen, got, body, want>>
ghosts == <<minted, requested, published, everRemote, replaced, unrecorded, discarded, revoked>>
vars == <<disk, locks, net, blobs, nblobs, memory, faults, restores, ghosts>>

Ids == 0..MaxBlobs
NoConflict == [local |-> 0, remote |-> 0, cached |-> 0]
NoIntent == [state |-> "none", scope |-> "all", ids |-> {}, target |-> 0, prereq |-> 0]
EmptyVault == [gen |-> 0, base |-> {}, pend |-> {}]

Blob == [gen : Nat, base : SUBSET (Tx \cup Foreign), pend : SUBSET Tx]
Conflict == [local : Ids, remote : Ids, cached : Ids]
IntentStates == {"none", "prepared", "ready", "ambiguous", "divergent", "finalization_failed"}
Intent == [state : IntentStates, scope : {"all", "only"}, ids : SUBSET Tx, target : Ids, prereq : Ids]
Request == [blob : Ids, prereq : Ids, proc : Procs]

Pushes == {"push_all", "push_only"}
Pulls == {"sync", "pull", "login", "background"}
Cmds == {"none", "mutate", "status", "adopt"} \cup Pushes \cup Pulls

\* Labels of a publication from the PUT's confirmation on.
FinalLabels == {"finalize", "confirm", "confirm_etag", "confirm_clear", "confirm_intent"}
PutLabels == {"await", "put_ok", "put_conflict", "put_rejected"}
PubLabels == {"reconcile", "project", "verify_empty", "prepare", "send"}
             \cup PutLabels \cup FinalLabels
CommitLabels == {"commit", "commit_etag", "commit_clear"}
PullLabels == {"reset", "facts", "head", "check", "rollback", "decision", "fetch",
               "adopt_fetch", "install", "record"} \cup CommitLabels
Labels == {"idle", "save"} \cup PubLabels \cup PullLabels

FilesOK ==
  /\ local \in Ids /\ cached \in Ids
  /\ conflict \in Conflict
  /\ superseded \in Seq(Ids)
  /\ maxSeen \in Nat
  /\ intent \in Intent
  /\ claim \in Procs \cup {NoProc}
LocksOK == vaultLock \in Procs \cup {NoProc} /\ pubLock \in Procs \cup {NoProc}
NetOK == remote \in Ids /\ inflight \subseteq Request
BlobsOK == nblobs \in Ids /\ blobs \in [1..MaxBlobs -> Blob]
MemoryOK ==
  /\ pc \in [Procs -> Labels] /\ cmd \in [Procs -> Cmds]
  /\ loaded \in [Procs -> Ids] /\ seen \in [Procs -> Ids]
  /\ got \in [Procs -> Ids] /\ body \in [Procs -> Ids]
  /\ want \in [Procs -> SUBSET Tx]
GhostsOK ==
  /\ faults \in 0..MaxFaults /\ restores \in 0..MaxRestores
  /\ minted \subseteq Tx /\ requested \subseteq Tx /\ published \subseteq Tx
  /\ everRemote \subseteq Ids /\ replaced \subseteq Ids /\ unrecorded \subseteq Ids
  /\ discarded \subseteq Tx \X Cmds
  /\ revoked \subseteq Procs

\* The shape of the files, the locks, the network, the blobs and the process memory.
TypeOK == FilesOK /\ LocksOK /\ NetOK /\ BlobsOK /\ MemoryOK /\ GhostsOK

-----------------------------------------------------------------------------
(* Blobs and metadata helpers.                                             *)

\* config.Load: the vault in a file; a missing file is an empty vault.
Vault(i) == IF i = 0 THEN EmptyVault ELSE blobs[i]

\* Mutant: off by one.
NextVaultGenerationBackwards ==
  (IF maxSeen > Vault(local).gen THEN maxSeen ELSE Vault(local).gen) - 1

\* config.NextVaultGeneration
NextVaultGeneration ==
  (IF maxSeen > Vault(local).gen THEN maxSeen ELSE Vault(local).gen) + 1

\* Bound on blobs.  A command starts only when the blobs it and the commands (or the
\* unresolved publication) before it may still write fit, so the bound never stops
\* a command half-way.
Reserved ==
  Cardinality({p \in Procs : cmd[p] = "mutate"})
  + (IF pubLock # NoProc THEN 2 ELSE IF intent.state # "none" THEN 1 ELSE 0)
Fits(n) == nblobs + Reserved + n <= MaxBlobs
CanEncrypt == nblobs < MaxBlobs

\* config.EncryptVault: fresh salt, hence a fresh identity.
EncryptVault(generation, v) ==
  /\ nblobs' = nblobs + 1
  /\ blobs' = [blobs EXCEPT ![nblobs + 1] = [v EXCEPT !.gen = generation]]

\* applyMutation: the transaction enters the ledger as pending.
AddPending(v, t) == [v EXCEPT !.pend = @ \cup {t}]

\* Mutant: the whole vault is projected, whatever the scope.
ProjectEverything(v, ids) == [v EXCEPT !.base = @ \cup v.pend, !.pend = {}]

\* projectTransactionIDs: the confirmed inventory plus the selected transactions.
ProjectIDs(v, ids) == [v EXCEPT !.base = @ \cup ids, !.pend = {}]

\* Mutant: the ledger is emptied instead of losing the recorded IDs.
MarkAllPublished(v, ids) == [v EXCEPT !.base = @ \cup v.pend, !.pend = {}]

\* markPublished: the recorded IDs leave the ledger, their effect stays.
MarkPublished(v, ids) == [v EXCEPT !.base = @ \cup ids, !.pend = @ \ ids]

Without(s, x) ==
  IF \E i \in 1..Len(s) : s[i] = x
  THEN LET i == CHOOSE j \in 1..Len(s) : s[j] = x
       IN SubSeq(s, 1, i - 1) \o SubSeq(s, i + 1, Len(s))
  ELSE s
Newest(s, n) == IF Len(s) > n THEN SubSeq(s, Len(s) - n + 1, Len(s)) ELSE s
Holds(s, x) == \E i \in 1..Len(s) : s[i] = x

\* recordSuperseded(old, next), for what it read of the ledger.
RecordSuperseded(ledger, old, next) ==
  IF old = 0 \/ next = 0 \/ old = next THEN ledger
  ELSE LET kept == Without(ledger, next)
       IN Newest(IF Holds(kept, old) THEN kept ELSE Append(kept, old), MaxSuperseded)

IsSuperseded(ledger, id) == id # 0 /\ Holds(ledger, id)

\* diverged / divergedFor, for facts (l: local, c: cached) and a remote identity.
Diverged(l, c, r) == c # 0 /\ r # 0 /\ r # c /\ l # 0 /\ l # c /\ l # r
DivergedFor(command, l, c, r) ==
  \/ Diverged(l, c, r)
  \/ command = "background" /\ c = 0 /\ r # 0 /\ l # 0 /\ l # r

\* Generation check of a downloaded body against the high-water mark.
RolledBack(mark, id) == Vault(id).gen < mark

Evidence(l, r, c) == [local |-> l, remote |-> r, cached |-> c]

Goto(p, label) == pc' = [pc EXCEPT ![p] = label]

\* A command returns: its memory is gone and the locks it held are released.
Return(p) ==
  /\ pc' = [pc EXCEPT ![p] = "idle"] /\ cmd' = [cmd EXCEPT ![p] = "none"]
  /\ loaded' = [loaded EXCEPT ![p] = 0] /\ seen' = [seen EXCEPT ![p] = 0]
  /\ got' = [got EXCEPT ![p] = 0] /\ body' = [body EXCEPT ![p] = 0]
  /\ want' = [want EXCEPT ![p] = {}]
  /\ vaultLock' = IF vaultLock = p THEN NoProc ELSE vaultLock
  /\ pubLock' = IF pubLock = p THEN NoProc ELSE pubLock

\* recordOutcome / RecordSkipped: every recorded outcome ends the live claim; a
\* background process records only while the claim is its own (mutateState).
ClaimAfter(p) == IF cmd[p] = "background" /\ claim # p THEN claim ELSE NoProc

Fault == faults < MaxFaults /\ faults' = faults + 1

\* loadSuperseded and MaxSeenGeneration are fail-open: a file that cannot be read
\* or decoded counts as empty.
Reads(ledger, mark) ==
  \/ ledger = superseded /\ mark = maxSeen /\ UNCHANGED faults
  \/ Fault /\ ledger \in {superseded, <<>>} /\ mark \in {maxSeen, 0}

\* The first two writes of commitSuccess, for a confirmed version next of generation
\* gen: both "best-effort".  A failure of either goes unnoticed: nothing is
\* written, or a ledger or mark that could not be read is begun anew.
RecordLedgers(next, gen, adopted) ==
  LET full == RecordSuperseded(superseded, cached, next)
      anew == IF cached \in {0, next} THEN superseded ELSE RecordSuperseded(<<>>, cached, next)
      Lost(known) == {i \in known \ {0, next} : ~ Holds(superseded', i)}
  IN /\ \/ /\ superseded' = full
           /\ maxSeen' = IF adopted \/ gen > maxSeen THEN gen ELSE maxSeen
           /\ unrecorded' = Lost(unrecorded)
           /\ UNCHANGED faults
        \/ /\ Fault
           /\ superseded' \in {superseded, full, anew}
           /\ maxSeen' \in {maxSeen, gen}
           /\ unrecorded' = Lost(unrecorded \cup {cached} \cup
                                 {superseded[i] : i \in 1..Len(superseded)})
     /\ replaced' = replaced \ {next}

-----------------------------------------------------------------------------
(* Situations the program is started in: a machine in step with the server *)
(* ("synced"), an existing vault on a machine that never synced ("unsynced"), *)
(* a vault before the account's first publication ("first"), and a new      *)
(* machine of an existing account ("fresh").                                *)

InitBlobs(first, second) ==
  [i \in 1..MaxBlobs |-> CASE i = 1 -> first [] i = 2 -> second [] OTHER -> EmptyVault]

Synced ==
  /\ blobs = InitBlobs([gen |-> 2, base |-> {}, pend |-> {}], EmptyVault)
  /\ nblobs = 1 /\ local = 1 /\ cached = 1 /\ remote = 1 /\ maxSeen = 2
Unsynced ==
  /\ \E f \in Foreign :
       blobs = InitBlobs([gen |-> 1, base |-> {}, pend |-> {}],
                         [gen |-> 2, base |-> {f}, pend |-> {}])
  /\ nblobs = 2 /\ local = 1 /\ cached = 0 /\ remote = 2 /\ maxSeen = 0
First ==
  /\ blobs = InitBlobs([gen |-> 1, base |-> {}, pend |-> {}], EmptyVault)
  /\ nblobs = 1 /\ local = 1 /\ cached = 0 /\ remote = 0 /\ maxSeen = 0
Fresh ==
  /\ blobs = InitBlobs([gen |-> 2, base |-> {}, pend |-> {}], EmptyVault)
  /\ nblobs = 1 /\ local = 0 /\ cached = 0 /\ remote = 1 /\ maxSeen = 0

Init ==
  /\ \/ "synced" \in Starts /\ Synced
     \/ "unsynced" \in Starts /\ Unsynced
     \/ "first" \in Starts /\ First
     \/ "fresh" \in Starts /\ Fresh
  /\ conflict = NoConflict /\ superseded = <<>> /\ intent = NoIntent /\ claim = NoProc
  /\ vaultLock = NoProc /\ pubLock = NoProc /\ inflight = {}
  /\ pc = [p \in Procs |-> "idle"] /\ cmd = [p \in Procs |-> "none"]
  /\ loaded = [p \in Procs |-> 0] /\ seen = [p \in Procs |-> 0]
  /\ got = [p \in Procs |-> 0] /\ body = [p \in Procs |-> 0]
  /\ want = [p \in Procs |-> {}]
  /\ faults = 0 /\ restores = 0
  /\ minted = {} /\ requested = {} /\ published = {}
  /\ everRemote = IF remote = 0 THEN {} ELSE {remote}
  /\ replaced = {} /\ unrecorded = {} /\ discarded = {} /\ revoked = {}

-----------------------------------------------------------------------------
(* Local mutations: load, then saveLoadedVault under the vault write lock.  *)

Start(p, command) ==
  /\ pc[p] = "idle" /\ command \in Commands
  /\ cmd' = [cmd EXCEPT ![p] = command]

StartMutate(p) ==
  /\ Start(p, "mutate")
  /\ Fits(1) /\ Cardinality({q \in Procs : cmd[q] = "mutate"}) < Cardinality(Tx \ minted)
  /\ Goto(p, "save")
  /\ loaded' = [loaded EXCEPT ![p] = local]
  /\ UNCHANGED <<disk, locks, net, blobs, nblobs, seen, got, body, want, faults, restores, ghosts>>

\* saveLoadedVault: ErrVaultChanged, or append the transaction and Save.
SaveMutation(p) ==
  /\ pc[p] = "save" /\ vaultLock = NoProc
  /\ \/ /\ local # loaded[p]
        /\ UNCHANGED <<local, blobs, nblobs, minted>>
     \/ /\ local = loaded[p] /\ CanEncrypt
        /\ \E t \in Tx \ minted :
             /\ EncryptVault(NextVaultGeneration, AddPending(Vault(local), t))
             /\ minted' = minted \cup {t}
        /\ local' = nblobs + 1
  /\ Return(p)
  /\ UNCHANGED <<cached, conflict, superseded, maxSeen, intent, claim, net, faults, restores,
                 requested, published, everRemote, replaced, unrecorded, discarded, revoked>>

-----------------------------------------------------------------------------
(* Publication (push --all, push --only) and status, under publication.lock. *)

\* BeginPublication, then the vault is loaded under the session.
StartPushAll(p) ==
  /\ Start(p, "push_all") /\ pubLock = NoProc /\ Fits(2)
  /\ pubLock' = p
  /\ Goto(p, "reconcile")
  /\ loaded' = [loaded EXCEPT ![p] = local]
  /\ want' = [want EXCEPT ![p] = Vault(local).pend]
  /\ requested' = requested \cup Vault(local).pend
  /\ UNCHANGED <<disk, vaultLock, net, blobs, nblobs, seen, got, body, faults, restores,
                 minted, published, everRemote, replaced, unrecorded, discarded, revoked>>

StartPushOnly(p) ==
  /\ Start(p, "push_only") /\ pubLock = NoProc /\ Fits(2)
  /\ pubLock' = p
  /\ Goto(p, "reconcile")
  /\ loaded' = [loaded EXCEPT ![p] = local]
  /\ \E t \in minted : /\ want' = [want EXCEPT ![p] = {t}]
                       /\ requested' = requested \cup {t}
  /\ UNCHANGED <<disk, vaultLock, net, blobs, nblobs, seen, got, body, faults, restores,
                 minted, published, everRemote, replaced, unrecorded, discarded, revoked>>

\* ReconcilePublishingIntent (status).
StartStatus(p) ==
  /\ Start(p, "status") /\ pubLock = NoProc
  /\ pubLock' = p
  /\ Goto(p, "reconcile")
  /\ UNCHANGED <<disk, vaultLock, net, blobs, nblobs, loaded, seen, got, body, want, faults,
                 restores, ghosts>>

MatchesRecovery(p) ==
  IF cmd[p] = "push_all" THEN intent.scope = "all" ELSE intent.ids = want[p]

\* After "pending": status and a push of another scope return, a matching push
\* continues; push --all then replays the recorded IDs.
ResumePending(p) ==
  IF cmd[p] \in Pushes /\ MatchesRecovery(p)
  THEN /\ Goto(p, "project")
       /\ want' = [want EXCEPT ![p] = IF cmd[p] = "push_all" THEN intent.ids ELSE want[p]]
       /\ UNCHANGED <<locks, cmd, loaded, seen, got, body>>
  ELSE Return(p)

\* reconcilePublishingIntent, the part that needs no network.
ReconcileLocal(p) ==
  /\ pc[p] = "reconcile"
  /\ \/ /\ intent.state = "none"
        /\ IF cmd[p] = "status" THEN Return(p)
           ELSE Goto(p, "project") /\ UNCHANGED <<locks, cmd, loaded, seen, got, body, want>>
        /\ UNCHANGED intent
     \/ /\ intent.state = "prepared"
        /\ intent' = NoIntent
        /\ ResumePending(p)
     \/ /\ intent.state = "finalization_failed"
        /\ Goto(p, "finalize")
        /\ UNCHANGED <<intent, locks, cmd, loaded, seen, got, body, want>>
  /\ UNCHANGED <<local, cached, conflict, superseded, maxSeen, claim, net, blobs, nblobs,
                 faults, restores, ghosts>>

\* Mutant: an unchanged remote is taken for a published one.
RemoteUnchangedOrTarget == remote \in {intent.target, intent.prereq}

\* The PUT committed: the remote identity is the recorded target.
RemoteIsTarget == remote = intent.target

\* reconcilePublishingIntent after ready/ambiguous/divergent: one HEAD decides.
ReconcileRemote(p) ==
  /\ pc[p] = "reconcile" /\ intent.state \in {"ready", "ambiguous", "divergent"}
  /\ \/ /\ RemoteIsTarget
        /\ Goto(p, "finalize")
        /\ UNCHANGED <<intent, locks, cmd, loaded, seen, got, body, want>>
     \/ /\ ~ RemoteIsTarget /\ remote = intent.prereq
        /\ intent' = NoIntent
        /\ ResumePending(p)
     \/ /\ remote \notin {intent.target, intent.prereq}
        /\ intent' = [intent EXCEPT !.state = "divergent"]
        /\ Return(p)
  /\ UNCHANGED <<local, cached, conflict, superseded, maxSeen, claim, net, blobs, nblobs,
                 faults, restores, ghosts>>

\* Publish: project the scope, encrypt the target, persist the prepared intent,
\* and read the cached identity PreparePublication will compare with.
Project(p) ==
  /\ pc[p] = "project"
  /\ LET v == Vault(loaded[p])
     IN \/ /\ want[p] # {} /\ want[p] \subseteq v.pend /\ CanEncrypt
           /\ EncryptVault(NextVaultGeneration, ProjectIDs(v, want[p]))
           /\ intent' = [state |-> "prepared",
                         scope |-> IF cmd[p] = "push_all" THEN "all" ELSE "only",
                         ids |-> want[p], target |-> nblobs + 1, prereq |-> cached]
           /\ seen' = [seen EXCEPT ![p] = cached]
           /\ Goto(p, "prepare")
           /\ UNCHANGED <<locks, cmd, loaded, got, body, want>>
        \/ /\ cmd[p] = "push_all" /\ want[p] \cap v.pend = {}
           /\ loaded' = [loaded EXCEPT ![p] = local]
           /\ seen' = [seen EXCEPT ![p] = cached]
           /\ Goto(p, "verify_empty")
           /\ UNCHANGED <<intent, blobs, nblobs, locks, cmd, got, body, want>>
        \/ /\ ~ want[p] \subseteq v.pend
           /\ cmd[p] = "push_all" => want[p] \cap v.pend # {}
           /\ Return(p)
           /\ UNCHANGED <<intent, blobs, nblobs>>
  /\ UNCHANGED <<local, cached, conflict, superseded, maxSeen, claim, net, faults, restores,
                 ghosts>>

\* VerifyEmptyPublication: three identities must agree, else keep evidence.
VerifyEmpty(p) ==
  /\ pc[p] = "verify_empty"
  /\ conflict' = IF seen[p] # 0 /\ remote # 0 /\ loaded[p] = seen[p] /\ loaded[p] = remote
                 THEN conflict ELSE Evidence(loaded[p], remote, seen[p])
  /\ Return(p)
  /\ UNCHANGED <<local, cached, superseded, maxSeen, intent, claim, net, blobs, nblobs, faults,
                 restores, ghosts>>

\* PreparePublication: HEAD must equal the cached identity; then "ready".
Prepare(p) ==
  /\ pc[p] = "prepare"
  /\ IF remote = seen[p]
     THEN /\ intent' = [intent EXCEPT !.state = "ready", !.prereq = remote]
          /\ Goto(p, "send")
          /\ UNCHANGED <<conflict, claim, locks, cmd, loaded, seen, got, body, want>>
     ELSE /\ intent' = NoIntent
          /\ conflict' = IF seen[p] # 0 /\ remote # 0
                         THEN Evidence(intent.target, remote, seen[p]) ELSE conflict
          /\ claim' = ClaimAfter(p)
          /\ Return(p)
  /\ UNCHANGED <<local, cached, superseded, maxSeen, net, blobs, nblobs, faults, restores, ghosts>>

\* SendPublication up to the conditional PUT: a second HEAD must still show the
\* prerequisite.  (The target was encrypted by this very command and not yet
\* sent, so the "already equal to target" return cannot be taken.)
Send(p) ==
  /\ pc[p] = "send"
  /\ IF remote = intent.prereq
     THEN /\ inflight' = inflight \cup
                {[blob |-> intent.target, prereq |-> intent.prereq, proc |-> p]}
          /\ Goto(p, "await")
          /\ UNCHANGED <<intent, conflict, claim, locks, cmd, loaded, seen, got, body, want>>
     ELSE /\ intent' = [intent EXCEPT !.state = "divergent"]
          /\ conflict' = Evidence(intent.target, remote, intent.prereq)
          /\ claim' = ClaimAfter(p)
          /\ Return(p)
          /\ UNCHANGED inflight
  /\ UNCHANGED <<local, cached, superseded, maxSeen, remote, blobs, nblobs, faults, restores, ghosts>>

\* A HEAD fails before anything was sent: the intent is cleared (push) or kept
\* (reconciliation).
HeadFails(p) ==
  /\ Fault
  /\ \/ /\ pc[p] \in {"prepare", "send"}
        /\ intent' = NoIntent /\ claim' = ClaimAfter(p)
     \/ /\ pc[p] = "reconcile" /\ intent.state \in {"ready", "ambiguous", "divergent"}
        /\ UNCHANGED <<intent, claim>>
  /\ Return(p)
  /\ UNCHANGED <<local, cached, conflict, superseded, maxSeen, net, blobs, nblobs, restores, ghosts>>

-----------------------------------------------------------------------------
(* The server's handlePush, the network and the PUT's outcome.              *)

Awaits(p, r) == pc[p] = "await" /\ intent.target = r.blob
Answer(r, label) == pc' = IF Awaits(r.proc, r) THEN [pc EXCEPT ![r.proc] = label] ELSE pc

Store(r) ==
  /\ remote' = r.blob
  /\ everRemote' = everRemote \cup {r.blob}
  /\ published' = published \cup (blobs[r.blob].base \cap Tx)

\* Mutant: an unconditional PUT.
PreconditionIgnored(r) == r.blob # 0

\* If-Match, or If-None-Match: * when the client saw no vault.
PreconditionHolds(r) == r.prereq = remote

\* The precondition holds: the blob is stored and its ETag returned.
ServerStore(r) ==
  /\ r \in inflight /\ PreconditionHolds(r)
  /\ inflight' = inflight \ {r}
  /\ Store(r)
  /\ Answer(r, "put_ok")
  /\ UNCHANGED <<disk, locks, blobs, nblobs, cmd, loaded, seen, got, body, want, faults, restores,
                 minted, requested, replaced, unrecorded, discarded, revoked>>

\* 412: the account's blob is no longer the prerequisite.
ServerRefuse(r) ==
  /\ r \in inflight /\ ~ PreconditionHolds(r)
  /\ inflight' = inflight \ {r}
  /\ Answer(r, "put_conflict")
  /\ UNCHANGED <<disk, locks, remote, blobs, nblobs, cmd, loaded, seen, got, body, want, faults,
                 restores, ghosts>>

\* Any other status: before storing (401, 413, 500), or 500 after the rename when
\* restricting the stored file fails.
ServerError(r) ==
  /\ Fault /\ r \in inflight
  /\ inflight' = inflight \ {r}
  /\ Answer(r, "put_rejected")
  /\ \/ UNCHANGED <<remote, everRemote, published>>
     \/ PreconditionHolds(r) /\ Store(r)
  /\ UNCHANGED <<disk, locks, blobs, nblobs, cmd, loaded, seen, got, body, want, restores,
                 minted, requested, replaced, unrecorded, discarded, revoked>>

LoseRequest(r) ==
  /\ Fault /\ r \in inflight
  /\ inflight' = inflight \ {r}
  /\ UNCHANGED <<disk, locks, remote, blobs, nblobs, memory, restores, ghosts>>

\* Mutant: a client without timeout waits for an answer.
AnswerLost(p) == pc[p] \in PutLabels \ {"await"}

\* The client times out, or the connection breaks, before the answer is read.
TimedOut(p) == pc[p] \in PutLabels

\* Transport error or timeout: the request may be lost or still on its way, or it
\* is the answer that does not arrive (ErrPushAmbiguous).
PutAmbiguous(p) ==
  /\ TimedOut(p)
  /\ intent' = [intent EXCEPT !.state = "ambiguous"]
  /\ claim' = ClaimAfter(p)
  /\ Return(p)
  /\ UNCHANGED <<local, cached, conflict, superseded, maxSeen, net, blobs, nblobs, faults,
                 restores, ghosts>>

\* 200 with the target's ETag.
PutOk(p) ==
  /\ pc[p] = "put_ok"
  /\ Goto(p, "finalize")
  /\ UNCHANGED <<disk, locks, net, blobs, nblobs, cmd, loaded, seen, got, body, want, faults,
                 restores, ghosts>>

\* 412: the conflict is recorded with the remote identity a new HEAD shows, or the
\* one observed before the PUT when that HEAD fails; the intent becomes divergent.
PutConflict(p) ==
  /\ pc[p] = "put_conflict"
  /\ \/ /\ conflict' = Evidence(intent.target, remote, intent.prereq)
        /\ UNCHANGED faults
     \/ /\ Fault
        /\ conflict' = Evidence(intent.target, intent.prereq, intent.prereq)
  /\ intent' = [intent EXCEPT !.state = "divergent"]
  /\ claim' = ClaimAfter(p)
  /\ Return(p)
  /\ UNCHANGED <<local, cached, superseded, maxSeen, net, blobs, nblobs, restores, ghosts>>

PutRejected(p) ==
  /\ pc[p] = "put_rejected"
  /\ intent' = NoIntent
  /\ claim' = ClaimAfter(p)
  /\ Return(p)
  /\ UNCHANGED <<local, cached, conflict, superseded, maxSeen, net, blobs, nblobs, faults,
                 restores, ghosts>>

-----------------------------------------------------------------------------
(* finalizePublishingIntent: under the vault write lock, drop exactly the   *)
(* recorded IDs from the reloaded ledger, Save, ConfirmPublication, clear   *)
(* the intent.                                                              *)

Finalize(p) ==
  /\ pc[p] = "finalize" /\ vaultLock = NoProc
  /\ LET v == Vault(local)
     IN \/ /\ intent.ids \subseteq v.pend /\ CanEncrypt
           /\ EncryptVault(NextVaultGeneration, MarkPublished(v, intent.ids))
           /\ local' = nblobs + 1
           /\ vaultLock' = p /\ Goto(p, "confirm")
           /\ UNCHANGED <<intent, pubLock, cmd, loaded, seen, got, body, want>>
        \/ /\ intent.ids \cap v.pend = {}
           /\ vaultLock' = p /\ Goto(p, "confirm")
           /\ UNCHANGED <<local, blobs, nblobs, intent, pubLock, cmd, loaded, seen, got, body, want>>
  /\ UNCHANGED <<cached, conflict, superseded, maxSeen, claim, net, faults, restores, ghosts>>

\* ErrVaultBusy, a failing Save, or a ledger that holds only some of the IDs.
FinalizeFails(p) ==
  /\ pc[p] = "finalize"
  /\ LET pend == Vault(local).pend
         partly == ~ intent.ids \subseteq pend /\ intent.ids \cap pend # {}
     IN IF vaultLock # NoProc \/ partly THEN UNCHANGED faults ELSE Fault
  /\ intent' = [intent EXCEPT !.state = "finalization_failed"]
  /\ Return(p)
  /\ UNCHANGED <<local, cached, conflict, superseded, maxSeen, claim, net, blobs, nblobs,
                 restores, ghosts>>

\* commitSuccess("push"): superseded ledger, which forgets the confirmed version, and
\* high-water mark, which is taken from the vault file as finalization just left it.
ConfirmLedgers(p) ==
  /\ pc[p] = "confirm"
  /\ RecordLedgers(intent.target, Vault(local).gen, FALSE)
  /\ Goto(p, "confirm_etag")
  /\ UNCHANGED <<local, cached, conflict, intent, claim, locks, net, blobs, nblobs, cmd, loaded,
                 seen, got, body, want, restores, minted, requested, published,
                 everRemote, discarded, revoked>>

\* Mutant: the identity of the re-saved vault file is cached.
SavedIdentity == local

\* commitSuccess: the identity ConfirmPublication was given.
ConfirmedIdentity == intent.target

\* clearConflict, the last write of commitSuccess: a failure goes unnoticed.
ClearConflict == (conflict' = NoConflict /\ UNCHANGED faults) \/ (Fault /\ UNCHANGED conflict)

\* The cached identity moves, or its write fails unnoticed.
ConfirmETag(p) ==
  /\ pc[p] = "confirm_etag"
  /\ \/ /\ cached' = ConfirmedIdentity
        /\ replaced' = (replaced \cup (IF cached = 0 THEN {} ELSE {cached})) \ {intent.target}
        /\ UNCHANGED faults
     \/ Fault /\ UNCHANGED <<cached, replaced>>
  /\ Goto(p, "confirm_clear")
  /\ UNCHANGED <<local, conflict, superseded, maxSeen, intent, claim, locks, net, blobs, nblobs,
                 cmd, loaded, seen, got, body, want, restores,
                 minted, requested, published, everRemote, unrecorded, discarded, revoked>>

ConfirmClear(p) ==
  /\ pc[p] = "confirm_clear"
  /\ ClearConflict
  /\ claim' = NoProc
  /\ Goto(p, "confirm_intent")
  /\ UNCHANGED <<local, cached, superseded, maxSeen, intent, locks, net, blobs, nblobs, cmd,
                 loaded, seen, got, body, want, restores, ghosts>>

ConfirmIntent(p) ==
  /\ pc[p] = "confirm_intent"
  /\ intent' = NoIntent
  /\ Return(p)
  /\ UNCHANGED <<local, cached, conflict, superseded, maxSeen, claim, net, blobs, nblobs, faults,
                 restores, ghosts>>

-----------------------------------------------------------------------------
(* Pulls: sync and pull (explicit), login (reset, then pull), background     *)
(* (claimed in sync-state.json) and the reviewed pull --adopt-remote.        *)

StartPull(p) ==
  /\ \E c \in {"sync", "pull"} : Start(p, c)
  /\ Goto(p, "facts")
  /\ UNCHANGED <<disk, locks, net, blobs, nblobs, loaded, seen, got, body, want, faults, restores,
                 ghosts>>

StartLogin(p) ==
  /\ Start(p, "login")
  /\ Goto(p, "reset")
  /\ UNCHANGED <<disk, locks, net, blobs, nblobs, loaded, seen, got, body, want, faults, restores,
                 ghosts>>

\* Mutant: the reset does not wait for a commit in progress.
ResetAnyTime == pubLock \in Procs \cup {NoProc}

\* LockVaultWrite succeeds within the bound.
ResetLocked == vaultLock = NoProc

\* ResetSyncState under both locks.  When a lock stays busy or the state cannot be
\* removed, login warns and goes on to its pull; a ledger or a mark that cannot be
\* removed stays without a word.
Reset(p) ==
  /\ pc[p] = "reset"
  /\ \/ /\ ResetLocked
        /\ \/ superseded' = <<>> /\ maxSeen' = 0 /\ UNCHANGED faults
           \/ Fault /\ superseded' \in {superseded, <<>>} /\ maxSeen' \in {maxSeen, 0}
        /\ claim' = NoProc
        /\ replaced' = {} /\ unrecorded' = {}
        /\ revoked' = {q \in Procs : cmd[q] = "background"}
     \/ /\ IF ResetLocked THEN Fault ELSE UNCHANGED faults
        /\ UNCHANGED <<superseded, maxSeen, claim, replaced, unrecorded, revoked>>
  /\ Goto(p, "facts")
  /\ UNCHANGED <<local, cached, conflict, intent, locks, net, blobs, nblobs, cmd, loaded, seen,
                 got, body, want, restores, minted, requested, published, everRemote,
                 discarded>>

\* claimBackground and the start of the detached process.  A live claim is taken
\* over only after it expired, which a process may outlive.
StartBackground(p) ==
  /\ Start(p, "background")
  /\ claim' = p
  /\ revoked' = revoked \ {p}
  /\ Goto(p, "head")
  /\ UNCHANGED <<local, cached, conflict, superseded, maxSeen, intent, locks, net, blobs, nblobs,
                 loaded, seen, got, body, want, faults, restores, minted, requested, published,
                 everRemote, replaced, unrecorded, discarded>>

\* localFacts: before the HEAD in the foreground, after it in the background.
ReadFacts(p) ==
  /\ pc[p] = "facts"
  /\ loaded' = [loaded EXCEPT ![p] = local]
  /\ seen' = [seen EXCEPT ![p] = cached]
  /\ Goto(p, IF cmd[p] = "background" THEN "check" ELSE "head")
  /\ UNCHANGED <<disk, locks, net, blobs, nblobs, cmd, got, body, want, faults, restores, ghosts>>

\* cloud.RemoteETag: a missing remote vault is an error (ErrNoVaultOnServer).
\* A background process first checks that its claim is still the live one.
PullHead(p) ==
  /\ pc[p] = "head"
  /\ IF cmd[p] = "background" /\ claim # p
     THEN Return(p) /\ UNCHANGED claim
     ELSE IF remote = 0
     THEN Return(p) /\ claim' = ClaimAfter(p)
     ELSE /\ got' = [got EXCEPT ![p] = remote]
          /\ Goto(p, IF cmd[p] = "background" THEN "facts" ELSE "check")
          /\ UNCHANGED <<claim, locks, cmd, loaded, seen, body, want>>
  /\ UNCHANGED <<local, cached, conflict, superseded, maxSeen, intent, net, blobs, nblobs, faults,
                 restores, ghosts>>

\* Where applyRemoteIdentity goes once the remote identity r is known.
AfterCheck(p, ledger, r, fetched) ==
  IF IsSuperseded(ledger, r) \/ DivergedFor(cmd[p], loaded[p], seen[p], r) THEN "decision"
  ELSE IF fetched THEN "install" ELSE "fetch"

\* applyRemoteIdentity: no-op when unchanged; with a high-water mark the body is
\* fetched first and its generation compared.
Check(p) ==
  /\ pc[p] = "check"
  /\ \/ /\ cmd[p] \in {"sync", "background"} /\ got[p] = seen[p]
        /\ claim' = ClaimAfter(p)
        /\ Return(p)
        /\ UNCHANGED faults
     \/ /\ ~ (cmd[p] \in {"sync", "background"} /\ got[p] = seen[p])
        /\ \E ledger \in {superseded, <<>>}, mark \in {maxSeen, 0} :
             /\ Reads(ledger, mark)
             /\ \/ /\ mark > 0
                   /\ got' = [got EXCEPT ![p] = remote]
                   /\ body' = [body EXCEPT ![p] = remote]
                   /\ Goto(p, IF RolledBack(mark, remote) THEN "rollback"
                              ELSE AfterCheck(p, ledger, remote, TRUE))
                \/ /\ mark = 0
                   /\ Goto(p, AfterCheck(p, ledger, got[p], FALSE))
                   /\ UNCHANGED <<got, body>>
        /\ UNCHANGED <<claim, locks, cmd, loaded, seen, want>>
  /\ UNCHANGED <<local, cached, conflict, superseded, maxSeen, intent, net, blobs, nblobs,
                 restores, ghosts>>

\* Mutant: the claim is not checked again under the lock.
SkipsOnlyForIntent(p) ==
  \/ vaultLock # NoProc
  \/ cmd[p] = "background" /\ intent.state # "none"

\* lockVault: a background process backs off when a publication awaits
\* reconciliation or its claim is gone; anyone gives up when the lock stays busy.
Skips(p) ==
  \/ vaultLock # NoProc
  \/ cmd[p] = "background" /\ (intent.state # "none" \/ claim # p)

LockRefused(p) ==
  /\ pc[p] \in {"rollback", "decision", "install"} /\ Skips(p)
  /\ claim' = IF cmd[p] = "adopt" THEN claim ELSE ClaimAfter(p)
  /\ Return(p)
  /\ UNCHANGED <<local, cached, conflict, superseded, maxSeen, intent, net, blobs, nblobs, faults,
                 restores, ghosts>>

MutationBusy(p) ==
  /\ pc[p] = "save" /\ vaultLock # NoProc
  /\ Return(p)
  /\ UNCHANGED <<disk, net, blobs, nblobs, faults, restores, ghosts>>

\* supersededError after the early generation check.
RollbackFound(p) ==
  /\ pc[p] = "rollback" /\ ~ Skips(p)
  /\ conflict' = Evidence(local, got[p], cached)
  /\ claim' = ClaimAfter(p)
  /\ Return(p)
  /\ UNCHANGED <<local, cached, superseded, maxSeen, intent, net, blobs, nblobs, faults, restores,
                 ghosts>>

\* The decision under the lock, on the vault as it is now.
Decide(p) ==
  /\ pc[p] = "decision" /\ ~ Skips(p)
  /\ \E ledger \in {superseded, <<>>} :
       /\ Reads(ledger, maxSeen)
       /\ IF IsSuperseded(ledger, got[p]) \/ DivergedFor(cmd[p], local, cached, got[p])
          THEN /\ conflict' = Evidence(local, got[p], cached)
               /\ claim' = ClaimAfter(p)
               /\ Return(p)
          ELSE /\ Goto(p, IF body[p] = 0 THEN "fetch" ELSE "install")
               /\ UNCHANGED <<conflict, claim, locks, cmd, loaded, seen, got, body, want>>
  /\ UNCHANGED <<local, cached, superseded, maxSeen, intent, net, blobs, nblobs, restores,
                 ghosts>>

\* cloud.Fetch outside any lock.
Fetch(p) ==
  /\ pc[p] = "fetch"
  /\ got' = [got EXCEPT ![p] = remote] /\ body' = [body EXCEPT ![p] = remote]
  /\ Goto(p, "install")
  /\ UNCHANGED <<disk, locks, net, blobs, nblobs, cmd, loaded, seen, want, faults, restores, ghosts>>

\* A failing HEAD or GET of a pull; only adopt records no outcome.
PullFails(p) ==
  /\ Fault
  /\ pc[p] \in {"head", "check", "fetch", "adopt_fetch"}
  /\ claim' = IF cmd[p] = "adopt" THEN claim ELSE ClaimAfter(p)
  /\ Return(p)
  /\ UNCHANGED <<local, cached, conflict, superseded, maxSeen, intent, net, blobs, nblobs,
                 restores, ghosts>>

\* AdoptRemote: the user names the remote identity of the preserved evidence.
\* loaded keeps the local identity that evidence was recorded for.
StartAdopt(p) ==
  /\ Start(p, "adopt")
  /\ conflict.remote # 0
  /\ got' = [got EXCEPT ![p] = conflict.remote]
  /\ loaded' = [loaded EXCEPT ![p] = conflict.local]
  /\ Goto(p, "adopt_fetch")
  /\ UNCHANGED <<disk, locks, net, blobs, nblobs, seen, body, want, faults, restores, ghosts>>

\* HEAD and FetchExpected must both still show the expected identity.
AdoptFetch(p) ==
  /\ pc[p] = "adopt_fetch"
  /\ IF remote = got[p]
     THEN /\ body' = [body EXCEPT ![p] = remote]
          /\ Goto(p, "install")
          /\ UNCHANGED <<locks, cmd, loaded, seen, got, want>>
     ELSE Return(p)
  /\ UNCHANGED <<disk, net, blobs, nblobs, faults, restores, ghosts>>

-----------------------------------------------------------------------------
(* installFetched under the vault write lock.                               *)

\* Mutant: the superseded ledger is consulted before the download only.
InstallConflictEarly(p, ledger, mark) ==
  cmd[p] # "adopt" /\ \/ RolledBack(mark, body[p])
                      \/ DivergedFor(cmd[p], local, cached, body[p])

InstallConflict(p, ledger, mark) ==
  cmd[p] # "adopt" /\ \/ RolledBack(mark, body[p])
                      \/ IsSuperseded(ledger, body[p])
                      \/ DivergedFor(cmd[p], local, cached, body[p])
AdoptStale(p) == cmd[p] = "adopt" /\ (conflict = NoConflict \/ local # conflict.local)

InstallRefused(p) ==
  /\ pc[p] = "install" /\ ~ Skips(p)
  /\ \/ /\ \E ledger \in {superseded, <<>>}, mark \in {maxSeen, 0} :
             Reads(ledger, mark) /\ InstallConflict(p, ledger, mark)
        /\ conflict' = Evidence(local, body[p], cached)
        /\ claim' = ClaimAfter(p)
     \/ /\ AdoptStale(p)
        /\ UNCHANGED <<conflict, claim, faults>>
  /\ Return(p)
  /\ UNCHANGED <<local, cached, superseded, maxSeen, intent, net, blobs, nblobs, restores,
                 ghosts>>

\* The vault file is replaced; commitSuccess follows under the same lock.
Install(p) ==
  /\ pc[p] = "install" /\ ~ Skips(p) /\ ~ AdoptStale(p)
  /\ \E ledger \in {superseded, <<>>}, mark \in {maxSeen, 0} :
       Reads(ledger, mark) /\ ~ InstallConflict(p, ledger, mark)
  /\ local' = body[p]
  /\ discarded' = discarded \cup
        {<<t, cmd[p]>> : t \in Vault(local).pend \ Vault(body[p]).base}
  /\ replaced' = IF cmd[p] = "adopt" THEN replaced \ {body[p]} ELSE replaced
  /\ vaultLock' = p
  /\ Goto(p, "commit")
  /\ UNCHANGED <<cached, conflict, superseded, maxSeen, intent, claim, pubLock, net, blobs, nblobs,
                 cmd, loaded, seen, got, body, want, restores, minted, requested, published,
                 everRemote, unrecorded, revoked>>

\* commitSuccess("pull" | "adopt"): an adoption may lower the high-water mark.
CommitLedgers(p) ==
  /\ pc[p] = "commit"
  /\ RecordLedgers(body[p], Vault(body[p]).gen, cmd[p] = "adopt")
  /\ Goto(p, "commit_etag")
  /\ UNCHANGED <<local, cached, conflict, intent, claim, locks, net, blobs, nblobs, cmd, loaded,
                 seen, got, body, want, restores, minted, requested, published,
                 everRemote, discarded, revoked>>

CommitETag(p) ==
  /\ pc[p] = "commit_etag"
  /\ \/ /\ cached' = body[p]
        /\ replaced' = (replaced \cup (IF cached = 0 THEN {} ELSE {cached})) \ {body[p]}
        /\ UNCHANGED faults
     \/ Fault /\ UNCHANGED <<cached, replaced>>
  /\ Goto(p, "commit_clear")
  /\ UNCHANGED <<local, conflict, superseded, maxSeen, intent, claim, locks, net, blobs, nblobs,
                 cmd, loaded, seen, got, body, want, restores,
                 minted, requested, published, everRemote, unrecorded, discarded, revoked>>

\* clearConflict and the end of installFetched: the lock is released and only then
\* the outcome recorded.
CommitClear(p) ==
  /\ pc[p] = "commit_clear"
  /\ ClearConflict
  /\ IF cmd[p] = "adopt"
     THEN Return(p)
     ELSE /\ vaultLock' = NoProc /\ Goto(p, "record")
          /\ UNCHANGED <<pubLock, cmd, loaded, seen, got, body, want>>
  /\ UNCHANGED <<local, cached, superseded, maxSeen, intent, claim, net, blobs, nblobs,
                 restores, ghosts>>

RecordSuccess(p) ==
  /\ pc[p] = "record"
  /\ claim' = ClaimAfter(p)
  /\ Return(p)
  /\ UNCHANGED <<local, cached, conflict, superseded, maxSeen, intent, net, blobs, nblobs, faults,
                 restores, ghosts>>

-----------------------------------------------------------------------------
(* The environment.                                                         *)

\* A process dies; the kernel drops its locks, its files and requests stay.
Crash(p) ==
  /\ Fault /\ pc[p] # "idle"
  /\ Return(p)
  /\ UNCHANGED <<disk, net, blobs, nblobs, restores, ghosts>>

\* Another machine in step with the server publishes one transaction of its own: its
\* mutation and its publication each advance the generation.
OtherPublish ==
  /\ Fits(1) /\ CanEncrypt
  /\ \E f \in Foreign \ UNION {blobs[i].base : i \in 1..nblobs} :
       EncryptVault(Vault(remote).gen + 2, [Vault(remote) EXCEPT !.base = @ \cup {f}])
  /\ remote' = nblobs + 1
  /\ everRemote' = everRemote \cup {nblobs + 1}
  /\ published' = published \cup (Vault(remote).base \cap Tx)
  /\ UNCHANGED <<disk, locks, inflight, memory, faults, restores, minted, requested, replaced,
                 unrecorded, discarded, revoked>>

\* The server's data directory is restored from an older backup.
RestoreRemote ==
  /\ restores < MaxRestores /\ restores' = restores + 1
  /\ \E i \in everRemote \ {remote} : remote' = i
  /\ UNCHANGED <<disk, locks, inflight, blobs, nblobs, memory, faults, ghosts>>

Command(p) ==
  \/ StartMutate(p) \/ StartPushAll(p) \/ StartPushOnly(p) \/ StartStatus(p)
  \/ StartPull(p) \/ StartLogin(p) \/ StartBackground(p) \/ StartAdopt(p)

Step(p) ==
  \/ SaveMutation(p) \/ MutationBusy(p)
  \/ ReconcileLocal(p) \/ ReconcileRemote(p) \/ Project(p) \/ VerifyEmpty(p)
  \/ Prepare(p) \/ Send(p) \/ PutAmbiguous(p) \/ PutOk(p) \/ PutConflict(p) \/ PutRejected(p)
  \/ Finalize(p) \/ FinalizeFails(p) \/ ConfirmLedgers(p) \/ ConfirmETag(p) \/ ConfirmClear(p)
  \/ ConfirmIntent(p)
  \/ Reset(p) \/ ReadFacts(p) \/ PullHead(p) \/ Check(p) \/ LockRefused(p) \/ RollbackFound(p)
  \/ Decide(p) \/ Fetch(p) \/ AdoptFetch(p) \/ InstallRefused(p) \/ Install(p)
  \/ CommitLedgers(p) \/ CommitETag(p) \/ CommitClear(p) \/ RecordSuccess(p)

Failure(p) == HeadFails(p) \/ PullFails(p) \/ Crash(p)

Server == \E r \in inflight : ServerStore(r) \/ ServerRefuse(r) \/ ServerError(r) \/ LoseRequest(r)

Next ==
  \/ \E p \in Procs : Command(p) \/ Step(p) \/ Failure(p)
  \/ Server
  \/ OtherPublish
  \/ RestoreRemote

\* A started command keeps running: locks are waited for with a bound, every HTTP
\* exchange has a timeout.  Nobody is obliged to start one.
Fairness == \A p \in Procs : WF_vars(Step(p))

Spec == Init /\ [][Next]_vars
FairSpec == Spec /\ Fairness

-----------------------------------------------------------------------------
(* Properties.                                                              *)

\* A mutation that was saved stays in the pending ledger until the server has stored
\* a blob that contains it, unless a pull replaced the vault: "Pending IDs are
\* never removed before target equality" (Publish), across crashes, lost answers,
\* late requests, retries and concurrent mutations.
LedgerComplete ==
  minted \subseteq Vault(local).pend \cup published \cup {d[1] : d \in discarded}

\* Nothing reaches the server that no push command asked for: push --only sends that
\* transaction, push --all the set pending when it started, a retry the recorded
\* IDs (Publish, projectTransactionIDs, matchesRecovery).
ScopeExact == published \subseteq requested

\* The cached identity in remote.etag names a blob the server has stored; it is what
\* the next publication uses as its precondition (commitSuccess).
CachedWasRemote == cached # 0 => cached \in everRemote

\* Finalization (which deletes ledger entries without asking the server again) runs
\* only for a target the server has stored, also when it is resumed from a
\* finalization_failed record (finalizePublishingIntent).
FinalizesStoredTarget ==
  /\ \A p \in Procs : pc[p] \in FinalLabels => intent.target \in everRemote
  /\ intent.state = "finalization_failed" => intent.target \in everRemote

\* Publishing never removes from the server what other machines published there: the
\* conditional PUT replaces exactly the version the projection was made from
\* (PreparePublication, handlePush).
PublishKeepsRemote ==
  [][\A r \in inflight : r \notin inflight' /\ remote' = r.blob /\ remote' # remote =>
        Vault(remote).base \subseteq blobs[r.blob].base]_vars

\* Only the reviewed adoption may discard a pending mutation: an ordinary pull "re-reads
\* local facts after acquiring the lock, so a local mutation saved at any earlier
\* moment is seen as divergence and kept" (installFetched).
NoSilentOverwrite == \A d \in discarded : d[2] = "adopt"

\* A version this machine has replaced is not installed again by an ordinary pull,
\* even when the server was restored from an old backup (isSuperseded).  The
\* records are best-effort: the entry of the version must not have been lost
\* to a failure commitSuccess passed over, nor the ledger be unreadable now.
NoRollbackInstalled ==
  [][\A p \in Procs :
        pc[p] = "install" /\ pc'[p] = "commit" /\ cmd[p] # "adopt" /\ faults' = faults =>
        body[p] \notin replaced \ unrecorded]_vars

\* Every version this machine has replaced is on record, unless the write of its own
\* entry or a read of the ledger failed and commitSuccess went on: also when a
\* process dies between the writes, a write after the ledger's fails, or login
\* resets the records while another process commits (recordSuperseded before
\* remote.etag, ResetSyncState under the vault lock).  Stated for a ledger that
\* does not overflow: beyond maxSuperseded versions only the mark is left.
SupersededComplete ==
  MaxBlobs <= MaxSuperseded => \A i \in replaced \ unrecorded : Holds(superseded, i)

\* After login reset the sync state, a background process started before it neither
\* replaces the vault nor moves the cached identity (ResetSyncState, lockVault).
ResetStopsBackground ==
  [][\A p \in revoked : cmd[p] = "background" =>
        ~ (pc[p] = "install" /\ pc'[p] = "commit")]_vars

\* The "already replaced" refusal is only given for a version this machine really
\* replaced (errRemoteSuperseded).
NoFalseRollback ==
  [][\A p \in Procs : pc[p] = "rollback" /\ conflict' # conflict => got[p] \in replaced]_vars

\* Adoption replaces only the local vault that the evidence it started from was recorded
\* for; "a later local change makes it fail closed" (AdoptRemote).
AdoptsOnlyReviewed ==
  [][\A p \in Procs : pc[p] = "install" /\ pc'[p] = "commit" /\ cmd[p] = "adopt" =>
        local = loaded[p]]_vars

\* Once local, cached and remote vault agree again and nothing is running, the next push
\* is not refused because of an older publication (the recovery help.go describes).
RecoveredCanPublish ==
  /\ \A p \in Procs : pc[p] = "idle"
  /\ inflight = {} /\ local = cached /\ cached = remote
  => intent.state # "divergent" \/ remote \in {intent.target, intent.prereq}

\* Every command returns: no process waits for ever for a lock, an answer or another
\* process.
CommandsReturn == \A p \in Procs : pc[p] # "idle" ~> pc[p] = "idle"
=============================================================================
