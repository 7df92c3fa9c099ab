--------------------------- MODULE VaultSyncProofs ---------------------------
(***************************************************************************)
(* Safety of VaultSync, for every value of the constants and every mix of  *)
(* commands, crashes, lost or late requests, publications of other         *)
(* machines and restores of the server.                                    *)
(*                                                                         *)
(* Types come first.  Then publication: finalization deletes ledger        *)
(* entries without asking the server again.  It is safe because the        *)
(* recorded target was stored (SessionHeld, FailedStored), contains the    *)
(* recorded IDs (IntentCovered), blobs never change once written           *)
(* (BlobsKnown: everything names a written blob), and only the holder of   *)
(* publication.lock writes the intent (SessionHeld).                       *)
(*                                                                         *)
(* Replaced versions: the ledger and remote.etag are two files, and a      *)
(* process may die between them.  SupInv says that a commit holds the      *)
(* vault lock throughout and writes the ledger first (CommitAt), so that   *)
(* every version replaced is on record (OnRecord), but for the entries a   *)
(* failure of these best-effort writes lost; a ledger of distinct entries  *)
(* as long as there are versions never drops one.                          *)
(*                                                                         *)
(* Reset: a background process from before a login has lost its claim      *)
(* (ClaimRevoked), and lockVault asks for it.                              *)
(*                                                                         *)
(* Kept remote: a publication holds everything its prerequisite held       *)
(* (KeepInv), provided nobody pulls between its load and its projection    *)
(* (PublishingOnly).                                                       *)
(***************************************************************************)
EXTENDS VaultSync, SequenceTheorems, FiniteSetTheorems, TLAPS

-----------------------------------------------------------------------------
(* Type correctness: the helpers, then one step per action.                *)

\* Identities are natural numbers; 0 is one of them.
LEMMA IdsFacts == 0 \in Ids /\ 1..MaxBlobs \subseteq Ids /\ Ids \subseteq Nat
BY BoundsAssumption DEF Ids

\* A missing vault file reads as a well-formed empty vault (config.Load).
LEMMA EmptyVaultType == EmptyVault \in Blob
BY DEF EmptyVault, Blob

\* Whatever identity a file holds, the vault it names is well formed (config.Load).
LEMMA VaultType ==
  ASSUME BlobsOK, NEW i \in Ids
  PROVE  Vault(i) \in Blob
<1>1. CASE i = 0
  BY <1>1, EmptyVaultType DEF Vault
<1>2. CASE i # 0
  <2>1. i \in 1..MaxBlobs
    BY <1>2, BoundsAssumption DEF Ids
  <2> QED BY <1>2, <2>1 DEF Vault, BlobsOK
<1> QED BY <1>1, <1>2

\* NextVaultGeneration returns a generation.
LEMMA GenerationType ==
  ASSUME TypeOK
  PROVE  NextVaultGeneration \in Nat
<1>1. Vault(local).gen \in Nat
  BY VaultType DEF TypeOK, FilesOK, Blob
<1> QED BY <1>1 DEF TypeOK, FilesOK, NextVaultGeneration

\* EncryptVault appends one blob within the bound and keeps the registry well formed.
LEMMA EncryptType ==
  ASSUME BlobsOK, CanEncrypt, NEW g \in Nat, NEW v \in Blob, EncryptVault(g, v)
  PROVE  BlobsOK' /\ nblobs + 1 \in Ids /\ nblobs + 1 \in 1..MaxBlobs
<1>1. nblobs + 1 \in 1..MaxBlobs
  BY BoundsAssumption DEF BlobsOK, CanEncrypt, Ids
<1>2. [v EXCEPT !.gen = g] \in Blob
  BY DEF Blob
<1>3. blobs' \in [1..MaxBlobs -> Blob]
  BY <1>1, <1>2 DEF BlobsOK, EncryptVault
<1> QED BY <1>1, <1>3, IdsFacts DEF BlobsOK, EncryptVault

\* Projection and finalization of a well-formed vault are well formed.
LEMMA ProjectionType ==
  ASSUME NEW v \in Blob, NEW ids \in SUBSET Tx
  PROVE  /\ ProjectIDs(v, ids) \in Blob
         /\ MarkPublished(v, ids) \in Blob
BY DEF ProjectIDs, MarkPublished, Blob

\* Removing an identity from the superseded ledger leaves a ledger.
LEMMA WithoutType ==
  ASSUME NEW s \in Seq(Ids), NEW x \in Ids
  PROVE  Without(s, x) \in Seq(Ids)
<1>1. CASE \E i \in 1..Len(s) : s[i] = x
  <2> DEFINE i == CHOOSE j \in 1..Len(s) : s[j] = x
  <2>1. i \in 1..Len(s)
    BY <1>1
  <2> HIDE DEF i
  <2>2. SubSeq(s, 1, i - 1) \in Seq(Ids)
    BY <2>1, LenProperties, SubSeqProperties
  <2>3. SubSeq(s, i + 1, Len(s)) \in Seq(Ids)
    BY <2>1, LenProperties, SubSeqProperties
  <2>4. SubSeq(s, 1, i - 1) \o SubSeq(s, i + 1, Len(s)) \in Seq(Ids)
    BY <2>2, <2>3, ConcatProperties
  <2> QED BY <1>1, <2>4 DEF Without, i
<1>2. CASE ~ \E i \in 1..Len(s) : s[i] = x
  BY <1>2 DEF Without
<1> QED BY <1>1, <1>2

\* Trimming the superseded ledger to maxSuperseded entries leaves a ledger.
LEMMA NewestType ==
  ASSUME NEW s \in Seq(Ids), NEW n \in Nat
  PROVE  Newest(s, n) \in Seq(Ids)
BY LenProperties, SubSeqProperties DEF Newest

\* recordSuperseded returns a well-formed ledger.
LEMMA SupersededType ==
  ASSUME NEW ledger \in Seq(Ids), NEW old \in Ids, NEW next \in Ids
  PROVE  RecordSuperseded(ledger, old, next) \in Seq(Ids)
<1> DEFINE kept == Without(ledger, next)
<1>1. kept \in Seq(Ids)
  BY WithoutType
<1> HIDE DEF kept
<1>2. (IF Holds(kept, old) THEN kept ELSE Append(kept, old)) \in Seq(Ids)
  BY <1>1, AppendProperties
<1>3. Newest(IF Holds(kept, old) THEN kept ELSE Append(kept, old), MaxSuperseded) \in Seq(Ids)
  BY <1>2, NewestType, BoundsAssumption
<1> QED BY <1>3 DEF RecordSuperseded, kept

\* A returning command leaves well-formed memory and locks.
LEMMA ReturnType ==
  ASSUME MemoryOK, LocksOK, NEW p \in Procs, Return(p)
  PROVE  MemoryOK' /\ LocksOK'
<1>1. LocksOK'
  BY DEF LocksOK, Return
<1>2. "idle" \in Labels /\ "none" \in Cmds
  BY DEF Labels, Cmds
<1>3. MemoryOK'
  BY <1>2, IdsFacts DEF MemoryOK, Return
<1> QED BY <1>1, <1>3

\* Conflict evidence made of three identities is well formed.
LEMMA EvidenceType ==
  ASSUME NEW l \in Ids, NEW r \in Ids, NEW c \in Ids
  PROVE  Evidence(l, r, c) \in Conflict
BY DEF Evidence, Conflict

\* The absent conflict and intent files are well formed.
LEMMA NoneType == NoConflict \in Conflict /\ NoIntent \in Intent
BY IdsFacts DEF NoConflict, Conflict, NoIntent, Intent, IntentStates

\* Recording an outcome leaves a process or nobody as the claimant.
LEMMA ClaimType ==
  ASSUME FilesOK, NEW p \in Procs
  PROVE  ClaimAfter(p) \in Procs \cup {NoProc}
BY DEF ClaimAfter, FilesOK

\* An absent superseded ledger is an empty one (clearSuperseded).
LEMMA NoLedgerType == <<>> \in Seq(Ids)
OBVIOUS

\* Fields of the intent, of the evidence and of the local vault have their types.
LEMMA FieldTypes ==
  ASSUME TypeOK
  PROVE  /\ intent.ids \in SUBSET Tx /\ intent.target \in Ids /\ intent.prereq \in Ids
         /\ conflict.local \in Ids /\ conflict.remote \in Ids
         /\ Vault(local).pend \in SUBSET Tx /\ Vault(local).base \in SUBSET (Tx \cup Foreign)
BY VaultType DEF TypeOK, FilesOK, Intent, Conflict, Blob

\* Every state change of the publishing intent keeps it well formed.
LEMMA IntentType ==
  ASSUME FilesOK, NEW i \in Ids
  PROVE  /\ [intent EXCEPT !.state = "ambiguous"] \in Intent
         /\ [intent EXCEPT !.state = "divergent"] \in Intent
         /\ [intent EXCEPT !.state = "finalization_failed"] \in Intent
         /\ [intent EXCEPT !.state = "ready", !.prereq = i] \in Intent
BY DEF FilesOK, Intent, IntentStates

\* A fault stays within the fault bound.
LEMMA FaultType ==
  ASSUME GhostsOK, Fault
  PROVE  faults' \in 0..MaxFaults
BY BoundsAssumption DEF GhostsOK, Fault

\* A read of the ledger and the mark counts at most one fault.
LEMMA ReadsType ==
  ASSUME GhostsOK, NEW ledger, NEW mark, Reads(ledger, mark)
  PROVE  faults' \in 0..MaxFaults
BY FaultType DEF Reads, GhostsOK

\* clearConflict leaves well-formed evidence, or none.
LEMMA ClearType ==
  ASSUME FilesOK, GhostsOK, ClearConflict
  PROVE  conflict' \in Conflict /\ faults' \in 0..MaxFaults
BY FaultType, NoneType DEF ClearConflict, FilesOK, GhostsOK

\* The best-effort writes of commitSuccess leave a ledger and a mark.
LEMMA LedgersType ==
  ASSUME FilesOK, GhostsOK, NEW next \in Ids, NEW gen \in Nat, NEW adopted \in BOOLEAN,
         RecordLedgers(next, gen, adopted)
  PROVE  /\ superseded' \in Seq(Ids) /\ maxSeen' \in Nat
         /\ unrecorded' \subseteq Ids /\ replaced' \subseteq Ids /\ faults' \in 0..MaxFaults
<1>1. /\ RecordSuperseded(superseded, cached, next) \in Seq(Ids)
      /\ RecordSuperseded(<<>>, cached, next) \in Seq(Ids)
  BY SupersededType, NoLedgerType DEF FilesOK
<1>2. \A i \in 1..Len(superseded) : superseded[i] \in Ids
  BY ElementOfSeq DEF FilesOK
<1>3. superseded' \in Seq(Ids) /\ maxSeen' \in Nat
  BY <1>1 DEF RecordLedgers, FilesOK
<1>4. unrecorded' \subseteq Ids /\ replaced' \subseteq Ids
  BY <1>2 DEF RecordLedgers, FilesOK, GhostsOK
<1> QED BY <1>3, <1>4, FaultType DEF RecordLedgers, GhostsOK

\* The labels and the commands, enumerated.
LEMMA LabelFacts ==
  /\ Labels = {"idle", "save", "reconcile", "project", "verify_empty", "prepare", "send",
               "await", "put_ok", "put_conflict", "put_rejected",
               "finalize", "confirm", "confirm_etag", "confirm_clear", "confirm_intent",
               "reset", "facts", "head", "check", "rollback", "decision", "fetch",
               "adopt_fetch", "install", "record", "commit", "commit_etag", "commit_clear"}
  /\ Cmds = {"none", "mutate", "status", "adopt", "push_all", "push_only",
             "sync", "pull", "login", "background"}
BY DEF Labels, Cmds, PubLabels, PullLabels, PutLabels, FinalLabels, CommitLabels, Pushes, Pulls

\* Moving to a label keeps pc well formed.
LEMMA GotoType ==
  ASSUME MemoryOK, NEW p \in Procs, NEW l \in Labels, Goto(p, l)
  PROVE  pc' \in [Procs -> Labels]
BY DEF MemoryOK, Goto

\* An answer of the server keeps pc well formed.
LEMMA AnswerType ==
  ASSUME MemoryOK, NEW r, NEW l \in Labels, Answer(r, l)
  PROVE  pc' \in [Procs -> Labels]
BY DEF MemoryOK, Answer

\* Resuming after reconciliation keeps memory and locks well formed.
LEMMA ResumeType ==
  ASSUME TypeOK, NEW p \in Procs, ResumePending(p)
  PROVE  MemoryOK' /\ LocksOK'
BY ReturnType, GotoType, LabelFacts, FieldTypes DEF ResumePending, TypeOK, MemoryOK, LocksOK, locks

\* applyRemoteIdentity continues at a label.
LEMMA AfterCheckType ==
  ASSUME NEW p, NEW ledger, NEW r, NEW b \in BOOLEAN
  PROVE  AfterCheck(p, ledger, r, b) \in Labels
BY LabelFacts DEF AfterCheck

\* A mutation of a well-formed vault is well formed (applyMutation).
LEMMA AddPendingType ==
  ASSUME NEW v \in Blob, NEW t \in Tx
  PROVE  AddPending(v, t) \in Blob
BY DEF AddPending, Blob

\* Every action preserves the type invariant.
LEMMA TypeStep ==
  ASSUME TypeOK, Next
  PROVE  TypeOK'
<1>1. ASSUME NEW p \in Procs, StartMutate(p) PROVE TypeOK'
  BY <1>1, ReturnType, EvidenceType, NoneType, ClaimType, GotoType, LabelFacts, IdsFacts
     DEF StartMutate, Start, TypeOK, FilesOK, LocksOK, NetOK, BlobsOK, MemoryOK, GhostsOK,
         disk, locks, net, memory, ghosts
<1>2. ASSUME NEW p \in Procs, SaveMutation(p) PROVE TypeOK'
  <2> USE <1>2 DEF SaveMutation
  <2>1. LocksOK' /\ MemoryOK' /\ NetOK'
    BY ReturnType DEF TypeOK, NetOK, net
  <2>2. CASE local # loaded[p]
    BY <2>1, <2>2 DEF TypeOK, FilesOK, BlobsOK, GhostsOK
  <2>3. CASE local = loaded[p]
    <3>1. PICK t \in Tx \ minted :
             /\ EncryptVault(NextVaultGeneration, AddPending(Vault(local), t))
             /\ minted' = minted \cup {t}
      BY <2>3
    <3>2. BlobsOK' /\ nblobs + 1 \in Ids
      BY <2>3, <3>1, AddPendingType, VaultType, GenerationType, EncryptType DEF TypeOK, FilesOK
    <3>3. FilesOK' /\ GhostsOK'
      BY <2>3, <3>1, <3>2 DEF TypeOK, FilesOK, GhostsOK
    <3> QED BY <2>1, <3>2, <3>3 DEF TypeOK
  <2> QED BY <2>2, <2>3
<1>3. ASSUME NEW p \in Procs, StartPushAll(p) PROVE TypeOK'
  <2> USE <1>3 DEF StartPushAll
  <2>1. FilesOK'
    BY EvidenceType, NoneType, ClaimType, IntentType, FieldTypes, IdsFacts DEF TypeOK, FilesOK, MemoryOK, NetOK, disk
  <2>2. LocksOK' /\ MemoryOK'
    BY GotoType, LabelFacts, FieldTypes DEF TypeOK, LocksOK, MemoryOK, FilesOK, Start
  <2>3. NetOK' /\ BlobsOK'
    BY DEF TypeOK, NetOK, BlobsOK, net
  <2>4. GhostsOK'
    BY FaultType, FieldTypes, IdsFacts DEF TypeOK, GhostsOK, FilesOK, ghosts
  <2> QED BY <2>1, <2>2, <2>3, <2>4 DEF TypeOK
<1>4. ASSUME NEW p \in Procs, StartPushOnly(p) PROVE TypeOK'
  <2> USE <1>4 DEF StartPushOnly
  <2>1. FilesOK'
    BY EvidenceType, NoneType, ClaimType, IntentType, FieldTypes, IdsFacts DEF TypeOK, FilesOK, MemoryOK, NetOK, disk
  <2>2. LocksOK' /\ MemoryOK'
    BY GotoType, LabelFacts DEF TypeOK, LocksOK, MemoryOK, FilesOK, GhostsOK, Start
  <2>3. NetOK' /\ BlobsOK'
    BY DEF TypeOK, NetOK, BlobsOK, net
  <2>4. GhostsOK'
    BY FaultType, FieldTypes, IdsFacts DEF TypeOK, GhostsOK, FilesOK, ghosts
  <2> QED BY <2>1, <2>2, <2>3, <2>4 DEF TypeOK
<1>5. ASSUME NEW p \in Procs, StartStatus(p) PROVE TypeOK'
  BY <1>5, ReturnType, EvidenceType, NoneType, ClaimType, GotoType, LabelFacts, IdsFacts
     DEF StartStatus, Start, TypeOK, FilesOK, LocksOK, NetOK, BlobsOK, MemoryOK, GhostsOK,
         disk, locks, net, memory, ghosts
<1>6. ASSUME NEW p \in Procs, ReconcileLocal(p) PROVE TypeOK'
  <2> USE <1>6 DEF ReconcileLocal
  <2>1. FilesOK'
    BY EvidenceType, NoneType, ClaimType, IntentType, FieldTypes, IdsFacts DEF TypeOK, FilesOK, MemoryOK, NetOK, disk
  <2>2. LocksOK' /\ MemoryOK'
    BY ReturnType, ResumeType, GotoType, LabelFacts DEF TypeOK, LocksOK, MemoryOK, locks
  <2>3. NetOK' /\ BlobsOK'
    BY DEF TypeOK, NetOK, BlobsOK, net
  <2>4. GhostsOK'
    BY FaultType, FieldTypes, IdsFacts DEF TypeOK, GhostsOK, FilesOK, ghosts
  <2> QED BY <2>1, <2>2, <2>3, <2>4 DEF TypeOK
<1>7. ASSUME NEW p \in Procs, ReconcileRemote(p) PROVE TypeOK'
  <2> USE <1>7 DEF ReconcileRemote
  <2>1. FilesOK'
    BY EvidenceType, NoneType, ClaimType, IntentType, FieldTypes, IdsFacts DEF TypeOK, FilesOK, MemoryOK, NetOK, disk
  <2>2. LocksOK' /\ MemoryOK'
    BY ReturnType, ResumeType, GotoType, LabelFacts DEF TypeOK, LocksOK, MemoryOK, locks
  <2>3. NetOK' /\ BlobsOK'
    BY DEF TypeOK, NetOK, BlobsOK, net
  <2>4. GhostsOK'
    BY FaultType, FieldTypes, IdsFacts DEF TypeOK, GhostsOK, FilesOK, ghosts
  <2> QED BY <2>1, <2>2, <2>3, <2>4 DEF TypeOK
<1>8. ASSUME NEW p \in Procs, Project(p) PROVE TypeOK'
  <2>1. Vault(loaded[p]) \in Blob /\ want[p] \in SUBSET Tx
    BY VaultType DEF TypeOK, MemoryOK
  <2>2. NetOK' /\ GhostsOK'
    BY <1>8 DEF Project, TypeOK, NetOK, GhostsOK, net, ghosts
  <2>3. LocksOK' /\ MemoryOK'
    <3>1. CASE Return(p)
      BY <3>1, ReturnType DEF TypeOK
    <3>2. CASE /\ UNCHANGED <<locks, cmd, loaded, got, body, want>>
              /\ seen' = [seen EXCEPT ![p] = cached] /\ Goto(p, "prepare")
      BY <3>2, GotoType, LabelFacts DEF TypeOK, LocksOK, MemoryOK, FilesOK, locks
    <3>3. CASE /\ UNCHANGED <<locks, cmd, got, body, want>>
              /\ seen' = [seen EXCEPT ![p] = cached] /\ Goto(p, "verify_empty")
              /\ loaded' = [loaded EXCEPT ![p] = local]
      BY <3>3, GotoType, LabelFacts DEF TypeOK, LocksOK, MemoryOK, FilesOK, locks
    <3> QED BY <1>8, <3>1, <3>2, <3>3 DEF Project
  <2>4. CASE UNCHANGED <<intent, blobs, nblobs>>
    BY <1>8, <2>2, <2>3, <2>4 DEF Project, TypeOK, FilesOK, BlobsOK
  <2>5. CASE /\ CanEncrypt
            /\ EncryptVault(NextVaultGeneration, ProjectIDs(Vault(loaded[p]), want[p]))
            /\ intent' = [state |-> "prepared",
                          scope |-> IF cmd[p] = "push_all" THEN "all" ELSE "only",
                          ids |-> want[p], target |-> nblobs + 1, prereq |-> cached]
    <3>1. BlobsOK' /\ nblobs + 1 \in Ids
      BY <2>1, <2>5, ProjectionType, GenerationType, EncryptType DEF TypeOK
    <3>2. intent' \in Intent
      BY <2>1, <2>5, <3>1 DEF TypeOK, FilesOK, Intent, IntentStates
    <3> QED BY <1>8, <2>2, <2>3, <3>1, <3>2 DEF Project, TypeOK, FilesOK
  <2> QED BY <1>8, <2>4, <2>5 DEF Project
<1>9. ASSUME NEW p \in Procs, VerifyEmpty(p) PROVE TypeOK'
  BY <1>9, ReturnType, EvidenceType, NoneType, ClaimType, GotoType, LabelFacts, IdsFacts
     DEF VerifyEmpty, Start, TypeOK, FilesOK, LocksOK, NetOK, BlobsOK, MemoryOK, GhostsOK,
         disk, locks, net, memory, ghosts
<1>10. ASSUME NEW p \in Procs, Prepare(p) PROVE TypeOK'
  <2> USE <1>10 DEF Prepare
  <2>1. FilesOK'
    BY EvidenceType, NoneType, ClaimType, IntentType, FieldTypes, IdsFacts DEF TypeOK, FilesOK, MemoryOK, NetOK, disk
  <2>2. LocksOK' /\ MemoryOK'
    BY ReturnType, GotoType, LabelFacts, IdsFacts DEF TypeOK, LocksOK, MemoryOK, FilesOK, NetOK, locks, memory, Start
  <2>3. NetOK' /\ BlobsOK'
    BY DEF TypeOK, NetOK, BlobsOK, net
  <2>4. GhostsOK'
    BY FaultType, FieldTypes, IdsFacts DEF TypeOK, GhostsOK, FilesOK, ghosts
  <2> QED BY <2>1, <2>2, <2>3, <2>4 DEF TypeOK
<1>11. ASSUME NEW p \in Procs, Send(p) PROVE TypeOK'
  <2> USE <1>11 DEF Send
  <2>1. FilesOK'
    <3>1. CASE remote = intent.prereq
      BY <3>1 DEF TypeOK, FilesOK
    <3>2. CASE remote # intent.prereq
      <4>1. intent' \in Intent
        BY <3>2, IntentType, IdsFacts DEF TypeOK
      <4>2. conflict' \in Conflict
        BY <3>2, EvidenceType, FieldTypes DEF TypeOK, NetOK
      <4> QED BY <3>2, <4>1, <4>2, ClaimType DEF TypeOK, FilesOK
    <3> QED BY <3>1, <3>2
  <2>2. LocksOK' /\ MemoryOK'
    BY ReturnType, GotoType, LabelFacts DEF TypeOK, LocksOK, MemoryOK, locks
  <2>3. [blob |-> intent.target, prereq |-> intent.prereq, proc |-> p] \in Request
    BY FieldTypes DEF TypeOK, Request
  <2>4. NetOK' /\ BlobsOK' /\ GhostsOK'
    BY <2>3 DEF TypeOK, NetOK, BlobsOK, GhostsOK, ghosts
  <2> QED BY <2>1, <2>2, <2>4 DEF TypeOK
<1>12. ASSUME NEW p \in Procs, HeadFails(p) PROVE TypeOK'
  <2> USE <1>12 DEF HeadFails
  <2>1. FilesOK'
    BY EvidenceType, NoneType, ClaimType, IntentType, FieldTypes, IdsFacts DEF TypeOK, FilesOK, MemoryOK, NetOK, disk
  <2>2. LocksOK' /\ MemoryOK'
    BY ReturnType, GotoType, LabelFacts, IdsFacts DEF TypeOK, LocksOK, MemoryOK, FilesOK, NetOK, locks, memory, Start
  <2>3. NetOK' /\ BlobsOK'
    BY DEF TypeOK, NetOK, BlobsOK, net
  <2>4. GhostsOK'
    BY FaultType, FieldTypes, IdsFacts DEF TypeOK, GhostsOK, FilesOK, ghosts
  <2> QED BY <2>1, <2>2, <2>3, <2>4 DEF TypeOK
<1>13. ASSUME NEW p \in Procs, PutAmbiguous(p) PROVE TypeOK'
  <2> USE <1>13 DEF PutAmbiguous
  <2>1. FilesOK'
    BY EvidenceType, NoneType, ClaimType, IntentType, FieldTypes, IdsFacts DEF TypeOK, FilesOK, MemoryOK, NetOK, disk
  <2>2. LocksOK' /\ MemoryOK'
    BY ReturnType, GotoType, LabelFacts, IdsFacts DEF TypeOK, LocksOK, MemoryOK, FilesOK, NetOK, locks, memory, Start
  <2>3. NetOK' /\ BlobsOK'
    BY DEF TypeOK, NetOK, BlobsOK, net
  <2>4. GhostsOK'
    BY FaultType, FieldTypes, IdsFacts DEF TypeOK, GhostsOK, FilesOK, ghosts
  <2> QED BY <2>1, <2>2, <2>3, <2>4 DEF TypeOK
<1>14. ASSUME NEW p \in Procs, PutOk(p) PROVE TypeOK'
  BY <1>14, ReturnType, EvidenceType, NoneType, ClaimType, GotoType, LabelFacts, IdsFacts
     DEF PutOk, Start, TypeOK, FilesOK, LocksOK, NetOK, BlobsOK, MemoryOK, GhostsOK,
         disk, locks, net, memory, ghosts
<1>15. ASSUME NEW p \in Procs, PutConflict(p) PROVE TypeOK'
  <2> USE <1>15 DEF PutConflict
  <2>1. FilesOK'
    BY EvidenceType, NoneType, ClaimType, IntentType, FieldTypes, IdsFacts DEF TypeOK, FilesOK, MemoryOK, NetOK, disk
  <2>2. LocksOK' /\ MemoryOK'
    BY ReturnType, GotoType, LabelFacts, IdsFacts DEF TypeOK, LocksOK, MemoryOK, FilesOK, NetOK, locks, memory, Start
  <2>3. NetOK' /\ BlobsOK'
    BY DEF TypeOK, NetOK, BlobsOK, net
  <2>4. GhostsOK'
    BY FaultType, FieldTypes, IdsFacts DEF TypeOK, GhostsOK, FilesOK, ghosts
  <2> QED BY <2>1, <2>2, <2>3, <2>4 DEF TypeOK
<1>16. ASSUME NEW p \in Procs, PutRejected(p) PROVE TypeOK'
  BY <1>16, ReturnType, EvidenceType, NoneType, ClaimType, GotoType, LabelFacts, IdsFacts
     DEF PutRejected, Start, TypeOK, FilesOK, LocksOK, NetOK, BlobsOK, MemoryOK, GhostsOK,
         disk, locks, net, memory, ghosts
<1>17. ASSUME NEW p \in Procs, Finalize(p) PROVE TypeOK'
  <2> USE <1>17 DEF Finalize
  <2>1. Vault(local) \in Blob /\ intent.ids \in SUBSET Tx
    BY VaultType, FieldTypes DEF TypeOK, FilesOK
  <2>2. LocksOK' /\ MemoryOK' /\ NetOK' /\ GhostsOK'
    BY GotoType, LabelFacts DEF TypeOK, LocksOK, MemoryOK, NetOK, GhostsOK, net, ghosts
  <2>3. CASE UNCHANGED <<local, blobs, nblobs, intent>>
    BY <2>2, <2>3 DEF TypeOK, FilesOK, BlobsOK
  <2>4. CASE /\ CanEncrypt
            /\ EncryptVault(NextVaultGeneration, MarkPublished(Vault(local), intent.ids))
            /\ local' = nblobs + 1 /\ UNCHANGED intent
    <3>1. BlobsOK' /\ nblobs + 1 \in Ids
      BY <2>1, <2>4, ProjectionType, GenerationType, EncryptType DEF TypeOK
    <3> QED BY <2>2, <2>4, <3>1 DEF TypeOK, FilesOK
  <2> QED BY <2>3, <2>4
<1>18. ASSUME NEW p \in Procs, FinalizeFails(p) PROVE TypeOK'
  <2> USE <1>18 DEF FinalizeFails
  <2>1. FilesOK'
    BY EvidenceType, NoneType, ClaimType, IntentType, FieldTypes, IdsFacts DEF TypeOK, FilesOK, MemoryOK, NetOK, disk
  <2>2. LocksOK' /\ MemoryOK'
    BY ReturnType, GotoType, LabelFacts, IdsFacts DEF TypeOK, LocksOK, MemoryOK, FilesOK, NetOK, locks, memory, Start
  <2>3. NetOK' /\ BlobsOK'
    BY DEF TypeOK, NetOK, BlobsOK, net
  <2>4. GhostsOK'
    BY FaultType, FieldTypes, IdsFacts DEF TypeOK, GhostsOK, FilesOK, ghosts
  <2> QED BY <2>1, <2>2, <2>3, <2>4 DEF TypeOK
<1>19. ASSUME NEW p \in Procs, ConfirmLedgers(p) PROVE TypeOK'
  <2> USE <1>19 DEF ConfirmLedgers
  <2>0. intent.target \in Ids /\ Vault(local).gen \in Nat
    BY FieldTypes, VaultType DEF TypeOK, FilesOK, Blob
  <2>1. FilesOK'
    BY <2>0, LedgersType DEF TypeOK, FilesOK
  <2>2. LocksOK' /\ MemoryOK'
    BY ReturnType, GotoType, LabelFacts, IdsFacts DEF TypeOK, LocksOK, MemoryOK, FilesOK, NetOK, locks, memory, Start
  <2>3. NetOK' /\ BlobsOK'
    BY DEF TypeOK, NetOK, BlobsOK, net
  <2>4. GhostsOK'
    BY <2>0, LedgersType DEF TypeOK, GhostsOK
  <2> QED BY <2>1, <2>2, <2>3, <2>4 DEF TypeOK
<1>20. ASSUME NEW p \in Procs, ConfirmETag(p) PROVE TypeOK'
  <2> USE <1>20 DEF ConfirmETag
  <2>1. FilesOK'
    BY FieldTypes DEF TypeOK, FilesOK, ConfirmedIdentity
  <2>2. LocksOK' /\ MemoryOK'
    BY ReturnType, GotoType, LabelFacts, IdsFacts DEF TypeOK, LocksOK, MemoryOK, FilesOK, NetOK, locks, memory, Start
  <2>3. NetOK' /\ BlobsOK'
    BY DEF TypeOK, NetOK, BlobsOK, net
  <2>4. GhostsOK'
    BY FaultType, FieldTypes, IdsFacts DEF TypeOK, GhostsOK, FilesOK, ghosts
  <2> QED BY <2>1, <2>2, <2>3, <2>4 DEF TypeOK
<1>21. ASSUME NEW p \in Procs, ConfirmClear(p) PROVE TypeOK'
  BY <1>21, ReturnType, ClearType, ClaimType, GotoType, LabelFacts, IdsFacts
     DEF ConfirmClear, Start, TypeOK, FilesOK, LocksOK, NetOK, BlobsOK, MemoryOK, GhostsOK,
         disk, locks, net, memory, ghosts
<1>22. ASSUME NEW p \in Procs, ConfirmIntent(p) PROVE TypeOK'
  BY <1>22, ReturnType, EvidenceType, NoneType, ClaimType, GotoType, LabelFacts, IdsFacts
     DEF ConfirmIntent, Start, TypeOK, FilesOK, LocksOK, NetOK, BlobsOK, MemoryOK, GhostsOK,
         disk, locks, net, memory, ghosts
<1>23. ASSUME NEW p \in Procs, StartPull(p) PROVE TypeOK'
  BY <1>23, ReturnType, EvidenceType, NoneType, ClaimType, GotoType, LabelFacts, IdsFacts
     DEF StartPull, Start, TypeOK, FilesOK, LocksOK, NetOK, BlobsOK, MemoryOK, GhostsOK,
         disk, locks, net, memory, ghosts
<1>24. ASSUME NEW p \in Procs, StartLogin(p) PROVE TypeOK'
  BY <1>24, ReturnType, EvidenceType, NoneType, ClaimType, GotoType, LabelFacts, IdsFacts
     DEF StartLogin, Start, TypeOK, FilesOK, LocksOK, NetOK, BlobsOK, MemoryOK, GhostsOK,
         disk, locks, net, memory, ghosts
<1>25. ASSUME NEW p \in Procs, Reset(p) PROVE TypeOK'
  <2> USE <1>25 DEF Reset
  <2>1. LocksOK' /\ MemoryOK' /\ NetOK' /\ BlobsOK'
    BY GotoType, LabelFacts DEF TypeOK, LocksOK, MemoryOK, NetOK, BlobsOK, locks, net
  <2>2. superseded' \in Seq(Ids) /\ maxSeen' \in Nat
    <3>1. superseded \in Seq(Ids) /\ maxSeen \in Nat
      BY DEF TypeOK, FilesOK
    <3>2. superseded' = superseded \/ superseded' = <<>>
      OBVIOUS
    <3>3. superseded' \in Seq(Ids)
      BY <3>1, <3>2, NoLedgerType
    <3> QED BY <3>1, <3>3
  <2>3. FilesOK'
    BY <2>2 DEF TypeOK, FilesOK
  <2>4. GhostsOK'
    BY FaultType DEF TypeOK, GhostsOK
  <2> QED BY <2>1, <2>3, <2>4 DEF TypeOK
<1>26. ASSUME NEW p \in Procs, StartBackground(p) PROVE TypeOK'
  BY <1>26, ReturnType, EvidenceType, NoneType, ClaimType, GotoType, LabelFacts, IdsFacts
     DEF StartBackground, Start, TypeOK, FilesOK, LocksOK, NetOK, BlobsOK, MemoryOK, GhostsOK,
         disk, locks, net, memory, ghosts
<1>27. ASSUME NEW p \in Procs, ReadFacts(p) PROVE TypeOK'
  BY <1>27, ReturnType, EvidenceType, NoneType, ClaimType, GotoType, LabelFacts, IdsFacts
     DEF ReadFacts, Start, TypeOK, FilesOK, LocksOK, NetOK, BlobsOK, MemoryOK, GhostsOK,
         disk, locks, net, memory, ghosts
<1>28. ASSUME NEW p \in Procs, PullHead(p) PROVE TypeOK'
  <2> USE <1>28 DEF PullHead
  <2>1. FilesOK'
    BY EvidenceType, NoneType, ClaimType, IntentType, FieldTypes, IdsFacts DEF TypeOK, FilesOK, MemoryOK, NetOK, disk
  <2>2. LocksOK' /\ MemoryOK'
    BY ReturnType, GotoType, LabelFacts, IdsFacts DEF TypeOK, LocksOK, MemoryOK, FilesOK, NetOK, locks, memory, Start
  <2>3. NetOK' /\ BlobsOK'
    BY DEF TypeOK, NetOK, BlobsOK, net
  <2>4. GhostsOK'
    BY FaultType, FieldTypes, IdsFacts DEF TypeOK, GhostsOK, FilesOK, ghosts
  <2> QED BY <2>1, <2>2, <2>3, <2>4 DEF TypeOK
<1>29. ASSUME NEW p \in Procs, Check(p) PROVE TypeOK'
  <2> USE <1>29 DEF Check
  <2>1. FilesOK' /\ NetOK' /\ BlobsOK' /\ GhostsOK'
    BY ClaimType, ReadsType DEF TypeOK, FilesOK, NetOK, BlobsOK, GhostsOK, net, ghosts
  <2>2. LocksOK' /\ MemoryOK'
    <3>1. CASE Return(p)
      BY <3>1, ReturnType DEF TypeOK
    <3>2. ASSUME NEW ledger, NEW mark,
                 got' = [got EXCEPT ![p] = remote], body' = [body EXCEPT ![p] = remote],
                 Goto(p, IF RolledBack(mark, remote) THEN "rollback"
                         ELSE AfterCheck(p, ledger, remote, TRUE)),
                 UNCHANGED <<claim, locks, cmd, loaded, seen, want>>
          PROVE  LocksOK' /\ MemoryOK'
      <4>1. (IF RolledBack(mark, remote) THEN "rollback"
             ELSE AfterCheck(p, ledger, remote, TRUE)) \in Labels
        BY AfterCheckType, LabelFacts
      <4> QED BY <3>2, <4>1, GotoType DEF TypeOK, LocksOK, MemoryOK, NetOK, locks
    <3>3. ASSUME NEW ledger, Goto(p, AfterCheck(p, ledger, got[p], FALSE)),
                 UNCHANGED <<claim, locks, cmd, loaded, seen, got, body, want>>
          PROVE  LocksOK' /\ MemoryOK'
      BY <3>3, AfterCheckType, GotoType DEF TypeOK, LocksOK, MemoryOK, locks
    <3> QED BY <3>1, <3>2, <3>3
  <2> QED BY <2>1, <2>2 DEF TypeOK
<1>30. ASSUME NEW p \in Procs, LockRefused(p) PROVE TypeOK'
  BY <1>30, ReturnType, EvidenceType, NoneType, ClaimType, GotoType, LabelFacts, IdsFacts
     DEF LockRefused, Start, TypeOK, FilesOK, LocksOK, NetOK, BlobsOK, MemoryOK, GhostsOK,
         disk, locks, net, memory, ghosts
<1>31. ASSUME NEW p \in Procs, MutationBusy(p) PROVE TypeOK'
  BY <1>31, ReturnType, EvidenceType, NoneType, ClaimType, GotoType, LabelFacts, IdsFacts
     DEF MutationBusy, Start, TypeOK, FilesOK, LocksOK, NetOK, BlobsOK, MemoryOK, GhostsOK,
         disk, locks, net, memory, ghosts
<1>32. ASSUME NEW p \in Procs, RollbackFound(p) PROVE TypeOK'
  BY <1>32, ReturnType, EvidenceType, NoneType, ClaimType, GotoType, LabelFacts, IdsFacts
     DEF RollbackFound, Start, TypeOK, FilesOK, LocksOK, NetOK, BlobsOK, MemoryOK, GhostsOK,
         disk, locks, net, memory, ghosts
<1>33. ASSUME NEW p \in Procs, Decide(p) PROVE TypeOK'
  <2> USE <1>33 DEF Decide
  <2>1. FilesOK'
    BY EvidenceType, NoneType, ClaimType, IntentType, FieldTypes, IdsFacts DEF TypeOK, FilesOK, MemoryOK, NetOK, disk
  <2>2. LocksOK' /\ MemoryOK'
    BY ReturnType, GotoType, LabelFacts, IdsFacts DEF TypeOK, LocksOK, MemoryOK, FilesOK, NetOK, locks, memory, Start
  <2>3. NetOK' /\ BlobsOK'
    BY DEF TypeOK, NetOK, BlobsOK, net
  <2>4. GhostsOK'
    BY ReadsType, FieldTypes, IdsFacts DEF TypeOK, GhostsOK, FilesOK, ghosts
  <2> QED BY <2>1, <2>2, <2>3, <2>4 DEF TypeOK
<1>34. ASSUME NEW p \in Procs, Fetch(p) PROVE TypeOK'
  BY <1>34, ReturnType, EvidenceType, NoneType, ClaimType, GotoType, LabelFacts, IdsFacts
     DEF Fetch, Start, TypeOK, FilesOK, LocksOK, NetOK, BlobsOK, MemoryOK, GhostsOK,
         disk, locks, net, memory, ghosts
<1>35. ASSUME NEW p \in Procs, PullFails(p) PROVE TypeOK'
  <2> USE <1>35 DEF PullFails
  <2>1. FilesOK'
    BY EvidenceType, NoneType, ClaimType, IntentType, FieldTypes, IdsFacts DEF TypeOK, FilesOK, MemoryOK, NetOK, disk
  <2>2. LocksOK' /\ MemoryOK'
    BY ReturnType, GotoType, LabelFacts, IdsFacts DEF TypeOK, LocksOK, MemoryOK, FilesOK, NetOK, locks, memory, Start
  <2>3. NetOK' /\ BlobsOK'
    BY DEF TypeOK, NetOK, BlobsOK, net
  <2>4. GhostsOK'
    BY FaultType, FieldTypes, IdsFacts DEF TypeOK, GhostsOK, FilesOK, ghosts
  <2> QED BY <2>1, <2>2, <2>3, <2>4 DEF TypeOK
<1>36. ASSUME NEW p \in Procs, StartAdopt(p) PROVE TypeOK'
  <2> USE <1>36 DEF StartAdopt
  <2>1. FilesOK'
    BY EvidenceType, NoneType, ClaimType, IntentType, FieldTypes, IdsFacts DEF TypeOK, FilesOK, MemoryOK, NetOK, disk
  <2>2. LocksOK' /\ MemoryOK'
    BY GotoType, LabelFacts, FieldTypes DEF TypeOK, LocksOK, MemoryOK, FilesOK, Start, locks
  <2>3. NetOK' /\ BlobsOK'
    BY DEF TypeOK, NetOK, BlobsOK, net
  <2>4. GhostsOK'
    BY FaultType, FieldTypes, IdsFacts DEF TypeOK, GhostsOK, FilesOK, ghosts
  <2> QED BY <2>1, <2>2, <2>3, <2>4 DEF TypeOK
<1>37. ASSUME NEW p \in Procs, AdoptFetch(p) PROVE TypeOK'
  BY <1>37, ReturnType, EvidenceType, NoneType, ClaimType, GotoType, LabelFacts, IdsFacts
     DEF AdoptFetch, Start, TypeOK, FilesOK, LocksOK, NetOK, BlobsOK, MemoryOK, GhostsOK,
         disk, locks, net, memory, ghosts
<1>38. ASSUME NEW p \in Procs, InstallRefused(p) PROVE TypeOK'
  <2> USE <1>38 DEF InstallRefused
  <2>1. FilesOK'
    BY EvidenceType, NoneType, ClaimType, IntentType, FieldTypes, IdsFacts DEF TypeOK, FilesOK, MemoryOK, NetOK, disk
  <2>2. LocksOK' /\ MemoryOK'
    BY ReturnType, GotoType, LabelFacts, IdsFacts DEF TypeOK, LocksOK, MemoryOK, FilesOK, NetOK, locks, memory, Start
  <2>3. NetOK' /\ BlobsOK'
    BY DEF TypeOK, NetOK, BlobsOK, net
  <2>4. GhostsOK'
    BY ReadsType, FieldTypes, IdsFacts DEF TypeOK, GhostsOK, FilesOK, ghosts
  <2> QED BY <2>1, <2>2, <2>3, <2>4 DEF TypeOK
<1>39. ASSUME NEW p \in Procs, Install(p) PROVE TypeOK'
  <2> USE <1>39 DEF Install
  <2>1. FilesOK'
    BY EvidenceType, NoneType, ClaimType, IntentType, FieldTypes, IdsFacts DEF TypeOK, FilesOK, MemoryOK, NetOK, disk
  <2>2. LocksOK' /\ MemoryOK'
    BY ReturnType, GotoType, LabelFacts, IdsFacts DEF TypeOK, LocksOK, MemoryOK, FilesOK, NetOK, locks, memory, Start
  <2>3. NetOK' /\ BlobsOK'
    BY DEF TypeOK, NetOK, BlobsOK, net
  <2>4. GhostsOK'
    <3>1. Vault(local).pend \subseteq Tx /\ cmd[p] \in Cmds
      BY FieldTypes DEF TypeOK, MemoryOK
    <3>2. discarded' \subseteq Tx \X Cmds
      BY <3>1 DEF TypeOK, GhostsOK
    <3> QED BY <3>2, ReadsType DEF TypeOK, GhostsOK
  <2> QED BY <2>1, <2>2, <2>3, <2>4 DEF TypeOK
<1>40. ASSUME NEW p \in Procs, CommitLedgers(p) PROVE TypeOK'
  <2> USE <1>40 DEF CommitLedgers
  <2>0. body[p] \in Ids /\ Vault(body[p]).gen \in Nat
    BY VaultType DEF TypeOK, MemoryOK, Blob
  <2>1. FilesOK'
    BY <2>0, LedgersType DEF TypeOK, FilesOK
  <2>2. LocksOK' /\ MemoryOK'
    BY ReturnType, GotoType, LabelFacts, IdsFacts DEF TypeOK, LocksOK, MemoryOK, FilesOK, NetOK, locks, memory, Start
  <2>3. NetOK' /\ BlobsOK'
    BY DEF TypeOK, NetOK, BlobsOK, net
  <2>4. GhostsOK'
    BY <2>0, LedgersType DEF TypeOK, GhostsOK
  <2> QED BY <2>1, <2>2, <2>3, <2>4 DEF TypeOK
<1>41. ASSUME NEW p \in Procs, CommitETag(p) PROVE TypeOK'
  BY <1>41, FaultType, GotoType, LabelFacts
     DEF CommitETag, Start, TypeOK, FilesOK, LocksOK, NetOK, BlobsOK, MemoryOK, GhostsOK,
         disk, locks, net, memory, ghosts
<1>42. ASSUME NEW p \in Procs, CommitClear(p) PROVE TypeOK'
  BY <1>42, ReturnType, ClearType, GotoType, LabelFacts
     DEF CommitClear, Start, TypeOK, FilesOK, LocksOK, NetOK, BlobsOK, MemoryOK, GhostsOK,
         disk, locks, net, memory, ghosts
<1>43. ASSUME NEW p \in Procs, RecordSuccess(p) PROVE TypeOK'
  BY <1>43, ReturnType, EvidenceType, NoneType, ClaimType, GotoType, LabelFacts, IdsFacts
     DEF RecordSuccess, Start, TypeOK, FilesOK, LocksOK, NetOK, BlobsOK, MemoryOK, GhostsOK,
         disk, locks, net, memory, ghosts
<1>44. ASSUME NEW p \in Procs, Crash(p) PROVE TypeOK'
  <2> USE <1>44 DEF Crash
  <2>1. FilesOK'
    BY EvidenceType, NoneType, ClaimType, IntentType, FieldTypes, IdsFacts DEF TypeOK, FilesOK, MemoryOK, NetOK, disk
  <2>2. LocksOK' /\ MemoryOK'
    BY ReturnType, GotoType, LabelFacts, IdsFacts DEF TypeOK, LocksOK, MemoryOK, FilesOK, NetOK, locks, memory, Start
  <2>3. NetOK' /\ BlobsOK'
    BY DEF TypeOK, NetOK, BlobsOK, net
  <2>4. GhostsOK'
    BY FaultType, FieldTypes, IdsFacts DEF TypeOK, GhostsOK, FilesOK, ghosts
  <2> QED BY <2>1, <2>2, <2>3, <2>4 DEF TypeOK
<1>45. ASSUME NEW r \in inflight, ServerStore(r) \/ ServerRefuse(r) \/ ServerError(r) \/ LoseRequest(r)
      PROVE TypeOK'
  <2> USE <1>45 DEF ServerStore, ServerRefuse, ServerError, LoseRequest
  <2>1. r.blob \in Ids /\ r.proc \in Procs
    BY DEF TypeOK, NetOK, Request
  <2>2. FilesOK' /\ LocksOK' /\ BlobsOK'
    BY DEF TypeOK, FilesOK, LocksOK, BlobsOK, disk, locks
  <2>3. pc' \in [Procs -> Labels]
    BY <2>1, AnswerType, LabelFacts DEF TypeOK, MemoryOK, memory
  <2>4. MemoryOK'
    BY <2>3 DEF TypeOK, MemoryOK, memory
  <2>5. NetOK'
    BY <2>1 DEF TypeOK, NetOK, Store
  <2>6. GhostsOK'
    BY <2>1, FaultType DEF TypeOK, GhostsOK, Store, ghosts
  <2> QED BY <2>2, <2>4, <2>5, <2>6 DEF TypeOK
<1>46. ASSUME OtherPublish PROVE TypeOK'
  <2> USE <1>46 DEF OtherPublish
  <2>1. Vault(remote) \in Blob
    BY VaultType DEF TypeOK, NetOK
  <2>2. PICK f \in Foreign :
           EncryptVault(Vault(remote).gen + 2, [Vault(remote) EXCEPT !.base = @ \cup {f}])
    OBVIOUS
  <2>3. Vault(remote).gen + 2 \in Nat /\ [Vault(remote) EXCEPT !.base = @ \cup {f}] \in Blob
    BY <2>1 DEF Blob
  <2>4. BlobsOK' /\ nblobs + 1 \in Ids
    BY <2>2, <2>3, EncryptType DEF TypeOK
  <2>5. FilesOK' /\ LocksOK' /\ MemoryOK'
    BY DEF TypeOK, FilesOK, LocksOK, MemoryOK, disk, locks, memory
  <2>6. NetOK' /\ GhostsOK'
    BY <2>4 DEF TypeOK, NetOK, GhostsOK
  <2> QED BY <2>4, <2>5, <2>6 DEF TypeOK
<1>47. ASSUME RestoreRemote PROVE TypeOK'
  BY <1>47, BoundsAssumption DEF RestoreRemote, TypeOK, FilesOK, LocksOK, NetOK, BlobsOK, MemoryOK, GhostsOK,
     disk, locks, memory, ghosts
<1> QED
  BY <1>1, <1>2, <1>3, <1>4, <1>5, <1>6, <1>7, <1>8, <1>9, <1>10, <1>11, <1>12, <1>13, <1>14,
     <1>15, <1>16, <1>17, <1>18, <1>19, <1>20, <1>21, <1>22, <1>23, <1>24, <1>25, <1>26,
     <1>27, <1>28, <1>29, <1>30, <1>31, <1>32, <1>33, <1>34, <1>35, <1>36, <1>37, <1>38,
     <1>39, <1>40, <1>41, <1>42, <1>43, <1>44, <1>45, <1>46, <1>47
     DEF Next, Command, Step, Failure, Server

\* The initial situations are well formed.
LEMMA TypeInit == Init => TypeOK
<1> SUFFICES ASSUME Init PROVE TypeOK
  OBVIOUS
<1>1. 1 \in Ids /\ 2 \in Ids /\ 0 \in Ids
  BY BoundsAssumption DEF Ids
<1>2. \A a \in Blob, b \in Blob : InitBlobs(a, b) \in [1..MaxBlobs -> Blob]
  BY EmptyVaultType DEF InitBlobs
<1>3. \A g \in Nat : [gen |-> g, base |-> {}, pend |-> {}] \in Blob
  BY DEF Blob
<1>4. \A g \in Nat, f \in Foreign : [gen |-> g, base |-> {f}, pend |-> {}] \in Blob
  BY DEF Blob
<1>5. /\ BlobsOK /\ local \in Ids /\ cached \in Ids /\ remote \in Ids /\ maxSeen \in Nat
  <2>1. CASE Synced
    BY <2>1, <1>1, <1>2, <1>3, EmptyVaultType DEF Synced, BlobsOK
  <2>2. CASE Unsynced
    BY <2>2, <1>1, <1>2, <1>3, <1>4 DEF Unsynced, BlobsOK
  <2>3. CASE First
    BY <2>3, <1>1, <1>2, <1>3, EmptyVaultType DEF First, BlobsOK
  <2>4. CASE Fresh
    BY <2>4, <1>1, <1>2, <1>3, EmptyVaultType DEF Fresh, BlobsOK
  <2> QED BY <2>1, <2>2, <2>3, <2>4 DEF Init
<1>6. FilesOK
  BY <1>5, NoneType, NoLedgerType DEF Init, FilesOK
<1>7. LocksOK /\ NetOK
  BY <1>5 DEF Init, LocksOK, NetOK
<1>8. MemoryOK
  BY <1>1, LabelFacts DEF Init, MemoryOK
<1>9. GhostsOK
  BY <1>5, BoundsAssumption DEF Init, GhostsOK
<1> QED BY <1>5, <1>6, <1>7, <1>8, <1>9 DEF TypeOK

\* Type correctness: in every reachable state files, locks, requests, blobs and process
\* memory have their types, so no command meets a value it has no case for.
THEOREM TypeCorrect == Spec => []TypeOK
<1>1. TypeOK /\ [Next]_vars => TypeOK'
  <2> SUFFICES ASSUME TypeOK, [Next]_vars PROVE TypeOK'
    OBVIOUS
  <2>1. CASE Next
    BY <2>1, TypeStep
  <2>2. CASE UNCHANGED vars
    BY <2>2 DEF vars, TypeOK, FilesOK, LocksOK, NetOK, BlobsOK, MemoryOK, GhostsOK,
       disk, locks, net, memory, ghosts
  <2> QED BY <2>1, <2>2
<1> QED BY TypeInit, <1>1, PTL DEF Spec

-----------------------------------------------------------------------------
(* Safety of publication.                                                  *)


\* Labels at which the publishing intent of the session exists.
NeedsIntent == {"prepare", "send"} \cup PutLabels \cup FinalLabels

\* Files, requests and memory name blobs that were written.
BlobsKnown ==
  /\ local <= nblobs /\ conflict.local <= nblobs /\ intent.target <= nblobs
  /\ \A p \in Procs : loaded[p] <= nblobs
  /\ everRemote \subseteq 1..nblobs
  /\ \A r \in inflight : r.blob \in 1..nblobs

\* What was observed on the server was stored there.
StoredOnly ==
  /\ remote # 0 => remote \in everRemote
  /\ \A p \in Procs : body[p] # 0 => body[p] \in everRemote

\* published covers what the stored blobs contain.
StoredPublished == \A i \in everRemote : blobs[i].base \cap Tx \subseteq published

\* The recorded IDs are part of the recorded target.
IntentCovered ==
  intent.state # "none" => /\ intent.target # 0
                           /\ intent.ids \subseteq blobs[intent.target].base

\* publication.lock covers a publication, whose intent stays until it ends.
SessionHeld ==
  \A p \in Procs :
    /\ pc[p] \in PubLabels => pubLock = p
    /\ pc[p] \in NeedsIntent => intent.state # "none"
    /\ pc[p] \in FinalLabels \cup {"put_ok"} => intent.target \in everRemote

\* A finalization that failed was one of a stored target.
FailedStored == intent.state = "finalization_failed" => intent.target \in everRemote

\* No blob and no scope contains an own transaction nobody asked to publish.
OnlyRequested ==
  /\ \A i \in 1..nblobs : blobs[i].base \cap Tx \subseteq requested
  /\ \A p \in Procs : want[p] \subseteq requested
  /\ intent.ids \subseteq requested

\* The inductive invariant: the checked properties and what their proof needs.
IInv ==
  /\ BlobsKnown /\ StoredOnly /\ StoredPublished /\ IntentCovered /\ SessionHeld /\ FailedStored
  /\ OnlyRequested /\ CachedWasRemote /\ ScopeExact /\ LedgerComplete

\* Labels of a publication that holds publication.lock, against the others.
LEMMA SessionLabels ==
  /\ FinalLabels \subseteq NeedsIntent /\ "put_ok" \in NeedsIntent /\ NeedsIntent \subseteq PubLabels
  /\ {"idle", "save"} \cap PubLabels = {} /\ PullLabels \cap PubLabels = {}
BY DEF FinalLabels, NeedsIntent, PutLabels, PubLabels, PullLabels, CommitLabels

\* A command that returns keeps the invariant, if it leaves the intent alone or, as the
\* holder of publication.lock, clears it or changes only its state.
LEMMA ReturnInv ==
  ASSUME TypeOK, IInv, NEW p \in Procs, Return(p),
         UNCHANGED <<local, cached, net, blobs, nblobs, minted, requested, published, everRemote, discarded>>,
         conflict'.local <= nblobs,
         \/ intent' = intent
         \/ pubLock = p /\ intent' = NoIntent
         \/ /\ pubLock = p /\ intent.state # "none" /\ intent'.state # "none"
            /\ intent'.ids = intent.ids /\ intent'.target = intent.target
            /\ intent'.state = "finalization_failed" => intent.target \in everRemote
  PROVE  IInv'
<1>1. pc'[p] = "idle" /\ body'[p] = 0 /\ loaded'[p] = 0 /\ want'[p] = {}
  BY DEF Return, TypeOK, MemoryOK
<1>2. \A q \in Procs \ {p} : pc'[q] = pc[q] /\ body'[q] = body[q] /\ loaded'[q] = loaded[q]
                              /\ want'[q] = want[q]
  BY DEF Return, TypeOK, MemoryOK
<1>3. BlobsKnown'
  BY <1>1, <1>2 DEF IInv, BlobsKnown, NoIntent, net, TypeOK, BlobsOK, Ids
<1>4. StoredOnly' /\ StoredPublished' /\ CachedWasRemote' /\ ScopeExact' /\ LedgerComplete'
  BY <1>1, <1>2 DEF IInv, StoredOnly, StoredPublished, CachedWasRemote, ScopeExact, LedgerComplete, Vault, net
<1>5. IntentCovered' /\ FailedStored' /\ OnlyRequested'
  BY <1>1, <1>2 DEF IInv, IntentCovered, FailedStored, OnlyRequested, NoIntent
<1>6. SessionHeld'
  BY <1>1, <1>2, SessionLabels, NoProcAssumption DEF IInv, SessionHeld, Return, NoIntent
<1> QED BY <1>3, <1>4, <1>5, <1>6 DEF IInv

\* A step to another label that leaves the blobs and the server alone keeps the
\* invariant, if the new label's obligations on the session and the intent hold.
LEMMA MoveInv ==
  ASSUME TypeOK, IInv, NEW p \in Procs, NEW l \in Labels, Goto(p, l),
         UNCHANGED <<remote, blobs, nblobs, published, everRemote, requested, pubLock>>,
         local' <= nblobs, conflict'.local <= nblobs,
         cached' # 0 => cached' \in everRemote,
         \A r \in inflight' : r.blob \in 1..nblobs,
         \A q \in Procs : loaded'[q] <= nblobs,
         \A q \in Procs : body'[q] # 0 => body'[q] \in everRemote,
         \A q \in Procs : want'[q] \subseteq requested,
         \/ intent' = intent
         \/ pubLock = p /\ intent' = NoIntent
         \/ /\ pubLock = p /\ intent.state # "none" /\ intent'.state # "none"
            /\ intent'.ids = intent.ids /\ intent'.target = intent.target
            /\ intent'.state = "finalization_failed" => intent.target \in everRemote,
         l \in PubLabels => pubLock = p,
         l \in NeedsIntent => intent'.state # "none",
         l \in FinalLabels \cup {"put_ok"} => intent'.target \in everRemote,
         LedgerComplete'
  PROVE  IInv'
<1>1. pc'[p] = l /\ \A q \in Procs \ {p} : pc'[q] = pc[q]
  BY DEF Goto, TypeOK, MemoryOK
<1>2. BlobsKnown'
  BY DEF IInv, BlobsKnown, NoIntent, TypeOK, BlobsOK, Ids
<1>3. StoredOnly' /\ StoredPublished' /\ CachedWasRemote' /\ ScopeExact'
  BY DEF IInv, StoredOnly, StoredPublished, CachedWasRemote, ScopeExact
<1>4. IntentCovered' /\ FailedStored' /\ OnlyRequested'
  BY DEF IInv, IntentCovered, FailedStored, OnlyRequested, NoIntent
<1>5. SessionHeld'
  BY <1>1, SessionLabels DEF IInv, SessionHeld, NoIntent
<1> QED BY <1>2, <1>3, <1>4, <1>5 DEF IInv

\* LedgerComplete depends on the local vault and four observations only.
LEMMA SameLedger ==
  ASSUME LedgerComplete, UNCHANGED <<local, blobs, minted, published, discarded>>
  PROVE  LedgerComplete'
BY DEF LedgerComplete, Vault

\* A step of a pull, or of a mutation before its save, that reads only keeps the invariant.
LEMMA QuietMove ==
  ASSUME TypeOK, IInv, NEW p \in Procs, NEW l \in PullLabels \cup {"save"}, Goto(p, l),
         UNCHANGED <<local, conflict, intent, pubLock, net, blobs, nblobs, want,
                     minted, requested, published, everRemote, discarded>>,
         cached' # 0 => cached' \in everRemote,
         \A q \in Procs : loaded'[q] <= nblobs,
         \A q \in Procs : body'[q] # 0 => body'[q] \in everRemote
  PROVE  IInv'
<1>1. l \in Labels /\ l \notin PubLabels
  BY SessionLabels DEF Labels
<1>2. LedgerComplete'
  BY SameLedger DEF IInv
<1> QED BY <1>1, <1>2, SessionLabels, MoveInv DEF IInv, BlobsKnown, OnlyRequested, net

\* Resuming after the intent was cleared keeps the invariant (matchesRecovery).
LEMMA ResumeInv ==
  ASSUME TypeOK, IInv, NEW p \in Procs, pubLock = p, ResumePending(p), intent' = NoIntent,
         UNCHANGED <<local, cached, conflict, net, blobs, nblobs, ghosts>>
  PROVE  IInv'
<1>1. CASE Return(p)
  BY <1>1, ReturnInv DEF IInv, BlobsKnown, ghosts
<1>2. CASE /\ Goto(p, "project")
          /\ want' = [want EXCEPT ![p] = IF cmd[p] = "push_all" THEN intent.ids ELSE want[p]]
          /\ UNCHANGED <<locks, cmd, loaded, seen, got, body>>
  <2>1. \A q \in Procs : want'[q] \subseteq requested
    BY <1>2 DEF TypeOK, MemoryOK, IInv, OnlyRequested
  <2>2. "project" \in Labels /\ "project" \notin NeedsIntent
    BY LabelFacts DEF NeedsIntent, PutLabels, FinalLabels
  <2>3. LedgerComplete'
    BY SameLedger DEF IInv, ghosts
  <2> QED BY <1>2, <2>1, <2>2, <2>3, SessionLabels, MoveInv
          DEF IInv, BlobsKnown, StoredOnly, CachedWasRemote, locks, net, ghosts
<1> QED BY <1>1, <1>2 DEF ResumePending

\* EncryptVault adds one blob and leaves the contents of the others as they were.
LEMMA Appended ==
  ASSUME TypeOK, IInv, CanEncrypt, NEW g \in Nat, NEW v \in Blob, EncryptVault(g, v),
         v.base \cap Tx \subseteq requested, requested' = requested
  PROVE  /\ nblobs' = nblobs + 1 /\ nblobs \in Nat
         /\ \A i \in 1..nblobs : blobs'[i] = blobs[i]
         /\ blobs'[nblobs + 1].base = v.base /\ blobs'[nblobs + 1].pend = v.pend
         /\ \A i \in 1..nblobs' : blobs'[i].base \cap Tx \subseteq requested'
<1>1. nblobs + 1 \in 1..MaxBlobs /\ nblobs' = nblobs + 1 /\ nblobs \in Nat
  BY BoundsAssumption DEF CanEncrypt, TypeOK, BlobsOK, EncryptVault, Ids
<1>2. \A i \in 1..nblobs : blobs'[i] = blobs[i]
  BY <1>1 DEF EncryptVault, TypeOK, BlobsOK
<1>3. blobs'[nblobs + 1] = [v EXCEPT !.gen = g]
  BY <1>1 DEF EncryptVault, TypeOK, BlobsOK
<1>4. blobs'[nblobs + 1].base = v.base /\ blobs'[nblobs + 1].pend = v.pend
  BY <1>3 DEF Blob
<1>5. \A i \in 1..nblobs' : i \in 1..nblobs \/ i = nblobs + 1
  BY <1>1
<1> QED BY <1>1, <1>2, <1>4, <1>5 DEF IInv, OnlyRequested

\* The confirmed part of a written vault holds only transactions a push asked for.
LEMMA VaultRequested ==
  ASSUME TypeOK, IInv, NEW i \in Ids, i <= nblobs
  PROVE  Vault(i).base \cap Tx \subseteq requested
<1>1. CASE i = 0
  BY <1>1 DEF Vault, EmptyVault
<1>2. CASE i # 0
  <2>1. i \in 1..nblobs
    BY <1>2 DEF Ids, TypeOK, BlobsOK
  <2> QED BY <1>2, <2>1 DEF Vault, IInv, OnlyRequested
<1> QED BY <1>1, <1>2

\* Encrypting a blob disturbs none of the facts about stored blobs.
LEMMA GrowInv ==
  ASSUME TypeOK, IInv, CanEncrypt, NEW g \in Nat, NEW v \in Blob, EncryptVault(g, v),
         v.base \cap Tx \subseteq requested,
         UNCHANGED <<cached, conflict, net, requested, published, everRemote, loaded, body, want>>
  PROVE  /\ StoredOnly' /\ StoredPublished' /\ CachedWasRemote' /\ ScopeExact'
         /\ conflict'.local <= nblobs' /\ (\A p \in Procs : loaded'[p] <= nblobs')
         /\ everRemote' \subseteq 1..nblobs' /\ (\A r \in inflight' : r.blob \in 1..nblobs')
<1>1. /\ nblobs' = nblobs + 1 /\ nblobs \in Nat
      /\ \A i \in 1..nblobs : blobs'[i] = blobs[i]
  BY Appended
<1>2. 1..nblobs \subseteq 1..nblobs' /\ \A i \in Ids : i <= nblobs => i <= nblobs'
  BY <1>1 DEF Ids
<1>3. StoredPublished'
  BY <1>1 DEF IInv, StoredPublished, BlobsKnown
<1>4. StoredOnly' /\ CachedWasRemote' /\ ScopeExact'
  BY DEF IInv, StoredOnly, CachedWasRemote, ScopeExact, net
<1>5. conflict'.local <= nblobs' /\ (\A p \in Procs : loaded'[p] <= nblobs')
  BY <1>2, FieldTypes DEF IInv, BlobsKnown, TypeOK, MemoryOK
<1>6. everRemote' \subseteq 1..nblobs' /\ (\A r \in inflight' : r.blob \in 1..nblobs')
  BY <1>2 DEF IInv, BlobsKnown, net
<1> QED BY <1>3, <1>4, <1>5, <1>6

\* What projection and finalization do to the confirmed part and to the ledger.
LEMMA ProjectionFields ==
  ASSUME NEW v \in Blob, NEW ids \in SUBSET Tx
  PROVE  /\ ProjectIDs(v, ids).base = v.base \cup ids
         /\ MarkPublished(v, ids).base = v.base \cup ids
         /\ MarkPublished(v, ids).pend = v.pend \ ids
BY DEF ProjectIDs, MarkPublished, Blob

\* An answer moves only the process that awaits it, for its current target.
LEMMA AnswerFacts ==
  ASSUME MemoryOK, NEW r, NEW l, Answer(r, l), NEW q \in Procs
  PROVE  pc'[q] = pc[q] \/ (pc[q] = "await" /\ pc'[q] = l /\ intent.target = r.blob)
BY DEF MemoryOK, Answer, Awaits

\* Every action preserves the inductive invariant.
LEMMA InvStep ==
  ASSUME TypeOK, TypeOK', IInv, Next
  PROVE  IInv'
<1>1. ASSUME NEW p \in Procs, StartMutate(p) PROVE IInv'
  <2>1. \A q \in Procs : loaded'[q] <= nblobs
    BY <1>1 DEF StartMutate, IInv, BlobsKnown, TypeOK, MemoryOK
  <2>2. \A q \in Procs : body'[q] # 0 => body'[q] \in everRemote
    BY <1>1 DEF StartMutate, IInv, StoredOnly, TypeOK, MemoryOK
  <2> QED BY <1>1, <2>1, <2>2, QuietMove
          DEF StartMutate, PullLabels, CommitLabels, IInv, CachedWasRemote, disk, locks, ghosts
<1>2. ASSUME NEW p \in Procs, SaveMutation(p) PROVE IInv'
  <2>1. CASE local # loaded[p]
    BY <1>2, <2>1, ReturnInv DEF SaveMutation, IInv, BlobsKnown
  <2>2. CASE local = loaded[p]
    <3> DEFINE v == Vault(local)
    <3>1. PICK t \in Tx \ minted :
             /\ EncryptVault(NextVaultGeneration, AddPending(v, t))
             /\ minted' = minted \cup {t}
      BY <1>2, <2>2 DEF SaveMutation
    <3>2. /\ v \in Blob /\ AddPending(v, t) \in Blob /\ v.base \cap Tx \subseteq requested
          /\ AddPending(v, t).base = v.base /\ AddPending(v, t).pend = v.pend \cup {t}
      <4>1. v \in Blob
        BY VaultType DEF TypeOK, FilesOK
      <4>2. v.base \cap Tx \subseteq requested
        BY VaultRequested DEF TypeOK, FilesOK, IInv, BlobsKnown
      <4>3. AddPending(v, t) \in Blob
        BY <4>1, AddPendingType
      <4>4. AddPending(v, t).base = v.base /\ AddPending(v, t).pend = v.pend \cup {t}
        BY <4>1 DEF AddPending, Blob
      <4> QED BY <4>1, <4>2, <4>3, <4>4
    <3>3. /\ nblobs' = nblobs + 1 /\ nblobs \in Nat
          /\ \A i \in 1..nblobs : blobs'[i] = blobs[i]
          /\ blobs'[nblobs + 1].pend = v.pend \cup {t}
          /\ \A i \in 1..nblobs' : blobs'[i].base \cap Tx \subseteq requested'
      BY <1>2, <2>2, <3>1, <3>2, Appended, GenerationType DEF SaveMutation
    <3>4. /\ UNCHANGED <<cached, conflict, intent, net, requested, published, everRemote, discarded>>
          /\ local' = nblobs + 1 /\ Return(p)
      BY <1>2, <2>2 DEF SaveMutation
    <3> HIDE DEF v
    <3>5. /\ pc'[p] = "idle" /\ body'[p] = 0 /\ loaded'[p] = 0 /\ want'[p] = {}
          /\ \A q \in Procs \ {p} : pc'[q] = pc[q] /\ body'[q] = body[q] /\ loaded'[q] = loaded[q]
                                      /\ want'[q] = want[q]
      BY <3>4 DEF Return, TypeOK, MemoryOK
    <3>6. BlobsKnown'
      <4>1. local' <= nblobs' /\ conflict'.local <= nblobs' /\ intent'.target <= nblobs'
        BY <3>3, <3>4, FieldTypes DEF IInv, BlobsKnown, Ids
      <4>2. \A q \in Procs : loaded'[q] <= nblobs'
        BY <3>3, <3>5 DEF IInv, BlobsKnown, TypeOK, MemoryOK, Ids
      <4>3. 1..nblobs \subseteq 1..nblobs'
        BY <3>3
      <4> QED BY <3>4, <4>1, <4>2, <4>3 DEF IInv, BlobsKnown, net
    <3>7. StoredOnly' /\ StoredPublished' /\ CachedWasRemote' /\ ScopeExact'
      BY <3>3, <3>4, <3>5 DEF IInv, BlobsKnown, StoredOnly, StoredPublished, CachedWasRemote, ScopeExact, net
    <3>8. IntentCovered' /\ FailedStored' /\ OnlyRequested'
      BY <3>3, <3>4, <3>5, FieldTypes DEF IInv, BlobsKnown, IntentCovered, FailedStored, OnlyRequested, Ids
    <3>9. SessionHeld'
      BY <3>4, <3>5, SessionLabels, NoProcAssumption DEF IInv, SessionHeld, Return
    <3>10. LedgerComplete'
      <4>1. Vault(local)'.pend = v.pend \cup {t}
        BY <3>3, <3>4 DEF Vault
      <4>2. minted \subseteq v.pend \cup published \cup {d[1] : d \in discarded}
        BY DEF IInv, LedgerComplete, v
      <4> QED BY <3>1, <3>4, <4>1, <4>2 DEF LedgerComplete
    <3> QED BY <3>6, <3>7, <3>8, <3>9, <3>10 DEF IInv
  <2> QED BY <2>1, <2>2
<1>3. ASSUME NEW p \in Procs, StartPushAll(p) PROVE IInv'
  BY <1>3, NoProcAssumption
     DEF StartPushAll, Start, Goto, IInv, BlobsKnown, StoredOnly, StoredPublished, IntentCovered, SessionHeld,
         FailedStored, OnlyRequested, CachedWasRemote, ScopeExact, LedgerComplete, Vault,
         NeedsIntent, PubLabels, PutLabels, FinalLabels, TypeOK, MemoryOK, disk, net, ghosts
<1>4. ASSUME NEW p \in Procs, StartPushOnly(p) PROVE IInv'
  BY <1>4, NoProcAssumption
     DEF StartPushOnly, Start, Goto, IInv, BlobsKnown, StoredOnly, StoredPublished, IntentCovered, SessionHeld,
         FailedStored, OnlyRequested, CachedWasRemote, ScopeExact, LedgerComplete, Vault,
         NeedsIntent, PubLabels, PutLabels, FinalLabels, TypeOK, MemoryOK, disk, net, ghosts
<1>5. ASSUME NEW p \in Procs, StartStatus(p) PROVE IInv'
  BY <1>5, NoProcAssumption
     DEF StartStatus, Start, Goto, IInv, BlobsKnown, StoredOnly, StoredPublished, IntentCovered, SessionHeld,
         FailedStored, OnlyRequested, CachedWasRemote, ScopeExact, LedgerComplete, Vault,
         NeedsIntent, PubLabels, PutLabels, FinalLabels, TypeOK, MemoryOK, disk, net, ghosts
<1>6. ASSUME NEW p \in Procs, ReconcileLocal(p) PROVE IInv'
  <2> USE <1>6 DEF ReconcileLocal
  <2>1. pubLock = p
    BY DEF IInv, SessionHeld, PubLabels
  <2>2. CASE Return(p) /\ intent' = intent
    BY <2>2, ReturnInv DEF IInv, BlobsKnown, ghosts
  <2>3. CASE /\ intent' = intent /\ UNCHANGED <<locks, cmd, loaded, seen, got, body, want>>
            /\ \/ Goto(p, "project")
               \/ Goto(p, "finalize") /\ intent.state = "finalization_failed"
    <3>1. LedgerComplete'
      BY SameLedger DEF IInv, ghosts
    <3>2. PICK l \in {"project", "finalize"} : Goto(p, l) /\ (l = "finalize" => intent.state = "finalization_failed")
      BY <2>3
    <3>3. /\ l \in Labels /\ (l \in FinalLabels \cup {"put_ok"} => intent'.target \in everRemote)
          /\ (l \in NeedsIntent => intent'.state # "none")
      BY <2>3, <3>2, LabelFacts DEF IInv, FailedStored, NeedsIntent, PutLabels, FinalLabels
    <3> HIDE DEF ReconcileLocal
    <3>4. UNCHANGED <<local, cached, conflict, remote, inflight, blobs, nblobs, published, everRemote, requested>>
      BY DEF ReconcileLocal, net, ghosts
    <3> QED BY <2>1, <2>3, <3>1, <3>2, <3>3, <3>4, MoveInv
            DEF IInv, BlobsKnown, StoredOnly, CachedWasRemote, OnlyRequested, locks
  <2>4. CASE ResumePending(p) /\ intent' = NoIntent
    BY <2>1, <2>4, ResumeInv DEF ghosts
  <2> QED BY <2>2, <2>3, <2>4
<1>7. ASSUME NEW p \in Procs, ReconcileRemote(p) PROVE IInv'
  <2>1. pubLock = p
    BY <1>7 DEF ReconcileRemote, IInv, SessionHeld, PubLabels
  <2>2. UNCHANGED <<local, cached, conflict, net, blobs, nblobs, ghosts>> /\ intent.state # "none"
    BY <1>7 DEF ReconcileRemote
  <2>3. CASE Return(p) /\ intent' = [intent EXCEPT !.state = "divergent"]
    <3>1. intent'.ids = intent.ids /\ intent'.target = intent.target /\ intent'.state = "divergent"
      BY <2>3 DEF TypeOK, FilesOK, Intent
    <3> QED BY <2>1, <2>2, <2>3, <3>1, ReturnInv DEF IInv, BlobsKnown, ghosts
  <2>4. CASE /\ Goto(p, "finalize") /\ remote = intent.target
            /\ UNCHANGED <<intent, locks, cmd, loaded, seen, got, body, want>>
    <3>1. LedgerComplete'
      BY <2>2, SameLedger DEF IInv, ghosts
    <3>2. "finalize" \in Labels /\ intent.target \in everRemote
      BY <2>2, <2>4, LabelFacts DEF IInv, StoredOnly, IntentCovered
    <3> QED BY <2>1, <2>2, <2>4, <3>1, <3>2, MoveInv
            DEF IInv, BlobsKnown, StoredOnly, CachedWasRemote, OnlyRequested, locks, net, ghosts
  <2>5. CASE ResumePending(p) /\ intent' = NoIntent
    BY <2>1, <2>2, <2>5, ResumeInv
  <2> QED BY <1>7, <2>3, <2>4, <2>5 DEF ReconcileRemote, RemoteIsTarget
<1>8. ASSUME NEW p \in Procs, Project(p) PROVE IInv'
  <2>1. UNCHANGED <<local, cached, conflict, net, ghosts>>
    BY <1>8 DEF Project
  <2>2. pubLock = p
    BY <1>8 DEF Project, IInv, SessionHeld, PubLabels
  <2>3. CASE Return(p) /\ UNCHANGED <<intent, blobs, nblobs>>
    BY <2>1, <2>3, ReturnInv DEF IInv, BlobsKnown, ghosts
  <2>4. CASE /\ loaded' = [loaded EXCEPT ![p] = local] /\ Goto(p, "verify_empty")
            /\ UNCHANGED <<intent, blobs, nblobs, locks, cmd, got, body, want>>
    <3>1. \A q \in Procs : loaded'[q] <= nblobs
      BY <2>4 DEF IInv, BlobsKnown, TypeOK, MemoryOK
    <3>2. "verify_empty" \in Labels /\ "verify_empty" \notin NeedsIntent
      BY LabelFacts DEF NeedsIntent, PutLabels, FinalLabels
    <3>3. LedgerComplete'
      BY <2>1, <2>4, SameLedger DEF IInv, ghosts
    <3> QED BY <2>1, <2>2, <2>4, <3>1, <3>2, <3>3, SessionLabels, MoveInv
            DEF IInv, BlobsKnown, StoredOnly, CachedWasRemote, OnlyRequested, locks, net, ghosts
  <2>5. CASE /\ CanEncrypt
            /\ EncryptVault(NextVaultGeneration, ProjectIDs(Vault(loaded[p]), want[p]))
            /\ intent' = [state |-> "prepared",
                          scope |-> IF cmd[p] = "push_all" THEN "all" ELSE "only",
                          ids |-> want[p], target |-> nblobs + 1, prereq |-> cached]
            /\ Goto(p, "prepare") /\ UNCHANGED <<locks, cmd, loaded, got, body, want>>
    <3> DEFINE v == ProjectIDs(Vault(loaded[p]), want[p])
    <3>1. v \in Blob /\ v.base = Vault(loaded[p]).base \cup want[p]
      BY VaultType, ProjectionType, ProjectionFields DEF TypeOK, MemoryOK
    <3>2. v.base \cap Tx \subseteq requested /\ want[p] \subseteq requested
      BY <3>1, VaultRequested DEF TypeOK, MemoryOK, IInv, BlobsKnown, OnlyRequested
    <3>3. EncryptVault(NextVaultGeneration, v) /\ NextVaultGeneration \in Nat
      BY <2>5, GenerationType
    <3> HIDE DEF v
    <3>4. UNCHANGED <<requested, published, everRemote, minted, discarded>>
      BY <2>1 DEF ghosts
    <3>5. /\ nblobs' = nblobs + 1 /\ nblobs \in Nat
          /\ \A i \in 1..nblobs : blobs'[i] = blobs[i]
          /\ blobs'[nblobs + 1].base = v.base
          /\ \A i \in 1..nblobs' : blobs'[i].base \cap Tx \subseteq requested'
      BY <2>5, <3>1, <3>2, <3>3, <3>4, Appended
    <3>6. /\ StoredOnly' /\ StoredPublished' /\ CachedWasRemote' /\ ScopeExact'
          /\ conflict'.local <= nblobs' /\ (\A q \in Procs : loaded'[q] <= nblobs')
          /\ everRemote' \subseteq 1..nblobs' /\ (\A r \in inflight' : r.blob \in 1..nblobs')
      BY <2>1, <2>5, <3>1, <3>2, <3>3, <3>4, GrowInv
    <3>7. BlobsKnown'
      BY <2>1, <2>5, <3>5, <3>6 DEF IInv, BlobsKnown, TypeOK, FilesOK, Ids
    <3>8. IntentCovered' /\ FailedStored'
      BY <2>5, <3>1, <3>5 DEF IntentCovered, FailedStored
    <3>9. OnlyRequested'
      BY <2>5, <3>2, <3>4, <3>5 DEF IInv, OnlyRequested
    <3>10. SessionHeld'
      <4>1. pc'[p] = "prepare" /\ \A q \in Procs \ {p} : pc'[q] = pc[q]
        BY <2>5 DEF Goto, TypeOK, MemoryOK
      <4> QED BY <2>2, <2>5, <4>1, SessionLabels DEF IInv, SessionHeld, FinalLabels, locks
    <3>11. LedgerComplete'
      <4>1. Vault(local)'.pend = Vault(local).pend
        BY <2>1, <3>5 DEF Vault, IInv, BlobsKnown, TypeOK, FilesOK, Ids
      <4> QED BY <3>4, <4>1 DEF IInv, LedgerComplete
    <3> QED BY <3>6, <3>7, <3>8, <3>9, <3>10, <3>11 DEF IInv
  <2> QED BY <1>8, <2>3, <2>4, <2>5 DEF Project
<1>9. ASSUME NEW p \in Procs, VerifyEmpty(p) PROVE IInv'
  BY <1>9, ReturnInv DEF VerifyEmpty, IInv, BlobsKnown, Evidence, ghosts
<1>10. ASSUME NEW p \in Procs, Prepare(p) PROVE IInv'
  <2>1. pubLock = p /\ intent.state # "none"
    BY <1>10 DEF Prepare, IInv, SessionHeld, PubLabels, NeedsIntent
  <2>2. UNCHANGED <<local, cached, net, blobs, nblobs, ghosts>> /\ conflict'.local <= nblobs
    BY <1>10 DEF Prepare, Evidence, IInv, BlobsKnown
  <2>3. CASE remote = seen[p]
    <3>1. intent'.ids = intent.ids /\ intent'.target = intent.target /\ intent'.state = "ready"
      BY <1>10, <2>3 DEF Prepare, TypeOK, FilesOK, Intent
    <3>2. LedgerComplete'
      BY <2>2, SameLedger DEF IInv, ghosts
    <3>3. "send" \in Labels /\ "send" \notin FinalLabels \cup {"put_ok"}
      BY LabelFacts DEF FinalLabels
    <3>4. Goto(p, "send") /\ UNCHANGED <<locks, cmd, loaded, seen, got, body, want>>
      BY <1>10, <2>3 DEF Prepare
    <3> QED BY <2>1, <2>2, <3>1, <3>2, <3>3, <3>4, MoveInv
            DEF IInv, BlobsKnown, StoredOnly, CachedWasRemote, OnlyRequested, locks, net, ghosts
  <2>4. CASE remote # seen[p]
    BY <1>10, <2>1, <2>2, <2>4, ReturnInv DEF Prepare, ghosts
  <2> QED BY <2>3, <2>4
<1>11. ASSUME NEW p \in Procs, Send(p) PROVE IInv'
  <2>1. pubLock = p /\ intent.state # "none"
    BY <1>11 DEF Send, IInv, SessionHeld, PubLabels, NeedsIntent
  <2>2. UNCHANGED <<local, cached, remote, blobs, nblobs, ghosts>> /\ conflict'.local <= nblobs
    BY <1>11 DEF Send, Evidence, IInv, BlobsKnown
  <2>3. CASE remote = intent.prereq
    <3>1. /\ inflight' = inflight \cup {[blob |-> intent.target, prereq |-> intent.prereq, proc |-> p]}
          /\ Goto(p, "await") /\ UNCHANGED <<intent, locks, cmd, loaded, seen, got, body, want>>
      BY <1>11, <2>3 DEF Send
    <3>2. LedgerComplete'
      BY <2>2, SameLedger DEF IInv, ghosts
    <3>3. "await" \in Labels /\ "await" \notin FinalLabels \cup {"put_ok"}
      BY LabelFacts DEF FinalLabels
    <3>4. intent.target \in 1..nblobs
      BY <2>1, FieldTypes DEF IInv, IntentCovered, BlobsKnown, Ids, TypeOK, BlobsOK
    <3>5. \A r \in inflight' : r.blob \in 1..nblobs
      BY <3>1, <3>4 DEF IInv, BlobsKnown
    <3> QED BY <2>1, <2>2, <3>1, <3>2, <3>3, <3>5, MoveInv
            DEF IInv, BlobsKnown, StoredOnly, CachedWasRemote, OnlyRequested, locks, ghosts
  <2>4. CASE remote # intent.prereq
    <3>1. intent' = [intent EXCEPT !.state = "divergent"] /\ Return(p) /\ UNCHANGED inflight
      BY <1>11, <2>4 DEF Send
    <3>2. intent'.ids = intent.ids /\ intent'.target = intent.target /\ intent'.state = "divergent"
      BY <3>1 DEF TypeOK, FilesOK, Intent
    <3> QED BY <2>1, <2>2, <3>1, <3>2, ReturnInv DEF ghosts, net
  <2> QED BY <2>3, <2>4
<1>12. ASSUME NEW p \in Procs, HeadFails(p) PROVE IInv'
  <2>1. pubLock = p \/ UNCHANGED intent
    BY <1>12 DEF HeadFails, IInv, SessionHeld, PubLabels, PutLabels, FinalLabels
  <2> QED BY <1>12, <2>1, ReturnInv DEF HeadFails, IInv, BlobsKnown, ghosts
<1>13. ASSUME NEW p \in Procs, PutAmbiguous(p) PROVE IInv'
  <2>1. pubLock = p \/ UNCHANGED intent
    BY <1>13 DEF PutAmbiguous, IInv, SessionHeld, PubLabels, PutLabels, FinalLabels, TimedOut
  <2>2. intent.state # "none"
    BY <1>13 DEF PutAmbiguous, IInv, SessionHeld, NeedsIntent, PutLabels, FinalLabels, TimedOut
  <2>3. /\ intent'.ids = intent.ids /\ intent'.target = intent.target
        /\ intent'.state = "ambiguous"
    BY <1>13 DEF PutAmbiguous, TypeOK, FilesOK, Intent
  <2> QED BY <1>13, <2>1, <2>2, <2>3, ReturnInv DEF PutAmbiguous, IInv, BlobsKnown, ghosts
<1>14. ASSUME NEW p \in Procs, PutOk(p) PROVE IInv'
  <2>1. Goto(p, "finalize") /\ "finalize" \in Labels
    BY <1>14, LabelFacts DEF PutOk
  <2>2. pubLock = p /\ intent.state # "none" /\ intent.target \in everRemote
    BY <1>14 DEF PutOk, IInv, SessionHeld, PubLabels, NeedsIntent, PutLabels, FinalLabels
  <2>3. LedgerComplete'
    BY <1>14, SameLedger DEF PutOk, IInv, disk, ghosts
  <2> QED BY <1>14, <2>1, <2>2, <2>3, MoveInv
          DEF PutOk, IInv, BlobsKnown, StoredOnly, CachedWasRemote, OnlyRequested, disk, locks, net, ghosts
<1>15. ASSUME NEW p \in Procs, PutConflict(p) PROVE IInv'
  <2>1. pubLock = p \/ UNCHANGED intent
    BY <1>15 DEF PutConflict, IInv, SessionHeld, PubLabels, PutLabels, FinalLabels
  <2>2. intent.state # "none"
    BY <1>15 DEF PutConflict, IInv, SessionHeld, NeedsIntent, PutLabels, FinalLabels
  <2>3. /\ intent'.ids = intent.ids /\ intent'.target = intent.target
        /\ intent'.state = "divergent"
    BY <1>15 DEF PutConflict, TypeOK, FilesOK, Intent
  <2> QED BY <1>15, <2>1, <2>2, <2>3, ReturnInv DEF PutConflict, Evidence, IInv, BlobsKnown, ghosts
<1>16. ASSUME NEW p \in Procs, PutRejected(p) PROVE IInv'
  <2>1. pubLock = p \/ UNCHANGED intent
    BY <1>16 DEF PutRejected, IInv, SessionHeld, PubLabels, PutLabels, FinalLabels
  <2> QED BY <1>16, <2>1, ReturnInv DEF PutRejected, IInv, BlobsKnown, ghosts
<1>17. ASSUME NEW p \in Procs, Finalize(p) PROVE IInv'
  <2>1. UNCHANGED <<cached, conflict, net, ghosts, intent, pubLock, loaded, body, want>> /\ Goto(p, "confirm")
    BY <1>17 DEF Finalize
  <2>2. /\ pubLock = p /\ intent.state # "none" /\ intent.target \in everRemote
        /\ intent.ids \subseteq blobs[intent.target].base
    BY <1>17 DEF Finalize, IInv, SessionHeld, IntentCovered, PubLabels, NeedsIntent, FinalLabels
  <2>3. CASE UNCHANGED <<local, blobs, nblobs>>
    <3>1. "confirm" \in Labels
      BY LabelFacts
    <3>2. LedgerComplete'
      BY <2>1, <2>3, SameLedger DEF IInv, ghosts
    <3> QED BY <2>1, <2>2, <2>3, <3>1, <3>2, MoveInv
            DEF IInv, BlobsKnown, StoredOnly, CachedWasRemote, OnlyRequested, net, ghosts
  <2>4. CASE /\ CanEncrypt /\ local' = nblobs + 1
            /\ EncryptVault(NextVaultGeneration, MarkPublished(Vault(local), intent.ids))
    <3> DEFINE v == MarkPublished(Vault(local), intent.ids)
    <3>1. v \in Blob /\ v.base = Vault(local).base \cup intent.ids /\ v.pend = Vault(local).pend \ intent.ids
      BY VaultType, ProjectionType, ProjectionFields, FieldTypes DEF TypeOK, FilesOK
    <3>2. v.base \cap Tx \subseteq requested
      BY <3>1, VaultRequested DEF TypeOK, FilesOK, IInv, BlobsKnown, OnlyRequested
    <3>3. EncryptVault(NextVaultGeneration, v) /\ NextVaultGeneration \in Nat
      BY <2>4, GenerationType
    <3> HIDE DEF v
    <3>4. UNCHANGED <<requested, published, everRemote, minted, discarded>>
      BY <2>1 DEF ghosts
    <3>5. /\ nblobs' = nblobs + 1 /\ nblobs \in Nat
          /\ \A i \in 1..nblobs : blobs'[i] = blobs[i]
          /\ blobs'[nblobs + 1].pend = v.pend
          /\ \A i \in 1..nblobs' : blobs'[i].base \cap Tx \subseteq requested'
      BY <2>4, <3>1, <3>2, <3>3, <3>4, Appended
    <3>6. /\ StoredOnly' /\ StoredPublished' /\ CachedWasRemote' /\ ScopeExact'
          /\ conflict'.local <= nblobs' /\ (\A q \in Procs : loaded'[q] <= nblobs')
          /\ everRemote' \subseteq 1..nblobs' /\ (\A r \in inflight' : r.blob \in 1..nblobs')
      BY <2>1, <2>4, <3>1, <3>2, <3>3, <3>4, GrowInv
    <3>7. BlobsKnown'
      BY <2>1, <2>4, <3>5, <3>6, FieldTypes DEF IInv, BlobsKnown, Ids
    <3>8. IntentCovered' /\ FailedStored'
      BY <2>1, <2>2, <3>4, <3>5 DEF IInv, BlobsKnown, IntentCovered, FailedStored
    <3>9. OnlyRequested'
      BY <2>1, <3>4, <3>5 DEF IInv, OnlyRequested
    <3>10. SessionHeld'
      <4>1. pc'[p] = "confirm" /\ \A q \in Procs \ {p} : pc'[q] = pc[q]
        BY <2>1 DEF Goto, TypeOK, MemoryOK
      <4> QED BY <2>1, <2>2, <3>4, <4>1, SessionLabels DEF IInv, SessionHeld
    <3>11. LedgerComplete'
      <4>1. Vault(local)'.pend = Vault(local).pend \ intent.ids
        BY <2>4, <3>1, <3>5 DEF Vault
      <4>2. intent.ids \subseteq published
        BY <2>2, FieldTypes DEF IInv, StoredPublished
      <4> QED BY <3>4, <4>1, <4>2 DEF IInv, LedgerComplete
    <3> QED BY <3>6, <3>7, <3>8, <3>9, <3>10, <3>11 DEF IInv
  <2> QED BY <1>17, <2>3, <2>4 DEF Finalize
<1>18. ASSUME NEW p \in Procs, FinalizeFails(p) PROVE IInv'
  <2>1. pubLock = p \/ UNCHANGED intent
    BY <1>18 DEF FinalizeFails, IInv, SessionHeld, PubLabels, PutLabels, FinalLabels
  <2>2. intent.state # "none" /\ intent.target \in everRemote
    BY <1>18 DEF FinalizeFails, IInv, SessionHeld, NeedsIntent, PutLabels, FinalLabels
  <2>3. /\ intent'.ids = intent.ids /\ intent'.target = intent.target
        /\ intent'.state = "finalization_failed"
    BY <1>18 DEF FinalizeFails, TypeOK, FilesOK, Intent
  <2> QED BY <1>18, <2>1, <2>2, <2>3, ReturnInv DEF FinalizeFails, IInv, BlobsKnown, ghosts
<1>19. ASSUME NEW p \in Procs, ConfirmLedgers(p) PROVE IInv'
  <2>1. Goto(p, "confirm_etag") /\ "confirm_etag" \in Labels
    BY <1>19, LabelFacts DEF ConfirmLedgers
  <2>2. pubLock = p /\ intent.state # "none" /\ intent.target \in everRemote
    BY <1>19 DEF ConfirmLedgers, IInv, SessionHeld, PubLabels, NeedsIntent, PutLabels, FinalLabels
  <2>3. LedgerComplete'
    BY <1>19, SameLedger DEF ConfirmLedgers, IInv, disk, ghosts
  <2> QED BY <1>19, <2>1, <2>2, <2>3, MoveInv
          DEF ConfirmLedgers, IInv, BlobsKnown, StoredOnly, CachedWasRemote, OnlyRequested, disk, locks, net, ghosts
<1>20. ASSUME NEW p \in Procs, ConfirmETag(p) PROVE IInv'
  <2>1. Goto(p, "confirm_clear") /\ "confirm_clear" \in Labels
    BY <1>20, LabelFacts DEF ConfirmETag
  <2>2. pubLock = p /\ intent.state # "none" /\ intent.target \in everRemote
    BY <1>20 DEF ConfirmETag, IInv, SessionHeld, PubLabels, NeedsIntent, FinalLabels
  <2>3. LedgerComplete'
    BY <1>20, SameLedger DEF ConfirmETag, IInv
  <2> QED BY <1>20, <2>1, <2>2, <2>3, MoveInv
          DEF ConfirmETag, ConfirmedIdentity, IInv, BlobsKnown, StoredOnly, CachedWasRemote, OnlyRequested, locks, net
<1>21. ASSUME NEW p \in Procs, ConfirmClear(p) PROVE IInv'
  <2>1. Goto(p, "confirm_intent") /\ "confirm_intent" \in Labels
    BY <1>21, LabelFacts DEF ConfirmClear
  <2>2. pubLock = p /\ intent.state # "none" /\ intent.target \in everRemote
    BY <1>21 DEF ConfirmClear, IInv, SessionHeld, PubLabels, NeedsIntent, FinalLabels
  <2>3. LedgerComplete' /\ conflict'.local <= nblobs
    BY <1>21, SameLedger DEF ConfirmClear, ClearConflict, IInv, BlobsKnown, ghosts, NoConflict, TypeOK, BlobsOK, Ids
  <2> QED BY <1>21, <2>1, <2>2, <2>3, MoveInv
          DEF ConfirmClear, IInv, BlobsKnown, StoredOnly, CachedWasRemote, OnlyRequested, locks, net, ghosts
<1>22. ASSUME NEW p \in Procs, ConfirmIntent(p) PROVE IInv'
  <2>1. pubLock = p \/ UNCHANGED intent
    BY <1>22 DEF ConfirmIntent, IInv, SessionHeld, PubLabels, PutLabels, FinalLabels
  <2> QED BY <1>22, <2>1, ReturnInv DEF ConfirmIntent, IInv, BlobsKnown, ghosts
<1>23. ASSUME NEW p \in Procs, StartPull(p) PROVE IInv'
  <2>1. \A q \in Procs : loaded'[q] <= nblobs
    BY <1>23 DEF StartPull, IInv, BlobsKnown, TypeOK, MemoryOK
  <2>2. \A q \in Procs : body'[q] # 0 => body'[q] \in everRemote
    BY <1>23 DEF StartPull, IInv, StoredOnly, TypeOK, MemoryOK
  <2> QED BY <1>23, <2>1, <2>2, QuietMove
          DEF StartPull, PullLabels, CommitLabels, IInv, CachedWasRemote, disk, locks, ghosts
<1>24. ASSUME NEW p \in Procs, StartLogin(p) PROVE IInv'
  <2>1. \A q \in Procs : loaded'[q] <= nblobs
    BY <1>24 DEF StartLogin, IInv, BlobsKnown, TypeOK, MemoryOK
  <2>2. \A q \in Procs : body'[q] # 0 => body'[q] \in everRemote
    BY <1>24 DEF StartLogin, IInv, StoredOnly, TypeOK, MemoryOK
  <2> QED BY <1>24, <2>1, <2>2, QuietMove
          DEF StartLogin, PullLabels, CommitLabels, IInv, CachedWasRemote, disk, locks, ghosts
<1>25. ASSUME NEW p \in Procs, Reset(p) PROVE IInv'
  <2>1. \A q \in Procs : loaded'[q] <= nblobs
    BY <1>25 DEF Reset, IInv, BlobsKnown, TypeOK, MemoryOK
  <2>2. \A q \in Procs : body'[q] # 0 => body'[q] \in everRemote
    BY <1>25 DEF Reset, IInv, StoredOnly, TypeOK, MemoryOK
  <2> QED BY <1>25, <2>1, <2>2, QuietMove
          DEF Reset, PullLabels, CommitLabels, IInv, CachedWasRemote, disk, locks, ghosts
<1>26. ASSUME NEW p \in Procs, StartBackground(p) PROVE IInv'
  <2>1. \A q \in Procs : loaded'[q] <= nblobs
    BY <1>26 DEF StartBackground, IInv, BlobsKnown, TypeOK, MemoryOK
  <2>2. \A q \in Procs : body'[q] # 0 => body'[q] \in everRemote
    BY <1>26 DEF StartBackground, IInv, StoredOnly, TypeOK, MemoryOK
  <2> QED BY <1>26, <2>1, <2>2, QuietMove
          DEF StartBackground, PullLabels, CommitLabels, IInv, CachedWasRemote, disk, locks, ghosts
<1>27. ASSUME NEW p \in Procs, ReadFacts(p) PROVE IInv'
  <2>1. \A q \in Procs : loaded'[q] <= nblobs
    BY <1>27 DEF ReadFacts, IInv, BlobsKnown, TypeOK, MemoryOK
  <2>2. \A q \in Procs : body'[q] # 0 => body'[q] \in everRemote
    BY <1>27 DEF ReadFacts, IInv, StoredOnly, TypeOK, MemoryOK
  <2> QED BY <1>27, <2>1, <2>2, QuietMove
          DEF ReadFacts, PullLabels, CommitLabels, IInv, CachedWasRemote, disk, locks, ghosts
<1>28. ASSUME NEW p \in Procs, PullHead(p) PROVE IInv'
  <2>1. CASE Return(p)
    BY <1>28, <2>1, ReturnInv DEF PullHead, IInv, BlobsKnown, disk, ghosts
  <2>2. CASE ~ Return(p)
    <3>1. \A q \in Procs : body'[q] # 0 => body'[q] \in everRemote
      BY <1>28, <2>2 DEF PullHead, IInv, StoredOnly, TypeOK, MemoryOK
    <3> QED BY <1>28, <2>2, <3>1, QuietMove
            DEF PullHead, PullLabels, IInv, BlobsKnown, CachedWasRemote, disk, locks, ghosts
  <2> QED BY <2>1, <2>2
<1>29. ASSUME NEW p \in Procs, Check(p) PROVE IInv'
  <2>1. UNCHANGED <<local, cached, conflict, intent, remote, inflight, blobs, nblobs, ghosts>>
    BY <1>29 DEF Check, net
  <2>2. LedgerComplete'
    BY <2>1, SameLedger DEF IInv, ghosts
  <2>3. CASE Return(p)
    BY <2>1, <2>3, ReturnInv DEF IInv, BlobsKnown, ghosts, net
  <2>4. CASE /\ body' = [body EXCEPT ![p] = remote] \/ body' = body
            /\ \E l \in {"rollback", "decision", "install", "fetch"} : Goto(p, l)
            /\ UNCHANGED <<locks, cmd, loaded, seen, want>>
    <3>1. PICK l \in {"rollback", "decision", "install", "fetch"} : Goto(p, l)
      BY <2>4
    <3>2. l \in Labels /\ l \notin PubLabels
      BY LabelFacts, SessionLabels DEF PullLabels
    <3>3. \A q \in Procs : body'[q] # 0 => body'[q] \in everRemote
      BY <2>4 DEF IInv, StoredOnly, TypeOK, MemoryOK
    <3> QED BY <2>1, <2>2, <2>4, <3>1, <3>2, <3>3, SessionLabels, MoveInv
            DEF IInv, BlobsKnown, CachedWasRemote, OnlyRequested, locks, ghosts
  <2> QED BY <1>29, <2>3, <2>4 DEF Check, AfterCheck
<1>30. ASSUME NEW p \in Procs, LockRefused(p) PROVE IInv'
  BY <1>30, ReturnInv DEF LockRefused, IInv, BlobsKnown, ghosts
<1>31. ASSUME NEW p \in Procs, MutationBusy(p) PROVE IInv'
  BY <1>31, ReturnInv DEF MutationBusy, IInv, BlobsKnown, disk, ghosts
<1>32. ASSUME NEW p \in Procs, RollbackFound(p) PROVE IInv'
  BY <1>32, ReturnInv DEF RollbackFound, IInv, BlobsKnown, Evidence, ghosts
<1>33. ASSUME NEW p \in Procs, Decide(p) PROVE IInv'
  <2>1. UNCHANGED <<local, cached, intent, remote, inflight, blobs, nblobs, ghosts>> /\ conflict'.local <= nblobs
    BY <1>33 DEF Decide, net, Evidence, IInv, BlobsKnown
  <2>2. LedgerComplete'
    BY <2>1, SameLedger DEF IInv, ghosts
  <2>3. CASE Return(p)
    BY <2>1, <2>3, ReturnInv DEF ghosts, net
  <2>4. CASE /\ \E l \in {"install", "fetch"} : Goto(p, l)
            /\ UNCHANGED <<locks, cmd, loaded, seen, got, body, want>>
    <3>1. PICK l \in {"install", "fetch"} : Goto(p, l)
      BY <2>4
    <3>2. l \in Labels /\ l \notin PubLabels
      BY LabelFacts, SessionLabels DEF PullLabels
    <3> QED BY <2>1, <2>2, <2>4, <3>1, <3>2, SessionLabels, MoveInv
            DEF IInv, BlobsKnown, StoredOnly, CachedWasRemote, OnlyRequested, locks, ghosts
  <2> QED BY <1>33, <2>3, <2>4 DEF Decide
<1>34. ASSUME NEW p \in Procs, Fetch(p) PROVE IInv'
  <2>1. \A q \in Procs : loaded'[q] <= nblobs
    BY <1>34 DEF Fetch, IInv, BlobsKnown, TypeOK, MemoryOK
  <2>2. \A q \in Procs : body'[q] # 0 => body'[q] \in everRemote
    BY <1>34 DEF Fetch, IInv, StoredOnly, TypeOK, MemoryOK
  <2> QED BY <1>34, <2>1, <2>2, QuietMove
          DEF Fetch, PullLabels, CommitLabels, IInv, CachedWasRemote, disk, locks, ghosts
<1>35. ASSUME NEW p \in Procs, PullFails(p) PROVE IInv'
  BY <1>35, ReturnInv DEF PullFails, IInv, BlobsKnown, ghosts
<1>36. ASSUME NEW p \in Procs, StartAdopt(p) PROVE IInv'
  <2>1. \A q \in Procs : loaded'[q] <= nblobs
    BY <1>36 DEF StartAdopt, IInv, BlobsKnown, TypeOK, MemoryOK
  <2>2. \A q \in Procs : body'[q] # 0 => body'[q] \in everRemote
    BY <1>36 DEF StartAdopt, IInv, StoredOnly, TypeOK, MemoryOK
  <2> QED BY <1>36, <2>1, <2>2, QuietMove
          DEF StartAdopt, PullLabels, CommitLabels, IInv, CachedWasRemote, disk, locks, ghosts
<1>37. ASSUME NEW p \in Procs, AdoptFetch(p) PROVE IInv'
  <2>1. CASE Return(p)
    BY <1>37, <2>1, ReturnInv DEF AdoptFetch, IInv, BlobsKnown, disk, ghosts
  <2>2. CASE ~ Return(p)
    <3>1. \A q \in Procs : body'[q] # 0 => body'[q] \in everRemote
      BY <1>37, <2>2 DEF AdoptFetch, IInv, StoredOnly, TypeOK, MemoryOK
    <3> QED BY <1>37, <2>2, <3>1, QuietMove
            DEF AdoptFetch, PullLabels, IInv, BlobsKnown, CachedWasRemote, disk, locks, ghosts
  <2> QED BY <2>1, <2>2
<1>38. ASSUME NEW p \in Procs, InstallRefused(p) PROVE IInv'
  BY <1>38, ReturnInv DEF InstallRefused, IInv, BlobsKnown, Evidence, ghosts
<1>39. ASSUME NEW p \in Procs, Install(p) PROVE IInv'
  <2> DEFINE lost == {<<t, cmd[p]>> : t \in Vault(local).pend \ Vault(body[p]).base}
  <2>1. /\ local' = body[p] /\ discarded' = discarded \cup lost /\ Goto(p, "commit")
        /\ UNCHANGED <<cached, conflict, intent, pubLock, net, blobs, nblobs, loaded, body, want,
                       minted, requested, published, everRemote>>
    BY <1>39 DEF Install
  <2>2. body[p] <= nblobs /\ Vault(body[p]).base \cap Tx \subseteq published
    <3>1. CASE body[p] = 0
      BY <3>1 DEF Vault, EmptyVault, TypeOK, BlobsOK, Ids
    <3>2. CASE body[p] # 0
      <4>1. body[p] \in everRemote
        BY <3>2 DEF IInv, StoredOnly
      <4>2. body[p] \in 1..nblobs /\ blobs[body[p]].base \cap Tx \subseteq published
        BY <4>1 DEF IInv, BlobsKnown, StoredPublished
      <4> QED BY <3>2, <4>2 DEF Vault, TypeOK, BlobsOK, Ids
    <3> QED BY <3>1, <3>2
  <2>3. LedgerComplete'
    <3>1. SUFFICES ASSUME NEW t \in minted, t \notin published, t \notin {d[1] : d \in discarded}
                   PROVE  t \in {d[1] : d \in lost}
      BY <2>1 DEF LedgerComplete
    <3>2. t \in Vault(local).pend /\ t \in Tx
      BY <3>1 DEF IInv, LedgerComplete, TypeOK, GhostsOK
    <3>3. t \notin Vault(body[p]).base
      BY <2>2, <3>1, <3>2
    <3>4. <<t, cmd[p]>> \in lost /\ <<t, cmd[p]>>[1] = t
      BY <3>2, <3>3
    <3> QED BY <3>4
  <2>4. "commit" \in Labels /\ "commit" \notin PubLabels
    BY LabelFacts, SessionLabels DEF PullLabels, CommitLabels
  <2> QED BY <2>1, <2>2, <2>3, <2>4, SessionLabels, MoveInv
          DEF IInv, BlobsKnown, StoredOnly, CachedWasRemote, OnlyRequested, net
<1>40. ASSUME NEW p \in Procs, CommitLedgers(p) PROVE IInv'
  <2>1. \A q \in Procs : loaded'[q] <= nblobs
    BY <1>40 DEF CommitLedgers, IInv, BlobsKnown, TypeOK, MemoryOK
  <2>2. \A q \in Procs : body'[q] # 0 => body'[q] \in everRemote
    BY <1>40 DEF CommitLedgers, IInv, StoredOnly, TypeOK, MemoryOK
  <2> QED BY <1>40, <2>1, <2>2, QuietMove
          DEF CommitLedgers, PullLabels, CommitLabels, IInv, CachedWasRemote, disk, locks, ghosts
<1>41. ASSUME NEW p \in Procs, CommitETag(p) PROVE IInv'
  <2>1. \A q \in Procs : loaded'[q] <= nblobs
    BY <1>41 DEF CommitETag, IInv, BlobsKnown, TypeOK, MemoryOK
  <2>2. \A q \in Procs : body'[q] # 0 => body'[q] \in everRemote
    BY <1>41 DEF CommitETag, IInv, StoredOnly, TypeOK, MemoryOK
  <2> QED BY <1>41, <2>1, <2>2, QuietMove
          DEF CommitETag, PullLabels, CommitLabels, IInv, StoredOnly, CachedWasRemote, disk, locks, ghosts
<1>42. ASSUME NEW p \in Procs, CommitClear(p) PROVE IInv'
  <2>1. UNCHANGED <<local, cached, intent, remote, inflight, blobs, nblobs, ghosts>> /\ conflict'.local <= nblobs
    BY <1>42 DEF CommitClear, ClearConflict, IInv, BlobsKnown, net, NoConflict, TypeOK, BlobsOK, Ids
  <2>2. LedgerComplete'
    BY <2>1, SameLedger DEF IInv, ghosts
  <2>3. CASE Return(p)
    BY <2>1, <2>3, ReturnInv DEF ghosts, net
  <2>4. CASE Goto(p, "record") /\ UNCHANGED <<pubLock, cmd, loaded, seen, got, body, want>>
    <3>1. "record" \in Labels /\ "record" \notin PubLabels
      BY LabelFacts, SessionLabels DEF PullLabels
    <3> QED BY <2>1, <2>2, <2>4, <3>1, SessionLabels, MoveInv
            DEF IInv, BlobsKnown, StoredOnly, CachedWasRemote, OnlyRequested, ghosts
  <2> QED BY <1>42, <2>3, <2>4 DEF CommitClear
<1>43. ASSUME NEW p \in Procs, RecordSuccess(p) PROVE IInv'
  BY <1>43, ReturnInv DEF RecordSuccess, IInv, BlobsKnown, ghosts
<1>44. ASSUME NEW p \in Procs, Crash(p) PROVE IInv'
  BY <1>44, ReturnInv DEF Crash, IInv, BlobsKnown, disk, ghosts
<1>45. ASSUME NEW r \in inflight, ServerStore(r) \/ ServerRefuse(r) \/ ServerError(r) \/ LoseRequest(r)
      PROVE  IInv'
  <2>1. /\ UNCHANGED <<local, cached, conflict, intent, pubLock, blobs, nblobs, loaded, body, want,
                       minted, requested, discarded>>
        /\ inflight' \subseteq inflight
    BY <1>45 DEF ServerStore, ServerRefuse, ServerError, LoseRequest, disk, locks, memory, ghosts
  <2>2. \/ UNCHANGED <<remote, everRemote, published>>
        \/ Store(r)
    BY <1>45 DEF ServerStore, ServerRefuse, ServerError, LoseRequest, ghosts
  <2>3. /\ everRemote \subseteq everRemote' /\ everRemote' \subseteq 1..nblobs
        /\ remote' = remote \/ remote' \in everRemote'
        /\ published \subseteq published' /\ published' \subseteq requested
        /\ \A j \in everRemote' : blobs[j].base \cap Tx \subseteq published'
    <3>1. r.blob \in 1..nblobs /\ blobs[r.blob].base \cap Tx \subseteq requested
      BY DEF IInv, BlobsKnown, OnlyRequested
    <3>2. everRemote \subseteq 1..nblobs /\ published \subseteq requested
          /\ \A j \in everRemote : blobs[j].base \cap Tx \subseteq published
      BY DEF IInv, BlobsKnown, ScopeExact, StoredPublished
    <3> QED BY <2>2, <3>1, <3>2 DEF Store
  <2>4. \A q \in Procs :
          \/ pc'[q] = pc[q]
          \/ pc[q] = "await" /\ pc'[q] \in {"put_conflict", "put_rejected"}
          \/ pc[q] = "await" /\ pc'[q] = "put_ok" /\ intent.target \in everRemote'
    <3>1. \/ UNCHANGED pc
          \/ Answer(r, "put_conflict") \/ Answer(r, "put_rejected")
          \/ Answer(r, "put_ok") /\ r.blob \in everRemote'
      BY <1>45 DEF ServerStore, ServerRefuse, ServerError, LoseRequest, Store, memory
    <3>2. MemoryOK
      BY DEF TypeOK
    <3>3. CASE UNCHANGED pc
      BY <3>3
    <3>4. CASE Answer(r, "put_conflict")
      BY <3>2, <3>4, AnswerFacts
    <3>5. CASE Answer(r, "put_rejected")
      BY <3>2, <3>5, AnswerFacts
    <3>6. CASE Answer(r, "put_ok") /\ r.blob \in everRemote'
      <4>1. \A q \in Procs : pc'[q] = pc[q] \/ (pc[q] = "await" /\ pc'[q] = "put_ok" /\ intent.target = r.blob)
        BY <3>2, <3>6, AnswerFacts
      <4> QED BY <3>6, <4>1
    <3> QED BY <3>1, <3>3, <3>4, <3>5, <3>6
  <2>5. SessionHeld'
    <3>1. /\ {"await", "put_conflict", "put_rejected", "put_ok"} \subseteq NeedsIntent
          /\ {"put_conflict", "put_rejected"} \cap (FinalLabels \cup {"put_ok"}) = {}
      BY DEF NeedsIntent, PutLabels, FinalLabels
    <3> QED BY <2>1, <2>3, <2>4, <3>1, SessionLabels DEF IInv, SessionHeld
  <2>6. BlobsKnown' /\ StoredOnly' /\ CachedWasRemote'
    BY <2>1, <2>3 DEF IInv, BlobsKnown, StoredOnly, CachedWasRemote
  <2>7. StoredPublished' /\ IntentCovered' /\ FailedStored' /\ OnlyRequested' /\ ScopeExact'
    BY <2>1, <2>3 DEF IInv, StoredPublished, IntentCovered, FailedStored, OnlyRequested, ScopeExact
  <2>8. LedgerComplete'
    BY <2>1, <2>3 DEF IInv, LedgerComplete, Vault
  <2> QED BY <2>5, <2>6, <2>7, <2>8 DEF IInv
<1>46. ASSUME OtherPublish PROVE IInv'
  <2>1. /\ UNCHANGED <<local, cached, conflict, intent, pubLock, inflight, pc, loaded, body, want, minted, requested, discarded>>
        /\ remote' = nblobs + 1 /\ everRemote' = everRemote \cup {nblobs + 1} /\ CanEncrypt
        /\ published' = published \cup (Vault(remote).base \cap Tx)
    BY <1>46 DEF OtherPublish, disk, locks, memory
  <2>2. Vault(remote) \in Blob /\ Vault(remote).gen + 2 \in Nat
    BY VaultType DEF TypeOK, NetOK, Blob
  <2>3. PICK f \in Foreign :
           EncryptVault(Vault(remote).gen + 2, [Vault(remote) EXCEPT !.base = @ \cup {f}])
    BY <1>46 DEF OtherPublish
  <2> DEFINE v == [Vault(remote) EXCEPT !.base = @ \cup {f}]
  <2>4. v \in Blob /\ v.base = Vault(remote).base \cup {f}
    BY <2>2 DEF Blob
  <2>5. remote <= nblobs
    BY DEF IInv, StoredOnly, BlobsKnown, TypeOK, NetOK, BlobsOK, Ids
  <2>6. /\ Vault(remote).base \cap Tx \subseteq requested
        /\ v.base \cap Tx \subseteq Vault(remote).base \cap Tx
    BY <2>4, <2>5, VaultRequested, TxAssumption DEF TypeOK, NetOK
  <2>7. EncryptVault(Vault(remote).gen + 2, v)
    BY <2>3
  <2> HIDE DEF v
  <2>8. /\ nblobs' = nblobs + 1 /\ nblobs \in Nat
        /\ \A i \in 1..nblobs : blobs'[i] = blobs[i]
        /\ blobs'[nblobs + 1].base = v.base
        /\ \A i \in 1..nblobs' : blobs'[i].base \cap Tx \subseteq requested'
    BY <2>1, <2>2, <2>4, <2>6, <2>7, Appended
  <2>9. BlobsKnown'
    <3>1. 1..nblobs \subseteq 1..nblobs' /\ nblobs + 1 \in 1..nblobs' /\ \A i \in Ids : i <= nblobs => i <= nblobs'
      BY <2>8 DEF Ids
    <3> QED BY <2>1, <3>1, FieldTypes DEF IInv, BlobsKnown, TypeOK, FilesOK, MemoryOK
  <2>10. StoredOnly' /\ CachedWasRemote' /\ FailedStored' /\ ScopeExact' /\ SessionHeld'
    BY <2>1, <2>6 DEF IInv, StoredOnly, CachedWasRemote, FailedStored, ScopeExact, SessionHeld
  <2>11. StoredPublished'
    BY <2>1, <2>6, <2>8 DEF IInv, BlobsKnown, StoredPublished
  <2>12. IntentCovered' /\ OnlyRequested'
    <3>1. intent.state # "none" => intent.target \in 1..nblobs
      BY FieldTypes DEF IInv, IntentCovered, BlobsKnown, TypeOK, BlobsOK, Ids
    <3> QED BY <2>1, <2>8, <3>1 DEF IInv, IntentCovered, OnlyRequested
  <2>13. LedgerComplete'
    <3>1. Vault(local)'.pend = Vault(local).pend
      BY <2>1, <2>8 DEF Vault, IInv, BlobsKnown, TypeOK, FilesOK, Ids
    <3> QED BY <2>1, <3>1 DEF IInv, LedgerComplete
  <2> QED BY <2>9, <2>10, <2>11, <2>12, <2>13 DEF IInv
<1>47. ASSUME RestoreRemote PROVE IInv'
  BY <1>47 DEF RestoreRemote, IInv, BlobsKnown, StoredOnly, StoredPublished, IntentCovered, SessionHeld,
     FailedStored, OnlyRequested, CachedWasRemote, ScopeExact, LedgerComplete, Vault, disk, locks, memory, ghosts
<1> QED
  BY <1>1, <1>2, <1>3, <1>4, <1>5, <1>6, <1>7, <1>8, <1>9, <1>10, <1>11, <1>12, <1>13, <1>14,
     <1>15, <1>16, <1>17, <1>18, <1>19, <1>20, <1>21, <1>22, <1>23, <1>24, <1>25, <1>26,
     <1>27, <1>28, <1>29, <1>30, <1>31, <1>32, <1>33, <1>34, <1>35, <1>36, <1>37, <1>38,
     <1>39, <1>40, <1>41, <1>42, <1>43, <1>44, <1>45, <1>46, <1>47
     DEF Next, Command, Step, Failure, Server

\* The initial situations satisfy the inductive invariant.
LEMMA InvInit == Init => IInv
<1> SUFFICES ASSUME Init PROVE IInv
  OBVIOUS
<1>1. TypeOK
  BY TypeInit
<1>2. /\ local <= nblobs /\ cached \in {0, remote} /\ remote <= nblobs /\ nblobs \in {1, 2}
      /\ \A i \in 1..nblobs : blobs[i].base \subseteq Foreign
  <2>1. \A a, b : /\ InitBlobs(a, b)[1] = a /\ InitBlobs(a, b)[2] = b
    BY BoundsAssumption DEF InitBlobs
  <2>2. CASE Synced
    BY <2>1, <2>2 DEF Synced
  <2>3. CASE Unsynced
    BY <2>1, <2>3 DEF Unsynced
  <2>4. CASE First
    BY <2>1, <2>4 DEF First
  <2>5. CASE Fresh
    BY <2>1, <2>5 DEF Fresh
  <2> QED BY <2>2, <2>3, <2>4, <2>5 DEF Init
<1>3. everRemote = (IF remote = 0 THEN {} ELSE {remote}) /\ remote \in Nat
  BY <1>1, IdsFacts DEF Init, TypeOK, NetOK
<1>4. everRemote \subseteq 1..nblobs
  BY <1>2, <1>3
<1>5. BlobsKnown
  BY <1>2, <1>4 DEF Init, BlobsKnown, NoConflict, NoIntent
<1>6. \A i \in 1..nblobs : blobs[i].base \cap Tx = {}
  BY <1>2, TxAssumption
<1>7. StoredOnly /\ StoredPublished /\ CachedWasRemote
  BY <1>2, <1>3, <1>4, <1>6 DEF Init, StoredOnly, StoredPublished, CachedWasRemote
<1>8. IntentCovered /\ FailedStored /\ OnlyRequested /\ ScopeExact /\ LedgerComplete
  BY <1>6 DEF Init, NoIntent, IntentCovered, FailedStored, OnlyRequested, ScopeExact, LedgerComplete
<1>9. SessionHeld
  BY SessionLabels DEF Init, SessionHeld
<1> QED BY <1>5, <1>7, <1>8, <1>9 DEF IInv

\* The inductive invariant holds in every reachable state.
THEOREM Invariance == Spec => []IInv
<1>1. IInv /\ TypeOK /\ TypeOK' /\ [Next]_vars => IInv'
  <2> SUFFICES ASSUME IInv, TypeOK, TypeOK', [Next]_vars PROVE IInv'
    OBVIOUS
  <2>1. CASE Next
    BY <2>1, InvStep
  <2>2. CASE UNCHANGED vars
    BY <2>2 DEF vars, IInv, BlobsKnown, StoredOnly, StoredPublished, IntentCovered, SessionHeld, FailedStored,
       OnlyRequested, CachedWasRemote, ScopeExact, LedgerComplete, Vault, disk, locks, net, memory, ghosts
  <2> QED BY <2>1, <2>2
<1> QED BY InvInit, TypeCorrect, <1>1, PTL DEF Spec

\* No saved mutation leaves the pending ledger before the server has stored it, unless a
\* pull replaced the vault (Publish, finalizePublishingIntent, saveLoadedVault).
THEOREM LedgerNeverLosesMutations == Spec => []LedgerComplete
<1>1. IInv => LedgerComplete
  BY DEF IInv
<1> QED BY Invariance, <1>1, PTL

\* The server never stores an own transaction that no push command selected (Publish,
\* projectTransactionIDs, matchesRecovery).
THEOREM OnlySelectedPublished == Spec => []ScopeExact
<1>1. IInv => ScopeExact
  BY DEF IInv
<1> QED BY Invariance, <1>1, PTL

\* The cached remote identity is one the server has stored (commitSuccess).
THEOREM CacheNamesStoredVersion == Spec => []CachedWasRemote
<1>1. IInv => CachedWasRemote
  BY DEF IInv
<1> QED BY Invariance, <1>1, PTL

\* Finalization runs, and is resumed, only for a target the server has stored
\* (reconcilePublishingIntent, finalizePublishingIntent).
THEOREM FinalizationIsSafe == Spec => []FinalizesStoredTarget
<1>1. IInv => FinalizesStoredTarget
  BY DEF IInv, SessionHeld, FailedStored, FinalizesStoredTarget
<1> QED BY Invariance, <1>1, PTL

-----------------------------------------------------------------------------
(* Replaced versions: the superseded ledger.                               *)

\* A ledger without repetitions, of versions that exist.
Formed(s) ==
  /\ s \in Seq(Ids)
  /\ \A i, j \in 1..Len(s) : s[i] = s[j] => i = j
  /\ \A i \in 1..Len(s) : s[i] # 0

\* A ledger without repetitions is no longer than there are versions.
LEMMA FormedLength ==
  ASSUME NEW s, Formed(s)
  PROVE  Len(s) <= MaxBlobs
<1>1. Len(s) \in Nat /\ s \in [1..Len(s) -> 1..MaxBlobs]
  BY LenProperties, BoundsAssumption DEF Formed, Ids
<1>2. s \in Injection(1..Len(s), 1..MaxBlobs)
  BY <1>1 DEF Formed, Injection, IsInjective
<1>3. /\ IsFiniteSet(1..MaxBlobs) /\ Cardinality(1..MaxBlobs) = MaxBlobs
      /\ Cardinality(1..Len(s)) = Len(s)
  <2>1. \A n \in Nat : IsFiniteSet(1..n) /\ Cardinality(1..n) = n
    <3> SUFFICES ASSUME NEW n \in Nat PROVE IsFiniteSet(1..n) /\ Cardinality(1..n) = n
      OBVIOUS
    <3>1. IsFiniteSet(1..n) /\ Cardinality(1..n) = IF 1 > n THEN 0 ELSE n - 1 + 1
      BY FS_Interval
    <3> QED BY <3>1
  <2> QED BY <1>1, <2>1, BoundsAssumption
<1> QED BY <1>2, <1>3, FS_Injection

\* Removing a version keeps the others.
LEMMA WithoutKeeps ==
  ASSUME NEW s, Formed(s), NEW x \in Ids
  PROVE  /\ Formed(Without(s, x))
         /\ \A i : Holds(s, i) /\ i # x => Holds(Without(s, x), i)
<1>1. CASE \E i \in 1..Len(s) : s[i] = x
  <2> DEFINE k == CHOOSE j \in 1..Len(s) : s[j] = x
             w == SubSeq(s, 1, k - 1) \o SubSeq(s, k + 1, Len(s))
  <2>1. k \in 1..Len(s) /\ s[k] = x /\ Len(s) \in Nat
    BY <1>1, LenProperties DEF Formed
  <2>2. Without(s, x) = w
    BY <1>1 DEF Without
  <2> HIDE DEF k
  <2>3. /\ SubSeq(s, 1, k - 1) \in Seq(Ids) /\ Len(SubSeq(s, 1, k - 1)) = k - 1
        /\ \A i \in 1..(k - 1) : SubSeq(s, 1, k - 1)[i] = s[i]
    <3>1. \A i \in 1..(k - 1) : s[i] \in Ids
      BY <2>1, ElementOfSeq DEF Formed
    <3> QED BY <2>1, <3>1, SubSeqProperties
  <2>4. /\ SubSeq(s, k + 1, Len(s)) \in Seq(Ids) /\ Len(SubSeq(s, k + 1, Len(s))) = Len(s) - k
        /\ \A i \in 1..(Len(s) - k) : SubSeq(s, k + 1, Len(s))[i] = s[k + i]
    <3>1. \A i \in (k + 1)..Len(s) : s[i] \in Ids
      BY <2>1, ElementOfSeq DEF Formed
    <3> QED BY <2>1, <3>1, SubSeqProperties
  <2>5. /\ w \in Seq(Ids) /\ Len(w) = Len(s) - 1
        /\ \A i \in 1..(Len(s) - 1) : w[i] = IF i < k THEN s[i] ELSE s[i + 1]
    <3> DEFINE a == SubSeq(s, 1, k - 1)
               b == SubSeq(s, k + 1, Len(s))
    <3>1. /\ w \in Seq(Ids) /\ Len(w) = Len(a) + Len(b)
          /\ \A i \in 1..(Len(a) + Len(b)) : w[i] = IF i <= Len(a) THEN a[i] ELSE b[i - Len(a)]
      BY <2>3, <2>4, ConcatProperties
    <3>2. Len(a) = k - 1 /\ Len(b) = Len(s) - k
      BY <2>3, <2>4
    <3> HIDE DEF a, b, w
    <3>3. ASSUME NEW i \in 1..(Len(s) - 1) PROVE w[i] = IF i < k THEN s[i] ELSE s[i + 1]
      <4>1. CASE i < k
        BY <2>1, <2>3, <3>1, <3>2, <4>1 DEF a
      <4>2. CASE ~ (i < k)
        <5>1. i - (k - 1) \in 1..(Len(s) - k) /\ k + (i - (k - 1)) = i + 1
          BY <2>1, <4>2
        <5>2. w[i] = b[i - (k - 1)]
          BY <2>1, <3>1, <3>2, <4>2
        <5>3. b[i - (k - 1)] = s[i + 1]
          BY <2>4, <5>1 DEF b
        <5> QED BY <4>2, <5>2, <5>3
      <4> QED BY <4>1, <4>2
    <3> QED BY <2>1, <3>1, <3>2, <3>3
  <2> HIDE DEF w
  <2>6. Formed(w)
    <3>1. \A i \in 1..Len(w) : i \in 1..Len(s) /\ i + 1 \in 1..Len(s)
      BY <2>1, <2>5
    <3>2. \A i \in 1..Len(w) : w[i] # 0
      BY <2>5, <3>1 DEF Formed
    <3>3. ASSUME NEW i \in 1..Len(w), NEW j \in 1..Len(w), w[i] = w[j] PROVE i = j
      <4> DEFINE f(n) == IF n < k THEN n ELSE n + 1
      <4>1. f(i) \in 1..Len(s) /\ f(j) \in 1..Len(s) /\ s[f(i)] = s[f(j)]
        BY <2>1, <2>5, <3>1, <3>3
      <4>2. f(i) = f(j)
        BY <4>1 DEF Formed
      <4> QED BY <2>1, <4>2
    <3> QED BY <2>5, <3>2, <3>3 DEF Formed
  <2>7. ASSUME NEW i, Holds(s, i), i # x PROVE Holds(w, i)
    <3>1. PICK j \in 1..Len(s) : s[j] = i
      BY <2>7 DEF Holds
    <3>2. CASE j < k
      BY <2>1, <2>5, <3>1, <3>2 DEF Holds
    <3>3. CASE j > k
      <4>1. j - 1 \in 1..(Len(s) - 1) /\ ~ (j - 1 < k) /\ (j - 1) + 1 = j
        BY <2>1, <3>3
      <4>2. w[j - 1] = i
        BY <2>5, <3>1, <4>1
      <4> QED BY <2>5, <4>1, <4>2 DEF Holds
    <3> QED BY <2>1, <2>7, <3>1, <3>2, <3>3
  <2> QED BY <2>2, <2>6, <2>7
<1>2. CASE ~ \E i \in 1..Len(s) : s[i] = x
  BY <1>2 DEF Without
<1> QED BY <1>1, <1>2

\* recordSuperseded: everything on record stays, but for the version that is current
\* again, and the version that was current is on record.
LEMMA RecordKeeps ==
  ASSUME NEW ledger, Formed(ledger), MaxBlobs <= MaxSuperseded,
         NEW old \in Ids, NEW next \in Ids, next # 0
  PROVE  /\ Formed(RecordSuperseded(ledger, old, next))
         /\ \A i : Holds(ledger, i) /\ i # next => Holds(RecordSuperseded(ledger, old, next), i)
         /\ old = 0 \/ old = next \/ Holds(RecordSuperseded(ledger, old, next), old)
<1>1. CASE old = 0 \/ old = next
  BY <1>1 DEF RecordSuperseded
<1>2. CASE ~ (old = 0 \/ old = next)
  <2> DEFINE kept == Without(ledger, next)
             s == IF Holds(kept, old) THEN kept ELSE Append(kept, old)
  <2>1. Formed(kept) /\ \A i : Holds(ledger, i) /\ i # next => Holds(kept, i)
    BY WithoutKeeps
  <2>2. RecordSuperseded(ledger, old, next) = Newest(s, MaxSuperseded)
    BY <1>2 DEF RecordSuperseded
  <2> HIDE DEF kept
  <2>3. /\ Formed(s) /\ Holds(s, old) /\ \A i : Holds(kept, i) => Holds(s, i)
    <3>1. CASE Holds(kept, old)
      BY <2>1, <3>1
    <3>2. CASE ~ Holds(kept, old)
      <4>1. /\ Append(kept, old) \in Seq(Ids) /\ Len(Append(kept, old)) = Len(kept) + 1
            /\ Len(kept) \in Nat
            /\ Append(kept, old)[Len(kept) + 1] = old
            /\ \A i \in 1..Len(kept) : Append(kept, old)[i] = kept[i]
        BY <2>1, AppendProperties, LenProperties DEF Formed
      <4> DEFINE a == Append(kept, old)
      <4> HIDE DEF a
      <4>2. \A i \in 1..Len(a) : i \in 1..Len(kept) \/ i = Len(kept) + 1
        BY <4>1 DEF a
      <4>3. Formed(a)
        BY <1>2, <2>1, <3>2, <4>1, <4>2 DEF Formed, Holds, a
      <4>4. Holds(a, old) /\ \A i : Holds(kept, i) => Holds(a, i)
        BY <4>1 DEF Holds, a
      <4> QED BY <3>2, <4>3, <4>4 DEF a
    <3> QED BY <3>1, <3>2
  <2> HIDE DEF s
  <2>4. Len(s) <= MaxSuperseded
    <3>1. Len(s) \in Nat
      BY <2>3, LenProperties DEF Formed
    <3> QED BY <2>3, <3>1, FormedLength, BoundsAssumption
  <2>5. Newest(s, MaxSuperseded) = s
    <3>1. Len(s) \in Nat
      BY <2>3, LenProperties DEF Formed
    <3> QED BY <2>4, <3>1, BoundsAssumption DEF Newest
  <2> QED BY <2>1, <2>2, <2>3, <2>5
<1> QED BY <1>1, <1>2

\* Labels at which the vault write lock is held from one step to the next.
VaultLabels == CommitLabels \cup {"confirm", "confirm_etag", "confirm_clear", "confirm_intent"}

\* The cached version may be replaced by next: it is on record, or a swallowed failure
\* lost its entry.
Recorded(next) ==
  cached = 0 \/ cached = next \/ Holds(superseded, cached) \/ cached \in unrecorded

\* What a process knows at its label: it holds the vault lock while it commits, the
\* server had a vault when it looked, and the ledger was written, or its write
\* passed over, before remote.etag.
CommitAt(p) ==
  /\ pc[p] \in VaultLabels => vaultLock = p
  /\ pc[p] \in {"check", "rollback", "decision", "fetch"} => remote # 0
  /\ pc[p] = "reset" => cmd[p] # "background"
  /\ pc[p] = "facts" /\ cmd[p] = "background" => remote # 0
  /\ pc[p] \in {"install"} \cup CommitLabels => body[p] # 0
  /\ pc[p] = "adopt_fetch" => got[p] # 0
  /\ pc[p] = "commit_etag" => Recorded(body[p])
  /\ pc[p] = "confirm_etag" => Recorded(intent.target)

\* What was replaced is on record, but for the entries a swallowed failure lost.
OnRecord ==
  /\ Formed(superseded) /\ 0 \notin replaced
  /\ \A i \in replaced \ unrecorded : Holds(superseded, i)

SupInv == OnRecord /\ \A p \in Procs : CommitAt(p)

\* The memory of the other processes, and a vault lock one of them holds, stay.
OthersSame(p) ==
  \A q \in Procs \ {p} : /\ pc'[q] = pc[q] /\ cmd'[q] = cmd[q] /\ body'[q] = body[q] /\ got'[q] = got[q]
                         /\ vaultLock = q => vaultLock' = q

\* The first two writes of commitSuccess: an entry leaves the ledger only by being
\* current again, or as one lost to a failure.
LEMMA LedgersKeep ==
  ASSUME TypeOK, OnRecord, MaxBlobs <= MaxSuperseded, NEW next \in Ids, next # 0,
         NEW gen, NEW adopted, RecordLedgers(next, gen, adopted)
  PROVE  /\ OnRecord'
         /\ cached = 0 \/ cached = next \/ Holds(superseded', cached) \/ cached \in unrecorded'
<1> DEFINE full == RecordSuperseded(superseded, cached, next)
           anew == IF cached \in {0, next} THEN superseded ELSE RecordSuperseded(<<>>, cached, next)
           entries == {superseded[i] : i \in 1..Len(superseded)}
           Lost(known) == {i \in known \ {0, next} : ~ Holds(superseded', i)}
<1>1. cached \in Ids
  BY DEF TypeOK, FilesOK
<1>2. /\ Formed(full)
      /\ \A i : Holds(superseded, i) /\ i # next => Holds(full, i)
      /\ cached = 0 \/ cached = next \/ Holds(full, cached)
  BY <1>1, RecordKeeps DEF OnRecord
<1>3. Formed(anew)
  <2>1. Formed(<<>>)
    BY NoLedgerType, EmptySeq DEF Formed
  <2>2. Formed(RecordSuperseded(<<>>, cached, next))
    BY <1>1, <2>1, RecordKeeps
  <2> QED BY <2>2 DEF OnRecord
<1>4. \A i : Holds(superseded, i) => i \in entries
  BY DEF Holds
<1>5. replaced' = replaced \ {next}
  BY DEF RecordLedgers
<1> HIDE DEF full, anew, entries
<1>6. CASE superseded' = full /\ unrecorded' = Lost(unrecorded)
  BY <1>2, <1>5, <1>6 DEF OnRecord
<1>7. CASE /\ superseded' \in {superseded, full, anew}
           /\ unrecorded' = Lost(unrecorded \cup {cached} \cup entries)
  <2>1. Formed(superseded')
    BY <1>2, <1>3, <1>7 DEF OnRecord
  <2>2. ASSUME NEW i \in replaced' \ unrecorded' PROVE Holds(superseded', i)
    <3>1. i \in replaced /\ i # 0 /\ i # next
      BY <1>5, <2>2 DEF OnRecord
    <3>2. i \in unrecorded \cup entries
      BY <1>4, <3>1 DEF OnRecord
    <3> QED BY <1>7, <2>2, <3>1, <3>2
  <2>3. 0 \notin replaced'
    BY <1>5 DEF OnRecord
  <2> QED BY <1>7, <2>1, <2>2, <2>3 DEF OnRecord
<1> QED BY <1>6, <1>7 DEF RecordLedgers, full, anew, entries

\* A step of one process that leaves the records alone.
LEMMA SupMove ==
  ASSUME IInv, SupInv, NEW p \in Procs, OthersSame(p), remote # 0 => remote' # 0,
         UNCHANGED <<cached, superseded, replaced, unrecorded>>,
         intent'.target = intent.target \/ pubLock = p,
         CommitAt(p)'
  PROVE  SupInv'
<1>1. OnRecord'
  BY DEF SupInv, OnRecord, Formed, Holds
<1>2. ASSUME NEW q \in Procs \ {p} PROVE CommitAt(q)'
  <2>1. CommitAt(q)
    BY DEF SupInv
  <2>2. pc[q] = "confirm_etag" => intent'.target = intent.target
    <3>1. "confirm_etag" \in PubLabels
      BY DEF PubLabels, FinalLabels
    <3> QED BY <3>1 DEF IInv, SessionHeld
  <2> QED BY <2>1, <2>2 DEF CommitAt, OthersSame, Recorded, Holds
<1> QED BY <1>1, <1>2 DEF SupInv

\* A step that writes the records, under the vault lock.
LEMMA SupWrite ==
  ASSUME SupInv, NEW p \in Procs, OthersSame(p), remote' = remote, vaultLock \in {p, NoProc},
         OnRecord', CommitAt(p)'
  PROVE  SupInv'
<1>1. ASSUME NEW q \in Procs \ {p} PROVE CommitAt(q)'
  <2>1. CommitAt(q) /\ pc[q] \notin VaultLabels
    BY NoProcAssumption DEF SupInv, CommitAt
  <2>2. CommitLabels \subseteq VaultLabels /\ "confirm_etag" \in VaultLabels /\ "commit_etag" \in CommitLabels
    BY DEF VaultLabels, CommitLabels
  <2> QED BY <2>1, <2>2 DEF CommitAt, OthersSame
<1> QED BY <1>1 DEF SupInv

\* A command that returns.
LEMMA SupReturn ==
  ASSUME TypeOK, IInv, SupInv, NEW p \in Procs, Return(p), remote' = remote,
         UNCHANGED <<cached, superseded, replaced, unrecorded>>,
         intent'.target = intent.target \/ pubLock = p
  PROVE  SupInv'
<1>1. OthersSame(p) /\ pc'[p] = "idle"
  BY DEF Return, OthersSame, TypeOK, MemoryOK
<1>2. CommitAt(p)'
  BY <1>1 DEF CommitAt, VaultLabels, CommitLabels
<1> QED BY <1>1, <1>2, SupMove

\* A process that moves on without the vault lock, to a label that asks for nothing.
Undemanding == Labels \ (VaultLabels \cup {"check", "rollback", "decision", "fetch", "reset", "facts", "install",
                                        "adopt_fetch"})

LEMMA SupGoto ==
  ASSUME TypeOK, IInv, SupInv, NEW p \in Procs, NEW l \in Undemanding, Goto(p, l), remote' = remote,
         OthersSame(p),
         UNCHANGED <<cached, superseded, replaced, unrecorded>>,
         intent'.target = intent.target \/ pubLock = p
  PROVE  SupInv'
<1>1. pc'[p] = l
  BY DEF Goto, TypeOK, MemoryOK
<1>2. CommitAt(p)'
  BY <1>1 DEF CommitAt, VaultLabels, CommitLabels, Undemanding
<1> QED BY <1>1, <1>2, SupMove

\* Every step keeps the replaced versions on record.
LEMMA SupStep ==
  ASSUME TypeOK, TypeOK', IInv, SupInv, Next, MaxBlobs <= MaxSuperseded
  PROVE  SupInv'
<1>1. ASSUME NEW p \in Procs, StartMutate(p) PROVE SupInv'
  <2>1. Goto(p, "save") /\ "save" \in Undemanding
    BY <1>1 DEF StartMutate, Undemanding, Labels, PubLabels, PullLabels, FinalLabels, PutLabels, VaultLabels, CommitLabels
  <2>2. OthersSame(p)
    BY <1>1 DEF StartMutate, Start, Goto, OthersSame, locks, TypeOK, MemoryOK
  <2> QED BY <1>1, <2>1, <2>2, SupGoto DEF StartMutate, disk, net, ghosts
<1>2. ASSUME NEW p \in Procs, SaveMutation(p) PROVE SupInv'
  BY <1>2, SupReturn DEF SaveMutation, net
<1>3. ASSUME NEW p \in Procs, MutationBusy(p) PROVE SupInv'
  BY <1>3, SupReturn DEF MutationBusy, disk, net, ghosts
<1>4. ASSUME NEW p \in Procs, StartPushAll(p) PROVE SupInv'
  <2>1. Goto(p, "reconcile") /\ "reconcile" \in Undemanding
    BY <1>4 DEF StartPushAll, Undemanding, Labels, PubLabels, PullLabels, FinalLabels, PutLabels, VaultLabels, CommitLabels
  <2>2. OthersSame(p)
    BY <1>4 DEF StartPushAll, Start, Goto, OthersSame, locks, TypeOK, MemoryOK
  <2> QED BY <1>4, <2>1, <2>2, SupGoto DEF StartPushAll, disk, net, ghosts
<1>5. ASSUME NEW p \in Procs, StartPushOnly(p) PROVE SupInv'
  <2>1. Goto(p, "reconcile") /\ "reconcile" \in Undemanding
    BY <1>5 DEF StartPushOnly, Undemanding, Labels, PubLabels, PullLabels, FinalLabels, PutLabels, VaultLabels, CommitLabels
  <2>2. OthersSame(p)
    BY <1>5 DEF StartPushOnly, Start, Goto, OthersSame, locks, TypeOK, MemoryOK
  <2> QED BY <1>5, <2>1, <2>2, SupGoto DEF StartPushOnly, disk, net, ghosts
<1>6. ASSUME NEW p \in Procs, StartStatus(p) PROVE SupInv'
  <2>1. Goto(p, "reconcile") /\ "reconcile" \in Undemanding
    BY <1>6 DEF StartStatus, Undemanding, Labels, PubLabels, PullLabels, FinalLabels, PutLabels, VaultLabels, CommitLabels
  <2>2. OthersSame(p)
    BY <1>6 DEF StartStatus, Start, Goto, OthersSame, locks, TypeOK, MemoryOK
  <2> QED BY <1>6, <2>1, <2>2, SupGoto DEF StartStatus, disk, net, ghosts
<1>7. ASSUME NEW p \in Procs, StartPull(p) PROVE SupInv'
  <2>1. Goto(p, "facts") /\ cmd'[p] # "background"
    BY <1>7 DEF StartPull, Start, TypeOK, MemoryOK
  <2>2. OthersSame(p) /\ pc'[p] = "facts"
    BY <1>7, <2>1 DEF StartPull, Start, Goto, OthersSame, locks, TypeOK, MemoryOK
  <2>3. CommitAt(p)'
    BY <2>1, <2>2 DEF CommitAt, VaultLabels, CommitLabels
  <2> QED BY <1>7, <2>2, <2>3, SupMove DEF StartPull, disk, net, ghosts
<1>8. ASSUME NEW p \in Procs, StartBackground(p) PROVE SupInv'
  <2>1. Goto(p, "head") /\ "head" \in Undemanding
    BY <1>8 DEF StartBackground, Undemanding, Labels, PubLabels, PullLabels, FinalLabels, PutLabels, VaultLabels, CommitLabels
  <2>2. OthersSame(p)
    BY <1>8 DEF StartBackground, Start, Goto, OthersSame, locks, TypeOK, MemoryOK
  <2> QED BY <1>8, <2>1, <2>2, SupGoto DEF StartBackground, net
<1>9. ASSUME NEW p \in Procs, StartAdopt(p) PROVE SupInv'
  <2>1. Goto(p, "adopt_fetch") /\ got'[p] # 0
    BY <1>9 DEF StartAdopt, TypeOK, MemoryOK
  <2>2. OthersSame(p) /\ pc'[p] = "adopt_fetch"
    BY <1>9, <2>1 DEF StartAdopt, Start, Goto, OthersSame, locks, TypeOK, MemoryOK
  <2>3. CommitAt(p)'
    BY <2>1, <2>2 DEF CommitAt, VaultLabels, CommitLabels
  <2> QED BY <1>9, <2>2, <2>3, SupMove DEF StartAdopt, disk, net, ghosts
<1>10. ASSUME NEW p \in Procs, ReconcileLocal(p) PROVE SupInv'
  <2>0. pubLock = p
    BY <1>10 DEF ReconcileLocal, IInv, SessionHeld, PubLabels, PutLabels, FinalLabels
  <2>1. Return(p) \/ /\ \E l \in {"project", "finalize"} : Goto(p, l)
                     /\ UNCHANGED <<locks, cmd, got, body>>
    BY <1>10 DEF ReconcileLocal, ResumePending
  <2>2. UNCHANGED <<remote, cached, superseded, replaced, unrecorded>>
    BY <1>10 DEF ReconcileLocal, net, ghosts
  <2>3. CASE Return(p)
    BY <2>0, <2>2, <2>3, SupReturn
  <2>4. ASSUME NEW l \in {"project", "finalize"}, Goto(p, l), UNCHANGED <<locks, cmd, got, body>> PROVE SupInv'
    <3>1. l \in Undemanding
      BY DEF Undemanding, Labels, PubLabels, PullLabels, FinalLabels, PutLabels, VaultLabels, CommitLabels
    <3>2. OthersSame(p)
      BY <2>4 DEF Goto, OthersSame, locks, TypeOK, MemoryOK
    <3> QED BY <2>0, <2>2, <2>4, <3>1, <3>2, SupGoto
  <2> QED BY <2>1, <2>3, <2>4
<1>11. ASSUME NEW p \in Procs, ReconcileRemote(p) PROVE SupInv'
  <2>0. pubLock = p
    BY <1>11 DEF ReconcileRemote, IInv, SessionHeld, PubLabels, PutLabels, FinalLabels
  <2>1. Return(p) \/ /\ \E l \in {"project", "finalize"} : Goto(p, l)
                     /\ UNCHANGED <<locks, cmd, got, body>>
    BY <1>11 DEF ReconcileRemote, ResumePending
  <2>2. UNCHANGED <<remote, cached, superseded, replaced, unrecorded>>
    BY <1>11 DEF ReconcileRemote, net, ghosts
  <2>3. CASE Return(p)
    BY <2>0, <2>2, <2>3, SupReturn
  <2>4. ASSUME NEW l \in {"project", "finalize"}, Goto(p, l), UNCHANGED <<locks, cmd, got, body>> PROVE SupInv'
    <3>1. l \in Undemanding
      BY DEF Undemanding, Labels, PubLabels, PullLabels, FinalLabels, PutLabels, VaultLabels, CommitLabels
    <3>2. OthersSame(p)
      BY <2>4 DEF Goto, OthersSame, locks, TypeOK, MemoryOK
    <3> QED BY <2>0, <2>2, <2>4, <3>1, <3>2, SupGoto
  <2> QED BY <2>1, <2>3, <2>4
<1>12. ASSUME NEW p \in Procs, Project(p) PROVE SupInv'
  <2>0. pubLock = p
    BY <1>12 DEF Project, IInv, SessionHeld, PubLabels, PutLabels, FinalLabels
  <2>1. Return(p) \/ /\ \E l \in {"prepare", "verify_empty"} : Goto(p, l)
                     /\ UNCHANGED <<locks, cmd, got, body>>
    BY <1>12 DEF Project
  <2>2. UNCHANGED <<remote, cached, superseded, replaced, unrecorded>>
    BY <1>12 DEF Project, net, ghosts
  <2>3. CASE Return(p)
    BY <2>0, <2>2, <2>3, SupReturn
  <2>4. ASSUME NEW l \in {"prepare", "verify_empty"}, Goto(p, l), UNCHANGED <<locks, cmd, got, body>> PROVE SupInv'
    <3>1. l \in Undemanding
      BY DEF Undemanding, Labels, PubLabels, PullLabels, FinalLabels, PutLabels, VaultLabels, CommitLabels
    <3>2. OthersSame(p)
      BY <2>4 DEF Goto, OthersSame, locks, TypeOK, MemoryOK
    <3> QED BY <2>0, <2>2, <2>4, <3>1, <3>2, SupGoto
  <2> QED BY <2>1, <2>3, <2>4
<1>13. ASSUME NEW p \in Procs, VerifyEmpty(p) PROVE SupInv'
  BY <1>13, SupReturn DEF VerifyEmpty, net, ghosts
<1>14. ASSUME NEW p \in Procs, Prepare(p) PROVE SupInv'
  <2>0. pubLock = p
    BY <1>14 DEF Prepare, IInv, SessionHeld, PubLabels, PutLabels, FinalLabels
  <2>1. Return(p) \/ /\ \E l \in {"send"} : Goto(p, l)
                     /\ UNCHANGED <<locks, cmd, got, body>>
    BY <1>14 DEF Prepare
  <2>2. UNCHANGED <<remote, cached, superseded, replaced, unrecorded>>
    BY <1>14 DEF Prepare, net, ghosts
  <2>3. CASE Return(p)
    BY <2>0, <2>2, <2>3, SupReturn
  <2>4. ASSUME NEW l \in {"send"}, Goto(p, l), UNCHANGED <<locks, cmd, got, body>> PROVE SupInv'
    <3>1. l \in Undemanding
      BY DEF Undemanding, Labels, PubLabels, PullLabels, FinalLabels, PutLabels, VaultLabels, CommitLabels
    <3>2. OthersSame(p)
      BY <2>4 DEF Goto, OthersSame, locks, TypeOK, MemoryOK
    <3> QED BY <2>0, <2>2, <2>4, <3>1, <3>2, SupGoto
  <2> QED BY <2>1, <2>3, <2>4
<1>15. ASSUME NEW p \in Procs, Send(p) PROVE SupInv'
  <2>0. pubLock = p
    BY <1>15 DEF Send, IInv, SessionHeld, PubLabels, PutLabels, FinalLabels
  <2>1. Return(p) \/ /\ \E l \in {"await"} : Goto(p, l)
                     /\ UNCHANGED <<locks, cmd, got, body>>
    BY <1>15 DEF Send
  <2>2. UNCHANGED <<remote, cached, superseded, replaced, unrecorded>>
    BY <1>15 DEF Send, ghosts
  <2>3. CASE Return(p)
    BY <2>0, <2>2, <2>3, SupReturn
  <2>4. ASSUME NEW l \in {"await"}, Goto(p, l), UNCHANGED <<locks, cmd, got, body>> PROVE SupInv'
    <3>1. l \in Undemanding
      BY DEF Undemanding, Labels, PubLabels, PullLabels, FinalLabels, PutLabels, VaultLabels, CommitLabels
    <3>2. OthersSame(p)
      BY <2>4 DEF Goto, OthersSame, locks, TypeOK, MemoryOK
    <3> QED BY <2>0, <2>2, <2>4, <3>1, <3>2, SupGoto
  <2> QED BY <2>1, <2>3, <2>4
<1>16. ASSUME NEW p \in Procs, PutAmbiguous(p) PROVE SupInv'
  <2>1. pubLock = p
    BY <1>16 DEF PutAmbiguous, TimedOut, IInv, SessionHeld, PubLabels, PutLabels, FinalLabels
  <2> QED BY <1>16, <2>1, SupReturn DEF PutAmbiguous, net, ghosts
<1>17. ASSUME NEW p \in Procs, PutConflict(p) PROVE SupInv'
  <2>1. pubLock = p
    BY <1>17 DEF PutConflict, TimedOut, IInv, SessionHeld, PubLabels, PutLabels, FinalLabels
  <2> QED BY <1>17, <2>1, SupReturn DEF PutConflict, net, ghosts
<1>18. ASSUME NEW p \in Procs, PutRejected(p) PROVE SupInv'
  <2>1. pubLock = p
    BY <1>18 DEF PutRejected, TimedOut, IInv, SessionHeld, PubLabels, PutLabels, FinalLabels
  <2> QED BY <1>18, <2>1, SupReturn DEF PutRejected, net, ghosts
<1>19. ASSUME NEW p \in Procs, PutOk(p) PROVE SupInv'
  <2>1. Goto(p, "finalize") /\ "finalize" \in Undemanding
    BY <1>19 DEF PutOk, Undemanding, Labels, PubLabels, PullLabels, FinalLabels, PutLabels, VaultLabels, CommitLabels
  <2>2. OthersSame(p)
    BY <1>19 DEF PutOk, Start, Goto, OthersSame, locks, TypeOK, MemoryOK
  <2> QED BY <1>19, <2>1, <2>2, SupGoto DEF PutOk, disk, net, ghosts
<1>20. ASSUME NEW p \in Procs, Finalize(p) PROVE SupInv'
  <2>1. Goto(p, "confirm") /\ vaultLock' = p /\ vaultLock = NoProc
    BY <1>20 DEF Finalize
  <2>2. OthersSame(p) /\ pc'[p] = "confirm"
    BY <1>20, <2>1, NoProcAssumption DEF Finalize, Goto, OthersSame, TypeOK, MemoryOK
  <2>3. CommitAt(p)'
    BY <2>1, <2>2 DEF CommitAt, VaultLabels, CommitLabels
  <2>4. intent' = intent
    BY <1>20 DEF Finalize
  <2> QED BY <1>20, <2>2, <2>3, <2>4, SupMove DEF Finalize, net, ghosts
<1>21. ASSUME NEW p \in Procs, FinalizeFails(p) PROVE SupInv'
  <2>1. pubLock = p
    BY <1>21 DEF FinalizeFails, IInv, SessionHeld, PubLabels, FinalLabels
  <2> QED BY <1>21, <2>1, SupReturn DEF FinalizeFails, net, ghosts
<1>22. ASSUME NEW p \in Procs, ConfirmLedgers(p) PROVE SupInv'
  <2>1. /\ intent.target \in Ids /\ intent.target # 0 /\ vaultLock = p
        /\ UNCHANGED <<vaultLock, remote, cached, intent, cmd, got, body>> /\ Goto(p, "confirm_etag")
        /\ RecordLedgers(intent.target, Vault(local).gen, FALSE)
    <3>1. intent.state # "none" /\ vaultLock = p
      BY <1>22 DEF ConfirmLedgers, IInv, SessionHeld, NeedsIntent, FinalLabels, SupInv, CommitAt, VaultLabels
    <3> QED BY <1>22, <3>1, FieldTypes DEF ConfirmLedgers, IInv, IntentCovered, locks, net
  <2>2. /\ OnRecord'
        /\ \/ cached = 0 \/ cached = intent.target
           \/ Holds(superseded', cached) \/ cached \in unrecorded'
    BY <2>1, LedgersKeep DEF SupInv
  <2>3. OthersSame(p) /\ pc'[p] = "confirm_etag"
    BY <2>1 DEF Goto, OthersSame, TypeOK, MemoryOK
  <2>4. CommitAt(p)'
    BY <2>1, <2>2, <2>3 DEF CommitAt, Recorded, VaultLabels, CommitLabels, Holds
  <2> QED BY <2>1, <2>2, <2>3, <2>4, SupWrite
<1>23. ASSUME NEW p \in Procs, ConfirmETag(p) PROVE SupInv'
  <2>1. /\ vaultLock = p /\ Recorded(intent.target) /\ Goto(p, "confirm_clear")
        /\ UNCHANGED <<vaultLock, remote, superseded, unrecorded, cmd, got, body>>
        /\ \/ replaced' = (replaced \cup (IF cached = 0 THEN {} ELSE {cached})) \ {intent.target}
           \/ replaced' = replaced
    BY <1>23 DEF ConfirmETag, SupInv, CommitAt, VaultLabels, CommitLabels, locks, net
  <2>2. OnRecord'
    BY <2>1 DEF SupInv, OnRecord, Formed, Holds, Recorded
  <2>3. OthersSame(p) /\ pc'[p] = "confirm_clear"
    BY <2>1 DEF Goto, OthersSame, TypeOK, MemoryOK
  <2>4. body[p] # 0 \/ "confirm_clear" \notin CommitLabels
    BY <1>23 DEF ConfirmETag, SupInv, CommitAt, CommitLabels
  <2>5. CommitAt(p)'
    BY <2>1, <2>3, <2>4 DEF CommitAt, VaultLabels
  <2> QED BY <2>1, <2>2, <2>3, <2>5, SupWrite
<1>24. ASSUME NEW p \in Procs, CommitETag(p) PROVE SupInv'
  <2>1. /\ vaultLock = p /\ Recorded(body[p]) /\ Goto(p, "commit_clear")
        /\ UNCHANGED <<vaultLock, remote, superseded, unrecorded, cmd, got, body>>
        /\ \/ replaced' = (replaced \cup (IF cached = 0 THEN {} ELSE {cached})) \ {body[p]}
           \/ replaced' = replaced
    BY <1>24 DEF CommitETag, SupInv, CommitAt, VaultLabels, CommitLabels, locks, net
  <2>2. OnRecord'
    BY <2>1 DEF SupInv, OnRecord, Formed, Holds, Recorded
  <2>3. OthersSame(p) /\ pc'[p] = "commit_clear"
    BY <2>1 DEF Goto, OthersSame, TypeOK, MemoryOK
  <2>4. body[p] # 0 \/ "commit_clear" \notin CommitLabels
    BY <1>24 DEF CommitETag, SupInv, CommitAt, CommitLabels
  <2>5. CommitAt(p)'
    BY <2>1, <2>3, <2>4 DEF CommitAt, VaultLabels
  <2> QED BY <2>1, <2>2, <2>3, <2>5, SupWrite
<1>25. ASSUME NEW p \in Procs, ConfirmClear(p) PROVE SupInv'
  <2>1. vaultLock = p /\ Goto(p, "confirm_intent") /\ UNCHANGED <<vaultLock, cmd, got, body>>
    BY <1>25 DEF ConfirmClear, SupInv, CommitAt, VaultLabels, locks
  <2>2. OthersSame(p) /\ pc'[p] = "confirm_intent"
    BY <2>1 DEF Goto, OthersSame, TypeOK, MemoryOK
  <2>3. CommitAt(p)'
    BY <2>1, <2>2 DEF CommitAt, VaultLabels, CommitLabels
  <2> QED BY <1>25, <2>2, <2>3, SupMove DEF ConfirmClear, net, ghosts
<1>26. ASSUME NEW p \in Procs, ConfirmIntent(p) PROVE SupInv'
  <2>1. pubLock = p
    BY <1>26 DEF ConfirmIntent, IInv, SessionHeld, PubLabels, FinalLabels
  <2> QED BY <1>26, <2>1, SupReturn DEF ConfirmIntent, net, ghosts
<1>27. ASSUME NEW p \in Procs, StartLogin(p) PROVE SupInv'
  <2>1. Goto(p, "reset") /\ cmd'[p] # "background"
    BY <1>27 DEF StartLogin, SupInv, CommitAt, VaultLabels, CommitLabels, TypeOK, MemoryOK, Start
  <2>2. OthersSame(p) /\ pc'[p] = "reset"
    BY <1>27, <2>1, NoProcAssumption DEF StartLogin, Goto, Start, OthersSame, locks, TypeOK, MemoryOK
  <2>3. CommitAt(p)'
    BY <2>1, <2>2 DEF CommitAt, VaultLabels, CommitLabels
  <2> QED BY <1>27, <2>1, <2>2, <2>3, SupMove DEF StartLogin, disk, net, ghosts
<1>28. ASSUME NEW p \in Procs, Reset(p) PROVE SupInv'
  <2>1. Goto(p, "facts") /\ UNCHANGED <<vaultLock, remote, cmd, got, body, cached, intent>> /\ cmd[p] # "background"
    BY <1>28 DEF Reset, SupInv, CommitAt, locks, net
  <2>2. OthersSame(p) /\ pc'[p] = "facts"
    BY <2>1 DEF Goto, OthersSame, TypeOK, MemoryOK
  <2>3. CommitAt(p)'
    BY <2>1, <2>2 DEF CommitAt, VaultLabels, CommitLabels
  <2>4. CASE UNCHANGED <<superseded, replaced, unrecorded>>
    BY <2>1, <2>2, <2>3, <2>4, SupMove
  <2>5. CASE ResetLocked /\ superseded' \in {superseded, <<>>} /\ replaced' = {}
    <3>1. vaultLock = NoProc
      BY <2>5 DEF ResetLocked
    <3>2. superseded' = superseded \/ superseded' = <<>>
      BY <2>5
    <3>3. Formed(superseded')
      <4>1. Formed(superseded)
        BY DEF SupInv, OnRecord
      <4>2. Formed(<<>>)
        BY NoLedgerType, EmptySeq DEF Formed
      <4> QED BY <3>2, <4>1, <4>2
    <3>4. OnRecord'
      BY <2>5, <3>3 DEF OnRecord
    <3> QED BY <2>1, <2>2, <2>3, <3>1, <3>4, SupWrite
  <2> QED BY <1>28, <2>4, <2>5 DEF Reset
<1>29. ASSUME NEW p \in Procs, ReadFacts(p) PROVE SupInv'
  <2>1. PICK l \in {"check", "head"} : Goto(p, l) /\ (l = "check" => remote # 0)
    BY <1>29 DEF ReadFacts, SupInv, CommitAt
  <2>2. OthersSame(p) /\ pc'[p] = l /\ remote' = remote
    BY <1>29, <2>1 DEF ReadFacts, Goto, OthersSame, locks, net, TypeOK, MemoryOK
  <2>3. CommitAt(p)'
    BY <2>1, <2>2 DEF CommitAt, VaultLabels, CommitLabels
  <2> QED BY <1>29, <2>2, <2>3, SupMove DEF ReadFacts, disk, net, ghosts
<1>30. ASSUME NEW p \in Procs, PullHead(p) PROVE SupInv'
  <2>1. CASE Return(p)
    BY <1>30, <2>1, SupReturn DEF PullHead, net, ghosts
  <2>2. CASE ~ Return(p)
    <3>1. PICK l \in {"facts", "check"} : Goto(p, l) /\ remote # 0
      BY <1>30, <2>2 DEF PullHead
    <3>2. OthersSame(p) /\ pc'[p] = l /\ remote' = remote
      BY <1>30, <2>2, <3>1 DEF PullHead, Goto, OthersSame, locks, net, TypeOK, MemoryOK
    <3>3. CommitAt(p)'
      BY <3>1, <3>2 DEF CommitAt, VaultLabels, CommitLabels
    <3> QED BY <1>30, <3>2, <3>3, SupMove DEF PullHead, net, ghosts
  <2> QED BY <2>1, <2>2
<1>31. ASSUME NEW p \in Procs, Check(p) PROVE SupInv'
  <2>1. CASE Return(p)
    BY <1>31, <2>1, SupReturn DEF Check, net, ghosts
  <2>2. CASE ~ Return(p)
    <3>1. PICK l \in {"rollback", "decision", "install", "fetch"} :
             Goto(p, l) /\ remote # 0 /\ (l = "install" => body'[p] # 0)
      <4>1. remote # 0
        BY <1>31 DEF Check, SupInv, CommitAt
      <4>2. PICK ledger, mark :
               \/ /\ body' = [body EXCEPT ![p] = remote]
                  /\ Goto(p, IF RolledBack(mark, remote) THEN "rollback"
                             ELSE AfterCheck(p, ledger, remote, TRUE))
               \/ Goto(p, AfterCheck(p, ledger, got[p], FALSE))
        BY <1>31, <2>2 DEF Check
      <4>3. /\ AfterCheck(p, ledger, remote, TRUE) \in {"decision", "install"}
            /\ AfterCheck(p, ledger, got[p], FALSE) \in {"decision", "fetch"}
        BY DEF AfterCheck
      <4>4. body' = [body EXCEPT ![p] = remote] => body'[p] # 0
        BY <4>1 DEF TypeOK, MemoryOK
      <4> QED BY <4>1, <4>2, <4>3, <4>4
    <3>2. OthersSame(p) /\ pc'[p] = l /\ remote' = remote
      BY <1>31, <2>2, <3>1 DEF Check, Goto, OthersSame, locks, net, TypeOK, MemoryOK
    <3>3. CommitAt(p)'
      BY <3>1, <3>2 DEF CommitAt, VaultLabels, CommitLabels
    <3> QED BY <1>31, <3>2, <3>3, SupMove DEF Check, net, ghosts
  <2> QED BY <2>1, <2>2
<1>32. ASSUME NEW p \in Procs, LockRefused(p) PROVE SupInv'
  BY <1>32, SupReturn DEF LockRefused, net, ghosts
<1>33. ASSUME NEW p \in Procs, RollbackFound(p) PROVE SupInv'
  BY <1>33, SupReturn DEF RollbackFound, net, ghosts
<1>34. ASSUME NEW p \in Procs, InstallRefused(p) PROVE SupInv'
  BY <1>34, SupReturn DEF InstallRefused, net, ghosts
<1>35. ASSUME NEW p \in Procs, RecordSuccess(p) PROVE SupInv'
  BY <1>35, SupReturn DEF RecordSuccess, net, ghosts
<1>36. ASSUME NEW p \in Procs, PullFails(p) PROVE SupInv'
  BY <1>36, SupReturn DEF PullFails, net, ghosts
<1>37. ASSUME NEW p \in Procs, Decide(p) PROVE SupInv'
  <2>1. CASE Return(p)
    BY <1>37, <2>1, SupReturn DEF Decide, net, ghosts
  <2>2. CASE ~ Return(p)
    <3>1. PICK l \in {"fetch", "install"} : /\ Goto(p, l) /\ remote # 0 /\ (l = "install" => body'[p] # 0)
                                          /\ UNCHANGED <<locks, cmd, got, body>>
      BY <1>37, <2>2 DEF Decide, SupInv, CommitAt
    <3>2. OthersSame(p) /\ pc'[p] = l /\ remote' = remote
      BY <1>37, <3>1 DEF Decide, Goto, OthersSame, locks, net, TypeOK, MemoryOK
    <3>3. CommitAt(p)'
      BY <3>1, <3>2 DEF CommitAt, VaultLabels, CommitLabels
    <3> QED BY <1>37, <3>2, <3>3, SupMove DEF Decide, net, ghosts
  <2> QED BY <2>1, <2>2
<1>38. ASSUME NEW p \in Procs, Fetch(p) PROVE SupInv'
  <2>1. Goto(p, "install") /\ body'[p] # 0
    BY <1>38 DEF Fetch, SupInv, CommitAt, VaultLabels, CommitLabels, TypeOK, MemoryOK
  <2>2. OthersSame(p) /\ pc'[p] = "install"
    BY <1>38, <2>1, NoProcAssumption DEF Fetch, Goto, Start, OthersSame, locks, TypeOK, MemoryOK
  <2>3. CommitAt(p)'
    BY <2>1, <2>2 DEF CommitAt, VaultLabels, CommitLabels
  <2> QED BY <1>38, <2>1, <2>2, <2>3, SupMove DEF Fetch, disk, net, ghosts
<1>39. ASSUME NEW p \in Procs, AdoptFetch(p) PROVE SupInv'
  <2>1. CASE Return(p)
    BY <1>39, <2>1, SupReturn DEF AdoptFetch, disk, net, ghosts
  <2>2. CASE ~ Return(p)
    <3>1. Goto(p, "install") /\ body'[p] # 0
      BY <1>39, <2>2 DEF AdoptFetch, SupInv, CommitAt, TypeOK, MemoryOK
    <3>2. OthersSame(p) /\ pc'[p] = "install" /\ remote' = remote
      BY <1>39, <2>2, <3>1 DEF AdoptFetch, Goto, OthersSame, locks, net, TypeOK, MemoryOK
    <3>3. CommitAt(p)'
      BY <3>1, <3>2 DEF CommitAt, VaultLabels, CommitLabels
    <3> QED BY <1>39, <3>2, <3>3, SupMove DEF AdoptFetch, disk, net, ghosts
  <2> QED BY <2>1, <2>2
<1>40. ASSUME NEW p \in Procs, Install(p) PROVE SupInv'
  <2>1. /\ vaultLock = NoProc /\ vaultLock' = p /\ Goto(p, "commit") /\ body[p] # 0
        /\ UNCHANGED <<remote, cmd, got, body, superseded>>
    BY <1>40 DEF Install, Skips, SupInv, CommitAt, net
  <2>2. replaced' \subseteq replaced /\ unrecorded' = unrecorded
    BY <1>40 DEF Install
  <2>3. OnRecord'
    BY <2>1, <2>2 DEF SupInv, OnRecord, Formed, Holds
  <2>4. OthersSame(p) /\ pc'[p] = "commit"
    BY <2>1, NoProcAssumption DEF Goto, OthersSame, TypeOK, MemoryOK
  <2>5. CommitAt(p)'
    BY <2>1, <2>2, <2>4 DEF CommitAt, VaultLabels, CommitLabels
  <2> QED BY <2>1, <2>3, <2>4, <2>5, SupWrite
<1>41. ASSUME NEW p \in Procs, CommitLedgers(p) PROVE SupInv'
  <2>1. /\ body[p] \in Ids /\ body[p] # 0 /\ vaultLock = p
        /\ UNCHANGED <<vaultLock, remote, cached, cmd, got, body>> /\ Goto(p, "commit_etag")
        /\ RecordLedgers(body[p], Vault(body[p]).gen, cmd[p] = "adopt")
    BY <1>41 DEF CommitLedgers, SupInv, CommitAt, VaultLabels, CommitLabels, locks, net, TypeOK, MemoryOK
  <2>2. /\ OnRecord'
        /\ \/ cached = 0 \/ cached = body[p]
           \/ Holds(superseded', cached) \/ cached \in unrecorded'
    BY <2>1, LedgersKeep DEF SupInv
  <2>3. OthersSame(p) /\ pc'[p] = "commit_etag"
    BY <2>1 DEF Goto, OthersSame, TypeOK, MemoryOK
  <2>4. CommitAt(p)'
    BY <2>1, <2>2, <2>3 DEF CommitAt, Recorded, VaultLabels, CommitLabels, Holds
  <2> QED BY <2>1, <2>2, <2>3, <2>4, SupWrite
<1>42. ASSUME NEW p \in Procs, CommitClear(p) PROVE SupInv'
  <2>1. CASE Return(p)
    BY <1>42, <2>1, SupReturn DEF CommitClear, net, ghosts
  <2>2. CASE ~ Return(p)
    <3>1. Goto(p, "record") /\ vaultLock = p
      BY <1>42, <2>2 DEF CommitClear, SupInv, CommitAt, VaultLabels, CommitLabels
    <3>2. OthersSame(p) /\ pc'[p] = "record" /\ remote' = remote
      BY <1>42, <2>2, <3>1 DEF CommitClear, Goto, OthersSame, net, TypeOK, MemoryOK
    <3>3. CommitAt(p)'
      BY <3>1, <3>2 DEF CommitAt, VaultLabels, CommitLabels
    <3> QED BY <1>42, <3>2, <3>3, SupMove DEF CommitClear, net, ghosts
  <2> QED BY <2>1, <2>2
<1>43. ASSUME NEW p \in Procs, HeadFails(p) PROVE SupInv'
  <2>1. intent'.target = intent.target \/ pubLock = p
    BY <1>43 DEF HeadFails, IInv, SessionHeld, PubLabels
  <2> QED BY <1>43, <2>1, SupReturn DEF HeadFails, net, ghosts
<1>44. ASSUME NEW p \in Procs, Crash(p) PROVE SupInv'
  BY <1>44, SupReturn DEF Crash, disk, net, ghosts
<1>s. ASSUME NEW r \in inflight, ServerStore(r) \/ ServerRefuse(r) \/ ServerError(r) \/ LoseRequest(r) PROVE SupInv'
  <2>1. r.proc \in Procs /\ r.blob # 0
    BY DEF TypeOK, NetOK, Request, IInv, BlobsKnown
  <2> DEFINE p == r.proc
  <2>2. OthersSame(p) /\ pc'[p] \in {pc[p], "put_ok", "put_conflict", "put_rejected"}
    BY <1>s, <2>1 DEF ServerStore, ServerRefuse, ServerError, LoseRequest, Answer, OthersSame, locks, memory, TypeOK, MemoryOK
  <2>3. UNCHANGED <<cached, superseded, replaced, unrecorded, intent, vaultLock, cmd, body, got>> /\ (remote # 0 => remote' # 0)
    BY <1>s, <2>1 DEF ServerStore, ServerRefuse, ServerError, LoseRequest, Store, disk, locks, memory, ghosts
  <2>4. CommitAt(p)'
    <3>1. CASE pc'[p] = pc[p]
      BY <2>1, <2>3, <3>1 DEF SupInv, CommitAt, Recorded, Holds
    <3>2. CASE pc'[p] # pc[p]
      BY <2>2, <3>2 DEF CommitAt, VaultLabels, CommitLabels
    <3> QED BY <3>1, <3>2
  <2> QED BY <2>1, <2>2, <2>3, <2>4, SupMove
<1>o. ASSUME OtherPublish \/ RestoreRemote PROVE SupInv'
  <2>1. remote' # 0
    BY <1>o DEF OtherPublish, RestoreRemote, IInv, BlobsKnown, TypeOK, BlobsOK, Ids
  <2>2. UNCHANGED <<cached, superseded, replaced, unrecorded, intent, vaultLock, pc, cmd, body, got>>
    BY <1>o DEF OtherPublish, RestoreRemote, disk, locks, memory, ghosts
  <2> QED BY <2>1, <2>2 DEF SupInv, OnRecord, Formed, Holds, CommitAt, Recorded
<1> QED BY <1>1, <1>2, <1>3, <1>4, <1>5, <1>6, <1>7, <1>8, <1>9, <1>10, <1>11, <1>12, <1>13,
          <1>14, <1>15, <1>16, <1>17, <1>18, <1>19, <1>20, <1>21, <1>22, <1>23, <1>24, <1>25,
          <1>26, <1>27, <1>28, <1>29, <1>30, <1>31, <1>32, <1>33, <1>34, <1>35, <1>36, <1>37,
          <1>38, <1>39, <1>40, <1>41, <1>42, <1>43, <1>44, <1>s, <1>o DEF Next, Command, Step,
          Failure, Server

\* A step moves at most one process, and only the install of a pull moves it to "commit".
LEMMA OnlyInstallCommits ==
  ASSUME TypeOK, Next, NEW p \in Procs, pc[p] = "install", pc'[p] = "commit"
  PROVE  Install(p)
<1> DEFINE Moves(q) == \E l : l # "commit" /\ pc' = [pc EXCEPT ![q] = l]
<1>0. ASSUME NEW q \in Procs, Moves(q) PROVE FALSE
  BY <1>0 DEF TypeOK, MemoryOK
<1>1. ASSUME NEW q \in Procs, MutationBusy(q) PROVE Moves(q)
  BY <1>1 DEF MutationBusy, Return
<1>2. ASSUME NEW q \in Procs, VerifyEmpty(q) PROVE Moves(q)
  BY <1>2 DEF VerifyEmpty, Return
<1>3. ASSUME NEW q \in Procs, PutAmbiguous(q) PROVE Moves(q)
  BY <1>3 DEF PutAmbiguous, Return
<1>4. ASSUME NEW q \in Procs, PutConflict(q) PROVE Moves(q)
  BY <1>4 DEF PutConflict, Return
<1>5. ASSUME NEW q \in Procs, PutRejected(q) PROVE Moves(q)
  BY <1>5 DEF PutRejected, Return
<1>6. ASSUME NEW q \in Procs, FinalizeFails(q) PROVE Moves(q)
  BY <1>6 DEF FinalizeFails, Return
<1>7. ASSUME NEW q \in Procs, ConfirmIntent(q) PROVE Moves(q)
  BY <1>7 DEF ConfirmIntent, Return
<1>8. ASSUME NEW q \in Procs, LockRefused(q) PROVE Moves(q)
  BY <1>8 DEF LockRefused, Return
<1>9. ASSUME NEW q \in Procs, RollbackFound(q) PROVE Moves(q)
  BY <1>9 DEF RollbackFound, Return
<1>10. ASSUME NEW q \in Procs, InstallRefused(q) PROVE Moves(q)
  BY <1>10 DEF InstallRefused, Return
<1>11. ASSUME NEW q \in Procs, RecordSuccess(q) PROVE Moves(q)
  BY <1>11 DEF RecordSuccess, Return
<1>12. ASSUME NEW q \in Procs, PullFails(q) PROVE Moves(q)
  BY <1>12 DEF PullFails, Return
<1>13. ASSUME NEW q \in Procs, HeadFails(q) PROVE Moves(q)
  BY <1>13 DEF HeadFails, Return
<1>14. ASSUME NEW q \in Procs, Crash(q) PROVE Moves(q)
  BY <1>14 DEF Crash, Return
<1>15. ASSUME NEW q \in Procs, SaveMutation(q) PROVE Moves(q)
  BY <1>15 DEF SaveMutation, Return
<1>16. ASSUME NEW q \in Procs, StartMutate(q) PROVE Moves(q)
  BY <1>16 DEF StartMutate, Goto
<1>17. ASSUME NEW q \in Procs, StartPushAll(q) PROVE Moves(q)
  BY <1>17 DEF StartPushAll, Goto
<1>18. ASSUME NEW q \in Procs, StartPushOnly(q) PROVE Moves(q)
  BY <1>18 DEF StartPushOnly, Goto
<1>19. ASSUME NEW q \in Procs, StartStatus(q) PROVE Moves(q)
  BY <1>19 DEF StartStatus, Goto
<1>20. ASSUME NEW q \in Procs, StartPull(q) PROVE Moves(q)
  BY <1>20 DEF StartPull, Goto
<1>21. ASSUME NEW q \in Procs, StartLogin(q) PROVE Moves(q)
  BY <1>21 DEF StartLogin, Goto
<1>22. ASSUME NEW q \in Procs, StartBackground(q) PROVE Moves(q)
  BY <1>22 DEF StartBackground, Goto
<1>23. ASSUME NEW q \in Procs, StartAdopt(q) PROVE Moves(q)
  BY <1>23 DEF StartAdopt, Goto
<1>24. ASSUME NEW q \in Procs, PutOk(q) PROVE Moves(q)
  BY <1>24 DEF PutOk, Goto
<1>25. ASSUME NEW q \in Procs, Finalize(q) PROVE Moves(q)
  BY <1>25 DEF Finalize, Goto
<1>26. ASSUME NEW q \in Procs, ConfirmLedgers(q) PROVE Moves(q)
  BY <1>26 DEF ConfirmLedgers, Goto
<1>27. ASSUME NEW q \in Procs, ConfirmETag(q) PROVE Moves(q)
  BY <1>27 DEF ConfirmETag, Goto
<1>28. ASSUME NEW q \in Procs, ConfirmClear(q) PROVE Moves(q)
  BY <1>28 DEF ConfirmClear, Goto
<1>29. ASSUME NEW q \in Procs, Reset(q) PROVE Moves(q)
  BY <1>29 DEF Reset, Goto
<1>30. ASSUME NEW q \in Procs, ReadFacts(q) PROVE Moves(q)
  BY <1>30 DEF ReadFacts, Goto
<1>31. ASSUME NEW q \in Procs, Fetch(q) PROVE Moves(q)
  BY <1>31 DEF Fetch, Goto
<1>32. ASSUME NEW q \in Procs, CommitLedgers(q) PROVE Moves(q)
  BY <1>32 DEF CommitLedgers, Goto
<1>33. ASSUME NEW q \in Procs, CommitETag(q) PROVE Moves(q)
  BY <1>33 DEF CommitETag, Goto
<1>34. ASSUME NEW q \in Procs, ReconcileLocal(q) PROVE Moves(q)
  BY <1>34 DEF ReconcileLocal, Return, Goto, ResumePending, AfterCheck
<1>35. ASSUME NEW q \in Procs, ReconcileRemote(q) PROVE Moves(q)
  BY <1>35 DEF ReconcileRemote, Return, Goto, ResumePending, AfterCheck
<1>36. ASSUME NEW q \in Procs, Project(q) PROVE Moves(q)
  BY <1>36 DEF Project, Return, Goto, ResumePending, AfterCheck
<1>37. ASSUME NEW q \in Procs, Prepare(q) PROVE Moves(q)
  BY <1>37 DEF Prepare, Return, Goto, ResumePending, AfterCheck
<1>38. ASSUME NEW q \in Procs, Send(q) PROVE Moves(q)
  BY <1>38 DEF Send, Return, Goto, ResumePending, AfterCheck
<1>39. ASSUME NEW q \in Procs, PullHead(q) PROVE Moves(q)
  BY <1>39 DEF PullHead, Return, Goto, ResumePending, AfterCheck
<1>40. ASSUME NEW q \in Procs, Check(q) PROVE Moves(q)
  BY <1>40 DEF Check, Return, Goto, ResumePending, AfterCheck
<1>41. ASSUME NEW q \in Procs, Decide(q) PROVE Moves(q)
  BY <1>41 DEF Decide, Return, Goto, ResumePending, AfterCheck
<1>42. ASSUME NEW q \in Procs, AdoptFetch(q) PROVE Moves(q)
  BY <1>42 DEF AdoptFetch, Return, Goto, ResumePending, AfterCheck
<1>43. ASSUME NEW q \in Procs, CommitClear(q) PROVE Moves(q)
  BY <1>43 DEF CommitClear, Return, Goto, ResumePending, AfterCheck
<1>44. ASSUME NEW q \in Procs, Install(q) PROVE Install(p)
  BY <1>44 DEF Install, Goto, TypeOK, MemoryOK
<1>45. ASSUME Server PROVE \E q \in Procs : Moves(q) \/ pc' = pc
  <2>1. PICK r \in inflight : ServerStore(r) \/ ServerRefuse(r) \/ ServerError(r) \/ LoseRequest(r)
    BY <1>45 DEF Server
  <2>2. r.proc \in Procs
    BY DEF TypeOK, NetOK, Request
  <2>3. Moves(r.proc) \/ pc' = pc
    BY <2>1 DEF ServerStore, ServerRefuse, ServerError, LoseRequest, Answer, memory
  <2> QED BY <2>2, <2>3
<1>46. ASSUME OtherPublish \/ RestoreRemote PROVE pc' = pc
  BY <1>46 DEF OtherPublish, RestoreRemote, memory
<1> HIDE DEF Moves
<1> QED BY <1>0, <1>1, <1>2, <1>3, <1>4, <1>5, <1>6, <1>7, <1>8, <1>9, <1>10, <1>11, <1>12,
          <1>13, <1>14, <1>15, <1>16, <1>17, <1>18, <1>19, <1>20, <1>21, <1>22, <1>23, <1>24,
          <1>25, <1>26, <1>27, <1>28, <1>29, <1>30, <1>31, <1>32, <1>33, <1>34, <1>35, <1>36,
          <1>37, <1>38, <1>39, <1>40, <1>41, <1>42, <1>43, <1>44, <1>45, <1>46 DEF Next,
          Command, Step, Failure

\* At the start nothing was replaced.
LEMMA SupInit == Init => SupInv
<1> SUFFICES ASSUME Init PROVE SupInv
  OBVIOUS
<1>1. OnRecord
  BY NoLedgerType, EmptySeq DEF Init, OnRecord, Formed
<1>2. \A p \in Procs : CommitAt(p)
  BY DEF Init, CommitAt, VaultLabels, CommitLabels
<1> QED BY <1>1, <1>2 DEF SupInv

\* The records follow every behaviour.
LEMMA SupInvariance == MaxBlobs <= MaxSuperseded => (Spec => []SupInv)
<1> SUFFICES ASSUME MaxBlobs <= MaxSuperseded PROVE Spec => []SupInv
  OBVIOUS
<1>1. IInv /\ SupInv /\ TypeOK /\ TypeOK' /\ [Next]_vars => SupInv'
  <2> SUFFICES ASSUME IInv, SupInv, TypeOK, TypeOK', [Next]_vars PROVE SupInv'
    OBVIOUS
  <2>1. CASE Next
    BY <2>1, SupStep
  <2>2. CASE UNCHANGED vars
    BY <2>2 DEF vars, SupInv, OnRecord, Formed, Holds, CommitAt, Recorded, disk, locks, net, memory, ghosts
  <2> QED BY <2>1, <2>2
<1> QED BY SupInit, Invariance, TypeCorrect, <1>1, PTL DEF Spec

\* Every version this machine has replaced is on record unless a failure commitSuccess
\* passed over lost its entry: whatever crashes between the writes, whichever later
\* write fails and whichever login resets the records meanwhile, as long as the
\* ledger does not overflow (commitSuccess, recordSuperseded, ResetSyncState).
THEOREM ReplacedStaysOnRecord == Spec => []SupersededComplete
<1>1. CASE MaxBlobs <= MaxSuperseded
  <2>1. SupInv => SupersededComplete
    BY DEF SupInv, OnRecord, SupersededComplete
  <2> QED BY <1>1, <2>1, SupInvariance, PTL
<1>2. CASE ~ (MaxBlobs <= MaxSuperseded)
  <2>1. SupersededComplete
    BY <1>2 DEF SupersededComplete
  <2> QED BY <2>1, PTL
<1> QED BY <1>1, <1>2

\* A version whose replacement is on record is not installed again by an ordinary pull that
\* can read the ledger, whatever the server was restored to and whatever ran
\* between the download and the install, as long as the ledger does not overflow
\* (installFetched, isSuperseded).
THEOREM ReplacedNeverInstalled == MaxBlobs <= MaxSuperseded => (Spec => NoRollbackInstalled)
<1> SUFFICES ASSUME MaxBlobs <= MaxSuperseded PROVE Spec => NoRollbackInstalled
  OBVIOUS
<1> DEFINE Kept == \A p \in Procs :
             pc[p] = "install" /\ pc'[p] = "commit" /\ cmd[p] # "adopt" /\ faults' = faults =>
             body[p] \notin replaced \ unrecorded
<1>1. SupInv /\ SupInv' /\ TypeOK /\ [Next]_vars => [Kept]_vars
  <2> SUFFICES ASSUME SupInv, SupInv', TypeOK, Next, NEW p \in Procs, pc[p] = "install", pc'[p] = "commit",
                      cmd[p] # "adopt", faults' = faults
               PROVE  body[p] \notin replaced \ unrecorded
    OBVIOUS
  <2>1. Install(p)
    BY OnlyInstallCommits
  <2>2. ~ Fault
    BY DEF Fault, TypeOK, GhostsOK
  <2>3. ~ IsSuperseded(superseded, body[p])
    BY <2>1, <2>2 DEF Install, Reads, InstallConflict
  <2> QED BY <2>3 DEF IsSuperseded, SupInv, OnRecord, CommitAt
<1>2. [][Kept]_vars => NoRollbackInstalled
  BY PTL DEF NoRollbackInstalled
<1> QED BY SupInvariance, TypeCorrect, <1>1, <1>2, PTL DEF Spec

-----------------------------------------------------------------------------
(* Login and the background processes before it.                           *)

\* A background process started before the last reset has lost its claim.
ClaimRevoked == \A p \in revoked : cmd[p] = "background" => claim # p

\* Every step keeps it: only a process that starts becomes a background process, and only
\* then it has a claim.
LEMMA RevokedStep ==
  ASSUME TypeOK, ClaimRevoked, Next
  PROVE  ClaimRevoked'
<1> DEFINE Idles == /\ revoked' = revoked /\ claim' \in {claim, NoProc}
                    /\ \A q \in Procs : cmd'[q] = "background" => cmd[q] = "background"
<1>0. ASSUME Idles PROVE ClaimRevoked'
  BY <1>0, NoProcAssumption DEF ClaimRevoked, TypeOK, GhostsOK
<1>1. ASSUME NEW p \in Procs, MutationBusy(p) PROVE Idles
  BY <1>1 DEF MutationBusy, Return, ResumePending, ClaimAfter, disk, ghosts, TypeOK, MemoryOK
<1>2. ASSUME NEW p \in Procs, VerifyEmpty(p) PROVE Idles
  BY <1>2 DEF VerifyEmpty, Return, ResumePending, ClaimAfter, disk, ghosts, TypeOK, MemoryOK
<1>3. ASSUME NEW p \in Procs, PutAmbiguous(p) PROVE Idles
  BY <1>3 DEF PutAmbiguous, Return, ResumePending, ClaimAfter, disk, ghosts, TypeOK, MemoryOK
<1>4. ASSUME NEW p \in Procs, PutConflict(p) PROVE Idles
  BY <1>4 DEF PutConflict, Return, ResumePending, ClaimAfter, disk, ghosts, TypeOK, MemoryOK
<1>5. ASSUME NEW p \in Procs, PutRejected(p) PROVE Idles
  BY <1>5 DEF PutRejected, Return, ResumePending, ClaimAfter, disk, ghosts, TypeOK, MemoryOK
<1>6. ASSUME NEW p \in Procs, FinalizeFails(p) PROVE Idles
  BY <1>6 DEF FinalizeFails, Return, ResumePending, ClaimAfter, disk, ghosts, TypeOK, MemoryOK
<1>7. ASSUME NEW p \in Procs, ConfirmIntent(p) PROVE Idles
  BY <1>7 DEF ConfirmIntent, Return, ResumePending, ClaimAfter, disk, ghosts, TypeOK, MemoryOK
<1>8. ASSUME NEW p \in Procs, LockRefused(p) PROVE Idles
  BY <1>8 DEF LockRefused, Return, ResumePending, ClaimAfter, disk, ghosts, TypeOK, MemoryOK
<1>9. ASSUME NEW p \in Procs, RollbackFound(p) PROVE Idles
  BY <1>9 DEF RollbackFound, Return, ResumePending, ClaimAfter, disk, ghosts, TypeOK, MemoryOK
<1>10. ASSUME NEW p \in Procs, InstallRefused(p) PROVE Idles
  BY <1>10 DEF InstallRefused, Return, ResumePending, ClaimAfter, disk, ghosts, TypeOK, MemoryOK
<1>11. ASSUME NEW p \in Procs, RecordSuccess(p) PROVE Idles
  BY <1>11 DEF RecordSuccess, Return, ResumePending, ClaimAfter, disk, ghosts, TypeOK, MemoryOK
<1>12. ASSUME NEW p \in Procs, PullFails(p) PROVE Idles
  BY <1>12 DEF PullFails, Return, ResumePending, ClaimAfter, disk, ghosts, TypeOK, MemoryOK
<1>13. ASSUME NEW p \in Procs, HeadFails(p) PROVE Idles
  BY <1>13 DEF HeadFails, Return, ResumePending, ClaimAfter, disk, ghosts, TypeOK, MemoryOK
<1>14. ASSUME NEW p \in Procs, Crash(p) PROVE Idles
  BY <1>14 DEF Crash, Return, ResumePending, ClaimAfter, disk, ghosts, TypeOK, MemoryOK
<1>15. ASSUME NEW p \in Procs, SaveMutation(p) PROVE Idles
  BY <1>15 DEF SaveMutation, Return, ResumePending, ClaimAfter, disk, ghosts, TypeOK, MemoryOK
<1>16. ASSUME NEW p \in Procs, StartMutate(p) PROVE Idles
  BY <1>16 DEF StartMutate, Return, ResumePending, ClaimAfter, Start, disk, ghosts, TypeOK, MemoryOK
<1>17. ASSUME NEW p \in Procs, StartPushAll(p) PROVE Idles
  BY <1>17 DEF StartPushAll, Return, ResumePending, ClaimAfter, Start, disk, ghosts, TypeOK, MemoryOK
<1>18. ASSUME NEW p \in Procs, StartPushOnly(p) PROVE Idles
  BY <1>18 DEF StartPushOnly, Return, ResumePending, ClaimAfter, Start, disk, ghosts, TypeOK, MemoryOK
<1>19. ASSUME NEW p \in Procs, StartStatus(p) PROVE Idles
  BY <1>19 DEF StartStatus, Return, ResumePending, ClaimAfter, Start, disk, ghosts, TypeOK, MemoryOK
<1>20. ASSUME NEW p \in Procs, StartPull(p) PROVE Idles
  BY <1>20 DEF StartPull, Return, ResumePending, ClaimAfter, Start, disk, ghosts, TypeOK, MemoryOK
<1>21. ASSUME NEW p \in Procs, StartLogin(p) PROVE Idles
  BY <1>21 DEF StartLogin, Return, ResumePending, ClaimAfter, Start, disk, ghosts, TypeOK, MemoryOK
<1>22. ASSUME NEW p \in Procs, StartAdopt(p) PROVE Idles
  BY <1>22 DEF StartAdopt, Return, ResumePending, ClaimAfter, Start, disk, ghosts, TypeOK, MemoryOK
<1>23. ASSUME NEW p \in Procs, PutOk(p) PROVE Idles
  BY <1>23 DEF PutOk, Return, ResumePending, ClaimAfter, disk, ghosts, TypeOK, MemoryOK
<1>24. ASSUME NEW p \in Procs, Finalize(p) PROVE Idles
  BY <1>24 DEF Finalize, Return, ResumePending, ClaimAfter, disk, ghosts, TypeOK, MemoryOK
<1>25. ASSUME NEW p \in Procs, ConfirmLedgers(p) PROVE Idles
  BY <1>25 DEF ConfirmLedgers, Return, ResumePending, ClaimAfter, disk, ghosts, TypeOK, MemoryOK
<1>26. ASSUME NEW p \in Procs, ConfirmETag(p) PROVE Idles
  BY <1>26 DEF ConfirmETag, Return, ResumePending, ClaimAfter, disk, ghosts, TypeOK, MemoryOK
<1>27. ASSUME NEW p \in Procs, ConfirmClear(p) PROVE Idles
  BY <1>27 DEF ConfirmClear, Return, ResumePending, ClaimAfter, disk, ghosts, TypeOK, MemoryOK
<1>28. ASSUME NEW p \in Procs, ReadFacts(p) PROVE Idles
  BY <1>28 DEF ReadFacts, Return, ResumePending, ClaimAfter, disk, ghosts, TypeOK, MemoryOK
<1>29. ASSUME NEW p \in Procs, Fetch(p) PROVE Idles
  BY <1>29 DEF Fetch, Return, ResumePending, ClaimAfter, disk, ghosts, TypeOK, MemoryOK
<1>30. ASSUME NEW p \in Procs, Install(p) PROVE Idles
  BY <1>30 DEF Install, Return, ResumePending, ClaimAfter, disk, ghosts, TypeOK, MemoryOK
<1>31. ASSUME NEW p \in Procs, CommitLedgers(p) PROVE Idles
  BY <1>31 DEF CommitLedgers, Return, ResumePending, ClaimAfter, disk, ghosts, TypeOK, MemoryOK
<1>32. ASSUME NEW p \in Procs, CommitETag(p) PROVE Idles
  BY <1>32 DEF CommitETag, Return, ResumePending, ClaimAfter, disk, ghosts, TypeOK, MemoryOK
<1>33. ASSUME NEW p \in Procs, ReconcileLocal(p) PROVE Idles
  BY <1>33 DEF ReconcileLocal, Return, ResumePending, ClaimAfter, disk, ghosts, TypeOK, MemoryOK
<1>34. ASSUME NEW p \in Procs, ReconcileRemote(p) PROVE Idles
  BY <1>34 DEF ReconcileRemote, Return, ResumePending, ClaimAfter, disk, ghosts, TypeOK, MemoryOK
<1>35. ASSUME NEW p \in Procs, Project(p) PROVE Idles
  BY <1>35 DEF Project, Return, ResumePending, ClaimAfter, disk, ghosts, TypeOK, MemoryOK
<1>36. ASSUME NEW p \in Procs, Prepare(p) PROVE Idles
  BY <1>36 DEF Prepare, Return, ResumePending, ClaimAfter, disk, ghosts, TypeOK, MemoryOK
<1>37. ASSUME NEW p \in Procs, Send(p) PROVE Idles
  BY <1>37 DEF Send, Return, ResumePending, ClaimAfter, disk, ghosts, TypeOK, MemoryOK
<1>38. ASSUME NEW p \in Procs, PullHead(p) PROVE Idles
  BY <1>38 DEF PullHead, Return, ResumePending, ClaimAfter, disk, ghosts, TypeOK, MemoryOK
<1>39. ASSUME NEW p \in Procs, Check(p) PROVE Idles
  BY <1>39 DEF Check, Return, ResumePending, ClaimAfter, disk, ghosts, TypeOK, MemoryOK
<1>40. ASSUME NEW p \in Procs, Decide(p) PROVE Idles
  BY <1>40 DEF Decide, Return, ResumePending, ClaimAfter, disk, ghosts, TypeOK, MemoryOK
<1>41. ASSUME NEW p \in Procs, AdoptFetch(p) PROVE Idles
  BY <1>41 DEF AdoptFetch, Return, ResumePending, ClaimAfter, disk, ghosts, TypeOK, MemoryOK
<1>42. ASSUME NEW p \in Procs, CommitClear(p) PROVE Idles
  BY <1>42 DEF CommitClear, Return, ResumePending, ClaimAfter, disk, ghosts, TypeOK, MemoryOK
<1>r. ASSUME NEW p \in Procs, Reset(p) PROVE ClaimRevoked'
  BY <1>r, NoProcAssumption DEF Reset, ClaimRevoked
<1>b. ASSUME NEW p \in Procs, StartBackground(p) PROVE ClaimRevoked'
  BY <1>b DEF StartBackground, Start, ClaimRevoked, TypeOK, MemoryOK, GhostsOK
<1>s. ASSUME Server \/ OtherPublish \/ RestoreRemote PROVE Idles
  BY <1>s DEF Server, ServerStore, ServerRefuse, ServerError, LoseRequest, OtherPublish, RestoreRemote, disk, memory, ghosts
<1> HIDE DEF Idles
<1> QED BY <1>0, <1>1, <1>2, <1>3, <1>4, <1>5, <1>6, <1>7, <1>8, <1>9, <1>10, <1>11, <1>12,
          <1>13, <1>14, <1>15, <1>16, <1>17, <1>18, <1>19, <1>20, <1>21, <1>22, <1>23, <1>24,
          <1>25, <1>26, <1>27, <1>28, <1>29, <1>30, <1>31, <1>32, <1>33, <1>34, <1>35, <1>36,
          <1>37, <1>38, <1>39, <1>40, <1>41, <1>42, <1>r, <1>b, <1>s DEF Next, Command, Step,
          Failure

\* After login reset the sync state, a background process started before it installs nothing,
\* however far it had come (ResetSyncState, lockVault).
THEOREM ResetIsFinal == Spec => ResetStopsBackground
<1> DEFINE Stopped == \A p \in revoked : cmd[p] = "background" => ~ (pc[p] = "install" /\ pc'[p] = "commit")
<1>1. Init => ClaimRevoked
  BY DEF Init, ClaimRevoked
<1>2. ClaimRevoked /\ TypeOK /\ [Next]_vars => ClaimRevoked'
  <2> SUFFICES ASSUME ClaimRevoked, TypeOK, [Next]_vars PROVE ClaimRevoked'
    OBVIOUS
  <2>1. CASE UNCHANGED vars
    BY <2>1 DEF vars, disk, memory, ghosts, ClaimRevoked
  <2> QED BY <2>1, RevokedStep
<1>3. ClaimRevoked /\ TypeOK /\ [Next]_vars => [Stopped]_vars
  <2> SUFFICES ASSUME ClaimRevoked, TypeOK, Next, NEW p \in revoked, cmd[p] = "background",
                      pc[p] = "install", pc'[p] = "commit"
               PROVE  FALSE
    OBVIOUS
  <2>1. Install(p)
    BY OnlyInstallCommits DEF TypeOK, GhostsOK
  <2> QED BY <2>1 DEF Install, Skips, ClaimRevoked
<1>4. [][Stopped]_vars => ResetStopsBackground
  BY PTL DEF ResetStopsBackground
<1> QED BY TypeCorrect, <1>1, <1>2, <1>3, <1>4, PTL DEF Spec


-----------------------------------------------------------------------------
(* Publication alone keeps what other machines published.                  *)

\* Commands that change or publish the vault, and never pull one.
PublishingOnly == Commands \subseteq {"mutate", "status"} \cup Pushes

\* What vault i holds the local vault still holds, pending or confirmed.
Grown(i) == /\ Vault(i).base \subseteq Vault(local).base
            /\ Vault(i).pend \subseteq Vault(local).pend \cup Vault(local).base

\* Nobody pulls; the vault a push has loaded contains the cached version until the
\* push has its target; confirmed transactions are in the local vault.
KeepAt(p) ==
  /\ pc[p] \notin PullLabels
  /\ Grown(loaded[p])
  /\ pc[p] = "reconcile" => cmd[p] \in Pushes \cup {"status"}
  /\ pc[p] = "project" => cmd[p] \in Pushes
  /\ pc[p] \in {"reconcile", "project"} /\ cmd[p] \in Pushes
       => Vault(cached).base \subseteq Vault(loaded[p]).base
  /\ pc[p] = "prepare" => seen[p] = intent.prereq
  /\ pc[p] \in {"confirm", "confirm_etag"} => intent.ids \subseteq Vault(local).base

\* The recorded target contains the version it may replace, and the local vault
\* contains the recorded target once the recorded IDs are confirmed.
IntentKeeps ==
  intent.state # "none" =>
    /\ intent.prereq <= nblobs
    /\ Vault(intent.prereq).base \subseteq Vault(intent.target).base
    /\ Vault(intent.target).base \subseteq Vault(local).base \cup intent.ids
    /\ intent.ids \subseteq Vault(local).pend \cup Vault(local).base

\* So does every request on its way.
InflightKeeps ==
  \A r \in inflight : r.prereq <= nblobs /\ Vault(r.prereq).base \subseteq Vault(r.blob).base

KeepInv ==
  /\ Vault(cached).base \subseteq Vault(local).base /\ IntentKeeps /\ InflightKeeps
  /\ \A p \in Procs : KeepAt(p)

\* The vault file only grows, and written blobs stay.
VaultGrows ==
  /\ nblobs <= nblobs'
  /\ \A i \in Ids : i <= nblobs => Vault(i)' = Vault(i)
  /\ Vault(local).base \subseteq Vault(local)'.base
  /\ Vault(local).pend \subseteq Vault(local)'.pend \cup Vault(local)'.base

OthersStay(p) ==
  \A q \in Procs \ {p} : pc'[q] = pc[q] /\ cmd'[q] = cmd[q] /\ loaded'[q] = loaded[q] /\ seen'[q] = seen[q]

\* A step that writes no blob leaves the vaults alone.
LEMMA VaultSame ==
  ASSUME TypeOK, UNCHANGED <<local, blobs, nblobs>>
  PROVE  VaultGrows
<1>1. nblobs \in Nat
  BY IdsFacts DEF TypeOK, BlobsOK
<1> QED BY <1>1 DEF VaultGrows, Vault

\* A new blob leaves the others alone.
LEMMA VaultAppended ==
  ASSUME TypeOK, CanEncrypt, NEW g, NEW v \in Blob, EncryptVault(g, v)
  PROVE  /\ nblobs' = nblobs + 1 /\ nblobs \in Nat /\ nblobs + 1 \in Ids /\ nblobs + 1 # 0
         /\ \A i \in Ids : i <= nblobs => Vault(i)' = Vault(i)
         /\ \A n : n = nblobs + 1 => Vault(n)'.base = v.base /\ Vault(n)'.pend = v.pend
<1>1. nblobs + 1 \in 1..MaxBlobs /\ nblobs' = nblobs + 1 /\ nblobs \in Nat
  BY BoundsAssumption DEF CanEncrypt, TypeOK, BlobsOK, EncryptVault, Ids
<1>2. blobs'[nblobs + 1] = [v EXCEPT !.gen = g]
  BY <1>1 DEF EncryptVault, TypeOK, BlobsOK
<1>3. ASSUME NEW i \in Ids, i <= nblobs PROVE Vault(i)' = Vault(i)
  <2>1. i # 0 => i \in 1..nblobs /\ i # nblobs + 1
    BY <1>1, <1>3 DEF Ids
  <2> QED BY <1>1, <2>1 DEF Vault, EncryptVault, TypeOK, BlobsOK
<1>4. \A n : n = nblobs + 1 => Vault(n)' = [v EXCEPT !.gen = g]
  BY <1>1, <1>2 DEF Vault
<1>5. [v EXCEPT !.gen = g].base = v.base /\ [v EXCEPT !.gen = g].pend = v.pend
  BY DEF Blob
<1>6. nblobs + 1 \in Ids /\ nblobs + 1 # 0
  BY <1>1, BoundsAssumption DEF Ids
<1>7. \A n : n = nblobs + 1 => Vault(n)'.base = v.base /\ Vault(n)'.pend = v.pend
  BY <1>4, <1>5
<1> QED BY <1>1, <1>3, <1>6, <1>7

\* The names in use are those of written blobs.
LEMMA NamesWritten ==
  ASSUME TypeOK, IInv
  PROVE  /\ local \in Ids /\ local <= nblobs /\ cached \in Ids /\ cached <= nblobs
         /\ \A p \in Procs : loaded[p] \in Ids /\ loaded[p] <= nblobs
         /\ intent.target \in Ids /\ intent.target <= nblobs /\ intent.prereq \in Ids
         /\ \A r \in inflight : r.blob \in Ids /\ r.blob <= nblobs /\ r.prereq \in Ids
<1>1. nblobs \in Nat
  BY IdsFacts DEF TypeOK, BlobsOK
<1>2. cached \in Ids /\ cached <= nblobs
  <2>1. cached \in Ids
    BY DEF TypeOK, FilesOK
  <2>2. CASE cached = 0
    BY <1>1, <2>1, <2>2
  <2>3. CASE cached # 0
    <3>1. cached \in 1..nblobs
      BY <2>3 DEF IInv, CachedWasRemote, BlobsKnown
    <3> QED BY <1>1, <2>1, <3>1
  <2> QED BY <2>2, <2>3
<1>3. local \in Ids /\ local <= nblobs /\ \A p \in Procs : loaded[p] \in Ids /\ loaded[p] <= nblobs
  BY DEF TypeOK, FilesOK, MemoryOK, IInv, BlobsKnown
<1>4. intent.target \in Ids /\ intent.target <= nblobs /\ intent.prereq \in Ids
  BY DEF TypeOK, FilesOK, Intent, IInv, BlobsKnown
<1>5. \A r \in inflight : r.blob \in Ids /\ r.blob <= nblobs /\ r.prereq \in Ids
  BY <1>1 DEF TypeOK, NetOK, Request, IInv, BlobsKnown
<1> QED BY <1>2, <1>3, <1>4, <1>5

\* What has grown goes on being covered when the vault grows.
LEMMA GrownGrows ==
  ASSUME TypeOK, IInv, VaultGrows, NEW i \in Ids, i <= nblobs, Grown(i)
  PROVE  /\ Vault(i)'.base \subseteq Vault(local)'.base
         /\ Vault(i)'.pend \subseteq Vault(local)'.pend \cup Vault(local)'.base
<1>1. Vault(i)' = Vault(i)
  BY DEF VaultGrows
<1>2. Vault(i)'.base = Vault(i).base /\ Vault(i)'.pend = Vault(i).pend
  BY <1>1
<1> QED BY <1>2 DEF Grown, VaultGrows

\* A step of one process, or of none, that leaves remote.etag alone; a request that it sends is
\* the one the intent records.
LEMMA KeepMove ==
  ASSUME TypeOK, TypeOK', IInv, KeepInv, NEW p, OthersStay(p), VaultGrows, cached' = cached,
         \A r \in inflight' : \/ r \in inflight
                              \/ intent.state # "none" /\ r.prereq = intent.prereq /\ r.blob = intent.target,
         intent' = intent \/ pubLock = p,
         IntentKeeps', p \in Procs => KeepAt(p)'
  PROVE  KeepInv'
<1>1. /\ Vault(cached)' = Vault(cached)
      /\ \A q \in Procs : Vault(loaded[q])' = IF loaded'[q] = loaded[q] THEN Vault(loaded[q]) ELSE Vault(loaded[q])'
  BY NamesWritten DEF VaultGrows, Vault
<1>2. Vault(cached)'.base \subseteq Vault(local)'.base
  BY <1>1 DEF KeepInv, VaultGrows
<1>3. InflightKeeps'
  <2> SUFFICES ASSUME NEW r \in inflight'
               PROVE  r.prereq <= nblobs' /\ Vault(r.prereq)'.base \subseteq Vault(r.blob)'.base
    BY DEF InflightKeeps, Vault
  <2>1. /\ r.prereq <= nblobs /\ r.prereq \in Ids /\ r.blob \in Ids /\ r.blob <= nblobs
        /\ Vault(r.prereq).base \subseteq Vault(r.blob).base
    BY NamesWritten DEF KeepInv, InflightKeeps, IntentKeeps
  <2>2. Vault(r.prereq)' = Vault(r.prereq) /\ Vault(r.blob)' = Vault(r.blob)
    BY <2>1 DEF VaultGrows
  <2>3. nblobs \in Nat /\ nblobs' \in Nat /\ r.prereq \in Nat
    BY <2>1, IdsFacts DEF TypeOK, BlobsOK
  <2> QED BY <2>1, <2>2, <2>3 DEF VaultGrows
<1>4. ASSUME NEW q \in Procs \ {p} PROVE KeepAt(q)'
  <2>1. KeepAt(q) /\ loaded[q] \in Ids /\ loaded[q] <= nblobs
    BY NamesWritten DEF KeepInv
  <2>2. pc'[q] = pc[q] /\ cmd'[q] = cmd[q] /\ loaded'[q] = loaded[q] /\ seen'[q] = seen[q]
    BY DEF OthersStay
  <2>0. PICK i \in Ids : i = loaded[q]
    BY <2>1
  <2>3. /\ Vault(i)'.base \subseteq Vault(local)'.base
        /\ Vault(i)'.pend \subseteq Vault(local)'.pend \cup Vault(local)'.base
        /\ Vault(i)' = Vault(i)
    BY <2>0, <2>1, GrownGrows DEF KeepAt, VaultGrows
  <2>4. pc[q] \in {"prepare", "confirm", "confirm_etag"} => intent' = intent
    BY SessionLabels DEF IInv, SessionHeld, PubLabels, FinalLabels
  <2>6. (Vault(loaded[q]))' = Vault(i)'
    BY <2>0, <2>2 DEF Vault
  <2>5. Grown(loaded[q])'
    BY <2>3, <2>6 DEF Grown
  <2>7. pc[q] \in {"reconcile", "project"} /\ cmd[q] \in Pushes
          => Vault(cached)'.base \subseteq (Vault(loaded[q]))'.base
    BY <1>1, <2>0, <2>1, <2>3, <2>6 DEF KeepAt
  <2>8. pc[q] \in {"confirm", "confirm_etag"} => intent'.ids \subseteq Vault(local)'.base
    BY <2>1, <2>4 DEF KeepAt, VaultGrows
  <2> QED BY <2>1, <2>2, <2>4, <2>5, <2>7, <2>8 DEF KeepAt
<1> QED BY <1>2, <1>3, <1>4 DEF KeepInv

\* The intent goes on being covered when it stays.
LEMMA IntentStays ==
  ASSUME TypeOK, TypeOK', IInv, KeepInv, VaultGrows,
         intent'.state # "none" => /\ intent.state # "none" /\ intent'.ids = intent.ids
                                   /\ intent'.target = intent.target /\ intent'.prereq = intent.prereq
  PROVE  IntentKeeps'
<1> SUFFICES ASSUME intent'.state # "none" PROVE IntentKeeps'
  BY DEF IntentKeeps
<1>1. /\ intent.prereq <= nblobs /\ intent.prereq \in Ids /\ intent.target <= nblobs /\ intent.target \in Ids
  BY NamesWritten DEF KeepInv, IntentKeeps
<1>0. PICK i \in Ids, t \in Ids : i = intent.prereq /\ t = intent.target
  BY <1>1
<1>2. Vault(i)' = Vault(i) /\ Vault(t)' = Vault(t)
  BY <1>0, <1>1 DEF VaultGrows
<1>3. (Vault(intent.prereq))' = Vault(i)' /\ (Vault(intent.target))' = Vault(t)'
  BY <1>0 DEF Vault
<1>4. nblobs \in Nat /\ nblobs' \in Nat /\ i \in Nat
  BY <1>1, IdsFacts DEF TypeOK, BlobsOK
<1>5. intent'.prereq <= nblobs'
  BY <1>0, <1>1, <1>4 DEF VaultGrows
<1> QED BY <1>0, <1>2, <1>3, <1>5 DEF KeepInv, IntentKeeps, VaultGrows

\* A command that returns.
LEMMA KeepReturn ==
  ASSUME TypeOK, TypeOK', IInv, KeepInv, NEW p \in Procs, Return(p), VaultGrows, cached' = cached, inflight' = inflight,
         \/ intent' = intent
         \/ /\ pubLock = p
            /\ intent'.state # "none" => /\ intent.state # "none" /\ intent'.ids = intent.ids
                                         /\ intent'.target = intent.target /\ intent'.prereq = intent.prereq
  PROVE  KeepInv'
<1>1. OthersStay(p) /\ pc'[p] = "idle" /\ loaded'[p] = 0
  BY DEF Return, OthersStay, TypeOK, MemoryOK
<1>2. KeepAt(p)'
  BY <1>1 DEF KeepAt, Grown, Vault, EmptyVault, PullLabels, CommitLabels
<1>3. IntentKeeps'
  BY IntentStays
<1> QED BY <1>1, <1>2, <1>3, KeepMove

\* A process that moves on to a label that asks for nothing, and writes no vault.
LEMMA KeepGoto ==
  ASSUME TypeOK, TypeOK', IInv, KeepInv, NEW p \in Procs, OthersStay(p),
         pc'[p] \notin PullLabels \cup {"reconcile", "project", "prepare", "confirm", "confirm_etag"},
         UNCHANGED <<local, blobs, nblobs, cached>>, loaded'[p] \in {loaded[p], local},
         \A r \in inflight' : \/ r \in inflight
                              \/ intent.state # "none" /\ r.prereq = intent.prereq /\ r.blob = intent.target,
         intent' = intent \/ pubLock = p,
         intent'.state # "none" => /\ intent.state # "none" /\ intent'.ids = intent.ids
                                   /\ intent'.target = intent.target /\ intent'.prereq = intent.prereq
  PROVE  KeepInv'
<1>1. VaultGrows
  BY VaultSame
<1>2. Grown(loaded[p])'
  BY DEF Grown, Vault, KeepInv, KeepAt
<1>3. KeepAt(p)'
  BY <1>2 DEF KeepAt
<1>4. IntentKeeps'
  BY <1>1, IntentStays
<1> QED BY <1>1, <1>3, <1>4, KeepMove

\* A push that loads the vault, or a status, starts to reconcile.
LEMMA KeepStartPush ==
  ASSUME TypeOK, TypeOK', IInv, KeepInv, NEW p \in Procs, OthersStay(p), pc'[p] = "reconcile",
         \/ cmd'[p] \in Pushes /\ loaded'[p] = local
         \/ cmd'[p] = "status" /\ loaded'[p] = loaded[p],
         UNCHANGED <<local, blobs, nblobs, cached, intent, inflight>>
  PROVE  KeepInv'
<1>1. VaultGrows
  BY VaultSame
<1>2. Grown(loaded[p])'
  BY DEF Grown, Vault, KeepInv, KeepAt
<1>3. cmd'[p] \in Pushes => Vault(cached)'.base \subseteq (Vault(loaded[p]))'.base
  BY DEF Pushes, KeepInv, Vault
<1>4. KeepAt(p)'
  BY <1>2, <1>3 DEF KeepAt, PullLabels, CommitLabels
<1>5. IntentKeeps'
  BY <1>1, IntentStays
<1> QED BY <1>1, <1>4, <1>5, KeepMove

\* A push that goes on to project what it loaded.
LEMMA KeepProject ==
  ASSUME TypeOK, TypeOK', IInv, KeepInv, NEW p \in Procs, pc[p] = "reconcile", Goto(p, "project"), cmd[p] \in Pushes,
         UNCHANGED <<local, blobs, nblobs, cached, inflight, cmd, loaded, seen>>, intent' \in {intent, NoIntent}
  PROVE  KeepInv'
<1>0. pubLock = p
  BY DEF IInv, SessionHeld, PubLabels
<1>1. VaultGrows
  BY VaultSame
<1>2. OthersStay(p) /\ pc'[p] = "project"
  BY DEF Goto, OthersStay, TypeOK, MemoryOK
<1>3. Grown(loaded[p])'
  BY DEF Grown, Vault, KeepInv, KeepAt
<1>4. Vault(cached)'.base \subseteq (Vault(loaded[p]))'.base
  BY DEF Vault, KeepInv, KeepAt
<1>5. KeepAt(p)'
  BY <1>2, <1>3, <1>4 DEF KeepAt, PullLabels, CommitLabels
<1>6. IntentKeeps'
  BY <1>1, IntentStays DEF NoIntent
<1> QED BY <1>0, <1>1, <1>2, <1>5, <1>6, KeepMove

\* After a publication that never happened (ResumePending).
LEMMA KeepResume ==
  ASSUME TypeOK, TypeOK', IInv, KeepInv, NEW p \in Procs, pc[p] = "reconcile", ResumePending(p), intent' = NoIntent,
         UNCHANGED <<local, blobs, nblobs, cached, inflight>>
  PROVE  KeepInv'
<1>0. pubLock = p
  BY DEF IInv, SessionHeld, PubLabels
<1>1. CASE Return(p)
  BY <1>0, <1>1, KeepReturn, VaultSame DEF NoIntent
<1>2. CASE ~ Return(p)
  BY <1>2, KeepProject DEF ResumePending
<1> QED BY <1>1, <1>2

\* Saving a vault that contains the one in the file, or encrypting a blob beside it.
LEMMA SavedGrows ==
  ASSUME TypeOK, IInv, CanEncrypt, NEW g, NEW v \in Blob, EncryptVault(g, v),
         \/ local' = local
         \/ /\ local' = nblobs + 1
            /\ Vault(local).base \subseteq v.base /\ Vault(local).pend \subseteq v.pend \cup v.base
  PROVE  VaultGrows
<1>1. /\ nblobs' = nblobs + 1 /\ nblobs \in Nat /\ nblobs + 1 \in Ids
      /\ \A i \in Ids : i <= nblobs => Vault(i)' = Vault(i)
      /\ \A n : n = nblobs + 1 => Vault(n)'.base = v.base /\ Vault(n)'.pend = v.pend
  BY VaultAppended
<1>2. PICK i \in Ids : i = local /\ i <= nblobs
  BY NamesWritten
<1>3. CASE local' = local
  <2>1. (Vault(local))' = Vault(i)' /\ Vault(i)' = Vault(i)
    BY <1>1, <1>2, <1>3 DEF Vault
  <2> QED BY <1>1, <1>2, <2>1 DEF VaultGrows
<1>4. CASE local' = nblobs + 1 /\ Vault(local).base \subseteq v.base /\ Vault(local).pend \subseteq v.pend \cup v.base
  <2>1. PICK n \in Ids : n = nblobs + 1
    BY <1>1
  <2>2. (Vault(local))' = Vault(n)'
    BY <1>4, <2>1 DEF Vault
  <2>3. (Vault(local))'.base = v.base /\ (Vault(local))'.pend = v.pend
    BY <1>1, <2>1, <2>2
  <2> QED BY <1>1, <1>4, <2>3 DEF VaultGrows
<1> QED BY <1>3, <1>4

\* Every step of a machine that only publishes keeps what the remote version holds.
LEMMA KeepStep ==
  ASSUME TypeOK, TypeOK', IInv, KeepInv, Next, PublishingOnly
  PROVE  KeepInv'
<1>0. \A p \in Procs : pc[p] \notin PullLabels
  BY DEF KeepInv, KeepAt
<1>1. ASSUME NEW p \in Procs, StartMutate(p) PROVE KeepInv'
  <2>1. OthersStay(p) /\ pc'[p] = "save" /\ loaded'[p] = local
    BY <1>1 DEF StartMutate, Start, Goto, OthersStay, TypeOK, MemoryOK
  <2> QED BY <1>1, <2>1, KeepGoto DEF StartMutate, disk, net, PullLabels, CommitLabels
<1>2. ASSUME NEW p \in Procs, SaveMutation(p) PROVE KeepInv'
  <2>1. Return(p) /\ cached' = cached /\ inflight' = inflight /\ intent' = intent
    BY <1>2 DEF SaveMutation, net
  <2>2. CASE UNCHANGED <<local, blobs, nblobs>>
    BY <2>1, <2>2, VaultSame, KeepReturn
  <2>3. ASSUME NEW t \in Tx, CanEncrypt, EncryptVault(NextVaultGeneration, AddPending(Vault(local), t)), local' = nblobs + 1
        PROVE  KeepInv'
    <3>1. Vault(local) \in Blob
      BY VaultType DEF TypeOK, FilesOK
    <3>2. /\ AddPending(Vault(local), t) \in Blob
          /\ Vault(local).base \subseteq AddPending(Vault(local), t).base
          /\ Vault(local).pend \subseteq AddPending(Vault(local), t).pend
      BY <3>1 DEF AddPending, Blob
    <3>3. VaultGrows
      BY <2>3, <3>2, SavedGrows
    <3> QED BY <2>1, <3>3, KeepReturn
  <2> QED BY <1>2, <2>2, <2>3 DEF SaveMutation
<1>3. ASSUME NEW p \in Procs, StartPushAll(p) PROVE KeepInv'
  <2>1. OthersStay(p) /\ pc'[p] = "reconcile" /\ cmd'[p] \in Pushes /\ loaded'[p] = local
    BY <1>3 DEF StartPushAll, Start, Goto, OthersStay, Pushes, TypeOK, MemoryOK
  <2> QED BY <1>3, <2>1, KeepStartPush DEF StartPushAll, disk, net
<1>4. ASSUME NEW p \in Procs, StartPushOnly(p) PROVE KeepInv'
  <2>1. OthersStay(p) /\ pc'[p] = "reconcile" /\ cmd'[p] \in Pushes /\ loaded'[p] = local
    BY <1>4 DEF StartPushOnly, Start, Goto, OthersStay, Pushes, TypeOK, MemoryOK
  <2> QED BY <1>4, <2>1, KeepStartPush DEF StartPushOnly, disk, net
<1>5. ASSUME NEW p \in Procs, StartStatus(p) PROVE KeepInv'
  <2>1. OthersStay(p) /\ pc'[p] = "reconcile" /\ cmd'[p] = "status" /\ loaded'[p] = loaded[p]
    BY <1>5 DEF StartStatus, Start, Goto, OthersStay, TypeOK, MemoryOK
  <2> QED BY <1>5, <2>1, KeepStartPush DEF StartStatus, disk, net
<1>6. ASSUME NEW p \in Procs, MutationBusy(p) PROVE KeepInv'
  BY <1>6, VaultSame, KeepReturn DEF MutationBusy, disk, net
<1>7. ASSUME NEW p \in Procs, VerifyEmpty(p) PROVE KeepInv'
  BY <1>7, VaultSame, KeepReturn DEF VerifyEmpty, disk, net
<1>8. ASSUME NEW p \in Procs, Crash(p) PROVE KeepInv'
  BY <1>8, VaultSame, KeepReturn DEF Crash, disk, net
<1>9. ASSUME NEW p \in Procs, ReconcileLocal(p) PROVE KeepInv'
  <2>0. pubLock = p /\ cmd[p] \in Pushes \cup {"status"} /\ pc[p] = "reconcile"
    BY <1>9 DEF ReconcileLocal, IInv, SessionHeld, PubLabels, KeepInv, KeepAt
  <2>1. UNCHANGED <<local, blobs, nblobs, cached, inflight>>
    BY <1>9 DEF ReconcileLocal, net
  <2>2. CASE Return(p) /\ intent' = intent
    BY <2>1, <2>2, VaultSame, KeepReturn
  <2>3. CASE intent' = NoIntent /\ ResumePending(p)
    BY <2>0, <2>1, <2>3, KeepResume
  <2>4. CASE Goto(p, "project") /\ cmd[p] # "status" /\ UNCHANGED <<intent, cmd, loaded, seen>>
    BY <2>0, <2>1, <2>4, KeepProject
  <2>5. CASE Goto(p, "finalize") /\ UNCHANGED <<intent, cmd, loaded, seen>>
    <3>1. OthersStay(p) /\ pc'[p] = "finalize" /\ loaded'[p] = loaded[p]
      BY <2>5 DEF Goto, OthersStay, TypeOK, MemoryOK
    <3> QED BY <2>1, <2>5, <3>1, KeepGoto DEF PullLabels, CommitLabels
  <2> QED BY <1>9, <2>2, <2>3, <2>4, <2>5 DEF ReconcileLocal
<1>10. ASSUME NEW p \in Procs, ReconcileRemote(p) PROVE KeepInv'
  <2>0. pubLock = p /\ cmd[p] \in Pushes \cup {"status"} /\ pc[p] = "reconcile"
    BY <1>10 DEF ReconcileRemote, IInv, SessionHeld, PubLabels, KeepInv, KeepAt
  <2>1. UNCHANGED <<local, blobs, nblobs, cached, inflight>>
    BY <1>10 DEF ReconcileRemote, net
  <2>2. CASE Return(p) /\ intent' = [intent EXCEPT !.state = "divergent"] /\ intent.state # "none"
    BY <2>0, <2>1, <2>2, VaultSame, KeepReturn DEF TypeOK, FilesOK, Intent
  <2>3. CASE intent' = NoIntent /\ ResumePending(p)
    BY <2>0, <2>1, <2>3, KeepResume
  <2>5. CASE Goto(p, "finalize") /\ UNCHANGED <<intent, cmd, loaded, seen>>
    <3>1. OthersStay(p) /\ pc'[p] = "finalize" /\ loaded'[p] = loaded[p]
      BY <2>5 DEF Goto, OthersStay, TypeOK, MemoryOK
    <3> QED BY <2>1, <2>5, <3>1, KeepGoto DEF PullLabels, CommitLabels
  <2> QED BY <1>10, <2>2, <2>3, <2>5 DEF ReconcileRemote
<1>11. ASSUME NEW p \in Procs, Project(p) PROVE KeepInv'
  <2>0. pubLock = p /\ cmd[p] \in Pushes /\ pc[p] = "project" /\ loaded[p] \in Ids
    BY <1>11, NamesWritten DEF Project, IInv, SessionHeld, PubLabels, KeepInv, KeepAt
  <2>1. UNCHANGED <<local, cached, inflight>>
    BY <1>11 DEF Project, net
  <2> DEFINE v == Vault(loaded[p])
  <2>2. v \in Blob
    BY <2>0, VaultType DEF TypeOK
  <2>3. CASE /\ want[p] \subseteq v.pend /\ CanEncrypt
             /\ EncryptVault(NextVaultGeneration, ProjectIDs(v, want[p]))
             /\ intent' = [state |-> "prepared",
                           scope |-> IF cmd[p] = "push_all" THEN "all" ELSE "only",
                           ids |-> want[p], target |-> nblobs + 1, prereq |-> cached]
             /\ seen' = [seen EXCEPT ![p] = cached]
             /\ Goto(p, "prepare")
             /\ UNCHANGED <<cmd, loaded>>
    <3>1. /\ ProjectIDs(v, want[p]) \in Blob /\ ProjectIDs(v, want[p]).base = v.base \cup want[p]
      BY <2>2, <2>3 DEF ProjectIDs, Blob
    <3>2. /\ nblobs' = nblobs + 1 /\ nblobs \in Nat /\ nblobs + 1 \in Ids
          /\ \A i \in Ids : i <= nblobs => Vault(i)' = Vault(i)
          /\ \A n : n = nblobs + 1 => Vault(n)'.base = v.base \cup want[p]
      BY <2>3, <3>1, VaultAppended
    <3>3. VaultGrows
      BY <2>1, <2>3, <3>1, SavedGrows
    <3>4. OthersStay(p) /\ pc'[p] = "prepare" /\ seen'[p] = cached /\ loaded'[p] = loaded[p]
      BY <2>3 DEF Goto, OthersStay, TypeOK, MemoryOK
    <3>5. Grown(loaded[p])'
      <4>1. PICK i \in Ids : i = loaded[p] /\ i <= nblobs
        BY NamesWritten
      <4>2. (Vault(loaded[p]))' = Vault(i)'
        BY <3>4, <4>1 DEF Vault
      <4>3. Grown(i)
        BY <4>1 DEF KeepInv, KeepAt
      <4> QED BY <3>3, <4>1, <4>2, <4>3, GrownGrows DEF Grown
    <3>6. KeepAt(p)'
      BY <2>3, <3>4, <3>5 DEF KeepAt, PullLabels, CommitLabels
    <3>7. IntentKeeps'
      <4>1. PICK c \in Ids : c = cached /\ c <= nblobs
        BY NamesWritten
      <4>2. PICK n \in Ids : n = nblobs + 1
        BY <3>2
      <4>3. /\ (Vault(intent.prereq))' = Vault(c)' /\ Vault(c)' = Vault(c)
            /\ (Vault(intent.target))' = Vault(n)' /\ Vault(n)'.base = v.base \cup want[p]
        BY <2>3, <3>2, <4>1, <4>2 DEF Vault
      <4>4. /\ Vault(c).base \subseteq v.base /\ Grown(loaded[p])
        BY <2>0, <4>1 DEF KeepInv, KeepAt
      <4>5. intent'.prereq <= nblobs'
        BY <2>3, <3>2, <4>1, IdsFacts
      <4>6. (Vault(intent.prereq))'.base \subseteq (Vault(intent.target))'.base
        BY <4>3, <4>4
      <4>7. /\ (Vault(intent.target))'.base \subseteq (Vault(local))'.base \cup intent'.ids
            /\ intent'.ids \subseteq (Vault(local))'.pend \cup (Vault(local))'.base
        <5>1. /\ v.base \subseteq Vault(local).base /\ want[p] \subseteq Vault(local).pend \cup Vault(local).base
              /\ intent'.ids = want[p]
          BY <2>3, <4>4 DEF Grown
        <5>2. /\ Vault(local).base \subseteq (Vault(local))'.base
              /\ Vault(local).pend \subseteq (Vault(local))'.pend \cup (Vault(local))'.base
          BY <3>3 DEF VaultGrows
        <5> QED BY <4>3, <5>1, <5>2
      <4> QED BY <4>5, <4>6, <4>7 DEF IntentKeeps
    <3> QED BY <2>0, <2>1, <3>3, <3>4, <3>6, <3>7, KeepMove
  <2>4. CASE /\ loaded' = [loaded EXCEPT ![p] = local]
             /\ seen' = [seen EXCEPT ![p] = cached]
             /\ Goto(p, "verify_empty")
             /\ UNCHANGED <<intent, blobs, nblobs, cmd>>
    <3>1. OthersStay(p) /\ pc'[p] = "verify_empty" /\ loaded'[p] = local
      BY <2>4 DEF Goto, OthersStay, TypeOK, MemoryOK
    <3> QED BY <2>1, <2>4, <3>1, KeepGoto DEF PullLabels, CommitLabels
  <2>5. CASE Return(p) /\ UNCHANGED <<intent, blobs, nblobs>>
    BY <2>1, <2>5, VaultSame, KeepReturn
  <2> QED BY <1>11, <2>3, <2>4, <2>5 DEF Project
<1>12. ASSUME NEW p \in Procs, Prepare(p) PROVE KeepInv'
  <2>0. pubLock = p /\ intent.state # "none" /\ seen[p] = intent.prereq
    BY <1>12 DEF Prepare, IInv, SessionHeld, NeedsIntent, PubLabels, KeepInv, KeepAt
  <2>1. UNCHANGED <<local, blobs, nblobs, cached, inflight>>
    BY <1>12 DEF Prepare, net
  <2>2. CASE remote = seen[p]
    <3>1. /\ intent'.ids = intent.ids /\ intent'.target = intent.target /\ intent'.prereq = intent.prereq
      BY <1>12, <2>0, <2>2 DEF Prepare, TypeOK, FilesOK, Intent
    <3>2. OthersStay(p) /\ pc'[p] = "send" /\ loaded'[p] = loaded[p]
      BY <1>12, <2>2 DEF Prepare, Goto, OthersStay, TypeOK, MemoryOK
    <3> QED BY <2>0, <2>1, <3>1, <3>2, KeepGoto DEF PullLabels, CommitLabels
  <2>3. CASE remote # seen[p]
    BY <1>12, <2>0, <2>1, <2>3, VaultSame, KeepReturn DEF Prepare, NoIntent
  <2> QED BY <2>2, <2>3
<1>13. ASSUME NEW p \in Procs, Send(p) PROVE KeepInv'
  <2>0. pubLock = p /\ intent.state # "none"
    BY <1>13 DEF Send, IInv, SessionHeld, NeedsIntent, PubLabels
  <2>1. UNCHANGED <<local, blobs, nblobs, cached>>
    BY <1>13 DEF Send
  <2>2. CASE remote = intent.prereq
    <3>1. \A r \in inflight' : \/ r \in inflight
                               \/ intent.state # "none" /\ r.prereq = intent.prereq /\ r.blob = intent.target
      BY <1>13, <2>0, <2>2 DEF Send
    <3>2. OthersStay(p) /\ pc'[p] = "await" /\ loaded'[p] = loaded[p] /\ intent' = intent
      BY <1>13, <2>2 DEF Send, Goto, OthersStay, TypeOK, MemoryOK
    <3> QED BY <2>0, <2>1, <3>1, <3>2, KeepGoto DEF PullLabels, CommitLabels
  <2>3. CASE remote # intent.prereq
    BY <1>13, <2>0, <2>1, <2>3, VaultSame, KeepReturn DEF Send, TypeOK, FilesOK, Intent
  <2> QED BY <2>2, <2>3
<1>14. ASSUME NEW p \in Procs, HeadFails(p) PROVE KeepInv'
  <2>1. UNCHANGED <<local, blobs, nblobs, cached, inflight>> /\ Return(p)
    BY <1>14 DEF HeadFails, net
  <2>2. pc[p] \in {"prepare", "send"} => pubLock = p
    BY DEF IInv, SessionHeld, PubLabels
  <2>3. intent' = intent \/ (pubLock = p /\ intent' = NoIntent)
    BY <1>14, <2>2 DEF HeadFails
  <2> QED BY <2>1, <2>3, VaultSame, KeepReturn DEF NoIntent
<1>15. ASSUME NEW p \in Procs, PutAmbiguous(p) PROVE KeepInv'
  <2>1. UNCHANGED <<local, blobs, nblobs, cached, inflight>> /\ Return(p)
    BY <1>15 DEF PutAmbiguous, net
  <2>2. pubLock = p /\ intent.state # "none"
    BY <1>15 DEF PutAmbiguous, TimedOut, IInv, SessionHeld, NeedsIntent, PubLabels, PutLabels, FinalLabels
  <2>3. intent'.ids = intent.ids /\ intent'.target = intent.target /\ intent'.prereq = intent.prereq
    BY <1>15 DEF PutAmbiguous, TypeOK, FilesOK, Intent
  <2> QED BY <2>1, <2>2, <2>3, VaultSame, KeepReturn
<1>16. ASSUME NEW p \in Procs, PutConflict(p) PROVE KeepInv'
  <2>1. UNCHANGED <<local, blobs, nblobs, cached, inflight>> /\ Return(p)
    BY <1>16 DEF PutConflict, net
  <2>2. pubLock = p /\ intent.state # "none"
    BY <1>16 DEF PutConflict, TimedOut, IInv, SessionHeld, NeedsIntent, PubLabels, PutLabels, FinalLabels
  <2>3. intent'.ids = intent.ids /\ intent'.target = intent.target /\ intent'.prereq = intent.prereq
    BY <1>16 DEF PutConflict, TypeOK, FilesOK, Intent
  <2> QED BY <2>1, <2>2, <2>3, VaultSame, KeepReturn
<1>17. ASSUME NEW p \in Procs, FinalizeFails(p) PROVE KeepInv'
  <2>1. UNCHANGED <<local, blobs, nblobs, cached, inflight>> /\ Return(p)
    BY <1>17 DEF FinalizeFails, net
  <2>2. pubLock = p /\ intent.state # "none"
    BY <1>17 DEF FinalizeFails, TimedOut, IInv, SessionHeld, NeedsIntent, PubLabels, PutLabels, FinalLabels
  <2>3. intent'.ids = intent.ids /\ intent'.target = intent.target /\ intent'.prereq = intent.prereq
    BY <1>17 DEF FinalizeFails, TypeOK, FilesOK, Intent
  <2> QED BY <2>1, <2>2, <2>3, VaultSame, KeepReturn
<1>18. ASSUME NEW p \in Procs, PutRejected(p) PROVE KeepInv'
  <2>1. UNCHANGED <<local, blobs, nblobs, cached, inflight>> /\ Return(p) /\ intent'.state = "none"
    BY <1>18 DEF PutRejected, net, NoIntent
  <2>2. pubLock = p
    BY <1>18 DEF PutRejected, IInv, SessionHeld, PubLabels, PutLabels, FinalLabels
  <2> QED BY <2>1, <2>2, VaultSame, KeepReturn
<1>19. ASSUME NEW p \in Procs, ConfirmIntent(p) PROVE KeepInv'
  <2>1. UNCHANGED <<local, blobs, nblobs, cached, inflight>> /\ Return(p) /\ intent'.state = "none"
    BY <1>19 DEF ConfirmIntent, net, NoIntent
  <2>2. pubLock = p
    BY <1>19 DEF ConfirmIntent, IInv, SessionHeld, PubLabels, PutLabels, FinalLabels
  <2> QED BY <2>1, <2>2, VaultSame, KeepReturn
<1>20. ASSUME NEW p \in Procs, PutOk(p) PROVE KeepInv'
  <2>1. OthersStay(p) /\ pc'[p] = "finalize" /\ loaded'[p] = loaded[p] /\ intent' = intent
    BY <1>20 DEF PutOk, disk, Goto, OthersStay, TypeOK, MemoryOK
  <2> QED BY <1>20, <2>1, KeepGoto DEF PutOk, disk, net, PullLabels, CommitLabels
<1>21. ASSUME NEW p \in Procs, ConfirmClear(p) PROVE KeepInv'
  <2>1. OthersStay(p) /\ pc'[p] = "confirm_intent" /\ loaded'[p] = loaded[p] /\ intent' = intent
    BY <1>21 DEF ConfirmClear, disk, Goto, OthersStay, TypeOK, MemoryOK
  <2> QED BY <1>21, <2>1, KeepGoto DEF ConfirmClear, disk, net, PullLabels, CommitLabels
<1>22. ASSUME NEW p \in Procs, Finalize(p) PROVE KeepInv'
  <2>0. pubLock = p /\ intent.state # "none"
    BY <1>22 DEF Finalize, IInv, SessionHeld, NeedsIntent, PubLabels, FinalLabels
  <2>1. /\ UNCHANGED <<cached, inflight, intent>>
        /\ OthersStay(p) /\ pc'[p] = "confirm" /\ loaded'[p] = loaded[p]
    BY <1>22 DEF Finalize, Goto, OthersStay, net, TypeOK, MemoryOK
  <2>2. Vault(local) \in Blob /\ intent.ids \subseteq Tx
    BY VaultType DEF TypeOK, FilesOK, Intent
  <2>3. VaultGrows /\ intent.ids \subseteq Vault(local)'.base
    <3>1. CASE /\ intent.ids \subseteq Vault(local).pend /\ CanEncrypt
               /\ EncryptVault(NextVaultGeneration, MarkPublished(Vault(local), intent.ids))
               /\ local' = nblobs + 1
      <4>1. PICK w \in Blob : w = MarkPublished(Vault(local), intent.ids)
        BY <2>2 DEF MarkPublished, Blob
      <4>2. /\ w.base = Vault(local).base \cup intent.ids /\ w.pend = Vault(local).pend \ intent.ids
        BY <2>2, <4>1 DEF MarkPublished, Blob
      <4>3. VaultGrows
        BY <3>1, <4>1, <4>2, SavedGrows
      <4>4. PICK n \in Ids : n = nblobs + 1 /\ Vault(n)'.base = w.base
        BY <3>1, <4>1, VaultAppended
      <4>5. (Vault(local))' = Vault(n)'
        BY <3>1, <4>4 DEF Vault
      <4> QED BY <4>2, <4>3, <4>4, <4>5
    <3>2. CASE intent.ids \cap Vault(local).pend = {} /\ UNCHANGED <<local, blobs, nblobs>>
      <4>1. intent.ids \subseteq Vault(local).base
        BY <2>0, <3>2 DEF KeepInv, IntentKeeps
      <4>2. (Vault(local))' = Vault(local)
        BY <3>2 DEF Vault
      <4> QED BY <3>2, <4>1, <4>2, VaultSame
    <3> QED BY <1>22, <3>1, <3>2 DEF Finalize
  <2>4. Grown(loaded[p])'
    <3>1. PICK i \in Ids : i = loaded[p] /\ i <= nblobs
      BY NamesWritten
    <3>2. (Vault(loaded[p]))' = Vault(i)'
      BY <2>1, <3>1 DEF Vault
    <3>3. Grown(i)
      BY <3>1 DEF KeepInv, KeepAt
    <3> QED BY <2>3, <3>1, <3>2, <3>3, GrownGrows DEF Grown
  <2>5. KeepAt(p)'
    BY <2>1, <2>3, <2>4 DEF KeepAt, PullLabels, CommitLabels
  <2>6. IntentKeeps'
    BY <2>1, <2>3, IntentStays
  <2> QED BY <2>1, <2>3, <2>5, <2>6, KeepMove
<1>23. ASSUME NEW p \in Procs, ConfirmLedgers(p) PROVE KeepInv'
  <2>1. /\ UNCHANGED <<local, blobs, nblobs, cached, inflight, intent>>
        /\ OthersStay(p) /\ pc'[p] = "confirm_etag" /\ loaded'[p] = loaded[p]
    BY <1>23 DEF ConfirmLedgers, Goto, OthersStay, net, TypeOK, MemoryOK
  <2>2. VaultGrows
    BY <2>1, VaultSame
  <2>3. KeepAt(p) /\ pc[p] = "confirm"
    BY <1>23 DEF ConfirmLedgers, KeepInv
  <2>4. KeepAt(p)'
    BY <2>1, <2>3 DEF KeepAt, Grown, Vault, PullLabels, CommitLabels
  <2>5. IntentKeeps'
    BY <2>1, <2>2, IntentStays
  <2> QED BY <2>1, <2>2, <2>4, <2>5, KeepMove
<1>24. ASSUME NEW p \in Procs, ConfirmETag(p) PROVE KeepInv'
  <2>0. pubLock = p /\ intent.state # "none"
    BY <1>24 DEF ConfirmETag, IInv, SessionHeld, NeedsIntent, PubLabels, FinalLabels
  <2>1. /\ UNCHANGED <<local, blobs, nblobs, inflight, intent, cmd, loaded, seen>>
        /\ cached' = intent.target \/ cached' = cached
        /\ OthersStay(p) /\ pc'[p] = "confirm_clear"
    BY <1>24 DEF ConfirmETag, ConfirmedIdentity, Goto, OthersStay, net, TypeOK, MemoryOK
  <2>2. Vault(cached)'.base \subseteq Vault(local)'.base
    <3>1. intent.ids \subseteq Vault(local).base
      BY <1>24 DEF ConfirmETag, KeepInv, KeepAt
    <3>2. Vault(intent.target).base \subseteq Vault(local).base
      BY <2>0, <3>1 DEF KeepInv, IntentKeeps
    <3>3. /\ (Vault(cached))' = Vault(intent.target) \/ (Vault(cached))' = Vault(cached)
          /\ (Vault(local))' = Vault(local)
      BY <2>1 DEF Vault
    <3> QED BY <3>2, <3>3 DEF KeepInv
  <2>3. ASSUME NEW q \in Procs PROVE KeepAt(q)'
    <3>1. KeepAt(q)
      BY DEF KeepInv
    <3>2. pc'[q] \notin {"reconcile", "project"}
      BY <2>0, <2>1 DEF IInv, SessionHeld, PubLabels, OthersStay
    <3>3. CASE q = p
      BY <2>1, <3>1, <3>3 DEF KeepAt, Grown, Vault, PullLabels, CommitLabels
    <3>4. CASE q # p
      <4>1. pc'[q] = pc[q]
        BY <2>1, <3>4 DEF OthersStay
      <4> QED BY <2>1, <3>1, <3>2, <4>1 DEF KeepAt, Grown, Vault
    <3> QED BY <3>3, <3>4
  <2>4. IntentKeeps' /\ InflightKeeps'
    BY <2>1 DEF KeepInv, IntentKeeps, InflightKeeps, Vault
  <2> QED BY <2>2, <2>3, <2>4 DEF KeepInv
<1>25. ASSUME NEW p \in Procs, StartPull(p) PROVE KeepInv'
  BY <1>25 DEF StartPull, Start, PublishingOnly, Pushes
<1>26. ASSUME NEW p \in Procs, StartLogin(p) PROVE KeepInv'
  BY <1>26 DEF StartLogin, Start, PublishingOnly, Pushes
<1>27. ASSUME NEW p \in Procs, StartBackground(p) PROVE KeepInv'
  BY <1>27 DEF StartBackground, Start, PublishingOnly, Pushes
<1>28. ASSUME NEW p \in Procs, StartAdopt(p) PROVE KeepInv'
  BY <1>28 DEF StartAdopt, Start, PublishingOnly, Pushes
<1>29. ASSUME NEW p \in Procs, Reset(p) PROVE KeepInv'
  BY <1>0, <1>29 DEF Reset, PullLabels, CommitLabels
<1>30. ASSUME NEW p \in Procs, ReadFacts(p) PROVE KeepInv'
  BY <1>0, <1>30 DEF ReadFacts, PullLabels, CommitLabels
<1>31. ASSUME NEW p \in Procs, PullHead(p) PROVE KeepInv'
  BY <1>0, <1>31 DEF PullHead, PullLabels, CommitLabels
<1>32. ASSUME NEW p \in Procs, Check(p) PROVE KeepInv'
  BY <1>0, <1>32 DEF Check, PullLabels, CommitLabels
<1>33. ASSUME NEW p \in Procs, LockRefused(p) PROVE KeepInv'
  BY <1>0, <1>33 DEF LockRefused, PullLabels, CommitLabels
<1>34. ASSUME NEW p \in Procs, RollbackFound(p) PROVE KeepInv'
  BY <1>0, <1>34 DEF RollbackFound, PullLabels, CommitLabels
<1>35. ASSUME NEW p \in Procs, Decide(p) PROVE KeepInv'
  BY <1>0, <1>35 DEF Decide, PullLabels, CommitLabels
<1>36. ASSUME NEW p \in Procs, Fetch(p) PROVE KeepInv'
  BY <1>0, <1>36 DEF Fetch, PullLabels, CommitLabels
<1>37. ASSUME NEW p \in Procs, AdoptFetch(p) PROVE KeepInv'
  BY <1>0, <1>37 DEF AdoptFetch, PullLabels, CommitLabels
<1>38. ASSUME NEW p \in Procs, InstallRefused(p) PROVE KeepInv'
  BY <1>0, <1>38 DEF InstallRefused, PullLabels, CommitLabels
<1>39. ASSUME NEW p \in Procs, Install(p) PROVE KeepInv'
  BY <1>0, <1>39 DEF Install, PullLabels, CommitLabels
<1>40. ASSUME NEW p \in Procs, CommitLedgers(p) PROVE KeepInv'
  BY <1>0, <1>40 DEF CommitLedgers, PullLabels, CommitLabels
<1>41. ASSUME NEW p \in Procs, CommitETag(p) PROVE KeepInv'
  BY <1>0, <1>41 DEF CommitETag, PullLabels, CommitLabels
<1>42. ASSUME NEW p \in Procs, CommitClear(p) PROVE KeepInv'
  BY <1>0, <1>42 DEF CommitClear, PullLabels, CommitLabels
<1>43. ASSUME NEW p \in Procs, RecordSuccess(p) PROVE KeepInv'
  BY <1>0, <1>43 DEF RecordSuccess, PullLabels, CommitLabels
<1>44. ASSUME NEW p \in Procs, PullFails(p) PROVE KeepInv'
  BY <1>0, <1>44 DEF PullFails, PullLabels, CommitLabels
<1>45. ASSUME NEW r \in inflight, ServerStore(r) \/ ServerRefuse(r) \/ ServerError(r) \/ LoseRequest(r) PROVE KeepInv'
  <2>1. /\ UNCHANGED <<local, blobs, nblobs, cached, intent, cmd, loaded, seen>> /\ inflight' \subseteq inflight
        /\ pc' = pc \/ \E l \in PutLabels \ {"await"} : pc[r.proc] = "await" /\ pc' = [pc EXCEPT ![r.proc] = l]
    BY <1>45 DEF ServerStore, ServerRefuse, ServerError, LoseRequest, Answer, Awaits, disk, memory, PutLabels
  <2>2. r.proc \in Procs
    BY DEF TypeOK, NetOK, Request
  <2>3. OthersStay(r.proc)
    BY <2>1, <2>2 DEF OthersStay, TypeOK, MemoryOK
  <2>4. VaultGrows
    BY <2>1, VaultSame
  <2>5. IntentKeeps'
    BY <2>1, <2>4, IntentStays
  <2>6. KeepAt(r.proc)'
    <3>1. KeepAt(r.proc)
      BY <2>2 DEF KeepInv
    <3>2. pc'[r.proc] = pc[r.proc] \/ pc'[r.proc] \in PutLabels
      BY <2>1, <2>2 DEF TypeOK, MemoryOK
    <3>3. CASE pc'[r.proc] = pc[r.proc]
      BY <2>1, <3>1, <3>3 DEF KeepAt, Grown, Vault
    <3>4. CASE pc'[r.proc] \in PutLabels
      BY <2>1, <3>1, <3>4 DEF KeepAt, Grown, Vault, PutLabels, PullLabels, CommitLabels
    <3> QED BY <3>2, <3>3, <3>4
  <2> QED BY <2>1, <2>3, <2>4, <2>5, <2>6, KeepMove
<1>46. ASSUME OtherPublish PROVE KeepInv'
  <2>1. PICK f \in Foreign : EncryptVault(Vault(remote).gen + 2, [Vault(remote) EXCEPT !.base = @ \cup {f}])
    BY <1>46 DEF OtherPublish
  <2>2. Vault(remote) \in Blob
    BY VaultType DEF TypeOK, NetOK
  <2>3. [Vault(remote) EXCEPT !.base = @ \cup {f}] \in Blob
    BY <2>2 DEF Blob
  <2>4. UNCHANGED <<local, cached, intent, inflight, pc, cmd, loaded, seen>> /\ CanEncrypt
    BY <1>46 DEF OtherPublish, disk, memory
  <2>5. VaultGrows
    BY <2>1, <2>3, <2>4, SavedGrows
  <2>6. IntentKeeps'
    BY <2>4, <2>5, IntentStays
  <2>7. OthersStay(NoProc) /\ NoProc \notin Procs
    BY <2>4, NoProcAssumption DEF OthersStay
  <2> QED BY <2>4, <2>5, <2>6, <2>7, KeepMove
<1>47. ASSUME RestoreRemote PROVE KeepInv'
  BY <1>47 DEF RestoreRemote, disk, memory, KeepInv, KeepAt, IntentKeeps, InflightKeeps, Grown, Vault
<1> QED BY <1>1, <1>2, <1>3, <1>4, <1>5, <1>6, <1>7, <1>8, <1>9, <1>10, <1>11, <1>12, <1>13, <1>14, <1>15, <1>16, <1>17, <1>18, <1>19, <1>20, <1>21, <1>22, <1>23, <1>24, <1>25, <1>26, <1>27, <1>28, <1>29, <1>30, <1>31, <1>32, <1>33, <1>34, <1>35, <1>36, <1>37, <1>38, <1>39, <1>40, <1>41, <1>42, <1>43, <1>44, <1>45, <1>46, <1>47
       DEF Next, Command, Step, Failure, Server

LEMMA KeepInit == Init => KeepInv
<1> SUFFICES ASSUME Init PROVE KeepInv
  OBVIOUS
<1>1. Vault(cached).base \subseteq Vault(local).base
  BY DEF Init, Synced, Unsynced, First, Fresh, Vault, EmptyVault
<1>2. IntentKeeps /\ InflightKeeps
  BY DEF Init, IntentKeeps, InflightKeeps, NoIntent
<1>3. \A p \in Procs : KeepAt(p)
  BY DEF Init, KeepAt, Grown, Vault, EmptyVault, PullLabels, CommitLabels
<1> QED BY <1>1, <1>2, <1>3 DEF KeepInv

\* Publication alone never loses the base of a projection.
LEMMA KeepInvariance == PublishingOnly => (Spec => []KeepInv)
<1> SUFFICES ASSUME PublishingOnly PROVE Spec => []KeepInv
  OBVIOUS
<1>1. IInv /\ KeepInv /\ TypeOK /\ TypeOK' /\ [Next]_vars => KeepInv'
  <2> SUFFICES ASSUME IInv, KeepInv, TypeOK, TypeOK', [Next]_vars PROVE KeepInv'
    OBVIOUS
  <2>1. CASE Next
    BY <2>1, KeepStep
  <2>2. CASE UNCHANGED vars
    BY <2>2 DEF vars, KeepInv, KeepAt, IntentKeeps, InflightKeeps, Grown, Vault, disk, locks, net, memory
  <2> QED BY <2>1, <2>2
<1> QED BY KeepInit, Invariance, TypeCorrect, <1>1, PTL DEF Spec

\* Only the server takes a request, and it stores it only over the version it expects (handlePush).
LEMMA OnlyServerStores ==
  ASSUME Next, NEW r \in inflight, r \notin inflight', remote' # remote
  PROVE  PreconditionHolds(r) /\ remote' = r.blob
<1>1. ASSUME NEW p \in Procs, Command(p) PROVE remote' = remote
  BY <1>1 DEF Command, StartMutate, StartPushAll, StartPushOnly, StartStatus, StartPull, StartLogin,
     StartBackground, StartAdopt, net
<1>2. ASSUME NEW p \in Procs, Step(p) PROVE remote' = remote
  BY <1>2 DEF Step, SaveMutation, MutationBusy, ReconcileLocal, ReconcileRemote, Project, VerifyEmpty, Prepare, Send,
     PutAmbiguous, PutOk, PutConflict, PutRejected, Finalize, FinalizeFails, ConfirmLedgers, ConfirmETag, ConfirmClear,
     ConfirmIntent, Reset, ReadFacts, PullHead, Check, LockRefused, RollbackFound, Decide, Fetch, AdoptFetch,
     InstallRefused, Install, CommitLedgers, CommitETag, CommitClear, RecordSuccess, net
<1>3. ASSUME NEW p \in Procs, Failure(p) PROVE remote' = remote
  BY <1>3 DEF Failure, HeadFails, PullFails, Crash, net
<1>4. CASE OtherPublish \/ RestoreRemote
  BY <1>4 DEF OtherPublish, RestoreRemote
<1>5. CASE Server
  BY <1>5 DEF Server, ServerStore, ServerRefuse, ServerError, LoseRequest, Store
<1> QED BY <1>1, <1>2, <1>3, <1>4, <1>5 DEF Next

\* On a machine that mutates and publishes but never pulls, and whatever crashes, is lost, late or
\* restored, no publication removes from the server what other machines
\* published there (PreparePublication, handlePush).
THEOREM PublishingKeepsRemote == PublishingOnly => (Spec => PublishKeepsRemote)
<1> SUFFICES ASSUME PublishingOnly PROVE Spec => PublishKeepsRemote
  OBVIOUS
<1> DEFINE Kept == \A r \in inflight : r \notin inflight' /\ remote' = r.blob /\ remote' # remote =>
                      Vault(remote).base \subseteq blobs[r.blob].base
<1>1. KeepInv /\ IInv /\ TypeOK /\ [Next]_vars => [Kept]_vars
  <2> SUFFICES ASSUME KeepInv, IInv, TypeOK, Next, NEW r \in inflight, r \notin inflight', remote' # remote
               PROVE  Vault(remote).base \subseteq blobs[r.blob].base
    OBVIOUS
  <2>1. r.prereq = remote
    BY OnlyServerStores DEF PreconditionHolds
  <2>2. Vault(r.prereq).base \subseteq Vault(r.blob).base
    BY DEF KeepInv, InflightKeeps
  <2>3. r.blob # 0
    BY DEF IInv, BlobsKnown
  <2> QED BY <2>1, <2>2, <2>3 DEF Vault
<1>2. [][Kept]_vars => PublishKeepsRemote
  BY PTL DEF PublishKeepsRemote
<1> QED BY KeepInvariance, Invariance, TypeCorrect, <1>1, <1>2, PTL DEF Spec
=============================================================================
