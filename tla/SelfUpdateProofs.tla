-------------------------- MODULE SelfUpdateProofs --------------------------
(***************************************************************************)
(* Proofs about SelfUpdate, for any number of processes, images, releases, *)
(* crashes and failing calls, on every platform: type correctness, the     *)
(* authenticity of what is installed, the evidence that every replacement  *)
(* leaves for its recovery, and what a recovery may do with it.            *)
(***************************************************************************)
EXTENDS SelfUpdate, FiniteSetTheorems, TLAPS

(***************************************************************************)
(* The inductive invariant.                                                *)
(***************************************************************************)
Unstaged == {"off", "start", "ready", "command", "done", "fetch"}

\* The reconciliation at startup or before a replacement.
Sweeping == {"sweep", "dropBackup", "unrecord", "linkOver", "unlinkBackup", "restoreMapped", "dropMapped"}

\* The replacement under the lock, on Windows.
Replacing == {"prepare", "record", "preserve", "install", "protect", "complete", "rollback", "forget"}

\* "restore" and "displace" are steps of the recovery on both platforms.
Shared == {"restore", "displace"}

UnixOnly == {"bind", "inspect", "retain", "commit", "check", "recheck"}

LockPcs == Sweeping \cup Replacing \cup Shared

\* A process has a private image exactly from its download to its end of the
\* replacement.
StageInv ==
    \A p \in Process :
        /\ pc[p] # "off" => image[p] # None
        /\ pc[p] = "fetch" => choice[p] \in Release \ {<<0, 0>>}
        /\ pc[p] \in Unstaged => staged[p] = None
        /\ pc[p] \in Replacing \cup UnixOnly \cup {"staged"} => staged[p] # None
        /\ Windows /\ pc[p] \in Sweeping \cup Shared => (staged[p] = None <=> resume[p] = "ready")

Used(i) == version[i] # <<0, 0>>

\* The names that matter hold authenticated images.
Good(i) == i # None => Used(i) /\ i \in genuine \cap protected

\* Every image is staged by at most one process, and only once.
ImageInv ==
    /\ Good(target) /\ Good(backup) /\ Good(mapped)
    /\ \A p \in Process : Good(rollback[p])
    /\ \A i \in reported : Used(i)
    /\ \A p \in Process :
        /\ staged[p] # None => Used(staged[p]) /\ staged[p] \in genuine /\ staged[p] \notin reported
        /\ \A q \in Process : p # q /\ staged[p] # None => staged[p] # staged[q]
        /\ pc[p] \in UnixOnly \cup {"record", "preserve", "install", "protect", "complete"}
               => staged[p] \in protected

\* On Unix nothing is left to the next launch; the process that vacated the
\* canonical name holds the original, or its link is kept as evidence.
UnixInv ==
    Unix =>
        /\ record = NoRecord /\ backup = None /\ mapped = None /\ lock = None /\ privileged = {}
        /\ \A p \in Process : pc[p] \in {"commit", "check", "recheck", "displace", "restore"} => rollback[p] # None
        /\ target = None =>
               \/ \E i \in protected : orphans[i] > 0
               \/ \E p \in Process : pc[p] = "restore"

\* On Windows the lock holder is alone with the names and the record.
LockInv ==
    /\ Windows => \A p \in Process : pc[p] \in LockPcs => lock = p
    /\ \A p \in Process : lock = p => pc[p] \in LockPcs \cup {"close"}

\* A stage that was not installed yet is under none of the names.
StageApart ==
    Windows => \A p \in Process :
        staged[p] # None /\ pc[p] \notin {"protect", "complete", "rollback", "forget", "close"}
            => staged[p] \notin {target, backup, mapped}

\* What the record on disk says of the names (Windows).
RecordInv ==
    /\ record.state = "none" => record = NoRecord
    /\ record.state = "torn" => record = Torn
    /\ backup # None => record.state # "none"
    /\ mapped # None => record.state = "prepared" /\ record.installed = mapped
    /\ Windows /\ target = None => backup # None
    /\ record.state = "prepared" =>
        /\ record.original # record.installed
        /\ record.installed \notin reported
        /\ backup # None => backup = record.original
        /\ target # None => target \in {record.original, record.installed}

Prepared == record.state = "prepared"

\* How far the lock holder has come (Windows).
StepAt(p) ==
    /\ pc[p] = "dropBackup" => record.state = "completed" /\ target # None
    /\ pc[p] = "unrecord" => /\ record.state \in {"prepared", "completed"}
                             /\ backup = None /\ mapped = None /\ target # None
    /\ pc[p] = "restore" => Prepared /\ backup # None /\ target = None
    /\ pc[p] = "linkOver" => Prepared /\ backup # None /\ target # None /\ target # backup
    /\ pc[p] = "unlinkBackup" => Prepared /\ backup # None /\ target = backup
    /\ pc[p] = "displace" => /\ Prepared /\ backup # None /\ mapped = None
                             /\ target # None /\ target # backup
    /\ pc[p] = "restoreMapped" => Prepared /\ backup # None /\ target = None
    /\ pc[p] = "dropMapped" => Prepared /\ backup = None /\ target # None
    /\ pc[p] = "prepare" => record.state \in {"none", "completed"}
    /\ pc[p] = "record" => record.state \in {"none", "completed"} /\ target # None
    /\ pc[p] = "preserve" => /\ record = Record("prepared", target, staged[p], record.tier)
                             /\ backup = None /\ mapped = None /\ target # None
    /\ pc[p] = "install" => /\ Prepared /\ record.installed = staged[p]
                            /\ backup # None /\ mapped = None /\ target = None
    /\ pc[p] \in {"protect", "complete"} =>
           /\ Prepared /\ record.installed = staged[p]
           /\ backup # None /\ mapped = None /\ target = staged[p]
    /\ pc[p] = "rollback" => /\ record.state # "none" /\ backup # None /\ mapped = None
                             /\ target \in {None, staged[p]}
    /\ pc[p] = "forget" => backup = None /\ mapped = None /\ target # None

StepInv == Windows => \A p \in Process : StepAt(p)

Inv == TypeOK /\ StageInv /\ ImageInv /\ UnixInv /\ LockInv /\ StageApart /\ RecordInv /\ StepInv
           /\ PrivilegesReturned

(***************************************************************************)
(* Facts about the operators.                                              *)
(***************************************************************************)
\* The number of names an image has is a number.
LEMMA LinksType ==
    ASSUME TypeOK, NEW i \in Image
    PROVE  Links(i) \in Nat
<1> DEFINE R == {p \in Process : rollback[p] = i}
           S == {p \in Process : Entry(p) /\ staged[p] = i}
<1>1. IsFiniteSet(R) /\ IsFiniteSet(S)
    BY ExecutableAssumption, FS_Subset
<1>2. Cardinality(R) \in Nat /\ Cardinality(S) \in Nat
    BY <1>1, FS_CardinalityType
<1>3. orphans[i] \in Nat
    BY DEF TypeOK
<1> HIDE DEF R, S
<1>4. Cardinality(R) + Cardinality(S) + orphans[i] + (IF target = i THEN 1 ELSE 0) \in Nat
    BY <1>2, <1>3
<1> QED BY <1>4 DEF Links, R, S

\* SelectRelease returns a release newer than the running version.
LEMMA SelectedRelease ==
    ASSUME TypeOK, NEW k, NEW current \in Nat \X Nat, SelectRelease(k, current) # None
    PROVE  SelectRelease(k, current) \in Release \ {<<0, 0>>}
<1> DEFINE newer == {v \in published : Newer(v, current)}
           S == IF k = "major" THEN {v \in newer : v[1] > current[1]}
                               ELSE {v \in newer : v[1] = current[1]}
<1>1. S # {} /\ SelectRelease(k, current) = Newest(S)
    BY DEF SelectRelease
<1>2. S \in SUBSET Release /\ \A v \in S : Newer(v, current)
    BY DEF TypeOK
<1> HIDE DEF S
<1>3. \E v \in S : \A w \in S \ {v} : Newer(v, w)
    BY <1>1, <1>2, ReleaseOrder
<1>4. Newest(S) \in S
    BY <1>3 DEF Newest
<1>5. Newest(S) # <<0, 0>>
    BY <1>2, <1>4 DEF Newer
<1> QED BY <1>1, <1>2, <1>4, <1>5

\* A restored original that still has its backup name has two names.
LEMMA TwoLinks ==
    ASSUME NEW i, target = i, backup = i, mapped # i
    PROVE  WindowsLinks(i) = 2
<1>1. {n \in {<<"target", target>>, <<"backup", backup>>, <<"mapped", mapped>>} : n[2] = i}
          = {<<"target", i>>} \cup {<<"backup", i>>}
    OBVIOUS
<1> DEFINE T == {<<"target", i>>}
           b == <<"backup", i>>
<1>2. IsFiniteSet(T) /\ Cardinality(T) = 1
    BY FS_Singleton
<1>3. b \notin T
    OBVIOUS
<1> HIDE DEF T, b
<1>4. Cardinality(T \cup {b}) = 2
    BY <1>2, <1>3, FS_AddElement
<1> QED BY <1>1, <1>4 DEF WindowsLinks, T, b

\* What the reconciliation of a completed record does next.
LEMMA CompletedOutcome ==
    /\ CompletedSweep \in {"blocked", "unrecord", "dropBackup"}
    /\ CompletedSweep # "blocked" => target = record.installed
    /\ CompletedSweep = "unrecord" => backup = None
<1>1. target # record.installed => CompletedSweep = "blocked"
    BY Zenon DEF CompletedSweep
<1>2. target = record.installed /\ backup = None => CompletedSweep = "unrecord"
    BY Zenon DEF CompletedSweep
<1>3. target = record.installed /\ backup # None =>
          CompletedSweep = IF SameObject(backup, record.original) THEN "dropBackup" ELSE "blocked"
    BY Zenon DEF CompletedSweep
<1> QED BY <1>1, <1>2, <1>3

\* What the reconciliation of a prepared record does next.
LEMMA PreparedOutcome ==
    ASSUME NEW named, mapped # None => record.installed = mapped, record.original # record.installed
    PROVE  /\ PreparedSweep(named) \in {"blocked", "dropMapped", "unlinkBackup", "restore", "linkOver", "displace"}
           /\ PreparedSweep(named) = "dropMapped" => backup = None /\ target = record.original
           /\ PreparedSweep(named) = "unlinkBackup" => backup # None /\ target = backup
           /\ PreparedSweep(named) = "restore" => backup # None /\ target = None
           /\ PreparedSweep(named) \in {"linkOver", "displace"} =>
                  backup # None /\ target # None /\ target # backup
           /\ PreparedSweep(named) = "displace" => mapped = None
<1> DEFINE original == SameObject(backup, record.original) /\ BindingVerifies(backup)
           linked == IF target = record.original THEN "unlinkBackup" ELSE "blocked"
           running == IF ~named THEN "linkOver" ELSE IF mapped = None THEN "displace" ELSE "blocked"
<1>1. backup = None => PreparedSweep(named) =
          IF SameObject(target, record.original) /\ BindingVerifies(target) THEN "dropMapped" ELSE "blocked"
    BY Zenon DEF PreparedSweep
<1>2. backup # None /\ ~original => PreparedSweep(named) = "blocked"
    BY Zenon DEF PreparedSweep
<1>3. backup # None /\ original => PreparedSweep(named) =
          IF WindowsLinks(backup) = 2 THEN linked
          ELSE IF target = None THEN "restore" ELSE running
    BY Zenon DEF PreparedSweep
<1>4. original /\ target = backup /\ backup # None => WindowsLinks(backup) = 2
    BY TwoLinks DEF SameObject
<1> QED BY <1>1, <1>2, <1>3, <1>4 DEF SameObject

(***************************************************************************)
(* The initial state.                                                      *)
(***************************************************************************)
LEMMA InvInit == Init => Inv
<1> SUFFICES ASSUME Init PROVE Inv
    OBVIOUS
<1> USE ExecutableAssumption DEF Init, ExecutableInit, UnixInit, WindowsInit, NoRecord
<1>1. 1 \in Image /\ None \notin Image
    BY DEF Image
<1>2. TypeOK
    BY <1>1 DEF TypeOK, ProgramCounter
<1>3. StageInv
    BY DEF StageInv, Replacing, UnixOnly, Sweeping, Shared
<1>4. ImageInv
    BY <1>1 DEF ImageInv, Good, Used, UnixOnly
<1>5. UnixInv /\ LockInv /\ StageApart /\ RecordInv
    BY <1>1 DEF UnixInv, LockInv, StageApart, RecordInv, LockPcs, Sweeping, Replacing, Shared
<1>6. StepInv /\ PrivilegesReturned
    BY DEF StepInv, StepAt, PrivilegesReturned
<1> QED BY <1>2, <1>3, <1>4, <1>5, <1>6 DEF Inv

(***************************************************************************)
(* Up to the replacement.                                                  *)
(***************************************************************************)
LEMMA PublishStep ==
    ASSUME Inv, NEW v \in Release, Publish(v), UNCHANGED <<unixVars, windowsVars>>
    PROVE  Inv'
<1> USE DEF Publish, unixVars, windowsVars, Inv
<1>1. TypeOK'
    BY DEF TypeOK
<1>2. StageInv' /\ ImageInv' /\ StageApart' /\ PrivilegesReturned'
    BY DEF StageInv, ImageInv, Good, Used, StageApart, Windows, PrivilegesReturned
<1>3. UnixInv' /\ LockInv' /\ RecordInv' /\ StepInv'
    BY DEF UnixInv, Unix, LockInv, RecordInv, StepInv, StepAt, Windows, Prepared
<1> QED BY <1>1, <1>2, <1>3

\* A step that moves one process between places without a private image, and
\* changes nothing on disk.
LEMMA PlainStep ==
    ASSUME Inv, NEW p \in Process, NEW l \in Unstaged, Goto(p, l),
           pc[p] \in Unstaged \ {"fetch"},
           l = "fetch" => choice'[p] \in Release \ {<<0, 0>>},
           l # "off" => image'[p] # None,
           image' \in [Process -> Image \cup {None}], \A q \in Process \ {p} : image'[q] = image[q],
           choice' \in [Process -> Release \cup {None}], \A q \in Process \ {p} : choice'[q] = choice[q],
           kind' \in [Process -> {"auto", "ordinary", "major"}],
           UNCHANGED <<platform, published, version, genuine, protected, reported, target,
                       staged, crashes, faults, unixVars, windowsVars>>
    PROVE  Inv'
<1>0. pc \in [Process -> ProgramCounter] /\ l \in ProgramCounter /\ pc' = [pc EXCEPT ![p] = l]
    BY DEF Inv, TypeOK, Goto, Unstaged, ProgramCounter
<1>1. TypeOK'
    <2>1. pc' \in [Process -> ProgramCounter]
        BY <1>0
    <2> QED BY <2>1 DEF Inv, TypeOK, unixVars, windowsVars
<1> USE DEF Goto, unixVars, windowsVars, Inv, Unstaged
<1>2. StageInv'
    BY DEF StageInv, TypeOK, Replacing, UnixOnly, Sweeping, Shared, Windows
<1>3. ImageInv'
    BY DEF ImageInv, TypeOK, Good, Used, UnixOnly
<1>4. UnixInv' /\ LockInv'
    BY DEF UnixInv, Unix, LockInv, Windows, TypeOK, LockPcs, Sweeping, Replacing, Shared
<1>5. StageApart' /\ RecordInv' /\ PrivilegesReturned'
    BY DEF StageApart, Windows, TypeOK, RecordInv, PrivilegesReturned, StageInv
<1>6. StepInv'
    BY DEF StepInv, StepAt, Windows, Prepared, TypeOK
<1> QED BY <1>1, <1>2, <1>3, <1>4, <1>5, <1>6

\* The download stages an image that no name and no process had before.
LEMMA DownloadStep ==
    ASSUME Inv, NEW p \in Process, DownloadVersionBeforeReplace(p), UNCHANGED <<unixVars, windowsVars>>
    PROVE  Inv'
<1> USE DEF DownloadVersionBeforeReplace, At, Goto, unixVars, windowsVars, Inv
<1>1. CASE pc' = [pc EXCEPT ![p] = Updated(p)] /\ UNCHANGED <<version, genuine, staged>>
    <2>1. Updated(p) \in {"command", "done"}
        BY DEF Updated
    <2>2. TypeOK'
        BY <1>1, <2>1 DEF TypeOK, ProgramCounter
    <2>3. StageInv'
        BY <1>1, <2>1 DEF StageInv, TypeOK, Unstaged, Replacing, UnixOnly, Sweeping, Shared, Windows
    <2>4. ImageInv'
        BY <1>1, <2>1 DEF ImageInv, TypeOK, Good, Used, UnixOnly
    <2>5. UnixInv' /\ LockInv'
        BY <1>1, <2>1 DEF UnixInv, Unix, LockInv, Windows, TypeOK, LockPcs, Sweeping, Replacing, Shared
    <2>6. StageApart' /\ RecordInv' /\ PrivilegesReturned'
        BY <1>1, <2>1 DEF StageApart, Windows, TypeOK, RecordInv, PrivilegesReturned, StageInv
    <2>7. StepInv'
        BY <1>1, <2>1 DEF StepInv, StepAt, Windows, Prepared, TypeOK
    <2> QED BY <2>2, <2>3, <2>4, <2>5, <2>6, <2>7
<1>2. CASE pc' # [pc EXCEPT ![p] = Updated(p)]
    <2>1. PICK i \in Image : /\ version[i] = <<0, 0>>
                             /\ version' = [version EXCEPT ![i] = choice[p]]
                             /\ genuine' = genuine \cup {i}
                             /\ staged' = [staged EXCEPT ![p] = i]
                             /\ pc' = [pc EXCEPT ![p] = "staged"]
        BY <1>2 DEF FreeImage, CopyAndVerifyDigest
    <2>2. choice[p] \in Release \ {<<0, 0>>} /\ staged[p] = None
        BY DEF StageInv, Unstaged
    <2>3. i # None
        BY ExecutableAssumption DEF Image
    <2>4. TypeOK'
        BY <2>1, <2>2 DEF TypeOK, ProgramCounter
    <2>5. StageInv'
        BY <2>1, <2>3 DEF StageInv, TypeOK, Unstaged, Replacing, UnixOnly, Sweeping, Shared, Windows
    <2>6. ImageInv'
        <3>1. /\ \A x \in Image : Used(x) => x # i /\ Used(x)'
              /\ Used(i)' /\ i \in genuine' /\ genuine \subseteq genuine'
            BY <2>1, <2>2 DEF Used, TypeOK
        <3>2. Good(target)' /\ Good(backup)' /\ Good(mapped)' /\ \A q \in Process : Good(rollback[q])'
            BY <3>1 DEF ImageInv, Good, TypeOK
        <3>3. i \notin reported /\ \A x \in reported : Used(x)'
            BY <3>1 DEF ImageInv, TypeOK
        <3>4. /\ staged'[p] = i /\ \A q \in Process \ {p} : staged'[q] = staged[q]
              /\ \A q \in Process : staged[q] # i
            BY <2>1, <2>3, <3>1 DEF ImageInv, TypeOK
        <3>5. \A q \in Process :
                  staged'[q] # None => Used(staged[q])' /\ staged'[q] \in genuine' /\ staged'[q] \notin reported
            BY <3>1, <3>3, <3>4 DEF ImageInv, TypeOK
        <3>6. \A q, r \in Process : q # r /\ staged'[q] # None => staged'[q] # staged'[r]
            BY <3>4 DEF ImageInv
        <3>7. \A q \in Process : pc'[q] \in UnixOnly \cup {"record", "preserve", "install", "protect", "complete"}
                  => staged'[q] \in protected
            BY <2>1, <3>4 DEF ImageInv, TypeOK, UnixOnly
        <3> QED BY <3>2, <3>3, <3>5, <3>6, <3>7 DEF ImageInv, Used, Good
    <2>7. UnixInv' /\ LockInv'
        BY <2>1 DEF UnixInv, Unix, LockInv, Windows, TypeOK, LockPcs, Sweeping, Replacing, Shared
    <2>8. StageApart'
        BY <2>1, <2>2, <2>3 DEF StageApart, Windows, TypeOK, ImageInv, Good, Used
    <2>9. RecordInv' /\ PrivilegesReturned'
        BY <2>1 DEF TypeOK, RecordInv, PrivilegesReturned, Windows
    <2>10. StepInv'
        BY <2>1 DEF StepInv, StepAt, Windows, Prepared, TypeOK
    <2> QED BY <2>4, <2>5, <2>6, <2>7, <2>8, <2>9, <2>10
<1>3. pc' = [pc EXCEPT ![p] = Updated(p)] => UNCHANGED <<version, genuine, staged>>
    BY DEF TypeOK, Updated
<1> QED BY <1>1, <1>2, <1>3

LEMMA CommonStep ==
    ASSUME Inv, NEW p \in Process, CommonNext(p)
    PROVE  Inv'
<1>0. UNCHANGED <<unixVars, windowsVars>>
    BY DEF CommonNext
<1> USE DEF At, Goto
<1>1. CASE Launch(p)
    <2>1. Goto(p, "start") /\ "start" \in Unstaged /\ pc[p] \in Unstaged \ {"fetch"}
        BY <1>1 DEF Launch, Unstaged
    <2>2. /\ image'[p] # None /\ image' \in [Process -> Image \cup {None}]
          /\ \A q \in Process \ {p} : image'[q] = image[q]
        BY <1>1 DEF Launch, Inv, TypeOK
    <2> QED BY <1>0, <1>1, <2>1, <2>2, PlainStep DEF Launch, Inv, TypeOK
<1>2. CASE SkipAuto(p)
    <2>1. "command" \in Unstaged /\ pc[p] \in Unstaged \ {"fetch"}
        BY <1>2 DEF SkipAuto, Unstaged
    <2>2. image[p] # None
        BY <1>2 DEF SkipAuto, Inv, StageInv
    <2> QED BY <1>0, <1>2, <2>1, <2>2, PlainStep DEF SkipAuto, Inv, TypeOK
<1>3. CASE AutoUpdate(p) \/ RunUpdate(p)
    <2>1. PICK k \in {"auto", "ordinary", "major"} : pc[p] \in {"ready", "command"} /\ Select(p, k)
        BY <1>3 DEF AutoUpdate, RunUpdate, Download, ReviewMajor
    <2>2. image[p] \in Image /\ version[image[p]] \in Nat \X Nat
        BY <2>1, ExecutableAssumption DEF Inv, StageInv, TypeOK
    <2>3. SelectRelease(k, version[image[p]]) \in Release \ {<<0, 0>>}
        BY <2>1, <2>2, SelectedRelease DEF Select, Inv
    <2>4. /\ choice' \in [Process -> Release \cup {None}] /\ choice'[p] \in Release \ {<<0, 0>>}
          /\ \A q \in Process \ {p} : choice'[q] = choice[q]
        BY <2>1, <2>3 DEF Select, Inv, TypeOK
    <2>5. kind' \in [Process -> {"auto", "ordinary", "major"}]
        BY <2>1 DEF Select, Inv, TypeOK
    <2>6. "fetch" \in Unstaged /\ pc[p] \in Unstaged \ {"fetch"} /\ image[p] # None
        BY <2>1 DEF Unstaged, Inv, StageInv
    <2> QED BY <1>0, <2>1, <2>4, <2>5, <2>6, PlainStep DEF Select, Inv, TypeOK
<1>4. CASE DownloadVersionBeforeReplace(p)
    BY <1>0, <1>4, DownloadStep
<1>5. CASE Exit(p)
    <2>1. "off" \in Unstaged /\ pc[p] \in Unstaged \ {"fetch"}
        BY <1>5 DEF Exit, Unstaged
    <2>2. /\ image' \in [Process -> Image \cup {None}]
          /\ \A q \in Process \ {p} : image'[q] = image[q]
        BY <1>5 DEF Exit, Inv, TypeOK
    <2> QED BY <1>0, <1>5, <2>1, <2>2, PlainStep DEF Exit, Inv, TypeOK
<1> QED BY <1>1, <1>2, <1>3, <1>4, <1>5 DEF CommonNext

(***************************************************************************)
(* The replacement on Unix.                                                *)
(***************************************************************************)
\* Nothing of the Windows protocol is touched.
LEMMA UnixFrame ==
    ASSUME Inv, Unix, UNCHANGED <<platform, windowsVars>>
    PROVE  LockInv' /\ StageApart' /\ RecordInv' /\ StepInv' /\ PrivilegesReturned'
<1>1. ~Windows'
    BY DEF Unix, Windows
<1>2. /\ record' = NoRecord /\ backup' = None /\ mapped' = None
      /\ lock' = None /\ privileged' = {}
    BY DEF Inv, UnixInv, windowsVars
<1>3. LockInv'
    BY <1>1, <1>2, ExecutableAssumption DEF LockInv
<1>4. RecordInv'
    BY <1>1, <1>2 DEF RecordInv, NoRecord
<1> QED BY <1>1, <1>2, <1>3, <1>4 DEF StageApart, StepInv, PrivilegesReturned

\* A step that changes one process's place, and nothing else that the
\* invariant is about, while the process keeps its private image.
LEMMA UnixMove ==
    ASSUME Inv, NEW p \in Process, Unix, NEW l \in UnixOnly \cup {"displace"}, Goto(p, l),
           staged[p] # None, image[p] # None, staged[p] \in protected', protected' \subseteq Image,
           protected \subseteq protected',
           pc[p] \notin {"restore", "off"},
           l \in {"commit", "check", "recheck", "displace"} => rollback'[p] # None /\ Good(rollback'[p]),
           rollback' \in [Process -> Image \cup {None}],
           \A q \in Process \ {p} : rollback'[q] = rollback[q],
           rollback'[p] \in {rollback[p], target},
           faults' \in 0 .. MaxFaults, seen' \in [Process -> (Image \cup {None}) \X Nat],
           UNCHANGED <<platform, published, version, genuine, reported, target, image, kind, choice,
                       staged, crashes, orphans, windowsVars>>
    PROVE  Inv'
<1> USE DEF Goto, UnixOnly
<1>0. TypeOK /\ l \in ProgramCounter
    BY DEF Inv, ProgramCounter
<1>1. TypeOK'
    BY <1>0 DEF TypeOK, windowsVars
<1>2. StageInv'
    BY DEF Inv, StageInv, TypeOK, Unstaged, Unix, Windows
<1>3. ImageInv'
    <2>1. \A x \in Image \cup {None} : Good(x) => Good(x)'
        BY DEF Good, Used
    <2>2. Good(target)' /\ Good(backup)' /\ Good(mapped)'
        BY <2>1 DEF Inv, ImageInv, TypeOK, windowsVars
    <2>3. \A q \in Process : Good(rollback[q])'
        BY <2>1, <2>2 DEF Inv, ImageInv, TypeOK
    <2>4. \A q \in Process : pc'[q] \in UnixOnly \cup {"record", "preserve", "install", "protect", "complete"}
              => staged'[q] \in protected'
        BY DEF Inv, ImageInv, TypeOK
    <2> QED BY <2>2, <2>3, <2>4 DEF Inv, ImageInv, Used
<1>4. UnixInv'
    BY DEF Inv, UnixInv, Unix, TypeOK, windowsVars
<1> QED BY <1>1, <1>2, <1>3, <1>4, UnixFrame DEF Inv

\* The end of a replacement, with or without success: the process keeps no
\* private name.
LEMMA UnixEnd ==
    ASSUME Inv, NEW p \in Process, Unix, NEW l \in Unstaged \ {"fetch"}, Goto(p, l),
           l # "off" => image'[p] # None,
           image' \in [Process -> Image \cup {None}], \A q \in Process \ {p} : image'[q] = image[q],
           staged' = [staged EXCEPT ![p] = None], rollback' = [rollback EXCEPT ![p] = None],
           reported' = reported \/ (staged[p] # None /\ reported' = reported \cup {staged[p]}),
           Good(target'), target' \in Image \cup {None},
           target' = None => target = None,
           target' = None /\ pc[p] = "restore" => \E i \in protected : orphans'[i] > 0,
           orphans' \in [Image -> Nat], \A i \in Image : orphans'[i] >= orphans[i],
           faults' \in 0 .. MaxFaults, crashes' \in 0 .. MaxCrashes,
           UNCHANGED <<platform, published, version, genuine, protected, kind, choice, seen, windowsVars>>
    PROVE  Inv'
<1> USE DEF Goto, Unstaged
<1>1. TypeOK'
    BY DEF Inv, TypeOK, ProgramCounter, windowsVars
<1>2. StageInv'
    BY DEF Inv, StageInv, TypeOK, Replacing, UnixOnly, Unix, Windows
<1>3. ImageInv'
    <2>1. /\ \A q \in Process : staged'[q] = IF q = p THEN None ELSE staged[q]
          /\ \A q \in Process : rollback'[q] = IF q = p THEN None ELSE rollback[q]
        BY DEF Inv, TypeOK
    <2>2. Good(target)' /\ Good(backup)' /\ Good(mapped)'
        BY DEF Inv, ImageInv, Good, Used, windowsVars
    <2>3. \A q \in Process : Good(rollback[q])'
        BY <2>1 DEF Inv, ImageInv, Good, Used
    <2>4. \A i \in reported' : Used(i)'
        BY DEF Inv, ImageInv, Used
    <2>5. \A q \in Process :
              staged'[q] # None => Used(staged[q])' /\ staged'[q] \in genuine' /\ staged'[q] \notin reported'
        BY <2>1 DEF Inv, ImageInv, Used
    <2>6. \A q, r \in Process : q # r /\ staged'[q] # None => staged'[q] # staged'[r]
        BY <2>1 DEF Inv, ImageInv
    <2>7. \A q \in Process : pc'[q] \in UnixOnly \cup {"record", "preserve", "install", "protect", "complete"}
              => staged'[q] \in protected'
        BY <2>1 DEF Inv, ImageInv, TypeOK, UnixOnly
    <2> QED BY <2>2, <2>3, <2>4, <2>5, <2>6, <2>7 DEF ImageInv
<1>4. UnixInv'
    <2>1. \A q \in Process : pc'[q] \in {"commit", "check", "recheck", "displace", "restore"} => rollback'[q] # None
        BY DEF Inv, UnixInv, TypeOK
    <2>2. ASSUME target' = None
          PROVE  \/ \E i \in protected' : orphans'[i] > 0
                 \/ \E q \in Process : pc'[q] = "restore"
        <3>1. CASE \E i \in protected : orphans[i] > 0
            <4>1. PICK i \in protected : orphans[i] > 0
                BY <3>1
            <4>2. i \in Image /\ orphans[i] \in Nat /\ orphans'[i] \in Nat
                BY DEF Inv, TypeOK
            <4>3. orphans'[i] > 0
                BY <4>1, <4>2
            <4> QED BY <4>3
        <3>2. CASE \E q \in Process : pc[q] = "restore"
            BY <2>2, <3>2 DEF Inv, TypeOK
        <3> QED BY <2>2, <3>1, <3>2 DEF Inv, UnixInv
    <2> QED BY <2>1, <2>2 DEF Inv, UnixInv, windowsVars
<1> QED BY <1>1, <1>2, <1>3, <1>4, UnixFrame DEF Inv

LEMMA UnixStep ==
    ASSUME Inv, NEW p \in Process, UnixNext(p), UNCHANGED windowsVars
    PROVE  Inv'
<1>0. TypeOK /\ StageInv /\ ImageInv /\ UnixInv
    BY DEF Inv
<1>1. Updated(p) \in Unstaged \ {"fetch", "off"}
    BY DEF Updated, Unstaged
<1>2. Fault \/ NoFault => faults' \in 0 .. MaxFaults
    BY <1>0, ExecutableAssumption DEF Fault, NoFault, TypeOK
<1>3. ASSUME Unix, UnixAbort(p), Fault \/ NoFault, pc[p] # "restore", image[p] # None
      PROVE  Inv'
    <2>1. Good(target) /\ target \in Image \cup {None} /\ orphans \in [Image -> Nat]
        BY <1>0 DEF ImageInv, TypeOK
    <2>2. crashes \in 0 .. MaxCrashes /\ image \in [Process -> Image \cup {None}]
        BY <1>0 DEF TypeOK
    <2>3. \A i \in Image : orphans[i] >= orphans[i]
        BY <2>1
    <2> QED BY <1>1, <1>2, <1>3, <2>1, <2>2, <2>3, UnixEnd DEF UnixAbort
<1>4. ASSUME pc[p] \in UnixOnly \cup {"staged"}
      PROVE  staged[p] # None /\ image[p] # None /\ pc[p] \notin {"restore", "off"}
    BY <1>0, <1>4 DEF StageInv, UnixOnly
<1> USE DEF At, unixVars
<1>5. CASE UnixCleanup(p)
    <2>1. "ready" \in Unstaged /\ pc[p] \in Unstaged \ {"fetch"} /\ image[p] # None
        BY <1>0, <1>5 DEF UnixCleanup, Unstaged, StageInv
    <2> QED BY <1>0, <1>5, <2>1, PlainStep DEF UnixCleanup, TypeOK, unixVars
<1>6. CASE UnixAuthenticate(p)
    <2>1. CASE Fault /\ UnixAbort(p)
        BY <1>3, <1>4, <1>6, <2>1 DEF UnixAuthenticate
    <2>2. CASE ~(Fault /\ UnixAbort(p))
        <3>1. staged[p] \in Image
            BY <1>0, <1>4, <1>6 DEF UnixAuthenticate, TypeOK
        <3>2. protected' \subseteq Image /\ staged[p] \in protected' /\ protected \subseteq protected'
            BY <1>0, <1>6, <2>2, <3>1 DEF UnixAuthenticate, TypeOK
        <3>3. "bind" \in UnixOnly
            BY DEF UnixOnly
        <3> QED BY <1>0, <1>2, <1>4, <1>6, <2>2, <3>2, <3>3, UnixMove DEF UnixAuthenticate, TypeOK
    <2> QED BY <1>6, <2>1, <2>2 DEF UnixAuthenticate
<1>7. CASE UnixBindByLink(p) \/ UnixBindByCopy(p)
    <2>0. Unix /\ pc[p] = "bind"
        BY <1>7 DEF UnixBindByLink, UnixBindByCopy, Unix
    <2>1. CASE Fault /\ UnixAbort(p)
        BY <1>3, <1>4, <2>0, <2>1 DEF UnixOnly
    <2>2. CASE ~(Fault /\ UnixAbort(p))
        <3>1. "inspect" \in UnixOnly /\ staged[p] \in protected
            BY <1>0, <2>0 DEF UnixOnly, ImageInv
        <3> QED BY <1>0, <1>2, <1>4, <1>7, <2>0, <2>2, <3>1, UnixMove
                DEF UnixBindByLink, UnixBindByCopy, TypeOK, UnixOnly
    <2> QED BY <2>1, <2>2
<1>8. CASE UnixInspect(p)
    <2>0. Unix /\ pc[p] = "inspect"
        BY <1>8 DEF UnixInspect
    <2>1. CASE NoFault /\ UnixAbort(p)
        BY <1>3, <1>4, <2>0, <2>1 DEF UnixOnly
    <2>2. CASE ~(NoFault /\ UnixAbort(p))
        <3>1. "retain" \in UnixOnly /\ staged[p] \in protected
            BY <1>0, <2>0 DEF UnixOnly, ImageInv
        <3>2. target \in Image
            BY <1>0, <1>8, <2>2 DEF UnixInspect, TypeOK
        <3>3. Links(target) \in Nat
            BY <1>0, <3>2, LinksType
        <3>4. seen' \in [Process -> (Image \cup {None}) \X Nat]
            BY <1>0, <1>8, <2>2, <3>2, <3>3 DEF UnixInspect, TypeOK
        <3> QED BY <1>0, <1>4, <1>8, <2>0, <2>2, <3>1, <3>4, UnixMove DEF UnixInspect, TypeOK, UnixOnly
    <2> QED BY <2>1, <2>2
<1>9. CASE UnixRetain(p)
    <2>0. Unix /\ pc[p] = "retain"
        BY <1>9 DEF UnixRetain
    <2>1. CASE NoFault /\ UnixAbort(p)
        BY <1>3, <1>4, <2>0, <2>1 DEF UnixOnly
    <2>2. CASE ~(NoFault /\ UnixAbort(p))
        <3>1. "commit" \in UnixOnly /\ staged[p] \in protected
            BY <1>0, <2>0 DEF UnixOnly, ImageInv
        <3>2. target # None /\ rollback' = [rollback EXCEPT ![p] = target] /\ Good(target) /\ target \in Image
            BY <1>0, <1>9, <2>2 DEF UnixRetain, SameOriginal, ImageInv, TypeOK
        <3>3. /\ rollback'[p] = target /\ \A q \in Process \ {p} : rollback'[q] = rollback[q]
              /\ rollback' \in [Process -> Image \cup {None}]
            BY <1>0, <3>2 DEF TypeOK
        <3> QED BY <1>0, <1>4, <1>9, <2>0, <2>2, <3>1, <3>2, <3>3, UnixMove DEF UnixRetain, TypeOK, UnixOnly
    <2> QED BY <2>1, <2>2
<1>10. CASE UnixCommit(p)
    <2>0. Unix /\ pc[p] = "commit"
        BY <1>10 DEF UnixCommit
    <2>1. CASE Fault /\ UnixAbort(p)
        BY <1>3, <1>4, <2>0, <2>1 DEF UnixOnly
    <2>2. CASE ~(Fault /\ UnixAbort(p))
        <3>0. /\ target' = staged[p] /\ Goto(p, "check") /\ NoFault
              /\ UNCHANGED <<platform, published, version, genuine, protected, reported,
                             image, kind, choice, staged, crashes, unixVars>>
            BY <1>10, <2>2 DEF UnixCommit
        <3>1. staged[p] \in Image /\ Good(staged[p]) /\ staged[p] # None
            BY <1>0, <1>4, <2>0 DEF ImageInv, TypeOK, Good, UnixOnly
        <3> USE DEF Goto
        <3>2. TypeOK'
            BY <1>0, <1>2, <3>0, <3>1 DEF TypeOK, ProgramCounter, windowsVars
        <3>3. StageInv'
            BY <1>0, <1>4, <2>0, <3>0 DEF StageInv, TypeOK, Unstaged, Replacing, UnixOnly, Unix, Windows
        <3>4. ImageInv'
            BY <1>0, <2>0, <3>0, <3>1 DEF ImageInv, TypeOK, Good, Used, UnixOnly, windowsVars
        <3>5. UnixInv'
            BY <1>0, <2>0, <3>0, <3>1 DEF UnixInv, TypeOK, Unix, windowsVars
        <3> QED BY <2>0, <3>0, <3>2, <3>3, <3>4, <3>5, UnixFrame DEF Inv
    <2> QED BY <2>1, <2>2
<1>11. CASE UnixCheck(p) \/ (UnixRecheck(p) /\ ~Authentic(p))
    <2>1. PICK l \in {"recheck", "displace"} : Goto(p, l)
        BY <1>11 DEF UnixCheck, UnixRecheck
    <2>2. Unix /\ pc[p] \in {"check", "recheck"} /\ (Fault \/ NoFault)
        BY <1>11 DEF UnixCheck, UnixRecheck, NoFault
    <2>3. staged[p] \in protected /\ rollback[p] # None /\ Good(rollback[p]) /\ l \in UnixOnly \cup {"displace"}
        BY <1>0, <2>1, <2>2 DEF ImageInv, UnixInv, UnixOnly
    <2> QED BY <1>0, <1>2, <1>4, <1>11, <2>1, <2>2, <2>3, UnixMove
            DEF UnixCheck, UnixRecheck, TypeOK, UnixOnly
<1>12. CASE UnixRecheck(p) /\ Authentic(p)
    <2>1. Unix /\ pc[p] = "recheck"
        BY <1>12 DEF UnixRecheck
    <2>2. Good(target) /\ target \in Image \cup {None} /\ target # None /\ staged[p] # None /\ image[p] # None
        BY <1>0, <1>4, <1>12, <2>1 DEF ImageInv, TypeOK, Authentic, UnixOnly
    <2>3. /\ reported' = reported \cup {staged[p]} /\ staged' = [staged EXCEPT ![p] = None]
          /\ rollback' = [rollback EXCEPT ![p] = None] /\ Goto(p, Updated(p))
        BY <1>12 DEF UnixRecheck
    <2>4. orphans \in [Image -> Nat] /\ \A i \in Image : orphans[i] >= orphans[i]
        BY <1>0 DEF TypeOK
    <2> QED BY <1>0, <1>1, <1>12, <2>1, <2>2, <2>3, <2>4, UnixEnd DEF UnixRecheck, TypeOK
<1>13. CASE UnixDisplace(p)
    <2>0. /\ Unix /\ pc[p] = "displace" /\ target' = None /\ Goto(p, "restore")
          /\ UNCHANGED <<platform, published, version, genuine, protected, reported, image, kind,
                         choice, staged, crashes, faults, unixVars>>
        BY <1>13 DEF UnixDisplace
    <2> USE DEF Goto
    <2>1. TypeOK'
        BY <1>0, <2>0 DEF TypeOK, ProgramCounter, windowsVars
    <2>2. StageInv'
        BY <1>0, <2>0 DEF StageInv, TypeOK, Unstaged, Replacing, UnixOnly, Unix, Windows
    <2>3. ImageInv'
        BY <1>0, <2>0 DEF ImageInv, TypeOK, Good, Used, UnixOnly, windowsVars
    <2>4. UnixInv'
        BY <1>0, <2>0 DEF UnixInv, TypeOK, Unix, windowsVars
    <2> QED BY <2>0, <2>1, <2>2, <2>3, <2>4, UnixFrame DEF Inv
<1>14. CASE UnixRestore(p)
    <2>1. Unix /\ pc[p] = "restore"
        BY <1>14 DEF UnixRestore
    <2>2. rollback[p] # None /\ rollback[p] \in Image /\ Good(rollback[p]) /\ image[p] # None
        BY <1>0, <2>1 DEF UnixInv, TypeOK, ImageInv, StageInv
    <2>3. Good(target') /\ target' \in Image \cup {None} /\ (target' = None => target = None)
        BY <1>0, <1>14, <2>2 DEF UnixRestore, ImageInv, TypeOK
    <2>4. /\ orphans' \in [Image -> Nat] /\ \A i \in Image : orphans'[i] >= orphans[i]
          /\ target' = None => orphans'[rollback[p]] > 0
        <3>1. orphans \in [Image -> Nat]
            BY <1>0 DEF TypeOK
        <3>2. CASE target' = rollback[p] /\ orphans' = orphans
            BY <2>2, <3>1, <3>2
        <3>3. CASE orphans' = [orphans EXCEPT ![rollback[p]] = @ + 1]
            BY <2>2, <3>1, <3>3
        <3> QED BY <1>14, <3>2, <3>3 DEF UnixRestore
    <2>5. target' = None => \E i \in protected : orphans'[i] > 0
        BY <2>2, <2>4 DEF Good
    <2>6. faults' \in 0 .. MaxFaults
        BY <1>2, <1>14 DEF UnixRestore
    <2> QED BY <1>0, <1>1, <1>14, <2>1, <2>2, <2>3, <2>4, <2>5, <2>6, UnixEnd DEF UnixRestore, TypeOK
<1>15. CASE UnixCrash(p)
    <2>1. Unix /\ Goto(p, "off") /\ "off" \in Unstaged \ {"fetch"}
        BY <1>15 DEF UnixCrash, Unstaged
    <2>2. Good(target) /\ target \in Image \cup {None}
        BY <1>0 DEF ImageInv, TypeOK
    <2>3. orphans' = [i \in Image |-> orphans[i] + (IF rollback[p] = i THEN 1 ELSE 0)]
        BY <1>15 DEF UnixCrash
    <2>4. orphans' \in [Image -> Nat] /\ \A i \in Image : orphans'[i] >= orphans[i]
        BY <1>0, <2>3 DEF TypeOK
    <2>5. pc[p] = "restore" => rollback[p] \in protected /\ orphans'[rollback[p]] > 0
        BY <1>0, <2>1, <2>3 DEF UnixInv, TypeOK, ImageInv, Good
    <2>6. crashes' \in 0 .. MaxCrashes
        BY <1>0, <1>15, ExecutableAssumption DEF UnixCrash, TypeOK
    <2>7. image' \in [Process -> Image \cup {None}] /\ \A q \in Process \ {p} : image'[q] = image[q]
        BY <1>0, <1>15 DEF UnixCrash, TypeOK
    <2> QED BY <1>0, <1>15, <2>1, <2>2, <2>4, <2>5, <2>6, <2>7, UnixEnd DEF UnixCrash, TypeOK
<1> QED BY <1>5, <1>6, <1>7, <1>8, <1>9, <1>10, <1>11, <1>12, <1>13, <1>14, <1>15 DEF UnixNext, UnixRecheck

(***************************************************************************)
(* The replacement and its recovery on Windows.                            *)
(***************************************************************************)
RecordType == [state : {"none", "torn", "prepared", "completed"}, original : Image, installed : Image,
               tier : {"ordinary", "full"}]

\* Where a process recovers: with the backup privileges, for a full-tier record.
Recovering == {"restore", "linkOver", "unlinkBackup", "displace", "restoreMapped", "dropMapped", "unrecord"}

\* A step of the process that holds the lock and keeps it: what is left to
\* show is what the record says of the names, and how far the process came.
LEMMA HolderStep ==
    ASSUME Inv, Windows, NEW p \in Process, pc[p] \in LockPcs, NEW l \in LockPcs \cup {"close"}, Step(p, l),
           l \in Sweeping \cup Shared => pc[p] \in Sweeping \cup Shared,
           l \in Replacing => staged[p] # None,
           protected \subseteq protected', protected' \subseteq Image,
           l \in {"record", "preserve", "install", "protect", "complete"} => staged[p] \in protected',
           privileged' \ {p} \subseteq privileged, privileged' \subseteq Process,
           p \in privileged' => l \in Recovering \cup {"record", "preserve", "install", "protect", "rollback", "forget", "close"},
           \/ target' \in {target, backup, None}
           \/ target' = staged[p] /\ staged[p] \in protected,
           backup' \in {backup, target, None}, mapped' \in {mapped, target, None},
           l \in {"protect", "complete", "rollback", "forget", "close"} \/ staged[p] \notin {target', backup', mapped'} \/ staged[p] = None,
           record' \in RecordType, RecordInv', StepAt(p)',
           faults' \in 0 .. MaxFaults,
           UNCHANGED <<lock, resume, unixVars>>
    PROVE  Inv'
<1> USE DEF Step, Goto, unixVars
<1>0. /\ TypeOK /\ StageInv /\ ImageInv /\ LockInv /\ StageApart /\ StepInv /\ PrivilegesReturned
      /\ pc' = [pc EXCEPT ![p] = l] /\ pc'[p] = l /\ \A q \in Process \ {p} : pc'[q] = pc[q]
    BY DEF Inv, TypeOK
<1>1. lock = p /\ lock' = p /\ \A q \in Process \ {p} : pc[q] \notin LockPcs
    BY <1>0 DEF LockInv
<1>2. Windows' /\ UnixInv'
    BY DEF Windows, Unix, UnixInv
<1>3. TypeOK'
    <2>1. l \in ProgramCounter
        BY DEF LockPcs, Sweeping, Replacing, Shared, ProgramCounter
    <2>2. target' \in Image \cup {None} /\ backup' \in Image \cup {None} /\ mapped' \in Image \cup {None}
        BY <1>0 DEF TypeOK
    <2> QED BY <1>0, <2>1, <2>2 DEF TypeOK, RecordType
<1>4. StageInv'
    <2>1. \A q \in Process : pc'[q] # "off" => image[q] # None
        BY <1>0 DEF StageInv, LockPcs, Sweeping, Replacing, Shared
    <2>2. l \notin Unstaged /\ l \notin UnixOnly \cup {"staged"}
        BY DEF Unstaged, UnixOnly, LockPcs, Sweeping, Replacing, Shared
    <2>3. pc[p] \in Sweeping \cup Shared /\ l \in Sweeping \cup Shared => (staged[p] = None <=> resume[p] = "ready")
        BY <1>0 DEF StageInv
    <2>4. l # "fetch"
        BY <2>2 DEF Unstaged
    <2> QED BY <1>0, <1>2, <2>1, <2>2, <2>3, <2>4 DEF StageInv, Windows
<1>5. ImageInv'
    <2>1. \A x : Good(x) => Good(x)'
        BY DEF Good, Used
    <2>2. target' = staged[p] /\ staged[p] \in protected => Good(target')
        BY <1>0 DEF ImageInv, Good
    <2>3. Good(target') /\ Good(backup') /\ Good(mapped')
        BY <1>0, <2>2 DEF ImageInv, Good
    <2>4. Good(target)' /\ Good(backup)' /\ Good(mapped)' /\ \A q \in Process : Good(rollback[q])'
        BY <1>0, <2>3 DEF ImageInv, Good, Used
    <2>5. \A q \in Process : pc'[q] \in UnixOnly \cup {"record", "preserve", "install", "protect", "complete"}
              => staged[q] \in protected'
        <3>1. l \notin UnixOnly
            BY DEF UnixOnly, LockPcs, Sweeping, Replacing, Shared
        <3> QED BY <1>0, <3>1 DEF ImageInv
    <2> QED BY <1>0, <2>4, <2>5 DEF ImageInv, Used
<1>6. LockInv'
    BY <1>0, <1>1 DEF LockInv
<1>7. StageApart'
    <2>1. \A q \in Process \ {p} : staged[q] # None => staged[q] # staged[p]
        BY <1>0 DEF ImageInv
    <2>2. {target', backup', mapped'} \subseteq {target, backup, mapped, None, staged[p]}
        OBVIOUS
    <2> QED BY <1>0, <1>2, <2>1, <2>2 DEF StageApart, Windows
<1>8. StepInv'
    <2> SUFFICES ASSUME NEW q \in Process, q # p PROVE StepAt(q)'
        BY DEF StepInv
    <2>1. pc'[q] \notin LockPcs
        BY <1>0, <1>1
    <2> QED BY <2>1 DEF StepAt, LockPcs, Sweeping, Replacing, Shared
<1>9. PrivilegesReturned'
    BY <1>0 DEF PrivilegesReturned, Recovering
<1> QED BY <1>2, <1>3, <1>4, <1>5, <1>6, <1>7, <1>8, <1>9 DEF Inv

\* A process takes the lock: nobody was in the critical section.
LEMMA LockStep ==
    ASSUME Inv, Windows, NEW p \in Process, NEW r \in {"ready", "prepare"}, Step(p, "sweep"),
           lock = None, lock' = p, resume' = [resume EXCEPT ![p] = r],
           pc[p] \in {"start", "staged"}, r = "ready" <=> pc[p] = "start",
           UNCHANGED <<protected, privileged, names, faults, unixVars>>
    PROVE  Inv'
<1> USE DEF Step, Goto, unixVars, names
<1>0. /\ TypeOK /\ StageInv /\ ImageInv /\ LockInv /\ StageApart /\ StepInv /\ PrivilegesReturned /\ RecordInv
      /\ pc' = [pc EXCEPT ![p] = "sweep"] /\ pc'[p] = "sweep" /\ \A q \in Process \ {p} : pc'[q] = pc[q]
      /\ resume'[p] = r /\ \A q \in Process \ {p} : resume'[q] = resume[q]
    BY DEF Inv, TypeOK
<1>1. \A q \in Process : pc[q] \notin LockPcs
    BY <1>0, ExecutableAssumption DEF LockInv
<1>2. Windows' /\ UnixInv'
    BY DEF Windows, Unix, UnixInv
<1>3. TypeOK'
    BY <1>0 DEF TypeOK, ProgramCounter
<1>4. StageInv'
    BY <1>0, <1>1, <1>2 DEF StageInv, Windows, Unstaged, Replacing, UnixOnly
<1>5. ImageInv'
    BY <1>0 DEF ImageInv, Good, Used, UnixOnly
<1>6. LockInv'
    BY <1>0, <1>1 DEF LockInv, LockPcs, Sweeping
<1>7. StageApart' /\ RecordInv' /\ PrivilegesReturned'
    BY <1>0, <1>2 DEF StageApart, RecordInv, Windows, PrivilegesReturned
<1>8. StepInv'
    BY <1>0, <1>1 DEF StepInv, StepAt, LockPcs, Sweeping, Replacing, Shared
<1> QED BY <1>2, <1>3, <1>4, <1>5, <1>6, <1>7, <1>8 DEF Inv

\* A process ends its reconciliation or replacement, well or badly: it keeps
\* neither the lock nor a private image nor the privileges.
LEMMA LeaveStep ==
    ASSUME Inv, Windows, NEW p \in Process, NEW l \in Unstaged \ {"fetch"}, Goto(p, l), Unlock(p),
           l # "off" => image'[p] # None,
           image' \in [Process -> Image \cup {None}], \A q \in Process \ {p} : image'[q] = image[q],
           staged' \in [Process -> Image \cup {None}], staged'[p] = None,
           \A q \in Process \ {p} : staged'[q] = staged[q],
           privileged' = privileged \ {p},
           reported' = reported \/ (staged[p] # None /\ reported' = reported \cup {staged[p]}),
           lock = p \/ UNCHANGED names,
           target' \in {target, backup, None}, backup' \in {backup, None}, mapped' = mapped,
           record' \in RecordType, RecordInv',
           faults' \in 0 .. MaxFaults, crashes' \in 0 .. MaxCrashes,
           UNCHANGED <<platform, published, version, genuine, protected, kind, choice, resume, unixVars>>
    PROVE  Inv'
<1> USE DEF Goto, unixVars, names
<1>0. /\ TypeOK /\ StageInv /\ ImageInv /\ LockInv /\ StageApart /\ StepInv /\ PrivilegesReturned
      /\ pc' = [pc EXCEPT ![p] = l] /\ pc'[p] = l /\ \A q \in Process \ {p} : pc'[q] = pc[q]
    BY DEF Inv, TypeOK
<1>1. l \notin LockPcs \cup UnixOnly \cup {"staged", "close", "fetch"}
    BY DEF Unstaged, UnixOnly, LockPcs, Sweeping, Replacing, Shared
<1>2. Windows' /\ UnixInv'
    BY DEF Windows, Unix, UnixInv
<1>3. TypeOK'
    <2>1. l \in ProgramCounter
        BY DEF Unstaged, ProgramCounter
    <2>2. target' \in Image \cup {None} /\ backup' \in Image \cup {None} /\ mapped' \in Image \cup {None}
        BY <1>0 DEF TypeOK
    <2>3. lock' \in Process \cup {None} /\ privileged' \subseteq Process /\ reported' \subseteq Image
        BY <1>0 DEF TypeOK, Unlock
    <2> QED BY <1>0, <2>1, <2>2, <2>3 DEF TypeOK, RecordType
<1>4. StageInv'
    BY <1>0, <1>1, <1>2 DEF StageInv, Windows, LockPcs
<1>5. ImageInv'
    <2>2. Good(target)' /\ Good(backup)' /\ Good(mapped)' /\ \A q \in Process : Good(rollback[q])'
        BY <1>0 DEF ImageInv, Good, Used
    <2>3. \A i \in reported' : Used(i)'
        BY <1>0 DEF ImageInv, Used
    <2>4. \A q \in Process :
              staged'[q] # None => Used(staged[q])' /\ staged'[q] \in genuine' /\ staged'[q] \notin reported'
        BY <1>0 DEF ImageInv, Used
    <2>5. \A q, r \in Process : q # r /\ staged'[q] # None => staged'[q] # staged'[r]
        BY <1>0 DEF ImageInv
    <2>6. \A q \in Process : pc'[q] \in UnixOnly \cup {"record", "preserve", "install", "protect", "complete"}
              => staged'[q] \in protected'
        <3>1. l \notin {"record", "preserve", "install", "protect", "complete"}
            BY <1>1 DEF LockPcs, Replacing
        <3> QED BY <1>0, <1>1, <3>1 DEF ImageInv
    <2> QED BY <2>2, <2>3, <2>4, <2>5, <2>6 DEF ImageInv
<1>6. LockInv'
    BY <1>0, <1>1, <1>2, ExecutableAssumption DEF LockInv, Unlock
<1>7. StageApart'
    <2>1. {target', backup', mapped'} \subseteq {target, backup, mapped, None}
        OBVIOUS
    <2> QED BY <1>0, <1>2, <2>1 DEF StageApart, Windows
<1>8. StepInv'
    <2> SUFFICES ASSUME NEW q \in Process PROVE StepAt(q)'
        BY DEF StepInv
    <2>1. CASE pc'[q] \notin LockPcs
        BY <2>1 DEF StepAt, LockPcs, Sweeping, Replacing, Shared
    <2>2. CASE pc'[q] \in LockPcs
        <3>1. q # p /\ pc[q] \in LockPcs /\ lock # p /\ staged'[q] = staged[q] /\ pc'[q] = pc[q]
            BY <1>0, <1>1, <2>2 DEF LockInv
        <3>2. UNCHANGED names /\ StepAt(q)
            BY <1>0, <3>1 DEF StepInv
        <3> QED BY <3>1, <3>2 DEF StepAt, Prepared
    <2> QED BY <2>1, <2>2
<1>9. PrivilegesReturned'
    BY <1>0 DEF PrivilegesReturned
<1> QED BY <1>2, <1>3, <1>4, <1>5, <1>6, <1>7, <1>8, <1>9 DEF Inv

\* The process is stopped.
LEMMA BlockedStep ==
    ASSUME Inv, Windows, NEW p \in Process, Blocked(p),
           lock = p \/ UNCHANGED names,
           target' \in {target, backup, None}, backup' \in {backup, None},
           record' \in RecordType, RecordInv',
           faults' \in 0 .. MaxFaults, UNCHANGED <<mapped, unixVars>>
    PROVE  Inv'
<1>1. "off" \in Unstaged \ {"fetch"} /\ TypeOK
    BY DEF Unstaged, Inv
<1>2. /\ image' \in [Process -> Image \cup {None}] /\ \A q \in Process \ {p} : image'[q] = image[q]
      /\ staged' \in [Process -> Image \cup {None}] /\ staged'[p] = None
      /\ \A q \in Process \ {p} : staged'[q] = staged[q]
      /\ crashes' \in 0 .. MaxCrashes
    BY <1>1 DEF Blocked, TypeOK
<1> QED BY <1>1, <1>2, LeaveStep DEF Blocked

\* The reconciliation is done.
LEMMA SweptStep ==
    ASSUME Inv, Windows, NEW p \in Process, Swept(p), pc[p] \in Sweeping,
           record' \in RecordType, RecordInv', record'.state \in {"none", "completed"},
           faults' \in 0 .. MaxFaults, UNCHANGED <<target, backup, mapped, unixVars>>
    PROVE  Inv'
<1>0. TypeOK /\ StageInv /\ LockInv /\ StageApart /\ PrivilegesReturned
    BY DEF Inv
<1>1. lock = p /\ (staged[p] = None <=> resume[p] = "ready") /\ image[p] # None
    BY <1>0 DEF LockInv, LockPcs, StageInv, Sweeping
<1>2. CASE resume[p] = "ready"
    <2>1. "ready" \in Unstaged \ {"fetch"} /\ Goto(p, "ready") /\ Unlock(p)
        BY <1>2 DEF Unstaged, Swept, Step
    <2>2. privileged' = privileged \ {p} /\ staged' = staged /\ image' = image /\ crashes' = crashes
        BY <1>1 DEF Swept, Step
    <2>3. staged \in [Process -> Image \cup {None}] /\ image \in [Process -> Image \cup {None}] /\ crashes \in 0 .. MaxCrashes
        BY <1>0 DEF TypeOK
    <2> QED BY <1>1, <1>2, <2>1, <2>2, <2>3, LeaveStep DEF Swept, Step
<1>3. CASE resume[p] = "prepare"
    <2>1. Step(p, "prepare") /\ UNCHANGED <<lock, protected, resume>> /\ privileged' = privileged \ {p}
        BY <1>3 DEF Swept
    <2>2. /\ "prepare" \in Replacing /\ "prepare" \in LockPcs /\ "prepare" \notin Sweeping \cup Shared
          /\ pc[p] \in LockPcs
        BY DEF Replacing, LockPcs, Sweeping, Shared
    <2>3. staged[p] \notin {target', backup', mapped'}
        BY <1>0, <1>1, <1>3 DEF StageApart, Windows, Sweeping
    <2>4. StepAt(p)'
        <3>1. pc'[p] = "prepare"
            BY <1>0, <2>1 DEF Step, Goto, TypeOK
        <3> QED BY <3>1 DEF StepAt
    <2>5. protected' \subseteq Image /\ privileged' \subseteq Process
        BY <1>0, <2>1 DEF TypeOK
    <2> QED BY <1>1, <1>3, <2>1, <2>2, <2>3, <2>4, <2>5, HolderStep
<1> QED BY <1>0, <1>2, <1>3 DEF TypeOK

\* A step of the lock holder to a later step of the reconciliation.
LEMMA SweepingStep ==
    ASSUME Inv, Windows, NEW p \in Process, pc[p] \in Sweeping \cup Shared,
           NEW l \in (Sweeping \cup Shared) \ {"sweep"}, Step(p, l),
           privileged' \in {privileged, privileged \cup {p}}, p \in privileged' => l \in Recovering,
           target' \in {target, backup, None}, backup' \in {backup, target, None},
           mapped' \in {mapped, target, None},
           RecordInv', StepAt(p)', faults' \in 0 .. MaxFaults,
           UNCHANGED <<record, protected, lock, resume, unixVars>>
    PROVE  Inv'
<1>0. TypeOK /\ StageApart
    BY DEF Inv
<1>1. pc[p] \in LockPcs /\ l \in LockPcs /\ l \notin Replacing
    BY DEF LockPcs, Sweeping, Shared, Replacing
<1>2. staged[p] # None => staged[p] \notin {target', backup', mapped'}
    <2>1. staged[p] # None => staged[p] \notin {target, backup, mapped}
        BY <1>0 DEF StageApart, Windows, Sweeping, Shared
    <2> QED BY <2>1
<1>3. record' \in RecordType /\ protected' \subseteq Image /\ privileged' \subseteq Process
    BY <1>0 DEF TypeOK, RecordType
<1>4. l \notin {"record", "preserve", "install", "protect", "complete"}
    BY <1>1 DEF Replacing
<1>5. privileged' \ {p} \subseteq privileged
    OBVIOUS
<1> QED BY <1>1, <1>2, <1>3, <1>4, <1>5, HolderStep

\* The same for a step that leaves the privileges of the process as they are.
LEMMA ContinueStep ==
    ASSUME Inv, Windows, NEW p \in Process, pc[p] \in Sweeping \cup Shared,
           NEW l \in ((Sweeping \cup Shared) \ {"sweep"}) \cap Recovering, Continue(p, l),
           target' \in {target, backup, None}, backup' \in {backup, target, None},
           mapped' \in {mapped, target, None},
           RecordInv', StepAt(p)', faults' \in 0 .. MaxFaults, UNCHANGED <<record, unixVars>>
    PROVE  Inv'
BY SweepingStep DEF Continue

\* A failure that the process survives.
LEMMA FailedStep ==
    ASSUME Inv, Windows, NEW p \in Process, pc[p] \in LockPcs, Failed(p),
           record' \in RecordType, RecordInv', faults' \in 0 .. MaxFaults,
           UNCHANGED <<target, backup, mapped, unixVars>>
    PROVE  Inv'
<1>0. TypeOK
    BY DEF Inv
<1>1. "close" \in LockPcs \cup {"close"} /\ "close" \notin Sweeping \cup Shared \cup Replacing
    BY DEF Sweeping, Shared, Replacing
<1>2. StepAt(p)'
    <2>1. pc'[p] = "close"
        BY <1>0 DEF Failed, Continue, Step, Goto, TypeOK
    <2> QED BY <2>1 DEF StepAt
<1>3. protected' \subseteq Image /\ privileged' \subseteq Process
    BY <1>0 DEF TypeOK, Failed, Continue
<1> QED BY <1>1, <1>2, <1>3, HolderStep DEF Failed, Continue

\* What the reconciliation does, by the state of the record.
LEMMA NextSweepCases ==
    ASSUME NEW named
    PROVE  /\ record = NoRecord => NextSweep(named) = IF backup = None THEN "nothing" ELSE "blocked"
           /\ ~Decodes => NextSweep(named) = "blocked"
           /\ record.state = "completed" => NextSweep(named) = CompletedSweep
           /\ record.state = "prepared" => NextSweep(named) = PreparedSweep(named)
<1>1. record = NoRecord => NextSweep(named) = IF backup = None THEN "nothing" ELSE "blocked"
    <2>1. record = NoRecord => Decodes /\ record.state # "completed" /\ record.state # "prepared"
        BY DEF NoRecord, Decodes, Torn
    <2>2. record = NoRecord /\ Decodes /\ record.state # "completed" /\ record.state # "prepared"
              => NextSweep(named) = IF backup = None THEN "nothing" ELSE "blocked"
        BY Zenon DEF NextSweep
    <2> QED BY <2>1, <2>2
<1>2. ~Decodes => NextSweep(named) = "blocked"
    <2>1. ~Decodes => record # NoRecord /\ record.state # "completed" /\ record.state # "prepared"
        BY DEF NoRecord, Decodes, Torn
    <2>2. record # NoRecord /\ ~Decodes /\ record.state # "completed" /\ record.state # "prepared"
              => NextSweep(named) = "blocked"
        BY Zenon DEF NextSweep
    <2> QED BY <2>1, <2>2
<1>3. record.state = "completed" => NextSweep(named) = CompletedSweep
    <2>1. record.state = "completed" => record # NoRecord /\ Decodes /\ record.state # "prepared"
        BY DEF NoRecord, Decodes, Torn
    <2>2. record # NoRecord /\ Decodes /\ record.state = "completed" /\ record.state # "prepared"
              => NextSweep(named) = CompletedSweep
        BY Zenon DEF NextSweep
    <2> QED BY <2>1, <2>2
<1>4. record.state = "prepared" => NextSweep(named) = PreparedSweep(named)
    <2>1. record.state = "prepared" => record # NoRecord /\ Decodes /\ record.state # "completed"
        BY DEF NoRecord, Decodes, Torn
    <2>2. record # NoRecord /\ Decodes /\ record.state = "prepared" /\ record.state # "completed"
              => NextSweep(named) = PreparedSweep(named)
        BY Zenon DEF NextSweep
    <2> QED BY <2>1, <2>2
<1> QED BY <1>1, <1>2, <1>3, <1>4

\* It returns at once only where there is no record.
LEMMA SweepNothing ==
    ASSUME TypeOK, RecordInv, NEW named
    PROVE  NextSweep(named) # "ready" /\ (NextSweep(named) = "nothing" => record = NoRecord)
<1>1. record.state \in {"none", "torn", "prepared", "completed"}
    BY DEF TypeOK
<1>2. record.state = "none" => record = NoRecord
    BY DEF RecordInv
<1>3. record.state = "torn" => ~Decodes
    BY DEF RecordInv, Decodes
<1>4. CompletedSweep \notin {"nothing", "ready"}
    BY CompletedOutcome
<1>5. record.state = "prepared" => PreparedSweep(named) \notin {"nothing", "ready"}
    BY PreparedOutcome DEF RecordInv
<1> QED BY <1>1, <1>2, <1>3, <1>4, <1>5, NextSweepCases

\* The reconciliation reads the record and decides.
LEMMA SweepStep ==
    ASSUME Inv, NEW p \in Process, WindowsSweep(p), UNCHANGED unixVars
    PROVE  Inv'
<1>0. TypeOK /\ RecordInv /\ LockInv /\ PrivilegesReturned
    BY DEF Inv
<1>a. PICK named \in BOOLEAN :
          \/ NextSweep(named) = "nothing" /\ Swept(p)
          \/ Blocked(p)
          \/ /\ NextSweep(named) \notin {"nothing", "blocked"} /\ Step(p, NextSweep(named))
             /\ privileged' = IF NeedsPrivileges THEN privileged \cup {p} ELSE privileged
             /\ UNCHANGED <<protected, lock, resume>>
    BY DEF WindowsSweep
<1> DEFINE next == NextSweep(named)
<1>1. Windows /\ pc[p] = "sweep" /\ UNCHANGED names /\ UNCHANGED faults
    BY DEF WindowsSweep, At
<1>2. /\ pc[p] \in Sweeping /\ pc[p] \in LockPcs /\ lock = p /\ record' \in RecordType
      /\ faults' \in 0 .. MaxFaults
    BY <1>0, <1>1 DEF Sweeping, LockPcs, LockInv, names, TypeOK, RecordType
<1>3. RecordInv'
    BY <1>0, <1>1 DEF RecordInv, names, Windows, WindowsSweep, Swept, Blocked, Continue, Step
<1>4. /\ record = NoRecord => next = IF backup = None THEN "nothing" ELSE "blocked"
      /\ ~Decodes => next = "blocked"
    BY NextSweepCases
<1>5. next = "nothing" => record = NoRecord
    BY <1>0, SweepNothing
<1>6. record.state = "completed" => next = CompletedSweep
    BY NextSweepCases
<1>7. record.state = "prepared" => next = PreparedSweep(named)
    BY NextSweepCases
<1> HIDE DEF next
<1>8. CASE next = "nothing" /\ Swept(p)
    <2>1. record = NoRecord
        BY <1>5, <1>8
    <2>2. record'.state \in {"none", "completed"}
        BY <1>1, <2>1 DEF names, NoRecord
    <2> QED BY <1>1, <1>2, <1>3, <1>8, <2>2, SweptStep DEF names
<1>9. CASE Blocked(p)
    BY <1>1, <1>2, <1>3, <1>9, BlockedStep DEF names
<1>10. CASE /\ next \notin {"nothing", "blocked"} /\ Step(p, next)
            /\ privileged' = IF NeedsPrivileges THEN privileged \cup {p} ELSE privileged
            /\ UNCHANGED <<protected, lock, resume>>
    <2>1. record # NoRecord /\ Decodes
        BY <1>4, <1>10
    <2>2. record.state \in {"prepared", "completed"}
        BY <1>0, <2>1 DEF TypeOK, RecordInv, Decodes
    <2>3. pc'[p] = next
        BY <1>0, <1>10 DEF Step, Goto, TypeOK
    <2>6. privileged' \in {privileged, privileged \cup {p}} /\ p \notin privileged
        BY <1>0, <1>1, <1>10 DEF PrivilegesReturned
    <2>4. CASE record.state = "completed"
        <3>1. next \in {"unrecord", "dropBackup"} /\ target = record.installed /\ (next = "unrecord" => backup = None)
            BY <1>6, <1>10, <2>4, CompletedOutcome
        <3>2. target # None /\ mapped = None
            BY <1>0, <2>4, <3>1, ExecutableAssumption DEF TypeOK, Image, RecordInv
        <3>3. StepAt(p)'
            BY <1>1, <2>3, <2>4, <3>1, <3>2 DEF StepAt, names
        <3>4. next \in (Sweeping \cup Shared) \ {"sweep"}
            BY <3>1 DEF Sweeping
        <3>5. p \notin privileged'
            BY <1>10, <2>4, <2>6 DEF NeedsPrivileges
        <3> QED BY <1>1, <1>2, <1>3, <1>10, <2>6, <3>3, <3>4, <3>5, SweepingStep DEF names
    <2>5. CASE record.state = "prepared"
        <3>1. /\ next \in {"dropMapped", "unlinkBackup", "restore", "linkOver", "displace"}
              /\ next = "dropMapped" => backup = None /\ target = record.original
              /\ next = "unlinkBackup" => backup # None /\ target = backup
              /\ next = "restore" => backup # None /\ target = None
              /\ next \in {"linkOver", "displace"} => backup # None /\ target # None /\ target # backup
              /\ next = "displace" => mapped = None
            BY <1>0, <1>7, <1>10, <2>5, PreparedOutcome DEF RecordInv
        <3>2. record.original # None
            BY <1>0, ExecutableAssumption DEF TypeOK, Image
        <3>3. StepAt(p)'
            BY <1>1, <2>3, <2>5, <3>1, <3>2 DEF StepAt, names, Prepared
        <3>4. next \in (Sweeping \cup Shared) \ {"sweep"}
            BY <3>1 DEF Sweeping, Shared
        <3>5. next \in Recovering
            BY <3>1 DEF Recovering
        <3> QED BY <1>1, <1>2, <1>3, <1>10, <2>6, <3>3, <3>4, <3>5, SweepingStep DEF names
    <2> QED BY <2>2, <2>4, <2>5
<1> QED BY <1>a, <1>8, <1>9, <1>10 DEF next

\* The steps of the reconciliation.
LEMMA ReconcileStep ==
    ASSUME Inv, NEW p \in Process, UNCHANGED unixVars,
           \/ WindowsDropBackup(p) \/ WindowsUnrecord(p) \/ WindowsRestore(p) \/ WindowsLinkOver(p)
           \/ WindowsUnlinkBackup(p) \/ WindowsDisplace(p) \/ WindowsRestoreMapped(p) \/ WindowsDropMapped(p)
    PROVE  Inv'
<1>0. TypeOK /\ RecordInv /\ LockInv /\ StepInv
    BY DEF Inv
<1>1. /\ Windows
      /\ pc[p] \in {"dropBackup", "unrecord", "restore", "linkOver", "unlinkBackup", "displace",
                    "restoreMapped", "dropMapped"}
      /\ record' = record \/ (record' = NoRecord /\ At(p, "unrecord"))
      /\ Fault \/ NoFault
    BY DEF WindowsDropBackup, WindowsUnrecord, WindowsRestore, WindowsLinkOver, WindowsUnlinkBackup,
           WindowsDisplace, WindowsRestoreMapped, WindowsDropMapped, At, NoFault
<1>2. pc[p] \in LockPcs /\ lock = p /\ StepAt(p) /\ pc[p] \in Sweeping \cup Shared
    BY <1>0, <1>1 DEF LockInv, LockPcs, Sweeping, Shared, StepInv
<1>3. faults' \in 0 .. MaxFaults
    BY <1>0, <1>1, ExecutableAssumption DEF Fault, NoFault, TypeOK
<1>4. record' \in RecordType
    <2>1. 1 \in Image
        BY ExecutableAssumption DEF Image
    <2> QED BY <1>0, <1>1, <2>1 DEF TypeOK, RecordType, NoRecord
<1>5. UNCHANGED platform => (Windows' <=> Windows)
    BY DEF Windows
<1>6. \A l \in ProgramCounter : Continue(p, l) => pc'[p] = l
    BY <1>0 DEF Continue, Step, Goto, TypeOK
<1>7. "unrecord" \in ProgramCounter /\ "dropMapped" \in ProgramCounter /\ "unlinkBackup" \in ProgramCounter
      /\ "restoreMapped" \in ProgramCounter
    BY DEF ProgramCounter
<1>8. \A l \in {"unrecord", "dropMapped", "unlinkBackup", "restoreMapped"} :
          l \in ((Sweeping \cup Shared) \ {"sweep"}) \cap Recovering
    BY DEF Sweeping, Recovering
<1>9. \A l : Continue(p, l) \/ Blocked(p) \/ Swept(p) => UNCHANGED <<platform, reported>>
    BY DEF Continue, Blocked, Swept, Step
<1> USE DEF At
<1>10. CASE WindowsDropBackup(p)
    <2>0. pc[p] = "dropBackup" /\ record.state = "completed" /\ target # None /\ UNCHANGED <<target, mapped, record>>
        BY <1>2, <1>10 DEF WindowsDropBackup, StepAt
    <2>1. CASE Continue(p, "unrecord") /\ backup' = None
        <3>1. RecordInv'
            BY <1>0, <1>9, <2>0, <2>1 DEF RecordInv
        <3>2. StepAt(p)'
            BY <1>0, <1>6, <1>7, <2>0, <2>1 DEF StepAt, RecordInv
        <3> QED BY <1>1, <1>2, <1>3, <1>8, <2>0, <2>1, <3>1, <3>2, ContinueStep
    <2>2. CASE Swept(p) /\ UNCHANGED backup
        <3>1. RecordInv'
            BY <1>0, <1>9, <2>0, <2>2 DEF RecordInv
        <3> QED BY <1>1, <1>3, <1>4, <2>0, <2>2, <3>1, SweptStep DEF Sweeping
    <2> QED BY <1>10, <2>1, <2>2 DEF WindowsDropBackup
<1>11. CASE WindowsUnrecord(p)
    <2>0. /\ pc[p] = "unrecord" /\ record.state \in {"prepared", "completed"} /\ backup = None /\ mapped = None
          /\ target # None /\ UNCHANGED <<target, backup, mapped>>
        BY <1>2, <1>11 DEF WindowsUnrecord, StepAt
    <2>1. RecordInv'
        BY <1>0, <1>1, <1>9, <1>11, <2>0 DEF RecordInv, NoRecord, Torn, WindowsUnrecord
    <2>2. CASE Swept(p) /\ record'.state \in {"none", "completed"}
        BY <1>1, <1>3, <1>4, <2>0, <2>1, <2>2, SweptStep DEF Sweeping
    <2>3. CASE Blocked(p)
        BY <1>1, <1>2, <1>3, <1>4, <2>0, <2>1, <2>3, BlockedStep
    <2> QED BY <1>11, <2>2, <2>3 DEF WindowsUnrecord, NoRecord
<1>12. CASE WindowsRestore(p)
    <2>0. pc[p] = "restore" /\ record.state = "prepared" /\ backup # None /\ target = None /\ UNCHANGED <<mapped, record>>
        BY <1>2, <1>12 DEF WindowsRestore, StepAt, Prepared
    <2>1. CASE Continue(p, "dropMapped") /\ target' = backup /\ backup' = None
        <3>1. RecordInv'
            BY <1>0, <1>9, <2>0, <2>1 DEF RecordInv
        <3>2. StepAt(p)'
            BY <1>6, <1>7, <2>0, <2>1 DEF StepAt, Prepared
        <3> QED BY <1>1, <1>2, <1>3, <1>8, <2>0, <2>1, <3>1, <3>2, ContinueStep
    <2>2. CASE Blocked(p) /\ UNCHANGED <<target, backup>>
        <3>1. RecordInv'
            BY <1>0, <1>1, <1>5, <1>9, <2>0, <2>2 DEF RecordInv
        <3> QED BY <1>1, <1>2, <1>3, <1>4, <2>0, <2>2, <3>1, BlockedStep
    <2> QED BY <1>12, <2>1, <2>2 DEF WindowsRestore
<1>13. CASE WindowsLinkOver(p)
    <2>0. /\ pc[p] = "linkOver" /\ record.state = "prepared" /\ backup # None /\ target # None
          /\ UNCHANGED <<backup, mapped, record>>
        BY <1>2, <1>13 DEF WindowsLinkOver, StepAt, Prepared
    <2>1. CASE Continue(p, "unlinkBackup") /\ target' = backup
        <3>1. RecordInv'
            BY <1>0, <1>9, <2>0, <2>1 DEF RecordInv
        <3>2. StepAt(p)'
            BY <1>6, <1>7, <2>0, <2>1 DEF StepAt, Prepared
        <3> QED BY <1>1, <1>2, <1>3, <1>8, <2>0, <2>1, <3>1, <3>2, ContinueStep
    <2>2. CASE Blocked(p) /\ UNCHANGED target
        <3>1. RecordInv'
            BY <1>0, <1>1, <1>5, <1>9, <2>0, <2>2 DEF RecordInv
        <3> QED BY <1>1, <1>2, <1>3, <1>4, <2>0, <2>2, <3>1, BlockedStep
    <2> QED BY <1>13, <2>1, <2>2 DEF WindowsLinkOver
<1>14. CASE WindowsUnlinkBackup(p)
    <2>0. /\ pc[p] = "unlinkBackup" /\ record.state = "prepared" /\ backup # None /\ target = backup
          /\ UNCHANGED <<target, mapped, record>>
        BY <1>2, <1>14 DEF WindowsUnlinkBackup, StepAt, Prepared
    <2>1. CASE Continue(p, "dropMapped") /\ backup' = None
        <3>1. RecordInv'
            BY <1>0, <1>9, <2>0, <2>1 DEF RecordInv
        <3>2. StepAt(p)'
            BY <1>6, <1>7, <2>0, <2>1 DEF StepAt, Prepared
        <3> QED BY <1>1, <1>2, <1>3, <1>8, <2>0, <2>1, <3>1, <3>2, ContinueStep
    <2>2. CASE Blocked(p) /\ UNCHANGED backup
        <3>1. RecordInv'
            BY <1>0, <1>1, <1>5, <1>9, <2>0, <2>2 DEF RecordInv
        <3> QED BY <1>1, <1>2, <1>3, <1>4, <2>0, <2>2, <3>1, BlockedStep
    <2> QED BY <1>14, <2>1, <2>2 DEF WindowsUnlinkBackup
<1>15. CASE WindowsDisplace(p)
    <2>0. /\ pc[p] = "displace" /\ record.state = "prepared" /\ backup # None /\ mapped = None
          /\ target # None /\ target # backup /\ UNCHANGED <<backup, record>>
        BY <1>2, <1>15 DEF WindowsDisplace, StepAt, Prepared
    <2>1. CASE Continue(p, "restoreMapped") /\ mapped' = target /\ target' = None
        <3>1. RecordInv'
            BY <1>0, <1>9, <2>0, <2>1 DEF RecordInv
        <3>2. StepAt(p)'
            BY <1>6, <1>7, <2>0, <2>1 DEF StepAt, Prepared
        <3> QED BY <1>1, <1>2, <1>3, <1>8, <2>0, <2>1, <3>1, <3>2, ContinueStep
    <2>2. CASE Blocked(p) /\ UNCHANGED <<mapped, target>>
        <3>1. RecordInv'
            BY <1>0, <1>1, <1>5, <1>9, <2>0, <2>2 DEF RecordInv
        <3> QED BY <1>1, <1>2, <1>3, <1>4, <2>0, <2>2, <3>1, BlockedStep
    <2> QED BY <1>15, <2>1, <2>2 DEF WindowsDisplace
<1>16. CASE WindowsRestoreMapped(p)
    <2>0. /\ pc[p] = "restoreMapped" /\ record.state = "prepared" /\ backup # None /\ target = None
          /\ UNCHANGED <<mapped, record>> /\ Blocked(p)
          /\ (target' = backup /\ backup' = None) \/ UNCHANGED <<target, backup>>
        BY <1>2, <1>16 DEF WindowsRestoreMapped, StepAt, Prepared
    <2>1. RecordInv'
        BY <1>0, <1>1, <1>5, <1>9, <2>0 DEF RecordInv
    <2> QED BY <1>1, <1>2, <1>3, <1>4, <2>0, <2>1, BlockedStep
<1>17. CASE WindowsDropMapped(p)
    <2>0. /\ pc[p] = "dropMapped" /\ record.state = "prepared" /\ backup = None /\ target # None
          /\ UNCHANGED <<target, backup, record>>
        BY <1>2, <1>17 DEF WindowsDropMapped, StepAt, Prepared
    <2>1. CASE Continue(p, "unrecord") /\ mapped' = None
        <3>1. RecordInv'
            BY <1>0, <1>9, <2>0, <2>1 DEF RecordInv
        <3>2. StepAt(p)'
            BY <1>6, <1>7, <2>0, <2>1 DEF StepAt
        <3> QED BY <1>1, <1>2, <1>3, <1>8, <2>0, <2>1, <3>1, <3>2, ContinueStep
    <2>2. CASE Blocked(p) /\ UNCHANGED mapped
        <3>1. RecordInv'
            BY <1>0, <1>1, <1>5, <1>9, <2>0, <2>2 DEF RecordInv
        <3> QED BY <1>1, <1>2, <1>3, <1>4, <2>0, <2>2, <3>1, BlockedStep
    <2> QED BY <1>17, <2>1, <2>2 DEF WindowsDropMapped
<1> QED BY <1>10, <1>11, <1>12, <1>13, <1>14, <1>15, <1>16, <1>17

\* The replacement up to the rename of the original.
LEMMA PreserveStep ==
    ASSUME Inv, NEW p \in Process, UNCHANGED unixVars,
           \/ WindowsCleanup(p) \/ WindowsLock(p) \/ WindowsPrepare(p) \/ WindowsRecord(p) \/ WindowsPreserve(p)
    PROVE  Inv'
<1>0. TypeOK /\ StageInv /\ ImageInv /\ RecordInv /\ LockInv /\ StageApart /\ StepInv /\ PrivilegesReturned
    BY DEF Inv
<1> USE DEF At
<1>1. Windows /\ (Fault \/ NoFault)
    BY DEF WindowsCleanup, WindowsLock, WindowsPrepare, WindowsRecord, WindowsPreserve, NoFault
<1>2. faults' \in 0 .. MaxFaults
    BY <1>0, <1>1, ExecutableAssumption DEF Fault, NoFault, TypeOK
<1>3. 1 \in Image /\ record \in RecordType
    BY <1>0, ExecutableAssumption DEF Image, TypeOK, RecordType
<1>4. CASE WindowsCleanup(p)
    <2>0. pc[p] = "start" /\ UNCHANGED names /\ UNCHANGED faults
        BY <1>4 DEF WindowsCleanup
    <2>1. CASE Continue(p, "ready")
        <3>1. "ready" \in Unstaged /\ pc[p] \in Unstaged \ {"fetch"} /\ image[p] # None
            BY <1>0, <2>0 DEF Unstaged, StageInv
        <3> QED BY <1>0, <2>0, <2>1, <3>1, PlainStep DEF Continue, Step, TypeOK, names, windowsVars
    <2>2. CASE Step(p, "sweep") /\ lock = None /\ lock' = p /\ resume' = [resume EXCEPT ![p] = "ready"]
               /\ UNCHANGED <<protected, privileged>>
        BY <1>1, <2>0, <2>2, LockStep
    <2>3. CASE Blocked(p)
        <3>1. RecordInv'
            BY <1>0, <1>1, <2>0, <2>3 DEF RecordInv, names, Windows, Blocked
        <3> QED BY <1>1, <1>2, <1>3, <2>0, <2>3, <3>1, BlockedStep DEF names
    <2> QED BY <1>4, <2>1, <2>2, <2>3 DEF WindowsCleanup
<1>5. CASE WindowsLock(p)
    <2>0. pc[p] = "staged" /\ UNCHANGED names /\ UNCHANGED faults
        BY <1>5 DEF WindowsLock
    <2>1. CASE lock = None /\ Step(p, "sweep") /\ lock' = p /\ resume' = [resume EXCEPT ![p] = "prepare"]
               /\ UNCHANGED <<protected, privileged>>
        BY <1>1, <2>0, <2>1, LockStep
    <2>2. CASE Failed(p)
        <3> USE DEF Failed, Continue, Step, Goto, names, unixVars
        <3>0. pc' = [pc EXCEPT ![p] = "close"] /\ pc'[p] = "close" /\ \A q \in Process \ {p} : pc'[q] = pc[q]
            BY <1>0, <2>2 DEF TypeOK
        <3>1. Windows' /\ UnixInv'
            BY <1>1, <2>2 DEF Windows, Unix, UnixInv
        <3>2. TypeOK'
            BY <1>0, <2>0, <2>2, <3>0 DEF TypeOK, ProgramCounter
        <3>3. StageInv'
            BY <1>0, <2>0, <2>2, <3>0 DEF StageInv, Windows, Unstaged, Replacing, UnixOnly, Sweeping, Shared
        <3>4. ImageInv'
            BY <1>0, <2>0, <2>2, <3>0 DEF ImageInv, Good, Used, UnixOnly
        <3>5. LockInv'
            BY <1>0, <2>0, <2>2, <3>0 DEF LockInv, Windows, LockPcs, Sweeping, Replacing, Shared
        <3>6. StageApart' /\ RecordInv' /\ PrivilegesReturned'
            BY <1>0, <2>0, <2>2, <3>0 DEF StageApart, RecordInv, Windows, PrivilegesReturned
        <3>7. StepInv'
            BY <1>0, <2>0, <2>2, <3>0 DEF StepInv, StepAt, Windows, Prepared
        <3> QED BY <3>1, <3>2, <3>3, <3>4, <3>5, <3>6, <3>7 DEF Inv
    <2> QED BY <1>5, <2>1, <2>2 DEF WindowsLock
<1>6. CASE WindowsPrepare(p) \/ WindowsRecord(p) \/ WindowsPreserve(p)
    <2>0. pc[p] \in {"prepare", "record", "preserve"} /\ UNCHANGED mapped
        BY <1>6 DEF WindowsPrepare, WindowsRecord, WindowsPreserve, names
    <2>1. /\ pc[p] \in LockPcs /\ StepAt(p) /\ staged[p] # None /\ staged[p] \in Image
          /\ staged[p] \notin {target, backup, mapped}
        BY <1>0, <1>1, <2>0 DEF LockPcs, Replacing, StageInv, TypeOK, StageApart, StepInv
    <2>2. \A l : Step(p, l) => pc'[p] = l
        BY <1>0 DEF Step, Goto, TypeOK
    <2>3. "record" \in LockPcs \cap Replacing /\ "preserve" \in LockPcs \cap Replacing /\ "install" \in LockPcs \cap Replacing
        BY DEF LockPcs, Replacing
    <2>4. \A l \in {"record", "preserve", "install"} : l \notin Sweeping \cup Shared
        BY DEF Sweeping, Shared
    <2>5. CASE WindowsPrepare(p)
        <3>0. pc[p] = "prepare" /\ UNCHANGED names /\ record.state \in {"none", "completed"}
            BY <2>1, <2>5 DEF WindowsPrepare, StepAt
        <3>1. CASE Failed(p)
            <4>1. RecordInv'
                BY <1>0, <1>1, <3>0, <3>1 DEF RecordInv, names, Failed, Continue, Step, Windows
            <4> QED BY <1>1, <1>2, <1>3, <2>1, <3>0, <3>1, <4>1, FailedStep DEF names
        <3>2. CASE ~Failed(p)
            <4>1. /\ target # None /\ privileged' \in {privileged, privileged \cup {p}}
                  /\ protected' = protected \cup {staged[p]} /\ Step(p, "record") /\ UNCHANGED <<lock, resume>>
                BY <2>5, <3>2 DEF WindowsPrepare
            <4>2. RecordInv'
                BY <1>0, <1>1, <3>0, <4>1 DEF RecordInv, names, Step, Windows
            <4>3. StepAt(p)'
                BY <2>2, <3>0, <4>1 DEF StepAt, names
            <4>4. /\ protected' \subseteq Image /\ protected \subseteq protected' /\ staged[p] \in protected'
                  /\ privileged' \subseteq Process /\ privileged' \ {p} \subseteq privileged
                BY <1>0, <2>1, <4>1 DEF TypeOK
            <4> QED BY <1>1, <1>2, <1>3, <2>1, <2>3, <2>4, <3>0, <4>1, <4>2, <4>3, <4>4, HolderStep DEF names
        <3> QED BY <3>1, <3>2
    <2>6. CASE WindowsRecord(p)
        <3>0. /\ pc[p] = "record" /\ UNCHANGED <<target, backup, mapped>> /\ target # None
              /\ record.state \in {"none", "completed"} /\ staged[p] \in protected /\ staged[p] \notin reported
            BY <1>0, <2>1, <2>6 DEF WindowsRecord, StepAt, ImageInv
        <3>1. record = NoRecord => backup = None /\ mapped = None
            BY <1>0 DEF RecordInv, NoRecord
        <3>2. CASE Failed(p) /\ (record' = record \/ (record = NoRecord /\ record' = Torn))
            <4>1. RecordInv'
                BY <1>0, <1>1, <3>0, <3>1, <3>2 DEF RecordInv, Torn, NoRecord, Failed, Continue, Step, Windows
            <4>2. record' \in RecordType
                BY <1>3, <3>2 DEF RecordType, Torn
            <4> QED BY <1>1, <1>2, <2>1, <3>0, <3>2, <4>1, <4>2, FailedStep
        <3>3. CASE record = NoRecord /\ (\E t \in {"ordinary", "full"} : record' = Record("prepared", target, staged[p], t)) /\ Continue(p, "preserve")
            <4>1. RecordInv'
                BY <1>0, <2>1, <3>0, <3>1, <3>3 DEF RecordInv, Record, Continue, Step, Windows
            <4>2. record' \in RecordType
                BY <1>0, <2>1, <3>0, <3>3 DEF RecordType, Record, TypeOK
            <4>5. record' = Record("prepared", target', staged'[p], record'.tier)
                BY <3>0, <3>3 DEF Record, Continue, Step
            <4>3. StepAt(p)'
                BY <2>2, <3>0, <3>1, <3>3, <4>5 DEF StepAt, Continue
            <4>4. protected' \subseteq Image /\ privileged' \subseteq Process
                BY <1>0, <3>3 DEF TypeOK, Continue
            <4> QED BY <1>1, <1>2, <2>1, <2>3, <2>4, <3>0, <3>3, <4>1, <4>2, <4>3, <4>4, HolderStep DEF Continue
        <3> QED BY <2>6, <3>2, <3>3 DEF WindowsRecord
    <2>7. CASE WindowsPreserve(p)
        <3>0. /\ pc[p] = "preserve" /\ record = Record("prepared", target, staged[p], record.tier)
              /\ backup = None /\ mapped = None /\ target # None /\ staged[p] \in protected /\ UNCHANGED mapped
            BY <1>0, <2>1, <2>7 DEF WindowsPreserve, StepAt, ImageInv
        <3>1. CASE backup' = target /\ target' = None /\ Continue(p, "install") /\ UNCHANGED record
            <4>1. RecordInv'
                BY <1>0, <3>0, <3>1 DEF RecordInv, Record, Continue, Step, Windows
            <4>2. StepAt(p)'
                BY <2>2, <3>0, <3>1 DEF StepAt, Continue, Step, Record, Prepared
            <4>3. protected' \subseteq Image /\ privileged' \subseteq Process
                BY <1>0, <3>1 DEF TypeOK, Continue
            <4>4. staged[p] \notin {target', backup', mapped'}
                BY <2>1, <3>0, <3>1
            <4> QED BY <1>1, <1>2, <1>3, <2>1, <2>3, <2>4, <3>0, <3>1, <4>1, <4>2, <4>3, <4>4, HolderStep DEF Continue
        <3>2. CASE record' = NoRecord /\ Failed(p) /\ UNCHANGED <<backup, target>>
            <4>1. RecordInv' /\ record' \in RecordType
                BY <1>3, <3>0, <3>2 DEF RecordInv, RecordType, NoRecord
            <4> QED BY <1>1, <1>2, <2>1, <3>0, <3>2, <4>1, FailedStep
        <3> QED BY <2>7, <3>1, <3>2 DEF WindowsPreserve
    <2> QED BY <1>6, <2>5, <2>6, <2>7
<1> QED BY <1>4, <1>5, <1>6

\* The replacement from the rename of the stage to its end.
LEMMA InstallStep ==
    ASSUME Inv, NEW p \in Process, UNCHANGED unixVars,
           WindowsInstall(p) \/ WindowsProtect(p) \/ WindowsComplete(p) \/ WindowsRollback(p) \/ WindowsForget(p)
    PROVE  Inv'
<1>0. TypeOK /\ StageInv /\ ImageInv /\ RecordInv /\ LockInv /\ StepInv /\ PrivilegesReturned
    BY DEF Inv
<1> USE DEF At
<1>1. /\ Windows /\ (Fault \/ NoFault) /\ UNCHANGED mapped
      /\ pc[p] \in {"install", "protect", "complete", "rollback", "forget"}
    BY DEF WindowsInstall, WindowsProtect, WindowsComplete, WindowsRollback, WindowsForget, names
<1>2. faults' \in 0 .. MaxFaults
    BY <1>0, <1>1, ExecutableAssumption DEF Fault, NoFault, TypeOK
<1>3. 1 \in Image /\ record \in RecordType
    BY <1>0, ExecutableAssumption DEF Image, TypeOK, RecordType
<1>4. pc[p] \in LockPcs /\ StepAt(p) /\ staged[p] # None /\ lock = p /\ image[p] # None
    BY <1>0, <1>1 DEF LockPcs, Replacing, StageInv, StepInv, LockInv
<1>5. \A l : Step(p, l) => pc'[p] = l
    BY <1>0 DEF Step, Goto, TypeOK
<1>6. \A l \in {"protect", "complete", "rollback", "forget"} : l \in LockPcs /\ l \notin Sweeping \cup Shared
    BY DEF LockPcs, Replacing, Sweeping, Shared
<1>7. \A l : Continue(p, l) => Step(p, l) /\ UNCHANGED <<protected, lock, privileged, resume>>
    BY DEF Continue
<1>8. protected \subseteq Image /\ privileged \subseteq Process
    BY <1>0 DEF TypeOK
<1>9. CASE WindowsInstall(p)
    <2>0. /\ pc[p] = "install" /\ Prepared /\ record.installed = staged[p] /\ backup # None /\ mapped = None
          /\ target = None /\ UNCHANGED <<backup, mapped, record>> /\ staged[p] \in protected
        BY <1>0, <1>4, <1>9 DEF WindowsInstall, StepAt, ImageInv
    <2>1. PICK l \in {"protect", "rollback"} :
              Continue(p, l) /\ (target' = staged[p] \/ (l = "rollback" /\ target' = target))
        BY <1>9 DEF WindowsInstall
    <2>2. RecordInv'
        BY <1>0, <1>7, <2>0, <2>1 DEF RecordInv, Step
    <2>3. StepAt(p)'
        BY <1>5, <1>7, <2>0, <2>1 DEF StepAt, Prepared, Step
    <2> QED BY <1>1, <1>2, <1>3, <1>4, <1>6, <1>7, <1>8, <2>0, <2>1, <2>2, <2>3, HolderStep
<1>10. CASE WindowsProtect(p)
    <2>0. /\ pc[p] = "protect" /\ Prepared /\ record.installed = staged[p] /\ backup # None /\ mapped = None
          /\ target = staged[p] /\ UNCHANGED names /\ staged[p] \in protected
        BY <1>0, <1>4, <1>10 DEF WindowsProtect, StepAt, ImageInv
    <2>1. PICK l \in {"complete", "rollback"} :
              /\ Step(p, l) /\ UNCHANGED <<protected, lock, resume>>
              /\ privileged' = privileged \ {p} \/ (l = "rollback" /\ privileged' = privileged)
        BY <1>7, <1>10 DEF WindowsProtect
    <2>2. RecordInv'
        BY <1>0, <2>0, <2>1 DEF RecordInv, Step, names, Windows
    <2>3. StepAt(p)'
        BY <1>5, <2>0, <2>1 DEF StepAt, Prepared, Step, names
    <2>4. /\ privileged' \subseteq Process /\ privileged' \ {p} \subseteq privileged
          /\ p \in privileged' => l = "rollback"
        BY <1>8, <2>1
    <2> QED BY <1>1, <1>2, <1>3, <1>4, <1>6, <1>8, <2>0, <2>1, <2>2, <2>3, <2>4, HolderStep DEF names
<1>11. CASE WindowsComplete(p)
    <2> DEFINE done == [record EXCEPT !.state = "completed"]
    <2>0. /\ pc[p] = "complete" /\ Prepared /\ record.installed = staged[p] /\ backup # None /\ mapped = None
          /\ target = staged[p] /\ UNCHANGED <<target, backup, mapped>> /\ p \notin privileged
        BY <1>0, <1>4, <1>11 DEF WindowsComplete, StepAt, PrivilegesReturned
    <2>1. done \in RecordType /\ done.state = "completed"
        BY <1>3 DEF RecordType
    <2>2. Torn \in RecordType /\ Torn.state = "torn"
        BY <1>3 DEF RecordType, Torn
    <2>3. record' \in {record, Torn, done}
        BY <1>11 DEF WindowsComplete
    <2>4. record' = done \/ Continue(p, "rollback")
        BY <1>11 DEF WindowsComplete
    <2> HIDE DEF done
    <2>5. record' \in RecordType /\ record'.state # "none"
        BY <1>3, <2>0, <2>1, <2>2, <2>3 DEF Prepared
    <2>6. RecordInv'
        BY <1>0, <1>7, <2>0, <2>1, <2>2, <2>3, <2>4 DEF RecordInv, Step, Prepared
    <2>7. CASE Continue(p, "rollback")
        <3>1. StepAt(p)'
            BY <1>5, <1>7, <2>0, <2>5, <2>7 DEF StepAt, Step
        <3> QED BY <1>1, <1>2, <1>4, <1>6, <1>7, <1>8, <2>0, <2>5, <2>6, <2>7, <3>1, HolderStep
    <2>8. CASE ~Continue(p, "rollback")
        <3>1. /\ reported' = reported \cup {staged[p]} /\ staged' = [staged EXCEPT ![p] = None]
              /\ Goto(p, Updated(p)) /\ Unlock(p)
              /\ UNCHANGED <<platform, published, version, genuine, protected, image, kind,
                             choice, crashes, privileged, resume>>
            BY <1>11, <2>8 DEF WindowsComplete
        <3>2. Updated(p) \in Unstaged \ {"fetch"} /\ privileged' = privileged \ {p}
            BY <2>0, <3>1 DEF Updated, Unstaged
        <3>3. /\ image \in [Process -> Image \cup {None}] /\ crashes \in 0 .. MaxCrashes
              /\ staged' \in [Process -> Image \cup {None}] /\ staged'[p] = None
              /\ \A q \in Process \ {p} : staged'[q] = staged[q]
            BY <1>0, <3>1 DEF TypeOK
        <3> QED BY <1>1, <1>2, <1>4, <2>0, <2>5, <2>6, <3>1, <3>2, <3>3, LeaveStep
    <2> QED BY <2>7, <2>8
<1>12. CASE WindowsRollback(p)
    <2>0. /\ pc[p] = "rollback" /\ record.state # "none" /\ backup # None /\ mapped = None
          /\ UNCHANGED <<mapped, record>>
        BY <1>4, <1>12 DEF WindowsRollback, StepAt
    <2>1. CASE target' = backup /\ backup' = None /\ Continue(p, "forget")
        <3>1. RecordInv'
            BY <1>0, <1>7, <2>0, <2>1 DEF RecordInv, Step
        <3>2. StepAt(p)'
            BY <1>5, <1>7, <2>0, <2>1 DEF StepAt
        <3> QED BY <1>1, <1>2, <1>3, <1>4, <1>6, <1>7, <1>8, <2>0, <2>1, <3>1, <3>2, HolderStep
    <2>2. CASE target' \in {target, None} /\ backup' = backup /\ Blocked(p)
        <3>1. RecordInv'
            BY <1>0, <2>0, <2>2 DEF RecordInv, Blocked
        <3> QED BY <1>1, <1>2, <1>3, <1>4, <2>0, <2>2, <3>1, BlockedStep
    <2> QED BY <1>12, <2>1, <2>2 DEF WindowsRollback, WindowsRetainEvidence
<1>13. CASE WindowsForget(p)
    <2>0. /\ pc[p] = "forget" /\ backup = None /\ mapped = None /\ target # None
          /\ UNCHANGED <<target, backup, mapped>> /\ Failed(p) /\ record' \in {NoRecord, record}
        BY <1>4, <1>13 DEF WindowsForget, StepAt
    <2>1. RecordInv' /\ record' \in RecordType
        BY <1>0, <1>3, <2>0 DEF RecordInv, RecordType, NoRecord, Failed, Continue, Step
    <2> QED BY <1>1, <1>2, <1>4, <2>0, <2>1, FailedStep
<1> QED BY <1>9, <1>10, <1>11, <1>12, <1>13

\* The end of a failed replacement, and the death of a process anywhere.
LEMMA CloseStep ==
    ASSUME Inv, NEW p \in Process, UNCHANGED unixVars, WindowsClose(p) \/ WindowsCrash(p)
    PROVE  Inv'
<1>0. TypeOK /\ StageInv /\ RecordInv /\ LockInv /\ StepInv
    BY DEF Inv
<1> USE DEF At
<1>1. Windows /\ UNCHANGED <<target, backup, mapped>>
    BY DEF WindowsClose, WindowsCrash, names
<1>2. 1 \in Image /\ record \in RecordType /\ image \in [Process -> Image \cup {None}]
    BY <1>0, ExecutableAssumption DEF Image, TypeOK, RecordType
<1>3. /\ faults' \in 0 .. MaxFaults
      /\ crashes' = crashes \/ (crashes < MaxCrashes /\ crashes' = crashes + 1)
      /\ crashes' \in 0 .. MaxCrashes
    BY <1>0, ExecutableAssumption DEF WindowsClose, WindowsCrash, Blocked, Fault, NoFault, TypeOK
<1>4. staged' = [staged EXCEPT ![p] = None] =>
          /\ staged' \in [Process -> Image \cup {None}] /\ staged'[p] = None
          /\ \A q \in Process \ {p} : staged'[q] = staged[q]
    BY <1>0 DEF TypeOK
<1>5. CASE WindowsClose(p)
    <2>0. pc[p] = "close" /\ UNCHANGED names /\ image[p] # None
        BY <1>0, <1>5 DEF WindowsClose, StageInv
    <2>1. RecordInv'
        BY <1>0, <1>1, <1>5, <2>0 DEF RecordInv, names, Windows, WindowsClose, Blocked
    <2>2. CASE Blocked(p)
        BY <1>1, <1>2, <1>3, <2>0, <2>1, <2>2, BlockedStep DEF names
    <2>3. CASE ~Blocked(p)
        <3>1. /\ Unlock(p) /\ privileged' = privileged \ {p} /\ staged' = [staged EXCEPT ![p] = None]
              /\ Goto(p, Updated(p))
              /\ UNCHANGED <<platform, published, version, genuine, protected, reported,
                             image, kind, choice, crashes, resume>>
            BY <1>5, <2>3 DEF WindowsClose
        <3>2. Updated(p) \in Unstaged \ {"fetch"}
            BY DEF Updated, Unstaged
        <3> QED BY <1>1, <1>2, <1>3, <1>4, <2>0, <2>1, <3>1, <3>2, LeaveStep DEF names
    <2> QED BY <2>2, <2>3
<1>6. CASE WindowsCrash(p)
    <2>0. /\ record' = record \/ (record' = Torn /\ (pc[p] = "complete" \/ (pc[p] = "record" /\ record = NoRecord)))
          /\ platform' = platform /\ reported' = reported
        BY <1>6 DEF WindowsCrash
    <2>1. pc[p] \in {"complete", "record"} => StepAt(p) /\ lock = p
        BY <1>0, <1>1 DEF StepInv, LockInv, LockPcs, Replacing
    <2>2. record' = record \/ (lock = p /\ record' = Torn /\ mapped = None /\ (target = None => backup # None))
        BY <1>0, <1>1, <2>0, <2>1 DEF StepAt, RecordInv, NoRecord
    <2>3. RecordInv' /\ record' \in RecordType
        BY <1>0, <1>1, <1>2, <2>0, <2>2 DEF RecordInv, Torn, RecordType, Windows
    <2>4. image' = [image EXCEPT ![p] = None] /\ "off" \in Unstaged \ {"fetch"}
        BY <1>6 DEF WindowsCrash, Unstaged
    <2>5. image' \in [Process -> Image \cup {None}] /\ \A q \in Process \ {p} : image'[q] = image[q]
        BY <1>2, <2>4
    <2> QED BY <1>1, <1>3, <1>4, <1>6, <2>2, <2>3, <2>4, <2>5, LeaveStep DEF WindowsCrash, names
<1> QED BY <1>5, <1>6

LEMMA InvStep == Inv /\ [Next]_vars => Inv'
<1> SUFFICES ASSUME Inv, [Next]_vars PROVE Inv'
    OBVIOUS
<1>1. ASSUME NEW v \in Release, Publish(v), UNCHANGED <<unixVars, windowsVars>> PROVE Inv'
    BY <1>1, PublishStep
<1>2. ASSUME NEW p \in Process, CommonNext(p) PROVE Inv'
    BY <1>2, CommonStep
<1>3. ASSUME NEW p \in Process, UnixNext(p), UNCHANGED windowsVars PROVE Inv'
    BY <1>3, UnixStep
<1>4. ASSUME NEW p \in Process, WindowsNext(p), UNCHANGED unixVars PROVE Inv'
    BY <1>4, SweepStep, ReconcileStep, PreserveStep, InstallStep, CloseStep DEF WindowsNext
<1>5. ASSUME UNCHANGED vars PROVE Inv'
    <2> USE <1>5 DEF vars, common, unixVars, windowsVars
    <2>1. TypeOK' /\ StageInv' /\ ImageInv' /\ UnixInv' /\ LockInv'
        BY DEF Inv, TypeOK, StageInv, ImageInv, UnixInv, LockInv, Good, Used, Unix, Windows
    <2>2. StageApart' /\ RecordInv' /\ StepInv' /\ PrivilegesReturned'
        BY DEF Inv, StageApart, RecordInv, StepInv, StepAt, PrivilegesReturned, Windows, Prepared
    <2> QED BY <2>1, <2>2 DEF Inv
<1> QED BY <1>1, <1>2, <1>3, <1>4, <1>5 DEF Next

LEMMA Invariance == Spec => []Inv
<1> QED BY InvInit, InvStep, PTL DEF Spec

(***************************************************************************)
(* The theorems.                                                           *)
(***************************************************************************)
\* Every variable always holds a value of its kind, on every platform.
THEOREM UpdateTypeCorrect == Spec => []TypeOK
<1>1. Inv => TypeOK
    BY DEF Inv
<1> QED BY <1>1, Invariance, PTL

\* Whatever is under the canonical name was authenticated and carries the
\* original's permissions: copyAndVerifyDigest and the checks before every
\* rename of replaceExecutable, rollback and recovery suffice for that.
THEOREM InstalledIsAuthentic == Spec => []InstalledAuthentic
<1>1. Inv => InstalledAuthentic
    BY DEF Inv, ImageInv, Good, InstalledAuthentic
<1> QED BY <1>1, Invariance, PTL

\* No process goes on with its command while it has the backup privileges
\* (windowsReplacementPrivilegeScope).
THEOREM NoPrivilegeKept == Spec => []PrivilegesReturned
<1>1. Inv => PrivilegesReturned
    BY DEF Inv
<1> QED BY <1>1, Invariance, PTL

\* At every moment, whatever died or failed before, an executable that is
\* missing can be restored from an authenticated original, and backup and
\* displaced image belong to the record beside them.
THEOREM RecoveryIsSound == Spec => []RecoverySound
<1>1. ASSUME Inv PROVE OriginalRetained
    <2> SUFFICES ASSUME target = None
                 PROVE  IF Windows
                        THEN /\ backup # None /\ backup \in protected
                             /\ record # NoRecord
                             /\ record.state = "prepared" => record.original = backup
                        ELSE \E i \in protected : orphans[i] > 0 \/ \E p \in Process : rollback[p] = i
        BY DEF OriginalRetained
    <2>1. CASE Windows
        BY <1>1, <2>1 DEF Inv, RecordInv, ImageInv, Good, NoRecord
    <2>2. CASE ~Windows
        <3>1. \/ \E i \in protected : orphans[i] > 0
              \/ \E p \in Process : pc[p] = "restore"
            BY <1>1, <2>2 DEF Inv, UnixInv, Unix, Windows
        <3>2. \A p \in Process : pc[p] = "restore" => rollback[p] \in protected
            BY <1>1, <2>2 DEF Inv, UnixInv, Unix, Windows, ImageInv, Good
        <3> QED BY <2>2, <3>1, <3>2
    <2> QED BY <2>1, <2>2
<1>2. Inv => EvidenceOwned
    BY DEF Inv, RecordInv, EvidenceOwned, NoRecord
<1>3. Inv => RecoverySound
    BY <1>1, <1>2 DEF RecoverySound
<1> QED BY <1>3, Invariance, PTL

\* A replacement reported as installed leaves the canonical name only as the
\* recorded original of the next one (Windows): neither a rollback nor a
\* recovery by a later launch undoes it.
THEOREM InstalledNeverUndone == Spec => InstalledStays
<1> DEFINE Stays == Windows /\ target \in reported /\ target' # target
                        => record.state = "prepared" /\ record.original = target /\ backup' = target
<1>1. ASSUME Inv, [Next]_vars PROVE [Stays]_vars
    <2>0. TypeOK /\ ImageInv /\ RecordInv /\ StepInv
        BY <1>1 DEF Inv
    <2> SUFFICES ASSUME Next, Windows, target \in reported, target' # target
                 PROVE  record.state = "prepared" /\ record.original = target /\ backup' = target
        BY <1>1
    <2>1. PICK p \in Process : WindowsNext(p)
        BY <1>1 DEF Next, Publish, CommonNext, Launch, SkipAuto, AutoUpdate, RunUpdate, Download, ReviewMajor,
                    Select, DownloadVersionBeforeReplace, Exit, UnixNext, UnixCleanup, UnixAuthenticate,
                    UnixBindByLink, UnixBindByCopy, UnixInspect, UnixRetain, UnixCommit, UnixCheck, UnixRecheck,
                    UnixDisplace, UnixRestore, UnixCrash, Unix, Windows
    <2>2. StepAt(p) /\ target # None
        BY <2>0, ExecutableAssumption DEF StepInv, TypeOK, Image
    <2>3. CASE WindowsPreserve(p)
        BY <2>2, <2>3 DEF WindowsPreserve, At, StepAt, Record
    <2>4. CASE WindowsRestore(p) \/ WindowsRestoreMapped(p) \/ WindowsInstall(p)
        BY <2>2, <2>4 DEF WindowsRestore, WindowsRestoreMapped, WindowsInstall, At, StepAt
    <2>5. CASE WindowsLinkOver(p) \/ WindowsDisplace(p)
        <3>1. Prepared /\ backup # None /\ target # backup
            BY <2>2, <2>5 DEF WindowsLinkOver, WindowsDisplace, At, StepAt
        <3>2. target = record.installed /\ record.installed \notin reported
            BY <2>0, <2>2, <3>1 DEF RecordInv, Prepared
        <3> QED BY <3>2
    <2>6. CASE WindowsRollback(p)
        <3>1. pc[p] = "rollback" /\ target = staged[p]
            BY <2>2, <2>6 DEF WindowsRollback, At, StepAt
        <3> QED BY <2>0, <2>2, <3>1 DEF ImageInv
    <2>7. UNCHANGED target \/ WindowsPreserve(p) \/ WindowsRestore(p) \/ WindowsRestoreMapped(p)
              \/ WindowsInstall(p) \/ WindowsLinkOver(p) \/ WindowsDisplace(p) \/ WindowsRollback(p)
        BY <2>1 DEF WindowsNext, WindowsCleanup, WindowsSweep, WindowsDropBackup, WindowsUnrecord,
                    WindowsUnlinkBackup, WindowsDropMapped, WindowsLock, WindowsPrepare, WindowsRecord,
                    WindowsProtect, WindowsComplete, WindowsForget, WindowsClose, WindowsCrash, names
    <2> QED BY <2>3, <2>4, <2>5, <2>6, <2>7
<1>2. Inv /\ [Next]_vars => [Stays]_vars
    BY <1>1
<1> QED BY <1>2, Invariance, PTL DEF Spec, InstalledStays

\* A startup dispatches its command only when nothing is left to recover and
\* it has given the lock back.
THEOREM DispatchIsAfterRecovery == Spec => DispatchAfterRecovery
<1> DEFINE Clean(p) == pc[p] # "ready" /\ pc'[p] = "ready" =>
                           record'.state \notin {"prepared", "torn"} /\ lock' # p
<1>1. ASSUME Inv, [Next]_vars PROVE [\A p \in Process : Clean(p)]_vars
    <2>0. TypeOK /\ RecordInv /\ StepInv /\ LockInv /\ UnixInv
        BY <1>1 DEF Inv
    <2> SUFFICES ASSUME Next, NEW p \in Process, pc[p] # "ready", pc'[p] = "ready"
                 PROVE  record'.state \notin {"prepared", "torn"} /\ lock' # p
        BY <1>1
    <2>1. lock' # p
        <3>1. Inv'
            BY <1>1, InvStep
        <3>2. lock' = p => pc'[p] \in LockPcs \cup {"close"}
            BY <3>1 DEF Inv, LockInv
        <3> QED BY <3>2 DEF LockPcs, Sweeping, Replacing, Shared
    <2>2. \A q \in Process : \A l : Goto(q, l) => q = p /\ l = "ready"
        BY <2>0 DEF Goto, TypeOK
    <2>3. CASE Unix'
        <3>1. UnixInv'
            BY <1>1, InvStep DEF Inv
        <3> QED BY <2>1, <2>3, <3>1 DEF UnixInv, NoRecord
    <2>4. CASE ~Unix'
        <3>1. \A q \in Process : ~CommonNext(q)
            BY <2>2 DEF CommonNext, Launch, SkipAuto, AutoUpdate, RunUpdate, Download, ReviewMajor, Select,
                        DownloadVersionBeforeReplace, Exit, Updated
        <3>2. \A q \in Process : ~UnixNext(q)
            BY <2>4 DEF UnixNext, UnixCleanup, UnixAuthenticate, UnixAbort, UnixBindByLink, UnixBindByCopy,
                        UnixInspect, UnixRetain, UnixCommit, UnixCheck, UnixRecheck,
                        UnixDisplace, UnixRestore, UnixCrash, Unix
        <3>3. \A v : ~Publish(v)
            BY DEF Publish
        <3>4. PICK q \in Process : WindowsNext(q)
            BY <3>1, <3>2, <3>3 DEF Next
        <3>5. /\ ~Blocked(q) /\ ~Failed(q)
              /\ \A l : Step(q, l) => q = p /\ l = "ready"
            BY <2>2 DEF Blocked, Failed, Continue, Step
        <3>6. \A l : Continue(q, l) => q = p /\ l = "ready"
            BY <3>5 DEF Continue
        <3>7. CASE WindowsCleanup(q)
            <4>1. record' = NoRecord
                BY <3>5, <3>6, <3>7 DEF WindowsCleanup, RecoveryRequired, names
            <4> QED BY <2>1, <4>1 DEF NoRecord
        <3>8. CASE WindowsSweep(q)
            <4>1. (\E named \in BOOLEAN : NextSweep(named) = "nothing") /\ UNCHANGED record
                BY <2>0, <3>5, <3>6, <3>8, SweepNothing DEF WindowsSweep, names
            <4>2. record' = NoRecord
                BY <2>0, <4>1, SweepNothing
            <4> QED BY <2>1, <4>2 DEF NoRecord
        <3>9. CASE WindowsDropBackup(q)
            <4>1. record.state = "completed" /\ UNCHANGED record
                BY <2>0, <3>9 DEF WindowsDropBackup, At, StepInv, StepAt
            <4> QED BY <2>1, <4>1
        <3>10. CASE WindowsUnrecord(q)
            <4>1. record' = NoRecord \/ (record.state = "completed" /\ UNCHANGED record)
                BY <3>5, <3>10 DEF WindowsUnrecord
            <4> QED BY <2>1, <4>1 DEF NoRecord
        <3>11. ~(\/ WindowsRestore(q) \/ WindowsLinkOver(q) \/ WindowsUnlinkBackup(q) \/ WindowsDisplace(q)
                 \/ WindowsRestoreMapped(q) \/ WindowsDropMapped(q) \/ WindowsLock(q) \/ WindowsPrepare(q)
                 \/ WindowsRecord(q) \/ WindowsPreserve(q) \/ WindowsInstall(q) \/ WindowsProtect(q))
            BY <3>5, <3>6 DEF WindowsRestore, WindowsLinkOver, WindowsUnlinkBackup, WindowsDisplace,
                   WindowsRestoreMapped, WindowsDropMapped, WindowsLock, WindowsPrepare, WindowsRecord,
                   WindowsPreserve, WindowsInstall, WindowsProtect
        <3>12. ~(WindowsComplete(q) \/ WindowsRollback(q) \/ WindowsForget(q) \/ WindowsClose(q) \/ WindowsCrash(q))
            BY <2>2, <3>5, <3>6 DEF WindowsComplete, WindowsRollback, WindowsRetainEvidence, WindowsForget,
                   WindowsClose, WindowsCrash, Updated
        <3> QED BY <3>4, <3>7, <3>8, <3>9, <3>10, <3>11, <3>12 DEF WindowsNext
    <2> QED BY <2>3, <2>4
<1>2. Inv /\ [Next]_vars => [\A p \in Process : Clean(p)]_vars
    BY <1>1
<1> QED BY <1>2, Invariance, PTL DEF Spec, DispatchAfterRecovery
=============================================================================
