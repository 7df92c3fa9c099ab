--------------------------- MODULE WindowsReplace ---------------------------
(***************************************************************************)
(* Replacing the executable on Windows (replace_windows.go): the running   *)
(* image cannot be overwritten or deleted, so the original is moved to     *)
(* ".X.old" first.  A record ".X.old.state" written before the first move  *)
(* says who owns the backup; every launch reconciles record and backup     *)
(* under the update lock before it dispatches a command.                   *)
(***************************************************************************)
EXTENDS Executable

VARIABLES
    backup,   \* ".X.old": the original image on its way out
    mapped,   \* ".X.mapped": an installed image displaced while it was running
    record,   \* ".X.old.state": NoRecord, Torn, or who moved what
    lock,     \* ".X.update.lock": the process that holds it
    privileged, \* processes whose thread token has the backup privileges
    resume    \* where the reconciliation returns to: startup or replacement

windowsVars == <<backup, mapped, record, lock, privileged, resume>>

NoRecord == [state |-> "none", original |-> 1, installed |-> 1, tier |-> "ordinary"]
\* A record the checksum rejects: created or rewritten only in part.
Torn == [state |-> "torn", original |-> 1, installed |-> 1, tier |-> "ordinary"]
\* The record also binds a descriptor: its ordinary part, or in the full tier
\* all of it, which only a process with the backup privileges can read back.
Record(s, o, i, t) == [state |-> s, original |-> o, installed |-> i, tier |-> t]

WindowsInit ==
    /\ backup = None
    /\ mapped = None
    /\ record = NoRecord
    /\ lock = None
    /\ privileged = {}
    /\ resume = [p \in Process |-> "ready"]

Windows == platform = "windows"

\* windowsReplacementRecoveryRequired: evidence of a replacement is present.
RecoveryRequired == record # NoRecord \/ backup # None

\* The hard links an image has among the names this code uses.
WindowsLinks(i) ==
    Cardinality({n \in {<<"target", target>>, <<"backup", backup>>, <<"mapped", mapped>>} : n[2] = i})

Unlock(p) == lock' = IF lock = p THEN None ELSE lock

\* The frames of the steps: what no step but the named ones changes.
Step(p, l) ==
    /\ Goto(p, l)
    /\ UNCHANGED <<platform, published, version, genuine, reported, image, kind,
                   choice, staged, crashes>>
Continue(p, l) == Step(p, l) /\ UNCHANGED <<protected, lock, privileged, resume>>

\* The process ends: an error that asks for recovery or says the evidence
\* cannot be authenticated, or the privilege fail-safe.
Blocked(p) ==
    /\ Unlock(p)
    /\ Goto(p, "off")
    /\ image' = [image EXCEPT ![p] = None]
    /\ staged' = [staged EXCEPT ![p] = None]
    /\ privileged' = privileged \ {p}
    /\ UNCHANGED <<platform, published, version, genuine, protected, reported, kind,
                   choice, crashes, resume>>

\* The reconciliation returns nil, its verifier closed: startup dispatches, a
\* replacement goes on.
Swept(p) ==
    /\ Step(p, resume[p])
    /\ IF resume[p] = "ready" THEN Unlock(p) ELSE UNCHANGED lock
    /\ privileged' = privileged \ {p}
    /\ UNCHANGED <<protected, resume>>

\* An ordinary update failure: the handles are closed and the process goes on.
Failed(p) == Continue(p, "close")

names == <<target, backup, mapped, record>>

-----------------------------------------------------------------------------
(* Startup, and the reconciliation of what an earlier process left.        *)

\* cleanupPreviousExecutable: only evidence makes it take the lock, and a
\* lock that is held refuses the launch.
WindowsCleanup(p) ==
    /\ Windows /\ At(p, "start")
    /\ \/ /\ ~RecoveryRequired
          /\ Continue(p, "ready")
       \/ /\ RecoveryRequired /\ lock = None
          /\ Step(p, "sweep")
          /\ lock' = p
          /\ resume' = [resume EXCEPT ![p] = "ready"]
          /\ UNCHANGED <<protected, privileged>>
       \/ RecoveryRequired /\ lock # None /\ Blocked(p)
    /\ UNCHANGED <<names, faults>>

\* requireWindowsReplacementHandleDigest and the identity checks: the object
\* is the recorded one and has the recorded bytes.
SameObject(i, recorded) == i = recorded /\ i \in genuine

\* windowsSecurityBindingVerifier.verify: the descriptor is the one that was
\* bound.  What the verifier needs to read it at all is in WindowsSweep.
BindingVerifies(i) == i \in protected

\* A record of the right size, version and checksum.
Decodes == record # Torn

\* MUTANT of CompletedSweep: the record goes before the backup it answers for.
CompletedSweepRecordFirst ==
    IF target # record.installed THEN "blocked" ELSE "unrecord"

\* What the reconciliation does next with a completed record: the installed
\* image has to be canonical and the backup has to be the recorded original.
CompletedSweep ==
    CASE target # record.installed -> "blocked"
      [] target = record.installed /\ backup = None -> "unrecord"
      [] OTHER -> IF SameObject(backup, record.original) THEN "dropBackup" ELSE "blocked"

\* MUTANT of PreparedSweep: an original that is canonical again, with only the
\* record left, is not recognised.
PreparedSweepNeedsBackup(named) ==
    CASE backup = None -> "blocked"
      [] backup # None /\ WindowsLinks(backup) = 2 -> "unlinkBackup"
      [] OTHER -> IF target = None THEN "restore"
                  ELSE IF named THEN "displace" ELSE "linkOver"

\* recoverPreparedWindowsReplacement: what it does next with a prepared record.
\* windowsReplacementHandleIsCurrentExecutable opens the path the process was
\* started by: for the installed name that is the file now under the canonical
\* name, whatever the process runs from; for a link to it, the link.
PreparedSweep(named) ==
    CASE backup = None ->
             IF SameObject(target, record.original) /\ BindingVerifies(target)
             THEN "dropMapped" ELSE "blocked"
      [] backup # None /\ ~(SameObject(backup, record.original) /\ BindingVerifies(backup)) ->
             "blocked"
      [] OTHER ->
             IF WindowsLinks(backup) = 2
             THEN IF target = record.original THEN "unlinkBackup" ELSE "blocked"
             ELSE IF target = None THEN "restore"
             ELSE IF ~named THEN "linkOver"
             ELSE IF mapped = None THEN "displace" ELSE "blocked"

\* cleanupCompletedWindowsRollbackUnderLockWithPolicy reads the record and the
\* backup: without a record there must be no backup, and a record that cannot
\* be decoded stops everything.
NextSweep(named) ==
    CASE record = NoRecord -> IF backup = None THEN "nothing" ELSE "blocked"
      [] ~Decodes -> "blocked"
      [] record.state = "completed" -> CompletedSweep
      [] record.state = "prepared" -> PreparedSweep(named)

\* newWindowsSecurityBindingVerifier: a full-tier binding is verified with the
\* backup privileges, which the process then holds until the recovery ends.
NeedsPrivileges == record.state = "prepared" /\ record.tier = "full"

\* One launch reads the evidence.  A launch that is not elevated cannot verify
\* a full-tier record, and is refused before it has looked at any image.
WindowsSweep(p) ==
    /\ Windows /\ At(p, "sweep")
    /\ \E named \in BOOLEAN :
           LET next == NextSweep(named) IN
           \/ next = "nothing" /\ Swept(p)
           \/ next = "blocked" /\ Blocked(p)
           \/ /\ next \notin {"nothing", "blocked"}
              /\ Step(p, next)
              /\ privileged' = IF NeedsPrivileges THEN privileged \cup {p} ELSE privileged
              /\ UNCHANGED <<protected, lock, resume>>
           \/ NeedsPrivileges /\ Blocked(p)
    /\ UNCHANGED <<names, faults>>

\* The committed update's backup is deleted, unless a process still runs from
\* it; a refusal leaves record and backup for a later launch.
WindowsDropBackup(p) ==
    /\ Windows /\ At(p, "dropBackup")
    /\ \/ /\ ~Running(backup)
          /\ backup' = None
          /\ Continue(p, "unrecord")
          /\ NoFault
       \/ /\ IF Running(backup) THEN NoFault ELSE Fault
          /\ Swept(p)
          /\ UNCHANGED backup
    /\ UNCHANGED <<target, mapped, record>>

\* verifier.close and record.remove: at the end of a recovery a refusal is an
\* error (a token that cannot be restored even ends the process), after a
\* completed replacement it is ignored.
WindowsUnrecord(p) ==
    /\ Windows /\ At(p, "unrecord")
    /\ \/ /\ record' = NoRecord
          /\ Swept(p)
          /\ NoFault
       \/ /\ Fault
          /\ IF record.state = "completed" THEN Swept(p) ELSE Blocked(p)
          /\ UNCHANGED record
    /\ UNCHANGED <<target, backup, mapped>>

\* The canonical name is vacant: the original handle is renamed to it.
WindowsRestore(p) ==
    /\ Windows /\ At(p, "restore")
    /\ \/ /\ target' = backup
          /\ backup' = None
          /\ Continue(p, "dropMapped")
          /\ NoFault
       \/ /\ Fault
          /\ Blocked(p)
          /\ UNCHANGED <<target, backup>>
    /\ UNCHANGED <<mapped, record>>

\* Another image is canonical: a link to the original replaces it, which
\* Windows refuses while a process runs from that image.
WindowsLinkOver(p) ==
    /\ Windows /\ At(p, "linkOver")
    /\ \/ /\ ~Running(target)
          /\ target' = backup
          /\ Continue(p, "unlinkBackup")
          /\ NoFault
       \/ /\ IF Running(target) THEN NoFault ELSE Fault
          /\ Blocked(p)
          /\ UNCHANGED target
    /\ UNCHANGED <<backup, mapped, record>>

\* completeLinkedRecovery: the second name of the restored original goes.
WindowsUnlinkBackup(p) ==
    /\ Windows /\ At(p, "unlinkBackup")
    /\ \/ /\ backup' = None
          /\ Continue(p, "dropMapped")
          /\ NoFault
       \/ /\ Fault
          /\ Blocked(p)
          /\ UNCHANGED backup
    /\ UNCHANGED <<target, mapped, record>>

\* restoreMappedWindowsReplacement: this process itself runs from the image at
\* the canonical name, which is moved to the reserved sibling first ...
WindowsDisplace(p) ==
    /\ Windows /\ At(p, "displace")
    /\ \/ /\ mapped' = target
          /\ target' = None
          /\ Continue(p, "restoreMapped")
          /\ NoFault
       \/ /\ Fault
          /\ Blocked(p)
          /\ UNCHANGED <<mapped, target>>
    /\ UNCHANGED <<backup, record>>

\* MUTANT of WindowsRestoreMapped: the startup that restored the original
\* dispatches its command at once.
WindowsRestoreMappedDispatches(p) ==
    /\ Windows /\ At(p, "restoreMapped")
    /\ target' = backup
    /\ backup' = None
    /\ NoFault
    /\ Swept(p)
    /\ UNCHANGED <<mapped, record>>

\* ... and then the original is renamed back.  The record stays prepared and
\* this startup does not dispatch: the next launch removes the sibling.
WindowsRestoreMapped(p) ==
    /\ Windows /\ At(p, "restoreMapped")
    /\ \/ /\ target' = backup
          /\ backup' = None
          /\ NoFault
       \/ Fault /\ UNCHANGED <<target, backup>>
    /\ Blocked(p)
    /\ UNCHANGED <<mapped, record>>

\* cleanupDisplacedMappedWindowsReplacement: the sibling must be the recorded
\* installed image, and nobody may run from it any more.
WindowsDropMapped(p) ==
    /\ Windows /\ At(p, "dropMapped")
    /\ \/ /\ mapped = None \/ (mapped = record.installed /\ ~Running(mapped))
          /\ mapped' = None
          /\ Continue(p, "unrecord")
       \/ /\ mapped # None
          /\ mapped # record.installed \/ Running(mapped)
          /\ Blocked(p)
          /\ UNCHANGED mapped
    /\ UNCHANGED <<target, backup, record, faults>>

-----------------------------------------------------------------------------
(* replaceExecutable, from the lock to the committed record.               *)

\* acquireWindowsReplacementLock; a previous replacement is reconciled first.
WindowsLock(p) ==
    /\ Windows /\ At(p, "staged")
    /\ \/ /\ lock = None
          /\ lock' = p
          /\ resume' = [resume EXCEPT ![p] = "prepare"]
          /\ Step(p, "sweep")
          /\ UNCHANGED <<protected, privileged>>
       \/ lock # None /\ Failed(p)
    /\ UNCHANGED <<names, faults>>

\* prepareWindowsReplacementSecurity: with the backup privileges the complete
\* descriptor of the original is put on the stage, without them its ordinary
\* part; either way it is verified before anything moves.  The digests of the
\* stage and of the original are taken here too.
WindowsPrepare(p) ==
    /\ Windows /\ At(p, "prepare")
    /\ \/ /\ target # None /\ staged[p] \in genuine
          /\ \E full \in BOOLEAN :
                 privileged' = IF full THEN privileged \cup {p} ELSE privileged
          /\ protected' = protected \cup {staged[p]}
          /\ Step(p, "record")
          /\ NoFault
          /\ UNCHANGED <<lock, resume>>
       \/ Fault /\ Failed(p)
    /\ UNCHANGED names

\* createWindowsReplacementRecord: a completed replacement whose cleanup was
\* refused still has its record, and refuses this one.  A record that is
\* created but cannot be validated or written may stay behind unreadable.
WindowsRecord(p) ==
    /\ Windows /\ At(p, "record")
    /\ \/ /\ record = NoRecord
          /\ record' = Record("prepared", target, staged[p],
                              IF p \in privileged THEN "full" ELSE "ordinary")
          /\ Continue(p, "preserve")
          /\ NoFault
       \/ /\ record # NoRecord
          /\ Failed(p)
          /\ NoFault
          /\ UNCHANGED record
       \/ /\ record = NoRecord
          /\ Fault
          /\ record' \in {NoRecord, Torn}
          /\ Failed(p)
    /\ UNCHANGED <<target, backup, mapped>>

\* The original is renamed to the backup name.  A refused rename leaves it
\* canonical and the record is removed again.
WindowsPreserve(p) ==
    /\ Windows /\ At(p, "preserve")
    /\ \/ /\ backup = None
          /\ backup' = target
          /\ target' = None
          /\ Continue(p, "install")
          /\ NoFault
          /\ UNCHANGED record
       \/ /\ Fault
          /\ record' = NoRecord
          /\ Failed(p)
          /\ UNCHANGED <<backup, target>>
    /\ UNCHANGED mapped

\* The stage is renamed to the canonical name.
WindowsInstall(p) ==
    /\ Windows /\ At(p, "install")
    /\ \/ target' = staged[p] /\ Continue(p, "protect") /\ NoFault
       \/ Fault /\ Continue(p, "rollback") /\ UNCHANGED target
    /\ UNCHANGED <<backup, mapped, record>>

\* compareWindowsSecurityDescriptors: owner, group and DACL, and in the full
\* tier the rest of the descriptor, are the original's.
DescriptorPreserved(i) == i \in protected

\* security.apply and security.verify on the installed image, and then
\* restorePrivileges: the thread gets its own token back before the commit.
WindowsProtect(p) ==
    /\ Windows /\ At(p, "protect")
    /\ \/ /\ DescriptorPreserved(staged[p])
          /\ privileged' = privileged \ {p}
          /\ Step(p, "complete")
          /\ NoFault
          /\ UNCHANGED <<protected, lock, resume>>
       \/ Fault /\ Continue(p, "rollback")
    /\ UNCHANGED names

\* MUTANT of WindowsComplete: success is reported without the mark.
WindowsCompleteUnmarked(p) ==
    /\ Windows /\ At(p, "complete")
    /\ reported' = reported \cup {staged[p]}
    /\ staged' = [staged EXCEPT ![p] = None]
    /\ Goto(p, Updated(p))
    /\ Unlock(p)
    /\ NoFault
    /\ UNCHANGED <<platform, published, version, genuine, protected, image, kind,
                   choice, crashes, privileged, resume, names>>

\* record.markCompleted: the commit point.  A write that fails may have
\* reached the disk, in part or in full, when the rollback begins.
WindowsComplete(p) ==
    /\ Windows /\ At(p, "complete")
    /\ \/ /\ record' = [record EXCEPT !.state = "completed"]
          /\ reported' = reported \cup {staged[p]}
          /\ staged' = [staged EXCEPT ![p] = None]
          /\ Goto(p, Updated(p))
          /\ Unlock(p)
          /\ NoFault
          /\ UNCHANGED <<platform, published, version, genuine, protected, image, kind,
                         choice, crashes, privileged, resume>>
       \/ /\ Fault
          /\ record' \in {record, Torn, [record EXCEPT !.state = "completed"]}
          /\ Continue(p, "rollback")
    /\ UNCHANGED <<target, backup, mapped>>

\* retainWindowsRollbackAuthenticationEvidence: a rollback that cannot be
\* authenticated stops with the original at the backup name, either because
\* it never moved or because it was moved back there.
WindowsRetainEvidence(p) ==
    /\ target' \in {target, None}
    /\ target' # target => ~Running(target)
    /\ Blocked(p)
    /\ UNCHANGED backup

\* rollbackWindowsReplacement: the original is renamed back over the canonical
\* name, unless a process runs from the image there.
WindowsRollback(p) ==
    /\ Windows /\ At(p, "rollback")
    /\ \/ /\ target = None \/ ~Running(target)
          /\ target' = backup
          /\ backup' = None
          /\ Continue(p, "forget")
          /\ NoFault
       \/ /\ target # None /\ Running(target)
          /\ Blocked(p)
          /\ NoFault
          /\ UNCHANGED <<target, backup>>
       \/ Fault /\ WindowsRetainEvidence(p)
    /\ UNCHANGED <<mapped, record>>

\* failAfterBackup: the record of the undone replacement is removed; a refusal
\* leaves it for the next launch.
WindowsForget(p) ==
    /\ Windows /\ At(p, "forget")
    /\ \/ record' = NoRecord /\ NoFault
       \/ Fault /\ UNCHANGED record
    /\ Failed(p)
    /\ UNCHANGED <<target, backup, mapped>>

\* MUTANT of WindowsClose: a token that cannot be restored is only reported.
WindowsCloseReportsToken(p) ==
    /\ Windows /\ At(p, "close")
    /\ Unlock(p)
    /\ \/ privileged' = privileged \ {p} /\ NoFault
       \/ Fault /\ UNCHANGED privileged
    /\ staged' = [staged EXCEPT ![p] = None]
    /\ Goto(p, Updated(p))
    /\ UNCHANGED <<platform, published, version, genuine, protected, reported, image,
                   kind, choice, crashes, resume, names>>

\* closeSecurity and the release of the lock after a failure.  The thread's
\* token is restored; when that fails the process is terminated on the spot.
WindowsClose(p) ==
    /\ Windows /\ At(p, "close")
    /\ \/ /\ Unlock(p)
          /\ privileged' = privileged \ {p}
          /\ staged' = [staged EXCEPT ![p] = None]
          /\ Goto(p, Updated(p))
          /\ NoFault
          /\ UNCHANGED <<platform, published, version, genuine, protected, reported,
                         image, kind, choice, crashes, resume>>
       \/ p \in privileged /\ Fault /\ Blocked(p)
    /\ UNCHANGED names

\* A process dies: the system releases its lock, and a record it was writing
\* may be left half written.
WindowsCrash(p) ==
    /\ Windows /\ ~At(p, "off")
    /\ crashes < MaxCrashes /\ crashes' = crashes + 1
    /\ record' \in {record} \cup
           (IF At(p, "complete") \/ (At(p, "record") /\ record = NoRecord)
            THEN {Torn} ELSE {})
    /\ Unlock(p)
    /\ image' = [image EXCEPT ![p] = None]
    /\ staged' = [staged EXCEPT ![p] = None]
    /\ privileged' = privileged \ {p}
    /\ Goto(p, "off")
    /\ UNCHANGED <<platform, published, version, genuine, protected, reported, kind,
                   choice, faults, target, backup, mapped, resume>>

WindowsNext(p) ==
    \/ WindowsCleanup(p) \/ WindowsSweep(p) \/ WindowsDropBackup(p)
    \/ WindowsUnrecord(p) \/ WindowsRestore(p) \/ WindowsLinkOver(p)
    \/ WindowsUnlinkBackup(p) \/ WindowsDisplace(p) \/ WindowsRestoreMapped(p)
    \/ WindowsDropMapped(p) \/ WindowsLock(p) \/ WindowsPrepare(p) \/ WindowsRecord(p)
    \/ WindowsPreserve(p) \/ WindowsInstall(p) \/ WindowsProtect(p)
    \/ WindowsComplete(p) \/ WindowsRollback(p) \/ WindowsForget(p) \/ WindowsClose(p)
    \/ WindowsCrash(p)
=============================================================================
