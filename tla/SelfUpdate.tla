----------------------------- MODULE SelfUpdate -----------------------------
(***************************************************************************)
(* One installation of ssm that updates itself: any number of processes    *)
(* launch, reconcile an earlier replacement, update and die, on a platform *)
(* that is fixed for the whole behaviour.                                  *)
(***************************************************************************)
EXTENDS UnixReplace, WindowsReplace

vars == <<common, unixVars, windowsVars>>

Init == ExecutableInit /\ UnixInit /\ WindowsInit

\* The steps of a process up to the replacement are the same everywhere.
CommonNext(p) ==
    /\ \/ Launch(p) \/ SkipAuto(p) \/ AutoUpdate(p) \/ RunUpdate(p)
       \/ DownloadVersionBeforeReplace(p) \/ Exit(p)
    /\ UNCHANGED <<unixVars, windowsVars>>

Next ==
    \/ \E v \in Release : Publish(v) /\ UNCHANGED <<unixVars, windowsVars>>
    \/ \E p \in Process :
           \/ CommonNext(p)
           \/ UnixNext(p) /\ UNCHANGED windowsVars
           \/ WindowsNext(p) /\ UNCHANGED unixVars

\* A started process keeps running, and somebody keeps starting ssm.  Nothing
\* makes a process update, and nothing makes it die.
Progress(p) ==
    \/ (Launch(p) \/ SkipAuto(p) \/ DownloadVersionBeforeReplace(p) \/ Exit(p)) /\ UNCHANGED <<unixVars, windowsVars>>
    \/ UnixNext(p) /\ UNCHANGED <<windowsVars, crashes>>
    \/ WindowsNext(p) /\ UNCHANGED <<unixVars, crashes>>

Fairness == \A p \in Process : WF_vars(Progress(p))

Spec == Init /\ [][Next]_vars
FairSpec == Spec /\ Fairness

-----------------------------------------------------------------------------
ProgramCounter ==
    {"off", "start", "ready", "command", "done", "fetch", "staged",
     "bind", "inspect", "retain", "commit", "check", "recheck", "displace", "restore",
     "sweep", "dropBackup", "unrecord", "linkOver", "unlinkBackup",
     "restoreMapped", "dropMapped", "prepare", "record", "preserve", "install", "protect",
     "complete", "rollback", "forget", "close"}

\* Every variable holds a value of its kind.
TypeOK ==
    /\ platform \in Platforms
    /\ published \subseteq Release
    /\ version \in [Image -> Release \cup {Installed, <<0, 0>>}]
    /\ genuine \subseteq Image
    /\ protected \subseteq Image
    /\ reported \subseteq Image
    /\ target \in Image \cup {None}
    /\ pc \in [Process -> ProgramCounter]
    /\ image \in [Process -> Image \cup {None}]
    /\ kind \in [Process -> {"auto", "ordinary", "major"}]
    /\ choice \in [Process -> Release \cup {None}]
    /\ staged \in [Process -> Image \cup {None}]
    /\ crashes \in 0 .. MaxCrashes
    /\ faults \in 0 .. MaxFaults
    /\ rollback \in [Process -> Image \cup {None}]
    /\ seen \in [Process -> (Image \cup {None}) \X Nat]
    /\ orphans \in [Image -> Nat]
    /\ backup \in Image \cup {None}
    /\ mapped \in Image \cup {None}
    /\ record \in [state : {"none", "torn", "prepared", "completed"},
                   original : Image, installed : Image, tier : {"ordinary", "full"}]
    /\ lock \in Process \cup {None}
    /\ privileged \subseteq Process
    /\ resume \in [Process -> {"ready", "prepare"}]

\* Whatever dies or fails, and whenever: while nothing is installed under the
\* canonical name, an authenticated original is still on disk, as the backup a
\* record answers for (replace_windows.go) or as a retained link
\* (replace_commit_copy_unix.go).
OriginalRetained ==
    target = None =>
        IF Windows
        THEN /\ backup # None /\ backup \in protected
             /\ record # NoRecord
             /\ record.state = "prepared" => record.original = backup
        ELSE \E i \in protected : orphans[i] > 0 \/ \E p \in Process : rollback[p] = i

\* Whatever is under the canonical name has the bytes of its release and the
\* original's permissions, at every moment: both are checked before a move.
InstalledAuthentic == target # None => target \in genuine \cap protected

\* A process never goes on with its command, and never starts a replacement,
\* with the backup privileges of a replacement or of a recovery that failed
\* half way (windowsReplacementPrivilegeScope, windowsSecurityBindingVerifier).
PrivilegesReturned ==
    \A p \in privileged :
        pc[p] \in {"record", "preserve", "install", "protect", "rollback", "forget", "close",
                   "restore", "linkOver", "unlinkBackup", "displace", "restoreMapped",
                   "dropMapped", "unrecord"}

\* No step leaves a backup or a displaced image behind that no record owns:
\* cleanup refuses to touch such a file and every later launch would fail
\* (cleanupCompletedWindowsRollbackUnderLockWithPolicy).
EvidenceOwned ==
    /\ backup # None => record # NoRecord
    /\ mapped # None => record.state = "prepared" /\ record.installed = mapped

\* A replacement that was reported as installed is never undone by a recovery
\* or a rollback: it leaves the canonical name only as the original of the
\* next recorded replacement (Windows).
InstalledStays ==
    [][Windows /\ target \in reported /\ target' # target
           => record.state = "prepared" /\ record.original = target /\ backup' = target]_vars

\* A startup dispatches a command only when no replacement is under recovery
\* (CleanupPreviousExecutable and main: "Callers must block command dispatch").
DispatchAfterRecovery ==
    [][\A p \in Process :
           pc[p] # "ready" /\ pc'[p] = "ready" =>
               record'.state \notin {"prepared", "torn"} /\ lock' # p]_vars

\* Evidence that no launch can ever reconcile: the documentation sends the
\* user to reviewed recovery.
Unusable ==
    \/ record.state = "torn"
    \/ record.state = "completed" /\ target # record.installed

\* No interrupted replacement holds the installation up; without a file under
\* the canonical name there is nothing to launch.
Settled == ~RecoveryRequired \/ record.state = "completed" \/ Unusable \/ target = None

\* A launch reads the evidence and cannot restore the original: it is not
\* elevated and the record is of the full tier, or it was started through a
\* link and finds another file than itself under the canonical name.
Reads(p) == At(p, "sweep") /\ pc'[p] # "sweep"
Hindered(p) == (NeedsPrivileges /\ p \notin privileged') \/ pc'[p] = "linkOver"

\* With launches going on, the evidence of an interrupted replacement does not
\* block the installation for ever, unless in the end every launch that reads
\* it is one of those that cannot restore: it takes one elevated launch by the
\* installed name at a time, never the help of another process, a second
\* crash, or a repair by hand (recoverPreparedWindowsReplacement).
RecoveryCompletes ==
    Windows =>
        \/ []<>Settled
        \/ /\ <>[][\A p \in Process : Reads(p) => Hindered(p)]_vars
           /\ []<><<\E p \in Process : Reads(p)>>_vars

\* Whatever crashes, fails or runs beside it, an update can always be undone,
\* and its evidence is never another update's: the original executable is
\* retained until a verified one replaced it (OriginalRetained), and every
\* record on disk belongs to the files it names (EvidenceOwned).
RecoverySound == OriginalRetained /\ EvidenceOwned
=============================================================================
