-------------------------- MODULE DirectoryTransfer --------------------------
(***************************************************************************)
(* Directory trees over tar (internal/ssh/dirsync.go, download_staging.go).*)
(* A download merges the remote tree into a copy of the local one and      *)
(* swaps the two; an upload extracts in place.  A tar runs at each end and *)
(* either may fail first.                                                  *)
(***************************************************************************)
EXTENDS TransferCore

Entry == 0 .. (Blocks + 1)      \* 0 was there before; Blocks + 1 is saved by the user
Remote == 1 .. Blocks

VARIABLES
    dirs,     \* the local tree, at first and now, its staging and backup copies, the remote tree; {} is absent;
              \* and the downloads that failed to remove a copy
    ends      \* the two tar processes of each transfer, and which end was heard first

dirVars == <<dirs, ends>>

DirInit ==
    /\ \E d \in {{}, {0}} :
           /\ d = {} => \E u \in Proc : Kind(u, {"getdir"})
           /\ dirs = [first |-> d, dest |-> d, tree |-> {},
                      stage |-> [u \in Proc |-> {}], back |-> [u \in Proc |-> {}], unremoved |-> {}]
    /\ ends = [u \in Proc |-> [remote |-> "none", local |-> "none", took |-> "none", existed |-> FALSE]]

Running(u, e) == ends[u][e] = "run"
End(u, e, how) == ends' = [ends EXCEPT ![u][e] = how]
BothRun(u) == [ends EXCEPT ![u].remote = "run", ![u].local = "run"]
Sent(u) == [proc EXCEPT ![u].sent = Append(@, NextBlock(u))]
NextEntry(u) == Len(proc[u].sent) + 1

-----------------------------------------------------------------------------
(* get                                                                     *)

\* newDirectoryDownloadStaging: the staging tree starts as a copy of the local one.
DirStage(u) ==
    /\ At(u, "start") /\ Kind(u, {"getdir"})
    /\ dirs' = [dirs EXCEPT !.stage[u] = dirs.dest]
    /\ \/ /\ ends' = [BothRun(u) EXCEPT ![u].existed = (dirs.dest # {})]
          /\ Step(u, "tar")
          /\ UNCHANGED faults
       \/ Fault /\ GiveUp(u, "dial") /\ UNCHANGED ends
    /\ UNCHANGED source

DirReceive(u) ==
    /\ At(u, "tar")
    /\ Up(u) /\ Running(u, "remote") /\ Running(u, "local") /\ ~AtEnd(u)
    /\ dirs' = [dirs EXCEPT !.stage[u] = @ \cup {NextEntry(u)}]
    /\ proc' = Sent(u)
    /\ UNCHANGED <<source, faults, ends>>

\* session.Wait: tar's exit status, or the loss of the session.
DirRemoteEnds(u) ==
    /\ At(u, "tar") /\ Running(u, "remote")
    /\ \/ Up(u) /\ AtEnd(u) /\ End(u, "remote", "ok") /\ UNCHANGED faults
       \/ Up(u) /\ Fault /\ End(u, "remote", "exit")
       \/ ~Up(u) /\ End(u, "remote", "lost") /\ UNCHANGED faults
    /\ UNCHANGED <<source, proc, dirs>>

\* The local tar: at the end marker, on a truncated stream, or on its own.
DirLocalEnds(u) ==
    /\ At(u, "tar") /\ Running(u, "local")
    /\ \/ AtEnd(u) /\ End(u, "local", "ok") /\ UNCHANGED faults
       \/ ~AtEnd(u) /\ ~Running(u, "remote") /\ End(u, "local", "fail") /\ UNCHANGED faults
       \/ Fault /\ End(u, "local", "fail")
    /\ UNCHANGED <<source, proc, dirs>>

Killed(u) == IF Running(u, "local") THEN "fail" ELSE ends[u].local

\* superviseDirectoryDownload: whichever end is heard first; a remote that
\* failed takes the local tar with it.
DirTakeRemote(u) ==
    /\ At(u, "tar") /\ ends[u].took = "none" /\ ~Running(u, "remote")
    /\ ends' = [ends EXCEPT ![u].took = "remote",
                            ![u].local = IF ends[u].remote # "ok" THEN Killed(u) ELSE @]
    /\ UNCHANGED <<source, faults, proc, dirs>>

DirTakeLocal(u) ==
    /\ At(u, "tar") /\ ends[u].took = "none" /\ ~Running(u, "local")
    /\ End(u, "took", "local")
    /\ UNCHANGED <<source, faults, proc, dirs>>

\* Mutant: a failed local tar waits for the remote without a limit.
DirGraceNever(u) ==
    /\ At(u, "tar") /\ ends[u].took = "local" /\ ends[u].local = "fail" /\ Running(u, "remote")
    /\ ~Up(u)
    /\ proc' = [proc EXCEPT ![u].link = "closed"]
    /\ UNCHANGED <<source, faults, dirVars>>

\* A local tar that failed grants the remote two seconds for its own status.
DirGrace(u) ==
    /\ At(u, "tar") /\ ends[u].took = "local" /\ ends[u].local = "fail" /\ Running(u, "remote")
    /\ Up(u)
    /\ proc' = [proc EXCEPT ![u].link = "closed"]
    /\ UNCHANGED <<source, faults, dirVars>>

\* The deadline closes the session and kills the local tar.
DirDeadline(u) ==
    /\ At(u, "tar") /\ Kind(u, {"getdir"})
    /\ Deadline(u)
    /\ End(u, "local", Killed(u))
    /\ UNCHANGED dirs

\* Mutant: whichever end was heard first is the cause.
FirstHeard(u) ==
    IF ends[u].took = "local" /\ ends[u].local = "fail" THEN "local"
    ELSE IF ends[u].remote # "ok" THEN "remote"
    ELSE IF ends[u].local # "ok" THEN "local" ELSE "none"

First(u) ==
    LET e == ends[u]
    IN  IF e.remote = "exit" THEN "remote"
        ELSE IF e.took = "local" /\ e.local = "fail" THEN "local"
        ELSE IF e.remote # "ok" THEN "remote"
        ELSE IF e.local # "ok" THEN "local" ELSE "none"

\* rejectSpecialEntries, then restoreDirectoryModes, which walks the local tree
\* as it is now and wants every entry of it in the staging tree.
DirDecide(u) ==
    /\ At(u, "tar") /\ ends[u].took # "none" /\ ~Running(u, "remote") /\ ~Running(u, "local")
    /\ LET first == First(u)
           kept == ends[u].existed => dirs.dest # {} /\ dirs.dest \subseteq dirs.stage[u]
       IN  \/ /\ first # "none"
              /\ GiveUp(u, LateOr(u, IF first = "local" THEN "local_write" ELSE "remote_read"))
              /\ UNCHANGED faults
           \/ /\ first = "none"
              /\ \/ FailsIf(~kept) /\ GiveUp(u, "local_write")
                 \/ kept /\ Step(u, IF ends[u].existed THEN "treeAside" ELSE "place") /\ UNCHANGED faults
    /\ UNCHANGED <<source, dirVars>>

\* publish: the local tree is renamed aside, the staging tree put in its place.
DirAside(u) ==
    /\ At(u, "treeAside")
    /\ \/ /\ dirs.dest # {}
          /\ dirs' = [dirs EXCEPT !.back[u] = dirs.dest, !.dest = {}]
          /\ Step(u, "place")
          /\ UNCHANGED faults
       \/ FailsIf(dirs.dest = {}) /\ GiveUp(u, "publish") /\ UNCHANGED dirs
    /\ UNCHANGED <<source, ends>>

\* A directory is never renamed over one that has entries.
DirPlace(u) ==
    /\ At(u, "place")
    /\ \/ /\ dirs.dest = {}
          /\ dirs' = [dirs EXCEPT !.dest = dirs.stage[u], !.stage[u] = {}]
          /\ Step(u, "drop")
          /\ UNCHANGED faults
       \/ /\ FailsIf(dirs.dest # {})
          /\ IF ends[u].existed THEN Step(u, "putTree") ELSE GiveUp(u, "publish")
          /\ UNCHANGED dirs
    /\ UNCHANGED <<source, ends>>

DirRestore(u) ==
    /\ At(u, "putTree")
    /\ \/ /\ dirs.dest = {}
          /\ dirs' = [dirs EXCEPT !.dest = dirs.back[u], !.back[u] = {}]
          /\ GiveUp(u, "publish")
          /\ UNCHANGED faults
       \/ FailsIf(dirs.dest # {}) /\ GiveUp(u, "restore_failed") /\ UNCHANGED dirs
    /\ UNCHANGED <<source, ends>>

\* os.RemoveAll stops half way at what it may not remove, as in a directory
\* without write permission; its error is dropped.
DirDrop(u) ==
    /\ At(u, "drop")
    /\ \/ dirs' = [dirs EXCEPT !.back[u] = {}] /\ UNCHANGED faults
       \/ /\ Fault
          /\ \E left \in SUBSET dirs.back[u] :
                 dirs' = [dirs EXCEPT !.back[u] = left, !.unremoved = @ \cup {u}]
    /\ Finish(u, "ok")
    /\ UNCHANGED <<source, ends>>

\* The staging tree of a download that failed, in the same way.
DirCleanup(u) ==
    /\ At(u, "cleanup") /\ Kind(u, {"getdir"})
    /\ \/ dirs' = [dirs EXCEPT !.stage[u] = {}] /\ UNCHANGED faults
       \/ /\ Fault
          /\ \E left \in SUBSET dirs.stage[u] :
                 dirs' = [dirs EXCEPT !.stage[u] = left, !.unremoved = @ \cup {u}]
    /\ Step(u, "done")
    /\ UNCHANGED <<source, ends>>

\* The process is killed: staging and backup trees stay behind.
DirKilled(u) ==
    /\ Kind(u, {"getdir"}) /\ proc[u].pc \in {"tar", "treeAside", "place", "putTree", "drop", "cleanup"}
    /\ Fault
    /\ Finish(u, "killed")
    /\ UNCHANGED <<source, dirVars>>

\* The user saves a file in the local tree meanwhile.
DirSave ==
    /\ dirs.dest # {}
    /\ dirs' = [dirs EXCEPT !.dest = @ \cup {Blocks + 1}]
    /\ dirs' # dirs
    /\ \E u \in Proc : Kind(u, {"getdir"})
    /\ UNCHANGED <<source, faults, proc, ends>>

-----------------------------------------------------------------------------
(* put                                                                     *)

\* uploadDirTar: without a local tar the tree is walked file by file.
TreeOpen(u) ==
    /\ At(u, "start") /\ Kind(u, {"putdir"})
    /\ \/ Step(u, "tarput") /\ ends' = BothRun(u) /\ UNCHANGED faults
       \/ Fault /\ Step(u, "validate") /\ UNCHANGED ends
       \/ Fault /\ Finish(u, "dial") /\ UNCHANGED ends
    /\ UNCHANGED <<source, dirs>>

TreeSend(u) ==
    /\ At(u, "tarput")
    /\ Up(u) /\ Running(u, "remote") /\ Running(u, "local") /\ ~AtEnd(u)
    /\ dirs' = [dirs EXCEPT !.tree = @ \cup {NextEntry(u)}]
    /\ proc' = Sent(u)
    /\ UNCHANGED <<source, faults, ends>>

\* The local tar ends; one whose reader went away may fail or not.
TreeLocalEnds(u) ==
    /\ At(u, "tarput") /\ Running(u, "local")
    /\ \/ AtEnd(u) /\ End(u, "local", "ok") /\ UNCHANGED faults
       \/ ~Running(u, "remote") /\ (\E how \in {"ok", "fail"} : End(u, "local", how)) /\ UNCHANGED faults
       \/ Fault /\ End(u, "local", "fail")
    /\ UNCHANGED <<source, proc, dirs>>

\* The extractor stops at the end marker or the end of its input, whole or not.
TreeRemoteEnds(u) ==
    /\ At(u, "tarput") /\ Running(u, "remote")
    /\ \/ Up(u) /\ AtEnd(u) /\ End(u, "remote", "ok") /\ UNCHANGED faults
       \/ /\ Up(u) /\ ~AtEnd(u) /\ ~Running(u, "local")
          /\ \E how \in {"ok", "exit"} : End(u, "remote", how)
          /\ UNCHANGED faults
       \/ Up(u) /\ Fault /\ End(u, "remote", "exit")
       \/ ~Up(u) /\ End(u, "remote", "lost") /\ UNCHANGED faults
    /\ UNCHANGED <<source, proc, dirs>>

\* waitSessionBounded: after a local failure the session gets fifteen seconds.
TreeGrace(u) ==
    /\ At(u, "tarput") /\ ends[u].local = "fail" /\ Running(u, "remote")
    /\ Up(u)
    /\ proc' = [proc EXCEPT ![u].link = "closed"]
    /\ UNCHANGED <<source, faults, dirVars>>

\* Mutant: only the extractor's status counts.
TreeOutcomeOfRemote(u) ==
    CASE ends[u].remote = "exit" -> "remote_extract"
      [] ends[u].remote = "lost" -> "failed"
      [] OTHER -> "ok"

\* The remote's own exit decides; a local failure counts only when it exited 0.
TreeOutcome(u) ==
    IF ends[u].remote = "exit" THEN "remote_extract"
    ELSE IF ends[u].remote = "lost" THEN "failed"
    ELSE IF ends[u].local = "fail" THEN "local_read" ELSE "ok"

TreeDecide(u) ==
    /\ At(u, "tarput") /\ ~Running(u, "remote") /\ ~Running(u, "local")
    /\ Finish(u, TreeOutcome(u))
    /\ UNCHANGED <<source, faults, dirVars>>

\* validateUploadDirWalk refuses what the walk cannot represent before the
\* remote directory is made; then one upload per file.
TreeWalk(u) ==
    /\ \/ /\ At(u, "validate")
          /\ Step(u, "walk")
          /\ UNCHANGED <<faults, dirs>>
       \/ /\ At(u, "walk") /\ ~AtEnd(u)
          /\ dirs' = [dirs EXCEPT !.tree = @ \cup {NextEntry(u)}]
          /\ proc' = Sent(u)
          /\ UNCHANGED faults
       \/ /\ At(u, "walk") /\ AtEnd(u)
          /\ Finish(u, "ok")
          /\ UNCHANGED <<faults, dirs>>
       \/ /\ proc[u].pc \in {"validate", "walk"}
          /\ Fault /\ Finish(u, "failed")
          /\ UNCHANGED dirs
    /\ UNCHANGED <<source, ends>>

DirSteps(u) ==
    \/ DirStage(u) \/ DirReceive(u) \/ DirRemoteEnds(u) \/ DirLocalEnds(u) \/ DirTakeRemote(u) \/ DirTakeLocal(u)
    \/ DirGrace(u) \/ DirDecide(u) \/ DirAside(u) \/ DirPlace(u) \/ DirRestore(u) \/ DirDrop(u) \/ DirCleanup(u)
    \/ TreeOpen(u) \/ TreeSend(u) \/ TreeLocalEnds(u) \/ TreeRemoteEnds(u) \/ TreeGrace(u) \/ TreeDecide(u)
    \/ TreeWalk(u)

DirNext(u) == DirSteps(u) \/ DirDeadline(u) \/ DirKilled(u)
=============================================================================
