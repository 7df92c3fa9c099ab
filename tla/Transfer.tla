------------------------------ MODULE Transfer ------------------------------
(***************************************************************************)
(* The file transfers of internal/ssh, a few of them at a time against one *)
(* remote host and one local directory.  Mixes says which run together.    *)
(***************************************************************************)
EXTENDS SftpUpload, FileDownload, DirectoryTransfer

coreVars == <<source, faults, proc>>
vars == <<source, faults, proc, remoteVars, sftpVars, localVars, dirVars>>

Init == CoreInit /\ ShellInit /\ SftpInit /\ GetInit /\ DirInit

ShellStep(u) == ShellNext(u) /\ UNCHANGED <<sftpVars, localVars, dirVars>>
SftpStep(u) == SftpNext(u) /\ UNCHANGED <<localVars, dirVars>>
GetStep(u) == GetNext(u) /\ UNCHANGED <<remoteVars, sftpVars, dirVars>>
DirStep(u) == DirNext(u) /\ UNCHANGED <<remoteVars, sftpVars, localVars>>

Environment ==
    \/ (Edit \/ \E u \in Proc : LoseLink(u)) /\ UNCHANGED <<remoteVars, sftpVars, localVars, dirVars>>
    \/ DirSave /\ UNCHANGED <<remoteVars, sftpVars, localVars>>

Next ==
    \/ \E u \in Proc : ShellStep(u) \/ SftpStep(u) \/ GetStep(u) \/ DirStep(u)
    \/ Environment

Spec == Init /\ [][Next]_vars

\* Every process, here and on the remote host, goes on; nothing is assumed of
\* the environment, the deadlines or the faults.
Progress(u) ==
    \/ Kind(u, ShellKinds) /\ (ShellLocal(u) \/ ShellRemote(u)) /\ UNCHANGED <<sftpVars, localVars, dirVars>>
    \/ Kind(u, SftpKinds) /\ (SftpCleanup(u) \/ (SftpSteps(u) /\ UNCHANGED sftpVars)) /\ UNCHANGED <<localVars, dirVars>>
    \/ Kind(u, FileGets) /\ GetSteps(u) /\ UNCHANGED <<remoteVars, sftpVars, dirVars>>
    \/ Kind(u, {"getdir", "putdir"}) /\ DirSteps(u) /\ UNCHANGED <<remoteVars, sftpVars, localVars>>

FairSpec == Spec /\ \A u \in Proc : WF_vars(Progress(u))

-----------------------------------------------------------------------------
Results ==
    {"none", "ok", "dial", "failed", "timeout", "killed", "incompatible", "partial_mismatch", "tool", "mismatch",
     "state_changed", "publish_failed", "remote_read", "remote_extract", "local_read", "local_write", "publish",
     "restore_failed"}

ProcRecord ==
    [kind : Kinds,
     pc : {"start", "probe", "create", "meta", "session", "stream", "wait", "reread", "mktemp", "write",
           "rename", "aside", "move", "putBack", "dropOld", "cleanup", "read", "publish", "tar", "treeAside", "place",
           "putTree", "drop", "tarput", "validate", "walk", "done"},
     link : {"up", "closed"}, late : BOOLEAN, hash : Version, prefix : Seq(Block), sent : Seq(Block),
     result : Results]

ScriptRecord ==
    [at : {"idle", "connect", "open", "verify", "cat", "check", "publish", "clean", "exit"},
     fd : Inode \cup {0}, input : Seq(Block), eof : BOOLEAN,
     status : {"none", "receipt", "failed", "killed", "tool", "mismatch", "state_changed", "publish_failed"}]

EndRecord ==
    [remote : {"none", "run", "ok", "exit", "lost"}, local : {"none", "run", "ok", "fail"},
     took : {"none", "remote", "local"}, existed : BOOLEAN]

CoreType == source \in Version /\ faults \in 0 .. MaxFaults /\ proc \in [Proc -> ProcRecord]

ScriptType == script \in [Proc -> ScriptRecord] /\ agent \subseteq Proc

FileType ==
    /\ data \in [Inode -> Seq(Block)] /\ pub \in [Proc -> Seq(Block)]
    /\ at \in [dest : Inode \cup {0}, tmp : [Proc -> Inode \cup {0}], old : [Proc -> Inode \cup {0}],
               partial : [Version -> Inode \cup {0}], meta : [Version -> BOOLEAN]]
    /\ posix \in BOOLEAN /\ litter \subseteq Proc

LocalType == local \in Seq(Block) /\ stage \in [Proc -> Seq(Block)] /\ staged \subseteq Proc /\ unremoved \subseteq Proc

DirType ==
    /\ dirs \in [first : SUBSET Entry, dest : SUBSET Entry, stage : [Proc -> SUBSET Entry],
                 back : [Proc -> SUBSET Entry], tree : SUBSET Entry, unremoved : SUBSET Proc]
    /\ ends \in [Proc -> EndRecord]

\* Every variable has its type, and the remote file system never runs out of
\* objects: an object a name or an open descriptor refers to is never reused.
TypeOK == CoreType /\ ScriptType /\ FileType /\ LocalType /\ DirType

\* What a transfer may put under a destination's name: a file of the full size
\* and, when a digest was asked for, the very version whose digest was taken.
Whole(u, file) ==
    /\ Len(file) = Blocks
    /\ Kind(u, {"sha", "resume", "cp", "direct", "sftpsha", "getsha"}) => file = Content(proc[u].hash)

\* The remote and the local name of a file change what they refer to only to
\* a file that is whole when the name is given, or back to the one they
\* referred to before, whatever was lost, killed, edited or run beside it.
PublishesWhole ==
    [][/\ at'.dest # at.dest => \/ at'.dest = 0
                                \/ \E u \in Proc : at'.dest = at.old[u]
                                \/ \E u \in Proc : pub'[u] # pub[u] /\ Whole(u, data'[at'.dest])
       /\ local' # local => \E u \in staged \ staged' : Whole(u, local')]_vars

\* While nothing has been published, the previous remote file is under its own
\* name or under the name the SFTP upload moved it to, and a local tree's
\* previous entry is in the tree or in a backup beside it.
PreviousReachable ==
    /\ (\A u \in Proc : pub[u] = <<>>) => \E i \in {at.dest} \cup {at.old[u] : u \in Proc} :
                                              i # 0 /\ data[i] = Content(0)
    /\ dirs.first \subseteq dirs.dest \cup UNION {dirs.back[u] : u \in Proc}

\* Success reported to the user means that this very transfer published the
\* whole file, or that the whole tree was merged: the remote entries are in the
\* tree, or in a copy that a later download or its failure set aside.
OkMeansDone ==
    \A u \in Proc : proc[u].result = "ok" /\ At(u, "done") =>
        /\ Kind(u, ShellKinds \cup SftpKinds) => Whole(u, pub[u])
        /\ Kind(u, FileGets) => \E w \in Proc : Kind(w, FileGets) /\ proc[w].result = "ok" /\ Whole(w, local)
        /\ Kind(u, {"getdir"}) => \E tree \in {dirs.dest} \cup {dirs.back[w] : w \in Proc} : Remote \subseteq tree
        /\ Kind(u, {"putdir"}) => Remote \subseteq dirs.tree

\* A transfer that came to its own end leaves no temporary file, unless its
\* script was killed, its connection was gone, its error names the file or the
\* removal itself failed.  Even then a download that succeeded leaves no staging
\* copy, and one that failed no backup of the tree it was to replace.
NoLitter ==
    \A u \in Proc : At(u, "done") =>
        /\ Kind(u, SftpKinds) /\ at.tmp[u] # 0 => u \in litter \/ (~Up(u) /\ proc[u].sent = <<>>)
        /\ script[u].at = "exit" /\ script[u].status # "killed" => at.tmp[u] = 0
        /\ u \in staged => u \in unremoved /\ proc[u].result # "ok"
        /\ proc[u].result \notin {"killed", "restore_failed"} =>
               /\ dirs.stage[u] # {} => u \in dirs.unremoved /\ proc[u].result # "ok"
               /\ dirs.back[u] # {} => u \in dirs.unremoved /\ proc[u].result = "ok"

\* The key lent to the source host of cp --direct authenticates nothing once
\* the copy returned or its deadline fired.
KeyNotUsedAfterReturn ==
    [][\A u \in Proc : script[u].at = "connect" /\ script'[u].at = "open" => ~At(u, "done") /\ ~proc[u].late]_vars

\* A tar that exited non-zero on the remote host is named as the cause, not
\* the truncated stream or broken pipe that it leaves at the local end.
RootCause ==
    \A u \in Proc : At(u, "done") /\ ends[u].remote = "exit" =>
        proc[u].result \in {"remote_read", "remote_extract", "timeout", "killed"}

\* Every transfer returns, whichever end goes away or hangs up first.
TransfersReturn == <>(\A u \in Proc : At(u, "done"))

\* The destination never holds anything but a whole file.
DestinationWhole == at.dest # 0 => Len(data[at.dest]) = Blocks

\* A failed or killed transfer never costs the file or the tree entry that was
\* there before (PreviousReachable), and one that came to its own end leaves no
\* temporary file, unless it names it or could not remove it (NoLitter).
FilesSound == PreviousReachable /\ NoLitter
=============================================================================
