--------------------------- MODULE TransferProofs ---------------------------
(***************************************************************************)
(* What the transfers of module Transfer keep, for any number of transfers *)
(* of any kinds side by side, any size of file and any number of edits and *)
(* faults.  The control of each transfer, the ownership of the remote file *)
(* objects, their contents, the local staging files and the directory      *)
(* trees have an invariant each; a step is described once by what it does  *)
(* to the record of its transfer and to the remote names.                  *)
(***************************************************************************)
EXTENDS Transfer, FiniteSetTheorems, TLAPS

-----------------------------------------------------------------------------
(* The control of a transfer                                               *)

ShellPc == {"start", "probe", "create", "meta", "session", "stream", "wait", "reread", "done"}
SftpPc == {"start", "mktemp", "write", "rename", "aside", "move", "putBack", "dropOld", "cleanup", "done"}
GetPc == {"start", "read", "publish", "cleanup", "done"}
DirPc == {"start", "tar", "treeAside", "place", "putTree", "drop", "cleanup", "done"}
TreePc == {"start", "tarput", "validate", "walk", "done"}

\* The steps of each protocol.
KindPc(k, l) ==
    /\ k \in ShellKinds => l \in ShellPc
    /\ k \in SftpKinds => l \in SftpPc
    /\ k \in FileGets => l \in GetPc
    /\ k = "getdir" => l \in DirPc
    /\ k = "putdir" => l \in TreePc
    /\ k = "none" => l = "done"

\* A transfer is at a step of its protocol, has read at most the whole source
\* and has no result before it ends.
ProcOK(q) ==
    /\ KindPc(q.kind, q.pc)
    /\ Len(q.prefix) + Len(q.sent) =< Blocks
    /\ q.prefix # <<>> => q.kind = "resume"
    /\ q.pc \in {"start", "probe", "create", "meta", "mktemp"} => q.sent = <<>>
    /\ q.pc \notin {"cleanup", "done"} => q.result = "none"
    /\ q.pc = "cleanup" => q.result # "ok"
    /\ q.pc \in {"probe", "create", "meta"} => q.kind = "resume"
    /\ q.pc = "reread" => q.kind = "direct"

ProcInv == \A u \in Proc : ProcOK(proc[u])

\* The script of an upload runs after its session was opened.
ScriptOK(u) ==
    /\ script[u].at # "idle" => Kind(u, ShellKinds) /\ proc[u].pc \in {"stream", "wait", "reread", "done"}
    /\ script[u].at = "connect" => Kind(u, {"direct"})
    /\ script[u].at \in {"verify", "clean"} => Kind(u, {"resume"})
    /\ script[u].at = "open" => ~Kind(u, {"resume"})
    /\ script[u].status # "none" => script[u].at = "exit"
    /\ script[u].at = "cat" <=> script[u].fd # 0

ScriptInv == \A u \in Proc : ScriptOK(u)

\* The agent of cp --direct is emptied before the copy returns and before its
\* deadline is remembered.
AgentOK(u) ==
    /\ u \in agent => Kind(u, {"direct"}) /\ proc[u].pc \in {"session", "wait"} /\ ~proc[u].late
    /\ Kind(u, {"direct"}) /\ At(u, "start") => ~proc[u].late

AgentInv == \A u \in Proc : AgentOK(u)

-----------------------------------------------------------------------------
(* The remote files                                                        *)

\* A temporary file and a partial file are under no other name.
Own ==
    /\ \A u \in Proc : at.tmp[u] # 0 =>
           /\ at.tmp[u] # at.dest
           /\ \A w \in Proc : at.tmp[u] # at.old[w] /\ (w # u => at.tmp[u] # at.tmp[w])
           /\ \A v \in Version : at.tmp[u] # at.partial[v]
    /\ \A v \in Version : at.partial[v] # 0 =>
           /\ at.partial[v] # at.dest
           /\ \A w \in Proc : at.partial[v] # at.old[w]
           /\ \A x \in Version : x # v => at.partial[v] # at.partial[x]

\* The temporary file of a transfer exists while its protocol uses it, and
\* the previous destination is moved aside once.
TmpOK(u) ==
    /\ ~Kind(u, SftpKinds \cup ShellKinds) \/ Kind(u, {"resume"}) => at.tmp[u] = 0
    /\ Kind(u, ShellKinds) /\ script[u].at \in {"idle", "connect", "open"} => at.tmp[u] = 0
    /\ script[u].at \in {"cat", "check", "publish"} /\ ~Kind(u, {"resume"}) => at.tmp[u] # 0
    /\ script[u].at = "exit" /\ script[u].status # "killed" => at.tmp[u] = 0
    /\ proc[u].pc \in {"mktemp", "dropOld"} \/ (Kind(u, SftpKinds) /\ At(u, "start")) => at.tmp[u] = 0
    /\ proc[u].pc \in {"write", "rename", "aside", "move", "putBack"} => at.tmp[u] # 0
    /\ Kind(u, SftpKinds) /\ At(u, "done") /\ at.tmp[u] # 0 => u \in litter \/ (~Up(u) /\ proc[u].sent = <<>>)
    /\ ~Kind(u, SftpKinds) \/ proc[u].pc \in {"start", "mktemp", "write", "rename", "aside"} => at.old[u] = 0

TmpInv == \A u \in Proc : TmpOK(u)

\* Without overlap one resumable upload is at work at a time.
Solo == \A u, w \in Proc : u # w /\ Kind(u, {"resume"}) /\ Kind(w, {"resume"}) => Idle(u) \/ Idle(w)

\* What a transfer writes to and renames: a script writes to the file it will
\* rename; what is about to be renamed was checked, and nobody writes to it any
\* more; what was published is what success is reported for.
ContentOK(u) ==
    /\ script[u].fd # 0 => script[u].fd = Written(u)
    /\ script[u].at = "publish" => Complete(u)
    /\ proc[u].pc \in {"rename", "aside", "move", "putBack"} => Whole(u, data[at.tmp[u]])
    /\ script[u].at = "clean" \/ script[u].status = "receipt" => Whole(u, pub[u])
    /\ proc[u].pc \in {"dropOld", "reread"} => Whole(u, pub[u])
    /\ Kind(u, ShellKinds \cup SftpKinds) /\ At(u, "done") /\ proc[u].result = "ok" => Whole(u, pub[u])
    /\ Kind(u, ShellKinds) /\ script[u].at \notin {"clean", "exit"} => pub[u] = <<>>
    /\ ~Kind(u, ShellKinds \cup SftpKinds) => pub[u] = <<>>
    /\ proc[u].pc \in {"start", "mktemp", "write", "rename", "aside", "move"} => pub[u] = <<>>

\* The previous file, as long as nothing was published.
PreviousFile ==
    (\A u \in Proc : pub[u] = <<>>) => \E i \in {at.dest} \cup {at.old[u] : u \in Proc} :
                                              i # 0 /\ data[i] = Content(0)

\* Two resumable uploads of the same version that overlap write to one file.
ContentInv == ~Overlap => Solo /\ (\A u \in Proc : ContentOK(u)) /\ PreviousFile

-----------------------------------------------------------------------------
(* The local files and trees                                               *)

\* A download has a staging file while it reads and publishes, which holds
\* what was read, all of it when it is about to be published, and keeps it only
\* when it failed and could not remove it.
StageOK(u) ==
    /\ u \in staged => /\ Kind(u, FileGets)
                       /\ \/ proc[u].pc \in {"read", "publish", "cleanup"}
                          \/ At(u, "done") /\ u \in unremoved /\ proc[u].result # "ok"
    /\ Kind(u, FileGets) /\ proc[u].pc \in {"read", "publish"} => u \in staged
    /\ Kind(u, FileGets) /\ proc[u].pc \in {"start", "read", "publish"} => stage[u] = proc[u].sent
    /\ At(u, "publish") => Whole(u, stage[u])

StageInv == \A u \in Proc : StageOK(u)

Got(u) == Kind(u, FileGets) /\ At(u, "done") /\ proc[u].result = "ok"

\* Once a download has succeeded, the local file is one that some download
\* published.
LocalInv == (\E u \in Proc : Got(u)) => \E w \in Proc : Got(w) /\ Whole(w, local)

\* The ends of a directory transfer and what they were heard to say.
EndsOK(u) ==
    /\ ~Kind(u, {"getdir", "putdir"}) \/ proc[u].pc \in {"start", "validate", "walk"} => ends[u].remote = "none"
    /\ proc[u].pc \in {"treeAside", "place", "putTree", "drop"} => AtEnd(u) /\ ends[u].remote = "ok"
    /\ At(u, "tar") /\ ends[u].remote = "ok" => AtEnd(u)
    /\ At(u, "tarput") => ends[u].remote # "none" /\ ends[u].local # "none"
    /\ At(u, "tarput") /\ ~AtEnd(u) /\ ends[u].local = "ok" => ends[u].remote \in {"exit", "lost"}
    /\ At(u, "tarput") /\ ~AtEnd(u) /\ ends[u].remote = "ok" => ends[u].local = "fail"
    /\ Kind(u, {"getdir", "putdir"}) /\ At(u, "done") /\ proc[u].result = "ok" => AtEnd(u)
    /\ proc[u].pc \in {"cleanup", "done"} /\ ends[u].remote = "exit" =>
           proc[u].result \in {"remote_read", "remote_extract", "timeout", "killed"}

EndsInv == \A u \in Proc : EndsOK(u)

\* The copies of the local tree each download keeps beside it; the staging tree
\* has every entry that arrived.
TreeOK(u) ==
    /\ ~Kind(u, {"getdir"}) \/ At(u, "start") => dirs.stage[u] = {} /\ dirs.back[u] = {}
    /\ proc[u].pc \in {"tar", "treeAside"} \/ ~ends[u].existed => dirs.back[u] = {}
    /\ At(u, "drop") => dirs.stage[u] = {}
    /\ proc[u].pc \in {"treeAside", "putTree"} => ends[u].existed
    /\ Kind(u, {"getdir"}) /\ At(u, "cleanup") /\ proc[u].result # "restore_failed" => dirs.back[u] = {}
    /\ Kind(u, {"getdir"}) /\ At(u, "done") /\ proc[u].result \notin {"killed", "restore_failed"} =>
           /\ dirs.stage[u] # {} => u \in dirs.unremoved /\ proc[u].result # "ok"
           /\ dirs.back[u] # {} => u \in dirs.unremoved /\ proc[u].result = "ok"
    /\ proc[u].pc \in {"tar", "treeAside", "place", "putTree"} => 1 .. Len(proc[u].sent) \subseteq dirs.stage[u]
    /\ Kind(u, {"putdir"}) => 1 .. Len(proc[u].sent) \subseteq dirs.tree

TreeInv == \A u \in Proc : TreeOK(u)

\* Two directory downloads have begun.
TwoBegan ==
    \E u, w \in Proc : u # w /\ Kind(u, {"getdir"}) /\ Kind(w, {"getdir"}) /\ ~At(u, "start") /\ ~At(w, "start")

\* The steps of a download at which its backup may go back into place, and
\* those after which it is not removed any more.
Swapping == {"place", "putTree"}
Keeping == Swapping \cup {"cleanup", "done"}

\* The entry that was in the local tree at first: it is in the tree or in the
\* backup of a download that will not remove it; a tree without it, or a backup
\* that may become the tree, means that two downloads have begun.
EntryInv ==
    /\ dirs.first \subseteq {0}
    /\ dirs.first # {} =>
           /\ 0 \in dirs.dest \/ \E u \in Proc : 0 \in dirs.back[u] /\ proc[u].pc \in Keeping
           /\ 0 \notin dirs.dest /\ dirs.dest # {} => TwoBegan
           /\ \A u \in Proc : proc[u].pc \in Swapping /\ 0 \notin dirs.back[u] /\ dirs.back[u] # {} => TwoBegan
           /\ \A u \in Proc : proc[u].pc \in {"tar", "treeAside", "place", "putTree"} /\ ends[u].existed =>
                  0 \in dirs.stage[u]

\* Once a download has put its tree in place, some tree that will not be
\* removed has every remote entry.
Placed(u) == Kind(u, {"getdir"}) /\ (At(u, "drop") \/ (At(u, "done") /\ proc[u].result = "ok"))

MergedInv ==
    (\E u \in Proc : Placed(u)) =>
        Remote \subseteq dirs.dest \/ \E w \in Proc : Remote \subseteq dirs.back[w] /\ proc[w].pc \in Keeping

-----------------------------------------------------------------------------
(* What a step does to the record of a transfer                            *)

Pcs == ShellPc \cup SftpPc \cup GetPc \cup DirPc \cup TreePc

\* Only the record of transfer u changes, and it stays of its kind.
Frame(u) ==
    /\ proc' \in [Proc -> ProcRecord]
    /\ \A w \in Proc : w # u => proc'[w] = proc[w]
    /\ proc'[u].kind = proc[u].kind

Goes(u, l, r) == proc'[u].pc = l /\ proc'[u].result = r
SameLink(u) == proc'[u].link = proc[u].link /\ proc'[u].late = proc[u].late
SameRead(u) == proc'[u].hash = proc[u].hash /\ proc'[u].prefix = proc[u].prefix /\ proc'[u].sent = proc[u].sent

LEMMA ProcFields ==
    ASSUME CoreType, NEW u \in Proc
    PROVE  /\ proc[u] \in ProcRecord
           /\ proc[u].kind \in Kinds /\ proc[u].pc \in Pcs /\ proc[u].link \in {"up", "closed"}
           /\ proc[u].late \in BOOLEAN /\ proc[u].hash \in Version
           /\ proc[u].prefix \in Seq(Block) /\ proc[u].sent \in Seq(Block) /\ proc[u].result \in Results
           /\ Len(proc[u].prefix) \in Nat /\ Len(proc[u].sent) \in Nat
           /\ Blocks \in Nat \ {0} /\ source \in Version
<1>1. proc[u] \in ProcRecord
    BY DEF CoreType
<1>2. proc[u].pc \in Pcs
    BY <1>1 DEF ProcRecord, Pcs, ShellPc, SftpPc, GetPc, DirPc, TreePc
<1> QED BY <1>1, <1>2, TransferAssumption DEF ProcRecord, CoreType

LEMMA PcsOfRecord == ASSUME NEW l \in Pcs, NEW q \in ProcRecord
                     PROVE  [q EXCEPT !.pc = l] \in ProcRecord
BY DEF ProcRecord, Pcs, ShellPc, SftpPc, GetPc, DirPc, TreePc

LEMMA ResultOfRecord == ASSUME NEW r \in Results, NEW q \in ProcRecord
                        PROVE  [q EXCEPT !.result = r] \in ProcRecord
BY DEF ProcRecord

LEMMA HashOfRecord == ASSUME NEW h \in Version, NEW q \in ProcRecord
                      PROVE  [q EXCEPT !.hash = h] \in ProcRecord
BY DEF ProcRecord

LEMMA Framed ==
    ASSUME CoreType, NEW u \in Proc, NEW q \in ProcRecord, q.kind = proc[u].kind,
           proc' = [proc EXCEPT ![u] = q]
    PROVE  Frame(u) /\ proc'[u] = q
BY DEF CoreType, Frame

LEMMA Stepped ==
    ASSUME CoreType, NEW u \in Proc, NEW l \in Pcs, Step(u, l)
    PROVE  Frame(u) /\ Goes(u, l, proc[u].result) /\ SameLink(u) /\ SameRead(u)
<1> DEFINE q == [proc[u] EXCEPT !.pc = l]
<1>1. q \in ProcRecord
    BY ProcFields, PcsOfRecord
<1>2. /\ q.kind = proc[u].kind /\ q.pc = l /\ q.result = proc[u].result /\ q.link = proc[u].link
      /\ q.late = proc[u].late /\ q.hash = proc[u].hash /\ q.prefix = proc[u].prefix /\ q.sent = proc[u].sent
    BY ProcFields DEF ProcRecord
<1>3. proc' = [proc EXCEPT ![u] = q]
    BY DEF Step
<1> HIDE DEF q
<1> QED BY <1>1, <1>2, <1>3, Framed DEF Goes, SameLink, SameRead

LEMMA Ended ==
    ASSUME CoreType, NEW u \in Proc, NEW l \in Pcs, NEW r \in Results,
           proc' = [proc EXCEPT ![u].pc = l, ![u].result = r]
    PROVE  Frame(u) /\ Goes(u, l, r) /\ SameLink(u) /\ SameRead(u)
<1> DEFINE q == [proc[u] EXCEPT !.pc = l, !.result = r]
<1>1. q \in ProcRecord
    <2>1. [proc[u] EXCEPT !.pc = l] \in ProcRecord
        BY ProcFields, PcsOfRecord
    <2> QED BY <2>1, ResultOfRecord
<1>2. /\ q.kind = proc[u].kind /\ q.pc = l /\ q.result = r /\ q.link = proc[u].link
      /\ q.late = proc[u].late /\ q.hash = proc[u].hash /\ q.prefix = proc[u].prefix /\ q.sent = proc[u].sent
    BY ProcFields DEF ProcRecord
<1>3. proc' = [proc EXCEPT ![u] = q]
    OBVIOUS
<1> HIDE DEF q
<1> QED BY <1>1, <1>2, <1>3, Framed DEF Goes, SameLink, SameRead

LEMMA Finished ==
    ASSUME CoreType, NEW u \in Proc, NEW r \in Results, Finish(u, r)
    PROVE  Frame(u) /\ Goes(u, "done", r) /\ SameLink(u) /\ SameRead(u)
<1>1. "done" \in Pcs
    BY DEF Pcs, ShellPc
<1> QED BY <1>1, Ended DEF Finish

LEMMA LateOrIsResult ==
    ASSUME CoreType, NEW u \in Proc, NEW r \in Results, r # "ok"
    PROVE  LateOr(u, r) \in Results /\ LateOr(u, r) # "ok"
<1>1. CASE proc[u].late
    <2>1. LateOr(u, r) = "timeout"
        BY <1>1 DEF LateOr
    <2> QED BY <2>1 DEF Results
<1>2. CASE ~proc[u].late
    <2>1. LateOr(u, r) = r
        BY <1>2 DEF LateOr
    <2> QED BY <2>1
<1> QED BY <1>1, <1>2

LEMMA GaveUp ==
    ASSUME CoreType, NEW u \in Proc, NEW r \in Results, GiveUp(u, r)
    PROVE  Frame(u) /\ Goes(u, "cleanup", r) /\ SameLink(u) /\ SameRead(u)
<1>1. "cleanup" \in Pcs
    BY DEF Pcs, SftpPc
<1> QED BY <1>1, Ended DEF GiveUp

LEMMA OpenedStep ==
    ASSUME CoreType, NEW u \in Proc, NEW h \in Version, NEW l \in Pcs,
           proc' = [proc EXCEPT ![u].hash = h, ![u].pc = l]
    PROVE  /\ Frame(u) /\ Goes(u, l, proc[u].result) /\ SameLink(u)
           /\ proc'[u].hash = h /\ proc'[u].prefix = proc[u].prefix /\ proc'[u].sent = proc[u].sent
<1> DEFINE q == [proc[u] EXCEPT !.hash = h, !.pc = l]
<1>1. q \in ProcRecord
    <2>1. [proc[u] EXCEPT !.hash = h] \in ProcRecord
        BY ProcFields, HashOfRecord
    <2> QED BY <2>1, PcsOfRecord
<1>2. /\ q.kind = proc[u].kind /\ q.pc = l /\ q.result = proc[u].result /\ q.link = proc[u].link
      /\ q.late = proc[u].late /\ q.hash = h /\ q.prefix = proc[u].prefix /\ q.sent = proc[u].sent
    BY ProcFields DEF ProcRecord
<1>3. proc' = [proc EXCEPT ![u] = q]
    OBVIOUS
<1> HIDE DEF q
<1> QED BY <1>1, <1>2, <1>3, Framed DEF Goes, SameLink

\* A transfer that is not at the end has read less than the source.
LEMMA RoomToRead ==
    ASSUME CoreType, ProcInv, NEW u \in Proc
    PROVE  /\ Len(proc[u].prefix) \in Nat /\ Len(proc[u].sent) \in Nat
           /\ Len(proc[u].prefix) + Len(proc[u].sent) =< Blocks
           /\ ~AtEnd(u) => Len(proc[u].prefix) + Len(proc[u].sent) + 1 =< Blocks
<1>1. Len(proc[u].prefix) \in Nat /\ Len(proc[u].sent) \in Nat /\ Blocks \in Nat
    BY ProcFields
<1>2. Len(proc[u].prefix) + Len(proc[u].sent) =< Blocks
    BY DEF ProcInv, ProcOK
<1>3. ~AtEnd(u) => Len(proc[u].prefix) + Len(proc[u].sent) # Blocks
    BY DEF AtEnd
<1> DEFINE p == Len(proc[u].prefix)
           s == Len(proc[u].sent)
<1> HIDE DEF p, s
<1>4. p \in Nat /\ s \in Nat /\ p + s =< Blocks /\ (~AtEnd(u) => p + s # Blocks)
    BY <1>1, <1>2, <1>3 DEF p, s
<1>5. ~AtEnd(u) => p + s + 1 =< Blocks
    BY <1>1, <1>4
<1> QED BY <1>1, <1>2, <1>5 DEF p, s

LEMMA NextBlockIsBlock ==
    ASSUME CoreType, ProcInv, NEW u \in Proc, ~AtEnd(u)
    PROVE  NextBlock(u) \in Block
<1>1. source \in Version /\ Blocks \in Nat
    BY ProcFields
<1> DEFINE p == Len(proc[u].prefix)
           s == Len(proc[u].sent)
<1> HIDE DEF p, s
<1>2. p \in Nat /\ s \in Nat /\ p + s + 1 =< Blocks /\ NextBlock(u) = <<source, p + s + 1>>
    BY RoomToRead DEF p, s, NextBlock
<1> QED BY <1>1, <1>2 DEF Block

LEMMA SentStep ==
    ASSUME CoreType, ProcInv, NEW u \in Proc, ~AtEnd(u),
           proc' = [proc EXCEPT ![u].sent = Append(@, NextBlock(u))]
    PROVE  /\ Frame(u) /\ Goes(u, proc[u].pc, proc[u].result) /\ SameLink(u)
           /\ proc'[u].hash = proc[u].hash /\ proc'[u].prefix = proc[u].prefix
           /\ proc'[u].sent = Append(proc[u].sent, NextBlock(u))
           /\ Len(proc'[u].sent) = Len(proc[u].sent) + 1
           /\ Len(proc'[u].prefix) + Len(proc'[u].sent) =< Blocks
<1> DEFINE s == Append(proc[u].sent, NextBlock(u))
           q == [proc[u] EXCEPT !.sent = s]
<1>1. s \in Seq(Block) /\ Len(s) = Len(proc[u].sent) + 1
    BY ProcFields, NextBlockIsBlock
<1>2. proc' = [proc EXCEPT ![u] = q]
    OBVIOUS
<1>3. s = Append(proc[u].sent, NextBlock(u))
    OBVIOUS
<1> HIDE DEF s
<1>4. q \in ProcRecord
    BY <1>1, ProcFields DEF ProcRecord
<1>5. /\ q.kind = proc[u].kind /\ q.pc = proc[u].pc /\ q.result = proc[u].result /\ q.link = proc[u].link
      /\ q.late = proc[u].late /\ q.hash = proc[u].hash /\ q.prefix = proc[u].prefix /\ q.sent = s
    BY ProcFields DEF ProcRecord
<1> HIDE DEF q
<1>6. Frame(u) /\ proc'[u] = q
    BY <1>2, <1>4, <1>5, Framed
<1> DEFINE p == Len(proc[u].prefix)
           n == Len(proc[u].sent)
<1> HIDE DEF p, n
<1>7. p + Len(s) =< Blocks
    <2>1. p \in Nat /\ n \in Nat /\ p + n + 1 =< Blocks /\ Len(s) = n + 1 /\ Blocks \in Nat
        BY <1>1, RoomToRead, TransferAssumption DEF p, n
    <2> QED BY <2>1
<1> QED BY <1>1, <1>3, <1>5, <1>6, <1>7 DEF Goes, SameLink, p

\* The link is closed, by the deadline or not.
LEMMA ClosedStep ==
    ASSUME CoreType, NEW u \in Proc, NEW b \in BOOLEAN, NEW k \in {"up", "closed"},
           proc' = [proc EXCEPT ![u].late = b, ![u].link = k]
    PROVE  /\ Frame(u) /\ Goes(u, proc[u].pc, proc[u].result) /\ SameRead(u)
           /\ proc'[u].late = b /\ proc'[u].link = k
<1> DEFINE q == [proc[u] EXCEPT !.late = b, !.link = k]
<1>1. q \in ProcRecord
    BY ProcFields DEF ProcRecord
<1>2. /\ q.kind = proc[u].kind /\ q.pc = proc[u].pc /\ q.result = proc[u].result /\ q.link = k
      /\ q.late = b /\ q.hash = proc[u].hash /\ q.prefix = proc[u].prefix /\ q.sent = proc[u].sent
    BY ProcFields DEF ProcRecord
<1>3. proc' = [proc EXCEPT ![u] = q]
    OBVIOUS
<1> HIDE DEF q
<1> QED BY <1>1, <1>2, <1>3, Framed DEF Goes, SameRead

LEMMA LinkStep ==
    ASSUME CoreType, NEW u \in Proc, proc' = [proc EXCEPT ![u].link = "closed"]
    PROVE  /\ Frame(u) /\ Goes(u, proc[u].pc, proc[u].result) /\ SameRead(u)
           /\ proc'[u].late = proc[u].late /\ proc'[u].link = "closed"
<1> DEFINE b == proc[u].late
<1>1. proc' = [proc EXCEPT ![u].late = b, ![u].link = "closed"]
    BY DEF CoreType, ProcRecord
<1>2. b \in BOOLEAN
    BY ProcFields
<1> QED BY <1>1, <1>2, ClosedStep

LEMMA LateStep ==
    ASSUME CoreType, NEW u \in Proc, proc' = [proc EXCEPT ![u].late = TRUE]
    PROVE  /\ Frame(u) /\ Goes(u, proc[u].pc, proc[u].result) /\ SameRead(u)
           /\ proc'[u].late = TRUE /\ proc'[u].link = proc[u].link
<1> DEFINE k == proc[u].link
<1>1. proc' = [proc EXCEPT ![u].late = TRUE, ![u].link = k]
    BY DEF CoreType, ProcRecord
<1>2. k \in {"up", "closed"}
    BY ProcFields
<1> QED BY <1>1, <1>2, ClosedStep

\* A step of transfer u alone that lands where its protocol may be.
Moves(u) == Frame(u) /\ ProcOK(proc'[u])

Lands(u, l, r) ==
    /\ KindPc(proc[u].kind, l)
    /\ l \in {"start", "probe", "create", "meta", "mktemp"} => proc[u].sent = <<>>
    /\ l \notin {"cleanup", "done"} => r = "none"
    /\ l = "cleanup" => r # "ok"
    /\ l \in {"probe", "create", "meta"} => proc[u].kind = "resume"
    /\ l = "reread" => proc[u].kind = "direct"

LEMMA Landed ==
    ASSUME ProcInv, NEW u \in Proc, NEW l, NEW r, Frame(u), Goes(u, l, r), Lands(u, l, r),
           proc'[u].prefix = proc[u].prefix, proc'[u].sent = proc[u].sent
    PROVE  Moves(u)
BY DEF ProcInv, ProcOK, Frame, Goes, Lands, Moves

LEMMA DoneLands == ASSUME NEW u, NEW r PROVE Lands(u, "done", r)
BY DEF Lands, KindPc, ShellPc, SftpPc, GetPc, DirPc, TreePc

LEMMA FinishMoves ==
    ASSUME CoreType, ProcInv, NEW u \in Proc, NEW r \in Results, Finish(u, r)
    PROVE  Moves(u) /\ Goes(u, "done", r) /\ SameLink(u) /\ SameRead(u)
<1>1. Frame(u) /\ Goes(u, "done", r) /\ SameLink(u) /\ SameRead(u)
    BY Finished
<1> QED BY <1>1, DoneLands, Landed DEF SameRead

LEMMA GiveUpMoves ==
    ASSUME CoreType, ProcInv, NEW u \in Proc, NEW r \in Results, r # "ok", GiveUp(u, r),
           Kind(u, SftpKinds \cup FileGets \cup {"getdir"})
    PROVE  Moves(u) /\ Goes(u, "cleanup", r) /\ SameLink(u) /\ SameRead(u)
<1>1. Frame(u) /\ Goes(u, "cleanup", r) /\ SameLink(u) /\ SameRead(u)
    BY GaveUp
<1>2. Lands(u, "cleanup", r)
    BY DEF Lands, Kind, KindPc, SftpPc, GetPc, DirPc, ShellKinds, SftpKinds, FileGets
<1> QED BY <1>1, <1>2, Landed DEF SameRead

LEMMA StepMoves ==
    ASSUME CoreType, ProcInv, NEW u \in Proc, NEW l \in Pcs, Step(u, l), Lands(u, l, proc[u].result)
    PROVE  Moves(u) /\ Goes(u, l, proc[u].result) /\ SameLink(u) /\ SameRead(u)
<1>1. Frame(u) /\ Goes(u, l, proc[u].result) /\ SameLink(u) /\ SameRead(u)
    BY Stepped
<1> QED BY <1>1, Landed DEF SameRead

\* A transfer whose link is closed or whose deadline is remembered goes on
\* where it was.
LEMMA StayMoves ==
    ASSUME CoreType, ProcInv, NEW u \in Proc, Frame(u), Goes(u, proc[u].pc, proc[u].result), SameRead(u)
    PROVE  Moves(u)
<1>1. ProcOK(proc[u])
    BY DEF ProcInv
<1>2. Lands(u, proc[u].pc, proc[u].result)
    BY <1>1 DEF ProcOK, Lands
<1> QED BY <1>2, Landed DEF SameRead

LEMMA SendMoves ==
    ASSUME CoreType, ProcInv, NEW u \in Proc, ~AtEnd(u), proc[u].pc \notin {"start", "probe", "create", "meta", "mktemp"},
           proc' = [proc EXCEPT ![u].sent = Append(@, NextBlock(u))]
    PROVE  /\ Moves(u) /\ Goes(u, proc[u].pc, proc[u].result) /\ SameLink(u)
           /\ proc'[u].hash = proc[u].hash /\ proc'[u].prefix = proc[u].prefix
           /\ proc'[u].sent = Append(proc[u].sent, NextBlock(u))
           /\ Len(proc'[u].sent) = Len(proc[u].sent) + 1
<1>1. /\ Frame(u) /\ Goes(u, proc[u].pc, proc[u].result) /\ SameLink(u)
      /\ proc'[u].hash = proc[u].hash /\ proc'[u].prefix = proc[u].prefix
      /\ proc'[u].sent = Append(proc[u].sent, NextBlock(u))
      /\ Len(proc'[u].sent) = Len(proc[u].sent) + 1
      /\ Len(proc'[u].prefix) + Len(proc'[u].sent) =< Blocks
    BY SentStep
<1>2. ProcOK(proc[u])
    BY DEF ProcInv
<1>3. ProcOK(proc'[u])
    BY <1>1, <1>2 DEF ProcOK, Frame, Goes
<1> QED BY <1>1, <1>3 DEF Moves

\* What a step keeps of the control of the transfers.
LEMMA MovesKeep ==
    ASSUME CoreType, ProcInv, NEW u \in Proc, Moves(u), source' = source, faults' \in 0 .. MaxFaults
    PROVE  CoreType' /\ ProcInv'
BY DEF CoreType, ProcInv, Moves, Frame

LEMMA FaultType == ASSUME CoreType, Fault PROVE faults' \in 0 .. MaxFaults
BY TransferAssumption DEF CoreType, Fault

\* The protocol of a step.
LEMMA PcKind ==
    ASSUME CoreType, ProcInv, NEW u \in Proc
    PROVE  /\ proc[u].pc \in {"tar", "treeAside", "place", "putTree", "drop"} => Kind(u, {"getdir"})
           /\ proc[u].pc \in {"tarput", "validate", "walk"} => Kind(u, {"putdir"})
           /\ proc[u].pc \in {"read", "publish"} => Kind(u, FileGets)
           /\ proc[u].pc \in SftpPc \ {"start", "cleanup", "done"} => Kind(u, SftpKinds)
           /\ proc[u].pc = "cleanup" => Kind(u, SftpKinds \cup FileGets \cup {"getdir"})
           /\ proc[u].pc \in ShellPc \ {"start", "done"} => Kind(u, ShellKinds)
           /\ proc[u].pc \notin {"cleanup", "done"} => proc[u].result = "none"
<1>1. KindPc(proc[u].kind, proc[u].pc) /\ proc[u].kind \in Kinds
    BY ProcFields DEF ProcInv, ProcOK
<1>2. proc[u].pc \notin {"cleanup", "done"} => proc[u].result = "none"
    BY DEF ProcInv, ProcOK
<1> QED BY <1>1, <1>2 DEF KindPc, Kind, Kinds, ShellKinds, SftpKinds, FileGets, ShellPc, SftpPc, GetPc, DirPc, TreePc

-----------------------------------------------------------------------------
(* Directory trees                                                         *)

DirGood == CoreType /\ ProcInv /\ DirType /\ EndsInv /\ TreeInv

EndFrame(u) ==
    /\ ends' \in [Proc -> EndRecord]
    /\ \A w \in Proc : w # u => ends'[w] = ends[w]

EndIs(u, remote, localEnd, took, existed) ==
    /\ ends'[u].remote = remote /\ ends'[u].local = localEnd
    /\ ends'[u].took = took /\ ends'[u].existed = existed

DirFrame(u) ==
    /\ dirs' \in [first : SUBSET Entry, dest : SUBSET Entry, stage : [Proc -> SUBSET Entry],
                  back : [Proc -> SUBSET Entry], tree : SUBSET Entry, unremoved : SUBSET Proc]
    /\ \A w \in Proc : w # u => dirs'.stage[w] = dirs.stage[w] /\ dirs'.back[w] = dirs.back[w]
    /\ dirs.tree \subseteq dirs'.tree
    /\ dirs.unremoved \subseteq dirs'.unremoved
    /\ dirs'.first = dirs.first

TreeIs(u, dest, staging, back) ==
    dirs'.dest = dest /\ dirs'.stage[u] = staging /\ dirs'.back[u] = back

LEMMA EndFields ==
    ASSUME DirType, NEW u \in Proc
    PROVE  /\ ends[u] \in EndRecord
           /\ ends[u].remote \in {"none", "run", "ok", "exit", "lost"}
           /\ ends[u].local \in {"none", "run", "ok", "fail"}
           /\ ends[u].took \in {"none", "remote", "local"}
           /\ ends[u].existed \in BOOLEAN
           /\ Running(u, "remote") <=> ends[u].remote = "run"
           /\ Running(u, "local") <=> ends[u].local = "run"
BY DEF DirType, EndRecord, Running

LEMMA EndsSet ==
    ASSUME DirType, NEW u \in Proc, NEW q \in EndRecord, ends' = [ends EXCEPT ![u] = q]
    PROVE  EndFrame(u) /\ EndIs(u, q.remote, q.local, q.took, q.existed)
BY DEF DirType, EndFrame, EndIs

LEMMA EndedRemote ==
    ASSUME DirType, NEW u \in Proc, NEW h \in {"none", "run", "ok", "exit", "lost"}, End(u, "remote", h)
    PROVE  EndFrame(u) /\ EndIs(u, h, ends[u].local, ends[u].took, ends[u].existed)
<1> DEFINE q == [ends[u] EXCEPT !.remote = h]
<1>1. q \in EndRecord /\ q.remote = h /\ q.local = ends[u].local /\ q.took = ends[u].took
          /\ q.existed = ends[u].existed
    BY EndFields DEF EndRecord
<1>2. ends' = [ends EXCEPT ![u] = [ends[u] EXCEPT !["remote"] = h]]
    BY DEF End
<1>3. [ends[u] EXCEPT !["remote"] = h] = q
    BY Zenon
<1>4. ends' = [ends EXCEPT ![u] = q]
    BY <1>2, <1>3, Zenon
<1> HIDE DEF q
<1> QED BY <1>1, <1>4, EndsSet

LEMMA EndedLocal ==
    ASSUME DirType, NEW u \in Proc, NEW h \in {"none", "run", "ok", "fail"}, End(u, "local", h)
    PROVE  EndFrame(u) /\ EndIs(u, ends[u].remote, h, ends[u].took, ends[u].existed)
<1> DEFINE q == [ends[u] EXCEPT !.local = h]
<1>1. q \in EndRecord /\ q.remote = ends[u].remote /\ q.local = h /\ q.took = ends[u].took
          /\ q.existed = ends[u].existed
    BY EndFields DEF EndRecord
<1>2. ends' = [ends EXCEPT ![u] = [ends[u] EXCEPT !["local"] = h]]
    BY DEF End
<1>3. [ends[u] EXCEPT !["local"] = h] = q
    BY Zenon
<1>4. ends' = [ends EXCEPT ![u] = q]
    BY <1>2, <1>3, Zenon
<1> HIDE DEF q
<1> QED BY <1>1, <1>4, EndsSet

LEMMA EndedTook ==
    ASSUME DirType, NEW u \in Proc, NEW h \in {"none", "remote", "local"}, End(u, "took", h)
    PROVE  EndFrame(u) /\ EndIs(u, ends[u].remote, ends[u].local, h, ends[u].existed)
<1> DEFINE q == [ends[u] EXCEPT !.took = h]
<1>1. q \in EndRecord /\ q.remote = ends[u].remote /\ q.local = ends[u].local /\ q.took = h
          /\ q.existed = ends[u].existed
    BY EndFields DEF EndRecord
<1>2. ends' = [ends EXCEPT ![u] = [ends[u] EXCEPT !["took"] = h]]
    BY DEF End
<1>3. [ends[u] EXCEPT !["took"] = h] = q
    BY Zenon
<1>4. ends' = [ends EXCEPT ![u] = q]
    BY <1>2, <1>3, Zenon
<1> HIDE DEF q
<1> QED BY <1>1, <1>4, EndsSet

LEMMA EndsKept ==
    ASSUME DirType, NEW u \in Proc, ends' = ends
    PROVE  EndFrame(u) /\ EndIs(u, ends[u].remote, ends[u].local, ends[u].took, ends[u].existed)
BY DEF DirType, EndFrame, EndIs

LEMMA DirsKept ==
    ASSUME DirType, NEW u \in Proc, dirs' = dirs
    PROVE  DirFrame(u) /\ TreeIs(u, dirs.dest, dirs.stage[u], dirs.back[u])
BY DEF DirType, DirFrame, TreeIs

LEMMA StageSet ==
    ASSUME DirType, NEW u \in Proc, NEW S \in SUBSET Entry, dirs' = [dirs EXCEPT !.stage[u] = S]
    PROVE  DirFrame(u) /\ TreeIs(u, dirs.dest, S, dirs.back[u])
BY DEF DirType, DirFrame, TreeIs

LEMMA TreeAdds ==
    ASSUME DirType, NEW u \in Proc, NEW e \in Entry, dirs' = [dirs EXCEPT !.tree = @ \cup {e}]
    PROVE  /\ DirFrame(u) /\ TreeIs(u, dirs.dest, dirs.stage[u], dirs.back[u])
           /\ dirs'.tree = dirs.tree \cup {e}
BY DEF DirType, DirFrame, TreeIs

\* The other transfers keep their part when a step moves one of them.
LEMMA DirOthers ==
    ASSUME DirGood, NEW u \in Proc, Moves(u), source' = source, faults' \in 0 .. MaxFaults,
           EndFrame(u), DirFrame(u), EndsOK(u)', TreeOK(u)'
    PROVE  DirGood'
<1>1. CoreType' /\ ProcInv'
    BY MovesKeep DEF DirGood
<1>2. DirType'
    BY DEF DirType, EndFrame, DirFrame
<1>3. ASSUME NEW w \in Proc PROVE EndsOK(w)'
    <2>1. CASE w = u
        BY <2>1
    <2>2. CASE w # u
        <3>1. proc'[w] = proc[w] /\ ends'[w] = ends[w]
            BY <2>2 DEF Moves, Frame, EndFrame
        <3>2. EndsOK(w)
            BY DEF DirGood, EndsInv
        <3> QED BY <3>1, <3>2 DEF EndsOK, Kind, At, AtEnd
    <2> QED BY <2>1, <2>2
<1>4. ASSUME NEW w \in Proc PROVE TreeOK(w)'
    <2>1. CASE w = u
        BY <2>1
    <2>2. CASE w # u
        <3>1. /\ proc'[w] = proc[w] /\ ends'[w] = ends[w]
              /\ dirs'.stage[w] = dirs.stage[w] /\ dirs'.back[w] = dirs.back[w] /\ dirs.tree \subseteq dirs'.tree
              /\ dirs.unremoved \subseteq dirs'.unremoved
            BY <2>2 DEF Moves, Frame, EndFrame, DirFrame
        <3>2. TreeOK(w)
            BY DEF DirGood, TreeInv
        <3> QED BY <3>1, <3>2 DEF TreeOK, Kind, At
    <2> QED BY <2>1, <2>2
<1> QED BY <1>1, <1>2, <1>3, <1>4 DEF DirGood, EndsInv, TreeInv

LEMMA DirLands ==
    ASSUME CoreType, ProcInv, NEW u \in Proc, proc[u].pc \notin {"cleanup", "done"},
           NEW l \in {"tar", "treeAside", "place", "putTree", "drop"}, Kind(u, {"getdir"})
    PROVE  l \in Pcs /\ Lands(u, l, proc[u].result)
<1>1. proc[u].result = "none"
    BY PcKind
<1> QED BY <1>1 DEF Lands, KindPc, Kind, DirPc, Pcs, ShellKinds, SftpKinds, FileGets

LEMMA TreeLands ==
    ASSUME CoreType, ProcInv, NEW u \in Proc, proc[u].pc \notin {"cleanup", "done"},
           NEW l \in {"tarput", "validate", "walk"}, Kind(u, {"putdir"})
    PROVE  l \in Pcs /\ Lands(u, l, proc[u].result)
<1>1. proc[u].result = "none"
    BY PcKind
<1> QED BY <1>1 DEF Lands, KindPc, Kind, TreePc, Pcs, ShellKinds, SftpKinds, FileGets

\* A transfer ends with a result that names the remote tar if that failed.
LEMMA DirFinish ==
    ASSUME DirGood, NEW u \in Proc, NEW r \in Results, Finish(u, r), ends' = ends,
           Kind(u, {"getdir", "putdir"}), r = "ok" => AtEnd(u),
           ends[u].remote = "exit" => r \in {"remote_read", "remote_extract", "timeout", "killed"}
    PROVE  Moves(u) /\ Goes(u, "done", r) /\ SameRead(u) /\ EndFrame(u) /\ EndsOK(u)'
<1>1. Moves(u) /\ Goes(u, "done", r) /\ SameRead(u)
    BY FinishMoves DEF DirGood
<1>2. EndFrame(u) /\ ends'[u] = ends[u]
    BY EndsKept DEF DirGood
<1>3. AtEnd(u)' <=> AtEnd(u)
    BY <1>1 DEF AtEnd, SameRead
<1> QED BY <1>1, <1>2, <1>3 DEF EndsOK, Goes, Moves, Frame, Kind, At

\* A download that fails has no backup, unless it could not put it back.
LEMMA DirFails ==
    ASSUME DirGood, NEW u \in Proc, NEW r \in Results, r # "ok", GiveUp(u, r), ends' = ends, DirFrame(u),
           Kind(u, {"getdir"}), dirs'.back[u] = {} \/ (r = "restore_failed" /\ dirs'.back[u] = dirs.back[u]),
           ends[u].remote = "exit" => r \in {"remote_read", "remote_extract", "timeout", "killed"},
           source' = source, faults' \in 0 .. MaxFaults
    PROVE  DirGood'
<1>1. Moves(u) /\ Goes(u, "cleanup", r) /\ SameRead(u)
    BY GiveUpMoves DEF DirGood, Kind
<1>2. EndFrame(u) /\ ends'[u] = ends[u] /\ EndsOK(u) /\ TreeOK(u)
    BY EndsKept DEF DirGood, EndsInv, TreeInv
<1>3. EndsOK(u)'
    BY <1>1, <1>2 DEF EndsOK, Goes, Moves, Frame, Kind, At
<1>4. TreeOK(u)'
    BY <1>1, <1>2 DEF TreeOK, Goes, Moves, Frame, Kind, At
<1> QED BY <1>1, <1>2, <1>3, <1>4, DirOthers

\* The entry a transfer sends next is one of the remote tree.
LEMMA EntryInRange ==
    ASSUME CoreType, ProcInv, NEW u \in Proc, ~AtEnd(u)
    PROVE  NextEntry(u) \in Entry
<1> DEFINE p == Len(proc[u].prefix)
           s == Len(proc[u].sent)
<1> HIDE DEF p, s
<1>1. p \in Nat /\ s \in Nat /\ p + s + 1 =< Blocks /\ NextEntry(u) = s + 1
    BY RoomToRead DEF p, s, NextEntry
<1> QED BY <1>1, TransferAssumption DEF Entry

LEMMA DirStageKeeps ==
    ASSUME DirGood, NEW u \in Proc, DirStage(u)
    PROVE  DirGood'
<1>1. /\ proc[u].pc = "start" /\ Kind(u, {"getdir"}) /\ source' = source
      /\ CoreType /\ ProcInv /\ DirType /\ EndsOK(u) /\ TreeOK(u)
    BY DEF DirStage, At, DirGood, EndsInv, TreeInv
<1> DEFINE b == (dirs.dest # {})
           q == [ends[u] EXCEPT !.remote = "run", !.local = "run", !.existed = b]
<1>2. CASE /\ dirs' = [dirs EXCEPT !.stage[u] = dirs.dest] /\ faults' = faults
           /\ Step(u, "tar") /\ ends' = [BothRun(u) EXCEPT ![u].existed = b]
    <2>1. Moves(u) /\ Goes(u, "tar", proc[u].result) /\ SameRead(u)
        BY <1>1, <1>2, DirLands, StepMoves
    <2>2. b \in BOOLEAN
        OBVIOUS
    <2>3. ends' = [ends EXCEPT ![u] = q]
        BY <1>1, <1>2 DEF BothRun, DirType
    <2> HIDE DEF b
    <2>4. q \in EndRecord /\ q.remote = "run" /\ q.local = "run" /\ q.took = ends[u].took /\ q.existed = b
        BY <1>1, <2>2, EndFields DEF EndRecord
    <2> HIDE DEF q
    <2>5. EndFrame(u) /\ EndIs(u, "run", "run", ends[u].took, b)
        BY <1>1, <2>3, <2>4, EndsSet
    <2>6. DirFrame(u) /\ TreeIs(u, dirs.dest, dirs.dest, dirs.back[u])
        BY <1>1, <1>2, StageSet DEF DirType
    <2>7. EndsOK(u)'
        BY <1>1, <2>1, <2>5 DEF EndsOK, EndIs, Goes, Moves, Frame, Kind, At
    <2>8. TreeOK(u)'
        <3>0. proc'[u].sent = <<>>
            BY <1>1, <2>1 DEF SameRead, ProcInv, ProcOK
        <3>1. 1 .. Len(proc'[u].sent) = {}
            BY <3>0
        <3> QED BY <1>1, <2>1, <2>5, <2>6, <3>1 DEF TreeOK, EndIs, TreeIs, Goes, Moves, Frame, Kind, At
    <2> QED BY <1>1, <1>2, <2>1, <2>5, <2>6, <2>7, <2>8, DirOthers DEF CoreType
<1>3. CASE Fault /\ GiveUp(u, "dial") /\ UNCHANGED ends /\ dirs' = [dirs EXCEPT !.stage[u] = dirs.dest]
    <2>1. DirFrame(u) /\ dirs'.back[u] = {}
        BY <1>1, <1>3, StageSet DEF DirType, TreeIs, TreeOK, At
    <2>2. ends[u].remote = "none" /\ "dial" \in Results
        BY <1>1 DEF EndsOK, Results
    <2> QED BY <1>1, <1>3, <2>1, <2>2, FaultType, DirFails
<1> QED BY <1>2, <1>3 DEF DirStage

LEMMA DirReceiveKeeps ==
    ASSUME DirGood, NEW u \in Proc, DirReceive(u)
    PROVE  DirGood'
<1>1. /\ proc[u].pc = "tar" /\ ~AtEnd(u) /\ source' = source /\ faults' = faults /\ ends' = ends
      /\ CoreType /\ ProcInv /\ DirType /\ EndsOK(u) /\ TreeOK(u)
      /\ ends[u].remote = "run" /\ ends[u].local = "run"
    BY EndFields DEF DirReceive, At, DirGood, EndsInv, TreeInv
<1>2. Kind(u, {"getdir"})
    BY <1>1, PcKind
<1>3. /\ Moves(u) /\ Goes(u, "tar", proc[u].result)
      /\ proc'[u].hash = proc[u].hash /\ proc'[u].prefix = proc[u].prefix
      /\ Len(proc'[u].sent) = Len(proc[u].sent) + 1
    BY <1>1, SendMoves DEF DirReceive, Sent
<1>4. NextEntry(u) \in Entry
    BY <1>1, EntryInRange
<1>5. DirFrame(u) /\ TreeIs(u, dirs.dest, dirs.stage[u] \cup {NextEntry(u)}, dirs.back[u])
    <2>1. dirs' = [dirs EXCEPT !.stage[u] = dirs.stage[u] \cup {NextEntry(u)}]
        BY <1>1 DEF DirReceive, DirType
    <2>2. dirs.stage[u] \cup {NextEntry(u)} \in SUBSET Entry
        BY <1>1, <1>4 DEF DirType
    <2> QED BY <1>1, <2>1, <2>2, StageSet
<1>6. EndsOK(u)'
    BY <1>1, <1>2, <1>3 DEF EndsOK, Goes, Moves, Frame, Kind, At
<1>7. 1 .. Len(proc'[u].sent) \subseteq dirs'.stage[u]
    <2> DEFINE n == Len(proc[u].sent)
    <2> HIDE DEF n
    <2>1. n \in Nat /\ 1 .. n \subseteq dirs.stage[u] /\ NextEntry(u) = n + 1
        BY <1>1, RoomToRead DEF TreeOK, NextEntry, n
    <2>2. Len(proc'[u].sent) = n + 1
        BY <1>3 DEF n
    <2> QED BY <1>5, <2>1, <2>2 DEF TreeIs
<1>8. TreeOK(u)'
    BY <1>1, <1>2, <1>3, <1>5, <1>7 DEF TreeOK, TreeIs, Goes, Moves, Frame, Kind, At
<1> QED BY <1>1, <1>3, <1>5, <1>6, <1>8, EndsKept, DirOthers DEF CoreType

\* A step of the two tars of a transfer: neither the transfer nor a tree
\* changes, and the ends stay consistent.
LEMMA EndsStep ==
    ASSUME DirGood, NEW u \in Proc, UNCHANGED <<source, proc, dirs>>, faults' \in 0 .. MaxFaults,
           EndFrame(u), ends'[u].existed = ends[u].existed, EndsOK(u)'
    PROVE  DirGood'
<1>1. CoreType /\ ProcInv /\ DirType /\ TreeOK(u)
    BY DEF DirGood, TreeInv
<1>2. Moves(u)
    <2>1. proc' = proc
        OBVIOUS
    <2> QED BY <1>1, <2>1 DEF Moves, Frame, CoreType, ProcInv
<1>3. DirFrame(u)
    BY <1>1, DirsKept
<1>4. TreeOK(u)'
    BY <1>1 DEF TreeOK, Kind, At
<1> QED BY <1>2, <1>3, <1>4, DirOthers

LEMMA DirRemoteEndsKeeps ==
    ASSUME DirGood, NEW u \in Proc, DirRemoteEnds(u)
    PROVE  DirGood'
<1>1. /\ proc[u].pc = "tar" /\ UNCHANGED <<source, proc, dirs>>
      /\ CoreType /\ ProcInv /\ DirType /\ EndsOK(u) /\ faults' \in 0 .. MaxFaults
    BY FaultType DEF DirRemoteEnds, At, DirGood, EndsInv, CoreType
<1>2. PICK h \in {"ok", "exit", "lost"} : End(u, "remote", h) /\ (h = "ok" => AtEnd(u))
    BY DEF DirRemoteEnds
<1>3. EndFrame(u) /\ EndIs(u, h, ends[u].local, ends[u].took, ends[u].existed)
    BY <1>1, <1>2, EndedRemote
<1>4. Kind(u, {"getdir"})
    BY <1>1, PcKind
<1>5. EndsOK(u)'
    BY <1>1, <1>2, <1>3, <1>4 DEF EndsOK, EndIs, Kind, At, AtEnd
<1> QED BY <1>1, <1>3, <1>5, EndsStep DEF EndIs

LEMMA DirLocalEndsKeeps ==
    ASSUME DirGood, NEW u \in Proc, DirLocalEnds(u)
    PROVE  DirGood'
<1>1. /\ proc[u].pc = "tar" /\ UNCHANGED <<source, proc, dirs>>
      /\ CoreType /\ ProcInv /\ DirType /\ EndsOK(u) /\ faults' \in 0 .. MaxFaults
    BY FaultType DEF DirLocalEnds, At, DirGood, EndsInv, CoreType
<1>2. PICK h \in {"ok", "fail"} : End(u, "local", h)
    BY DEF DirLocalEnds
<1>3. EndFrame(u) /\ EndIs(u, ends[u].remote, h, ends[u].took, ends[u].existed)
    BY <1>1, <1>2, EndedLocal
<1>4. Kind(u, {"getdir"})
    BY <1>1, PcKind
<1>5. EndsOK(u)'
    BY <1>1, <1>2, <1>3, <1>4 DEF EndsOK, EndIs, Kind, At, AtEnd
<1> QED BY <1>1, <1>3, <1>5, EndsStep DEF EndIs

LEMMA DirTakesKeep ==
    ASSUME DirGood, NEW u \in Proc, DirTakeRemote(u) \/ DirTakeLocal(u)
    PROVE  DirGood'
<1>1. /\ proc[u].pc = "tar" /\ UNCHANGED <<source, faults, proc, dirs>>
      /\ CoreType /\ ProcInv /\ DirType /\ EndsOK(u)
    BY DEF DirTakeRemote, DirTakeLocal, At, DirGood, EndsInv
<1>2. Kind(u, {"getdir"})
    BY <1>1, PcKind
<1>3. CASE DirTakeRemote(u)
    <2> DEFINE h == IF ends[u].remote # "ok" THEN Killed(u) ELSE ends[u].local
               q == [ends[u] EXCEPT !.took = "remote", !.local = h]
    <2>1. h \in {"none", "run", "ok", "fail"}
        BY <1>1, EndFields DEF Killed
    <2>2. ends' = [ends EXCEPT ![u] = q]
        BY <1>3 DEF DirTakeRemote
    <2> HIDE DEF h
    <2>3. q \in EndRecord /\ q.remote = ends[u].remote /\ q.local = h /\ q.took = "remote"
              /\ q.existed = ends[u].existed
        BY <1>1, <2>1, EndFields DEF EndRecord
    <2> HIDE DEF q
    <2>4. EndFrame(u) /\ EndIs(u, ends[u].remote, h, "remote", ends[u].existed)
        BY <1>1, <2>2, <2>3, EndsSet
    <2>5. EndsOK(u)'
        BY <1>1, <1>2, <2>4 DEF EndsOK, EndIs, Kind, At, AtEnd
    <2> QED BY <1>1, <2>4, <2>5, EndsStep DEF EndIs, CoreType
<1>4. CASE DirTakeLocal(u)
    <2>1. EndFrame(u) /\ EndIs(u, ends[u].remote, ends[u].local, "local", ends[u].existed)
        BY <1>1, <1>4, EndedTook DEF DirTakeLocal
    <2>2. EndsOK(u)'
        BY <1>1, <1>2, <2>1 DEF EndsOK, EndIs, Kind, At, AtEnd
    <2> QED BY <1>1, <2>1, <2>2, EndsStep DEF EndIs, CoreType
<1> QED BY <1>3, <1>4

\* A step that only closes the link of a transfer or remembers its deadline.
LEMMA DirLinkStep ==
    ASSUME DirGood, NEW u \in Proc, Frame(u), Goes(u, proc[u].pc, proc[u].result), SameRead(u),
           source' = source, faults' \in 0 .. MaxFaults, dirs' = dirs, ends' = ends
    PROVE  DirGood'
<1>1. CoreType /\ ProcInv /\ DirType /\ EndsOK(u) /\ TreeOK(u)
    BY DEF DirGood, EndsInv, TreeInv
<1>2. Moves(u)
    BY <1>1, StayMoves
<1>3. EndFrame(u) /\ DirFrame(u)
    BY <1>1, EndsKept, DirsKept
<1>4. EndsOK(u)'
    BY <1>1 DEF EndsOK, Frame, Goes, SameRead, Kind, At, AtEnd
<1>5. TreeOK(u)'
    BY <1>1 DEF TreeOK, Frame, Goes, SameRead, Kind, At
<1> QED BY <1>2, <1>3, <1>4, <1>5, DirOthers

LEMMA DirGraceKeeps ==
    ASSUME DirGood, NEW u \in Proc, DirGrace(u) \/ TreeGrace(u)
    PROVE  DirGood'
<1>1. /\ UNCHANGED <<source, faults, dirs, ends>> /\ CoreType /\ faults' \in 0 .. MaxFaults
      /\ proc' = [proc EXCEPT ![u].link = "closed"]
    BY DEF DirGrace, TreeGrace, dirVars, DirGood, CoreType
<1> QED BY <1>1, LinkStep, DirLinkStep

LEMMA DirDeadlineKeeps ==
    ASSUME DirGood, NEW u \in Proc, DirDeadline(u)
    PROVE  DirGood'
<1>1. /\ proc[u].pc = "tar" /\ UNCHANGED <<source, faults, dirs>> /\ faults' \in 0 .. MaxFaults
      /\ proc' = [proc EXCEPT ![u].late = TRUE, ![u].link = "closed"]
      /\ CoreType /\ ProcInv /\ DirType /\ EndsOK(u) /\ TreeOK(u) /\ Kind(u, {"getdir"})
    BY DEF DirDeadline, Deadline, At, DirGood, EndsInv, TreeInv, CoreType
<1>2. Killed(u) \in {"none", "run", "ok", "fail"}
    BY <1>1, EndFields DEF Killed
<1>3. EndFrame(u) /\ EndIs(u, ends[u].remote, Killed(u), ends[u].took, ends[u].existed)
    BY <1>1, <1>2, EndedLocal DEF DirDeadline
<1>4. Moves(u) /\ Goes(u, proc[u].pc, proc[u].result) /\ SameRead(u)
    BY <1>1, ClosedStep, StayMoves
<1>5. DirFrame(u)
    BY <1>1, DirsKept
<1>6. EndsOK(u)'
    BY <1>1, <1>3, <1>4 DEF EndsOK, EndIs, Moves, Frame, Goes, SameRead, Kind, At, AtEnd
<1>7. TreeOK(u)'
    BY <1>1, <1>3, <1>4 DEF TreeOK, EndIs, Moves, Frame, Goes, SameRead, Kind, At
<1> QED BY <1>1, <1>3, <1>4, <1>5, <1>6, <1>7, DirOthers

LEMMA DirDecideKeeps ==
    ASSUME DirGood, NEW u \in Proc, DirDecide(u)
    PROVE  DirGood'
<1>1. /\ proc[u].pc = "tar" /\ source' = source /\ ends' = ends
      /\ CoreType /\ ProcInv /\ DirType /\ EndsOK(u) /\ TreeOK(u)
    BY DEF DirDecide, At, DirGood, EndsInv, TreeInv, dirVars
<1>2. Kind(u, {"getdir"}) /\ dirs.back[u] = {}
    <2>1. Kind(u, {"getdir"})
        BY <1>1, PcKind
    <2>2. dirs.back[u] = {}
        BY <1>1 DEF TreeOK
    <2> QED BY <2>1, <2>2
<1>3. ends[u].remote = "exit" => First(u) = "remote"
    BY DEF First
<1>4. First(u) = "none" => ends[u].remote = "ok"
    BY DEF First
<1> DEFINE r == IF First(u) = "local" THEN "local_write" ELSE "remote_read"
<1>5. CASE First(u) # "none" /\ GiveUp(u, LateOr(u, r)) /\ faults' = faults /\ dirs' = dirs
    <2>1. r \in Results /\ r # "ok"
        BY DEF Results
    <2>2. LateOr(u, r) \in Results /\ LateOr(u, r) # "ok"
        BY <1>1, <2>1, LateOrIsResult
    <2>3. ends[u].remote = "exit" => LateOr(u, r) \in {"remote_read", "remote_extract", "timeout", "killed"}
        BY <1>3 DEF LateOr
    <2> HIDE DEF r
    <2>4. DirFrame(u) /\ dirs'.back[u] = {}
        BY <1>1, <1>2, <1>5, DirsKept
    <2> QED BY <1>1, <1>2, <1>5, <2>2, <2>3, <2>4, DirFails DEF CoreType
<1>6. CASE First(u) = "none" /\ GiveUp(u, "local_write") /\ (UNCHANGED faults \/ Fault) /\ dirs' = dirs
    <2>1. "local_write" \in Results /\ faults' \in 0 .. MaxFaults
        BY <1>1, <1>6, FaultType DEF Results, CoreType
    <2>2. DirFrame(u) /\ dirs'.back[u] = {}
        BY <1>1, <1>2, <1>6, DirsKept
    <2> QED BY <1>1, <1>2, <1>4, <1>6, <2>1, <2>2, DirFails
<1>7. CASE /\ First(u) = "none" /\ UNCHANGED <<dirs, faults>>
           /\ Step(u, IF ends[u].existed THEN "treeAside" ELSE "place")
    <2> DEFINE l == IF ends[u].existed THEN "treeAside" ELSE "place"
    <2>1. l \in {"treeAside", "place"} /\ (l = "treeAside" => ends[u].existed)
        OBVIOUS
    <2>2. Step(u, l)
        BY <1>7
    <2> HIDE DEF l
    <2>3. Moves(u) /\ Goes(u, l, proc[u].result) /\ SameRead(u)
        BY <1>1, <1>2, <2>1, <2>2, DirLands, StepMoves
    <2>4. EndsOK(u)'
        BY <1>1, <1>2, <1>4, <1>7, <2>1, <2>3 DEF EndsOK, Moves, Frame, Goes, SameRead, Kind, At, AtEnd
    <2>5. TreeOK(u)'
        BY <1>1, <1>2, <1>7, <2>1, <2>3 DEF TreeOK, Moves, Frame, Goes, SameRead, Kind, At
    <2> QED BY <1>1, <1>7, <2>3, <2>4, <2>5, EndsKept, DirsKept, DirOthers DEF CoreType
<1> QED BY <1>5, <1>6, <1>7 DEF DirDecide, dirVars, FailsIf

LEMMA DirAsideKeeps ==
    ASSUME DirGood, NEW u \in Proc, DirAside(u)
    PROVE  DirGood'
<1>1. /\ proc[u].pc = "treeAside" /\ source' = source /\ ends' = ends
      /\ CoreType /\ ProcInv /\ DirType /\ EndsOK(u) /\ TreeOK(u)
    BY DEF DirAside, At, DirGood, EndsInv, TreeInv
<1>2. Kind(u, {"getdir"}) /\ dirs.back[u] = {} /\ ends[u].remote = "ok" /\ AtEnd(u)
    BY <1>1, PcKind DEF TreeOK, EndsOK, At
<1>3. CASE /\ dirs.dest # {} /\ Step(u, "place") /\ faults' = faults
           /\ dirs' = [dirs EXCEPT !.back[u] = dirs.dest, !.dest = {}]
    <2>1. Moves(u) /\ Goes(u, "place", proc[u].result) /\ SameRead(u)
        BY <1>1, <1>2, <1>3, DirLands, StepMoves
    <2>2. DirFrame(u) /\ TreeIs(u, {}, dirs.stage[u], dirs.dest)
        BY <1>1, <1>3 DEF DirType, DirFrame, TreeIs
    <2>3. EndsOK(u)'
        BY <1>1, <1>2, <2>1 DEF EndsOK, Moves, Frame, Goes, SameRead, Kind, At, AtEnd
    <2>4. ends[u].existed
        BY <1>1 DEF TreeOK
    <2>5. TreeOK(u)'
        BY <1>1, <1>2, <2>1, <2>2, <2>4 DEF TreeOK, TreeIs, Moves, Frame, Goes, SameRead, Kind, At
    <2> QED BY <1>1, <1>3, <2>1, <2>2, <2>3, <2>5, EndsKept, DirOthers DEF CoreType
<1>4. CASE FailsIf(dirs.dest = {}) /\ GiveUp(u, "publish") /\ UNCHANGED dirs
    <2>1. "publish" \in Results /\ faults' \in 0 .. MaxFaults /\ DirFrame(u) /\ dirs'.back[u] = {}
        BY <1>1, <1>2, <1>4, FaultType, DirsKept DEF Results, CoreType, FailsIf
    <2> QED BY <1>1, <1>2, <1>4, <2>1, DirFails
<1> QED BY <1>3, <1>4 DEF DirAside

LEMMA DirPlaceKeeps ==
    ASSUME DirGood, NEW u \in Proc, DirPlace(u)
    PROVE  DirGood'
<1>1. /\ proc[u].pc = "place" /\ source' = source /\ ends' = ends
      /\ CoreType /\ ProcInv /\ DirType /\ EndsOK(u) /\ TreeOK(u)
    BY DEF DirPlace, At, DirGood, EndsInv, TreeInv
<1>2. Kind(u, {"getdir"}) /\ ends[u].remote = "ok" /\ AtEnd(u)
    BY <1>1, PcKind DEF EndsOK
<1>3. CASE /\ dirs.dest = {} /\ Step(u, "drop") /\ faults' = faults
           /\ dirs' = [dirs EXCEPT !.dest = dirs.stage[u], !.stage[u] = {}]
    <2>1. Moves(u) /\ Goes(u, "drop", proc[u].result) /\ SameRead(u)
        BY <1>1, <1>2, <1>3, DirLands, StepMoves
    <2>2. DirFrame(u) /\ TreeIs(u, dirs.stage[u], {}, dirs.back[u])
        BY <1>1, <1>3 DEF DirType, DirFrame, TreeIs
    <2>3. EndsOK(u)'
        BY <1>1, <1>2, <2>1 DEF EndsOK, Moves, Frame, Goes, SameRead, Kind, At, AtEnd
    <2>4. TreeOK(u)'
        BY <1>1, <1>2, <2>1, <2>2 DEF TreeOK, TreeIs, Moves, Frame, Goes, SameRead, Kind, At
    <2> QED BY <1>1, <1>3, <2>1, <2>2, <2>3, <2>4, EndsKept, DirOthers DEF CoreType
<1>4. CASE FailsIf(dirs.dest # {}) /\ ends[u].existed /\ Step(u, "putTree") /\ UNCHANGED dirs
    <2>1. Moves(u) /\ Goes(u, "putTree", proc[u].result) /\ SameRead(u)
        BY <1>1, <1>2, <1>4, DirLands, StepMoves
    <2>2. faults' \in 0 .. MaxFaults
        BY <1>1, <1>4, FaultType DEF CoreType, FailsIf
    <2>3. EndsOK(u)'
        BY <1>1, <1>2, <2>1 DEF EndsOK, Moves, Frame, Goes, SameRead, Kind, At, AtEnd
    <2>4. TreeOK(u)'
        BY <1>1, <1>2, <1>4, <2>1 DEF TreeOK, Moves, Frame, Goes, SameRead, Kind, At
    <2> QED BY <1>1, <1>4, <2>1, <2>2, <2>3, <2>4, EndsKept, DirsKept, DirOthers
<1>5. CASE FailsIf(dirs.dest # {}) /\ ~ends[u].existed /\ GiveUp(u, "publish") /\ UNCHANGED dirs
    <2>1. "publish" \in Results /\ faults' \in 0 .. MaxFaults /\ DirFrame(u)
        BY <1>1, <1>5, FaultType, DirsKept DEF Results, CoreType, FailsIf
    <2>2. dirs'.back[u] = {}
        BY <1>1, <1>5 DEF TreeOK
    <2> QED BY <1>1, <1>2, <1>5, <2>1, <2>2, DirFails
<1> QED BY <1>3, <1>4, <1>5 DEF DirPlace

LEMMA DirRestoreKeeps ==
    ASSUME DirGood, NEW u \in Proc, DirRestore(u)
    PROVE  DirGood'
<1>1. /\ proc[u].pc = "putTree" /\ source' = source /\ ends' = ends
      /\ CoreType /\ ProcInv /\ DirType /\ EndsOK(u) /\ TreeOK(u)
    BY DEF DirRestore, At, DirGood, EndsInv, TreeInv
<1>2. Kind(u, {"getdir"}) /\ ends[u].remote = "ok" /\ AtEnd(u)
    BY <1>1, PcKind DEF EndsOK
<1>3. CASE /\ dirs.dest = {} /\ GiveUp(u, "publish") /\ faults' = faults
           /\ dirs' = [dirs EXCEPT !.dest = dirs.back[u], !.back[u] = {}]
    <2>1. DirFrame(u) /\ dirs'.back[u] = {} /\ "publish" \in Results
        BY <1>1, <1>3 DEF DirType, DirFrame, Results
    <2> QED BY <1>1, <1>2, <1>3, <2>1, DirFails DEF CoreType
<1>4. CASE FailsIf(dirs.dest # {}) /\ GiveUp(u, "restore_failed") /\ UNCHANGED dirs
    <2>1. "restore_failed" \in Results /\ faults' \in 0 .. MaxFaults /\ DirFrame(u)
        BY <1>1, <1>4, FaultType, DirsKept DEF Results, CoreType, FailsIf
    <2> QED BY <1>1, <1>2, <1>4, <2>1, DirFails
<1> QED BY <1>3, <1>4 DEF DirRestore

\* What the removal of the backup, and of the staging tree, leaves.
LEMMA DroppedFrame ==
    ASSUME DirType, NEW u \in Proc, DirDrop(u)
    PROVE  /\ DirFrame(u) /\ TreeIs(u, dirs.dest, dirs.stage[u], dirs'.back[u]) /\ dirs'.dest = dirs.dest
           /\ dirs'.back[u] \subseteq dirs.back[u] /\ (dirs'.back[u] # {} => u \in dirs'.unremoved)
<1>1. CASE dirs' = [dirs EXCEPT !.back[u] = {}]
    BY <1>1 DEF DirType, DirFrame, TreeIs
<1>2. ASSUME NEW left \in SUBSET dirs.back[u], dirs' = [dirs EXCEPT !.back[u] = left, !.unremoved = @ \cup {u}]
      PROVE  /\ DirFrame(u) /\ TreeIs(u, dirs.dest, dirs.stage[u], dirs'.back[u]) /\ dirs'.dest = dirs.dest
             /\ dirs'.back[u] \subseteq dirs.back[u] /\ u \in dirs'.unremoved
    <2>1. left \in SUBSET Entry
        BY DEF DirType
    <2> QED BY <1>2, <2>1 DEF DirType, DirFrame, TreeIs
<1> QED BY <1>1, <1>2 DEF DirDrop

LEMMA CleanedFrame ==
    ASSUME DirType, NEW u \in Proc, DirCleanup(u)
    PROVE  /\ DirFrame(u) /\ TreeIs(u, dirs.dest, dirs'.stage[u], dirs.back[u])
           /\ dirs'.dest = dirs.dest /\ dirs'.back[u] = dirs.back[u]
           /\ dirs'.stage[u] # {} => u \in dirs'.unremoved
<1>1. CASE dirs' = [dirs EXCEPT !.stage[u] = {}]
    BY <1>1 DEF DirType, DirFrame, TreeIs
<1>2. ASSUME NEW left \in SUBSET dirs.stage[u], dirs' = [dirs EXCEPT !.stage[u] = left, !.unremoved = @ \cup {u}]
      PROVE  /\ DirFrame(u) /\ TreeIs(u, dirs.dest, dirs'.stage[u], dirs.back[u])
             /\ dirs'.dest = dirs.dest /\ dirs'.back[u] = dirs.back[u] /\ u \in dirs'.unremoved
    <2>1. left \in SUBSET Entry
        BY DEF DirType
    <2> QED BY <1>2, <2>1 DEF DirType, DirFrame, TreeIs
<1> QED BY <1>1, <1>2 DEF DirCleanup

LEMMA DirDropKeeps ==
    ASSUME DirGood, NEW u \in Proc, DirDrop(u)
    PROVE  DirGood'
<1>1. /\ proc[u].pc = "drop" /\ UNCHANGED <<source, ends>> /\ Finish(u, "ok") /\ faults' \in 0 .. MaxFaults
      /\ CoreType /\ ProcInv /\ DirType /\ EndsOK(u) /\ TreeOK(u)
    BY FaultType DEF DirDrop, At, DirGood, EndsInv, TreeInv, CoreType
<1>2. Kind(u, {"getdir"}) /\ ends[u].remote = "ok" /\ AtEnd(u)
    BY <1>1, PcKind DEF EndsOK
<1>3. Moves(u) /\ Goes(u, "done", "ok") /\ SameRead(u) /\ EndFrame(u) /\ EndsOK(u)'
    BY <1>1, <1>2, DirFinish DEF Kind, Results
<1>4. /\ DirFrame(u) /\ TreeIs(u, dirs.dest, dirs.stage[u], dirs'.back[u])
      /\ dirs'.back[u] \subseteq dirs.back[u] /\ (dirs'.back[u] # {} => u \in dirs'.unremoved)
    BY <1>1, DroppedFrame
<1>5. TreeOK(u)'
    BY <1>1, <1>2, <1>3, <1>4 DEF TreeOK, TreeIs, Goes, Moves, Frame, Kind, At
<1> QED BY <1>1, <1>3, <1>4, <1>5, DirOthers

LEMMA DirCleanupKeeps ==
    ASSUME DirGood, NEW u \in Proc, DirCleanup(u)
    PROVE  DirGood'
<1>1. /\ proc[u].pc = "cleanup" /\ UNCHANGED <<source, ends>> /\ Step(u, "done") /\ faults' \in 0 .. MaxFaults
      /\ CoreType /\ ProcInv /\ DirType /\ EndsOK(u) /\ TreeOK(u) /\ Kind(u, {"getdir"}) /\ ProcOK(proc[u])
    BY FaultType DEF DirCleanup, At, DirGood, EndsInv, TreeInv, CoreType, ProcInv
<1>2. Moves(u) /\ Goes(u, "done", proc[u].result) /\ SameRead(u)
    <2>1. "done" \in Pcs
        BY DEF Pcs, DirPc
    <2> QED BY <1>1, <2>1, DoneLands, StepMoves
<1>3. proc[u].result # "ok"
    BY <1>1 DEF ProcOK
<1>4. EndFrame(u) /\ ends'[u] = ends[u]
    BY <1>1, EndsKept
<1>5. EndsOK(u)'
    BY <1>1, <1>2, <1>3, <1>4 DEF EndsOK, Goes, Moves, Frame, Kind, At
<1>6. /\ DirFrame(u) /\ TreeIs(u, dirs.dest, dirs'.stage[u], dirs.back[u])
      /\ dirs'.stage[u] # {} => u \in dirs'.unremoved
    BY <1>1, CleanedFrame
<1>7. TreeOK(u)'
    BY <1>1, <1>2, <1>3, <1>4, <1>6 DEF TreeOK, TreeIs, Goes, Moves, Frame, Kind, At
<1> QED BY <1>1, <1>2, <1>4, <1>5, <1>6, <1>7, DirOthers

LEMMA DirKilledKeeps ==
    ASSUME DirGood, NEW u \in Proc, DirKilled(u)
    PROVE  DirGood'
<1>1. /\ proc[u].pc \in {"tar", "treeAside", "place", "putTree", "drop", "cleanup"} /\ Kind(u, {"getdir"})
      /\ UNCHANGED <<source, ends, dirs>> /\ Finish(u, "killed") /\ faults' \in 0 .. MaxFaults
      /\ CoreType /\ ProcInv /\ DirType /\ EndsOK(u) /\ TreeOK(u)
    BY FaultType DEF DirKilled, DirGood, EndsInv, TreeInv, dirVars
<1>2. Moves(u) /\ Goes(u, "done", "killed") /\ SameRead(u) /\ EndFrame(u) /\ EndsOK(u)'
    BY <1>1, DirFinish DEF Kind, Results
<1>3. TreeOK(u)'
    BY <1>1, <1>2 DEF TreeOK, Moves, Frame, Goes, SameRead, Kind, At
<1> QED BY <1>1, <1>2, <1>3, DirsKept, DirOthers

LEMMA DirSaveKeeps ==
    ASSUME DirGood, DirSave
    PROVE  DirGood'
<1>1. UNCHANGED <<source, faults, proc, ends>> /\ CoreType /\ ProcInv /\ DirType /\ EndsInv /\ TreeInv
    BY DEF DirSave, DirGood
<1>2. Blocks + 1 \in Entry
    BY TransferAssumption DEF Entry
<1>3. /\ dirs' \in [first : SUBSET Entry, dest : SUBSET Entry, stage : [Proc -> SUBSET Entry],
                    back : [Proc -> SUBSET Entry], tree : SUBSET Entry, unremoved : SUBSET Proc]
      /\ dirs'.stage = dirs.stage /\ dirs'.back = dirs.back /\ dirs'.tree = dirs.tree
      /\ dirs'.unremoved = dirs.unremoved
    BY <1>1, <1>2 DEF DirSave, DirType
<1>4. CoreType' /\ ProcInv' /\ DirType'
    BY <1>1, <1>3 DEF CoreType, ProcInv, DirType
<1>5. EndsInv'
    BY <1>1 DEF EndsInv, EndsOK, Kind, At, AtEnd
<1>6. TreeInv'
    BY <1>1, <1>3 DEF TreeInv, TreeOK, Kind, At
<1> QED BY <1>4, <1>5, <1>6 DEF DirGood

LEMMA TreeOpenKeeps ==
    ASSUME DirGood, NEW u \in Proc, TreeOpen(u)
    PROVE  DirGood'
<1>1. /\ proc[u].pc = "start" /\ Kind(u, {"putdir"}) /\ UNCHANGED <<source, dirs>>
      /\ CoreType /\ ProcInv /\ DirType /\ EndsOK(u) /\ TreeOK(u)
    BY DEF TreeOpen, At, DirGood, EndsInv, TreeInv
<1>2. ends[u].remote = "none"
    BY <1>1 DEF EndsOK
<1>3. CASE Step(u, "tarput") /\ ends' = BothRun(u) /\ faults' = faults
    <2> DEFINE q == [ends[u] EXCEPT !.remote = "run", !.local = "run"]
    <2>1. Moves(u) /\ Goes(u, "tarput", proc[u].result) /\ SameRead(u)
        BY <1>1, <1>3, TreeLands, StepMoves
    <2>2. ends' = [ends EXCEPT ![u] = q]
        BY <1>1, <1>3 DEF BothRun, DirType
    <2>3. q \in EndRecord /\ q.remote = "run" /\ q.local = "run" /\ q.took = ends[u].took
              /\ q.existed = ends[u].existed
        BY <1>1, EndFields DEF EndRecord
    <2> HIDE DEF q
    <2>4. EndFrame(u) /\ EndIs(u, "run", "run", ends[u].took, ends[u].existed)
        BY <1>1, <2>2, <2>3, EndsSet
    <2>5. EndsOK(u)'
        BY <1>1, <2>1, <2>4 DEF EndsOK, EndIs, Goes, Moves, Frame, Kind, At
    <2>6. TreeOK(u)'
        BY <1>1, <2>1, <2>4 DEF TreeOK, EndIs, Goes, Moves, Frame, SameRead, Kind, At
    <2> QED BY <1>1, <1>3, <2>1, <2>4, <2>5, <2>6, DirsKept, DirOthers DEF CoreType
<1>4. CASE Fault /\ Step(u, "validate") /\ UNCHANGED ends
    <2>1. Moves(u) /\ Goes(u, "validate", proc[u].result) /\ SameRead(u)
        BY <1>1, <1>4, TreeLands, StepMoves
    <2>2. EndsOK(u)'
        BY <1>1, <1>2, <1>4, <2>1 DEF EndsOK, Goes, Moves, Frame, Kind, At
    <2>3. TreeOK(u)'
        BY <1>1, <1>4, <2>1 DEF TreeOK, Goes, Moves, Frame, SameRead, Kind, At
    <2> QED BY <1>1, <1>4, <2>1, <2>2, <2>3, FaultType, EndsKept, DirsKept, DirOthers
<1>5. CASE Fault /\ Finish(u, "dial") /\ UNCHANGED ends
    <2>1. Moves(u) /\ Goes(u, "done", "dial") /\ SameRead(u) /\ EndFrame(u) /\ EndsOK(u)'
        BY <1>1, <1>2, <1>5, DirFinish DEF Kind, Results
    <2>2. TreeOK(u)'
        BY <1>1, <1>5, <2>1 DEF TreeOK, Goes, Moves, Frame, SameRead, Kind, At
    <2> QED BY <1>1, <1>5, <2>1, <2>2, FaultType, DirsKept, DirOthers
<1> QED BY <1>3, <1>4, <1>5 DEF TreeOpen

\* An entry arrives in the remote tree.
LEMMA TreeGrows ==
    ASSUME DirGood, NEW u \in Proc, Kind(u, {"putdir"}), proc[u].pc # "start", ~AtEnd(u),
           dirs' = [dirs EXCEPT !.tree = @ \cup {NextEntry(u)}], proc' = Sent(u), ends' = ends,
           proc[u].pc = "tarput" => ends[u].local # "ok" /\ ends[u].remote # "ok", proc[u].pc # "done",
           source' = source, faults' = faults
    PROVE  DirGood'
<1>1. CoreType /\ ProcInv /\ DirType /\ EndsOK(u) /\ TreeOK(u)
    BY DEF DirGood, EndsInv, TreeInv
<1>2. proc[u].pc \notin {"probe", "create", "meta", "mktemp", "tar", "treeAside", "place", "putTree", "drop"}
    BY <1>1, PcKind DEF Kind, SftpPc, SftpKinds, ShellPc, ShellKinds
<1>3. /\ Moves(u) /\ Goes(u, proc[u].pc, proc[u].result)
      /\ Len(proc'[u].sent) = Len(proc[u].sent) + 1
    BY <1>1, <1>2, SendMoves DEF Sent
<1>4. NextEntry(u) \in Entry
    BY <1>1, EntryInRange
<1>5. /\ DirFrame(u) /\ TreeIs(u, dirs.dest, dirs.stage[u], dirs.back[u])
      /\ dirs'.tree = dirs.tree \cup {NextEntry(u)}
    BY <1>1, <1>4, TreeAdds
<1>6. EndsOK(u)'
    BY <1>1, <1>2, <1>3 DEF EndsOK, Goes, Moves, Frame, Kind, At
<1>7. 1 .. Len(proc'[u].sent) \subseteq dirs'.tree
    <2> DEFINE n == Len(proc[u].sent)
    <2> HIDE DEF n
    <2>1. n \in Nat /\ 1 .. n \subseteq dirs.tree /\ NextEntry(u) = n + 1
        BY <1>1, RoomToRead DEF TreeOK, NextEntry, n
    <2>2. Len(proc'[u].sent) = n + 1
        BY <1>3 DEF n
    <2> QED BY <1>5, <2>1, <2>2
<1>8. TreeOK(u)'
    BY <1>1, <1>2, <1>3, <1>5, <1>7 DEF TreeOK, TreeIs, Goes, Moves, Frame, Kind, At
<1> QED BY <1>1, <1>3, <1>5, <1>6, <1>8, EndsKept, DirOthers DEF CoreType

LEMMA TreeSendKeeps ==
    ASSUME DirGood, NEW u \in Proc, TreeSend(u)
    PROVE  DirGood'
<1>1. /\ proc[u].pc = "tarput" /\ CoreType /\ ProcInv /\ DirType
      /\ ends[u].remote = "run" /\ ends[u].local = "run"
    BY EndFields DEF TreeSend, At, DirGood
<1>2. Kind(u, {"putdir"})
    BY <1>1, PcKind
<1> QED BY <1>1, <1>2, TreeGrows DEF TreeSend

LEMMA TreeLocalEndsKeeps ==
    ASSUME DirGood, NEW u \in Proc, TreeLocalEnds(u)
    PROVE  DirGood'
<1>1. /\ proc[u].pc = "tarput" /\ UNCHANGED <<source, proc, dirs>>
      /\ CoreType /\ ProcInv /\ DirType /\ EndsOK(u) /\ faults' \in 0 .. MaxFaults
      /\ ends[u].local = "run"
    BY FaultType, EndFields DEF TreeLocalEnds, At, DirGood, EndsInv, CoreType
<1>2. PICK h \in {"ok", "fail"} : End(u, "local", h) /\ (h = "ok" => AtEnd(u) \/ ~Running(u, "remote"))
    BY DEF TreeLocalEnds
<1>3. EndFrame(u) /\ EndIs(u, ends[u].remote, h, ends[u].took, ends[u].existed)
    BY <1>1, <1>2, EndedLocal
<1>4. Kind(u, {"putdir"})
    BY <1>1, PcKind
<1>5. ends[u].remote \in {"run", "exit", "lost", "ok"} /\ (~AtEnd(u) => ends[u].remote # "ok")
    BY <1>1, EndFields DEF EndsOK, At
<1>6. h = "ok" /\ ~AtEnd(u) => ends[u].remote \in {"exit", "lost"}
    BY <1>1, <1>2, <1>5, EndFields
<1>7. EndsOK(u)'
    BY <1>1, <1>3, <1>4, <1>5, <1>6 DEF EndsOK, EndIs, Kind, At, AtEnd
<1> QED BY <1>1, <1>3, <1>7, EndsStep DEF EndIs

LEMMA TreeRemoteEndsKeeps ==
    ASSUME DirGood, NEW u \in Proc, TreeRemoteEnds(u)
    PROVE  DirGood'
<1>1. /\ proc[u].pc = "tarput" /\ UNCHANGED <<source, proc, dirs>>
      /\ CoreType /\ ProcInv /\ DirType /\ EndsOK(u) /\ faults' \in 0 .. MaxFaults
      /\ ends[u].remote = "run"
    BY FaultType, EndFields DEF TreeRemoteEnds, At, DirGood, EndsInv, CoreType
<1>2. PICK h \in {"ok", "exit", "lost"} : End(u, "remote", h) /\ (h = "ok" => AtEnd(u) \/ ~Running(u, "local"))
    BY DEF TreeRemoteEnds
<1>3. EndFrame(u) /\ EndIs(u, h, ends[u].local, ends[u].took, ends[u].existed)
    BY <1>1, <1>2, EndedRemote
<1>4. Kind(u, {"putdir"})
    BY <1>1, PcKind
<1>5. ends[u].local \in {"run", "ok", "fail"} /\ (~AtEnd(u) => ends[u].local # "ok")
    BY <1>1, EndFields DEF EndsOK, At
<1>6. h = "ok" /\ ~AtEnd(u) => ends[u].local = "fail"
    BY <1>1, <1>2, <1>5, EndFields
<1>7. EndsOK(u)'
    BY <1>1, <1>2, <1>3, <1>4, <1>5, <1>6 DEF EndsOK, EndIs, Kind, At, AtEnd
<1> QED BY <1>1, <1>3, <1>7, EndsStep DEF EndIs

LEMMA TreeDecideKeeps ==
    ASSUME DirGood, NEW u \in Proc, TreeDecide(u)
    PROVE  DirGood'
<1>1. /\ proc[u].pc = "tarput" /\ UNCHANGED <<source, faults, dirs, ends>> /\ Finish(u, TreeOutcome(u))
      /\ CoreType /\ ProcInv /\ DirType /\ EndsOK(u) /\ TreeOK(u)
      /\ ends[u].remote # "run" /\ ends[u].local # "run"
    BY EndFields DEF TreeDecide, At, DirGood, EndsInv, TreeInv, dirVars
<1>2. Kind(u, {"putdir"})
    BY <1>1, PcKind
<1>3. ends[u].remote = "exit" => TreeOutcome(u) = "remote_extract"
    BY DEF TreeOutcome
<1>4. ends[u].remote \in {"ok", "exit", "lost"} /\ ends[u].local \in {"ok", "fail"}
    BY <1>1, EndFields DEF EndsOK, At
<1>5. TreeOutcome(u) \in Results /\ (TreeOutcome(u) = "ok" => AtEnd(u))
    BY <1>1, <1>4 DEF Results, EndsOK, At, TreeOutcome
<1>6. Moves(u) /\ Goes(u, "done", TreeOutcome(u)) /\ SameRead(u) /\ EndFrame(u) /\ EndsOK(u)'
    BY <1>1, <1>2, <1>3, <1>5, DirFinish DEF Kind
<1>7. TreeOK(u)'
    BY <1>1, <1>2, <1>6 DEF TreeOK, Goes, Moves, Frame, SameRead, Kind, At
<1> QED BY <1>1, <1>6, <1>7, DirsKept, DirOthers DEF CoreType

LEMMA TreeWalkKeeps ==
    ASSUME DirGood, NEW u \in Proc, TreeWalk(u)
    PROVE  DirGood'
<1>1. /\ proc[u].pc \in {"validate", "walk"} /\ UNCHANGED <<source, ends>>
      /\ CoreType /\ ProcInv /\ DirType /\ EndsOK(u) /\ TreeOK(u)
    BY DEF TreeWalk, At, DirGood, EndsInv, TreeInv
<1>2. Kind(u, {"putdir"}) /\ ends[u].remote = "none"
    BY <1>1, PcKind DEF EndsOK
<1>3. CASE Step(u, "walk") /\ UNCHANGED <<faults, dirs>>
    <2>1. Moves(u) /\ Goes(u, "walk", proc[u].result) /\ SameRead(u)
        BY <1>1, <1>2, <1>3, TreeLands, StepMoves
    <2>2. EndsOK(u)'
        BY <1>1, <1>2, <2>1 DEF EndsOK, Goes, Moves, Frame, Kind, At
    <2>3. TreeOK(u)'
        BY <1>1, <1>2, <1>3, <2>1 DEF TreeOK, Goes, Moves, Frame, SameRead, Kind, At
    <2> QED BY <1>1, <1>3, <2>1, <2>2, <2>3, EndsKept, DirsKept, DirOthers DEF CoreType
<1>4. CASE /\ ~AtEnd(u) /\ proc' = Sent(u) /\ faults' = faults
           /\ dirs' = [dirs EXCEPT !.tree = @ \cup {NextEntry(u)}]
    BY <1>1, <1>2, <1>4, TreeGrows
<1>5. CASE AtEnd(u) /\ Finish(u, "ok") /\ UNCHANGED <<faults, dirs>>
    <2>1. Moves(u) /\ Goes(u, "done", "ok") /\ SameRead(u) /\ EndFrame(u) /\ EndsOK(u)'
        BY <1>1, <1>2, <1>5, DirFinish DEF Kind, Results
    <2>2. TreeOK(u)'
        BY <1>1, <1>2, <1>5, <2>1 DEF TreeOK, Goes, Moves, Frame, SameRead, Kind, At
    <2> QED BY <1>1, <1>5, <2>1, <2>2, DirsKept, DirOthers DEF CoreType
<1>6. CASE Fault /\ Finish(u, "failed") /\ UNCHANGED dirs
    <2>1. Moves(u) /\ Goes(u, "done", "failed") /\ SameRead(u) /\ EndFrame(u) /\ EndsOK(u)'
        BY <1>1, <1>2, <1>6, DirFinish DEF Kind, Results
    <2>2. TreeOK(u)'
        BY <1>1, <1>2, <1>6, <2>1 DEF TreeOK, Goes, Moves, Frame, SameRead, Kind, At
    <2> QED BY <1>1, <1>6, <2>1, <2>2, FaultType, DirsKept, DirOthers
<1> QED BY <1>3, <1>4, <1>5, <1>6 DEF TreeWalk

LEMMA DirNextKeeps ==
    ASSUME DirGood, NEW u \in Proc, DirNext(u)
    PROVE  DirGood'
BY DirStageKeeps, DirReceiveKeeps, DirRemoteEndsKeeps, DirLocalEndsKeeps, DirTakesKeep, DirGraceKeeps,
   DirDecideKeeps, DirAsideKeeps, DirPlaceKeeps, DirRestoreKeeps, DirDropKeeps, DirCleanupKeeps,
   DirKilledKeeps, DirDeadlineKeeps,
   TreeOpenKeeps, TreeSendKeeps, TreeLocalEndsKeeps, TreeRemoteEndsKeeps, TreeDecideKeeps, TreeWalkKeeps
   DEF DirNext, DirSteps

-----------------------------------------------------------------------------
(* Downloads of a file                                                     *)

LocalGood == CoreType /\ ProcInv /\ LocalType /\ StageInv /\ LocalInv

\* A version of the source is a file of the full size.
LEMMA ContentIsWhole ==
    ASSUME NEW v \in Version
    PROVE  Content(v) \in Seq(Block) /\ Len(Content(v)) = Blocks
<1>1. \A i \in 1 .. Blocks : <<v, i>> \in Block
    BY DEF Block
<1> QED BY <1>1, TransferAssumption DEF Content

LEMMA LocalOthers ==
    ASSUME LocalGood, NEW u \in Proc, Moves(u), source' = source, faults' \in 0 .. MaxFaults,
           local' \in Seq(Block), staged' \subseteq Proc, stage' \in [Proc -> Seq(Block)],
           unremoved' \subseteq Proc, unremoved \subseteq unremoved',
           \A w \in Proc : w # u => stage'[w] = stage[w] /\ (w \in staged' <=> w \in staged),
           StageOK(u)', LocalInv'
    PROVE  LocalGood'
<1>1. CoreType' /\ ProcInv'
    BY MovesKeep DEF LocalGood
<1>2. ASSUME NEW w \in Proc PROVE StageOK(w)'
    <2>1. CASE w = u
        BY <2>1
    <2>2. CASE w # u
        <3>1. proc'[w] = proc[w] /\ stage'[w] = stage[w] /\ (w \in staged' <=> w \in staged)
            BY <2>2 DEF Moves, Frame
        <3>2. StageOK(w)
            BY DEF LocalGood, StageInv
        <3>3. unremoved \subseteq unremoved'
            OBVIOUS
        <3> QED BY <3>1, <3>2, <3>3 DEF StageOK, Kind, At, Whole
    <2> QED BY <2>1, <2>2
<1> QED BY <1>1, <1>2 DEF LocalGood, StageInv, LocalType

\* The local file is not touched, and the transfer does not succeed.
LEMMA LocalKept ==
    ASSUME LocalInv, NEW u \in Proc, Frame(u), local' = local, ~Got(u), ~Got(u)'
    PROVE  LocalInv'
<1>1. \A w \in Proc : Got(w)' => w # u /\ Got(w)
    BY DEF Frame, Got, Kind, At
<1>2. \A w \in Proc : Got(w) /\ Whole(w, local) => (Got(w) /\ Whole(w, local))'
    BY DEF Frame, Got, Kind, At, Whole
<1> QED BY <1>1, <1>2 DEF LocalInv

LEMMA GetLands ==
    ASSUME CoreType, ProcInv, NEW u \in Proc, proc[u].pc \notin {"cleanup", "done"},
           NEW l \in {"read", "publish"}, Kind(u, FileGets)
    PROVE  l \in Pcs /\ Lands(u, l, proc[u].result)
<1>1. proc[u].result = "none"
    BY PcKind
<1> QED BY <1>1 DEF Lands, KindPc, Kind, GetPc, Pcs, ShellKinds, SftpKinds, FileGets

\* A download gives up, and its staging file is there still.
LEMMA GetGivesUp ==
    ASSUME LocalGood, NEW u \in Proc, Kind(u, FileGets), proc[u].pc # "done", NEW r \in Results, r # "ok",
           GiveUp(u, r), staged' = staged \/ staged' = staged \cup {u}, UNCHANGED <<local, stage, unremoved>>,
           source' = source, faults' \in 0 .. MaxFaults
    PROVE  LocalGood'
<1>1. CoreType /\ ProcInv /\ LocalType /\ StageOK(u) /\ LocalInv
    BY DEF LocalGood, StageInv
<1>2. Moves(u) /\ Goes(u, "cleanup", r) /\ SameRead(u)
    BY <1>1, GiveUpMoves DEF Kind
<1>3. LocalInv'
    BY <1>1, <1>2, LocalKept DEF Moves, Frame, Goes, Got, At
<1>4. /\ staged' \subseteq Proc /\ stage' \in [Proc -> Seq(Block)]
      /\ \A w \in Proc : w # u => stage'[w] = stage[w] /\ (w \in staged' <=> w \in staged)
    BY <1>1 DEF LocalType
<1>5. StageOK(u)'
    BY <1>1, <1>2, <1>4 DEF StageOK, Goes, Moves, Frame, Kind, At
<1> QED BY <1>1, <1>2, <1>3, <1>4, <1>5, LocalOthers DEF LocalType

LEMMA GetOpenKeeps ==
    ASSUME LocalGood, NEW u \in Proc, GetOpen(u), UNCHANGED unremoved
    PROVE  LocalGood'
<1>1. /\ proc[u].pc = "start" /\ Kind(u, FileGets) /\ UNCHANGED <<source, local, stage>>
      /\ CoreType /\ ProcInv /\ LocalType /\ StageOK(u) /\ LocalInv
    BY DEF GetOpen, At, LocalGood, StageInv
<1> DEFINE h == IF Kind(u, {"getsha"}) THEN source ELSE 0
<1>2. CASE /\ staged' = staged \cup {u} /\ UNCHANGED faults
           /\ proc' = [proc EXCEPT ![u].hash = h, ![u].pc = "read"]
    <2>1. h \in Version
        BY <1>1, TransferAssumption DEF CoreType, Version
    <2> HIDE DEF h
    <2>2. "read" \in Pcs /\ Lands(u, "read", proc[u].result)
        BY <1>1, GetLands
    <2>3. /\ Frame(u) /\ Goes(u, "read", proc[u].result)
          /\ proc'[u].prefix = proc[u].prefix /\ proc'[u].sent = proc[u].sent
        BY <1>1, <1>2, <2>1, <2>2, OpenedStep
    <2>4. Moves(u)
        BY <1>1, <2>2, <2>3, Landed
    <2>5. LocalInv'
        BY <1>1, <2>3, LocalKept DEF Goes, Got, At
    <2>6. StageOK(u)'
        BY <1>1, <1>2, <2>3 DEF StageOK, Goes, Frame, Kind, At
    <2> QED BY <1>1, <1>2, <2>4, <2>5, <2>6, LocalOthers DEF LocalType, CoreType
<1>3. CASE Fault /\ GiveUp(u, "dial") /\ staged' = staged \cup {u}
    BY <1>1, <1>3, FaultType, GetGivesUp DEF Results
<1> QED BY <1>2, <1>3 DEF GetOpen

LEMMA GetReadKeeps ==
    ASSUME LocalGood, NEW u \in Proc, GetRead(u), UNCHANGED unremoved
    PROVE  LocalGood'
<1>1. /\ proc[u].pc = "read" /\ ~AtEnd(u) /\ UNCHANGED <<source, faults, local, staged>>
      /\ stage' = [stage EXCEPT ![u] = Append(stage[u], NextBlock(u))]
      /\ CoreType /\ ProcInv /\ LocalType /\ StageOK(u) /\ LocalInv
    BY DEF GetRead, At, LocalGood, StageInv
<1>2. Kind(u, FileGets) /\ NextBlock(u) \in Block
    BY <1>1, PcKind, NextBlockIsBlock
<1>3. /\ Moves(u) /\ Goes(u, "read", proc[u].result)
      /\ proc'[u].sent = Append(proc[u].sent, NextBlock(u))
    BY <1>1, SendMoves DEF GetRead
<1>4. LocalInv'
    BY <1>1, <1>3, LocalKept DEF Moves, Goes, Got, At
<1>5. stage[u] = proc[u].sent
    BY <1>1, <1>2 DEF StageOK, At
<1>6. /\ stage' \in [Proc -> Seq(Block)] /\ stage'[u] = Append(stage[u], NextBlock(u))
      /\ \A w \in Proc : w # u => stage'[w] = stage[w]
    <2>1. Append(stage[u], NextBlock(u)) \in Seq(Block)
        BY <1>1, <1>2 DEF LocalType
    <2> QED BY <1>1, <2>1 DEF LocalType
<1>7. StageOK(u)'
    BY <1>1, <1>2, <1>3, <1>5, <1>6 DEF StageOK, Goes, Moves, Frame, Kind, At
<1> QED BY <1>1, <1>3, <1>4, <1>6, <1>7, LocalOthers DEF LocalType, CoreType

LEMMA GetVerifyKeeps ==
    ASSUME LocalGood, NEW u \in Proc, GetVerify(u), UNCHANGED unremoved
    PROVE  LocalGood'
<1>1. /\ proc[u].pc = "read" /\ AtEnd(u) /\ UNCHANGED <<source, faults, local>>
      /\ CoreType /\ ProcInv /\ LocalType /\ StageOK(u) /\ LocalInv
    BY DEF GetVerify, At, LocalGood, StageInv
<1>2. Kind(u, FileGets)
    BY <1>1, PcKind
<1>3. CASE GetVerified(u) /\ Step(u, "publish") /\ UNCHANGED <<stage, staged>>
    <2>1. Moves(u) /\ Goes(u, "publish", proc[u].result) /\ SameRead(u)
        BY <1>1, <1>2, <1>3, GetLands, StepMoves
    <2>2. LocalInv'
        BY <1>1, <2>1, LocalKept DEF Moves, Goes, Got, At
    <2>3. stage[u] = proc[u].sent /\ Len(stage[u]) = Blocks
        <3>1. stage[u] = proc[u].sent /\ proc[u].prefix = <<>>
            BY <1>1, <1>2 DEF StageOK, ProcInv, ProcOK, Kind, FileGets, At
        <3>2. Len(proc[u].sent) \in Nat
            BY <1>1, RoomToRead
        <3> DEFINE n == Len(proc[u].sent)
        <3> HIDE DEF n
        <3>3. n \in Nat /\ 0 + n = Blocks
            BY <1>1, <3>1, <3>2 DEF AtEnd, n
        <3> QED BY <3>1, <3>3 DEF n
    <2>4. Whole(u, stage[u])
        BY <1>2, <1>3, <2>3 DEF Whole, GetVerified, Kind, FileGets
    <2>5. StageOK(u)'
        BY <1>1, <1>2, <1>3, <2>1, <2>3, <2>4 DEF StageOK, Goes, SameRead, Moves, Frame, Kind, At, Whole
    <2> QED BY <1>1, <1>3, <2>1, <2>2, <2>5, LocalOthers DEF LocalType, CoreType
<1>4. CASE GiveUp(u, "mismatch") /\ UNCHANGED <<stage, staged>>
    BY <1>1, <1>2, <1>4, GetGivesUp DEF Results, CoreType
<1> QED BY <1>3, <1>4 DEF GetVerify

LEMMA GetFailsKeeps ==
    ASSUME LocalGood, NEW u \in Proc, GetFails(u), UNCHANGED unremoved
    PROVE  LocalGood'
<1>1. /\ proc[u].pc = "read" /\ UNCHANGED <<source, faults, local, stage, staged>> /\ CoreType /\ ProcInv
      /\ GiveUp(u, LateOr(u, "remote_read"))
    BY DEF GetFails, At, LocalGood
<1>2. Kind(u, FileGets)
    BY <1>1, PcKind
<1>3. LateOr(u, "remote_read") \in Results /\ LateOr(u, "remote_read") # "ok"
    BY <1>1, LateOrIsResult DEF Results
<1> QED BY <1>1, <1>2, <1>3, GetGivesUp DEF CoreType

LEMMA GetPublishKeeps ==
    ASSUME LocalGood, NEW u \in Proc, GetPublish(u), UNCHANGED unremoved
    PROVE  LocalGood'
<1>1. /\ proc[u].pc = "publish" /\ source' = source
      /\ CoreType /\ ProcInv /\ LocalType /\ StageOK(u) /\ LocalInv
    BY DEF GetPublish, At, LocalGood, StageInv
<1>2. Kind(u, FileGets) /\ Whole(u, stage[u])
    BY <1>1, PcKind DEF StageOK, At
<1>3. CASE local' = stage[u] /\ Unstage(u) /\ Finish(u, "ok") /\ UNCHANGED faults
    <2>1. Moves(u) /\ Goes(u, "done", "ok") /\ SameRead(u)
        BY <1>1, <1>3, FinishMoves DEF Results
    <2>2. (Got(u) /\ Whole(u, local))'
        BY <1>2, <1>3, <2>1 DEF Got, Whole, Moves, Frame, Goes, SameRead, Kind, At
    <2>3. LocalInv'
        BY <2>2 DEF LocalInv
    <2>4. /\ staged' \subseteq Proc /\ stage' \in [Proc -> Seq(Block)] /\ u \notin staged'
          /\ \A w \in Proc : w # u => stage'[w] = stage[w] /\ (w \in staged' <=> w \in staged)
        BY <1>1, <1>3 DEF Unstage, LocalType
    <2>5. StageOK(u)'
        BY <2>1, <2>4 DEF StageOK, Goes, Kind, At
    <2> QED BY <1>1, <1>3, <2>1, <2>3, <2>4, <2>5, LocalOthers DEF LocalType, CoreType
<1>4. CASE Fault /\ GiveUp(u, "failed") /\ UNCHANGED <<local, stage, staged>>
    BY <1>1, <1>2, <1>4, FaultType, GetGivesUp DEF Results
<1> QED BY <1>3, <1>4 DEF GetPublish

LEMMA GetCleanupKeeps ==
    ASSUME LocalGood, NEW u \in Proc, GetCleanup(u)
    PROVE  LocalGood'
<1>1. /\ proc[u].pc = "cleanup" /\ Kind(u, FileGets) /\ UNCHANGED <<source, local>> /\ Step(u, "done")
      /\ faults' \in 0 .. MaxFaults /\ CoreType /\ ProcInv /\ LocalType /\ StageOK(u) /\ LocalInv /\ ProcOK(proc[u])
    BY FaultType DEF GetCleanup, At, LocalGood, StageInv, ProcInv, CoreType
<1>2. Moves(u) /\ Goes(u, "done", proc[u].result) /\ proc[u].result # "ok"
    <2>1. "done" \in Pcs
        BY DEF Pcs, GetPc
    <2> QED BY <1>1, <2>1, DoneLands, StepMoves DEF ProcOK
<1>3. LocalInv'
    BY <1>1, <1>2, LocalKept DEF Moves, Goes, Got
<1>4. /\ staged' \subseteq Proc /\ stage' \in [Proc -> Seq(Block)]
      /\ unremoved' \subseteq Proc /\ unremoved \subseteq unremoved' /\ (u \in staged' => u \in unremoved')
      /\ \A w \in Proc : w # u => stage'[w] = stage[w] /\ (w \in staged' <=> w \in staged)
    <2>1. CASE Unstage(u) /\ UNCHANGED unremoved
        BY <1>1, <2>1 DEF Unstage, LocalType
    <2>2. CASE unremoved' = unremoved \cup {u} /\ UNCHANGED <<stage, staged>>
        BY <1>1, <2>2 DEF LocalType
    <2> QED BY <2>1, <2>2 DEF GetCleanup
<1>5. StageOK(u)'
    BY <1>1, <1>2, <1>4 DEF StageOK, Goes, Moves, Frame, Kind, At
<1> QED BY <1>1, <1>2, <1>3, <1>4, <1>5, LocalOthers DEF LocalType

\* A step that only closes a link or remembers a deadline.
LEMMA LocalLinkStep ==
    ASSUME LocalGood, NEW u \in Proc, Frame(u), Goes(u, proc[u].pc, proc[u].result), SameRead(u),
           source' = source, faults' \in 0 .. MaxFaults, UNCHANGED localVars
    PROVE  LocalGood'
<1>1. CoreType /\ ProcInv /\ LocalType /\ StageOK(u) /\ LocalInv
    BY DEF LocalGood, StageInv
<1>2. Moves(u)
    BY <1>1, StayMoves
<1>3. StageOK(u)'
    BY <1>1 DEF StageOK, Frame, Goes, SameRead, Kind, At, Whole, localVars
<1>4. \A w \in Proc : Got(w)' <=> Got(w)
    BY DEF Frame, Goes, Got, Kind, At
<1>5. \A w \in Proc : Whole(w, local) => Whole(w, local)'
    BY DEF Frame, SameRead, Whole, Kind, localVars
<1>6. LocalInv'
    BY <1>1, <1>4, <1>5 DEF LocalInv
<1> QED BY <1>1, <1>2, <1>3, <1>6, LocalOthers DEF LocalType, localVars

LEMMA GetNextKeeps ==
    ASSUME LocalGood, NEW u \in Proc, GetNext(u)
    PROVE  LocalGood'
<1>1. CASE GetDeadline(u) /\ UNCHANGED unremoved
    <2>1. /\ proc' = [proc EXCEPT ![u].late = TRUE, ![u].link = "closed"] /\ UNCHANGED <<source, faults, localVars>>
          /\ CoreType
        BY <1>1 DEF GetDeadline, Deadline, LocalGood, localVars
    <2> QED BY <2>1, ClosedStep, LocalLinkStep DEF CoreType
<1> QED BY <1>1, GetOpenKeeps, GetReadKeeps, GetVerifyKeeps, GetFailsKeeps, GetPublishKeeps, GetCleanupKeeps
        DEF GetNext, GetSteps

-----------------------------------------------------------------------------
(* The remote side: names, open files and scripts                          *)

LEMMA ScriptFields ==
    ASSUME ScriptType, NEW u \in Proc
    PROVE  /\ script[u] \in ScriptRecord
           /\ script[u].at \in {"idle", "connect", "open", "verify", "cat", "check", "publish", "clean", "exit"}
           /\ script[u].fd \in Inode \cup {0} /\ script[u].input \in Seq(Block) /\ script[u].eof \in BOOLEAN
           /\ script[u].status \in {"none", "receipt", "failed", "killed", "tool", "mismatch", "state_changed",
                                    "publish_failed"}
BY DEF ScriptType, ScriptRecord

ScriptFrame(u) ==
    /\ script' \in [Proc -> ScriptRecord]
    /\ \A w \in Proc : w # u => script'[w] = script[w]

ScriptIs(u, l, fd, status) ==
    script'[u].at = l /\ script'[u].fd = fd /\ script'[u].status = status

ScriptPcs == {"idle", "connect", "open", "verify", "cat", "check", "publish", "clean", "exit"}
Statuses == {"none", "receipt", "failed", "killed", "tool", "mismatch", "state_changed", "publish_failed"}

LEMMA ScriptSet ==
    ASSUME ScriptType, NEW u \in Proc, NEW q \in ScriptRecord, script' = [script EXCEPT ![u] = q]
    PROVE  ScriptFrame(u) /\ ScriptIs(u, q.at, q.fd, q.status)
BY DEF ScriptType, ScriptFrame, ScriptIs

LEMMA ScriptKept ==
    ASSUME ScriptType, NEW u \in Proc, script' = script
    PROVE  ScriptFrame(u) /\ ScriptIs(u, script[u].at, script[u].fd, script[u].status)
BY DEF ScriptType, ScriptFrame, ScriptIs

LEMMA ScriptGoes ==
    ASSUME ScriptType, NEW u \in Proc, NEW l \in ScriptPcs, script' = [script EXCEPT ![u].at = l]
    PROVE  ScriptFrame(u) /\ ScriptIs(u, l, script[u].fd, script[u].status)
<1> DEFINE q == [script[u] EXCEPT !.at = l]
<1>1. q \in ScriptRecord /\ q.at = l /\ q.fd = script[u].fd /\ q.status = script[u].status
    BY ScriptFields DEF ScriptRecord, ScriptPcs
<1>2. script' = [script EXCEPT ![u] = q]
    OBVIOUS
<1> HIDE DEF q
<1> QED BY <1>1, <1>2, ScriptSet

LEMMA ScriptReports ==
    ASSUME ScriptType, NEW u \in Proc, NEW l \in ScriptPcs, NEW r \in Statuses,
           script' = [script EXCEPT ![u].at = l, ![u].status = r]
    PROVE  ScriptFrame(u) /\ ScriptIs(u, l, script[u].fd, r)
<1> DEFINE q == [script[u] EXCEPT !.at = l, !.status = r]
<1>1. q \in ScriptRecord /\ q.at = l /\ q.fd = script[u].fd /\ q.status = r
    BY ScriptFields DEF ScriptRecord, ScriptPcs, Statuses
<1>2. script' = [script EXCEPT ![u] = q]
    OBVIOUS
<1> HIDE DEF q
<1> QED BY <1>1, <1>2, ScriptSet

LEMMA ScriptOpens ==
    ASSUME ScriptType, NEW u \in Proc, NEW l \in ScriptPcs, NEW f \in Inode \cup {0},
           script' = [script EXCEPT ![u].at = l, ![u].fd = f]
    PROVE  ScriptFrame(u) /\ ScriptIs(u, l, f, script[u].status)
<1> DEFINE q == [script[u] EXCEPT !.at = l, !.fd = f]
<1>1. q \in ScriptRecord /\ q.at = l /\ q.fd = f /\ q.status = script[u].status
    BY ScriptFields DEF ScriptRecord, ScriptPcs
<1>2. script' = [script EXCEPT ![u] = q]
    OBVIOUS
<1> HIDE DEF q
<1> QED BY <1>1, <1>2, ScriptSet

LEMMA ScriptEnds ==
    ASSUME ScriptType, NEW u \in Proc, NEW r \in Statuses,
           script' = [script EXCEPT ![u].at = "exit", ![u].fd = 0, ![u].status = r]
    PROVE  ScriptFrame(u) /\ ScriptIs(u, "exit", 0, r)
<1> DEFINE q == [script[u] EXCEPT !.at = "exit", !.fd = 0, !.status = r]
<1>1. q \in ScriptRecord /\ q.at = "exit" /\ q.fd = 0 /\ q.status = r
    BY ScriptFields DEF ScriptRecord, Statuses
<1>2. script' = [script EXCEPT ![u] = q]
    OBVIOUS
<1> HIDE DEF q
<1> QED BY <1>1, <1>2, ScriptSet

\* The input of a script changes, or ends.
LEMMA ScriptInput ==
    ASSUME ScriptType, NEW u \in Proc, NEW s \in Seq(Block), NEW b \in BOOLEAN,
           script' = [script EXCEPT ![u].eof = b, ![u].input = s]
    PROVE  ScriptFrame(u) /\ ScriptIs(u, script[u].at, script[u].fd, script[u].status)
<1> DEFINE q == [script[u] EXCEPT !.eof = b, !.input = s]
<1>1. q \in ScriptRecord /\ q.at = script[u].at /\ q.fd = script[u].fd /\ q.status = script[u].status
    BY ScriptFields DEF ScriptRecord
<1>2. script' = [script EXCEPT ![u] = q]
    OBVIOUS
<1> HIDE DEF q
<1> QED BY <1>1, <1>2, ScriptSet

-----------------------------------------------------------------------------

\* The image of a finite set is no larger than the set.
LEMMA ImageBound ==
    ASSUME NEW S, IsFiniteSet(S), NEW f
    PROVE  /\ IsFiniteSet({f[x] : x \in S}) /\ Cardinality({f[x] : x \in S}) \in Nat
           /\ Cardinality({f[x] : x \in S}) =< Cardinality(S) /\ Cardinality(S) \in Nat
<1> DEFINE T == {f[x] : x \in S}
           g == [x \in S |-> f[x]]
<1>1. g \in Surjection(S, T)
    BY DEF Surjection
<1>2. IsFiniteSet(T) /\ Cardinality(T) =< Cardinality(S)
    BY <1>1, FS_Surjection
<1> QED BY <1>2, FS_CardinalityType

\* A union of two finite sets has at most as many elements as both together.
LEMMA UnionBound ==
    ASSUME NEW S, NEW T, IsFiniteSet(S), IsFiniteSet(T), NEW m \in Nat, NEW n \in Nat,
           Cardinality(S) =< m, Cardinality(T) =< n
    PROVE  IsFiniteSet(S \cup T) /\ Cardinality(S \cup T) =< m + n
<1>1. IsFiniteSet(S \cup T) /\ Cardinality(S \cup T) = Cardinality(S) + Cardinality(T) - Cardinality(S \cap T)
    BY FS_Union
<1>2. Cardinality(S) \in Nat /\ Cardinality(T) \in Nat /\ Cardinality(S \cap T) \in Nat
    BY FS_Intersection, FS_CardinalityType
<1> QED BY <1>1, <1>2

\* A transfer that holds neither a temporary file nor an open file finds a
\* free object: the names and the open files of the others are too few.
LEMMA NewIsFree ==
    ASSUME ScriptType, FileType, NEW u \in Proc, at.tmp[u] = 0, script[u].fd = 0
    PROVE  NewInode \in Inode /\ NewInode \notin Held(at, script)
<1> DEFINE P == Cardinality(Proc)
           A == {at.dest}
           B == {at.tmp[w] : w \in Proc \ {u}}
           C == {at.old[w] : w \in Proc}
           D == {at.partial[v] : v \in Version}
           fds == [w \in Proc |-> script[w].fd]
           E == {fds[w] : w \in Proc \ {u}}
<1>1. P \in Nat /\ P > 0 /\ IsFiniteSet(Proc) /\ IsFiniteSet(Proc \ {u}) /\ Cardinality(Proc \ {u}) = P - 1
    <2>1. P \in Nat /\ P # 0
        BY TransferAssumption, FS_CardinalityType, FS_EmptySet
    <2>2. IsFiniteSet(Proc) /\ IsFiniteSet(Proc \ {u}) /\ Cardinality(Proc \ {u}) = Cardinality(Proc) - 1
        BY TransferAssumption, FS_RemoveElement
    <2> HIDE DEF P
    <2>3. P > 0
        BY <2>1
    <2> QED BY <2>1, <2>2, <2>3 DEF P
<1>2. IsFiniteSet(Version) /\ Cardinality(Version) = MaxEdits + 2 /\ MaxEdits \in Nat
    BY TransferAssumption, FS_Interval DEF Version
<1>3. IsFiniteSet(A) /\ Cardinality(A) =< 1
    <2>1. IsFiniteSet({at.dest}) /\ Cardinality({at.dest}) = 1
        BY FS_Singleton, Zenon
    <2> QED BY <2>1
<1>4. IsFiniteSet(B) /\ Cardinality(B) =< P - 1
    BY <1>1, ImageBound
<1>5. IsFiniteSet(C) /\ Cardinality(C) =< P
    BY <1>1, ImageBound
<1>6. IsFiniteSet(D) /\ Cardinality(D) =< MaxEdits + 2
    BY <1>2, ImageBound
<1>7. IsFiniteSet(E) /\ Cardinality(E) =< P - 1
    BY <1>1, ImageBound
<1>8. Held(at, script) \subseteq (((A \cup B) \cup C) \cup D) \cup E \cup {0}
    <2>1. \A w \in Proc : script[w].fd = fds[w]
        OBVIOUS
    <2> QED BY <2>1 DEF Held
<1> HIDE DEF A, B, C, D, E, P
<1> DEFINE AB == A \cup B
           AC == AB \cup C
           AD == AC \cup D
           S == AD \cup E
<1>9. IsFiniteSet(S) /\ Cardinality(S) =< 3 * P + MaxEdits + 1
    <2>0. P \in Nat /\ P - 1 \in Nat /\ 1 \in Nat /\ MaxEdits + 2 \in Nat /\ 1 + (P - 1) \in Nat
              /\ (1 + (P - 1)) + P \in Nat /\ ((1 + (P - 1)) + P) + (MaxEdits + 2) \in Nat
        BY <1>1, <1>2
    <2>1. IsFiniteSet(AB) /\ Cardinality(AB) =< 1 + (P - 1)
        BY <1>3, <1>4, <2>0, UnionBound
    <2> HIDE DEF AB
    <2>2. IsFiniteSet(AC) /\ Cardinality(AC) =< (1 + (P - 1)) + P
        BY <1>5, <2>0, <2>1, UnionBound
    <2> HIDE DEF AC
    <2>3. IsFiniteSet(AD) /\ Cardinality(AD) =< ((1 + (P - 1)) + P) + (MaxEdits + 2)
        BY <1>6, <2>0, <2>2, UnionBound
    <2> HIDE DEF AD
    <2>4. IsFiniteSet(S) /\ Cardinality(S) =< (((1 + (P - 1)) + P) + (MaxEdits + 2)) + (P - 1)
        BY <1>7, <2>0, <2>3, UnionBound
    <2>5. (((1 + (P - 1)) + P) + (MaxEdits + 2)) + (P - 1) = 3 * P + MaxEdits + 1
        BY <1>1, <1>2
    <2> QED BY <2>4, <2>5
<1>10. IsFiniteSet(Inode) /\ Cardinality(Inode) = 3 * P + MaxEdits + 2 /\ 0 \notin Inode
    <2>1. 1 \in Int /\ 3 * P + MaxEdits + 2 \in Int /\ 3 * P + MaxEdits + 2 >= 1
        BY <1>1, <1>2
    <2>2. Inode = 1 .. (3 * P + MaxEdits + 2)
        BY DEF Inode, P
    <2>3. IsFiniteSet(Inode) /\ Cardinality(Inode) = (3 * P + MaxEdits + 2) - 1 + 1
        BY <2>1, <2>2, FS_Interval
    <2> QED BY <1>1, <1>2, <2>2, <2>3
<1>11. \E i \in Inode : i \notin Held(at, script)
    <2> SUFFICES ASSUME Inode \subseteq Held(at, script) PROVE FALSE
        OBVIOUS
    <2>1. Inode \in SUBSET S
        BY <1>8, <1>10
    <2> HIDE DEF S
    <2>2. Cardinality(Inode) =< Cardinality(S) /\ Cardinality(S) \in Nat
        BY <1>9, <2>1, FS_Subset, FS_CardinalityType
    <2> QED BY <1>1, <1>2, <1>9, <1>10, <2>2
<1> QED BY <1>11 DEF NewInode

-----------------------------------------------------------------------------

RemoteGood ==
    /\ CoreType /\ ProcInv /\ ScriptType /\ ScriptInv /\ AgentInv
    /\ FileType /\ TmpInv /\ Own /\ ContentInv

\* An object that has a name.
Named(i) ==
    \/ i = at.dest
    \/ \E w \in Proc : i = at.tmp[w] \/ i = at.old[w]
    \/ \E v \in Version : i = at.partial[v]

\* Only names of transfer u change, and perhaps the destination and a partial.
AtFrame(u) ==
    /\ at' \in [dest : Inode \cup {0}, tmp : [Proc -> Inode \cup {0}], old : [Proc -> Inode \cup {0}],
                partial : [Version -> Inode \cup {0}], meta : [Version -> BOOLEAN]]
    /\ \A w \in Proc : w # u => at'.tmp[w] = at.tmp[w] /\ at'.old[w] = at.old[w]

NamesAre(u, dest, tmp, old) == at'.dest = dest /\ at'.tmp[u] = tmp /\ at'.old[u] = old
SamePartial == \A v \in Version : at'.partial[v] = at.partial[v]

\* The contents of every object that has a name are kept, but that of x.
Writes(x) ==
    /\ data' \in [Inode -> Seq(Block)]
    /\ \A i \in Inode : Named(i)' /\ i # x => data'[i] = data[i]

LEMMA AtFields ==
    ASSUME FileType
    PROVE  /\ at.dest \in Inode \cup {0}
           /\ \A w \in Proc : at.tmp[w] \in Inode \cup {0} /\ at.old[w] \in Inode \cup {0}
           /\ \A v \in Version : at.partial[v] \in Inode \cup {0} /\ at.meta[v] \in BOOLEAN
           /\ 0 \notin Inode
BY DEF FileType, Inode

LEMMA StoreKeeps ==
    ASSUME NEW names, NEW scripts, NEW d \in [Inode -> Seq(Block)], Store(names, scripts, d)
    PROVE  /\ at' = names /\ script' = scripts /\ data' \in [Inode -> Seq(Block)]
           /\ \A i \in Inode : Named(i)' => data'[i] = d[i]
<1>1. at' = names /\ script' = scripts /\ data' = [i \in Inode |-> IF i \in Held(names, scripts) THEN d[i] ELSE <<>>]
    BY DEF Store
<1>2. data' \in [Inode -> Seq(Block)]
    <2>1. ASSUME NEW i \in Inode PROVE (IF i \in Held(names, scripts) THEN d[i] ELSE <<>>) \in Seq(Block)
        OBVIOUS
    <2> QED BY <1>1, <2>1
<1>3. ASSUME NEW i \in Inode, Named(i)' PROVE i \in Held(names, scripts)
    BY <1>1, <1>3 DEF Named, Held
<1> QED BY <1>1, <1>2, <1>3

LEMMA StoreWrites ==
    ASSUME FileType, NEW names, NEW scripts, NEW x \in Inode, NEW s \in Seq(Block),
           Store(names, scripts, [data EXCEPT ![x] = s])
    PROVE  at' = names /\ script' = scripts /\ Writes(x) /\ (Named(x)' => data'[x] = s)
<1> DEFINE d == [data EXCEPT ![x] = s]
<1>1. d \in [Inode -> Seq(Block)] /\ d[x] = s /\ \A i \in Inode : i # x => d[i] = data[i]
    BY DEF FileType
<1> HIDE DEF d
<1>2. Store(names, scripts, d)
    BY DEF d
<1> QED BY <1>1, <1>2, StoreKeeps DEF Writes

LEMMA StoreSame ==
    ASSUME FileType, NEW names, NEW scripts, Store(names, scripts, data)
    PROVE  at' = names /\ script' = scripts /\ Writes(0)
BY StoreKeeps DEF FileType, Writes

LEMMA AtKept ==
    ASSUME FileType, NEW u \in Proc, at' = at
    PROVE  AtFrame(u) /\ NamesAre(u, at.dest, at.tmp[u], at.old[u]) /\ SamePartial
BY DEF FileType, AtFrame, NamesAre, SamePartial

LEMMA MetaSet ==
    ASSUME FileType, NEW u \in Proc, NEW v \in Version, NEW b \in BOOLEAN, at' = [at EXCEPT !.meta[v] = b]
    PROVE  AtFrame(u) /\ NamesAre(u, at.dest, at.tmp[u], at.old[u]) /\ SamePartial
BY DEF FileType, AtFrame, NamesAre, SamePartial

LEMMA TmpSet ==
    ASSUME FileType, NEW u \in Proc, NEW x \in Inode \cup {0}, at' = [at EXCEPT !.tmp[u] = x]
    PROVE  AtFrame(u) /\ NamesAre(u, at.dest, x, at.old[u]) /\ SamePartial
BY DEF FileType, AtFrame, NamesAre, SamePartial

LEMMA DestSet ==
    ASSUME FileType, NEW u \in Proc, NEW x \in Inode \cup {0}, at' = [at EXCEPT !.dest = x, !.tmp[u] = 0]
    PROVE  AtFrame(u) /\ NamesAre(u, x, 0, at.old[u]) /\ SamePartial
BY DEF FileType, AtFrame, NamesAre, SamePartial

LEMMA OldSet ==
    ASSUME FileType, NEW u \in Proc, NEW x \in Inode \cup {0}, NEW y \in Inode \cup {0},
           at' = [at EXCEPT !.dest = x, !.old[u] = y]
    PROVE  AtFrame(u) /\ NamesAre(u, x, at.tmp[u], y) /\ SamePartial
BY DEF FileType, AtFrame, NamesAre, SamePartial

LEMMA AsideSet ==
    ASSUME FileType, NEW u \in Proc, NEW x \in Inode \cup {0}, at' = [at EXCEPT !.old[u] = x, !.dest = 0]
    PROVE  AtFrame(u) /\ NamesAre(u, 0, at.tmp[u], x) /\ SamePartial
BY DEF FileType, AtFrame, NamesAre, SamePartial

LEMMA OldDropped ==
    ASSUME FileType, NEW u \in Proc, at' = [at EXCEPT !.old[u] = 0]
    PROVE  AtFrame(u) /\ NamesAre(u, at.dest, at.tmp[u], 0) /\ SamePartial
BY DEF FileType, AtFrame, NamesAre, SamePartial

LEMMA PartialSet ==
    ASSUME FileType, NEW u \in Proc, NEW x \in Inode \cup {0}, NEW v \in Version,
           at' = [at EXCEPT !.partial[v] = x]
    PROVE  /\ AtFrame(u) /\ NamesAre(u, at.dest, at.tmp[u], at.old[u])
           /\ at'.partial[v] = x /\ \A y \in Version : y # v => at'.partial[y] = at.partial[y]
BY DEF FileType, AtFrame, NamesAre

LEMMA PartialMoved ==
    ASSUME FileType, NEW u \in Proc, NEW x \in Inode \cup {0}, NEW v \in Version,
           at' = [at EXCEPT !.dest = x, !.partial[v] = 0]
    PROVE  /\ AtFrame(u) /\ NamesAre(u, x, at.tmp[u], at.old[u])
           /\ at'.partial[v] = 0 /\ \A y \in Version : y # v => at'.partial[y] = at.partial[y]
BY DEF FileType, AtFrame, NamesAre

\* A name that goes away, or a destination that takes over the object of a
\* temporary file, of a partial file or of one moved aside.
LEMMA OwnShrinks ==
    ASSUME FileType, Own, NEW u \in Proc, AtFrame(u),
           at'.tmp[u] \in {at.tmp[u], 0}, at'.old[u] \in {at.old[u], at.dest, 0},
           \A v \in Version : at'.partial[v] \in {at.partial[v], 0},
           \/ at'.dest \in {at.dest, at.old[u], 0}
           \/ at'.dest = at.tmp[u] /\ at'.tmp[u] = 0
           \/ \E v \in Version : at'.dest = at.partial[v] /\ at'.partial[v] = 0
    PROVE  Own'
<1>1. ASSUME NEW w \in Proc, at'.tmp[w] # 0
      PROVE  at'.tmp[w] = at.tmp[w] /\ at.tmp[w] # 0
    BY <1>1 DEF AtFrame
<1>2. ASSUME NEW w \in Proc PROVE at'.old[w] \in {at.old[w], at.dest, 0}
    BY DEF AtFrame
<1>3. ASSUME NEW w \in Proc, at'.tmp[w] # 0
      PROVE  /\ at'.tmp[w] # at'.dest
             /\ \A x \in Proc : at'.tmp[w] # at'.old[x] /\ (x # w => at'.tmp[w] # at'.tmp[x])
             /\ \A v \in Version : at'.tmp[w] # at'.partial[v]
    <2>1. at'.tmp[w] = at.tmp[w] /\ at.tmp[w] # 0
        BY <1>1, <1>3
    <2>2. at'.tmp[w] # at'.dest
        BY <1>3, <2>1 DEF Own
    <2>3. \A x \in Proc : at'.tmp[w] # at'.old[x]
        BY <1>2, <2>1 DEF Own
    <2>4. \A x \in Proc : x # w => at'.tmp[w] # at'.tmp[x]
        BY <1>1, <2>1 DEF Own
    <2> QED BY <2>1, <2>2, <2>3, <2>4 DEF Own
<1>4. ASSUME NEW v \in Version, at'.partial[v] # 0
      PROVE  /\ at'.partial[v] # at'.dest
             /\ \A x \in Proc : at'.partial[v] # at'.old[x]
             /\ \A y \in Version : y # v => at'.partial[v] # at'.partial[y]
    <2>1. at'.partial[v] = at.partial[v] /\ at.partial[v] # 0
        BY <1>4
    <2>2. at'.partial[v] # at'.dest
        BY <1>4, <2>1 DEF Own
    <2>3. \A x \in Proc : at'.partial[v] # at'.old[x]
        BY <1>2, <2>1 DEF Own
    <2> QED BY <1>4, <2>1, <2>2, <2>3 DEF Own
<1> QED BY <1>3, <1>4 DEF Own

\* A new object under the name of a temporary or of a partial file.
LEMMA OwnGrows ==
    ASSUME FileType, Own, NEW u \in Proc, AtFrame(u), NEW x \in Inode, ~Named(x),
           at'.dest = at.dest, at'.old[u] = at.old[u],
           \/ at'.tmp[u] = x /\ SamePartial
           \/ /\ at'.tmp[u] = at.tmp[u]
              /\ \E v \in Version : at'.partial[v] = x /\ \A y \in Version : y # v => at'.partial[y] = at.partial[y]
    PROVE  Own'
<1>1. /\ x # 0 /\ x # at.dest
      /\ \A w \in Proc : x # at.tmp[w] /\ x # at.old[w]
      /\ \A v \in Version : x # at.partial[v]
    BY AtFields DEF Named
<1>2. CASE at'.tmp[u] = x /\ SamePartial
    BY <1>1, <1>2 DEF Own, AtFrame, SamePartial
<1>3. CASE /\ at'.tmp[u] = at.tmp[u]
           /\ \E v \in Version : at'.partial[v] = x /\ \A y \in Version : y # v => at'.partial[y] = at.partial[y]
    BY <1>1, <1>3 DEF Own, AtFrame
<1> QED BY <1>2, <1>3

LEMMA FreeHasNoName ==
    ASSUME NEW i, i \notin Held(at, script)
    PROVE  ~Named(i) /\ \A w \in Proc : i # script[w].fd
BY DEF Held, Named

\* What a step of transfer u does to the contents, when no two resumable
\* uploads overlap: the other transfers find theirs unchanged.
ContentStep(u) ==
    /\ ContentOK(u)' /\ PreviousFile'
    /\ Kind(u, {"resume"}) /\ Idle(u) => Idle(u)' \/ \A w \in Proc : w # u => Idle(w)
    /\ \A w \in Proc : w # u /\ at.tmp[w] # 0 => data'[at.tmp[w]] = data[at.tmp[w]]
    /\ \/ Kind(u, {"resume"}) /\ ~Idle(u)
       \/ \A v \in Version : /\ at'.partial[v] = at.partial[v]
                             /\ at.partial[v] # 0 => data'[at.partial[v]] = data[at.partial[v]]

RemoteFrame(u) ==
    /\ Moves(u) /\ source' = source /\ faults' \in 0 .. MaxFaults
    /\ ScriptFrame(u) /\ AtFrame(u)
    /\ agent' \subseteq Proc /\ \A w \in Proc : w # u /\ w \in agent' => w \in agent
    /\ data' \in [Inode -> Seq(Block)]
    /\ pub' \in [Proc -> Seq(Block)] /\ \A w \in Proc : w # u => pub'[w] = pub[w]
    /\ posix' = posix /\ litter' \subseteq Proc /\ litter \subseteq litter'

LEMMA OthersKeepContent ==
    ASSUME RemoteGood, ~Overlap, NEW u \in Proc, RemoteFrame(u), ContentStep(u), NEW w \in Proc, w # u
    PROVE  ContentOK(w)'
<1>1. /\ ContentOK(w) /\ TmpOK(w) /\ ScriptOK(w) /\ Solo /\ ProcOK(proc[w])
      /\ proc[w] \in ProcRecord /\ script[w] \in ScriptRecord
    BY DEF RemoteGood, ContentInv, TmpInv, ScriptInv, ProcInv, CoreType, ScriptType
<1>2. /\ proc'[w] = proc[w] /\ script'[w] = script[w] /\ pub'[w] = pub[w]
      /\ at'.tmp[w] = at.tmp[w]
    BY DEF RemoteFrame, Moves, Frame, ScriptFrame, AtFrame
<1>3. at.tmp[w] # 0 => data'[at.tmp[w]] = data[at.tmp[w]]
    BY DEF ContentStep
<1>4. proc[w].hash \in Version
    BY <1>1 DEF ProcRecord
<1>5. ASSUME Kind(w, {"resume"}), script[w].at \in {"cat", "publish"}
      PROVE  MyPartial(w)' = MyPartial(w) /\ (MyPartial(w) # 0 => data'[MyPartial(w)] = data[MyPartial(w)])
    <2>1. ~Idle(w)
        BY <1>1, <1>5 DEF Idle, ScriptOK, At
    <2>2. ~(Kind(u, {"resume"}) /\ ~Idle(u))
        BY <1>1, <1>5, <2>1 DEF Solo
    <2>3. /\ at'.partial[proc[w].hash] = at.partial[proc[w].hash]
          /\ at.partial[proc[w].hash] # 0 =>
                 data'[at.partial[proc[w].hash]] = data[at.partial[proc[w].hash]]
        BY <1>4, <2>2 DEF ContentStep
    <2> QED BY <1>2, <2>3 DEF MyPartial
<1>6. ASSUME script[w].at \in {"cat", "publish"}
      PROVE  Written(w)' = Written(w) /\ (Written(w) # 0 => data'[Written(w)] = data[Written(w)])
    BY <1>2, <1>3, <1>5, <1>6 DEF Written, Kind
<1>7. script[w].fd # 0 => script[w].at = "cat"
    BY <1>1 DEF ScriptOK
<1>8. (script[w].fd # 0 => script[w].fd = Written(w))'
    BY <1>1, <1>2, <1>6, <1>7 DEF ContentOK
<1>9. (script[w].at = "publish" => Complete(w))'
    BY <1>1, <1>2, <1>6 DEF ContentOK, Complete, Kind
<1>10. (proc[w].pc \in {"rename", "aside", "move", "putBack"} => Whole(w, data[at.tmp[w]]))'
    BY <1>1, <1>2, <1>3 DEF ContentOK, TmpOK, Whole, Kind
<1> QED BY <1>1, <1>2, <1>8, <1>9, <1>10 DEF ContentOK, Whole, Kind, At

LEMMA RemoteOthers ==
    ASSUME RemoteGood, NEW u \in Proc, RemoteFrame(u), Own', ScriptOK(u)', AgentOK(u)', TmpOK(u)',
           ~Overlap => ContentStep(u)
    PROVE  RemoteGood'
<1>1. CoreType' /\ ProcInv'
    BY MovesKeep DEF RemoteGood, RemoteFrame
<1>2. ScriptType' /\ FileType'
    BY DEF RemoteGood, ScriptType, FileType, RemoteFrame, ScriptFrame, AtFrame
<1>3. ASSUME NEW w \in Proc PROVE (ScriptOK(w) /\ AgentOK(w) /\ TmpOK(w))'
    <2>1. CASE w = u
        BY <2>1
    <2>2. CASE w # u
        <3>1. /\ proc'[w] = proc[w] /\ script'[w] = script[w] /\ at'.tmp[w] = at.tmp[w] /\ at'.old[w] = at.old[w]
              /\ (w \in agent' => w \in agent) /\ (w \in litter => w \in litter')
            BY <2>2 DEF RemoteFrame, Moves, Frame, ScriptFrame, AtFrame
        <3>2. ScriptOK(w) /\ AgentOK(w) /\ TmpOK(w)
            BY DEF RemoteGood, ScriptInv, AgentInv, TmpInv
        <3>3. ScriptOK(w)'
            BY <3>1, <3>2 DEF ScriptOK, Kind
        <3>4. AgentOK(w)'
            BY <3>1, <3>2 DEF AgentOK, Kind, At
        <3>5. TmpOK(w)'
            BY <3>1, <3>2 DEF TmpOK, Kind, At, Up
        <3> QED BY <3>3, <3>4, <3>5
    <2> QED BY <2>1, <2>2
<1>4. ASSUME ~Overlap PROVE (Solo /\ (\A w \in Proc : ContentOK(w)) /\ PreviousFile)'
    <2>1. ContentStep(u) /\ Solo
        BY <1>4 DEF RemoteGood, ContentInv
    <2>2. \A w \in Proc : ContentOK(w)'
        BY <1>4, <2>1, OthersKeepContent DEF ContentStep
    <2>3. \A w \in Proc : /\ Kind(w, {"resume"})' => Kind(w, {"resume"})
                          /\ w # u /\ Idle(w) => Idle(w)'
        BY DEF RemoteFrame, Moves, Frame, ScriptFrame, Kind, Idle, At
    <2>4. Kind(u, {"resume"}) /\ Idle(u) => Idle(u)' \/ \A w \in Proc : w # u => Idle(w)
        BY <2>1 DEF ContentStep
    <2>5. ASSUME NEW x \in Proc, NEW w \in Proc, x # w, Kind(x, {"resume"})', Kind(w, {"resume"})'
          PROVE  Idle(x)' \/ Idle(w)'
        <3>1. Idle(x) \/ Idle(w)
            BY <2>1, <2>3, <2>5 DEF Solo
        <3> QED BY <2>3, <2>4, <2>5, <3>1
    <2> QED BY <2>1, <2>2, <2>5 DEF Solo, ContentStep
<1> QED BY <1>1, <1>2, <1>3, <1>4 DEF RemoteGood, ScriptInv, AgentInv, TmpInv, ContentInv

\* A step that keeps the destination, what was moved aside and their contents.
LEMMA PreviousKept ==
    ASSUME FileType, PreviousFile, NEW u \in Proc, AtFrame(u), NEW x, Writes(x),
           at'.dest = at.dest, at'.old[u] = at.old[u],
           x # 0 => x # at.dest /\ \A w \in Proc : x # at.old[w],
           \A w \in Proc : pub'[w] = <<>> => pub[w] = <<>>
    PROVE  PreviousFile'
<1> SUFFICES ASSUME \A w \in Proc : pub'[w] = <<>>
             PROVE  \E i \in {at'.dest} \cup {at'.old[w] : w \in Proc} : i # 0 /\ data'[i] = Content(0)
    BY DEF PreviousFile
<1>1. PICK i \in {at.dest} \cup {at.old[w] : w \in Proc} : i # 0 /\ data[i] = Content(0)
    BY DEF PreviousFile
<1>2. at'.dest = at.dest /\ \A w \in Proc : at'.old[w] = at.old[w]
    BY DEF AtFrame
<1>3. i \in Inode /\ Named(i)' /\ i # x
    BY <1>1, <1>2, AtFields DEF Named
<1>4. data'[i] = data[i]
    BY <1>3 DEF Writes
<1> QED BY <1>1, <1>2, <1>4

\* A step that neither writes to a file nor changes a name.
LEMMA Untouched ==
    ASSUME RemoteGood, NEW u \in Proc, UNCHANGED <<data, at, pub>>
    PROVE  /\ AtFrame(u) /\ NamesAre(u, at.dest, at.tmp[u], at.old[u]) /\ Own'
           /\ data' \in [Inode -> Seq(Block)] /\ pub' \in [Proc -> Seq(Block)]
           /\ ~Overlap => PreviousFile'
<1>1. FileType /\ Own /\ (~Overlap => PreviousFile)
    BY DEF RemoteGood, ContentInv
<1>2. AtFrame(u) /\ NamesAre(u, at.dest, at.tmp[u], at.old[u])
    BY <1>1, AtKept
<1>3. Own'
    BY <1>1 DEF Own
<1>4. PreviousFile => PreviousFile'
    BY DEF PreviousFile
<1> QED BY <1>1, <1>2, <1>3, <1>4 DEF FileType

\* A step of a transfer that has no remote part.
LEMMA RemoteIdle ==
    ASSUME RemoteGood, NEW u \in Proc, ~Kind(u, ShellKinds \cup SftpKinds), Moves(u), source' = source,
           faults' \in 0 .. MaxFaults, UNCHANGED <<remoteVars, sftpVars>>
    PROVE  RemoteGood'
<1>1. /\ CoreType /\ ScriptType /\ FileType /\ ScriptOK(u) /\ AgentOK(u) /\ TmpOK(u) /\ (~Overlap => ContentOK(u))
      /\ UNCHANGED <<data, at, script, pub, agent, posix, litter>>
    BY DEF RemoteGood, ScriptInv, AgentInv, TmpInv, ContentInv, remoteVars, sftpVars
<1>2. ScriptFrame(u) /\ ScriptIs(u, script[u].at, script[u].fd, script[u].status)
    BY <1>1, ScriptKept
<1>3. RemoteFrame(u)
    BY <1>1, <1>2, Untouched DEF RemoteFrame, ScriptType, FileType
<1>4. /\ script[u].at = "idle" /\ script[u].fd = 0 /\ script[u].status = "none" /\ u \notin agent
      /\ at.tmp[u] = 0 /\ at.old[u] = 0
    BY <1>1, ScriptFields DEF ScriptOK, AgentOK, TmpOK, Kind, ShellKinds, SftpKinds
<1>5. ~Kind(u, ShellKinds)' /\ ~Kind(u, SftpKinds)' /\ ~Kind(u, {"direct"})' /\ ~Kind(u, {"resume"})'
    BY DEF Moves, Frame, Kind, ShellKinds
<1>6. /\ proc'[u].pc \notin SftpPc \ {"start", "cleanup", "done"} /\ proc'[u].pc # "reread"
    <2>1. KindPc(proc'[u].kind, proc'[u].pc) /\ proc'[u].kind = proc[u].kind /\ proc[u].kind \in Kinds
        BY <1>1, ProcFields DEF Moves, Frame, ProcOK
    <2> QED BY <2>1 DEF KindPc, Kind, Kinds, ShellKinds, SftpKinds, FileGets, SftpPc, GetPc, DirPc, TreePc
<1>7. ScriptOK(u)'
    BY <1>1, <1>4, <1>5 DEF ScriptOK
<1>8. AgentOK(u)'
    BY <1>1, <1>4, <1>5 DEF AgentOK
<1>9. TmpOK(u)'
    BY <1>1, <1>4, <1>5, <1>6 DEF TmpOK, SftpPc, At
<1>10. ASSUME ~Overlap PROVE ContentStep(u)
    <2>1. pub[u] = <<>>
        BY <1>1, <1>10 DEF ContentOK
    <2>2. ContentOK(u)'
        BY <1>1, <1>4, <1>5, <1>6, <2>1 DEF ContentOK, SftpPc, Kind
    <2> QED BY <1>1, <1>10, <2>2, Untouched DEF ContentStep, Kind, ShellKinds
<1>11. Own'
    BY <1>1, Untouched
<1> QED BY <1>3, <1>7, <1>8, <1>9, <1>10, <1>11, RemoteOthers

LEMMA RemoteFacts ==
    ASSUME RemoteGood, NEW u \in Proc
    PROVE  /\ CoreType /\ ProcInv /\ ScriptType /\ FileType /\ Own
           /\ ProcOK(proc[u]) /\ ScriptOK(u) /\ AgentOK(u) /\ TmpOK(u)
           /\ ~Overlap => ContentOK(u) /\ PreviousFile
BY DEF RemoteGood, ProcInv, ScriptInv, AgentInv, TmpInv, ContentInv

\* A step that leaves the names, the contents and what was published alone.
LEMMA ControlStep ==
    ASSUME RemoteGood, NEW u \in Proc, Moves(u), source' = source, faults' \in 0 .. MaxFaults,
           UNCHANGED <<data, at, pub, posix, litter>>, ScriptFrame(u), agent' \subseteq agent \cup {u},
           ScriptOK(u)', AgentOK(u)', TmpOK(u)', ~Overlap => ContentOK(u)',
           ~Overlap /\ Kind(u, {"resume"}) /\ Idle(u) => Idle(u)' \/ \A w \in Proc : w # u => Idle(w)
    PROVE  RemoteGood'
<1>1. ScriptType /\ FileType
    BY DEF RemoteGood
<1>2. RemoteFrame(u)
    BY <1>1, Untouched DEF RemoteFrame, ScriptType, FileType
<1>3. Own'
    BY Untouched
<1>4. ASSUME ~Overlap PROVE ContentStep(u)
    BY <1>4, Untouched DEF ContentStep
<1> QED BY <1>2, <1>3, <1>4, RemoteOthers

\* A step after which the transfer is where it was: it read on, its input came
\* or ended, its link was closed or its deadline remembered.
LEMMA RemoteStay ==
    ASSUME RemoteGood, NEW u \in Proc, Moves(u), Goes(u, proc[u].pc, proc[u].result),
           proc'[u].hash = proc[u].hash, proc'[u].link \in {proc[u].link, "closed"},
           Kind(u, SftpKinds) => proc'[u].sent = proc[u].sent,
           source' = source, faults' \in 0 .. MaxFaults, UNCHANGED <<data, at, pub, posix, litter>>,
           ScriptFrame(u), ScriptIs(u, script[u].at, script[u].fd, script[u].status),
           agent' \subseteq agent, AgentOK(u)'
    PROVE  RemoteGood'
<1>1. ScriptOK(u) /\ TmpOK(u) /\ (~Overlap => ContentOK(u))
    BY RemoteFacts
<1>2. /\ proc'[u].kind = proc[u].kind /\ proc'[u].pc = proc[u].pc /\ proc'[u].result = proc[u].result
      /\ script'[u].at = script[u].at /\ script'[u].fd = script[u].fd /\ script'[u].status = script[u].status
    BY DEF Moves, Frame, Goes, ScriptIs
<1>3. ScriptOK(u)'
    BY <1>1, <1>2 DEF ScriptOK, Kind
<1>4. TmpOK(u)'
    BY <1>1, <1>2 DEF TmpOK, Kind, At, Up
<1>5. ASSUME ~Overlap PROVE ContentOK(u)'
    BY <1>1, <1>2, <1>5 DEF ContentOK, Whole, Complete, Written, MyPartial, Kind, At
<1>6. Idle(u) => Idle(u)'
    BY <1>2 DEF Idle, At
<1> QED BY <1>3, <1>4, <1>5, <1>6, ControlStep

\* An upload whose script has not started.
LEMMA IdleOK ==
    ASSUME RemoteGood, NEW u \in Proc, Kind(u, ShellKinds), script[u].at = "idle", Moves(u), script'[u] = script[u],
           at'.tmp[u] = at.tmp[u], at'.old[u] = at.old[u], pub'[u] = pub[u],
           proc'[u].pc \in {"probe", "create", "meta", "session", "done"}, proc'[u].result # "ok"
    PROVE  ScriptOK(u)' /\ TmpOK(u)' /\ (~Overlap => ContentOK(u)')
<1>1. ScriptOK(u) /\ TmpOK(u) /\ (~Overlap => ContentOK(u))
    BY RemoteFacts
<1>2. proc'[u].kind = proc[u].kind /\ proc[u].kind \notin SftpKinds
    BY DEF Moves, Frame, Kind, ShellKinds, SftpKinds
<1>3. script[u].fd = 0 /\ script[u].status = "none"
    BY <1>1 DEF ScriptOK
<1>4. ScriptOK(u)'
    BY <1>1, <1>2 DEF ScriptOK, Kind
<1>5. at.tmp[u] = 0 /\ at.old[u] = 0
    BY <1>1, <1>2 DEF TmpOK, Kind
<1>6. TmpOK(u)'
    BY <1>1, <1>2, <1>5 DEF TmpOK, Kind, At
<1>7. ASSUME ~Overlap PROVE ContentOK(u)'
    BY <1>1, <1>2, <1>3, <1>7 DEF ContentOK, Kind, At
<1> QED BY <1>4, <1>6, <1>7

LEMMA StillMoves ==
    ASSUME CoreType, ProcInv, NEW u \in Proc, proc' = proc
    PROVE  Moves(u) /\ Goes(u, proc[u].pc, proc[u].result) /\ SameLink(u) /\ SameRead(u)
BY DEF CoreType, ProcInv, Moves, Frame, Goes, SameLink, SameRead

LEMMA ScriptFed ==
    ASSUME ScriptType, NEW u \in Proc, NEW s \in Seq(Block), script' = [script EXCEPT ![u].input = s]
    PROVE  ScriptFrame(u) /\ ScriptIs(u, script[u].at, script[u].fd, script[u].status)
<1> DEFINE b == script[u].eof
<1>1. script' = [script EXCEPT ![u].eof = b, ![u].input = s]
    BY DEF ScriptType, ScriptRecord
<1>2. b \in BOOLEAN
    BY ScriptFields
<1> HIDE DEF b
<1> QED BY <1>1, <1>2, ScriptInput

LEMMA ScriptInputOver ==
    ASSUME ScriptType, NEW u \in Proc, script' = [script EXCEPT ![u].eof = TRUE]
    PROVE  ScriptFrame(u) /\ ScriptIs(u, script[u].at, script[u].fd, script[u].status)
<1> DEFINE s == script[u].input
<1>1. script' = [script EXCEPT ![u].eof = TRUE, ![u].input = s]
    BY DEF ScriptType, ScriptRecord
<1>2. s \in Seq(Block)
    BY ScriptFields
<1> HIDE DEF s
<1> QED BY <1>1, <1>2, ScriptInput

-----------------------------------------------------------------------------
(* Uploads through a shell: the local side                                 *)

LEMMA ShellLands ==
    ASSUME CoreType, ProcInv, NEW u \in Proc, proc[u].pc \notin {"cleanup", "done"}, Kind(u, ShellKinds),
           NEW l \in {"probe", "create", "meta", "session", "stream", "wait", "reread"},
           l \in {"probe", "create", "meta"} => Kind(u, {"resume"}) /\ proc[u].sent = <<>>, l = "reread" => Kind(u, {"direct"})
    PROVE  l \in Pcs /\ Lands(u, l, proc[u].result) /\ proc[u].result = "none"
<1>1. proc[u].result = "none"
    BY PcKind
<1> QED BY <1>1 DEF Lands, KindPc, Kind, ShellPc, Pcs, ShellKinds, SftpKinds, FileGets

LEMMA ProbeIsResume ==
    ASSUME RemoteGood, NEW u \in Proc, proc[u].pc \in {"probe", "create", "meta"}
    PROVE  /\ Kind(u, {"resume"}) /\ Kind(u, ShellKinds) /\ script[u].at = "idle" /\ script[u].fd = 0
           /\ at.tmp[u] = 0 /\ u \notin agent /\ ~Idle(u)
<1>1. ProcOK(proc[u]) /\ ScriptOK(u) /\ TmpOK(u) /\ AgentOK(u)
    BY RemoteFacts
<1>2. Kind(u, {"resume"}) /\ Kind(u, ShellKinds)
    BY <1>1 DEF ProcOK, Kind, ShellKinds
<1> QED BY <1>1, <1>2 DEF ScriptOK, TmpOK, AgentOK, Idle, At, Kind

LEMMA OpenedKeeps ==
    ASSUME RemoteGood, NEW u \in Proc, NEW h \in Version, NEW l \in {"probe", "session"}, NEW agents,
           Opened(u, h, l, agents), Kind(u, ShellKinds), UNCHANGED <<posix, litter>>,
           l = "probe" => Kind(u, {"resume"}),
           Kind(u, {"resume"}) => Overlap \/ \A w \in Proc : w # u => Idle(w),
           agents = agent \/ (agents = agent \cup {u} /\ Kind(u, {"direct"}) /\ l = "session")
    PROVE  RemoteGood'
<1>1. /\ CoreType /\ ProcInv /\ ScriptType /\ proc[u].pc = "start" /\ ScriptOK(u) /\ AgentOK(u)
      /\ proc[u].sent = <<>> /\ UNCHANGED <<source, data, at, script, pub>>
    BY RemoteFacts DEF Opened, At, ProcOK
<1>2. script[u].at = "idle" /\ u \notin agent
    BY <1>1 DEF ScriptOK, AgentOK
<1>3. ScriptFrame(u) /\ script'[u] = script[u]
    BY <1>1, ScriptKept
<1>4. at'.tmp[u] = at.tmp[u] /\ at'.old[u] = at.old[u] /\ pub'[u] = pub[u]
    BY <1>1
<1>5. CASE /\ proc' = [proc EXCEPT ![u].hash = h, ![u].pc = l] /\ agent' = agents /\ UNCHANGED faults
    <2>1. l \in Pcs /\ Lands(u, l, proc[u].result) /\ proc[u].result = "none"
        <3>1. /\ l \in {"probe", "create", "meta", "session", "stream", "wait", "reread"} /\ l # "reread"
              /\ (l \in {"probe", "create", "meta"} => Kind(u, {"resume"})) /\ proc[u].pc \notin {"cleanup", "done"}
            BY <1>1
        <3> QED BY <1>1, <3>1, ShellLands
    <2>2. Frame(u) /\ Goes(u, l, "none") /\ SameLink(u) /\ proc'[u].prefix = proc[u].prefix /\ proc'[u].sent = proc[u].sent
        BY <1>1, <1>5, <2>1, OpenedStep
    <2>3. Moves(u)
        BY <1>1, <2>1, <2>2, Landed
    <2>4. ScriptOK(u)' /\ TmpOK(u)' /\ (~Overlap => ContentOK(u)')
        BY <1>2, <1>3, <1>4, <2>2, <2>3, IdleOK DEF Goes
    <2>5. AgentOK(u)'
        BY <1>1, <1>2, <1>5, <2>2 DEF AgentOK, Goes, SameLink, Frame, Kind, At
    <2>6. faults' \in 0 .. MaxFaults /\ agent' \subseteq agent \cup {u}
        BY <1>1, <1>5 DEF CoreType
    <2> QED BY <1>1, <1>3, <2>3, <2>4, <2>5, <2>6, ControlStep
<1>6. CASE Fault /\ Finish(u, "dial") /\ UNCHANGED agent
    <2>1. "dial" \in Results /\ "dial" # "ok"
        BY DEF Results
    <2>2. Moves(u) /\ Goes(u, "done", "dial")
        BY <1>1, <1>6, <2>1, FinishMoves
    <2>3. ScriptOK(u)' /\ TmpOK(u)' /\ (~Overlap => ContentOK(u)')
        BY <1>2, <1>3, <1>4, <2>2, IdleOK DEF Goes
    <2>4. AgentOK(u)'
        BY <1>2, <1>6, <2>2 DEF AgentOK, Goes, At
    <2>5. Idle(u)'
        BY <1>2, <1>3, <2>2 DEF Idle, Goes, At
    <2>6. faults' \in 0 .. MaxFaults
        BY <1>1, <1>6, FaultType
    <2> QED BY <1>1, <1>3, <1>6, <2>2, <2>3, <2>4, <2>5, <2>6, ControlStep
<1> QED BY <1>5, <1>6 DEF Opened

LEMMA ShellOpenKeeps ==
    ASSUME RemoteGood, NEW u \in Proc, PutOpen(u) \/ ResumeOpen(u) \/ CopyOpen(u) \/ DirectOpen(u),
           UNCHANGED sftpVars
    PROVE  RemoteGood'
<1>1. source \in Version /\ 0 \in Version /\ UNCHANGED <<posix, litter>>
    BY TransferAssumption DEF RemoteGood, CoreType, Version, sftpVars
<1>2. CASE PutOpen(u)
    <2> DEFINE h == IF Digested(u) THEN source ELSE 0
    <2>1. h \in Version
        BY <1>1
    <2>2. Opened(u, h, "session", agent) /\ Kind(u, ShellKinds) /\ ~Kind(u, {"resume"})
        BY <1>2 DEF PutOpen, Kind, ShellKinds
    <2> HIDE DEF h
    <2> QED BY <1>1, <2>1, <2>2, OpenedKeeps
<1>3. CASE ResumeOpen(u)
    <2>1. Opened(u, source, "probe", agent) /\ Kind(u, ShellKinds) /\ Kind(u, {"resume"})
          /\ (Overlap \/ \A w \in Proc : w # u => Idle(w))
        BY <1>3 DEF ResumeOpen, Kind, ShellKinds
    <2> QED BY <1>1, <2>1, OpenedKeeps
<1>4. CASE CopyOpen(u)
    <2>1. Opened(u, source, "session", agent) /\ Kind(u, ShellKinds) /\ ~Kind(u, {"resume"})
        BY <1>4 DEF CopyOpen, Kind, ShellKinds
    <2> QED BY <1>1, <2>1, OpenedKeeps
<1>5. CASE DirectOpen(u)
    <2>1. Opened(u, source, "session", agent \cup {u}) /\ Kind(u, ShellKinds) /\ ~Kind(u, {"resume"}) /\ Kind(u, {"direct"})
        BY <1>5 DEF DirectOpen, Kind, ShellKinds
    <2> DEFINE ag == agent \cup {u}
    <2>2. Opened(u, source, "session", ag) /\ ag = agent \cup {u}
        BY <2>1
    <2> HIDE DEF ag
    <2> QED BY <1>1, <2>1, <2>2, OpenedKeeps
<1> QED BY <1>2, <1>3, <1>4, <1>5

\* A probe, or a session that was not opened, ends or goes on.
LEMMA IdleMoves ==
    ASSUME RemoteGood, NEW u \in Proc, Kind(u, ShellKinds), script[u].at = "idle", proc[u].pc # "start",
           proc[u].pc # "done", Moves(u), NEW l, NEW r, Goes(u, l, r), r # "ok",
           l \in {"create", "session", "done"}, source' = source, faults' \in 0 .. MaxFaults,
           UNCHANGED <<data, at, pub, script, posix, litter>>, agent' \subseteq agent, AgentOK(u)'
    PROVE  RemoteGood'
<1>1. ScriptType
    BY RemoteFacts
<1>2. ScriptFrame(u) /\ script'[u] = script[u]
    BY <1>1, ScriptKept
<1>3. at'.tmp[u] = at.tmp[u] /\ at'.old[u] = at.old[u] /\ pub'[u] = pub[u]
    OBVIOUS
<1>4. proc'[u].pc \in {"probe", "create", "meta", "session", "done"} /\ proc'[u].result # "ok"
    BY DEF Goes
<1>5. ScriptOK(u)' /\ TmpOK(u)' /\ (~Overlap => ContentOK(u)')
    BY <1>2, <1>3, <1>4, IdleOK
<1>6. ~Idle(u) /\ agent' \subseteq agent \cup {u}
    BY DEF Idle, At
<1> QED BY <1>2, <1>5, <1>6, ControlStep

LEMMA ProbeInspectKeeps ==
    ASSUME RemoteGood, NEW u \in Proc, ProbeInspect(u) \/ ProbeDies(u), UNCHANGED sftpVars
    PROVE  RemoteGood'
<1>1. /\ proc[u].pc \in {"probe", "create", "meta"} /\ UNCHANGED <<source, data, at, script, pub, agent, posix, litter>>
      /\ CoreType /\ ProcInv /\ FileType /\ agent' \subseteq agent
    BY RemoteFacts DEF ProbeInspect, ProbeDies, At, remoteVars, sftpVars
<1>2. Kind(u, {"resume"}) /\ Kind(u, ShellKinds) /\ script[u].at = "idle" /\ u \notin agent /\ ~Kind(u, {"direct"})
    BY <1>1, ProbeIsResume DEF Kind
<1>3. faults' \in 0 .. MaxFaults
    BY <1>1, FaultType DEF ProbeInspect, ProbeDies, CoreType
<1>4. ASSUME Moves(u) PROVE AgentOK(u)'
    BY <1>1, <1>2, <1>4 DEF AgentOK, Moves, Frame, Kind
<1>5. ASSUME NEW r \in Results, r # "ok", Finish(u, r) PROVE RemoteGood'
    <2>1. Moves(u) /\ Goes(u, "done", r)
        BY <1>1, <1>5, FinishMoves
    <2> QED BY <1>1, <1>2, <1>3, <1>4, <1>5, <2>1, IdleMoves
<1>6. "incompatible" \in Results /\ "partial_mismatch" \in Results /\ "failed" \in Results
    BY DEF Results
<1>7. CASE ProbeDies(u)
    BY <1>5, <1>6, <1>7 DEF ProbeDies
<1>8. CASE ProbeInspect(u)
    <2>1. /\ "create" \in Pcs /\ Lands(u, "create", proc[u].result)
          /\ "session" \in Pcs /\ Lands(u, "session", proc[u].result) /\ proc[u].result = "none"
        <3>1. proc[u].sent = <<>> /\ proc[u].pc \notin {"cleanup", "done"}
            BY <1>1, RemoteFacts DEF ProcOK
        <3> QED BY <1>1, <1>2, <3>1, ShellLands
    <2>2. CASE Step(u, "create")
        <3>1. Moves(u) /\ Goes(u, "create", "none")
            BY <1>1, <2>1, <2>2, StepMoves
        <3> QED BY <1>1, <1>2, <1>3, <1>4, <3>1, IdleMoves
    <2> DEFINE i == MyPartial(u)
    <2>3. CASE /\ i # 0 /\ Len(data[i]) =< Blocks
               /\ proc' = [proc EXCEPT ![u].prefix = data[i], ![u].pc = "session"]
        <3>1. i \in Inode /\ data[i] \in Seq(Block)
            BY <1>1, <2>3, AtFields, ProcFields DEF MyPartial, FileType
        <3> DEFINE q == [proc[u] EXCEPT !.prefix = data[i], !.pc = "session"]
        <3>2. q \in ProcRecord /\ q.kind = proc[u].kind /\ q.pc = "session" /\ q.result = "none" /\ q.prefix = data[i]
              /\ q.sent = proc[u].sent
            BY <1>1, <2>1, <3>1, ProcFields DEF ProcRecord
        <3>3. proc' = [proc EXCEPT ![u] = q]
            BY <2>3
        <3> HIDE DEF q
        <3>4. Frame(u) /\ proc'[u] = q
            BY <1>1, <3>2, <3>3, Framed
        <3>5. Goes(u, "session", "none")
            BY <3>2, <3>4 DEF Goes
        <3>6. proc[u].sent = <<>>
            BY RemoteFacts, <1>1 DEF ProcOK
        <3>7. ProcOK(q)
            BY <1>2, <2>3, <3>1, <3>2, <3>6, TransferAssumption DEF ProcOK, KindPc, Kind, ShellKinds, SftpKinds, FileGets, ShellPc
        <3>8. Moves(u)
            BY <3>4, <3>7 DEF Moves
        <3> QED BY <1>1, <1>2, <1>3, <1>4, <3>5, <3>8, IdleMoves
    <2>4. \/ Step(u, "create") \/ Finish(u, "incompatible") \/ Finish(u, "partial_mismatch")
          \/ i # 0 /\ ~(Len(data[i]) > Blocks) /\ proc' = [proc EXCEPT ![u].prefix = data[i], ![u].pc = "session"]
        BY <1>8 DEF ProbeInspect
    <2>5. i # 0 /\ ~(Len(data[i]) > Blocks) => Len(data[i]) =< Blocks
        <3>1. i # 0 => i \in Inode /\ data[i] \in Seq(Block)
            BY <1>1, AtFields, ProcFields DEF MyPartial, FileType
        <3> DEFINE n == Len(data[i])
        <3>2. i # 0 => n \in Nat
            BY <3>1
        <3> HIDE DEF n
        <3>3. i # 0 /\ ~(n > Blocks) => n =< Blocks
            BY <3>2, TransferAssumption
        <3> QED BY <3>3 DEF n
    <2> HIDE DEF i
    <2> QED BY <1>5, <1>6, <2>2, <2>3, <2>4, <2>5
<1> QED BY <1>7, <1>8

LEMMA StartScriptKeeps ==
    ASSUME RemoteGood, NEW u \in Proc, StartScript(u), UNCHANGED sftpVars
    PROVE  RemoteGood'
<1>1. /\ proc[u].pc = "session" /\ Kind(u, ShellKinds) /\ UNCHANGED <<source, faults, data, at, pub, posix, litter>>
      /\ CoreType /\ ProcInv /\ ScriptType /\ ScriptOK(u) /\ AgentOK(u) /\ TmpOK(u) /\ (~Overlap => ContentOK(u))
    BY RemoteFacts DEF StartScript, At, sftpVars
<1>2. faults' \in 0 .. MaxFaults /\ ~Idle(u)
    BY <1>1 DEF CoreType, Idle, At
<1>3. script[u].at = "idle" /\ script[u].fd = 0 /\ script[u].status = "none"
    BY <1>1 DEF ScriptOK
<1>4. CASE Up(u)
    <2> DEFINE l == IF Kind(u, {"direct"}) THEN "wait" ELSE "stream"
               m == IF Kind(u, {"direct"}) THEN "connect" ELSE IF Kind(u, {"resume"}) THEN "verify" ELSE "open"
    <2>1. /\ l \in {"wait", "stream"} /\ m \in {"connect", "verify", "open"}
          /\ (m = "connect" <=> Kind(u, {"direct"})) /\ (m = "verify" => Kind(u, {"resume"}))
          /\ (m = "open" => ~Kind(u, {"resume"})) /\ (Kind(u, {"direct"}) => l = "wait")
        BY DEF Kind
    <2>2. Step(u, l) /\ script' = [script EXCEPT ![u].at = m] /\ agent' = agent
        BY <1>4 DEF StartScript
    <2> HIDE DEF l, m
    <2>3. l \in Pcs /\ Lands(u, l, proc[u].result) /\ proc[u].result = "none"
        <3>1. /\ l \in {"probe", "create", "meta", "session", "stream", "wait", "reread"} /\ l # "reread"
              /\ l \notin {"probe", "create", "meta"} /\ proc[u].pc \notin {"cleanup", "done"}
            BY <1>1, <2>1
        <3> QED BY <1>1, <3>1, ShellLands
    <2>4. Moves(u) /\ Goes(u, l, "none") /\ SameLink(u) /\ SameRead(u)
        BY <1>1, <2>2, <2>3, StepMoves
    <2>5. m \in ScriptPcs
        BY <2>1 DEF ScriptPcs
    <2>6. ScriptFrame(u) /\ ScriptIs(u, m, 0, "none")
        BY <1>1, <1>3, <2>2, <2>5, ScriptGoes
    <2>7. /\ proc'[u].kind = proc[u].kind /\ proc'[u].pc = l /\ proc'[u].result = "none" /\ proc'[u].late = proc[u].late
          /\ script'[u].at = m /\ script'[u].fd = 0 /\ script'[u].status = "none"
        BY <2>4, <2>6 DEF Moves, Frame, Goes, SameLink, ScriptIs
    <2>8. ScriptOK(u)'
        BY <1>1, <2>1, <2>7 DEF ScriptOK, Kind
    <2>9. AgentOK(u)'
        BY <1>1, <2>1, <2>2, <2>7 DEF AgentOK, Kind, At
    <2>10. TmpOK(u)'
        BY <1>1, <1>3, <2>1, <2>7 DEF TmpOK, Kind, At, ShellKinds, SftpKinds
    <2>11. ASSUME ~Overlap PROVE ContentOK(u)'
        BY <1>1, <1>3, <2>1, <2>7, <2>11 DEF ContentOK, Kind, At
    <2> QED BY <1>1, <1>2, <2>2, <2>4, <2>6, <2>8, <2>9, <2>10, <2>11, ControlStep
<1>5. CASE ~Up(u)
    <2>1. PICK r \in {"failed", LateOr(u, "failed")} : Finish(u, r) /\ agent' = agent \ {u} /\ UNCHANGED script
        BY <1>5 DEF StartScript
    <2>2. r \in Results /\ r # "ok"
        <3>1. "failed" \in Results /\ "failed" # "ok"
            BY DEF Results
        <3> QED BY <1>1, <2>1, <3>1, LateOrIsResult
    <2>3. Moves(u) /\ Goes(u, "done", r)
        BY <1>1, <2>1, <2>2, FinishMoves
    <2>4. AgentOK(u)' /\ agent' \subseteq agent
        BY <2>1, <2>3 DEF AgentOK, Goes, At
    <2>5. proc[u].pc # "start" /\ proc[u].pc # "done"
        BY <1>1
    <2> QED BY <1>1, <1>2, <1>3, <2>1, <2>2, <2>3, <2>4, <2>5, IdleMoves
<1> QED BY <1>4, <1>5

\* The local side is done with the stream or with the script.
LEMMA ShellReturns ==
    ASSUME RemoteGood, NEW u \in Proc, Kind(u, ShellKinds), proc[u].pc \in {"stream", "wait", "reread"},
           Moves(u), NEW l \in {"wait", "reread", "done"}, NEW r, Goes(u, l, r), proc'[u].hash = proc[u].hash,
           (l = "reread" \/ r = "ok") /\ ~Overlap => Whole(u, pub[u]),
           source' = source, faults' \in 0 .. MaxFaults, UNCHANGED <<data, at, pub, posix, litter>>,
           ScriptFrame(u), ScriptIs(u, script[u].at, script[u].fd, script[u].status),
           agent' \subseteq agent, AgentOK(u)'
    PROVE  RemoteGood'
<1>1. ScriptOK(u) /\ TmpOK(u) /\ (~Overlap => ContentOK(u))
    BY RemoteFacts
<1>2. /\ proc'[u].kind = proc[u].kind /\ proc'[u].pc = l /\ proc'[u].result = r
      /\ script'[u].at = script[u].at /\ script'[u].fd = script[u].fd /\ script'[u].status = script[u].status
    BY DEF Moves, Frame, Goes, ScriptIs
<1>3. ScriptOK(u)'
    BY <1>1, <1>2 DEF ScriptOK, Kind
<1>4. TmpOK(u)'
    BY <1>1, <1>2 DEF TmpOK, Kind, At, ShellKinds, SftpKinds
<1>5. ASSUME ~Overlap PROVE ContentOK(u)'
    BY <1>1, <1>2, <1>5 DEF ContentOK, Whole, Complete, Written, MyPartial, Kind, At
<1>6. ~Idle(u)
    BY DEF Idle, At
<1> QED BY <1>3, <1>4, <1>5, <1>6, ControlStep

LEMMA ReportedIsResult ==
    ASSUME RemoteGood, NEW u \in Proc
    PROVE  /\ LateOr(u, Reported(u, "failed")) \in Results /\ LateOr(u, Reported(u, "failed")) # "ok"
           /\ LateOr(u, "failed") \in Results /\ LateOr(u, "failed") # "ok"
           /\ LateOr(u, "remote_read") \in Results /\ LateOr(u, "remote_read") # "ok"
<1>1. CoreType
    BY RemoteFacts
<1>2. Reported(u, "failed") \in Results /\ Reported(u, "failed") # "ok"
    BY DEF Reported, Results
<1>3. "failed" \in Results /\ "failed" # "ok" /\ "remote_read" \in Results /\ "remote_read" # "ok"
    BY DEF Results
<1> QED BY <1>1, <1>2, <1>3, LateOrIsResult

LEMMA StreamFailsKeeps ==
    ASSUME RemoteGood, NEW u \in Proc, StreamFails(u) \/ SourceFails(u), UNCHANGED sftpVars
    PROVE  RemoteGood'
<1>1. /\ proc[u].pc = "stream" /\ Kind(u, ShellKinds) /\ UNCHANGED <<source, data, at, script, pub, agent, posix, litter>>
      /\ CoreType /\ ProcInv /\ ScriptType /\ AgentOK(u)
    BY RemoteFacts DEF StreamFails, SourceFails, At, Kind, ShellKinds, remoteVars, sftpVars
<1>2. faults' \in 0 .. MaxFaults
    BY <1>1, FaultType DEF StreamFails, SourceFails, CoreType
<1>3. \E r \in Results : r # "ok" /\ Finish(u, r)
    BY ReportedIsResult DEF StreamFails, SourceFails
<1>4. PICK r \in Results : r # "ok" /\ Finish(u, r)
    BY <1>3
<1>5. Moves(u) /\ Goes(u, "done", r) /\ SameRead(u)
    BY <1>1, <1>4, FinishMoves
<1>6. AgentOK(u)' /\ agent' \subseteq agent
    BY <1>1, <1>5 DEF AgentOK, Goes, At
<1>7. ScriptFrame(u) /\ ScriptIs(u, script[u].at, script[u].fd, script[u].status)
    BY <1>1, ScriptKept
<1>8. proc'[u].hash = proc[u].hash /\ proc[u].pc \in {"stream", "wait", "reread"} /\ "done" \in {"wait", "reread", "done"}
      /\ "done" # "reread"
    BY <1>1, <1>5 DEF SameRead
<1> QED BY <1>1, <1>2, <1>4, <1>5, <1>6, <1>7, <1>8, ShellReturns

\* What the end of the wait leaves.
LEMMA WaitedMoves ==
    ASSUME RemoteGood, NEW u \in Proc, NEW l \in {"reread", "done"}, NEW result \in {"none", "ok", "mismatch"},
           Kind(u, ShellKinds), l = "reread" => Kind(u, {"direct"}) /\ result = "none", Waited(u, l, result)
    PROVE  /\ proc[u].pc = "wait" /\ Moves(u) /\ SameRead(u) /\ SameLink(u)
           /\ \E m \in {"reread", "done"}, r \in Results :
                  Goes(u, m, r) /\ ((m = "reread" \/ r = "ok") /\ ~Overlap => Whole(u, pub[u]))
<1>1. CoreType /\ ProcInv /\ proc[u].pc = "wait" /\ (~Overlap => ContentOK(u))
    BY RemoteFacts DEF Waited, At
<1>2. ASSUME NEW r \in Results, r # "ok", Finish(u, r)
      PROVE  /\ Moves(u) /\ SameRead(u) /\ SameLink(u)
             /\ Goes(u, "done", r) /\ (("done" = "reread" \/ r = "ok") /\ ~Overlap => Whole(u, pub[u]))
    BY <1>1, <1>2, FinishMoves
<1>3. CASE script[u].status = "receipt" /\ proc' = [proc EXCEPT ![u].pc = l, ![u].result = result]
    <2>1. l \in Pcs /\ result \in Results
        BY DEF Pcs, ShellPc, Results
    <2>2. Frame(u) /\ Goes(u, l, result) /\ SameLink(u) /\ SameRead(u)
        BY <1>1, <1>3, <2>1, Ended
    <2>3. Lands(u, l, result)
        BY DEF Lands, KindPc, Kind, ShellKinds, SftpKinds, FileGets, ShellPc, SftpPc, GetPc, DirPc, TreePc
    <2>4. Moves(u)
        BY <1>1, <2>2, <2>3, Landed DEF SameRead
    <2>5. ~Overlap => Whole(u, pub[u])
        BY <1>1, <1>3 DEF ContentOK
    <2> QED BY <1>1, <2>1, <2>2, <2>4, <2>5
<1> QED BY <1>1, <1>2, <1>3, ReportedIsResult DEF Waited

LEMMA WaitScriptKeeps ==
    ASSUME RemoteGood, NEW u \in Proc, WaitScript(u) \/ DirectWait(u), UNCHANGED sftpVars
    PROVE  RemoteGood'
<1>1. /\ Kind(u, ShellKinds) /\ UNCHANGED <<source, faults, data, at, script, pub, posix, litter>>
      /\ CoreType /\ ScriptType /\ AgentOK(u)
    BY RemoteFacts DEF WaitScript, DirectWait, Kind, ShellKinds, remoteVars, sftpVars
<1>2. \E l \in {"reread", "done"}, result \in {"none", "ok", "mismatch"} :
          (l = "reread" => Kind(u, {"direct"}) /\ result = "none") /\ Waited(u, l, result)
    BY DEF WaitScript, DirectWait
<1>3. PICK l \in {"reread", "done"}, result \in {"none", "ok", "mismatch"} :
          (l = "reread" => Kind(u, {"direct"}) /\ result = "none") /\ Waited(u, l, result)
    BY <1>2
<1>4. /\ proc[u].pc = "wait" /\ Moves(u) /\ SameRead(u) /\ SameLink(u)
      /\ \E m \in {"reread", "done"}, r \in Results :
             Goes(u, m, r) /\ ((m = "reread" \/ r = "ok") /\ ~Overlap => Whole(u, pub[u]))
    BY <1>1, <1>3, WaitedMoves
<1>5. PICK m \in {"reread", "done"}, r \in Results :
          Goes(u, m, r) /\ ((m = "reread" \/ r = "ok") /\ ~Overlap => Whole(u, pub[u]))
    BY <1>4
<1>6. agent' \subseteq agent /\ u \notin agent'
    <2>1. CASE WaitScript(u)
        BY <1>1, <2>1 DEF WaitScript, AgentOK, Kind, remoteVars
    <2>2. CASE DirectWait(u)
        BY <2>2 DEF DirectWait
    <2> QED BY <2>1, <2>2
<1>7. AgentOK(u)'
    BY <1>5, <1>6 DEF AgentOK, Goes, At
<1>8. ScriptFrame(u) /\ ScriptIs(u, script[u].at, script[u].fd, script[u].status)
    BY <1>1, ScriptKept
<1>9. proc'[u].hash = proc[u].hash /\ m \in {"wait", "reread", "done"} /\ proc[u].pc \in {"stream", "wait", "reread"}
      /\ faults' \in 0 .. MaxFaults
    BY <1>1, <1>4 DEF SameRead, CoreType
<1> QED BY <1>1, <1>4, <1>5, <1>6, <1>7, <1>8, <1>9, ShellReturns

LEMMA DirectRereadKeeps ==
    ASSUME RemoteGood, NEW u \in Proc, DirectReread(u), UNCHANGED sftpVars
    PROVE  RemoteGood'
<1>1. /\ proc[u].pc = "reread" /\ UNCHANGED <<source, faults, data, at, script, pub, agent, posix, litter>>
      /\ CoreType /\ ProcInv /\ ScriptType /\ AgentOK(u) /\ (~Overlap => ContentOK(u))
    BY RemoteFacts DEF DirectReread, At, remoteVars, sftpVars
<1>2. Kind(u, ShellKinds)
    BY <1>1, PcKind DEF ShellPc
<1>3. \E r \in Results : Finish(u, r)
    <2>1. "ok" \in Results /\ "mismatch" \in Results
        BY DEF Results
    <2> QED BY <2>1, ReportedIsResult DEF DirectReread
<1>4. PICK r \in Results : Finish(u, r)
    BY <1>3
<1>5. Moves(u) /\ Goes(u, "done", r) /\ SameRead(u)
    BY <1>1, <1>4, FinishMoves
<1>6. AgentOK(u)' /\ agent' \subseteq agent
    BY <1>1, <1>5 DEF AgentOK, Goes, At
<1>7. ScriptFrame(u) /\ ScriptIs(u, script[u].at, script[u].fd, script[u].status)
    BY <1>1, ScriptKept
<1>8. /\ proc'[u].hash = proc[u].hash /\ proc[u].pc \in {"stream", "wait", "reread"} /\ "done" \in {"wait", "reread", "done"}
      /\ (~Overlap => Whole(u, pub[u])) /\ faults' \in 0 .. MaxFaults
    BY <1>1, <1>5 DEF SameRead, ContentOK, CoreType
<1> QED BY <1>1, <1>2, <1>4, <1>5, <1>6, <1>7, <1>8, ShellReturns

\* The deadline of a transfer and the loss of its link.
LEMMA RemoteLinkStep ==
    ASSUME RemoteGood, NEW u \in Proc, Frame(u), Goes(u, proc[u].pc, proc[u].result), SameRead(u),
           proc'[u].link \in {proc[u].link, "closed"}, source' = source, faults' \in 0 .. MaxFaults,
           UNCHANGED <<data, at, script, pub, posix, litter>>, agent' \subseteq agent, AgentOK(u)'
    PROVE  RemoteGood'
<1>1. CoreType /\ ProcInv /\ ScriptType
    BY RemoteFacts
<1>2. Moves(u)
    BY <1>1, StayMoves
<1>3. ScriptFrame(u) /\ ScriptIs(u, script[u].at, script[u].fd, script[u].status)
    BY <1>1, ScriptKept
<1>4. proc'[u].hash = proc[u].hash /\ proc'[u].sent = proc[u].sent
    BY DEF SameRead
<1> QED BY <1>2, <1>3, <1>4, RemoteStay

LEMMA RemoteLoseLink ==
    ASSUME RemoteGood, NEW u \in Proc, LoseLink(u), UNCHANGED <<remoteVars, sftpVars>>
    PROVE  RemoteGood'
<1>1. /\ proc' = [proc EXCEPT ![u].link = "closed"] /\ Fault
      /\ UNCHANGED <<source, data, at, script, pub, agent, posix, litter>> /\ CoreType /\ AgentOK(u)
    BY RemoteFacts DEF LoseLink, remoteVars, sftpVars
<1>2. /\ Frame(u) /\ Goes(u, proc[u].pc, proc[u].result) /\ SameRead(u)
      /\ proc'[u].late = proc[u].late /\ proc'[u].link = "closed"
    BY <1>1, LinkStep
<1>3. AgentOK(u)'
    BY <1>1, <1>2 DEF AgentOK, Frame, Goes, Kind, At
<1>4. faults' \in 0 .. MaxFaults
    BY <1>1, FaultType
<1> QED BY <1>1, <1>2, <1>3, <1>4, RemoteLinkStep

LEMMA RemoteDeadline ==
    ASSUME RemoteGood, NEW u \in Proc, Deadline(u), ~Kind(u, {"direct"}), UNCHANGED <<remoteVars, sftpVars>>
    PROVE  RemoteGood'
<1>1. /\ proc' = [proc EXCEPT ![u].late = TRUE, ![u].link = "closed"]
      /\ UNCHANGED <<source, faults, data, at, script, pub, agent, posix, litter>> /\ CoreType /\ AgentOK(u)
    BY RemoteFacts DEF Deadline, remoteVars, sftpVars
<1>2. Frame(u) /\ Goes(u, proc[u].pc, proc[u].result) /\ SameRead(u) /\ proc'[u].link = "closed"
    BY <1>1, ClosedStep
<1>3. AgentOK(u)'
    BY <1>1, <1>2 DEF AgentOK, Frame, Kind
<1>4. faults' \in 0 .. MaxFaults
    BY <1>1 DEF CoreType
<1> QED BY <1>1, <1>2, <1>3, <1>4, RemoteLinkStep

LEMMA DirectDeadlineKeeps ==
    ASSUME RemoteGood, NEW u \in Proc, DirectDeadline(u) \/ DirectClose(u), UNCHANGED sftpVars
    PROVE  RemoteGood'
<1>1. UNCHANGED <<source, faults, data, at, script, pub, posix, litter>> /\ CoreType /\ AgentOK(u)
    BY RemoteFacts DEF DirectDeadline, DirectClose, remoteVars, sftpVars
<1>2. faults' \in 0 .. MaxFaults
    BY <1>1 DEF CoreType
<1>3. CASE DirectDeadline(u)
    <2>1. /\ proc' = [proc EXCEPT ![u].late = TRUE] /\ agent' = agent \ {u} /\ proc[u].pc # "start"
        BY <1>3 DEF DirectDeadline, Armed
    <2>2. Frame(u) /\ Goes(u, proc[u].pc, proc[u].result) /\ SameRead(u) /\ proc'[u].link = proc[u].link
        BY <1>1, <2>1, LateStep
    <2>3. AgentOK(u)' /\ agent' \subseteq agent
        BY <2>1, <2>2 DEF AgentOK, Goes, At
    <2> QED BY <1>1, <1>2, <2>2, <2>3, RemoteLinkStep
<1>4. CASE DirectClose(u)
    <2>1. proc' = [proc EXCEPT ![u].link = "closed"] /\ agent' = agent
        BY <1>4 DEF DirectClose, remoteVars
    <2>2. /\ Frame(u) /\ Goes(u, proc[u].pc, proc[u].result) /\ SameRead(u)
          /\ proc'[u].late = proc[u].late /\ proc'[u].link = "closed"
        BY <1>1, <2>1, LinkStep
    <2>3. AgentOK(u)'
        BY <1>1, <2>1, <2>2 DEF AgentOK, Frame, Goes, Kind, At
    <2> QED BY <1>1, <1>2, <2>1, <2>2, <2>3, RemoteLinkStep
<1> QED BY <1>3, <1>4

-----------------------------------------------------------------------------
(* Uploads through a shell: the script and its input                       *)

LEMMA ScriptIsShell ==
    ASSUME RemoteGood, NEW u \in Proc, script[u].at # "idle"
    PROVE  Kind(u, ShellKinds) /\ ~Kind(u, SftpKinds) /\ proc[u].pc \in {"stream", "wait", "reread", "done"}
BY RemoteFacts DEF ScriptOK, Kind, ShellKinds, SftpKinds

LEMMA SendKeeps ==
    ASSUME RemoteGood, NEW u \in Proc, Send(u), UNCHANGED sftpVars
    PROVE  RemoteGood'
<1>1. /\ ~AtEnd(u) /\ Feeding(u) /\ UNCHANGED <<source, faults, data, at, pub, agent, posix, litter>>
      /\ proc' = [proc EXCEPT ![u].sent = Append(@, NextBlock(u))]
      /\ CoreType /\ ProcInv /\ ScriptType /\ AgentOK(u)
    BY RemoteFacts DEF Send, sftpVars
<1>2. proc[u].pc \in {"stream", "wait", "reread", "done"} /\ ~Kind(u, SftpKinds)
    <2>1. CASE Kind(u, {"direct"})
        BY <1>1, <2>1, ScriptIsShell DEF Feeding
    <2>2. CASE ~Kind(u, {"direct"})
        <3>1. proc[u].pc = "stream"
            BY <1>1, <2>2 DEF Feeding, At
        <3> QED BY <1>1, <3>1, PcKind DEF ShellPc, Kind, ShellKinds, SftpKinds
    <2> QED BY <2>1, <2>2
<1>3. proc[u].pc \notin {"start", "probe", "create", "meta", "mktemp"}
    BY <1>2
<1>4. Moves(u) /\ Goes(u, proc[u].pc, proc[u].result) /\ SameLink(u) /\ proc'[u].hash = proc[u].hash
    BY <1>1, <1>3, SendMoves
<1> DEFINE s == Append(script[u].input, NextBlock(u))
<1>5. s \in Seq(Block)
    BY <1>1, ScriptFields, NextBlockIsBlock
<1>6. script' = [script EXCEPT ![u].input = s]
    BY DEF Send
<1> HIDE DEF s
<1>7. ScriptFrame(u) /\ ScriptIs(u, script[u].at, script[u].fd, script[u].status)
    BY <1>1, <1>5, <1>6, ScriptFed
<1>8. AgentOK(u)'
    BY <1>1, <1>4 DEF AgentOK, Moves, Frame, Goes, SameLink, Kind, At
<1>9. proc'[u].link \in {proc[u].link, "closed"} /\ faults' \in 0 .. MaxFaults
    BY <1>1, <1>4 DEF SameLink, CoreType
<1> QED BY <1>1, <1>2, <1>4, <1>7, <1>8, <1>9, RemoteStay

LEMMA CloseStdinKeeps ==
    ASSUME RemoteGood, NEW u \in Proc, CloseStdin(u), UNCHANGED sftpVars
    PROVE  RemoteGood'
<1>1. /\ Feeding(u) /\ UNCHANGED <<source, faults, data, at, pub, agent, posix, litter>>
      /\ script' = [script EXCEPT ![u].eof = TRUE]
      /\ CoreType /\ ProcInv /\ ScriptType /\ AgentOK(u) /\ agent' \subseteq agent
    BY RemoteFacts DEF CloseStdin, sftpVars
<1>2. ScriptFrame(u) /\ ScriptIs(u, script[u].at, script[u].fd, script[u].status)
    BY <1>1, ScriptInputOver
<1>3. faults' \in 0 .. MaxFaults
    BY <1>1 DEF CoreType
<1>4. CASE Kind(u, {"direct"})
    <2>1. proc' = proc
        BY <1>1, <1>4 DEF CloseStdin, Step, CoreType, ProcRecord
    <2>2. Moves(u) /\ Goes(u, proc[u].pc, proc[u].result) /\ SameLink(u) /\ SameRead(u)
        BY <1>1, <2>1, StillMoves
    <2>3. AgentOK(u)'
        BY <1>1, <2>1 DEF AgentOK, Kind, At
    <2>4. proc'[u].link \in {proc[u].link, "closed"} /\ proc'[u].hash = proc[u].hash /\ proc'[u].sent = proc[u].sent
        BY <2>1
    <2> QED BY <1>1, <1>2, <1>3, <2>2, <2>3, <2>4, RemoteStay
<1>5. CASE ~Kind(u, {"direct"})
    <2>1. proc[u].pc = "stream" /\ Step(u, "wait")
        BY <1>1, <1>5 DEF CloseStdin, Feeding, At
    <2>2. Kind(u, ShellKinds)
        BY <1>1, <2>1, PcKind DEF ShellPc
    <2>3. "wait" \in Pcs /\ Lands(u, "wait", proc[u].result) /\ proc[u].result = "none"
        BY <1>1, <2>1, <2>2, ShellLands
    <2>4. Moves(u) /\ Goes(u, "wait", "none") /\ SameLink(u) /\ SameRead(u)
        BY <1>1, <2>1, <2>3, StepMoves
    <2>5. AgentOK(u)'
        BY <1>1, <1>5, <2>4 DEF AgentOK, Moves, Frame, Kind
    <2>6. proc'[u].hash = proc[u].hash /\ proc[u].pc \in {"stream", "wait", "reread"} /\ "wait" \in {"wait", "reread", "done"}
          /\ "none" # "ok" /\ "wait" # "reread"
        BY <2>1, <2>4 DEF SameRead
    <2> QED BY <1>1, <1>2, <1>3, <2>2, <2>4, <2>5, <2>6, ShellReturns
<1> QED BY <1>4, <1>5

LEMMA InputEndsKeeps ==
    ASSUME RemoteGood, NEW u \in Proc, InputEnds(u), UNCHANGED sftpVars
    PROVE  RemoteGood'
<1>1. /\ UNCHANGED <<source, faults, proc, data, at, pub, agent, posix, litter>>
      /\ CoreType /\ ProcInv /\ ScriptType /\ AgentOK(u) /\ agent' \subseteq agent
    BY RemoteFacts DEF InputEnds, sftpVars
<1>2. PICK n \in 0 .. Len(script[u].input) :
          script' = [script EXCEPT ![u].eof = TRUE, ![u].input = SubSeq(@, 1, n)]
    BY DEF InputEnds
<1> DEFINE s == SubSeq(script[u].input, 1, n)
<1>3. s \in Seq(Block)
    <2>1. script[u].input \in Seq(Block)
        BY <1>1, ScriptFields
    <2> QED BY <2>1
<1>4. script' = [script EXCEPT ![u].eof = TRUE, ![u].input = s]
    BY <1>2
<1> HIDE DEF s
<1>5. ScriptFrame(u) /\ ScriptIs(u, script[u].at, script[u].fd, script[u].status)
    BY <1>1, <1>3, <1>4, ScriptInput
<1>6. Moves(u) /\ Goes(u, proc[u].pc, proc[u].result) /\ SameLink(u) /\ SameRead(u)
    BY <1>1, StillMoves
<1>7. AgentOK(u)'
    BY <1>1 DEF AgentOK, Kind, At
<1>8. /\ proc'[u].link \in {proc[u].link, "closed"} /\ proc'[u].hash = proc[u].hash /\ proc'[u].sent = proc[u].sent
      /\ faults' \in 0 .. MaxFaults
    BY <1>1 DEF CoreType
<1> QED BY <1>1, <1>5, <1>6, <1>7, <1>8, RemoteStay

LEMMA DirectConnectKeeps ==
    ASSUME RemoteGood, NEW u \in Proc, DirectConnect(u), UNCHANGED sftpVars
    PROVE  RemoteGood'
<1>1. /\ UNCHANGED <<source, faults, proc, data, at, pub, agent, posix, litter>> /\ script[u].at = "connect"
      /\ CoreType /\ ProcInv /\ ScriptType /\ ScriptOK(u) /\ AgentOK(u) /\ TmpOK(u) /\ (~Overlap => ContentOK(u))
    BY RemoteFacts DEF DirectConnect, sftpVars
<1> DEFINE m == IF u \in agent /\ Up(u) THEN "open" ELSE "exit"
<1>2. m \in {"open", "exit"} /\ m \in ScriptPcs /\ script' = [script EXCEPT ![u].at = m]
    BY DEF DirectConnect, ScriptPcs
<1> HIDE DEF m
<1>3. script[u].fd = 0 /\ script[u].status = "none" /\ Kind(u, {"direct"}) /\ Kind(u, ShellKinds)
    BY <1>1 DEF ScriptOK
<1>4. ScriptFrame(u) /\ ScriptIs(u, m, 0, "none")
    BY <1>1, <1>2, <1>3, ScriptGoes
<1>5. Moves(u)
    BY <1>1, StillMoves
<1>6. ScriptOK(u)'
    BY <1>1, <1>2, <1>3, <1>4 DEF ScriptOK, ScriptIs, Kind
<1>7. AgentOK(u)'
    BY <1>1 DEF AgentOK, Kind, At
<1>8. TmpOK(u)'
    BY <1>1, <1>2, <1>3, <1>4 DEF TmpOK, ScriptIs, Kind, At, Up
<1>9. ASSUME ~Overlap PROVE ContentOK(u)'
    BY <1>1, <1>2, <1>3, <1>4, <1>9 DEF ContentOK, ScriptIs, Kind, At, Whole
<1>10. ~Kind(u, {"resume"}) /\ agent' \subseteq agent \cup {u} /\ faults' \in 0 .. MaxFaults
    BY <1>1, <1>3 DEF Kind, CoreType
<1> QED BY <1>1, <1>4, <1>5, <1>6, <1>7, <1>8, <1>9, <1>10, ControlStep

-----------------------------------------------------------------------------
(* Uploads through a shell: the steps on files                             *)

\* A step that writes to one object, or renames.
LEMMA FileStep ==
    ASSUME RemoteGood, NEW u \in Proc, Moves(u), source' = source, faults' \in 0 .. MaxFaults,
           ScriptFrame(u), AtFrame(u), agent' \subseteq agent, NEW x, Writes(x),
           pub' \in [Proc -> Seq(Block)], \A w \in Proc : w # u => pub'[w] = pub[w],
           posix' = posix, litter' \subseteq Proc, litter \subseteq litter',
           Own', ScriptOK(u)', AgentOK(u)', TmpOK(u)',
           ~Overlap => /\ ContentOK(u)' /\ PreviousFile'
                       /\ x # 0 => \A w \in Proc : w # u => x # at.tmp[w]
                       /\ \/ Kind(u, {"resume"}) /\ ~Idle(u)
                          \/ /\ ~Kind(u, {"resume"}) /\ SamePartial
                             /\ x # 0 => \A v \in Version : x # at.partial[v]
    PROVE  RemoteGood'
<1>1. ScriptType /\ FileType
    BY RemoteFacts
<1>2. RemoteFrame(u)
    BY <1>1 DEF RemoteFrame, ScriptType, Writes
<1>3. ASSUME ~Overlap PROVE ContentStep(u)
    <2>1. ASSUME NEW w \in Proc, w # u, at.tmp[w] # 0 PROVE data'[at.tmp[w]] = data[at.tmp[w]]
        <3>1. at.tmp[w] \in Inode /\ at'.tmp[w] = at.tmp[w] /\ at.tmp[w] # x
            BY <1>1, <1>3, <2>1, AtFields DEF AtFrame
        <3>2. Named(at.tmp[w])'
            BY <3>1 DEF Named
        <3> QED BY <3>1, <3>2 DEF Writes
    <2>2. ASSUME SamePartial, x # 0 => \A v \in Version : x # at.partial[v], NEW v \in Version, at.partial[v] # 0
          PROVE  data'[at.partial[v]] = data[at.partial[v]]
        <3>1. at.partial[v] \in Inode /\ at'.partial[v] = at.partial[v] /\ at.partial[v] # x
            BY <1>1, <2>2, AtFields DEF SamePartial
        <3>2. Named(at.partial[v])'
            BY <3>1 DEF Named
        <3> QED BY <3>1, <3>2 DEF Writes
    <2> QED BY <1>3, <2>1, <2>2 DEF ContentStep, SamePartial
<1> QED BY <1>2, <1>3, RemoteOthers

\* A step of a script: the local side and what was published stay.
LEMMA ScriptFileStep ==
    ASSUME RemoteGood, NEW u \in Proc, UNCHANGED <<source, proc, pub, agent, posix, litter>>, faults' \in 0 .. MaxFaults,
           script[u].at \notin {"idle", "exit"}, ScriptFrame(u), AtFrame(u), NEW x, Writes(x), Own',
           ScriptOK(u)', TmpOK(u)', at'.dest = at.dest, at'.old[u] = at.old[u], SamePartial,
           ~Overlap => /\ ContentOK(u)'
                       /\ x # 0 => /\ x # at.dest /\ \A w \in Proc : x # at.old[w] /\ (w # u => x # at.tmp[w])
                                   /\ ~Kind(u, {"resume"}) => \A v \in Version : x # at.partial[v]
    PROVE  RemoteGood'
<1>1. CoreType /\ ProcInv /\ FileType /\ AgentOK(u) /\ (~Overlap => PreviousFile)
    BY RemoteFacts
<1>2. Moves(u)
    BY <1>1, StillMoves
<1>3. AgentOK(u)'
    BY <1>1 DEF AgentOK, Kind, At
<1>4. ~Idle(u)
    BY ScriptIsShell DEF Idle, At
<1>5. ~Overlap => PreviousFile'
    BY <1>1, PreviousKept
<1>6. pub' \in [Proc -> Seq(Block)] /\ (\A w \in Proc : w # u => pub'[w] = pub[w]) /\ litter' \subseteq Proc
      /\ litter \subseteq litter' /\ agent' \subseteq agent
    BY <1>1 DEF FileType
<1> QED BY <1>2, <1>3, <1>4, <1>5, <1>6, FileStep

\* A script ends without a receipt; its temporary file is gone, or stays when
\* the script was killed.
LEMMA ScriptOver ==
    ASSUME RemoteGood, NEW u \in Proc, UNCHANGED <<source, proc, pub, agent, posix, litter>>, faults' \in 0 .. MaxFaults,
           script[u].at \notin {"idle", "exit"}, NEW s \in Statuses, s # "receipt",
           ScriptFrame(u), ScriptIs(u, "exit", 0, s), AtFrame(u), NEW t, NamesAre(u, at.dest, t, at.old[u]),
           SamePartial, Writes(0), t = 0 \/ (t = at.tmp[u] /\ s = "killed")
    PROVE  RemoteGood'
<1>1. FileType /\ Own /\ ScriptOK(u) /\ TmpOK(u) /\ (~Overlap => ContentOK(u))
    BY RemoteFacts
<1>2. Kind(u, ShellKinds) /\ ~Kind(u, SftpKinds) /\ proc[u].pc \in {"stream", "wait", "reread", "done"}
    BY ScriptIsShell
<1>3. Own'
    BY <1>1, OwnShrinks DEF NamesAre, SamePartial
<1>4. ScriptOK(u)'
    BY <1>1, <1>2 DEF ScriptOK, ScriptIs, Kind
<1>5. TmpOK(u)'
    BY <1>1, <1>2 DEF TmpOK, ScriptIs, NamesAre, Kind, At
<1>6. ASSUME ~Overlap PROVE ContentOK(u)'
    BY <1>1, <1>2, <1>6 DEF ContentOK, ScriptIs, Kind, At, Whole
<1>7. at'.dest = at.dest /\ at'.old[u] = at.old[u]
    BY DEF NamesAre
<1> QED BY <1>3, <1>4, <1>5, <1>6, <1>7, ScriptFileStep

LEMMA ScriptExitKeeps ==
    ASSUME RemoteGood, NEW u \in Proc, UNCHANGED <<source, proc, pub, agent, posix, litter>>, faults' \in 0 .. MaxFaults,
           script[u].at \notin {"idle", "exit"}, NEW s \in Statuses, s # "receipt", ScriptExit(u, s)
    PROVE  RemoteGood'
<1>1. FileType /\ ScriptType
    BY RemoteFacts
<1> DEFINE names == [at EXCEPT !.tmp[u] = 0]
           scripts == [script EXCEPT ![u].at = "exit", ![u].fd = 0, ![u].status = s]
<1>2. Store(names, scripts, data)
    BY DEF ScriptExit
<1>3. at' = names /\ script' = scripts /\ Writes(0)
    <2> HIDE DEF names, scripts
    <2> QED BY <1>1, <1>2, StoreSame
<1>4. AtFrame(u) /\ NamesAre(u, at.dest, 0, at.old[u]) /\ SamePartial
    BY <1>1, <1>3, TmpSet
<1>5. ScriptFrame(u) /\ ScriptIs(u, "exit", 0, s)
    BY <1>1, <1>3, ScriptEnds
<1> QED BY <1>3, <1>4, <1>5, ScriptOver

LEMMA ScriptKilledKeeps ==
    ASSUME RemoteGood, NEW u \in Proc, ScriptKilled(u), UNCHANGED sftpVars
    PROVE  RemoteGood'
<1>1. /\ FileType /\ ScriptType /\ CoreType /\ UNCHANGED <<source, proc, pub, agent, posix, litter>>
      /\ script[u].at \notin {"idle", "exit"} /\ "killed" \in Statuses /\ "killed" # "receipt"
    BY RemoteFacts DEF ScriptKilled, sftpVars, Statuses
<1> DEFINE scripts == [script EXCEPT ![u].at = "exit", ![u].fd = 0, ![u].status = "killed"]
<1>2. Store(at, scripts, data)
    BY DEF ScriptKilled
<1>3. at' = at /\ script' = scripts /\ Writes(0)
    <2> HIDE DEF scripts
    <2> QED BY <1>1, <1>2, StoreSame
<1>4. AtFrame(u) /\ NamesAre(u, at.dest, at.tmp[u], at.old[u]) /\ SamePartial
    BY <1>1, <1>3, AtKept
<1>5. ScriptFrame(u) /\ ScriptIs(u, "exit", 0, "killed")
    BY <1>1, <1>3, ScriptEnds
<1>6. faults' \in 0 .. MaxFaults
    BY <1>1, FaultType DEF ScriptKilled
<1> QED BY <1>1, <1>3, <1>4, <1>5, <1>6, ScriptOver

LEMMA ScriptOpenKeeps ==
    ASSUME RemoteGood, NEW u \in Proc, ScriptOpen(u), UNCHANGED sftpVars
    PROVE  RemoteGood'
<1>1. /\ FileType /\ ScriptType /\ CoreType /\ Own /\ UNCHANGED <<source, proc, pub, agent, posix, litter>>
      /\ script[u].at = "open" /\ ScriptOK(u) /\ TmpOK(u) /\ (~Overlap => ContentOK(u))
    BY RemoteFacts DEF ScriptOpen, sftpVars
<1>2. Kind(u, ShellKinds) /\ ~Kind(u, SftpKinds) /\ proc[u].pc \in {"stream", "wait", "reread", "done"}
    BY <1>1, ScriptIsShell
<1>3. CASE /\ UNCHANGED faults
           /\ Store([at EXCEPT !.tmp[u] = NewInode], [script EXCEPT ![u].at = "cat", ![u].fd = NewInode], data)
    <2>1. at.tmp[u] = 0 /\ script[u].fd = 0 /\ script[u].status = "none" /\ ~Kind(u, {"resume"})
        BY <1>1, <1>2 DEF ScriptOK, TmpOK, Kind
    <2>2. NewInode \in Inode /\ NewInode \notin Held(at, script)
        BY <1>1, <2>1, NewIsFree
    <2> DEFINE y == NewInode
    <2> HIDE DEF y
    <2>3. y \in Inode /\ ~Named(y) /\ y # 0
        BY <1>1, <2>2, FreeHasNoName, AtFields DEF y
    <2> DEFINE names == [at EXCEPT !.tmp[u] = y]
               scripts == [script EXCEPT ![u].at = "cat", ![u].fd = y]
    <2>4. Store(names, scripts, data)
        BY <1>3 DEF y
    <2>5. at' = names /\ script' = scripts /\ Writes(0)
        <3> HIDE DEF names, scripts
        <3> QED BY <1>1, <2>4, StoreSame
    <2>6. AtFrame(u) /\ NamesAre(u, at.dest, y, at.old[u]) /\ SamePartial
        BY <1>1, <2>3, <2>5, TmpSet
    <2>7. ScriptFrame(u) /\ ScriptIs(u, "cat", y, "none")
        <3>1. "cat" \in ScriptPcs
            BY DEF ScriptPcs
        <3> QED BY <1>1, <2>1, <2>3, <2>5, <3>1, ScriptOpens
    <2>8. Own'
        BY <1>1, <2>3, <2>6, OwnGrows DEF NamesAre
    <2>9. ScriptOK(u)'
        BY <1>1, <1>2, <2>3, <2>7 DEF ScriptOK, ScriptIs, Kind
    <2>10. TmpOK(u)'
        BY <1>1, <1>2, <2>1, <2>3, <2>6, <2>7 DEF TmpOK, ScriptIs, NamesAre, Kind, At
    <2>11. ASSUME ~Overlap PROVE ContentOK(u)'
        BY <1>1, <1>2, <2>1, <2>6, <2>7, <2>11 DEF ContentOK, ScriptIs, NamesAre, Kind, At, Whole, Written
    <2>12. at'.dest = at.dest /\ at'.old[u] = at.old[u] /\ faults' \in 0 .. MaxFaults /\ script[u].at \notin {"idle", "exit"}
        BY <1>1, <1>3, <2>6 DEF NamesAre, CoreType
    <2> QED BY <1>1, <2>5, <2>6, <2>7, <2>8, <2>9, <2>10, <2>11, <2>12, ScriptFileStep
<1>4. CASE Fault /\ ScriptExit(u, IF Digested(u) THEN "tool" ELSE "failed")
    <2> DEFINE s == IF Digested(u) THEN "tool" ELSE "failed"
    <2>1. s \in Statuses /\ s # "receipt" /\ ScriptExit(u, s)
        BY <1>4 DEF Statuses
    <2>2. faults' \in 0 .. MaxFaults /\ script[u].at \notin {"idle", "exit"}
        BY <1>1, <1>4, FaultType
    <2> HIDE DEF s
    <2> QED BY <1>1, <2>1, <2>2, ScriptExitKeeps
<1> QED BY <1>3, <1>4 DEF ScriptOpen

LEMMA WrittenIsNamed ==
    ASSUME FileType, CoreType, NEW u \in Proc, Written(u) # 0
    PROVE  Written(u) \in Inode /\ Named(Written(u))
BY AtFields, ProcFields DEF Written, MyPartial, Named

\* A script goes on to its next command, and nothing is written or renamed.
LEMMA ScriptAdvances ==
    ASSUME RemoteGood, NEW u \in Proc, UNCHANGED <<source, faults, proc, pub, agent, posix, litter>>,
           NEW scripts, Store(at, scripts, data), script[u].at \in {"verify", "cat", "check"},
           NEW m, NEW f, scripts = script' => ScriptFrame(u) /\ ScriptIs(u, m, f, "none"),
           \/ m = "cat" /\ f # 0 /\ f = Written(u)
           \/ m = "check" /\ f = 0
           \/ m = "publish" /\ f = 0 /\ Complete(u),
           Kind(u, {"resume"}) \/ at.tmp[u] # 0
    PROVE  RemoteGood'
<1>1. FileType /\ CoreType /\ Own /\ ScriptOK(u) /\ TmpOK(u) /\ (~Overlap => ContentOK(u))
    BY RemoteFacts
<1>2. Kind(u, ShellKinds) /\ ~Kind(u, SftpKinds) /\ proc[u].pc \in {"stream", "wait", "reread", "done"}
    BY ScriptIsShell
<1>3. at' = at /\ script' = scripts /\ Writes(0)
    BY <1>1, StoreSame
<1>4. AtFrame(u) /\ NamesAre(u, at.dest, at.tmp[u], at.old[u]) /\ SamePartial
    BY <1>1, <1>3, AtKept
<1>5. ScriptFrame(u) /\ script'[u].at = m /\ script'[u].fd = f /\ script'[u].status = "none"
    BY <1>3 DEF ScriptIs
<1>6. Own'
    BY <1>1, <1>3 DEF Own
<1>7. ScriptOK(u)'
    BY <1>1, <1>2, <1>5 DEF ScriptOK, Kind
<1>8. TmpOK(u)'
    BY <1>1, <1>2, <1>3, <1>5 DEF TmpOK, Kind, At
<1>9. Written(u)' = Written(u)
    BY <1>3 DEF Written, MyPartial, Kind
<1>10. ASSUME Complete(u) PROVE Complete(u)'
    <2>1. Written(u) \in Inode /\ Named(Written(u))
        BY <1>1, <1>10, WrittenIsNamed DEF Complete
    <2>2. Named(Written(u))'
        BY <1>3, <1>9, <2>1 DEF Named
    <2>3. data'[Written(u)] = data[Written(u)]
        BY <1>1, <1>3, <1>9, <2>1, <2>2, AtFields DEF Writes
    <2> QED BY <1>9, <1>10, <2>3 DEF Complete, Kind
<1>11. ASSUME ~Overlap PROVE ContentOK(u)'
    <2>1. ContentOK(u) /\ pub'[u] = pub[u]
        BY <1>1, <1>11
    <2>2. pub[u] = <<>>
        BY <1>2, <2>1 DEF ContentOK
    <2>3. script'[u].at \in {"cat", "check", "publish"}
        BY <1>5
    <2> QED BY <1>2, <1>5, <1>9, <1>10, <2>1, <2>2, <2>3 DEF ContentOK, Kind, At, Whole
<1>12. faults' \in 0 .. MaxFaults /\ at'.dest = at.dest /\ at'.old[u] = at.old[u]
    BY <1>1, <1>4 DEF CoreType, NamesAre
<1> QED BY <1>3, <1>4, <1>5, <1>6, <1>7, <1>8, <1>11, <1>12, ScriptFileStep

LEMMA ScriptVerifyKeeps ==
    ASSUME RemoteGood, NEW u \in Proc, ScriptVerify(u), UNCHANGED sftpVars
    PROVE  RemoteGood'
<1>1. /\ FileType /\ CoreType /\ ScriptType /\ ScriptOK(u) /\ UNCHANGED <<source, faults, proc, pub, agent, posix, litter>>
      /\ script[u].at = "verify"
    BY RemoteFacts DEF ScriptVerify, sftpVars
<1>2. Kind(u, {"resume"}) /\ script[u].status = "none" /\ faults' \in 0 .. MaxFaults /\ script[u].at \notin {"idle", "exit"}
    BY <1>1 DEF ScriptOK, CoreType
<1> DEFINE i == MyPartial(u)
<1>3. CASE i # 0 /\ Store(at, [script EXCEPT ![u].at = "cat", ![u].fd = i], data)
    <2>1. i = Written(u) /\ i \in Inode
        BY <1>1, <1>2, <1>3, WrittenIsNamed DEF Written
    <2> HIDE DEF i
    <2> DEFINE scripts == [script EXCEPT ![u].at = "cat", ![u].fd = i]
    <2>2. scripts = script' => ScriptFrame(u) /\ ScriptIs(u, "cat", i, "none")
        <3>1. "cat" \in ScriptPcs
            BY DEF ScriptPcs
        <3> QED BY <1>1, <1>2, <2>1, <3>1, ScriptOpens
    <2>3. Store(at, scripts, data)
        BY <1>3
    <2> HIDE DEF scripts
    <2> QED BY <1>1, <1>2, <1>3, <2>1, <2>2, <2>3, ScriptAdvances
<1>4. CASE ScriptExit(u, "state_changed")
    <2>1. "state_changed" \in Statuses /\ "state_changed" # "receipt"
        BY DEF Statuses
    <2> QED BY <1>1, <1>2, <1>4, <2>1, ScriptExitKeeps
<1> QED BY <1>3, <1>4 DEF ScriptVerify

LEMMA ScriptEOFKeeps ==
    ASSUME RemoteGood, NEW u \in Proc, ScriptEOF(u), UNCHANGED sftpVars
    PROVE  RemoteGood'
<1>1. /\ FileType /\ CoreType /\ ScriptType /\ ScriptOK(u) /\ TmpOK(u)
      /\ UNCHANGED <<source, faults, proc, pub, agent, posix, litter>> /\ script[u].at = "cat"
    BY RemoteFacts DEF ScriptEOF, sftpVars
<1>2. /\ Kind(u, {"resume"}) \/ at.tmp[u] # 0
      /\ script[u].status = "none" /\ faults' \in 0 .. MaxFaults /\ script[u].at \notin {"idle", "exit"}
    BY <1>1 DEF ScriptOK, TmpOK, CoreType
<1>3. CASE Store(at, [script EXCEPT ![u].at = "check", ![u].fd = 0], data)
    <2> DEFINE scripts == [script EXCEPT ![u].at = "check", ![u].fd = 0]
    <2>1. scripts = script' => ScriptFrame(u) /\ ScriptIs(u, "check", 0, "none")
        <3>1. "check" \in ScriptPcs /\ 0 \in Inode \cup {0}
            BY DEF ScriptPcs
        <3> QED BY <1>1, <1>2, <3>1, ScriptOpens
    <2>2. Store(at, scripts, data)
        BY <1>3
    <2> HIDE DEF scripts
    <2> QED BY <1>1, <1>2, <2>1, <2>2, ScriptAdvances
<1>4. CASE ScriptExit(u, "failed")
    <2>1. "failed" \in Statuses /\ "failed" # "receipt"
        BY DEF Statuses
    <2> QED BY <1>1, <1>2, <1>4, <2>1, ScriptExitKeeps
<1> QED BY <1>3, <1>4 DEF ScriptEOF

LEMMA ScriptCheckKeeps ==
    ASSUME RemoteGood, NEW u \in Proc, ScriptCheck(u), UNCHANGED sftpVars
    PROVE  RemoteGood'
<1>1. /\ FileType /\ CoreType /\ ScriptType /\ ScriptOK(u) /\ TmpOK(u)
      /\ UNCHANGED <<source, faults, proc, pub, agent, posix, litter>> /\ script[u].at = "check"
    BY RemoteFacts DEF ScriptCheck, sftpVars
<1>2. /\ Kind(u, {"resume"}) \/ at.tmp[u] # 0
      /\ script[u].status = "none" /\ faults' \in 0 .. MaxFaults /\ script[u].at \notin {"idle", "exit"}
      /\ script[u].fd = 0
    BY <1>1 DEF ScriptOK, TmpOK, CoreType
<1>3. CASE Complete(u) /\ Store(at, [script EXCEPT ![u].at = "publish"], data)
    <2> DEFINE scripts == [script EXCEPT ![u].at = "publish"]
    <2>1. scripts = script' => ScriptFrame(u) /\ ScriptIs(u, "publish", 0, "none")
        <3>1. "publish" \in ScriptPcs
            BY DEF ScriptPcs
        <3> QED BY <1>1, <1>2, <3>1, ScriptGoes
    <2>2. Store(at, scripts, data)
        BY <1>3
    <2> HIDE DEF scripts
    <2> QED BY <1>1, <1>2, <1>3, <2>1, <2>2, ScriptAdvances
<1>4. CASE ScriptExit(u, IF Written(u) = 0 THEN "failed" ELSE "mismatch")
    <2> DEFINE s == IF Written(u) = 0 THEN "failed" ELSE "mismatch"
    <2>1. s \in Statuses /\ s # "receipt" /\ ScriptExit(u, s)
        BY <1>4 DEF Statuses
    <2> HIDE DEF s
    <2> QED BY <1>1, <1>2, <2>1, ScriptExitKeeps
<1> QED BY <1>3, <1>4 DEF ScriptCheck

\* A temporary or partial file is nobody else's.
LEMMA WrittenIsOwn ==
    ASSUME RemoteGood, NEW u \in Proc, Written(u) # 0
    PROVE  /\ Written(u) # at.dest /\ \A w \in Proc : Written(u) # at.old[w] /\ (w # u => Written(u) # at.tmp[w])
           /\ ~Kind(u, {"resume"}) => \A v \in Version : Written(u) # at.partial[v]
<1>1. Own /\ CoreType /\ proc[u].hash \in Version
    BY RemoteFacts, ProcFields
<1>2. CASE Kind(u, {"resume"})
    <2>1. Written(u) = at.partial[proc[u].hash]
        BY <1>2 DEF Written, MyPartial
    <2> QED BY <1>1, <1>2, <2>1 DEF Own
<1>3. CASE ~Kind(u, {"resume"})
    <2>1. Written(u) = at.tmp[u]
        BY <1>3 DEF Written
    <2> QED BY <1>1, <1>3, <2>1 DEF Own
<1> QED BY <1>2, <1>3

LEMMA ScriptCatKeeps ==
    ASSUME RemoteGood, NEW u \in Proc, ScriptCat(u), UNCHANGED sftpVars
    PROVE  RemoteGood'
<1>1. /\ FileType /\ CoreType /\ ScriptType /\ Own /\ ScriptOK(u) /\ TmpOK(u) /\ (~Overlap => ContentOK(u))
      /\ UNCHANGED <<source, faults, proc, pub, agent, posix, litter>> /\ script[u].at = "cat" /\ script[u].input # <<>>
    BY RemoteFacts DEF ScriptCat, sftpVars
<1>2. Kind(u, ShellKinds) /\ ~Kind(u, SftpKinds) /\ proc[u].pc \in {"stream", "wait", "reread", "done"}
    BY <1>1, ScriptIsShell
<1> DEFINE x == script[u].fd
           t == Tail(script[u].input)
           s == Append(data[x], Head(script[u].input))
<1>3. x \in Inode /\ x # 0
    BY <1>1, ScriptFields, AtFields DEF ScriptOK
<1>4. t \in Seq(Block) /\ s \in Seq(Block)
    <2>1. script[u].input \in Seq(Block) /\ data[x] \in Seq(Block)
        BY <1>1, <1>3, ScriptFields DEF FileType
    <2> QED BY <1>1, <2>1
<1>5. Store(at, [script EXCEPT ![u].input = t], [data EXCEPT ![x] = s])
    BY <1>1, <1>3 DEF ScriptCat, ScriptType, FileType
<1> HIDE DEF x, t, s
<1> DEFINE scripts == [script EXCEPT ![u].input = t]
<1>6. at' = at /\ script' = scripts /\ Writes(x)
    <2> HIDE DEF scripts
    <2>1. Store(at, scripts, [data EXCEPT ![x] = s])
        BY <1>5 DEF scripts
    <2> QED BY <1>1, <1>3, <1>4, <2>1, StoreWrites
<1>7. AtFrame(u) /\ NamesAre(u, at.dest, at.tmp[u], at.old[u]) /\ SamePartial
    BY <1>1, <1>6, AtKept
<1>8. ScriptFrame(u) /\ ScriptIs(u, script[u].at, script[u].fd, script[u].status)
    BY <1>1, <1>4, <1>6, ScriptFed
<1>9. Own'
    BY <1>1, <1>6 DEF Own
<1>10. ScriptOK(u)'
    BY <1>1, <1>8 DEF ScriptOK, ScriptIs, Kind
<1>11. TmpOK(u)'
    BY <1>1, <1>6, <1>8 DEF TmpOK, ScriptIs, Kind, At, Up
<1>12. ASSUME ~Overlap
       PROVE  /\ ContentOK(u)'
              /\ x # 0 => /\ x # at.dest /\ \A w \in Proc : x # at.old[w] /\ (w # u => x # at.tmp[w])
                          /\ ~Kind(u, {"resume"}) => \A v \in Version : x # at.partial[v]
    <2>1. x = Written(u)
        BY <1>1, <1>3, <1>12 DEF ContentOK, x
    <2>2. Written(u)' = Written(u)
        BY <1>1, <1>6 DEF Written, MyPartial, Kind
    <2>3. /\ script'[u].at = "cat" /\ script'[u].fd = script[u].fd /\ script'[u].status = script[u].status
          /\ proc' = proc /\ pub' = pub /\ ContentOK(u)
        BY <1>1, <1>8, <1>12 DEF ScriptIs
    <2>4. ContentOK(u)'
        BY <1>1, <1>2, <2>2, <2>3 DEF ContentOK, Kind, At, Whole
    <2> QED BY <1>3, <2>1, <2>4, WrittenIsOwn
<1>13. faults' \in 0 .. MaxFaults /\ at'.dest = at.dest /\ at'.old[u] = at.old[u] /\ script[u].at \notin {"idle", "exit"}
    BY <1>1, <1>7 DEF CoreType, NamesAre
<1> QED BY <1>1, <1>7, <1>8, <1>6, <1>9, <1>10, <1>11, <1>12, <1>13, ScriptFileStep

\* What a script is about to rename is what success will be reported for.
LEMMA CompleteIsWhole ==
    ASSUME CoreType, NEW u \in Proc, Kind(u, ShellKinds), Complete(u)
    PROVE  Whole(u, data[Written(u)]) /\ data[Written(u)] # <<>>
<1>1. proc[u].hash \in Version /\ Blocks \in Nat \ {0}
    BY ProcFields, TransferAssumption
<1>2. Len(Content(proc[u].hash)) = Blocks
    BY <1>1, ContentIsWhole
<1>3. Len(data[Written(u)]) = Blocks
    BY <1>2 DEF Complete
<1>4. data[Written(u)] # <<>>
    BY <1>1, <1>3
<1> QED BY <1>3, <1>4 DEF Complete, Whole, Kind, ShellKinds

LEMMA ScriptPublishKeeps ==
    ASSUME RemoteGood, NEW u \in Proc, ScriptPublish(u), UNCHANGED sftpVars
    PROVE  RemoteGood'
<1>1. /\ FileType /\ CoreType /\ ProcInv /\ ScriptType /\ Own /\ ScriptOK(u) /\ AgentOK(u) /\ TmpOK(u)
      /\ (~Overlap => ContentOK(u)) /\ UNCHANGED <<source, proc, agent, posix, litter>> /\ script[u].at = "publish"
    BY RemoteFacts DEF ScriptPublish, sftpVars
<1>2. Kind(u, ShellKinds) /\ ~Kind(u, SftpKinds) /\ proc[u].pc \in {"stream", "wait", "reread", "done"}
    BY <1>1, ScriptIsShell
<1>3. script[u].fd = 0 /\ script[u].status = "none" /\ script[u].at \notin {"idle", "exit"} /\ ~Idle(u)
    BY <1>1 DEF ScriptOK, Idle, At
<1>4. Moves(u) /\ proc[u].hash \in Version
    BY <1>1, StillMoves, ProcFields
<1>5. AgentOK(u)' /\ agent' \subseteq agent /\ litter' \subseteq Proc /\ litter \subseteq litter'
    BY <1>1 DEF AgentOK, Kind, At, FileType
<1> DEFINE y == Written(u)
           p == data[y]
<1>6. ASSUME y # 0, pub' = [pub EXCEPT ![u] = p], UNCHANGED faults, NEW names, NEW scripts,
             Store(names, scripts, data), NEW m, NEW s, NEW t,
             script' = scripts => ScriptFrame(u) /\ ScriptIs(u, m, 0, s),
             at' = names => AtFrame(u) /\ NamesAre(u, y, t, at.old[u]) /\ Own',
             \/ m = "clean" /\ s = "none" /\ Kind(u, {"resume"}) /\ t = at.tmp[u]
             \/ /\ m = "exit" /\ s = "receipt" /\ ~Kind(u, {"resume"}) /\ t = 0
                /\ at' = names => SamePartial
      PROVE  RemoteGood'
    <2>1. y \in Inode /\ p \in Seq(Block)
        BY <1>1, <1>6, WrittenIsNamed DEF FileType
    <2> HIDE DEF p
    <2>2. at' = names /\ script' = scripts /\ Writes(0)
        BY <1>1, <1>6, StoreSame
    <2>3. pub' \in [Proc -> Seq(Block)] /\ pub'[u] = p /\ \A w \in Proc : w # u => pub'[w] = pub[w]
        BY <1>1, <1>6, <2>1 DEF FileType
    <2>4. /\ script'[u].at = m /\ script'[u].fd = 0 /\ script'[u].status = s /\ at'.tmp[u] = t /\ at'.old[u] = at.old[u]
          /\ ScriptFrame(u) /\ AtFrame(u) /\ Own'
        BY <1>6, <2>2 DEF ScriptIs, NamesAre
    <2>5. ScriptOK(u)'
        BY <1>1, <1>2, <1>6, <2>4 DEF ScriptOK, Kind
    <2>6. TmpOK(u)'
        BY <1>1, <1>2, <1>6, <2>4 DEF TmpOK, Kind, At
    <2>7. ASSUME ~Overlap PROVE ContentOK(u)' /\ PreviousFile'
        <3>1. Complete(u)
            BY <1>1, <2>7 DEF ContentOK
        <3>2. Whole(u, p) /\ p # <<>>
            BY <1>1, <1>2, <3>1, CompleteIsWhole DEF p
        <3>3. Whole(u, pub[u])'
            BY <1>1, <2>3, <3>2 DEF Whole, Kind
        <3>4. ContentOK(u)'
            BY <1>1, <1>2, <1>6, <2>4, <3>3 DEF ContentOK, Kind, At
        <3> QED BY <2>3, <3>2, <3>4 DEF PreviousFile
    <2>8. faults' \in 0 .. MaxFaults
        BY <1>1, <1>6 DEF CoreType
    <2>9. (Kind(u, {"resume"}) /\ ~Idle(u)) \/ (~Kind(u, {"resume"}) /\ SamePartial)
        BY <1>3, <1>6, <2>2
    <2> QED BY <1>1, <1>4, <1>5, <2>2, <2>3, <2>4, <2>5, <2>6, <2>7, <2>8, <2>9, FileStep
<1>7. CASE /\ y # 0 /\ pub' = [pub EXCEPT ![u] = p] /\ UNCHANGED faults /\ Kind(u, {"resume"})
           /\ Store([at EXCEPT !.dest = y, !.partial[proc[u].hash] = 0], [script EXCEPT ![u].at = "clean"], data)
    <2> DEFINE v == proc[u].hash
               names == [at EXCEPT !.dest = y, !.partial[v] = 0]
               scripts == [script EXCEPT ![u].at = "clean"]
    <2>1. y \in Inode /\ y = at.partial[v] /\ v \in Version
        BY <1>1, <1>4, <1>7, WrittenIsNamed DEF Written, MyPartial
    <2>2. Store(names, scripts, data)
        BY <1>7
    <2>3. script' = scripts => ScriptFrame(u) /\ ScriptIs(u, "clean", 0, "none")
        <3>1. "clean" \in ScriptPcs
            BY DEF ScriptPcs
        <3> QED BY <1>1, <1>3, <3>1, ScriptGoes
    <2> HIDE DEF v, y
    <2>4. ASSUME at' = names PROVE AtFrame(u) /\ NamesAre(u, y, at.tmp[u], at.old[u]) /\ Own'
        <3>1. /\ AtFrame(u) /\ NamesAre(u, y, at.tmp[u], at.old[u])
              /\ at'.partial[v] = 0 /\ \A z \in Version : z # v => at'.partial[z] = at.partial[z]
            BY <1>1, <2>1, <2>4, PartialMoved
        <3>2. Own'
            BY <1>1, <2>1, <3>1, OwnShrinks DEF NamesAre
        <3> QED BY <3>1, <3>2
    <2> HIDE DEF names, scripts
    <2> QED BY <1>6, <1>7, <2>2, <2>3, <2>4
<1>8. CASE /\ y # 0 /\ pub' = [pub EXCEPT ![u] = p] /\ UNCHANGED faults /\ ~Kind(u, {"resume"})
           /\ Store([at EXCEPT !.dest = y, !.tmp[u] = 0], [script EXCEPT ![u].at = "exit", ![u].status = "receipt"], data)
    <2> DEFINE names == [at EXCEPT !.dest = y, !.tmp[u] = 0]
               scripts == [script EXCEPT ![u].at = "exit", ![u].status = "receipt"]
    <2>1. y \in Inode /\ y = at.tmp[u]
        BY <1>1, <1>8, WrittenIsNamed DEF Written
    <2>2. Store(names, scripts, data)
        BY <1>8
    <2>3. script' = scripts => ScriptFrame(u) /\ ScriptIs(u, "exit", 0, "receipt")
        <3>1. "exit" \in ScriptPcs /\ "receipt" \in Statuses
            BY DEF ScriptPcs, Statuses
        <3> QED BY <1>1, <1>3, <3>1, ScriptReports
    <2> HIDE DEF y
    <2>4. ASSUME at' = names PROVE AtFrame(u) /\ NamesAre(u, y, 0, at.old[u]) /\ Own' /\ SamePartial
        <3>1. AtFrame(u) /\ NamesAre(u, y, 0, at.old[u]) /\ SamePartial
            BY <1>1, <2>1, <2>4, DestSet
        <3>2. Own'
            BY <1>1, <2>1, <3>1, OwnShrinks DEF NamesAre, SamePartial
        <3> QED BY <3>1, <3>2
    <2> HIDE DEF names, scripts
    <2> QED BY <1>6, <1>8, <2>2, <2>3, <2>4
<1>9. CASE /\ FailsIf(Written(u) = 0) /\ UNCHANGED pub
           /\ ScriptExit(u, IF Kind(u, {"resume"}) THEN "publish_failed" ELSE "failed")
    <2> DEFINE s == IF Kind(u, {"resume"}) THEN "publish_failed" ELSE "failed"
    <2>1. s \in Statuses /\ s # "receipt" /\ ScriptExit(u, s)
        BY <1>9 DEF Statuses
    <2>2. faults' \in 0 .. MaxFaults
        BY <1>1, <1>9, FaultType DEF FailsIf, CoreType
    <2> HIDE DEF s
    <2> QED BY <1>1, <1>3, <1>9, <2>1, <2>2, ScriptExitKeeps
<1> QED BY <1>7, <1>8, <1>9 DEF ScriptPublish

LEMMA ScriptCleanKeeps ==
    ASSUME RemoteGood, NEW u \in Proc, ScriptClean(u), UNCHANGED sftpVars
    PROVE  RemoteGood'
<1>1. /\ FileType /\ CoreType /\ ProcInv /\ ScriptType /\ Own /\ ScriptOK(u) /\ TmpOK(u) /\ (~Overlap => ContentOK(u))
      /\ UNCHANGED <<source, faults, proc, data, pub, agent, posix, litter>> /\ script[u].at = "clean"
    BY RemoteFacts DEF ScriptClean, sftpVars
<1>2. Kind(u, ShellKinds) /\ ~Kind(u, SftpKinds) /\ proc[u].pc \in {"stream", "wait", "reread", "done"}
    BY <1>1, ScriptIsShell
<1>3. Kind(u, {"resume"}) /\ script[u].fd = 0 /\ script[u].at \notin {"idle", "exit"} /\ proc[u].hash \in Version
    BY <1>1, ProcFields DEF ScriptOK
<1>4. AtFrame(u) /\ NamesAre(u, at.dest, at.tmp[u], at.old[u]) /\ SamePartial
    BY <1>1, <1>3, MetaSet DEF ScriptClean
<1>5. ScriptFrame(u) /\ ScriptIs(u, "exit", 0, "receipt")
    <2>1. "exit" \in ScriptPcs /\ "receipt" \in Statuses
        BY DEF ScriptPcs, Statuses
    <2> QED BY <1>1, <1>3, <2>1, ScriptReports DEF ScriptClean
<1>6. Own'
    BY <1>1, <1>4, OwnShrinks DEF NamesAre, SamePartial
<1>7. ScriptOK(u)'
    BY <1>1, <1>2, <1>5 DEF ScriptOK, ScriptIs, Kind
<1>8. TmpOK(u)'
    BY <1>1, <1>2, <1>3, <1>4, <1>5 DEF TmpOK, ScriptIs, NamesAre, Kind, At
<1>9. ASSUME ~Overlap PROVE ContentOK(u)'
    BY <1>1, <1>2, <1>5, <1>9 DEF ContentOK, ScriptIs, Kind, At, Whole
<1>10. Writes(0) /\ faults' \in 0 .. MaxFaults /\ at'.dest = at.dest /\ at'.old[u] = at.old[u]
    BY <1>1, <1>4 DEF Writes, FileType, CoreType, NamesAre
<1> QED BY <1>1, <1>3, <1>4, <1>5, <1>6, <1>7, <1>8, <1>9, <1>10, ScriptFileStep

\* A step of the probe of a resumable upload.
LEMMA ProbeStep ==
    ASSUME RemoteGood, NEW u \in Proc, proc[u].pc \in {"probe", "create", "meta"}, Moves(u),
           proc'[u].pc \in {"probe", "create", "meta", "session", "done"}, proc'[u].result # "ok",
           UNCHANGED <<source, faults, script, pub, agent, posix, litter>>, AtFrame(u),
           NamesAre(u, at.dest, at.tmp[u], at.old[u]), Own', NEW x, Writes(x),
           x # 0 => x # at.dest /\ \A w \in Proc : x # at.old[w] /\ (w # u => x # at.tmp[w])
    PROVE  RemoteGood'
<1>1. FileType /\ CoreType /\ ScriptType /\ (~Overlap => PreviousFile)
    BY RemoteFacts
<1>2. Kind(u, {"resume"}) /\ Kind(u, ShellKinds) /\ script[u].at = "idle" /\ u \notin agent /\ ~Idle(u)
    BY ProbeIsResume
<1>3. at'.dest = at.dest /\ at'.tmp[u] = at.tmp[u] /\ at'.old[u] = at.old[u] /\ pub'[u] = pub[u] /\ script'[u] = script[u]
    BY DEF NamesAre
<1>4. ScriptOK(u)' /\ TmpOK(u)' /\ (~Overlap => ContentOK(u)')
    BY <1>2, <1>3, IdleOK
<1>5. AgentOK(u)'
    BY <1>2 DEF AgentOK, Moves, Frame, Kind
<1>6. ScriptFrame(u)
    BY <1>1, ScriptKept
<1>7. ~Overlap => PreviousFile'
    BY <1>1, <1>3, PreviousKept
<1>8. /\ pub' \in [Proc -> Seq(Block)] /\ (\A w \in Proc : w # u => pub'[w] = pub[w]) /\ litter' \subseteq Proc
      /\ litter \subseteq litter' /\ agent' \subseteq agent /\ faults' \in 0 .. MaxFaults
    BY <1>1 DEF FileType, CoreType
<1> QED BY <1>2, <1>4, <1>5, <1>6, <1>7, <1>8, FileStep

LEMMA ProbeSweepKeeps ==
    ASSUME RemoteGood, NEW u \in Proc, ProbeSweep(u), UNCHANGED sftpVars
    PROVE  RemoteGood'
<1>1. /\ FileType /\ CoreType /\ ProcInv /\ Own /\ ProcOK(proc[u]) /\ proc[u].pc = "probe" /\ proc[u].hash \in Version
      /\ UNCHANGED <<source, faults, proc, pub, agent, posix, litter>>
    BY RemoteFacts, ProcFields DEF ProbeSweep, At, sftpVars
<1> DEFINE v == proc[u].hash
<1>2. PICK both \in BOOLEAN :
          Store([at EXCEPT !.meta[v] = FALSE, !.partial[v] = IF both THEN 0 ELSE @], script, data)
    BY DEF ProbeSweep
<1> DEFINE y == IF both THEN 0 ELSE at.partial[v]
           names == [at EXCEPT !.meta[v] = FALSE, !.partial[v] = y]
<1>3. Store(names, script, data)
    BY <1>1, <1>2 DEF FileType
<1>4. y \in {at.partial[v], 0} /\ y \in Inode \cup {0} /\ v \in Version
    BY <1>1, AtFields
<1>5. at' = names /\ script' = script /\ Writes(0)
    <2> HIDE DEF names
    <2> QED BY <1>1, <1>3, StoreSame
<1> HIDE DEF y, v
<1>6. /\ AtFrame(u) /\ NamesAre(u, at.dest, at.tmp[u], at.old[u])
      /\ at'.partial[v] = y /\ \A z \in Version : z # v => at'.partial[z] = at.partial[z]
    BY <1>1, <1>4, <1>5 DEF FileType, AtFrame, NamesAre
<1>7. Own'
    BY <1>1, <1>4, <1>6, OwnShrinks DEF NamesAre
<1>8. Moves(u) /\ proc'[u].pc = "probe" /\ proc'[u].result # "ok"
    BY <1>1, StillMoves DEF ProcOK
<1> QED BY <1>1, <1>5, <1>6, <1>7, <1>8, ProbeStep

LEMMA ProbeCreateKeeps ==
    ASSUME RemoteGood, NEW u \in Proc, ProbeCreate(u), UNCHANGED sftpVars
    PROVE  RemoteGood'
<1>1. /\ FileType /\ CoreType /\ ProcInv /\ ScriptType /\ Own /\ ProcOK(proc[u]) /\ proc[u].pc = "create"
      /\ proc[u].hash \in Version /\ UNCHANGED <<source, faults, pub, agent, posix, litter>> /\ Step(u, "meta")
    BY RemoteFacts, ProcFields DEF ProbeCreate, At, sftpVars
<1>2. Kind(u, {"resume"}) /\ Kind(u, ShellKinds) /\ script[u].fd = 0 /\ at.tmp[u] = 0
    BY <1>1, ProbeIsResume
<1> DEFINE v == proc[u].hash
           i == IF MyPartial(u) = 0 THEN NewInode ELSE MyPartial(u)
<1>3. i \in Inode /\ v \in Version /\ (~Named(i) \/ i = at.partial[v])
    <2>1. NewInode \in Inode /\ ~Named(NewInode)
        BY <1>1, <1>2, NewIsFree, FreeHasNoName
    <2>2. MyPartial(u) = at.partial[v] /\ MyPartial(u) \in Inode \cup {0}
        BY <1>1, AtFields DEF MyPartial
    <2> QED BY <1>1, <2>1, <2>2
<1>4. Store([at EXCEPT !.partial[v] = i], script, [data EXCEPT ![i] = <<>>])
    BY DEF ProbeCreate
<1> HIDE DEF v, i
<1> DEFINE names == [at EXCEPT !.partial[v] = i]
<1>5. at' = names /\ script' = script /\ Writes(i)
    <2> HIDE DEF names
    <2>1. Store(names, script, [data EXCEPT ![i] = <<>>]) /\ <<>> \in Seq(Block)
        BY <1>4 DEF names
    <2> QED BY <1>1, <1>3, <2>1, StoreWrites
<1>6. /\ AtFrame(u) /\ NamesAre(u, at.dest, at.tmp[u], at.old[u])
      /\ at'.partial[v] = i /\ \A y \in Version : y # v => at'.partial[y] = at.partial[y]
    BY <1>1, <1>3, <1>5, PartialSet
<1>7. Own' /\ i # at.dest /\ \A w \in Proc : i # at.old[w] /\ (w # u => i # at.tmp[w])
    <2>1. CASE ~Named(i)
        <3>1. Own'
            BY <1>1, <1>3, <1>6, <2>1, OwnGrows DEF NamesAre
        <3> QED BY <2>1, <3>1 DEF Named
    <2>2. CASE i = at.partial[v]
        <3>1. i # 0
            BY <1>1, <1>3, AtFields
        <3>2. Own'
            BY <1>1, <1>6, <2>2, OwnShrinks DEF NamesAre
        <3> QED BY <1>1, <1>3, <2>2, <3>1, <3>2 DEF Own
    <2> QED BY <1>3, <2>1, <2>2
<1>8. Moves(u) /\ proc'[u].pc = "meta" /\ proc'[u].result # "ok"
    <2>1. "meta" \in Pcs /\ Lands(u, "meta", proc[u].result) /\ proc[u].result = "none"
        <3>1. proc[u].sent = <<>> /\ proc[u].pc \notin {"cleanup", "done"}
            BY <1>1 DEF ProcOK
        <3> QED BY <1>1, <1>2, <3>1, ShellLands
    <2> QED BY <1>1, <2>1, StepMoves DEF Goes
<1> QED BY <1>1, <1>5, <1>6, <1>7, <1>8, ProbeStep

LEMMA ProbeMetaKeeps ==
    ASSUME RemoteGood, NEW u \in Proc, ProbeMeta(u), UNCHANGED sftpVars
    PROVE  RemoteGood'
<1>1. /\ FileType /\ CoreType /\ ProcInv /\ Own /\ ProcOK(proc[u]) /\ proc[u].pc = "meta"
      /\ proc[u].hash \in Version /\ UNCHANGED <<source, faults, data, script, pub, agent, posix, litter>>
      /\ at' = [at EXCEPT !.meta[proc[u].hash] = TRUE]
    BY RemoteFacts, ProcFields DEF ProbeMeta, At, sftpVars
<1>2. Kind(u, {"resume"}) /\ Kind(u, ShellKinds)
    BY <1>1, ProbeIsResume
<1>3. AtFrame(u) /\ NamesAre(u, at.dest, at.tmp[u], at.old[u]) /\ SamePartial
    BY <1>1, MetaSet
<1>4. Own'
    BY <1>1, <1>3, OwnShrinks DEF NamesAre, SamePartial
<1>5. Writes(0)
    BY <1>1 DEF Writes, FileType
<1>6. Finish(u, "failed") \/ Finish(u, "partial_mismatch") \/ Step(u, "session")
    BY DEF ProbeMeta
<1>7. Moves(u) /\ proc'[u].pc \in {"session", "done"} /\ proc'[u].result # "ok"
    <2>1. "failed" \in Results /\ "partial_mismatch" \in Results
        BY DEF Results
    <2>2. "session" \in Pcs /\ Lands(u, "session", proc[u].result) /\ proc[u].result = "none"
        BY <1>1, <1>2, ShellLands
    <2> QED BY <1>1, <1>6, <2>1, <2>2, FinishMoves, StepMoves DEF Goes
<1> QED BY <1>1, <1>3, <1>4, <1>5, <1>7, ProbeStep

LEMMA ShellNextKeeps ==
    ASSUME RemoteGood, NEW u \in Proc, ShellNext(u), UNCHANGED sftpVars
    PROVE  RemoteGood'
<1>1. CASE ShellDeadline(u)
    BY <1>1, RemoteDeadline DEF ShellDeadline, Kind
<1> QED BY <1>1, ShellOpenKeeps, ProbeSweepKeeps, ProbeInspectKeeps, ProbeCreateKeeps, ProbeMetaKeeps, StartScriptKeeps,
           StreamFailsKeeps, WaitScriptKeeps, DirectRereadKeeps, DirectDeadlineKeeps, DirectConnectKeeps, SendKeeps,
           CloseStdinKeeps, InputEndsKeeps, ScriptOpenKeeps, ScriptVerifyKeeps, ScriptCatKeeps, ScriptEOFKeeps,
           ScriptCheckKeeps, ScriptPublishKeeps, ScriptCleanKeeps, ScriptKilledKeeps
           DEF ShellNext, ShellLocal, ShellRemote

-----------------------------------------------------------------------------
(* Uploads over SFTP                                                       *)

\* What TmpOK and ContentOK say of an upload over SFTP.
SftpTmp(u) ==
    /\ proc[u].pc \in {"start", "mktemp", "dropOld"} => at.tmp[u] = 0
    /\ proc[u].pc \in {"write", "rename", "aside", "move", "putBack"} => at.tmp[u] # 0
    /\ At(u, "done") /\ at.tmp[u] # 0 => u \in litter \/ (~Up(u) /\ proc[u].sent = <<>>)
    /\ proc[u].pc \in {"start", "mktemp", "write", "rename", "aside"} => at.old[u] = 0

SftpContent(u) ==
    /\ proc[u].pc \in {"rename", "aside", "move", "putBack"} => Whole(u, data[at.tmp[u]])
    /\ At(u, "dropOld") => Whole(u, pub[u])
    /\ At(u, "done") /\ proc[u].result = "ok" => Whole(u, pub[u])
    /\ proc[u].pc \in {"start", "mktemp", "write", "rename", "aside", "move"} => pub[u] = <<>>

LEMMA SftpFacts ==
    ASSUME RemoteGood, NEW u \in Proc, Kind(u, SftpKinds)
    PROVE  /\ script[u].at = "idle" /\ script[u].fd = 0 /\ script[u].status = "none" /\ u \notin agent
           /\ ~Kind(u, ShellKinds) /\ ~Kind(u, {"resume"}) /\ ~Kind(u, {"direct"})
           /\ SftpTmp(u) /\ (~Overlap => SftpContent(u))
<1>1. ScriptOK(u) /\ AgentOK(u) /\ TmpOK(u) /\ (~Overlap => ContentOK(u))
    BY RemoteFacts
<1>2. ~Kind(u, ShellKinds) /\ ~Kind(u, {"resume"}) /\ ~Kind(u, {"direct"})
    BY DEF Kind, ShellKinds, SftpKinds
<1>3. script[u].at = "idle" /\ script[u].fd = 0 /\ script[u].status = "none" /\ u \notin agent
    BY <1>1, <1>2 DEF ScriptOK, AgentOK
<1>4. SftpTmp(u)
    BY <1>1 DEF TmpOK, SftpTmp, At
<1>5. Kind(u, ShellKinds \cup SftpKinds)
    BY DEF Kind
<1>6. ~Overlap => SftpContent(u)
    BY <1>1, <1>5 DEF ContentOK, SftpContent, At
<1> QED BY <1>2, <1>3, <1>4, <1>6

LEMMA SftpStepKeeps ==
    ASSUME RemoteGood, NEW u \in Proc, Kind(u, SftpKinds), Moves(u), UNCHANGED <<source, script, agent, posix>>,
           faults' \in 0 .. MaxFaults, AtFrame(u), SamePartial, NEW x, Writes(x),
           pub' \in [Proc -> Seq(Block)], \A w \in Proc : w # u => pub'[w] = pub[w],
           litter' \subseteq Proc, litter \subseteq litter', Own', SftpTmp(u)',
           ~Overlap => /\ SftpContent(u)' /\ PreviousFile'
                       /\ x # 0 => /\ \A w \in Proc : w # u => x # at.tmp[w]
                                   /\ \A v \in Version : x # at.partial[v]
    PROVE  RemoteGood'
<1>1. ScriptType /\ ScriptOK(u) /\ AgentOK(u)
    BY RemoteFacts
<1>2. /\ script[u].at = "idle" /\ script[u].fd = 0 /\ script[u].status = "none" /\ u \notin agent
      /\ ~Kind(u, ShellKinds) /\ ~Kind(u, {"resume"}) /\ ~Kind(u, {"direct"})
    BY SftpFacts
<1>3. ~Kind(u, ShellKinds)' /\ ~Kind(u, {"resume"})' /\ ~Kind(u, {"direct"})' /\ Kind(u, SftpKinds)'
      /\ Kind(u, ShellKinds \cup SftpKinds)'
    BY <1>2 DEF Moves, Frame, Kind
<1>4. ScriptFrame(u)
    BY <1>1, ScriptKept
<1>5. ScriptOK(u)' /\ AgentOK(u)'
    BY <1>2, <1>3 DEF ScriptOK, AgentOK
<1>6. TmpOK(u)'
    <2>1. Kind(u, SftpKinds \cup ShellKinds)'
        BY <1>3 DEF Kind
    <2> QED BY <1>2, <1>3, <2>1 DEF TmpOK, SftpTmp, At
<1>7. proc'[u].pc # "reread"
    BY <1>3 DEF Moves, ProcOK, Kind, SftpKinds
<1>8. ASSUME ~Overlap PROVE ContentOK(u)'
    <2>1. SftpContent(u)'
        BY <1>8
    <2> QED BY <1>2, <1>3, <1>7, <2>1 DEF ContentOK, SftpContent, At
<1>9. agent' \subseteq agent
    OBVIOUS
<1> QED BY <1>2, <1>4, <1>5, <1>6, <1>8, <1>9, FileStep

\* A step that leaves the remote names and contents alone.
LEMMA SftpControl ==
    ASSUME RemoteGood, NEW u \in Proc, Kind(u, SftpKinds), Moves(u), source' = source, faults' \in 0 .. MaxFaults,
           UNCHANGED <<data, at, script, pub, agent, posix>>, litter' \subseteq Proc, litter \subseteq litter',
           SftpTmp(u)', ~Overlap => SftpContent(u)'
    PROVE  RemoteGood'
<1>1. FileType
    BY RemoteFacts
<1>2. AtFrame(u) /\ SamePartial
    BY <1>1, AtKept
<1>3. Own' /\ pub' \in [Proc -> Seq(Block)] /\ (~Overlap => PreviousFile')
    BY Untouched
<1>4. Writes(0) /\ \A w \in Proc : w # u => pub'[w] = pub[w]
    BY <1>1 DEF Writes, FileType
<1> QED BY <1>2, <1>3, <1>4, SftpStepKeeps

LEMMA SftpLands ==
    ASSUME CoreType, ProcInv, NEW u \in Proc, proc[u].pc \notin {"cleanup", "done"}, Kind(u, SftpKinds),
           NEW l \in {"write", "rename", "aside", "move", "putBack", "dropOld"}
    PROVE  l \in Pcs /\ Lands(u, l, proc[u].result) /\ proc[u].result = "none"
<1>1. proc[u].result = "none"
    BY PcKind
<1> QED BY <1>1 DEF Lands, KindPc, Kind, SftpPc, Pcs, ShellKinds, SftpKinds, FileGets

LEMMA FailingMoves ==
    ASSUME CoreType, ProcInv, NEW u \in Proc, Kind(u, SftpKinds), NEW r \in Results, r # "ok", Failing(u, r)
    PROVE  Moves(u) /\ proc'[u].pc = "cleanup" /\ proc'[u].result # "ok" /\ SameLink(u) /\ SameRead(u)
<1>1. LateOr(u, r) \in Results /\ LateOr(u, r) # "ok"
    BY LateOrIsResult
<1>2. GiveUp(u, LateOr(u, r)) /\ Kind(u, SftpKinds \cup FileGets \cup {"getdir"})
    BY DEF Failing, Kind
<1> QED BY <1>1, <1>2, GiveUpMoves DEF Goes

LEMMA AnsweredMoves ==
    ASSUME CoreType, ProcInv, NEW u \in Proc, Kind(u, SftpKinds), proc[u].pc \notin {"cleanup", "done"},
           NEW l \in {"write", "rename", "aside", "move", "putBack", "dropOld"}, Answered(u, l)
    PROVE  Moves(u) /\ proc'[u].pc \in {l, "cleanup"} /\ proc'[u].result # "ok" /\ SameLink(u) /\ SameRead(u)
<1>1. l \in Pcs /\ Lands(u, l, proc[u].result) /\ proc[u].result = "none"
    BY SftpLands
<1>2. "failed" \in Results /\ "failed" # "ok"
    BY DEF Results
<1>3. CASE Step(u, l)
    <2>1. Moves(u) /\ Goes(u, l, proc[u].result) /\ SameLink(u) /\ SameRead(u)
        BY <1>1, <1>3, StepMoves
    <2> QED BY <1>1, <2>1 DEF Goes
<1>4. CASE Failing(u, "failed")
    BY <1>2, <1>4, FailingMoves
<1> QED BY <1>3, <1>4 DEF Answered

LEMMA SftpOpenKeeps ==
    ASSUME RemoteGood, NEW u \in Proc, SftpOpen(u), UNCHANGED sftpVars
    PROVE  RemoteGood'
<1>1. /\ FileType /\ CoreType /\ ProcInv /\ ProcOK(proc[u]) /\ proc[u].pc = "start" /\ Kind(u, SftpKinds)
      /\ UNCHANGED <<source, data, at, script, pub, agent, posix, litter>>
    BY RemoteFacts DEF SftpOpen, At, remoteVars, sftpVars
<1>2. SftpTmp(u) /\ (~Overlap => SftpContent(u))
    BY <1>1, SftpFacts
<1>3. at.tmp[u] = 0 /\ at.old[u] = 0 /\ (~Overlap => pub[u] = <<>>)
    BY <1>1, <1>2 DEF SftpTmp, SftpContent
<1>4. litter' \subseteq Proc /\ litter \subseteq litter'
    BY <1>1 DEF FileType
<1>5. ASSUME Moves(u), proc'[u].pc \in {"mktemp", "done"}, proc'[u].result # "ok", faults' \in 0 .. MaxFaults
      PROVE  RemoteGood'
    <2>1. SftpTmp(u)'
        BY <1>1, <1>3, <1>5 DEF SftpTmp, At
    <2>2. ~Overlap => SftpContent(u)'
        BY <1>1, <1>3, <1>5 DEF SftpContent, At
    <2> QED BY <1>1, <1>4, <1>5, <2>1, <2>2, SftpControl
<1>6. CASE Fault /\ Finish(u, "dial")
    <2>1. "dial" \in Results /\ "dial" # "ok"
        BY DEF Results
    <2> QED BY <1>1, <1>5, <1>6, <2>1, FinishMoves, FaultType DEF Goes
<1>7. CASE /\ proc' = [proc EXCEPT ![u].hash = IF Kind(u, {"sftpsha"}) THEN source ELSE 0, ![u].pc = "mktemp"]
           /\ UNCHANGED faults
    <2> DEFINE h == IF Kind(u, {"sftpsha"}) THEN source ELSE 0
    <2>1. h \in Version
        BY <1>1, TransferAssumption DEF CoreType, Version
    <2>2. proc' = [proc EXCEPT ![u].hash = h, ![u].pc = "mktemp"]
        BY <1>7
    <2> HIDE DEF h
    <2>3. "mktemp" \in Pcs
        BY DEF Pcs, SftpPc
    <2>4. Frame(u) /\ Goes(u, "mktemp", proc[u].result) /\ proc'[u].prefix = proc[u].prefix /\ proc'[u].sent = proc[u].sent
        BY <1>1, <2>1, <2>2, <2>3, OpenedStep
    <2>5. Lands(u, "mktemp", proc[u].result) /\ proc[u].result = "none"
        BY <1>1 DEF ProcOK, Lands, KindPc, Kind, SftpPc, ShellKinds, SftpKinds, FileGets
    <2>6. Moves(u)
        BY <1>1, <2>4, <2>5, Landed
    <2> QED BY <1>1, <1>5, <1>7, <2>4, <2>5, <2>6 DEF Goes, CoreType
<1> QED BY <1>6, <1>7 DEF SftpOpen

LEMMA SftpCreateKeeps ==
    ASSUME RemoteGood, NEW u \in Proc, SftpCreate(u), UNCHANGED sftpVars
    PROVE  RemoteGood'
<1>1. /\ FileType /\ CoreType /\ ProcInv /\ ScriptType /\ Own /\ ProcOK(proc[u]) /\ proc[u].pc = "mktemp"
      /\ UNCHANGED <<source, faults, pub, agent, posix, litter>>
    BY RemoteFacts DEF SftpCreate, At, sftpVars
<1>2. Kind(u, SftpKinds)
    BY <1>1, PcKind DEF SftpPc
<1>3. SftpTmp(u) /\ (~Overlap => SftpContent(u) /\ PreviousFile) /\ script[u].fd = 0
    BY <1>2, SftpFacts, RemoteFacts
<1>4. at.tmp[u] = 0 /\ at.old[u] = 0 /\ (~Overlap => pub[u] = <<>>) /\ proc[u].sent = <<>>
    BY <1>1, <1>3 DEF SftpTmp, SftpContent, ProcOK
<1> DEFINE y == NewInode
           names == [at EXCEPT !.tmp[u] = y]
<1>5. Store(names, script, data)
    BY DEF SftpCreate
<1>6. y \in Inode /\ ~Named(y) /\ y # 0
    BY <1>1, <1>3, <1>4, NewIsFree, FreeHasNoName, AtFields
<1> HIDE DEF y
<1>7. at' = names /\ script' = script /\ Writes(0)
    <2> HIDE DEF names
    <2> QED BY <1>1, <1>5, StoreSame
<1>8. AtFrame(u) /\ NamesAre(u, at.dest, y, at.old[u]) /\ SamePartial
    BY <1>1, <1>6, <1>7, TmpSet
<1>9. Own'
    BY <1>1, <1>6, <1>8, OwnGrows DEF NamesAre
<1>10. /\ Moves(u) /\ SameLink(u) /\ SameRead(u) /\ proc'[u].result # "ok"
       /\ proc'[u].pc = "write" \/ (proc'[u].pc = "done" /\ ~Up(u))
    <2>1. CASE Up(u)
        <3>1. Step(u, "write")
            BY <2>1 DEF SftpCreate
        <3>2. "write" \in Pcs /\ Lands(u, "write", proc[u].result) /\ proc[u].result = "none"
            BY <1>1, <1>2, SftpLands
        <3> QED BY <1>1, <3>1, <3>2, StepMoves DEF Goes
    <2>2. CASE ~Up(u)
        <3>1. Finish(u, LateOr(u, "failed"))
            BY <2>2 DEF SftpCreate
        <3> QED BY <1>1, <2>2, <3>1, ReportedIsResult, FinishMoves DEF Goes
    <2> QED BY <2>1, <2>2
<1>11. SftpTmp(u)'
    BY <1>4, <1>6, <1>8, <1>10 DEF SftpTmp, NamesAre, SameLink, SameRead, At, Up
<1>12. ~Overlap => SftpContent(u)'
    BY <1>1, <1>4, <1>10 DEF SftpContent, At
<1>13. ~Overlap => PreviousFile'
    BY <1>1, <1>3, <1>7, <1>8, PreviousKept DEF NamesAre
<1>14. /\ pub' \in [Proc -> Seq(Block)] /\ (\A w \in Proc : w # u => pub'[w] = pub[w]) /\ litter' \subseteq Proc
       /\ litter \subseteq litter' /\ faults' \in 0 .. MaxFaults
    BY <1>1 DEF FileType, CoreType
<1> QED BY <1>1, <1>2, <1>7, <1>8, <1>9, <1>10, <1>11, <1>12, <1>13, <1>14, SftpStepKeeps

LEMMA SftpWriteKeeps ==
    ASSUME RemoteGood, NEW u \in Proc, SftpWrite(u), UNCHANGED sftpVars
    PROVE  RemoteGood'
<1>1. /\ FileType /\ CoreType /\ ProcInv /\ ScriptType /\ Own /\ proc[u].pc = "write" /\ ~AtEnd(u)
      /\ UNCHANGED <<source, faults, pub, agent, posix, litter>>
      /\ proc' = [proc EXCEPT ![u].sent = Append(@, NextBlock(u))]
    BY RemoteFacts DEF SftpWrite, At, sftpVars
<1>2. Kind(u, SftpKinds)
    BY <1>1, PcKind DEF SftpPc
<1>3. SftpTmp(u) /\ (~Overlap => SftpContent(u) /\ PreviousFile)
    BY <1>2, SftpFacts, RemoteFacts
<1> DEFINE x == at.tmp[u]
           s == Append(data[x], NextBlock(u))
<1>4. x # 0 /\ x \in Inode /\ at.old[u] = 0 /\ (~Overlap => pub[u] = <<>>)
    BY <1>1, <1>3, AtFields DEF SftpTmp, SftpContent
<1>5. s \in Seq(Block)
    <2>1. data[x] \in Seq(Block)
        BY <1>1, <1>4 DEF FileType
    <2> QED BY <1>1, <2>1, NextBlockIsBlock
<1>6. Store(at, script, [data EXCEPT ![x] = s])
    BY <1>1, <1>4 DEF SftpWrite, FileType
<1> HIDE DEF x, s
<1>7. at' = at /\ script' = script /\ Writes(x)
    BY <1>1, <1>4, <1>5, <1>6, StoreWrites
<1>8. AtFrame(u) /\ NamesAre(u, at.dest, at.tmp[u], at.old[u]) /\ SamePartial
    BY <1>1, <1>7, AtKept
<1>9. Own'
    BY <1>1, <1>7 DEF Own
<1>10. Moves(u) /\ proc'[u].pc = "write"
    BY <1>1, SendMoves DEF Goes
<1>11. SftpTmp(u)'
    BY <1>1, <1>3, <1>7, <1>10 DEF SftpTmp, At
<1>12. ~Overlap => SftpContent(u)'
    BY <1>1, <1>4, <1>10 DEF SftpContent, At
<1>13. /\ x # at.dest /\ \A w \in Proc : x # at.old[w] /\ (w # u => x # at.tmp[w])
       /\ \A v \in Version : x # at.partial[v]
    BY <1>1, <1>4 DEF Own, x
<1>14. ~Overlap => PreviousFile'
    BY <1>1, <1>3, <1>7, <1>8, <1>13, PreviousKept DEF NamesAre
<1>15. /\ pub' \in [Proc -> Seq(Block)] /\ (\A w \in Proc : w # u => pub'[w] = pub[w]) /\ litter' \subseteq Proc
       /\ litter \subseteq litter' /\ faults' \in 0 .. MaxFaults
    BY <1>1 DEF FileType, CoreType
<1> QED BY <1>1, <1>2, <1>7, <1>8, <1>9, <1>10, <1>11, <1>12, <1>13, <1>14, <1>15, SftpStepKeeps

LEMMA WholeIsNotEmpty ==
    ASSUME NEW u, NEW s, Whole(u, s)
    PROVE  s # <<>>
BY TransferAssumption DEF Whole

LEMMA SftpCheckKeeps ==
    ASSUME RemoteGood, NEW u \in Proc, SftpCheck(u), UNCHANGED sftpVars
    PROVE  RemoteGood'
<1>1. /\ FileType /\ CoreType /\ ProcInv /\ proc[u].pc = "write"
      /\ UNCHANGED <<source, faults, data, at, script, pub, agent, posix, litter>>
    BY RemoteFacts DEF SftpCheck, At, remoteVars, sftpVars
<1>2. Kind(u, SftpKinds)
    BY <1>1, PcKind DEF SftpPc
<1>3. SftpTmp(u) /\ (~Overlap => SftpContent(u))
    BY <1>2, SftpFacts
<1>4. litter' \subseteq Proc /\ litter \subseteq litter' /\ faults' \in 0 .. MaxFaults
    BY <1>1 DEF FileType, CoreType
<1>5. CASE Len(data[at.tmp[u]]) = Blocks /\ Readback(u) /\ Step(u, "rename")
    <2>1. "rename" \in Pcs /\ Lands(u, "rename", proc[u].result) /\ proc[u].result = "none"
        BY <1>1, <1>2, SftpLands
    <2>2. Moves(u) /\ proc'[u].pc = "rename" /\ SameRead(u)
        BY <1>1, <1>5, <2>1, StepMoves DEF Goes
    <2>3. SftpTmp(u)'
        BY <1>1, <1>3, <2>2 DEF SftpTmp, At
    <2>4. Whole(u, data[at.tmp[u]])
        BY <1>2, <1>5 DEF Whole, Readback, Kind, SftpKinds
    <2>5. Whole(u, data[at.tmp[u]])'
        BY <1>1, <2>2, <2>4 DEF Whole, SameRead, Moves, Frame, Kind
    <2>6. ~Overlap => SftpContent(u)'
        BY <1>1, <1>3, <2>2, <2>5 DEF SftpContent, At
    <2> QED BY <1>1, <1>2, <1>4, <2>2, <2>3, <2>6, SftpControl
<1>6. CASE Failing(u, "mismatch")
    <2>1. "mismatch" \in Results /\ "mismatch" # "ok"
        BY DEF Results
    <2>2. Moves(u) /\ proc'[u].pc = "cleanup"
        BY <1>1, <1>2, <1>6, <2>1, FailingMoves
    <2>3. SftpTmp(u)' /\ (~Overlap => SftpContent(u)')
        BY <2>2 DEF SftpTmp, SftpContent, At
    <2> QED BY <1>1, <1>2, <1>4, <2>2, <2>3, SftpControl
<1> QED BY <1>5, <1>6 DEF SftpCheck

\* The temporary file becomes the destination.
LEMMA SftpPublishes ==
    ASSUME RemoteGood, NEW u \in Proc, Kind(u, SftpKinds), proc[u].pc \in {"rename", "move"}, Moves(u), SameRead(u),
           proc'[u].pc \in {"done", "dropOld", "cleanup"}, UNCHANGED <<source, faults, agent, posix, litter>>,
           Rename([at EXCEPT !.dest = at.tmp[u], !.tmp[u] = 0], at.tmp[u], u)
    PROVE  RemoteGood'
<1>1. FileType /\ CoreType /\ Own /\ SftpTmp(u) /\ (~Overlap => SftpContent(u))
    BY RemoteFacts, SftpFacts
<1> DEFINE y == at.tmp[u]
           names == [at EXCEPT !.dest = y, !.tmp[u] = 0]
           p == data[y]
<1>2. y # 0 /\ y \in Inode /\ p \in Seq(Block)
    BY <1>1, AtFields DEF SftpTmp, FileType
<1>3. Store(names, script, data) /\ pub' = [pub EXCEPT ![u] = p]
    BY DEF Rename
<1>4. at' = names /\ script' = script /\ Writes(0)
    <2> HIDE DEF names
    <2> QED BY <1>1, <1>3, StoreSame
<1>5. ~Overlap => Whole(u, p)
    BY <1>1 DEF SftpContent
<1>6. y = at.tmp[u]
    OBVIOUS
<1> HIDE DEF y, p
<1>7. AtFrame(u) /\ NamesAre(u, y, 0, at.old[u]) /\ SamePartial
    BY <1>1, <1>2, <1>4, DestSet
<1>8. Own'
    BY <1>1, <1>6, <1>7, OwnShrinks DEF NamesAre, SamePartial
<1>9. pub' \in [Proc -> Seq(Block)] /\ pub'[u] = p /\ \A w \in Proc : w # u => pub'[w] = pub[w]
    BY <1>1, <1>2, <1>3 DEF FileType
<1>10. SftpTmp(u)'
    BY <1>7 DEF SftpTmp, NamesAre, At
<1>11. ASSUME ~Overlap PROVE SftpContent(u)' /\ PreviousFile'
    <2>1. Whole(u, p)
        BY <1>5, <1>11
    <2>2. Whole(u, pub[u])'
        BY <1>9, <2>1 DEF Whole, SameRead, Moves, Frame, Kind
    <2>3. p # <<>>
        BY <2>1, WholeIsNotEmpty
    <2> QED BY <1>9, <2>2, <2>3 DEF SftpContent, PreviousFile, At
<1>12. litter' \subseteq Proc /\ litter \subseteq litter' /\ faults' \in 0 .. MaxFaults
    BY <1>1 DEF FileType, CoreType
<1> QED BY <1>4, <1>7, <1>8, <1>9, <1>10, <1>11, <1>12, SftpStepKeeps

LEMMA SftpReplaceKeeps ==
    ASSUME RemoteGood, NEW u \in Proc, SftpReplace(u), UNCHANGED sftpVars
    PROVE  RemoteGood'
<1>1. /\ CoreType /\ ProcInv /\ proc[u].pc = "rename" /\ UNCHANGED <<source, faults, agent, posix, litter>>
      /\ Rename([at EXCEPT !.dest = at.tmp[u], !.tmp[u] = 0], at.tmp[u], u)
    BY RemoteFacts DEF SftpReplace, At, sftpVars
<1>2. Kind(u, SftpKinds)
    BY <1>1, PcKind DEF SftpPc
<1>3. "ok" \in Results /\ "failed" \in Results /\ "failed" # "ok"
    BY DEF Results
<1>4. Finish(u, "ok") \/ Failing(u, "failed")
    BY DEF SftpReplace
<1>5. Moves(u) /\ SameRead(u) /\ proc'[u].pc \in {"done", "cleanup"}
    BY <1>1, <1>2, <1>3, <1>4, FinishMoves, FailingMoves DEF Goes
<1> QED BY <1>1, <1>2, <1>5, SftpPublishes

LEMMA SftpLstatKeeps ==
    ASSUME RemoteGood, NEW u \in Proc, SftpLstat(u), UNCHANGED sftpVars
    PROVE  RemoteGood'
<1>1. /\ FileType /\ CoreType /\ ProcInv /\ proc[u].pc = "rename"
      /\ UNCHANGED <<source, data, at, script, pub, agent, posix, litter>> /\ faults' \in 0 .. MaxFaults
    BY RemoteFacts, FaultType DEF SftpLstat, At, remoteVars, sftpVars, CoreType
<1>2. Kind(u, SftpKinds)
    BY <1>1, PcKind DEF SftpPc
<1>3. SftpTmp(u) /\ (~Overlap => SftpContent(u))
    BY <1>2, SftpFacts
<1>4. PICK l \in {"move", "aside"} : Step(u, l)
    BY DEF SftpLstat
<1>5. l \in Pcs /\ Lands(u, l, proc[u].result)
    <2>1. l \in {"write", "rename", "aside", "move", "putBack", "dropOld"} /\ proc[u].pc \notin {"cleanup", "done"}
        BY <1>1, <1>4
    <2> QED BY <1>1, <1>2, <2>1, SftpLands
<1>6. Moves(u) /\ proc'[u].pc = l /\ SameRead(u)
    BY <1>1, <1>4, <1>5, StepMoves DEF Goes
<1>7. SftpTmp(u)'
    BY <1>1, <1>3, <1>4, <1>6 DEF SftpTmp, At
<1>8. ASSUME ~Overlap PROVE SftpContent(u)'
    <2>1. Whole(u, data[at.tmp[u]]) /\ pub[u] = <<>>
        BY <1>1, <1>3, <1>8 DEF SftpContent
    <2>2. Whole(u, data[at.tmp[u]])'
        BY <1>1, <1>6, <2>1 DEF Whole, SameRead, Moves, Frame, Kind
    <2> QED BY <1>1, <1>4, <1>6, <2>1, <2>2 DEF SftpContent, At
<1>9. litter' \subseteq Proc /\ litter \subseteq litter'
    BY <1>1 DEF FileType
<1> QED BY <1>1, <1>2, <1>6, <1>7, <1>8, <1>9, SftpControl

\* The destination and what was moved aside change places.
LEMMA PreviousMoved ==
    ASSUME FileType, PreviousFile, NEW u \in Proc, AtFrame(u), Writes(0), pub' = pub,
           \A i \in {at.dest, at.old[u]} : i # 0 => i \in {at'.dest, at'.old[u]}
    PROVE  PreviousFile'
<1> SUFFICES ASSUME \A w \in Proc : pub'[w] = <<>>
             PROVE  \E i \in {at'.dest} \cup {at'.old[w] : w \in Proc} : i # 0 /\ data'[i] = Content(0)
    BY DEF PreviousFile
<1>1. PICK i \in {at.dest} \cup {at.old[w] : w \in Proc} : i # 0 /\ data[i] = Content(0)
    BY DEF PreviousFile
<1>2. i \in {at'.dest} \cup {at'.old[w] : w \in Proc}
    <2>1. CASE i \in {at.dest, at.old[u]}
        BY <1>1, <2>1
    <2>2. CASE \E w \in Proc : w # u /\ i = at.old[w]
        BY <2>2 DEF AtFrame
    <2> QED BY <1>1, <2>1, <2>2
<1>3. i \in Inode /\ Named(i)'
    BY <1>1, <1>2, AtFields DEF Named
<1> QED BY <1>1, <1>2, <1>3, AtFields DEF Writes

\* A step that moves the destination aside or back, or removes the old one.
LEMMA SftpOldStep ==
    ASSUME RemoteGood, NEW u \in Proc, Kind(u, SftpKinds), Moves(u), SameRead(u), SameLink(u),
           proc[u].pc \in {"aside", "putBack", "dropOld"}, proc'[u].pc \in {"move", "done", "cleanup"},
           UNCHANGED <<source, pub, agent, posix, litter>>, faults' \in 0 .. MaxFaults,
           NEW names, Store(names, script, data), NEW d, NEW o,
           at' = names => AtFrame(u) /\ NamesAre(u, d, at.tmp[u], o) /\ SamePartial,
           d \in {at.dest, at.old[u], 0}, o \in {at.old[u], at.dest, 0},
           proc'[u].pc = "move" => proc[u].pc = "aside",
           proc'[u].pc = "done" => proc[u].pc = "dropOld",
           proc[u].pc # "dropOld" => \A i \in {at.dest, at.old[u]} : i # 0 => i \in {d, o}
    PROVE  RemoteGood'
<1>1. FileType /\ CoreType /\ Own /\ SftpTmp(u) /\ (~Overlap => SftpContent(u) /\ PreviousFile)
    BY RemoteFacts, SftpFacts
<1>2. at' = names /\ script' = script /\ Writes(0)
    BY <1>1, StoreSame
<1>3. AtFrame(u) /\ at'.dest = d /\ at'.tmp[u] = at.tmp[u] /\ at'.old[u] = o /\ SamePartial
    BY <1>2 DEF NamesAre
<1>4. Own'
    BY <1>1, <1>3, OwnShrinks DEF SamePartial
<1>5. SftpTmp(u)'
    BY <1>1, <1>3 DEF SftpTmp, At
<1>6. ASSUME ~Overlap PROVE SftpContent(u)' /\ PreviousFile'
    <2>1. SftpContent(u) /\ PreviousFile
        BY <1>1, <1>6
    <2>2. CASE proc[u].pc = "dropOld"
        <3>1. Whole(u, pub[u])
            BY <2>1, <2>2 DEF SftpContent, At
        <3>2. Whole(u, pub[u])' /\ pub'[u] # <<>>
            BY <3>1, WholeIsNotEmpty DEF Whole, SameRead, Moves, Frame, Kind
        <3> QED BY <2>2, <3>2 DEF SftpContent, PreviousFile, At
    <2>3. CASE proc[u].pc # "dropOld"
        <3>1. PreviousFile'
            BY <1>1, <1>2, <1>3, <2>1, <2>3, PreviousMoved
        <3>2. proc'[u].pc = "move" => Whole(u, data[at.tmp[u]]) /\ pub[u] = <<>>
            BY <2>1 DEF SftpContent
        <3>3. proc'[u].pc = "move" => Whole(u, data[at.tmp[u]])'
            <4>1. at.tmp[u] # 0 /\ at.tmp[u] \in Inode
                BY <1>1, <2>3, AtFields DEF SftpTmp
            <4>2. Named(at.tmp[u])'
                BY <1>3 DEF Named
            <4>3. data'[at'.tmp[u]] = data[at.tmp[u]]
                BY <1>2, <1>3, <4>1, <4>2 DEF Writes
            <4> QED BY <3>2, <4>3 DEF Whole, SameRead, Moves, Frame, Kind
        <3>4. SftpContent(u)'
            BY <2>3, <3>2, <3>3 DEF SftpContent, At
        <3> QED BY <3>1, <3>4
    <2> QED BY <2>2, <2>3
<1>7. /\ pub' \in [Proc -> Seq(Block)] /\ (\A w \in Proc : w # u => pub'[w] = pub[w]) /\ litter' \subseteq Proc
      /\ litter \subseteq litter'
    BY <1>1 DEF FileType
<1> QED BY <1>2, <1>3, <1>4, <1>5, <1>6, <1>7, SftpStepKeeps

\* An upload goes to its cleanup and leaves everything else as it is.
LEMMA SftpGivesUp ==
    ASSUME RemoteGood, NEW u \in Proc, Kind(u, SftpKinds), Moves(u), proc'[u].pc = "cleanup", source' = source,
           faults' \in 0 .. MaxFaults, UNCHANGED <<data, at, script, pub, agent, posix, litter>>
    PROVE  RemoteGood'
<1>1. litter' \subseteq Proc /\ litter \subseteq litter'
    BY RemoteFacts DEF FileType
<1>2. SftpTmp(u)' /\ SftpContent(u)'
    BY DEF SftpTmp, SftpContent, At
<1> QED BY <1>1, <1>2, SftpControl

LEMMA SftpAsideKeeps ==
    ASSUME RemoteGood, NEW u \in Proc, SftpAside(u), UNCHANGED sftpVars
    PROVE  RemoteGood'
<1>1. /\ FileType /\ CoreType /\ ProcInv /\ proc[u].pc = "aside" /\ UNCHANGED <<source, faults, pub, agent, posix, litter>>
      /\ faults' \in 0 .. MaxFaults
    BY RemoteFacts DEF SftpAside, At, sftpVars, CoreType
<1>2. Kind(u, SftpKinds)
    BY <1>1, PcKind DEF SftpPc
<1>3. at.old[u] = 0
    BY <1>1, <1>2, SftpFacts DEF SftpTmp
<1>4. CASE Failing(u, "failed") /\ UNCHANGED <<data, at, script>>
    <2>1. "failed" \in Results /\ "failed" # "ok"
        BY DEF Results
    <2> QED BY <1>1, <1>2, <1>4, <2>1, FailingMoves, SftpGivesUp
<1>5. CASE Store([at EXCEPT !.old[u] = at.dest, !.dest = 0], script, data) /\ Answered(u, "move")
    <2> DEFINE d == at.dest
               names == [at EXCEPT !.old[u] = d, !.dest = 0]
    <2>1. d \in Inode \cup {0}
        BY <1>1, AtFields
    <2>2. Store(names, script, data)
        BY <1>5
    <2>3. d = at.dest
        OBVIOUS
    <2> HIDE DEF d
    <2>4. at' = names => AtFrame(u) /\ NamesAre(u, 0, at.tmp[u], d) /\ SamePartial
        BY <1>1, <2>1, AsideSet
    <2> HIDE DEF names
    <2>5. Moves(u) /\ proc'[u].pc \in {"move", "cleanup"} /\ SameLink(u) /\ SameRead(u)
        BY <1>1, <1>2, <1>5, AnsweredMoves
    <2> QED BY <1>1, <1>2, <1>3, <2>2, <2>3, <2>4, <2>5, SftpOldStep
<1> QED BY <1>4, <1>5 DEF SftpAside

LEMMA SftpMoveKeeps ==
    ASSUME RemoteGood, NEW u \in Proc, SftpMove(u), UNCHANGED sftpVars
    PROVE  RemoteGood'
<1>1. /\ FileType /\ CoreType /\ ProcInv /\ proc[u].pc = "move" /\ UNCHANGED <<source, agent, posix, litter>>
    BY RemoteFacts DEF SftpMove, At, sftpVars
<1>2. Kind(u, SftpKinds)
    BY <1>1, PcKind DEF SftpPc
<1>3. CASE /\ Rename([at EXCEPT !.dest = at.tmp[u], !.tmp[u] = 0], at.tmp[u], u) /\ Answered(u, "dropOld")
           /\ UNCHANGED faults
    <2>1. Moves(u) /\ proc'[u].pc \in {"dropOld", "cleanup"} /\ SameRead(u)
        BY <1>1, <1>2, <1>3, AnsweredMoves
    <2> QED BY <1>1, <1>2, <1>3, <2>1, SftpPublishes
<1>4. CASE /\ FailsIf(at.dest # 0) /\ UNCHANGED <<data, at, script, pub>>
           /\ Step(u, "putBack") \/ Failing(u, "failed")
    <2>1. faults' \in 0 .. MaxFaults
        BY <1>1, <1>4, FaultType DEF FailsIf, CoreType
    <2>2. CASE Failing(u, "failed")
        <3>1. "failed" \in Results /\ "failed" # "ok"
            BY DEF Results
        <3> QED BY <1>1, <1>2, <1>4, <2>1, <2>2, <3>1, FailingMoves, SftpGivesUp
    <2>3. CASE Step(u, "putBack")
        <3>1. "putBack" \in Pcs /\ Lands(u, "putBack", proc[u].result)
            BY <1>1, <1>2, SftpLands
        <3>2. Moves(u) /\ proc'[u].pc = "putBack" /\ SameRead(u)
            BY <1>1, <2>3, <3>1, StepMoves DEF Goes
        <3>3. SftpTmp(u) /\ (~Overlap => SftpContent(u))
            BY <1>2, SftpFacts
        <3>4. SftpTmp(u)'
            BY <1>1, <1>4, <3>2, <3>3 DEF SftpTmp, At
        <3>5. ASSUME ~Overlap PROVE SftpContent(u)'
            <4>1. Whole(u, data[at.tmp[u]])
                BY <1>1, <3>3, <3>5 DEF SftpContent
            <4>2. Whole(u, data[at.tmp[u]])'
                BY <1>4, <3>2, <4>1 DEF Whole, SameRead, Moves, Frame, Kind
            <4> QED BY <3>2, <4>2 DEF SftpContent, At
        <3>6. litter' \subseteq Proc /\ litter \subseteq litter'
            BY <1>1 DEF FileType
        <3> QED BY <1>1, <1>2, <1>4, <2>1, <3>2, <3>4, <3>5, <3>6, SftpControl
    <2> QED BY <1>4, <2>2, <2>3
<1> QED BY <1>3, <1>4 DEF SftpMove

LEMMA SftpRestoreKeeps ==
    ASSUME RemoteGood, NEW u \in Proc, SftpRestore(u), UNCHANGED sftpVars
    PROVE  RemoteGood'
<1>1. /\ FileType /\ CoreType /\ ProcInv /\ proc[u].pc = "putBack" /\ UNCHANGED <<source, faults, pub, agent, posix, litter>>
      /\ faults' \in 0 .. MaxFaults /\ Failing(u, "failed")
    BY RemoteFacts DEF SftpRestore, At, sftpVars, CoreType
<1>2. Kind(u, SftpKinds)
    BY <1>1, PcKind DEF SftpPc
<1>3. Moves(u) /\ proc'[u].pc = "cleanup" /\ SameLink(u) /\ SameRead(u)
    <2>1. "failed" \in Results /\ "failed" # "ok"
        BY DEF Results
    <2> QED BY <1>1, <1>2, <2>1, FailingMoves
<1>4. CASE UNCHANGED <<data, at, script>>
    BY <1>1, <1>2, <1>3, <1>4, SftpGivesUp
<1>5. CASE at.dest = 0 /\ Store([at EXCEPT !.dest = at.old[u], !.old[u] = 0], script, data)
    <2> DEFINE d == at.old[u]
               names == [at EXCEPT !.dest = d, !.old[u] = 0]
    <2>1. d \in Inode \cup {0} /\ 0 \in Inode \cup {0}
        BY <1>1, AtFields
    <2>2. Store(names, script, data)
        BY <1>5
    <2>3. d = at.old[u]
        OBVIOUS
    <2> HIDE DEF d
    <2>4. at' = names => AtFrame(u) /\ NamesAre(u, d, at.tmp[u], 0) /\ SamePartial
        BY <1>1, <2>1, OldSet
    <2> HIDE DEF names
    <2> QED BY <1>1, <1>2, <1>3, <1>5, <2>2, <2>3, <2>4, SftpOldStep
<1> QED BY <1>4, <1>5 DEF SftpRestore

LEMMA SftpDropOldKeeps ==
    ASSUME RemoteGood, NEW u \in Proc, SftpDropOld(u), UNCHANGED sftpVars
    PROVE  RemoteGood'
<1>1. /\ FileType /\ CoreType /\ ProcInv /\ proc[u].pc = "dropOld" /\ UNCHANGED <<source, pub, agent, posix, litter>>
      /\ faults' \in 0 .. MaxFaults /\ Finish(u, "ok")
    BY RemoteFacts, FaultType DEF SftpDropOld, FailsIf, At, sftpVars, CoreType
<1>2. Kind(u, SftpKinds)
    BY <1>1, PcKind DEF SftpPc
<1>3. Moves(u) /\ proc'[u].pc = "done" /\ SameLink(u) /\ SameRead(u)
    <2>1. "ok" \in Results
        BY DEF Results
    <2> QED BY <1>1, <2>1, FinishMoves DEF Goes
<1>4. CASE UNCHANGED <<data, at, script>>
    <2>1. SftpTmp(u) /\ (~Overlap => SftpContent(u))
        BY <1>2, SftpFacts
    <2>2. SftpTmp(u)'
        BY <1>1, <1>3, <1>4, <2>1 DEF SftpTmp, At
    <2>3. ASSUME ~Overlap PROVE SftpContent(u)'
        <3>1. Whole(u, pub[u])
            BY <1>1, <2>1, <2>3 DEF SftpContent, At
        <3>2. Whole(u, pub[u])'
            BY <1>1, <1>3, <3>1 DEF Whole, SameRead, Moves, Frame, Kind
        <3> QED BY <1>3, <3>2 DEF SftpContent, At
    <2>4. litter' \subseteq Proc /\ litter \subseteq litter'
        BY <1>1 DEF FileType
    <2> QED BY <1>1, <1>2, <1>3, <1>4, <2>2, <2>3, <2>4, SftpControl
<1>5. CASE Store([at EXCEPT !.old[u] = 0], script, data)
    <2> DEFINE names == [at EXCEPT !.old[u] = 0]
    <2>1. Store(names, script, data)
        BY <1>5
    <2>2. at' = names => AtFrame(u) /\ NamesAre(u, at.dest, at.tmp[u], 0) /\ SamePartial
        BY <1>1, OldDropped
    <2> HIDE DEF names
    <2> QED BY <1>1, <1>2, <1>3, <2>1, <2>2, SftpOldStep
<1> QED BY <1>4, <1>5 DEF SftpDropOld

LEMMA SftpRefusedKeeps ==
    ASSUME RemoteGood, NEW u \in Proc, SftpRefused(u), UNCHANGED sftpVars
    PROVE  RemoteGood'
<1>1. /\ FileType /\ CoreType /\ ProcInv /\ Kind(u, SftpKinds)
      /\ UNCHANGED <<source, data, at, script, pub, agent, posix, litter>> /\ faults' \in 0 .. MaxFaults
    BY RemoteFacts, FaultType DEF SftpRefused, FailsIf, remoteVars, sftpVars, CoreType
<1>2. CASE Failing(u, "failed")
    <2>1. "failed" \in Results /\ "failed" # "ok"
        BY DEF Results
    <2> QED BY <1>1, <1>2, <2>1, FailingMoves, SftpGivesUp
<1>3. CASE proc[u].pc = "mktemp" /\ Finish(u, LateOr(u, "failed"))
    <2>1. Moves(u) /\ Goes(u, "done", LateOr(u, "failed")) /\ LateOr(u, "failed") # "ok"
        BY <1>1, <1>3, ReportedIsResult, FinishMoves
    <2>2. at.tmp[u] = 0
        BY <1>1, <1>3, SftpFacts DEF SftpTmp
    <2>3. SftpTmp(u)' /\ SftpContent(u)'
        BY <1>1, <2>1, <2>2 DEF SftpTmp, SftpContent, Goes, At
    <2>4. litter' \subseteq Proc /\ litter \subseteq litter'
        BY <1>1 DEF FileType
    <2> QED BY <1>1, <2>1, <2>3, <2>4, SftpControl
<1> QED BY <1>2, <1>3 DEF SftpRefused, At

LEMMA SftpCleanupKeeps ==
    ASSUME RemoteGood, NEW u \in Proc, SftpCleanup(u)
    PROVE  RemoteGood'
<1>1. /\ FileType /\ CoreType /\ ProcInv /\ Own /\ ProcOK(proc[u]) /\ proc[u].pc = "cleanup" /\ Kind(u, SftpKinds)
      /\ UNCHANGED <<source, pub, agent, posix>> /\ faults' \in 0 .. MaxFaults /\ Step(u, "done")
      /\ (~Overlap => PreviousFile)
    BY RemoteFacts, FaultType DEF SftpCleanup, FailsIf, At, CoreType
<1>2. Moves(u) /\ proc'[u].pc = "done" /\ proc'[u].result # "ok"
    <2>1. "done" \in Pcs /\ Lands(u, "done", proc[u].result) /\ proc[u].result # "ok"
        BY <1>1, DoneLands DEF Pcs, ShellPc, ProcOK
    <2> QED BY <1>1, <2>1, StepMoves DEF Goes
<1>3. SftpContent(u)'
    BY <1>2 DEF SftpContent, At
<1>4. CASE litter' = litter \cup {u} /\ UNCHANGED <<data, at, script>>
    <2>1. litter' \subseteq Proc /\ litter \subseteq litter' /\ u \in litter'
        BY <1>1, <1>4 DEF FileType
    <2>2. SftpTmp(u)'
        BY <1>2, <2>1 DEF SftpTmp, At
    <2> QED BY <1>1, <1>2, <1>3, <1>4, <2>1, <2>2, SftpControl
<1>5. CASE Store([at EXCEPT !.tmp[u] = 0], script, data) /\ UNCHANGED litter
    <2> DEFINE names == [at EXCEPT !.tmp[u] = 0]
    <2>1. at' = names /\ script' = script /\ Writes(0)
        <3>1. Store(names, script, data)
            BY <1>5
        <3> HIDE DEF names
        <3> QED BY <1>1, <3>1, StoreSame
    <2>2. AtFrame(u) /\ NamesAre(u, at.dest, 0, at.old[u]) /\ SamePartial
        BY <1>1, <2>1, TmpSet
    <2>3. Own'
        BY <1>1, <2>2, OwnShrinks DEF NamesAre, SamePartial
    <2>4. SftpTmp(u)'
        BY <1>2, <2>2 DEF SftpTmp, NamesAre, At
    <2>5. ~Overlap => PreviousFile'
        BY <1>1, <2>1, <2>2, PreviousKept DEF NamesAre
    <2>6. /\ pub' \in [Proc -> Seq(Block)] /\ (\A w \in Proc : w # u => pub'[w] = pub[w]) /\ litter' \subseteq Proc
          /\ litter \subseteq litter'
        BY <1>1, <1>5 DEF FileType
    <2> QED BY <1>1, <1>2, <1>3, <2>1, <2>2, <2>3, <2>4, <2>5, <2>6, SftpStepKeeps
<1> QED BY <1>4, <1>5 DEF SftpCleanup

LEMMA SftpNextKeeps ==
    ASSUME RemoteGood, NEW u \in Proc, SftpNext(u)
    PROVE  RemoteGood'
<1>1. CASE SftpDeadline(u) /\ UNCHANGED sftpVars
    <2>1. ~Kind(u, {"direct"})
        BY <1>1 DEF SftpDeadline, Kind, SftpKinds
    <2> QED BY <1>1, <2>1, RemoteDeadline DEF SftpDeadline
<1> QED BY <1>1, SftpOpenKeeps, SftpCreateKeeps, SftpWriteKeeps, SftpCheckKeeps, SftpReplaceKeeps, SftpLstatKeeps,
           SftpAsideKeeps, SftpMoveKeeps, SftpRestoreKeeps, SftpDropOldKeeps, SftpRefusedKeeps, SftpCleanupKeeps
           DEF SftpNext, SftpSteps

-----------------------------------------------------------------------------
(* The protocols beside each other                                         *)

\* Only transfer u moves.
Alone(u) == (\A w \in Proc : w # u => proc'[w] = proc[w]) /\ proc'[u].kind = proc[u].kind

LEMMA AloneIs ==
    ASSUME CoreType, NEW u \in Proc
    PROVE  /\ proc' = proc => Alone(u)
           /\ \A l : Step(u, l) => Alone(u)
           /\ \A r : Finish(u, r) => Alone(u)
           /\ \A r : Failing(u, r) => Alone(u)
           /\ \A r : GiveUp(u, r) => Alone(u)
           /\ \A l, r : proc' = [proc EXCEPT ![u].pc = l, ![u].result = r] => Alone(u)
           /\ \A h, l : proc' = [proc EXCEPT ![u].hash = h, ![u].pc = l] => Alone(u)
           /\ \A s, l : proc' = [proc EXCEPT ![u].prefix = s, ![u].pc = l] => Alone(u)
           /\ proc' = [proc EXCEPT ![u].sent = Append(@, NextBlock(u))] => Alone(u)
           /\ proc' = [proc EXCEPT ![u].link = "closed"] => Alone(u)
           /\ proc' = [proc EXCEPT ![u].late = TRUE] => Alone(u)
           /\ proc' = [proc EXCEPT ![u].late = TRUE, ![u].link = "closed"] => Alone(u)
BY DEF Alone, CoreType, ProcRecord, Step, Finish, GiveUp, Failing

LEMMA ShellAlone ==
    ASSUME CoreType, NEW u \in Proc, ShellNext(u)
    PROVE  Alone(u)
<1>1. CASE PutOpen(u) \/ ResumeOpen(u) \/ CopyOpen(u) \/ DirectOpen(u)
    BY <1>1, AloneIs DEF PutOpen, ResumeOpen, CopyOpen, DirectOpen, Opened
<1>2. CASE ProbeSweep(u) \/ ProbeInspect(u) \/ ProbeCreate(u) \/ ProbeMeta(u) \/ ProbeDies(u)
    BY <1>2, AloneIs DEF ProbeSweep, ProbeInspect, ProbeCreate, ProbeMeta, ProbeDies
<1>3. CASE StartScript(u) \/ StreamFails(u) \/ SourceFails(u) \/ DirectReread(u)
    <2>1. CASE StartScript(u)
        BY <2>1, AloneIs DEF StartScript
    <2>2. CASE StreamFails(u) \/ SourceFails(u)
        BY <2>2, AloneIs DEF StreamFails, SourceFails
    <2>3. CASE DirectReread(u)
        BY <2>3, AloneIs DEF DirectReread
    <2> QED BY <1>3, <2>1, <2>2, <2>3
<1>7. CASE WaitScript(u) \/ DirectWait(u)
    <2>1. ASSUME NEW l, NEW r, Waited(u, l, r)
          PROVE  Alone(u)
        BY <2>1, AloneIs DEF Waited
    <2> QED BY <1>7, <2>1 DEF WaitScript, DirectWait
<1>4. CASE DirectClose(u) \/ ShellDeadline(u) \/ DirectDeadline(u)
    BY <1>4, AloneIs DEF DirectClose, ShellDeadline, DirectDeadline, Deadline
<1>5. CASE DirectConnect(u) \/ Send(u) \/ CloseStdin(u) \/ InputEnds(u)
    BY <1>5, AloneIs DEF DirectConnect, Send, CloseStdin, InputEnds
<1>6. CASE ScriptOpen(u) \/ ScriptVerify(u) \/ ScriptCat(u) \/ ScriptEOF(u) \/ ScriptCheck(u) \/ ScriptPublish(u)
           \/ ScriptClean(u) \/ ScriptKilled(u)
    BY <1>6, AloneIs
       DEF ScriptOpen, ScriptVerify, ScriptCat, ScriptEOF, ScriptCheck, ScriptPublish, ScriptClean, ScriptKilled
<1> QED BY <1>1, <1>2, <1>3, <1>4, <1>5, <1>6, <1>7 DEF ShellNext, ShellLocal, ShellRemote

LEMMA SftpAlone ==
    ASSUME CoreType, NEW u \in Proc, SftpNext(u)
    PROVE  Alone(u)
<1>1. CASE SftpOpen(u) \/ SftpCreate(u) \/ SftpWrite(u) \/ SftpCheck(u) \/ SftpReplace(u) \/ SftpLstat(u)
    BY <1>1, AloneIs DEF SftpOpen, SftpCreate, SftpWrite, SftpCheck, SftpReplace, SftpLstat
<1>2. CASE SftpAside(u) \/ SftpMove(u) \/ SftpRestore(u) \/ SftpDropOld(u) \/ SftpRefused(u) \/ SftpCleanup(u)
    BY <1>2, AloneIs DEF SftpAside, SftpMove, SftpRestore, SftpDropOld, SftpRefused, SftpCleanup, Answered
<1>3. CASE SftpDeadline(u)
    BY <1>3, AloneIs DEF SftpDeadline, Deadline
<1> QED BY <1>1, <1>2, <1>3 DEF SftpNext, SftpSteps

LEMMA GetAlone ==
    ASSUME CoreType, NEW u \in Proc, GetNext(u)
    PROVE  Alone(u)
BY AloneIs DEF GetNext, GetSteps, GetOpen, GetRead, GetVerify, GetFails, GetPublish, GetCleanup, GetDeadline, Deadline

LEMMA DirAlone ==
    ASSUME CoreType, NEW u \in Proc, DirNext(u)
    PROVE  Alone(u)
<1>1. CASE DirStage(u) \/ DirReceive(u) \/ DirRemoteEnds(u) \/ DirLocalEnds(u) \/ DirTakeRemote(u) \/ DirTakeLocal(u)
    BY <1>1, AloneIs DEF DirStage, DirReceive, DirRemoteEnds, DirLocalEnds, DirTakeRemote, DirTakeLocal, Sent
<1>2. CASE DirGrace(u) \/ DirDecide(u) \/ DirAside(u) \/ DirPlace(u) \/ DirRestore(u) \/ DirDrop(u)
           \/ DirCleanup(u)
    BY <1>2, AloneIs DEF DirGrace, DirDecide, DirAside, DirPlace, DirRestore, DirDrop, DirCleanup
<1>3. CASE TreeOpen(u) \/ TreeSend(u) \/ TreeLocalEnds(u) \/ TreeRemoteEnds(u) \/ TreeGrace(u) \/ TreeDecide(u)
           \/ TreeWalk(u)
    BY <1>3, AloneIs DEF TreeOpen, TreeSend, TreeLocalEnds, TreeRemoteEnds, TreeGrace, TreeDecide, TreeWalk, Sent
<1>4. CASE DirDeadline(u) \/ DirKilled(u)
    BY <1>4, AloneIs DEF DirDeadline, DirKilled, Deadline
<1> QED BY <1>1, <1>2, <1>3, <1>4 DEF DirNext, DirSteps

LEMMA ShellIsShell ==
    ASSUME RemoteGood, NEW u \in Proc, ShellNext(u)
    PROVE  Kind(u, ShellKinds)
<1>1. CoreType /\ ProcInv
    BY RemoteFacts
<1>2. CASE proc[u].pc \in ShellPc \ {"start", "done"}
    BY <1>1, <1>2, PcKind
<1>3. CASE script[u].at # "idle"
    BY <1>3, ScriptIsShell
<1>4. CASE Kind(u, ShellKinds) \/ Kind(u, {"put", "sha"}) \/ Kind(u, {"resume"}) \/ Kind(u, {"cp"}) \/ Kind(u, {"direct"})
           \/ Kind(u, ShellKinds \ {"direct"})
    BY <1>4 DEF Kind, ShellKinds
<1>5. CASE ShellLocal(u)
    BY <1>2, <1>4, <1>5
       DEF ShellLocal, PutOpen, ResumeOpen, CopyOpen, DirectOpen, ProbeSweep, ProbeInspect, ProbeCreate, ProbeMeta, ProbeDies,
           StartScript, StreamFails, SourceFails, WaitScript, DirectWait, DirectReread, DirectClose, At, ShellPc
<1>6. CASE ShellRemote(u)
    BY <1>2, <1>3, <1>4, <1>6
       DEF ShellRemote, DirectConnect, Send, CloseStdin, InputEnds, ScriptOpen, ScriptVerify, ScriptCat, ScriptEOF,
           ScriptCheck, ScriptPublish, ScriptClean, ScriptKilled, Feeding, At, ShellPc
<1>7. CASE ShellDeadline(u) \/ DirectDeadline(u)
    BY <1>4, <1>7 DEF ShellDeadline, DirectDeadline
<1> QED BY <1>5, <1>6, <1>7 DEF ShellNext

LEMMA SftpIsSftp ==
    ASSUME CoreType, ProcInv, NEW u \in Proc, SftpNext(u)
    PROVE  Kind(u, SftpKinds)
<1>1. CASE proc[u].pc \in SftpPc \ {"start", "cleanup", "done"}
    BY <1>1, PcKind
<1> QED BY <1>1 DEF SftpNext, SftpSteps, SftpOpen, SftpCreate, SftpWrite, SftpCheck, SftpReplace, SftpLstat, SftpAside,
                    SftpMove, SftpRestore, SftpDropOld, SftpRefused, SftpCleanup, SftpDeadline, At, SftpPc

LEMMA GetIsGet ==
    ASSUME CoreType, ProcInv, NEW u \in Proc, GetNext(u)
    PROVE  Kind(u, FileGets)
BY PcKind DEF GetNext, GetSteps, GetOpen, GetRead, GetVerify, GetFails, GetPublish, GetCleanup, GetDeadline, At

LEMMA DirIsDir ==
    ASSUME CoreType, ProcInv, NEW u \in Proc, DirNext(u)
    PROVE  Kind(u, {"getdir", "putdir"})
<1>1. CASE proc[u].pc \in {"tar", "treeAside", "place", "putTree", "drop", "tarput", "validate", "walk"}
    BY <1>1, PcKind DEF Kind
<1>2. CASE Kind(u, {"getdir"}) \/ Kind(u, {"putdir"})
    BY <1>2 DEF Kind
<1> QED BY <1>1, <1>2 DEF DirNext, DirSteps, DirStage, DirReceive, DirRemoteEnds, DirLocalEnds, DirTakeRemote, DirTakeLocal,
           DirGrace, DirDecide, DirAside, DirPlace, DirRestore, DirDrop, DirCleanup, TreeOpen, TreeSend, TreeLocalEnds, TreeRemoteEnds,
           TreeGrace, TreeDecide, TreeWalk, DirDeadline, DirKilled, At

LEMMA AloneMoves ==
    ASSUME NEW u \in Proc, Alone(u), CoreType', ProcInv'
    PROVE  Moves(u)
BY DEF Alone, Moves, Frame, CoreType, ProcInv

\* A step of another protocol leaves the trees alone.
LEMMA DirIdle ==
    ASSUME DirGood, NEW u \in Proc, ~Kind(u, {"getdir", "putdir"}), Moves(u), source' = source,
           faults' \in 0 .. MaxFaults, UNCHANGED dirVars
    PROVE  DirGood'
<1>1. CoreType /\ ProcInv /\ DirType /\ EndsOK(u) /\ TreeOK(u) /\ UNCHANGED <<dirs, ends>>
    BY DEF DirGood, EndsInv, TreeInv, dirVars
<1>2. EndFrame(u) /\ DirFrame(u)
    BY <1>1, EndsKept, DirsKept
<1>3. proc'[u].kind = proc[u].kind /\ proc[u].kind \notin {"getdir", "putdir"} /\ proc[u].kind \in Kinds
    BY <1>1, ProcFields DEF Moves, Frame, Kind
<1>4. proc'[u].pc \notin (DirPc \cup TreePc) \ {"start", "cleanup", "done"}
    BY <1>3 DEF Moves, ProcOK, KindPc, Kinds, ShellKinds, SftpKinds, FileGets, ShellPc, SftpPc, GetPc, DirPc, TreePc
<1>5. EndsOK(u)'
    BY <1>1, <1>3, <1>4 DEF EndsOK, Kind, At, DirPc, TreePc
<1>6. TreeOK(u)'
    BY <1>1, <1>3, <1>4 DEF TreeOK, Kind, At, DirPc, TreePc
<1> QED BY <1>2, <1>5, <1>6, DirOthers

\* A step of another protocol leaves the local files alone.
LEMMA LocalIdle ==
    ASSUME LocalGood, NEW u \in Proc, ~Kind(u, FileGets), Moves(u), source' = source,
           faults' \in 0 .. MaxFaults, UNCHANGED localVars
    PROVE  LocalGood'
<1>1. CoreType /\ ProcInv /\ LocalType /\ StageOK(u) /\ LocalInv /\ UNCHANGED <<local, stage, staged, unremoved>>
    BY DEF LocalGood, StageInv, localVars
<1>2. proc'[u].kind = proc[u].kind /\ ~Kind(u, FileGets)' /\ proc[u].kind \in Kinds
    BY <1>1, ProcFields DEF Moves, Frame, Kind
<1>3. proc'[u].pc # "publish"
    BY <1>2 DEF Moves, ProcOK, KindPc, Kind, Kinds, ShellKinds, SftpKinds, FileGets, ShellPc, SftpPc, DirPc, TreePc
<1>4. StageOK(u)'
    BY <1>1, <1>2, <1>3 DEF StageOK, At
<1>5. LocalInv'
    BY <1>1, <1>2, LocalKept DEF Got, Moves
<1> QED BY <1>1, <1>4, <1>5, LocalOthers DEF LocalType

-----------------------------------------------------------------------------
(* The transfers together                                                  *)

Good == RemoteGood /\ LocalGood /\ DirGood

\* Only the owner of the source edits it.
LEMMA SourceKept ==
    ASSUME NEW u \in Proc, ShellNext(u) \/ SftpNext(u) \/ GetNext(u) \/ DirNext(u)
    PROVE  source' = source
<1>1. CASE ShellNext(u)
    <2>1. CASE ShellLocal(u)
        BY <2>1 DEF ShellLocal, PutOpen, ResumeOpen, CopyOpen, DirectOpen, Opened, ProbeSweep, ProbeInspect, ProbeCreate,
               ProbeMeta, ProbeDies, StartScript, StreamFails, SourceFails, WaitScript, DirectWait, DirectReread, DirectClose
    <2>2. CASE ShellRemote(u)
        BY <2>2 DEF ShellRemote, DirectConnect, Send, CloseStdin, InputEnds, ScriptOpen, ScriptVerify, ScriptCat, ScriptEOF,
               ScriptCheck, ScriptPublish, ScriptClean, ScriptKilled
    <2>3. CASE ShellDeadline(u) \/ DirectDeadline(u)
        BY <2>3 DEF ShellDeadline, DirectDeadline, Deadline
    <2> QED BY <1>1, <2>1, <2>2, <2>3 DEF ShellNext
<1>2. CASE SftpNext(u)
    BY <1>2 DEF SftpNext, SftpSteps, SftpOpen, SftpCreate, SftpWrite, SftpCheck, SftpReplace, SftpLstat, SftpAside,
           SftpMove, SftpRestore, SftpDropOld, SftpRefused, SftpCleanup, SftpDeadline, Deadline
<1>3. CASE GetNext(u)
    BY <1>3 DEF GetNext, GetSteps, GetOpen, GetRead, GetVerify, GetFails, GetPublish, GetCleanup, GetDeadline, Deadline
<1>4. CASE DirNext(u)
    BY <1>4 DEF DirNext, DirSteps, DirStage, DirReceive, DirRemoteEnds, DirLocalEnds, DirTakeRemote, DirTakeLocal,
           DirGrace, DirDecide, DirAside, DirPlace, DirRestore, DirDrop, DirCleanup, TreeOpen, TreeSend, TreeLocalEnds, TreeRemoteEnds,
           TreeGrace, TreeDecide, TreeWalk, DirDeadline, DirKilled, Deadline
<1> QED BY <1>1, <1>2, <1>3, <1>4

LEMMA ShellStepGood ==
    ASSUME Good, NEW u \in Proc, ShellStep(u)
    PROVE  Good'
<1>1. ShellNext(u) /\ UNCHANGED sftpVars /\ UNCHANGED localVars /\ UNCHANGED dirVars /\ RemoteGood /\ LocalGood /\ DirGood
    BY DEF ShellStep, Good
<1>2. RemoteGood' /\ source' = source
    BY <1>1, ShellNextKeeps, SourceKept
<1>3. CoreType /\ CoreType' /\ ProcInv' /\ faults' \in 0 .. MaxFaults
    BY <1>1, <1>2 DEF RemoteGood, CoreType
<1>4. Moves(u)
    BY <1>1, <1>3, ShellAlone, AloneMoves
<1>5. ~Kind(u, {"getdir", "putdir"}) /\ ~Kind(u, FileGets)
    BY <1>1, ShellIsShell DEF Kind, ShellKinds, FileGets
<1>6. DirGood' /\ LocalGood'
    BY <1>1, <1>2, <1>3, <1>4, <1>5, DirIdle, LocalIdle
<1> QED BY <1>2, <1>6 DEF Good

LEMMA SftpStepGood ==
    ASSUME Good, NEW u \in Proc, SftpStep(u)
    PROVE  Good'
<1>1. SftpNext(u) /\ UNCHANGED localVars /\ UNCHANGED dirVars /\ RemoteGood /\ LocalGood /\ DirGood
    BY DEF SftpStep, Good
<1>2. RemoteGood' /\ source' = source
    BY <1>1, SftpNextKeeps, SourceKept
<1>3. CoreType /\ ProcInv /\ CoreType' /\ ProcInv' /\ faults' \in 0 .. MaxFaults
    BY <1>1, <1>2 DEF RemoteGood, CoreType
<1>4. Moves(u)
    BY <1>1, <1>3, SftpAlone, AloneMoves
<1>5. ~Kind(u, {"getdir", "putdir"}) /\ ~Kind(u, FileGets)
    BY <1>1, <1>3, SftpIsSftp DEF Kind, SftpKinds, FileGets
<1>6. DirGood' /\ LocalGood'
    BY <1>1, <1>2, <1>3, <1>4, <1>5, DirIdle, LocalIdle
<1> QED BY <1>2, <1>6 DEF Good

LEMMA GetStepGood ==
    ASSUME Good, NEW u \in Proc, GetStep(u)
    PROVE  Good'
<1>1. GetNext(u) /\ UNCHANGED <<remoteVars, sftpVars>> /\ UNCHANGED dirVars /\ RemoteGood /\ LocalGood /\ DirGood
    BY DEF GetStep, Good
<1>2. LocalGood' /\ source' = source
    BY <1>1, GetNextKeeps, SourceKept
<1>3. CoreType /\ ProcInv /\ CoreType' /\ ProcInv' /\ faults' \in 0 .. MaxFaults
    BY <1>1, <1>2 DEF LocalGood, CoreType
<1>4. Moves(u)
    BY <1>1, <1>3, GetAlone, AloneMoves
<1>5. ~Kind(u, {"getdir", "putdir"}) /\ ~Kind(u, ShellKinds \cup SftpKinds)
    BY <1>1, <1>3, GetIsGet DEF Kind, SftpKinds, ShellKinds, FileGets
<1>6. DirGood' /\ RemoteGood'
    BY <1>1, <1>2, <1>3, <1>4, <1>5, DirIdle, RemoteIdle
<1> QED BY <1>2, <1>6 DEF Good

LEMMA DirStepGood ==
    ASSUME Good, NEW u \in Proc, DirStep(u)
    PROVE  Good'
<1>1. DirNext(u) /\ UNCHANGED <<remoteVars, sftpVars>> /\ UNCHANGED localVars /\ RemoteGood /\ LocalGood /\ DirGood
    BY DEF DirStep, Good
<1>2. DirGood' /\ source' = source
    BY <1>1, DirNextKeeps, SourceKept
<1>3. CoreType /\ ProcInv /\ CoreType' /\ ProcInv' /\ faults' \in 0 .. MaxFaults
    BY <1>1, <1>2 DEF DirGood, CoreType
<1>4. Moves(u)
    BY <1>1, <1>3, DirAlone, AloneMoves
<1>5. ~Kind(u, FileGets) /\ ~Kind(u, ShellKinds \cup SftpKinds)
    BY <1>1, <1>3, DirIsDir DEF Kind, SftpKinds, ShellKinds, FileGets
<1>6. LocalGood' /\ RemoteGood'
    BY <1>1, <1>2, <1>3, <1>4, <1>5, LocalIdle, RemoteIdle
<1> QED BY <1>2, <1>6 DEF Good

\* Nothing that is kept depends on the version the source holds now.
LEMMA QuietRemote ==
    ASSUME RemoteGood, CoreType', UNCHANGED <<proc, remoteVars, sftpVars>>
    PROVE  RemoteGood'
<1>1. UNCHANGED <<proc, data, at, script, pub, agent, posix, litter>> /\ CoreType'
    BY DEF remoteVars, sftpVars
<1>2. ProcInv' /\ ScriptType' /\ FileType'
    BY <1>1 DEF RemoteGood, ProcInv, ScriptType, FileType
<1>3. ScriptInv' /\ AgentInv'
    BY <1>1 DEF RemoteGood, ScriptInv, AgentInv, ScriptOK, AgentOK, Kind, At
<1>4. TmpInv' /\ Own'
    BY <1>1 DEF RemoteGood, TmpInv, TmpOK, Own, Kind, At, Up
<1>5. ContentInv'
    BY <1>1 DEF RemoteGood, ContentInv, Solo, Idle, ContentOK, PreviousFile, Kind, At, Written, MyPartial, Complete, Whole
<1> QED BY <1>1, <1>2, <1>3, <1>4, <1>5 DEF RemoteGood

LEMMA QuietLocal ==
    ASSUME LocalGood, CoreType', UNCHANGED <<proc, localVars>>
    PROVE  LocalGood'
<1>1. UNCHANGED <<proc, local, stage, staged, unremoved>> /\ CoreType'
    BY DEF localVars
<1> QED BY <1>1 DEF LocalGood, ProcInv, LocalType, StageInv, StageOK, LocalInv, Got, Kind, At, Whole

LEMMA QuietDir ==
    ASSUME DirGood, CoreType', UNCHANGED <<proc, dirVars>>
    PROVE  DirGood'
<1>1. UNCHANGED <<proc, dirs, ends>> /\ CoreType'
    BY DEF dirVars
<1>2. ProcInv' /\ DirType' /\ EndsInv'
    BY <1>1 DEF DirGood, ProcInv, DirType, EndsInv, EndsOK, Kind, At, AtEnd
<1>3. TreeInv'
    BY <1>1 DEF DirGood, TreeInv, TreeOK, Kind, At
<1> QED BY <1>1, <1>2, <1>3 DEF DirGood

LEMMA EnvironmentGood ==
    ASSUME Good, Environment
    PROVE  Good'
<1>1. RemoteGood /\ LocalGood /\ DirGood /\ CoreType
    BY DEF Good, DirGood
<1>2. CASE Edit /\ UNCHANGED <<remoteVars, sftpVars, localVars, dirVars>>
    <2>1. CoreType'
        BY <1>1, <1>2, TransferAssumption DEF CoreType, Edit, Version
    <2>2. UNCHANGED proc /\ UNCHANGED <<remoteVars, sftpVars>> /\ UNCHANGED localVars /\ UNCHANGED dirVars
        BY <1>2 DEF Edit
    <2> QED BY <1>1, <2>1, <2>2, QuietRemote, QuietLocal, QuietDir DEF Good
<1>3. ASSUME NEW u \in Proc, LoseLink(u), UNCHANGED <<remoteVars, sftpVars, localVars, dirVars>>
      PROVE  Good'
    <2>1. /\ proc' = [proc EXCEPT ![u].link = "closed"] /\ Fault /\ source' = source
          /\ UNCHANGED <<remoteVars, sftpVars>> /\ UNCHANGED localVars /\ UNCHANGED <<dirs, ends>>
        BY <1>3 DEF LoseLink, dirVars
    <2>2. Frame(u) /\ Goes(u, proc[u].pc, proc[u].result) /\ SameRead(u) /\ faults' \in 0 .. MaxFaults
        BY <1>1, <2>1, LinkStep, FaultType
    <2> QED BY <1>1, <1>3, <2>1, <2>2, RemoteLoseLink, DirLinkStep, LocalLinkStep DEF Good
<1>4. CASE DirSave /\ UNCHANGED <<remoteVars, sftpVars, localVars>>
    <2>1. DirGood' /\ UNCHANGED proc /\ UNCHANGED <<remoteVars, sftpVars>> /\ UNCHANGED localVars
        BY <1>1, <1>4, DirSaveKeeps DEF DirSave
    <2>2. CoreType'
        BY <2>1 DEF DirGood
    <2> QED BY <1>1, <2>1, <2>2, QuietRemote, QuietLocal DEF Good
<1> QED BY <1>2, <1>3, <1>4 DEF Environment

LEMMA StepGood ==
    ASSUME Good, [Next]_vars
    PROVE  Good'
<1>1. CASE UNCHANGED vars
    <2>1. UNCHANGED <<source, faults, proc>> /\ UNCHANGED <<remoteVars, sftpVars>> /\ UNCHANGED localVars /\ UNCHANGED dirVars
        BY <1>1 DEF vars
    <2>2. CoreType' /\ RemoteGood /\ LocalGood /\ DirGood
        BY <2>1 DEF Good, DirGood, CoreType
    <2> QED BY <2>1, <2>2, QuietRemote, QuietLocal, QuietDir DEF Good
<1> QED BY <1>1, ShellStepGood, SftpStepGood, GetStepGood, DirStepGood, EnvironmentGood DEF Next

LEMMA InitGood ==
    ASSUME Init
    PROVE  Good
<1>1. PICK mix \in Mixes : proc = [u \in Proc |-> ProcInit(mix[u])]
    BY DEF Init, CoreInit
<1>2. mix \in [Proc -> Kinds] /\ Blocks \in Nat \ {0} /\ MaxEdits \in Nat /\ MaxFaults \in Nat
    BY TransferAssumption
<1>3. /\ source = 1 /\ faults = 0 /\ ShellInit /\ SftpInit /\ GetInit /\ DirInit
    BY DEF Init, CoreInit
<1>4. 0 \in Version /\ source \in Version
    BY <1>2, <1>3 DEF Version
<1>5. \A u \in Proc : /\ proc[u].kind = mix[u] /\ mix[u] \in Kinds /\ proc[u].link = "up" /\ proc[u].late = FALSE
                      /\ proc[u].prefix = <<>> /\ proc[u].sent = <<>> /\ proc[u].result = "none"
                      /\ proc[u].pc \in {"start", "done"} /\ (proc[u].pc = "done" <=> mix[u] = "none")
    BY <1>1, <1>2 DEF ProcInit
<1>6. proc \in [Proc -> ProcRecord]
    <2>1. ASSUME NEW u \in Proc PROVE ProcInit(mix[u]) \in ProcRecord
        <3>1. mix[u] \in Kinds /\ 0 \in Version /\ "none" \in Results /\ <<>> \in Seq(Block)
            BY <1>2, <1>4 DEF Results
        <3> QED BY <3>1 DEF ProcInit, ProcRecord
    <2> QED BY <1>1, <2>1
<1>7. CoreType
    BY <1>2, <1>3, <1>4, <1>6 DEF CoreType
<1>8. ProcInv
    <2>1. ASSUME NEW u \in Proc PROVE ProcOK(proc[u])
        <3>1. Len(proc[u].prefix) + Len(proc[u].sent) =< Blocks
            <4>1. Len(proc[u].prefix) = 0 /\ Len(proc[u].sent) = 0
                BY <1>5
            <4> QED BY <1>2, <4>1
        <3>2. KindPc(proc[u].kind, proc[u].pc)
            BY <1>5 DEF KindPc, ShellKinds, SftpKinds, FileGets, ShellPc, SftpPc, GetPc, DirPc, TreePc
        <3> QED BY <1>5, <3>1, <3>2 DEF ProcOK
    <2> QED BY <2>1 DEF ProcInv
<1>9. DirGood
    <2>1. DirType
        <3>1. 0 \in Entry
            BY <1>2 DEF Entry
        <3> QED BY <1>3, <3>1 DEF DirInit, DirType, EndRecord
    <2>2. \A u \in Proc : ends[u].remote = "none" /\ ends[u].existed = FALSE /\ dirs.stage[u] = {} /\ dirs.back[u] = {}
        BY <1>3 DEF DirInit
    <2>3. EndsInv
        BY <1>5, <2>2 DEF EndsInv, EndsOK, Kind, At
    <2>4. ASSUME NEW u \in Proc PROVE 1 .. Len(proc[u].sent) \subseteq dirs.tree
        BY <1>5
    <2>5. TreeInv
        BY <1>5, <2>2, <2>4 DEF TreeInv, TreeOK, Kind, At
    <2> QED BY <1>7, <1>8, <2>1, <2>3, <2>5 DEF DirGood
<1>10. LocalGood
    <2>1. LocalType /\ \A u \in Proc : stage[u] = <<>> /\ u \notin staged
        <3>1. local \in Seq(Block)
            BY <1>3, <1>4, ContentIsWhole DEF GetInit
        <3> QED BY <1>3, <3>1 DEF GetInit, LocalType
    <2>2. StageInv
        BY <1>5, <2>1 DEF StageInv, StageOK, Kind, At
    <2>3. LocalInv
        BY <1>5 DEF LocalInv, Got
    <2> QED BY <1>7, <1>8, <2>1, <2>2, <2>3 DEF LocalGood
<1>11. RemoteGood
    <2>1. 1 \in Inode
        <3>1. Cardinality(Proc) \in Nat
            BY TransferAssumption, FS_CardinalityType
        <3> QED BY <1>2, <3>1 DEF Inode
    <2>2. /\ \A u \in Proc : /\ script[u].at = "idle" /\ script[u].fd = 0 /\ script[u].status = "none" /\ u \notin agent
                             /\ at.tmp[u] = 0 /\ at.old[u] = 0 /\ pub[u] = <<>>
          /\ \A v \in Version : at.partial[v] = 0
          /\ at.dest = 1 /\ data[1] = Content(0)
        BY <1>3, <2>1 DEF ShellInit
    <2>3. ScriptType
        BY <1>3 DEF ShellInit, ScriptType, ScriptRecord
    <2>4. FileType
        <3>1. Content(0) \in Seq(Block) /\ <<>> \in Seq(Block)
            BY <1>4, ContentIsWhole
        <3>2. data \in [Inode -> Seq(Block)]
            BY <1>3, <3>1 DEF ShellInit
        <3>3. pub \in [Proc -> Seq(Block)]
            BY <1>3, <3>1 DEF ShellInit
        <3>4. posix \in BOOLEAN /\ litter \subseteq Proc
            BY <1>3 DEF SftpInit
        <3> QED BY <1>3, <2>1, <3>2, <3>3, <3>4 DEF ShellInit, FileType
    <2>5. ScriptInv /\ AgentInv
        BY <1>5, <2>2 DEF ScriptInv, ScriptOK, AgentInv, AgentOK, Kind, At
    <2>6. TmpInv /\ Own
        BY <1>5, <2>2 DEF TmpInv, TmpOK, Own, Kind, At
    <2>7. Solo
        BY <1>5, <2>2 DEF Solo, Idle, At
    <2>8. PreviousFile
        BY <2>2 DEF PreviousFile
    <2>9. \A u \in Proc : ContentOK(u)
        BY <1>5, <2>2 DEF ContentOK, Kind, At
    <2> QED BY <1>7, <1>8, <2>3, <2>4, <2>5, <2>6, <2>7, <2>8, <2>9 DEF RemoteGood, ContentInv
<1> QED BY <1>9, <1>10, <1>11 DEF Good

-----------------------------------------------------------------------------
(* What is kept                                                            *)

LEMMA GoodAlways == Spec => []Good
<1>1. Good /\ [Next]_vars => Good'
    BY StepGood
<1> QED BY <1>1, InitGood, PTL DEF Spec

LEMMA GoodIsTyped == ASSUME Good PROVE TypeOK
BY DEF Good, RemoteGood, LocalGood, DirGood, TypeOK

\* Every variable of the transfers keeps its type; in particular the model of
\* the remote file system never runs out of file objects, so that CHOOSE always
\* finds an object no name and no open descriptor refers to.
THEOREM TransferTypeCorrect == Spec => []TypeOK
<1>1. Good => TypeOK
    BY GoodIsTyped
<1> QED BY <1>1, GoodAlways, PTL

\* superviseDirectoryDownload and uploadDirTar name a remote tar that exited
\* non-zero as the cause, whichever end was heard first and whatever the
\* deadline, the grace periods and the lost links did meanwhile.
THEOREM RemoteTarIsNamed == Spec => []RootCause
<1>1. Good => RootCause
    BY DEF Good, DirGood, EndsInv, EndsOK, RootCause, At
<1> QED BY <1>1, GoodAlways, PTL

LEMMA GoodLeavesNone == ASSUME Good PROVE NoLitter
<1> SUFFICES ASSUME NEW u \in Proc, At(u, "done")
             PROVE  /\ Kind(u, SftpKinds) /\ at.tmp[u] # 0 => u \in litter \/ (~Up(u) /\ proc[u].sent = <<>>)
                    /\ script[u].at = "exit" /\ script[u].status # "killed" => at.tmp[u] = 0
                    /\ u \in staged => u \in unremoved /\ proc[u].result # "ok"
                    /\ proc[u].result \notin {"killed", "restore_failed"} =>
                           /\ dirs.stage[u] # {} => u \in dirs.unremoved /\ proc[u].result # "ok"
                           /\ dirs.back[u] # {} => u \in dirs.unremoved /\ proc[u].result = "ok"
    BY DEF NoLitter
<1>1. TmpOK(u) /\ StageOK(u) /\ TreeOK(u)
    BY DEF Good, RemoteGood, LocalGood, DirGood, TmpInv, StageInv, TreeInv
<1>2. /\ Kind(u, SftpKinds) /\ at.tmp[u] # 0 => u \in litter \/ (~Up(u) /\ proc[u].sent = <<>>)
      /\ script[u].at = "exit" /\ script[u].status # "killed" => at.tmp[u] = 0
    BY <1>1 DEF TmpOK
<1>3. u \in staged => u \in unremoved /\ proc[u].result # "ok"
    BY <1>1 DEF StageOK, At
<1>4. proc[u].result \notin {"killed", "restore_failed"} =>
          /\ dirs.stage[u] # {} => u \in dirs.unremoved /\ proc[u].result # "ok"
          /\ dirs.back[u] # {} => u \in dirs.unremoved /\ proc[u].result = "ok"
    BY <1>1 DEF TreeOK, Kind
<1> QED BY <1>2, <1>3, <1>4

\* A transfer that came to its own end leaves no temporary file, staging file,
\* staging tree or backup, unless its script or process was killed, its
\* connection was gone, its error names what remains or the removal itself
\* failed; then only a backup stays after a success, only a staging copy after
\* a failure.
THEOREM NothingLeftBehind == Spec => []NoLitter
<1>1. Good => NoLitter
    BY GoodLeavesNone
<1> QED BY <1>1, GoodAlways, PTL

\* A step of an upload leaves the scripts of the others alone.
LEMMA ScriptAlone ==
    ASSUME ScriptType, NEW u \in Proc, ShellNext(u), NEW w \in Proc, w # u
    PROVE  script'[w] = script[w]
<1>1. CASE UNCHANGED script
    BY <1>1
<1>3. ASSUME NEW r, ScriptExit(u, r) PROVE script'[w] = script[w]
    BY <1>3 DEF ScriptExit, Store, ScriptType
<1>4. CASE PutOpen(u) \/ ResumeOpen(u) \/ CopyOpen(u) \/ DirectOpen(u)
    BY <1>1, <1>4 DEF PutOpen, ResumeOpen, CopyOpen, DirectOpen, Opened
<1>5. CASE ProbeSweep(u) \/ ProbeInspect(u) \/ ProbeCreate(u) \/ ProbeMeta(u) \/ ProbeDies(u)
    BY <1>1, <1>5 DEF ProbeSweep, ProbeInspect, ProbeCreate, ProbeMeta, ProbeDies, Store, remoteVars
<1>6. CASE StartScript(u) \/ DirectConnect(u) \/ Send(u) \/ CloseStdin(u) \/ InputEnds(u) \/ ScriptClean(u)
    BY <1>6 DEF StartScript, DirectConnect, Send, CloseStdin, InputEnds, ScriptClean, ScriptType
<1>7. CASE StreamFails(u) \/ SourceFails(u) \/ WaitScript(u) \/ DirectWait(u) \/ DirectReread(u) \/ DirectClose(u)
           \/ ShellDeadline(u) \/ DirectDeadline(u)
    BY <1>1, <1>7 DEF StreamFails, SourceFails, WaitScript, DirectWait, DirectReread, DirectClose, ShellDeadline,
                      DirectDeadline, remoteVars
<1>8. CASE ScriptOpen(u) \/ ScriptVerify(u) \/ ScriptCat(u)
    BY <1>3, <1>8 DEF ScriptOpen, ScriptVerify, ScriptCat, Store, ScriptType
<1>9. CASE ScriptEOF(u) \/ ScriptCheck(u) \/ ScriptPublish(u) \/ ScriptKilled(u)
    BY <1>3, <1>9 DEF ScriptEOF, ScriptCheck, ScriptPublish, ScriptKilled, Store, ScriptType
<1> QED BY <1>4, <1>5, <1>6, <1>7, <1>8, <1>9 DEF ShellNext, ShellLocal, ShellRemote

\* The source host's ssh of cp --direct goes on only with the key in its agent.
LEMMA OnlyKeyOpens ==
    ASSUME RemoteGood, NEW u \in Proc, ShellNext(u), script[u].at = "connect", script'[u].at = "open"
    PROVE  u \in agent
<1>1. ScriptType /\ CoreType /\ ScriptOK(u) /\ Kind(u, {"direct"}) /\ ~At(u, "session") /\ script'[u] # script[u]
    BY RemoteFacts DEF ScriptOK, At
<1>2. CASE DirectConnect(u)
    BY <1>1, <1>2 DEF DirectConnect, ScriptType, ScriptRecord
<1>3. ~(PutOpen(u) \/ ResumeOpen(u) \/ CopyOpen(u) \/ DirectOpen(u))
    BY <1>1 DEF PutOpen, ResumeOpen, CopyOpen, DirectOpen, Opened
<1>4. ~(ProbeSweep(u) \/ ProbeInspect(u) \/ ProbeCreate(u) \/ ProbeMeta(u) \/ ProbeDies(u))
    BY <1>1 DEF ProbeSweep, ProbeInspect, ProbeCreate, ProbeMeta, ProbeDies, Store, remoteVars
<1>5. ~(StartScript(u) \/ StreamFails(u) \/ SourceFails(u) \/ WaitScript(u) \/ DirectWait(u) \/ DirectReread(u)
        \/ DirectClose(u) \/ ShellDeadline(u) \/ DirectDeadline(u))
    BY <1>1 DEF StartScript, StreamFails, SourceFails, WaitScript, DirectWait, DirectReread, DirectClose, ShellDeadline,
                DirectDeadline, remoteVars
<1>6. ~(Send(u) \/ CloseStdin(u) \/ InputEnds(u))
    BY <1>1 DEF Send, CloseStdin, InputEnds, Feeding
<1>7. ~(ScriptOpen(u) \/ ScriptVerify(u) \/ ScriptCat(u) \/ ScriptEOF(u) \/ ScriptCheck(u) \/ ScriptPublish(u)
        \/ ScriptClean(u) \/ ScriptKilled(u))
    BY DEF ScriptOpen, ScriptVerify, ScriptCat, ScriptEOF, ScriptCheck, ScriptPublish, ScriptClean, ScriptKilled
<1> QED BY <1>2, <1>3, <1>4, <1>5, <1>6, <1>7 DEF ShellNext, ShellLocal, ShellRemote

\* An SFTP upload has no script.
LEMMA SftpNoScript ==
    ASSUME NEW u \in Proc, SftpNext(u)
    PROVE  script' = script
<1>1. CASE SftpOpen(u) \/ SftpCreate(u) \/ SftpWrite(u) \/ SftpCheck(u) \/ SftpReplace(u) \/ SftpLstat(u)
    BY <1>1 DEF SftpOpen, SftpCreate, SftpWrite, SftpCheck, SftpReplace, SftpLstat, Rename, Store, remoteVars
<1>2. CASE SftpAside(u) \/ SftpMove(u) \/ SftpRestore(u) \/ SftpDropOld(u) \/ SftpRefused(u) \/ SftpCleanup(u)
           \/ SftpDeadline(u)
    BY <1>2 DEF SftpAside, SftpMove, SftpRestore, SftpDropOld, SftpRefused, SftpCleanup, SftpDeadline, Rename, Store,
                remoteVars
<1> QED BY <1>1, <1>2 DEF SftpNext, SftpSteps

LEMMA KeyStep ==
    ASSUME Good, [Next]_vars, NEW w \in Proc, script[w].at = "connect", script'[w].at = "open"
    PROVE  ~At(w, "done") /\ ~proc[w].late
<1>1. RemoteGood /\ ScriptType /\ AgentOK(w)
    BY RemoteFacts DEF Good
<1>2. ~UNCHANGED script
    OBVIOUS
<1>3. PICK u \in Proc : ShellNext(u)
    <2>1. ~UNCHANGED remoteVars
        BY <1>2 DEF remoteVars
    <2> QED BY <1>2, <2>1, SftpNoScript DEF Next, vars, ShellStep, SftpStep, GetStep, DirStep, Environment
<1>4. w = u
    BY <1>1, <1>2, <1>3, ScriptAlone
<1>5. w \in agent
    BY <1>1, <1>3, <1>4, OnlyKeyOpens
<1> QED BY <1>1, <1>5 DEF AgentOK, At

\* The agent forwarded by cp --direct authenticates nothing after the copy
\* returned or its deadline fired: the deadline and every return empty it first.
THEOREM KeyIsReturned == Spec => KeyNotUsedAfterReturn
<1>1. Good /\ [Next]_vars =>
          [\A u \in Proc : script[u].at = "connect" /\ script'[u].at = "open" => ~At(u, "done") /\ ~proc[u].late]_vars
    BY KeyStep
<1> QED BY <1>1, GoodAlways, PTL DEF Spec, KeyNotUsedAfterReturn

\* The destination's name, given to a file that is whole.
Publishes(u) == pub'[u] # pub[u] /\ Whole(u, data'[at'.dest])

\* A file renamed over the destination keeps its content.
LEMMA RenamedIsWhole ==
    ASSUME FileType, NEW u \in Proc, NEW y \in Inode, NEW names, NEW scripts, Store(names, scripts, data), names.dest = y,
           Whole(u, data[y]), pub[u] = <<>>, pub' = [pub EXCEPT ![u] = data[y]]
    PROVE  Publishes(u)
<1>1. at'.dest = y /\ Writes(0)
    BY StoreSame
<1>2. Named(y)' /\ y # 0
    BY <1>1, AtFields DEF Named
<1>3. data'[y] = data[y]
    BY <1>1, <1>2 DEF Writes
<1>4. pub'[u] = data[y]
    BY DEF FileType
<1>5. Len(data[y]) = Blocks /\ Blocks # 0
    BY TransferAssumption DEF Whole
<1>6. data[y] # <<>>
    BY <1>5
<1> QED BY <1>1, <1>3, <1>4, <1>6 DEF Publishes

\* Only the last step of a script gives the destination's name.
LEMMA ShellDest ==
    ASSUME RemoteGood, ~Overlap, NEW u \in Proc, ShellNext(u), at'.dest # at.dest
    PROVE  Publishes(u)
<1>1. FileType /\ CoreType /\ ContentOK(u)
    BY RemoteFacts
<1>2. ~UNCHANGED at
    OBVIOUS
<1>3. ASSUME NEW r PROVE ~ScriptExit(u, r)
    BY <1>1 DEF ScriptExit, Store, FileType
<1>4. ASSUME NEW scripts, NEW d PROVE ~Store(at, scripts, d)
    BY DEF Store
<1>5. ~(PutOpen(u) \/ ResumeOpen(u) \/ CopyOpen(u) \/ DirectOpen(u))
    BY <1>2 DEF PutOpen, ResumeOpen, CopyOpen, DirectOpen, Opened
<1>6. ~(ProbeSweep(u) \/ ProbeInspect(u) \/ ProbeCreate(u) \/ ProbeMeta(u) \/ ProbeDies(u))
    BY <1>1, <1>2 DEF ProbeSweep, ProbeInspect, ProbeCreate, ProbeMeta, ProbeDies, Store, remoteVars, FileType
<1>7. ~(StartScript(u) \/ StreamFails(u) \/ SourceFails(u) \/ WaitScript(u) \/ DirectWait(u) \/ DirectReread(u)
        \/ DirectClose(u) \/ ShellDeadline(u) \/ DirectDeadline(u))
    BY <1>2 DEF StartScript, StreamFails, SourceFails, WaitScript, DirectWait, DirectReread, DirectClose, ShellDeadline,
                DirectDeadline, remoteVars
<1>8. ~(DirectConnect(u) \/ Send(u) \/ CloseStdin(u) \/ InputEnds(u))
    BY <1>2 DEF DirectConnect, Send, CloseStdin, InputEnds
<1>9. ~(ScriptOpen(u) \/ ScriptClean(u))
    BY <1>1, <1>3 DEF ScriptOpen, ScriptClean, Store, FileType
<1>10. ~(ScriptVerify(u) \/ ScriptCat(u) \/ ScriptEOF(u) \/ ScriptCheck(u) \/ ScriptKilled(u))
    BY <1>3, <1>4 DEF ScriptVerify, ScriptCat, ScriptEOF, ScriptCheck, ScriptKilled
<1>11. CASE ScriptPublish(u)
    <2> DEFINE y == Written(u)
    <2>1. /\ y # 0 /\ script[u].at = "publish" /\ pub' = [pub EXCEPT ![u] = data[y]]
          /\ \E names, scripts : Store(names, scripts, data) /\ names.dest = y
        <3>1. y # 0 /\ script[u].at = "publish" /\ pub' = [pub EXCEPT ![u] = data[y]]
            BY <1>3, <1>11 DEF ScriptPublish
        <3>2. \/ Store([at EXCEPT !.dest = y, !.partial[proc[u].hash] = 0], [script EXCEPT ![u].at = "clean"], data)
              \/ Store([at EXCEPT !.dest = y, !.tmp[u] = 0], [script EXCEPT ![u].at = "exit", ![u].status = "receipt"], data)
            BY <1>3, <1>11 DEF ScriptPublish
        <3> HIDE DEF y
        <3>3. /\ [at EXCEPT !.dest = y, !.partial[proc[u].hash] = 0].dest = y
              /\ [at EXCEPT !.dest = y, !.tmp[u] = 0].dest = y
            BY <1>1 DEF FileType
        <3> QED BY <3>1, <3>2, <3>3
    <2>2. Complete(u) /\ Kind(u, ShellKinds) /\ pub[u] = <<>>
        BY <1>1, <2>1, ScriptIsShell DEF ContentOK
    <2>3. y \in Inode
        BY <1>1, <2>1, WrittenIsNamed
    <2>4. Whole(u, data[y])
        BY <1>1, <2>2, CompleteIsWhole
    <2> HIDE DEF y
    <2> QED BY <1>1, <2>1, <2>2, <2>3, <2>4, RenamedIsWhole
<1> QED BY <1>5, <1>6, <1>7, <1>8, <1>9, <1>10, <1>11 DEF ShellNext, ShellLocal, ShellRemote

LEMMA SftpDest ==
    ASSUME RemoteGood, ~Overlap, NEW u \in Proc, SftpNext(u), at'.dest # at.dest
    PROVE  at'.dest = 0 \/ at'.dest = at.old[u] \/ Publishes(u)
<1>1. FileType /\ CoreType /\ ContentOK(u) /\ TmpOK(u)
    BY RemoteFacts
<1>2. ~UNCHANGED at
    OBVIOUS
<1>3. ASSUME NEW scripts, NEW d PROVE ~Store(at, scripts, d)
    BY DEF Store
<1>4. ~(SftpOpen(u) \/ SftpCreate(u) \/ SftpWrite(u) \/ SftpCheck(u) \/ SftpLstat(u))
    BY <1>1, <1>2, <1>3 DEF SftpOpen, SftpCreate, SftpWrite, SftpCheck, SftpLstat, Store, remoteVars, FileType
<1>5. ~(SftpDropOld(u) \/ SftpRefused(u) \/ SftpCleanup(u) \/ SftpDeadline(u))
    BY <1>1, <1>2 DEF SftpDropOld, SftpRefused, SftpCleanup, SftpDeadline, Store, remoteVars, FileType
<1>6. CASE SftpAside(u)
    BY <1>1, <1>2, <1>6 DEF SftpAside, Store, FileType
<1>7. CASE SftpRestore(u)
    BY <1>1, <1>2, <1>7 DEF SftpRestore, Store, FileType
<1>8. CASE SftpReplace(u) \/ SftpMove(u)
    <2> DEFINE y == at.tmp[u]
               names == [at EXCEPT !.dest = y, !.tmp[u] = 0]
    <2>1. proc[u].pc \in {"rename", "move"} /\ Store(names, script, data) /\ pub' = [pub EXCEPT ![u] = data[y]]
        BY <1>2, <1>8 DEF SftpReplace, SftpMove, Rename, At
    <2>2. y \in Inode
        BY <1>1, <2>1, AtFields DEF TmpOK
    <2>3. Whole(u, data[y]) /\ pub[u] = <<>>
        BY <1>1, <2>1 DEF ContentOK
    <2>4. names.dest = y
        BY <1>1 DEF FileType
    <2> HIDE DEF names, y
    <2> QED BY <1>1, <2>1, <2>2, <2>3, <2>4, RenamedIsWhole
<1> QED BY <1>4, <1>5, <1>6, <1>7, <1>8 DEF SftpNext, SftpSteps

LEMMA LocalPublishes ==
    ASSUME LocalGood, NEW u \in Proc, GetNext(u), local' # local
    PROVE  u \in staged \ staged' /\ Whole(u, local')
<1>1. CoreType /\ ProcInv /\ StageOK(u)
    BY DEF LocalGood, StageInv
<1>2. At(u, "publish") /\ local' = stage[u] /\ Unstage(u)
    BY DEF GetNext, GetSteps, GetOpen, GetRead, GetVerify, GetFails, GetPublish, GetCleanup, GetDeadline, localVars
<1>3. Kind(u, FileGets) /\ proc[u].pc = "publish"
    BY <1>1, <1>2, PcKind DEF At
<1> QED BY <1>1, <1>2, <1>3 DEF StageOK, Unstage

LEMMA WholeStep ==
    ASSUME Good, ~Overlap, [Next]_vars
    PROVE  /\ at'.dest # at.dest => \/ at'.dest = 0
                                    \/ \E u \in Proc : at'.dest = at.old[u]
                                    \/ \E u \in Proc : pub'[u] # pub[u] /\ Whole(u, data'[at'.dest])
           /\ local' # local => \E u \in staged \ staged' : Whole(u, local')
<1>1. RemoteGood /\ LocalGood
    BY DEF Good
<1>2. ASSUME at'.dest # at.dest
      PROVE  \/ at'.dest = 0
             \/ \E u \in Proc : at'.dest = at.old[u]
             \/ \E u \in Proc : pub'[u] # pub[u] /\ Whole(u, data'[at'.dest])
    <2>1. ~UNCHANGED remoteVars
        BY <1>2 DEF remoteVars
    <2>2. PICK u \in Proc : ShellNext(u) \/ SftpNext(u)
        BY <2>1 DEF Next, vars, ShellStep, SftpStep, GetStep, DirStep, Environment
    <2> QED BY <1>1, <1>2, <2>2, ShellDest, SftpDest DEF Publishes
<1>3. ASSUME local' # local
      PROVE  \E u \in staged \ staged' : Whole(u, local')
    <2>1. ~UNCHANGED localVars
        BY <1>3 DEF localVars
    <2>2. PICK u \in Proc : GetNext(u)
        BY <2>1 DEF Next, vars, ShellStep, SftpStep, GetStep, DirStep, Environment
    <2> QED BY <1>1, <1>3, <2>2, LocalPublishes
<1> QED BY <1>2, <1>3

\* Uploads and downloads change what the destination's name refers to only to a
\* file that is whole at that moment, or to none or the previous one while the
\* SFTP upload replaces it without posix-rename.
THEOREM OnlyWholeIsPublished ==
    ASSUME ~Overlap
    PROVE  Spec => PublishesWhole
<1>1. Good /\ [Next]_vars =>
          [/\ at'.dest # at.dest => \/ at'.dest = 0
                                    \/ \E u \in Proc : at'.dest = at.old[u]
                                    \/ \E u \in Proc : pub'[u] # pub[u] /\ Whole(u, data'[at'.dest])
           /\ local' # local => \E u \in staged \ staged' : Whole(u, local')]_vars
    BY WholeStep
<1> QED BY <1>1, GoodAlways, PTL DEF Spec, PublishesWhole

-----------------------------------------------------------------------------
(* The entry that was in the local tree                                    *)

\* No more than two directory downloads into one tree at a time.
TwoDownloads ==
    \A mix \in Mixes : \A u, v, w \in Proc :
        mix[u] = "getdir" /\ mix[v] = "getdir" /\ mix[w] = "getdir" => u = v \/ u = w \/ v = w

PairInv ==
    \A u, v, w \in Proc : Kind(u, {"getdir"}) /\ Kind(v, {"getdir"}) /\ Kind(w, {"getdir"}) => u = v \/ u = w \/ v = w

Staging == {"tar", "treeAside", "place", "putTree"}
SameExisted == \A w \in Proc : ends'[w].existed = ends[w].existed

LEMMA EntryStep ==
    ASSUME EntryInv, NEW u \in Proc, Alone(u), DirFrame(u), \A w \in Proc : w # u => ends'[w].existed = ends[w].existed,
           Kind(u, {"getdir"}) /\ ~At(u, "start") => proc'[u].pc # "start",
           dirs.first # {} =>
               /\ \/ 0 \in dirs'.dest
                  \/ 0 \in dirs'.back[u] /\ proc'[u].pc \in Keeping
                  \/ 0 \notin dirs.dest /\ (0 \in dirs.back[u] /\ proc[u].pc \in Keeping =>
                                                0 \in dirs'.back[u] /\ proc'[u].pc \in Keeping)
               /\ 0 \notin dirs'.dest /\ dirs'.dest # {} => TwoBegan \/ TwoBegan'
               /\ proc'[u].pc \in Swapping /\ 0 \notin dirs'.back[u] /\ dirs'.back[u] # {} => TwoBegan \/ TwoBegan'
               /\ proc'[u].pc \in Staging /\ ends'[u].existed => 0 \in dirs'.stage[u]
    PROVE  EntryInv'
<1>1. TwoBegan => TwoBegan'
    BY DEF TwoBegan, Alone, Kind, At
<1>2. dirs'.first = dirs.first /\ dirs.first \subseteq {0}
    BY DEF DirFrame, EntryInv
<1>3. \A w \in Proc : w # u => /\ proc'[w] = proc[w] /\ dirs'.stage[w] = dirs.stage[w] /\ dirs'.back[w] = dirs.back[w]
                               /\ ends'[w].existed = ends[w].existed
    BY DEF Alone, DirFrame
<1>4. ASSUME dirs.first # {}
      PROVE  0 \in dirs'.dest \/ \E w \in Proc : 0 \in dirs'.back[w] /\ proc'[w].pc \in Keeping
    <2>1. 0 \in dirs.dest \/ \E w \in Proc : 0 \in dirs.back[w] /\ proc[w].pc \in Keeping
        BY <1>4 DEF EntryInv
    <2> QED BY <1>3, <1>4, <2>1
<1>5. ASSUME dirs.first # {}, NEW w \in Proc, proc'[w].pc \in Swapping, 0 \notin dirs'.back[w], dirs'.back[w] # {}
      PROVE  TwoBegan'
    BY <1>1, <1>3, <1>5 DEF EntryInv
<1>6. ASSUME dirs.first # {}, NEW w \in Proc, proc'[w].pc \in Staging, ends'[w].existed
      PROVE  0 \in dirs'.stage[w]
    BY <1>3, <1>6 DEF EntryInv, Staging
<1> QED BY <1>1, <1>2, <1>4, <1>5, <1>6 DEF EntryInv, Staging

\* A step that moves neither the tree nor a backup.
LEMMA EntryQuiet ==
    ASSUME EntryInv, NEW u \in Proc, Alone(u), DirFrame(u), NEW S, TreeIs(u, dirs.dest, S, dirs.back[u]), SameExisted,
           Kind(u, {"getdir"}) /\ ~At(u, "start") => proc'[u].pc # "start",
           proc'[u].pc = proc[u].pc \/ proc'[u].pc \in Keeping \/ dirs.back[u] = {},
           proc'[u].pc \in Swapping => proc[u].pc \in Swapping \/ dirs.back[u] = {},
           proc'[u].pc \in Staging => proc[u].pc \in Staging /\ dirs.stage[u] \subseteq S
    PROVE  EntryInv'
<1>1. /\ dirs'.dest = dirs.dest /\ dirs'.stage[u] = S /\ dirs'.back[u] = dirs.back[u]
      /\ \A w \in Proc : ends'[w].existed = ends[w].existed
    BY DEF TreeIs, SameExisted
<1>2. ASSUME dirs.first # {}
      PROVE  /\ 0 \notin dirs'.dest /\ dirs'.dest # {} => TwoBegan \/ TwoBegan'
             /\ proc'[u].pc \in Swapping /\ 0 \notin dirs'.back[u] /\ dirs'.back[u] # {} => TwoBegan \/ TwoBegan'
             /\ proc'[u].pc \in Staging /\ ends'[u].existed => 0 \in dirs'.stage[u]
    BY <1>1, <1>2 DEF EntryInv, Staging
<1> QED BY <1>1, <1>2, EntryStep

\* The steps of the transfers that have no copy of the local tree.
LEMMA EntryIdle ==
    ASSUME DirGood, DirGood', EntryInv, NEW u \in Proc, Alone(u), ~Kind(u, {"getdir"}), SameExisted,
           dirs'.first = dirs.first, dirs'.dest = dirs.dest, dirs'.stage = dirs.stage, dirs'.back = dirs.back,
           dirs.tree \subseteq dirs'.tree, dirs'.unremoved = dirs.unremoved
    PROVE  EntryInv'
<1>1. TreeOK(u) /\ CoreType' /\ ProcInv' /\ DirType'
    BY DEF DirGood, TreeInv
<1>2. DirFrame(u) /\ TreeIs(u, dirs.dest, dirs.stage[u], dirs.back[u])
    BY <1>1 DEF DirFrame, TreeIs, DirType
<1>3. dirs.back[u] = {}
    BY <1>1 DEF TreeOK
<1>4. proc'[u].pc \notin Staging
    <2>1. KindPc(proc'[u].kind, proc'[u].pc) /\ proc'[u].kind # "getdir" /\ proc'[u].kind \in Kinds
        BY <1>1 DEF ProcInv, ProcOK, Alone, Kind, CoreType, ProcRecord
    <2> QED BY <2>1 DEF KindPc, Kinds, ShellKinds, SftpKinds, FileGets, ShellPc, SftpPc, GetPc, TreePc, Staging
<1> QED BY <1>2, <1>3, <1>4, EntryQuiet

LEMMA PutdirKeepsTree ==
    ASSUME DirGood, NEW u \in Proc,
           TreeOpen(u) \/ TreeSend(u) \/ TreeLocalEnds(u) \/ TreeRemoteEnds(u) \/ TreeGrace(u) \/ TreeDecide(u) \/ TreeWalk(u)
    PROVE  /\ SameExisted /\ dirs'.first = dirs.first /\ dirs'.dest = dirs.dest /\ dirs'.stage = dirs.stage
           /\ dirs'.back = dirs.back /\ dirs.tree \subseteq dirs'.tree /\ dirs'.unremoved = dirs.unremoved
<1>1. DirType
    BY DEF DirGood
<1>2. \/ dirs' = dirs
      \/ dirs' = [dirs EXCEPT !.tree = @ \cup {NextEntry(u)}]
    BY DEF TreeOpen, TreeSend, TreeLocalEnds, TreeRemoteEnds, TreeGrace, TreeDecide, TreeWalk, dirVars
<1>3. /\ dirs'.first = dirs.first /\ dirs'.dest = dirs.dest /\ dirs'.stage = dirs.stage
      /\ dirs'.back = dirs.back /\ dirs.tree \subseteq dirs'.tree /\ dirs'.unremoved = dirs.unremoved
    BY <1>1, <1>2 DEF DirType
<1>4. CASE ends' = ends
    BY <1>3, <1>4 DEF SameExisted
<1>5. CASE ends' = BothRun(u)
    BY <1>1, <1>3, <1>5 DEF BothRun, SameExisted, DirType, EndRecord
<1>6. CASE TreeLocalEnds(u)
    <2>1. PICK h \in {"ok", "fail"} : End(u, "local", h)
        BY <1>6 DEF TreeLocalEnds
    <2>2. EndFrame(u) /\ EndIs(u, ends[u].remote, h, ends[u].took, ends[u].existed)
        BY <1>1, <2>1, EndedLocal
    <2> QED BY <1>3, <2>2 DEF EndFrame, EndIs, SameExisted
<1>7. CASE TreeRemoteEnds(u)
    <2>1. PICK h \in {"ok", "exit", "lost"} : End(u, "remote", h)
        BY <1>7 DEF TreeRemoteEnds
    <2>2. EndFrame(u) /\ EndIs(u, h, ends[u].local, ends[u].took, ends[u].existed)
        BY <1>1, <2>1, EndedRemote
    <2> QED BY <1>3, <2>2 DEF EndFrame, EndIs, SameExisted
<1>8. CASE TreeOpen(u) \/ TreeSend(u) \/ TreeGrace(u) \/ TreeDecide(u) \/ TreeWalk(u)
    BY <1>3, <1>4, <1>5, <1>8 DEF TreeOpen, TreeSend, TreeGrace, TreeDecide, TreeWalk, dirVars
<1> QED BY <1>3, <1>6, <1>7, <1>8

\* The tars of a download.
LEMMA TarKeepsEntry ==
    ASSUME DirGood, EntryInv, NEW u \in Proc,
           \/ DirReceive(u) \/ DirRemoteEnds(u) \/ DirLocalEnds(u) \/ DirTakeRemote(u) \/ DirTakeLocal(u) \/ DirGrace(u)
           \/ DirDeadline(u)
    PROVE  EntryInv'
<1>1. CoreType /\ ProcInv /\ DirType /\ proc[u].pc = "tar"
    BY DEF DirGood, DirReceive, DirRemoteEnds, DirLocalEnds, DirTakeRemote, DirTakeLocal, DirGrace, DirDeadline, At
<1>2. Alone(u)
    BY <1>1, DirAlone DEF DirNext, DirSteps
<1>3. proc'[u].pc = "tar"
    <2>1. CASE proc' = proc
        BY <1>1, <2>1
    <2>2. CASE proc' = Sent(u) \/ proc' = [proc EXCEPT ![u].link = "closed"]
               \/ proc' = [proc EXCEPT ![u].late = TRUE, ![u].link = "closed"]
        BY <1>1, <2>2 DEF Sent, CoreType, ProcRecord
    <2> QED BY <2>1, <2>2
            DEF DirReceive, DirRemoteEnds, DirLocalEnds, DirTakeRemote, DirTakeLocal, DirGrace, DirDeadline, Deadline
<1>4. SameExisted
    <2>1. CASE ends' = ends
        BY <2>1 DEF SameExisted
    <2>2. CASE DirRemoteEnds(u)
        <3>1. PICK h \in {"ok", "exit", "lost"} : End(u, "remote", h)
            BY <2>2 DEF DirRemoteEnds
        <3>2. EndFrame(u) /\ EndIs(u, h, ends[u].local, ends[u].took, ends[u].existed)
            BY <1>1, <3>1, EndedRemote
        <3> QED BY <3>2 DEF EndFrame, EndIs, SameExisted
    <2>3. CASE DirLocalEnds(u)
        <3>1. PICK h \in {"ok", "fail"} : End(u, "local", h)
            BY <2>3 DEF DirLocalEnds
        <3>2. EndFrame(u) /\ EndIs(u, ends[u].remote, h, ends[u].took, ends[u].existed)
            BY <1>1, <3>1, EndedLocal
        <3> QED BY <3>2 DEF EndFrame, EndIs, SameExisted
    <2>4. CASE DirTakeRemote(u)
        BY <1>1, <2>4 DEF DirTakeRemote, DirType, EndRecord, SameExisted
    <2>5. CASE DirTakeLocal(u)
        <3>1. EndFrame(u) /\ EndIs(u, ends[u].remote, ends[u].local, "local", ends[u].existed)
            BY <1>1, <2>5, EndedTook DEF DirTakeLocal
        <3> QED BY <3>1 DEF EndFrame, EndIs, SameExisted
    <2>6. CASE DirDeadline(u)
        <3>1. Killed(u) \in {"none", "run", "ok", "fail"}
            BY <1>1, EndFields DEF Killed
        <3>2. EndFrame(u) /\ EndIs(u, ends[u].remote, Killed(u), ends[u].took, ends[u].existed)
            BY <1>1, <2>6, <3>1, EndedLocal DEF DirDeadline
        <3> QED BY <3>2 DEF EndFrame, EndIs, SameExisted
    <2> QED BY <2>1, <2>2, <2>3, <2>4, <2>5, <2>6 DEF DirReceive, DirGrace, dirVars
<1>5. CASE dirs' = dirs
    <2>1. DirFrame(u) /\ TreeIs(u, dirs.dest, dirs.stage[u], dirs.back[u])
        BY <1>1, <1>5, DirsKept
    <2> QED BY <1>1, <1>2, <1>3, <1>4, <2>1, EntryQuiet DEF Staging, Swapping
<1>6. CASE DirReceive(u)
    <2> DEFINE S == dirs.stage[u] \cup {NextEntry(u)}
    <2>1. S \in SUBSET Entry /\ dirs' = [dirs EXCEPT !.stage[u] = S]
        BY <1>1, <1>6, EntryInRange DEF DirReceive, DirType
    <2>2. dirs.stage[u] \subseteq S
        OBVIOUS
    <2> HIDE DEF S
    <2>3. DirFrame(u) /\ TreeIs(u, dirs.dest, S, dirs.back[u])
        BY <1>1, <2>1, StageSet
    <2> QED BY <1>1, <1>2, <1>3, <1>4, <2>2, <2>3, EntryQuiet DEF Staging, Swapping
<1> QED BY <1>5, <1>6 DEF DirRemoteEnds, DirLocalEnds, DirTakeRemote, DirTakeLocal, DirGrace, DirDeadline, dirVars

\* A download that gives up.
LEMMA FailKeepsEntry ==
    ASSUME DirGood, EntryInv, NEW u \in Proc, NEW r, GiveUp(u, r), ends' = ends, dirs' = dirs
    PROVE  EntryInv'
<1>1. CoreType /\ DirType
    BY DEF DirGood
<1>2. Alone(u) /\ proc'[u].pc = "cleanup"
    BY <1>1, AloneIs DEF GiveUp, CoreType, ProcRecord
<1>3. DirFrame(u) /\ TreeIs(u, dirs.dest, dirs.stage[u], dirs.back[u]) /\ SameExisted
    BY <1>1, DirsKept DEF SameExisted
<1> QED BY <1>2, <1>3, EntryQuiet DEF Keeping, Swapping, Staging

LEMMA DirStageKeepsEntry ==
    ASSUME DirGood, PairInv, EntryInv, NEW u \in Proc, DirStage(u)
    PROVE  EntryInv'
<1>1. CoreType /\ DirType /\ proc[u].pc = "start" /\ Kind(u, {"getdir"}) /\ TreeOK(u) /\ Alone(u)
    BY DirAlone DEF DirGood, TreeInv, DirStage, At, DirNext, DirSteps
<1>2. dirs.back[u] = {}
    BY <1>1 DEF TreeOK, At
\* Were the tree without the entry, two other downloads would have begun.
<1>3. ~TwoBegan
    <2>1. \A v \in Proc : ~At(v, "start") => v # u
        BY <1>1 DEF At
    <2> QED BY <1>1, <2>1 DEF TwoBegan, PairInv
<1>4. dirs.first # {} /\ dirs.dest # {} => 0 \in dirs.dest
    BY <1>3 DEF EntryInv
<1>5. CASE /\ dirs' = [dirs EXCEPT !.stage[u] = dirs.dest]
           /\ ends' = [BothRun(u) EXCEPT ![u].existed = (dirs.dest # {})] /\ Step(u, "tar")
    <2>1. DirFrame(u) /\ TreeIs(u, dirs.dest, dirs.dest, dirs.back[u])
        BY <1>1, <1>5, StageSet DEF DirType
    <2>2. dirs'.dest = dirs.dest /\ dirs'.stage[u] = dirs.dest /\ dirs'.back[u] = {}
        BY <1>2, <2>1 DEF TreeIs
    <2>3. \A w \in Proc : w # u => ends'[w].existed = ends[w].existed
        BY <1>1, <1>5 DEF BothRun, DirType
    <2>4. ends'[u].existed <=> dirs.dest # {}
        BY <1>1, <1>5 DEF BothRun, DirType, EndRecord
    <2>5. proc'[u].pc = "tar"
        BY <1>1, <1>5 DEF Step, CoreType, ProcRecord
    <2>6. ASSUME dirs.first # {}
          PROVE  /\ \/ 0 \in dirs'.dest
                    \/ 0 \notin dirs.dest /\ 0 \notin dirs.back[u]
                 /\ 0 \notin dirs'.dest /\ dirs'.dest # {} => TwoBegan \/ TwoBegan'
                 /\ dirs'.back[u] = {}
                 /\ proc'[u].pc \in Staging /\ ends'[u].existed => 0 \in dirs'.stage[u]
        BY <1>2, <1>4, <2>2, <2>4, <2>6
    <2> QED BY <1>1, <2>1, <2>3, <2>5, <2>6, EntryStep
<1>6. CASE dirs' = [dirs EXCEPT !.stage[u] = dirs.dest] /\ GiveUp(u, "dial") /\ UNCHANGED ends
    <2>1. DirFrame(u) /\ TreeIs(u, dirs.dest, dirs.dest, dirs.back[u]) /\ SameExisted
        BY <1>1, <1>6, StageSet DEF DirType, SameExisted
    <2>2. proc'[u].pc = "cleanup"
        BY <1>1, <1>6 DEF GiveUp, CoreType, ProcRecord
    <2> QED BY <1>1, <2>1, <2>2, EntryQuiet DEF Keeping, Swapping, Staging
<1> QED BY <1>5, <1>6 DEF DirStage

LEMMA DirDecideKeepsEntry ==
    ASSUME DirGood, EntryInv, NEW u \in Proc, DirDecide(u)
    PROVE  EntryInv'
<1>1. CoreType /\ DirType /\ proc[u].pc = "tar" /\ TreeOK(u) /\ Alone(u) /\ ends' = ends /\ dirs' = dirs
    BY DirAlone DEF DirGood, TreeInv, DirDecide, At, DirNext, DirSteps, dirVars
<1>2. dirs.back[u] = {} /\ SameExisted
    BY <1>1 DEF TreeOK, At, SameExisted
<1>3. CASE \E r : GiveUp(u, r)
    BY <1>1, <1>3, FailKeepsEntry
<1>4. CASE Step(u, IF ends[u].existed THEN "treeAside" ELSE "place")
    <2>1. DirFrame(u) /\ TreeIs(u, dirs.dest, dirs.stage[u], dirs.back[u])
        BY <1>1, <1>4, DirsKept
    <2>2. proc'[u].pc \in {"treeAside", "place"}
        BY <1>1, <1>4 DEF Step, CoreType, ProcRecord
    <2> QED BY <1>1, <1>2, <2>1, <2>2, EntryQuiet DEF Staging
<1> QED BY <1>3, <1>4 DEF DirDecide

LEMMA DirAsideKeepsEntry ==
    ASSUME DirGood, EntryInv, NEW u \in Proc, DirAside(u)
    PROVE  EntryInv'
<1>1. CoreType /\ DirType /\ proc[u].pc = "treeAside" /\ Alone(u) /\ ends' = ends
    BY DirAlone DEF DirGood, DirAside, At, DirNext, DirSteps
<1>2. CASE GiveUp(u, "publish") /\ UNCHANGED dirs
    BY <1>1, <1>2, FailKeepsEntry
<1>3. CASE dirs.dest # {} /\ dirs' = [dirs EXCEPT !.back[u] = dirs.dest, !.dest = {}] /\ Step(u, "place")
    <2>1. DirFrame(u) /\ dirs'.dest = {} /\ dirs'.back[u] = dirs.dest /\ dirs'.stage[u] = dirs.stage[u]
        BY <1>1, <1>3 DEF DirType, DirFrame
    <2>2. proc'[u].pc = "place" /\ proc[u].pc \notin Keeping /\ proc'[u].pc \in Keeping
        BY <1>1, <1>3 DEF Step, CoreType, ProcRecord, Keeping, Swapping
    <2>3. ASSUME dirs.first # {}
          PROVE  /\ 0 \notin dirs'.back[u] /\ dirs'.back[u] # {} => TwoBegan
                 /\ ends'[u].existed => 0 \in dirs'.stage[u]
        BY <1>1, <2>1, <2>3 DEF EntryInv
    <2> QED BY <1>1, <2>1, <2>2, <2>3, EntryStep
<1> QED BY <1>2, <1>3 DEF DirAside

LEMMA DirPlaceKeepsEntry ==
    ASSUME DirGood, EntryInv, NEW u \in Proc, DirPlace(u)
    PROVE  EntryInv'
<1>1. /\ CoreType /\ ProcInv /\ DirType /\ proc[u].pc = "place" /\ Alone(u) /\ ends' = ends /\ TreeOK(u) /\ Kind(u, {"getdir"})
    BY DirAlone, PcKind DEF DirGood, TreeInv, DirPlace, At, DirNext, DirSteps
<1>2. CASE GiveUp(u, "publish") /\ UNCHANGED dirs
    BY <1>1, <1>2, FailKeepsEntry
<1>3. CASE Step(u, "putTree") /\ UNCHANGED dirs
    <2>1. DirFrame(u) /\ TreeIs(u, dirs.dest, dirs.stage[u], dirs.back[u]) /\ SameExisted
        BY <1>1, <1>3, DirsKept DEF SameExisted
    <2>2. proc'[u].pc = "putTree"
        BY <1>1, <1>3 DEF Step, CoreType, ProcRecord
    <2> QED BY <1>1, <2>1, <2>2, EntryQuiet DEF Staging, Keeping, Swapping
<1>4. CASE dirs.dest = {} /\ dirs' = [dirs EXCEPT !.dest = dirs.stage[u], !.stage[u] = {}] /\ Step(u, "drop")
    <2>1. DirFrame(u) /\ dirs'.dest = dirs.stage[u] /\ dirs'.back[u] = dirs.back[u] /\ dirs'.stage[u] = {}
        BY <1>1, <1>4 DEF DirType, DirFrame
    <2>2. proc'[u].pc = "drop" /\ proc'[u].pc \notin Staging /\ proc'[u].pc \notin Swapping
        BY <1>1, <1>4 DEF Step, CoreType, ProcRecord, Staging, Swapping
    <2>3. ASSUME dirs.first # {}
          PROVE  /\ \/ 0 \in dirs'.dest
                    \/ 0 \notin dirs.dest /\ 0 \notin dirs.back[u]
                 /\ 0 \notin dirs'.dest => TwoBegan
        <3>2. CASE ends[u].existed
            BY <1>1, <2>1, <2>3, <3>2 DEF EntryInv
        <3>3. CASE ~ends[u].existed
            <4>1. dirs.back[u] = {} /\ 0 \notin dirs.dest
                BY <1>1, <1>4, <3>3 DEF TreeOK
            <4>2. PICK w \in Proc : 0 \in dirs.back[w]
                BY <2>3, <4>1 DEF EntryInv
            <4>3. TreeOK(w) /\ w # u
                BY <4>1, <4>2 DEF DirGood, TreeInv
            <4>4. Kind(w, {"getdir"}) /\ ~At(w, "start")
                BY <4>2, <4>3 DEF TreeOK
            <4>5. TwoBegan
                BY <1>1, <4>3, <4>4 DEF TwoBegan, At
            <4> QED BY <4>1, <4>5
        <3> QED BY <3>2, <3>3
    <2> QED BY <1>1, <2>1, <2>2, <2>3, EntryStep
<1> QED BY <1>2, <1>3, <1>4 DEF DirPlace

LEMMA DirRestoreKeepsEntry ==
    ASSUME DirGood, EntryInv, NEW u \in Proc, DirRestore(u)
    PROVE  EntryInv'
<1>1. CoreType /\ DirType /\ proc[u].pc = "putTree" /\ Alone(u) /\ ends' = ends
    BY DirAlone DEF DirGood, DirRestore, At, DirNext, DirSteps
<1>2. CASE GiveUp(u, "restore_failed") /\ UNCHANGED dirs
    BY <1>1, <1>2, FailKeepsEntry
<1>3. CASE /\ dirs.dest = {} /\ GiveUp(u, "publish")
           /\ dirs' = [dirs EXCEPT !.dest = dirs.back[u], !.back[u] = {}]
    <2>1. DirFrame(u) /\ dirs'.dest = dirs.back[u] /\ dirs'.back[u] = {}
        BY <1>1, <1>3 DEF DirType, DirFrame
    <2>2. proc'[u].pc = "cleanup" /\ proc'[u].pc \notin Staging /\ proc[u].pc \in Swapping
        BY <1>1, <1>3 DEF GiveUp, CoreType, ProcRecord, Staging, Swapping
    <2>3. ASSUME dirs.first # {}
          PROVE  /\ \/ 0 \in dirs'.dest
                    \/ 0 \notin dirs.dest /\ 0 \notin dirs.back[u]
                 /\ 0 \notin dirs'.dest /\ dirs'.dest # {} => TwoBegan
        BY <1>3, <2>1, <2>2, <2>3 DEF EntryInv
    <2> QED BY <1>1, <2>1, <2>2, <2>3, EntryStep
<1> QED BY <1>2, <1>3 DEF DirRestore

LEMMA DirDropKeepsEntry ==
    ASSUME DirGood, EntryInv, NEW u \in Proc, DirDrop(u)
    PROVE  EntryInv'
<1>1. CoreType /\ DirType /\ proc[u].pc = "drop" /\ Alone(u) /\ ends' = ends /\ Finish(u, "ok")
    BY DirAlone DEF DirGood, DirDrop, At, DirNext, DirSteps
<1>2. DirFrame(u) /\ dirs'.dest = dirs.dest
    BY <1>1, DroppedFrame
<1>3. proc'[u].pc = "done" /\ proc'[u].pc \notin Staging \cup Swapping /\ proc[u].pc \notin Keeping
    BY <1>1 DEF Finish, CoreType, ProcRecord, Staging, Swapping, Keeping
<1>4. dirs.first # {} => (0 \notin dirs'.dest /\ dirs'.dest # {} => TwoBegan)
    BY <1>2 DEF EntryInv
<1> QED BY <1>1, <1>2, <1>3, <1>4, EntryStep

LEMMA DirCleanupKeepsEntry ==
    ASSUME DirGood, EntryInv, NEW u \in Proc, DirCleanup(u)
    PROVE  EntryInv'
<1>1. CoreType /\ DirType /\ proc[u].pc = "cleanup" /\ Alone(u) /\ ends' = ends /\ Step(u, "done")
    BY DirAlone DEF DirGood, DirCleanup, At, DirNext, DirSteps
<1>2. DirFrame(u) /\ TreeIs(u, dirs.dest, dirs'.stage[u], dirs.back[u])
    BY <1>1, CleanedFrame
<1>3. proc'[u].pc = "done" /\ SameExisted
    BY <1>1 DEF Step, CoreType, ProcRecord, SameExisted
<1> QED BY <1>1, <1>2, <1>3, EntryQuiet DEF Staging, Swapping, Keeping

LEMMA DirKilledKeepsEntry ==
    ASSUME DirGood, EntryInv, NEW u \in Proc, DirKilled(u)
    PROVE  EntryInv'
<1>1. CoreType /\ DirType /\ Alone(u) /\ dirs' = dirs /\ ends' = ends /\ Finish(u, "killed")
    BY DirAlone DEF DirGood, DirKilled, DirNext, dirVars
<1>2. DirFrame(u) /\ TreeIs(u, dirs.dest, dirs.stage[u], dirs.back[u]) /\ SameExisted
    BY <1>1, DirsKept DEF SameExisted
<1>3. proc'[u].pc = "done"
    BY <1>1 DEF Finish, CoreType, ProcRecord
<1> QED BY <1>1, <1>2, <1>3, EntryQuiet DEF Staging, Swapping, Keeping

LEMMA DirNextKeepsEntry ==
    ASSUME DirGood, PairInv, EntryInv, NEW u \in Proc, DirNext(u)
    PROVE  EntryInv'
<1>1. CASE TreeOpen(u) \/ TreeSend(u) \/ TreeLocalEnds(u) \/ TreeRemoteEnds(u) \/ TreeGrace(u) \/ TreeDecide(u) \/ TreeWalk(u)
    <2>1. CoreType /\ ProcInv /\ DirGood'
        BY DirNextKeeps DEF DirGood
    <2>2. ~Kind(u, {"getdir"})
        <3>1. CASE proc[u].pc \in {"tarput", "validate", "walk"}
            BY <2>1, <3>1, PcKind DEF Kind
        <3> QED BY <1>1, <3>1 DEF TreeOpen, TreeSend, TreeLocalEnds, TreeRemoteEnds, TreeGrace, TreeDecide, TreeWalk, At, Kind
    <2> QED BY <1>1, <2>1, <2>2, DirAlone, PutdirKeepsTree, EntryIdle
<1> QED BY <1>1, DirStageKeepsEntry, TarKeepsEntry, DirDecideKeepsEntry, DirAsideKeepsEntry, DirPlaceKeepsEntry,
           DirRestoreKeepsEntry, DirDropKeepsEntry, DirCleanupKeepsEntry, DirKilledKeepsEntry DEF DirNext, DirSteps

LEMMA EntryUnchanged ==
    ASSUME EntryInv, UNCHANGED <<proc, dirs, ends>>
    PROVE  EntryInv'
BY DEF EntryInv, TwoBegan, Kind, At

LEMMA EnvironmentKeepsEntry ==
    ASSUME Good, EntryInv, Environment
    PROVE  EntryInv'
<1>1. DirGood /\ CoreType /\ DirType /\ DirGood'
    BY EnvironmentGood DEF Good, DirGood
<1>2. CASE Edit /\ UNCHANGED dirVars
    BY <1>2, EntryUnchanged DEF Edit, dirVars
<1>3. ASSUME NEW u \in Proc, LoseLink(u), UNCHANGED dirVars
      PROVE  EntryInv'
    <2>1. proc' = [proc EXCEPT ![u].link = "closed"] /\ dirs' = dirs /\ ends' = ends
        BY <1>3 DEF LoseLink, dirVars
    <2>2. Alone(u) /\ proc'[u].pc = proc[u].pc
        BY <1>1, <2>1, AloneIs DEF CoreType, ProcRecord
    <2>3. DirFrame(u) /\ TreeIs(u, dirs.dest, dirs.stage[u], dirs.back[u]) /\ SameExisted
        BY <1>1, <2>1, DirsKept DEF SameExisted
    <2> QED BY <2>2, <2>3, EntryQuiet DEF At
<1>4. CASE DirSave
    <2>1. /\ UNCHANGED <<proc, ends>> /\ dirs.dest # {} /\ dirs.dest \subseteq dirs'.dest
          /\ dirs'.first = dirs.first /\ dirs'.stage = dirs.stage /\ dirs'.back = dirs.back
        BY <1>1, <1>4 DEF DirSave, DirType
    <2>2. TwoBegan' <=> TwoBegan
        BY <2>1 DEF TwoBegan, Kind, At
    <2> QED BY <2>1, <2>2 DEF EntryInv
<1> QED BY <1>2, <1>3, <1>4 DEF Environment

LEMMA EntryNext ==
    ASSUME Good, PairInv, EntryInv, [Next]_vars
    PROVE  EntryInv'
<1>1. DirGood /\ RemoteGood /\ LocalGood /\ CoreType /\ ProcInv /\ DirGood'
    BY StepGood DEF Good, DirGood
<1>2. CASE UNCHANGED vars
    BY <1>2, EntryUnchanged DEF vars, dirVars
<1>3. ASSUME NEW u \in Proc, ShellNext(u) \/ SftpNext(u) \/ GetNext(u), UNCHANGED dirVars
      PROVE  EntryInv'
    <2>1. Alone(u)
        BY <1>1, <1>3, ShellAlone, SftpAlone, GetAlone
    <2>2. ~Kind(u, {"getdir"})
        BY <1>1, <1>3, ShellIsShell, SftpIsSftp, GetIsGet DEF Kind, ShellKinds, SftpKinds, FileGets
    <2>3. dirs' = dirs /\ SameExisted
        BY <1>3 DEF dirVars, SameExisted
    <2> QED BY <1>1, <2>1, <2>2, <2>3, EntryIdle
<1>4. CASE Environment
    BY <1>4, EnvironmentKeepsEntry
<1>5. CASE \E u \in Proc : ShellStep(u) \/ SftpStep(u) \/ GetStep(u)
    BY <1>3, <1>5 DEF ShellStep, SftpStep, GetStep
<1>6. CASE \E u \in Proc : DirStep(u)
    BY <1>1, <1>6, DirNextKeepsEntry DEF DirStep
<1> QED BY <1>2, <1>4, <1>5, <1>6 DEF Next

LEMMA PairNext ==
    ASSUME Good, PairInv, [Next]_vars
    PROVE  PairInv'
<1>1. CoreType
    BY DEF Good, DirGood
<1>2. CASE \E u \in Proc : Alone(u)
    BY <1>2 DEF Alone, PairInv, Kind
<1>3. CASE proc' = proc
    BY <1>3 DEF PairInv, Kind
<1>4. CASE Environment
    BY <1>1, <1>2, <1>3, <1>4, AloneIs DEF Environment, Edit, LoseLink, DirSave
<1> QED BY <1>1, <1>2, <1>3, <1>4, ShellAlone, SftpAlone, GetAlone, DirAlone
        DEF Next, ShellStep, SftpStep, GetStep, DirStep, vars

LEMMA EntryInit ==
    ASSUME Init, TwoDownloads
    PROVE  PairInv /\ EntryInv
<1>1. PICK mix \in Mixes : proc = [u \in Proc |-> ProcInit(mix[u])]
    BY DEF Init, CoreInit
<1>2. \A u \in Proc : proc[u].kind = mix[u] /\ proc[u].pc \in {"start", "done"}
    BY <1>1 DEF ProcInit
<1>3. PairInv
    BY <1>2 DEF PairInv, Kind, TwoDownloads
<1>4. /\ dirs.first \in {{}, {0}} /\ dirs.dest = dirs.first /\ \A u \in Proc : dirs.back[u] = {}
    BY DEF Init, DirInit
<1> QED BY <1>2, <1>3, <1>4 DEF EntryInv

\* Whatever fails, is killed or runs beside it, the remote file of before is
\* under its own name or the one the SFTP upload moved it to as long as nothing
\* was published, the entry of before in a local tree is in the tree or in a
\* backup beside it, and nothing else is left behind unless it could not be
\* removed.
THEOREM PreviousIsKept ==
    ASSUME ~Overlap, TwoDownloads
    PROVE  Spec => []FilesSound
<1>1. Init => Good /\ PairInv /\ EntryInv
    BY InitGood, EntryInit
<1>2. Good /\ PairInv /\ EntryInv /\ [Next]_vars => (Good /\ PairInv /\ EntryInv)'
    BY StepGood, PairNext, EntryNext
<1>3. Good /\ PairInv /\ EntryInv => FilesSound
    <2> SUFFICES ASSUME Good, EntryInv PROVE FilesSound
        OBVIOUS
    <2>1. NoLitter
        BY GoodLeavesNone
    <2>2. PreviousFile
        BY DEF Good, RemoteGood, ContentInv
    <2>3. dirs.first \subseteq dirs.dest \cup UNION {dirs.back[u] : u \in Proc}
        BY DEF EntryInv
    <2> QED BY <2>1, <2>2, <2>3 DEF FilesSound, PreviousReachable, PreviousFile
<1> QED BY <1>1, <1>2, <1>3, PTL DEF Spec

-----------------------------------------------------------------------------
(* What a successful directory download leaves                             *)

\* Trees and backups are moved, never emptied, by the downloads that keep them.
LEMMA MergedStep ==
    ASSUME MergedInv, NEW u \in Proc, Alone(u), DirFrame(u),
           Placed(u)' => Placed(u) \/ Remote \subseteq dirs'.dest,
           Remote \subseteq dirs.dest =>
               Remote \subseteq dirs'.dest \/ (Remote \subseteq dirs'.back[u] /\ proc'[u].pc \in Keeping),
           Remote \subseteq dirs.back[u] /\ proc[u].pc \in Keeping =>
               Remote \subseteq dirs'.dest \/ (Remote \subseteq dirs'.back[u] /\ proc'[u].pc \in Keeping)
    PROVE  MergedInv'
<1> SUFFICES ASSUME NEW v \in Proc, Placed(v)'
             PROVE  \/ Remote \subseteq dirs'.dest
                    \/ \E w \in Proc : Remote \subseteq dirs'.back[w] /\ proc'[w].pc \in Keeping
    BY DEF MergedInv, Remote
<1>1. \A w \in Proc : w # u => proc'[w] = proc[w] /\ dirs'.back[w] = dirs.back[w]
    BY DEF Alone, DirFrame
<1>2. CASE Remote \subseteq dirs'.dest
    BY <1>2
<1>3. CASE Placed(v)
    <2>1. Remote \subseteq dirs.dest \/ \E w \in Proc : Remote \subseteq dirs.back[w] /\ proc[w].pc \in Keeping
        BY <1>3 DEF MergedInv
    <2> QED BY <1>1, <2>1
<1>4. Placed(v) \/ Remote \subseteq dirs'.dest
    <2>1. CASE v = u
        BY <2>1
    <2>2. CASE v # u
        BY <1>1, <2>2 DEF Placed, Kind, At
    <2> QED BY <2>1, <2>2
<1> QED BY <1>2, <1>3, <1>4

\* A step that moves neither the tree nor a backup.
LEMMA MergedQuiet ==
    ASSUME MergedInv, NEW u \in Proc, Alone(u), DirFrame(u), dirs'.dest = dirs.dest, dirs'.back[u] = dirs.back[u],
           Placed(u)' => Placed(u), proc[u].pc \in Keeping => proc'[u].pc \in Keeping
    PROVE  MergedInv'
BY MergedStep

LEMMA RemoteIsSome == Remote # {}
BY TransferAssumption DEF Remote

LEMMA DirPlaceMerges ==
    ASSUME DirGood, MergedInv, NEW u \in Proc, DirPlace(u)
    PROVE  MergedInv'
<1>1. /\ CoreType /\ ProcInv /\ DirType /\ proc[u].pc = "place" /\ Alone(u) /\ TreeOK(u) /\ EndsOK(u) /\ ProcOK(proc[u])
      /\ Kind(u, {"getdir"})
    BY DirAlone, PcKind DEF DirGood, TreeInv, EndsInv, ProcInv, DirPlace, At, DirNext, DirSteps
<1>2. CASE dirs' = [dirs EXCEPT !.dest = dirs.stage[u], !.stage[u] = {}]
    <2>1. DirFrame(u) /\ dirs'.dest = dirs.stage[u]
        BY <1>1, <1>2 DEF DirType, DirFrame
    <2>2. proc[u].prefix = <<>> /\ AtEnd(u)
        BY <1>1 DEF ProcOK, EndsOK, Kind
    <2>3. Len(proc[u].sent) = Blocks
        BY <1>1, <2>2, ProcFields DEF AtEnd
    <2>4. Remote \subseteq dirs'.dest
        BY <1>1, <2>1, <2>3 DEF TreeOK, Remote
    <2> QED BY <1>1, <2>1, <2>4, MergedStep
<1>3. CASE dirs' = dirs /\ (Step(u, "putTree") \/ GiveUp(u, "publish"))
    <2>1. proc'[u].pc \in {"putTree", "cleanup"}
        BY <1>1, <1>3 DEF Step, GiveUp, CoreType, ProcRecord
    <2>2. ~Placed(u)' /\ proc'[u].pc \in Keeping
        BY <2>1 DEF Placed, At, Keeping, Swapping
    <2> QED BY <1>1, <1>3, <2>2, DirsKept, MergedQuiet
<1> QED BY <1>2, <1>3 DEF DirPlace

LEMMA DirAsideMerges ==
    ASSUME DirGood, MergedInv, NEW u \in Proc, DirAside(u)
    PROVE  MergedInv'
<1>1. CoreType /\ DirType /\ proc[u].pc = "treeAside" /\ Alone(u)
    BY DirAlone DEF DirGood, DirAside, At, DirNext, DirSteps
<1>2. proc[u].pc \notin Keeping
    BY <1>1 DEF Keeping, Swapping
<1>3. CASE dirs' = [dirs EXCEPT !.back[u] = dirs.dest, !.dest = {}] /\ Step(u, "place")
    <2>1. DirFrame(u) /\ dirs'.back[u] = dirs.dest
        BY <1>1, <1>3 DEF DirType, DirFrame
    <2>2. proc'[u].pc = "place"
        BY <1>1, <1>3 DEF Step, CoreType, ProcRecord
    <2>3. ~Placed(u)' /\ proc'[u].pc \in Keeping
        BY <2>2 DEF Placed, At, Keeping, Swapping
    <2> QED BY <1>1, <1>2, <2>1, <2>3, MergedStep
<1>4. CASE dirs' = dirs /\ GiveUp(u, "publish")
    <2>1. proc'[u].pc = "cleanup"
        BY <1>1, <1>4 DEF GiveUp, CoreType, ProcRecord
    <2>2. ~Placed(u)'
        BY <2>1 DEF Placed, At
    <2> QED BY <1>1, <1>2, <1>4, <2>2, DirsKept, MergedQuiet
<1> QED BY <1>3, <1>4 DEF DirAside

LEMMA DirRestoreMerges ==
    ASSUME DirGood, MergedInv, NEW u \in Proc, DirRestore(u)
    PROVE  MergedInv'
<1>1. CoreType /\ DirType /\ proc[u].pc = "putTree" /\ Alone(u)
    BY DirAlone DEF DirGood, DirRestore, At, DirNext, DirSteps
<1>2. \E r : GiveUp(u, r)
    BY DEF DirRestore
<1>3. proc'[u].pc = "cleanup"
    BY <1>1, <1>2 DEF GiveUp, CoreType, ProcRecord
<1>4. ~Placed(u)' /\ proc'[u].pc \in Keeping
    BY <1>3 DEF Placed, At, Keeping, Swapping
<1>5. CASE dirs.dest = {} /\ dirs' = [dirs EXCEPT !.dest = dirs.back[u], !.back[u] = {}]
    <2>1. DirFrame(u) /\ dirs'.dest = dirs.back[u]
        BY <1>1, <1>5 DEF DirType, DirFrame
    <2>2. ~(Remote \subseteq dirs.dest)
        BY <1>5, RemoteIsSome
    <2> QED BY <1>1, <1>4, <2>1, <2>2, MergedStep
<1>6. CASE dirs' = dirs
    BY <1>1, <1>4, <1>6, DirsKept, MergedQuiet
<1> QED BY <1>5, <1>6 DEF DirRestore

LEMMA DirDropMerges ==
    ASSUME DirGood, MergedInv, NEW u \in Proc, DirDrop(u)
    PROVE  MergedInv'
<1>1. CoreType /\ ProcInv /\ DirType /\ proc[u].pc = "drop" /\ Alone(u) /\ Kind(u, {"getdir"})
    BY DirAlone, PcKind DEF DirGood, DirDrop, At, DirNext, DirSteps
<1>2. DirFrame(u) /\ dirs'.dest = dirs.dest
    BY <1>1, DroppedFrame
<1>3. Placed(u) /\ proc[u].pc \notin Keeping
    BY <1>1 DEF Placed, At, Keeping, Swapping
<1> QED BY <1>1, <1>2, <1>3, MergedStep

\* The steps that leave the tree and the backups where they are.
LEMMA DirQuietMerges ==
    ASSUME DirGood, MergedInv, NEW u \in Proc,
           \/ DirStage(u) \/ DirReceive(u) \/ DirRemoteEnds(u) \/ DirLocalEnds(u) \/ DirTakeRemote(u) \/ DirTakeLocal(u)
           \/ DirGrace(u) \/ DirDeadline(u) \/ DirDecide(u) \/ DirCleanup(u) \/ DirKilled(u)
    PROVE  MergedInv'
<1>1. CoreType /\ ProcInv /\ DirType /\ Alone(u)
    BY DirAlone DEF DirGood, DirNext, DirSteps
<1>2. DirFrame(u) /\ dirs'.dest = dirs.dest /\ dirs'.back[u] = dirs.back[u]
    <2>1. CASE dirs' = dirs
        BY <1>1, <2>1, DirsKept
    <2>2. ASSUME NEW S \in SUBSET Entry, dirs' = [dirs EXCEPT !.stage[u] = S]
          PROVE  DirFrame(u) /\ dirs'.dest = dirs.dest /\ dirs'.back[u] = dirs.back[u]
        BY <1>1, <2>2, StageSet DEF TreeIs
    <2>3. CASE DirStage(u)
        BY <1>1, <2>2, <2>3 DEF DirStage, DirType
    <2>4. CASE DirReceive(u)
        <3>1. dirs.stage[u] \cup {NextEntry(u)} \in SUBSET Entry
            BY <1>1, <2>4, EntryInRange DEF DirReceive, DirType
        <3> QED BY <2>2, <2>4, <3>1 DEF DirReceive
    <2>5. CASE DirCleanup(u)
        BY <1>1, <2>5, CleanedFrame
    <2> QED BY <2>1, <2>3, <2>4, <2>5
            DEF DirRemoteEnds, DirLocalEnds, DirTakeRemote, DirTakeLocal, DirGrace, DirDeadline, DirDecide, DirKilled, dirVars
<1>3. CASE DirCleanup(u)
    <2>1. At(u, "cleanup") /\ Step(u, "done")
        BY <1>3 DEF DirCleanup
    <2>2. proc'[u].pc = "done" /\ proc'[u].result = proc[u].result /\ proc[u].result # "ok"
        BY <1>1, <2>1 DEF Step, CoreType, ProcRecord, ProcInv, ProcOK, At
    <2>3. ~Placed(u)' /\ proc'[u].pc \in Keeping
        BY <2>2 DEF Placed, At, Keeping
    <2> QED BY <1>1, <1>2, <2>3, MergedQuiet
<1>4. CASE DirKilled(u)
    <2>1. proc'[u].pc = "done" /\ proc'[u].result = "killed"
        BY <1>1, <1>4 DEF DirKilled, Finish, CoreType, ProcRecord
    <2>2. ~Placed(u)' /\ proc'[u].pc \in Keeping
        BY <2>1 DEF Placed, At, Keeping
    <2> QED BY <1>1, <1>2, <2>2, MergedQuiet
<1>5. CASE \/ DirStage(u) \/ DirReceive(u) \/ DirRemoteEnds(u) \/ DirLocalEnds(u) \/ DirTakeRemote(u) \/ DirTakeLocal(u)
           \/ DirGrace(u) \/ DirDeadline(u) \/ DirDecide(u)
    <2>1. proc[u].pc \in {"start", "tar"}
        BY <1>5 DEF DirStage, DirReceive, DirRemoteEnds, DirLocalEnds, DirTakeRemote, DirTakeLocal, DirGrace, DirDeadline,
               DirDecide, At
    <2>2. proc'[u].pc \in {"start", "tar", "treeAside", "place", "cleanup"}
        <3>1. CASE proc' = proc
            BY <2>1, <3>1
        <3>2. CASE proc' = Sent(u) \/ proc' = [proc EXCEPT ![u].link = "closed"]
                   \/ proc' = [proc EXCEPT ![u].late = TRUE, ![u].link = "closed"]
            BY <1>1, <2>1, <3>2 DEF Sent, CoreType, ProcRecord
        <3>3. CASE \E l \in {"tar", "treeAside", "place"} : Step(u, l)
            BY <1>1, <3>3 DEF Step, CoreType, ProcRecord
        <3>4. CASE \E r : GiveUp(u, r)
            BY <1>1, <3>4 DEF GiveUp, CoreType, ProcRecord
        <3> QED BY <1>5, <3>1, <3>2, <3>3, <3>4
                DEF DirStage, DirReceive, DirRemoteEnds, DirLocalEnds, DirTakeRemote, DirTakeLocal, DirGrace, DirDeadline,
                    DirDecide, Deadline
    <2>3. ~Placed(u)' /\ proc[u].pc \notin Keeping
        BY <2>1, <2>2 DEF Placed, At, Keeping, Swapping
    <2> QED BY <1>1, <1>2, <2>3, MergedQuiet
<1> QED BY <1>3, <1>4, <1>5

\* The transfers of another kind.
LEMMA OthersMerge ==
    ASSUME DirGood, DirGood', MergedInv, NEW u \in Proc, Alone(u), ~Kind(u, {"getdir"}), dirs'.first = dirs.first,
           dirs'.dest = dirs.dest, dirs'.stage = dirs.stage, dirs'.back = dirs.back, dirs.tree \subseteq dirs'.tree,
           dirs'.unremoved = dirs.unremoved
    PROVE  MergedInv'
<1>1. TreeOK(u) /\ DirType'
    BY DEF DirGood, TreeInv
<1>2. DirFrame(u) /\ ~Placed(u)'
    BY <1>1 DEF DirFrame, DirType, Placed, Alone, Kind
<1>3. ~(Remote \subseteq dirs.back[u])
    BY <1>1, RemoteIsSome DEF TreeOK
<1> QED BY <1>2, <1>3, MergedStep

LEMMA DirNextMerges ==
    ASSUME DirGood, MergedInv, NEW u \in Proc, DirNext(u)
    PROVE  MergedInv'
<1>1. CASE TreeOpen(u) \/ TreeSend(u) \/ TreeLocalEnds(u) \/ TreeRemoteEnds(u) \/ TreeGrace(u) \/ TreeDecide(u) \/ TreeWalk(u)
    <2>1. CoreType /\ ProcInv /\ DirGood'
        BY DirNextKeeps DEF DirGood
    <2>2. ~Kind(u, {"getdir"})
        <3>1. CASE proc[u].pc \in {"tarput", "validate", "walk"}
            BY <2>1, <3>1, PcKind DEF Kind
        <3> QED BY <1>1, <3>1 DEF TreeOpen, TreeSend, TreeLocalEnds, TreeRemoteEnds, TreeGrace, TreeDecide, TreeWalk, At, Kind
    <2> QED BY <1>1, <2>1, <2>2, DirAlone, PutdirKeepsTree, OthersMerge
<1> QED BY <1>1, DirQuietMerges, DirAsideMerges, DirPlaceMerges, DirRestoreMerges, DirDropMerges DEF DirNext, DirSteps

LEMMA MergedUnchanged ==
    ASSUME MergedInv, UNCHANGED <<proc, dirs>>
    PROVE  MergedInv'
BY DEF MergedInv, Placed, Kind, At, Remote

LEMMA MergedNext ==
    ASSUME Good, MergedInv, [Next]_vars
    PROVE  MergedInv'
<1>1. DirGood /\ RemoteGood /\ LocalGood /\ CoreType /\ ProcInv /\ DirType /\ DirGood'
    BY StepGood DEF Good, DirGood
<1>2. CASE UNCHANGED vars
    BY <1>2, MergedUnchanged DEF vars, dirVars
<1>3. ASSUME NEW u \in Proc, ShellNext(u) \/ SftpNext(u) \/ GetNext(u), UNCHANGED dirVars
      PROVE  MergedInv'
    <2>1. Alone(u)
        BY <1>1, <1>3, ShellAlone, SftpAlone, GetAlone
    <2>2. ~Kind(u, {"getdir"})
        BY <1>1, <1>3, ShellIsShell, SftpIsSftp, GetIsGet DEF Kind, ShellKinds, SftpKinds, FileGets
    <2>3. dirs' = dirs
        BY <1>3 DEF dirVars
    <2> QED BY <1>1, <2>1, <2>2, <2>3, OthersMerge
<1>4. CASE Edit /\ UNCHANGED dirVars
    BY <1>4, MergedUnchanged DEF Edit, dirVars
<1>5. ASSUME NEW u \in Proc, LoseLink(u), UNCHANGED dirVars
      PROVE  MergedInv'
    <2>1. proc' = [proc EXCEPT ![u].link = "closed"] /\ dirs' = dirs
        BY <1>5 DEF LoseLink, dirVars
    <2>2. Alone(u) /\ proc'[u].pc = proc[u].pc /\ proc'[u].result = proc[u].result
        BY <1>1, <2>1, AloneIs DEF CoreType, ProcRecord
    <2>3. Placed(u)' => Placed(u)
        BY <2>2 DEF Placed, Alone, Kind, At
    <2> QED BY <1>1, <2>1, <2>2, <2>3, DirsKept, MergedQuiet
<1>6. CASE DirSave
    <2>1. proc' = proc /\ dirs.dest \subseteq dirs'.dest /\ dirs'.back = dirs.back
        BY <1>1, <1>6 DEF DirSave, DirType
    <2> QED BY <2>1 DEF MergedInv, Placed, Kind, At, Remote
<1>7. CASE Environment
    BY <1>4, <1>5, <1>6, <1>7 DEF Environment
<1>8. CASE \E u \in Proc : ShellStep(u) \/ SftpStep(u) \/ GetStep(u)
    BY <1>3, <1>8 DEF ShellStep, SftpStep, GetStep
<1>9. CASE \E u \in Proc : DirStep(u)
    BY <1>1, <1>9, DirNextMerges DEF DirStep
<1> QED BY <1>2, <1>7, <1>8, <1>9 DEF Next

LEMMA GoodOkMeansDone == ASSUME Good, MergedInv, ~Overlap PROVE OkMeansDone
<1> SUFFICES ASSUME NEW u \in Proc, proc[u].result = "ok", At(u, "done")
             PROVE  /\ Kind(u, ShellKinds \cup SftpKinds) => Whole(u, pub[u])
                    /\ Kind(u, FileGets) => \E w \in Proc : Kind(w, FileGets) /\ proc[w].result = "ok" /\ Whole(w, local)
                    /\ Kind(u, {"getdir"}) => \E tree \in {dirs.dest} \cup {dirs.back[w] : w \in Proc} :
                                                  Remote \subseteq tree
                    /\ Kind(u, {"putdir"}) => Remote \subseteq dirs.tree
    BY DEF OkMeansDone
<1>1. /\ CoreType /\ ProcInv /\ ProcOK(proc[u]) /\ ContentOK(u) /\ LocalInv /\ EndsOK(u) /\ TreeOK(u)
    BY DEF Good, RemoteGood, LocalGood, DirGood, ProcInv, ContentInv, EndsInv, TreeInv
<1>2. Kind(u, ShellKinds \cup SftpKinds) => Whole(u, pub[u])
    BY <1>1 DEF ContentOK
<1>3. Kind(u, FileGets) => \E w \in Proc : Kind(w, FileGets) /\ proc[w].result = "ok" /\ Whole(w, local)
    BY <1>1 DEF LocalInv, Got
<1>4. ASSUME Kind(u, {"getdir"})
      PROVE  \E tree \in {dirs.dest} \cup {dirs.back[w] : w \in Proc} : Remote \subseteq tree
    <2>1. Placed(u)
        BY <1>4 DEF Placed
    <2> QED BY <2>1 DEF MergedInv
<1>5. ASSUME Kind(u, {"putdir"}) PROVE Remote \subseteq dirs.tree
    <2>1. proc[u].prefix = <<>> /\ AtEnd(u)
        BY <1>1, <1>5 DEF ProcOK, EndsOK, Kind
    <2>2. Len(proc[u].sent) = Blocks
        BY <1>1, <2>1, ProcFields DEF AtEnd
    <2> QED BY <1>1, <1>5, <2>2 DEF TreeOK, Remote
<1> QED BY <1>2, <1>3, <1>4, <1>5

\* "ok" is reported only for what was done: the upload was renamed over the
\* destination whole and, where a digest was asked for, as the version whose
\* digest was taken; the local file is one a download published; every remote
\* entry is in the local tree, or in a copy that a later download set aside.
\* Two put --resume of one file that overlap share their partial file, and are
\* excluded: Transfer_find_resume shows what they do.
THEOREM OkIsReal ==
    ASSUME ~Overlap
    PROVE  Spec => []OkMeansDone
<1>1. Init => Good /\ MergedInv
    <2> SUFFICES ASSUME Init PROVE Good /\ MergedInv
        OBVIOUS
    <2>1. PICK mix \in Mixes : proc = [u \in Proc |-> ProcInit(mix[u])]
        BY DEF Init, CoreInit
    <2>2. \A u \in Proc : proc[u].pc \in {"start", "done"} /\ proc[u].result = "none"
        BY <2>1 DEF ProcInit
    <2>3. MergedInv
        BY <2>2 DEF MergedInv, Placed, At
    <2> QED BY <2>3, InitGood
<1>2. Good /\ MergedInv /\ [Next]_vars => (Good /\ MergedInv)'
    BY StepGood, MergedNext
<1>3. Good /\ MergedInv => OkMeansDone
    BY GoodOkMeansDone
<1> QED BY <1>1, <1>2, <1>3, PTL DEF Spec
=============================================================================
