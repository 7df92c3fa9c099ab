---------------------------- MODULE TransferCore ----------------------------
(***************************************************************************)
(* What the transfers of internal/ssh share: the file being copied, the    *)
(* transfers in progress and the ways a session is cut.  The protocols are *)
(* in ShellUpload (put, put --sha256, put --resume, cp and cp --direct),   *)
(* SftpUpload, FileDownload and DirectoryTransfer; module Transfer puts    *)
(* them together.                                                          *)
(*                                                                         *)
(* A file is a sequence of blocks and a block names the version of the     *)
(* source it was read from, so the digest of a file is the file itself and *)
(* a file torn between two versions is told apart from both.               *)
(***************************************************************************)
EXTENDS Naturals, Sequences, FiniteSets

CONSTANTS
    Proc,        \* transfers
    Mixes,       \* which protocols run together: functions from Proc to Kinds
    Blocks,      \* blocks of the source file
    MaxEdits,    \* bound: edits of the source while it is copied
    MaxFaults    \* bound: lost connections, killed scripts and failed calls

ShellKinds == {"put", "sha", "resume", "cp", "direct"}
SftpKinds == {"sftp", "sftpsha"}
FileGets == {"get", "getsha", "getsftp"}
Kinds == ShellKinds \cup SftpKinds \cup FileGets \cup {"getdir", "putdir", "none"}

ASSUME TransferAssumption ==
    /\ IsFiniteSet(Proc) /\ Mixes \subseteq [Proc -> Kinds]
    /\ Blocks \in Nat \ {0} /\ MaxEdits \in Nat /\ MaxFaults \in Nat

Version == 0 .. (MaxEdits + 1)    \* version 0 is what the destination held before
Content(v) == [i \in 1 .. Blocks |-> <<v, i>>]
Block == Version \X (1 .. Blocks)

VARIABLES
    source,    \* the version the source file holds now
    faults,
    proc       \* the state of each transfer

\* sent is what was read of the source and sent on, after the reused prefix.
ProcInit(k) ==
    [kind |-> k, pc |-> IF k = "none" THEN "done" ELSE "start", link |-> "up", late |-> FALSE, hash |-> 0,
     prefix |-> <<>>, sent |-> <<>>, result |-> "none"]

CoreInit ==
    /\ source = 1
    /\ faults = 0
    /\ \E mix \in Mixes : proc = [u \in Proc |-> ProcInit(mix[u])]

At(u, l) == proc[u].pc = l
Kind(u, K) == proc[u].kind \in K
Up(u) == proc[u].link = "up"
Fault == faults < MaxFaults /\ faults' = faults + 1

\* A call fails because of what it finds, or for a reason of its own.
FailsIf(found) == (found /\ UNCHANGED faults) \/ Fault

Step(u, l) == proc' = [proc EXCEPT ![u].pc = l]
Finish(u, r) == proc' = [proc EXCEPT ![u].pc = "done", ![u].result = r]

\* A transfer that fails removes what it made on its way out.
GiveUp(u, r) == proc' = [proc EXCEPT ![u].pc = "cleanup", ![u].result = r]

\* The deadline that fired explains a failure better than its symptom does.
LateOr(u, r) == IF proc[u].late THEN "timeout" ELSE r

\* Mutant: the source is read one block too far.
NextBlockSkips(u) == <<source, Len(proc[u].prefix) + Len(proc[u].sent) + 2>>

\* The block a transfer reads next: the source as it is now.
NextBlock(u) == <<source, Len(proc[u].prefix) + Len(proc[u].sent) + 1>>
AtEnd(u) == Len(proc[u].prefix) + Len(proc[u].sent) = Blocks

\* The owner of the source file edits it; the size stays the same.
Edit ==
    /\ source <= MaxEdits
    /\ \E u \in Proc : Kind(u, ShellKinds \cup SftpKinds \cup FileGets)
    /\ source' = source + 1
    /\ UNCHANGED <<faults, proc>>

\* The time.AfterFunc of --timeout is armed once the session exists.
Armed(u) == proc[u].pc \notin {"start", "probe", "create", "meta", "done"}

\* The deadline: remember it, then close the sessions.
Deadline(u) ==
    /\ Armed(u)
    /\ Up(u)
    /\ proc' = [proc EXCEPT ![u].late = TRUE, ![u].link = "closed"]
    /\ UNCHANGED <<source, faults>>

\* The connection dies; the keepalive or the read error closes the session.
LoseLink(u) ==
    /\ Armed(u)
    /\ Up(u)
    /\ Fault
    /\ proc' = [proc EXCEPT ![u].link = "closed"]
    /\ UNCHANGED source
=============================================================================
