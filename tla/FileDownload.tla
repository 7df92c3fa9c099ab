---------------------------- MODULE FileDownload ----------------------------
(***************************************************************************)
(* get of a regular file (internal/ssh/filecopy.go, sftp_transfer.go,      *)
(* download_staging.go): the file arrives in a private staging file beside *)
(* the destination, which is renamed over it when it is complete.          *)
(***************************************************************************)
EXTENDS TransferCore

VARIABLES
    local,     \* the local destination
    stage,     \* the staging file of each download
    staged,    \* downloads whose staging file exists
    unremoved  \* downloads that failed to remove their staging file

localVars == <<local, stage, staged, unremoved>>

GetInit ==
    /\ local = Content(0)
    /\ stage = [u \in Proc |-> <<>>]
    /\ staged = {}
    /\ unremoved = {}

Unstage(u) == staged' = staged \ {u} /\ stage' = [stage EXCEPT ![u] = <<>>]

\* Stage, connect and, for --sha256 over the shell, ask for the remote digest.
GetOpen(u) ==
    /\ At(u, "start") /\ Kind(u, FileGets)
    /\ staged' = staged \cup {u}
    /\ \/ /\ proc' = [proc EXCEPT ![u].hash = IF Kind(u, {"getsha"}) THEN source ELSE 0, ![u].pc = "read"]
          /\ UNCHANGED faults
       \/ Fault /\ GiveUp(u, "dial")
    /\ UNCHANGED <<source, local, stage>>

GetRead(u) ==
    /\ At(u, "read")
    /\ Up(u)
    /\ ~AtEnd(u)
    /\ stage' = [stage EXCEPT ![u] = Append(@, NextBlock(u))]
    /\ proc' = [proc EXCEPT ![u].sent = Append(@, NextBlock(u))]
    /\ UNCHANGED <<source, faults, local, staged>>

\* The shell's digest was taken before the stream; SFTP only has the size the
\* server reported and the stream's own digest.
GetVerified(u) ==
    /\ Kind(u, {"getsha"}) => stage[u] = Content(proc[u].hash)
    /\ Kind(u, {"getsftp"}) => Len(stage[u]) = Blocks

GetVerify(u) ==
    /\ At(u, "read")
    /\ Up(u)
    /\ AtEnd(u)
    /\ IF GetVerified(u) THEN Step(u, "publish") ELSE GiveUp(u, "mismatch")
    /\ UNCHANGED <<source, faults, local, stage, staged>>

\* The session failed.
GetFails(u) ==
    /\ At(u, "read")
    /\ ~Up(u)
    /\ GiveUp(u, LateOr(u, "remote_read"))
    /\ UNCHANGED <<source, faults, local, stage, staged>>

GetPublish(u) ==
    /\ At(u, "publish")
    /\ \/ local' = stage[u] /\ Unstage(u) /\ Finish(u, "ok") /\ UNCHANGED faults
       \/ Fault /\ GiveUp(u, "failed") /\ UNCHANGED <<local, stage, staged>>
    /\ UNCHANGED source

\* The staging file of a download that failed is removed on the way out; nobody
\* hears of it when that fails too.
GetCleanup(u) ==
    /\ At(u, "cleanup") /\ Kind(u, FileGets)
    /\ \/ Unstage(u) /\ UNCHANGED <<faults, unremoved>>
       \/ Fault /\ unremoved' = unremoved \cup {u} /\ UNCHANGED <<stage, staged>>
    /\ Step(u, "done")
    /\ UNCHANGED <<source, local>>

GetDeadline(u) == Kind(u, FileGets) /\ ~At(u, "cleanup") /\ Deadline(u) /\ UNCHANGED <<local, stage, staged>>

GetSteps(u) ==
    \/ (GetOpen(u) \/ GetRead(u) \/ GetVerify(u) \/ GetFails(u) \/ GetPublish(u)) /\ UNCHANGED unremoved
    \/ GetCleanup(u)

GetNext(u) == GetSteps(u) \/ (GetDeadline(u) /\ UNCHANGED unremoved)
=============================================================================
