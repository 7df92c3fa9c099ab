----------------------------- MODULE SftpUpload -----------------------------
(***************************************************************************)
(* put over SFTP (internal/ssh/sftp_transfer.go).  There is no script: the *)
(* local side issues every request, and closing the client fails the one   *)
(* in flight, whose effect may or may not have happened.                   *)
(***************************************************************************)
EXTENDS ShellUpload

VARIABLES
    posix,    \* the server replaces a file by posix-rename@openssh.com
    litter    \* uploads whose error names a temporary file that may remain

sftpVars == <<posix, litter>>

SftpInit ==
    /\ posix \in BOOLEAN /\ ((\A u \in Proc : ~Kind(u, SftpKinds)) => posix)
    /\ litter = {}

Failing(u, r) == GiveUp(u, LateOr(u, r))

\* The answer of a request, or its loss: the same effect, another next step.
Answered(u, l) == IF Up(u) THEN Step(u, l) ELSE Failing(u, "failed")

Rename(names, obj, u) ==
    /\ Store(names, script, data)
    /\ pub' = [pub EXCEPT ![u] = data[obj]]

SftpOpen(u) ==
    /\ At(u, "start") /\ Kind(u, SftpKinds)
    /\ \/ /\ proc' = [proc EXCEPT ![u].hash = IF Kind(u, {"sftpsha"}) THEN source ELSE 0, ![u].pc = "mktemp"]
          /\ UNCHANGED faults
       \/ Fault /\ Finish(u, "dial")
    /\ UNCHANGED <<source, remoteVars>>

\* O_EXCL under a random name.  A failure returns before the cleanup is set up.
SftpCreate(u) ==
    /\ At(u, "mktemp")
    /\ Store([at EXCEPT !.tmp[u] = NewInode], script, data)
    /\ IF Up(u) THEN Step(u, "write") ELSE Finish(u, LateOr(u, "failed"))
    /\ UNCHANGED <<source, faults, pub, agent>>

SftpWrite(u) ==
    /\ At(u, "write")
    /\ Up(u)
    /\ ~AtEnd(u)
    /\ Store(at, script, [data EXCEPT ![at.tmp[u]] = Append(@, NextBlock(u))])
    /\ proc' = [proc EXCEPT ![u].sent = Append(@, NextBlock(u))]
    /\ UNCHANGED <<source, faults, pub, agent>>

\* Stat the finished file, then read it back when the digest is wanted.
Readback(u) == Kind(u, {"sftpsha"}) => data[at.tmp[u]] = Content(proc[u].hash)

SftpCheck(u) ==
    /\ At(u, "write")
    /\ Up(u)
    /\ AtEnd(u)
    /\ IF Len(data[at.tmp[u]]) = Blocks /\ Readback(u) THEN Step(u, "rename") ELSE Failing(u, "mismatch")
    /\ UNCHANGED <<source, faults, remoteVars>>

SftpReplace(u) ==
    /\ At(u, "rename")
    /\ posix
    /\ Rename([at EXCEPT !.dest = at.tmp[u], !.tmp[u] = 0], at.tmp[u], u)
    /\ IF Up(u) THEN Finish(u, "ok") ELSE Failing(u, "failed")
    /\ UNCHANGED <<source, faults, agent>>

\* sftpReplaceWithoutPosixRename: a plain rename never replaces anything, so
\* the previous destination is moved aside, and back when the second fails.  An
\* Lstat that fails is taken for a destination that does not exist.
SftpLstat(u) ==
    /\ At(u, "rename")
    /\ ~posix
    /\ Up(u)
    /\ \/ Step(u, IF at.dest = 0 THEN "move" ELSE "aside") /\ UNCHANGED faults
       \/ Fault /\ Step(u, "move")
    /\ UNCHANGED <<source, remoteVars>>

\* Mutant: the previous destination is removed to make room.
SftpAsideRemoves(u) ==
    /\ At(u, "aside")
    /\ Store([at EXCEPT !.dest = 0], script, data)
    /\ Answered(u, "move")
    /\ UNCHANGED <<source, faults, pub, agent>>

SftpAside(u) ==
    /\ At(u, "aside")
    /\ IF at.dest = 0 THEN Failing(u, "failed") /\ UNCHANGED <<data, at, script>>
       ELSE /\ Store([at EXCEPT !.old[u] = at.dest, !.dest = 0], script, data)
            /\ Answered(u, "move")
    /\ UNCHANGED <<source, faults, pub, agent>>

SftpMove(u) ==
    /\ At(u, "move")
    /\ \/ /\ at.dest = 0
          /\ Rename([at EXCEPT !.dest = at.tmp[u], !.tmp[u] = 0], at.tmp[u], u)
          /\ Answered(u, "dropOld")
          /\ UNCHANGED faults
       \/ /\ Up(u)
          /\ FailsIf(at.dest # 0)
          /\ IF at.old[u] # 0 THEN Step(u, "putBack") ELSE Failing(u, "failed")
          /\ UNCHANGED <<data, at, script, pub>>
    /\ UNCHANGED <<source, agent>>

SftpRestore(u) ==
    /\ At(u, "putBack")
    /\ IF at.dest = 0 THEN Store([at EXCEPT !.dest = at.old[u], !.old[u] = 0], script, data)
       ELSE UNCHANGED <<data, at, script>>
    /\ Failing(u, "failed")
    /\ UNCHANGED <<source, faults, pub, agent>>

\* The destination is published: removing the old one may fail.
SftpDropOld(u) ==
    /\ At(u, "dropOld")
    /\ \/ Store([at EXCEPT !.old[u] = 0], script, data) /\ UNCHANGED faults
       \/ FailsIf(~Up(u)) /\ UNCHANGED <<data, at, script>>
    /\ Finish(u, "ok")
    /\ UNCHANGED <<source, pub, agent>>

\* The request in flight has no effect: its client is closed, or the server
\* refuses it.  SftpLstat and SftpMove say what a refusal of theirs leads to.
SftpRefused(u) ==
    /\ Kind(u, SftpKinds)
    /\ proc[u].pc \in {"mktemp", "write", "rename", "aside", "move", "putBack"}
    /\ Up(u) => ~At(u, "move") /\ (At(u, "rename") => posix)
    /\ FailsIf(~Up(u))
    /\ IF At(u, "mktemp") THEN Finish(u, LateOr(u, "failed")) ELSE Failing(u, "failed")
    /\ UNCHANGED <<source, remoteVars>>

\* sftpRemoveTemp: on this session, else on a fresh one; when both fail the
\* error names the file.
SftpCleanup(u) ==
    /\ At(u, "cleanup") /\ Kind(u, SftpKinds)
    /\ \/ Store([at EXCEPT !.tmp[u] = 0], script, data) /\ UNCHANGED <<litter, faults>>
       \/ FailsIf(~Up(u)) /\ litter' = litter \cup {u} /\ UNCHANGED <<data, at, script>>
    /\ Step(u, "done")
    /\ UNCHANGED <<source, pub, agent, posix>>

SftpDeadline(u) == Kind(u, SftpKinds) /\ ~At(u, "cleanup") /\ Deadline(u) /\ UNCHANGED remoteVars

SftpSteps(u) ==
    \/ SftpOpen(u) \/ SftpCreate(u) \/ SftpWrite(u) \/ SftpCheck(u) \/ SftpReplace(u) \/ SftpLstat(u)
    \/ SftpAside(u) \/ SftpMove(u) \/ SftpRestore(u) \/ SftpDropOld(u) \/ SftpRefused(u)

SftpNext(u) == SftpCleanup(u) \/ ((SftpSteps(u) \/ SftpDeadline(u)) /\ UNCHANGED sftpVars)
=============================================================================
