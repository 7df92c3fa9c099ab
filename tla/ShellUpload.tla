---------------------------- MODULE ShellUpload -----------------------------
(***************************************************************************)
(* Uploads through a POSIX shell (internal/ssh/filecopy.go, resume.go,     *)
(* copy.go, copy_direct.go).  The local side streams into the standard     *)
(* input of a script; the script writes a sibling file, checks it and      *)
(* renames it over the destination.  A script is a process of its own: it  *)
(* outlives the session that feeds it, and takes the end of that session   *)
(* for the end of its input.                                               *)
(***************************************************************************)
EXTENDS TransferCore

CONSTANT Overlap   \* whether two resumable uploads may run at the same time

Inode == 1 .. (3 * Cardinality(Proc) + MaxEdits + 2)

VARIABLES
    data,      \* the content of every remote file object
    at,        \* the object each remote name refers to; 0 when there is none
    script,    \* the remote script of each upload
    pub,       \* what each upload renamed over the destination
    agent      \* copies whose forwarded agent still holds the destination's key

remoteVars == <<data, at, script, pub, agent>>

ShellInit ==
    /\ data = [i \in Inode |-> IF i = 1 THEN Content(0) ELSE <<>>]
    /\ at = [dest |-> 1, tmp |-> [u \in Proc |-> 0], old |-> [u \in Proc |-> 0],
             partial |-> [v \in Version |-> 0], meta |-> [v \in Version |-> FALSE]]
    /\ script = [u \in Proc |-> [at |-> "idle", fd |-> 0, input |-> <<>>, eof |-> FALSE, status |-> "none"]]
    /\ pub = [u \in Proc |-> <<>>]
    /\ agent = {}

\* Objects that a name or an open file still refers to, and the free ones.
Held(names, scripts) ==
    {names.dest} \cup {names.tmp[u] : u \in Proc} \cup {names.old[u] : u \in Proc}
      \cup {names.partial[v] : v \in Version} \cup {scripts[u].fd : u \in Proc}
NewInode == CHOOSE i \in Inode : i \notin Held(at, script)

\* The remote file system after a step: names and open files, and the content
\* d of every object that is still held.
Store(names, scripts, d) ==
    /\ at' = names
    /\ script' = scripts
    /\ data' = [i \in Inode |-> IF i \in Held(names, scripts) THEN d[i] ELSE <<>>]

Digested(u) == Kind(u, {"sha", "cp", "direct"})
MyPartial(u) == at.partial[proc[u].hash]

-----------------------------------------------------------------------------
(* The local side.                                                         *)

\* A retry starts when the upload before it has ended, at both ends.
Idle(u) == At(u, "start") \/ (At(u, "done") /\ script[u].at \in {"idle", "exit"})

\* A transfer opened its source and its connections, or could not.
Opened(u, hash, l, agents) ==
    /\ At(u, "start")
    /\ \/ /\ proc' = [proc EXCEPT ![u].hash = hash, ![u].pc = l]
          /\ agent' = agents
          /\ UNCHANGED faults
       \/ Fault /\ Finish(u, "dial") /\ UNCHANGED agent
    /\ UNCHANGED <<source, data, at, script, pub>>

\* Open the file and digest it when the digest is wanted, then connect.
PutOpen(u) == Kind(u, {"put", "sha"}) /\ Opened(u, IF Digested(u) THEN source ELSE 0, "session", agent)

\* The digest of the file names the state that a retry will look for.
ResumeOpen(u) ==
    /\ Kind(u, {"resume"})
    /\ Overlap \/ \A w \in Proc \ {u} : Idle(w)
    /\ Opened(u, source, "probe", agent)

\* cp asks the source host for the digest, once both hosts are connected.
CopyOpen(u) == Kind(u, {"cp"}) /\ Opened(u, source, "session", agent)

\* cp --direct puts the destination's key in an agent of its own first.
DirectOpen(u) == Kind(u, {"direct"}) /\ Opened(u, source, "session", agent \cup {u})

\* probeResumeState: state older than seven days goes first.  The partial file
\* is younger than its metadata, so the metadata may go alone.
ProbeSweep(u) ==
    /\ At(u, "probe")
    /\ at.meta[proc[u].hash]
    /\ \A w \in Proc \ {u} : Idle(w)
    /\ \E both \in BOOLEAN :
           Store([at EXCEPT !.meta[proc[u].hash] = FALSE,
                            !.partial[proc[u].hash] = IF both THEN 0 ELSE @], script, data)
    /\ UNCHANGED <<source, faults, proc, pub, agent>>

\* The state found must be complete, and the partial file a prefix of the source.
ProbeInspect(u) ==
    /\ At(u, "probe")
    /\ LET i == MyPartial(u)
           found == i # 0 \/ at.meta[proc[u].hash]
       IN  IF ~found THEN Step(u, "create")
           ELSE IF i = 0 \/ ~at.meta[proc[u].hash] THEN Finish(u, "incompatible")
           ELSE IF Len(data[i]) > Blocks THEN Finish(u, "incompatible")
           ELSE IF data[i] # SubSeq(Content(source), 1, Len(data[i])) THEN Finish(u, "partial_mismatch")
           ELSE proc' = [proc EXCEPT ![u].prefix = data[i], ![u].pc = "session"]
    /\ UNCHANGED <<source, faults, remoteVars>>

\* No state: an empty partial file first, which truncates one made meanwhile,
\* then the metadata.
ProbeCreate(u) ==
    /\ At(u, "create")
    /\ LET i == IF MyPartial(u) = 0 THEN NewInode ELSE MyPartial(u)
       IN  Store([at EXCEPT !.partial[proc[u].hash] = i], script, [data EXCEPT ![i] = <<>>])
    /\ Step(u, "meta")
    /\ UNCHANGED <<source, faults, pub, agent>>

ProbeMeta(u) ==
    /\ At(u, "meta")
    /\ at' = [at EXCEPT !.meta[proc[u].hash] = TRUE]
    /\ IF MyPartial(u) = 0 THEN Finish(u, "failed")
       ELSE IF data[MyPartial(u)] # <<>> THEN Finish(u, "partial_mismatch")
       ELSE Step(u, "session")
    /\ UNCHANGED <<source, faults, data, script, pub, agent>>

\* The probe dies with its connection or its host.
ProbeDies(u) ==
    /\ proc[u].pc \in {"probe", "create", "meta"}
    /\ Fault
    /\ Finish(u, "failed")
    /\ UNCHANGED <<source, remoteVars>>

\* Start the script.  For cp --direct the source host's ssh connects first.  A
\* session that does not open is reported as it is, a script that does not start
\* with the deadline that fired.
StartScript(u) ==
    /\ At(u, "session") /\ Kind(u, ShellKinds)
    /\ IF Up(u)
       THEN /\ Step(u, IF Kind(u, {"direct"}) THEN "wait" ELSE "stream")
            /\ script' = [script EXCEPT ![u].at = IF Kind(u, {"direct"}) THEN "connect"
                                                  ELSE IF Kind(u, {"resume"}) THEN "verify" ELSE "open"]
            /\ UNCHANGED agent
       ELSE /\ \E r \in {"failed", LateOr(u, "failed")} : Finish(u, r)
            /\ agent' = agent \ {u}
            /\ UNCHANGED script
    /\ UNCHANGED <<source, faults, data, at, pub>>

\* The source host's ssh authenticates with the forwarded agent, or cannot.
DirectConnect(u) ==
    /\ script[u].at = "connect"
    /\ script' = [script EXCEPT ![u].at = IF u \in agent /\ Up(u) THEN "open" ELSE "exit"]
    /\ UNCHANGED <<source, faults, proc, data, at, pub, agent>>

\* A block goes from the source into the script's input.
Feeding(u) ==
    /\ ~script[u].eof
    /\ IF Kind(u, {"direct"}) THEN script[u].at \in {"open", "cat"}
       ELSE At(u, "stream") /\ Up(u) /\ script[u].at # "exit"

Send(u) ==
    /\ Feeding(u)
    /\ ~AtEnd(u)
    /\ script' = [script EXCEPT ![u].input = Append(@, NextBlock(u))]
    /\ proc' = [proc EXCEPT ![u].sent = Append(@, NextBlock(u))]
    /\ UNCHANGED <<source, faults, data, at, pub, agent>>

CloseStdin(u) ==
    /\ Feeding(u)
    /\ AtEnd(u)
    /\ script' = [script EXCEPT ![u].eof = TRUE]
    /\ Step(u, IF Kind(u, {"direct"}) THEN proc[u].pc ELSE "wait")
    /\ UNCHANGED <<source, faults, data, at, pub, agent>>

\* What an exit status or a marker of the script stands for.
Reported(u, fallback) ==
    IF script[u].status \in {"tool", "mismatch", "state_changed", "publish_failed"}
    THEN script[u].status ELSE fallback

\* collectRemoteFirst: the write failed; the script's own reason comes first.
StreamFails(u) ==
    /\ At(u, "stream") /\ Kind(u, ShellKinds)
    /\ ~Up(u) \/ script[u].at = "exit"
    /\ Finish(u, LateOr(u, IF Up(u) THEN Reported(u, "failed") ELSE "failed"))
    /\ UNCHANGED <<source, faults, remoteVars>>

\* cp: the source session fails while it is read; the destination is closed.
SourceFails(u) ==
    /\ At(u, "stream") /\ Kind(u, {"cp"})
    /\ Fault
    /\ Finish(u, LateOr(u, "remote_read"))
    /\ UNCHANGED <<source, remoteVars>>

\* The receipt names the size and digest the script found, and cp compares
\* them with what it relayed.
ReceiptValid(u) ==
    Kind(u, {"cp"}) => proc[u].sent = Content(proc[u].hash)

\* session.Wait; the status of a script that ended may still arrive when the
\* session is closed.
Waited(u, l, result) ==
    /\ At(u, "wait")
    /\ \/ ~Up(u) /\ Finish(u, LateOr(u, "failed"))
       \/ /\ script[u].at = "exit"
          /\ IF script[u].status = "receipt" THEN proc' = [proc EXCEPT ![u].pc = l, ![u].result = result]
             ELSE Finish(u, LateOr(u, Reported(u, "failed")))

WaitScript(u) ==
    /\ Kind(u, ShellKinds \ {"direct"})
    /\ Waited(u, "done", IF ReceiptValid(u) THEN "ok" ELSE "mismatch")
    /\ UNCHANGED <<source, faults, remoteVars>>

\* The agent is emptied as soon as the copy is over; on success the
\* destination's digest is read once more, over a connection of its own.
DirectWait(u) ==
    /\ Kind(u, {"direct"})
    /\ Waited(u, "reread", "none")
    /\ agent' = agent \ {u}
    /\ UNCHANGED <<source, faults, data, at, script, pub>>

DirectReread(u) ==
    /\ At(u, "reread")
    /\ Finish(u, IF ~Up(u) THEN LateOr(u, "failed")
                 ELSE IF at.dest # 0 /\ data[at.dest] = Content(proc[u].hash) THEN "ok" ELSE "mismatch")
    /\ UNCHANGED <<source, faults, remoteVars>>

ShellDeadline(u) ==
    /\ Kind(u, ShellKinds \ {"direct"})
    /\ Deadline(u)
    /\ UNCHANGED remoteVars

\* Mutant: the deadline only closes the connections.
DirectDeadlineKeepsKey(u) ==
    /\ Kind(u, {"direct"})
    /\ Armed(u) /\ ~proc[u].late
    /\ proc' = [proc EXCEPT ![u].late = TRUE]
    /\ UNCHANGED <<source, faults, remoteVars>>

\* The deadline of cp --direct empties the agent before it closes anything.
DirectDeadline(u) ==
    /\ Kind(u, {"direct"})
    /\ Armed(u) /\ ~proc[u].late
    /\ proc' = [proc EXCEPT ![u].late = TRUE]
    /\ agent' = agent \ {u}
    /\ UNCHANGED <<source, faults, data, at, script, pub>>

DirectClose(u) ==
    /\ Kind(u, {"direct"})
    /\ proc[u].late /\ Up(u)
    /\ proc' = [proc EXCEPT ![u].link = "closed"]
    /\ UNCHANGED <<source, faults, remoteVars>>

-----------------------------------------------------------------------------
(* The remote side.                                                        *)

\* sshd reports a closed session to the script as the end of its input; what
\* was in flight may be lost.  The ssh that a source host started is cut only
\* by the timeout(1) that wraps it, when the host has one.
InputEnds(u) ==
    /\ ~script[u].eof
    /\ script[u].at \notin {"idle", "connect", "exit"}
    /\ IF Kind(u, {"direct"}) THEN proc[u].late ELSE ~Up(u) \/ At(u, "done")
    /\ \E n \in 0 .. Len(script[u].input) :
           script' = [script EXCEPT ![u].eof = TRUE, ![u].input = SubSeq(@, 1, n)]
    /\ UNCHANGED <<source, faults, proc, data, at, pub, agent>>

\* Mutant: the script has no trap.
ScriptExitNoTrap(u, status) ==
    Store(at, [script EXCEPT ![u].at = "exit", ![u].fd = 0, ![u].status = status], data)

\* A script ends; the trap of an upload script removes its temporary file.
ScriptExit(u, status) ==
    Store([at EXCEPT !.tmp[u] = 0],
          [script EXCEPT ![u].at = "exit", ![u].fd = 0, ![u].status = status], data)

\* uploadCommandWithIntegrity: without a digest tool nothing is read.
ScriptOpen(u) ==
    /\ script[u].at = "open"
    /\ \/ /\ Store([at EXCEPT !.tmp[u] = NewInode],
                   [script EXCEPT ![u].at = "cat", ![u].fd = NewInode], data)
          /\ UNCHANGED faults
       \/ Fault /\ ScriptExit(u, IF Digested(u) THEN "tool" ELSE "failed")
    /\ UNCHANGED <<source, proc, pub, agent>>

\* resumeAppendCommand: the partial file must still be what the probe reported.
ScriptVerify(u) ==
    /\ script[u].at = "verify"
    /\ LET i == MyPartial(u)
       IN  IF i # 0 /\ at.meta[proc[u].hash] /\ data[i] = proc[u].prefix
           THEN Store(at, [script EXCEPT ![u].at = "cat", ![u].fd = i], data)
           ELSE ScriptExit(u, "state_changed")
    /\ UNCHANGED <<source, faults, proc, pub, agent>>

\* cat appends what arrives to the file it opened.
ScriptCat(u) ==
    /\ script[u].at = "cat"
    /\ script[u].input # <<>>
    /\ Store(at, [script EXCEPT ![u].input = Tail(@)],
             [data EXCEPT ![script[u].fd] = Append(@, Head(script[u].input))])
    /\ UNCHANGED <<source, faults, proc, pub, agent>>

\* The file by its name: an append may have gone into an object that was
\* renamed away since.
Written(u) == IF Kind(u, {"resume"}) THEN MyPartial(u) ELSE at.tmp[u]

ScriptEOF(u) ==
    /\ script[u].at = "cat"
    /\ script[u].input = <<>> /\ script[u].eof
    /\ IF Written(u) = 0 THEN ScriptExit(u, "failed")
       ELSE Store(at, [script EXCEPT ![u].at = "check", ![u].fd = 0], data)
    /\ UNCHANGED <<source, faults, proc, pub, agent>>

\* Mutant: only the size is compared.
CompleteBySize(u) == Written(u) # 0 /\ Len(data[Written(u)]) = Blocks

\* put knows the size, put --sha256 and --resume the size and the digest, and
\* the copies the digest.
Complete(u) ==
    /\ Written(u) # 0
    /\ Kind(u, {"put"}) => Len(data[Written(u)]) = Blocks
    /\ ~Kind(u, {"put"}) => data[Written(u)] = Content(proc[u].hash)

ScriptCheck(u) ==
    /\ script[u].at = "check"
    /\ IF Complete(u) THEN Store(at, [script EXCEPT ![u].at = "publish"], data)
       ELSE ScriptExit(u, IF Written(u) = 0 THEN "failed" ELSE "mismatch")
    /\ UNCHANGED <<source, faults, proc, pub, agent>>

\* mv -f over the destination.
ScriptPublish(u) ==
    /\ script[u].at = "publish"
    /\ \/ /\ Written(u) # 0
          /\ pub' = [pub EXCEPT ![u] = data[Written(u)]]
          /\ IF Kind(u, {"resume"})
             THEN Store([at EXCEPT !.dest = Written(u), !.partial[proc[u].hash] = 0],
                        [script EXCEPT ![u].at = "clean"], data)
             ELSE Store([at EXCEPT !.dest = Written(u), !.tmp[u] = 0],
                        [script EXCEPT ![u].at = "exit", ![u].status = "receipt"], data)
          /\ UNCHANGED faults
       \/ /\ FailsIf(Written(u) = 0)
          /\ ScriptExit(u, IF Kind(u, {"resume"}) THEN "publish_failed" ELSE "failed")
          /\ UNCHANGED pub
    /\ UNCHANGED <<source, proc, agent>>

\* The resume state ends with the metadata.
ScriptClean(u) ==
    /\ script[u].at = "clean"
    /\ at' = [at EXCEPT !.meta[proc[u].hash] = FALSE]
    /\ script' = [script EXCEPT ![u].at = "exit", ![u].status = "receipt"]
    /\ UNCHANGED <<source, faults, proc, data, pub, agent>>

\* The remote host kills the script; no trap runs.
ScriptKilled(u) ==
    /\ script[u].at \notin {"idle", "connect", "exit"}
    /\ Fault
    /\ Store(at, [script EXCEPT ![u].at = "exit", ![u].fd = 0, ![u].status = "killed"], data)
    /\ UNCHANGED <<source, proc, pub, agent>>

ShellLocal(u) ==
    \/ PutOpen(u) \/ ResumeOpen(u) \/ CopyOpen(u) \/ DirectOpen(u)
    \/ ProbeSweep(u) \/ ProbeInspect(u) \/ ProbeCreate(u) \/ ProbeMeta(u) \/ ProbeDies(u)
    \/ StartScript(u) \/ StreamFails(u) \/ SourceFails(u) \/ WaitScript(u)
    \/ DirectWait(u) \/ DirectReread(u) \/ DirectClose(u)

ShellRemote(u) ==
    \/ DirectConnect(u) \/ Send(u) \/ CloseStdin(u) \/ InputEnds(u)
    \/ ScriptOpen(u) \/ ScriptVerify(u) \/ ScriptCat(u) \/ ScriptEOF(u)
    \/ ScriptCheck(u) \/ ScriptPublish(u) \/ ScriptClean(u) \/ ScriptKilled(u)

ShellNext(u) == ShellLocal(u) \/ ShellRemote(u) \/ ShellDeadline(u) \/ DirectDeadline(u)
=============================================================================
