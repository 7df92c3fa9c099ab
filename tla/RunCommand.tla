----------------------------- MODULE RunCommand -----------------------------
(***************************************************************************)
(* One remote command (internal/ssh: run.go, run_timeout.go,               *)
(* run_interrupt.go, run_output.go, stdin.go) over the connection JumpDial *)
(* opens.  Beside session.Run stand the exec deadline, the forwarder of    *)
(* local signals and the copier of local stdin; the remote host runs the   *)
(* command, and the user reads the output or stops reading it.             *)
(***************************************************************************)
EXTENDS JumpDial

CONSTANTS
    MaxSignals,     \* how many signals the user sends
    Options         \* the ways the command is run

OptionRecord == [capture : BOOLEAN, limit : BOOLEAN, reuse : BOOLEAN, stdin : {"none", "pipe", "file"}]
ASSUME RunAssumption == MaxSignals \in Nat /\ Options \subseteq OptionRecord

VARIABLES
    opts,      \* captured output, an exec timeout, connection reuse, where stdin comes from
    run,       \* Run itself: where it is, what session.Run returned, what it reports
    command,   \* the remote command and how it ended
    channel,   \* the session's channel
    output,    \* one write of the command on its way to the local writer
    watch,     \* execWatch
    interrupt, \* runInterrupt
    copier,    \* forwardStdin
    silent,    \* the peer answers nothing any more
    termed     \* the channel took the deadline's SIGTERM

runVars == <<opts, run, command, channel, output, watch, interrupt, copier, silent, termed>>

RunInit ==
    /\ opts \in IF caller = "run" THEN Options
               ELSE {[capture |-> TRUE, limit |-> FALSE, reuse |-> FALSE, stdin |-> "none"]}
    /\ run = [pc |-> IF caller = "run" THEN "plan" ELSE "off", err |-> "none", outcome |-> "none"]
    /\ command = "none" /\ channel = "none" /\ output = "none"
    /\ watch = [pc |-> "off", completed |-> FALSE, signalSent |-> FALSE, done |-> FALSE]
    /\ interrupt = [pc |-> "off", interrupted |-> FALSE, pending |-> 0, total |-> 0, done |-> FALSE]
    /\ copier = "off" /\ silent = FALSE /\ termed = FALSE

RunAt(p) == run.pc = p
RunGoto(p) == run' = [run EXCEPT !.pc = p]
Return(outcome) == run' = [run EXCEPT !.pc = "returned", !.outcome = outcome]

\* session.Close sends a close and reads nothing back.
SessionClose == channel' = IF channel = "open" THEN "sentClose" ELSE channel
\* The deferred session.Close and releaseClient.
Release ==
    /\ SessionClose
    /\ conn' = IF opts.reuse THEN conn ELSE Closed({hops})
\* session.Signal and every other request fail once either side has closed.
Sendable == channel = "open" /\ Alive(hops)

-----------------------------------------------------------------------------
(* Run                                                                     *)

\* decideRunStdin: a stdin file is opened before anything is dialled.
PlanStdin ==
    /\ RunAt("plan")
    /\ \/ RunGoto("acquire") /\ dial' = FirstHop
       \/ opts.stdin = "file" /\ Return("stdin_failed") /\ UNCHANGED dial
    /\ UNCHANGED <<caller, hops, attempt, conn, key, sent, login, late, abort, probe,
                   opts, command, channel, output, watch, interrupt, copier, silent, termed>>

\* The retry loop: only a dial that failed before the key exchange is repeated,
\* and never a failure to open the session.
Acquire ==
    /\ RunAt("acquire")
    /\ \/ /\ At("failed") /\ Retryable(dial.why, PastKey)
          /\ Redial
          /\ UNCHANGED <<caller, hops, late, probe, run, channel>>
       \/ /\ At("failed") /\ (Retryable(dial.why, PastKey) => attempt = MaxAttempts)
          /\ Return("dial_failed")
          /\ UNCHANGED <<dialVars, channel>>
       \/ /\ At("ok") /\ Alive(hops)
          /\ channel' = "open"
          /\ RunGoto("prepare")
          /\ UNCHANGED dialVars
       \/ /\ At("ok")
          /\ CloseTarget \/ (opts.reuse /\ UNCHANGED conn)
          /\ Return("session_failed")
          /\ UNCHANGED <<caller, hops, attempt, dial, key, sent, login, late, abort, probe, channel>>
    /\ UNCHANGED <<opts, command, output, watch, interrupt, copier, silent, termed>>

\* Output and stdin are attached, either of which may fail; then both watchers start.
Prepare ==
    /\ RunAt("prepare")
    /\ \/ /\ RunGoto("start")
          /\ copier' = IF opts.stdin = "none" THEN "off" ELSE "copying"
          /\ interrupt' = [interrupt EXCEPT !.pc = IF opts.capture THEN "off" ELSE "armed"]
          /\ watch' = [watch EXCEPT !.pc = IF opts.limit THEN "armed" ELSE "off"]
          /\ UNCHANGED <<channel, conn>>
       \/ /\ ~opts.capture \/ opts.stdin # "none"
          /\ Return("prepare_failed")
          /\ Release
          /\ UNCHANGED <<copier, interrupt, watch>>
    /\ UNCHANGED <<caller, hops, attempt, dial, key, sent, login, late, abort, probe,
                   opts, command, output, silent, termed>>

\* session.Run, first half: the exec request is accepted, refused or lost.
Start ==
    /\ RunAt("start")
    /\ \/ Sendable /\ ~silent /\ command' = "running" /\ RunGoto("exec")
       \/ Sendable /\ ~silent /\ run' = [run EXCEPT !.pc = "ended", !.err = "refused"] /\ UNCHANGED command
       \/ ~Sendable /\ run' = [run EXCEPT !.pc = "ended", !.err = "lost"] /\ UNCHANGED command
    /\ UNCHANGED <<dialVars, opts, channel, output, watch, interrupt, copier, silent, termed>>

\* session.Run, second half: the channel is closed and its output is copied.
RunEnds ==
    /\ RunAt("exec")
    /\ channel = "closed" \/ ~Alive(hops)
    /\ output # "pending"
    /\ channel' = "closed"
    /\ run' = [run EXCEPT !.pc = "ended",
                          !.err = CASE command = "exit0" -> "nil" [] command = "exit1" -> "exit" [] OTHER -> "lost"]
    /\ UNCHANGED <<dialVars, opts, command, output, watch, interrupt, copier, silent, termed>>

\* execDeadline.complete, and the close of its done channel.
Complete ==
    /\ RunAt("ended")
    /\ RunGoto("stop")
    /\ watch' = [watch EXCEPT !.completed = TRUE, !.done = TRUE]
    /\ UNCHANGED <<dialVars, opts, command, channel, output, interrupt, copier, silent, termed>>

\* Mutant: stop returns without waiting for the watcher.
StopDeadlineAtOnce ==
    /\ RunAt("stop")
    /\ RunGoto("unhook")
    /\ interrupt' = [interrupt EXCEPT !.done = TRUE]
    /\ UNCHANGED <<dialVars, opts, command, channel, output, watch, copier, silent, termed>>

\* execDeadline.stop waits for the watcher; interrupt.stop closes its channel.
StopDeadline ==
    /\ RunAt("stop") /\ watch.pc \in {"off", "finished"}
    /\ RunGoto("unhook")
    /\ interrupt' = [interrupt EXCEPT !.done = TRUE]
    /\ UNCHANGED <<dialVars, opts, command, channel, output, watch, copier, silent, termed>>

\* Mutant: a failure to write the output is not looked at.
OutcomesUnchecked ==
    CASE interrupt.interrupted -> {"interrupted"}
      [] ~interrupt.interrupted /\ watch.signalSent -> {"exec_timeout"}
      [] OTHER -> {CASE run.err = "nil" -> "ok" [] run.err = "exit" -> "exit" [] OTHER -> "connection_lost"}

\* What Run reports, first match first; the last flush may fail too.
Outcomes ==
    CASE output = "failed" -> {"write_failed"}
      [] output # "failed" /\ interrupt.interrupted -> {"interrupted"}
      [] output # "failed" /\ ~interrupt.interrupted /\ watch.signalSent -> {"exec_timeout"}
      [] OTHER -> {CASE run.err = "nil" -> "ok" [] run.err = "exit" -> "exit" [] OTHER -> "connection_lost"}
                      \cup (IF opts.capture THEN {} ELSE {"write_failed"})

\* Interrupt watcher stopped: report, close the session, release the client.
Report ==
    /\ RunAt("unhook") /\ interrupt.pc \in {"off", "finished"}
    /\ \E outcome \in Outcomes : Return(outcome)
    /\ Release
    /\ UNCHANGED <<caller, hops, attempt, dial, key, sent, login, late, abort, probe,
                   opts, command, output, watch, interrupt, copier, silent, termed>>

RunStep == PlanStdin \/ Acquire \/ Prepare \/ Start \/ RunEnds \/ Complete \/ StopDeadline \/ Report

-----------------------------------------------------------------------------
(* execWatch                                                               *)

Watch(p) == watch' = [watch EXCEPT !.pc = p]
WatchOnly == UNCHANGED <<dialVars, opts, run, command, output, interrupt, copier, silent>>

\* enforce: the deadline passes, or done is closed first.
DeadlineFires ==
    /\ watch.pc = "armed"
    /\ Watch("fired") \/ (watch.done /\ Watch("finished"))
    /\ WatchOnly /\ UNCHANGED <<channel, termed>>

DeadlineReads ==
    /\ watch.pc = "fired"
    /\ Watch(IF watch.completed THEN "finished" ELSE "signal")
    /\ WatchOnly /\ UNCHANGED <<channel, termed>>

\* SIGTERM, sent without the lock.
DeadlineSignals ==
    /\ watch.pc = "signal"
    /\ IF Sendable THEN termed' = TRUE /\ Watch("mark") ELSE Watch("finished") /\ UNCHANGED termed
    /\ WatchOnly /\ UNCHANGED channel

DeadlineMarks ==
    /\ watch.pc = "mark"
    /\ watch' = [watch EXCEPT !.pc = "grace", !.signalSent = TRUE]
    /\ WatchOnly /\ UNCHANGED <<channel, termed>>

\* Mutant: the deadline waits for the command it signalled.
DeadlineGraceForever ==
    /\ watch.pc = "grace"
    /\ watch.done /\ UNCHANGED channel
    /\ Watch("finished")
    /\ WatchOnly /\ UNCHANGED termed

\* The command gets its grace, then the session is closed.
DeadlineGrace ==
    /\ watch.pc = "grace"
    /\ (watch.done /\ UNCHANGED channel) \/ SessionClose
    /\ Watch("finished")
    /\ WatchOnly /\ UNCHANGED termed

WatchStep == DeadlineFires \/ DeadlineReads \/ DeadlineSignals \/ DeadlineMarks \/ DeadlineGrace

-----------------------------------------------------------------------------
(* runInterrupt                                                            *)

Interrupt(p) == interrupt' = [interrupt EXCEPT !.pc = p]
InterruptOnly == UNCHANGED <<dialVars, opts, run, command, output, watch, copier, silent, termed>>

\* signal.Notify queues the signal while the watcher is installed.
UserSignals ==
    /\ interrupt.pc # "off" /\ ~interrupt.done /\ interrupt.total < MaxSignals
    /\ interrupt' = [interrupt EXCEPT !.pending = @ + 1, !.total = @ + 1]
    /\ InterruptOnly /\ UNCHANGED channel

\* forward: the first signal marks the run interrupted, then goes to the remote.
InterruptTakes ==
    /\ interrupt.pc = "armed"
    /\ \/ interrupt.done /\ Interrupt("finished")
       \/ /\ interrupt.pending > 0
          /\ interrupt' = [interrupt EXCEPT !.pc = "grace", !.interrupted = TRUE, !.pending = @ - 1]
    /\ InterruptOnly /\ UNCHANGED channel

\* The end of the run, a second signal, or the grace period.
InterruptGrace ==
    /\ interrupt.pc = "grace"
    /\ \/ interrupt.done /\ Interrupt("finished") /\ UNCHANGED channel
       \/ /\ interrupt' = [interrupt EXCEPT !.pc = "finished",
                                            !.pending = IF @ > 0 THEN @ - 1 ELSE @]
          /\ SessionClose
    /\ InterruptOnly

InterruptStep == InterruptTakes \/ InterruptGrace

-----------------------------------------------------------------------------
(* The remote command, the local writer and the network                    *)

\* The command writes; sshd sends it while the window and the channel allow.
CommandWrites ==
    /\ command = "running" /\ channel = "open" /\ output = "none" /\ Alive(hops)
    /\ output' = "pending"
    /\ UNCHANGED <<dialVars, opts, run, command, channel, watch, interrupt, copier, silent, termed>>

\* The command ends by itself or by a signal; sshd reports it and closes.
CommandEnds ==
    /\ command = "running" /\ channel \in {"open", "sentClose"} /\ Alive(hops) /\ ~silent
    /\ command' \in {"exit0", "exit1"}
    /\ channel' = "closed"
    /\ UNCHANGED <<dialVars, opts, run, output, watch, interrupt, copier, silent, termed>>

\* sshd answers a close, whatever the command does.
PeerCloses ==
    /\ channel = "sentClose" /\ Alive(hops) /\ ~silent
    /\ channel' = "closed"
    /\ UNCHANGED <<dialVars, opts, run, command, output, watch, interrupt, copier, silent, termed>>

\* abortingWriter: written, or failed and the session is closed.
WriteOutput ==
    /\ output = "pending"
    /\ \/ output' = "written" /\ UNCHANGED channel
       \/ ~opts.capture /\ output' = "failed" /\ SessionClose
    /\ UNCHANGED <<dialVars, opts, run, command, watch, interrupt, copier, silent, termed>>

\* forwardStdin: local stdin ends, or never does.
StdinEnds ==
    /\ copier = "copying"
    /\ copier' = "ended"
    /\ UNCHANGED <<dialVars, opts, run, command, channel, output, watch, interrupt, silent, termed>>

\* The peer goes quiet; the keepalive closes the client after its misses.
PeerSilent ==
    /\ ~silent /\ At("ok") /\ Alive(hops) /\ run.pc \in {"start", "exec"}
    /\ silent' = TRUE
    /\ UNCHANGED <<dialVars, opts, run, command, channel, output, watch, interrupt, copier, termed>>

KeepaliveCloses ==
    /\ silent /\ Alive(hops)
    /\ CloseTarget
    /\ UNCHANGED <<caller, hops, attempt, dial, key, sent, login, late, abort, probe, runVars>>

RunNext ==
    \/ RunStep \/ WatchStep \/ InterruptStep \/ KeepaliveCloses \/ WriteOutput \/ PeerCloses
    \/ UserSignals \/ CommandWrites \/ CommandEnds \/ StdinEnds \/ PeerSilent
=============================================================================
