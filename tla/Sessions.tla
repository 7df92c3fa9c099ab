------------------------------ MODULE Sessions ------------------------------
(***************************************************************************)
(* A command, a tunnel or a wait, each over the dial of JumpDial.          *)
(***************************************************************************)
EXTENDS RunCommand, Tunnel

vars == <<dialVars, runVars, tunnelVars>>

Init == DialInit /\ RunInit /\ TunnelInit

Next ==
    \/ DialNext /\ UNCHANGED <<runVars, tunnelVars>>
    \/ RunNext /\ UNCHANGED tunnelVars
    \/ TunnelNext /\ UNCHANGED runVars

Spec == Init /\ [][Next]_vars

\* Every goroutine of this process goes on and its timers fire; a peer that is
\* not silent answers a close; the local reader of the output reads or goes
\* away.  Nothing is assumed of the command, the user, the targets of a tunnel,
\* the clients of its listeners or the jump hosts a dial waits for.
FairSpec ==
    /\ Spec
    /\ WF_vars(DialStep /\ ~AwaitsJump /\ UNCHANGED <<runVars, tunnelVars>>)
    /\ WF_vars(LateTunnel /\ UNCHANGED <<runVars, tunnelVars>>)
    /\ WF_vars((ProbeStep \/ ProbeExpires) /\ UNCHANGED <<runVars, tunnelVars>>)
    /\ WF_vars(CloseJumps /\ UNCHANGED <<runVars, tunnelVars>>)
    /\ WF_vars(RunStep /\ UNCHANGED tunnelVars)
    /\ WF_vars(WatchStep /\ UNCHANGED tunnelVars)
    /\ WF_vars(InterruptStep /\ UNCHANGED tunnelVars)
    /\ WF_vars(KeepaliveCloses /\ UNCHANGED tunnelVars)
    /\ WF_vars((WriteOutput \/ PeerCloses) /\ UNCHANGED tunnelVars)
    /\ WF_vars(TunnelStep /\ UNCHANGED runVars)
    /\ \A l \in Specs : WF_vars(AcceptStep(l) /\ UNCHANGED runVars)
    /\ \A c \in Conn : WF_vars(HandlerStep(c) /\ UNCHANGED runVars)

-----------------------------------------------------------------------------
\* Every variable has its type: the dial, the command and the tunnel.
DialType ==
    /\ caller \in {"run", "tunnel", "wait"} /\ hops \in Hop /\ attempt \in 1 .. MaxAttempts
    /\ dial \in [pc : {"idle", "hop", "connect", "handshake", "check", "auth", "answer", "client", "undo", "failed", "ok"},
                 hop : Hop,
                 why : {"none", "credentials", "dial", "handshake", "mismatch", "hostkey", "auth", "abandoned"}]
    /\ conn \in [Hop -> {"none", "open", "closed"}]
    /\ key \subseteq Hop /\ sent \subseteq Hop /\ login \subseteq Hop /\ late \subseteq Hop
    /\ abort \in [done : BOOLEAN, conns : SUBSET Hop, current : 0 .. MaxHops]
    /\ probe \in [pc : {"off", "wait", "close", "read", "drain", "again", "stop", "ready"},
                  past : BOOLEAN, orphan : BOOLEAN]

RunType ==
    /\ opts \in OptionRecord
    /\ run \in [pc : {"off", "plan", "acquire", "prepare", "start", "exec", "ended", "stop", "unhook", "returned"},
                err : {"none", "nil", "exit", "lost", "refused"},
                outcome : {"none", "stdin_failed", "dial_failed", "session_failed", "prepare_failed", "write_failed",
                           "interrupted", "exec_timeout", "ok", "exit", "connection_lost"}]
    /\ command \in {"none", "running", "exit0", "exit1"}
    /\ channel \in {"none", "open", "sentClose", "closed"}
    /\ output \in {"none", "pending", "written", "failed"}
    /\ watch \in [pc : {"off", "armed", "fired", "signal", "mark", "grace", "finished"},
                  completed : BOOLEAN, signalSent : BOOLEAN, done : BOOLEAN]
    /\ interrupt \in [pc : {"off", "armed", "grace", "finished"}, interrupted : BOOLEAN,
                      pending : 0 .. MaxSignals, total : 0 .. MaxSignals, done : BOOLEAN]
    /\ copier \in {"off", "copying", "ended"} /\ silent \in BOOLEAN /\ termed \in BOOLEAN

TunnelType ==
    /\ tunnel \in [pc : {"off", "dial", "ready", "serve", "close", "accepts", "handlers", "done"},
                   cancelled : BOOLEAN,
                   reason : {"none", "dial_failed", "bind_failed", "ready_failed", "signal", "duration", "connection_lost"}]
    /\ listener \in [Specs -> {"none", "open", "closed"}]
    /\ accept \in [Specs -> {"off", "waiting", "accepted", "ended"}]
    /\ forward \in [Conn -> [spec : Specs \cup {"none"},
                             pc : {"none", "backlog", "accepted", "refused", "ended"} \cup Handler,
                             ended : SUBSET {"client", "target"}, cut : BOOLEAN]]
    /\ readyFile \in {"none", "complete", "torn"}

TypeOK == DialType /\ RunType /\ TunnelType

Waited == probe.pc \in {"again", "stop", "ready"}
Returned == RunAt("returned") \/ TunnelAt("done") \/ Waited

\* A dial is repeated only when every hop that was sent a credential accepted
\* it: a server that counts failed logins never sees a second one from a retry
\* of run or of wait, whatever raced with the probe's timeout.
RetryIsHarmless == [][attempt' # attempt => sent \subseteq login]_vars

\* Once waitChainProbe has given its answer, the dial it abandoned sends no
\* credential, to any hop, however late its connections open.
AbandonedSendsNothing == [][Waited /\ attempt' = attempt => sent' = sent]_vars

\* exec_timeout is reported exactly when the channel took the deadline's
\* SIGTERM, unless the run failed to write its output or was interrupted: the
\* exit status or the loss that follows the signal never hides it.
TimeoutTruthful ==
    RunAt("returned") /\ channel # "none" /\ output # "failed" /\ ~interrupt.interrupted
        /\ run.outcome # "write_failed" =>
            (termed <=> run.outcome = "exec_timeout")

\* Success is reported only for a command that ended by itself with status 0
\* and whose output reached the local writer.
SuccessIsReal ==
    run.outcome = "ok" => command = "exit0" /\ output \in {"none", "written"} /\ ~termed /\ ~interrupt.interrupted

\* When Run, RunTunnel or the probe has returned, its watchers, accept loops
\* and handlers have ended and its listeners are closed (the ports are free);
\* a tunnel leaves no complete ready file.
NothingOutlives ==
    /\ RunAt("returned") => watch.pc \in {"off", "finished"} /\ interrupt.pc \in {"off", "finished"}
    /\ TunnelAt("done") =>
           /\ \A l \in Specs : listener[l] # "open" /\ accept[l] \in {"off", "ended"}
           /\ \A c \in Conn : forward[c].pc \notin {"accepted"} \cup Handler
           /\ readyFile # "complete"

\* A forwarded connection is cut before both of its ends have sent everything
\* only when the tunnel stops.
RelaysUntilBothEnd == \A c \in Conn : forward[c].cut => tunnel.cancelled

\* The deadline, a signal or failed output asks the command to stop; a signal
\* or a lost connection the tunnel.
Asked ==
    \/ RunAt("exec") /\ (termed \/ interrupt.interrupted \/ output = "failed")
    \/ tunnel.cancelled

\* A dial ends, unless a jump host falls silent during a handshake behind it:
\* only `wait` has a timeout that ends that too.  A command whose deadline
\* signalled it, that was interrupted or whose output cannot be written returns
\* although the remote ignores the signal or the peer is silent; a stopping
\* tunnel returns although its clients and targets stay quiet.
StopsWhenAsked ==
    /\ <>(At("ok") \/ At("failed") \/ Returned) \/ <>[](caller # "wait" /\ AwaitsJump)
    /\ Asked ~> Returned

\* Every transport is closed in the end, whoever dialled, unless the pool keeps
\* the client for the next command or another attempt opened its own.
NothingLeaks ==
    (Returned /\ ~opts.reuse) ~> (late = {} /\ \A h \in Hop : conn[h] = "open" => \E g \in 1 .. h : conn[g] = "closed")

\* A command or tunnel that returned left nothing running and no port taken
\* (NothingOutlives); before that a tunnel cuts no relay by itself
\* (RelaysUntilBothEnd) and never handles more connections than its slots.
TunnelSound ==
    /\ NothingOutlives
    /\ RelaysUntilBothEnd
    /\ \A l \in Specs : Cardinality(Handled(l)) =< Slots

\* Everything that was started winds down: dials, timed out or interrupted
\* commands and stopped tunnels return (StopsWhenAsked) and the transports of
\* whoever returned are closed (NothingLeaks).
WindsDown == StopsWhenAsked /\ NothingLeaks
=============================================================================
