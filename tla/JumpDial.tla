------------------------------ MODULE JumpDial ------------------------------
(***************************************************************************)
(* Dialling an alias, directly or through its jump hosts, for a command,   *)
(* a tunnel or `wait` (internal/ssh: jump.go, pool.go, auth.go, wait.go;   *)
(* cmd/ssm/connections.go).  Every hop after the first is an SSH handshake *)
(* over a channel of the hop before it.  `wait` bounds a chain dial as a   *)
(* whole: on expiry another goroutine tears the dial down.                 *)
(***************************************************************************)
EXTENDS Integers, FiniteSets

CONSTANTS
    MaxHops,        \* the length of the longest chain
    MaxAttempts     \* how often the dial may be repeated

ASSUME DialAssumption == MaxHops \in Nat \ {0} /\ MaxAttempts \in Nat \ {0}

VARIABLES
    caller,    \* what dials: "run", "tunnel" or "wait"
    hops,      \* the length of the chain; 1 is a direct connection
    attempt,   \* the dial in progress, counted from 1
    dial,      \* its goroutine: where it is, at which hop, and how it failed
    conn,      \* the transport of each hop, as this process holds it
    key,       \* the hops whose host key arrived (their `reached` flags)
    sent,      \* the hops that were sent a credential
    login,     \* the hops that accepted it
    late,      \* the hops whose tunnel was given up while still being opened
    abort,     \* the dialAbort of a chain probe
    probe      \* the goroutine of `wait`, and what it says of the failure

dialVars == <<caller, hops, attempt, dial, conn, key, sent, login, late, abort, probe>>

Hop == 1 .. MaxHops
NoConns == [h \in Hop |-> "none"]
NoAbort == [done |-> FALSE, conns |-> {}, current |-> 0]
FirstHop == [pc |-> "hop", hop |-> 1, why |-> "none"]

DialInit ==
    /\ caller \in {"run", "tunnel", "wait"} /\ hops \in Hop
    /\ attempt = 1 /\ dial = IF caller = "run" THEN [FirstHop EXCEPT !.pc = "idle"] ELSE FirstHop
    /\ conn = NoConns /\ key = {} /\ sent = {} /\ login = {} /\ late = {}
    /\ abort = NoAbort
    /\ probe = [pc |-> IF caller = "wait" THEN "wait" ELSE "off", past |-> FALSE, orphan |-> FALSE]

At(p) == dial.pc = p
This == dial.hop
Goto(p) == dial' = [dial EXCEPT !.pc = p]

\* A hop works as long as every transport under it does.
Alive(h) == \A g \in 1 .. h : conn[g] = "open"
Closed(S) == [h \in Hop |-> IF h \in S /\ conn[h] = "open" THEN "closed" ELSE conn[h]]
CloseTarget == conn' = Closed({hops})

\* Only a chain probe passes a dialAbort; the others pass nil.
Abortable == caller = "wait" /\ hops > 1
Aborted == abort.done

\* The failing hop closes its own transport.
Fails(why) ==
    /\ dial' = [dial EXCEPT !.pc = "undo", !.why = why]
    /\ conn' = Closed({This})

-----------------------------------------------------------------------------
(* The dial                                                                *)

\* dialHops: a fresh flag for this hop, and its credentials from the vault.
StartHop ==
    /\ At("hop")
    /\ abort' = IF Abortable THEN [abort EXCEPT !.current = This] ELSE abort
    /\ \/ Goto("connect") /\ UNCHANGED conn
       \/ Fails("credentials")
    /\ UNCHANGED <<caller, hops, attempt, key, sent, login, late, probe>>

\* Mutant: the connection is not recorded for the abort.
RegisterUnrecorded ==
    /\ Goto("handshake")
    /\ conn' = [conn EXCEPT ![This] = "open"]
    /\ UNCHANGED abort

\* dialAbort.register: a connection that opens after the abort is closed.
Register ==
    IF Aborted
    THEN /\ dial' = [dial EXCEPT !.pc = "undo", !.why = "abandoned"]
         /\ conn' = [conn EXCEPT ![This] = "closed"]
         /\ UNCHANGED abort
    ELSE /\ Goto("handshake")
         /\ conn' = [conn EXCEPT ![This] = "open"]
         /\ abort' = IF Abortable THEN [abort EXCEPT !.conns = @ \cup {This}] ELSE abort

\* dialConnectDeadline, dialTunnel: opened, refused, or given up at the
\* deadline while the hop before may still be opening the channel.
Connect ==
    /\ At("connect")
    /\ \/ /\ This = 1 \/ Alive(This - 1)
          /\ Register
          /\ UNCHANGED late
       \/ Fails("dial") /\ UNCHANGED <<abort, late>>
       \/ /\ This > 1
          /\ Fails("dial")
          /\ late' = late \cup {This}
          /\ UNCHANGED abort
    /\ UNCHANGED <<caller, hops, attempt, key, sent, login, probe>>

\* The goroutine dialTunnel leaves behind closes what arrives late, if anything.
LateTunnel ==
    /\ late # {}
    /\ \E h \in late : late' = late \ {h}
    /\ UNCHANGED <<caller, hops, attempt, dial, conn, key, sent, login, abort, probe>>

\* The flag is stored before anything is checked.
KeyArrives ==
    /\ At("handshake") /\ Alive(This)
    /\ key' = key \cup {This}
    /\ Goto("check")
    /\ UNCHANGED <<caller, hops, attempt, conn, sent, login, late, abort, probe>>

\* EOF, reset, the deadline, or no common algorithm, before the key.  Past the
\* first hop nothing promises that the deadline is ever noticed (AwaitsJump).
HandshakeFails ==
    /\ At("handshake")
    /\ \E why \in {"handshake", "mismatch"} : Fails(why)
    /\ UNCHANGED <<caller, hops, attempt, key, sent, login, late, abort, probe>>

\* trackedHostKeyCallback: an abandoned dial refuses the key; known_hosts decides otherwise.
CheckKey ==
    /\ At("check")
    /\ IF Aborted THEN Fails("abandoned")
       ELSE (Goto("auth") /\ UNCHANGED conn) \/ Fails("hostkey")
    /\ UNCHANGED <<caller, hops, attempt, key, sent, login, late, abort, probe>>

\* A credential goes out only over a transport that is still open.
Authenticate ==
    /\ At("auth")
    /\ IF Alive(This) THEN sent' = sent \cup {This} /\ Goto("answer") /\ UNCHANGED conn
       ELSE Fails("handshake") /\ UNCHANGED sent
    /\ UNCHANGED <<caller, hops, attempt, key, login, late, abort, probe>>

\* Accepted, rejected, or dropped without an answer.
Answer ==
    /\ At("answer")
    /\ \/ Alive(This) /\ login' = login \cup {This} /\ Goto("client") /\ UNCHANGED conn
       \/ Alive(This) /\ Fails("auth") /\ UNCHANGED login
       \/ Fails("handshake") /\ UNCHANGED login
    /\ UNCHANGED <<caller, hops, attempt, key, sent, late, abort, probe>>

\* handshakeOverTunnel, dialSSHClient: the deadline may have passed, or the
\* transport been closed, while the handshake succeeded.
NewClient ==
    /\ At("client")
    /\ \/ Fails("handshake")
       \/ /\ Alive(This)
          /\ dial' = IF This = hops THEN [dial EXCEPT !.pc = "ok"]
                     ELSE [dial EXCEPT !.pc = "hop", !.hop = This + 1]
          /\ UNCHANGED conn
    /\ UNCHANGED <<caller, hops, attempt, key, sent, login, late, abort, probe>>

\* Mutant: a failed dial leaves the earlier hops open.
UndoLeavesJumps ==
    /\ At("undo")
    /\ Goto("failed")
    /\ UNCHANGED <<caller, hops, attempt, conn, key, sent, login, late, abort, probe>>

\* dialHops on failure: the clients of the earlier hops are closed.
Undo ==
    /\ At("undo")
    /\ Goto("failed")
    /\ conn' = Closed(1 .. (This - 1))
    /\ UNCHANGED <<caller, hops, attempt, key, sent, login, late, abort, probe>>

\* dialChainTracked: the jump hosts are closed once the target's connection ends.
CloseJumps ==
    /\ At("ok") /\ hops > 1 /\ ~Alive(hops) /\ \E h \in 1 .. (hops - 1) : conn[h] = "open"
    /\ conn' = Closed(1 .. (hops - 1))
    /\ UNCHANGED <<caller, hops, attempt, dial, key, sent, login, late, abort, probe>>

\* A read past the first hop ends when the jump hosts answer: the deadline there
\* closes a channel, which the jump host has to confirm, and no keepalive runs
\* before the last hop is dialled.  Closing the first hop's socket ends it too.
AwaitsJump == This > 1 /\ dial.pc \in {"handshake", "auth", "answer"} /\ conn[1] = "open"

DialStep ==
    StartHop \/ Connect \/ LateTunnel \/ KeyArrives \/ HandshakeFails \/ CheckKey
        \/ Authenticate \/ Answer \/ NewClient \/ Undo \/ CloseJumps

\* classifyHop: past the key exchange of the hop that failed.
PastKey == This \in key

\* RetryableTransportFailure, with the classes the failures have.
Retryable(why, past) == ~past /\ why \in {"dial", "handshake"}

\* The loops of Run and runWait dial again.
Redial ==
    /\ attempt < MaxAttempts
    /\ attempt' = attempt + 1
    /\ dial' = FirstHop
    /\ conn' = NoConns /\ key' = {} /\ sent' = {} /\ login' = {} /\ abort' = NoAbort

-----------------------------------------------------------------------------
(* wait                                                                    *)

Probe(p) == probe' = [probe EXCEPT !.pc = p]

\* The probe's own dial ended: a failure is classified, a client is asked for a
\* session and closed.
ProbeResult ==
    /\ probe.pc = "wait" /\ caller = "wait"
    /\ \/ /\ At("failed")
          /\ probe' = [probe EXCEPT !.pc = IF Retryable(dial.why, PastKey) THEN "again" ELSE "stop",
                                    !.past = PastKey]
          /\ UNCHANGED conn
       \/ /\ At("ok")
          /\ CloseTarget
          /\ \/ Probe("ready")
             \/ probe' = [probe EXCEPT !.pc = "stop", !.past = TRUE]
    /\ UNCHANGED <<caller, hops, attempt, dial, key, sent, login, late, abort>>

\* waitChainProbe at its timeout: dialAbort.abort refuses from now on ...
ProbeExpires ==
    /\ probe.pc = "wait" /\ Abortable
    /\ abort' = [abort EXCEPT !.done = TRUE]
    /\ Probe("close")
    /\ UNCHANGED <<caller, hops, attempt, dial, conn, key, sent, login, late>>

\* ... and closes every connection the dial had opened.
ProbeCloses ==
    /\ probe.pc = "close"
    /\ conn' = Closed(abort.conns)
    /\ abort' = [abort EXCEPT !.conns = {}]
    /\ Probe("read")
    /\ UNCHANGED <<caller, hops, attempt, dial, key, sent, login, late>>

\* Mutant: the flag of the target stands for the hop in progress.
ProbeReadsTarget ==
    /\ probe.pc = "read"
    /\ probe' = [probe EXCEPT !.pc = "drain", !.past = hops \in key]
    /\ UNCHANGED <<caller, hops, attempt, dial, conn, key, sent, login, late, abort>>

\* currentReached, read after the abort.
ProbeReads ==
    /\ probe.pc = "read"
    /\ probe' = [probe EXCEPT !.pc = "drain", !.past = abort.current \in key]
    /\ UNCHANGED <<caller, hops, attempt, dial, conn, key, sent, login, late, abort>>

\* The dial ended, or is left to a goroutine that closes its client.
ProbeDrains ==
    /\ probe.pc = "drain"
    /\ \/ /\ At("failed") \/ At("ok")
          /\ conn' = IF At("ok") THEN Closed({hops}) ELSE conn
          /\ Probe(IF Retryable("handshake", probe.past) THEN "again" ELSE "stop")
       \/ /\ ~At("failed") /\ ~At("ok")
          /\ probe' = [probe EXCEPT !.pc = IF Retryable("handshake", probe.past) THEN "again" ELSE "stop",
                                    !.orphan = TRUE]
          /\ UNCHANGED conn
    /\ UNCHANGED <<caller, hops, attempt, dial, key, sent, login, late, abort>>

OrphanCloses ==
    /\ probe.orphan /\ (At("ok") \/ At("failed"))
    /\ conn' = IF At("ok") THEN Closed({hops}) ELSE conn
    /\ probe' = [probe EXCEPT !.orphan = FALSE]
    /\ UNCHANGED <<caller, hops, attempt, dial, key, sent, login, late, abort>>

\* runWait: another attempt, or the end of its time.  A bound of the model: the
\* next attempt starts when the goroutine left behind has ended.
WaitAgain ==
    /\ probe.pc = "again"
    /\ \/ /\ ~probe.orphan
          /\ Redial
          /\ probe' = [pc |-> "wait", past |-> FALSE, orphan |-> FALSE]
       \/ Probe("stop") /\ UNCHANGED <<attempt, dial, conn, key, sent, login, abort>>
    /\ UNCHANGED <<caller, hops, late>>

ProbeStep == ProbeResult \/ ProbeCloses \/ ProbeReads \/ ProbeDrains \/ OrphanCloses

DialNext == DialStep \/ ProbeStep \/ ProbeExpires \/ WaitAgain
=============================================================================
