--------------------------- MODULE SessionsProofs ---------------------------
(***************************************************************************)
(* What the dial, the command and the tunnel of Sessions keep, for every   *)
(* length of chain, number of attempts and signals, set of options, number *)
(* of client connections and slots.  The dial, the command and the tunnel  *)
(* each have an invariant over their own variables; a step of one leaves   *)
(* the invariants of the others alone, up to what it does to the           *)
(* transports, which only the dial opens.                                  *)
(***************************************************************************)
EXTENDS Sessions, FiniteSetTheorems, TLAPS

\* Who runs: exactly one of the three callers does anything, and a command
\* dials only once it has planned its stdin.
CallerInv ==
    /\ run.pc # "off" <=> caller = "run"
    /\ tunnel.pc # "off" <=> caller = "tunnel"
    /\ probe.pc # "off" <=> caller = "wait"
    /\ run.pc = "plan" => At("idle")

\* A credential that was not accepted went to the hop at which the dial
\* stands or failed, and that hop's key had arrived before it.
SentInv ==
    /\ This =< hops
    /\ sent \subseteq key
    /\ dial.pc \in {"check", "auth"} => This \in key
    /\ \A h \in sent : h \notin login => h = This /\ dial.pc \in {"answer", "undo", "failed"}

\* The abort of a chain probe: a transport that is open is one it knows of;
\* once it has closed them none is open; the hop it takes for the current one
\* is the hop of the dial.
AbortInv ==
    /\ abort.done => Abortable /\ probe.pc \in {"close", "read", "drain", "again", "stop"}
    /\ probe.pc \in {"close", "read", "drain"} => abort.done
    /\ Abortable => \A h \in Hop : conn[h] = "open" /\ probe.pc \in {"wait", "close"} => h \in abort.conns
    /\ abort.done /\ probe.pc # "close" => \A h \in Hop : conn[h] # "open"
    /\ Abortable /\ dial.pc # "hop" => abort.current = This

\* What the answer of the probe rests on: it is given when the dial has ended
\* or was torn down, and another attempt only when no credential is unanswered.
ProbeInv ==
    /\ Waited /\ ~abort.done => dial.pc \in {"ok", "failed"}
    /\ probe.pc = "drain" /\ ~probe.past => sent \subseteq login
    /\ probe.pc = "again" => sent \subseteq login

\* The deadline: its signal and the mark it leaves agree, but between the two.
WatchInv ==
    /\ watch.pc \in {"off", "armed", "fired", "signal"} => ~termed /\ ~watch.signalSent
    /\ watch.pc = "mark" => termed
    /\ watch.pc # "mark" => (termed <=> watch.signalSent)

Early == {"off", "plan", "acquire", "prepare"}
Ended == {"ended", "stop", "unhook", "returned"}

\* The command: nothing stands beside it before it is prepared; its output is
\* over when it has ended; the report agrees with what was seen.
CommandInv ==
    /\ run.pc \in Early =>
           watch.pc = "off" /\ interrupt.pc = "off" /\ ~interrupt.interrupted
    /\ run.pc \in Early \cup {"start"} => command = "none" /\ output = "none"
    /\ run.pc \notin Ended => run.err = "none"
    /\ run.pc # "returned" => run.outcome = "none"
    /\ run.pc \in Ended => output # "pending" /\ (command # "running" \/ channel = "closed")
    /\ run.pc \in {"unhook", "returned"} => watch.pc \in {"off", "finished"}
    /\ run.pc = "returned" => interrupt.pc \in {"off", "finished"}
    /\ run.err = "nil" => command = "exit0"
    /\ interrupt.pending =< interrupt.total

ReportInv ==
    /\ run.pc = "returned" /\ output # "failed" /\ ~interrupt.interrupted /\ run.outcome # "write_failed" =>
           (termed <=> run.outcome = "exec_timeout")
    /\ SuccessIsReal

\* The tunnel: its listeners and its accept loops by where RunTunnel is, and
\* the connection each accept loop holds.
PhaseInv ==
    /\ tunnel.pc = "off" => \A l \in Specs : listener[l] = "none"
    /\ (\E l \in Specs : listener[l] # "none") => At("ok")
    /\ tunnel.pc \in {"off", "dial", "ready"} =>
           /\ \A l \in Specs : accept[l] = "off"
           /\ readyFile = "none"
    /\ tunnel.pc \in {"close", "accepts", "handlers", "done"} => \A l \in Specs : listener[l] # "open"
    /\ tunnel.pc = "handlers" => \A l \in Specs : accept[l] = "ended"
    /\ tunnel.pc = "done" =>
           /\ \A l \in Specs : accept[l] \in {"off", "ended"}
           /\ \A c \in Conn : forward[c].pc \notin Handler
           /\ readyFile # "complete"
    /\ tunnel.pc \in {"off", "dial", "ready"} => \A c \in Conn : forward[c].pc \in {"none", "backlog"}

HoldInv ==
    /\ \A c \in Conn : forward[c].pc \in {"backlog", "accepted"} \cup Handler => forward[c].spec \in Specs
    /\ \A c \in Conn : forward[c].pc = "accepted" => accept[forward[c].spec] = "accepted"
    /\ \A c, d \in Conn : forward[c].pc = "accepted" /\ forward[d].pc = "accepted"
                              /\ forward[c].spec = forward[d].spec => c = d

SlotInv == \A l \in Specs : IsFiniteSet(Handled(l)) /\ Cardinality(Handled(l)) =< Slots

DialInv == SentInv /\ AbortInv /\ ProbeInv
RunInv == WatchInv /\ CommandInv /\ ReportInv
TunnelInv == PhaseInv /\ HoldInv /\ SlotInv /\ RelaysUntilBothEnd

Inv == TypeOK /\ CallerInv /\ DialInv /\ RunInv /\ TunnelInv

-----------------------------------------------------------------------------
(* The dial                                                                *)

\* What a step does to the transports when it opens none.
OnlyCloses ==
    /\ conn' \in [Hop -> {"none", "open", "closed"}]
    /\ \A h \in Hop : conn'[h] = "open" => conn[h] = "open"

\* Closing a set of transports opens none and leaves none of the set open.
LEMMA ClosedCloses ==
    ASSUME DialType, NEW S, conn' = Closed(S)
    PROVE  OnlyCloses /\ \A h \in Hop : h \in S => conn'[h] # "open"
BY DEF DialType, Closed, OnlyCloses

\* A hop below which a transport is not open is not alive.
LEMMA AliveIsOpen ==
    ASSUME DialType, NEW h \in Hop, Alive(h)
    PROVE  conn[h] = "open"
BY DialAssumption DEF Alive, Hop, DialType

\* A step of another part of the process that opens no transport leaves the
\* invariant of the dial alone.
LEMMA DialUntouched ==
    ASSUME DialType, DialInv, OnlyCloses,
           UNCHANGED <<caller, hops, attempt, dial, key, sent, login, late, abort, probe>>
    PROVE  DialType' /\ DialInv'
<1>1. DialType'
  BY DEF DialType, OnlyCloses
<1>2. SentInv'
  BY DEF DialInv, SentInv, This
<1>3. AbortInv'
  BY DEF DialInv, AbortInv, Abortable, This, OnlyCloses
<1>4. ProbeInv'
  BY DEF DialInv, ProbeInv, Waited
<1> QED
  BY <1>1, <1>2, <1>3, <1>4 DEF DialInv

\* A new attempt starts with no transport, no credential and no abort.
LEMMA RedialStarts ==
    ASSUME DialType, Redial, UNCHANGED <<caller, hops, late>>,
           probe' \in [pc : {"off", "wait"}, past : BOOLEAN, orphan : BOOLEAN]
    PROVE  DialType' /\ DialInv'
<1>1. 1 \in Hop /\ 1 =< hops /\ 0 \in 0 .. MaxHops
  BY DialAssumption DEF Hop, DialType
<1>2. FirstHop \in [pc : {"hop"}, hop : {1}, why : {"none"}]
  BY DEF FirstHop
<1>3. NoConns \in [Hop -> {"none"}] /\ NoAbort \in [done : {FALSE}, conns : {{}}, current : {0}]
  BY DEF NoConns, NoAbort
<1>4. DialType'
  <2>1. attempt' \in 1 .. MaxAttempts
    BY DialAssumption DEF DialType, Redial
  <2>2. dial' \in [pc : {"hop"}, hop : Hop, why : {"none"}]
    BY <1>1, <1>2 DEF Redial
  <2>3. conn' \in [Hop -> {"none", "open", "closed"}]
    BY <1>3 DEF Redial
  <2>4. abort' \in [done : BOOLEAN, conns : SUBSET Hop, current : 0 .. MaxHops]
    BY <1>1, <1>3 DEF Redial
  <2> QED
    BY <2>1, <2>2, <2>3, <2>4 DEF DialType, Redial
<1>5. SentInv'
  BY <1>1, <1>2 DEF SentInv, Redial, This
<1>6. AbortInv'
  BY <1>2, <1>3 DEF AbortInv, Redial, Abortable, This
<1>7. ProbeInv'
  BY <1>3 DEF ProbeInv, Redial, Waited
<1> QED
  BY <1>4, <1>5, <1>6, <1>7 DEF DialInv

\* A hop that fails closes its transport and leaves the dial to undo the rest.
LEMMA FailsStep ==
    ASSUME DialType, SentInv, NEW why \in {"credentials", "dial", "handshake", "mismatch", "hostkey", "auth", "abandoned"},
           Fails(why)
    PROVE  /\ OnlyCloses
           /\ dial' \in [pc : {"undo"}, hop : Hop, why : {why}]
           /\ This' = This
<1>1. OnlyCloses
  BY ClosedCloses DEF Fails
<1> QED
  BY <1>1 DEF Fails, DialType, This

\* A step that moves the dial at its hop without sending anything.
LEMMA MoveStep ==
    ASSUME DialType, DialInv, OnlyCloses,
           dial' \in [pc : {"connect", "handshake", "auth", "client", "undo", "failed", "ok"}, hop : Hop,
                      why : {"none", "credentials", "dial", "handshake", "mismatch", "hostkey", "auth", "abandoned"}],
           This' = This,
           dial.pc \in {"answer", "undo"} => dial'.pc \in {"undo", "failed"} \/ sent \subseteq login',
           dial'.pc = "auth" => dial.pc = "check",
           dial.pc \notin {"ok", "failed"},
           dial.pc # "hop", login \subseteq login', login' \subseteq Hop, late' \subseteq Hop,
           UNCHANGED <<caller, hops, attempt, key, sent, abort, probe>>
    PROVE  DialType' /\ DialInv'
<1>1. DialType'
  BY DEF DialType, OnlyCloses
<1>2. SentInv'
  BY DEF DialType, DialInv, SentInv, This
<1>3. AbortInv'
  BY DEF DialInv, AbortInv, Abortable, This, OnlyCloses
<1>4. ProbeInv'
  BY DEF DialInv, ProbeInv, Waited
<1> QED
  BY <1>1, <1>2, <1>3, <1>4 DEF DialInv

LEMMA StartHopStep ==
    ASSUME DialType, DialInv, StartHop
    PROVE  DialType' /\ DialInv'
<1> USE DEF DialInv
<1>1. dial' \in [pc : {"connect", "undo"}, hop : Hop, why : {"none", "credentials", "dial", "handshake", "mismatch", "hostkey", "auth", "abandoned"}]
      /\ This' = This /\ OnlyCloses
  <2>1. CASE Goto("connect") /\ UNCHANGED conn
    BY <2>1 DEF DialType, Goto, This, OnlyCloses
  <2>2. CASE Fails("credentials")
    BY <2>2, FailsStep
  <2> QED
    BY <2>1, <2>2 DEF StartHop
<1>2. abort' \in [done : BOOLEAN, conns : SUBSET Hop, current : 0 .. MaxHops]
      /\ abort'.done = abort.done /\ abort'.conns = abort.conns
      /\ (Abortable => abort'.current = This)
  <2>1. This \in 0 .. MaxHops
    BY DialAssumption DEF DialType, This, Hop
  <2>2. abort \in [done : BOOLEAN, conns : SUBSET Hop, current : 0 .. MaxHops]
    BY DEF DialType
  <2>3. abort' = IF Abortable THEN [abort EXCEPT !.current = This] ELSE abort
    BY DEF StartHop
  <2>4. CASE Abortable
    BY <2>1, <2>2, <2>3, <2>4
  <2>5. CASE ~Abortable
    BY <2>2, <2>3, <2>5
  <2> QED
    BY <2>4, <2>5
<1>3. dial.pc = "hop" /\ UNCHANGED <<caller, hops, attempt, key, sent, login, late, probe>>
  BY DEF StartHop, At
<1>4. DialType'
  BY <1>1, <1>2, <1>3 DEF DialType, OnlyCloses
<1>5. SentInv'
  BY <1>1, <1>3 DEF DialType, SentInv, This
<1>6. AbortInv'
  BY <1>1, <1>2, <1>3 DEF AbortInv, Abortable, This, OnlyCloses
<1>7. ProbeInv'
  BY <1>2, <1>3 DEF ProbeInv, Waited
<1> QED
  BY <1>4, <1>5, <1>6, <1>7

LEMMA ConnectStep ==
    ASSUME DialType, DialInv, Connect
    PROVE  DialType' /\ DialInv'
<1> DEFINE Why == {"none", "credentials", "dial", "handshake", "mismatch", "hostkey", "auth", "abandoned"}
<1> USE DEF DialInv
<1>0. This \in Hop /\ dial.pc = "connect" /\ UNCHANGED <<caller, hops, attempt, key, sent, login, probe>>
  BY DEF Connect, At, This, DialType
<1>1. CASE Fails("dial") /\ UNCHANGED abort /\ late' \subseteq Hop
  BY <1>0, <1>1, FailsStep, MoveStep DEF DialType
<1>2. CASE Register /\ UNCHANGED late
  <2>1. CASE Aborted
    <3>1. dial' \in [pc : {"undo"}, hop : Hop, why : Why] /\ This' = This /\ UNCHANGED abort
      <4>1. dial' = [dial EXCEPT !.pc = "undo", !.why = "abandoned"] /\ UNCHANGED abort
        BY <1>2, <2>1 DEF Register
      <4> QED
        BY <4>1 DEF DialType, This
    <3>2. OnlyCloses
      BY <1>0, <1>2, <2>1 DEF Register, DialType, OnlyCloses
    <3> QED
      BY <1>0, <1>2, <3>1, <3>2, MoveStep DEF DialType
  <2>2. CASE ~Aborted
    <3>1. dial' \in [pc : {"handshake"}, hop : Hop, why : Why] /\ This' = This
      BY <1>2, <2>2 DEF Register, DialType, This, Goto
    <3>2. conn' = [conn EXCEPT ![This] = "open"]
          /\ abort' = IF Abortable THEN [abort EXCEPT !.conns = @ \cup {This}] ELSE abort
      BY <1>2, <2>2 DEF Register
    <3>3. abort' \in [done : BOOLEAN, conns : SUBSET Hop, current : 0 .. MaxHops]
          /\ abort'.done = abort.done /\ abort.conns \subseteq abort'.conns /\ abort'.current = abort.current
          /\ (Abortable => This \in abort'.conns)
      BY <1>0, <3>2 DEF DialType
    <3>4. DialType'
      BY <1>0, <1>2, <3>1, <3>2, <3>3 DEF DialType
    <3>5. SentInv'
      BY <1>0, <3>1 DEF DialType, SentInv, This
    <3>6. AbortInv'
      BY <1>0, <2>2, <3>1, <3>2, <3>3 DEF AbortInv, Abortable, Aborted, This, DialType
    <3>7. ProbeInv'
      BY <1>0, <2>2, <3>3 DEF ProbeInv, Waited, Aborted
    <3> QED
      BY <3>4, <3>5, <3>6, <3>7
  <2> QED
    BY <2>1, <2>2
<1> QED
  BY <1>0, <1>1, <1>2 DEF Connect, DialType

LEMMA LateTunnelStep ==
    ASSUME DialType, DialInv, LateTunnel
    PROVE  DialType' /\ DialInv'
<1>1. DialType'
  BY DEF DialType, LateTunnel
<1>2. SentInv' /\ AbortInv' /\ ProbeInv'
  BY DEF DialInv, SentInv, AbortInv, ProbeInv, Abortable, This, Waited, LateTunnel
<1> QED
  BY <1>1, <1>2 DEF DialInv

LEMMA KeyArrivesStep ==
    ASSUME DialType, DialInv, KeyArrives
    PROVE  DialType' /\ DialInv'
<1> USE DEF DialInv
<1>1. /\ dial.pc = "handshake" /\ dial'.pc = "check" /\ This' = This /\ This \in Hop
      /\ dial' \in [pc : {"check"}, hop : Hop, why : {"none", "credentials", "dial", "handshake", "mismatch", "hostkey", "auth", "abandoned"}]
      /\ key' = key \cup {This}
      /\ UNCHANGED <<caller, hops, attempt, conn, sent, login, late, abort, probe>>
  BY DEF KeyArrives, At, Goto, This, DialType
<1>2. DialType'
  BY <1>1 DEF DialType
<1>3. SentInv'
  BY <1>1 DEF SentInv, This
<1>4. AbortInv'
  BY <1>1 DEF AbortInv, Abortable, This
<1>5. ProbeInv'
  BY <1>1 DEF ProbeInv, Waited
<1> QED
  BY <1>2, <1>3, <1>4, <1>5

LEMMA HandshakeFailsStep ==
    ASSUME DialType, DialInv, HandshakeFails
    PROVE  DialType' /\ DialInv'
<1>1. PICK why \in {"handshake", "mismatch"} : Fails(why)
  BY DEF HandshakeFails
<1>2. OnlyCloses /\ dial' \in [pc : {"undo"}, hop : Hop, why : {why}] /\ This' = This
  BY <1>1, FailsStep DEF DialInv
<1> QED
  BY <1>2, MoveStep DEF HandshakeFails, At, DialType

LEMMA CheckKeyStep ==
    ASSUME DialType, DialInv, CheckKey
    PROVE  DialType' /\ DialInv'
<1> DEFINE Why == {"none", "credentials", "dial", "handshake", "mismatch", "hostkey", "auth", "abandoned"}
<1>0. dial.pc = "check" /\ UNCHANGED <<caller, hops, attempt, key, sent, login, late, abort, probe>>
  BY DEF CheckKey, At
<1>1. OnlyCloses /\ dial' \in [pc : {"auth", "undo"}, hop : Hop, why : Why] /\ This' = This
  <2>1. CASE Goto("auth") /\ UNCHANGED conn
    BY <2>1 DEF Goto, This, DialType, OnlyCloses
  <2>2. CASE Fails("abandoned")
    BY <2>2, FailsStep DEF DialInv
  <2>3. CASE Fails("hostkey")
    BY <2>3, FailsStep DEF DialInv
  <2> QED
    BY <2>1, <2>2, <2>3 DEF CheckKey
<1> QED
  BY <1>0, <1>1, MoveStep DEF DialType

\* The credential: it leaves over an open transport, so no probe has given
\* the dial up, and the hop's key has arrived.
LEMMA AuthenticateStep ==
    ASSUME DialType, DialInv, Authenticate
    PROVE  DialType' /\ DialInv'
<1> USE DEF DialInv
<1>0. dial.pc = "auth" /\ UNCHANGED <<caller, hops, attempt, key, login, late, abort, probe>> /\ This \in Hop
  BY DEF Authenticate, At, DialType, This
<1>1. CASE Alive(This)
  <2>1. sent' = sent \cup {This} /\ UNCHANGED conn /\ This' = This
        /\ dial' \in [pc : {"answer"}, hop : Hop, why : {"none", "credentials", "dial", "handshake", "mismatch", "hostkey", "auth", "abandoned"}]
    BY <1>1 DEF Authenticate, Goto, DialType, This
  <2>2. conn[This] = "open"
    BY <1>0, <1>1, AliveIsOpen
  <2>3. ~abort.done \/ probe.pc = "close"
    BY <1>0, <2>2 DEF AbortInv
  <2>4. DialType'
    BY <1>0, <2>1 DEF DialType
  <2>5. SentInv'
    BY <1>0, <2>1 DEF SentInv, This
  <2>6. AbortInv'
    BY <1>0, <2>1 DEF AbortInv, Abortable, This
  <2>7. ProbeInv'
    BY <1>0, <2>1, <2>3 DEF ProbeInv, AbortInv, Waited
  <2> QED
    BY <2>4, <2>5, <2>6, <2>7
<1>2. CASE Fails("handshake") /\ UNCHANGED sent
  BY <1>0, <1>2, FailsStep, MoveStep DEF DialType
<1> QED
  BY <1>1, <1>2 DEF Authenticate

LEMMA AnswerStep ==
    ASSUME DialType, DialInv, Answer
    PROVE  DialType' /\ DialInv'
<1> USE DEF DialInv
<1>0. dial.pc = "answer" /\ UNCHANGED <<caller, hops, attempt, key, sent, late, abort, probe>> /\ This \in Hop
  BY DEF Answer, At, DialType, This
<1>1. CASE login' = login \cup {This} /\ Goto("client") /\ UNCHANGED conn
  <2>1. OnlyCloses /\ This' = This
        /\ dial' \in [pc : {"client"}, hop : Hop, why : {"none", "credentials", "dial", "handshake", "mismatch", "hostkey", "auth", "abandoned"}]
    BY <1>1 DEF Goto, DialType, This, OnlyCloses
  <2>2. sent \subseteq login' /\ login \subseteq login' /\ login' \subseteq Hop
    BY <1>0, <1>1 DEF SentInv, DialType
  <2> QED
    BY <1>0, <2>1, <2>2, MoveStep DEF DialType
<1>2. CASE Fails("auth") /\ UNCHANGED login
  BY <1>0, <1>2, FailsStep, MoveStep DEF DialType
<1>3. CASE Fails("handshake") /\ UNCHANGED login
  BY <1>0, <1>3, FailsStep, MoveStep DEF DialType
<1> QED
  BY <1>1, <1>2, <1>3 DEF Answer

LEMMA NewClientStep ==
    ASSUME DialType, DialInv, NewClient
    PROVE  DialType' /\ DialInv'
<1> DEFINE Why == {"none", "credentials", "dial", "handshake", "mismatch", "hostkey", "auth", "abandoned"}
<1> USE DEF DialInv
<1>0. dial.pc = "client" /\ UNCHANGED <<caller, hops, attempt, key, sent, login, late, abort, probe>> /\ This \in Hop
  BY DEF NewClient, At, DialType, This
<1>1. CASE Fails("handshake")
  BY <1>0, <1>1, FailsStep, MoveStep DEF DialType
<1>2. CASE This = hops /\ dial' = [dial EXCEPT !.pc = "ok"] /\ UNCHANGED conn
  <2>1. OnlyCloses /\ This' = This /\ dial' \in [pc : {"ok"}, hop : Hop, why : Why]
    BY <1>2 DEF DialType, This, OnlyCloses
  <2> QED
    BY <1>0, <2>1, MoveStep DEF DialType
<1>3. CASE This # hops /\ dial' = [dial EXCEPT !.pc = "hop", !.hop = This + 1] /\ UNCHANGED conn
  <2>1. This + 1 \in Hop /\ This + 1 =< hops
    BY <1>0, <1>3, DialAssumption DEF SentInv, DialType, Hop
  <2>2. dial' \in [pc : {"hop"}, hop : Hop, why : Why] /\ This' = This + 1
    BY <1>3, <2>1 DEF DialType, This
  <2>3. DialType'
    BY <1>0, <1>3, <2>2 DEF DialType
  <2>4. SentInv'
    BY <1>0, <2>1, <2>2 DEF SentInv, This
  <2>5. AbortInv'
    BY <1>0, <1>3, <2>2 DEF AbortInv, Abortable, This
  <2>6. ProbeInv'
    BY <1>0 DEF ProbeInv, Waited
  <2> QED
    BY <2>3, <2>4, <2>5, <2>6
<1> QED
  BY <1>1, <1>2, <1>3 DEF NewClient

LEMMA UndoStep ==
    ASSUME DialType, DialInv, Undo
    PROVE  DialType' /\ DialInv'
<1>1. OnlyCloses
  BY ClosedCloses DEF Undo
<1>2. This' = This /\ dial.pc = "undo"
      /\ dial' \in [pc : {"failed"}, hop : Hop, why : {"none", "credentials", "dial", "handshake", "mismatch", "hostkey", "auth", "abandoned"}]
  BY DEF Undo, At, Goto, This, DialType
<1> QED
  BY <1>1, <1>2, MoveStep DEF Undo, DialType

LEMMA CloseJumpsStep ==
    ASSUME DialType, DialInv, CloseJumps
    PROVE  DialType' /\ DialInv'
<1>1. OnlyCloses
  BY ClosedCloses DEF CloseJumps
<1> QED
  BY <1>1, DialUntouched DEF CloseJumps

-----------------------------------------------------------------------------
(* The probe of wait                                                       *)

\* A step of the probe that opens no transport and leaves the dial alone; what
\* it must know of the answer it gives.
LEMMA ProbeMoves ==
    ASSUME DialType, DialInv, OnlyCloses,
           probe' \in [pc : {"off", "wait", "close", "read", "drain", "again", "stop", "ready"}, past : BOOLEAN, orphan : BOOLEAN],
           abort' \in [done : BOOLEAN, conns : SUBSET Hop, current : 0 .. MaxHops],
           abort'.current = abort.current,
           abort'.done => Abortable /\ probe'.pc \in {"close", "read", "drain", "again", "stop"},
           probe'.pc \in {"close", "read", "drain"} => abort'.done,
           probe'.pc \in {"wait", "close"} => probe.pc \in {"wait", "close"} /\ abort'.conns = abort.conns,
           abort'.done /\ probe'.pc # "close" => \A h \in Hop : conn'[h] # "open",
           Waited' /\ ~abort'.done => dial.pc \in {"ok", "failed"},
           probe'.pc = "drain" /\ ~probe'.past => sent \subseteq login,
           probe'.pc = "again" => sent \subseteq login,
           UNCHANGED <<caller, hops, attempt, dial, key, sent, login, late>>
    PROVE  DialType' /\ DialInv'
<1>1. DialType'
  BY DEF DialType, OnlyCloses
<1>2. SentInv'
  BY DEF DialInv, SentInv, This
<1>3. AbortInv'
  BY DEF DialInv, AbortInv, Abortable, This, OnlyCloses
<1>4. ProbeInv'
  BY DEF DialInv, ProbeInv, Waited
<1> QED
  BY <1>1, <1>2, <1>3, <1>4 DEF DialInv

\* A dial that failed before the key of its hop sent no credential that is
\* still unanswered.
LEMMA NotPastKey ==
    ASSUME DialType, SentInv, This \notin key
    PROVE  sent \subseteq login
BY DEF SentInv

LEMMA ProbeResultStep ==
    ASSUME DialType, DialInv, ProbeResult
    PROVE  DialType' /\ DialInv'
<1> USE DEF DialInv
<1>0. probe.pc = "wait" /\ ~abort.done /\ UNCHANGED <<caller, hops, attempt, dial, key, sent, login, late, abort>>
  BY DEF ProbeResult, AbortInv
<1>1. CASE /\ At("failed")
           /\ probe' = [probe EXCEPT !.pc = IF Retryable(dial.why, PastKey) THEN "again" ELSE "stop", !.past = PastKey]
           /\ UNCHANGED conn
  <2>1. PastKey \in BOOLEAN /\ OnlyCloses
    BY <1>1 DEF PastKey, OnlyCloses, DialType
  <2>2. probe' \in [pc : {"again", "stop"}, past : BOOLEAN, orphan : BOOLEAN]
    BY <1>1, <2>1 DEF DialType
  <2>3. probe'.pc = "again" => sent \subseteq login
    BY <1>1, NotPastKey DEF Retryable, PastKey, DialType
  <2> QED
    BY <1>0, <1>1, <2>1, <2>2, <2>3, ProbeMoves DEF DialType, At, Waited
<1>2. CASE /\ At("ok") /\ CloseTarget
           /\ probe' \in [pc : {"ready", "stop"}, past : BOOLEAN, orphan : BOOLEAN]
  <2>1. OnlyCloses
    BY <1>2, ClosedCloses DEF CloseTarget
  <2> QED
    BY <1>0, <1>2, <2>1, ProbeMoves DEF DialType, At, Waited
<1>3. Probe("ready") => probe' \in [pc : {"ready", "stop"}, past : BOOLEAN, orphan : BOOLEAN]
  BY DEF Probe, DialType
<1>4. probe' = [probe EXCEPT !.pc = "stop", !.past = TRUE] => probe' \in [pc : {"ready", "stop"}, past : BOOLEAN, orphan : BOOLEAN]
  BY DEF DialType
<1> QED
  BY <1>1, <1>2, <1>3, <1>4 DEF ProbeResult

LEMMA ProbeExpiresStep ==
    ASSUME DialType, DialInv, ProbeExpires
    PROVE  DialType' /\ DialInv'
<1>1. /\ probe' \in [pc : {"close"}, past : BOOLEAN, orphan : BOOLEAN]
      /\ abort' \in [done : {TRUE}, conns : SUBSET Hop, current : 0 .. MaxHops]
      /\ abort'.current = abort.current /\ abort'.conns = abort.conns
      /\ probe.pc = "wait" /\ Abortable
  BY DEF ProbeExpires, Probe, DialType
<1>2. OnlyCloses
  BY DEF ProbeExpires, OnlyCloses, DialType
<1> QED
  BY <1>1, <1>2, ProbeMoves DEF ProbeExpires, Waited

\* Every open transport is one the abort knows of: none is left open.
LEMMA ProbeClosesStep ==
    ASSUME DialType, DialInv, ProbeCloses
    PROVE  DialType' /\ DialInv'
<1>1. /\ probe' \in [pc : {"read"}, past : BOOLEAN, orphan : BOOLEAN]
      /\ abort' \in [done : BOOLEAN, conns : SUBSET Hop, current : 0 .. MaxHops]
      /\ abort'.current = abort.current /\ abort'.done = abort.done
      /\ probe.pc = "close"
  BY DEF ProbeCloses, Probe, DialType
<1>2. OnlyCloses /\ \A h \in Hop : h \in abort.conns => conn'[h] # "open"
  BY ClosedCloses DEF ProbeCloses
<1>3. abort.done /\ Abortable /\ \A h \in Hop : conn'[h] # "open"
  BY <1>1, <1>2 DEF DialInv, AbortInv, OnlyCloses
<1> QED
  BY <1>1, <1>2, <1>3, ProbeMoves DEF ProbeCloses, Waited

\* The key flag of the current hop, read after the abort, tells whether a
\* credential may be unanswered.
LEMMA ProbeReadsStep ==
    ASSUME DialType, DialInv, ProbeReads
    PROVE  DialType' /\ DialInv'
<1> DEFINE past == abort.current \in key
<1>1. /\ probe' \in [pc : {"drain"}, past : BOOLEAN, orphan : BOOLEAN]
      /\ probe'.past = past /\ probe.pc = "read"
  <2>1. probe' = [probe EXCEPT !.pc = "drain", !.past = past] /\ past \in BOOLEAN /\ probe.pc = "read"
    BY DEF ProbeReads
  <2> HIDE DEF past
  <2> QED
    BY <2>1 DEF DialType
<1>2. abort.done /\ Abortable /\ \A h \in Hop : conn[h] # "open"
  BY <1>1 DEF DialInv, AbortInv
<1>3. ~past => sent \subseteq login
  <2>1. CASE dial.pc = "hop"
    BY <2>1 DEF DialInv, SentInv
  <2>2. CASE dial.pc # "hop"
    BY <1>2, <2>2, NotPastKey DEF DialInv, AbortInv
  <2> QED
    BY <2>1, <2>2
<1>4. OnlyCloses
  BY DEF ProbeReads, OnlyCloses, DialType
<1> QED
  BY <1>1, <1>2, <1>3, <1>4, ProbeMoves DEF ProbeReads, Waited, DialType

LEMMA ProbeDrainsStep ==
    ASSUME DialType, DialInv, ProbeDrains
    PROVE  DialType' /\ DialInv'
<1> USE DEF DialInv
<1>0. probe.pc = "drain" /\ UNCHANGED <<caller, hops, attempt, dial, key, sent, login, late, abort>>
  BY DEF ProbeDrains
<1>1. abort.done /\ Abortable /\ \A h \in Hop : conn[h] # "open"
  BY <1>0 DEF AbortInv
<1>2. OnlyCloses
  BY ClosedCloses DEF ProbeDrains, OnlyCloses, DialType
<1>3. /\ probe' \in [pc : {"again", "stop"}, past : BOOLEAN, orphan : BOOLEAN]
      /\ probe'.pc = "again" => ~probe.past
  BY DEF ProbeDrains, DialType, Probe, Retryable
<1>4. probe'.pc = "again" => sent \subseteq login
  BY <1>0, <1>3 DEF ProbeInv
<1> QED
  BY <1>0, <1>1, <1>2, <1>3, <1>4, ProbeMoves DEF DialType, OnlyCloses

LEMMA OrphanClosesStep ==
    ASSUME DialType, DialInv, OrphanCloses
    PROVE  DialType' /\ DialInv'
<1> USE DEF DialInv
<1>1. OnlyCloses
  BY ClosedCloses DEF OrphanCloses, OnlyCloses, DialType
<1>2. /\ probe' \in [pc : {"off", "wait", "close", "read", "drain", "again", "stop", "ready"}, past : BOOLEAN, orphan : BOOLEAN]
      /\ probe'.pc = probe.pc /\ probe'.past = probe.past
  BY DEF OrphanCloses, DialType
<1>3. UNCHANGED <<caller, hops, attempt, dial, key, sent, login, late, abort>>
  BY DEF OrphanCloses
<1> QED
  BY <1>1, <1>2, <1>3, ProbeMoves DEF DialType, AbortInv, ProbeInv, Waited, OnlyCloses

LEMMA WaitAgainStep ==
    ASSUME DialType, DialInv, WaitAgain
    PROVE  DialType' /\ DialInv'
<1> USE DEF DialInv
<1>1. CASE Redial /\ probe' = [pc |-> "wait", past |-> FALSE, orphan |-> FALSE]
  <2>1. probe' \in [pc : {"off", "wait"}, past : BOOLEAN, orphan : BOOLEAN]
    BY <1>1
  <2> QED
    BY <1>1, <2>1, RedialStarts DEF WaitAgain
<1>2. CASE Probe("stop") /\ UNCHANGED <<attempt, dial, conn, key, sent, login, abort>>
  <2>1. probe' \in [pc : {"stop"}, past : BOOLEAN, orphan : BOOLEAN] /\ probe.pc = "again" /\ OnlyCloses
    BY <1>2 DEF WaitAgain, Probe, DialType, OnlyCloses
  <2>2. UNCHANGED <<caller, hops, late>>
    BY DEF WaitAgain
  <2> QED
    BY <1>2, <2>1, <2>2, ProbeMoves DEF AbortInv, ProbeInv, Waited, DialType
<1> QED
  BY <1>1, <1>2 DEF WaitAgain

-----------------------------------------------------------------------------
(* The command                                                             *)

\* A close of the session never opens its channel again.
LEMMA SessionCloseStep ==
    ASSUME RunType, SessionClose \/ UNCHANGED channel
    PROVE  /\ channel' \in {"none", "open", "sentClose", "closed"}
           /\ channel = "closed" => channel' = "closed"
BY DEF RunType, SessionClose

\* A return before anything was started beside the command.
LEMMA EarlyReturn ==
    ASSUME RunType, RunInv, run.pc \in Early,
           NEW outcome \in {"stdin_failed", "dial_failed", "session_failed", "prepare_failed"},
           Return(outcome), channel' \in {"none", "open", "sentClose", "closed"},
           UNCHANGED <<opts, command, output, watch, interrupt, copier, silent, termed>>
    PROVE  RunType' /\ RunInv'
<1>1. run' \in [pc : {"returned"}, err : {"none"}, outcome : {outcome}]
  BY DEF Return, RunType, RunInv, CommandInv, Early, Ended
<1>2. RunType'
  BY <1>1 DEF RunType
<1>3. WatchInv'
  BY DEF RunInv, WatchInv
<1>4. CommandInv'
  BY <1>1 DEF RunInv, CommandInv, Early, Ended
<1>5. ReportInv'
  BY <1>1 DEF RunInv, CommandInv, WatchInv, ReportInv, SuccessIsReal
<1> QED
  BY <1>2, <1>3, <1>4, <1>5 DEF RunInv

LEMMA PlanStdinRun ==
    ASSUME RunType, RunInv, PlanStdin
    PROVE  RunType' /\ RunInv'
<1>0. run.pc = "plan" /\ UNCHANGED <<opts, command, channel, output, watch, interrupt, copier, silent, termed>>
  BY DEF PlanStdin, RunAt
<1>1. CASE RunGoto("acquire")
  <2>1. run' \in [pc : {"acquire"}, err : {"none"}, outcome : {"none"}]
    BY <1>0, <1>1 DEF RunGoto, RunType, RunInv, CommandInv, Ended
  <2>2. RunType'
    BY <1>0, <2>1 DEF RunType
  <2>3. WatchInv' /\ CommandInv' /\ ReportInv'
    BY <1>0, <2>1 DEF RunInv, WatchInv, CommandInv, ReportInv, SuccessIsReal, Early, Ended
  <2> QED
    BY <2>2, <2>3 DEF RunInv
<1>2. CASE Return("stdin_failed")
  BY <1>0, <1>2, EarlyReturn DEF Early, RunType
<1> QED
  BY <1>1, <1>2 DEF PlanStdin

LEMMA AcquireRun ==
    ASSUME RunType, RunInv, Acquire
    PROVE  RunType' /\ RunInv'
<1>0. run.pc = "acquire" /\ UNCHANGED <<opts, command, output, watch, interrupt, copier, silent, termed>>
  BY DEF Acquire, RunAt
<1>1. CASE UNCHANGED <<run, channel>>
  <2>1. RunType'
    BY <1>0, <1>1 DEF RunType
  <2>2. WatchInv' /\ CommandInv' /\ ReportInv'
    BY <1>0, <1>1 DEF RunInv, WatchInv, CommandInv, ReportInv, SuccessIsReal
  <2> QED
    BY <2>1, <2>2 DEF RunInv
<1>2. CASE channel' = "open" /\ RunGoto("prepare")
  <2>1. run' \in [pc : {"prepare"}, err : {"none"}, outcome : {"none"}]
    BY <1>0, <1>2 DEF RunGoto, RunType, RunInv, CommandInv, Ended
  <2>2. RunType'
    BY <1>0, <1>2, <2>1 DEF RunType
  <2>3. WatchInv' /\ CommandInv' /\ ReportInv'
    BY <1>0, <2>1 DEF RunInv, WatchInv, CommandInv, ReportInv, SuccessIsReal, Early, Ended
  <2> QED
    BY <2>2, <2>3 DEF RunInv
<1>3. CASE Return("dial_failed") /\ UNCHANGED channel
  BY <1>0, <1>3, EarlyReturn DEF Early, RunType
<1>4. CASE Return("session_failed") /\ UNCHANGED channel
  BY <1>0, <1>4, EarlyReturn DEF Early, RunType
<1> QED
  BY <1>1, <1>2, <1>3, <1>4 DEF Acquire

LEMMA PrepareRun ==
    ASSUME RunType, RunInv, Prepare
    PROVE  RunType' /\ RunInv'
<1>0. run.pc = "prepare" /\ UNCHANGED <<opts, command, output, silent, termed>>
  BY DEF Prepare, RunAt
<1>1. CASE /\ RunGoto("start") /\ UNCHANGED channel
           /\ copier' = IF opts.stdin = "none" THEN "off" ELSE "copying"
           /\ interrupt' = [interrupt EXCEPT !.pc = IF opts.capture THEN "off" ELSE "armed"]
           /\ watch' = [watch EXCEPT !.pc = IF opts.limit THEN "armed" ELSE "off"]
  <2>1. run' \in [pc : {"start"}, err : {"none"}, outcome : {"none"}]
    BY <1>0, <1>1 DEF RunGoto, RunType, RunInv, CommandInv, Ended
  <2>2. /\ interrupt' \in [pc : {"off", "armed"}, interrupted : BOOLEAN,
                           pending : 0 .. MaxSignals, total : 0 .. MaxSignals, done : BOOLEAN]
        /\ interrupt'.pending = interrupt.pending /\ interrupt'.total = interrupt.total
    BY <1>1 DEF RunType
  <2>3. /\ watch' \in [pc : {"off", "armed"}, completed : BOOLEAN, signalSent : BOOLEAN, done : BOOLEAN]
        /\ watch'.signalSent = watch.signalSent
    BY <1>1 DEF RunType
  <2>4. RunType'
    BY <1>0, <1>1, <2>1, <2>2, <2>3 DEF RunType
  <2>5. WatchInv'
    BY <1>0, <2>3 DEF RunInv, WatchInv, CommandInv, Early
  <2>6. CommandInv'
    BY <1>0, <2>1, <2>2, <2>3 DEF RunInv, CommandInv, Early, Ended
  <2>7. ReportInv'
    BY <2>1 DEF ReportInv, SuccessIsReal
  <2> QED
    BY <2>4, <2>5, <2>6, <2>7 DEF RunInv
<1>2. CASE Return("prepare_failed") /\ Release /\ UNCHANGED <<copier, interrupt, watch>>
  <2>1. channel' \in {"none", "open", "sentClose", "closed"}
    BY <1>2, SessionCloseStep DEF Release
  <2> QED
    BY <1>0, <1>2, <2>1, EarlyReturn DEF Early
<1> QED
  BY <1>1, <1>2 DEF Prepare

LEMMA StartRun ==
    ASSUME RunType, RunInv, Start
    PROVE  RunType' /\ RunInv'
<1>0. run.pc = "start" /\ UNCHANGED <<opts, channel, output, watch, interrupt, copier, silent, termed>>
  BY DEF Start, RunAt
<1>1. \/ command' = "running" /\ run' \in [pc : {"exec"}, err : {"none"}, outcome : {"none"}]
      \/ command' = "none" /\ run' \in [pc : {"ended"}, err : {"refused", "lost"}, outcome : {"none"}]
  <2>1. command = "none" /\ run.err = "none" /\ run.outcome = "none"
    BY <1>0 DEF RunInv, CommandInv, Ended, Early
  <2>2. RunGoto("exec") => run' \in [pc : {"exec"}, err : {"none"}, outcome : {"none"}]
    BY <2>1 DEF RunGoto, RunType
  <2>3. run' = [run EXCEPT !.pc = "ended", !.err = "refused"] => run' \in [pc : {"ended"}, err : {"refused", "lost"}, outcome : {"none"}]
    BY <2>1 DEF RunType
  <2>4. run' = [run EXCEPT !.pc = "ended", !.err = "lost"] => run' \in [pc : {"ended"}, err : {"refused", "lost"}, outcome : {"none"}]
    BY <2>1 DEF RunType
  <2> QED
    BY <2>1, <2>2, <2>3, <2>4 DEF Start
<1>2. RunType'
  BY <1>0, <1>1 DEF RunType
<1>3. WatchInv'
  BY <1>0 DEF RunInv, WatchInv
<1>4. CommandInv'
  BY <1>0, <1>1 DEF RunInv, CommandInv, Early, Ended
<1>5. ReportInv'
  BY <1>1 DEF ReportInv, SuccessIsReal
<1> QED
  BY <1>2, <1>3, <1>4, <1>5 DEF RunInv

LEMMA RunEndsRun ==
    ASSUME RunType, RunInv, RunEnds
    PROVE  RunType' /\ RunInv'
<1> DEFINE err == CASE command = "exit0" -> "nil" [] command = "exit1" -> "exit" [] OTHER -> "lost"
<1>0. /\ run.pc = "exec" /\ output # "pending" /\ channel' = "closed"
      /\ run' = [run EXCEPT !.pc = "ended", !.err = err]
      /\ UNCHANGED <<opts, command, output, watch, interrupt, copier, silent, termed>>
  BY Zenon DEF RunEnds, RunAt
<1>1. (command = "exit0" => err = "nil") /\ (command = "exit1" => err = "exit")
      /\ (command # "exit0" /\ command # "exit1" => err = "lost")
  <2>1. command = "exit0" => err = "nil"
    <3>1. command = "exit0" => command # "exit1"
      OBVIOUS
    <3> QED
      BY <3>1, Zenon
  <2>2. command = "exit1" => err = "exit"
    <3>1. command = "exit1" => command # "exit0"
      OBVIOUS
    <3> QED
      BY <3>1, Zenon
  <2>3. command # "exit0" /\ command # "exit1" => err = "lost"
    BY Zenon
  <2> QED
    BY <2>1, <2>2, <2>3
<1> HIDE DEF err
<1>2. run' \in [pc : {"ended"}, err : {err}, outcome : {"none"}]
  BY <1>0 DEF RunType, RunInv, CommandInv
<1>3. RunType'
  BY <1>0, <1>1, <1>2 DEF RunType
<1>4. WatchInv'
  BY <1>0 DEF RunInv, WatchInv
<1>5. CommandInv'
  BY <1>0, <1>1, <1>2 DEF RunInv, CommandInv, Early, Ended
<1>6. ReportInv'
  BY <1>2 DEF ReportInv, SuccessIsReal
<1> QED
  BY <1>3, <1>4, <1>5, <1>6 DEF RunInv

LEMMA CompleteRun ==
    ASSUME RunType, RunInv, Complete
    PROVE  RunType' /\ RunInv'
<1>0. /\ run.pc = "ended" /\ run' \in [pc : {"stop"}, err : {run.err}, outcome : {"none"}]
      /\ watch' \in [pc : {watch.pc}, completed : {TRUE}, signalSent : {watch.signalSent}, done : {TRUE}]
      /\ UNCHANGED <<opts, command, channel, output, interrupt, copier, silent, termed>>
  BY DEF Complete, RunAt, RunGoto, RunType, RunInv, CommandInv
<1>1. RunType'
  <2>1. run.err \in {"none", "nil", "exit", "lost", "refused"}
    BY DEF RunType
  <2>2. run' \in [pc : {"stop"}, err : {"none", "nil", "exit", "lost", "refused"}, outcome : {"none"}]
    BY <1>0, <2>1
  <2>3. watch' \in [pc : {"off", "armed", "fired", "signal", "mark", "grace", "finished"},
                      completed : BOOLEAN, signalSent : BOOLEAN, done : BOOLEAN]
    BY <1>0 DEF RunType
  <2> QED
    BY <1>0, <2>2, <2>3 DEF RunType
<1>2. WatchInv'
  BY <1>0 DEF RunInv, WatchInv
<1>3. CommandInv'
  BY <1>0 DEF RunInv, CommandInv, Early, Ended
<1>4. ReportInv'
  BY <1>0 DEF ReportInv, SuccessIsReal
<1> QED
  BY <1>1, <1>2, <1>3, <1>4 DEF RunInv

LEMMA StopDeadlineRun ==
    ASSUME RunType, RunInv, StopDeadline
    PROVE  RunType' /\ RunInv'
<1>0. /\ run.pc = "stop" /\ run' \in [pc : {"unhook"}, err : {run.err}, outcome : {"none"}]
      /\ interrupt' = [interrupt EXCEPT !.done = TRUE]
      /\ watch.pc \in {"off", "finished"}
      /\ UNCHANGED <<opts, command, channel, output, watch, copier, silent, termed>>
  BY DEF StopDeadline, RunAt, RunGoto, RunType, RunInv, CommandInv
<1>1. RunType'
  <2>1. run.err \in {"none", "nil", "exit", "lost", "refused"}
    BY DEF RunType
  <2>2. run' \in [pc : {"unhook"}, err : {"none", "nil", "exit", "lost", "refused"}, outcome : {"none"}]
    BY <1>0, <2>1
  <2>3. interrupt' \in [pc : {"off", "armed", "grace", "finished"}, interrupted : BOOLEAN,
                          pending : 0 .. MaxSignals, total : 0 .. MaxSignals, done : BOOLEAN]
    BY <1>0 DEF RunType
  <2> QED
    BY <1>0, <2>2, <2>3 DEF RunType
<1>2. WatchInv'
  BY <1>0 DEF RunInv, WatchInv
<1>3. interrupt'.pc = interrupt.pc /\ interrupt'.interrupted = interrupt.interrupted
      /\ interrupt'.pending = interrupt.pending /\ interrupt'.total = interrupt.total
  BY <1>0 DEF RunType
<1>4. CommandInv'
  BY <1>0, <1>3 DEF RunInv, CommandInv, Early, Ended
<1>5. ReportInv'
  BY <1>0 DEF ReportInv, SuccessIsReal
<1> QED
  BY <1>1, <1>2, <1>4, <1>5 DEF RunInv

\* What each report of Run says of the state it is made in.
LEMMA OutcomeMeans ==
    ASSUME RunType, NEW outcome \in Outcomes
    PROVE  /\ outcome \in {"write_failed", "interrupted", "exec_timeout", "ok", "exit", "connection_lost"}
           /\ outcome = "ok" => output # "failed" /\ ~interrupt.interrupted /\ ~watch.signalSent /\ run.err = "nil"
           /\ outcome = "exec_timeout" => watch.signalSent
           /\ output # "failed" /\ ~interrupt.interrupted /\ watch.signalSent => outcome = "exec_timeout"
<1> DEFINE last == CASE run.err = "nil" -> "ok" [] run.err = "exit" -> "exit" [] OTHER -> "connection_lost"
<1> DEFINE A == output = "failed"
           B == output # "failed" /\ interrupt.interrupted
           C == output # "failed" /\ ~interrupt.interrupted /\ watch.signalSent
           rest == {last} \cup (IF opts.capture THEN {} ELSE {"write_failed"})
<1>1. last \in {"ok", "exit", "connection_lost"} /\ (last = "ok" => run.err = "nil")
  <2>1. run.err = "nil" => last = "ok"
    <3>1. run.err = "nil" => run.err # "exit"
      OBVIOUS
    <3> QED
      BY <3>1, Zenon
  <2>2. run.err = "exit" => last = "exit"
    <3>1. run.err = "exit" => run.err # "nil"
      OBVIOUS
    <3> QED
      BY <3>1, Zenon
  <2>3. run.err # "nil" /\ run.err # "exit" => last = "connection_lost"
    BY Zenon
  <2> HIDE DEF last
  <2> QED
    BY <2>1, <2>2, <2>3
<1>2. Outcomes = CASE A -> {"write_failed"} [] B -> {"interrupted"} [] C -> {"exec_timeout"} [] OTHER -> rest
  BY Zenon DEF Outcomes
<1>3. ~(A /\ B) /\ ~(A /\ C) /\ ~(B /\ C)
  OBVIOUS
<1>4. /\ A => output = "failed"
      /\ B => output # "failed" /\ interrupt.interrupted
      /\ C => output # "failed" /\ ~interrupt.interrupted /\ watch.signalSent
      /\ ~A /\ ~B /\ ~C => output # "failed" /\ ~interrupt.interrupted /\ ~watch.signalSent
  OBVIOUS
<1>5. rest \subseteq {last, "write_failed"}
  OBVIOUS
<1> HIDE DEF A, B, C, last, rest
<1>6. /\ A => outcome = "write_failed"
      /\ B => outcome = "interrupted"
      /\ C => outcome = "exec_timeout"
      /\ ~A /\ ~B /\ ~C => outcome \in rest
  <2>1. A => Outcomes = {"write_failed"}
    BY <1>2, <1>3, Zenon
  <2>2. B => Outcomes = {"interrupted"}
    BY <1>2, <1>3, Zenon
  <2>3. C => Outcomes = {"exec_timeout"}
    BY <1>2, <1>3, Zenon
  <2>4. ~A /\ ~B /\ ~C => Outcomes = rest
    BY <1>2, Zenon
  <2> QED
    BY <2>1, <2>2, <2>3, <2>4
<1>7. CASE A
  BY <1>4, <1>6, <1>7
<1>8. CASE B
  BY <1>4, <1>6, <1>8
<1>9. CASE C
  BY <1>4, <1>6, <1>9
<1>10. CASE ~A /\ ~B /\ ~C
  BY <1>1, <1>4, <1>5, <1>6, <1>10
<1> QED
  BY <1>7, <1>8, <1>9, <1>10

LEMMA ReportRun ==
    ASSUME RunType, RunInv, Report
    PROVE  RunType' /\ RunInv'
<1>1. PICK outcome \in Outcomes : Return(outcome)
  BY DEF Report
<1>2. /\ outcome \in {"write_failed", "interrupted", "exec_timeout", "ok", "exit", "connection_lost"}
      /\ outcome = "ok" => output # "failed" /\ ~interrupt.interrupted /\ ~watch.signalSent /\ run.err = "nil"
      /\ outcome = "exec_timeout" => watch.signalSent
      /\ output # "failed" /\ ~interrupt.interrupted /\ watch.signalSent => outcome = "exec_timeout"
  BY OutcomeMeans
<1>3. /\ run.pc = "unhook" /\ run' \in [pc : {"returned"}, err : {run.err}, outcome : {outcome}]
      /\ interrupt.pc \in {"off", "finished"}
      /\ UNCHANGED <<opts, command, output, watch, interrupt, copier, silent, termed>>
  BY <1>1 DEF Report, RunAt, Return, RunType
<1>4. channel' \in {"none", "open", "sentClose", "closed"} /\ (channel = "closed" => channel' = "closed")
  BY SessionCloseStep DEF Report, Release
<1>5. RunType'
  BY <1>2, <1>3, <1>4 DEF RunType
<1>6. WatchInv'
  BY <1>3 DEF RunInv, WatchInv
<1>7. CommandInv'
  BY <1>3, <1>4 DEF RunInv, CommandInv, Early, Ended
<1>8. watch.pc \in {"off", "finished"} /\ (termed <=> watch.signalSent) /\ output # "pending"
  BY <1>3 DEF RunInv, CommandInv, WatchInv, Ended
<1>9. ReportInv'
  BY <1>2, <1>3, <1>8 DEF RunInv, CommandInv, ReportInv, SuccessIsReal, RunType
<1> QED
  BY <1>5, <1>6, <1>7, <1>9 DEF RunInv

\* A step of the deadline: Run has not passed the stop that waits for it, and
\* the signal and its mark move together.
LEMMA WatchMoves ==
    ASSUME RunType, RunInv, watch.pc \notin {"off", "finished"},
           watch' \in [pc : {"fired", "signal", "mark", "grace", "finished"}, completed : BOOLEAN,
                       signalSent : BOOLEAN, done : BOOLEAN],
           termed' \in BOOLEAN, WatchInv',
           SessionClose \/ UNCHANGED channel,
           UNCHANGED <<opts, run, command, output, interrupt, copier, silent>>
    PROVE  RunType' /\ RunInv'
<1>1. channel' \in {"none", "open", "sentClose", "closed"} /\ (channel = "closed" => channel' = "closed")
  BY SessionCloseStep
<1>2. RunType'
  BY <1>1 DEF RunType
<1>3. CommandInv'
  BY <1>1 DEF RunInv, CommandInv, Early, Ended
<1>4. run.pc # "returned" /\ run.outcome = "none"
  BY DEF RunInv, CommandInv
<1>5. ReportInv'
  BY <1>4 DEF ReportInv, SuccessIsReal
<1> QED
  BY <1>2, <1>3, <1>5 DEF RunInv

LEMMA WatchRun ==
    ASSUME RunType, RunInv, WatchStep
    PROVE  RunType' /\ RunInv'
<1>1. CASE DeadlineFires
  <2>1. /\ watch' \in [pc : {"fired", "finished"}, completed : BOOLEAN, signalSent : BOOLEAN, done : BOOLEAN]
        /\ watch'.signalSent = watch.signalSent /\ watch.pc = "armed"
    BY <1>1 DEF DeadlineFires, Watch, RunType
  <2>2. WatchInv'
    BY <1>1, <2>1 DEF DeadlineFires, RunInv, WatchInv
  <2> QED
    BY <1>1, <2>1, <2>2, WatchMoves DEF DeadlineFires, WatchOnly, RunType
<1>2. CASE DeadlineReads
  <2>1. /\ watch' \in [pc : {"signal", "finished"}, completed : BOOLEAN, signalSent : BOOLEAN, done : BOOLEAN]
        /\ watch'.signalSent = watch.signalSent /\ watch.pc = "fired"
    BY <1>2 DEF DeadlineReads, Watch, RunType
  <2>2. WatchInv'
    BY <1>2, <2>1 DEF DeadlineReads, RunInv, WatchInv
  <2> QED
    BY <1>2, <2>1, <2>2, WatchMoves DEF DeadlineReads, WatchOnly, RunType
<1>3. CASE DeadlineSignals
  <2>1. /\ watch' \in [pc : {"mark", "finished"}, completed : BOOLEAN, signalSent : BOOLEAN, done : BOOLEAN]
        /\ watch'.signalSent = watch.signalSent /\ watch.pc = "signal"
        /\ watch'.pc = "mark" => termed' = TRUE
        /\ watch'.pc = "finished" => termed' = termed
    BY <1>3 DEF DeadlineSignals, Watch, RunType
  <2>2. WatchInv' /\ termed' \in BOOLEAN
    BY <2>1 DEF RunInv, WatchInv, RunType
  <2> QED
    BY <1>3, <2>1, <2>2, WatchMoves DEF DeadlineSignals, WatchOnly
<1>4. CASE DeadlineMarks
  <2>1. /\ watch' \in [pc : {"grace"}, completed : BOOLEAN, signalSent : {TRUE}, done : BOOLEAN]
        /\ watch.pc = "mark" /\ UNCHANGED termed
    BY <1>4 DEF DeadlineMarks, RunType
  <2>2. WatchInv'
    BY <2>1 DEF RunInv, WatchInv
  <2> QED
    BY <1>4, <2>1, <2>2, WatchMoves DEF DeadlineMarks, WatchOnly, RunType
<1>5. CASE DeadlineGrace
  <2>1. /\ watch' \in [pc : {"finished"}, completed : BOOLEAN, signalSent : BOOLEAN, done : BOOLEAN]
        /\ watch'.signalSent = watch.signalSent /\ watch.pc = "grace" /\ UNCHANGED termed
    BY <1>5 DEF DeadlineGrace, Watch, RunType
  <2>2. WatchInv'
    BY <2>1 DEF RunInv, WatchInv
  <2> QED
    BY <1>5, <2>1, <2>2, WatchMoves DEF DeadlineGrace, WatchOnly, RunType
<1> QED
  BY <1>1, <1>2, <1>3, <1>4, <1>5 DEF WatchStep

\* A step of the signal forwarder: it has not ended, so Run has not returned.
LEMMA InterruptMoves ==
    ASSUME RunType, RunInv, interrupt.pc # "off",
           interrupt' \in [pc : {"armed", "grace", "finished"}, interrupted : BOOLEAN,
                           pending : 0 .. MaxSignals, total : 0 .. MaxSignals, done : BOOLEAN],
           interrupt'.pending =< interrupt'.total,
           (interrupt'.pc = interrupt.pc /\ interrupt'.interrupted = interrupt.interrupted) \/ interrupt.pc # "finished",
           SessionClose \/ UNCHANGED channel,
           UNCHANGED <<opts, run, command, output, watch, copier, silent, termed>>
    PROVE  RunType' /\ RunInv'
<1>1. channel' \in {"none", "open", "sentClose", "closed"} /\ (channel = "closed" => channel' = "closed")
  BY SessionCloseStep
<1>2. RunType'
  BY <1>1 DEF RunType
<1>3. WatchInv'
  BY DEF RunInv, WatchInv
<1>4. CommandInv'
  BY <1>1 DEF RunInv, CommandInv, Early, Ended
<1>5. ReportInv'
  <2>1. CASE interrupt.pc = "finished"
    BY <2>1 DEF RunInv, ReportInv, SuccessIsReal
  <2>2. CASE interrupt.pc # "finished"
    BY <2>2 DEF RunInv, CommandInv, ReportInv, SuccessIsReal
  <2> QED
    BY <2>1, <2>2
<1> QED
  BY <1>2, <1>3, <1>4, <1>5 DEF RunInv

LEMMA InterruptRun ==
    ASSUME RunType, RunInv, InterruptStep \/ UserSignals
    PROVE  RunType' /\ RunInv'
<1> DEFINE Types(P) == [pc : P, interrupted : BOOLEAN, pending : 0 .. MaxSignals, total : 0 .. MaxSignals, done : BOOLEAN]
<1>0. /\ interrupt.pending \in 0 .. MaxSignals /\ interrupt.total \in 0 .. MaxSignals
      /\ interrupt.pending =< interrupt.total /\ MaxSignals \in Nat
  BY RunAssumption DEF RunType, RunInv, CommandInv
<1>1. CASE UserSignals
  <2>1. interrupt.pc # "off" /\ interrupt.total < MaxSignals
        /\ interrupt' = [interrupt EXCEPT !.pending = interrupt.pending + 1, !.total = interrupt.total + 1]
    BY <1>1 DEF UserSignals
  <2>2. interrupt.pending + 1 \in 0 .. MaxSignals /\ interrupt.total + 1 \in 0 .. MaxSignals
    BY <1>0, <2>1
  <2>3. /\ interrupt' \in Types({"armed", "grace", "finished"})
        /\ interrupt'.pending = interrupt.pending + 1 /\ interrupt'.total = interrupt.total + 1
        /\ interrupt'.pc = interrupt.pc /\ interrupt'.interrupted = interrupt.interrupted
    BY <2>1, <2>2 DEF RunType
  <2>4. interrupt'.pending =< interrupt'.total
    BY <1>0, <2>3
  <2> QED
    BY <1>1, <2>1, <2>3, <2>4, InterruptMoves DEF UserSignals, InterruptOnly
<1>2. CASE InterruptTakes
  <2>0. interrupt.pc = "armed" /\ UNCHANGED channel /\ InterruptOnly
    BY <1>2 DEF InterruptTakes
  <2>1. CASE Interrupt("finished")
    <3>1. /\ interrupt' \in Types({"finished"})
          /\ interrupt'.pending = interrupt.pending /\ interrupt'.total = interrupt.total
      BY <2>1 DEF Interrupt, RunType
    <3> QED
      BY <1>0, <2>0, <3>1, InterruptMoves DEF InterruptOnly
  <2>2. CASE interrupt.pending > 0
             /\ interrupt' = [interrupt EXCEPT !.pc = "grace", !.interrupted = TRUE, !.pending = interrupt.pending - 1]
    <3>1. interrupt.pending - 1 \in 0 .. MaxSignals
      BY <1>0, <2>2
    <3>2. /\ interrupt' \in Types({"grace"})
          /\ interrupt'.pending = interrupt.pending - 1 /\ interrupt'.total = interrupt.total
      BY <2>2, <3>1 DEF RunType
    <3>3. interrupt'.pending =< interrupt'.total
      BY <1>0, <3>2
    <3> QED
      BY <2>0, <3>2, <3>3, InterruptMoves DEF InterruptOnly
  <2> QED
    BY <1>2, <2>1, <2>2 DEF InterruptTakes
<1>3. CASE InterruptGrace
  <2>0. interrupt.pc = "grace" /\ InterruptOnly
    BY <1>3 DEF InterruptGrace
  <2>1. CASE Interrupt("finished") /\ UNCHANGED channel
    <3>1. /\ interrupt' \in Types({"finished"})
          /\ interrupt'.pending = interrupt.pending /\ interrupt'.total = interrupt.total
      BY <2>1 DEF Interrupt, RunType
    <3> QED
      BY <1>0, <2>0, <2>1, <3>1, InterruptMoves DEF InterruptOnly
  <2>2. CASE /\ interrupt' = [interrupt EXCEPT !.pc = "finished",
                                               !.pending = IF interrupt.pending > 0 THEN interrupt.pending - 1 ELSE interrupt.pending]
             /\ SessionClose
    <3> DEFINE left == IF interrupt.pending > 0 THEN interrupt.pending - 1 ELSE interrupt.pending
    <3>1. left \in 0 .. MaxSignals /\ left =< interrupt.total
      BY <1>0
    <3>2. interrupt' = [interrupt EXCEPT !.pc = "finished", !.pending = left]
      BY <2>2
    <3> HIDE DEF left
    <3>3. interrupt' \in Types({"finished"}) /\ interrupt'.pending = left /\ interrupt'.total = interrupt.total
      BY <3>1, <3>2 DEF RunType
    <3> QED
      BY <2>0, <2>2, <3>1, <3>3, InterruptMoves DEF InterruptOnly
  <2> QED
    BY <1>3, <2>1, <2>2 DEF InterruptGrace
<1> QED
  BY <1>1, <1>2, <1>3 DEF InterruptStep

\* The remote command, its output and the network: the output of a command
\* that has ended is not touched any more.
LEMMA CommandRun ==
    ASSUME RunType, RunInv,
           CommandWrites \/ CommandEnds \/ PeerCloses \/ WriteOutput \/ StdinEnds \/ PeerSilent
    PROVE  RunType' /\ RunInv'
<1>1. CASE CommandWrites
  <2>1. run.pc \notin Ended \cup Early /\ run.pc # "start" /\ run.outcome = "none"
    BY <1>1 DEF CommandWrites, RunInv, CommandInv, Ended
  <2>2. RunType' /\ WatchInv'
    BY <1>1 DEF CommandWrites, RunType, RunInv, WatchInv
  <2>3. CommandInv' /\ ReportInv'
    BY <1>1, <2>1 DEF CommandWrites, RunInv, CommandInv, ReportInv, SuccessIsReal, Ended
  <2> QED
    BY <2>2, <2>3 DEF RunInv
<1>2. CASE CommandEnds
  <2>1. run.pc \notin Ended \cup Early /\ run.pc # "start" /\ run.outcome = "none" /\ run.err = "none"
    BY <1>2 DEF CommandEnds, RunInv, CommandInv, Ended
  <2>2. RunType' /\ WatchInv'
    BY <1>2 DEF CommandEnds, RunType, RunInv, WatchInv
  <2>3. CommandInv' /\ ReportInv'
    BY <1>2, <2>1 DEF CommandEnds, RunInv, CommandInv, ReportInv, SuccessIsReal, Ended
  <2> QED
    BY <2>2, <2>3 DEF RunInv
<1>3. CASE PeerCloses
  <2>1. RunType' /\ WatchInv'
    BY <1>3 DEF PeerCloses, RunType, RunInv, WatchInv
  <2>2. CommandInv' /\ ReportInv'
    BY <1>3 DEF PeerCloses, RunInv, CommandInv, ReportInv, SuccessIsReal
  <2> QED
    BY <2>1, <2>2 DEF RunInv
<1>4. CASE WriteOutput
  <2>0. run.pc \notin Ended \cup Early /\ run.pc # "start" /\ run.outcome = "none"
    BY <1>4 DEF WriteOutput, RunInv, CommandInv, Ended
  <2>1. channel' \in {"none", "open", "sentClose", "closed"}
    BY <1>4, SessionCloseStep DEF WriteOutput
  <2>2. RunType' /\ WatchInv'
    BY <1>4, <2>1 DEF WriteOutput, RunType, RunInv, WatchInv
  <2>3. CommandInv' /\ ReportInv'
    BY <1>4, <2>0 DEF WriteOutput, RunInv, CommandInv, ReportInv, SuccessIsReal, Ended
  <2> QED
    BY <2>2, <2>3 DEF RunInv
<1>5. CASE StdinEnds
  <2>1. RunType' /\ WatchInv'
    BY <1>5 DEF StdinEnds, RunType, RunInv, WatchInv
  <2>2. CommandInv' /\ ReportInv'
    BY <1>5 DEF StdinEnds, RunInv, CommandInv, ReportInv, SuccessIsReal
  <2> QED
    BY <2>1, <2>2 DEF RunInv
<1>6. CASE PeerSilent
  <2>1. RunType' /\ WatchInv'
    BY <1>6 DEF PeerSilent, RunType, RunInv, WatchInv
  <2>2. CommandInv' /\ ReportInv'
    BY <1>6 DEF PeerSilent, RunInv, CommandInv, ReportInv, SuccessIsReal
  <2> QED
    BY <2>1, <2>2 DEF RunInv
<1> QED
  BY <1>1, <1>2, <1>3, <1>4, <1>5, <1>6

\* The invariant of the command speaks of its own variables only.
LEMMA RunUntouched ==
    ASSUME RunType, RunInv, UNCHANGED runVars
    PROVE  RunType' /\ RunInv'
<1>1. RunType' /\ WatchInv'
  BY DEF runVars, RunType, RunInv, WatchInv
<1>2. CommandInv'
  BY DEF runVars, RunInv, CommandInv
<1>3. ReportInv'
  BY DEF runVars, RunInv, ReportInv, SuccessIsReal
<1> QED
  BY <1>1, <1>2, <1>3 DEF RunInv

LEMMA RunKeepsRun ==
    ASSUME RunType, RunInv, RunNext
    PROVE  RunType' /\ RunInv'
<1>1. CASE RunStep
  BY <1>1, PlanStdinRun, AcquireRun, PrepareRun, StartRun, RunEndsRun, CompleteRun, StopDeadlineRun, ReportRun
     DEF RunStep
<1>2. CASE KeepaliveCloses
  BY <1>2, RunUntouched DEF KeepaliveCloses
<1> QED
  BY <1>1, <1>2, WatchRun, InterruptRun, CommandRun DEF RunNext

\* Every other step of a command closes transports at most; a command that
\* dials again starts from nothing.
LEMMA RunKeepsDial ==
    ASSUME DialType, DialInv, CallerInv, RunNext
    PROVE  DialType' /\ DialInv'
<1>1. CASE UNCHANGED dialVars
  <2>1. OnlyCloses
    BY <1>1 DEF dialVars, OnlyCloses, DialType
  <2> QED
    BY <1>1, <2>1, DialUntouched DEF dialVars
<1>2. CASE conn' = Closed({hops}) /\ UNCHANGED <<caller, hops, attempt, dial, key, sent, login, late, abort, probe>>
  BY <1>2, ClosedCloses, DialUntouched
<1>3. CASE PlanStdin
  <2>1. CASE UNCHANGED dial
    BY <1>1, <1>3, <2>1 DEF PlanStdin, dialVars
  <2>2. CASE dial' = FirstHop
    <3>0. caller = "run" /\ UNCHANGED <<caller, hops, attempt, conn, key, sent, login, late, abort, probe>>
      BY <1>3 DEF PlanStdin, RunAt, CallerInv
    <3>1. probe.pc = "off" /\ 1 \in Hop /\ 1 =< hops
      BY <3>0, DialAssumption DEF CallerInv, Hop, DialType
    <3>2. dial' \in [pc : {"hop"}, hop : Hop, why : {"none"}] /\ This' = 1
      BY <2>2, <3>1 DEF FirstHop, This
    <3>3. DialType'
      BY <3>0, <3>2 DEF DialType
    <3>4. AbortInv'
      BY <3>0, <3>2 DEF DialInv, AbortInv, Abortable
    <3>5. ProbeInv'
      BY <3>0, <3>1 DEF DialInv, ProbeInv, Waited
    <3>6. sent \subseteq login
      BY <1>3 DEF PlanStdin, RunAt, CallerInv, At, DialInv, SentInv
    <3>7. SentInv'
      BY <3>0, <3>1, <3>2, <3>6 DEF DialInv, SentInv, This
    <3> QED
      BY <3>3, <3>4, <3>5, <3>7 DEF DialInv
  <2> QED
    BY <1>3, <2>1, <2>2 DEF PlanStdin
<1>4. CASE Acquire
  <2>1. CASE Redial /\ UNCHANGED <<caller, hops, late, probe>>
    <3>1. probe.pc = "off"
      BY <1>4 DEF Acquire, RunAt, CallerInv
    <3>2. probe' \in [pc : {"off", "wait"}, past : BOOLEAN, orphan : BOOLEAN]
      BY <2>1, <3>1 DEF DialType
    <3> QED
      BY <2>1, <3>2, RedialStarts
  <2> QED
    BY <1>1, <1>2, <1>4, <2>1 DEF Acquire, CloseTarget, dialVars
<1>5. CASE Prepare \/ Report
  BY <1>1, <1>2, <1>5 DEF Prepare, Report, Release, dialVars
<1>6. CASE KeepaliveCloses
  BY <1>2, <1>6 DEF KeepaliveCloses, CloseTarget
<1>7. CASE Start \/ RunEnds \/ Complete \/ StopDeadline \/ WatchStep \/ InterruptStep \/ WriteOutput \/ PeerCloses
           \/ UserSignals \/ CommandWrites \/ CommandEnds \/ StdinEnds \/ PeerSilent
  <2>1. UNCHANGED dialVars
    BY <1>7 DEF Start, RunEnds, Complete, StopDeadline, WatchStep, InterruptStep, WriteOutput, PeerCloses,
                UserSignals, CommandWrites, CommandEnds, StdinEnds, PeerSilent, DeadlineFires, DeadlineReads,
                DeadlineSignals, DeadlineMarks, DeadlineGrace, WatchOnly, InterruptTakes, InterruptGrace, InterruptOnly
  <2> QED
    BY <1>1, <2>1
<1> QED
  BY <1>3, <1>4, <1>5, <1>6, <1>7 DEF RunNext, RunStep

-----------------------------------------------------------------------------
(* The tunnel                                                              *)

\* The invariant of the tunnel needs of the dial only that it stays connected
\* once a listener is open.
LEMMA TunnelUntouched ==
    ASSUME TunnelType, TunnelInv, UNCHANGED tunnelVars,
           (\E l \in Specs : listener[l] # "none") /\ At("ok") => At("ok")'
    PROVE  TunnelType' /\ TunnelInv'
<1>1. TunnelType'
  BY DEF tunnelVars, TunnelType
<1>2. PhaseInv'
  BY DEF tunnelVars, TunnelInv, PhaseInv, Handler
<1>3. HoldInv'
  BY DEF tunnelVars, TunnelInv, HoldInv, Handler
<1>4. SlotInv' /\ RelaysUntilBothEnd'
  BY DEF tunnelVars, TunnelInv, SlotInv, RelaysUntilBothEnd, Handled
<1> QED
  BY <1>1, <1>2, <1>3, <1>4 DEF TunnelInv

\* A step of RunTunnel that leaves the clients' connections alone keeps what is
\* known of them.
LEMMA ForwardsKept ==
    ASSUME TunnelInv, UNCHANGED forward, tunnel.cancelled => tunnel'.cancelled,
           UNCHANGED accept \/ \A c \in Conn : forward[c].pc # "accepted"
    PROVE  HoldInv' /\ SlotInv' /\ RelaysUntilBothEnd'
<1>1. HoldInv'
  BY DEF TunnelInv, HoldInv
<1>2. SlotInv'
  BY DEF TunnelInv, SlotInv, Handled
<1>3. RelaysUntilBothEnd'
  BY DEF TunnelInv, RelaysUntilBothEnd
<1> QED
  BY <1>1, <1>2, <1>3

\* Closing the listeners leaves none open.
LEMMA CloseListenersStep ==
    ASSUME TunnelType, CloseListeners
    PROVE  /\ listener' \in [Specs -> {"none", "open", "closed"}]
           /\ \A l \in Specs : listener'[l] # "open" /\ (listener'[l] = "none" <=> listener[l] = "none")
BY DEF TunnelType, CloseListeners

LEMMA ListenStep ==
    ASSUME TunnelType, TunnelInv, Listen
    PROVE  TunnelType' /\ TunnelInv'
<1>0. tunnel.pc = "dial" /\ UNCHANGED <<accept, forward, readyFile>>
  BY DEF Listen, TunnelAt
<1>1. CASE At("failed") /\ Stop("dial_failed") /\ UNCHANGED <<dialVars, listener>>
  <2>1. tunnel' \in [pc : {"done"}, cancelled : {tunnel.cancelled}, reason : {"dial_failed"}]
    BY <1>1 DEF Stop, TunnelType
  <2>2. tunnel.cancelled \in BOOLEAN
    BY DEF TunnelType
  <2>3. \A l \in Specs : listener[l] = "none"
    BY <1>1 DEF TunnelInv, PhaseInv, At
  <2>4. TunnelType'
    BY <1>0, <1>1, <2>1, <2>2 DEF TunnelType
  <2>5. PhaseInv'
    BY <1>0, <1>1, <2>1, <2>3 DEF TunnelInv, PhaseInv, Handler
  <2> QED
    BY <1>0, <2>1, <2>4, <2>5, ForwardsKept DEF TunnelInv
<1>2. CASE /\ At("ok") /\ UNCHANGED <<dialVars, tunnel>>
           /\ \E l \in Specs : listener[l] = "none" /\ listener' = [listener EXCEPT ![l] = "open"]
  <2>1. TunnelType'
    BY <1>0, <1>2 DEF TunnelType
  <2>2. At("ok")'
    BY <1>2 DEF At, dialVars
  <2>3. PhaseInv'
    BY <1>0, <1>2, <2>2 DEF TunnelInv, PhaseInv, Handler
  <2> QED
    BY <1>0, <1>2, <2>1, <2>3, ForwardsKept DEF TunnelInv
<1>3. CASE At("ok") /\ Stop("bind_failed") /\ CloseListeners /\ CloseTarget /\ TunnelConn
  <2>1. tunnel' \in [pc : {"done"}, cancelled : {tunnel.cancelled}, reason : {"bind_failed"}]
    BY <1>3 DEF Stop, TunnelType
  <2>2. tunnel.cancelled \in BOOLEAN
    BY DEF TunnelType
  <2>3. listener' \in [Specs -> {"none", "open", "closed"}] /\ \A l \in Specs : listener'[l] # "open"
    BY <1>3, CloseListenersStep
  <2>4. TunnelType'
    BY <1>0, <2>1, <2>2, <2>3 DEF TunnelType
  <2>5. At("ok")'
    BY <1>3 DEF At, TunnelConn
  <2>6. PhaseInv'
    BY <1>0, <2>1, <2>3, <2>5 DEF TunnelInv, PhaseInv, Handler
  <2> QED
    BY <1>0, <2>1, <2>4, <2>6, ForwardsKept DEF TunnelInv
<1>4. CASE At("ok") /\ TunnelGoto("ready") /\ UNCHANGED <<dialVars, listener>>
  <2>1. tunnel' \in [pc : {"ready"}, cancelled : {tunnel.cancelled}, reason : {tunnel.reason}]
    BY <1>4 DEF TunnelGoto, TunnelType
  <2>2. TunnelType'
    BY <1>0, <1>4 DEF TunnelType, TunnelGoto
  <2>3. At("ok")'
    BY <1>4 DEF At, dialVars
  <2>4. PhaseInv'
    BY <1>0, <1>4, <2>1, <2>3 DEF TunnelInv, PhaseInv, Handler
  <2> QED
    BY <1>0, <2>1, <2>2, <2>4, ForwardsKept DEF TunnelInv
<1> QED
  BY <1>1, <1>2, <1>3, <1>4 DEF Listen

LEMMA ReadyStep ==
    ASSUME TunnelType, TunnelInv, Ready
    PROVE  TunnelType' /\ TunnelInv'
<1>0. tunnel.pc = "ready" /\ UNCHANGED forward
  BY DEF Ready, TunnelAt
<1>1. \A c \in Conn : forward[c].pc \in {"none", "backlog"}
  BY <1>0 DEF TunnelInv, PhaseInv
<1>2. CASE /\ TunnelGoto("serve") /\ readyFile' \in {"none", "complete"}
           /\ accept' = [l \in Specs |-> "waiting"]
           /\ UNCHANGED <<dialVars, listener>>
  <2>1. tunnel' \in [pc : {"serve"}, cancelled : {tunnel.cancelled}, reason : {tunnel.reason}]
    BY <1>2 DEF TunnelGoto, TunnelType
  <2>2. TunnelType'
    BY <1>0, <1>2 DEF TunnelType, TunnelGoto
  <2>3. PhaseInv'
    BY <1>0, <1>2, <2>1 DEF TunnelInv, PhaseInv, At, dialVars
  <2> QED
    BY <1>0, <1>1, <2>1, <2>2, <2>3, ForwardsKept DEF TunnelInv
<1>3. CASE /\ Stop("ready_failed") /\ readyFile' \in {"none", "torn"} /\ UNCHANGED accept
           /\ CloseListeners /\ CloseTarget /\ TunnelConn
  <2>1. tunnel' \in [pc : {"done"}, cancelled : {tunnel.cancelled}, reason : {"ready_failed"}]
    BY <1>3 DEF Stop, TunnelType
  <2>2. tunnel.cancelled \in BOOLEAN
    BY DEF TunnelType
  <2>3. /\ listener' \in [Specs -> {"none", "open", "closed"}]
        /\ \A l \in Specs : listener'[l] # "open" /\ (listener'[l] = "none" <=> listener[l] = "none")
    BY <1>3, CloseListenersStep
  <2>4. TunnelType'
    BY <1>0, <1>3, <2>1, <2>2, <2>3 DEF TunnelType
  <2>5. PhaseInv'
    BY <1>0, <1>1, <1>3, <2>1, <2>3 DEF TunnelInv, PhaseInv, Handler, At, TunnelConn
  <2> QED
    BY <1>0, <1>3, <2>1, <2>4, <2>5, ForwardsKept DEF TunnelInv
<1> QED
  BY <1>2, <1>3 DEF Ready

LEMMA StopStep ==
    ASSUME TunnelType, TunnelInv, Serve \/ CloseClient \/ WaitAccepts \/ WaitHandlers
    PROVE  TunnelType' /\ TunnelInv'
<1>0. UNCHANGED <<accept, forward, dial>>
  BY DEF Serve, CloseClient, WaitAccepts, WaitHandlers, TunnelConn, dialVars
<1>1. CASE Serve
  <2>0. PICK why \in {"signal", "duration", "connection_lost"} :
            tunnel' = [tunnel EXCEPT !.pc = "close", !.cancelled = TRUE, !.reason = why]
    BY <1>1 DEF Serve
  <2>1. tunnel' \in [pc : {"close"}, cancelled : {TRUE}, reason : {why}]
    BY <2>0 DEF TunnelType
  <2>2. tunnel.pc = "serve" /\ UNCHANGED readyFile
    BY <1>1 DEF Serve, TunnelAt
  <2>3. /\ listener' \in [Specs -> {"none", "open", "closed"}]
        /\ \A l \in Specs : listener'[l] # "open" /\ (listener'[l] = "none" <=> listener[l] = "none")
    BY <1>1, CloseListenersStep DEF Serve
  <2>4. TunnelType'
    BY <1>0, <2>1, <2>2, <2>3 DEF TunnelType
  <2>5. PhaseInv'
    BY <1>0, <2>1, <2>2, <2>3 DEF TunnelInv, PhaseInv, At
  <2> QED
    BY <1>0, <2>1, <2>4, <2>5, ForwardsKept DEF TunnelInv
<1>2. CASE CloseClient
  <2>1. tunnel.pc = "close" /\ UNCHANGED <<listener, readyFile>>
        /\ tunnel' \in [pc : {"accepts"}, cancelled : {tunnel.cancelled}, reason : {tunnel.reason}]
    BY <1>2 DEF CloseClient, TunnelAt, TunnelGoto, TunnelType
  <2>2. TunnelType'
    BY <1>0, <1>2, <2>1 DEF CloseClient, TunnelType, TunnelGoto
  <2>3. PhaseInv'
    BY <1>0, <2>1 DEF TunnelInv, PhaseInv, At
  <2> QED
    BY <1>0, <2>1, <2>2, <2>3, ForwardsKept DEF TunnelInv
<1>3. CASE WaitAccepts
  <2>1. tunnel.pc = "accepts" /\ UNCHANGED <<listener, readyFile>>
        /\ tunnel' \in [pc : {"handlers"}, cancelled : {tunnel.cancelled}, reason : {tunnel.reason}]
        /\ \A l \in Specs : accept[l] = "ended"
    BY <1>3 DEF WaitAccepts, TunnelAt, TunnelGoto, TunnelType
  <2>2. TunnelType'
    BY <1>0, <1>3, <2>1 DEF WaitAccepts, TunnelType, TunnelGoto
  <2>3. PhaseInv'
    BY <1>0, <2>1 DEF TunnelInv, PhaseInv, At
  <2> QED
    BY <1>0, <2>1, <2>2, <2>3, ForwardsKept DEF TunnelInv
<1>4. CASE WaitHandlers
  <2>1. tunnel.pc = "handlers" /\ UNCHANGED listener /\ readyFile' = "none"
        /\ tunnel' \in [pc : {"done"}, cancelled : {tunnel.cancelled}, reason : {tunnel.reason}]
        /\ \A c \in Conn : forward[c].pc \notin Handler
    BY <1>4 DEF WaitHandlers, TunnelAt, TunnelGoto, TunnelType
  <2>2. TunnelType'
    BY <1>0, <1>4, <2>1 DEF WaitHandlers, TunnelType, TunnelGoto
  <2>3. PhaseInv'
    BY <1>0, <2>1 DEF TunnelInv, PhaseInv, At
  <2> QED
    BY <1>0, <2>1, <2>2, <2>3, ForwardsKept DEF TunnelInv
<1> QED
  BY <1>1, <1>2, <1>3, <1>4

\* A step after which each listener handles no connection it did not handle.
LEMMA SlotsKept ==
    ASSUME SlotInv, TunnelType, \A l \in Specs : Handled(l)' \subseteq Handled(l)
    PROVE  SlotInv'
<1> SUFFICES ASSUME NEW l \in Specs
             PROVE  IsFiniteSet(Handled(l)') /\ Cardinality(Handled(l)') =< Slots
  BY DEF SlotInv
<1>1. IsFiniteSet(Handled(l)) /\ Cardinality(Handled(l)) =< Slots
  BY DEF SlotInv
<1>2. IsFiniteSet(Handled(l)') /\ Cardinality(Handled(l)') =< Cardinality(Handled(l))
  BY <1>1, FS_Subset
<1>3. Cardinality(Handled(l)) \in Nat /\ Cardinality(Handled(l)') \in Nat
  BY <1>1, <1>2, FS_CardinalityType
<1> QED
  BY <1>1, <1>2, <1>3, TunnelAssumption

\* A step that takes a free slot of one listener.
LEMMA SlotTaken ==
    ASSUME SlotInv, TunnelType, NEW l \in Specs, NEW c \in Conn,
           Cardinality(Handled(l)) < Slots, Handled(l)' = Handled(l) \cup {c},
           \A k \in Specs : k # l => Handled(k)' = Handled(k)
    PROVE  SlotInv'
<1> SUFFICES ASSUME NEW k \in Specs
             PROVE  IsFiniteSet(Handled(k)') /\ Cardinality(Handled(k)') =< Slots
  BY DEF SlotInv
<1>1. CASE k # l
  BY <1>1 DEF SlotInv
<1>2. CASE k = l
  <2>1. IsFiniteSet(Handled(l)) /\ Cardinality(Handled(l)) \in Nat
    BY FS_CardinalityType DEF SlotInv
  <2>2. /\ IsFiniteSet(Handled(l)')
        /\ Cardinality(Handled(l)') = IF c \in Handled(l) THEN Cardinality(Handled(l)) ELSE Cardinality(Handled(l)) + 1
    BY <2>1, FS_AddElement
  <2> QED
    BY <1>2, <2>1, <2>2, TunnelAssumption
<1> QED
  BY <1>1, <1>2

\* A connection moves from one point of its way to another; everything else
\* about it, and every other connection, stays.
Moved(c, p) ==
    /\ forward' \in [Conn -> [spec : Specs \cup {"none"},
                              pc : {"none", "backlog", "accepted", "refused", "ended"} \cup Handler,
                              ended : SUBSET {"client", "target"}, cut : BOOLEAN]]
    /\ forward'[c].pc = p /\ forward'[c].spec = forward[c].spec /\ forward'[c].cut = forward[c].cut
    /\ \A d \in Conn : d # c => forward'[d] = forward[d]

LEMMA ForwardIsMove ==
    ASSUME TunnelType, NEW c \in Conn,
           NEW p \in {"none", "backlog", "accepted", "refused", "ended"} \cup Handler, Forward(c, p)
    PROVE  Moved(c, p)
<1> DEFINE r == [forward[c] EXCEPT !.pc = p]
<1>1. forward[c] \in [spec : Specs \cup {"none"},
                      pc : {"none", "backlog", "accepted", "refused", "ended"} \cup Handler,
                      ended : SUBSET {"client", "target"}, cut : BOOLEAN]
  BY DEF TunnelType
<1>2. /\ r \in [spec : Specs \cup {"none"}, pc : {"none", "backlog", "accepted", "refused", "ended"} \cup Handler,
                ended : SUBSET {"client", "target"}, cut : BOOLEAN]
      /\ r.pc = p /\ r.spec = forward[c].spec /\ r.cut = forward[c].cut
  BY <1>1
<1>3. forward' = [forward EXCEPT ![c] = r]
  BY DEF Forward, TunnelType
<1> HIDE DEF r
<1> QED
  BY <1>2, <1>3 DEF Moved, TunnelType

\* A step of a handler: it goes on or gives its slot back.
LEMMA HandlerMoves ==
    ASSUME TunnelType, TunnelInv, NEW c \in Conn, forward[c].pc \in Handler,
           forward' \in [Conn -> [spec : Specs \cup {"none"},
                                  pc : {"none", "backlog", "accepted", "refused", "ended"} \cup Handler,
                                  ended : SUBSET {"client", "target"}, cut : BOOLEAN]],
           forward'[c].pc \in Handler \cup {"ended"}, forward'[c].spec = forward[c].spec,
           forward'[c].cut => forward[c].cut \/ tunnel.cancelled,
           \A d \in Conn : d # c => forward'[d] = forward[d],
           ForwardOnly, UNCHANGED accept
    PROVE  TunnelType' /\ TunnelInv'
<1>0. UNCHANGED <<tunnel, listener, readyFile, accept, dial>>
  BY DEF ForwardOnly, dialVars
<1>1. TunnelType'
  BY <1>0 DEF TunnelType
<1>2. tunnel.pc \notin {"off", "dial", "ready", "done"}
  BY DEF TunnelInv, PhaseInv, Handler
<1>3. PhaseInv'
  BY <1>0, <1>2 DEF TunnelInv, PhaseInv, At
<1>4. HoldInv'
  BY <1>0 DEF TunnelInv, HoldInv, Handler
<1>5. \A l \in Specs : Handled(l)' \subseteq Handled(l)
  BY DEF Handled
<1>6. SlotInv'
  BY <1>5, SlotsKept DEF TunnelInv
<1>7. RelaysUntilBothEnd'
  BY <1>0 DEF TunnelInv, RelaysUntilBothEnd
<1> QED
  BY <1>1, <1>3, <1>4, <1>6, <1>7 DEF TunnelInv

LEMMA HandlerSteps ==
    ASSUME TunnelType, TunnelInv, NEW c \in Conn,
           HandlerStep(c) \/ TargetAnswers(c) \/ \E end \in {"client", "target"} : PeerFinishes(c, end)
    PROVE  TunnelType' /\ TunnelInv'
<1>0. forward[c] \in [spec : Specs \cup {"none"},
                      pc : {"none", "backlog", "accepted", "refused", "ended"} \cup Handler,
                      ended : SUBSET {"client", "target"}, cut : BOOLEAN]
  BY DEF TunnelType
<1>1. CASE Socks(c) \/ TargetAnswers(c) \/ DialBroken(c)
  <2>1. PICK p \in {"dialing", "copying", "ended"} : Forward(c, p)
    BY <1>1 DEF Socks, TargetAnswers, DialBroken
  <2>2. forward[c].pc \in Handler /\ ForwardOnly /\ UNCHANGED accept
    BY <1>1 DEF Socks, TargetAnswers, DialBroken, Handler
  <2>3. Moved(c, p)
    BY <2>1, ForwardIsMove DEF Handler
  <2> QED
    BY <2>1, <2>2, <2>3, HandlerMoves DEF Moved, Handler
<1>2. CASE CopyEnds(c)
  <2> DEFINE short == forward[c].ended # {"client", "target"}
             r == [forward[c] EXCEPT !.pc = "ended", !.cut = short]
  <2>1. forward[c].pc = "copying" /\ (short => tunnel.cancelled) /\ ForwardOnly /\ UNCHANGED accept /\ short \in BOOLEAN
    BY <1>2 DEF CopyEnds
  <2>2. forward' = [forward EXCEPT ![c] = r]
    BY <1>2 DEF CopyEnds, TunnelType
  <2> HIDE DEF short
  <2>3. /\ r \in [spec : Specs \cup {"none"}, pc : {"none", "backlog", "accepted", "refused", "ended"} \cup Handler,
                  ended : SUBSET {"client", "target"}, cut : BOOLEAN]
        /\ r.pc = "ended" /\ r.spec = forward[c].spec /\ r.cut = short
    BY <1>0, <2>1
  <2> HIDE DEF r
  <2>4. /\ forward' \in [Conn -> [spec : Specs \cup {"none"},
                                  pc : {"none", "backlog", "accepted", "refused", "ended"} \cup Handler,
                                  ended : SUBSET {"client", "target"}, cut : BOOLEAN]]
        /\ forward'[c] = r /\ \A d \in Conn : d # c => forward'[d] = forward[d]
    BY <2>2, <2>3 DEF TunnelType
  <2> QED
    BY <2>1, <2>3, <2>4, HandlerMoves DEF Handler
<1>3. CASE \E end \in {"client", "target"} : PeerFinishes(c, end)
  <2>0. PICK end \in {"client", "target"} : PeerFinishes(c, end)
    BY <1>3
  <2> DEFINE both == forward[c].ended \cup {end}
             r == [forward[c] EXCEPT !.ended = both]
  <2>1. forward[c].pc = "copying" /\ ForwardOnly /\ UNCHANGED accept /\ both \subseteq {"client", "target"}
    BY <1>0, <2>0 DEF PeerFinishes
  <2>2. forward' = [forward EXCEPT ![c] = r]
    BY <2>0 DEF PeerFinishes, TunnelType
  <2> HIDE DEF both
  <2>3. /\ r \in [spec : Specs \cup {"none"}, pc : {"none", "backlog", "accepted", "refused", "ended"} \cup Handler,
                  ended : SUBSET {"client", "target"}, cut : BOOLEAN]
        /\ r.pc = "copying" /\ r.spec = forward[c].spec /\ r.cut = forward[c].cut
    BY <1>0, <2>1
  <2> HIDE DEF r
  <2>4. /\ forward' \in [Conn -> [spec : Specs \cup {"none"},
                                  pc : {"none", "backlog", "accepted", "refused", "ended"} \cup Handler,
                                  ended : SUBSET {"client", "target"}, cut : BOOLEAN]]
        /\ forward'[c] = r /\ \A d \in Conn : d # c => forward'[d] = forward[d]
    BY <2>2, <2>3 DEF TunnelType
  <2> QED
    BY <2>1, <2>3, <2>4, HandlerMoves DEF Handler
<1> QED
  BY <1>1, <1>2, <1>3 DEF HandlerStep

LEMMA ClientConnectsStep ==
    ASSUME TunnelType, TunnelInv, NEW c \in Conn, NEW k \in Specs, ClientConnects(c, k)
    PROVE  TunnelType' /\ TunnelInv'
<1> DEFINE r == [forward[c] EXCEPT !.pc = "backlog", !.spec = k]
<1>0. /\ forward[c] \in [spec : Specs \cup {"none"},
                         pc : {"none", "backlog", "accepted", "refused", "ended"} \cup Handler,
                         ended : SUBSET {"client", "target"}, cut : BOOLEAN]
      /\ forward[c].pc = "none" /\ listener[k] = "open"
      /\ UNCHANGED <<tunnel, listener, readyFile, accept, dial>>
  BY DEF TunnelType, ClientConnects, ForwardOnly, dialVars
<1>1. forward' = [forward EXCEPT ![c] = r]
  BY DEF ClientConnects, TunnelType
<1>2. /\ r \in [spec : Specs \cup {"none"}, pc : {"none", "backlog", "accepted", "refused", "ended"} \cup Handler,
                ended : SUBSET {"client", "target"}, cut : BOOLEAN]
      /\ r.pc = "backlog" /\ r.spec = k /\ r.cut = forward[c].cut
  BY <1>0
<1> HIDE DEF r
<1>3. forward'[c] = r /\ \A d \in Conn : d # c => forward'[d] = forward[d]
  BY <1>1 DEF TunnelType
<1>4. TunnelType'
  BY <1>0, <1>1, <1>2 DEF TunnelType
<1>5. tunnel.pc \notin {"off", "close", "accepts", "handlers", "done"}
  BY <1>0 DEF TunnelInv, PhaseInv
<1>6. PhaseInv'
  BY <1>0, <1>2, <1>3, <1>5 DEF TunnelInv, PhaseInv, At
<1>7. HoldInv'
  BY <1>0, <1>2, <1>3 DEF TunnelInv, HoldInv, Handler
<1>8. \A l \in Specs : Handled(l)' \subseteq Handled(l)
  BY <1>2, <1>3 DEF Handled, Handler
<1>9. SlotInv'
  BY <1>8, SlotsKept DEF TunnelInv
<1>10. RelaysUntilBothEnd'
  BY <1>0, <1>2, <1>3 DEF TunnelInv, RelaysUntilBothEnd
<1> QED
  BY <1>4, <1>6, <1>7, <1>9, <1>10 DEF TunnelInv

LEMMA AcceptEndsStep ==
    ASSUME TunnelType, TunnelInv, NEW k \in Specs, AcceptEnds(k)
    PROVE  TunnelType' /\ TunnelInv'
<1> DEFINE Rec == [spec : Specs \cup {"none"}, pc : {"none", "backlog", "accepted", "refused", "ended"} \cup Handler,
                   ended : SUBSET {"client", "target"}, cut : BOOLEAN]
<1>0. /\ accept[k] = "waiting" /\ listener[k] = "closed" /\ accept' = [accept EXCEPT ![k] = "ended"]
      /\ UNCHANGED <<tunnel, listener, readyFile, dial>>
  BY DEF AcceptEnds, ForwardOnly, dialVars
<1>1. ASSUME NEW c \in Conn
      PROVE  /\ forward'[c] \in Rec /\ forward'[c].spec = forward[c].spec /\ forward'[c].cut = forward[c].cut
             /\ \/ forward'[c].pc = forward[c].pc
                \/ forward[c].pc = "backlog" /\ forward'[c].pc = "refused"
  <2>1. forward[c] \in Rec
    BY DEF TunnelType
  <2>2. forward'[c] = IF forward[c].spec = k /\ forward[c].pc = "backlog"
                      THEN [forward[c] EXCEPT !.pc = "refused"] ELSE forward[c]
    BY DEF AcceptEnds
  <2> QED
    BY <2>1, <2>2
<1>2. forward' \in [Conn -> Rec]
  <2>1. forward' = [c \in Conn |-> forward'[c]]
    BY DEF AcceptEnds
  <2> QED
    BY <1>1, <2>1
<1>3. TunnelType'
  BY <1>0, <1>2 DEF TunnelType
<1>4. tunnel.pc \notin {"off", "dial", "ready", "handlers", "done"}
  BY <1>0 DEF TunnelInv, PhaseInv
<1>5. PhaseInv'
  BY <1>0, <1>4 DEF TunnelInv, PhaseInv, At
<1>6. HoldInv'
  BY <1>0, <1>1 DEF TunnelInv, HoldInv, Handler, TunnelType
<1>7. \A l \in Specs : Handled(l)' \subseteq Handled(l)
  BY <1>1 DEF Handled, Handler
<1>8. SlotInv'
  BY <1>7, SlotsKept DEF TunnelInv
<1>9. RelaysUntilBothEnd'
  BY <1>0, <1>1 DEF TunnelInv, RelaysUntilBothEnd
<1> QED
  BY <1>3, <1>5, <1>6, <1>8, <1>9 DEF TunnelInv

\* An accept loop takes a connection from the backlog or lets go of the one it
\* holds: it holds at most one.
LEMMA AcceptStepKeeps ==
    ASSUME TunnelType, TunnelInv, NEW k \in Specs, NEW c \in Conn, Accept(k, c) \/ Dispatch(k, c)
    PROVE  TunnelType' /\ TunnelInv'
<1>0. forward[c].spec = k /\ UNCHANGED <<tunnel, listener, readyFile, dial>>
  BY DEF Accept, Dispatch, ForwardOnly, dialVars
<1>1. tunnel.pc \notin {"off", "dial", "ready", "handlers", "done"}
  BY DEF TunnelInv, PhaseInv, Accept, Dispatch
<1>2. PICK p \in {"accepted", "refused", "handshake", "dialing"} : Forward(c, p)
  BY DEF Accept, Dispatch
<1>3. Moved(c, p)
  BY <1>2, ForwardIsMove DEF Handler
<1>4. PICK a \in {"waiting", "accepted", "ended"} : accept' = [accept EXCEPT ![k] = a]
  BY DEF Accept, Dispatch
<1>5. TunnelType'
  BY <1>0, <1>3, <1>4 DEF TunnelType, Moved
<1>6. PhaseInv'
  BY <1>0, <1>1, <1>4 DEF TunnelInv, PhaseInv, At
<1>7. RelaysUntilBothEnd'
  BY <1>0, <1>3 DEF TunnelInv, RelaysUntilBothEnd, Moved
<1>8. CASE Accept(k, c)
  <2>1. forward'[c].pc = "accepted" /\ accept'[k] = "accepted" /\ accept[k] = "waiting" /\ forward[c].pc = "backlog"
    <3>1. Moved(c, "accepted")
      BY <1>8, ForwardIsMove DEF Accept
    <3> QED
      BY <1>8, <3>1 DEF Accept, Moved, TunnelType
  <2>2. \A d \in Conn : forward[d].pc = "accepted" => forward[d].spec # k
    BY <2>1 DEF TunnelInv, HoldInv
  <2>3. \A l \in Specs : l # k => accept'[l] = accept[l]
    BY <1>4 DEF TunnelType
  <2>4. HoldInv'
    BY <1>0, <1>3, <2>1, <2>2, <2>3 DEF TunnelInv, HoldInv, Moved, Handler
  <2>5. \A l \in Specs : Handled(l)' \subseteq Handled(l)
    BY <1>3, <2>1 DEF Handled, Handler, Moved
  <2>6. SlotInv'
    BY <2>5, SlotsKept DEF TunnelInv
  <2> QED
    BY <1>5, <1>6, <1>7, <2>4, <2>6 DEF TunnelInv
<1>9. CASE Dispatch(k, c)
  <2>1. forward[c].pc = "accepted"
    BY <1>9 DEF Dispatch
  <2>2. \A d \in Conn : d # c /\ forward[d].pc = "accepted" => forward[d].spec # k
    BY <1>0, <2>1 DEF TunnelInv, HoldInv
  <2>3. \A l \in Specs : l # k => accept'[l] = accept[l]
    BY <1>4 DEF TunnelType
  <2>4. p # "accepted"
    <3>1. forward'[c].pc = p
      BY <1>3 DEF Moved
    <3>2. \E q \in {"refused", "handshake", "dialing"} : Forward(c, q)
      BY <1>9 DEF Dispatch
    <3>3. PICK q \in {"refused", "handshake", "dialing"} : Forward(c, q)
      BY <3>2
    <3>4. Moved(c, q)
      BY <3>3, ForwardIsMove DEF Handler
    <3> QED
      BY <3>1, <3>4 DEF Moved
  <2>5. HoldInv'
    BY <1>0, <1>3, <2>1, <2>2, <2>3, <2>4 DEF TunnelInv, HoldInv, Moved, Handler
  <2>6. SlotInv'
    <3>1. CASE p = "refused"
      <4>1. \A l \in Specs : Handled(l)' \subseteq Handled(l)
        BY <1>3, <3>1 DEF Handled, Handler, Moved
      <4> QED
        BY <4>1, SlotsKept DEF TunnelInv
    <3>2. CASE p # "refused"
      <4>1. Cardinality(Handled(k)) < Slots
        <5>1. forward'[c].pc = p
          BY <1>3 DEF Moved
        <5>2. Forward(c, "refused") => p = "refused"
          BY <5>1, ForwardIsMove DEF Moved
        <5> QED
          BY <1>9, <3>2, <5>2 DEF Dispatch
      <4>2. Handled(k)' = Handled(k) \cup {c} /\ \A l \in Specs : l # k => Handled(l)' = Handled(l)
        BY <1>0, <1>3, <2>1, <2>4, <3>2 DEF Handled, Handler, Moved
      <4> QED
        BY <4>1, <4>2, SlotTaken DEF TunnelInv
    <3> QED
      BY <3>1, <3>2
  <2> QED
    BY <1>5, <1>6, <1>7, <2>5, <2>6 DEF TunnelInv
<1> QED
  BY <1>8, <1>9

LEMMA TunnelKeepsTunnel ==
    ASSUME TunnelType, TunnelInv, TunnelNext
    PROVE  TunnelType' /\ TunnelInv'
<1>1. CASE TunnelStep \/ Serve
  BY <1>1, ListenStep, ReadyStep, StopStep DEF TunnelStep
<1>2. CASE TransportEnds
  BY <1>2, TunnelUntouched DEF TransportEnds, TunnelConn, At
<1>3. CASE \E l \in Specs : AcceptStep(l) \/ \E c \in Conn : ClientConnects(c, l)
  BY <1>3, AcceptEndsStep, AcceptStepKeeps, ClientConnectsStep DEF AcceptStep
<1>4. CASE \E c \in Conn : HandlerStep(c) \/ TargetAnswers(c) \/ \E end \in {"client", "target"} : PeerFinishes(c, end)
  BY <1>4, HandlerSteps
<1> QED
  BY <1>1, <1>2, <1>3, <1>4 DEF TunnelNext

\* A tunnel only ever closes the transport of its target.
LEMMA TunnelTransports ==
    ASSUME TunnelNext
    PROVE  \/ UNCHANGED dialVars
           \/ conn' = Closed({hops}) /\ UNCHANGED <<caller, hops, attempt, dial, key, sent, login, late, abort, probe>>
<1>1. CASE TunnelStep \/ Serve \/ TransportEnds
  BY <1>1 DEF TunnelStep, Listen, Ready, Serve, CloseClient, WaitAccepts, WaitHandlers, TransportEnds, CloseTarget, TunnelConn
<1>2. CASE \E l \in Specs : AcceptStep(l) \/ \E c \in Conn : ClientConnects(c, l)
  BY <1>2 DEF AcceptStep, AcceptEnds, Accept, Dispatch, ClientConnects, ForwardOnly
<1>3. CASE \E c \in Conn : HandlerStep(c) \/ TargetAnswers(c) \/ \E end \in {"client", "target"} : PeerFinishes(c, end)
  BY <1>3 DEF HandlerStep, Socks, DialBroken, CopyEnds, TargetAnswers, PeerFinishes, ForwardOnly
<1> QED
  BY <1>1, <1>2, <1>3 DEF TunnelNext

LEMMA TunnelKeepsDial ==
    ASSUME DialType, DialInv, TunnelNext
    PROVE  DialType' /\ DialInv'
<1>1. CASE UNCHANGED dialVars
  <2>1. OnlyCloses
    BY <1>1 DEF dialVars, OnlyCloses, DialType
  <2> QED
    BY <1>1, <2>1, DialUntouched DEF dialVars
<1>2. CASE conn' = Closed({hops}) /\ UNCHANGED <<caller, hops, attempt, dial, key, sent, login, late, abort, probe>>
  BY <1>2, ClosedCloses, DialUntouched
<1> QED
  BY <1>1, <1>2, TunnelTransports

-----------------------------------------------------------------------------
(* The three together                                                      *)

LEMMA DialKeepsDial ==
    ASSUME DialType, DialInv, DialNext
    PROVE  DialType' /\ DialInv'
<1>1. CASE DialStep
  BY <1>1, StartHopStep, ConnectStep, LateTunnelStep, KeyArrivesStep, HandshakeFailsStep, CheckKeyStep,
     AuthenticateStep, AnswerStep, NewClientStep, UndoStep, CloseJumpsStep DEF DialStep
<1>2. CASE ProbeStep \/ ProbeExpires \/ WaitAgain
  BY <1>2, ProbeResultStep, ProbeClosesStep, ProbeReadsStep, ProbeDrainsStep, OrphanClosesStep, ProbeExpiresStep,
     WaitAgainStep DEF ProbeStep
<1> QED
  BY <1>1, <1>2 DEF DialNext

\* A step of the dial: who called it stays, a finished dial is started again
\* only by wait, and a dial that waits for the plan of its command stays idle.
LEMMA DialCaller ==
    ASSUME DialType, CallerInv, DialNext
    PROVE  /\ UNCHANGED caller /\ (probe'.pc # "off" <=> probe.pc # "off")
           /\ caller # "wait" => (At("ok") => At("ok")') /\ (At("idle") => At("idle")')
<1>1. CASE DialStep
  <2>1. UNCHANGED <<caller, probe>>
    BY <1>1 DEF DialStep, StartHop, Connect, LateTunnel, KeyArrives, HandshakeFails, CheckKey, Authenticate, Answer,
                NewClient, Undo, CloseJumps
  <2>2. At("ok") \/ At("idle") => UNCHANGED dial
    BY <1>1 DEF DialStep, StartHop, Connect, LateTunnel, KeyArrives, HandshakeFails, CheckKey, Authenticate, Answer,
                NewClient, Undo, CloseJumps, At
  <2> QED
    BY <2>1, <2>2 DEF At
<1>2. CASE ProbeStep \/ ProbeExpires
  <2>1. UNCHANGED <<caller, dial>>
    BY <1>2 DEF ProbeStep, ProbeResult, ProbeCloses, ProbeReads, ProbeDrains, OrphanCloses, ProbeExpires
  <2>2. probe'.pc # "off" <=> probe.pc # "off"
    BY <1>2 DEF ProbeStep, ProbeResult, ProbeCloses, ProbeReads, ProbeDrains, OrphanCloses, ProbeExpires, Probe, DialType
  <2> QED
    BY <2>1, <2>2 DEF At
<1>3. CASE WaitAgain
  <2>1. UNCHANGED caller /\ caller = "wait"
    BY <1>3 DEF WaitAgain, CallerInv
  <2>2. probe'.pc # "off" /\ probe.pc # "off"
    BY <1>3 DEF WaitAgain, Probe, DialType
  <2> QED
    BY <2>1, <2>2
<1> QED
  BY <1>1, <1>2, <1>3 DEF DialNext

\* A step of the command: only a command plans and dials again.
LEMMA RunCaller ==
    ASSUME RunType, DialType, CallerInv, RunNext
    PROVE  /\ UNCHANGED <<caller, probe>> /\ (run'.pc # "off" <=> run.pc # "off")
           /\ run'.pc = "plan" => run.pc = "plan" /\ UNCHANGED dial
           /\ caller = "tunnel" => UNCHANGED dial
<1>1. CASE RunStep
  <2>1. run.pc # "off" /\ caller # "tunnel"
    BY <1>1 DEF RunStep, PlanStdin, Acquire, Prepare, Start, RunEnds, Complete, StopDeadline, Report, RunAt, CallerInv
  <2>2. UNCHANGED <<caller, probe>>
    BY <1>1 DEF RunStep, PlanStdin, Acquire, Prepare, Start, RunEnds, Complete, StopDeadline, Report, dialVars
  <2>3. run'.pc \notin {"off", "plan"}
    <3>1. \A q : RunGoto(q) => run'.pc = q
      BY DEF RunGoto, RunType
    <3>2. \A q : Return(q) => run'.pc = "returned"
      BY DEF Return, RunType
    <3>3. PlanStdin => run'.pc \notin {"off", "plan"}
      BY <3>1, <3>2 DEF PlanStdin
    <3>4. Acquire => run'.pc \notin {"off", "plan"}
      BY <3>1, <3>2 DEF Acquire, RunAt
    <3>5. Prepare => run'.pc \notin {"off", "plan"}
      BY <3>1, <3>2 DEF Prepare
    <3>6. Start => run'.pc \notin {"off", "plan"}
      BY <3>1 DEF Start, RunType
    <3>7. RunEnds => run'.pc \notin {"off", "plan"}
      <4>1. RunEnds => \E e : run' = [run EXCEPT !.pc = "ended", !.err = e]
        BY Zenon DEF RunEnds
      <4> QED
        BY <4>1 DEF RunType
    <3>8. Complete \/ StopDeadline => run'.pc \notin {"off", "plan"}
      BY <3>1 DEF Complete, StopDeadline
    <3>9. Report => run'.pc \notin {"off", "plan"}
      BY <3>2 DEF Report
    <3> QED
      BY <1>1, <3>3, <3>4, <3>5, <3>6, <3>7, <3>8, <3>9 DEF RunStep
  <2> QED
    BY <2>1, <2>2, <2>3
<1>2. CASE ~RunStep
  <2>1. UNCHANGED <<caller, probe, dial, run>>
    BY <1>2 DEF RunNext, WatchStep, InterruptStep, WriteOutput, PeerCloses, KeepaliveCloses, UserSignals,
                CommandWrites, CommandEnds, StdinEnds, PeerSilent, DeadlineFires, DeadlineReads, DeadlineSignals,
                DeadlineMarks, DeadlineGrace, WatchOnly, InterruptTakes, InterruptGrace, InterruptOnly, dialVars, runVars
  <2> QED
    BY <2>1
<1> QED
  BY <1>1, <1>2

\* A step of the tunnel: it is on before and after.
LEMMA TunnelCaller ==
    ASSUME TunnelType, TunnelNext
    PROVE  UNCHANGED <<caller, probe, dial>> /\ (tunnel'.pc # "off" <=> tunnel.pc # "off")
<1>1. UNCHANGED <<caller, probe, dial>>
  BY TunnelTransports DEF dialVars
<1>2. CASE TunnelStep \/ Serve \/ TransportEnds
  BY <1>1, <1>2 DEF TunnelStep, Listen, Ready, Serve, CloseClient, WaitAccepts, WaitHandlers, TransportEnds,
                    TunnelGoto, Stop, TunnelAt, TunnelType, tunnelVars
<1>3. CASE \E l \in Specs : AcceptStep(l) \/ \E c \in Conn : ClientConnects(c, l)
  BY <1>1, <1>3 DEF AcceptStep, AcceptEnds, Accept, Dispatch, ClientConnects, ForwardOnly
<1>4. CASE \E c \in Conn : HandlerStep(c) \/ TargetAnswers(c) \/ \E end \in {"client", "target"} : PeerFinishes(c, end)
  BY <1>1, <1>4 DEF HandlerStep, Socks, DialBroken, CopyEnds, TargetAnswers, PeerFinishes, ForwardOnly
<1> QED
  BY <1>2, <1>3, <1>4 DEF TunnelNext

\* Before anything was dialled the invariant holds, whoever calls.
LEMMA InvInit == Init => Inv
<1> SUFFICES ASSUME Init PROVE Inv
  OBVIOUS
<1> USE DEF Init
<1>0. 1 \in Hop /\ 1 \in 1 .. MaxAttempts /\ 0 \in 0 .. MaxHops /\ 0 \in 0 .. MaxSignals
  BY DialAssumption, RunAssumption DEF Hop
<1>1. DialType /\ dial.pc \in {"idle", "hop"} /\ This = 1 /\ This =< hops /\ abort = NoAbort /\ probe.pc \in {"off", "wait"}
  <2>1. dial \in [pc : {"idle", "hop"}, hop : {1}, why : {"none"}] /\ hops \in Hop
    BY DEF DialInit, FirstHop
  <2>2. abort \in [done : {FALSE}, conns : {{}}, current : {0}] /\ conn \in [Hop -> {"none"}]
    BY DEF DialInit, NoAbort, NoConns
  <2>3. probe \in [pc : {"off", "wait"}, past : {FALSE}, orphan : {FALSE}]
    BY DEF DialInit
  <2>4. abort \in [done : BOOLEAN, conns : SUBSET Hop, current : 0 .. MaxHops] /\ conn \in [Hop -> {"none", "open", "closed"}]
    BY <1>0, <2>2
  <2>5. DialType
    BY <1>0, <2>1, <2>3, <2>4 DEF DialType, DialInit
  <2> QED
    BY <2>1, <2>3, <2>5, DialAssumption DEF DialInit, This, Hop
<1>2. DialInv
  <2>1. abort.done = FALSE /\ \A h \in Hop : conn[h] = "none"
    BY DEF DialInit, NoAbort, NoConns
  <2>2. caller = "wait" => dial.pc = "hop"
    BY DEF DialInit, FirstHop
  <2> QED
    BY <1>1, <2>1, <2>2 DEF DialInv, SentInv, AbortInv, ProbeInv, Waited, DialInit, Abortable
<1>3. RunType
  <2>1. opts \in OptionRecord
    <3>1. CASE caller = "run"
      BY <3>1, RunAssumption DEF RunInit
    <3>2. CASE caller # "run"
      <4>1. opts = [capture |-> TRUE, limit |-> FALSE, reuse |-> FALSE, stdin |-> "none"]
        BY <3>2 DEF RunInit
      <4> QED
        BY <4>1 DEF OptionRecord
    <3> QED
      BY <3>1, <3>2
  <2> QED
    BY <1>0, <2>1 DEF RunInit, RunType
<1>4. RunInv
  BY <1>0 DEF RunInit, RunInv, WatchInv, CommandInv, ReportInv, SuccessIsReal, Early, Ended
<1>5. TunnelType
  BY DEF TunnelInit, TunnelType
<1>6. SlotInv
  <2> SUFFICES ASSUME NEW l \in Specs
               PROVE  IsFiniteSet(Handled(l)) /\ Cardinality(Handled(l)) =< Slots
    BY DEF SlotInv
  <2>1. Handled(l) = {}
    BY DEF Handled, TunnelInit, Handler
  <2> QED
    BY <2>1, FS_EmptySet, TunnelAssumption
<1>7. TunnelInv
  BY <1>6 DEF TunnelInit, TunnelInv, PhaseInv, HoldInv, RelaysUntilBothEnd, Handler
<1>8. CallerInv
  BY DEF CallerInv, DialInit, RunInit, TunnelInit, At
<1> QED
  BY <1>1, <1>2, <1>3, <1>4, <1>5, <1>7, <1>8 DEF Inv, TypeOK

\* Each part keeps its own invariant, and those of the others.
LEMMA InvNext == Inv /\ [Next]_vars => Inv'
<1> SUFFICES ASSUME Inv, [Next]_vars PROVE Inv'
  OBVIOUS
<1> USE DEF Inv, TypeOK
<1>1. CASE DialNext /\ UNCHANGED <<runVars, tunnelVars>>
  <2>1. DialType' /\ DialInv'
    BY <1>1, DialKeepsDial
  <2>2. RunType' /\ RunInv'
    BY <1>1, RunUntouched
  <2>3. /\ UNCHANGED caller /\ (probe'.pc # "off" <=> probe.pc # "off")
        /\ caller # "wait" => (At("ok") => At("ok")') /\ (At("idle") => At("idle")')
    BY <1>1, DialCaller
  <2>4. (\E l \in Specs : listener[l] # "none") => caller = "tunnel"
    BY DEF TunnelInv, PhaseInv, CallerInv
  <2>5. TunnelType' /\ TunnelInv'
    BY <1>1, <2>3, <2>4, TunnelUntouched
  <2>6. CallerInv'
    BY <1>1, <2>3 DEF CallerInv, runVars, tunnelVars
  <2> QED
    BY <2>1, <2>2, <2>5, <2>6
<1>2. CASE RunNext /\ UNCHANGED tunnelVars
  <2>1. DialType' /\ DialInv'
    BY <1>2, RunKeepsDial
  <2>2. RunType' /\ RunInv'
    BY <1>2, RunKeepsRun
  <2>3. /\ UNCHANGED <<caller, probe>> /\ (run'.pc # "off" <=> run.pc # "off")
        /\ run'.pc = "plan" => run.pc = "plan" /\ UNCHANGED dial
        /\ caller = "tunnel" => UNCHANGED dial
    BY <1>2, RunCaller
  <2>4. (\E l \in Specs : listener[l] # "none") => caller = "tunnel"
    BY DEF TunnelInv, PhaseInv, CallerInv
  <2>5. TunnelType' /\ TunnelInv'
    BY <1>2, <2>3, <2>4, TunnelUntouched DEF At
  <2>6. CallerInv'
    BY <1>2, <2>3 DEF CallerInv, At, tunnelVars
  <2> QED
    BY <2>1, <2>2, <2>5, <2>6
<1>3. CASE TunnelNext /\ UNCHANGED runVars
  <2>1. DialType' /\ DialInv'
    BY <1>3, TunnelKeepsDial
  <2>2. RunType' /\ RunInv'
    BY <1>3, RunUntouched
  <2>3. TunnelType' /\ TunnelInv'
    BY <1>3, TunnelKeepsTunnel
  <2>4. CallerInv'
    BY <1>3, TunnelCaller DEF CallerInv, At, runVars
  <2> QED
    BY <2>1, <2>2, <2>3, <2>4
<1>4. CASE UNCHANGED vars
  <2>1. OnlyCloses
    BY <1>4 DEF vars, dialVars, OnlyCloses, DialType
  <2>2. DialType' /\ DialInv'
    BY <1>4, <2>1, DialUntouched DEF vars, dialVars
  <2>3. RunType' /\ RunInv'
    BY <1>4, RunUntouched DEF vars
  <2>4. TunnelType' /\ TunnelInv'
    BY <1>4, TunnelUntouched DEF vars, dialVars, At
  <2>5. CallerInv'
    BY <1>4 DEF vars, dialVars, runVars, tunnelVars, CallerInv, At
  <2> QED
    BY <2>2, <2>3, <2>4, <2>5
<1> QED
  BY <1>1, <1>2, <1>3, <1>4 DEF Next

THEOREM SessionsInv == Spec => []Inv
BY InvInit, InvNext, PTL DEF Spec

\* Every variable of the dial, the command, its watchers and the tunnel has
\* its type in every reachable state.
THEOREM SessionsTypeCorrect == Spec => []TypeOK
<1>1. Inv => TypeOK
  BY DEF Inv
<1> QED
  BY <1>1, SessionsInv, PTL

\* exec_timeout is reported exactly when the channel took the deadline's
\* SIGTERM, however the deadline, the end of the command, the signals of the
\* user and a silent peer interleave.
THEOREM TimeoutIsTruthful == Spec => []TimeoutTruthful
<1>1. Inv => TimeoutTruthful
  BY DEF Inv, RunInv, ReportInv, TimeoutTruthful, RunAt
<1> QED
  BY <1>1, SessionsInv, PTL

\* Run reports success only for a command that ended with status 0, whose
\* output was written, and that neither the deadline nor the user ended.
THEOREM SuccessIsAlwaysReal == Spec => []SuccessIsReal
<1>1. Inv => SuccessIsReal
  BY DEF Inv, RunInv, ReportInv
<1> QED
  BY <1>1, SessionsInv, PTL

\* Nothing of a command or a tunnel outlives its return, no relay is cut
\* before the tunnel stops, and no listener handles more connections than
\* tunnelMaxConnections, for any set of clients.
THEOREM TunnelIsSound == Spec => []TunnelSound
<1>1. Inv => TunnelSound
  <2> SUFFICES ASSUME Inv PROVE TunnelSound
    OBVIOUS
  <2>1. RunAt("returned") => watch.pc \in {"off", "finished"} /\ interrupt.pc \in {"off", "finished"}
    BY DEF Inv, RunInv, CommandInv, RunAt
  <2>2. ASSUME tunnel.pc = "done", NEW c \in Conn
        PROVE  forward[c].pc # "accepted"
    BY <2>2 DEF Inv, TunnelInv, PhaseInv, HoldInv
  <2>3. TunnelAt("done") =>
            /\ \A l \in Specs : listener[l] # "open" /\ accept[l] \in {"off", "ended"}
            /\ \A c \in Conn : forward[c].pc \notin {"accepted"} \cup Handler
            /\ readyFile # "complete"
    BY <2>2 DEF Inv, TunnelInv, PhaseInv, TunnelAt
  <2> QED
    BY <2>1, <2>3 DEF TunnelSound, NothingOutlives, Inv, TunnelInv, SlotInv
<1> QED
  BY <1>1, SessionsInv, PTL

\* Only the retry of a command and the next round of wait change the attempt,
\* and neither dials again while a credential is unanswered or was refused.
THEOREM RetryIsAlwaysHarmless == Spec => RetryIsHarmless
<1>1. Inv /\ [Next]_vars => [attempt' # attempt => sent \subseteq login]_vars
  <2> SUFFICES ASSUME Inv, Next, attempt' # attempt
               PROVE  sent \subseteq login
    OBVIOUS
  <2>0. DialType /\ SentInv /\ ProbeInv
    BY DEF Inv, TypeOK, DialInv
  <2>1. ~TunnelNext
    BY TunnelTransports DEF dialVars
  <2>2. CASE DialNext
    <3>1. probe.pc = "again"
      BY <2>2 DEF DialNext, DialStep, StartHop, Connect, LateTunnel, KeyArrives, HandshakeFails, CheckKey,
                  Authenticate, Answer, NewClient, Undo, CloseJumps, ProbeStep, ProbeResult, ProbeCloses,
                  ProbeReads, ProbeDrains, OrphanCloses, ProbeExpires, WaitAgain
    <3> QED
      BY <2>0, <3>1 DEF ProbeInv
  <2>3. CASE RunNext
    <3>1. Retryable(dial.why, PastKey)
      <4>1. CASE Acquire
        BY <4>1 DEF Acquire, dialVars
      <4>2. CASE ~Acquire
        BY <2>3, <4>2 DEF RunNext, RunStep, PlanStdin, Prepare, Start, RunEnds, Complete, StopDeadline, Report,
             WatchStep, InterruptStep, WriteOutput, PeerCloses, KeepaliveCloses, UserSignals, CommandWrites,
             CommandEnds, StdinEnds, PeerSilent, DeadlineFires, DeadlineReads, DeadlineSignals, DeadlineMarks,
             DeadlineGrace, WatchOnly, InterruptTakes, InterruptGrace, InterruptOnly, dialVars
      <4> QED
        BY <4>1, <4>2
    <3> QED
      BY <2>0, <3>1, NotPastKey DEF Retryable, PastKey
  <2> QED
    BY <2>1, <2>2, <2>3 DEF Next
<1> QED
  BY <1>1, SessionsInv, PTL DEF Spec, RetryIsHarmless

\* The dial that waitChainProbe gave up on sends no credential any more: every
\* transport it may open is closed or refused.
THEOREM AbandonedStaysSilent == Spec => AbandonedSendsNothing
<1>1. Inv /\ [Next]_vars => [Waited /\ attempt' = attempt => sent' = sent]_vars
  <2> SUFFICES ASSUME Inv, Next, Waited, attempt' = attempt
               PROVE  sent' = sent
    OBVIOUS
  <2>0. DialType /\ AbortInv /\ ProbeInv /\ attempt \in 1 .. MaxAttempts /\ This \in Hop
    BY DEF Inv, TypeOK, DialInv, DialType, This
  <2>1. ~Redial
    BY <2>0, DialAssumption DEF Redial
  <2>2. ~(At("auth") /\ Alive(This))
    BY <2>0, AliveIsOpen DEF ProbeInv, AbortInv, Waited, At
  <2>3. CASE TunnelNext
    BY <2>3, TunnelTransports DEF dialVars
  <2>4. CASE DialNext
    BY <2>1, <2>2, <2>4
       DEF DialNext, DialStep, StartHop, Connect, LateTunnel, KeyArrives, HandshakeFails, CheckKey,
           Authenticate, Answer, NewClient, Undo, CloseJumps, ProbeStep, ProbeResult, ProbeCloses,
           ProbeReads, ProbeDrains, OrphanCloses, ProbeExpires, WaitAgain
  <2>5. CASE RunNext
    <3>1. CASE Acquire
      BY <2>1, <3>1 DEF Acquire, dialVars
    <3>2. CASE ~Acquire
      BY <2>5, <3>2 DEF RunNext, RunStep, PlanStdin, Prepare, Start, RunEnds, Complete, StopDeadline, Report,
           WatchStep, InterruptStep, WriteOutput, PeerCloses, KeepaliveCloses, UserSignals, CommandWrites,
           CommandEnds, StdinEnds, PeerSilent, DeadlineFires, DeadlineReads, DeadlineSignals, DeadlineMarks,
           DeadlineGrace, WatchOnly, InterruptTakes, InterruptGrace, InterruptOnly, dialVars
    <3> QED
      BY <3>1, <3>2
  <2> QED
    BY <2>3, <2>4, <2>5 DEF Next
<1> QED
  BY <1>1, SessionsInv, PTL DEF Spec, AbandonedSendsNothing
=============================================================================
