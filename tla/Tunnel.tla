------------------------------- MODULE Tunnel -------------------------------
(***************************************************************************)
(* A port-forwarding tunnel (internal/ssh/tunnel.go) over the connection   *)
(* JumpDial opens: one accept loop per listener, one handler per accepted  *)
(* connection, and RunTunnel, which must stop them all.  A "local"         *)
(* listener forwards to a fixed target; a "dynamic" one speaks SOCKS first.*)
(***************************************************************************)
EXTENDS JumpDial

CONSTANTS
    Specs,      \* the listeners asked for, by kind
    Conn,       \* the connections clients may make
    Slots       \* tunnelMaxConnections

ASSUME TunnelAssumption == Specs \subseteq {"local", "dynamic"} /\ Slots \in Nat \ {0}

VARIABLES
    tunnel,     \* RunTunnel: where it is, its context and why it stops
    listener,   \* each listener
    accept,     \* each accept loop
    forward,    \* each client connection: its listener, its handler, the ends that sent everything, what it got
    readyFile   \* the ready file

tunnelVars == <<tunnel, listener, accept, forward, readyFile>>

TunnelInit ==
    /\ tunnel = [pc |-> IF caller = "tunnel" THEN "dial" ELSE "off", cancelled |-> FALSE, reason |-> "none"]
    /\ listener = [l \in Specs |-> "none"]
    /\ accept = [l \in Specs |-> "off"]
    /\ forward = [c \in Conn |-> [spec |-> "none", pc |-> "none", ended |-> {}, cut |-> FALSE]]
    /\ readyFile = "none"

TunnelAt(p) == tunnel.pc = p
TunnelGoto(p) == tunnel' = [tunnel EXCEPT !.pc = p]
Stop(reason) == tunnel' = [tunnel EXCEPT !.pc = "done", !.reason = reason]
CloseListeners == listener' = [l \in Specs |-> IF listener[l] = "open" THEN "closed" ELSE listener[l]]
Up == Alive(hops)
Handler == {"handshake", "dialing", "copying"}
Handled(l) == {c \in Conn : forward[c].spec = l /\ forward[c].pc \in Handler}
TunnelConn == UNCHANGED <<caller, hops, attempt, dial, key, sent, login, late, abort, probe>>

-----------------------------------------------------------------------------
(* RunTunnel                                                               *)

\* One attempt to dial; then every listener, or none.
Listen ==
    /\ TunnelAt("dial")
    /\ \/ At("failed") /\ Stop("dial_failed") /\ UNCHANGED <<dialVars, listener>>
       \/ /\ At("ok") /\ \E l \in Specs : listener[l] = "none"
          /\ \/ /\ \E l \in Specs : listener[l] = "none" /\ listener' = [listener EXCEPT ![l] = "open"]
                /\ UNCHANGED <<dialVars, tunnel>>
             \/ Stop("bind_failed") /\ CloseListeners /\ CloseTarget /\ TunnelConn
       \/ /\ At("ok") /\ \A l \in Specs : listener[l] = "open"
          /\ TunnelGoto("ready")
          /\ UNCHANGED <<dialVars, listener>>
    /\ UNCHANGED <<accept, forward, readyFile>>

\* The ready file (which may be left cut short), then OnReady.
Ready ==
    /\ TunnelAt("ready")
    /\ \/ TunnelGoto("serve") /\ readyFile' \in {"none", "complete"}
          /\ accept' = [l \in Specs |-> "waiting"]
          /\ UNCHANGED <<dialVars, listener>>
       \/ Stop("ready_failed") /\ readyFile' \in {"none", "torn"} /\ UNCHANGED accept
          /\ CloseListeners /\ CloseTarget /\ TunnelConn
    /\ UNCHANGED forward

\* The select: the context, the duration or the end of the client.
Serve ==
    /\ TunnelAt("serve")
    /\ \E reason \in {"signal", "duration", "connection_lost"} :
           /\ reason = "connection_lost" => ~Up
           /\ tunnel' = [tunnel EXCEPT !.pc = "close", !.cancelled = TRUE, !.reason = reason]
    /\ CloseListeners
    /\ UNCHANGED <<dialVars, accept, forward, readyFile>>

\* client.Close and <-clientDone; the connection that ended by itself is closed.
CloseClient ==
    /\ TunnelAt("close")
    /\ TunnelGoto("accepts")
    /\ CloseTarget /\ TunnelConn
    /\ UNCHANGED <<listener, accept, forward, readyFile>>

\* Mutant: the handlers are waited for before the accept loops.
WaitAcceptsLast ==
    /\ TunnelAt("accepts") /\ \A c \in Conn : forward[c].pc \notin Handler
    /\ TunnelGoto("handlers")
    /\ UNCHANGED <<dialVars, listener, accept, forward, readyFile>>

\* accepts.Wait
WaitAccepts ==
    /\ TunnelAt("accepts") /\ \A l \in Specs : accept[l] = "ended"
    /\ TunnelGoto("handlers")
    /\ UNCHANGED <<dialVars, listener, accept, forward, readyFile>>

\* handlers.Wait, then the deferred removal of the ready file.
WaitHandlers ==
    /\ TunnelAt("handlers") /\ \A c \in Conn : forward[c].pc \notin Handler
    /\ TunnelGoto("done")
    /\ readyFile' = "none"
    /\ UNCHANGED <<dialVars, listener, accept, forward>>

TunnelStep == Listen \/ Ready \/ CloseClient \/ WaitAccepts \/ WaitHandlers

-----------------------------------------------------------------------------
(* Accept loops and handlers                                               *)

Forward(c, p) == forward' = [forward EXCEPT ![c].pc = p]
ForwardOnly == UNCHANGED <<dialVars, tunnel, listener, readyFile>>

\* A client connects to a listener's backlog.
ClientConnects(c, l) ==
    /\ forward[c].pc = "none" /\ listener[l] = "open"
    /\ forward' = [forward EXCEPT ![c].pc = "backlog", ![c].spec = l]
    /\ ForwardOnly /\ UNCHANGED accept

\* Accept fails once the listener is closed, and its backlog is reset.
AcceptEnds(l) ==
    /\ accept[l] = "waiting" /\ listener[l] = "closed"
    /\ accept' = [accept EXCEPT ![l] = "ended"]
    /\ forward' = [c \in Conn |-> IF forward[c].spec = l /\ forward[c].pc = "backlog"
                                  THEN [forward[c] EXCEPT !.pc = "refused"] ELSE forward[c]]
    /\ ForwardOnly

Accept(l, c) ==
    /\ accept[l] = "waiting" /\ listener[l] = "open"
    /\ forward[c].spec = l /\ forward[c].pc = "backlog"
    /\ accept' = [accept EXCEPT ![l] = "accepted"]
    /\ Forward(c, "accepted")
    /\ ForwardOnly

\* Mutant: the semaphore lets one more in.
DispatchOneMore(l, c) ==
    /\ accept[l] = "accepted" /\ forward[c].spec = l /\ forward[c].pc = "accepted"
    /\ Cardinality(Handled(l)) =< Slots
    /\ Forward(c, IF l = "dynamic" THEN "handshake" ELSE "dialing")
    /\ accept' = [accept EXCEPT ![l] = "waiting"]
    /\ ForwardOnly

\* A slot is free, the tunnel stops, or the connection is turned away.
Dispatch(l, c) ==
    /\ accept[l] = "accepted" /\ forward[c].spec = l /\ forward[c].pc = "accepted"
    /\ \/ /\ Cardinality(Handled(l)) < Slots
          /\ Forward(c, IF l = "dynamic" THEN "handshake" ELSE "dialing")
          /\ accept' = [accept EXCEPT ![l] = "waiting"]
       \/ /\ tunnel.cancelled
          /\ Forward(c, "refused")
          /\ accept' = [accept EXCEPT ![l] = "ended"]
       \/ /\ Cardinality(Handled(l)) >= Slots /\ ~tunnel.cancelled
          /\ Forward(c, "refused")
          /\ accept' = [accept EXCEPT ![l] = "waiting"]
    /\ ForwardOnly

\* handleSOCKS: a request, a bad one, or none within socksHandshakeTimeout.
Socks(c) ==
    /\ forward[c].pc = "handshake"
    /\ Forward(c, "dialing") \/ Forward(c, "ended")
    /\ ForwardOnly /\ UNCHANGED accept

\* client.Dial: only an answer or the end of the client ends it.
TargetAnswers(c) ==
    /\ forward[c].pc = "dialing" /\ Up
    /\ Forward(c, "copying") \/ Forward(c, "ended")
    /\ ForwardOnly /\ UNCHANGED accept

DialBroken(c) ==
    /\ forward[c].pc = "dialing" /\ ~Up
    /\ Forward(c, "ended")
    /\ ForwardOnly /\ UNCHANGED accept

\* Mutant: the end of one direction closes both connections.
PeerFinishesBoth(c, end) ==
    /\ forward[c].pc = "copying" /\ end \notin forward[c].ended
    /\ forward' = [forward EXCEPT ![c].ended = @ \cup {end}, ![c].pc = "ended",
                                  ![c].cut = forward[c].ended = {}]
    /\ ForwardOnly /\ UNCHANGED accept

\* One end sent everything: copyBoth half-closes the other side only.
PeerFinishes(c, end) ==
    /\ forward[c].pc = "copying" /\ end \notin forward[c].ended
    /\ forward' = [forward EXCEPT ![c].ended = @ \cup {end}]
    /\ ForwardOnly /\ UNCHANGED accept

\* copyBoth: both directions are over or the context is cancelled; both
\* connections are closed, both relays end, the slot is given back.
CopyEnds(c) ==
    /\ forward[c].pc = "copying"
    /\ forward[c].ended = {"client", "target"} \/ tunnel.cancelled
    /\ forward' = [forward EXCEPT ![c].pc = "ended", ![c].cut = forward[c].ended # {"client", "target"}]
    /\ ForwardOnly /\ UNCHANGED accept

AcceptStep(l) == AcceptEnds(l) \/ \E c \in Conn : Accept(l, c) \/ Dispatch(l, c)
HandlerStep(c) == Socks(c) \/ DialBroken(c) \/ CopyEnds(c)

\* The peer's transport ends while the tunnel runs.
TransportEnds ==
    /\ TunnelAt("serve") /\ Up
    /\ CloseTarget /\ TunnelConn
    /\ UNCHANGED tunnelVars

TunnelNext ==
    \/ TunnelStep \/ Serve \/ TransportEnds
    \/ \E l \in Specs : AcceptStep(l) \/ \E c \in Conn : ClientConnects(c, l)
    \/ \E c \in Conn : HandlerStep(c) \/ TargetAnswers(c) \/ \E end \in {"client", "target"} : PeerFinishes(c, end)
=============================================================================
