------------------------------ MODULE ConnPool ------------------------------
(***************************************************************************)
(* The process-wide SSH connection pool: goroutines that acquire a session *)
(* (acquireSSHSession), a client (dialSSH, then newSessionRetry) or a      *)
(* private connection (noReuse), against ClosePool, dying transports and   *)
(* full session limits.                                                    *)
(*                                                                         *)
(* poolLifecycle is an RWMutex (a waiting writer stops new readers).       *)
(* poolMu is never held across a blocking step and is part of the steps.   *)
(* ClosePool swaps in an empty map, so the entry a lookup finds is named   *)
(* by its key and the number of swaps before it was created; a missing     *)
(* entry is one that has no client.                                        *)
(***************************************************************************)
EXTENDS Naturals, FiniteSets

CONSTANTS Users,       \* goroutines that use connections
          Keys,        \* pool keys (destination, credentials, jump path)
          NoUser,      \* nobody
          Kinds,       \* subset of {"session", "client", "fresh"}
          MaxSessions, \* sshd's session limit, per destination
          MaxDials,    \* bound: connections ever dialled
          MaxCloses,   \* bound: ClosePool calls
          MaxWaits     \* slot waits that fit in DialTimeout

ASSUME UsersAssumption == NoUser \notin Users
ASSUME KindsAssumption == Kinds \subseteq {"session", "client", "fresh"}
ASSUME LimitsAssumption == /\ MaxSessions \in [Keys -> Nat]
                           /\ MaxDials \in Nat /\ MaxCloses \in Nat /\ MaxWaits \in Nat

VARIABLES
  readers,   \* goroutines that hold poolLifecycle for reading
  closer,    \* ClosePool: "idle", "waiting" for the write lock, "closing"
  toClose,   \* keys of the detached entries ClosePool has still to visit
  epoch,     \* maps ClosePool has replaced
  client,    \* pooledClient.client per entry, 0 for nil
  owner,     \* pooledClient.mu per entry
  pc, kind, key, at, conn, waits,  \* goroutines; at is the map they looked in
  dials,     \* connections dialled so far
  open,      \* connections this process has not closed
  alive,     \* connections whose peer still answers
  sessions   \* open sessions per connection: the goroutines that use them

pool == <<readers, closer, toClose, epoch, client, owner>>
goroutines == <<pc, kind, key, at, conn, waits>>
transport == <<dials, open, alive, sessions>>
vars == <<pool, goroutines, transport>>

Conns == 1..MaxDials
Entries == Keys \X (0..MaxCloses)
Labels == {"idle", "rlock", "lookup", "held", "dial", "opening", "ask", "wait_slot", "using"}

PoolOK ==
  /\ readers \subseteq Users
  /\ closer \in {"idle", "waiting", "closing"} /\ toClose \subseteq Keys
  /\ epoch \in 0..MaxCloses
  /\ client \in [Entries -> 0..MaxDials] /\ owner \in [Entries -> Users \cup {NoUser}]
GoroutinesOK ==
  /\ pc \in [Users -> Labels] /\ kind \in [Users -> {"session", "client", "fresh"}]
  /\ key \in [Users -> Keys] /\ at \in [Users -> 0..MaxCloses]
  /\ conn \in [Users -> 0..MaxDials] /\ waits \in [Users -> 0..MaxWaits]
TransportOK ==
  /\ dials \in 0..MaxDials /\ open \subseteq Conns /\ alive \subseteq Conns
  /\ sessions \in [Conns -> SUBSET Users]

\* The shape of the pool, of the goroutines and of the connections.
TypeOK == PoolOK /\ GoroutinesOK /\ TransportOK

Init ==
  /\ readers = {} /\ closer = "idle" /\ toClose = {} /\ epoch = 0
  /\ client = [e \in Entries |-> 0] /\ owner = [e \in Entries |-> NoUser]
  /\ pc = [u \in Users |-> "idle"] /\ kind \in [Users -> Kinds] /\ key \in [Users -> Keys]
  /\ at = [u \in Users |-> 0] /\ conn = [u \in Users |-> 0] /\ waits = [u \in Users |-> 0]
  /\ dials = 0 /\ open = {} /\ alive = {} /\ sessions = [c \in Conns |-> {}]

Entry(u) == <<key[u], at[u]>>
Goto(u, label) == pc' = [pc EXCEPT ![u] = label]
Unlock(u) == owner' = [owner EXCEPT ![Entry(u)] = NoUser]

\* Bound: an acquisition starts only while every running one may still dial.
Running == {u \in Users : pc[u] # "idle"}
MayDial == dials + Cardinality(Running) < MaxDials

-----------------------------------------------------------------------------
(* Goroutines.                                                              *)

\* A goroutine asks for a destination in the way its command does.
Acquire(u) ==
  /\ pc[u] = "idle" /\ MayDial
  /\ \E k \in Keys, how \in Kinds :
       /\ key' = [key EXCEPT ![u] = k] /\ kind' = [kind EXCEPT ![u] = how]
       /\ Goto(u, IF how = "fresh" THEN "dial" ELSE "rlock")
  /\ waits' = [waits EXCEPT ![u] = 0]
  /\ UNCHANGED <<pool, at, conn, transport>>

\* Mutant: the lifecycle lock is released before the entry is locked.
ReleasedAfterLookup(u) == readers

\* The read lock is still held when the entry has been found.
HeldAfterLookup(u) == readers \cup {u}

\* Mutant: a waiting writer does not stop new readers.
NoWriter == closer # "closing"

\* RWMutex: neither held for writing nor requested.
ReadAllowed == closer = "idle"

\* lockPoolEntry: poolLifecycle.RLock and the lookup under poolMu.
RLock(u) ==
  /\ pc[u] = "rlock" /\ ReadAllowed
  /\ readers' = HeldAfterLookup(u)
  /\ at' = [at EXCEPT ![u] = epoch]
  /\ Goto(u, "lookup")
  /\ UNCHANGED <<closer, toClose, epoch, client, owner, kind, key, conn, waits, transport>>

\* lockPoolEntry: entry.mu.Lock, then RUnlock.
LockEntry(u) ==
  /\ pc[u] = "lookup" /\ owner[Entry(u)] = NoUser
  /\ owner' = [owner EXCEPT ![Entry(u)] = u]
  /\ readers' = readers \ {u}
  /\ Goto(u, "held")
  /\ UNCHANGED <<closer, toClose, epoch, client, kind, key, at, conn, waits, transport>>

\* A client is closed locally; its sessions end.
CloseConn(c) ==
  /\ open' = open \ {c}
  /\ sessions' = [sessions EXCEPT ![c] = {}]

\* IsSessionLimit: the destination of u refuses one more session on c.  A server that
\* answers refuses for no other reason.
Full(u, c) == Cardinality(sessions[c]) >= MaxSessions[key[u]]
Usable(c) == c \in open /\ c \in alive

\* Mutant: a refused session closes the connection.
BrokenOrBusy(c) == c \notin open \/ sessions[c] # {}

\* NewSession fails with a transport error.  On a connection whose peer is silent it
\* blocks until the keepalive closes the connection.
Broken(c) == c \notin open

OpenSession(u, c) ==
  /\ sessions' = [sessions EXCEPT ![c] = @ \cup {u}]
  /\ conn' = [conn EXCEPT ![u] = c]
  /\ Goto(u, "using")

\* Mutant: the entry stays locked while its goroutine waits for a slot.
KeepsEntry(u) == u

\* "It is never held while waiting for a free session slot."
EntryWhileWaiting(u) == NoUser

Refused(u) ==
  /\ Goto(u, "wait_slot")
  /\ owner' = [owner EXCEPT ![Entry(u)] = EntryWhileWaiting(u)]

\* tryPooledSession on a pooled connection.
TryPooled(u) ==
  LET c == client[Entry(u)]
  IN /\ pc[u] = "held" /\ kind[u] = "session" /\ c # 0
     /\ \/ /\ Usable(c) /\ ~ Full(u, c)
           /\ OpenSession(u, c) /\ Unlock(u)
           /\ UNCHANGED <<client, open>>
        \/ /\ Usable(c) /\ Full(u, c)
           /\ Refused(u)
           /\ UNCHANGED <<client, conn, open, sessions>>
        \/ /\ Broken(c)
           /\ CloseConn(c)
           /\ client' = [client EXCEPT ![Entry(u)] = 0]
           /\ Goto(u, "dial")
           /\ UNCHANGED <<owner, conn>>
     /\ UNCHANGED <<readers, closer, toClose, epoch, kind, key, at, waits, dials, alive>>

\* getPooledClient: the liveness probe.  An answer proves life; silence for the bound
\* is taken for death, also when the peer is only slow.
Probe(u) ==
  LET c == client[Entry(u)]
  IN /\ pc[u] = "held" /\ kind[u] = "client" /\ c # 0
     /\ \/ /\ Usable(c)
           /\ conn' = [conn EXCEPT ![u] = c]
           /\ Goto(u, "ask") /\ Unlock(u)
           /\ UNCHANGED <<client, open, sessions>>
        \/ /\ CloseConn(c)
           /\ client' = [client EXCEPT ![Entry(u)] = 0]
           /\ Goto(u, "dial")
           /\ UNCHANGED <<owner, conn>>
     /\ UNCHANGED <<readers, closer, toClose, epoch, kind, key, at, waits, dials, alive>>

NothingPooled(u) ==
  /\ pc[u] = "held" /\ client[Entry(u)] = 0
  /\ Goto(u, "dial")
  /\ UNCHANGED <<pool, kind, key, at, conn, waits, transport>>

\* dialSSHFresh succeeds, under the entry lock unless the connection is private.
Dialled(u) ==
  /\ pc[u] = "dial"
  /\ dials < MaxDials /\ dials' = dials + 1
  /\ open' = open \cup {dials'} /\ alive' = alive \cup {dials'}
  /\ conn' = [conn EXCEPT ![u] = dials']
  /\ IF kind[u] = "fresh"
     THEN Goto(u, "opening") /\ UNCHANGED <<client, owner>>
     ELSE /\ client' = [client EXCEPT ![Entry(u)] = dials']
          /\ IF kind[u] = "client" THEN Goto(u, "ask") /\ Unlock(u)
             ELSE Goto(u, "opening") /\ UNCHANGED owner
  /\ UNCHANGED <<readers, closer, toClose, epoch, kind, key, at, waits, sessions>>

DialFails(u) ==
  /\ pc[u] = "dial"
  /\ Goto(u, "idle")
  /\ IF kind[u] = "fresh" THEN UNCHANGED owner ELSE Unlock(u)
  /\ UNCHANGED <<readers, closer, toClose, epoch, client, kind, key, at, conn, waits, transport>>

\* The first session of a connection this goroutine dialled.
FirstSession(u) ==
  LET c == conn[u]
  IN /\ pc[u] = "opening"
     /\ \/ /\ Usable(c) /\ ~ Full(u, c)
           /\ OpenSession(u, c)
           /\ IF kind[u] = "fresh" THEN UNCHANGED owner ELSE Unlock(u)
           /\ UNCHANGED <<client, open>>
        \/ /\ Usable(c) /\ Full(u, c) /\ kind[u] = "session"
           /\ Refused(u)
           /\ UNCHANGED <<client, conn, open, sessions>>
        \/ /\ Broken(c) \/ (Usable(c) /\ Full(u, c) /\ kind[u] = "fresh")
           /\ CloseConn(c)
           /\ IF kind[u] = "fresh" THEN UNCHANGED <<client, owner>>
              ELSE client' = [client EXCEPT ![Entry(u)] = 0] /\ Unlock(u)
           /\ Goto(u, "idle") /\ conn' = [conn EXCEPT ![u] = 0]
     /\ UNCHANGED <<readers, closer, toClose, epoch, kind, key, at, waits, dials, alive>>

\* newSessionRetry on a client obtained earlier; no pool lock is held.
AskSession(u) ==
  LET c == conn[u]
  IN /\ pc[u] = "ask"
     /\ \/ Usable(c) /\ ~ Full(u, c) /\ OpenSession(u, c)
        \/ Usable(c) /\ Full(u, c) /\ Goto(u, "wait_slot") /\ UNCHANGED <<conn, sessions>>
        \/ /\ Broken(c)
           /\ Goto(u, "idle") /\ conn' = [conn EXCEPT ![u] = 0] /\ UNCHANGED sessions
     /\ UNCHANGED <<pool, kind, key, at, waits, dials, open, alive>>

\* Mutant: a wait that starts when no time is left.
WaitAllowed(u) == waits[u] <= MaxWaits

\* Time is left until the deadline.
DelayFits(u) == waits[u] < MaxWaits

\* waitSessionSlot: try again, or give up once DialTimeout has passed.
WaitSlot(u) ==
  /\ pc[u] = "wait_slot"
  /\ \/ /\ DelayFits(u)
        /\ waits' = [waits EXCEPT ![u] = @ + 1]
        /\ Goto(u, IF kind[u] = "client" THEN "ask" ELSE "rlock")
        /\ UNCHANGED conn
     \/ Goto(u, "idle") /\ conn' = [conn EXCEPT ![u] = 0] /\ UNCHANGED waits
  /\ UNCHANGED <<pool, kind, key, at, transport>>

\* Mutant: a private connection is treated as pooled.
ReleaseNothing(u) == FALSE

\* releaseClient closes only a connection that is not pooled.
Releases(u) == kind[u] = "fresh"

\* The command ends, by itself or because its connection was closed.
Finish(u) ==
  /\ pc[u] = "using"
  /\ IF Releases(u) THEN CloseConn(conn[u])
     ELSE sessions' = [sessions EXCEPT ![conn[u]] = @ \ {u}] /\ UNCHANGED open
  /\ conn' = [conn EXCEPT ![u] = 0]
  /\ Goto(u, "idle")
  /\ UNCHANGED <<pool, kind, key, at, waits, dials, alive>>

-----------------------------------------------------------------------------
(* ClosePool and the transport.                                             *)

\* poolLifecycle.Lock is requested: new readers wait from now on.
CloseRequested ==
  /\ closer = "idle" /\ epoch < MaxCloses
  /\ closer' = "waiting"
  /\ UNCHANGED <<readers, toClose, epoch, client, owner, goroutines, transport>>

\* The write lock is held and the map replaced.
CloseStarts ==
  /\ closer = "waiting" /\ readers = {}
  /\ closer' = "closing" /\ epoch' = epoch + 1 /\ toClose' = Keys
  /\ UNCHANGED <<readers, client, owner, goroutines, transport>>

\* Each detached entry is locked, its client closed and dropped.
CloseEntry(k) ==
  LET e == <<k, epoch - 1>>
  IN /\ closer = "closing" /\ k \in toClose /\ owner[e] = NoUser
     /\ toClose' = toClose \ {k}
     /\ IF client[e] = 0 THEN UNCHANGED <<client, open, sessions>>
        ELSE CloseConn(client[e]) /\ client' = [client EXCEPT ![e] = 0]
     /\ UNCHANGED <<readers, closer, epoch, owner, goroutines, dials, alive>>

CloseReturns ==
  /\ closer = "closing" /\ toClose = {}
  /\ closer' = "idle"
  /\ UNCHANGED <<readers, toClose, epoch, client, owner, goroutines, transport>>

\* A peer stops answering, for good.
PeerDies(c) ==
  /\ c \in alive
  /\ alive' = alive \ {c}
  /\ UNCHANGED <<pool, goroutines, dials, open, sessions>>

\* runKeepalive: a silent peer's connection is closed, whoever holds it.
Keepalive(c) ==
  /\ c \in open \ alive
  /\ CloseConn(c)
  /\ UNCHANGED <<pool, goroutines, dials, alive>>

Step(u) ==
  \/ RLock(u) \/ LockEntry(u) \/ TryPooled(u) \/ Probe(u) \/ NothingPooled(u) \/ Dialled(u)
  \/ DialFails(u) \/ FirstSession(u) \/ AskSession(u) \/ WaitSlot(u) \/ Finish(u)
ClosePool == CloseRequested \/ CloseStarts \/ (\E k \in Keys : CloseEntry(k)) \/ CloseReturns
Next ==
  \/ \E u \in Users : Acquire(u) \/ Step(u)
  \/ ClosePool
  \/ \E c \in Conns : PeerDies(c) \/ Keepalive(c)

\* A goroutine that can run does; ClosePool, once called, goes on.  sync.Mutex hands
\* the lock to a goroutine that has waited for it (its starvation mode), hence
\* strong fairness of entry.mu.Lock.  The keepalive runs on every connection.
Fairness ==
  /\ \A u \in Users : WF_vars(Step(u)) /\ SF_vars(LockEntry(u))
  /\ WF_vars(CloseStarts) /\ WF_vars(CloseReturns)
  /\ \A k \in Keys : WF_vars(CloseEntry(k))
  /\ \A c \in Conns : WF_vars(Keepalive(c))

Spec == Init /\ [][Next]_vars
FairSpec == Spec /\ Fairness

-----------------------------------------------------------------------------
(* Properties.                                                              *)

\* Whole-pool revocation is complete: once ClosePool has returned, no entry of a replaced
\* map has a client or is locked, so an acquisition that raced it cannot keep or
\* refill a detached entry (lockPoolEntry, ClosePool).
RevocationComplete ==
  closer = "idle" =>
    \A e \in Entries : e[2] < epoch => client[e] = 0 /\ owner[e] = NoUser

InMap(c) == \E k \in Keys : client[<<k, epoch>>] = c
AwaitsClose(c) == closer = "closing" /\ \E k \in toClose : client[<<k, epoch - 1>>] = c
PrivateTo(u, c) == kind[u] = "fresh" /\ pc[u] \in {"opening", "using"} /\ conn[u] = c

\* No connection leaks: an open connection is in the current map, in a detached entry
\* ClosePool is about to visit, or private to the goroutine that will close it
\* (tryPooledSession, releaseClient).
NoLeakedConnection ==
  \A c \in open : InMap(c) \/ AwaitsClose(c) \/ \E u \in Users : PrivateTo(u, c)

\* A command that finds its destination at the session limit never ends the sessions
\* running there: a connection that answers and is in use is closed only by
\* ClosePool, by the goroutine it is private to, or after a liveness probe
\* (tryPooledSession, acquireSSHSessionContext).
RunningSessionsKept ==
  [][\A c \in open : Usable(c) /\ sessions[c] # {} /\ c \notin open' =>
        \/ closer = "closing"
        \/ \E u \in Users : kind[u] = "client" /\ pc[u] = "held" /\ pc'[u] = "dial"
        \/ \E u \in Users : kind[u] = "fresh" /\ conn[u] = c]_vars

\* Every acquisition ends, whoever waits for whose lock: the entry lock is never kept
\* across the wait for a session slot (acquireSSHSessionContext, waitSessionSlot).
AcquisitionsEnd == \A u \in Users : pc[u] \notin {"idle", "using"} ~> pc[u] \in {"idle", "using"}

\* ClosePool returns: nobody who holds an entry lock needs the lifecycle lock that
\* ClosePool holds, and new readers cannot starve it (ClosePool, lockPoolEntry).
ClosePoolReturns == closer # "idle" ~> closer = "idle"

\* Nobody waits for ever: every acquisition ends and every ClosePool returns,
\* while both contend for the lifecycle and entry locks and peers go silent.
PoolProgress == AcquisitionsEnd /\ ClosePoolReturns
=============================================================================
