--------------------------- MODULE ConnPoolProofs ---------------------------
(***************************************************************************)
(* The pool's locking protocol is proved for any number of goroutines,     *)
(* destinations and ClosePool calls.  Neither property is inductive: that  *)
(* nobody refills a detached entry follows from who holds which lock, so   *)
(* the invariant is the locking discipline together with the two           *)
(* properties.                                                             *)
(***************************************************************************)
EXTENDS ConnPool, TLAPS

Holding(u) == pc[u] \in {"held", "dial", "opening"} /\ kind[u] # "fresh"

\* An entry is locked exactly by the goroutine that works on it.
OwnerHolds == \A u \in Users, e \in Entries : owner[e] = u => Holding(u) /\ e = Entry(u)
HolderOwns == \A u \in Users : Holding(u) => owner[Entry(u)] = u

\* Between lookup and lock the map cannot be replaced.
ReadersCurrent ==
  \A u \in Users : /\ pc[u] = "lookup" => u \in readers
                   /\ u \in readers => pc[u] = "lookup" /\ at[u] = epoch /\ closer # "closing"

\* Entries of replaced maps that ClosePool has visited stay empty.
Visited(e) == e[2] < epoch /\ ~ (closer = "closing" /\ e[2] = epoch - 1 /\ e[1] \in toClose)
VisitedEmpty == \A e \in Entries : Visited(e) => client[e] = 0 /\ owner[e] = NoUser

\* A private connection never takes the pooled path.
FreshApart ==
  \A u \in Users : kind[u] = "fresh" => pc[u] \in {"idle", "dial", "opening", "using"}

\* What a goroutine that dials knows about its entry.
DialsEmpty == \A u \in Users : pc[u] = "dial" /\ kind[u] # "fresh" => client[Entry(u)] = 0
OpeningPooled == \A u \in Users : pc[u] = "opening" /\ kind[u] # "fresh" => client[Entry(u)] = conn[u]

\* The maps that were looked in, and what ClosePool's progress says of their number.
LookedUp == \A u \in Users : at[u] <= epoch
CloserEpoch == (closer = "closing" => epoch > 0) /\ (closer = "waiting" => epoch < MaxCloses)

IInv == /\ TypeOK /\ OwnerHolds /\ HolderOwns /\ ReadersCurrent /\ VisitedEmpty /\ FreshApart
        /\ DialsEmpty /\ OpeningPooled /\ LookedUp /\ CloserEpoch /\ NoLeakedConnection

-----------------------------------------------------------------------------


\* A goroutine's entry is one of the entries.
LEMMA EntryType == ASSUME TypeOK, NEW u \in Users PROVE Entry(u) \in Entries
  BY DEF TypeOK, PoolOK, GoroutinesOK, Entry, Entries

\* While nobody changes an entry, no connection is leaked that was reachable before.
LEMMA EntriesKept ==
  ASSUME NoLeakedConnection, UNCHANGED <<client, epoch, closer, toClose>>, open' \subseteq open,
         \A v \in Users, c \in open' : PrivateTo(v, c) => PrivateTo(v, c)'
  PROVE  NoLeakedConnection'
  BY DEF NoLeakedConnection, InMap, AwaitsClose

\* Closing a client and dropping it from its entry leaks no other connection.
LEMMA EntryDropped ==
  ASSUME NoLeakedConnection, NEW e \in Entries, client \in [Entries -> 0..MaxDials],
         client' = [client EXCEPT ![e] = 0], open' = open \ {client[e]},
         UNCHANGED <<epoch, closer, toClose>>, epoch \in 0..MaxCloses, toClose \subseteq Keys,
         closer = "closing" => epoch > 0,
         \A v \in Users, c \in open' : PrivateTo(v, c) => PrivateTo(v, c)'
  PROVE  NoLeakedConnection'
  <1> SUFFICES ASSUME NEW c \in open'
               PROVE  InMap(c)' \/ AwaitsClose(c)' \/ \E u \in Users : PrivateTo(u, c)'
    BY DEF NoLeakedConnection
  <1>1. c \in open /\ c # client[e] OBVIOUS
  <1>2. ASSUME NEW x \in Entries, client[x] = c PROVE client'[x] = c
    BY <1>1, <1>2
  <1>3. CASE InMap(c)
    <2>1. PICK k \in Keys : client[<<k, epoch>>] = c BY <1>3 DEF InMap
    <2>2. <<k, epoch>> \in Entries BY DEF Entries
    <2> QED BY <2>1, <2>2, <1>2 DEF InMap
  <1>4. CASE AwaitsClose(c)
    <2>1. PICK k \in toClose : client[<<k, epoch - 1>>] = c BY <1>4 DEF AwaitsClose
    <2>2. <<k, epoch - 1>> \in Entries BY <1>4, LimitsAssumption DEF Entries, AwaitsClose
    <2> QED BY <2>1, <2>2, <1>2, <1>4 DEF AwaitsClose
  <1> QED BY <1>1, <1>3, <1>4 DEF NoLeakedConnection

\* Two goroutines never work on the same entry.
LEMMA HoldersApart ==
  ASSUME HolderOwns, NEW u \in Users, NEW v \in Users, u # v, Holding(u), Holding(v)
  PROVE  Entry(u) # Entry(v)
  BY DEF HolderOwns

\* A goroutine that works on an entry may change it: ClosePool has not visited it.
LEMMA HeldNotVisited ==
  ASSUME TypeOK, HolderOwns, VisitedEmpty, NEW u \in Users, Holding(u)
  PROVE  ~ Visited(Entry(u))
  BY EntryType, UsersAssumption DEF HolderOwns, VisitedEmpty

\* Unlocking an entry when its goroutine stops working on it keeps the discipline.
LEMMA UnlockKeeps ==
  ASSUME TypeOK, OwnerHolds, HolderOwns, NEW u \in Users, Holding(u),
         owner' = [owner EXCEPT ![Entry(u)] = NoUser],
         UNCHANGED <<key, at, kind>>, NEW l \in Labels \ {"held", "dial", "opening"},
         pc' = [pc EXCEPT ![u] = l]
  PROVE  OwnerHolds' /\ HolderOwns'
  <1>1. \A v \in Users : Entry(v)' = Entry(v) BY DEF Entry
  <1>2. \A v \in Users : v # u => (Holding(v)' <=> Holding(v))
    BY DEF Holding, TypeOK, GoroutinesOK
  <1>3. ~ Holding(u)' BY DEF Holding, TypeOK, GoroutinesOK
  <1>4. \A v \in Users : Entry(v) \in Entries BY EntryType
  <1>5. OwnerHolds'
    BY <1>1, <1>2, <1>4, UsersAssumption, Zenon DEF OwnerHolds, HolderOwns, TypeOK, PoolOK
  <1>6. HolderOwns'
    BY <1>1, <1>2, <1>3, <1>4, HoldersApart DEF HolderOwns, TypeOK, PoolOK
  <1> QED BY <1>5, <1>6

\* A goroutine that goes on working on its entry keeps the discipline.
LEMMA WorkKeeps ==
  ASSUME TypeOK, OwnerHolds, HolderOwns, NEW u \in Users, Holding(u), UNCHANGED <<owner, key, at, kind>>,
         NEW l \in {"held", "dial", "opening"}, pc' = [pc EXCEPT ![u] = l]
  PROVE  OwnerHolds' /\ HolderOwns'
  <1>1. \A v \in Users : Entry(v)' = Entry(v) BY DEF Entry
  <1>2. \A v \in Users : Holding(v)' <=> Holding(v)
    BY DEF Holding, TypeOK, GoroutinesOK
  <1> QED BY <1>1, <1>2 DEF OwnerHolds, HolderOwns

\* Work on one entry leaves what the others know about theirs.
LEMMA OthersUndisturbed ==
  ASSUME TypeOK, HolderOwns, DialsEmpty, OpeningPooled, VisitedEmpty,
         NEW u \in Users, Holding(u), UNCHANGED <<key, at, kind, epoch, closer, toClose>>,
         \A e \in Entries : e # Entry(u) => client'[e] = client[e] /\ owner'[e] = owner[e],
         \A v \in Users : v # u => pc'[v] = pc[v] /\ conn'[v] = conn[v],
         pc'[u] = "dial" => client'[Entry(u)] = 0,
         pc'[u] = "opening" => client'[Entry(u)] = conn'[u]
  PROVE  DialsEmpty' /\ OpeningPooled' /\ VisitedEmpty'
  <1>1. \A v \in Users : Entry(v)' = Entry(v) /\ Entry(v) \in Entries BY EntryType DEF Entry
  <1>2. \A e : Visited(e)' <=> Visited(e) BY DEF Visited
  <1>3. \A v \in Users : v # u /\ Holding(v) => Entry(v) # Entry(u) BY HoldersApart
  <1>4. DialsEmpty' BY <1>1, <1>3 DEF DialsEmpty, Holding
  <1>5. OpeningPooled' BY <1>1, <1>3 DEF OpeningPooled, Holding
  <1>6. VisitedEmpty' BY <1>1, <1>2, HeldNotVisited DEF VisitedEmpty
  <1> QED BY <1>4, <1>5, <1>6

\* A step of one goroutine outside the pool's locks keeps every part about locks.
LEMMA OutsideLocks ==
  ASSUME IInv, NEW u \in Users, ~ Holding(u), ~ Holding(u)', u \notin readers, pc'[u] # "lookup",
         UNCHANGED pool,
         \A v \in Users : v # u => /\ pc'[v] = pc[v] /\ kind'[v] = kind[v] /\ key'[v] = key[v]
                                  /\ at'[v] = at[v] /\ conn'[v] = conn[v]
  PROVE  /\ OwnerHolds' /\ HolderOwns' /\ ReadersCurrent' /\ VisitedEmpty'
         /\ DialsEmpty' /\ OpeningPooled' /\ CloserEpoch'
  <1> USE DEF pool
  <1>1. \A v \in Users : v # u => Entry(v)' = Entry(v) /\ (Holding(v)' <=> Holding(v))
    BY DEF Entry, Holding
  <1>2. OwnerHolds' /\ HolderOwns' BY <1>1 DEF IInv, OwnerHolds, HolderOwns
  <1>3. ReadersCurrent' BY DEF IInv, ReadersCurrent
  <1>4. VisitedEmpty' /\ CloserEpoch' BY DEF IInv, VisitedEmpty, Visited, CloserEpoch
  <1>5. DialsEmpty' /\ OpeningPooled' BY <1>1 DEF IInv, DialsEmpty, OpeningPooled, Holding
  <1> QED BY <1>2, <1>3, <1>4, <1>5

-----------------------------------------------------------------------------
(* One lemma per action.                                                    *)

\* Starting an acquisition.
LEMMA AcquireStep == ASSUME IInv, NEW u \in Users, Acquire(u) PROVE IInv'
  <1> USE DEF IInv, Acquire, transport, Goto
  <1>1. TypeOK'
    <2>1. PoolOK' /\ TransportOK' BY DEF pool, TypeOK, PoolOK, TransportOK
    <2>2. GoroutinesOK' BY LimitsAssumption, KindsAssumption DEF TypeOK, GoroutinesOK, Labels
    <2> QED BY <2>1, <2>2 DEF TypeOK
  <1>2. ~ Holding(u) /\ ~ Holding(u)' /\ u \notin readers /\ pc'[u] # "lookup"
    BY KindsAssumption DEF Holding, TypeOK, GoroutinesOK, ReadersCurrent
  <1>3. \A v \in Users : v # u => /\ pc'[v] = pc[v] /\ kind'[v] = kind[v] /\ key'[v] = key[v]
                                 /\ at'[v] = at[v] /\ conn'[v] = conn[v]
    BY DEF TypeOK, GoroutinesOK
  <1>4. /\ OwnerHolds' /\ HolderOwns' /\ ReadersCurrent' /\ VisitedEmpty'
        /\ DialsEmpty' /\ OpeningPooled' /\ CloserEpoch'
    BY <1>2, <1>3, OutsideLocks
  <1>5. FreshApart' BY <1>3 DEF FreshApart, TypeOK, GoroutinesOK
  <1>6. \A v \in Users, c \in open' : PrivateTo(v, c) => PrivateTo(v, c)'
    BY <1>3 DEF PrivateTo
  <1>7. NoLeakedConnection' BY <1>6, EntriesKept DEF pool
  <1>8. LookedUp' BY DEF LookedUp, pool
  <1> QED BY <1>1, <1>4, <1>5, <1>7, <1>8

\* The lookup happens under the lifecycle read lock, so in the current map.
LEMMA RLockStep == ASSUME IInv, NEW u \in Users, RLock(u) PROVE IInv'
  <1> USE DEF IInv, RLock, transport, Goto
  <1>1. TypeOK'
    <2>1. PoolOK' /\ TransportOK' BY DEF TypeOK, PoolOK, TransportOK, HeldAfterLookup
    <2>2. GoroutinesOK' BY DEF TypeOK, PoolOK, GoroutinesOK, Labels
    <2> QED BY <2>1, <2>2 DEF TypeOK
  <1>2. ~ Holding(u) /\ ~ Holding(u)' BY DEF Holding, TypeOK, GoroutinesOK
  <1>3. \A v \in Users : v # u => Entry(v)' = Entry(v) /\ (Holding(v)' <=> Holding(v))
    BY DEF Entry, Holding, TypeOK, GoroutinesOK
  <1>4. OwnerHolds' /\ HolderOwns' BY <1>2, <1>3 DEF OwnerHolds, HolderOwns
  <1>5. ReadersCurrent'
    BY DEF ReadersCurrent, HeldAfterLookup, ReadAllowed, TypeOK, GoroutinesOK
  <1>6. VisitedEmpty' /\ CloserEpoch' BY DEF VisitedEmpty, Visited, CloserEpoch
  <1>7. FreshApart' BY DEF FreshApart, TypeOK, GoroutinesOK
  <1>8. DialsEmpty' /\ OpeningPooled'
    BY <1>3 DEF DialsEmpty, OpeningPooled, TypeOK, GoroutinesOK
  <1>9. \A v \in Users, c \in open' : PrivateTo(v, c) => PrivateTo(v, c)'
    BY DEF PrivateTo, TypeOK, GoroutinesOK
  <1>10. NoLeakedConnection' BY <1>9, EntriesKept
  <1>11. LookedUp' BY DEF LookedUp, TypeOK, PoolOK, GoroutinesOK
  <1> QED BY <1>1, <1>4, <1>5, <1>6, <1>7, <1>8, <1>10, <1>11

\* The entry that is locked belongs to the current map: the read lock is still held.
LEMMA LockEntryStep == ASSUME IInv, NEW u \in Users, LockEntry(u) PROVE IInv'
  <1> USE DEF IInv, LockEntry, transport, Goto
  <1>e. Entry(u) \in Entries BY EntryType
  <1>1. TypeOK'
    <2>1. PoolOK' /\ TransportOK' BY <1>e DEF TypeOK, PoolOK, TransportOK
    <2>2. GoroutinesOK' BY DEF TypeOK, GoroutinesOK, Labels
    <2> QED BY <2>1, <2>2 DEF TypeOK
  <1>2. kind[u] # "fresh" BY DEF FreshApart
  <1>3. \A v \in Users : Entry(v)' = Entry(v) /\ (v # u => (Holding(v)' <=> Holding(v)))
    BY DEF Entry, Holding, TypeOK, GoroutinesOK
  <1>4. Holding(u)' BY <1>2 DEF Holding, TypeOK, GoroutinesOK
  <1>5. OwnerHolds' BY <1>3, <1>4, UsersAssumption DEF OwnerHolds, TypeOK, PoolOK
  <1>6. HolderOwns' BY <1>e, <1>3, <1>4, UsersAssumption DEF HolderOwns, TypeOK, PoolOK
  <1>7. ReadersCurrent' BY DEF ReadersCurrent, TypeOK, GoroutinesOK
  <1>8. ~ Visited(Entry(u)) BY DEF ReadersCurrent, Visited, Entry, TypeOK, PoolOK
  <1>9. VisitedEmpty' /\ CloserEpoch'
    BY <1>8 DEF VisitedEmpty, Visited, CloserEpoch, TypeOK, PoolOK
  <1>10. FreshApart' BY <1>2 DEF FreshApart, TypeOK, GoroutinesOK
  <1>11. DialsEmpty' /\ OpeningPooled'
    BY <1>3 DEF DialsEmpty, OpeningPooled, TypeOK, GoroutinesOK
  <1>12. \A v \in Users, c \in open' : PrivateTo(v, c) => PrivateTo(v, c)'
    BY DEF PrivateTo, TypeOK, GoroutinesOK
  <1>13. NoLeakedConnection' BY <1>12, EntriesKept
  <1>14. LookedUp' BY DEF LookedUp
  <1> QED BY <1>1, <1>5, <1>6, <1>7, <1>9, <1>10, <1>11, <1>13, <1>14

\* What a goroutine knows about its connection once an entry is no longer its own.
LEMMA SessionLeaves ==
  ASSUME IInv, NEW u \in Users, Holding(u), NEW l \in {"ask", "using", "wait_slot", "idle"},
         pc' = [pc EXCEPT ![u] = l], owner' = [owner EXCEPT ![Entry(u)] = NoUser],
         \A e \in Entries : e # Entry(u) => client'[e] = client[e],
         \A v \in Users : v # u => conn'[v] = conn[v],
         UNCHANGED <<readers, closer, toClose, epoch, kind, key, at>>
  PROVE  /\ OwnerHolds' /\ HolderOwns' /\ ReadersCurrent' /\ VisitedEmpty' /\ FreshApart'
         /\ DialsEmpty' /\ OpeningPooled' /\ LookedUp' /\ CloserEpoch'
         /\ \A v \in Users, c \in Conns : PrivateTo(v, c) => PrivateTo(v, c)'
  <1> USE DEF IInv
  <1>1. OwnerHolds' /\ HolderOwns' BY UnlockKeeps DEF Labels
  <1>2. pc'[u] = l /\ \A v \in Users : v # u => pc'[v] = pc[v] BY DEF TypeOK, GoroutinesOK
  <1>3. \A e \in Entries : e # Entry(u) => owner'[e] = owner[e] BY DEF TypeOK, PoolOK
  <1>4. DialsEmpty' /\ OpeningPooled' /\ VisitedEmpty' BY <1>2, <1>3, OthersUndisturbed
  <1>5. ReadersCurrent' BY <1>2 DEF ReadersCurrent, Holding
  <1>6. FreshApart' BY <1>2 DEF FreshApart, Holding
  <1>7. LookedUp' /\ CloserEpoch' BY DEF LookedUp, CloserEpoch
  <1>8. \A v \in Users, c \in Conns : PrivateTo(v, c) => PrivateTo(v, c)'
    BY <1>2 DEF PrivateTo, Holding
  <1> QED BY <1>1, <1>4, <1>5, <1>6, <1>7, <1>8

\* The same while the entry stays its own.
LEMMA WorkGoesOn ==
  ASSUME IInv, NEW u \in Users, Holding(u), NEW l \in {"dial", "opening"},
         pc' = [pc EXCEPT ![u] = l],
         \A e \in Entries : e # Entry(u) => client'[e] = client[e],
         \A v \in Users : v # u => conn'[v] = conn[v],
         l = "dial" => client'[Entry(u)] = 0,
         l = "opening" => client'[Entry(u)] = conn'[u],
         UNCHANGED <<readers, owner, closer, toClose, epoch, kind, key, at>>
  PROVE  /\ OwnerHolds' /\ HolderOwns' /\ ReadersCurrent' /\ VisitedEmpty' /\ FreshApart'
         /\ DialsEmpty' /\ OpeningPooled' /\ LookedUp' /\ CloserEpoch'
         /\ \A v \in Users, c \in Conns : PrivateTo(v, c) => PrivateTo(v, c)'
  <1> USE DEF IInv
  <1>1. OwnerHolds' /\ HolderOwns' BY WorkKeeps
  <1>2. pc'[u] = l /\ \A v \in Users : v # u => pc'[v] = pc[v] BY DEF TypeOK, GoroutinesOK
  <1>4. DialsEmpty' /\ OpeningPooled' /\ VisitedEmpty' BY <1>2, OthersUndisturbed
  <1>5. ReadersCurrent' BY <1>2 DEF ReadersCurrent, Holding
  <1>6. FreshApart' BY <1>2 DEF FreshApart, Holding
  <1>7. LookedUp' /\ CloserEpoch' BY DEF LookedUp, CloserEpoch
  <1>8. \A v \in Users, c \in Conns : PrivateTo(v, c) => PrivateTo(v, c)'
    BY <1>2 DEF PrivateTo, Holding
  <1> QED BY <1>1, <1>4, <1>5, <1>6, <1>7, <1>8

\* A pooled connection that failed is closed and dropped, and its goroutine dials.
LEMMA DropAndDial ==
  ASSUME IInv, NEW u \in Users, Holding(u), client[Entry(u)] \in Conns, CloseConn(client[Entry(u)]),
         client' = [client EXCEPT ![Entry(u)] = 0], Goto(u, "dial"),
         UNCHANGED <<readers, owner, closer, toClose, epoch, kind, key, at, conn, waits, dials, alive>>
  PROVE  IInv'
  <1> USE DEF IInv, Goto, CloseConn
  <1>e. Entry(u) \in Entries BY EntryType
  <1>1. PoolOK' BY <1>e, LimitsAssumption DEF TypeOK, PoolOK
  <1>2. GoroutinesOK' BY DEF TypeOK, GoroutinesOK, Labels
  <1>3. TransportOK' BY DEF TypeOK, TransportOK
  <1>4. client'[Entry(u)] = 0 /\ \A e \in Entries : e # Entry(u) => client'[e] = client[e]
    BY <1>e DEF TypeOK, PoolOK
  <1>5. /\ OwnerHolds' /\ HolderOwns' /\ ReadersCurrent' /\ VisitedEmpty' /\ FreshApart'
        /\ DialsEmpty' /\ OpeningPooled' /\ LookedUp' /\ CloserEpoch'
        /\ \A v \in Users, d \in Conns : PrivateTo(v, d) => PrivateTo(v, d)'
    BY <1>4, WorkGoesOn
  <1>6. \A v \in Users, d \in open' : PrivateTo(v, d) => PrivateTo(v, d)'
    BY <1>5 DEF TypeOK, TransportOK
  <1>7. NoLeakedConnection' BY <1>e, <1>6, EntryDropped DEF TypeOK, PoolOK, CloserEpoch
  <1> QED BY <1>1, <1>2, <1>3, <1>5, <1>7 DEF TypeOK

\* A pooled connection is used, is full, or is closed and dropped.
LEMMA TryPooledStep == ASSUME IInv, NEW u \in Users, TryPooled(u) PROVE IInv'
  <1> DEFINE c == client[Entry(u)]
  <1> USE DEF IInv, TryPooled, Goto
  <1>e. Entry(u) \in Entries /\ Holding(u) BY EntryType DEF Holding
  <1>c. c \in Conns BY <1>e, LimitsAssumption DEF TypeOK, PoolOK, Conns
  <1>o. open \subseteq Conns BY DEF TypeOK, TransportOK
  <1>1. CASE OpenSession(u, c) /\ Unlock(u) /\ UNCHANGED <<client, open>>
    <2> USE <1>1 DEF OpenSession, Unlock
    <2>1. PoolOK' BY <1>e DEF TypeOK, PoolOK
    <2>2. GoroutinesOK' BY <1>c DEF TypeOK, GoroutinesOK, Labels, Conns
    <2>3. TransportOK' BY <1>c DEF TypeOK, TransportOK
    <2>4. \A v \in Users : v # u => conn'[v] = conn[v] BY DEF TypeOK, GoroutinesOK
    <2>5. /\ OwnerHolds' /\ HolderOwns' /\ ReadersCurrent' /\ VisitedEmpty' /\ FreshApart'
          /\ DialsEmpty' /\ OpeningPooled' /\ LookedUp' /\ CloserEpoch'
          /\ \A v \in Users, d \in Conns : PrivateTo(v, d) => PrivateTo(v, d)'
      BY <1>e, <2>4, SessionLeaves
    <2>6. NoLeakedConnection' BY <1>o, <2>5, EntriesKept
    <2> QED BY <2>1, <2>2, <2>3, <2>5, <2>6 DEF TypeOK
  <1>2. CASE Refused(u) /\ UNCHANGED <<client, conn, open, sessions>>
    <2> USE <1>2 DEF Refused, EntryWhileWaiting
    <2>1. PoolOK' BY <1>e DEF TypeOK, PoolOK
    <2>2. GoroutinesOK' BY DEF TypeOK, GoroutinesOK, Labels
    <2>3. TransportOK' BY DEF TypeOK, TransportOK
    <2>5. /\ OwnerHolds' /\ HolderOwns' /\ ReadersCurrent' /\ VisitedEmpty' /\ FreshApart'
          /\ DialsEmpty' /\ OpeningPooled' /\ LookedUp' /\ CloserEpoch'
          /\ \A v \in Users, d \in Conns : PrivateTo(v, d) => PrivateTo(v, d)'
      BY <1>e, SessionLeaves
    <2>6. NoLeakedConnection' BY <1>o, <2>5, EntriesKept
    <2> QED BY <2>1, <2>2, <2>3, <2>5, <2>6 DEF TypeOK
  <1>3. CASE /\ CloseConn(c) /\ client' = [client EXCEPT ![Entry(u)] = 0] /\ Goto(u, "dial")
             /\ UNCHANGED <<owner, conn>>
    BY <1>3, <1>e, <1>c, DropAndDial
  <1> QED BY <1>1, <1>2, <1>3

\* A connection that answers is handed out; one that does not is closed and dropped.
LEMMA ProbeStep == ASSUME IInv, NEW u \in Users, Probe(u) PROVE IInv'
  <1> DEFINE c == client[Entry(u)]
  <1> USE DEF IInv, Probe, Goto
  <1>e. Entry(u) \in Entries /\ Holding(u) BY EntryType DEF Holding
  <1>c. c \in Conns BY <1>e, LimitsAssumption DEF TypeOK, PoolOK, Conns
  <1>o. open \subseteq Conns BY DEF TypeOK, TransportOK
  <1>1. CASE /\ conn' = [conn EXCEPT ![u] = c] /\ Goto(u, "ask") /\ Unlock(u)
             /\ UNCHANGED <<client, open, sessions>>
    <2> USE <1>1 DEF Unlock
    <2>1. PoolOK' BY <1>e DEF TypeOK, PoolOK
    <2>2. GoroutinesOK' BY <1>c DEF TypeOK, GoroutinesOK, Labels, Conns
    <2>3. TransportOK' BY DEF TypeOK, TransportOK
    <2>4. \A v \in Users : v # u => conn'[v] = conn[v] BY DEF TypeOK, GoroutinesOK
    <2>5. /\ OwnerHolds' /\ HolderOwns' /\ ReadersCurrent' /\ VisitedEmpty' /\ FreshApart'
          /\ DialsEmpty' /\ OpeningPooled' /\ LookedUp' /\ CloserEpoch'
          /\ \A v \in Users, d \in Conns : PrivateTo(v, d) => PrivateTo(v, d)'
      BY <1>e, <2>4, SessionLeaves
    <2>6. NoLeakedConnection' BY <1>o, <2>5, EntriesKept
    <2> QED BY <2>1, <2>2, <2>3, <2>5, <2>6 DEF TypeOK
  <1>2. CASE /\ CloseConn(c) /\ client' = [client EXCEPT ![Entry(u)] = 0] /\ Goto(u, "dial")
             /\ UNCHANGED <<owner, conn>>
    BY <1>2, <1>e, <1>c, DropAndDial
  <1> QED BY <1>1, <1>2

\* An empty entry is dialled for.
LEMMA NothingPooledStep == ASSUME IInv, NEW u \in Users, NothingPooled(u) PROVE IInv'
  <1> USE DEF IInv, NothingPooled, Goto, pool, transport
  <1>e. Entry(u) \in Entries /\ Holding(u) BY EntryType DEF Holding, FreshApart
  <1>1. TypeOK' BY DEF TypeOK, PoolOK, GoroutinesOK, TransportOK, Labels
  <1>2. open \subseteq Conns BY DEF TypeOK, TransportOK
  <1>3. /\ OwnerHolds' /\ HolderOwns' /\ ReadersCurrent' /\ VisitedEmpty' /\ FreshApart'
        /\ DialsEmpty' /\ OpeningPooled' /\ LookedUp' /\ CloserEpoch'
        /\ \A v \in Users, d \in Conns : PrivateTo(v, d) => PrivateTo(v, d)'
    BY <1>e, WorkGoesOn
  <1>4. NoLeakedConnection' BY <1>2, <1>3, EntriesKept
  <1> QED BY <1>1, <1>3, <1>4

\* A new connection is private to its goroutine or goes into the entry it holds, which
\* had none and which ClosePool has still to visit or which is in the current map.
LEMMA DialledStep == ASSUME IInv, NEW u \in Users, Dialled(u) PROVE IInv'
  <1> USE DEF IInv, Dialled, Goto
  <1>e. Entry(u) \in Entries BY EntryType
  <1>d. PICK d \in Conns : d = dials + 1 /\ d \in 0..MaxDials /\ dials' = d
    BY LimitsAssumption DEF TypeOK, TransportOK, Conns
  <1>1. TransportOK' BY <1>d DEF TypeOK, TransportOK
  <1>2. \A v \in Users : v # u => conn'[v] = conn[v] /\ pc'[v] = pc[v]
    BY DEF TypeOK, GoroutinesOK, Unlock
  <1>3. conn'[u] = d BY <1>d DEF TypeOK, GoroutinesOK
  <1>4. open \subseteq Conns /\ open' = open \cup {d} BY <1>d DEF TypeOK, TransportOK
  <1>5. CASE kind[u] = "fresh"
    <2> USE <1>5
    <2>1. PoolOK' BY DEF TypeOK, PoolOK
    <2>2. GoroutinesOK' BY <1>d DEF TypeOK, GoroutinesOK, Labels
    <2>3. ~ Holding(u) /\ ~ Holding(u)' /\ u \notin readers /\ pc'[u] = "opening"
      BY DEF Holding, TypeOK, GoroutinesOK, ReadersCurrent
    <2>4. /\ OwnerHolds' /\ HolderOwns' /\ ReadersCurrent' /\ VisitedEmpty'
          /\ DialsEmpty' /\ OpeningPooled' /\ CloserEpoch'
      BY <1>2, <2>3, OutsideLocks DEF pool
    <2>5. FreshApart' /\ LookedUp' BY <1>2, <2>3 DEF FreshApart, LookedUp
    <2>6. PrivateTo(u, d)' BY <1>3, <2>3 DEF PrivateTo
    <2>7. \A v \in Users, c \in Conns : PrivateTo(v, c) => PrivateTo(v, c)'
      BY <1>2 DEF PrivateTo
    <2>8. \A c : (InMap(c) => InMap(c)') /\ (AwaitsClose(c) => AwaitsClose(c)')
      BY DEF InMap, AwaitsClose
    <2>9. NoLeakedConnection' BY <1>4, <2>6, <2>7, <2>8 DEF NoLeakedConnection
    <2> QED BY <1>1, <2>1, <2>2, <2>4, <2>5, <2>9 DEF TypeOK
  <1>6. CASE kind[u] # "fresh"
    <2> USE <1>6
    <2>h. Holding(u) BY DEF Holding
    <2>c. client' = [client EXCEPT ![Entry(u)] = d] BY <1>d
    <2>1. PoolOK' BY <1>e, <1>d DEF TypeOK, PoolOK, Unlock
    <2>2. GoroutinesOK' BY <1>d DEF TypeOK, GoroutinesOK, Labels
    <2>3. \A e \in Entries : e # Entry(u) => client'[e] = client[e] BY <2>c DEF TypeOK, PoolOK
    <2>4. client'[Entry(u)] = conn'[u] BY <1>3, <1>e, <2>c DEF TypeOK, PoolOK
    <2>5. /\ OwnerHolds' /\ HolderOwns' /\ ReadersCurrent' /\ VisitedEmpty' /\ FreshApart'
          /\ DialsEmpty' /\ OpeningPooled' /\ LookedUp' /\ CloserEpoch'
          /\ \A v \in Users, c \in Conns : PrivateTo(v, c) => PrivateTo(v, c)'
      <3>1. CASE kind[u] = "client"
        BY <3>1, <1>2, <2>h, <2>3, SessionLeaves DEF Unlock
      <3>2. CASE kind[u] # "client"
        BY <3>2, <1>2, <2>h, <2>3, <2>4, WorkGoesOn
      <3> QED BY <3>1, <3>2
    <2>6. \A e \in Entries, c \in open : client[e] = c => client'[e] = c
      BY <1>4, <2>h, <2>3 DEF DialsEmpty, Conns
    <2>7. \A c \in open : (InMap(c) => InMap(c)') /\ (AwaitsClose(c) => AwaitsClose(c)')
      <3> SUFFICES ASSUME NEW c \in open
                   PROVE  (InMap(c) => InMap(c)') /\ (AwaitsClose(c) => AwaitsClose(c)')
        OBVIOUS
      <3>1. ASSUME InMap(c) PROVE InMap(c)'
        <4>1. PICK k \in Keys : client[<<k, epoch>>] = c BY <3>1 DEF InMap
        <4>2. <<k, epoch>> \in Entries BY DEF Entries, TypeOK, PoolOK
        <4> QED BY <4>1, <4>2, <2>6 DEF InMap
      <3>2. ASSUME AwaitsClose(c) PROVE AwaitsClose(c)'
        <4>1. PICK k \in toClose : client[<<k, epoch - 1>>] = c BY <3>2 DEF AwaitsClose
        <4>2. <<k, epoch - 1>> \in Entries
          BY <3>2, LimitsAssumption DEF Entries, AwaitsClose, CloserEpoch, TypeOK, PoolOK
        <4> QED BY <3>2, <4>1, <4>2, <2>6 DEF AwaitsClose
      <3> QED BY <3>1, <3>2
    <2>8. InMap(d)' \/ AwaitsClose(d)'
      <3>1. ~ Visited(Entry(u)) BY <2>h, HeldNotVisited
      <3>2. client'[<<key[u], at[u]>>] = d BY <1>3, <2>4 DEF Entry
      <3>3. key[u] \in Keys /\ at[u] \in Nat /\ epoch \in Nat /\ at[u] <= epoch
        BY LimitsAssumption DEF TypeOK, PoolOK, GoroutinesOK, LookedUp
      <3>4. CASE at[u] = epoch BY <3>2, <3>3, <3>4 DEF InMap
      <3>5. CASE at[u] # epoch
        <4>1. closer = "closing" /\ at[u] = epoch - 1 /\ key[u] \in toClose
          BY <3>1, <3>3, <3>5 DEF Visited, Entry
        <4> QED BY <3>2, <4>1 DEF AwaitsClose
      <3> QED BY <3>4, <3>5
    <2>9. NoLeakedConnection' BY <1>4, <2>5, <2>7, <2>8 DEF NoLeakedConnection
    <2> QED BY <1>1, <2>1, <2>2, <2>5, <2>9 DEF TypeOK
  <1> QED BY <1>5, <1>6

\* A failed dial leaves nothing behind.
LEMMA DialFailsStep == ASSUME IInv, NEW u \in Users, DialFails(u) PROVE IInv'
  <1> USE DEF IInv, DialFails, Goto, transport
  <1>e. Entry(u) \in Entries BY EntryType
  <1>1. GoroutinesOK' /\ TransportOK' BY DEF TypeOK, GoroutinesOK, TransportOK, Labels
  <1>2. open \subseteq Conns BY DEF TypeOK, TransportOK
  <1>3. CASE kind[u] = "fresh"
    <2> USE <1>3
    <2>1. PoolOK' BY DEF TypeOK, PoolOK
    <2>2. \A v \in Users : v # u => pc'[v] = pc[v] BY DEF TypeOK, GoroutinesOK
    <2>3. ~ Holding(u) /\ ~ Holding(u)' /\ u \notin readers /\ pc'[u] = "idle"
      BY DEF Holding, TypeOK, GoroutinesOK, ReadersCurrent
    <2>4. /\ OwnerHolds' /\ HolderOwns' /\ ReadersCurrent' /\ VisitedEmpty'
          /\ DialsEmpty' /\ OpeningPooled' /\ CloserEpoch'
      BY <2>2, <2>3, OutsideLocks DEF pool
    <2>5. FreshApart' /\ LookedUp' BY <2>2, <2>3 DEF FreshApart, LookedUp
    <2>6. \A v \in Users, c \in Conns : PrivateTo(v, c) => PrivateTo(v, c)'
      BY <2>2 DEF PrivateTo
    <2>7. NoLeakedConnection' BY <1>2, <2>6, EntriesKept
    <2> QED BY <1>1, <2>1, <2>4, <2>5, <2>7 DEF TypeOK
  <1>4. CASE kind[u] # "fresh"
    <2> USE <1>4 DEF Unlock
    <2>1. PoolOK' BY <1>e DEF TypeOK, PoolOK
    <2>2. Holding(u) BY DEF Holding
    <2>3. /\ OwnerHolds' /\ HolderOwns' /\ ReadersCurrent' /\ VisitedEmpty' /\ FreshApart'
          /\ DialsEmpty' /\ OpeningPooled' /\ LookedUp' /\ CloserEpoch'
          /\ \A v \in Users, c \in Conns : PrivateTo(v, c) => PrivateTo(v, c)'
      BY <2>2, SessionLeaves
    <2>4. NoLeakedConnection' BY <1>2, <2>3, EntriesKept
    <2> QED BY <1>1, <2>1, <2>3, <2>4 DEF TypeOK
  <1> QED BY <1>3, <1>4

\* Outside the pool's locks the type and lock parts need only this much.
LEMMA ConnectionStep ==
  ASSUME IInv, NEW u \in Users, ~ Holding(u), u \notin readers,
         NEW l \in {"idle", "using", "ask", "wait_slot", "rlock"}, pc' = [pc EXCEPT ![u] = l],
         kind[u] = "fresh" => l \in {"idle", "using"}, conn' \in [Users -> 0..MaxDials],
         \A v \in Users : v # u => conn'[v] = conn[v],
         waits' \in [Users -> 0..MaxWaits], TransportOK', open' \subseteq open,
         \A c \in open' : PrivateTo(u, c) => PrivateTo(u, c)',
         UNCHANGED <<pool, kind, key, at>>
  PROVE  IInv'
  <1> USE DEF IInv
  <1>1. TypeOK' BY DEF pool, TypeOK, PoolOK, GoroutinesOK, Labels
  <1>2. pc'[u] = l /\ \A v \in Users : v # u => pc'[v] = pc[v] BY DEF TypeOK, GoroutinesOK
  <1>3. ~ Holding(u)' BY <1>2 DEF Holding
  <1>4. /\ OwnerHolds' /\ HolderOwns' /\ ReadersCurrent' /\ VisitedEmpty'
        /\ DialsEmpty' /\ OpeningPooled' /\ CloserEpoch'
    BY <1>2, <1>3, OutsideLocks
  <1>5. FreshApart' /\ LookedUp' BY <1>2 DEF FreshApart, LookedUp, pool
  <1>6. \A v \in Users, c \in open' : PrivateTo(v, c) => PrivateTo(v, c)'
    BY <1>2 DEF PrivateTo
  <1>7. NoLeakedConnection' BY <1>6, EntriesKept DEF pool
  <1> QED BY <1>1, <1>4, <1>5, <1>7

\* The first session opens, is refused, or fails and takes its connection with it.
LEMMA FirstSessionStep == ASSUME IInv, NEW u \in Users, FirstSession(u) PROVE IInv'
  <1> DEFINE c == conn[u]
  <1> USE DEF IInv, FirstSession, Goto
  <1>e. Entry(u) \in Entries BY EntryType
  <1>c. c \in 0..MaxDials BY DEF TypeOK, GoroutinesOK
  <1>o. open \subseteq Conns /\ u \notin readers BY DEF TypeOK, TransportOK, ReadersCurrent
  <1>s. TransportOK'
    BY DEF TypeOK, TransportOK, OpenSession, CloseConn, Refused
  <1>1. CASE kind[u] = "fresh"
    <2> USE <1>1
    <2>1. ~ Holding(u) /\ UNCHANGED pool BY DEF Holding, pool
    <2>2. CASE OpenSession(u, c) /\ UNCHANGED open
      <3> USE <2>2 DEF OpenSession
      <3>1. conn' \in [Users -> 0..MaxDials] /\ \A v \in Users : conn'[v] = conn[v]
        BY <1>c DEF TypeOK, GoroutinesOK
      <3>2. \A d \in open' : PrivateTo(u, d) => PrivateTo(u, d)'
        BY <3>1 DEF PrivateTo, TypeOK, GoroutinesOK
      <3> QED BY <1>o, <1>s, <2>1, <3>1, <3>2, ConnectionStep DEF TypeOK, GoroutinesOK
    <2>3. CASE CloseConn(c) /\ Goto(u, "idle") /\ conn' = [conn EXCEPT ![u] = 0]
      <3> USE <2>3 DEF CloseConn
      <3>1. conn' \in [Users -> 0..MaxDials] /\ \A v \in Users : v # u => conn'[v] = conn[v]
        BY LimitsAssumption DEF TypeOK, GoroutinesOK
      <3>2. \A d \in open' : PrivateTo(u, d) => PrivateTo(u, d)' BY DEF PrivateTo
      <3> QED BY <1>o, <1>s, <2>1, <3>1, <3>2, ConnectionStep DEF TypeOK, GoroutinesOK
    <2> QED BY <2>2, <2>3
  <1>2. CASE kind[u] # "fresh"
    <2> USE <1>2
    <2>h. Holding(u) /\ client[Entry(u)] = c BY DEF Holding, OpeningPooled
    <2>2. CASE OpenSession(u, c) /\ Unlock(u) /\ UNCHANGED <<client, open>>
      <3> USE <2>2 DEF OpenSession, Unlock
      <3>1. PoolOK' BY <1>e DEF TypeOK, PoolOK
      <3>2. GoroutinesOK' BY <1>c DEF TypeOK, GoroutinesOK, Labels
      <3>4. \A v \in Users : v # u => conn'[v] = conn[v] BY DEF TypeOK, GoroutinesOK
      <3>5. /\ OwnerHolds' /\ HolderOwns' /\ ReadersCurrent' /\ VisitedEmpty' /\ FreshApart'
            /\ DialsEmpty' /\ OpeningPooled' /\ LookedUp' /\ CloserEpoch'
            /\ \A v \in Users, d \in Conns : PrivateTo(v, d) => PrivateTo(v, d)'
        BY <2>h, <3>4, SessionLeaves
      <3>6. NoLeakedConnection' BY <1>o, <3>5, EntriesKept
      <3> QED BY <1>s, <3>1, <3>2, <3>5, <3>6 DEF TypeOK
    <2>3. CASE Refused(u) /\ UNCHANGED <<client, conn, open, sessions>>
      <3> USE <2>3 DEF Refused, EntryWhileWaiting
      <3>1. PoolOK' BY <1>e DEF TypeOK, PoolOK
      <3>2. GoroutinesOK' BY DEF TypeOK, GoroutinesOK, Labels
      <3>5. /\ OwnerHolds' /\ HolderOwns' /\ ReadersCurrent' /\ VisitedEmpty' /\ FreshApart'
            /\ DialsEmpty' /\ OpeningPooled' /\ LookedUp' /\ CloserEpoch'
            /\ \A v \in Users, d \in Conns : PrivateTo(v, d) => PrivateTo(v, d)'
        BY <2>h, SessionLeaves
      <3>6. NoLeakedConnection' BY <1>o, <3>5, EntriesKept
      <3> QED BY <1>s, <3>1, <3>2, <3>5, <3>6 DEF TypeOK
    <2>4. CASE /\ CloseConn(c) /\ client' = [client EXCEPT ![Entry(u)] = 0] /\ Unlock(u)
               /\ Goto(u, "idle") /\ conn' = [conn EXCEPT ![u] = 0]
      <3> USE <2>4 DEF CloseConn, Unlock
      <3>1. PoolOK' BY <1>e, LimitsAssumption DEF TypeOK, PoolOK
      <3>2. GoroutinesOK' BY LimitsAssumption DEF TypeOK, GoroutinesOK, Labels
      <3>3. \A e \in Entries : e # Entry(u) => client'[e] = client[e] BY DEF TypeOK, PoolOK
      <3>4. \A v \in Users : v # u => conn'[v] = conn[v] BY DEF TypeOK, GoroutinesOK
      <3>5. /\ OwnerHolds' /\ HolderOwns' /\ ReadersCurrent' /\ VisitedEmpty' /\ FreshApart'
            /\ DialsEmpty' /\ OpeningPooled' /\ LookedUp' /\ CloserEpoch'
            /\ \A v \in Users, d \in Conns : PrivateTo(v, d) => PrivateTo(v, d)'
        BY <2>h, <3>3, <3>4, SessionLeaves
      <3>6. \A v \in Users, d \in open' : PrivateTo(v, d) => PrivateTo(v, d)' BY <1>o, <3>5
      <3>7. NoLeakedConnection'
        BY <1>e, <2>h, <3>6, EntryDropped DEF TypeOK, PoolOK, CloserEpoch
      <3> QED BY <1>s, <3>1, <3>2, <3>5, <3>7 DEF TypeOK
    <2> QED BY <2>2, <2>3, <2>4
  <1> QED BY <1>1, <1>2

\* A session on a client obtained earlier touches no lock.
LEMMA AskSessionStep == ASSUME IInv, NEW u \in Users, AskSession(u) PROVE IInv'
  <1> USE DEF IInv, AskSession, Goto, OpenSession
  <1>1. ~ Holding(u) /\ u \notin readers /\ kind[u] # "fresh"
    BY DEF Holding, ReadersCurrent, FreshApart
  <1>2. conn' \in [Users -> 0..MaxDials] /\ \A v \in Users : v # u => conn'[v] = conn[v]
    BY LimitsAssumption DEF TypeOK, GoroutinesOK
  <1>3. TransportOK' /\ open' \subseteq open BY DEF TypeOK, TransportOK
  <1>4. \A c \in open' : PrivateTo(u, c) => PrivateTo(u, c)' BY <1>1 DEF PrivateTo
  <1>5. PICK l \in {"using", "wait_slot", "idle"} : pc' = [pc EXCEPT ![u] = l] OBVIOUS
  <1> QED BY <1>1, <1>2, <1>3, <1>4, <1>5, ConnectionStep DEF TypeOK, GoroutinesOK

\* Waiting for a slot touches no lock either.
LEMMA WaitSlotStep == ASSUME IInv, NEW u \in Users, WaitSlot(u) PROVE IInv'
  <1> USE DEF IInv, WaitSlot, Goto
  <1>1. ~ Holding(u) /\ u \notin readers /\ kind[u] # "fresh"
    BY DEF Holding, ReadersCurrent, FreshApart
  <1>2. conn' \in [Users -> 0..MaxDials] /\ \A v \in Users : v # u => conn'[v] = conn[v]
    BY LimitsAssumption DEF TypeOK, GoroutinesOK
  <1>3. TransportOK' /\ open' \subseteq open BY DEF TypeOK, TransportOK, transport
  <1>4. \A c \in open' : PrivateTo(u, c) => PrivateTo(u, c)' BY <1>1 DEF PrivateTo
  <1>5. PICK l \in {"ask", "rlock", "idle"} : pc' = [pc EXCEPT ![u] = l] OBVIOUS
  <1>6. waits' \in [Users -> 0..MaxWaits]
    BY LimitsAssumption DEF DelayFits, TypeOK, GoroutinesOK
  <1> QED BY <1>1, <1>2, <1>3, <1>4, <1>5, <1>6, ConnectionStep

\* A private connection is closed by the goroutine it was private to.
LEMMA FinishStep == ASSUME IInv, NEW u \in Users, Finish(u) PROVE IInv'
  <1> USE DEF IInv, Finish, Goto, CloseConn, Releases
  <1>1. ~ Holding(u) /\ u \notin readers BY DEF Holding, ReadersCurrent
  <1>2. conn' \in [Users -> 0..MaxDials] /\ \A v \in Users : v # u => conn'[v] = conn[v]
    BY LimitsAssumption DEF TypeOK, GoroutinesOK
  <1>3. TransportOK' /\ open' \subseteq open BY DEF TypeOK, TransportOK
  <1>4. \A c \in open' : PrivateTo(u, c) => PrivateTo(u, c)' BY DEF PrivateTo
  <1> QED BY <1>1, <1>2, <1>3, <1>4, ConnectionStep DEF TypeOK, GoroutinesOK

-----------------------------------------------------------------------------
(* ClosePool and the transport.                                             *)

\* Requesting the write lock changes nothing that is held.
LEMMA CloseRequestedStep == ASSUME IInv, CloseRequested PROVE IInv'
  <1> USE DEF IInv, CloseRequested, goroutines, transport
  <1>1. TypeOK' BY DEF TypeOK, PoolOK, GoroutinesOK, TransportOK
  <1>2. OwnerHolds' /\ HolderOwns' BY DEF OwnerHolds, HolderOwns, Holding, Entry
  <1>3. ReadersCurrent' /\ FreshApart' /\ LookedUp' BY DEF ReadersCurrent, FreshApart, LookedUp
  <1>4. VisitedEmpty' BY DEF VisitedEmpty, Visited
  <1>5. DialsEmpty' /\ OpeningPooled' BY DEF DialsEmpty, OpeningPooled, Entry
  <1>6. CloserEpoch' BY DEF CloserEpoch
  <1>7. NoLeakedConnection' BY DEF NoLeakedConnection, InMap, AwaitsClose, PrivateTo
  <1> QED BY <1>1, <1>2, <1>3, <1>4, <1>5, <1>6, <1>7

\* With no reader left, the entries of the map that is replaced all await their visit.
LEMMA CloseStartsStep == ASSUME IInv, CloseStarts PROVE IInv'
  <1> USE DEF IInv, CloseStarts, goroutines, transport
  <1>n. epoch \in Nat /\ epoch < MaxCloses BY LimitsAssumption DEF TypeOK, PoolOK, CloserEpoch
  <1>1. TypeOK' BY <1>n, LimitsAssumption DEF TypeOK, PoolOK, GoroutinesOK, TransportOK
  <1>2. OwnerHolds' /\ HolderOwns' BY DEF OwnerHolds, HolderOwns, Holding, Entry
  <1>3. ReadersCurrent' /\ FreshApart' BY DEF ReadersCurrent, FreshApart
  <1>4. LookedUp' BY <1>n, LimitsAssumption DEF LookedUp, TypeOK, GoroutinesOK
  <1>5. VisitedEmpty'
    <2> SUFFICES ASSUME NEW e \in Entries, Visited(e)' PROVE client[e] = 0 /\ owner[e] = NoUser
      BY DEF VisitedEmpty
    <2>1. e[1] \in Keys /\ e[2] \in Nat BY LimitsAssumption DEF Entries
    <2>2. Visited(e) BY <1>n, <2>1 DEF Visited
    <2> QED BY <2>2 DEF VisitedEmpty
  <1>6. DialsEmpty' /\ OpeningPooled' BY DEF DialsEmpty, OpeningPooled, Entry
  <1>7. CloserEpoch' BY <1>n DEF CloserEpoch
  <1>8. \A c \in open : InMap(c) => AwaitsClose(c)' BY <1>n DEF InMap, AwaitsClose
  <1>9. NoLeakedConnection' BY <1>8 DEF NoLeakedConnection, AwaitsClose, PrivateTo
  <1> QED BY <1>1, <1>2, <1>3, <1>4, <1>5, <1>6, <1>7, <1>9

\* An entry nobody works on is emptied.
LEMMA CloseEntryStep == ASSUME IInv, NEW k \in Keys, CloseEntry(k) PROVE IInv'
  <1> USE DEF IInv, CloseEntry, goroutines, CloseConn
  <1>n. epoch \in Nat /\ epoch > 0 /\ epoch - 1 \in 0..MaxCloses
    BY LimitsAssumption DEF TypeOK, PoolOK, CloserEpoch
  <1>e. PICK e \in Entries : e = <<k, epoch - 1>> BY <1>n DEF Entries
  <1> USE <1>e
  <1>z. client'[e] = 0 /\ \A x \in Entries : x # e => client'[x] = client[x]
    BY DEF TypeOK, PoolOK
  <1>1. PoolOK' BY LimitsAssumption DEF TypeOK, PoolOK
  <1>2. GoroutinesOK' /\ TransportOK' BY DEF TypeOK, GoroutinesOK, TransportOK
  <1>3. OwnerHolds' /\ HolderOwns' BY DEF OwnerHolds, HolderOwns, Holding, Entry
  <1>4. ReadersCurrent' /\ FreshApart' /\ LookedUp' /\ CloserEpoch'
    BY DEF ReadersCurrent, FreshApart, LookedUp, CloserEpoch
  <1>5. VisitedEmpty'
    <2> SUFFICES ASSUME NEW x \in Entries, Visited(x)' PROVE client'[x] = 0 /\ owner[x] = NoUser
      BY DEF VisitedEmpty
    <2>1. CASE x = e BY <2>1, <1>z
    <2>2. CASE x # e
      <3>1. x = <<x[1], x[2]>> BY DEF Entries
      <3>2. Visited(x) BY <2>2, <3>1 DEF Visited
      <3> QED BY <2>2, <3>2, <1>z DEF VisitedEmpty
    <2> QED BY <2>1, <2>2
  <1>6. DialsEmpty' /\ OpeningPooled'
    <2>1. \A v \in Users : Holding(v) => Entry(v) # e BY UsersAssumption DEF HolderOwns
    <2>2. \A v \in Users : Entry(v) \in Entries /\ Entry(v)' = Entry(v) BY EntryType DEF Entry
    <2> QED BY <2>1, <2>2, <1>z DEF DialsEmpty, OpeningPooled, Holding
  <1>7. NoLeakedConnection'
    <2>1. open \subseteq Conns /\ 0 \notin Conns BY DEF TypeOK, TransportOK, Conns
    <2> SUFFICES ASSUME NEW c \in open'
                 PROVE  InMap(c)' \/ AwaitsClose(c)' \/ \E u \in Users : PrivateTo(u, c)'
      BY DEF NoLeakedConnection
    <2>2. c \in open /\ c # client[e] BY <2>1
    <2>3. CASE InMap(c)
      <3>1. PICK j \in Keys : client[<<j, epoch>>] = c BY <2>3 DEF InMap
      <3>2. <<j, epoch>> \in Entries /\ <<j, epoch>> # e BY <1>n DEF Entries, TypeOK, PoolOK
      <3> QED BY <3>1, <3>2, <1>z DEF InMap
    <2>4. CASE AwaitsClose(c)
      <3>1. PICK j \in toClose : client[<<j, epoch - 1>>] = c BY <2>4 DEF AwaitsClose
      <3>2. j # k /\ j \in Keys BY <2>2, <3>1 DEF TypeOK, PoolOK
      <3>3. <<j, epoch - 1>> \in Entries /\ <<j, epoch - 1>> # e BY <1>n, <3>2 DEF Entries
      <3> QED BY <3>1, <3>2, <3>3, <1>z DEF AwaitsClose
    <2>5. CASE \E u \in Users : PrivateTo(u, c) BY <2>5 DEF PrivateTo
    <2> QED BY <2>2, <2>3, <2>4, <2>5 DEF NoLeakedConnection
  <1> QED BY <1>1, <1>2, <1>3, <1>4, <1>5, <1>6, <1>7 DEF TypeOK

\* Every detached entry has been visited.
LEMMA CloseReturnsStep == ASSUME IInv, CloseReturns PROVE IInv'
  <1> USE DEF IInv, CloseReturns, goroutines, transport
  <1>1. TypeOK' BY DEF TypeOK, PoolOK, GoroutinesOK, TransportOK
  <1>2. OwnerHolds' /\ HolderOwns' BY DEF OwnerHolds, HolderOwns, Holding, Entry
  <1>3. ReadersCurrent' /\ FreshApart' /\ LookedUp' BY DEF ReadersCurrent, FreshApart, LookedUp
  <1>4. VisitedEmpty' BY DEF VisitedEmpty, Visited
  <1>5. DialsEmpty' /\ OpeningPooled' BY DEF DialsEmpty, OpeningPooled, Entry
  <1>6. CloserEpoch' BY DEF CloserEpoch
  <1>7. NoLeakedConnection' BY DEF NoLeakedConnection, InMap, AwaitsClose, PrivateTo
  <1> QED BY <1>1, <1>2, <1>3, <1>4, <1>5, <1>6, <1>7

\* The transport and the keepalive touch neither locks nor entries.
LEMMA TransportStep ==
  ASSUME IInv, NEW c \in Conns, PeerDies(c) \/ Keepalive(c) PROVE IInv'
  <1> USE DEF IInv, PeerDies, Keepalive, CloseConn, pool, goroutines
  <1>1. TypeOK' BY DEF TypeOK, PoolOK, GoroutinesOK, TransportOK
  <1>2. OwnerHolds' /\ HolderOwns' BY DEF OwnerHolds, HolderOwns, Holding, Entry
  <1>3. ReadersCurrent' /\ FreshApart' /\ LookedUp' BY DEF ReadersCurrent, FreshApart, LookedUp
  <1>4. VisitedEmpty' BY DEF VisitedEmpty, Visited
  <1>5. DialsEmpty' /\ OpeningPooled' BY DEF DialsEmpty, OpeningPooled, Entry
  <1>6. CloserEpoch' BY DEF CloserEpoch
  <1>7. open' \subseteq open /\ \A v \in Users, d \in open' : PrivateTo(v, d) => PrivateTo(v, d)'
    BY DEF PrivateTo
  <1>8. NoLeakedConnection' BY <1>7, EntriesKept
  <1> QED BY <1>1, <1>2, <1>3, <1>4, <1>5, <1>6, <1>8

-----------------------------------------------------------------------------
\* An empty pool satisfies the invariant.
LEMMA InitStep == ASSUME Init PROVE IInv
  <1> USE DEF Init
  <1>1. TypeOK
    <2>1. PoolOK BY LimitsAssumption DEF PoolOK
    <2>2. kind \in [Users -> {"session", "client", "fresh"}] BY KindsAssumption
    <2>3. GoroutinesOK BY <2>2, LimitsAssumption DEF GoroutinesOK, Labels
    <2>4. TransportOK BY LimitsAssumption DEF TransportOK
    <2> QED BY <2>1, <2>3, <2>4 DEF TypeOK
  <1>2. OwnerHolds /\ HolderOwns BY UsersAssumption DEF OwnerHolds, HolderOwns, Holding
  <1>3. ReadersCurrent /\ FreshApart BY DEF ReadersCurrent, FreshApart
  <1>4. VisitedEmpty BY DEF VisitedEmpty
  <1>5. DialsEmpty /\ OpeningPooled BY DEF DialsEmpty, OpeningPooled
  <1>6. LookedUp /\ CloserEpoch BY DEF LookedUp, CloserEpoch
  <1>7. NoLeakedConnection BY DEF NoLeakedConnection
  <1> QED BY <1>1, <1>2, <1>3, <1>4, <1>5, <1>6, <1>7 DEF IInv

\* Every step keeps the invariant.
LEMMA NextStep == ASSUME IInv, [Next]_vars PROVE IInv'
  <1>1. ASSUME NEW u \in Users, Acquire(u) \/ Step(u) PROVE IInv'
    BY <1>1, AcquireStep, RLockStep, LockEntryStep, TryPooledStep, ProbeStep, NothingPooledStep,
       DialledStep, DialFailsStep, FirstSessionStep, AskSessionStep, WaitSlotStep, FinishStep
       DEF Step
  <1>2. CASE ClosePool
    BY <1>2, CloseRequestedStep, CloseStartsStep, CloseEntryStep, CloseReturnsStep DEF ClosePool
  <1>3. ASSUME NEW c \in Conns, PeerDies(c) \/ Keepalive(c) PROVE IInv' BY <1>3, TransportStep
  <1>4. CASE UNCHANGED vars
    <2> USE <1>4 DEF IInv, vars, pool, goroutines, transport
    <2>1. TypeOK' BY DEF TypeOK, PoolOK, GoroutinesOK, TransportOK
    <2>2. OwnerHolds' /\ HolderOwns' BY DEF OwnerHolds, HolderOwns, Holding, Entry
    <2>3. ReadersCurrent' /\ FreshApart' /\ LookedUp' BY DEF ReadersCurrent, FreshApart, LookedUp
    <2>4. VisitedEmpty' /\ CloserEpoch' BY DEF VisitedEmpty, Visited, CloserEpoch
    <2>5. DialsEmpty' /\ OpeningPooled' BY DEF DialsEmpty, OpeningPooled, Entry
    <2>6. NoLeakedConnection' BY DEF NoLeakedConnection, InMap, AwaitsClose, PrivateTo
    <2> QED BY <2>1, <2>2, <2>3, <2>4, <2>5, <2>6
  <1> QED BY <1>1, <1>2, <1>3, <1>4 DEF Next

\* The locking discipline holds in every reachable state.
THEOREM LockingDiscipline == Spec => []IInv
  BY InitStep, NextStep, PTL DEF Spec

\* The pool, its goroutines and their connections keep their shape.
THEOREM PoolTypeCorrect == Spec => []TypeOK
  <1>1. IInv => TypeOK BY DEF IInv
  <1> QED BY <1>1, LockingDiscipline, PTL

\* ClosePool revokes every connection of the maps it replaced, for any number of
\* goroutines, destinations and calls (lockPoolEntry, ClosePool).
THEOREM RevocationIsComplete == Spec => []RevocationComplete
  <1>1. IInv => RevocationComplete BY DEF IInv, VisitedEmpty, Visited, RevocationComplete
  <1> QED BY <1>1, LockingDiscipline, PTL

\* No open connection is out of reach of ClosePool and of the goroutine that must close
\* it (tryPooledSession, acquireSSHSessionContext, releaseClient).
THEOREM NoConnectionLeaks == Spec => []NoLeakedConnection
  <1>1. IInv => NoLeakedConnection BY DEF IInv
  <1> QED BY <1>1, LockingDiscipline, PTL

\* A connection that answers and is in use is closed only by ClosePool, by its private
\* owner or after a liveness probe: a full destination costs nobody a session
\* (tryPooledSession, acquireSSHSessionContext, runKeepalive).
THEOREM BusyConnectionsSurvive == Spec => RunningSessionsKept
  <1> DEFINE Kept(c) ==
        Usable(c) /\ sessions[c] # {} /\ c \notin open' =>
           \/ closer = "closing"
           \/ \E u \in Users : kind[u] = "client" /\ pc[u] = "held" /\ pc'[u] = "dial"
           \/ \E u \in Users : kind[u] = "fresh" /\ conn[u] = c
  <1>1. ASSUME TypeOK, [Next]_vars, NEW c \in open PROVE Kept(c)
    <2> SUFFICES ASSUME Usable(c), c \notin open' PROVE Kept(c) OBVIOUS
    <2>1. ASSUME NEW u \in Users, Acquire(u) \/ RLock(u) \/ LockEntry(u) \/ NothingPooled(u)
                                  \/ DialFails(u) \/ WaitSlot(u) \/ Dialled(u) \/ AskSession(u)
          PROVE FALSE
      BY <1>1, <2>1 DEF Acquire, RLock, LockEntry, NothingPooled, DialFails, WaitSlot, Dialled,
                        AskSession, transport
    <2>2. ASSUME NEW u \in Users, TryPooled(u) PROVE FALSE
      BY <1>1, <2>2 DEF TryPooled, CloseConn, Broken
    <2>3. ASSUME NEW u \in Users, Probe(u) PROVE Kept(c)
      BY <1>1, <2>3 DEF Probe, Goto, TypeOK, GoroutinesOK
    <2>4. ASSUME NEW u \in Users, FirstSession(u) PROVE Kept(c)
      BY <1>1, <2>4 DEF FirstSession, CloseConn, Broken
    <2>5. ASSUME NEW u \in Users, Finish(u) PROVE Kept(c)
      BY <1>1, <2>5 DEF Finish, CloseConn, Releases
    <2>6. CASE ClosePool
      BY <1>1, <2>6 DEF ClosePool, CloseRequested, CloseStarts, CloseEntry, CloseReturns, transport
    <2>7. ASSUME NEW d \in Conns, PeerDies(d) \/ Keepalive(d) PROVE FALSE
      BY <1>1, <2>7 DEF PeerDies, Keepalive, CloseConn, Usable
    <2>8. CASE UNCHANGED vars BY <1>1, <2>8 DEF vars, transport
    <2> QED BY <1>1, <2>1, <2>2, <2>3, <2>4, <2>5, <2>6, <2>7, <2>8 DEF Next, Step
  <1>2. TypeOK /\ [Next]_vars => [\A c \in open : Kept(c)]_vars BY <1>1
  <1> QED BY <1>2, PoolTypeCorrect, PTL DEF RunningSessionsKept, Spec
=============================================================================
