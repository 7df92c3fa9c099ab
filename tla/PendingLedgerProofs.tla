-------------------------- MODULE PendingLedgerProofs --------------------------
(***************************************************************************)
(* The ledger of reviewed changes, for every set of names, keys, commands  *)
(* and imports, and any number of changes and publications.                *)
(*                                                                         *)
(* A change overwrites places (aliases and keys), so replaying a ledger in *)
(* order leaves, in every place, what its newest writer wrote there        *)
(* (ReplayIsFinal).  Changes that share no place with the older ones left  *)
(* behind may therefore go first (FinalSplit): the first changes of the    *)
(* ledger, or one that needs none before it (SeparableSplit).  CoreInv     *)
(* says that the ledger leads from its base to the inventory and that the  *)
(* server holds the base, or the base with the changes of the intent.      *)
(*                                                                         *)
(* That nothing unreviewed gets published needs the inventories in between *)
(* as well: LedgerInv says that each has the keys of its connections, that *)
(* each change was recorded for the one before it, and that each host of   *)
(* each was reviewed.  A change that goes out alone is applied to the      *)
(* inventories before its own (AloneStage); the dependency rules keep the  *)
(* keys it changes from being used there by another host (AloneUnused) and *)
(* the key it uses from being made there by another change (AloneUses).    *)
(*                                                                         *)
(* The recursive functions of the model (Replay, Selected, Dependencies,   *)
(* LoadServerImport) have their solutions by LeastNumber, SetInduction and *)
(* Recursion, which state induction for sets of numbers.                   *)
(***************************************************************************)
EXTENDS PendingLedger, WellFoundedInduction, TLAPS

-----------------------------------------------------------------------------
(* Inventories as places that changes write.                               *)

\* A place is an alias or a saved key.
Places == {"conn", "key"} \X Names

Value(inv, l) == IF l[1] = "conn" THEN inv.conns[l[2]] ELSE inv.keys[l[2]]

\* The places a change writes, and what it writes there.
Writes(m, l) ==
  \/ m.kind = "bulk"
  \/ l[1] = "conn" /\ m.kind = "host" /\ m.alias = l[2]
  \/ l[1] = "key" /\ l[2] \in DOMAIN m.delta

Written(m, l) ==
  IF m.kind = "bulk" THEN Value(m.bulk, l) ELSE IF l[1] = "conn" THEN m.after ELSE m.delta[l[2]].after

Newest(S) == CHOOSE m \in S : \A o \in S : o.id <= m.id

\* The inventory in which the newest writer of every place wins.
FinalValue(inv, M, l) ==
  LET W == {m \in M : Writes(m, l)}
  IN  IF W = {} THEN Value(inv, l) ELSE Written(Newest(W), l)

Final(inv, M) ==
  [conns |-> [a \in Names |-> FinalValue(inv, M, <<"conn", a>>)],
   keys  |-> [k \in Names |-> FinalValue(inv, M, <<"key", k>>)]]

-----------------------------------------------------------------------------
(* The inductive invariant.                                                *)

KeyEdit == [before: 0..Materials, after: 0..Materials]

\* What the commands record: a change of one host, of one saved key, or of everything.
Mutation ==
  {m \in [id: Nat, kind: {"host", "key", "bulk"}, alias: Names \cup {NoName},
          before: Connection \cup {NoConnection}, after: Connection \cup {NoConnection},
          delta: UNION {[D -> KeyEdit] : D \in SUBSET Names}, bulk: Inventory] :
     /\ m.kind = "host" <=> m.alias \in Names
     /\ m.kind # "host" => m.before = NoConnection /\ m.after = NoConnection
     /\ \A k \in DOMAIN m.delta : m.delta[k].before # m.delta[k].after}

Changes(mutations) == {mutations[i] : i \in DOMAIN mutations}

Chosen(M, ids) == {m \in M : m.id \in ids}

UpTo(M, x) == {m \in M : m.id <= x}

Needs(earlier, later) ==
  \/ "bulk" \in {later.kind, earlier.kind}
  \/ {later.kind, earlier.kind} = {"host"} /\ earlier.alias = later.alias
  \/ KeyDependency(earlier, later)

Typed ==
  /\ vault \in [inv: Inventory, base: Inventory, hasBase: BOOLEAN, pending: Seq(Mutation)]
  /\ remote \in [number: Nat, inv: Inventory]
  /\ intent \in [state: {"none", "prepared", "ready", "ambiguous", "finalization_failed"},
                 scope: {"none", "all", "only"}, ids: SUBSET Nat, target: Nat, prerequisite: Nat]
  /\ publisher \in [pc: {"idle", "prepared", "ready", "answered"}, blob: [number: Nat, inv: Inventory]]
  /\ recorded \in 0..MaxMutations /\ published \in 0..MaxPublications
  /\ refused \in [id: Nat, required: SUBSET Nat]

\* Changes are numbered in the order they were recorded.
Numbered ==
  /\ \A i, j \in DOMAIN vault.pending : i < j => vault.pending[i].id < vault.pending[j].id
  /\ \A i \in DOMAIN vault.pending : vault.pending[i].id \in 1..recorded
  /\ intent.ids \subseteq 1..recorded
  /\ refused.required \cup {refused.id} \subseteq 0..recorded

\* The ledger leads from the base to the inventory.
Explained ==
  /\ vault.hasBase <=> vault.pending # <<>>
  /\ vault.inv = Final(vault.base, Changes(vault.pending))

\* The first changes of the ledger, or one change that needs none before it.
Separable(M, scope, ids) ==
  /\ scope = "all" => \A m \in Chosen(M, ids), o \in M \ Chosen(M, ids) : m.id < o.id
  /\ scope = "only" => \A m \in Chosen(M, ids) : /\ ids = {m.id}
                                                 /\ \A o \in M : o.id < m.id => ~ Needs(o, m)

Stored == intent # NoIntent /\ remote.number = intent.target

\* The intent, the publisher and the server's blob.
Publication ==
  /\ intent.state = "none" => intent = NoIntent
  /\ intent # NoIntent => /\ intent.scope # "none"
                          /\ intent.target <= published /\ intent.prerequisite # intent.target
  /\ remote.number <= published
  /\ Separable(Changes(vault.pending), intent.scope, intent.ids)
  /\ publisher.pc = "idle" => publisher = Idle
  /\ publisher.pc # "idle" =>
       /\ intent # NoIntent /\ intent.ids \subseteq Ids(vault.pending)
       /\ publisher.blob.number = intent.target
       /\ publisher.blob.inv = Final(vault.base, Chosen(Changes(vault.pending), intent.ids))
       /\ intent.state = IF publisher.pc = "prepared" THEN "prepared" ELSE "ready"
       /\ Stored <=> publisher.pc = "answered"
  /\ intent.state = "prepared" => ~ Stored
  /\ intent.state = "finalization_failed" => Stored
  /\ remote.inv = IF Stored THEN Final(vault.base, Chosen(Changes(vault.pending), intent.ids)) ELSE vault.base

\* A change was recorded for the inventory before it: the connection it replaced, the keys
\* it replaced, which no other host used.
Follows(inv, m) ==
  /\ m.kind = "host" => m.before = inv.conns[m.alias]
  /\ m.kind # "bulk" => \A k \in DOMAIN m.delta : /\ m.delta[k].before = inv.keys[k]
                                                  /\ References(inv, k) \subseteq {m.alias}

\* The inventory after the changes up to number x.
Stage(base, M, x) == Final(base, UpTo(M, x))

\* Every inventory the ledger leads through has the keys of its connections and was
\* reviewed, host by host.
History(base, M) ==
  /\ \A x \in Nat : ImportOK(Stage(base, M, x))
  /\ \A m \in M : Follows(Stage(base, M, m.id - 1), m)

Reviewed(base, M) ==
  \A x \in Nat, a \in Names : Reach(Stage(base, M, x), a) \in seen[a]

\* What a refusal named contains what its changes need.
Planned ==
  \A e, l \in Changes(vault.pending) :
    e.id < l.id /\ Needs(e, l) /\ l.id \in refused.required \cup {refused.id}
      => e.id \in refused.required \cup {refused.id}

LedgerInv ==
  /\ Typed /\ Numbered /\ Explained /\ Publication /\ Planned
  /\ History(vault.base, Changes(vault.pending)) /\ Reviewed(vault.base, Changes(vault.pending))

-----------------------------------------------------------------------------
(* Induction over the natural numbers, without operator parameters.        *)

\* Every set of numbers that is not empty has a least element.
LEMMA LeastNumber == \A T \in SUBSET Nat : T # {} => \E x \in T : \A y \in T : x <= y
<1> DEFINE R == {ss \in Nat \X Nat : ss[1] < ss[2]}
<1>1. IsWellFoundedOn(R, Nat)
  BY NatLessThanWellFounded DEF OpToRel
<1> HIDE DEF R
<1> SUFFICES ASSUME NEW T \in SUBSET Nat, T # {} PROVE \E x \in T : \A y \in T : x <= y
  OBVIOUS
<1>2. PICK x \in T : \A y \in T : ~(<<y, x>> \in R)
  BY <1>1, WFMin
<1>3. \A y \in T : ~ (y < x)
  BY <1>2 DEF R
<1> QED BY <1>3

\* Induction over the natural numbers, for a set.
LEMMA SetInduction ==
  ASSUME NEW S, 0 \in S, \A n \in Nat : n \in S => n + 1 \in S
  PROVE  Nat \subseteq S
<1> SUFFICES ASSUME ~ (Nat \subseteq S) PROVE FALSE
  OBVIOUS
<1> DEFINE T == {n \in Nat : n \notin S}
<1>1. PICK x \in T : \A y \in T : x <= y
  <2>1. T \in SUBSET Nat /\ T # {}
    OBVIOUS
  <2> QED BY <2>1, LeastNumber
<1>2. x # 0
  OBVIOUS
<1>3. x - 1 \in Nat /\ x - 1 \notin T
  BY <1>1, <1>2
<1> QED BY <1>3

\* A step function of a recursion with values in a set, and a solution of the recursion.
Steps(F, N, X) == F \in [1..N -> [X -> X]]

Solution(g, F, N, X, a) == g \in [0..N -> X] /\ g[0] = a /\ \A n \in 1..N : g[n] = F[n][g[n - 1]]

\* Primitive recursion has a solution, with values in a set.
LEMMA Recursion ==
  ASSUME NEW N \in Nat, NEW X, NEW a \in X, NEW F, Steps(F, N, X)
  PROVE  \E g : Solution(g, F, N, X, a)
<1>0. F \in [1..N -> [X -> X]]
  BY DEF Steps
<1> USE <1>0
<1> DEFINE Solves(g, n) == g \in [0..n -> X] /\ g[0] = a /\ \A i \in 1..n : g[i] = F[i][g[i - 1]]
           S == {n \in Nat : n <= N => \E g \in [0..n -> X] : Solves(g, n)}
<1>1. 0 \in S
  <2>1. Solves([i \in 0..0 |-> a], 0)
    OBVIOUS
  <2> QED BY <2>1
<1>2. ASSUME NEW n \in Nat, n \in S PROVE n + 1 \in S
  <2> SUFFICES ASSUME n + 1 <= N PROVE \E g \in [0..(n + 1) -> X] : Solves(g, n + 1)
    OBVIOUS
  <2>1. PICK g \in [0..n -> X] : Solves(g, n)
    BY <1>2
  <2>2. n + 1 \in 1..N /\ g[n] \in X /\ F[n + 1] \in [X -> X]
    BY <2>1
  <2> DEFINE h == [i \in 0..(n + 1) |-> IF i = n + 1 THEN F[n + 1][g[n]] ELSE g[i]]
  <2>3. h \in [0..(n + 1) -> X]
    BY <2>1, <2>2
  <2>4. h[0] = a
    BY <2>1
  <2>5. ASSUME NEW i \in 1..(n + 1) PROVE h[i] = F[i][h[i - 1]]
    <3>1. h[i - 1] = g[i - 1] /\ i - 1 \in 0..n
      OBVIOUS
    <3>2. CASE i = n + 1
      <4>1. h[i] = F[n + 1][g[n]] /\ h[i - 1] = g[n]
        BY <3>1, <3>2
      <4> QED BY <3>2, <4>1
    <3>3. CASE i # n + 1
      BY <2>1, <3>1, <3>3
    <3> QED BY <3>2, <3>3
  <2> HIDE DEF h
  <2> QED BY <2>3, <2>4, <2>5
<1> HIDE DEF S
<1>3. N \in S
  BY <1>1, <1>2, SetInduction
<1> QED BY <1>3 DEF S, Solution

-----------------------------------------------------------------------------
(* The newest writer wins.                                                 *)

\* Pending changes as a set: typed, told apart by their numbers, finitely many.
Ledger(M) ==
  /\ M \subseteq Mutation
  /\ \A m, o \in M : m.id = o.id => m = o
  /\ \E N \in Nat : \A m \in M : m.id <= N

\* What a recorded change is made of (PendingMutation).
LEMMA MutationFacts ==
  ASSUME NEW m \in Mutation
  PROVE  /\ m.id \in Nat /\ m.kind \in {"host", "key", "bulk"} /\ m.bulk \in Inventory
         /\ m.before \in Connection \cup {NoConnection} /\ m.after \in Connection \cup {NoConnection}
         /\ m.kind = "host" <=> m.alias \in Names
         /\ m.kind # "host" => m.alias = NoName /\ m.before = NoConnection /\ m.after = NoConnection
         /\ DOMAIN m.delta \subseteq Names
         /\ \A k \in DOMAIN m.delta : m.delta[k].before \in 0..Materials /\ m.delta[k].after \in 0..Materials
         /\ \A k \in DOMAIN m.delta : m.delta[k].before # m.delta[k].after
<1>1. PICK D \in SUBSET Names : m.delta \in [D -> KeyEdit]
  BY DEF Mutation
<1>2. DOMAIN m.delta \subseteq Names
  BY <1>1
<1>3. \A k \in DOMAIN m.delta : m.delta[k].before \in 0..Materials /\ m.delta[k].after \in 0..Materials
  BY <1>1 DEF KeyEdit
<1> QED BY <1>2, <1>3 DEF Mutation

\* A non-empty set of changes has a newest one.
LEMMA NewestExists ==
  ASSUME NEW M, Ledger(M), NEW S \in SUBSET M, S # {}
  PROVE  Newest(S) \in S /\ \A o \in S : o.id <= Newest(S).id
<1>1. PICK N \in Nat : \A m \in M : m.id <= N
  BY DEF Ledger
<1>2. \A m \in S : m.id \in Nat /\ m.id <= N
  BY <1>1, MutationFacts DEF Ledger
<1> DEFINE T == {N - m.id : m \in S}
<1>3. T \in SUBSET Nat /\ T # {}
  BY <1>2
<1>4. PICK x \in T : \A y \in T : x <= y
  BY <1>3, LeastNumber
<1>5. PICK m \in S : x = N - m.id
  BY <1>4
<1>6. \A o \in S : o.id <= m.id
  <2> SUFFICES ASSUME NEW o \in S PROVE o.id <= m.id
    OBVIOUS
  <2>1. N - m.id <= N - o.id
    BY <1>4, <1>5
  <2> QED BY <1>2, <2>1
<1> HIDE DEF T
<1>7. \E n \in S : \A o \in S : o.id <= n.id
  BY <1>6
<1> QED BY <1>7 DEF Newest

\* A place that no change writes keeps its value (applyMutation).
LEMMA FinalNone ==
  ASSUME NEW inv, NEW M, NEW l, \A o \in M : ~ Writes(o, l)
  PROVE  FinalValue(inv, M, l) = Value(inv, l)
BY DEF FinalValue

\* A place holds what its newest writer wrote (project).
LEMMA FinalLast ==
  ASSUME NEW inv, NEW M, Ledger(M), NEW l, NEW w \in M, Writes(w, l), \A o \in M : Writes(o, l) => o.id <= w.id
  PROVE  FinalValue(inv, M, l) = Written(w, l)
<1> DEFINE W == {m \in M : Writes(m, l)}
<1>1. w \in W /\ W \in SUBSET M
  OBVIOUS
<1>2. Newest(W) \in W /\ w.id <= Newest(W).id /\ Newest(W).id <= w.id
  BY <1>1, NewestExists
<1>3. Newest(W).id \in Nat /\ w.id \in Nat /\ Newest(W) \in M
  BY <1>2, MutationFacts DEF Ledger
<1>4. Newest(W) = w
  BY <1>2, <1>3 DEF Ledger
<1> QED BY <1>1, <1>4 DEF FinalValue

\* Either no change writes a place, or one of them is its newest writer.
LEMMA FinalCases ==
  ASSUME NEW M, Ledger(M), NEW l
  PROVE  \/ \A o \in M : ~ Writes(o, l)
         \/ \E w \in M : Writes(w, l) /\ \A o \in M : Writes(o, l) => o.id <= w.id
<1> DEFINE W == {m \in M : Writes(m, l)}
<1>1. W \in SUBSET M
  OBVIOUS
<1>2. CASE W = {}
  BY <1>2
<1>3. CASE W # {}
  <2>1. Newest(W) \in W /\ \A o \in W : o.id <= Newest(W).id
    BY <1>1, <1>3, NewestExists
  <2> QED BY <2>1
<1> QED BY <1>2, <1>3

\* Some of the pending changes make a ledger, too (projectTransactionIDs).
LEMMA SubLedger ==
  ASSUME NEW M, Ledger(M), NEW S \in SUBSET M
  PROVE  Ledger(S)
BY DEF Ledger

\* The values places hold.
LEMMA PlaceFacts ==
  /\ \A a \in Names : <<"conn", a>> \in Places /\ <<"key", a>> \in Places
  /\ \A l \in Places : l[1] \in {"conn", "key"} /\ l[2] \in Names /\ l = <<l[1], l[2]>>
BY DEF Places

\* Inventories that agree on every place are equal.
LEMMA InventoryEqual ==
  ASSUME NEW inv \in Inventory, NEW other \in Inventory, \A l \in Places : Value(inv, l) = Value(other, l)
  PROVE  inv = other
<1>1. \A a \in Names : inv.conns[a] = other.conns[a]
  <2> SUFFICES ASSUME NEW a \in Names PROVE inv.conns[a] = other.conns[a]
    OBVIOUS
  <2> DEFINE l == <<"conn", a>>
  <2>1. l \in Places
    BY PlaceFacts
  <2>2. Value(inv, l) = inv.conns[a] /\ Value(other, l) = other.conns[a]
    BY DEF Value
  <2> QED BY <2>1, <2>2
<1>2. \A a \in Names : inv.keys[a] = other.keys[a]
  <2> SUFFICES ASSUME NEW a \in Names PROVE inv.keys[a] = other.keys[a]
    OBVIOUS
  <2> DEFINE l == <<"key", a>>
  <2>1. l \in Places
    BY PlaceFacts
  <2>2. Value(inv, l) = inv.keys[a] /\ Value(other, l) = other.keys[a]
    BY DEF Value
  <2> QED BY <2>1, <2>2
<1>3. inv.conns = other.conns /\ inv.keys = other.keys
  BY <1>1, <1>2 DEF Inventory
<1> QED BY <1>3 DEF Inventory

\* A change writes connections to aliases and material to keys.
LEMMA WrittenType ==
  ASSUME NEW m \in Mutation, NEW l \in Places, Writes(m, l)
  PROVE  /\ l[1] = "conn" => Written(m, l) \in Connection \cup {NoConnection}
         /\ l[1] = "key" => Written(m, l) \in 0..Materials
<1>1. l[1] \in {"conn", "key"} /\ l[2] \in Names
  BY PlaceFacts
<1>2. CASE m.kind = "bulk"
  <2>1. m.bulk \in Inventory
    BY MutationFacts
  <2> QED BY <1>1, <1>2, <2>1 DEF Written, Value, Inventory
<1>3. CASE m.kind # "bulk"
  BY <1>1, <1>3, MutationFacts DEF Written, Writes
<1> QED BY <1>2, <1>3

\* What the newest writers leave is an inventory.
LEMMA FinalType ==
  ASSUME NEW inv \in Inventory, NEW M, Ledger(M)
  PROVE  Final(inv, M) \in Inventory
<1>1. ASSUME NEW a \in Names PROVE FinalValue(inv, M, <<"conn", a>>) \in Connection \cup {NoConnection}
  <2> DEFINE l == <<"conn", a>>
  <2>1. l \in Places /\ l[1] = "conn" /\ Value(inv, l) \in Connection \cup {NoConnection}
    BY PlaceFacts DEF Value, Inventory
  <2> SUFFICES FinalValue(inv, M, l) \in Connection \cup {NoConnection}
    OBVIOUS
  <2> HIDE DEF l
  <2>2. CASE \A o \in M : ~ Writes(o, l)
    <3>1. FinalValue(inv, M, l) = Value(inv, l)
      BY <2>2, FinalNone
    <3> QED BY <2>1, <3>1
  <2>3. ASSUME NEW w \in M, Writes(w, l), \A o \in M : Writes(o, l) => o.id <= w.id
        PROVE  FinalValue(inv, M, l) \in Connection \cup {NoConnection}
    <3>1. FinalValue(inv, M, l) = Written(w, l)
      BY <2>3, FinalLast
    <3>2. w \in Mutation
      BY DEF Ledger
    <3> QED BY <2>1, <2>3, <3>1, <3>2, WrittenType
  <2>5. \/ \A o \in M : ~ Writes(o, l)
        \/ \E w \in M : Writes(w, l) /\ \A o \in M : Writes(o, l) => o.id <= w.id
    BY FinalCases
  <2> QED BY <2>2, <2>3, <2>5
<1>2. ASSUME NEW a \in Names PROVE FinalValue(inv, M, <<"key", a>>) \in 0..Materials
  <2> DEFINE l == <<"key", a>>
  <2>1. l \in Places /\ l[1] = "key" /\ Value(inv, l) \in 0..Materials
    BY PlaceFacts DEF Value, Inventory
  <2> SUFFICES FinalValue(inv, M, l) \in 0..Materials
    OBVIOUS
  <2> HIDE DEF l
  <2>2. CASE \A o \in M : ~ Writes(o, l)
    <3>1. FinalValue(inv, M, l) = Value(inv, l)
      BY <2>2, FinalNone
    <3> QED BY <2>1, <3>1
  <2>3. ASSUME NEW w \in M, Writes(w, l), \A o \in M : Writes(o, l) => o.id <= w.id
        PROVE  FinalValue(inv, M, l) \in 0..Materials
    <3>1. FinalValue(inv, M, l) = Written(w, l)
      BY <2>3, FinalLast
    <3>2. w \in Mutation
      BY DEF Ledger
    <3> QED BY <2>1, <2>3, <3>1, <3>2, WrittenType
  <2>5. \/ \A o \in M : ~ Writes(o, l)
        \/ \E w \in M : Writes(w, l) /\ \A o \in M : Writes(o, l) => o.id <= w.id
    BY FinalCases
  <2> QED BY <2>2, <2>3, <2>5
<1> QED BY <1>1, <1>2 DEF Final, Inventory

\* The places of Final hold their final values.
LEMMA ValueOfFinal ==
  ASSUME NEW inv, NEW M, NEW l \in Places
  PROVE  Value(Final(inv, M), l) = FinalValue(inv, M, l)
<1>1. l[1] \in {"conn", "key"} /\ l[2] \in Names /\ l = <<l[1], l[2]>>
  BY PlaceFacts
<1>2. CASE l[1] = "conn"
  <2>1. Value(Final(inv, M), l) = FinalValue(inv, M, <<"conn", l[2]>>)
    BY <1>1, <1>2 DEF Value, Final
  <2> QED BY <1>1, <1>2, <2>1
<1>3. CASE l[1] = "key"
  <2>1. Value(Final(inv, M), l) = FinalValue(inv, M, <<"key", l[2]>>)
    BY <1>1, <1>3 DEF Value, Final
  <2> QED BY <1>1, <1>3, <2>1
<1> QED BY <1>1, <1>2, <1>3

\* ApplyMutation overwrites the places of the change and leaves the others alone.
LEMMA ApplyValue ==
  ASSUME NEW inv \in Inventory, NEW m \in Mutation
  PROVE  /\ ApplyMutation(inv, m) \in Inventory
         /\ \A l \in Places : Value(ApplyMutation(inv, m), l) = IF Writes(m, l) THEN Written(m, l) ELSE Value(inv, l)
<1> DEFINE keys == [k \in Names |-> IF k \in DOMAIN m.delta THEN m.delta[k].after ELSE inv.keys[k]]
           after == ApplyMutation(inv, m)
<1>0. keys \in [Names -> 0..Materials]
  BY MutationFacts DEF Inventory
<1>1. CASE m.kind = "bulk"
  <2>1. after = m.bulk /\ m.bulk \in Inventory
    BY <1>1, MutationFacts DEF ApplyMutation
  <2>2. \A l \in Places : Value(after, l) = Written(m, l) /\ Writes(m, l)
    BY <1>1, <2>1 DEF Written, Writes
  <2> QED BY <2>1, <2>2
<1>2. CASE m.kind = "key"
  <2>1. after = [inv EXCEPT !.keys = keys]
    BY <1>2 DEF ApplyMutation
  <2>2. after \in Inventory /\ after.keys = keys /\ after.conns = inv.conns
    BY <1>0, <2>1 DEF Inventory
  <2>3. ASSUME NEW l \in Places PROVE Value(after, l) = IF Writes(m, l) THEN Written(m, l) ELSE Value(inv, l)
    <3>1. l[1] \in {"conn", "key"} /\ l[2] \in Names
      BY PlaceFacts
    <3> QED BY <1>2, <2>2, <3>1 DEF Value, Writes, Written
  <2> QED BY <2>2, <2>3
<1>3. CASE m.kind = "host"
  <2>1. after = [conns |-> [inv.conns EXCEPT ![m.alias] = m.after], keys |-> keys] /\ m.alias \in Names
    BY <1>3, MutationFacts DEF ApplyMutation
  <2>2. /\ after.conns = [inv.conns EXCEPT ![m.alias] = m.after] /\ after.keys = keys
        /\ m.after \in Connection \cup {NoConnection}
    BY <2>1, MutationFacts
  <2>3. after \in Inventory
    BY <1>0, <2>1, <2>2 DEF Inventory
  <2>4. ASSUME NEW l \in Places PROVE Value(after, l) = IF Writes(m, l) THEN Written(m, l) ELSE Value(inv, l)
    <3>1. l[1] \in {"conn", "key"} /\ l[2] \in Names
      BY PlaceFacts
    <3>2. after.conns[l[2]] = IF l[2] = m.alias THEN m.after ELSE inv.conns[l[2]]
      BY <2>2, <3>1 DEF Inventory
    <3> QED BY <1>3, <2>2, <3>1, <3>2 DEF Value, Writes, Written
  <2> QED BY <2>3, <2>4
<1> QED BY <1>1, <1>2, <1>3, MutationFacts

\* Without changes the inventory stays as it is.
LEMMA FinalEmpty ==
  ASSUME NEW inv \in Inventory
  PROVE  Final(inv, {}) = inv /\ Ledger({})
<1>1. Ledger({})
  BY DEF Ledger
<1>2. Final(inv, {}) \in Inventory
  BY <1>1, FinalType
<1>3. ASSUME NEW l \in Places PROVE Value(Final(inv, {}), l) = Value(inv, l)
  <2>1. FinalValue(inv, {}, l) = Value(inv, l)
    BY FinalNone
  <2> QED BY <2>1, ValueOfFinal
<1> QED BY <1>1, <1>2, <1>3, InventoryEqual

\* A newer change is applied last.
LEMMA FinalAdd ==
  ASSUME NEW inv \in Inventory, NEW M, Ledger(M), NEW m \in Mutation, \A o \in M : o.id < m.id
  PROVE  /\ Ledger(M \cup {m})
         /\ Final(inv, M \cup {m}) = ApplyMutation(Final(inv, M), m)
<1> DEFINE A == M \cup {m}
<1>0. m.id \in Nat /\ \A o \in M : o.id \in Nat /\ o \in Mutation
  BY MutationFacts DEF Ledger
<1>1. Ledger(A)
  <2>1. \A o \in A : o.id <= m.id
    BY <1>0
  <2>2. \A o, r \in A : o.id = r.id => o = r
    BY <1>0 DEF Ledger
  <2> QED BY <1>0, <2>1, <2>2 DEF Ledger
<1> HIDE DEF A
<1>2. Final(inv, A) \in Inventory /\ Final(inv, M) \in Inventory
  BY <1>1, FinalType
<1>3. ApplyMutation(Final(inv, M), m) \in Inventory
  BY <1>2, ApplyValue
<1>4. ASSUME NEW l \in Places PROVE Value(Final(inv, A), l) = Value(ApplyMutation(Final(inv, M), m), l)
  <2>1. /\ Value(Final(inv, A), l) = FinalValue(inv, A, l)
        /\ Value(ApplyMutation(Final(inv, M), m), l) = IF Writes(m, l) THEN Written(m, l) ELSE FinalValue(inv, M, l)
    BY <1>2, ApplyValue, ValueOfFinal
  <2>2. CASE Writes(m, l)
    <3>1. m \in A /\ \A o \in A : Writes(o, l) => o.id <= m.id
      BY <1>0 DEF A
    <3>2. FinalValue(inv, A, l) = Written(m, l)
      BY <1>1, <2>2, <3>1, FinalLast
    <3> QED BY <2>1, <2>2, <3>2
  <2>3. CASE ~ Writes(m, l)
    <3>1. CASE \A o \in M : ~ Writes(o, l)
      <4>1. \A o \in A : ~ Writes(o, l)
        BY <2>3, <3>1 DEF A
      <4>2. FinalValue(inv, A, l) = Value(inv, l) /\ FinalValue(inv, M, l) = Value(inv, l)
        BY <3>1, <4>1, FinalNone
      <4> QED BY <2>1, <2>3, <4>2
    <3>2. ASSUME NEW w \in M, Writes(w, l), \A o \in M : Writes(o, l) => o.id <= w.id
          PROVE  FinalValue(inv, A, l) = FinalValue(inv, M, l)
      <4>1. w \in A /\ \A o \in A : Writes(o, l) => o.id <= w.id
        BY <2>3, <3>2 DEF A
      <4>2. FinalValue(inv, A, l) = Written(w, l)
        BY <1>1, <3>2, <4>1, FinalLast
      <4>3. FinalValue(inv, M, l) = Written(w, l)
        BY <3>2, FinalLast
      <4> QED BY <4>2, <4>3
    <3>3. \/ \A o \in M : ~ Writes(o, l)
          \/ \E w \in M : Writes(w, l) /\ \A o \in M : Writes(o, l) => o.id <= w.id
      BY FinalCases
    <3>4. CASE \E w \in M : Writes(w, l) /\ \A o \in M : Writes(o, l) => o.id <= w.id
      <4>1. FinalValue(inv, A, l) = FinalValue(inv, M, l)
        BY <3>2, <3>4
      <4> QED BY <2>1, <2>3, <4>1
    <3> QED BY <3>1, <3>3, <3>4
  <2> QED BY <2>2, <2>3
<1>5. Final(inv, A) = ApplyMutation(Final(inv, M), m)
  BY <1>2, <1>3, <1>4, InventoryEqual
<1> QED BY <1>1, <1>5 DEF A

\* Changes that share no place with the older ones left behind may go first.
LEMMA FinalSplit ==
  ASSUME NEW inv \in Inventory, NEW M, Ledger(M), NEW S \in SUBSET M,
         \A m \in S, o \in M \ S : o.id < m.id => \A l \in Places : ~ (Writes(m, l) /\ Writes(o, l))
  PROVE  Final(Final(inv, S), M \ S) = Final(inv, M)
<1> DEFINE R == M \ S
           B == Final(inv, S)
<1>0. Ledger(S) /\ Ledger(R) /\ \A m \in M : m.id \in Nat
  BY SubLedger, MutationFacts DEF Ledger
<1>1. B \in Inventory
  BY <1>0, FinalType
<1>2. Final(B, R) \in Inventory /\ Final(inv, M) \in Inventory
  BY <1>0, <1>1, FinalType
<1>3. ASSUME NEW l \in Places PROVE Value(Final(B, R), l) = Value(Final(inv, M), l)
  <2>1. Value(Final(B, R), l) = FinalValue(B, R, l) /\ Value(B, l) = FinalValue(inv, S, l)
        /\ Value(Final(inv, M), l) = FinalValue(inv, M, l)
    BY ValueOfFinal
  <2> SUFFICES FinalValue(B, R, l) = FinalValue(inv, M, l)
    BY <2>1
  <2>2. CASE \A o \in M : ~ Writes(o, l)
    <3>1. FinalValue(inv, M, l) = Value(inv, l)
      BY <2>2, FinalNone
    <3>2. FinalValue(inv, S, l) = Value(inv, l)
      BY <2>2, FinalNone
    <3>3. FinalValue(B, R, l) = Value(B, l)
      BY <2>2, FinalNone
    <3> QED BY <2>1, <3>1, <3>2, <3>3
  <2>3. ASSUME NEW w \in M, Writes(w, l), \A o \in M : Writes(o, l) => o.id <= w.id
        PROVE  FinalValue(B, R, l) = FinalValue(inv, M, l)
    <3>1. FinalValue(inv, M, l) = Written(w, l)
      BY <2>3, FinalLast
    <3>2. CASE w \in S
      <4>1. \A o \in R : ~ Writes(o, l)
        <5> SUFFICES ASSUME NEW o \in R, Writes(o, l) PROVE FALSE
          OBVIOUS
        <5>1. o.id <= w.id /\ o.id # w.id
          BY <2>3, <3>2 DEF Ledger
        <5>2. o.id < w.id
          BY <1>0, <5>1
        <5> QED BY <2>3, <3>2, <5>2
      <4>2. FinalValue(B, R, l) = Value(B, l)
        BY <4>1, FinalNone
      <4>3. FinalValue(inv, S, l) = Written(w, l)
        BY <1>0, <2>3, <3>2, FinalLast
      <4> QED BY <2>1, <3>1, <4>2, <4>3
    <3>3. CASE w \in R
      <4>1. FinalValue(B, R, l) = Written(w, l)
        BY <1>0, <2>3, <3>3, FinalLast
      <4> QED BY <3>1, <4>1
    <3> QED BY <3>2, <3>3
  <2>4. \/ \A o \in M : ~ Writes(o, l)
        \/ \E w \in M : Writes(w, l) /\ \A o \in M : Writes(o, l) => o.id <= w.id
    BY FinalCases
  <2> QED BY <2>2, <2>3, <2>4
<1> HIDE DEF B, R
<1>4. Final(B, R) = Final(inv, M)
  BY <1>2, <1>3, InventoryEqual
<1> QED BY <1>4 DEF B, R

-----------------------------------------------------------------------------
(* Replaying a ledger, and taking changes out of it.                       *)

Increasing(ms) == \A i, j \in DOMAIN ms : i < j => ms[i].id < ms[j].id

\* A number is the last one up to itself.
LEMMA LastNumber ==
  ASSUME NEW n \in Nat, n # 0
  PROVE  n \in 1..n /\ \A i \in 1..n : i = n \/ i < n
OBVIOUS

\* A ledger in order, as a set of changes.
LEMMA ChangesLedger ==
  ASSUME NEW ms \in Seq(Mutation), Increasing(ms)
  PROVE  /\ Ledger(Changes(ms)) /\ DOMAIN ms = 1..Len(ms) /\ Len(ms) \in Nat
         /\ \A i \in 1..Len(ms) : ms[i] \in Mutation /\ ms[i].id \in Nat
<1>1. DOMAIN ms = 1..Len(ms) /\ Len(ms) \in Nat /\ \A i \in 1..Len(ms) : ms[i] \in Mutation
  OBVIOUS
<1>2. \A i \in 1..Len(ms) : ms[i].id \in Nat
  BY <1>1, MutationFacts
<1>3. \E N \in Nat : \A m \in Changes(ms) : m.id <= N
  <2>1. CASE Len(ms) = 0
    BY <1>1, <2>1 DEF Changes
  <2>2. CASE Len(ms) # 0
    <3>1. PICK n \in 1..Len(ms) : n = Len(ms)
      <4>1. Len(ms) \in 1..Len(ms)
        <5> HIDE <1>1
        <5>1. Len(ms) \in Nat
          BY <1>1
        <5> QED BY <5>1, <2>2, LastNumber, Zenon
      <4> QED BY <4>1, Zenon
    <3>2. \A i \in 1..Len(ms) : ms[i].id <= ms[n].id
      <4> SUFFICES ASSUME NEW i \in 1..Len(ms) PROVE ms[i].id <= ms[n].id
        OBVIOUS
      <4>1. CASE i = n
        BY <1>2, <3>1, <4>1
      <4>2. CASE i < n
        BY <1>1, <1>2, <3>1, <4>2 DEF Increasing
      <4>3. i = n \/ i < n
        <5>1. Len(ms) \in Nat
          BY <1>1
        <5> QED BY <2>2, <3>1, <5>1, LastNumber, Zenon
      <4> QED BY <4>1, <4>2, <4>3
    <3> QED BY <1>1, <1>2, <3>1, <3>2 DEF Changes
  <2> QED BY <2>1, <2>2
<1>4. \A m, o \in Changes(ms) : m.id = o.id => m = o
  <2> SUFFICES ASSUME NEW i \in DOMAIN ms, NEW j \in DOMAIN ms, ms[i].id = ms[j].id PROVE ms[i] = ms[j]
    BY DEF Changes
  <2>1. ~ (i < j) /\ ~ (j < i)
    BY <1>1, <1>2 DEF Increasing
  <2>2. i = j
    BY <1>1, <2>1
  <2> QED BY <2>2
<1>5. Changes(ms) \subseteq Mutation
  BY <1>1 DEF Changes
<1> QED BY <1>1, <1>2, <1>3, <1>4, <1>5 DEF Ledger

\* The recursion of Replay has its solution.
LEMMA ReplayRecursion ==
  ASSUME NEW inv \in Inventory, NEW ms \in Seq(Mutation)
  PROVE  \E g : /\ g[0] = inv /\ \A n \in 1..Len(ms) : g[n] = ApplyMutation(g[n - 1], ms[n])
                /\ Replay(inv, ms) = g[Len(ms)]
<1>0. PICK N \in Nat : N = Len(ms)
  OBVIOUS
<1> DEFINE F == [i \in 1..N |-> [v \in Inventory |-> ApplyMutation(v, ms[i])]]
<1>1. N \in Nat /\ \A i \in 1..N : ms[i] \in Mutation
  BY <1>0
<1>2. Steps(F, N, Inventory)
  BY <1>1, ApplyValue DEF Steps
<1>a. PICK g : Solution(g, F, N, Inventory, inv)
  <2> HIDE DEF F
  <2> QED BY <1>1, <1>2, Recursion
<1>3. g \in [0..N -> Inventory] /\ g[0] = inv /\ \A n \in 1..N : g[n] = F[n][g[n - 1]]
  BY <1>a DEF Solution
<1>4. \A n \in 1..N : g[n] = ApplyMutation(g[n - 1], ms[n])
  <2> SUFFICES ASSUME NEW n \in 1..N PROVE g[n] = ApplyMutation(g[n - 1], ms[n])
    OBVIOUS
  <2>1. g[n - 1] \in Inventory
    BY <1>1, <1>3
  <2> QED BY <1>3, <2>1
<1> HIDE DEF F
<1>5. g = [n \in 0..N |-> IF n = 0 THEN inv ELSE ApplyMutation(g[n - 1], ms[n])]
  BY <1>1, <1>3, <1>4
<1> DEFINE after == CHOOSE f : f = [n \in 0..Len(ms) |-> IF n = 0 THEN inv ELSE ApplyMutation(f[n - 1], ms[n])]
<1>6. after = [n \in 0..Len(ms) |-> IF n = 0 THEN inv ELSE ApplyMutation(after[n - 1], ms[n])]
  BY <1>0, <1>5
<1>7. Replay(inv, ms) = after[Len(ms)]
  BY DEF Replay
<1> HIDE DEF after
<1>8. after[0] = inv
  BY <1>1, <1>6
<1>9. \A n \in 1..Len(ms) : after[n] = ApplyMutation(after[n - 1], ms[n])
  BY <1>1, <1>6
<1> QED BY <1>7, <1>8, <1>9

\* Replaying a ledger in order lets the newest writer win.
LEMMA ReplayIsFinal ==
  ASSUME NEW inv \in Inventory, NEW ms \in Seq(Mutation), Increasing(ms)
  PROVE  Replay(inv, ms) = Final(inv, Changes(ms))
<1>0. Ledger(Changes(ms)) /\ DOMAIN ms = 1..Len(ms) /\ Len(ms) \in Nat /\ \A i \in 1..Len(ms) : ms[i] \in Mutation
  BY ChangesLedger
<1>1. PICK g : /\ g[0] = inv /\ \A n \in 1..Len(ms) : g[n] = ApplyMutation(g[n - 1], ms[n])
               /\ Replay(inv, ms) = g[Len(ms)]
  BY ReplayRecursion
<1> DEFINE First(n) == {ms[i] : i \in 1..n}
           S == {n \in Nat : n <= Len(ms) => g[n] = Final(inv, First(n))}
<1>2. 0 \in S
  <2>1. First(0) = {}
    OBVIOUS
  <2> QED BY <1>1, <2>1, FinalEmpty
<1>3. ASSUME NEW n \in Nat, n \in S PROVE n + 1 \in S
  <2> SUFFICES ASSUME n + 1 <= Len(ms) PROVE g[n + 1] = Final(inv, First(n + 1))
    OBVIOUS
  <2>1. g[n] = Final(inv, First(n)) /\ g[n + 1] = ApplyMutation(g[n], ms[n + 1])
    BY <1>0, <1>1, <1>3
  <2>2. First(n + 1) = First(n) \cup {ms[n + 1]}
    OBVIOUS
  <2>3. Ledger(First(n))
    <3>1. First(n) \subseteq Changes(ms)
      BY <1>0 DEF Changes
    <3> HIDE DEF First
    <3> QED BY <1>0, <3>1, SubLedger
  <2>4. \A o \in First(n) : o.id < ms[n + 1].id
    BY <1>0 DEF Increasing
  <2>5. ms[n + 1] \in Mutation
    BY <1>0
  <2> HIDE DEF First
  <2> QED BY <2>1, <2>2, <2>3, <2>4, <2>5, FinalAdd
<1> HIDE DEF S
<1>4. Len(ms) \in S
  BY <1>0, <1>2, <1>3, SetInduction
<1>5. g[Len(ms)] = Final(inv, First(Len(ms)))
  BY <1>0, <1>4 DEF S
<1>6. First(Len(ms)) = Changes(ms)
  BY <1>0 DEF Changes
<1> QED BY <1>1, <1>5, <1>6

\* Appending a newer change adds it to the set and keeps the order (appendMutation).
LEMMA AppendFacts ==
  ASSUME NEW s \in Seq(Mutation), Increasing(s), NEW m \in Mutation, \A o \in Changes(s) : o.id < m.id
  PROVE  /\ Append(s, m) \in Seq(Mutation) /\ Increasing(Append(s, m)) /\ Append(s, m) # <<>>
         /\ Changes(Append(s, m)) = Changes(s) \cup {m}
<1> DEFINE t == Append(s, m)
<1>1. /\ t \in Seq(Mutation) /\ Len(t) = Len(s) + 1 /\ Len(s) \in Nat
      /\ DOMAIN s = 1..Len(s) /\ DOMAIN t = 1..(Len(s) + 1)
  OBVIOUS
<1>2. /\ t[Len(s) + 1] = m
      /\ \A i \in 1..Len(s) : t[i] = s[i] /\ s[i] \in Changes(s)
  BY <1>1 DEF Changes
<1>3. PICK n \in Nat : n = Len(s)
  BY <1>1
<1> HIDE DEF t
<1>4. Changes(t) = Changes(s) \cup {m}
  <2>1. \A i \in DOMAIN t : i \in DOMAIN s \/ i = n + 1
    BY <1>1, <1>3
  <2>2. \A i \in DOMAIN s : i \in DOMAIN t
    BY <1>1, <1>3
  <2>3. n + 1 \in DOMAIN t
    BY <1>1, <1>3
  <2> QED BY <1>1, <1>2, <1>3, <2>1, <2>2, <2>3 DEF Changes
<1>5. Increasing(t)
  <2> SUFFICES ASSUME NEW i \in DOMAIN t, NEW j \in DOMAIN t, i < j PROVE t[i].id < t[j].id
    BY DEF Increasing
  <2>1. i \in 1..n /\ (j \in 1..n \/ j = n + 1)
    BY <1>1, <1>3
  <2>2. t[i] = s[i] /\ s[i] \in Changes(s)
    BY <1>2, <1>3, <2>1
  <2>3. CASE j \in 1..n
    <3>1. i \in DOMAIN s /\ j \in DOMAIN s /\ t[j] = s[j]
      BY <1>1, <1>2, <1>3, <2>1, <2>3
    <3> QED BY <2>2, <3>1 DEF Increasing
  <2>4. CASE j = n + 1
    BY <1>2, <1>3, <2>2, <2>4
  <2> QED BY <2>1, <2>3, <2>4
<1>6. t # <<>>
  <2>1. Len(t) # 0
    BY <1>1, <1>3
  <2> QED BY <2>1
<1> QED BY <1>1, <1>4, <1>5, <1>6 DEF t

\* The recursion of Selected has its solution.
LEMMA SelectedRecursion ==
  ASSUME NEW ms \in Seq(Mutation), NEW ids
  PROVE  \E g : /\ g[0] = <<>>
                /\ \A n \in 1..Len(ms) : g[n] = IF ms[n].id \in ids THEN Append(g[n - 1], ms[n]) ELSE g[n - 1]
                /\ Selected(ms, ids) = g[Len(ms)]
<1>0. PICK N \in Nat : N = Len(ms)
  OBVIOUS
<1> DEFINE X == Seq(Mutation)
           F == [i \in 1..N |-> [s \in X |-> IF ms[i].id \in ids THEN Append(s, ms[i]) ELSE s]]
<1>1. N \in Nat /\ \A i \in 1..N : ms[i] \in Mutation
  BY <1>0
<1>2. Steps(F, N, X)
  <2>1. \A i \in 1..N, s \in X : Append(s, ms[i]) \in X
    BY <1>1
  <2> HIDE DEF X
  <2> QED BY <1>1, <2>1 DEF Steps
<1>b. <<>> \in X
  OBVIOUS
<1>a. PICK g : Solution(g, F, N, X, <<>>)
  <2> HIDE DEF F, X
  <2> QED BY <1>1, <1>2, <1>b, Recursion
<1> HIDE DEF X
<1>3. g \in [0..N -> X] /\ g[0] = <<>> /\ \A n \in 1..N : g[n] = F[n][g[n - 1]]
  BY <1>a DEF Solution
<1> DEFINE Keep(p, n) == IF ms[n].id \in ids THEN Append(p, ms[n]) ELSE p
<1>4. \A n \in 1..N : g[n] = Keep(g[n - 1], n)
  <2> SUFFICES ASSUME NEW n \in 1..N PROVE g[n] = Keep(g[n - 1], n)
    OBVIOUS
  <2>1. g[n - 1] \in X
    BY <1>1, <1>3
  <2> QED BY <1>3, <2>1
<1> HIDE DEF F
<1> DEFINE Is(f) == f = [n \in 0..N |-> IF n = 0 THEN <<>> ELSE Keep(f[n - 1], n)]
           kept == CHOOSE f : Is(f)
<1>7. Selected(ms, ids) = kept[Len(ms)]
  BY <1>0 DEF Selected
<1> HIDE DEF Keep
<1>5. Is(g)
  <2>1. \A n \in 0..N : n # 0 => n \in 1..N
    BY <1>1
  <2>2. \A n \in 0..N : g[n] = IF n = 0 THEN <<>> ELSE Keep(g[n - 1], n)
    BY <1>3, <1>4, <2>1
  <2>3. g = [n \in 0..N |-> g[n]]
    BY <1>3
  <2> QED BY <2>2, <2>3
<1>6. Is(kept)
  <2> HIDE DEF Is
  <2> QED BY <1>5
<1> HIDE DEF kept
<1>8. kept[0] = <<>>
  BY <1>1, <1>6
<1>9. \A n \in 1..N : kept[n] = Keep(kept[n - 1], n)
  BY <1>1, <1>6
<1> QED BY <1>0, <1>7, <1>8, <1>9 DEF Keep

\* Selecting keeps exactly the changes with these numbers, in ledger order.
LEMMA SelectedFacts ==
  ASSUME NEW ms \in Seq(Mutation), Increasing(ms), NEW ids
  PROVE  /\ Selected(ms, ids) \in Seq(Mutation) /\ Increasing(Selected(ms, ids))
         /\ Changes(Selected(ms, ids)) = Chosen(Changes(ms), ids)
<1>0. DOMAIN ms = 1..Len(ms) /\ Len(ms) \in Nat /\ \A i \in 1..Len(ms) : ms[i] \in Mutation
  BY ChangesLedger
<1>1. PICK g : /\ g[0] = <<>>
               /\ \A n \in 1..Len(ms) : g[n] = IF ms[n].id \in ids THEN Append(g[n - 1], ms[n]) ELSE g[n - 1]
               /\ Selected(ms, ids) = g[Len(ms)]
  BY SelectedRecursion
<1> DEFINE First(n) == {ms[i] : i \in {j \in 1..n : ms[j].id \in ids}}
           Good(n) == g[n] \in Seq(Mutation) /\ Increasing(g[n]) /\ Changes(g[n]) = First(n)
           S == {n \in Nat : n <= Len(ms) => Good(n)}
<1>2. 0 \in S
  <2>1. <<>> \in Seq(Mutation) /\ Increasing(<<>>) /\ Changes(<<>>) = {}
    BY DEF Increasing, Changes
  <2>2. First(0) = {}
    OBVIOUS
  <2> HIDE DEF First
  <2> QED BY <1>1, <2>1, <2>2
<1>3. ASSUME NEW n \in Nat, n \in S PROVE n + 1 \in S
  <2> SUFFICES ASSUME n + 1 <= Len(ms) PROVE Good(n + 1)
    OBVIOUS
  <2>1. Good(n) /\ n + 1 \in 1..Len(ms)
    BY <1>0, <1>3
  <2>2. g[n + 1] = IF ms[n + 1].id \in ids THEN Append(g[n], ms[n + 1]) ELSE g[n]
    BY <1>0, <1>1, <2>1
  <2>3. \A o \in First(n) : o.id < ms[n + 1].id
    BY <1>0, <2>1 DEF Increasing
  <2>4. CASE ms[n + 1].id \in ids
    <3>1. First(n + 1) = First(n) \cup {ms[n + 1]}
      BY <2>4
    <3>2. ms[n + 1] \in Mutation
      BY <1>0, <2>1
    <3> HIDE DEF First
    <3> QED BY <2>1, <2>2, <2>3, <2>4, <3>1, <3>2, AppendFacts
  <2>5. CASE ms[n + 1].id \notin ids
    <3>1. First(n + 1) = First(n)
      BY <2>5
    <3> HIDE DEF First
    <3> QED BY <2>1, <2>2, <2>5, <3>1
  <2> QED BY <2>4, <2>5
<1> HIDE DEF S
<1>4. Len(ms) \in S
  BY <1>0, <1>2, <1>3, SetInduction
<1>5. Good(Len(ms))
  BY <1>0, <1>4 DEF S
<1>6. First(Len(ms)) = Chosen(Changes(ms), ids)
  <2>1. First(Len(ms)) \subseteq Chosen(Changes(ms), ids)
    BY <1>0 DEF Changes, Chosen
  <2>2. Chosen(Changes(ms), ids) \subseteq First(Len(ms))
    BY <1>0 DEF Changes, Chosen
  <2> QED BY <2>1, <2>2
<1> QED BY <1>1, <1>5, <1>6

\* The empty ledger is the one without changes.
LEMMA EmptyChanges ==
  ASSUME NEW ms \in Seq(Mutation)
  PROVE  ms = <<>> <=> Changes(ms) = {}
<1>1. CASE ms = <<>>
  BY <1>1 DEF Changes
<1>2. CASE ms # <<>>
  <2>1. 1 \in DOMAIN ms
    BY <1>2
  <2>2. ms[1] \in Changes(ms)
    BY <2>1 DEF Changes
  <2> QED BY <1>2, <2>2
<1> QED BY <1>1, <1>2

\* The numbers of a ledger are those of its changes.
LEMMA IdsOfChanges ==
  ASSUME NEW ms
  PROVE  Ids(ms) = {m.id : m \in Changes(ms)}
BY DEF Ids, Changes

\* Taking changes off leaves the others, in ledger order (markPublished).
LEMMA WithoutFacts ==
  ASSUME NEW ms \in Seq(Mutation), Increasing(ms), NEW ids
  PROVE  /\ Without(ms, ids) \in Seq(Mutation) /\ Increasing(Without(ms, ids))
         /\ Changes(Without(ms, ids)) = Changes(ms) \ Chosen(Changes(ms), ids)
<1>1. Chosen(Changes(ms), Ids(ms) \ ids) = Changes(ms) \ Chosen(Changes(ms), ids)
  BY IdsOfChanges DEF Chosen
<1> QED BY <1>1, SelectedFacts DEF Without

\* A projection lets the newest selected writer win (projectTransactionIDs).
LEMMA ProjectedIsFinal ==
  ASSUME NEW v, v.base \in Inventory, v.pending \in Seq(Mutation), Increasing(v.pending), NEW ids
  PROVE  Projected(v, ids) = Final(v.base, Chosen(Changes(v.pending), ids))
BY SelectedFacts, ReplayIsFinal DEF Projected

-----------------------------------------------------------------------------
(* What the commands record.                                               *)

\* The marks for no name, no authentication and a password are no names.
LEMMA NameFacts ==
  /\ Password \notin Names /\ NoAuth \notin Names /\ NoName \notin Names /\ Password # NoAuth
  /\ NoConnection.auth = NoAuth /\ NoConnection.fields = 0 /\ NoConnection \notin Connection
  /\ \A c \in Connection : c.auth \in Names \cup {Password} /\ c.fields \in 1..Fields /\ c.auth # NoAuth
<1>1. \A n \in Names : n[2] # 0
  BY DEF Names
<1>2. Password[2] = 0 /\ NoAuth[2] = 0 /\ NoName[2] = 0 /\ Password # NoAuth
  BY DEF Password, NoAuth, NoName
<1>3. Password \notin Names /\ NoAuth \notin Names /\ NoName \notin Names
  BY <1>1, <1>2
<1>4. NoConnection.auth = NoAuth /\ NoConnection.fields = 0
  BY DEF NoConnection
<1>5. \A c \in Connection : c.auth \in Names \cup {Password} /\ c.fields \in 1..Fields
  BY DEF Connection
<1>6. \A c \in Connection : c.auth # NoAuth
  BY <1>2, <1>3, <1>5
<1> QED BY <1>2, <1>3, <1>4, <1>5, <1>6

\* What an inventory is made of.
LEMMA InventoryFacts ==
  ASSUME NEW inv \in Inventory
  PROVE  /\ \A a \in Names : inv.conns[a] \in Connection \cup {NoConnection}
         /\ \A k \in Names : inv.keys[k] \in 0..Materials
         /\ inv.conns \in [Names -> Connection \cup {NoConnection}] /\ inv.keys \in [Names -> 0..Materials]
         /\ inv = [conns |-> inv.conns, keys |-> inv.keys]
         /\ \A a \in Names : inv.conns[a].auth \in Names => Has(inv, a)
         /\ \A a \in Names : Has(inv, a) => inv.conns[a] \in Connection
<1>1. /\ inv.conns \in [Names -> Connection \cup {NoConnection}] /\ inv.keys \in [Names -> 0..Materials]
      /\ inv = [conns |-> inv.conns, keys |-> inv.keys]
  BY DEF Inventory
<1>2. /\ \A a \in Names : inv.conns[a] \in Connection \cup {NoConnection}
      /\ \A k \in Names : inv.keys[k] \in 0..Materials
  BY <1>1
<1>3. \A a \in Names : inv.conns[a].auth \in Names => Has(inv, a)
  BY NameFacts DEF Has
<1>4. \A a \in Names : Has(inv, a) => inv.conns[a] \in Connection
  BY <1>2 DEF Has
<1> QED BY <1>1, <1>2, <1>3, <1>4

\* A key that a connection uses exists.
LEMMA UsedKey ==
  ASSUME NEW inv \in Inventory, ImportOK(inv), NEW a \in Names, inv.conns[a].auth \in Names
  PROVE  inv.keys[inv.conns[a].auth] # 0
BY InventoryFacts DEF ImportOK, ManagedConnectionOK

\* What a host command leaves: only its alias and keys that no other alias uses.
HostStep(inv, after, alias) ==
  /\ after \in Inventory /\ ImportOK(after)
  /\ \A a \in Names : a # alias => after.conns[a] = inv.conns[a]
  /\ \A k \in Names : after.keys[k] # inv.keys[k] => References(inv, k) \subseteq {alias}

\* host remove: the alias goes, and its key only if no other alias uses it.
LEMMA RemoveHostStep ==
  ASSUME NEW inv \in Inventory, ImportOK(inv), NEW change \in HostChange, RemoveHost(inv, change).ok
  PROVE  HostStep(inv, RemoveHost(inv, change).inv, change.alias)
<1> DEFINE alias == change.alias
           auth == inv.conns[alias].auth
           gone == [inv EXCEPT !.conns[alias] = NoConnection]
           prune == change.prune /\ auth \in Names /\ References(gone, auth) = {}
           after == RemoveHost(inv, change).inv
<1> SUFFICES HostStep(inv, after, alias)
  OBVIOUS
<1>0. alias \in Names
  BY DEF HostChange
<1>1. after = IF prune THEN [gone EXCEPT !.keys[auth] = 0] ELSE gone
  BY DEF RemoveHost
<1>2. gone \in Inventory /\ gone.conns[alias] = NoConnection /\ gone.keys = inv.keys
      /\ \A a \in Names : a # alias => gone.conns[a] = inv.conns[a]
  BY <1>0, InventoryFacts DEF Inventory
<1>3. CASE ~ prune
  <2>1. ImportOK(gone)
    BY <1>0, <1>2 DEF ImportOK, Has, ManagedConnectionOK
  <2> HIDE DEF gone, prune
  <2>2. after = gone
    BY <1>1, <1>3
  <2> QED BY <1>2, <2>1, <2>2 DEF HostStep
<1>4. CASE prune
  <2>1. auth \in Names /\ References(gone, auth) = {}
    BY <1>4
  <2> HIDE DEF gone, prune
  <2>2. after = [gone EXCEPT !.keys[auth] = 0]
    BY <1>1, <1>4
  <2>3. /\ after \in Inventory /\ after.conns = gone.conns
        /\ \A k \in Names : after.keys[k] = IF k = auth THEN 0 ELSE gone.keys[k]
    BY <1>2, <2>1, <2>2, LedgerBounds DEF Inventory
  <2>4. \A a \in Names : a # alias => gone.conns[a].auth # auth
    BY <2>1 DEF References
  <2>5. ImportOK(after)
    <3> SUFFICES ASSUME NEW a \in Names, Has(after, a) PROVE ManagedConnectionOK(after.conns[a], after.keys)
      BY DEF ImportOK
    <3>1. a # alias /\ after.conns[a] = inv.conns[a]
      BY <1>0, <1>2, <2>3 DEF Has
    <3>2. Has(inv, a) /\ ManagedConnectionOK(inv.conns[a], inv.keys)
      BY <3>1 DEF Has, ImportOK
    <3>3. inv.conns[a].auth # auth
      BY <1>2, <2>4, <3>1
    <3> QED BY <1>2, <2>3, <3>1, <3>2, <3>3 DEF ManagedConnectionOK
  <2>6. References(inv, auth) \subseteq {alias}
    BY <1>2, <2>4 DEF References
  <2> QED BY <1>2, <2>3, <2>5, <2>6 DEF HostStep
<1> HIDE DEF prune, after
<1> QED BY <1>3, <1>4

\* A key file replaces a saved key only if no other alias uses it.
LEMMA InstallHostKeyFacts ==
  ASSUME NEW inv \in Inventory, ImportOK(inv), NEW change \in HostChange, InstallHostKey(inv, change).ok
  PROVE  \E name \in Names :
           /\ InstallHostKey(inv, change).auth = name
           /\ InstallHostKey(inv, change).keys = [inv.keys EXCEPT ![name] = change.material]
           /\ inv.keys[name] # change.material => References(inv, name) \subseteq {change.alias}
<1> DEFINE current == inv.conns[change.alias].auth
           name == CASE change.keyName # NoName -> change.keyName
                     [] change.keyName = NoName /\ current \in Names -> current
                     [] OTHER -> change.alias
           ownedAlone == current = name /\ References(inv, name) \subseteq {change.alias}
<1>1. change.alias \in Names /\ change.keyName \in Names \cup {NoName}
  BY DEF HostChange
<1>2. name \in Names
  BY <1>1
<1>3. /\ InstallHostKey(inv, change).ok = (inv.keys[name] \in {0, change.material} \/ ownedAlone)
      /\ InstallHostKey(inv, change).auth = name
      /\ InstallHostKey(inv, change).keys = [inv.keys EXCEPT ![name] = change.material]
  BY DEF InstallHostKey
<1> HIDE DEF name
<1>4. inv.keys[name] # change.material => References(inv, name) \subseteq {change.alias}
  <2>1. CASE ownedAlone
    BY <2>1
  <2>2. CASE inv.keys[name] = 0
    <3>1. \A a \in Names : inv.conns[a].auth # name
      BY <1>2, <2>2, UsedKey
    <3> QED BY <3>1 DEF References
  <2>3. CASE inv.keys[name] = change.material
    BY <2>3
  <2> QED BY <1>3, <2>1, <2>2, <2>3
<1> QED BY <1>2, <1>3, <1>4

\* What SetHost makes of the credential: the keys of the inventory, with at most the
\* key it uses changed, and that one only if no other host uses it.
LEMMA HostCredentialFacts ==
  ASSUME NEW inv \in Inventory, ImportOK(inv), NEW change \in HostChanges, HostCredential(inv, change).ok
  PROVE  LET credential == HostCredential(inv, change)
         IN  /\ credential.auth \in Names \cup {Password, NoAuth}
             /\ credential.keys \in [Names -> 0..Materials]
             /\ \A k \in Names : credential.keys[k] # inv.keys[k] =>
                                   k = credential.auth /\ References(inv, k) \subseteq {change.alias}
<1> DEFINE c == HostCredential(inv, change)
           Good == /\ c.auth \in Names \cup {Password, NoAuth}
                   /\ c.keys \in [Names -> 0..Materials]
                   /\ \A k \in Names : c.keys[k] # inv.keys[k] =>
                                         k = c.auth /\ References(inv, k) \subseteq {change.alias}
<1> SUFFICES Good
  OBVIOUS
<1>0. change \in HostChange /\ change.alias \in Names /\ change.material \in 0..Materials
      /\ change.auth \in {"keep", "password", "saved", "file"} /\ (change.auth = "saved" => change.keyName \in Names)
  BY LedgerInputs DEF HostChange
<1>1. inv.conns[change.alias].auth \in Names \cup {Password, NoAuth} /\ inv.keys \in [Names -> 0..Materials]
  BY <1>0, InventoryFacts, NameFacts
<1>2. CASE change.auth = "keep"
  <2>1. c = [ok |-> TRUE, auth |-> inv.conns[change.alias].auth, keys |-> inv.keys]
    BY <1>2 DEF HostCredential
  <2> QED BY <1>1, <2>1
<1>3. CASE change.auth = "password"
  <2>1. c = [ok |-> TRUE, auth |-> Password, keys |-> inv.keys]
    BY <1>3 DEF HostCredential
  <2> QED BY <1>1, <2>1
<1>4. CASE change.auth = "saved"
  <2>1. c = [ok |-> inv.keys[change.keyName] # 0, auth |-> change.keyName, keys |-> inv.keys]
    BY <1>4 DEF HostCredential
  <2> QED BY <1>0, <1>1, <1>4, <2>1
<1>5. CASE change.auth = "file"
  <2>1. c = InstallHostKey(inv, change)
    BY <1>5 DEF HostCredential
  <2>2. PICK name \in Names :
           /\ c.auth = name
           /\ c.keys = [inv.keys EXCEPT ![name] = change.material]
           /\ inv.keys[name] # change.material => References(inv, name) \subseteq {change.alias}
    BY <1>0, <2>1, InstallHostKeyFacts
  <2> HIDE DEF c
  <2>3. /\ c.keys \in [Names -> 0..Materials]
        /\ \A k \in Names : c.keys[k] = IF k = name THEN change.material ELSE inv.keys[k]
    BY <1>0, <1>1, <2>2
  <2> QED BY <2>2, <2>3
<1> HIDE DEF Good
<1> QED BY <1>0, <1>2, <1>3, <1>4, <1>5

\* host add, update and upsert: one connection changes, and at most the key it uses.
LEMMA SetHostStep ==
  ASSUME NEW inv \in Inventory, ImportOK(inv), NEW change \in HostChanges, HostCommandOK(change),
         change.action # "remove", SetHost(inv, change).ok
  PROVE  HostStep(inv, SetHost(inv, change).inv, change.alias)
<1> DEFINE alias == change.alias
           c == HostCredential(inv, change)
           fields == IF change.fields # 0 THEN change.fields ELSE inv.conns[alias].fields
           connection == [auth |-> c.auth, fields |-> fields]
           after == SetHost(inv, change).inv
<1>0. change \in HostChange /\ alias \in Names /\ change.fields \in 0..Fields
      /\ change.action \in {"add", "update", "upsert"}
  BY LedgerInputs DEF HostChange
<1>1. /\ change.action = "update" => Has(inv, alias)
      /\ c.ok /\ ManagedConnectionOK(connection, c.keys)
      /\ after = [conns |-> [inv.conns EXCEPT ![alias] = connection], keys |-> c.keys]
  BY DEF SetHost, Refusal
<1>2. /\ c.auth \in Names \cup {Password, NoAuth}
      /\ c.keys \in [Names -> 0..Materials]
      /\ \A k \in Names : c.keys[k] # inv.keys[k] => k = c.auth /\ References(inv, k) \subseteq {alias}
  BY <1>1, HostCredentialFacts
<1> HIDE DEF c, after
<1>3. fields \in 1..Fields
  <2>1. CASE change.fields # 0
    BY <1>0, <2>1
  <2>2. CASE change.fields = 0
    <3>1. Has(inv, alias)
      BY <1>0, <1>1, <2>2 DEF HostCommandOK
    <3> QED BY <1>0, <2>2, <3>1, InventoryFacts, NameFacts
  <2> QED BY <2>1, <2>2
<1> HIDE DEF fields
<1>4. connection.auth = c.auth /\ connection \in Connection
  <2>1. c.auth # NoAuth
    BY <1>1 DEF ManagedConnectionOK
  <2> QED BY <1>2, <1>3, <2>1 DEF Connection
<1> HIDE DEF connection
<1>5. /\ after \in Inventory /\ after.keys = c.keys
      /\ \A a \in Names : after.conns[a] = IF a = alias THEN connection ELSE inv.conns[a]
  BY <1>0, <1>1, <1>2, <1>4, InventoryFacts DEF Inventory
<1>6. ImportOK(after)
  <2> SUFFICES ASSUME NEW a \in Names, Has(after, a) PROVE ManagedConnectionOK(after.conns[a], after.keys)
    BY DEF ImportOK
  <2>1. CASE a = alias
    BY <1>1, <1>5, <2>1
  <2>2. CASE a # alias
    <3>1. after.conns[a] = inv.conns[a] /\ ManagedConnectionOK(inv.conns[a], inv.keys)
      BY <1>5, <2>2 DEF Has, ImportOK
    <3>2. ASSUME inv.conns[a].auth \in Names PROVE c.keys[inv.conns[a].auth] # 0
      <4>1. CASE inv.conns[a].auth = c.auth
        BY <1>1, <1>4, <3>2, <4>1 DEF ManagedConnectionOK
      <4>2. CASE inv.conns[a].auth # c.auth
        BY <1>2, <3>1, <3>2, <4>2 DEF ManagedConnectionOK
      <4> QED BY <4>1, <4>2
    <3> QED BY <1>5, <3>1, <3>2 DEF ManagedConnectionOK
  <2> QED BY <2>1, <2>2
<1>7. HostStep(inv, after, alias)
  BY <1>2, <1>5, <1>6 DEF HostStep
<1> QED BY <1>7 DEF after

\* Every candidate of a host command is such a step.
LEMMA BuildHostCandidateStep ==
  ASSUME NEW inv \in Inventory, ImportOK(inv), NEW change \in HostChanges, HostCommandOK(change),
         BuildHostCandidate(inv, change).ok
  PROVE  HostStep(inv, BuildHostCandidate(inv, change).inv, change.alias)
<1>1. change \in HostChange
  BY LedgerInputs
<1> QED BY <1>1, RemoveHostStep, SetHostStep DEF BuildHostCandidate

\* keyDelta lists the keys that differ, and leads from the old keys to the new ones.
LEMMA KeyDeltaFacts ==
  ASSUME NEW before \in Inventory, NEW after \in Inventory
  PROVE  LET d == KeyDelta(before, after)
         IN  /\ d \in UNION {[D -> KeyEdit] : D \in SUBSET Names}
             /\ DOMAIN d = {n \in Names : before.keys[n] # after.keys[n]}
             /\ \A k \in DOMAIN d : d[k].before = before.keys[k] /\ d[k].after = after.keys[k]
             /\ [k \in Names |-> IF k \in DOMAIN d THEN d[k].after ELSE before.keys[k]] = after.keys
<1> DEFINE D == {n \in Names : before.keys[n] # after.keys[n]}
           d == KeyDelta(before, after)
<1>1. d = [k \in D |-> [before |-> before.keys[k], after |-> after.keys[k]]]
  BY DEF KeyDelta
<1>2. \A k \in Names : before.keys[k] \in 0..Materials /\ after.keys[k] \in 0..Materials
  BY InventoryFacts
<1>3. \A k \in D : [before |-> before.keys[k], after |-> after.keys[k]] \in KeyEdit
  BY <1>2 DEF KeyEdit
<1> HIDE DEF d
<1>4. d \in [D -> KeyEdit] /\ D \in SUBSET Names
  BY <1>1, <1>3
<1>5. d \in UNION {[E -> KeyEdit] : E \in SUBSET Names}
  <2> HIDE DEF D
  <2> QED BY <1>4
<1>6. DOMAIN d = D /\ \A k \in D : d[k].before = before.keys[k] /\ d[k].after = after.keys[k]
  BY <1>1
<1>7. [k \in Names |-> IF k \in DOMAIN d THEN d[k].after ELSE before.keys[k]] = after.keys
  <2>1. after.keys = [k \in Names |-> after.keys[k]]
    BY InventoryFacts
  <2>2. \A k \in Names : (IF k \in DOMAIN d THEN d[k].after ELSE before.keys[k]) = after.keys[k]
    BY <1>6
  <2> QED BY <2>1, <2>2
<1> QED BY <1>5, <1>6, <1>7 DEF d

\* The empty inventory is one.
LEMMA EmptyInventoryType == EmptyInventory \in Inventory
<1>1. 0 \in 0..Materials
  BY LedgerBounds
<1> QED BY <1>1 DEF EmptyInventory, Inventory

HostMutation(n, inv, after, alias) ==
  [id |-> n, kind |-> "host", alias |-> alias, before |-> inv.conns[alias], after |-> after.conns[alias],
   delta |-> KeyDelta(inv, after), bulk |-> EmptyInventory]

PlainMutation(n, kind, inv, after, bulk) ==
  [id |-> n, kind |-> kind, alias |-> NoName, before |-> NoConnection, after |-> NoConnection,
   delta |-> KeyDelta(inv, after), bulk |-> bulk]

\* A recorded change is typed, leads from the inventory to the candidate, and follows it.
Records(m, n, inv, after) ==
  /\ m \in Mutation /\ m.id = n /\ ApplyMutation(inv, m) = after /\ Follows(inv, m)
  /\ after \in Inventory /\ ImportOK(after)

\* What ApplyHost records leads to its candidate.
LEMMA HostRecords ==
  ASSUME NEW inv \in Inventory, NEW n \in Nat, NEW after, NEW alias \in Names, HostStep(inv, after, alias)
  PROVE  Records(HostMutation(n, inv, after, alias), n, inv, after)
<1> DEFINE m == HostMutation(n, inv, after, alias)
           d == KeyDelta(inv, after)
<1>0. after \in Inventory /\ ImportOK(after)
  BY DEF HostStep
<1>1. /\ d \in UNION {[D -> KeyEdit] : D \in SUBSET Names}
      /\ DOMAIN d = {k \in Names : inv.keys[k] # after.keys[k]}
      /\ \A k \in DOMAIN d : d[k].before = inv.keys[k] /\ d[k].after = after.keys[k]
      /\ [k \in Names |-> IF k \in DOMAIN d THEN d[k].after ELSE inv.keys[k]] = after.keys
  BY <1>0, KeyDeltaFacts
<1>2. /\ m.id = n /\ m.kind = "host" /\ m.alias = alias /\ m.before = inv.conns[alias]
      /\ m.after = after.conns[alias] /\ m.delta = d /\ m.bulk = EmptyInventory
      /\ m = [id |-> n, kind |-> "host", alias |-> alias, before |-> inv.conns[alias],
              after |-> after.conns[alias], delta |-> d, bulk |-> EmptyInventory]
  BY DEF HostMutation
<1> HIDE DEF m, d
<1>3. m \in Mutation
  <2>1. inv.conns[alias] \in Connection \cup {NoConnection} /\ after.conns[alias] \in Connection \cup {NoConnection}
    BY <1>0, InventoryFacts
  <2>2. \A k \in DOMAIN d : d[k].before # d[k].after
    BY <1>1
  <2>3. m \in [id: Nat, kind: {"host", "key", "bulk"}, alias: Names \cup {NoName},
          before: Connection \cup {NoConnection}, after: Connection \cup {NoConnection},
          delta: UNION {[D -> KeyEdit] : D \in SUBSET Names}, bulk: Inventory]
    BY <1>1, <1>2, <2>1, EmptyInventoryType
  <2> QED BY <1>2, <2>2, <2>3 DEF Mutation
<1>4. ApplyMutation(inv, m) = after
  <2>1. ApplyMutation(inv, m) = [conns |-> [inv.conns EXCEPT ![alias] = after.conns[alias]],
                                 keys |-> [k \in Names |-> IF k \in DOMAIN d THEN d[k].after ELSE inv.keys[k]]]
    BY <1>2 DEF ApplyMutation
  <2>2. [inv.conns EXCEPT ![alias] = after.conns[alias]] = after.conns
    BY <1>0, InventoryFacts DEF HostStep
  <2>3. after = [conns |-> after.conns, keys |-> after.keys]
    BY <1>0, InventoryFacts
  <2> QED BY <1>1, <2>1, <2>2, <2>3
<1>5. Follows(inv, m)
  BY <1>1, <1>2 DEF Follows, HostStep
<1>6. Records(m, n, inv, after)
  BY <1>0, <1>2, <1>3, <1>4, <1>5 DEF Records
<1> QED BY <1>6 DEF m

\* Changes that are not of one host are typed.
LEMMA PlainType ==
  ASSUME NEW inv \in Inventory, NEW n \in Nat, NEW after \in Inventory,
         NEW kind \in {"key", "bulk"}, NEW bulk \in Inventory
  PROVE  LET m == PlainMutation(n, kind, inv, after, bulk)
         IN  /\ m \in Mutation /\ m.id = n /\ m.kind = kind /\ m.alias = NoName /\ m.bulk = bulk
             /\ m.delta = KeyDelta(inv, after)
<1> DEFINE m == PlainMutation(n, kind, inv, after, bulk)
           d == KeyDelta(inv, after)
<1>1. /\ d \in UNION {[D -> KeyEdit] : D \in SUBSET Names}
      /\ DOMAIN d = {k \in Names : inv.keys[k] # after.keys[k]}
      /\ \A k \in DOMAIN d : d[k].before = inv.keys[k] /\ d[k].after = after.keys[k]
  BY KeyDeltaFacts
<1>2. /\ m.id = n /\ m.kind = kind /\ m.alias = NoName /\ m.before = NoConnection
      /\ m.after = NoConnection /\ m.delta = d /\ m.bulk = bulk
      /\ m = [id |-> n, kind |-> kind, alias |-> NoName, before |-> NoConnection,
              after |-> NoConnection, delta |-> d, bulk |-> bulk]
  BY DEF PlainMutation
<1> HIDE DEF m, d
<1>3. \A k \in DOMAIN d : d[k].before # d[k].after
  BY <1>1
<1>4. m \in [id: Nat, kind: {"host", "key", "bulk"}, alias: Names \cup {NoName},
        before: Connection \cup {NoConnection}, after: Connection \cup {NoConnection},
        delta: UNION {[D -> KeyEdit] : D \in SUBSET Names}, bulk: Inventory]
  BY <1>1, <1>2
<1>5. m \in Mutation
  BY <1>2, <1>3, <1>4, NameFacts DEF Mutation
<1> QED BY <1>2, <1>5 DEF m, d

\* keys remove: the key goes, which nothing uses.
LEMMA KeyRecords ==
  ASSUME NEW inv \in Inventory, ImportOK(inv), NEW n \in Nat, NEW key \in Names, References(inv, key) = {}
  PROVE  LET after == [inv EXCEPT !.keys[key] = 0]
         IN  Records(PlainMutation(n, "key", inv, after, EmptyInventory), n, inv, after)
<1> DEFINE after == [inv EXCEPT !.keys[key] = 0]
           m == PlainMutation(n, "key", inv, after, EmptyInventory)
           d == KeyDelta(inv, after)
<1>1. /\ after \in Inventory /\ after.conns = inv.conns
      /\ \A k \in Names : after.keys[k] = IF k = key THEN 0 ELSE inv.keys[k]
  BY LedgerBounds DEF Inventory
<1> SUFFICES Records(m, n, inv, after)
  OBVIOUS
<1> HIDE DEF after
<1>2. m \in Mutation /\ m.id = n /\ m.kind = "key" /\ m.alias = NoName /\ m.delta = d
  <2>1. PICK kind \in {"key", "bulk"} : kind = "key"
    OBVIOUS
  <2> DEFINE p == PlainMutation(n, kind, inv, after, EmptyInventory)
  <2>2. p \in Mutation /\ p.id = n /\ p.kind = kind /\ p.alias = NoName /\ p.delta = KeyDelta(inv, after)
    <3>1. after \in Inventory /\ EmptyInventory \in Inventory
      BY <1>1, EmptyInventoryType
    <3> QED BY <3>1, PlainType
  <2>3. m = p
    BY <2>1
  <2> HIDE DEF m, p
  <2> QED BY <2>1, <2>2, <2>3
<1>3. /\ DOMAIN d = {k \in Names : inv.keys[k] # after.keys[k]}
      /\ \A k \in DOMAIN d : d[k].before = inv.keys[k] /\ d[k].after = after.keys[k]
      /\ [k \in Names |-> IF k \in DOMAIN d THEN d[k].after ELSE inv.keys[k]] = after.keys
  BY <1>1, KeyDeltaFacts
<1> HIDE DEF m, d
<1>4. \A a \in Names : inv.conns[a].auth # key
  BY DEF References
<1>5. ImportOK(after)
  BY <1>1, <1>4 DEF ImportOK, Has, ManagedConnectionOK
<1>6. ApplyMutation(inv, m) = after
  <2>1. ApplyMutation(inv, m) = [inv EXCEPT !.keys = [k \in Names |-> IF k \in DOMAIN d THEN d[k].after ELSE inv.keys[k]]]
    BY <1>2 DEF ApplyMutation
  <2>2. ApplyMutation(inv, m) = [conns |-> inv.conns, keys |-> after.keys]
    BY <1>3, <2>1, InventoryFacts
  <2>3. after = [conns |-> after.conns, keys |-> after.keys]
    BY <1>1, InventoryFacts
  <2> QED BY <1>1, <2>2, <2>3
<1>7. Follows(inv, m)
  <2>1. \A k \in DOMAIN d : k = key
    BY <1>1, <1>3
  <2> QED BY <1>2, <1>3, <2>1 DEF Follows
<1> QED BY <1>1, <1>2, <1>5, <1>6, <1>7 DEF Records

\* What ApplyImport records leads to the imported inventory.
LEMMA BulkRecords ==
  ASSUME NEW inv \in Inventory, NEW n \in Nat, NEW after \in Inventory, ImportOK(after)
  PROVE  Records(PlainMutation(n, "bulk", inv, after, after), n, inv, after)
<1> DEFINE m == PlainMutation(n, "bulk", inv, after, after)
<1>1. m \in Mutation /\ m.id = n /\ m.kind = "bulk" /\ m.bulk = after
  BY PlainType
<1> HIDE DEF m
<1>2. ApplyMutation(inv, m) = after /\ Follows(inv, m)
  BY <1>1 DEF ApplyMutation, Follows
<1>3. Records(m, n, inv, after)
  BY <1>1, <1>2 DEF Records
<1> QED BY <1>3 DEF m

\* Converting one server keeps an inventory one.
LEMMA ConvertImportServerType ==
  ASSUME NEW inv \in Inventory, NEW server \in ImportServer
  PROVE  ConvertImportServer(inv, server) \in Inventory
<1> DEFINE name == UniqueName(server.name, {n \in Names : Has(inv, n)})
           sharing == {k \in Names : server.material # 0 /\ inv.keys[k] = server.material}
           key == IF sharing # {} THEN CHOOSE k \in sharing : TRUE ELSE name
           connect(auth) == [inv.conns EXCEPT ![name] = [auth |-> auth, fields |-> server.fields]]
<1>1. server.material \in 0..Materials /\ server.fields \in 1..Fields
  BY DEF ImportServer
<1>2. ConvertImportServer(inv, server) =
        IF server.material = 0 THEN [inv EXCEPT !.conns = connect(Password)]
        ELSE [conns |-> connect(key), keys |-> [inv.keys EXCEPT ![key] = server.material]]
  BY DEF ConvertImportServer
<1>3. key \in Names \/ key = name
  OBVIOUS
<1> HIDE DEF name, sharing, key
<1>4. /\ inv.conns \in [Names -> Connection \cup {NoConnection}] /\ inv.keys \in [Names -> 0..Materials]
      /\ inv = [conns |-> inv.conns, keys |-> inv.keys]
  BY InventoryFacts
<1>5. ASSUME NEW auth, name \in Names => auth \in Names \cup {Password}
      PROVE  connect(auth) \in [Names -> Connection \cup {NoConnection}]
  <2>1. name \in Names => [auth |-> auth, fields |-> server.fields] \in Connection
    BY <1>1, <1>5 DEF Connection
  <2> QED BY <1>4, <2>1
<1>6. connect(Password) \in [Names -> Connection \cup {NoConnection}]
      /\ connect(key) \in [Names -> Connection \cup {NoConnection}]
  BY <1>3, <1>5
<1>7. [inv.keys EXCEPT ![key] = server.material] \in [Names -> 0..Materials]
  BY <1>1, <1>4
<1> HIDE DEF connect
<1>8. [inv EXCEPT !.conns = connect(Password)] = [conns |-> connect(Password), keys |-> inv.keys]
  BY <1>4
<1> QED BY <1>2, <1>4, <1>6, <1>7, <1>8 DEF Inventory

\* A server list becomes an inventory (LoadServerImport).
LEMMA LoadServerImportType ==
  ASSUME NEW servers \in Seq(ImportServer)
  PROVE  LoadServerImport(servers) \in Inventory
<1>0. PICK N \in Nat : N = Len(servers)
  OBVIOUS
<1> DEFINE Import(v, n) == IF servers[n].complete THEN ConvertImportServer(v, servers[n]) ELSE v
           F == [i \in 1..N |-> [v \in Inventory |-> Import(v, i)]]
           Is(f) == f = [n \in 0..N |-> IF n = 0 THEN EmptyInventory ELSE Import(f[n - 1], n)]
           converted == CHOOSE f : Is(f)
<1>1. N \in Nat /\ \A i \in 1..N : servers[i] \in ImportServer
  BY <1>0
<1>2. LoadServerImport(servers) = converted[N]
  BY <1>0 DEF LoadServerImport
<1>3. \A i \in 1..N, v \in Inventory : Import(v, i) \in Inventory
  BY <1>1, ConvertImportServerType
<1> HIDE DEF Import
<1>4. Steps(F, N, Inventory)
  BY <1>3 DEF Steps
<1>5. PICK g : Solution(g, F, N, Inventory, EmptyInventory)
  <2> HIDE DEF F
  <2> QED BY <1>4, EmptyInventoryType, Recursion
<1>6. g \in [0..N -> Inventory] /\ g[0] = EmptyInventory /\ \A n \in 1..N : g[n] = F[n][g[n - 1]]
  BY <1>5 DEF Solution
<1>7. \A n \in 1..N : g[n] = Import(g[n - 1], n)
  <2> SUFFICES ASSUME NEW n \in 1..N PROVE g[n] = Import(g[n - 1], n)
    OBVIOUS
  <2>1. g[n - 1] \in Inventory
    BY <1>6
  <2> QED BY <1>6, <2>1
<1> HIDE DEF F
<1>8. Is(g)
  BY <1>6, <1>7
<1>9. Is(converted)
  <2> HIDE DEF Is
  <2> QED BY <1>8
<1> HIDE DEF converted
<1> DEFINE S == {n \in Nat : n <= N => converted[n] \in Inventory}
<1>10. 0 \in S
  BY <1>9, EmptyInventoryType
<1>11. ASSUME NEW n \in Nat, n \in S PROVE n + 1 \in S
  <2> SUFFICES ASSUME n + 1 <= N PROVE converted[n + 1] \in Inventory
    OBVIOUS
  <2>1. n + 1 \in 1..N /\ converted[n] \in Inventory
    BY <1>11
  <2>2. converted[n + 1] = Import(converted[n], n + 1)
    BY <1>9, <2>1
  <2> QED BY <1>3, <2>1, <2>2
<1> HIDE DEF S
<1>12. N \in S
  BY <1>10, <1>11, SetInduction
<1>13. converted[N] \in Inventory
  BY <1>12 DEF S
<1> QED BY <1>2, <1>13

\* Merging an import keeps an inventory whose connections have their keys.
LEMMA MergeVaultsFacts ==
  ASSUME NEW local \in Inventory, ImportOK(local), NEW imported \in Inventory, ImportOK(imported)
  PROVE  MergeVaults(local, imported) \in Inventory /\ ImportOK(MergeVaults(local, imported))
<1> DEFINE after == MergeVaults(local, imported)
<1>0. /\ \A a \in Names : /\ local.conns[a] \in Connection \cup {NoConnection}
                          /\ imported.conns[a] \in Connection \cup {NoConnection}
      /\ \A k \in Names : local.keys[k] \in 0..Materials /\ imported.keys[k] \in 0..Materials
  BY InventoryFacts
<1>1. /\ after \in Inventory
      /\ \A a \in Names : after.conns[a] = IF Has(imported, a) THEN imported.conns[a] ELSE local.conns[a]
      /\ \A k \in Names : after.keys[k] = IF imported.keys[k] # 0 THEN imported.keys[k] ELSE local.keys[k]
  BY <1>0 DEF MergeVaults, Inventory
<1> HIDE DEF after
<1>2. ImportOK(after)
  <2> SUFFICES ASSUME NEW a \in Names, Has(after, a) PROVE ManagedConnectionOK(after.conns[a], after.keys)
    BY DEF ImportOK
  <2>1. CASE Has(imported, a)
    <3>1. after.conns[a] = imported.conns[a] /\ ManagedConnectionOK(imported.conns[a], imported.keys)
      BY <1>1, <2>1 DEF ImportOK
    <3> QED BY <1>1, <3>1 DEF ManagedConnectionOK
  <2>2. CASE ~ Has(imported, a)
    <3>1. after.conns[a] = local.conns[a] /\ Has(local, a)
      BY <1>1, <2>2 DEF Has
    <3>2. ManagedConnectionOK(local.conns[a], local.keys)
      BY <3>1 DEF ImportOK
    <3> QED BY <1>1, <3>1, <3>2 DEF ManagedConnectionOK
  <2> QED BY <2>1, <2>2
<1> QED BY <1>1, <1>2 DEF after

-----------------------------------------------------------------------------
(* What a change needs.                                                    *)

\* The direct dependencies of a change are the older ones it needs (directDependencyEdges).
LEMMA DirectIsNeeds ==
  ASSUME NEW ms, NEW i
  PROVE  DirectDependencies(ms, i) = {j \in 1..(i - 1) : Needs(ms[j], ms[i])}
BY DEF DirectDependencies, Needs

\* The recursion of dependencies has a solution: the least sets closed under need.
LEMMA DependenciesRecursion ==
  ASSUME NEW ms, NEW s \in Nat
  PROVE  \E f : /\ f = [i \in 1..s |-> DirectDependencies(ms, i) \cup UNION {f[j] : j \in DirectDependencies(ms, i)}]
                /\ Dependencies(ms, s) = f[s]
<1> DEFINE D(i) == DirectDependencies(ms, i)
           Is(f) == f = [i \in 1..s |-> D(i) \cup UNION {f[j] : j \in D(i)}]
           needs == CHOOSE f : Is(f)
<1>1. Dependencies(ms, s) = needs[s]
  BY DEF Dependencies
<1>2. \A i \in 1..s : \A j \in D(i) : j \in 1..s
  BY DirectIsNeeds
<1> HIDE DEF D
<1> DEFINE Closed(T, i) == D(i) \subseteq T /\ \A j \in T : D(j) \subseteq T
           Closure(i) == {j \in 1..s : \A T \in SUBSET (1..s) : Closed(T, i) => j \in T}
           g == [i \in 1..s |-> Closure(i)]
<1>3. ASSUME NEW i \in 1..s PROVE Closure(i) = D(i) \cup UNION {Closure(j) : j \in D(i)}
  <2> DEFINE U == D(i) \cup UNION {Closure(j) : j \in D(i)}
  <2>1. D(i) \subseteq Closure(i)
    BY <1>2
  <2>2. ASSUME NEW j \in D(i) PROVE Closure(j) \subseteq Closure(i)
    <3>1. \A T \in SUBSET (1..s) : Closed(T, i) => Closed(T, j)
      OBVIOUS
    <3> QED BY <3>1
  <2>3. Closed(U, i)
    <3>1. ASSUME NEW x \in D(i) PROVE D(x) \subseteq U
      <4>1. D(x) \subseteq Closure(x)
        BY <1>2
      <4> HIDE DEF Closure
      <4> QED BY <4>1
    <3>2. ASSUME NEW j \in D(i), NEW x \in Closure(j) PROVE D(x) \subseteq U
      <4>1. D(x) \subseteq Closure(j)
        BY <1>2, <3>2
      <4> HIDE DEF Closure
      <4> QED BY <4>1
    <3> HIDE DEF Closure
    <3> QED BY <3>1, <3>2
  <2>4. U \in SUBSET (1..s)
    BY <1>2
  <2>5. Closure(i) \subseteq U
    <3> HIDE DEF Closed, U
    <3> QED BY <2>3, <2>4
  <2> HIDE DEF Closure
  <2>6. U \subseteq Closure(i)
    BY <2>1, <2>2
  <2> QED BY <2>5, <2>6
<1>4. Is(g)
  <2> HIDE DEF Closure
  <2>1. \A i \in 1..s : g[i] = Closure(i)
    OBVIOUS
  <2>2. \A i \in 1..s : {g[j] : j \in D(i)} = {Closure(j) : j \in D(i)}
    BY <1>2, <2>1
  <2>3. \A i \in 1..s : Closure(i) = D(i) \cup UNION {g[j] : j \in D(i)}
    BY <1>3, <2>2
  <2> QED BY <2>3
<1>5. Is(needs)
  <2> HIDE DEF Is, g
  <2> QED BY <1>4
<1> QED BY <1>1, <1>5 DEF D

\* dependencies reports what the change needs, and whatever that needs.
LEMMA DependenciesFacts ==
  ASSUME NEW ms, NEW s \in Nat \ {0}
  PROVE  /\ Dependencies(ms, s) \subseteq 1..(s - 1)
         /\ DirectDependencies(ms, s) \subseteq Dependencies(ms, s)
         /\ \A x \in Dependencies(ms, s) : DirectDependencies(ms, x) \subseteq Dependencies(ms, s)
<1> DEFINE D(i) == DirectDependencies(ms, i)
<1>1. PICK f : /\ f = [i \in 1..s |-> D(i) \cup UNION {f[j] : j \in D(i)}]
               /\ Dependencies(ms, s) = f[s]
  BY DependenciesRecursion
<1>2. \A i \in 1..s : D(i) \subseteq 1..(i - 1)
  BY DirectIsNeeds
<1> HIDE DEF D
<1>3. \A i \in 1..s : f[i] = D(i) \cup UNION {f[j] : j \in D(i)}
  BY <1>1
<1> DEFINE Good(i) == f[i] \subseteq 1..(i - 1) /\ \A x \in f[i] : D(x) \subseteq f[i]
           B == {i \in 1..s : ~ Good(i)}
<1>4. B = {}
  <2> SUFFICES ASSUME B # {} PROVE FALSE
    OBVIOUS
  <2>1. PICK i \in B : \A j \in B : i <= j
    <3>1. B \in SUBSET Nat
      OBVIOUS
    <3> HIDE DEF B
    <3> QED BY <3>1, LeastNumber
  <2>2. i \in 1..s /\ ~ Good(i) /\ f[i] = D(i) \cup UNION {f[j] : j \in D(i)} /\ D(i) \subseteq 1..(i - 1)
    BY <1>2, <1>3
  <2>3. \A j \in D(i) : j \in 1..s /\ j < i /\ Good(j)
    <3>1. \A j \in D(i) : j \in 1..s /\ j < i
      BY <2>2
    <3> QED BY <2>1, <2>2, <3>1
  <2>4. f[i] \subseteq 1..(i - 1)
    <3>1. \A j \in D(i) : f[j] \subseteq 1..(i - 1)
      BY <2>2, <2>3
    <3> QED BY <2>2, <3>1
  <2>5. \A x \in f[i] : D(x) \subseteq f[i]
    <3>1. ASSUME NEW x \in D(i) PROVE D(x) \subseteq f[i]
      <4>1. D(x) \subseteq f[x]
        BY <1>3, <2>3
      <4> QED BY <2>2, <4>1
    <3>2. ASSUME NEW j \in D(i), NEW x \in f[j] PROVE D(x) \subseteq f[i]
      <4>1. D(x) \subseteq f[j]
        BY <2>3, <3>2
      <4> QED BY <2>2, <4>1
    <3> QED BY <2>2, <3>1, <3>2
  <2> QED BY <2>2, <2>4, <2>5
<1>5. Good(s)
  BY <1>4
<1>6. D(s) \subseteq f[s]
  BY <1>3
<1> QED BY <1>1, <1>5, <1>6 DEF D

\* A pending number has one index in the ledger.
LEMMA PendingIndexFacts ==
  ASSUME NEW v, v.pending \in Seq(Mutation), Increasing(v.pending), NEW id \in Ids(v.pending)
  PROVE  /\ PendingIndex(v, id) \in DOMAIN v.pending /\ PendingIndex(v, id) \in Nat \ {0}
         /\ v.pending[PendingIndex(v, id)].id = id
         /\ \A i \in DOMAIN v.pending : v.pending[i].id = id => i = PendingIndex(v, id)
<1>1. \E i \in DOMAIN v.pending : v.pending[i].id = id
  BY DEF Ids
<1>2. PendingIndex(v, id) \in DOMAIN v.pending /\ v.pending[PendingIndex(v, id)].id = id
  BY <1>1 DEF PendingIndex
<1>3. DOMAIN v.pending = 1..Len(v.pending) /\ Len(v.pending) \in Nat
      /\ \A i \in 1..Len(v.pending) : v.pending[i].id \in Nat
  BY ChangesLedger
<1>4. \A i \in DOMAIN v.pending : v.pending[i].id = id => i = PendingIndex(v, id)
  BY <1>2, <1>3 DEF Increasing
<1>5. PendingIndex(v, id) \in Nat \ {0}
  BY <1>2, <1>3
<1> QED BY <1>2, <1>4, <1>5

\* The direct dependencies of a pending change, as changes.
LEMMA NeedsIndex ==
  ASSUME NEW ms \in Seq(Mutation), Increasing(ms), NEW i \in DOMAIN ms, NEW j \in DOMAIN ms,
         ms[j].id < ms[i].id, Needs(ms[j], ms[i])
  PROVE  j \in DirectDependencies(ms, i)
<1>1. DOMAIN ms = 1..Len(ms) /\ Len(ms) \in Nat /\ \A k \in 1..Len(ms) : ms[k].id \in Nat
  BY ChangesLedger
<1>2. i \in Nat /\ j \in Nat /\ j >= 1 /\ i \in 1..Len(ms) /\ j \in 1..Len(ms)
  BY <1>1
<1>3. j < i
  <2> SUFFICES ASSUME ~ (j < i) PROVE FALSE
    OBVIOUS
  <2>1. i = j \/ i < j
    BY <1>2
  <2>2. i = j => ms[j].id = ms[i].id
    OBVIOUS
  <2>3. i < j => ms[i].id < ms[j].id
    BY DEF Increasing
  <2>4. ms[i].id \in Nat /\ ms[j].id \in Nat
    BY <1>1, <1>2
  <2> QED BY <2>1, <2>2, <2>3, <2>4
<1>4. j \in 1..(i - 1)
  BY <1>2, <1>3
<1> QED BY <1>4, DirectIsNeeds

\* A change without dependencies needs no older one.
LEMMA NoDependencies ==
  ASSUME NEW v, v.pending \in Seq(Mutation), Increasing(v.pending), NEW id \in Ids(v.pending),
         Dependencies(v.pending, PendingIndex(v, id)) = {}
  PROVE  Separable(Changes(v.pending), "only", {id})
<1> DEFINE ms == v.pending
           i == PendingIndex(v, id)
<1>1. i \in DOMAIN ms /\ i \in Nat \ {0} /\ ms[i].id = id /\ \A k \in DOMAIN ms : ms[k].id = id => k = i
  BY PendingIndexFacts
<1>2. DirectDependencies(ms, i) = {}
  <2> HIDE DEF i, ms
  <2>1. Dependencies(ms, i) = {}
    BY DEF i, ms
  <2> QED BY <1>1, <2>1, DependenciesFacts
<1>3. \A m \in Chosen(Changes(ms), {id}) : m = ms[i]
  BY <1>1 DEF Chosen, Changes
<1> HIDE DEF i
<1>4. \A o \in Changes(ms) : o.id < ms[i].id => ~ Needs(o, ms[i])
  <2> SUFFICES ASSUME NEW j \in DOMAIN ms, ms[j].id < ms[i].id, Needs(ms[j], ms[i]) PROVE FALSE
    BY DEF Changes
  <2> QED BY <1>1, <1>2, NeedsIndex
<1> QED BY <1>1, <1>3, <1>4 DEF Separable

\* The changes named by a refusal contain everything they need.
LEMMA DependenciesPlan ==
  ASSUME NEW v, v.pending \in Seq(Mutation), Increasing(v.pending), NEW id \in Ids(v.pending), NEW named,
         named = {v.pending[i].id : i \in Dependencies(v.pending, PendingIndex(v, id))} \cup {id},
         NEW e \in Changes(v.pending), NEW l \in Changes(v.pending), e.id < l.id, Needs(e, l), l.id \in named
  PROVE  e.id \in named
<1> DEFINE ms == v.pending
           s == PendingIndex(v, id)
           R == Dependencies(ms, s)
<1>1. s \in DOMAIN ms /\ s \in Nat \ {0} /\ ms[s].id = id
  BY PendingIndexFacts
<1>2. /\ R \subseteq 1..(s - 1) /\ DirectDependencies(ms, s) \subseteq R
      /\ \A x \in R : DirectDependencies(ms, x) \subseteq R
  BY <1>1, DependenciesFacts
<1>3. PICK i \in DOMAIN ms, j \in DOMAIN ms : l = ms[i] /\ e = ms[j]
  BY DEF Changes
<1>4. j \in DirectDependencies(ms, i)
  BY <1>3, NeedsIndex
<1>5. DOMAIN ms = 1..Len(ms) /\ Len(ms) \in Nat
  BY ChangesLedger
<1>6. R \subseteq DOMAIN ms
  BY <1>1, <1>2, <1>5
<1>7. PICK k \in R \cup {s} : l.id = ms[k].id
  BY <1>1
<1>8. k \in DOMAIN ms
  BY <1>1, <1>6
<1>9. i = k
  <2>1. l.id \in Ids(ms)
    BY <1>3 DEF Ids
  <2>2. i = PendingIndex(v, l.id) /\ k = PendingIndex(v, l.id)
    BY <1>3, <1>7, <1>8, <2>1, PendingIndexFacts
  <2> QED BY <2>2
<1>10. j \in R
  BY <1>2, <1>4, <1>7, <1>9
<1> QED BY <1>3, <1>10

-----------------------------------------------------------------------------
(* The ledger and the publication: CoreInv is inductive.                   *)

CoreInv == Typed /\ Numbered /\ Explained /\ Publication /\ Planned /\ ImportOK(vault.inv)

VaultFile == [inv: Inventory, base: Inventory, hasBase: BOOLEAN, pending: Seq(Mutation)]

\* A vault file whose ledger leads from its base to its inventory.
Sound(v) ==
  /\ v \in VaultFile /\ Increasing(v.pending)
  /\ v.hasBase <=> v.pending # <<>>
  /\ v.inv = Final(v.base, Changes(v.pending))

\* The invariant makes the vault file sound.
LEMMA SoundVault ==
  ASSUME CoreInv
  PROVE  Sound(vault) /\ Ledger(Changes(vault.pending))
<1>1. Sound(vault)
  BY DEF CoreInv, Typed, Numbered, Explained, Sound, VaultFile, Increasing
<1>2. vault.pending \in Seq(Mutation) /\ Increasing(vault.pending)
  BY <1>1 DEF Sound, VaultFile
<1> QED BY <1>1, <1>2, ChangesLedger

\* What is published leaves nothing older behind that writes the same places.
LEMMA SeparableSplit ==
  ASSUME NEW M, Ledger(M), NEW scope \in {"all", "only"}, NEW ids, Separable(M, scope, ids), NEW base \in Inventory
  PROVE  Final(Final(base, Chosen(M, ids)), M \ Chosen(M, ids)) = Final(base, M)
<1> DEFINE S == Chosen(M, ids)
<1>1. S \in SUBSET M
  BY DEF Chosen
<1>2. ASSUME NEW m \in S, NEW o \in M \ S, o.id < m.id, NEW l \in Places, Writes(m, l), Writes(o, l) PROVE FALSE
  <2>1. m \in Mutation /\ o \in Mutation
    BY <1>1 DEF Ledger
  <2>2. m.id \in Nat /\ o.id \in Nat /\ m.kind \in {"host", "key", "bulk"} /\ o.kind \in {"host", "key", "bulk"}
    BY <2>1, MutationFacts
  <2>3. CASE scope = "all"
    <3>1. m.id < o.id
      BY <2>3 DEF Separable
    <3> QED BY <1>2, <2>2, <3>1
  <2>4. CASE scope = "only"
    <3>1. ~ Needs(o, m)
      BY <1>2, <2>4 DEF Separable
    <3>2. m.kind # "bulk" /\ o.kind # "bulk"
      BY <3>1 DEF Needs
    <3>3. ~ (m.kind = "host" /\ o.kind = "host" /\ o.alias = m.alias)
      BY <3>1 DEF Needs
    <3>4. \A k \in DOMAIN m.delta : KeyChange(o, k) = "none"
      BY <3>1 DEF Needs, KeyDependency
    <3>5. \A k \in DOMAIN m.delta : k \notin DOMAIN o.delta
      BY <3>4 DEF KeyChange
    <3> QED BY <1>2, <3>2, <3>3, <3>5 DEF Writes
  <2> QED BY <2>3, <2>4
<1> HIDE DEF S
<1>3. Final(Final(base, S), M \ S) = Final(base, M)
  <2>1. \A m \in S, o \in M \ S : o.id < m.id => \A l \in Places : ~ (Writes(m, l) /\ Writes(o, l))
    BY <1>2
  <2> QED BY <1>1, <2>1, FinalSplit
<1> QED BY <1>3 DEF S

\* The vault without the published changes.
Cleaned(v, w, ids) ==
  /\ Sound(w) /\ w.inv = v.inv
  /\ Changes(w.pending) = Changes(v.pending) \ Chosen(Changes(v.pending), ids)
  /\ w.base = Final(v.base, Chosen(Changes(v.pending), ids))

\* markPublished leaves a sound vault file without the published changes.
LEMMA CleanFacts ==
  ASSUME NEW v, Sound(v), NEW scope \in {"all", "only"}, NEW ids, Separable(Changes(v.pending), scope, ids)
  PROVE  Cleaned(v, IF ids \cap Ids(v.pending) = {} THEN v ELSE MarkPublished(v, ids, Projected(v, ids)), ids)
<1> DEFINE M == Changes(v.pending)
           S == Chosen(M, ids)
<1>0. v \in VaultFile /\ v.base \in Inventory /\ v.inv \in Inventory /\ v.pending \in Seq(Mutation)
      /\ Increasing(v.pending) /\ v.inv = Final(v.base, M) /\ (v.hasBase <=> v.pending # <<>>)
  BY DEF Sound, VaultFile
<1>1. Ledger(M)
  BY <1>0, ChangesLedger
<1>2. S \in SUBSET M /\ Ledger(S)
  BY <1>1, SubLedger DEF Chosen
<1>3. CASE ids \cap Ids(v.pending) = {}
  <2>1. S = {}
    BY <1>3, IdsOfChanges DEF Chosen
  <2>2. Final(v.base, S) = v.base /\ M \ S = M
    BY <1>0, <2>1, FinalEmpty
  <2> HIDE DEF S, M
  <2>3. Cleaned(v, v, ids)
    BY <2>2 DEF Cleaned, S, M
  <2> QED BY <1>3, <2>3
<1>4. CASE ids \cap Ids(v.pending) # {}
  <2> DEFINE p == Projected(v, ids)
             rest == Without(v.pending, ids)
             w == MarkPublished(v, ids, p)
  <2>1. p = Final(v.base, S) /\ p \in Inventory
    <3>1. p = Final(v.base, S)
      BY <1>0, ProjectedIsFinal
    <3> QED BY <1>0, <1>2, <3>1, FinalType
  <2>2. rest \in Seq(Mutation) /\ Increasing(rest) /\ Changes(rest) = M \ S
    BY <1>0, WithoutFacts
  <2>3. /\ w \in VaultFile /\ w.inv = v.inv /\ w.pending = rest /\ w.hasBase = (rest # <<>>)
        /\ w.base = IF rest # <<>> THEN p ELSE v.inv
    <3> HIDE DEF p, rest
    <3>1. w = [v EXCEPT !.pending = rest, !.hasBase = rest # <<>>, !.base = IF rest # <<>> THEN p ELSE v.inv]
      BY DEF MarkPublished, rest
    <3> QED BY <1>0, <2>1, <2>2, <3>1 DEF VaultFile
  <2>4. Final(Final(v.base, S), M \ S) = v.inv
    BY <1>0, <1>1, SeparableSplit
  <2> HIDE DEF w, p, rest, S, M
  <2>5. w.base = Final(v.base, S)
    <3>1. CASE rest # <<>>
      BY <2>1, <2>3, <3>1
    <3>2. CASE rest = <<>>
      <4>1. M \ S = {}
        BY <2>2, <3>2, EmptyChanges
      <4>2. Final(p, {}) = p
        BY <2>1, FinalEmpty
      <4> QED BY <2>1, <2>3, <2>4, <3>2, <4>1, <4>2
    <3> QED BY <3>1, <3>2
  <2>6. Sound(w)
    BY <2>2, <2>3, <2>4, <2>5 DEF Sound
  <2>7. Cleaned(v, w, ids)
    BY <2>2, <2>3, <2>5, <2>6 DEF Cleaned, S, M
  <2> QED BY <1>4, <2>7 DEF w, p
<1> QED BY <1>3, <1>4

\* No published change is left to choose.
LEMMA ChosenNone ==
  ASSUME NEW M, NEW ids
  PROVE  Chosen(M \ Chosen(M, ids), ids) = {}
BY DEF Chosen

\* Facts about the intent that every publication step starts from.
LEMMA IntentFacts ==
  ASSUME CoreInv
  PROVE  /\ intent \in [state: {"none", "prepared", "ready", "ambiguous", "finalization_failed"},
                        scope: {"none", "all", "only"}, ids: SUBSET Nat, target: Nat, prerequisite: Nat]
         /\ intent # NoIntent => intent.scope \in {"all", "only"} /\ intent.state # "none"
         /\ remote \in [number: Nat, inv: Inventory] /\ recorded \in Nat /\ published \in Nat
         /\ NoIntent \in [state: {"none", "prepared", "ready", "ambiguous", "finalization_failed"},
                          scope: {"none", "all", "only"}, ids: SUBSET Nat, target: Nat, prerequisite: Nat]
         /\ NoIntent.state = "none" /\ NoIntent.scope = "none" /\ NoIntent.ids = {}
         /\ NoBlob \in [number: Nat, inv: Inventory] /\ Idle.pc = "idle" /\ Idle.blob = NoBlob
<1>1. NoBlob \in [number: Nat, inv: Inventory]
  BY EmptyInventoryType DEF NoBlob
<1>2. recorded \in Nat /\ published \in Nat
  BY LedgerBounds DEF CoreInv, Typed
<1>3. intent # NoIntent => intent.scope \in {"all", "only"} /\ intent.state # "none"
  BY DEF CoreInv, Typed, Publication
<1> QED BY <1>1, <1>2, <1>3 DEF CoreInv, Typed, NoIntent, Idle

\* Recording a change.
LEMMA RecordStep ==
  ASSUME CoreInv, NEW after, NEW m, Records(m, recorded + 1, vault.inv, after), RecordChange(after, m)
  PROVE  /\ CoreInv'
         /\ Changes(vault.pending)' = Changes(vault.pending) \cup {m} /\ vault.base' = vault.base
         /\ \A o \in Changes(vault.pending) : o.id < m.id
<1> DEFINE M == Changes(vault.pending)
<1>0. /\ Sound(vault) /\ vault \in VaultFile /\ vault.base \in Inventory /\ vault.inv \in Inventory
      /\ vault.pending \in Seq(Mutation) /\ Increasing(vault.pending)
      /\ vault.inv = Final(vault.base, M) /\ (vault.hasBase <=> vault.pending # <<>>) /\ Ledger(M)
  BY SoundVault DEF Sound, VaultFile
<1>1. recorded \in Nat /\ recorded < MaxMutations /\ recorded' = recorded + 1 /\ MaxMutations \in Nat
  BY IntentFacts, LedgerBounds DEF RecordChange
<1>2. m \in Mutation /\ m.id = recorded + 1 /\ ApplyMutation(vault.inv, m) = after
      /\ after \in Inventory /\ ImportOK(after)
  BY DEF Records
<1>3. \A o \in M : o.id \in 1..recorded
  BY DEF CoreInv, Numbered, Changes
<1>4. \A o \in M : o.id < m.id
  BY <1>1, <1>2, <1>3
<1> HIDE DEF M
<1>5. vault.hasBase = FALSE => vault.base = vault.inv
  <2> SUFFICES ASSUME vault.hasBase = FALSE PROVE vault.base = vault.inv
    OBVIOUS
  <2>1. M = {}
    BY <1>0, EmptyChanges DEF M
  <2> QED BY <1>0, <2>1, FinalEmpty
<1>6. /\ vault' = [inv |-> after, hasBase |-> TRUE, pending |-> Append(vault.pending, m),
                   base |-> IF vault.hasBase THEN vault.base ELSE vault.inv]
      /\ vault.hasBase \in BOOLEAN
  BY <1>0 DEF RecordChange, Record, VaultFile
<1>7. vault.base' = vault.base /\ vault.inv' = after /\ vault.hasBase' = TRUE /\ vault.pending' = Append(vault.pending, m)
  BY <1>5, <1>6
<1>8. /\ vault.pending' \in Seq(Mutation) /\ Increasing(vault.pending') /\ vault.pending' # <<>>
      /\ Changes(vault.pending') = M \cup {m}
  BY <1>0, <1>2, <1>4, <1>7, AppendFacts DEF M
<1>9. vault' \in VaultFile
  BY <1>0, <1>2, <1>6, <1>8, <1>7 DEF VaultFile
<1>10. vault.inv' = Final(vault.base', Changes(vault.pending'))
  BY <1>0, <1>2, <1>4, <1>7, <1>8, FinalAdd
<1>11. /\ UNCHANGED <<remote, intent, publisher, published, refused>>
  BY DEF RecordChange
<1>12. Typed'
  BY <1>1, <1>9, <1>11 DEF CoreInv, Typed, VaultFile
<1>13. Numbered'
  <2>1. \A i \in DOMAIN vault.pending' : vault.pending'[i] \in M \cup {m}
    BY <1>8 DEF Changes
  <2>2. \A o \in M \cup {m} : o.id \in 1..(recorded + 1)
    BY <1>1, <1>2, <1>3
  <2>3. /\ intent.ids \subseteq 1..(recorded + 1)
        /\ refused.required \cup {refused.id} \subseteq 0..(recorded + 1)
    BY <1>1 DEF CoreInv, Numbered
  <2> QED BY <1>1, <1>8, <1>11, <2>1, <2>2, <2>3 DEF Numbered, Increasing
<1>14. Explained'
  BY <1>7, <1>8, <1>10 DEF Explained
<1>15. Chosen(M \cup {m}, intent.ids) = Chosen(M, intent.ids)
  <2>1. m.id \notin intent.ids
    BY <1>1, <1>2 DEF CoreInv, Numbered
  <2> QED BY <2>1 DEF Chosen
<1>16. Separable(M \cup {m}, intent.scope, intent.ids)
  <2>1. Separable(M, intent.scope, intent.ids)
    BY DEF CoreInv, Publication, M
  <2>2. \A o \in Chosen(M, intent.ids) : o \in M
    BY DEF Chosen
  <2>3. \A o \in M : o.id < m.id /\ ~ (m.id < o.id)
    BY <1>1, <1>2, <1>3, <1>4
  <2> QED BY <1>15, <2>1, <2>2, <2>3 DEF Separable
<1>17. Ids(vault.pending) \subseteq Ids(vault.pending')
  BY <1>8, IdsOfChanges DEF M
<1>18. Publication'
  <2>1. Publication /\ (Stored' <=> Stored)
    BY <1>11 DEF CoreInv, Stored
  <2> QED BY <1>7, <1>8, <1>11, <1>15, <1>16, <1>17, <2>1 DEF Publication, M
<1>19. Planned'
  <2> SUFFICES ASSUME NEW e \in M \cup {m}, NEW l \in M \cup {m}, e.id < l.id, Needs(e, l),
                      l.id \in refused.required \cup {refused.id}
               PROVE  e.id \in refused.required \cup {refused.id}
    BY <1>8, <1>11 DEF Planned
  <2>1. m.id \notin refused.required \cup {refused.id}
    BY <1>1, <1>2 DEF CoreInv, Numbered
  <2>2. l # m /\ l \in M
    BY <2>1
  <2>3. e # m /\ e \in M
    BY <1>1, <1>2, <1>3, <2>2
  <2> QED BY <2>2, <2>3 DEF CoreInv, Planned, M
<1>20. ImportOK(vault.inv)'
  BY <1>2, <1>7
<1> QED BY <1>4, <1>7, <1>8, <1>12, <1>13, <1>14, <1>18, <1>19, <1>20 DEF CoreInv, M

\* Saving an intent for changes that can go out alone.
LEMMA SaveIntentStep ==
  ASSUME CoreInv, ~ Stored, NEW scope \in {"all", "only"}, NEW ids, ids \subseteq Ids(vault.pending),
         Separable(Changes(vault.pending), scope, ids), SaveIntent(scope, ids),
         UNCHANGED <<vault, remote, recorded, refused>>
  PROVE  CoreInv' /\ ~ Stored'
<1> DEFINE M == Changes(vault.pending)
<1>0. Sound(vault) /\ Ledger(M) /\ vault \in VaultFile /\ vault.base \in Inventory
      /\ vault.pending \in Seq(Mutation) /\ Increasing(vault.pending)
  BY SoundVault DEF Sound, VaultFile
<1>1. /\ recorded \in Nat /\ published \in Nat /\ MaxPublications \in Nat /\ remote \in [number: Nat, inv: Inventory]
      /\ remote.number <= published /\ remote.inv = vault.base
  BY IntentFacts, LedgerBounds DEF CoreInv, Publication
<1>2. /\ published < MaxPublications /\ published' = published + 1
      /\ intent' = [state |-> "prepared", scope |-> scope, ids |-> ids,
                    target |-> published + 1, prerequisite |-> remote.number]
      /\ publisher' = [pc |-> "prepared", blob |-> [number |-> published + 1, inv |-> Projected(vault, ids)]]
  BY DEF SaveIntent
<1>3. ids \subseteq 1..recorded
  BY DEF CoreInv, Numbered, Ids
<1>4. Projected(vault, ids) = Final(vault.base, Chosen(M, ids)) /\ Projected(vault, ids) \in Inventory
  <2>1. Projected(vault, ids) = Final(vault.base, Chosen(M, ids))
    BY <1>0, ProjectedIsFinal
  <2>2. Ledger(Chosen(M, ids))
    BY <1>0, SubLedger DEF Chosen
  <2> QED BY <1>0, <2>1, <2>2, FinalType
<1>5. /\ intent'.state = "prepared" /\ intent'.scope = scope /\ intent'.ids = ids
      /\ intent'.target = published + 1 /\ intent'.prerequisite = remote.number
      /\ publisher'.pc = "prepared" /\ publisher'.blob.number = published + 1
      /\ publisher'.blob.inv = Final(vault.base, Chosen(M, ids))
  BY <1>2, <1>4
<1>6. intent' # NoIntent /\ ~ Stored'
  BY <1>1, <1>5, IntentFacts DEF Stored
<1>7. Typed'
  <2>1. ids \in SUBSET Nat
    BY <1>3
  <2> QED BY <1>1, <1>2, <1>4, <2>1 DEF CoreInv, Typed
<1>8. Numbered'
  BY <1>3, <1>5 DEF CoreInv, Numbered
<1>9. Explained' /\ Planned' /\ ImportOK(vault.inv)'
  BY DEF CoreInv, Explained, Planned
<1>10. Publication'
  BY <1>1, <1>2, <1>5, <1>6 DEF Publication
<1> QED BY <1>6, <1>7, <1>8, <1>9, <1>10 DEF CoreInv

\* Dropping an intent whose blob never reached the server.
LEMMA DropIntentStep ==
  ASSUME CoreInv, ~ Stored, intent' = NoIntent, publisher' = Idle, UNCHANGED <<vault, remote, recorded, published>>,
         refused' \in [id: Nat, required: SUBSET Nat], refused'.required \cup {refused'.id} \subseteq 0..recorded, Planned'
  PROVE  CoreInv' /\ ~ Stored'
<1>1. ~ Stored'
  BY DEF Stored
<1>2. Typed' /\ Numbered'
  BY IntentFacts DEF CoreInv, Typed, Numbered, Idle
<1>3. Explained' /\ ImportOK(vault.inv)'
  BY DEF CoreInv, Explained
<1>4. Separable(Changes(vault.pending), NoIntent.scope, NoIntent.ids)
  BY IntentFacts DEF Separable
<1>5. Publication'
  BY <1>1, <1>4, IntentFacts DEF CoreInv, Publication
<1> QED BY <1>1, <1>2, <1>3, <1>5 DEF CoreInv

\* push --only: the change goes out alone, or a plan is named.
LEMMA PublishOnlyStep ==
  ASSUME CoreInv, ~ Stored, publisher = Idle, NEW id \in Ids(vault.pending), PublishOnly(id),
         UNCHANGED <<vault, remote, recorded>>
  PROVE  CoreInv' /\ ~ Stored'
<1> DEFINE required == Dependencies(vault.pending, PendingIndex(vault, id))
<1>0. vault.pending \in Seq(Mutation) /\ Increasing(vault.pending) /\ recorded \in Nat
  BY SoundVault, IntentFacts DEF Sound, VaultFile
<1>1. CASE required = {} /\ SaveIntent("only", {id}) /\ UNCHANGED refused
  <2>1. Separable(Changes(vault.pending), "only", {id})
    BY <1>0, <1>1, NoDependencies
  <2>2. {id} \subseteq Ids(vault.pending)
    OBVIOUS
  <2> QED BY <1>1, <2>1, <2>2, SaveIntentStep
<1>2. CASE /\ required # {}
           /\ refused' = [id |-> id, required |-> {vault.pending[i].id : i \in required}]
           /\ intent' = NoIntent
           /\ UNCHANGED <<publisher, published>>
  <2>1. required \subseteq DOMAIN vault.pending
    <3>1. DOMAIN vault.pending = 1..Len(vault.pending) /\ Len(vault.pending) \in Nat
      BY <1>0, ChangesLedger
    <3>2. PendingIndex(vault, id) \in DOMAIN vault.pending /\ PendingIndex(vault, id) \in Nat \ {0}
      BY <1>0, PendingIndexFacts
    <3>3. required \subseteq 1..(PendingIndex(vault, id) - 1)
      BY <3>2, DependenciesFacts
    <3> QED BY <3>1, <3>2, <3>3
  <2>2. /\ refused'.id = id /\ refused'.required = {vault.pending[i].id : i \in required}
    BY <1>2
  <2>3. \A i \in DOMAIN vault.pending : vault.pending[i].id \in 1..recorded
    BY DEF CoreInv, Numbered
  <2>4. id \in 1..recorded
    BY <2>3 DEF Ids
  <2> HIDE DEF required
  <2>5. refused'.required \cup {refused'.id} \subseteq 0..recorded
    BY <1>0, <2>1, <2>2, <2>3, <2>4
  <2>6. refused' \in [id: Nat, required: SUBSET Nat]
    <3>1. refused'.required \subseteq Nat /\ refused'.id \in Nat
      BY <1>0, <2>5
    <3> QED BY <1>2, <2>2, <3>1
  <2>7. Planned'
    <3> SUFFICES ASSUME NEW e \in Changes(vault.pending), NEW l \in Changes(vault.pending), e.id < l.id, Needs(e, l),
                        l.id \in refused'.required \cup {refused'.id}
                 PROVE  e.id \in refused'.required \cup {refused'.id}
      BY DEF Planned
    <3>1. refused'.required \cup {refused'.id} =
            {vault.pending[i].id : i \in Dependencies(vault.pending, PendingIndex(vault, id))} \cup {id}
      BY <2>2 DEF required
    <3> QED BY <1>0, <3>1, DependenciesPlan
  <2> QED BY <1>2, <2>5, <2>6, <2>7, DropIntentStep
<1>3. \/ required = {} /\ SaveIntent("only", {id}) /\ UNCHANGED refused
      \/ /\ required # {}
         /\ refused' = [id |-> id, required |-> {vault.pending[i].id : i \in required}]
         /\ intent' = NoIntent
         /\ UNCHANGED <<publisher, published>>
  BY DEF PublishOnly
<1> QED BY <1>1, <1>2, <1>3

\* A step that leaves ledger and refusal alone keeps the plan.
LEMMA KeptPlan ==
  ASSUME CoreInv, UNCHANGED <<vault, recorded, refused>>
  PROVE  /\ refused' \in [id: Nat, required: SUBSET Nat] /\ refused'.required \cup {refused'.id} \subseteq 0..recorded
         /\ Planned'
BY DEF CoreInv, Typed, Numbered, Planned

\* push and push --only keep the invariant.
LEMMA PublishStep ==
  ASSUME CoreInv, Publish
  PROVE  CoreInv'
<1>1. ~ Stored /\ publisher = Idle /\ UNCHANGED <<vault, remote, recorded>>
  BY DEF Publish, Stored
<1>2. CASE SaveIntent("all", Ids(vault.pending)) /\ UNCHANGED refused
  <2>1. Separable(Changes(vault.pending), "all", Ids(vault.pending))
    BY IdsOfChanges DEF Separable, Chosen
  <2> QED BY <1>1, <1>2, <2>1, SaveIntentStep
<1>3. CASE \E id \in Ids(vault.pending) : PublishOnly(id)
  BY <1>1, <1>3, PublishOnlyStep
<1> QED BY <1>2, <1>3 DEF Publish

\* Reading the server again, or failing to, keeps the invariant.
LEMMA PrepareStep ==
  ASSUME CoreInv, PreparePublication
  PROVE  CoreInv'
<1>0. /\ publisher.pc = "prepared" /\ intent # NoIntent /\ intent.state = "prepared" /\ ~ Stored
      /\ UNCHANGED <<vault, remote, recorded, published, refused>>
  BY DEF CoreInv, Publication, PreparePublication
<1>1. CASE intent' = NoIntent /\ publisher' = Idle
  BY <1>0, <1>1, KeptPlan, DropIntentStep
<1>2. CASE /\ intent' = [intent EXCEPT !.state = "ready", !.prerequisite = remote.number]
           /\ publisher' = [publisher EXCEPT !.pc = "ready"]
  <2>1. /\ intent'.state = "ready" /\ intent'.prerequisite = remote.number /\ intent'.scope = intent.scope
        /\ intent'.ids = intent.ids /\ intent'.target = intent.target
        /\ intent' \in [state: {"none", "prepared", "ready", "ambiguous", "finalization_failed"},
                        scope: {"none", "all", "only"}, ids: SUBSET Nat, target: Nat, prerequisite: Nat]
    BY <1>2, IntentFacts
  <2>2. /\ publisher'.pc = "ready" /\ publisher'.blob = publisher.blob
        /\ publisher' \in [pc: {"idle", "prepared", "ready", "answered"}, blob: [number: Nat, inv: Inventory]]
    BY <1>2 DEF CoreInv, Typed
  <2>3. intent' # NoIntent /\ ~ Stored' /\ intent'.prerequisite # intent'.target
    BY <1>0, <2>1, IntentFacts DEF Stored
  <2>4. Typed' /\ Numbered'
    BY <1>0, <2>1, <2>2 DEF CoreInv, Typed, Numbered
  <2>5. Explained' /\ Planned' /\ ImportOK(vault.inv)'
    BY <1>0 DEF CoreInv, Explained, Planned
  <2>6. Publication'
    BY <1>0, <2>1, <2>2, <2>3 DEF CoreInv, Publication
  <2> QED BY <2>4, <2>5, <2>6 DEF CoreInv
<1> QED BY <1>1, <1>2 DEF PreparePublication

\* Sending keeps the invariant, whether answered, refused or ambiguous.
LEMMA SendStep ==
  ASSUME CoreInv, SendPublication
  PROVE  CoreInv'
<1>0. /\ publisher.pc = "ready" /\ intent # NoIntent /\ intent.state = "ready" /\ ~ Stored
      /\ publisher.blob.number = intent.target /\ intent.target <= published
      /\ publisher.blob.inv = Final(vault.base, Chosen(Changes(vault.pending), intent.ids))
      /\ publisher.blob \in [number: Nat, inv: Inventory]
      /\ intent.ids \subseteq Ids(vault.pending)
      /\ remote.inv = vault.base /\ remote.number # intent.target
      /\ UNCHANGED <<vault, recorded, published, refused>>
  BY DEF CoreInv, Typed, Publication, SendPublication, Stored
<1>1. Explained' /\ Planned' /\ ImportOK(vault.inv)'
  BY <1>0 DEF CoreInv, Explained, Planned
<1>2. CASE /\ remote' = publisher.blob
           /\ publisher' = [publisher EXCEPT !.pc = "answered"]
           /\ UNCHANGED intent
  <2>1. /\ publisher'.pc = "answered" /\ publisher'.blob = publisher.blob
        /\ publisher' \in [pc: {"idle", "prepared", "ready", "answered"}, blob: [number: Nat, inv: Inventory]]
    BY <1>2 DEF CoreInv, Typed
  <2>2. Stored'
    BY <1>0, <1>2 DEF Stored
  <2>3. Typed' /\ Numbered'
    BY <1>0, <1>2, <2>1 DEF CoreInv, Typed, Numbered
  <2>4. Publication'
    BY <1>0, <1>2, <2>1, <2>2 DEF CoreInv, Publication
  <2> QED BY <1>1, <2>3, <2>4 DEF CoreInv
<1>3. CASE intent' = NoIntent /\ publisher' = Idle /\ UNCHANGED remote
  BY <1>0, <1>3, KeptPlan, DropIntentStep
<1>4. CASE /\ remote' \in {remote, publisher.blob}
           /\ intent' = [intent EXCEPT !.state = "ambiguous"] /\ publisher' = Idle
  <2>1. /\ intent'.state = "ambiguous" /\ intent'.prerequisite = intent.prerequisite /\ intent'.scope = intent.scope
        /\ intent'.ids = intent.ids /\ intent'.target = intent.target
        /\ intent' \in [state: {"none", "prepared", "ready", "ambiguous", "finalization_failed"},
                        scope: {"none", "all", "only"}, ids: SUBSET Nat, target: Nat, prerequisite: Nat]
    BY <1>4, IntentFacts
  <2>2. intent' # NoIntent /\ (Stored' <=> remote'.number = intent.target)
    BY <2>1, IntentFacts DEF Stored
  <2>3. Typed' /\ Numbered'
    BY <1>0, <1>4, <2>1, IntentFacts DEF CoreInv, Typed, Numbered, Idle
  <2>4. Publication'
    <3>1. CASE remote' = remote
      <4>1. ~ Stored'
        BY <1>0, <2>2, <3>1
      <4> QED BY <1>0, <1>4, <2>1, <2>2, <3>1, <4>1, IntentFacts DEF CoreInv, Publication
    <3>2. CASE remote' = publisher.blob
      <4>1. Stored'
        BY <1>0, <2>2, <3>2
      <4> QED BY <1>0, <1>4, <2>1, <2>2, <3>2, <4>1, IntentFacts DEF CoreInv, Publication
    <3> QED BY <1>4, <3>1, <3>2
  <2> QED BY <1>1, <2>3, <2>4 DEF CoreInv
<1> QED BY <1>2, <1>3, <1>4 DEF SendPublication

\* A crash of the publisher keeps the invariant.
LEMMA CrashStep ==
  ASSUME CoreInv, Crash
  PROVE  CoreInv'
<1>1. publisher' = Idle /\ UNCHANGED <<vault, remote, intent, recorded, published, refused>>
  BY DEF Crash
<1>2. Typed' /\ Numbered' /\ Explained' /\ Planned' /\ ImportOK(vault.inv)'
  BY <1>1, IntentFacts DEF CoreInv, Typed, Numbered, Explained, Planned, Idle
<1>3. Publication'
  BY <1>1, IntentFacts DEF CoreInv, Publication, Stored
<1> QED BY <1>2, <1>3 DEF CoreInv

\* Taking published changes off the ledger, once, twice or halfway.
LEMMA FinalizeStep ==
  ASSUME CoreInv, Stored, FinalizePublishingIntent, publisher' = Idle, publisher = Idle \/ publisher.pc = "answered",
         UNCHANGED <<remote, recorded, published, refused>>
  PROVE  /\ CoreInv'
         /\ vault' = vault \/ Cleaned(vault, vault', intent.ids)
<1> DEFINE M == Changes(vault.pending)
           clean == IF intent.ids \cap Ids(vault.pending) = {} THEN vault
                    ELSE MarkPublished(vault, intent.ids, Projected(vault, intent.ids))
<1>0. /\ intent # NoIntent /\ intent.scope \in {"all", "only"} /\ Separable(M, intent.scope, intent.ids)
      /\ intent.state \notin {"none", "prepared"} /\ remote.number = intent.target
      /\ remote.inv = Final(vault.base, Chosen(M, intent.ids))
  <2>1. intent # NoIntent /\ remote.number = intent.target
    BY DEF Stored
  <2>2. intent.scope \in {"all", "only"}
    BY <2>1, IntentFacts
  <2> QED BY <2>1, <2>2 DEF CoreInv, Publication
<1>1. Cleaned(vault, clean, intent.ids)
  BY <1>0, SoundVault, CleanFacts
<1>2. \/ vault' = clean /\ intent' = NoIntent
      \/ vault' \in {vault, clean} /\ intent' = [intent EXCEPT !.state = "finalization_failed"]
      \/ vault' \in {vault, clean} /\ UNCHANGED intent
  BY DEF FinalizePublishingIntent
<1> HIDE DEF clean
<1>3. vault' \in {vault, clean}
  BY <1>2
<1> DEFINE N == Changes(vault.pending)'
<1>4. /\ vault' \in VaultFile /\ Increasing(vault.pending') /\ vault.inv' = vault.inv /\ Explained'
      /\ N \subseteq M
  BY <1>1, <1>3, SoundVault DEF Cleaned, Sound, Explained
<1>5. Typed' /\ Numbered'
  <2>1. /\ intent' \in [state: {"none", "prepared", "ready", "ambiguous", "finalization_failed"},
                        scope: {"none", "all", "only"}, ids: SUBSET Nat, target: Nat, prerequisite: Nat]
        /\ intent'.ids \subseteq 1..recorded
    <3>1. NoIntent.ids \subseteq 1..recorded /\ intent.ids \subseteq 1..recorded
      BY IntentFacts DEF CoreInv, Numbered
    <3> QED BY <1>2, <3>1, IntentFacts
  <2>2. Typed'
    BY <1>4, <2>1, IntentFacts DEF CoreInv, Typed, Idle, VaultFile
  <2>3. \A o \in M : o.id \in 1..recorded
    BY DEF CoreInv, Numbered, Changes
  <2>4. \A i \in DOMAIN vault.pending' : vault.pending'[i].id \in 1..recorded
    <3>1. \A i \in DOMAIN vault.pending' : vault.pending'[i] \in N
      BY DEF Changes
    <3> QED BY <1>4, <2>3, <3>1
  <2>5. Numbered'
    BY <1>4, <2>1, <2>4 DEF CoreInv, Numbered, Increasing
  <2> QED BY <2>2, <2>5
<1>6. Planned' /\ ImportOK(vault.inv)'
  BY <1>4 DEF CoreInv, Planned
<1>7. ASSUME vault' = clean PROVE /\ vault.base' = remote.inv /\ Chosen(N, intent.ids) = {}
                                  /\ Final(vault.base', {}) = vault.base'
  <2>1. N = M \ Chosen(M, intent.ids) /\ vault.base' = remote.inv /\ vault.base' \in Inventory
    BY <1>0, <1>1, <1>4, <1>7 DEF Cleaned, VaultFile
  <2> QED BY <2>1, ChosenNone, FinalEmpty
<1>8. ASSUME NEW scope, NEW ids, Chosen(N, ids) = {} PROVE Separable(N, scope, ids)
  BY <1>8 DEF Separable
<1>9. Publication'
  <2>1. CASE vault' = clean /\ intent' = NoIntent
    <3>1. ~ Stored' /\ Separable(N, NoIntent.scope, NoIntent.ids)
      BY <2>1, IntentFacts DEF Stored, Separable
    <3> QED BY <1>7, <2>1, <3>1, IntentFacts DEF CoreInv, Publication
  <2>2. CASE vault' \in {vault, clean} /\ intent' # NoIntent
    <3>1. /\ intent'.scope = intent.scope /\ intent'.ids = intent.ids /\ intent'.target = intent.target
          /\ intent'.prerequisite = intent.prerequisite /\ intent'.state \notin {"none", "prepared"}
      BY <1>0, <1>2, <2>2, IntentFacts
    <3>2. Stored'
      BY <1>0, <2>2, <3>1 DEF Stored
    <3>3. Separable(N, intent.scope, intent.ids) /\ remote.inv = Final(vault.base', Chosen(N, intent.ids))
      <4>1. CASE vault' = vault
        BY <1>0, <4>1
      <4>2. CASE vault' = clean
        BY <1>7, <1>8, <4>2
      <4> QED BY <1>3, <4>1, <4>2
    <3> QED BY <1>0, <2>2, <3>1, <3>2, <3>3, IntentFacts DEF CoreInv, Publication
  <2>3. intent' = NoIntent \/ intent' # NoIntent
    OBVIOUS
  <2>4. intent' = NoIntent => vault' = clean
    <3>1. [intent EXCEPT !.state = "finalization_failed"] # NoIntent
      BY IntentFacts
    <3> QED BY <1>0, <1>2, <3>1
  <2> QED BY <1>3, <2>1, <2>2, <2>3, <2>4
<1>10. vault' = vault \/ Cleaned(vault, vault', intent.ids)
  BY <1>1, <1>3
<1> QED BY <1>4, <1>5, <1>6, <1>9, <1>10 DEF CoreInv

\* The publisher finalizes only what the server holds.
LEMMA FinalizeActionStep ==
  ASSUME CoreInv, Finalize
  PROVE  CoreInv' /\ (vault' = vault \/ Cleaned(vault, vault', intent.ids)) /\ Stored
<1>1. Stored /\ publisher.pc = "answered"
  BY DEF CoreInv, Publication, Finalize
<1> QED BY <1>1, FinalizeStep DEF Finalize

\* A publication that never happened goes back to pending, or starts again.
LEMMA ReturnStep ==
  ASSUME CoreInv, ~ Stored, publisher = Idle, intent # NoIntent, ReturnToPending, UNCHANGED <<vault, remote, recorded>>
  PROVE  CoreInv' /\ ~ Stored'
<1>1. CASE intent' = NoIntent /\ UNCHANGED <<publisher, published, refused>>
  BY <1>1, KeptPlan, DropIntentStep
<1>2. CASE /\ intent.scope = "all"
           /\ intent.ids \subseteq Ids(vault.pending)
           /\ SaveIntent("all", intent.ids)
           /\ UNCHANGED refused
  <2>1. Separable(Changes(vault.pending), "all", intent.ids)
    BY <1>2 DEF CoreInv, Publication
  <2> QED BY <1>2, <2>1, SaveIntentStep
<1>3. CASE \E id \in Ids(vault.pending) : intent.ids = {id} /\ PublishOnly(id)
  BY <1>3, PublishOnlyStep
<1> QED BY <1>1, <1>2, <1>3 DEF ReturnToPending

\* Recovery keeps the invariant, and finalizes only what the server holds.
LEMMA ReconcileStep ==
  ASSUME CoreInv, Reconcile
  PROVE  CoreInv' /\ (vault' = vault \/ (Cleaned(vault, vault', intent.ids) /\ Stored))
<1>0. publisher = Idle /\ intent # NoIntent /\ UNCHANGED <<remote, recorded>>
  BY DEF Reconcile
<1>1. CASE intent.state = "prepared" /\ ReturnToPending /\ UNCHANGED vault
  <2>1. ~ Stored
    BY <1>1 DEF CoreInv, Publication
  <2> QED BY <1>0, <1>1, <2>1, ReturnStep
<1>2. CASE /\ intent.state = "finalization_failed"
           /\ FinalizePublishingIntent
           /\ UNCHANGED <<publisher, published, refused>>
  <2>1. Stored
    BY <1>2 DEF CoreInv, Publication
  <2> QED BY <1>0, <1>2, <2>1, FinalizeStep
<1>3. CASE /\ remote.number = intent.target
           /\ FinalizePublishingIntent
           /\ UNCHANGED <<publisher, published, refused>>
  <2>1. Stored
    BY <1>0, <1>3 DEF Stored
  <2> QED BY <1>0, <1>3, <2>1, FinalizeStep
<1>4. CASE /\ remote.number = intent.prerequisite
           /\ ReturnToPending
           /\ UNCHANGED vault
  <2>1. ~ Stored
    BY <1>0, <1>4 DEF CoreInv, Publication, Stored
  <2> QED BY <1>0, <1>4, <2>1, ReturnStep
<1> QED BY <1>1, <1>2, <1>3, <1>4 DEF Reconcile

\* The commands record changes that lead from the inventory to their candidate.
LEMMA HostCommandRecords ==
  ASSUME CoreInv, NEW change \in HostChanges, HostCommand(change)
  PROVE  \E m, after : Records(m, recorded + 1, vault.inv, after) /\ RecordChange(after, m)
<1> DEFINE after == BuildHostCandidate(vault.inv, change).inv
           m == HostMutation(recorded + 1, vault.inv, after, change.alias)
<1>0. vault.inv \in Inventory /\ ImportOK(vault.inv) /\ recorded + 1 \in Nat /\ change.alias \in Names
  BY IntentFacts, LedgerInputs DEF CoreInv, Typed, HostChange
<1>1. HostCommandOK(change) /\ BuildHostCandidate(vault.inv, change).ok
  BY DEF HostCommand, ApplyHost
<1>2. HostStep(vault.inv, after, change.alias)
  BY <1>0, <1>1, BuildHostCandidateStep
<1>3. RecordChange(after, m)
  BY DEF HostCommand, ApplyHost, HostMutation
<1> HIDE DEF after
<1>4. Records(m, recorded + 1, vault.inv, after)
  BY <1>0, <1>2, HostRecords
<1> HIDE DEF m
<1> QED BY <1>3, <1>4

\* keys remove records a change that leads to its candidate.
LEMMA KeysRemoveRecords ==
  ASSUME CoreInv, NEW key \in Names, KeysRemove(key)
  PROVE  \E m, after : Records(m, recorded + 1, vault.inv, after) /\ RecordChange(after, m)
<1> DEFINE after == [vault.inv EXCEPT !.keys[key] = 0]
           m == PlainMutation(recorded + 1, "key", vault.inv, after, EmptyInventory)
<1>0. vault.inv \in Inventory /\ ImportOK(vault.inv) /\ recorded + 1 \in Nat
  BY IntentFacts DEF CoreInv, Typed
<1>1. RecordChange(after, m) /\ References(vault.inv, key) = {}
  BY DEF KeysRemove, RemoveSavedKey, PlainMutation
<1>2. Records(m, recorded + 1, vault.inv, after)
  BY <1>0, <1>1, KeyRecords
<1> HIDE DEF m, after
<1> QED BY <1>1, <1>2

\* import-json records a change that leads to its candidate.
LEMMA ImportRecords ==
  ASSUME CoreInv, NEW servers \in Imports, NEW replace \in BOOLEAN, ImportJSON(servers, replace)
  PROVE  \E m, after : Records(m, recorded + 1, vault.inv, after) /\ RecordChange(after, m)
<1> DEFINE imported == LoadServerImport(servers)
           after == IF replace THEN imported ELSE MergeVaults(vault.inv, imported)
           m == PlainMutation(recorded + 1, "bulk", vault.inv, after, after)
<1>0. vault.inv \in Inventory /\ ImportOK(vault.inv) /\ recorded + 1 \in Nat
  BY IntentFacts DEF CoreInv, Typed
<1>1. RecordChange(after, m) /\ ImportOK(imported)
  BY DEF ImportJSON, ApplyImport, PlainMutation
<1>2. imported \in Inventory
  BY LedgerInputs, LoadServerImportType
<1> HIDE DEF imported
<1>3. after \in Inventory /\ ImportOK(after)
  BY <1>0, <1>1, <1>2, MergeVaultsFacts
<1> HIDE DEF after
<1>4. Records(m, recorded + 1, vault.inv, after)
  BY <1>0, <1>3, BulkRecords
<1> HIDE DEF m
<1> QED BY <1>1, <1>4

\* A fresh ledger satisfies the invariant.
LEMMA CoreInit == Init => CoreInv
<1> SUFFICES ASSUME NEW inv \in InitialInventories,
                    vault = [inv |-> inv, base |-> inv, hasBase |-> FALSE, pending |-> <<>>],
                    remote = [number |-> 0, inv |-> inv],
                    intent = NoIntent, publisher = Idle, recorded = 0, published = 0,
                    refused = [id |-> 0, required |-> {}]
             PROVE  CoreInv
  BY DEF Init
<1>1. inv \in Inventory /\ ImportOK(inv)
  BY LedgerInputs
<1>2. vault.inv = inv /\ vault.base = inv /\ vault.hasBase = FALSE /\ vault.pending = <<>> /\ <<>> \in Seq(Mutation)
  OBVIOUS
<1>3. Changes(<<>>) = {} /\ Final(inv, {}) = inv
  BY <1>1, FinalEmpty DEF Changes
<1>4. /\ NoIntent \in [state: {"none", "prepared", "ready", "ambiguous", "finalization_failed"},
                       scope: {"none", "all", "only"}, ids: SUBSET Nat, target: Nat, prerequisite: Nat]
      /\ NoIntent.state = "none" /\ NoIntent.ids = {} /\ Idle.pc = "idle" /\ NoIntent.scope = "none"
      /\ Idle \in [pc: {"idle", "prepared", "ready", "answered"}, blob: [number: Nat, inv: Inventory]]
  BY EmptyInventoryType DEF NoIntent, Idle, NoBlob
<1>5. Typed
  BY <1>1, <1>2, <1>4, LedgerBounds DEF Typed
<1>6. Numbered
  BY <1>2, <1>4 DEF Numbered
<1>7. Explained
  BY <1>2, <1>3 DEF Explained
<1>8. Separable({}, NoIntent.scope, NoIntent.ids)
  BY DEF Separable, Chosen
<1>a. Changes(vault.pending) = {} /\ ~ Stored
  BY <1>2, <1>3 DEF Stored
<1>b. Separable(Changes(vault.pending), intent.scope, intent.ids)
  BY <1>8, <1>a
<1>9. Publication
  BY <1>2, <1>4, <1>a, <1>b DEF Publication
<1>10. Planned
  BY <1>a DEF Planned
<1> QED BY <1>1, <1>2, <1>5, <1>6, <1>7, <1>9, <1>10 DEF CoreInv

\* Every action keeps the invariant.
LEMMA CoreStep == CoreInv /\ [Next]_ledgerVars => CoreInv'
<1> SUFFICES ASSUME CoreInv, [Next]_ledgerVars PROVE CoreInv'
  OBVIOUS
<1>0. ASSUME NEW m, NEW after, Records(m, recorded + 1, vault.inv, after), RecordChange(after, m) PROVE CoreInv'
  BY <1>0, RecordStep
<1>1. CASE \E change \in HostChanges : HostCommand(change)
  BY <1>0, <1>1, HostCommandRecords
<1>2. CASE \E key \in Names : KeysRemove(key)
  BY <1>0, <1>2, KeysRemoveRecords
<1>3. CASE \E servers \in Imports, replace \in BOOLEAN : ImportJSON(servers, replace)
  BY <1>0, <1>3, ImportRecords
<1>4. CASE Publish
  BY <1>4, PublishStep
<1>5. CASE PreparePublication
  BY <1>5, PrepareStep
<1>6. CASE SendPublication
  BY <1>6, SendStep
<1>7. CASE Finalize
  BY <1>7, FinalizeActionStep
<1>8. CASE Crash
  BY <1>8, CrashStep
<1>9. CASE Reconcile
  BY <1>9, ReconcileStep
<1>10. CASE UNCHANGED ledgerVars
  BY <1>10 DEF ledgerVars, CoreInv, Typed, Numbered, Explained, Publication, Planned, Stored
<1> QED BY <1>1, <1>2, <1>3, <1>4, <1>5, <1>6, <1>7, <1>8, <1>9, <1>10 DEF Next

\* The ledger leads from its base to the local inventory, and the server holds the base or
\* the base with the intent's changes, through crashes, lost answers and failed finalizations.
THEOREM CoreCorrect == Spec => []CoreInv
BY CoreInit, CoreStep, PTL DEF Spec

\* The ledger, the intent and the blob keep their types (TypeOK).
THEOREM LedgerTypeCorrect == Spec => []TypeOK
<1>1. CoreInv => TypeOK
  <2> SUFFICES ASSUME CoreInv PROVE TypeOK
    OBVIOUS
  <2>1. Ids(vault.pending) \subseteq 1..recorded
    BY DEF CoreInv, Numbered, Ids
  <2> QED BY <2>1 DEF CoreInv, Typed, Numbered, Publication, TypeOK
<1> QED BY <1>1, CoreCorrect, PTL

\* Replaying a ledger in order is what its newest writers leave, so the invariant explains
\* the inventory from the base and from the server's blob.
LEMMA CoreExplains ==
  ASSUME CoreInv
  PROVE  LedgerSound
<1> DEFINE M == Changes(vault.pending)
<1>0. /\ vault.base \in Inventory /\ vault.pending \in Seq(Mutation) /\ Increasing(vault.pending)
      /\ vault.inv = Final(vault.base, M) /\ (vault.hasBase <=> vault.pending # <<>>) /\ Ledger(M)
  BY SoundVault DEF Sound, VaultFile
<1>1. LedgerExplains
  <2>1. ValidateLedger(vault)
    <3>1. ASSUME NEW i \in DOMAIN vault.pending, NEW j \in DOMAIN vault.pending, vault.pending[i].id = vault.pending[j].id
          PROVE  i = j
      <4>1. vault.pending[i].id \in Ids(vault.pending)
        BY DEF Ids
      <4>2. \A k \in DOMAIN vault.pending :
              vault.pending[k].id = vault.pending[i].id => k = PendingIndex(vault, vault.pending[i].id)
        BY <1>0, <4>1, PendingIndexFacts
      <4> QED BY <3>1, <4>2
    <3> QED BY <1>0, <3>1 DEF ValidateLedger
  <2>2. Replay(vault.base, vault.pending) = vault.inv
    BY <1>0, ReplayIsFinal
  <2> QED BY <2>1, <2>2 DEF LedgerExplains
<1>2. NothingLost
  <2> DEFINE stored == IF intent # NoIntent /\ remote.number = intent.target THEN intent.ids ELSE {}
             rest == Without(vault.pending, stored)
  <2>1. rest \in Seq(Mutation) /\ Increasing(rest) /\ Changes(rest) = M \ Chosen(M, stored)
    BY <1>0, WithoutFacts
  <2>2. remote.inv \in Inventory
    BY DEF CoreInv, Typed
  <2>3. Replay(remote.inv, rest) = Final(remote.inv, M \ Chosen(M, stored))
    BY <2>1, <2>2, ReplayIsFinal
  <2>4. Final(remote.inv, M \ Chosen(M, stored)) = vault.inv
    <3>1. CASE Stored
      <4>1. stored = intent.ids /\ intent.scope \in {"all", "only"}
        BY <3>1, IntentFacts DEF Stored
      <4>2. remote.inv = Final(vault.base, Chosen(M, intent.ids)) /\ Separable(M, intent.scope, intent.ids)
        BY <3>1 DEF CoreInv, Publication
      <4> HIDE DEF stored, M
      <4>3. Final(Final(vault.base, Chosen(M, intent.ids)), M \ Chosen(M, intent.ids)) = Final(vault.base, M)
        BY <1>0, <4>1, <4>2, SeparableSplit
      <4> QED BY <1>0, <4>1, <4>2, <4>3
    <3>2. CASE ~ Stored
      <4>1. stored = {} /\ remote.inv = vault.base
        BY <3>2 DEF CoreInv, Publication, Stored
      <4>2. M \ Chosen(M, {}) = M
        BY DEF Chosen
      <4> QED BY <1>0, <4>1, <4>2
    <3> QED BY <3>1, <3>2
  <2> HIDE DEF rest
  <2>5. Replay(remote.inv, rest) = vault.inv
    BY <2>3, <2>4
  <2> QED BY <2>5 DEF NothingLost, rest
<1> QED BY <1>1, <1>2 DEF LedgerSound

\* Replaying what is pending over the base, and what the server lacks over its blob, gives
\* the local inventory, whatever was published and whatever failed (project, markPublished).
THEOREM LedgerIsSound == Spec => []LedgerSound
BY CoreExplains, CoreCorrect, PTL

\* The first change of a plan needs nothing: what it needed would be in the plan, and older.
LEMMA CorePlan ==
  ASSUME CoreInv
  PROVE  RefusalIsAPlan
<1> DEFINE ms == vault.pending
           named == refused.required \cup {refused.id}
           plan == named \cap Ids(ms)
           index(id) == PendingIndex(vault, id)
           Least(id) == \A other \in plan : index(id) <= index(other)
           first == CHOOSE id \in plan : Least(id)
<1>0. ms \in Seq(Mutation) /\ Increasing(ms)
  BY SoundVault DEF Sound, VaultFile
<1>1. \A id \in Ids(ms) : /\ index(id) \in DOMAIN ms /\ index(id) \in Nat \ {0} /\ ms[index(id)].id = id
                          /\ \A i \in DOMAIN ms : ms[i].id = id => i = index(id)
  BY <1>0, PendingIndexFacts
<1> SUFFICES ASSUME plan # {} PROVE DirectDependencies(ms, index(first)) = {}
  BY DEF RefusalIsAPlan
<1>2. first \in plan /\ Least(first)
  <2> DEFINE T == {index(id) : id \in plan}
  <2> HIDE DEF index
  <2>1. T \in SUBSET Nat /\ T # {}
    BY <1>1
  <2>2. PICK x \in T : \A y \in T : x <= y
    BY <2>1, LeastNumber
  <2>3. \E id \in plan : Least(id)
    BY <2>2
  <2> HIDE DEF Least, plan
  <2> QED BY <2>3
<1> HIDE DEF first, index
<1>3. ASSUME NEW j \in DirectDependencies(ms, index(first)) PROVE FALSE
  <2>1. index(first) \in DOMAIN ms /\ index(first) \in Nat \ {0} /\ ms[index(first)].id = first
    BY <1>1, <1>2
  <2>2. j \in 1..(index(first) - 1) /\ Needs(ms[j], ms[index(first)])
    BY DirectIsNeeds
  <2>3. DOMAIN ms = 1..Len(ms) /\ Len(ms) \in Nat
    BY <1>0, ChangesLedger
  <2>4. j \in DOMAIN ms /\ j \in Nat /\ j < index(first)
    BY <2>1, <2>2, <2>3
  <2>5. ms[j] \in Changes(ms) /\ ms[index(first)] \in Changes(ms) /\ ms[j].id < ms[index(first)].id /\ ms[j].id \in Ids(ms)
    BY <1>0, <2>1, <2>4 DEF Changes, Increasing, Ids
  <2>6. ms[j].id \in named
    BY <1>2, <2>1, <2>2, <2>5 DEF CoreInv, Planned
  <2>7. index(first) <= index(ms[j].id) /\ index(ms[j].id) = j
    BY <1>1, <1>2, <2>4, <2>5, <2>6
  <2> QED BY <2>1, <2>4, <2>7
<1> QED BY <1>3

\* A refused push --only names a set of changes that can be pushed one by one in ledger
\* order, until the refused one goes out (dependencies, DependencyError.Required).
THEOREM RefusalNamesAPlan == Spec => []RefusalIsAPlan
BY CorePlan, CoreCorrect, PTL

-----------------------------------------------------------------------------
(* The inventories a ledger leads through.                                 *)

Past(base, M) == /\ base \in Inventory /\ Ledger(M) /\ \A m \in M : m.id \in Nat \ {0}
                 /\ History(base, M)

\* A stage is an inventory, place by place.
LEMMA StageFacts ==
  ASSUME NEW base \in Inventory, NEW M, Ledger(M), NEW x \in Nat
  PROVE  /\ UpTo(M, x) \in SUBSET M /\ Ledger(UpTo(M, x)) /\ Stage(base, M, x) \in Inventory
         /\ \A l \in Places : Value(Stage(base, M, x), l) = FinalValue(base, UpTo(M, x), l)
<1>1. UpTo(M, x) \in SUBSET M
  BY DEF UpTo
<1>2. Ledger(UpTo(M, x))
  BY <1>1, SubLedger
<1>3. Stage(base, M, x) \in Inventory
  BY <1>2, FinalType DEF Stage
<1> QED BY <1>1, <1>2, <1>3, ValueOfFinal DEF Stage

\* The first stage is the base.
LEMMA StageStart ==
  ASSUME NEW base, NEW M, Past(base, M)
  PROVE  Stage(base, M, 0) = base
<1>1. UpTo(M, 0) = {}
  BY DEF Past, UpTo
<1> QED BY <1>1, FinalEmpty DEF Past, Stage

\* From one stage to the next at most one change is applied.
LEMMA StageStep ==
  ASSUME NEW base, NEW M, Past(base, M), NEW y \in Nat \ {0}
  PROVE  \/ Stage(base, M, y) = Stage(base, M, y - 1)
         \/ \E o \in M : o.id = y /\ Stage(base, M, y) = ApplyMutation(Stage(base, M, y - 1), o)
<1>0. base \in Inventory /\ Ledger(M) /\ \A m \in M : m.id \in Nat
  BY DEF Past
<1>1. CASE \A o \in M : o.id # y
  <2>1. UpTo(M, y) = UpTo(M, y - 1)
    BY <1>0, <1>1 DEF UpTo
  <2> QED BY <2>1 DEF Stage
<1>2. ASSUME NEW o \in M, o.id = y PROVE Stage(base, M, y) = ApplyMutation(Stage(base, M, y - 1), o)
  <2>1. UpTo(M, y) = UpTo(M, y - 1) \cup {o}
    <3>1. \A r \in M : r.id = y => r = o
      BY <1>0, <1>2 DEF Ledger
    <3>2. \A r \in M : r.id <= y <=> (r.id <= y - 1 \/ r.id = y)
      BY <1>0
    <3> QED BY <1>2, <3>1, <3>2 DEF UpTo
  <2>2. Ledger(UpTo(M, y - 1)) /\ \A r \in UpTo(M, y - 1) : r.id < o.id
    <3>1. y - 1 \in Nat
      OBVIOUS
    <3>2. \A r \in UpTo(M, y - 1) : r.id < o.id
      BY <1>0, <1>2 DEF UpTo
    <3> QED BY <1>0, <3>1, <3>2, StageFacts
  <2>3. o \in Mutation
    BY <1>0 DEF Ledger
  <2> QED BY <1>0, <2>1, <2>2, <2>3, FinalAdd DEF Stage
<1> QED BY <1>1, <1>2

\* A change leads from the stage before it to its own.
LEMMA StageOf ==
  ASSUME NEW base, NEW M, Past(base, M), NEW j \in M
  PROVE  Stage(base, M, j.id) = ApplyMutation(Stage(base, M, j.id - 1), j) /\ j.id - 1 \in Nat
<1>0. base \in Inventory /\ Ledger(M) /\ \A m \in M : m.id \in Nat \ {0}
  BY DEF Past
<1>1. j.id \in Nat \ {0} /\ j.id - 1 \in Nat
  BY <1>0
<1>2. UpTo(M, j.id) = UpTo(M, j.id - 1) \cup {j}
  <2>1. \A r \in M : r.id = j.id => r = j
    BY <1>0 DEF Ledger
  <2>2. \A r \in M : r.id <= j.id <=> (r.id <= j.id - 1 \/ r.id = j.id)
    BY <1>0
  <2> QED BY <1>1, <2>1, <2>2 DEF UpTo
<1>3. Ledger(UpTo(M, j.id - 1))
  BY <1>0, <1>1, StageFacts
<1>4. \A r \in UpTo(M, j.id - 1) : r.id < j.id
  BY <1>0, <1>1 DEF UpTo
<1>5. j \in Mutation
  BY <1>0 DEF Ledger
<1> QED BY <1>0, <1>1, <1>2, <1>3, <1>4, <1>5, FinalAdd DEF Stage

\* Publishing the first changes of a ledger cuts off its first stages.
LEMMA PrefixStage ==
  ASSUME NEW base, NEW M, Past(base, M), NEW S \in SUBSET M, \A m \in S, o \in M \ S : m.id < o.id
  PROVE  \E N \in Nat : /\ \A m \in M \ S : N < m.id
                        /\ \A x \in Nat : Stage(Final(base, S), M \ S, x) = Stage(base, M, IF x < N THEN N ELSE x)
<1>0. base \in Inventory /\ Ledger(M) /\ \A m \in M : m.id \in Nat \ {0}
  BY DEF Past
<1>1. PICK N \in Nat : (\A m \in S : m.id <= N) /\ (\A m \in M \ S : N < m.id)
  <2>1. CASE S = {}
    BY <1>0, <2>1
  <2>2. CASE S # {}
    <3>1. Newest(S) \in S /\ \A o \in S : o.id <= Newest(S).id
      BY <1>0, <2>2, NewestExists
    <3>2. Newest(S).id \in Nat
      BY <1>0, <3>1
    <3> QED BY <3>1, <3>2
  <2> QED BY <2>1, <2>2
<1>2. ASSUME NEW x \in Nat PROVE Stage(Final(base, S), M \ S, x) = Stage(base, M, IF x < N THEN N ELSE x)
  <2>1. PICK y \in Nat : y = IF x < N THEN N ELSE x
    OBVIOUS
  <2> DEFINE A == UpTo(M, y)
  <2>2. S \subseteq A
    BY <1>0, <1>1, <2>1 DEF UpTo
  <2>3. A \ S = UpTo(M \ S, x)
    BY <1>0, <1>1, <2>1 DEF UpTo
  <2>4. A \in SUBSET M /\ Ledger(A)
    BY <1>0, StageFacts
  <2>5. \A m \in S, o \in A \ S : o.id < m.id => \A l \in Places : ~ (Writes(m, l) /\ Writes(o, l))
    <3>1. \A m \in S, o \in A \ S : ~ (o.id < m.id)
      <4> SUFFICES ASSUME NEW m \in S, NEW o \in A \ S, o.id < m.id PROVE FALSE
        OBVIOUS
      <4>1. m.id < o.id /\ m.id \in Nat /\ o.id \in Nat
        BY <1>0, <2>4
      <4> QED BY <4>1
    <3> QED BY <3>1
  <2> HIDE DEF A
  <2>6. Final(Final(base, S), A \ S) = Final(base, A)
    BY <1>0, <2>2, <2>4, <2>5, FinalSplit
  <2> QED BY <2>1, <2>3, <2>6 DEF Stage, A
<1> QED BY <1>1, <1>2

\* A change of one host or key that needs none before it.
Alone(M, j) ==
  /\ j \in M /\ j.kind # "bulk"
  /\ \A o \in M : o.id < j.id => ~ Needs(o, j)

\* What it means for an older change not to be needed (directDependencyEdges).
LEMMA AloneFacts ==
  ASSUME NEW M, Ledger(M), NEW j, Alone(M, j), NEW o \in M, o.id < j.id
  PROVE  /\ o.kind # "bulk"
         /\ ~ (j.kind = "host" /\ o.kind = "host" /\ o.alias = j.alias)
         /\ \A k \in DOMAIN j.delta : k \notin DOMAIN o.delta
         /\ \A k \in DOMAIN j.delta : KeyChange(j, k) \in {"replace", "delete"} => ~ ReferenceRemoved(o, k)
         /\ j.after.auth \in Names => KeyChange(o, j.after.auth) \notin {"create", "replace"}
         /\ \A l \in Places : ~ (Writes(o, l) /\ Writes(j, l))
<1>1. ~ Needs(o, j) /\ j.kind # "bulk"
  BY DEF Alone
<1>2. o.kind # "bulk"
  BY <1>1 DEF Needs
<1>3. ~ (j.kind = "host" /\ o.kind = "host" /\ o.alias = j.alias)
  BY <1>1 DEF Needs
<1>4. \A k \in DOMAIN j.delta : k \notin DOMAIN o.delta
  <2>1. \A k \in DOMAIN j.delta : KeyChange(o, k) = "none"
    BY <1>1 DEF Needs, KeyDependency
  <2> QED BY <2>1 DEF KeyChange
<1>5. \A k \in DOMAIN j.delta : KeyChange(j, k) \in {"replace", "delete"} => ~ ReferenceRemoved(o, k)
  BY <1>1 DEF Needs, KeyDependency
<1>6. j.after.auth \in Names => KeyChange(o, j.after.auth) \notin {"create", "replace"}
  BY <1>1 DEF Needs, KeyDependency
<1>7. \A l \in Places : ~ (Writes(o, l) /\ Writes(j, l))
  BY <1>1, <1>2, <1>3, <1>4 DEF Writes
<1> QED BY <1>2, <1>3, <1>4, <1>5, <1>6, <1>7

\* Publishing it alone applies it to every stage before its own.
LEMMA AloneStage ==
  ASSUME NEW base, NEW M, Past(base, M), NEW j, Alone(M, j), NEW x \in Nat
  PROVE  /\ x < j.id => Stage(Final(base, {j}), M \ {j}, x) = ApplyMutation(Stage(base, M, x), j)
         /\ j.id <= x => Stage(Final(base, {j}), M \ {j}, x) = Stage(base, M, x)
<1>0. base \in Inventory /\ Ledger(M) /\ j \in M /\ \A m \in M : m.id \in Nat \ {0}
  BY DEF Past, Alone
<1>1. ASSUME NEW A \in SUBSET M, j \in A PROVE Final(Final(base, {j}), A \ {j}) = Final(base, A)
  <2>1. Ledger(A)
    BY <1>0, SubLedger
  <2>2. \A m \in {j}, o \in A \ {j} : o.id < m.id => \A l \in Places : ~ (Writes(m, l) /\ Writes(o, l))
    BY <1>0, AloneFacts
  <2>3. {j} \in SUBSET A
    BY <1>1
  <2> QED BY <1>0, <2>1, <2>2, <2>3, FinalSplit
<1>2. CASE j.id <= x
  <2>1. UpTo(M \ {j}, x) = UpTo(M, x) \ {j} /\ j \in UpTo(M, x) /\ UpTo(M, x) \in SUBSET M
    BY <1>0, <1>2 DEF UpTo
  <2>2. Stage(Final(base, {j}), M \ {j}, x) = Stage(base, M, x)
    BY <1>1, <2>1 DEF Stage
  <2> QED BY <1>0, <1>2, <2>2
<1>3. CASE x < j.id
  <2> DEFINE P == UpTo(M, x)
  <2>1. UpTo(M \ {j}, x) = P /\ j \notin P /\ P \in SUBSET M /\ \A o \in P : o.id < j.id
    BY <1>0, <1>3 DEF UpTo
  <2>2. Ledger(P)
    BY <1>0, StageFacts
  <2> HIDE DEF P
  <2>3. (P \cup {j}) \in SUBSET M /\ (P \cup {j}) \ {j} = P /\ j \in P \cup {j}
    BY <1>0, <2>1
  <2>4. Final(Final(base, {j}), P) = Final(base, P \cup {j})
    BY <1>1, <2>3
  <2>5. j \in Mutation
    BY <1>0 DEF Ledger
  <2>6. Final(base, P \cup {j}) = ApplyMutation(Final(base, P), j)
    BY <1>0, <2>1, <2>2, <2>5, FinalAdd
  <2>7. Stage(Final(base, {j}), M \ {j}, x) = ApplyMutation(Stage(base, M, x), j)
    BY <2>1, <2>4, <2>6 DEF Stage, P
  <2> QED BY <1>0, <1>3, <2>7
<1> QED BY <1>0, <1>2, <1>3

\* Reading a place.
LEMMA ValueAt ==
  ASSUME NEW inv, NEW a \in Names
  PROVE  Value(inv, <<"conn", a>>) = inv.conns[a] /\ Value(inv, <<"key", a>>) = inv.keys[a]
BY DEF Value

\* A place nobody wrote holds what the base has.
LEMMA Untouched ==
  ASSUME NEW base, NEW M, Past(base, M), NEW x \in Nat, NEW l \in Places, \A o \in M : o.id <= x => ~ Writes(o, l)
  PROVE  Value(Stage(base, M, x), l) = Value(base, l)
<1>1. \A o \in UpTo(M, x) : ~ Writes(o, l)
  BY DEF UpTo
<1>2. FinalValue(base, UpTo(M, x), l) = Value(base, l)
  BY <1>1, FinalNone
<1> QED BY <1>2, StageFacts DEF Past

\* What the change replaces has the value it recorded at every earlier stage.
LEMMA AloneBefore ==
  ASSUME NEW base, NEW M, Past(base, M), NEW j, Alone(M, j), NEW x \in Nat, x < j.id
  PROVE  /\ \A k \in DOMAIN j.delta : Stage(base, M, x).keys[k] = j.delta[k].before
         /\ j.kind = "host" => Stage(base, M, x).conns[j.alias] = j.before
<1>0. Ledger(M) /\ j \in M /\ j \in Mutation /\ (\A m \in M : m.id \in Nat \ {0}) /\ j.id - 1 \in Nat /\ j.id \in Nat
  BY StageOf DEF Past, Alone, Ledger
<1>1. ASSUME NEW l \in Places, Writes(j, l) PROVE Value(Stage(base, M, x), l) = Value(Stage(base, M, j.id - 1), l)
  <2>1. \A o \in M : o.id < j.id => ~ Writes(o, l)
    BY <1>0, <1>1, AloneFacts
  <2>2. \A o \in M : o.id <= x => ~ Writes(o, l)
    BY <1>0, <2>1
  <2>3. \A o \in M : o.id <= j.id - 1 => ~ Writes(o, l)
    BY <1>0, <2>1
  <2>4. Value(Stage(base, M, x), l) = Value(base, l)
    BY <2>2, Untouched
  <2>5. Value(Stage(base, M, j.id - 1), l) = Value(base, l)
    BY <1>0, <2>3, Untouched
  <2> QED BY <2>4, <2>5
<1>2. Follows(Stage(base, M, j.id - 1), j) /\ j.kind # "bulk"
  BY <1>0 DEF Past, History, Alone
<1>3. ASSUME NEW k \in DOMAIN j.delta PROVE Stage(base, M, x).keys[k] = j.delta[k].before
  <2>1. k \in Names
    BY <1>0, MutationFacts
  <2>2. <<"key", k>> \in Places /\ Writes(j, <<"key", k>>)
    BY <2>1, PlaceFacts DEF Writes
  <2>3. Stage(base, M, x).keys[k] = Stage(base, M, j.id - 1).keys[k]
    BY <1>1, <2>1, <2>2, ValueAt
  <2> QED BY <1>2, <2>3 DEF Follows
<1>4. ASSUME j.kind = "host" PROVE Stage(base, M, x).conns[j.alias] = j.before
  <2>1. j.alias \in Names
    BY <1>0, <1>4, MutationFacts
  <2>2. <<"conn", j.alias>> \in Places /\ Writes(j, <<"conn", j.alias>>)
    BY <1>4, <2>1, PlaceFacts DEF Writes
  <2>3. Value(Stage(base, M, x), <<"conn", j.alias>>) = Value(Stage(base, M, j.id - 1), <<"conn", j.alias>>)
    BY <1>1, <2>2
  <2>4. /\ Value(Stage(base, M, x), <<"conn", j.alias>>) = Stage(base, M, x).conns[j.alias]
        /\ Value(Stage(base, M, j.id - 1), <<"conn", j.alias>>) = Stage(base, M, j.id - 1).conns[j.alias]
    BY <2>1, ValueAt
  <2> QED BY <1>2, <1>4, <2>3, <2>4 DEF Follows
<1> QED BY <1>3, <1>4

\* A host that stops using a key between two stages does so by a recorded change.
LEMMA ReferenceLost ==
  ASSUME NEW base, NEW M, Past(base, M), NEW x \in Nat, NEW y \in Nat, x <= y, NEW a \in Names, NEW k \in Names,
         \A o \in M : o.id <= y => o.kind # "bulk",
         Stage(base, M, x).conns[a].auth = k, Stage(base, M, y).conns[a].auth # k
  PROVE  \E o \in M : o.id <= y /\ ReferenceRemoved(o, k)
<1> DEFINE T == {z \in Nat : x <= z /\ z <= y /\ Stage(base, M, z).conns[a].auth # k}
<1>1. PICK z \in T : \A t \in T : z <= t
  <2>1. T \in SUBSET Nat /\ T # {}
    OBVIOUS
  <2> HIDE DEF T
  <2> QED BY <2>1, LeastNumber
<1>2. z \in Nat /\ x <= z /\ z <= y /\ Stage(base, M, z).conns[a].auth # k
  BY <1>1
<1>3. z # x
  BY <1>2
<1>4. z \in Nat \ {0} /\ z - 1 \in Nat /\ x <= z - 1 /\ z - 1 <= y
  BY <1>2, <1>3
<1>5. Stage(base, M, z - 1).conns[a].auth = k
  <2>1. z - 1 \notin T
    BY <1>1, <1>4
  <2> QED BY <1>4, <2>1
<1> HIDE DEF T
<1>6. PICK o \in M : o.id = z /\ Stage(base, M, z) = ApplyMutation(Stage(base, M, z - 1), o)
  <2>1. Stage(base, M, z) # Stage(base, M, z - 1)
    BY <1>2, <1>5
  <2> QED BY <1>4, <2>1, StageStep
<1> DEFINE I == Stage(base, M, z - 1)
           l == <<"conn", a>>
<1>7. I \in Inventory /\ o \in Mutation /\ l \in Places /\ o.kind # "bulk"
  BY <1>2, <1>4, <1>6, StageFacts, PlaceFacts DEF Past, Ledger
<1>8. Value(ApplyMutation(I, o), l) = IF Writes(o, l) THEN Written(o, l) ELSE Value(I, l)
  BY <1>7, ApplyValue
<1>9. Value(ApplyMutation(I, o), l) = Stage(base, M, z).conns[a] /\ Value(I, l) = I.conns[a]
  BY <1>6, ValueAt
<1>10. Writes(o, l) /\ Stage(base, M, z).conns[a] = Written(o, l)
  BY <1>2, <1>5, <1>8, <1>9
<1>11. o.kind = "host" /\ o.alias = a /\ Written(o, l) = o.after
  BY <1>7, <1>10 DEF Writes, Written
<1>12. Follows(I, o)
  BY <1>6 DEF Past, History
<1>13. o.before = I.conns[a]
  BY <1>11, <1>12 DEF Follows
<1> QED BY <1>2, <1>5, <1>6, <1>10, <1>11, <1>13 DEF ReferenceRemoved

\* The keys it changes are used by no other host, at every earlier stage.
LEMMA AloneUnused ==
  ASSUME NEW base, NEW M, Past(base, M), NEW j, Alone(M, j), NEW x \in Nat, x < j.id,
         NEW k \in DOMAIN j.delta, NEW a \in Names, a # j.alias
  PROVE  Stage(base, M, x).conns[a].auth # k
<1> SUFFICES ASSUME Stage(base, M, x).conns[a].auth = k PROVE FALSE
  OBVIOUS
<1>0. Ledger(M) /\ j \in M /\ j \in Mutation /\ (\A m \in M : m.id \in Nat \ {0}) /\ j.id - 1 \in Nat /\ j.id \in Nat
      /\ base \in Inventory
  BY StageOf DEF Past, Alone, Ledger
<1>1. k \in Names
  BY <1>0, MutationFacts
<1>2. Follows(Stage(base, M, j.id - 1), j) /\ j.kind # "bulk"
  BY <1>0 DEF Past, History, Alone
<1>3. Stage(base, M, j.id - 1).conns[a].auth # k
  <2>1. References(Stage(base, M, j.id - 1), k) \subseteq {j.alias}
    BY <1>2 DEF Follows
  <2> QED BY <2>1 DEF References
<1>4. \A o \in M : o.id <= j.id - 1 => o.id < j.id
  BY <1>0
<1>5. \A o \in M : o.id <= j.id - 1 => o.kind # "bulk"
  BY <1>0, <1>4, AloneFacts
<1>6. x <= j.id - 1
  BY <1>0
<1>7. PICK o \in M : o.id <= j.id - 1 /\ ReferenceRemoved(o, k)
  BY <1>0, <1>1, <1>3, <1>5, <1>6, ReferenceLost
<1>8. KeyChange(j, k) \notin {"replace", "delete"}
  BY <1>0, <1>4, <1>7, AloneFacts
<1>9. j.delta[k].before = 0
  BY <1>8 DEF KeyChange
<1>10. Stage(base, M, x).keys[k] = 0
  BY <1>9, AloneBefore
<1>11. Stage(base, M, x) \in Inventory /\ ImportOK(Stage(base, M, x))
  BY <1>0, StageFacts DEF Past, History
<1> QED BY <1>1, <1>10, <1>11, UsedKey

\* The key it uses was made by none of the earlier changes.
LEMMA AloneUses ==
  ASSUME NEW base, NEW M, Past(base, M), NEW j, Alone(M, j), j.kind = "host", j.after.auth \in Names,
         NEW o \in M, o.id < j.id
  PROVE  j.after.auth \notin DOMAIN o.delta
<1> DEFINE k == j.after.auth
           B == Stage(base, M, j.id - 1)
           C == Stage(base, M, j.id)
           l == <<"key", k>>
           P == UpTo(M, j.id - 1)
<1>0. Ledger(M) /\ j \in M /\ j \in Mutation /\ (\A m \in M : m.id \in Nat \ {0}) /\ j.id - 1 \in Nat /\ j.id \in Nat
      /\ base \in Inventory /\ C = ApplyMutation(B, j) /\ k \in Names /\ l \in Places /\ j.alias \in Names
  <2>1. Ledger(M) /\ j \in M /\ j \in Mutation /\ (\A m \in M : m.id \in Nat \ {0}) /\ base \in Inventory
    BY DEF Past, Alone, Ledger
  <2>2. j.id - 1 \in Nat /\ j.id \in Nat /\ C = ApplyMutation(B, j)
    BY <2>1, StageOf
  <2>3. k \in Names /\ l \in Places /\ j.alias \in Names
    BY <2>1, PlaceFacts, MutationFacts
  <2> QED BY <2>1, <2>2, <2>3
<1>1. /\ B \in Inventory /\ C \in Inventory /\ ImportOK(C)
      /\ Value(B, l) = FinalValue(base, P, l) /\ P \in SUBSET M /\ Ledger(P)
  BY <1>0, StageFacts DEF Past, History
<1>2. C.conns[j.alias] = j.after
  <2>1. <<"conn", j.alias>> \in Places
    BY <1>0, PlaceFacts
  <2>2. Writes(j, <<"conn", j.alias>>) /\ Written(j, <<"conn", j.alias>>) = j.after
    BY DEF Writes, Written
  <2>3. Value(C, <<"conn", j.alias>>) = j.after
    BY <1>0, <1>1, <2>1, <2>2, ApplyValue
  <2> QED BY <1>0, <2>3, ValueAt
<1>3. C.keys[k] # 0
  BY <1>0, <1>1, <1>2, UsedKey
<1>4. CASE k \in DOMAIN j.delta
  BY <1>0, <1>4, AloneFacts
<1>5. CASE k \notin DOMAIN j.delta
  <2> SUFFICES ASSUME k \in DOMAIN o.delta PROVE FALSE
    OBVIOUS
  <2>1. ~ Writes(j, l)
    BY <1>5 DEF Writes
  <2>2. C.keys[k] = Value(B, l)
    <3>1. Value(ApplyMutation(B, j), l) = Value(B, l)
      BY <1>0, <1>1, <2>1, ApplyValue
    <3>2. Value(C, l) = C.keys[k]
      BY <1>0, ValueAt
    <3> QED BY <1>0, <3>1, <3>2
  <2>3. o \in P /\ Writes(o, l)
    BY <1>0 DEF UpTo, Writes
  <2>4. PICK w \in P : Writes(w, l) /\ \A r \in P : Writes(r, l) => r.id <= w.id
    BY <1>1, <2>3, FinalCases
  <2>5. FinalValue(base, P, l) = Written(w, l)
    BY <1>1, <2>4, FinalLast
  <2>6. w \in M /\ w.id < j.id
    BY <1>0, <1>1 DEF UpTo
  <2>7. w.kind # "bulk" /\ KeyChange(w, k) \notin {"create", "replace"}
    BY <1>0, <2>6, AloneFacts
  <2>8. k \in DOMAIN w.delta /\ Written(w, l) = w.delta[k].after
    BY <2>4, <2>7 DEF Writes, Written
  <2>9. w.delta[k].after = 0
    BY <2>7, <2>8 DEF KeyChange
  <2> QED BY <1>1, <1>3, <2>2, <2>5, <2>8, <2>9
<1> QED BY <1>4, <1>5

\* What a change leaves of an inventory, host by host and key by key.
LEMMA ApplyAt ==
  ASSUME NEW inv \in Inventory, NEW j \in Mutation, j.kind # "bulk"
  PROVE  /\ \A a \in Names : ApplyMutation(inv, j).conns[a] =
                               IF j.kind = "host" /\ j.alias = a THEN j.after ELSE inv.conns[a]
         /\ \A k \in Names : ApplyMutation(inv, j).keys[k] =
                               IF k \in DOMAIN j.delta THEN j.delta[k].after ELSE inv.keys[k]
         /\ ApplyMutation(inv, j) \in Inventory
<1> DEFINE J == ApplyMutation(inv, j)
<1>1. J \in Inventory /\ \A l \in Places : Value(J, l) = IF Writes(j, l) THEN Written(j, l) ELSE Value(inv, l)
  BY ApplyValue
<1> HIDE DEF J
<1>2. ASSUME NEW a \in Names PROVE J.conns[a] = IF j.kind = "host" /\ j.alias = a THEN j.after ELSE inv.conns[a]
  <2> DEFINE l == <<"conn", a>>
  <2>1. l \in Places /\ (Writes(j, l) <=> j.kind = "host" /\ j.alias = a) /\ (Writes(j, l) => Written(j, l) = j.after)
    BY PlaceFacts DEF Writes, Written
  <2>2. Value(J, l) = J.conns[a] /\ Value(inv, l) = inv.conns[a]
    BY ValueAt
  <2> HIDE DEF l
  <2> QED BY <1>1, <2>1, <2>2
<1>3. ASSUME NEW k \in Names PROVE J.keys[k] = IF k \in DOMAIN j.delta THEN j.delta[k].after ELSE inv.keys[k]
  <2> DEFINE l == <<"key", k>>
  <2>1. l \in Places /\ (Writes(j, l) <=> k \in DOMAIN j.delta) /\ Written(j, l) = j.delta[k].after
    BY PlaceFacts DEF Writes, Written
  <2>2. Value(J, l) = J.keys[k] /\ Value(inv, l) = inv.keys[k]
    BY ValueAt
  <2> HIDE DEF l
  <2> QED BY <1>1, <2>1, <2>2
<1> QED BY <1>1, <1>2, <1>3 DEF J

\* Applied to an earlier stage, it leaves every other host as it was there, and its own
\* host as it was reviewed.
LEMMA AloneApplied ==
  ASSUME NEW base, NEW M, Past(base, M), NEW j, Alone(M, j), NEW x \in Nat, x < j.id
  PROVE  LET I == Stage(base, M, x)
             J == ApplyMutation(I, j)
             C == Stage(base, M, j.id)
         IN  /\ J \in Inventory
             /\ \A a \in Names : ~ (j.kind = "host" /\ j.alias = a) =>
                   /\ J.conns[a] = I.conns[a]
                   /\ I.conns[a].auth \in Names => J.keys[I.conns[a].auth] = I.keys[I.conns[a].auth]
             /\ j.kind = "host" =>
                   /\ J.conns[j.alias] = C.conns[j.alias]
                   /\ C.conns[j.alias].auth \in Names => J.keys[C.conns[j.alias].auth] = C.keys[C.conns[j.alias].auth]
<1> DEFINE I == Stage(base, M, x)
           J == ApplyMutation(I, j)
           B == Stage(base, M, j.id - 1)
           C == Stage(base, M, j.id)
<1>0. /\ Ledger(M) /\ j \in M /\ j \in Mutation /\ base \in Inventory /\ j.kind # "bulk"
      /\ \A m \in M : m.id \in Nat \ {0}
  BY DEF Past, Alone, Ledger
<1>1. j.id \in Nat /\ j.id - 1 \in Nat /\ C = ApplyMutation(B, j)
  BY <1>0, StageOf
<1>2. I \in Inventory /\ B \in Inventory /\ C \in Inventory
  BY <1>0, <1>1, StageFacts
<1>3. /\ \A a \in Names : J.conns[a] = IF j.kind = "host" /\ j.alias = a THEN j.after ELSE I.conns[a]
      /\ \A k \in Names : J.keys[k] = IF k \in DOMAIN j.delta THEN j.delta[k].after ELSE I.keys[k]
      /\ J \in Inventory
  BY <1>0, <1>2, ApplyAt
<1>4. /\ \A a \in Names : C.conns[a] = IF j.kind = "host" /\ j.alias = a THEN j.after ELSE B.conns[a]
      /\ \A k \in Names : C.keys[k] = IF k \in DOMAIN j.delta THEN j.delta[k].after ELSE B.keys[k]
  BY <1>0, <1>1, <1>2, ApplyAt
<1>5. j.kind = "host" <=> j.alias \in Names
  BY <1>0, MutationFacts
<1>6. ASSUME NEW a \in Names, ~ (j.kind = "host" /\ j.alias = a)
      PROVE  /\ J.conns[a] = I.conns[a]
             /\ I.conns[a].auth \in Names => J.keys[I.conns[a].auth] = I.keys[I.conns[a].auth]
  <2>1. a # j.alias
    BY <1>5, <1>6
  <2>2. I.conns[a].auth \notin DOMAIN j.delta
    BY <2>1, AloneUnused
  <2> HIDE DEF I, J
  <2> QED BY <1>3, <1>6, <2>2
<1>7. ASSUME j.kind = "host"
      PROVE  /\ J.conns[j.alias] = C.conns[j.alias]
             /\ C.conns[j.alias].auth \in Names => J.keys[C.conns[j.alias].auth] = C.keys[C.conns[j.alias].auth]
  <2>1. J.conns[j.alias] = j.after /\ C.conns[j.alias] = j.after
    BY <1>3, <1>4, <1>5, <1>7
  <2>2. ASSUME j.after.auth \in Names PROVE J.keys[j.after.auth] = C.keys[j.after.auth]
    <3> DEFINE k == j.after.auth
               l == <<"key", k>>
    <3>1. l \in Places /\ \A o \in M : o.id < j.id => ~ Writes(o, l)
      <4>1. l \in Places
        BY <2>2, PlaceFacts
      <4>2. \A o \in M : o.id < j.id => k \notin DOMAIN o.delta /\ o.kind # "bulk"
        BY <1>0, <1>7, <2>2, AloneUses, AloneFacts
      <4> QED BY <4>1, <4>2 DEF Writes
    <3>2. (\A o \in M : o.id <= x => ~ Writes(o, l)) /\ (\A o \in M : o.id <= j.id - 1 => ~ Writes(o, l))
      BY <1>0, <1>1, <3>1
    <3>3. Value(I, l) = Value(base, l)
      BY <3>1, <3>2, Untouched
    <3>4. Value(B, l) = Value(base, l)
      BY <1>1, <3>1, <3>2, Untouched
    <3>5. I.keys[k] = B.keys[k]
      <4>1. Value(I, l) = I.keys[k] /\ Value(B, l) = B.keys[k]
        BY <2>2, ValueAt
      <4> QED BY <3>3, <3>4, <4>1
    <3> QED BY <1>3, <1>4, <2>2, <3>5
  <2> QED BY <2>1, <2>2
<1> HIDE DEF I, J, C
<1> QED BY <1>3, <1>6, <1>7 DEF I, J, C

\* Two inventories reach a host in the same way.
LEMMA SameReach ==
  ASSUME NEW i, NEW k, NEW a, i.conns[a] = k.conns[a],
         k.conns[a].auth \in Names => i.keys[k.conns[a].auth] = k.keys[k.conns[a].auth]
  PROVE  Reach(i, a) = Reach(k, a)
BY DEF Reach

\* Published alone, it leaves every stage with the keys of its connections, every other
\* host reached as before, and its own host reached as reviewed.
LEMMA AloneReach ==
  ASSUME NEW base, NEW M, Past(base, M), NEW j, Alone(M, j), NEW x \in Nat, x < j.id
  PROVE  LET I == Stage(base, M, x)
             J == ApplyMutation(I, j)
             C == Stage(base, M, j.id)
         IN  /\ ImportOK(J)
             /\ \A a \in Names : ~ (j.kind = "host" /\ j.alias = a) => Reach(J, a) = Reach(I, a)
             /\ j.kind = "host" => Reach(J, j.alias) = Reach(C, j.alias)
<1> DEFINE I == Stage(base, M, x)
           J == ApplyMutation(I, j)
           C == Stage(base, M, j.id)
<1>1. /\ \A a \in Names : ~ (j.kind = "host" /\ j.alias = a) =>
           /\ J.conns[a] = I.conns[a]
           /\ I.conns[a].auth \in Names => J.keys[I.conns[a].auth] = I.keys[I.conns[a].auth]
      /\ j.kind = "host" =>
           /\ J.conns[j.alias] = C.conns[j.alias]
           /\ C.conns[j.alias].auth \in Names => J.keys[C.conns[j.alias].auth] = C.keys[C.conns[j.alias].auth]
  BY AloneApplied
<1>2. ImportOK(I) /\ ImportOK(C)
  <2>1. j.id \in Nat
    BY DEF Past, Alone
  <2> QED BY <2>1 DEF Past, History
<1> HIDE DEF I, J, C
<1>3. ImportOK(J)
  <2> SUFFICES ASSUME NEW a \in Names, Has(J, a) PROVE ManagedConnectionOK(J.conns[a], J.keys)
    BY DEF ImportOK
  <2>1. CASE j.kind = "host" /\ j.alias = a
    BY <1>1, <1>2, <2>1 DEF ImportOK, Has, ManagedConnectionOK
  <2>2. CASE ~ (j.kind = "host" /\ j.alias = a)
    BY <1>1, <1>2, <2>2 DEF ImportOK, Has, ManagedConnectionOK
  <2> QED BY <2>1, <2>2
<1>4. \A a \in Names : ~ (j.kind = "host" /\ j.alias = a) => Reach(J, a) = Reach(I, a)
  BY <1>1, SameReach
<1>5. j.kind = "host" => Reach(J, j.alias) = Reach(C, j.alias)
  BY <1>1, SameReach
<1> QED BY <1>3, <1>4, <1>5 DEF I, J, C

\* The changes before it still follow their inventories.
LEMMA AloneFollows ==
  ASSUME NEW base, NEW M, Past(base, M), NEW j, Alone(M, j), NEW m \in M, m.id < j.id
  PROVE  Follows(ApplyMutation(Stage(base, M, m.id - 1), j), m)
<1> DEFINE I == Stage(base, M, m.id - 1)
           J == ApplyMutation(I, j)
<1>0. /\ Ledger(M) /\ j \in M /\ j \in Mutation /\ m \in Mutation /\ base \in Inventory /\ j.kind # "bulk"
      /\ j.id \in Nat /\ m.id \in Nat /\ m.id - 1 \in Nat /\ m.id - 1 < j.id /\ Follows(I, m)
  BY DEF Past, Alone, Ledger, History
<1>1. I \in Inventory
  BY <1>0, StageFacts
<1>2. /\ \A a \in Names : J.conns[a] = IF j.kind = "host" /\ j.alias = a THEN j.after ELSE I.conns[a]
      /\ \A k \in Names : J.keys[k] = IF k \in DOMAIN j.delta THEN j.delta[k].after ELSE I.keys[k]
  BY <1>0, <1>1, ApplyAt
<1>3. /\ m.kind # "bulk" /\ ~ (j.kind = "host" /\ m.kind = "host" /\ m.alias = j.alias)
      /\ \A k \in DOMAIN j.delta : k \notin DOMAIN m.delta
  BY <1>0, AloneFacts
<1>4. (m.kind = "host" <=> m.alias \in Names) /\ DOMAIN m.delta \subseteq Names
  BY <1>0, MutationFacts
<1>5. ASSUME j.kind = "host", j.after.auth \in Names PROVE j.after.auth \notin DOMAIN m.delta
  BY <1>5, AloneUses
<1> HIDE DEF I, J
<1>6. m.kind = "host" => m.before = J.conns[m.alias]
  BY <1>0, <1>2, <1>3, <1>4 DEF Follows
<1>7. ASSUME NEW k \in DOMAIN m.delta PROVE m.delta[k].before = J.keys[k] /\ References(J, k) \subseteq {m.alias}
  <2>1. k \in Names /\ m.delta[k].before = I.keys[k] /\ References(I, k) \subseteq {m.alias}
    BY <1>0, <1>3, <1>4 DEF Follows
  <2>2. J.keys[k] = I.keys[k]
    BY <1>2, <1>3, <2>1
  <2>3. ASSUME NEW a \in Names, J.conns[a].auth = k PROVE I.conns[a].auth = k
    <3>1. CASE j.kind = "host" /\ j.alias = a
      BY <1>2, <1>5, <2>1, <2>3, <3>1
    <3>2. CASE ~ (j.kind = "host" /\ j.alias = a)
      BY <1>2, <2>3, <3>2
    <3> QED BY <3>1, <3>2
  <2>4. References(J, k) \subseteq References(I, k)
    BY <2>3 DEF References
  <2> QED BY <2>1, <2>2, <2>4
<1>8. Follows(J, m)
  BY <1>6, <1>7 DEF Follows
<1> QED BY <1>8 DEF I, J

\* Publishing keeps the ledger's past, and everything it leads through reviewed.
LEMMA PublishedPast ==
  ASSUME NEW base, NEW M, Past(base, M), Reviewed(base, M), NEW scope \in {"all", "only"}, NEW ids,
         Separable(M, scope, ids)
  PROVE  LET S == Chosen(M, ids)
         IN  Past(Final(base, S), M \ S) /\ Reviewed(Final(base, S), M \ S)
<1> DEFINE S == Chosen(M, ids)
           R == M \ S
           next == Final(base, S)
<1>0. base \in Inventory /\ Ledger(M) /\ (\A m \in M : m.id \in Nat \ {0}) /\ S \in SUBSET M
  BY DEF Past, Chosen
<1>1. next \in Inventory /\ Ledger(R) /\ \A m \in R : m.id \in Nat \ {0}
  BY <1>0, SubLedger, FinalType
<1> SUFFICES History(next, R) /\ Reviewed(next, R)
  BY <1>1 DEF Past
<1>2. CASE \A m \in S, o \in R : m.id < o.id
  <2>1. PICK N \in Nat : /\ \A m \in R : N < m.id
                         /\ \A x \in Nat : Stage(next, R, x) = Stage(base, M, IF x < N THEN N ELSE x)
    BY <1>0, <1>2, PrefixStage
  <2> HIDE DEF S, R, next
  <2>2. \A x \in Nat : \E y \in Nat : Stage(next, R, x) = Stage(base, M, y)
    BY <2>1
  <2>3. \A x \in Nat : ImportOK(Stage(next, R, x))
    BY <2>2 DEF Past, History
  <2>4. ASSUME NEW m \in R PROVE Follows(Stage(next, R, m.id - 1), m)
    <3>1. m.id - 1 \in Nat /\ ~ (m.id - 1 < N) /\ m \in M
      BY <1>1, <2>1 DEF R
    <3>2. Stage(next, R, m.id - 1) = Stage(base, M, m.id - 1)
      BY <2>1, <3>1
    <3> QED BY <3>1, <3>2 DEF Past, History
  <2>5. Reviewed(next, R)
    BY <2>2 DEF Reviewed
  <2> QED BY <2>3, <2>4, <2>5 DEF History
<1>3. ASSUME ~ \A m \in S, o \in R : m.id < o.id PROVE History(next, R) /\ Reviewed(next, R)
  <2>1. scope = "only"
    BY <1>3 DEF Separable
  <2>2. PICK j \in S, r \in R : ~ (j.id < r.id)
    BY <1>3
  <2>3. ids = {j.id} /\ \A o \in M : o.id < j.id => ~ Needs(o, j)
    BY <2>1 DEF Separable
  <2>4. S = {j}
    BY <1>0, <2>3 DEF Chosen, Ledger
  <2>5. Alone(M, j)
    <3>1. r.id < j.id
      <4>1. r.id # j.id
        BY <1>0, <2>2 DEF Ledger
      <4> QED BY <1>0, <2>2, <4>1
    <3>2. ~ Needs(r, j)
      BY <2>3, <3>1
    <3>3. j.kind # "bulk"
      BY <3>2 DEF Needs
    <3> QED BY <1>0, <2>3, <3>3 DEF Alone
  <2>6. j \in M /\ j.id \in Nat
    BY <1>0
  <2>7. R = M \ {j} /\ next = Final(base, {j})
    BY <2>4
  <2> HIDE DEF S, R, next
  <2>8. ASSUME NEW x \in Nat
        PROVE  /\ x < j.id => Stage(next, R, x) = ApplyMutation(Stage(base, M, x), j)
               /\ ~ (x < j.id) => Stage(next, R, x) = Stage(base, M, x)
    <3>1. ~ (x < j.id) => j.id <= x
      BY <2>6
    <3> QED BY <2>5, <2>7, <3>1, AloneStage
  <2>9. \A x \in Nat : ImportOK(Stage(next, R, x))
    <3> SUFFICES ASSUME NEW x \in Nat PROVE ImportOK(Stage(next, R, x))
      OBVIOUS
    <3>1. CASE x < j.id
      BY <2>5, <2>8, <3>1, AloneReach
    <3>2. CASE ~ (x < j.id)
      BY <2>8, <3>2 DEF Past, History
    <3> QED BY <3>1, <3>2
  <2>10. ASSUME NEW m \in R PROVE Follows(Stage(next, R, m.id - 1), m)
    <3>1. m \in M /\ m.id - 1 \in Nat /\ m.id \in Nat /\ m # j
      BY <1>1, <2>7
    <3>2. m.id # j.id
      BY <1>0, <2>6, <3>1 DEF Ledger
    <3>3. CASE m.id < j.id
      <4>1. m.id - 1 < j.id
        BY <2>6, <3>1, <3>3
      <4> QED BY <2>5, <2>8, <3>1, <3>3, <4>1, AloneFollows
    <3>4. CASE ~ (m.id < j.id)
      <4>1. ~ (m.id - 1 < j.id)
        BY <2>6, <3>1, <3>2, <3>4
      <4> QED BY <2>8, <3>1, <4>1 DEF Past, History
    <3> QED BY <3>3, <3>4
  <2>11. Reviewed(next, R)
    <3> SUFFICES ASSUME NEW x \in Nat, NEW a \in Names PROVE Reach(Stage(next, R, x), a) \in seen[a]
      BY DEF Reviewed
    <3>1. CASE ~ (x < j.id)
      BY <2>8, <3>1 DEF Reviewed
    <3>2. CASE x < j.id
      <4>1. Stage(next, R, x) = ApplyMutation(Stage(base, M, x), j)
        BY <2>8, <3>2
      <4>2. \/ Reach(Stage(next, R, x), a) = Reach(Stage(base, M, x), a)
            \/ Reach(Stage(next, R, x), a) = Reach(Stage(base, M, j.id), a)
        BY <2>5, <3>2, <4>1, AloneReach
      <4> QED BY <2>6, <4>2 DEF Reviewed
    <3> QED BY <3>1, <3>2
  <2> QED BY <2>9, <2>10, <2>11 DEF History
<1> QED BY <1>2, <1>3

-----------------------------------------------------------------------------
(* LedgerInv: what the ledger leads through, too.                          *)

\* LedgerInv is CoreInv with the ledger's past.
LEMMA LedgerInvParts ==
  LedgerInv <=> /\ CoreInv
                /\ History(vault.base, Changes(vault.pending)) /\ Reviewed(vault.base, Changes(vault.pending))
<1>1. ASSUME LedgerInv PROVE ImportOK(vault.inv)
  <2> DEFINE M == Changes(vault.pending)
  <2>1. recorded \in Nat /\ \A m \in M : m.id <= recorded
    BY <1>1, LedgerBounds DEF LedgerInv, Typed, Numbered, Changes
  <2>2. UpTo(M, recorded) = M
    BY <2>1 DEF UpTo
  <2>3. ImportOK(Stage(vault.base, M, recorded))
    BY <1>1, <2>1 DEF LedgerInv, History
  <2> QED BY <1>1, <2>2, <2>3 DEF LedgerInv, Explained, Stage
<1> QED BY <1>1 DEF LedgerInv, CoreInv

\* The invariant gives the ledger a past that was reviewed.
LEMMA LedgerPast ==
  ASSUME LedgerInv
  PROVE  CoreInv /\ Past(vault.base, Changes(vault.pending)) /\ Reviewed(vault.base, Changes(vault.pending))
<1>1. CoreInv
  BY LedgerInvParts
<1>2. vault.base \in Inventory /\ Ledger(Changes(vault.pending))
  BY <1>1, SoundVault DEF Sound, VaultFile
<1>3. \A m \in Changes(vault.pending) : m.id \in Nat \ {0}
  BY <1>1, IntentFacts DEF CoreInv, Numbered, Changes
<1> QED BY <1>1, <1>2, <1>3, LedgerInvParts DEF Past

\* Recording a change adds one stage.
LEMMA RecordPast ==
  ASSUME LedgerInv, NEW after, NEW m, Records(m, recorded + 1, vault.inv, after), RecordChange(after, m)
  PROVE  LedgerInv'
<1> DEFINE M == Changes(vault.pending)
           base == vault.base
<1>0. CoreInv /\ Past(base, M) /\ Reviewed(base, M)
  BY LedgerPast
<1>1. CoreInv' /\ Changes(vault.pending)' = M \cup {m} /\ vault.base' = base /\ \A o \in M : o.id < m.id
  BY <1>0, RecordStep
<1>2. base \in Inventory /\ Ledger(M) /\ vault.inv = Final(base, M) /\ recorded \in Nat
  BY <1>0, SoundVault, IntentFacts DEF Sound, VaultFile
<1>3. /\ m \in Mutation /\ m.id = recorded + 1
      /\ ApplyMutation(vault.inv, m) = after /\ Follows(vault.inv, m) /\ ImportOK(after)
  BY DEF Records
<1>4. seen' = [a \in Names |-> seen[a] \cup {Reach(after, a)}]
  BY DEF RecordChange, Remember
<1>5. \A o \in M : o.id \in 1..recorded
  BY <1>0 DEF CoreInv, Numbered, Changes
<1> HIDE DEF M, base
<1>6. ASSUME NEW x \in Nat, x <= recorded PROVE Stage(base, M \cup {m}, x) = Stage(base, M, x)
  <2>1. UpTo(M \cup {m}, x) = UpTo(M, x)
    BY <1>2, <1>3, <1>6 DEF UpTo
  <2> QED BY <2>1 DEF Stage
<1>7. ASSUME NEW x \in Nat, ~ (x <= recorded) PROVE Stage(base, M \cup {m}, x) = after
  <2>1. UpTo(M \cup {m}, x) = M \cup {m}
    BY <1>2, <1>3, <1>5, <1>7 DEF UpTo
  <2>2. Final(base, M \cup {m}) = after
    BY <1>1, <1>2, <1>3, FinalAdd
  <2> QED BY <2>1, <2>2 DEF Stage
<1>8. History(base, M \cup {m})
  <2>1. \A x \in Nat : ImportOK(Stage(base, M \cup {m}, x))
    BY <1>0, <1>3, <1>6, <1>7 DEF Past, History
  <2>2. ASSUME NEW o \in M PROVE Follows(Stage(base, M \cup {m}, o.id - 1), o)
    <3>1. o.id - 1 \in Nat /\ o.id - 1 <= recorded
      BY <1>2, <1>5
    <3> QED BY <1>0, <1>6, <3>1 DEF Past, History
  <2>3. Follows(Stage(base, M \cup {m}, m.id - 1), m)
    <3>1. m.id - 1 = recorded /\ recorded <= recorded
      BY <1>2, <1>3
    <3>2. UpTo(M, recorded) = M
      BY <1>2, <1>5 DEF UpTo
    <3>3. Stage(base, M, recorded) = vault.inv
      BY <1>2, <3>2 DEF Stage
    <3> QED BY <1>2, <1>3, <1>6, <3>1, <3>3
  <2> QED BY <2>1, <2>2, <2>3 DEF History
<1>9. ASSUME NEW x \in Nat, NEW a \in Names PROVE Reach(Stage(base, M \cup {m}, x), a) \in seen'[a]
  <2>1. seen'[a] = seen[a] \cup {Reach(after, a)}
    BY <1>4
  <2> QED BY <1>0, <1>6, <1>7, <2>1 DEF Reviewed
<1>10. Reviewed(vault.base, Changes(vault.pending))'
  BY <1>1, <1>9 DEF Reviewed
<1>11. History(vault.base, Changes(vault.pending))'
  BY <1>1, <1>8
<1> QED BY <1>1, <1>10, <1>11, LedgerInvParts DEF LedgerInv, CoreInv

\* A step that leaves the vault alone keeps its past.
LEMMA KeptPast ==
  ASSUME LedgerInv, CoreInv', vault' = vault, seen' = seen
  PROVE  LedgerInv'
<1>1. History(vault.base, Changes(vault.pending))' /\ Reviewed(vault.base, Changes(vault.pending))'
  BY DEF LedgerInv, Reviewed
<1> QED BY <1>1 DEF LedgerInv, CoreInv

\* A finalization keeps a past.
LEMMA CleanedPast ==
  ASSUME LedgerInv, CoreInv', Stored, Cleaned(vault, vault', intent.ids), seen' = seen
  PROVE  LedgerInv'
<1> DEFINE M == Changes(vault.pending)
           S == Chosen(M, intent.ids)
<1>0. CoreInv /\ Past(vault.base, M) /\ Reviewed(vault.base, M)
  BY LedgerPast
<1>1. intent.scope \in {"all", "only"} /\ Separable(M, intent.scope, intent.ids)
  BY <1>0, IntentFacts DEF CoreInv, Publication, Stored
<1>2. Past(Final(vault.base, S), M \ S) /\ Reviewed(Final(vault.base, S), M \ S)
  BY <1>0, <1>1, PublishedPast
<1>3. vault'.base = Final(vault.base, S) /\ Changes(vault'.pending) = M \ S
  BY DEF Cleaned
<1> HIDE DEF M, S
<1>4. History(vault.base, Changes(vault.pending))'
  BY <1>2, <1>3 DEF Past
<1>5. Reviewed(vault.base, Changes(vault.pending))'
  BY <1>2, <1>3 DEF Reviewed
<1> QED BY <1>4, <1>5 DEF LedgerInv, CoreInv

\* A fresh ledger has its base as its only stage.
LEMMA LedgerInit == Init => LedgerInv
<1> SUFFICES ASSUME Init PROVE LedgerInv
  OBVIOUS
<1>1. CoreInv
  BY CoreInit
<1>2. PICK inv \in InitialInventories : vault = [inv |-> inv, base |-> inv, hasBase |-> FALSE, pending |-> <<>>]
                                        /\ seen = [a \in Names |-> {Reach(inv, a)}]
  BY DEF Init
<1>3. inv \in Inventory /\ ImportOK(inv) /\ vault.base = inv /\ Changes(vault.pending) = {}
  BY <1>2, LedgerInputs DEF Changes
<1>4. \A x \in Nat : Stage(inv, {}, x) = inv
  <2>1. \A x \in Nat : UpTo({}, x) = {}
    BY DEF UpTo
  <2> QED BY <1>3, <2>1, FinalEmpty DEF Stage
<1>5. History(inv, {})
  BY <1>3, <1>4 DEF History
<1>6. Reviewed(inv, {})
  BY <1>2, <1>4 DEF Reviewed
<1> QED BY <1>1, <1>3, <1>5, <1>6, LedgerInvParts

\* Every action keeps the past.
LEMMA LedgerStep == LedgerInv /\ [Next]_ledgerVars => LedgerInv'
<1> SUFFICES ASSUME LedgerInv, [Next]_ledgerVars PROVE LedgerInv'
  OBVIOUS
<1>a. CoreInv /\ CoreInv'
  BY LedgerInvParts, CoreStep
<1>0. ASSUME NEW m, NEW after, Records(m, recorded + 1, vault.inv, after), RecordChange(after, m) PROVE LedgerInv'
  BY <1>0, RecordPast
<1>1. CASE \E change \in HostChanges : HostCommand(change)
  BY <1>0, <1>1, <1>a, HostCommandRecords
<1>2. CASE \E key \in Names : KeysRemove(key)
  BY <1>0, <1>2, <1>a, KeysRemoveRecords
<1>3. CASE \E servers \in Imports, replace \in BOOLEAN : ImportJSON(servers, replace)
  BY <1>0, <1>3, <1>a, ImportRecords
<1>4. CASE Publish
  BY <1>4, <1>a, KeptPast DEF Publish
<1>5. CASE PreparePublication
  BY <1>5, <1>a, KeptPast DEF PreparePublication
<1>6. CASE SendPublication
  BY <1>6, <1>a, KeptPast DEF SendPublication
<1>7. CASE Finalize
  <2>1. (vault' = vault \/ Cleaned(vault, vault', intent.ids)) /\ Stored
    BY <1>7, <1>a, FinalizeActionStep
  <2>2. seen' = seen
    BY <1>7 DEF Finalize
  <2> QED BY <1>a, <2>1, <2>2, KeptPast, CleanedPast
<1>8. CASE Crash
  BY <1>8, <1>a, KeptPast DEF Crash
<1>9. CASE Reconcile
  <2>1. vault' = vault \/ (Cleaned(vault, vault', intent.ids) /\ Stored)
    BY <1>9, <1>a, ReconcileStep
  <2>2. seen' = seen
    BY <1>9 DEF Reconcile
  <2> QED BY <1>a, <2>1, <2>2, KeptPast, CleanedPast
<1>10. CASE UNCHANGED ledgerVars
  BY <1>10, <1>a, KeptPast DEF ledgerVars
<1> QED BY <1>1, <1>2, <1>3, <1>4, <1>5, <1>6, <1>7, <1>8, <1>9, <1>10 DEF Next

\* Every inventory the ledger leads through has the keys of its connections, precedes the
\* change recorded for it, and was reviewed host by host, also after partial publications.
THEOREM LedgerInvariant == Spec => []LedgerInv
BY LedgerInit, LedgerStep, PTL DEF Spec

\* The blob on the server is a stage of the ledger, before or after the publication.
LEMMA InvReviewed ==
  ASSUME LedgerInv
  PROVE  PublishedWasReviewed
<1> DEFINE M == Changes(vault.pending)
           S == Chosen(M, intent.ids)
<1>0. CoreInv /\ Past(vault.base, M) /\ Reviewed(vault.base, M)
  BY LedgerPast
<1>1. CASE ~ Stored
  <2>1. remote.inv = vault.base /\ Stage(vault.base, M, 0) = vault.base
    BY <1>0, <1>1, StageStart DEF CoreInv, Publication
  <2> HIDE DEF M
  <2>2. \A a \in Names : Reach(Stage(vault.base, M, 0), a) \in seen[a]
    BY <1>0 DEF Reviewed
  <2> QED BY <2>1, <2>2 DEF PublishedWasReviewed
<1>2. CASE Stored
  <2>1. intent.scope \in {"all", "only"} /\ Separable(M, intent.scope, intent.ids) /\ remote.inv = Final(vault.base, S)
    BY <1>0, <1>2, IntentFacts DEF CoreInv, Publication, Stored
  <2>2. Past(Final(vault.base, S), M \ S) /\ Reviewed(Final(vault.base, S), M \ S)
    BY <1>0, <2>1, PublishedPast
  <2> HIDE DEF M, S
  <2>3. Stage(Final(vault.base, S), M \ S, 0) = Final(vault.base, S)
    BY <2>2, StageStart
  <2>4. \A a \in Names : Reach(Stage(Final(vault.base, S), M \ S, 0), a) \in seen[a]
    BY <2>2 DEF Reviewed
  <2> QED BY <2>1, <2>3, <2>4 DEF PublishedWasReviewed
<1> QED BY <1>1, <1>2

\* The server never holds a host with fields or key material that it did not have locally
\* at some time, whatever was pushed alone (directDependencyEdges, Preflight).
THEOREM PublishedHostsWereReviewed == Spec => []PublishedWasReviewed
BY InvReviewed, LedgerInvariant, PTL

\* Only SendPublication changes the blob, and a change that goes out alone changes no key
\* that another host uses.
LEMMA OnlyStep ==
  ASSUME LedgerInv, [Next]_ledgerVars, remote' # remote, intent.scope = "only", NEW id \in intent.ids, NEW a \in Names,
         NEW m, m = vault.pending[PendingIndex(vault, id)], m.kind = "host", a # m.alias
  PROVE  Reach(remote'.inv, a) = Reach(remote.inv, a)
<1> DEFINE M == Changes(vault.pending)
<1>0. CoreInv /\ Past(vault.base, M)
  BY LedgerPast
<1>1. SendPublication
  BY DEF Next, ledgerVars, HostCommand, ApplyHost, KeysRemove, RemoveSavedKey, ImportJSON, ApplyImport, RecordChange,
         Publish, PreparePublication, Finalize, Crash, Reconcile
<1>2. /\ publisher.pc = "ready" /\ intent.ids \subseteq Ids(vault.pending) /\ ~ Stored /\ remote.inv = vault.base
      /\ publisher.blob.inv = Final(vault.base, Chosen(M, intent.ids)) /\ Separable(M, "only", intent.ids)
  BY <1>0, <1>1 DEF SendPublication, CoreInv, Publication
<1>3. remote'.inv = Final(vault.base, Chosen(M, intent.ids))
  BY <1>1, <1>2 DEF SendPublication
<1>4. vault.pending \in Seq(Mutation) /\ Increasing(vault.pending)
  BY <1>0, SoundVault DEF Sound, VaultFile
<1>5. m \in M /\ m.id = id
  BY <1>2, <1>4, PendingIndexFacts DEF Changes
<1>6. m \in Chosen(M, intent.ids)
  BY <1>5 DEF Chosen
<1>7. intent.ids = {m.id} /\ \A o \in M : o.id < m.id => ~ Needs(o, m)
  BY <1>2, <1>6 DEF Separable
<1> HIDE DEF M
<1>8. Alone(M, m)
  BY <1>5, <1>7 DEF Alone
<1>9. Ledger(M) /\ vault.base \in Inventory /\ m \in Mutation /\ m.id \in Nat \ {0} /\ 0 < m.id
  BY <1>0, <1>5 DEF Past, Ledger
<1>10. Chosen(M, intent.ids) = {m}
  BY <1>5, <1>7, <1>9 DEF Chosen, Ledger
<1>11. Final(vault.base, {m}) = ApplyMutation(vault.base, m)
  <2>1. Final(vault.base, {} \cup {m}) = ApplyMutation(Final(vault.base, {}), m)
    BY <1>9, FinalAdd, FinalEmpty
  <2>2. {} \cup {m} = {m} /\ Final(vault.base, {}) = vault.base
    BY <1>9, FinalEmpty
  <2> QED BY <2>1, <2>2
<1>12. Stage(vault.base, M, 0) = vault.base
  BY <1>0, StageStart DEF M
<1>13. Reach(ApplyMutation(Stage(vault.base, M, 0), m), a) = Reach(Stage(vault.base, M, 0), a)
  BY <1>0, <1>8, <1>9, AloneReach DEF M
<1> QED BY <1>2, <1>3, <1>10, <1>11, <1>12, <1>13

\* push --only of one host's change leaves every other host on the server as it was, the
\* material of its key included (Preflight).
THEOREM OnlyPublishesItsAlias == Spec => OnlyTouchesItsAlias
<1>1. LedgerInv /\ [Next]_ledgerVars =>
        [ remote' # remote /\ intent.scope = "only" =>
            \A id \in intent.ids, a \in Names :
                LET m == vault.pending[PendingIndex(vault, id)]
                IN  m.kind = "host" /\ a # m.alias => Reach(remote'.inv, a) = Reach(remote.inv, a) ]_ledgerVars
  BY OnlyStep
<1> QED BY <1>1, LedgerInvariant, PTL DEF Spec, OnlyTouchesItsAlias
=============================================================================
