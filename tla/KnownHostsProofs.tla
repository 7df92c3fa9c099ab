------------------------- MODULE KnownHostsProofs -------------------------
(***************************************************************************)
(* Proofs about KnownHosts: for any number of accepting and connecting     *)
(* processes, hosts, key types and key rotations.                          *)
(***************************************************************************)
EXTENDS KnownHosts, TLAPS

(***************************************************************************)
(* Type correctness.                                                       *)
(***************************************************************************)
\* What an endpoint presents is a key.
LEMMA PresentedIsKey ==
    ASSUME TypeOK, NEW entries, NEW h \in Hosts
    PROVE  Presented(entries, h) \subseteq Key
<1> SUFFICES ASSUME NEW k \in Presented(entries, h) PROVE k \in Key
    OBVIOUS
<1>1. PICK t \in Types : server[h][t] # 0 /\ k = [type |-> t, id |-> server[h][t]]
    BY DEF Presented
<1>2. server[h][t] \in 1..Ids
    BY <1>1, TrustBounds DEF TypeOK
<1> QED BY <1>1, <1>2 DEF Key

\* The outcomes of inspectKnownHost that let an accept go on.
LEMMA InspectOutcome ==
    ASSUME NEW entries \in SUBSET Entry, NEW h, NEW k,
           InspectKnownHost(entries, h, k) \notin {"refused", "trusted"}
    PROVE  /\ InspectKnownHost(entries, h, k) \in {"new", "type_changed", "mismatch"}
           /\ InspectKnownHost(entries, h, k) # "mismatch" =>
                  \A e \in entries : e.host = h /\ e.marker = "plain" => e.key.type # k.type
<1> DEFINE plain == PlainTypes(entries, h)
<1>1. ASSUME NEW e \in entries, e.host = h, e.marker = "plain"
      PROVE  e \in Want(entries, h) /\ e.key.type \in plain
    BY <1>1 DEF Want, PlainTypes
<1>m. KeyMatches(entries, h, k) =>
          ~Revoked(entries, k) /\ Want(entries, h) # {} /\ (HasAuthority(entries, h) \/ k.type \in plain)
    BY DEF KeyMatches, Want, HasAuthority, PlainTypes, Entry
<1>2. Revoked(entries, k) => InspectKnownHost(entries, h, k) = "refused"
    BY <1>m, Zenon DEF InspectKnownHost
<1>3. KeyMatches(entries, h, k) => InspectKnownHost(entries, h, k) = "trusted"
    BY <1>m, Zenon DEF InspectKnownHost
<1>4. ~Revoked(entries, k) /\ ~KeyMatches(entries, h, k)
    BY <1>2, <1>3
<1>5. Want(entries, h) = {} => InspectKnownHost(entries, h, k) = "new"
    BY <1>4, Zenon DEF InspectKnownHost
<1>6. Want(entries, h) # {} /\ ~HasAuthority(entries, h) /\ k.type \notin plain
          => InspectKnownHost(entries, h, k) = "type_changed"
    BY <1>4, Zenon DEF InspectKnownHost
<1>7. Want(entries, h) # {} /\ ~(~HasAuthority(entries, h) /\ k.type \notin plain)
          => InspectKnownHost(entries, h, k) = "mismatch"
    BY <1>4, Zenon DEF InspectKnownHost
<1> QED BY <1>1, <1>5, <1>6, <1>7

(***************************************************************************)
(* The inductive invariant.                                                *)
(***************************************************************************)
\* An accept works on a reviewed pair of host and key, and from the first
\* comparison on it observed that very key.
AcceptsFormed ==
    /\ \A a \in Accepters :
        /\ accepter[a].pc # "idle" => <<accepter[a].host, accepter[a].want>> \in reviewed
        /\ accepter[a].pc \notin {"idle", "inspect"} => accepter[a].seen \in Key
        /\ accepter[a].pc \in {"rescan", "append", "read", "rename"} => accepter[a].seen = accepter[a].want
    /\ \A c \in Clients : client[c].pc # "idle" => client[c].host \in Hosts

\* A set of entries that trusts only what may be trusted and forgets no
\* revocation of the first file.
KeepsTrust(entries) ==
    /\ \A e \in entries : e.marker # "revoked" => <<e.host, e.key>> \in Trusted
    /\ \A e \in first : e.marker = "revoked" => e \in entries

\* The file, and every copy of it that a process holds, keeps trust; so do the
\* credentials sent on the strength of such a copy.
TrustInv ==
    /\ KeepsTrust(file)
    /\ \A a \in Accepters : accepter[a].pc = "rename" => KeepsTrust(accepter[a].read)
    /\ \A c \in Clients : client[c].pc # "idle" => KeepsTrust(client[c].known)
    /\ \A s \in sent : s \in Trusted /\ ~Revoked(first, s[2])

Inv == TypeOK /\ AcceptsFormed /\ TrustInv

LEMMA InvInit == Init => Inv
<1> SUFFICES ASSUME Init PROVE Inv
    OBVIOUS
<1>1. NoAccept \in AcceptState
    BY DEF NoAccept, AcceptState
<1>2. NoClient \in ClientState
    BY DEF NoClient, ClientState
<1>3. TypeOK
    BY <1>1, <1>2, TrustFiles, TrustBounds DEF Init, TypeOK
<1>4. AcceptsFormed
    BY DEF Init, AcceptsFormed, NoAccept, NoClient
<1>5. TrustInv
    BY DEF Init, TrustInv, KeepsTrust, Trusted, NoAccept, NoClient
<1> QED BY <1>3, <1>4, <1>5 DEF Inv

\* What was trusted stays trusted: the first file is fixed and the reviewed
\* fingerprints only become more.
LEMMA TrustGrows ==
    ASSUME first' = first, reviewed \subseteq reviewed'
    PROVE  /\ Trusted \subseteq Trusted'
           /\ \A entries : KeepsTrust(entries) => KeepsTrust(entries)'
BY DEF Trusted, KeepsTrust

\* An accept that ends leaves everything else as it was.
LEMMA EndsAccept ==
    ASSUME Inv, NEW a \in Accepters, EndAccept(a),
           UNCHANGED <<file, first, server, reviewed, client, sent, spent>>
    PROVE  Inv'
<1>1. NoAccept \in AcceptState /\ NoAccept.pc = "idle"
    BY DEF NoAccept, AcceptState
<1>2. TypeOK'
    BY <1>1 DEF Inv, TypeOK, EndAccept
<1>3. AcceptsFormed'
    BY <1>1 DEF Inv, TypeOK, AcceptsFormed, EndAccept
<1>4. TrustInv'
    BY <1>1 DEF Inv, TypeOK, TrustInv, EndAccept, KeepsTrust, Trusted
<1> QED BY <1>2, <1>3, <1>4 DEF Inv

\* An accept that goes on changes only its own state.
LEMMA AcceptGoesOn ==
    ASSUME Inv, NEW a \in Accepters, NEW r \in AcceptState,
           accepter' = [accepter EXCEPT ![a] = r],
           UNCHANGED <<file, first, server, reviewed, client, sent, spent>>,
           <<r.host, r.want>> \in reviewed,
           r.pc \notin {"idle", "inspect"} => r.seen \in Key,
           r.pc \in {"rescan", "append", "read", "rename"} => r.seen = r.want,
           r.pc = "rename" => r.read = file
    PROVE  Inv'
<1>1. TypeOK'
    BY DEF Inv, TypeOK
<1>2. AcceptsFormed'
    BY DEF Inv, TypeOK, AcceptsFormed
<1>3. TrustInv'
    BY DEF Inv, TypeOK, TrustInv, KeepsTrust, Trusted
<1> QED BY <1>1, <1>2, <1>3 DEF Inv

\* A new file that keeps trust may replace the old one.
LEMMA NewFileKeepsTrust ==
    ASSUME Inv, NEW a \in Accepters, EndAccept(a), file' \subseteq Entry,
           UNCHANGED <<first, server, reviewed, client, sent, spent>>,
           KeepsTrust(file)'
    PROVE  Inv'
<1>1. NoAccept \in AcceptState /\ NoAccept.pc = "idle"
    BY DEF NoAccept, AcceptState
<1>2. TypeOK'
    BY <1>1 DEF Inv, TypeOK, EndAccept
<1>3. AcceptsFormed'
    BY <1>1 DEF Inv, TypeOK, AcceptsFormed, EndAccept
<1>4. TrustInv'
    BY <1>1 DEF Inv, TypeOK, TrustInv, EndAccept, KeepsTrust, Trusted
<1> QED BY <1>2, <1>3, <1>4 DEF Inv

\* The entry an accept writes is well formed and reviewed.
LEMMA AcceptedIsReviewed ==
    ASSUME Inv, NEW a \in Accepters, accepter[a].pc \in {"append", "read", "rename"}
    PROVE  /\ Accepted(a) \in Entry
           /\ Accepted(a).marker = "plain"
           /\ Accepted(a).host = accepter[a].host
           /\ Accepted(a).key = accepter[a].want
           /\ <<Accepted(a).host, Accepted(a).key>> \in Trusted
<1>1. /\ <<accepter[a].host, accepter[a].want>> \in reviewed
      /\ accepter[a].seen = accepter[a].want
    BY DEF Inv, AcceptsFormed
<1>2. accepter[a].host \in Hosts /\ accepter[a].want \in Key
    BY <1>1 DEF Inv, TypeOK
<1> QED BY <1>1, <1>2 DEF Accepted, Entry, Trusted

\* Every step preserves the invariant.
LEMMA InvStep == Inv /\ [Next]_trustVars => Inv'
<1> SUFFICES ASSUME Inv, [Next]_trustVars PROVE Inv'
    OBVIOUS
<1>0. ASSUME NEW a \in Accepters PROVE accepter[a] \in AcceptState
    BY DEF Inv, TypeOK
<1>1. ASSUME NEW a \in Accepters, StartAccept(a) PROVE Inv'
    <2>1. PICK h \in Hosts, k \in Key :
              /\ accepter' = [accepter EXCEPT ![a] = [NoAccept EXCEPT !.pc = "inspect", !.host = h, !.want = k]]
              /\ reviewed' = reviewed \cup {<<h, k>>}
        BY <1>1 DEF StartAccept
    <2> DEFINE r == [NoAccept EXCEPT !.pc = "inspect", !.host = h, !.want = k]
    <2>2. r \in AcceptState /\ r.pc = "inspect" /\ r.host = h /\ r.want = k
        BY DEF AcceptState, NoAccept
    <2> HIDE DEF r
    <2>3. UNCHANGED <<file, first, server, client, sent>>
        BY <1>1 DEF StartAccept
    <2>4. spent' \in [accepts: 0..MaxAccepts, rotations: 0..MaxRotations, connects: 0..MaxConnects]
        BY <1>1, TrustBounds DEF StartAccept, Inv, TypeOK
    <2>5. TypeOK'
        BY <2>1, <2>2, <2>3, <2>4 DEF Inv, TypeOK, r
    <2>6. AcceptsFormed'
        BY <2>1, <2>2, <2>3 DEF Inv, TypeOK, AcceptsFormed, r
    <2>7. TrustInv'
        BY <2>1, <2>2, <2>3, TrustGrows DEF Inv, TypeOK, TrustInv, r
    <2> QED BY <2>5, <2>6, <2>7 DEF Inv
<1>2. ASSUME NEW a \in Accepters, InspectHostKey(a) PROVE Inv'
    <2>1. <<accepter[a].host, accepter[a].want>> \in reviewed
        BY <1>2 DEF InspectHostKey, Inv, AcceptsFormed
    <2>2. Presented(file, accepter[a].host) \subseteq Key
        BY <2>1, PresentedIsKey DEF Inv, TypeOK
    <2>3. PICK k \in Key : accepter' = [accepter EXCEPT ![a] = [accepter[a] EXCEPT !.pc = "compare", !.seen = k]]
        BY <1>2, <2>2 DEF InspectHostKey
    <2> DEFINE r == [accepter[a] EXCEPT !.pc = "compare", !.seen = k]
    <2>4. r \in AcceptState /\ r.pc = "compare" /\ r.seen = k
              /\ r.host = accepter[a].host /\ r.want = accepter[a].want
        BY <1>0 DEF AcceptState
    <2> HIDE DEF r
    <2> QED BY <1>2, <2>1, <2>3, <2>4, AcceptGoesOn DEF InspectHostKey, r
<1>3. ASSUME NEW a \in Accepters, CompareHostKey(a) PROVE Inv'
    <2>1. CASE EndAccept(a)
        BY <1>3, <2>1, EndsAccept DEF CompareHostKey
    <2>2. CASE ~EndAccept(a)
        <3> DEFINE status == InspectKnownHost(file, accepter[a].host, accepter[a].seen)
                   r == [accepter[a] EXCEPT !.pc = "rescan", !.status = status]
        <3>1. /\ accepter[a].pc = "compare" /\ accepter[a].seen = accepter[a].want
              /\ status \notin {"refused", "trusted"}
              /\ accepter' = [accepter EXCEPT ![a] = r]
              /\ UNCHANGED <<file, first, server, reviewed, client, sent, spent>>
            BY <1>3, <2>2 DEF CompareHostKey
        <3>2. status \in {"new", "type_changed", "mismatch"}
            BY <3>1, InspectOutcome DEF Inv, TypeOK
        <3> HIDE DEF status
        <3>3. r \in AcceptState /\ r.pc = "rescan" /\ r.seen = accepter[a].seen
                  /\ r.host = accepter[a].host /\ r.want = accepter[a].want
            BY <1>0, <3>2 DEF AcceptState
        <3>4. <<accepter[a].host, accepter[a].want>> \in reviewed /\ accepter[a].seen \in Key
            BY <3>1 DEF Inv, AcceptsFormed
        <3> HIDE DEF r
        <3> QED BY <3>1, <3>3, <3>4, AcceptGoesOn
    <2> QED BY <2>1, <2>2
<1>4. ASSUME NEW a \in Accepters, ScanObservedKey(a) PROVE Inv'
    <2>1. CASE EndAccept(a)
        BY <1>4, <2>1, EndsAccept DEF ScanObservedKey
    <2>2. CASE ~EndAccept(a)
        <3> DEFINE next == IF accepter[a].status = "mismatch" THEN "read" ELSE "append"
                   r == [accepter[a] EXCEPT !.seen = accepter[a].want, !.pc = next]
        <3>1. /\ accepter[a].pc = "rescan"
              /\ accepter' = [accepter EXCEPT ![a] = r]
              /\ UNCHANGED <<file, first, server, reviewed, client, sent, spent>>
            BY <1>4, <2>2 DEF ScanObservedKey
        <3>2. <<accepter[a].host, accepter[a].want>> \in reviewed /\ accepter[a].want \in Key
            BY <3>1 DEF Inv, AcceptsFormed, TypeOK
        <3>3. r \in AcceptState /\ r.pc \in {"read", "append"} /\ r.seen = accepter[a].want
                  /\ r.host = accepter[a].host /\ r.want = accepter[a].want
            BY <1>0, <3>2 DEF AcceptState
        <3> HIDE DEF r
        <3> QED BY <3>1, <3>2, <3>3, AcceptGoesOn
    <2> QED BY <2>1, <2>2
<1>5. ASSUME NEW a \in Accepters, SaveHostKey(a) PROVE Inv'
    <2>1. accepter[a].pc = "append" /\ file' = file \cup {Accepted(a)} /\ EndAccept(a)
              /\ UNCHANGED <<first, server, reviewed, client, sent, spent>>
        BY <1>5 DEF SaveHostKey
    <2>2. Accepted(a) \in Entry /\ <<Accepted(a).host, Accepted(a).key>> \in Trusted
        BY <2>1, AcceptedIsReviewed
    <2>3. file' \subseteq Entry /\ KeepsTrust(file)'
        BY <2>1, <2>2 DEF Inv, TypeOK, TrustInv, KeepsTrust, Trusted
    <2> QED BY <2>1, <2>3, NewFileKeepsTrust
<1>6. ASSUME NEW a \in Accepters, ReadKnownHosts(a) PROVE Inv'
    <2> DEFINE r == [accepter[a] EXCEPT !.pc = "rename", !.read = file]
    <2>1. /\ accepter[a].pc = "read"
          /\ accepter' = [accepter EXCEPT ![a] = r]
          /\ UNCHANGED <<file, first, server, reviewed, client, sent, spent>>
        BY <1>6 DEF ReadKnownHosts
    <2>2. <<accepter[a].host, accepter[a].want>> \in reviewed /\ accepter[a].seen \in Key
              /\ accepter[a].seen = accepter[a].want
        BY <2>1 DEF Inv, AcceptsFormed
    <2>3. file \subseteq Entry
        BY DEF Inv, TypeOK
    <2>4. r \in AcceptState /\ r.pc = "rename" /\ r.seen = accepter[a].seen /\ r.read = file
              /\ r.host = accepter[a].host /\ r.want = accepter[a].want
        BY <1>0, <2>3 DEF AcceptState
    <2> HIDE DEF r
    <2> QED BY <2>1, <2>2, <2>4, AcceptGoesOn
<1>7. ASSUME NEW a \in Accepters, ReplaceKnownHost(a) PROVE Inv'
    <2> DEFINE kept == DropKnownHost(accepter[a].read, accepter[a].host, accepter[a].seen.type)
    <2>1. accepter[a].pc = "rename" /\ file' = kept \cup {Accepted(a)} /\ EndAccept(a)
              /\ UNCHANGED <<first, server, reviewed, client, sent, spent>>
        BY <1>7 DEF ReplaceKnownHost
    <2>2. Accepted(a) \in Entry /\ <<Accepted(a).host, Accepted(a).key>> \in Trusted
        BY <2>1, AcceptedIsReviewed
    <2>3. kept \subseteq Entry /\ KeepsTrust(kept)
        BY <1>0, <2>1 DEF Inv, TypeOK, TrustInv, KeepsTrust, DropKnownHost, AcceptState
    <2> HIDE DEF kept
    <2>4. file' \subseteq Entry /\ KeepsTrust(file)'
        BY <2>1, <2>2, <2>3 DEF KeepsTrust, Trusted
    <2> QED BY <2>1, <2>4, NewFileKeepsTrust
<1>8. ASSUME NEW a \in Accepters, AcceptFails(a) PROVE Inv'
    BY <1>8, EndsAccept DEF AcceptFails
<1>9. ASSUME NEW c \in Clients, LoadKnownHosts(c) PROVE Inv'
    <2>1. PICK h \in Hosts :
              client' = [client EXCEPT ![c] = [pc |-> "loaded", host |-> h, known |-> file, asked |-> {}]]
        BY <1>9 DEF LoadKnownHosts
    <2>2. UNCHANGED <<file, first, server, reviewed, accepter, sent>>
        BY <1>9 DEF LoadKnownHosts
    <2>3. spent' \in [accepts: 0..MaxAccepts, rotations: 0..MaxRotations, connects: 0..MaxConnects]
        BY <1>9, TrustBounds DEF LoadKnownHosts, Inv, TypeOK
    <2>4. TypeOK'
        BY <2>1, <2>2, <2>3 DEF Inv, TypeOK, ClientState
    <2>5. AcceptsFormed'
        BY <2>1, <2>2 DEF Inv, TypeOK, AcceptsFormed
    <2>6. TrustInv'
        BY <2>1, <2>2, TrustGrows DEF Inv, TypeOK, TrustInv
    <2> QED BY <2>4, <2>5, <2>6 DEF Inv
<1>10. ASSUME NEW c \in Clients, NegotiateKey(c) PROVE Inv'
    <2>1. client[c] \in ClientState /\ client[c].host \in Hosts
        BY <1>10 DEF NegotiateKey, Inv, TypeOK, AcceptsFormed
    <2>2. Presented(file, client[c].host) \subseteq Key
        BY <2>1, PresentedIsKey DEF Inv
    <2>3. PICK k \in Key : client' = [client EXCEPT ![c] = [client[c] EXCEPT !.pc = "presented", !.asked = {k}]]
        BY <1>10, <2>2 DEF NegotiateKey
    <2> DEFINE r == [client[c] EXCEPT !.pc = "presented", !.asked = {k}]
    <2>4. r \in ClientState /\ r.host = client[c].host /\ r.known = client[c].known
        BY <2>1 DEF ClientState
    <2>5. client' = [client EXCEPT ![c] = r]
        BY <2>3
    <2> HIDE DEF r
    <2>6. client[c].pc = "loaded" /\ UNCHANGED <<file, first, server, reviewed, accepter, sent, spent>>
        BY <1>10 DEF NegotiateKey
    <2>7. TypeOK'
        BY <2>4, <2>5, <2>6 DEF Inv, TypeOK
    <2>8. AcceptsFormed'
        BY <2>1, <2>4, <2>5, <2>6 DEF Inv, TypeOK, AcceptsFormed
    <2>9. TrustInv'
        BY <2>4, <2>5, <2>6, TrustGrows DEF Inv, TypeOK, TrustInv
    <2> QED BY <2>7, <2>8, <2>9 DEF Inv
<1>11. ASSUME NEW c \in Clients, CheckHostKey(c) PROVE Inv'
    <2> DEFINE new == {<<client[c].host, k>> : k \in {x \in client[c].asked :
                          HostKeyAccepted(client[c].known, client[c].host, x)}}
    <2>1. /\ client[c].pc = "presented" /\ sent' = sent \cup new
          /\ client' = [client EXCEPT ![c] = NoClient]
          /\ UNCHANGED <<file, first, server, reviewed, accepter, spent>>
        BY <1>11 DEF CheckHostKey
    <2>2. client[c] \in ClientState /\ client[c].host \in Hosts /\ KeepsTrust(client[c].known)
        BY <2>1 DEF Inv, TypeOK, AcceptsFormed, TrustInv
    <2>3. ASSUME NEW k \in client[c].asked, HostKeyAccepted(client[c].known, client[c].host, k)
          PROVE  k \in Key /\ <<client[c].host, k>> \in Trusted /\ ~Revoked(first, k)
        BY <2>2, <2>3 DEF HostKeyAccepted, KeyMatches, KeepsTrust, Want, Revoked, ClientState
    <2>4. \A s \in new : s \in Hosts \X Key /\ s \in Trusted /\ ~Revoked(first, s[2])
        BY <2>2, <2>3
    <2> HIDE DEF new
    <2>5. NoClient \in ClientState /\ NoClient.pc = "idle"
        BY DEF NoClient, ClientState
    <2>6. TypeOK'
        BY <2>1, <2>4, <2>5 DEF Inv, TypeOK
    <2>7. AcceptsFormed'
        BY <2>1, <2>5 DEF Inv, TypeOK, AcceptsFormed
    <2>8. TrustInv'
        BY <2>1, <2>4, <2>5, TrustGrows DEF Inv, TypeOK, TrustInv, Trusted, Revoked
    <2> QED BY <2>6, <2>7, <2>8 DEF Inv
<1>12. CASE Rotate
    <2>1. server' \in [Hosts -> [Types -> 0..Ids]]
        BY <1>12, TrustBounds DEF Rotate, Inv, TypeOK
    <2>2. spent' \in [accepts: 0..MaxAccepts, rotations: 0..MaxRotations, connects: 0..MaxConnects]
        BY <1>12, TrustBounds DEF Rotate, Inv, TypeOK
    <2>3. UNCHANGED <<file, first, reviewed, accepter, client, sent>>
        BY <1>12 DEF Rotate
    <2> QED BY <2>1, <2>2, <2>3, TrustGrows DEF Inv, TypeOK, AcceptsFormed, TrustInv, KeepsTrust, Trusted
<1>13. CASE UNCHANGED trustVars
    BY <1>13 DEF trustVars, Inv, TypeOK, AcceptsFormed, TrustInv, KeepsTrust, Trusted
<1> QED BY <1>1, <1>2, <1>3, <1>4, <1>5, <1>6, <1>7, <1>8, <1>9, <1>10, <1>11, <1>12, <1>13
        DEF Next

LEMMA Invariance == Spec => []Inv
BY InvInit, InvStep, PTL DEF Spec

\* Every variable of KnownHosts keeps its type.
THEOREM TrustTypeCorrect == Spec => []TypeOK
<1>1. Inv => TypeOK
    BY DEF Inv
<1> QED BY <1>1, Invariance, PTL

\* Any number of accepts and connections at once, over endpoints that change
\* their keys at any moment: credentials only go to, and known_hosts only
\* lists, keys that were trusted from the start or whose fingerprint a user
\* gave for that host, and never a revoked key (AcceptHostKeyWithVault,
\* trackedHostKeyCallback).
THEOREM OnlyReviewedTrusted == Spec => []TrustIsReviewed
<1>1. Inv => TrustIsReviewed
    BY DEF Inv, TrustInv, KeepsTrust, TrustIsReviewed
<1> QED BY <1>1, Invariance, PTL

(***************************************************************************)
(* One accept at a time.  The file has no lock: two accepts may append two *)
(* keys of one type, or one may rename away what the other appended.  What *)
(* follows is therefore about any number of accepts one after the other.   *)
(***************************************************************************)
\* No plain entry of the host has the type of the key being accepted.
TypeIsNew(a) ==
    \A e \in file : e.host = accepter[a].host /\ e.marker = "plain" => e.key.type # accepter[a].want.type

\* What the accept learned of the file is still true when it writes.
SoleInv(a) ==
    /\ accepter[a].pc = "rescan" => TypeIsNew(a) \/ accepter[a].status = "mismatch"
    /\ accepter[a].pc = "append" => TypeIsNew(a)
    /\ accepter[a].pc = "rename" => accepter[a].read = file

LEMMA SoleStep ==
    ASSUME NEW a, Accepters = {a}, Inv, SoleInv(a), [Next]_trustVars
    PROVE  /\ SoleInv(a)'
           /\ \/ file' = file
              \/ SaveHostKey(a) /\ TypeIsNew(a)
              \/ ReplaceKnownHost(a) /\ accepter[a].read = file
<1>0. accepter \in [Accepters -> AcceptState] /\ accepter[a] \in AcceptState
    BY DEF Inv, TypeOK
<1> USE DEF SoleInv, TypeIsNew
<1>1. CASE StartAccept(a)
    <2>1. accepter'[a].pc = "inspect" /\ file' = file
        BY <1>0, <1>1 DEF StartAccept, NoAccept
    <2> QED BY <2>1
<1>2. CASE InspectHostKey(a)
    <2>1. accepter'[a].pc = "compare" /\ file' = file
        BY <1>0, <1>2 DEF InspectHostKey, AcceptState
    <2> QED BY <2>1
<1>e. ASSUME EndAccept(a) PROVE accepter'[a].pc = "idle"
    BY <1>0, <1>e DEF EndAccept, NoAccept
<1>3. CASE CompareHostKey(a)
    <2> DEFINE status == InspectKnownHost(file, accepter[a].host, accepter[a].seen)
    <2>1. file' = file
        BY <1>3 DEF CompareHostKey
    <2>2. CASE EndAccept(a)
        BY <1>e, <2>1, <2>2
    <2>3. CASE ~EndAccept(a)
        <3>1. /\ accepter[a].seen = accepter[a].want /\ status \notin {"refused", "trusted"}
              /\ accepter' = [accepter EXCEPT ![a] = [accepter[a] EXCEPT !.pc = "rescan", !.status = status]]
            BY <1>3, <2>3 DEF CompareHostKey
        <3>2. status # "mismatch" => TypeIsNew(a)
            BY <3>1, InspectOutcome DEF Inv, TypeOK
        <3> HIDE DEF status
        <3>3. /\ accepter'[a].pc = "rescan" /\ accepter'[a].status = status
              /\ accepter'[a].host = accepter[a].host /\ accepter'[a].want = accepter[a].want
            BY <1>0, <3>1 DEF AcceptState
        <3> QED BY <2>1, <3>2, <3>3
    <2> QED BY <2>2, <2>3
<1>4. CASE ScanObservedKey(a)
    <2>1. file' = file /\ accepter[a].pc = "rescan"
        BY <1>4 DEF ScanObservedKey
    <2>2. CASE EndAccept(a)
        BY <1>e, <2>1, <2>2
    <2>3. CASE ~EndAccept(a)
        <3> DEFINE next == IF accepter[a].status = "mismatch" THEN "read" ELSE "append"
        <3>1. accepter' = [accepter EXCEPT ![a] = [accepter[a] EXCEPT !.seen = accepter[a].want, !.pc = next]]
            BY <1>4, <2>3 DEF ScanObservedKey
        <3>2. /\ accepter'[a].pc = next
              /\ accepter'[a].host = accepter[a].host /\ accepter'[a].want = accepter[a].want
            BY <1>0, <3>1 DEF AcceptState
        <3> QED BY <2>1, <3>2
    <2> QED BY <2>2, <2>3
<1>5. CASE SaveHostKey(a)
    BY <1>5, <1>e DEF SaveHostKey
<1>6. CASE ReadKnownHosts(a)
    <2>1. file' = file /\ accepter' = [accepter EXCEPT ![a] = [accepter[a] EXCEPT !.pc = "rename", !.read = file]]
        BY <1>6 DEF ReadKnownHosts
    <2>2. accepter'[a].pc = "rename" /\ accepter'[a].read = file
        BY <1>0, <2>1 DEF AcceptState
    <2> QED BY <2>1, <2>2
<1>7. CASE ReplaceKnownHost(a)
    BY <1>7, <1>e DEF ReplaceKnownHost
<1>8. CASE AcceptFails(a)
    BY <1>8, <1>e DEF AcceptFails
<1>9. CASE \/ \E c \in Clients : LoadKnownHosts(c) \/ NegotiateKey(c) \/ CheckHostKey(c)
           \/ Rotate \/ UNCHANGED trustVars
    <2>1. UNCHANGED <<file, accepter>>
        BY <1>9 DEF LoadKnownHosts, NegotiateKey, CheckHostKey, Rotate, trustVars
    <2> QED BY <2>1
<1> QED BY <1>1, <1>2, <1>3, <1>4, <1>5, <1>6, <1>7, <1>8, <1>9 DEF Next

\* The two ways of writing keep one key per type.
LEMMA OneKeyStep ==
    ASSUME NEW a, Accepters = {a}, Inv, SoleInv(a), OneKeyPerType, [Next]_trustVars
    PROVE  OneKeyPerType'
<1>1. CASE file' = file
    BY <1>1 DEF OneKeyPerType
<1>2. CASE SaveHostKey(a) /\ TypeIsNew(a)
    <2>1. /\ Accepted(a).marker = "plain" /\ Accepted(a).host = accepter[a].host
          /\ Accepted(a).key = accepter[a].want
        BY <1>2, AcceptedIsReviewed DEF SaveHostKey
    <2>2. file' = file \cup {Accepted(a)}
        BY <1>2 DEF SaveHostKey
    <2> QED BY <1>2, <2>1, <2>2 DEF TypeIsNew, OneKeyPerType
<1>3. CASE ReplaceKnownHost(a) /\ accepter[a].read = file
    <2>1. /\ Accepted(a).marker = "plain" /\ Accepted(a).host = accepter[a].host
          /\ Accepted(a).key = accepter[a].want
        BY <1>3, AcceptedIsReviewed DEF ReplaceKnownHost
    <2>2. accepter[a].seen = accepter[a].want
        BY <1>3 DEF ReplaceKnownHost, Inv, AcceptsFormed
    <2>3. file' = DropKnownHost(file, accepter[a].host, accepter[a].want.type) \cup {Accepted(a)}
        BY <1>3, <2>2 DEF ReplaceKnownHost
    <2> QED BY <2>1, <2>3 DEF DropKnownHost, OneKeyPerType
<1> QED BY <1>1, <1>2, <1>3, SoleStep

\* With accepts one after the other, and a file that has one key of each type
\* per host, a key is trusted only on its reviewed fingerprint and the key it
\* replaced is trusted no more (replaceKnownHost, appendKnownHost).
THEOREM SoleAccepterTrustSound ==
    ASSUME NEW a, Accepters = {a},
           \A f \in InitialFiles : \A x, y \in f :
               x.marker = "plain" /\ y.marker = "plain" /\ x.host = y.host /\ x.key.type = y.key.type => x = y
    PROVE  Spec => []TrustSound
<1>1. Init => SoleInv(a) /\ OneKeyPerType
    BY DEF Init, SoleInv, OneKeyPerType, NoAccept
<1>2. Inv /\ SoleInv(a) /\ OneKeyPerType /\ [Next]_trustVars => SoleInv(a)' /\ OneKeyPerType'
    BY SoleStep, OneKeyStep
<1>3. Inv /\ OneKeyPerType => TrustSound
    BY DEF Inv, TrustInv, KeepsTrust, TrustIsReviewed, TrustSound
<1> QED BY <1>1, <1>2, <1>3, Invariance, PTL DEF Spec

\* With accepts one after the other, no step takes an entry off known_hosts but
\* the replaced one of the same host and key type (dropKnownHostEntry).
THEOREM SoleAccepterKeepsOthers ==
    ASSUME NEW sole, Accepters = {sole}
    PROVE  Spec => OthersKept
<1>1. Init => SoleInv(sole)
    BY DEF Init, SoleInv, NoAccept
<1>2. Inv /\ SoleInv(sole) /\ [Next]_trustVars => SoleInv(sole)'
    BY SoleStep
<1> DEFINE Replaced(e) == \E a \in Accepters : /\ accepter[a].host = e.host
                                               /\ accepter[a].want.type = e.key.type
                                               /\ e.marker = "plain"
<1>3. Inv /\ SoleInv(sole) /\ [Next]_trustVars => [\A e \in file \ file' : Replaced(e)]_trustVars
    <2> SUFFICES ASSUME Inv, SoleInv(sole), [Next]_trustVars, NEW e \in file \ file'
                 PROVE  accepter[sole].host = e.host /\ accepter[sole].want.type = e.key.type /\ e.marker = "plain"
        OBVIOUS
    <2>1. ~SaveHostKey(sole)
        BY DEF SaveHostKey
    <2>2. ReplaceKnownHost(sole) /\ accepter[sole].read = file
        BY <2>1, SoleStep
    <2>3. accepter[sole].seen = accepter[sole].want
        BY <2>2 DEF ReplaceKnownHost, Inv, AcceptsFormed
    <2> QED BY <2>2, <2>3 DEF ReplaceKnownHost, DropKnownHost
<1> QED BY <1>1, <1>2, <1>3, Invariance, PTL DEF Spec, OthersKept
=============================================================================
