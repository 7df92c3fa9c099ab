---------------------------- MODULE KnownHosts ----------------------------
(***************************************************************************)
(* Host key trust (src/internal/ssh/hostkey.go, hostkey_types.go, the      *)
(* callback of auth.go and src/cmd/ssm/hostkey.go): how a connection       *)
(* decides that a host is the one its user trusts, and how `host-key       *)
(* accept` changes ~/.ssh/known_hosts.                                     *)
(*                                                                         *)
(* An accept looks at the endpoint twice and at the file several times,    *)
(* and the endpoint may present another key at any moment.  The file is    *)
(* replaced by a rename or extended by an append, with no lock.  JumpDial  *)
(* has the dial around the check; here only the trust decision matters.    *)
(***************************************************************************)
EXTENDS Integers, FiniteSets

CONSTANTS
    Hosts,          \* endpoints, as known_hosts names them
    Types,          \* host key types
    Ids,            \* keys of one type are 1..Ids
    InitialFiles,   \* known_hosts files to start from
    Accepters,      \* processes running host-key accept
    Clients,        \* processes connecting
    MaxAccepts,     \* accept commands in one behaviour
    MaxRotations,   \* key changes of endpoints in one behaviour
    MaxConnects     \* connections in one behaviour

ASSUME TrustBounds == Ids \in Nat \ {0} /\ {MaxAccepts, MaxRotations, MaxConnects} \subseteq Nat

VARIABLES
    file,       \* known_hosts, as its set of entries
    first,      \* the file this behaviour started with
    server,     \* what each endpoint presents: type -> key, 0 for none
    reviewed,   \* host and key a user gave as a fingerprint to accept
    accepter,   \* Accepters -> state of an accept
    client,     \* Clients -> state of a connection
    sent,       \* host and key credentials were sent to
    spent       \* accepts, rotations and connections so far

trustVars == <<file, first, server, reviewed, accepter, client, sent, spent>>

Key == [type: Types, id: 1..Ids]
NoKey == [type |-> "none", id |-> 0]
Entry == [host: Hosts, key: Key, marker: {"plain", "ca", "revoked"}]

ASSUME TrustFiles == InitialFiles \subseteq SUBSET Entry

(***************************************************************************)
(* The known_hosts database (golang.org/x/crypto/ssh/knownhosts).          *)
(***************************************************************************)
\* A revoked key is refused for every host; otherwise any entry will do.
Revoked(entries, key) == \E e \in entries : e.marker = "revoked" /\ e.key = key
Want(entries, host) == {e \in entries : e.host = host /\ e.marker # "revoked"}
KeyMatches(entries, host, key) ==
    ~Revoked(entries, key) /\ \E e \in Want(entries, host) : e.key = key

\* splitCertAuthorities and knownHostKeyTypes: the plain types of a host.
HasAuthority(entries, host) == \E e \in Want(entries, host) : e.marker = "ca"
PlainTypes(entries, host) == {e.key.type : e \in {w \in Want(entries, host) : w.marker = "plain"}}

\* hostKeyAlgorithmsFor: recorded types are negotiated first, unless a
\* certificate authority is recorded for the host.
Presented(entries, host) ==
    LET offered == {t \in Types : server[host][t] # 0}
        preferred == IF HasAuthority(entries, host) THEN {}
                     ELSE PlainTypes(entries, host) \cap offered
    IN  {[type |-> t, id |-> server[host][t]] :
            t \in IF preferred # {} THEN preferred ELSE offered}

\* A plausible bug: a changed key is taken for an additional one.
InspectKnownHostAdds(entries, host, key) ==
    CASE Revoked(entries, key) -> "refused"
      [] KeyMatches(entries, host, key) -> "trusted"
      [] OTHER -> "new"

\* inspectKnownHost: how an observed key relates to the file.
InspectKnownHost(entries, host, key) ==
    CASE Revoked(entries, key) -> "refused"
      [] KeyMatches(entries, host, key) -> "trusted"
      [] ~Revoked(entries, key) /\ Want(entries, host) = {} -> "new"
      [] /\ ~Revoked(entries, key) /\ Want(entries, host) # {}
         /\ ~HasAuthority(entries, host) /\ key.type \notin PlainTypes(entries, host) -> "type_changed"
      [] OTHER -> "mismatch"

\* A plausible bug: every key of the endpoint is dropped, whatever its type.
DropKnownHostAllTypes(entries, host, type) ==
    {e \in entries : ~(e.host = host /\ e.marker = "plain")}

\* dropKnownHostEntry: the endpoint's plain entries of one type, nothing else.
DropKnownHost(entries, host, type) ==
    {e \in entries : ~(e.host = host /\ e.marker = "plain" /\ e.key.type = type)}

(***************************************************************************)
(* host-key accept.                                                        *)
(***************************************************************************)
NoAccept == [pc |-> "idle", host |-> "none", want |-> NoKey, seen |-> NoKey,
             status |-> "none", read |-> {}]

GoTo(a, pc) == accepter' = [accepter EXCEPT ![a].pc = pc]
EndAccept(a) == accepter' = [accepter EXCEPT ![a] = NoAccept]

\* The command line: the alias and the full fingerprint its user verified.
StartAccept(a) ==
    /\ accepter[a].pc = "idle"
    /\ spent.accepts < MaxAccepts
    /\ \E h \in Hosts, k \in Key :
        /\ accepter' = [accepter EXCEPT ![a] = [NoAccept EXCEPT !.pc = "inspect", !.host = h, !.want = k]]
        /\ reviewed' = reviewed \cup {<<h, k>>}
    /\ spent' = [spent EXCEPT !.accepts = @ + 1]
    /\ UNCHANGED <<file, first, server, client, sent>>

\* InspectHostKeyWithVault observes the endpoint without authenticating ...
InspectHostKey(a) ==
    /\ accepter[a].pc = "inspect"
    /\ \E k \in Presented(file, accepter[a].host) :
        accepter' = [accepter EXCEPT ![a].pc = "compare", ![a].seen = k]
    /\ UNCHANGED <<file, first, server, reviewed, client, sent, spent>>

\* ... and compares the key with the file and with the accepted fingerprint.
CompareHostKey(a) ==
    LET p == accepter[a]
        status == InspectKnownHost(file, p.host, p.seen)
    IN  /\ p.pc = "compare"
        /\ IF p.seen = p.want /\ status \notin {"refused", "trusted"}
           THEN accepter' = [accepter EXCEPT ![a].pc = "rescan", ![a].status = status]
           ELSE EndAccept(a)
        /\ UNCHANGED <<file, first, server, reviewed, client, sent, spent>>

\* A plausible bug: whatever the second observation brings is recorded.
ScanObservedKeyUnchecked(a) ==
    /\ accepter[a].pc = "rescan"
    /\ \E k \in Presented(file, accepter[a].host) :
        accepter' = [accepter EXCEPT ![a].seen = k,
                         ![a].pc = IF accepter[a].status = "mismatch" THEN "read" ELSE "append"]
    /\ UNCHANGED <<file, first, server, reviewed, client, sent, spent>>

\* scanObservedKey: the key that will be recorded is observed again.
ScanObservedKey(a) ==
    /\ accepter[a].pc = "rescan"
    /\ \E k \in Presented(file, accepter[a].host) :
        IF k = accepter[a].want
        THEN accepter' = [accepter EXCEPT ![a].seen = k,
                              ![a].pc = IF accepter[a].status = "mismatch" THEN "read" ELSE "append"]
        ELSE EndAccept(a)
    /\ UNCHANGED <<file, first, server, reviewed, client, sent, spent>>

Accepted(a) == [host |-> accepter[a].host, key |-> accepter[a].seen, marker |-> "plain"]

SaveHostKey(a) ==
    /\ accepter[a].pc = "append"
    /\ file' = file \cup {Accepted(a)}
    /\ EndAccept(a)
    /\ UNCHANGED <<first, server, reviewed, client, sent, spent>>

\* replaceKnownHost reads the file, writes a new one beside it and renames it.
ReadKnownHosts(a) ==
    /\ accepter[a].pc = "read"
    /\ accepter' = [accepter EXCEPT ![a].pc = "rename", ![a].read = file]
    /\ UNCHANGED <<file, first, server, reviewed, client, sent, spent>>

ReplaceKnownHost(a) ==
    LET p == accepter[a]
    IN  /\ p.pc = "rename"
        /\ file' = DropKnownHost(p.read, p.host, p.seen.type) \cup {Accepted(a)}
        /\ EndAccept(a)
        /\ UNCHANGED <<first, server, reviewed, client, sent, spent>>

\* A failed dial, an unreadable file, a failed write, or the end of the process.
AcceptFails(a) ==
    /\ accepter[a].pc # "idle"
    /\ EndAccept(a)
    /\ UNCHANGED <<file, first, server, reviewed, client, sent, spent>>

(***************************************************************************)
(* Connections and endpoints.                                              *)
(***************************************************************************)
NoClient == [pc |-> "idle", host |-> "none", known |-> {}, asked |-> {}]

\* buildHostKeyCallback reads the file, and the preferred types are negotiated.
LoadKnownHosts(c) ==
    /\ client[c].pc = "idle"
    /\ spent.connects < MaxConnects
    /\ \E h \in Hosts :
        client' = [client EXCEPT ![c] = [pc |-> "loaded", host |-> h, known |-> file, asked |-> {}]]
    /\ spent' = [spent EXCEPT !.connects = @ + 1]
    /\ UNCHANGED <<file, first, server, reviewed, accepter, sent>>

NegotiateKey(c) ==
    /\ client[c].pc = "loaded"
    /\ \E k \in Presented(file, client[c].host) :
        client' = [client EXCEPT ![c].pc = "presented", ![c].asked = {k}]
    /\ UNCHANGED <<file, first, server, reviewed, accepter, sent, spent>>

\* A plausible bug: a key type the file does not know is let through.
HostKeyAcceptedNewType(known, host, key) ==
    InspectKnownHost(known, host, key) \in {"trusted", "type_changed"}

HostKeyAccepted(known, host, key) == KeyMatches(known, host, key)

\* The callback: only a key it accepts is followed by credentials.
CheckHostKey(c) ==
    LET p == client[c]
    IN  /\ p.pc = "presented"
        /\ sent' = sent \cup {<<p.host, k>> : k \in {x \in p.asked : HostKeyAccepted(p.known, p.host, x)}}
        /\ client' = [client EXCEPT ![c] = NoClient]
        /\ UNCHANGED <<file, first, server, reviewed, accepter, spent>>

\* An endpoint may change, gain or lose a key, but always has one.
Rotate ==
    /\ spent.rotations < MaxRotations
    /\ \E h \in Hosts, t \in Types, i \in 0..Ids :
        /\ i # server[h][t]
        /\ i # 0 \/ \E other \in Types \ {t} : server[h][other] # 0
        /\ server' = [server EXCEPT ![h][t] = i]
    /\ spent' = [spent EXCEPT !.rotations = @ + 1]
    /\ UNCHANGED <<file, first, reviewed, accepter, client, sent>>

(***************************************************************************)
(* Specification.                                                          *)
(***************************************************************************)
Init ==
    /\ file \in InitialFiles
    /\ first = file
    /\ server = [h \in Hosts |-> [t \in Types |-> 1]]
    /\ reviewed = {} /\ sent = {}
    /\ accepter = [a \in Accepters |-> NoAccept]
    /\ client = [c \in Clients |-> NoClient]
    /\ spent = [accepts |-> 0, rotations |-> 0, connects |-> 0]

Next ==
    \/ \E a \in Accepters :
        \/ StartAccept(a) \/ InspectHostKey(a) \/ CompareHostKey(a) \/ ScanObservedKey(a)
        \/ SaveHostKey(a) \/ ReadKnownHosts(a) \/ ReplaceKnownHost(a) \/ AcceptFails(a)
    \/ \E c \in Clients : LoadKnownHosts(c) \/ NegotiateKey(c) \/ CheckHostKey(c)
    \/ Rotate

Spec == Init /\ [][Next]_trustVars

(***************************************************************************)
(* Properties.                                                             *)
(***************************************************************************)
AcceptState ==
    [pc: {"idle", "inspect", "compare", "rescan", "append", "read", "rename"},
     host: Hosts \cup {"none"}, want: Key \cup {NoKey}, seen: Key \cup {NoKey},
     status: {"none", "new", "type_changed", "mismatch"}, read: SUBSET Entry]
ClientState ==
    [pc: {"idle", "loaded", "presented"}, host: Hosts \cup {"none"},
     known: SUBSET Entry, asked: SUBSET Key]

\* Type invariant.
TypeOK ==
    /\ file \subseteq Entry /\ first \subseteq Entry
    /\ server \in [Hosts -> [Types -> 0..Ids]]
    /\ sent \subseteq Hosts \X Key /\ reviewed \subseteq Hosts \X Key
    /\ accepter \in [Accepters -> AcceptState] /\ client \in [Clients -> ClientState]
    /\ spent \in [accepts: 0..MaxAccepts, rotations: 0..MaxRotations, connects: 0..MaxConnects]

Trusted == {<<e.host, e.key>> : e \in {x \in first : x.marker # "revoked"}} \cup reviewed

\* Credentials only go to, and known_hosts only lists, keys that were trusted
\* from the start or whose exact fingerprint a user gave for that very host,
\* however the endpoint changed its keys between the two observations, and
\* never a revoked key (AcceptHostKeyWithVault, trackedHostKeyCallback).
TrustIsReviewed ==
    /\ {<<e.host, e.key>> : e \in {x \in file : x.marker # "revoked"}} \subseteq Trusted
    /\ sent \subseteq Trusted
    /\ \A s \in sent : ~Revoked(first, s[2])

\* "accept replaces only the entry of the same key type: other key types of that
\* host and lines of other hosts are left untouched": no step removes an entry
\* but the replaced one (replaceKnownHost, dropKnownHostEntry).
OthersKept ==
    [][ \A e \in file \ file' :
            \E a \in Accepters : /\ accepter[a].host = e.host
                                 /\ accepter[a].want.type = e.key.type
                                 /\ e.marker = "plain"
      ]_trustVars

\* An accepted key replaces the old one of its type: a host never has two
\* trusted keys of one type, so a key that was replaced stays refused.
OneKeyPerType ==
    \A e, f \in {x \in file : x.marker = "plain"} :
        e.host = f.host /\ e.key.type = f.key.type => e = f

\* A key is trusted only on its reviewed fingerprint (TrustIsReviewed), and the
\* key it replaced is trusted no more (OneKeyPerType).
TrustSound == TrustIsReviewed /\ OneKeyPerType
=============================================================================
