----------------------------- MODULE SyncServer -----------------------------
(***************************************************************************)
(* The sync server: concurrent handlers of register, login, push and pull, *)
(* the user store behind its mutex, the push lock of each account, the     *)
(* files, and restarts of the server.                                      *)
(*                                                                         *)
(* userStore.mu is held from the change of the map to the end of the save, *)
(* and by nobody across anything else: such a section is one step.  A file *)
(* is replaced by a rename, so a save has two outcomes of which the        *)
(* handler learns little: an error may come after the rename.              *)
(***************************************************************************)
EXTENDS Naturals, FiniteSets, Sequences

CONSTANTS Reqs,            \* handler goroutines
          Accounts, Blobs, NoBlob, NoReq,
          MaxTokenHashes,  \* maxTokenHashes, 256 in the code
          MaxMints,        \* bound: tokens ever generated
          MaxLogins,       \* bound: logins that overlap
          MaxFaults        \* bound: failed reads, failed saves and restarts

ASSUME NamesAssumption == NoReq \notin Reqs /\ NoBlob \notin Blobs
ASSUME BoundsAssumption == /\ MaxTokenHashes \in Nat \ {0} /\ MaxMints \in Nat
                           /\ MaxLogins \in Nat /\ MaxFaults \in Nat

VARIABLES
  users,     \* userStore.Users; an account without a token does not exist
  disk,      \* users.json
  blob,      \* vault files
  lock,      \* Server.pushes
  req,       \* what each handler has read and computed so far
  mints,     \* tokens generated
  faults,
  placed,    \* tokens put in the user store, each with its account
  answered   \* tokens whose handlers answer with them

accounts == <<users, disk, placed, answered>>
vars == <<accounts, blob, lock, req, mints, faults>>

Contents == Blobs \cup {NoBlob}
Tokens == 1..MaxMints
Histories == {h \in Seq(Tokens) : Len(h) <= MaxTokenHashes}
User == [tok : 0..MaxMints, hist : Histories]
NoAccount == [tok |-> 0, hist |-> <<>>]
Idle == [step |-> "idle"]

Registering == [step : {"register"}, acct : Accounts, token : Tokens]
LoggingIn == [step : {"login"}, acct : Accounts, token : Tokens, copy : User]
Pushing == [step : {"body", "locked", "write"}, acct : Accounts, accepts : SUBSET Contents, data : Blobs]
Pulling == [step : {"read"}, acct : Accounts]
Answers == [step : {"answer"}, status : {"ok", "refused", "error"}, content : Contents]
Requests == {Idle, [step |-> "replied"]} \cup Registering \cup LoggingIn \cup Pushing \cup Pulling \cup Answers

AccountsOK == /\ users \in [Accounts -> User] /\ disk \in [Accounts -> User]
              /\ placed \subseteq Accounts \X Tokens /\ answered \subseteq placed
BlobsOK == blob \in [Accounts -> Contents] /\ lock \in [Accounts -> Reqs \cup {NoReq}]

\* The shape of the user store, the blobs and the handlers; no token history grows past
\* the window of maxTokenHashes.
TypeOK == /\ AccountsOK /\ BlobsOK /\ req \in [Reqs -> Requests]
          /\ mints \in 0..MaxMints /\ faults \in 0..MaxFaults

Init ==
  /\ users = [a \in Accounts |-> NoAccount] /\ disk = users
  /\ blob = [a \in Accounts |-> NoBlob] /\ lock = [a \in Accounts |-> NoReq]
  /\ req = [r \in Reqs |-> Idle]
  /\ mints = 0 /\ faults = 0 /\ placed = {} /\ answered = {}

Becomes(r, value) == req' = [req EXCEPT ![r] = value]
Moves(r, step) == req' = [req EXCEPT ![r].step = step]
Answer(status, content) == [step |-> "answer", status |-> status, content |-> content]

Fault == faults < MaxFaults /\ faults' = faults + 1

\* The outcomes of writePrivateFile: whether the file was replaced, what the handler learns.
Saves == [file : BOOLEAN, ok : BOOLEAN] \ {[file |-> FALSE, ok |-> TRUE]}
Saving(save) == IF save.ok THEN UNCHANGED faults ELSE Fault

-----------------------------------------------------------------------------
(* Accounts.                                                                *)

Exists(a) == users[a].tok # 0
History(u) == {u.hist[i] : i \in 1..Len(u.hist)}

\* getByToken.
Valid(u, t) == t = u.tok \/ t \in History(u)

\* Mutant: the bound keeps the oldest tokens.
Oldest(tokens) == SubSeq(tokens, 1, MaxTokenHashes)

Newest(tokens) == SubSeq(tokens, Len(tokens) - MaxTokenHashes + 1, Len(tokens))

\* Mutant: nothing falls out of the window.
Unbounded(tokens, t) == Append(tokens, t)

\* A token is generated once, so it is never in the history already.
AppendTokenHash(tokens, t) ==
  IF Len(tokens) < MaxTokenHashes THEN Append(tokens, t) ELSE Newest(Append(tokens, t))

\* Mutant: the map is marshalled before the change is made.
SavedEarly(a, u) == users

\* saveLocked marshals the whole changed map.
Saved(a, u) == [users EXCEPT ![a] = u]

\* add and update: the map changes first and keeps the change when the save fails.
PutUser(r, u) ==
  LET a == req[r].acct
      new == {<<a, req[r].token>>}
  IN /\ users' = [users EXCEPT ![a] = u]
     /\ placed' = placed \cup new
     /\ \E save \in Saves :
          /\ Saving(save)
          /\ disk' = IF save.file THEN Saved(a, u) ELSE disk
          /\ answered' = IF save.ok THEN answered \cup new ELSE answered
     /\ Becomes(r, [step |-> "replied"])

Mint == mints < MaxMints /\ mints' = mints + 1

\* handleRegister: the password is hashed and a token generated before the map is read.
Register(r, a) ==
  /\ req[r] = Idle /\ Mint
  /\ Becomes(r, [step |-> "register", acct |-> a, token |-> mints'])
  /\ UNCHANGED <<accounts, blob, lock, faults>>

AddUser(r) ==
  /\ req[r].step = "register"
  /\ IF Exists(req[r].acct)
     THEN Becomes(r, [step |-> "replied"]) /\ UNCHANGED <<accounts, faults>>
     ELSE PutUser(r, [tok |-> req[r].token, hist |-> <<req[r].token>>])
  /\ UNCHANGED <<blob, lock, mints>>

\* handleLogin: the account is copied out of the map; the password is right.
Login(r, a) ==
  /\ req[r] = Idle /\ Exists(a) /\ Mint
  /\ Cardinality({q \in Reqs : req[q].step = "login"}) < MaxLogins
  /\ Becomes(r, [step |-> "login", acct |-> a, token |-> mints', copy |-> users[a]])
  /\ UNCHANGED <<accounts, blob, lock, faults>>

\* The changed copy replaces whatever the map holds by now.
UpdateUser(r) ==
  /\ req[r].step = "login"
  /\ PutUser(r, [tok |-> req[r].token, hist |-> AppendTokenHash(req[r].copy.hist, req[r].token)])
  /\ UNCHANGED <<blob, lock, mints>>

-----------------------------------------------------------------------------
(* Blobs.                                                                   *)

\* The stored contents a push's headers allow: no header, If-None-Match: *, If-Match: *,
\* an entity tag, or headers no content satisfies.
Preconditions == {Contents, {NoBlob}, Blobs, {}} \cup {{b} : b \in Blobs}

Authenticated(a) == \E t \in Tokens : <<a, t>> \in answered /\ Valid(users[a], t)

\* handlePush up to the body.
Push(r, a) ==
  /\ req[r] = Idle /\ Authenticated(a)
  /\ \E accepts \in Preconditions, data \in Blobs :
       Becomes(r, [step |-> "body", acct |-> a, accepts |-> accepts, data |-> data])
  /\ UNCHANGED <<accounts, blob, lock, mints, faults>>

\* The body is too large or empty.
BodyRejected(r) ==
  /\ req[r].step = "body" /\ Becomes(r, Answer("error", NoBlob))
  /\ UNCHANGED <<accounts, blob, lock, mints, faults>>

\* Mutant: each request has a push lock of its own.
LockOfRequest(r) == TRUE

\* pushLock returns the mutex of the account.
LockAvailable(r) == lock[req[r].acct] = NoReq

LockPush(r) ==
  /\ req[r].step = "body" /\ LockAvailable(r)
  /\ lock' = [lock EXCEPT ![req[r].acct] = r]
  /\ Moves(r, "locked")
  /\ UNCHANGED <<accounts, blob, mints, faults>>

Unlock(r) == lock' = [lock EXCEPT ![req[r].acct] = NoReq]
Current(r) == blob[req[r].acct]

\* The stored blob is read and the precondition tested.
CheckPush(r) ==
  /\ req[r].step = "locked"
  /\ \/ Current(r) \in req[r].accepts /\ Moves(r, "write") /\ UNCHANGED <<lock, faults>>
     \/ /\ Current(r) \notin req[r].accepts
        /\ Becomes(r, Answer("refused", NoBlob)) /\ Unlock(r) /\ UNCHANGED faults
     \/ Fault /\ Becomes(r, Answer("error", NoBlob)) /\ Unlock(r)
  /\ UNCHANGED <<accounts, blob, mints>>

\* writePrivateFile and the answer.
WritePush(r) ==
  /\ req[r].step = "write"
  /\ \E save \in Saves :
       /\ Saving(save)
       /\ blob' = IF save.file THEN [blob EXCEPT ![req[r].acct] = req[r].data] ELSE blob
       /\ Becomes(r, Answer(IF save.ok THEN "ok" ELSE "error",
                            IF save.file THEN req[r].data ELSE NoBlob))
  /\ Unlock(r)
  /\ UNCHANGED <<accounts, mints>>

\* handlePull and handleHead take no lock.
Pull(r, a) ==
  /\ req[r] = Idle /\ Authenticated(a)
  /\ Becomes(r, [step |-> "read", acct |-> a])
  /\ UNCHANGED <<accounts, blob, lock, mints, faults>>

ReadBlob(r) ==
  /\ req[r].step = "read"
  /\ \/ Becomes(r, Answer("ok", Current(r))) /\ UNCHANGED faults
     \/ Fault /\ Becomes(r, Answer("error", NoBlob))
  /\ UNCHANGED <<accounts, blob, lock, mints>>

\* The answer leaves the server.
Respond(r) ==
  /\ req[r].step \in {"answer", "replied"}
  /\ Becomes(r, Idle)
  /\ UNCHANGED <<accounts, blob, lock, mints, faults>>

\* The server dies and is started again: New loads users.json.
Restart ==
  /\ Fault
  /\ users' = disk
  /\ lock' = [a \in Accounts |-> NoReq] /\ req' = [r \in Reqs |-> Idle]
  /\ UNCHANGED <<disk, placed, answered, blob, mints>>

Arrive(r) == \E a \in Accounts : Register(r, a) \/ Login(r, a) \/ Push(r, a) \/ Pull(r, a)
Handle(r) ==
  \/ AddUser(r) \/ UpdateUser(r) \/ BodyRejected(r) \/ LockPush(r) \/ CheckPush(r)
  \/ WritePush(r) \/ ReadBlob(r) \/ Respond(r)
Next == (\E r \in Reqs : Arrive(r) \/ Handle(r)) \/ Restart

Spec == Init /\ [][Next]_vars

-----------------------------------------------------------------------------
(* Properties.                                                              *)

\* A handler as the blob store sees it; accounts are none of its business.
Seen(q) ==
  CASE q.step \in {"body", "locked", "write"} ->
         [phase |-> "write", acct |-> q.acct, accepts |-> q.accepts, data |-> q.data]
    [] q.step = "read" -> [phase |-> "read", acct |-> q.acct]
    [] q.step = "answer" -> [phase |-> "answer", status |-> q.status, content |-> q.content]
    [] OTHER -> [phase |-> "idle"]
Store == INSTANCE BlobStore WITH req <- [r \in Reqs |-> Seen(req[r])]

\* The handlers of pushes and pulls implement one atomic conditional register per
\* account, across concurrent requests, storage errors and restarts: the server
\* the client's publication protocol relies on (handlePush, handlePull).
ImplementsBlobStore == Store!StoreSpec

\* An account that was answered survives: whatever other handlers save or fail to save,
\* and however often the server restarts, users.json holds it (add, saveLocked).
AccountsDurable == \A p \in answered : disk[p[1]].tok # 0 /\ users[p[1]].tok # 0

\* A token that was handed out stays valid, also across restarts, until as many newer
\* ones were stored as the history holds: "an old one stays valid until it falls out
\* of this window" (maxTokenHashes, appendTokenHash, handleLogin).
TokensStayValid ==
  \A p \in answered :
    \/ Valid(users[p[1]], p[2])
    \/ Cardinality({q \in placed : q[1] = p[1] /\ q[2] > p[2]}) >= MaxTokenHashes
=============================================================================
