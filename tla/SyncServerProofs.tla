-------------------------- MODULE SyncServerProofs --------------------------
(***************************************************************************)
(* The handlers implement the blob store for any number of requests,       *)
(* accounts and blobs.  The step that writes a blob maps to a conditional  *)
(* write only if the precondition tested earlier still holds, which is     *)
(* what the push lock is for: the invariant says who holds it and that the *)
(* tested blob is still the stored one.                                    *)
(***************************************************************************)
EXTENDS SyncServer, FiniteSetTheorems, FunctionTheorems, TLAPS

\* A push between lock and answer owns its account's lock.
LockOwned == \A r \in Reqs : req[r].step \in {"locked", "write"} => lock[req[r].acct] = r

\* The precondition still holds when the blob is written.
StillAccepted ==
  \A r \in Reqs : req[r].step = "write" => blob[req[r].acct] \in req[r].accepts

IInv == TypeOK /\ LockOwned /\ StillAccepted /\ AccountsDurable

\* Which record a handler has at each step.
LEMMA Shapes ==
  ASSUME req \in [Reqs -> Requests], NEW r \in Reqs
  PROVE  /\ req[r].step = "register" => req[r] \in Registering
         /\ req[r].step = "login" => req[r] \in LoggingIn
         /\ req[r].step \in {"body", "locked", "write"} => req[r] \in Pushing
         /\ req[r].step = "read" => req[r] \in Pulling
         /\ req[r].step = "answer" => req[r] \in Answers
  BY DEF Requests, Idle, Registering, LoggingIn, Pushing, Pulling, Answers

\* A step that gives one handler a record of the right shape keeps the others.
LEMMA OneHandler ==
  ASSUME req \in [Reqs -> Requests], NEW r \in Reqs, NEW q \in Requests, req' = [req EXCEPT ![r] = q]
  PROVE  /\ req' \in [Reqs -> Requests] /\ req'[r] = q
         /\ \A s \in Reqs : s # r => req'[s] = req[s]
  OBVIOUS

\* The history stays a sequence of tokens inside its window.
LEMMA HistoryType ==
  ASSUME NEW h \in Histories, NEW t \in Tokens PROVE AppendTokenHash(h, t) \in Histories
  <1>0. h \in Seq(Tokens) /\ Len(h) \in Nat /\ Len(h) <= MaxTokenHashes BY DEF Histories
  <1>1. Append(h, t) \in Seq(Tokens) /\ Len(Append(h, t)) = Len(h) + 1 BY <1>0
  <1>2. CASE Len(h) < MaxTokenHashes BY <1>0, <1>1, <1>2, BoundsAssumption DEF AppendTokenHash, Histories
  <1>3. CASE ~ (Len(h) < MaxTokenHashes)
    <2> DEFINE s == Append(h, t)
               n == SubSeq(s, Len(s) - MaxTokenHashes + 1, Len(s))
    <2>1. Len(s) - MaxTokenHashes + 1 \in 1..(Len(s) + 1) /\ Len(s) \in Nat
      BY <1>0, <1>1, <1>3, BoundsAssumption
    <2>2. n \in Seq(Tokens) /\ Len(n) = MaxTokenHashes
      <3>1. s \in Seq(Tokens) BY <1>1
      <3> HIDE DEF s
      <3> QED BY <2>1, <3>1, BoundsAssumption
    <2>3. AppendTokenHash(h, t) = n BY <1>3 DEF AppendTokenHash, Newest
    <2> HIDE DEF n
    <2> QED BY <2>2, <2>3, BoundsAssumption DEF Histories
  <1> QED BY <1>2, <1>3

\* Saving a changed account keeps the store well typed and every answered account.
LEMMA PutUserKeeps ==
  ASSUME TypeOK, AccountsDurable, NEW r \in Reqs, NEW u \in User, u.tok # 0, PutUser(r, u),
         req[r].acct \in Accounts, req[r].token \in Tokens, UNCHANGED <<blob, lock, mints>>
  PROVE  TypeOK' /\ AccountsDurable' /\ req'[r] = [step |-> "replied"]
         /\ \A s \in Reqs : s # r => req'[s] = req[s]
  <1> DEFINE a == req[r].acct
  <1> USE DEF PutUser, Becomes, Saved
  <1>1. users' \in [Accounts -> User] /\ disk' \in [Accounts -> User]
    BY DEF TypeOK, AccountsOK
  <1>2. placed' \subseteq Accounts \X Tokens /\ answered' \subseteq placed' 
    BY DEF TypeOK, AccountsOK
  <1>3. faults' \in 0..MaxFaults BY BoundsAssumption DEF TypeOK, Saving, Fault
  <1>4. /\ req' \in [Reqs -> Requests] /\ req'[r] = [step |-> "replied"]
        /\ \A s \in Reqs : s # r => req'[s] = req[s]
    BY DEF TypeOK, Requests
  <1>5. AccountsDurable'
    <2>1. PICK save \in Saves : /\ disk' = IF save.file THEN [users EXCEPT ![a] = u] ELSE disk
                                /\ answered' = IF save.ok THEN answered \cup {<<a, req[r].token>>} ELSE answered
      OBVIOUS
    <2>2. save.ok => save.file BY DEF Saves
    <2> SUFFICES ASSUME NEW p \in answered' PROVE disk'[p[1]].tok # 0 /\ users'[p[1]].tok # 0
      BY DEF AccountsDurable
    <2>3. p \in answered => p[1] \in Accounts BY DEF TypeOK, AccountsOK
    <2>4. users' = [users EXCEPT ![a] = u] OBVIOUS
    <2>5. CASE p \in answered
      BY <2>1, <2>3, <2>4, <2>5 DEF AccountsDurable, TypeOK, AccountsOK
    <2>6. CASE p \notin answered
      <3>1. p = <<a, req[r].token>> /\ save.ok BY <2>1, <2>6
      <3> QED BY <2>1, <2>2, <2>4, <3>1 DEF TypeOK, AccountsOK
    <2> QED BY <2>5, <2>6
  <1> QED BY <1>1, <1>2, <1>3, <1>4, <1>5 DEF TypeOK, AccountsOK, BlobsOK

-----------------------------------------------------------------------------
(* One lemma per group of steps.                                            *)

\* Nobody loses an account in a step that leaves the user store alone.
LEMMA AccountsKept ==
  ASSUME AccountsOK, AccountsDurable, UNCHANGED accounts PROVE AccountsOK' /\ AccountsDurable'
  BY DEF AccountsOK, AccountsDurable, accounts

\* Requests arrive without touching locks or blobs.
LEMMA ArriveStep == ASSUME IInv, NEW r \in Reqs, Arrive(r) PROVE IInv'
  <1> USE DEF IInv
  <1>1. UNCHANGED <<accounts, blob, lock, faults>> /\ mints' \in 0..MaxMints
    BY BoundsAssumption DEF Arrive, Register, Login, Push, Pull, Mint, TypeOK
  <1>2. PICK q \in Requests : req' = [req EXCEPT ![r] = q] /\ q.step \in {"register", "login", "body", "read"}
    <2>1. PICK a \in Accounts : Register(r, a) \/ Login(r, a) \/ Push(r, a) \/ Pull(r, a) BY DEF Arrive
    <2>2. CASE Register(r, a)
      <3>1. mints' \in Tokens BY <2>2, BoundsAssumption DEF Register, Mint, Tokens, TypeOK
      <3>2. [step |-> "register", acct |-> a, token |-> mints'] \in Requests
        BY <3>1 DEF Requests, Registering
      <3> QED BY <2>2, <3>2 DEF Register, Becomes
    <2>3. CASE Login(r, a)
      <3>1. mints' \in Tokens BY <2>3, BoundsAssumption DEF Login, Mint, Tokens, TypeOK
      <3>2. users[a] \in User BY DEF TypeOK, AccountsOK
      <3>3. [step |-> "login", acct |-> a, token |-> mints', copy |-> users[a]] \in Requests
        BY <3>1, <3>2 DEF Requests, LoggingIn
      <3> QED BY <2>3, <3>3 DEF Login, Becomes
    <2>4. CASE Push(r, a)
      <3>1. PICK accepts \in Preconditions, data \in Blobs :
              req' = [req EXCEPT ![r] = [step |-> "body", acct |-> a, accepts |-> accepts, data |-> data]]
        BY <2>4 DEF Push, Becomes
      <3>2. [step |-> "body", acct |-> a, accepts |-> accepts, data |-> data] \in Requests
        BY DEF Requests, Pushing, Preconditions, Contents
      <3> QED BY <3>1, <3>2
    <2>5. CASE Pull(r, a)
      <3>1. [step |-> "read", acct |-> a] \in Requests BY DEF Requests, Pulling
      <3> QED BY <2>5, <3>1 DEF Pull, Becomes
    <2> QED BY <2>1, <2>2, <2>3, <2>4, <2>5
  <1>3. /\ req' \in [Reqs -> Requests] /\ req'[r].step \notin {"locked", "write"}
        /\ \A s \in Reqs : s # r => req'[s] = req[s]
    BY <1>2, OneHandler DEF TypeOK
  <1>4. TypeOK' BY <1>1, <1>3, AccountsKept DEF TypeOK, BlobsOK
  <1>5. LockOwned' /\ StillAccepted' BY <1>1, <1>3 DEF LockOwned, StillAccepted
  <1> QED BY <1>1, <1>4, <1>5, AccountsKept DEF TypeOK

\* Registration and login store what they computed.
LEMMA AccountStep == ASSUME IInv, NEW r \in Reqs, AddUser(r) \/ UpdateUser(r) PROVE IInv'
  <1> USE DEF IInv
  <1>1. UNCHANGED <<blob, lock, mints>> BY DEF AddUser, UpdateUser
  <1>2. /\ TypeOK' /\ AccountsDurable' /\ req'[r] = [step |-> "replied"]
        /\ \A s \in Reqs : s # r => req'[s] = req[s]
    <2>1. CASE AddUser(r)
      <3>1. req[r] \in Registering BY <2>1, Shapes DEF AddUser, TypeOK
      <3>2. CASE Exists(req[r].acct)
        <4>1. req' = [req EXCEPT ![r] = [step |-> "replied"]] /\ UNCHANGED <<accounts, faults>>
          BY <2>1, <3>2 DEF AddUser, Becomes
        <4> QED BY <1>1, <4>1, AccountsKept DEF TypeOK, BlobsOK, Requests
      <3>3. CASE ~ Exists(req[r].acct)
        <4> DEFINE u == [tok |-> req[r].token, hist |-> <<req[r].token>>]
        <4>0. <<req[r].token>> \in Histories BY <3>1, BoundsAssumption DEF Registering, Histories
        <4>1. u \in User /\ u.tok # 0 BY <3>1, <4>0 DEF Registering, User, Tokens
        <4>2. PutUser(r, u) BY <2>1, <3>3 DEF AddUser
        <4>3. req[r].acct \in Accounts /\ req[r].token \in Tokens BY <3>1 DEF Registering
        <4> HIDE DEF u
        <4> QED BY <1>1, <4>1, <4>2, <4>3, PutUserKeeps
      <3> QED BY <3>2, <3>3
    <2>2. CASE UpdateUser(r)
      <3> DEFINE h == AppendTokenHash(req[r].copy.hist, req[r].token)
                 u == [tok |-> req[r].token, hist |-> h]
      <3>1. req[r] \in LoggingIn BY <2>2, Shapes DEF UpdateUser, TypeOK
      <3>2. req[r].copy.hist \in Histories /\ req[r].token \in Tokens /\ req[r].acct \in Accounts
        BY <3>1 DEF LoggingIn, User
      <3>3. h \in Histories BY <3>2, HistoryType
      <3>4. PutUser(r, u) BY <2>2 DEF UpdateUser
      <3> HIDE DEF h
      <3>5. u \in User /\ u.tok # 0 BY <3>2, <3>3 DEF User, Tokens
      <3> HIDE DEF u
      <3> QED BY <1>1, <3>2, <3>4, <3>5, PutUserKeeps
    <2> QED BY <2>1, <2>2
  <1>3. LockOwned' /\ StillAccepted' BY <1>1, <1>2 DEF LockOwned, StillAccepted
  <1> QED BY <1>2, <1>3

\* A handler that holds no lock, or has just been answered, leaves the others alone.
LEMMA UnlockedStep ==
  ASSUME IInv, NEW r \in Reqs, BodyRejected(r) \/ ReadBlob(r) \/ Respond(r) PROVE IInv'
  <1> USE DEF IInv
  <1>1. UNCHANGED <<accounts, blob, lock, mints>> /\ faults' \in 0..MaxFaults
    BY BoundsAssumption DEF BodyRejected, ReadBlob, Respond, Fault, TypeOK
  <1>2. PICK q \in Requests : req' = [req EXCEPT ![r] = q] /\ q.step \in {"idle", "answer"}
    <2>1. CASE BodyRejected(r)
      <3>1. Answer("error", NoBlob) \in Requests BY DEF Answer, Requests, Answers, Contents
      <3> QED BY <2>1, <3>1 DEF BodyRejected, Becomes, Answer
    <2>2. CASE ReadBlob(r)
      <3>1. Current(r) \in Contents
        BY <2>2, Shapes DEF ReadBlob, Current, TypeOK, BlobsOK, Pulling
      <3>2. Answer("ok", Current(r)) \in Requests /\ Answer("error", NoBlob) \in Requests
        BY <3>1 DEF Answer, Requests, Answers, Contents
      <3> QED BY <2>2, <3>2 DEF ReadBlob, Becomes, Answer
    <2>3. CASE Respond(r)
      <3>1. Idle \in Requests /\ Idle.step = "idle" BY DEF Requests, Idle
      <3> QED BY <2>3, <3>1 DEF Respond, Becomes
    <2> QED BY <2>1, <2>2, <2>3
  <1>3. /\ req' \in [Reqs -> Requests] /\ req'[r].step \notin {"locked", "write"}
        /\ \A s \in Reqs : s # r => req'[s] = req[s]
    BY <1>2, OneHandler DEF TypeOK
  <1>4. TypeOK' BY <1>1, <1>3, AccountsKept DEF TypeOK, BlobsOK
  <1>5. LockOwned' /\ StillAccepted' BY <1>1, <1>3 DEF LockOwned, StillAccepted
  <1> QED BY <1>1, <1>4, <1>5, AccountsKept DEF TypeOK

\* The lock is taken when nobody holds it.
LEMMA LockPushStep == ASSUME IInv, NEW r \in Reqs, LockPush(r) PROVE IInv'
  <1> USE DEF IInv, LockPush, LockAvailable, Moves
  <1>0. req[r] \in Pushing BY Shapes DEF TypeOK
  <1>1. req' \in [Reqs -> Requests] /\ \A s \in Reqs : s # r => req'[s] = req[s]
    BY <1>0 DEF TypeOK, Requests, Pushing
  <1>2. req'[r].step = "locked" /\ req'[r].acct = req[r].acct BY <1>0 DEF TypeOK, Pushing
  <1>3. BlobsOK' BY <1>0 DEF TypeOK, BlobsOK, Pushing
  <1>4. TypeOK' BY <1>1, <1>3, AccountsKept DEF TypeOK
  <1>5. LockOwned' BY <1>0, <1>1, <1>2, NamesAssumption DEF LockOwned, TypeOK, BlobsOK, Pushing
  <1>6. StillAccepted' BY <1>1, <1>2 DEF StillAccepted
  <1> QED BY <1>4, <1>5, <1>6, AccountsKept DEF TypeOK

\* The stored blob is tested under the lock.
LEMMA CheckPushStep == ASSUME IInv, NEW r \in Reqs, CheckPush(r) PROVE IInv'
  <1> USE DEF IInv
  <1>0. req[r] \in Pushing /\ UNCHANGED <<accounts, blob, mints>> /\ faults' \in 0..MaxFaults
    BY Shapes, BoundsAssumption DEF CheckPush, Fault, TypeOK
  <1>1. CASE Current(r) \in req[r].accepts /\ Moves(r, "write") /\ UNCHANGED <<lock, faults>>
    <2> USE <1>1 DEF Moves
    <2>1. req' \in [Reqs -> Requests] /\ \A s \in Reqs : s # r => req'[s] = req[s]
      BY <1>0 DEF TypeOK, Requests, Pushing
    <2>2. /\ req'[r].step = "write" /\ req'[r].acct = req[r].acct
          /\ req'[r].accepts = req[r].accepts
      BY <1>0 DEF TypeOK, Pushing
    <2>3. TypeOK' BY <1>0, <2>1, AccountsKept DEF TypeOK, BlobsOK
    <2>4. LockOwned' BY <1>0, <2>1, <2>2 DEF LockOwned, CheckPush
    <2>5. StillAccepted' BY <1>0, <2>1, <2>2 DEF StillAccepted, Current
    <2> QED BY <1>0, <2>3, <2>4, <2>5, AccountsKept DEF TypeOK
  <1>2. CASE \E status \in {"refused", "error"} : Becomes(r, Answer(status, NoBlob)) /\ Unlock(r)
    <2>1. PICK q \in Answers : req' = [req EXCEPT ![r] = q]
      BY <1>2 DEF Becomes, Answer, Answers, Contents
    <2>2. /\ req' \in [Reqs -> Requests] /\ req'[r].step \notin {"locked", "write"}
          /\ \A s \in Reqs : s # r => req'[s] = req[s]
      BY <2>1, OneHandler DEF TypeOK, Requests, Answers
    <2>3. BlobsOK' BY <1>0, <1>2 DEF TypeOK, BlobsOK, Unlock, Pushing
    <2>4. TypeOK' BY <1>0, <2>2, <2>3, AccountsKept DEF TypeOK
    <2>5. LockOwned'
      BY <1>0, <1>2, <2>2 DEF LockOwned, CheckPush, Unlock, TypeOK, BlobsOK, Pushing
    <2>6. StillAccepted' BY <1>0, <2>2 DEF StillAccepted
    <2> QED BY <1>0, <2>4, <2>5, <2>6, AccountsKept DEF TypeOK
  <1> QED BY <1>1, <1>2 DEF CheckPush

\* Only the holder of an account's lock writes its blob.
LEMMA WritePushStep == ASSUME IInv, NEW r \in Reqs, WritePush(r) PROVE IInv'
  <1> USE DEF IInv
  <1>0. /\ req[r] \in Pushing /\ UNCHANGED <<accounts, mints>> /\ faults' \in 0..MaxFaults
        /\ lock' = [lock EXCEPT ![req[r].acct] = NoReq] /\ lock[req[r].acct] = r
    BY Shapes, BoundsAssumption DEF WritePush, Saving, Fault, TypeOK, Unlock, LockOwned
  <1>1. /\ blob' \in [Accounts -> Contents]
        /\ \A a \in Accounts : a # req[r].acct => blob'[a] = blob[a]
    BY <1>0 DEF WritePush, TypeOK, BlobsOK, Pushing, Contents
  <1>2. PICK q \in Answers : req' = [req EXCEPT ![r] = q]
    BY <1>0 DEF WritePush, Becomes, Answer, Answers, Contents, Pushing
  <1>3. /\ req' \in [Reqs -> Requests] /\ req'[r].step \notin {"locked", "write"}
        /\ \A s \in Reqs : s # r => req'[s] = req[s]
    BY <1>2, OneHandler DEF TypeOK, Requests, Answers
  <1>4. TypeOK' BY <1>0, <1>1, <1>3, AccountsKept DEF TypeOK, BlobsOK, Pushing
  <1>5. LockOwned' BY <1>0, <1>3 DEF LockOwned, TypeOK, BlobsOK, Pushing
  <1>6. StillAccepted'
    <2> SUFFICES ASSUME NEW s \in Reqs, req'[s].step = "write"
                 PROVE  blob'[req'[s].acct] \in req'[s].accepts
      BY DEF StillAccepted
    <2>1. s # r /\ req'[s] = req[s] BY <1>3
    <2>2. req[s] \in Pushing BY <2>1, Shapes DEF TypeOK
    <2>3. req[s].acct # req[r].acct BY <1>0, <2>1 DEF LockOwned
    <2> QED BY <1>1, <2>1, <2>2, <2>3 DEF StillAccepted, Pushing
  <1> QED BY <1>0, <1>4, <1>5, <1>6, AccountsKept DEF TypeOK

\* A restart forgets every handler and reloads what was saved.
LEMMA RestartStep == ASSUME IInv, Restart PROVE IInv'
  <1> USE DEF IInv, Restart
  <1>1. TypeOK' BY BoundsAssumption DEF Fault, TypeOK, AccountsOK, BlobsOK, Requests
  <1>2. LockOwned' /\ StillAccepted' BY DEF LockOwned, StillAccepted, Idle
  <1>3. AccountsDurable' BY DEF AccountsDurable
  <1> QED BY <1>1, <1>2, <1>3

\* Every step keeps the invariant.
LEMMA NextStep == ASSUME IInv, [Next]_vars PROVE IInv'
  <1>1. ASSUME NEW r \in Reqs, Arrive(r) \/ Handle(r) PROVE IInv'
    BY <1>1, ArriveStep, AccountStep, UnlockedStep, LockPushStep, CheckPushStep, WritePushStep
       DEF Handle
  <1>2. CASE UNCHANGED vars
    BY <1>2, AccountsKept
       DEF IInv, vars, TypeOK, BlobsOK, LockOwned, StillAccepted
  <1> QED BY <1>1, <1>2, RestartStep DEF Next

\* A server without accounts satisfies the invariant.
LEMMA InitStep == ASSUME Init PROVE IInv
  <1> USE DEF Init
  <1>1. NoAccount \in User BY BoundsAssumption DEF NoAccount, User, Histories
  <1>2. TypeOK BY <1>1, BoundsAssumption DEF TypeOK, AccountsOK, BlobsOK, Requests, Contents
  <1>3. LockOwned /\ StillAccepted /\ AccountsDurable
    BY DEF LockOwned, StillAccepted, AccountsDurable, Idle
  <1> QED BY <1>2, <1>3 DEF IInv

\* Whoever writes a blob holds its lock, in every reachable state.
THEOREM PushLocking == Spec => []IInv
  BY InitStep, NextStep, PTL DEF Spec

\* The user store, the blobs and the handlers keep their shape.
THEOREM ServerTypeCorrect == Spec => []TypeOK
  <1>1. IInv => TypeOK BY DEF IInv
  <1> QED BY <1>1, PushLocking, PTL

\* No save, failed save or restart loses an account that was answered (add, update,
\* saveLocked, loadUsers).
THEOREM AnsweredAccountsSurvive == Spec => []AccountsDurable
  <1>1. IInv => AccountsDurable BY DEF IInv
  <1> QED BY <1>1, PushLocking, PTL

-----------------------------------------------------------------------------
(* Refinement.                                                              *)

seen == [r \in Reqs |-> Seen(req[r])]

\* What the blob store sees of one handler's move.
LEMMA SeenBecomes ==
  ASSUME req \in [Reqs -> Requests], NEW r \in Reqs, NEW q, req' = [req EXCEPT ![r] = q]
  PROVE  seen' = [seen EXCEPT ![r] = Seen(q)] /\ seen[r] = Seen(req[r])
  BY DEF seen

\* A move the blob store does not see.
LEMMA Unseen ==
  ASSUME req \in [Reqs -> Requests], NEW r \in Reqs, NEW q, req' = [req EXCEPT ![r] = q],
         Seen(q) = Seen(req[r])
  PROVE  seen' = seen
  BY DEF seen

\* The handler's record as the blob store sees it.
LEMMA SeenIdle ==
  ASSUME NEW q, q.step \in {"register", "login", "idle", "replied"} PROVE Seen(q) = Store!Idle
  BY DEF Seen, Store!Idle
LEMMA SeenWrite ==
  ASSUME NEW q, q.step \in {"body", "locked", "write"}
  PROVE  Seen(q) = Store!Write(q.acct, q.accepts, q.data)
  BY DEF Seen, Store!Write
LEMMA SeenRead == ASSUME NEW q, q.step = "read" PROVE Seen(q) = Store!Read(q.acct)
  BY DEF Seen, Store!Read
LEMMA SeenAnswer == ASSUME NEW s, NEW c PROVE Seen(Answer(s, c)) = Store!Answer(s, c)
  BY DEF Seen, Answer, Store!Answer

\* What the blob store sees of an answer.
LEMMA Answered ==
  ASSUME IInv, NEW r \in Reqs, NEW s, NEW c, Becomes(r, Answer(s, c))
  PROVE  seen' = [seen EXCEPT ![r] = Store!Answer(s, c)] /\ seen[r] = Seen(req[r])
  <1>1. req \in [Reqs -> Requests] BY DEF IInv, TypeOK
  <1>2. req' = [req EXCEPT ![r] = Answer(s, c)] BY DEF Becomes
  <1>3. Seen(Answer(s, c)) = Store!Answer(s, c) BY SeenAnswer
  <1> DEFINE q == Answer(s, c)
  <1>4. Seen(q) = Store!Answer(s, c) /\ req' = [req EXCEPT ![r] = q] BY <1>2, <1>3
  <1> HIDE DEF q
  <1>5. seen' = [seen EXCEPT ![r] = Seen(q)] /\ seen[r] = Seen(req[r]) BY <1>1, <1>4, SeenBecomes
  <1> QED BY <1>4, <1>5

\* A step of a handler is a step of the blob store, or none.
LEMMA HandlerRefines ==
  ASSUME IInv, NEW r \in Reqs, Arrive(r) \/ Handle(r)
  PROVE  Store!StoreNext \/ UNCHANGED <<blob, seen>>
  <1> USE DEF IInv
  <1>t. req \in [Reqs -> Requests] BY DEF TypeOK
  <1>1. ASSUME NEW a \in Accounts, Register(r, a) \/ Login(r, a) PROVE UNCHANGED <<blob, seen>>
    <2>1. PICK q : /\ req' = [req EXCEPT ![r] = q] /\ q.step \in {"register", "login"}
                   /\ blob' = blob /\ req[r] = Idle
      BY <1>1 DEF Register, Login, Becomes
    <2>2. Seen(q) = Seen(req[r]) BY <2>1, SeenIdle DEF Idle
    <2> QED BY <1>t, <2>1, <2>2, Unseen
  <1>2. ASSUME AddUser(r) \/ UpdateUser(r) PROVE UNCHANGED <<blob, seen>>
    <2>1. /\ req' = [req EXCEPT ![r] = [step |-> "replied"]] /\ blob' = blob
          /\ req[r].step \in {"register", "login"}
      BY <1>2 DEF AddUser, UpdateUser, PutUser, Becomes
    <2>2. Seen([step |-> "replied"]) = Seen(req[r]) BY <2>1, SeenIdle
    <2> QED BY <1>t, <2>1, <2>2, Unseen
  <1>3. ASSUME NEW a \in Accounts, Push(r, a) PROVE Store!Begin(r)
    <2>1. PICK accepts \in Preconditions, data \in Blobs :
            req' = [req EXCEPT ![r] = [step |-> "body", acct |-> a, accepts |-> accepts, data |-> data]]
      BY <1>3 DEF Push, Becomes
    <2> DEFINE q == [step |-> "body", acct |-> a, accepts |-> accepts, data |-> data]
    <2>4. Seen(q) = Store!Write(a, accepts, data) BY DEF Seen, Store!Write
    <2>5. Seen(req[r]) = Store!Idle BY <1>3, SeenIdle DEF Push, Idle
    <2>6. req' = [req EXCEPT ![r] = q] BY <2>1
    <2> HIDE DEF q
    <2>2. seen[r] = Store!Idle /\ seen' = [seen EXCEPT ![r] = Store!Write(a, accepts, data)]
      BY <1>t, <2>4, <2>5, <2>6, SeenBecomes
    <2>3. accepts \in SUBSET Store!Contents BY DEF Preconditions, Contents, Store!Contents
    <2> QED BY <1>3, <2>2, <2>3 DEF Push, seen, Store!Begin, Store!Becomes
  <1>4. ASSUME NEW a \in Accounts, Pull(r, a) PROVE Store!Begin(r)
    <2> DEFINE q == [step |-> "read", acct |-> a]
    <2>2. Seen(q) = Store!Read(a) BY DEF Seen, Store!Read
    <2>3. Seen(req[r]) = Store!Idle BY <1>4, SeenIdle DEF Pull, Idle
    <2>4. req' = [req EXCEPT ![r] = q] BY <1>4 DEF Pull, Becomes
    <2> HIDE DEF q
    <2>1. seen[r] = Store!Idle /\ seen' = [seen EXCEPT ![r] = Store!Read(a)]
      BY <1>t, <2>2, <2>3, <2>4, SeenBecomes
    <2> QED BY <1>4, <2>1 DEF Pull, seen, Store!Begin, Store!Becomes
  <1>5. ASSUME req[r].step \in {"body", "locked", "write", "read"}, Becomes(r, Answer("error", NoBlob)),
               blob' = blob
        PROVE  Store!FailedRequest(r)
    <2>2. Seen(req[r]).phase \in {"write", "read"}
      BY <1>5, SeenWrite, SeenRead DEF Store!Write, Store!Read
    <2>1. seen[r].phase \in {"write", "read"} /\ seen' = [seen EXCEPT ![r] = Store!Answer("error", NoBlob)]
      BY <1>5, <2>2, Answered
    <2> QED BY <1>5, <2>1 DEF seen, Store!FailedRequest, Store!Becomes
  <1>6. ASSUME LockPush(r) PROVE UNCHANGED <<blob, seen>>
    <2>0. req[r] \in Pushing BY <1>6, <1>t, Shapes DEF LockPush
    <2>1. req' = [req EXCEPT ![r] = [req[r] EXCEPT !.step = "locked"]] /\ blob' = blob
      BY <1>6 DEF LockPush, Moves
    <2>2. Seen([req[r] EXCEPT !.step = "locked"]) = Seen(req[r])
      BY <2>0 DEF Seen, Pushing
    <2> QED BY <1>t, <2>1, <2>2, Unseen
  <1>7. ASSUME CheckPush(r)
        PROVE  UNCHANGED <<blob, seen>> \/ Store!RefusedWrite(r) \/ Store!FailedRequest(r)
    <2>0. req[r] \in Pushing /\ blob' = blob BY <1>7, <1>t, Shapes DEF CheckPush
    <2>1. CASE Moves(r, "write")
      <3>1. req' = [req EXCEPT ![r] = [req[r] EXCEPT !.step = "write"]] BY <2>1 DEF Moves
      <3>2. Seen([req[r] EXCEPT !.step = "write"]) = Seen(req[r]) BY <2>0 DEF Seen, Pushing
      <3> QED BY <1>t, <2>0, <3>1, <3>2, Unseen
    <2>2. CASE Current(r) \notin req[r].accepts /\ Becomes(r, Answer("refused", NoBlob))
      <3>1. /\ seen[r] = Store!Write(req[r].acct, req[r].accepts, req[r].data)
            /\ seen' = [seen EXCEPT ![r] = Store!Answer("refused", NoBlob)]
        BY <1>7, <2>2, Answered, SeenWrite DEF CheckPush
      <3> QED BY <2>0, <2>2, <3>1 DEF Current, seen, Store!RefusedWrite, Store!Becomes, Store!Write
    <2>3. CASE Becomes(r, Answer("error", NoBlob)) BY <1>7, <2>0, <2>3, <1>5 DEF CheckPush
    <2> QED BY <1>7, <2>1, <2>2, <2>3 DEF CheckPush
  <1>8. ASSUME WritePush(r) PROVE Store!Stored(r) \/ Store!FailedRequest(r)
    <2>0. req[r] \in Pushing BY <1>8, <1>t, Shapes DEF WritePush
    <2>1. PICK save \in Saves :
            /\ blob' = IF save.file THEN [blob EXCEPT ![req[r].acct] = req[r].data] ELSE blob
            /\ Becomes(r, Answer(IF save.ok THEN "ok" ELSE "error",
                                 IF save.file THEN req[r].data ELSE NoBlob))
      BY <1>8 DEF WritePush
    <2>2. CASE save.file
      <3>1. PICK status \in {"ok", "error"} : Becomes(r, Answer(status, req[r].data))
        BY <2>1, <2>2
      <3>2. /\ seen[r] = Store!Write(req[r].acct, req[r].accepts, req[r].data)
            /\ seen' = [seen EXCEPT ![r] = Store!Answer(status, req[r].data)]
        BY <1>8, <3>1, Answered, SeenWrite DEF WritePush
      <3>3. blob[req[r].acct] \in req[r].accepts BY <1>8 DEF StillAccepted, WritePush
      <3>4. blob' = [blob EXCEPT ![req[r].acct] = req[r].data] BY <2>1, <2>2
      <3>5. /\ seen[r].phase = "write" /\ seen[r].acct = req[r].acct
            /\ seen[r].accepts = req[r].accepts /\ seen[r].data = req[r].data
        BY <3>2 DEF Store!Write
      <3>6. Store!Stored(r) BY <3>2, <3>3, <3>4, <3>5 DEF seen, Store!Stored, Store!Becomes
      <3> QED BY <3>6
    <2>3. CASE ~ save.file
      <3>1. ~ save.ok BY <2>3 DEF Saves
      <3> QED BY <1>8, <2>1, <2>3, <3>1, <1>5 DEF WritePush
    <2> QED BY <2>2, <2>3
  <1>9. ASSUME ReadBlob(r) PROVE Store!Returned(r) \/ Store!FailedRequest(r)
    <2>1. CASE Becomes(r, Answer("ok", Current(r)))
      <3>1. seen[r] = Store!Read(req[r].acct) /\ seen' = [seen EXCEPT ![r] = Store!Answer("ok", Current(r))]
        BY <1>9, <2>1, Answered, SeenRead DEF ReadBlob
      <3>2. seen[r].phase = "read" /\ seen[r].acct = req[r].acct BY <3>1 DEF Store!Read
      <3>3. blob' = blob /\ seen' = [seen EXCEPT ![r] = Store!Answer("ok", blob[req[r].acct])]
        BY <1>9, <3>1 DEF ReadBlob, Current
      <3>4. Store!Returned(r) BY <3>2, <3>3 DEF seen, Store!Returned, Store!Becomes
      <3> QED BY <3>4
    <2>2. CASE Becomes(r, Answer("error", NoBlob)) BY <1>9, <2>2, <1>5 DEF ReadBlob
    <2> QED BY <1>9, <2>1, <2>2 DEF ReadBlob
  <1>10. ASSUME Respond(r) PROVE Store!Delivered(r) \/ UNCHANGED <<blob, seen>>
    <2>4. req' = [req EXCEPT ![r] = Idle] /\ blob' = blob BY <1>10 DEF Respond, Becomes
    <2>5. Seen(Idle) = Store!Idle BY SeenIdle DEF Idle
    <2>1. seen' = [seen EXCEPT ![r] = Store!Idle] /\ blob' = blob
      BY <1>t, <2>4, <2>5, SeenBecomes
    <2>2. CASE req[r].step = "answer"
      <3>1. seen[r].phase = "answer" BY <2>2 DEF seen, Seen
      <3> QED BY <2>1, <3>1 DEF seen, Store!Delivered, Store!Becomes
    <2>3. CASE req[r].step = "replied"
      <3>1. seen[r] = Store!Idle BY <2>3, SeenIdle DEF seen
      <3> QED BY <2>1, <3>1 DEF seen
    <2> QED BY <1>10, <2>2, <2>3 DEF Respond
  <1>11. ASSUME BodyRejected(r) PROVE Store!FailedRequest(r) BY <1>11, <1>5 DEF BodyRejected
  <1> QED BY <1>1, <1>2, <1>3, <1>4, <1>6, <1>7, <1>8, <1>9, <1>10, <1>11
          DEF Arrive, Handle, Store!StoreNext

\* The sync server implements the atomic conditional register its clients rely on, for
\* any number of handlers, accounts, blobs and faults (handlePush, handlePull).
THEOREM ServerRefinesStore == Spec => ImplementsBlobStore
  <1>1. Init => Store!StoreInit
    BY SeenIdle DEF Init, Idle, Store!StoreInit
  <1>2. IInv /\ [Next]_vars => [Store!StoreNext]_<<blob, seen>>
    <2> SUFFICES ASSUME IInv, [Next]_vars PROVE Store!StoreNext \/ UNCHANGED <<blob, seen>>
      OBVIOUS
    <2>1. ASSUME Restart PROVE Store!StoreNext
      <3>1. seen' = [r \in Reqs |-> Store!Idle] BY <2>1, SeenIdle DEF Restart, Idle, seen
      <3> QED BY <2>1, <3>1 DEF Restart, seen, Store!StoreNext, Store!Lost
    <2>2. CASE UNCHANGED vars BY <2>2 DEF vars, seen
    <2> QED BY <2>1, <2>2, HandlerRefines DEF Next
  <1> QED BY <1>1, <1>2, PushLocking, PTL DEF Spec, ImplementsBlobStore, Store!StoreSpec, seen

-----------------------------------------------------------------------------
(* Tokens stay valid as long as logins do not overlap.                      *)

Increasing(h) == \A i, j \in 1..Len(h) : i < j => h[i] < h[j]

\* A token is in the history, or the window is full of newer ones.
Kept(h, t) ==
  \/ \E i \in 1..Len(h) : h[i] = t
  \/ Len(h) = MaxTokenHashes /\ \A i \in 1..Len(h) : h[i] > t

\* The history of an account, in memory or in the file, holds stored tokens in the order
\* they were generated, and every answered one that did not fall out of the window.
HistoryOK(a, h) ==
  /\ Increasing(h)
  /\ \A i \in 1..Len(h) : <<a, h[i]>> \in placed /\ h[i] <= mints
  /\ \A t \in Tokens : <<a, t>> \in answered => Kept(h, t)

\* Only one login is under way, and the account it copied is still what the map holds.
LoginOK ==
  \A r \in Reqs :
    /\ req[r].step \in {"register", "login"} => req[r].token <= mints
    /\ req[r].step = "login" =>
         /\ \A q \in Reqs : req[q].step = "login" => q = r
         /\ Exists(req[r].acct)
         /\ req[r].copy = users[req[r].acct]
         /\ \A i \in 1..Len(req[r].copy.hist) : req[r].copy.hist[i] < req[r].token

TokenInv == /\ \A a \in Accounts : HistoryOK(a, users[a].hist) /\ HistoryOK(a, disk[a].hist)
            /\ LoginOK

\* appendTokenHash keeps the order and drops only the oldest token of a full window.
LEMMA AppendKeeps ==
  ASSUME NEW h \in Histories, NEW t \in Tokens, Increasing(h), \A i \in 1..Len(h) : h[i] < t
  PROVE  LET n == AppendTokenHash(h, t)
         IN  /\ Increasing(n)
             /\ \A i \in 1..Len(n) : n[i] = t \/ \E j \in 1..Len(h) : n[i] = h[j]
             /\ \E i \in 1..Len(n) : n[i] = t
             /\ \A s \in Tokens : Kept(h, s) => Kept(n, s)
  <1> DEFINE n == AppendTokenHash(h, t)
             s == Append(h, t)
             L == Len(h)
  <1>t. Tokens \subseteq Nat BY BoundsAssumption DEF Tokens
  <1>0. /\ h \in Seq(Tokens) /\ L \in Nat /\ L <= MaxTokenHashes /\ Tokens \subseteq Nat
        /\ \A i \in 1..L : h[i] \in Tokens
    BY <1>t DEF Histories
  <1>1. s \in Seq(Tokens) /\ Len(s) = L + 1 /\ s[L + 1] = t /\ \A i \in 1..L : s[i] = h[i] BY <1>0
  <1>2. CASE L < MaxTokenHashes
    <2>1. n = s BY <1>2 DEF AppendTokenHash
    <2>2. Increasing(n) BY <1>0, <1>1, <2>1 DEF Increasing
    <2>3. \A i \in 1..Len(n) : n[i] = t \/ \E j \in 1..Len(h) : n[i] = h[j] BY <1>0, <1>1, <2>1
    <2>4. \E i \in 1..Len(n) : n[i] = t BY <1>0, <1>1, <2>1
    <2>5. \A x \in Tokens : Kept(h, x) => Kept(n, x)
      <3> SUFFICES ASSUME NEW x \in Tokens, Kept(h, x) PROVE \E i \in 1..Len(n) : n[i] = x BY DEF Kept
      <3>1. PICK i \in 1..L : h[i] = x BY <1>0, <1>2, BoundsAssumption DEF Kept
      <3>2. i \in 1..Len(n) /\ n[i] = x BY <1>0, <1>1, <2>1, <3>1
      <3> QED BY <3>2
    <2> QED BY <2>2, <2>3, <2>4, <2>5
  <1>3. CASE ~ (L < MaxTokenHashes)
    <2>0. L = MaxTokenHashes /\ L >= 1 BY <1>0, <1>3, BoundsAssumption
    <2>1. n = SubSeq(s, 2, L + 1)
      <3>1. n = SubSeq(s, Len(s) - MaxTokenHashes + 1, Len(s)) BY <1>3 DEF AppendTokenHash, Newest
      <3>2. Len(s) - MaxTokenHashes + 1 = 2 BY <1>0, <1>1, <2>0
      <3> HIDE DEF n, s
      <3> QED BY <1>1, <3>1, <3>2
    <2>2. Len(n) = L /\ \A i \in 1..L : n[i] = s[i + 1]
      <3> HIDE DEF n, s
      <3> QED BY <1>0, <1>1, <2>0, <2>1
    <2> HIDE DEF n, s
    <2>3. n[L] = t /\ \A i \in 1..L : i < L => i + 1 \in 1..L /\ n[i] = h[i + 1]
      BY <1>0, <1>1, <2>0, <2>2
    <2>4. Increasing(n)
      <3> SUFFICES ASSUME NEW i \in 1..L, NEW j \in 1..L, i < j PROVE n[i] < n[j]
        BY <2>2 DEF Increasing
      <3>1. i < L /\ i + 1 \in 1..L /\ n[i] = h[i + 1] BY <1>0, <2>3
      <3>2. CASE j = L BY <2>3, <3>1, <3>2
      <3>3. CASE j < L
        <4>1. j + 1 \in 1..L /\ n[j] = h[j + 1] /\ i + 1 < j + 1 BY <1>0, <2>3, <3>3
        <4> QED BY <3>1, <4>1 DEF Increasing
      <3> QED BY <1>0, <3>2, <3>3
    <2>5. \A i \in 1..Len(n) : n[i] = t \/ \E j \in 1..Len(h) : n[i] = h[j]
      <3> SUFFICES ASSUME NEW i \in 1..L PROVE n[i] = t \/ \E j \in 1..L : n[i] = h[j] BY <2>2
      <3>1. i = L \/ i < L BY <1>0
      <3> QED BY <2>3, <3>1
    <2>6. \E i \in 1..Len(n) : n[i] = t BY <1>0, <2>0, <2>2, <2>3
    <2>7. ASSUME NEW x \in Tokens, Kept(h, x) PROVE Kept(n, x)
      <3>1. CASE \E i \in 2..L : h[i] = x
        <4>1. PICK i \in 2..L : h[i] = x BY <3>1
        <4>2. i - 1 \in 1..L /\ i - 1 < L /\ (i - 1) + 1 = i BY <1>0
        <4>3. n[i - 1] = x BY <2>3, <4>1, <4>2
        <4> QED BY <2>2, <4>2, <4>3 DEF Kept
      <3>2. CASE ~ \E i \in 2..L : h[i] = x
        <4>1. \A i \in 2..L : h[i] > x
          <5>1. CASE h[1] = x
            <6>1. \A i \in 2..L : i \in 1..L /\ 1 \in 1..L /\ 1 < i BY <1>0
            <6>2. \A i \in 2..L : h[1] < h[i] BY <6>1 DEF Increasing
            <6>3. \A i \in 2..L : h[i] \in Nat BY <1>0, <6>1
            <6> QED BY <1>0, <5>1, <6>2, <6>3
          <5>2. CASE h[1] # x
            <6>1. ~ \E i \in 1..L : h[i] = x
              <7>1. \A i \in 1..L : i = 1 \/ i \in 2..L BY <1>0
              <7> QED BY <3>2, <5>2, <7>1
            <6>2. \A i \in 1..L : h[i] > x BY <2>7, <6>1 DEF Kept
            <6>3. \A i \in 2..L : i \in 1..L BY <1>0
            <6> QED BY <6>2, <6>3
          <5> QED BY <5>1, <5>2
        <4>2. t > x
          <5>0. 1 \in 1..L BY <1>0, <2>0
          <5>1. h[1] < t /\ h[1] \in Nat /\ t \in Nat /\ x \in Nat BY <1>0, <5>0
          <5>2. h[1] = x \/ h[1] > x
            <6>1. \A i \in 1..L : i = 1 \/ i \in 2..L BY <1>0
            <6> QED BY <2>7, <3>2, <5>0, <5>1, <6>1 DEF Kept
          <5> QED BY <5>1, <5>2
        <4>3. \A i \in 1..L : n[i] > x
          <5> SUFFICES ASSUME NEW i \in 1..L PROVE n[i] > x OBVIOUS
          <5>1. i = L \/ (i < L /\ i + 1 \in 2..L) BY <1>0
          <5> QED BY <2>3, <4>1, <4>2, <5>1
        <4> QED BY <2>0, <2>2, <4>3 DEF Kept
      <3> QED BY <3>1, <3>2
    <2> QED BY <2>4, <2>5, <2>6, <2>7 DEF n
  <1> QED BY <1>2, <1>3

\* A full window of newer tokens is that many newer stored ones.
LEMMA WindowCounts ==
  ASSUME TypeOK, NEW a \in Accounts, NEW h \in Histories, NEW t \in Tokens, HistoryOK(a, h),
         Len(h) = MaxTokenHashes, \A i \in 1..Len(h) : h[i] > t
  PROVE  Cardinality({q \in placed : q[1] = a /\ q[2] > t}) >= MaxTokenHashes
  <1> DEFINE Q == {q \in placed : q[1] = a /\ q[2] > t}
             f == [i \in 1..MaxTokenHashes |-> <<a, h[i]>>]
             g == [q \in Q |-> q[2]]
  <1>0. /\ MaxTokenHashes \in Nat /\ h \in Seq(Tokens) /\ Tokens \subseteq Nat
        /\ \A i \in 1..MaxTokenHashes : h[i] \in Nat
    BY BoundsAssumption DEF Histories, Tokens
  <1>1. IsFiniteSet(Tokens) BY FS_Interval, BoundsAssumption DEF Tokens
  <1>2. g \in Injection(Q, Tokens)
    <2>1. \A q \in Q : q[2] \in Tokens /\ q = <<a, q[2]>> BY DEF TypeOK, AccountsOK
    <2>2. g \in [Q -> Tokens] BY <2>1
    <2>3. \A q, p \in Q : g[q] = g[p] => q = p BY <2>1
    <2> HIDE DEF g, Q
    <2> QED BY <2>2, <2>3, Fun_IsInj
  <1>3. IsFiniteSet(Q)
    <2> HIDE DEF g, Q
    <2> QED BY <1>1, <1>2, FS_Injection
  <1>4. f \in Injection(1..MaxTokenHashes, Q)
    <2>1. \A i \in 1..MaxTokenHashes : <<a, h[i]>> \in Q BY DEF HistoryOK
    <2>2. f \in [1..MaxTokenHashes -> Q] BY <2>1
    <2>3. ASSUME NEW i \in 1..MaxTokenHashes, NEW j \in 1..MaxTokenHashes, f[i] = f[j] PROVE i = j
      <3>1. h[i] = h[j] /\ h[i] \in Nat BY <1>0, <2>3
      <3>2. i < j => h[i] < h[j] BY DEF HistoryOK, Increasing
      <3>3. j < i => h[j] < h[i] BY DEF HistoryOK, Increasing
      <3> QED BY <1>0, <3>1, <3>2, <3>3
    <2> HIDE DEF f, Q
    <2> QED BY <2>2, <2>3, Fun_IsInj
  <1>5. Cardinality(1..MaxTokenHashes) = MaxTokenHashes
    BY FS_Interval, BoundsAssumption
  <1>6. Cardinality(1..MaxTokenHashes) <= Cardinality(Q) /\ Cardinality(Q) \in Nat
    <2> HIDE DEF f, Q
    <2> QED BY <1>3, <1>4, FS_Injection, FS_CardinalityType
  <1> QED BY <1>0, <1>5, <1>6

\* The invariant is about histories only: it gives the property.
LEMMA TokenInvValid == IInv /\ TokenInv => TokensStayValid
  <1> SUFFICES ASSUME IInv, TokenInv, NEW p \in answered
               PROVE  \/ Valid(users[p[1]], p[2])
                      \/ Cardinality({q \in placed : q[1] = p[1] /\ q[2] > p[2]}) >= MaxTokenHashes
    BY DEF TokensStayValid
  <1>1. TypeOK /\ p[1] \in Accounts /\ p[2] \in Tokens /\ p = <<p[1], p[2]>>
    BY DEF IInv, TypeOK, AccountsOK
  <1>2. users[p[1]].hist \in Histories BY <1>1 DEF TypeOK, AccountsOK, User
  <1>3. HistoryOK(p[1], users[p[1]].hist) /\ Kept(users[p[1]].hist, p[2])
    BY <1>1 DEF TokenInv, HistoryOK
  <1>4. CASE \E i \in 1..Len(users[p[1]].hist) : users[p[1]].hist[i] = p[2]
    BY <1>4 DEF Valid, History
  <1>5. CASE Len(users[p[1]].hist) = MaxTokenHashes
             /\ \A i \in 1..Len(users[p[1]].hist) : users[p[1]].hist[i] > p[2]
    BY <1>1, <1>2, <1>3, <1>5, WindowCounts
  <1> QED BY <1>3, <1>4, <1>5 DEF Kept

\* More stored and generated tokens do no harm to a history.
LEMMA HistoryKept ==
  ASSUME NEW a \in Accounts, NEW h \in Histories, HistoryOK(a, h), placed \subseteq placed',
         mints \in Nat, mints' \in Nat, mints <= mints',
         \A t \in Tokens : <<a, t>> \in answered' => <<a, t>> \in answered
  PROVE  /\ \A i \in 1..Len(h) : <<a, h[i]>> \in placed' /\ h[i] <= mints'
         /\ \A t \in Tokens : <<a, t>> \in answered' => Kept(h, t)
  <1>1. \A i \in 1..Len(h) : h[i] \in Nat BY BoundsAssumption DEF Histories, Tokens
  <1> QED BY <1>1 DEF HistoryOK

\* A step that stores no token keeps the histories.
LEMMA StoreUntouched ==
  ASSUME TypeOK, TypeOK', TokenInv, UNCHANGED <<disk, placed, answered>>, users' \in {users, disk},
         mints <= mints'
  PROVE  \A a \in Accounts : HistoryOK(a, users[a].hist)' /\ HistoryOK(a, disk[a].hist)'
  <1> SUFFICES ASSUME NEW a \in Accounts PROVE HistoryOK(a, users[a].hist)' /\ HistoryOK(a, disk[a].hist)'
    OBVIOUS
  <1>1. mints \in Nat /\ mints' \in Nat BY BoundsAssumption DEF TypeOK
  <1>2. users[a].hist \in Histories /\ disk[a].hist \in Histories BY DEF TypeOK, AccountsOK, User
  <1>3. HistoryOK(a, users[a].hist) /\ HistoryOK(a, disk[a].hist) BY DEF TokenInv
  <1>4. \A h \in Histories : HistoryOK(a, h) =>
          /\ \A i \in 1..Len(h) : <<a, h[i]>> \in placed' /\ h[i] <= mints'
          /\ \A t \in Tokens : <<a, t>> \in answered' => Kept(h, t)
    BY <1>1, HistoryKept
  <1> QED BY <1>2, <1>3, <1>4 DEF HistoryOK, Increasing, Kept

\* Handlers other than those of the accounts, and restarts, start no login.
LEMMA LoginsKept ==
  ASSUME TypeOK, TokenInv, users' = users, mints' = mints,
         \A r \in Reqs : req'[r].step \in {"register", "login"} => req'[r] = req[r]
  PROVE  LoginOK'
  BY DEF TokenInv, LoginOK, Exists

\* Storing a token appends it to a history that is still the account's.
LEMMA PutUserTokens ==
  ASSUME IInv, TokenInv, NEW r \in Reqs, NEW u \in User, PutUser(r, u), TypeOK', mints' = mints,
         req[r].acct \in Accounts, req[r].token \in Tokens, req[r].token <= mints,
         Increasing(u.hist),
         \A i \in 1..Len(u.hist) : u.hist[i] = req[r].token
                                   \/ \E j \in 1..Len(users[req[r].acct].hist) : u.hist[i] = users[req[r].acct].hist[j],
         \E i \in 1..Len(u.hist) : u.hist[i] = req[r].token,
         \A t \in Tokens : <<req[r].acct, t>> \in answered => Kept(u.hist, t)
  PROVE  \A a \in Accounts : HistoryOK(a, users[a].hist)' /\ HistoryOK(a, disk[a].hist)'
  <1> DEFINE a == req[r].acct
             token == req[r].token
  <1>0. /\ mints \in Nat /\ users \in [Accounts -> User] /\ disk \in [Accounts -> User]
        /\ \A b \in Accounts : users[b].hist \in Histories /\ disk[b].hist \in Histories
    BY BoundsAssumption DEF IInv, TypeOK, AccountsOK, User
  <1>1. PICK save \in Saves : /\ disk' = IF save.file THEN [users EXCEPT ![a] = u] ELSE disk
                              /\ answered' = IF save.ok THEN answered \cup {<<a, token>>} ELSE answered
    BY DEF PutUser, Saved
  <1>2. users' = [users EXCEPT ![a] = u] /\ placed' = placed \cup {<<a, token>>} BY DEF PutUser
  <1>3. save.ok => save.file BY DEF Saves
  <1>4. ASSUME NEW b \in Accounts, NEW h \in Histories, HistoryOK(b, h), b # a \/ ~ save.ok
        PROVE  /\ Increasing(h)
               /\ \A i \in 1..Len(h) : <<b, h[i]>> \in placed' /\ h[i] <= mints'
               /\ \A t \in Tokens : <<b, t>> \in answered' => Kept(h, t)
    <2>1. placed \subseteq placed' /\ \A t \in Tokens : <<b, t>> \in answered' => <<b, t>> \in answered
      BY <1>1, <1>2, <1>4
    <2>2. mints' \in Nat /\ mints <= mints' BY <1>0
    <2>3. /\ \A i \in 1..Len(h) : <<b, h[i]>> \in placed' /\ h[i] <= mints'
          /\ \A t \in Tokens : <<b, t>> \in answered' => Kept(h, t)
      BY <1>0, <1>4, <2>1, <2>2, HistoryKept
    <2> QED BY <1>4, <2>3 DEF HistoryOK
  <1>5. /\ \A i \in 1..Len(u.hist) : <<a, u.hist[i]>> \in placed' /\ u.hist[i] <= mints'
        /\ \A t \in Tokens : <<a, t>> \in answered' => Kept(u.hist, t)
    <2>1. \A j \in 1..Len(users[a].hist) : <<a, users[a].hist[j]>> \in placed /\ users[a].hist[j] <= mints
      BY DEF TokenInv, HistoryOK
    <2>2. Kept(u.hist, token) BY DEF Kept
    <2>3. \A t \in Tokens : <<a, t>> \in answered' => t = token \/ <<a, t>> \in answered BY <1>1
    <2>4. \A t \in Tokens : <<a, t>> \in answered' => Kept(u.hist, t) BY <2>2, <2>3
    <2>5. \A i \in 1..Len(u.hist) : <<a, u.hist[i]>> \in placed' /\ u.hist[i] <= mints'
      BY <1>2, <2>1
    <2> QED BY <2>4, <2>5
  <1>6. \A b \in Accounts : HistoryOK(b, users[b].hist)'
    <2> SUFFICES ASSUME NEW b \in Accounts PROVE HistoryOK(b, users[b].hist)' OBVIOUS
    <2>1. CASE b = a
      <3>1. users'[b] = u BY <1>0, <1>2, <2>1
      <3> QED BY <1>5, <2>1, <3>1 DEF HistoryOK, Increasing, Kept
    <2>2. CASE b # a
      <3>1. users'[b] = users[b] /\ HistoryOK(b, users[b].hist) BY <1>0, <1>2, <2>2 DEF TokenInv
      <3> DEFINE h == users[b].hist
      <3>2. h \in Histories BY <1>0
      <3>3. HistoryOK(b, h) BY <3>1
      <3> HIDE DEF h
      <3>4. /\ Increasing(h)
            /\ \A j \in 1..Len(h) : <<b, h[j]>> \in placed' /\ h[j] <= mints'
            /\ \A t \in Tokens : <<b, t>> \in answered' => Kept(h, t)
        BY <1>4, <2>2, <3>2, <3>3
      <3> QED BY <3>1, <3>4 DEF HistoryOK, Increasing, Kept, h
    <2> QED BY <2>1, <2>2
  <1>7. \A b \in Accounts : HistoryOK(b, disk[b].hist)'
    <2>1. CASE save.file
      <3>1. disk' = users' BY <1>1, <1>2, <2>1
      <3> QED BY <1>6, <3>1 DEF HistoryOK
    <2>2. CASE ~ save.file
      <3> SUFFICES ASSUME NEW b \in Accounts PROVE HistoryOK(b, disk[b].hist)' OBVIOUS
      <3>1. disk' = disk /\ ~ save.ok /\ HistoryOK(b, disk[b].hist) BY <1>1, <1>3, <2>2 DEF TokenInv
      <3> DEFINE h == disk[b].hist
      <3>2. h \in Histories BY <1>0
      <3>3. HistoryOK(b, h) BY <3>1
      <3> HIDE DEF h
      <3>4. /\ Increasing(h)
            /\ \A j \in 1..Len(h) : <<b, h[j]>> \in placed' /\ h[j] <= mints'
            /\ \A t \in Tokens : <<b, t>> \in answered' => Kept(h, t)
        BY <1>4, <3>1, <3>2, <3>3
      <3> QED BY <3>1, <3>4 DEF HistoryOK, Increasing, Kept, h
    <2> QED BY <2>1, <2>2
  <1> QED BY <1>6, <1>7

\* Every step keeps the invariant when logins do not overlap.
LEMMA TokenStep ==
  ASSUME IsFiniteSet(Reqs), MaxLogins = 1, IInv, TokenInv, [Next]_vars
  PROVE  TokenInv'
  <1>0. IInv' /\ TypeOK /\ TypeOK' BY NextStep DEF IInv
  <1>1. mints \in Nat /\ mints' \in Nat /\ mints <= mints BY <1>0, BoundsAssumption DEF TypeOK
  <1>2. req \in [Reqs -> Requests] BY <1>0 DEF TypeOK
  <1>3. ASSUME UNCHANGED <<accounts, mints>>,
               \A r \in Reqs : req'[r].step \in {"register", "login"} => req'[r] = req[r]
        PROVE  TokenInv'
    BY <1>0, <1>1, <1>3, StoreUntouched, LoginsKept DEF accounts, TokenInv
  <1>4. ASSUME NEW r \in Reqs, NEW a \in Accounts, Register(r, a) PROVE TokenInv'
    <2>1. mints' = mints + 1 /\ UNCHANGED accounts BY <1>4 DEF Register, Mint
    <2>2. \A b \in Accounts : HistoryOK(b, users[b].hist)' /\ HistoryOK(b, disk[b].hist)'
      BY <1>0, <1>1, <2>1, StoreUntouched DEF accounts
    <2>3. /\ req'[r] = [step |-> "register", acct |-> a, token |-> mints']
          /\ \A q \in Reqs : q # r => req'[q] = req[q]
      BY <1>2, <1>4 DEF Register, Becomes
    <2>4. LoginOK'
      <3>1. \A q \in Reqs : req[q].step \in {"register", "login"} => req[q].token \in Nat
        BY <1>2, Shapes, BoundsAssumption DEF Registering, LoggingIn, Tokens
      <3>2. \A q \in Reqs : req[q].step \in {"register", "login"} => req[q].token <= mints'
        BY <1>1, <2>1, <3>1 DEF TokenInv, LoginOK
      <3>3. users' = users BY <2>1 DEF accounts
      <3> QED BY <1>1, <2>3, <3>2, <3>3 DEF TokenInv, LoginOK, Exists
    <2> QED BY <2>2, <2>4 DEF TokenInv
  <1>5. ASSUME NEW r \in Reqs, NEW a \in Accounts, Login(r, a) PROVE TokenInv'
    <2>1. mints' = mints + 1 /\ UNCHANGED accounts /\ users' = users /\ Exists(a)
      BY <1>5 DEF Login, Mint, accounts
    <2>2. \A b \in Accounts : HistoryOK(b, users[b].hist)' /\ HistoryOK(b, disk[b].hist)'
      BY <1>0, <1>1, <2>1, StoreUntouched DEF accounts
    <2>3. /\ req'[r] = [step |-> "login", acct |-> a, token |-> mints', copy |-> users[a]]
          /\ \A q \in Reqs : q # r => req'[q] = req[q]
      BY <1>2, <1>5 DEF Login, Becomes
    <2>4. \A q \in Reqs : req[q].step # "login"
      <3> DEFINE S == {q \in Reqs : req[q].step = "login"}
      <3>1. IsFiniteSet(S) BY FS_Subset
      <3>2. Cardinality(S) < 1 BY <1>5 DEF Login
      <3> HIDE DEF S
      <3>3. S = {} BY <3>1, <3>2, FS_CardinalityType, FS_EmptySet
      <3> QED BY <3>3 DEF S
    <2>5. \A j \in 1..Len(users[a].hist) : users[a].hist[j] < mints'
      <3>1. \A j \in 1..Len(users[a].hist) : users[a].hist[j] <= mints BY DEF TokenInv, HistoryOK
      <3>2. \A j \in 1..Len(users[a].hist) : users[a].hist[j] \in Nat
        BY <1>0, BoundsAssumption DEF TypeOK, AccountsOK, User, Histories, Tokens
      <3> QED BY <1>1, <2>1, <3>1, <3>2
    <2>6. LoginOK'
      <3>1. \A q \in Reqs : req[q].step \in {"register", "login"} => req[q].token \in Nat
        BY <1>2, Shapes, BoundsAssumption DEF Registering, LoggingIn, Tokens
      <3>2. \A q \in Reqs : req[q].step \in {"register", "login"} => req[q].token <= mints'
        BY <1>1, <2>1, <3>1 DEF TokenInv, LoginOK
      <3> QED BY <1>1, <2>1, <2>3, <2>4, <2>5, <3>2 DEF LoginOK, Exists
    <2> QED BY <2>2, <2>6 DEF TokenInv
  <1>6. ASSUME NEW r \in Reqs, AddUser(r) PROVE TokenInv'
    <2>0. req[r] \in Registering /\ UNCHANGED mints BY <1>2, <1>6, Shapes DEF AddUser
    <2>1. CASE Exists(req[r].acct)
      <3>1. UNCHANGED accounts /\ req' = [req EXCEPT ![r] = [step |-> "replied"]]
        BY <1>6, <2>1 DEF AddUser, Becomes
      <3> QED BY <1>2, <1>3, <2>0, <3>1
    <2>2. CASE ~ Exists(req[r].acct)
      <3> DEFINE a == req[r].acct
                 token == req[r].token
                 u == [tok |-> token, hist |-> <<token>>]
      <3>1. PutUser(r, u) BY <1>6, <2>2 DEF AddUser
      <3>2. a \in Accounts /\ token \in Tokens /\ token <= mints
        BY <1>6, <2>0 DEF Registering, TokenInv, LoginOK, AddUser
      <3>3. u \in User
        <4>1. <<token>> \in Histories BY <3>2, BoundsAssumption DEF Histories
        <4> QED BY <3>2, <4>1 DEF User, Tokens
      <3>4. u.tok = token /\ u.hist = <<token>> /\ Len(u.hist) = 1 /\ u.hist[1] = token OBVIOUS
      <3> HIDE DEF u
      <3>5. Increasing(u.hist) BY <3>4 DEF Increasing
      <3>6. \E j \in 1..Len(u.hist) : u.hist[j] = token
        <4>1. 1 \in 1..Len(u.hist) BY <3>4
        <4> QED BY <3>4, <4>1
      <3>7. \A t \in Tokens : <<a, t>> \notin answered BY <2>2 DEF IInv, AccountsDurable, Exists
      <3>8. \A j \in 1..Len(u.hist) : u.hist[j] = token BY <3>4
      <3>9. \A b \in Accounts : HistoryOK(b, users[b].hist)' /\ HistoryOK(b, disk[b].hist)'
        BY <1>0, <2>0, <3>1, <3>2, <3>3, <3>5, <3>6, <3>7, <3>8, PutUserTokens
      <3>10. users' = [users EXCEPT ![a] = u] /\ req' = [req EXCEPT ![r] = [step |-> "replied"]]
        BY <3>1 DEF PutUser, Becomes
      <3>11. LoginOK'
        <4>1. req'[r].step = "replied" /\ \A q \in Reqs : q # r => req'[q] = req[q] BY <1>2, <3>10
        <4>2. \A q \in Reqs : req[q].step = "login" => req[q].acct \in Accounts /\ req[q].acct # a
          BY <1>2, <2>2, Shapes DEF LoggingIn, TokenInv, LoginOK
        <4>3. \A b \in Accounts : b # a => users'[b] = users[b]
          BY <1>0, <3>10 DEF TypeOK, AccountsOK
        <4> QED BY <2>0, <4>1, <4>2, <4>3 DEF TokenInv, LoginOK, Exists
      <3> QED BY <3>9, <3>11 DEF TokenInv
    <2> QED BY <2>1, <2>2
  <1>7. ASSUME NEW r \in Reqs, UpdateUser(r) PROVE TokenInv'
    <2> DEFINE a == req[r].acct
               token == req[r].token
               h == users[a].hist
               n == AppendTokenHash(h, token)
               u == [tok |-> token, hist |-> n]
    <2>0. req[r] \in LoggingIn /\ UNCHANGED mints /\ req[r].step = "login"
      BY <1>2, <1>7, Shapes DEF UpdateUser
    <2>1. /\ a \in Accounts /\ token \in Tokens /\ token <= mints /\ req[r].copy = users[a]
          /\ \A j \in 1..Len(h) : h[j] < token
      BY <2>0 DEF LoggingIn, TokenInv, LoginOK
    <2>2. h \in Histories /\ Increasing(h) /\ \A t \in Tokens : <<a, t>> \in answered => Kept(h, t)
      BY <1>0, <2>1 DEF TypeOK, AccountsOK, User, TokenInv, HistoryOK
    <2>3. PutUser(r, u) BY <1>7, <2>1 DEF UpdateUser
    <2>4. n \in Histories BY <2>1, <2>2, HistoryType
    <2>5. /\ Increasing(n)
          /\ \A j \in 1..Len(n) : n[j] = token \/ \E k \in 1..Len(h) : n[j] = h[k]
          /\ \E j \in 1..Len(n) : n[j] = token
          /\ \A t \in Tokens : Kept(h, t) => Kept(n, t)
      <3> HIDE DEF h, token
      <3> QED BY <2>1, <2>2, AppendKeeps
    <2> HIDE DEF n
    <2>6. u \in User /\ u.hist = n BY <2>1, <2>4 DEF User, Tokens
    <2> HIDE DEF u
    <2>7. \A b \in Accounts : HistoryOK(b, users[b].hist)' /\ HistoryOK(b, disk[b].hist)'
      BY <1>0, <2>0, <2>1, <2>2, <2>3, <2>5, <2>6, PutUserTokens
    <2>8. req' = [req EXCEPT ![r] = [step |-> "replied"]] BY <2>3 DEF PutUser, Becomes
    <2>9. LoginOK'
      <3>1. req'[r].step = "replied" /\ \A q \in Reqs : q # r => req'[q] = req[q] BY <1>2, <2>8
      <3>2. \A q \in Reqs : req[q].step = "login" => q = r BY <2>0 DEF TokenInv, LoginOK
      <3> QED BY <2>0, <3>1, <3>2 DEF TokenInv, LoginOK
    <2> QED BY <2>7, <2>9 DEF TokenInv
  <1>8. ASSUME NEW r \in Reqs, NEW a \in Accounts, Push(r, a) \/ Pull(r, a) PROVE TokenInv'
    <2>1. UNCHANGED <<accounts, mints>> BY <1>8 DEF Push, Pull
    <2>2. req'[r].step \in {"body", "read"} /\ \A q \in Reqs : q # r => req'[q] = req[q]
      BY <1>2, <1>8 DEF Push, Pull, Becomes
    <2> QED BY <1>2, <1>3, <2>1, <2>2
  <1>9. ASSUME NEW r \in Reqs,
               \/ BodyRejected(r) \/ LockPush(r) \/ CheckPush(r) \/ WritePush(r) \/ ReadBlob(r) \/ Respond(r)
        PROVE  TokenInv'
    <2>1. UNCHANGED <<accounts, mints>>
      BY <1>9 DEF BodyRejected, LockPush, CheckPush, WritePush, ReadBlob, Respond
    <2>2. CASE \E step \in {"locked", "write"} : Moves(r, step)
      BY <1>2, <1>3, <2>1, <2>2 DEF Moves
    <2>3. CASE \E s, c : Becomes(r, Answer(s, c))
      <3>1. req'[r].step = "answer" /\ \A q \in Reqs : q # r => req'[q] = req[q]
        BY <1>2, <2>3 DEF Becomes, Answer
      <3> QED BY <1>2, <1>3, <2>1, <3>1
    <2>4. CASE Becomes(r, Idle)
      <3>1. Idle.step = "idle" BY DEF Idle
      <3> QED BY <1>2, <1>3, <2>1, <2>4, <3>1 DEF Becomes
    <2> QED BY <1>9, <2>2, <2>3, <2>4 DEF BodyRejected, LockPush, CheckPush, WritePush, ReadBlob, Respond
  <1>10. ASSUME Restart PROVE TokenInv'
    <2>1. \A b \in Accounts : HistoryOK(b, users[b].hist)' /\ HistoryOK(b, disk[b].hist)'
      BY <1>0, <1>1, <1>10, StoreUntouched DEF Restart
    <2>2. LoginOK' BY <1>10 DEF Restart, LoginOK, Idle
    <2> QED BY <2>1, <2>2 DEF TokenInv
  <1>11. CASE UNCHANGED vars BY <1>3, <1>11 DEF vars
  <1> QED BY <1>4, <1>5, <1>6, <1>7, <1>8, <1>9, <1>10, <1>11 DEF Next, Arrive, Handle

\* A token that a login or a registration answered stays valid, across failed saves and
\* restarts, until maxTokenHashes newer ones were stored, if logins do not overlap
\* (handleLogin, appendTokenHash).  With overlapping logins it is false: the later update
\* replaces the earlier one's history.
THEOREM TokensSurvive ==
  ASSUME IsFiniteSet(Reqs), MaxLogins = 1
  PROVE  Spec => []TokensStayValid
  <1>1. Init => TokenInv
    BY DEF Init, TokenInv, HistoryOK, Increasing, LoginOK, NoAccount, Idle
  <1>2. IInv /\ TokenInv /\ [Next]_vars => TokenInv' BY TokenStep
  <1> QED BY <1>1, <1>2, TokenInvValid, PushLocking, PTL DEF Spec
=============================================================================
