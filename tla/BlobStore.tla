----------------------------- MODULE BlobStore -----------------------------
(***************************************************************************)
(* What the sync server promises its clients about vault blobs: one        *)
(* register per account with conditional writes that take effect at once   *)
(* and at most once.  A refused write had no effect; a write answered with *)
(* an error, or not answered because the server died, may have had one.    *)
(* This is the server VaultSync assumes.                                   *)
(***************************************************************************)
CONSTANTS Reqs, Accounts, Blobs, NoBlob

VARIABLES blob,  \* the stored blob per account
          req    \* the request each handler serves

Contents == Blobs \cup {NoBlob}

\* accepts is the set of stored contents the write's precondition allows.
Idle == [phase |-> "idle"]
Write(a, accepts, data) == [phase |-> "write", acct |-> a, accepts |-> accepts, data |-> data]
Read(a) == [phase |-> "read", acct |-> a]
Answer(status, content) == [phase |-> "answer", status |-> status, content |-> content]

StoreInit == blob = [a \in Accounts |-> NoBlob] /\ req = [r \in Reqs |-> Idle]

Becomes(r, value) == req' = [req EXCEPT ![r] = value]

Begin(r) ==
  /\ req[r] = Idle
  /\ \E a \in Accounts :
       \/ \E accepts \in SUBSET Contents, data \in Blobs : Becomes(r, Write(a, accepts, data))
       \/ Becomes(r, Read(a))
  /\ UNCHANGED blob

\* The write takes effect: its precondition holds of what it replaces.
Stored(r) ==
  /\ req[r].phase = "write" /\ blob[req[r].acct] \in req[r].accepts
  /\ blob' = [blob EXCEPT ![req[r].acct] = req[r].data]
  /\ \E status \in {"ok", "error"} : Becomes(r, Answer(status, req[r].data))

\* The write is refused: its precondition does not hold.
RefusedWrite(r) ==
  /\ req[r].phase = "write" /\ blob[req[r].acct] \notin req[r].accepts
  /\ Becomes(r, Answer("refused", NoBlob))
  /\ UNCHANGED blob

\* The read returns what is stored now.
Returned(r) ==
  /\ req[r].phase = "read"
  /\ Becomes(r, Answer("ok", blob[req[r].acct]))
  /\ UNCHANGED blob

FailedRequest(r) ==
  /\ req[r].phase \in {"write", "read"}
  /\ Becomes(r, Answer("error", NoBlob))
  /\ UNCHANGED blob

\* The answer is delivered.
Delivered(r) ==
  /\ req[r].phase = "answer"
  /\ Becomes(r, Idle)
  /\ UNCHANGED blob

\* The server dies; what was not written yet never will be.
Lost == req' = [r \in Reqs |-> Idle] /\ UNCHANGED blob

StoreNext ==
  \/ \E r \in Reqs : \/ Begin(r) \/ Stored(r) \/ RefusedWrite(r) \/ Returned(r)
                     \/ FailedRequest(r) \/ Delivered(r)
  \/ Lost

StoreSpec == StoreInit /\ [][StoreNext]_<<blob, req>>
=============================================================================
