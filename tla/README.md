# TLA+ models of ssm

`ssm` keeps SSH connection inventories in an encrypted vault, synchronises the
vault through a small HTTP server, runs commands, tunnels and file transfers
over pooled SSH connections, and updates its own executable. This directory
holds TLA+ models of its concurrent and failure-prone parts, the TLC
configurations that check them, and TLAPS proofs.

Run a check with `tlc -config X.cfg M`, the proofs with `tlapm M.tla`.
`PROJECT.json` lists the components, runs, mutants, findings, hazards and
theorems and maps definitions to source lines.

## The system

| Component (source) | State | Operations | Interacts with | Hard behaviour |
| --- | --- | --- | --- | --- |
| sync transaction (`internal/synctransaction/transaction.go`, `superseded.go`) | `connections.enc`, `remote.etag`, `sync-conflict.json`, `sync-superseded.json`, `sync-generation.json` | Sync, Pull, AdoptRemote, Push, reset on login | vault file, cloud client, ledger, schedule | facts read before a lock and used after it; several files written one after another; process death between them |
| sync schedule (`state.go`) | `sync-state.json`: due time, backoff, claim | claim, record success or failure, reset | detached background process | clocks that jump, claims that expire while their holder works |
| inventory transaction (`internal/inventorytransaction`) | inventory, pending ledger and its base in the vault, `publishing-intent.json` | host, key and import changes; Publish, reconcile, finalize | sync transaction, cloud client | changes that share keys and are published one by one; a PUT that is lost, late or stored with its answer lost |
| vault file (`internal/config`) | identity and generation of the vault, kernel file locks | Load, Save, bounded lock waits | everything above | concurrent processes |
| cloud client (`internal/cloud`) | none | HEAD, GET, conditional PUT and the meaning of its outcome | server | ambiguous outcomes |
| sync server (`internal/syncserver`) | `users.json`, one blob per account, push locks | register, login, push, pull, head | clients | concurrent handlers, saves that fail half-way, restarts |
| connection pool (`internal/ssh/pool.go`, `keepalive.go`) | map of pooled clients, lifecycle and entry locks | acquire session or client, release, ClosePool, keepalive | run, copy, tunnel, stream | lock order, revocation against acquisitions, session limits, silent peers |
| dial and jump chains (`jump.go`, `auth.go`, `wait.go`) | transports of each hop, an abort shared with a probe | dial hop by hop, undo, redial, probe with a bound | run, tunnel, `wait` | late connections, an abandoned dial that may still log in, a retry after a login was counted |
| exec, timeout, interrupt (`internal/ssh/run*.go`) | session of one command, two watchers | start, wait, deadline, signal, abort on a failed write | dial | a deadline or a signal that races the end of the command |
| tunnels (`tunnel.go`) | listeners, accept loops, handlers, ready file | listen, accept, relay, stop | dial | half-closed relays, shutdown order |
| transfers (`filecopy.go`, `resume.go`, `copy.go`, `copy_direct.go`, `sftp_transfer.go`, `dirsync.go`, `download_staging.go`) | temporary, partial and staged files here and on the remote host | stream, append, verify, publish, swap | remote scripts | scripts that outlive their session, retries, two transfers on one name, which end failed first |
| host keys (`hostkey.go`, `hostkey_types.go`) | `known_hosts` | inspect, accept, check while connecting | dial | the endpoint changes its key between two looks; rewriting a file without a lock |
| self update (`internal/update`) | the executable, its backup, the replacement record, private directories | select, download, replace, recover at launch | `main` | crash between the steps, a running image that cannot be replaced, concurrent updaters |
| map (`map.go`) | worker results | start, stop on failure | run | ordering of results |
| CLI (`cmd/ssm`) | none of its own between commands; `stream` keeps a process | commands in the order they call the above | all | refresh and revocation between requests of a stream |
| vault encryption, provenance, private paths, verify | none | pure functions and file permissions | | not state machines |

What makes them correct, in a sentence each: a mutation is not lost before it is
published; nothing is published that was not selected, and no host arrives on the
server without the key its user gave it; a pull does not overwrite local work; a
replaced version is not installed again; the server's conditional writes are
atomic; an account or a token that was handed out stays valid; a revoked pool
stays revoked and no connection leaks; an outcome that is reported is what
happened; a retry repeats no failed login; every wait ends; credentials go only to
reviewed keys; an update, a transfer or a replacement interrupted anywhere is
either done or undone.

## Modules

| Module | Contents |
| --- | --- |
| `VaultSync` | processes of one machine, its files and locks, the network and the server's blob |
| `VaultSyncProofs` | type correctness; safety of publication; replaced versions, resets and what other machines published |
| `PendingLedger`, `PendingLedgerProofs` | the contents of inventory changes, their dependencies and what a push publishes of them; that the ledger is sound and nothing unreviewed is published |
| `SyncServer`, `SyncServerProofs` | the sync server's handlers; that they implement `BlobStore` and keep accounts and tokens |
| `BlobStore` | abstract specification: one atomic conditional register per account |
| `ConnPool`, `ConnPoolProofs` | the SSH connection pool; its locking discipline |
| `JumpDial` | dialling a chain of hops, its undo, the wait probe |
| `RunCommand`, `Tunnel` | a command with its watchers; a tunnel with its listeners and handlers; both over `JumpDial` |
| `Sessions`, `SessionsProofs` | one caller (run, tunnel or wait) over one dial; what it reports, and that it stays silent once abandoned |
| `TransferCore` | what the transfers share: the source, the processes, deadlines and losses |
| `ShellUpload`, `SftpUpload`, `FileDownload`, `DirectoryTransfer` | one protocol each |
| `Transfer`, `TransferProofs` | any of the protocols side by side on the same names; what is published, reported and left behind |
| `KnownHosts`, `KnownHostsProofs` | host key trust: the file, `host-key accept`, the check of a connection; that only reviewed keys are trusted |
| `Executable` | installed executable, processes, releases, download and verification |
| `UnixReplace`, `WindowsReplace` | the replacement on each platform |
| `SelfUpdate`, `SelfUpdateProofs` | their composition on one installation; what is installed, and what a recovery may do |
| `MC*` | constants of the instances TLC checks |

A definition whose comment begins `Mutant:` or `A plausible bug:` is not part of the
model: it is a plausible mistake in the definition below it, and the run listed
in `PROJECT.json` fails when it is put in that definition's place.

### VaultSync

A blob is named by the identity of its encrypted bytes. Every save encrypts with a
fresh salt, so an identity names one content for ever: `blobs[i]`. The content is
the set of transactions it contains (`base`), the pending ledger (`pend`) and the
generation. Each file of the configuration directory is a variable of its own,
because each is written separately and a process may die between two of them; the
kernel locks are variables because the kernel releases them when their holder
dies. Process memory is a label, the command, and the identities the command has
read (`loaded`, `seen`, `got`, `body`): what is stale is what a process keeps in
them across a step.

| Actions | Code |
| --- | --- |
| `StartMutate`, `SaveMutation` | a mutating command: load, change, save under the vault lock |
| `StartPushAll`, `StartPushOnly`, `StartStatus`, `ReconcileLocal`, `ReconcileRemote`, `Project`, `VerifyEmpty`, `Prepare`, `Send`, `Put*`, `Finalize`, `Confirm*` | `Publish` and `finalizePublishingIntent`, up to `commitSuccess` |
| `StartPull`, `StartLogin`, `Reset`, `StartBackground`, `ReadFacts`, `PullHead`, `Check`, `RollbackFound`, `Decide`, `Fetch`, `Install*`, `Commit*`, `RecordSuccess` | `Sync`, `Pull` and the background process |
| `StartAdopt`, `AdoptFetch` | `pull --adopt-remote` |
| `LockRefused`, `MutationBusy` | bounded waits for the file locks |
| `ServerStore`, `ServerRefuse`, `ServerError`, `LoseRequest` | the server handles a PUT, or the network loses it; a request may be handled after the client gave up |
| `OtherPublish`, `RestoreRemote` | another machine publishes; the server is restored from a backup |
| `Crash`, `HeadFails`, `PullFails` | a process dies; a request fails |

What `commitSuccess` writes is best-effort in the code, and here: `RecordLedgers`, the two ETag
steps and `ClearConflict` each have an outcome in which the write failed and the commit went on, and
an unreadable ledger or mark counts as empty (`Reads`) and is begun anew by the next write. The
observation `unrecorded` keeps the versions whose entry was lost that way, and `SupersededComplete` and
`NoRollbackInstalled` are stated for the others; the generation mark alone does not replace a lost entry. A
reset whose removals fail is modelled too. Left out, because they only make a command fail or lose a timestamp: a failed
write of the evidence, of the settings or of the schedule's outcome, and a vault or `remote.etag` that exists and cannot be read.

`Init` offers the situations a machine can be in when a command starts: in step
with the server, with a vault of its own that was never synced, before the account's
first publication, or new to an existing account.

### ConnPool

Three ways to connect: a session on a pooled client (`acquireSSHSession`), a pooled
client (`dialSSH`), or a private connection (`noReuse`). `poolLifecycle` is an
RWMutex whose waiting writer stops new readers; `poolMu` is never held across a
blocking call and is part of the steps. `ClosePool` swaps the map, so an entry is
named by its key and the number of swaps before it was created. A peer that stopped
answering makes `NewSession` block under the entry lock until the keepalive closes the
connection. Abstracted: a server that answers refuses a session only for its limit
(`IsSessionLimit`); the misses the keepalive counts are not kept; the private
connection's slot wait runs as in the session path.

### SyncServer and BlobStore

One handler goroutine per member of `Reqs`. `userStore.mu` is held from the change of the
map to the end of the save, so `PutUser` is one step; the login's read and its update are
two. A push takes the account's lock, reads and tests, and writes, in three
steps; pulls take no lock. `writePrivateFile` replaces by rename and may fail after
it: `Saves` are the three outcomes. A restart loses the handlers and reloads
`users.json`. `BlobStore` is the promise: a conditional write takes effect at once
and at most once, a refused write has none, an error leaves it open. It is
also the server `VaultSync` assumes. Abstracted: passwords are right or the request
changes nothing; tokens are unique; two logins that append to one backing array
(a race that only overlapping logins can have) behave as if each had its own.

### PendingLedger

`VaultSync` treats a mutation as an opaque transaction; here its contents matter. An
inventory maps aliases to a connection (its authentication, and one number for all its
other fields) and key names to private keys. `ApplyHost`, `RemoveSavedKey` and
`ApplyImport` build the candidate the way the code does (a key file replaces, copies or
reuses a saved key depending on who else refers to it; an import renames, skips and
merges) and record before and after. `Dependencies`, `Projected`, `MarkPublished` and
`ValidateLedger` are the functions of the same names. Publication is `Publish`, `SaveIntent`,
`PreparePublication`, `SendPublication` (lost, stored, stored with its answer lost),
`Finalize` and `Reconcile`, any of which may be the last step of its process while other
commands change the ledger.

One device talks to its server: other devices and divergence are in `VaultSync`. A
command that is refused or changes nothing is not a step. No dependency is recorded for
`proxy_jump` (the code allows aliases in any order), so a published host may name a jump
alias that is not published yet. A push of more transactions than an intent holds is
refused (`MaxIntent`), each can be pushed alone. An import may replace a shared saved key;
the code reports that as a conflict of the key, and the model does the same. The assumption
`LedgerInputs` says what is put in: commands as the command line hands them over (`host ... --key`
names a saved key), lists of servers, and initial inventories whose connections have their
keys, as every command leaves them.

### JumpDial, RunCommand, Tunnel, Sessions

A dial goes hop by hop: connect (directly or through a channel of the hop before),
host key, credential, client. `sent` is who was sent a credential, `login` who accepted
it. The abort of `wait` is a second thread: it closes the current connection, reads whether the
host key had arrived, and drains or orphans the dial; every step of the dial may fall
between any two of its steps. `RunCommand` has the run, the exec deadline, the signal forwarder,
the writer of the output, the remote command and the peer as processes; the lock of
`execWatch` is in the granularity of the steps. `Tunnel` has the accept loop of each
listener, a handler per connection with its SOCKS greeting, target dial and relay in two
directions, and `RunTunnel`. The three share one dial (`Sessions`), because each owns
the transports it returns with.

Past the first hop the deadline of a handshake only sends the jump host a channel close
(`handshakeOverTunnel`), and keepalives start after the last hop: while the jump host is silent nothing ends
the read. `AwaitsJump` is that state; the dial is not assumed to leave it, and `WindsDown` allows a run or a tunnel to stay in it
for ever. A `wait` may not: its own timer gives the dial up.

Assumed or left out: the local reader of the output reads or goes away; the keepalive is on
(with `SSM_KEEPALIVE=0` a run on a silent peer may wait for ever); the next attempt of
`wait` starts once an abandoned dial has ended (a bound). A few outcomes are the
code's and are allowed by the properties: an exec that is refused just as the deadline
fires may be reported as `exec_timeout`; a signal between the end of the command and
`interrupt.stop` is reported as interrupted. A failed write of the ready file may leave a torn one.

### TransferCore, ShellUpload, SftpUpload, FileDownload, DirectoryTransfer, Transfer

A file is a sequence of blocks, each named by the version of the source it was read from, so a
digest is the content and a torn file is told apart. Names and inodes are separate
(`at`, `data`): a rename moves an inode, an open file descriptor keeps writing to it. A
remote script is a process of its own that outlives its session and takes the loss of the
session for the end of its input; its shell steps (probe, create, metadata, append,
digest, `mv`, `rm`) are actions. SFTP requests may take effect with their answer lost. A directory
transfer has a tar at each end, the supervisor that waits for both, and the swap of the
staged tree. `cp --direct` lends a key to the source host through an agent; `agent` is who can still use it.

The passing run has one resumable upload of a destination at a time (`Overlap = FALSE`);
see Findings for two. Properties hold with these facts of the code, which a user may meet: a script
killed between `mv` and the removal of its metadata, or between creating the partial file
and its metadata, makes later resumes "incompatible" until the seven-day sweep; local
edits between the staging of a directory download and its publication are lost; a kill between the two
renames of the swap leaves the previous tree only as `.ssm-get-backup-*`; over SFTP
`get --sha256` verifies the stream and not a remote digest; an SFTP create whose answer is lost leaves a
temporary file that no error names; a failed `RemoveAll` or `Remove` of a staging tree, a staging file or
the backup of a swapped tree is ignored (`download_staging.go:169`, `:205`), so `.ssm-get-dir-*` or
`.ssm-get-backup-*` stays although the download reports success or another error: `unremoved` marks these, and
`NoLitter` says what still holds, that a success leaves no staging copy and a failure no backup. A server may refuse any
SFTP request with the link up. A remote script's `rm` of its own temporary file, which it
created in a directory it could write, is taken to succeed. Local signals during `getdir` are not modelled.

### KnownHosts

`known_hosts` is a set of entries with host, key and marker (plain, certificate authority,
revoked); endpoints present one key per type and may change any of them at any time.
An accept observes the endpoint, compares with the file, observes again and appends
(`saveHostKey`) or reads, rewrites and renames (`replaceKnownHost`); a connection loads the file,
negotiates recorded types first, and sends credentials when the callback accepts. Patterns,
hashing and line layout are abstracted to the host an entry names; certificates are not presented.

### Executable, UnixReplace, WindowsReplace, SelfUpdate

An image is a file object; names (`target`, `backup`, `mapped`, private links) refer to it.
Every process launches, reconciles, runs a command or an update, and may die anywhere.
On Unix there is no lock: a process retains the original by a link in its private directory,
renames its entry over the target, authenticates what is there and puts the original back
if it is not its own. On Windows the record `.X.old.state` is written first, the original is renamed to
`.X.old`, the stage takes its place, the security descriptor is applied and verified, and the record is
completed; every launch sweeps under the lock: it finishes a completed replacement and undoes a
prepared one, by rename, by link or, when the image is running, by displacing it. A record
may be torn by a crash. Privileges are enabled for the steps that need them and returned. A record
has the tier it was made with: the full tier needs the backup privileges again to be verified, so a launch that is not
elevated is refused and changes nothing. A launch through a link to the executable compares with itself
and never with the installed name, and may have to link the backup over the name first.

Facts of the code that the properties allow for: if in the end every launch is un-elevated (for a
full-tier record) or through a link, recovery need not complete, and `RecoveryCompletes` claims nothing; without a lock the rollback of one Unix
updater can undo another's reported success (`InstalledStays` is claimed for Windows); a torn or
empty record makes every later launch refuse until a person removes it; the same
happens when the record was completed on disk, its write was reported as failed, and the process died before
removing it; a crash in the rename gap leaves no executable to launch, so nothing can recover
by itself (`CHECK_DEADLOCK FALSE`), although `docs/plans/issue-28-pinned-provenance.md:472` asks to
"launch the same reviewed executable path again so startup can authenticate and restore the exact original".

## Runs

All runs let the system stop (`CHECK_DEADLOCK FALSE`): no command has to be started, and
every bound stops new ones.

| Run | Instance | Shows |
| --- | --- | --- |
| `publish` | 2 processes, 2 own transactions, 1 foreign, 7 blobs, 2 faults | mutations survive in the ledger until published (`LedgerComplete`); nothing unselected is published (`ScopeExact`); the cached identity was stored (`CachedWasRemote`); finalization only after storage (`FinalizesStoredTarget`); a PUT does not remove what others published (`PublishKeepsRemote`, as long as no sync runs beside the push) |
| `pull` | 2 processes, 1 own, 1 foreign, 3 blobs, 1 fault, 2 restores, starts synced, fresh and unsynced | every replaced version is on record unless a swallowed failure lost its entry (`SupersededComplete`); a reset stops older background work (`ResetStopsBackground`); a replaced version on record is not installed after a restore (`NoRollbackInstalled`) |
| `live` | 2 processes, 1 fault, starts synced and fresh, with fairness | every command returns (`CommandsReturn`) |
| `ledger` | 2 aliases, 2 private keys, 3 changes, 2 publications, intents of at most 2 | the ledger explains what separates the inventory from base and server (`LedgerSound`); published hosts have the key and fields they had locally (`PublishedWasReviewed`); publishing one host leaves the others alone (`OnlyTouchesItsAlias`); a refusal names a plan that works (`RefusalIsAPlan`) |
| `server` | 2 handlers, 1 account, 2 blobs, 4 tokens in a window of 2, no overlapping logins, 2 faults | `ImplementsBlobStore`, `AccountsDurable`, `TokensStayValid` |
| `pool` | 2 goroutines in all three ways, 2 destinations (1 slot, no slot), 2 dials, 1 ClosePool, with fairness | `RevocationComplete`, `NoLeakedConnection`, `RunningSessionsKept`; acquisitions and ClosePool end (`PoolProgress`) |
| `sessions` | direct or one jump host, 2 attempts, 2 signals, 3 ways to run, 2 listeners, 2 connections, 1 slot, with fairness | a timeout is reported exactly when its signal was taken (`TimeoutTruthful`); success is real (`SuccessIsReal`); nothing outlives its caller, relays are not cut, slots hold (`TunnelSound`); a retry repeats no failed login (`RetryIsHarmless`); an abandoned dial sends nothing (`AbandonedSendsNothing`); everything ends and is closed, but for a dial behind a silent jump host (`WindsDown`) |
| `transfer` | pairs of transfers that meet on a name, 2 blocks, 1 edit, 1 fault, with fairness | names only ever receive whole, verified files (`PublishesWhole`); the previous file stays reachable and nothing is left behind but what could not be removed (`FilesSound`); success means done (`OkMeansDone`); the remote cause is reported (`RootCause`); the lent key is not used afterwards (`KeyNotUsedAfterReturn`); transfers return (`TransfersReturn`) |
| `knownhosts` | 2 endpoints with 2 key types and 2 keys each, 2 accepts one after the other, 1 connection, 2 key changes | only reviewed keys are trusted and replaced or revoked ones are refused (`TrustSound`); an accept removes no other entry (`OthersKept`) |
| `selfupdate` | 2 processes, 3 platforms, 3 images, 1 crash, 1 fault, with fairness | the original can be restored and evidence has an owner (`RecoverySound`); what is installed is authentic (`InstalledAuthentic`); privileges are returned (`PrivilegesReturned`); a reported update stays (`InstalledStays`); no dispatch during recovery (`DispatchAfterRecovery`); recovery completes once a launch that may restore reads the record (`RecoveryCompletes`) |
| `find_overwrite`, `find_resume` | see Findings | a counterexample each |

Bounds. Two processes, goroutines, transfers or handlers are enough for every race listed under
hazards, which are all between a reader and one writer; the proofs remove the bound
where they exist. Blobs bound the number of commands: a command starts only when the
blobs it may write fit (`Fits`), so no command is stopped half-way. Faults bound crashes, losses and
errors together: with two, a failure and a failure of its recovery happen in one behaviour; the self
update counts crashes and failing calls apart, so a crash during the rollback of a failed install is among its behaviours.
`MaxSuperseded` is 3 in `pull`, as many versions as exist; with a ledger of one,
`NoRollbackInstalled` does not hold, because after a restore another machine
can publish a version whose generation equals one this machine has forgotten; the property
is therefore claimed within the ledger's length (the code keeps its newest entries only). The one fault of `pull` may be
any failure of a best-effort read or write; a second would be a crash after it, which the theorems cover.
`MaxTokenHashes` is 2 with four tokens, so the window is cut twice. One account is enough for the
server's locks and register, which are per account; the theorems hold for any number. Three ledger
changes are a change, one that depends on it and one that depends on both; two publications are
one out of order and the next. Two blocks tell a whole file from a truncated and from a torn one. One
slot with two connections makes an accept loop wait. Two hops are one jump host: every later hop is opened the way the second is.

Fairness. `VaultSync`: each started command keeps taking steps; lock waits are bounded and every
HTTP exchange has a timeout, so no lock or answer is assumed to come. `ConnPool`: each
goroutine and ClosePool keep running (weak), a goroutine waiting for an entry's mutex gets it
if it is free again and again (strong: Go's mutex hands over to a waiter that starved for
a millisecond), and the keepalive closes a silent connection (weak). With
`SSM_KEEPALIVE=0` there is no keepalive and `PoolProgress` and `WindsDown` are not claimed. `Sessions`: every
goroutine goes on and its timers fire, a peer that is not silent answers a close; nothing is
assumed of a jump host during a handshake through it (`AwaitsJump`), of the command, the user, the targets or the clients of a tunnel. `Transfer`: each
local process and remote script goes on. `SelfUpdate`: a started process goes on and somebody keeps
starting ssm; nothing makes a process update or die, run elevated, or be started by the installed name.

## Findings

Two runs have a counterexample; each checks what a comment or a document of the
repository says.

| Run | Behaviour |
| --- | --- |
| `find_overwrite` | two syncs: the second observed the remote before the first installed it; a mutation saved in between is overwritten without divergence |
| `find_resume` | two `put --resume` of the same content: the second one's probe truncates the shared partial file after the first one's script verified it and before it is renamed; an empty file is published and reported as verified |

Further disagreements show with other constants or properties, and have no run of their own:

- `NoFalseRollback` fails with `{"mutate", "push_only", "pull"}`: after a `push --only` the
  machine's own published blob is refused as a possible rollback, because the confirmed generation is
  read after finalization has saved a higher one (`synctransaction/transaction.go:984`).
- `RecoveredCanPublish` fails with adoption beside a push: after the documented recovery of a
  diverged push (`cmd/ssm/help.go:112`) the kept divergent intent still refuses every push.
- `PublishKeepsRemote` fails with `sync` beside a push: a push that loaded the vault before a sync
  and read the cached identity after it publishes without the other machine's changes
  (`inventorytransaction/transaction.go:966`).
- `NoSilentOverwrite` fails with `{"mutate", "pull"}`: `pull` with an unchanged remote replaces a local vault
  that is ahead, pending mutations included (`synctransaction/transaction.go:711` promises the opposite).
- `AdoptsOnlyReviewed` fails with `{"mutate", "sync", "adopt"}`: a running adoption replaces a vault that
  changed after the reviewed evidence, if a concurrent sync has re-recorded the evidence.
- `TokensStayValid` fails with `MaxLogins = 2`: of two overlapping logins the later update drops the
  token the earlier one was answered with (`syncserver/server.go:151` against the comment at 448).
- `OthersKept` and `OneKeyPerType` fail with two members of `Accepters`: `replaceKnownHost` reads,
  rewrites and renames without a lock, so an entry another accept (or OpenSSH) appended in between is dropped,
  and two accepts of a new host may record two keys of one type; `docs/reference.md:165` says that
  "lines of other hosts are left untouched". A crash leaves a `.known_hosts.ssm.*` file.

## Proofs

Every theorem holds for all values of the constants that satisfy the named
assumptions (sentinels are not members of the sets they mark, own and foreign
transactions differ, bounds are naturals).

- `VaultSyncProofs`, types: `TypeCorrect`; `TypeOK` is inductive by itself.
- `VaultSyncProofs`, publication: `LedgerNeverLosesMutations`, `OnlySelectedPublished`,
  `CacheNamesStoredVersion`, `FinalizationIsSafe`. None of these is inductive: finalization
  deletes ledger entries without asking the server. The invariant adds that
  the holder of `publication.lock` alone owns the intent (`SessionHeld`), that the
  recorded IDs are in the recorded target (`IntentCovered`), that the target of a finalization was
  stored (`SessionHeld`, `FailedStored`), that stored blobs contain only published
  transactions (`StoredPublished`), that nothing names an unwritten blob (`BlobsKnown`,
  `StoredOnly`) and that scopes and blobs contain only requested transactions (`OnlyRequested`).
- `VaultSyncProofs`, synchronisation:
  `ReplacedStaysOnRecord` (`SupersededComplete`) and `ReplacedNeverInstalled` (`NoRollbackInstalled`, for
  `MaxBlobs <= MaxSuperseded`: a ledger that does not overflow, the case in which the code makes the
  promise). A commit writes the ledger, then `remote.etag`, and may die or fail in between, while a login resets both. `SupInv` says that
  who commits holds the vault lock from the install on, and that for whoever is about to write `remote.etag` the
  version it replaces is in the ledger or among the lost entries (`CommitAt`, `LedgersKeep`); the entries of the
  ledger are distinct, so one as long as there are versions drops none. Nothing is claimed of a version whose
  entry a swallowed failure lost, nor of an install that could not read the ledger.
  `ResetIsFinal` (`ResetStopsBackground`): a background process from before the reset never has the claim
  again (`ClaimRevoked`), and the lock of the vault is refused to one without it.
  `PublishingKeepsRemote` (`PublishKeepsRemote`), for a machine whose commands mutate, publish and ask for the status
  (`PublishingOnly`): a blob about to be sent contains what its prerequisite contained (`KeepAt`, `IntentKeeps`,
  `InflightKeeps`), because the vault on disk only grows. The hypothesis is needed: with a pull between a push's
  load and its read of the cached identity the property fails, see above.
- `PendingLedgerProofs`: `LedgerTypeCorrect`, `LedgerIsSound` (`LedgerSound`), `PublishedHostsWereReviewed`
  (`PublishedWasReviewed`), `RefusalNamesAPlan` (`RefusalIsAPlan`), `OnlyPublishesItsAlias` (`OnlyTouchesItsAlias`),
  for any commands, imports, names and keys and any number of changes and publications. Replaying a ledger leaves in
  every place (alias or key) what its newest writer wrote (`ReplayIsFinal`), so changes that share no place
  with older ones left behind may go first (`FinalSplit`), in particular one without dependencies
  (`SeparableSplit`). The first invariant, `CoreInv`, says that the ledger leads from its base to the inventory, and
  that the server holds the base, or the base with the intent's changes. It is not enough for what is
  published to have been reviewed: a change that goes out alone makes an inventory that never existed locally. `LedgerInv`
  therefore speaks of every inventory the ledger leads through (`Stage`): it has the keys of its
  connections, it is the one its next change was recorded for, and each of its hosts was seen locally. That the key
  rules of `directDependencyEdges` are strong enough is `AloneUnused` (a key the change writes is used by no other
  host before it) and `AloneUses` (the key it uses is made by no change before it). The recursive functions `Replay`,
  `Selected`, `Dependencies` and `LoadServerImport` are reasoned about through `LeastNumber`, `SetInduction` and `Recursion`:
  induction stated for sets of numbers, which the provers can instantiate, instead of for operators.
- `ConnPoolProofs`: `PoolTypeCorrect`, `RevocationIsComplete`, `NoConnectionLeaks`,
  `BusyConnectionsSurvive`. That nobody refills a detached entry follows from who holds which
  lock: an entry is locked exactly by the goroutine working on it, whoever is between lookup and
  lock holds the lifecycle lock, and visited entries stay empty.
- `SyncServerProofs`: `ServerRefinesStore`, `AnsweredAccountsSurvive`, `ServerTypeCorrect`,
  `TokensSurvive`. The write of a blob maps to the abstract conditional write only if the tested
  precondition still holds; that is `LockOwned` and `StillAccepted`. Locking,
  testing and account steps map to stuttering. `TokensSurvive` assumes a finite set of requests and
  one login in flight, the case in which the code keeps its promise; its invariant `TokenInv`
  says that token lists grow in the order of minting and that the copy a login has read is still the account's.
- `KnownHostsProofs`: `TrustTypeCorrect` and `OnlyReviewedTrusted` for any number of accepters, key
  changes and crashes (`AcceptsFormed`: what an accept writes after its second observation is the
  fingerprint it was given; `TrustInv`: the file, and every copy of it a process holds, trusts only reviewed keys
  and has lost no revocation);
  `SoleAccepterTrustSound` and `SoleAccepterKeepsOthers` for one accepter and initial files with one
  plain key per host and type (`SoleInv`: what the accepter read is still the file). With two accepters both
  fail, see above.
- `SelfUpdateProofs`: `UpdateTypeCorrect`, `InstalledIsAuthentic`, `NoPrivilegeKept`,
  `RecoveryIsSound`, `InstalledNeverUndone`, `DispatchIsAfterRecovery`, on both platforms, for any finite
  set of processes and any number of crashes and faults. The invariant says who has a private image and that no
  two processes share one (`StageInv`, `ImageInv`), which image each name holds at each label (`UnixInv`, `StepInv`), that
  on Windows the lock holder is alone with the names (`LockInv`), that a stage not yet installed is under none of
  them (`StageApart`) and that a recovery record
  describes what is on disk (`RecordInv`): without it a recovery started after a crash could act on anything.
- `SessionsProofs`: `SessionsTypeCorrect`, `TimeoutIsTruthful`, `SuccessIsAlwaysReal`,
  `TunnelIsSound`, `RetryIsAlwaysHarmless`, `AbandonedStaysSilent`. The invariant is layered as
  the modules are: the dial (`SentInv`, `AbortInv`, `ProbeInv`: the order of the abandoned flag and the abort),
  the command (`WatchInv`, `CommandInv`, `ReportInv`: the lock of `execWatch` decides who reports), the tunnel
  (`PhaseInv`, `HoldInv`, `SlotInv`: which handler owns which slot) and the caller (`CallerInv`).
- `TransferProofs`: for any finite set of transfers of any protocol on the same names
  `TransferTypeCorrect`, `RemoteTarIsNamed` (`RootCause`), `NothingLeftBehind` (`NoLitter`) and
  `KeyIsReturned` (`KeyNotUsedAfterReturn`); without overlapping resumable uploads also `OkIsReal`
  (`OkMeansDone`) and `OnlyWholeIsPublished` (`PublishesWhole`); with, besides, at most two directory downloads
  into one tree, `PreviousIsKept` (`FilesSound`). The invariant `Good` says who owns which remote object
  (`Own`), that a script writes to the file it will rename and that what is about to be renamed was
  checked (`ContentInv`), that an agent empties its file first (`AgentInv`), and the same for staged files and
  trees on the local side (`StageInv`, `LocalInv`, `EndsInv`, `TreeInv`). `PreviousIsKept` adds `PairInv` and
  `EntryInv`: a tree without the first entry means that two downloads have begun.
  The overlap of resumable uploads is what `Transfer_find_resume.cfg` is about. The bound of two downloads is needed for a
  reason: directory downloads into one tree take no lock, and with four of them the previous entry can
  be lost (TLC finds it with `Proc` of four and no fault: one moves the tree aside; a second, staged
  while there was none, places its own; the other two stage from that; the fourth moves it aside, the first
  places its tree and drops the old one, and the third moves that tree aside, places its own and drops it).

Only model-checked:

- liveness (`CommandsReturn`, `PoolProgress`, `WindsDown`, `TransfersReturn`, `RecoveryCompletes`): fairness and
  `ENABLED` are beyond the prover;
- overlapping logins, accepters and resumable uploads, a push beside a pull, and a ledger of replaced versions that
  overflows: there the properties named above fail, as the bounds and findings describe.

Every safety property of every passing run, and the type invariant of every specification, is
proved; where a theorem has a hypothesis, it is the one the run's constants satisfy.

## Plan

Models still missing: `SyncSchedule` (due times, backoff, claims that expire, clock jumps), `map`, and
redirects and jump-chain resolution as pure operators.

## Not modelled

Cryptography (a blob is its content), provenance and release verification (pure, offline),
operating-system permissions beyond the Windows security descriptor of the executable, argument
parsing and output, error wording, request building, servers that ignore preconditions, the wall
clock of the sync schedule, the worker pool of `map`, request decoding of `stream`, and spooling of
output. `PROJECT.json` gives the reason for each component.
