----------------------------- MODULE Executable -----------------------------
(***************************************************************************)
(* The installed ssm executable and the processes that run it              *)
(* (internal/update, cmd/ssm/main.go): launches, the choice of a release   *)
(* and the download of a verified image.  The replacement of the           *)
(* executable itself differs per platform: modules UnixReplace and         *)
(* WindowsReplace, put together by SelfUpdate.                             *)
(*                                                                         *)
(* An image is one file object (an inode, a strong File ID): a rename      *)
(* moves it, a hard link gives it a second name, and its bytes never       *)
(* change, because only digest-checked bytes become an image.              *)
(***************************************************************************)
EXTENDS Naturals, FiniteSets

CONSTANTS
    Process,      \* slots for ssm processes; a slot is launched again after it ends
    Platforms,    \* subset of {"linux", "bsd", "windows"}
    Release,      \* the releases that may be published, as <<major, minor>>
    Installed,    \* the version installed at the start
    None,         \* no image, no process, no version
    MaxImages,    \* bound: images ever staged, the installed one included
    MaxCrashes,   \* bound: process deaths
    MaxFaults     \* bound: operating-system calls that fail

ASSUME ExecutableAssumption ==
    /\ Platforms \subseteq {"linux", "bsd", "windows"}
    /\ Release \subseteq Nat \X Nat
    /\ Installed \in (Nat \X Nat) \ {<<0, 0>>}    \* <<0, 0>> marks an image not staged yet
    /\ IsFiniteSet(Process)
    /\ None \notin Process /\ None \notin 1 .. MaxImages /\ None \notin Release
    /\ MaxImages \in Nat \ {0} /\ MaxCrashes \in Nat /\ MaxFaults \in Nat

Image == 1 .. MaxImages

VARIABLES
    platform,   \* where this installation runs
    published,  \* releases the repository lists
    version,    \* the version of every image staged so far
    genuine,    \* images that hold the bytes of their release
    protected,  \* images that carry the original's mode or security descriptor
    reported,   \* images whose installation was reported as a success
    target,     \* the canonical name of the executable
    pc,         \* where each process is
    image,      \* the image each process runs from
    kind,       \* its last update: automatic, or an ordinary or major update command
    choice,     \* the release it selected
    staged,     \* its private stage: the verified image on its way to target
    crashes, faults

common == <<platform, published, version, genuine, protected, reported, target,
            pc, image, kind, choice, staged, crashes, faults>>

ExecutableInit ==
    /\ platform \in Platforms
    /\ published = {}
    /\ version = [i \in Image |-> IF i = 1 THEN Installed ELSE <<0, 0>>]
    /\ genuine = {1}
    /\ protected = {1}
    /\ reported = {1}
    /\ target = 1
    /\ pc = [p \in Process |-> "off"]
    /\ image = [p \in Process |-> None]
    /\ kind = [p \in Process |-> "auto"]
    /\ choice = [p \in Process |-> None]
    /\ staged = [p \in Process |-> None]
    /\ crashes = 0
    /\ faults = 0

Goto(p, l) == pc' = [pc EXCEPT ![p] = l]
At(p, l) == pc[p] = l

\* An operating-system call that fails.
Fault == faults < MaxFaults /\ faults' = faults + 1
NoFault == UNCHANGED faults

Running(i) == \E p \in Process : image[p] = i

\* compareVersion: the order of versions.
Newer(v, w) == v[1] > w[1] \/ (v[1] = w[1] /\ v[2] > w[2])

\* Versions are totally ordered and there are finitely many releases.
ASSUME ReleaseOrder ==
    \A S \in SUBSET Release : S # {} => \E v \in S : \A w \in S \ {v} : Newer(v, w)

Newest(S) == CHOOSE v \in S : \A w \in S \ {v} : Newer(v, w)

\* MUTANT of SelectRelease: nothing newer selects the zero release.
SelectReleaseZero(k, current) ==
    LET newer == {v \in published : Newer(v, current) /\ (v[1] > current[1] <=> k = "major")}
    IN  IF newer = {} THEN <<0, 0>> ELSE Newest(newer)

\* SelectRelease: the newest release of the running major, and the newest of
\* a later major; nothing that is not newer than the running version.
SelectRelease(k, current) ==
    LET newer == {v \in published : Newer(v, current)}
        candidates == IF k = "major" THEN {v \in newer : v[1] > current[1]}
                                     ELSE {v \in newer : v[1] = current[1]}
    IN  IF candidates = {} THEN None ELSE Newest(candidates)

\* The repository publishes a release (external).
Publish(v) ==
    /\ v \in Release \ published
    /\ published' = published \cup {v}
    /\ UNCHANGED <<platform, version, genuine, protected, reported, target, pc, image,
                   kind, choice, staged, crashes, faults>>

\* The user starts ssm by its installed name: there has to be a file there.
Launch(p) ==
    /\ At(p, "off")
    /\ target # None
    /\ image' = [image EXCEPT ![p] = target]
    /\ Goto(p, "start")
    /\ UNCHANGED <<platform, published, version, genuine, protected, reported, target,
                   kind, choice, staged, crashes, faults>>

\* checkUpdate comes first and runs at most one automatic update; a settings
\* file, the check interval or a failed listing may leave it out.
SkipAuto(p) ==
    /\ At(p, "ready")
    /\ Goto(p, "command")
    /\ UNCHANGED <<platform, published, version, genuine, protected, reported, target,
                   image, kind, choice, staged, crashes, faults>>

\* A release is selected against the version compiled into the running image.
Select(p, k) ==
    /\ SelectRelease(k, version[image[p]]) # None
    /\ choice' = [choice EXCEPT ![p] = SelectRelease(k, version[image[p]])]
    /\ kind' = [kind EXCEPT ![p] = k]
    /\ Goto(p, "fetch")
    /\ UNCHANGED <<platform, published, version, genuine, protected, reported, target,
                   image, staged, crashes, faults>>

\* Auto of update.go: the automatic update.
AutoUpdate(p) == At(p, "ready") /\ Select(p, "auto")

\* Download: the update command without --major.
Download(p) == At(p, "command") /\ Select(p, "ordinary")

\* ReviewMajor with authorization: every automated check of the preflight has
\* to pass; a failed check or a review without --yes ends the command.
ReviewMajor(p) == At(p, "command") /\ Select(p, "major")

\* runUpdate: one of the two, when the command is update at all.
RunUpdate(p) == Download(p) \/ ReviewMajor(p)

\* Where a process goes on after its update: the automatic one is followed by
\* the command, whatever came of it.
Updated(p) == IF kind[p] = "auto" THEN "command" ELSE "done"

\* MUTANT of CopyAndVerifyDigest: the digest is computed and not compared.
CopyOnly(bytes) == bytes \in {"genuine", "corrupt"}

\* copyAndVerifyDigest: the hash of the copied bytes is the one the checksum
\* list has for the asset.
CopyAndVerifyDigest(bytes) == bytes = "genuine"

\* An image that nothing has been staged in yet.
FreeImage(i) == version[i] = <<0, 0>> /\ \A j \in 1 .. (i - 1) : version[j] # <<0, 0>>

\* DownloadVersionBeforeReplace up to the replacement: checksums, provenance
\* bundle and asset are downloaded, and the asset is copied beside the
\* executable while it is hashed.  Only an image whose digest and provenance
\* match stays staged; every failure removes the stage.
DownloadVersionBeforeReplace(p) ==
    /\ At(p, "fetch")
    /\ \E bytes \in {"genuine", "corrupt"} :
           \/ /\ CopyAndVerifyDigest(bytes)
              /\ \E i \in Image :
                     /\ FreeImage(i)
                     /\ version' = [version EXCEPT ![i] = choice[p]]
                     /\ genuine' = IF bytes = "genuine" THEN genuine \cup {i} ELSE genuine
                     /\ staged' = [staged EXCEPT ![p] = i]
              /\ Goto(p, "staged")
           \/ /\ Goto(p, Updated(p))
              /\ UNCHANGED <<version, genuine, staged>>
    /\ UNCHANGED <<platform, published, protected, reported, target, image,
                   kind, choice, crashes, faults>>

\* The command is done and the process exits.
Exit(p) ==
    /\ pc[p] \in {"command", "done"}
    /\ Goto(p, "off")
    /\ image' = [image EXCEPT ![p] = None]
    /\ UNCHANGED <<platform, published, version, genuine, protected, reported, target,
                   kind, choice, staged, crashes, faults>>
=============================================================================
