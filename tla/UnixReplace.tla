---------------------------- MODULE UnixReplace ----------------------------
(***************************************************************************)
(* Replacing the executable on Linux, macOS and the BSDs                   *)
(* (replace_other.go, replace_commit_unix.go, replace_commit_copy_unix.go).*)
(* There is no lock: several processes may replace the executable at once. *)
(* Each works in a private directory that holds its entry (the new image)  *)
(* and a hard link that retains the original.                              *)
(***************************************************************************)
EXTENDS Executable

VARIABLES
    rollback,  \* unixRollbackEntry of each process: the retained original
    seen,      \* the original and its link count, as Fstatat saw them
    orphans    \* per image, the retained links that no process owns any more

unixVars == <<rollback, seen, orphans>>

UnixInit ==
    /\ rollback = [p \in Process |-> None]
    /\ seen = [p \in Process |-> <<None, 0>>]
    /\ orphans = [i \in Image |-> 0]

Unix == platform # "windows"

\* Nlink: the names an image has.  The private entry is a name until the
\* commit moves it; staged[p] stays the process's handle on the object.
Entry(p) == pc[p] \in {"staged", "bind", "inspect", "retain", "commit"}
Links(i) == Cardinality({p \in Process : rollback[p] = i})
            + Cardinality({p \in Process : Entry(p) /\ staged[p] = i})
            + orphans[i] + (IF target = i THEN 1 ELSE 0)

\* An error return before the rename: every private name is removed.
UnixAbort(p) ==
    /\ staged' = [staged EXCEPT ![p] = None]
    /\ rollback' = [rollback EXCEPT ![p] = None]
    /\ Goto(p, Updated(p))
    /\ UNCHANGED <<platform, published, version, genuine, protected, reported, target,
                   image, kind, choice, crashes, seen, orphans>>

\* CleanupPreviousExecutable returns at once: nothing is recovered here.
UnixCleanup(p) ==
    /\ Unix /\ At(p, "start")
    /\ Goto(p, "ready")
    /\ UNCHANGED <<platform, published, version, genuine, protected, reported, target,
                   image, kind, choice, staged, crashes, faults, unixVars>>

\* replaceExecutable: copy the staged bytes into a fresh sibling, hash the
\* copy, give it the installed executable's mode and authenticate it again.
UnixAuthenticate(p) ==
    /\ Unix /\ At(p, "staged")
    /\ \/ /\ protected' = protected \cup {staged[p]}
          /\ Goto(p, "bind")
          /\ NoFault
          /\ UNCHANGED <<platform, published, version, genuine, reported, target, image,
                         kind, choice, staged, crashes, unixVars>>
       \/ Fault /\ UnixAbort(p)

\* commitAuthenticatedUnixReplacement on Linux: a link to the open copy is
\* created in the private directory and its staging name is removed; the
\* entry has to be the authenticated object, with that one name.
UnixBindByLink(p) ==
    /\ platform = "linux" /\ At(p, "bind")
    /\ \/ /\ Links(staged[p]) = 1
          /\ Goto(p, "inspect")
          /\ NoFault
          /\ UNCHANGED <<platform, published, version, genuine, protected, reported, target,
                         image, kind, choice, staged, crashes, unixVars>>
       \/ Fault /\ UnixAbort(p)

\* commitAuthenticatedUnixReplacementByCopy on macOS and the BSDs: the bytes
\* are copied once more into an entry of the private directory, and that copy
\* takes the place of the first one.
UnixBindByCopy(p) ==
    /\ platform = "bsd" /\ At(p, "bind")
    /\ \/ /\ Links(staged[p]) = 1
          /\ Goto(p, "inspect")
          /\ NoFault
          /\ UNCHANGED <<platform, published, version, genuine, protected, reported, target,
                         image, kind, choice, staged, crashes, unixVars>>
       \/ Fault /\ UnixAbort(p)

\* commitVerifiedUnixEntry, first observation of the original target.
UnixInspect(p) ==
    /\ Unix /\ At(p, "inspect")
    /\ \/ /\ target # None
          /\ seen' = [seen EXCEPT ![p] = <<target, Links(target)>>]
          /\ Goto(p, "retain")
          /\ UNCHANGED <<platform, published, version, genuine, protected, reported, target,
                         image, kind, choice, staged, crashes, faults, rollback, orphans>>
       \/ target = None /\ NoFault /\ UnixAbort(p)

\* The retained link is the object seen before, with one link more than then.
SameOriginal(p) == target # None /\ seen[p] = <<target, Links(target)>>

\* Linkat and the second observation: whatever changed in between (another
\* image, another link) refuses the commit.
UnixRetain(p) ==
    /\ Unix /\ At(p, "retain")
    /\ \/ /\ SameOriginal(p)
          /\ rollback' = [rollback EXCEPT ![p] = target]
          /\ Goto(p, "commit")
          /\ UNCHANGED <<platform, published, version, genuine, protected, reported, target,
                         image, kind, choice, staged, crashes, faults, seen, orphans>>
       \/ /\ ~SameOriginal(p)
          /\ NoFault
          /\ UnixAbort(p)

\* Renameat: the entry replaces whatever the canonical name holds by now.
UnixCommit(p) ==
    /\ Unix /\ At(p, "commit")
    /\ \/ /\ target' = staged[p]
          /\ Goto(p, "check")
          /\ NoFault
          /\ UNCHANGED <<platform, published, version, genuine, protected, reported,
                         image, kind, choice, staged, crashes, unixVars>>
       \/ Fault /\ UnixAbort(p)

\* authenticateCanonicalUnixReplacement: the canonical name holds the
\* authenticated object, which has no other name.
Authentic(p) == target = staged[p] /\ Links(staged[p]) = 1

\* The first and the second authentication after the rename.
UnixCheck(p) ==
    /\ Unix /\ At(p, "check")
    /\ \/ Authentic(p) /\ Goto(p, "recheck") /\ NoFault
       \/ ~Authentic(p) /\ Goto(p, "displace") /\ NoFault
       \/ Fault /\ Goto(p, "displace")
    /\ UNCHANGED <<platform, published, version, genuine, protected, reported, target,
                   image, kind, choice, staged, crashes, unixVars>>

UnixRecheck(p) ==
    /\ Unix /\ At(p, "recheck")
    /\ \/ /\ Authentic(p)
          /\ reported' = reported \cup {staged[p]}
          /\ staged' = [staged EXCEPT ![p] = None]
          /\ rollback' = [rollback EXCEPT ![p] = None]
          /\ Goto(p, Updated(p))
       \/ /\ ~Authentic(p)
          /\ Goto(p, "displace")
          /\ UNCHANGED <<reported, staged, rollback>>
    /\ UNCHANGED <<platform, published, version, genuine, protected, target,
                   image, kind, choice, crashes, faults, seen, orphans>>

\* restoreOriginalUnixTarget: the canonical name is moved away and removed,
\* whatever it holds.
UnixDisplace(p) ==
    /\ Unix /\ At(p, "displace")
    /\ target' = None
    /\ Goto(p, "restore")
    /\ UNCHANGED <<platform, published, version, genuine, protected, reported, image, kind,
                   choice, staged, crashes, faults, unixVars>>

\* MUTANT of UnixRestore: the retained link is removed after a failed rename.
UnixRestoreDropsEvidence(p) ==
    /\ Unix /\ At(p, "restore")
    /\ \/ target' = rollback[p] /\ NoFault
       \/ Fault /\ UNCHANGED target
    /\ rollback' = [rollback EXCEPT ![p] = None]
    /\ staged' = [staged EXCEPT ![p] = None]
    /\ Goto(p, Updated(p))
    /\ UNCHANGED <<platform, published, version, genuine, protected, reported, image,
                   kind, choice, crashes, seen, orphans>>

\* The retained original takes the canonical name.  When that rename fails
\* the entry is kept as evidence in the private directory.
UnixRestore(p) ==
    /\ Unix /\ At(p, "restore")
    /\ \/ /\ target' = rollback[p]
          /\ NoFault
          /\ UNCHANGED orphans
       \/ /\ Fault
          /\ orphans' = [orphans EXCEPT ![rollback[p]] = @ + 1]
          /\ UNCHANGED target
    /\ rollback' = [rollback EXCEPT ![p] = None]
    /\ staged' = [staged EXCEPT ![p] = None]
    /\ Goto(p, Updated(p))
    /\ UNCHANGED <<platform, published, version, genuine, protected, reported, image, kind,
                   choice, crashes, seen>>

\* A process dies; its private names stay behind.
UnixCrash(p) ==
    /\ Unix /\ ~At(p, "off")
    /\ crashes < MaxCrashes /\ crashes' = crashes + 1
    /\ orphans' = [i \in Image |-> orphans[i] + (IF rollback[p] = i THEN 1 ELSE 0)]
    /\ rollback' = [rollback EXCEPT ![p] = None]
    /\ staged' = [staged EXCEPT ![p] = None]
    /\ image' = [image EXCEPT ![p] = None]
    /\ Goto(p, "off")
    /\ UNCHANGED <<platform, published, version, genuine, protected, reported, target, kind,
                   choice, faults, seen>>

UnixNext(p) ==
    \/ UnixCleanup(p) \/ UnixAuthenticate(p) \/ UnixBindByLink(p) \/ UnixBindByCopy(p)
    \/ UnixInspect(p) \/ UnixRetain(p) \/ UnixCommit(p) \/ UnixCheck(p)
    \/ UnixRecheck(p) \/ UnixDisplace(p) \/ UnixRestore(p) \/ UnixCrash(p)
=============================================================================
