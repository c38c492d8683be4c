----------------------------- MODULE BundleRun -----------------------------
(***************************************************************************)
(* The driver's bundle as commands fetch, keep, unpack, use and sweep it   *)
(* (compiler/.../NativeBundle.java: verified, kept, fetched, unpacked,     *)
(* abandonedIn; Holding.java).  Several processes share the cache          *)
(* directory, one process may have several uses of it                      *)
(* (NativeCompiler.releasedDriver), and any of them may end at any step.   *)
(*                                                                         *)
(* A use makes at most one directory under run/, so the use names it.      *)
(* The lock of a directory is the platform's, held by a process and not by *)
(* a channel: every platform of PLATFORMS lets go of a process's lock on a *)
(* file when any channel of the process on that file is closed.            *)
(***************************************************************************)
EXTENDS Integers, FiniteSets

CONSTANTS
    Use,        \* the uses of the driver, each a command or a releasedDriver
    Process,    \* the processes
    ProcessOf,  \* the process each use is of
    Sticky,     \* the uses of whose files the disk may keep some from deletion
    None        \* no process, no directory

ASSUME ProcessAssumption == ProcessOf \in [Use -> Process]
ASSUME StickyAssumption == Sticky \subseteq Use
ASSUME NoneAssumption == None \notin Process /\ None \notin Use

VARIABLES
    kept,       \* the bundle in the cache: "absent", "good" or "changed"
    partial,    \* the uses whose .partial file is on the disk
    pc,         \* where each use stands
    bytes,      \* the bytes each use read or fetched
    dirs,       \* the directories under run/
    content,    \* what each directory holds: its lock file, the unpacked files
    image,      \* the bytes each use's driver was unpacked from, while it has one
    settled,    \* the directories made longer ago than SETTLED
    lock,       \* the process holding each directory's lock
    todo,       \* the directories each use has listed and not looked at
    at,         \* the directory each use's sweep is at
    listed,     \* what that sweep's walk of it found
    stuck       \* history: the uses the disk kept from deleting what they made

vars == <<kept, partial, pc, bytes, dirs, content, image, settled, lock, todo, at, listed, stuck>>
cache == <<kept, partial, bytes>>
runs == <<dirs, content, image, settled, lock, stuck>>
sweep == <<todo, at, listed>>

Init ==
    /\ kept = "absent"
    /\ partial = {}
    /\ pc = [u \in Use |-> "idle"]
    /\ bytes = [u \in Use |-> "none"]
    /\ dirs = {}
    /\ content = [u \in Use |-> {}]
    /\ image = [u \in Use |-> "none"]
    /\ settled = {}
    /\ lock = [u \in Use |-> None]
    /\ todo = [u \in Use |-> {}]
    /\ at = [u \in Use |-> None]
    /\ listed = [u \in Use |-> {}]
    /\ stuck = {}

Goes(u, from, to) == pc[u] = from /\ pc' = [pc EXCEPT ![u] = to]
P(u) == ProcessOf[u]
Over(u) == pc[u] \in {"done", "failed", "crashed"}

-----------------------------------------------------------------------------
(* verified: kept, and fetched where it is not.                            *)

\* Files.isRegularFile
LookKept(u) ==
    /\ pc[u] = "idle"
    /\ IF kept = "absent" THEN Goes(u, "idle", "missing") ELSE Goes(u, "idle", "there")
    /\ UNCHANGED <<cache, runs, sweep>>

\* Files.readAllBytes: gone since it was looked for, the use is refused.
ReadKept(u) ==
    /\ pc[u] = "there"
    /\ IF kept = "absent"
       THEN Goes(u, "there", "failed") /\ UNCHANGED bytes
       ELSE Goes(u, "there", "hashing") /\ bytes' = [bytes EXCEPT ![u] = kept]
    /\ UNCHANGED <<kept, partial, runs, sweep>>

\* What was read is held to its checksum, and deleted where it does not match;
\* deleted by another already, the use is refused.
CheckKept(u) ==
    /\ pc[u] = "hashing"
    /\ IF bytes[u] = "good" THEN Goes(u, "hashing", "verified") /\ UNCHANGED kept
       ELSE IF kept = "absent" THEN Goes(u, "hashing", "failed") /\ UNCHANGED kept
       ELSE Goes(u, "hashing", "missing") /\ kept' = "absent"
    /\ UNCHANGED <<partial, bytes, runs, sweep>>

\* Offline, not downloaded, or not what the checksum says: refused, and not kept.
Refuse(u) ==
    /\ Goes(u, "missing", "failed")
    /\ UNCHANGED <<cache, runs, sweep>>

\* Downloaded, held to the checksum, and written beside where it is kept.
Fetch(u) ==
    /\ Goes(u, "missing", "keeping")
    /\ bytes' = [bytes EXCEPT ![u] = "good"]
    /\ partial' = partial \cup {u}
    /\ UNCHANGED <<kept, runs, sweep>>

\* The atomic move, or its failure.  The partial file is let go of either way,
\* and that may fail as well: the use is refused, and the file left where it
\* was not moved.
Keep(u, moved, deleted) ==
    /\ u \notin Sticky => deleted
    /\ Goes(u, "keeping", IF moved /\ deleted THEN "verified" ELSE "failed")
    /\ kept' = IF moved THEN "good" ELSE kept
    /\ partial' = IF moved \/ deleted THEN partial \ {u} ELSE partial
    /\ stuck' = IF moved \/ deleted THEN stuck ELSE stuck \cup {u}
    /\ UNCHANGED <<bytes, dirs, content, image, settled, lock, sweep>>

-----------------------------------------------------------------------------
(* abandonedIn.                                                            *)

\* What stands under run/ is listed.
List(u) ==
    /\ Goes(u, "verified", "sweeping")
    /\ todo' = [todo EXCEPT ![u] = dirs]
    /\ UNCHANGED <<cache, runs, at, listed>>

Skip(u, d) == todo' = [todo EXCEPT ![u] = @ \ {d}] /\ UNCHANGED <<pc, at, listed>>

\* Mutant of Asked: a directory is asked about whatever its age.
AskedAtAnyAge(d) == d \in dirs

\* A directory that is gone or young is passed over.
Asked(d) == d \in dirs /\ d \in settled

\* A directory with no lock file was made by a process that ended before it was
\* locked; the lock file of another is opened.
Look(u, d) ==
    /\ pc[u] = "sweeping"
    /\ d \in todo[u]
    /\ IF ~Asked(d) THEN Skip(u, d)
       ELSE /\ at' = [at EXCEPT ![u] = d]
            /\ todo' = [todo EXCEPT ![u] = @ \ {d}]
            /\ Goes(u, "sweeping", IF "lock" \in content[d] THEN "trying" ELSE "walking")
            /\ UNCHANGED listed
    /\ UNCHANGED <<cache, runs>>

\* The virtual machine of a process knows a lock of its own on the file.
Overlaps(u, d) ==
    \E v \in Use : /\ P(v) = P(u)
                   /\ \/ v = d /\ pc[v] \in {"locked", "running", "releasing"}
                      \/ v # u /\ at[v] = d /\ pc[v] \in {"walking", "deleting"}

\* Closing a channel lets go of the process's lock on its file.
Closed(u, d) == [lock EXCEPT ![d] = IF @ = P(u) THEN None ELSE @]

\* Mutant of TryLock: the lock is waited for.
TryLockWaiting(u) ==
    LET d == at[u] IN
    /\ pc[u] = "trying"
    /\ lock[d] \in {None, P(u)}
    /\ Goes(u, "trying", "walking")
    /\ lock' = [lock EXCEPT ![d] = P(u)]
    /\ UNCHANGED <<cache, todo, at, listed, dirs, content, image, settled, stuck>>

\* channel.tryLock(): held by another process, or by this one, the directory is
\* passed over and the channel closed.
TryLock(u) ==
    LET d == at[u] IN
    /\ pc[u] = "trying"
    /\ IF Overlaps(u, d) \/ lock[d] \notin {None, P(u)}
       THEN /\ Goes(u, "trying", "sweeping")
            /\ lock' = Closed(u, d)
            /\ at' = [at EXCEPT ![u] = None]
       ELSE /\ Goes(u, "trying", "walking")
            /\ lock' = [lock EXCEPT ![d] = P(u)]
            /\ UNCHANGED at
    /\ UNCHANGED <<cache, todo, listed, dirs, content, image, settled, stuck>>

\* delete: what the directory holds is listed first.
Walk(u) ==
    /\ Goes(u, "walking", "deleting")
    /\ listed' = [listed EXCEPT ![u] = content[at[u]]]
    /\ UNCHANGED <<cache, runs, todo, at>>

\* What was found in a directory is deleted, its files and then its lock file,
\* up to the first the disk will not let go of; and the directory, where it
\* holds nothing else and the disk lets go of it.
Ends(found) == {{}, found \cap {"files"}, found}

Deletes(d, found, gone, whole) ==
    /\ whole => gone = found
    /\ d \notin dirs \cap Sticky => whole
    /\ content' = [content EXCEPT ![d] = @ \ gone]
    /\ dirs' = IF whole /\ content[d] \subseteq gone THEN dirs \ {d} ELSE dirs
    /\ settled' = settled \cap dirs'

\* A directory that is not wholly deleted is left, and asked about again later.
\* A lock taken is released and its channel closed.
Delete(u, gone, whole) ==
    LET d == at[u] IN
    /\ Goes(u, "deleting", "sweeping")
    /\ Deletes(d, listed[u], gone, whole)
    /\ lock' = Closed(u, d)
    /\ at' = [at EXCEPT ![u] = None]
    /\ listed' = [listed EXCEPT ![u] = {}]
    /\ UNCHANGED <<cache, image, stuck, todo>>

-----------------------------------------------------------------------------
(* unpacked, and what its Holding lets go of, the last first.              *)

\* Files.createTempDirectory, owned from here on.
MakeDirectory(u) ==
    /\ Goes(u, "sweeping", "made")
    /\ todo[u] = {}
    /\ dirs' = dirs \cup {u}
    /\ UNCHANGED <<cache, content, image, settled, lock, stuck, sweep>>

\* FileChannel.open(CREATE_NEW)
MakeLock(u) ==
    /\ pc[u] = "made"
    /\ IF u \in dirs
       THEN Goes(u, "made", "locking") /\ content' = [content EXCEPT ![u] = {"lock"}]
       ELSE Goes(u, "made", "dropping") /\ UNCHANGED content
    /\ UNCHANGED <<cache, dirs, image, settled, lock, stuck, sweep>>

\* channel.lock() waits for another process.
Lock(u) ==
    /\ Goes(u, "locking", "locked")
    /\ lock[u] = None
    /\ lock' = [lock EXCEPT ![u] = P(u)]
    /\ UNCHANGED <<cache, dirs, content, image, settled, stuck, sweep>>

\* Mutant of Unpacks: the kept bundle is read again.
UnpacksKept(u) == kept

\* What is unpacked is what was hashed.
Unpacks(u) == bytes[u]

\* The three files are written, where the directory still stands; or some of
\* them are, or none.
Unpack(u, some, wrote) ==
    /\ Goes(u, "locked", IF wrote THEN "running" ELSE "releasing")
    /\ wrote => some
    /\ some => u \in dirs
    /\ content' = [content EXCEPT ![u] = IF some THEN @ \cup {"files"} ELSE @]
    /\ image' = [image EXCEPT ![u] = IF wrote THEN Unpacks(u) ELSE @]
    /\ bytes' = [bytes EXCEPT ![u] = "none"]
    /\ UNCHANGED <<kept, partial, dirs, settled, lock, stuck, sweep>>

\* The use has no more need of the driver: the directory is deleted while it is
\* locked.
LetGo(u) ==
    /\ Goes(u, "running", "releasing")
    /\ UNCHANGED <<cache, runs, sweep>>

\* Mutant of Release: the lock is released and the directory left.
ReleaseOnly(u, gone, whole) ==
    /\ Goes(u, "releasing", "done")
    /\ lock' = Closed(u, u)
    /\ UNCHANGED <<cache, dirs, content, image, settled, stuck, sweep>>

\* Mutant of Release: a deletion that fails ends the letting go.
ReleaseStopping(u, gone, whole) ==
    /\ Goes(u, "releasing", IF whole /\ image[u] # "none" THEN "done" ELSE "failed")
    /\ Deletes(u, content[u], gone, whole)
    /\ lock' = IF whole THEN Closed(u, u) ELSE lock
    /\ UNCHANGED <<cache, image, stuck, sweep>>

\* The directory is deleted; then, whether it was or not, the lock is released
\* and the channel closed.  A directory that was not is still to be let go of.
Release(u, gone, whole) ==
    /\ Goes(u, "releasing", IF ~whole THEN "dropping"
                            ELSE IF image[u] = "none" THEN "failed" ELSE "done")
    /\ Deletes(u, content[u], gone, whole)
    /\ image' = [image EXCEPT ![u] = "none"]
    /\ lock' = Closed(u, u)
    /\ UNCHANGED <<cache, stuck, sweep>>

\* A directory never locked, or not deleted while it was, is let go of last.
\* What the disk will not let go of then stays.
Drop(u, gone, whole) ==
    /\ Goes(u, "dropping", "failed")
    /\ Deletes(u, content[u], gone, whole)
    /\ stuck' = IF whole THEN stuck ELSE stuck \cup {u}
    /\ UNCHANGED <<cache, image, lock, sweep>>

\* Making the directory's lock fails on the disk's side, or the command does.
MakeLockFails(u) ==
    /\ Goes(u, "made", "dropping")
    /\ UNCHANGED <<cache, runs, sweep>>

-----------------------------------------------------------------------------
(* The platform.                                                           *)

\* A process ends with what it was doing undone: its locks go, its files stay.
Crash(p) ==
    /\ \E u \in Use : P(u) = p /\ ~Over(u)
    /\ pc' = [u \in Use |-> IF P(u) = p /\ ~Over(u) THEN "crashed" ELSE pc[u]]
    /\ lock' = [d \in Use |-> IF lock[d] = p THEN None ELSE lock[d]]
    /\ bytes' = [u \in Use |-> IF P(u) = p THEN "none" ELSE bytes[u]]
    /\ image' = [u \in Use |-> IF P(u) = p THEN "none" ELSE image[u]]
    /\ todo' = [u \in Use |-> IF P(u) = p THEN {} ELSE todo[u]]
    /\ at' = [u \in Use |-> IF P(u) = p THEN None ELSE at[u]]
    /\ listed' = [u \in Use |-> IF P(u) = p THEN {} ELSE listed[u]]
    /\ UNCHANGED <<kept, partial, dirs, content, settled, stuck>>

\* A directory comes of age.  SETTLED is "long enough that a directory is
\* locked before anyone asks", so not one between its making and its lock.
Settle(d) ==
    /\ d \in dirs \ settled
    /\ pc[d] \notin {"made", "locking"}
    /\ settled' = settled \cup {d}
    /\ UNCHANGED <<cache, pc, dirs, content, image, lock, stuck, sweep>>

\* The disk, or another process, changes what is kept.
Change ==
    /\ kept = "good"
    /\ kept' = "changed"
    /\ UNCHANGED <<partial, bytes, pc, runs, sweep>>

-----------------------------------------------------------------------------

\* What a use does by itself until it has its driver or has none.
Step(u) ==
    /\ pc[u] \notin {"idle", "running"} /\ ~Over(u)
    /\ \/ ReadKept(u) \/ CheckKept(u) \/ Refuse(u) \/ Fetch(u)
       \/ \E moved, deleted \in BOOLEAN : Keep(u, moved, deleted)
       \/ List(u) \/ (\E d \in todo[u] : Look(u, d)) \/ TryLock(u) \/ Walk(u)
       \/ \E gone \in Ends(listed[u]), whole \in BOOLEAN : Delete(u, gone, whole)
       \/ MakeDirectory(u) \/ MakeLock(u) \/ MakeLockFails(u) \/ Lock(u)
       \/ \E some, wrote \in BOOLEAN : Unpack(u, some, wrote)
       \/ \E gone \in Ends(content[u]), whole \in BOOLEAN :
               Release(u, gone, whole) \/ Drop(u, gone, whole)

Ended == (\A u \in Use : Over(u)) /\ UNCHANGED vars

Next ==
    \/ \E u \in Use : LookKept(u) \/ Step(u) \/ LetGo(u) \/ Settle(u)
    \/ \E p \in Process : Crash(p)
    \/ Change
    \/ Ended

\* A process that is running a use goes on with it.  When a use begins, when
\* its driver is done with, and whether a process ends is nobody's promise.
Fairness == \A u \in Use : WF_vars(Step(u))

Spec == Init /\ [][Next]_vars /\ Fairness

-----------------------------------------------------------------------------

\* A driver in use stands: its directory, its lock file and its files are there
\* for as long as the use runs, whatever other commands sweep, crash or let go
\* ("One left by a process that did not end cleanly is deleted by another once
\* its lock can be taken, which is only once nothing holds it").
InUseStands ==
    \A u \in Use : pc[u] = "running" => u \in dirs /\ content[u] = {"lock", "files"}

\* "A directory's user holds its lock for as long as it uses it, whatever its
\* age" (NativeBundle.java, abandonedIn).
LockedWhileUsed ==
    \A u \in Use : pc[u] = "running" => lock[u] = P(u)

\* "What runs is what was hashed": no change of the kept bundle, before, between
\* or after the reads of any use, reaches a driver that runs.
RunsWhatWasHashed ==
    \A u \in Use : pc[u] = "running" => image[u] = "good"

\* What is on the disk has an owner: a directory or a partial file is one of a
\* use still at work, or was left by a process that ended without it or by a
\* disk that would not let go of it.  Holding.close lets go of what is left
\* after a failure ("A failure to let go of one does not stop the others"), so
\* a directory the disk keeps once, while it is locked, is asked for again.
LeftByACrashOrTheDisk ==
    \A u \in dirs \cup partial :
        pc[u] \in {"done", "failed"} => pc[u] = "failed" /\ u \in stuck

\* What a use left can be swept: wherever its process ended, and whatever
\* failed while it was let go of, nobody holds the lock of its directory but a
\* sweep that is deleting it.  A lock left on it would keep every later command
\* from it for as long as that process runs.
LeftCanBeSwept ==
    \A d \in dirs :
        Over(d) => \/ lock[d] = None
                   \/ \E v \in Use : /\ at[v] = d
                                     /\ pc[v] \in {"walking", "deleting"}
                                     /\ P(v) = lock[d]

\* A use that has begun comes to its driver or to a refusal: no lock of another
\* keeps it waiting for ever, however long the uses beside it run.
UseComesToAnEnd ==
    \A u \in Use : pc[u] # "idle" ~> pc[u] = "running" \/ Over(u)
=============================================================================
