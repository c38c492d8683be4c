-------------------------- MODULE BundleRun_proofs --------------------------
(***************************************************************************)
(* For any number of commands: what BundleRun.cfg checks for three.        *)
(*                                                                         *)
(* The inductive invariant has five parts.  Hashed, Owned and LockHeld     *)
(* hold of every assignment of uses to processes.  Guarded is about        *)
(* directories that are locked, and needs that no process has two uses of  *)
(* the bundle: the platform's lock is a process's, which BundleShared.cfg  *)
(* shows for one that has.                                                 *)
(***************************************************************************)
EXTENDS BundleRun, TLAPS

Phase == {"idle", "there", "missing", "hashing", "keeping", "verified", "sweeping", "trying",
          "walking", "deleting", "made", "locking", "locked", "running", "releasing", "dropping",
          "done", "failed", "crashed"}
Bytes == {"none", "good", "changed"}
Part == {"lock", "files"}

\* What each variable holds; a sweep that has come to a directory is at one.
TypeOK ==
    /\ kept \in {"absent", "good", "changed"}
    /\ partial \subseteq Use
    /\ pc \in [Use -> Phase]
    /\ bytes \in [Use -> Bytes]
    /\ dirs \subseteq Use
    /\ content \in [Use -> SUBSET Part]
    /\ image \in [Use -> Bytes]
    /\ settled \subseteq Use
    /\ lock \in [Use -> Process \cup {None}]
    /\ todo \in [Use -> SUBSET Use]
    /\ at \in [Use -> Use \cup {None}]
    /\ listed \in [Use -> SUBSET Part]
    /\ stuck \subseteq Use
    /\ \A u \in Use : pc[u] \in {"trying", "walking", "deleting"} => at[u] \in Use

\* From its check to its unpacking a use holds the bytes it checked.
Hashed ==
    \A u \in Use :
        /\ pc[u] \in {"keeping", "verified", "sweeping", "trying", "walking", "deleting",
                      "made", "locking", "locked"} => bytes[u] = "good"
        /\ pc[u] = "running" => image[u] = "good"

\* Which uses may have a file or a directory of theirs on the disk.
Owned ==
    /\ \A u \in partial : \/ pc[u] \in {"keeping", "crashed"}
                          \/ pc[u] = "failed" /\ u \in stuck
    /\ \A u \in dirs : \/ pc[u] \in {"made", "locking", "locked", "running", "releasing",
                                     "dropping", "crashed"}
                       \/ pc[u] = "failed" /\ u \in stuck

\* No process has two uses of the bundle.
OneUseEach == \A u, v \in Use : ProcessOf[u] = ProcessOf[v] => u = v

Holds(u) == pc[u] \in {"locked", "running", "releasing"}

\* Who has a lock: the use whose directory it is on, or a sweep deleting it.
Swept(d, p) == \E v \in Use : at[v] = d /\ pc[v] \in {"walking", "deleting"} /\ P(v) = p

LockHeld ==
    \A d \in Use : \/ lock[d] = None
                   \/ Holds(d) /\ lock[d] = P(d)
                   \/ Swept(d, lock[d])

\* A directory comes of age only once its use has locked it or is over
\* (AgedAfterLock).  A sweep is never at its own directory, and only at one
\* that came of age (SweepsTheAged).  So while a use holds its directory's lock
\* (LocksItsOwn) and its lock file stands (LockFileStands), a sweep that goes
\* on to delete a directory found its use without (SweepsTheFree).
Aged == {"locked", "running", "releasing", "dropping", "done", "failed", "crashed"}

AgedAfterLock == \A u \in settled : pc[u] \in Aged

SweepsTheAged ==
    \A u \in Use :
        /\ u \notin todo[u] /\ at[u] # u
        /\ pc[u] \in {"trying", "walking", "deleting"} => pc[at[u]] \in Aged

LocksItsOwn == \A u \in Use : Holds(u) => lock[u] = P(u)

LockFileStands ==
    \A u \in Use :
        /\ Holds(u) \/ pc[u] = "locking" => u \in dirs /\ "lock" \in content[u]
        /\ pc[u] \in {"locking", "locked"} => content[u] = {"lock"}
        /\ pc[u] = "running" => content[u] = {"lock", "files"}

SweepsTheFree ==
    \A v \in Use : pc[v] \in {"walking", "deleting"} => ~Holds(at[v])

Guarded ==
    /\ AgedAfterLock
    /\ SweepsTheAged
    /\ LocksItsOwn
    /\ LockFileStands
    /\ SweepsTheFree

-----------------------------------------------------------------------------
(* The parts that hold of any processes.                                   *)

\* Each step keeps the types.
LEMMA TypeStep ==
    ASSUME TypeOK, [Next]_vars
    PROVE  TypeOK'
  <1> USE ProcessAssumption, NoneAssumption DEF TypeOK, Phase, Bytes, Part, Goes, P, cache, runs, sweep
  <1>1. ASSUME NEW u \in Use, LookKept(u)
        PROVE  TypeOK'
    BY <1>1 DEF LookKept
  <1>2. ASSUME NEW u \in Use, ReadKept(u)
        PROVE  TypeOK'
    BY <1>2 DEF ReadKept
  <1>3. ASSUME NEW u \in Use, CheckKept(u)
        PROVE  TypeOK'
    BY <1>3 DEF CheckKept
  <1>4. ASSUME NEW u \in Use, Refuse(u)
        PROVE  TypeOK'
    BY <1>4 DEF Refuse
  <1>5. ASSUME NEW u \in Use, Fetch(u)
        PROVE  TypeOK'
    BY <1>5 DEF Fetch
  <1>6. ASSUME NEW u \in Use, NEW moved \in BOOLEAN, NEW deleted \in BOOLEAN, Keep(u, moved, deleted)
        PROVE  TypeOK'
    BY <1>6 DEF Keep
  <1>7. ASSUME NEW u \in Use, List(u)
        PROVE  TypeOK'
    BY <1>7 DEF List
  <1>8. ASSUME NEW u \in Use, NEW d \in todo[u], Look(u, d)
        PROVE  TypeOK'
    BY <1>8 DEF Look, Skip, Asked
  <1>9. ASSUME NEW u \in Use, TryLock(u)
        PROVE  TypeOK'
    BY <1>9 DEF TryLock, Closed
  <1>10. ASSUME NEW u \in Use, Walk(u)
        PROVE  TypeOK'
    BY <1>10 DEF Walk
  <1>11. ASSUME NEW u \in Use, NEW gone \in Ends(listed[u]), NEW whole \in BOOLEAN,
                Delete(u, gone, whole)
        PROVE  TypeOK'
    BY <1>11 DEF Delete, Deletes, Ends, Closed
  <1>12. ASSUME NEW u \in Use, MakeDirectory(u)
        PROVE  TypeOK'
    BY <1>12 DEF MakeDirectory
  <1>13. ASSUME NEW u \in Use, MakeLock(u)
        PROVE  TypeOK'
    BY <1>13 DEF MakeLock
  <1>14. ASSUME NEW u \in Use, Lock(u)
        PROVE  TypeOK'
    BY <1>14 DEF Lock
  <1>15. ASSUME NEW u \in Use, NEW some \in BOOLEAN, NEW wrote \in BOOLEAN,
                Unpack(u, some, wrote)
        PROVE  TypeOK'
    BY <1>15 DEF Unpack, Unpacks
  <1>16. ASSUME NEW u \in Use, LetGo(u)
        PROVE  TypeOK'
    BY <1>16 DEF LetGo
  <1>17. ASSUME NEW u \in Use, NEW gone \in Ends(content[u]), NEW whole \in BOOLEAN,
                Release(u, gone, whole)
        PROVE  TypeOK'
    BY <1>17 DEF Release, Deletes, Ends, Closed
  <1>18. ASSUME NEW u \in Use, NEW gone \in Ends(content[u]), NEW whole \in BOOLEAN,
                Drop(u, gone, whole)
        PROVE  TypeOK'
    BY <1>18 DEF Drop, Deletes, Ends
  <1>19. ASSUME NEW u \in Use, MakeLockFails(u)
        PROVE  TypeOK'
    BY <1>19 DEF MakeLockFails
  <1>20. ASSUME NEW u \in Use, Settle(u)
        PROVE  TypeOK'
    BY <1>20 DEF Settle
  <1>21. ASSUME NEW p \in Process, Crash(p)
        PROVE  TypeOK'
    BY <1>21 DEF Crash, Over
  <1>22. CASE Change
    BY <1>22 DEF Change
  <1>23. CASE UNCHANGED vars
    BY <1>23 DEF vars
  <1> QED BY <1>1, <1>2, <1>3, <1>4, <1>5, <1>6, <1>7, <1>8, <1>9, <1>10, <1>11, <1>12, <1>13, <1>14, <1>15, <1>16, <1>17, <1>18, <1>19, <1>20, <1>21, <1>22, <1>23, SMTT(30) DEF Next, Step, Ended

\* No step brings a use past its check with other bytes than those it checked.
LEMMA HashedStep ==
    ASSUME TypeOK, Hashed, [Next]_vars
    PROVE  Hashed'
  <1> USE DEF Hashed, TypeOK, Phase, Bytes, Goes, P, cache, runs, sweep
  <1>1. ASSUME NEW u \in Use, LookKept(u)
        PROVE  Hashed'
    BY <1>1 DEF LookKept
  <1>2. ASSUME NEW u \in Use, ReadKept(u)
        PROVE  Hashed'
    BY <1>2 DEF ReadKept
  <1>3. ASSUME NEW u \in Use, CheckKept(u)
        PROVE  Hashed'
    BY <1>3 DEF CheckKept
  <1>4. ASSUME NEW u \in Use, Refuse(u)
        PROVE  Hashed'
    BY <1>4 DEF Refuse
  <1>5. ASSUME NEW u \in Use, Fetch(u)
        PROVE  Hashed'
    BY <1>5 DEF Fetch
  <1>6. ASSUME NEW u \in Use, NEW moved \in BOOLEAN, NEW deleted \in BOOLEAN, Keep(u, moved, deleted)
        PROVE  Hashed'
    BY <1>6 DEF Keep
  <1>7. ASSUME NEW u \in Use, List(u)
        PROVE  Hashed'
    BY <1>7 DEF List
  <1>8. ASSUME NEW u \in Use, NEW d \in todo[u], Look(u, d)
        PROVE  Hashed'
    BY <1>8 DEF Look, Skip, Asked
  <1>9. ASSUME NEW u \in Use, TryLock(u)
        PROVE  Hashed'
    BY <1>9 DEF TryLock, Closed
  <1>10. ASSUME NEW u \in Use, Walk(u)
        PROVE  Hashed'
    BY <1>10 DEF Walk
  <1>11. ASSUME NEW u \in Use, NEW gone \in Ends(listed[u]), NEW whole \in BOOLEAN,
                Delete(u, gone, whole)
        PROVE  Hashed'
    BY <1>11 DEF Delete, Deletes, Ends, Closed
  <1>12. ASSUME NEW u \in Use, MakeDirectory(u)
        PROVE  Hashed'
    BY <1>12 DEF MakeDirectory
  <1>13. ASSUME NEW u \in Use, MakeLock(u)
        PROVE  Hashed'
    BY <1>13 DEF MakeLock
  <1>14. ASSUME NEW u \in Use, Lock(u)
        PROVE  Hashed'
    BY <1>14 DEF Lock
  <1>15. ASSUME NEW u \in Use, NEW some \in BOOLEAN, NEW wrote \in BOOLEAN,
                Unpack(u, some, wrote)
        PROVE  Hashed'
    BY <1>15 DEF Unpack, Unpacks
  <1>16. ASSUME NEW u \in Use, LetGo(u)
        PROVE  Hashed'
    BY <1>16 DEF LetGo
  <1>17. ASSUME NEW u \in Use, NEW gone \in Ends(content[u]), NEW whole \in BOOLEAN,
                Release(u, gone, whole)
        PROVE  Hashed'
    BY <1>17 DEF Release, Deletes, Ends, Closed
  <1>18. ASSUME NEW u \in Use, NEW gone \in Ends(content[u]), NEW whole \in BOOLEAN,
                Drop(u, gone, whole)
        PROVE  Hashed'
    BY <1>18 DEF Drop, Deletes, Ends
  <1>19. ASSUME NEW u \in Use, MakeLockFails(u)
        PROVE  Hashed'
    BY <1>19 DEF MakeLockFails
  <1>20. ASSUME NEW u \in Use, Settle(u)
        PROVE  Hashed'
    BY <1>20 DEF Settle
  <1>21. ASSUME NEW p \in Process, Crash(p)
        PROVE  Hashed'
    BY <1>21 DEF Crash, Over
  <1>22. CASE Change
    BY <1>22 DEF Change
  <1>23. CASE UNCHANGED vars
    BY <1>23 DEF vars
  <1> QED BY <1>1, <1>2, <1>3, <1>4, <1>5, <1>6, <1>7, <1>8, <1>9, <1>10, <1>11, <1>12, <1>13, <1>14, <1>15, <1>16, <1>17, <1>18, <1>19, <1>20, <1>21, <1>22, <1>23 DEF Next, Step, Ended

\* No step leaves a use done or refused with anything of its own on the disk.
LEMMA OwnedStep ==
    ASSUME TypeOK, Owned, [Next]_vars
    PROVE  Owned'
  <1> USE DEF Owned, TypeOK, Phase, Goes, P, cache, runs, sweep
  <1>1. ASSUME NEW u \in Use, LookKept(u)
        PROVE  Owned'
    BY <1>1 DEF LookKept
  <1>2. ASSUME NEW u \in Use, ReadKept(u)
        PROVE  Owned'
    BY <1>2 DEF ReadKept
  <1>3. ASSUME NEW u \in Use, CheckKept(u)
        PROVE  Owned'
    BY <1>3 DEF CheckKept
  <1>4. ASSUME NEW u \in Use, Refuse(u)
        PROVE  Owned'
    BY <1>4 DEF Refuse
  <1>5. ASSUME NEW u \in Use, Fetch(u)
        PROVE  Owned'
    BY <1>5 DEF Fetch
  <1>6. ASSUME NEW u \in Use, NEW moved \in BOOLEAN, NEW deleted \in BOOLEAN, Keep(u, moved, deleted)
        PROVE  Owned'
    BY <1>6 DEF Keep
  <1>7. ASSUME NEW u \in Use, List(u)
        PROVE  Owned'
    BY <1>7 DEF List
  <1>8. ASSUME NEW u \in Use, NEW d \in todo[u], Look(u, d)
        PROVE  Owned'
    BY <1>8 DEF Look, Skip, Asked
  <1>9. ASSUME NEW u \in Use, TryLock(u)
        PROVE  Owned'
    BY <1>9 DEF TryLock, Closed
  <1>10. ASSUME NEW u \in Use, Walk(u)
        PROVE  Owned'
    BY <1>10 DEF Walk
  <1>11. ASSUME NEW u \in Use, NEW gone \in Ends(listed[u]), NEW whole \in BOOLEAN,
                Delete(u, gone, whole)
        PROVE  Owned'
    BY <1>11 DEF Delete, Deletes, Ends, Closed
  <1>12. ASSUME NEW u \in Use, MakeDirectory(u)
        PROVE  Owned'
    BY <1>12 DEF MakeDirectory
  <1>13. ASSUME NEW u \in Use, MakeLock(u)
        PROVE  Owned'
    BY <1>13 DEF MakeLock
  <1>14. ASSUME NEW u \in Use, Lock(u)
        PROVE  Owned'
    BY <1>14 DEF Lock
  <1>15. ASSUME NEW u \in Use, NEW some \in BOOLEAN, NEW wrote \in BOOLEAN,
                Unpack(u, some, wrote)
        PROVE  Owned'
    BY <1>15 DEF Unpack, Unpacks
  <1>16. ASSUME NEW u \in Use, LetGo(u)
        PROVE  Owned'
    BY <1>16 DEF LetGo
  <1>17. ASSUME NEW u \in Use, NEW gone \in Ends(content[u]), NEW whole \in BOOLEAN,
                Release(u, gone, whole)
        PROVE  Owned'
    BY <1>17 DEF Release, Deletes, Ends, Closed
  <1>18. ASSUME NEW u \in Use, NEW gone \in Ends(content[u]), NEW whole \in BOOLEAN,
                Drop(u, gone, whole)
        PROVE  Owned'
    BY <1>18 DEF Drop, Deletes, Ends
  <1>19. ASSUME NEW u \in Use, MakeLockFails(u)
        PROVE  Owned'
    BY <1>19 DEF MakeLockFails
  <1>20. ASSUME NEW u \in Use, Settle(u)
        PROVE  Owned'
    BY <1>20 DEF Settle
  <1>21. ASSUME NEW p \in Process, Crash(p)
        PROVE  Owned'
    BY <1>21 DEF Crash, Over
  <1>22. CASE Change
    BY <1>22 DEF Change
  <1>23. CASE UNCHANGED vars
    BY <1>23 DEF vars
  <1> QED BY <1>1, <1>2, <1>3, <1>4, <1>5, <1>6, <1>7, <1>8, <1>9, <1>10, <1>11, <1>12, <1>13, <1>14, <1>15, <1>16, <1>17, <1>18, <1>19, <1>20, <1>21, <1>22, <1>23 DEF Next, Step, Ended

\* Every lock is given back by whoever took it, also where a deletion failed.
LEMMA LockHeldStep ==
    ASSUME TypeOK, LockHeld, [Next]_vars
    PROVE  LockHeld'
  <1> USE ProcessAssumption, NoneAssumption DEF LockHeld, Swept, Holds, TypeOK, Phase, Goes, P, cache, runs, sweep
  <1>1. ASSUME NEW u \in Use, LookKept(u)
        PROVE  LockHeld'
    BY <1>1 DEF LookKept
  <1>2. ASSUME NEW u \in Use, ReadKept(u)
        PROVE  LockHeld'
    BY <1>2 DEF ReadKept
  <1>3. ASSUME NEW u \in Use, CheckKept(u)
        PROVE  LockHeld'
    BY <1>3 DEF CheckKept
  <1>4. ASSUME NEW u \in Use, Refuse(u)
        PROVE  LockHeld'
    BY <1>4 DEF Refuse
  <1>5. ASSUME NEW u \in Use, Fetch(u)
        PROVE  LockHeld'
    BY <1>5 DEF Fetch
  <1>6. ASSUME NEW u \in Use, NEW moved \in BOOLEAN, NEW deleted \in BOOLEAN, Keep(u, moved, deleted)
        PROVE  LockHeld'
    BY <1>6 DEF Keep
  <1>7. ASSUME NEW u \in Use, List(u)
        PROVE  LockHeld'
    BY <1>7 DEF List
  <1>8. ASSUME NEW u \in Use, NEW d \in todo[u], Look(u, d)
        PROVE  LockHeld'
    BY <1>8 DEF Look, Skip, Asked
  <1>9. ASSUME NEW u \in Use, TryLock(u)
        PROVE  LockHeld'
    BY <1>9 DEF TryLock, Closed
  <1>10. ASSUME NEW u \in Use, Walk(u)
        PROVE  LockHeld'
    BY <1>10 DEF Walk
  <1>11. ASSUME NEW u \in Use, NEW gone \in Ends(listed[u]), NEW whole \in BOOLEAN,
                Delete(u, gone, whole)
        PROVE  LockHeld'
    BY <1>11 DEF Delete, Deletes, Ends, Closed
  <1>12. ASSUME NEW u \in Use, MakeDirectory(u)
        PROVE  LockHeld'
    BY <1>12 DEF MakeDirectory
  <1>13. ASSUME NEW u \in Use, MakeLock(u)
        PROVE  LockHeld'
    BY <1>13 DEF MakeLock
  <1>14. ASSUME NEW u \in Use, Lock(u)
        PROVE  LockHeld'
    BY <1>14 DEF Lock
  <1>15. ASSUME NEW u \in Use, NEW some \in BOOLEAN, NEW wrote \in BOOLEAN,
                Unpack(u, some, wrote)
        PROVE  LockHeld'
    BY <1>15 DEF Unpack, Unpacks
  <1>16. ASSUME NEW u \in Use, LetGo(u)
        PROVE  LockHeld'
    BY <1>16 DEF LetGo
  <1>17. ASSUME NEW u \in Use, NEW gone \in Ends(content[u]), NEW whole \in BOOLEAN,
                Release(u, gone, whole)
        PROVE  LockHeld'
    BY <1>17 DEF Release, Deletes, Ends, Closed
  <1>18. ASSUME NEW u \in Use, NEW gone \in Ends(content[u]), NEW whole \in BOOLEAN,
                Drop(u, gone, whole)
        PROVE  LockHeld'
    BY <1>18 DEF Drop, Deletes, Ends
  <1>19. ASSUME NEW u \in Use, MakeLockFails(u)
        PROVE  LockHeld'
    BY <1>19 DEF MakeLockFails
  <1>20. ASSUME NEW u \in Use, Settle(u)
        PROVE  LockHeld'
    BY <1>20 DEF Settle
  <1>21. ASSUME NEW p \in Process, Crash(p)
        PROVE  LockHeld'
    BY <1>21 DEF Crash, Over
  <1>22. CASE Change
    BY <1>22 DEF Change
  <1>23. CASE UNCHANGED vars
    BY <1>23 DEF vars
  <1> QED BY <1>1, <1>2, <1>3, <1>4, <1>5, <1>6, <1>7, <1>8, <1>9, <1>10, <1>11, <1>12, <1>13, <1>14, <1>15, <1>16, <1>17, <1>18, <1>19, <1>20, <1>21, <1>22, <1>23 DEF Next, Step, Ended

-----------------------------------------------------------------------------
(* Directories in use, where no process has two uses.                      *)

\* Each step keeps what guards a directory in use.
LEMMA GuardedStep ==
    ASSUME OneUseEach, TypeOK, Owned, Guarded, [Next]_vars
    PROVE  Guarded'
  <1> USE OneUseEach, ProcessAssumption, NoneAssumption DEF OneUseEach, Goes, Guarded, AgedAfterLock, SweepsTheAged, Aged, LocksItsOwn, LockFileStands, SweepsTheFree, Holds, Owned, TypeOK, Phase, Part, P, cache, runs, sweep
  <1>1. ASSUME NEW u \in Use, LookKept(u)
        PROVE  Guarded'
    BY <1>1 DEF LookKept
  <1>2. ASSUME NEW u \in Use, ReadKept(u)
        PROVE  Guarded'
    BY <1>2 DEF ReadKept
  <1>3. ASSUME NEW u \in Use, CheckKept(u)
        PROVE  Guarded'
    BY <1>3 DEF CheckKept
  <1>4. ASSUME NEW u \in Use, Refuse(u)
        PROVE  Guarded'
    BY <1>4 DEF Refuse
  <1>5. ASSUME NEW u \in Use, Fetch(u)
        PROVE  Guarded'
    BY <1>5 DEF Fetch
  <1>6. ASSUME NEW u \in Use, NEW moved \in BOOLEAN, NEW deleted \in BOOLEAN, Keep(u, moved, deleted)
        PROVE  Guarded'
    BY <1>6 DEF Keep
  <1>7. ASSUME NEW u \in Use, List(u)
        PROVE  Guarded'
    BY <1>7 DEF List
  <1>8. ASSUME NEW u \in Use, NEW d \in todo[u], Look(u, d)
        PROVE  Guarded'
    BY <1>8, SMTT(30) DEF Look, Skip, Asked
  <1>9. ASSUME NEW u \in Use, TryLock(u)
        PROVE  Guarded'
    BY <1>9 DEF TryLock, Closed
  <1>10. ASSUME NEW u \in Use, Walk(u)
        PROVE  Guarded'
    BY <1>10 DEF Walk
  <1>11. ASSUME NEW u \in Use, NEW gone \in Ends(listed[u]), NEW whole \in BOOLEAN,
                Delete(u, gone, whole)
        PROVE  Guarded'
    BY <1>11 DEF Delete, Deletes, Ends, Closed
  <1>12. ASSUME NEW u \in Use, MakeDirectory(u)
        PROVE  Guarded'
    BY <1>12 DEF MakeDirectory
  <1>13. ASSUME NEW u \in Use, MakeLock(u)
        PROVE  Guarded'
    BY <1>13 DEF MakeLock
  <1>14. ASSUME NEW u \in Use, Lock(u)
        PROVE  Guarded'
    BY <1>14, SMTT(30) DEF Lock
  <1>15. ASSUME NEW u \in Use, NEW some \in BOOLEAN, NEW wrote \in BOOLEAN,
                Unpack(u, some, wrote)
        PROVE  Guarded'
    BY <1>15, SMTT(30) DEF Unpack, Unpacks
  <1>16. ASSUME NEW u \in Use, LetGo(u)
        PROVE  Guarded'
    BY <1>16 DEF LetGo
  <1>17. ASSUME NEW u \in Use, NEW gone \in Ends(content[u]), NEW whole \in BOOLEAN,
                Release(u, gone, whole)
        PROVE  Guarded'
    BY <1>17 DEF Release, Deletes, Ends, Closed
  <1>18. ASSUME NEW u \in Use, NEW gone \in Ends(content[u]), NEW whole \in BOOLEAN,
                Drop(u, gone, whole)
        PROVE  Guarded'
    BY <1>18 DEF Drop, Deletes, Ends
  <1>19. ASSUME NEW u \in Use, MakeLockFails(u)
        PROVE  Guarded'
    BY <1>19 DEF MakeLockFails
  <1>20. ASSUME NEW u \in Use, Settle(u)
        PROVE  Guarded'
    BY <1>20 DEF Settle
  <1>21. ASSUME NEW p \in Process, Crash(p)
        PROVE  Guarded'
    BY <1>21 DEF Crash, Over
  <1>22. CASE Change
    BY <1>22 DEF Change
  <1>23. CASE UNCHANGED vars
    BY <1>23 DEF vars
  <1> QED BY <1>1, <1>2, <1>3, <1>4, <1>5, <1>6, <1>7, <1>8, <1>9, <1>10, <1>11, <1>12, <1>13, <1>14, <1>15, <1>16, <1>17, <1>18, <1>19, <1>20, <1>21, <1>22, <1>23, SMTT(30) DEF Next, Step, Ended

-----------------------------------------------------------------------------
(* The theorems.                                                           *)

IInv == TypeOK /\ Hashed /\ Owned /\ LockHeld

\* Whatever processes fetch, sweep, crash and let go.
LEMMA InvariantHolds == Spec => []IInv
  <1>1. Init => IInv
    BY DEF Init, IInv, TypeOK, Hashed, Owned, LockHeld, Phase, Bytes, Part
  <1>2. IInv /\ [Next]_vars => IInv'
    BY TypeStep, HashedStep, OwnedStep, LockHeldStep DEF IInv
  <1> QED BY <1>1, <1>2, PTL DEF Spec

\* "What runs is what was hashed", for any number of uses and processes,
\* several uses of one process among them (NativeBundle.java, unpacked).
THEOREM RunsTheHashed == Spec => []RunsWhatWasHashed
  <1>1. IInv => RunsWhatWasHashed
    BY DEF IInv, Hashed, RunsWhatWasHashed
  <1> QED BY <1>1, InvariantHolds, PTL

\* A use that ended with its driver leaves neither a directory nor a partial
\* file, and one refused leaves one only where the disk kept it from deleting it
\* at its last attempt (NativeBundle.java, fetched and unpacked; Holding.java).
THEOREM LeavesNothing == Spec => []LeftByACrashOrTheDisk
  <1>1. IInv => LeftByACrashOrTheDisk
    BY DEF IInv, Owned, LeftByACrashOrTheDisk
  <1> QED BY <1>1, InvariantHolds, PTL

\* Nobody holds the lock of a directory whose use is over but a sweep that is
\* deleting it, whatever failed and crashed before (NativeBundle.java, unpacked
\* and abandonedIn: the lock is released in a finally).
THEOREM LeftIsFree == Spec => []LeftCanBeSwept
  <1>1. IInv => LeftCanBeSwept
    BY DEF IInv, TypeOK, LockHeld, Swept, Holds, Over, LeftCanBeSwept
  <1> QED BY <1>1, InvariantHolds, PTL

\* Where no process has two uses of the bundle, a directory in use stands with
\* its files and is locked by its user, whatever the others sweep
\* (NativeBundle.java, abandonedIn).
THEOREM UsedStands ==
    ASSUME OneUseEach
    PROVE  Spec => [](InUseStands /\ LockedWhileUsed)
  <1>1. Init => Guarded
    BY NoneAssumption DEF Init, Guarded, AgedAfterLock, SweepsTheAged, LocksItsOwn,
                          LockFileStands, SweepsTheFree, Holds, Aged
  <1>2. IInv /\ Guarded /\ [Next]_vars => Guarded'
    BY OneUseEach, GuardedStep DEF IInv
  <1>3. Guarded => InUseStands /\ LockedWhileUsed
    BY DEF Guarded, LocksItsOwn, LockFileStands, Holds, InUseStands, LockedWhileUsed
  <1> QED BY <1>1, <1>2, <1>3, InvariantHolds, PTL DEF Spec

=============================================================================
