-------------------------- MODULE RefreshLock_proofs --------------------------
(***************************************************************************)
(* Theorems about RefreshLock, for every set of processes and inodes and   *)
(* every bound.                                                            *)
(***************************************************************************)
EXTENDS RefreshLock, TLAPS, FiniteSetTheorems

\* Every call has an owner token of its own, taken from those issued.
OwnersDistinct ==
    /\ \A p \in Proc : pc[p] # "idle" => owner[p] \in 1 .. (nextOwner - 1)
    /\ \A p, q \in Proc :
          pc[p] # "idle" /\ pc[q] # "idle" /\ owner[p] = owner[q] => p = q

FileOwnerIssued == lockFile # NoFile => lockFile.owner < nextOwner

\* Before the first removal by a reaper, the lock file of a holder stays.
HoldersKeepFile == breaks = 0 => \A p \in Holders : OwnsFile(p)

IInv == TypeOK /\ OwnersDistinct /\ FileOwnerIssued /\ HoldersKeepFile

USE DEF PC, Holding, LockFile

LEMMA InitIInv == Init => IInv
BY ConstantsOK DEF Init, IInv, TypeOK, OwnersDistinct, FileOwnerIssued,
   HoldersKeepFile, Holders, OwnsFile

(***************************************************************************)
(* The type invariant: every step keeps each variable in its type.         *)
(***************************************************************************)
LEMMA ReturnTypes ==
    ASSUME TypeOK, NEW p \in Proc, Return(p)
    PROVE  /\ pc' \in [Proc -> PC]
           /\ owner' \in [Proc -> Nat]
           /\ inode' \in [Proc -> Inode \cup {NoInode}]
           /\ deadlinePassed' \in [Proc -> BOOLEAN]
<1>1. pc' \in [Proc -> PC] /\ owner' \in [Proc -> Nat]
  BY DEF TypeOK, Return, Goto
<1>2. inode' \in [Proc -> Inode \cup {NoInode}]
  BY DEF TypeOK, Return
<1>3. deadlinePassed' \in [Proc -> BOOLEAN]
  BY Zenon DEF TypeOK, Return
<1> QED
  BY <1>1, <1>2, <1>3

LEMMA TypeStep == TypeOK /\ OwnersDistinct /\ [Next]_vars => TypeOK'
<1> SUFFICES ASSUME TypeOK, OwnersDistinct, [Next]_vars PROVE TypeOK'
  OBVIOUS
<1> USE DEF TypeOK, Goto, OwnsFile, FileIsStale
<1>1. ASSUME NEW p \in Proc, BeginAcquire(p) PROVE TypeOK'
  BY <1>1 DEF BeginAcquire
<1>2. ASSUME NEW p \in Proc, AcquireStep(p) PROVE TypeOK'
  <2>1. CASE OpenCreates(p)
    BY <2>1 DEF OpenCreates, OwnersDistinct
  <2>2. CASE OpenFindsFile(p) \/ TimesOut(p)
    BY <2>2, ReturnTypes DEF OpenFindsFile, TimesOut
  <2>3. CASE WriteOwner(p)
    BY <2>3 DEF WriteOwner
  <2>4. CASE StatFindsFreshOrGone(p) \/ StatFindsStale(p)
    BY <2>4 DEF StatFindsFreshOrGone, StatFindsStale
  <2>5. CASE BreakStaleLock(p)
    BY <2>5 DEF BreakStaleLock
  <2> QED
    BY <1>2, <2>1, <2>2, <2>3, <2>4, <2>5 DEF AcquireStep
<1>3. ASSUME NEW p \in Proc, ReleaseStep(p) PROVE TypeOK'
  BY <1>3, ReturnTypes DEF ReleaseStep, ReleaseReadsOwner, ReleaseFindsOtherOwner,
     ReleaseChecksInode, ReleaseFindsOtherInode, ReleaseUnlinks
<1>4. ASSUME NEW p \in Proc, IOFails(p) \/ ReapFails(p) \/ Crash(p)
      PROVE  TypeOK'
  BY <1>4, ReturnTypes DEF IOFails, ReapFails, Crash, Fault
<1>5. ASSUME NEW p \in Proc, DeadlinePasses(p) PROVE TypeOK'
  BY <1>5 DEF DeadlinePasses
<1>6. CASE FileGoesStale
  BY <1>6 DEF FileGoesStale
<1>7. CASE UNCHANGED vars
  BY <1>7 DEF vars
<1> QED
  BY <1>1, <1>2, <1>3, <1>4, <1>5, <1>6, <1>7 DEF Next

(***************************************************************************)
(* Owner tokens are never shared and never run ahead of nextOwner.         *)
(***************************************************************************)
LEMMA OwnersStep ==
    TypeOK /\ OwnersDistinct /\ [Next]_vars => OwnersDistinct'
<1> SUFFICES ASSUME TypeOK, OwnersDistinct, [Next]_vars
             PROVE  OwnersDistinct'
  OBVIOUS
<1> USE DEF TypeOK, OwnersDistinct, Goto, Return
<1>1. ASSUME NEW p \in Proc, BeginAcquire(p) PROVE OwnersDistinct'
  BY <1>1 DEF BeginAcquire
<1>2. ASSUME NEW p \in Proc, AcquireStep(p) PROVE OwnersDistinct'
  BY <1>2 DEF AcquireStep, OpenCreates, OpenFindsFile, TimesOut, WriteOwner,
     StatFindsFreshOrGone, StatFindsStale, BreakStaleLock
<1>3. ASSUME NEW p \in Proc, ReleaseStep(p) PROVE OwnersDistinct'
  BY <1>3 DEF ReleaseStep, ReleaseReadsOwner, ReleaseFindsOtherOwner,
     ReleaseChecksInode, ReleaseFindsOtherInode, ReleaseUnlinks
<1>4. ASSUME NEW p \in Proc, IOFails(p) \/ ReapFails(p) \/ Crash(p)
      PROVE  OwnersDistinct'
  BY <1>4 DEF IOFails, ReapFails, Crash
<1>5. ASSUME NEW p \in Proc, DeadlinePasses(p) PROVE OwnersDistinct'
  BY <1>5 DEF DeadlinePasses
<1>6. CASE FileGoesStale \/ UNCHANGED vars
  BY <1>6 DEF FileGoesStale, vars
<1> QED
  BY <1>1, <1>2, <1>3, <1>4, <1>5, <1>6 DEF Next

LEMMA FileOwnerStep ==
    TypeOK /\ OwnersDistinct /\ FileOwnerIssued /\ [Next]_vars
        => FileOwnerIssued'
<1> SUFFICES ASSUME TypeOK, OwnersDistinct, FileOwnerIssued, [Next]_vars
             PROVE  FileOwnerIssued'
  OBVIOUS
<1> USE DEF TypeOK, FileOwnerIssued
<1>1. ASSUME NEW p \in Proc, OpenCreates(p) PROVE FileOwnerIssued'
  BY <1>1, ConstantsOK DEF OpenCreates, OwnersDistinct
<1>2. ASSUME NEW p \in Proc, WriteOwner(p) PROVE FileOwnerIssued'
  BY <1>2, ConstantsOK DEF WriteOwner, OwnsFile
<1>3. CASE FileGoesStale
  BY <1>3, ConstantsOK DEF FileGoesStale
<1>4. ASSUME NEW p \in Proc,
             BreakStaleLock(p) \/ ReleaseUnlinks(p)
      PROVE  FileOwnerIssued'
  BY <1>4 DEF BreakStaleLock, ReleaseUnlinks
<1>5. ASSUME lockFile' = lockFile, nextOwner' \in {nextOwner, nextOwner + 1}
      PROVE  FileOwnerIssued'
  BY <1>5, ConstantsOK
<1> QED
  BY <1>1, <1>2, <1>3, <1>4, <1>5
     DEF Next, vars, BeginAcquire, AcquireStep, OpenFindsFile, TimesOut,
         StatFindsFreshOrGone, StatFindsStale, ReleaseStep, ReleaseReadsOwner,
         ReleaseFindsOtherOwner, ReleaseChecksInode, ReleaseFindsOtherInode,
         IOFails, ReapFails, Crash, DeadlinePasses

(***************************************************************************)
(* Nobody but a reaper takes a holder's file away.  The only other removal *)
(* is ReleaseUnlinks(p), and while breaks = 0 the file it removes is p's   *)
(* own, hence no other holder's.                                           *)
(***************************************************************************)
LEMMA KeepStep == IInv /\ [Next]_vars => HoldersKeepFile'
<1> SUFFICES ASSUME IInv, [Next]_vars, breaks' = 0,
                    NEW h \in Proc, pc'[h] \in Holding
             PROVE  OwnsFile(h)'
  BY DEF HoldersKeepFile, Holders
<1> USE DEF IInv, TypeOK, OwnsFile
<1>0. breaks = 0
  BY DEF Next, vars, BeginAcquire, AcquireStep, OpenCreates, OpenFindsFile,
     TimesOut, WriteOwner, StatFindsFreshOrGone, StatFindsStale,
     BreakStaleLock, ReleaseStep, ReleaseReadsOwner, ReleaseFindsOtherOwner,
     ReleaseChecksInode, ReleaseFindsOtherInode, ReleaseUnlinks,
     IOFails, ReapFails, Crash, DeadlinePasses, FileGoesStale
<1>1. pc[h] \in Holding => lockFile # NoFile /\ lockFile.owner = owner[h]
  BY <1>0 DEF HoldersKeepFile, Holders
<1>2. ASSUME NEW p \in Proc, OpenCreates(p) PROVE OwnsFile(h)'
  <2>1. lockFile' # NoFile /\ lockFile'.owner = owner[p]
    <3>1. PICK i \in Inode :
            lockFile' = [ino |-> i, owner |-> owner[p],
                         written |-> FALSE, stale |-> FALSE]
      BY <1>2 DEF OpenCreates
    <3>2. owner[p] \in Nat \ {0}
      BY <1>2 DEF OpenCreates, OwnersDistinct
    <3>3. lockFile' \in LockFile
      BY <3>1, <3>2
    <3> QED
      BY <3>1, <3>3, ConstantsOK
  <2>2. h = p
    BY <1>1, <1>2 DEF OpenCreates, Goto
  <2> QED
    BY <1>2, <2>1, <2>2 DEF OpenCreates
<1>3. ASSUME NEW p \in Proc, WriteOwner(p) PROVE OwnsFile(h)'
  BY <1>1, <1>3, ConstantsOK DEF WriteOwner, Goto
<1>4. ASSUME NEW p \in Proc, ReleaseUnlinks(p) PROVE OwnsFile(h)'
  <2>1. pc[h] \in Holding /\ h # p
    BY <1>4 DEF ReleaseUnlinks, Return, Goto
  <2>2. lockFile # NoFile /\ lockFile.owner = owner[p]
    BY <1>0, <1>4 DEF ReleaseUnlinks, HoldersKeepFile, Holders
  <2> QED
    BY <1>1, <1>4, <2>1, <2>2 DEF ReleaseUnlinks, OwnersDistinct
<1>5. ASSUME NEW p \in Proc, BreakStaleLock(p) PROVE OwnsFile(h)'
  BY <1>0, <1>1, <1>5 DEF BreakStaleLock, Goto
<1>6. CASE FileGoesStale
  BY <1>1, <1>6, ConstantsOK DEF FileGoesStale
<1>7. ASSUME NEW p \in Proc,
             \/ BeginAcquire(p) \/ OpenFindsFile(p) \/ TimesOut(p)
             \/ StatFindsFreshOrGone(p) \/ StatFindsStale(p)
             \/ IOFails(p) \/ ReapFails(p) \/ Crash(p) \/ DeadlinePasses(p)
      PROVE  OwnsFile(h)'
  BY <1>1, <1>7 DEF BeginAcquire, OpenFindsFile, TimesOut,
     StatFindsFreshOrGone, StatFindsStale, IOFails, ReapFails, Crash,
     DeadlinePasses, Return, Goto
<1>8. ASSUME NEW p \in Proc,
             \/ ReleaseReadsOwner(p) \/ ReleaseFindsOtherOwner(p)
             \/ ReleaseChecksInode(p) \/ ReleaseFindsOtherInode(p)
      PROVE  OwnsFile(h)'
  BY <1>1, <1>8 DEF ReleaseReadsOwner, ReleaseFindsOtherOwner,
     ReleaseChecksInode, ReleaseFindsOtherInode, Return, Goto
<1>9. CASE UNCHANGED vars
  BY <1>1, <1>9 DEF vars
<1> QED
  BY <1>2, <1>3, <1>4, <1>5, <1>6, <1>7, <1>8, <1>9
     DEF Next, AcquireStep, ReleaseStep

(***************************************************************************)
(* The inductive invariant, and the two properties it was made for.        *)
(***************************************************************************)
LEMMA StepIInv == IInv /\ [Next]_vars => IInv'
BY TypeStep, OwnersStep, FileOwnerStep, KeepStep DEF IInv

THEOREM Invariance == Spec => []IInv
BY InitIInv, StepIInv, PTL DEF Spec

\* Every reachable state is well typed, for all processes and bounds.
THEOREM TypeCorrect == Spec => []TypeOK
<1>1. IInv => TypeOK
  BY DEF IInv
<1> QED
  BY <1>1, Invariance, PTL

\* Until the stale reaper has removed a lock file, at most one process holds
\* the lock: two holders would both own the one file at lockPath, and owner
\* tokens are distinct.
THEOREM MutualExclusion == Spec => []ExclusiveUntilBroken
<1>1. IInv => ExclusiveUntilBroken
  BY DEF IInv, HoldersKeepFile, OwnersDistinct, ExclusiveUntilBroken,
     Holders, OwnsFile
<1> QED
  BY <1>1, Invariance, PTL

------------------------------------------------------------------------------
(***************************************************************************)
(* RefreshLock implements LeaseLock.  The mapping: the holders are the     *)
(* processes between the creation of their file and the end of their       *)
(* release, and the lapsed ones those whose file is no longer at lockPath. *)
(* A file has one owner, so a step that takes a file away takes the lease  *)
(* of at most one holder.                                                  *)
(***************************************************************************)

\* A step that leaves the holders and their files alone is a stutter.
LEMMA SameHolders ==
    ASSUME \A q \in Proc : pc'[q] \in Holding <=> pc[q] \in Holding,
           \A q \in Proc : pc[q] \in Holding => (OwnsFile(q)' <=> OwnsFile(q))
    PROVE  UNCHANGED <<Holders, Lapsed>>
BY DEF Holders, Lapsed

\* A call that ends without touching the file releases its hold, if any.
LEMMA ReturnIsRelease ==
    ASSUME IInv, NEW p \in Proc, Return(p), lockFile' = lockFile
    PROVE  Lease!Release(p) \/ UNCHANGED <<Holders, Lapsed>>
<1> USE DEF IInv, TypeOK, Return, Goto, OwnsFile
<1>1. CASE pc[p] \in Holding
  BY <1>1 DEF Lease!Release, Holders, Lapsed
<1>2. CASE pc[p] \notin Holding
  BY <1>2, SameHolders
<1> QED
  BY <1>1, <1>2

LEMMA CreateIsAcquire ==
    ASSUME IInv, NEW p \in Proc, OpenCreates(p)
    PROVE  Lease!Acquire(p)
<1> USE DEF IInv, TypeOK, OpenCreates, Goto
<1>1. Holders' = Holders \cup {p} /\ p \notin Holders
  BY DEF Holders
<1>2. Lapsed = Holders
  BY DEF Lapsed, OwnsFile
<1>3. PICK i \in Inode :
        lockFile' = [ino |-> i, owner |-> owner[p],
                     written |-> FALSE, stale |-> FALSE]
  OBVIOUS
<1>4. lockFile' # NoFile /\ lockFile'.owner = owner[p]
  <2>1. lockFile' \in LockFile
    BY <1>3 DEF OwnersDistinct
  <2> QED
    BY <1>3, <2>1, ConstantsOK
<1>5. \A q \in Holders' : OwnsFile(q)' <=> q = p
  BY <1>4 DEF OwnsFile, Holders, OwnersDistinct
<1>6. Lapsed' = Lapsed
  BY <1>1, <1>2, <1>5 DEF Lapsed
<1> QED
  BY <1>1, <1>2, <1>6 DEF Lease!Acquire

LEMMA BreakIsLapse ==
    ASSUME IInv, NEW p \in Proc, BreakStaleLock(p)
    PROVE  \/ \E q \in Proc : Lease!Lapse(q)
           \/ UNCHANGED <<Holders, Lapsed>>
<1> USE DEF IInv, TypeOK, BreakStaleLock, Goto
<1>1. Holders' = Holders /\ Lapsed' = Holders
  BY DEF Holders, Lapsed, OwnsFile
<1>2. CASE \E q \in Holders : OwnsFile(q)
  <2>1. PICK q \in Holders : OwnsFile(q)
    BY <1>2
  <2>2. Lapsed = Holders \ {q}
    BY <2>1 DEF Holders, Lapsed, OwnsFile, OwnersDistinct
  <2> QED
    BY <1>1, <2>1, <2>2 DEF Lease!Lapse, Holders
<1>3. CASE ~\E q \in Holders : OwnsFile(q)
  BY <1>1, <1>3 DEF Lapsed
<1> QED
  BY <1>2, <1>3

LEMMA UnlinkIsRelease ==
    ASSUME IInv, NEW p \in Proc, ReleaseUnlinks(p)
    PROVE  \/ Lease!Release(p)
           \/ \E q \in Proc : Lease!ReleaseAndLapse(p, q)
<1> USE DEF IInv, TypeOK, ReleaseUnlinks, Return, Goto
<1>1. p \in Holders /\ Holders' = Holders \ {p} /\ Lapsed' = Holders \ {p}
  BY DEF Holders, Lapsed, OwnsFile
<1>2. CASE \E q \in Holders \ {p} : OwnsFile(q)
  <2>1. PICK q \in Holders \ {p} : OwnsFile(q)
    BY <1>2
  <2>2. Lapsed = Holders \ {q}
    BY <2>1 DEF Holders, Lapsed, OwnsFile, OwnersDistinct
  <2> QED
    BY <1>1, <2>1, <2>2 DEF Lease!ReleaseAndLapse, Holders
<1>3. CASE ~\E q \in Holders \ {p} : OwnsFile(q)
  BY <1>1, <1>3 DEF Lapsed, Lease!Release
<1> QED
  BY <1>2, <1>3

\* Every other step ends a hold, takes a lease nobody has, or is a stutter.
LEMMA OtherStepRefines ==
    ASSUME IInv, [Next]_vars,
           \A p \in Proc : ~BreakStaleLock(p) /\ ~ReleaseUnlinks(p)
    PROVE  \/ \E p \in Proc : Lease!Acquire(p) \/ Lease!Release(p)
           \/ UNCHANGED <<Holders, Lapsed>>
<1> USE DEF IInv, TypeOK
<1>1. ASSUME NEW p \in Proc,
             \/ TimesOut(p) \/ ReleaseFindsOtherOwner(p)
             \/ ReleaseFindsOtherInode(p) \/ IOFails(p) \/ Crash(p)
      PROVE  Lease!Release(p) \/ UNCHANGED <<Holders, Lapsed>>
  BY <1>1, ReturnIsRelease
     DEF TimesOut, ReleaseFindsOtherOwner, ReleaseFindsOtherInode, IOFails,
         Crash
<1>2. ASSUME NEW p \in Proc,
             \/ BeginAcquire(p) \/ OpenFindsFile(p) \/ ReapFails(p)
             \/ StatFindsFreshOrGone(p) \/ StatFindsStale(p)
             \/ ReleaseReadsOwner(p) \/ ReleaseChecksInode(p)
             \/ DeadlinePasses(p)
      PROVE  UNCHANGED <<Holders, Lapsed>>
  BY <1>2, SameHolders
     DEF BeginAcquire, OpenFindsFile, ReapFails, StatFindsFreshOrGone,
         StatFindsStale, ReleaseReadsOwner, ReleaseChecksInode,
         DeadlinePasses, OwnsFile, Goto
<1>3. ASSUME NEW p \in Proc, WriteOwner(p)
      PROVE  UNCHANGED <<Holders, Lapsed>>
  <2>1. lockFile' = lockFile
        \/ /\ lockFile # NoFile /\ lockFile' # NoFile
           /\ lockFile'.owner = lockFile.owner
    BY <1>3, ConstantsOK DEF WriteOwner, OwnsFile
  <2> QED
    BY <1>3, <2>1, SameHolders DEF WriteOwner, OwnsFile, Goto
<1>4. CASE FileGoesStale
  <2>1. /\ lockFile # NoFile /\ lockFile' # NoFile
        /\ lockFile'.owner = lockFile.owner
    BY <1>4, ConstantsOK DEF FileGoesStale
  <2> QED
    BY <1>4, <2>1, SameHolders DEF FileGoesStale, OwnsFile
<1>5. CASE UNCHANGED vars
  BY <1>5, SameHolders DEF vars, OwnsFile
<1> QED
  BY <1>1, <1>2, <1>3, <1>4, <1>5, CreateIsAcquire
     DEF Next, AcquireStep, ReleaseStep

LEMMA StepRefines ==
    IInv /\ [Next]_vars => [Lease!LeaseNext]_(Lease!leaseVars)
<1> SUFFICES ASSUME IInv, [Next]_vars
             PROVE  Lease!LeaseNext \/ UNCHANGED <<Holders, Lapsed>>
  BY DEF Lease!leaseVars
<1> QED
  BY OtherStepRefines, BreakIsLapse, UnlinkIsRelease DEF Lease!LeaseNext

\* The lock file protocol is a lease lock: a process becomes a holder only
\* when every holder before it has released the lock or lost its file.
THEOREM LeaseRefinement == Spec => ImplementsLeaseLock
<1>1. Init => Lease!LeaseInit
  BY DEF Init, Lease!LeaseInit, Holders, Lapsed
<1> QED
  BY <1>1, StepRefines, Invariance, PTL
     DEF Spec, ImplementsLeaseLock, Lease!LeaseSpec

\* At most one process holds the lock with its own file at lockPath, with
\* however many crashes, errors, reused inodes and removals by reapers: the
\* lease that LeaseLock promises is never given twice.
THEOREM LiveLeaseUnique == Spec => []Lease!OneLiveLease
<1>1. IInv => Lease!OneLiveLease
  BY DEF IInv, OwnersDistinct, Lease!OneLiveLease, Holders, Lapsed, OwnsFile
<1> QED
  BY <1>1, Invariance, PTL

------------------------------------------------------------------------------
(***************************************************************************)
(* Each removal by a reaper costs at most one holder its file.  The set of *)
(* lapsed holders grows only in BreakStaleLock, which counts it; a release *)
(* that takes another holder's file is the release of a lapsed holder, so  *)
(* the set changes but its size does not.                                  *)
(***************************************************************************)
LEMMA BreakPaysForLapse ==
    ASSUME IInv, NEW p \in Proc, BreakStaleLock(p)
    PROVE  \/ Lapsed' = Lapsed /\ breaks' >= breaks
           \/ \E q : q \notin Lapsed /\ Lapsed' = Lapsed \cup {q}
                    /\ breaks' = breaks + 1
<1> USE DEF IInv, TypeOK
<1>1. Holders' = Holders /\ Lapsed' = Holders
  BY DEF BreakStaleLock, Goto, Holders, Lapsed, OwnsFile
<1>2. CASE \E q \in Holders : OwnsFile(q)
  <2>1. PICK q \in Holders : OwnsFile(q)
    BY <1>2
  <2>2. Lapsed = Holders \ {q}
    BY <2>1 DEF Holders, Lapsed, OwnsFile, OwnersDistinct
  <2>3. breaks' = breaks + 1
    BY <2>1 DEF BreakStaleLock, OwnsFile
  <2> QED
    BY <1>1, <2>1, <2>2, <2>3
<1>3. CASE ~\E q \in Holders : OwnsFile(q)
  BY <1>1, <1>3 DEF Lapsed, BreakStaleLock
<1> QED
  BY <1>2, <1>3

LEMMA UnlinkSwapsLapse ==
    ASSUME IInv, NEW p \in Proc, ReleaseUnlinks(p)
    PROVE  /\ breaks' = breaks
           /\ \/ Lapsed' = Lapsed \ {p}
              \/ /\ p \in Lapsed
                 /\ \E q : q \notin Lapsed /\ Lapsed' = (Lapsed \ {p}) \cup {q}
<1> USE DEF IInv, TypeOK
<1>1. p \in Holders /\ breaks' = breaks /\ Lapsed' = Holders \ {p}
  BY DEF ReleaseUnlinks, Return, Goto, Holders, Lapsed, OwnsFile
<1>2. CASE \E q \in Holders \ {p} : OwnsFile(q)
  <2>1. PICK q \in Holders \ {p} : OwnsFile(q)
    BY <1>2
  <2>2. Lapsed = Holders \ {q}
    BY <2>1 DEF Holders, Lapsed, OwnsFile, OwnersDistinct
  <2> QED
    BY <1>1, <2>1, <2>2
<1>3. CASE ~\E q \in Holders \ {p} : OwnsFile(q)
  BY <1>1, <1>3 DEF Lapsed
<1> QED
  BY <1>2, <1>3

Paid == IsFiniteSet(Lapsed) /\ Cardinality(Lapsed) <= breaks

LEMMA PaidStep == IInv /\ Paid /\ [Next]_vars => Paid'
<1> SUFFICES ASSUME IInv, Paid, [Next]_vars PROVE Paid'
  OBVIOUS
<1> USE DEF Paid
<1>0. /\ breaks \in Nat /\ breaks' \in Nat /\ Cardinality(Lapsed) \in Nat
      /\ IInv'
  BY StepIInv, FS_CardinalityType DEF IInv, TypeOK
<1>1. ASSUME Lapsed' \subseteq Lapsed, breaks' >= breaks PROVE Paid'
  BY <1>0, <1>1, FS_Subset, FS_CardinalityType
<1>2. ASSUME NEW p \in Proc, BreakStaleLock(p) PROVE Paid'
  <2>1. ASSUME NEW q, q \notin Lapsed, Lapsed' = Lapsed \cup {q},
               breaks' = breaks + 1
        PROVE  Paid'
    <3>1. IsFiniteSet(Lapsed') /\ Cardinality(Lapsed') = Cardinality(Lapsed) + 1
      BY <2>1, FS_AddElement
    <3> QED
      BY <1>0, <2>1, <3>1
  <2> QED
    BY <1>1, <1>2, <2>1, BreakPaysForLapse
<1>3. ASSUME NEW p \in Proc, ReleaseUnlinks(p) PROVE Paid'
  <2>1. ASSUME NEW q, p \in Lapsed, q \notin Lapsed,
               Lapsed' = (Lapsed \ {p}) \cup {q}, breaks' = breaks
        PROVE  Paid'
    <3> DEFINE R == Lapsed \ {p}
    <3>1. IsFiniteSet(R) /\ Cardinality(R) = Cardinality(Lapsed) - 1
      BY <2>1, FS_RemoveElement
    <3>2. IsFiniteSet(R \cup {q}) /\ Cardinality(R \cup {q}) = Cardinality(R) + 1
      BY <2>1, <3>1, FS_AddElement
    <3> QED
      BY <1>0, <2>1, <3>1, <3>2
  <2>2. CASE Lapsed' = Lapsed \ {p} /\ breaks' = breaks
    BY <1>0, <1>1, <2>2
  <2> QED
    BY <1>3, <2>1, <2>2, UnlinkSwapsLapse
<1>4. CASE \A p \in Proc : ~BreakStaleLock(p) /\ ~ReleaseUnlinks(p)
  <2>1. Lapsed' \subseteq Lapsed
    BY <1>4, OtherStepRefines DEF Lease!Acquire, Lease!Release
  <2>2. breaks' = breaks
    BY <1>4 DEF Next, vars, BeginAcquire, AcquireStep, OpenCreates,
       OpenFindsFile, TimesOut, WriteOwner, StatFindsFreshOrGone,
       StatFindsStale, ReleaseStep, ReleaseReadsOwner,
       ReleaseFindsOtherOwner, ReleaseChecksInode, ReleaseFindsOtherInode,
       IOFails, ReapFails, Crash, DeadlinePasses, FileGoesStale
  <2> QED
    BY <1>0, <1>1, <2>1, <2>2
<1> QED
  BY <1>2, <1>3, <1>4

\* However many processes crash, time out or release over each other, the
\* holders that lost their file never outnumber the files reapers removed.
THEOREM LapsesArePaid == Spec => []LapsesPaidByBreaks
<1>1. Init => Paid
  <2>1. Init => Lapsed = {}
    BY DEF Init, Lapsed, Holders
  <2> QED
    BY <2>1, FS_EmptySet DEF Paid, Init
<1>2. Paid => LapsesPaidByBreaks
  BY DEF Paid, LapsesPaidByBreaks
<1> QED
  BY <1>1, <1>2, PaidStep, Invariance, PTL DEF Spec
==============================================================================
