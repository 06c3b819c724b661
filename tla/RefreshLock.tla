----------------------------- MODULE RefreshLock -----------------------------
(***************************************************************************)
(* The cross-process lock of src/refresh-lock.ts: one lock file per        *)
(* account, created with O_EXCL, owned by a random token, reaped by        *)
(* whoever finds it older than staleMs, removed by its owner on release.   *)
(*                                                                         *)
(* Each action is one file-system call of acquireRefreshLock or            *)
(* releaseRefreshLock together with the code that runs up to the next      *)
(* await, so two processes interleave exactly where the code awaits.       *)
(*                                                                         *)
(* Time is abstract.  deadlinePassed[p] says that the timeoutMs of p's     *)
(* current call is over, and lockFile.stale that the file on disk is older *)
(* than staleMs.  SlowHolders says whether a live holder may outlast       *)
(* staleMs (a suspended process); when it is FALSE only a file whose       *)
(* creator is gone can go stale.                                           *)
(***************************************************************************)
EXTENDS Naturals, FiniteSets

CONSTANTS
    Proc,         \* the processes: OpenCode instances sharing one config dir
    Inode,        \* inode numbers; a freed one may be used again
    NoFile,       \* there is no file at lockPath
    NoInode,      \* the process has created no file
    SlowHolders,  \* may a live holder outlast staleMs?
    MaxAcquires,  \* bound: calls of acquireRefreshLock in a behaviour
    MaxFaults     \* bound: crashes inside a call, and file-system calls that
                  \* fail for a reason the protocol does not expect

VARIABLES
    pc,             \* where each process is in acquire / hold / release
    owner,          \* the random owner token of its current call, 0 if none
    inode,          \* lockInode: inode of the file it created
    deadlinePassed, \* is its deadline over?
    lockFile,       \* what is at lockPath
    nextOwner,      \* the next unused owner token
    breaks,         \* how many files the stale reaper has removed
    faults

vars == <<pc, owner, inode, deadlinePassed, lockFile, nextOwner, breaks,
          faults>>

\* owner is the token of the creating call; it can be read back only once
\* the content has been written.
LockFile == [ino: Inode, owner: Nat \ {0}, written: BOOLEAN, stale: BOOLEAN]

ASSUME ConstantsOK ==
    /\ NoFile \notin LockFile
    /\ NoInode \notin Inode
    /\ SlowHolders \in BOOLEAN
    /\ {MaxAcquires, MaxFaults} \subseteq Nat

\* Between the creation of its file and the end of its release.
Holding == {"write", "held", "checkInode", "unlink"}
PC == {"idle", "try", "stat", "break"} \cup Holding

Holders == {p \in Proc : pc[p] \in Holding}

\* lockPath leads to the file p created.
OwnsFile(p) == lockFile # NoFile /\ lockFile.owner = owner[p]

FileIsStale == lockFile # NoFile /\ lockFile.stale

FileHasInodeOf(p) == lockFile # NoFile /\ lockFile.ino = inode[p]

\* Holders whose file somebody else has removed.
Lapsed == {p \in Holders : ~OwnsFile(p)}

Init ==
    /\ pc = [p \in Proc |-> "idle"]
    /\ owner = [p \in Proc |-> 0]
    /\ inode = [p \in Proc |-> NoInode]
    /\ deadlinePassed = [p \in Proc |-> FALSE]
    /\ lockFile = NoFile
    /\ nextOwner = 1
    /\ breaks = 0
    /\ faults = 0

------------------------------------------------------------------------------
(* Steps a process takes.  Goto moves only the program counter.            *)

Goto(p, label) == pc' = [pc EXCEPT ![p] = label]

\* The call returns or throws: its token, inode and deadline go with it.
Return(p) ==
    /\ Goto(p, "idle")
    /\ owner' = [owner EXCEPT ![p] = 0]
    /\ inode' = [inode EXCEPT ![p] = NoInode]
    /\ deadlinePassed' = [deadlinePassed EXCEPT ![p] = FALSE]

BeginAcquire(p) ==
    /\ pc[p] = "idle"
    /\ nextOwner <= MaxAcquires
    /\ Goto(p, "try")
    /\ owner' = [owner EXCEPT ![p] = nextOwner]
    /\ nextOwner' = nextOwner + 1
    /\ UNCHANGED <<inode, deadlinePassed, lockFile, breaks, faults>>

\* Mutant: open("w"), which takes over a file that is there.
OpenCreates_NotExclusive(p) ==
    /\ pc[p] = "try" /\ ~deadlinePassed[p]
    /\ \E i \in Inode :
          /\ lockFile' = [ino |-> i, owner |-> owner[p],
                          written |-> FALSE, stale |-> FALSE]
          /\ inode' = [inode EXCEPT ![p] = i]
    /\ Goto(p, "write")
    /\ UNCHANGED <<owner, deadlinePassed, nextOwner, breaks, faults>>

\* The loop condition and open("wx") run in one tick, so open is the step
\* and the deadline is read in it.  An inode is free unless the file at
\* lockPath has it or a process still has it open.
OpenCreates(p) ==
    /\ pc[p] = "try" /\ ~deadlinePassed[p]
    /\ lockFile = NoFile
    /\ \E i \in Inode :
          /\ \A q \in Proc : pc[q] = "write" => inode[q] # i
          /\ lockFile' = [ino |-> i, owner |-> owner[p],
                          written |-> FALSE, stale |-> FALSE]
          /\ inode' = [inode EXCEPT ![p] = i]
    /\ Goto(p, "write")
    /\ UNCHANGED <<owner, deadlinePassed, nextOwner, breaks, faults>>

OpenFindsFile(p) ==
    /\ pc[p] = "try" /\ ~deadlinePassed[p]
    /\ lockFile # NoFile
    /\ Goto(p, "stat")
    /\ UNCHANGED <<owner, inode, deadlinePassed, lockFile, nextOwner, breaks,
                   faults>>

\* Mutant: a waiter that gives up clears the lock for the others.
TimesOut_ClearsLock(p) ==
    /\ pc[p] = "try" /\ deadlinePassed[p]
    /\ lockFile' = NoFile
    /\ Return(p)
    /\ UNCHANGED <<nextOwner, breaks, faults>>

TimesOut(p) ==
    /\ pc[p] = "try" /\ deadlinePassed[p]
    /\ Return(p)
    /\ UNCHANGED <<lockFile, nextOwner, breaks, faults>>

\* writeFile refreshes the mtime; if the file has been removed meanwhile it
\* goes to an inode that no path leads to.
WriteOwner(p) ==
    /\ pc[p] = "write"
    /\ Goto(p, "held")
    /\ lockFile' = IF OwnsFile(p)
                   THEN [lockFile EXCEPT !.written = TRUE, !.stale = FALSE]
                   ELSE lockFile
    /\ UNCHANGED <<owner, inode, deadlinePassed, nextOwner, breaks, faults>>

\* The age check of the file found in the way.  A fresh file, or one that
\* is gone by now, means a backoff and another round.
StatFindsFreshOrGone(p) ==
    /\ pc[p] = "stat"
    /\ ~FileIsStale
    /\ Goto(p, "try")
    /\ UNCHANGED <<owner, inode, deadlinePassed, lockFile, nextOwner, breaks,
                   faults>>

\* Mutant: a file without a readable owner is never reaped.
StatFindsStale_OnlyWritten(p) ==
    /\ pc[p] = "stat"
    /\ FileIsStale /\ lockFile.written
    /\ Goto(p, "break")
    /\ UNCHANGED <<owner, inode, deadlinePassed, lockFile, nextOwner, breaks,
                   faults>>

StatFindsStale(p) ==
    /\ pc[p] = "stat"
    /\ FileIsStale
    /\ Goto(p, "break")
    /\ UNCHANGED <<owner, inode, deadlinePassed, lockFile, nextOwner, breaks,
                   faults>>

\* unlink removes whatever is at lockPath when it runs, which need not be
\* the file that was found stale.  ENOENT is swallowed.
BreakStaleLock(p) ==
    /\ pc[p] = "break"
    /\ lockFile' = NoFile
    /\ breaks' = IF lockFile = NoFile THEN breaks ELSE breaks + 1
    /\ Goto(p, "try")
    /\ UNCHANGED <<owner, inode, deadlinePassed, nextOwner, faults>>

\* releaseRefreshLock: read the owner, then stat the inode, then unlink.
ReleaseReadsOwner(p) ==
    /\ pc[p] = "held"
    /\ OwnsFile(p) /\ lockFile.written
    /\ Goto(p, "checkInode")
    /\ UNCHANGED <<owner, inode, deadlinePassed, lockFile, nextOwner, breaks,
                   faults>>

ReleaseFindsOtherOwner(p) ==
    /\ pc[p] = "held"
    /\ ~(OwnsFile(p) /\ lockFile.written)
    /\ Return(p)
    /\ UNCHANGED <<lockFile, nextOwner, breaks, faults>>

ReleaseChecksInode(p) ==
    /\ pc[p] = "checkInode"
    /\ FileHasInodeOf(p)
    /\ Goto(p, "unlink")
    /\ UNCHANGED <<owner, inode, deadlinePassed, lockFile, nextOwner, breaks,
                   faults>>

ReleaseFindsOtherInode(p) ==
    /\ pc[p] = "checkInode"
    /\ ~FileHasInodeOf(p)
    /\ Return(p)
    /\ UNCHANGED <<lockFile, nextOwner, breaks, faults>>

ReleaseUnlinks(p) ==
    /\ pc[p] = "unlink"
    /\ lockFile' = NoFile
    /\ Return(p)
    /\ UNCHANGED <<nextOwner, breaks, faults>>

------------------------------------------------------------------------------
(* The environment.                                                        *)

Fault == faults < MaxFaults /\ faults' = faults + 1

\* open, writeFile or unlink throws something acquire or release rethrows,
\* or a check of release fails and it gives up closed: the call ends and
\* whatever is at lockPath stays there.
IOFails(p) ==
    /\ pc[p] \in {"try", "write", "held", "checkInode", "unlink"}
    /\ Fault
    /\ Return(p)
    /\ UNCHANGED <<lockFile, nextOwner, breaks>>

\* stat or unlink of the file in the way fails: logged, and another round.
ReapFails(p) ==
    /\ pc[p] \in {"stat", "break"}
    /\ Fault
    /\ Goto(p, "try")
    /\ UNCHANGED <<owner, inode, deadlinePassed, lockFile, nextOwner, breaks>>

Crash(p) ==
    /\ pc[p] # "idle"
    /\ Fault
    /\ Return(p)
    /\ UNCHANGED <<lockFile, nextOwner, breaks>>

DeadlinePasses(p) ==
    /\ pc[p] \in {"try", "stat", "break"} /\ ~deadlinePassed[p]
    /\ deadlinePassed' = [deadlinePassed EXCEPT ![p] = TRUE]
    /\ UNCHANGED <<pc, owner, inode, lockFile, nextOwner, breaks, faults>>

FileGoesStale ==
    /\ lockFile # NoFile /\ ~FileIsStale
    /\ SlowHolders \/ \A p \in Holders : ~OwnsFile(p)
    /\ lockFile' = [lockFile EXCEPT !.stale = TRUE]
    /\ UNCHANGED <<pc, owner, inode, deadlinePassed, nextOwner, breaks, faults>>

------------------------------------------------------------------------------

AcquireStep(p) ==
    \/ OpenCreates(p) \/ OpenFindsFile(p) \/ TimesOut(p) \/ WriteOwner(p)
    \/ StatFindsFreshOrGone(p) \/ StatFindsStale(p) \/ BreakStaleLock(p)

ReleaseStep(p) ==
    \/ ReleaseReadsOwner(p) \/ ReleaseFindsOtherOwner(p)
    \/ ReleaseChecksInode(p) \/ ReleaseFindsOtherInode(p)
    \/ ReleaseUnlinks(p)

Next ==
    \/ \E p \in Proc :
          \/ BeginAcquire(p) \/ AcquireStep(p) \/ ReleaseStep(p)
          \/ IOFails(p) \/ ReapFails(p) \/ Crash(p) \/ DeadlinePasses(p)
    \/ FileGoesStale

Spec == Init /\ [][Next]_vars

\* Every await settles, and a file nobody touches grows old.  Nothing makes
\* a process call acquire, crash or meet an I/O error, and the deadline is
\* left unfair on purpose: see WaiterIsServed.
FairSpec ==
    /\ Spec
    /\ \A p \in Proc : WF_vars(AcquireStep(p)) /\ WF_vars(ReleaseStep(p))
    /\ WF_vars(FileGoesStale)

------------------------------------------------------------------------------
(* Properties                                                              *)

TypeOK ==
    /\ pc \in [Proc -> PC]
    /\ owner \in [Proc -> Nat]
    /\ inode \in [Proc -> Inode \cup {NoInode}]
    /\ deadlinePassed \in [Proc -> BOOLEAN]
    /\ lockFile \in LockFile \cup {NoFile}
    /\ nextOwner \in Nat \ {0}
    /\ breaks \in Nat
    /\ faults \in Nat

\* Until a reaper has removed a file, at most one process is between the
\* creation of its lock file and the end of its release, whatever crashes,
\* I/O errors and timeouts happen: releaseRefreshLock never opens the lock
\* to a second holder.
ExclusiveUntilBroken ==
    breaks = 0 => \A p, q \in Holders : p = q

\* Every holder that has lost its file is paid for by one removal of the
\* reaper: a release whose checks were overtaken may remove a second
\* holder's file, but it ends its own hold in the same step, so the damage
\* of one reap never multiplies.
LapsesPaidByBreaks == Cardinality(Lapsed) <= breaks

\* A crash, an I/O error or a failed release may leave a lock file behind,
\* and no waiter is blocked by it for good, even without its deadline:
\* every call of acquireRefreshLock ends.
WaiterIsServed ==
    \A p \in Proc : pc[p] = "try" ~> pc[p] \in {"held", "idle"}

\* "stale reaper does NOT steal a lock held for 60s"
\* (tests/unit/refresh-lock.test.ts:79): the file the reaper removes is one
\* older than staleMs.
ReaperSparesFreshLocks ==
    [][breaks' > breaks => FileIsStale]_vars

\* The lock as its callers see it.
Lease == INSTANCE LeaseLock WITH holders <- Holders, lapsed <- Lapsed
ImplementsLeaseLock == Lease!LeaseSpec

==============================================================================
