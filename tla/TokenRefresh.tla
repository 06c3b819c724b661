----------------------------- MODULE TokenRefresh -----------------------------
(***************************************************************************)
(* One OAuth account shared by several processes: the refresh under the    *)
(* lock (src/token-refresh.ts), the retry with the token found on disk     *)
(* (resolveAccessToken, refreshIdleAccount), the saves of the accounts     *)
(* file that any process may make without the lock (saveToDisk,            *)
(* saveAccounts) and the sync from disk at the start of each request.      *)
(*                                                                         *)
(* The OAuth server is external.  It rotates: a refresh with the current   *)
(* refresh token makes it generation issued + 1 and every older one is     *)
(* refused from then on.  A generation number stands for the refresh token *)
(* and for the access token minted with it; 0 is the cleared access token. *)
(*                                                                         *)
(* The lock is LeaseLock, which RefreshLock is proved to implement.        *)
(***************************************************************************)
EXTENDS Naturals

CONSTANTS
    Proc,        \* the processes, each with the account in memory
    MaxGen,      \* bound: refresh tokens the server issues
    MaxSaves,    \* bound: saves for another reason than a refresh
    MaxStamps,   \* bound: 401 answers that clear an access token
    MaxFaults    \* bound: lost answers, failed saves, lapsed leases, crashes

ASSUME BoundsOK ==
    /\ MaxGen \in Nat \ {0}
    /\ {MaxSaves, MaxStamps, MaxFaults} \subseteq Nat

VARIABLES
    holders, lapsed, \* the lock of this account
    flow,            \* flow[p]: where p is in its refresh
    mem,             \* mem[p]: the account object of p
    disk,            \* the row of the account in the accounts file
    save,            \* save[p][k]: saves of p in flight
    issued,          \* the server's current refresh token
    now,             \* the clock tokenUpdatedAt is stamped from
    freshFrom,       \* access tokens before this generation are within
                     \* FOREGROUND_EXPIRY_BUFFER_MS of their expiry, or past it
    budget,          \* what is left of the bounds
    blame            \* history: the first of Causes that has happened

INSTANCE LeaseLock

refreshVars == <<flow, issued>>
storeVars == <<mem, disk, save>>
vars == <<holders, lapsed, flow, mem, disk, save, issued, now,
          freshFrom, budget, blame>>

Gen == 1 .. MaxGen

\* refreshToken, access with expires, tokenUpdatedAt, enabled.
Account == [rt: Gen, access: Gen \cup {0}, upd: Nat, enabled: BOOLEAN]
First == [rt |-> 1, access |-> 1, upd |-> 1, enabled |-> TRUE]

\* What can make the account on disk or in memory fall behind the server.
Causes == {
    "lostAnswer",    \* the server rotated and the answer never came
    "lostLease",     \* the lock was broken under a live holder
    "saveFailed",    \* new tokens did not reach the file under the lock
    "crash",         \* a process died with tokens in flight or unsaved
    "overlap",       \* the file changed between a save's read and its write
    "staleStamp",    \* an outdated token was stamped with the current time
    "syncOverwrite"} \* a sync replaced tokens that were not yet on disk
NoCause == "none"

SaveKind == {"refresh", "background"}
\* read: the stamp of the file when the save last read it.
NoSave == [stage |-> "none", row |-> First, read |-> 0]
Save == [stage: {"none", "load", "merge", "write"}, row: Account, read: Nat]

PC == {"idle", "locking", "readDisk", "calling", "answered", "persist",
       "releasing", "retry"}

\* attempted is attemptedRefreshToken, sent the token of the request in
\* flight, got the one the server answered with.
Flow == [pc: PC, source: {"foreground", "idle"}, tries: 0..2,
         attempted: Gen \cup {0}, sent: Gen \cup {0}, got: Gen \cup {0},
         failure: {"none", "transient", "terminal"}]

NoFlow == [pc |-> "idle", source |-> "idle", tries |-> 0, attempted |-> 0,
           sent |-> 0, got |-> 0, failure |-> "none"]

Init ==
    /\ LeaseInit
    /\ flow = [p \in Proc |-> NoFlow]
    /\ mem = [p \in Proc |-> First]
    /\ disk = First
    /\ save = [p \in Proc |-> [k \in SaveKind |-> NoSave]]
    /\ issued = 1
    /\ now = 1
    /\ freshFrom = 1
    /\ budget = [saves |-> MaxSaves, stamps |-> MaxStamps,
                 faults |-> MaxFaults]
    /\ blame = NoCause

------------------------------------------------------------------------------
(* Auth fields.                                                            *)

IsFresh(auth) == auth.access # 0 /\ auth.access >= freshFrom

\* applyDiskAuthIfFresher: what becomes of the auth in memory, and whether
\* that counts as adopted.  With allowExpiredFallback an expired account
\* takes a different refresh token whatever the stamps say.
DiskIsNewer(auth) == disk.upd > auth.upd
Adopts(auth, expiredFallback) ==
    DiskIsNewer(auth) \/ (expiredFallback /\ disk.rt # auth.rt)
Adopted(auth, expiredFallback) ==
    IF Adopts(auth, expiredFallback)
    THEN [disk EXCEPT !.upd = IF DiskIsNewer(auth) THEN @ ELSE auth.upd,
                      !.enabled = auth.enabled]
    ELSE auth

\* applyFreshestAuth and mergeAccountWithFresherAuth: the file wins when its
\* stamp is strictly newer.
Freshest(auth) ==
    IF DiskIsNewer(auth) THEN [disk EXCEPT !.enabled = auth.enabled] ELSE auth

Set(p, auth) == mem' = [mem EXCEPT ![p] = auth]
Blame(cause, happened) ==
    blame' = IF happened /\ blame = NoCause THEN cause ELSE blame
Spend(kind) ==
    /\ budget[kind] > 0
    /\ budget' = [budget EXCEPT ![kind] = @ - 1]
\* requestSaveToDisk: one timer, restarted by every request.
Requested(s) == IF s.stage = "none" THEN [s EXCEPT !.stage = "load"] ELSE s
Failed(f, kind) ==
    [f EXCEPT !.pc = "releasing", !.failure = kind, !.sent = 0, !.got = 0]
Enter(p, label) == flow' = [flow EXCEPT ![p].pc = label]

\* p has tokens that exist nowhere else: in the server's answer, or in
\* memory before they have been written.
HasUnsavedTokens(p) ==
    flow[p].pc \in {"answered", "persist"} \/ mem[p].rt > disk.rt

------------------------------------------------------------------------------
(* refreshAccountToken                                                     *)

\* A call of refreshAccountToken, before it has the lock.
Attempt(source, tries, attempted) ==
    [pc |-> "locking", source |-> source, tries |-> tries,
     attempted |-> attempted, sent |-> 0, got |-> 0, failure |-> "none"]

\* resolveAccessToken refreshes a token that is not fresh; the idle refresh
\* starts earlier, so it may find any token.  The single flight of
\* refresh-helpers.ts lets one refresh of the account run per process.
StartRefresh(p, source) ==
    /\ flow[p].pc = "idle" /\ mem[p].enabled
    /\ source = "foreground" => ~IsFresh(mem[p])
    /\ issued < MaxGen
    /\ flow' = [flow EXCEPT ![p] = Attempt(source, 1, mem[p].rt)]
    /\ UNCHANGED <<holders, lapsed, storeVars, issued, now, freshFrom, budget,
                   blame>>

TakeLock(p) ==
    /\ flow[p].pc = "locking"
    /\ Acquire(p)
    /\ Enter(p, "readDisk")
    /\ UNCHANGED <<storeVars, issued, now, freshFrom, budget, blame>>

\* acquireRefreshLock gave up.  Adopt what is on disk, even if it is only
\* different; return its access token if it is fresh, else throw.  A token
\* that is not fresh may have expired too.
LockBusy(p) ==
    /\ flow[p].pc = "locking"
    /\ \E expired \in {FALSE, ~IsFresh(mem[p])} : Set(p, Adopted(mem[p], expired))
    /\ flow' = [flow EXCEPT ![p] = NoFlow]
    /\ UNCHANGED <<holders, lapsed, disk, save, issued, now,
                   freshFrom, budget, blame>>

\* Mutant: the holder goes by its memory alone.
ReadDisk_NotAdopting(p) ==
    /\ flow[p].pc = "readDisk"
    /\ flow' = [flow EXCEPT ![p].pc = "calling", ![p].sent = mem[p].rt]
    /\ UNCHANGED <<holders, lapsed, storeVars, issued, now, freshFrom, budget,
                   blame>>

\* The disk read under the lock.  A foreground refresh that adopts a fresh
\* access token is done; otherwise the request goes out in the same tick.
ReadDisk(p) ==
    /\ flow[p].pc = "readDisk"
    /\ LET auth == Adopted(mem[p], FALSE)
           done == /\ flow[p].source = "foreground"
                   /\ Adopts(mem[p], FALSE) /\ IsFresh(auth)
       IN  /\ Set(p, auth)
           /\ IF done
              THEN Enter(p, "releasing")
              ELSE flow' = [flow EXCEPT ![p].pc = "calling",
                                        ![p].sent = auth.rt]
    /\ UNCHANGED <<holders, lapsed, disk, save, issued, now,
                   freshFrom, budget, blame>>

\* External: the token endpoint handles the request.
ServerRotates(p) ==
    /\ flow[p].pc = "calling"
    /\ flow[p].sent = issued /\ issued < MaxGen
    /\ issued' = issued + 1
    /\ flow' = [flow EXCEPT ![p].pc = "answered", ![p].sent = 0,
                            ![p].got = issued + 1]
    /\ UNCHANGED <<holders, lapsed, storeVars, now, freshFrom, budget, blame>>

\* External: invalid_grant.
ServerRefuses(p) ==
    /\ flow[p].pc = "calling"
    /\ flow[p].sent # issued
    /\ flow' = [flow EXCEPT ![p] = Failed(@, "terminal")]
    /\ UNCHANGED <<holders, lapsed, storeVars, issued, now, freshFrom, budget,
                   blame>>

\* The request fails on the way out, or the server has no token left to
\* issue in this instance.
RequestFails(p) ==
    /\ flow[p].pc = "calling"
    /\ \/ Spend("faults")
       \/ issued = MaxGen /\ flow[p].sent = issued /\ UNCHANGED budget
    /\ flow' = [flow EXCEPT ![p] = Failed(@, "transient")]
    /\ UNCHANGED <<holders, lapsed, storeVars, issued, now, freshFrom, blame>>

\* The answer is lost: connection reset, or the 10 s abort of refreshToken.
AnswerLost(p) ==
    /\ flow[p].pc = "answered"
    /\ Spend("faults")
    /\ flow' = [flow EXCEPT ![p] = Failed(@, "transient")]
    /\ Blame("lostAnswer", TRUE)
    /\ UNCHANGED <<holders, lapsed, storeVars, issued, now, freshFrom>>

\* Mutant: the lock is released before the new tokens are persisted.
TakeAnswer_PersistLater(p) ==
    /\ flow[p].pc = "answered"
    /\ now' = now + 1
    /\ Set(p, [mem[p] EXCEPT !.rt = flow[p].got, !.access = flow[p].got,
                              !.upd = now'])
    /\ save' = [save EXCEPT ![p]["background"] = Requested(@)]
    /\ Enter(p, "releasing")
    /\ UNCHANGED <<holders, lapsed, disk, issued, freshFrom, budget,
                   blame>>

\* The new tokens go into memory with the current time, and onTokensUpdated
\* starts saveToDisk.
TakeAnswer(p) ==
    /\ flow[p].pc = "answered"
    /\ now' = now + 1
    /\ Set(p, [mem[p] EXCEPT !.rt = flow[p].got, !.access = flow[p].got,
                              !.upd = now'])
    /\ save' = [save EXCEPT ![p]["refresh"].stage = "load"]
    /\ flow' = [flow EXCEPT ![p].pc = "persist", ![p].got = 0]
    /\ UNCHANGED <<holders, lapsed, disk, issued, freshFrom, budget,
                   blame>>

\* The finally block.  A terminal failure is retried once with the token on
\* disk; a second one disables the account, unless the refresh was idle.
ReleaseLock(p) ==
    /\ flow[p].pc = "releasing"
    /\ Release(p)
    /\ LET terminal == flow[p].failure = "terminal"
       IN  /\ flow' = [flow EXCEPT ![p] =
                 IF terminal /\ flow[p].tries = 1
                 THEN [@ EXCEPT !.pc = "retry", !.failure = "none"]
                 ELSE NoFlow]
           /\ IF /\ terminal /\ flow[p].tries = 2
                 /\ flow[p].source = "foreground"
              THEN /\ Set(p, [mem[p] EXCEPT !.enabled = FALSE])
                   /\ save' = [save EXCEPT ![p]["background"] = Requested(@)]
              ELSE UNCHANGED <<mem, save>>
    /\ UNCHANGED <<disk, issued, now, freshFrom, budget, blame>>

\* Mutant: an account that was refused is never tried again.
Retry_Never(p) ==
    /\ flow[p].pc = "retry"
    /\ UNCHANGED vars

\* The token on disk replaces the refused one if memory still has it.  Only
\* refreshToken and tokenUpdatedAt are copied, not the access token.
Retry(p) ==
    /\ flow[p].pc = "retry"
    /\ LET takesDisk == /\ disk.rt # flow[p].attempted
                        /\ mem[p].rt = flow[p].attempted
       IN  Set(p, IF takesDisk
                  THEN [mem[p] EXCEPT !.rt = disk.rt, !.upd = disk.upd]
                  ELSE mem[p])
    /\ flow' = [flow EXCEPT ![p] =
                   Attempt(flow[p].source, 2, flow[p].attempted)]
    /\ UNCHANGED <<holders, lapsed, disk, save, issued, now,
                   freshFrom, budget, blame>>

------------------------------------------------------------------------------
(* saveToDisk and saveAccounts: read, merge, read again, merge, rename.    *)

\* A debounced save: usage statistics, a rate limit, a disabled account.
StartSave(p) ==
    /\ save[p]["background"].stage = "none"
    /\ Spend("saves")
    /\ save' = [save EXCEPT ![p]["background"].stage = "load"]
    /\ UNCHANGED <<holders, lapsed, flow, mem, disk, issued, now,
                   freshFrom, blame>>

\* loadAccounts and prepareStorageForSave, which also updates memory.
SavePrepare(p, k) ==
    /\ save[p][k].stage = "load"
    /\ Set(p, Freshest(mem[p]))
    /\ save' = [save EXCEPT ![p][k] =
                   [stage |-> "merge", row |-> Freshest(mem[p]), read |-> 0]]
    /\ UNCHANGED <<holders, lapsed, flow, disk, issued, now,
                   freshFrom, budget, blame>>

\* Mutant: saveAccounts writes the caller's payload as it is.
SaveMerge_NoUnion(p, k) ==
    /\ save[p][k].stage = "merge"
    /\ save' = [save EXCEPT ![p][k].stage = "write",
                            ![p][k].read = disk.upd]
    /\ UNCHANGED <<holders, lapsed, flow, mem, disk, issued, now,
                   freshFrom, budget, blame>>

\* loadAccounts again and unionAccountsWithDisk, inside saveAccounts.
SaveMerge(p, k) ==
    /\ save[p][k].stage = "merge"
    /\ save' = [save EXCEPT ![p][k] =
                   [stage |-> "write", row |-> Freshest(save[p][k].row),
                    read |-> disk.upd]]
    /\ UNCHANGED <<holders, lapsed, flow, mem, disk, issued, now,
                   freshFrom, budget, blame>>

\* The end of a save: onTokensUpdated returns and the lock is released.
SaveEnds(p, k) ==
    /\ save' = [save EXCEPT ![p][k] = NoSave]
    /\ IF k = "refresh" THEN Enter(p, "releasing") ELSE UNCHANGED flow

\* writeFile and rename.  Whatever the file has become since it was read is
\* replaced.
SaveWrite(p, k) ==
    /\ save[p][k].stage = "write"
    /\ disk' = save[p][k].row
    /\ SaveEnds(p, k)
    /\ Blame("overlap", disk.upd # save[p][k].read)
    /\ UNCHANGED <<holders, lapsed, mem, issued, now, freshFrom,
                   budget>>

\* writeFile or rename throws.  A refresh swallows it after asking for a
\* debounced save.
SaveFails(p, k) ==
    /\ save[p][k].stage = "write"
    /\ Spend("faults")
    /\ save' = [save EXCEPT
          ![p][k] = NoSave,
          ![p]["background"] =
              IF k = "refresh" THEN Requested(@) ELSE NoSave]
    /\ IF k = "refresh" THEN Enter(p, "releasing") ELSE UNCHANGED flow
    /\ Blame("saveFailed", k = "refresh")
    /\ UNCHANGED <<holders, lapsed, mem, disk, issued, now,
                   freshFrom>>

------------------------------------------------------------------------------
(* The rest of the process and its environment.                            *)

\* syncActiveIndexFromDisk at the start of a request: the row on disk
\* replaces the auth fields whatever their stamps say; a missing access
\* token keeps the one in memory.
SyncFromDisk(p) ==
    /\ mem[p] # disk
    /\ Set(p, [disk EXCEPT !.access = IF @ = 0 THEN mem[p].access ELSE @])
    /\ Blame("syncOverwrite", HasUnsavedTokens(p))
    /\ UNCHANGED <<holders, lapsed, flow, disk, save, issued, now,
                   freshFrom, budget>>

\* A 401: the access token is cleared and the auth stamped as updated, with
\* the refresh token it has.
AuthFailed(p) ==
    /\ Spend("stamps")
    /\ now' = now + 1
    /\ Set(p, [mem[p] EXCEPT !.access = 0, !.upd = now'])
    /\ Blame("staleStamp", mem[p].rt # issued)
    /\ UNCHANGED <<holders, lapsed, flow, disk, save, issued,
                   freshFrom>>

LeaseLapses(p) ==
    /\ Spend("faults")
    /\ Lapse(p)
    /\ Blame("lostLease", TRUE)
    /\ UNCHANGED <<refreshVars, storeVars, now, freshFrom>>

\* The process dies and a new one loads the account from the file.
Crash(p) ==
    /\ Spend("faults")
    /\ flow[p].pc # "idle"
    /\ IF p \in holders THEN Release(p) ELSE UNCHANGED <<holders, lapsed>>
    /\ flow' = [flow EXCEPT ![p] = NoFlow]
    /\ Set(p, disk)
    /\ save' = [save EXCEPT ![p] = [k \in SaveKind |-> NoSave]]
    /\ Blame("crash", HasUnsavedTokens(p))
    /\ UNCHANGED <<disk, issued, now, freshFrom>>

\* Access tokens age in the order they were issued.
TokenAges ==
    /\ freshFrom <= issued /\ freshFrom' = freshFrom + 1
    /\ UNCHANGED <<holders, lapsed, flow, storeVars, issued, now, budget,
                   blame>>

------------------------------------------------------------------------------

RefreshStep(p) ==
    \/ TakeLock(p) \/ LockBusy(p) \/ ReadDisk(p)
    \/ ServerRotates(p) \/ ServerRefuses(p) \/ RequestFails(p)
    \/ AnswerLost(p) \/ TakeAnswer(p) \/ ReleaseLock(p) \/ Retry(p)

SaveStep(p, k) ==
    \/ SavePrepare(p, k) \/ SaveMerge(p, k) \/ SaveWrite(p, k)
    \/ SaveFails(p, k)

Next ==
    \/ \E p \in Proc :
          \/ \E source \in {"foreground", "idle"} : StartRefresh(p, source)
          \/ RefreshStep(p)
          \/ \E k \in SaveKind : SaveStep(p, k)
          \/ StartSave(p) \/ SyncFromDisk(p) \/ AuthFailed(p)
          \/ LeaseLapses(p) \/ Crash(p)
    \/ TokenAges

Spec == Init /\ [][Next]_vars

\* Awaits settle: a request is answered or aborted, a file operation ends.
\* Nothing obliges a process to start a refresh, a save or a sync.
FairSpec ==
    /\ Spec
    /\ \A p \in Proc :
          /\ WF_vars(RefreshStep(p))
          /\ \A k \in SaveKind : WF_vars(SaveStep(p, k))

------------------------------------------------------------------------------
(* Properties                                                              *)

TypeOK ==
    /\ holders \subseteq Proc /\ lapsed \subseteq holders
    /\ flow \in [Proc -> Flow]
    /\ mem \in [Proc -> Account]
    /\ disk \in Account
    /\ save \in [Proc -> [SaveKind -> Save]]
    /\ issued \in Gen
    /\ now \in Nat
    /\ freshFrom \in 1 .. MaxGen + 1
    /\ blame \in Causes \cup {NoCause}

\* "This is critical: if we release the lock first, another process can
\* acquire it and read the old (now-rotated) refresh token from disk, leading
\* to an invalid_grant failure." (src/token-refresh.ts:320).  A request that
\* carries a rotated token needs one of the causes.
RequestCarriesCurrentToken ==
    blame = NoCause => \A p \in Proc :
        flow[p].pc = "calling" => flow[p].sent = issued

\* The account is disabled for the user only after one of the causes: never
\* because two healthy processes refreshed at the same time.
DisabledOnlyWithCause ==
    blame = NoCause => disk.enabled /\ \A p \in Proc : mem[p].enabled

\* The current refresh token is never forgotten: it is in the file, or a
\* lock holder is about to put it there.
CurrentTokenSurvives ==
    blame = NoCause =>
        \/ disk.rt = issued
        \/ \E p \in holders \ lapsed : HasUnsavedTokens(p)

\* The refresh token in the file is never replaced by an older one.
DiskGoesBackOnlyWithCause ==
    [][blame' = NoCause => disk'.rt >= disk.rt]_vars

\* Whatever fails, a refresh comes to an end and gives up its lock.
RefreshEnds ==
    \A p \in Proc : flow[p].pc = "locking" ~>
                        flow[p].pc = "idle" /\ p \notin holders

==============================================================================
