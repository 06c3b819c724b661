------------------------------ MODULE SingleFlight ------------------------------
(***************************************************************************)
(* One account inside one OpenCode process: the requests that need its     *)
(* token and the idle refresh share refreshes by way of refreshInFlight    *)
(* (refreshAccountTokenSingleFlight in src/refresh-helpers.ts), retry      *)
(* after a refusal with the token on disk (resolveAccessToken,             *)
(* refreshIdleAccount) and meanwhile a slash command may replace the       *)
(* AccountManager (reloadAccountManagerFromDisk): refreshes are shared by  *)
(* account id, tokens belong to the account object of one manager.         *)
(*                                                                         *)
(* TokenRefresh has the lock, the saves and the other processes in detail. *)
(* Here a save is one step, another process refreshes in one step, and the *)
(* lock keeps the two apart.  Generations, stamps and freshFrom are those  *)
(* of TokenRefresh.                                                        *)
(***************************************************************************)
EXTENDS Naturals

CONSTANTS
    Request,     \* requests of the process, each a foreground caller
    Idle,        \* the caller refreshIdleAccount
    Slot,        \* names for refreshes in flight
    NoFlight,    \* refreshInFlight has no entry
    MaxManagers, \* bound: AccountManagers the process ever has
    MaxGen,      \* bound: refresh tokens the server issues
    MaxEvents    \* bound: lost answers, failed requests, failed saves, and
                 \* saves for another reason than a refresh

ASSUME CallersDiffer == Idle \notin Request
ASSUME SlotsOK == NoFlight \notin Slot
ASSUME BoundsOK ==
    /\ {MaxManagers, MaxGen} \subseteq Nat \ {0}
    /\ MaxEvents \in Nat

VARIABLES
    auth,      \* auth[m]: the account object of the m-th manager
    current,   \* the manager of the process
    disk,      \* the row of the account in the accounts file
    flight,    \* flight[s]: refreshAccountToken calls
    inFlight,  \* refreshInFlight.get(account.id): a slot or NoFlight
    caller,    \* caller[c]: callers of the single flight
    issued,    \* the server's current refresh token
    now,       \* the clock of tokenUpdatedAt
    freshFrom, \* older access tokens are close to their expiry or past it
    events,    \* what is left of MaxEvents
    cause      \* history: the first of Causes that has happened

shared == <<inFlight, caller>>
vars == <<auth, current, disk, flight, shared, issued, now, freshFrom, events,
          cause>>

Caller == Request \cup {Idle}
Manager == 1 .. MaxManagers
First == [rt |-> 1, access |-> 1, upd |-> 1, enabled |-> TRUE]

Gen == 1 .. MaxGen

\* refreshToken, access with expires, tokenUpdatedAt, enabled.
Account == [rt: Gen, access: Gen \cup {0}, upd: Nat, enabled: BOOLEAN]

Causes == {
    "lostAnswer",    \* the server rotated and the answer never came
    "saveFailed",    \* the save under the lock failed
    "reload",        \* it saved a manager that has not got the new tokens
    "syncOverwrite"} \* a sync replaced tokens that were not yet saved
NoCause == "none"

\* manager: whose account object the call works on.  result: how it ends.
Call == [stage: {"none", "lock", "readDisk", "calling", "persist", "release"},
         source: {"idle", "foreground"}, manager: Manager,
         sent: Gen \cup {0}, result: {"none", "ok", "transient", "refused"}]
NoCall == [stage |-> "none", source |-> "idle", manager |-> 1, sent |-> 0,
           result |-> "none"]
\* pc "joined": awaits the promise of flight; "behindIdle": awaits it to look
\* again afterwards; "readDisk": refused, and about to try once more.
CallerState == [pc: {"none", "joined", "behindIdle", "readDisk"},
                manager: Manager, tries: 0..2, attempted: Gen \cup {0},
                flight: Slot \cup {NoFlight}]
NoCaller == [pc |-> "none", manager |-> 1, tries |-> 0, attempted |-> 0,
             flight |-> NoFlight]

Init ==
    /\ auth = [m \in Manager |-> First]
    /\ current = 1
    /\ disk = First
    /\ flight = [s \in Slot |-> NoCall]
    /\ inFlight = NoFlight
    /\ caller = [c \in Caller |-> NoCaller]
    /\ issued = 1 /\ now = 1 /\ freshFrom = 1
    /\ events = MaxEvents
    /\ cause = NoCause

Active == {s \in Slot : flight[s].stage # "none"}
HoldsLock(s) ==
    flight[s].stage \in {"readDisk", "calling", "persist", "release"}

IsFresh(a) == a.access # 0 /\ a.access >= freshFrom
DiskIsNewer(a) == disk.upd > a.upd
Freshest(a) == IF DiskIsNewer(a) THEN [disk EXCEPT !.enabled = a.enabled] ELSE a

\* applyDiskAuthIfFresher, as in TokenRefresh.
Adopts(a, expiredFallback) ==
    DiskIsNewer(a) \/ (expiredFallback /\ disk.rt # a.rt)
Adopted(a, expiredFallback) ==
    IF Adopts(a, expiredFallback)
    THEN [disk EXCEPT !.upd = IF DiskIsNewer(a) THEN @ ELSE a.upd,
                      !.enabled = a.enabled]
    ELSE a

Event == events > 0 /\ events' = events - 1
Blame(reason, happened) ==
    cause' = IF happened /\ cause = NoCause THEN reason ELSE cause

------------------------------------------------------------------------------
(* refreshAccountTokenSingleFlight                                         *)

Source(c) == IF c = Idle THEN "idle" ELSE "foreground"
Started(c, m) ==
    [NoCall EXCEPT !.stage = "lock", !.source = Source(c), !.manager = m]

\* Mutant: every caller refreshes for itself.
Enter_NotShared(c, asked) ==
    \E s \in Slot \ Active :
        /\ flight' = [flight EXCEPT ![s] = Started(c, asked.manager)]
        /\ inFlight' = s
        /\ caller' = [caller EXCEPT ![c] =
               [asked EXCEPT !.pc = "joined", !.flight = s]]

\* The call up to its first await.  A foreground caller that finds an idle
\* refresh will look again when that is over.
Enter(c, asked) ==
    \/ /\ inFlight = NoFlight /\ Slot \ Active # {}
       /\ LET s == CHOOSE t \in Slot \ Active : TRUE
          IN  /\ flight' = [flight EXCEPT ![s] = Started(c, asked.manager)]
              /\ inFlight' = s
              /\ caller' = [caller EXCEPT ![c] =
                     [asked EXCEPT !.pc = "joined", !.flight = s]]
    \/ /\ inFlight # NoFlight
       /\ LET behind == c # Idle /\ flight[inFlight].source = "idle"
          IN  caller' = [caller EXCEPT ![c] =
                 [asked EXCEPT !.pc = IF behind THEN "behindIdle" ELSE "joined",
                               !.flight = inFlight]]
       /\ UNCHANGED <<flight, inFlight>>

Asked(m, tries, attempted) ==
    [NoCaller EXCEPT !.manager = m, !.tries = tries, !.attempted = attempted]

\* resolveAccessToken of a request whose token is not fresh.
Ask(c) ==
    /\ caller[c].pc = "none"
    /\ auth[current].enabled /\ ~IsFresh(auth[current])
    /\ Enter(c, Asked(current, 1, auth[current].rt))
    /\ UNCHANGED <<auth, current, disk, issued, now, freshFrom, events, cause>>

\* maybeRefreshIdleAccounts with refreshIdleAccount: one at a time, and
\* before the token is close to its expiry.
AskIdle ==
    /\ caller[Idle].pc = "none"
    /\ auth[current].enabled /\ issued < MaxGen
    /\ Enter(Idle, Asked(current, 1, auth[current].rt))
    /\ UNCHANGED <<auth, current, disk, issued, now, freshFrom, events, cause>>

\* After a refusal: the token on disk replaces the refused one if memory
\* still has that, and the caller asks again.
AskAgain(c) ==
    /\ caller[c].pc = "readDisk"
    /\ LET m == caller[c].manager
           takesDisk == /\ disk.rt # caller[c].attempted
                        /\ auth[m].rt = caller[c].attempted
       IN  /\ auth' = IF takesDisk
                      THEN [auth EXCEPT ![m].rt = disk.rt, ![m].upd = disk.upd]
                      ELSE auth
           /\ Enter(c, Asked(m, 2, caller[c].attempted))
    /\ UNCHANGED <<current, disk, issued, now, freshFrom, events, cause>>

\* What a caller does with the result of the refresh it has joined.
AfterResult(asked, result) ==
    IF result = "refused" /\ asked.tries = 1
    THEN [asked EXCEPT !.pc = "readDisk", !.flight = NoFlight]
    ELSE NoCaller

\* The account is given up: an idle refresh never does that.
GivesUp(c, result) ==
    c # Idle /\ result = "refused" /\ caller[c].tries = 2

\* Mutant: the entry of refreshInFlight is not deleted.
EntryAfter_Kept(s, unserved) == s

\* What refreshInFlight has after s: the refresh of the unserved, if any.
EntryAfter(s, unserved) == IF unserved = {} THEN NoFlight ELSE s

\* The refresh s ends, and all who await it run before anything else does.
\* Those behind an idle refresh are served if their own account object has
\* an access token that has not expired; of the others one refreshes and
\* the rest join it.
End(s, result, objects) ==
    LET joined == {c \in Caller :
                      caller[c].pc = "joined" /\ caller[c].flight = s}
        behind == {c \in Caller :
                      caller[c].pc = "behindIdle" /\ caller[c].flight = s}
        givingUp == {c \in joined : GivesUp(c, result)}
    IN \E validFrom \in 1 .. freshFrom :
        LET unserved == {c \in behind :
                            LET access == objects[caller[c].manager].access
                            IN  access = 0 \/ access < validFrom}
        IN  /\ auth' = [m \in Manager |-> [objects[m] EXCEPT
                           !.enabled = @ /\ \A c \in givingUp :
                                               caller[c].manager # m]]
            /\ \/ /\ unserved = {}
                  /\ flight' = [flight EXCEPT ![s] = NoCall]
               \/ \E c \in unserved : flight' =
                     [flight EXCEPT ![s] = Started(c, caller[c].manager)]
            /\ inFlight' = EntryAfter(s, unserved)
            /\ caller' = [c \in Caller |->
                  CASE c \in joined   -> AfterResult(caller[c], result)
                    [] c \in unserved -> [caller[c] EXCEPT !.pc = "joined"]
                    [] c \in behind \ unserved -> NoCaller
                    [] OTHER          -> caller[c]]

------------------------------------------------------------------------------
(* refreshAccountToken, abridged from TokenRefresh                         *)

TakeLock(s) ==
    /\ flight[s].stage = "lock"
    /\ \A t \in Slot : ~HoldsLock(t)
    /\ flight' = [flight EXCEPT ![s].stage = "readDisk"]
    /\ UNCHANGED <<auth, current, disk, shared, issued, now, freshFrom, events,
                   cause>>

\* Another process holds the lock for too long.
LockBusy(s) ==
    /\ flight[s].stage = "lock"
    /\ LET m == flight[s].manager
       IN \E expired \in {FALSE, ~IsFresh(auth[m])} :
             LET found == Adopted(auth[m], expired)
                 ok == Adopts(auth[m], expired) /\ IsFresh(found)
             IN  End(s, IF ok THEN "ok" ELSE "transient",
                     [auth EXCEPT ![m] = found])
    /\ UNCHANGED <<current, disk, issued, now, freshFrom, events, cause>>

\* Mutant: the token in memory is sent, whatever is on disk.
ReadDisk_NotAdopting(s) ==
    /\ flight[s].stage = "readDisk"
    /\ flight' = [flight EXCEPT ![s].stage = "calling",
                                ![s].sent = auth[flight[s].manager].rt]
    /\ UNCHANGED <<auth, current, disk, shared, issued, now, freshFrom, events,
                   cause>>

ReadDisk(s) ==
    /\ flight[s].stage = "readDisk"
    /\ LET m == flight[s].manager
           found == Adopted(auth[m], FALSE)
           done == /\ flight[s].source = "foreground"
                   /\ Adopts(auth[m], FALSE) /\ IsFresh(found)
       IN  /\ auth' = [auth EXCEPT ![m] = found]
           /\ flight' = IF done
                 THEN [flight EXCEPT ![s].stage = "release", ![s].result = "ok"]
                 ELSE [flight EXCEPT ![s].stage = "calling",
                                     ![s].sent = found.rt]
    /\ UNCHANGED <<current, disk, shared, issued, now, freshFrom, events,
                   cause>>

Releases(s, result) ==
    flight' = [flight EXCEPT ![s].stage = "release", ![s].sent = 0,
                             ![s].result = result]

\* The server accepts the token, and the new ones go into the account object.
Rotates(s) ==
    /\ flight[s].stage = "calling"
    /\ flight[s].sent = issued /\ issued < MaxGen
    /\ issued' = issued + 1 /\ now' = now + 1
    /\ auth' = [auth EXCEPT ![flight[s].manager] =
          [@ EXCEPT !.rt = issued', !.access = issued', !.upd = now']]
    /\ flight' = [flight EXCEPT ![s].stage = "persist", ![s].sent = 0]
    /\ UNCHANGED <<current, disk, shared, freshFrom, events, cause>>

Refused(s) ==
    /\ flight[s].stage = "calling"
    /\ flight[s].sent # issued
    /\ Releases(s, "refused")
    /\ UNCHANGED <<auth, current, disk, shared, issued, now, freshFrom, events,
                   cause>>

\* The request fails; the server may have handled it.
CallFails(s) ==
    /\ flight[s].stage = "calling"
    /\ \/ Event /\ UNCHANGED <<issued, cause>>
       \/ /\ Event
          /\ flight[s].sent = issued /\ issued < MaxGen
          /\ issued' = issued + 1
          /\ Blame("lostAnswer", TRUE)
       \/ /\ flight[s].sent = issued /\ issued = MaxGen
          /\ UNCHANGED <<events, issued, cause>>
    /\ Releases(s, "transient")
    /\ UNCHANGED <<auth, current, disk, shared, now, freshFrom>>

\* saveToDisk of manager m.
SavesManager(m) ==
    /\ auth' = [auth EXCEPT ![m] = Freshest(@)]
    /\ disk' = Freshest(auth[m])

\* Mutant: onTokensUpdated only asks for a debounced save.
Persist_Later(s) ==
    /\ flight[s].stage = "persist"
    /\ Releases(s, "ok")
    /\ UNCHANGED <<auth, current, disk, shared, issued, now, freshFrom, events,
                   cause>>

\* onTokensUpdated saves the manager the process has by now.
Persist(s) ==
    /\ flight[s].stage = "persist"
    /\ SavesManager(current)
    /\ Blame("reload", current # flight[s].manager)
    /\ Releases(s, "ok")
    /\ UNCHANGED <<current, shared, issued, now, freshFrom, events>>

PersistFails(s) ==
    /\ flight[s].stage = "persist"
    /\ Event
    /\ Blame("saveFailed", TRUE)
    /\ Releases(s, "ok")
    /\ UNCHANGED <<auth, current, disk, shared, issued, now, freshFrom>>

Release(s) ==
    /\ flight[s].stage = "release"
    /\ End(s, flight[s].result, auth)
    /\ UNCHANGED <<current, disk, issued, now, freshFrom, events, cause>>

------------------------------------------------------------------------------
(* The rest of the process, and the others.                                *)

\* reloadAccountManagerFromDisk after a slash command.  Requests and
\* refreshes keep the account object they have.
Reload ==
    /\ current < MaxManagers
    /\ current' = current + 1
    /\ auth' = [auth EXCEPT ![current'] = disk]
    /\ UNCHANGED <<disk, flight, shared, issued, now, freshFrom, events, cause>>

\* syncActiveIndexFromDisk at the start of a request.
Sync ==
    /\ auth[current] # disk
    /\ auth' = [auth EXCEPT ![current] =
          [disk EXCEPT !.access = IF @ = 0 THEN auth[current].access ELSE @]]
    /\ Blame("syncOverwrite", auth[current].rt > disk.rt)
    /\ UNCHANGED <<current, disk, flight, shared, issued, now, freshFrom,
                   events>>

\* The save timer of a manager, which may have been replaced.
TimerSaves(m) ==
    /\ m <= current
    /\ Event
    /\ SavesManager(m)
    /\ UNCHANGED <<current, flight, shared, issued, now, freshFrom, cause>>

\* Another process refreshes with the token on disk, under the lock.
OtherRefreshes ==
    /\ \A s \in Slot : ~HoldsLock(s)
    /\ disk.rt = issued /\ issued < MaxGen
    /\ issued' = issued + 1 /\ now' = now + 1
    /\ disk' = [disk EXCEPT !.rt = issued', !.access = issued', !.upd = now']
    /\ UNCHANGED <<auth, current, flight, shared, freshFrom, events, cause>>

TokenAges ==
    /\ freshFrom <= issued /\ freshFrom' = freshFrom + 1
    /\ UNCHANGED <<auth, current, disk, flight, shared, issued, now, events,
                   cause>>

------------------------------------------------------------------------------

FlightStep(s) ==
    \/ TakeLock(s) \/ LockBusy(s) \/ ReadDisk(s) \/ Rotates(s) \/ Refused(s)
    \/ CallFails(s) \/ Persist(s) \/ PersistFails(s) \/ Release(s)

Next ==
    \/ \E c \in Request : Ask(c)
    \/ AskIdle
    \/ \E c \in Caller : AskAgain(c)
    \/ \E s \in Slot : FlightStep(s)
    \/ Reload \/ Sync \/ OtherRefreshes \/ TokenAges
    \/ \E m \in Manager : TimerSaves(m)

Spec == Init /\ [][Next]_vars

\* Awaits settle.  Nothing obliges anybody to ask.
FairSpec ==
    /\ Spec
    /\ \A s \in Slot : WF_vars(FlightStep(s))
    /\ \A c \in Caller : WF_vars(AskAgain(c))

------------------------------------------------------------------------------
(* Properties                                                              *)

TypeOK ==
    /\ auth \in [Manager -> Account]
    /\ current \in Manager
    /\ disk \in Account
    /\ flight \in [Slot -> Call]
    /\ inFlight \in Slot \cup {NoFlight}
    /\ caller \in [Caller -> CallerState]
    /\ issued \in Gen
    /\ now \in Nat
    /\ freshFrom \in 1 .. MaxGen + 1
    /\ events \in Nat
    /\ cause \in Causes \cup {NoCause}

\* However foreground callers, the idle refresh, retries and reloads meet,
\* the process has one refresh of the account under way at most: two would
\* spend the same refresh token.
OneRefreshAtATime == \A s, t \in Active : s = t

\* Nobody waits for a refresh that is over: a caller whose promise is gone
\* would never be answered.
WaitersHaveFlight ==
    \A c \in Caller : caller[c].pc \in {"joined", "behindIdle"} =>
        caller[c].flight \in Active

\* As long as the process has had one manager, the account is disabled only
\* if its refresh token is lost: the server's current one is neither in the
\* account object nor in the file.  Lost answers, failed saves and refused
\* attempts of others are no reason while a copy remains.
DisabledOnlyWhenTokenLost ==
    [][/\ current' = 1 /\ auth[1].enabled /\ ~auth'[1].enabled
       /\ disk.enabled
       => auth[1].rt # issued /\ disk.rt # issued]_vars

\* No request to the token endpoint carries a rotated token before the first
\* cause, whoever started the refresh on whichever manager's account.
SharedRefreshIsCurrent ==
    cause = NoCause => \A s \in Slot :
        flight[s].stage = "calling" => flight[s].sent = issued

\* Every caller gets its token or its error, whatever it joined or waited
\* for.
CallersAnswered == \A c \in Caller : caller[c].pc # "none" ~> caller[c].pc = "none"

\* "Persist new tokens to disk BEFORE releasing the cross-process lock."
\* (src/token-refresh.ts:320)
PersistedBeforeRelease ==
    [][\A s \in Slot :
          flight[s].stage = "persist" /\ flight'[s].stage = "release"
          => disk'.rt = issued \/ events' # events]_vars

==============================================================================
