# Verification of opencode-anthropic-fix

TLA+ models of the plugin that lets OpenCode use Anthropic OAuth accounts, the
TLC instances that check them, and theorems about them proved with TLAPS. The
source is `src/src/**`; `PROJECT.json` maps every definition to the lines it
stands for.

## 1. The system

The plugin runs inside every OpenCode process. All processes of a user, and the
CLI `opencode-anthropic-auth`, share one directory: `anthropic-accounts.json`
with the accounts, and one lock file per account. There is no server of the
plugin's own, no database and no lock on the accounts file: whoever saves reads
the file, merges and renames a new one over it. Inside a process everything is
one JavaScript thread, so two activities interleave exactly at their `await`s.

| component | state | operations | what makes it hard |
|---|---|---|---|
| **refresh lock** `refresh-lock.ts` | lock file (owner, inode, mtime) per account | `acquireRefreshLock`, `releaseRefreshLock` | check-then-act on a path, stale files, crashes, inode reuse, a holder that outlasts `staleMs` |
| **token refresh** `token-refresh.ts`, `oauth.ts` | auth fields of an account in memory and on disk, stamps | `refreshAccountToken`, `applyDiskAuthIfFresher`, `readDiskAccountAuth` | refresh tokens rotate: one lost or overwritten copy locks the user out; lost answers, failed saves, concurrent saves without the lock |
| **single flight, idle refresh** `refresh-helpers.ts` | `refreshInFlight`, `idleRefreshInFlight`, last attempts | `refreshAccountTokenSingleFlight`, `refreshIdleAccount`, `maybeRefreshIdleAccounts` | callers that join, callers that wait for an idle refresh and look again, a manager replaced meanwhile |
| **account storage** `storage.ts`, `accounts/persistence.ts`, `accounts.ts` | the file; `#accounts`, `#currentIndex`, `#pendingDroppedIds`, save timer | `saveAccounts`, `prepareStorageForSave`, `unionAccountsWithDisk`, `syncActiveIndexFromDisk`, add / remove / toggle | two reads and a rename with other writers between them; positions used as names of accounts |
| **usage statistics** `accounts.ts`, `accounts/persistence.ts` | `stats` of an account, `#statsDeltas` | `recordUsage`, `mergePersistedStats`, `cmdResetStats` | a read-modify-write of counters across processes; payload and memory share an object |
| **load-time repair** `accounts/repair.ts` | rows at load | `repairCorruptedCCAccounts`, `loadAccountsWithRepair` | collapsed rows must not be merged back |
| **identity and matching** `account-identity.ts`, `accounts/matching.ts` | none | `findMatchingManagedAccount`, `resolveManagedAccountIdentity` | id, identity, `addedAt` and token as successive keys: aliasing |
| **request orchestration** `request-orchestration-helpers.ts`, `request/retry.ts`, `request/long-context-retry.ts` | per request: attempt, `transientRefreshSkips`; shared: excluded betas, `fileAccountMap` | `executeOAuthFetch`, `resolveAccessToken`, `fetchWithRetry` | account positions kept over awaits, a loop bounded by a count that may change, exclusions shared by requests |
| **rotation** `rotation.ts` | health scores, token buckets, by position | `selectAccount`, trackers | selection while accounts are re-indexed |
| **back-off** `backoff.ts` | none | `isAccountSpecificError`, `parseRateLimitReason`, `calculateBackoffMs` | whose error it is, tables indexed by an unbounded counter |
| **request body, tool names, betas** `request/body.ts`, `tools/wire-names.ts`, `betas.ts`, `system-prompt/**` | none; decided anew for each attempt | `transformRequestBody`, `toWireToolName`, `buildAnthropicBetaHeader` | names that must come back, settings decided in two places, history from earlier turns |
| **SSE stream** `response/streaming.ts`, `response/mcp.ts` | block map, buffers, usage, terminal flags | `transformResponse`: `pull`, `cancel` | chunks cut anywhere, mid-stream errors, cancellation, truncation, when `pull` is called again |
| **fingerprint and profiles** `fingerprint/**`, `request/profile-resolver.ts` | caches of manifests and indexes, profiles by version asked for | `getRequestProfile`, `resolveProfile`, `mergeManifests`; `getOptionalBetaInventory` of `betas.ts` | files read at different times, cached for good, torn or missing; empty lists that are filled from elsewhere |
| **verification and promotion** `scripts/verification/**`, `scripts/analysis/build-candidate-manifest.ts` | candidate and verified manifests, indexes, reports, a lock directory | candidate builder, scheduled verifier, review, `promote-verified` | read-merge-write in place without a lock, kills, late captures, a trap on EXIT, INT and TERM that removes somebody else's lock |
| **CLI and slash commands** `cli/**`, `commands/**` | what they have loaded | switch, enable, disable, remove, logout, login, reauth, reset-stats | prompts between load and save; the file as the only channel to running plugins |
| **slash OAuth flow** `commands/oauth-flow.ts` | pending entries with a time limit | `startSlashOAuth`, `completeSlashOAuth` | positions kept through a browser round trip |
| **plugin entry** `index.ts`, `plugin-helpers.ts` | the process's `AccountManager` | load, reload, login menu | `reloadAccountManagerFromDisk` replaces the manager under running requests |
| CC credentials, transport, session scope, configuration, display, extraction scripts | none or small caches | parsing and I/O | – |

How they interact. A request syncs the manager from disk, selects an account,
gets its token (fresh, or from the single flight, which runs one
`refreshAccountToken` under the account's lock and saves the manager before the
lock is released), sends the request, and reports success, usage or failure to
the manager, which saves after a delay. For every attempt the body and the betas
are built anew from the original request, with the profile that the process has
resolved from the manifests; the answer is read through a transformed stream.
The manifests come from programs that share nothing with the plugin but files.
Commands only meet the plugin in the
file, or, for slash commands, by having the manager reloaded. What makes each
part correct:

* lock: exclusive; a dead holder never blocks others for good; what the reaper
  may break is bounded.
* refresh: the current refresh token is always in the file or about to get
  there; no request carries a rotated token; an account is given up only when
  its token is really lost; every refresh ends.
* single flight: one refresh of an account in a process; every caller answered.
* storage: no account twice; a row disappears only on purpose; the active
  account and the current account follow their rows; a removed row is gone.
* statistics: nothing counted twice, nothing lost without a reason that can be
  named.
* request loop: tries each account once, gives up for a reason, marks the account
  it used, never waits on a position that has moved, and ends.
* exchange: a tool is called by the name it was offered under, the history is
  what the model said, the body has no setting without its beta, and the stream
  is the server's, event by event, with its usage told once.
* promotion: what is promoted has been seen on the wire and stays promoted; a
  critical or sensitive value reaches the wire only so, or as the plugin's own, or
  in a list of betas that the profile leaves empty, where the code falls back on
  what nobody has verified; and how many scheduled runs can be at work together
  is bounded by how often the lock has been taken away.

`PROJECT.json` has the hazards of this code, each at its line, with the
properties that cover it.

## 2. Modules

```
LeaseLock  <--implements--  RefreshLock            (the lock file, call by call)
   |                          RefreshLock_proofs
   | INSTANCE
TokenRefresh                                       (an account over several processes)
   TokenRefresh_proofs
SingleFlight                                       (an account inside one process)
   SingleFlight_proofs
UsageStats                                         (the counters of an account)

Positions <- AccountFile
AccountFile <-- EXTENDS ---- AccountStorage        (rows of the file and their writers)
   AccountFile_proofs <------- AccountStorage_proofs
AccountFile, Rotation,
Backoff     <-- EXTENDS ---- RequestLoop           (requests that share a manager)
   AccountFile_proofs <------- RequestLoop_proofs

WireNames <- RequestBody <- Exchange               (a conversation and its stream)
                 Betas   <-    |
           EventStream   <-----+--implements-->  ResponseStream
Positions <- RequestBody, EventStream              (sets of positions in a sequence)
   AccountFile_proofs, UsageStats <- Exchange_proofs

Manifests <- Verification <- Promotion             (from a bundle to the wire)
                               Promotion_proofs
```

One step of a model is what the code runs between two `await`s, so interleaving
is no finer and no coarser than the event loop's. A file read takes effect when
its `await` returns. The MC modules and the `.cfg` files hold the small
instances. The theorems about UsageStats are in the last part of `Exchange_proofs`,
which counts the tokens that the stream reports; the two modules share no state.

**RefreshLock** has one action per file-system call of `acquireRefreshLock` and
`releaseRefreshLock`: the exclusive `open` with the deadline test in the same
tick, `writeFile` of the owner, `stat`, the stale `unlink`, the owner and inode
checks and the `unlink` of a release. Time is abstract: a deadline may pass, a
file may go stale. A process may crash anywhere, a call may fail with an
unexpected error. A freed inode may be given out again.

**LeaseLock** is what the callers of the lock rely on: holders, of whom only one
has a live lease; leases lapse. `RefreshLock` implements it with holders mapped
to the processes between the creation of their file and the end of their
release, and lapsed ones to those whose file is gone from the path.

**TokenRefresh** builds on LeaseLock. A generation number stands for a refresh
token and the access token minted with it; the server refuses all but the
latest. `mem[p]` is the account object of a process, `disk` the row in the
file, `save[p][k]` the up to two saves of a process in flight, each with its two
reads and its rename. `freshFrom` tells fresh access tokens from those close to
their expiry. `blame` records the first of seven causes that can bring memory or
file behind the server; the safety properties say what holds until then, so they
claim that there are no other causes.

**SingleFlight** has the callers inside one process: requests and the idle
refresh, each with up to two tries, one or two managers, and refreshes in
flight. When a refresh ends, those who await it continue in the same step,
because promise continuations run before any further I/O: joined callers take
the result; callers behind an idle refresh look at their own account object, the
first that is not served starts a refresh and the rest join it. A save is one
step and another process refreshes in one step; TokenRefresh has both in detail.

**AccountFile** has the operators that combine memory and file (`Find`, `Union`,
`Prepare`, `Reconciled`), **AccountStorage** the writers: OpenCode processes with
load, repair, delayed save, sync, select, toggle, add, remove, fresh login, exit;
commands that load, wait for the user, edit and save; slash commands, whose
logins and reauths end in the process that runs them. A row has an id, the
account that its identity names, a refresh token with its owner and its time,
and its enabled flag; it is matched by id, then by identity, then by token, as
the code does, in the file as in memory, and two stored rows that match one
account share its object. Position 0 stands for the code's `currentIndex` -1.
`mixed` notes the two things only a slash command can do: give an account a
second row, and put credentials into the row that has moved to its position.

**RequestLoop** has any number of requests over one manager. A request begins
with a sync (unless the session is pinned) and then runs from `await` to `await`:
refresh, send, service-wide retry, retry with one more beta excluded, consumption
of the stream. In between other requests mark accounts and sync, so rows move under the
positions it skips; another process edits the file; saves and expiries happen.
**Rotation** is `selectAccount` with its trackers, **Backoff** what an answer says
about an account. `earned` is history: the trackers by account instead of by
position.

**Exchange** is a conversation: OpenCode sends its history, every attempt builds
body (**RequestBody**, **WireNames**) and betas (**Betas**) from it, the answer
comes back through **EventStream**, and what OpenCode hears is the next history.
What the API may answer to a body is the parameter `Answers`; `ServerAnswers` takes
of it what a server sends: the data of the events in order, on one line and with a
blank line after it (`WellWritten`), content blocks with an index of their own, and
calls only of tools that the body offers. A connection that fails or ends early
leaves any part of such a text, and the network cuts it into chunks anywhere the
instance allows. `Texts` are what the blocks may say.
**EventStream** has `pull`, the parsing of chunks, the checks of event order, the
end of the answer, failure and cancel, on a ReadableStream that behaves as the
Streams standard says. **ResponseStream** is what a reader may rely on; EventStream
implements it within Exchange.

**Promotion** has the programs around the manifests: the builder of candidates,
scheduled runs with captures, reports and promotions, reviewers, and a plugin
process that reads indexes and manifests each at its own time and builds the betas
with every request. Files are written in place, the index read and written after
the manifest: a kill tears a file or comes in between. The lock directory is
removed by every end of a run, by runs that end before they have made it
(`EndsBeforeStart`: the lock is there, `--help`, a wrong option, a missing
executable) and by signals (`Interrupted`, after which the script goes on, and
`CommandInterrupted`); `removals` counts what is not the end of a started run.
**Manifests** has the manifests, their merge, the profile under the version that
was asked for, and the beta inventories of `betas.ts`, which read candidate
manifests of their own accord; **Verification** the comparison of captures and the
decisions.

**UsageStats** follows one counter through `recordUsage`, the delta, the object
that a payload shares with memory, overlapping saves, sync, and commands.

### Abstractions

* TokenRefresh, SingleFlight: no Claude Code credentials as the source of an
  account, no answer without a new refresh token, no unreadable file, no two
  stamps in the same millisecond. A retry copies the token and the stamp from
  disk, never the access token, as the code does.
* SingleFlight: the idle refresh may pick this account at any time; its minimal
  interval and the choice among accounts are left out.
* AccountStorage: how an identity is derived from e-mail, source and label is
  left out, and so are malformed files and the limit of ten accounts. `addedAt`
  goes with the id. A process has one save under way at a time here (TokenRefresh
  and UsageStats have overlapping ones), a reload waits for the old manager's
  timer, and a session's pending flow is forgotten when it completes. Rows of the
  same account, which only the load-time repair recognises, are given by
  `AccountOf`.
* RequestLoop: a refresh with its retry is one step, a sync reads and applies at
  once, toasts take no time, `lastUsed` is now or long ago, scores do not recover
  while a request runs. Other processes edit while some request has not begun:
  its sync is what reads them.
* Exchange: text is known by what it says to the code (`"quota"`, `"title"`, Claude
  Code's own blocks). Multi-byte characters cut in two and texts over 256 KiB are
  left out. The order of betas, the billing hash and the metadata ids matter to
  no property here.
  The tools of a body are never deferred: `buildAttemptBody`
  (`request-orchestration-helpers.ts:359`) gives `transformRequestBody` no profile,
  so `injectDeferredToolLoading` is never reached.
* Promotion: a field is a path with a value; how values are read out of bundles,
  certificates and the proxy's HTTP are left out. A capture's sender (`by`) is
  kept for the properties only. One builder runs at a time, and a kill does not cut
  its files short; the review that ends a scheduled run writes no manifest and is
  left out. Header fields that are empty in a profile, or have the fallback's value,
  are rewritten by `normalizeRequestProfile` to what the plugin computes: they count
  as its own from the start. Requests are built with signature emulation, without
  which none of this is sent; which of the lists' betas a model gets is in Betas.
* UsageStats: the five counters move together, so one stands for all. The forced
  flush at `MAX_STATS_DELTAS` is left out: there are never so many accounts.

## 3. Runs

| run | instance | distinct states | asks |
|---|---|---|---|
| `refresh_lock` | 3 processes, 2 inodes, 3 calls, 1 crash or error, slow holders | 179,687 | exclusion, damage of the reaper, refinement of LeaseLock, progress |
| `token_refresh` | 2 processes, 2 rotations, 2 unrelated saves, one 401, 1 fault | 1,408,701 | stale tokens, disabling, loss of the current token |
| `token_refresh_ends` | 2 processes, 1 rotation, one 401, 1 fault | 167,000 | every refresh ends |
| `single_flight` | 2 requests and the idle refresh, 2 managers, 2 rotations, 1 fault or unrelated save | 202,000 | one refresh, no caller forgotten, giving up only with the token |
| `account_storage` | 1 process, 1 command at a time, 2 rows and a third account that logs in, 2 user changes | 461,308 | duplicates, whose token a row has, lost rows, active account |
| `usage_stats` | 2 processes with 2 saves each, 3 requests, 1 save by a refresh, 2 failures or commands | 1,945,113 | double and lost counts |
| `request_loop` | 2 requests, 2 accounts and a third that may come, 2 faults, 1 edit or 1 expiry | 454,634 | which accounts are tried and penalised, giving up, file pins, excluded betas, progress |
| `exchange` | 9 settings, 2 or 3 turns, 2 accounts, 1 fault, answers of up to 11 events cut at every or at chosen places | 205,453 | names, history, cache marks, betas, equal attempts, refinement of ResponseStream |
| `promotion` | 3 scheduled runs, 1 reviewer, 2 versions, 2 releases, 2 reports, 2 other events | 495,822 | seen before promoted, promotions stay, the wire, runs at work together |

Runs that end in a violation show where the code and a statement in the
repository disagree: see section 6.

Why these sizes. The lock needs three processes: a dead holder and two waiters.
The rotating token needs two rotations, so that a token can be two generations
old, and two processes, one ahead of and one behind the other; a third process
only repeats the part of the second. One fault is enough for each cause, since
every property speaks of the time before the first one, or of what happens
after any single one. Two saves in flight per process are what the code allows
at a time in practice: the timer's and the refresh's. In SingleFlight the third
caller is what makes two callers resume behind one idle refresh. In
AccountStorage two rows and a login let one row be kept, one move and one be
added by somebody else, and two changes are enough for one actor to act on what
another has changed. The counters need three requests: one written, one in a
payload, one in the delta. In RequestLoop two requests make one another stale,
the third account lets the rows move between them, and two faults take a request
past its second account; an edit of the file and the end of a rate limit share
one bound, so that no behaviour has both. Exchange needs two turns for a history that the plugin
itself has translated, and three for one that was translated twice; its nine
settings are the ways through the body and header builders. Promotion needs three
runs, one more than a single removal lets in, and the second version for the
fallback of the profile: the plugin asks for version 2, of which there may be no
manifest yet. One scenario suffices, since fields are compared one by one.

`TokenRefresh.cfg` stops at states past the first cause (`BeforeAnyCause`): its
properties claim nothing from there on. Processes are interchangeable in it
(`SYMMETRY`), as are requests in RequestLoop and scheduled runs in Promotion; the
runs with liveness properties use no symmetry. All
configurations turn the deadlock check off: the bounds on calls, faults and
changes let every instance run out of things to do, and a process with nothing
to do is not an error. That nobody waits for ever is a liveness property of its
own where it matters.

### What the properties say

* `ExclusiveUntilBroken`, `LapsesPaidByBreaks`: without a stale file removed
  the lock is exclusive; each removal costs one holder its lease at most.
* `WaiterIsServed`: a waiter gets the lock or an answer even if its deadline
  never comes.
* `RequestCarriesCurrentToken`, `SharedRefreshIsCurrent`: no request to the
  token endpoint carries a rotated token before a cause, across processes and
  within one.
* `CurrentTokenSurvives`: the server's current token is in the file or a live
  lock holder is about to put it there. `DiskGoesBackOnlyWithCause`: the file
  never returns to an older one.
* `DisabledOnlyWithCause` and the sharper `DisabledOnlyWhenTokenLost`: an
  account is given up only if neither memory nor the file has the current token
  (with one manager; with two, the caller may hold an outdated object).
* `OneRefreshAtATime`, `WaitersHaveFlight`, `CallersAnswered`: the single flight.
* `NoDuplicateRows`, `TokensStayWithAccount`, `RowsLostOnPurpose`,
  `CollapsedRowsStayOut`, `ActiveAccountSurvivesMerge`,
  `SyncLeavesUsableAccount`: the file. The first two hold although any merge may
  match by any of three keys; the exceptions of `mixed` are needed: a slash login
  of a known account adds a row, and a slash reauth that completes after its row
  has moved, followed by a save of the plugin, leaves a row with the token of
  another account; and once that has happened, a merge may take the two rows for
  one and drop the other's (`RowsLostOnPurpose` excepts `"misdirected"`).
  The instance has `AccountOf = AllDifferent`: the identities in the rows say
  which account a row is of, and what is left for the load-time repair are second
  rows of one identity. That is a real condition. With `BTwinOfA`, where two
  identities are one account and only the repair finds out, TLC finds
  `NoDuplicateRows`, `ActiveAccountSurvivesMerge` and `RowsLostOnPurpose`
  violated: a process that has repaired its rows and one that has not do not
  agree on whose a row is. `TokensStayWithAccount`, `CollapsedRowsStayOut` and
  `SyncLeavesUsableAccount` hold there too.
* `NothingCountedTwice`, `UsageLostOnlyWithCause`: the counters.
* `AccountsTriedOnce` and `GivesUpForReason` hold of a request that no sync of
  another request has disturbed; with one, an account may really be tried twice
  or passed over. `TrackersFollowAccounts` and `PenaltiesAreEarned` relate
  positions to accounts and hold regardless. `FilePinFollowsOwner` does too, but only
  until the rows have moved since the upload: from then on the code really sends the
  file with another account. `LongContextRetryDropsNext`: the retry has no beta that
  its own first try had not, and not the one that is next in the order of
  exclusions, also when other requests exclude betas at the same time. It need not
  have fewer betas: what is next may not have been in the header (`context-1m` is
  sent to few models, `betas.ts:187`), and with signature emulation off exclusions
  are not applied at all (`betas.ts:142`); the code then sends the same header again.
* `RequestAdvances`: every step of a request lowers a variant, so that no mix of
  attempts, retries and exclusions goes on for ever. That is termination without
  any fairness but that of a started `await`.
* `CallsComeBackByName`, `HistoryAsSpoken`: names survive the way out, the way back
  and the next way out. Only names in OpenCode's plain form are promised; kebab,
  digit and camel names come back as other names. `HistoryAsSpoken` has one exception:
  the wire name `Advisor` comes back as the preserved `advisor`, which goes out as it
  is, so that the history then has the preserved name.
* `CacheBreakpointsBounded`, `BetasCoverBody`, `AttemptsDifferOnlyInAccount`: what
  is sent. `BetasCoverBody` excludes the settings where the code really sends a
  setting without its beta (see below).
* `ImplementsResponseStream`: order, completeness, one report of usage.
  `StarvedOnlyByEmptyBlocks` bounds a real flaw: see below.
* `PromotedAsSeen` and `PromotionsKept` name the exceptions the code makes: a late
  capture of Claude Code; a torn file or overlapping promotions.
* `WireNeedsVerification`: a critical or sensitive field is sent as this release's own
  value or as one promoted for the version the profile is made of. The exception
  are the two lists of betas. Where the served profile has none, the header gets what
  some candidate manifest says, and the property says no more than that of it: see
  section 6. Every other field has the guarantee without exception.
* `RunsPaidByRemovals`: scheduled runs do not exclude each other, because any of
  several events takes the lock away. What holds is a bound: each such event lets in
  one run more at most, although every run that ends removes the lock of whoever has
  it then.

### Fairness

Fairness is assumed of steps that the runtime takes by itself: an `await` that
has been started settles (file operations end, a request is answered or aborted
after 10 s, a promise continuation runs). Nothing is assumed of users, requests,
crashes, faults, saves or syncs. In `RefreshLock` the deadline of a waiter is
left unfair on purpose: a waiter must get through because dead files go stale,
not because it gives up.

## 4. Proofs

| theorem | statement |
|---|---|
| `RefreshLock_proofs!TypeCorrect` | `Spec => []TypeOK` |
| `RefreshLock_proofs!MutualExclusion` | `Spec => []ExclusiveUntilBroken` |
| `RefreshLock_proofs!LiveLeaseUnique` | `Spec => []Lease!OneLiveLease` |
| `RefreshLock_proofs!LeaseRefinement` | `Spec => ImplementsLeaseLock` |
| `RefreshLock_proofs!LapsesArePaid` | `Spec => []LapsesPaidByBreaks` |
| `TokenRefresh_proofs!TypeCorrect` | `Spec => []TypeOK` |
| `TokenRefresh_proofs!CurrentTokenSent` | `Spec => []RequestCarriesCurrentToken` |
| `TokenRefresh_proofs!NeverDisabled` | `Spec => []DisabledOnlyWithCause` |
| `TokenRefresh_proofs!TokenSurvives` | `Spec => []CurrentTokenSurvives` |
| `TokenRefresh_proofs!DiskMovesForward` | `Spec => DiskGoesBackOnlyWithCause` |
| `SingleFlight_proofs!TypeCorrect` | `Spec => []TypeOK` |
| `SingleFlight_proofs!SingleRefresh` | `Spec => []OneRefreshAtATime` |
| `SingleFlight_proofs!NobodyForgotten` | `Spec => []WaitersHaveFlight` |
| `SingleFlight_proofs!SharedTokenCurrent` | `Spec => []SharedRefreshIsCurrent` |
| `SingleFlight_proofs!DisabledOnlyWhenLost` | `Spec => DisabledOnlyWhenTokenLost` |
| `Exchange_proofs!StatsTypeCorrect` | `StatsSpec => []StatsTypeOK` |
| `Exchange_proofs!CountedOnce` | `StatsSpec => []NothingCountedTwice` |
| `Exchange_proofs!LostOnlyWithCause` | `StatsSpec => []UsageLostOnlyWithCause` |
| `Exchange_proofs!ExchangeInvariant` | `Spec => []ExchangeInv` |
| `Exchange_proofs!NamesComeBack` | `Spec => []CallsComeBackByName` |
| `Exchange_proofs!HistoryIsAsSpoken` | `Spec => []HistoryAsSpoken` |
| `Exchange_proofs!BreakpointsBounded` | `Spec => []CacheBreakpointsBounded` |
| `Exchange_proofs!BetasCover` | `Spec => []BetasCoverBody` |
| `Exchange_proofs!StarvedOnlyByBarrenPulls` | `Spec => []StarvedOnlyByEmptyBlocks` |
| `Exchange_proofs!AttemptsDiffer` | `Spec => AttemptsDifferOnlyInAccount` |
| `Exchange_proofs!StreamImplementsResponse` | `Spec => ImplementsResponseStream` |
| `AccountStorage_proofs!TypeCorrect` | `Spec => [](Shaped /\ Typed)` |
| `AccountStorage_proofs!TokensStay` | `Spec => []TokensStayWithAccount` |
| `AccountStorage_proofs!CollapsedStayOut` | `Spec => CollapsedRowsStayOut` |
| `AccountStorage_proofs!NoDuplicates` | `Spec => []NoDuplicateRows`, if `Recognised` |
| `AccountStorage_proofs!ActiveSurvives` | `Spec => ActiveAccountSurvivesMerge`, if `Recognised` |
| `AccountStorage_proofs!LostOnPurpose` | `Spec => RowsLostOnPurpose`, if `Recognised` |
| `AccountStorage_proofs!SyncUsable` | `Spec => SyncLeavesUsableAccount`, if `Recognised` |
| `RequestLoop_proofs!TrackersFollow` | `Spec => []TrackersFollowAccounts` |
| `RequestLoop_proofs!TriedOnce` | `Spec => []AccountsTriedOnce` |
| `RequestLoop_proofs!GivesUpRightly` | `Spec => GivesUpForReason` |
| `RequestLoop_proofs!RequestsAdvance` | `Spec => RequestAdvances` |
| `RequestLoop_proofs!RetriesDropNext` | `Spec => LongContextRetryDropsNext` |
| `RequestLoop_proofs!OnlyRefusedRest` | `Spec => []PenaltiesAreEarned` |
| `RequestLoop_proofs!PinsFollowOwners` | `Spec => FilePinFollowsOwner` |
| `Promotion_proofs!RunsArePaid` | `Spec => []RunsPaidByRemovals` |
| `Promotion_proofs!PromotionsStay` | `Spec => []PromotionsKept` |
| `Promotion_proofs!SentWhenPromoted` | `Spec => []WireNeedsVerification` |
| `Promotion_proofs!PromotedFromReports` | `Spec => []PromotedAsSeen` |

They hold for every set of processes, requests, inodes, refreshes, accounts,
settings, answers, fields and versions and every bound; the assumptions are the `ASSUME`s of the
modules, about constants only. Processes are finite in UsageStats, where deltas
are summed, accounts in RequestLoop and scheduled runs in Promotion, where they are
counted. `Recognised`, `\A who \in Person : AccountOf[who] = who`, is the hypothesis
that no two identities are one account; section 3 says what happens without it.
`SyncUsable` has it although TLC finds no violation without in the small instance: its proof
goes through `NoDuplicateRows`. The type invariants of RefreshLock, TokenRefresh,
SingleFlight and UsageStats are conjuncts of the invariants below and proved with
them.

*RefreshLock.* `ExclusiveUntilBroken` is not inductive: it does not say why the
file at the path keeps a second holder out. The invariant adds that every call
has an owner token of its own, that the file's owner is one that was issued, and
that until a removal every holder's file is still at the path. Two holders then
own the one file there, so they have the same token and are the same process.
For the refinement each action is shown to acquire, to release, to lapse, to
release one lease and lapse another, or to leave holders and files alone; a file
has one owner, so a step that takes it away takes at most one lease. That is also
why `LapsesPaidByBreaks` holds: a step that makes one holder lapse either counts
a removal or is a release, which takes a lapsed holder out in the same step.

*TokenRefresh.* The invariant `Inv` says, until the first cause: the lock is held
by exactly the process in the critical section (`Locked`); among all copies of the
credentials a later stamp never has an older token (`Ordered`); a save that is
about to rename has merged everything it read, and nobody has written since
(`WritesMerged`); and the token that is sent, answered or being persisted is the
server's latest, with the file current or its holder about to make it so
(`Current`). The four need one another: the order of stamps makes every merge
choose the later token, the lock makes the reader of the file its only rotator.

*SingleFlight.* `OneRefreshAtATime` needs that the map's entry and the refresh
under way are the same thing, and `WaitersHaveFlight` that whoever waits waits
for that entry. Both are conjuncts of the invariant; two lemmas carry them over
the call of the single flight and over the end of a refresh, and every step that
touches the map goes through one of these. `SharedRefreshIsCurrent` adds, until
the first cause, the order of the copies and that a refresh after its read of the
file, with the lock, has the latest token. `DisabledOnlyWhenTokenLost` must hold
after causes too, when copies are no longer in order. What remains, as long as
there is one manager, is that a file with the server's token is newer than memory
without it (`FileLeads`): no copying breaks that, and a lost answer or a rotation
leaves no such file. So the read of the file finds the token if either has it, a
call with another token means that neither has (`Gone`), and while the lock is
held none can get it back.

*UsageStats.* For `NothingCountedTwice`, memory, the objects and texts of saves and
what a command has loaded count as the file does: none of them, with the deltas
of the other processes, is more than what was recorded (`Counted`), so whichever
of them is written next counts nothing twice. `UsageLostOnlyWithCause` needs
equality (`NoneLost`): until a cause the file and all deltas are what is due, and
a save that no later write has overtaken will write the file's count plus its
process's delta, so its rename moves the delta into the file and changes no
sum. In both the payload that shares its object with memory is the case that
needs care. Sums are taken over the pairs of a process and a unit of its delta,
whose number `FiniteSetTheorems` counts.

*AccountFile.* Its operators are folds and selections, but what they return is
proved of any number of rows: a property of the first `n` rows goes over to the
first `n + 1`, and the numbers for which it fails would have a least element
(`LeastNat`, `SetInduction`; the library's own induction theorems take operators).
So `Find` returns a row that matches by the first key that any row matches by,
`Foreign` and `Union` add the rows of the file that nothing in memory matches,
and `Reconciled` returns a row for every row of the file, an old one or a new one.

*AccountStorage.* Every list of rows that a step leaves is made, by one of a few
operators, from a list that was there, with at most one new row (`MadeFrom`); the
lists are those of the file, the managers, the saves and the commands. A set of
rows closed under what these operators do to a row (`Closed`) therefore holds all
the rows there will ever be. Such sets are the rows whose ids and tokens have been
given out (`Typed`) and the rows whose token is their account's, with an id that no other account has
(`Sound`, which is `TokensStay`). `NoDuplicates` adds that no list has two rows of
one identity (`Kept`): by `Sound` rows that match by any of the keys are of one
identity, so a merge finds the row of an identity if there is one, and adds one
only if there is none. For `LostOnPurpose` a save about to rename has, for every
row of the file it has seen, a row of that identity with a token as new, or means
to drop it (`Covered`).

*RequestLoop.* The three older theorems rest on small invariants that say nothing
of merges: no more betas were excluded when a header was built than are now, so that
an exclusion at the error goes beyond them (`RetriesDropNext`);
only accounts in `refused` have a limit in memory or in the file; and until the
rows move, the pin's position has its owner. The others need `Looping`. It says of
memory and of the file that they have one row per account and that the track kept
for a position is what its account has earned (`Manager`, `Disk`; a sync goes
through the lemmas about `Reconciled`). It says of a live request that its
account is among the rows and its attempts are within its bound (`Ongoing`) and,
while it is undisturbed, that it has made as many attempts as it has tried
accounts, each once; that what it skips it has tried; and that an enabled account
that it has tried is skipped or is the one it is using (`Counted`). A request that
finds no account, or has used up its attempts, has then tried all that were
enabled, because the bound is the number of rows. `RequestsAdvance` uses the same
invariant to show that every variant is a number and that each step of a request
lowers it, disturbed or not.

*Exchange.* `ExchangeInv` has four parts. *The conversation*: OpenCode's messages
have only tool uses that the API has said, under the name that
`ToInternalToolName` made of what it said (`ChatOK`), and every answer has a turn of
its own, so that an id names one use (`TurnsSpoken`). *The request*: what is on the
wire is `TransformRequestBody` of the original body for some account (`OriginalOK`,
`AttemptOK`), which is why attempts cannot differ otherwise; and whatever that
function is applied to, the names in its messages are those the API used, uses
and results have the same ids, at most one system block and three others are
marked, and effort goes with the model (`WireOK`). The lemmas
under it follow each step of the function in turn: what `RepairToolPairs` keeps,
where the marks go, and that `ToWireToolName` undoes `ToInternalToolName` on the
names that were on the wire. *The answer* (`AnswerOK`) ties what was said to the
events still to be read, also when their text was cut off. *The stream*
(`StreamOK`) says how far the parser is. Its core is `Linked`: the buffer holds,
joined as the server wrote them, the data of just those events that were read and
not yet passed on. From it follows that the block before the next blank line holds
the data of the next event, or none, wherever chunks were cut, between the bytes
of a CRLF too (`ChunkLinked`, `ProcessBufferedEvents`). `Accounted` is what the
parser has learnt of tokens and open blocks, and `PullOK` relates pulls, the
pending read and the queue; `StarvedOnlyByEmptyBlocks` is one case of it. The
parsers are recursive functions on the length of their input: a family of sets
indexed by it is shown to hold every intermediate result.

For `StreamImplementsResponse` every step of the exchange is shown to be, for the
reader, one that begins an answer, delivers one event, reports the usage of all
that was sent, closes, fails, cancels, or changes nothing: a chunk may hold many
events, but at most one of them goes to the pending read and the others to the
queue. That the tokens told are those of the last `message_delta`, or else of the
start, and that a strict answer that ends is whole, comes from `Accounted` when
nothing is left to be read. ExchangeInv was checked with TLC on the instance
`exchange` before it was proved.

*Promotion.* Types first (`Typed`), with the shape of every worker. `PromotionsKept`
needs that a writer of an unspoiled version is alone and that what it is about to
write extends what is there. `WireNeedsVerification` follows a value from the file
to the cache, from there to the profile that is served, and to the request: every
manifest the process has read was promoted or is a candidate, so each field of a
profile is its own or promoted, and the inventories change the two lists only, and
only where the profile has none. `PromotedAsSeen` goes back the other way, from a
promoted field over the merge to the report, and from the report to the captures
of one scenario; that the latest version exists comes from well-founded
induction on the versions below it. `RunsPaidByRemovals` is strengthened by a second
bound (`Paid`): with the lock free there are no more runs at work than removals. A
start then keeps the first, and a removal, which frees the lock, pays for the
second; the end of a run frees the lock too, but takes a run away.

*Only model-checked:* liveness (`WaiterIsServed`, `RefreshEnds`,
`CallersAnswered`), which needs fairness and `ENABLED`, out of the prover's reach.
Every other property of a passing run is stated by a theorem.

## 5. Plan

Built: the lock, the token over processes and within one, the accounts file with
identities, logins and slash commands, the counters, the request loop with
rotation and back-off, the exchange with body, betas and stream, and the way of a
fingerprint from a bundle to the wire; proofs for all of these.

Still worth doing, in this order:

1. `SyncLeavesUsableAccount` without `Recognised`.
2. Claude Code credentials as a second source in TokenRefresh; the choice of the
   idle refresh in SingleFlight.
3. A single-writer register of the current token that TokenRefresh implements
   until the first cause, and a counter that UsageStats implements in that sense.
4. Offline captures and merge settings other than the default in Promotion.

## 6. Where the code and its statements disagree

| run | statement | what the run finds |
|---|---|---|
| `refresh_lock_reaper` | "stale reaper does NOT steal a lock held for 60s" (`tests/unit/refresh-lock.test.ts:79`) | two waiters find the same dead file stale; the second `unlink` removes the fresh lock of the first |
| `single_flight_persist` | "Persist new tokens to disk BEFORE releasing the cross-process lock." (`src/token-refresh.ts:320`) | a request's sync, or a reload of the manager, between the answer and the save makes the save write the old token |
| `account_remove` | "Remove an account permanently." (`src/cli/commands/auth.ts:875`) | the union in the command's own save puts the removed row back |

Other behaviours the models show, which their properties name as exceptions or
leave room for:

*Accounts.* A plugin's delayed save writes its own enabled flags and active
account over what a command has just set (`accounts.ts:580`); after `logout --all`
(`cli/commands/auth.ts:344`) and `logout` (`:301`) the next save of a running
plugin, or the command's own, writes rows back. A sync takes the rate limits of a
file that may be a second old over newer marks (`accounts/matching.ts:167`). A
slash login of a known account adds a second row (`commands/oauth-flow.ts:132`;
`CHANGELOG.md:142` has "identity-based matching"), which a later load collapses; a
slash reauth goes by position (`:201`). A delayed save that has merged before a
refresh persisted its tokens renames the old ones over them
(`storage.ts:433`; cause `"overlap"` of TokenRefresh).

*Requests.* A pinned session never returns to its account after a rate limit.
`SWITCH_THRESHOLD` cannot matter, since the bonus of 150 exceeds it. Overlapping
long-context errors exclude more betas than needed. A service-wide error is
retried twice although `README.md:614` says it is returned directly.

*Exchange.* A pull that sees only blocks without data returns without enqueuing
(`response/streaming.ts:468`), and two of them in a row leave the reader waiting;
truncation of an ok answer is not detected, since the check is strict only
without callbacks (`:384`); a failing stream drops what is queued. Names with
hyphens, digits or inner capitals come back as other names; `tool_choice.name` and
`tool_reference` keep OpenCode's names. `context_management` is added with
experimental betas disabled and for Claude 3 too.

*Promotion.* While nothing is promoted for a version, its profile has no betas, and
`betas.ts:38-82` then takes `optionalBetas` and `authModeBetas` from the candidate
manifest of the version asked for, or of the latest one; `:168-235` send them. The
first list is sensitive, the second critical, and neither has been verified:
"Auth-sensitive fields must **never** use candidate-only data without explicit
allowlisting." (`docs/fingerprint-ingestion.md:113`), and "`anthropic-beta`
composition" is among what "Must Be Live-Verified" (`:212-217`). Without the third
disjunct of `WireNeedsVerification` TLC shows it at once: a plugin that asks for
version 2 sends the lists of the candidate of version 1.

The trap of `run-scheduled-verifier.sh:96` removes the lock directory of the run at
work when a run finds the lock and leaves, when a run is called with `--help` or a
wrong option (`:113-121`), or when an executable is missing (`:126-132`). On INT or TERM
it removes the lock and the script goes on, promoting without it. A request of
Claude Code parsed after its command ended is taken for the plugin's. The installed
version of Claude Code is not checked against the manifest's, and the plugin under
test asks for its own version, not for the one under verification
(`index.ts:165-183`). A rejected field stays promoted, and an older report applied
later overrides a newer one. Two promotions may lose each other's index entry, since
the index is read and written in two steps. A torn verified manifest starts over, a
torn index of candidates stops the builder for good, and a plugin keeps what it has
read until it restarts.

## 7. Not modelled

Claude Code credentials are read by subprocesses; transport is one `fetch`; the
session sidecar and scope are small caches; configuration is a file with one
writer as a rule; display and logging change no state; the extraction and
maintenance scripts read bundles once and keep nothing. The text of prompts,
headers and manifests, JSON and header parsing, and the tables of models and
names are data that no property tells apart. The components with the status
`not_modelled` or `partly` in `PROJECT.json` each have their reason there.

## Running

    tlc -config RefreshLock.cfg MCRefreshLock
    tlapm RefreshLock_proofs.tla

and likewise for the other configurations and proof modules.
