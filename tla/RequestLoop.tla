------------------------------ MODULE RequestLoop ------------------------------
(***************************************************************************)
(* The requests of one OpenCode process and its AccountManager:            *)
(* executeOAuthFetch (src/request-orchestration-helpers.ts) tries one      *)
(* account after another, and between two of its awaits other requests     *)
(* mark accounts, sync the manager with the accounts file and so move its  *)
(* rows.  A request holds account objects, but remembers what to skip by   *)
(* position; an uploaded file is remembered by position too.               *)
(*                                                                         *)
(* A refresh with its retry is one step (SingleFlight has it in detail), a *)
(* sync reads the file in the step that applies it, and toasts take no     *)
(* time.  Positions count from 1; position 0 is the code's currentIndex    *)
(* -1.                                                                     *)
(***************************************************************************)
EXTENDS AccountFile, Rotation, Backoff

CONSTANTS
    Account, NoAccount,
    FirstRows,    \* the rows when the requests start
    FirstTokens,  \* the accounts whose access token is fresh then
    UploadedAt,   \* the position of the account a file was uploaded with
    Request,      \* requests, each made once
    Answers,      \* answers of the API, see Backoff
    Strategies,   \* settings of account_selection_strategy
    MaxRetries,   \* maxRetries, the retries of fetchWithRetry
    MaxBetas,     \* the betas of LONG_CONTEXT_EXCLUSION_ORDER
    MaxEvents,    \* bound: writes of other processes, rate limits that end
    MaxFaults     \* bound: answers that are not ok, and broken connections

ASSUME ConstantsOK ==
    /\ IsFiniteSet(Account) /\ NoAccount \notin Account
    /\ UploadedAt \in DOMAIN FirstRows
    /\ {MaxRetries, MaxBetas, MaxEvents, MaxFaults} \subseteq Nat
    /\ Strategies \subseteq {"sticky", "round-robin", "hybrid"}

VARIABLES
    mem,      \* the AccountManager
    file,     \* the accounts file
    dirty,    \* the timer of requestSaveToDisk runs
    req,      \* req[r]: an executeOAuthFetch call
    excluded, \* excludedByModel: how many betas of the order are excluded for the
              \* model; without: how many were when headers were built
    pin,      \* the entry of fileAccountMap for an uploaded file
    session,  \* strategy, and whether INITIAL_ACCOUNT pins the session
    refused,  \* history: accounts that got an account error
    budget    \* what is left of the bounds

vars == <<mem, file, dirty, req, excluded, pin, session, refused, budget>>

\* A row of its own for every account, whose identity stays and whose refresh
\* token is left to SingleFlight.
RowOf(a) == [id |-> a, who |-> a, token |-> [of |-> a, at |-> 0], enabled |-> TRUE]

\* Ids and identities are as good as accounts here.
ASSUME NamesOK == Id = Account /\ Person = Account

ASSUME FirstRowsOK ==
    /\ FirstRows \in Seq(Row) /\ Distinct(FirstRows)
    /\ \A i \in DOMAIN FirstRows :
           FirstRows[i] = [RowOf(FirstRows[i].id) EXCEPT !.enabled = FirstRows[i].enabled]

ASSUME AnswersOK == \A answer \in Answers : answer.retryAfter \in Nat

\* rateLimitResetTimes as the milliseconds the mark was set for, 0 once past;
\* consecutiveFailures; whether the access token looks fresh; whether lastUsed
\* is after the start, else it is long ago.
Data == [limited: Nat, failures: Nat, token: BOOLEAN, used: BOOLEAN]
NoData == [limited |-> 0, failures |-> 0, token |-> FALSE, used |-> FALSE]

GaveUp == {"exhausted", "noEnabled", "noAvailable"}
NotStarted ==
    [step |-> "idle", account |-> NoAccount, attempt |-> 0, max |-> 0,
     skip |-> {}, without |-> 0, retries |-> 0, result |-> "none",
     tried |-> [a \in Account |-> 0], disturbed |-> FALSE]

\* An entry made by /anthropic files upload (capFileAccountMap): the position
\* of the account.  owner and moved are history.
Uploaded(rows, i) == [position |-> i, owner |-> rows[i].id, moved |-> FALSE]

\* Set up by load and, in a pinned session, forceCurrentIndex.
Init ==
    /\ LET data == [a \in Account |->
                       [NoData EXCEPT !.token = a \in FirstTokens]]
       IN  /\ mem = [rows |-> FirstRows, current |-> 1, cursor |-> 0,
                     data |-> data,
                     track |-> [i \in 1..Cardinality(Account) |-> NewTracker],
                     earned |-> [a \in Account |-> NewTracker]]
           /\ file = [rows |-> FirstRows, active |-> 1, data |-> data]
    /\ dirty = FALSE
    /\ req = [r \in Request |-> NotStarted]
    /\ excluded = 0
    /\ pin = Uploaded(FirstRows, UploadedAt)
    /\ \E strategy \in Strategies, pinned \in BOOLEAN :
           /\ pinned => strategy = "sticky"
           /\ session = [strategy |-> strategy, pinned |-> pinned]
    /\ refused = {}
    /\ budget = [events |-> MaxEvents, faults |-> MaxFaults]

IdsInOrder(rows) == [i \in DOMAIN rows |-> rows[i].id]
Position(m, a) == CHOOSE i \in DOMAIN m.rows : m.rows[i].id = a

------------------------------------------------------------------------------
(* The manager.  m is its state; m.earned is history: m.track by account.  *)

\* Mutant: only a change in the number of rows rebuilds the trackers.
ShouldRebuild_LengthOnly(m, rows) == Len(rows) # Len(m.rows)

\* shouldRebuildTrackers: rows moved or new, or a missing one disabled.
ShouldRebuild(m, rows) ==
    \/ IdsInOrder(rows) # IdsInOrder(m.rows)
    \/ \E i \in DOMAIN m.rows : m.rows[i].enabled /\ m.rows[i].id \notin Ids(file.rows)

\* What a sync makes of m: these rows, and this row the current one.  The
\* trackers start anew when they are rebuilt, and the health of the account that
\* becomes active is reset.
Synced(m, rows, current) ==
    LET rebuild == ShouldRebuild(m, rows)
        takes == /\ current # m.current
                 /\ Clamp(file.rows, file.active) \in Enabled(file.rows)
        Tracked(t, reset) ==
            LET t1 == IF rebuild THEN NewTracker ELSE t
            IN  IF reset THEN [t1 EXCEPT !.score = InitialScore] ELSE t1
    IN  [rows |-> rows, current |-> current,
         cursor |-> IF current = 0 THEN 0 ELSE current - 1,
         data |-> [a \in Account |->
             IF a \in Ids(file.rows)
             THEN [file.data[a] EXCEPT !.token = @ \/ m.data[a].token]
             ELSE m.data[a]],
         track |-> [i \in DOMAIN m.track |->
                       Tracked(m.track[i], takes /\ i = current)],
         earned |-> [a \in Account |->
             LET known == a \in Ids(m.rows)
                 reset == takes /\ a = rows[current].id
             IN  Tracked(IF known THEN m.earned[a] ELSE NewTracker, reset)]]

\* syncActiveIndexFromDisk.
Sync(m) ==
    LET rows == Reconciled(m.rows, file)
    IN  Synced(m, rows, ReconciledCurrent(rows, m.current, file))

\* saveToDisk, read, merged and written at once.
Saved(m) ==
    LET new == Prepare(m.rows, m.current, {}, file)
    IN  [rows |-> new.rows, active |-> new.active,
         data |-> [a \in Account |->
             IF a \in Ids(m.rows) THEN m.data[a] ELSE file.data[a]]]

MarkSuccess(m, a) ==
    [m EXCEPT !.track[Position(m, a)] = RecordSuccess(@),
              !.earned[a] = RecordSuccess(@),
              !.data[a].failures = 0]
MarkFailure(m, a) ==
    [m EXCEPT !.track[Position(m, a)] = RecordFailure(@),
              !.earned[a] = RecordFailure(@)]

\* markRateLimited, all within failure_ttl_seconds.
MarkRateLimited(m, a, reason, retryAfter) ==
    [m EXCEPT !.track[Position(m, a)] = RecordRateLimit(@),
              !.earned[a] = RecordRateLimit(@),
              !.data[a].failures = @ + 1,
              !.data[a].limited =
                  CalculateBackoffMs(reason, m.data[a].failures, retryAfter)]

\* Mutant: the active account is marked, not the one that was used.
Limited_Current(m, a, reason, retryAfter) ==
    MarkRateLimited(m, m.rows[m.current].id, reason, retryAfter)

\* An AUTH_FAILED takes the access token with it.
Limited(m, a, reason, retryAfter) ==
    LET marked == MarkRateLimited(m, a, reason, retryAfter)
    IN  IF reason = "AUTH_FAILED"
        THEN [marked EXCEPT !.data[a].token = FALSE]
        ELSE marked

Available(m, skip) ==
    InOrder({i \in Enabled(m.rows) \ skip : m.data[m.rows[i].id].limited = 0})

\* getCurrentAccount, when an account is available.
Select(m, skip) ==
    LET rested == [i \in DOMAIN m.rows |-> ~m.data[m.rows[i].id].used]
        choice == SelectAccount(Available(m, skip), session.strategy,
                                m.current, m.cursor, m.track, rested)
        a == m.rows[choice.index].id
    IN  [m EXCEPT !.track[choice.index] = Consume(@), !.earned[a] = Consume(@),
            !.current = choice.index, !.cursor = choice.cursor,
            !.data[a].used = TRUE]

------------------------------------------------------------------------------
(* A request                                                               *)

Spend(bound) == budget[bound] > 0 /\ budget' = [budget EXCEPT ![bound] = @ - 1]

Live(q) == q.step \notin {"idle", "ended"}
End(q, result) == [NotStarted EXCEPT !.step = "ended", !.result = result]

\* Mutant: the attempt is not counted.
Trying_Uncounted(q, a, m) ==
    [q EXCEPT !.step = IF m.data[a].token THEN "sent" ELSE "refreshing",
              !.without = excluded, !.account = a,
              !.retries = 0, !.tried[a] = @ + 1]

\* An attempt with account a of m, up to its first await.
Trying(q, a, m) ==
    [q EXCEPT !.step = IF m.data[a].token THEN "sent" ELSE "refreshing",
              !.without = excluded, !.account = a, !.attempt = @ + 1,
              !.retries = 0, !.tried[a] = @ + 1]

\* Mutant: one attempt too few.
Attempt_OneLess(r, reqs, q, m) ==
    IF q.attempt + 1 >= q.max \/ Available(m, q.skip) = <<>>
    THEN /\ req' = [reqs EXCEPT ![r] = End(q, "exhausted")]
         /\ mem' = m
    ELSE LET chosen == Select(m, q.skip)
             a == chosen.rows[chosen.current].id
         IN  req' = [reqs EXCEPT ![r] = Trying(q, a, chosen)] /\ mem' = chosen

\* The head of the attempt loop: request r, in state q, goes on with the next
\* account.  reqs: the requests so far.
Attempt(r, reqs, q, m) ==
    LET Becomes(new, m2) == req' = [reqs EXCEPT ![r] = new] /\ mem' = m2
    IN  \/ /\ q.attempt >= q.max
           /\ Becomes(End(q, "exhausted"), m)
        \/ /\ q.attempt < q.max /\ Available(m, q.skip) = <<>>
           /\ Becomes(End(q, IF Enabled(m.rows) = {} THEN "noEnabled"
                             ELSE "noAvailable"), m)
        \/ /\ q.attempt < q.max /\ Available(m, q.skip) # <<>>
           /\ LET chosen == Select(m, q.skip)
              IN  Becomes(Trying(q, chosen.rows[chosen.current].id, chosen),
                          chosen)

\* What a sync to m does to the other requests: the rows move under them, or
\* an account they have tried is enabled again.
Disturb(m) ==
    [s \in Request |->
        [req[s] EXCEPT !.disturbed = @ \/
            /\ Live(req[s])
            /\ \/ IdsInOrder(m.rows) # IdsInOrder(mem.rows)
               \/ \E i \in Enabled(m.rows) \ Enabled(mem.rows) :
                      req[s].tried[m.rows[i].id] > 0]]

\* Mutant: the position is taken among the enabled accounts.
ResolvePinnedAccount_AmongEnabled(m) ==
    LET enabled == SelectSeq(m.rows, LAMBDA row : row.enabled)
    IN  {enabled[i].id : i \in {pin.position} \cap DOMAIN enabled}

\* resolvePinnedAccount: the enabled account at the remembered position.
ResolvePinnedAccount(m) ==
    {m.rows[i].id : i \in {pin.position} \cap Enabled(m.rows)}

\* executeOAuthFetch up to its first attempt, which goes to the account of the
\* file the body names, if any, whatever the limits of that account.
Begin(r, withFile) ==
    /\ req[r].step = "idle"
    /\ \E m \in {IF session.pinned THEN mem ELSE Sync(mem)} :
       LET pinned == IF withFile THEN ResolvePinnedAccount(m) ELSE {}
           q == [NotStarted EXCEPT !.max = Len(m.rows)]
       IN  /\ \/ /\ pinned = {} /\ Attempt(r, Disturb(m), q, m)
              \/ \E a \in pinned :
                     /\ mem' = m
                     /\ req' = [Disturb(m) EXCEPT ![r] = Trying(q, a, m)]
           /\ pin' = [pin EXCEPT !.moved = @ \/
                          IdsInOrder(m.rows) # IdsInOrder(mem.rows)]
    /\ UNCHANGED <<file, dirty, excluded, session, refused, budget>>

\* The refresh that the request waits for ends: with new tokens, which are saved
\* under the lock (or were, for a request that waited before), or with an error.
\* A dead account is disabled, not skipped.
RefreshEnds(r) ==
    LET q == req[r]
        i == Position(mem, q.account)
        failed == MarkFailure(mem, q.account)
    IN
    /\ q.step = "refreshing"
    /\ \/ /\ req' = [req EXCEPT ![r] = [q EXCEPT !.step = "sent",
                                                 !.without = excluded]]
          /\ mem' = [mem EXCEPT !.data[q.account].token = TRUE]
          /\ file' = IF mem' = mem THEN file ELSE Saved(mem')
          /\ UNCHANGED <<dirty, budget>>
       \/ /\ ~mem.data[q.account].token
          /\ Attempt(r, req, [q EXCEPT !.skip = @ \cup {i}], failed)
          /\ Spend("faults")
          /\ UNCHANGED <<file, dirty>>
       \/ /\ ~mem.data[q.account].token
          /\ Attempt(r, req, q, [failed EXCEPT
                 !.rows[i] = [RowOf(@.id) EXCEPT !.enabled = FALSE]])
          /\ dirty' = TRUE
          /\ Spend("faults")
          /\ UNCHANGED file
    /\ UNCHANGED <<excluded, pin, session, refused>>

\* fetchWithRetry after a broken connection, and after an answer not ok.
RetriesError(tries) == tries < MaxRetries
RetriesAnswer(tries, answer) == ShouldRetryStatus(answer) /\ tries < MaxRetries

\* Mutant: the account that failed is not skipped.
NetworkError_NoSkip(r) ==
    /\ req[r].step = "sent"
    /\ Attempt(r, req, req[r], MarkFailure(mem, req[r].account))
    /\ Spend("faults")
    /\ UNCHANGED <<file, dirty, excluded, pin, session, refused>>

\* The connection fails under fetchWithRetry, which tries again if the error
\* is retriable and retries are left, or gives the account up.
NetworkError(r) ==
    LET q == req[r] IN
    /\ q.step = "sent"
    /\ \/ /\ RetriesError(q.retries)
          /\ req' = [req EXCEPT ![r].retries = @ + 1]
          /\ UNCHANGED mem
       \/ Attempt(r, req,
                  [q EXCEPT !.skip = @ \cup {Position(mem, q.account)}],
                  MarkFailure(mem, q.account))
    /\ Spend("faults")
    /\ UNCHANGED <<file, dirty, excluded, pin, session, refused>>

\* An error of the account: it rests, and the request goes on with another.
AccountError(r, answer) ==
    LET q == [req[r] EXCEPT !.skip = @ \cup {Position(mem, req[r].account)}]
        reason == ParseRateLimitReason(answer)
        retryAfter == IF reason = "AUTH_FAILED" THEN 0 ELSE answer.retryAfter
        m == Limited(mem, q.account, reason, retryAfter)
    IN
    /\ req[r].step = "sent"
    /\ IsAccountSpecificError(answer)
    /\ Attempt(r, req, q, m)
    /\ dirty' = TRUE
    /\ refused' = refused \cup {q.account}
    /\ Spend("faults")
    /\ UNCHANGED <<file, excluded, pin, session>>

\* An ok answer, the first or that of a retry.
Success(r, answer) ==
    /\ req[r].step \in {"sent", "serviceRetry", "longRetry"}
    /\ Ok(answer)
    /\ mem' = MarkSuccess(mem, req[r].account)
    /\ req' = [req EXCEPT ![r].step = "streaming"]
    /\ UNCHANGED <<file, dirty, excluded, pin, session, refused, budget>>

\* retryServiceWideResponse: the first answer counts as one attempt, and what
\* comes in the end is returned whatever it is.
ServiceError(r, answer) ==
    LET q == req[r] IN
    /\ \/ /\ q.step = "sent"
          /\ IsServiceWide(answer) /\ ~IsAccountSpecificError(answer)
       \/ q.step = "serviceRetry" /\ ~Ok(answer)
    /\ LET tries == IF q.step = "sent" THEN 0 ELSE q.retries
       IN  req' = [req EXCEPT ![r] =
               IF RetriesAnswer(tries, answer)
               THEN [q EXCEPT !.step = "serviceRetry", !.retries = tries + 1]
               ELSE End(q, "responded")]
    /\ Spend("faults")
    /\ UNCHANGED <<mem, file, dirty, excluded, pin, session, refused>>

\* Mutant: the retry has the headers of the first try.
LongContextError_SameBetas(r, answer) ==
    /\ req[r].step = "sent"
    /\ ~Ok(answer) /\ IsLongContextError(answer)
    /\ excluded < MaxBetas
    /\ excluded' = excluded + 1
    /\ req' = [req EXCEPT ![r].step = "longRetry"]
    /\ Spend("faults")
    /\ UNCHANGED <<mem, file, dirty, pin, session, refused>>

\* One more beta is excluded for the model from now on, and the request is
\* sent once more.
LongContextError(r, answer) ==
    /\ req[r].step = "sent"
    /\ ~Ok(answer) /\ ~IsAccountSpecificError(answer) /\ ~IsServiceWide(answer)
    /\ IsLongContextError(answer)
    /\ IF excluded < MaxBetas
       THEN /\ excluded' = excluded + 1
            /\ req' = [req EXCEPT ![r].step = "longRetry",
                                  ![r].without = excluded']
       ELSE /\ req' = [req EXCEPT ![r] = End(@, "responded")]
            /\ UNCHANGED excluded
    /\ Spend("faults")
    /\ UNCHANGED <<mem, file, dirty, pin, session, refused>>

\* Any other error is returned, and so is any of a retry with one more exclusion.
OtherError(r, answer) ==
    /\ ~Ok(answer)
    /\ \/ /\ req[r].step = "sent"
          /\ ~IsAccountSpecificError(answer) /\ ~IsServiceWide(answer)
          /\ ~IsLongContextError(answer)
       \/ req[r].step = "longRetry"
    /\ req' = [req EXCEPT ![r] = End(@, "responded")]
    /\ Spend("faults")
    /\ UNCHANGED <<mem, file, dirty, excluded, pin, session, refused>>

\* The connection fails in a retry: in that of a service-wide error it may be
\* tried again, else the error leaves executeOAuthFetch.
RetryNetworkError(r) ==
    LET q == req[r] IN
    /\ q.step \in {"serviceRetry", "longRetry"}
    /\ \/ /\ q.step = "serviceRetry" /\ RetriesError(q.retries)
          /\ req' = [req EXCEPT ![r].retries = @ + 1]
       \/ req' = [req EXCEPT ![r] = End(q, "threw")]
    /\ Spend("faults")
    /\ UNCHANGED <<mem, file, dirty, excluded, pin, session, refused>>

\* The response has been consumed: its usage is recorded, and an account error
\* may have come in its middle.  A consumer that cancels may leave no trace.
StreamEnds(r) ==
    LET a == req[r].account IN
    /\ req[r].step = "streaming"
    /\ req' = [req EXCEPT ![r] = End(@, "responded")]
    /\ \/ UNCHANGED <<mem, refused, dirty, budget>>
       \/ dirty' = TRUE /\ UNCHANGED <<mem, refused, budget>>
       \/ \E answer \in Answers :
              /\ BodyHasAccountError(answer)
              /\ mem' = Limited(mem, a, ParseRateLimitReason(answer), 0)
              /\ refused' = refused \cup {a}
              /\ dirty' = TRUE
              /\ Spend("faults")
    /\ UNCHANGED <<file, excluded, pin, session>>

------------------------------------------------------------------------------
(* What happens around the requests                                        *)

\* The timer of requestSaveToDisk fires.
Save ==
    /\ dirty
    /\ file' = Saved(mem)
    /\ dirty' = FALSE
    /\ UNCHANGED <<mem, req, excluded, pin, session, refused, budget>>

\* Another process writes the file: it removes, adds, toggles or activates an
\* account (AccountStorage has these in detail).  Bound: while a request that
\* will read it has not begun.
OtherWrites ==
    /\ \E r \in Request : req[r].step = "idle"
    /\ \/ \E i \in DOMAIN file.rows :
              \/ LET rows == RemoveAt(file.rows, i)
                 IN  file' = [file EXCEPT !.rows = rows,
                                          !.active = Clamp(rows, @)]
              \/ file' = [file EXCEPT !.rows[i].enabled = ~@]
              \/ i # file.active /\ file' = [file EXCEPT !.active = i]
       \/ \E a \in Account \ Ids(file.rows) :
              file' = [file EXCEPT
                  !.rows = Append(@, RowOf(a)),
                  !.data[a] = [NoData EXCEPT !.token = TRUE]]
    /\ Spend("events")
    /\ UNCHANGED <<mem, dirty, req, excluded, pin, session, refused>>

\* The rate limit of an account is over, in memory and on disk.
Expire(a) ==
    /\ mem.data[a].limited > 0 \/ file.data[a].limited > 0
    /\ mem' = [mem EXCEPT !.data[a].limited = 0]
    /\ file' = [file EXCEPT !.data[a].limited = 0]
    /\ Spend("events")
    /\ UNCHANGED <<dirty, req, excluded, pin, session, refused>>

Receive(r, answer) ==
    \/ Success(r, answer)
    \/ AccountError(r, answer)
    \/ ServiceError(r, answer)
    \/ LongContextError(r, answer)
    \/ OtherError(r, answer)

Step(r) ==
    \/ RefreshEnds(r)
    \/ NetworkError(r)
    \/ \E answer \in Answers : Receive(r, answer)
    \/ RetryNetworkError(r)
    \/ StreamEnds(r)

Next ==
    \/ \E r \in Request, withFile \in BOOLEAN : Begin(r, withFile)
    \/ \E r \in Request : Step(r)
    \/ \E a \in Account : Expire(a)
    \/ Save
    \/ OtherWrites

Spec == Init /\ [][Next]_vars

------------------------------------------------------------------------------
\* README: "It tries each available account at most once per request", as long
\* as no other request's sync moves the rows or enables an account again.
AccountsTriedOnce ==
    \A r \in Request :
        \/ req[r].disturbed
        \/ \A account \in Account : req[r].tried[account] <= 1

\* A request gives up only when it has tried every account that is enabled and
\* not resting, unless the rows moved meanwhile.
GivesUpForReason ==
    [][\A r \in Request :
         req[r].step # "ended" /\ req'[r].result \in GaveUp =>
             \/ req[r].disturbed
             \/ \A i \in Enabled(mem'.rows) :
                    \/ mem'.data[mem'.rows[i].id].limited > 0
                    \/ req[r].tried[mem'.rows[i].id] > 0]_vars

\* Health and tokens are kept by position; each position has what the account
\* that is now there has earned, through every sync that moves the rows.
TrackersFollowAccounts ==
    \A i \in DOMAIN mem.rows : mem.track[i] = mem.earned[mem.rows[i].id]

\* Only an account that itself got an account error rests, in memory and on
\* disk: not the neighbour of its position, and nobody after a service error.
PenaltiesAreEarned ==
    \A a \in Account :
        mem.data[a].limited > 0 \/ file.data[a].limited > 0 => a \in refused

\* A file that was uploaded with an account goes back to that account, unless
\* the account is disabled or the rows have moved since.
FilePinFollowsOwner ==
    [][\A r \in Request :
         Begin(r, TRUE) =>
             \/ pin'.moved
             \/ pin.owner \notin {mem'.rows[i].id : i \in Enabled(mem'.rows)}
             \/ req'[r].account = pin.owner]_vars

\* After a long-context error a request is sent at most once more, and its header
\* has lost the beta that comes next in the order after those the first try was
\* sent without, if it had it (present: betas of the order in the header before
\* exclusions, none without signature emulation), although other requests
\* exclude betas between the first try and the error.  A header without that
\* beta may be sent again as it was.
LongContextRetryDropsNext ==
    [][\A r \in Request :
         req'[r].step = "longRetry" =>
             \/ req[r].step = "longRetry"
             \/ /\ req[r].step = "sent"
                /\ \A present \in SUBSET (1 .. MaxBetas) :
                       LET before == present \ (1 .. req[r].without)
                           after  == present \ (1 .. req'[r].without)
                       IN  /\ after \subseteq before
                           /\ req[r].without + 1 \in present =>
                                  req[r].without + 1 \in before \ after]_vars

\* What a request has left to do: attempts, and retries within an attempt.
Variant(q) ==
    LET left == MaxRetries - q.retries
        stage == CASE q.step = "refreshing"   -> 2 * MaxRetries + 4
                   [] q.step = "sent"         -> MaxRetries + left + 3
                   [] q.step = "serviceRetry" -> left + 2
                   [] q.step = "longRetry"    -> 2
                   [] q.step = "streaming"    -> 1
    IN  IF Live(q) THEN (q.max - q.attempt) * (2 * MaxRetries + 5) + stage ELSE 0

\* Every step of a request brings it nearer to its end, whatever other requests
\* do to the rows: the attempts, retries and exclusions cannot go round in a
\* circle.
RequestAdvances ==
    [][\A r \in Request :
         Live(req[r]) =>
             \/ [req'[r] EXCEPT !.disturbed = FALSE]
                = [req[r] EXCEPT !.disturbed = FALSE]
             \/ Variant(req'[r]) < Variant(req[r])]_vars

==============================================================================
