--------------------------- MODULE Promotion_proofs ---------------------------
(***************************************************************************)
(* Theorems about Promotion: what is promoted stays, nothing that matters  *)
(* is sent without a promotion except betas the profile has none of, and   *)
(* of the scheduled runs no more work together than removals of the lock   *)
(* directory have let in.                                                  *)
(***************************************************************************)
EXTENDS Promotion, FiniteSetTheorems, SequenceTheorems, WellFoundedInduction, TLAPS

------------------------------------------------------------------------------
(***************************************************************************)
(* The scheduled runs at work: one if the lock directory is there, and one *)
(* for each time it has been removed while they were.                      *)
(***************************************************************************)
Busy(w) == worker[w].pc # "idle"

AtWork == {w \in Verifier : Busy(w)}

Paid == /\ removals \in Nat
        /\ Cardinality(AtWork) <= removals + 1
        /\ ~lockDir => Cardinality(AtWork) <= removals

\* A worker has these fields, whatever is in them.
Shaped(r) ==
    r = [pc |-> r.pc, version |-> r.version, results |-> r.results,
         report |-> r.report, only |-> r.only, promoted |-> r.promoted,
         merged |-> r.merged]

WorkersShaped ==
    /\ worker = [w \in Worker |-> worker[w]]
    /\ \A w \in Worker : Shaped(worker[w])

Moves(w, state) == worker' = [worker EXCEPT ![w] = state]

\* What a step does to one worker it does to no other.
LEMMA OneWorkerMoves ==
    ASSUME WorkersShaped, NEW w \in Worker, NEW state, Moves(w, state), Shaped(state)
    PROVE  /\ WorkersShaped'
           /\ worker'[w] = state
           /\ \A other \in Worker : other # w => worker'[other] = worker[other]
<1>1. worker' = [other \in Worker |-> IF other = w THEN state ELSE worker[other]]
  BY DEF WorkersShaped, Moves
<1>2. /\ worker'[w] = state
      /\ \A other \in Worker : other # w => worker'[other] = worker[other]
  BY <1>1
<1>3. worker' = [other \in Worker |-> worker'[other]]
  BY <1>1
<1> QED
  BY <1>2, <1>3 DEF WorkersShaped

\* Two more states that the steps put a worker in.
WithResults(r, results) == [r EXCEPT !.results = results]
AtManifest(r, promoted, merged) ==
    [pc |-> "manifest", version |-> r.version, results |-> << >>, report |-> r.report,
     only |-> r.only, promoted |-> promoted, merged |-> merged]
AtIndexed(r, index) == [r EXCEPT !.pc = "indexed", !.merged = index]

LEMMA NewStates ==
    ASSUME NEW pc, NEW version, NEW report, NEW only
    PROVE  /\ Shaped(At(pc, version, report, only))
           /\ At(pc, version, report, only).pc = pc
           /\ At(pc, version, report, only).version = version
           /\ At(pc, version, report, only).report = report
           /\ Shaped(Idle) /\ Idle.pc = "idle"
BY DEF Shaped, At, Idle

LEMMA ChangedStates ==
    ASSUME NEW r, Shaped(r), NEW x, NEW y
    PROVE  /\ Shaped(WithResults(r, x)) /\ WithResults(r, x).pc = r.pc
           /\ WithResults(r, x).version = r.version
           /\ WithResults(r, x).report = r.report
           /\ WithResults(r, x).promoted = r.promoted
           /\ WithResults(r, x).merged = r.merged
           /\ Shaped(AtManifest(r, x, y)) /\ AtManifest(r, x, y).pc = "manifest"
           /\ AtManifest(r, x, y).version = r.version
           /\ AtManifest(r, x, y).report = r.report
           /\ AtManifest(r, x, y).promoted = x /\ AtManifest(r, x, y).merged = y
           /\ Shaped(AtIndexed(r, x)) /\ AtIndexed(r, x).pc = "indexed"
           /\ AtIndexed(r, x).version = r.version /\ AtIndexed(r, x).merged = x
<1>1. PICK a, b, c, d, e, f, g :
         r = [pc |-> a, version |-> b, results |-> c, report |-> d, only |-> e,
              promoted |-> f, merged |-> g]
  BY DEF Shaped
<1>2. WithResults(r, x) =
         [pc |-> a, version |-> b, results |-> x, report |-> d, only |-> e,
          promoted |-> f, merged |-> g]
  BY <1>1 DEF WithResults
<1>3. r.pc = a /\ r.version = b /\ r.report = d /\ r.promoted = f /\ r.merged = g
  BY <1>1
<1>4. /\ Shaped(WithResults(r, x)) /\ WithResults(r, x).pc = a
      /\ WithResults(r, x).version = b /\ WithResults(r, x).report = d
      /\ WithResults(r, x).promoted = f /\ WithResults(r, x).merged = g
  BY <1>2 DEF Shaped
<1>5. /\ Shaped(AtManifest(r, x, y)) /\ AtManifest(r, x, y).pc = "manifest"
      /\ AtManifest(r, x, y).version = b /\ AtManifest(r, x, y).report = d
      /\ AtManifest(r, x, y).promoted = x /\ AtManifest(r, x, y).merged = y
  BY <1>3 DEF Shaped, AtManifest
<1>6. AtIndexed(r, x) =
         [pc |-> "indexed", version |-> b, results |-> c, report |-> d, only |-> e,
          promoted |-> f, merged |-> x]
  <2>1. PICK q : q = [r EXCEPT !.pc = "indexed"]
    OBVIOUS
  <2>2. q = [pc |-> "indexed", version |-> b, results |-> c, report |-> d, only |-> e,
             promoted |-> f, merged |-> g]
    BY <1>1, <2>1
  <2>3. AtIndexed(r, x) = [q EXCEPT !.merged = x]
    BY <2>1 DEF AtIndexed
  <2> QED
    BY <2>2, <2>3
<1>7. /\ Shaped(AtIndexed(r, x)) /\ AtIndexed(r, x).pc = "indexed"
      /\ AtIndexed(r, x).version = b /\ AtIndexed(r, x).merged = x
  BY <1>6 DEF Shaped
<1> QED
  BY <1>3, <1>4, <1>5, <1>7

\* Each action of a worker, as far as the state of the worker goes.
LEMMA WorkerActions ==
    ASSUME NEW w
    PROVE  /\ Start(w) => Moves(w, At("scenario", LatestOf(disk.candidateIndex), 0, {}))
           /\ RunScenario(w) => \E x : Moves(w, WithResults(worker[w], x))
           /\ ScenarioFails(w) => \E x : Moves(w, WithResults(worker[w], x))
           /\ WriteReport(w) => Moves(w, At("apply", worker[w].version, Len(reports) + 1, {}))
           /\ \A r : Review(w, r) =>
                 \E only : Moves(w, At("apply", reports[r].version, r, only))
           /\ PromoteReads(w) =>
                 LET decision == BuildFieldDecision(disk.candidate[worker[w].version],
                                                    reports[worker[w].report], worker[w].only)
                 IN  Moves(w, AtManifest(worker[w], decision.promoted,
                        MergeVerifiedManifest(disk.verified[worker[w].version],
                           disk.candidate[worker[w].version], decision, worker[w].report)))
           /\ WriteManifest(w) => Moves(w, At("index", worker[w].version, 0, {}))
           /\ ReadIndex(w) => Moves(w, AtIndexed(worker[w],
                                 UpdateIndex(disk.verifiedIndex, worker[w].version)))
           /\ CommandInterrupted(w) => Moves(w, At("failed", worker[w].version, 0, {}))
           /\ WriteIndex(w) \/ Killed(w) \/ Fails(w) => Moves(w, Idle)
<1>1. Start(w) => Moves(w, At("scenario", LatestOf(disk.candidateIndex), 0, {}))
  BY DEF Start, Moves
<1>2. RunScenario(w) => \E x : Moves(w, WithResults(worker[w], x))
  BY DEF RunScenario, Moves, WithResults
<1>3. ScenarioFails(w) => \E x : Moves(w, WithResults(worker[w], x))
  BY DEF ScenarioFails, Moves, WithResults
<1>4. WriteReport(w) => Moves(w, At("apply", worker[w].version, Len(reports) + 1, {}))
  BY DEF WriteReport, Moves
<1>5. ASSUME NEW r, Review(w, r)
      PROVE  \E only : Moves(w, At("apply", reports[r].version, r, only))
  BY <1>5 DEF Review, Moves
<1>6. PromoteReads(w) =>
         LET decision == BuildFieldDecision(disk.candidate[worker[w].version],
                                            reports[worker[w].report], worker[w].only)
         IN  Moves(w, AtManifest(worker[w], decision.promoted,
                MergeVerifiedManifest(disk.verified[worker[w].version],
                   disk.candidate[worker[w].version], decision, worker[w].report)))
  BY DEF PromoteReads, Moves, AtManifest
<1>7. WriteManifest(w) => Moves(w, At("index", worker[w].version, 0, {}))
  BY DEF WriteManifest, Moves
<1>8. WriteIndex(w) \/ Killed(w) \/ Fails(w) => Moves(w, Idle)
  BY DEF WriteIndex, Killed, Fails, Ends, Moves
<1>9. ReadIndex(w) => Moves(w, AtIndexed(worker[w],
                         UpdateIndex(disk.verifiedIndex, worker[w].version)))
  BY DEF ReadIndex, Moves, AtIndexed
<1>10. CommandInterrupted(w) => Moves(w, At("failed", worker[w].version, 0, {}))
  BY DEF CommandInterrupted, Moves
<1> QED
  BY <1>1, <1>2, <1>3, <1>4, <1>5, <1>6, <1>7, <1>8, <1>9, <1>10

GoesOn(w) ==
    \/ RunScenario(w) \/ ScenarioFails(w) \/ WriteReport(w)
    \/ PromoteReads(w) \/ WriteManifest(w) \/ ReadIndex(w)
Stops(w) == WriteIndex(w) \/ Killed(w) \/ Fails(w)
Works(w) == \/ Start(w) \/ (\E r : Review(w, r)) \/ CommandInterrupted(w)
            \/ GoesOn(w) \/ Stops(w)

LEMMA OthersStay ==
    ASSUME WorkersShaped, NEW w \in Worker, Works(w)
    PROVE  /\ WorkersShaped'
           /\ \A other \in Worker : other # w => worker'[other] = worker[other]
           /\ RunScenario(w) \/ ScenarioFails(w) => worker'[w].pc = worker[w].pc
<1>s. Shaped(worker[w])
  BY DEF WorkersShaped
<1>1. CASE RunScenario(w) \/ ScenarioFails(w)
  <2>1. PICK x : Moves(w, WithResults(worker[w], x))
    BY <1>1, WorkerActions
  <2>2. Shaped(WithResults(worker[w], x)) /\ WithResults(worker[w], x).pc = worker[w].pc
    BY <1>s, ChangedStates
  <2> QED
    BY <2>1, <2>2, OneWorkerMoves
<1>2. CASE \/ Start(w) \/ WriteReport(w) \/ (\E r : Review(w, r)) \/ WriteManifest(w)
           \/ CommandInterrupted(w)
  <2>1. PICK pc, version, report, only : Moves(w, At(pc, version, report, only))
    BY <1>2, WorkerActions
  <2>2. /\ WorkersShaped'
        /\ \A other \in Worker : other # w => worker'[other] = worker[other]
    BY <2>1, NewStates, OneWorkerMoves
  <2> QED
    BY <1>1, <2>2
<1>3. CASE PromoteReads(w)
  <2>1. PICK x, y : Moves(w, AtManifest(worker[w], x, y))
    BY <1>3, WorkerActions
  <2>2. Shaped(AtManifest(worker[w], x, y))
    BY <1>s, ChangedStates
  <2>3. /\ WorkersShaped'
        /\ \A other \in Worker : other # w => worker'[other] = worker[other]
    BY <2>1, <2>2, OneWorkerMoves
  <2> QED
    BY <1>1, <2>3
<1>4. CASE WriteIndex(w) \/ Killed(w) \/ Fails(w)
  <2>1. /\ WorkersShaped'
        /\ \A other \in Worker : other # w => worker'[other] = worker[other]
    BY <1>4, WorkerActions, NewStates, OneWorkerMoves
  <2> QED
    BY <1>1, <2>1
<1>5. CASE ReadIndex(w)
  <2>1. PICK x : Moves(w, AtIndexed(worker[w], x))
    BY <1>5, WorkerActions
  <2>2. Shaped(AtIndexed(worker[w], x))
    BY <1>s, ChangedStates
  <2>3. /\ WorkersShaped'
        /\ \A other \in Worker : other # w => worker'[other] = worker[other]
    BY <2>1, <2>2, OneWorkerMoves
  <2> QED
    BY <1>1, <2>3
<1> QED
  BY <1>1, <1>2, <1>3, <1>4, <1>5 DEF Works, GoesOn, Stops

\* What removes the lock directory and leaves the runs alone.
Unlocks(w) == EndsBeforeStart(w) \/ Interrupted(w)

Elsewhere ==
    \/ (\E v \in Version : BuildCandidate(v))
    \/ (\E v \in Asked : SendRequest(v))
    \/ IndexCandidate \/ BuilderKilled
    \/ RestartPlugin
    \/ (\E w \in Verifier : Unlocks(w))

Reviews(w) == \/ \E v \in Version : ReviewPending(w, v)
              \/ \E r \in DOMAIN reports : ReviewNamed(w, r)

LEMMA NextIs ==
    Next => \/ Elsewhere
            \/ (\E w \in Verifier : Start(w) \/ CommandInterrupted(w))
            \/ (\E w \in Reviewer : Reviews(w))
            \/ (\E w \in Worker : GoesOn(w) \/ Stops(w))
BY DEF Next, Elsewhere, Unlocks, GoesOn, Stops, Worker, Reviews

(***************************************************************************)
(* However many runs start, fail, are killed or get signals, and whoever   *)
(* removes the directory, the count stays.                                 *)
(***************************************************************************)
LEMMA InitPaid == Init => WorkersShaped /\ Paid
<1> SUFFICES ASSUME Init PROVE WorkersShaped /\ Paid
  OBVIOUS
<1>1. worker = [w \in Worker |-> Idle]
  BY DEF Init
<1>2. WorkersShaped
  BY <1>1, NewStates DEF WorkersShaped
<1>3. AtWork = {}
  BY <1>1, NewStates DEF AtWork, Busy, Worker
<1>4. removals = 0 /\ Cardinality({}) = 0
  BY FS_EmptySet DEF Init
<1> QED
  BY <1>2, <1>3, <1>4 DEF Paid

LEMMA AtWorkCounted ==
    ASSUME NEW S \in SUBSET Verifier, NEW w \in Verifier
    PROVE  /\ Cardinality(S) \in Nat
           /\ w \notin S => Cardinality(S \cup {w}) = Cardinality(S) + 1
           /\ w \in S => Cardinality(S \ {w}) = Cardinality(S) - 1
<1>1. IsFiniteSet(S)
  BY FinitelyManyRuns, FS_Subset
<1> QED
  BY <1>1, FS_CardinalityType, FS_AddElement, FS_RemoveElement

\* The four ways in which a step may change the count.
LEMMA PaidSteps ==
    ASSUME Paid
    PROVE  /\ AtWork' = AtWork /\ (lockDir' <=> lockDir) /\ removals' = removals => Paid'
           /\ AtWork' = AtWork /\ LockRemoved => Paid'
           /\ \A w \in Verifier \ AtWork :
                 AtWork' = AtWork \cup {w} /\ ~lockDir /\ lockDir' /\ removals' = removals
                 => Paid'
           /\ \A w \in AtWork :
                 AtWork' = AtWork \ {w} /\ removals' = removals => Paid'
<1>1. AtWork \in SUBSET Verifier /\ Cardinality(AtWork) \in Nat
  BY FinitelyManyRuns, FS_Subset, FS_CardinalityType DEF AtWork
<1>2. /\ removals \in Nat
      /\ Cardinality(AtWork) <= removals + 1
      /\ ~lockDir => Cardinality(AtWork) <= removals
  BY DEF Paid
<1>p. ASSUME NEW n \in Nat, Cardinality(AtWork') = n, removals' \in Nat,
             n <= removals' + 1, lockDir' \/ n <= removals'
      PROVE  Paid'
  BY <1>p DEF Paid
<1>3. ASSUME AtWork' = AtWork, lockDir' <=> lockDir, removals' = removals PROVE Paid'
  BY <1>1, <1>2, <1>3, <1>p
<1>4. ASSUME AtWork' = AtWork, LockRemoved PROVE Paid'
  <2>1. removals' = removals + 1
    BY <1>4 DEF LockRemoved
  <2>2. removals' \in Nat /\ Cardinality(AtWork) <= removals'
        /\ Cardinality(AtWork) <= removals' + 1
    BY <1>1, <1>2, <2>1
  <2> QED
    BY <1>1, <1>4, <1>p, <2>2
<1>5. ASSUME NEW w \in Verifier \ AtWork, AtWork' = AtWork \cup {w}, ~lockDir,
             lockDir', removals' = removals
      PROVE  Paid'
  <2>1. Cardinality(AtWork') = Cardinality(AtWork) + 1
    BY <1>1, <1>5, AtWorkCounted
  <2>2. Cardinality(AtWork) + 1 \in Nat /\ Cardinality(AtWork) + 1 <= removals + 1
    BY <1>1, <1>2, <1>5
  <2> QED
    BY <1>2, <1>5, <1>p, <2>1, <2>2
<1>6. ASSUME NEW w \in AtWork, AtWork' = AtWork \ {w}, removals' = removals
      PROVE  Paid'
  <2>1. Cardinality(AtWork') = Cardinality(AtWork) - 1 /\ Cardinality(AtWork') \in Nat
    BY <1>1, <1>6, AtWorkCounted
  <2>2. Cardinality(AtWork') <= removals /\ Cardinality(AtWork') <= removals + 1
    BY <1>1, <1>2, <2>1
  <2> QED
    BY <1>2, <1>6, <1>p, <2>1, <2>2
<1> QED
  BY <1>3, <1>4, <1>5, <1>6

LEMMA StepPaid == WorkersShaped /\ Paid /\ [Next]_vars => WorkersShaped' /\ Paid'
<1> SUFFICES ASSUME WorkersShaped, Paid, [Next]_vars
             PROVE  WorkersShaped' /\ Paid'
  OBVIOUS
<1>v. \A w \in Verifier : w \in Worker /\ w \notin Reviewer
  BY WorkersDiffer DEF Worker
<1>q. ASSUME WorkersShaped', \A w \in Verifier : Busy(w)' <=> Busy(w),
             \/ (lockDir' <=> lockDir) /\ removals' = removals
             \/ LockRemoved
      PROVE  WorkersShaped' /\ Paid'
  <2>1. AtWork' = AtWork
    BY <1>q DEF AtWork
  <2> QED
    BY <1>q, <2>1, PaidSteps
<1>1. CASE Elsewhere \/ UNCHANGED vars
  <2>1. /\ worker' = worker
        /\ \/ (lockDir' <=> lockDir) /\ removals' = removals
           \/ LockRemoved
    BY <1>1 DEF Elsewhere, BuildCandidate, SendRequest, IndexCandidate, BuilderKilled,
       RestartPlugin, Unlocks, EndsBeforeStart, Interrupted, history, files, vars
  <2>2. WorkersShaped' /\ \A w \in Verifier : Busy(w)' <=> Busy(w)
    BY <2>1 DEF WorkersShaped, Busy
  <2> QED
    BY <1>q, <2>1, <2>2
<1>2. ASSUME NEW w \in Verifier, Start(w) PROVE WorkersShaped' /\ Paid'
  <2>1. /\ WorkersShaped'
        /\ \A other \in Verifier : other # w => worker'[other] = worker[other]
    BY <1>2, <1>v, OthersStay DEF Works
  <2>2. ~lockDir /\ lockDir' /\ removals' = removals /\ ~Busy(w)
    BY <1>2 DEF Start, history, Busy
  <2>3. worker'[w].pc = "scenario"
    BY <1>2, <1>v, WorkerActions, NewStates, OneWorkerMoves
  <2>4. w \in Verifier \ AtWork /\ AtWork' = AtWork \cup {w}
    BY <2>1, <2>2, <2>3 DEF AtWork, Busy
  <2> QED
    BY <2>1, <2>2, <2>4, PaidSteps
<1>3. ASSUME NEW w \in Reviewer, NEW r, Review(w, r) PROVE WorkersShaped' /\ Paid'
  <2>1. /\ WorkersShaped'
        /\ \A other \in Verifier : worker'[other] = worker[other]
    BY <1>3, <1>v, OthersStay DEF Works, Worker
  <2>2. (lockDir' <=> lockDir) /\ removals' = removals
    BY <1>3 DEF Review, history
  <2> QED
    BY <1>q, <2>1, <2>2 DEF Busy
<1>4. ASSUME NEW w \in Worker, GoesOn(w) PROVE WorkersShaped' /\ Paid'
  <2>1. /\ WorkersShaped'
        /\ \A other \in Worker : other # w => worker'[other] = worker[other]
    BY <1>4, OthersStay DEF Works
  <2>2. (lockDir' <=> lockDir) /\ removals' = removals /\ Busy(w)
    BY <1>4 DEF GoesOn, RunScenario, ScenarioFails, WriteReport, PromoteReads,
       WriteManifest, ReadIndex, history, Busy
  <2>3. Busy(w)'
    <3>s. Shaped(worker[w])
      BY DEF WorkersShaped
    <3>1. CASE RunScenario(w) \/ ScenarioFails(w)
      BY <2>2, <3>1, OthersStay DEF Works, GoesOn, Busy
    <3>2. CASE WriteReport(w)
      BY <3>2, WorkerActions, NewStates, OneWorkerMoves DEF Busy
    <3>3. CASE PromoteReads(w)
      <4>1. PICK x, y : Moves(w, AtManifest(worker[w], x, y))
        BY <3>3, WorkerActions
      <4> QED
        BY <3>s, <4>1, ChangedStates, OneWorkerMoves DEF Busy
    <3>4. CASE WriteManifest(w)
      BY <3>4, WorkerActions, NewStates, OneWorkerMoves DEF Busy
    <3>5. CASE ReadIndex(w)
      <4>1. PICK x : Moves(w, AtIndexed(worker[w], x))
        BY <3>5, WorkerActions
      <4> QED
        BY <3>s, <4>1, ChangedStates, OneWorkerMoves DEF Busy
    <3> QED
      BY <1>4, <3>1, <3>2, <3>3, <3>4, <3>5 DEF GoesOn
  <2> QED
    BY <1>q, <1>v, <2>1, <2>2, <2>3 DEF Busy
<1>5. ASSUME NEW w \in Worker, Stops(w) PROVE WorkersShaped' /\ Paid'
  <2>1. /\ WorkersShaped'
        /\ \A other \in Worker : other # w => worker'[other] = worker[other]
    BY <1>5, OthersStay DEF Works
  <2>2. /\ removals' = removals /\ Busy(w)
        /\ w \notin Verifier => (lockDir' <=> lockDir)
    <3>1. CASE WriteIndex(w) \/ Fails(w)
      BY <3>1 DEF WriteIndex, Fails, Ends, history, Busy
    <3>2. CASE Killed(w)
      BY <3>2 DEF Killed, Busy
    <3> QED
      BY <1>5, <3>1, <3>2 DEF Stops
  <2>3. worker'[w].pc = "idle"
    BY <1>5, WorkerActions, NewStates, OneWorkerMoves DEF Stops
  <2>4. CASE w \in Verifier
    <3>1. w \in AtWork /\ AtWork' = AtWork \ {w}
      BY <1>v, <2>1, <2>2, <2>3, <2>4 DEF AtWork, Busy
    <3> QED
      BY <2>1, <2>2, <3>1, PaidSteps
  <2>5. CASE w \notin Verifier
    BY <1>q, <1>v, <2>1, <2>2, <2>5 DEF Busy
  <2> QED
    BY <2>4, <2>5
<1>6. ASSUME NEW w \in Verifier, CommandInterrupted(w) PROVE WorkersShaped' /\ Paid'
  <2>1. /\ WorkersShaped'
        /\ \A other \in Worker : other # w => worker'[other] = worker[other]
    BY <1>6, <1>v, OthersStay DEF Works
  <2>2. LockRemoved /\ Busy(w)
    BY <1>6 DEF CommandInterrupted, Busy
  <2>3. Busy(w)'
    BY <1>6, <1>v, WorkerActions, NewStates, OneWorkerMoves DEF Busy
  <2> QED
    BY <1>q, <1>v, <2>1, <2>2, <2>3 DEF Busy
<1> QED
  BY <1>1, <1>2, <1>3, <1>4, <1>5, <1>6, NextIs DEF Reviews, ReviewPending, ReviewNamed

\* No more scheduled runs are at work together than one and one for each removal
\* of the lock directory by something other than the end of a started run
\* (run-scheduled-verifier.sh, the trap and mkdir).
THEOREM RunsArePaid == Spec => []RunsPaidByRemovals
<1>1. Paid => RunsPaidByRemovals
  <2> SUFFICES ASSUME Paid PROVE RunsPaidByRemovals
    OBVIOUS
  <2>1. AtWork = {w \in Verifier : worker[w].pc # "idle"}
    BY DEF AtWork, Busy
  <2>2. Cardinality(AtWork) \in Nat
    BY FinitelyManyRuns, FS_Subset, FS_CardinalityType DEF AtWork
  <2> QED
    BY <2>1, <2>2 DEF Paid, RunsPaidByRemovals
<1> QED
  BY <1>1, InitPaid, StepPaid, PTL DEF Spec

------------------------------------------------------------------------------
(***************************************************************************)
(* A set of numbers below a bound has a greatest one: the least of its     *)
(* upper bounds.                                                           *)
(***************************************************************************)
LEMMA MaxIsThere ==
    ASSUME NEW N \in Nat, NEW S \in SUBSET (1 .. N), S # {}
    PROVE  Max(S) \in S
<1> DEFINE bounds == {n \in Nat : \A y \in S : y <= n}
<1>1. bounds \subseteq Nat /\ N \in bounds /\ S \subseteq Nat
  OBVIOUS
<1>2. PICK m \in bounds : \A n \in bounds : <<n, m>> \notin OpToRel(<, Nat)
  BY <1>1, NatLessThanWellFounded, WFMin
<1>3. \A n \in bounds : ~(n < m)
  BY <1>1, <1>2, Zenon DEF OpToRel
<1>4. m \in Nat /\ \A y \in S : y <= m
  BY <1>2
<1>5. m \in S
  <2> SUFFICES ASSUME m \notin S PROVE FALSE
    OBVIOUS
  <2>1. m - 1 \in Nat /\ \A y \in S : y <= m - 1
    <3>1. \A y \in S : y \in Nat /\ y >= 1 /\ y <= m /\ y # m
      BY <1>4
    <3>2. PICK y \in S : TRUE
      OBVIOUS
    <3>3. m >= 1 /\ m \in Nat
      BY <1>4, <3>1, <3>2
    <3> QED
      BY <3>1, <3>3
  <2>2. m - 1 \in bounds
    BY <2>1
  <2> QED
    BY <1>3, <1>4, <2>2
<1>6. \A y \in S : m >= y
  BY <1>1, <1>4
<1> QED
  BY <1>5, <1>6 DEF Max

LEMMA LatestInIndex ==
    ASSUME NEW S \in SUBSET Version, S # {}
    PROVE  LatestOf(S) \in S
<1>1. Cardinality(Version) \in Nat /\ S \in SUBSET (1 .. Cardinality(Version))
  BY VersionsAreNumbered, FS_CardinalityType
<1>2. Max(S) \in S
  BY <1>1, MaxIsThere
<1> QED
  BY <1>2, NoIndexIsAMark DEF LatestOf

LEMMA LatestIsVersion ==
    ASSUME NEW index \in (SUBSET Version) \cup {NoFile, Torn, Unread}
    PROVE  LatestOf(index) \in Version \cup {0}
<1>1. CASE index \in {NoFile, Torn, Unread} \/ index = {}
  BY <1>1 DEF LatestOf
<1>2. CASE index \in SUBSET Version /\ index # {}
  BY <1>2, LatestInIndex
<1> QED
  BY <1>1, <1>2

------------------------------------------------------------------------------
(***************************************************************************)
(* What a promotion makes of a verified manifest.                          *)
(***************************************************************************)
Candidate ==
    {c \in [Field -> [value: Value, risk: {"critical", "sensitive", "low-risk"}]] :
        (\A path \in Field : c[path].risk = ClassifyRisk(path)) /\ c # Unread}

LEMMA CandidateTyped ==
    ASSUME NEW v \in Version, NEW found \in Extracted[v]
    PROVE  BuildCandidateManifest(found) \in Candidate
<1>1. \A path \in Field : found[path] \in Value
  BY DEF Value
<1>2. \A path : ClassifyRisk(path) \in {"critical", "sensitive", "low-risk"}
  BY DEF ClassifyRisk
<1> QED
  BY <1>1, <1>2, NoCandidateIsAMark DEF BuildCandidateManifest, Candidate

LEMMA DecisionTyped ==
    ASSUME NEW candidate, NEW report, NEW only
    PROVE  /\ BuildFieldDecision(candidate, report, only).promoted \in SUBSET Field
           /\ BuildFieldDecision(candidate, report, only).rejected \in SUBSET Field
BY DEF BuildFieldDecision

LEMMA ManifestsAreNoMarks == \A file \in Manifest : file \notin {NoFile, Torn}
BY NoManifestIsAMark DEF Manifest

LEMMA ManifestFields ==
    ASSUME NEW file \in Manifest
    PROVE  /\ DOMAIN file.promoted \in SUBSET Field
           /\ file.promoted \in [DOMAIN file.promoted -> [value: Value, ref: Ref]]
           /\ file.rejected \in SUBSET Field /\ file.evidence \in SUBSET Ref
           /\ Readable(file)
<1>1. PICK S \in SUBSET Field :
         file \in [promoted: [S -> [value: Value, ref: Ref]],
                  rejected: SUBSET Field, evidence: SUBSET Ref]
  BY DEF Manifest, ManifestOf
<1>m. file \notin {NoFile, Torn}
  BY ManifestsAreNoMarks
<1>2. Readable(file)
  BY <1>m DEF Readable
<1> QED
  BY <1>1, <1>2

LEMMA MergeKeeps ==
    ASSUME NEW file \in Manifest \cup {NoFile, Torn}, NEW candidate \in Candidate,
           NEW decision, decision.promoted \in SUBSET Field,
           decision.rejected \in SUBSET Field, NEW ref \in Ref,
           NEW merged, merged = MergeVerifiedManifest(file, candidate, decision, ref)
    PROVE  /\ merged \in Manifest
           /\ decision.promoted \subseteq DOMAIN merged.promoted
           /\ ref \in merged.evidence
           /\ Readable(file) => /\ DOMAIN file.promoted \subseteq DOMAIN merged.promoted
                               /\ file.evidence \subseteq merged.evidence
           /\ \A path \in DOMAIN merged.promoted :
                 \/ path \in decision.promoted
                 \/ /\ Readable(file) /\ path \in DOMAIN file.promoted
                    /\ merged.promoted[path] = file.promoted[path]
<1> DEFINE existing == IF Readable(file) THEN file ELSE EmptyVerifiedManifest
           fresh == [path \in decision.promoted |->
                        [value |-> candidate[path].value, ref |-> ref]]
           S == decision.promoted \cup DOMAIN existing.promoted
           promoted == [path \in S |-> IF path \in decision.promoted THEN fresh[path]
                                       ELSE existing.promoted[path]]
           rejected == (existing.rejected \cup decision.rejected) \ decision.promoted
           evidence == existing.evidence \cup {ref}
<1>1. merged = [promoted |-> promoted, rejected |-> rejected, evidence |-> evidence]
  BY DEF MergeVerifiedManifest
<1>2. /\ DOMAIN existing.promoted \in SUBSET Field
      /\ existing.promoted \in [DOMAIN existing.promoted -> [value: Value, ref: Ref]]
      /\ existing.rejected \in SUBSET Field /\ existing.evidence \in SUBSET Ref
      /\ Readable(file) => existing = file
      /\ ~Readable(file) => DOMAIN existing.promoted = {}
  <2>1. CASE Readable(file)
    <3>1. file \in Manifest
      BY <2>1 DEF Readable
    <3> QED
      BY <2>1, <3>1, ManifestFields
  <2>2. CASE ~Readable(file)
    <3>1. existing = EmptyVerifiedManifest
      BY <2>2
    <3>2. EmptyVerifiedManifest.promoted = << >> /\ DOMAIN << >> = {}
          /\ EmptyVerifiedManifest.rejected = {} /\ EmptyVerifiedManifest.evidence = {}
      BY DEF EmptyVerifiedManifest
    <3>3. << >> \in [{} -> [value: Value, ref: Ref]]
      OBVIOUS
    <3> QED
      BY <2>2, <3>1, <3>2, <3>3
  <2> QED
    BY <2>1, <2>2
<1>3. fresh \in [decision.promoted -> [value: Value, ref: Ref]]
  BY DEF Candidate
<1> HIDE DEF existing, fresh
<1>4. S \in SUBSET Field /\ promoted \in [S -> [value: Value, ref: Ref]]
      /\ rejected \in SUBSET Field /\ evidence \in SUBSET Ref
  BY <1>2, <1>3
<1>5. /\ DOMAIN promoted = S
      /\ \A path \in S : path \in decision.promoted
                         \/ /\ path \in DOMAIN existing.promoted
                            /\ promoted[path] = existing.promoted[path]
  OBVIOUS
<1> HIDE DEF promoted, rejected
<1>6. merged \in Manifest
  BY <1>1, <1>4 DEF Manifest, ManifestOf
<1>7. merged.promoted = promoted /\ merged.evidence = evidence
  BY <1>1
<1> QED
  BY <1>2, <1>5, <1>6, <1>7

------------------------------------------------------------------------------
(***************************************************************************)
(* The files, the reports and what the workers know of them.               *)
(***************************************************************************)
Files ==
    /\ disk \in [candidate: [Version -> Candidate \cup {NoFile}],
                 verified: [Version -> Manifest \cup {NoFile, Torn}],
                 candidateIndex: SUBSET Version,
                 verifiedIndex: (SUBSET Version) \cup {NoFile, Torn}]
    /\ disk.candidateIndex # {}
    /\ \A v \in disk.candidateIndex : disk.candidate[v] \in Candidate
    /\ building # 0 => building \in Version /\ disk.candidate[building] \in Candidate

Reports ==
    /\ \E S : reports \in Seq(S)
    /\ Len(reports) <= MaxReports
    /\ \A r \in DOMAIN reports : reports[r].version \in disk.candidateIndex

Workers ==
    \A w \in Worker :
        /\ Busy(w) => worker[w].version \in disk.candidateIndex
        /\ worker[w].pc = "apply" => worker[w].report \in DOMAIN reports
        /\ worker[w].pc = "manifest" =>
              /\ worker[w].merged \in Manifest
              /\ worker[w].promoted \subseteq DOMAIN worker[w].merged.promoted
              /\ worker[w].report \in worker[w].merged.evidence
        /\ worker[w].pc = "indexed" => worker[w].merged \in SUBSET Version

Typed == WorkersShaped /\ Files /\ Reports /\ Workers

LEMMA ReviewsAReport ==
    ASSUME Reports, NEW w, Reviews(w)
    PROVE  \E r \in DOMAIN reports : Review(w, r)
<1>1. ASSUME NEW v \in Version, ReviewPending(w, v)
      PROVE  \E r \in DOMAIN reports : Review(w, r)
  <2>1. Len(reports) \in Nat /\ DOMAIN reports = 1 .. Len(reports)
    BY LenProperties DEF Reports
  <2>2. Pending(v) \in SUBSET (1 .. Len(reports)) /\ Pending(v) # {}
    BY <1>1, <2>1 DEF ReviewPending, Pending
  <2>3. Max(Pending(v)) \in DOMAIN reports
    BY <2>1, <2>2, MaxIsThere
  <2> QED
    BY <1>1, <2>3 DEF ReviewPending
<1> QED
  BY <1>1 DEF Reviews, ReviewNamed

\* Files that are not indexes grow in number, and candidates stay candidates.
LEMMA FilesStep ==
    ASSUME Typed, [Next]_vars
    PROVE  Files' /\ disk.candidateIndex \subseteq disk'.candidateIndex
<1> DEFINE Disk == [candidate: [Version -> Candidate \cup {NoFile}],
                    verified: [Version -> Manifest \cup {NoFile, Torn}],
                    candidateIndex: SUBSET Version,
                    verifiedIndex: (SUBSET Version) \cup {NoFile, Torn}]
           Goal == Files' /\ disk.candidateIndex \subseteq disk'.candidateIndex
<1>t. Files /\ disk \in Disk /\ Workers /\ WorkersShaped
  BY DEF Typed, Files
<1>u. ASSUME UNCHANGED <<disk, building>> PROVE Goal
  BY <1>t, <1>u DEF Files
<1>v. ASSUME NEW v, NEW file \in Manifest \cup {Torn},
             disk' = [disk EXCEPT !.verified[v] = file], building' = building
      PROVE  Goal
  <2>1. /\ disk' \in Disk /\ disk'.candidate = disk.candidate
        /\ disk'.candidateIndex = disk.candidateIndex
    BY <1>t, <1>v
  <2> QED
    BY <1>t, <1>v, <2>1 DEF Files
<1>i. ASSUME NEW index \in (SUBSET Version) \cup {Torn},
             disk' = [disk EXCEPT !.verifiedIndex = index], building' = building
      PROVE  Goal
  <2>1. /\ disk' \in Disk /\ disk'.candidate = disk.candidate
        /\ disk'.candidateIndex = disk.candidateIndex
    BY <1>t, <1>i
  <2> QED
    BY <1>t, <1>i, <2>1 DEF Files
<1>1. ASSUME NEW v \in Version, BuildCandidate(v) PROVE Goal
  <2>1. PICK found \in Extracted[v] :
           disk' = [disk EXCEPT !.candidate[v] = BuildCandidateManifest(found)]
    BY <1>1 DEF BuildCandidate
  <2> DEFINE c == BuildCandidateManifest(found)
  <2>2. c \in Candidate
    BY CandidateTyped
  <2>3. building' = v
    BY <1>1 DEF BuildCandidate
  <2> HIDE DEF c
  <2>4. disk' = [disk EXCEPT !.candidate = [disk.candidate EXCEPT ![v] = c]]
    BY <1>t, <2>1 DEF c
  <2>5. /\ disk' \in Disk /\ disk'.candidate = [disk.candidate EXCEPT ![v] = c]
        /\ disk'.candidateIndex = disk.candidateIndex
    BY <1>t, <2>2, <2>4
  <2> QED
    BY <1>t, <2>2, <2>3, <2>5 DEF Files
<1>2. CASE IndexCandidate
  <2> DEFINE index == UpdateIndex(disk.candidateIndex, building)
  <2>1. /\ disk' = [disk EXCEPT !.candidateIndex = index] /\ building' = 0
        /\ building \in Version /\ disk.candidate[building] \in Candidate
    BY <1>2, <1>t DEF IndexCandidate, Files
  <2>2. index = disk.candidateIndex \cup {building}
    BY <1>t, NoIndexIsAMark DEF UpdateIndex, Readable
  <2> HIDE DEF index
  <2>3. /\ disk' \in Disk /\ disk'.candidate = disk.candidate
        /\ disk'.candidateIndex = index
    BY <1>t, <2>1, <2>2
  <2> QED
    BY <1>t, <2>1, <2>2, <2>3 DEF Files
<1>3. ASSUME NEW w \in Worker, WriteManifest(w) PROVE Goal
  BY <1>3, <1>t, <1>v DEF WriteManifest, Workers
<1>4. ASSUME NEW w \in Worker, WriteIndex(w) PROVE Goal
  BY <1>4, <1>i, <1>t DEF WriteIndex, Workers
<1>5. ASSUME NEW w \in Worker, Killed(w) \/ CommandInterrupted(w) PROVE Goal
  <2>1. CutShort(w) /\ building' = building
    BY <1>5 DEF Killed, CommandInterrupted
  <2> QED
    BY <2>1, <1>i, <1>u, <1>v DEF CutShort
<1>6. CASE \/ \E w \in Worker : \/ Start(w) \/ RunScenario(w) \/ ScenarioFails(w)
                               \/ WriteReport(w) \/ (\E r : Review(w, r)) \/ ReadIndex(w)
                               \/ PromoteReads(w) \/ Fails(w) \/ Unlocks(w)
           \/ (\E v \in Asked : SendRequest(v)) \/ RestartPlugin
           \/ UNCHANGED vars
  BY <1>6, <1>u DEF Start, RunScenario, ScenarioFails, WriteReport, Review, ReadIndex,
     PromoteReads, Fails, Unlocks, EndsBeforeStart, Interrupted, SendRequest,
     RestartPlugin, vars, files
<1>7. CASE BuilderKilled
  <2>1. disk' = disk /\ building' = 0
    BY <1>7 DEF BuilderKilled
  <2> QED
    BY <1>t, <2>1 DEF Files
<1> QED
  BY <1>1, <1>2, <1>3, <1>4, <1>5, <1>6, <1>7, NextIs
     DEF Elsewhere, Reviews, ReviewPending, ReviewNamed, GoesOn, Stops, Worker

LEMMA ReportsStep ==
    ASSUME Typed, [Next]_vars
    PROVE  /\ Reports' /\ DOMAIN reports \subseteq DOMAIN reports'
           /\ \A w \in Worker : WriteReport(w) => Len(reports) + 1 \in DOMAIN reports'
<1>1. disk.candidateIndex \subseteq disk'.candidateIndex
  BY FilesStep
<1>2. ASSUME reports' = reports PROVE Reports' /\ DOMAIN reports \subseteq DOMAIN reports'
  BY <1>1, <1>2 DEF Typed, Reports
<1>3. ASSUME NEW w \in Worker, WriteReport(w)
      PROVE  /\ Reports' /\ DOMAIN reports \subseteq DOMAIN reports'
             /\ Len(reports) + 1 \in DOMAIN reports'
  <2> DEFINE r == [version |-> worker[w].version, results |-> worker[w].results]
  <2>1. reports' = Append(reports, r) /\ Len(reports) < MaxReports
    BY <1>3 DEF WriteReport
  <2>2. r.version \in disk.candidateIndex
    BY <1>3 DEF WriteReport, Typed, Workers, Busy
  <2> HIDE DEF r
  <2>3. PICK S : reports \in Seq(S)
    BY DEF Typed, Reports
  <2>4. /\ reports \in Seq(S \cup {r}) /\ r \in S \cup {r}
    BY <2>3
  <2>5. /\ reports' \in Seq(S \cup {r}) /\ Len(reports') = Len(reports) + 1
        /\ \A i \in 1 .. Len(reports) : reports'[i] = reports[i]
        /\ reports'[Len(reports) + 1] = r
    BY <2>1, <2>4, AppendProperties
  <2>6. /\ Len(reports) \in Nat /\ DOMAIN reports = 1 .. Len(reports)
        /\ DOMAIN reports' = 1 .. (Len(reports) + 1)
    BY <2>4, <2>5, LenProperties
  <2>7. Len(reports') <= MaxReports
    BY <2>1, <2>5, <2>6, BoundsOK
  <2>8. \A i \in DOMAIN reports' : i = Len(reports) + 1 \/ i \in DOMAIN reports
    BY <2>6
  <2>9. \A i \in DOMAIN reports' : reports'[i].version \in disk.candidateIndex
    BY <2>2, <2>5, <2>6, <2>8 DEF Typed, Reports
  <2>10. DOMAIN reports \subseteq DOMAIN reports' /\ Len(reports) + 1 \in DOMAIN reports'
    BY <2>6
  <2>11. \E T : reports' \in Seq(T)
    BY <2>5
  <2> QED
    BY <1>1, <2>7, <2>9, <2>10, <2>11 DEF Reports
<1>4. ASSUME \/ \E w \in Worker : \/ Start(w) \/ RunScenario(w) \/ ScenarioFails(w)
                                 \/ (\E r : Review(w, r)) \/ PromoteReads(w)
                                 \/ WriteManifest(w) \/ ReadIndex(w) \/ WriteIndex(w)
                                 \/ Killed(w) \/ CommandInterrupted(w)
                                 \/ Fails(w) \/ Unlocks(w)
             \/ (\E v \in Version : BuildCandidate(v)) \/ IndexCandidate \/ BuilderKilled
             \/ (\E v \in Asked : SendRequest(v)) \/ RestartPlugin
             \/ UNCHANGED vars
      PROVE  Reports' /\ DOMAIN reports \subseteq DOMAIN reports'
  BY <1>4, <1>2 DEF Start, RunScenario, ScenarioFails, Review, PromoteReads,
     WriteManifest, ReadIndex, WriteIndex, Killed, CommandInterrupted, Fails,
     Unlocks, EndsBeforeStart, Interrupted, BuildCandidate, IndexCandidate,
     BuilderKilled, SendRequest, RestartPlugin, vars, files
<1>5. Reports' /\ DOMAIN reports \subseteq DOMAIN reports'
  BY <1>3, <1>4, NextIs
     DEF Elsewhere, Reviews, ReviewPending, ReviewNamed, GoesOn, Stops, Worker
<1> QED
  BY <1>3, <1>5

\* What a promotion is about to write extends what it has read.
LEMMA PromotionReads ==
    ASSUME Typed, NEW w \in Worker, PromoteReads(w)
    PROVE  LET v == worker[w].version
               merged == worker'[w].merged
           IN  /\ v \in disk.candidateIndex /\ v \in Version
               /\ worker'[w].pc = "manifest" /\ worker'[w].version = v
               /\ merged \in Manifest
               /\ worker'[w].promoted \subseteq DOMAIN merged.promoted
               /\ worker'[w].report \in merged.evidence
               /\ disk.verified[v] \in Manifest =>
                     /\ DOMAIN disk.verified[v].promoted \subseteq DOMAIN merged.promoted
                     /\ disk.verified[v].evidence \subseteq merged.evidence
               /\ \A path \in DOMAIN merged.promoted :
                     \/ path \in worker'[w].promoted
                     \/ /\ disk.verified[v] \in Manifest
                        /\ path \in DOMAIN disk.verified[v].promoted
                        /\ merged.promoted[path] = disk.verified[v].promoted[path]
<1> DEFINE v == worker[w].version
           ref == worker[w].report
           file == disk.verified[v]
           candidate == disk.candidate[v]
           decision == BuildFieldDecision(candidate, reports[ref], worker[w].only)
           merged == MergeVerifiedManifest(file, candidate, decision, ref)
<1>1. worker[w].pc = "apply" /\ Moves(w, AtManifest(worker[w], decision.promoted, merged))
  BY WorkerActions DEF PromoteReads
<1>2. v \in disk.candidateIndex /\ v \in Version /\ ref \in DOMAIN reports
  BY <1>1 DEF Typed, Workers, Files, Busy
<1>3. file \in Manifest \cup {NoFile, Torn} /\ candidate \in Candidate
  BY <1>2 DEF Typed, Files
<1>4. ref \in Ref
  <2>1. Len(reports) \in Nat /\ DOMAIN reports = 1 .. Len(reports)
        /\ Len(reports) <= MaxReports
    BY LenProperties DEF Typed, Reports
  <2> QED
    BY <1>2, <2>1, BoundsOK DEF Ref
<1>5. decision.promoted \in SUBSET Field /\ decision.rejected \in SUBSET Field
  BY DecisionTyped
<1>6. Shaped(worker[w])
  BY DEF Typed, WorkersShaped
<1>7. /\ worker'[w] = AtManifest(worker[w], decision.promoted, merged)
  BY <1>1, <1>6, ChangedStates, OneWorkerMoves DEF Typed
<1> HIDE DEF decision
<1>8. /\ worker'[w].pc = "manifest" /\ worker'[w].version = v
      /\ worker'[w].report = ref /\ worker'[w].merged = merged
      /\ worker'[w].promoted = decision.promoted
  BY <1>6, <1>7, ChangedStates
<1>m. merged = MergeVerifiedManifest(file, candidate, decision, ref)
  OBVIOUS
<1> HIDE DEF merged, file, candidate
<1>9. /\ merged \in Manifest
      /\ decision.promoted \subseteq DOMAIN merged.promoted
      /\ ref \in merged.evidence
      /\ Readable(file) => /\ DOMAIN file.promoted \subseteq DOMAIN merged.promoted
                          /\ file.evidence \subseteq merged.evidence
      /\ \A path \in DOMAIN merged.promoted :
            \/ path \in decision.promoted
            \/ /\ Readable(file) /\ path \in DOMAIN file.promoted
               /\ merged.promoted[path] = file.promoted[path]
  BY <1>3, <1>4, <1>5, <1>m, MergeKeeps
<1>10. Readable(file) <=> file \in Manifest
  BY <1>3, ManifestsAreNoMarks DEF Readable
<1> QED
  BY <1>2, <1>8, <1>9, <1>10 DEF file

LEMMA WorkersStep ==
    ASSUME Typed, [Next]_vars
    PROVE  WorkersShaped' /\ Workers'
<1> DEFINE Good(w) ==
              /\ Busy(w) => worker[w].version \in disk.candidateIndex
              /\ worker[w].pc = "apply" => worker[w].report \in DOMAIN reports
              /\ worker[w].pc = "manifest" =>
                    /\ worker[w].merged \in Manifest
                    /\ worker[w].promoted \subseteq DOMAIN worker[w].merged.promoted
                    /\ worker[w].report \in worker[w].merged.evidence
              /\ worker[w].pc = "indexed" => worker[w].merged \in SUBSET Version
<1>g. /\ disk.candidateIndex \subseteq disk'.candidateIndex
      /\ DOMAIN reports \subseteq DOMAIN reports'
  BY FilesStep, ReportsStep
<1>s. WorkersShaped /\ \A w \in Worker : Good(w) /\ Shaped(worker[w])
  BY DEF Typed, Workers, WorkersShaped
<1>o. ASSUME NEW w \in Worker, worker'[w] = worker[w] PROVE Good(w)'
  BY <1>g, <1>o, <1>s DEF Busy
<1>a. ASSUME NEW w \in Worker, NEW pc, pc \notin {"manifest", "indexed"}, NEW version, NEW report,
             NEW only, Moves(w, At(pc, version, report, only)),
             pc # "idle" => version \in disk'.candidateIndex,
             pc = "apply" => report \in DOMAIN reports'
      PROVE  WorkersShaped' /\ Workers'
  <2> DEFINE state == At(pc, version, report, only)
  <2>1. /\ Shaped(state) /\ state.pc = pc /\ state.version = version
        /\ state.report = report
    BY NewStates
  <2> HIDE DEF state
  <2>2. /\ WorkersShaped' /\ worker'[w] = state
        /\ \A other \in Worker : other # w => worker'[other] = worker[other]
    BY <1>a, <1>s, <2>1, OneWorkerMoves DEF state
  <2>3. Good(w)'
    BY <1>a, <2>1, <2>2 DEF Busy
  <2>4. \A other \in Worker : Good(other)'
    BY <1>o, <2>2, <2>3
  <2> QED
    BY <2>2, <2>4 DEF Workers
<1>1. ASSUME NEW w \in Worker, Start(w) PROVE WorkersShaped' /\ Workers'
  <2>1. LatestOf(disk.candidateIndex) \in disk.candidateIndex
    BY LatestInIndex DEF Typed, Files
  <2> QED
    BY <1>1, <1>a, <1>g, <2>1, WorkerActions
<1>2. ASSUME NEW w \in Worker, RunScenario(w) \/ ScenarioFails(w)
      PROVE  WorkersShaped' /\ Workers'
  <2>1. PICK x : Moves(w, WithResults(worker[w], x))
    BY <1>2, WorkerActions
  <2> DEFINE state == WithResults(worker[w], x)
  <2>2. /\ Shaped(state) /\ state.pc = worker[w].pc /\ state.version = worker[w].version
    BY <1>s, ChangedStates
  <2>3. worker[w].pc = "scenario"
    BY <1>2 DEF RunScenario, ScenarioFails
  <2> HIDE DEF state
  <2>4. /\ WorkersShaped' /\ worker'[w] = state
        /\ \A other \in Worker : other # w => worker'[other] = worker[other]
    BY <1>s, <2>1, <2>2, OneWorkerMoves DEF state
  <2>5. Good(w)'
    BY <1>g, <1>s, <2>2, <2>3, <2>4 DEF Busy
  <2>6. \A other \in Worker : Good(other)'
    BY <1>o, <2>4, <2>5
  <2> QED
    BY <2>4, <2>6 DEF Workers
<1>3. ASSUME NEW w \in Worker, WriteReport(w) PROVE WorkersShaped' /\ Workers'
  <2>1. worker[w].version \in disk'.candidateIndex
    BY <1>3, <1>g, <1>s DEF WriteReport, Busy
  <2>2. Len(reports) + 1 \in DOMAIN reports'
    BY <1>3, ReportsStep
  <2> QED
    BY <1>3, <1>a, <2>1, <2>2, WorkerActions
<1>4. ASSUME NEW w \in Worker, NEW r \in DOMAIN reports, Review(w, r)
      PROVE  WorkersShaped' /\ Workers'
  <2>1. reports[r].version \in disk'.candidateIndex /\ r \in DOMAIN reports'
    BY <1>g DEF Typed, Reports
  <2>2. PICK only : Moves(w, At("apply", reports[r].version, r, only))
    BY <1>4, WorkerActions
  <2> QED
    BY <1>a, <2>1, <2>2
<1>5. ASSUME NEW w \in Worker, PromoteReads(w) PROVE WorkersShaped' /\ Workers'
  <2>1. Good(w)'
    BY <1>5, <1>g, PromotionReads DEF Busy
  <2>2. /\ WorkersShaped'
        /\ \A other \in Worker : other # w => worker'[other] = worker[other]
    BY <1>5, <1>s, OthersStay DEF Works, GoesOn
  <2>3. \A other \in Worker : Good(other)'
    BY <1>o, <2>1, <2>2
  <2> QED
    BY <2>2, <2>3 DEF Workers
<1>6. ASSUME NEW w \in Worker, WriteManifest(w) PROVE WorkersShaped' /\ Workers'
  <2>1. worker[w].version \in disk'.candidateIndex
    BY <1>6, <1>g, <1>s DEF WriteManifest, Busy
  <2> QED
    BY <1>6, <1>a, <2>1, WorkerActions
<1>7. ASSUME NEW w \in Worker, Stops(w) PROVE WorkersShaped' /\ Workers'
  <2>1. Moves(w, At("idle", 0, 0, {}))
    BY <1>7, WorkerActions DEF Stops, Idle
  <2> QED
    BY <1>a, <2>1
<1>8. CASE Elsewhere \/ UNCHANGED vars
  <2>1. worker' = worker
    BY <1>8 DEF Elsewhere, BuildCandidate, SendRequest, IndexCandidate, BuilderKilled,
       RestartPlugin, Unlocks, EndsBeforeStart, Interrupted, vars
  <2>2. \A w \in Worker : Good(w)'
    BY <1>o, <2>1
  <2> QED
    BY <1>s, <2>1, <2>2 DEF WorkersShaped, Workers
<1>9. ASSUME NEW w \in Reviewer, Reviews(w) PROVE WorkersShaped' /\ Workers'
  <2>1. w \in Worker
    BY DEF Worker
  <2> QED
    BY <1>4, <1>9, <2>1, ReviewsAReport DEF Typed
<1>10. ASSUME NEW w \in Worker, CommandInterrupted(w) PROVE WorkersShaped' /\ Workers'
  <2>1. worker[w].version \in disk'.candidateIndex
    BY <1>10, <1>g, <1>s DEF CommandInterrupted, Busy
  <2> QED
    BY <1>10, <1>a, <2>1, WorkerActions
<1>11. ASSUME NEW w \in Worker, ReadIndex(w) PROVE WorkersShaped' /\ Workers'
  <2> DEFINE index == UpdateIndex(disk.verifiedIndex, worker[w].version)
             state == AtIndexed(worker[w], index)
  <2>1. worker[w].version \in disk.candidateIndex /\ worker[w].version \in Version
    BY <1>11, <1>s DEF ReadIndex, Busy, Typed, Files
  <2>2. index \in SUBSET Version
    BY <2>1 DEF UpdateIndex, Readable, Typed, Files
  <2>3. Moves(w, state)
    BY <1>11, WorkerActions
  <2> HIDE DEF index
  <2>4. /\ Shaped(state) /\ state.pc = "indexed" /\ state.version = worker[w].version
        /\ state.merged = index
    BY <1>s, ChangedStates
  <2> HIDE DEF state
  <2>5. /\ WorkersShaped' /\ worker'[w] = state
        /\ \A other \in Worker : other # w => worker'[other] = worker[other]
    BY <1>s, <2>3, <2>4, OneWorkerMoves
  <2>6. Good(w)'
    BY <1>g, <2>1, <2>2, <2>4, <2>5 DEF Busy
  <2>7. \A other \in Worker : Good(other)'
    BY <1>o, <2>5, <2>6
  <2> QED
    BY <2>5, <2>7 DEF Workers
<1> QED
  BY <1>1, <1>2, <1>3, <1>5, <1>6, <1>7, <1>8, <1>9, <1>10, <1>11, NextIs DEF GoesOn, Worker

LEMMA StepTyped == Typed /\ [Next]_vars => Typed'
BY FilesStep, ReportsStep, WorkersStep DEF Typed

LEMMA InitTyped == Init => Typed
<1> SUFFICES ASSUME Init PROVE Typed
  OBVIOUS
<1>1. worker = [w \in Worker |-> Idle] /\ WorkersShaped
  BY InitPaid DEF Init
<1>2. Workers
  BY <1>1, NewStates DEF Workers, Busy
<1>3. Cardinality(Version) \in Nat /\ 1 \in Version
  BY VersionsAreNumbered, FS_CardinalityType
<1>4. Files
  <2>1. PICK found \in Extracted[1] :
           disk = [candidate |-> [v \in Version |-> IF v = 1 THEN BuildCandidateManifest(found)
                                                   ELSE NoFile],
                   verified |-> [v \in Version |-> NoFile],
                   candidateIndex |-> {1}, verifiedIndex |-> NoFile]
    BY DEF Init
  <2> DEFINE c == BuildCandidateManifest(found)
  <2>2. c \in Candidate
    BY <1>3, CandidateTyped
  <2> HIDE DEF c
  <2>3. /\ disk = [candidate |-> [v \in Version |-> IF v = 1 THEN c ELSE NoFile],
                   verified |-> [v \in Version |-> NoFile],
                   candidateIndex |-> {1}, verifiedIndex |-> NoFile]
        /\ building = 0
    BY <2>1 DEF c, Init
  <2> QED
    BY <1>3, <2>2, <2>3 DEF Files
<1>5. Reports
  <2>1. reports = << >> /\ reports \in Seq({}) /\ Len(reports) = 0 /\ DOMAIN reports = {}
    BY EmptySeq DEF Init
  <2>2. 0 <= MaxReports
    BY BoundsOK
  <2> QED
    BY <2>1, <2>2 DEF Reports
<1> QED
  BY <1>1, <1>2, <1>4, <1>5 DEF Typed

------------------------------------------------------------------------------
(***************************************************************************)
(* Promotions stay.  Who is about to write a manifest is the only one, and *)
(* writes all that the manifest has by then, or the version is spoiled.    *)
(***************************************************************************)
Writes(w) == worker[w].pc = "manifest"

Held(a) ==
    /\ a.version \in Version /\ disk.verified[a.version] \in Manifest
    /\ a.path \in DOMAIN disk.verified[a.version].promoted
    /\ a.ref \in disk.verified[a.version].evidence

AppliedHeld == \A a \in applied : a.version \notin spoiled => Held(a)

WritersAlone ==
    \A w, other \in Worker :
        /\ Writes(w) /\ Writes(other) /\ worker[w].version = worker[other].version
        /\ worker[w].version \notin spoiled
        => w = other

WritersExtend ==
    \A w \in Worker :
        LET v == worker[w].version
        IN  Writes(w) /\ v \notin spoiled /\ disk.verified[v] \in Manifest =>
               /\ DOMAIN disk.verified[v].promoted \subseteq DOMAIN worker[w].merged.promoted
               /\ disk.verified[v].evidence \subseteq worker[w].merged.evidence

Kept == AppliedHeld /\ WritersAlone /\ WritersExtend

\* Steps that write no manifest and prepare none.
LEMMA QuietStep ==
    ASSUME [Next]_vars, Typed,
           \A w \in Worker : ~PromoteReads(w) /\ ~WriteManifest(w)
    PROVE  /\ applied' = applied
           /\ \A w \in Worker : Writes(w)' => /\ Writes(w)
                                             /\ worker'[w] = worker[w]
           /\ \/ disk'.verified = disk.verified /\ spoiled' = spoiled
              \/ \E v \in Version : /\ disk' = [disk EXCEPT !.verified[v] = Torn]
                                    /\ spoiled' = spoiled \cup {v}
<1> DEFINE Goal == \/ disk'.verified = disk.verified /\ spoiled' = spoiled
                   \/ \E v \in Version : /\ disk' = [disk EXCEPT !.verified[v] = Torn]
                                         /\ spoiled' = spoiled \cup {v}
           Quiet == \A w \in Worker : Writes(w)' => Writes(w) /\ worker'[w] = worker[w]
<1>s. WorkersShaped
  BY DEF Typed
<1>d. disk = [candidate |-> disk.candidate, verified |-> disk.verified,
              candidateIndex |-> disk.candidateIndex,
              verifiedIndex |-> disk.verifiedIndex]
  BY DEF Typed, Files
<1>a. ASSUME NEW w \in Worker, Works(w), worker'[w].pc # "manifest" PROVE Quiet
  BY <1>a, <1>s, OthersStay DEF Writes
<1>1. CASE Elsewhere \/ UNCHANGED vars
  <2>1. /\ applied' = applied /\ spoiled' = spoiled /\ worker' = worker
        /\ disk'.verified = disk.verified
    <3>1. CASE \E v \in Version : BuildCandidate(v)
      BY <1>d, <3>1 DEF BuildCandidate, history
    <3>2. CASE IndexCandidate
      BY <1>d, <3>2 DEF IndexCandidate, history
    <3> QED
      BY <1>1, <3>1, <3>2 DEF Elsewhere, SendRequest, RestartPlugin, BuilderKilled,
         Unlocks, EndsBeforeStart, Interrupted, vars, files, history
  <2> QED
    BY <2>1 DEF Writes
<1>2. ASSUME NEW w \in Worker, Start(w) \/ WriteReport(w) \/ \E r : Review(w, r)
      PROVE  applied' = applied /\ Goal /\ Quiet
  <2>1. PICK pc, version, report, only :
           pc \in {"scenario", "apply"} /\ Moves(w, At(pc, version, report, only))
    BY <1>2, WorkerActions
  <2>2. worker'[w].pc # "manifest"
    BY <1>s, <2>1, NewStates, OneWorkerMoves
  <2>3. UNCHANGED <<disk, applied, spoiled>>
    BY <1>2 DEF Start, WriteReport, Review, files, history
  <2> QED
    BY <1>2, <1>a, <2>2, <2>3 DEF Works, GoesOn
<1>3. ASSUME NEW w \in Worker, RunScenario(w) \/ ScenarioFails(w)
      PROVE  applied' = applied /\ Goal /\ Quiet
  <2>1. worker[w].pc = "scenario" /\ UNCHANGED <<disk, applied, spoiled>>
    BY <1>3 DEF RunScenario, ScenarioFails, files, history
  <2>2. worker'[w].pc # "manifest"
    BY <1>3, <1>s, <2>1, OthersStay DEF Works, GoesOn
  <2> QED
    BY <1>3, <1>a, <2>1, <2>2 DEF Works, GoesOn
<1>c. ASSUME NEW w \in Worker, Busy(w), CutShort(w) PROVE Goal
  <2>1. worker[w].version \in Version
    BY <1>c DEF Typed, Workers, Files
  <2> QED
    BY <1>c, <1>d, <2>1 DEF CutShort
<1>4. ASSUME NEW w \in Worker, Stops(w) PROVE applied' = applied /\ Goal /\ Quiet
  <2>1. worker'[w].pc # "manifest"
    BY <1>4, <1>s, WorkerActions, NewStates, OneWorkerMoves DEF Stops
  <2>3. applied' = applied /\ Goal
    <3>1. CASE WriteIndex(w)
      BY <1>d, <3>1 DEF WriteIndex, history
    <3>2. CASE Killed(w)
      BY <1>c, <3>2 DEF Killed, Busy
    <3>3. CASE Fails(w)
      BY <3>3 DEF Fails, files, history
    <3> QED
      BY <1>4, <3>1, <3>2, <3>3 DEF Stops
  <2> QED
    BY <1>4, <1>a, <2>1, <2>3 DEF Works
<1>5. ASSUME NEW w \in Worker, CommandInterrupted(w) \/ ReadIndex(w)
      PROVE  applied' = applied /\ Goal /\ Quiet
  <2>s. Shaped(worker[w])
    BY <1>s DEF WorkersShaped
  <2>1. worker'[w].pc # "manifest"
    <3>1. CASE CommandInterrupted(w)
      BY <1>s, <3>1, WorkerActions, NewStates, OneWorkerMoves
    <3>2. CASE ReadIndex(w)
      <4>1. PICK x : Moves(w, AtIndexed(worker[w], x))
        BY <3>2, WorkerActions
      <4> QED
        BY <1>s, <2>s, <4>1, ChangedStates, OneWorkerMoves
    <3> QED
      BY <1>5, <3>1, <3>2
  <2>2. applied' = applied /\ Goal
    <3>1. CASE CommandInterrupted(w)
      BY <1>c, <3>1 DEF CommandInterrupted, Busy
    <3>2. CASE ReadIndex(w)
      BY <3>2 DEF ReadIndex, files, history
    <3> QED
      BY <1>5, <3>1, <3>2
  <2> QED
    BY <1>5, <1>a, <2>1, <2>2 DEF Works, GoesOn
<1> QED
  BY <1>1, <1>2, <1>3, <1>4, <1>5, NextIs
     DEF GoesOn, Reviews, ReviewPending, ReviewNamed, Worker

\* What WriteManifest does to the files, the workers and the history.
LEMMA ManifestWritten ==
    ASSUME Typed, NEW w \in Worker, WriteManifest(w)
    PROVE  LET v == worker[w].version
           IN  /\ Writes(w) /\ ~Writes(w)' /\ v \in Version
               /\ worker[w].merged \in Manifest
               /\ disk'.verified[v] = worker[w].merged
               /\ \A u \in Version : u # v => disk'.verified[u] = disk.verified[u]
               /\ \A other \in Worker : other # w => worker'[other] = worker[other]
               /\ applied' = applied \cup
                     {[version |-> v, ref |-> worker[w].report, path |-> path,
                       value |-> worker[w].merged.promoted[path].value] :
                         path \in worker[w].promoted}
               /\ spoiled' = spoiled
<1> DEFINE v == worker[w].version
<1>1. /\ worker[w].pc = "manifest"
      /\ disk' = [disk EXCEPT !.verified[v] = worker[w].merged]
      /\ applied' = applied \cup
            {[version |-> v, ref |-> worker[w].report, path |-> path,
              value |-> worker[w].merged.promoted[path].value] : path \in worker[w].promoted}
      /\ spoiled' = spoiled
  BY DEF WriteManifest
<1>2. v \in Version /\ worker[w].merged \in Manifest
  BY <1>1 DEF Typed, Workers, Files, Busy
<1>3. /\ disk'.verified[v] = worker[w].merged
      /\ \A u \in Version : u # v => disk'.verified[u] = disk.verified[u]
  BY <1>1, <1>2 DEF Typed, Files
<1>4. /\ worker'[w].pc = "index"
      /\ \A other \in Worker : other # w => worker'[other] = worker[other]
  BY WorkerActions, NewStates, OneWorkerMoves DEF Typed
<1> QED
  BY <1>1, <1>2, <1>3, <1>4 DEF Writes

LEMMA KeptStep == Typed /\ Kept /\ [Next]_vars => Kept'
<1> SUFFICES ASSUME Typed, Kept, [Next]_vars PROVE Kept'
  OBVIOUS
<1>1. ASSUME \A w \in Worker : ~PromoteReads(w) /\ ~WriteManifest(w) PROVE Kept'
  <2>1. /\ applied' = applied
        /\ \A w \in Worker : Writes(w)' => Writes(w) /\ worker'[w] = worker[w]
    BY <1>1, QuietStep
  <2>2. CASE disk'.verified = disk.verified /\ spoiled' = spoiled
    <3>1. AppliedHeld'
      BY <2>1, <2>2 DEF Kept, AppliedHeld, Held
    <3>2. WritersAlone'
      BY <2>1, <2>2 DEF Kept, WritersAlone
    <3>3. WritersExtend'
      BY <2>1, <2>2 DEF Kept, WritersExtend
    <3> QED
      BY <3>1, <3>2, <3>3 DEF Kept
  <2>3. ASSUME NEW v \in Version, disk' = [disk EXCEPT !.verified[v] = Torn],
               spoiled' = spoiled \cup {v}
        PROVE  Kept'
    <3>0. \A u \in Version : u # v => disk'.verified[u] = disk.verified[u]
      BY <2>3 DEF Typed, Files
    <3>1. AppliedHeld'
      BY <2>1, <2>3, <3>0 DEF Kept, AppliedHeld, Held
    <3>2. WritersAlone'
      BY <2>1, <2>3 DEF Kept, WritersAlone
    <3>3. WritersExtend'
      <4> SUFFICES ASSUME NEW w \in Worker, Writes(w)', worker'[w].version \notin spoiled',
                          disk'.verified[worker'[w].version] \in Manifest
                   PROVE  LET u == worker'[w].version
                          IN  /\ DOMAIN disk'.verified[u].promoted
                                    \subseteq DOMAIN worker'[w].merged.promoted
                              /\ disk'.verified[u].evidence \subseteq worker'[w].merged.evidence
        BY DEF WritersExtend
      <4>1. Writes(w) /\ worker'[w] = worker[w]
        BY <2>1
      <4>2. worker[w].version \in Version
        BY <4>1 DEF Writes, Typed, Workers, Files, Busy
      <4>3. disk'.verified[worker[w].version] = disk.verified[worker[w].version]
            /\ worker[w].version \notin spoiled
        BY <2>3, <3>0, <4>1, <4>2
      <4> QED
        BY <4>1, <4>3 DEF Kept, WritersExtend
    <3> QED
      BY <3>1, <3>2, <3>3 DEF Kept
  <2> QED
    BY <1>1, <2>2, <2>3, QuietStep
<1>2. ASSUME NEW w \in Worker, PromoteReads(w) PROVE Kept'
  <2> DEFINE v == worker[w].version
  <2>1. /\ v \in Version /\ Writes(w)' /\ worker'[w].version = v
        /\ disk.verified[v] \in Manifest =>
              /\ DOMAIN disk.verified[v].promoted \subseteq DOMAIN worker'[w].merged.promoted
              /\ disk.verified[v].evidence \subseteq worker'[w].merged.evidence
    BY <1>2, PromotionReads DEF Writes
  <2>2. \A other \in Worker : other # w => worker'[other] = worker[other]
    BY <1>2, OthersStay DEF Works, GoesOn, Typed
  <2>3. /\ UNCHANGED <<disk, applied>>
        /\ spoiled' = IF \E other \in Worker \ {w} :
                             worker[other].pc = "manifest" /\ worker[other].version = v
                      THEN spoiled \cup {v} ELSE spoiled
    BY <1>2 DEF PromoteReads, files
  <2>4. AppliedHeld'
    BY <2>3 DEF Kept, AppliedHeld, Held
  <2>5. WritersAlone'
    <3> SUFFICES ASSUME NEW x \in Worker, NEW y \in Worker, Writes(x)', Writes(y)',
                        worker'[x].version = worker'[y].version,
                        worker'[x].version \notin spoiled', x # y
                 PROVE  FALSE
      BY DEF WritersAlone
    <3>1. CASE x = w
      BY <2>1, <2>2, <2>3, <3>1 DEF Writes
    <3>2. CASE y = w
      BY <2>1, <2>2, <2>3, <3>2 DEF Writes
    <3>3. CASE x # w /\ y # w
      BY <2>2, <2>3, <3>3 DEF Kept, WritersAlone, Writes
    <3> QED
      BY <3>1, <3>2, <3>3
  <2>6. WritersExtend'
    BY <2>1, <2>2, <2>3 DEF Kept, WritersExtend, Writes
  <2> QED
    BY <2>4, <2>5, <2>6 DEF Kept
<1>3. ASSUME NEW w \in Worker, WriteManifest(w) PROVE Kept'
  <2> DEFINE v == worker[w].version
             merged == worker[w].merged
  <2>1. /\ Writes(w) /\ ~Writes(w)' /\ v \in Version /\ merged \in Manifest
        /\ disk'.verified[v] = merged /\ spoiled' = spoiled
        /\ \A u \in Version : u # v => disk'.verified[u] = disk.verified[u]
        /\ \A other \in Worker : other # w => worker'[other] = worker[other]
        /\ applied' = applied \cup
              {[version |-> v, ref |-> worker[w].report, path |-> path,
                value |-> worker[w].merged.promoted[path].value] :
                  path \in worker[w].promoted}
    BY <1>3, ManifestWritten
  <2>2. /\ worker[w].promoted \subseteq DOMAIN merged.promoted
        /\ worker[w].report \in merged.evidence
    BY <2>1 DEF Typed, Workers, Writes
  <2>3. AppliedHeld'
    <3> SUFFICES ASSUME NEW a \in applied', a.version \notin spoiled PROVE Held(a)'
      BY <2>1 DEF AppliedHeld
    <3>1. CASE a \in applied /\ a.version # v
      BY <2>1, <3>1 DEF Kept, AppliedHeld, Held
    <3>2. CASE a \in applied /\ a.version = v
      <4>1. Held(a)
        BY <3>2 DEF Kept, AppliedHeld
      <4>2. /\ DOMAIN disk.verified[v].promoted \subseteq DOMAIN merged.promoted
            /\ disk.verified[v].evidence \subseteq merged.evidence
        BY <2>1, <3>2, <4>1 DEF Kept, WritersExtend, Held
      <4> QED
        BY <2>1, <3>2, <4>1, <4>2 DEF Held
    <3>3. CASE a \notin applied
      <4>1. PICK path \in worker[w].promoted :
               a = [version |-> v, ref |-> worker[w].report, path |-> path,
                    value |-> worker[w].merged.promoted[path].value]
        BY <2>1, <3>3
      <4>2. a.version = v /\ a.ref = worker[w].report /\ a.path = path
        BY <4>1
      <4> QED
        BY <2>1, <2>2, <4>2 DEF Held
    <3> QED
      BY <3>1, <3>2, <3>3
  <2>4. WritersAlone'
    BY <2>1 DEF Kept, WritersAlone, Writes
  <2>5. WritersExtend'
    <3> SUFFICES ASSUME NEW o \in Worker, Writes(o)', worker'[o].version \notin spoiled',
                        disk'.verified[worker'[o].version] \in Manifest
                 PROVE  LET u == worker'[o].version
                        IN  /\ DOMAIN disk'.verified[u].promoted
                                  \subseteq DOMAIN worker'[o].merged.promoted
                            /\ disk'.verified[u].evidence \subseteq worker'[o].merged.evidence
      BY DEF WritersExtend
    <3>1. o # w /\ worker'[o] = worker[o] /\ Writes(o)
      BY <2>1 DEF Writes
    <3>2. worker[o].version # v
      BY <2>1, <3>1 DEF Kept, WritersAlone
    <3>3. worker[o].version \in Version
      BY <3>1 DEF Writes, Typed, Workers, Files, Busy
    <3>4. disk'.verified[worker[o].version] = disk.verified[worker[o].version]
      BY <2>1, <3>2, <3>3
    <3> QED
      BY <2>1, <3>1, <3>4 DEF Kept, WritersExtend
  <2> QED
    BY <2>3, <2>4, <2>5 DEF Kept
<1> QED
  BY <1>1, <1>2, <1>3

LEMMA InitKept == Init => Kept
<1> SUFFICES ASSUME Init PROVE Kept
  OBVIOUS
<1>1. applied = {} /\ \A w \in Worker : worker[w].pc = "idle"
  BY NewStates DEF Init
<1> QED
  BY <1>1 DEF Kept, AppliedHeld, WritersAlone, WritersExtend, Writes

(***************************************************************************)
(* A promotion that has been written stays, however many runs, reviewers,  *)
(* reports and kills there are, unless its version is spoiled.             *)
(***************************************************************************)
THEOREM PromotionsStay == Spec => []PromotionsKept
<1>1. Typed /\ Kept => PromotionsKept
  BY ManifestsAreNoMarks DEF Kept, AppliedHeld, Held, PromotionsKept, Readable
<1> QED
  BY <1>1, InitTyped, StepTyped, InitKept, KeptStep, PTL DEF Spec

------------------------------------------------------------------------------
(***************************************************************************)
(* What the plugin sends.  Whatever is promoted in a file, or in what a    *)
(* process has read of one, was put there by a promotion.                  *)
(***************************************************************************)
Backed(v, path, value) ==
    \E a \in applied : a.version = v /\ a.path = path /\ a.value = value

Shown(file, v) ==
    \A path \in DOMAIN file.promoted : Backed(v, path, file.promoted[path].value)

FilesShown ==
    \A v \in Version : disk.verified[v] \in Manifest => Shown(disk.verified[v], v)

WritersShown ==
    \A w \in Worker : Writes(w) =>
        \A path \in DOMAIN worker[w].merged.promoted :
            \/ path \in worker[w].promoted
            \/ Backed(worker[w].version, path, worker[w].merged.promoted[path].value)

Memory ==
    [candidate: [Version -> Candidate \cup {NoFile, Unread}],
     verified: [Version -> Manifest \cup {NoFile, Unread}],
     candidateIndex: (SUBSET Version) \cup {NoFile, Unread},
     verifiedIndex: (SUBSET Version) \cup {NoFile, Unread}]

MemoryShown(mem) ==
    \A v \in Version : mem.verified[v] # Unread /\ mem.verified[v] \in Manifest =>
        Shown(mem.verified[v], v)

ProfileShown(profile) ==
    /\ profile.value = [path \in Field |-> profile.value[path]]
    /\ \A path \in Field : ClassifyRisk(path) # "low-risk" =>
          \/ profile.value[path] = Own[path]
          \/ Backed(profile.made, path, profile.value[path])

\* Candidates that a process has read stay as they were read.
Grows(mem, after) ==
    \A u \in Version : mem.candidate[u] # Unread => after.candidate[u] = mem.candidate[u]

CandidateSays(mem, path, value) ==
    \/ value = NoBetas
    \/ \E u \in Version : mem.candidate[u] \notin {NoFile, Unread}
                          /\ mem.candidate[u][path].value = value

BetaLists == {"betas.optionalBetas", "betas.authModeBetas"}

\* The value of a field that is sent under a profile.
FieldShown(profile, path, value, mem) ==
    \/ value = profile.value[path]
    \/ path \in BetaLists /\ ~HasBetas(profile, path) /\ CandidateSays(mem, path, value)

SentShown(profile, sent, mem) ==
    \A path \in Field : FieldShown(profile, path, sent[path], mem)

PluginShown ==
    /\ plugin = [mem |-> plugin.mem, served |-> plugin.served, sent |-> plugin.sent]
    /\ plugin.served = [v \in Version |-> plugin.served[v]]
    /\ plugin.sent = [v \in Version |-> plugin.sent[v]]
    /\ plugin.mem \in Memory /\ MemoryShown(plugin.mem)
    /\ \A v \in Version : plugin.served[v] # Unread =>
          plugin.served[v].version \in Version /\ ProfileShown(plugin.served[v])
    /\ \A v \in Version : plugin.sent[v] # Unread =>
          /\ ProfileShown(plugin.served[v])
          /\ SentShown(plugin.served[v], plugin.sent[v], plugin.mem)

AllShown == FilesShown /\ WritersShown /\ PluginShown

\* The tiers: what is neither promoted nor low-risk is the plugin's own.
LEMMA TiersShown ==
    ASSUME NEW v, NEW verified \in Manifest \cup {NoFile},
           verified \in Manifest => Shown(verified, v),
           NEW candidate \in Candidate \cup {NoFile}
    PROVE  ProfileShown(MergeManifests(v, verified, candidate, Own))
<1> DEFINE profile == MergeManifests(v, verified, candidate, Own)
<1>1. /\ profile.made = v
      /\ profile.value = [path \in Field |-> MergeFieldMetadata(path, verified, candidate, Own)]
  BY DEF MergeManifests
<1> HIDE DEF profile
<1> SUFFICES ASSUME NEW path \in Field, ClassifyRisk(path) # "low-risk"
             PROVE  \/ profile.value[path] = Own[path]
                    \/ Backed(profile.made, path, profile.value[path])
  BY <1>1 DEF ProfileShown, profile
<1>2. CASE Readable(verified) /\ path \in DOMAIN verified.promoted
  <2>1. profile.value[path] = verified.promoted[path].value
    BY <1>1, <1>2 DEF MergeFieldMetadata
  <2>2. verified \in Manifest
    BY <1>2 DEF Readable
  <2> QED
    BY <1>1, <1>2, <2>1, <2>2 DEF Shown
<1>3. CASE ~(Readable(verified) /\ path \in DOMAIN verified.promoted)
  <2>1. Readable(candidate) => candidate[path].risk # "low-risk"
    BY DEF Readable, Candidate
  <2>2. profile.value[path] = Own[path]
    BY <1>1, <1>3, <2>1 DEF MergeFieldMetadata
  <2> QED
    BY <2>2
<1> QED
  BY <1>2, <1>3

\* Reading one file.
LEMMA VerifiedRead ==
    ASSUME Files, FilesShown, NEW mem \in Memory, MemoryShown(mem), NEW v \in Version,
           NEW after, after = ReadVerified(mem, disk, v)
    PROVE  /\ after \in Memory /\ MemoryShown(after) /\ Grows(mem, after)
           /\ after.verified[v] \in Manifest \cup {NoFile}
           /\ after.verified[v] \in Manifest => Shown(after.verified[v], v)
<1> DEFINE f == Load(mem.verified[v], disk.verified[v])
<1>1. /\ f \in Manifest \cup {NoFile}
      /\ f \in Manifest => Shown(f, v)
  <2>1. /\ mem.verified[v] \in Manifest \cup {NoFile, Unread}
        /\ disk.verified[v] \in Manifest \cup {NoFile, Torn}
    BY DEF Memory, Files
  <2>2. CASE mem.verified[v] # Unread
    <3>1. f = mem.verified[v]
      BY <2>2 DEF Load
    <3> QED
      BY <2>1, <2>2, <3>1 DEF MemoryShown
  <2>3. CASE mem.verified[v] = Unread /\ disk.verified[v] = Torn
    <3>1. f = NoFile
      BY <2>3 DEF Load
    <3> QED
      BY <3>1, ManifestsAreNoMarks
  <2>4. CASE mem.verified[v] = Unread /\ disk.verified[v] # Torn
    <3>1. f = disk.verified[v]
      BY <2>4 DEF Load
    <3> QED
      BY <2>1, <2>4, <3>1 DEF FilesShown
  <2> QED
    BY <2>2, <2>3, <2>4
<1>2. after = [mem EXCEPT !.verified[v] = f]
  BY DEF ReadVerified
<1> HIDE DEF f
<1>3. after = [candidate |-> mem.candidate, verified |-> [mem.verified EXCEPT ![v] = f],
               candidateIndex |-> mem.candidateIndex,
               verifiedIndex |-> mem.verifiedIndex]
  BY <1>2 DEF Memory
<1>4. [mem.verified EXCEPT ![v] = f] \in [Version -> Manifest \cup {NoFile, Unread}]
  BY <1>1 DEF Memory
<1>5. after \in Memory /\ Grows(mem, after)
  BY <1>3, <1>4 DEF Memory, Grows
<1>6. /\ after.verified[v] = f
      /\ \A u \in Version : u # v => after.verified[u] = mem.verified[u]
  BY <1>3 DEF Memory
<1>7. MemoryShown(after)
  BY <1>1, <1>6 DEF MemoryShown
<1> QED
  BY <1>1, <1>5, <1>6, <1>7

LEMMA CandidateRead ==
    ASSUME Files, NEW mem \in Memory, MemoryShown(mem), NEW v \in Version,
           NEW after, after = ReadCandidate(mem, disk, v)
    PROVE  /\ after \in Memory /\ MemoryShown(after) /\ Grows(mem, after)
           /\ after.verified = mem.verified
           /\ after.candidate[v] \in Candidate \cup {NoFile}
<1> DEFINE c == Load(mem.candidate[v], disk.candidate[v])
<1>1. c \in Candidate \cup {NoFile} /\ (mem.candidate[v] # Unread => c = mem.candidate[v])
  <2>1. /\ mem.candidate[v] \in Candidate \cup {NoFile, Unread}
        /\ disk.candidate[v] \in Candidate \cup {NoFile}
    BY DEF Memory, Files
  <2> QED
    BY <2>1 DEF Load
<1>2. after = [mem EXCEPT !.candidate[v] = c]
  BY DEF ReadCandidate
<1> HIDE DEF c
<1>3. after = [candidate |-> [mem.candidate EXCEPT ![v] = c], verified |-> mem.verified,
               candidateIndex |-> mem.candidateIndex,
               verifiedIndex |-> mem.verifiedIndex]
  BY <1>2 DEF Memory
<1>4. [mem.candidate EXCEPT ![v] = c] \in [Version -> Candidate \cup {NoFile, Unread}]
  BY <1>1 DEF Memory
<1>5. after \in Memory
  BY <1>3, <1>4 DEF Memory
<1>6. /\ after.verified = mem.verified /\ after.candidate[v] = c
      /\ \A u \in Version : u # v => after.candidate[u] = mem.candidate[u]
  BY <1>3 DEF Memory
<1>7. MemoryShown(after) /\ Grows(mem, after)
  BY <1>1, <1>6 DEF MemoryShown, Grows
<1> QED
  BY <1>1, <1>5, <1>6, <1>7

LEMMA IndexRead ==
    ASSUME Files, NEW mem \in Memory, MemoryShown(mem),
           NEW after \in {ReadVerifiedIndex(mem, disk), ReadCandidateIndex(mem, disk)}
    PROVE  /\ after \in Memory /\ MemoryShown(after) /\ Grows(mem, after)
           /\ after.verified = mem.verified
           /\ LatestOf(after.verifiedIndex) \in Version \cup {0}
           /\ LatestOf(after.candidateIndex) \in Version \cup {0}
<1> DEFINE verified == LoadIndex(mem.verifiedIndex, disk.verifiedIndex)
           candidate == LoadIndex(mem.candidateIndex, disk.candidateIndex)
<1>1. /\ verified \in (SUBSET Version) \cup {NoFile, Unread}
      /\ candidate \in (SUBSET Version) \cup {NoFile, Unread}
  BY DEF LoadIndex, Memory, Files
<1>2. \/ after = [mem EXCEPT !.verifiedIndex = verified]
      \/ after = [mem EXCEPT !.candidateIndex = candidate]
  BY DEF ReadVerifiedIndex, ReadCandidateIndex
<1> HIDE DEF verified, candidate
<1>3. /\ after \in Memory /\ after.verified = mem.verified
      /\ after.candidate = mem.candidate
  BY <1>1, <1>2 DEF Memory
<1>4. MemoryShown(after) /\ Grows(mem, after)
  BY <1>3 DEF MemoryShown, Grows
<1>5. /\ LatestOf(after.verifiedIndex) \in Version \cup {0}
      /\ LatestOf(after.candidateIndex) \in Version \cup {0}
  BY <1>3, LatestIsVersion DEF Memory
<1> QED
  BY <1>3, <1>4, <1>5

LEMMA GrowsOn ==
    ASSUME NEW a, NEW b, NEW c, Grows(a, b), Grows(b, c)
    PROVE  /\ Grows(a, c)
           /\ \A path, value : CandidateSays(b, path, value) => CandidateSays(c, path, value)
BY DEF Grows, CandidateSays

LEMMA GrowsNot == \A mem : Grows(mem, mem)
BY DEF Grows

\* Reading the manifests of a version.
LEMMA ManifestsRead ==
    ASSUME Files, FilesShown, NEW mem \in Memory, MemoryShown(mem), NEW v \in Version,
           NEW after, after = ReadManifests(mem, disk, v)
    PROVE  /\ after \in Memory /\ MemoryShown(after) /\ Grows(mem, after)
           /\ after.verified[v] \in Manifest \cup {NoFile}
           /\ after.verified[v] \in Manifest => Shown(after.verified[v], v)
           /\ after.candidate[v] \in Candidate \cup {NoFile}
<1>1. PICK mid : mid = ReadVerified(mem, disk, v)
  OBVIOUS
<1>2. after = ReadCandidate(mid, disk, v)
  BY <1>1 DEF ReadManifests
<1>3. /\ mid \in Memory /\ MemoryShown(mid) /\ Grows(mem, mid)
      /\ mid.verified[v] \in Manifest \cup {NoFile}
      /\ mid.verified[v] \in Manifest => Shown(mid.verified[v], v)
  BY <1>1, VerifiedRead
<1>4. /\ after \in Memory /\ MemoryShown(after) /\ Grows(mid, after)
      /\ after.verified = mid.verified /\ after.candidate[v] \in Candidate \cup {NoFile}
  BY <1>2, <1>3, CandidateRead
<1> QED
  BY <1>3, <1>4, GrowsOn

LEMMA IndexesRead ==
    ASSUME Files, NEW mem \in Memory, MemoryShown(mem),
           NEW after, after = ReadIndexes(mem, disk)
    PROVE  /\ after \in Memory /\ MemoryShown(after) /\ Grows(mem, after)
           /\ LatestKnown(after) \in Version \cup {0}
<1>1. PICK mid : mid = ReadVerifiedIndex(mem, disk)
  OBVIOUS
<1>2. /\ mid \in Memory /\ MemoryShown(mid) /\ Grows(mem, mid)
      /\ LatestKnown(mid) \in Version \cup {0}
  BY <1>1, IndexRead DEF LatestKnown
<1>3. CASE after = mid
  BY <1>2, <1>3
<1>4. CASE after = ReadCandidateIndex(mid, disk)
  <2>1. /\ after \in Memory /\ MemoryShown(after) /\ Grows(mid, after)
        /\ LatestKnown(after) \in Version \cup {0}
    BY <1>2, <1>4, IndexRead DEF LatestKnown
  <2> QED
    BY <1>2, <2>1, GrowsOn
<1> QED
  BY <1>1, <1>3, <1>4 DEF ReadIndexes

\* A profile made for a version shows what was promoted, and the memory does.
LEMMA ProfileIsShown ==
    ASSUME Files, FilesShown, NEW mem \in Memory, MemoryShown(mem), NEW v \in Version,
           NEW found, found = ResolveProfile(v, mem, disk, Own)
    PROVE  /\ found.mem \in Memory /\ MemoryShown(found.mem) /\ Grows(mem, found.mem)
           /\ ProfileShown(found.profile)
           /\ found.profile = [version |-> found.profile.version, made |-> found.profile.made,
                               source |-> found.profile.source, value |-> found.profile.value]
<1> DEFINE asked == ReadManifests(mem, disk, v)
           indexed == IF Known(asked, v) THEN asked ELSE ReadIndexes(asked, disk)
           resolved == IF Known(asked, v) THEN v ELSE LatestKnown(indexed)
           after == IF resolved = 0 THEN indexed ELSE ReadManifests(indexed, disk, resolved)
           none == MergeManifests(0, NoFile, NoFile, Own)
           some == MergeManifests(resolved, after.verified[resolved],
                                  after.candidate[resolved], Own)
<1>1. found = [mem |-> after, profile |-> IF resolved = 0 THEN none ELSE some]
  BY DEF ResolveProfile
<1>2. asked \in Memory /\ MemoryShown(asked) /\ Grows(mem, asked)
  BY ManifestsRead
<1>w. /\ none = [version |-> none.version, made |-> none.made,
                 source |-> none.source, value |-> none.value]
      /\ some = [version |-> some.version, made |-> some.made,
                 source |-> some.source, value |-> some.value]
  BY DEF MergeManifests
<1> HIDE DEF asked
<1>3. /\ indexed \in Memory /\ MemoryShown(indexed) /\ Grows(mem, indexed)
      /\ resolved \in Version \cup {0}
  <2>1. CASE Known(asked, v)
    BY <1>2, <2>1
  <2>2. CASE ~Known(asked, v)
    <3>1. indexed = ReadIndexes(asked, disk) /\ resolved = LatestKnown(indexed)
      BY <2>2
    <3> HIDE DEF indexed, resolved
    <3>2. /\ indexed \in Memory /\ MemoryShown(indexed) /\ Grows(asked, indexed)
          /\ LatestKnown(indexed) \in Version \cup {0}
      BY <1>2, <3>1, IndexesRead
    <3> QED
      BY <1>2, <3>1, <3>2, GrowsOn
  <2> QED
    BY <2>1, <2>2
<1> HIDE DEF indexed, resolved
<1>4. CASE resolved = 0
  <2>1. ProfileShown(none)
    BY TiersShown, ManifestsAreNoMarks
  <2> HIDE DEF none, some
  <2>2. after = indexed /\ found.mem = after /\ found.profile = none
    BY <1>1, <1>4
  <2> QED
    BY <1>3, <1>w, <2>1, <2>2
<1>5. CASE resolved # 0
  <2>1. resolved \in Version /\ after = ReadManifests(indexed, disk, resolved)
    BY <1>3, <1>5
  <2> HIDE DEF after, none
  <2>2. /\ after \in Memory /\ MemoryShown(after) /\ Grows(indexed, after)
        /\ after.verified[resolved] \in Manifest \cup {NoFile}
        /\ after.verified[resolved] \in Manifest => Shown(after.verified[resolved], resolved)
        /\ after.candidate[resolved] \in Candidate \cup {NoFile}
    BY <1>3, <2>1, ManifestsRead
  <2>3. ProfileShown(some)
    BY <2>2, TiersShown
  <2> HIDE DEF some
  <2>4. found.mem = after /\ found.profile = some
    BY <1>1, <1>5
  <2>5. Grows(mem, after)
    BY <1>3, <2>2, GrowsOn
  <2> QED
    BY <1>w, <2>2, <2>3, <2>4, <2>5
<1> QED
  BY <1>4, <1>5

\* Normalizing changes the version only.
LEMMA ProfileIsNormalized ==
    ASSUME Files, FilesShown, NEW mem \in Memory, MemoryShown(mem), NEW v \in Version,
           NEW found, found = GetRequestProfile(v, mem, disk, Own)
    PROVE  /\ found.mem \in Memory /\ MemoryShown(found.mem) /\ Grows(mem, found.mem)
           /\ ProfileShown(found.profile) /\ found.profile.version = v
<1>1. PICK raw : raw = ResolveProfile(v, mem, disk, Own)
  OBVIOUS
<1>2. /\ raw.mem \in Memory /\ MemoryShown(raw.mem) /\ Grows(mem, raw.mem)
      /\ ProfileShown(raw.profile)
      /\ raw.profile = [version |-> raw.profile.version, made |-> raw.profile.made,
                        source |-> raw.profile.source, value |-> raw.profile.value]
  BY <1>1, ProfileIsShown
<1>3. found.mem = raw.mem /\ found.profile = [raw.profile EXCEPT !.version = v]
  BY <1>1 DEF GetRequestProfile
<1>4. PICK profile : profile = raw.profile
  OBVIOUS
<1>5. PICK u, made, source, value :
         profile = [version |-> u, made |-> made, source |-> source, value |-> value]
  BY <1>2, <1>4
<1>6. found.profile = [version |-> v, made |-> made, source |-> source, value |-> value]
  BY <1>3, <1>4, <1>5
<1>7. /\ found.profile.version = v /\ found.profile.made = profile.made
      /\ found.profile.value = profile.value
  BY <1>5, <1>6
<1>8. ProfileShown(found.profile)
  BY <1>2, <1>4, <1>7 DEF ProfileShown
<1> QED
  BY <1>2, <1>3, <1>7, <1>8

\* A list of betas is the profile's, or the profile has none and a candidate that
\* has been read says it.
LEMMA InventoryShown ==
    ASSUME Files, NEW mem \in Memory, MemoryShown(mem), NEW path \in BetaLists,
           NEW profile, profile.version \in Version,
           NEW found, found = Inventory(path, profile, mem, disk)
    PROVE  /\ found.mem \in Memory /\ MemoryShown(found.mem) /\ Grows(mem, found.mem)
           /\ FieldShown(profile, path, found.value, found.mem)
<1>1. PICK v, direct, indexed, latest, after :
         /\ v = profile.version
         /\ direct = ReadCandidate(mem, disk, v)
         /\ indexed = ReadCandidateIndex(direct, disk)
         /\ latest = LatestOf(indexed.candidateIndex)
         /\ after = IF latest = 0 THEN indexed ELSE ReadCandidate(indexed, disk, latest)
  OBVIOUS
<1> DEFINE Betas(m, u) == IF u # 0 /\ Readable(m.candidate[u]) THEN m.candidate[u][path].value
                          ELSE NoBetas
<1>2. \/ HasBetas(profile, path) /\ found = [mem |-> mem, value |-> profile.value[path]]
      \/ ~HasBetas(profile, path) /\ found = [mem |-> direct, value |-> Betas(direct, v)]
      \/ ~HasBetas(profile, path) /\ found = [mem |-> after, value |-> Betas(after, latest)]
  BY <1>1 DEF Inventory
<1>3. /\ direct \in Memory /\ MemoryShown(direct) /\ Grows(mem, direct)
      /\ direct.candidate[v] \in Candidate \cup {NoFile}
  BY <1>1, CandidateRead
<1>4. /\ indexed \in Memory /\ MemoryShown(indexed) /\ Grows(direct, indexed)
      /\ latest \in Version \cup {0}
  BY <1>1, <1>3, IndexRead
<1>5. /\ after \in Memory /\ MemoryShown(after) /\ Grows(mem, after)
      /\ latest # 0 => latest \in Version /\ after.candidate[latest] \in Candidate \cup {NoFile}
  <2>1. Grows(mem, indexed)
    BY <1>3, <1>4, GrowsOn
  <2>2. CASE latest = 0
    BY <1>1, <1>4, <2>1, <2>2
  <2>3. CASE latest # 0
    <3>1. latest \in Version /\ after = ReadCandidate(indexed, disk, latest)
      BY <1>1, <1>4, <2>3
    <3>2. /\ after \in Memory /\ MemoryShown(after) /\ Grows(indexed, after)
          /\ after.candidate[latest] \in Candidate \cup {NoFile}
      BY <1>4, <3>1, CandidateRead
    <3> QED
      BY <2>1, <3>1, <3>2, GrowsOn
  <2> QED
    BY <2>2, <2>3
<1>6. ASSUME NEW m, NEW u, u # 0 => u \in Version /\ m.candidate[u] \in Candidate \cup {NoFile}
      PROVE  CandidateSays(m, path, Betas(m, u))
  <2>1. CASE u # 0 /\ Readable(m.candidate[u])
    <3>1. u \in Version /\ m.candidate[u] \notin {NoFile, Unread}
      BY <1>6, <2>1 DEF Readable, Candidate
    <3> QED
      BY <2>1, <3>1 DEF CandidateSays
  <2>2. CASE ~(u # 0 /\ Readable(m.candidate[u]))
    BY <2>2 DEF CandidateSays
  <2> QED
    BY <2>1, <2>2
<1>7. /\ CandidateSays(direct, path, Betas(direct, v))
      /\ CandidateSays(after, path, Betas(after, latest))
  BY <1>1, <1>3, <1>5, <1>6
<1> HIDE DEF Betas
<1>8. CASE HasBetas(profile, path) /\ found = [mem |-> mem, value |-> profile.value[path]]
  BY <1>8, GrowsNot DEF FieldShown
<1>9. CASE ~HasBetas(profile, path) /\ found = [mem |-> direct, value |-> Betas(direct, v)]
  <2>1. found.mem = direct /\ found.value = Betas(direct, v)
    BY <1>9
  <2> QED
    BY <1>3, <1>7, <1>9, <2>1 DEF FieldShown
<1>10. CASE ~HasBetas(profile, path) /\ found = [mem |-> after, value |-> Betas(after, latest)]
  <2>1. found.mem = after /\ found.value = Betas(after, latest)
    BY <1>10
  <2> QED
    BY <1>5, <1>7, <1>10, <2>1 DEF FieldShown
<1> QED
  BY <1>2, <1>8, <1>9, <1>10

LEMMA RequestIsShown ==
    ASSUME Files, NEW mem \in Memory, MemoryShown(mem),
           NEW profile, profile.version \in Version, ProfileShown(profile),
           NEW built, built = BuildRequest(profile, mem, disk)
    PROVE  /\ built.mem \in Memory /\ MemoryShown(built.mem) /\ Grows(mem, built.mem)
           /\ SentShown(profile, built.sent, built.mem)
<1> DEFINE o == "betas.optionalBetas"
           a == "betas.authModeBetas"
<1>1. PICK optional, authMode :
         /\ optional = Inventory(o, profile, mem, disk)
         /\ authMode = Inventory(a, profile, optional.mem, disk)
  OBVIOUS
<1>2. /\ built.mem = authMode.mem
      /\ built.sent = [profile.value EXCEPT ![o] = optional.value, ![a] = authMode.value]
  BY <1>1 DEF BuildRequest
<1>3. o \in BetaLists /\ a \in BetaLists /\ o # a
  BY DEF BetaLists
<1>4. /\ optional.mem \in Memory /\ MemoryShown(optional.mem) /\ Grows(mem, optional.mem)
      /\ FieldShown(profile, o, optional.value, optional.mem)
  BY <1>1, <1>3, InventoryShown
<1>5. /\ authMode.mem \in Memory /\ MemoryShown(authMode.mem)
      /\ Grows(optional.mem, authMode.mem)
      /\ FieldShown(profile, a, authMode.value, authMode.mem)
  BY <1>1, <1>3, <1>4, InventoryShown
<1>6. /\ Grows(mem, authMode.mem)
      /\ FieldShown(profile, o, optional.value, authMode.mem)
  BY <1>4, <1>5, GrowsOn DEF FieldShown
<1>7. PICK x, y, value : x = optional.value /\ y = authMode.value /\ value = profile.value
  OBVIOUS
<1>8. value = [path \in Field |-> value[path]] /\ o \in Field /\ a \in Field
  BY <1>7, BetaListsAreFields DEF ProfileShown
<1>9. /\ built.sent[o] = x /\ built.sent[a] = y
      /\ \A path \in Field : path # o /\ path # a => built.sent[path] = value[path]
  BY <1>2, <1>3, <1>7, <1>8
<1>10. ASSUME NEW path \in Field PROVE FieldShown(profile, path, built.sent[path], built.mem)
  <2>1. CASE path = o
    BY <1>2, <1>6, <1>7, <1>9, <2>1
  <2>2. CASE path = a
    BY <1>2, <1>5, <1>7, <1>9, <2>2
  <2>3. CASE path # o /\ path # a
    BY <1>7, <1>9, <2>3 DEF FieldShown
  <2> QED
    BY <2>1, <2>2, <2>3
<1> QED
  BY <1>2, <1>5, <1>6, <1>10 DEF SentShown

\* What has been promoted remains so: the history only grows.
LEMMA BackedStays ==
    ASSUME applied \subseteq applied'
    PROVE  /\ \A v, path, value : Backed(v, path, value) => Backed(v, path, value)'
           /\ UNCHANGED <<plugin, release>> /\ PluginShown => PluginShown'
<1>1. \A v, path, value : Backed(v, path, value) => Backed(v, path, value)'
  BY DEF Backed
<1>2. ASSUME UNCHANGED <<plugin, release>>, PluginShown PROVE PluginShown'
  <2>1. Own' = Own
    BY <1>2 DEF Own
  <2>2. MemoryShown(plugin.mem)'
    BY <1>1, <1>2 DEF PluginShown, MemoryShown, Shown
  <2>4. \A v \in Version : ProfileShown(plugin.served[v]) => ProfileShown(plugin.served[v])'
    BY <1>2, <2>1, <1>1 DEF ProfileShown
  <2>5. \A v \in Version : SentShown(plugin.served[v], plugin.sent[v], plugin.mem)'
                           <=> SentShown(plugin.served[v], plugin.sent[v], plugin.mem)
    BY <1>2 DEF SentShown, FieldShown, HasBetas, CandidateSays
  <2> QED
    BY <1>2, <2>2, <2>4, <2>5 DEF PluginShown, Memory
<1> QED
  BY <1>1, <1>2

LEMMA InitShown == Init => AllShown
<1> SUFFICES ASSUME Init PROVE AllShown
  OBVIOUS
<1>1. FilesShown
  BY ManifestsAreNoMarks DEF Init, FilesShown
<1>2. WritersShown
  BY NewStates DEF Init, WritersShown, Writes
<1>3. PluginShown
  BY DEF Init, PluginShown, FreshPlugin, NothingRead, Memory, MemoryShown
<1> QED
  BY <1>1, <1>2, <1>3 DEF AllShown

\* What a step does to the plugin process.
LEMMA PluginStep ==
    ASSUME Typed, FilesShown, PluginShown, [Next]_vars, applied \subseteq applied'
    PROVE  PluginShown'
<1>1. CASE UNCHANGED <<plugin, release>>
  BY <1>1, BackedStays
<1>2. CASE RestartPlugin
  <2>1. plugin' = FreshPlugin
    BY <1>2 DEF RestartPlugin
  <2> QED
    BY <2>1 DEF PluginShown, FreshPlugin, NothingRead, Memory, MemoryShown
<1>3. ASSUME NEW v \in Asked, SendRequest(v) PROVE PluginShown'
  <2>v. v \in Version
    BY AskedExist
  <2>1. PICK found, built :
           /\ found = IF plugin.served[v] # Unread
                      THEN [mem |-> plugin.mem, profile |-> plugin.served[v]]
                      ELSE GetRequestProfile(v, plugin.mem, disk, Own)
           /\ built = BuildRequest(found.profile, found.mem, disk)
           /\ plugin' = [mem    |-> built.mem,
                         served |-> [plugin.served EXCEPT ![v] = found.profile],
                         sent   |-> [plugin.sent EXCEPT ![v] = built.sent]]
           /\ applied' = applied /\ release' = release
    BY <1>3 DEF SendRequest, history
  <2>2. /\ found.mem \in Memory /\ MemoryShown(found.mem) /\ Grows(plugin.mem, found.mem)
        /\ ProfileShown(found.profile) /\ found.profile.version \in Version
    <3>1. CASE plugin.served[v] # Unread
      <4>1. found.mem = plugin.mem /\ found.profile = plugin.served[v]
        BY <2>1, <3>1
      <4> QED
        BY <2>v, <3>1, <4>1, GrowsNot DEF PluginShown
    <3>2. CASE plugin.served[v] = Unread
      <4>1. found = GetRequestProfile(v, plugin.mem, disk, Own)
        BY <2>1, <3>2
      <4>2. plugin.mem \in Memory /\ MemoryShown(plugin.mem)
        BY DEF PluginShown
      <4> QED
        BY <2>v, <4>1, <4>2, ProfileIsNormalized DEF Typed
    <3> QED
      BY <3>1, <3>2
  <2>3. /\ built.mem \in Memory /\ MemoryShown(built.mem) /\ Grows(found.mem, built.mem)
        /\ SentShown(found.profile, built.sent, built.mem)
    BY <2>1, <2>2, RequestIsShown DEF Typed
  <2>p. PICK mem, served, sent :
           mem = built.mem /\ served = found.profile /\ sent = built.sent
    OBVIOUS
  <2>4. /\ plugin'.mem = mem
        /\ plugin'.served = [plugin.served EXCEPT ![v] = served]
        /\ plugin'.sent = [plugin.sent EXCEPT ![v] = sent]
        /\ plugin' = [mem |-> plugin'.mem, served |-> plugin'.served, sent |-> plugin'.sent]
    BY <2>1, <2>p
  <2>5. /\ plugin'.served = [u \in Version |-> plugin'.served[u]]
        /\ plugin'.sent = [u \in Version |-> plugin'.sent[u]]
        /\ plugin'.served[v] = served /\ plugin'.sent[v] = sent
        /\ \A u \in Version : u # v => /\ plugin'.served[u] = plugin.served[u]
                                       /\ plugin'.sent[u] = plugin.sent[u]
    BY <2>v, <2>4 DEF PluginShown
  <2>6. \A u \in Version : ProfileShown(plugin'.served[u]) => ProfileShown(plugin.served[u])'
    <3>1. Own' = Own
      BY <2>1 DEF Own
    <3> QED
      BY <2>1, <3>1 DEF ProfileShown, Backed
  <2>7. ASSUME NEW u \in Version, plugin'.served[u] # Unread
        PROVE  plugin'.served[u].version \in Version /\ ProfileShown(plugin.served[u])'
    BY <2>2, <2>5, <2>6, <2>7, <2>p DEF PluginShown
  <2>8. ASSUME NEW u \in Version, plugin'.sent[u] # Unread
        PROVE  /\ ProfileShown(plugin.served[u])'
               /\ SentShown(plugin.served[u], plugin.sent[u], plugin.mem)'
    <3>1. SentShown(plugin'.served[u], plugin'.sent[u], mem)
      <4>1. CASE u = v
        BY <2>3, <2>5, <2>p, <4>1
      <4>2. CASE u # v
        <5>1. SentShown(plugin.served[u], plugin.sent[u], plugin.mem)
          BY <2>5, <2>8, <4>2 DEF PluginShown
        <5>2. \A path, value : CandidateSays(plugin.mem, path, value)
                               => CandidateSays(mem, path, value)
          BY <2>2, <2>3, <2>p, GrowsNot, GrowsOn
        <5>3. SentShown(plugin.served[u], plugin.sent[u], mem)
          BY <5>1, <5>2 DEF SentShown, FieldShown
        <5> QED
          BY <2>5, <4>2, <5>3
      <4> QED
        BY <4>1, <4>2
    <3>2. ProfileShown(plugin'.served[u])
      BY <2>2, <2>5, <2>8, <2>p DEF PluginShown
    <3>3. ProfileShown(plugin.served[u])'
      BY <2>6, <3>2
    <3>4. SentShown(plugin'.served[u], plugin'.sent[u], plugin'.mem)
      BY <2>4, <3>1
    <3>5. SentShown(plugin.served[u], plugin.sent[u], plugin.mem)'
      BY <3>4 DEF SentShown, FieldShown, HasBetas, CandidateSays
    <3> QED
      BY <3>3, <3>5
  <2>9. MemoryShown(plugin.mem)' /\ plugin'.mem \in Memory
    <3>a. applied' = applied /\ MemoryShown(mem)
      BY <2>1, <2>3, <2>p
    <3>1. MemoryShown(mem)'
      BY <3>a DEF MemoryShown, Shown, Backed
    <3> QED
      BY <2>3, <2>4, <2>p, <3>1 DEF MemoryShown
  <2> QED
    BY <2>4, <2>5, <2>7, <2>8, <2>9 DEF PluginShown, Memory
<1>4. CASE ~RestartPlugin /\ \A v \in Asked : ~SendRequest(v)
  <2>1. UNCHANGED <<plugin, release>>
    <3>1. CASE Elsewhere \/ UNCHANGED vars
      BY <1>4, <3>1 DEF Elsewhere, BuildCandidate, IndexCandidate, BuilderKilled,
         Unlocks, EndsBeforeStart, Interrupted, vars, world
    <3>2. ASSUME NEW w, Works(w) PROVE UNCHANGED <<plugin, release>>
      BY <3>2 DEF Works, GoesOn, Stops, Start, Review, RunScenario, ScenarioFails,
         WriteReport, PromoteReads, WriteManifest, ReadIndex, WriteIndex, Killed,
         CommandInterrupted, Fails, world
    <3> QED
      BY <3>1, <3>2, NextIs DEF Works, Reviews, ReviewPending, ReviewNamed
  <2> QED
    BY <1>1, <2>1
<1> QED
  BY <1>2, <1>3, <1>4

LEMMA ShownStep == Typed /\ AllShown /\ [Next]_vars => AllShown'
<1> SUFFICES ASSUME Typed, AllShown, [Next]_vars PROVE AllShown'
  OBVIOUS
<1>1. ASSUME \A w \in Worker : ~PromoteReads(w) /\ ~WriteManifest(w)
      PROVE  applied \subseteq applied' /\ FilesShown' /\ WritersShown'
  <2>1. /\ applied' = applied
        /\ \A w \in Worker : Writes(w)' => Writes(w) /\ worker'[w] = worker[w]
    BY <1>1, QuietStep
  <2>2. \A v \in Version : disk'.verified[v] \in {disk.verified[v], Torn}
    BY <1>1, QuietStep DEF Typed, Files
  <2>3. FilesShown'
    BY <2>1, <2>2, ManifestsAreNoMarks DEF AllShown, FilesShown, Shown, Backed
  <2>4. WritersShown'
    BY <2>1 DEF AllShown, WritersShown, Backed
  <2> QED
    BY <2>1, <2>3, <2>4
<1>2. ASSUME NEW w \in Worker, PromoteReads(w)
      PROVE  applied \subseteq applied' /\ FilesShown' /\ WritersShown'
  <2> DEFINE v == worker[w].version
  <2>1. /\ v \in Version /\ worker'[w].version = v
        /\ \A path \in DOMAIN worker'[w].merged.promoted :
              \/ path \in worker'[w].promoted
              \/ /\ disk.verified[v] \in Manifest
                 /\ path \in DOMAIN disk.verified[v].promoted
                 /\ worker'[w].merged.promoted[path] = disk.verified[v].promoted[path]
    BY <1>2, PromotionReads
  <2>2. UNCHANGED <<disk, applied>>
    BY <1>2 DEF PromoteReads, files
  <2>3. \A other \in Worker : other # w => worker'[other] = worker[other]
    BY <1>2, OthersStay DEF Works, GoesOn, Typed
  <2>4. FilesShown'
    BY <2>2 DEF AllShown, FilesShown, Shown, Backed
  <2>5. ASSUME NEW x \in Worker, Writes(x)', NEW path \in DOMAIN worker'[x].merged.promoted,
               path \notin worker'[x].promoted
        PROVE  Backed(worker[x].version, path, worker[x].merged.promoted[path].value)'
    <3>1. CASE x = w
      <4>1. /\ disk.verified[v] \in Manifest /\ path \in DOMAIN disk.verified[v].promoted
            /\ worker'[x].merged.promoted[path] = disk.verified[v].promoted[path]
        BY <2>1, <2>5, <3>1
      <4>2. Backed(v, path, disk.verified[v].promoted[path].value)
        BY <2>1, <4>1 DEF AllShown, FilesShown, Shown
      <4> QED
        BY <2>1, <2>2, <3>1, <4>1, <4>2 DEF Backed
    <3>2. CASE x # w
      BY <2>2, <2>3, <2>5, <3>2 DEF AllShown, WritersShown, Writes, Backed
    <3> QED
      BY <3>1, <3>2
  <2> QED
    BY <2>2, <2>4, <2>5 DEF WritersShown
<1>3. ASSUME NEW w \in Worker, WriteManifest(w)
      PROVE  applied \subseteq applied' /\ FilesShown' /\ WritersShown'
  <2>p. PICK v, merged : v = worker[w].version /\ merged = worker[w].merged
    OBVIOUS
  <2> DEFINE Add == {[version |-> v, ref |-> worker[w].report, path |-> path,
                      value |-> merged.promoted[path].value] : path \in worker[w].promoted}
  <2>1. /\ Writes(w) /\ ~Writes(w)' /\ v \in Version /\ merged \in Manifest
        /\ disk'.verified[v] = merged
        /\ \A u \in Version : u # v => disk'.verified[u] = disk.verified[u]
        /\ \A other \in Worker : other # w => worker'[other] = worker[other]
        /\ applied' = applied \cup Add
    BY <1>3, <2>p, ManifestWritten
  <2>2. ASSUME NEW path \in worker[w].promoted
        PROVE  \E a \in Add : /\ a.version = v /\ a.path = path
                              /\ a.value = merged.promoted[path].value
    <3> DEFINE a == [version |-> v, ref |-> worker[w].report, path |-> path,
                     value |-> merged.promoted[path].value]
    <3>1. a \in Add /\ a.version = v /\ a.path = path
          /\ a.value = merged.promoted[path].value
      OBVIOUS
    <3> QED
      BY <3>1
  <2> HIDE DEF Add
  <2>3. \A u, path, value : Backed(u, path, value) => Backed(u, path, value)'
    BY <2>1 DEF Backed
  <2>4. ASSUME NEW path \in DOMAIN merged.promoted
        PROVE  Backed(v, path, merged.promoted[path].value)'
    <3>1. CASE path \in worker[w].promoted
      BY <2>1, <2>2, <3>1 DEF Backed
    <3>2. CASE path \notin worker[w].promoted
      BY <2>1, <2>3, <2>p, <3>2 DEF AllShown, WritersShown
    <3> QED
      BY <3>1, <3>2
  <2>5. FilesShown'
    BY <2>1, <2>3, <2>4 DEF AllShown, FilesShown, Shown
  <2>6. WritersShown'
    BY <2>1, <2>3 DEF AllShown, WritersShown, Writes
  <2> QED
    BY <2>1, <2>5, <2>6
<1>4. applied \subseteq applied' /\ FilesShown' /\ WritersShown'
  BY <1>1, <1>2, <1>3
<1>5. PluginShown'
  BY <1>4, PluginStep DEF AllShown
<1> QED
  BY <1>4, <1>5 DEF AllShown

(***************************************************************************)
(* A critical or sensitive field is sent as the plugin's own value or as   *)
(* one promoted for the version that the profile is made of, whatever is   *)
(* on disk and in the caches, except betas of which the profile has none.  *)
(***************************************************************************)
THEOREM SentWhenPromoted == Spec => []WireNeedsVerification
<1>1. AllShown => WireNeedsVerification
  <2> SUFFICES ASSUME AllShown, NEW v \in Version, plugin.sent[v] # Unread,
                      NEW path \in Field, ClassifyRisk(path) # "low-risk"
               PROVE  \/ plugin.sent[v][path] = Own[path]
                      \/ Backed(plugin.served[v].made, path, plugin.sent[v][path])
                      \/ /\ path \in BetaLists /\ ~HasBetas(plugin.served[v], path)
                         /\ CandidateSays(plugin.mem, path, plugin.sent[v][path])
    BY DEF WireNeedsVerification, Backed, BetaLists, CandidateSays
  <2>1. /\ ProfileShown(plugin.served[v])
        /\ FieldShown(plugin.served[v], path, plugin.sent[v][path], plugin.mem)
    BY DEF AllShown, PluginShown, SentShown
  <2> QED
    BY <2>1 DEF ProfileShown, FieldShown
<1> QED
  BY <1>1, InitTyped, StepTyped, InitShown, ShownStep, PTL DEF Spec

------------------------------------------------------------------------------
(***************************************************************************)
(* What the reports say.  A comparison is never with the request it is     *)
(* compared with: the plugin's capture is looked for from the second on.   *)
(***************************************************************************)
Compared(x) == \A path \in DOMAIN x : x[path].by \in {"plugin", "late"}

AllCompared(results) == \E S : results \in Seq(S) /\ \A x \in S : Compared(x)

LEMMA NoneCompared == AllCompared(<< >>)
<1>1. PICK S : S = {}
  OBVIOUS
<1>2. << >> \in Seq(S) /\ \A x \in S : Compared(x)
  BY <1>1, EmptySeq
<1> QED
  BY <1>2 DEF AllCompared

LEMMA OneMoreCompared ==
    ASSUME NEW results, AllCompared(results), NEW x, Compared(x)
    PROVE  AllCompared(Append(results, x))
<1>1. PICK S : results \in Seq(S) /\ \A y \in S : Compared(y)
  BY DEF AllCompared
<1>2. results \in Seq(S \cup {x})
  BY <1>1
<1>3. Append(results, x) \in Seq(S \cup {x})
  BY <1>2, AppendProperties
<1>4. \A y \in S \cup {x} : Compared(y)
  BY <1>1
<1> QED
  BY <1>3, <1>4 DEF AllCompared

LEMMA ScenarioCompared ==
    ASSUME NEW scenario, NEW first, NEW late, NEW plugged,
           plugged.prompt = scenario, plugged.by = "plugin",
           late.prompt = scenario, late.by = "late",
           NEW captures \in {<<first, plugged>>, <<first, late, plugged>>}
    PROVE  Compared(ScenarioResult(scenario, captures, 1))
<1> DEFINE S == {i \in 2 .. Len(captures) : captures[i].prompt = scenario}
<1>1. Len(captures) \in Nat /\ Len(captures) >= 2 /\ captures[2] \in {plugged, late}
  <2>1. CASE captures = <<first, plugged>>
    BY <2>1
  <2>2. CASE captures = <<first, late, plugged>>
    BY <2>2
  <2> QED
    BY <2>1, <2>2
<1>2. ScenarioResult(scenario, captures, 1) =
         CompareScenarioFields(scenario, SelectCaptureForScenario(captures, 0, scenario),
                               captures[Min(S)])
  <2>1. 1 + 1 = 2
    OBVIOUS
  <2> QED
    BY <2>1 DEF ScenarioResult, SelectCaptureForScenario
<1>3. 2 \in S /\ \A y \in S : y \in Int /\ 2 <= y
  BY <1>1
<1> HIDE DEF S
<1>4. Min(S) = 2
  <2>1. \A x \in S : (\A y \in S : x <= y) => x = 2
    BY <1>3
  <2>2. Min(S) \in S /\ \A y \in S : Min(S) <= y
    BY <1>3 DEF Min
  <2> QED
    BY <2>1, <2>2
<1>5. captures[2].by \in {"plugin", "late"}
  BY <1>1
<1> QED
  BY <1>2, <1>4, <1>5 DEF CompareScenarioFields, Compared

\* What a scenario adds to the results of its run.
LEMMA ScenarioMoves ==
    ASSUME NEW w, RunScenario(w) \/ ScenarioFails(w)
    PROVE  \E x : /\ Compared(x)
                  /\ Moves(w, WithResults(worker[w], Append(worker[w].results, x)))
<1>1. CASE RunScenario(w)
  <2> DEFINE late == OgCapture(w, "late")
             first == OgCapture(w, "og")
             x(c) == ScenarioResult(CurrentScenario(w), c, 1)
  <2>v. PICK v \in Asked :
           \E c \in {<<first, PluginCapture(w, v)>>, <<first, late, PluginCapture(w, v)>>} :
              worker' = [worker EXCEPT ![w].results = Append(@, x(c))]
    BY <1>1 DEF RunScenario
  <2> DEFINE plugged == PluginCapture(w, v)
  <2>1. PICK c \in {<<first, plugged>>, <<first, late, plugged>>} :
           worker' = [worker EXCEPT ![w].results = Append(@, x(c))]
    BY <2>v
  <2>2. /\ plugged.prompt = CurrentScenario(w)
        /\ plugged.by = "plugin"
        /\ late.prompt = CurrentScenario(w) /\ late.by = "late"
    BY DEF PluginCapture, OgCapture, Capture
  <2> HIDE DEF late, first, plugged
  <2>3. Compared(x(c))
    BY <2>1, <2>2, ScenarioCompared
  <2> HIDE DEF x
  <2>4. Moves(w, WithResults(worker[w], Append(worker[w].results, x(c))))
    BY <2>1 DEF Moves, WithResults
  <2> QED
    BY <2>3, <2>4
<1>2. CASE ScenarioFails(w)
  <2>1. worker' = [worker EXCEPT ![w].results = Append(@, NoFields)]
    BY <1>2 DEF ScenarioFails
  <2>2. Compared(NoFields)
    BY DEF Compared, NoFields
  <2>3. Moves(w, WithResults(worker[w], Append(worker[w].results, NoFields)))
    BY <2>1 DEF Moves, WithResults
  <2> QED
    BY <2>2, <2>3
<1> QED
  BY <1>1, <1>2

ReportsCompared == \A r \in DOMAIN reports : AllCompared(reports[r].results)
ResultsCompared == \A w \in Worker : AllCompared(worker[w].results)

\* Who applies a report works on the version of the report.
VersionsAgree ==
    \A w \in Worker : worker[w].pc = "apply" =>
        reports[worker[w].report].version = worker[w].version

\* Reports are added at the end and never changed.
LEMMA ReportsStay ==
    ASSUME Typed, [Next]_vars
    PROVE  /\ \A r \in DOMAIN reports : r \in DOMAIN reports' /\ reports'[r] = reports[r]
           /\ \/ reports' = reports
              \/ \E w \in Worker :
                    /\ WriteReport(w)
                    /\ DOMAIN reports' = DOMAIN reports \cup {Len(reports) + 1}
                    /\ reports'[Len(reports) + 1] =
                          [version |-> worker[w].version, results |-> worker[w].results]
<1>1. ASSUME NEW w \in Worker, WriteReport(w)
      PROVE  /\ \A r \in DOMAIN reports : r \in DOMAIN reports' /\ reports'[r] = reports[r]
             /\ DOMAIN reports' = DOMAIN reports \cup {Len(reports) + 1}
             /\ reports'[Len(reports) + 1] =
                   [version |-> worker[w].version, results |-> worker[w].results]
  <2> DEFINE new == [version |-> worker[w].version, results |-> worker[w].results]
  <2>1. reports' = Append(reports, new)
    BY <1>1 DEF WriteReport
  <2> HIDE DEF new
  <2>2. PICK S : reports \in Seq(S)
    BY DEF Typed, Reports
  <2>3. reports \in Seq(S \cup {new}) /\ new \in S \cup {new}
    BY <2>2
  <2>4. /\ reports' \in Seq(S \cup {new}) /\ Len(reports') = Len(reports) + 1
        /\ \A i \in 1 .. Len(reports) : reports'[i] = reports[i]
        /\ reports'[Len(reports) + 1] = new
    BY <2>1, <2>3, AppendProperties
  <2>5. /\ Len(reports) \in Nat /\ DOMAIN reports = 1 .. Len(reports)
        /\ DOMAIN reports' = 1 .. (Len(reports) + 1)
    BY <2>3, <2>4, LenProperties
  <2> QED
    BY <2>4, <2>5 DEF new
<1>2. ASSUME \A w \in Worker : ~WriteReport(w) PROVE reports' = reports
  <2>1. CASE Elsewhere \/ UNCHANGED vars
    BY <2>1 DEF Elsewhere, BuildCandidate, SendRequest, IndexCandidate, BuilderKilled,
       RestartPlugin, Unlocks, EndsBeforeStart, Interrupted, vars, files
  <2>2. ASSUME NEW w, Works(w), ~WriteReport(w) PROVE reports' = reports
    BY <2>2 DEF Works, GoesOn, Stops, Start, Review, RunScenario, ScenarioFails,
       PromoteReads, WriteManifest, ReadIndex, WriteIndex, Killed, CommandInterrupted,
       Fails, files
  <2> QED
    BY <1>2, <2>1, <2>2, NextIs DEF Works, Reviews, ReviewPending, ReviewNamed, Worker
<1> QED
  BY <1>1, <1>2

\* What a step may do to one worker, as far as its results and the report that
\* it applies go.
LEMMA WorkerResults ==
    ASSUME Typed, [Next]_vars, NEW w \in Worker
    PROVE  \/ worker'[w] = worker[w]
           \/ /\ worker'[w].results = << >> /\ worker'[w].pc # "apply"
           \/ /\ worker'[w].results = << >> /\ WriteReport(w)
              /\ worker'[w].version = worker[w].version
              /\ worker'[w].report = Len(reports) + 1
           \/ /\ worker'[w].results = << >> /\ reports' = reports
              /\ \E r \in DOMAIN reports : /\ worker'[w].report = r
                                           /\ worker'[w].version = reports[r].version
           \/ /\ worker'[w].pc # "apply" /\ worker'[w].results = worker[w].results
           \/ /\ worker'[w].pc # "apply"
              /\ \E x : /\ Compared(x)
                        /\ worker'[w].results = Append(worker[w].results, x)
<1> DEFINE Goal ==
       \/ worker'[w] = worker[w]
       \/ /\ worker'[w].results = << >> /\ worker'[w].pc # "apply"
       \/ /\ worker'[w].results = << >> /\ WriteReport(w)
          /\ worker'[w].version = worker[w].version
          /\ worker'[w].report = Len(reports) + 1
       \/ /\ worker'[w].results = << >> /\ reports' = reports
          /\ \E r \in DOMAIN reports : /\ worker'[w].report = r
                                       /\ worker'[w].version = reports[r].version
       \/ /\ worker'[w].pc # "apply" /\ worker'[w].results = worker[w].results
       \/ /\ worker'[w].pc # "apply"
          /\ \E x : Compared(x) /\ worker'[w].results = Append(worker[w].results, x)
<1>s. WorkersShaped /\ Shaped(worker[w])
  BY DEF Typed, WorkersShaped
<1>n. \A pc, version, report, only : At(pc, version, report, only).results = << >>
  BY DEF At
<1>i. Idle.results = << >> /\ Idle.pc = "idle" /\ Shaped(Idle)
  BY DEF Idle, At, Shaped
<1>1. ASSUME Elsewhere \/ UNCHANGED vars PROVE Goal
  BY <1>1 DEF Elsewhere, BuildCandidate, SendRequest, IndexCandidate, BuilderKilled,
     RestartPlugin, Unlocks, EndsBeforeStart, Interrupted, vars
<1>2. ASSUME NEW o \in Worker, o # w, Works(o) PROVE Goal
  BY <1>2, <1>s, OthersStay
<1>3. CASE Start(w)
  BY <1>3, <1>s, <1>n, WorkerActions, NewStates, OneWorkerMoves
<1>4. CASE WriteReport(w)
  BY <1>4, <1>s, <1>n, WorkerActions, NewStates, OneWorkerMoves
<1>5. ASSUME NEW r \in DOMAIN reports, Review(w, r) PROVE Goal
  <2>1. PICK only : Moves(w, At("apply", reports[r].version, r, only))
    BY <1>5, WorkerActions
  <2>2. reports' = reports
    BY <1>5 DEF Review, files
  <2>3. worker'[w] = At("apply", reports[r].version, r, only)
    BY <1>s, <2>1, NewStates, OneWorkerMoves
  <2> QED
    BY <1>n, <2>2, <2>3, NewStates
<1>6. CASE WriteManifest(w) \/ CommandInterrupted(w)
  BY <1>6, <1>s, <1>n, WorkerActions, NewStates, OneWorkerMoves
<1>7. CASE Stops(w)
  BY <1>7, <1>s, <1>i, WorkerActions, OneWorkerMoves DEF Stops
<1>8. CASE PromoteReads(w)
  <2>1. PICK x, y : Moves(w, AtManifest(worker[w], x, y))
    BY <1>8, WorkerActions
  <2>2. worker'[w] = AtManifest(worker[w], x, y)
    BY <1>s, <2>1, ChangedStates, OneWorkerMoves
  <2>3. AtManifest(worker[w], x, y).results = << >>
        /\ AtManifest(worker[w], x, y).pc # "apply"
    BY DEF AtManifest
  <2> QED
    BY <2>2, <2>3
<1>9. CASE RunScenario(w) \/ ScenarioFails(w)
  <2>1. PICK x : Compared(x) /\ Moves(w, WithResults(worker[w], Append(worker[w].results, x)))
    BY <1>9, ScenarioMoves
  <2>2. worker[w].pc = "scenario"
    BY <1>9 DEF RunScenario, ScenarioFails
  <2> DEFINE new == Append(worker[w].results, x)
  <2>m. Moves(w, WithResults(worker[w], new))
    BY <2>1
  <2> HIDE DEF new
  <2>3. worker'[w] = WithResults(worker[w], new) /\ worker'[w].pc = "scenario"
    BY <1>s, <2>m, <2>2, ChangedStates, OneWorkerMoves
  <2>4. WithResults(worker[w], new).results = new
    BY <1>s DEF WithResults, Shaped
  <2> QED
    BY <2>1, <2>3, <2>4 DEF new
<1>13. CASE ReadIndex(w)
  <2>1. PICK x : Moves(w, AtIndexed(worker[w], x))
    BY <1>13, WorkerActions
  <2>2. worker'[w] = AtIndexed(worker[w], x)
    BY <1>s, <2>1, ChangedStates, OneWorkerMoves
  <2>3. /\ AtIndexed(worker[w], x).results = worker[w].results
        /\ AtIndexed(worker[w], x).pc # "apply"
    BY <1>s DEF AtIndexed, Shaped
  <2> QED
    BY <2>2, <2>3
<1>10. ASSUME NEW o \in Worker,
              \/ Start(o) \/ (\E r \in DOMAIN reports : Review(o, r)) \/ GoesOn(o) \/ Stops(o)
              \/ CommandInterrupted(o)
       PROVE  Goal
  <2>1. CASE o # w
    BY <1>2, <1>10, <2>1 DEF Works
  <2>2. CASE o = w
    BY <1>3, <1>4, <1>5, <1>6, <1>7, <1>8, <1>9, <1>10, <1>13, <2>2 DEF GoesOn
  <2> QED
    BY <2>1, <2>2
<1>11. ASSUME NEW o \in Reviewer, Reviews(o) PROVE Goal
  <2>1. \E r \in DOMAIN reports : Review(o, r)
    BY <1>11, ReviewsAReport DEF Typed
  <2> QED
    BY <1>10, <2>1 DEF Worker
<1> HIDE DEF Goal
<1>12. Goal
  <2>1. ASSUME NEW o \in Verifier, Start(o) \/ CommandInterrupted(o) PROVE Goal
    BY <1>10, <2>1 DEF Worker
  <2>2. ASSUME NEW o \in Worker, GoesOn(o) \/ Stops(o) PROVE Goal
    BY <1>10, <2>2
  <2> QED
    BY <1>1, <1>11, <2>1, <2>2, NextIs
<1> QED
  BY <1>12 DEF Goal

LEMMA ComparedStep ==
    Typed /\ ReportsCompared /\ ResultsCompared /\ VersionsAgree /\ [Next]_vars
    => (ReportsCompared /\ ResultsCompared /\ VersionsAgree)'
<1> SUFFICES ASSUME Typed, ReportsCompared, ResultsCompared, VersionsAgree, [Next]_vars
             PROVE  (ReportsCompared /\ ResultsCompared /\ VersionsAgree)'
  OBVIOUS
<1>1. ReportsCompared'
  <2>1. CASE reports' = reports
    BY <2>1 DEF ReportsCompared
  <2>2. ASSUME NEW w \in Worker,
               DOMAIN reports' = DOMAIN reports \cup {Len(reports) + 1},
               reports'[Len(reports) + 1] =
                  [version |-> worker[w].version, results |-> worker[w].results]
        PROVE  ReportsCompared'
    <3>1. reports'[Len(reports) + 1].results = worker[w].results
      BY <2>2
    <3>2. \A r \in DOMAIN reports : reports'[r] = reports[r]
      BY ReportsStay
    <3> QED
      BY <2>2, <3>1, <3>2 DEF ReportsCompared, ResultsCompared
  <2> QED
    BY <2>1, <2>2, ReportsStay
<1>2. ASSUME NEW w \in Worker PROVE AllCompared(worker'[w].results)
  <2>1. ASSUME NEW x, Compared(x), worker'[w].results = Append(worker[w].results, x)
        PROVE  AllCompared(worker'[w].results)
    BY <2>1, OneMoreCompared DEF ResultsCompared
  <2> QED
    BY <2>1, WorkerResults, NoneCompared DEF ResultsCompared
<1>3. ASSUME NEW w \in Worker, worker'[w].pc = "apply"
      PROVE  reports'[worker'[w].report].version = worker'[w].version
  <2>1. CASE worker'[w] = worker[w]
    <3>1. worker[w].report \in DOMAIN reports
      BY <1>3, <2>1 DEF Typed, Workers
    <3> QED
      BY <1>3, <2>1, <3>1, ReportsStay DEF VersionsAgree
  <2>2. CASE WriteReport(w) /\ worker'[w].version = worker[w].version
             /\ worker'[w].report = Len(reports) + 1
    <3> DEFINE new == [version |-> worker[w].version, results |-> worker[w].results]
    <3>1. reports' = Append(reports, new)
      BY <2>2 DEF WriteReport
    <3>2. PICK S : reports \in Seq(S)
      BY DEF Typed, Reports
    <3>3. reports \in Seq(S \cup {new}) /\ new \in S \cup {new} /\ new.version = worker[w].version
      BY <3>2
    <3> HIDE DEF new
    <3>4. reports'[Len(reports) + 1] = new
      BY <3>1, <3>3, AppendProperties
    <3> QED
      BY <2>2, <3>3, <3>4
  <2>3. CASE reports' = reports
             /\ \E r \in DOMAIN reports : /\ worker'[w].report = r
                                          /\ worker'[w].version = reports[r].version
    BY <2>3
  <2> QED
    BY <1>3, <2>1, <2>2, <2>3, WorkerResults
<1> QED
  BY <1>1, <1>2, <1>3 DEF ResultsCompared, VersionsAgree

(***************************************************************************)
(* What is promoted in a file, and in what a worker is about to write, was *)
(* seen in the report it names.                                            *)
(***************************************************************************)
SeenIn(rs, file, v) ==
    \A path \in DOMAIN file.promoted :
        LET ref == file.promoted[path].ref
            value == file.promoted[path].value
        IN  /\ ref \in DOMAIN rs /\ ref \in file.evidence
            /\ rs[ref].version = v
            /\ Observations(rs[ref], path) # {}
            /\ \A o \in Observations(rs[ref], path) : o.og = value /\ o.plugin = value

FilesSeen ==
    \A v \in Version : disk.verified[v] \in Manifest => SeenIn(reports, disk.verified[v], v)
WritersSeen ==
    \A w \in Worker : Writes(w) => SeenIn(reports, worker[w].merged, worker[w].version)

AllSeen == ReportsCompared /\ ResultsCompared /\ VersionsAgree /\ FilesSeen /\ WritersSeen

LEMMA SeenStays ==
    ASSUME NEW rs, NEW more, NEW file, NEW v, SeenIn(rs, file, v),
           \A r \in DOMAIN rs : r \in DOMAIN more /\ more[r] = rs[r]
    PROVE  SeenIn(more, file, v)
BY DEF SeenIn

\* What a promotion adds is what the report shows.
LEMMA PromotedNow ==
    ASSUME Typed, NEW w \in Worker, PromoteReads(w)
    PROVE  LET ref == worker[w].report
               candidate == disk.candidate[worker[w].version]
               merged == worker'[w].merged
           IN  /\ worker[w].pc = "apply" /\ ref \in DOMAIN reports
               /\ ref \in merged.evidence
               /\ \A path \in worker'[w].promoted :
                     /\ merged.promoted[path].ref = ref
                     /\ merged.promoted[path].value = candidate[path].value
                     /\ Promotable(candidate, reports[ref], path)
<1> DEFINE v == worker[w].version
           ref == worker[w].report
           file == disk.verified[v]
           candidate == disk.candidate[v]
           decision == BuildFieldDecision(candidate, reports[ref], worker[w].only)
           merged == MergeVerifiedManifest(file, candidate, decision, ref)
<1>1. worker[w].pc = "apply" /\ Moves(w, AtManifest(worker[w], decision.promoted, merged))
  BY WorkerActions DEF PromoteReads
<1>2. ref \in DOMAIN reports
  BY <1>1 DEF Typed, Workers
<1>3. Shaped(worker[w])
  BY DEF Typed, WorkersShaped
<1>4. \A path \in decision.promoted : Promotable(candidate, reports[ref], path)
  BY DEF BuildFieldDecision
<1> HIDE DEF decision
<1>5. \A path \in decision.promoted : /\ merged.promoted[path].ref = ref
                                      /\ merged.promoted[path].value = candidate[path].value
  <2> DEFINE existing == IF Readable(file) THEN file ELSE EmptyVerifiedManifest
             fresh == [path \in decision.promoted |->
                          [value |-> candidate[path].value, ref |-> ref]]
             promoted == [path \in decision.promoted \cup DOMAIN existing.promoted |->
                             IF path \in decision.promoted THEN fresh[path]
                             ELSE existing.promoted[path]]
  <2>1. merged.promoted = promoted
    BY DEF MergeVerifiedManifest
  <2> HIDE DEF existing, merged
  <2>3. ASSUME NEW path \in decision.promoted
        PROVE  promoted[path].ref = ref /\ promoted[path].value = candidate[path].value
    <3> DEFINE new == [value |-> candidate[path].value, ref |-> ref]
    <3>1. promoted[path] = new
      OBVIOUS
    <3>2. new.ref = ref /\ new.value = candidate[path].value
      OBVIOUS
    <3> HIDE DEF promoted, new
    <3> QED
      BY <3>1, <3>2
  <2> HIDE DEF promoted, candidate, ref
  <2> QED
    BY <2>1, <2>3
<1> HIDE DEF merged
<1>6. worker'[w].merged = merged /\ worker'[w].promoted = decision.promoted
  BY <1>1, <1>3, ChangedStates, OneWorkerMoves DEF Typed
<1>7. ref \in worker'[w].merged.evidence
  BY <1>1, <1>3, <1>6, PromotionReads, ChangedStates, OneWorkerMoves DEF Typed
<1> QED
  BY <1>1, <1>2, <1>4, <1>5, <1>6, <1>7

LEMMA SeenStep == Typed /\ AllSeen /\ [Next]_vars => AllSeen'
<1> SUFFICES ASSUME Typed, AllSeen, [Next]_vars PROVE AllSeen'
  OBVIOUS
<1>1. (ReportsCompared /\ ResultsCompared /\ VersionsAgree)'
  BY ComparedStep DEF AllSeen
<1>r. \A r \in DOMAIN reports : r \in DOMAIN reports' /\ reports'[r] = reports[r]
  BY ReportsStay
<1>f. ASSUME NEW v \in Version, disk.verified[v] \in Manifest
      PROVE  SeenIn(reports', disk.verified[v], v)
  BY <1>f, <1>r, SeenStays DEF AllSeen, FilesSeen
<1>w. ASSUME NEW w \in Worker, Writes(w)
      PROVE  SeenIn(reports', worker[w].merged, worker[w].version)
  BY <1>w, <1>r, SeenStays DEF AllSeen, WritersSeen
<1>2. ASSUME \A w \in Worker : ~PromoteReads(w) /\ ~WriteManifest(w)
      PROVE  FilesSeen' /\ WritersSeen'
  <2>1. \A w \in Worker : Writes(w)' => Writes(w) /\ worker'[w] = worker[w]
    BY <1>2, QuietStep
  <2>2. \A v \in Version : disk'.verified[v] \in {disk.verified[v], Torn}
    BY <1>2, QuietStep DEF Typed, Files
  <2>3. FilesSeen'
    BY <1>f, <2>2, ManifestsAreNoMarks DEF FilesSeen
  <2>4. WritersSeen'
    BY <1>w, <2>1 DEF WritersSeen
  <2> QED
    BY <2>3, <2>4
<1>3. ASSUME NEW w \in Worker, PromoteReads(w) PROVE FilesSeen' /\ WritersSeen'
  <2>p. PICK v, ref, merged, promoted, file, candidate :
           /\ v = worker[w].version /\ ref = worker[w].report
           /\ merged = worker'[w].merged /\ promoted = worker'[w].promoted
           /\ file = disk.verified[v] /\ candidate = disk.candidate[v]
    OBVIOUS
  <2>1. /\ worker[w].pc = "apply" /\ ref \in DOMAIN reports /\ ref \in merged.evidence
        /\ \A path \in promoted : /\ merged.promoted[path].ref = ref
                                  /\ merged.promoted[path].value = candidate[path].value
                                  /\ Promotable(candidate, reports[ref], path)
    BY <1>3, <2>p, PromotedNow
  <2>2. /\ v \in Version /\ worker'[w].version = v
        /\ file \in Manifest => file.evidence \subseteq merged.evidence
        /\ \A path \in DOMAIN merged.promoted :
              \/ path \in promoted
              \/ /\ file \in Manifest /\ path \in DOMAIN file.promoted
                 /\ merged.promoted[path] = file.promoted[path]
    BY <1>3, <2>p, PromotionReads
  <2>3. reports[ref].version = v
    BY <2>1, <2>p DEF AllSeen, VersionsAgree
  <2>4. UNCHANGED <<disk, reports>>
    BY <1>3 DEF PromoteReads, files
  <2>5. SeenIn(reports, merged, v)
    <3> SUFFICES ASSUME NEW path \in DOMAIN merged.promoted
                 PROVE  LET r == merged.promoted[path].ref
                            value == merged.promoted[path].value
                        IN  /\ r \in DOMAIN reports /\ r \in merged.evidence
                            /\ reports[r].version = v
                            /\ Observations(reports[r], path) # {}
                            /\ \A o \in Observations(reports[r], path) :
                                  o.og = value /\ o.plugin = value
      BY DEF SeenIn
    <3>1. CASE path \in promoted
      <4>1. /\ merged.promoted[path].ref = ref
            /\ merged.promoted[path].value = candidate[path].value
            /\ Promotable(candidate, reports[ref], path)
        BY <2>1, <3>1
      <4>2. /\ Observations(reports[ref], path) # {}
            /\ \A o \in Observations(reports[ref], path) :
                  o.og = candidate[path].value /\ o.plugin = candidate[path].value
        BY <4>1 DEF Promotable
      <4> QED
        BY <2>1, <2>3, <4>1, <4>2
    <3>2. CASE path \notin promoted
      <4>1. /\ file \in Manifest /\ path \in DOMAIN file.promoted
            /\ merged.promoted[path] = file.promoted[path]
            /\ file.evidence \subseteq merged.evidence
        BY <2>2, <3>2
      <4>2. SeenIn(reports, file, v)
        BY <2>2, <2>p, <4>1 DEF AllSeen, FilesSeen
      <4> QED
        BY <4>1, <4>2 DEF SeenIn
    <3> QED
      BY <3>1, <3>2
  <2>6. \A other \in Worker : other # w => worker'[other] = worker[other]
    BY <1>3, OthersStay DEF Works, GoesOn, Typed
  <2>7. FilesSeen'
    BY <1>f, <2>4 DEF FilesSeen
  <2>8. ASSUME NEW x \in Worker, Writes(x)'
        PROVE  SeenIn(reports', worker'[x].merged, worker'[x].version)
    <3>1. CASE x = w
      BY <2>2, <2>4, <2>5, <2>p, <3>1
    <3>2. CASE x # w
      BY <1>w, <2>6, <2>8, <3>2 DEF Writes
    <3> QED
      BY <3>1, <3>2
  <2> QED
    BY <2>7, <2>8 DEF WritersSeen
<1>4. ASSUME NEW w \in Worker, WriteManifest(w) PROVE FilesSeen' /\ WritersSeen'
  <2>1. LET v == worker[w].version
        IN  /\ Writes(w) /\ ~Writes(w)' /\ v \in Version
            /\ disk'.verified[v] = worker[w].merged
            /\ \A u \in Version : u # v => disk'.verified[u] = disk.verified[u]
            /\ \A other \in Worker : other # w => worker'[other] = worker[other]
    BY <1>4, ManifestWritten
  <2>2. SeenIn(reports', worker[w].merged, worker[w].version)
    BY <1>w, <2>1
  <2>3. FilesSeen'
    BY <1>f, <2>1, <2>2 DEF FilesSeen
  <2>4. WritersSeen'
    BY <1>w, <2>1 DEF WritersSeen, Writes
  <2> QED
    BY <2>3, <2>4
<1> QED
  BY <1>1, <1>2, <1>3, <1>4 DEF AllSeen

LEMMA InitSeen == Init => AllSeen
<1> SUFFICES ASSUME Init PROVE AllSeen
  OBVIOUS
<1>1. \A w \in Worker : worker[w].pc = "idle" /\ worker[w].results = << >>
  BY DEF Init, Idle, At
<1>2. ResultsCompared /\ VersionsAgree /\ WritersSeen
  BY <1>1, NoneCompared DEF ResultsCompared, VersionsAgree, WritersSeen, Writes
<1>3. reports = << >> /\ DOMAIN << >> = {}
  BY DEF Init
<1>4. ReportsCompared
  BY <1>3 DEF ReportsCompared
<1>5. FilesSeen
  BY ManifestsAreNoMarks DEF Init, FilesSeen
<1> QED
  BY <1>2, <1>4, <1>5 DEF AllSeen

\* Who is compared: what an observation of a report says of that.
LEMMA ObservedBy ==
    ASSUME NEW report, AllCompared(report.results), NEW path,
           NEW o \in Observations(report, path)
    PROVE  o.by \in {"plugin", "late"}
<1>1. PICK S : report.results \in Seq(S) /\ \A x \in S : Compared(x)
  BY DEF AllCompared
<1>2. PICK i \in DOMAIN report.results :
         path \in DOMAIN report.results[i] /\ o = report.results[i][path]
  BY DEF Observations
<1>3. report.results[i] \in S
  BY <1>1, <1>2
<1> QED
  BY <1>1, <1>2, <1>3 DEF Compared

(***************************************************************************)
(* Every promoted field of every verified manifest cites a report of its   *)
(* version in which Claude Code sent that value and the plugin too, or a   *)
(* late request of Claude Code was taken for the plugin's.                 *)
(***************************************************************************)
THEOREM PromotedFromReports == Spec => []PromotedAsSeen
<1>1. Typed /\ AllSeen => PromotedAsSeen
  <2> SUFFICES ASSUME Typed, AllSeen, NEW v \in Version, Readable(disk.verified[v]),
                      NEW path \in DOMAIN disk.verified[v].promoted
               PROVE  LET field == disk.verified[v].promoted[path]
                          seen  == Observations(reports[field.ref], path)
                      IN  /\ field.ref \in disk.verified[v].evidence
                          /\ reports[field.ref].version = v
                          /\ seen # {}
                          /\ \A o \in seen : /\ o.og = field.value
                                             /\ \/ o.plugin = field.value /\ o.by = "plugin"
                                                \/ o.by = "late"
    BY DEF PromotedAsSeen
  <2>1. disk.verified[v] \in Manifest
    BY DEF Typed, Files, Readable
  <2>2. SeenIn(reports, disk.verified[v], v)
    BY <2>1 DEF AllSeen, FilesSeen
  <2> DEFINE ref == disk.verified[v].promoted[path].ref
             value == disk.verified[v].promoted[path].value
  <2>3. /\ ref \in DOMAIN reports /\ ref \in disk.verified[v].evidence
        /\ reports[ref].version = v
        /\ Observations(reports[ref], path) # {}
        /\ \A o \in Observations(reports[ref], path) : o.og = value /\ o.plugin = value
    BY <2>2 DEF SeenIn
  <2>4. \A o \in Observations(reports[ref], path) : o.by \in {"plugin", "late"}
    BY <2>3, ObservedBy DEF AllSeen, ReportsCompared
  <2> QED
    BY <2>3, <2>4
<1> QED
  BY <1>1, InitTyped, StepTyped, InitSeen, SeenStep, PTL DEF Spec
==============================================================================
