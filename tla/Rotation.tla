-------------------------------- MODULE Rotation --------------------------------
(***************************************************************************)
(* Which account serves the next attempt of a request: the two trackers    *)
(* and selectAccount of src/rotation.ts.  Trackers and candidates are      *)
(* known by their position in the list of accounts, not by account.        *)
(*                                                                         *)
(* Scores and tokens recover over minutes and hours; the time of a request *)
(* is too short for that here.                                             *)
(***************************************************************************)
EXTENDS Integers, Sequences

CONSTANTS
    MaxScore, InitialScore,  \* health_score.max_score and .initial
    SuccessReward,           \* health_score.success_reward
    RateLimitPenalty,        \* minus health_score.rate_limit_penalty
    FailurePenalty,          \* minus health_score.failure_penalty
    MinUsable,               \* health_score.min_usable
    MaxTokens, InitialTokens \* token_bucket.max_tokens and .initial_tokens

ASSUME ScoresOK ==
    /\ {MaxScore, InitialScore, SuccessReward, RateLimitPenalty,
        FailurePenalty, MinUsable, InitialTokens} \subseteq Nat
    /\ MaxTokens \in Nat \ {0}
    /\ InitialScore <= MaxScore /\ InitialTokens <= MaxTokens

AtMost(n, bound) == IF n <= bound THEN n ELSE bound
AtLeastZero(n) == IF n >= 0 THEN n ELSE 0

Tracker == [score: 0..MaxScore, tokens: 0..MaxTokens]

\* What both trackers say of a position they have no entry for.
NewTracker == [score |-> InitialScore, tokens |-> InitialTokens]

RecordSuccess(t) == [t EXCEPT !.score = AtMost(@ + SuccessReward, MaxScore)]
RecordRateLimit(t) == [t EXCEPT !.score = AtLeastZero(@ - RateLimitPenalty)]

\* recordFailure and refund, which markFailure calls together.
RecordFailure(t) ==
    [t EXCEPT !.score = AtLeastZero(@ - FailurePenalty),
              !.tokens = AtMost(@ + 1, MaxTokens)]

Consume(t) == [t EXCEPT !.tokens = AtLeastZero(@ - 1)]

Usable(t) == t.score >= MinUsable /\ t.tokens >= 1

STICKINESS_BONUS == 150
SWITCH_THRESHOLD == 100

\* calculateHybridScore; an account is either used just now or rested.
HybridScore(t, rested) ==
    2 * t.score + (500 * t.tokens) \div MaxTokens + (IF rested THEN 360 ELSE 0)

\* The next position in turn.
Turn(available, cursor) ==
    [index |-> available[(cursor % Len(available)) + 1], cursor |-> cursor + 1]

\* The first of the positions with the highest score, the current one favoured.
BestOf(usable, current, base) ==
    LET score(i) == base[i] + (IF i = current THEN STICKINESS_BONUS ELSE 0)
    IN  CHOOSE i \in usable : \A j \in usable :
            score(i) > score(j) \/ (score(i) = score(j) /\ i <= j)

\* selectAccount.  available: the positions in order that are enabled, not
\* rate limited and not excluded, at least one.
SelectAccount(available, strategy, current, cursor, track, rested) ==
    LET here == {available[k] : k \in DOMAIN available}
        base == [i \in here |-> HybridScore(track[i], rested[i])]
        usable == {i \in here : Usable(track[i])}
        best == BestOf(usable, current, base)
        stays == /\ current \in usable
                 /\ base[best] - base[current] < SWITCH_THRESHOLD
    IN  CASE strategy = "sticky" /\ current \in here ->
                [index |-> current, cursor |-> cursor]
          [] strategy = "sticky" /\ current \notin here ->
                Turn(available, cursor)
          [] strategy = "round-robin" -> Turn(available, cursor)
          [] strategy = "hybrid" /\ usable = {} ->
                [index |-> available[1], cursor |-> cursor]
          [] strategy = "hybrid" /\ usable # {} ->
                [index |-> IF stays THEN current ELSE best,
                 cursor |-> cursor]

==============================================================================
