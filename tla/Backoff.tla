-------------------------------- MODULE Backoff --------------------------------
(***************************************************************************)
(* What an answer of the API says about the account that was used, and for *)
(* how long the account rests (src/backoff.ts, shouldRetryStatus of        *)
(* src/request/retry.ts and isLongContextError of                          *)
(* src/request/long-context-retry.ts).                                     *)
(*                                                                         *)
(* An answer is [status, type, message, retryAfter, shouldRetry]: type and *)
(* message are the sets of the code's signal words that occur in           *)
(* error.type and anywhere in the body, retryAfter is in milliseconds or   *)
(* 0 for a missing or unusable header, shouldRetry is "true", "false" or   *)
(* "none".                                                                 *)
(***************************************************************************)
EXTENDS Naturals

TypeSignals ==
    {"rate_limit", "quota", "billing", "permission", "authentication",
     "invalid_api_key", "insufficient_permissions", "invalid_grant"}
MessageSignals ==
    {"rate limit", "would exceed", "quota", "exhausted", "credit balance",
     "billing", "permission", "forbidden", "unauthorized", "authentication",
     "not authorized", "membership", "unable to verify"}
AuthSignals ==
    {"authentication", "invalid_api_key", "invalid api key", "invalid_grant",
     "unauthorized", "invalid access token", "expired token", "membership"}
QuotaTypeSignals ==
    {"quota", "billing", "permission", "insufficient_permissions"}
QuotaMessageSignals ==
    {"quota", "exhausted", "credit balance", "billing", "permission",
     "forbidden"}
LONG_CONTEXT_ERROR_MARKERS ==
    {"Extra usage is required for long context requests",
     "long context beta is not yet available", "long_context_beta"}

Ok(answer) == answer.status \in 200..299

\* bodyHasAccountError.  The text of the body has the words of its type too.
BodyHasAccountError(answer) ==
    \/ answer.type \cap TypeSignals # {}
    \/ (answer.type \cup answer.message) \cap MessageSignals # {}

\* Mutant: quota and permission errors are nobody's.
IsAccountSpecificError_StatusOnly(answer) == answer.status \in {429, 401}

IsAccountSpecificError(answer) ==
    \/ answer.status \in {429, 401}
    \/ answer.status \in {400, 403} /\ BodyHasAccountError(answer)

ParseRateLimitReason(answer) ==
    CASE answer.status = 401
         \/ (answer.type \cup answer.message) \cap AuthSignals # {} ->
            "AUTH_FAILED"
      [] ~(answer.status = 401
           \/ (answer.type \cup answer.message) \cap AuthSignals # {})
         /\ (\/ answer.type \cap QuotaTypeSignals # {}
             \/ answer.message \cap QuotaMessageSignals # {}) ->
            "QUOTA_EXHAUSTED"
      [] OTHER -> "RATE_LIMIT_EXCEEDED"

IsServiceWide(answer) == answer.status \in {500, 503, 529}

\* shouldRetryStatus, with the header x-should-retry.
ShouldRetryStatus(answer) ==
    \/ answer.shouldRetry = "true"
    \/ /\ answer.shouldRetry = "none"
       /\ answer.status \in {408, 409, 429} \/ answer.status >= 500

IsLongContextError(answer) ==
    answer.message \cap LONG_CONTEXT_ERROR_MARKERS # {}

QUOTA_EXHAUSTED_BACKOFFS == <<60000, 300000, 1800000, 7200000>>

\* calculateBackoffMs.  failures: consecutive ones before this one.
CalculateBackoffMs(reason, failures, retryAfter) ==
    CASE retryAfter > 0 -> IF retryAfter < 2000 THEN 2000 ELSE retryAfter
      [] retryAfter = 0 /\ reason = "AUTH_FAILED" -> 5000
      [] retryAfter = 0 /\ reason = "QUOTA_EXHAUSTED" ->
            QUOTA_EXHAUSTED_BACKOFFS[IF failures > 3 THEN 4 ELSE failures + 1]
      [] OTHER -> 30000

==============================================================================
