----------------------------- MODULE MCRequestLoop -----------------------------
(* Small instances of RequestLoop.                                         *)
EXTENDS RequestLoop, TLC

CONSTANTS a1, a2, a3

Two == <<RowOf(a1), RowOf(a2)>>

Answer(status, type, message) ==
    [status |-> status, type |-> type, message |-> message,
     retryAfter |-> 0, shouldRetry |-> "none"]

\* One answer for each way through the loop.
Representative == {
    Answer(200, {}, {}),
    Answer(401, {"authentication"}, {}),
    [Answer(403, {"permission"}, {}) EXCEPT !.retryAfter = 45000],
    Answer(529, {}, {}),
    Answer(400, {}, {"long_context_beta"}),
    Answer(404, {}, {})}

Requests == Permutations(Request)
==============================================================================
