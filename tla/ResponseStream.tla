----------------------------- MODULE ResponseStream -----------------------------
(***************************************************************************)
(* What OpenCode may rely on when it reads the answer to a request: the    *)
(* events the server has sent, in order, none twice and none left out; an  *)
(* answer with an error status never ends as if it were complete when it   *)
(* is not; and, for the statistics, at most one report of the tokens used. *)
(***************************************************************************)
EXTENDS Naturals, Sequences

CONSTANTS
    UsageOf(_),  \* the tokens a sequence of events tells of, 0 if none
    Complete(_)  \* whether it is a whole answer

VARIABLES
    sent,   \* the events of the answer
    strict, \* whether its status was an error
    out,    \* the events read so far
    status, \* "open", "closed", "failed" or "cancelled"
    usage   \* the tokens reported, 0 until then

vars == <<sent, strict, out, status, usage>>

Fresh == out = <<>> /\ status = "open" /\ usage = 0

Init == sent = <<>> /\ out = <<>> /\ status = "closed" /\ usage = 0

Advance ==
    /\ Len(out) < Len(sent)
    /\ out' = Append(out, sent[Len(out) + 1])

Deliver == status = "open" /\ Advance /\ UNCHANGED <<sent, strict, status, usage>>

\* The answer is complete: its tokens are reported, once.
Report ==
    /\ status = "open" /\ usage = 0 /\ ~strict
    /\ usage' = UsageOf(sent)
    /\ Advance \/ UNCHANGED out
    /\ status' \in {"open", "closed"}
    /\ status' = "closed" => out' = sent
    /\ UNCHANGED <<sent, strict>>

Close ==
    /\ status = "open" /\ status' = "closed"
    /\ Advance \/ UNCHANGED out
    /\ out' = sent
    /\ strict => Complete(sent)
    /\ UNCHANGED <<sent, strict, usage>>

Fail == status = "open" /\ status' = "failed" /\ UNCHANGED <<sent, strict, out, usage>>

\* A reader that has had enough; what it has read may be reported.
Cancel ==
    /\ status = "open" /\ status' = "cancelled"
    /\ \/ usage' = usage
       \/ usage = 0 /\ usage' = UsageOf(out)
    /\ UNCHANGED <<sent, strict, out>>

\* The next answer.
Begin == status # "open" /\ Fresh'

Next == Deliver \/ Report \/ Close \/ Fail \/ Cancel \/ Begin

Spec == Init /\ [][Next]_vars
==============================================================================
