------------------------------- MODULE MCExchange -------------------------------
(* Small instances of Exchange.                                            *)
EXTENDS Exchange, TLC

Name(s, form) == ToolName(s, form, 0)

------------------------------------------------------------------------------
(* Settings                                                                *)

Usual ==
    [model |-> "adaptive", tools |-> <<Name("lookup", "plain"), Name("lookup", "kebab"),
                                       Name("advisor", "plain")>>,
     turns |-> 2, system |-> <<Cached(TextBlock("agent")), Cached(TextBlock("project"))>>,
     thinking |-> "enabled", opening |-> "task", localTitles |-> TRUE,
     signature |-> TRUE, relocate |-> TRUE, compact |-> TRUE,
     provider |-> "anthropic", strategy |-> "sticky", toolSearch |-> FALSE,
     customBetas |-> {}, overrides |-> [add |-> {}, remove |-> {}],
     env |-> [noInterleaved |-> FALSE, toolPear |-> FALSE, noExperimental |-> FALSE,
              betas |-> {}]]

Plainly == [Usual EXCEPT !.tools = <<>>]

Conversations == {
    Usual,
    [Usual EXCEPT !.tools = <<Name("tool", "digits"), Name("lookup", "plain")>>,
                  !.signature = FALSE, !.model = "claude4"],
    [Plainly EXCEPT !.relocate = FALSE, !.thinking = "absent"],
    [Plainly EXCEPT !.opening = "quota", !.model = "haiku"],
    [Plainly EXCEPT !.opening = "title", !.model = "haiku"],
    [Plainly EXCEPT !.model = "claude3", !.thinking = "disabled"],
    [Usual EXCEPT !.tools = <<Name("lookup", "plain")>>, !.turns = 3],
    [Usual EXCEPT !.tools = <<Name("advisor", "pascal")>>],
    [Usual EXCEPT !.tools = <<ToolName("lookup", "plain", 2)>>]}

NoManifest == [source |-> "fallback", version |-> "unknown", optional |-> {},
               authMode |-> {}, required |-> {"oauth"}]
NoBetas == [optional |-> {}, authMode |-> {}]
None == [direct |-> NoBetas, latest |-> NoBetas]

------------------------------------------------------------------------------
(* Answers                                                                 *)

Start == [Event("message_start") EXCEPT !.usage = 1]
Delta == [Event("message_delta") EXCEPT !.usage = 2]
Stop == Event("message_stop")
Comment == Event("comment")
Call(i, name) ==
    <<[Event("content_block_start") EXCEPT !.index = i, !.block = "tool_use", !.name = name],
      [Event("content_block_delta") EXCEPT !.index = i, !.piece = "part"],
      [Event("content_block_delta") EXCEPT !.index = i, !.piece = "rest"],
      [Event("content_block_stop") EXCEPT !.index = i]>>
Say == <<[Event("content_block_start") EXCEPT !.block = "text"],
         Event("content_block_delta"), [Event("content_block_stop") EXCEPT !.index = 0]>>

\* How the server writes event number n; a comment is none.
Written(event, n, crlf) ==
    IF event = Comment THEN <<Unit("comment", 0)>> \o BlankLine(crlf)
    ELSE <<Unit("type", n)>> \o LineEnd(crlf) \o
         <<Unit("half", n), Unit("rest", n)>> \o BlankLine(crlf)

IsEvent(e) == e # Comment

WrittenAs(events, crlf) ==
    LET Number(i) == Len(SelectSeq(SubSeq(events, 1, i), IsEvent))
    IN  FlattenSeq([i \in DOMAIN events |-> Written(events[i], Number(i), crlf)])

Of(events, crlf, ok, borders) ==
    [ok |-> ok, events |-> SelectSeq(events, IsEvent), text |-> WrittenAs(events, crlf),
     broken |-> FALSE, borders |-> borders]

\* In one chunk.
AtOnce(events) == Of(events, FALSE, TRUE, {0, Len(WrittenAs(events, FALSE))})

\* Chunks cut anywhere.
Fine(events, crlf, ok) == Of(events, crlf, ok, 0..Len(WrittenAs(events, crlf)))

\* Chunks of whole events, but for one.
Coarse(events, ok) ==
    LET EndOf(i) == Len(WrittenAs(SubSeq(events, 1, i), FALSE))
    IN  Of(events, FALSE, ok, {EndOf(i) : i \in 0..Len(events)} \cup {EndOf(1) + 3})

Short == <<Start, Delta, Stop>>

Calls(tools) ==
    {Coarse(<<Start>> \o Call(0, n) \o Call(1, tools[1]) \o <<Delta, Stop>>, TRUE) :
        n \in ToSet(tools)}

Refusals == {
    Fine(Short, FALSE, FALSE),
    Coarse(<<Start>> \o Say \o <<Stop>>, FALSE),
    Coarse(<<Start, Event("error")>>, FALSE),
    Coarse(<<Start>> \o Tail(Say) \o <<Stop>>, FALSE),
    Coarse(<<Start, Stop>> \o Front(Say), FALSE)}

MCAnswers(body) ==
    IF Len(body.tools) = 1
    THEN {AtOnce(<<Start>> \o Call(0, body.tools[1]) \o <<Stop>>)}
    ELSE IF body.tools # <<>> THEN Calls(body.tools)
    ELSE IF body.thinking # "absent" THEN {Coarse(<<Start>> \o Say \o <<Delta, Stop>>, TRUE)}
    ELSE {Fine(Short, FALSE, TRUE), Fine(Short, TRUE, TRUE),
          Fine(<<Start, Comment, Comment, Stop>>, FALSE, TRUE)} \cup Refusals
==============================================================================
