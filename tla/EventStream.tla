------------------------------ MODULE EventStream ------------------------------
(***************************************************************************)
(* transformResponse (src/response/streaming.ts): the answer of the API    *)
(* arrives in chunks cut anywhere, is parsed event by event, has its tool  *)
(* names changed back, and is read by OpenCode from a ReadableStream with  *)
(* room for one chunk.  What that stream does by itself (pull again, queue,*)
(* drop the queue on an error) follows the Streams standard.               *)
(*                                                                         *)
(* An answer is a sequence of events written as text; its text is made of  *)
(* units: the "event:" line, the two halves of the "data:" line, comments, *)
(* carriage returns and line feeds.  Characters of several bytes cut in    *)
(* two, a text over 256 KiB without a blank line, and the fields of an     *)
(* event that a valid server always sends are left out.                    *)
(***************************************************************************)
EXTENDS Positions, WireNames

VARIABLES
    answer, \* what the server sends
    stream  \* the reader, the parser and the ReadableStream

\* An event.  index: its block; block: the type of a block that starts; name:
\* of its tool; piece: of the tool's input, which "part" leaves incomplete;
\* usage: the tokens it tells of, 0 if none.
Events ==
    [type : STRING, index : Nat, block : STRING, name : ToolNames, piece : STRING,
     usage : Nat]
Event(type) ==
    [type |-> type, index |-> 0, block |-> "none", name |-> NoName,
     piece |-> "none", usage |-> 0]

\* What the text is made of; event: the number of the event that it is part of.
Units == [kind : {"type", "half", "rest", "comment", "cr", "lf"}, event : Nat]
Unit(kind, event) == [kind |-> kind, event |-> event]
CR == Unit("cr", 0)
LF == Unit("lf", 0)

LineEnd(crlf) == IF crlf THEN <<CR, LF>> ELSE <<LF>>
BlankLine(crlf) == LineEnd(crlf) \o LineEnd(crlf)

\* An answer: ok, unless the status was an error; its events; text: what the
\* server sends of them; broken: whether the connection then fails or ends;
\* borders: where the text may be cut.
AnswerSet ==
    [ok : BOOLEAN, events : Seq(Events), text : Seq(Units), broken : BOOLEAN,
     borders : SUBSET Nat]

\* The numbers of the events whose data is in a text to its end.
Whole(text) == {text[k].event : k \in {j \in DOMAIN text : text[j].kind = "rest"}}

\* How a server writes: the data of the events in order, none left out, on one
\* line, and a blank line after it.
WellWritten(text, events) ==
    /\ \A k \in DOMAIN text :
           text[k].kind = "half" =>
               /\ text[k].event \in DOMAIN events
               /\ k < Len(text) => text[k + 1] = Unit("rest", text[k].event)
    /\ \A k \in DOMAIN text :
           text[k].kind = "rest" =>
               /\ k > 1 /\ text[k - 1] = Unit("half", text[k].event)
               /\ \E crlf \in BOOLEAN : \A j \in DOMAIN BlankLine(crlf) :
                      k + j <= Len(text) => text[k + j] = BlankLine(crlf)[j]
               /\ text[k].event > 1 =>
                      \E j \in 1..(k - 1) : text[j] = Unit("rest", text[k].event - 1)
               /\ \A j \in 1..(k - 1) :
                      text[j].kind = "rest" => text[j].event < text[k].event

\* Whether both usage and account errors are inspected: for every answer with
\* a status that is ok.  The rest are validated strictly.
Strict == ~answer.ok

\* read: units taken from the connection; buffer: sseBuffer; open:
\* openContentBlocks; stopped: hasSeenMessageStop; stats: the tokens told so
\* far; usage: those reported; emitted: that of processBufferedEvents; pulling,
\* again: of the Streams standard; waiting: a read of OpenCode is pending; barren
\* is history: blocks without data since the last event.
Phases == {"open", "failing", "failed", "closing", "closed", "cancelled"}
OpenBlock == [index : Nat, type : STRING, json : {"none", "part", "whole"}]
StreamSet ==
    [read : Nat, buffer : Seq(Units), open : SUBSET OpenBlock, stopped : BOOLEAN,
     stats : Nat, usage : Nat, emitted : BOOLEAN, phase : Phases, pulling : BOOLEAN,
     again : BOOLEAN, waiting : BOOLEAN, queue : Seq(Events), out : Seq(Events),
     barren : Nat]
NewStream ==
    [read |-> 0, buffer |-> <<>>, open |-> {}, stopped |-> FALSE, stats |-> 0,
     usage |-> 0, emitted |-> FALSE, phase |-> "open", pulling |-> TRUE, again |-> FALSE,
     waiting |-> FALSE, queue |-> <<>>, out |-> <<>>, barren |-> 0]

------------------------------------------------------------------------------
(* The ReadableStream                                                      *)

ShouldPull(s) == s.phase = "open" /\ (s.waiting \/ s.queue = <<>>)

CallPullIfNeeded(s) ==
    IF ~ShouldPull(s) THEN s
    ELSE IF s.pulling THEN [s EXCEPT !.again = TRUE]
    ELSE [s EXCEPT !.pulling = TRUE]

\* The promise of a pull is fulfilled.
PullDone(s) ==
    LET s1 == [s EXCEPT !.pulling = FALSE, !.again = FALSE, !.emitted = FALSE]
    IN  IF s.again THEN CallPullIfNeeded(s1) ELSE s1

Enqueue(s, e) ==
    LET s1 == [s EXCEPT !.barren = 0]
    IN  CallPullIfNeeded(
            IF s.waiting
            THEN [s1 EXCEPT !.out = Append(@, e), !.waiting = FALSE]
            ELSE [s1 EXCEPT !.queue = Append(@, e)])

CloseStream(s) ==
    IF s.queue = <<>>
    THEN [s EXCEPT !.phase = "closed", !.waiting = FALSE, !.pulling = FALSE,
                   !.again = FALSE]
    ELSE [s EXCEPT !.phase = "closing", !.pulling = FALSE, !.again = FALSE]

------------------------------------------------------------------------------
(* The parser                                                              *)

\* normalizeChunk: a line feed for "\r\n" and for a "\r" of its own.
IsPair(chunk, k) == chunk[k] = CR /\ k < Len(chunk) /\ chunk[k + 1] = LF
NormalizeChunk(chunk) ==
    LET upTo[k \in 0..Len(chunk)] ==
            IF k = 0 THEN <<>>
            ELSE IF IsPair(chunk, k) THEN upTo[k - 1]
            ELSE Append(upTo[k - 1], IF chunk[k] = CR THEN LF ELSE chunk[k])
    IN  upTo[Len(chunk)]

\* Where a blank line in the buffer ends.
Boundaries(buffer) == {k \in 2..Len(buffer) : buffer[k - 1] = LF /\ buffer[k] = LF}

IsBlank(block) == \A k \in DOMAIN block : block[k] = LF

\* getSSEDataPayload.  It can be parsed when it is the data of one event.
Payload(block) == {u \in ToSet(block) : u.kind \in {"half", "rest"}}
Parsed(data) ==
    {i \in DOMAIN answer.events : data = {Unit("half", i), Unit("rest", i)}}

\* extractUsageFromSSEEvent
Stats(stats, e) ==
    IF e.type = "message_delta" /\ e.usage > 0 THEN e.usage
    ELSE IF e.type = "message_start" /\ stats = 0 THEN e.usage
    ELSE stats

\* validateEventState: whether an event fits the blocks that are open, and the
\* blocks after it.
Fits(open, e) ==
    LET opened == {b \in open : b.index = e.index}
    IN  CASE e.type = "content_block_start" -> opened = {}
          [] e.type = "content_block_delta" ->
                 \E b \in opened : e.piece = "none" \/ b.type = "tool_use"
          [] e.type = "content_block_stop" ->
                 \E b \in opened : ~(b.type = "tool_use" /\ b.json = "part")
          [] e.type = "message_stop" -> \A b \in open : b.json = "none"
          [] OTHER -> TRUE

Opened(open, e) ==
    LET others == {b \in open : b.index # e.index}
        Extended(json) == CASE e.piece = "none" -> json
                            [] json = "part" /\ e.piece = "rest" -> "whole"
                            [] OTHER -> "part"
    IN  CASE e.type = "content_block_start" ->
                 open \cup {[index |-> e.index, type |-> e.block, json |-> "none"]}
          [] e.type = "content_block_delta" ->
                 others \cup {[b EXCEPT !.json = Extended(@)] : b \in open \ others}
          [] e.type = "content_block_stop" -> others
          [] e.type = "message_stop" -> {}
          [] OTHER -> open

\* Mutant: names go to OpenCode as they are on the wire.
Renamed_Never(e) == e

\* stripMcpPrefixFromParsedEvent
Renamed(e) == IF e.name = NoName THEN e ELSE [e EXCEPT !.name = ToInternalToolName(@)]

\* Mutant: what comes before the last usage is added to it.
Told_Summed(s, e) ==
    [s EXCEPT !.stats = IF Strict THEN @ ELSE @ + e.usage]

Told(s, e) == [s EXCEPT !.stats = IF Strict THEN @ ELSE Stats(@, e)]

\* enqueueNormalizedEvent, for the event of a whole block.  A throw ends the
\* loop below; a strict error event is enqueued before it throws.
EnqueueNormalizedEvent(s, e) ==
    IF Strict /\ ~Fits(s.open, e) THEN [s EXCEPT !.phase = "failing"]
    ELSE LET s1 == [Told(s, e) EXCEPT
                       !.open = IF Strict THEN Opened(@, e) ELSE @,
                       !.stopped = @ \/ e.type = "message_stop"]
             s2 == Enqueue(s1, Renamed(e))
         IN  IF e.type = "error" /\ Strict THEN [s2 EXCEPT !.phase = "failing"] ELSE s2

EnqueueBlock(s, block) ==
    LET data == Payload(block)
    IN  IF data = {} THEN [s EXCEPT !.barren = @ + 1]
        ELSE IF Parsed(data) = {} THEN [s EXCEPT !.phase = "failing"]
        ELSE EnqueueNormalizedEvent(s, answer.events[FirstOf(Parsed(data))])

\* One round of the loop in processBufferedEvents.  A block that is not blank
\* counts as emitted, also one without data.
TakeBlock(s) ==
    LET end == FirstOf(Boundaries(s.buffer))
        block == SubSeq(s.buffer, 1, end - 2)
        s1 == [s EXCEPT !.buffer = SubSeq(@, end + 1, Len(@))]
    IN  IF s.phase # "open" \/ Boundaries(s.buffer) = {} THEN s
        ELSE IF IsBlank(block) THEN s1
        ELSE EnqueueBlock([s1 EXCEPT !.emitted = TRUE], block)

ProcessBufferedEvents(s) ==
    LET upTo[n \in 0..Len(s.buffer)] ==
            IF n = 0 THEN [s EXCEPT !.emitted = FALSE] ELSE TakeBlock(upTo[n - 1])
    IN  upTo[Len(s.buffer)]

\* Mutant: a pull ends with every chunk.
PullEnds_EveryChunk(s) == TRUE

PullEnds(s) == s.emitted

------------------------------------------------------------------------------
(* What happens                                                            *)

Reading == stream.phase = "open" /\ stream.pulling
Coming == Len(answer.text) - stream.read

\* A chunk of n units arrives at the pending pull.
Arrive(n) ==
    /\ Reading /\ n \in 1..Coming
    /\ LET chunk == SubSeq(answer.text, stream.read + 1, stream.read + n)
           s1 == [stream EXCEPT !.read = @ + n, !.buffer = @ \o NormalizeChunk(chunk)]
           s2 == ProcessBufferedEvents(s1)
       IN  stream' = IF s2.phase = "open" /\ PullEnds(s2) THEN PullDone(s2) ELSE s2
    /\ UNCHANGED answer

\* A strict answer must end between two events, in no block, after a
\* message_stop.
Incomplete(s) == Strict /\ (~IsBlank(s.buffer) \/ s.open # {} \/ ~s.stopped)

\* The server has closed the connection.
EndOfAnswer ==
    /\ Reading /\ Coming = 0 /\ ~answer.broken
    /\ LET s0 == [stream EXCEPT !.buffer = <<>>]
           s1 == IF IsBlank(stream.buffer) THEN s0 ELSE EnqueueBlock(s0, stream.buffer)
       IN  stream' =
           IF Incomplete(stream) THEN [stream EXCEPT !.phase = "failing"]
           ELSE IF s1.phase = "failing" THEN s1
           ELSE CloseStream([s1 EXCEPT !.usage = s1.stats])
    /\ UNCHANGED answer

\* The connection fails.
Breaks ==
    /\ Reading /\ Coming = 0 /\ answer.broken
    /\ stream' = [stream EXCEPT !.phase = "failing"]
    /\ UNCHANGED answer

\* failStream has cancelled the reader and errors the stream: what is still
\* queued is lost.
FailStream ==
    /\ stream.phase = "failing"
    /\ stream' = [stream EXCEPT !.phase = "failed", !.queue = <<>>,
                                !.waiting = FALSE, !.pulling = FALSE]
    /\ UNCHANGED answer

\* OpenCode reads: the first event of the queue, or the next one to come.
Read ==
    /\ stream.phase \in {"open", "failing", "closing"} /\ ~stream.waiting
    /\ stream' =
           IF stream.queue = <<>> THEN CallPullIfNeeded([stream EXCEPT !.waiting = TRUE])
           ELSE LET s1 == [stream EXCEPT !.out = Append(@, Head(stream.queue)),
                                         !.queue = Tail(@)]
                IN  IF s1.phase = "closing" /\ s1.queue = <<>>
                    THEN [s1 EXCEPT !.phase = "closed"]
                    ELSE CallPullIfNeeded(s1)
    /\ UNCHANGED answer

\* OpenCode gives up.  A read of the connection that is pending then ends the
\* answer as if the server had, so that its usage may be reported; nothing can
\* be enqueued any more.
CancelStream ==
    /\ stream.phase \in {"open", "failing", "closing"}
    /\ LET ends == Reading /\ ~Strict /\ IsBlank(stream.buffer)
       IN  stream' = [stream EXCEPT !.phase = "cancelled", !.queue = <<>>,
                          !.waiting = FALSE, !.pulling = FALSE,
                          !.usage = IF ends THEN stream.stats ELSE @]
    /\ UNCHANGED answer

Over == stream.phase \in {"failed", "closed", "cancelled"}
==============================================================================
