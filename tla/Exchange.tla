-------------------------------- MODULE Exchange --------------------------------
(***************************************************************************)
(* A conversation of OpenCode with the API through the plugin: OpenCode    *)
(* sends its history, the plugin makes a request of it for each attempt,   *)
(* and what OpenCode reads from the answer is the history of the next      *)
(* request.  Composes RequestBody, Betas and EventStream.                  *)
(*                                                                         *)
(* Which account an attempt uses, and when, is RequestLoop's subject: here *)
(* an attempt takes any account and the API answers as it likes.  OpenCode *)
(* and the API are modelled from what src/ reads and writes.               *)
(***************************************************************************)
EXTENDS RequestBody, Betas, EventStream

CONSTANTS
    Account,
    Settings,      \* settings of a conversation; turns: bound of its requests
    Answers(_),    \* the event streams the API may answer a request with
    Profile, Candidates, \* see Betas
    MaxAttempts,   \* the accounts at the start of a request
    MaxRetries,    \* maxRetries
    MaxExclusions, \* the betas of LONG_CONTEXT_EXCLUSION_ORDER
    MaxFaults      \* bound: what goes wrong in a conversation

ASSUME ExchangeBounds == {MaxAttempts, MaxRetries, MaxExclusions, MaxFaults} \subseteq Nat
ASSUME OwnTexts == {"more", "said"} \subseteq Texts
ASSUME SettingsOK ==
    \A s \in Settings :
        /\ s.model \in STRING /\ s.thinking \in ThinkingTypes /\ s.opening \in Texts
        /\ {s.signature, s.relocate, s.compact, s.toolSearch} \subseteq BOOLEAN
        /\ s.tools \in Seq(ToolNames) /\ s.system \in Seq(Block) /\ s.turns \in Nat

VARIABLES
    settings, \* of the plugin and of OpenCode
    chat,     \* OpenCode's side of the conversation
    call,     \* the executeOAuthFetch call
    wire,     \* the last request sent
    excluded, \* excludedByModel, for this model
    spoken,   \* history: the API's tool uses, their ids and names
    faults    \* what is left of the bound

vars == <<settings, chat, call, wire, excluded, spoken, faults, answer, stream>>
rest == <<settings, excluded, spoken, faults>>

Init ==
    /\ settings \in Settings
    /\ chat = [turn |-> 0, messages |-> <<>>]
    /\ call = [step |-> "idle", attempt |-> 0, retries |-> 0, original |-> Rejected]
    /\ wire = [body |-> Rejected, token |-> NoAccount, betas |-> {}]
    /\ excluded = 0
    /\ spoken = {}
    /\ faults = MaxFaults
    /\ answer = [ok |-> TRUE, events |-> <<>>, text |-> <<>>, broken |-> FALSE, borders |-> {}]
    /\ stream = [NewStream EXCEPT !.phase = "closed", !.pulling = FALSE]

Fault == faults > 0 /\ faults' = faults - 1

------------------------------------------------------------------------------
(* OpenCode                                                                *)

\* The last two messages carry a cache mark.
Marked(messages) ==
    [i \in DOMAIN messages |->
        LET k == Len(messages[i].content)
        IN  IF i + 2 <= Len(messages) THEN messages[i]
            ELSE [messages[i] EXCEPT !.content[k] = Cached(@)]]

\* The body that OpenCode sends.
Original(messages) ==
    [model |-> settings.model, tools |-> settings.tools, system |-> settings.system,
     messages |-> Marked(messages), thinking |-> settings.thinking, effort |-> FALSE,
     temperature |-> TRUE, contextManagement |-> FALSE, schema |-> FALSE,
     deferred |-> FALSE, maxTokens |-> 0, stream |-> TRUE, account |-> NoAccount]

\* The tool uses of the last message.
Uses == IF chat.messages = <<>> THEN {} ELSE
        {b.id : b \in {c \in ToSet(Last(chat.messages).content) : c.kind = "tool_use"}}

Results(ids) == [k \in 1..Cardinality(ids) |-> ToolResult(SetToSeq(ids)[k])]

\* The user or a tool has something to say: results of some of the tool uses,
\* the others were given up.
Ask(ids) ==
    /\ call.step = "idle" /\ chat.turn < settings.turns
    /\ ids \subseteq Uses
    /\ LET text == IF chat.turn = 0 THEN settings.opening ELSE "more"
           messages == Append(chat.messages,
                              Message("user", Results(ids) \o <<TextBlock(text)>>))
       IN  /\ chat' = [turn |-> chat.turn + 1, messages |-> messages]
           /\ call' = [step |-> "new", attempt |-> 0, retries |-> 0,
                       original |-> Original(messages)]
    /\ UNCHANGED <<wire, answer, stream>> /\ UNCHANGED rest

\* OpenCode forgets the start of the conversation.
Forget ==
    /\ call.step = "idle" /\ Len(chat.messages) > 1 /\ Fault
    /\ \E n \in 2..Len(chat.messages) :
          chat' = [chat EXCEPT !.messages = SubSeq(@, n, Len(@))]
    /\ UNCHANGED <<settings, call, wire, excluded, spoken, answer, stream>>

\* What OpenCode makes of the events it has read.
Heard(out) ==
    LET starts == ElementsAt(out, {i \in DOMAIN out : out[i].type = "content_block_start"})
    IN  [k \in DOMAIN starts |->
            IF starts[k].block = "tool_use"
            THEN ToolUse(<<chat.turn, starts[k].index>>, starts[k].name)
            ELSE TextBlock("said")]

\* The answer is over.  What came of one that was cut off is kept or not.
Listen ==
    /\ call.step = "streaming" /\ Over
    /\ LET heard == Heard(stream.out)
       IN  \/ /\ heard # <<>> /\ answer.ok
              /\ chat' = [chat EXCEPT !.messages = Append(@, Message("assistant", heard))]
           \/ /\ stream.phase # "closed" \/ heard = <<>> \/ ~answer.ok
              /\ UNCHANGED chat
    /\ call' = [call EXCEPT !.step = "idle"]
    /\ UNCHANGED <<wire, answer, stream>> /\ UNCHANGED rest

------------------------------------------------------------------------------
(* The plugin                                                              *)

Ends == call' = [call EXCEPT !.step = "idle"]

\* isTitleGeneratorRequestBody: the prompt of a title request, anywhere in the
\* body of a request to a small model.
IsTitleGeneratorRequestBody(body) ==
    /\ body.model = "haiku"
    /\ \E b \in Blocks(body.messages) \cup ToSet(body.system) : b.text = "title"

\* The start of executeOAuthFetch: a title is made up locally.
Begin ==
    /\ call.step = "new"
    /\ IF settings.localTitles /\ IsTitleGeneratorRequestBody(call.original)
       THEN Ends
       ELSE call' = [call EXCEPT !.step = "attempt"]
    /\ UNCHANGED <<chat, wire, answer, stream>> /\ UNCHANGED rest

\* parseRequestBodyMetadata, for the header
Request(body) ==
    [model |-> body.model, path |-> "messages", files |-> FALSE, deferred |-> body.deferred,
     betas |-> {}]

Header(body, exclusions) ==
    BuildAnthropicBetaHeader(Request(body), Profile, Candidates, settings, exclusions)

\* Mutant: the account of the first attempt stays in the body.
AttemptBody_FirstAccount(account) ==
    TransformRequestBody(call.original, settings,
                         IF call.attempt = 0 THEN account ELSE wire.body.account)

\* buildAttemptBody
AttemptBody(account) == TransformRequestBody(call.original, settings, account)

\* An attempt with the token of an account.  A body that cannot be made throws.
Attempt(account) ==
    /\ call.step = "attempt"
    /\ LET body == AttemptBody(account)
       IN  IF body = Rejected THEN Ends /\ UNCHANGED wire
           ELSE /\ wire' = [body |-> body, token |-> account, betas |-> Header(body, excluded)]
                /\ call' = [call EXCEPT !.step = "sent", !.attempt = @ + 1, !.retries = 0]
    /\ UNCHANGED <<chat, answer, stream>> /\ UNCHANGED rest

\* A network error, or an error of this account: the next account, unless it is
\* a retry that fails.
AttemptFails ==
    /\ call.step = "sent" /\ Fault
    /\ IF call.retries = 0 /\ call.attempt < MaxAttempts THEN call' = [call EXCEPT !.step = "attempt"] ELSE Ends
    /\ UNCHANGED <<settings, chat, wire, excluded, spoken, answer, stream>>

\* retryServiceWideResponse: the prepared request once more.
ServiceError ==
    /\ call.step = "sent" /\ call.retries < MaxRetries /\ Fault
    /\ call' = [call EXCEPT !.retries = @ + 1]
    /\ UNCHANGED <<settings, chat, wire, excluded, spoken, answer, stream>>

\* An error about a long context: the same body with one beta less.
LongContextError ==
    /\ call.step = "sent" /\ call.retries = 0 /\ excluded < MaxExclusions /\ Fault
    /\ excluded' = excluded + 1
    /\ wire' = [wire EXCEPT !.betas = Header(wire.body, excluded + 1)]
    /\ call' = [call EXCEPT !.retries = MaxRetries]
    /\ UNCHANGED <<settings, chat, spoken, answer, stream>>

\* What the API answers to a body: a blank line ends each event, a block has an
\* index of its own, and the only tools called are those it was offered.
ServerAnswers(body) ==
    {a \in Answers(body) :
        /\ a \in AnswerSet /\ a.borders \subseteq 0..Len(a.text) /\ ~a.broken
        /\ WellWritten(a.text, a.events)
        /\ \A i \in DOMAIN a.events :
               LET e == a.events[i]
                   starts == e.type = "content_block_start"
               IN  /\ starts /\ e.block = "tool_use" => e.name \in ToSet(body.tools)
                   /\ ~(starts /\ e.block = "tool_use") => e.name = NoName
                   /\ \A j \in DOMAIN a.events :
                          starts /\ a.events[j].type = "content_block_start"
                              /\ a.events[j].index = e.index => i = j}

\* finalizeResponse of an event stream.
Streams(a) ==
    /\ answer' = a /\ stream' = NewStream
    /\ call' = [call EXCEPT !.step = "streaming"]
    /\ UNCHANGED <<settings, chat, wire, excluded>>

\* The answer is ok.  If the connection is to fail, any part of it comes.
Answered(a) ==
    /\ call.step = "sent" /\ a.ok
    /\ \/ Streams(a) /\ UNCHANGED faults
       \/ Fault /\ \E cut \in a.borders, broken \in BOOLEAN :
              Streams([a EXCEPT !.text = SubSeq(@, 1, cut), !.broken = broken])
    /\ spoken' = spoken \cup
           {[id |-> <<chat.turn, a.events[i].index>>, name |-> a.events[i].name] :
               i \in {j \in DOMAIN a.events : a.events[j].name # NoName}}

\* A status that is an error, with an event stream.
Refused(a) ==
    /\ call.step = "sent" /\ ~a.ok /\ Fault
    /\ Streams(a) /\ UNCHANGED spoken

StreamStep ==
    /\ call.step = "streaming"
    /\ \/ \E n \in 1..Coming : stream.read + n \in answer.borders /\ Arrive(n)
       \/ EndOfAnswer \/ Breaks \/ FailStream \/ Read
    /\ UNCHANGED <<chat, call, wire>> /\ UNCHANGED rest

UserCancels ==
    /\ call.step = "streaming" /\ Fault /\ CancelStream
    /\ UNCHANGED <<settings, chat, call, wire, excluded, spoken>>

Next ==
    \/ \E ids \in SUBSET Uses : Ask(ids)
    \/ Forget \/ Listen \/ Begin
    \/ \E account \in Account : Attempt(account)
    \/ AttemptFails \/ ServiceError \/ LongContextError
    \/ call.step = "sent" /\ \E a \in ServerAnswers(wire.body) : Answered(a) \/ Refused(a)
    \/ StreamStep \/ UserCancels

Spec == Init /\ [][Next]_vars

------------------------------------------------------------------------------
(* Properties                                                              *)

\* A tool is called by the name OpenCode gave it, if that is a name the wire
\* form can be taken back from, whatever other tools there are.
CallsComeBackByName ==
    \A b \in Blocks(chat.messages), u \in spoken, n \in ToSet(settings.tools) :
        (b.kind = "tool_use" /\ u.id = b.id /\ Plain(n) /\ ToWireToolName(n) = u.name)
            => b.name = n

\* The API sees its own tool uses again under the names it used, also those of
\* tools whose name is changed on the way, and each with its result, whatever
\* was cut off or forgotten in between.  The exception is a tool whose wire name
\* comes back as a preserved one ("Advisor"): it stays the preserved one.
HistoryAsSpoken ==
    wire.body # Rejected =>
        LET uses == {b \in Blocks(wire.body.messages) : b.kind = "tool_use"}
        IN  /\ \A b \in uses : \E u \in spoken :
                   /\ u.id = b.id
                   /\ u.name = b.name \/ (IsPreserved(b.name) /\ u.name.stem = b.name.stem)
            /\ IdsOf(wire.body.messages, "tool_use") = IdsOf(wire.body.messages, "tool_result")

\* The API allows four cache breakpoints; OpenCode sets some of its own.
CacheBreakpointsBounded == wire.body # Rejected => CacheBreakpoints(wire.body) <= 4

\* What the plugin itself adds to a body is among the betas it asks for, also
\* after betas were excluded; unless the user has taken them out.
BetasCoverBody ==
    LET body == wire.body
    IN  ( /\ body # Rejected /\ settings.signature /\ ~settings.env.noExperimental
          /\ settings.model # "claude3" /\ settings.overrides.remove = {} )
        => /\ body.contextManagement => "context-management" \in wire.betas
           /\ body.effort => "effort" \in wire.betas

\* However often a request is sent, for whatever reason, it says the same: only
\* the account changes, in the token and the body alike.
AttemptsDifferOnlyInAccount ==
    [][ (call.attempt > 0 /\ wire' # wire) =>
            /\ wire'.body = [wire.body EXCEPT !.account = wire'.body.account]
            /\ settings.signature => wire'.body.account = wire'.token ]_vars

\* A pull that finds only blocks without data ends without having brought
\* anything.  Two of them in a row leave OpenCode waiting for an event that
\* nobody reads from the connection any more; nothing less does.
StarvedOnlyByEmptyBlocks ==
    (stream.phase = "open" /\ stream.waiting /\ ~stream.pulling) => stream.barren >= 2

------------------------------------------------------------------------------
(* The refinement                                                          *)

\* The events whose data the server sends in full.
Sent == [i \in Whole(answer.text) |-> Renamed(answer.events[i])]

\* The last usage of the message, or that of its start.
UsageTold(events) ==
    LET Telling(type) == {i \in DOMAIN events : events[i].type = type /\ events[i].usage > 0}
        deltas == Telling("message_delta")
        starts == Telling("message_start")
    IN  IF deltas # {} THEN events[LastOf(deltas)].usage
        ELSE IF starts # {} THEN events[FirstOf(starts)].usage ELSE 0

\* There is a message_stop, and every block has ended.
IsWhole(events) ==
    /\ \E i \in DOMAIN events : events[i].type = "message_stop"
    /\ \A i \in DOMAIN events :
           events[i].type = "content_block_start" =>
               \E j \in (i + 1)..Len(events) :
                   \/ events[j].type = "message_stop"
                   \/ events[j].type = "content_block_stop" /\ events[j].index = events[i].index

StreamStatus == IF stream.phase \in {"open", "failing", "closing"} THEN "open" ELSE stream.phase

Response == INSTANCE ResponseStream
            WITH UsageOf <- UsageTold, Complete <- IsWhole,
                 sent <- Sent, strict <- Strict, out <- stream.out,
                 status <- StreamStatus, usage <- stream.usage

\* What OpenCode reads is what the server sent, however it was cut into chunks,
\* and the tokens are reported once, for all of it.
ImplementsResponseStream == Response!Spec
==============================================================================
