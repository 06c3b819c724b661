------------------------------ MODULE RequestBody ------------------------------
(***************************************************************************)
(* transformRequestBody (src/request/body.ts): what becomes of the body of *)
(* a request to /v1/messages.  A body is its model, its system blocks, its *)
(* messages, its tools and the settings that the code looks at.            *)
(*                                                                         *)
(* A model is known by its family: "adaptive" (Opus and Sonnet from 4.6),  *)
(* "claude4", "haiku" or "claude3".  A text is known by what it says:      *)
(* "quota", "title" (the prompt of a title request), a text of Claude Code *)
(* ("billing", "identity"), "instructions" (what relocation makes of       *)
(* system blocks) or any other.  A message whose content is a string has   *)
(* one block.                                                              *)
(***************************************************************************)
EXTENDS Positions, WireNames

CONSTANTS NoAccount, Texts \* Texts: what a block may say

ASSUME TextsOK == {"", "billing", "identity", "instructions", "title"} \subseteq Texts

\* A tool use has the number of the answer it came in and its place there.
UseIds == Nat \X Nat

\* A block: text, tool_use or tool_result.  cached: it has a cache_control.
\* within: the texts that instructions are made of.
Block ==
    [kind : {"text", "tool_use", "tool_result"}, text : Texts, id : UseIds,
     name : ToolNames, cached : BOOLEAN, within : Seq(Texts)]
TextBlock(text) ==
    [kind |-> "text", text |-> text, id |-> <<0, 0>>, name |-> NoName, cached |-> FALSE,
     within |-> <<>>]
ToolUse(id, name) == [TextBlock("") EXCEPT !.kind = "tool_use", !.id = id, !.name = name]
ToolResult(id) == [TextBlock("") EXCEPT !.kind = "tool_result", !.id = id]
Cached(block) == [block EXCEPT !.cached = TRUE]

Message(role, content) == [role |-> role, content |-> content]

Blocks(messages) ==
    UNION {ToSet(messages[i].content) : i \in DOMAIN messages}
IdsOf(messages, kind) == {b.id : b \in {c \in Blocks(messages) : c.kind = kind}}

\* A body that cannot be sent: transformRequestBody throws.
Rejected == [model |-> "rejected"]

------------------------------------------------------------------------------
(* Tool pairs                                                              *)

Orphan(messages, b) ==
    \/ b.kind = "tool_use" /\ b.id \notin IdsOf(messages, "tool_result")
    \/ b.kind = "tool_result" /\ b.id \notin IdsOf(messages, "tool_use")

WithoutOrphans(messages) ==
    [i \in DOMAIN messages |->
        LET content == messages[i].content
        IN  [messages[i] EXCEPT !.content =
                ElementsAt(content, {k \in DOMAIN content : ~Orphan(messages, content[k])})]]

\* repairToolPairs: uses without a result and results without a use go, and so
\* do messages that have nothing else.
RepairToolPairs(messages) ==
    LET repaired == WithoutOrphans(messages)
    IN  IF IdsOf(messages, "tool_use") = IdsOf(messages, "tool_result") THEN messages
        ELSE ElementsAt(repaired, {i \in DOMAIN repaired : repaired[i].content # <<>>})

------------------------------------------------------------------------------
(* The settings of a request                                               *)

ThinkingTypes == {"absent", "disabled", "enabled", "adaptive"}

IsAdaptiveThinkingModel(model) == model = "adaptive"

\* Mutant: every model that thinks is asked for an effort.
NormalizeThinkingConfig_AnyModel(body) ==
    IF body.thinking \in {"enabled", "adaptive"}
    THEN [body EXCEPT !.thinking = "adaptive", !.effort = TRUE]
    ELSE body

\* normalizeThinkingConfig.  effort: whether output_config has one.
NormalizeThinkingConfig(body) ==
    IF body.thinking \in {"enabled", "adaptive"} /\ IsAdaptiveThinkingModel(body.model)
    THEN [body EXCEPT !.thinking = "adaptive", !.effort = TRUE]
    ELSE body

\* The temperature goes when the model thinks; context_management has a default.
Thinking(body, signature) ==
    LET b == NormalizeThinkingConfig(body)
        thinks == b.thinking \in {"enabled", "adaptive"}
    IN  [b EXCEPT !.temperature = @ /\ ~thinks,
                  !.contextManagement = @ \/ (signature /\ b.thinking # "absent")]

FirstUserTexts(messages) ==
    IF messages = <<>> \/ messages[1].role # "user" THEN <<>>
    ELSE SelectSeq(messages[1].content, LAMBDA b : b.kind = "text")

IsQuotaProbeRequest(body) ==
    LET texts == FirstUserTexts(body.messages)
    IN  texts # <<>> /\ texts[1].text = "quota"

\* By the user's text, or by the schema and the system prompt.
IsTitleGeneratorRequest(body) ==
    /\ body.model = "haiku"
    /\ \/ \E b \in ToSet(FirstUserTexts(body.messages)) : b.text = "title"
       \/ body.schema /\ \E b \in ToSet(body.system) : b.text = "title"

\* applyVerifiedBodyShape.  maxTokens 0: as OpenCode has set it.
VerifiedBodyShape(body, signature) ==
    IF ~signature THEN body
    ELSE IF IsQuotaProbeRequest(body) THEN [body EXCEPT !.maxTokens = 1, !.stream = FALSE]
    ELSE IF IsTitleGeneratorRequest(body)
         THEN [body EXCEPT !.maxTokens = 32000, !.stream = TRUE]
    ELSE IF IsAdaptiveThinkingModel(body.model) /\ body.tools # <<>>
         THEN [body EXCEPT !.maxTokens = 64000, !.stream = TRUE]
    ELSE body

------------------------------------------------------------------------------
(* The system prompt                                                       *)

IsClaudeCode(b) == b.text \in {"billing", "identity"}
ClaudeCodeBlocks(system) == {i \in DOMAIN system : IsClaudeCode(system[i])}
ExtraBlocks(system) ==
    ElementsAt(system, DOMAIN system \ ClaudeCodeBlocks(system))

\* Mutant: the cache_control of OpenCode's blocks is kept.
NormalizeSystemTextBlocks_KeepsMarks(system) == system

NormalizeSystemTextBlocks(system) ==
    [i \in DOMAIN system |-> [system[i] EXCEPT !.cached = FALSE]]

\* dedupeSystemBlocks.  Texts that contain others are left out.
DedupeSystemBlocks(system) ==
    ElementsAt(system, {i \in DOMAIN system : \A j \in 1..(i - 1) : system[j] # system[i]})

\* buildSystemPromptBlocks
BuildSystemPromptBlocks(system, config) ==
    LET prompt == IF \E b \in ToSet(system) : b.text = "title"
                  THEN <<TextBlock("title")>>
                  ELSE IF config.compact THEN DedupeSystemBlocks(system)
                  ELSE system
    IN  IF ~config.signature THEN prompt
        ELSE <<TextBlock("billing"), Cached(TextBlock("identity"))>> \o
             ExtraBlocks(prompt)

\* The blocks that are not Claude Code's go to the first user message, as one
\* cached block of instructions.
Relocate(body) ==
    LET extra == ExtraBlocks(body.system)
        wrapped == [Cached(TextBlock("instructions")) EXCEPT
                       !.within = [i \in DOMAIN extra |-> extra[i].text]]
        messages == body.messages
    IN  [body EXCEPT
            !.system = ElementsAt(@, ClaudeCodeBlocks(@)),
            !.messages =
                IF extra = <<>> THEN messages
                ELSE IF messages # <<>> /\ messages[1].role = "user"
                THEN [messages EXCEPT ![1].content = <<wrapped>> \o @]
                ELSE <<Message("user", <<wrapped>>)>> \o messages]

SystemPrompt(body, config) ==
    LET built == [body EXCEPT !.system =
                     BuildSystemPromptBlocks(NormalizeSystemTextBlocks(@), config)]
    IN  IF config.signature /\ config.relocate THEN Relocate(built) ELSE built

------------------------------------------------------------------------------
(* Tools                                                                   *)

\* Mutant: the tool uses of earlier turns keep OpenCode's names.
PrefixToolUses_Never(messages) == messages

PrefixToolUses(messages) ==
    LET Prefixed(b) == IF b.kind = "tool_use" THEN [b EXCEPT !.name = ToWireToolName(@)] ELSE b
    IN  [i \in DOMAIN messages |->
            [messages[i] EXCEPT !.content = [k \in DOMAIN @ |-> Prefixed(@[k])]]]

NamesIn(body) ==
    ToSet(body.tools) \cup
    {b.name : b \in {c \in Blocks(body.messages) : c.kind = "tool_use"}}

\* transformRequestBody for the account that the attempt uses.  buildAttemptBody
\* gives it no profile, so injectDeferredToolLoading is never called.
TransformRequestBody(body, config, account) ==
    LET repaired == [body EXCEPT !.messages = RepairToolPairs(@)]
        shaped == VerifiedBodyShape(Thinking(repaired, config.signature), config.signature)
        prompted == SystemPrompt(shaped, config)
    IN  IF \E n \in NamesIn(repaired) : DetectLegacyDoublePrefix(n) THEN Rejected
        ELSE [prompted EXCEPT
                 !.account = IF config.signature THEN account ELSE @,
                 !.tools = [i \in DOMAIN @ |-> ToWireToolName(@[i])],
                 !.messages = PrefixToolUses(@)]

------------------------------------------------------------------------------
(* What the API counts                                                     *)

CachedIn(content) == {k \in DOMAIN content : content[k].cached}
CacheBreakpoints(body) ==
    Cardinality(CachedIn(body.system)) +
    Cardinality(UNION {{i} \X CachedIn(body.messages[i].content) : i \in DOMAIN body.messages})
==============================================================================
