------------------------------- MODULE WireNames -------------------------------
(***************************************************************************)
(* The two forms of a tool's name (src/tools/wire-names.ts): OpenCode's    *)
(* and the one on the wire.  A name is a stem, how its words are written,  *)
(* and how often the old prefix "mcp_" stands before it:                   *)
(*   plain   my_tool        kebab   my-tool         pascal  MyTool         *)
(*   digits  tool_2         run     tool2, both of which the wire form     *)
(*           writes as one word: pascalRun, Tool2                          *)
(* A tool with a native counterpart (bash, Bash) is "plain" like the rest: *)
(* its table entry and the general rule agree.                             *)
(***************************************************************************)
EXTENDS Naturals

CONSTANTS Stem, NoStem, PRESERVED_WIRE_NAMES

ASSUME NamesOK == NoStem \notin Stem /\ PRESERVED_WIRE_NAMES \subseteq Stem

Forms == {"plain", "kebab", "pascal", "digits", "run", "pascalRun"}
ToolNames == [stem : Stem \cup {NoStem}, form : Forms, legacy : Nat]
ToolName(stem, form, legacy) == [stem |-> stem, form |-> form, legacy |-> legacy]
NoName == ToolName(NoStem, "plain", 0)

\* The names that come back from the wire as they were.
Plain(n) == n.legacy = 0 /\ n.form \in {"plain", "run"}

DetectLegacyDoublePrefix(n) == n.legacy >= 2

StripLegacyPrefix(n) == IF n.legacy > 0 THEN [n EXCEPT !.legacy = @ - 1] ELSE n

IsPreserved(n) == n.stem \in PRESERVED_WIRE_NAMES /\ n.form = "plain" /\ n.legacy = 0

\* toPascalCaseAlias and fromPascalCaseAlias
ToPascalCaseAlias(n) ==
    [n EXCEPT !.form = IF @ \in {"digits", "run", "pascalRun"} THEN "pascalRun" ELSE "pascal"]
FromPascalCaseAlias(n) ==
    [n EXCEPT !.form = CASE @ = "pascalRun" -> "run"
                         [] @ = "pascal" -> "plain"
                         [] OTHER -> @]

\* Not for a name with a double prefix, for which it throws.
ToWireToolName(n) ==
    LET normalized == StripLegacyPrefix(n)
    IN  IF IsPreserved(normalized) THEN normalized
        ELSE ToPascalCaseAlias(normalized)

ToInternalToolName(n) ==
    IF n.legacy > 0 THEN StripLegacyPrefix(n)
    ELSE IF IsPreserved(n) THEN n
    ELSE FromPascalCaseAlias(n)
==============================================================================
