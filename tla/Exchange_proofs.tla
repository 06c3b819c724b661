---------------------------- MODULE Exchange_proofs ----------------------------
(***************************************************************************)
(* Theorems about Exchange, proved for all accounts, settings, answers and *)
(* bounds, and about UsageStats, which counts what the answers tell:       *)
(*                                                                         *)
(*   tool names, blocks and messages, tool pairs, the body of a request    *)
(*   the inductive invariant ExchangeInv, in parts                         *)
(*   the parser and the ReadableStream, and what a chunk does to them      *)
(*   the steps of the exchange, its properties, its refinement             *)
(*   the statistics                                                        *)
(***************************************************************************)
EXTENDS Exchange, UsageStats, AccountFile_proofs, SequenceTheorems

------------------------------------------------------------------------------
(***************************************************************************)
(* Tool names.                                                             *)
(***************************************************************************)

\* The names that stand on the wire for a tool.
WireName ==
    {n \in ToolNames : n.legacy = 0 /\ (IsPreserved(n) \/ n.form \in {"pascal", "pascalRun"})}

LEMMA NameParts ==
    ASSUME NEW n \in ToolNames
    PROVE  /\ n = ToolName(n.stem, n.form, n.legacy)
           /\ n.stem \in Stem \cup {NoStem} /\ n.form \in Forms /\ n.legacy \in Nat
BY DEF ToolNames, ToolName

LEMMA NoNameTyped == NoName \in ToolNames /\ NoName.legacy = 0
BY DEF NoName, ToolName, ToolNames, Forms

LEMMA WireTyped ==
    ASSUME NEW n \in ToolNames
    PROVE  ToWireToolName(n) \in ToolNames
<1>1. StripLegacyPrefix(n) \in ToolNames
  BY DEF StripLegacyPrefix, ToolNames
<1>2. \A m \in ToolNames : ToPascalCaseAlias(m) \in ToolNames
  BY DEF ToPascalCaseAlias, ToolNames, Forms
<1> QED
  BY <1>1, <1>2 DEF ToWireToolName

LEMMA InternalTyped ==
    ASSUME NEW n \in ToolNames
    PROVE  ToInternalToolName(n) \in ToolNames
<1>1. StripLegacyPrefix(n) \in ToolNames
  BY DEF StripLegacyPrefix, ToolNames
<1>2. FromPascalCaseAlias(n) \in ToolNames
  BY DEF FromPascalCaseAlias, ToolNames, Forms
<1> QED
  BY <1>1, <1>2 DEF ToInternalToolName

\* A name that has not the old prefix twice becomes one of the wire.
LEMMA WireNamed ==
    ASSUME NEW n \in ToolNames, ~DetectLegacyDoublePrefix(n)
    PROVE  ToWireToolName(n) \in WireName
<1> DEFINE m == StripLegacyPrefix(n)
<1>1. m \in ToolNames /\ m.legacy = 0
  BY DEF StripLegacyPrefix, ToolNames, DetectLegacyDoublePrefix
<1> HIDE DEF m
<1>2. /\ ToPascalCaseAlias(m).form \in {"pascal", "pascalRun"}
      /\ ToPascalCaseAlias(m).legacy = 0
  BY <1>1 DEF ToPascalCaseAlias, ToolNames
<1>3. ToWireToolName(n) = IF IsPreserved(m) THEN m ELSE ToPascalCaseAlias(m)
  BY DEF ToWireToolName, m
<1> QED
  BY <1>1, <1>2, <1>3, WireTyped DEF WireName

\* The plain names come back from the wire as they were.
LEMMA PlainComesBack ==
    ASSUME NEW n \in ToolNames, Plain(n)
    PROVE  ToInternalToolName(ToWireToolName(n)) = n
<1>1. StripLegacyPrefix(n) = n /\ n.legacy = 0
  BY DEF Plain, StripLegacyPrefix
<1>2. CASE IsPreserved(n)
  BY <1>1, <1>2 DEF ToWireToolName, ToInternalToolName
<1>3. CASE ~IsPreserved(n)
  <2> DEFINE w == ToPascalCaseAlias(n)
  <2>1. /\ w.stem = n.stem /\ w.legacy = 0
        /\ w.form = IF n.form = "run" THEN "pascalRun" ELSE "pascal"
        /\ w \in ToolNames
    BY <1>1 DEF ToPascalCaseAlias, Plain, ToolNames, Forms
  <2>2. ToWireToolName(n) = w
    BY <1>1, <1>3 DEF ToWireToolName
  <2> HIDE DEF w
  <2>3. ToInternalToolName(w) = FromPascalCaseAlias(w)
    BY <2>1 DEF ToInternalToolName, IsPreserved
  <2>4. /\ FromPascalCaseAlias(w).stem = n.stem /\ FromPascalCaseAlias(w).legacy = 0
        /\ FromPascalCaseAlias(w).form = n.form
        /\ FromPascalCaseAlias(w) \in ToolNames
    BY <2>1 DEF FromPascalCaseAlias, Plain, ToolNames, Forms
  <2> QED
    BY <1>1, <2>2, <2>3, <2>4, NameParts
<1> QED
  BY <1>2, <1>3

\* The names of the wire come back to it, or as a preserved name.
LEMMA WireComesBack ==
    ASSUME NEW w \in WireName
    PROVE  LET back == ToWireToolName(ToInternalToolName(w))
           IN  back = w \/ (IsPreserved(back) /\ back.stem = w.stem)
<1>1. w \in ToolNames /\ w.legacy = 0
  BY DEF WireName
<1>2. CASE IsPreserved(w)
  <2>1. ToInternalToolName(w) = w /\ StripLegacyPrefix(w) = w
    BY <1>1, <1>2 DEF ToInternalToolName, StripLegacyPrefix
  <2> QED
    BY <1>2, <2>1 DEF ToWireToolName
<1>3. CASE ~IsPreserved(w)
  <2> DEFINE n == FromPascalCaseAlias(w)
  <2>1. w.form \in {"pascal", "pascalRun"}
    BY <1>3 DEF WireName
  <2>2. /\ n \in ToolNames /\ n.stem = w.stem /\ n.legacy = 0
        /\ n.form = IF w.form = "pascalRun" THEN "run" ELSE "plain"
    BY <1>1, <2>1 DEF FromPascalCaseAlias, ToolNames, Forms
  <2>3. ToInternalToolName(w) = n
    BY <1>1, <1>3 DEF ToInternalToolName
  <2> HIDE DEF n
  <2>4. ToWireToolName(n) = IF IsPreserved(n) THEN n ELSE ToPascalCaseAlias(n)
    BY <2>2 DEF ToWireToolName, StripLegacyPrefix
  <2>5. /\ ToPascalCaseAlias(n).stem = w.stem /\ ToPascalCaseAlias(n).legacy = 0
        /\ ToPascalCaseAlias(n).form = w.form
        /\ ToPascalCaseAlias(n) \in ToolNames
    BY <2>1, <2>2 DEF ToPascalCaseAlias, ToolNames, Forms
  <2>6. ToPascalCaseAlias(n) = w
    BY <1>1, <2>5, NameParts
  <2> QED
    BY <2>2, <2>3, <2>4, <2>6
<1> QED
  BY <1>2, <1>3

------------------------------------------------------------------------------
(***************************************************************************)
(* Blocks and messages.                                                    *)
(***************************************************************************)
MessageSet == [role : {"user", "assistant"}, content : Seq(Block)]

\* The places of the cache marks in messages.
Marks(messages) == UNION {{i} \X CachedIn(messages[i].content) : i \in DOMAIN messages}

LEMMA BlocksTyped ==
    ASSUME NEW text \in Texts
    PROVE  /\ TextBlock(text) \in Block /\ ~TextBlock(text).cached
           /\ TextBlock(text).kind = "text" /\ TextBlock(text).text = text
<1>1. <<0, 0>> \in UseIds
  BY DEF UseIds
<1> QED
  BY <1>1, NoNameTyped DEF TextBlock, Block

LEMMA UseTyped ==
    ASSUME NEW id \in UseIds, NEW name \in ToolNames
    PROVE  /\ ToolUse(id, name) \in Block /\ ~ToolUse(id, name).cached
           /\ ToolUse(id, name).kind = "tool_use"
           /\ ToolUse(id, name).id = id /\ ToolUse(id, name).name = name
<1>1. TextBlock("") \in Block /\ ~TextBlock("").cached
  BY BlocksTyped, TextsOK
<1> QED
  BY <1>1 DEF ToolUse, Block

LEMMA ResultTyped ==
    ASSUME NEW id \in UseIds
    PROVE  /\ ToolResult(id) \in Block /\ ~ToolResult(id).cached
           /\ ToolResult(id).kind = "tool_result" /\ ToolResult(id).id = id
<1>1. TextBlock("") \in Block /\ ~TextBlock("").cached
  BY BlocksTyped, TextsOK
<1> QED
  BY <1>1 DEF ToolResult, Block

LEMMA CachedTyped ==
    ASSUME NEW b \in Block
    PROVE  /\ Cached(b) \in Block /\ Cached(b).cached
           /\ Cached(b).kind = b.kind /\ Cached(b).id = b.id /\ Cached(b).name = b.name
           /\ Cached(b).text = b.text
BY DEF Cached, Block

LEMMA InBlocks ==
    ASSUME NEW messages \in Seq(MessageSet), NEW b
    PROVE  b \in Blocks(messages) <=>
           \E i \in DOMAIN messages : \E k \in DOMAIN messages[i].content :
               b = messages[i].content[k]
BY DEF Blocks, ToSet

LEMMA BlockIn ==
    ASSUME NEW messages, NEW b \in Blocks(messages)
    PROVE  \E i \in DOMAIN messages : \E k \in DOMAIN messages[i].content :
               b = messages[i].content[k]
BY Zenon DEF Blocks, ToSet

LEMMA MessageParts ==
    ASSUME NEW messages \in Seq(MessageSet), NEW i \in DOMAIN messages
    PROVE  /\ messages[i] \in MessageSet
           /\ messages[i].content \in Seq(Block)
           /\ messages[i].role \in {"user", "assistant"}
           /\ \A k \in DOMAIN messages[i].content : messages[i].content[k] \in Block
<1>1. messages[i] \in MessageSet
  BY ElementOfSeq
<1>2. messages[i].content \in Seq(Block) /\ messages[i].role \in {"user", "assistant"}
  BY <1>1 DEF MessageSet
<1> QED
  BY <1>1, <1>2, SeqIs

LEMMA BlocksAre ==
    ASSUME NEW messages \in Seq(MessageSet), NEW b \in Blocks(messages)
    PROVE  b \in Block
BY InBlocks, MessageParts

LEMMA CachedInFinite ==
    ASSUME NEW content \in Seq(Block)
    PROVE  /\ IsFiniteSet(CachedIn(content)) /\ CachedIn(content) \subseteq Nat
           /\ CachedIn(content) \subseteq DOMAIN content
BY SeqIs DEF CachedIn

LEMMA InMarks ==
    ASSUME NEW messages, NEW i, NEW k
    PROVE  <<i, k>> \in Marks(messages) <=>
           i \in DOMAIN messages /\ k \in CachedIn(messages[i].content)
BY DEF Marks

\* Every mark is a pair of positions.
LEMMA MarksArePairs ==
    ASSUME NEW messages, NEW p \in Marks(messages)
    PROVE  p = <<p[1], p[2]>>
BY DEF Marks

LEMMA MarksFinite ==
    ASSUME NEW messages \in Seq(MessageSet)
    PROVE  IsFiniteSet(Marks(messages)) /\ Cardinality(Marks(messages)) \in Nat
<1> DEFINE Of(i) == {i} \X CachedIn(messages[i].content)
           f == [i \in DOMAIN messages |-> Of(i)]
           parts == {Of(i) : i \in DOMAIN messages}
<1>1. IsFiniteSet(DOMAIN messages)
  BY SeqIs
<1>2. f \in Surjection(DOMAIN messages, parts)
  BY DEF Surjection
<1>3. IsFiniteSet(parts)
  <2> HIDE DEF f, parts
  <2> QED
    BY <1>1, <1>2, FS_Surjection
<1>4. ASSUME NEW i \in DOMAIN messages PROVE IsFiniteSet(Of(i))
  BY MessageParts, CachedInFinite, FS_Singleton, FS_Product
<1>5. \A part \in parts : IsFiniteSet(part)
  BY <1>4
<1> HIDE DEF parts
<1>6. IsFiniteSet(UNION parts)
  BY <1>3, <1>5, FS_UNION
<1> QED
  BY <1>6, FS_CardinalityType DEF parts, Marks

------------------------------------------------------------------------------
(***************************************************************************)
(* Tool pairs.                                                             *)
(***************************************************************************)
LEMMA ElementsAre ==
    ASSUME NEW R, NEW seq \in Seq(R), NEW S, S \subseteq DOMAIN seq
    PROVE  /\ ElementsAt(seq, S) \in Seq(R)
           /\ \A k \in DOMAIN ElementsAt(seq, S) : \E i \in S : ElementsAt(seq, S)[k] = seq[i]
           /\ \A i \in S : \E k \in DOMAIN ElementsAt(seq, S) : ElementsAt(seq, S)[k] = seq[i]
<1> DEFINE new == ElementsAt(seq, S)
           at == InOrder(S)
<1>1. /\ new \in Seq(R)
      /\ \A k \in DOMAIN new : at[k] \in S /\ new[k] = seq[at[k]]
      /\ \A i \in S : \E k \in DOMAIN new : at[k] = i
  BY ElementsAtIs
<1> HIDE DEF new, at
<1>2. ASSUME NEW i \in S PROVE \E k \in DOMAIN new : new[k] = seq[i]
  BY <1>1
<1>3. ASSUME NEW k \in DOMAIN new PROVE \E i \in S : new[k] = seq[i]
  BY <1>1
<1> QED
  BY <1>1, <1>2, <1>3 DEF new

LEMMA ElementsHave ==
    ASSUME NEW R, NEW seq \in Seq(R), NEW S, S \subseteq DOMAIN seq, NEW i \in S
    PROVE  \E k \in DOMAIN ElementsAt(seq, S) : ElementsAt(seq, S)[k] = seq[i]
BY ElementsAre

KeptIn(messages, content) == {k \in DOMAIN content : ~Orphan(messages, content[k])}

LEMMA WithoutOrphansIs ==
    ASSUME NEW messages \in Seq(MessageSet)
    PROVE  /\ WithoutOrphans(messages) \in Seq(MessageSet)
           /\ DOMAIN WithoutOrphans(messages) = DOMAIN messages
           /\ \A i \in DOMAIN messages :
                  /\ WithoutOrphans(messages)[i].role = messages[i].role
                  /\ WithoutOrphans(messages)[i].content =
                         ElementsAt(messages[i].content, KeptIn(messages, messages[i].content))
<1> DEFINE Kept(i) == ElementsAt(messages[i].content, KeptIn(messages, messages[i].content))
           new == [i \in DOMAIN messages |-> [messages[i] EXCEPT !.content = Kept(i)]]
<1>1. WithoutOrphans(messages) = new
  BY DEF WithoutOrphans, KeptIn
<1>2. ASSUME NEW i \in DOMAIN messages PROVE Kept(i) \in Seq(Block)
  <2>1. messages[i].content \in Seq(Block)
    BY MessageParts
  <2>2. KeptIn(messages, messages[i].content) \subseteq DOMAIN messages[i].content
    BY DEF KeptIn
  <2> QED
    BY <2>1, <2>2, ElementsAre
<1> HIDE DEF Kept
<1>3. ASSUME NEW i \in DOMAIN messages
      PROVE  /\ new[i] \in MessageSet /\ new[i].role = messages[i].role
             /\ new[i].content = Kept(i)
  BY <1>2, MessageParts, ZenonT(30) DEF MessageSet
<1>4. Len(messages) \in Nat /\ DOMAIN messages = 1 .. Len(messages)
  OBVIOUS
<1>5. DOMAIN new = 1 .. Len(messages)
  BY <1>4
<1> HIDE DEF new
<1>6. new \in Seq(MessageSet)
  <2>1. new = [i \in 1 .. Len(messages) |-> new[i]]
    BY <1>4 DEF new
  <2>2. \A i \in 1 .. Len(messages) : new[i] \in MessageSet
    BY <1>3, <1>4
  <2>3. new \in [1 .. Len(messages) -> MessageSet]
    BY <2>1, <2>2
  <2> QED
    BY <1>4, <2>3
<1> QED
  BY <1>1, <1>3, <1>4, <1>5, <1>6 DEF Kept

\* The blocks that stay are those that are no orphans.
LEMMA BlocksWithoutOrphans ==
    ASSUME NEW messages \in Seq(MessageSet), NEW b
    PROVE  b \in Blocks(WithoutOrphans(messages)) <=>
           b \in Blocks(messages) /\ ~Orphan(messages, b)
<1> DEFINE new == WithoutOrphans(messages)
           kept(i) == KeptIn(messages, messages[i].content)
<1>1. /\ new \in Seq(MessageSet) /\ DOMAIN new = DOMAIN messages
      /\ \A i \in DOMAIN messages : new[i].content = ElementsAt(messages[i].content, kept(i))
  BY WithoutOrphansIs
<1>2. ASSUME NEW i \in DOMAIN messages
      PROVE  /\ \A k \in DOMAIN new[i].content : \E j \in kept(i) :
                    new[i].content[k] = messages[i].content[j]
             /\ \A j \in kept(i) : \E k \in DOMAIN new[i].content :
                    new[i].content[k] = messages[i].content[j]
  <2>1. messages[i].content \in Seq(Block) /\ kept(i) \subseteq DOMAIN messages[i].content
    BY MessageParts DEF KeptIn
  <2>2. PICK content : content = messages[i].content
    OBVIOUS
  <2>3. PICK S : S = kept(i)
    OBVIOUS
  <2>4. content \in Seq(Block) /\ S \subseteq DOMAIN content
    BY <2>1, <2>2, <2>3
  <2>5. \A k \in DOMAIN ElementsAt(content, S) : \E j \in S :
            ElementsAt(content, S)[k] = content[j]
    BY <2>4, ElementsAre
  <2>6. ASSUME NEW j \in S
        PROVE  \E k \in DOMAIN ElementsAt(content, S) : ElementsAt(content, S)[k] = content[j]
    BY <2>4, <2>6, ElementsHave
  <2>7. new[i].content = ElementsAt(content, S)
    BY <1>1, <2>2, <2>3
  <2> QED
    BY <2>2, <2>3, <2>5, <2>6, <2>7
<1> HIDE DEF new
<1>3. ASSUME b \in Blocks(new) PROVE b \in Blocks(messages) /\ ~Orphan(messages, b)
  <2>1. PICK i \in DOMAIN messages : \E k \in DOMAIN new[i].content : b = new[i].content[k]
    BY <1>1, <1>3, InBlocks
  <2>2. PICK j \in kept(i) : b = messages[i].content[j]
    BY <1>2, <2>1
  <2> QED
    BY <2>2, InBlocks DEF KeptIn
<1>4. ASSUME b \in Blocks(messages), ~Orphan(messages, b) PROVE b \in Blocks(new)
  <2>1. PICK i \in DOMAIN messages :
            \E j \in DOMAIN messages[i].content : b = messages[i].content[j]
    BY <1>4, InBlocks
  <2>2. PICK j \in DOMAIN messages[i].content : b = messages[i].content[j]
    BY <2>1
  <2>3. j \in kept(i)
    BY <1>4, <2>2 DEF KeptIn
  <2>4. \E k \in DOMAIN new[i].content : new[i].content[k] = b
    BY <1>2, <2>2, <2>3
  <2> QED
    BY <1>1, <2>4, InBlocks
<1> QED
  BY <1>3, <1>4 DEF new

\* Which block is still there after repairToolPairs.
Stays(messages, b) ==
    IdsOf(messages, "tool_use") = IdsOf(messages, "tool_result") \/ ~Orphan(messages, b)

LEMMA RepairedBlocks ==
    ASSUME NEW messages \in Seq(MessageSet)
    PROVE  /\ RepairToolPairs(messages) \in Seq(MessageSet)
           /\ \A b : b \in Blocks(RepairToolPairs(messages)) <=>
                     b \in Blocks(messages) /\ Stays(messages, b)
<1> DEFINE mid == WithoutOrphans(messages)
           full == {i \in DOMAIN mid : mid[i].content # <<>>}
           new == ElementsAt(mid, full)
           same == IdsOf(messages, "tool_use") = IdsOf(messages, "tool_result")
<1>1. RepairToolPairs(messages) = IF same THEN messages ELSE new
  BY DEF RepairToolPairs
<1>2. mid \in Seq(MessageSet)
  BY WithoutOrphansIs
<1>3. full \subseteq DOMAIN mid
  OBVIOUS
<1>4. \A i \in DOMAIN mid : DOMAIN mid[i].content # {} => i \in full
  BY <1>2, EmptySeq
<1> HIDE DEF mid, full
<1>5. /\ new \in Seq(MessageSet)
      /\ \A k \in DOMAIN new : \E i \in full : new[k] = mid[i]
      /\ \A i \in full : \E k \in DOMAIN new : new[k] = mid[i]
  BY <1>2, <1>3, ElementsAre, SMTT(30)
<1> HIDE DEF new
<1>6. ASSUME NEW b PROVE b \in Blocks(new) <=> b \in Blocks(mid)
  <2>1. ASSUME b \in Blocks(new) PROVE b \in Blocks(mid)
    <3>1. PICK k \in DOMAIN new : \E j \in DOMAIN new[k].content : b = new[k].content[j]
      BY <1>5, <2>1, InBlocks
    <3>2. PICK i \in full : new[k] = mid[i]
      BY <1>5
    <3> QED
      BY <1>2, <1>3, <3>1, <3>2, InBlocks
  <2>2. ASSUME b \in Blocks(mid) PROVE b \in Blocks(new)
    <3>1. PICK i \in DOMAIN mid : \E j \in DOMAIN mid[i].content : b = mid[i].content[j]
      BY <1>2, <2>2, InBlocks
    <3>2. i \in full
      BY <1>4, <3>1
    <3>3. PICK k \in DOMAIN new : new[k] = mid[i]
      BY <1>5, <3>2
    <3> QED
      BY <1>5, <3>1, <3>3, InBlocks
  <2> QED
    BY <2>1, <2>2
<1>7. \A b : b \in Blocks(mid) <=> b \in Blocks(messages) /\ ~Orphan(messages, b)
  BY BlocksWithoutOrphans DEF mid
<1>8. CASE same
  BY <1>1, <1>8 DEF Stays
<1>9. CASE ~same
  BY <1>1, <1>5, <1>6, <1>7, <1>9 DEF Stays
<1> QED
  BY <1>8, <1>9

\* Every tool use has its result and every result its use.
LEMMA Paired ==
    ASSUME NEW messages \in Seq(MessageSet), NEW new \in Seq(MessageSet),
           \A b : b \in Blocks(new) <=> b \in Blocks(messages) /\ Stays(messages, b)
    PROVE  IdsOf(new, "tool_use") = IdsOf(new, "tool_result")
<1> DEFINE uses == IdsOf(messages, "tool_use")
           results == IdsOf(messages, "tool_result")
<1>1. CASE uses = results
  <2>1. \A b : b \in Blocks(new) <=> b \in Blocks(messages)
    BY <1>1 DEF Stays
  <2>2. Blocks(new) = Blocks(messages)
    BY <2>1
  <2> QED
    BY <1>1, <2>2 DEF IdsOf
<1>2. CASE uses # results
  <2>1. \A b : b \in Blocks(new) <=> b \in Blocks(messages) /\ ~Orphan(messages, b)
    BY <1>2 DEF Stays
  <2>2. IdsOf(new, "tool_use") = uses \cap results
    BY <2>1 DEF IdsOf, Orphan
  <2>3. IdsOf(new, "tool_result") = uses \cap results
    BY <2>1 DEF IdsOf, Orphan
  <2> QED
    BY <2>2, <2>3
<1> QED
  BY <1>1, <1>2

------------------------------------------------------------------------------
(***************************************************************************)
(* Cache marks: the marks of what is left of messages are found at         *)
(* different places of the messages.                                       *)
(***************************************************************************)
LEMMA NoMoreMarks ==
    ASSUME NEW new \in Seq(MessageSet), NEW old \in Seq(MessageSet), NEW f,
           f \in [Marks(new) -> Marks(old)],
           \A p, q \in Marks(new) : f[p] = f[q] => p = q
    PROVE  Cardinality(Marks(new)) <= Cardinality(Marks(old))
<1>1. IsFiniteSet(Marks(old))
  BY MarksFinite
<1>2. f \in Injection(Marks(new), Marks(old))
  BY DEF Injection, IsInjective
<1> QED
  BY <1>1, <1>2, FS_Injection

LEMMA MarksWithoutOrphans ==
    ASSUME NEW messages \in Seq(MessageSet)
    PROVE  Cardinality(Marks(WithoutOrphans(messages))) <= Cardinality(Marks(messages))
<1> DEFINE new == WithoutOrphans(messages)
           at(i) == InOrder(KeptIn(messages, messages[i].content))
           f == [p \in Marks(new) |-> <<p[1], at(p[1])[p[2]]>>]
<1>1. /\ new \in Seq(MessageSet) /\ DOMAIN new = DOMAIN messages
      /\ \A i \in DOMAIN messages :
             new[i].content =
                 ElementsAt(messages[i].content, KeptIn(messages, messages[i].content))
  BY WithoutOrphansIs
<1>2. ASSUME NEW i \in DOMAIN messages
      PROVE  /\ \A k \in DOMAIN new[i].content :
                    /\ at(i)[k] \in DOMAIN messages[i].content
                    /\ new[i].content[k] = messages[i].content[at(i)[k]]
             /\ \A k, l \in DOMAIN new[i].content : at(i)[k] = at(i)[l] => k = l
  <2>1. PICK content : content = messages[i].content
    OBVIOUS
  <2>2. PICK S : S = KeptIn(messages, messages[i].content)
    OBVIOUS
  <2>3. content \in Seq(Block) /\ S \subseteq DOMAIN content
    BY <2>1, <2>2, MessageParts DEF KeptIn
  <2>4. /\ \A k \in DOMAIN ElementsAt(content, S) :
               /\ InOrder(S)[k] \in S
               /\ ElementsAt(content, S)[k] = content[InOrder(S)[k]]
        /\ \A k, l \in DOMAIN ElementsAt(content, S) :
               InOrder(S)[k] = InOrder(S)[l] => k = l
    BY <2>3, ElementsAtIs
  <2>5. new[i].content = ElementsAt(content, S) /\ at(i) = InOrder(S)
    BY <1>1, <2>1, <2>2
  <2> QED
    BY <2>1, <2>3, <2>4, <2>5
<1> HIDE DEF new, at
<1>3. ASSUME NEW p \in Marks(new)
      PROVE  /\ p = <<p[1], p[2]>> /\ p[1] \in DOMAIN messages
             /\ p[2] \in DOMAIN new[p[1]].content
             /\ <<p[1], at(p[1])[p[2]]>> \in Marks(messages)
  <2>1. p = <<p[1], p[2]>>
    BY MarksArePairs
  <2>2. p[1] \in DOMAIN new /\ p[2] \in CachedIn(new[p[1]].content)
    BY <2>1, InMarks
  <2>3. p[2] \in DOMAIN new[p[1]].content /\ new[p[1]].content[p[2]].cached
    BY <2>2 DEF CachedIn
  <2>4. at(p[1])[p[2]] \in CachedIn(messages[p[1]].content)
    BY <1>1, <1>2, <2>2, <2>3 DEF CachedIn
  <2> QED
    BY <1>1, <2>1, <2>2, <2>3, <2>4, InMarks
<1>4. f \in [Marks(new) -> Marks(messages)]
  BY <1>3
<1>5. ASSUME NEW p \in Marks(new), NEW q \in Marks(new), f[p] = f[q] PROVE p = q
  <2>1. p[1] = q[1] /\ at(p[1])[p[2]] = at(q[1])[q[2]]
    BY <1>5
  <2>2. /\ p[1] \in DOMAIN messages
        /\ p[2] \in DOMAIN new[p[1]].content /\ q[2] \in DOMAIN new[p[1]].content
        /\ at(p[1])[p[2]] = at(p[1])[q[2]]
    BY <1>3, <2>1
  <2>3. \A k, l \in DOMAIN new[p[1]].content : at(p[1])[k] = at(p[1])[l] => k = l
    BY <1>2, <2>2
  <2>4. p[2] = q[2]
    BY <2>2, <2>3
  <2> QED
    BY <1>3, <2>1, <2>4
<1> HIDE DEF f
<1> QED
  BY <1>1, <1>4, <1>5, NoMoreMarks DEF new

LEMMA MarksLeft ==
    ASSUME NEW messages \in Seq(MessageSet), NEW S, S \subseteq DOMAIN messages
    PROVE  /\ ElementsAt(messages, S) \in Seq(MessageSet)
           /\ Cardinality(Marks(ElementsAt(messages, S))) <= Cardinality(Marks(messages))
<1> DEFINE new == ElementsAt(messages, S)
           at == InOrder(S)
           f == [p \in Marks(new) |-> <<at[p[1]], p[2]>>]
<1>1. /\ new \in Seq(MessageSet)
      /\ \A k \in DOMAIN new : at[k] \in S /\ new[k] = messages[at[k]]
      /\ \A k, l \in DOMAIN new : at[k] = at[l] => k = l
  BY ElementsAtIs
<1> HIDE DEF new, at
<1>2. ASSUME NEW p \in Marks(new)
      PROVE  /\ p = <<p[1], p[2]>> /\ p[1] \in DOMAIN new
             /\ <<at[p[1]], p[2]>> \in Marks(messages)
  <2>1. p = <<p[1], p[2]>>
    BY MarksArePairs
  <2>2. p[1] \in DOMAIN new /\ p[2] \in CachedIn(new[p[1]].content)
    BY <2>1, InMarks
  <2>3. at[p[1]] \in DOMAIN messages /\ p[2] \in CachedIn(messages[at[p[1]]].content)
    BY <1>1, <2>2
  <2> QED
    BY <2>1, <2>2, <2>3, InMarks
<1>3. f \in [Marks(new) -> Marks(messages)]
  BY <1>2
<1>4. ASSUME NEW p \in Marks(new), NEW q \in Marks(new), f[p] = f[q] PROVE p = q
  <2>1. at[p[1]] = at[q[1]] /\ p[2] = q[2]
    BY <1>4
  <2>2. p[1] = q[1]
    BY <1>1, <1>2, <2>1
  <2> QED
    BY <1>2, <2>1, <2>2
<1> HIDE DEF f
<1>5. Cardinality(Marks(new)) <= Cardinality(Marks(messages))
  BY <1>1, <1>3, <1>4, NoMoreMarks
<1> QED
  BY <1>1, <1>5 DEF new

LEMMA MarksRepaired ==
    ASSUME NEW messages \in Seq(MessageSet)
    PROVE  Cardinality(Marks(RepairToolPairs(messages))) <= Cardinality(Marks(messages))
<1> DEFINE mid == WithoutOrphans(messages)
           full == {i \in DOMAIN mid : mid[i].content # <<>>}
           new == ElementsAt(mid, full)
<1>1. mid \in Seq(MessageSet) /\ full \subseteq DOMAIN mid
  BY WithoutOrphansIs
<1>2. Cardinality(Marks(mid)) <= Cardinality(Marks(messages))
  BY MarksWithoutOrphans
<1>3. RepairToolPairs(messages) = messages \/ RepairToolPairs(messages) = new
  BY DEF RepairToolPairs
<1> HIDE DEF mid, full
<1>4. new \in Seq(MessageSet) /\ Cardinality(Marks(new)) <= Cardinality(Marks(mid))
  BY <1>1, MarksLeft
<1> HIDE DEF new
<1>5. /\ Cardinality(Marks(messages)) \in Nat /\ Cardinality(Marks(mid)) \in Nat
      /\ Cardinality(Marks(new)) \in Nat
  BY <1>1, <1>4, MarksFinite
<1> QED
  BY <1>2, <1>3, <1>4, <1>5

\* One mark more: all but one are found at different places of the messages.
AllButOne(new, old, x, f) ==
    /\ f \in [Marks(new) \ {x} -> Marks(old)]
    /\ \A p, q \in Marks(new) \ {x} : f[p] = f[q] => p = q

LEMMA OneMoreMark ==
    ASSUME NEW new \in Seq(MessageSet), NEW old \in Seq(MessageSet), NEW x, NEW f,
           AllButOne(new, old, x, f)
    PROVE  Cardinality(Marks(new)) <= Cardinality(Marks(old)) + 1
<1>1. /\ IsFiniteSet(Marks(old)) /\ IsFiniteSet(Marks(new))
      /\ Cardinality(Marks(old)) \in Nat /\ Cardinality(Marks(new)) \in Nat
  BY MarksFinite
<1>2. f \in Injection(Marks(new) \ {x}, Marks(old))
  BY DEF Injection, IsInjective, AllButOne
<1>3. Cardinality(Marks(new) \ {x}) <= Cardinality(Marks(old))
  BY <1>1, <1>2, FS_Injection
<1>4. Cardinality(Marks(new) \ {x}) =
      IF x \in Marks(new) THEN Cardinality(Marks(new)) - 1 ELSE Cardinality(Marks(new))
  BY <1>1, FS_RemoveElement
<1> QED
  BY <1>1, <1>3, <1>4
------------------------------------------------------------------------------
(***************************************************************************)
(* Bodies.                                                                 *)
(***************************************************************************)
BodySet ==
    [model : STRING, tools : Seq(ToolNames), system : Seq(Block),
     messages : Seq(MessageSet), thinking : ThinkingTypes, effort : BOOLEAN,
     temperature : BOOLEAN, contextManagement : BOOLEAN, schema : BOOLEAN,
     deferred : BOOLEAN, maxTokens : Nat, stream : BOOLEAN,
     account : Account \cup {NoAccount}]

\* What the settings of a request and the system prompt leave alone.
SameTools(new, body) ==
    /\ new.model = body.model /\ new.tools = body.tools
    /\ new.deferred = body.deferred /\ new.account = body.account

LEMMA ThinkingIs ==
    ASSUME NEW body \in BodySet, NEW signature \in BOOLEAN
    PROVE  /\ Thinking(body, signature) \in BodySet
           /\ SameTools(Thinking(body, signature), body)
           /\ Thinking(body, signature).system = body.system
           /\ Thinking(body, signature).messages = body.messages
           /\ Thinking(body, signature).effort =>
                  body.effort \/ IsAdaptiveThinkingModel(body.model)
<1> DEFINE b == NormalizeThinkingConfig(body)
<1>1. /\ b \in BodySet /\ SameTools(b, body)
      /\ b.system = body.system /\ b.messages = body.messages
      /\ b.effort => body.effort \/ IsAdaptiveThinkingModel(body.model)
  <2>1. CASE body.thinking \in {"enabled", "adaptive"} /\ IsAdaptiveThinkingModel(body.model)
    <3>1. PICK new : new = [body EXCEPT !.thinking = "adaptive", !.effort = TRUE]
      OBVIOUS
    <3>2. b = new
      BY <2>1, <3>1 DEF NormalizeThinkingConfig
    <3>3. /\ new \in BodySet /\ SameTools(new, body)
          /\ new.system = body.system /\ new.messages = body.messages
      BY <3>1 DEF BodySet, SameTools, ThinkingTypes
    <3> QED
      BY <2>1, <3>2, <3>3
  <2>2. CASE ~(body.thinking \in {"enabled", "adaptive"} /\ IsAdaptiveThinkingModel(body.model))
    BY <2>2 DEF NormalizeThinkingConfig, SameTools
  <2> QED
    BY <2>1, <2>2
<1> DEFINE thinks == b.thinking \in {"enabled", "adaptive"}
           cools == b.temperature /\ ~thinks
           manages == b.contextManagement \/ (signature /\ b.thinking # "absent")
<1>2. cools \in BOOLEAN /\ manages \in BOOLEAN
  BY <1>1 DEF BodySet
<1>3. Thinking(body, signature) = [b EXCEPT !.temperature = cools, !.contextManagement = manages]
  BY DEF Thinking
<1> HIDE DEF b, thinks, cools, manages
<1>4. PICK new : new = [b EXCEPT !.temperature = cools, !.contextManagement = manages]
  OBVIOUS
<1>5. /\ new \in BodySet /\ SameTools(new, b)
      /\ new.system = b.system /\ new.messages = b.messages /\ new.effort = b.effort
  BY <1>1, <1>2, <1>4, ZenonT(30) DEF BodySet, SameTools
<1>6. Thinking(body, signature) = new
  BY <1>3, <1>4
<1> QED
  BY <1>1, <1>5, <1>6 DEF SameTools

LEMMA ShapeIs ==
    ASSUME NEW body \in BodySet, NEW signature \in BOOLEAN
    PROVE  /\ VerifiedBodyShape(body, signature) \in BodySet
           /\ SameTools(VerifiedBodyShape(body, signature), body)
           /\ VerifiedBodyShape(body, signature).system = body.system
           /\ VerifiedBodyShape(body, signature).messages = body.messages
           /\ VerifiedBodyShape(body, signature).effort = body.effort
<1>2. SameTools(body, body)
  BY DEF SameTools
<1>3. PICK new : new = VerifiedBodyShape(body, signature)
  OBVIOUS
<1> DEFINE Fine == /\ new \in BodySet /\ SameTools(new, body)
                   /\ new.system = body.system /\ new.messages = body.messages
                   /\ new.effort = body.effort
<1>4. \/ new = body
      \/ new = [body EXCEPT !.maxTokens = 1, !.stream = FALSE]
      \/ new = [body EXCEPT !.maxTokens = 32000, !.stream = TRUE]
      \/ new = [body EXCEPT !.maxTokens = 64000, !.stream = TRUE]
  BY <1>3 DEF VerifiedBodyShape
<1>5. ASSUME new = body
      PROVE  Fine
  BY <1>2, <1>5
<1>6. ASSUME new = [body EXCEPT !.maxTokens = 1, !.stream = FALSE]
      PROVE  Fine
  BY <1>6 DEF BodySet, SameTools
<1>7. ASSUME new = [body EXCEPT !.maxTokens = 32000, !.stream = TRUE]
      PROVE  Fine
  <2>1. PICK n \in Nat : n = 32000
    OBVIOUS
  <2>2. new = [body EXCEPT !.maxTokens = n, !.stream = TRUE]
    BY <1>7, <2>1
  <2> QED
    BY <2>2 DEF BodySet, SameTools
<1>8. ASSUME new = [body EXCEPT !.maxTokens = 64000, !.stream = TRUE]
      PROVE  Fine
  <2>1. PICK n \in Nat : n = 64000
    OBVIOUS
  <2>2. new = [body EXCEPT !.maxTokens = n, !.stream = TRUE]
    BY <1>8, <2>1
  <2> QED
    BY <2>2 DEF BodySet, SameTools
<1> QED
  BY <1>3, <1>4, <1>5, <1>6, <1>7, <1>8

\* The settings of a request leave its content alone; an effort is only added
\* for a model that thinks as much as it needs.
LEMMA SettledIs ==
    ASSUME NEW body \in BodySet, NEW signature \in BOOLEAN, NEW new,
           new = VerifiedBodyShape(Thinking(body, signature), signature)
    PROVE  /\ new \in BodySet /\ SameTools(new, body)
           /\ new.system = body.system /\ new.messages = body.messages
           /\ new.effort => body.effort \/ IsAdaptiveThinkingModel(body.model)
<1>1. PICK b : b = Thinking(body, signature)
  OBVIOUS
<1>2. /\ b \in BodySet /\ SameTools(b, body)
      /\ b.system = body.system /\ b.messages = body.messages
      /\ b.effort => body.effort \/ IsAdaptiveThinkingModel(body.model)
  BY <1>1, ThinkingIs
<1>3. /\ new \in BodySet /\ SameTools(new, b)
      /\ new.system = b.system /\ new.messages = b.messages /\ new.effort = b.effort
  BY <1>1, <1>2, ShapeIs
<1> QED
  BY <1>2, <1>3 DEF SameTools

------------------------------------------------------------------------------
(***************************************************************************)
(* The system prompt.                                                      *)
(***************************************************************************)

\* No block has a cache mark.
Unmarked(system) == system \in Seq(Block) /\ \A i \in DOMAIN system : ~system[i].cached

LEMMA UnmarkedHave ==
    ASSUME NEW system, Unmarked(system)
    PROVE  system \in Seq(Block) /\ CachedIn(system) = {}
BY DEF Unmarked, CachedIn

LEMMA UnmarkedLeft ==
    ASSUME NEW system, Unmarked(system), NEW S, S \subseteq DOMAIN system
    PROVE  Unmarked(ElementsAt(system, S))
<1>1. system \in Seq(Block)
  BY DEF Unmarked
<1>2. /\ ElementsAt(system, S) \in Seq(Block)
      /\ \A k \in DOMAIN ElementsAt(system, S) : \E i \in S :
             ElementsAt(system, S)[k] = system[i]
  BY <1>1, ElementsAre
<1> QED
  BY <1>2 DEF Unmarked

LEMMA NormalizedUnmarked ==
    ASSUME NEW system \in Seq(Block)
    PROVE  Unmarked(NormalizeSystemTextBlocks(system))
<1> DEFINE new == NormalizeSystemTextBlocks(system)
<1>1. Len(system) \in Nat /\ DOMAIN system = 1 .. Len(system)
  OBVIOUS
<1>2. new = [i \in 1 .. Len(system) |-> [system[i] EXCEPT !.cached = FALSE]]
  BY <1>1 DEF NormalizeSystemTextBlocks
<1>3. ASSUME NEW i \in 1 .. Len(system)
      PROVE  new[i] \in Block /\ ~new[i].cached
  <2>1. PICK b : b = system[i]
    OBVIOUS
  <2>2. b \in Block
    BY <1>1, <2>1, ElementOfSeq
  <2>3. PICK c : c = [b EXCEPT !.cached = FALSE]
    OBVIOUS
  <2>4. c \in Block /\ ~c.cached
    BY <2>2, <2>3 DEF Block
  <2>5. new[i] = c
    BY <1>2, <2>1, <2>3
  <2> QED
    BY <2>4, <2>5
<1> HIDE DEF new
<1>4. new \in [1 .. Len(system) -> Block] /\ DOMAIN new = 1 .. Len(system)
  BY <1>2, <1>3
<1>5. new \in Seq(Block)
  BY <1>1, <1>4
<1> QED
  BY <1>3, <1>4, <1>5 DEF Unmarked, new

LEMMA PromptUnmarked ==
    ASSUME NEW system, Unmarked(system), NEW config
    PROVE  Unmarked(IF \E b \in ToSet(system) : b.text = "title"
                    THEN <<TextBlock("title")>>
                    ELSE IF config.compact THEN DedupeSystemBlocks(system)
                    ELSE system)
<1>1. Unmarked(<<TextBlock("title")>>)
  <2>1. PICK b : b = TextBlock("title")
    OBVIOUS
  <2>2. b \in Block /\ ~b.cached
    BY <2>1, BlocksTyped, TextsOK
  <2>3. Unmarked(<<b>>)
    BY <2>2 DEF Unmarked
  <2> QED
    BY <2>1, <2>3
<1>2. Unmarked(DedupeSystemBlocks(system))
  <2> DEFINE S == {i \in DOMAIN system : \A j \in 1..(i - 1) : system[j] # system[i]}
  <2>1. S \subseteq DOMAIN system /\ DedupeSystemBlocks(system) = ElementsAt(system, S)
    BY DEF DedupeSystemBlocks
  <2> HIDE DEF S
  <2> QED
    BY <2>1, UnmarkedLeft
<1> QED
  BY <1>1, <1>2

\* The prompt that is built has at most one mark: that of Claude Code's identity.
LEMMA BuiltIs ==
    ASSUME NEW system, Unmarked(system), NEW config,
           NEW new, new = BuildSystemPromptBlocks(system, config)
    PROVE  /\ new \in Seq(Block)
           /\ CachedIn(new) \subseteq {2}
<1>1. PICK prompt : prompt = IF \E b \in ToSet(system) : b.text = "title"
                             THEN <<TextBlock("title")>>
                             ELSE IF config.compact THEN DedupeSystemBlocks(system)
                             ELSE system
  OBVIOUS
<1>2. Unmarked(prompt)
  BY <1>1, PromptUnmarked
<1>3. new = IF ~config.signature THEN prompt
            ELSE <<TextBlock("billing"), Cached(TextBlock("identity"))>> \o ExtraBlocks(prompt)
  BY <1>1, Zenon DEF BuildSystemPromptBlocks
<1>4. CASE ~config.signature
  BY <1>2, <1>3, <1>4, UnmarkedHave
<1>5. CASE config.signature
  <2>1. PICK extra : extra = ExtraBlocks(prompt)
    OBVIOUS
  <2>2. Unmarked(extra)
    <3>1. DOMAIN prompt \ ClaudeCodeBlocks(prompt) \subseteq DOMAIN prompt
      OBVIOUS
    <3> QED
      BY <1>2, <2>1, <3>1, UnmarkedLeft DEF ExtraBlocks
  <2>3. PICK a : a = TextBlock("billing")
    OBVIOUS
  <2>4. PICK b : b = Cached(TextBlock("identity"))
    OBVIOUS
  <2>5. a \in Block /\ ~a.cached
    BY <2>3, BlocksTyped, TextsOK
  <2>6. b \in Block /\ b.cached
    <3>1. TextBlock("identity") \in Block
      BY BlocksTyped, TextsOK
    <3> QED
      BY <2>4, <3>1, CachedTyped
  <2>7. new = <<a, b>> \o extra
    BY <1>3, <1>5, <2>1, <2>3, <2>4
  <2>8. extra \in Seq(Block) /\ \A i \in DOMAIN extra : ~extra[i].cached
    BY <2>2 DEF Unmarked
  <2>9. /\ new \in Seq(Block) /\ Len(new) = Len(extra) + 2
        /\ new[1] = a /\ new[2] = b
        /\ \A i \in 3 .. Len(new) : new[i] = extra[i - 2] /\ i - 2 \in DOMAIN extra
    BY <2>5, <2>6, <2>7, <2>8
  <2>10. CachedIn(new) \subseteq {2}
    <3> SUFFICES ASSUME NEW i \in CachedIn(new) PROVE i = 2
      OBVIOUS
    <3>1. i \in 1 .. Len(new) /\ new[i].cached
      BY <2>9 DEF CachedIn
    <3>2. i = 1 \/ i = 2 \/ i \in 3 .. Len(new)
      BY <2>8, <2>9, <3>1
    <3> QED
      BY <2>5, <2>8, <2>9, <3>1, <3>2
  <2> QED
    BY <2>9, <2>10
<1> QED
  BY <1>4, <1>5
\* The tool uses and results are the same.
SameUses(new, old) ==
    \A b : b.kind # "text" => (b \in Blocks(new) <=> b \in Blocks(old))

LEMMA Prefixed ==
    ASSUME NEW R, NEW w \in R, NEW seq \in Seq(R), NEW new, new = <<w>> \o seq
    PROVE  /\ new \in Seq(R) /\ new # <<>>
           /\ DOMAIN new = 1 .. Len(seq) + 1 /\ Len(seq) \in Nat
           /\ DOMAIN seq = 1 .. Len(seq)
           /\ new[1] = w
           /\ \A k \in DOMAIN new : k # 1 => new[k] = seq[k - 1] /\ k - 1 \in DOMAIN seq
           /\ \A k \in DOMAIN seq : new[k + 1] = seq[k] /\ k + 1 \in DOMAIN new
OBVIOUS

LEMMA FirstMessageGrows ==
    ASSUME NEW messages \in Seq(MessageSet), NEW w \in Block, w.kind = "text",
           NEW new \in Seq(MessageSet), DOMAIN new = DOMAIN messages, 1 \in DOMAIN messages,
           NEW old, old = messages[1].content, NEW content, content = new[1].content,
           \A i \in DOMAIN messages : i # 1 => new[i] = messages[i],
           content[1] = w, 1 \in DOMAIN content,
           \A k \in DOMAIN content : k # 1 => content[k] = old[k - 1] /\ k - 1 \in DOMAIN old,
           \A k \in DOMAIN old : content[k + 1] = old[k] /\ k + 1 \in DOMAIN content
    PROVE  /\ SameUses(new, messages)
           /\ Cardinality(Marks(new)) <= Cardinality(Marks(messages)) + 1
<1>10. SameUses(new, messages)
  <2> SUFFICES ASSUME NEW b, b.kind # "text"
               PROVE  b \in Blocks(new) <=> b \in Blocks(messages)
    BY DEF SameUses
  <2>1. b # w
    OBVIOUS
  <2>2. ASSUME NEW i \in DOMAIN messages, NEW k \in DOMAIN new[i].content,
               b = new[i].content[k]
        PROVE  b \in Blocks(messages)
    <3>1. CASE i = 1
      <4>1. b = old[k - 1] /\ k - 1 \in DOMAIN old
        BY <2>1, <2>2, <3>1
      <4> QED
        BY <4>1, InBlocks
    <3>2. CASE i # 1
      BY <2>2, <3>2, InBlocks
    <3> QED
      BY <3>1, <3>2
  <2>3. ASSUME NEW i \in DOMAIN messages, NEW k \in DOMAIN messages[i].content,
               b = messages[i].content[k]
        PROVE  b \in Blocks(new)
    <3>1. CASE i = 1
      <4>1. b = content[k + 1] /\ k + 1 \in DOMAIN content
        BY <2>3, <3>1
      <4> QED
        BY <4>1, InBlocks
    <3>2. CASE i # 1
      BY <2>3, <3>2, InBlocks
    <3> QED
      BY <3>1, <3>2
  <2>6. new \in Seq(MessageSet) /\ DOMAIN new = DOMAIN messages
    OBVIOUS
  <2>4. b \in Blocks(new) => \E i \in DOMAIN messages : \E k \in DOMAIN new[i].content :
                                  b = new[i].content[k]
    BY <2>6, InBlocks
  <2>5. b \in Blocks(messages) =>
            \E i \in DOMAIN messages : \E k \in DOMAIN messages[i].content :
                b = messages[i].content[k]
    BY InBlocks
  <2> QED
    BY <2>2, <2>3, <2>4, <2>5
<1> DEFINE x == <<1, 1>>
           D == Marks(new) \ {x}
           f == [p \in D |->
                    IF p[1] = 1 THEN <<1, p[2] - 1>> ELSE <<p[1], p[2]>>]
<1>11. ASSUME NEW p \in D
       PROVE  /\ p = <<p[1], p[2]>> /\ p[2] \in Nat
              /\ p[1] = 1 => <<1, p[2] - 1>> \in Marks(messages)
              /\ p[1] # 1 => <<p[1], p[2]>> \in Marks(messages)
  <2>1. p = <<p[1], p[2]>>
    BY MarksArePairs
  <2>0. <<p[1], p[2]>> \in Marks(new)
    BY <2>1
  <2>2. p[1] \in DOMAIN messages /\ p[2] \in CachedIn(new[p[1]].content)
    BY <2>0, InMarks
  <2>3. p[2] \in Nat
    BY <2>2, MessageParts, CachedInFinite
  <2>4. CASE p[1] = 1
    <3>1. p[2] # 1
      BY <2>1, <2>4
    <3>2. p[2] \in DOMAIN content /\ content[p[2]].cached
      BY <2>2, <2>4 DEF CachedIn
    <3>3. p[2] - 1 \in CachedIn(messages[1].content)
      BY <3>1, <3>2 DEF CachedIn
    <3> QED
      BY <2>1, <2>3, <2>4, <3>3, InMarks
  <2>5. CASE p[1] # 1
    BY <2>1, <2>2, <2>3, <2>5, InMarks
  <2> QED
    BY <2>4, <2>5
<1>12. f \in [D -> Marks(messages)]
  BY <1>11
<1>13. ASSUME NEW p \in D, NEW q \in D, f[p] = f[q]
       PROVE  p = q
  <2>1. (IF p[1] = 1 THEN <<1, p[2] - 1>> ELSE <<p[1], p[2]>>)
            = (IF q[1] = 1 THEN <<1, q[2] - 1>> ELSE <<q[1], q[2]>>)
    BY <1>13
  <2> HIDE DEF f, D, x
  <2>2. p[2] \in Nat /\ q[2] \in Nat
    BY <1>11, Zenon
  <2>3. p[1] = q[1] /\ p[2] = q[2]
    <3>1. CASE p[1] = 1 /\ q[1] = 1
      BY <2>1, <2>2, <3>1
    <3>2. CASE p[1] = 1 /\ q[1] # 1
      BY <2>1, <3>2
    <3>3. CASE p[1] # 1 /\ q[1] = 1
      BY <2>1, <3>3
    <3>4. CASE p[1] # 1 /\ q[1] # 1
      BY <2>1, <3>4
    <3> QED
      BY <3>1, <3>2, <3>3, <3>4
  <2>4. p = <<p[1], p[2]>> /\ q = <<q[1], q[2]>>
    BY <1>11, Zenon
  <2> QED
    BY <2>3, <2>4, Zenon
<1> HIDE DEF f
<1>14. Cardinality(Marks(new)) <= Cardinality(Marks(messages)) + 1
  <2>1. AllButOne(new, messages, x, f)
    BY <1>12, <1>13 DEF AllButOne
  <2> QED
    BY <2>1, OneMoreMark
<1> QED
  BY <1>10, <1>14


LEMMA InFirstMessage ==
    ASSUME NEW messages \in Seq(MessageSet), messages # <<>>,
           NEW w \in Block, w.kind = "text",
           NEW new, new = [messages EXCEPT ![1].content = <<w>> \o @]
    PROVE  /\ new \in Seq(MessageSet) /\ SameUses(new, messages)
           /\ Cardinality(Marks(new)) <= Cardinality(Marks(messages)) + 1
<1>1. 1 \in DOMAIN messages /\ DOMAIN messages = 1 .. Len(messages) /\ Len(messages) \in Nat
  OBVIOUS
<1>2. PICK old : old = messages[1].content
  OBVIOUS
<1>3. old \in Seq(Block) /\ messages[1] \in MessageSet
  BY <1>1, <1>2, MessageParts
<1>4. PICK content : content = <<w>> \o old
  OBVIOUS
<1>5. /\ content \in Seq(Block)
      /\ content[1] = w /\ 1 \in DOMAIN content
      /\ DOMAIN content \subseteq Nat
      /\ \A k \in DOMAIN content : k # 1 => content[k] = old[k - 1] /\ k - 1 \in DOMAIN old
      /\ \A k \in DOMAIN old : content[k + 1] = old[k] /\ k + 1 \in DOMAIN content
  BY <1>3, <1>4, Prefixed
<1>6. PICK first : first = [messages[1] EXCEPT !.content = content]
  OBVIOUS
<1>7. first \in MessageSet /\ first.content = content
  BY <1>3, <1>5, <1>6 DEF MessageSet
<1>8. new = [messages EXCEPT ![1] = first]
  BY <1>2, <1>4, <1>6
<1>9. /\ new \in Seq(MessageSet) /\ DOMAIN new = DOMAIN messages
      /\ new[1].content = content
      /\ \A i \in DOMAIN messages : i # 1 => new[i] = messages[i]
  <2>1. /\ DOMAIN new = 1 .. Len(messages) /\ new[1] = first
        /\ \A i \in DOMAIN messages : i # 1 => new[i] = messages[i]
    BY <1>1, <1>8
  <2>2. \A i \in 1 .. Len(messages) : new[i] \in MessageSet
    BY <1>1, <1>7, <2>1, ElementOfSeq
  <2>3. new = [i \in 1 .. Len(messages) |-> new[i]]
    BY <1>1, <1>8
  <2>4. new \in [1 .. Len(messages) -> MessageSet]
    BY <2>2, <2>3
  <2>5. new \in Seq(MessageSet)
    BY <1>1, <2>4
  <2> QED
    BY <1>1, <1>7, <2>1, <2>5
<1>10. SameUses(new, messages) /\ Cardinality(Marks(new)) <= Cardinality(Marks(messages)) + 1
  BY <1>1, <1>2, <1>5, <1>9, FirstMessageGrows, ZenonT(30)
<1> QED
  BY <1>9, <1>10

LEMMA OneMessageMore ==
    ASSUME NEW messages \in Seq(MessageSet), NEW w \in Block, w.kind = "text",
           NEW first, DOMAIN first.content = {1}, first.content[1] = w,
           NEW new \in Seq(MessageSet), new[1] = first,
           DOMAIN new \subseteq Nat, 1 \in DOMAIN new,
           \A k \in DOMAIN new : k # 1 => new[k] = messages[k - 1] /\ k - 1 \in DOMAIN messages,
           \A k \in DOMAIN messages : new[k + 1] = messages[k] /\ k + 1 \in DOMAIN new
    PROVE  /\ SameUses(new, messages)
           /\ Cardinality(Marks(new)) <= Cardinality(Marks(messages)) + 1
<1>4. SameUses(new, messages)
  <2> SUFFICES ASSUME NEW b, b.kind # "text"
               PROVE  b \in Blocks(new) <=> b \in Blocks(messages)
    BY DEF SameUses
  <2>1. b # w
    OBVIOUS
  <2>2. ASSUME NEW i \in DOMAIN new, NEW k \in DOMAIN new[i].content, b = new[i].content[k]
        PROVE  b \in Blocks(messages)
    <3>1. i # 1
      BY <2>1, <2>2
    <3>2. new[i] = messages[i - 1] /\ i - 1 \in DOMAIN messages
      BY <3>1
    <3> QED
      BY <2>2, <3>2, InBlocks
  <2>3. ASSUME NEW i \in DOMAIN messages, NEW k \in DOMAIN messages[i].content,
               b = messages[i].content[k]
        PROVE  b \in Blocks(new)
    <3>1. new[i + 1] = messages[i] /\ i + 1 \in DOMAIN new
      OBVIOUS
    <3> QED
      BY <2>3, <3>1, InBlocks
  <2>6. new \in Seq(MessageSet)
    OBVIOUS
  <2>4. b \in Blocks(new) => \E i \in DOMAIN new : \E k \in DOMAIN new[i].content :
                                  b = new[i].content[k]
    BY <2>6, InBlocks
  <2>5. b \in Blocks(messages) =>
            \E i \in DOMAIN messages : \E k \in DOMAIN messages[i].content :
                b = messages[i].content[k]
    BY InBlocks
  <2> QED
    BY <2>2, <2>3, <2>4, <2>5
<1> DEFINE x == <<1, 1>>
           D == Marks(new) \ {x}
           f == [p \in D |-> <<p[1] - 1, p[2]>>]
<1>5. ASSUME NEW p \in D
      PROVE  /\ p = <<p[1], p[2]>> /\ p[1] \in Nat
             /\ <<p[1] - 1, p[2]>> \in Marks(messages)
  <2>1. p = <<p[1], p[2]>>
    BY MarksArePairs
  <2>2. p[1] \in DOMAIN new /\ p[2] \in CachedIn(new[p[1]].content)
    BY <2>1, InMarks
  <2>3. p[1] # 1
    <3> SUFFICES ASSUME p[1] = 1 PROVE FALSE
      OBVIOUS
    <3>1. p[2] = 1
      BY <2>2 DEF CachedIn
    <3> QED
      BY <2>1, <3>1
  <2>4. p[1] - 1 \in DOMAIN messages /\ p[2] \in CachedIn(messages[p[1] - 1].content)
    BY <2>2, <2>3
  <2> QED
    BY <2>1, <2>2, <2>4, InMarks
<1>6. f \in [D -> Marks(messages)]
  BY <1>5
<1>7. ASSUME NEW p \in D, NEW q \in D, f[p] = f[q]
      PROVE  p = q
  <2>1. p[1] - 1 = q[1] - 1 /\ p[2] = q[2]
    BY <1>7
  <2> HIDE DEF f, D, x
  <2>2. p[1] \in Nat /\ q[1] \in Nat
    BY <1>5, Zenon
  <2>3. p[1] = q[1]
    BY <2>1, <2>2
  <2>4. p = <<p[1], p[2]>> /\ q = <<q[1], q[2]>>
    BY <1>5, Zenon
  <2> QED
    BY <2>1, <2>3, <2>4, Zenon
<1> HIDE DEF f
<1>8. Cardinality(Marks(new)) <= Cardinality(Marks(messages)) + 1
  <2>1. AllButOne(new, messages, x, f)
    BY <1>6, <1>7 DEF AllButOne
  <2> QED
    BY <2>1, OneMoreMark
<1> QED
  BY <1>4, <1>8

LEMMA InOwnMessage ==
    ASSUME NEW messages \in Seq(MessageSet), NEW w \in Block, w.kind = "text",
           NEW new, new = <<Message("user", <<w>>)>> \o messages
    PROVE  /\ new \in Seq(MessageSet) /\ SameUses(new, messages)
           /\ Cardinality(Marks(new)) <= Cardinality(Marks(messages)) + 1
<1>1. PICK first : first = Message("user", <<w>>)
  OBVIOUS
<1>2. /\ first \in MessageSet
      /\ DOMAIN first.content = {1} /\ first.content[1] = w
  BY <1>1 DEF Message, MessageSet
<1>3. /\ new \in Seq(MessageSet)
      /\ new[1] = first
      /\ DOMAIN new \subseteq Nat /\ 1 \in DOMAIN new
      /\ \A k \in DOMAIN new : k # 1 => new[k] = messages[k - 1] /\ k - 1 \in DOMAIN messages
      /\ \A k \in DOMAIN messages : new[k + 1] = messages[k] /\ k + 1 \in DOMAIN new
  BY <1>1, <1>2, Prefixed
<1>4. SameUses(new, messages) /\ Cardinality(Marks(new)) <= Cardinality(Marks(messages)) + 1
  BY <1>2, <1>3, OneMessageMore, ZenonT(30)
<1> QED
  BY <1>3, <1>4
LEMMA AtMostOne ==
    ASSUME NEW S, \A x, y \in S : x = y
    PROVE  IsFiniteSet(S) /\ Cardinality(S) \in Nat /\ Cardinality(S) <= 1
<1>1. CASE S = {}
  BY <1>1, FS_EmptySet
<1>2. CASE S # {}
  <2>1. PICK x : x \in S
    BY <1>2
  <2>2. S = {x}
    BY <2>1
  <2> QED
    BY <2>2, FS_Singleton
<1> QED
  BY <1>1, <1>2

\* What stays of blocks with one mark has at most one.
LEMMA OneMarkLeft ==
    ASSUME NEW system \in Seq(Block), CachedIn(system) \subseteq {2},
           NEW S, S \subseteq DOMAIN system, NEW new, new = ElementsAt(system, S)
    PROVE  new \in Seq(Block) /\ Cardinality(CachedIn(new)) <= 1
<1> DEFINE at == InOrder(S)
<1>1. /\ new \in Seq(Block)
      /\ \A k \in DOMAIN new : at[k] \in S /\ new[k] = system[at[k]]
      /\ \A k, l \in DOMAIN new : at[k] = at[l] => k = l
  BY ElementsAtIs
<1> HIDE DEF at
<1>2. ASSUME NEW k \in CachedIn(new) PROVE k \in DOMAIN new /\ at[k] = 2
  <2>1. k \in DOMAIN new /\ new[k].cached
    BY DEF CachedIn
  <2>2. at[k] \in CachedIn(system)
    BY <1>1, <2>1 DEF CachedIn
  <2> QED
    BY <2>1, <2>2
<1>3. \A k, l \in CachedIn(new) : k = l
  BY <1>1, <1>2
<1> QED
  BY <1>1, <1>3, AtMostOne

\* The system prompt leaves the tool uses alone, and it sets at most two marks:
\* one of its own, and one in the messages.
Prompted(new, body) ==
    /\ new \in BodySet /\ SameTools(new, body) /\ new.effort = body.effort
    /\ Cardinality(CachedIn(new.system)) <= 1
    /\ SameUses(new.messages, body.messages)
    /\ Cardinality(Marks(new.messages)) <= Cardinality(Marks(body.messages)) + 1

LEMMA RelocatedMessages ==
    ASSUME NEW messages \in Seq(MessageSet), NEW w \in Block, w.kind = "text", NEW none, NEW new,
           new = IF none THEN messages
                 ELSE IF messages # <<>> /\ messages[1].role = "user"
                 THEN [messages EXCEPT ![1].content = <<w>> \o @]
                 ELSE <<Message("user", <<w>>)>> \o messages
    PROVE  /\ new \in Seq(MessageSet) /\ SameUses(new, messages)
           /\ Cardinality(Marks(new)) <= Cardinality(Marks(messages)) + 1
<1>1. Cardinality(Marks(messages)) \in Nat
  BY MarksFinite
<1>2. CASE new = messages
  BY <1>1, <1>2 DEF SameUses
<1>3. CASE messages # <<>> /\ new = [messages EXCEPT ![1].content = <<w>> \o @]
  BY <1>3, InFirstMessage
<1>4. CASE new = <<Message("user", <<w>>)>> \o messages
  BY <1>4, InOwnMessage
<1> QED
  BY <1>2, <1>3, <1>4

LEMMA RelocateIs ==
    ASSUME NEW body \in BodySet, CachedIn(body.system) \subseteq {2}
    PROVE  Prompted(Relocate(body), body)
<1>1. PICK system : system = body.system
  OBVIOUS
<1>2. PICK messages : messages = body.messages
  OBVIOUS
<1>3. system \in Seq(Block) /\ messages \in Seq(MessageSet)
  BY <1>1, <1>2 DEF BodySet
<1>4. PICK extra : extra = ExtraBlocks(system)
  OBVIOUS
<1>5. extra \in Seq(Block)
  <2>1. DOMAIN system \ ClaudeCodeBlocks(system) \subseteq DOMAIN system
    OBVIOUS
  <2> QED
    BY <1>3, <1>4, <2>1, ElementsAre DEF ExtraBlocks
<1>6. PICK said : said = [i \in DOMAIN extra |-> extra[i].text]
  OBVIOUS
<1>7. said \in Seq(Texts)
  <2>1. Len(extra) \in Nat /\ DOMAIN extra = 1 .. Len(extra)
    BY <1>5
  <2>2. \A i \in 1 .. Len(extra) : extra[i].text \in Texts
    <3> TAKE i \in 1 .. Len(extra)
    <3>1. extra[i] \in Block
      BY <1>5, <2>1, ElementOfSeq
    <3> QED
      BY <3>1 DEF Block
  <2>3. said \in [1 .. Len(extra) -> Texts]
    BY <1>6, <2>1, <2>2
  <2> QED
    BY <2>1, <2>3
<1>8. PICK base : base = Cached(TextBlock("instructions"))
  OBVIOUS
<1>9. base \in Block /\ base.kind = "text"
  <2>1. TextBlock("instructions") \in Block /\ TextBlock("instructions").kind = "text"
    BY BlocksTyped, TextsOK
  <2> QED
    BY <1>8, <2>1, CachedTyped
<1>10. PICK w : w = [base EXCEPT !.within = said]
  OBVIOUS
<1>11. w \in Block /\ w.kind = "text"
  BY <1>7, <1>9, <1>10 DEF Block
<1>12. PICK new : new = IF extra = <<>> THEN messages
                        ELSE IF messages # <<>> /\ messages[1].role = "user"
                        THEN [messages EXCEPT ![1].content = <<w>> \o @]
                        ELSE <<Message("user", <<w>>)>> \o messages
  OBVIOUS
<1>13. /\ new \in Seq(MessageSet) /\ SameUses(new, messages)
       /\ Cardinality(Marks(new)) <= Cardinality(Marks(messages)) + 1
  BY <1>3, <1>11, <1>12, RelocatedMessages
<1>14. PICK left : left = ElementsAt(system, ClaudeCodeBlocks(system))
  OBVIOUS
<1>15. left \in Seq(Block) /\ Cardinality(CachedIn(left)) <= 1
  <2>1. ClaudeCodeBlocks(system) \subseteq DOMAIN system
    BY DEF ClaudeCodeBlocks
  <2> QED
    BY <1>1, <1>3, <1>14, <2>1, OneMarkLeft
<1>16. PICK b : b = [body EXCEPT !.system = left, !.messages = new]
  OBVIOUS
<1>17. /\ b \in BodySet /\ SameTools(b, body) /\ b.effort = body.effort
       /\ b.system = left /\ b.messages = new
  BY <1>13, <1>15, <1>16 DEF BodySet, SameTools
<1>18. Relocate(body) = b
  BY <1>1, <1>2, <1>4, <1>6, <1>8, <1>10, <1>12, <1>14, <1>16, Zenon DEF Relocate
<1> QED
  BY <1>2, <1>13, <1>15, <1>17, <1>18 DEF Prompted

LEMMA SystemPromptIs ==
    ASSUME NEW body \in BodySet, NEW config \in Settings
    PROVE  Prompted(SystemPrompt(body, config), body)
<1>1. PICK normal : normal = NormalizeSystemTextBlocks(body.system)
  OBVIOUS
<1>2. Unmarked(normal)
  <2>1. body.system \in Seq(Block)
    BY DEF BodySet
  <2> QED
    BY <1>1, <2>1, NormalizedUnmarked
<1>3. PICK system : system = BuildSystemPromptBlocks(normal, config)
  OBVIOUS
<1>4. system \in Seq(Block) /\ CachedIn(system) \subseteq {2}
  BY <1>2, <1>3, BuiltIs
<1>5. PICK built : built = [body EXCEPT !.system = system]
  OBVIOUS
<1>6. /\ built \in BodySet /\ SameTools(built, body) /\ built.effort = body.effort
      /\ built.system = system /\ built.messages = body.messages
  BY <1>4, <1>5 DEF BodySet, SameTools
<1>7. SystemPrompt(body, config) =
      IF config.signature /\ config.relocate THEN Relocate(built) ELSE built
  BY <1>1, <1>3, <1>5, Zenon DEF SystemPrompt
<1>8. Prompted(built, body)
  <2>1. Cardinality(CachedIn(system)) <= 1
    BY <1>4, AtMostOne
  <2>2. body.messages \in Seq(MessageSet)
    BY DEF BodySet
  <2>3. Cardinality(Marks(body.messages)) \in Nat
    BY <2>2, MarksFinite
  <2> QED
    BY <1>6, <2>1, <2>3 DEF Prompted, SameUses
<1>9. Prompted(Relocate(built), built)
  BY <1>4, <1>6, RelocateIs
<1>10. Prompted(Relocate(built), body)
  BY <1>6, <1>9 DEF Prompted, SameTools
<1> QED
  BY <1>7, <1>8, <1>10
------------------------------------------------------------------------------
(***************************************************************************)
(* The body of a request, for any account.                                 *)
(***************************************************************************)
PrefixedBlock(b) ==
    IF b.kind = "tool_use" THEN [b EXCEPT !.name = ToWireToolName(@)] ELSE b

LEMMA PrefixedBlockIs ==
    ASSUME NEW b \in Block
    PROVE  /\ PrefixedBlock(b) \in Block
           /\ PrefixedBlock(b).kind = b.kind /\ PrefixedBlock(b).id = b.id
           /\ PrefixedBlock(b).cached = b.cached
           /\ b.kind = "tool_use" => PrefixedBlock(b).name = ToWireToolName(b.name)
<1>1. b.name \in ToolNames
  BY DEF Block
<1>2. PICK name : name = ToWireToolName(b.name)
  OBVIOUS
<1>3. name \in ToolNames
  BY <1>1, <1>2, WireTyped
<1>4. PICK new : new = [b EXCEPT !.name = name]
  OBVIOUS
<1>5. /\ new \in Block /\ new.kind = b.kind /\ new.id = b.id
      /\ new.cached = b.cached /\ new.name = name
  BY <1>3, <1>4 DEF Block
<1>6. PrefixedBlock(b) = IF b.kind = "tool_use" THEN new ELSE b
  BY <1>2, <1>4 DEF PrefixedBlock
<1> QED
  BY <1>2, <1>5, <1>6

LEMMA PrefixToolUsesIs ==
    ASSUME NEW messages \in Seq(MessageSet), NEW new, new = PrefixToolUses(messages)
    PROVE  /\ new \in Seq(MessageSet) /\ DOMAIN new = DOMAIN messages
           /\ \A i \in DOMAIN messages :
                  /\ DOMAIN new[i].content = DOMAIN messages[i].content
                  /\ \A k \in DOMAIN messages[i].content :
                         new[i].content[k] = PrefixedBlock(messages[i].content[k])
<1> DEFINE Content(i) ==
               [k \in DOMAIN messages[i].content |-> PrefixedBlock(messages[i].content[k])]
<1>1. new = [i \in DOMAIN messages |-> [messages[i] EXCEPT !.content = Content(i)]]
  BY DEF PrefixToolUses, PrefixedBlock
<1>2. ASSUME NEW i \in DOMAIN messages
      PROVE  Content(i) \in Seq(Block) /\ DOMAIN Content(i) = DOMAIN messages[i].content
  <2>1. PICK old : old = messages[i].content
    OBVIOUS
  <2>2. old \in Seq(Block) /\ \A k \in DOMAIN old : old[k] \in Block
    BY <2>1, MessageParts
  <2>3. Len(old) \in Nat /\ DOMAIN old = 1 .. Len(old)
    BY <2>2
  <2>4. \A k \in 1 .. Len(old) : PrefixedBlock(old[k]) \in Block
    BY <2>2, <2>3, PrefixedBlockIs
  <2>5. Content(i) = [k \in 1 .. Len(old) |-> PrefixedBlock(old[k])]
    BY <2>1, <2>3
  <2>6. Content(i) \in [1 .. Len(old) -> Block] /\ DOMAIN Content(i) = 1 .. Len(old)
    BY <2>4, <2>5
  <2> HIDE DEF Content
  <2>7. Content(i) \in Seq(Block)
    BY <2>3, <2>6
  <2> QED
    BY <2>1, <2>3, <2>6, <2>7
<1>3. \A i \in DOMAIN messages : \A k \in DOMAIN messages[i].content :
          Content(i)[k] = PrefixedBlock(messages[i].content[k])
  OBVIOUS
<1> HIDE DEF Content
<1>4. ASSUME NEW i \in DOMAIN messages
      PROVE  new[i] \in MessageSet /\ new[i].content = Content(i)
  <2>1. PICK old : old = messages[i]
    OBVIOUS
  <2>2. PICK content : content = Content(i)
    OBVIOUS
  <2>3. old \in MessageSet /\ content \in Seq(Block)
    BY <1>2, <2>1, <2>2, MessageParts
  <2>4. PICK m : m = [old EXCEPT !.content = content]
    OBVIOUS
  <2>5. m \in MessageSet /\ m.content = content
    BY <2>3, <2>4 DEF MessageSet
  <2>6. new[i] = m
    BY <1>1, <2>1, <2>2, <2>4
  <2> QED
    BY <2>2, <2>5, <2>6
<1>5. Len(messages) \in Nat /\ DOMAIN messages = 1 .. Len(messages)
  OBVIOUS
<1>6. DOMAIN new = 1 .. Len(messages)
  BY <1>1, <1>5
<1>7. new \in [1 .. Len(messages) -> MessageSet]
  <2>1. new = [i \in 1 .. Len(messages) |-> new[i]]
    BY <1>1, <1>5
  <2> QED
    BY <1>4, <1>5, <2>1
<1>8. new \in Seq(MessageSet)
  BY <1>5, <1>7
<1> QED
  BY <1>2, <1>3, <1>4, <1>5, <1>6, <1>8

\* The marks stay where they are; the tool uses of the new messages are those
\* of the old ones, by their names on the wire.
LEMMA PrefixedBlocks ==
    ASSUME NEW messages \in Seq(MessageSet), NEW new, new = PrefixToolUses(messages)
    PROVE  /\ Marks(new) = Marks(messages)
           /\ \A b \in Blocks(new) : \E c \in Blocks(messages) : b = PrefixedBlock(c)
           /\ \A c \in Blocks(messages) : PrefixedBlock(c) \in Blocks(new)
<1>1. /\ new \in Seq(MessageSet) /\ DOMAIN new = DOMAIN messages
      /\ \A i \in DOMAIN messages :
             /\ DOMAIN new[i].content = DOMAIN messages[i].content
             /\ \A k \in DOMAIN messages[i].content :
                    new[i].content[k] = PrefixedBlock(messages[i].content[k])
  BY PrefixToolUsesIs
<1>2. ASSUME NEW i \in DOMAIN messages
      PROVE  CachedIn(new[i].content) = CachedIn(messages[i].content)
  <2>1. \A k \in DOMAIN messages[i].content :
            new[i].content[k].cached = messages[i].content[k].cached
    BY <1>1, MessageParts, PrefixedBlockIs
  <2> QED
    BY <1>1, <2>1 DEF CachedIn
<1>3. Marks(new) = Marks(messages)
  BY <1>1, <1>2 DEF Marks
<1>4. ASSUME NEW b \in Blocks(new)
      PROVE  \E c \in Blocks(messages) : b = PrefixedBlock(c)
  <2>1. new \in Seq(MessageSet)
    BY <1>1
  <2>2. PICK i \in DOMAIN new : \E k \in DOMAIN new[i].content : b = new[i].content[k]
    BY <2>1, InBlocks
  <2>3. PICK k \in DOMAIN new[i].content : b = new[i].content[k]
    BY <2>2
  <2>4. /\ i \in DOMAIN messages /\ k \in DOMAIN messages[i].content
        /\ b = PrefixedBlock(messages[i].content[k])
    BY <1>1, <2>3
  <2> QED
    BY <2>4, InBlocks
<1>5. ASSUME NEW c \in Blocks(messages) PROVE PrefixedBlock(c) \in Blocks(new)
  <2>1. new \in Seq(MessageSet)
    BY <1>1
  <2>2. PICK i \in DOMAIN messages :
            \E k \in DOMAIN messages[i].content : c = messages[i].content[k]
    BY InBlocks
  <2>3. PICK k \in DOMAIN messages[i].content : c = messages[i].content[k]
    BY <2>2
  <2>4. /\ i \in DOMAIN new /\ k \in DOMAIN new[i].content
        /\ PrefixedBlock(c) = new[i].content[k]
    BY <1>1, <2>3
  <2> QED
    BY <2>1, <2>4, InBlocks
<1> QED
  BY <1>3, <1>4, <1>5
\* What may be said of a body that can be sent.
Transformed(new, body, config, account) ==
    /\ new \in BodySet /\ new.model = body.model
    /\ new.account = IF config.signature THEN account ELSE body.account
    /\ new.effort => body.effort \/ IsAdaptiveThinkingModel(body.model)
    /\ \A n \in ToSet(new.tools) : n \in WireName
    /\ \A b \in Blocks(new.messages) :
           b.kind = "tool_use" =>
               \E c \in Blocks(body.messages) :
                   /\ c.kind = "tool_use" /\ c.id = b.id
                   /\ b.name = ToWireToolName(c.name) /\ ~DetectLegacyDoublePrefix(c.name)
    /\ IdsOf(new.messages, "tool_use") = IdsOf(new.messages, "tool_result")
    /\ Cardinality(CachedIn(new.system)) <= 1
    /\ Cardinality(Marks(new.messages)) <= Cardinality(Marks(body.messages)) + 1

LEMMA SameIds ==
    ASSUME NEW new, NEW old, SameUses(new, old), NEW kind, kind # "text"
    PROVE  IdsOf(new, kind) = IdsOf(old, kind)
<1>1. \A b : b.kind = kind => (b \in Blocks(new) <=> b \in Blocks(old))
  BY DEF SameUses
<1>2. {b \in Blocks(new) : b.kind = kind} = {b \in Blocks(old) : b.kind = kind}
  BY <1>1
<1> QED
  BY <1>2 DEF IdsOf

LEMMA PrefixedIds ==
    ASSUME NEW messages \in Seq(MessageSet), NEW new, new = PrefixToolUses(messages), NEW kind
    PROVE  IdsOf(new, kind) = IdsOf(messages, kind)
<1>1. \A b \in Blocks(messages) :
          PrefixedBlock(b).kind = b.kind /\ PrefixedBlock(b).id = b.id
  BY BlocksAre, PrefixedBlockIs
<1>2. /\ \A b \in Blocks(new) : \E c \in Blocks(messages) : b = PrefixedBlock(c)
      /\ \A c \in Blocks(messages) : PrefixedBlock(c) \in Blocks(new)
  BY PrefixedBlocks
<1>3. ASSUME NEW id \in IdsOf(new, kind) PROVE id \in IdsOf(messages, kind)
  <2>1. PICK b \in Blocks(new) : b.kind = kind /\ b.id = id
    BY DEF IdsOf
  <2>2. PICK c \in Blocks(messages) : b = PrefixedBlock(c)
    BY <1>2
  <2> QED
    BY <1>1, <2>1, <2>2 DEF IdsOf
<1>4. ASSUME NEW id \in IdsOf(messages, kind) PROVE id \in IdsOf(new, kind)
  <2>1. PICK c \in Blocks(messages) : c.kind = kind /\ c.id = id
    BY DEF IdsOf
  <2> QED
    BY <1>1, <1>2, <2>1 DEF IdsOf
<1> QED
  BY <1>3, <1>4

\* The body without what depends on the account and the names on the wire.
Prepared(body, config) ==
    LET repaired == [body EXCEPT !.messages = RepairToolPairs(@)]
    IN  SystemPrompt(VerifiedBodyShape(Thinking(repaired, config.signature), config.signature),
                     config)

LEMMA PreparedIs ==
    ASSUME NEW body \in BodySet, NEW config \in Settings, NEW new, new = Prepared(body, config)
    PROVE  /\ new \in BodySet /\ SameTools(new, body)
           /\ new.effort => body.effort \/ IsAdaptiveThinkingModel(body.model)
           /\ Cardinality(CachedIn(new.system)) <= 1
           /\ SameUses(new.messages, RepairToolPairs(body.messages))
           /\ Cardinality(Marks(new.messages)) <= Cardinality(Marks(body.messages)) + 1
<1>1. body.messages \in Seq(MessageSet)
  BY DEF BodySet
<1>2. PICK messages : messages = RepairToolPairs(body.messages)
  OBVIOUS
<1>3. /\ messages \in Seq(MessageSet)
      /\ Cardinality(Marks(messages)) <= Cardinality(Marks(body.messages))
  BY <1>1, <1>2, RepairedBlocks, MarksRepaired
<1>4. PICK repaired : repaired = [body EXCEPT !.messages = messages]
  OBVIOUS
<1>5. /\ repaired \in BodySet /\ SameTools(repaired, body) /\ repaired.effort = body.effort
      /\ repaired.messages = messages
  BY <1>3, <1>4 DEF BodySet, SameTools
<1>6. PICK settled :
          settled = VerifiedBodyShape(Thinking(repaired, config.signature), config.signature)
  OBVIOUS
<1>7. config.signature \in BOOLEAN
  BY SettingsOK
<1>8. /\ settled \in BodySet /\ SameTools(settled, repaired)
      /\ settled.messages = messages
      /\ settled.effort => repaired.effort \/ IsAdaptiveThinkingModel(repaired.model)
  BY <1>5, <1>6, <1>7, SettledIs
<1>9. new = SystemPrompt(settled, config)
  BY <1>2, <1>4, <1>6, Zenon DEF Prepared
<1>10. Prompted(new, settled)
  BY <1>8, <1>9, SystemPromptIs
<1>11. /\ Cardinality(Marks(messages)) \in Nat /\ Cardinality(Marks(body.messages)) \in Nat
  BY <1>1, <1>3, MarksFinite
<1>12. /\ new \in BodySet /\ SameTools(new, settled) /\ new.effort = settled.effort
       /\ Cardinality(CachedIn(new.system)) <= 1
       /\ SameUses(new.messages, messages)
       /\ Cardinality(Marks(new.messages)) <= Cardinality(Marks(messages)) + 1
  BY <1>8, <1>10 DEF Prompted
<1>13. Cardinality(Marks(new.messages)) <= Cardinality(Marks(body.messages)) + 1
  <2>1. Cardinality(Marks(new.messages)) \in Nat
    BY <1>12, MarksFinite DEF BodySet
  <2> QED
    BY <1>3, <1>11, <1>12, <2>1
<1>14. SameTools(new, body)
  BY <1>5, <1>8, <1>12 DEF SameTools
<1>15. new.effort => body.effort \/ IsAdaptiveThinkingModel(body.model)
  BY <1>5, <1>8, <1>12 DEF SameTools
<1> QED
  BY <1>2, <1>12, <1>13, <1>14, <1>15

\* The names of a body on the wire.
Refuses(body) ==
    \E n \in NamesIn([body EXCEPT !.messages = RepairToolPairs(@)]) :
        DetectLegacyDoublePrefix(n)

LEMMA TransformAs ==
    ASSUME NEW body, NEW config, NEW account
    PROVE  TransformRequestBody(body, config, account) =
           IF Refuses(body) THEN Rejected
           ELSE [Prepared(body, config) EXCEPT
                    !.account = IF config.signature THEN account ELSE @,
                    !.tools = [i \in DOMAIN @ |-> ToWireToolName(@[i])],
                    !.messages = PrefixToolUses(@)]
BY Zenon DEF TransformRequestBody, Refuses, Prepared

LEMMA KnownNames ==
    ASSUME NEW body \in BodySet, ~Refuses(body)
    PROVE  /\ \A n \in ToSet(body.tools) : ~DetectLegacyDoublePrefix(n)
           /\ \A b \in Blocks(RepairToolPairs(body.messages)) :
                  b.kind = "tool_use" => ~DetectLegacyDoublePrefix(b.name)
<1>1. PICK messages : messages = RepairToolPairs(body.messages)
  OBVIOUS
<1>2. body.messages \in Seq(MessageSet)
  BY DEF BodySet
<1>3. messages \in Seq(MessageSet)
  BY <1>1, <1>2, RepairedBlocks
<1>4. PICK repaired : repaired = [body EXCEPT !.messages = messages]
  OBVIOUS
<1>5. repaired.tools = body.tools /\ repaired.messages = messages
  BY <1>3, <1>4 DEF BodySet
<1>6. \A n \in NamesIn(repaired) : ~DetectLegacyDoublePrefix(n)
  BY <1>1, <1>4 DEF Refuses
<1>7. \A n \in ToSet(body.tools) : n \in NamesIn(repaired)
  BY <1>5 DEF NamesIn
<1>8. \A b \in Blocks(messages) : b.kind = "tool_use" => b.name \in NamesIn(repaired)
  BY <1>5 DEF NamesIn
<1> QED
  BY <1>1, <1>6, <1>7, <1>8
LEMMA TransformIs ==
    ASSUME NEW body \in BodySet, NEW config \in Settings, NEW account \in Account,
           NEW new, new = TransformRequestBody(body, config, account), new # Rejected
    PROVE  Transformed(new, body, config, account)
<1>1. PICK prompted : prompted = Prepared(body, config)
  OBVIOUS
<1>2. /\ prompted \in BodySet /\ SameTools(prompted, body)
      /\ prompted.effort => body.effort \/ IsAdaptiveThinkingModel(body.model)
      /\ Cardinality(CachedIn(prompted.system)) <= 1
      /\ SameUses(prompted.messages, RepairToolPairs(body.messages))
      /\ Cardinality(Marks(prompted.messages)) <= Cardinality(Marks(body.messages)) + 1
  BY <1>1, PreparedIs
<1>4. PICK account2 : account2 = IF config.signature THEN account ELSE prompted.account
  OBVIOUS
<1>6. PICK tools : tools = [i \in DOMAIN prompted.tools |-> ToWireToolName(prompted.tools[i])]
  OBVIOUS
<1>7. PICK messages : messages = PrefixToolUses(prompted.messages)
  OBVIOUS
<1>8. ~Refuses(body)
  BY TransformAs
<1>9. new = [prompted EXCEPT !.account = account2, !.tools = tools,
                             !.messages = messages]
  BY <1>1, <1>4, <1>6, <1>7, <1>8, TransformAs
<1>10. account2 \in Account \cup {NoAccount} /\ prompted.account = body.account
  BY <1>2, <1>4 DEF BodySet, SameTools
<1>12. /\ prompted.tools \in Seq(ToolNames) /\ prompted.tools = body.tools
       /\ prompted.messages \in Seq(MessageSet) /\ body.messages \in Seq(MessageSet)
  BY <1>2 DEF BodySet, SameTools
<1>13. /\ \A n \in ToSet(body.tools) : ~DetectLegacyDoublePrefix(n)
       /\ \A b \in Blocks(RepairToolPairs(body.messages)) :
              b.kind = "tool_use" => ~DetectLegacyDoublePrefix(b.name)
  BY <1>8, KnownNames
<1>14. tools \in Seq(ToolNames) /\ \A n \in ToSet(tools) : n \in WireName
  <2>1. Len(prompted.tools) \in Nat /\ DOMAIN prompted.tools = 1 .. Len(prompted.tools)
    BY <1>12
  <2>2. \A i \in 1 .. Len(prompted.tools) :
            prompted.tools[i] \in ToolNames /\ prompted.tools[i] \in ToSet(body.tools)
    BY <1>12, <2>1, ElementOfSeq DEF ToSet
  <2>3. \A i \in 1 .. Len(prompted.tools) : ToWireToolName(prompted.tools[i]) \in WireName
    BY <1>13, <2>2, WireNamed
  <2>4. WireName \subseteq ToolNames
    BY DEF WireName
  <2>5. tools \in [1 .. Len(prompted.tools) -> WireName]
    BY <1>6, <2>1, <2>3
  <2>6. tools \in Seq(WireName)
    BY <2>1, <2>5
  <2>7. \A i \in DOMAIN tools : tools[i] \in WireName
    BY <2>5
  <2>8. tools \in Seq(ToolNames)
    BY <2>1, <2>4, <2>5
  <2> QED
    BY <2>7, <2>8 DEF ToSet
<1>15. messages \in Seq(MessageSet)
  BY <1>7, <1>12, PrefixToolUsesIs
<1>16. /\ new \in BodySet /\ new.model = body.model /\ new.account = account2
       /\ new.tools = tools /\ new.messages = messages
       /\ new.effort = prompted.effort /\ new.system = prompted.system
  BY <1>2, <1>9, <1>10, <1>14, <1>15, ZenonT(30) DEF BodySet, SameTools
<1>17. ASSUME NEW b \in Blocks(messages), b.kind = "tool_use"
       PROVE  \E c \in Blocks(body.messages) :
                  /\ c.kind = "tool_use" /\ c.id = b.id
                  /\ b.name = ToWireToolName(c.name) /\ ~DetectLegacyDoublePrefix(c.name)
  <2>1. PICK c \in Blocks(prompted.messages) : b = PrefixedBlock(c)
    BY <1>7, <1>12, PrefixedBlocks
  <2>2. c \in Block
    BY <1>12, BlocksAre
  <2>3. c.kind = "tool_use" /\ c.id = b.id /\ b.name = ToWireToolName(c.name)
    BY <1>17, <2>1, <2>2, PrefixedBlockIs
  <2>4. c \in Blocks(RepairToolPairs(body.messages))
    BY <1>2, <2>3 DEF SameUses
  <2>5. c \in Blocks(body.messages)
    BY <1>12, <2>4, RepairedBlocks
  <2> QED
    BY <1>13, <2>3, <2>4, <2>5
<1>18. IdsOf(messages, "tool_use") = IdsOf(messages, "tool_result")
  <2>1. PICK mid : mid = RepairToolPairs(body.messages)
    OBVIOUS
  <2>2. /\ mid \in Seq(MessageSet)
        /\ \A b : b \in Blocks(mid) <=> b \in Blocks(body.messages) /\ Stays(body.messages, b)
    BY <1>12, <2>1, RepairedBlocks
  <2>3. IdsOf(mid, "tool_use") = IdsOf(mid, "tool_result")
    BY <1>12, <2>2, Paired
  <2>4. /\ IdsOf(prompted.messages, "tool_use") = IdsOf(mid, "tool_use")
        /\ IdsOf(prompted.messages, "tool_result") = IdsOf(mid, "tool_result")
    BY <1>2, <2>1, SameIds
  <2> QED
    BY <1>7, <1>12, <2>3, <2>4, PrefixedIds
<1>19. Marks(messages) = Marks(prompted.messages)
  BY <1>7, <1>12, PrefixedBlocks
<1>20. new.account = IF config.signature THEN account ELSE body.account
  BY <1>4, <1>10, <1>16
<1> QED
  BY <1>2, <1>14, <1>16, <1>17, <1>18, <1>19, <1>20 DEF Transformed

\* Two bodies for the same request differ in the account at most.
LEMMA TransformsDiffer ==
    ASSUME NEW body \in BodySet, NEW config \in Settings,
           NEW a \in Account, NEW b \in Account,
           NEW one, one = TransformRequestBody(body, config, a), one # Rejected,
           NEW two, two = TransformRequestBody(body, config, b), two # Rejected
    PROVE  two = [one EXCEPT !.account = two.account]
<1>1. PICK prompted : prompted = Prepared(body, config)
  OBVIOUS
<1>2. prompted \in BodySet
  BY <1>1, PreparedIs
<1>3. PICK one2 : one2 = IF config.signature THEN a ELSE prompted.account
  OBVIOUS
<1>4. PICK two2 : two2 = IF config.signature THEN b ELSE prompted.account
  OBVIOUS
<1>6. PICK tools : tools = [i \in DOMAIN prompted.tools |-> ToWireToolName(prompted.tools[i])]
  OBVIOUS
<1>7. PICK messages : messages = PrefixToolUses(prompted.messages)
  OBVIOUS
<1>8. ~Refuses(body)
  BY TransformAs
<1>9. one = [prompted EXCEPT !.account = one2, !.tools = tools,
                             !.messages = messages]
  BY <1>1, <1>3, <1>6, <1>7, <1>8, TransformAs
<1>10. two = [prompted EXCEPT !.account = two2, !.tools = tools,
                              !.messages = messages]
  BY <1>1, <1>4, <1>6, <1>7, <1>8, TransformAs
<1>11. two = [one EXCEPT !.account = two2]
  BY <1>2, <1>9, <1>10 DEF BodySet
<1>12. two.account = two2
  BY <1>2, <1>10 DEF BodySet
<1> QED
  BY <1>11, <1>12
------------------------------------------------------------------------------
(***************************************************************************)
(* The invariant, in parts.                                                *)
(***************************************************************************)
CallSteps == {"idle", "new", "attempt", "sent", "streaming"}
SpokenUses == [id : UseIds, name : WireName]

ExchangeTypeOK ==
    /\ settings \in Settings
    /\ chat \in [turn : Nat, messages : Seq(MessageSet)]
    /\ call \in [step : CallSteps, attempt : Nat, retries : Nat,
                 original : BodySet \cup {Rejected}]
    /\ wire = [body |-> wire.body, token |-> wire.token, betas |-> wire.betas]
    /\ wire.body \in BodySet \cup {Rejected}
    /\ excluded \in Nat /\ faults \in Nat
    /\ spoken \subseteq SpokenUses
    /\ answer \in AnswerSet /\ stream \in StreamSet

\* The uses in messages are of what the API has said.
UsesSpoken(messages) ==
    \A b \in Blocks(messages) :
        b.kind = "tool_use" =>
            \E u \in spoken : u.id = b.id /\ b.name = ToInternalToolName(u.name)

\* OpenCode's messages have no marks, and each has something to mark.
Unmarkable(messages) ==
    \A i \in DOMAIN messages : messages[i].content # <<>> /\ Unmarked(messages[i].content)

ChatOK == UsesSpoken(chat.messages) /\ Unmarkable(chat.messages)

\* An answer has a turn of its own.
TurnsSpoken ==
    /\ \A u, v \in spoken : u.id = v.id => u = v
    /\ \A u \in spoken : u.id[1] <= chat.turn
    /\ call.step \in {"new", "attempt", "sent"} => \A u \in spoken : u.id[1] < chat.turn

\* What the request was made of.
OriginalOK ==
    call.step # "idle" =>
        /\ call.original \in BodySet
        /\ call.original.model = settings.model
        /\ ~call.original.effort
        /\ Cardinality(Marks(call.original.messages)) <= 2
        /\ UsesSpoken(call.original.messages)

\* An attempt is what became of the request, for some account.
AttemptOK ==
    /\ call.step \in {"sent", "streaming"} => call.attempt > 0
    /\ call.attempt > 0 =>
           \E account \in Account :
               /\ wire.body = TransformRequestBody(call.original, settings, account)
               /\ wire.token = account
               /\ wire.body # Rejected

WireOK ==
    wire.body # Rejected =>
        /\ wire.body \in BodySet
        /\ settings.signature => wire.body.account = wire.token
        /\ wire.body.model = settings.model
        /\ wire.body.effort => IsAdaptiveThinkingModel(settings.model)
        /\ \A n \in ToSet(wire.body.tools) : n \in WireName
        /\ \A b \in Blocks(wire.body.messages) :
               b.kind = "tool_use" =>
                   \E u \in spoken :
                       /\ u.id = b.id
                       /\ b.name = ToWireToolName(ToInternalToolName(u.name))
        /\ IdsOf(wire.body.messages, "tool_use") = IdsOf(wire.body.messages, "tool_result")
        /\ Cardinality(CachedIn(wire.body.system)) <= 1
        /\ Cardinality(Marks(wire.body.messages)) <= 3
        /\ \E n \in Nat : wire.betas = Header(wire.body, n)

\* The answer that is read: which of its events have names, and what was said.
AnswerOK ==
    /\ WellWritten(answer.text, answer.events)
    /\ call.step # "streaming" => Over
    /\ call.step = "streaming" /\ answer.ok =>
           \A i \in DOMAIN answer.events :
               LET e == answer.events[i]
               IN  IF e.type = "content_block_start" /\ e.block = "tool_use"
                   THEN \E u \in spoken :
                            u.id = <<chat.turn, e.index>> /\ u.name = e.name
                   ELSE e.name = NoName

\* What OpenCode has read and what is queued for it are the first events.
Passed(s) == Len(s.out) + Len(s.queue)
InOut(s) ==
    /\ Passed(s) <= Len(answer.events)
    /\ \A i \in DOMAIN s.out : s.out[i] = Renamed(answer.events[i])
    /\ \A i \in DOMAIN s.queue : s.queue[i] = Renamed(answer.events[Len(s.out) + i])

\* The server has sent them in full.
AllSent(s) == 1 .. Passed(s) \subseteq Whole(answer.text)

\* While a pull is pending OpenCode has nothing to read, unless the pull has
\* brought something.  Between two pulls it has, or blocks without data have
\* ended the pull.
PullOK(s) ==
    /\ s.again => s.pulling
    /\ s.waiting \/ s.pulling => s.queue = <<>>
    /\ ~s.pulling /\ s.queue = <<>> => s.barren >= IF s.waiting THEN 2 ELSE 1
    /\ s.pulling /\ s.waiting /\ ~s.again => s.barren >= 1

IsHalf(u) == u.kind = "half"
IsRest(u) == u.kind = "rest"
RestOf(i) == Unit("rest", i)

\* How the buffer continues what was taken of it: T is the text, r units of it
\* were read, n events were taken.
Adjacent(B) ==
    /\ \A k \in DOMAIN B : IsRest(B[k]) => k > 1 /\ B[k - 1] = Unit("half", B[k].event)
    /\ \A k \in DOMAIN B : IsHalf(B[k]) /\ k < Len(B) => B[k + 1] = RestOf(B[k].event)
    /\ \A k \in DOMAIN B : IsRest(B[k]) /\ k < Len(B) => B[k + 1] = LF
    /\ \A k \in DOMAIN B : IsRest(B[k]) /\ k + 1 < Len(B) => B[k + 2] = LF

Continues(B, T, r) ==
    /\ r \in 0 .. Len(T)
    /\ r > 0 /\ (IsHalf(T[r]) \/ IsRest(T[r])) => B # <<>> /\ B[Len(B)] = T[r]
    /\ B # <<>> /\ (IsHalf(B[Len(B)]) \/ IsRest(B[Len(B)])) => r > 0 /\ T[r] = B[Len(B)]
    /\ Len(B) > 1 /\ IsRest(B[Len(B) - 1]) /\ r < Len(T) => T[r + 1] \in {CR, LF}

Numbered(B, T, r, n) ==
    /\ \A k, l \in DOMAIN B : k < l /\ IsRest(B[k]) /\ IsRest(B[l]) => B[k].event < B[l].event
    /\ \A k \in DOMAIN B : IsRest(B[k]) => B[k].event > n /\ \E j \in 1 .. r : T[j] = B[k]
    /\ \A j \in 1 .. r : IsRest(T[j]) /\ T[j].event > n => \E k \in DOMAIN B : B[k] = T[j]
    /\ \A i \in 1 .. n : \E j \in 1 .. r : T[j] = RestOf(i)

\* Unprocessed: what is read and not yet processed may hold blank lines.
Linked(s) ==
    /\ Adjacent(s.buffer) /\ Continues(s.buffer, answer.text, s.read)
    /\ Numbered(s.buffer, answer.text, s.read, Passed(s))

\* The events of a type, among the first n, that tell of tokens, and what they
\* have told.
Telling(E, n, type) == {i \in 1 .. n : E[i].type = type /\ E[i].usage > 0}
ToldBy(E, n) ==
    IF Telling(E, n, "message_delta") # {}
    THEN E[LastOf(Telling(E, n, "message_delta"))].usage
    ELSE IF Telling(E, n, "message_start") # {}
    THEN E[FirstOf(Telling(E, n, "message_start"))].usage ELSE 0

\* The blocks that started among the first n events are open or have ended.
Closed(E, n, open) ==
    \A i \in 1 .. n :
        E[i].type = "content_block_start" =>
            \/ \E b \in open : b.index = E[i].index
            \/ \E j \in (i + 1) .. n :
                   \/ E[j].type = "message_stop"
                   \/ E[j].type = "content_block_stop" /\ E[j].index = E[i].index

\* The parser knows what the events taken have told.
Accounted(s) ==
    /\ s.stats = IF Strict THEN 0 ELSE ToldBy(answer.events, Passed(s))
    /\ Strict => Closed(answer.events, Passed(s), s.open)
    /\ s.stopped => \E i \in 1 .. Passed(s) : answer.events[i].type = "message_stop"

\* All that was sent was taken, and an answer that is read strictly is whole.
AllTaken(s) == Passed(s) = Len(Sent) /\ (Strict => IsWhole(Sent))

StreamOK(s) ==
    /\ InOut(s) /\ AllSent(s)
    /\ s.phase \in {"open", "failing"} => s.usage = 0
    /\ s.phase = "open" => PullOK(s) /\ Linked(s) /\ Accounted(s)
    /\ s.phase = "closing" => AllTaken(s)

ExchangeInv ==
    /\ ExchangeTypeOK /\ ChatOK /\ TurnsSpoken /\ OriginalOK /\ AttemptOK /\ WireOK
    /\ AnswerOK /\ StreamOK(stream)
------------------------------------------------------------------------------
(***************************************************************************)
(* The operators of the event stream, field by field.                      *)
(***************************************************************************)

\* The parser's side and OpenCode's side of the stream.
SameParser(t, s) ==
    /\ t.read = s.read /\ t.buffer = s.buffer /\ t.open = s.open /\ t.stopped = s.stopped
    /\ t.stats = s.stats /\ t.usage = s.usage
SameReader(t, s) ==
    /\ t.out = s.out /\ t.queue = s.queue /\ t.waiting = s.waiting
    /\ t.pulling = s.pulling /\ t.again = s.again

LEMMA StreamFields ==
    ASSUME NEW s \in StreamSet
    PROVE  /\ s.read \in Nat /\ s.buffer \in Seq(Units) /\ s.open \in SUBSET OpenBlock
           /\ s.stopped \in BOOLEAN /\ s.stats \in Nat /\ s.usage \in Nat
           /\ s.emitted \in BOOLEAN /\ s.phase \in Phases /\ s.pulling \in BOOLEAN
           /\ s.again \in BOOLEAN /\ s.waiting \in BOOLEAN /\ s.queue \in Seq(Events)
           /\ s.out \in Seq(Events) /\ s.barren \in Nat
BY DEF StreamSet

LEMMA CallPullIs ==
    ASSUME NEW s \in StreamSet, NEW t, t = CallPullIfNeeded(s)
    PROVE  /\ t \in StreamSet /\ SameParser(t, s)
           /\ t.out = s.out /\ t.queue = s.queue /\ t.waiting = s.waiting
           /\ t.emitted = s.emitted /\ t.phase = s.phase /\ t.barren = s.barren
           /\ t.pulling <=> s.pulling \/ ShouldPull(s)
           /\ t.again <=> s.again \/ (ShouldPull(s) /\ s.pulling)
<1>1. CASE ~ShouldPull(s)
  BY <1>1 DEF CallPullIfNeeded, SameParser
<1>2. CASE ShouldPull(s) /\ s.pulling
  <2>1. t = [s EXCEPT !.again = TRUE]
    BY <1>2 DEF CallPullIfNeeded
  <2> QED
    BY <1>2, <2>1 DEF SameParser, StreamSet
<1>3. CASE ShouldPull(s) /\ ~s.pulling
  <2>1. t = [s EXCEPT !.pulling = TRUE]
    BY <1>3 DEF CallPullIfNeeded
  <2> QED
    BY <1>3, <2>1 DEF SameParser, StreamSet
<1> QED
  BY <1>1, <1>2, <1>3

LEMMA PullDoneIs ==
    ASSUME NEW s \in StreamSet, NEW t, t = PullDone(s)
    PROVE  /\ t \in StreamSet /\ SameParser(t, s)
           /\ t.out = s.out /\ t.queue = s.queue /\ t.waiting = s.waiting
           /\ t.phase = s.phase /\ t.barren = s.barren
           /\ t.pulling <=> s.again /\ ShouldPull(s)
           /\ ~t.again
<1>1. PICK s1 : s1 = [s EXCEPT !.pulling = FALSE, !.again = FALSE, !.emitted = FALSE]
  OBVIOUS
<1>2. /\ s1 \in StreamSet /\ SameParser(s1, s)
      /\ s1.out = s.out /\ s1.queue = s.queue /\ s1.waiting = s.waiting
      /\ s1.phase = s.phase /\ s1.barren = s.barren /\ ~s1.pulling /\ ~s1.again
  BY <1>1 DEF SameParser, StreamSet
<1>3. ShouldPull(s1) <=> ShouldPull(s)
  BY <1>2 DEF ShouldPull
<1>4. t = IF s.again THEN CallPullIfNeeded(s1) ELSE s1
  BY <1>1 DEF PullDone
<1>5. CASE s.again
  <2>1. /\ t \in StreamSet /\ SameParser(t, s1)
        /\ t.out = s1.out /\ t.queue = s1.queue /\ t.waiting = s1.waiting
        /\ t.phase = s1.phase /\ t.barren = s1.barren
        /\ t.pulling <=> s1.pulling \/ ShouldPull(s1)
        /\ t.again <=> s1.again \/ (ShouldPull(s1) /\ s1.pulling)
    BY <1>2, <1>4, <1>5, CallPullIs
  <2> QED
    BY <1>2, <1>3, <1>5, <2>1 DEF SameParser
<1>6. CASE ~s.again
  BY <1>2, <1>4, <1>6
<1> QED
  BY <1>5, <1>6

\* OpenCode reads the event at once or finds it in the queue.
Handed(t, s, e) ==
    /\ ~t.waiting
    /\ s.waiting => t.out = Append(s.out, e) /\ t.queue = s.queue
    /\ ~s.waiting => t.out = s.out /\ t.queue = Append(s.queue, e)
    /\ t.pulling <=> s.pulling \/ (s.waiting /\ s.queue = <<>>)
    /\ t.again <=> s.again \/ (s.waiting /\ s.queue = <<>> /\ s.pulling)
    /\ t.barren = 0

LEMMA EnqueueIs ==
    ASSUME NEW s \in StreamSet, s.phase = "open", NEW e \in Events, NEW t, t = Enqueue(s, e)
    PROVE  /\ t \in StreamSet /\ SameParser(t, s) /\ Handed(t, s, e)
           /\ t.emitted = s.emitted /\ t.phase = "open"
<1>1. PICK s1 : s1 = [s EXCEPT !.barren = 0]
  OBVIOUS
<1>2. PICK s2 : s2 = IF s.waiting THEN [s1 EXCEPT !.out = Append(@, e), !.waiting = FALSE]
                     ELSE [s1 EXCEPT !.queue = Append(@, e)]
  OBVIOUS
<1>3. t = CallPullIfNeeded(s2)
  BY <1>1, <1>2 DEF Enqueue
<1>4. /\ s1 \in StreamSet /\ SameParser(s1, s) /\ SameReader(s1, s) /\ s1.barren = 0
      /\ s1.emitted = s.emitted /\ s1.phase = "open"
  BY <1>1 DEF StreamSet, SameParser, SameReader
<1>5. Append(s1.out, e) \in Seq(Events) /\ Append(s1.queue, e) \in Seq(Events)
  BY <1>4, StreamFields
<1>6. CASE s.waiting
  <2>1. PICK out : out = Append(s1.out, e)
    OBVIOUS
  <2>2. s2 = [s1 EXCEPT !.out = out, !.waiting = FALSE] /\ out \in Seq(Events)
    BY <1>2, <1>5, <1>6, <2>1
  <2>3. /\ s2 \in StreamSet /\ SameParser(s2, s1)
        /\ s2.out = out /\ s2.queue = s1.queue /\ ~s2.waiting
        /\ s2.pulling = s1.pulling /\ s2.again = s1.again /\ s2.barren = s1.barren
        /\ s2.emitted = s1.emitted /\ s2.phase = s1.phase
    BY <1>4, <2>2 DEF StreamSet, SameParser
  <2>4. ShouldPull(s2) <=> s.queue = <<>>
    BY <1>4, <2>3 DEF ShouldPull, SameReader
  <2>5. /\ t \in StreamSet /\ SameParser(t, s2)
        /\ t.out = s2.out /\ t.queue = s2.queue /\ t.waiting = s2.waiting
        /\ t.emitted = s2.emitted /\ t.phase = s2.phase /\ t.barren = s2.barren
        /\ t.pulling <=> s2.pulling \/ ShouldPull(s2)
        /\ t.again <=> s2.again \/ (ShouldPull(s2) /\ s2.pulling)
    BY <1>3, <2>3, CallPullIs
  <2>6. SameParser(t, s)
    BY <1>4, <2>3, <2>5 DEF SameParser
  <2>7. Handed(t, s, e)
    BY <1>4, <1>6, <2>1, <2>3, <2>4, <2>5 DEF Handed, SameReader
  <2> QED
    BY <1>4, <2>3, <2>5, <2>6, <2>7
<1>7. CASE ~s.waiting
  <2>1. PICK queue : queue = Append(s1.queue, e)
    OBVIOUS
  <2>2. s2 = [s1 EXCEPT !.queue = queue] /\ queue \in Seq(Events) /\ queue # <<>>
    BY <1>2, <1>4, <1>5, <1>7, <2>1, StreamFields
  <2>3. /\ s2 \in StreamSet /\ SameParser(s2, s1)
        /\ s2.out = s1.out /\ s2.queue = queue /\ s2.waiting = s1.waiting
        /\ s2.pulling = s1.pulling /\ s2.again = s1.again /\ s2.barren = s1.barren
        /\ s2.emitted = s1.emitted /\ s2.phase = s1.phase
    BY <1>4, <2>2 DEF StreamSet, SameParser
  <2>4. ~ShouldPull(s2)
    BY <1>4, <1>7, <2>2, <2>3 DEF ShouldPull, SameReader
  <2>5. /\ t \in StreamSet /\ SameParser(t, s2)
        /\ t.out = s2.out /\ t.queue = s2.queue /\ t.waiting = s2.waiting
        /\ t.emitted = s2.emitted /\ t.phase = s2.phase /\ t.barren = s2.barren
        /\ t.pulling <=> s2.pulling \/ ShouldPull(s2)
        /\ t.again <=> s2.again \/ (ShouldPull(s2) /\ s2.pulling)
    BY <1>3, <2>3, CallPullIs
  <2>6. SameParser(t, s)
    BY <1>4, <2>3, <2>5 DEF SameParser
  <2>7. Handed(t, s, e)
    BY <1>4, <1>7, <2>1, <2>3, <2>4, <2>5 DEF Handed, SameReader
  <2> QED
    BY <1>4, <2>3, <2>5, <2>6, <2>7
<1> QED
  BY <1>6, <1>7

LEMMA CloseStreamIs ==
    ASSUME NEW s \in StreamSet, NEW t, t = CloseStream(s)
    PROVE  /\ t \in StreamSet /\ SameParser(t, s) /\ t.out = s.out /\ t.queue = s.queue
           /\ t.phase = IF s.queue = <<>> THEN "closed" ELSE "closing"
<1>1. CASE s.queue = <<>>
  <2>1. t = [s EXCEPT !.phase = "closed", !.waiting = FALSE, !.pulling = FALSE,
                      !.again = FALSE]
    BY <1>1 DEF CloseStream
  <2> QED
    BY <1>1, <2>1, ZenonT(30) DEF StreamSet, SameParser, Phases
<1>2. CASE s.queue # <<>>
  <2>1. t = [s EXCEPT !.phase = "closing", !.pulling = FALSE, !.again = FALSE]
    BY <1>2 DEF CloseStream
  <2> QED
    BY <1>2, <2>1, ZenonT(30) DEF StreamSet, SameParser, Phases
<1> QED
  BY <1>1, <1>2
------------------------------------------------------------------------------
(***************************************************************************)
(* One event, one block, all the blocks of a buffer.                       *)
(***************************************************************************)
LEMMA RenamedIs ==
    ASSUME NEW e \in Events
    PROVE  /\ Renamed(e) \in Events /\ Renamed(e).type = e.type
           /\ Renamed(e).index = e.index /\ Renamed(e).usage = e.usage
           /\ Renamed(e).block = e.block
           /\ Renamed(e).name = IF e.name = NoName THEN e.name ELSE ToInternalToolName(e.name)
<1>1. CASE e.name = NoName
  BY <1>1 DEF Renamed
<1>2. CASE e.name # NoName
  <2>1. PICK name : name = ToInternalToolName(e.name)
    OBVIOUS
  <2>2. name \in ToolNames
    BY <2>1, InternalTyped DEF Events
  <2>3. Renamed(e) = [e EXCEPT !.name = name]
    BY <1>2, <2>1 DEF Renamed
  <2> QED
    BY <1>2, <2>1, <2>2, <2>3 DEF Events
<1> QED
  BY <1>1, <1>2

LEMMA StatsTyped ==
    ASSUME NEW n \in Nat, NEW e \in Events
    PROVE  Stats(n, e) \in Nat
BY DEF Stats, Events

LEMMA OpenedTyped ==
    ASSUME NEW open \in SUBSET OpenBlock, NEW e \in Events
    PROVE  Opened(open, e) \in SUBSET OpenBlock
<1>1. CASE e.type = "content_block_start"
  <2>1. [index |-> e.index, type |-> e.block, json |-> "none"] \in OpenBlock
    BY DEF OpenBlock, Events
  <2> QED
    BY <1>1, <2>1 DEF Opened
<1>2. CASE e.type = "content_block_delta"
  <2> DEFINE Extended(json) == CASE e.piece = "none" -> json
                                 [] json = "part" /\ e.piece = "rest" -> "whole"
                                 [] OTHER -> "part"
  <2>1. \A json \in {"none", "part", "whole"} : Extended(json) \in {"none", "part", "whole"}
    OBVIOUS
  <2> HIDE DEF Extended
  <2>2. \A b \in OpenBlock : [b EXCEPT !.json = Extended(@)] \in OpenBlock
    BY <2>1 DEF OpenBlock
  <2>3. Opened(open, e) =
            {b \in open : b.index # e.index} \cup
                {[b EXCEPT !.json = Extended(@)] : b \in open \ {b \in open : b.index # e.index}}
    BY <1>2 DEF Opened, Extended
  <2> QED
    BY <2>2, <2>3
<1>3. CASE e.type \notin {"content_block_start", "content_block_delta"}
  BY <1>3 DEF Opened
<1> QED
  BY <1>1, <1>2, <1>3

\* What the parser and OpenCode have of an event.
Processed(t, s, e) ==
    /\ t.read = s.read /\ t.buffer = s.buffer /\ t.usage = s.usage /\ t.emitted = s.emitted
    /\ t.stats = IF Strict THEN s.stats ELSE Stats(s.stats, e)
    /\ t.open = IF Strict THEN Opened(s.open, e) ELSE s.open
    /\ t.stopped <=> s.stopped \/ e.type = "message_stop"
    /\ Handed(t, s, Renamed(e))

LEMMA EventIs ==
    ASSUME NEW s \in StreamSet, s.phase = "open", NEW e \in Events,
           NEW t, t = EnqueueNormalizedEvent(s, e)
    PROVE  /\ t \in StreamSet /\ t.phase \in {"open", "failing"}
           /\ \/ t.phase = "failing" /\ SameReader(t, s) /\ t.usage = s.usage
              \/ Processed(t, s, e)
<1>1. CASE Strict /\ ~Fits(s.open, e)
  <2>1. t = [s EXCEPT !.phase = "failing"]
    BY <1>1 DEF EnqueueNormalizedEvent
  <2> QED
    BY <2>1 DEF StreamSet, Phases, SameReader
<1>2. CASE ~(Strict /\ ~Fits(s.open, e))
  <2>1. PICK stats : stats = IF Strict THEN s.stats ELSE Stats(s.stats, e)
    OBVIOUS
  <2>2. PICK open : open = IF Strict THEN Opened(s.open, e) ELSE s.open
    OBVIOUS
  <2>3. PICK stopped : stopped = (s.stopped \/ e.type = "message_stop")
    OBVIOUS
  <2>4. stats \in Nat /\ open \in SUBSET OpenBlock /\ stopped \in BOOLEAN
    BY <2>1, <2>2, <2>3, StatsTyped, OpenedTyped, StreamFields
  <2>5. PICK s1 : s1 = [s EXCEPT !.stats = stats, !.open = open, !.stopped = stopped]
    OBVIOUS
  <2>6. /\ s1 \in StreamSet /\ s1.phase = "open" /\ SameReader(s1, s)
        /\ s1.stats = stats /\ s1.open = open /\ s1.stopped = stopped
        /\ s1.read = s.read /\ s1.buffer = s.buffer /\ s1.usage = s.usage
        /\ s1.emitted = s.emitted
    BY <2>4, <2>5 DEF StreamSet, SameReader
  <2>7. s1 = [Told(s, e) EXCEPT !.open = IF Strict THEN Opened(@, e) ELSE @,
                                !.stopped = @ \/ e.type = "message_stop"]
    <3>1. Told(s, e) = [s EXCEPT !.stats = stats]
      BY <2>1 DEF Told
    <3> QED
      BY <2>2, <2>3, <2>5, <3>1 DEF StreamSet
  <2>8. PICK s2 : s2 = Enqueue(s1, Renamed(e))
    OBVIOUS
  <2>9. /\ s2 \in StreamSet /\ SameParser(s2, s1) /\ Handed(s2, s1, Renamed(e))
        /\ s2.emitted = s1.emitted /\ s2.phase = "open"
    BY <2>6, <2>8, RenamedIs, EnqueueIs
  <2>10. t = IF e.type = "error" /\ Strict THEN [s2 EXCEPT !.phase = "failing"] ELSE s2
    BY <1>2, <2>7, <2>8 DEF EnqueueNormalizedEvent
  <2>11. /\ t \in StreamSet /\ t.phase \in {"open", "failing"}
         /\ SameParser(t, s2) /\ SameReader(t, s2) /\ t.emitted = s2.emitted
         /\ t.barren = s2.barren
    BY <2>9, <2>10, ZenonT(30) DEF StreamSet, Phases, SameParser, SameReader
  <2>12. Handed(t, s, Renamed(e))
    BY <2>6, <2>9, <2>11 DEF Handed, SameReader
  <2>13. Processed(t, s, e)
    BY <2>1, <2>2, <2>3, <2>6, <2>9, <2>11, <2>12, ZenonT(30) DEF Processed, SameParser
  <2> QED
    BY <2>11, <2>13
<1> QED
  BY <1>1, <1>2

LEMMA ParsedIs ==
    ASSUME answer \in AnswerSet, NEW data, Parsed(data) # {}
    PROVE  /\ FirstOf(Parsed(data)) \in DOMAIN answer.events
           /\ data = {Unit("half", FirstOf(Parsed(data))), RestOf(FirstOf(Parsed(data)))}
<1>1. PICK i \in DOMAIN answer.events : data = {Unit("half", i), RestOf(i)}
  BY DEF Parsed, RestOf
<1>2. Parsed(data) = {i}
  <2>1. ASSUME NEW j \in Parsed(data) PROVE j = i
    <3>1. Unit("rest", j) \in data
      BY <2>1 DEF Parsed
    <3>2. Unit("rest", j) \in {Unit("half", i), Unit("rest", i)}
      BY <1>1, <3>1 DEF RestOf
    <3>3. Unit("rest", j).kind = "rest" /\ Unit("rest", j).event = j
          /\ Unit("half", i).kind = "half" /\ Unit("rest", i).event = i
      BY DEF Unit
    <3> QED
      BY <3>2, <3>3
  <2>2. i \in Parsed(data)
    BY <1>1 DEF Parsed, RestOf
  <2> QED
    BY <2>1, <2>2
<1>3. FirstOf({i}) = i
  <2>1. i \in Nat
    BY <1>1, SeqIs DEF AnswerSet
  <2> QED
    BY <2>1, OnlyOne
<1> QED
  BY <1>1, <1>2, <1>3

LEMMA BlockIs ==
    ASSUME answer \in AnswerSet, NEW s \in StreamSet, s.phase = "open",
           NEW block \in Seq(Units), NEW t, t = EnqueueBlock(s, block)
    PROVE  /\ t \in StreamSet /\ t.phase \in {"open", "failing"}
           /\ \/ /\ Payload(block) = {} /\ t.phase = "open" /\ t.barren = s.barren + 1
                 /\ SameParser(t, s) /\ SameReader(t, s) /\ t.emitted = s.emitted
              \/ t.phase = "failing" /\ SameReader(t, s) /\ t.usage = s.usage
              \/ \E i \in DOMAIN answer.events :
                     /\ Payload(block) = {Unit("half", i), RestOf(i)}
                     /\ Processed(t, s, answer.events[i])
<1>1. CASE Payload(block) = {}
  <2>1. PICK n : n = s.barren + 1
    OBVIOUS
  <2>2. t = [s EXCEPT !.barren = n]
    BY <1>1, <2>1 DEF EnqueueBlock
  <2>3. s.barren \in Nat /\ n \in Nat
    BY <2>1 DEF StreamSet
  <2>4. t \in StreamSet
    BY <2>2, <2>3 DEF StreamSet
  <2> QED
    BY <1>1, <2>1, <2>2, <2>4 DEF StreamSet, SameParser, SameReader
<1>2. CASE Payload(block) # {} /\ Parsed(Payload(block)) = {}
  <2>1. t = [s EXCEPT !.phase = "failing"]
    BY <1>2 DEF EnqueueBlock
  <2> QED
    BY <2>1 DEF StreamSet, SameReader, Phases
<1>3. CASE Payload(block) # {} /\ Parsed(Payload(block)) # {}
  <2>1. PICK i : i = FirstOf(Parsed(Payload(block)))
    OBVIOUS
  <2>2. i \in DOMAIN answer.events /\ Payload(block) = {Unit("half", i), RestOf(i)}
    BY <1>3, <2>1, ParsedIs
  <2>3. PICK e : e = answer.events[i]
    OBVIOUS
  <2>4. e \in Events
    BY <2>2, <2>3, SeqIs DEF AnswerSet
  <2>5. t = EnqueueNormalizedEvent(s, e)
    BY <1>3, <2>1, <2>3 DEF EnqueueBlock
  <2>6. /\ t \in StreamSet /\ t.phase \in {"open", "failing"}
        /\ \/ t.phase = "failing" /\ SameReader(t, s) /\ t.usage = s.usage
           \/ Processed(t, s, e)
    BY <2>4, <2>5, EventIs
  <2> QED
    BY <2>2, <2>3, <2>6
<1> QED
  BY <1>1, <1>2, <1>3

\* The numbers of the events in a buffer follow the number of those taken.
LEMMA NextNumber ==
    ASSUME NEW B \in Seq(Units), NEW T \in Seq(Units), NEW E, NEW r \in 0 .. Len(T),
           NEW n \in Nat, Numbered(B, T, r, n), WellWritten(T, E),
           NEW p \in DOMAIN B, IsRest(B[p]),
           \A k \in DOMAIN B : k < p /\ IsRest(B[k]) => B[k].event = B[p].event
    PROVE  B[p].event = n + 1
<1>1. PICK i : i = B[p].event
  OBVIOUS
<1>2. DOMAIN T = 1 .. Len(T) /\ Len(T) \in Nat /\ DOMAIN B \subseteq Nat
  BY SeqIs
<1>3. i \in Nat /\ i > n
  <2>1. B[p] \in Units /\ B[p].event > n
    BY SeqIs, Zenon DEF Numbered
  <2> QED
    BY <1>1, <2>1 DEF Units
<1>4. PICK j \in 1 .. r : T[j] = B[p]
  BY Zenon DEF Numbered
<1>5. j \in DOMAIN T
  BY <1>2
<1>6. SUFFICES ASSUME i > n + 1 PROVE FALSE
  BY <1>1, <1>3
<1>7. PICK m \in 1 .. (j - 1) : T[m] = Unit("rest", i - 1)
  BY <1>1, <1>3, <1>4, <1>5, <1>6, SMTT(30) DEF WellWritten, IsRest
<1>8. m \in 1 .. r /\ IsRest(T[m]) /\ T[m].event = i - 1 /\ T[m].event > n
  BY <1>3, <1>6, <1>7 DEF IsRest, Unit
<1>9. PICK k \in DOMAIN B : B[k] = T[m]
  BY <1>8, Zenon DEF Numbered
<1>10. B[k].event # B[p].event /\ IsRest(B[k])
  BY <1>1, <1>3, <1>8, <1>9
<1>11. k > p
  BY <1>2, <1>10
<1>12. B[p].event < B[k].event
  BY <1>10, <1>11 DEF Numbered
<1> QED
  BY <1>1, <1>3, <1>8, <1>9, <1>12

\* What is left of a text after its first units.
Cut(C, B, c) ==
    /\ C \in Seq(Units) /\ Len(C) = Len(B) - c /\ DOMAIN C = 1 .. (Len(B) - c)
    /\ \A k \in DOMAIN C : C[k] = B[c + k] /\ c + k \in DOMAIN B
    /\ \A k \in DOMAIN B : k > c => k - c \in DOMAIN C /\ B[k] = C[k - c]
    /\ Len(B) \in Nat /\ c \in 1 .. Len(B) /\ DOMAIN B = 1 .. Len(B)

LEMMA CutIs ==
    ASSUME NEW B \in Seq(Units), NEW c \in DOMAIN B, NEW C, C = SubSeq(B, c + 1, Len(B))
    PROVE  Cut(C, B, c)
<1>1. Len(B) \in Nat /\ c \in 1 .. Len(B) /\ DOMAIN B = 1 .. Len(B)
  OBVIOUS
<1>2. Len(C) = Len(B) - c /\ DOMAIN C = 1 .. (Len(B) - c) /\ C \in Seq(Units)
  BY <1>1
<1>3. \A k \in 1 .. (Len(B) - c) : C[k] = B[(c + 1) + k - 1]
  BY <1>1
<1>4. \A k \in 1 .. (Len(B) - c) : (c + 1) + k - 1 = c + k /\ c + k \in DOMAIN B
  BY <1>1
<1>5. \A k \in DOMAIN C : C[k] = B[c + k] /\ c + k \in DOMAIN B
  BY <1>2, <1>3, <1>4
<1>6. ASSUME NEW k \in DOMAIN B, k > c PROVE k - c \in DOMAIN C /\ B[k] = C[k - c]
  <2>1. k - c \in DOMAIN C /\ c + (k - c) = k
    BY <1>1, <1>2, <1>6
  <2> QED
    BY <1>5, <2>1
<1> QED
  BY <1>1, <1>2, <1>5, <1>6 DEF Cut

LEMMA LineFeeds == LF \in Units /\ CR \in Units /\ ~IsRest(LF) /\ ~IsHalf(LF) /\ LF # CR
                   /\ ~IsRest(CR) /\ ~IsHalf(CR)
BY DEF LF, CR, Unit, Units, IsRest, IsHalf

LEMMA CutAdjacent ==
    ASSUME NEW B \in Seq(Units), NEW c \in DOMAIN B, B[c] = LF, Adjacent(B),
           NEW C, C = SubSeq(B, c + 1, Len(B))
    PROVE  Adjacent(C)
<1>1. /\ C \in Seq(Units) /\ Len(C) = Len(B) - c /\ DOMAIN C = 1 .. (Len(B) - c)
      /\ \A k \in DOMAIN C : C[k] = B[c + k] /\ c + k \in DOMAIN B
      /\ Len(B) \in Nat /\ c \in 1 .. Len(B) /\ DOMAIN B = 1 .. Len(B)
  BY CutIs, SMTT(30) DEF Cut
<1>2. ASSUME NEW k \in DOMAIN C, IsRest(C[k])
      PROVE  k > 1 /\ C[k - 1] = Unit("half", C[k].event)
  <2>1. c + k \in DOMAIN B /\ IsRest(B[c + k]) /\ C[k] = B[c + k]
    BY <1>1, <1>2
  <2>2. B[(c + k) - 1] = Unit("half", B[c + k].event)
    BY <2>1 DEF Adjacent
  <2>3. k # 1
    <3>1. SUFFICES ASSUME k = 1 PROVE FALSE
      OBVIOUS
    <3>2. LF = Unit("half", B[c + k].event)
      BY <1>1, <2>2, <3>1
    <3> QED
      BY <3>2 DEF LF, Unit
  <2>4. k - 1 \in DOMAIN C /\ C[k - 1] = B[(c + k) - 1]
    <3>1. k - 1 \in DOMAIN C /\ c + (k - 1) = (c + k) - 1
      BY <1>1, <2>3, SMTT(30)
    <3> QED
      BY <1>1, <3>1
  <2>5. k > 1
    BY <1>1, <2>3
  <2> QED
    BY <2>1, <2>2, <2>4, <2>5
<1>3. ASSUME NEW k \in DOMAIN C, IsHalf(C[k]), k < Len(C)
      PROVE  C[k + 1] = RestOf(C[k].event)
  <2>1. c + k \in DOMAIN B /\ IsHalf(B[c + k]) /\ C[k] = B[c + k] /\ c + k < Len(B)
    BY <1>1, <1>3
  <2>2. B[(c + k) + 1] = RestOf(B[c + k].event)
    BY <2>1 DEF Adjacent
  <2>3. k + 1 \in DOMAIN C /\ C[k + 1] = B[(c + k) + 1]
    <3>1. k + 1 \in DOMAIN C /\ c + (k + 1) = (c + k) + 1
      BY <1>1, <1>3, SMTT(30)
    <3> QED
      BY <1>1, <3>1
  <2> QED
    BY <2>1, <2>2, <2>3
<1>4. ASSUME NEW k \in DOMAIN C, IsRest(C[k]), k < Len(C)
      PROVE  C[k + 1] = LF
  <2>1. c + k \in DOMAIN B /\ IsRest(B[c + k]) /\ c + k < Len(B)
    BY <1>1, <1>4
  <2>2. B[(c + k) + 1] = LF
    BY <2>1 DEF Adjacent
  <2>3. k + 1 \in DOMAIN C /\ C[k + 1] = B[(c + k) + 1]
    <3>1. k + 1 \in DOMAIN C /\ c + (k + 1) = (c + k) + 1
      BY <1>1, <1>4, SMTT(30)
    <3> QED
      BY <1>1, <3>1
  <2> QED
    BY <2>2, <2>3
<1>5. ASSUME NEW k \in DOMAIN C, IsRest(C[k]), k + 1 < Len(C)
      PROVE  C[k + 2] = LF
  <2>1. c + k \in DOMAIN B /\ IsRest(B[c + k]) /\ (c + k) + 1 < Len(B)
    BY <1>1, <1>5
  <2>2. B[(c + k) + 2] = LF
    BY <2>1 DEF Adjacent
  <2>3. k + 2 \in DOMAIN C /\ C[k + 2] = B[(c + k) + 2]
    <3>4. Len(C) \in Nat /\ DOMAIN C = 1 .. Len(C)
      BY <1>1
    <3>1. k \in Nat /\ Len(C) \in Nat /\ k + 1 < Len(C) /\ DOMAIN C = 1 .. Len(C) /\ c \in Nat
      BY <1>5, <3>4, SMTT(30)
    <3>2. k + 2 \in 1 .. Len(C)
      BY <3>1, SMTT(30)
    <3>3. c + (k + 2) = (c + k) + 2
      BY <3>1
    <3> QED
      BY <1>1, <3>1, <3>2, <3>3
  <2> QED
    BY <2>2, <2>3
<1> QED
  BY <1>2, <1>3, <1>4, <1>5, Zenon DEF Adjacent

LEMMA CutContinues ==
    ASSUME NEW B \in Seq(Units), NEW c \in DOMAIN B, B[c] = LF,
           NEW T, NEW r, Continues(B, T, r),
           NEW C, C = SubSeq(B, c + 1, Len(B))
    PROVE  Continues(C, T, r)
<1>1. /\ C \in Seq(Units) /\ Len(C) = Len(B) - c /\ DOMAIN C = 1 .. (Len(B) - c)
      /\ \A k \in DOMAIN C : C[k] = B[c + k] /\ c + k \in DOMAIN B
      /\ Len(B) \in Nat /\ c \in 1 .. Len(B) /\ DOMAIN B = 1 .. Len(B)
  BY CutIs DEF Cut
<1>2. Len(C) # 0 => C # <<>> /\ C[Len(C)] = B[Len(B)] /\ B # <<>>
  BY <1>1, SMTT(30)
<1>3. Len(C) = 0 => B[Len(B)] = LF
  BY <1>1
<1>4. Len(C) > 1 => C[Len(C) - 1] = B[Len(B) - 1] /\ Len(B) > 1
  BY <1>1, SMTT(30)
<1>5. C # <<>> => Len(C) # 0
  BY <1>1
<1>6. r > 0 /\ (IsHalf(T[r]) \/ IsRest(T[r])) => C # <<>> /\ C[Len(C)] = T[r]
  <2>1. SUFFICES ASSUME r > 0, IsHalf(T[r]) \/ IsRest(T[r])
                 PROVE  C # <<>> /\ C[Len(C)] = T[r]
    OBVIOUS
  <2>2. B[Len(B)] = T[r]
    BY <2>1 DEF Continues
  <2>3. Len(C) # 0
    BY <1>3, <2>1, <2>2, LineFeeds
  <2> QED
    BY <1>2, <2>2, <2>3
<1>7. C # <<>> /\ (IsHalf(C[Len(C)]) \/ IsRest(C[Len(C)])) => r > 0 /\ T[r] = C[Len(C)]
  BY <1>2, <1>5 DEF Continues
<1>8. Len(C) > 1 /\ IsRest(C[Len(C) - 1]) /\ r < Len(T) => T[r + 1] \in {CR, LF}
  BY <1>4 DEF Continues
<1> QED
  BY <1>6, <1>7, <1>8, Zenon DEF Continues

\* The data of an event is the last thing in the first block of a buffer.
LEMMA FirstBlock ==
    ASSUME NEW B \in Seq(Units), Adjacent(B), Boundaries(B) # {},
           NEW c, c = FirstOf(Boundaries(B))
    PROVE  /\ c \in DOMAIN B /\ c > 1 /\ B[c] = LF /\ B[c - 1] = LF
           /\ \A j \in DOMAIN B : j <= c /\ IsRest(B[j]) => j = c - 2
<1>1. DOMAIN B = 1 .. Len(B) /\ Len(B) \in Nat
  OBVIOUS
<1>2. Boundaries(B) \subseteq Nat
  BY <1>1 DEF Boundaries
<1>3. c \in Boundaries(B) /\ \A j \in Boundaries(B) : c <= j
  BY <1>2, FirstOfIs
<1>4. c \in 2 .. Len(B) /\ B[c - 1] = LF /\ B[c] = LF
  BY <1>3 DEF Boundaries
<1>5. ASSUME NEW j \in DOMAIN B, j <= c, IsRest(B[j]) PROVE j = c - 2
  <2>1. j # c /\ j # c - 1
    BY <1>4, <1>5, LineFeeds
  <2>2. j < Len(B) /\ j + 1 < Len(B)
    BY <1>1, <1>4, <1>5, <2>1
  <2>3. B[j + 1] = LF /\ B[j + 2] = LF
    BY <1>5, <2>2 DEF Adjacent
  <2>4. j + 2 \in 2 .. Len(B) /\ (j + 2) - 1 = j + 1
    BY <1>1, <2>2
  <2>5. j + 2 \in Boundaries(B)
    BY <2>3, <2>4 DEF Boundaries
  <2>6. c <= j + 2
    BY <1>3, <2>5
  <2> QED
    BY <1>1, <1>4, <1>5, <2>1, <2>6
<1> QED
  BY <1>1, <1>4, <1>5

\* Of the first c units of a buffer m events are taken, n of them before.
TakenUpTo(B, c, n, m) ==
    /\ m \in {n, n + 1}
    /\ \A k \in DOMAIN B : k <= c /\ IsRest(B[k]) => B[k].event = m /\ m = n + 1
    /\ m = n + 1 => \E k \in DOMAIN B : k <= c /\ B[k] = RestOf(m)

\* A block without data is taken, or the data of the next event.
LEMMA CutNumbered ==
    ASSUME NEW B \in Seq(Units), NEW c \in DOMAIN B, NEW T \in Seq(Units), NEW n \in Nat,
           NEW r \in 0 .. Len(T), NEW m, Numbered(B, T, r, n), TakenUpTo(B, c, n, m),
           NEW C, C = SubSeq(B, c + 1, Len(B))
    PROVE  Numbered(C, T, r, m)
<1>c. Cut(C, B, c)
  BY CutIs, Zenon
<1>1. /\ C \in Seq(Units) /\ Len(C) = Len(B) - c /\ DOMAIN C = 1 .. (Len(B) - c)
      /\ \A k \in DOMAIN C : C[k] = B[c + k] /\ c + k \in DOMAIN B
      /\ \A k \in DOMAIN B : k > c => k - c \in DOMAIN C /\ B[k] = C[k - c]
      /\ Len(B) \in Nat /\ c \in 1 .. Len(B) /\ DOMAIN B = 1 .. Len(B)
  BY <1>c DEF Cut
<1>u. /\ m \in {n, n + 1}
      /\ \A k \in DOMAIN B : k <= c /\ IsRest(B[k]) => B[k].event = m /\ m = n + 1
      /\ m = n + 1 => \E k \in DOMAIN B : k <= c /\ B[k] = RestOf(m)
  BY DEF TakenUpTo
<1>2. ASSUME NEW k \in DOMAIN C, NEW l \in DOMAIN C, k < l, IsRest(C[k]), IsRest(C[l])
      PROVE  C[k].event < C[l].event
  <2>1. c + k \in DOMAIN B /\ c + l \in DOMAIN B /\ C[k] = B[c + k] /\ C[l] = B[c + l]
    BY <1>1
  <2>2. c + k < c + l
    BY <1>1, <1>2
  <2> QED
    BY <1>2, <2>1, <2>2 DEF Numbered
<1>3. ASSUME NEW k \in DOMAIN C, IsRest(C[k])
      PROVE  C[k].event > m /\ \E j \in 1 .. r : T[j] = C[k]
  <2>1. c + k \in DOMAIN B /\ C[k] = B[c + k]
    BY <1>1
  <2>2. C[k].event > n /\ \E j \in 1 .. r : T[j] = C[k]
    BY <1>3, <2>1, Zenon DEF Numbered
  <2>3. CASE m = n
    BY <2>2, <2>3
  <2>4. CASE m = n + 1
    <3>1. PICK p \in DOMAIN B : p <= c /\ B[p] = RestOf(m)
      BY <1>u, <2>4
    <3>2. IsRest(B[p]) /\ B[p].event = m
      BY <3>1 DEF IsRest, RestOf, Unit
    <3>3. p < c + k
      BY <1>1, <3>1, SMTT(30)
    <3>4. B[p].event < B[c + k].event
      BY <1>3, <2>1, <3>2, <3>3 DEF Numbered
    <3>5. C[k].event \in Nat
      <4>1. C[k] \in Units
        BY <1>1, SeqIs, Zenon
      <4> QED
        BY <4>1 DEF Units
    <3> QED
      BY <2>1, <2>2, <3>2, <3>4, <3>5
  <2> QED
    BY <1>u, <2>3, <2>4
<1>4. ASSUME NEW j \in 1 .. r, IsRest(T[j]), T[j].event > m
      PROVE  \E k \in DOMAIN C : C[k] = T[j]
  <2>1. T[j].event > n
    <3>1. j \in DOMAIN T
      OBVIOUS
    <3>2. T[j] \in Units
      BY <3>1, SeqIs, Zenon
    <3>3. T[j].event \in Nat
      BY <3>2 DEF Units
    <3> QED
      BY <1>u, <1>4, <3>3
  <2>2. PICK k \in DOMAIN B : B[k] = T[j]
    BY <1>4, <2>1, Zenon DEF Numbered
  <2>3. k > c
    <3>1. SUFFICES ASSUME k <= c PROVE FALSE
      BY <1>1
    <3>2. T[j].event = m /\ m \in Nat
      BY <1>u, <1>4, <2>2, <3>1
    <3> QED
      BY <1>4, <3>2
  <2> QED
    BY <1>1, <2>2, <2>3, SMTT(30)
<1>5. ASSUME NEW i \in 1 .. m PROVE \E j \in 1 .. r : T[j] = RestOf(i)
  <2>1. CASE i \in 1 .. n
    BY <2>1, Zenon DEF Numbered
  <2>2. CASE i = m /\ m = n + 1
    <3>1. PICK k \in DOMAIN B : k <= c /\ B[k] = RestOf(m)
      BY <1>u, <2>2
    <3>2. IsRest(B[k])
      BY <3>1 DEF IsRest, RestOf, Unit
    <3>3. \E j \in 1 .. r : T[j] = B[k]
      BY <3>2, Zenon DEF Numbered
    <3> QED
      BY <2>2, <3>1, <3>3
  <2> QED
    BY <1>u, <2>1, <2>2
<1> QED
  BY <1>2, <1>3, <1>4, <1>5, Zenon DEF Numbered
------------------------------------------------------------------------------
(***************************************************************************)
(* What the events taken have told of.                                     *)
(***************************************************************************)
LEMMA LastOfIs ==
    ASSUME NEW n \in Nat, NEW S, S \subseteq 0 .. n, S # {}
    PROVE  LastOf(S) \in S /\ \A j \in S : j <= LastOf(S)
<1> DEFINE D == {d \in 0 .. n : n - d \in S}
<1>1. D \subseteq Nat /\ D # {}
  <2>1. PICK i \in S : TRUE
    OBVIOUS
  <2>2. n - i \in 0 .. n /\ n - (n - i) = i
    BY <2>1
  <2>3. n - i \in D /\ D \subseteq Nat
    BY <2>1, <2>2
  <2> HIDE DEF D
  <2> QED
    BY <2>3
<1>2. PICK d \in D : \A j \in D : d <= j
  BY <1>1, LeastNat
<1>3. n - d \in S
  BY <1>2
<1>4. ASSUME NEW j \in S PROVE j <= n - d
  <2>1. n - j \in 0 .. n /\ n - (n - j) = j /\ j \in 0 .. n
    BY <1>4
  <2>2. n - j \in D
    BY <1>4, <2>1
  <2>3. d <= n - j /\ d \in 0 .. n
    BY <1>2, <2>2
  <2> QED
    BY <2>1, <2>3
<1> HIDE DEF D
<1>5. \E i \in S : \A j \in S : j <= i
  BY <1>3, <1>4
<1> QED
  BY <1>5 DEF LastOf

LEMMA LastNow ==
    ASSUME NEW n \in Nat, NEW S, S \subseteq 0 .. n, NEW T, T = S \cup {n + 1}
    PROVE  LastOf(T) = n + 1
<1>1. PICK m \in Nat : m = n + 1
  OBVIOUS
<1>2. T \subseteq 0 .. m /\ T # {} /\ n + 1 \in T
  BY <1>1
<1>4. LastOf(T) \in T /\ \A j \in T : j <= LastOf(T)
  BY <1>2, LastOfIs, Zenon
<1>3. n + 1 <= LastOf(T) /\ LastOf(T) \in 0 .. (n + 1)
  BY <1>1, <1>2, <1>4
<1> QED
  BY <1>3

LEMMA FirstStill ==
    ASSUME NEW n \in Nat, NEW S, S \subseteq 0 .. n, S # {}, NEW T, T = S \cup {n + 1}
    PROVE  FirstOf(T) = FirstOf(S)
<1>1. S \subseteq Nat /\ T \subseteq Nat /\ T # {}
  OBVIOUS
<1>2. FirstOf(S) \in S /\ (\A j \in S : FirstOf(S) <= j)
  BY <1>1, FirstOfIs
<1>3. FirstOf(T) \in T /\ (\A j \in T : FirstOf(T) <= j)
  BY <1>1, FirstOfIs
<1>4. FirstOf(T) <= FirstOf(S) /\ FirstOf(S) \in 0 .. n
  BY <1>2, <1>3
<1>5. FirstOf(T) \in S
  BY <1>1, <1>3, <1>4
<1>6. FirstOf(S) <= FirstOf(T)
  BY <1>2, <1>5
<1>7. FirstOf(T) \in 0 .. n
  BY <1>5
<1> QED
  BY <1>4, <1>6, <1>7

LEMMA UsageToldIs ==
    ASSUME NEW E \in Seq(Events), NEW n \in 0 .. Len(E), NEW P, DOMAIN P = 1 .. n,
           \A i \in 1 .. n : P[i].type = E[i].type /\ P[i].usage = E[i].usage
    PROVE  UsageTold(P) = ToldBy(E, n)
<1>3. \A type : {i \in DOMAIN P : P[i].type = type /\ P[i].usage > 0} = Telling(E, n, type)
  BY DEF Telling
<1>4. \A type : Telling(E, n, type) \subseteq 1 .. n
  BY DEF Telling
<1>5. \A type : Telling(E, n, type) # {} =>
          /\ LastOf(Telling(E, n, type)) \in 1 .. n
          /\ FirstOf(Telling(E, n, type)) \in 1 .. n
  <2>1. SUFFICES ASSUME NEW type, Telling(E, n, type) # {}
                 PROVE  /\ LastOf(Telling(E, n, type)) \in 1 .. n
                        /\ FirstOf(Telling(E, n, type)) \in 1 .. n
    OBVIOUS
  <2>2. PICK S : S = Telling(E, n, type)
    OBVIOUS
  <2>3. S \subseteq 1 .. n /\ S \subseteq 0 .. n /\ S \subseteq Nat /\ S # {}
    BY <1>4, <2>1, <2>2
  <2> QED
    BY <2>2, <2>3, LastOfIs, FirstOfIs
<1>6. UsageTold(P) =
          IF Telling(E, n, "message_delta") # {}
          THEN P[LastOf(Telling(E, n, "message_delta"))].usage
          ELSE IF Telling(E, n, "message_start") # {}
          THEN P[FirstOf(Telling(E, n, "message_start"))].usage ELSE 0
  BY <1>3, Zenon DEF UsageTold
<1> QED
  BY <1>5, <1>6 DEF ToldBy

LEMMA NextTold ==
    ASSUME NEW E \in Seq(Events), NEW n \in Nat, n + 1 \in DOMAIN E
    PROVE  ToldBy(E, n + 1) = Stats(ToldBy(E, n), E[n + 1])
<1>1. PICK e : e = E[n + 1]
  OBVIOUS
<1>2. e \in Events /\ e.usage \in Nat
  <2>1. e \in Events
    BY <1>1, SeqIs, Zenon
  <2> QED
    BY <2>1 DEF Events
<1> DEFINE D == Telling(E, n, "message_delta")
           D1 == Telling(E, n + 1, "message_delta")
           S == Telling(E, n, "message_start")
           S1 == Telling(E, n + 1, "message_start")
<1>3. \A i \in 1 .. (n + 1) : i \in 1 .. n \/ i = n + 1
  OBVIOUS
<1>4. /\ D1 = IF e.type = "message_delta" /\ e.usage > 0 THEN D \cup {n + 1} ELSE D
      /\ S1 = IF e.type = "message_start" /\ e.usage > 0 THEN S \cup {n + 1} ELSE S
  BY <1>1, <1>3 DEF Telling
<1>5. D \subseteq 0 .. n /\ S \subseteq 0 .. n
  BY DEF Telling
<1>6. \A i \in D \cup S : E[i].usage > 0
  BY DEF Telling
<1> HIDE DEF D, D1, S, S1
<1>7. ToldBy(E, n) = IF D # {} THEN E[LastOf(D)].usage
                     ELSE IF S # {} THEN E[FirstOf(S)].usage ELSE 0
  BY DEF ToldBy, D, S
<1>8. ToldBy(E, n + 1) = IF D1 # {} THEN E[LastOf(D1)].usage
                         ELSE IF S1 # {} THEN E[FirstOf(S1)].usage ELSE 0
  BY DEF ToldBy, D1, S1
<1>9. D # {} => E[LastOf(D)].usage > 0
  BY <1>5, <1>6, LastOfIs
<1>10. S # {} => E[FirstOf(S)].usage > 0
  <2>1. S \subseteq Nat
    BY <1>5
  <2> QED
    BY <1>6, <2>1, FirstOfIs
<1>11. CASE e.type = "message_delta" /\ e.usage > 0
  <2>1. D1 = D \cup {n + 1}
    BY <1>4, <1>11
  <2>2. LastOf(D1) = n + 1 /\ D1 # {}
    BY <1>5, <2>1, LastNow
  <2>3. ToldBy(E, n + 1) = e.usage
    BY <1>1, <1>8, <2>2
  <2> QED
    BY <1>1, <1>11, <2>3 DEF Stats
<1>12. CASE e.type = "message_start"
  <2>1. D1 = D
    BY <1>4, <1>12
  <2>2. CASE D # {} \/ S # {}
    <3>1. ToldBy(E, n) # 0
      BY <1>7, <1>9, <1>10, <2>2
    <3>2. S # {} => S1 # {} /\ FirstOf(S1) = FirstOf(S)
      BY <1>4, <1>5, FirstStill
    <3>3. ToldBy(E, n + 1) = ToldBy(E, n)
      BY <1>7, <1>8, <2>1, <2>2, <3>2
    <3> QED
      BY <1>1, <1>12, <3>1, <3>3 DEF Stats
  <2>3. CASE D = {} /\ S = {}
    <3>1. ToldBy(E, n) = 0
      BY <1>7, <2>3
    <3>2. CASE e.usage > 0
      <4>1. S1 = {n + 1}
        BY <1>4, <1>12, <2>3, <3>2
      <4>2. FirstOf(S1) = n + 1
        BY <4>1, OnlyOne
      <4> QED
        BY <1>1, <1>8, <1>12, <2>1, <2>3, <3>1, <4>1, <4>2 DEF Stats
    <3>3. CASE e.usage = 0
      <4>1. S1 = {}
        BY <1>4, <2>3, <3>3
      <4> QED
        BY <1>1, <1>8, <1>12, <2>1, <2>3, <3>1, <3>3, <4>1 DEF Stats
    <3> QED
      BY <1>2, <3>2, <3>3
  <2> QED
    BY <2>2, <2>3
<1>13. CASE ~(e.type = "message_delta" /\ e.usage > 0) /\ e.type # "message_start"
  <2>1. D1 = D /\ S1 = S
    BY <1>4, <1>13
  <2> QED
    BY <1>1, <1>7, <1>8, <1>13, <2>1 DEF Stats
<1> QED
  BY <1>11, <1>12, <1>13

LEMMA NextClosed ==
    ASSUME NEW E \in Seq(Events), NEW n \in Nat, n + 1 \in DOMAIN E,
           NEW open \in SUBSET OpenBlock, Closed(E, n, open)
    PROVE  Closed(E, n + 1, Opened(open, E[n + 1]))
<1>1. PICK e : e = E[n + 1]
  OBVIOUS
<1>2. PICK new : new = Opened(open, e)
  OBVIOUS
<1>3. SUFFICES ASSUME NEW i \in 1 .. (n + 1), E[i].type = "content_block_start"
               PROVE  \/ \E b \in new : b.index = E[i].index
                      \/ \E j \in (i + 1) .. (n + 1) :
                             \/ E[j].type = "message_stop"
                             \/ E[j].type = "content_block_stop" /\ E[j].index = E[i].index
  BY <1>1, <1>2, Zenon DEF Closed
<1>4. CASE i = n + 1
  <2>1. e.type = "content_block_start"
    BY <1>1, <1>3, <1>4
  <2>2. [index |-> e.index, type |-> e.block, json |-> "none"] \in new
    BY <1>2, <2>1 DEF Opened
  <2> QED
    BY <1>1, <1>4, <2>2
<1>5. CASE i \in 1 .. n
  <2>1. CASE \E j \in (i + 1) .. n :
                 \/ E[j].type = "message_stop"
                 \/ E[j].type = "content_block_stop" /\ E[j].index = E[i].index
    <3>1. \A j \in (i + 1) .. n : j \in (i + 1) .. (n + 1)
      OBVIOUS
    <3> QED
      BY <2>1, <3>1
  <2>2. CASE \E b \in open : b.index = E[i].index
    <3>1. PICK b \in open : b.index = E[i].index
      BY <2>2
    <3>2. n + 1 \in (i + 1) .. (n + 1)
      BY <1>5
    <3>3. CASE e.type = "message_stop"
      BY <1>1, <3>2, <3>3
    <3>4. CASE e.type = "content_block_stop"
      <4>1. CASE b.index = e.index
        BY <1>1, <3>1, <3>2, <3>4, <4>1
      <4>2. CASE b.index # e.index
        <5>1. b \in new
          BY <1>2, <3>4, <4>2 DEF Opened
        <5> QED
          BY <3>1, <5>1
      <4> QED
        BY <4>1, <4>2
    <3>5. CASE e.type = "content_block_start"
      <4>1. b \in new
        BY <1>2, <3>5 DEF Opened
      <4> QED
        BY <3>1, <4>1
    <3>6. CASE e.type = "content_block_delta"
      <4> DEFINE Extended(json) == CASE e.piece = "none" -> json
                                     [] json = "part" /\ e.piece = "rest" -> "whole"
                                     [] OTHER -> "part"
                 others == {c \in open : c.index # e.index}
      <4>1. new = others \cup {[c EXCEPT !.json = Extended(@)] : c \in open \ others}
        BY <1>2, <3>6 DEF Opened
      <4>2. b \in OpenBlock
        OBVIOUS
      <4> HIDE DEF Extended, others
      <4>3. CASE b \in others
        BY <3>1, <4>1, <4>3
      <4>4. CASE b \notin others
        <5>1. PICK json : json = Extended(b.json)
          OBVIOUS
        <5>2. [b EXCEPT !.json = json] \in new
          BY <4>1, <4>4, <5>1
        <5>3. [b EXCEPT !.json = json].index = b.index
          BY <4>2 DEF OpenBlock
        <5> QED
          BY <3>1, <5>2, <5>3
      <4> QED
        BY <4>3, <4>4
    <3>7. CASE e.type \notin {"message_stop", "content_block_stop", "content_block_start",
                              "content_block_delta"}
      <4>1. new = open
        BY <1>2, <3>7 DEF Opened
      <4> QED
        BY <3>1, <4>1
    <3> QED
      BY <3>3, <3>4, <3>5, <3>6, <3>7
  <2> QED
    BY <1>3, <1>5, <2>1, <2>2 DEF Closed
<1> QED
  BY <1>4, <1>5
------------------------------------------------------------------------------
(***************************************************************************)
(* A round of the loop.                                                    *)
(***************************************************************************)

\* A pull has brought an event, or at most blocks without data.
Pulled(s) ==
    /\ s.pulling
    /\ s.waiting => s.queue = <<>>
    /\ \/ s.emitted /\ ~s.waiting /\ (s.queue # <<>> \/ s.again)
       \/ /\ s.queue = <<>>
          /\ s.waiting /\ ~s.again => s.barren >= 1
          /\ s.emitted => s.barren >= IF s.waiting /\ ~s.again THEN 2 ELSE 1

Ongoing(s) ==
    /\ s \in StreamSet /\ s.phase \in {"open", "failing"} /\ InOut(s) /\ AllSent(s)
    /\ s.usage = 0
    /\ s.phase = "open" => Linked(s) /\ Accounted(s) /\ Pulled(s)

LEMMA PassedTyped ==
    ASSUME NEW s \in StreamSet
    PROVE  Passed(s) \in Nat /\ Len(s.out) \in Nat /\ Len(s.queue) \in Nat
<1>1. s.out \in Seq(Events) /\ s.queue \in Seq(Events)
  BY StreamFields
<1>2. Len(s.out) \in Nat /\ Len(s.queue) \in Nat
  BY <1>1
<1>3. PICK a \in Nat, b \in Nat : a = Len(s.out) /\ b = Len(s.queue)
  BY <1>2
<1>4. Passed(s) = a + b
  BY <1>3 DEF Passed
<1> QED
  BY <1>2, <1>4

LEMMA SamePassed ==
    ASSUME NEW s, NEW t, SameReader(t, s)
    PROVE  Passed(t) = Passed(s) /\ (InOut(s) => InOut(t))
BY DEF SameReader, Passed, InOut

LEMMA Appended ==
    ASSUME NEW R, NEW seq \in Seq(R), NEW x \in R, NEW new, new = Append(seq, x)
    PROVE  /\ new \in Seq(R) /\ new # <<>> /\ Len(new) = Len(seq) + 1 /\ Len(seq) \in Nat
           /\ DOMAIN new = 1 .. (Len(seq) + 1) /\ DOMAIN seq = 1 .. Len(seq)
           /\ \A k \in DOMAIN seq : k \in DOMAIN new /\ new[k] = seq[k]
           /\ new[Len(seq) + 1] = x
OBVIOUS

LEMMA OneMore ==
    ASSUME answer \in AnswerSet, NEW s \in StreamSet, NEW t \in StreamSet, InOut(s),
           s.waiting => s.queue = <<>>,
           Passed(s) + 1 \in DOMAIN answer.events,
           Handed(t, s, Renamed(answer.events[Passed(s) + 1]))
    PROVE  InOut(t) /\ Passed(t) = Passed(s) + 1
<1>1. PICK e : e = Renamed(answer.events[Passed(s) + 1])
  OBVIOUS
<1>2. e \in Events
  <2>1. answer.events[Passed(s) + 1] \in Events
    BY SeqIs, Zenon DEF AnswerSet
  <2> QED
    BY <1>1, <2>1, RenamedIs
<1>3. /\ s.out \in Seq(Events) /\ s.queue \in Seq(Events)
      /\ Len(s.out) \in Nat /\ Len(s.queue) \in Nat
      /\ DOMAIN s.out = 1 .. Len(s.out) /\ DOMAIN s.queue = 1 .. Len(s.queue)
  BY StreamFields, PassedTyped
<1>4. answer.events \in Seq(Events) /\ Len(answer.events) \in Nat
      /\ DOMAIN answer.events = 1 .. Len(answer.events)
  BY SeqIs DEF AnswerSet
<1>5. CASE s.waiting
  <2>1. t.out = Append(s.out, e) /\ t.queue = s.queue /\ s.queue = <<>>
    BY <1>1, <1>5 DEF Handed
  <2>2. Len(s.queue) = 0 /\ Passed(s) = Len(s.out)
    BY <1>3, <2>1 DEF Passed
  <2>3. /\ Len(t.out) = Len(s.out) + 1 /\ DOMAIN t.out = 1 .. (Len(s.out) + 1)
        /\ \A k \in DOMAIN s.out : t.out[k] = s.out[k]
        /\ t.out[Len(s.out) + 1] = e
    BY <1>2, <1>3, <2>1, Appended
  <2>4. Passed(t) = Passed(s) + 1 /\ Passed(t) <= Len(answer.events)
    BY <1>3, <1>4, <2>1, <2>2, <2>3 DEF Passed
  <2>5. ASSUME NEW i \in DOMAIN t.out PROVE t.out[i] = Renamed(answer.events[i])
    <3>1. CASE i \in DOMAIN s.out
      BY <2>3, <3>1 DEF InOut
    <3>2. CASE i = Len(s.out) + 1
      BY <1>1, <2>2, <2>3, <3>2
    <3> QED
      BY <1>3, <2>3, <3>1, <3>2
  <2>6. DOMAIN t.queue = {}
    BY <1>3, <2>1, <2>2
  <2> QED
    BY <2>4, <2>5, <2>6 DEF InOut
<1>6. CASE ~s.waiting
  <2>1. t.out = s.out /\ t.queue = Append(s.queue, e)
    BY <1>1, <1>6 DEF Handed
  <2>2. /\ Len(t.queue) = Len(s.queue) + 1 /\ DOMAIN t.queue = 1 .. (Len(s.queue) + 1)
        /\ \A k \in DOMAIN s.queue : t.queue[k] = s.queue[k]
        /\ t.queue[Len(s.queue) + 1] = e
    BY <1>2, <1>3, <2>1, Appended
  <2>6. Passed(s) = Len(s.out) + Len(s.queue) /\ Passed(t) = Len(t.out) + Len(t.queue)
    BY DEF Passed
  <2>7. Len(t.out) = Len(s.out)
    BY <2>1
  <2>8. PICK a \in Nat, b \in Nat : a = Len(s.out) /\ b = Len(s.queue)
    BY <1>3
  <2>9. Passed(s) = a + b /\ Passed(t) = a + (b + 1)
    BY <2>2, <2>6, <2>7, <2>8
  <2>3. Passed(t) = Passed(s) + 1 /\ Passed(t) <= Len(answer.events)
    BY <1>4, <2>9
  <2>4. ASSUME NEW i \in DOMAIN t.queue
        PROVE  t.queue[i] = Renamed(answer.events[Len(t.out) + i])
    <3>1. CASE i \in DOMAIN s.queue
      BY <2>1, <2>2, <3>1 DEF InOut
    <3>2. CASE i = Len(s.queue) + 1
      <4>1. Len(t.out) + i = Passed(s) + 1
        <5>1. Len(t.out) = a /\ i = b + 1
          BY <2>7, <2>8, <3>2
        <5>2. a + (b + 1) = (a + b) + 1
          OBVIOUS
        <5> QED
          BY <2>9, <5>1, <5>2, Zenon
      <4> QED
        BY <1>1, <2>2, <3>2, <4>1
    <3> QED
      BY <1>3, <2>2, <3>1, <3>2
  <2>5. \A i \in DOMAIN t.out : t.out[i] = Renamed(answer.events[i])
    BY <2>1 DEF InOut
  <2> QED
    BY <2>3, <2>4, <2>5 DEF InOut
<1> QED
  BY <1>5, <1>6

LEMMA NextAccounted ==
    ASSUME answer \in AnswerSet, NEW s \in StreamSet, NEW t \in StreamSet, Accounted(s),
           NEW n \in Nat, n = Passed(s), n + 1 \in DOMAIN answer.events,
           Processed(t, s, answer.events[n + 1]), Passed(t) = n + 1
    PROVE  Accounted(t)
<1>1. PICK E \in Seq(Events) : E = answer.events
  BY DEF AnswerSet
<1>2. n + 1 \in DOMAIN E
  BY <1>1
<1>3. t.stats = IF Strict THEN 0 ELSE ToldBy(E, n + 1)
  <2>1. ToldBy(E, n + 1) = Stats(ToldBy(E, n), E[n + 1])
    BY <1>2, NextTold
  <2>2. t.stats = IF Strict THEN s.stats ELSE Stats(s.stats, E[n + 1])
    BY <1>1 DEF Processed
  <2>3. s.stats = IF Strict THEN 0 ELSE ToldBy(E, n)
    BY <1>1 DEF Accounted
  <2> QED
    BY <2>1, <2>2, <2>3
<1>4. Strict => Closed(E, n + 1, t.open)
  <2>1. SUFFICES ASSUME Strict PROVE Closed(E, n + 1, t.open)
    OBVIOUS
  <2>2. t.open = Opened(s.open, E[n + 1]) /\ Closed(E, n, s.open)
    BY <1>1, <2>1 DEF Processed, Accounted
  <2>3. s.open \in SUBSET OpenBlock
    BY StreamFields
  <2> QED
    BY <1>2, <2>2, <2>3, NextClosed
<1>5. t.stopped => \E i \in 1 .. (n + 1) : E[i].type = "message_stop"
  <2>1. CASE s.stopped
    <3>1. PICK i \in 1 .. n : E[i].type = "message_stop"
      BY <1>1, <2>1 DEF Accounted
    <3>2. i \in 1 .. (n + 1)
      OBVIOUS
    <3> QED
      BY <3>1, <3>2
  <2>2. CASE ~s.stopped /\ t.stopped
    <3>1. E[n + 1].type = "message_stop"
      BY <1>1, <2>2 DEF Processed
    <3>2. n + 1 \in 1 .. (n + 1)
      OBVIOUS
    <3> QED
      BY <3>1, <3>2
  <2> QED
    BY <2>1, <2>2
<1> QED
  BY <1>1, <1>3, <1>4, <1>5 DEF Accounted

LEMMA HandedPulled ==
    ASSUME NEW s \in StreamSet, NEW t \in StreamSet, s.pulling, s.emitted,
           s.waiting => s.queue = <<>>, NEW e \in Events, t.emitted = s.emitted, Handed(t, s, e)
    PROVE  Pulled(t)
<1>1. CASE s.waiting
  BY <1>1 DEF Pulled, Handed
<1>2. CASE ~s.waiting
  <2>1. t.queue # <<>>
    <3>1. t.queue = Append(s.queue, e) /\ s.queue \in Seq(Events)
      BY <1>2, StreamFields DEF Handed
    <3> QED
      BY <3>1, Appended
  <2> QED
    BY <1>2, <2>1 DEF Pulled, Handed
<1> QED
  BY <1>1, <1>2

\* What is in a block, by what can be parsed of it.
LEMMA PayloadIs ==
    ASSUME NEW block \in Seq(Units)
    PROVE  /\ IsBlank(block) \/ Payload(block) = {} =>
                  \A k \in DOMAIN block : ~IsRest(block[k])
           /\ \A i : Payload(block) = {Unit("half", i), RestOf(i)} =>
                  /\ \E k \in DOMAIN block : block[k] = RestOf(i)
                  /\ \A k \in DOMAIN block : IsRest(block[k]) => block[k] = RestOf(i)
<1>1. \A k \in DOMAIN block : IsRest(block[k]) => block[k] \in Payload(block)
  BY DEF Payload, ToSet, IsRest
<1>2. \A u \in Payload(block) : \E k \in DOMAIN block : block[k] = u
  BY DEF Payload, ToSet
<1>3. IsBlank(block) => \A k \in DOMAIN block : ~IsRest(block[k])
  BY LineFeeds DEF IsBlank
<1>4. \A i : ~IsRest(Unit("half", i))
  BY DEF IsRest, Unit
<1> QED
  BY <1>1, <1>2, <1>3, <1>4

\* What may be processed of the answer.
AnswerWritten == answer \in AnswerSet /\ WellWritten(answer.text, answer.events)

\* The buffer is cut after a block that has no data.
LEMMA CutBarren ==
    ASSUME AnswerWritten, NEW s \in StreamSet, Linked(s), NEW c \in DOMAIN s.buffer,
           s.buffer[c] = LF,
           \A k \in DOMAIN s.buffer : k <= c => ~IsRest(s.buffer[k]),
           NEW t, t.buffer = SubSeq(s.buffer, c + 1, Len(s.buffer)), t.read = s.read,
           Passed(t) = Passed(s)
    PROVE  Linked(t)
<1>1. s.buffer \in Seq(Units) /\ answer.text \in Seq(Units)
  BY StreamFields DEF AnswerWritten, AnswerSet
<1>2. /\ Adjacent(s.buffer) /\ Continues(s.buffer, answer.text, s.read)
      /\ Numbered(s.buffer, answer.text, s.read, Passed(s))
  BY Zenon DEF Linked
<1>3. s.read \in 0 .. Len(answer.text)
  BY <1>2, Zenon DEF Continues
<1>4. Adjacent(t.buffer)
  BY <1>1, <1>2, CutAdjacent, Zenon
<1>5. Continues(t.buffer, answer.text, t.read)
  BY <1>1, <1>2, CutContinues, Zenon
<1>6. Numbered(t.buffer, answer.text, t.read, Passed(t))
  <2>1. PICK n \in Nat : n = Passed(s)
    BY PassedTyped
  <2>2. n \in {n, n + 1} /\ n # n + 1
    OBVIOUS
  <2>3. Numbered(s.buffer, answer.text, s.read, n)
    BY <1>2, <2>1, Zenon
  <2>4. TakenUpTo(s.buffer, c, n, n)
    BY <2>2 DEF TakenUpTo
  <2>5. Numbered(t.buffer, answer.text, s.read, n)
    BY <1>1, <1>3, <2>3, <2>4, CutNumbered, Zenon
  <2> QED
    BY <2>1, <2>5, Zenon
<1> QED
  BY <1>4, <1>5, <1>6, Zenon DEF Linked

\* The buffer is cut after the data of an event, which is the next one.
LEMMA CutEvent ==
    ASSUME AnswerWritten, NEW s \in StreamSet, Linked(s), NEW c \in DOMAIN s.buffer,
           s.buffer[c] = LF, NEW i,
           \E k \in DOMAIN s.buffer : k <= c /\ s.buffer[k] = RestOf(i),
           \A k, l \in DOMAIN s.buffer :
               k <= c /\ l <= c /\ IsRest(s.buffer[k]) /\ IsRest(s.buffer[l]) => k = l,
           NEW t, t.buffer = SubSeq(s.buffer, c + 1, Len(s.buffer)), t.read = s.read
    PROVE  i = Passed(s) + 1 /\ (Passed(t) = Passed(s) + 1 => Linked(t))
<1>1. s.buffer \in Seq(Units) /\ answer.text \in Seq(Units)
  BY StreamFields DEF AnswerWritten, AnswerSet
<1>2. /\ Adjacent(s.buffer) /\ Continues(s.buffer, answer.text, s.read)
      /\ Numbered(s.buffer, answer.text, s.read, Passed(s))
  BY Zenon DEF Linked
<1>3. s.read \in 0 .. Len(answer.text)
  BY <1>2, Zenon DEF Continues
<1>4. PICK n \in Nat : n = Passed(s)
  BY PassedTyped
<1>5. Numbered(s.buffer, answer.text, s.read, n)
  BY <1>2, <1>4, Zenon
<1>6. PICK p \in DOMAIN s.buffer : p <= c /\ s.buffer[p] = RestOf(i)
  OBVIOUS
<1>7. IsRest(s.buffer[p]) /\ s.buffer[p].event = i
  BY <1>6 DEF IsRest, RestOf, Unit
<1>8. \A k \in DOMAIN s.buffer : k <= c /\ IsRest(s.buffer[k]) => k = p
  BY <1>6, <1>7, Zenon
<1>9. i = n + 1
  <2>1. DOMAIN s.buffer \subseteq Nat
    BY <1>1, SeqIs
  <2>2. \A k \in DOMAIN s.buffer :
            k < p /\ IsRest(s.buffer[k]) => s.buffer[k].event = s.buffer[p].event
    <3>1. ASSUME NEW k \in DOMAIN s.buffer, k < p, IsRest(s.buffer[k])
          PROVE  s.buffer[k].event = s.buffer[p].event
      <4>1. k <= c
        BY <1>6, <2>1, <3>1
      <4> QED
        BY <1>8, <3>1, <4>1, Zenon
    <3> QED
      BY <3>1
  <2>3. WellWritten(answer.text, answer.events)
    BY DEF AnswerWritten
  <2>4. s.buffer[p].event = n + 1
    BY <1>1, <1>3, <1>5, <1>7, <2>2, <2>3, NextNumber, ZenonT(30)
  <2> QED
    BY <1>7, <2>4
<1>10. ASSUME Passed(t) = Passed(s) + 1 PROVE Linked(t)
  <2>1. Adjacent(t.buffer)
    BY <1>1, <1>2, CutAdjacent, Zenon
  <2>2. Continues(t.buffer, answer.text, t.read)
    BY <1>1, <1>2, CutContinues, Zenon
  <2>3. PICK m : m = n + 1
    OBVIOUS
  <2>4. m \in {n, n + 1}
    BY <2>3
  <2>5. \A k \in DOMAIN s.buffer :
            k <= c /\ IsRest(s.buffer[k]) => s.buffer[k].event = m /\ m = n + 1
    BY <1>7, <1>8, <1>9, <2>3, Zenon
  <2>6. \E k \in DOMAIN s.buffer : k <= c /\ s.buffer[k] = RestOf(m)
    BY <1>6, <1>9, <2>3, Zenon
  <2>10. TakenUpTo(s.buffer, c, n, m)
    BY <2>4, <2>5, <2>6, Zenon DEF TakenUpTo
  <2>7. Numbered(t.buffer, answer.text, s.read, m)
    BY <1>1, <1>3, <1>5, <2>10, CutNumbered, Zenon
  <2>8. Passed(t) = m
    BY <1>4, <1>10, <2>3
  <2>9. Numbered(t.buffer, answer.text, t.read, Passed(t))
    BY <2>7, <2>8, Zenon
  <2> QED
    BY <2>1, <2>2, <2>9, Zenon DEF Linked
<1> QED
  BY <1>4, <1>9, <1>10

\* At most one event is read, and then OpenCode does not wait for another.
AtMostOneRead(s, n) == Len(s.out) = n \/ (~s.waiting /\ Len(s.out) = n + 1)

SameAccount(t, s) == t.stats = s.stats /\ t.open = s.open /\ t.stopped = s.stopped

LEMMA SameAccounted ==
    ASSUME NEW s, NEW t, SameReader(t, s), SameAccount(t, s), Accounted(s)
    PROVE  Accounted(t)
<1>1. Passed(t) = Passed(s)
  BY SamePassed
<1> QED
  BY <1>1 DEF SameAccount, Accounted

\* What is taken of what the server has sent was sent in full.
LEMMA LinkedSent ==
    ASSUME AnswerWritten, NEW s \in StreamSet, Linked(s)
    PROVE  AllSent(s)
<1>1. answer.text \in Seq(Units)
  BY DEF AnswerWritten, AnswerSet
<1>2. /\ Continues(s.buffer, answer.text, s.read)
      /\ Numbered(s.buffer, answer.text, s.read, Passed(s))
  BY Zenon DEF Linked
<1>3. s.read \in 0 .. Len(answer.text)
  BY <1>2, Zenon DEF Continues
<1>4. \A i \in 1 .. Passed(s) : \E j \in 1 .. s.read : answer.text[j] = RestOf(i)
  BY <1>2, Zenon DEF Numbered
<1>5. ASSUME NEW i \in 1 .. Passed(s) PROVE i \in Whole(answer.text)
  <2>1. PICK j \in 1 .. s.read : answer.text[j] = RestOf(i)
    BY <1>4
  <2>2. j \in DOMAIN answer.text
    BY <1>1, <1>3
  <2>3. answer.text[j].kind = "rest" /\ answer.text[j].event = i
    BY <2>1 DEF RestOf, Unit
  <2> QED
    BY <2>2, <2>3 DEF Whole
<1> QED
  BY <1>5 DEF AllSent

LEMMA TakeBlockIs ==
    ASSUME AnswerWritten, NEW s, Ongoing(s), NEW n \in Nat, AtMostOneRead(s, n),
           NEW t, t = TakeBlock(s)
    PROVE  Ongoing(t) /\ AtMostOneRead(t, n)
<1>1. s \in StreamSet /\ s.phase \in {"open", "failing"} /\ InOut(s) /\ AllSent(s) /\ s.usage = 0
  BY DEF Ongoing
<1>2. CASE s.phase # "open" \/ Boundaries(s.buffer) = {}
  <2>1. t = s
    BY <1>2, Zenon DEF TakeBlock
  <2> QED
    BY <2>1
<1>3. CASE s.phase = "open" /\ Boundaries(s.buffer) # {}
  <2>1. Linked(s) /\ Accounted(s) /\ s.usage = 0 /\ Pulled(s)
    BY <1>3 DEF Ongoing
  <2>2. PICK B \in Seq(Units) : B = s.buffer
    BY <1>1, StreamFields
  <2>3. PICK c : c = FirstOf(Boundaries(B))
    OBVIOUS
  <2>4. Adjacent(B) /\ Boundaries(B) # {}
    BY <1>3, <2>1, <2>2, Zenon DEF Linked
  <2>5. /\ c \in DOMAIN B /\ c > 1 /\ B[c] = LF
        /\ \A j \in DOMAIN B : j <= c /\ IsRest(B[j]) => j = c - 2
    BY <2>3, <2>4, FirstBlock
  <2>6. PICK block : block = SubSeq(B, 1, c - 2)
    OBVIOUS
  <2>7. PICK C : C = SubSeq(B, c + 1, Len(B))
    OBVIOUS
  <2>8. C \in Seq(Units)
    BY <2>5, <2>7, CutIs, Zenon DEF Cut
  <2>9. /\ block \in Seq(Units) /\ DOMAIN block = 1 .. (c - 2)
        /\ \A k \in DOMAIN block : block[k] = B[k] /\ k \in DOMAIN B /\ k <= c
        /\ DOMAIN B \subseteq Nat \ {0}
    <3>1. Len(B) \in Nat /\ DOMAIN B = 1 .. Len(B) /\ c \in 2 .. Len(B)
      BY <2>5
    <3>2. block \in Seq(Units) /\ DOMAIN block = 1 .. (c - 2)
      BY <2>6, <3>1
    <3>3. \A k \in 1 .. (c - 2) : block[k] = B[k]
      BY <2>6, <3>1
    <3>4. \A k \in 1 .. (c - 2) : k \in DOMAIN B /\ k <= c
      BY <3>1
    <3> QED
      BY <3>1, <3>2, <3>3, <3>4
  <2>10. /\ IsBlank(block) \/ Payload(block) = {} =>
                \A k \in DOMAIN B : k <= c => ~IsRest(B[k])
         /\ \A i : Payload(block) = {Unit("half", i), RestOf(i)} =>
                \E k \in DOMAIN B : k <= c /\ B[k] = RestOf(i)
    <3>1. /\ IsBlank(block) \/ Payload(block) = {} =>
                 \A k \in DOMAIN block : ~IsRest(block[k])
          /\ \A i : Payload(block) = {Unit("half", i), RestOf(i)} =>
                 \E k \in DOMAIN block : block[k] = RestOf(i)
      BY <2>9, PayloadIs
    <3>2. ASSUME NEW k \in DOMAIN B, k <= c, IsRest(B[k])
          PROVE  k \in DOMAIN block /\ block[k] = B[k]
      <4>1. k = c - 2 /\ k \in Nat \ {0}
        BY <2>5, <2>9, <3>2
      <4>2. k \in 1 .. (c - 2)
        BY <4>1
      <4> QED
        BY <2>9, <4>2
    <3> QED
      BY <2>9, <3>1, <3>2
  <2>11. PICK s1 : s1 = [s EXCEPT !.buffer = C]
    OBVIOUS
  <2>12. /\ s1 \in StreamSet /\ SameReader(s1, s) /\ SameAccount(s1, s)
         /\ s1.buffer = C /\ s1.read = s.read /\ s1.usage = s.usage /\ s1.phase = s.phase
         /\ s1.emitted = s.emitted /\ s1.barren = s.barren
    BY <1>1, <2>8, <2>11 DEF StreamSet, SameReader, SameAccount
  <2>13. t = IF IsBlank(block) THEN s1 ELSE EnqueueBlock([s1 EXCEPT !.emitted = TRUE], block)
    BY <1>3, <2>2, <2>3, <2>6, <2>7, <2>11 DEF TakeBlock
  <2>14. CASE IsBlank(block)
    <3>1. t = s1
      BY <2>13, <2>14
    <3>2. Passed(s1) = Passed(s) /\ InOut(s1) /\ Accounted(s1)
      BY <1>1, <2>1, <2>12, SamePassed, SameAccounted
    <3>3. \A k \in DOMAIN s.buffer : k <= c => ~IsRest(s.buffer[k])
      BY <2>2, <2>10, <2>14
    <3>4. Linked(s1)
      BY <1>1, <2>1, <2>2, <2>5, <2>7, <2>12, <3>2, <3>3, CutBarren, Zenon
    <3>5. Pulled(s1) /\ AtMostOneRead(s1, n)
      BY <2>1, <2>12 DEF Pulled, SameReader, AtMostOneRead
    <3>6. AllSent(s1)
      BY <2>12, <3>4, LinkedSent
    <3> QED
      BY <1>1, <1>3, <2>1, <2>12, <3>1, <3>2, <3>4, <3>5, <3>6 DEF Ongoing
  <2>15. CASE ~IsBlank(block)
    <3>1. PICK s2 : s2 = [s1 EXCEPT !.emitted = TRUE]
      OBVIOUS
    <3>2. /\ s2 \in StreamSet /\ SameReader(s2, s) /\ SameAccount(s2, s)
          /\ s2.buffer = C /\ s2.read = s.read /\ s2.usage = 0 /\ s2.phase = "open"
          /\ s2.emitted /\ s2.barren = s.barren
      BY <1>3, <2>1, <2>12, <3>1 DEF StreamSet, SameReader, SameAccount
    <3>3. t = EnqueueBlock(s2, block)
      BY <2>13, <2>15, <3>1
    <3>4. Passed(s2) = Passed(s) /\ InOut(s2) /\ Accounted(s2)
      BY <1>1, <2>1, <3>2, SamePassed, SameAccounted
    <3>5. s2.pulling /\ (s2.waiting => s2.queue = <<>>) /\ AtMostOneRead(s2, n)
      BY <2>1, <3>2 DEF Pulled, SameReader, AtMostOneRead
    <3>6. answer \in AnswerSet
      BY DEF AnswerWritten
    <3>7. /\ t \in StreamSet /\ t.phase \in {"open", "failing"}
          /\ \/ /\ Payload(block) = {} /\ t.phase = "open" /\ t.barren = s2.barren + 1
                /\ SameParser(t, s2) /\ SameReader(t, s2) /\ t.emitted = s2.emitted
             \/ t.phase = "failing" /\ SameReader(t, s2) /\ t.usage = s2.usage
             \/ \E i \in DOMAIN answer.events :
                    /\ Payload(block) = {Unit("half", i), RestOf(i)}
                    /\ Processed(t, s2, answer.events[i])
      BY <2>9, <3>2, <3>3, <3>6, BlockIs
    <3>8. CASE /\ Payload(block) = {} /\ t.phase = "open" /\ t.barren = s2.barren + 1
               /\ SameParser(t, s2) /\ SameReader(t, s2) /\ t.emitted = s2.emitted
      <4>1. SameReader(t, s) /\ SameAccount(t, s) /\ t.buffer = C /\ t.read = s.read
            /\ t.usage = 0 /\ t.emitted
        BY <3>2, <3>8 DEF SameParser, SameReader, SameAccount
      <4>2. Passed(t) = Passed(s) /\ InOut(t) /\ Accounted(t)
        BY <1>1, <2>1, <4>1, SamePassed, SameAccounted
      <4>3. \A k \in DOMAIN s.buffer : k <= c => ~IsRest(s.buffer[k])
        BY <2>2, <2>10, <3>8
      <4>4. Linked(t)
        BY <1>1, <2>1, <2>2, <2>5, <2>7, <4>1, <4>2, <4>3, CutBarren, Zenon
      <4>5. s.barren \in Nat /\ t.barren = s.barren + 1
        BY <1>1, <3>2, <3>8, StreamFields
      <4>6. Pulled(t) /\ AtMostOneRead(t, n)
        BY <2>1, <4>1, <4>5 DEF Pulled, SameReader, AtMostOneRead
      <4>7. AllSent(t)
        BY <3>7, <4>4, LinkedSent
      <4> QED
        BY <3>7, <4>1, <4>2, <4>4, <4>6, <4>7 DEF Ongoing
    <3>9. CASE t.phase = "failing" /\ SameReader(t, s2) /\ t.usage = s2.usage
      <4>2. Passed(t) = Passed(s) /\ AllSent(t)
        BY <1>1, <3>4, <3>9, SamePassed DEF AllSent
      <4>1. InOut(t) /\ AtMostOneRead(t, n)
        BY <3>4, <3>5, <3>9, SamePassed DEF SameReader, AtMostOneRead
      <4> QED
        BY <3>2, <3>7, <3>9, <4>1, <4>2 DEF Ongoing
    <3>10. CASE \E i \in DOMAIN answer.events :
                    /\ Payload(block) = {Unit("half", i), RestOf(i)}
                    /\ Processed(t, s2, answer.events[i])
      <4>1. PICK i \in DOMAIN answer.events :
                    /\ Payload(block) = {Unit("half", i), RestOf(i)}
                    /\ Processed(t, s2, answer.events[i])
        BY <3>10
      <4>2. t.buffer = C /\ t.read = s.read /\ t.usage = 0 /\ t.emitted = s2.emitted
            /\ Handed(t, s2, Renamed(answer.events[i]))
        BY <3>2, <4>1 DEF Processed
      <4>3. \E k \in DOMAIN s.buffer : k <= c /\ s.buffer[k] = RestOf(i)
        BY <2>2, <2>10, <4>1
      <4>4. \A k, l \in DOMAIN s.buffer :
                k <= c /\ l <= c /\ IsRest(s.buffer[k]) /\ IsRest(s.buffer[l]) => k = l
        BY <2>2, <2>5, Zenon
      <4>5. i = Passed(s) + 1 /\ (Passed(t) = Passed(s) + 1 => Linked(t))
        BY <1>1, <2>1, <2>2, <2>5, <2>7, <4>2, <4>3, <4>4, CutEvent, Zenon
      <4>6. Passed(s2) + 1 \in DOMAIN answer.events /\ i = Passed(s2) + 1
        BY <3>4, <4>1, <4>5
      <4>7. InOut(t) /\ Passed(t) = Passed(s2) + 1
        BY <3>2, <3>4, <3>5, <3>6, <3>7, <4>2, <4>6, OneMore
      <4>8. Linked(t)
        BY <3>4, <4>5, <4>7
      <4>9. Accounted(t)
        <5>1. PICK m \in Nat : m = Passed(s2)
          BY <3>2, PassedTyped
        <5> QED
          BY <3>2, <3>4, <3>6, <3>7, <4>1, <4>6, <4>7, <5>1, NextAccounted
      <4>10. Renamed(answer.events[i]) \in Events
        <5>1. answer.events[i] \in Events
          BY <3>6, <4>1, SeqIs, Zenon DEF AnswerSet
        <5> QED
          BY <5>1, RenamedIs
      <4>11. Pulled(t)
        BY <3>2, <3>5, <3>7, <4>2, <4>10, HandedPulled
      <4>12. AtMostOneRead(t, n)
        <5>1. CASE s2.waiting
          <6>1. t.out = Append(s2.out, Renamed(answer.events[i])) /\ s2.out \in Seq(Events)
            BY <3>2, <4>2, <5>1, StreamFields DEF Handed
          <6>2. Len(t.out) = Len(s2.out) + 1
            BY <4>10, <6>1, Appended
          <6> QED
            BY <3>5, <4>2, <5>1, <6>2 DEF AtMostOneRead, Handed
        <5>2. CASE ~s2.waiting
          BY <3>5, <4>2, <5>2 DEF AtMostOneRead, Handed
        <5> QED
          BY <5>1, <5>2
      <4>13. AllSent(t)
        BY <3>7, <4>8, LinkedSent
      <4> QED
        BY <3>7, <4>2, <4>7, <4>8, <4>9, <4>11, <4>12, <4>13 DEF Ongoing
    <3> QED
      BY <3>7, <3>8, <3>9, <3>10
  <2> QED
    BY <2>14, <2>15
<1> QED
  BY <1>1, <1>2, <1>3
------------------------------------------------------------------------------
(***************************************************************************)
(* The two loops, over the blocks of a buffer and over the units of a      *)
(* chunk.                                                                  *)
(***************************************************************************)

\* What every round preserves holds after the last.
LEMMA ProcessIn ==
    ASSUME NEW s \in StreamSet, NEW Good, [s EXCEPT !.emitted = FALSE] \in Good,
           \A t \in Good : TakeBlock(t) \in Good
    PROVE  ProcessBufferedEvents(s) \in Good
<1> DEFINE N == Len(s.buffer)
           start == [s EXCEPT !.emitted = FALSE]
           Step(t) == TakeBlock(t)
<1>1. N \in Nat
  <2>1. s.buffer \in Seq(Units)
    BY StreamFields
  <2> QED
    BY <2>1
<1>0. start \in Good /\ \A t \in Good : Step(t) \in Good
  OBVIOUS
<1> DEFINE Is(g, m) == g = [k \in 0 .. m |-> IF k = 0 THEN start ELSE Step(g[k - 1])]
           S == {m \in 0 .. N : \E g : Is(g, m)}
<1> HIDE DEF Step, start, N
<1>2. 0 \in S
  <2>1. \E g : Is(g, 0)
    <3> DEFINE g == [k \in 0 .. 0 |-> start]
    <3>1. Is(g, 0)
      OBVIOUS
    <3> HIDE DEF g, Is
    <3> QED
      BY <3>1
  <2>2. 0 \in 0 .. N
    BY <1>1
  <2> HIDE DEF Is
  <2> QED
    BY <2>1, <2>2
<1>3. ASSUME NEW m \in 0 .. N, m \in S, m + 1 \in 0 .. N PROVE m + 1 \in S
  <2>1. PICK g : Is(g, m)
    BY <1>3
  <2>2. \A k \in 0 .. m : g[k] = IF k = 0 THEN start ELSE Step(g[k - 1])
    BY <2>1
  <2> DEFINE h == [k \in 0 .. (m + 1) |->
                      IF k = m + 1 THEN Step(g[m]) ELSE g[k]]
  <2>3. \A k \in 0 .. m : h[k] = g[k]
    BY <1>1
  <2>4. ASSUME NEW k \in 0 .. (m + 1)
        PROVE  h[k] = IF k = 0 THEN start ELSE Step(h[k - 1])
    <3>1. CASE k = m + 1
      <4>1. h[k] = Step(g[m]) /\ h[k - 1] = g[m] /\ k # 0
        BY <1>1, <2>3, <3>1
      <4> QED
        BY <4>1
    <3>2. CASE k \in 0 .. m
      <4>1. k = 0 \/ k - 1 \in 0 .. m
        BY <1>1, <3>2
      <4> QED
        BY <2>2, <2>3, <3>2, <4>1
    <3> QED
      BY <1>1, <3>1, <3>2
  <2>5. h = [k \in 0 .. (m + 1) |-> h[k]]
    OBVIOUS
  <2> HIDE DEF h
  <2>6. Is(h, m + 1)
    BY <2>4, <2>5
  <2> QED
    BY <1>3, <2>6
<1>4. N \in S
  <2>1. \A k \in 0 .. N : k \in S /\ k + 1 \in 0 .. N => k + 1 \in S
    BY <1>3
  <2> HIDE DEF S
  <2>2. \A k \in 0 .. N : k \in S
    BY <1>1, <1>2, <2>1, SetInduction
  <2> QED
    BY <1>1, <2>2
<1> DEFINE t == CHOOSE g : Is(g, N)
<1>5. Is(t, N)
  <2>1. \E g : Is(g, N)
    BY <1>4
  <2> HIDE DEF Is
  <2> QED
    BY <2>1
<1>6. ProcessBufferedEvents(s) = t[N]
  BY DEF ProcessBufferedEvents, Step, start, N
<1> HIDE DEF t
<1>7. \A k \in 0 .. N : t[k] = IF k = 0 THEN start ELSE Step(t[k - 1])
  BY <1>5
<1>8. ASSUME NEW k \in 0 .. N, k + 1 \in 0 .. N
      PROVE  t[k + 1] = Step(t[k])
  <2>1. k + 1 # 0 /\ k + 1 - 1 = k
    BY <1>1
  <2> QED
    BY <1>7, <1>8, <2>1
<1>9. t[0] = start
  BY <1>1, <1>7
<1> DEFINE D == {k \in 0 .. N : t[k] \in Good}
<1>10. 0 \in D
  BY <1>0, <1>1, <1>9
<1>11. \A k \in 0 .. N : k \in D /\ k + 1 \in 0 .. N => k + 1 \in D
  BY <1>0, <1>8
<1>12. N \in D
  <2> HIDE DEF D
  <2>1. \A k \in 0 .. N : k \in D
    BY <1>1, <1>10, <1>11, SetInduction
  <2> QED
    BY <1>1, <2>1
<1> QED
  BY <1>6, <1>12

\* What becomes of each unit of a chunk, and the text after k of them.
NormalUnit(u) == IF u = CR THEN LF ELSE u
Normal(chunk, k, text) ==
    IF IsPair(chunk, k) THEN text ELSE Append(text, NormalUnit(chunk[k]))

\* What every unit preserves, number by number, holds of the whole.
LEMMA NormalizeIn ==
    ASSUME NEW chunk \in Seq(Units), NEW Good, <<>> \in Good[0],
           \A k \in 0 .. Len(chunk) : k + 1 \in 0 .. Len(chunk) =>
               \A b \in Good[k] : Normal(chunk, k + 1, b) \in Good[k + 1]
    PROVE  NormalizeChunk(chunk) \in Good[Len(chunk)]
<1> DEFINE N == Len(chunk)
           start == <<>>
           Step(b, k) == IF IsPair(chunk, k) THEN b
                         ELSE Append(b, IF chunk[k] = CR THEN LF ELSE chunk[k])
<1>1. N \in Nat
  OBVIOUS
<1>0. /\ start \in Good[0]
      /\ \A k \in 0 .. N : k + 1 \in 0 .. N =>
             \A b \in Good[k] : Step(b, k + 1) \in Good[k + 1]
  BY Zenon DEF Normal, NormalUnit
<1> DEFINE Is(g, m) == g = [k \in 0 .. m |-> IF k = 0 THEN start ELSE Step(g[k - 1], k)]
           S == {m \in 0 .. N : \E g : Is(g, m)}
<1> HIDE DEF Step, start, N
<1>2. 0 \in S
  <2>1. \E g : Is(g, 0)
    <3> DEFINE g == [k \in 0 .. 0 |-> start]
    <3>1. Is(g, 0)
      OBVIOUS
    <3> HIDE DEF g, Is
    <3> QED
      BY <3>1
  <2>2. 0 \in 0 .. N
    BY <1>1
  <2> HIDE DEF Is
  <2> QED
    BY <2>1, <2>2
<1>3. ASSUME NEW m \in 0 .. N, m \in S, m + 1 \in 0 .. N PROVE m + 1 \in S
  <2>1. PICK g : Is(g, m)
    BY <1>3
  <2>2. \A k \in 0 .. m : g[k] = IF k = 0 THEN start ELSE Step(g[k - 1], k)
    BY <2>1
  <2> DEFINE h == [k \in 0 .. (m + 1) |->
                      IF k = m + 1 THEN Step(g[m], m + 1) ELSE g[k]]
  <2>3. \A k \in 0 .. m : h[k] = g[k]
    BY <1>1
  <2>4. ASSUME NEW k \in 0 .. (m + 1)
        PROVE  h[k] = IF k = 0 THEN start ELSE Step(h[k - 1], k)
    <3>1. CASE k = m + 1
      <4>1. h[k] = Step(g[m], k) /\ h[k - 1] = g[m] /\ k # 0
        BY <1>1, <2>3, <3>1
      <4> QED
        BY <4>1
    <3>2. CASE k \in 0 .. m
      <4>1. k = 0 \/ k - 1 \in 0 .. m
        BY <1>1, <3>2
      <4> QED
        BY <2>2, <2>3, <3>2, <4>1
    <3> QED
      BY <1>1, <3>1, <3>2
  <2>5. h = [k \in 0 .. (m + 1) |-> h[k]]
    OBVIOUS
  <2> HIDE DEF h
  <2>6. Is(h, m + 1)
    BY <2>4, <2>5
  <2> QED
    BY <1>3, <2>6
<1>4. N \in S
  <2>1. \A k \in 0 .. N : k \in S /\ k + 1 \in 0 .. N => k + 1 \in S
    BY <1>3
  <2> HIDE DEF S
  <2>2. \A k \in 0 .. N : k \in S
    BY <1>1, <1>2, <2>1, SetInduction
  <2> QED
    BY <1>1, <2>2
<1> DEFINE t == CHOOSE g : Is(g, N)
<1>5. Is(t, N)
  <2>1. \E g : Is(g, N)
    BY <1>4
  <2> HIDE DEF Is
  <2> QED
    BY <2>1
<1>6. NormalizeChunk(chunk) = t[N]
  BY DEF NormalizeChunk, Step, start, N
<1> HIDE DEF t
<1>7. \A k \in 0 .. N : t[k] = IF k = 0 THEN start ELSE Step(t[k - 1], k)
  BY <1>5
<1>8. ASSUME NEW k \in 0 .. N, k + 1 \in 0 .. N
      PROVE  t[k + 1] = Step(t[k], k + 1)
  <2>1. k + 1 # 0 /\ k + 1 - 1 = k
    BY <1>1
  <2> QED
    BY <1>7, <1>8, <2>1
<1>9. t[0] = start
  BY <1>1, <1>7
<1> DEFINE D == {k \in 0 .. N : t[k] \in Good[k]}
<1>10. 0 \in D
  BY <1>0, <1>1, <1>9
<1>11. \A k \in 0 .. N : k \in D /\ k + 1 \in 0 .. N => k + 1 \in D
  BY <1>0, <1>8
<1>12. N \in D
  <2> HIDE DEF D
  <2>1. \A k \in 0 .. N : k \in D
    BY <1>1, <1>10, <1>11, SetInduction
  <2> QED
    BY <1>1, <2>1
<1>13. t[N] \in Good[N]
  BY <1>12
<1> QED
  BY <1>6, <1>13, Zenon DEF N
------------------------------------------------------------------------------
(***************************************************************************)
(* A chunk is read: its units continue the buffer.                         *)
(***************************************************************************)

\* A unit may follow a text.
Follows(v, B) ==
    /\ IsRest(v) => Len(B) >= 1 /\ B[Len(B)] = Unit("half", v.event)
    /\ Len(B) >= 1 /\ IsHalf(B[Len(B)]) => v = RestOf(B[Len(B)].event)
    /\ Len(B) >= 1 /\ IsRest(B[Len(B)]) => v = LF
    /\ Len(B) >= 2 /\ IsRest(B[Len(B) - 1]) => v = LF

LEMMA AppendAdjacent ==
    ASSUME NEW B \in Seq(Units), NEW v \in Units, Adjacent(B), Follows(v, B),
           NEW C, C = Append(B, v)
    PROVE  Adjacent(C)
<1>1. PICK L \in Nat : L = Len(B) /\ DOMAIN B = 1 .. L
  OBVIOUS
<1>2. /\ C \in Seq(Units) /\ Len(C) = L + 1 /\ DOMAIN C = 1 .. (L + 1)
      /\ \A k \in 1 .. L : C[k] = B[k]
      /\ C[L + 1] = v
  BY <1>1, Appended
<1>3. /\ IsRest(v) => L >= 1 /\ B[L] = Unit("half", v.event)
      /\ L >= 1 /\ IsHalf(B[L]) => v = RestOf(B[L].event)
      /\ L >= 1 /\ IsRest(B[L]) => v = LF
      /\ L >= 2 /\ IsRest(B[L - 1]) => v = LF
  BY <1>1 DEF Follows
<1>4. ASSUME NEW k \in DOMAIN C, IsRest(C[k])
      PROVE  k > 1 /\ C[k - 1] = Unit("half", C[k].event)
  <2>1. CASE k \in 1 .. L
    <3>1. k > 1 /\ B[k - 1] = Unit("half", B[k].event)
      BY <1>1, <1>2, <1>4, <2>1 DEF Adjacent
    <3>2. k - 1 \in 1 .. L
      BY <2>1, <3>1
    <3> QED
      BY <1>2, <2>1, <3>1, <3>2
  <2>2. CASE k = L + 1
    <3>1. L \in 1 .. L /\ (L + 1) - 1 = L /\ L + 1 > 1
      BY <1>2, <1>3, <1>4, <2>2
    <3> QED
      BY <1>2, <1>3, <1>4, <2>2, <3>1
  <2> QED
    BY <1>2, <2>1, <2>2
<1>5. ASSUME NEW k \in DOMAIN C, IsHalf(C[k]), k < Len(C)
      PROVE  C[k + 1] = RestOf(C[k].event)
  <2>1. k \in 1 .. L
    BY <1>2, <1>5
  <2>2. CASE k < L
    <3>1. B[k + 1] = RestOf(B[k].event) /\ k + 1 \in 1 .. L
      BY <1>1, <1>2, <1>5, <2>1, <2>2 DEF Adjacent
    <3> QED
      BY <1>2, <2>1, <3>1
  <2>3. CASE k = L
    BY <1>2, <1>3, <1>5, <2>1, <2>3
  <2> QED
    BY <1>1, <2>1, <2>2, <2>3
<1>6. ASSUME NEW k \in DOMAIN C, IsRest(C[k]), k < Len(C)
      PROVE  C[k + 1] = LF
  <2>1. k \in 1 .. L
    BY <1>2, <1>6
  <2>2. CASE k < L
    <3>1. B[k + 1] = LF /\ k + 1 \in 1 .. L
      BY <1>1, <1>2, <1>6, <2>1, <2>2 DEF Adjacent
    <3> QED
      BY <1>2, <3>1
  <2>3. CASE k = L
    BY <1>2, <1>3, <1>6, <2>1, <2>3
  <2> QED
    BY <1>1, <2>1, <2>2, <2>3
<1>7. ASSUME NEW k \in DOMAIN C, IsRest(C[k]), k + 1 < Len(C)
      PROVE  C[k + 2] = LF
  <2>1. k \in 1 .. L /\ k < L
    BY <1>2, <1>7
  <2>2. CASE k + 1 < L
    <3>1. B[k + 2] = LF /\ k + 2 \in 1 .. L
      BY <1>1, <1>2, <1>7, <2>1, <2>2 DEF Adjacent
    <3> QED
      BY <1>2, <3>1
  <2>3. CASE k + 1 = L
    <3>1. k + 2 = L + 1 /\ k = L - 1 /\ L >= 2
      BY <2>1, <2>3
    <3> QED
      BY <1>2, <1>3, <1>7, <2>1, <3>1
  <2> QED
    BY <1>1, <2>1, <2>2, <2>3
<1> QED
  BY <1>4, <1>5, <1>6, <1>7, Zenon DEF Adjacent

LEMMA AppendNumbered ==
    ASSUME NEW B \in Seq(Units), NEW v \in Units, NEW T, NEW r \in Nat, NEW m \in Nat, r <= m,
           NEW n, Numbered(B, T, r, n),
           IsRest(v) => v.event > n /\ \E j \in 1 .. m : T[j] = v,
           IsRest(v) => \A k \in DOMAIN B : IsRest(B[k]) => B[k].event < v.event,
           \A j \in 1 .. m : IsRest(T[j]) => j <= r \/ T[j] = v,
           NEW C, C = Append(B, v)
    PROVE  Numbered(C, T, m, n)
<1>1. PICK L \in Nat : L = Len(B) /\ DOMAIN B = 1 .. L
  OBVIOUS
<1>2. /\ C \in Seq(Units) /\ Len(C) = L + 1 /\ DOMAIN C = 1 .. (L + 1)
      /\ \A k \in 1 .. L : C[k] = B[k]
      /\ C[L + 1] = v
  BY <1>1, Appended
<1>3. ASSUME NEW k \in DOMAIN C, NEW l \in DOMAIN C, k < l, IsRest(C[k]), IsRest(C[l])
      PROVE  C[k].event < C[l].event
  <2>1. k \in 1 .. L
    BY <1>2, <1>3
  <2>2. CASE l \in 1 .. L
    BY <1>1, <1>2, <1>3, <2>1, <2>2 DEF Numbered
  <2>3. CASE l = L + 1
    BY <1>1, <1>2, <1>3, <2>1, <2>3
  <2> QED
    BY <1>2, <2>2, <2>3
<1>4. ASSUME NEW k \in DOMAIN C, IsRest(C[k])
      PROVE  C[k].event > n /\ \E j \in 1 .. m : T[j] = C[k]
  <2>1. CASE k \in 1 .. L
    <3>1. C[k] = B[k] /\ k \in DOMAIN B
      BY <1>1, <1>2, <2>1
    <3>2. B[k].event > n /\ \E j \in 1 .. r : T[j] = B[k]
      BY <1>4, <3>1, Zenon DEF Numbered
    <3>3. PICK j \in 1 .. r : T[j] = B[k]
      BY <3>2
    <3>4. j \in 1 .. m
      OBVIOUS
    <3> QED
      BY <3>1, <3>2, <3>3, <3>4
  <2>2. CASE k = L + 1
    BY <1>2, <1>4, <2>2
  <2> QED
    BY <1>2, <2>1, <2>2
<1>5. ASSUME NEW j \in 1 .. m, IsRest(T[j]), T[j].event > n
      PROVE  \E k \in DOMAIN C : C[k] = T[j]
  <2>1. CASE j <= r
    <3>1. j \in 1 .. r
      BY <2>1
    <3>2. PICK k \in DOMAIN B : B[k] = T[j]
      BY <1>5, <3>1, Zenon DEF Numbered
    <3> QED
      BY <1>1, <1>2, <3>2
  <2>2. CASE T[j] = v
    <3>1. L + 1 \in DOMAIN C
      BY <1>2
    <3> QED
      BY <1>2, <2>2, <3>1
  <2> QED
    BY <1>5, <2>1, <2>2
<1>6. ASSUME NEW i \in 1 .. n PROVE \E j \in 1 .. m : T[j] = RestOf(i)
  <2>1. PICK j \in 1 .. r : T[j] = RestOf(i)
    BY Zenon DEF Numbered
  <2>2. j \in 1 .. m
    OBVIOUS
  <2> QED
    BY <2>1, <2>2
<1> QED
  BY <1>3, <1>4, <1>5, <1>6, Zenon DEF Numbered

LEMMA AppendContinues ==
    ASSUME NEW B \in Seq(Units), NEW v \in Units, NEW T, NEW m \in 0 .. Len(T), m > 0,
           IsHalf(T[m]) \/ IsRest(T[m]) \/ IsHalf(v) \/ IsRest(v) => v = T[m],
           Len(B) >= 1 /\ IsRest(B[Len(B)]) /\ m < Len(T) => T[m + 1] \in {CR, LF},
           NEW C, C = Append(B, v)
    PROVE  Continues(C, T, m)
<1>1. PICK L \in Nat : L = Len(B) /\ DOMAIN B = 1 .. L
  OBVIOUS
<1>2. /\ C \in Seq(Units) /\ Len(C) = L + 1 /\ DOMAIN C = 1 .. (L + 1)
      /\ \A k \in 1 .. L : C[k] = B[k]
      /\ C[L + 1] = v /\ C # <<>>
  BY <1>1, Appended
<1>3. (L + 1) - 1 = L
  OBVIOUS
<1>4. Len(C) > 1 /\ IsRest(C[Len(C) - 1]) /\ m < Len(T) => T[m + 1] \in {CR, LF}
  <2>1. SUFFICES ASSUME Len(C) > 1, IsRest(C[Len(C) - 1]), m < Len(T)
                 PROVE  T[m + 1] \in {CR, LF}
    OBVIOUS
  <2>2. L \in 1 .. L
    BY <1>2, <2>1
  <2>3. IsRest(B[L]) /\ L >= 1
    BY <1>2, <1>3, <2>1, <2>2
  <2> QED
    BY <1>1, <2>1, <2>3
<1> QED
  BY <1>2, <1>4 DEF Continues

LinkedTo(B, T, r, n) == Adjacent(B) /\ Continues(B, T, r) /\ Numbered(B, T, r, n)

LEMMA Joined ==
    ASSUME NEW R, NEW s \in Seq(R), NEW t \in Seq(R), NEW u, u = s \o t
    PROVE  /\ u \in Seq(R) /\ Len(u) = Len(s) + Len(t)
           /\ DOMAIN u = 1 .. (Len(s) + Len(t))
           /\ DOMAIN s = 1 .. Len(s) /\ DOMAIN t = 1 .. Len(t)
           /\ \A i \in DOMAIN s : u[i] = s[i]
           /\ \A j \in DOMAIN u : j \notin DOMAIN s =>
                  j - Len(s) \in DOMAIN t /\ u[j] = t[j - Len(s)]
           /\ \A n \in DOMAIN t : u[Len(s) + n] = t[n]
<1>1. /\ Len(s) \in Nat /\ Len(t) \in Nat
      /\ DOMAIN s = 1 .. Len(s) /\ DOMAIN t = 1 .. Len(t)
  OBVIOUS
<1>2. u \in Seq(R) /\ Len(u) = Len(s) + Len(t)
  OBVIOUS
<1>3. DOMAIN u = 1 .. (Len(s) + Len(t))
  BY <1>2
<1>4. \A i \in DOMAIN s : u[i] = s[i]
  OBVIOUS
<1>5. ASSUME NEW j \in DOMAIN u, j \notin DOMAIN s
      PROVE  j - Len(s) \in DOMAIN t /\ u[j] = t[j - Len(s)]
  BY <1>1, <1>3, <1>5
<1>6. ASSUME NEW n \in DOMAIN t PROVE u[Len(s) + n] = t[n]
  <2>1. Len(s) + n \in DOMAIN u /\ Len(s) + n \notin DOMAIN s
    BY <1>1, <1>3
  <2>2. Len(s) + n - Len(s) = n
    BY <1>1
  <2> QED
    BY <1>5, <2>1, <2>2
<1> QED
  BY <1>1, <1>2, <1>3, <1>4, <1>5, <1>6

LEMMA Twice ==
    ASSUME NEW R, NEW a \in Seq(R), NEW c, c = a \o a
    PROVE  /\ DOMAIN a = 1 .. Len(a) /\ DOMAIN c = 1 .. (Len(a) + Len(a))
           /\ \A k \in DOMAIN a : c[k] = a[k] /\ c[Len(a) + k] = a[k]
<1>1. DOMAIN c = 1 .. (Len(a) + Len(a)) /\ DOMAIN a = 1 .. Len(a)
  BY Joined
<1>2. \A k \in DOMAIN a : c[k] = a[k]
  BY Joined
<1>3. \A k \in DOMAIN a : c[Len(a) + k] = a[k]
  BY Joined
<1> QED
  BY <1>1, <1>2, <1>3

LEMMA BlankLineIs ==
    /\ 1 \in DOMAIN BlankLine(TRUE) /\ 2 \in DOMAIN BlankLine(TRUE)
    /\ 3 \in DOMAIN BlankLine(TRUE)
    /\ 1 \in DOMAIN BlankLine(FALSE) /\ 2 \in DOMAIN BlankLine(FALSE)
    /\ BlankLine(TRUE)[1] = CR /\ BlankLine(TRUE)[2] = LF /\ BlankLine(TRUE)[3] = CR
    /\ BlankLine(FALSE)[1] = LF /\ BlankLine(FALSE)[2] = LF
<1>1. PICK x : x = CR
  OBVIOUS
<1>2. PICK y : y = LF
  OBVIOUS
<1>3. PICK a : a = <<x, y>>
  OBVIOUS
<1>4. PICK b : b = <<y>>
  OBVIOUS
<1>5. BlankLine(TRUE) = a \o a /\ BlankLine(FALSE) = b \o b
  BY <1>1, <1>2, <1>3, <1>4 DEF BlankLine, LineEnd
<1>6. a \in Seq({x, y}) /\ Len(a) = 2 /\ a[1] = x /\ a[2] = y
  BY <1>3
<1>7. b \in Seq({y}) /\ Len(b) = 1 /\ b[1] = y
  BY <1>4
<1>8. PICK long : long = a \o a
  OBVIOUS
<1>9. PICK short : short = b \o b
  OBVIOUS
<1>10. DOMAIN long = 1 .. 4 /\ long[1] = x /\ long[2] = y /\ long[3] = x
  <2>0. /\ DOMAIN a = 1 .. Len(a) /\ DOMAIN long = 1 .. (Len(a) + Len(a))
        /\ \A k \in DOMAIN a : long[k] = a[k] /\ long[Len(a) + k] = a[k]
    BY <1>6, <1>8, Twice, Zenon
  <2>1. /\ DOMAIN long = 1 .. (2 + 2) /\ DOMAIN a = 1 .. 2
        /\ \A k \in DOMAIN a : long[k] = a[k]
        /\ \A k \in DOMAIN a : long[2 + k] = a[k]
    BY <1>6, <1>8, <2>0, Zenon
  <2>2. 1 \in DOMAIN a /\ 2 \in DOMAIN a
    BY <2>1
  <2>3. long[1] = a[1] /\ long[2] = a[2] /\ long[2 + 1] = a[1]
    BY <2>1, <2>2
  <2>4. 2 + 1 = 3 /\ 2 + 2 = 4
    OBVIOUS
  <2> QED
    BY <1>6, <2>1, <2>3, <2>4
<1>11. DOMAIN short = 1 .. 2 /\ short[1] = y /\ short[2] = y
  <2>0. /\ DOMAIN b = 1 .. Len(b) /\ DOMAIN short = 1 .. (Len(b) + Len(b))
        /\ \A k \in DOMAIN b : short[k] = b[k] /\ short[Len(b) + k] = b[k]
    BY <1>7, <1>9, Twice, Zenon
  <2>1. /\ DOMAIN short = 1 .. (1 + 1) /\ DOMAIN b = 1 .. 1
        /\ \A k \in DOMAIN b : short[k] = b[k]
        /\ \A k \in DOMAIN b : short[1 + k] = b[k]
    BY <1>7, <1>9, <2>0, Zenon
  <2>2. 1 \in DOMAIN b
    BY <2>1
  <2>3. short[1] = b[1] /\ short[1 + 1] = b[1]
    BY <2>1, <2>2
  <2>4. 1 + 1 = 2
    OBVIOUS
  <2> QED
    BY <1>7, <2>1, <2>3, <2>4
<1>12. 1 \in 1 .. 4 /\ 2 \in 1 .. 4 /\ 3 \in 1 .. 4 /\ 1 \in 1 .. 2 /\ 2 \in 1 .. 2
  OBVIOUS
<1> QED
  BY <1>1, <1>2, <1>5, <1>8, <1>9, <1>10, <1>11, <1>12, Zenon

\* A blank line comes after the data of an event, in one way or the other.
LEMMA AfterRest ==
    ASSUME NEW T \in Seq(Units), NEW E, WellWritten(T, E), NEW r \in DOMAIN T, IsRest(T[r])
    PROVE  /\ r + 1 <= Len(T) => T[r + 1] \in {CR, LF}
           /\ r + 2 <= Len(T) => T[r + 2] \in {CR, LF}
           /\ T[r + 1] = CR /\ r + 3 <= Len(T) => T[r + 3] \in {CR, LF}
<1>1. PICK crlf \in BOOLEAN :
          \A j \in DOMAIN BlankLine(crlf) : r + j <= Len(T) => T[r + j] = BlankLine(crlf)[j]
  BY Zenon DEF WellWritten, IsRest
<1>2. r \in Nat /\ Len(T) \in Nat
  BY SeqIs
<1>3. CASE crlf = TRUE
  <2>1. 1 \in DOMAIN BlankLine(crlf) /\ 2 \in DOMAIN BlankLine(crlf) /\ 3 \in DOMAIN BlankLine(crlf)
    BY <1>3, BlankLineIs, Zenon
  <2>2. BlankLine(crlf)[1] = CR /\ BlankLine(crlf)[2] = LF /\ BlankLine(crlf)[3] = CR
    BY <1>3, BlankLineIs, Zenon
  <2> QED
    BY <1>1, <2>1, <2>2
<1>4. CASE crlf = FALSE
  <2>1. 1 \in DOMAIN BlankLine(crlf) /\ 2 \in DOMAIN BlankLine(crlf)
    BY <1>4, BlankLineIs, Zenon
  <2>2. BlankLine(crlf)[1] = LF /\ BlankLine(crlf)[2] = LF
    BY <1>4, BlankLineIs, Zenon
  <2>3. r + 1 <= Len(T) => T[r + 1] = LF
    BY <1>1, <2>1, <2>2
  <2>4. r + 2 <= Len(T) => T[r + 2] = LF
    BY <1>1, <2>1, <2>2
  <2>5. r + 3 <= Len(T) => r + 1 <= Len(T)
    BY <1>2
  <2> QED
    BY <2>3, <2>4, <2>5, LineFeeds
<1> QED
  BY <1>3, <1>4

LEMMA NormalUnitIs ==
    ASSUME NEW u \in Units
    PROVE  /\ NormalUnit(u) \in Units
           /\ IsHalf(u) \/ IsRest(u) \/ IsHalf(NormalUnit(u)) \/ IsRest(NormalUnit(u)) =>
                  NormalUnit(u) = u
           /\ u \in {CR, LF} => NormalUnit(u) = LF
BY LineFeeds DEF NormalUnit

\* What a buffer that is linked to a text ends with.
LEMMA EndOfBuffer ==
    ASSUME NEW B \in Seq(Units), NEW T \in Seq(Units), NEW E, WellWritten(T, E),
           NEW r \in Nat, r < Len(T), Continues(B, T, r), NEW u, u = T[r + 1]
    PROVE  /\ u \in Units /\ r + 1 \in DOMAIN T
           /\ IsRest(u) => Len(B) >= 1 /\ B[Len(B)] = Unit("half", u.event)
           /\ Len(B) >= 1 /\ IsHalf(B[Len(B)]) => u = RestOf(B[Len(B)].event)
           /\ Len(B) >= 1 /\ IsRest(B[Len(B)]) => r \in DOMAIN T /\ T[r] = B[Len(B)]
           /\ Len(B) >= 2 /\ IsRest(B[Len(B) - 1]) => u \in {CR, LF}
<1>1. Len(B) \in Nat /\ Len(T) \in Nat /\ DOMAIN T = 1 .. Len(T)
  BY SeqIs
<1>2. r + 1 \in DOMAIN T /\ (r + 1) - 1 = r
  BY <1>1
<1>3. u \in Units
  BY <1>2, SeqIs, Zenon
<1>4. B # <<>> <=> Len(B) >= 1
  BY <1>1
<1>5. ASSUME IsRest(u) PROVE Len(B) >= 1 /\ B[Len(B)] = Unit("half", u.event)
  <2>1. r + 1 > 1 /\ T[(r + 1) - 1] = Unit("half", u.event)
    BY <1>2, <1>5 DEF WellWritten, IsRest
  <2>2. r > 0 /\ T[r] = Unit("half", u.event) /\ IsHalf(T[r])
    BY <1>2, <2>1 DEF IsHalf, Unit
  <2>3. B # <<>> /\ B[Len(B)] = T[r]
    BY <2>2, Zenon DEF Continues
  <2> QED
    BY <1>4, <2>2, <2>3
<1>6. ASSUME Len(B) >= 1, IsHalf(B[Len(B)]) \/ IsRest(B[Len(B)])
      PROVE  r > 0 /\ r \in DOMAIN T /\ T[r] = B[Len(B)]
  <2>1. r > 0 /\ T[r] = B[Len(B)]
    BY <1>4, <1>6, Zenon DEF Continues
  <2> QED
    BY <1>1, <2>1
<1>7. ASSUME Len(B) >= 1, IsHalf(B[Len(B)]) PROVE u = RestOf(B[Len(B)].event)
  <2>1. r \in DOMAIN T /\ T[r].kind = "half" /\ T[r] = B[Len(B)]
    BY <1>6, <1>7 DEF IsHalf
  <2>2. T[r + 1] = Unit("rest", T[r].event)
    BY <2>1 DEF WellWritten
  <2> QED
    BY <2>1, <2>2 DEF RestOf
<1>8. ASSUME Len(B) >= 2, IsRest(B[Len(B) - 1]) PROVE u \in {CR, LF}
  <2>1. Len(B) > 1
    BY <1>1, <1>8
  <2> QED
    BY <1>8, <2>1, Zenon DEF Continues
<1> QED
  BY <1>2, <1>3, <1>5, <1>6, <1>7, <1>8

LEMMA LinkOne ==
    ASSUME NEW B \in Seq(Units), NEW T \in Seq(Units), NEW E \in Seq(Events), WellWritten(T, E),
           NEW r \in Nat, r < Len(T), NEW n \in Nat, LinkedTo(B, T, r, n),
           NEW C, C = Append(B, NormalUnit(T[r + 1]))
    PROVE  LinkedTo(C, T, r + 1, n)
<1>1. PICK u : u = T[r + 1]
  OBVIOUS
<1>2. PICK v : v = NormalUnit(u)
  OBVIOUS
<1>3. Adjacent(B) /\ Continues(B, T, r) /\ Numbered(B, T, r, n)
  BY Zenon DEF LinkedTo
<1>4. /\ u \in Units /\ r + 1 \in DOMAIN T
      /\ IsRest(u) => Len(B) >= 1 /\ B[Len(B)] = Unit("half", u.event)
      /\ Len(B) >= 1 /\ IsHalf(B[Len(B)]) => u = RestOf(B[Len(B)].event)
      /\ Len(B) >= 1 /\ IsRest(B[Len(B)]) => r \in DOMAIN T /\ T[r] = B[Len(B)]
      /\ Len(B) >= 2 /\ IsRest(B[Len(B) - 1]) => u \in {CR, LF}
  BY <1>1, <1>3, EndOfBuffer
<1>5. /\ v \in Units /\ (IsHalf(u) \/ IsRest(u) \/ IsHalf(v) \/ IsRest(v) => v = u)
      /\ u \in {CR, LF} => v = LF
  BY <1>2, <1>4, NormalUnitIs
<1>6. Len(T) \in Nat /\ DOMAIN T = 1 .. Len(T)
  BY SeqIs
<1>7. ASSUME Len(B) >= 1, IsRest(B[Len(B)])
      PROVE  u \in {CR, LF} /\ (r + 1 < Len(T) => T[(r + 1) + 1] \in {CR, LF})
  <2>1. r \in DOMAIN T /\ IsRest(T[r])
    BY <1>4, <1>7
  <2>2. /\ r + 1 <= Len(T) => T[r + 1] \in {CR, LF}
        /\ r + 2 <= Len(T) => T[r + 2] \in {CR, LF}
    BY <2>1, AfterRest
  <2>3. r + 1 <= Len(T) /\ (r + 1) + 1 = r + 2 /\ (r + 1 < Len(T) => r + 2 <= Len(T))
    BY <1>6
  <2> QED
    BY <1>1, <2>2, <2>3
<1>8. Follows(v, B)
  <2>1. \A i : IsRest(RestOf(i))
    BY DEF IsRest, RestOf, Unit
  <2> QED
    BY <1>4, <1>5, <1>7, <2>1 DEF Follows
<1>9. Adjacent(C)
  BY <1>1, <1>2, <1>3, <1>5, <1>8, AppendAdjacent
<1>10. PICK m \in Nat : m = r + 1 /\ m \in 0 .. Len(T) /\ m > 0 /\ r <= m /\ m \in 1 .. m
  BY <1>6
<1>11. Continues(C, T, m)
  <2>1. IsHalf(T[m]) \/ IsRest(T[m]) \/ IsHalf(v) \/ IsRest(v) => v = T[m]
    BY <1>1, <1>5, <1>10
  <2>2. Len(B) >= 1 /\ IsRest(B[Len(B)]) /\ m < Len(T) => T[m + 1] \in {CR, LF}
    BY <1>7, <1>10
  <2> QED
    BY <1>1, <1>2, <1>5, <1>10, <2>1, <2>2, AppendContinues
<1>12. ASSUME IsRest(v)
       PROVE  /\ v.event > n /\ \E j \in 1 .. m : T[j] = v
              /\ \A k \in DOMAIN B : IsRest(B[k]) => B[k].event < v.event
  <2>1. v = u /\ v = T[m] /\ m \in DOMAIN T /\ T[m].kind = "rest"
    BY <1>1, <1>4, <1>5, <1>10, <1>12 DEF IsRest
  <2>2. \A j \in 1 .. (m - 1) : T[j].kind = "rest" => T[j].event < T[m].event
    BY <2>1 DEF WellWritten
  <2>3. \A j \in 1 .. r : IsRest(T[j]) => T[j].event < v.event
    BY <1>10, <2>1, <2>2 DEF IsRest
  <2>4. ASSUME NEW k \in DOMAIN B, IsRest(B[k]) PROVE B[k].event < v.event
    <3>1. PICK j \in 1 .. r : T[j] = B[k]
      BY <1>3, <2>4, Zenon DEF Numbered
    <3> QED
      BY <2>3, <2>4, <3>1
  <2>5. v.event \in Nat \ {0}
    <3>1. T[m - 1] = Unit("half", T[m].event) /\ m > 1
      BY <2>1 DEF WellWritten
    <3>2. m - 1 \in DOMAIN T
      BY <1>6, <1>10, <2>1, <3>1
    <3>5. T[m - 1].kind = "half"
      BY <3>1 DEF Unit
    <3>3. T[m - 1].event \in DOMAIN E
      BY <3>2, <3>5, Zenon DEF WellWritten
    <3>4. T[m - 1].event = v.event
      BY <2>1, <3>1 DEF Unit
    <3> QED
      BY <3>3, <3>4, SeqIs
  <2>6. v.event > n
    <3>1. SUFFICES ASSUME v.event <= n PROVE FALSE
      BY <2>5
    <3>2. v.event \in 1 .. n
      BY <2>5, <3>1
    <3>3. PICK j \in 1 .. r : T[j] = RestOf(v.event)
      BY <1>3, <3>2, Zenon DEF Numbered
    <3>4. IsRest(T[j]) /\ T[j].event = v.event
      BY <3>3 DEF IsRest, RestOf, Unit
    <3>5. T[j].event < v.event
      BY <2>3, <3>4
    <3> QED
      BY <2>5, <3>4, <3>5
  <2> QED
    BY <1>10, <2>1, <2>4, <2>6
<1>13. \A j \in 1 .. m : IsRest(T[j]) => j <= r \/ T[j] = v
  <2>1. \A j \in 1 .. m : j <= r \/ j = m
    BY <1>10
  <2> QED
    BY <1>1, <1>5, <1>10, <2>1
<1>14. Numbered(C, T, m, n)
  BY <1>1, <1>2, <1>3, <1>5, <1>10, <1>12, <1>13, AppendNumbered
<1> QED
  BY <1>9, <1>10, <1>11, <1>14, Zenon DEF LinkedTo

LEMMA LinkPair ==
    ASSUME NEW B \in Seq(Units), NEW T \in Seq(Units), NEW E \in Seq(Events), WellWritten(T, E),
           NEW r \in Nat, r + 1 < Len(T), NEW n \in Nat, LinkedTo(B, T, r, n),
           T[r + 1] = CR, T[r + 2] = LF, NEW C, C = Append(B, LF)
    PROVE  LinkedTo(C, T, r + 2, n)
<1>1. Adjacent(B) /\ Continues(B, T, r) /\ Numbered(B, T, r, n)
  BY Zenon DEF LinkedTo
<1>2. Len(T) \in Nat /\ DOMAIN T = 1 .. Len(T) /\ r < Len(T)
  BY SeqIs
<1>3. /\ Len(B) >= 1 /\ IsHalf(B[Len(B)]) => CR = RestOf(B[Len(B)].event)
      /\ Len(B) >= 1 /\ IsRest(B[Len(B)]) => r \in DOMAIN T /\ T[r] = B[Len(B)]
  <2>1. PICK u : u = T[r + 1]
    OBVIOUS
  <2>2. /\ Len(B) >= 1 /\ IsHalf(B[Len(B)]) => u = RestOf(B[Len(B)].event)
        /\ Len(B) >= 1 /\ IsRest(B[Len(B)]) => r \in DOMAIN T /\ T[r] = B[Len(B)]
    BY <1>1, <1>2, <2>1, EndOfBuffer, SMTT(30)
  <2>3. u = CR
    BY <2>1
  <2> QED
    BY <2>2, <2>3, Zenon
<1>4. \A i : IsRest(RestOf(i))
  BY DEF IsRest, RestOf, Unit
<1>5. Follows(LF, B)
  BY <1>3, <1>4, LineFeeds DEF Follows
<1>6. Adjacent(C)
  BY <1>1, <1>5, LineFeeds, AppendAdjacent
<1>7. PICK m \in Nat : m = r + 2 /\ m \in 0 .. Len(T) /\ m > 0 /\ r <= m
  BY <1>2
<1>8. Continues(C, T, m)
  <2>1. IsHalf(T[m]) \/ IsRest(T[m]) \/ IsHalf(LF) \/ IsRest(LF) => LF = T[m]
    BY <1>7
  <2>2. ASSUME Len(B) >= 1, IsRest(B[Len(B)]), m < Len(T) PROVE T[m + 1] \in {CR, LF}
    <3>1. r \in DOMAIN T /\ IsRest(T[r])
      BY <1>3, <2>2
    <3>2. r + 3 <= Len(T) => T[r + 3] \in {CR, LF}
      BY <3>1, AfterRest
    <3>3. m + 1 = r + 3 /\ r + 3 <= Len(T)
      BY <1>2, <1>7, <2>2
    <3> QED
      BY <3>2, <3>3
  <2> QED
    BY <1>7, <2>1, <2>2, LineFeeds, AppendContinues
<1>9. \A j \in 1 .. m : IsRest(T[j]) => j <= r \/ T[j] = LF
  <2>1. \A j \in 1 .. m : j <= r \/ j = r + 1 \/ j = r + 2
    BY <1>7
  <2> QED
    BY <2>1, LineFeeds
<1>10. Numbered(C, T, m, n)
  BY <1>1, <1>7, <1>9, LineFeeds, AppendNumbered
<1> QED
  BY <1>6, <1>7, <1>8, <1>10, Zenon DEF LinkedTo

LEMMA AppendJoined ==
    ASSUME NEW R, NEW s \in Seq(R), NEW t \in Seq(R), NEW x \in R
    PROVE  /\ s \o Append(t, x) = Append(s \o t, x) /\ s \o t \in Seq(R)
           /\ Append(t, x) \in Seq(R) /\ s \o <<>> = s
OBVIOUS

\* A unit after another text, and that after the text before it.
LongerBy(b, u, c) == c = Append(b, NormalUnit(u))
JoinedBy(B, b, u, c) ==
    /\ c \in Seq(Units)
    /\ \E D, F \in Seq(Units) : D = B \o b /\ F = B \o c /\ F = Append(D, NormalUnit(u))

LEMMA NormalAppended ==
    ASSUME NEW B \in Seq(Units), NEW b \in Seq(Units), NEW u \in Units,
           NEW c, LongerBy(b, u, c)
    PROVE  JoinedBy(B, b, u, c)
<1>1. PICK v \in Units : v = NormalUnit(u)
  BY NormalUnitIs
<1>2. c = Append(b, v)
  BY <1>1 DEF LongerBy
<1>3. B \o Append(b, v) = Append(B \o b, v) /\ B \o b \in Seq(Units) /\ Append(b, v) \in Seq(Units)
  BY AppendJoined
<1>4. PICK D \in Seq(Units) : D = B \o b
  BY <1>3
<1>0. Append(D, v) \in Seq(Units)
  BY AppendJoined, Zenon
<1>5. PICK F \in Seq(Units) : F = Append(D, v)
  BY <1>0, Zenon
<1>6. F = B \o c
  BY <1>2, <1>3, <1>4, <1>5, Zenon
<1> QED
  BY <1>1, <1>2, <1>3, <1>4, <1>5, <1>6, Zenon DEF JoinedBy

\* The text so far, q units of it read: of a pair the line feed is still to come.
Reaches(chunk, k, B, b, T, q, n) ==
    IF k > 0 /\ IsPair(chunk, k) THEN q > 0 /\ LinkedTo(B \o b, T, q - 1, n)
    ELSE LinkedTo(B \o b, T, q, n)

LEMMA ReadUnit ==
    ASSUME NEW B \in Seq(Units), NEW T \in Seq(Units), NEW E \in Seq(Events), WellWritten(T, E),
           NEW q \in Nat, q < Len(T), NEW n \in Nat,
           NEW chunk \in Seq(Units), NEW k \in Nat, k < Len(chunk),
           chunk[k + 1] = T[q + 1], k > 0 => chunk[k] = T[q], k <= q,
           NEW b \in Seq(Units), Reaches(chunk, k, B, b, T, q, n),
           NEW c, c = Normal(chunk, k + 1, b)
    PROVE  c \in Seq(Units) /\ Reaches(chunk, k + 1, B, c, T, q + 1, n)
<1>1. q + 1 \in DOMAIN T /\ Len(T) \in Nat /\ (q + 1) - 1 = q /\ q + 1 > 0 /\ k + 1 > 0
  OBVIOUS
<1>2. T[q + 1] \in Units
  BY <1>1, SeqIs, Zenon
<1>3. CASE IsPair(chunk, k + 1)
  <2>1. c = b
    BY <1>3 DEF Normal
  <2>2. ~(k > 0 /\ IsPair(chunk, k))
    BY <1>3, LineFeeds DEF IsPair
  <2>3. LinkedTo(B \o b, T, q, n)
    BY <2>2, Zenon DEF Reaches
  <2> QED
    BY <1>1, <1>3, <2>1, <2>3 DEF Reaches
<1>4. CASE ~IsPair(chunk, k + 1)
  <2>1. c = Append(b, NormalUnit(T[q + 1]))
    BY <1>4 DEF Normal
  <2>2. NormalUnit(T[q + 1]) \in Units
    BY <1>2, NormalUnitIs
  <2>3. JoinedBy(B, b, T[q + 1], c)
    <3>1. LongerBy(b, T[q + 1], c)
      BY <2>1, Zenon DEF LongerBy
    <3> QED
      BY <1>2, <3>1, NormalAppended, Zenon
  <2>6. PICK D \in Seq(Units), F \in Seq(Units) :
            D = B \o b /\ F = B \o c /\ F = Append(D, NormalUnit(T[q + 1]))
    BY <2>3, Zenon DEF JoinedBy
  <2>7. c \in Seq(Units)
    BY <2>3, Zenon DEF JoinedBy
  <2>4. CASE k > 0 /\ IsPair(chunk, k)
    <3>1. q > 0 /\ LinkedTo(D, T, q - 1, n)
      BY <2>4, <2>6, Zenon DEF Reaches
    <3>2. T[q] = CR /\ T[q + 1] = LF
      BY <2>4 DEF IsPair
    <3>3. PICK p \in Nat : p = q - 1 /\ p + 1 = q /\ p + 2 = q + 1 /\ p + 1 < Len(T)
      BY <1>1, <3>1
    <3>4. LinkedTo(D, T, p, n) /\ T[p + 1] = CR /\ T[p + 2] = LF
      BY <3>1, <3>2, <3>3
    <3>5. F = Append(D, LF)
      BY <2>6, <3>2, LineFeeds DEF NormalUnit
    <3>6. LinkedTo(F, T, p + 2, n)
      BY <3>3, <3>4, <3>5, LinkPair
    <3> QED
      BY <1>4, <2>7, <2>6, <3>3, <3>6, Zenon DEF Reaches
  <2>5. CASE ~(k > 0 /\ IsPair(chunk, k))
    <3>1. LinkedTo(D, T, q, n)
      BY <2>5, <2>6, Zenon DEF Reaches
    <3>2. LinkedTo(F, T, q + 1, n)
      BY <2>6, <3>1, LinkOne
    <3> QED
      BY <1>4, <2>7, <2>6, <3>2, Zenon DEF Reaches
  <2> QED
    BY <2>4, <2>5
<1> QED
  BY <1>3, <1>4

LEMMA ChunkLinked ==
    ASSUME NEW B \in Seq(Units), NEW T \in Seq(Units), NEW E \in Seq(Events), WellWritten(T, E),
           NEW r \in Nat, NEW n \in Nat, LinkedTo(B, T, r, n),
           NEW m \in Nat, r + m <= Len(T), NEW chunk, chunk = SubSeq(T, r + 1, r + m)
    PROVE  /\ NormalizeChunk(chunk) \in Seq(Units)
           /\ LinkedTo(B \o NormalizeChunk(chunk), T, r + m, n)
<1>1. Len(T) \in Nat /\ DOMAIN T = 1 .. Len(T)
  OBVIOUS
<1>2. /\ chunk \in Seq(Units) /\ Len(chunk) = m
      /\ \A k \in 1 .. m : chunk[k] = T[r + k]
  <2>1. chunk \in Seq(Units) /\ Len(chunk) = (r + m) - (r + 1) + 1
    BY <1>1
  <2>2. (r + m) - (r + 1) + 1 = m
    OBVIOUS
  <2>3. \A k \in 1 .. m : chunk[k] = T[(r + 1) + k - 1]
    BY <1>1
  <2>4. \A k \in 1 .. m : (r + 1) + k - 1 = r + k
    OBVIOUS
  <2> QED
    BY <2>1, <2>2, <2>3, <2>4
<1> DEFINE G == [k \in 0 .. m |-> {b \in Seq(Units) : Reaches(chunk, k, B, b, T, r + k, n)}]
<1>3. <<>> \in G[0]
  <2>1. LinkedTo(B \o <<>>, T, r, n)
    <3>1. B \o <<>> = B
      OBVIOUS
    <3> QED
      BY <3>1
  <2>2. Reaches(chunk, 0, B, <<>>, T, r + 0, n)
    BY <2>1 DEF Reaches
  <2> QED
    BY <2>2
<1>4. ASSUME NEW k \in 0 .. m, k + 1 \in 0 .. m, NEW b \in G[k]
      PROVE  Normal(chunk, k + 1, b) \in G[k + 1]
  <2>1. PICK c : c = Normal(chunk, k + 1, b)
    OBVIOUS
  <2>2. PICK q \in Nat : q = r + k
    OBVIOUS
  <2>3. b \in Seq(Units) /\ Reaches(chunk, k, B, b, T, q, n)
    BY <1>4, <2>2
  <2> HIDE DEF G
  <2>4. k \in Nat /\ k < Len(chunk) /\ q < Len(T) /\ k <= q
    BY <1>1, <1>2, <1>4, <2>2
  <2>5. chunk[k + 1] = T[q + 1]
    <3>1. k + 1 \in 1 .. m /\ r + (k + 1) = q + 1
      BY <1>4, <2>2, SMTT(30)
    <3> QED
      BY <1>2, <3>1
  <2>6. k > 0 => chunk[k] = T[q]
    BY <1>2, <2>2
  <2>7. c \in Seq(Units) /\ Reaches(chunk, k + 1, B, c, T, q + 1, n)
    BY <1>2, <2>1, <2>3, <2>4, <2>5, <2>6, ReadUnit
  <2>8. q + 1 = r + (k + 1)
    BY <2>2
  <2> QED
    BY <1>4, <2>1, <2>7, <2>8 DEF G
<1>5. NormalizeChunk(chunk) \in G[m]
  <2> HIDE DEF G
  <2>1. \A k \in 0 .. Len(chunk) : k + 1 \in 0 .. Len(chunk) =>
            \A b \in G[k] : Normal(chunk, k + 1, b) \in G[k + 1]
    BY <1>2, <1>4
  <2> QED
    BY <1>2, <1>3, <2>1, NormalizeIn
<1>6. /\ NormalizeChunk(chunk) \in Seq(Units)
      /\ Reaches(chunk, m, B, NormalizeChunk(chunk), T, r + m, n)
  <2> HIDE DEF G
  <2>1. m \in 0 .. m
    BY <1>2
  <2>2. G[m] = {b \in Seq(Units) : Reaches(chunk, m, B, b, T, r + m, n)}
    BY <2>1 DEF G
  <2> QED
    BY <1>5, <2>2
<1>7. ~IsPair(chunk, m)
  BY <1>2, SMTT(30) DEF IsPair
<1> QED
  BY <1>6, <1>7, Zenon DEF Reaches

------------------------------------------------------------------------------
(***************************************************************************)
(* What happens to the stream.                                             *)
(***************************************************************************)

\* OpenCode has read nothing more, or the next event.
Grows(t, s) ==
    \/ t.out = s.out
    \/ /\ Len(s.out) + 1 \in DOMAIN answer.events
       /\ t.out = Append(s.out, Renamed(answer.events[Len(s.out) + 1]))

LEMMA SameSeq ==
    ASSUME NEW R, NEW s \in Seq(R), NEW t \in Seq(R), Len(s) = Len(t),
           \A i \in DOMAIN s : s[i] = t[i]
    PROVE  s = t
OBVIOUS

LEMMA EventsAre ==
    ASSUME AnswerWritten
    PROVE  /\ answer.events \in Seq(Events) /\ answer.text \in Seq(Units)
           /\ Len(answer.events) \in Nat /\ Len(answer.text) \in Nat
           /\ DOMAIN answer.events = 1 .. Len(answer.events)
           /\ DOMAIN answer.text = 1 .. Len(answer.text)
           /\ \A i \in DOMAIN answer.events :
                  answer.events[i] \in Events /\ Renamed(answer.events[i]) \in Events
<1>1. answer.events \in Seq(Events) /\ answer.text \in Seq(Units)
  BY DEF AnswerWritten, AnswerSet
<1>2. \A i \in DOMAIN answer.events : answer.events[i] \in Events
  BY <1>1, SeqIs, Zenon
<1> QED
  BY <1>1, <1>2, RenamedIs

\* What OpenCode has read is known by how much it is.
LEMMA ReadOnly ==
    ASSUME AnswerWritten, NEW s \in StreamSet, NEW t \in StreamSet, InOut(s), InOut(t),
           Len(t.out) = Len(s.out) \/ Len(t.out) = Len(s.out) + 1
    PROVE  Grows(t, s)
<1>1. PICK a \in Seq(Events) : a = s.out
  BY StreamFields
<1>2. PICK b \in Seq(Events) : b = t.out
  BY StreamFields
<1>3. /\ \A i \in DOMAIN a : a[i] = Renamed(answer.events[i])
      /\ \A i \in DOMAIN b : b[i] = Renamed(answer.events[i])
  BY <1>1, <1>2 DEF InOut
<1>4. Len(a) \in Nat /\ Len(b) \in Nat /\ DOMAIN a = 1 .. Len(a) /\ DOMAIN b = 1 .. Len(b)
  OBVIOUS
<1>5. CASE Len(b) = Len(a)
  <2>1. b = a
    BY <1>3, <1>4, <1>5, SameSeq
  <2> QED
    BY <1>1, <1>2, <2>1 DEF Grows
<1>6. CASE Len(b) = Len(a) + 1
  <2>1. Len(b) <= Len(answer.events)
    <3>1. Passed(t) <= Len(answer.events) /\ Passed(t) = Len(b) + Len(t.queue)
      BY <1>2 DEF InOut, Passed
    <3>2. Len(t.queue) \in Nat /\ Len(answer.events) \in Nat
      BY PassedTyped, EventsAre
    <3> QED
      BY <1>4, <3>1, <3>2
  <2>2. Len(a) + 1 \in DOMAIN answer.events
    BY <1>4, <1>6, <2>1, EventsAre
  <2>3. PICK e \in Events : e = Renamed(answer.events[Len(a) + 1])
    BY <2>2, EventsAre
  <2>4. PICK c : c = Append(a, e)
    OBVIOUS
  <2>5. /\ c \in Seq(Events) /\ Len(c) = Len(a) + 1 /\ DOMAIN c = 1 .. (Len(a) + 1)
        /\ \A k \in DOMAIN a : c[k] = a[k]
        /\ c[Len(a) + 1] = e
    BY <2>3, <2>4, Appended
  <2>6. \A i \in DOMAIN b : b[i] = c[i]
    <3>1. ASSUME NEW i \in DOMAIN b PROVE b[i] = c[i]
      <4>1. i \in DOMAIN a \/ i = Len(a) + 1
        BY <1>4, <1>6
      <4> QED
        BY <1>3, <2>3, <2>5, <4>1
    <3> QED
      BY <3>1
  <2>7. b = c
    BY <1>6, <2>5, <2>6, SameSeq
  <2> QED
    BY <1>1, <1>2, <2>2, <2>3, <2>4, <2>7 DEF Grows
<1> QED
  BY <1>1, <1>2, <1>5, <1>6

\* When a pull has ended, or has brought nothing and goes on.
LEMMA PullEnded ==
    ASSUME NEW s \in StreamSet, s.phase = "open", Pulled(s),
           NEW t, t = IF s.emitted THEN PullDone(s) ELSE s
    PROVE  /\ t \in StreamSet /\ PullOK(t) /\ SameParser(t, s) /\ t.phase = "open"
           /\ t.out = s.out /\ t.queue = s.queue
<1>1. s.barren \in Nat
  BY StreamFields
<1>2. CASE s.emitted
  <2>1. t = PullDone(s)
    BY <1>2
  <2>2. /\ t \in StreamSet /\ SameParser(t, s)
        /\ t.out = s.out /\ t.queue = s.queue /\ t.waiting = s.waiting
        /\ t.phase = s.phase /\ t.barren = s.barren
        /\ t.pulling <=> s.again /\ ShouldPull(s)
        /\ ~t.again
    BY <2>1, PullDoneIs
  <2>3. PullOK(t)
    BY <1>1, <1>2, <2>2 DEF PullOK, Pulled, ShouldPull
  <2> QED
    BY <2>2, <2>3
<1>3. CASE ~s.emitted
  <2>1. t = s
    BY <1>3
  <2>2. PullOK(t)
    BY <1>1, <1>3, <2>1 DEF PullOK, Pulled
  <2> QED
    BY <2>1, <2>2 DEF SameParser
<1> QED
  BY <1>2, <1>3

\* A pull starts out having told nothing.
LEMMA PullBegun ==
    ASSUME NEW s \in StreamSet, NEW t, t = [s EXCEPT !.emitted = FALSE]
    PROVE  /\ t \in StreamSet /\ t.emitted = FALSE /\ SameReader(t, s) /\ SameAccount(t, s)
           /\ t.read = s.read /\ t.buffer = s.buffer /\ t.phase = s.phase /\ t.usage = s.usage
           /\ t.barren = s.barren
BY DEF StreamSet, SameReader, SameAccount

\* A chunk goes to the buffer: so far nothing is emitted.
LEMMA ChunkComes ==
    ASSUME AnswerWritten, stream \in StreamSet, StreamOK(stream), Reading,
           NEW n \in Nat, stream.read + n <= Len(answer.text),
           NEW more, more = NormalizeChunk(SubSeq(answer.text, stream.read + 1, stream.read + n)),
           NEW s, s = [stream EXCEPT !.read = @ + n, !.buffer = @ \o more]
    PROVE  s \in StreamSet /\ Ongoing([s EXCEPT !.emitted = FALSE]) /\ s.out = stream.out
<1>1. PICK r \in Nat : r = stream.read
  BY StreamFields
<1>2. PICK B \in Seq(Units) : B = stream.buffer
  BY StreamFields
<1>3. PICK m \in Nat : m = r + n
  OBVIOUS
<1>4. stream.phase = "open" /\ stream.pulling
  BY DEF Reading
<1>5. PullOK(stream) /\ Linked(stream) /\ Accounted(stream) /\ InOut(stream) /\ AllSent(stream)
      /\ stream.usage = 0
  BY <1>4 DEF StreamOK
<1>6. PICK p \in Nat : p = Passed(stream)
  BY PassedTyped
<1>7. LinkedTo(B, answer.text, r, p)
  BY <1>1, <1>2, <1>5, <1>6, Zenon DEF Linked, LinkedTo
<1>8. more \in Seq(Units) /\ LinkedTo(B \o more, answer.text, m, p)
  <2>1. answer.text \in Seq(Units) /\ answer.events \in Seq(Events)
        /\ WellWritten(answer.text, answer.events)
    BY EventsAre DEF AnswerWritten
  <2>2. PICK chunk : chunk = SubSeq(answer.text, r + 1, r + n)
    OBVIOUS
  <2>3. /\ NormalizeChunk(chunk) \in Seq(Units)
        /\ LinkedTo(B \o NormalizeChunk(chunk), answer.text, r + n, p)
    BY <1>1, <1>7, <2>1, <2>2, ChunkLinked
  <2> QED
    BY <1>1, <1>3, <2>2, <2>3
<1>9. PICK new \in Seq(Units) : new = B \o more /\ LinkedTo(new, answer.text, m, p)
  <2>1. B \o more \in Seq(Units)
    BY <1>8, Joined
  <2> QED
    BY <1>8, <2>1
<1>10. s = [stream EXCEPT !.read = m, !.buffer = new]
  BY <1>1, <1>2, <1>3, <1>9
<1>11. /\ s \in StreamSet /\ s.read = m /\ s.buffer = new /\ SameReader(s, stream)
       /\ s.phase = "open" /\ s.usage = 0 /\ SameAccount(s, stream)
       /\ s.barren = stream.barren
  BY <1>4, <1>5, <1>10, ZenonT(30) DEF StreamSet, SameReader, SameAccount
<1>12. PICK t : t = [s EXCEPT !.emitted = FALSE]
  OBVIOUS
<1>13. /\ t \in StreamSet /\ t.read = m /\ t.buffer = new /\ SameReader(t, stream)
       /\ t.phase = "open" /\ t.usage = 0 /\ SameAccount(t, stream)
       /\ t.barren = stream.barren /\ t.emitted = FALSE
  <2>1. /\ t \in StreamSet /\ t.emitted = FALSE /\ SameReader(t, s) /\ SameAccount(t, s)
        /\ t.read = s.read /\ t.buffer = s.buffer /\ t.phase = s.phase /\ t.usage = s.usage
        /\ t.barren = s.barren
    BY <1>11, <1>12, PullBegun, ZenonT(30)
  <2> QED
    BY <1>11, <2>1, Zenon DEF SameReader, SameAccount
<1>14. Passed(t) = Passed(stream) /\ InOut(t) /\ Accounted(t) /\ AllSent(t)
  BY <1>5, <1>13, SamePassed, SameAccounted DEF AllSent
<1>15. Linked(t)
  BY <1>6, <1>9, <1>13, <1>14, Zenon DEF Linked, LinkedTo
<1>16. Pulled(t)
  BY <1>4, <1>5, <1>13 DEF Pulled, PullOK, SameReader
<1> QED
  BY <1>11, <1>12, <1>13, <1>14, <1>15, <1>16 DEF Ongoing, SameReader

LEMMA ArriveIs ==
    ASSUME AnswerWritten, stream \in StreamSet, StreamOK(stream), NEW n \in 1 .. Coming, Arrive(n)
    PROVE  /\ answer' = answer
           /\ \E t \in StreamSet :
                  /\ stream' = t /\ StreamOK(t) /\ Grows(t, stream)
                  /\ t.phase \in {"open", "failing"} /\ t.usage = stream.usage
                  /\ stream.phase = "open"
<1>1. PICK more : more = NormalizeChunk(SubSeq(answer.text, stream.read + 1, stream.read + n))
  OBVIOUS
<1>2. PICK s1 : s1 = [stream EXCEPT !.read = @ + n, !.buffer = @ \o more]
  OBVIOUS
<1>3. PICK s2 : s2 = ProcessBufferedEvents(s1)
  OBVIOUS
<1>4. /\ stream' = IF s2.phase = "open" /\ PullEnds(s2) THEN PullDone(s2) ELSE s2
      /\ answer' = answer /\ Reading
  BY <1>1, <1>2, <1>3, Zenon DEF Arrive
<1>5. n \in Nat /\ stream.read + n <= Len(answer.text)
  BY StreamFields, EventsAre DEF Coming
<1>6. s1 \in StreamSet /\ Ongoing([s1 EXCEPT !.emitted = FALSE]) /\ s1.out = stream.out
  BY <1>1, <1>2, <1>4, <1>5, ChunkComes
<1>7. PICK l \in Nat : l = Len(stream.out)
  BY PassedTyped
<1> DEFINE Good == {t \in StreamSet : Ongoing(t) /\ AtMostOneRead(t, l)}
<1>8. s2 \in Good
  <2>1. PICK t : t = [s1 EXCEPT !.emitted = FALSE]
    OBVIOUS
  <2>2. t.out = stream.out /\ t \in StreamSet
    BY <1>6, <2>1 DEF StreamSet
  <2>3. t \in Good
    BY <1>6, <1>7, <2>1, <2>2 DEF AtMostOneRead
  <2>4. \A u \in Good : TakeBlock(u) \in Good
    <3>1. ASSUME NEW u \in Good PROVE TakeBlock(u) \in Good
      <4>1. PICK v : v = TakeBlock(u)
        OBVIOUS
      <4>2. Ongoing(u) /\ AtMostOneRead(u, l)
        OBVIOUS
      <4>3. Ongoing(v) /\ AtMostOneRead(v, l)
        BY <1>7, <4>1, <4>2, TakeBlockIs
      <4> QED
        BY <4>1, <4>3 DEF Ongoing
    <3> QED
      BY <3>1
  <2> HIDE DEF Good
  <2> QED
    BY <1>3, <1>6, <2>1, <2>3, <2>4, ProcessIn
<1>9. s2 \in StreamSet /\ Ongoing(s2) /\ AtMostOneRead(s2, l)
  BY <1>8
<1> HIDE DEF Good
<1>10. InOut(s2) /\ AllSent(s2) /\ s2.usage = 0 /\ s2.phase \in {"open", "failing"}
  BY <1>9, Zenon DEF Ongoing
<1>11. stream.phase = "open" /\ stream.usage = 0 /\ InOut(stream)
  BY <1>4, Zenon DEF StreamOK, Reading
<1>12. Len(s2.out) = Len(stream.out) \/ Len(s2.out) = Len(stream.out) + 1
  BY <1>7, <1>9, Zenon DEF AtMostOneRead
<1>13. Grows(s2, stream)
  BY <1>9, <1>10, <1>11, <1>12, ReadOnly, Zenon
<1>14. CASE s2.phase # "open"
  <2>1. stream' = s2
    BY <1>4, <1>14
  <2>2. StreamOK(s2)
    BY <1>10, <1>14 DEF StreamOK
  <2> QED
    BY <1>4, <1>9, <1>10, <1>11, <1>13, <2>1, <2>2
<1>15. CASE s2.phase = "open"
  <2>1. PICK t : t = IF s2.emitted THEN PullDone(s2) ELSE s2
    OBVIOUS
  <2>2. stream' = t
    BY <1>4, <1>15, <2>1 DEF PullEnds
  <2>3. Linked(s2) /\ Accounted(s2) /\ Pulled(s2)
    BY <1>9, <1>15, Zenon DEF Ongoing
  <2>4. /\ t \in StreamSet /\ PullOK(t) /\ SameParser(t, s2) /\ t.phase = "open"
        /\ t.out = s2.out /\ t.queue = s2.queue
    BY <1>9, <1>15, <2>1, <2>3, PullEnded
  <2>5. Passed(t) = Passed(s2)
    BY <2>4 DEF Passed
  <2>6. InOut(t) /\ AllSent(t) /\ Linked(t) /\ Accounted(t) /\ t.usage = 0
    <3>1. InOut(t) /\ AllSent(t)
      BY <1>10, <2>4, <2>5, Zenon DEF InOut, AllSent
    <3>2. t.buffer = s2.buffer /\ t.read = s2.read /\ t.usage = s2.usage
          /\ t.stats = s2.stats /\ t.open = s2.open /\ t.stopped = s2.stopped
      BY <2>4, Zenon DEF SameParser
    <3>3. Linked(t)
      BY <2>3, <2>5, <3>2, Zenon DEF Linked
    <3>4. Accounted(t)
      BY <2>3, <2>5, <3>2 DEF Accounted
    <3> QED
      BY <1>10, <3>1, <3>2, <3>3, <3>4
  <2>7. StreamOK(t) /\ Grows(t, stream)
    BY <1>13, <2>4, <2>6 DEF StreamOK, Grows
  <2> QED
    BY <1>4, <1>11, <2>2, <2>4, <2>6, <2>7
<1> QED
  BY <1>14, <1>15

\* What the server has sent in full: the first events of the answer.
LEMMA WholeIs ==
    ASSUME AnswerWritten
    PROVE  \E m \in 0 .. Len(answer.events) : Whole(answer.text) = 1 .. m
<1> DEFINE W == Whole(answer.text)
<1>1. \A i \in W : i \in DOMAIN answer.events /\ (i > 1 => i - 1 \in W)
  <2>1. ASSUME NEW i \in W PROVE i \in DOMAIN answer.events /\ (i > 1 => i - 1 \in W)
    <3>1. PICK k \in DOMAIN answer.text : answer.text[k].kind = "rest" /\ answer.text[k].event = i
      BY DEF Whole
    <3>2. WellWritten(answer.text, answer.events)
      BY DEF AnswerWritten
    <3>3. k > 1 /\ answer.text[k - 1] = Unit("half", i)
      BY <3>1, <3>2, Zenon DEF WellWritten
    <3>4. k - 1 \in DOMAIN answer.text
      BY <3>3, EventsAre
    <3>5. i \in DOMAIN answer.events
      <4>1. answer.text[k - 1].kind = "half" /\ answer.text[k - 1].event = i
        BY <3>3 DEF Unit
      <4> QED
        BY <3>2, <3>4, <4>1, Zenon DEF WellWritten
    <3>6. ASSUME i > 1 PROVE i - 1 \in W
      <4>1. PICK j \in 1 .. (k - 1) : answer.text[j] = Unit("rest", i - 1)
        BY <3>1, <3>2, <3>6, Zenon DEF WellWritten
      <4>2. j \in DOMAIN answer.text
        BY <3>1, EventsAre
      <4>3. answer.text[j].kind = "rest" /\ answer.text[j].event = i - 1
        BY <4>1 DEF Unit
      <4> QED
        BY <4>2, <4>3 DEF Whole
    <3> QED
      BY <3>5, <3>6
  <2> QED
    BY <2>1
<1> HIDE DEF W
<1>2. PICK l \in Nat : l = Len(answer.events) /\ DOMAIN answer.events = 1 .. l
  BY EventsAre
<1>3. W \subseteq 1 .. l
  BY <1>1, <1>2
<1>4. PICK k \in Nat : k + 1 \notin W /\ \A j \in Nat : j + 1 \notin W => k <= j
  <2> DEFINE S == {j \in Nat : j + 1 \notin W}
  <2>1. l \in S
    BY <1>2, <1>3
  <2>2. S \subseteq Nat
    OBVIOUS
  <2> HIDE DEF S
  <2>3. \E k \in S : \A j \in S : k <= j
    BY <2>1, <2>2, LeastNat
  <2> QED
    BY <2>3 DEF S
<1>5. k <= l
  BY <1>2, <1>3, <1>4
<1>6. ASSUME NEW i \in 1 .. k PROVE i \in W
  <2>1. i - 1 \in Nat /\ (i - 1) + 1 = i /\ ~(k <= i - 1)
    BY <1>4
  <2> QED
    BY <1>4, <2>1
<1>7. ASSUME NEW i \in W, i > k PROVE FALSE
  <2> DEFINE S == {j \in W : j > k}
  <2>1. S \subseteq Nat /\ i \in S
    <3>1. W \subseteq Nat
      BY <1>2, <1>3
    <3>2. S \subseteq W
      OBVIOUS
    <3>3. i \in S
      BY <1>7
    <3> QED
      BY <3>1, <3>2, <3>3
  <2> HIDE DEF S
  <2>2. PICK j \in S : \A g \in S : j <= g
    BY <2>1, LeastNat
  <2>3. j \in W /\ j > k /\ j \in Nat /\ j # k + 1
    BY <1>4, <2>1, <2>2 DEF S
  <2>4. j - 1 \in S
    BY <1>1, <1>4, <2>3 DEF S
  <2>5. ~(j <= j - 1)
    BY <2>3
  <2> QED
    BY <2>2, <2>4, <2>5
<1>8. W = 1 .. k
  <2>1. \A i \in W : i \in 1 .. k
    BY <1>2, <1>3, <1>4, <1>7
  <2>2. \A i \in 1 .. k : i \in W
    BY <1>6
  <2> QED
    BY <2>1, <2>2
<1> QED
  BY <1>2, <1>4, <1>5, <1>8 DEF W

LEMMA SentIs ==
    ASSUME AnswerWritten, NEW m \in 0 .. Len(answer.events), Whole(answer.text) = 1 .. m
    PROVE  /\ Sent \in Seq(Events) /\ Len(Sent) = m /\ DOMAIN Sent = 1 .. m
           /\ \A i \in 1 .. m : i \in DOMAIN answer.events /\ Sent[i] = Renamed(answer.events[i])
<1>1. m \in Nat /\ \A i \in 1 .. m : i \in DOMAIN answer.events
  BY EventsAre
<1>2. Sent = [i \in 1 .. m |-> Renamed(answer.events[i])]
  BY Zenon DEF Sent
<1>3. \A i \in 1 .. m : Renamed(answer.events[i]) \in Events
  BY <1>1, EventsAre
<1>4. Sent \in [1 .. m -> Events]
  BY <1>2, <1>3
<1>5. Sent \in Seq(Events) /\ Len(Sent) = m
  BY <1>1, <1>4
<1> QED
  BY <1>1, <1>2, <1>5

\* Nothing is left of the text but what is in the buffer.
LEMMA RestOfText ==
    ASSUME AnswerWritten, stream \in StreamSet, Linked(stream), Coming = 0,
           NEW n \in Nat, n = Passed(stream)
    PROVE  /\ (\A k \in DOMAIN stream.buffer : ~IsRest(stream.buffer[k])) =>
                  Whole(answer.text) = 1 .. n
           /\ \A i : /\ \E k \in DOMAIN stream.buffer : stream.buffer[k] = RestOf(i)
                     /\ \A k \in DOMAIN stream.buffer :
                            IsRest(stream.buffer[k]) => stream.buffer[k] = RestOf(i)
                     => i = n + 1 /\ Whole(answer.text) = 1 .. (n + 1)
<1>1. PICK B \in Seq(Units) : B = stream.buffer
  BY StreamFields
<1>2. PICK T \in Seq(Units) : T = answer.text
  BY EventsAre
<1>3. PICK r \in Nat : r = stream.read
  BY StreamFields
<1>4. r = Len(T) /\ DOMAIN T = 1 .. r
  BY <1>2, <1>3, EventsAre DEF Coming
<1>5. Numbered(B, T, r, n)
  BY <1>1, <1>2, <1>3, Zenon DEF Linked
<1>6. PICK m \in 0 .. Len(answer.events) : Whole(T) = 1 .. m
  BY <1>2, WholeIs
<1>7. m \in Nat
  BY <1>6, EventsAre
<1>8. n <= m
  <2>1. AllSent(stream)
    BY LinkedSent
  <2>2. 1 .. n \subseteq 1 .. m
    BY <1>2, <1>6, <2>1 DEF AllSent
  <2> QED
    BY <1>7, <2>2
<1>9. \A i \in 1 .. m : i > n => \E k \in DOMAIN B : IsRest(B[k]) /\ B[k].event = i
  <2>1. ASSUME NEW i \in 1 .. m, i > n PROVE \E k \in DOMAIN B : IsRest(B[k]) /\ B[k].event = i
    <3>1. PICK j \in DOMAIN T : T[j].kind = "rest" /\ T[j].event = i
      BY <1>6 DEF Whole
    <3>2. j \in 1 .. r /\ IsRest(T[j]) /\ T[j].event > n
      BY <1>4, <2>1, <3>1 DEF IsRest
    <3>3. PICK k \in DOMAIN B : B[k] = T[j]
      BY <1>5, <3>2, Zenon DEF Numbered
    <3> QED
      BY <3>1, <3>2, <3>3
  <2> QED
    BY <2>1
<1>10. ASSUME \A k \in DOMAIN B : ~IsRest(B[k]) PROVE m = n
  <2>1. ~(n + 1 \in 1 .. m)
    BY <1>9, <1>10
  <2> QED
    BY <1>7, <1>8, <2>1
<1>11. ASSUME NEW i, NEW p \in DOMAIN B, B[p] = RestOf(i),
              \A k \in DOMAIN B : IsRest(B[k]) => B[k] = RestOf(i)
       PROVE  i = n + 1 /\ m = n + 1
  <2>1. IsRest(B[p]) /\ B[p].event = i
    BY <1>11 DEF IsRest, RestOf, Unit
  <2>2. \A k \in DOMAIN B : IsRest(B[k]) => B[k].event = i
    BY <1>11 DEF RestOf, Unit
  <2>3. i = n + 1
    <3>1. WellWritten(T, answer.events) /\ r \in 0 .. Len(T)
      BY <1>2, <1>4 DEF AnswerWritten
    <3>2. \A k \in DOMAIN B : k < p /\ IsRest(B[k]) => B[k].event = B[p].event
      BY <2>1, <2>2, Zenon
    <3>3. B[p].event = n + 1
      BY <1>5, <2>1, <3>1, <3>2, NextNumber, Zenon
    <3> QED
      BY <2>1, <3>3
  <2>4. i \in 1 .. m
    <3>1. PICK j \in 1 .. r : T[j] = B[p]
      BY <1>5, <2>1, Zenon DEF Numbered
    <3>2. T[j].kind = "rest" /\ T[j].event = i /\ j \in DOMAIN T
      BY <1>4, <2>1, <3>1 DEF IsRest
    <3> QED
      BY <1>6, <3>2 DEF Whole
  <2>5. \A h \in 1 .. m : h > n => h = n + 1
    BY <1>9, <2>2, <2>3
  <2>6. ~(n + 2 \in 1 .. m)
    BY <2>5
  <2> QED
    BY <1>7, <2>3, <2>4, <2>6
<1> QED
  BY <1>1, <1>2, <1>6, <1>10, <1>11

\* When everything is taken the answer is whole and its tokens are told.
LEMMA AllIsTold ==
    ASSUME AnswerWritten, NEW s \in StreamSet, Accounted(s),
           NEW n \in Nat, n = Passed(s), Whole(answer.text) = 1 .. n,
           Strict => s.stopped /\ s.open = {}
    PROVE  AllTaken(s) /\ s.stats = IF Strict THEN 0 ELSE UsageTold(Sent)
<1>1. n \in 0 .. Len(answer.events)
  <2>1. PICK m \in 0 .. Len(answer.events) : Whole(answer.text) = 1 .. m
    BY WholeIs
  <2>2. m \in Nat
    BY <2>1, EventsAre
  <2>3. n = m
    BY <2>1, <2>2
  <2> QED
    BY <2>1, <2>3
<1>2. PICK E \in Seq(Events) : E = answer.events
  BY EventsAre
<1>3. PICK P \in Seq(Events) : P = Sent
  BY <1>1, SentIs
<1>4. /\ Len(P) = n /\ DOMAIN P = 1 .. n
      /\ \A i \in 1 .. n : E[i] \in Events /\ P[i] = Renamed(E[i])
  BY <1>1, <1>2, <1>3, SentIs, EventsAre
<1>5. \A i \in 1 .. n : P[i].type = E[i].type /\ P[i].usage = E[i].usage /\ P[i].index = E[i].index
  BY <1>4, RenamedIs
<1>6. UsageTold(P) = ToldBy(E, n)
  <2>1. n \in 0 .. Len(E)
    BY <1>1, <1>2
  <2> QED
    BY <1>4, <1>5, <2>1, UsageToldIs
<1>7. /\ s.stats = IF Strict THEN 0 ELSE ToldBy(E, n)
      /\ Strict => Closed(E, n, s.open)
      /\ s.stopped => \E i \in 1 .. n : E[i].type = "message_stop"
  BY <1>2, Zenon DEF Accounted
<1>8. ASSUME Strict PROVE IsWhole(P)
  <2>1. \E i \in DOMAIN P : P[i].type = "message_stop"
    BY <1>4, <1>5, <1>7, <1>8, Zenon
  <2>2. Closed(E, n, {})
    BY <1>7, <1>8, Zenon
  <2>3. ASSUME NEW i \in DOMAIN P, P[i].type = "content_block_start"
        PROVE  \E j \in (i + 1) .. Len(P) :
                   \/ P[j].type = "message_stop"
                   \/ P[j].type = "content_block_stop" /\ P[j].index = P[i].index
    <3>1. i \in 1 .. n /\ E[i].type = "content_block_start" /\ i \in Nat
      BY <1>4, <1>5, <2>3
    <3>2. PICK j \in (i + 1) .. n :
              \/ E[j].type = "message_stop"
              \/ E[j].type = "content_block_stop" /\ E[j].index = E[i].index
      BY <2>2, <3>1 DEF Closed
    <3>3. j \in 1 .. n
      BY <3>1
    <3> QED
      BY <1>4, <1>5, <3>1, <3>2, <3>3
  <2> QED
    BY <2>1, <2>3, Zenon DEF IsWhole
<1> QED
  BY <1>3, <1>4, <1>6, <1>7, <1>8 DEF AllTaken

\* What the stream becomes when the answer is over: closed, or to be closed when
\* the rest was read.
Closes(t) ==
    /\ t.phase \in {"closing", "closed"} /\ AllTaken(t)
    /\ t.phase = "closed" => t.queue = <<>>
    /\ t.phase = "closing" => t.queue # <<>>
    /\ t.usage = IF Strict THEN 0 ELSE UsageTold(Sent)

LEMMA ClosesNow ==
    ASSUME AnswerWritten, NEW s \in StreamSet, s.phase = "open", InOut(s), AllSent(s), AllTaken(s),
           s.stats = IF Strict THEN 0 ELSE UsageTold(Sent),
           NEW t, t = CloseStream([s EXCEPT !.usage = s.stats])
    PROVE  t \in StreamSet /\ StreamOK(t) /\ Closes(t) /\ t.out = s.out
<1>1. PICK n \in Nat : n = s.stats
  BY StreamFields
<1>2. PICK u : u = [s EXCEPT !.usage = n]
  OBVIOUS
<1>3. u \in StreamSet /\ SameReader(u, s) /\ u.usage = n
  BY <1>2 DEF StreamSet, SameReader
<1>4. t = CloseStream(u)
  BY <1>1, <1>2
<1>5. /\ t \in StreamSet /\ SameParser(t, u) /\ t.out = u.out /\ t.queue = u.queue
      /\ t.phase = IF u.queue = <<>> THEN "closed" ELSE "closing"
  BY <1>3, <1>4, CloseStreamIs
<1>6. t.out = s.out /\ t.queue = s.queue /\ t.usage = n
  BY <1>3, <1>5 DEF SameReader, SameParser
<1>7. Passed(t) = Passed(s)
  BY <1>6 DEF Passed
<1>8. InOut(t) /\ AllSent(t) /\ AllTaken(t)
  BY <1>6, <1>7, Zenon DEF InOut, AllSent, AllTaken
<1> QED
  BY <1>1, <1>5, <1>6, <1>8 DEF StreamOK, Closes

LEMMA NoUnits == <<>> \in Seq(Units) /\ <<>> \in Seq(Events)
OBVIOUS

LEMMA EndOfAnswerIs ==
    ASSUME AnswerWritten, stream \in StreamSet, StreamOK(stream), EndOfAnswer
    PROVE  /\ answer' = answer /\ stream.phase = "open" /\ stream.usage = 0
           /\ \E t \in StreamSet :
                  /\ stream' = t /\ StreamOK(t) /\ Grows(t, stream)
                  /\ t.phase = "failing" \/ Closes(t)
<1>1. Reading /\ Coming = 0 /\ answer' = answer
  BY DEF EndOfAnswer
<1>2. stream.phase = "open" /\ stream.pulling
  BY <1>1 DEF Reading
<1>3. /\ PullOK(stream) /\ Linked(stream) /\ Accounted(stream) /\ stream.usage = 0
      /\ InOut(stream) /\ AllSent(stream)
  BY <1>2, Zenon DEF StreamOK
<1>4. PICK B \in Seq(Units) : B = stream.buffer
  BY StreamFields
<1>0. PICK empty \in Seq(Units) : empty = <<>>
  BY NoUnits, Zenon
<1>5. PICK s0 : s0 = [stream EXCEPT !.buffer = empty]
  OBVIOUS
<1>6. /\ s0 \in StreamSet /\ SameReader(s0, stream) /\ s0.usage = 0 /\ s0.phase = "open"
      /\ SameAccount(s0, stream)
  BY <1>2, <1>3, <1>5 DEF StreamSet, SameReader, SameAccount
<1>15. PICK s1 : s1 = IF IsBlank(stream.buffer) THEN s0 ELSE EnqueueBlock(s0, stream.buffer)
  OBVIOUS
<1>7. s1 = IF IsBlank(B) THEN s0 ELSE EnqueueBlock(s0, B)
  BY <1>4, <1>15
<1>8. stream' = IF Incomplete(stream) THEN [stream EXCEPT !.phase = "failing"]
                ELSE IF s1.phase = "failing" THEN s1
                ELSE CloseStream([s1 EXCEPT !.usage = s1.stats])
  BY <1>0, <1>5, <1>15 DEF EndOfAnswer
<1>9. Passed(s0) = Passed(stream) /\ InOut(s0) /\ Accounted(s0) /\ AllSent(s0)
  BY <1>3, <1>6, SamePassed, SameAccounted DEF AllSent
<1>10. PICK n \in Nat : n = Passed(stream)
  BY PassedTyped
<1>11. answer \in AnswerSet
  BY DEF AnswerWritten
<1>12. CASE Incomplete(stream)
  <2>1. PICK t : t = [stream EXCEPT !.phase = "failing"]
    OBVIOUS
  <2>2. t \in StreamSet /\ SameReader(t, stream) /\ t.usage = 0 /\ t.phase = "failing"
    BY <1>3, <2>1 DEF StreamSet, SameReader, Phases
  <2>3. InOut(t) /\ AllSent(t)
    BY <1>3, <2>2, SamePassed DEF AllSent
  <2>4. StreamOK(t)
    BY <2>2, <2>3 DEF StreamOK
  <2>5. Grows(t, stream)
    BY <2>2 DEF Grows, SameReader
  <2> QED
    BY <1>1, <1>2, <1>3, <1>8, <1>12, <2>1, <2>2, <2>4, <2>5
<1>13. CASE ~Incomplete(stream) /\ IsBlank(B)
  <2>1. s1 = s0
    BY <1>7, <1>13
  <2>2. PICK t : t = CloseStream([s0 EXCEPT !.usage = s0.stats])
    OBVIOUS
  <2>3. stream' = t
    BY <1>6, <1>8, <1>13, <2>1, <2>2
  <2>4. \A k \in DOMAIN B : ~IsRest(B[k])
    BY <1>13, PayloadIs, Zenon
  <2>5. Whole(answer.text) = 1 .. n
    BY <1>1, <1>3, <1>4, <1>10, <2>4, RestOfText, Zenon
  <2>6. Strict => s0.stopped /\ s0.open = {}
    BY <1>6, <1>13, Zenon DEF Incomplete, SameAccount
  <2>7. AllTaken(s0) /\ s0.stats = IF Strict THEN 0 ELSE UsageTold(Sent)
    BY <1>6, <1>9, <1>10, <2>5, <2>6, AllIsTold, Zenon
  <2>8. t \in StreamSet /\ StreamOK(t) /\ Closes(t) /\ t.out = s0.out
    BY <1>6, <1>9, <2>2, <2>7, ClosesNow, Zenon
  <2>9. Grows(t, stream)
    BY <1>6, <2>8 DEF Grows, SameReader
  <2> QED
    BY <1>1, <1>2, <1>3, <2>3, <2>8, <2>9
<1>14. CASE ~Incomplete(stream) /\ ~IsBlank(B)
  <2>1. s1 = EnqueueBlock(s0, B) /\ ~Strict
    BY <1>4, <1>7, <1>14, Zenon DEF Incomplete
  <2>2. /\ s1 \in StreamSet /\ s1.phase \in {"open", "failing"}
        /\ \/ /\ Payload(B) = {} /\ s1.phase = "open" /\ s1.barren = s0.barren + 1
              /\ SameParser(s1, s0) /\ SameReader(s1, s0) /\ s1.emitted = s0.emitted
           \/ s1.phase = "failing" /\ SameReader(s1, s0) /\ s1.usage = s0.usage
           \/ \E i \in DOMAIN answer.events :
                  /\ Payload(B) = {Unit("half", i), RestOf(i)}
                  /\ Processed(s1, s0, answer.events[i])
    BY <1>6, <1>11, <2>1, BlockIs
  <2>3. CASE s1.phase = "failing" /\ SameReader(s1, s0) /\ s1.usage = s0.usage
    <3>1. stream' = s1
      BY <1>8, <1>14, <2>3
    <3>2. InOut(s1) /\ AllSent(s1)
      BY <1>9, <2>3, SamePassed DEF AllSent
    <3>3. StreamOK(s1)
      BY <1>6, <2>3, <3>2 DEF StreamOK
    <3>4. Grows(s1, stream)
      BY <1>6, <2>3 DEF Grows, SameReader
    <3> QED
      BY <1>1, <1>2, <1>3, <2>2, <2>3, <3>1, <3>3, <3>4
  <2>4. CASE /\ Payload(B) = {} /\ s1.phase = "open"
             /\ SameParser(s1, s0) /\ SameReader(s1, s0)
    <3>1. PICK t : t = CloseStream([s1 EXCEPT !.usage = s1.stats])
      OBVIOUS
    <3>2. stream' = t
      BY <1>8, <1>14, <2>4, <3>1
    <3>3. \A k \in DOMAIN B : ~IsRest(B[k])
      BY <2>4, PayloadIs, Zenon
    <3>4. Whole(answer.text) = 1 .. n
      BY <1>1, <1>3, <1>4, <1>10, <3>3, RestOfText, Zenon
    <3>5. SameAccount(s1, s0)
      BY <2>4 DEF SameParser, SameAccount
    <3>6. Passed(s1) = n /\ InOut(s1) /\ Accounted(s1) /\ AllSent(s1)
      BY <1>9, <1>10, <2>4, <3>5, SamePassed, SameAccounted DEF AllSent
    <3>7. AllTaken(s1) /\ s1.stats = IF Strict THEN 0 ELSE UsageTold(Sent)
      BY <2>1, <2>2, <3>4, <3>6, AllIsTold, Zenon
    <3>8. t \in StreamSet /\ StreamOK(t) /\ Closes(t) /\ t.out = s1.out
      BY <2>2, <2>4, <3>1, <3>6, <3>7, ClosesNow, Zenon
    <3>9. Grows(t, stream)
      BY <1>6, <2>4, <3>8 DEF Grows, SameReader
    <3> QED
      BY <1>1, <1>2, <1>3, <3>2, <3>8, <3>9
  <2>5. CASE \E i \in DOMAIN answer.events :
                 /\ Payload(B) = {Unit("half", i), RestOf(i)}
                 /\ Processed(s1, s0, answer.events[i])
    <3>1. PICK i \in DOMAIN answer.events :
                 /\ Payload(B) = {Unit("half", i), RestOf(i)}
                 /\ Processed(s1, s0, answer.events[i])
      BY <2>5
    <3>2. /\ \E k \in DOMAIN B : B[k] = RestOf(i)
          /\ \A k \in DOMAIN B : IsRest(B[k]) => B[k] = RestOf(i)
      BY <3>1, PayloadIs, Zenon
    <3>3. i = n + 1 /\ Whole(answer.text) = 1 .. (n + 1)
      BY <1>1, <1>3, <1>4, <1>10, <3>2, RestOfText, Zenon
    <3>4. Handed(s1, s0, Renamed(answer.events[i])) /\ s1.usage = 0
      BY <1>6, <3>1 DEF Processed
    <3>5. s0.waiting => s0.queue = <<>>
      BY <1>3, <1>6 DEF PullOK, SameReader
    <3>6. InOut(s1) /\ Passed(s1) = Passed(s0) + 1
      BY <1>6, <1>9, <1>10, <1>11, <2>2, <3>1, <3>3, <3>4, <3>5, OneMore
    <3>7. Passed(s1) = n + 1
      BY <1>9, <1>10, <3>6
    <3>8. Accounted(s1)
      BY <1>6, <1>9, <1>10, <1>11, <2>2, <3>1, <3>3, <3>7, NextAccounted
    <3>9. PICK m \in Nat : m = n + 1
      OBVIOUS
    <3>10. AllSent(s1)
      BY <3>3, <3>7 DEF AllSent
    <3>11. Renamed(answer.events[i]) \in Events
      BY <3>1, EventsAre
    <3>12. Grows(s1, stream)
      <4>1. Len(s1.out) = Len(stream.out) \/ Len(s1.out) = Len(stream.out) + 1
        <5>1. CASE s0.waiting
          <6>1. s1.out = Append(s0.out, Renamed(answer.events[i])) /\ s0.out \in Seq(Events)
            BY <1>6, <3>4, <5>1, StreamFields DEF Handed
          <6>2. Len(s1.out) = Len(s0.out) + 1
            BY <3>11, <6>1, Appended
          <6> QED
            BY <1>6, <6>2 DEF SameReader
        <5>2. CASE ~s0.waiting
          BY <1>6, <3>4, <5>2 DEF Handed, SameReader
        <5> QED
          BY <5>1, <5>2
      <4> QED
        BY <1>3, <2>2, <3>6, <4>1, ReadOnly, Zenon
    <3>13. CASE s1.phase = "failing"
      <4>1. stream' = s1
        BY <1>8, <1>14, <3>13
      <4>2. StreamOK(s1)
        BY <3>4, <3>6, <3>10, <3>13 DEF StreamOK
      <4> QED
        BY <1>1, <1>2, <1>3, <2>2, <3>12, <3>13, <4>1, <4>2
    <3>14. CASE s1.phase = "open"
      <4>1. PICK t : t = CloseStream([s1 EXCEPT !.usage = s1.stats])
        OBVIOUS
      <4>2. stream' = t
        BY <1>8, <1>14, <3>14, <4>1
      <4>3. AllTaken(s1) /\ s1.stats = IF Strict THEN 0 ELSE UsageTold(Sent)
        BY <2>1, <2>2, <3>3, <3>7, <3>8, <3>9, AllIsTold, Zenon
      <4>4. t \in StreamSet /\ StreamOK(t) /\ Closes(t) /\ t.out = s1.out
        BY <2>2, <3>6, <3>10, <3>14, <4>1, <4>3, ClosesNow, Zenon
      <4>5. Grows(t, stream)
        BY <3>12, <4>4 DEF Grows
      <4> QED
        BY <1>1, <1>2, <1>3, <4>2, <4>4, <4>5
    <3> QED
      BY <2>2, <3>13, <3>14
  <2> QED
    BY <2>2, <2>3, <2>4, <2>5
<1> QED
  BY <1>12, <1>13, <1>14

\* What is left of the events after some of them are gone from the queue.
LEMMA FewerOK ==
    ASSUME AnswerWritten, NEW s \in StreamSet, StreamOK(s), NEW t \in StreamSet,
           t.out = s.out, t.queue = s.queue \/ t.queue = <<>>, t.usage = s.usage,
           t.phase \notin {"open", "closing"}, t.phase = "failing" => s.phase = "open"
    PROVE  StreamOK(t) /\ Grows(t, s)
<1>1. InOut(s) /\ AllSent(s) /\ (s.phase = "open" => s.usage = 0)
  BY Zenon DEF StreamOK
<1>2. Passed(s) \in Nat /\ Len(s.out) \in Nat /\ Len(s.queue) \in Nat /\ Passed(t) \in Nat
  BY PassedTyped
<1>3. Passed(t) <= Passed(s)
  BY <1>2 DEF Passed
<1>4. Len(answer.events) \in Nat
  BY EventsAre
<1>5. InOut(t)
  <2>1. Passed(t) <= Len(answer.events)
    <3>1. Passed(s) <= Len(answer.events)
      BY <1>1, Zenon DEF InOut
    <3> QED
      BY <1>2, <1>3, <1>4, <3>1
  <2>2. \A i \in DOMAIN t.out : t.out[i] = Renamed(answer.events[i])
    BY <1>1, Zenon DEF InOut
  <2>3. \A i \in DOMAIN t.queue : t.queue[i] = Renamed(answer.events[Len(t.out) + i])
    <3>1. CASE t.queue = s.queue
      BY <1>1, <3>1, Zenon DEF InOut
    <3>2. CASE t.queue = <<>>
      <4>1. DOMAIN t.queue = {}
        BY <3>2
      <4> QED
        BY <4>1
    <3> QED
      BY <3>1, <3>2
  <2> QED
    BY <2>1, <2>2, <2>3, Zenon DEF InOut
<1>6. AllSent(t)
  BY <1>1, <1>2, <1>3 DEF AllSent
<1>7. StreamOK(t)
  BY <1>1, <1>5, <1>6 DEF StreamOK
<1>8. Grows(t, s)
  BY DEF Grows
<1> QED
  BY <1>7, <1>8

LEMMA BreaksIs ==
    ASSUME AnswerWritten, stream \in StreamSet, StreamOK(stream), Breaks
    PROVE  /\ answer' = answer
           /\ \E t \in StreamSet :
                  /\ stream' = t /\ StreamOK(t) /\ Grows(t, stream) /\ t.usage = stream.usage
                  /\ stream.phase = "open" /\ t.phase = "failing" /\ t.out = stream.out
<1>1. /\ answer' = answer /\ stream.phase = "open"
      /\ stream' = [stream EXCEPT !.phase = "failing"]
  BY DEF Breaks, Reading
<1>2. PICK t : t = [stream EXCEPT !.phase = "failing"]
  OBVIOUS
<1>3. t \in StreamSet /\ t.out = stream.out /\ t.queue = stream.queue /\ t.usage = stream.usage
      /\ t.phase = "failing"
  BY <1>2 DEF StreamSet, Phases
<1>4. StreamOK(t) /\ Grows(t, stream)
  BY <1>1, <1>3, FewerOK
<1> QED
  BY <1>1, <1>2, <1>3, <1>4

LEMMA FailStreamIs ==
    ASSUME AnswerWritten, stream \in StreamSet, StreamOK(stream), FailStream
    PROVE  /\ answer' = answer
           /\ \E t \in StreamSet :
                  /\ stream' = t /\ StreamOK(t) /\ t.out = stream.out /\ t.usage = stream.usage
                  /\ stream.phase = "failing" /\ t.phase = "failed"
<1>0. PICK empty \in Seq(Events) : empty = <<>>
  BY NoUnits, Zenon
<1>1. /\ answer' = answer /\ stream.phase = "failing"
      /\ stream' = [stream EXCEPT !.phase = "failed", !.queue = empty,
                                  !.waiting = FALSE, !.pulling = FALSE]
  BY <1>0 DEF FailStream
<1>2. PICK t : t = [stream EXCEPT !.phase = "failed", !.queue = empty,
                                  !.waiting = FALSE, !.pulling = FALSE]
  OBVIOUS
<1>3. t \in StreamSet /\ t.out = stream.out /\ t.queue = <<>> /\ t.usage = stream.usage
      /\ t.phase = "failed"
  BY <1>0, <1>2 DEF StreamSet, Phases
<1>4. StreamOK(t)
  BY <1>1, <1>3, FewerOK
<1> QED
  BY <1>1, <1>2, <1>3, <1>4

\* What OpenCode has read is what has told the tokens, if nothing is queued.
LEMMA CancelIs ==
    ASSUME AnswerWritten, stream \in StreamSet, StreamOK(stream), CancelStream
    PROVE  /\ answer' = answer /\ stream.phase \in {"open", "failing", "closing"}
           /\ \E t \in StreamSet :
                  /\ stream' = t /\ StreamOK(t) /\ t.out = stream.out /\ t.phase = "cancelled"
                  /\ \/ t.usage = stream.usage
                     \/ stream.usage = 0 /\ t.usage = UsageTold(stream.out)
<1>0. PICK empty \in Seq(Events) : empty = <<>>
  BY NoUnits, Zenon
<1>1. PICK ends : ends = (Reading /\ ~Strict /\ IsBlank(stream.buffer))
  OBVIOUS
<1>2. PICK n : n = IF ends THEN stream.stats ELSE stream.usage
  OBVIOUS
<1>3. n \in Nat
  BY <1>2, StreamFields
<1>4. /\ answer' = answer /\ stream.phase \in {"open", "failing", "closing"}
      /\ stream' = [stream EXCEPT !.phase = "cancelled", !.queue = empty,
                                  !.waiting = FALSE, !.pulling = FALSE, !.usage = n]
  BY <1>0, <1>1, <1>2 DEF CancelStream
<1>5. PICK t : t = [stream EXCEPT !.phase = "cancelled", !.queue = empty,
                                  !.waiting = FALSE, !.pulling = FALSE, !.usage = n]
  OBVIOUS
<1>6. t \in StreamSet /\ t.out = stream.out /\ t.queue = <<>> /\ t.usage = n
      /\ t.phase = "cancelled"
  BY <1>0, <1>3, <1>5 DEF StreamSet, Phases
<1>7. StreamOK(t)
  <2>1. PICK u : u = [t EXCEPT !.usage = stream.usage]
    OBVIOUS
  <2>2. u \in StreamSet /\ u.out = stream.out /\ u.queue = <<>> /\ u.usage = stream.usage
        /\ u.phase = "cancelled" /\ u.queue = t.queue
    BY <1>6, <2>1, StreamFields DEF StreamSet
  <2>3. StreamOK(u)
    BY <2>2, FewerOK
  <2>4. Passed(t) = Passed(u)
    BY <1>6, <2>2 DEF Passed
  <2>5. InOut(t) /\ AllSent(t)
    BY <1>6, <2>2, <2>3, <2>4 DEF StreamOK, InOut, AllSent
  <2> QED
    BY <1>6, <2>5 DEF StreamOK
<1>8. CASE ends
  <2>1. Reading /\ ~Strict
    BY <1>1, <1>8
  <2>2. stream.phase = "open" /\ stream.pulling
    BY <2>1 DEF Reading
  <2>3. PullOK(stream) /\ Accounted(stream) /\ stream.usage = 0 /\ InOut(stream)
    BY <2>2 DEF StreamOK
  <2>4. stream.queue = <<>>
    BY <2>2, <2>3 DEF PullOK
  <2>5. PICK out \in Seq(Events) : out = stream.out
    BY StreamFields
  <2>6. Passed(stream) = Len(out)
    BY <2>4, <2>5 DEF Passed
  <2>7. stream.stats = ToldBy(answer.events, Len(out))
    BY <2>1, <2>3, <2>6, Zenon DEF Accounted
  <2>8. PICK E \in Seq(Events) : E = answer.events
    BY EventsAre
  <2>9. Len(out) \in 0 .. Len(E) /\ \A i \in 1 .. Len(out) : out[i] = Renamed(E[i])
    <3>1. Len(out) <= Len(E) /\ \A i \in DOMAIN out : out[i] = Renamed(E[i])
      BY <2>3, <2>5, <2>6, <2>8 DEF InOut
    <3> QED
      BY <3>1
  <2>10. \A i \in 1 .. Len(out) : out[i].type = E[i].type /\ out[i].usage = E[i].usage
    <3>1. \A i \in 1 .. Len(out) : i \in DOMAIN E
      BY <2>9
    <3>2. \A i \in DOMAIN E : E[i] \in Events
      BY SeqIs, Zenon
    <3> QED
      BY <2>9, <3>1, <3>2, RenamedIs
  <2>11. DOMAIN out = 1 .. Len(out)
    OBVIOUS
  <2>12. UsageTold(out) = ToldBy(E, Len(out))
    <3>1. PICK l \in 0 .. Len(E) : l = Len(out)
      BY <2>9
    <3> QED
      BY <2>10, <2>11, <3>1, UsageToldIs
  <2> QED
    BY <1>2, <1>4, <1>5, <1>6, <1>7, <1>8, <2>3, <2>5, <2>7, <2>8, <2>12
<1>9. CASE ~ends
  BY <1>2, <1>4, <1>5, <1>6, <1>7, <1>9
<1> QED
  BY <1>8, <1>9

LEMMA AllRead ==
    ASSUME AnswerWritten, NEW t \in StreamSet, InOut(t), AllTaken(t), t.queue = <<>>
    PROVE  t.out = Sent
<1>1. PICK m \in 0 .. Len(answer.events) : Whole(answer.text) = 1 .. m
  BY WholeIs
<1>2. PICK P \in Seq(Events) : P = Sent
  BY <1>1, SentIs
<1>3. Len(P) = m /\ \A i \in DOMAIN P : P[i] = Renamed(answer.events[i])
  BY <1>1, <1>2, SentIs
<1>4. PICK out \in Seq(Events) : out = t.out
  BY StreamFields
<1>5. Len(out) = Len(P)
  <2>1. Passed(t) = Len(P)
    BY <1>2, Zenon DEF AllTaken
  <2>2. Len(out) \in Nat /\ Passed(t) = Len(out) + 0
    BY <1>4 DEF Passed
  <2> QED
    BY <2>1, <2>2
<1>6. \A i \in DOMAIN out : out[i] = P[i]
  <2>1. \A i \in DOMAIN out : out[i] = Renamed(answer.events[i])
    BY <1>4, Zenon DEF InOut
  <2>2. DOMAIN out = DOMAIN P
    BY <1>5
  <2> QED
    BY <1>3, <2>1, <2>2
<1>7. out = P
  BY <1>5, <1>6, SameSeq
<1> QED
  BY <1>2, <1>4, <1>7

\* The first of the queue goes to what was read.
LEMMA Moved ==
    ASSUME AnswerWritten, NEW s \in StreamSet, InOut(s), s.queue # <<>>,
           NEW t, t = [s EXCEPT !.out = Append(@, Head(s.queue)), !.queue = Tail(@)]
    PROVE  /\ t \in StreamSet /\ InOut(t) /\ Passed(t) = Passed(s) /\ Len(t.out) = Len(s.out) + 1
           /\ SameParser(t, s) /\ t.phase = s.phase /\ t.waiting = s.waiting
           /\ t.pulling = s.pulling /\ t.again = s.again /\ t.barren = s.barren
           /\ t.emitted = s.emitted
<1>1. PICK q \in Seq(Events) : q = s.queue
  BY StreamFields
<1>2. PICK out \in Seq(Events) : out = s.out
  BY StreamFields
<1>3. PICK e : e = Head(q)
  OBVIOUS
<1>4. PICK q1 : q1 = Tail(q)
  OBVIOUS
<1>5. /\ e = q[1] /\ e \in Events /\ q1 \in Seq(Events) /\ Len(q) \in Nat \ {0}
      /\ Len(q1) = Len(q) - 1
      /\ \A i \in DOMAIN q1 : q1[i] = q[i + 1] /\ i + 1 \in DOMAIN q /\ i \in Nat
  <2>1. q # <<>>
    BY <1>1
  <2>2. Len(q) \in Nat \ {0} /\ q1 \in Seq(Events) /\ Len(q1) = Len(q) - 1
    BY <1>4, <2>1
  <2>3. \A i \in 1 .. (Len(q) - 1) : q1[i] = q[i + 1]
    BY <1>4, <2>1
  <2>4. DOMAIN q1 = 1 .. (Len(q) - 1) /\ DOMAIN q = 1 .. Len(q)
    BY <2>2
  <2>5. \A i \in 1 .. (Len(q) - 1) : i + 1 \in 1 .. Len(q) /\ i \in Nat
    BY <2>2
  <2>6. e = q[1] /\ e \in Events
    BY <1>3, <2>1
  <2> QED
    BY <2>2, <2>3, <2>4, <2>5, <2>6
<1>6. PICK new : new = Append(out, e)
  OBVIOUS
<1>7. /\ new \in Seq(Events) /\ Len(new) = Len(out) + 1 /\ Len(out) \in Nat
      /\ DOMAIN new = 1 .. (Len(out) + 1) /\ DOMAIN out = 1 .. Len(out)
      /\ \A k \in DOMAIN out : new[k] = out[k]
      /\ new[Len(out) + 1] = e
  BY <1>5, <1>6, Appended
<1>8. t = [s EXCEPT !.out = new, !.queue = q1]
  BY <1>1, <1>2, <1>3, <1>4, <1>6
<1>9. /\ t \in StreamSet /\ t.out = new /\ t.queue = q1
      /\ SameParser(t, s) /\ t.phase = s.phase /\ t.waiting = s.waiting
      /\ t.pulling = s.pulling /\ t.again = s.again /\ t.barren = s.barren
      /\ t.emitted = s.emitted
  BY <1>5, <1>7, <1>8, ZenonT(30) DEF StreamSet, SameParser
<1>10. PICK a \in Nat : a = Len(out)
  BY <1>7
<1>11. PICK b \in Nat : b = Len(q1) /\ Len(q) = b + 1
  BY <1>5
<1>12. Passed(s) = a + (b + 1) /\ Passed(t) = (a + 1) + b
  BY <1>1, <1>2, <1>7, <1>9, <1>10, <1>11 DEF Passed
<1>13. InOut(t)
  <2>1. /\ Passed(s) <= Len(answer.events)
        /\ \A i \in DOMAIN out : out[i] = Renamed(answer.events[i])
        /\ \A i \in DOMAIN q : q[i] = Renamed(answer.events[a + i])
    BY <1>1, <1>2, <1>10, Zenon DEF InOut
  <2>2. Passed(t) <= Len(answer.events)
    BY <1>12, <2>1
  <2>3. \A i \in DOMAIN new : new[i] = Renamed(answer.events[i])
    <3>1. 1 \in DOMAIN q
      BY <1>5
    <3>2. e = Renamed(answer.events[a + 1])
      BY <1>5, <2>1, <3>1
    <3>3. \A i \in DOMAIN new : i \in DOMAIN out \/ i = a + 1
      BY <1>7, <1>10
    <3> QED
      BY <1>7, <1>10, <2>1, <3>2, <3>3
  <2>4. \A i \in DOMAIN q1 : q1[i] = Renamed(answer.events[Len(new) + i])
    <3>1. ASSUME NEW i \in DOMAIN q1
          PROVE  q1[i] = Renamed(answer.events[Len(new) + i])
      <4>1. q1[i] = q[i + 1] /\ i + 1 \in DOMAIN q /\ i \in Nat
        BY <1>5
      <4>2. a + (i + 1) = Len(new) + i
        BY <1>7, <1>10, <4>1
      <4>3. q[i + 1] = Renamed(answer.events[a + (i + 1)])
        BY <2>1, <4>1
      <4> QED
        BY <4>1, <4>2, <4>3, Zenon
    <3> QED
      BY <3>1
  <2> QED
    BY <1>9, <2>2, <2>3, <2>4, Zenon DEF InOut
<1> QED
  BY <1>2, <1>7, <1>9, <1>12, <1>13

LEMMA ReadIs ==
    ASSUME AnswerWritten, stream \in StreamSet, StreamOK(stream), Read
    PROVE  /\ answer' = answer /\ stream.phase \in {"open", "failing", "closing"}
           /\ \E t \in StreamSet :
                  /\ stream' = t /\ StreamOK(t) /\ Grows(t, stream) /\ t.usage = stream.usage
                  /\ \/ t.phase = stream.phase
                     \/ /\ stream.phase = "closing" /\ t.phase = "closed" /\ t.out = Sent
                        /\ Strict => IsWhole(Sent)
<1>1. answer' = answer /\ stream.phase \in {"open", "failing", "closing"} /\ ~stream.waiting
  BY DEF Read
<1>2. /\ InOut(stream) /\ AllSent(stream)
      /\ stream.phase \in {"open", "failing"} => stream.usage = 0
      /\ stream.phase = "open" => PullOK(stream) /\ Linked(stream) /\ Accounted(stream)
      /\ stream.phase = "closing" => AllTaken(stream)
  BY Zenon DEF StreamOK
<1>3. CASE stream.queue = <<>>
  <2>1. PICK s : s = [stream EXCEPT !.waiting = TRUE]
    OBVIOUS
  <2>2. PICK t : t = CallPullIfNeeded(s)
    OBVIOUS
  <2>3. stream' = t
    BY <1>3, <2>1, <2>2 DEF Read
  <2>4. /\ s \in StreamSet /\ SameParser(s, stream) /\ s.out = stream.out
        /\ s.queue = stream.queue /\ s.waiting /\ s.phase = stream.phase
        /\ s.pulling = stream.pulling /\ s.again = stream.again /\ s.barren = stream.barren
    BY <2>1 DEF StreamSet, SameParser
  <2>5. /\ t \in StreamSet /\ SameParser(t, s)
        /\ t.out = s.out /\ t.queue = s.queue /\ t.waiting = s.waiting
        /\ t.emitted = s.emitted /\ t.phase = s.phase /\ t.barren = s.barren
        /\ t.pulling <=> s.pulling \/ ShouldPull(s)
        /\ t.again <=> s.again \/ (ShouldPull(s) /\ s.pulling)
    BY <2>2, <2>4, CallPullIs
  <2>6. t.out = stream.out /\ t.queue = stream.queue /\ t.phase = stream.phase
        /\ SameParser(t, stream)
    BY <2>4, <2>5 DEF SameParser
  <2>7. Passed(t) = Passed(stream)
    BY <2>6 DEF Passed
  <2>8. ASSUME stream.phase = "open" PROVE PullOK(t)
    BY <1>1, <1>2, <1>3, <2>4, <2>5, <2>8 DEF PullOK, ShouldPull
  <2>9. StreamOK(t)
    <3>1. InOut(t) /\ AllSent(t) /\ (AllTaken(stream) => AllTaken(t))
      BY <1>2, <2>6, <2>7, Zenon DEF InOut, AllSent, AllTaken
    <3>2. (Linked(stream) => Linked(t)) /\ t.usage = stream.usage
      BY <2>6, <2>7, Zenon DEF Linked, SameParser
    <3>3. Accounted(stream) => Accounted(t)
      BY <2>6, <2>7 DEF Accounted, SameParser
    <3> QED
      BY <1>2, <2>6, <2>8, <3>1, <3>2, <3>3 DEF StreamOK
  <2>10. Grows(t, stream)
    BY <2>6 DEF Grows
  <2> QED
    BY <1>1, <2>3, <2>5, <2>6, <2>9, <2>10 DEF SameParser
<1>4. CASE stream.queue # <<>>
  <2>1. PICK s : s = [stream EXCEPT !.out = Append(@, Head(stream.queue)), !.queue = Tail(@)]
    OBVIOUS
  <2>2. stream' = IF s.phase = "closing" /\ s.queue = <<>> THEN [s EXCEPT !.phase = "closed"]
                  ELSE CallPullIfNeeded(s)
    BY <1>4, <2>1 DEF Read
  <2>3. /\ s \in StreamSet /\ InOut(s) /\ Passed(s) = Passed(stream)
        /\ Len(s.out) = Len(stream.out) + 1
        /\ SameParser(s, stream) /\ s.phase = stream.phase /\ s.waiting = stream.waiting
        /\ s.pulling = stream.pulling /\ s.again = stream.again /\ s.barren = stream.barren
        /\ s.emitted = stream.emitted
    BY <1>2, <1>4, <2>1, Moved
  <2>4. Grows(s, stream)
    BY <1>2, <2>3, ReadOnly
  <2>5. /\ AllSent(s) /\ (AllTaken(stream) => AllTaken(s))
        /\ (Linked(stream) => Linked(s)) /\ s.usage = stream.usage
        /\ (Accounted(stream) => Accounted(s))
    <3>1. AllSent(s) /\ (AllTaken(stream) => AllTaken(s))
      BY <1>2, <2>3, Zenon DEF AllSent, AllTaken
    <3>2. (Linked(stream) => Linked(s)) /\ s.usage = stream.usage
      BY <2>3, Zenon DEF Linked, SameParser
    <3>3. Accounted(stream) => Accounted(s)
      BY <2>3 DEF Accounted, SameParser
    <3> QED
      BY <3>1, <3>2, <3>3
  <2>6. CASE s.phase = "closing" /\ s.queue = <<>>
    <3>1. PICK t : t = [s EXCEPT !.phase = "closed"]
      OBVIOUS
    <3>2. stream' = t
      BY <2>2, <2>6, <3>1
    <3>3. t \in StreamSet /\ t.out = s.out /\ t.queue = s.queue /\ t.usage = s.usage
          /\ t.phase = "closed"
      BY <2>3, <3>1 DEF StreamSet, Phases
    <3>4. Passed(t) = Passed(s)
      BY <3>3 DEF Passed
    <3>5. InOut(t) /\ AllSent(t) /\ AllTaken(t)
      <4>1. AllTaken(s)
        BY <1>2, <2>3, <2>5, <2>6
      <4> QED
        BY <2>3, <2>5, <3>3, <3>4, <4>1, Zenon DEF InOut, AllSent, AllTaken
    <3>6. t.out = Sent
      BY <2>6, <3>3, <3>5, AllRead
    <3>7. StreamOK(t)
      BY <3>3, <3>5 DEF StreamOK
    <3>8. Grows(t, stream)
      BY <2>4, <3>3 DEF Grows
    <3>9. Strict => IsWhole(Sent)
      BY <3>5, Zenon DEF AllTaken
    <3> QED
      BY <1>1, <2>3, <2>5, <2>6, <3>2, <3>3, <3>6, <3>7, <3>8, <3>9
  <2>7. CASE ~(s.phase = "closing" /\ s.queue = <<>>)
    <3>1. PICK t : t = CallPullIfNeeded(s)
      OBVIOUS
    <3>2. stream' = t
      BY <2>2, <2>7, <3>1
    <3>3. /\ t \in StreamSet /\ SameParser(t, s)
          /\ t.out = s.out /\ t.queue = s.queue /\ t.waiting = s.waiting
          /\ t.emitted = s.emitted /\ t.phase = s.phase /\ t.barren = s.barren
          /\ t.pulling <=> s.pulling \/ ShouldPull(s)
          /\ t.again <=> s.again \/ (ShouldPull(s) /\ s.pulling)
      BY <2>3, <3>1, CallPullIs
    <3>4. Passed(t) = Passed(s)
      BY <3>3 DEF Passed
    <3>5. ASSUME stream.phase = "open" PROVE PullOK(t)
      BY <1>1, <1>2, <1>4, <2>3, <3>3, <3>5 DEF PullOK, ShouldPull
    <3>6. /\ InOut(t) /\ AllSent(t) /\ (AllTaken(s) => AllTaken(t))
          /\ (Linked(s) => Linked(t)) /\ t.usage = s.usage
          /\ (Accounted(s) => Accounted(t))
      <4>1. InOut(t) /\ AllSent(t) /\ (AllTaken(s) => AllTaken(t))
        BY <2>3, <2>5, <3>3, <3>4, ZenonT(30) DEF InOut, AllSent, AllTaken
      <4>2. (Linked(s) => Linked(t)) /\ t.usage = s.usage
        BY <3>3, <3>4, Zenon DEF Linked, SameParser
      <4>3. Accounted(s) => Accounted(t)
        BY <3>3, <3>4 DEF Accounted, SameParser
      <4> QED
        BY <4>1, <4>2, <4>3
    <3>7. StreamOK(t)
      BY <1>2, <2>3, <2>5, <3>3, <3>5, <3>6 DEF StreamOK
    <3>8. Grows(t, stream)
      BY <2>4, <3>3 DEF Grows
    <3> QED
      BY <1>1, <2>3, <2>5, <3>2, <3>3, <3>6, <3>7, <3>8
  <2> QED
    BY <2>6, <2>7
<1> QED
  BY <1>3, <1>4

\* Nothing of a new answer is read yet.
LEMMA NewStreamTyped == NewStream \in StreamSet
<1>1. PICK empty \in Seq(Units) : empty = <<>>
  BY NoUnits, Zenon
<1>2. PICK none \in Seq(Events) : none = <<>>
  BY NoUnits, Zenon
<1>3. NewStream =
        [read |-> 0, buffer |-> empty, open |-> {}, stopped |-> FALSE, stats |-> 0,
         usage |-> 0, emitted |-> FALSE, phase |-> "open", pulling |-> TRUE, again |-> FALSE,
         waiting |-> FALSE, queue |-> none, out |-> none, barren |-> 0]
  BY <1>1, <1>2 DEF NewStream
<1>4. {} \in SUBSET OpenBlock /\ "open" \in Phases
  BY DEF Phases
<1> HIDE DEF Phases
<1> QED
  BY <1>1, <1>2, <1>3, <1>4 DEF StreamSet

LEMMA NewStreamIs ==
    NewStream.read = 0 /\ NewStream.buffer = <<>> /\ NewStream.open = {} /\ ~NewStream.stopped
    /\ NewStream.stats = 0 /\ NewStream.usage = 0 /\ ~NewStream.emitted
    /\ NewStream.phase = "open" /\ NewStream.pulling /\ ~NewStream.again
    /\ ~NewStream.waiting /\ NewStream.queue = <<>> /\ NewStream.out = <<>>
    /\ NewStream.barren = 0
BY DEF NewStream

LEMMA NothingTold ==
    ASSUME NEW E
    PROVE  ToldBy(E, 0) = 0 /\ Closed(E, 0, {})
<1>1. 1 .. 0 = {}
  OBVIOUS
<1>2. Telling(E, 0, "message_delta") = {} /\ Telling(E, 0, "message_start") = {}
  BY <1>1 DEF Telling
<1> QED
  BY <1>1, <1>2 DEF ToldBy, Closed

LEMMA NothingLinked ==
    ASSUME NEW T, Len(T) \in Nat
    PROVE  Adjacent(<<>>) /\ Continues(<<>>, T, 0) /\ Numbered(<<>>, T, 0, 0)
<1>1. PICK B : B = <<>> /\ DOMAIN B = {} /\ Len(B) = 0
  OBVIOUS
<1>2. 1 .. 0 = {}
  OBVIOUS
<1>3. Adjacent(B)
  BY <1>1, Zenon DEF Adjacent
<1>4. Continues(B, T, 0)
  BY <1>1 DEF Continues
<1>5. Numbered(B, T, 0, 0)
  BY <1>1, <1>2 DEF Numbered
<1> QED
  BY <1>1, <1>3, <1>4, <1>5

LEMMA NewStreamOK == AnswerWritten => StreamOK(NewStream)
<1> SUFFICES ASSUME AnswerWritten PROVE StreamOK(NewStream)
  OBVIOUS
<1>1. PICK s \in StreamSet : s = NewStream
  BY NewStreamTyped
<1>2. /\ s.read = 0 /\ s.buffer = <<>> /\ s.open = {} /\ ~s.stopped /\ s.stats = 0
      /\ s.usage = 0 /\ s.phase = "open" /\ s.pulling /\ ~s.again /\ ~s.waiting
      /\ s.queue = <<>> /\ s.out = <<>>
  BY <1>1, NewStreamIs
<1>3. Len(<<>>) = 0 /\ DOMAIN <<>> = {} /\ 1 .. 0 = {}
  OBVIOUS
<1>4. Passed(s) = 0
  BY <1>2 DEF Passed
<1>5. InOut(s)
  BY <1>2, <1>3, <1>4, EventsAre DEF InOut
<1>6. AllSent(s)
  BY <1>3, <1>4 DEF AllSent
<1>7. PullOK(s)
  BY <1>2 DEF PullOK
<1>8. Linked(s)
  BY <1>2, <1>4, NothingLinked, EventsAre, Zenon DEF Linked
<1>9. Accounted(s)
  BY <1>2, <1>4, NothingTold, Zenon DEF Accounted
<1> QED
  BY <1>1, <1>2, <1>5, <1>6, <1>7, <1>8, <1>9 DEF StreamOK

LEMMA NewStreamOKNext ==
    ASSUME AnswerWritten', stream' = NewStream
    PROVE  StreamOK(stream)'
<1>1. AnswerWritten' => StreamOK(NewStream)'
  BY NewStreamOK, PTL
<1>2. StreamOK(NewStream)'
  BY <1>1
<1>3. NewStream' = NewStream
  BY DEF NewStream
<1> QED
  BY <1>2, <1>3, Zenon DEF StreamOK, InOut, AllSent, PullOK, Linked, Accounted, AllTaken, Passed

LEMMA SameAnswer ==
    ASSUME answer' = answer, NEW t, stream' = t, StreamOK(t), AnswerWritten
    PROVE  StreamOK(stream)' /\ AnswerWritten'
<1>1. AnswerWritten'
  BY DEF AnswerWritten
<1>2. Strict' = Strict
  BY DEF Strict
<1>3. Sent' = Sent
  BY DEF Sent
<1>4. InOut(stream)' /\ AllSent(stream)'
  BY DEF StreamOK, InOut, AllSent, Passed
<1>5. stream'.phase = t.phase /\ stream'.usage = t.usage
  OBVIOUS
<1>6. PullOK(t) => PullOK(stream)'
  BY DEF PullOK
<1>7. Linked(t) => Linked(stream)'
  BY Zenon DEF Linked, Passed
<1>8. Accounted(t) => Accounted(stream)'
  BY <1>2, Zenon DEF Accounted, Passed
<1>9. AllTaken(t) => AllTaken(stream)'
  BY <1>2, <1>3, Zenon DEF AllTaken, Passed
<1> QED
  BY <1>1, <1>4, <1>5, <1>6, <1>7, <1>8, <1>9 DEF StreamOK

------------------------------------------------------------------------------
(***************************************************************************)
(* Every step preserves the invariant.  First what it leaves alone.        *)
(***************************************************************************)
LEMMA UsesStill ==
    ASSUME NEW messages, UsesSpoken(messages), spoken \subseteq spoken'
    PROVE  UsesSpoken(messages)'
BY DEF UsesSpoken

LEMMA ChatStill ==
    ASSUME ChatOK, chat' = chat, spoken \subseteq spoken'
    PROVE  ChatOK'
<1>1. PICK messages : messages = chat.messages
  OBVIOUS
<1>2. UsesSpoken(messages)' /\ Unmarkable(messages)
  BY <1>1, UsesStill DEF ChatOK
<1> QED
  BY <1>1, <1>2 DEF ChatOK, UsesSpoken, Unmarkable

LEMMA OriginalStill ==
    ASSUME OriginalOK, call'.original = call.original, settings' = settings,
           call'.step # "idle" => call.step # "idle", spoken \subseteq spoken'
    PROVE  OriginalOK'
<1>1. PICK body : body = call.original
  OBVIOUS
<1>2. CASE call'.step # "idle"
  <2>1. /\ body \in BodySet /\ body.model = settings.model
        /\ ~body.effort /\ Cardinality(Marks(body.messages)) <= 2
        /\ UsesSpoken(body.messages)
    BY <1>1, <1>2, Zenon DEF OriginalOK
  <2>2. PICK messages : messages = body.messages
    OBVIOUS
  <2>3. UsesSpoken(messages)'
    BY <2>1, <2>2, UsesStill
  <2>4. call'.original = body
    BY <1>1
  <2>5. UsesSpoken(call.original.messages)'
    BY <2>2, <2>3, <2>4 DEF UsesSpoken
  <2> QED
    BY <2>1, <2>4, <2>5, Zenon DEF OriginalOK
<1>3. CASE call'.step = "idle"
  BY <1>3 DEF OriginalOK
<1> QED
  BY <1>2, <1>3

LEMMA AttemptStill ==
    ASSUME AttemptOK, wire'.body = wire.body, wire'.token = wire.token,
           call'.original = call.original, call'.attempt = call.attempt, settings' = settings,
           call'.step \in {"sent", "streaming"} => call.step \in {"sent", "streaming"}
    PROVE  AttemptOK'
BY Zenon DEF AttemptOK

LEMMA WireStill ==
    ASSUME WireOK, wire'.body = wire.body, wire'.token = wire.token, settings' = settings,
           spoken \subseteq spoken',
           wire'.betas = wire.betas \/ \E n \in Nat : wire'.betas = Header(wire.body, n)
    PROVE  WireOK'
<1>1. CASE wire.body = Rejected
  BY <1>1 DEF WireOK
<1>2. CASE wire.body # Rejected
  <2>1. PICK body : body = wire.body
    OBVIOUS
  <2>2. /\ body \in BodySet
        /\ settings.signature => body.account = wire.token
        /\ body.model = settings.model
        /\ body.effort => IsAdaptiveThinkingModel(settings.model)
        /\ \A n \in ToSet(body.tools) : n \in WireName
        /\ \A b \in Blocks(body.messages) :
               b.kind = "tool_use" =>
                   \E u \in spoken :
                       /\ u.id = b.id
                       /\ b.name = ToWireToolName(ToInternalToolName(u.name))
        /\ IdsOf(body.messages, "tool_use") = IdsOf(body.messages, "tool_result")
        /\ Cardinality(CachedIn(body.system)) <= 1
        /\ Cardinality(Marks(body.messages)) <= 3
        /\ \E n \in Nat : wire.betas = Header(body, n)
    BY <1>2, <2>1, Zenon DEF WireOK
  <2>3. \E n \in Nat : wire'.betas = Header(body, n)
    BY <2>1, <2>2, Zenon
  <2>4. PICK n \in Nat : wire'.betas = Header(body, n)
    BY <2>3
  <2>5. Header(body, n) =
            BuildAnthropicBetaHeader(Request(body), Profile, Candidates, settings', n)
    BY DEF Header
  <2>6. (\E m \in Nat : wire.betas = Header(wire.body, m))'
    BY <2>1, <2>4, <2>5 DEF Header
  <2>7. \A b \in Blocks(body.messages) :
            b.kind = "tool_use" =>
                \E u \in spoken' :
                    /\ u.id = b.id
                    /\ b.name = ToWireToolName(ToInternalToolName(u.name))
    BY <2>2, Zenon
  <2>8. wire'.body = body
    BY <2>1
  <2> QED
    BY <2>2, <2>6, <2>7, <2>8, Zenon DEF WireOK
<1> QED
  BY <1>1, <1>2

LEMMA AnswerStill ==
    ASSUME AnswerOK, answer' = answer, spoken' = spoken, chat'.turn = chat.turn,
           call'.step = "streaming" => call.step = "streaming",
           call'.step # "streaming" => Over'
    PROVE  AnswerOK'
<1>1. WellWritten(answer.text, answer.events)'
  BY DEF AnswerOK
<1>2. (call.step # "streaming" => Over)'
  OBVIOUS
<1>3. ASSUME call'.step = "streaming", answer'.ok, NEW i \in DOMAIN answer'.events
      PROVE  LET e == answer'.events[i]
             IN  IF e.type = "content_block_start" /\ e.block = "tool_use"
                 THEN \E u \in spoken' :
                          u.id = <<chat'.turn, e.index>> /\ u.name = e.name
                 ELSE e.name = NoName
  <2>1. LET e == answer.events[i]
        IN  IF e.type = "content_block_start" /\ e.block = "tool_use"
            THEN \E u \in spoken :
                     u.id = <<chat.turn, e.index>> /\ u.name = e.name
            ELSE e.name = NoName
    BY <1>3, Zenon DEF AnswerOK
  <2> QED
    BY <2>1
<1> QED
  BY <1>1, <1>2, <1>3, Zenon DEF AnswerOK

LEMMA StreamStill ==
    ASSUME StreamOK(stream), answer' = answer, stream' = stream, AnswerWritten
    PROVE  StreamOK(stream)' /\ AnswerWritten'
<1>1. PICK t : t = stream
  OBVIOUS
<1> QED
  BY <1>1, SameAnswer

LEMMA TurnsStill ==
    ASSUME TurnsSpoken, spoken' = spoken, chat'.turn = chat.turn,
           call'.step \in {"new", "attempt", "sent"} => call.step \in {"new", "attempt", "sent"}
    PROVE  TurnsSpoken'
BY Zenon DEF TurnsSpoken

LEMMA AnswerIsWritten ==
    ASSUME ExchangeInv
    PROVE  AnswerWritten /\ stream \in StreamSet /\ StreamOK(stream)
BY DEF ExchangeInv, ExchangeTypeOK, AnswerOK, AnswerWritten

LEMMA SettingsAre ==
    ASSUME NEW s \in Settings
    PROVE  /\ s.model \in STRING /\ s.thinking \in ThinkingTypes /\ s.opening \in Texts
           /\ s.signature \in BOOLEAN /\ s.relocate \in BOOLEAN /\ s.compact \in BOOLEAN
           /\ s.toolSearch \in BOOLEAN
           /\ s.tools \in Seq(ToolNames) /\ s.system \in Seq(Block) /\ s.turns \in Nat
<1>1. /\ s.model \in STRING /\ s.thinking \in ThinkingTypes /\ s.opening \in Texts
      /\ {s.signature, s.relocate, s.compact, s.toolSearch} \subseteq BOOLEAN
      /\ s.tools \in Seq(ToolNames) /\ s.system \in Seq(Block) /\ s.turns \in Nat
  BY SettingsOK, Zenon
<1>2. /\ s.signature \in BOOLEAN /\ s.relocate \in BOOLEAN /\ s.compact \in BOOLEAN
      /\ s.toolSearch \in BOOLEAN
  BY <1>1, Zenon
<1> QED
  BY <1>1, <1>2, Zenon

Calls ==
    [step : CallSteps, attempt : Nat, retries : Nat, original : BodySet \cup {Rejected}]

LEMMA TypesAre ==
    ASSUME ExchangeTypeOK
    PROVE  /\ settings \in Settings /\ call \in Calls /\ excluded \in Nat /\ faults \in Nat
           /\ chat \in [turn : Nat, messages : Seq(MessageSet)]
           /\ chat.turn \in Nat /\ chat.messages \in Seq(MessageSet)
           /\ wire = [body |-> wire.body, token |-> wire.token, betas |-> wire.betas]
           /\ wire.body \in BodySet \cup {Rejected}
           /\ spoken \subseteq SpokenUses
           /\ answer \in AnswerSet /\ stream \in StreamSet
BY DEF ExchangeTypeOK, Calls

\* The type of what a step changes.
LEMMA TypesStill ==
    ASSUME ExchangeTypeOK, settings' = settings, chat' = chat, call' \in Calls,
           wire' = wire, excluded' = excluded, faults' \in Nat, spoken' = spoken,
           answer' = answer, stream' \in StreamSet
    PROVE  ExchangeTypeOK'
<1>1. /\ settings \in Settings /\ excluded \in Nat
      /\ chat \in [turn : Nat, messages : Seq(MessageSet)]
      /\ wire = [body |-> wire.body, token |-> wire.token, betas |-> wire.betas]
      /\ wire.body \in BodySet \cup {Rejected}
      /\ spoken \subseteq SpokenUses
      /\ answer \in AnswerSet
  BY TypesAre, Zenon
<1> QED
  BY <1>1, Zenon DEF ExchangeTypeOK, Calls

LEMMA FaultIs ==
    ASSUME Fault, faults \in Nat
    PROVE  faults' \in Nat
BY DEF Fault

\* A step of the call that leaves the rest alone.
LEMMA CallMoves ==
    ASSUME ExchangeInv, UNCHANGED <<settings, chat, wire, excluded, spoken, answer, stream>>,
           faults' \in Nat, call' \in Calls, call.step # "idle",
           call'.original = call.original, call'.attempt = call.attempt,
           call'.step # "streaming", call.step # "streaming",
           call'.step = "sent" => call.step = "sent",
           call'.step \in {"new", "attempt", "sent"} => call.step \in {"new", "attempt", "sent"}
    PROVE  ExchangeInv'
<1>1. AnswerWritten /\ stream \in StreamSet /\ StreamOK(stream)
  BY AnswerIsWritten
<1>2. /\ ExchangeTypeOK /\ ChatOK /\ TurnsSpoken /\ OriginalOK /\ AttemptOK /\ WireOK
      /\ AnswerOK
  BY Zenon DEF ExchangeInv
<1>3. ExchangeTypeOK'
  BY <1>1, <1>2, TypesStill
<1>4. ChatOK' /\ TurnsSpoken' /\ OriginalOK' /\ AttemptOK' /\ WireOK'
  <2>1. ChatOK'
    BY <1>2, ChatStill
  <2>2. TurnsSpoken'
    BY <1>2, TurnsStill
  <2>3. OriginalOK'
    BY <1>2, OriginalStill
  <2>4. AttemptOK'
    BY <1>2, AttemptStill
  <2>5. WireOK'
    BY <1>2, WireStill
  <2> QED
    BY <2>1, <2>2, <2>3, <2>4, <2>5
<1>5. AnswerOK'
  <2>1. Over'
    <3>1. Over
      BY <1>2, Zenon DEF AnswerOK
    <3> QED
      BY <3>1 DEF Over
  <2> QED
    BY <1>2, <2>1, AnswerStill
<1>6. StreamOK(stream)'
  BY <1>1, StreamStill
<1> QED
  BY <1>3, <1>4, <1>5, <1>6, Zenon DEF ExchangeInv

LEMMA BeginIs ==
    ASSUME ExchangeInv, Begin
    PROVE  ExchangeInv'
<1>1. call.step = "new" /\ UNCHANGED <<settings, chat, wire, excluded, spoken, answer, stream>>
      /\ faults' = faults
  BY DEF Begin, rest
<1>2. call \in Calls /\ faults \in Nat
  BY TypesAre DEF ExchangeInv
<1>3. \E step \in {"idle", "attempt"} : call' = [call EXCEPT !.step = step]
  BY DEF Begin, Ends
<1>4. /\ call' \in Calls /\ call'.step \in {"idle", "attempt"}
      /\ call'.original = call.original /\ call'.attempt = call.attempt
  BY <1>2, <1>3 DEF Calls, CallSteps
<1> QED
  BY <1>1, <1>2, <1>4, CallMoves

LEMMA AttemptFailsIs ==
    ASSUME ExchangeInv, AttemptFails
    PROVE  ExchangeInv'
<1>1. call.step = "sent" /\ UNCHANGED <<settings, chat, wire, excluded, spoken, answer, stream>>
      /\ Fault
  BY DEF AttemptFails
<1>2. call \in Calls /\ faults \in Nat
  BY TypesAre DEF ExchangeInv
<1>3. \E step \in {"idle", "attempt"} : call' = [call EXCEPT !.step = step]
  BY DEF AttemptFails, Ends
<1>4. /\ call' \in Calls /\ call'.step \in {"idle", "attempt"}
      /\ call'.original = call.original /\ call'.attempt = call.attempt
  BY <1>2, <1>3 DEF Calls, CallSteps
<1> QED
  BY <1>1, <1>2, <1>4, FaultIs, CallMoves

LEMMA ServiceErrorIs ==
    ASSUME ExchangeInv, ServiceError
    PROVE  ExchangeInv'
<1>1. call.step = "sent" /\ UNCHANGED <<settings, chat, wire, excluded, spoken, answer, stream>>
      /\ Fault
  BY DEF ServiceError
<1>2. call \in Calls /\ faults \in Nat
  BY TypesAre DEF ExchangeInv
<1>3. PICK n \in Nat : n = call.retries + 1
  BY <1>2 DEF Calls
<1>4. call' = [call EXCEPT !.retries = n]
  BY <1>3 DEF ServiceError
<1>5. /\ call' \in Calls /\ call'.step = "sent"
      /\ call'.original = call.original /\ call'.attempt = call.attempt
  BY <1>1, <1>2, <1>4 DEF Calls, CallSteps
<1> QED
  BY <1>1, <1>2, <1>5, FaultIs, CallMoves

LEMMA BoundsAre ==
    MaxAttempts \in Nat /\ MaxRetries \in Nat /\ MaxExclusions \in Nat /\ MaxFaults \in Nat
BY ExchangeBounds

LEMMA LongContextErrorIs ==
    ASSUME ExchangeInv, LongContextError
    PROVE  ExchangeInv'
<1>1. /\ call.step = "sent" /\ Fault /\ UNCHANGED <<settings, chat, spoken, answer, stream>>
      /\ excluded' = excluded + 1
      /\ wire' = [wire EXCEPT !.betas = Header(wire.body, excluded + 1)]
      /\ call' = [call EXCEPT !.retries = MaxRetries]
  BY DEF LongContextError
<1>2. /\ ExchangeTypeOK /\ ChatOK /\ TurnsSpoken /\ OriginalOK /\ AttemptOK /\ WireOK
      /\ AnswerOK
  BY Zenon DEF ExchangeInv
<1>3. AnswerWritten /\ stream \in StreamSet /\ StreamOK(stream)
  BY AnswerIsWritten
<1>4. call \in Calls /\ faults \in Nat /\ excluded \in Nat
      /\ wire = [body |-> wire.body, token |-> wire.token, betas |-> wire.betas]
      /\ wire.body \in BodySet \cup {Rejected}
  BY <1>2, TypesAre
<1>5. PICK n \in Nat : n = excluded + 1
  BY <1>4
<1>6. PICK betas : betas = Header(wire.body, n)
  OBVIOUS
<1>7. wire' = [wire EXCEPT !.betas = betas]
  BY <1>1, <1>5, <1>6
<1>8. /\ wire'.body = wire.body /\ wire'.token = wire.token /\ wire'.betas = betas
      /\ wire' = [body |-> wire'.body, token |-> wire'.token, betas |-> wire'.betas]
  BY <1>4, <1>7
<1>9. /\ call' \in Calls /\ call'.step = "sent"
      /\ call'.original = call.original /\ call'.attempt = call.attempt
  BY <1>1, <1>4, BoundsAre DEF Calls, CallSteps
<1>10. ExchangeTypeOK'
  <2>1. /\ settings \in Settings
        /\ chat \in [turn : Nat, messages : Seq(MessageSet)]
        /\ spoken \subseteq SpokenUses
        /\ answer \in AnswerSet /\ stream \in StreamSet
    BY <1>2, TypesAre, Zenon
  <2>2. faults' \in Nat
    BY <1>1, <1>4, FaultIs
  <2>3. excluded' \in Nat
    BY <1>1, <1>5
  <2>4. wire'.body \in BodySet \cup {Rejected}
    BY <1>4, <1>8
  <2> QED
    BY <1>1, <1>8, <1>9, <2>1, <2>2, <2>3, <2>4, Zenon DEF ExchangeTypeOK, Calls
<1>11. ChatOK' /\ TurnsSpoken' /\ OriginalOK' /\ AttemptOK'
  <2>1. ChatOK'
    BY <1>1, <1>2, ChatStill
  <2>2. TurnsSpoken'
    BY <1>1, <1>2, <1>9, TurnsStill
  <2>3. OriginalOK'
    BY <1>1, <1>2, <1>9, OriginalStill
  <2>4. AttemptOK'
    BY <1>1, <1>2, <1>8, <1>9, AttemptStill
  <2> QED
    BY <2>1, <2>2, <2>3, <2>4
<1>12. WireOK'
  <2>1. \E m \in Nat : wire'.betas = Header(wire.body, m)
    BY <1>5, <1>6, <1>8
  <2> QED
    BY <1>1, <1>2, <1>8, <2>1, WireStill
<1>13. AnswerOK'
  <2>1. Over'
    <3>1. Over
      BY <1>1, <1>2, Zenon DEF AnswerOK
    <3> QED
      BY <1>1, <3>1 DEF Over
  <2> QED
    BY <1>1, <1>2, <1>9, <2>1, AnswerStill
<1>14. StreamOK(stream)'
  BY <1>1, <1>3, StreamStill
<1> QED
  BY <1>10, <1>11, <1>12, <1>13, <1>14, Zenon DEF ExchangeInv

\* What becomes of a request is known by what it was made of.
LEMMA AttemptWire ==
    ASSUME ExchangeInv, call.step = "attempt", NEW account \in Account,
           NEW body, body = TransformRequestBody(call.original, settings, account), body # Rejected
    PROVE  /\ body \in BodySet
           /\ settings.signature => body.account = account
           /\ body.model = settings.model
           /\ body.effort => IsAdaptiveThinkingModel(settings.model)
           /\ \A n \in ToSet(body.tools) : n \in WireName
           /\ \A b \in Blocks(body.messages) :
                  b.kind = "tool_use" =>
                      \E u \in spoken :
                          /\ u.id = b.id
                          /\ b.name = ToWireToolName(ToInternalToolName(u.name))
           /\ IdsOf(body.messages, "tool_use") = IdsOf(body.messages, "tool_result")
           /\ Cardinality(CachedIn(body.system)) <= 1
           /\ Cardinality(Marks(body.messages)) <= 3
<1>1. PICK old : old = call.original
  OBVIOUS
<1>2. /\ old \in BodySet /\ old.model = settings.model
      /\ ~old.effort
      /\ Cardinality(Marks(old.messages)) <= 2
      /\ UsesSpoken(old.messages)
  BY <1>1 DEF ExchangeInv, OriginalOK
<1>3. PICK config \in Settings : config = settings
  BY TypesAre DEF ExchangeInv
<1>4. body = TransformRequestBody(old, config, account)
  BY <1>1, <1>3
<1>5. Transformed(body, old, config, account)
  BY <1>2, <1>3, <1>4, TransformIs
<1>6. /\ body \in BodySet /\ body.model = old.model
      /\ body.account = IF config.signature THEN account ELSE old.account
      /\ body.effort => old.effort \/ IsAdaptiveThinkingModel(old.model)
      /\ \A n \in ToSet(body.tools) : n \in WireName
      /\ \A b \in Blocks(body.messages) :
             b.kind = "tool_use" =>
                 \E c \in Blocks(old.messages) :
                     /\ c.kind = "tool_use" /\ c.id = b.id
                     /\ b.name = ToWireToolName(c.name) /\ ~DetectLegacyDoublePrefix(c.name)
      /\ IdsOf(body.messages, "tool_use") = IdsOf(body.messages, "tool_result")
      /\ Cardinality(CachedIn(body.system)) <= 1
      /\ Cardinality(Marks(body.messages)) <= Cardinality(Marks(old.messages)) + 1
  BY <1>5, Zenon DEF Transformed
<1>7. Cardinality(Marks(body.messages)) <= 3
  <2>1. old.messages \in Seq(MessageSet) /\ body.messages \in Seq(MessageSet)
    BY <1>2, <1>6 DEF BodySet
  <2>2. PICK m \in Nat : m = Cardinality(Marks(old.messages))
    BY <2>1, MarksFinite
  <2>3. PICK k \in Nat : k = Cardinality(Marks(body.messages))
    BY <2>1, MarksFinite
  <2> QED
    BY <1>2, <1>6, <2>2, <2>3
<1>8. ASSUME NEW b \in Blocks(body.messages), b.kind = "tool_use"
      PROVE  \E u \in spoken :
                 u.id = b.id /\ b.name = ToWireToolName(ToInternalToolName(u.name))
  <2>1. PICK c \in Blocks(old.messages) :
            c.kind = "tool_use" /\ c.id = b.id /\ b.name = ToWireToolName(c.name)
    BY <1>6, <1>8, Zenon
  <2>2. PICK u \in spoken : u.id = c.id /\ c.name = ToInternalToolName(u.name)
    BY <1>2, <2>1, Zenon DEF UsesSpoken
  <2> QED
    BY <2>1, <2>2, Zenon
<1> QED
  BY <1>2, <1>3, <1>6, <1>7, <1>8, Zenon

LEMMA AttemptIs ==
    ASSUME ExchangeInv, NEW account \in Account, Attempt(account)
    PROVE  ExchangeInv'
<1>1. /\ call.step = "attempt" /\ UNCHANGED <<chat, answer, stream>>
      /\ UNCHANGED <<settings, excluded, spoken, faults>>
  BY DEF Attempt, rest
<1>2. PICK body : body = TransformRequestBody(call.original, settings, account)
  OBVIOUS
<1>3. call \in Calls /\ faults \in Nat /\ excluded \in Nat
  BY TypesAre DEF ExchangeInv
<1>4. CASE body = Rejected
  <2>1. wire' = wire /\ call' = [call EXCEPT !.step = "idle"]
    BY <1>2, <1>4 DEF Attempt, AttemptBody, Ends
  <2>2. /\ call' \in Calls /\ call'.step = "idle"
        /\ call'.original = call.original /\ call'.attempt = call.attempt
    BY <1>3, <2>1 DEF Calls, CallSteps
  <2> QED
    BY <1>1, <1>3, <2>1, <2>2, CallMoves
<1>5. CASE body # Rejected
  <2>1. PICK n \in Nat : n = call.attempt + 1 /\ n > 0
    BY <1>3 DEF Calls
  <2>2. PICK betas : betas = Header(body, excluded)
    OBVIOUS
  <2>3. /\ wire' = [body |-> body, token |-> account, betas |-> betas]
        /\ call' = [call EXCEPT !.step = "sent", !.attempt = n, !.retries = 0]
    BY <1>2, <1>5, <2>1, <2>2 DEF Attempt, AttemptBody
  <2>4. /\ wire'.body = body /\ wire'.token = account /\ wire'.betas = betas
        /\ wire' = [body |-> wire'.body, token |-> wire'.token, betas |-> wire'.betas]
    BY <2>3
  <2>5. /\ call' \in Calls /\ call'.step = "sent" /\ call'.attempt = n
        /\ call'.original = call.original
    BY <1>3, <2>3 DEF Calls, CallSteps
  <2>6. /\ ExchangeTypeOK /\ ChatOK /\ TurnsSpoken /\ OriginalOK /\ AttemptOK /\ WireOK
        /\ AnswerOK
    BY Zenon DEF ExchangeInv
  <2>7. AnswerWritten /\ stream \in StreamSet /\ StreamOK(stream)
    BY AnswerIsWritten
  <2>8. /\ body \in BodySet
        /\ settings.signature => body.account = account
        /\ body.model = settings.model
        /\ body.effort => IsAdaptiveThinkingModel(settings.model)
        /\ \A m \in ToSet(body.tools) : m \in WireName
        /\ \A b \in Blocks(body.messages) :
               b.kind = "tool_use" =>
                   \E u \in spoken :
                       /\ u.id = b.id
                       /\ b.name = ToWireToolName(ToInternalToolName(u.name))
        /\ IdsOf(body.messages, "tool_use") = IdsOf(body.messages, "tool_result")
        /\ Cardinality(CachedIn(body.system)) <= 1
        /\ Cardinality(Marks(body.messages)) <= 3
    BY <1>1, <1>2, <1>5, AttemptWire
  <2>9. ExchangeTypeOK'
    <3>1. /\ settings \in Settings
          /\ chat \in [turn : Nat, messages : Seq(MessageSet)]
          /\ spoken \subseteq SpokenUses
          /\ answer \in AnswerSet /\ stream \in StreamSet
      BY <2>6, TypesAre, Zenon
    <3>2. body \in BodySet \cup {Rejected}
      BY <2>8
    <3> QED
      BY <1>1, <1>3, <2>4, <2>5, <3>1, <3>2, Zenon DEF ExchangeTypeOK, Calls
  <2>10. ChatOK' /\ TurnsSpoken' /\ OriginalOK'
    <3>1. ChatOK'
      BY <1>1, <2>6, ChatStill
    <3>2. TurnsSpoken'
      BY <1>1, <2>5, <2>6, TurnsStill
    <3>3. OriginalOK'
      BY <1>1, <2>5, <2>6, OriginalStill
    <3> QED
      BY <3>1, <3>2, <3>3
  <2>11. AttemptOK'
    <3>1. wire'.body = TransformRequestBody(call'.original, settings', account)
      BY <1>1, <1>2, <2>4, <2>5, Zenon
    <3> QED
      BY <1>5, <2>1, <2>4, <2>5, <3>1, Zenon DEF AttemptOK
  <2>12. WireOK'
    <3>1. Header(body, excluded) =
              BuildAnthropicBetaHeader(Request(body), Profile, Candidates, settings', excluded)
      BY <1>1 DEF Header
    <3>2. (\E m \in Nat : wire.betas = Header(wire.body, m))'
      BY <1>3, <2>2, <2>4, <3>1 DEF Header
    <3> QED
      BY <1>1, <2>4, <2>8, <3>2, Zenon DEF WireOK
  <2>13. AnswerOK'
    <3>1. Over'
      <4>1. Over
        BY <1>1, <2>6, Zenon DEF AnswerOK
      <4> QED
        BY <1>1, <4>1 DEF Over
    <3> QED
      BY <1>1, <2>5, <2>6, <3>1, AnswerStill
  <2>14. StreamOK(stream)'
    BY <1>1, <2>7, StreamStill
  <2> QED
    BY <2>9, <2>10, <2>11, <2>12, <2>13, <2>14, Zenon DEF ExchangeInv
<1> QED
  BY <1>4, <1>5

\* What comes of an answer that is cut is written as it was.
LEMMA CutWritten ==
    ASSUME NEW T \in Seq(Units), NEW E, WellWritten(T, E), NEW c \in 0 .. Len(T),
           NEW S, S = SubSeq(T, 1, c)
    PROVE  S \in Seq(Units) /\ WellWritten(S, E)
<1>1. PICK l \in Nat : l = Len(T) /\ DOMAIN T = 1 .. l
  OBVIOUS
<1>2. c \in Nat /\ c <= l
  BY <1>1
<1>3. S \in Seq(Units) /\ Len(S) = c /\ DOMAIN S = 1 .. c
  BY <1>1, <1>2
<1>4. \A k \in 1 .. c : S[k] = T[k] /\ k \in DOMAIN T
  BY <1>1, <1>2
<1> DEFINE Half == \A k \in DOMAIN S :
               S[k].kind = "half" =>
                   /\ S[k].event \in DOMAIN E
                   /\ k < Len(S) => S[k + 1] = Unit("rest", S[k].event)
<1>5. Half
  <2>1. ASSUME NEW k \in DOMAIN S, S[k].kind = "half"
        PROVE  S[k].event \in DOMAIN E /\ (k < Len(S) => S[k + 1] = Unit("rest", S[k].event))
    <3>1. k \in 1 .. c /\ T[k].kind = "half" /\ k \in DOMAIN T /\ S[k] = T[k]
      BY <1>3, <1>4, <2>1
    <3>2. /\ T[k].event \in DOMAIN E
          /\ k < Len(T) => T[k + 1] = Unit("rest", T[k].event)
      BY <3>1, Zenon DEF WellWritten
    <3>3. k < Len(S) => k < Len(T) /\ k + 1 \in 1 .. c
      BY <1>1, <1>2, <1>3, <3>1
    <3>4. k < Len(S) => S[k + 1] = T[k + 1]
      BY <1>4, <3>3
    <3> QED
      BY <3>1, <3>2, <3>3, <3>4
  <2> QED
    BY <2>1
<1>6. ASSUME NEW k \in DOMAIN S, S[k].kind = "rest"
      PROVE  /\ k > 1 /\ S[k - 1] = Unit("half", S[k].event)
             /\ \E crlf \in BOOLEAN : \A j \in DOMAIN BlankLine(crlf) :
                    k + j <= Len(S) => S[k + j] = BlankLine(crlf)[j]
             /\ S[k].event > 1 => \E j \in 1..(k - 1) : S[j] = Unit("rest", S[k].event - 1)
             /\ \A j \in 1..(k - 1) : S[j].kind = "rest" => S[j].event < S[k].event
  <2>1. k \in 1 .. c /\ T[k].kind = "rest" /\ k \in DOMAIN T /\ S[k] = T[k] /\ k \in Nat
    BY <1>3, <1>4, <1>6
  <2>2. /\ k > 1 /\ T[k - 1] = Unit("half", T[k].event)
        /\ \E crlf \in BOOLEAN : \A j \in DOMAIN BlankLine(crlf) :
               k + j <= Len(T) => T[k + j] = BlankLine(crlf)[j]
        /\ T[k].event > 1 => \E j \in 1..(k - 1) : T[j] = Unit("rest", T[k].event - 1)
        /\ \A j \in 1..(k - 1) : T[j].kind = "rest" => T[j].event < T[k].event
    BY <2>1, Zenon DEF WellWritten
  <2>3. \A j \in 1 .. (k - 1) : S[j] = T[j]
    <3>1. \A j \in 1 .. (k - 1) : j \in 1 .. c
      BY <1>2, <2>1
    <3> QED
      BY <1>4, <3>1
  <2>4. S[k - 1] = T[k - 1]
    <3>1. k - 1 \in 1 .. (k - 1)
      BY <2>1, <2>2
    <3> QED
      BY <2>3, <3>1
  <2>5. \E crlf \in BOOLEAN : \A j \in DOMAIN BlankLine(crlf) :
            k + j <= Len(S) => S[k + j] = BlankLine(crlf)[j]
    <3>1. PICK crlf \in BOOLEAN : \A j \in DOMAIN BlankLine(crlf) :
               k + j <= Len(T) => T[k + j] = BlankLine(crlf)[j]
      BY <2>2
    <3>2. ASSUME NEW j \in DOMAIN BlankLine(crlf), k + j <= Len(S)
          PROVE  S[k + j] = BlankLine(crlf)[j]
      <4>1. j \in Nat \ {0}
        <5>1. PICK line \in Seq(Units) : line = BlankLine(crlf)
          <6>1. LineEnd(crlf) \in Seq(Units)
            BY LineFeeds DEF LineEnd
          <6>2. LineEnd(crlf) \o LineEnd(crlf) \in Seq(Units)
            BY <6>1, Joined
          <6> QED
            BY <6>2 DEF BlankLine
        <5>2. j \in DOMAIN line
          BY <5>1
        <5> QED
          BY <5>2, SeqIs, Zenon
      <4>2. k + j \in 1 .. c /\ k + j <= Len(T)
        BY <1>1, <1>2, <1>3, <2>1, <3>2, <4>1
      <4>3. S[k + j] = T[k + j]
        BY <1>4, <4>2
      <4> QED
        BY <3>1, <4>2, <4>3
    <3> QED
      BY <3>2
  <2> QED
    BY <2>1, <2>2, <2>3, <2>4, <2>5
<1> QED
  BY <1>3, <1>5, <1>6, Zenon DEF WellWritten

\* A stream that is over, for an answer of nothing.
LEMMA ClosedStreamOK ==
    ASSUME AnswerWritten, NEW s \in StreamSet, s.phase = "closed", s.out = <<>>, s.queue = <<>>
    PROVE  StreamOK(s)
<1>1. Len(<<>>) = 0 /\ DOMAIN <<>> = {} /\ 1 .. 0 = {}
  OBVIOUS
<1>2. Passed(s) = 0
  BY DEF Passed
<1>3. InOut(s)
  BY <1>1, <1>2, EventsAre DEF InOut
<1>4. AllSent(s)
  BY <1>1, <1>2 DEF AllSent
<1> QED
  BY <1>3, <1>4 DEF StreamOK

LEMMA NothingWritten == WellWritten(<<>>, <<>>)
<1>1. PICK none : none = <<>> /\ DOMAIN none = {}
  OBVIOUS
<1>2. WellWritten(none, none)
  BY <1>1, Zenon DEF WellWritten
<1> QED
  BY <1>1, <1>2

LEMMA NoMessages == <<>> \in Seq(MessageSet)
OBVIOUS

LEMMA ExchangeInit == Init => ExchangeInv
<1> SUFFICES ASSUME Init PROVE ExchangeInv
  OBVIOUS
<1>1. PICK units \in Seq(Units) : units = <<>>
  BY NoUnits, Zenon
<1>2. PICK events \in Seq(Events) : events = <<>>
  BY NoUnits, Zenon
<1>3. PICK messages \in Seq(MessageSet) : messages = <<>>
  BY NoMessages, Zenon
<1>4. /\ settings \in Settings /\ chat = [turn |-> 0, messages |-> messages]
      /\ call = [step |-> "idle", attempt |-> 0, retries |-> 0, original |-> Rejected]
      /\ wire = [body |-> Rejected, token |-> NoAccount, betas |-> {}]
      /\ excluded = 0 /\ spoken = {} /\ faults = MaxFaults
      /\ answer = [ok |-> TRUE, events |-> events, text |-> units, broken |-> FALSE,
                   borders |-> {}]
      /\ stream = [NewStream EXCEPT !.phase = "closed", !.pulling = FALSE]
  BY <1>1, <1>2, <1>3 DEF Init
<1>5. answer \in AnswerSet
  BY <1>4 DEF AnswerSet
<1>6. answer.events = <<>> /\ answer.text = <<>>
  BY <1>1, <1>2, <1>4
<1>7. AnswerWritten
  BY <1>5, <1>6, NothingWritten DEF AnswerWritten
<1>8. stream \in StreamSet /\ stream.phase = "closed" /\ stream.out = <<>> /\ stream.queue = <<>>
  <2>1. PICK new \in StreamSet : new = NewStream
    BY NewStreamTyped
  <2>2. new.out = <<>> /\ new.queue = <<>>
    BY <2>1, NewStreamIs
  <2>3. stream = [new EXCEPT !.phase = "closed", !.pulling = FALSE]
    BY <1>4, <2>1
  <2> QED
    BY <2>2, <2>3 DEF StreamSet, Phases
<1>9. StreamOK(stream)
  BY <1>7, <1>8, ClosedStreamOK
<1>10. call \in Calls /\ call.step = "idle" /\ call.attempt = 0
  BY <1>4 DEF Calls, CallSteps
<1>11. chat \in [turn : Nat, messages : Seq(MessageSet)] /\ chat.messages = <<>>
  BY <1>3, <1>4
<1>12. wire = [body |-> wire.body, token |-> wire.token, betas |-> wire.betas]
       /\ wire.body = Rejected
  BY <1>4
<1>13. ExchangeTypeOK
  <2>1. wire.body \in BodySet \cup {Rejected}
    BY <1>12
  <2>2. excluded \in Nat /\ faults \in Nat /\ spoken \subseteq SpokenUses
    BY <1>4, BoundsAre
  <2> QED
    BY <1>4, <1>5, <1>8, <1>10, <1>11, <1>12, <2>1, <2>2, Zenon DEF ExchangeTypeOK, Calls
<1>14. ChatOK
  <2>1. DOMAIN chat.messages = {}
    BY <1>11
  <2>2. Blocks(chat.messages) = {}
    BY <2>1 DEF Blocks
  <2> QED
    BY <2>1, <2>2 DEF ChatOK, UsesSpoken, Unmarkable
<1>15. TurnsSpoken
  BY <1>4 DEF TurnsSpoken
<1>16. OriginalOK /\ AttemptOK /\ WireOK
  BY <1>10, <1>12 DEF OriginalOK, AttemptOK, WireOK
<1>17. AnswerOK
  BY <1>7, <1>8, <1>10 DEF AnswerOK, AnswerWritten, Over
<1> QED
  BY <1>9, <1>13, <1>14, <1>15, <1>16, <1>17, Zenon DEF ExchangeInv

\* A new answer is read: its events are known, and what it says is spoken.
LEMMA StreamsIs ==
    ASSUME ExchangeInv, call.step = "sent", NEW a \in AnswerSet, Streams(a),
           WellWritten(a.text, a.events), faults' \in Nat,
           spoken \subseteq spoken', spoken' \subseteq SpokenUses,
           \A u, v \in spoken' : u.id = v.id => u = v,
           \A u \in spoken' : u.id[1] <= chat.turn,
           a.ok => \A i \in DOMAIN a.events :
               LET e == a.events[i]
               IN  IF e.type = "content_block_start" /\ e.block = "tool_use"
                   THEN \E u \in spoken' : u.id = <<chat.turn, e.index>> /\ u.name = e.name
                   ELSE e.name = NoName
    PROVE  ExchangeInv'
<1>1. /\ answer' = a /\ stream' = NewStream /\ call' = [call EXCEPT !.step = "streaming"]
      /\ UNCHANGED <<settings, chat, wire, excluded>>
  BY DEF Streams
<1>2. /\ ExchangeTypeOK /\ ChatOK /\ TurnsSpoken /\ OriginalOK /\ AttemptOK /\ WireOK
      /\ AnswerOK
  BY Zenon DEF ExchangeInv
<1>3. call \in Calls
  BY <1>2, TypesAre
<1>4. /\ call' \in Calls /\ call'.step = "streaming"
      /\ call'.original = call.original /\ call'.attempt = call.attempt
  BY <1>1, <1>3 DEF Calls, CallSteps
<1>5. ExchangeTypeOK'
  <2>1. /\ settings \in Settings /\ excluded \in Nat
        /\ chat \in [turn : Nat, messages : Seq(MessageSet)]
        /\ wire = [body |-> wire.body, token |-> wire.token, betas |-> wire.betas]
        /\ wire.body \in BodySet \cup {Rejected}
    BY <1>2, TypesAre, Zenon
  <2> QED
    BY <1>1, <1>4, <2>1, NewStreamTyped, Zenon DEF ExchangeTypeOK, Calls
<1>6. ChatOK' /\ OriginalOK' /\ AttemptOK' /\ WireOK'
  <2>1. ChatOK'
    BY <1>1, <1>2, ChatStill
  <2>2. OriginalOK'
    BY <1>1, <1>2, <1>4, OriginalStill
  <2>3. AttemptOK'
    BY <1>1, <1>2, <1>4, AttemptStill
  <2>4. WireOK'
    BY <1>1, <1>2, WireStill
  <2> QED
    BY <2>1, <2>2, <2>3, <2>4
<1>7. TurnsSpoken'
  BY <1>1, <1>4, Zenon DEF TurnsSpoken
<1>8. AnswerOK'
  <2>1. WellWritten(answer.text, answer.events)'
    BY <1>1
  <2>2. answer'.ok =>
            \A i \in DOMAIN answer'.events :
               LET e == answer'.events[i]
               IN  IF e.type = "content_block_start" /\ e.block = "tool_use"
                   THEN \E u \in spoken' : u.id = <<chat'.turn, e.index>> /\ u.name = e.name
                   ELSE e.name = NoName
    BY <1>1
  <2> QED
    BY <1>4, <2>1, <2>2, Zenon DEF AnswerOK
<1>9. StreamOK(stream)'
  <2>1. AnswerWritten'
    BY <1>1 DEF AnswerWritten
  <2> QED
    BY <1>1, <2>1, NewStreamOKNext
<1> QED
  BY <1>5, <1>6, <1>7, <1>8, <1>9, Zenon DEF ExchangeInv

\* What a server may answer.
LEMMA ServedIs ==
    ASSUME ExchangeInv, call.step = "sent", NEW a \in ServerAnswers(wire.body)
    PROVE  /\ a \in AnswerSet /\ a.borders \subseteq 0..Len(a.text)
           /\ WellWritten(a.text, a.events)
           /\ a.text \in Seq(Units) /\ a.events \in Seq(Events)
           /\ \A i \in DOMAIN a.events :
                  /\ a.events[i] \in Events
                  /\ IF a.events[i].type = "content_block_start" /\ a.events[i].block = "tool_use"
                     THEN a.events[i].name \in WireName ELSE a.events[i].name = NoName
                  /\ \A j \in DOMAIN a.events :
                         /\ a.events[i].type = "content_block_start"
                         /\ a.events[j].type = "content_block_start"
                         /\ a.events[j].index = a.events[i].index
                         => i = j
<1>1. /\ a \in AnswerSet /\ a.borders \subseteq 0..Len(a.text)
      /\ WellWritten(a.text, a.events)
      /\ \A i \in DOMAIN a.events :
             LET e == a.events[i]
                 starts == e.type = "content_block_start"
             IN  /\ starts /\ e.block = "tool_use" => e.name \in ToSet(wire.body.tools)
                 /\ ~(starts /\ e.block = "tool_use") => e.name = NoName
                 /\ \A j \in DOMAIN a.events :
                        starts /\ a.events[j].type = "content_block_start"
                            /\ a.events[j].index = e.index => i = j
  BY DEF ServerAnswers
<1>2. a.text \in Seq(Units) /\ a.events \in Seq(Events)
  BY <1>1 DEF AnswerSet
<1>3. \A i \in DOMAIN a.events : a.events[i] \in Events
  BY <1>2, SeqIs, Zenon
<1>4. wire.body # Rejected
  <2>1. AttemptOK /\ call \in Calls
    BY TypesAre DEF ExchangeInv
  <2> QED
    BY <2>1 DEF AttemptOK
<1>5. \A n \in ToSet(wire.body.tools) : n \in WireName
  BY <1>4 DEF ExchangeInv, WireOK
<1> QED
  BY <1>1, <1>2, <1>3, <1>5

\* A name of the wire is a name.
LEMMA WireNamesAre == NoName \notin WireName
BY NamesOK DEF WireName, IsPreserved, NoName, ToolName

LEMMA AnsweredIs ==
    ASSUME ExchangeInv, call.step = "sent", NEW a \in ServerAnswers(wire.body), Answered(a)
    PROVE  ExchangeInv'
<1>1. PICK t \in Nat : t = chat.turn
  BY TypesAre DEF ExchangeInv
<1>2. /\ a \in AnswerSet /\ a.borders \subseteq 0..Len(a.text)
      /\ WellWritten(a.text, a.events)
      /\ a.text \in Seq(Units) /\ a.events \in Seq(Events)
      /\ \A i \in DOMAIN a.events :
             /\ a.events[i] \in Events
             /\ IF a.events[i].type = "content_block_start" /\ a.events[i].block = "tool_use"
                THEN a.events[i].name \in WireName ELSE a.events[i].name = NoName
             /\ \A j \in DOMAIN a.events :
                    /\ a.events[i].type = "content_block_start"
                    /\ a.events[j].type = "content_block_start"
                    /\ a.events[j].index = a.events[i].index
                    => i = j
  BY ServedIs
<1> DEFINE Use(i) == [id |-> <<t, a.events[i].index>>, name |-> a.events[i].name]
           named == {j \in DOMAIN a.events : a.events[j].name # NoName}
<1>3. spoken' = spoken \cup {Use(i) : i \in named}
  BY <1>1 DEF Answered
<1>4. \A i \in named : /\ i \in DOMAIN a.events /\ a.events[i].name \in WireName
                       /\ a.events[i].type = "content_block_start"
                       /\ a.events[i].index \in Nat
  BY <1>2 DEF Events
<1>5. \A i \in DOMAIN a.events :
          IF a.events[i].type = "content_block_start" /\ a.events[i].block = "tool_use"
          THEN i \in named ELSE a.events[i].name = NoName
  BY <1>2, WireNamesAre
<1>6. \A i \in named : Use(i) \in SpokenUses /\ Use(i).id = <<t, a.events[i].index>>
                       /\ Use(i).id[1] = t /\ Use(i).id[2] = a.events[i].index
                       /\ Use(i).name = a.events[i].name
  BY <1>4 DEF SpokenUses, UseIds
<1>7. TurnsSpoken /\ spoken \subseteq SpokenUses /\ faults \in Nat
  BY TypesAre DEF ExchangeInv
<1>8. \A u \in spoken : u.id \in UseIds /\ u.id[1] \in Nat /\ u.id[1] < t
  <2>1. \A u \in spoken : u.id[1] < t
    BY <1>1, <1>7, Zenon DEF TurnsSpoken
  <2>2. \A u \in spoken : u.id \in UseIds
    BY <1>7 DEF SpokenUses
  <2>3. \A id \in UseIds : id[1] \in Nat
    BY DEF UseIds
  <2> QED
    BY <2>1, <2>2, <2>3
<1>9. spoken \subseteq spoken' /\ spoken' \subseteq SpokenUses
  BY <1>3, <1>6, <1>7
<1> HIDE DEF Use, named
<1>10. \A u \in spoken' : u \in spoken \/ \E i \in named : u = Use(i)
  BY <1>3
<1>11. \A u, v \in spoken' : u.id = v.id => u = v
  <2>1. ASSUME NEW u \in spoken', NEW v \in spoken', u.id = v.id PROVE u = v
    <3>1. CASE u \in spoken /\ v \in spoken
      BY <1>7, <2>1, <3>1, Zenon DEF TurnsSpoken
    <3>2. CASE u \notin spoken /\ v \notin spoken
      <4>1. PICK i \in named : u = Use(i)
        BY <1>10, <3>2
      <4>2. PICK j \in named : v = Use(j)
        BY <1>10, <3>2
      <4>3. a.events[i].index = a.events[j].index
        BY <1>6, <2>1, <4>1, <4>2
      <4>4. i = j
        BY <1>2, <1>4, <4>3
      <4> QED
        BY <4>1, <4>2, <4>4
    <3>3. CASE u \in spoken /\ v \notin spoken
      <4>1. PICK j \in named : v = Use(j)
        BY <1>10, <3>3
      <4>2. u.id[1] < t /\ v.id[1] = t
        BY <1>6, <1>8, <3>3, <4>1
      <4> QED
        BY <1>1, <2>1, <4>2
    <3>4. CASE u \notin spoken /\ v \in spoken
      <4>1. PICK j \in named : u = Use(j)
        BY <1>10, <3>4
      <4>2. v.id[1] < t /\ u.id[1] = t
        BY <1>6, <1>8, <3>4, <4>1
      <4> QED
        BY <1>1, <2>1, <4>2
    <3> QED
      BY <3>1, <3>2, <3>3, <3>4
  <2> QED
    BY <2>1
<1>12. \A u \in spoken' : u.id[1] <= chat.turn
  BY <1>1, <1>6, <1>8, <1>10
<1>13. \A i \in DOMAIN a.events :
           LET e == a.events[i]
           IN  IF e.type = "content_block_start" /\ e.block = "tool_use"
               THEN \E u \in spoken' : u.id = <<chat.turn, e.index>> /\ u.name = e.name
               ELSE e.name = NoName
  <2>1. ASSUME NEW i \in named
        PROVE  \E u \in spoken' : u.id = <<chat.turn, a.events[i].index>> /\ u.name = a.events[i].name
    BY <1>1, <1>3, <1>6
  <2> QED
    BY <1>5, <2>1
<1>14. CASE Streams(a) /\ UNCHANGED faults
  BY <1>2, <1>7, <1>9, <1>11, <1>12, <1>13, <1>14, StreamsIs
<1>15. CASE Fault /\ \E cut \in a.borders, broken \in BOOLEAN :
                 Streams([a EXCEPT !.text = SubSeq(@, 1, cut), !.broken = broken])
  <2>1. PICK cut \in a.borders, broken \in BOOLEAN :
            Streams([a EXCEPT !.text = SubSeq(@, 1, cut), !.broken = broken])
    BY <1>15
  <2>2. PICK text : text = SubSeq(a.text, 1, cut)
    OBVIOUS
  <2>3. text \in Seq(Units) /\ WellWritten(text, a.events)
    <3>1. cut \in 0 .. Len(a.text)
      BY <1>2
    <3> QED
      BY <1>2, <2>2, <3>1, CutWritten
  <2>4. PICK b : b = [a EXCEPT !.text = text, !.broken = broken]
    OBVIOUS
  <2>5. Streams(b)
    BY <2>1, <2>2, <2>4
  <2>6. b \in AnswerSet /\ b.text = text /\ b.events = a.events /\ b.ok = a.ok
    BY <1>2, <2>3, <2>4 DEF AnswerSet
  <2>7. faults' \in Nat
    BY <1>7, <1>15, FaultIs
  <2>8. WellWritten(b.text, b.events)
    BY <2>3, <2>6
  <2>9. \A i \in DOMAIN b.events :
           LET e == b.events[i]
           IN  IF e.type = "content_block_start" /\ e.block = "tool_use"
               THEN \E u \in spoken' : u.id = <<chat.turn, e.index>> /\ u.name = e.name
               ELSE e.name = NoName
    BY <1>13, <2>6
  <2> QED
    BY <1>9, <1>11, <1>12, <2>5, <2>6, <2>7, <2>8, <2>9, StreamsIs
<1> QED
  BY <1>14, <1>15 DEF Answered

LEMMA RefusedIs ==
    ASSUME ExchangeInv, call.step = "sent", NEW a \in ServerAnswers(wire.body), Refused(a)
    PROVE  ExchangeInv'
<1>1. Streams(a) /\ ~a.ok /\ Fault /\ spoken' = spoken
  BY DEF Refused
<1>2. TurnsSpoken /\ spoken \subseteq SpokenUses /\ faults \in Nat
  BY TypesAre DEF ExchangeInv
<1>3. faults' \in Nat
  BY <1>1, <1>2, FaultIs
<1>4. \A u, v \in spoken' : u.id = v.id => u = v
  BY <1>1, <1>2, Zenon DEF TurnsSpoken
<1>5. \A u \in spoken' : u.id[1] <= chat.turn
  BY <1>1, <1>2, Zenon DEF TurnsSpoken
<1>6. a \in AnswerSet /\ WellWritten(a.text, a.events)
  BY ServedIs
<1> QED
  BY <1>1, <1>2, <1>3, <1>4, <1>5, <1>6, StreamsIs

\* A step of the stream, or of its reader, that leaves the conversation alone.
LEMMA StreamMoves ==
    ASSUME ExchangeInv, call.step = "streaming",
           UNCHANGED <<settings, chat, call, wire, excluded, spoken>>, faults' \in Nat,
           answer' = answer, NEW t \in StreamSet, stream' = t, StreamOK(t)
    PROVE  ExchangeInv'
<1>1. AnswerWritten /\ stream \in StreamSet /\ StreamOK(stream)
  BY AnswerIsWritten
<1>2. /\ ExchangeTypeOK /\ ChatOK /\ TurnsSpoken /\ OriginalOK /\ AttemptOK /\ WireOK
      /\ AnswerOK
  BY Zenon DEF ExchangeInv
<1>3. ExchangeTypeOK'
  <2>1. call' \in Calls /\ stream' \in StreamSet
    BY <1>2, TypesAre
  <2> QED
    BY <1>2, <2>1, TypesStill
<1>4. ChatOK' /\ TurnsSpoken' /\ OriginalOK' /\ AttemptOK' /\ WireOK'
  <2>1. ChatOK'
    BY <1>2, ChatStill
  <2>2. TurnsSpoken'
    BY <1>2, TurnsStill
  <2>3. OriginalOK'
    BY <1>2, OriginalStill
  <2>4. AttemptOK'
    BY <1>2, AttemptStill
  <2>5. WireOK'
    BY <1>2, WireStill
  <2> QED
    BY <2>1, <2>2, <2>3, <2>4, <2>5
<1>5. AnswerOK'
  BY <1>2, AnswerStill
<1>6. StreamOK(stream)'
  BY <1>1, SameAnswer
<1> QED
  BY <1>3, <1>4, <1>5, <1>6, Zenon DEF ExchangeInv

LEMMA StreamStepIs ==
    ASSUME ExchangeInv, StreamStep
    PROVE  ExchangeInv'
<1>1. /\ call.step = "streaming" /\ UNCHANGED <<settings, chat, call, wire, excluded, spoken>>
      /\ faults' = faults
  BY DEF StreamStep, rest
<1>2. AnswerWritten /\ stream \in StreamSet /\ StreamOK(stream)
  BY AnswerIsWritten
<1>3. faults' \in Nat
  BY <1>1, TypesAre DEF ExchangeInv
<1>4. \/ \E n \in 1 .. Coming : Arrive(n)
      \/ EndOfAnswer \/ Breaks \/ FailStream \/ Read
  BY DEF StreamStep
<1>5. answer' = answer /\ \E t \in StreamSet : stream' = t /\ StreamOK(t)
  <2>1. ASSUME NEW n \in 1 .. Coming, Arrive(n)
        PROVE  answer' = answer /\ \E t \in StreamSet : stream' = t /\ StreamOK(t)
    BY <1>2, <2>1, ArriveIs, Zenon
  <2>2. CASE EndOfAnswer
    BY <1>2, <2>2, EndOfAnswerIs, Zenon
  <2>3. CASE Breaks
    BY <1>2, <2>3, BreaksIs, Zenon
  <2>4. CASE FailStream
    BY <1>2, <2>4, FailStreamIs, Zenon
  <2>5. CASE Read
    BY <1>2, <2>5, ReadIs, Zenon
  <2> QED
    BY <1>4, <2>1, <2>2, <2>3, <2>4, <2>5
<1>6. PICK t \in StreamSet : stream' = t /\ StreamOK(t)
  BY <1>5
<1> QED
  BY <1>1, <1>3, <1>5, <1>6, StreamMoves

LEMMA UserCancelsIs ==
    ASSUME ExchangeInv, UserCancels
    PROVE  ExchangeInv'
<1>1. /\ call.step = "streaming" /\ UNCHANGED <<settings, chat, call, wire, excluded, spoken>>
      /\ Fault /\ CancelStream
  BY DEF UserCancels
<1>2. AnswerWritten /\ stream \in StreamSet /\ StreamOK(stream)
  BY AnswerIsWritten
<1>3. faults' \in Nat
  BY <1>1, FaultIs, TypesAre DEF ExchangeInv
<1>4. answer' = answer /\ \E t \in StreamSet : stream' = t /\ StreamOK(t)
  BY <1>1, <1>2, CancelIs, Zenon
<1>5. PICK t \in StreamSet : stream' = t /\ StreamOK(t)
  BY <1>4
<1> QED
  BY <1>1, <1>3, <1>4, <1>5, StreamMoves

\* OpenCode's side of the conversation changes, between two calls.
LEMMA ChatMoves ==
    ASSUME ExchangeInv, UNCHANGED <<settings, wire, excluded, spoken, answer, stream>>,
           faults' \in Nat, call' \in Calls, call'.step = "idle", Over,
           call'.original = call.original, call'.attempt = call.attempt,
           chat' \in [turn : Nat, messages : Seq(MessageSet)], chat'.turn = chat.turn, ChatOK'
    PROVE  ExchangeInv'
<1>1. AnswerWritten /\ stream \in StreamSet /\ StreamOK(stream)
  BY AnswerIsWritten
<1>2. /\ ExchangeTypeOK /\ TurnsSpoken /\ OriginalOK /\ AttemptOK /\ WireOK /\ AnswerOK
  BY Zenon DEF ExchangeInv
<1>3. ExchangeTypeOK'
  <2>1. /\ settings \in Settings /\ excluded \in Nat
        /\ wire = [body |-> wire.body, token |-> wire.token, betas |-> wire.betas]
        /\ wire.body \in BodySet \cup {Rejected}
        /\ spoken \subseteq SpokenUses
        /\ answer \in AnswerSet
    BY <1>2, TypesAre, Zenon
  <2> QED
    BY <1>1, <2>1, Zenon DEF ExchangeTypeOK, Calls
<1>4. TurnsSpoken'
  BY <1>2, TurnsStill
<1>5. OriginalOK'
  BY DEF OriginalOK
<1>6. AttemptOK'
  BY <1>2, AttemptStill
<1>7. WireOK'
  BY <1>2, WireStill
<1>8. AnswerOK'
  <2>1. Over'
    BY DEF Over
  <2> QED
    BY <1>2, <2>1, AnswerStill
<1>9. StreamOK(stream)'
  BY <1>1, StreamStill
<1> QED
  BY <1>3, <1>4, <1>5, <1>6, <1>7, <1>8, <1>9, Zenon DEF ExchangeInv

\* What is left of a conversation says nothing new.
LEMMA LeftOK ==
    ASSUME NEW messages \in Seq(MessageSet), UsesSpoken(messages), Unmarkable(messages),
           NEW n \in 2 .. Len(messages), NEW left, left = SubSeq(messages, n, Len(messages))
    PROVE  left \in Seq(MessageSet) /\ UsesSpoken(left) /\ Unmarkable(left)
<1>1. /\ left \in Seq(MessageSet)
      /\ \A i \in DOMAIN left : i + n - 1 \in DOMAIN messages /\ left[i] = messages[i + n - 1]
  OBVIOUS
<1>2. \A i \in DOMAIN left : \E j \in DOMAIN messages : left[i] = messages[j]
  BY <1>1
<1>3. Blocks(left) \subseteq Blocks(messages)
  BY <1>2 DEF Blocks
<1>4. UsesSpoken(left)
  BY <1>3 DEF UsesSpoken
<1>5. Unmarkable(left)
  BY <1>2, Zenon DEF Unmarkable
<1> QED
  BY <1>1, <1>4, <1>5

LEMMA ForgetIs ==
    ASSUME ExchangeInv, Forget
    PROVE  ExchangeInv'
<1>1. /\ call.step = "idle" /\ Fault
      /\ UNCHANGED <<settings, call, wire, excluded, spoken, answer, stream>>
      /\ \E n \in 2..Len(chat.messages) :
            chat' = [chat EXCEPT !.messages = SubSeq(@, n, Len(@))]
  BY DEF Forget
<1>2. /\ call \in Calls /\ faults \in Nat
      /\ chat \in [turn : Nat, messages : Seq(MessageSet)]
      /\ UsesSpoken(chat.messages) /\ Unmarkable(chat.messages)
      /\ Over
  BY <1>1, TypesAre DEF ExchangeInv, ChatOK, AnswerOK
<1>3. PICK messages \in Seq(MessageSet) : messages = chat.messages
  BY <1>2
<1>4. PICK n \in 2 .. Len(messages) :
          chat' = [chat EXCEPT !.messages = SubSeq(messages, n, Len(messages))]
  BY <1>1, <1>3
<1>5. PICK left : left = SubSeq(messages, n, Len(messages))
  OBVIOUS
<1>6. left \in Seq(MessageSet) /\ UsesSpoken(left) /\ Unmarkable(left)
  BY <1>2, <1>3, <1>5, LeftOK
<1>7. chat' = [chat EXCEPT !.messages = left]
  BY <1>4, <1>5
<1>8. /\ chat' \in [turn : Nat, messages : Seq(MessageSet)] /\ chat'.turn = chat.turn
      /\ chat'.messages = left
  BY <1>2, <1>6, <1>7
<1>9. ChatOK'
  BY <1>1, <1>6, <1>8 DEF ChatOK, UsesSpoken, Unmarkable
<1>10. faults' \in Nat
  BY <1>1, <1>2, FaultIs
<1> QED
  BY <1>1, <1>2, <1>8, <1>9, <1>10, ChatMoves

\* What is heard of a new answer.
HeardOK(heard) ==
    /\ heard \in Seq(Block) /\ Unmarked(heard)
    /\ \A k \in DOMAIN heard :
           heard[k].kind = "tool_use" =>
               \E u \in spoken : u.id = heard[k].id /\ heard[k].name = ToInternalToolName(u.name)

\* One message more.
LEMMA MoreOK ==
    ASSUME NEW messages \in Seq(MessageSet), UsesSpoken(messages), Unmarkable(messages),
           NEW heard, HeardOK(heard), heard # <<>>, NEW role \in {"user", "assistant"},
           NEW more, more = Append(messages, Message(role, heard))
    PROVE  more \in Seq(MessageSet) /\ UsesSpoken(more) /\ Unmarkable(more)
<1>1. heard \in Seq(Block) /\ Unmarked(heard)
  BY DEF HeardOK
<1>2. PICK last \in MessageSet : last = Message(role, heard) /\ last.content = heard
  BY <1>1 DEF Message, MessageSet
<1>3. /\ more \in Seq(MessageSet)
      /\ \A i \in DOMAIN more : \/ i \in DOMAIN messages /\ more[i] = messages[i]
                                \/ more[i] = last
  BY <1>2
<1> HIDE DEF HeardOK
<1>4. Unmarkable(more)
  <2>1. ASSUME NEW i \in DOMAIN more PROVE more[i].content # <<>> /\ Unmarked(more[i].content)
    <3>1. CASE more[i] = last
      BY <1>1, <1>2, <3>1
    <3>2. CASE i \in DOMAIN messages /\ more[i] = messages[i]
      BY <3>2, Zenon DEF Unmarkable
    <3> QED
      BY <1>3, <3>1, <3>2
  <2> QED
    BY <2>1, Zenon DEF Unmarkable
<1>5. UsesSpoken(more)
  <2>1. ASSUME NEW b \in Blocks(more), b.kind = "tool_use"
        PROVE  \E u \in spoken : u.id = b.id /\ b.name = ToInternalToolName(u.name)
    <3>9. PICK i \in DOMAIN more : \E k \in DOMAIN more[i].content : b = more[i].content[k]
      BY <2>1, BlockIn, Zenon
    <3>1. PICK k \in DOMAIN more[i].content : b = more[i].content[k]
      BY <3>9
    <3>2. CASE more[i] = last
      BY <1>2, <2>1, <3>1, <3>2, Zenon DEF HeardOK
    <3>3. CASE i \in DOMAIN messages /\ more[i] = messages[i]
      <4>1. b \in Blocks(messages)
        BY <3>1, <3>3, InBlocks, Zenon
      <4> QED
        BY <2>1, <4>1, Zenon DEF UsesSpoken
    <3> QED
      BY <1>3, <3>1, <3>2, <3>3
  <2> QED
    BY <2>1, Zenon DEF UsesSpoken
<1> QED
  BY <1>3, <1>4, <1>5

\* What OpenCode hears of one event.
LEMMA StartIs ==
    ASSUME ExchangeInv, call.step = "streaming", answer.ok,
           NEW i \in DOMAIN stream.out, stream.out[i].type = "content_block_start",
           NEW b, b = IF stream.out[i].block = "tool_use"
                      THEN ToolUse(<<chat.turn, stream.out[i].index>>, stream.out[i].name)
                      ELSE TextBlock("said")
    PROVE  /\ b \in Block /\ ~b.cached
           /\ b.kind = "tool_use" =>
                  \E u \in spoken : u.id = b.id /\ b.name = ToInternalToolName(u.name)
<1>1. AnswerWritten /\ stream \in StreamSet /\ InOut(stream)
  BY AnswerIsWritten DEF StreamOK
<1>2. i \in DOMAIN answer.events /\ stream.out[i] = Renamed(answer.events[i])
  <2>1. /\ Len(stream.out) \in Nat /\ Len(stream.queue) \in Nat
        /\ DOMAIN stream.out = 1 .. Len(stream.out)
    BY <1>1, StreamFields
  <2>2. Len(stream.out) + Len(stream.queue) <= Len(answer.events)
    BY <1>1 DEF InOut, Passed
  <2>3. PICK a \in Nat, b1 \in Nat, c \in Nat :
            a = Len(stream.out) /\ b1 = Len(stream.queue) /\ c = Len(answer.events)
    BY <1>1, <2>1, EventsAre
  <2>4. i \in 1 .. a /\ a + b1 <= c
    BY <2>1, <2>2, <2>3
  <2>5. i \in 1 .. c
    BY <2>4
  <2> QED
    BY <1>1, <2>3, <2>5, EventsAre DEF InOut
<1>3. PICK e \in Events : e = answer.events[i]
  BY <1>1, <1>2, EventsAre
<1>4. PICK r \in Events : r = Renamed(e)
  BY <1>3, RenamedIs
<1>5. /\ r.type = e.type /\ r.index = e.index /\ r.block = e.block
      /\ r.name = IF e.name = NoName THEN e.name ELSE ToInternalToolName(e.name)
  BY <1>4, RenamedIs
<1>6. stream.out[i] = r
  BY <1>2, <1>3, <1>4
<1>7. spoken \subseteq SpokenUses /\ chat.turn \in Nat
  BY TypesAre DEF ExchangeInv
<1>8. CASE r.block = "tool_use"
  <2>1. \E u \in spoken : u.id = <<chat.turn, e.index>> /\ u.name = e.name
    <3>1. IF e.type = "content_block_start" /\ e.block = "tool_use"
          THEN \E u \in spoken : u.id = <<chat.turn, e.index>> /\ u.name = e.name
          ELSE e.name = NoName
      BY <1>2, <1>3 DEF ExchangeInv, AnswerOK
    <3> QED
      BY <1>5, <1>6, <1>8, <3>1
  <2>2. PICK u \in spoken : u.id = <<chat.turn, e.index>> /\ u.name = e.name
    BY <2>1
  <2>3. u.name \in WireName
    BY <1>7, <2>2 DEF SpokenUses
  <2>4. r.name = ToInternalToolName(u.name)
    BY <1>5, <2>2, <2>3, WireNamesAre
  <2>5. PICK id \in UseIds : id = <<chat.turn, r.index>>
    BY <1>7 DEF UseIds, Events
  <2>6. PICK name \in ToolNames : name = r.name
    BY DEF Events
  <2>7. b = ToolUse(id, name)
    BY <1>6, <1>8, <2>5, <2>6
  <2>8. b \in Block /\ ~b.cached /\ b.id = id /\ b.name = name
    BY <2>7, UseTyped
  <2> QED
    BY <1>5, <2>2, <2>4, <2>5, <2>6, <2>8
<1>9. CASE r.block # "tool_use"
  <2>1. b = TextBlock("said") /\ "said" \in Texts
    BY <1>6, <1>9, OwnTexts
  <2> QED
    BY <2>1, BlocksTyped
<1> QED
  BY <1>8, <1>9

LEMMA HeardIs ==
    ASSUME ExchangeInv, call.step = "streaming", answer.ok,
           NEW heard, heard = Heard(stream.out)
    PROVE  HeardOK(heard)
<1>1. stream.out \in Seq(Events)
  BY AnswerIsWritten, StreamFields
<1>2. PICK out \in Seq(Events) : out = stream.out
  BY <1>1
<1>3. PICK S : S = {i \in DOMAIN out : out[i].type = "content_block_start"}
  OBVIOUS
<1>4. PICK starts : starts = ElementsAt(out, S)
  OBVIOUS
<1>5. /\ starts \in Seq(Events)
      /\ \A k \in DOMAIN starts : \E i \in S : starts[k] = out[i]
  <2>1. S \subseteq DOMAIN out
    BY <1>3
  <2> QED
    BY <1>4, <2>1, ElementsAre
<1> DEFINE What(e) == IF e.block = "tool_use"
                      THEN ToolUse(<<chat.turn, e.index>>, e.name) ELSE TextBlock("said")
<1>6. heard = [k \in DOMAIN starts |-> What(starts[k])]
  BY <1>2, <1>3, <1>4 DEF Heard
<1>7. \A i \in S :
          /\ What(out[i]) \in Block /\ ~What(out[i]).cached
          /\ What(out[i]).kind = "tool_use" =>
                 \E u \in spoken :
                     u.id = What(out[i]).id /\ What(out[i]).name = ToInternalToolName(u.name)
  BY <1>2, <1>3, StartIs
<1> HIDE DEF What
<1>8. ASSUME NEW k \in DOMAIN starts
      PROVE  /\ What(starts[k]) \in Block /\ ~What(starts[k]).cached
             /\ What(starts[k]).kind = "tool_use" =>
                 \E u \in spoken :
                     u.id = What(starts[k]).id /\ What(starts[k]).name = ToInternalToolName(u.name)
  <2>1. PICK i \in S : starts[k] = out[i]
    BY <1>5, <1>8
  <2> QED
    BY <1>7, <2>1
<1>9. PICK n \in Nat : DOMAIN starts = 1 .. n
  BY <1>5
<1>10. heard \in Seq(Block) /\ DOMAIN heard = DOMAIN starts
  BY <1>6, <1>8, <1>9
<1>11. \A k \in DOMAIN heard : heard[k] = What(starts[k])
  BY <1>6
<1>12. ASSUME NEW k \in DOMAIN heard
       PROVE  /\ ~heard[k].cached
              /\ heard[k].kind = "tool_use" =>
                     \E u \in spoken : u.id = heard[k].id /\ heard[k].name = ToInternalToolName(u.name)
  <2>1. k \in DOMAIN starts /\ heard[k] = What(starts[k])
    BY <1>10, <1>11
  <2> QED
    BY <1>8, <2>1
<1> QED
  BY <1>10, <1>12, Zenon DEF HeardOK, Unmarked

LEMMA ListenIs ==
    ASSUME ExchangeInv, Listen
    PROVE  ExchangeInv'
<1>1. /\ call.step = "streaming" /\ Over
      /\ call' = [call EXCEPT !.step = "idle"]
      /\ UNCHANGED <<settings, wire, excluded, spoken, answer, stream>> /\ faults' = faults
  BY DEF Listen, rest
<1>2. /\ call \in Calls /\ faults \in Nat
      /\ chat \in [turn : Nat, messages : Seq(MessageSet)]
      /\ ChatOK /\ UsesSpoken(chat.messages) /\ Unmarkable(chat.messages)
  BY TypesAre DEF ExchangeInv, ChatOK
<1>3. /\ call' \in Calls /\ call'.step = "idle"
      /\ call'.original = call.original /\ call'.attempt = call.attempt
  BY <1>1, <1>2 DEF Calls, CallSteps
<1>4. PICK heard : heard = Heard(stream.out)
  OBVIOUS
<1>5. \/ /\ heard # <<>> /\ answer.ok
         /\ chat' = [chat EXCEPT !.messages = Append(@, Message("assistant", heard))]
      \/ chat' = chat
  BY <1>4 DEF Listen
<1>6. CASE chat' = chat
  <2>1. ChatOK'
    BY <1>1, <1>2, <1>6, ChatStill
  <2> QED
    BY <1>1, <1>2, <1>3, <1>6, <2>1, ChatMoves
<1>7. CASE /\ heard # <<>> /\ answer.ok
           /\ chat' = [chat EXCEPT !.messages = Append(@, Message("assistant", heard))]
  <2>1. PICK messages \in Seq(MessageSet) : messages = chat.messages
    BY <1>2
  <2>2. PICK more : more = Append(messages, Message("assistant", heard))
    OBVIOUS
  <2>3. HeardOK(heard)
    BY <1>1, <1>4, <1>7, HeardIs
  <2>4. more \in Seq(MessageSet) /\ UsesSpoken(more) /\ Unmarkable(more)
    BY <1>2, <1>7, <2>1, <2>2, <2>3, MoreOK
  <2>5. chat' = [chat EXCEPT !.messages = more]
    BY <1>7, <2>1, <2>2
  <2>6. /\ chat' \in [turn : Nat, messages : Seq(MessageSet)] /\ chat'.turn = chat.turn
        /\ chat'.messages = more
    BY <1>2, <2>4, <2>5
  <2>7. ChatOK'
    BY <1>1, <2>4, <2>6 DEF ChatOK, UsesSpoken, Unmarkable
  <2> QED
    BY <1>1, <1>2, <1>3, <2>6, <2>7, ChatMoves
<1> QED
  BY <1>5, <1>6, <1>7

\* The sequence of a finite set.
LEMMA SeqOfSet ==
    ASSUME NEW R, NEW S \in SUBSET R, IsFiniteSet(S)
    PROVE  /\ Cardinality(S) \in Nat
           /\ \A k \in 1 .. Cardinality(S) : SetToSeq(S)[k] \in R
<1>1. Cardinality(S) \in Nat /\ ExistsBijection(1 .. Cardinality(S), S)
  BY FS_CardinalityType
<1>2. \E f \in [1 .. Cardinality(S) -> S] : IsInjective(f)
  BY <1>1 DEF ExistsBijection, Bijection, Injection
<1>3. SetToSeq(S) \in [1 .. Cardinality(S) -> S]
  BY <1>2 DEF SetToSeq
<1> QED
  BY <1>1, <1>3

LEMMA UsesAre ==
    ASSUME chat.messages \in Seq(MessageSet)
    PROVE  Uses \subseteq UseIds /\ IsFiniteSet(Uses)
<1>1. CASE chat.messages = <<>>
  <2>1. Uses = {}
    BY <1>1 DEF Uses
  <2> QED
    BY <2>1, FS_EmptySet
<1>2. CASE chat.messages # <<>>
  <2>1. PICK messages \in Seq(MessageSet) : messages = chat.messages /\ messages # <<>>
    BY <1>2
  <2>2. PICK i \in DOMAIN messages : i = Len(messages)
    BY <2>1
  <2>3. PICK content \in Seq(Block) : content = messages[i].content
    BY MessageParts
  <2>4. DOMAIN content \in SUBSET Nat /\ IsFiniteSet(DOMAIN content)
    BY SeqIs
  <2> DEFINE ids == {content[k].id : k \in DOMAIN content}
             f == [k \in DOMAIN content |-> content[k].id]
  <2>5. \A k \in DOMAIN content : content[k] \in Block
    BY SeqIs, Zenon
  <2>6. ids \subseteq UseIds
    BY <2>5 DEF Block
  <2>7. f \in Surjection(DOMAIN content, ids)
    BY DEF Surjection
  <2>8. Uses \subseteq ids
    BY <2>1, <2>2, <2>3 DEF Uses, Last, ToSet
  <2> HIDE DEF f, ids
  <2>9. IsFiniteSet(ids)
    BY <2>4, <2>7, FS_Surjection
  <2> QED
    BY <2>6, <2>8, <2>9, FS_Subset
<1> QED
  BY <1>1, <1>2

\* Blocks without marks and tool uses.
NoUses(said) ==
    said \in Seq(Block) /\ \A k \in DOMAIN said : ~said[k].cached /\ said[k].kind # "tool_use"

LEMMA OneSaidMore ==
    ASSUME NEW said, NoUses(said), NEW b \in Block, ~b.cached, b.kind # "tool_use",
           NEW more, more = Append(said, b)
    PROVE  HeardOK(more) /\ more # <<>>
<1>1. PICK s \in Seq(Block) : s = said
  BY DEF NoUses
<1>2. \A k \in DOMAIN s : ~s[k].cached /\ s[k].kind # "tool_use"
  BY <1>1 DEF NoUses
<1>3. /\ more \in Seq(Block) /\ more # <<>>
      /\ \A k \in DOMAIN more : (k \in DOMAIN s /\ more[k] = s[k]) \/ more[k] = b
  BY <1>1
<1>4. \A k \in DOMAIN more : ~more[k].cached /\ more[k].kind # "tool_use"
  BY <1>2, <1>3
<1> QED
  BY <1>3, <1>4, Zenon DEF HeardOK, Unmarked

\* What the user says, with results or without.
LEMMA SaidOK ==
    ASSUME NEW ids \in SUBSET UseIds, IsFiniteSet(ids), NEW text \in Texts,
           NEW said, said = Results(ids) \o <<TextBlock(text)>>
    PROVE  HeardOK(said) /\ said # <<>>
<1>1. PICK n \in Nat : n = Cardinality(ids)
  BY SeqOfSet
<1>2. PICK results : results = Results(ids)
  OBVIOUS
<1> DEFINE From(k) == SetToSeq(ids)[k]
<1>3. \A k \in 1 .. n : From(k) \in UseIds
  BY <1>1, SeqOfSet
<1>4. results = [k \in 1 .. n |-> ToolResult(From(k))]
  BY <1>1, <1>2 DEF Results
<1> HIDE DEF From
<1>5. \A k \in 1 .. n : /\ ToolResult(From(k)) \in Block /\ ~ToolResult(From(k)).cached
                        /\ ToolResult(From(k)).kind = "tool_result"
  BY <1>3, ResultTyped
<1>6. /\ results \in Seq(Block)
      /\ \A k \in DOMAIN results : ~results[k].cached /\ results[k].kind # "tool_use"
  BY <1>4, <1>5
<1>7. PICK b \in Block : b = TextBlock(text) /\ ~b.cached /\ b.kind # "tool_use"
  BY BlocksTyped
<1>8. said = Append(results, b)
  <2>1. said = results \o <<b>>
    BY <1>2, <1>7
  <2> QED
    BY <1>6, <2>1
<1>9. NoUses(results)
  BY <1>6 DEF NoUses
<1> QED
  BY <1>7, <1>8, <1>9, OneSaidMore

\* OpenCode's marks: the last blocks of the last two messages.
LEMMA MarkedIs ==
    ASSUME NEW messages \in Seq(MessageSet), UsesSpoken(messages), Unmarkable(messages),
           NEW new, new = Marked(messages)
    PROVE  /\ new \in Seq(MessageSet) /\ UsesSpoken(new)
           /\ Cardinality(Marks(new)) <= 2
<1>1. PICK n \in Nat : n = Len(messages) /\ DOMAIN messages = 1 .. n
  BY SeqIs
<1> DEFINE content(i) == messages[i].content
           last(i) == Len(content(i))
           one(i) == IF i + 2 <= n THEN messages[i]
                     ELSE [messages[i] EXCEPT !.content[last(i)] = Cached(@)]
<1>2. new = [i \in 1 .. n |-> one(i)]
  BY <1>1 DEF Marked
<1>3. ASSUME NEW i \in 1 .. n
      PROVE  /\ one(i) \in MessageSet
             /\ last(i) \in Nat
             /\ DOMAIN one(i).content = DOMAIN content(i)
             /\ \A k \in DOMAIN content(i) :
                    /\ content(i)[k] \in Block /\ ~content(i)[k].cached
                    /\ \/ one(i).content[k] = content(i)[k]
                       \/ /\ k = last(i) /\ i \in {n - 1, n}
                          /\ one(i).content[k] = Cached(content(i)[k])
  <2>1. /\ messages[i] \in MessageSet /\ content(i) \in Seq(Block) /\ content(i) # <<>>
        /\ \A k \in DOMAIN content(i) : content(i)[k] \in Block /\ ~content(i)[k].cached
    BY <1>1, MessageParts DEF Unmarkable, Unmarked
  <2>2. PICK c \in Seq(Block) : c = content(i) /\ c # <<>>
    BY <2>1
  <2>3. PICK m \in MessageSet : m = messages[i] /\ m.content = c
    BY <2>1, <2>2
  <2>4. PICK l \in DOMAIN c : l = Len(c) /\ l \in Nat
    BY <2>2
  <2>5. PICK b \in Block : b = Cached(c[l])
    BY <2>2, <2>1, CachedTyped
  <2>6. PICK d : d = [c EXCEPT ![l] = b]
    OBVIOUS
  <2>7. /\ d \in Seq(Block) /\ DOMAIN d = DOMAIN c
        /\ \A k \in DOMAIN c : d[k] = c[k] \/ (k = l /\ d[k] = b)
    <3>1. DOMAIN d = DOMAIN c /\ \A k \in DOMAIN c : d[k] = IF k = l THEN b ELSE c[k]
      BY <2>6
    <3>2. d \in Seq(Block)
      BY <2>6
    <3> QED
      BY <3>1, <3>2
  <2>8. CASE i + 2 <= n
    BY <2>1, <2>2, <2>4, <2>8
  <2>9. CASE ~(i + 2 <= n)
    <3>1. one(i) = [m EXCEPT !.content[l] = Cached(@)]
      BY <2>2, <2>3, <2>4, <2>9
    <3>2. one(i) = [m EXCEPT !.content = d]
      BY <2>3, <2>5, <2>6, <3>1 DEF MessageSet
    <3>3. one(i) \in MessageSet /\ one(i).content = d
      BY <2>7, <3>2 DEF MessageSet
    <3>4. i \in {n - 1, n}
      BY <2>9
    <3> QED
      BY <2>1, <2>2, <2>4, <2>5, <2>7, <3>3, <3>4
  <2> QED
    BY <2>8, <2>9
<1> HIDE DEF one
<1>4. new \in Seq(MessageSet) /\ DOMAIN new = 1 .. n
  BY <1>2, <1>3
<1>5. \A i \in 1 .. n : new[i] = one(i)
  BY <1>2
<1>6. UsesSpoken(new)
  <2>1. ASSUME NEW b \in Blocks(new), b.kind = "tool_use"
        PROVE  \E u \in spoken : u.id = b.id /\ b.name = ToInternalToolName(u.name)
    <3>1. PICK i \in DOMAIN new : \E k \in DOMAIN new[i].content : b = new[i].content[k]
      BY <2>1, BlockIn, Zenon
    <3>2. i \in 1 .. n /\ new[i] = one(i)
      BY <1>4, <1>5
    <3>3. PICK k \in DOMAIN content(i) : b = one(i).content[k]
      BY <1>3, <3>1, <3>2
    <3>4. PICK c \in Block : c = content(i)[k] /\ (b = c \/ b = Cached(c))
      BY <1>3, <3>2, <3>3
    <3>5. c \in Blocks(messages)
      BY <1>1, <3>2, <3>4 DEF Blocks, ToSet
    <3>6. c.kind = b.kind /\ c.id = b.id /\ c.name = b.name
      BY <3>4, CachedTyped
    <3> QED
      BY <2>1, <3>5, <3>6 DEF UsesSpoken
  <2> QED
    BY <2>1, Zenon DEF UsesSpoken
<1>7. Marks(new) \subseteq {<<n - 1, last(n - 1)>>} \cup {<<n, last(n)>>}
  <2>1. ASSUME NEW p \in Marks(new) PROVE p = <<n - 1, last(n - 1)>> \/ p = <<n, last(n)>>
    <3>1. PICK i \in DOMAIN new : \E k \in CachedIn(new[i].content) : p = <<i, k>>
      BY DEF Marks
    <3>2. PICK k \in CachedIn(new[i].content) : p = <<i, k>>
      BY <3>1
    <3>3. i \in 1 .. n /\ new[i] = one(i)
      BY <1>4, <1>5
    <3>4. k \in DOMAIN content(i) /\ one(i).content[k].cached
      BY <1>3, <3>3 DEF CachedIn
    <3>5. k = last(i) /\ i \in {n - 1, n}
      BY <1>3, <3>3, <3>4
    <3> QED
      BY <3>2, <3>5
  <2> QED
    BY <2>1
<1>8. Cardinality(Marks(new)) <= 2
  <2>1. PICK p, q : Marks(new) \subseteq {p} \cup {q}
    BY <1>7, ZenonT(30)
  <2>2. /\ IsFiniteSet({p}) /\ Cardinality({p}) = 1 /\ IsFiniteSet({q}) /\ Cardinality({q}) = 1
    BY FS_Singleton
  <2>p. PICK all, both : all = {p} \cup {q} /\ both = {p} \cap {q}
    OBVIOUS
  <2>3. /\ IsFiniteSet(all) /\ IsFiniteSet(both)
        /\ Cardinality(all) = 1 + 1 - Cardinality(both)
    BY <2>2, <2>p, FS_Union, FS_Intersection
  <2>4. Cardinality(both) \in Nat /\ Cardinality(all) \in Nat
    BY <2>3, FS_CardinalityType
  <2>5. Cardinality(all) <= 2
    BY <2>3, <2>4
  <2>6. Cardinality(Marks(new)) <= Cardinality(all) /\ IsFiniteSet(Marks(new))
    BY <2>1, <2>3, <2>p, FS_Subset
  <2>7. Cardinality(Marks(new)) \in Nat
    BY <2>6, FS_CardinalityType
  <2>8. PICK a \in Nat, b \in Nat : a = Cardinality(Marks(new)) /\ b = Cardinality(all)
    BY <2>4, <2>7
  <2>9. a <= b /\ b <= 2
    BY <2>5, <2>6, <2>8
  <2>10. a <= 2
    BY <2>9
  <2> QED
    BY <2>8, <2>10
<1> QED
  BY <1>4, <1>6, <1>8

\* The body that OpenCode sends.
LEMMA OriginalIs ==
    ASSUME settings \in Settings, NEW messages \in Seq(MessageSet),
           UsesSpoken(messages), Unmarkable(messages), NEW body, body = Original(messages)
    PROVE  /\ body \in BodySet /\ body.model = settings.model /\ ~body.effort
           /\ Cardinality(Marks(body.messages)) <= 2 /\ UsesSpoken(body.messages)
<1>1. PICK marked : marked = Marked(messages)
  OBVIOUS
<1>2. marked \in Seq(MessageSet) /\ UsesSpoken(marked) /\ Cardinality(Marks(marked)) <= 2
  BY <1>1, MarkedIs
<1>3. /\ settings.model \in STRING /\ settings.thinking \in ThinkingTypes
      /\ settings.tools \in Seq(ToolNames) /\ settings.system \in Seq(Block)
  BY SettingsAre
<1>4. body = [model |-> settings.model, tools |-> settings.tools, system |-> settings.system,
              messages |-> marked, thinking |-> settings.thinking, effort |-> FALSE,
              temperature |-> TRUE, contextManagement |-> FALSE, schema |-> FALSE,
              deferred |-> FALSE, maxTokens |-> 0, stream |-> TRUE, account |-> NoAccount]
  BY <1>1 DEF Original
<1>5. body \in BodySet
  BY <1>2, <1>3, <1>4 DEF BodySet
<1>6. body.model = settings.model /\ ~body.effort /\ body.messages = marked
  BY <1>4
<1> QED
  BY <1>2, <1>5, <1>6

LEMMA AskIs ==
    ASSUME ExchangeInv, NEW ids \in SUBSET Uses, Ask(ids)
    PROVE  ExchangeInv'
<1>1. AnswerWritten /\ stream \in StreamSet /\ StreamOK(stream)
  BY AnswerIsWritten
<1>2. /\ ExchangeTypeOK /\ TurnsSpoken /\ OriginalOK /\ AttemptOK /\ WireOK /\ AnswerOK
      /\ UsesSpoken(chat.messages) /\ Unmarkable(chat.messages)
  BY Zenon DEF ExchangeInv, ChatOK
<1>3. /\ settings \in Settings /\ excluded \in Nat /\ faults \in Nat
      /\ chat.turn \in Nat /\ chat.messages \in Seq(MessageSet)
      /\ spoken \subseteq SpokenUses
  BY <1>2, TypesAre
<1>4. /\ call.step = "idle"
      /\ UNCHANGED <<settings, wire, excluded, spoken, faults, answer, stream>>
  BY DEF Ask, rest
<1>5. PICK text \in Texts : text = IF chat.turn = 0 THEN settings.opening ELSE "more"
  BY <1>3, SettingsAre, OwnTexts
<1>6. PICK old \in Seq(MessageSet) : old = chat.messages
  BY <1>3
<1>7. PICK said : said = Results(ids) \o <<TextBlock(text)>>
  OBVIOUS
<1>8. PICK messages : messages = Append(old, Message("user", said))
  OBVIOUS
<1>9. PICK t \in Nat : t = chat.turn + 1
  BY <1>3
<1>10. PICK body : body = Original(messages)
  OBVIOUS
<1>11. /\ chat' = [turn |-> t, messages |-> messages]
       /\ call' = [step |-> "new", attempt |-> 0, retries |-> 0, original |-> body]
  BY <1>5, <1>6, <1>7, <1>8, <1>9, <1>10, Zenon DEF Ask
<1>12. HeardOK(said) /\ said # <<>>
  <2>1. ids \in SUBSET UseIds /\ IsFiniteSet(ids)
    BY <1>3, UsesAre, FS_Subset
  <2> QED
    BY <1>5, <1>7, <2>1, SaidOK
<1>13. messages \in Seq(MessageSet) /\ UsesSpoken(messages) /\ Unmarkable(messages)
  BY <1>2, <1>6, <1>8, <1>12, MoreOK
<1>14. /\ body \in BodySet /\ body.model = settings.model /\ ~body.effort
       /\ Cardinality(Marks(body.messages)) <= 2 /\ UsesSpoken(body.messages)
  BY <1>3, <1>10, <1>13, OriginalIs
<1>15. /\ chat' \in [turn : Nat, messages : Seq(MessageSet)]
       /\ chat'.turn = t /\ chat'.messages = messages
  BY <1>9, <1>11, <1>13
<1>16. /\ call' \in Calls /\ call'.step = "new" /\ call'.attempt = 0 /\ call'.original = body
  BY <1>11, <1>14 DEF Calls, CallSteps
<1>17. ExchangeTypeOK'
  <2>1. /\ wire = [body |-> wire.body, token |-> wire.token, betas |-> wire.betas]
        /\ wire.body \in BodySet \cup {Rejected}
        /\ answer \in AnswerSet
    BY <1>2, TypesAre, Zenon
  <2> QED
    BY <1>1, <1>3, <1>4, <1>15, <1>16, <2>1, Zenon DEF ExchangeTypeOK, Calls
<1>18. ChatOK'
  BY <1>4, <1>13, <1>15 DEF ChatOK, UsesSpoken, Unmarkable
<1>19. TurnsSpoken'
  <2>1. \A u, v \in spoken : u.id = v.id => u = v
    BY <1>2, Zenon DEF TurnsSpoken
  <2>2. \A u \in spoken : u.id[1] \in Nat
    BY <1>3 DEF SpokenUses, UseIds
  <2>3. \A u \in spoken : u.id[1] <= chat.turn
    BY <1>2, Zenon DEF TurnsSpoken
  <2>4. \A u \in spoken : u.id[1] < t /\ u.id[1] <= t
    BY <1>3, <1>9, <2>2, <2>3
  <2> QED
    BY <1>4, <1>15, <2>1, <2>4, Zenon DEF TurnsSpoken
<1>20. OriginalOK'
  <2>1. UsesSpoken(call.original.messages)'
    BY <1>4, <1>14, <1>16 DEF UsesSpoken
  <2> QED
    BY <1>4, <1>14, <1>16, <2>1, Zenon DEF OriginalOK
<1>21. AttemptOK'
  BY <1>16 DEF AttemptOK
<1>22. WireOK'
  BY <1>2, <1>4, WireStill
<1>23. AnswerOK'
  <2>1. WellWritten(answer.text, answer.events)' /\ Over'
    BY <1>2, <1>4 DEF AnswerOK, Over
  <2> QED
    BY <1>16, <2>1 DEF AnswerOK
<1>24. StreamOK(stream)'
  BY <1>1, <1>4, StreamStill
<1> QED
  BY <1>17, <1>18, <1>19, <1>20, <1>21, <1>22, <1>23, <1>24, Zenon DEF ExchangeInv

\* Every step preserves the invariant.
LEMMA ExchangeNext == ExchangeInv /\ [Next]_vars => ExchangeInv'
<1> SUFFICES ASSUME ExchangeInv, [Next]_vars PROVE ExchangeInv'
  OBVIOUS
<1>1. ASSUME NEW ids \in SUBSET Uses, Ask(ids) PROVE ExchangeInv'
  BY <1>1, AskIs
<1>2. CASE Forget
  BY <1>2, ForgetIs
<1>3. CASE Listen
  BY <1>3, ListenIs
<1>4. CASE Begin
  BY <1>4, BeginIs
<1>5. ASSUME NEW account \in Account, Attempt(account) PROVE ExchangeInv'
  BY <1>5, AttemptIs
<1>6. CASE AttemptFails
  BY <1>6, AttemptFailsIs
<1>7. CASE ServiceError
  BY <1>7, ServiceErrorIs
<1>8. CASE LongContextError
  BY <1>8, LongContextErrorIs
<1>9. ASSUME call.step = "sent", NEW a \in ServerAnswers(wire.body), Answered(a) \/ Refused(a)
      PROVE  ExchangeInv'
  BY <1>9, AnsweredIs, RefusedIs
<1>10. CASE StreamStep
  BY <1>10, StreamStepIs
<1>11. CASE UserCancels
  BY <1>11, UserCancelsIs
<1>12. CASE UNCHANGED vars
  <2>1. UNCHANGED <<settings, chat, call, wire, excluded, spoken, faults, answer, stream>>
    BY <1>12 DEF vars
  <2>2. AnswerWritten /\ stream \in StreamSet /\ StreamOK(stream)
    BY AnswerIsWritten
  <2>3. /\ ExchangeTypeOK /\ ChatOK /\ TurnsSpoken /\ OriginalOK /\ AttemptOK /\ WireOK
        /\ AnswerOK
    BY Zenon DEF ExchangeInv
  <2>4. ExchangeTypeOK'
    BY <2>1, <2>2, <2>3, TypesAre, TypesStill, Zenon
  <2>5. ChatOK' /\ OriginalOK' /\ AttemptOK' /\ WireOK'
    BY <2>1, <2>3, ChatStill, OriginalStill, AttemptStill, WireStill, Zenon
  <2>6. TurnsSpoken'
    BY <2>1, <2>3, TurnsStill, Zenon
  <2>7. AnswerOK'
    <3>1. call'.step # "streaming" => Over'
      BY <2>1, <2>3 DEF AnswerOK, Over
    <3> QED
      BY <2>1, <2>3, <3>1, AnswerStill, Zenon
  <2>8. StreamOK(stream)'
    BY <2>1, <2>2, StreamStill
  <2> QED
    BY <2>4, <2>5, <2>6, <2>7, <2>8, Zenon DEF ExchangeInv
<1> QED
  BY <1>1, <1>2, <1>3, <1>4, <1>5, <1>6, <1>7, <1>8, <1>9, <1>10, <1>11, <1>12 DEF Next

------------------------------------------------------------------------------
(***************************************************************************)
(* The properties.                                                         *)
(***************************************************************************)

\* The inductive invariant: what OpenCode, the request, the parser and the
\* reader know of one another holds after every step.
THEOREM ExchangeInvariant == Spec => []ExchangeInv
BY ExchangeInit, ExchangeNext, PTL DEF Spec

\* A tool comes back by OpenCode's name: ToInternalToolName of what
\* ToWireToolName made of it, at the event that was its use.
THEOREM NamesComeBack == Spec => []CallsComeBackByName
<1>1. ExchangeInv => CallsComeBackByName
  <2> SUFFICES ASSUME ExchangeInv, NEW b \in Blocks(chat.messages), NEW u \in spoken,
                      NEW n \in ToSet(settings.tools),
                      b.kind = "tool_use", u.id = b.id, Plain(n), ToWireToolName(n) = u.name
               PROVE  b.name = n
    BY DEF CallsComeBackByName
  <2>1. PICK v \in spoken : v.id = b.id /\ b.name = ToInternalToolName(v.name)
    BY Zenon DEF ExchangeInv, ChatOK, UsesSpoken
  <2>2. u = v
    BY <2>1, Zenon DEF ExchangeInv, TurnsSpoken
  <2>3. n \in ToolNames
    <3>1. settings.tools \in Seq(ToolNames)
      BY TypesAre, SettingsAre DEF ExchangeInv
    <3> QED
      BY <3>1 DEF ToSet
  <2> QED
    BY <2>1, <2>2, <2>3, PlainComesBack
<1> QED
  BY <1>1, ExchangeInvariant, PTL

\* The history that a request carries names the uses as the API did, and has a
\* result for each: repairToolPairs and prefixToolUses, after what was
\* forgotten or cut off.
THEOREM HistoryIsAsSpoken == Spec => []HistoryAsSpoken
<1>1. ExchangeInv => HistoryAsSpoken
  <2> SUFFICES ASSUME ExchangeInv, wire.body # Rejected
               PROVE  /\ \A b \in {c \in Blocks(wire.body.messages) : c.kind = "tool_use"} :
                             \E u \in spoken :
                                 /\ u.id = b.id
                                 /\ \/ u.name = b.name
                                    \/ IsPreserved(b.name) /\ u.name.stem = b.name.stem
                      /\ IdsOf(wire.body.messages, "tool_use")
                             = IdsOf(wire.body.messages, "tool_result")
    BY DEF HistoryAsSpoken
  <2>1. /\ \A b \in Blocks(wire.body.messages) :
               b.kind = "tool_use" =>
                   \E u \in spoken :
                       u.id = b.id /\ b.name = ToWireToolName(ToInternalToolName(u.name))
        /\ IdsOf(wire.body.messages, "tool_use") = IdsOf(wire.body.messages, "tool_result")
    BY Zenon DEF ExchangeInv, WireOK
  <2>2. ASSUME NEW b \in Blocks(wire.body.messages), b.kind = "tool_use"
        PROVE  \E u \in spoken :
                   /\ u.id = b.id
                   /\ u.name = b.name \/ (IsPreserved(b.name) /\ u.name.stem = b.name.stem)
    <3>1. PICK u \in spoken :
              u.id = b.id /\ b.name = ToWireToolName(ToInternalToolName(u.name))
      BY <2>1, <2>2
    <3>2. u.name \in WireName
      BY <3>1, TypesAre DEF ExchangeInv, SpokenUses
    <3>3. b.name = u.name \/ (IsPreserved(b.name) /\ b.name.stem = u.name.stem)
      BY <3>1, <3>2, WireComesBack
    <3> QED
      BY <3>1, <3>3
  <2> QED
    BY <2>1, <2>2
<1> QED
  BY <1>1, ExchangeInvariant, PTL

\* Of the four marks the API allows no request uses more, whatever OpenCode has
\* marked: one in the system prompt, OpenCode's two and the instructions.
THEOREM BreakpointsBounded == Spec => []CacheBreakpointsBounded
<1>1. ExchangeInv => CacheBreakpointsBounded
  <2> SUFFICES ASSUME ExchangeInv, wire.body # Rejected PROVE CacheBreakpoints(wire.body) <= 4
    BY DEF CacheBreakpointsBounded
  <2>1. /\ wire.body \in BodySet /\ Cardinality(CachedIn(wire.body.system)) <= 1
        /\ Cardinality(Marks(wire.body.messages)) <= 3
    BY Zenon DEF ExchangeInv, WireOK
  <2>2. wire.body.system \in Seq(Block) /\ wire.body.messages \in Seq(MessageSet)
    BY <2>1 DEF BodySet
  <2>3. Cardinality(CachedIn(wire.body.system)) \in Nat
    BY <2>2, CachedInFinite, FS_CardinalityType
  <2>4. Cardinality(Marks(wire.body.messages)) \in Nat
    BY <2>2, MarksFinite
  <2>5. PICK m \in Nat, n \in Nat : /\ m = Cardinality(CachedIn(wire.body.system))
                                    /\ n = Cardinality(Marks(wire.body.messages))
    BY <2>3, <2>4
  <2>6. CacheBreakpoints(wire.body) = m + n
    BY <2>5, Zenon DEF CacheBreakpoints, Marks
  <2>7. m + n <= 4
    BY <2>1, <2>5
  <2> QED
    BY <2>6, <2>7
<1> QED
  BY <1>1, ExchangeInvariant, PTL

\* buildAnthropicBetaHeader asks for what transformRequestBody has used, for
\* any number of excluded betas.
THEOREM BetasCover == Spec => []BetasCoverBody
<1>1. ExchangeInv => BetasCoverBody
  <2> SUFFICES ASSUME ExchangeInv, wire.body # Rejected, settings.signature,
                      ~settings.env.noExperimental, settings.model # "claude3",
                      settings.overrides.remove = {}
               PROVE  /\ wire.body.contextManagement => "context-management" \in wire.betas
                      /\ wire.body.effort => "effort" \in wire.betas
    BY DEF BetasCoverBody
  <2>1. /\ wire.body \in BodySet
        /\ wire.body.model = settings.model
        /\ wire.body.effort => IsAdaptiveThinkingModel(settings.model)
        /\ \E n \in Nat : wire.betas = Header(wire.body, n)
    BY Zenon DEF ExchangeInv, WireOK
  <2>2. PICK n \in Nat : wire.betas = Header(wire.body, n)
    BY <2>1
  <2>3. PICK request : request = Request(wire.body)
    OBVIOUS
  <2>4. /\ request.model = settings.model
        /\ request.path = "messages"
    BY <2>1, <2>3 DEF Request
  <2> DEFINE emulated == EmulatedBetas(request.model, request.path, Profile, Candidates, settings,
                                       request.files, request.deferred)
             unsupported == IF settings.provider = "bedrock" THEN BEDROCK_UNSUPPORTED_BETAS ELSE {}
  <2>5. wire.betas = (emulated \cup settings.overrides.add)
                         \ (LongContextExclusions(n) \cup unsupported)
    BY <2>2, <2>3 DEF Header, BuildAnthropicBetaHeader
  <2>6. {"context-management", "effort"} \cap LongContextExclusions(n) = {}
    BY DEF LongContextExclusions
  <2>7. {"context-management", "effort"} \cap unsupported = {}
    BY DEF BEDROCK_UNSUPPORTED_BETAS
  <2>8. "context-management" \in emulated
    BY <2>4 DEF EmulatedBetas, ModelBetas
  <2>9. wire.body.effort => "effort" \in emulated
    BY <2>1, <2>4 DEF EmulatedBetas, IsAdaptiveThinkingModel
  <2> HIDE DEF emulated, unsupported
  <2> QED
    BY <2>5, <2>6, <2>7, <2>8, <2>9
<1> QED
  BY <1>1, ExchangeInvariant, PTL

\* transformResponse's pull: OpenCode is left waiting, with no pull to come,
\* only after two pulls that have read nothing but blocks without data.
THEOREM StarvedOnlyByBarrenPulls == Spec => []StarvedOnlyByEmptyBlocks
<1>1. ExchangeInv => StarvedOnlyByEmptyBlocks
  <2> SUFFICES ASSUME ExchangeInv, stream.phase = "open", stream.waiting, ~stream.pulling
               PROVE  stream.barren >= 2
    BY DEF StarvedOnlyByEmptyBlocks
  <2>1. PullOK(stream)
    BY Zenon DEF ExchangeInv, StreamOK
  <2> QED
    BY <2>1 DEF PullOK
<1> QED
  BY <1>1, ExchangeInvariant, PTL

\* An attempt after the first is the same request for another account:
\* buildAttemptBody starts from the original body every time.
THEOREM AttemptsDiffer == Spec => AttemptsDifferOnlyInAccount
<1> DEFINE Differs ==
        (call.attempt > 0 /\ wire' # wire) =>
            /\ wire'.body = [wire.body EXCEPT !.account = wire'.body.account]
            /\ settings.signature => wire'.body.account = wire'.token
<1>1. ExchangeInv /\ ExchangeInv' /\ [Next]_vars => [Differs]_vars
  <2> SUFFICES ASSUME ExchangeInv, ExchangeInv', Next, call.attempt > 0, wire' # wire
               PROVE  /\ wire'.body = [wire.body EXCEPT !.account = wire'.body.account]
                      /\ settings.signature => wire'.body.account = wire'.token
    BY SMTT(30)
  <2>1. LongContextError \/ \E account \in Account : Attempt(account)
    BY DEF Next, Ask, Forget, Listen, Begin, AttemptFails, ServiceError, Answered, Refused, Streams,
           StreamStep, UserCancels
  <2>2. PICK a \in Account :
            /\ wire.body = TransformRequestBody(call.original, settings, a)
            /\ wire.body # Rejected
    BY Zenon DEF ExchangeInv, AttemptOK
  <2>3. wire.body \in BodySet
    BY <2>2, Zenon DEF ExchangeInv, WireOK
  <2>4. wire'.body # Rejected => (settings'.signature => wire'.body.account = wire'.token)
    BY Zenon DEF ExchangeInv, WireOK
  <2>5. CASE LongContextError
    <3>1. wire' = [wire EXCEPT !.betas = Header(wire.body, excluded + 1)] /\ settings' = settings
      BY <2>5 DEF LongContextError
    <3>2. wire = [body |-> wire.body, token |-> wire.token, betas |-> wire.betas]
      BY TypesAre DEF ExchangeInv
    <3>3. wire'.body = wire.body
      BY <3>1, <3>2
    <3>4. wire.body = [wire.body EXCEPT !.account = wire.body.account]
      BY <2>3 DEF BodySet
    <3> QED
      BY <2>2, <2>4, <3>1, <3>3, <3>4
  <2>6. ASSUME NEW b \in Account, Attempt(b)
        PROVE  /\ wire'.body = [wire.body EXCEPT !.account = wire'.body.account]
               /\ settings.signature => wire'.body.account = wire'.token
    <3>1. PICK two : two = TransformRequestBody(call.original, settings, b)
      OBVIOUS
    <3>2. /\ two # Rejected /\ wire'.body = two /\ settings' = settings
          /\ call.step = "attempt"
      BY <2>6, <3>1 DEF Attempt, AttemptBody, rest
    <3>3. call.original \in BodySet /\ settings \in Settings
      BY <3>2, TypesAre, Zenon DEF ExchangeInv, OriginalOK
    <3>4. two = [wire.body EXCEPT !.account = two.account]
      BY <2>2, <3>1, <3>2, <3>3, TransformsDiffer
    <3> QED
      BY <2>4, <3>2, <3>4
  <2> QED
    BY <2>1, <2>5, <2>6
<1> QED
  BY <1>1, ExchangeInvariant, PTL DEF Spec, AttemptsDifferOnlyInAccount

------------------------------------------------------------------------------
(***************************************************************************)
(* The refinement: every step of the exchange is one of ResponseStream, or *)
(* does not touch what it speaks of.                                       *)
(***************************************************************************)
LEMMA ResponseInit == Init => Response!Init
<1> SUFFICES ASSUME Init PROVE Response!Init
  OBVIOUS
<1>1. Sent = <<>>
  <2>1. answer.text = <<>>
    BY DEF Init
  <2>2. Whole(answer.text) = {}
    BY <2>1 DEF Whole
  <2>3. Sent = [i \in {} |-> Renamed(answer.events[i])]
    BY <2>2 DEF Sent
  <2> QED
    BY <2>3
<1>2. stream.out = <<>> /\ StreamStatus = "closed" /\ stream.usage = 0
  BY DEF Init, NewStream, StreamStatus
<1> QED
  BY <1>1, <1>2 DEF Response!Init

\* What is sent is a matter of the answer.
LEMMA SentStill ==
    ASSUME answer' = answer
    PROVE  Sent' = Sent /\ Strict' = Strict
BY DEF Sent, Strict, Renamed

\* What is read next has been sent.
LEMMA AdvanceIs ==
    ASSUME AnswerWritten, stream \in StreamSet, answer' = answer,
           NEW t \in StreamSet, stream' = t, StreamOK(t), Grows(t, stream)
    PROVE  stream'.out = stream.out \/ Response!Advance
<1>1. CASE t.out = stream.out
  BY <1>1
<1>2. CASE /\ Len(stream.out) + 1 \in DOMAIN answer.events
           /\ t.out = Append(stream.out, Renamed(answer.events[Len(stream.out) + 1]))
  <2>1. PICK out \in Seq(Events) : out = stream.out
    BY StreamFields
  <2>2. PICK n \in Nat : n = Len(out)
    BY <2>1
  <2>3. PICK next \in Events : next = Renamed(answer.events[n + 1])
    BY <1>2, <2>1, <2>2, EventsAre
  <2>4. t.out = Append(out, next)
    BY <1>2, <2>1, <2>2, <2>3
  <2>5. Len(t.out) = n + 1 /\ Len(t.queue) \in Nat
    <3>1. Len(t.queue) \in Nat
      BY PassedTyped
    <3>2. Len(Append(out, next)) = n + 1
      BY <2>1, <2>2, <2>3
    <3> QED
      BY <2>4, <3>1, <3>2
  <2>6. PICK q \in Nat : q = Len(t.queue)
    BY <2>5
  <2>7. n + 1 \in 1 .. Passed(t)
    <3>1. Passed(t) = n + 1 + q
      BY <2>5, <2>6, Zenon DEF Passed
    <3>2. n + 1 \in 1 .. (n + 1 + q)
      OBVIOUS
    <3> QED
      BY <3>1, <3>2
  <2>8. n + 1 \in Whole(answer.text)
    BY <2>7 DEF StreamOK, AllSent
  <2>9. PICK m \in 0 .. Len(answer.events) : Whole(answer.text) = 1 .. m
    BY WholeIs
  <2>10. Len(Sent) = m /\ \A i \in 1 .. m : Sent[i] = Renamed(answer.events[i])
    BY <2>9, SentIs
  <2>11. n + 1 \in 1 .. m /\ m \in Nat
    BY <2>8, <2>9, EventsAre
  <2>12. Sent[n + 1] = next
    BY <2>3, <2>10, <2>11
  <2>13. n < m
    BY <2>2, <2>11
  <2>14. Len(stream.out) < Len(Sent)
    BY <2>1, <2>2, <2>10, <2>13
  <2>15. stream'.out = Append(stream.out, Sent[Len(stream.out) + 1])
    BY <2>1, <2>2, <2>4, <2>12
  <2> QED
    BY <2>14, <2>15 DEF Response!Advance
<1> QED
  BY <1>1, <1>2 DEF Grows

\* OpenCode reads, and the answer goes on.
LEMMA DeliverIs ==
    ASSUME answer' = answer, stream'.out = stream.out \/ Response!Advance,
           StreamStatus = "open", StreamStatus' = "open", stream'.usage = stream.usage
    PROVE  [Response!Next]_Response!vars
<1>1. Sent' = Sent /\ Strict' = Strict
  BY SentStill
<1>2. CASE stream'.out = stream.out
  BY <1>1, <1>2 DEF Response!vars
<1>3. CASE Response!Advance
  BY <1>1, <1>3 DEF Response!Deliver, Response!Next
<1> QED
  BY <1>2, <1>3

\* The stream closes, with its last event or after it.
LEMMA CloseIs ==
    ASSUME answer' = answer, stream'.out = stream.out \/ Response!Advance,
           StreamStatus = "open", StreamStatus' = "closed", stream'.usage = stream.usage,
           stream'.out = Sent, Strict => IsWhole(Sent)
    PROVE  Response!Next
<1>1. Sent' = Sent /\ Strict' = Strict
  BY SentStill
<1>2. Response!Close
  BY <1>1 DEF Response!Close
<1> QED
  BY <1>2 DEF Response!Next

\* The tokens are reported.
LEMMA ReportIs ==
    ASSUME answer' = answer, stream'.out = stream.out \/ Response!Advance,
           StreamStatus = "open", StreamStatus' \in {"open", "closed"},
           StreamStatus' = "closed" => stream'.out = Sent,
           stream.usage = 0, stream'.usage = UsageTold(Sent), ~Strict
    PROVE  Response!Next
<1>1. Sent' = Sent /\ Strict' = Strict
  BY SentStill
<1>2. Response!Report
  BY <1>1 DEF Response!Report
<1> QED
  BY <1>2 DEF Response!Next

\* A step of the stream or of its reader.
LEMMA StreamRefines ==
    ASSUME ExchangeInv, StreamStep
    PROVE  [Response!Next]_Response!vars
<1>1. AnswerWritten /\ stream \in StreamSet /\ StreamOK(stream)
  BY AnswerIsWritten
<1>2. \/ \E n \in 1 .. Coming : Arrive(n)
      \/ EndOfAnswer \/ Breaks \/ FailStream \/ Read
  BY DEF StreamStep
<1>3. ASSUME NEW n \in 1 .. Coming, Arrive(n) PROVE [Response!Next]_Response!vars
  <2>1. answer' = answer
    BY <1>1, <1>3, ArriveIs, Zenon
  <2>2. PICK t \in StreamSet :
            /\ stream' = t /\ StreamOK(t) /\ Grows(t, stream)
            /\ t.phase \in {"open", "failing"} /\ t.usage = stream.usage
            /\ stream.phase = "open"
    BY <1>1, <1>3, ArriveIs, Zenon
  <2>3. stream'.out = stream.out \/ Response!Advance
    BY <1>1, <2>1, <2>2, AdvanceIs
  <2>4. StreamStatus = "open" /\ StreamStatus' = "open" /\ stream'.usage = stream.usage
    BY <2>2 DEF StreamStatus
  <2> QED
    BY <2>1, <2>3, <2>4, DeliverIs
<1>4. CASE EndOfAnswer
  <2>1. answer' = answer /\ stream.phase = "open" /\ stream.usage = 0
    BY <1>1, <1>4, EndOfAnswerIs, Zenon
  <2>2. PICK t \in StreamSet :
            /\ stream' = t /\ StreamOK(t) /\ Grows(t, stream)
            /\ t.phase = "failing" \/ Closes(t)
    BY <1>1, <1>4, EndOfAnswerIs, Zenon
  <2>3. stream'.out = stream.out \/ Response!Advance
    BY <1>1, <2>1, <2>2, AdvanceIs
  <2>4. StreamStatus = "open"
    BY <2>1 DEF StreamStatus
  <2>5. CASE t.phase = "failing"
    <3>1. t.usage = 0
      BY <2>2, <2>5, Zenon DEF StreamOK
    <3>2. StreamStatus' = "open" /\ stream'.usage = stream.usage
      BY <2>1, <2>2, <2>5, <3>1 DEF StreamStatus
    <3> QED
      BY <2>1, <2>3, <2>4, <3>2, DeliverIs
  <2>6. CASE Closes(t)
    <3>1. /\ t.phase \in {"closing", "closed"} /\ AllTaken(t)
          /\ t.phase = "closed" => t.queue = <<>>
          /\ t.usage = IF Strict THEN 0 ELSE UsageTold(Sent)
      BY <2>6, Zenon DEF Closes
    <3>2. /\ t.phase = "closing" => StreamStatus' = "open"
          /\ t.phase = "closed" => StreamStatus' = "closed"
      BY <2>2 DEF StreamStatus
    <3>3. t.phase = "closed" => stream'.out = Sent
      <4>1. InOut(t)
        BY <2>2, Zenon DEF StreamOK
      <4> QED
        BY <1>1, <2>2, <3>1, <4>1, AllRead
    <3>4. Strict => IsWhole(Sent)
      BY <3>1, Zenon DEF AllTaken
    <3>5. CASE ~Strict
      <4>1. stream'.usage = UsageTold(Sent)
        BY <2>2, <3>1, <3>5
      <4> QED
        BY <2>1, <2>3, <2>4, <3>1, <3>2, <3>3, <3>5, <4>1, ReportIs
    <3>6. CASE Strict
      <4>1. stream'.usage = stream.usage
        BY <2>1, <2>2, <3>1, <3>6
      <4>2. CASE t.phase = "closing"
        BY <2>1, <2>3, <2>4, <3>2, <4>1, <4>2, DeliverIs
      <4>3. CASE t.phase = "closed"
        BY <2>1, <2>3, <2>4, <3>2, <3>3, <3>4, <4>1, <4>3, CloseIs
      <4> QED
        BY <3>1, <4>2, <4>3
    <3> QED
      BY <3>5, <3>6
  <2> QED
    BY <2>2, <2>5, <2>6
<1>5. CASE Breaks
  <2>1. answer' = answer
    BY <1>1, <1>5, BreaksIs, Zenon
  <2>2. PICK t \in StreamSet :
            /\ stream' = t /\ StreamOK(t) /\ Grows(t, stream) /\ t.usage = stream.usage
            /\ stream.phase = "open" /\ t.phase = "failing" /\ t.out = stream.out
    BY <1>1, <1>5, BreaksIs, Zenon
  <2>3. /\ StreamStatus = "open" /\ StreamStatus' = "open" /\ stream'.usage = stream.usage
        /\ stream'.out = stream.out
    BY <2>2 DEF StreamStatus
  <2> QED
    BY <2>1, <2>3, DeliverIs
<1>6. CASE FailStream
  <2>1. answer' = answer
    BY <1>1, <1>6, FailStreamIs, Zenon
  <2>2. PICK t \in StreamSet :
            /\ stream' = t /\ StreamOK(t) /\ t.out = stream.out /\ t.usage = stream.usage
            /\ stream.phase = "failing" /\ t.phase = "failed"
    BY <1>1, <1>6, FailStreamIs, Zenon
  <2>3. /\ StreamStatus = "open" /\ StreamStatus' = "failed" /\ stream'.usage = stream.usage
        /\ stream'.out = stream.out
    BY <2>2 DEF StreamStatus
  <2>4. Sent' = Sent /\ Strict' = Strict
    BY <2>1, SentStill
  <2>5. Response!Fail
    BY <2>3, <2>4 DEF Response!Fail
  <2> QED
    BY <2>5 DEF Response!Next
<1>7. CASE Read
  <2>1. answer' = answer /\ stream.phase \in {"open", "failing", "closing"}
    BY <1>1, <1>7, ReadIs, Zenon
  <2>2. PICK t \in StreamSet :
            /\ stream' = t /\ StreamOK(t) /\ Grows(t, stream) /\ t.usage = stream.usage
            /\ \/ t.phase = stream.phase
               \/ /\ stream.phase = "closing" /\ t.phase = "closed" /\ t.out = Sent
                  /\ Strict => IsWhole(Sent)
    BY <1>1, <1>7, ReadIs, Zenon
  <2>3. stream'.out = stream.out \/ Response!Advance
    BY <1>1, <2>1, <2>2, AdvanceIs
  <2>4. StreamStatus = "open" /\ stream'.usage = stream.usage
    BY <2>1, <2>2 DEF StreamStatus
  <2>5. CASE t.phase = stream.phase
    <3>1. StreamStatus' = "open"
      BY <2>1, <2>2, <2>5 DEF StreamStatus
    <3> QED
      BY <2>1, <2>3, <2>4, <3>1, DeliverIs
  <2>6. CASE /\ stream.phase = "closing" /\ t.phase = "closed" /\ t.out = Sent
             /\ Strict => IsWhole(Sent)
    <3>1. StreamStatus' = "closed" /\ stream'.out = Sent
      BY <2>2, <2>6 DEF StreamStatus
    <3> QED
      BY <2>1, <2>3, <2>4, <2>6, <3>1, CloseIs
  <2> QED
    BY <2>2, <2>5, <2>6
<1> QED
  BY <1>2, <1>3, <1>4, <1>5, <1>6, <1>7

LEMMA CancelRefines ==
    ASSUME ExchangeInv, UserCancels
    PROVE  [Response!Next]_Response!vars
<1>1. AnswerWritten /\ stream \in StreamSet /\ StreamOK(stream)
  BY AnswerIsWritten
<1>2. CancelStream
  BY DEF UserCancels
<1>3. answer' = answer /\ stream.phase \in {"open", "failing", "closing"}
  BY <1>1, <1>2, CancelIs, Zenon
<1>4. PICK t \in StreamSet :
          /\ stream' = t /\ StreamOK(t) /\ t.out = stream.out /\ t.phase = "cancelled"
          /\ \/ t.usage = stream.usage
             \/ stream.usage = 0 /\ t.usage = UsageTold(stream.out)
  BY <1>1, <1>2, CancelIs, Zenon
<1>5. StreamStatus = "open" /\ StreamStatus' = "cancelled" /\ stream'.out = stream.out
  BY <1>3, <1>4 DEF StreamStatus
<1>6. \/ stream'.usage = stream.usage
      \/ stream.usage = 0 /\ stream'.usage = UsageTold(stream.out)
  BY <1>4
<1>7. Sent' = Sent /\ Strict' = Strict
  BY <1>3, SentStill
<1>8. Response!Cancel
  BY <1>5, <1>6, <1>7 DEF Response!Cancel
<1> QED
  BY <1>8 DEF Response!Next

\* The next answer begins when the last one is over.
LEMMA BeginRefines ==
    ASSUME ExchangeInv, call.step = "sent", stream' = NewStream
    PROVE  Response!Next
<1>1. Over
  BY DEF ExchangeInv, AnswerOK
<1>2. StreamStatus # "open"
  BY <1>1 DEF Over, StreamStatus
<1>3. stream'.out = <<>> /\ StreamStatus' = "open" /\ stream'.usage = 0
  BY NewStreamIs DEF StreamStatus
<1>4. Response!Begin
  BY <1>2, <1>3 DEF Response!Begin, Response!Fresh
<1> QED
  BY <1>4 DEF Response!Next

LEMMA ResponseNext == ExchangeInv /\ [Next]_vars => [Response!Next]_Response!vars
<1> SUFFICES ASSUME ExchangeInv, [Next]_vars PROVE [Response!Next]_Response!vars
  OBVIOUS
<1>1. CASE UNCHANGED <<answer, stream>>
  <2>1. Sent' = Sent /\ Strict' = Strict
    BY <1>1, SentStill
  <2>2. stream'.out = stream.out /\ StreamStatus' = StreamStatus /\ stream'.usage = stream.usage
    BY <1>1 DEF StreamStatus
  <2> QED
    BY <2>1, <2>2 DEF Response!vars
<1>2. ASSUME call.step = "sent", NEW a \in ServerAnswers(wire.body), Answered(a) \/ Refused(a)
      PROVE  Response!Next
  <2>1. stream' = NewStream
    BY <1>2 DEF Answered, Refused, Streams
  <2> QED
    BY <1>2, <2>1, BeginRefines
<1>3. CASE StreamStep
  BY <1>3, StreamRefines
<1>4. CASE UserCancels
  BY <1>4, CancelRefines
<1>5. \/ UNCHANGED <<answer, stream>>
      \/ call.step = "sent" /\ \E a \in ServerAnswers(wire.body) : Answered(a) \/ Refused(a)
      \/ StreamStep \/ UserCancels
  BY DEF Next, vars, Ask, Forget, Listen, Begin, Attempt, AttemptFails, ServiceError,
         LongContextError
<1> QED
  BY <1>1, <1>2, <1>3, <1>4, <1>5

\* What OpenCode reads through transformResponse is what the server has sent,
\* however it was cut; a strict answer that ends is whole; the tokens are
\* reported at most once.
THEOREM StreamImplementsResponse == Spec => ImplementsResponseStream
<1>1. Spec => Response!Spec
  BY ResponseInit, ResponseNext, ExchangeInvariant, PTL DEF Spec, Response!Spec
<1> QED
  BY <1>1 DEF ImplementsResponseStream
------------------------------------------------------------------------------
(***************************************************************************)
(* Sums over the processes.                                                *)
(***************************************************************************)
Pairs(counts, procs) == UNION {{p} \X (1 .. counts[p]) : p \in procs}

LEMMA PairsFinite ==
    ASSUME NEW counts \in [Proc -> Nat], NEW procs \in SUBSET Proc
    PROVE  IsFiniteSet(Pairs(counts, procs))
<1> DEFINE Of(p) == {p} \X (1 .. counts[p])
           parts == {Of(p) : p \in procs}
           f == [p \in procs |-> Of(p)]
<1>1. IsFiniteSet(procs)
  BY ProcFinite, FS_Subset
<1>2. f \in Surjection(procs, parts)
  BY DEF Surjection
<1>3. IsFiniteSet(parts)
  <2> HIDE DEF f, parts
  <2> QED
    BY <1>1, <1>2, FS_Surjection
<1>4. ASSUME NEW p \in procs PROVE IsFiniteSet(Of(p))
  <2>1. IsFiniteSet(1 .. counts[p])
    BY FS_Interval
  <2>2. IsFiniteSet({p})
    BY FS_Singleton
  <2> QED
    BY <2>1, <2>2, FS_Product
<1>5. \A part \in parts : IsFiniteSet(part)
  BY <1>4
<1> HIDE DEF parts
<1>6. IsFiniteSet(UNION parts)
  BY <1>3, <1>5, FS_UNION
<1> QED
  BY <1>6 DEF parts, Pairs

\* The sum over all processes is that over the others and the count of p.
LEMMA SumSplits ==
    ASSUME NEW counts \in [Proc -> Nat], NEW p \in Proc
    PROVE  /\ SumOf(counts) = Cardinality(Pairs(counts, Proc \ {p})) + counts[p]
           /\ Cardinality(Pairs(counts, Proc \ {p})) \in Nat
<1> DEFINE own == {p} \X (1 .. counts[p])
           remaining == Pairs(counts, Proc \ {p})
<1>1. IsFiniteSet(own) /\ Cardinality(own) = counts[p]
  <2>1. IsFiniteSet(1 .. counts[p]) /\ Cardinality(1 .. counts[p]) = counts[p]
    BY FS_Interval
  <2>2. IsFiniteSet({p}) /\ Cardinality({p}) = 1
    BY FS_Singleton
  <2>3. /\ IsFiniteSet(own)
        /\ Cardinality(own) = 1 * Cardinality(1 .. counts[p])
    BY <2>1, <2>2, FS_Product
  <2> QED
    BY <2>1, <2>3
<1>2. IsFiniteSet(remaining) /\ Cardinality(remaining) \in Nat
  BY PairsFinite, FS_CardinalityType
<1>3. own \cap remaining = {}
  BY DEF Pairs
<1>4. UNION {{q} \X (1 .. counts[q]) : q \in Proc} = remaining \cup own
  BY DEF Pairs
<1>5. SumOf(counts) = Cardinality(remaining \cup own)
  BY <1>4, Zenon DEF SumOf
<1> HIDE DEF own, remaining
<1>6. Cardinality(remaining \cap own) = 0
  BY <1>3, FS_EmptySet
<1>7. Cardinality(remaining \cup own)
        = Cardinality(remaining) + Cardinality(own) - Cardinality(remaining \cap own)
  BY <1>1, <1>2, FS_Union
<1>8. SumOf(counts) = Cardinality(remaining) + counts[p]
  BY <1>1, <1>2, <1>5, <1>6, <1>7
<1> QED
  BY <1>2, <1>8 DEF remaining

\* When one count changes, the sum changes by as much.
LEMMA SumMoves ==
    ASSUME NEW counts \in [Proc -> Nat], NEW p \in Proc, NEW n \in Nat
    PROVE  /\ SumOf(counts) \in Nat /\ counts[p] <= SumOf(counts)
           /\ SumOf([counts EXCEPT ![p] = n]) = SumOf(counts) - counts[p] + n
<1> DEFINE moved == [counts EXCEPT ![p] = n]
<1>1. moved \in [Proc -> Nat] /\ moved[p] = n
  OBVIOUS
<1>2. \A q \in Proc \ {p} : {q} \X (1 .. moved[q]) = {q} \X (1 .. counts[q])
  OBVIOUS
<1>3. Pairs(moved, Proc \ {p}) = Pairs(counts, Proc \ {p})
  BY <1>2 DEF Pairs
<1> HIDE DEF moved
<1>4. SumOf(moved) = Cardinality(Pairs(moved, Proc \ {p})) + n
  BY <1>1, SumSplits
<1> QED
  BY <1>3, <1>4, SumSplits DEF moved

LEMMA SumType ==
    ASSUME NEW counts \in [Proc -> Nat]
    PROVE  SumOf(counts) \in Nat
BY PairsFinite, FS_CardinalityType DEF SumOf, Pairs

LEMMA SumOfZeros ==
    ASSUME NEW counts, \A p \in Proc : counts[p] = 0
    PROVE  SumOf(counts) = 0
<1>1. \A p \in Proc : {p} \X (1 .. counts[p]) = {}
  OBVIOUS
<1>2. UNION {{p} \X (1 .. counts[p]) : p \in Proc} = {}
  BY <1>1
<1> QED
  BY <1>2, FS_EmptySet DEF SumOf

------------------------------------------------------------------------------
(***************************************************************************)
(* Types.                                                                  *)
(***************************************************************************)
Call == [stage: {"none", "object", "text"}, object: Nat, shared: BOOLEAN,
         text: Nat, overtaken: BOOLEAN]

StatsTypeOK ==
    /\ disk \in Nat /\ total \in Nat /\ due \in Nat
    /\ mem \in [Proc -> Nat]
    /\ delta \in [Proc -> Nat]
    /\ save \in [Proc -> [Slot -> Call]]
    /\ command \in [open: BOOLEAN, loaded: Nat, overtaken: BOOLEAN]

LEMMA SaveMoves ==
    ASSUME NEW c \in Call, NEW n \in Nat
    PROVE  /\ [c EXCEPT !.overtaken = TRUE] \in Call
           /\ [c EXCEPT !.stage = "text", !.text = n] \in Call
BY DEF Call

LEMMA UnshareTypes ==
    ASSUME NEW calls \in [Slot -> Call], NEW count \in Nat
    PROVE  Unshare(calls, count) \in [Slot -> Call]
BY DEF Unshare, Call

LEMMA OvertakeTypes ==
    ASSUME NEW calls \in [Proc -> [Slot -> Call]]
    PROVE  Overtake(calls) \in [Proc -> [Slot -> Call]]
<1>1. \A p \in Proc, s \in Slot : calls[p][s] \in Call
  OBVIOUS
<1> QED
  BY <1>1, SaveMoves DEF Overtake

LEMMA NoSaveTyped == NoSave \in Call
BY DEF NoSave, Call

\* What a save begins with.
Begun == [NoSave EXCEPT !.stage = "object", !.shared = TRUE]

LEMMA BegunTyped == Begun \in Call
BY DEF Begun, NoSave, Call

LEMMA PrepareTypes ==
    ASSUME StatsTypeOK, NEW p \in Proc, NEW s \in Slot, PrepareSave(p, s)
    PROVE  /\ mem' \in [Proc -> Nat]
           /\ save' \in [Proc -> [Slot -> Call]]
           /\ delta' = delta
<1> DEFINE merged == IF delta[p] = 0 THEN mem[p] ELSE disk + delta[p]
           others == IF delta[p] = 0 THEN save[p] ELSE Unshare(save[p], mem[p])
<1>1. merged \in Nat
  BY DEF StatsTypeOK
<1>2. others \in [Slot -> Call]
  BY UnshareTypes DEF StatsTypeOK
<1>3. /\ mem' = [mem EXCEPT ![p] = merged]
      /\ save' = [save EXCEPT ![p] = [others EXCEPT ![s] = Begun]]
      /\ delta' = delta
  BY DEF PrepareSave, Begun
<1> HIDE DEF merged, others
<1> QED
  BY <1>1, <1>2, <1>3, BegunTyped DEF StatsTypeOK

\* The calls of p when its call s has written.
After(p, s) == [(IF save[p][s].shared THEN save[p] ELSE Unshare(save[p], mem[p]))
                   EXCEPT ![s] = NoSave]

LEMMA WrittenMoves ==
    ASSUME StatsTypeOK, NEW p \in Proc, NEW s \in Slot, Written(p, s)
    PROVE  /\ After(p, s) \in [Slot -> Call]
           /\ save' = Overtake([save EXCEPT ![p] = After(p, s)])
<1>1. (IF save[p][s].shared THEN save[p] ELSE Unshare(save[p], mem[p]))
         \in [Slot -> Call]
  BY UnshareTypes DEF StatsTypeOK
<1>2. After(p, s) \in [Slot -> Call]
  BY <1>1, NoSaveTyped DEF After
<1> QED
  BY <1>2 DEF Written, After, StatsTypeOK

LEMMA StatsInitTypes == StatsInit => StatsTypeOK
BY NoSaveTyped DEF StatsInit, StatsTypeOK, NoCommand

LEMMA StatsStepTypes == StatsTypeOK /\ [StatsNext]_statsVars => StatsTypeOK'
<1> SUFFICES ASSUME StatsTypeOK, [StatsNext]_statsVars PROVE StatsTypeOK'
  OBVIOUS
<1>1. ASSUME NEW p \in Proc, Record(p) PROVE StatsTypeOK'
  BY <1>1 DEF Record, StatsTypeOK
<1>2. ASSUME NEW p \in Proc, Sync(p) PROVE StatsTypeOK'
  <2>1. Unshare(save[p], mem[p]) \in [Slot -> Call]
    BY UnshareTypes DEF StatsTypeOK
  <2> QED
    BY <1>2, <2>1 DEF Sync, StatsTypeOK
<1>3. ASSUME NEW p \in Proc, NEW s \in Slot, TimerFires(p, s) \/ SaveNow(p, s)
      PROVE  StatsTypeOK'
  <2>1. PrepareSave(p, s) /\ UNCHANGED <<disk, command, total, due>>
    BY <1>3 DEF TimerFires, SaveNow
  <2> QED
    BY <2>1, PrepareTypes DEF StatsTypeOK
<1>4. ASSUME NEW p \in Proc, NEW s \in Slot, Stringify(p, s) PROVE StatsTypeOK'
  <2> DEFINE text == IF save[p][s].shared THEN mem[p] ELSE save[p][s].object
             now == [save[p][s] EXCEPT !.stage = "text", !.text = text]
  <2>1. text \in Nat
    BY DEF StatsTypeOK, Call
  <2>2. save' = [save EXCEPT ![p] = [save[p] EXCEPT ![s] = now]]
    BY <1>4 DEF Stringify, StatsTypeOK, Call
  <2>3. save[p] \in [Slot -> Call] /\ save[p][s] \in Call
    BY DEF StatsTypeOK
  <2>4. now \in Call
    <3> HIDE DEF text
    <3> QED
      BY <2>1, <2>3, SaveMoves
  <2> HIDE DEF now
  <2>5. save' \in [Proc -> [Slot -> Call]]
    BY <2>2, <2>3, <2>4 DEF StatsTypeOK
  <2> QED
    BY <1>4, <2>5 DEF Stringify, StatsTypeOK
<1>5. ASSUME NEW p \in Proc, NEW s \in Slot, Written(p, s) PROVE StatsTypeOK'
  <2>1. save' \in [Proc -> [Slot -> Call]]
    <3>1. /\ [save EXCEPT ![p] = After(p, s)] \in [Proc -> [Slot -> Call]]
          /\ save' = Overtake([save EXCEPT ![p] = After(p, s)])
      BY <1>5, WrittenMoves DEF StatsTypeOK
    <3> QED
      BY <3>1, OvertakeTypes
  <2>2. save[p][s].text \in Nat /\ save[p][s].object \in Nat
    BY DEF StatsTypeOK, Call
  <2>3. mem' \in [Proc -> Nat]
    BY <1>5, <2>2 DEF Written, StatsTypeOK
  <2> QED
    BY <1>5, <2>1, <2>2, <2>3 DEF Written, StatsTypeOK
<1>6. ASSUME NEW p \in Proc, NEW s \in Slot, SaveFails(p, s) PROVE StatsTypeOK'
  BY <1>6, NoSaveTyped DEF SaveFails, StatsTypeOK
<1>7. CASE CommandLoads
  BY <1>7 DEF CommandLoads, StatsTypeOK
<1>8. CASE CommandSaves
  BY <1>8, OvertakeTypes DEF CommandSaves, StatsTypeOK, NoCommand
<1>9. CASE CommandResets
  BY <1>9, OvertakeTypes, SumType DEF CommandResets, StatsTypeOK, NoCommand, AllDeltas
<1>10. CASE UNCHANGED statsVars
  BY <1>10 DEF statsVars, StatsTypeOK
<1> QED
  BY <1>1, <1>2, <1>3, <1>4, <1>5, <1>6, <1>7, <1>8, <1>9, <1>10 DEF StatsNext

\* Type correctness, for any number of processes, saves and requests.
THEOREM StatsTypeCorrect == StatsSpec => []StatsTypeOK
BY StatsInitTypes, StatsStepTypes, PTL DEF StatsSpec

------------------------------------------------------------------------------
(***************************************************************************)
(* What memory, the payloads, the loaded file and the file say.  Memory    *)
(* and payloads of p contain the delta of p; with the deltas of the others *)
(* none of them is more than what was counted.                             *)
(***************************************************************************)
Covered(n, p) == n + AllDeltas <= total + delta[p]

Counted ==
    /\ disk + AllDeltas <= total
    /\ command.loaded + AllDeltas <= total
    /\ \A p \in Proc : Covered(mem[p], p)
    /\ \A p \in Proc, s \in Slot :
           Covered(save[p][s].object, p) /\ Covered(save[p][s].text, p)

\* A step that leaves p less to cover keeps what was covered.
Eases(p) == total - AllDeltas + delta[p] <= total' - AllDeltas' + delta'[p]

LEMMA Sums ==
    ASSUME StatsTypeOK
    PROVE  /\ AllDeltas \in Nat
           /\ \A p \in Proc : delta[p] \in Nat /\ delta[p] <= AllDeltas
           /\ \A p \in Proc : Covered(0, p) <=> AllDeltas <= total + delta[p]
BY SumMoves, SumType DEF StatsTypeOK, AllDeltas, Covered

\* When the delta of one process changes, the sum changes by as much.
LEMMA DeltaMoves ==
    ASSUME StatsTypeOK, NEW p \in Proc, NEW n \in Nat,
           delta' = [delta EXCEPT ![p] = n]
    PROVE  AllDeltas' = AllDeltas - delta[p] + n
<1>1. delta \in [Proc -> Nat]
  BY DEF StatsTypeOK
<1>2. SumOf([delta EXCEPT ![p] = n]) = SumOf(delta) - delta[p] + n
  BY <1>1, SumMoves
<1> QED
  BY <1>2 DEF AllDeltas

LEMMA CoveredMoves ==
    ASSUME StatsTypeOK, StatsTypeOK', NEW p \in Proc, NEW n \in Nat,
           Eases(p), Covered(n, p)
    PROVE  (n + AllDeltas <= total + delta[p])'
<1>1. /\ AllDeltas \in Nat /\ AllDeltas' \in Nat
      /\ delta[p] \in Nat /\ delta'[p] \in Nat /\ total \in Nat /\ total' \in Nat
  BY SumType DEF StatsTypeOK, AllDeltas
<1> QED
  BY <1>1 DEF Covered, Eases

LEMMA SumsStay ==
    ASSUME StatsTypeOK, UNCHANGED <<delta, total>>
    PROVE  /\ AllDeltas' = AllDeltas
           /\ \A p \in Proc : Eases(p)
<1>1. AllDeltas' = AllDeltas
  BY DEF AllDeltas
<1> QED
  BY <1>1, Sums DEF Eases, StatsTypeOK

\* Where the numbers of a call come from.
LEMMA CallsFrom ==
    ASSUME StatsTypeOK, StatsTypeOK', Counted,
           \A p \in Proc : Eases(p) /\ Covered(mem[p], p)',
           \A p \in Proc, s \in Slot :
               /\ save'[p][s].object \in {0, mem[p], save[p][s].object}
               /\ save'[p][s].text \in
                      {0, mem[p], save[p][s].text, save[p][s].object},
           (disk + AllDeltas <= total)',
           (command.loaded + AllDeltas <= total)'
    PROVE  Counted'
<1>1. \A p \in Proc : Covered(0, p) /\ Covered(mem[p], p)
  BY Sums DEF Counted, StatsTypeOK
<1>2. ASSUME NEW p \in Proc, NEW s \in Slot
      PROVE  Covered(save[p][s].object, p)' /\ Covered(save[p][s].text, p)'
  <2>1. /\ save'[p][s].object \in Nat /\ save'[p][s].text \in Nat
        /\ mem[p] \in Nat
    BY DEF StatsTypeOK, Call
  <2>2. /\ Covered(save'[p][s].object, p)
        /\ Covered(save'[p][s].text, p)
    BY <1>1 DEF Counted
  <2> QED
    BY <2>1, <2>2, CoveredMoves DEF Covered
<1> QED
  BY <1>2 DEF Counted

LEMMA UnshareFrom ==
    ASSUME NEW calls \in [Slot -> Call], NEW count \in Nat
    PROVE  \A s \in Slot :
               /\ Unshare(calls, count)[s].object \in {count, calls[s].object}
               /\ Unshare(calls, count)[s].text = calls[s].text
<1>1. ASSUME NEW c \in Call
      PROVE  /\ [c EXCEPT !.shared = FALSE, !.object = count].object = count
             /\ [c EXCEPT !.shared = FALSE, !.object = count].text = c.text
  BY DEF Call
<1>2. \A s \in Slot : calls[s] \in Call
  OBVIOUS
<1> QED
  BY <1>1, <1>2 DEF Unshare

LEMMA OvertakeFrom ==
    ASSUME NEW calls \in [Proc -> [Slot -> Call]]
    PROVE  \A p \in Proc, s \in Slot :
               /\ Overtake(calls)[p][s].object = calls[p][s].object
               /\ Overtake(calls)[p][s].text = calls[p][s].text
<1>1. ASSUME NEW c \in Call
      PROVE  /\ [c EXCEPT !.overtaken = TRUE].object = c.object
             /\ [c EXCEPT !.overtaken = TRUE].text = c.text
  BY DEF Call
<1>2. \A p \in Proc, s \in Slot : calls[p][s] \in Call
  OBVIOUS
<1> QED
  BY <1>1, <1>2 DEF Overtake

LEMMA PrepareCounts ==
    ASSUME StatsTypeOK, StatsTypeOK', Counted, NEW p \in Proc, NEW s \in Slot,
           PrepareSave(p, s), UNCHANGED <<disk, command, total>>
    PROVE  Counted'
<1> DEFINE others == IF delta[p] = 0 THEN save[p] ELSE Unshare(save[p], mem[p])
<1>1. UNCHANGED <<delta, total>>
  BY DEF PrepareSave
<1>2. AllDeltas' = AllDeltas /\ \A q \in Proc : Eases(q)
  BY <1>1, SumsStay
<1>3. ASSUME NEW q \in Proc PROVE Covered(mem[q], q)'
  <2>1. CASE q # p
    BY <1>1, <1>2, <2>1 DEF PrepareSave, StatsTypeOK, Counted, Covered
  <2>2. CASE q = p
    <3>1. mem'[p] = IF delta[p] = 0 THEN mem[p] ELSE disk + delta[p]
      BY DEF PrepareSave, StatsTypeOK
    <3>2. mem'[p] \in {mem[p], disk + delta[p]}
      BY <3>1
    <3> QED
      BY <1>1, <1>2, <2>2, <3>2, Sums DEF StatsTypeOK, Counted, Covered
  <2> QED
    BY <2>1, <2>2
<1>4. \A t \in Slot : /\ others[t].object \in {mem[p], save[p][t].object}
                      /\ others[t].text = save[p][t].text
  <2>1. save[p] \in [Slot -> Call] /\ mem[p] \in Nat
    BY DEF StatsTypeOK
  <2>2. CASE delta[p] = 0
    BY <2>2
  <2>3. CASE delta[p] # 0
    BY <2>1, <2>3, UnshareFrom
  <2> QED
    BY <2>2, <2>3
<1>5. Begun.object = 0 /\ Begun.text = 0
  BY DEF Begun, NoSave
<1>6. save' = [save EXCEPT ![p] = [others EXCEPT ![s] = Begun]]
  BY DEF PrepareSave, Begun
<1>7. others \in [Slot -> Call]
  BY UnshareTypes DEF StatsTypeOK
<1> HIDE DEF others
<1>8. ASSUME NEW q \in Proc, NEW t \in Slot
      PROVE  /\ save'[q][t].object \in {0, mem[q], save[q][t].object}
             /\ save'[q][t].text \in
                    {0, mem[q], save[q][t].text, save[q][t].object}
  <2>1. \/ q # p /\ save'[q][t] = save[q][t]
        \/ q = p /\ t = s /\ save'[q][t] = Begun
        \/ q = p /\ t # s /\ save'[q][t] = others[t]
    BY <1>6, <1>7 DEF StatsTypeOK
  <2> QED
    BY <1>4, <1>5, <2>1
<1>9. (disk + AllDeltas <= total)' /\ (command.loaded + AllDeltas <= total)'
  BY <1>1, <1>2 DEF Counted
<1> QED
  BY <1>2, <1>3, <1>8, <1>9, CallsFrom

LEMMA InitCounts == StatsInit => Counted
<1> SUFFICES ASSUME StatsInit PROVE Counted
  OBVIOUS
<1>1. AllDeltas = 0
  BY SumOfZeros DEF StatsInit, AllDeltas
<1>2. \A p \in Proc, s \in Slot : save[p][s].object = 0 /\ save[p][s].text = 0
  BY DEF StatsInit, NoSave
<1> QED
  BY <1>1, <1>2 DEF StatsInit, Counted, Covered, NoCommand

\* A call that ends, by a write or by a failure.
LEMMA WrittenCounts ==
    ASSUME StatsTypeOK, StatsTypeOK', Counted, NEW p \in Proc, NEW s \in Slot,
           Written(p, s)
    PROVE  Counted'
<1>1. /\ disk' = save[p][s].text /\ delta' = [delta EXCEPT ![p] = 0]
      /\ total' = total /\ command'.loaded = command.loaded
  BY DEF Written, StatsTypeOK
<1>2. AllDeltas' = AllDeltas - delta[p]
  <2>1. AllDeltas' = AllDeltas - delta[p] + 0
    BY <1>1, DeltaMoves
  <2> QED
    BY <2>1, Sums
<1>3. \A q \in Proc : Eases(q)
  BY <1>1, <1>2, Sums DEF Eases, StatsTypeOK
<1>4. mem[p] \in Nat /\ save[p][s].object \in Nat /\ save[p][s].text \in Nat
  BY DEF StatsTypeOK, Call
<1>5. ASSUME NEW q \in Proc PROVE Covered(mem[q], q)'
  <2>1. mem'[q] \in Nat /\ Covered(mem'[q], q)
    BY <1>4 DEF Written, StatsTypeOK, Counted
  <2> QED
    BY <1>3, <2>1, CoveredMoves DEF Covered
<1> DEFINE before == [save EXCEPT ![p] = After(p, s)]
<1>6. before \in [Proc -> [Slot -> Call]] /\ save' = Overtake(before)
  BY WrittenMoves DEF StatsTypeOK
<1>7. \A t \in Slot :
          /\ After(p, s)[t].object \in {0, mem[p], save[p][t].object}
          /\ After(p, s)[t].text \in {0, save[p][t].text}
  <2> DEFINE kept == IF save[p][s].shared THEN save[p]
                     ELSE Unshare(save[p], mem[p])
  <2>1. save[p] \in [Slot -> Call]
    BY DEF StatsTypeOK
  <2>2. /\ kept \in [Slot -> Call]
        /\ \A t \in Slot : /\ kept[t].object \in {mem[p], save[p][t].object}
                           /\ kept[t].text = save[p][t].text
    <3>1. CASE save[p][s].shared
      BY <2>1, <3>1
    <3>2. CASE ~save[p][s].shared
      BY <1>4, <2>1, <3>2, UnshareFrom, UnshareTypes
    <3> QED
      BY <3>1, <3>2
  <2>3. After(p, s) = [kept EXCEPT ![s] = NoSave]
    BY DEF After
  <2>4. NoSave.object = 0 /\ NoSave.text = 0
    BY DEF NoSave
  <2> HIDE DEF kept
  <2> QED
    BY <2>2, <2>3, <2>4
<1>8. \A q \in Proc, t \in Slot :
          before[q][t] = IF q = p THEN After(p, s)[t] ELSE save[q][t]
  BY DEF StatsTypeOK
<1> HIDE DEF before
<1>9. ASSUME NEW q \in Proc, NEW t \in Slot
      PROVE  /\ save'[q][t].object \in {0, mem[q], save[q][t].object}
             /\ save'[q][t].text \in
                    {0, mem[q], save[q][t].text, save[q][t].object}
  <2>1. /\ save'[q][t].object = before[q][t].object
        /\ save'[q][t].text = before[q][t].text
    BY <1>6, OvertakeFrom
  <2> QED
    BY <1>7, <1>8, <2>1
<1>10. (disk + AllDeltas <= total)' /\ (command.loaded + AllDeltas <= total)'
  BY <1>1, <1>2, <1>4, Sums DEF Counted, Covered, StatsTypeOK
<1> QED
  BY <1>3, <1>5, <1>9, <1>10, CallsFrom

LEMMA StepCounts == StatsTypeOK /\ StatsTypeOK' /\ Counted /\ [StatsNext]_statsVars => Counted'
<1> SUFFICES ASSUME StatsTypeOK, StatsTypeOK', Counted, [StatsNext]_statsVars PROVE Counted'
  OBVIOUS
<1>1. ASSUME NEW p \in Proc, Record(p) PROVE Counted'
  <2>1. /\ mem' = [mem EXCEPT ![p] = @ + 1]
        /\ delta' = [delta EXCEPT ![p] = delta[p] + 1] /\ total' = total + 1
        /\ UNCHANGED <<disk, save, command>>
    BY <1>1 DEF Record, StatsTypeOK
  <2>2. AllDeltas' = AllDeltas + 1
    <3>1. delta[p] + 1 \in Nat /\ delta[p] \in Nat
      BY DEF StatsTypeOK
    <3>2. AllDeltas' = AllDeltas - delta[p] + (delta[p] + 1)
      BY <2>1, <3>1, DeltaMoves
    <3> QED
      BY <3>1, <3>2, Sums
  <2>3. \A q \in Proc : Eases(q)
    BY <2>1, <2>2, Sums DEF Eases, StatsTypeOK
  <2>4. ASSUME NEW q \in Proc PROVE Covered(mem[q], q)'
    BY <2>1, <2>2, Sums DEF Covered, Counted, StatsTypeOK
  <2>5. (disk + AllDeltas <= total)' /\ (command.loaded + AllDeltas <= total)'
    BY <2>1, <2>2, Sums DEF Counted, StatsTypeOK
  <2> QED
    BY <2>1, <2>3, <2>4, <2>5, CallsFrom
<1>2. ASSUME UNCHANGED <<delta, total, mem>>,
             \A p \in Proc, s \in Slot :
                 /\ save'[p][s].object \in {0, save[p][s].object}
                 /\ save'[p][s].text \in
                        {0, mem[p], save[p][s].text, save[p][s].object},
             disk' \in {0, disk, command.loaded},
             command'.loaded \in {0, disk, command.loaded}
      PROVE  Counted'
  <2>1. AllDeltas' = AllDeltas /\ \A p \in Proc : Eases(p)
    BY <1>2, SumsStay
  <2>2. (disk + AllDeltas <= total)' /\ (command.loaded + AllDeltas <= total)'
    BY <1>2, <2>1, Sums DEF Counted, StatsTypeOK
  <2>3. \A p \in Proc : Covered(mem[p], p)'
    BY <1>2, <2>1 DEF Counted, Covered
  <2> QED
    BY <1>2, <2>1, <2>2, <2>3, CallsFrom
<1>3. ASSUME NEW p \in Proc, Sync(p) PROVE Counted'
  <2>1. UNCHANGED <<delta, total, disk, command>>
    BY <1>3 DEF Sync
  <2>2. AllDeltas' = AllDeltas /\ \A q \in Proc : Eases(q)
    BY <2>1, SumsStay
  <2>3. ASSUME NEW q \in Proc PROVE Covered(mem[q], q)'
    BY <1>3, <2>1, <2>2, Sums DEF Sync, Counted, Covered, StatsTypeOK
  <2>4. ASSUME NEW q \in Proc, NEW t \in Slot
        PROVE  /\ save'[q][t].object \in {0, mem[q], save[q][t].object}
               /\ save'[q][t].text \in
                      {0, mem[q], save[q][t].text, save[q][t].object}
    <3>1. save[p] \in [Slot -> Call] /\ mem[p] \in Nat
      BY DEF StatsTypeOK
    <3>2. save'[q] = IF q = p THEN Unshare(save[p], mem[p]) ELSE save[q]
      BY <1>3 DEF Sync, StatsTypeOK
    <3> QED
      BY <3>1, <3>2, UnshareFrom
  <2>5. (disk + AllDeltas <= total)' /\ (command.loaded + AllDeltas <= total)'
    BY <2>1, <2>2 DEF Counted
  <2> QED
    BY <2>2, <2>3, <2>4, <2>5, CallsFrom
<1>4. ASSUME NEW p \in Proc, NEW s \in Slot, TimerFires(p, s) \/ SaveNow(p, s)
      PROVE  Counted'
  BY <1>4, PrepareCounts, SMTT(30) DEF TimerFires, SaveNow
<1>5. ASSUME NEW p \in Proc, NEW s \in Slot, Stringify(p, s) PROVE Counted'
  <2>1. \A q \in Proc, t \in Slot : save[q][t] \in Call
    BY DEF StatsTypeOK
  <2>2. ASSUME NEW q \in Proc, NEW t \in Slot
        PROVE  /\ save'[q][t].object = save[q][t].object
               /\ save'[q][t].text \in {mem[q], save[q][t].text, save[q][t].object}
    BY <1>5, <2>1 DEF Stringify, StatsTypeOK, Call
  <2> QED
    BY <1>2, <1>5, <2>2 DEF Stringify
<1>6. ASSUME NEW p \in Proc, NEW s \in Slot, SaveFails(p, s) PROVE Counted'
  <2>1. NoSave.object = 0 /\ NoSave.text = 0
    BY DEF NoSave
  <2>2. ASSUME NEW q \in Proc, NEW t \in Slot
        PROVE  save'[q][t] \in {NoSave, save[q][t]}
    BY <1>6 DEF SaveFails, StatsTypeOK
  <2> QED
    BY <1>2, <1>6, <2>1, <2>2 DEF SaveFails
<1>7. CASE CommandLoads
  BY <1>2, <1>7 DEF CommandLoads
<1>8. CASE CommandSaves \/ CommandResets
  <2>1. \A q \in Proc, t \in Slot : /\ save'[q][t].object = save[q][t].object
                                   /\ save'[q][t].text = save[q][t].text
    BY <1>8, OvertakeFrom, SMTT(30) DEF CommandSaves, CommandResets, StatsTypeOK
  <2> QED
    BY <1>2, <1>8, <2>1 DEF CommandSaves, CommandResets, NoCommand
<1>9. CASE UNCHANGED statsVars
  BY <1>2, <1>9 DEF statsVars
<1> QED
  BY <1>1, <1>3, <1>4, <1>5, <1>6, <1>7, <1>8, <1>9, WrittenCounts DEF StatsNext

\* However saves, syncs, failures and commands interleave, what is in the file
\* and what is still to be added to it was counted.
THEOREM CountedOnce == StatsSpec => []NothingCountedTwice
<1>1. StatsTypeOK /\ Counted /\ [StatsNext]_statsVars => (StatsTypeOK /\ Counted)'
  BY StatsStepTypes, StepCounts
<1>2. Counted => NothingCountedTwice
  BY DEF Counted, NothingCountedTwice
<1> QED
  BY <1>1, <1>2, StatsInitTypes, InitCounts, PTL DEF StatsSpec

------------------------------------------------------------------------------
(***************************************************************************)
(* While none of the Causes has happened the file and the deltas together  *)
(* are what is due, every save that will not overwrite a newer file writes *)
(* the file's count plus the delta of its process, and so does the command *)
(* without one.                                                            *)
(***************************************************************************)
\* What a call writes if its process goes on with the count of memory.
Writes(s, memory) ==
    IF s.stage = "text" THEN s.text
    ELSE IF s.shared THEN memory ELSE s.object

Right(s, memory, n) ==
    InFlight(s) /\ ~s.overtaken => Writes(s, memory) = n

NoneLost ==
    /\ disk + AllDeltas = due
    /\ \A p \in Proc, s \in Slot : Right(save[p][s], mem[p], disk + delta[p])
    /\ command.open /\ ~command.overtaken => command.loaded = disk

BlamedFor(happened) == cause' = NoCause => cause = NoCause /\ ~happened

LEMMA Blames ==
    ASSUME NEW reason \in Causes, NEW happened \in BOOLEAN,
           Blame(reason, happened)
    PROVE  BlamedFor(happened)
<1>1. reason # NoCause
  BY DEF Causes, NoCause
<1> QED
  BY <1>1 DEF Blame, BlamedFor

LEMMA NoSaveIsRight ==
    ASSUME NEW m, NEW n
    PROVE  Right(NoSave, m, n)
BY DEF Right, NoSave, InFlight

LEMMA UnshareWrites ==
    ASSUME NEW calls \in [Slot -> Call], NEW count \in Nat, NEW n
    PROVE  \A s \in Slot, m \in Nat :
               Right(calls[s], count, n) => Right(Unshare(calls, count)[s], m, n)
<1>1. ASSUME NEW c \in Call, NEW m \in Nat, Right(c, count, n), c.shared
      PROVE  Right([c EXCEPT !.shared = FALSE, !.object = count], m, n)
  BY <1>1 DEF Right, Writes, InFlight, Call
<1>2. ASSUME NEW c \in Call, NEW m \in Nat, Right(c, count, n), ~c.shared
      PROVE  Right(c, m, n)
  BY <1>2 DEF Right, Writes
<1>3. \A s \in Slot : calls[s] \in Call
  OBVIOUS
<1> QED
  BY <1>1, <1>2, <1>3 DEF Unshare

LEMMA OvertakeWrites ==
    ASSUME NEW calls \in [Proc -> [Slot -> Call]], NEW m, NEW n
    PROVE  \A p \in Proc, s \in Slot : Right(Overtake(calls)[p][s], m, n)
<1>1. ASSUME NEW c \in Call
      PROVE  Right([c EXCEPT !.overtaken = TRUE], m, n)
  BY DEF Right, Call
<1>2. ASSUME NEW c \in Call, ~InFlight(c)
      PROVE  Right(c, m, n)
  BY <1>2 DEF Right
<1>3. \A p \in Proc, s \in Slot : calls[p][s] \in Call
  OBVIOUS
<1> QED
  BY <1>1, <1>2, <1>3 DEF Overtake

LEMMA PrepareAccounts ==
    ASSUME StatsTypeOK, StatsTypeOK', NoneLost, NEW p \in Proc, NEW s \in Slot,
           PrepareSave(p, s), UNCHANGED <<disk, command, due>>,
           ~(delta[p] = 0 /\ mem[p] # disk)
    PROVE  NoneLost'
<1> DEFINE others == IF delta[p] = 0 THEN save[p] ELSE Unshare(save[p], mem[p])
<1>1. /\ UNCHANGED <<disk, command, due, delta>>
      /\ mem' = [mem EXCEPT ![p] = IF delta[p] = 0 THEN mem[p]
                                   ELSE disk + delta[p]]
      /\ save' = [save EXCEPT ![p] = [others EXCEPT ![s] = Begun]]
  BY DEF PrepareSave, Begun
<1>2. AllDeltas' = AllDeltas
  BY <1>1 DEF AllDeltas
<1>3. mem'[p] = disk + delta[p] /\ mem'[p] \in Nat
  BY <1>1 DEF StatsTypeOK
<1>4. Right(Begun, mem'[p], disk + delta[p])
  BY <1>3 DEF Right, Writes, Begun, NoSave
<1>5. save[p] \in [Slot -> Call] /\ mem[p] \in Nat /\ others \in [Slot -> Call]
  BY UnshareTypes DEF StatsTypeOK
<1>6. ASSUME NEW t \in Slot PROVE Right(others[t], mem'[p], disk + delta[p])
  <2>1. Right(save[p][t], mem[p], disk + delta[p])
    BY DEF NoneLost
  <2>2. CASE delta[p] = 0
    BY <1>1, <2>1, <2>2 DEF StatsTypeOK
  <2>3. CASE delta[p] # 0
    BY <1>3, <1>5, <2>1, <2>3, UnshareWrites
  <2> QED
    BY <2>2, <2>3
<1> HIDE DEF others
<1>7. ASSUME NEW q \in Proc, NEW t \in Slot
      PROVE  Right(save'[q][t], mem'[q], disk + delta[q])
  <2>1. \/ q # p /\ save'[q][t] = save[q][t] /\ mem'[q] = mem[q]
        \/ q = p /\ t = s /\ save'[q][t] = Begun
        \/ q = p /\ t # s /\ save'[q][t] = others[t]
    BY <1>1, <1>5 DEF StatsTypeOK
  <2> QED
    BY <1>4, <1>6, <2>1 DEF NoneLost
<1> QED
  BY <1>1, <1>2, <1>7 DEF NoneLost

LEMMA WrittenAccounts ==
    ASSUME StatsTypeOK, StatsTypeOK', NoneLost, NEW p \in Proc, NEW s \in Slot,
           Written(p, s), ~save[p][s].overtaken
    PROVE  NoneLost'
<1>1. /\ save[p][s].stage = "text" /\ disk' = save[p][s].text
      /\ delta' = [delta EXCEPT ![p] = 0] /\ due' = due
      /\ command' = [command EXCEPT !.overtaken = command.open]
  BY DEF Written
<1>2. Right(save[p][s], mem[p], disk + delta[p])
  BY DEF NoneLost
<1>3. disk' = disk + delta[p]
  BY <1>1, <1>2 DEF Right, Writes, InFlight
<1>4. AllDeltas' = AllDeltas - delta[p] + 0
  BY <1>1, DeltaMoves
<1>5. (disk + AllDeltas = due)'
  BY <1>1, <1>3, <1>4, Sums DEF NoneLost, StatsTypeOK
<1>6. \A q \in Proc, t \in Slot : Right(save'[q][t], mem'[q], disk' + delta'[q])
  <2> DEFINE before == [save EXCEPT ![p] = After(p, s)]
  <2>1. before \in [Proc -> [Slot -> Call]] /\ save' = Overtake(before)
    BY WrittenMoves DEF StatsTypeOK
  <2> HIDE DEF before
  <2> QED
    BY <2>1, OvertakeWrites
<1>7. ~(command'.open /\ ~command'.overtaken)
  BY <1>1 DEF StatsTypeOK
<1> QED
  BY <1>5, <1>6, <1>7 DEF NoneLost

LEMMA StepAccounts ==
    StatsTypeOK /\ StatsTypeOK' /\ (cause = NoCause => NoneLost) /\ [StatsNext]_statsVars
        => (cause = NoCause => NoneLost)'
<1> SUFFICES ASSUME StatsTypeOK, StatsTypeOK', cause = NoCause => NoneLost,
                    [StatsNext]_statsVars, cause' = NoCause
             PROVE  NoneLost'
  BY DEF NoCause
<1>1. ASSUME NEW p \in Proc, Record(p) PROVE NoneLost'
  <2>1. /\ mem' = [mem EXCEPT ![p] = mem[p] + 1]
        /\ delta' = [delta EXCEPT ![p] = delta[p] + 1] /\ due' = due + 1
        /\ UNCHANGED <<disk, save, command>>
    BY <1>1 DEF Record, StatsTypeOK
  <2>2. /\ NoneLost
        /\ \A s \in Slot : InFlight(save[p][s])
               => save[p][s].stage # "text" /\ save[p][s].shared
    BY <1>1, Blames DEF Record, BlamedFor, Causes
  <2>3. AllDeltas' = AllDeltas + 1
    <3>1. delta[p] + 1 \in Nat /\ delta[p] \in Nat
      BY DEF StatsTypeOK
    <3>2. AllDeltas' = AllDeltas - delta[p] + (delta[p] + 1)
      BY <2>1, <3>1, DeltaMoves
    <3> QED
      BY <3>1, <3>2, Sums
  <2>4. (disk + AllDeltas = due)'
    BY <2>1, <2>2, <2>3, Sums DEF NoneLost, StatsTypeOK
  <2>5. ASSUME NEW q \in Proc, NEW s \in Slot
        PROVE  Right(save'[q][s], mem'[q], disk' + delta'[q])
    <3>1. Right(save[q][s], mem[q], disk + delta[q])
      BY <2>2 DEF NoneLost
    <3>2. CASE q # p
      BY <2>1, <3>1, <3>2 DEF StatsTypeOK
    <3>3. CASE q = p
      BY <2>1, <2>2, <3>1, <3>3 DEF StatsTypeOK, Right, Writes
    <3> QED
      BY <3>2, <3>3
  <2> QED
    BY <2>1, <2>2, <2>4, <2>5 DEF NoneLost
<1>2. ASSUME NEW p \in Proc, Sync(p) PROVE NoneLost'
  <2>1. /\ mem' = [mem EXCEPT ![p] = disk]
        /\ save' = [save EXCEPT ![p] = Unshare(save[p], mem[p])]
        /\ UNCHANGED <<disk, delta, command, due, cause>>
    BY <1>2 DEF Sync
  <2>2. NoneLost /\ AllDeltas' = AllDeltas
    BY <2>1 DEF AllDeltas
  <2>3. save[p] \in [Slot -> Call] /\ mem[p] \in Nat /\ disk \in Nat
    BY DEF StatsTypeOK
  <2>4. ASSUME NEW q \in Proc, NEW s \in Slot
        PROVE  Right(save'[q][s], mem'[q], disk + delta[q])
    <3>1. Right(save[q][s], mem[q], disk + delta[q])
      BY <2>2 DEF NoneLost
    <3>2. CASE q # p
      BY <2>1, <3>1, <3>2 DEF StatsTypeOK
    <3>3. CASE q = p
      <4>1. save'[p] = Unshare(save[p], mem[p]) /\ mem'[p] = disk
        BY <2>1 DEF StatsTypeOK
      <4> QED
        BY <2>3, <3>1, <3>3, <4>1, UnshareWrites
    <3> QED
      BY <3>2, <3>3
  <2> QED
    BY <2>1, <2>2, <2>4 DEF NoneLost
<1>3. ASSUME NEW p \in Proc, NEW s \in Slot, TimerFires(p, s) \/ SaveNow(p, s)
      PROVE  NoneLost'
  <2>1. PrepareSave(p, s) /\ UNCHANGED <<disk, command, due>>
    BY <1>3 DEF TimerFires, SaveNow
  <2>2. NoneLost /\ ~(delta[p] = 0 /\ mem[p] # disk)
    BY <2>1, Blames DEF PrepareSave, BlamedFor, Causes
  <2> QED
    BY <2>1, <2>2, PrepareAccounts
<1>4. ASSUME NEW p \in Proc, NEW s \in Slot,
             UNCHANGED <<disk, mem, delta, command, due, cause>>,
             \A q \in Proc, t \in Slot :
                 LET n == disk + delta[q] IN
                 Right(save[q][t], mem[q], n) => Right(save'[q][t], mem[q], n)
      PROVE  NoneLost'
  <2>1. NoneLost /\ AllDeltas' = AllDeltas
    BY <1>4 DEF AllDeltas
  <2> QED
    BY <1>4, <2>1 DEF NoneLost
<1>5. ASSUME NEW p \in Proc, NEW s \in Slot, Stringify(p, s) PROVE NoneLost'
  <2>1. \A q \in Proc, t \in Slot : save[q][t] \in Call
    BY DEF StatsTypeOK
  <2>2. ASSUME NEW c \in Call, NEW m, NEW n, Right(c, m, n), c.stage = "object"
        PROVE  Right([c EXCEPT !.stage = "text",
                               !.text = IF c.shared THEN m ELSE c.object], m, n)
    BY <2>2 DEF Right, Writes, InFlight, Call
  <2>3. \A q \in Proc, t \in Slot :
            save'[q][t] = IF q = p /\ t = s
                          THEN [save[p][s] EXCEPT !.stage = "text",
                                  !.text = IF save[p][s].shared THEN mem[p]
                                           ELSE save[p][s].object]
                          ELSE save[q][t]
    BY <1>5 DEF Stringify, StatsTypeOK, Call
  <2>4. ASSUME NEW q \in Proc, NEW t \in Slot, NEW n, Right(save[q][t], mem[q], n)
        PROVE  Right(save'[q][t], mem[q], n)
    <3>1. CASE q = p /\ t = s
      <4>1. save[p][s].stage = "object" /\ save[p][s] \in Call
        BY <1>5, <2>1 DEF Stringify
      <4>2. Right([save[p][s] EXCEPT !.stage = "text",
                      !.text = IF save[p][s].shared THEN mem[p]
                               ELSE save[p][s].object], mem[p], n)
        BY <2>2, <2>4, <3>1, <4>1
      <4> QED
        BY <2>3, <3>1, <4>2
    <3>2. CASE ~(q = p /\ t = s)
      BY <2>3, <2>4, <3>2, Zenon
    <3> QED
      BY <3>1, <3>2
  <2> QED
    BY <1>4, <1>5, <2>4 DEF Stringify
<1>6. ASSUME NEW p \in Proc, NEW s \in Slot, Written(p, s) PROVE NoneLost'
  <2>1. save[p][s] \in Call
    BY DEF StatsTypeOK
  <2>2. save[p][s].overtaken \in BOOLEAN
    BY <2>1 DEF Call
  <2>3. Blame("overtaken", save[p][s].overtaken) /\ "overtaken" \in Causes
    BY <1>6 DEF Written, Causes
  <2>4. BlamedFor(save[p][s].overtaken)
    BY <2>2, <2>3, Blames, Zenon
  <2>5. NoneLost /\ ~save[p][s].overtaken
    BY <2>4, Zenon DEF BlamedFor
  <2> QED
    BY <1>6, <2>5, WrittenAccounts
<1>7. ASSUME NEW p \in Proc, NEW s \in Slot, SaveFails(p, s) PROVE NoneLost'
  <2>1. ASSUME NEW q \in Proc, NEW t \in Slot
        PROVE  save'[q][t] \in {NoSave, save[q][t]}
    BY <1>7 DEF SaveFails, StatsTypeOK
  <2> QED
    BY <1>4, <1>7, <2>1, NoSaveIsRight DEF SaveFails
<1>8. CASE CommandLoads
  <2>1. NoneLost /\ AllDeltas' = AllDeltas
    BY <1>8 DEF CommandLoads, AllDeltas
  <2> QED
    BY <1>8, <2>1 DEF CommandLoads, NoneLost
<1>9. CASE CommandSaves \/ CommandResets
  <2>1. command.overtaken \in BOOLEAN /\ "overtaken" \in Causes
    BY DEF StatsTypeOK, Causes
  <2>2. Blame("overtaken", command.overtaken)
    BY <1>9 DEF CommandSaves, CommandResets
  <2>3. BlamedFor(command.overtaken)
    BY <2>1, <2>2, Blames, Zenon
  <2>4. NoneLost /\ ~command.overtaken
    BY <2>3, Zenon DEF BlamedFor
  <2>5. AllDeltas' = AllDeltas /\ AllDeltas \in Nat
    BY <1>9, Sums DEF CommandSaves, CommandResets, AllDeltas
  <2>6. \A q \in Proc, t \in Slot : Right(save'[q][t], mem'[q], disk' + delta'[q])
    BY <1>9, OvertakeWrites DEF CommandSaves, CommandResets, StatsTypeOK
  <2>7. (disk + AllDeltas = due)'
    BY <1>9, <2>4, <2>5 DEF CommandSaves, CommandResets, NoneLost
  <2>8. ~command'.open
    BY <1>9 DEF CommandSaves, CommandResets, NoCommand
  <2> QED
    BY <2>6, <2>7, <2>8 DEF NoneLost
<1>10. CASE UNCHANGED statsVars
  BY <1>10 DEF statsVars, NoneLost, AllDeltas
<1> QED
  BY <1>1, <1>2, <1>3, <1>5, <1>6, <1>7, <1>8, <1>9, <1>10 DEF StatsNext

\* When nothing is left to be written and none of the causes has happened,
\* every request since the last reset is in the file.
THEOREM LostOnlyWithCause == StatsSpec => []UsageLostOnlyWithCause
<1> DEFINE Inv == StatsTypeOK /\ (cause = NoCause => NoneLost)
<1>1. StatsInit => Inv
  <2> SUFFICES ASSUME StatsInit PROVE NoneLost
    BY StatsInitTypes
  <2>1. AllDeltas = 0
    BY SumOfZeros DEF StatsInit, AllDeltas
  <2>2. \A p \in Proc, s \in Slot : save[p][s] = NoSave
    BY DEF StatsInit
  <2> QED
    BY <2>1, <2>2, NoSaveIsRight DEF StatsInit, NoneLost, NoCommand
<1>2. Inv /\ [StatsNext]_statsVars => Inv'
  BY StatsStepTypes, StepAccounts
<1>3. Inv => UsageLostOnlyWithCause
  <2> SUFFICES ASSUME StatsTypeOK, NoneLost, Quiet PROVE disk = due
    BY DEF UsageLostOnlyWithCause
  <2>1. AllDeltas = 0
    BY SumOfZeros DEF Quiet, AllDeltas
  <2> QED
    BY <2>1 DEF NoneLost, StatsTypeOK
<1> QED
  BY <1>1, <1>2, <1>3, PTL DEF StatsSpec
================================================================================
