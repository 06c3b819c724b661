--------------------------------- MODULE Betas ---------------------------------
(***************************************************************************)
(* buildAnthropicBetaHeader (src/betas.ts): the betas that a request asks  *)
(* for, as a set of short names.  The order of the header, which only the  *)
(* fingerprint depends on, is left out.                                    *)
(*                                                                         *)
(* A profile has the inventories of the manifest that it was resolved      *)
(* from; source "fallback" is the profile without a manifest.              *)
(***************************************************************************)
EXTENDS Naturals

EXPERIMENTAL_BETA_FLAGS ==
    {"context-1m", "context-management", "interleaved-thinking", "files-api",
     "structured-outputs", "prompt-caching-scope", "advisor-tool",
     "advanced-tool-use", "web-search", "tool-search"}

BEDROCK_UNSUPPORTED_BETAS == {"interleaved-thinking", "context-1m", "tool-search"}

\* LONG_CONTEXT_EXCLUSION_ORDER, as the exclusions after n errors.
LongContextExclusions(n) ==
    CASE n = 0 -> {}
      [] n = 1 -> {"context-1m"}
      [] OTHER -> {"context-1m", "interleaved-thinking"}

IsFirstParty(provider) == provider \in {"anthropic", "foundry"}

\* getOptionalBetaInventory and getAuthModeBetaInventory: a profile without
\* betas of its own takes those of its version's candidate manifest, or of the
\* latest one.
Inventory(own, profile, candidates, kind) ==
    IF profile.source # "fallback" /\ own # {} THEN own
    ELSE IF profile.version = "unknown" THEN {}
    ELSE IF candidates.direct[kind] # {} THEN candidates.direct[kind]
    ELSE candidates.latest[kind]

OptionalBetas(profile, candidates) ==
    Inventory(profile.optional, profile, candidates, "optional")
AuthModeBetas(profile, candidates) ==
    Inventory(profile.authMode, profile, candidates, "authMode")

\* What the model, and not a manifest, asks for.
ModelBetas(model, provider, env) ==
    (IF env.noInterleaved THEN {} ELSE {"interleaved-thinking"}) \cup
    (IF model = "claude3" THEN {} ELSE {"context-management"}) \cup
    (IF env.toolPear THEN {"structured-outputs"} ELSE {}) \cup
    (IF provider \in {"vertex", "foundry"} THEN {"web-search"} ELSE {})

\* The betas that the manifest gates.
ManifestBetas(model, path, provider, optional) ==
    IF ~(path = "messages" /\ IsFirstParty(provider)) THEN {}
    ELSE optional \cap
         ({"advisor-tool"} \cup
          (IF model = "adaptive" THEN {"context-1m"} ELSE {}) \cup
          (IF model = "haiku" THEN {} ELSE {"advanced-tool-use"}))

\* The header of signature emulation, which takes nothing from OpenCode.
EmulatedBetas(model, path, profile, candidates, config, files, deferred) ==
    LET provider == config.provider
        experimental ==
            (IF path = "files" \/ files THEN {"files-api"} ELSE {}) \cup
            (IF config.strategy = "round-robin" THEN {} ELSE {"prompt-caching-scope"}) \cup
            ModelBetas(model, provider, config.env) \cup
            ManifestBetas(model, path, provider, OptionalBetas(profile, candidates))
    IN  (IF IsFirstParty(provider)
         THEN profile.required \cup AuthModeBetas(profile, candidates) ELSE {}) \cup
        (IF config.env.noExperimental THEN {} ELSE experimental) \cup
        (IF config.toolSearch /\ model # "haiku" /\ deferred THEN {"tool-search"} ELSE {}) \cup
        {"claude-code"} \cup
        (IF model = "adaptive" THEN {"effort"} ELSE {}) \cup
        (IF path = "count_tokens" THEN {"token-counting"} ELSE {}) \cup
        config.env.betas \cup config.customBetas

\* Without emulation OpenCode's own betas are kept.
PassedThroughBetas(path, profile, incoming) ==
    profile.required \cup {"interleaved-thinking"} \cup incoming \cup
    (IF path = "count_tokens" THEN {"token-counting"} ELSE {})

\* request: what parseRequestBodyMetadata finds; excluded: the errors about long
\* contexts so far.
BuildAnthropicBetaHeader(request, profile, candidates, config, excluded) ==
    LET emulated == EmulatedBetas(request.model, request.path, profile, candidates,
                                  config, request.files, request.deferred)
        experimental == IF config.env.noExperimental THEN EXPERIMENTAL_BETA_FLAGS ELSE {}
        unsupported == IF config.provider = "bedrock" THEN BEDROCK_UNSUPPORTED_BETAS ELSE {}
    IN  IF ~config.signature
        THEN PassedThroughBetas(request.path, profile, request.betas) \ experimental
        ELSE ((emulated \cup config.overrides.add) \ config.overrides.remove)
                 \ (experimental \cup LongContextExclusions(excluded) \cup unsupported)
==============================================================================
