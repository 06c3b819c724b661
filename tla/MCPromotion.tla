----------------------------- MODULE MCPromotion -----------------------------
(* A small instance of Promotion: one scenario; a header, the two lists of    *)
(* betas, which the plugin has not of its own, and a low-risk field; and two *)
(* versions that differ in the header and in one list.                       *)
EXTENDS Promotion, TLC

MCField == {"headers.xStainlessHeaders", "body.toolsKey", "betas.optionalBetas",
            "betas.authModeBetas"}

Values(stainless, tools, optional, authMode) ==
    ("headers.xStainlessHeaders" :> stainless) @@ ("body.toolsKey" :> tools) @@
    ("betas.optionalBetas" :> optional) @@ ("betas.authModeBetas" :> authMode)

MCScenario == {"tool-search"}
MCRequired == [s \in MCScenario |-> MCField \ {"betas.authModeBetas"}]
MCPlan == <<"tool-search">>

MCOgSends == <<Values("node20", "yes", "betas1", "oauth"),
               Values("node22", "yes", "betas2", "oauth")>>
MCReleases == <<Values("node20", "yes", NoBetas, NoBetas),
                Values("node22", "yes", NoBetas, NoBetas)>>
MCExtracted == <<{Values("node20", "yes", "betas1", "oauth"),
                  Values("node20", "no", "betas1", "oauth")},
                 {Values("node20", "no", "betas2", "oauth")}>>

Runs == Permutations(Verifier)
==============================================================================
