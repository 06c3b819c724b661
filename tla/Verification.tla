---------------------------- MODULE Verification ----------------------------
(***************************************************************************)
(* What live verification concludes from what it captured, and what a      *)
(* promotion writes (scripts/verification/run-live-verification.ts,        *)
(* promote-verified.ts).  The programs themselves are in Promotion.        *)
(*                                                                         *)
(* A capture is one request seen by the proxy: who sent it (the plugin,    *)
(* Claude Code, or Claude Code after its command has ended), the scenario  *)
(* whose prompt it carries, and the values of the fields in it.  The proxy *)
(* cannot see who sent a request; by is kept for the properties.           *)
(***************************************************************************)
EXTENDS Manifests, Sequences

CONSTANTS
    Scenario,   \* the scenarios of scripts/verification/scenarios
    Required    \* [Scenario -> SUBSET Field], their requiredFields

Capture(by, scenario, sent) == [by |-> by, prompt |-> scenario, sent |-> sent]

\* The first request since position from that carries the scenario's prompt.
SelectCaptureForScenario(captures, from, scenario) ==
    captures[Min({i \in from + 1 .. Len(captures) : captures[i].prompt = scenario})]

CompareScenarioFields(scenario, og, plugin) ==
    [path \in Required[scenario] |-> [og |-> og.sent[path], plugin |-> plugin.sent[path],
                                      by |-> plugin.by]]

\* A scenario whose command failed has no field results.
NoFields == [path \in {} |-> 0]

(***************************************************************************)
(* A report is the version under test and the field results of the         *)
(* scenarios in their order.                                               *)
(***************************************************************************)
Observations(report, path) ==
    {report.results[i][path] : i \in {i \in DOMAIN report.results : path \in DOMAIN report.results[i]}}

Promotable(candidate, report, path) ==
    LET seen == Observations(report, path)
    IN  /\ seen # {}
        /\ \A o \in seen : o.og = o.plugin
        /\ \A o, other \in seen : o.og = other.og
        /\ \A o \in seen : o.og = candidate[path].value

(***************************************************************************)
(* only narrows what is promoted, never what is rejected.                  *)
(***************************************************************************)
BuildFieldDecision(candidate, report, only) ==
    LET promotable == {path \in Field : Promotable(candidate, report, path)}
    IN  [promoted |-> IF only = {} THEN promotable ELSE promotable \cap only,
         rejected |-> {path \in Field \ promotable : Observations(report, path) # {}}]

\* A mistake to be caught: the manifest is made anew from each report.
MergeVerifiedManifest_Anew(file, candidate, decision, ref) ==
    [promoted |-> [path \in decision.promoted |-> [value |-> candidate[path].value, ref |-> ref]],
     rejected |-> decision.rejected,
     evidence |-> {ref}]

\* A rejection leaves an earlier promotion of the field in place.
MergeVerifiedManifest(file, candidate, decision, ref) ==
    LET existing == IF Readable(file) THEN file ELSE EmptyVerifiedManifest
        fresh    == [path \in decision.promoted |-> [value |-> candidate[path].value, ref |-> ref]]
    IN  [promoted |-> [path \in decision.promoted \cup DOMAIN existing.promoted |->
                          IF path \in decision.promoted THEN fresh[path]
                          ELSE existing.promoted[path]],
         rejected |-> (existing.rejected \cup decision.rejected) \ decision.promoted,
         evidence |-> existing.evidence \cup {ref}]

=============================================================================
