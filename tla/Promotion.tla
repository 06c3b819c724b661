------------------------------ MODULE Promotion ------------------------------
(***************************************************************************)
(* How a value extracted from a bundle of Claude Code comes to be sent by  *)
(* the plugin: a builder writes candidate manifests, scheduled runs verify *)
(* the latest one against captured traffic and promote what matched,       *)
(* reviewers promote reports by hand, and plugin processes read the files. *)
(* They share files only, written in place, and one lock directory         *)
(* (run-scheduled-verifier.sh).  Any of them may be killed.                *)
(***************************************************************************)
EXTENDS Verification

CONSTANTS
    Verifier, Reviewer,     \* scheduled runs; people with promotion-cli
    Plan,                   \* the scenarios of a scheduled run, in order
    OgSends,                \* [Version -> [Field -> value]] of Claude Code
    Releases,               \* the plugin's own values, one function per release
    Extracted,              \* [Version -> set of what extraction may find]
    Installed,              \* versions of Claude Code that may be installed
    Asked,                  \* claudeCliVersion: the plugin's constant, npm's latest
    MaxReports,             \* bound on the reports
    MaxEvents               \* bound on new candidates, reviews, new releases and faults together

Worker == Verifier \cup Reviewer

\* What extraction finds, and the verified manifests there can be.
Value == UNION {{found[path] : found \in Extracted[v], path \in Field} : v \in Version}
Ref == 1 .. MaxReports
ManifestOf(promoted) == [promoted: [promoted -> [value: Value, ref: Ref]],
                         rejected: SUBSET Field, evidence: SUBSET Ref]
Manifest == UNION {ManifestOf(promoted) : promoted \in SUBSET Field}

ASSUME BoundsOK == {MaxReports, MaxEvents} \subseteq Nat
ASSUME AskedExist == Asked \subseteq Version
ASSUME WorkersDiffer == Verifier \cap Reviewer = {}
ASSUME FinitelyManyRuns == IsFiniteSet(Verifier)
ASSUME NoCandidateIsAMark ==
    \A v \in Version : \A found \in Extracted[v] : BuildCandidateManifest(found) # Unread
ASSUME NoManifestIsAMark ==
    \A promoted \in SUBSET Field : \A mark \in {NoFile, Torn} : mark \notin ManifestOf(promoted)

VARIABLES
    disk,       \* the four kinds of manifest files
    building,   \* the version whose candidate is written but not indexed, or 0
    reports,    \* verification reports, oldest first; a position is its path
    lockDir,    \* whether the lock directory exists
    worker,     \* what each scheduled run and each reviewer is doing
    og,         \* the version of Claude Code installed, which nobody checks
    release,    \* the release of the plugin installed
    plugin,     \* a plugin process: what it has read, the profiles it serves
                \* and, for each version asked for, its last request
    applied,    \* history: promotions that have been written
    spoiled,    \* history: versions with a torn file or overlapping promotions
    removals,   \* history: how often the lock was removed by a run that did not end
    events      \* how many of the bounded events have been

vars == <<disk, building, reports, lockDir, worker, og, release, plugin, applied,
          spoiled, removals, events>>
files == <<disk, building, reports>>
history == <<applied, spoiled, removals>>
world == <<og, release, plugin>>

At(pc, version, report, only) ==
    [pc |-> pc, version |-> version, results |-> << >>, report |-> report,
     only |-> only, promoted |-> {}, merged |-> NoFile]
Idle == At("idle", 0, 0, {})

Own == Releases[release]

FreshPlugin == [mem |-> NothingRead, served |-> [v \in Version |-> Unread],
                sent |-> [v \in Version |-> Unread]]

Init ==
    /\ \E found \in Extracted[1] :
          disk = [candidate |-> [v \in Version |-> IF v = 1 THEN BuildCandidateManifest(found)
                                                   ELSE NoFile],
                  verified |-> [v \in Version |-> NoFile],
                  candidateIndex |-> {1}, verifiedIndex |-> NoFile]
    /\ building = 0 /\ reports = << >> /\ lockDir = FALSE
    /\ worker = [w \in Worker |-> Idle]
    /\ og \in Installed /\ release = 1 /\ plugin = FreshPlugin
    /\ applied = {} /\ spoiled = {} /\ removals = 0
    /\ events = 0

Event == events < MaxEvents /\ events' = events + 1

(***************************************************************************)
(* The builder of candidates: a new version or a better extraction of an   *)
(* old one.  The index, which nobody else writes, follows the manifest,    *)
(* unless the builder is killed in between.                                *)
(***************************************************************************)
BuildCandidate(v) ==
    /\ building = 0 /\ Event
    /\ \E found \in Extracted[v] :
          /\ disk.candidate[v] # BuildCandidateManifest(found)
          /\ disk' = [disk EXCEPT !.candidate[v] = BuildCandidateManifest(found)]
    /\ building' = v
    /\ UNCHANGED <<reports, lockDir, worker, world, history>>

IndexCandidate ==
    /\ building # 0
    /\ disk' = [disk EXCEPT !.candidateIndex = UpdateIndex(@, building)]
    /\ building' = 0
    /\ UNCHANGED <<reports, lockDir, worker, world, history, events>>

BuilderKilled ==
    /\ building # 0 /\ Event
    /\ building' = 0
    /\ UNCHANGED <<disk, reports, lockDir, worker, world, history>>

(***************************************************************************)
(* A scheduled run.  The trap that removes the lock directory is set on    *)
(* EXIT, INT and TERM before anything else happens, so every run that ends *)
(* removes the directory, whoever made it, and so does every signal.       *)
(***************************************************************************)
\* A mistake to be caught: the directory is made with mkdir -p.
Start_Anyway(w) ==
    /\ worker[w].pc = "idle"
    /\ Len(reports) < MaxReports
    /\ lockDir' = TRUE
    /\ worker' = [worker EXCEPT ![w] = At("scenario", LatestOf(disk.candidateIndex), 0, {})]
    /\ UNCHANGED <<files, world, history, events>>

Start(w) ==
    /\ worker[w].pc = "idle" /\ ~lockDir
    /\ Len(reports) < MaxReports
    /\ lockDir' = TRUE
    /\ worker' = [worker EXCEPT ![w] = At("scenario", LatestOf(disk.candidateIndex), 0, {})]
    /\ UNCHANGED <<files, world, history, events>>

\* What the trap does to the lock of a run at work.
LockRemoved == lockDir /\ lockDir' = FALSE /\ removals' = removals + 1

\* A run that ends before it has made the directory: it finds the directory
\* there, its options are wrong, --help is asked for or an executable is missing.
EndsBeforeStart(w) ==
    /\ worker[w].pc = "idle" /\ Event
    /\ LockRemoved
    /\ UNCHANGED <<files, worker, world, applied, spoiled>>

\* INT or TERM for the script alone: the trap runs between two commands, and the
\* script goes on.
Interrupted(w) ==
    /\ \/ worker[w].pc = "scenario" /\ worker[w].results = << >>
       \/ worker[w].pc = "apply"
    /\ Event
    /\ LockRemoved
    /\ UNCHANGED <<files, worker, world, applied, spoiled>>

Ends(w) == /\ worker' = [worker EXCEPT ![w] = Idle]
           /\ lockDir' = (lockDir /\ w \notin Verifier)

Fails(w) ==
    /\ \/ worker[w].pc \in {"scenario", "apply"} /\ Event
       \/ worker[w].pc = "failed" /\ UNCHANGED events
    /\ Ends(w)
    /\ UNCHANGED <<files, world, history>>

(***************************************************************************)
(* One scenario: Claude Code is run through the proxy, then the plugin.    *)
(* Claude Code's capture is the first since the scenario began, the        *)
(* plugin's the first since the command of Claude Code ended.  A further   *)
(* request of Claude Code may be parsed only then.                         *)
(***************************************************************************)
CurrentScenario(w) == Plan[Len(worker[w].results) + 1]

OgCapture(w, when) == Capture(when, CurrentScenario(w), OgSends[og])

\* A plugin process of its own, which asks for its version v, not for the one
\* under verification.
PluginCapture(w, v) ==
    LET found == GetRequestProfile(v, NothingRead, disk, Own)
        sent  == BuildRequest(found.profile, found.mem, disk).sent
    IN  Capture("plugin", CurrentScenario(w),
                [path \in Field |-> IF path \in FromProfile THEN sent[path] ELSE Own[path]])

\* A mistake to be caught: both captures are looked for from the same position.
ScenarioResult_SameStart(scenario, captures, afterOg) ==
    CompareScenarioFields(scenario, SelectCaptureForScenario(captures, 0, scenario),
                          SelectCaptureForScenario(captures, 0, scenario))

ScenarioResult(scenario, captures, afterOg) ==
    CompareScenarioFields(scenario, SelectCaptureForScenario(captures, 0, scenario),
                          SelectCaptureForScenario(captures, afterOg, scenario))

RunScenario(w) ==
    /\ worker[w].pc = "scenario" /\ Len(worker[w].results) < Len(Plan)
    /\ \E v \in Asked :
       \E captures \in {<<OgCapture(w, "og"), PluginCapture(w, v)>>,
                        <<OgCapture(w, "og"), OgCapture(w, "late"), PluginCapture(w, v)>>} :
          /\ IF Len(captures) = 2 THEN UNCHANGED events ELSE Event
          /\ worker' = [worker EXCEPT ![w].results =
                 Append(@, ScenarioResult(CurrentScenario(w), captures, 1))]
    /\ UNCHANGED <<files, lockDir, world, history>>

\* Whatever goes wrong in a scenario, it fails without field results.
ScenarioFails(w) ==
    /\ worker[w].pc = "scenario" /\ Len(worker[w].results) < Len(Plan)
    /\ Event
    /\ worker' = [worker EXCEPT ![w].results = Append(@, NoFields)]
    /\ UNCHANGED <<files, lockDir, world, history>>

WriteReport(w) ==
    /\ worker[w].pc = "scenario" /\ Len(worker[w].results) = Len(Plan)
    /\ Len(reports) < MaxReports
    /\ reports' = Append(reports, [version |-> worker[w].version, results |-> worker[w].results])
    /\ worker' = [worker EXCEPT ![w] = At("apply", worker[w].version, Len(reports) + 1, {})]
    /\ UNCHANGED <<disk, building, lockDir, world, history, events>>

(***************************************************************************)
(* A review.  A report is pending until a verified manifest names it; the  *)
(* newest pending one is offered, any may be named.  The candidate is read *)
(* again when the promotion runs.                                          *)
(***************************************************************************)
AppliedEvidenceRefs == UNION {disk.verified[v].evidence : v \in {v \in Version : Readable(disk.verified[v])}}

Pending(version) ==
    {r \in DOMAIN reports : /\ reports[r].version = version
                            /\ r \notin AppliedEvidenceRefs
                            /\ Readable(disk.candidate[version])}

Review(w, r) ==
    /\ worker[w].pc = "idle" /\ Event
    /\ \E approved \in SUBSET BuildFieldDecision(disk.candidate[reports[r].version],
                                                 reports[r], {}).promoted :
          /\ approved # {}
          /\ worker' = [worker EXCEPT ![w] = At("apply", reports[r].version, r, approved)]
    /\ UNCHANGED <<files, lockDir, world, history>>

ReviewPending(w, version) ==
    /\ Pending(version) # {}
    /\ Review(w, Max(Pending(version)))

ReviewNamed(w, r) == Review(w, r)

(***************************************************************************)
(* promote-verified: reads, decides and merges; writes the manifest; reads *)
(* the index and writes it.                                                *)
(***************************************************************************)
PromoteReads(w) ==
    /\ worker[w].pc = "apply"
    /\ LET v        == worker[w].version
           decision == BuildFieldDecision(disk.candidate[v], reports[worker[w].report], worker[w].only)
           merged   == MergeVerifiedManifest(disk.verified[v], disk.candidate[v], decision,
                                             worker[w].report)
       IN  /\ worker' = [worker EXCEPT ![w] =
                 [pc |-> "manifest", version |-> v, results |-> << >>, report |-> worker[w].report,
                  only |-> worker[w].only, promoted |-> decision.promoted, merged |-> merged]]
           /\ spoiled' = IF \E other \in Worker \ {w} :
                               worker[other].pc = "manifest" /\ worker[other].version = v
                         THEN spoiled \cup {v} ELSE spoiled
    /\ UNCHANGED <<files, lockDir, world, applied, removals, events>>

WriteManifest(w) ==
    /\ worker[w].pc = "manifest"
    /\ LET v == worker[w].version
       IN  /\ disk' = [disk EXCEPT !.verified[v] = worker[w].merged]
           /\ applied' = applied \cup
                 {[version |-> v, ref |-> worker[w].report, path |-> path,
                   value |-> worker[w].merged.promoted[path].value] : path \in worker[w].promoted}
    /\ worker' = [worker EXCEPT ![w] = At("index", worker[w].version, 0, {})]
    /\ UNCHANGED <<building, reports, lockDir, world, spoiled, removals, events>>

ReadIndex(w) ==
    /\ worker[w].pc = "index"
    /\ worker' = [worker EXCEPT ![w].pc = "indexed",
                                ![w].merged = UpdateIndex(disk.verifiedIndex, worker[w].version)]
    /\ UNCHANGED <<files, lockDir, world, history, events>>

WriteIndex(w) ==
    /\ worker[w].pc = "indexed"
    /\ disk' = [disk EXCEPT !.verifiedIndex = worker[w].merged]
    /\ Ends(w)
    /\ UNCHANGED <<building, reports, world, history, events>>

(***************************************************************************)
(* A kill leaves a file cut short if it comes in the middle of a write.    *)
(* The lock directory stays if the whole run is killed.                    *)
(***************************************************************************)
CutShort(w) ==
    \/ UNCHANGED <<disk, spoiled>>
    \/ /\ worker[w].pc = "manifest"
       /\ disk' = [disk EXCEPT !.verified[worker[w].version] = Torn]
       /\ spoiled' = spoiled \cup {worker[w].version}
    \/ /\ worker[w].pc = "indexed"
       /\ disk' = [disk EXCEPT !.verifiedIndex = Torn]
       /\ UNCHANGED spoiled

Killed(w) ==
    /\ worker[w].pc # "idle" /\ Event
    /\ worker' = [worker EXCEPT ![w] = Idle]
    /\ CutShort(w)
    /\ UNCHANGED <<building, reports, lockDir, world, applied, removals>>

\* INT for the script and its command, as from a terminal: the command dies, the
\* trap removes the lock, and then the script finds that it has failed.
CommandInterrupted(w) ==
    /\ worker[w].pc \notin {"idle", "failed"} /\ Event
    /\ worker' = [worker EXCEPT ![w] = At("failed", worker[w].version, 0, {})]
    /\ CutShort(w)
    /\ LockRemoved
    /\ UNCHANGED <<building, reports, world, applied>>

(***************************************************************************)
(* The plugin process asks for its profile and builds the betas with each  *)
(* request; it reads files once, and nothing makes it look again before it *)
(* is restarted, perhaps as a later release.                               *)
(***************************************************************************)
SendRequest(v) ==
    /\ LET found == IF plugin.served[v] # Unread
                    THEN [mem |-> plugin.mem, profile |-> plugin.served[v]]
                    ELSE GetRequestProfile(v, plugin.mem, disk, Own)
           built == BuildRequest(found.profile, found.mem, disk)
       IN  plugin' = [mem    |-> built.mem,
                      served |-> [plugin.served EXCEPT ![v] = found.profile],
                      sent   |-> [plugin.sent EXCEPT ![v] = built.sent]]
    /\ UNCHANGED <<files, lockDir, worker, og, release, history, events>>

RestartPlugin ==
    /\ plugin' = FreshPlugin
    /\ \/ plugin # FreshPlugin /\ UNCHANGED <<release, events>>
       \/ release < Len(Releases) /\ release' = release + 1 /\ Event
    /\ UNCHANGED <<files, lockDir, worker, og, history>>

Next ==
    \/ \E v \in Version : BuildCandidate(v)
    \/ \E v \in Asked : SendRequest(v)
    \/ IndexCandidate \/ BuilderKilled
    \/ \E w \in Verifier : \/ Start(w) \/ EndsBeforeStart(w) \/ Interrupted(w)
                           \/ RunScenario(w) \/ ScenarioFails(w) \/ WriteReport(w)
                           \/ CommandInterrupted(w)
    \/ \E w \in Reviewer : \/ \E v \in Version : ReviewPending(w, v)
                           \/ \E r \in DOMAIN reports : ReviewNamed(w, r)
    \/ \E w \in Worker : PromoteReads(w) \/ WriteManifest(w) \/ ReadIndex(w) \/ WriteIndex(w)
                         \/ Killed(w) \/ Fails(w)
    \/ RestartPlugin

Spec == Init /\ [][Next]_vars

------------------------------------------------------------------------------
(* What the pipeline promises (docs/fingerprint-ingestion.md,              *)
(* docs/verification-runbook.md).                                          *)

\* Every promoted field cites an applied report of that version in which Claude
\* Code sent exactly this value and the plugin sent it too.  The second half can
\* fail only if a late request of Claude Code has been taken for the plugin's.
PromotedAsSeen ==
    \A v \in Version : Readable(disk.verified[v]) =>
        \A path \in DOMAIN disk.verified[v].promoted :
            LET field == disk.verified[v].promoted[path]
                seen  == Observations(reports[field.ref], path)
            IN  /\ field.ref \in disk.verified[v].evidence
                /\ reports[field.ref].version = v
                /\ seen # {}
                /\ \A o \in seen : /\ o.og = field.value
                                   /\ \/ o.plugin = field.value /\ o.by = "plugin"
                                      \/ o.by = "late"

\* A promotion that has been written stays, with its report on record as applied,
\* unless the manifest was cut short or two promotions of the version overlapped.
PromotionsKept ==
    \A a \in applied : a.version \notin spoiled =>
        /\ Readable(disk.verified[a.version])
        /\ a.path \in DOMAIN disk.verified[a.version].promoted
        /\ a.ref \in disk.verified[a.version].evidence

\* A critical or sensitive field is sent as the plugin's own value or as one that
\* was promoted for the version whose manifests the profile is made of; torn,
\* missing and stale files, the caches and a version without manifests included.
\* The exception is a list of betas that the profile leaves empty: there the
\* request says what a candidate manifest says, which nothing has verified.
WireNeedsVerification ==
    \A v \in Version : plugin.sent[v] # Unread =>
        \A path \in Field : ClassifyRisk(path) # "low-risk" =>
            \/ plugin.sent[v][path] = Own[path]
            \/ \E a \in applied : /\ a.version = plugin.served[v].made
                                  /\ a.path = path
                                  /\ a.value = plugin.sent[v][path]
            \/ /\ path \in {"betas.optionalBetas", "betas.authModeBetas"}
               /\ ~HasBetas(plugin.served[v], path)
               /\ \/ plugin.sent[v][path] = NoBetas
                  \/ \E u \in Version : /\ plugin.mem.candidate[u] \notin {NoFile, Unread}
                                        /\ plugin.mem.candidate[u][path].value
                                              = plugin.sent[v][path]

\* Each time that the lock directory is removed by anything but the end of a
\* started run lets in one more run at most: although every end removes the
\* directory whoever made it, the runs at work together do not grow beyond that.
RunsPaidByRemovals ==
    Cardinality({w \in Verifier : worker[w].pc # "idle"}) <= 1 + removals
==============================================================================
