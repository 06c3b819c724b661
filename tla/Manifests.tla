------------------------------ MODULE Manifests ------------------------------
(***************************************************************************)
(* What Claude Code is believed to send, in three tiers: the values the    *)
(* plugin was released with, the candidate manifest extracted from a       *)
(* published bundle, and the verified manifest that live verification has  *)
(* confirmed.  Here are the manifests as values, and the profile a plugin  *)
(* makes of them (fingerprint/*.ts, request/profile-resolver.ts); module   *)
(* Promotion has the programs that write and read the files.               *)
(*                                                                         *)
(* A version is a number.  A manifest's values are functions on Field, the *)
(* paths of interest; a value is a string that stands for itself.          *)
(***************************************************************************)
EXTENDS Integers, FiniteSetsExt, Functions

CONSTANTS
    Field,      \* paths of manifest fields
    Version,    \* released versions of Claude Code, numbered from 1
    NoBetas,    \* an empty list of betas
    NoFile,     \* a file that is not there
    Torn,       \* a file cut short by a crash of its writer
    Unread      \* a file a process has not looked at

ASSUME VersionsAreNumbered ==
    IsFiniteSet(Version) /\ Version # {} /\ Version = 1 .. Cardinality(Version)
ASSUME BetaListsAreFields == {"betas.optionalBetas", "betas.authModeBetas"} \subseteq Field
ASSUME NoIndexIsAMark ==
    \A versions \in SUBSET Version : versions \notin {NoFile, Torn, Unread}

CRITICAL_PATHS ==
    {"transport.authHeaderMode", "betas.requiredBaseBetas", "betas.authModeBetas",
     "headers.userAgent", "headers.xApp", "billing.ccEntrypoint", "metadata.userIdShape",
     "prompt.identityString", "prompt.billingBlockPlacement", "prompt.cacheControlBehavior",
     "body.defaultStream", "body.defaultMaxTokens"}

SENSITIVE_PATHS ==
    {"headers.xStainlessHeaders", "headers.xClientRequestId", "headers.xClaudeCodeSessionId",
     "betas.optionalBetas", "transport.defaultHeaders", "transport.pathStyle"}

ClassifyRisk(path) == IF path \in CRITICAL_PATHS THEN "critical"
                      ELSE IF path \in SENSITIVE_PATHS THEN "sensitive"
                      ELSE "low-risk"

\* The fields a request takes from its profile; the plugin computes the others,
\* billing.ccVersion from the version it asks for.
FromProfile ==
    {"headers.userAgent", "headers.xApp", "headers.xStainlessHeaders", "headers.xClientRequestId",
     "headers.xClaudeCodeSessionId", "transport.defaultHeaders", "betas.requiredBaseBetas",
     "betas.optionalBetas", "betas.authModeBetas"}

Readable(file) == file \notin {NoFile, Torn}

(***************************************************************************)
(* Candidate manifests carry a value and a risk for every field.           *)
(***************************************************************************)
BuildCandidateManifest(extracted) ==
    [path \in Field |-> [value |-> extracted[path], risk |-> ClassifyRisk(path)]]

(***************************************************************************)
(* Verified manifests: the promoted fields with the report that proves     *)
(* each of them, the rejected ones, and all reports that have been applied.*)
(***************************************************************************)
EmptyVerifiedManifest == [promoted |-> << >>, rejected |-> {}, evidence |-> {}]

(***************************************************************************)
(* An index is the set of versions it lists.                               *)
(***************************************************************************)
UpdateIndex(file, version) == (IF Readable(file) THEN file ELSE {}) \cup {version}

LatestOf(index) == IF index \in {NoFile, Torn, Unread} \/ index = {} THEN 0 ELSE Max(index)

(***************************************************************************)
(* The profile: verified over low-risk candidate over the plugin's own.    *)
(***************************************************************************)
\* A mistake to be caught: only critical fields wait for a verification.
MergeFieldMetadata_CriticalOnly(path, verified, candidate, own) ==
    IF Readable(verified) /\ path \in DOMAIN verified.promoted
    THEN verified.promoted[path].value
    ELSE IF Readable(candidate) /\ candidate[path].risk # "critical"
    THEN candidate[path].value
    ELSE own[path]

MergeFieldMetadata(path, verified, candidate, own) ==
    IF Readable(verified) /\ path \in DOMAIN verified.promoted
    THEN verified.promoted[path].value
    ELSE IF Readable(candidate) /\ candidate[path].risk = "low-risk"
    THEN candidate[path].value
    ELSE own[path]

\* made is the version of the manifests: the profile has it as its version until
\* it is normalized, and the properties speak of it after that.
MergeManifests(version, verified, candidate, own) ==
    [version |-> version,
     made    |-> version,
     source  |-> IF Readable(verified) /\ DOMAIN verified.promoted # {} THEN "verified"
                 ELSE IF Readable(candidate) THEN "candidate"
                 ELSE "fallback",
     value   |-> [path \in Field |-> MergeFieldMetadata(path, verified, candidate, own)]]

(***************************************************************************)
(* What a process knows of the files: everything it has read is kept,      *)
(* missing and invalid manifests too; an index that is not JSON is not.    *)
(***************************************************************************)
NothingRead == [candidate |-> [v \in Version |-> Unread], verified |-> [v \in Version |-> Unread],
                candidateIndex |-> Unread, verifiedIndex |-> Unread]

Load(cached, file) == IF cached # Unread THEN cached ELSE IF file = Torn THEN NoFile ELSE file

LoadIndex(cached, file) == IF cached # Unread THEN cached ELSE IF file = Torn THEN Unread ELSE file

ReadVerified(mem, disk, v)    == [mem EXCEPT !.verified[v]  = Load(@, disk.verified[v])]
ReadCandidate(mem, disk, v)   == [mem EXCEPT !.candidate[v] = Load(@, disk.candidate[v])]
ReadManifests(mem, disk, v)   == ReadCandidate(ReadVerified(mem, disk, v), disk, v)
ReadVerifiedIndex(mem, disk)  == [mem EXCEPT !.verifiedIndex  = LoadIndex(@, disk.verifiedIndex)]
ReadCandidateIndex(mem, disk) == [mem EXCEPT !.candidateIndex = LoadIndex(@, disk.candidateIndex)]

\* The candidate index is read only if the verified one names no version.
ReadIndexes(mem, disk) ==
    LET verified == ReadVerifiedIndex(mem, disk)
    IN  IF LatestOf(verified.verifiedIndex) # 0 THEN verified
        ELSE ReadCandidateIndex(verified, disk)

Known(mem, v) == Readable(mem.verified[v]) \/ Readable(mem.candidate[v])

LatestKnown(mem) == IF LatestOf(mem.verifiedIndex) # 0 THEN LatestOf(mem.verifiedIndex)
                    ELSE LatestOf(mem.candidateIndex)

\* The profile for version v and what has been read by then.  A version without
\* a manifest gets the latest one that has; 0 is the profile without manifests.
ResolveProfile(v, mem, disk, own) ==
    LET asked    == ReadManifests(mem, disk, v)
        indexed  == IF Known(asked, v) THEN asked ELSE ReadIndexes(asked, disk)
        resolved == IF Known(asked, v) THEN v ELSE LatestKnown(indexed)
        after    == IF resolved = 0 THEN indexed ELSE ReadManifests(indexed, disk, resolved)
    IN  [mem     |-> after,
         profile |-> IF resolved = 0 THEN MergeManifests(0, NoFile, NoFile, own)
                     ELSE MergeManifests(resolved, after.verified[resolved],
                                         after.candidate[resolved], own)]

\* normalizeRequestProfile: the profile takes the version that was asked for,
\* whichever manifests it is made of.  A header that is empty there becomes the
\* plugin's own, as which it counts here from the start.
GetRequestProfile(v, mem, disk, own) ==
    LET found == ResolveProfile(v, mem, disk, own)
    IN  [mem |-> found.mem, profile |-> [found.profile EXCEPT !.version = v]]

(***************************************************************************)
(* The betas of a request (betas.ts).  A list that is empty in the profile *)
(* is taken from the candidate of the profile's version, or else of the    *)
(* latest one, whatever its risk and whether or not it has been verified.  *)
(***************************************************************************)
HasBetas(profile, path) == profile.source # "fallback" /\ profile.value[path] # NoBetas

\* getOptionalBetaInventory and getAuthModeBetaInventory.
Inventory(path, profile, mem, disk) ==
    LET direct  == ReadCandidate(mem, disk, profile.version)
        indexed == ReadCandidateIndex(direct, disk)
        latest  == LatestOf(indexed.candidateIndex)
        after   == IF latest = 0 THEN indexed ELSE ReadCandidate(indexed, disk, latest)
        Betas(m, v) == IF v # 0 /\ Readable(m.candidate[v]) THEN m.candidate[v][path].value
                       ELSE NoBetas
    IN  IF HasBetas(profile, path) THEN [mem |-> mem, value |-> profile.value[path]]
        ELSE IF Betas(direct, profile.version) # NoBetas
        THEN [mem |-> direct, value |-> Betas(direct, profile.version)]
        ELSE [mem |-> after, value |-> Betas(after, latest)]

\* What a request says for each field, and what has been read by then.
BuildRequest(profile, mem, disk) ==
    LET optional == Inventory("betas.optionalBetas", profile, mem, disk)
        authMode == Inventory("betas.authModeBetas", profile, optional.mem, disk)
    IN  [mem |-> authMode.mem,
         sent |-> [profile.value EXCEPT !["betas.optionalBetas"] = optional.value,
                                        !["betas.authModeBetas"] = authMode.value]]
==============================================================================
