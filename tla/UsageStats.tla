------------------------------- MODULE UsageStats -------------------------------
(***************************************************************************)
(* The usage statistics of one account: every process counts requests in   *)
(* memory and in a delta, and a save writes what the file has plus the     *)
(* delta (recordUsage and saveToDisk in src/accounts.ts,                   *)
(* mergePersistedStats in src/accounts/persistence.ts).  The five counters *)
(* move together; the number of requests stands for them.                  *)
(*                                                                         *)
(* The payload of a save holds the very object that memory goes on         *)
(* counting in, until the payload is turned into text or memory gets       *)
(* another object.                                                         *)
(***************************************************************************)
EXTENDS Naturals, FiniteSets

CONSTANTS
    Proc,        \* OpenCode processes
    Slot,        \* saves a process may have in flight at a time
    MaxRecords,  \* bound: requests counted
    MaxSaves,    \* bound: saves for another reason than the timer
    MaxFailures \* bound: saves that fail, commands

ASSUME ProcFinite == IsFiniteSet(Proc)
ASSUME StatsBounds == {MaxRecords, MaxSaves, MaxFailures} \subseteq Nat

VARIABLES
    disk,    \* stats.requests in the file
    mem,     \* mem[p]: account.stats.requests
    delta,   \* delta[p]: #statsDeltas, 0 if the account has none
    timer,   \* timer[p]: the save timer runs
    save,    \* save[p][s]: saveToDisk calls in flight
    command, \* what a command has loaded
    total,   \* history: requests counted
    due,     \* history: those since the last reset
    cause,   \* history: the first of Causes that has happened
    budget   \* what is left of the bounds

statsVars == <<disk, mem, delta, timer, save, command, total, due, cause, budget>>

\* How a counted request can be missing from the file.
Causes == {
    "notInPayload", \* it was counted when a save could not take it any more
    "overtaken",    \* the file changed between a save's read and its write
    "staleMemory"}  \* a save without a delta wrote an outdated count
NoCause == "none"

\* object: the count in the payload's object.  shared: it is memory's object.
\* text: what will be written.  overtaken: the file has changed since the
\* save read it.
NoSave == [stage |-> "none", object |-> 0, shared |-> FALSE, text |-> 0,
           overtaken |-> FALSE]
NoCommand == [open |-> FALSE, loaded |-> 0, overtaken |-> FALSE]

StatsInit ==
    /\ disk = 0 /\ total = 0 /\ due = 0
    /\ mem = [p \in Proc |-> 0]
    /\ delta = [p \in Proc |-> 0]
    /\ timer = [p \in Proc |-> FALSE]
    /\ save = [p \in Proc |-> [s \in Slot |-> NoSave]]
    /\ command = NoCommand
    /\ cause = NoCause
    /\ budget = [records |-> MaxRecords, saves |-> MaxSaves,
                 faults |-> MaxFailures]

Spend(kind) ==
    /\ budget[kind] > 0
    /\ budget' = [budget EXCEPT ![kind] = @ - 1]
Blame(reason, happened) ==
    cause' = IF happened /\ cause = NoCause THEN reason ELSE cause

InFlight(s) == s.stage # "none"

\* The sum of the counts of all processes: one element for each of them.
SumOf(counts) == Cardinality(UNION {{p} \X (1 .. counts[p]) : p \in Proc})
AllDeltas == SumOf(delta)

\* Memory gets another object: the payloads keep the old one.
Unshare(calls, count) ==
    [s \in Slot |->
        IF calls[s].shared
        THEN [calls[s] EXCEPT !.shared = FALSE, !.object = count]
        ELSE calls[s]]

\* The file is written: every other call in flight has read an older one.
Overtake(calls) ==
    [p \in Proc |-> [s \in Slot |->
        IF InFlight(calls[p][s]) THEN [calls[p][s] EXCEPT !.overtaken = TRUE]
        ELSE calls[p][s]]]

------------------------------------------------------------------------------

\* recordUsage.
Record(p) ==
    /\ Spend("records")
    /\ mem' = [mem EXCEPT ![p] = @ + 1]
    /\ delta' = [delta EXCEPT ![p] = @ + 1]
    /\ timer' = [timer EXCEPT ![p] = TRUE]
    /\ total' = total + 1 /\ due' = due + 1
    /\ Blame("notInPayload",
             \E s \in Slot : /\ InFlight(save[p][s])
                             /\ save[p][s].stage = "text" \/ ~save[p][s].shared)
    /\ UNCHANGED <<disk, save, command>>

\* Mutant: the deltas are cleared as soon as they are in a payload.
PrepareSave_ClearsDeltas(p, s) ==
    LET merged == IF delta[p] = 0 THEN mem[p] ELSE disk + delta[p]
        others == IF delta[p] = 0 THEN save[p] ELSE Unshare(save[p], mem[p])
    IN  /\ mem' = [mem EXCEPT ![p] = merged]
        /\ save' = [save EXCEPT ![p] = [others EXCEPT ![s] =
              [NoSave EXCEPT !.stage = "object", !.shared = TRUE]]]
        /\ delta' = [delta EXCEPT ![p] = 0]
        /\ Blame("staleMemory", delta[p] = 0 /\ mem[p] # disk)

\* mergePersistedStats in prepareStorageForSave: a new object for the file's
\* count plus the delta, or else the object memory has.
PrepareSave(p, s) ==
    LET merged == IF delta[p] = 0 THEN mem[p] ELSE disk + delta[p]
        others == IF delta[p] = 0 THEN save[p] ELSE Unshare(save[p], mem[p])
    IN  /\ mem' = [mem EXCEPT ![p] = merged]
        /\ save' = [save EXCEPT ![p] = [others EXCEPT ![s] =
              [NoSave EXCEPT !.stage = "object", !.shared = TRUE]]]
        /\ UNCHANGED delta
        /\ Blame("staleMemory", delta[p] = 0 /\ mem[p] # disk)

\* saveToDisk by the timer, up to the call of saveAccounts.
TimerFires(p, s) ==
    /\ timer[p] /\ ~InFlight(save[p][s])
    /\ timer' = [timer EXCEPT ![p] = FALSE]
    /\ PrepareSave(p, s)
    /\ UNCHANGED <<disk, command, total, due, budget>>

\* saveToDisk by a refresh; the timer goes on.
SaveNow(p, s) ==
    /\ ~InFlight(save[p][s])
    /\ Spend("saves")
    /\ PrepareSave(p, s)
    /\ UNCHANGED <<disk, timer, command, total, due>>

\* saveAccounts after its read: the payload is turned into text.
Stringify(p, s) ==
    /\ save[p][s].stage = "object"
    /\ save' = [save EXCEPT ![p][s].stage = "text",
                            ![p][s].text = IF save[p][s].shared THEN mem[p]
                                           ELSE save[p][s].object]
    /\ UNCHANGED <<disk, mem, delta, timer, command, total, due, cause, budget>>

\* Mutant: the deltas are kept.
Written_KeepsDeltas(p, s) ==
    /\ save[p][s].stage = "text"
    /\ disk' = save[p][s].text
    /\ mem' = [mem EXCEPT ![p] =
                  IF save[p][s].shared THEN @ ELSE save[p][s].object]
    /\ save' = Overtake([save EXCEPT ![p] =
          [(IF save[p][s].shared THEN @ ELSE Unshare(@, mem[p]))
              EXCEPT ![s] = NoSave]])
    /\ command' = [command EXCEPT !.overtaken = command.open]
    /\ Blame("overtaken", save[p][s].overtaken)
    /\ UNCHANGED <<delta, timer, total, due, budget>>

\* The rename, and saveToDisk to its end: the deltas are cleared and memory
\* gets the object of the payload.
Written(p, s) ==
    /\ save[p][s].stage = "text"
    /\ disk' = save[p][s].text
    /\ delta' = [delta EXCEPT ![p] = 0]
    /\ mem' = [mem EXCEPT ![p] =
                  IF save[p][s].shared THEN @ ELSE save[p][s].object]
    /\ save' = Overtake([save EXCEPT ![p] =
          [(IF save[p][s].shared THEN @ ELSE Unshare(@, mem[p]))
              EXCEPT ![s] = NoSave]])
    /\ command' = [command EXCEPT !.overtaken = command.open]
    /\ Blame("overtaken", save[p][s].overtaken)
    /\ UNCHANGED <<timer, total, due, budget>>

\* writeFile or rename throws: nothing is cleared and no timer started.
SaveFails(p, s) ==
    /\ save[p][s].stage = "text"
    /\ Spend("faults")
    /\ save' = [save EXCEPT ![p][s] = NoSave]
    /\ UNCHANGED <<disk, mem, delta, timer, command, total, due, cause>>

\* syncActiveIndexFromDisk gives memory the object it has read.
Sync(p) ==
    /\ mem' = [mem EXCEPT ![p] = disk]
    /\ save' = [save EXCEPT ![p] = Unshare(@, mem[p])]
    /\ UNCHANGED <<disk, delta, timer, command, total, due, cause, budget>>

------------------------------------------------------------------------------
(* A command of the CLI: it writes the count it has loaded, or resets it.  *)

CommandLoads ==
    /\ ~command.open
    /\ Spend("faults")
    /\ command' = [open |-> TRUE, loaded |-> disk, overtaken |-> FALSE]
    /\ UNCHANGED <<disk, mem, delta, timer, save, total, due, cause>>

CommandSaves ==
    /\ command.open
    /\ disk' = command.loaded
    /\ command' = NoCommand
    /\ save' = Overtake(save)
    /\ Blame("overtaken", command.overtaken)
    /\ UNCHANGED <<mem, delta, timer, total, due, budget>>

\* cmdResetStats.
CommandResets ==
    /\ command.open
    /\ disk' = 0
    /\ due' = AllDeltas
    /\ command' = NoCommand
    /\ save' = Overtake(save)
    /\ Blame("overtaken", command.overtaken)
    /\ UNCHANGED <<mem, delta, timer, total, budget>>

------------------------------------------------------------------------------

StatsNext ==
    \/ \E p \in Proc :
          \/ Record(p) \/ Sync(p)
          \/ \E s \in Slot : \/ TimerFires(p, s) \/ SaveNow(p, s)
                             \/ Stringify(p, s) \/ Written(p, s)
                             \/ SaveFails(p, s)
    \/ CommandLoads \/ CommandSaves \/ CommandResets

StatsSpec == StatsInit /\ [][StatsNext]_statsVars

------------------------------------------------------------------------------
(* Properties                                                              *)

\* Nothing is left to be written.
Quiet ==
    /\ \A p \in Proc : delta[p] = 0 /\ \A s \in Slot : ~InFlight(save[p][s])
    /\ ~command.open

\* No request is counted twice, neither by a save that is repeated after a
\* failure, nor by overlapping saves, nor through the object that payload and
\* memory share: what is in the file and what is still to be added to it was
\* counted.
NothingCountedTwice == disk + AllDeltas <= total

\* "Stats use merge-on-save: read disk values, add this instance's deltas,
\* write merged result." (src/accounts.ts:560).  When nothing is left to be
\* written every request since the last reset is in the file, unless one of
\* the causes has happened.
UsageLostOnlyWithCause ==
    Quiet /\ cause = NoCause => disk = due

==============================================================================
