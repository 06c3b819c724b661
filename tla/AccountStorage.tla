----------------------------- MODULE AccountStorage -----------------------------
(***************************************************************************)
(* The accounts file with its writers: OpenCode processes, each with an    *)
(* AccountManager that saves after a delay, and commands (the CLI, the     *)
(* slash commands) that load the file, let the user answer a prompt, edit  *)
(* what they loaded and save it.  No lock protects the file: saveAccounts  *)
(* reads it once more, merges and renames a new file over it.              *)
(***************************************************************************)
EXTENDS AccountFile

CONSTANTS
    Plugin,      \* the OpenCode processes
    Command,     \* slots in which commands run, one after the other
    InitialIds,  \* the ids of the rows in the file, in order; the identity
                 \* of each names the account of the same name
    AccountOf,   \* AccountOf[who]: the account that who really is, which the
                 \* load-time repair finds out and identities do not yet say
    Logins,      \* the accounts people log in to
    MaxChanges   \* bound: commands, flows and exits

ASSUME WritersDiffer == Plugin \cap Command = {}
ASSUME MaxChangesOK == MaxChanges \in Nat
ASSUME InitialRows ==
    /\ InitialIds \in Seq(Id \cap Person)
    /\ \A i, j \in DOMAIN InitialIds : InitialIds[i] = InitialIds[j] => i = j
    /\ AccountOf \in [Person -> Person]
    /\ \A who \in Person : AccountOf[AccountOf[who]] = AccountOf[who]
    /\ Logins \subseteq Person

VARIABLES
    file,     \* NoFile or its rows and activeIndex
    manager,  \* manager[p]: the AccountManager of p
    write,    \* write[w]: the saveAccounts call of w
    edit,     \* edit[c]: what command c has loaded
    flow,     \* flow[p]: the pending reauth flow of a slash command of p
    stamp,    \* token_updated_at of the newest token
    used,     \* every id that was ever given to a row
    mixed,    \* "doubled": a slash command has given an account a second
              \* row; "misdirected": one has written the credentials of an
              \* account into another's row
    changes   \* what is left of MaxChanges

vars == <<file, manager, write, edit, flow, used, stamp, mixed, changes>>
Writer == Plugin \cup Command

\* pending: the save timer runs.  dropped: #pendingDroppedIds.
\* starting: the loader still awaits its first save.  stale: a slash command
\* has saved and the manager is about to be loaded again.
NoManager == [status |-> "off", rows |-> <<>>, current |-> 0,
              dropped |-> {}, pending |-> FALSE, stale |-> FALSE]

\* seen: the rows of the file that this call has merged.  wanted: the
\* account the writer has as active.  victim: the ids it means to take out.
\* for: the process whose slash command this is.
NoWrite == [stage |-> "none", rows |-> <<>>, active |-> 1, dropped |-> {},
            wanted |-> {}, seen |-> {}, victim |-> {}, for |-> {}]

NoEdit == [open |-> FALSE, rows |-> <<>>, active |-> 1]

\* The position that reauth was given, and who the user means by it.
NoFlow == [target |-> 0, who |-> {}]

Init ==
    /\ file = [rows |-> [i \in DOMAIN InitialIds |->
                            [id |-> InitialIds[i], who |-> InitialIds[i],
                             token |-> [of |-> InitialIds[i], at |-> 0],
                             enabled |-> TRUE]],
               active |-> 1]
    /\ manager = [p \in Plugin |-> NoManager]
    /\ write = [w \in Writer |-> NoWrite]
    /\ edit = [c \in Command |-> NoEdit]
    /\ flow = [p \in Plugin |-> NoFlow]
    /\ used = {InitialIds[i] : i \in DOMAIN InitialIds}
    /\ stamp = 0
    /\ mixed = {}
    /\ changes = MaxChanges

------------------------------------------------------------------------------
(* saveAccounts                                                            *)

BeginWrite(w, storage, dropped, wanted, victim, for) ==
    write' = [write EXCEPT ![w] =
        [stage |-> "merge", rows |-> storage.rows, active |-> storage.active,
         dropped |-> dropped, wanted |-> wanted \cap Ids(storage.rows),
         seen |-> {}, victim |-> victim, for |-> for]]

\* The second read and the union.
MergeWithDisk(w) ==
    /\ write[w].stage = "merge"
    /\ LET merged == Union(write[w].rows, write[w].active, write[w].dropped,
                           file)
       IN  write' = [write EXCEPT ![w].stage = "rename",
                                  ![w].rows = merged.rows,
                                  ![w].active = merged.active,
                                  ![w].seen = Range(DiskRows(file))]
    /\ UNCHANGED <<file, manager, edit, flow, used, stamp, mixed, changes>>

\* writeFile and rename; a manager then forgets its dropped ids, and a slash
\* command has it loaded again.  The file is kept as its next reader sees it.
Rename(w) ==
    /\ write[w].stage = "rename"
    /\ \E rows \in Deduplicated(write[w].rows) :
          file' = [rows |-> rows, active |-> write[w].active]
    /\ write' = [write EXCEPT ![w] = NoWrite]
    /\ manager' = [p \in Plugin |->
          [manager[p] EXCEPT
             !.dropped = IF p = w THEN {} ELSE @,
             !.status = IF p = w THEN "on" ELSE @,
             !.stale = @ \/ p \in write[w].for]]
    /\ UNCHANGED <<edit, flow, used, stamp, mixed, changes>>

------------------------------------------------------------------------------
(* AccountManager                                                          *)

Set(p, rows, current, pending) ==
    manager' = [manager EXCEPT ![p].rows = rows, ![p].current = current,
                               ![p].pending = @ \/ pending]

Change == changes > 0 /\ changes' = changes - 1
Idle(p) == manager[p].status = "on"

\* What a login does: a token that no row has had, stamped now.
NewToken(who) == [of |-> who, at |-> stamp + 1]
NewId == CHOOSE id \in Id \ used : TRUE
NewRow(who) ==
    [id |-> NewId, who |-> who, token |-> NewToken(who), enabled |-> TRUE]
Reauthenticated(row, who) ==
    [row EXCEPT !.who = who, !.token = NewToken(who), !.enabled = TRUE]
NewLogin == stamp' = stamp + 1
OfAccount(rows, who) == {i \in DOMAIN rows : rows[i].who = who}

\* repairCorruptedCCAccounts: identities are put right, and the first row of
\* an account stays, with the newest token, enabled if any of them is.
Collapse(rows) ==
    LET account(i) == AccountOf[rows[i].who]
        twins(i) == {j \in DOMAIN rows : account(j) = account(i)}
        newest(i) == {rows[j].token : j \in {k \in twins(i) :
                         \A l \in twins(i) : rows[l].token.at <= rows[k].token.at}}
        healed(i) == [id |-> rows[i].id, who |-> account(i),
                      token |-> IF rows[i].token \in newest(i)
                                THEN rows[i].token
                                ELSE CHOOSE token \in newest(i) : TRUE,
                      enabled |-> \E j \in twins(i) : rows[j].enabled]
    IN  ElementsAt([i \in DOMAIN rows |-> healed(i)],
               {i \in DOMAIN rows : i = FirstOf(twins(i))})

\* AccountManager.load.  The position of the active account is looked up
\* again after the repair; the collapsed rows go to #pendingDroppedIds.
Loaded ==
    LET rows == Collapse(file.rows)
        wanted == IdAt(file.rows, Clamp(file.rows, file.active))
    IN  IF file = NoFile THEN NoManager
        ELSE [NoManager EXCEPT
                !.rows = rows,
                !.current = IF wanted # {} /\ wanted \subseteq Ids(rows)
                            THEN Locate(rows, wanted, 1) ELSE 0,
                !.dropped = Ids(file.rows) \ Ids(rows)]

\* The loader: it awaits a save if there is an account to use.
Start(p) ==
    /\ manager[p].status = "off" /\ file # NoFile
    /\ LET saves == Enabled(Loaded.rows) # {}
       IN  manager' = [manager EXCEPT ![p] =
              [Loaded EXCEPT !.status = IF saves THEN "starting" ELSE "on",
                             !.pending = saves]]
    /\ UNCHANGED <<file, write, edit, flow, used, stamp, mixed, changes>>

\* reloadAccountManagerFromDisk.  What the old manager still has to save is
\* saved before this step.
Reload(p) ==
    /\ manager[p].stale /\ ~manager[p].pending /\ write[p].stage = "none"
    /\ manager' = [manager EXCEPT ![p] = [Loaded EXCEPT !.status = "on"]]
    /\ UNCHANGED <<file, write, edit, flow, used, stamp, mixed, changes>>

\* saveToDisk up to the call of saveAccounts; newer tokens of the file are
\* taken into memory.  The timer may be running again when the call ends.
SaveToDisk(p) ==
    /\ manager[p].pending /\ write[p].stage = "none"
    /\ LET storage == Prepare(manager[p].rows, manager[p].current,
                              manager[p].dropped, file)
       IN  BeginWrite(p, storage, manager[p].dropped,
                      IdAt(manager[p].rows, manager[p].current),
                      manager[p].dropped \ Ids(manager[p].rows), {})
    /\ manager' = [manager EXCEPT
          ![p].rows = FreshestRows(@, file), ![p].pending = FALSE]
    /\ UNCHANGED <<file, edit, flow, used, stamp, mixed, changes>>

\* syncActiveIndexFromDisk.
Sync(p) ==
    /\ Idle(p) /\ file # NoFile
    /\ LET rows == Reconciled(manager[p].rows, file)
       IN  Set(p, rows, ReconciledCurrent(rows, manager[p].current, file),
               FALSE)
    /\ UNCHANGED <<file, write, edit, flow, used, stamp, mixed, changes>>

\* getCurrentAccount: selectAccount may pick any enabled account.  The
\* request it serves schedules a save.
Select(p) ==
    /\ Idle(p)
    /\ \E i \in Enabled(manager[p].rows) :
          Set(p, manager[p].rows, i, TRUE)
    /\ UNCHANGED <<file, write, edit, flow, used, stamp, mixed, changes>>

\* Writing to an account changes every entry that is the same object.
Put(rows, i, row) ==
    [k \in DOMAIN rows |-> IF rows[k].id = rows[i].id THEN row ELSE rows[k]]

\* A terminal refresh failure, or toggleAccount.
Toggle(p) ==
    /\ Idle(p) /\ Change
    /\ \E i \in DOMAIN manager[p].rows :
          LET row == manager[p].rows[i]
          IN  Set(p, Put(manager[p].rows, i,
                         [row EXCEPT !.enabled = ~row.enabled]),
                  manager[p].current, TRUE)
    /\ UNCHANGED <<file, write, edit, flow, used, stamp, mixed>>

\* addAccount: the credentials of who go to the account that matches, or to a
\* new one at the end.
AddAccount(rows, who) ==
    LET new == NewRow(who)
        k == Find(rows, new)
    IN  IF k # 0 THEN Put(rows, k, Reauthenticated(rows[k], who))
        ELSE Append(rows, new)

\* The "multi-account" login: the account that the identity names gets the
\* credentials, or else addAccount has them.
Login(p) ==
    /\ Idle(p) /\ Change /\ NewLogin
    /\ \E who \in Logins :
          LET rows == manager[p].rows
              known == OfAccount(rows, who)
              i == FirstOf(known)
          IN  \/ /\ known # {}
                 /\ Set(p, Put(rows, i, Reauthenticated(rows[i], who)),
                        manager[p].current, TRUE)
                 /\ UNCHANGED used
              \/ /\ known = {} /\ Id \ used # {}
                 /\ Set(p, AddAccount(rows, who),
                        IF rows = <<>> THEN 1 ELSE manager[p].current, TRUE)
                 /\ used' = used \cup {NewId}
    /\ UNCHANGED <<file, write, edit, flow, mixed>>

\* removeAccount: currentIndex keeps its value, or moves to the last account.
RemoveAccount(p) ==
    /\ Idle(p) /\ Change
    /\ \E i \in DOMAIN manager[p].rows :
          LET rows == RemoveAt(manager[p].rows, i)
          IN  Set(p, rows, IF manager[p].current > Len(rows) THEN Len(rows)
                           ELSE manager[p].current, TRUE)
    /\ UNCHANGED <<file, write, edit, flow, used, stamp, mixed>>

\* The "fresh" login: clearAccounts, then clearAll.
StartFresh(p) ==
    /\ Idle(p) /\ Change
    /\ file' = NoFile
    /\ Set(p, <<>>, 0, FALSE)
    /\ UNCHANGED <<write, edit, flow, used, stamp, mixed>>

\* The process dies; its timer, its call and its flow are gone.
Exit(p) ==
    /\ manager[p].status # "off" /\ Change
    /\ manager' = [manager EXCEPT ![p] = NoManager]
    /\ write' = [w \in Writer |->
                    IF w = p \/ p \in write[w].for THEN NoWrite ELSE write[w]]
    /\ flow' = [flow EXCEPT ![p] = NoFlow]
    /\ UNCHANGED <<file, edit, used, stamp, mixed>>

------------------------------------------------------------------------------
(* Commands.  The user may take any time between the load and the edit.    *)

Free(c) == ~edit[c].open /\ write[c].stage = "none"
DiskActive == IF file = NoFile THEN 1 ELSE Clamp(file.rows, file.active)

Load(c) ==
    /\ Free(c) /\ Change
    /\ edit' = [edit EXCEPT ![c] =
          [open |-> TRUE, rows |-> DiskRows(file), active |-> DiskActive]]
    /\ UNCHANGED <<file, manager, write, flow, used, stamp, mixed>>

\* The command saves rows with active as its active position.
Commit(c, rows, active, victim) ==
    /\ edit[c].open
    /\ edit' = [edit EXCEPT ![c] = NoEdit]
    /\ LET storage == [rows |-> rows, active |-> Clamp(rows, active)]
       IN  BeginWrite(c, storage, {}, IdAt(rows, storage.active), victim, {})
    /\ UNCHANGED <<file, manager, flow, mixed, changes>>

\* The user cancels, or the command has nothing to do.
Cancel(c) ==
    /\ edit[c].open
    /\ edit' = [edit EXCEPT ![c] = NoEdit]
    /\ UNCHANGED <<file, manager, write, flow, used, stamp, mixed, changes>>

CmdSwitch(c) ==
    \E i \in Enabled(edit[c].rows) :
        /\ Commit(c, edit[c].rows, i, {})
        /\ UNCHANGED <<used, stamp>>

CmdEnable(c) ==
    \E i \in DOMAIN edit[c].rows \ Enabled(edit[c].rows) :
        /\ Commit(c, [edit[c].rows EXCEPT ![i].enabled = TRUE],
                  edit[c].active, {})
        /\ UNCHANGED <<used, stamp>>

\* Never the last enabled account; the first one left becomes active.
CmdDisable(c) ==
    \E i \in Enabled(edit[c].rows) :
        LET left == Enabled(edit[c].rows) \ {i}
        IN  /\ left # {}
            /\ Commit(c, [edit[c].rows EXCEPT ![i].enabled = FALSE],
                      IF i = edit[c].active THEN FirstOf(left)
                      ELSE edit[c].active,
                      {})
            /\ UNCHANGED <<used, stamp>>

\* cmdRemove, and cmdLogout after it has revoked the token.
CmdRemove(c) ==
    \E i \in DOMAIN edit[c].rows :
        LET rows == RemoveAt(edit[c].rows, i)
            active == edit[c].active
        IN  /\ Commit(c, rows,
                      IF active > i /\ active <= Len(rows) THEN active - 1
                      ELSE active,
                      {edit[c].rows[i].id})
            /\ UNCHANGED <<used, stamp>>

CmdLogoutAll(c) ==
    /\ edit[c].rows # <<>>
    /\ Commit(c, <<>>, 1, Ids(edit[c].rows))
    /\ UNCHANGED <<used, stamp>>

\* cmdReset, cmdResetStats: the rows are saved as they were loaded.
CmdReset(c) ==
    /\ edit[c].rows # <<>>
    /\ Commit(c, edit[c].rows, edit[c].active, {})
    /\ UNCHANGED <<used, stamp>>

\* cmdLogin: the account that the identity names in the rows loaded before
\* the browser opened gets the credentials, or a new row has them.
CmdLogin(c) ==
    \E who \in Logins :
        LET rows == edit[c].rows
            known == OfAccount(rows, who)
            i == FirstOf(known)
        IN  \/ /\ known # {}
               /\ Commit(c, [rows EXCEPT ![i] = Reauthenticated(@, who)],
                         edit[c].active, {})
               /\ UNCHANGED used /\ NewLogin
            \/ /\ known = {} /\ Id \ used # {}
               /\ Commit(c, Append(rows, NewRow(who)), edit[c].active, {})
               /\ used' = used \cup {NewId} /\ NewLogin

\* cmdReauth: the account at a position of what was loaded; the user logs in
\* to the account that is shown there.  cmdRefresh gets the token without the
\* browser.
CmdReauth(c) ==
    \E i \in DOMAIN edit[c].rows :
        /\ Commit(c, [edit[c].rows EXCEPT
                        ![i] = Reauthenticated(@, edit[c].rows[i].who)],
                  edit[c].active, {})
        /\ UNCHANGED used /\ NewLogin

------------------------------------------------------------------------------
(* Slash commands of a running process, saved in slot c.                   *)

\* The payload is read, changed and saved without a pause in between.
SlashSave(p, c, rows) ==
    /\ Idle(p) /\ Free(c) /\ NewLogin
    /\ LET storage == [rows |-> rows, active |-> DiskActive]
       IN  BeginWrite(c, storage, {}, IdAt(rows, DiskActive), {}, {p})
    /\ UNCHANGED <<file, manager, edit>>

\* completeSlashOAuth of a login: no row has the new refresh token, so the
\* credentials always get a row of their own.
SlashLogin(p, c) ==
    /\ Id \ used # {} /\ Change
    /\ \E who \in Logins :
          /\ SlashSave(p, c, Append(DiskRows(file), NewRow(who)))
          /\ mixed' = IF OfAccount(DiskRows(file), who) = {} THEN mixed
                      ELSE mixed \cup {"doubled"}
    /\ used' = used \cup {NewId}
    /\ UNCHANGED flow

\* startSlashOAuth of a reauth: the flow remembers the position.
StartReauth(p) ==
    /\ Idle(p) /\ Change
    /\ \E i \in DOMAIN DiskRows(file) :
          flow' = [flow EXCEPT ![p] =
                      [target |-> i, who |-> {file.rows[i].who}]]
    /\ UNCHANGED <<file, manager, write, edit, used, stamp, mixed>>

\* Its time is over, or the pasted state is another flow's.
DropFlow(p) ==
    /\ flow[p] # NoFlow
    /\ flow' = [flow EXCEPT ![p] = NoFlow]
    /\ UNCHANGED <<file, manager, write, edit, used, stamp, mixed, changes>>

\* completeSlashOAuth of a reauth: the row that is at the position by now
\* gets the credentials.  The flow is forgotten here already, not after the
\* save.
CompleteReauth(p, c) ==
    /\ flow[p].target \in DOMAIN DiskRows(file)
    /\ \E who \in flow[p].who :
          LET row == file.rows[flow[p].target]
          IN  /\ SlashSave(p, c, [file.rows EXCEPT
                                   ![flow[p].target] = Reauthenticated(@, who)])
              /\ mixed' = IF row.who = who THEN mixed
                          ELSE mixed \cup {"misdirected"}
    /\ flow' = [flow EXCEPT ![p] = NoFlow]
    /\ UNCHANGED <<used, changes>>

------------------------------------------------------------------------------
(* Next                                                                    *)

PluginStep(p) ==
    \/ Start(p) \/ Reload(p) \/ SaveToDisk(p) \/ Sync(p) \/ Select(p)
    \/ Toggle(p) \/ Login(p) \/ RemoveAccount(p) \/ StartFresh(p) \/ Exit(p)
    \/ StartReauth(p) \/ DropFlow(p)

CommandStep(c) ==
    \/ Load(c) \/ Cancel(c) \/ CmdSwitch(c) \/ CmdEnable(c) \/ CmdDisable(c)
    \/ CmdRemove(c) \/ CmdLogoutAll(c) \/ CmdReset(c)
    \/ CmdLogin(c) \/ CmdReauth(c)
    \/ \E p \in Plugin : SlashLogin(p, c) \/ CompleteReauth(p, c)

Next ==
    \/ \E w \in Writer : MergeWithDisk(w) \/ Rename(w)
    \/ \E p \in Plugin : PluginStep(p)
    \/ \E c \in Command : CommandStep(c)

Spec == Init /\ [][Next]_vars

------------------------------------------------------------------------------
(* Properties                                                              *)

\* However saves, syncs, commands, logins and restarts interleave, no account
\* ever has two rows: not in the file, not in a manager, not in a payload.
\* Two processes that log in to one new account at the same time give it one
\* row, since the merges match rows by identity.  Only the slash commands
\* (src/commands/oauth-flow.ts:132 and :201) can make an exception.
NoDuplicateRows ==
    mixed = {} =>
        /\ Distinct(DiskRows(file))
        /\ \A p \in Plugin : Distinct(manager[p].rows)
        /\ \A w \in Writer : Distinct(write[w].rows)

\* No merge, sync or repair gives an account the token of another one, so
\* that its requests would be made in the other's name.  It takes a reauth at
\* a position where another row is by now (src/commands/oauth-flow.ts:201).
TokensStayWithAccount ==
    LET own(rows) == \A i \in DOMAIN rows :
                        AccountOf[rows[i].token.of] = AccountOf[rows[i].who]
    IN  "misdirected" \notin mixed =>
            /\ own(DiskRows(file))
            /\ \A p \in Plugin : own(manager[p].rows)
            /\ \A w \in Writer : own(write[w].rows)

\* The save of w that this step completes.
Completes(w) ==
    write[w].stage = "rename" /\ write'[w].stage = "none" /\ file' # file

\* An account disappears from the file, or falls back to an older token, only
\* because its writer means to drop the row or to empty the file, or because
\* the writer had not seen the row when it merged.  A misdirected row is
\* another exception: its token can be taken for a match with a wrong account.
RowsLostOnPurpose ==
    [][\A w \in Writer : Completes(w) /\ "misdirected" \notin mixed =>
          \A old \in Range(DiskRows(file)) :
             \/ \E new \in Range(file'.rows) :
                   /\ new.id = old.id \/ new.who = old.who
                   /\ new.token.at >= old.token.at
             \/ old.id \in write[w].dropped
             \/ write[w].rows = <<>>
             \/ ~\E seen \in write[w].seen :
                   seen.id = old.id /\ seen.token = old.token]_vars

\* The rows that the load-time repair has collapsed do not come back through
\* the merges of the save that follows it.
CollapsedRowsStayOut ==
    [][\A p \in Plugin : Completes(p) =>
          write[p].victim \cap Ids(file'.rows) = {}]_vars

\* "activeIndex" is a position, and every merge moves positions: the save
\* still leaves as active the account its writer had as active.
ActiveAccountSurvivesMerge ==
    [][\A w \in Writer : Completes(w) /\ mixed = {} =>
          write[w].wanted \subseteq IdAt(file'.rows, file'.active)]_vars

\* After a sync the current account is an enabled one, if there is any.
SyncLeavesUsableAccount ==
    [][\A p \in Plugin :
          Sync(p) /\ mixed = {} /\ Enabled(manager'[p].rows) # {} =>
             manager'[p].current \in Enabled(manager'[p].rows)]_vars

\* "Remove an account permanently." (src/cli/commands/auth.ts:875): the file
\* a remove command leaves does not have the account any more.
RemoveRemoves ==
    [][\A c \in Command : Completes(c) =>
          write[c].victim \cap Ids(file'.rows) = {}]_vars

==============================================================================
