------------------------------ MODULE AccountFile ------------------------------
(***************************************************************************)
(* The operators that combine the rows a process has in memory with the    *)
(* rows of the accounts file: findStoredAccountMatch and                   *)
(* unionAccountsWithDisk (src/storage.ts), prepareStorageForSave and       *)
(* reconcileManagedAccountsWithStorage (src/accounts/persistence.ts).      *)
(*                                                                         *)
(* A row has an id, the account its identity names, a refresh token and    *)
(* its enabled flag.  A token says whose it is and when it came            *)
(* (token_updated_at); no two tokens have both in common.  addedAt goes    *)
(* with the id.  Positions count from 1, and position 0 stands for the     *)
(* code's currentIndex -1.                                                 *)
(***************************************************************************)
EXTENDS Positions

CONSTANTS
    Id,      \* the ids of rows
    Person,  \* the accounts that identities name
    NoFile

Token == [of: Person, at: Nat]
Row == [id: Id, who: Person, token: Token, enabled: BOOLEAN]

Ids(rows) == {rows[i].id : i \in DOMAIN rows}
Enabled(rows) == {i \in DOMAIN rows : rows[i].enabled}

\* Every row is of another account.
Distinct(rows) ==
    \A i, j \in DOMAIN rows :
        i # j => rows[i].id # rows[j].id /\ rows[i].who # rows[j].who

\* The id at a position as a set of at most one id: accounts[i]?.id.
IdAt(rows, i) == IF i \in DOMAIN rows THEN {rows[i].id} ELSE {}

DiskRows(disk) == IF disk = NoFile THEN <<>> ELSE disk.rows

\* What reading the file may make of rows: deduplicateByRefreshToken keeps
\* one row for a token, at the first place, with the content used last.
Deduplicated(rows) ==
    LET twins(i) == {j \in DOMAIN rows : rows[j].token = rows[i].token}
        firsts == {i \in DOMAIN rows : i = FirstOf(twins(i))}
    IN  IF firsts = DOMAIN rows THEN {rows}
        ELSE {ElementsAt([i \in DOMAIN rows |-> rows[pick[i]]], firsts) :
                 pick \in {f \in [DOMAIN rows -> DOMAIN rows] :
                              \A i \in DOMAIN rows : f[i] \in twins(i)}}

\* clampActiveIndex.
Clamp(rows, i) ==
    CASE rows = <<>> \/ i < 1 -> 1
      [] i > Len(rows)        -> Len(rows)
      [] OTHER                -> i

\* The position of the account with an id of wanted, or else i clamped.
Locate(rows, wanted, i) ==
    IF wanted \subseteq Ids(rows) /\ wanted # {}
    THEN FirstOf({k \in DOMAIN rows : rows[k].id \in wanted})
    ELSE Clamp(rows, i)

\* Mutant: the identity is not looked at.
Find_NoIdentity(rows, row) ==
    LET byId == {k \in DOMAIN rows : rows[k].id = row.id}
        byToken == {k \in DOMAIN rows : rows[k].token = row.token}
    IN  CASE byId # {}                   -> FirstOf(byId)
          [] byId = {} /\ byToken # {}   -> FirstOf(byToken)
          [] OTHER                       -> 0

\* findStoredAccountMatch, findMatchingDiskAccount and
\* findMatchingManagedAccount: the position of the row that stands for the
\* same account, or 0.  The id comes first, then the identity, then the token.
Find(rows, row) ==
    LET byId == {k \in DOMAIN rows : rows[k].id = row.id}
        byWho == {k \in DOMAIN rows : rows[k].who = row.who}
        byToken == {k \in DOMAIN rows : rows[k].token = row.token}
    IN  CASE byId # {}                                -> FirstOf(byId)
          [] byId = {} /\ byWho # {}                  -> FirstOf(byWho)
          [] byId \cup byWho = {} /\ byToken # {}     -> FirstOf(byToken)
          [] OTHER                                    -> 0

\* mergeAccountWithFresherAuth, applyFreshestAuth: the token of the matching
\* row of the file, if it is the newer one.  The identity is not taken over.
Freshest(row, disk) ==
    LET k == Find(DiskRows(disk), row)
    IN  IF k # 0 /\ disk.rows[k].token.at > row.token.at
        THEN [row EXCEPT !.token = disk.rows[k].token]
        ELSE row

FreshestRows(rows, disk) == [i \in DOMAIN rows |-> Freshest(rows[i], disk)]

\* The rows of the file that belong to other writers: no row of the payload
\* matches them and they were not dropped.
Foreign(rows, dropped, disk) ==
    LET matched == {Find(DiskRows(disk), rows[i]) : i \in DOMAIN rows}
    IN  ElementsAt(DiskRows(disk),
               {k \in DOMAIN DiskRows(disk) : /\ k \notin matched
                                             /\ disk.rows[k].id \notin dropped})

\* Mutant: the payload's tokens are written whatever the file has.
Union_KeepsOwnTokens(rows, active, dropped, disk) ==
    LET all == rows \o Foreign(rows, dropped, disk)
    IN  [rows |-> all, active |-> Locate(all, IdAt(rows, active), active)]

\* Mutant: droppedIds is ignored.
Union_IgnoresDropped(rows, active, dropped, disk) ==
    LET all == FreshestRows(rows, disk) \o Foreign(rows, {}, disk)
    IN  [rows |-> all, active |-> Locate(all, IdAt(rows, active), active)]

\* Mutant: the rows of the file come first and the index stays.
Union_ForeignFirst(rows, active, dropped, disk) ==
    LET all == Foreign(rows, dropped, disk) \o FreshestRows(rows, disk)
    IN  [rows |-> all, active |-> Clamp(all, active)]

\* Mutant: a payload row takes the token of the row at its place.
Union_TokensByPlace(rows, active, dropped, disk) ==
    LET own == [i \in DOMAIN rows |->
                   IF i \in DOMAIN DiskRows(disk)
                   THEN [rows[i] EXCEPT !.token = disk.rows[i].token]
                   ELSE rows[i]]
        all == own \o Foreign(rows, dropped, disk)
    IN  [rows |-> all, active |-> Locate(all, IdAt(rows, active), active)]

\* unionAccountsWithDisk.
Union(rows, active, dropped, disk) ==
    IF disk = NoFile \/ rows = <<>>
    THEN [rows |-> rows, active |-> Clamp(rows, active)]
    ELSE LET all == FreshestRows(rows, disk) \o Foreign(rows, dropped, disk)
         IN  [rows |-> all, active |-> Locate(all, IdAt(rows, active), active)]

\* prepareStorageForSave: a disabled account that is not in the file is left
\* out, and nothing at all is written when no account remains.
Prepare(accounts, current, dropped, disk) ==
    LET kept == ElementsAt(accounts,
                    {i \in DOMAIN accounts : \/ accounts[i].enabled
                                            \/ Find(DiskRows(disk), accounts[i]) # 0})
        all == IF kept = <<>> THEN kept
               ELSE FreshestRows(kept, disk) \o Foreign(kept, dropped, disk)
    IN  [rows |-> all,
         active |-> Locate(all, IdAt(accounts, current), current)]

\* A row of the file in reconcileManagedAccountsWithStorage: the matching
\* account of memory, brought up to date, or a new one.  Entries with one id
\* are one object: a row that finds an account already taken changes both.
TakeRow(done, row) ==
    LET k == Find(done.memory, row)
        Update(rows, id) ==
            [i \in DOMAIN rows |-> IF rows[i].id = id THEN row ELSE rows[i]]
        id == done.memory[k].id
    IN  IF k = 0 THEN [done EXCEPT !.out = Append(@, row)]
        ELSE [memory |-> Update(done.memory, id),
              out |-> Append(Update(done.out, id), row)]

\* The accounts of reconcileManagedAccountsWithStorage: one for every row of
\* the file, then what only memory has, disabled.
Taken(accounts, rows) ==
    LET upTo[n \in 0 .. Len(rows)] ==
            IF n = 0 THEN [memory |-> accounts, out |-> <<>>]
            ELSE TakeRow(upTo[n - 1], rows[n])
    IN  upTo[Len(rows)]

Reconciled(accounts, disk) ==
    LET end == Taken(accounts, disk.rows)
        orphans == ElementsAt(end.memory, {i \in DOMAIN end.memory :
                                          end.memory[i].id \notin Ids(end.out)})
    IN  end.out \o [i \in DOMAIN orphans |->
                       [orphans[i] EXCEPT !.enabled = FALSE]]

\* Mutant: the fallback for a disabled active account is missing.
ReconciledCurrent_NoFallback(rows, current, disk) ==
    LET active == Clamp(disk.rows, disk.active)
    IN  IF Enabled(rows) = {} THEN 0
        ELSE IF active \in Enabled(disk.rows)
             THEN Find(rows, disk.rows[active]) ELSE current

\* Its currentIndex: the file's active account if it is enabled, else what
\* memory has at that position if that is enabled, else the first enabled.
\* An account's index is the last place it was put at.
ReconciledCurrent(rows, current, disk) ==
    LET active == Clamp(disk.rows, disk.active)
        index(i) == LastOf({j \in DOMAIN rows : rows[j].id = rows[i].id})
        target == index(Find(rows, disk.rows[active]))
        usable == active \in Enabled(disk.rows)
    IN  CASE Enabled(rows) = {}                      -> 0
          [] usable /\ rows[target].enabled          -> target
          [] usable /\ ~rows[target].enabled         -> current
          [] ~usable /\ current \in Enabled(rows)    -> current
          [] OTHER                                   -> index(FirstOf(Enabled(rows)))

==============================================================================
