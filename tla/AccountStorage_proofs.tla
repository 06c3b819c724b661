-------------------------- MODULE AccountStorage_proofs --------------------------
(***************************************************************************)
(* What holds of the accounts file and of its writers for any number of    *)
(* processes, commands, accounts and changes.                              *)
(*                                                                         *)
(* The argument goes by the rows.  Every list of rows that a step leaves   *)
(* is made from a list that was there, by one of a few operators, with at  *)
(* most one new row (MadeFrom, StepMakes).  So a set of rows that is       *)
(* closed under what these operators do to a row holds all the rows there  *)
(* will be, and what such a set has in common is an invariant.             *)
(***************************************************************************)
EXTENDS AccountStorage, AccountFile_proofs

------------------------------------------------------------------------------
(* The lists and the rows of a state                                       *)

AllLists ==
    {DiskRows(file)} \cup {manager[p].rows : p \in Plugin}
        \cup {write[w].rows : w \in Writer} \cup {edit[c].rows : c \in Command}

AllSeen == UNION {write[w].seen : w \in Writer}
AllRows == AllSeen \cup (UNION {RowSet(rows) : rows \in AllLists})

\* The variables are functions of records, whatever is in the fields.
IsManager(m) ==
    m = [status |-> m.status, rows |-> m.rows, current |-> m.current,
         dropped |-> m.dropped, pending |-> m.pending, stale |-> m.stale]
IsWrite(c) ==
    c = [stage |-> c.stage, rows |-> c.rows, active |-> c.active,
         dropped |-> c.dropped, wanted |-> c.wanted, seen |-> c.seen,
         victim |-> c.victim, for |-> c.for]
Shaped ==
    /\ manager = [p \in Plugin |-> manager[p]]
    /\ \A p \in Plugin : IsManager(manager[p])
    /\ write = [w \in Writer |-> write[w]]
    /\ \A w \in Writer : IsWrite(write[w])
    /\ edit = [c \in Command |-> edit[c]]
    /\ flow = [p \in Plugin |-> flow[p]]

\* Rows have ids that were given out and tokens that have been issued.
Typed ==
    /\ stamp \in Nat /\ used \subseteq Id
    /\ \A rows \in AllLists : rows \in Seq(Row)
    /\ \A row \in AllRows :
           row \in Row /\ row.id \in used /\ row.token.at <= stamp
    /\ \A p \in Plugin : flow[p].who \subseteq Person

LEMMA ListsIs ==
    /\ DiskRows(file) \in AllLists
    /\ \A p \in Plugin : manager[p].rows \in AllLists
    /\ \A w \in Writer : write[w].rows \in AllLists
    /\ \A c \in Command : edit[c].rows \in AllLists
    /\ \A rows \in AllLists : \A i \in DOMAIN rows : rows[i] \in AllRows
    /\ \A w \in Writer : write[w].seen \subseteq AllRows
<1>1. /\ DiskRows(file) \in AllLists
      /\ \A p \in Plugin : manager[p].rows \in AllLists
      /\ \A w \in Writer : write[w].rows \in AllLists
      /\ \A c \in Command : edit[c].rows \in AllLists
  BY DEF AllLists
<1>2. ASSUME NEW rows \in AllLists, NEW i \in DOMAIN rows PROVE rows[i] \in AllRows
  <2>1. rows[i] \in RowSet(rows)
    BY DEF RowSet
  <2>2. RowSet(rows) \in {RowSet(list) : list \in AllLists}
    OBVIOUS
  <2>3. rows[i] \in UNION {RowSet(list) : list \in AllLists}
    BY <2>1, <2>2, Zenon
  <2> QED
    BY <2>3 DEF AllRows
<1>3. ASSUME NEW w \in Writer PROVE write[w].seen \subseteq AllRows
  <2>1. write[w].seen \subseteq AllSeen
    BY DEF AllSeen
  <2> QED
    BY <2>1 DEF AllRows
<1> QED
  BY <1>1, <1>2, <1>3

\* How the lists and the rows of the next state are told.
LEMMA NextListsAre ==
    ASSUME NEW L, DiskRows(file)' \in L,
           \A p \in Plugin : manager'[p].rows \in L,
           \A w \in Writer : write'[w].rows \in L,
           \A c \in Command : edit'[c].rows \in L
    PROVE  AllLists' \subseteq L
BY DEF AllLists

------------------------------------------------------------------------------
(* What a step makes                                                       *)

\* The new rows of a step: none, or that of one login.
Newcomers(N) ==
    \/ N = {}
    \/ \E who \in Logins :
          /\ N = {NewRow(who)} /\ Id \ used # {}
          /\ used' = used \cup {NewId} /\ stamp' = stamp + 1

\* A row that is switched on or off, or that gets the credentials of its own
\* account: the slash commands remember when it was another's.
Edited(old, new) ==
    \/ \E on \in BOOLEAN : new = [old EXCEPT !.enabled = on]
    \/ /\ stamp' = stamp + 1
       /\ \E who \in Person : /\ new = Reauthenticated(old, who)
                              /\ who = old.who \/ "misdirected" \in mixed'

\* The new row is of an account that has none there: the slash commands
\* remember the exception.
Appended(new, rows, row) ==
    /\ new = Append(rows, row)
    /\ \/ "doubled" \in mixed'
       \/ \A i \in DOMAIN rows : rows[i].who # row.who

MadeFrom(new, rows, N) ==
    \/ new = <<>> \/ new = rows
    \/ \E dropped : new = Merged(rows, dropped, file)
    \/ \E S, dropped : /\ S \subseteq DOMAIN rows
                       /\ new = Merged(ElementsAt(rows, S), dropped, file)
    \/ new = FreshestRows(rows, file)
    \/ new \in Deduplicated(rows)
    \/ new = Collapse(rows)
    \/ file # NoFile /\ new = Reconciled(rows, file)
    \/ \E i \in DOMAIN rows : new = RemoveAt(rows, i)
    \/ \E i \in DOMAIN rows : \E row :
           /\ Edited(rows[i], row)
           /\ new = Put(rows, i, row) \/ new = [rows EXCEPT ![i] = row]
    \/ \E row \in N : Appended(new, rows, row)

\* Every list is made from an earlier one; nobody sees other rows than those
\* that are there; ids, time and mixed only grow.
Makes(N) ==
    /\ Newcomers(N)
    /\ used \subseteq used' /\ used' \subseteq Id
    /\ stamp' \in {stamp, stamp + 1}
    /\ mixed \subseteq mixed'
    /\ \A new \in AllLists' : \E rows \in AllLists : MadeFrom(new, rows, N)
    /\ AllSeen' \subseteq AllRows
    /\ \A p \in Plugin : flow'[p].who \subseteq Person

\* A step that leaves lists as they are, empties some, and has one new list.
LEMMA OneList ==
    ASSUME Typed, NEW N, Newcomers(N), NEW new,
           NEW rows \in AllLists, MadeFrom(new, rows, N),
           AllLists' \subseteq AllLists \cup {new, <<>>},
           AllSeen' \subseteq AllRows,
           used \subseteq used', used' \subseteq Id, stamp' \in {stamp, stamp + 1},
           mixed \subseteq mixed', \A p \in Plugin : flow'[p].who \subseteq Person
    PROVE  Makes(N)
<1>1. \A list \in AllLists : MadeFrom(list, list, N)
  BY DEF MadeFrom
<1>2. MadeFrom(<<>>, rows, N)
  BY DEF MadeFrom
<1> HIDE DEF MadeFrom
<1>3. \A list \in AllLists' : \E from \in AllLists : MadeFrom(list, from, N)
  BY <1>1, <1>2
<1> QED
  BY <1>3 DEF Makes

\* The frame of a step that only works on lists.
Quiet == UNCHANGED <<used, stamp, mixed>>

LEMMA QuietList ==
    ASSUME Typed, Quiet, flow' = flow, NEW new, NEW rows \in AllLists,
           MadeFrom(new, rows, {}), AllLists' \subseteq AllLists \cup {new, <<>>},
           AllSeen' \subseteq AllRows
    PROVE  Makes({})
<1>1. Newcomers({})
  BY DEF Newcomers
<1>2. /\ used \subseteq used' /\ used' \subseteq Id
      /\ stamp' \in {stamp, stamp + 1} /\ mixed \subseteq mixed'
      /\ \A p \in Plugin : flow'[p].who \subseteq Person
  BY DEF Quiet, Typed
<1> QED
  BY <1>1, <1>2, OneList

\* What Set and BeginWrite change.
LEMMA SetIs ==
    ASSUME Shaped, NEW p \in Plugin, NEW rows, NEW current, NEW pending,
           Set(p, rows, current, pending)
    PROVE  /\ manager' = [q \in Plugin |-> manager'[q]]
           /\ \A q \in Plugin : IsManager(manager'[q])
           /\ \A q \in Plugin : q # p => manager'[q] = manager[q]
           /\ manager'[p].rows = rows /\ manager'[p].current = current
           /\ manager'[p].dropped = manager[p].dropped
<1>1. manager'[p] = [manager[p] EXCEPT !.rows = rows, !.current = current,
                                       !.pending = @ \/ pending]
  BY DEF Set, Shaped
<1>2. IsManager(manager[p])
  BY DEF Shaped
<1>3. /\ manager'[p].rows = rows /\ manager'[p].current = current
      /\ manager'[p].dropped = manager[p].dropped
      /\ IsManager(manager'[p])
  BY <1>1, <1>2 DEF IsManager
<1>4. /\ manager' = [q \in Plugin |-> manager'[q]]
      /\ \A q \in Plugin : q # p => manager'[q] = manager[q]
  BY DEF Set, Shaped
<1> QED
  BY <1>3, <1>4 DEF Shaped

LEMMA BeginWriteIs ==
    ASSUME Shaped, NEW w \in Writer, NEW storage, NEW dropped, NEW wanted,
           NEW victim, NEW for,
           BeginWrite(w, storage, dropped, wanted, victim, for)
    PROVE  /\ write' = [v \in Writer |-> write'[v]]
           /\ \A v \in Writer : IsWrite(write'[v])
           /\ \A v \in Writer : v # w => write'[v] = write[v]
           /\ write'[w] = [stage |-> "merge", rows |-> storage.rows,
                           active |-> storage.active, dropped |-> dropped,
                           wanted |-> wanted \cap Ids(storage.rows),
                           seen |-> {}, victim |-> victim, for |-> for]
<1> DEFINE new == [stage |-> "merge", rows |-> storage.rows,
                   active |-> storage.active, dropped |-> dropped,
                   wanted |-> wanted \cap Ids(storage.rows),
                   seen |-> {}, victim |-> victim, for |-> for]
<1>1. IsWrite(new)
  BY DEF IsWrite
<1>2. write' = [write EXCEPT ![w] = new]
  BY DEF BeginWrite
<1> HIDE DEF new
<1>3. /\ write' = [v \in Writer |-> write'[v]]
      /\ \A v \in Writer : v # w => write'[v] = write[v]
      /\ write'[w] = new
  BY <1>2 DEF Shaped
<1> QED
  BY <1>1, <1>3 DEF Shaped, new

\* The lists of a state in which one list differs.
LEMMA ListsOfSet ==
    ASSUME Shaped, NEW p \in Plugin, NEW rows, NEW current, NEW pending,
           Set(p, rows, current, pending), UNCHANGED <<write, edit, flow>>,
           file' \in {file, NoFile}
    PROVE  /\ Shaped'
           /\ AllLists' \subseteq AllLists \cup {rows, <<>>}
           /\ AllSeen' \subseteq AllRows
<1>1. /\ manager' = [q \in Plugin |-> manager'[q]]
      /\ \A q \in Plugin : IsManager(manager'[q])
      /\ \A q \in Plugin : manager'[q].rows \in AllLists \cup {rows}
  BY SetIs, ListsIs
<1>2. DiskRows(file)' \in AllLists \cup {rows, <<>>}
  <2>1. DiskRows(file)' \in {DiskRows(file), <<>>}
    BY DEF DiskRows
  <2> QED
    BY <2>1, ListsIs
<1>3. AllLists' \subseteq AllLists \cup {rows, <<>>}
  <2>1. /\ \A w \in Writer : write'[w].rows \in AllLists
        /\ \A c \in Command : edit'[c].rows \in AllLists
    BY ListsIs
  <2> QED
    BY <1>1, <1>2, <2>1, NextListsAre
<1>4. AllSeen' \subseteq AllRows
  <2>1. AllSeen' = AllSeen
    BY DEF AllSeen
  <2> QED
    BY <2>1 DEF AllRows
<1>5. Shaped'
  BY <1>1 DEF Shaped
<1> QED
  BY <1>3, <1>4, <1>5

LEMMA ListsOfBegin ==
    ASSUME Shaped, NEW w \in Writer, NEW storage, NEW dropped, NEW wanted,
           NEW victim, NEW for,
           BeginWrite(w, storage, dropped, wanted, victim, for),
           UNCHANGED <<file, manager>>, flow' = [p \in Plugin |-> flow'[p]],
           edit' = [c \in Command |-> edit'[c]],
           \A c \in Command : edit'[c].rows \in {edit[c].rows, <<>>}
    PROVE  /\ Shaped'
           /\ AllLists' \subseteq AllLists \cup {storage.rows, <<>>}
           /\ AllSeen' \subseteq AllRows
<1>1. /\ write' = [v \in Writer |-> write'[v]]
      /\ \A v \in Writer : IsWrite(write'[v])
      /\ \A v \in Writer : v # w => write'[v] = write[v]
      /\ write'[w].rows = storage.rows /\ write'[w].seen = {}
  <2>1. /\ write' = [v \in Writer |-> write'[v]]
        /\ \A v \in Writer : IsWrite(write'[v])
        /\ \A v \in Writer : v # w => write'[v] = write[v]
        /\ write'[w] = [stage |-> "merge", rows |-> storage.rows,
                           active |-> storage.active, dropped |-> dropped,
                           wanted |-> wanted \cap Ids(storage.rows),
                           seen |-> {}, victim |-> victim, for |-> for]
    BY BeginWriteIs
  <2> QED
    BY <2>1
<1>2. /\ DiskRows(file)' \in AllLists
      /\ \A p \in Plugin : manager'[p].rows \in AllLists
      /\ \A v \in Writer : write'[v].rows \in AllLists \cup {storage.rows}
      /\ \A c \in Command : edit'[c].rows \in AllLists \cup {<<>>}
  BY <1>1, ListsIs DEF DiskRows
<1>3. AllLists' \subseteq AllLists \cup {storage.rows, <<>>}
  <2> DEFINE L == AllLists \cup {storage.rows, <<>>}
  <2>1. /\ DiskRows(file)' \in L
        /\ \A p \in Plugin : manager'[p].rows \in L
        /\ \A v \in Writer : write'[v].rows \in L
        /\ \A c \in Command : edit'[c].rows \in L
    BY <1>2
  <2> HIDE DEF L
  <2>2. AllLists' \subseteq L
    BY <2>1, NextListsAre
  <2> QED
    BY <2>2 DEF L
<1>4. \A v \in Writer : write'[v].seen \subseteq AllRows
  BY <1>1, ListsIs
<1>5. AllSeen' \subseteq AllRows
  BY <1>4 DEF AllSeen
<1>6. Shaped'
  BY <1>1 DEF Shaped
<1> QED
  BY <1>3, <1>5, <1>6

------------------------------------------------------------------------------
(* saveAccounts                                                            *)

LEMMA MergeIs ==
    ASSUME Shaped, Typed, NEW w \in Writer, MergeWithDisk(w)
    PROVE  LET new == Union(write[w].rows, write[w].active, write[w].dropped, file)
           IN  /\ write' = [v \in Writer |-> write'[v]]
               /\ \A v \in Writer : v # w => write'[v] = write[v]
               /\ write'[w] = [write[w] EXCEPT !.stage = "rename",
                                  !.rows = new.rows, !.active = new.active,
                                  !.seen = RowSet(DiskRows(file))]
               /\ IsWrite(write'[w])
<1> DEFINE new == Union(write[w].rows, write[w].active, write[w].dropped, file)
<1>1. Range(DiskRows(file)) = RowSet(DiskRows(file))
  BY DEF Range, RowSet
<1>2. write' = [write EXCEPT ![w].stage = "rename", ![w].rows = new.rows,
                             ![w].active = new.active,
                             ![w].seen = RowSet(DiskRows(file))]
  BY <1>1 DEF MergeWithDisk
<1> HIDE DEF new
<1>3. /\ write' = [v \in Writer |-> write'[v]]
      /\ \A v \in Writer : v # w => write'[v] = write[v]
      /\ write'[w] = [write[w] EXCEPT !.stage = "rename",
                          !.rows = new.rows, !.active = new.active,
                          !.seen = RowSet(DiskRows(file))]
  BY <1>2 DEF Shaped
<1>4. IsWrite(write'[w])
  BY <1>3 DEF Shaped, IsWrite
<1> QED
  BY <1>3, <1>4 DEF new

LEMMA MergeMakes ==
    ASSUME Shaped, Typed, NEW w \in Writer, MergeWithDisk(w)
    PROVE  Shaped' /\ Makes({})
<1> DEFINE rows == write[w].rows
           new == Union(rows, write[w].active, write[w].dropped, file)
<1>1. /\ write' = [v \in Writer |-> write'[v]]
      /\ \A v \in Writer : v # w => write'[v] = write[v]
      /\ write'[w] = [write[w] EXCEPT !.stage = "rename",
                          !.rows = new.rows, !.active = new.active,
                          !.seen = RowSet(DiskRows(file))]
      /\ IsWrite(write'[w])
  BY MergeIs
<1>2. UNCHANGED <<file, manager, edit, flow, used, stamp, mixed>>
  BY DEF MergeWithDisk
<1>3. \/ new.rows = rows
      \/ new.rows = Merged(rows, write[w].dropped, file)
  <2>1. rows \in Seq(Row) /\ DiskRows(file) \in Seq(Row)
    BY ListsIs DEF Typed
  <2> HIDE DEF rows
  <2> QED
    BY <2>1, UnionIs
<1>4. MadeFrom(new.rows, rows, {})
  BY <1>3 DEF MadeFrom
<1> HIDE DEF new
<1>5. write'[w].rows = new.rows /\ write'[w].seen = RowSet(DiskRows(file))
  BY <1>1 DEF Shaped, IsWrite
<1>6. Shaped'
  BY <1>1, <1>2 DEF Shaped
<1>7. AllLists' \subseteq AllLists \cup {new.rows, <<>>}
  <2> DEFINE L == AllLists \cup {new.rows, <<>>}
  <2>1. /\ DiskRows(file)' \in L
        /\ \A p \in Plugin : manager'[p].rows \in L
        /\ \A v \in Writer : write'[v].rows \in L
        /\ \A c \in Command : edit'[c].rows \in L
    BY <1>1, <1>2, <1>5, ListsIs DEF DiskRows
  <2> HIDE DEF L
  <2>2. AllLists' \subseteq L
    BY <2>1, NextListsAre
  <2> QED
    BY <2>2 DEF L
<1>8. AllSeen' \subseteq AllRows
  <2>1. RowSet(DiskRows(file)) \subseteq AllRows
    BY ListsIs DEF RowSet
  <2>2. \A v \in Writer : write'[v].seen \subseteq AllRows
    BY <1>1, <1>5, <2>1, ListsIs
  <2> QED
    BY <2>2 DEF AllSeen
<1>9. rows \in AllLists
  BY ListsIs
<1> HIDE DEF rows
<1> QED
  BY <1>2, <1>4, <1>6, <1>7, <1>8, <1>9, QuietList DEF Quiet

LEMMA RenameIs ==
    ASSUME Shaped, NEW w \in Writer, Rename(w)
    PROVE  /\ Shaped'
           /\ file' = [rows |-> file'.rows, active |-> write[w].active]
           /\ file'.rows \in Deduplicated(write[w].rows)
           /\ write'[w] = NoWrite
           /\ \A v \in Writer : v # w => write'[v] = write[v]
           /\ \A p \in Plugin : /\ manager'[p].rows = manager[p].rows
                                /\ manager'[p].current = manager[p].current
<1>1. PICK rows \in Deduplicated(write[w].rows) :
          file' = [rows |-> rows, active |-> write[w].active]
  BY DEF Rename
<1>2. write' = [write EXCEPT ![w] = NoWrite] /\ UNCHANGED <<edit, flow>>
  BY DEF Rename
<1>3. /\ write' = [v \in Writer |-> write'[v]] /\ write'[w] = NoWrite
      /\ \A v \in Writer : v # w => write'[v] = write[v]
  BY <1>2 DEF Shaped
<1>4. IsWrite(NoWrite)
  BY DEF IsWrite, NoWrite
<1>5. \A v \in Writer : IsWrite(write'[v])
  BY <1>3, <1>4 DEF Shaped
<1>6. /\ manager' = [p \in Plugin |-> manager'[p]]
      /\ \A p \in Plugin :
             manager'[p] = [manager[p] EXCEPT
                 !.dropped = IF p = w THEN {} ELSE @,
                 !.status = IF p = w THEN "on" ELSE @,
                 !.stale = @ \/ p \in write[w].for]
  BY DEF Rename
<1>7. \A p \in Plugin : /\ IsManager(manager'[p])
                        /\ manager'[p].rows = manager[p].rows
                        /\ manager'[p].current = manager[p].current
  <2> TAKE p \in Plugin
  <2> DEFINE dropped == IF p = w THEN {} ELSE manager[p].dropped
             status == IF p = w THEN "on" ELSE manager[p].status
             stale == manager[p].stale \/ p \in write[w].for
  <2>1. manager'[p] = [manager[p] EXCEPT !.dropped = dropped,
                                         !.status = status, !.stale = stale]
    BY <1>6
  <2>2. IsManager(manager[p])
    BY DEF Shaped
  <2> HIDE DEF dropped, status, stale
  <2> QED
    BY <2>1, <2>2 DEF IsManager
<1>8. Shaped'
  BY <1>2, <1>3, <1>5, <1>6, <1>7 DEF Shaped
<1> QED
  BY <1>1, <1>3, <1>7, <1>8

LEMMA RenameMakes ==
    ASSUME Shaped, Typed, NEW w \in Writer, Rename(w)
    PROVE  Shaped' /\ Makes({})
<1> DEFINE new == file'.rows
           rows == write[w].rows
<1>1. /\ Shaped' /\ file' = [rows |-> new, active |-> write[w].active]
      /\ new \in Deduplicated(rows)
      /\ write'[w] = NoWrite
      /\ \A v \in Writer : v # w => write'[v] = write[v]
      /\ \A p \in Plugin : manager'[p].rows = manager[p].rows
  BY RenameIs
<1>2. UNCHANGED <<edit, flow, used, stamp, mixed>>
  BY DEF Rename
<1>3. rows \in AllLists
  BY ListsIs
<1> HIDE DEF rows, new
<1>4. MadeFrom(new, rows, {})
  BY <1>1 DEF MadeFrom
<1>5. AllLists' \subseteq AllLists \cup {new, <<>>}
  <2> DEFINE L == AllLists \cup {new, <<>>}
  <2>1. DiskRows(file)' \in {new, <<>>}
    BY <1>1 DEF DiskRows
  <2>2. \A v \in Writer : write'[v].rows \in L
    BY <1>1, ListsIs DEF NoWrite
  <2>3. /\ \A p \in Plugin : manager'[p].rows \in L
        /\ \A c \in Command : edit'[c].rows \in L
    BY <1>1, <1>2, ListsIs
  <2>4. DiskRows(file)' \in L
    BY <2>1
  <2> HIDE DEF L
  <2>5. AllLists' \subseteq L
    BY <2>2, <2>3, <2>4, NextListsAre
  <2> QED
    BY <2>5 DEF L
<1>6. AllSeen' \subseteq AllRows
  <2>1. \A v \in Writer : write'[v].seen \subseteq AllRows
    BY <1>1, ListsIs DEF NoWrite
  <2> QED
    BY <2>1 DEF AllSeen
<1> QED
  BY <1>1, <1>2, <1>3, <1>4, <1>5, <1>6, QuietList DEF Quiet

------------------------------------------------------------------------------
(* AccountManager                                                          *)

LEMMA SetMakes ==
    ASSUME Shaped, Typed, NEW p \in Plugin, NEW new, NEW current, NEW pending,
           Set(p, new, current, pending), Quiet, UNCHANGED <<write, edit, flow>>,
           file' \in {file, NoFile}, NEW rows \in AllLists, MadeFrom(new, rows, {})
    PROVE  Shaped' /\ Makes({})
<1>1. /\ Shaped' /\ AllLists' \subseteq AllLists \cup {new, <<>>}
      /\ AllSeen' \subseteq AllRows
  BY ListsOfSet
<1> QED
  BY <1>1, QuietList

LEMMA LoadedIs ==
    /\ IsManager(Loaded)
    /\ \/ Loaded.rows = <<>> /\ Loaded.dropped = {}
       \/ /\ file # NoFile /\ Loaded.rows = Collapse(DiskRows(file))
          /\ Loaded.dropped = Ids(DiskRows(file)) \ Ids(Loaded.rows)
<1>1. CASE file = NoFile
  <2>1. Loaded = NoManager
    BY <1>1 DEF Loaded
  <2> QED
    BY <2>1 DEF NoManager, IsManager
<1>2. CASE file # NoFile
  <2>1. PICK rows, current, dropped :
            /\ rows = Collapse(DiskRows(file))
            /\ dropped = Ids(DiskRows(file)) \ Ids(rows)
            /\ Loaded = [NoManager EXCEPT !.rows = rows, !.current = current,
                                          !.dropped = dropped]
    BY <1>2, Zenon DEF Loaded, DiskRows
  <2>2. Loaded.rows = rows /\ Loaded.dropped = dropped /\ IsManager(Loaded)
    BY <2>1 DEF NoManager, IsManager
  <2> QED
    BY <1>2, <2>1, <2>2
<1> QED
  BY <1>1, <1>2

\* A process loads its accounts.
LEMMA LoadMakes ==
    ASSUME Shaped, Typed, NEW p \in Plugin, NEW m, IsManager(m),
           m.rows = Loaded.rows, manager' = [manager EXCEPT ![p] = m], Quiet,
           UNCHANGED <<file, write, edit, flow>>
    PROVE  Shaped' /\ Makes({})
<1> DEFINE new == Loaded.rows
           rows == DiskRows(file)
<1>1. rows \in AllLists
  BY ListsIs
<1>2. MadeFrom(new, rows, {})
  BY LoadedIs DEF MadeFrom
<1> HIDE DEF new, rows
<1>3. /\ manager' = [q \in Plugin |-> manager'[q]]
      /\ \A q \in Plugin : q # p => manager'[q] = manager[q]
      /\ manager'[p] = m /\ m.rows = new
  BY DEF Shaped, new
<1>4. Shaped'
  BY <1>3 DEF Shaped
<1>5. AllLists' \subseteq AllLists \cup {new, <<>>}
  <2> DEFINE L == AllLists \cup {new, <<>>}
  <2>1. /\ DiskRows(file)' \in L
        /\ \A q \in Plugin : manager'[q].rows \in L
        /\ \A w \in Writer : write'[w].rows \in L
        /\ \A c \in Command : edit'[c].rows \in L
    BY <1>3, ListsIs DEF DiskRows
  <2> HIDE DEF L
  <2>2. AllLists' \subseteq L
    BY <2>1, NextListsAre
  <2> QED
    BY <2>2 DEF L
<1>6. AllSeen' \subseteq AllRows
  <2>1. AllSeen' = AllSeen
    BY DEF AllSeen
  <2> QED
    BY <2>1 DEF AllRows
<1> QED
  BY <1>1, <1>2, <1>4, <1>5, <1>6, QuietList

LEMMA StartMakes ==
    ASSUME Shaped, Typed, NEW p \in Plugin, Start(p) \/ Reload(p)
    PROVE  Shaped' /\ Makes({})
<1>1. PICK status, pending :
          manager' = [manager EXCEPT ![p] =
              [Loaded EXCEPT !.status = status, !.pending = pending]]
  <2>1. CASE Start(p)
    BY <2>1, Zenon DEF Start
  <2>2. CASE Reload(p)
    <3> DEFINE m == [Loaded EXCEPT !.status = "on"]
    <3>1. m = [Loaded EXCEPT !.status = "on", !.pending = Loaded.pending]
      BY LoadedIs DEF IsManager
    <3>2. manager' = [manager EXCEPT ![p] = m]
      BY <2>2 DEF Reload
    <3> QED
      BY <3>1, <3>2
  <2> QED
    BY <2>1, <2>2
<1>0. PICK m : m = [Loaded EXCEPT !.status = status, !.pending = pending]
  OBVIOUS
<1>2. IsManager(m) /\ m.rows = Loaded.rows
  <2>1. PICK l : l = Loaded /\ IsManager(l)
    BY LoadedIs
  <2>2. m = [l EXCEPT !.status = status, !.pending = pending]
    BY <1>0, <2>1
  <2>3. IsManager(m) /\ m.rows = l.rows
    BY <2>1, <2>2 DEF IsManager
  <2> QED
    BY <2>1, <2>3
<1>3. Quiet /\ UNCHANGED <<file, write, edit, flow>>
  BY DEF Start, Reload, Quiet
<1>4. manager' = [manager EXCEPT ![p] = m]
  BY <1>0, <1>1
<1> QED
  BY <1>2, <1>3, <1>4, LoadMakes

\* The manager takes the newer tokens of the file and prepares a payload.
LEMMA SaveToDiskMakes ==
    ASSUME Shaped, Typed, NEW p \in Plugin, SaveToDisk(p)
    PROVE  Shaped' /\ Makes({})
<1> DEFINE rows == manager[p].rows
           storage == Prepare(rows, manager[p].current, manager[p].dropped, file)
           fresh == FreshestRows(rows, file)
<1>1. p \in Writer
  BY DEF Writer
<1>2. PICK wanted, victim :
          BeginWrite(p, storage, manager[p].dropped, wanted, victim, {})
  BY DEF SaveToDisk
<1>3. /\ manager' = [manager EXCEPT ![p].rows = fresh, ![p].pending = FALSE]
      /\ UNCHANGED <<file, edit, flow, used, stamp, mixed, changes>>
  BY DEF SaveToDisk
<1>4. rows \in Seq(Row) /\ DiskRows(file) \in Seq(Row) /\ rows \in AllLists
  BY ListsIs DEF Typed
<1> HIDE DEF rows
<1>5. MadeFrom(storage.rows, rows, {}) /\ MadeFrom(fresh, rows, {})
  <2>1. \/ storage.rows = <<>>
        \/ \E S : /\ S \subseteq DOMAIN rows
                  /\ storage.rows = Merged(ElementsAt(rows, S), manager[p].dropped, file)
    BY <1>4, PrepareIs
  <2> QED
    BY <2>1 DEF MadeFrom
<1> HIDE DEF storage, fresh
<1>6. /\ write' = [v \in Writer |-> write'[v]]
      /\ \A v \in Writer : IsWrite(write'[v])
      /\ \A v \in Writer : v # p => write'[v] = write[v]
      /\ write'[p].rows = storage.rows /\ write'[p].seen = {}
  <2>1. /\ write' = [v \in Writer |-> write'[v]]
        /\ \A v \in Writer : IsWrite(write'[v])
        /\ \A v \in Writer : v # p => write'[v] = write[v]
        /\ write'[p] = [stage |-> "merge", rows |-> storage.rows,
                        active |-> storage.active, dropped |-> manager[p].dropped,
                        wanted |-> wanted \cap Ids(storage.rows),
                        seen |-> {}, victim |-> victim, for |-> {}]
    BY <1>1, <1>2, BeginWriteIs
  <2> QED
    BY <2>1
<1>7. /\ manager' = [q \in Plugin |-> manager'[q]]
      /\ \A q \in Plugin : q # p => manager'[q] = manager[q]
      /\ manager'[p].rows = fresh /\ IsManager(manager'[p])
  <2>1. manager'[p] = [manager[p] EXCEPT !.rows = fresh, !.pending = FALSE]
    BY <1>3 DEF Shaped
  <2>2. IsManager(manager[p])
    BY DEF Shaped
  <2>3. manager'[p].rows = fresh /\ IsManager(manager'[p])
    BY <2>1, <2>2 DEF IsManager
  <2>4. /\ manager' = [q \in Plugin |-> manager'[q]]
        /\ \A q \in Plugin : q # p => manager'[q] = manager[q]
    BY <1>3 DEF Shaped
  <2> QED
    BY <2>3, <2>4
<1>8. Shaped'
  BY <1>3, <1>6, <1>7 DEF Shaped
<1>9. \A list \in AllLists' : \E from \in AllLists : MadeFrom(list, from, {})
  <2> DEFINE L == AllLists \cup {storage.rows, fresh}
  <2>1. /\ DiskRows(file)' \in L
        /\ \A q \in Plugin : manager'[q].rows \in L
        /\ \A w \in Writer : write'[w].rows \in L
        /\ \A c \in Command : edit'[c].rows \in L
    BY <1>3, <1>6, <1>7, ListsIs DEF DiskRows
  <2> HIDE DEF L
  <2>2. AllLists' \subseteq L
    BY <2>1, NextListsAre
  <2>3. \A list \in AllLists : MadeFrom(list, list, {})
    BY DEF MadeFrom
  <2> HIDE DEF MadeFrom
  <2> QED
    BY <1>4, <1>5, <2>2, <2>3 DEF L
<1>10. AllSeen' \subseteq AllRows
  <2>1. \A v \in Writer : write'[v].seen \subseteq AllRows
    BY <1>6, ListsIs
  <2> QED
    BY <2>1 DEF AllSeen
<1>11. Newcomers({})
  BY DEF Newcomers
<1>12. /\ used \subseteq used' /\ used' \subseteq Id
       /\ stamp' \in {stamp, stamp + 1} /\ mixed \subseteq mixed'
       /\ \A q \in Plugin : flow'[q].who \subseteq Person
  BY <1>3 DEF Typed
<1> QED
  BY <1>8, <1>9, <1>10, <1>11, <1>12 DEF Makes

LEMMA SyncMakes ==
    ASSUME Shaped, Typed, NEW p \in Plugin, Sync(p)
    PROVE  Shaped' /\ Makes({})
<1> DEFINE rows == manager[p].rows
           new == Reconciled(rows, file)
<1>1. MadeFrom(new, rows, {})
  BY DEF MadeFrom, Sync
<1>2. PICK current : Set(p, new, current, FALSE)
  BY DEF Sync
<1>3. Quiet /\ UNCHANGED <<file, write, edit, flow>> /\ rows \in AllLists
  BY ListsIs DEF Sync, Quiet
<1> HIDE DEF rows, new
<1> QED
  BY <1>1, <1>2, <1>3, SetMakes

LEMMA SelectMakes ==
    ASSUME Shaped, Typed, NEW p \in Plugin, Select(p)
    PROVE  Shaped' /\ Makes({})
<1> DEFINE rows == manager[p].rows
<1>1. MadeFrom(rows, rows, {})
  BY DEF MadeFrom
<1>2. PICK current : Set(p, rows, current, TRUE)
  BY DEF Select
<1>3. Quiet /\ UNCHANGED <<file, write, edit, flow>> /\ rows \in AllLists
  BY ListsIs DEF Select, Quiet
<1> HIDE DEF rows
<1> QED
  BY <1>1, <1>2, <1>3, SetMakes

LEMMA EnabledIsBoolean ==
    ASSUME Typed, NEW rows \in AllLists, NEW i \in DOMAIN rows
    PROVE  rows[i] \in Row /\ rows[i].enabled \in BOOLEAN /\ rows[i].who \in Person
<1>1. rows[i] \in Row
  BY ListsIs DEF Typed
<1> QED
  BY <1>1 DEF Row

LEMMA ToggleMakes ==
    ASSUME Shaped, Typed, NEW p \in Plugin, Toggle(p)
    PROVE  Shaped' /\ Makes({})
<1> DEFINE rows == manager[p].rows
<1>1. PICK i \in DOMAIN rows :
          Set(p, Put(rows, i, [rows[i] EXCEPT !.enabled = ~rows[i].enabled]),
              manager[p].current, TRUE)
  BY DEF Toggle
<1>2. rows \in AllLists
  BY ListsIs
<1> DEFINE on == ~rows[i].enabled
           row == [rows[i] EXCEPT !.enabled = on]
           new == Put(rows, i, row)
<1>3. on \in BOOLEAN
  OBVIOUS
<1>4. Edited(rows[i], row)
  BY <1>3 DEF Edited
<1>5. MadeFrom(new, rows, {})
  <2> HIDE DEF row
  <2> QED
    BY <1>4 DEF MadeFrom
<1>6. Quiet /\ UNCHANGED <<file, write, edit, flow>>
  BY DEF Toggle, Quiet
<1>7. Set(p, new, manager[p].current, TRUE)
  BY <1>1
<1> HIDE DEF rows, new
<1> QED
  BY <1>2, <1>5, <1>6, <1>7, SetMakes

LEMMA RemoveAccountMakes ==
    ASSUME Shaped, Typed, NEW p \in Plugin, RemoveAccount(p)
    PROVE  Shaped' /\ Makes({})
<1> DEFINE rows == manager[p].rows
<1>1. PICK i \in DOMAIN rows : \E current : Set(p, RemoveAt(rows, i), current, TRUE)
  BY DEF RemoveAccount
<1> DEFINE new == RemoveAt(rows, i)
<1>2. MadeFrom(new, rows, {})
  BY DEF MadeFrom
<1>3. Quiet /\ UNCHANGED <<file, write, edit, flow>> /\ rows \in AllLists
  BY ListsIs DEF RemoveAccount, Quiet
<1> HIDE DEF rows, new
<1>4. PICK current : Set(p, new, current, TRUE)
  BY <1>1 DEF new
<1> QED
  BY <1>2, <1>3, <1>4, SetMakes

LEMMA StartFreshMakes ==
    ASSUME Shaped, Typed, NEW p \in Plugin, StartFresh(p)
    PROVE  Shaped' /\ Makes({})
<1>1. PICK rows \in AllLists : rows = DiskRows(file)
  BY ListsIs
<1>2. MadeFrom(<<>>, rows, {})
  BY DEF MadeFrom
<1>3. Quiet /\ UNCHANGED <<write, edit, flow>> /\ file' \in {file, NoFile}
  BY DEF StartFresh, Quiet
<1>4. Set(p, <<>>, 0, FALSE)
  BY DEF StartFresh
<1> QED
  BY <1>2, <1>3, <1>4, SetMakes

LEMMA NewRowIs ==
    ASSUME Typed, Id \ used # {}, NEW who \in Person
    PROVE  /\ NewId \in Id /\ NewId \notin used
           /\ NewRow(who) \in Row
           /\ NewRow(who).id = NewId /\ NewRow(who).who = who
           /\ NewRow(who).token = NewToken(who)
           /\ NewToken(who) \in Token
           /\ NewToken(who).of = who /\ NewToken(who).at = stamp + 1
<1>1. NewId \in Id /\ NewId \notin used
  BY DEF NewId
<1>2. NewToken(who) \in Token /\ NewToken(who).of = who
      /\ NewToken(who).at = stamp + 1
  BY DEF NewToken, Token, Typed
<1> HIDE DEF NewToken
<1>3. /\ NewRow(who) \in Row
      /\ NewRow(who).id = NewId /\ NewRow(who).who = who
      /\ NewRow(who).token = NewToken(who)
  BY <1>1, <1>2 DEF NewRow, Row
<1> QED
  BY <1>1, <1>2, <1>3

\* No row is the one that a new account would match.
LEMMA NobodyMatches ==
    ASSUME Typed, Id \ used # {}, NEW who \in Person, NEW rows \in AllLists,
           OfAccount(rows, who) = {}
    PROVE  /\ \A i \in DOMAIN rows : ~Matches(rows[i], NewRow(who))
           /\ AddAccount(rows, who) = Append(rows, NewRow(who))
<1>1. ASSUME NEW i \in DOMAIN rows PROVE ~Matches(rows[i], NewRow(who))
  <2>1. /\ rows[i].id \in used /\ rows[i].token.at <= stamp
        /\ rows[i].token.at \in Nat /\ stamp \in Nat
    <3>1. rows[i] \in AllRows
      BY ListsIs
    <3> QED
      BY <3>1, RowTypes DEF Typed
  <2>2. rows[i].who # who
    BY DEF OfAccount
  <2>3. rows[i].token # NewRow(who).token
    BY <2>1, NewRowIs
  <2> QED
    BY <2>1, <2>2, <2>3, NewRowIs DEF Matches
<1>2. Find(rows, NewRow(who)) = 0
  <2>1. rows \in Seq(Row)
    BY DEF Typed
  <2> QED
    BY <1>1, <2>1, FindIs
<1> QED
  BY <1>1, <1>2 DEF AddAccount

LEMMA LoginMakes ==
    ASSUME Shaped, Typed, NEW p \in Plugin, Login(p)
    PROVE  Shaped' /\ \E N : Makes(N)
<1> DEFINE rows == manager[p].rows
<1>1. PICK who \in Logins :
          \/ /\ OfAccount(rows, who) # {}
             /\ LET i == FirstOf(OfAccount(rows, who))
                IN  Set(p, Put(rows, i, Reauthenticated(rows[i], who)),
                        manager[p].current, TRUE)
             /\ UNCHANGED used
          \/ /\ OfAccount(rows, who) = {} /\ Id \ used # {}
             /\ Set(p, AddAccount(rows, who),
                    IF rows = <<>> THEN 1 ELSE manager[p].current, TRUE)
             /\ used' = used \cup {NewId}
  BY Zenon DEF Login
<1>2. rows \in AllLists /\ rows \in Seq(Row)
  BY ListsIs DEF Typed
<1>3. /\ stamp' = stamp + 1 /\ UNCHANGED <<file, write, edit, flow, mixed>>
      /\ file' \in {file, NoFile}
  BY DEF Login, NewLogin
<1>4. who \in Person
  BY InitialRows
<1> HIDE DEF rows
<1>5. CASE OfAccount(rows, who) # {} /\ used' = used
  <2> DEFINE S == OfAccount(rows, who)
             i == FirstOf(S)
             row == Reauthenticated(rows[i], who)
             new == Put(rows, i, row)
  <2>1. i \in DOMAIN rows /\ rows[i].who = who
    <3>1. S \subseteq Nat /\ S # {}
      BY <1>2, <1>5, SeqIs DEF OfAccount
    <3>2. i \in S
      BY <3>1, FirstOfIs
    <3> QED
      BY <3>2 DEF OfAccount
  <2>2. PICK current : Set(p, new, current, TRUE)
    BY <1>1, <1>5
  <2> HIDE DEF i
  <2>3. Edited(rows[i], row)
    BY <1>3, <1>4, <2>1 DEF Edited
  <2> HIDE DEF row
  <2>4. MadeFrom(new, rows, {})
    BY <2>1, <2>3 DEF MadeFrom
  <2> HIDE DEF new
  <2>5. /\ Shaped' /\ AllLists' \subseteq AllLists \cup {new, <<>>}
        /\ AllSeen' \subseteq AllRows
    BY <1>3, <2>2, ListsOfSet
  <2>6. /\ Newcomers({}) /\ used \subseteq used' /\ used' \subseteq Id
        /\ stamp' \in {stamp, stamp + 1} /\ mixed \subseteq mixed'
        /\ \A q \in Plugin : flow'[q].who \subseteq Person
    BY <1>3, <1>5 DEF Typed, Newcomers
  <2>7. Makes({})
    BY <1>2, <2>4, <2>5, <2>6, OneList
  <2> QED
    BY <2>5, <2>7
<1>6. CASE /\ OfAccount(rows, who) = {} /\ Id \ used # {}
           /\ used' = used \cup {NewId}
  <2> DEFINE row == NewRow(who)
             new == Append(rows, row)
             N == {row}
  <2>1. PICK current : Set(p, new, current, TRUE)
    BY <1>1, <1>2, <1>4, <1>6, NobodyMatches
  <2>2. MadeFrom(new, rows, N)
    <3>1. \A i \in DOMAIN rows : rows[i].who # row.who
      BY <1>4, <1>6, NewRowIs DEF OfAccount
    <3> HIDE DEF row
    <3>2. Appended(new, rows, row)
      BY <3>1 DEF Appended
    <3> HIDE DEF new
    <3> QED
      BY <3>2 DEF MadeFrom
  <2>3. Newcomers(N)
    BY <1>3, <1>6 DEF Newcomers
  <2>4. NewId \in Id
    BY <1>4, <1>6, NewRowIs
  <2> HIDE DEF new, N
  <2>5. /\ Shaped' /\ AllLists' \subseteq AllLists \cup {new, <<>>}
        /\ AllSeen' \subseteq AllRows
    BY <1>3, <2>1, ListsOfSet
  <2>6. /\ used \subseteq used' /\ used' \subseteq Id
        /\ stamp' \in {stamp, stamp + 1} /\ mixed \subseteq mixed'
        /\ \A q \in Plugin : flow'[q].who \subseteq Person
    BY <1>3, <1>6, <2>4 DEF Typed
  <2>7. Makes(N)
    BY <1>2, <2>2, <2>3, <2>5, <2>6, OneList
  <2> QED
    BY <2>5, <2>7
<1> QED
  BY <1>1, <1>5, <1>6

LEMMA ExitMakes ==
    ASSUME Shaped, Typed, NEW p \in Plugin, Exit(p)
    PROVE  Shaped' /\ Makes({})
<1>1. /\ manager' = [manager EXCEPT ![p] = NoManager]
      /\ write' = [w \in Writer |->
                      IF w = p \/ p \in write[w].for THEN NoWrite ELSE write[w]]
      /\ flow' = [flow EXCEPT ![p] = NoFlow]
      /\ UNCHANGED <<file, edit, used, stamp, mixed>>
  BY DEF Exit
<1>2. IsManager(NoManager) /\ IsWrite(NoWrite)
  BY DEF NoManager, NoWrite, IsManager, IsWrite
<1>3. \A q \in Plugin : manager'[q] \in {manager[q], NoManager}
  BY <1>1 DEF Shaped
<1>4. \A w \in Writer : write'[w] \in {write[w], NoWrite}
  BY <1>1
<1>5. Shaped'
  <2>1. /\ manager' = [q \in Plugin |-> manager'[q]]
        /\ write' = [w \in Writer |-> write'[w]]
        /\ flow' = [q \in Plugin |-> flow'[q]]
    BY <1>1 DEF Shaped
  <2>2. /\ \A q \in Plugin : IsManager(manager'[q])
        /\ \A w \in Writer : IsWrite(write'[w])
    BY <1>2, <1>3, <1>4 DEF Shaped
  <2> QED
    BY <1>1, <2>1, <2>2 DEF Shaped
<1>6. AllLists' \subseteq AllLists \cup {<<>>}
  <2> DEFINE L == AllLists \cup {<<>>}
  <2>1. \A q \in Plugin : manager'[q].rows \in L
    BY <1>3, ListsIs DEF NoManager
  <2>2. \A w \in Writer : write'[w].rows \in L
    BY <1>4, ListsIs DEF NoWrite
  <2>3. /\ DiskRows(file)' \in L
        /\ \A c \in Command : edit'[c].rows \in L
    BY <1>1, ListsIs DEF DiskRows
  <2> HIDE DEF L
  <2>4. AllLists' \subseteq L
    BY <2>1, <2>2, <2>3, NextListsAre
  <2> QED
    BY <2>4 DEF L
<1>7. AllSeen' \subseteq AllRows
  <2>1. \A w \in Writer : write'[w].seen \subseteq AllRows
    BY <1>4, ListsIs DEF NoWrite
  <2> QED
    BY <2>1 DEF AllSeen
<1>8. \A q \in Plugin : flow'[q].who \subseteq Person
  BY <1>1 DEF NoFlow, Typed, Shaped
<1>9. /\ Newcomers({}) /\ used \subseteq used' /\ used' \subseteq Id
      /\ stamp' \in {stamp, stamp + 1} /\ mixed \subseteq mixed'
  BY <1>1 DEF Typed, Newcomers
<1>10. PICK rows \in AllLists : rows = DiskRows(file)
  BY ListsIs
<1>11. MadeFrom(<<>>, rows, {})
  BY DEF MadeFrom
<1>12. AllLists' \subseteq AllLists \cup {<<>>, <<>>}
  BY <1>6
<1> QED
  BY <1>5, <1>7, <1>8, <1>9, <1>11, <1>12, OneList

------------------------------------------------------------------------------
(* Commands                                                                *)

LEMMA LoadOrCancelMakes ==
    ASSUME Shaped, Typed, NEW c \in Command, Load(c) \/ Cancel(c)
    PROVE  Shaped' /\ Makes({})
<1> DEFINE rows == DiskRows(file)
<1>1. UNCHANGED <<file, manager, write, flow, used, stamp, mixed>>
  BY DEF Load, Cancel
<1>2. PICK new : /\ edit' = [edit EXCEPT ![c] = new]
                 /\ new.rows \in {rows, <<>>}
  <2>1. CASE Load(c)
    <3>1. PICK new : new = [open |-> TRUE, rows |-> rows, active |-> DiskActive]
      OBVIOUS
    <3>2. edit' = [edit EXCEPT ![c] = new] /\ new.rows = rows
      BY <2>1, <3>1 DEF Load
    <3> QED
      BY <3>2
  <2>2. CASE Cancel(c)
    <3>1. edit' = [edit EXCEPT ![c] = NoEdit] /\ NoEdit.rows = <<>>
      BY <2>2 DEF Cancel, NoEdit
    <3> QED
      BY <3>1
  <2> QED
    BY <2>1, <2>2
<1>3. /\ edit' = [d \in Command |-> edit'[d]]
      /\ \A d \in Command : d # c => edit'[d] = edit[d]
      /\ edit'[c].rows \in {rows, <<>>}
  BY <1>2 DEF Shaped
<1>4. rows \in AllLists
  BY ListsIs
<1> HIDE DEF rows
<1>5. AllLists' \subseteq AllLists \cup {rows, <<>>}
  <2> DEFINE L == AllLists \cup {rows, <<>>}
  <2>1. /\ DiskRows(file)' \in L
        /\ \A p \in Plugin : manager'[p].rows \in L
        /\ \A w \in Writer : write'[w].rows \in L
        /\ \A d \in Command : edit'[d].rows \in L
    BY <1>1, <1>3, <1>4, ListsIs DEF DiskRows
  <2> HIDE DEF L
  <2>2. AllLists' \subseteq L
    BY <2>1, NextListsAre
  <2> QED
    BY <2>2 DEF L
<1>6. AllSeen' \subseteq AllRows
  <2>1. AllSeen' = AllSeen
    BY <1>1 DEF AllSeen
  <2> QED
    BY <2>1 DEF AllRows
<1>7. Shaped'
  BY <1>1, <1>3 DEF Shaped
<1>8. MadeFrom(rows, rows, {})
  BY DEF MadeFrom
<1> QED
  BY <1>1, <1>4, <1>5, <1>6, <1>7, <1>8, QuietList DEF Quiet

LEMMA CommitMakes ==
    ASSUME Shaped, Typed, NEW c \in Command, NEW new, NEW active, NEW victim,
           Commit(c, new, active, victim), NEW N, Newcomers(N),
           MadeFrom(new, edit[c].rows, N),
           used \subseteq used', used' \subseteq Id, stamp' \in {stamp, stamp + 1}
    PROVE  Shaped' /\ Makes(N)
<1> DEFINE storage == [rows |-> new, active |-> Clamp(new, active)]
<1>1. c \in Writer
  BY DEF Writer
<1>2. /\ BeginWrite(c, storage, {}, IdAt(new, storage.active), victim, {})
      /\ edit' = [edit EXCEPT ![c] = NoEdit]
      /\ UNCHANGED <<file, manager, flow, mixed>>
  BY DEF Commit
<1>3. /\ edit' = [d \in Command |-> edit'[d]]
      /\ \A d \in Command : edit'[d].rows \in {edit[d].rows, <<>>}
      /\ flow' = [p \in Plugin |-> flow'[p]]
  BY <1>2 DEF Shaped, NoEdit
<1>4. storage.rows = new
  OBVIOUS
<1> HIDE DEF storage
<1>5. /\ Shaped' /\ AllLists' \subseteq AllLists \cup {storage.rows, <<>>}
      /\ AllSeen' \subseteq AllRows
  BY <1>1, <1>2, <1>3, ListsOfBegin
<1>6. edit[c].rows \in AllLists
  BY ListsIs
<1>7. /\ mixed \subseteq mixed' /\ \A p \in Plugin : flow'[p].who \subseteq Person
  BY <1>2 DEF Typed
<1> QED
  BY <1>4, <1>5, <1>6, <1>7, OneList

\* A command that works on the rows it has loaded, and logs nobody in.
LEMMA QuietCommit ==
    ASSUME Shaped, Typed, NEW c \in Command, NEW new, NEW active, NEW victim,
           Commit(c, new, active, victim), UNCHANGED <<used, stamp>>,
           MadeFrom(new, edit[c].rows, {})
    PROVE  Shaped' /\ Makes({})
<1>1. /\ Newcomers({}) /\ used \subseteq used' /\ used' \subseteq Id
      /\ stamp' \in {stamp, stamp + 1}
  BY DEF Newcomers, Typed
<1> QED
  BY <1>1, CommitMakes

LEMMA CmdSwitchMakes ==
    ASSUME Shaped, Typed, NEW c \in Command, CmdSwitch(c) \/ CmdReset(c)
    PROVE  Shaped' /\ Makes({})
<1> DEFINE rows == edit[c].rows
<1>1. PICK active : Commit(c, rows, active, {}) /\ UNCHANGED <<used, stamp>>
  BY DEF CmdSwitch, CmdReset
<1>2. MadeFrom(rows, rows, {})
  BY DEF MadeFrom
<1> QED
  BY <1>1, <1>2, QuietCommit

LEMMA CmdEnableMakes ==
    ASSUME Shaped, Typed, NEW c \in Command, CmdEnable(c) \/ CmdDisable(c)
    PROVE  Shaped' /\ Makes({})
<1> DEFINE rows == edit[c].rows
<1>1. PICK i \in DOMAIN rows, on \in BOOLEAN : \E active :
          /\ Commit(c, [rows EXCEPT ![i].enabled = on], active, {})
          /\ UNCHANGED <<used, stamp>>
  <2>1. CASE CmdEnable(c)
    BY <2>1 DEF CmdEnable, Enabled
  <2>2. CASE CmdDisable(c)
    BY <2>2 DEF CmdDisable, Enabled
  <2> QED
    BY <2>1, <2>2
<1> DEFINE row == [rows[i] EXCEPT !.enabled = on]
           new == [rows EXCEPT ![i] = row]
<1>2. PICK active : Commit(c, new, active, {}) /\ UNCHANGED <<used, stamp>>
  BY <1>1
<1>3. Edited(rows[i], row)
  BY DEF Edited
<1> HIDE DEF row
<1>4. MadeFrom(new, rows, {})
  BY <1>3 DEF MadeFrom
<1> HIDE DEF new
<1> QED
  BY <1>1, <1>2, <1>4, QuietCommit

LEMMA CmdRemoveMakes ==
    ASSUME Shaped, Typed, NEW c \in Command, CmdRemove(c) \/ CmdLogoutAll(c)
    PROVE  Shaped' /\ Makes({})
<1> DEFINE rows == edit[c].rows
<1>1. PICK new, active, victim :
          /\ Commit(c, new, active, victim) /\ UNCHANGED <<used, stamp>>
          /\ new = <<>> \/ \E i \in DOMAIN rows : new = RemoveAt(rows, i)
  <2>1. CASE CmdRemove(c)
    <3>1. PICK i \in DOMAIN rows :
              LET new == RemoveAt(rows, i)
                  active == edit[c].active
              IN  /\ Commit(c, new, IF active > i /\ active <= Len(new)
                                    THEN active - 1 ELSE active,
                            {rows[i].id})
                  /\ UNCHANGED <<used, stamp>>
      BY <2>1, Zenon DEF CmdRemove
    <3> QED
      BY <3>1, Zenon
  <2>2. CASE CmdLogoutAll(c)
    BY <2>2 DEF CmdLogoutAll
  <2> QED
    BY <2>1, <2>2
<1>2. MadeFrom(new, rows, {})
  BY <1>1 DEF MadeFrom
<1> QED
  BY <1>1, <1>2, QuietCommit

LEMMA CmdLoginMakes ==
    ASSUME Shaped, Typed, NEW c \in Command, CmdLogin(c)
    PROVE  Shaped' /\ \E N : Makes(N)
<1> DEFINE rows == edit[c].rows
<1>1. PICK who \in Logins :
          \/ /\ OfAccount(rows, who) # {}
             /\ LET i == FirstOf(OfAccount(rows, who))
                IN  Commit(c, [rows EXCEPT ![i] = Reauthenticated(rows[i], who)],
                           edit[c].active, {})
             /\ UNCHANGED used /\ NewLogin
          \/ /\ OfAccount(rows, who) = {} /\ Id \ used # {}
             /\ Commit(c, Append(rows, NewRow(who)), edit[c].active, {})
             /\ used' = used \cup {NewId} /\ NewLogin
  BY DEF CmdLogin
<1>2. rows \in AllLists /\ rows \in Seq(Row)
  BY ListsIs DEF Typed
<1>3. stamp' = stamp + 1 /\ stamp' \in {stamp, stamp + 1}
  BY <1>1 DEF NewLogin
<1>4. who \in Person
  BY InitialRows
<1>5. CASE OfAccount(rows, who) # {} /\ used' = used
  <2> DEFINE S == OfAccount(rows, who)
             i == FirstOf(S)
             row == Reauthenticated(rows[i], who)
             new == [rows EXCEPT ![i] = row]
  <2> HIDE DEF rows
  <2>1. i \in DOMAIN rows /\ rows[i].who = who
    <3>1. S \subseteq Nat /\ S # {}
      BY <1>2, <1>5, SeqIs DEF OfAccount
    <3>2. i \in S
      BY <3>1, FirstOfIs
    <3> QED
      BY <3>2 DEF OfAccount
  <2>2. Commit(c, new, edit[c].active, {})
    BY <1>1, <1>5
  <2> HIDE DEF i
  <2>3. Edited(rows[i], row)
    BY <1>3, <1>4, <2>1 DEF Edited
  <2> HIDE DEF row
  <2>4. MadeFrom(new, rows, {})
    BY <2>1, <2>3 DEF MadeFrom
  <2> HIDE DEF new
  <2>5. Newcomers({}) /\ used \subseteq used' /\ used' \subseteq Id
    BY <1>5 DEF Typed, Newcomers
  <2>6. Shaped' /\ Makes({})
    BY <1>3, <2>2, <2>4, <2>5, CommitMakes DEF rows
  <2> QED
    BY <2>6
<1>6. CASE OfAccount(rows, who) = {} /\ Id \ used # {} /\ used' = used \cup {NewId}
  <2> DEFINE row == NewRow(who)
             new == Append(rows, row)
             N == {row}
  <2> HIDE DEF rows
  <2>1. Commit(c, new, edit[c].active, {})
    BY <1>1, <1>6
  <2>2. MadeFrom(new, rows, N)
    <3>1. \A i \in DOMAIN rows : rows[i].who # row.who
      BY <1>4, <1>6, NewRowIs DEF OfAccount
    <3> HIDE DEF row
    <3>2. Appended(new, rows, row)
      BY <3>1 DEF Appended
    <3> HIDE DEF new
    <3> QED
      BY <3>2 DEF MadeFrom
  <2>3. Newcomers(N)
    BY <1>3, <1>6 DEF Newcomers
  <2>4. NewId \in Id
    BY <1>4, <1>6, NewRowIs
  <2> HIDE DEF new, N
  <2>5. used \subseteq used' /\ used' \subseteq Id
    BY <1>6, <2>4 DEF Typed
  <2>6. Shaped' /\ Makes(N)
    BY <1>3, <2>1, <2>2, <2>3, <2>5, CommitMakes DEF rows
  <2> QED
    BY <2>6
<1> QED
  BY <1>1, <1>5, <1>6

LEMMA CmdReauthMakes ==
    ASSUME Shaped, Typed, NEW c \in Command, CmdReauth(c)
    PROVE  Shaped' /\ Makes({})
<1> DEFINE rows == edit[c].rows
<1>1. PICK i \in DOMAIN rows :
          /\ Commit(c, [rows EXCEPT ![i] = Reauthenticated(rows[i], rows[i].who)],
                    edit[c].active, {})
          /\ UNCHANGED used /\ NewLogin
  BY DEF CmdReauth
<1> DEFINE who == rows[i].who
           row == Reauthenticated(rows[i], who)
           new == [rows EXCEPT ![i] = row]
<1>2. who \in Person
  BY ListsIs, EnabledIsBoolean
<1>3. Edited(rows[i], row)
  BY <1>1, <1>2 DEF Edited, NewLogin
<1>4. Commit(c, new, edit[c].active, {})
  BY <1>1
<1> HIDE DEF row
<1>5. MadeFrom(new, rows, {})
  BY <1>3 DEF MadeFrom
<1>6. /\ Newcomers({}) /\ used \subseteq used' /\ used' \subseteq Id
      /\ stamp' \in {stamp, stamp + 1}
  BY <1>1 DEF Typed, Newcomers, NewLogin
<1> HIDE DEF new
<1> QED
  BY <1>4, <1>5, <1>6, CommitMakes

------------------------------------------------------------------------------
(* Slash commands                                                          *)

LEMMA SlashSaveMakes ==
    ASSUME Shaped, Typed, NEW p \in Plugin, NEW c \in Command, NEW new,
           SlashSave(p, c, new), NEW N, Newcomers(N),
           MadeFrom(new, DiskRows(file), N), used \subseteq used', used' \subseteq Id,
           mixed \subseteq mixed', flow' = [q \in Plugin |-> flow'[q]],
           \A q \in Plugin : flow'[q].who \subseteq Person
    PROVE  Shaped' /\ Makes(N)
<1> DEFINE storage == [rows |-> new, active |-> DiskActive]
<1>1. c \in Writer
  BY DEF Writer
<1>2. /\ BeginWrite(c, storage, {}, IdAt(new, DiskActive), {}, {p})
      /\ UNCHANGED <<file, manager, edit>> /\ stamp' = stamp + 1
  BY DEF SlashSave, NewLogin
<1>3. /\ edit' = [d \in Command |-> edit'[d]]
      /\ \A d \in Command : edit'[d].rows \in {edit[d].rows, <<>>}
  BY <1>2 DEF Shaped
<1>4. storage.rows = new
  OBVIOUS
<1> HIDE DEF storage
<1>5. /\ Shaped' /\ AllLists' \subseteq AllLists \cup {storage.rows, <<>>}
      /\ AllSeen' \subseteq AllRows
  BY <1>1, <1>2, <1>3, ListsOfBegin
<1>6. DiskRows(file) \in AllLists
  BY ListsIs
<1> QED
  BY <1>2, <1>4, <1>5, <1>6, OneList

LEMMA SlashLoginMakes ==
    ASSUME Shaped, Typed, NEW p \in Plugin, NEW c \in Command, SlashLogin(p, c)
    PROVE  Shaped' /\ \E N : Makes(N)
<1> DEFINE rows == DiskRows(file)
<1>1. PICK who \in Logins :
          /\ SlashSave(p, c, Append(rows, NewRow(who)))
          /\ mixed' = IF OfAccount(rows, who) = {} THEN mixed
                      ELSE mixed \cup {"doubled"}
  BY DEF SlashLogin
<1>2. /\ Id \ used # {} /\ used' = used \cup {NewId} /\ flow' = flow
      /\ stamp' = stamp + 1
  BY <1>1 DEF SlashLogin, SlashSave, NewLogin
<1>3. who \in Person
  BY InitialRows
<1> DEFINE row == NewRow(who)
           new == Append(rows, row)
           N == {row}
<1>4. MadeFrom(new, rows, N)
  <2>1. "doubled" \in mixed' \/ \A i \in DOMAIN rows : rows[i].who # row.who
    BY <1>1, <1>2, <1>3, NewRowIs DEF OfAccount
  <2> HIDE DEF row
  <2>2. Appended(new, rows, row)
    BY <2>1 DEF Appended
  <2> HIDE DEF new
  <2> QED
    BY <2>2 DEF MadeFrom
<1>5. Newcomers(N)
  BY <1>2 DEF Newcomers
<1>6. NewId \in Id
  BY <1>2, <1>3, NewRowIs
<1>7. SlashSave(p, c, new)
  BY <1>1
<1> HIDE DEF new, N
<1>8. /\ used \subseteq used' /\ used' \subseteq Id /\ mixed \subseteq mixed'
      /\ flow' = [q \in Plugin |-> flow'[q]]
      /\ \A q \in Plugin : flow'[q].who \subseteq Person
  BY <1>1, <1>2, <1>6 DEF Typed, Shaped
<1>9. Shaped' /\ Makes(N)
  BY <1>4, <1>5, <1>7, <1>8, SlashSaveMakes
<1> QED
  BY <1>9

LEMMA CompleteReauthMakes ==
    ASSUME Shaped, Typed, NEW p \in Plugin, NEW c \in Command, CompleteReauth(p, c)
    PROVE  Shaped' /\ Makes({})
<1> DEFINE rows == DiskRows(file)
           i == flow[p].target
<1>1. i \in DOMAIN rows /\ file.rows = rows
  BY DiskRowsAre DEF CompleteReauth
<1>2. PICK who \in flow[p].who :
          /\ SlashSave(p, c, [rows EXCEPT ![i] = Reauthenticated(rows[i], who)])
          /\ mixed' = IF rows[i].who = who THEN mixed
                      ELSE mixed \cup {"misdirected"}
  <2> HIDE DEF rows
  <2> QED
    BY <1>1 DEF CompleteReauth
<1>3. /\ flow' = [flow EXCEPT ![p] = NoFlow] /\ used' = used
      /\ stamp' = stamp + 1
  BY <1>2 DEF CompleteReauth, SlashSave, NewLogin
<1>4. who \in Person
  BY DEF Typed
<1> DEFINE row == Reauthenticated(rows[i], who)
           new == [rows EXCEPT ![i] = row]
<1>5. Edited(rows[i], row)
  BY <1>2, <1>3, <1>4 DEF Edited
<1>6. SlashSave(p, c, new)
  BY <1>2
<1>7. MadeFrom(new, rows, {})
  <2> HIDE DEF row, rows, i
  <2> QED
    BY <1>1, <1>5 DEF MadeFrom
<1> HIDE DEF new
<1>8. /\ Newcomers({}) /\ used \subseteq used' /\ used' \subseteq Id
      /\ mixed \subseteq mixed'
  BY <1>2, <1>3 DEF Newcomers, Typed
<1>9. /\ flow' = [q \in Plugin |-> flow'[q]]
      /\ \A q \in Plugin : flow'[q].who \subseteq Person
  BY <1>3 DEF Shaped, Typed, NoFlow
<1> QED
  BY <1>6, <1>7, <1>8, <1>9, SlashSaveMakes

LEMMA FlowMakes ==
    ASSUME Shaped, Typed, NEW p \in Plugin, StartReauth(p) \/ DropFlow(p)
    PROVE  Shaped' /\ Makes({})
<1>1. UNCHANGED <<file, manager, write, edit, used, stamp, mixed>>
  BY DEF StartReauth, DropFlow
<1>2. PICK new : flow' = [flow EXCEPT ![p] = new] /\ new.who \subseteq Person
  <2>1. CASE StartReauth(p)
    <3>1. PICK i \in DOMAIN DiskRows(file) :
              flow' = [flow EXCEPT ![p] =
                          [target |-> i, who |-> {file.rows[i].who}]]
      BY <2>1 DEF StartReauth
    <3>2. DiskRows(file)[i].who \in Person /\ file.rows = DiskRows(file)
      BY ListsIs, EnabledIsBoolean, DiskRowsAre
    <3>3. PICK new : new = [target |-> i, who |-> {file.rows[i].who}]
      OBVIOUS
    <3>4. flow' = [flow EXCEPT ![p] = new] /\ new.who \subseteq Person
      BY <3>1, <3>2, <3>3
    <3> QED
      BY <3>4
  <2>2. CASE DropFlow(p)
    <3>1. flow' = [flow EXCEPT ![p] = NoFlow] /\ NoFlow.who \subseteq Person
      BY <2>2 DEF DropFlow, NoFlow
    <3> QED
      BY <3>1
  <2> QED
    BY <2>1, <2>2
<1>3. /\ flow' = [q \in Plugin |-> flow'[q]]
      /\ \A q \in Plugin : flow'[q].who \subseteq Person
  BY <1>2 DEF Shaped, Typed
<1>4. Shaped'
  BY <1>1, <1>3 DEF Shaped
<1>5. AllLists' = AllLists /\ AllSeen' = AllSeen
  BY <1>1 DEF AllLists, AllSeen, DiskRows
<1>6. AllSeen' \subseteq AllRows
  BY <1>5 DEF AllRows
<1>7. \A rows \in AllLists : MadeFrom(rows, rows, {})
  BY DEF MadeFrom
<1> HIDE DEF MadeFrom
<1>8. \A list \in AllLists' : \E rows \in AllLists : MadeFrom(list, rows, {})
  BY <1>5, <1>7
<1>9. /\ Newcomers({}) /\ used \subseteq used' /\ used' \subseteq Id
      /\ stamp' \in {stamp, stamp + 1} /\ mixed \subseteq mixed'
  BY <1>1 DEF Newcomers, Typed
<1> QED
  BY <1>3, <1>4, <1>6, <1>8, <1>9 DEF Makes

------------------------------------------------------------------------------
(* Next                                                                    *)

\* A step that changes nothing makes nothing either.
LEMMA StutterMakes ==
    ASSUME Shaped, Typed, UNCHANGED vars
    PROVE  Shaped' /\ Makes({})
<1>1. UNCHANGED <<file, manager, write, edit, flow, used, stamp, mixed>>
  BY DEF vars
<1>2. Shaped'
  BY <1>1 DEF Shaped
<1>3. AllLists' = AllLists /\ AllSeen' = AllSeen
  BY <1>1 DEF AllLists, AllSeen, DiskRows
<1>4. \A rows \in AllLists : MadeFrom(rows, rows, {})
  BY DEF MadeFrom
<1> HIDE DEF MadeFrom
<1>5. \A new \in AllLists' : \E rows \in AllLists : MadeFrom(new, rows, {})
  BY <1>3, <1>4
<1>6. AllSeen' \subseteq AllRows
  BY <1>3 DEF AllRows
<1>7. /\ Newcomers({}) /\ used \subseteq used' /\ used' \subseteq Id
      /\ stamp' \in {stamp, stamp + 1} /\ mixed \subseteq mixed'
      /\ \A q \in Plugin : flow'[q].who \subseteq Person
  BY <1>1 DEF Newcomers, Typed
<1> QED
  BY <1>2, <1>5, <1>6, <1>7 DEF Makes

LEMMA StepMakes ==
    ASSUME Shaped, Typed, [Next]_vars
    PROVE  Shaped' /\ \E N : Makes(N)
<1> HIDE DEF Makes
<1>1. ASSUME NEW w \in Writer, MergeWithDisk(w) \/ Rename(w)
      PROVE  Shaped' /\ \E N : Makes(N)
  BY <1>1, MergeMakes, RenameMakes
<1>2. ASSUME NEW p \in Plugin, PluginStep(p)
      PROVE  Shaped' /\ \E N : Makes(N)
  <2>1. CASE Start(p) \/ Reload(p)
    BY <2>1, StartMakes
  <2>2. CASE SaveToDisk(p)
    BY <2>2, SaveToDiskMakes
  <2>3. CASE Sync(p)
    BY <2>3, SyncMakes
  <2>4. CASE Select(p)
    BY <2>4, SelectMakes
  <2>5. CASE Toggle(p)
    BY <2>5, ToggleMakes
  <2>6. CASE Login(p)
    BY <2>6, LoginMakes
  <2>7. CASE RemoveAccount(p)
    BY <2>7, RemoveAccountMakes
  <2>8. CASE StartFresh(p)
    BY <2>8, StartFreshMakes
  <2>9. CASE Exit(p)
    BY <2>9, ExitMakes
  <2>10. CASE StartReauth(p) \/ DropFlow(p)
    BY <2>10, FlowMakes
  <2> QED
    BY <1>2, <2>1, <2>2, <2>3, <2>4, <2>5, <2>6, <2>7, <2>8, <2>9, <2>10, Zenon
       DEF PluginStep
<1>3. ASSUME NEW c \in Command, CommandStep(c)
      PROVE  Shaped' /\ \E N : Makes(N)
  <2>1. CASE Load(c) \/ Cancel(c)
    BY <2>1, LoadOrCancelMakes
  <2>2. CASE CmdSwitch(c) \/ CmdReset(c)
    BY <2>2, CmdSwitchMakes
  <2>3. CASE CmdEnable(c) \/ CmdDisable(c)
    BY <2>3, CmdEnableMakes
  <2>4. CASE CmdRemove(c) \/ CmdLogoutAll(c)
    BY <2>4, CmdRemoveMakes
  <2>5. CASE CmdLogin(c)
    BY <2>5, CmdLoginMakes
  <2>6. CASE CmdReauth(c)
    BY <2>6, CmdReauthMakes
  <2>7. ASSUME NEW p \in Plugin, SlashLogin(p, c) \/ CompleteReauth(p, c)
        PROVE  Shaped' /\ \E N : Makes(N)
    BY <2>7, SlashLoginMakes, CompleteReauthMakes
  <2> QED
    BY <1>3, <2>1, <2>2, <2>3, <2>4, <2>5, <2>6, <2>7, Zenon DEF CommandStep
<1>4. CASE UNCHANGED vars
  BY <1>4, StutterMakes
<1> QED
  BY <1>1, <1>2, <1>3, <1>4, Zenon DEF Next

------------------------------------------------------------------------------
(***************************************************************************)
(* Sets of rows that are closed under what happens to rows: a row is       *)
(* switched, gets the token of a row of its account or its id, has its     *)
(* identity repaired, or is edited.                                        *)
(***************************************************************************)
Closed(T) ==
    /\ T \subseteq Row
    /\ \A r \in T, on \in BOOLEAN : [r EXCEPT !.enabled = on] \in T
    /\ \A r, s \in T :
           s.id = r.id \/ AccountOf[s.who] = AccountOf[r.who] =>
               [r EXCEPT !.token = s.token] \in T
    /\ \A r \in T : [r EXCEPT !.who = AccountOf[r.who]] \in T
    /\ \A r \in T : \A new : Edited(r, new) => new \in T

ListOf(T, rows) == rows \in Seq(Row) /\ \A i \in DOMAIN rows : rows[i] \in T

\* Of some rows one has the newest token.
LEMMA NewestIs ==
    ASSUME NEW rows \in Seq(Row), NEW S, S \subseteq DOMAIN rows, S # {},
           NEW last \in Nat, \A i \in DOMAIN rows : rows[i].token.at <= last
    PROVE  \E k \in S : \A l \in S : rows[l].token.at <= rows[k].token.at
<1> DEFINE at(i) == rows[i].token.at
           ages == {last - at(i) : i \in S}
<1>1. \A i \in S : at(i) \in Nat /\ at(i) <= last
  <2> TAKE i \in S
  <2>1. rows[i] \in Row
    BY SeqIs
  <2> QED
    BY <2>1, RowTypes
<1> HIDE DEF at
<1>2. ages \subseteq Nat /\ ages # {}
  BY <1>1
<1>3. PICK age \in ages : \A other \in ages : age <= other
  <2> HIDE DEF ages
  <2> QED
    BY <1>2, LeastNat
<1>4. PICK k \in S : age = last - at(k)
  OBVIOUS
<1>5. \A l \in S : last - at(k) <= last - at(l)
  BY <1>3, <1>4
<1>6. \A l \in S : at(l) <= at(k)
  BY <1>1, <1>5
<1> QED
  BY <1>6 DEF at

\* What the repair leaves of a row at i with the token of the row at j.
Healed(rows, i, j, new) ==
    /\ AccountOf[rows[j].who] = AccountOf[rows[i].who]
    /\ \E on \in BOOLEAN :
           new = [id |-> rows[i].id, who |-> AccountOf[rows[i].who],
                  token |-> rows[j].token, enabled |-> on]

LEMMA HealedIs ==
    ASSUME NEW rows \in Seq(Row), NEW i \in DOMAIN rows, NEW j \in DOMAIN rows,
           NEW new, Healed(rows, i, j, new)
    PROVE  /\ new \in Row
           /\ new.id = rows[i].id /\ new.who = AccountOf[rows[i].who]
           /\ new.token = rows[j].token
           /\ \A T : Closed(T) /\ rows[i] \in T /\ rows[j] \in T => new \in T
<1> DEFINE r == rows[i]
           s == rows[j]
<1>1. r \in Row /\ s \in Row
  BY SeqIs
<1>2. PICK on \in BOOLEAN :
          new = [id |-> r.id, who |-> AccountOf[r.who], token |-> s.token,
                 enabled |-> on]
  BY DEF Healed
<1>3. AccountOf[s.who] = AccountOf[r.who]
  BY DEF Healed
<1> HIDE DEF r, s
<1>4. r.who \in Person /\ s.token \in Token /\ r.id \in Id
  BY <1>1, RowTypes
<1>5. AccountOf[r.who] \in Person /\ AccountOf[AccountOf[r.who]] = AccountOf[r.who]
  BY <1>4, InitialRows
<1>6. /\ new \in Row
      /\ new.id = r.id /\ new.who = AccountOf[r.who] /\ new.token = s.token
  BY <1>2, <1>4, <1>5 DEF Row
<1>7. ASSUME NEW T, Closed(T), r \in T, s \in T PROVE new \in T
  <2>1. PICK r1 : r1 = [r EXCEPT !.who = AccountOf[r.who]]
    OBVIOUS
  <2>2. r1 \in T /\ r1 \in Row
    BY <1>7, <2>1 DEF Closed
  <2>3. /\ r1 = [id |-> r.id, who |-> AccountOf[r.who], token |-> r.token,
                 enabled |-> r.enabled]
    BY <1>1, <2>1 DEF Row
  <2>4. AccountOf[r1.who] = AccountOf[s.who]
    BY <1>3, <1>5, <2>3
  <2>5. PICK r2 : r2 = [r1 EXCEPT !.token = s.token]
    OBVIOUS
  <2>6. r2 \in T
    BY <1>7, <2>2, <2>4, <2>5 DEF Closed
  <2>7. r2 = [id |-> r.id, who |-> AccountOf[r.who], token |-> s.token,
              enabled |-> r.enabled]
    BY <2>3, <2>5
  <2>8. PICK r3 : r3 = [r2 EXCEPT !.enabled = on]
    OBVIOUS
  <2>9. r3 \in T
    BY <1>7, <2>6, <2>8 DEF Closed
  <2>10. r3 = new
    BY <1>2, <2>7, <2>8
  <2> QED
    BY <2>9, <2>10
<1> QED
  BY <1>6, <1>7 DEF r, s

\* The repair keeps ids, and it leaves one row of an account.
LEMMA CollapseIs ==
    ASSUME NEW rows \in Seq(Row), NEW last \in Nat,
           \A i \in DOMAIN rows : rows[i].token.at <= last
    PROVE  LET new == Collapse(rows)
           IN  /\ new \in Seq(Row)
               /\ \A m \in DOMAIN new : \E i, j \in DOMAIN rows :
                      Healed(rows, i, j, new[m])
               /\ Ids(new) \subseteq Ids(rows)
               /\ Distinct(rows) => Distinct(new)
<1> DEFINE account(i) == AccountOf[rows[i].who]
           twins(i) == {j \in DOMAIN rows : account(j) = account(i)}
           newest(i) == {rows[j].token : j \in {k \in twins(i) :
                            \A l \in twins(i) : rows[l].token.at <= rows[k].token.at}}
           healed(i) == [id |-> rows[i].id, who |-> account(i),
                         token |-> IF rows[i].token \in newest(i)
                                   THEN rows[i].token
                                   ELSE CHOOSE token \in newest(i) : TRUE,
                         enabled |-> \E j \in twins(i) : rows[j].enabled]
           firsts == {i \in DOMAIN rows : i = FirstOf(twins(i))}
           mid == [i \in DOMAIN rows |-> healed(i)]
           new == Collapse(rows)
<1>1. new = ElementsAt(mid, firsts)
  BY DEF Collapse
<1>2. /\ DOMAIN rows = 1 .. Len(rows) /\ Len(rows) \in Nat
      /\ \A i \in DOMAIN rows : rows[i] \in Row
  BY SeqIs
<1>3. ASSUME NEW i \in DOMAIN rows
      PROVE  \E j \in DOMAIN rows : Healed(rows, i, j, healed(i))
  <2> DEFINE S == twins(i)
             token == IF rows[i].token \in newest(i) THEN rows[i].token
                      ELSE CHOOSE t \in newest(i) : TRUE
             on == \E k \in S : rows[k].enabled
  <2>1. newest(i) # {}
    <3>1. S \subseteq DOMAIN rows /\ S # {}
      OBVIOUS
    <3>2. \E k \in S : \A l \in S : rows[l].token.at <= rows[k].token.at
      <4> HIDE DEF S
      <4> QED
        BY <3>1, NewestIs
    <3> QED
      BY <3>2
  <2>2. token \in newest(i)
    <3> HIDE DEF newest
    <3> QED
      BY <2>1
  <2>3. PICK j \in DOMAIN rows : account(j) = account(i) /\ token = rows[j].token
    <3> HIDE DEF token
    <3> QED
      BY <2>2
  <2>4. on \in BOOLEAN
    OBVIOUS
  <2>5. healed(i) = [id |-> rows[i].id, who |-> AccountOf[rows[i].who],
                     token |-> token, enabled |-> on]
    BY Zenon
  <2> HIDE DEF token, on, healed
  <2> QED
    BY <2>3, <2>4, <2>5 DEF Healed
<1> HIDE DEF healed, new
<1>4. \A i \in DOMAIN rows : /\ mid[i] \in Row /\ mid[i].id = rows[i].id
                             /\ mid[i].who = account(i)
  <2> TAKE i \in DOMAIN rows
  <2>1. PICK j \in DOMAIN rows : Healed(rows, i, j, mid[i])
    BY <1>3
  <2> HIDE DEF mid
  <2> QED
    BY <2>1, HealedIs
<1>5. mid \in Seq(Row) /\ DOMAIN mid = DOMAIN rows
  <2>1. mid \in [1 .. Len(rows) -> Row]
    BY <1>2, <1>4
  <2> QED
    BY <1>2, <2>1
<1>6. firsts \subseteq DOMAIN mid
  OBVIOUS
<1>7. \A i, k \in firsts : account(i) = account(k) => i = k
  <2> TAKE i, k \in firsts
  <2>1. account(i) = account(k) => twins(i) = twins(k)
    OBVIOUS
  <2> HIDE DEF twins
  <2> QED
    BY <2>1
<1> DEFINE at == InOrder(firsts)
<1>8. /\ new \in Seq(Row)
      /\ \A m \in DOMAIN new : at[m] \in firsts /\ new[m] = mid[at[m]]
      /\ \A m, n \in DOMAIN new : at[m] = at[n] => m = n
  <2> HIDE DEF mid, firsts
  <2> QED
    BY <1>1, <1>5, <1>6, RowsAtIs
<1> HIDE DEF at
<1>9. \A m \in DOMAIN new : at[m] \in DOMAIN rows
  BY <1>8
<1>10. \A m \in DOMAIN new : \E i, j \in DOMAIN rows : Healed(rows, i, j, new[m])
  <2> TAKE m \in DOMAIN new
  <2>1. mid[at[m]] = healed(at[m])
    BY <1>9
  <2> HIDE DEF mid, firsts
  <2>2. PICK i \in DOMAIN rows : new[m] = healed(i)
    BY <1>8, <1>9, <2>1
  <2>3. PICK j \in DOMAIN rows : Healed(rows, i, j, healed(i))
    BY <1>3
  <2> QED
    BY <2>2, <2>3
<1> HIDE DEF mid, firsts
<1>11. Ids(new) \subseteq Ids(rows)
  <2>1. \A m \in DOMAIN new : new[m].id = rows[at[m]].id
    BY <1>4, <1>8, <1>9
  <2> QED
    BY <1>9, <2>1 DEF Ids
<1>12. ASSUME Distinct(rows) PROVE Distinct(new)
  <2>1. ASSUME NEW m \in DOMAIN new, NEW n \in DOMAIN new, m # n
        PROVE  new[m].id # new[n].id /\ new[m].who # new[n].who
    <3>1. at[m] # at[n] /\ at[m] \in firsts /\ at[n] \in firsts
      BY <1>8, <2>1
    <3>2. account(at[m]) # account(at[n])
      BY <1>7, <3>1
    <3>3. rows[at[m]].id # rows[at[n]].id
      BY <1>9, <1>12, <3>1 DEF Distinct
    <3> HIDE DEF account
    <3> QED
      BY <1>4, <1>8, <1>9, <3>2, <3>3
  <2> QED
    BY <2>1 DEF Distinct
<1>13. new \in Seq(Row)
  BY <1>8
<1> QED
  BY <1>10, <1>11, <1>12, <1>13 DEF new

LEMMA FreshestIn ==
    ASSUME NEW T, Closed(T), NEW row \in T, ListOf(T, DiskRows(file))
    PROVE  Freshest(row, file) \in T
<1> DEFINE D == DiskRows(file)
           k == Find(D, row)
           new == Freshest(row, file)
<1>1. row \in Row /\ D \in Seq(Row)
  BY DEF Closed, ListOf
<1>2. /\ new \in Row /\ new.id = row.id /\ new.who = row.who
      /\ new.enabled = row.enabled
      /\ \/ new = row
         \/ /\ k \in DOMAIN D /\ new.token = D[k].token
            /\ D[k].id = row.id \/ D[k].who = row.who
  BY <1>1, FreshestIs
<1> HIDE DEF new, k
<1>3. CASE new # row
  <2>1. PICK s \in T : new.token = s.token /\ (s.id = row.id \/ s.who = row.who)
    BY <1>2, <1>3 DEF ListOf
  <2>2. PICK r : r = [row EXCEPT !.token = s.token]
    OBVIOUS
  <2>3. r \in T
    BY <2>1, <2>2 DEF Closed
  <2>4. r = new
    BY <1>1, <1>2, <2>1, <2>2 DEF Row
  <2> QED
    BY <2>3, <2>4 DEF new
<1> QED
  BY <1>3 DEF new

LEMMA FreshestRowsIs ==
    ASSUME NEW rows \in Seq(Row), DiskRows(file) \in Seq(Row)
    PROVE  LET new == FreshestRows(rows, file)
           IN  /\ new \in Seq(Row) /\ DOMAIN new = DOMAIN rows
               /\ \A i \in DOMAIN rows : /\ new[i] = Freshest(rows[i], file)
                                         /\ new[i].id = rows[i].id
                                         /\ new[i].who = rows[i].who
<1> DEFINE new == FreshestRows(rows, file)
<1>1. /\ Len(rows) \in Nat /\ DOMAIN rows = 1 .. Len(rows)
      /\ \A i \in DOMAIN rows : rows[i] \in Row
  BY SeqIs
<1>2. new = [i \in DOMAIN rows |-> Freshest(rows[i], file)]
  BY DEF FreshestRows
<1>3. \A i \in DOMAIN rows : /\ Freshest(rows[i], file) \in Row
                             /\ Freshest(rows[i], file).id = rows[i].id
                             /\ Freshest(rows[i], file).who = rows[i].who
  BY <1>1, FreshestIs
<1> HIDE DEF new
<1>4. new \in [1 .. Len(rows) -> Row]
  BY <1>1, <1>2, <1>3
<1> QED
  BY <1>1, <1>2, <1>3, <1>4 DEF new

LEMMA MergedIn ==
    ASSUME NEW T, Closed(T), NEW rows, ListOf(T, rows),
           ListOf(T, DiskRows(file)), NEW dropped
    PROVE  ListOf(T, Merged(rows, dropped, file))
<1> DEFINE D == DiskRows(file)
           new == Merged(rows, dropped, file)
           others == Foreign(rows, dropped, file)
<1>1. rows \in Seq(Row) /\ D \in Seq(Row)
  BY DEF ListOf
<1>2. /\ new \in Seq(Row)
      /\ \A i \in DOMAIN rows : new[i] = Freshest(rows[i], file)
      /\ \A j \in DOMAIN new : j \notin DOMAIN rows =>
             /\ j - Len(rows) \in DOMAIN others
             /\ new[j] = others[j - Len(rows)]
  BY <1>1, MergedIs
<1>3. \A n \in DOMAIN others : \E k \in DOMAIN D : others[n] = D[k]
  BY <1>1, ForeignIs
<1> HIDE DEF others, new, D
<1>4. \A i \in DOMAIN rows : Freshest(rows[i], file) \in T
  BY FreshestIn DEF ListOf
<1>5. \A n \in DOMAIN others : others[n] \in T
  BY <1>3 DEF ListOf, D
<1>6. \A j \in DOMAIN new : new[j] \in T
  BY <1>2, <1>4, <1>5
<1> QED
  BY <1>2, <1>6 DEF ListOf, new

LEMMA RowsAtIn ==
    ASSUME NEW T, NEW rows, ListOf(T, rows), NEW S, S \subseteq DOMAIN rows
    PROVE  ListOf(T, ElementsAt(rows, S))
<1>1. rows \in Seq(Row)
  BY DEF ListOf
<1> DEFINE new == ElementsAt(rows, S)
<1>2. new \in Seq(Row) /\ \A m \in DOMAIN new : \E i \in S : new[m] = rows[i]
  BY <1>1, RowsAtIs
<1> HIDE DEF new
<1>3. ListOf(T, new)
  BY <1>2 DEF ListOf
<1> QED
  BY <1>3 DEF new

\* Put and EXCEPT: some entries are the new row.
LEMMA PutIs ==
    ASSUME NEW rows \in Seq(Row), NEW i \in DOMAIN rows, NEW row \in Row, NEW new,
           new = Put(rows, i, row) \/ new = [rows EXCEPT ![i] = row]
    PROVE  /\ new \in Seq(Row) /\ DOMAIN new = DOMAIN rows
           /\ \A k \in DOMAIN rows :
                  \/ new[k] = rows[k]
                  \/ new[k] = row /\ rows[k].id = rows[i].id
<1>1. /\ Len(rows) \in Nat /\ DOMAIN rows = 1 .. Len(rows)
      /\ \A k \in DOMAIN rows : rows[k] \in Row
  BY SeqIs
<1>2. CASE new = Put(rows, i, row)
  <2>1. new = [k \in DOMAIN rows |->
                  IF rows[k].id = rows[i].id THEN row ELSE rows[k]]
    BY <1>2 DEF Put
  <2>2. new \in [1 .. Len(rows) -> Row]
    BY <1>1, <2>1
  <2> QED
    BY <1>1, <2>1, <2>2
<1>3. CASE new = [rows EXCEPT ![i] = row]
  BY <1>1, <1>3
<1> QED
  BY <1>2, <1>3

LEMMA ReconciledIn ==
    ASSUME NEW T, Closed(T), NEW rows, ListOf(T, rows), file # NoFile,
           ListOf(T, DiskRows(file))
    PROVE  ListOf(T, Reconciled(rows, file))
<1> DEFINE new == Reconciled(rows, file)
<1>1. file.rows = DiskRows(file)
  BY DEF DiskRows
<1>2. rows \in Seq(Row) /\ file.rows \in Seq(Row)
  BY <1>1 DEF ListOf
<1>3. RowsOf(new, RowSet(rows) \cup RowSet(file.rows))
  BY <1>2, ReconciledRows
<1>4. RowSet(rows) \cup RowSet(file.rows) \subseteq T
  BY <1>1 DEF RowSet, ListOf
<1> HIDE DEF new
<1>5. \A j \in DOMAIN new : new[j] \in T
  <2> TAKE j \in DOMAIN new
  <2>1. PICK r \in T : new[j] = r \/ new[j] = [r EXCEPT !.enabled = FALSE]
    BY <1>3, <1>4 DEF RowsOf
  <2>2. [r EXCEPT !.enabled = FALSE] \in T
    BY DEF Closed
  <2> QED
    BY <2>1, <2>2
<1> QED
  BY <1>3, <1>5 DEF ListOf, RowsOf, new

\* Whatever a step makes of rows of T, with the rows of T in the file and the
\* new rows of T, are rows of T.
LEMMA MadeIn ==
    ASSUME NEW T, Closed(T), NEW N, N \subseteq T, NEW rows, ListOf(T, rows),
           ListOf(T, DiskRows(file)), stamp \in Nat,
           \A i \in DOMAIN rows : rows[i].token.at <= stamp,
           NEW new, MadeFrom(new, rows, N)
    PROVE  ListOf(T, new)
<1>1. rows \in Seq(Row) /\ T \subseteq Row
  BY DEF ListOf, Closed
<1>2. CASE new = <<>> \/ new = rows
  <2>1. <<>> \in Seq(Row) /\ DOMAIN <<>> = {}
    OBVIOUS
  <2>2. ListOf(T, <<>>)
    BY <2>1 DEF ListOf
  <2> QED
    BY <1>2, <2>2
<1>3. CASE \E dropped : new = Merged(rows, dropped, file)
  BY <1>3, MergedIn
<1>4. ASSUME NEW S, NEW dropped, S \subseteq DOMAIN rows,
             new = Merged(ElementsAt(rows, S), dropped, file)
      PROVE  ListOf(T, new)
  BY <1>4, RowsAtIn, MergedIn
<1>5. CASE new = FreshestRows(rows, file)
  <2>1. DiskRows(file) \in Seq(Row)
    BY DEF ListOf
  <2>2. /\ new \in Seq(Row) /\ DOMAIN new = DOMAIN rows
        /\ \A i \in DOMAIN rows : new[i] = Freshest(rows[i], file)
    BY <1>1, <1>5, <2>1, FreshestRowsIs
  <2>3. \A i \in DOMAIN rows : Freshest(rows[i], file) \in T
    BY FreshestIn DEF ListOf
  <2> QED
    BY <2>2, <2>3 DEF ListOf
<1>6. CASE new \in Deduplicated(rows)
  <2>1. /\ new \in Seq(Row)
        /\ \A m \in DOMAIN new : \E i \in DOMAIN rows : new[m] = rows[i]
    BY <1>1, <1>6, DeduplicatedIs
  <2> QED
    BY <2>1 DEF ListOf
<1>7. CASE new = Collapse(rows)
  <2>1. /\ new \in Seq(Row)
        /\ \A m \in DOMAIN new : \E i, j \in DOMAIN rows : Healed(rows, i, j, new[m])
    BY <1>1, <1>7, CollapseIs
  <2>2. \A m \in DOMAIN new : new[m] \in T
    <3> TAKE m \in DOMAIN new
    <3>1. PICK i \in DOMAIN rows, j \in DOMAIN rows : Healed(rows, i, j, new[m])
      BY <2>1
    <3>2. rows[i] \in T /\ rows[j] \in T
      BY DEF ListOf
    <3> QED
      BY <1>1, <3>1, <3>2, HealedIs
  <2> QED
    BY <2>1, <2>2 DEF ListOf
<1>8. CASE file # NoFile /\ new = Reconciled(rows, file)
  BY <1>8, ReconciledIn
<1>9. ASSUME NEW i \in DOMAIN rows, new = RemoveAt(rows, i)
      PROVE  ListOf(T, new)
  <2>1. new \in Seq(Row) /\ \A m \in DOMAIN new : \E j \in DOMAIN rows : new[m] = rows[j]
    BY <1>1, <1>9, RemoveAtIs
  <2> QED
    BY <2>1 DEF ListOf
<1>10. ASSUME NEW i \in DOMAIN rows, NEW row, Edited(rows[i], row),
              new = Put(rows, i, row) \/ new = [rows EXCEPT ![i] = row]
       PROVE  ListOf(T, new)
  <2>1. row \in T /\ row \in Row
    BY <1>1, <1>10 DEF Closed, ListOf
  <2>2. /\ new \in Seq(Row) /\ DOMAIN new = DOMAIN rows
        /\ \A k \in DOMAIN rows : new[k] = rows[k] \/ new[k] = row
    BY <1>1, <1>10, <2>1, PutIs
  <2> QED
    BY <2>1, <2>2 DEF ListOf
<1>11. ASSUME NEW row \in N, Appended(new, rows, row)
       PROVE  ListOf(T, new)
  <2>1. new = Append(rows, row) /\ row \in T /\ row \in Row
    BY <1>1, <1>11 DEF Appended
  <2>2. /\ new \in Seq(Row) /\ Len(new) = Len(rows) + 1
        /\ \A m \in DOMAIN new : \/ m \in DOMAIN rows /\ new[m] = rows[m]
                               \/ new[m] = row
    BY <1>1, <2>1
  <2> QED
    BY <2>1, <2>2 DEF ListOf
<1> QED
  BY <1>2, <1>3, <1>4, <1>5, <1>6, <1>7, <1>8, <1>9, <1>10, <1>11, Zenon
     DEF MadeFrom

\* So the rows of the next state are in T, too.
LEMMA RowsStayIn ==
    ASSUME Typed, NEW T, Closed(T), NEW N, N \subseteq T, AllRows \subseteq T,
           Makes(N)
    PROVE  AllRows' \subseteq T /\ \A rows \in AllLists' : ListOf(T, rows)
<1>1. \A rows \in AllLists : ListOf(T, rows)
  <2> TAKE rows \in AllLists
  <2>1. rows \in Seq(Row) /\ \A i \in DOMAIN rows : rows[i] \in AllRows
    BY ListsIs DEF Typed
  <2> QED
    BY <2>1 DEF ListOf
<1>2. \A rows \in AllLists : \A i \in DOMAIN rows : rows[i].token.at <= stamp
  BY ListsIs DEF Typed
<1>3. ASSUME NEW new \in AllLists' PROVE ListOf(T, new)
  <2>1. PICK rows \in AllLists : MadeFrom(new, rows, N)
    BY DEF Makes
  <2>2. ListOf(T, rows) /\ ListOf(T, DiskRows(file)) /\ stamp \in Nat
    BY <1>1, ListsIs DEF Typed
  <2> QED
    BY <1>2, <2>1, <2>2, MadeIn
<1>4. AllSeen' \subseteq T
  BY DEF Makes
<1>5. AllRows' \subseteq T
  <2>1. \A new \in AllLists' : RowSet(new) \subseteq T
    BY <1>3 DEF RowSet, ListOf
  <2> QED
    BY <1>4, <2>1 DEF AllRows
<1> QED
  BY <1>3, <1>5

------------------------------------------------------------------------------
(* What the rows of all states have in common                              *)

LEMMA ReauthenticatedIs ==
    ASSUME stamp \in Nat, NEW row \in Row, NEW who \in Person
    PROVE  LET new == Reauthenticated(row, who)
           IN  /\ new \in Row /\ new.id = row.id /\ new.who = who
               /\ new.token.of = who /\ new.token.at = stamp + 1
<1>1. PICK token : token = NewToken(who)
  OBVIOUS
<1>2. token \in Token /\ token.of = who /\ token.at = stamp + 1
  BY <1>1 DEF NewToken, Token
<1>3. PICK new : new = [row EXCEPT !.who = who, !.token = token, !.enabled = TRUE]
  OBVIOUS
<1>4. new = [id |-> row.id, who |-> who, token |-> token, enabled |-> TRUE]
  BY <1>3 DEF Row
<1>5. row.id \in Id
  BY DEF Row
<1>6. new \in Row /\ new.id = row.id /\ new.who = who /\ new.token = token
  BY <1>2, <1>4, <1>5 DEF Row
<1>7. new = Reauthenticated(row, who)
  BY <1>1, <1>3 DEF Reauthenticated
<1> QED
  BY <1>2, <1>6, <1>7

LEMMA RepairedIs ==
    ASSUME NEW row \in Row
    PROVE  LET new == [row EXCEPT !.who = AccountOf[row.who]]
           IN  /\ new \in Row /\ new.id = row.id /\ new.token = row.token
               /\ new.who = AccountOf[row.who]
               /\ AccountOf[new.who] = AccountOf[row.who]
<1>1. /\ row.id \in Id /\ row.who \in Person /\ row.token \in Token
      /\ row.enabled \in BOOLEAN
  BY DEF Row
<1>2. AccountOf[row.who] \in Person /\ AccountOf[AccountOf[row.who]] = AccountOf[row.who]
  BY <1>1, InitialRows
<1>3. PICK new : new = [row EXCEPT !.who = AccountOf[row.who]]
  OBVIOUS
<1>4. new = [id |-> row.id, who |-> AccountOf[row.who], token |-> row.token,
             enabled |-> row.enabled]
  BY <1>3 DEF Row
<1>5. /\ new \in Row /\ new.id = row.id /\ new.token = row.token
      /\ new.who = AccountOf[row.who]
  BY <1>1, <1>2, <1>4 DEF Row
<1> QED
  BY <1>2, <1>3, <1>5

LEMMA SwitchedIs ==
    ASSUME NEW row \in Row, NEW on \in BOOLEAN
    PROVE  LET new == [row EXCEPT !.enabled = on]
           IN  /\ new \in Row /\ new.id = row.id /\ new.token = row.token
               /\ new.who = row.who
BY DEF Row

LEMMA NewcomersAre ==
    ASSUME Typed, NEW N, Newcomers(N)
    PROVE  /\ N \subseteq Row
           /\ \A row \in N : /\ row.id \notin used /\ row.id \in used'
                             /\ row.token.at = stamp' /\ row.token.of = row.who
                             /\ \A other \in N : other = row
<1>1. CASE N = {}
  BY <1>1
<1>2. ASSUME NEW who \in Logins, N = {NewRow(who)}, Id \ used # {},
             used' = used \cup {NewId}, stamp' = stamp + 1
      PROVE  /\ N \subseteq Row
             /\ \A row \in N : /\ row.id \notin used /\ row.id \in used'
                               /\ row.token.at = stamp' /\ row.token.of = row.who
                               /\ \A other \in N : other = row
  <2>1. who \in Person
    BY InitialRows
  <2>2. PICK row : row = NewRow(who)
    OBVIOUS
  <2>3. /\ row \in Row /\ row.id = NewId /\ row.who = who
        /\ row.token.of = who /\ row.token.at = stamp + 1
        /\ NewId \notin used
    BY <1>2, <2>1, <2>2, NewRowIs
  <2>4. N = {row}
    BY <1>2, <2>2
  <2> QED
    BY <1>2, <2>3, <2>4
<1> QED
  BY <1>1, <1>2 DEF Newcomers

\* The rows with given ids and tokens.
RowsWith(ids, last) == {row \in Row : row.id \in ids /\ row.token.at <= last}

LEMMA RowsWithClosed ==
    ASSUME Typed, stamp' \in {stamp, stamp + 1}, NEW ids
    PROVE  Closed(RowsWith(ids, stamp'))
<1> DEFINE T == RowsWith(ids, stamp')
<1>1. T \subseteq Row /\ \A r : r \in T <=> r \in Row /\ r.id \in ids
                                            /\ r.token.at <= stamp'
  BY DEF RowsWith
<1> HIDE DEF T
<1>2. ASSUME NEW r \in T, NEW on \in BOOLEAN PROVE [r EXCEPT !.enabled = on] \in T
  BY <1>1, SwitchedIs
<1>3. ASSUME NEW r \in T, NEW s \in T PROVE [r EXCEPT !.token = s.token] \in T
  <2>1. PICK new : new = [r EXCEPT !.token = s.token]
    OBVIOUS
  <2>2. new \in Row /\ new.id = r.id /\ new.token = s.token
    BY <1>1, <2>1, RowTypes
  <2> QED
    BY <1>1, <2>1, <2>2
<1>4. ASSUME NEW r \in T PROVE [r EXCEPT !.who = AccountOf[r.who]] \in T
  <2>1. PICK new : new = [r EXCEPT !.who = AccountOf[r.who]]
    OBVIOUS
  <2>2. new \in Row /\ new.id = r.id /\ new.token = r.token
    BY <1>1, <2>1, RepairedIs
  <2> QED
    BY <1>1, <2>1, <2>2
<1>5. ASSUME NEW r \in T, NEW new, Edited(r, new) PROVE new \in T
  <2>1. CASE \E on \in BOOLEAN : new = [r EXCEPT !.enabled = on]
    BY <1>2, <2>1
  <2>2. ASSUME NEW who \in Person, stamp' = stamp + 1, new = Reauthenticated(r, who)
        PROVE  new \in T
    <3>1. new \in Row /\ new.id = r.id /\ new.token.at = stamp + 1 /\ stamp \in Nat
      BY <1>1, <2>2, ReauthenticatedIs DEF Typed
    <3> QED
      BY <1>1, <2>2, <3>1
  <2> QED
    BY <1>5, <2>1, <2>2 DEF Edited
<1>6. Closed(T)
  BY <1>1, <1>2, <1>3, <1>4, <1>5 DEF Closed
<1> QED
  BY <1>6 DEF T

LEMMA TypedStep ==
    ASSUME Shaped, Typed, [Next]_vars
    PROVE  Shaped' /\ Typed'
<1>1. PICK N : Makes(N)
  BY StepMakes
<1> DEFINE T == RowsWith(used', stamp')
<1>2. /\ Newcomers(N) /\ used \subseteq used' /\ used' \subseteq Id
      /\ stamp' \in {stamp, stamp + 1} /\ stamp \in Nat
      /\ \A p \in Plugin : flow'[p].who \subseteq Person
  BY <1>1 DEF Makes, Typed
<1>3. Closed(T)
  BY <1>2, RowsWithClosed
<1>4. \A row : row \in T <=> row \in Row /\ row.id \in used' /\ row.token.at <= stamp'
  BY DEF RowsWith
<1> HIDE DEF T
<1>5. N \subseteq T
  BY <1>2, <1>4, NewcomersAre
<1>6. AllRows \subseteq T
  <2> SUFFICES ASSUME NEW row \in AllRows PROVE row \in T
    OBVIOUS
  <2>1. row \in Row /\ row.id \in used /\ row.token.at <= stamp
    BY DEF Typed
  <2>2. row.token.at \in Nat
    BY <2>1, RowTypes
  <2> QED
    BY <1>2, <1>4, <2>1, <2>2
<1>7. AllRows' \subseteq T /\ \A rows \in AllLists' : ListOf(T, rows)
  BY <1>1, <1>3, <1>5, <1>6, RowsStayIn
<1>8. stamp' \in Nat
  BY <1>2
<1>9. Typed'
  <2>1. \A rows \in AllLists' : rows \in Seq(Row)
    BY <1>7 DEF ListOf
  <2>2. \A row \in AllRows' :
            row \in Row /\ row.id \in used' /\ row.token.at <= stamp'
    BY <1>4, <1>7
  <2> QED
    BY <1>2, <1>8, <2>1, <2>2 DEF Typed
<1> QED
  BY <1>9, StepMakes

LEMMA TypedInit ==
    ASSUME Init
    PROVE  /\ Shaped /\ Typed
           /\ \A rows \in AllLists : rows = DiskRows(file) \/ rows = <<>>
           /\ AllRows = RowSet(DiskRows(file))
           /\ \A i \in DOMAIN DiskRows(file) :
                  /\ DiskRows(file)[i].id = InitialIds[i]
                  /\ DiskRows(file)[i].who = InitialIds[i]
                  /\ DiskRows(file)[i].token.of = InitialIds[i]
           /\ DOMAIN DiskRows(file) \subseteq DOMAIN InitialIds
<1> DEFINE row(i) == [id |-> InitialIds[i], who |-> InitialIds[i],
                      token |-> [of |-> InitialIds[i], at |-> 0], enabled |-> TRUE]
           rows == [i \in DOMAIN InitialIds |-> row(i)]
           D == DiskRows(file)
<1>1. /\ DOMAIN InitialIds = 1 .. Len(InitialIds) /\ Len(InitialIds) \in Nat
      /\ \A i \in DOMAIN InitialIds : InitialIds[i] \in Id /\ InitialIds[i] \in Person
  <2>1. InitialIds \in Seq(Id \cap Person)
    BY InitialRows
  <2> QED
    BY <2>1
<1>2. ASSUME NEW i \in DOMAIN InitialIds
      PROVE  /\ row(i) \in Row /\ row(i).id = InitialIds[i]
             /\ row(i).who = InitialIds[i] /\ row(i).token.of = InitialIds[i]
             /\ row(i).token.at = 0
  <2>1. InitialIds[i] \in Id /\ InitialIds[i] \in Person
    BY <1>1
  <2> QED
    BY <2>1 DEF Row, Token
<1>3. \A i \in DOMAIN InitialIds : rows[i] = row(i)
  OBVIOUS
<1>4. file.rows = rows
  BY DEF Init
<1> HIDE DEF row
<1>5. rows \in Seq(Row)
  <2>1. rows \in [1 .. Len(InitialIds) -> Row]
    BY <1>1, <1>2
  <2> QED
    BY <1>1, <2>1
<1>6. DOMAIN rows = DOMAIN InitialIds
  OBVIOUS
<1> HIDE DEF rows
<1>7. D \in {rows, <<>>}
  BY <1>4 DEF DiskRows
<1>8. /\ DOMAIN D \subseteq DOMAIN InitialIds /\ D \in Seq(Row)
      /\ \A i \in DOMAIN D : /\ D[i] \in Row /\ D[i].id = InitialIds[i]
                             /\ D[i].who = InitialIds[i]
                             /\ D[i].token.of = InitialIds[i] /\ D[i].token.at = 0
  <2>1. CASE D = rows
    BY <1>2, <1>3, <1>5, <1>6, <2>1
  <2>2. CASE D = <<>>
    <3>1. <<>> \in Seq(Row) /\ DOMAIN <<>> = {}
      OBVIOUS
    <3> QED
      BY <2>2, <3>1
  <2> QED
    BY <1>7, <2>1, <2>2
<1> HIDE DEF D
<1>9. /\ manager = [p \in Plugin |-> NoManager]
      /\ write = [w \in Writer |-> NoWrite]
      /\ edit = [c \in Command |-> NoEdit]
      /\ flow = [p \in Plugin |-> NoFlow]
      /\ used = {InitialIds[i] : i \in DOMAIN InitialIds} /\ stamp = 0
  BY DEF Init
<1>10. /\ NoManager.rows = <<>> /\ NoWrite.rows = <<>> /\ NoWrite.seen = {}
       /\ NoEdit.rows = <<>> /\ NoFlow.who = {}
       /\ IsManager(NoManager) /\ IsWrite(NoWrite)
  BY DEF NoManager, NoWrite, NoEdit, NoFlow, IsManager, IsWrite
<1>11. Shaped
  BY <1>9, <1>10 DEF Shaped
<1>12. \A list \in AllLists : list = D \/ list = <<>>
  BY <1>9, <1>10 DEF AllLists, D
<1>13. AllSeen = {}
  BY <1>9, <1>10 DEF AllSeen
<1>14. AllRows = RowSet(D)
  <2>1. RowSet(<<>>) = {}
    BY DEF RowSet
  <2>2. D \in AllLists
    BY ListsIs DEF D
  <2>3. UNION {RowSet(list) : list \in AllLists} = RowSet(D)
    BY <1>12, <2>1, <2>2
  <2> QED
    BY <1>13, <2>3 DEF AllRows
<1>15. \A r \in AllRows : r \in Row /\ r.id \in used /\ r.token.at <= stamp
  <2> TAKE r \in AllRows
  <2>1. PICK i \in DOMAIN D : r = D[i]
    BY <1>14 DEF RowSet
  <2>2. i \in DOMAIN InitialIds
    BY <1>8
  <2>3. InitialIds[i] \in used
    BY <1>9, <2>2
  <2>4. D[i] \in Row /\ D[i].id = InitialIds[i] /\ D[i].token.at = 0
    BY <1>8
  <2> QED
    BY <1>9, <2>1, <2>3, <2>4
<1>16. \A list \in AllLists : list \in Seq(Row)
  <2>1. <<>> \in Seq(Row)
    OBVIOUS
  <2> QED
    BY <1>8, <1>12, <2>1
<1>17. used \subseteq Id
  BY <1>1, <1>9
<1>18. \A p \in Plugin : flow[p].who \subseteq Person
  BY <1>9, <1>10
<1>19. Typed
  BY <1>9, <1>15, <1>16, <1>17, <1>18 DEF Typed
<1> QED
  BY <1>8, <1>11, <1>12, <1>14, <1>19 DEF D
------------------------------------------------------------------------------
(* Whose tokens rows have                                                  *)

\* The token of a row is its account's, and an id stands for one account.
Sound(S) ==
    \A r, s \in S : /\ AccountOf[r.token.of] = AccountOf[r.who]
                    /\ r.id = s.id => AccountOf[r.who] = AccountOf[s.who]

\* The rows that have an id of S with its account, and the account's tokens.
SoundWith(S) ==
    {r \in Row : /\ AccountOf[r.token.of] = AccountOf[r.who]
                 /\ \E s \in S : s.id = r.id /\ AccountOf[s.who] = AccountOf[r.who]}

LEMMA SoundWithIs ==
    ASSUME NEW S, S \subseteq Row, Sound(S)
    PROVE  S \subseteq SoundWith(S) /\ Sound(SoundWith(S))
<1>1. S \subseteq SoundWith(S)
  BY DEF Sound, SoundWith
<1>2. Sound(SoundWith(S))
  <2> SUFFICES ASSUME NEW r \in SoundWith(S), NEW s \in SoundWith(S)
               PROVE  /\ AccountOf[r.token.of] = AccountOf[r.who]
                      /\ r.id = s.id => AccountOf[r.who] = AccountOf[s.who]
    BY DEF Sound
  <2>1. PICK r0 \in S : r0.id = r.id /\ AccountOf[r0.who] = AccountOf[r.who]
    BY DEF SoundWith
  <2>2. PICK s0 \in S : s0.id = s.id /\ AccountOf[s0.who] = AccountOf[s.who]
    BY DEF SoundWith
  <2>3. r0.id = s0.id => AccountOf[r0.who] = AccountOf[s0.who]
    BY DEF Sound
  <2>4. AccountOf[r.token.of] = AccountOf[r.who]
    BY DEF SoundWith
  <2> QED
    BY <2>1, <2>2, <2>3, <2>4
<1> QED
  BY <1>1, <1>2

LEMMA SoundWithClosed ==
    ASSUME Typed, NEW S, S \subseteq Row, Sound(S), "misdirected" \notin mixed'
    PROVE  Closed(SoundWith(S))
<1> DEFINE T == SoundWith(S)
           Has(id, who) == \E s \in S : s.id = id /\ AccountOf[s.who] = AccountOf[who]
<1>1. /\ T \subseteq Row
      /\ \A r : r \in T <=> /\ r \in Row
                            /\ AccountOf[r.token.of] = AccountOf[r.who]
                            /\ Has(r.id, r.who)
  BY DEF SoundWith
<1>2. Sound(T)
  BY SoundWithIs
<1>3. \A id, who, other : Has(id, who) /\ AccountOf[who] = AccountOf[other]
                              => Has(id, other)
  OBVIOUS
<1> HIDE DEF T, Has
<1>4. ASSUME NEW r \in T, NEW on \in BOOLEAN PROVE [r EXCEPT !.enabled = on] \in T
  <2>1. PICK new : new = [r EXCEPT !.enabled = on]
    OBVIOUS
  <2>2. new \in Row /\ new.id = r.id /\ new.token = r.token /\ new.who = r.who
    BY <1>1, <2>1, SwitchedIs
  <2> QED
    BY <1>1, <2>1, <2>2
<1>5. ASSUME NEW r \in T, NEW s \in T,
             s.id = r.id \/ AccountOf[s.who] = AccountOf[r.who]
      PROVE  [r EXCEPT !.token = s.token] \in T
  <2>1. AccountOf[s.who] = AccountOf[r.who]
    BY <1>2, <1>5 DEF Sound
  <2>2. AccountOf[s.token.of] = AccountOf[r.who]
    BY <1>1, <2>1
  <2>3. PICK new : new = [r EXCEPT !.token = s.token]
    OBVIOUS
  <2>4. new \in Row /\ new.id = r.id /\ new.token = s.token /\ new.who = r.who
    <3>1. r \in Row /\ s \in Row
      BY <1>1
    <3>2. s.token \in Token
      BY <3>1, RowTypes
    <3> QED
      BY <2>3, <3>1, <3>2, RowTypes
  <2> QED
    BY <1>1, <2>2, <2>3, <2>4
<1>6. ASSUME NEW r \in T PROVE [r EXCEPT !.who = AccountOf[r.who]] \in T
  <2>1. PICK new : new = [r EXCEPT !.who = AccountOf[r.who]]
    OBVIOUS
  <2>2. /\ new \in Row /\ new.id = r.id /\ new.token = r.token
        /\ AccountOf[new.who] = AccountOf[r.who]
    BY <1>1, <2>1, RepairedIs
  <2>3. Has(new.id, new.who)
    BY <1>1, <1>3, <2>2
  <2> QED
    BY <1>1, <2>1, <2>2, <2>3
<1>7. ASSUME NEW r \in T, NEW new, Edited(r, new) PROVE new \in T
  <2>1. CASE \E on \in BOOLEAN : new = [r EXCEPT !.enabled = on]
    BY <1>4, <2>1
  <2>2. ASSUME NEW who \in Person, new = Reauthenticated(r, who), who = r.who
        PROVE  new \in T
    <3>1. new \in Row /\ new.id = r.id /\ new.who = who /\ new.token.of = who
      BY <1>1, <2>2, ReauthenticatedIs DEF Typed
    <3> QED
      BY <1>1, <2>2, <3>1
  <2> QED
    BY <1>7, <2>1, <2>2 DEF Edited
<1>8. Closed(T)
  BY <1>1, <1>4, <1>5, <1>6, <1>7 DEF Closed
<1> QED
  BY <1>8 DEF T

\* The rows of a state with the new ones of a step are sound, if the rows are.
LEMMA SoundNewcomers ==
    ASSUME Typed, NEW N, Newcomers(N), Sound(AllRows)
    PROVE  AllRows \cup N \subseteq Row /\ Sound(AllRows \cup N)
<1>1. /\ N \subseteq Row
      /\ \A row \in N : row.id \notin used /\ row.token.of = row.who
                        /\ \A other \in N : other = row
  BY NewcomersAre
<1>2. \A row \in AllRows : row \in Row /\ row.id \in used
  BY DEF Typed
<1>3. ASSUME NEW r \in AllRows \cup N, NEW s \in AllRows \cup N
      PROVE  /\ AccountOf[r.token.of] = AccountOf[r.who]
             /\ r.id = s.id => AccountOf[r.who] = AccountOf[s.who]
  <2>1. CASE r \in N /\ s \in N
    BY <1>1, <2>1
  <2>2. CASE r \in N /\ s \in AllRows
    BY <1>1, <1>2, <2>2
  <2>3. CASE r \in AllRows /\ s \in N
    <3>1. AccountOf[r.token.of] = AccountOf[r.who]
      BY <2>3 DEF Sound
    <3> QED
      BY <1>1, <1>2, <2>3, <3>1
  <2>4. CASE r \in AllRows /\ s \in AllRows
    BY <2>4 DEF Sound
  <2> QED
    BY <2>1, <2>2, <2>3, <2>4
<1> QED
  BY <1>1, <1>2, <1>3 DEF Sound

\* The inductive invariant of TokensStayWithAccount.
OwnTokens == "misdirected" \notin mixed => Sound(AllRows)

LEMMA OwnTokensStep ==
    ASSUME Shaped, Typed, OwnTokens, [Next]_vars
    PROVE  OwnTokens'
<1> SUFFICES ASSUME "misdirected" \notin mixed' PROVE Sound(AllRows)'
  BY DEF OwnTokens
<1>1. PICK N : Makes(N)
  BY StepMakes
<1>2. Newcomers(N) /\ mixed \subseteq mixed'
  BY <1>1 DEF Makes
<1>3. Sound(AllRows)
  BY <1>2 DEF OwnTokens
<1> DEFINE S == AllRows \cup N
<1>4. S \subseteq Row /\ Sound(S)
  BY <1>2, <1>3, SoundNewcomers
<1>5. Closed(SoundWith(S)) /\ S \subseteq SoundWith(S) /\ Sound(SoundWith(S))
  BY <1>4, SoundWithClosed, SoundWithIs
<1>6. AllRows' \subseteq SoundWith(S)
  <2>1. AllRows \subseteq SoundWith(S) /\ N \subseteq SoundWith(S)
    BY <1>5
  <2> HIDE DEF S
  <2> QED
    BY <1>1, <1>5, <2>1, RowsStayIn
<1> QED
  BY <1>5, <1>6 DEF Sound

LEMMA OwnTokensInit ==
    ASSUME Init
    PROVE  OwnTokens
<1>1. ASSUME NEW r \in AllRows, NEW s \in AllRows
      PROVE  /\ AccountOf[r.token.of] = AccountOf[r.who]
             /\ r.id = s.id => AccountOf[r.who] = AccountOf[s.who]
  <2> DEFINE D == DiskRows(file)
  <2>1. /\ AllRows = RowSet(D) /\ DOMAIN D \subseteq DOMAIN InitialIds
        /\ \A i \in DOMAIN D : D[i].id = InitialIds[i] /\ D[i].who = InitialIds[i]
                             /\ D[i].token.of = InitialIds[i]
    BY TypedInit
  <2> HIDE DEF D
  <2>2. PICK i \in DOMAIN D, j \in DOMAIN D : r = D[i] /\ s = D[j]
    BY <2>1 DEF RowSet
  <2> QED
    BY <2>1, <2>2
<1> QED
  BY <1>1 DEF OwnTokens, Sound

\* No merge, sync, repair, command or login gives an account the token of
\* another one; only the position that a slash command's reauth remembers
\* (src/commands/oauth-flow.ts:201) can.  For every number of processes and
\* whatever the load-time repair finds out about identities.
THEOREM TokensStay == Spec => []TokensStayWithAccount
<1>1. Init => Shaped /\ Typed /\ OwnTokens
  BY TypedInit, OwnTokensInit
<1>2. Shaped /\ Typed /\ OwnTokens /\ [Next]_vars => (Shaped /\ Typed /\ OwnTokens)'
  BY TypedStep, OwnTokensStep
<1>3. OwnTokens => TokensStayWithAccount
  <2> SUFFICES ASSUME OwnTokens, "misdirected" \notin mixed
               PROVE  \A rows \in AllLists : \A i \in DOMAIN rows :
                          AccountOf[rows[i].token.of] = AccountOf[rows[i].who]
    BY ListsIs DEF TokensStayWithAccount
  <2>1. \A rows \in AllLists : \A i \in DOMAIN rows : rows[i] \in AllRows
    BY ListsIs
  <2> QED
    BY <2>1 DEF OwnTokens, Sound
<1> QED
  BY <1>1, <1>2, <1>3, PTL DEF Spec
------------------------------------------------------------------------------
(* One row for an account                                                  *)

\* Where the load-time repair has nothing to find out: identities already say
\* which account a row is of.
Recognised == \A who \in Person : AccountOf[who] = who

LEMMA OwnRowsAgree ==
    ASSUME Recognised, Typed, Sound(AllRows)
    PROVE  Agree(AllRows)
<1> SUFFICES ASSUME NEW r \in AllRows, NEW s \in AllRows,
                    r.id = s.id \/ r.token = s.token
             PROVE  r.who = s.who
  BY DEF Agree
<1>1. r \in Row /\ s \in Row
  BY DEF Typed
<1>2. /\ r.who \in Person /\ s.who \in Person
      /\ r.token.of \in Person /\ s.token.of \in Person
  BY <1>1, RowTypes
<1>3. /\ AccountOf[r.who] = r.who /\ AccountOf[s.who] = s.who
      /\ AccountOf[r.token.of] = r.token.of /\ AccountOf[s.token.of] = s.token.of
  BY <1>2 DEF Recognised
<1>4. /\ AccountOf[r.token.of] = AccountOf[r.who]
      /\ AccountOf[s.token.of] = AccountOf[s.who]
      /\ r.id = s.id => AccountOf[r.who] = AccountOf[s.who]
  BY DEF Sound
<1> QED
  BY <1>3, <1>4

\* A row that is edited, and not misdirected, stays the row of its account.
LEMMA EditedIs ==
    ASSUME Typed, NEW old \in Row, NEW row, Edited(old, row),
           "misdirected" \notin mixed'
    PROVE  row \in Row /\ row.id = old.id /\ row.who = old.who
<1>1. CASE \E on \in BOOLEAN : row = [old EXCEPT !.enabled = on]
  BY <1>1, SwitchedIs
<1>2. ASSUME NEW who \in Person, row = Reauthenticated(old, who), who = old.who
      PROVE  row \in Row /\ row.id = old.id /\ row.who = old.who
  BY <1>2, ReauthenticatedIs DEF Typed
<1> QED
  BY <1>1, <1>2 DEF Edited

\* Each operator makes a list without duplicates from such lists.
LEMMA MadeDistinct ==
    ASSUME Typed, Agree(AllRows), NEW N, Newcomers(N), mixed' = {},
           NEW rows \in AllLists, Distinct(rows), Distinct(DiskRows(file)),
           NEW new, MadeFrom(new, rows, N)
    PROVE  Distinct(new)
<1> DEFINE D == DiskRows(file)
<1>1. /\ rows \in Seq(Row) /\ D \in Seq(Row) /\ stamp \in Nat
      /\ \A i \in DOMAIN rows : /\ rows[i] \in AllRows /\ rows[i] \in Row
                                /\ rows[i].id \in used
                                /\ rows[i].token.at <= stamp
      /\ \A i \in DOMAIN D : D[i] \in AllRows
  BY ListsIs DEF Typed
<1>2. RowSet(rows) \subseteq AllRows /\ RowSet(D) \subseteq AllRows
  BY <1>1 DEF RowSet
<1> HIDE DEF D
<1>3. CASE new = <<>> \/ new = rows
  BY <1>3 DEF Distinct
<1>4. ASSUME NEW dropped, new = Merged(rows, dropped, file) PROVE Distinct(new)
  BY <1>1, <1>2, <1>4, MergedDistinct DEF D
<1>5. ASSUME NEW S, NEW dropped, S \subseteq DOMAIN rows,
             new = Merged(ElementsAt(rows, S), dropped, file)
      PROVE  Distinct(new)
  <2>1. PICK kept : kept = ElementsAt(rows, S)
    OBVIOUS
  <2>2. /\ kept \in Seq(Row) /\ Distinct(kept)
        /\ \A m \in DOMAIN kept : \E i \in DOMAIN rows : kept[m] = rows[i]
    BY <1>1, <1>5, <2>1, RowsAtIs, RowsAtDistinct
  <2>3. RowSet(kept) \subseteq AllRows
    BY <1>1, <2>2 DEF RowSet
  <2> QED
    BY <1>1, <1>2, <1>5, <2>1, <2>2, <2>3, MergedDistinct DEF D
<1>6. CASE new = FreshestRows(rows, file)
  <2>1. /\ DOMAIN new = DOMAIN rows
        /\ \A i \in DOMAIN rows : new[i].id = rows[i].id /\ new[i].who = rows[i].who
    BY <1>1, <1>6, FreshestRowsIs DEF D
  <2> QED
    BY <2>1 DEF Distinct
<1>7. CASE new \in Deduplicated(rows)
  <2>1. \A i, j \in DOMAIN rows : rows[i].token = rows[j].token => i = j
    BY <1>1 DEF Agree, Distinct
  <2> QED
    BY <1>1, <1>7, <2>1, DeduplicatedIs
<1>8. CASE new = Collapse(rows)
  BY <1>1, <1>8, CollapseIs
<1>9. CASE file # NoFile /\ new = Reconciled(rows, file)
  <2>1. file.rows = D
    BY <1>9 DEF D, DiskRows
  <2> QED
    BY <1>1, <1>2, <1>9, <2>1, ReconciledInOrder DEF D
<1>10. ASSUME NEW i \in DOMAIN rows, new = RemoveAt(rows, i) PROVE Distinct(new)
  <2> DEFINE was(j) == IF j < i THEN j ELSE j + 1
  <2>1. /\ \A j \in DOMAIN new : was(j) \in DOMAIN rows /\ new[j] = rows[was(j)]
        /\ DOMAIN new \subseteq Nat
    BY <1>1, <1>10, RemoveAtIs
  <2>2. i \in Nat
    BY <1>1, SeqIs
  <2>3. \A j, k \in DOMAIN new : was(j) = was(k) => j = k
    BY <2>1, <2>2
  <2> HIDE DEF was
  <2> QED
    BY <2>1, <2>3 DEF Distinct
<1>11. ASSUME NEW i \in DOMAIN rows, NEW row, Edited(rows[i], row),
              new = Put(rows, i, row) \/ new = [rows EXCEPT ![i] = row]
       PROVE  Distinct(new)
  <2>1. row \in Row /\ row.id = rows[i].id /\ row.who = rows[i].who
    BY <1>1, <1>11, EditedIs
  <2>2. /\ DOMAIN new = DOMAIN rows
        /\ \A k \in DOMAIN rows : \/ new[k] = rows[k]
                                  \/ new[k] = row /\ rows[k].id = rows[i].id
    BY <1>1, <1>11, <2>1, PutIs
  <2>3. \A k \in DOMAIN rows : rows[k].id = rows[i].id => k = i
    BY DEF Distinct
  <2>4. \A k \in DOMAIN rows : new[k].id = rows[k].id /\ new[k].who = rows[k].who
    BY <2>1, <2>2, <2>3
  <2> QED
    BY <2>2, <2>4 DEF Distinct
<1>12. ASSUME NEW row \in N, Appended(new, rows, row) PROVE Distinct(new)
  <2>1. row \in Row /\ row.id \notin used
    BY NewcomersAre
  <2>2. new = Append(rows, row) /\ \A i \in DOMAIN rows : rows[i].who # row.who
    BY <1>12 DEF Appended
  <2>3. DOMAIN rows = 1 .. Len(rows) /\ Len(rows) \in Nat
    BY <1>1
  <2>4. /\ DOMAIN new = 1 .. Len(rows) + 1 /\ new[Len(rows) + 1] = row
        /\ \A i \in DOMAIN rows : new[i] = rows[i]
    BY <1>1, <2>1, <2>2
  <2>5. \A i \in DOMAIN rows : rows[i].id # row.id
    BY <1>1, <2>1
  <2> QED
    BY <2>2, <2>3, <2>4, <2>5 DEF Distinct
<1> QED
  BY <1>3, <1>4, <1>5, <1>6, <1>7, <1>8, <1>9, <1>10, <1>11, <1>12, Zenon
     DEF MadeFrom

\* The inductive invariant of NoDuplicateRows.
NoTwins == mixed = {} => \A rows \in AllLists : Distinct(rows)

LEMMA NoTwinsStep ==
    ASSUME Recognised, Shaped, Typed, OwnTokens, NoTwins, [Next]_vars
    PROVE  NoTwins'
<1> SUFFICES ASSUME mixed' = {} PROVE \A new \in AllLists' : Distinct(new)
  BY DEF NoTwins
<1>1. PICK N : Makes(N)
  BY StepMakes
<1>2. /\ Newcomers(N) /\ mixed = {}
      /\ \A new \in AllLists' : \E rows \in AllLists : MadeFrom(new, rows, N)
  BY <1>1 DEF Makes
<1>3. Agree(AllRows)
  BY <1>2, OwnRowsAgree DEF OwnTokens
<1>4. \A rows \in AllLists : Distinct(rows)
  BY <1>2 DEF NoTwins
<1> TAKE new \in AllLists'
<1>5. PICK rows \in AllLists : MadeFrom(new, rows, N)
  BY <1>2
<1> QED
  BY <1>2, <1>3, <1>4, <1>5, ListsIs, MadeDistinct

LEMMA NoTwinsInit ==
    ASSUME Init
    PROVE  NoTwins
<1> DEFINE D == DiskRows(file)
<1>1. /\ \A rows \in AllLists : rows = D \/ rows = <<>>
      /\ \A i \in DOMAIN D : D[i].id = InitialIds[i] /\ D[i].who = InitialIds[i]
      /\ DOMAIN D \subseteq DOMAIN InitialIds
  BY TypedInit
<1> HIDE DEF D
<1>2. Distinct(D)
  BY <1>1, InitialRows DEF Distinct
<1>3. Distinct(<<>>)
  BY DEF Distinct
<1> QED
  BY <1>1, <1>2, <1>3 DEF NoTwins

\* All that the steps keep, where identities say whose the rows are.
Kept == Shaped /\ Typed /\ OwnTokens /\ NoTwins

LEMMA KeptAlways == ASSUME Recognised PROVE Spec => []Kept
<1>1. Init => Kept
  BY TypedInit, OwnTokensInit, NoTwinsInit DEF Kept
<1>2. Kept /\ [Next]_vars => Kept'
  BY TypedStep, OwnTokensStep, NoTwinsStep DEF Kept
<1> QED
  BY <1>1, <1>2, PTL DEF Spec

\* However saves, syncs, commands, logins and restarts interleave, no account
\* has two rows anywhere, for every number of processes and accounts.
THEOREM NoDuplicates == ASSUME Recognised PROVE Spec => []NoDuplicateRows
<1>1. Kept => NoDuplicateRows
  BY ListsIs DEF Kept, NoTwins, NoDuplicateRows
<1> QED
  BY <1>1, KeptAlways, PTL
------------------------------------------------------------------------------
(* What a save of a writer is on its way to write                          *)

\* A save begins: with the writer's active account as active, and without the
\* rows that a manager means to take out.
Begins(w) ==
    \E storage, dropped, wanted, victim, for :
        /\ BeginWrite(w, storage, dropped, wanted, victim, for)
        /\ wanted \cap Ids(storage.rows) \subseteq IdAt(storage.rows, storage.active)
        /\ w \in Plugin => /\ victim \subseteq dropped
                           /\ victim \cap Ids(storage.rows) = {}

\* Of the save of w a step does nothing, ends it, merges it or begins it.
Works(w) ==
    write'[w] = write[w] \/ write'[w] = NoWrite \/ MergeWithDisk(w) \/ Begins(w)

LEMMA CommitWorks ==
    ASSUME Shaped, NEW w \in Writer, NEW c \in Command, NEW rows, NEW active,
           NEW victim, Commit(c, rows, active, victim)
    PROVE  Works(w)
<1>1. PICK storage : storage = [rows |-> rows, active |-> Clamp(rows, active)]
  OBVIOUS
<1>2. BeginWrite(c, storage, {}, IdAt(storage.rows, storage.active), victim, {})
  BY <1>1 DEF Commit
<1>3. c \in Writer /\ c \notin Plugin
  BY WritersDiffer DEF Writer
<1>4. CASE w = c
  BY <1>2, <1>3, <1>4 DEF Begins, Works
<1>5. CASE w # c
  BY <1>2, <1>3, <1>5, BeginWriteIs DEF Works
<1> QED
  BY <1>4, <1>5

LEMMA SlashWorks ==
    ASSUME Shaped, NEW w \in Writer, NEW p, NEW c \in Command, NEW rows,
           SlashSave(p, c, rows)
    PROVE  Works(w)
<1>1. PICK storage : storage = [rows |-> rows, active |-> DiskActive]
  OBVIOUS
<1>2. BeginWrite(c, storage, {}, IdAt(storage.rows, storage.active), {}, {p})
  BY <1>1 DEF SlashSave
<1>3. c \in Writer /\ c \notin Plugin
  BY WritersDiffer DEF Writer
<1>4. CASE w = c
  BY <1>2, <1>3, <1>4 DEF Begins, Works
<1>5. CASE w # c
  BY <1>2, <1>3, <1>5, BeginWriteIs DEF Works
<1> QED
  BY <1>4, <1>5

LEMMA SaveWorks ==
    ASSUME Shaped, Typed, NEW w \in Writer, NEW p \in Plugin, SaveToDisk(p)
    PROVE  Works(w)
<1> DEFINE rows == manager[p].rows
           dropped == manager[p].dropped
           wanted == IdAt(rows, manager[p].current)
           victim == dropped \ Ids(rows)
<1>1. PICK storage : storage = Prepare(rows, manager[p].current, dropped, file)
  OBVIOUS
<1>2. BeginWrite(p, storage, dropped, wanted, victim, {})
  BY <1>1 DEF SaveToDisk
<1>3. rows \in Seq(Row) /\ DiskRows(file) \in Seq(Row) /\ p \in Writer
  BY ListsIs DEF Typed, Writer
<1> HIDE DEF rows
<1>4. /\ Ids(storage.rows) \cap dropped \subseteq Ids(rows)
      /\ wanted \cap Ids(storage.rows) \subseteq IdAt(storage.rows, storage.active)
  BY <1>1, <1>3, PrepareIs
<1>5. victim \subseteq dropped /\ victim \cap Ids(storage.rows) = {}
  BY <1>4
<1> HIDE DEF dropped, wanted, victim
<1>6. CASE w = p
  BY <1>2, <1>4, <1>5, <1>6 DEF Begins, Works
<1>7. CASE w # p
  BY <1>2, <1>3, <1>7, BeginWriteIs DEF Works
<1> QED
  BY <1>6, <1>7

LEMMA StepWorks ==
    ASSUME Shaped, Typed, NEW w \in Writer, [Next]_vars
    PROVE  Works(w)
<1>1. ASSUME NEW v \in Writer, MergeWithDisk(v) PROVE Works(w)
  BY <1>1, MergeIs DEF Works
<1>2. ASSUME NEW v \in Writer, Rename(v) PROVE Works(w)
  BY <1>2, RenameIs DEF Works
<1>3. CASE write' = write
  BY <1>3 DEF Works
<1>4. ASSUME NEW p \in Plugin, PluginStep(p) PROVE Works(w)
  <2>1. CASE SaveToDisk(p)
    BY <2>1, SaveWorks
  <2>2. CASE Exit(p)
    BY <2>2 DEF Exit, Works
  <2>3. CASE \/ Start(p) \/ Reload(p) \/ Sync(p) \/ Select(p) \/ Toggle(p) \/ Login(p)
             \/ RemoveAccount(p) \/ StartFresh(p) \/ StartReauth(p) \/ DropFlow(p)
    <3>1. write' = write
      BY <2>3, Zenon DEF Start, Reload, Sync, Select, Toggle, Login,
                         RemoveAccount, StartFresh, StartReauth, DropFlow
    <3> QED
      BY <1>3, <3>1
  <2> QED
    BY <1>4, <2>1, <2>2, <2>3, Zenon DEF PluginStep
<1>5. ASSUME NEW c \in Command, CommandStep(c) PROVE Works(w)
  <2>1. CASE Load(c) \/ Cancel(c)
    BY <1>3, <2>1 DEF Load, Cancel
  <2>2. CASE CmdSwitch(c) \/ CmdEnable(c) \/ CmdDisable(c) \/ CmdReset(c)
    BY <2>2, CommitWorks, Zenon DEF CmdSwitch, CmdEnable, CmdDisable, CmdReset
  <2>3. CASE CmdRemove(c) \/ CmdLogoutAll(c)
    BY <2>3, CommitWorks, Zenon DEF CmdRemove, CmdLogoutAll
  <2>4. CASE CmdLogin(c) \/ CmdReauth(c)
    BY <2>4, CommitWorks, Zenon DEF CmdLogin, CmdReauth
  <2>5. ASSUME NEW p \in Plugin, SlashLogin(p, c) \/ CompleteReauth(p, c)
        PROVE  Works(w)
    BY <2>5, SlashWorks, Zenon DEF SlashLogin, CompleteReauth
  <2> QED
    BY <1>5, <2>1, <2>2, <2>3, <2>4, <2>5, Zenon DEF CommandStep
<1>6. CASE UNCHANGED vars
  BY <1>3, <1>6 DEF vars
<1> QED
  BY <1>1, <1>2, <1>4, <1>5, <1>6, Zenon DEF Next

\* Only the writer's own rename replaces the file at the end of its save.
LEMMA CompletesIs ==
    ASSUME Shaped, NEW w \in Writer, Completes(w), [Next]_vars
    PROVE  Rename(w)
<1>1. write[w].stage = "rename" /\ write'[w].stage = "none" /\ file' # file
  BY DEF Completes
<1>2. write'[w] # write[w]
  BY <1>1
<1>3. ASSUME NEW v \in Writer, Rename(v) PROVE Rename(w)
  <2>1. v # w => write'[w] = write[w]
    BY <1>3, RenameIs
  <2> QED
    BY <1>2, <1>3, <2>1
<1>4. ASSUME NEW v \in Writer, MergeWithDisk(v) PROVE Rename(w)
  BY <1>1, <1>4 DEF MergeWithDisk
<1>5. ASSUME NEW p \in Plugin, PluginStep(p) PROVE file' = file \/ write' = write
  <2>1. CASE StartFresh(p)
    BY <2>1 DEF StartFresh
  <2>2. CASE ~StartFresh(p)
    BY <1>5, <2>2, Zenon DEF PluginStep, Start, Reload, SaveToDisk, Sync, Select,
       Toggle, Login, RemoveAccount, Exit, StartReauth, DropFlow
  <2> QED
    BY <2>1, <2>2
<1>6. ASSUME NEW c \in Command, CommandStep(c) PROVE file' = file
  <2>1. CASE \E p \in Plugin : SlashLogin(p, c) \/ CompleteReauth(p, c)
    BY <2>1, Zenon DEF SlashLogin, CompleteReauth, SlashSave
  <2>2. CASE ~\E p \in Plugin : SlashLogin(p, c) \/ CompleteReauth(p, c)
    BY <1>6, <2>2, Zenon DEF CommandStep, Load, Cancel, CmdSwitch, CmdEnable,
       CmdDisable, CmdRemove, CmdLogoutAll, CmdReset, CmdLogin, CmdReauth, Commit
  <2> QED
    BY <2>1, <2>2
<1>7. CASE UNCHANGED vars
  BY <1>1, <1>7 DEF vars
<1> QED
  BY <1>1, <1>2, <1>3, <1>4, <1>5, <1>6, <1>7, Zenon DEF Next
\* What the save of w keeps to: its active account stays active, and what a
\* manager takes out stays out.
Promises(w) ==
    /\ write[w].wanted \subseteq IdAt(write[w].rows, write[w].active)
    /\ w \in Plugin => /\ write[w].victim \subseteq write[w].dropped
                       /\ write[w].victim \cap Ids(write[w].rows) = {}

\* A merge brings no dropped row back.
LEMMA MergedIds ==
    ASSUME NEW rows \in Seq(Row), NEW dropped, DiskRows(file) \in Seq(Row)
    PROVE  Ids(Merged(rows, dropped, file)) \cap dropped \subseteq Ids(rows)
<1> DEFINE new == Merged(rows, dropped, file)
           others == Foreign(rows, dropped, file)
<1>1. /\ \A i \in DOMAIN rows : new[i] = Freshest(rows[i], file)
      /\ \A j \in DOMAIN new : j \notin DOMAIN rows =>
             /\ j - Len(rows) \in DOMAIN others
             /\ new[j] = others[j - Len(rows)]
  BY MergedIs
<1>2. \A n \in DOMAIN others : others[n].id \notin dropped
  BY ForeignIs
<1>3. \A i \in DOMAIN rows : Freshest(rows[i], file).id = rows[i].id
  <2> TAKE i \in DOMAIN rows
  <2>1. rows[i] \in Row
    BY SeqIs
  <2> QED
    BY <2>1, FreshestIs
<1> HIDE DEF new, others
<1>4. ASSUME NEW j \in DOMAIN new, new[j].id \in dropped PROVE new[j].id \in Ids(rows)
  <2>1. j \in DOMAIN rows
    BY <1>1, <1>2, <1>4
  <2> QED
    BY <1>1, <1>3, <2>1 DEF Ids
<1> QED
  BY <1>4 DEF Ids, new

LEMMA PromisesKept ==
    ASSUME Shaped, Typed, NEW w \in Writer, Promises(w), [Next]_vars
    PROVE  Promises(w)'
<1>1. Works(w)
  BY StepWorks
<1>2. CASE write'[w] = write[w]
  BY <1>2 DEF Promises
<1>3. CASE write'[w] = NoWrite
  BY <1>3 DEF Promises, NoWrite, IdAt, Ids
<1>4. CASE MergeWithDisk(w)
  <2> DEFINE rows == write[w].rows
             active == write[w].active
             dropped == write[w].dropped
             new == Union(rows, active, dropped, file)
  <2>1. write'[w] = [write[w] EXCEPT !.stage = "rename", !.rows = new.rows,
                        !.active = new.active, !.seen = RowSet(DiskRows(file))]
    BY <1>4, MergeIs
  <2>2. IsWrite(write[w]) /\ rows \in Seq(Row) /\ DiskRows(file) \in Seq(Row)
    BY ListsIs DEF Shaped, Typed
  <2> HIDE DEF new
  <2>3. /\ write'[w].rows = new.rows /\ write'[w].active = new.active
        /\ write'[w].dropped = dropped /\ write'[w].wanted = write[w].wanted
        /\ write'[w].victim = write[w].victim
    BY <2>1, <2>2 DEF IsWrite
  <2> HIDE DEF rows, active, dropped
  <2>4. /\ new.rows = rows \/ new.rows = Merged(rows, dropped, file)
        /\ IdAt(rows, active) \subseteq IdAt(new.rows, new.active)
    BY <2>2, UnionIs DEF new
  <2>5. Ids(new.rows) \cap dropped \subseteq Ids(rows)
    BY <2>2, <2>4, MergedIds
  <2>6. /\ write[w].wanted \subseteq IdAt(rows, active)
        /\ w \in Plugin => /\ write[w].victim \subseteq dropped
                           /\ write[w].victim \cap Ids(rows) = {}
    BY DEF Promises, rows, active, dropped
  <2>7. /\ write'[w].wanted \subseteq IdAt(new.rows, new.active)
        /\ w \in Plugin => /\ write'[w].victim \subseteq dropped
                           /\ write'[w].victim \cap Ids(new.rows) = {}
    BY <2>3, <2>4, <2>5, <2>6
  <2> QED
    BY <2>3, <2>7 DEF Promises
<1>5. CASE Begins(w)
  <2>1. PICK storage, dropped, wanted, victim, for :
            /\ BeginWrite(w, storage, dropped, wanted, victim, for)
            /\ wanted \cap Ids(storage.rows)
                   \subseteq IdAt(storage.rows, storage.active)
            /\ w \in Plugin => /\ victim \subseteq dropped
                               /\ victim \cap Ids(storage.rows) = {}
    BY <1>5 DEF Begins
  <2>2. write'[w] = [stage |-> "merge", rows |-> storage.rows,
                     active |-> storage.active, dropped |-> dropped,
                     wanted |-> wanted \cap Ids(storage.rows),
                     seen |-> {}, victim |-> victim, for |-> for]
    BY <2>1, BeginWriteIs
  <2> QED
    BY <2>1, <2>2 DEF Promises
<1> QED
  BY <1>1, <1>2, <1>3, <1>4, <1>5 DEF Works

\* What holds whatever identities say.
Base == Shaped /\ Typed /\ OwnTokens /\ \A w \in Writer : Promises(w)

LEMMA BaseInit == ASSUME Init PROVE Base
<1>1. \A w \in Writer : write[w] = NoWrite
  BY DEF Init
<1>2. \A w \in Writer : Promises(w)
  BY <1>1 DEF Promises, NoWrite, IdAt, Ids
<1> QED
  BY <1>2, TypedInit, OwnTokensInit DEF Base

LEMMA BaseStep == ASSUME Base, [Next]_vars PROVE Base'
BY TypedStep, OwnTokensStep, PromisesKept DEF Base

\* The rows that the load-time repair has collapsed do not come back through
\* the merges of the save that follows it (#pendingDroppedIds): no process,
\* command or restart in between can bring them back.
THEOREM CollapsedStayOut == Spec => CollapsedRowsStayOut
<1>1. Init => Base
  BY BaseInit
<1>2. Base /\ [Next]_vars => Base'
  BY BaseStep
<1>3. Base /\ [Next]_vars =>
         [\A p \in Plugin : Completes(p) =>
             write[p].victim \cap Ids(file'.rows) = {}]_vars
  <2> SUFFICES ASSUME Base, [Next]_vars, NEW p \in Plugin, Completes(p)
               PROVE  write[p].victim \cap Ids(file'.rows) = {}
    BY Zenon
  <2>1. p \in Writer
    BY DEF Writer
  <2>2. Rename(p)
    BY <2>1, CompletesIs DEF Base
  <2>3. file'.rows \in Deduplicated(write[p].rows)
    BY <2>1, <2>2, RenameIs DEF Base
  <2>4. write[p].rows \in Seq(Row)
    BY <2>1, ListsIs DEF Base, Typed
  <2>5. \A m \in DOMAIN file'.rows : \E i \in DOMAIN write[p].rows :
            file'.rows[m] = write[p].rows[i]
    BY <2>3, <2>4, DeduplicatedIs
  <2>6. Ids(file'.rows) \subseteq Ids(write[p].rows)
    BY <2>5 DEF Ids
  <2>7. write[p].victim \cap Ids(write[p].rows) = {}
    BY <2>1 DEF Base, Promises
  <2> QED
    BY <2>6, <2>7
<1> QED
  BY <1>1, <1>2, <1>3, PTL DEF Spec, CollapsedRowsStayOut

\* Where no list has an account twice, reading the file back changes nothing.
LEMMA NothingToDeduplicate ==
    ASSUME Recognised, Typed, OwnTokens, NoTwins, mixed = {}, NEW w \in Writer,
           NEW new \in Deduplicated(write[w].rows)
    PROVE  new = write[w].rows
<1> DEFINE rows == write[w].rows
<1>1. /\ rows \in Seq(Row) /\ Distinct(rows)
      /\ \A i \in DOMAIN rows : rows[i] \in AllRows
  BY ListsIs DEF Typed, NoTwins
<1>2. Agree(AllRows)
  BY OwnRowsAgree DEF OwnTokens
<1> HIDE DEF rows
<1>3. \A i, j \in DOMAIN rows : rows[i].token = rows[j].token => i = j
  BY <1>1, <1>2 DEF Agree, Distinct
<1>4. new \in Deduplicated(rows)
  BY DEF rows
<1>5. new = rows
  BY <1>1, <1>3, <1>4, DeduplicatedIs
<1> QED
  BY <1>5 DEF rows

LEMMA BaseAlways == Spec => []Base
<1>1. Init => Base
  BY BaseInit
<1>2. Base /\ [Next]_vars => Base'
  BY BaseStep
<1> QED
  BY <1>1, <1>2, PTL DEF Spec

\* activeIndex is a position, and every merge moves positions: the save still
\* leaves as active the account its writer had as active, whoever else writes.
THEOREM ActiveSurvives ==
    ASSUME Recognised PROVE Spec => ActiveAccountSurvivesMerge
<1>1. Base /\ Kept /\ [Next]_vars =>
         [\A w \in Writer : Completes(w) /\ mixed = {} =>
             write[w].wanted \subseteq IdAt(file'.rows, file'.active)]_vars
  <2> SUFFICES ASSUME Base, Kept, [Next]_vars, NEW w \in Writer, Completes(w),
                      mixed = {}
               PROVE  write[w].wanted \subseteq IdAt(file'.rows, file'.active)
    BY Zenon
  <2>1. Rename(w)
    BY CompletesIs DEF Base
  <2>2. /\ file' = [rows |-> file'.rows, active |-> write[w].active]
        /\ file'.rows \in Deduplicated(write[w].rows)
    BY <2>1, RenameIs DEF Base
  <2>3. file'.rows = write[w].rows
    BY <2>2, NothingToDeduplicate DEF Kept
  <2>4. file'.active = write[w].active
    BY <2>2
  <2>5. write[w].wanted \subseteq IdAt(write[w].rows, write[w].active)
    BY DEF Base, Promises
  <2> QED
    BY <2>3, <2>4, <2>5
<1> QED
  BY <1>1, BaseAlways, KeptAlways, PTL DEF Spec, ActiveAccountSurvivesMerge
\* Rows have the shape of rows, ids that were given out and tokens that have
\* been issued, in the file, in every manager, payload and command.
THEOREM TypeCorrect == Spec => [](Shaped /\ Typed)
<1>1. Base => Shaped /\ Typed
  BY DEF Base
<1> QED
  BY <1>1, BaseAlways, PTL

------------------------------------------------------------------------------
(* What a save leaves of the rows that it has seen                         *)

\* Every row of the file is merged into a row of its account that is as new,
\* or it is meant to go.
LEMMA MergeCovers ==
    ASSUME Typed, Agree(AllRows), NEW rows \in AllLists, NEW dropped,
           NEW k \in DOMAIN DiskRows(file), DiskRows(file)[k].id \notin dropped
    PROVE  LET new == Merged(rows, dropped, file)
               old == DiskRows(file)[k]
           IN  \E m \in DOMAIN new : /\ new[m].who = old.who
                                     /\ new[m].token.at >= old.token.at
<1> DEFINE D == DiskRows(file)
           new == Merged(rows, dropped, file)
           others == Foreign(rows, dropped, file)
<1>1. /\ rows \in Seq(Row) /\ D \in Seq(Row)
      /\ \A i \in DOMAIN rows : rows[i] \in AllRows /\ rows[i] \in Row
      /\ D[k] \in AllRows /\ D[k] \in Row
  BY ListsIs DEF Typed
<1>2. /\ \A i \in DOMAIN rows : i \in DOMAIN new /\ new[i] = Freshest(rows[i], file)
      /\ \A n \in DOMAIN others : /\ Len(rows) + n \in DOMAIN new
                                  /\ new[Len(rows) + n] = others[n]
  BY <1>1, MergedIs
<1>3. (\A i \in DOMAIN rows : Find(D, rows[i]) # k)
          => \E n \in DOMAIN others : others[n] = D[k]
  BY <1>1, ForeignIs
<1>4. D[k].token.at \in Nat
  BY <1>1, RowTypes
<1>5. k \in Nat \ {0}
  BY <1>1, SeqIs
<1>6. CASE \A i \in DOMAIN rows : Find(D, rows[i]) # k
  <2> HIDE DEF D, new, others
  <2>1. PICK n \in DOMAIN others : others[n] = D[k]
    BY <1>3, <1>6
  <2>2. Len(rows) + n \in DOMAIN new /\ new[Len(rows) + n] = D[k]
    BY <1>2, <2>1
  <2>3. D[k].token.at >= D[k].token.at
    BY <1>4
  <2> QED
    BY <2>2, <2>3 DEF D, new
<1>7. ASSUME NEW i \in DOMAIN rows, Find(D, rows[i]) = k
      PROVE  \E m \in DOMAIN new : /\ new[m].who = D[k].who
                                   /\ new[m].token.at >= D[k].token.at
  <2>1. Matches(D[k], rows[i])
    BY <1>1, <1>5, <1>7, FindIs
  <2>2. D[k].who = rows[i].who
    BY <1>1, <2>1 DEF Matches, Agree
  <2>3. /\ Freshest(rows[i], file).who = rows[i].who
        /\ Freshest(rows[i], file).token.at >= D[k].token.at
    BY <1>1, <1>7, FreshestIs
  <2> HIDE DEF D, new
  <2> QED
    BY <1>2, <2>2, <2>3
<1> QED
  BY <1>6, <1>7

\* The rows that the save of w has seen are in what it writes, or go because
\* their ids are dropped or everything is.
Covers(w) ==
    \A old \in write[w].seen :
        \/ old.id \in write[w].dropped
        \/ write[w].rows = <<>>
        \/ \E m \in DOMAIN write[w].rows :
               /\ write[w].rows[m].who = old.who
               /\ write[w].rows[m].token.at >= old.token.at

\* The inductive invariant of RowsLostOnPurpose.
Covered == "misdirected" \notin mixed => \A w \in Writer : Covers(w)

LEMMA MergeInto ==
    ASSUME Shaped, Typed, Agree(AllRows), NEW w \in Writer, MergeWithDisk(w)
    PROVE  Covers(w)'
<1> DEFINE rows == write[w].rows
           dropped == write[w].dropped
           D == DiskRows(file)
           new == Union(rows, write[w].active, dropped, file)
<1>1. write'[w] = [write[w] EXCEPT !.stage = "rename", !.rows = new.rows,
                      !.active = new.active, !.seen = RowSet(D)]
  BY MergeIs
<1>2. IsWrite(write[w]) /\ rows \in Seq(Row) /\ D \in Seq(Row) /\ rows \in AllLists
  BY ListsIs DEF Shaped, Typed
<1> HIDE DEF new
<1>3. /\ write'[w].rows = new.rows /\ write'[w].dropped = dropped
      /\ write'[w].seen = RowSet(D)
  BY <1>1, <1>2 DEF IsWrite
<1> HIDE DEF rows, dropped
<1>4. \/ new.rows = rows /\ (file = NoFile \/ rows = <<>>)
      \/ new.rows = Merged(rows, dropped, file)
  BY <1>2, UnionIs DEF new
<1>5. ASSUME NEW k \in DOMAIN D, D[k].id \notin dropped, new.rows # <<>>
      PROVE  \E m \in DOMAIN new.rows : /\ new.rows[m].who = D[k].who
                                        /\ new.rows[m].token.at >= D[k].token.at
  <2>1. file # NoFile
    BY DiskRowsAre
  <2>2. new.rows = Merged(rows, dropped, file)
    BY <1>4, <1>5, <2>1
  <2> QED
    BY <1>2, <1>5, <2>2, MergeCovers
<1> HIDE DEF D
<1>6. ASSUME NEW old \in RowSet(D)
      PROVE  \/ old.id \in dropped \/ new.rows = <<>>
             \/ \E m \in DOMAIN new.rows : /\ new.rows[m].who = old.who
                                           /\ new.rows[m].token.at >= old.token.at
  <2>1. PICK k \in DOMAIN D : old = D[k]
    BY DEF RowSet
  <2> QED
    BY <1>5, <2>1
<1> QED
  BY <1>3, <1>6 DEF Covers

LEMMA CoveredStep ==
    ASSUME Recognised, Base, Covered, [Next]_vars
    PROVE  Covered'
<1> SUFFICES ASSUME "misdirected" \notin mixed', NEW w \in Writer
             PROVE  Covers(w)'
  BY DEF Covered
<1>1. PICK N : Makes(N)
  BY StepMakes DEF Base
<1>2. "misdirected" \notin mixed
  BY <1>1 DEF Makes
<1>3. Agree(AllRows) /\ Covers(w)
  BY <1>2, OwnRowsAgree DEF Base, OwnTokens, Covered
<1>4. Works(w)
  BY StepWorks DEF Base
<1>5. CASE write'[w] = write[w]
  BY <1>3, <1>5 DEF Covers
<1>6. CASE write'[w] = NoWrite
  BY <1>6 DEF Covers, NoWrite
<1>7. CASE MergeWithDisk(w)
  BY <1>3, <1>7, MergeInto DEF Base
<1>8. CASE Begins(w)
  <2>1. PICK storage, dropped, wanted, victim, for :
            BeginWrite(w, storage, dropped, wanted, victim, for)
    BY <1>8 DEF Begins
  <2>2. write'[w] = [stage |-> "merge", rows |-> storage.rows,
                     active |-> storage.active, dropped |-> dropped,
                     wanted |-> wanted \cap Ids(storage.rows),
                     seen |-> {}, victim |-> victim, for |-> for]
    BY <2>1, BeginWriteIs DEF Base
  <2>3. write'[w].seen = {}
    BY <2>2
  <2> QED
    BY <2>3 DEF Covers
<1> QED
  BY <1>4, <1>5, <1>6, <1>7, <1>8 DEF Works

LEMMA CoveredAlways == ASSUME Recognised PROVE Spec => []Covered
<1>1. Init => Covered
  BY DEF Init, Covered, Covers, NoWrite
<1>2. Base /\ Covered /\ [Next]_vars => Covered'
  BY CoveredStep
<1> QED
  BY <1>1, <1>2, BaseAlways, PTL DEF Spec

\* What the completed save of w leaves of a row of the file it replaces.
LEMMA SeenRowsSurvive ==
    ASSUME Recognised, Base, Covered, "misdirected" \notin mixed,
           NEW w \in Writer, Rename(w), NEW old \in RowSet(DiskRows(file)),
           NEW seen \in write[w].seen, seen.id = old.id, seen.token = old.token
    PROVE  \/ \E new \in RowSet(file'.rows) :
                 new.who = old.who /\ new.token.at >= old.token.at
           \/ old.id \in write[w].dropped
           \/ write[w].rows = <<>>
<1> DEFINE rows == write[w].rows
<1>1. Agree(AllRows)
  BY OwnRowsAgree DEF Base, OwnTokens
<1>2. /\ rows \in Seq(Row) /\ \A i \in DOMAIN rows : rows[i] \in AllRows
      /\ seen \in AllRows
      /\ \A i \in DOMAIN DiskRows(file) : DiskRows(file)[i] \in AllRows
  BY ListsIs DEF Base, Typed
<1>3. old \in AllRows
  BY <1>2 DEF RowSet
<1>4. seen.who = old.who
  BY <1>1, <1>2, <1>3 DEF Agree
<1>5. \/ seen.id \in write[w].dropped
      \/ rows = <<>>
      \/ \E m \in DOMAIN rows : rows[m].who = seen.who
                                /\ rows[m].token.at >= seen.token.at
  BY DEF Covered, Covers
<1>6. file'.rows \in Deduplicated(rows)
  BY RenameIs DEF Base
<1> HIDE DEF rows
<1>7. ASSUME NEW m \in DOMAIN rows, rows[m].who = seen.who,
             rows[m].token.at >= seen.token.at
      PROVE  \E new \in RowSet(file'.rows) :
                 new.who = old.who /\ new.token.at >= old.token.at
  <2>1. PICK n \in DOMAIN file'.rows : file'.rows[n].token = rows[m].token
    BY <1>2, <1>6, DeduplicatedIs
  <2>2. PICK i \in DOMAIN rows : file'.rows[n] = rows[i]
    BY <1>2, <1>6, DeduplicatedIs
  <2>3. rows[i].who = rows[m].who
    BY <1>1, <1>2, <2>1, <2>2 DEF Agree
  <2>4. file'.rows[n] \in RowSet(file'.rows)
    BY DEF RowSet
  <2> QED
    BY <1>4, <1>7, <2>1, <2>2, <2>3, <2>4
<1> QED
  BY <1>5, <1>7 DEF rows

\* A save takes an account out of the file, or back to an older token, only
\* where its writer means to, or had not seen the row: whatever the others do
\* between its second read and its rename.
THEOREM LostOnPurpose ==
    ASSUME Recognised PROVE Spec => RowsLostOnPurpose
<1>1. Base /\ Covered /\ [Next]_vars =>
         [\A w \in Writer : Completes(w) /\ "misdirected" \notin mixed =>
             \A old \in Range(DiskRows(file)) :
                \/ \E new \in Range(file'.rows) :
                      /\ new.id = old.id \/ new.who = old.who
                      /\ new.token.at >= old.token.at
                \/ old.id \in write[w].dropped
                \/ write[w].rows = <<>>
                \/ ~\E seen \in write[w].seen :
                      seen.id = old.id /\ seen.token = old.token]_vars
  <2> SUFFICES ASSUME Base, Covered, [Next]_vars, NEW w \in Writer, Completes(w),
                      "misdirected" \notin mixed, NEW old \in Range(DiskRows(file)),
                      NEW seen \in write[w].seen, seen.id = old.id,
                      seen.token = old.token
               PROVE  \/ \E new \in Range(file'.rows) :
                            /\ new.id = old.id \/ new.who = old.who
                            /\ new.token.at >= old.token.at
                      \/ old.id \in write[w].dropped
                      \/ write[w].rows = <<>>
    BY Zenon
  <2>1. /\ Range(DiskRows(file)) = RowSet(DiskRows(file))
        /\ Range(file'.rows) = RowSet(file'.rows)
    BY DEF Range, RowSet
  <2>2. Rename(w)
    BY CompletesIs DEF Base
  <2> QED
    BY <2>1, <2>2, SeenRowsSurvive, Zenon
<1> QED
  BY <1>1, BaseAlways, CoveredAlways, PTL DEF Spec, RowsLostOnPurpose
------------------------------------------------------------------------------
(* What a sync leaves as current                                           *)

\* After a sync with the file (syncActiveIndexFromDisk) the current account is
\* an enabled one, if there is any, whatever other processes have written.
THEOREM SyncUsable ==
    ASSUME Recognised PROVE Spec => SyncLeavesUsableAccount
<1>1. Kept /\ [Next]_vars =>
         [\A p \in Plugin :
             Sync(p) /\ mixed = {} /\ Enabled(manager'[p].rows) # {} =>
                 manager'[p].current \in Enabled(manager'[p].rows)]_vars
  <2> SUFFICES ASSUME Kept, NEW p \in Plugin, Sync(p), mixed = {},
                      Enabled(manager'[p].rows) # {}
               PROVE  manager'[p].current \in Enabled(manager'[p].rows)
    BY Zenon
  <2> DEFINE rows == manager[p].rows
             new == Reconciled(rows, file)
             current == ReconciledCurrent(new, manager[p].current, file)
  <2>1. Set(p, new, current, FALSE) /\ file # NoFile
    BY DEF Sync
  <2>2. manager'[p].rows = new /\ manager'[p].current = current
    <3>1. Shaped
      BY DEF Kept
    <3> HIDE DEF new, current
    <3> QED
      BY <2>1, <3>1, SetIs
  <2>3. rows \in AllLists /\ file.rows \in AllLists
    BY <2>1, ListsIs DEF DiskRows
  <2> HIDE DEF rows
  <2>4. /\ rows \in Seq(Row) /\ file.rows \in Seq(Row)
        /\ Distinct(rows) /\ Distinct(file.rows)
    BY <2>3 DEF Kept, Typed, NoTwins
  <2>5. RowSet(rows) \subseteq AllRows /\ RowSet(file.rows) \subseteq AllRows
    BY <2>3, ListsIs DEF RowSet
  <2>6. Agree(AllRows)
    BY OwnRowsAgree DEF Kept, OwnTokens
  <2> QED
    BY <2>2, <2>4, <2>5, <2>6, SyncFindsActive
<1> QED
  BY <1>1, KeptAlways, PTL DEF Spec, SyncLeavesUsableAccount
==============================================================================
