--------------------------- MODULE AccountFile_proofs ---------------------------
(***************************************************************************)
(* What the operators of AccountFile return, for rows of any number:       *)
(* where the rows of a merge or a sync come from, and that neither gives   *)
(* an account two rows when the rows they start from do not disagree.      *)
(***************************************************************************)
EXTENDS AccountFile, FiniteSetTheorems, WellFoundedInduction, TLAPS

------------------------------------------------------------------------------
(***************************************************************************)
(* Numbers.  Induction is on sets: a set of numbers that is not empty has  *)
(* a least element.                                                        *)
(***************************************************************************)
LEMMA LeastNat ==
    ASSUME NEW S, S \subseteq Nat, S # {}
    PROVE  \E n \in S : \A m \in S : n <= m
<1>1. PICK R : R = {pair \in Nat \X Nat : pair[1] < pair[2]}
  OBVIOUS
<1>2. IsWellFoundedOn(R, Nat)
  BY <1>1, NatLessThanWellFounded DEF OpToRel
<1>3. \A x, y \in Nat : <<y, x>> \in R <=> y < x
  BY <1>1
<1>4. PICK n \in S : \A m \in S : ~(<<m, n>> \in R)
  BY <1>2, WFMin
<1>5. \A m \in S : ~(m < n)
  BY <1>3, <1>4
<1> QED
  BY <1>5

LEMMA SetInduction ==
    ASSUME NEW N \in Nat, NEW S, 0 \in S,
           \A n \in 0 .. N : n \in S /\ n + 1 \in 0 .. N => n + 1 \in S
    PROVE  \A n \in 0 .. N : n \in S
<1> SUFFICES ASSUME (0 .. N) \ S # {} PROVE FALSE
  OBVIOUS
<1> DEFINE rest == (0 .. N) \ S
<1>0. rest \subseteq Nat /\ rest # {}
  OBVIOUS
<1>1. PICK n \in rest : \A m \in rest : n <= m
  <2> HIDE DEF rest
  <2> QED
    BY <1>0, LeastNat
<1>2. n # 0 /\ n - 1 \in 0 .. N
  BY <1>1
<1>3. n - 1 \in S
  BY <1>1, <1>2
<1> QED
  BY <1>1, <1>2, <1>3

LEMMA FirstOfIs ==
    ASSUME NEW S, S \subseteq Nat, S # {}
    PROVE  FirstOf(S) \in S /\ \A j \in S : FirstOf(S) <= j
BY LeastNat DEF FirstOf

LEMMA OnlyOne ==
    ASSUME NEW i \in Nat
    PROVE  FirstOf({i}) = i /\ LastOf({i}) = i
BY DEF FirstOf, LastOf

\* InOrder lists the elements of a set, each of them once, the smaller first.
LEMMA InOrderIs ==
    ASSUME NEW S, S \subseteq Nat, IsFiniteSet(S)
    PROVE  /\ Cardinality(S) \in Nat
           /\ DOMAIN InOrder(S) = 1 .. Cardinality(S)
           /\ \A k \in 1 .. Cardinality(S) : InOrder(S)[k] \in S
           /\ \A k, l \in 1 .. Cardinality(S) :
                  k < l => InOrder(S)[k] < InOrder(S)[l]
           /\ \A k, l \in 1 .. Cardinality(S) :
                  InOrder(S)[k] = InOrder(S)[l] => k = l
           /\ \A i \in S : \E k \in 1 .. Cardinality(S) : InOrder(S)[k] = i
<1> DEFINE n == Cardinality(S)
           Below(i) == {j \in S : j < i}
           rank == [i \in S |-> Cardinality(Below(i)) + 1]
           at == InOrder(S)
<1>1. n \in Nat
  BY FS_CardinalityType
<1>2. ASSUME NEW i \in S
      PROVE  /\ IsFiniteSet(Below(i)) /\ Cardinality(Below(i)) \in Nat
             /\ Cardinality(Below(i)) < n
  <2>1. Below(i) \in SUBSET S /\ Below(i) # S
    OBVIOUS
  <2> HIDE DEF Below
  <2>2. /\ IsFiniteSet(Below(i))
        /\ Cardinality(Below(i)) <= n
        /\ n = Cardinality(Below(i)) => S = Below(i)
    BY <2>1, FS_Subset
  <2>3. Cardinality(Below(i)) \in Nat
    BY <2>2, FS_CardinalityType
  <2> QED
    BY <1>1, <2>1, <2>2, <2>3
<1>3. ASSUME NEW i \in S, NEW j \in S, i < j
      PROVE  Cardinality(Below(i)) < Cardinality(Below(j))
  <2>1. Below(i) \in SUBSET Below(j) /\ i \in Below(j) /\ i \notin Below(i)
    <3>1. i \in Nat /\ j \in Nat /\ \A x \in S : x \in Nat
      OBVIOUS
    <3>2. \A x \in S : x < i => x < j
      BY <1>3, <3>1
    <3>3. Below(i) \subseteq Below(j)
      BY <3>2
    <3>4. i \in Below(j)
      BY <1>3
    <3>5. ~(i < i)
      BY <3>1
    <3> QED
      BY <3>3, <3>4, <3>5
  <2> HIDE DEF Below
  <2>2. /\ Cardinality(Below(i)) <= Cardinality(Below(j))
        /\ Cardinality(Below(j)) = Cardinality(Below(i)) => Below(j) = Below(i)
    BY <1>2, <2>1, FS_Subset
  <2> QED
    BY <1>2, <2>1, <2>2
<1>4. \A i, j \in S : Cardinality(Below(i)) = Cardinality(Below(j)) => i = j
  <2>1. \A i, j \in S : i = j \/ i < j \/ j < i
    OBVIOUS
  <2> HIDE DEF Below
  <2> QED
    BY <1>2, <1>3, <2>1
<1>5. rank \in Injection(S, 1 .. n)
  <2> HIDE DEF Below
  <2>1. rank \in [S -> 1 .. n]
    BY <1>1, <1>2
  <2>2. ASSUME NEW i \in S, NEW j \in S, rank[i] = rank[j] PROVE i = j
    <3>1. Cardinality(Below(i)) = Cardinality(Below(j))
      BY <1>2, <2>2
    <3> QED
      BY <1>4, <3>1
  <2> HIDE DEF rank
  <2> QED
    BY <2>1, <2>2 DEF Injection, IsInjective
<1>6. rank \in Surjection(S, 1 .. n)
  <2>1. IsFiniteSet(1 .. n) /\ Cardinality(1 .. n) = n
    BY <1>1, FS_Interval
  <2> HIDE DEF rank
  <2> QED
    BY <1>5, <2>1, FS_Injection
<1>7. ASSUME NEW k \in 1 .. n
      PROVE  \E i \in S : Cardinality(Below(i)) = k - 1
  <2>1. PICK i \in S : rank[i] = k
    BY <1>6, Zenon DEF Surjection
  <2> HIDE DEF Below
  <2>2. Cardinality(Below(i)) + 1 = k
    BY <2>1
  <2> QED
    BY <1>1, <1>2, <2>2
<1>8. ASSUME NEW k \in 1 .. n
      PROVE  at[k] \in S /\ Cardinality(Below(at[k])) = k - 1
  <2>1. at[k] = CHOOSE i \in S : Cardinality(Below(i)) = k - 1
    BY DEF InOrder
  <2> HIDE DEF Below, at
  <2> QED
    BY <1>7, <2>1
<1>9. DOMAIN at = 1 .. n
  BY DEF InOrder
<1> HIDE DEF Below, at
<1>10. \A k, l \in 1 .. n : at[k] = at[l] => k = l
  BY <1>1, <1>8
<1>11. ASSUME NEW i \in S PROVE \E k \in 1 .. n : at[k] = i
  <2>1. Cardinality(Below(i)) + 1 \in 1 .. n
    BY <1>1, <1>2
  <2>2. Cardinality(Below(at[Cardinality(Below(i)) + 1])) = Cardinality(Below(i))
    BY <1>1, <1>2, <1>8, <2>1
  <2> QED
    BY <1>4, <1>8, <2>1, <2>2
<1>12. ASSUME NEW k \in 1 .. n, NEW l \in 1 .. n, k < l PROVE at[k] < at[l]
  <2>1. at[k] \in Nat /\ at[l] \in Nat
    BY <1>8
  <2>2. ~(at[l] < at[k])
    <3>1. SUFFICES ASSUME at[l] < at[k] PROVE FALSE
      OBVIOUS
    <3>2. Cardinality(Below(at[l])) < Cardinality(Below(at[k]))
      BY <1>3, <1>8, <3>1
    <3> QED
      BY <1>1, <1>8, <1>12, <3>2
  <2>3. at[k] # at[l]
    BY <1>10, <1>12
  <2> QED
    BY <2>1, <2>2, <2>3
<1> QED
  BY <1>1, <1>8, <1>9, <1>10, <1>11, <1>12 DEF at

------------------------------------------------------------------------------
(***************************************************************************)
(* Rows chosen by their positions.                                         *)
(***************************************************************************)
RowSet(rows) == {rows[i] : i \in DOMAIN rows}

LEMMA SeqIs ==
    ASSUME NEW R, NEW rows \in Seq(R)
    PROVE  /\ Len(rows) \in Nat /\ DOMAIN rows = 1 .. Len(rows)
           /\ DOMAIN rows \subseteq Nat \ {0}
           /\ \A S : S \subseteq DOMAIN rows => S \subseteq Nat /\ IsFiniteSet(S)
           /\ \A i \in DOMAIN rows : rows[i] \in R
<1>1. Len(rows) \in Nat /\ DOMAIN rows = 1 .. Len(rows)
  OBVIOUS
<1>2. IsFiniteSet(1 .. Len(rows))
  BY <1>1, FS_Interval
<1>3. \A S : S \subseteq DOMAIN rows => IsFiniteSet(S)
  BY <1>1, <1>2, FS_Subset
<1> QED
  BY <1>1, <1>3

\* ElementsAt has each of the chosen elements at a place of its own, and keeps
\* their order.
LEMMA ElementsAtIs ==
    ASSUME NEW R, NEW seq \in Seq(R), NEW S, S \subseteq DOMAIN seq
    PROVE  LET at == InOrder(S)
               new == ElementsAt(seq, S)
           IN  /\ new \in Seq(R)
               /\ Len(new) = Cardinality(S)
               /\ \A k \in DOMAIN new : at[k] \in S /\ new[k] = seq[at[k]]
               /\ \A k, l \in DOMAIN new : k < l => at[k] < at[l]
               /\ \A k, l \in DOMAIN new : at[k] = at[l] => k = l
               /\ \A i \in S : \E k \in DOMAIN new : at[k] = i
<1> DEFINE n == Cardinality(S)
           at == InOrder(S)
           new == ElementsAt(seq, S)
<1>1. S \subseteq Nat /\ IsFiniteSet(S)
  BY SeqIs
<1>2. /\ n \in Nat
      /\ \A k \in 1 .. n : at[k] \in S
      /\ \A k, l \in 1 .. n : k < l => at[k] < at[l]
      /\ \A k, l \in 1 .. n : at[k] = at[l] => k = l
      /\ \A i \in S : \E k \in 1 .. n : at[k] = i
  BY <1>1, InOrderIs
<1>3. new = [k \in 1 .. n |-> seq[at[k]]]
  BY DEF ElementsAt
<1> HIDE DEF n, at, new
<1>4. \A k \in 1 .. n : seq[at[k]] \in R
  BY <1>2, SeqIs
<1>5. new \in Seq(R) /\ Len(new) = n /\ DOMAIN new = 1 .. n
  BY <1>2, <1>3, <1>4
<1>6. /\ new \in Seq(R)
      /\ Len(new) = n
      /\ \A k \in DOMAIN new : at[k] \in S /\ new[k] = seq[at[k]]
      /\ \A k, l \in DOMAIN new : k < l => at[k] < at[l]
      /\ \A k, l \in DOMAIN new : at[k] = at[l] => k = l
      /\ \A i \in S : \E k \in DOMAIN new : at[k] = i
  BY <1>2, <1>3, <1>5
<1> QED
  BY <1>6 DEF n, at, new

LEMMA RowsAtIs ==
    ASSUME NEW rows \in Seq(Row), NEW S, S \subseteq DOMAIN rows
    PROVE  LET at == InOrder(S)
               new == ElementsAt(rows, S)
           IN  /\ new \in Seq(Row)
               /\ Len(new) = Cardinality(S)
               /\ \A k \in DOMAIN new : at[k] \in S /\ new[k] = rows[at[k]]
               /\ \A k, l \in DOMAIN new : at[k] = at[l] => k = l
               /\ \A i \in S : \E k \in DOMAIN new : at[k] = i
BY ElementsAtIs

\* What is chosen from rows of different accounts is of different accounts.
LEMMA RowsAtDistinct ==
    ASSUME NEW rows \in Seq(Row), NEW S, S \subseteq DOMAIN rows, Distinct(rows)
    PROVE  Distinct(ElementsAt(rows, S))
<1> DEFINE at == InOrder(S)
           new == ElementsAt(rows, S)
<1>1. /\ \A k \in DOMAIN new : at[k] \in DOMAIN rows /\ new[k] = rows[at[k]]
      /\ \A k, l \in DOMAIN new : at[k] = at[l] => k = l
  BY RowsAtIs
<1> HIDE DEF at, new
<1>2. Distinct(new)
  BY <1>1 DEF Distinct
<1> QED
  BY <1>2 DEF new

------------------------------------------------------------------------------
(***************************************************************************)
(* Matching.                                                               *)
(***************************************************************************)
Matches(old, row) ==
    old.id = row.id \/ old.who = row.who \/ old.token = row.token

LEMMA FindIs ==
    ASSUME NEW rows \in Seq(Row), NEW row
    PROVE  LET k == Find(rows, row)
           IN  /\ k \in DOMAIN rows \cup {0}
               /\ k # 0 => Matches(rows[k], row)
               /\ k = 0 => \A i \in DOMAIN rows : ~Matches(rows[i], row)
               /\ (\E i \in DOMAIN rows : rows[i].id = row.id)
                     => k # 0 /\ rows[k].id = row.id
               /\ (\E i \in DOMAIN rows :
                       rows[i].id = row.id \/ rows[i].who = row.who)
                     => k # 0 /\ (rows[k].id = row.id \/ rows[k].who = row.who)
<1> DEFINE byId == {i \in DOMAIN rows : rows[i].id = row.id}
           byWho == {i \in DOMAIN rows : rows[i].who = row.who}
           byToken == {i \in DOMAIN rows : rows[i].token = row.token}
           k == Find(rows, row)
<1>1. DOMAIN rows \subseteq Nat \ {0}
  BY SeqIs
<1>2. byId \subseteq Nat /\ byWho \subseteq Nat /\ byToken \subseteq Nat
  BY <1>1
<1>3. /\ byId # {} => FirstOf(byId) \in byId
      /\ byWho # {} => FirstOf(byWho) \in byWho
      /\ byToken # {} => FirstOf(byToken) \in byToken
  <2> HIDE DEF byId, byWho, byToken
  <2> QED
    BY <1>2, FirstOfIs
<1>4. \/ byId # {} /\ k = FirstOf(byId)
      \/ byId = {} /\ byWho # {} /\ k = FirstOf(byWho)
      \/ byId = {} /\ byWho = {} /\ byToken # {} /\ k = FirstOf(byToken)
      \/ byId = {} /\ byWho = {} /\ byToken = {} /\ k = 0
  BY DEF Find
<1> HIDE DEF k
<1>5. \/ k \in byId
      \/ byId = {} /\ k \in byWho
      \/ byId = {} /\ byWho = {} /\ k \in byToken
      \/ byId = {} /\ byWho = {} /\ byToken = {} /\ k = 0
  BY <1>3, <1>4
<1>6. /\ k \in DOMAIN rows \cup {0}
      /\ k # 0 => Matches(rows[k], row)
      /\ k = 0 => \A i \in DOMAIN rows : ~Matches(rows[i], row)
      /\ (\E i \in DOMAIN rows : rows[i].id = row.id)
            => k # 0 /\ rows[k].id = row.id
      /\ (\E i \in DOMAIN rows : rows[i].id = row.id \/ rows[i].who = row.who)
            => k # 0 /\ (rows[k].id = row.id \/ rows[k].who = row.who)
  BY <1>1, <1>5 DEF Matches
<1> QED
  BY <1>6 DEF k

\* Rows that do not disagree: an id and a token each tell the account.
Agree(S) ==
    \A r, s \in S : r.id = s.id \/ r.token = s.token => r.who = s.who

\* Among rows that do not disagree, what matches is the row of the account.
LEMMA FindAccount ==
    ASSUME NEW rows \in Seq(Row), NEW row, Distinct(rows),
           NEW S, Agree(S), RowSet(rows) \subseteq S, row \in S
    PROVE  /\ \A i \in DOMAIN rows :
                  rows[i].who = row.who <=> Find(rows, row) = i
           /\ Find(rows, row) = 0
                  <=> \A i \in DOMAIN rows : rows[i].who # row.who
<1> DEFINE k == Find(rows, row)
<1>1. /\ k \in DOMAIN rows \cup {0}
      /\ k # 0 => Matches(rows[k], row)
      /\ k = 0 => \A i \in DOMAIN rows : ~Matches(rows[i], row)
  BY FindIs
<1>2. DOMAIN rows \subseteq Nat \ {0}
  BY SeqIs
<1> HIDE DEF k
<1>3. \A i \in DOMAIN rows : rows[i] \in S
  BY DEF RowSet
<1>4. k # 0 => k \in DOMAIN rows /\ rows[k].who = row.who
  BY <1>1, <1>3 DEF Matches, Agree
<1>5. k = 0 => \A i \in DOMAIN rows : rows[i].who # row.who
  BY <1>1 DEF Matches
<1>6. \A i, j \in DOMAIN rows : rows[i].who = rows[j].who => i = j
  BY DEF Distinct
<1> QED
  BY <1>2, <1>4, <1>5, <1>6 DEF k

------------------------------------------------------------------------------
(***************************************************************************)
(* The merge of a payload with the file.                                   *)
(***************************************************************************)
LEMMA RowTypes ==
    /\ \A row \in Row : row.token \in Token /\ row.id \in Id /\ row.who \in Person
    /\ \A token \in Token : token.at \in Nat /\ token.of \in Person
    /\ \A row \in Row, token \in Token :
           LET new == [row EXCEPT !.token = token]
           IN  /\ new \in Row /\ new.id = row.id /\ new.who = row.who
               /\ new.enabled = row.enabled /\ new.token = token
    /\ \A row \in Row :
           LET new == [row EXCEPT !.enabled = FALSE]
           IN  /\ new \in Row /\ new.id = row.id /\ new.who = row.who
               /\ new.enabled = FALSE /\ new.token = row.token
BY DEF Row, Token

\* A row of the file can only be at a position if there is a file.
LEMMA DiskRowsAre ==
    ASSUME NEW disk, NEW k \in DOMAIN DiskRows(disk)
    PROVE  disk # NoFile /\ disk.rows = DiskRows(disk)
BY DEF DiskRows

LEMMA FreshestIs ==
    ASSUME NEW row \in Row, NEW disk, DiskRows(disk) \in Seq(Row)
    PROVE  LET new == Freshest(row, disk)
               D == DiskRows(disk)
               k == Find(D, row)
           IN  /\ new \in Row /\ new.id = row.id /\ new.who = row.who
               /\ new.enabled = row.enabled
               /\ \/ new = row
                  \/ /\ k \in DOMAIN D /\ new.token = D[k].token
                     /\ D[k].id = row.id \/ D[k].who = row.who
               /\ new.token.at >= row.token.at
               /\ k \in DOMAIN D => new.token.at >= D[k].token.at
<1> DEFINE D == DiskRows(disk)
           k == Find(D, row)
           new == Freshest(row, disk)
           newer == k \in DOMAIN D /\ D[k].token.at > row.token.at
<1>1. k \in DOMAIN D \cup {0} /\ (k # 0 => Matches(D[k], row))
  BY FindIs
<1>2. DOMAIN D \subseteq Nat \ {0} /\ \A i \in DOMAIN D : D[i] \in Row
  BY SeqIs
<1>3. new = IF newer THEN [row EXCEPT !.token = D[k].token] ELSE row
  BY <1>1, <1>2, DiskRowsAre DEF Freshest
<1> HIDE DEF k, new, D
<1>4. CASE newer
  <2>1. new = [row EXCEPT !.token = D[k].token] /\ D[k] \in Row
    BY <1>2, <1>3, <1>4
  <2>2. /\ new \in Row /\ new.id = row.id /\ new.who = row.who
        /\ new.enabled = row.enabled /\ new.token = D[k].token
    BY <2>1, RowTypes
  <2>3. D[k].token # row.token
    BY <1>4, <2>1, RowTypes
  <2>4. D[k].id = row.id \/ D[k].who = row.who
    BY <1>1, <1>2, <1>4, <2>3 DEF Matches
  <2>5. new.token.at >= row.token.at /\ new.token.at >= D[k].token.at
    BY <1>4, <2>1, <2>2, RowTypes
  <2> QED
    BY <1>4, <2>2, <2>4, <2>5 DEF new, k, D
<1>5. CASE ~newer
  <2>1. new = row
    BY <1>3, <1>5
  <2>2. k \in DOMAIN D => new.token.at >= D[k].token.at
    BY <1>2, <1>5, <2>1, RowTypes
  <2>3. new.token.at >= row.token.at
    BY <2>1, RowTypes
  <2> QED
    BY <2>1, <2>2, <2>3 DEF new, k, D
<1> QED
  BY <1>4, <1>5

LEMMA ForeignIs ==
    ASSUME NEW rows \in Seq(Row), NEW dropped, NEW disk,
           DiskRows(disk) \in Seq(Row)
    PROVE  LET D == DiskRows(disk)
               others == Foreign(rows, dropped, disk)
               Kept(k) == /\ \A i \in DOMAIN rows : Find(D, rows[i]) # k
                          /\ D[k].id \notin dropped
           IN  /\ others \in Seq(Row)
               /\ \A n \in DOMAIN others : \E k \in DOMAIN D :
                      others[n] = D[k] /\ Kept(k)
               /\ \A k \in DOMAIN D : Kept(k) =>
                      \E n \in DOMAIN others : others[n] = D[k]
               /\ Distinct(D) => Distinct(others)
<1> DEFINE D == DiskRows(disk)
           Kept(k) == /\ \A i \in DOMAIN rows : Find(D, rows[i]) # k
                      /\ D[k].id \notin dropped
           kept == {k \in DOMAIN D : Kept(k)}
           at == InOrder(kept)
           others == ElementsAt(D, kept)
<1>1. kept = {k \in DOMAIN D :
                 /\ k \notin {Find(D, rows[i]) : i \in DOMAIN rows}
                 /\ disk.rows[k].id \notin dropped}
  BY DiskRowsAre
<1>2. Foreign(rows, dropped, disk) = others
  BY <1>1 DEF Foreign
<1>3. kept \subseteq DOMAIN D
  OBVIOUS
<1>4. /\ others \in Seq(Row)
      /\ \A n \in DOMAIN others : at[n] \in kept /\ others[n] = D[at[n]]
      /\ \A k \in kept : \E n \in DOMAIN others : at[n] = k
  <2> HIDE DEF kept
  <2> QED
    BY <1>3, RowsAtIs
<1>5. Distinct(D) => Distinct(others)
  <2> HIDE DEF kept
  <2> QED
    BY <1>3, RowsAtDistinct
<1>6. \A k \in DOMAIN D : Kept(k) => \E n \in DOMAIN others : others[n] = D[k]
  <2> HIDE DEF others, at, Kept
  <2> QED
    BY <1>4
<1>7. \A n \in DOMAIN others : \E k \in DOMAIN D : others[n] = D[k] /\ Kept(k)
  <2> HIDE DEF others, at, Kept
  <2> QED
    BY <1>4
<1>8. /\ others \in Seq(Row)
      /\ \A n \in DOMAIN others : \E k \in DOMAIN D : others[n] = D[k] /\ Kept(k)
      /\ \A k \in DOMAIN D : Kept(k) => \E n \in DOMAIN others : others[n] = D[k]
      /\ Distinct(D) => Distinct(others)
  BY <1>4, <1>5, <1>6, <1>7
<1> HIDE DEF others
<1> QED
  BY <1>2, <1>8

LEMMA Concat ==
    ASSUME NEW s \in Seq(Row), NEW t \in Seq(Row), NEW u, u = s \o t
    PROVE  /\ u \in Seq(Row) /\ Len(u) = Len(s) + Len(t)
           /\ DOMAIN u = 1 .. (Len(s) + Len(t))
           /\ DOMAIN s = 1 .. Len(s) /\ DOMAIN t = 1 .. Len(t)
           /\ \A i \in DOMAIN s : u[i] = s[i]
           /\ \A j \in DOMAIN u : j \notin DOMAIN s =>
                  j - Len(s) \in DOMAIN t /\ u[j] = t[j - Len(s)]
           /\ \A n \in DOMAIN t : u[Len(s) + n] = t[n]
<1>1. /\ Len(s) \in Nat /\ Len(t) \in Nat
      /\ DOMAIN s = 1 .. Len(s) /\ DOMAIN t = 1 .. Len(t)
  OBVIOUS
<1>2. u \in Seq(Row) /\ Len(u) = Len(s) + Len(t)
  OBVIOUS
<1>3. DOMAIN u = 1 .. (Len(s) + Len(t))
  BY <1>2
<1>4. \A i \in DOMAIN s : u[i] = s[i]
  OBVIOUS
<1>5. ASSUME NEW j \in DOMAIN u, j \notin DOMAIN s
      PROVE  j - Len(s) \in DOMAIN t /\ u[j] = t[j - Len(s)]
  BY <1>1, <1>3, <1>5
<1>6. ASSUME NEW n \in DOMAIN t PROVE u[Len(s) + n] = t[n]
  <2>1. Len(s) + n \in DOMAIN u /\ Len(s) + n \notin DOMAIN s
    BY <1>1, <1>3
  <2>2. Len(s) + n - Len(s) = n
    BY <1>1
  <2> QED
    BY <1>5, <2>1, <2>2
<1> QED
  BY <1>1, <1>2, <1>3, <1>4, <1>5, <1>6

\* The rows that Union and Prepare return, when there is something to merge.
Merged(rows, dropped, disk) ==
    FreshestRows(rows, disk) \o Foreign(rows, dropped, disk)

LEMMA MergedIs ==
    ASSUME NEW rows \in Seq(Row), NEW dropped, NEW disk,
           DiskRows(disk) \in Seq(Row)
    PROVE  LET D == DiskRows(disk)
               new == Merged(rows, dropped, disk)
               others == Foreign(rows, dropped, disk)
           IN  /\ new \in Seq(Row) /\ Len(new) = Len(rows) + Len(others)
               /\ \A i \in DOMAIN rows :
                      i \in DOMAIN new /\ new[i] = Freshest(rows[i], disk)
               /\ \A j \in DOMAIN new : j \notin DOMAIN rows =>
                      /\ j - Len(rows) \in DOMAIN others
                      /\ new[j] = others[j - Len(rows)]
               /\ \A n \in DOMAIN others :
                      /\ Len(rows) + n \in DOMAIN new
                      /\ new[Len(rows) + n] = others[n]
<1> DEFINE own == FreshestRows(rows, disk)
           others == Foreign(rows, dropped, disk)
           new == Merged(rows, dropped, disk)
<1>1. /\ Len(rows) \in Nat /\ DOMAIN rows = 1 .. Len(rows)
      /\ \A i \in DOMAIN rows : rows[i] \in Row
  BY SeqIs
<1>2. /\ own = [i \in 1 .. Len(rows) |-> own[i]]
      /\ \A i \in 1 .. Len(rows) : own[i] = Freshest(rows[i], disk) /\ own[i] \in Row
  BY <1>1, FreshestIs DEF FreshestRows
<1> HIDE DEF own
<1>3. own \in Seq(Row) /\ Len(own) = Len(rows)
  BY <1>1, <1>2
<1>4. others \in Seq(Row)
  BY ForeignIs
<1>5. new = own \o others
  BY DEF own, Merged
<1> HIDE DEF others, new
<1>6. /\ new \in Seq(Row) /\ Len(new) = Len(rows) + Len(others)
      /\ DOMAIN own = DOMAIN rows
      /\ DOMAIN new = 1 .. (Len(rows) + Len(others))
      /\ DOMAIN others = 1 .. Len(others)
      /\ \A i \in DOMAIN rows : new[i] = own[i]
      /\ \A j \in DOMAIN new : j \notin DOMAIN rows =>
             j - Len(rows) \in DOMAIN others /\ new[j] = others[j - Len(rows)]
      /\ \A n \in DOMAIN others : new[Len(rows) + n] = others[n]
  <2>1. /\ new \in Seq(Row) /\ Len(new) = Len(own) + Len(others)
        /\ DOMAIN new = 1 .. (Len(own) + Len(others))
        /\ DOMAIN own = 1 .. Len(own) /\ DOMAIN others = 1 .. Len(others)
        /\ \A i \in DOMAIN own : new[i] = own[i]
        /\ \A j \in DOMAIN new : j \notin DOMAIN own =>
               j - Len(own) \in DOMAIN others /\ new[j] = others[j - Len(own)]
        /\ \A n \in DOMAIN others : new[Len(own) + n] = others[n]
    <3>1. own \in Seq(Row) /\ others \in Seq(Row) /\ new = own \o others
      BY <1>3, <1>4, <1>5
    <3> QED
      BY <3>1, Concat
  <2>2. DOMAIN own = DOMAIN rows
    BY <1>1, <1>3, <2>1
  <2> QED
    BY <1>3, <2>1, <2>2
<1>7. Len(others) \in Nat
  BY <1>4
<1>8. \A i \in DOMAIN rows :
          i \in DOMAIN new /\ new[i] = Freshest(rows[i], disk)
  BY <1>1, <1>2, <1>6, <1>7
<1>9. \A n \in DOMAIN others :
          /\ Len(rows) + n \in DOMAIN new
          /\ new[Len(rows) + n] = others[n]
  BY <1>1, <1>6, <1>7
<1> QED
  BY <1>6, <1>8, <1>9 DEF others, new

\* A merge of rows that do not disagree gives no account two rows.
LEMMA MergedDistinct ==
    ASSUME NEW rows \in Seq(Row), NEW dropped, NEW disk,
           DiskRows(disk) \in Seq(Row), Distinct(rows), Distinct(DiskRows(disk)),
           NEW S, Agree(S), RowSet(rows) \subseteq S,
           RowSet(DiskRows(disk)) \subseteq S
    PROVE  Distinct(Merged(rows, dropped, disk))
<1> DEFINE D == DiskRows(disk)
           others == Foreign(rows, dropped, disk)
           new == Merged(rows, dropped, disk)
           Own(j) == j \in DOMAIN rows
<1>1. /\ \A j \in DOMAIN new : Own(j) => new[j] = Freshest(rows[j], disk)
      /\ \A j \in DOMAIN new : ~Own(j) =>
             j - Len(rows) \in DOMAIN others /\ new[j] = others[j - Len(rows)]
      /\ \A j \in DOMAIN new : j \in Nat
      /\ Len(rows) \in Nat
  BY MergedIs, SeqIs
<1>2. /\ \A n \in DOMAIN others : \E k \in DOMAIN D :
             others[n] = D[k] /\ \A i \in DOMAIN rows : Find(D, rows[i]) # k
      /\ Distinct(others)
  BY ForeignIs
<1>3. \A i \in DOMAIN rows : rows[i] \in Row /\ rows[i] \in S
  BY SeqIs DEF RowSet
<1>4. \A i \in DOMAIN rows : /\ Freshest(rows[i], disk).id = rows[i].id
                             /\ Freshest(rows[i], disk).who = rows[i].who
  BY <1>3, FreshestIs
<1>5. ASSUME NEW i \in DOMAIN rows, NEW n \in DOMAIN others
      PROVE  others[n].id # rows[i].id /\ others[n].who # rows[i].who
  <2>1. PICK k \in DOMAIN D : others[n] = D[k] /\ Find(D, rows[i]) # k
    BY <1>2
  <2>2. D[k].who # rows[i].who
    BY <1>3, <2>1, FindAccount
  <2>3. D[k] \in S
    BY DEF RowSet
  <2> QED
    BY <1>3, <2>1, <2>2, <2>3 DEF Agree
<1> HIDE DEF new, others
<1>6. ASSUME NEW i \in DOMAIN new, NEW j \in DOMAIN new, i # j
      PROVE  new[i].id # new[j].id /\ new[i].who # new[j].who
  <2>1. CASE Own(i) /\ Own(j)
    BY <1>1, <1>4, <1>6, <2>1 DEF Distinct
  <2>2. CASE Own(i) /\ ~Own(j)
    BY <1>1, <1>4, <1>5, <2>2
  <2>3. CASE ~Own(i) /\ Own(j)
    BY <1>1, <1>4, <1>5, <2>3
  <2>4. CASE ~Own(i) /\ ~Own(j)
    <3>1. i - Len(rows) # j - Len(rows)
      BY <1>1, <1>6
    <3> QED
      BY <1>1, <1>2, <2>4, <3>1 DEF Distinct
  <2> QED
    BY <2>1, <2>2, <2>3, <2>4
<1>7. Distinct(new)
  BY <1>6 DEF Distinct
<1> QED
  BY <1>7 DEF new

------------------------------------------------------------------------------
(***************************************************************************)
(* The sync of memory with the file.                                       *)
(***************************************************************************)

\* The recursion of Taken has a solution: one state for every row taken.
LEMMA TakenIs ==
    ASSUME NEW accounts, NEW rows \in Seq(Row)
    PROVE  \E t : /\ t[0] = [memory |-> accounts, out |-> <<>>]
                  /\ \A n \in 0 .. Len(rows) : n + 1 \in 0 .. Len(rows) =>
                         t[n + 1] = TakeRow(t[n], rows[n + 1])
                  /\ Taken(accounts, rows) = t[Len(rows)]
<1> DEFINE N == Len(rows)
           start == [memory |-> accounts, out |-> <<>>]
           Step(done, row) == TakeRow(done, row)
           Is(g, m) == g = [n \in 0 .. m |-> IF n = 0 THEN start
                                             ELSE Step(g[n - 1], rows[n])]
           S == {m \in 0 .. N : \E g : Is(g, m)}
<1>1. N \in Nat
  OBVIOUS
<1> HIDE DEF Step, start, N
<1>2. 0 \in S
  <2>1. \E g : Is(g, 0)
    <3> DEFINE g == [n \in 0 .. 0 |-> start]
    <3>1. Is(g, 0)
      OBVIOUS
    <3> HIDE DEF g, Is
    <3> QED
      BY <3>1
  <2>2. 0 \in 0 .. N
    BY <1>1
  <2> HIDE DEF Is
  <2> QED
    BY <2>1, <2>2
<1>3. ASSUME NEW m \in 0 .. N, m \in S, m + 1 \in 0 .. N PROVE m + 1 \in S
  <2>1. PICK g : Is(g, m)
    BY <1>3
  <2>2. \A n \in 0 .. m : g[n] = IF n = 0 THEN start ELSE Step(g[n - 1], rows[n])
    BY <2>1
  <2> DEFINE h == [n \in 0 .. (m + 1) |->
                      IF n = m + 1 THEN Step(g[m], rows[m + 1]) ELSE g[n]]
  <2>3. \A n \in 0 .. m : h[n] = g[n]
    BY <1>1
  <2>4. ASSUME NEW n \in 0 .. (m + 1)
        PROVE  h[n] = IF n = 0 THEN start ELSE Step(h[n - 1], rows[n])
    <3>1. CASE n = m + 1
      <4>1. h[n] = Step(g[m], rows[n]) /\ h[n - 1] = g[m] /\ n # 0
        BY <1>1, <2>3, <3>1
      <4> QED
        BY <4>1
    <3>2. CASE n \in 0 .. m
      <4>1. n = 0 \/ n - 1 \in 0 .. m
        BY <1>1, <3>2
      <4> QED
        BY <2>2, <2>3, <3>2, <4>1
    <3> QED
      BY <1>1, <3>1, <3>2
  <2>5. h = [n \in 0 .. (m + 1) |-> h[n]]
    OBVIOUS
  <2> HIDE DEF h
  <2>6. Is(h, m + 1)
    BY <2>4, <2>5
  <2> QED
    BY <1>3, <2>6
<1>4. N \in S
  <2>1. \A n \in 0 .. N : n \in S /\ n + 1 \in 0 .. N => n + 1 \in S
    BY <1>3
  <2> HIDE DEF S
  <2>2. \A n \in 0 .. N : n \in S
    BY <1>1, <1>2, <2>1, SetInduction
  <2> QED
    BY <1>1, <2>2
<1> DEFINE t == CHOOSE g : Is(g, N)
<1>5. Is(t, N)
  <2>1. \E g : Is(g, N)
    BY <1>4
  <2> HIDE DEF Is
  <2> QED
    BY <2>1
<1>6. Taken(accounts, rows) = t[N]
  BY DEF Taken, Step, start, N
<1> HIDE DEF t
<1>7. \A n \in 0 .. N : t[n] = IF n = 0 THEN start ELSE Step(t[n - 1], rows[n])
  BY <1>5
<1>8. ASSUME NEW n \in 0 .. N, n + 1 \in 0 .. N
      PROVE  t[n + 1] = Step(t[n], rows[n + 1])
  <2>1. n + 1 # 0 /\ n + 1 - 1 = n
    BY <1>1
  <2> QED
    BY <1>7, <1>8, <2>1
<1>9. t[0] = start
  BY <1>1, <1>7
<1> QED
  BY <1>6, <1>8, <1>9 DEF Step, start, N

Done == [memory: Seq(Row), out: Seq(Row)]

\* The entries that are the account which row is taken for.
IsTakenFor(done, row, old) ==
    LET k == Find(done.memory, row)
    IN  k # 0 /\ old.id = done.memory[k].id

LEMMA TakeRowIs ==
    ASSUME NEW done \in Done, NEW row \in Row
    PROVE  LET new == TakeRow(done, row)
           IN  /\ new \in Done
               /\ DOMAIN new.memory = DOMAIN done.memory
               /\ Len(new.out) = Len(done.out) + 1
               /\ new.out[Len(done.out) + 1] = row
               /\ \A i \in DOMAIN done.memory :
                      new.memory[i] = IF IsTakenFor(done, row, done.memory[i])
                                      THEN row ELSE done.memory[i]
               /\ \A i \in DOMAIN done.out :
                      new.out[i] = IF IsTakenFor(done, row, done.out[i])
                                   THEN row ELSE done.out[i]
<1> DEFINE new == TakeRow(done, row)
           k == Find(done.memory, row)
           id == done.memory[k].id
           Same(old) == k # 0 /\ old.id = id
           Update(rows) == [i \in DOMAIN rows |-> IF Same(rows[i]) THEN row ELSE rows[i]]
<1>1. /\ done = [memory |-> done.memory, out |-> done.out]
      /\ done.memory \in Seq(Row) /\ done.out \in Seq(Row)
  BY DEF Done
<1>2. ASSUME NEW rows \in Seq(Row)
      PROVE  /\ Update(rows) \in Seq(Row) /\ Len(Update(rows)) = Len(rows)
             /\ DOMAIN Update(rows) = DOMAIN rows
             /\ k = 0 => Update(rows) = rows
  <2> HIDE DEF k, id
  <2>1. /\ Len(rows) \in Nat /\ DOMAIN rows = 1 .. Len(rows)
        /\ \A i \in DOMAIN rows : rows[i] \in Row
    BY SeqIs
  <2>2. \A i \in 1 .. Len(rows) : Update(rows)[i] \in Row
    BY <2>1
  <2>3. Update(rows) = [i \in 1 .. Len(rows) |-> Update(rows)[i]]
    BY <2>1
  <2>4. ASSUME k = 0 PROVE Update(rows) = rows
    BY <2>1, <2>4
  <2> HIDE DEF Update
  <2> QED
    BY <2>1, <2>2, <2>3, <2>4
<1>3. new = [memory |-> Update(done.memory), out |-> Append(Update(done.out), row)]
  <2>1. CASE k = 0
    <3>1. new = [done EXCEPT !.out = Append(done.out, row)]
      BY <2>1 DEF TakeRow
    <3>2. Update(done.memory) = done.memory /\ Update(done.out) = done.out
      BY <1>1, <1>2, <2>1
    <3> HIDE DEF new, Update
    <3> QED
      BY <1>1, <3>1, <3>2
  <2>2. CASE k # 0
    BY <2>2 DEF TakeRow
  <2> QED
    BY <2>1, <2>2
<1> DEFINE memory == Update(done.memory)
           before == Update(done.out)
<1>4. /\ memory \in Seq(Row) /\ DOMAIN memory = DOMAIN done.memory
      /\ before \in Seq(Row) /\ DOMAIN before = DOMAIN done.out
      /\ Len(before) = Len(done.out)
  BY <1>1, <1>2
<1>5. /\ \A i \in DOMAIN done.memory :
             memory[i] = IF Same(done.memory[i]) THEN row ELSE done.memory[i]
      /\ \A i \in DOMAIN done.out :
             before[i] = IF Same(done.out[i]) THEN row ELSE done.out[i]
  OBVIOUS
<1> HIDE DEF memory, before
<1>6. /\ Append(before, row) \in Seq(Row)
      /\ Len(Append(before, row)) = Len(before) + 1
      /\ Append(before, row)[Len(before) + 1] = row
      /\ \A i \in DOMAIN before : Append(before, row)[i] = before[i]
  BY <1>4
<1>7. new = [memory |-> memory, out |-> Append(before, row)]
  BY <1>3 DEF memory, before
<1> HIDE DEF new, k, id
<1>8. /\ new \in Done
      /\ DOMAIN new.memory = DOMAIN done.memory
      /\ Len(new.out) = Len(done.out) + 1
      /\ new.out[Len(done.out) + 1] = row
  BY <1>4, <1>6, <1>7 DEF Done
<1>9. /\ \A i \in DOMAIN done.memory :
             new.memory[i] = IF Same(done.memory[i]) THEN row ELSE done.memory[i]
      /\ \A i \in DOMAIN done.out :
             new.out[i] = IF Same(done.out[i]) THEN row ELSE done.out[i]
  BY <1>4, <1>5, <1>6, <1>7
<1> QED
  BY <1>8, <1>9 DEF new, k, id, IsTakenFor

LEMMA IdsIs == ASSUME NEW rows PROVE Ids(rows) = {r.id : r \in RowSet(rows)}
BY DEF Ids, RowSet

\* An account of memory that the rows of the file have not been, and the row
\* that it leaves.
IsOrphan(end, i) ==
    /\ i \in DOMAIN end.memory
    /\ \A m \in DOMAIN end.out : end.out[m].id # end.memory[i].id
LeftOf(end, i) == [end.memory[i] EXCEPT !.enabled = FALSE]

\* The accounts at the end of a sync: what the loop has put out, then what
\* its orphans leave.
EndsAs(end, new) ==
    /\ new \in Seq(Row)
    /\ \A m \in DOMAIN end.out : m \in DOMAIN new /\ new[m] = end.out[m]
    /\ \A j \in DOMAIN new : j \notin DOMAIN end.out =>
           \E i \in DOMAIN end.memory :
               IsOrphan(end, i) /\ new[j] = LeftOf(end, i)
    /\ \A i \in DOMAIN end.memory : IsOrphan(end, i) =>
           \E j \in DOMAIN new : new[j] = LeftOf(end, i)
    /\ \A j, l \in DOMAIN new :
           /\ j # l /\ j \notin DOMAIN end.out /\ l \notin DOMAIN end.out
           => \E i, k \in DOMAIN end.memory :
                  /\ i # k /\ IsOrphan(end, i) /\ IsOrphan(end, k)
                  /\ new[j] = LeftOf(end, i) /\ new[l] = LeftOf(end, k)

LEMMA ReconciledFrom ==
    ASSUME NEW accounts \in Seq(Row), NEW disk, disk.rows \in Seq(Row),
           NEW end \in Done, end = Taken(accounts, disk.rows)
    PROVE  EndsAs(end, Reconciled(accounts, disk))
<1> DEFINE memory == end.memory
           out == end.out
           Orphan(i) == /\ i \in DOMAIN memory
                        /\ \A m \in DOMAIN out : out[m].id # memory[i].id
           Left(i) == [memory[i] EXCEPT !.enabled = FALSE]
           at == InOrder({i \in DOMAIN memory : Orphan(i)})
           orphans == ElementsAt(memory, {i \in DOMAIN memory : Orphan(i)})
           rest == [n \in DOMAIN orphans |-> [orphans[n] EXCEPT !.enabled = FALSE]]
           new == Reconciled(accounts, disk)
<1>1. memory \in Seq(Row) /\ out \in Seq(Row)
  BY DEF Done
<1>2. {i \in DOMAIN memory : memory[i].id \notin Ids(out)}
        = {i \in DOMAIN memory : Orphan(i)}
  BY DEF Ids
<1>3. new = out \o rest
  BY <1>2 DEF Reconciled
<1>4. /\ orphans \in Seq(Row)
      /\ \A n \in DOMAIN orphans : Orphan(at[n]) /\ orphans[n] = memory[at[n]]
      /\ \A n, m \in DOMAIN orphans : at[n] = at[m] => n = m
      /\ \A i \in DOMAIN memory : Orphan(i) => \E n \in DOMAIN orphans : at[n] = i
  <2> DEFINE S == {i \in DOMAIN memory : Orphan(i)}
  <2>1. S \subseteq DOMAIN memory
    OBVIOUS
  <2>2. \A i : i \in S <=> i \in DOMAIN memory /\ Orphan(i)
    OBVIOUS
  <2> HIDE DEF S, Orphan, memory
  <2>3. /\ ElementsAt(memory, S) \in Seq(Row)
        /\ \A k \in DOMAIN ElementsAt(memory, S) :
               /\ InOrder(S)[k] \in S
               /\ ElementsAt(memory, S)[k] = memory[InOrder(S)[k]]
        /\ \A k, l \in DOMAIN ElementsAt(memory, S) : InOrder(S)[k] = InOrder(S)[l] => k = l
        /\ \A i \in S : \E k \in DOMAIN ElementsAt(memory, S) : InOrder(S)[k] = i
    <3>1. memory \in Seq(Row)
      BY <1>1
    <3> QED
      BY <2>1, <3>1, RowsAtIs
  <2> QED
    BY <2>2, <2>3 DEF S
<1> HIDE DEF at, orphans
<1>5. /\ \A n \in DOMAIN orphans : rest[n] = Left(at[n]) /\ rest[n] \in Row
      /\ rest \in Seq(Row) /\ DOMAIN rest = DOMAIN orphans
  <2> HIDE DEF Orphan, memory, out
  <2>1. DOMAIN orphans = 1 .. Len(orphans) /\ Len(orphans) \in Nat
    BY <1>4
  <2>2. ASSUME NEW n \in DOMAIN orphans
        PROVE  rest[n] = Left(at[n]) /\ rest[n] \in Row
    <3>1. orphans[n] = memory[at[n]] /\ orphans[n] \in Row
      BY <1>4, SeqIs
    <3>2. rest[n] = [orphans[n] EXCEPT !.enabled = FALSE]
      OBVIOUS
    <3> QED
      BY <3>1, <3>2, RowTypes
  <2>3. rest = [n \in 1 .. Len(orphans) |-> rest[n]]
    BY <2>1
  <2> HIDE DEF rest
  <2>4. rest \in Seq(Row) /\ DOMAIN rest = DOMAIN orphans
    BY <2>1, <2>2, <2>3
  <2> QED
    BY <2>2, <2>4
<1> HIDE DEF rest, new
<1>6. /\ new \in Seq(Row)
      /\ DOMAIN new = 1 .. (Len(out) + Len(rest))
      /\ DOMAIN out = 1 .. Len(out) /\ DOMAIN rest = 1 .. Len(rest)
      /\ \A m \in DOMAIN out : new[m] = out[m]
      /\ \A j \in DOMAIN new : j \notin DOMAIN out =>
             j - Len(out) \in DOMAIN rest /\ new[j] = rest[j - Len(out)]
      /\ \A n \in DOMAIN rest : new[Len(out) + n] = rest[n]
  <2> HIDE DEF out
  <2>1. out \in Seq(Row) /\ rest \in Seq(Row) /\ new = out \o rest
    BY <1>1, <1>3, <1>5
  <2> QED
    BY <2>1, Concat
<1>7. Len(out) \in Nat /\ Len(rest) \in Nat
  BY <1>1, <1>5
<1> HIDE DEF out, memory
<1>8. \A m \in DOMAIN out : m \in DOMAIN new
  BY <1>6, <1>7
<1>9. \A n \in DOMAIN rest : Len(out) + n \in DOMAIN new
  BY <1>6, <1>7
<1> HIDE DEF Orphan, Left
<1>10. \A n \in DOMAIN rest : Orphan(at[n]) /\ rest[n] = Left(at[n])
  BY <1>4, <1>5
<1>11. \A i : Orphan(i) => i \in DOMAIN memory
  BY DEF Orphan
<1>12. \A i \in DOMAIN memory : Orphan(i) => \E j \in DOMAIN new : new[j] = Left(i)
  BY <1>4, <1>5, <1>6, <1>9, <1>10
<1>13. \A j \in DOMAIN new : j \notin DOMAIN out =>
           \E i \in DOMAIN memory : Orphan(i) /\ new[j] = Left(i)
  BY <1>6, <1>10, <1>11
<1>14. ASSUME NEW j \in DOMAIN new, NEW l \in DOMAIN new,
              j # l, j \notin DOMAIN out, l \notin DOMAIN out
       PROVE  \E i, k \in DOMAIN memory :
                  /\ i # k /\ Orphan(i) /\ Orphan(k)
                  /\ new[j] = Left(i) /\ new[l] = Left(k)
  <2> DEFINE n == j - Len(out)
             m == l - Len(out)
  <2>1. n \in DOMAIN rest /\ m \in DOMAIN rest /\ n # m
    BY <1>6, <1>7, <1>14
  <2>2. new[j] = Left(at[n]) /\ new[l] = Left(at[m])
    BY <1>6, <1>10, <1>14, <2>1
  <2>3. /\ at[n] # at[m] /\ Orphan(at[n]) /\ Orphan(at[m])
        /\ at[n] \in DOMAIN memory /\ at[m] \in DOMAIN memory
    BY <1>4, <1>5, <1>10, <1>11, <2>1
  <2> QED
    BY <2>2, <2>3
<1>15. /\ new \in Seq(Row)
       /\ \A m \in DOMAIN out : m \in DOMAIN new /\ new[m] = out[m]
       /\ \A j \in DOMAIN new : j \notin DOMAIN out =>
              \E i \in DOMAIN memory : Orphan(i) /\ new[j] = Left(i)
       /\ \A i \in DOMAIN memory : Orphan(i) => \E j \in DOMAIN new : new[j] = Left(i)
       /\ \A j, l \in DOMAIN new :
              /\ j # l /\ j \notin DOMAIN out /\ l \notin DOMAIN out
              => \E i, k \in DOMAIN memory :
                     /\ i # k /\ Orphan(i) /\ Orphan(k)
                     /\ new[j] = Left(i) /\ new[l] = Left(k)
  BY <1>6, <1>8, <1>12, <1>13, <1>14
<1> QED
  BY <1>15, Zenon DEF Orphan, Left, out, memory, new, IsOrphan, LeftOf, EndsAs

\* Whatever matches what, a sync has only rows of memory and of the file.
LEMMA TakenOnlyThese ==
    ASSUME NEW accounts \in Seq(Row), NEW rows \in Seq(Row)
    PROVE  LET end == Taken(accounts, rows)
           IN  /\ end \in Done /\ Len(end.out) = Len(rows)
               /\ RowSet(end.memory) \subseteq RowSet(accounts) \cup RowSet(rows)
               /\ RowSet(end.out) \subseteq RowSet(accounts) \cup RowSet(rows)
<1> DEFINE N == Len(rows)
           T == RowSet(accounts) \cup RowSet(rows)
           Inv(done, n) == /\ done \in Done /\ Len(done.out) = n
                           /\ RowSet(done.memory) \subseteq T
                           /\ RowSet(done.out) \subseteq T
<1>1. PICK t : /\ t[0] = [memory |-> accounts, out |-> <<>>]
               /\ \A n \in 0 .. N : n + 1 \in 0 .. N =>
                      t[n + 1] = TakeRow(t[n], rows[n + 1])
               /\ Taken(accounts, rows) = t[N]
  BY TakenIs
<1> DEFINE S == {n \in 0 .. N : Inv(t[n], n)}
<1>2. N \in Nat /\ DOMAIN rows = 1 .. N /\ \A n \in 1 .. N : rows[n] \in Row
  BY SeqIs
<1>3. \A n \in 1 .. N : rows[n] \in T
  BY <1>2 DEF RowSet
<1>4. 0 \in S
  <2>1. t[0] \in Done /\ Len(t[0].out) = 0
    BY <1>1 DEF Done
  <2>2. RowSet(t[0].memory) \subseteq T /\ RowSet(t[0].out) \subseteq T
    BY <1>1 DEF RowSet
  <2> QED
    BY <1>2, <2>1, <2>2
<1>5. ASSUME NEW n \in 0 .. N, n \in S, n + 1 \in 0 .. N PROVE n + 1 \in S
  <2> DEFINE done == t[n]
             row == rows[n + 1]
             new == t[n + 1]
  <2>1. Inv(done, n) /\ row \in Row /\ row \in T /\ new = TakeRow(done, row)
    BY <1>1, <1>2, <1>3, <1>5
  <2> HIDE DEF done, row, new, T
  <2>2. /\ new \in Done
        /\ DOMAIN new.memory = DOMAIN done.memory
        /\ Len(new.out) = Len(done.out) + 1
        /\ new.out[Len(done.out) + 1] = row
        /\ \A i \in DOMAIN done.memory : new.memory[i] \in {row, done.memory[i]}
        /\ \A i \in DOMAIN done.out : new.out[i] \in {row, done.out[i]}
    <3>1. done \in Done /\ row \in Row /\ new = TakeRow(done, row)
      BY <2>1
    <3> QED
      BY <3>1, TakeRowIs
  <2>3. /\ DOMAIN new.out = 1 .. (n + 1) /\ DOMAIN done.out = 1 .. n
        /\ Len(new.out) = n + 1
    BY <1>2, <2>1, <2>2 DEF Done
  <2>4. RowSet(new.memory) \subseteq T
    BY <2>1, <2>2 DEF RowSet
  <2>5. RowSet(new.out) \subseteq T
    <3>1. \A i \in 1 .. (n + 1) : i \in 1 .. n \/ i = n + 1
      BY <1>2
    <3>2. \A i \in DOMAIN done.out : done.out[i] \in T
      BY <2>1 DEF RowSet
    <3>3. \A i \in DOMAIN new.out : new.out[i] \in T
      BY <2>1, <2>2, <2>3, <3>1, <3>2
    <3> QED
      BY <3>3 DEF RowSet
  <2> QED
    BY <1>5, <2>2, <2>3, <2>4, <2>5 DEF new
<1>6. N \in S
  <2>1. \A n \in 0 .. N : n \in S /\ n + 1 \in 0 .. N => n + 1 \in S
    BY <1>5
  <2> HIDE DEF S, N
  <2>2. \A n \in 0 .. N : n \in S
    BY <1>2, <1>4, <2>1, SetInduction
  <2> QED
    BY <1>2, <2>2
<1>7. Inv(t[N], N)
  BY <1>6
<1> QED
  BY <1>1, <1>7

\* The rows of a sync: rows of S, some of them switched off.
RowsOf(new, S) ==
    /\ new \in Seq(Row)
    /\ \A j \in DOMAIN new :
           \E r \in S : new[j] = r \/ new[j] = [r EXCEPT !.enabled = FALSE]

LEMMA ReconciledRows ==
    ASSUME NEW accounts \in Seq(Row), NEW disk, disk.rows \in Seq(Row)
    PROVE  RowsOf(Reconciled(accounts, disk),
                  RowSet(accounts) \cup RowSet(disk.rows))
<1> DEFINE end == Taken(accounts, disk.rows)
           new == Reconciled(accounts, disk)
           T == RowSet(accounts) \cup RowSet(disk.rows)
<1>1. /\ end \in Done
      /\ RowSet(end.memory) \subseteq T /\ RowSet(end.out) \subseteq T
  BY TakenOnlyThese
<1> HIDE DEF end
<1>2. /\ new \in Seq(Row)
      /\ \A j \in DOMAIN end.out : new[j] = end.out[j]
      /\ \A j \in DOMAIN new : j \notin DOMAIN end.out =>
             \E i \in DOMAIN end.memory :
                 new[j] = [end.memory[i] EXCEPT !.enabled = FALSE]
  <2>1. end = Taken(accounts, disk.rows)
    BY DEF end
  <2>2. EndsAs(end, new)
    BY <1>1, <2>1, ReconciledFrom
  <2> QED
    BY <2>2 DEF EndsAs, IsOrphan, LeftOf
<1>3. /\ \A j \in DOMAIN end.out : end.out[j] \in T
      /\ \A i \in DOMAIN end.memory : end.memory[i] \in T
  BY <1>1 DEF RowSet
<1> HIDE DEF new, T
<1>4. \A j \in DOMAIN new :
          \E r \in T : new[j] = r \/ new[j] = [r EXCEPT !.enabled = FALSE]
  BY <1>2, <1>3
<1> QED
  BY <1>2, <1>4 DEF new, T, RowsOf

(***************************************************************************)
(* When memory and file have each account once and do not disagree, a sync *)
(* has the rows of the file in their order, and after them, disabled, the  *)
(* accounts of memory that the file does not have.                         *)
(***************************************************************************)
HasAccount(rows, n, who) == \E m \in 1 .. n : rows[m].who = who

\* The state after n rows of the file.
TookInOrder(done, accounts, rows, n) ==
    /\ done \in Done /\ Len(done.out) = n
    /\ \A m \in 1 .. n : done.out[m] = rows[m]
    /\ DOMAIN done.memory = DOMAIN accounts
    /\ \A i \in DOMAIN accounts :
           \/ /\ done.memory[i] = accounts[i]
              /\ ~HasAccount(rows, n, accounts[i].who)
           \/ \E m \in 1 .. n : done.memory[i] = rows[m]
                                /\ rows[m].who = accounts[i].who

LEMMA TakeRowInOrder ==
    ASSUME NEW accounts \in Seq(Row), NEW rows \in Seq(Row),
           Distinct(accounts), Distinct(rows), NEW S, Agree(S),
           RowSet(accounts) \subseteq S, RowSet(rows) \subseteq S,
           NEW n \in Nat, n + 1 \in DOMAIN rows, NEW done,
           TookInOrder(done, accounts, rows, n)
    PROVE  TookInOrder(TakeRow(done, rows[n + 1]), accounts, rows, n + 1)
<1> DEFINE memory == done.memory
           row == rows[n + 1]
           k == Find(memory, row)
           new == TakeRow(done, row)
<1>1. /\ done \in Done /\ memory \in Seq(Row) /\ done.out \in Seq(Row)
      /\ DOMAIN memory = DOMAIN accounts
      /\ DOMAIN done.out = 1 .. n /\ Len(done.out) = n
  BY DEF TookInOrder, Done
<1>2. /\ row \in Row /\ row \in S
      /\ \A m \in 1 .. n : m \in DOMAIN rows /\ m # n + 1 /\ rows[m] \in S
      /\ \A i \in DOMAIN accounts : accounts[i] \in S
  BY SeqIs DEF RowSet
<1>3. \A i \in DOMAIN accounts :
          memory[i].who = accounts[i].who /\ memory[i] \in S
  BY <1>2 DEF TookInOrder
<1>4. Distinct(memory)
  BY <1>1, <1>3 DEF Distinct, Agree
<1>5. /\ \A i \in DOMAIN memory : memory[i].who = row.who <=> k = i
      /\ k = 0 <=> \A i \in DOMAIN memory : memory[i].who # row.who
      /\ k \in DOMAIN memory \cup {0}
  <2>1. RowSet(memory) \subseteq S
    BY <1>1, <1>3 DEF RowSet
  <2>2. memory \in Seq(Row) /\ Distinct(memory) /\ row \in S
    BY <1>1, <1>2, <1>4
  <2> HIDE DEF memory, row
  <2>3. k \in DOMAIN memory \cup {0}
    BY <2>2, FindIs
  <2> QED
    BY <2>1, <2>2, <2>3, FindAccount
<1> HIDE DEF memory, row, k, new
<1>6. DOMAIN memory \subseteq Nat \ {0}
  BY <1>1, SeqIs
<1> DEFINE Same(old) == IsTakenFor(done, row, old)
<1>7. /\ new \in Done
      /\ DOMAIN new.memory = DOMAIN memory
      /\ Len(new.out) = n + 1 /\ new.out[n + 1] = row
      /\ \A i \in DOMAIN memory :
             new.memory[i] = IF Same(memory[i]) THEN row ELSE memory[i]
      /\ \A m \in 1 .. n :
             new.out[m] = IF Same(done.out[m]) THEN row ELSE done.out[m]
  <2>1. done \in Done /\ row \in Row /\ new = TakeRow(done, row)
    BY <1>1, <1>2 DEF new
  <2>2. k = Find(done.memory, row) /\ memory = done.memory
    BY DEF memory, k
  <2>3. /\ new \in Done
        /\ DOMAIN new.memory = DOMAIN done.memory
        /\ Len(new.out) = Len(done.out) + 1
        /\ new.out[Len(done.out) + 1] = row
    BY <2>1, TakeRowIs
  <2>4. /\ \A i \in DOMAIN memory :
               new.memory[i] = IF Same(memory[i]) THEN row ELSE memory[i]
        /\ \A m \in DOMAIN done.out :
               new.out[m] = IF Same(done.out[m]) THEN row ELSE done.out[m]
    BY <2>1, TakeRowIs DEF memory
  <2> QED
    BY <1>1, <2>2, <2>3, <2>4
<1>8. \A i \in DOMAIN memory : Same(memory[i]) <=> k = i
  BY <1>4, <1>5, <1>6 DEF Distinct, IsTakenFor, memory, k
<1>9. \A m \in 1 .. n : ~Same(done.out[m])
  <2>1. \A m \in 1 .. n : done.out[m] = rows[m] /\ rows[m].who # row.who
    BY <1>2 DEF TookInOrder, row, Distinct
  <2> QED
    BY <1>1, <1>2, <1>3, <1>5, <2>1 DEF Agree, IsTakenFor, memory, k
<1> HIDE DEF Same
<1>10. \A m \in 1 .. (n + 1) : new.out[m] = rows[m]
  <2>1. \A m \in 1 .. (n + 1) : m \in 1 .. n \/ m = n + 1
    OBVIOUS
  <2>2. \A m \in 1 .. n : new.out[m] = rows[m]
    BY <1>7, <1>9 DEF TookInOrder
  <2> QED
    BY <1>7, <2>1, <2>2 DEF row
<1>11. ASSUME NEW i \in DOMAIN accounts
       PROVE  \/ /\ new.memory[i] = accounts[i]
                 /\ ~HasAccount(rows, n + 1, accounts[i].who)
              \/ \E m \in 1 .. (n + 1) : /\ new.memory[i] = rows[m]
                                         /\ rows[m].who = accounts[i].who
  <2>1. CASE k = i
    <3>1. new.memory[i] = rows[n + 1] /\ rows[n + 1].who = accounts[i].who
      BY <1>1, <1>3, <1>5, <1>7, <1>8, <2>1 DEF row
    <3> QED
      BY <3>1
  <2>2. CASE k # i
    <3>1. new.memory[i] = memory[i] /\ row.who # accounts[i].who
      BY <1>1, <1>3, <1>5, <1>7, <1>8, <2>2
    <3>2. CASE memory[i] = accounts[i] /\ ~HasAccount(rows, n, accounts[i].who)
      <4>1. \A m \in 1 .. (n + 1) : m \in 1 .. n \/ m = n + 1
        OBVIOUS
      <4> QED
        BY <3>1, <3>2, <4>1 DEF HasAccount, row
    <3>3. CASE \E m \in 1 .. n : /\ memory[i] = rows[m]
                                 /\ rows[m].who = accounts[i].who
      BY <3>1, <3>3
    <3> QED
      BY <3>2, <3>3 DEF TookInOrder, memory
  <2> QED
    BY <2>1, <2>2
<1>12. TookInOrder(new, accounts, rows, n + 1)
  BY <1>1, <1>7, <1>10, <1>11 DEF TookInOrder
<1> QED
  BY <1>12 DEF new, row

LEMMA TakenInOrder ==
    ASSUME NEW accounts \in Seq(Row), NEW rows \in Seq(Row),
           Distinct(accounts), Distinct(rows), NEW T, Agree(T),
           RowSet(accounts) \subseteq T, RowSet(rows) \subseteq T
    PROVE  TookInOrder(Taken(accounts, rows), accounts, rows, Len(rows))
<1> DEFINE N == Len(rows)
<1>1. PICK t : /\ t[0] = [memory |-> accounts, out |-> <<>>]
               /\ \A n \in 0 .. N : n + 1 \in 0 .. N =>
                      t[n + 1] = TakeRow(t[n], rows[n + 1])
               /\ Taken(accounts, rows) = t[N]
  BY TakenIs
<1> DEFINE S == {n \in 0 .. N : TookInOrder(t[n], accounts, rows, n)}
<1>2. N \in Nat /\ DOMAIN rows = 1 .. N
  BY SeqIs
<1>3. 0 \in S
  <2>1. t[0] \in Done /\ Len(t[0].out) = 0 /\ t[0].memory = accounts
    BY <1>1 DEF Done
  <2>2. TookInOrder(t[0], accounts, rows, 0)
    BY <2>1 DEF TookInOrder, HasAccount
  <2> QED
    BY <1>2, <2>2
<1>4. ASSUME NEW n \in 0 .. N, n \in S, n + 1 \in 0 .. N PROVE n + 1 \in S
  <2>1. n \in Nat /\ n + 1 \in DOMAIN rows /\ TookInOrder(t[n], accounts, rows, n)
    BY <1>2, <1>4
  <2>2. TookInOrder(TakeRow(t[n], rows[n + 1]), accounts, rows, n + 1)
    BY <2>1, TakeRowInOrder
  <2> QED
    BY <1>1, <1>4, <2>2
<1>5. N \in S
  <2>1. \A n \in 0 .. N : n \in S /\ n + 1 \in 0 .. N => n + 1 \in S
    BY <1>4
  <2> HIDE DEF S, N
  <2>2. \A n \in 0 .. N : n \in S
    BY <1>2, <1>3, <2>1, SetInduction
  <2> QED
    BY <1>2, <2>2
<1> QED
  BY <1>1, <1>5

LEMMA ReconciledInOrder ==
    ASSUME NEW accounts \in Seq(Row), NEW disk, disk.rows \in Seq(Row),
           Distinct(accounts), Distinct(disk.rows), NEW T, Agree(T),
           RowSet(accounts) \subseteq T, RowSet(disk.rows) \subseteq T
    PROVE  LET new == Reconciled(accounts, disk)
               rows == disk.rows
           IN  /\ new \in Seq(Row) /\ Distinct(new)
               /\ \A m \in DOMAIN rows : m \in DOMAIN new /\ new[m] = rows[m]
               /\ \A j \in DOMAIN new : j \notin DOMAIN rows =>
                      \E i \in DOMAIN accounts :
                          /\ new[j] = [accounts[i] EXCEPT !.enabled = FALSE]
                          /\ \A m \in DOMAIN rows : rows[m].who # accounts[i].who
               /\ \A i \in DOMAIN accounts :
                      \E j \in DOMAIN new : new[j].who = accounts[i].who
<1> DEFINE rows == disk.rows
           N == Len(rows)
           end == Taken(accounts, rows)
           new == Reconciled(accounts, disk)
           Orphan(i) == IsOrphan(end, i)
           Left(i) == [accounts[i] EXCEPT !.enabled = FALSE]
           OnlyMemory(i) == \A m \in DOMAIN rows : rows[m].who # accounts[i].who
<1>1. TookInOrder(end, accounts, rows, N)
  BY TakenInOrder
<1>2. N \in Nat /\ DOMAIN rows = 1 .. N
  BY SeqIs
<1>3. end \in Done
  BY <1>1 DEF TookInOrder
<1>4. /\ new \in Seq(Row)
      /\ \A m \in DOMAIN end.out : m \in DOMAIN new /\ new[m] = end.out[m]
      /\ \A j \in DOMAIN new : j \notin DOMAIN end.out =>
             \E i \in DOMAIN end.memory : Orphan(i) /\ new[j] = LeftOf(end, i)
      /\ \A i \in DOMAIN end.memory : Orphan(i) =>
             \E j \in DOMAIN new : new[j] = LeftOf(end, i)
      /\ \A j, l \in DOMAIN new :
             /\ j # l /\ j \notin DOMAIN end.out /\ l \notin DOMAIN end.out
             => \E i, k \in DOMAIN end.memory :
                    /\ i # k /\ Orphan(i) /\ Orphan(k)
                    /\ new[j] = LeftOf(end, i) /\ new[l] = LeftOf(end, k)
  <2>1. end \in Done /\ end = Taken(accounts, disk.rows)
    BY <1>3
  <2>2. EndsAs(end, new)
    <3> HIDE DEF end, rows
    <3> QED
      BY <2>1, ReconciledFrom
  <2> HIDE DEF end, rows, new
  <2> QED
    BY <2>2, Zenon DEF EndsAs
<1>5. /\ DOMAIN end.memory = DOMAIN accounts
      /\ DOMAIN end.out = DOMAIN rows
      /\ \A m \in DOMAIN rows : end.out[m] = rows[m]
  BY <1>1, <1>2 DEF TookInOrder, Done
<1>6. \A i \in DOMAIN accounts :
          \/ end.memory[i] = accounts[i] /\ OnlyMemory(i)
          \/ \E m \in DOMAIN rows : /\ end.memory[i] = rows[m]
                                    /\ rows[m].who = accounts[i].who
  BY <1>1, <1>2 DEF TookInOrder, HasAccount
<1>7. /\ \A i \in DOMAIN accounts : accounts[i] \in T /\ accounts[i] \in Row
      /\ \A m \in DOMAIN rows : rows[m] \in T
  BY SeqIs DEF RowSet
<1> HIDE DEF end, new, rows
<1>8. \A i \in DOMAIN accounts : Orphan(i) =>
          /\ end.memory[i] = accounts[i] /\ OnlyMemory(i)
          /\ \A m \in DOMAIN rows : rows[m].id # accounts[i].id
  BY <1>5, <1>6 DEF IsOrphan
<1>9. \A i \in DOMAIN accounts : ~Orphan(i) =>
          \E m \in DOMAIN rows : rows[m].who = accounts[i].who
  BY <1>5, <1>6, <1>7 DEF Agree, IsOrphan
<1>20. \A i \in DOMAIN accounts : Orphan(i) => LeftOf(end, i) = Left(i)
  BY <1>8 DEF LeftOf
<1> HIDE DEF Orphan, Left
<1>10. \A m \in DOMAIN rows : m \in DOMAIN new /\ new[m] = rows[m]
  BY <1>4, <1>5
<1>11. \A j \in DOMAIN new : j \notin DOMAIN rows =>
           \E i \in DOMAIN accounts : Orphan(i) /\ new[j] = Left(i)
  BY <1>4, <1>5, <1>20
<1>12. \A i \in DOMAIN accounts : Orphan(i) => \E j \in DOMAIN new : new[j] = Left(i)
  BY <1>4, <1>5, <1>20
<1>13. \A j, l \in DOMAIN new :
           j # l /\ j \notin DOMAIN rows /\ l \notin DOMAIN rows =>
               \E i, k \in DOMAIN accounts :
                   i # k /\ new[j] = Left(i) /\ new[l] = Left(k)
  BY <1>4, <1>5, <1>20
<1>14. \A i \in DOMAIN accounts : /\ Left(i).id = accounts[i].id
                                  /\ Left(i).who = accounts[i].who
  BY <1>7, RowTypes DEF Left
<1>15. \A i \in DOMAIN accounts :
           \E j \in DOMAIN new : new[j].who = accounts[i].who
  BY <1>9, <1>10, <1>12, <1>14
<1>16. ASSUME NEW j \in DOMAIN new, NEW l \in DOMAIN new,
              j \in DOMAIN rows, l \notin DOMAIN rows
       PROVE  new[j].id # new[l].id /\ new[j].who # new[l].who
  BY <1>8, <1>10, <1>11, <1>14, <1>16
<1>17. ASSUME NEW j \in DOMAIN new, NEW l \in DOMAIN new, j # l
       PROVE  new[j].id # new[l].id /\ new[j].who # new[l].who
  <2>1. CASE j \in DOMAIN rows /\ l \in DOMAIN rows
    BY <1>10, <1>17, <2>1 DEF Distinct, rows
  <2>2. CASE ~(j \in DOMAIN rows <=> l \in DOMAIN rows)
    BY <1>16, <2>2
  <2>3. CASE j \notin DOMAIN rows /\ l \notin DOMAIN rows
    BY <1>13, <1>14, <1>17, <2>3 DEF Distinct
  <2> QED
    BY <2>1, <2>2, <2>3
<1>18. Distinct(new)
  BY <1>17 DEF Distinct
<1>19. \A j \in DOMAIN new : j \notin DOMAIN rows =>
           \E i \in DOMAIN accounts : new[j] = Left(i) /\ OnlyMemory(i)
  BY <1>8, <1>11
<1> QED
  BY <1>4, <1>10, <1>15, <1>18, <1>19 DEF new, rows, Left

------------------------------------------------------------------------------
(***************************************************************************)
(* Reading the file, positions of active accounts, and saving.             *)
(***************************************************************************)

\* Reading keeps a row for every token; it keeps every row when no two rows
\* have one token.
LEMMA DeduplicatedIs ==
    ASSUME NEW rows \in Seq(Row), NEW new \in Deduplicated(rows)
    PROVE  /\ new \in Seq(Row)
           /\ \A m \in DOMAIN new : \E i \in DOMAIN rows : new[m] = rows[i]
           /\ \A i \in DOMAIN rows :
                  \E m \in DOMAIN new : new[m].token = rows[i].token
           /\ (\A i, j \in DOMAIN rows : rows[i].token = rows[j].token => i = j)
                  => new = rows
<1> DEFINE twins(i) == {j \in DOMAIN rows : rows[j].token = rows[i].token}
           firsts == {i \in DOMAIN rows : i = FirstOf(twins(i))}
           picks == {f \in [DOMAIN rows -> DOMAIN rows] :
                        \A i \in DOMAIN rows : f[i] \in twins(i)}
<1>1. /\ DOMAIN rows = 1 .. Len(rows) /\ Len(rows) \in Nat
      /\ DOMAIN rows \subseteq Nat
      /\ \A i \in DOMAIN rows : rows[i] \in Row
  BY SeqIs
<1>2. \A i \in DOMAIN rows : /\ FirstOf(twins(i)) \in twins(i)
  <2> TAKE i \in DOMAIN rows
  <2>1. twins(i) \subseteq Nat /\ twins(i) # {}
    BY <1>1
  <2> HIDE DEF twins
  <2> QED
    BY <2>1, FirstOfIs
<1>3. CASE firsts = DOMAIN rows
  <2>1. new = rows
    BY <1>3, Zenon DEF Deduplicated
  <2> QED
    BY <2>1
<1>4. CASE firsts # DOMAIN rows
  <2>1. PICK pick \in picks :
            new = ElementsAt([i \in DOMAIN rows |-> rows[pick[i]]], firsts)
    BY <1>4, Zenon DEF Deduplicated
  <2> DEFINE mid == [i \in DOMAIN rows |-> rows[pick[i]]]
  <2>2. \A i \in DOMAIN rows : /\ pick[i] \in DOMAIN rows /\ mid[i] = rows[pick[i]]
                               /\ mid[i].token = rows[i].token
    OBVIOUS
  <2>3. mid \in Seq(Row) /\ DOMAIN mid = DOMAIN rows
    <3>1. mid \in [1 .. Len(rows) -> Row]
      BY <1>1, <2>2
    <3> QED
      BY <1>1, <3>1
  <2>4. firsts \subseteq DOMAIN mid
    OBVIOUS
  <2> DEFINE at == InOrder(firsts)
  <2>5. new = ElementsAt(mid, firsts)
    BY <2>1
  <2>6. \A i : i \in firsts => i \in DOMAIN rows
    OBVIOUS
  <2>7. \A i \in DOMAIN rows : FirstOf(twins(i)) \in firsts
    <3> TAKE i \in DOMAIN rows
    <3>1. PICK f \in DOMAIN rows : f = FirstOf(twins(i)) /\ rows[f].token = rows[i].token
      BY <1>2
    <3>2. twins(f) = twins(i)
      BY <3>1
    <3> QED
      BY <3>1, <3>2
  <2>8. \A i \in DOMAIN rows : \E f \in firsts : rows[f].token = rows[i].token
    BY <1>2, <2>7
  <2>9. (\A i, j \in DOMAIN rows : rows[i].token = rows[j].token => i = j)
            => firsts = DOMAIN rows
    BY <1>2
  <2> HIDE DEF mid, firsts
  <2>10. /\ new \in Seq(Row)
         /\ \A k \in DOMAIN new : at[k] \in firsts /\ new[k] = mid[at[k]]
         /\ \A i \in firsts : \E k \in DOMAIN new : at[k] = i
    BY <2>3, <2>4, <2>5, RowsAtIs
  <2> HIDE DEF at
  <2>11. \A m \in DOMAIN new : \E i \in DOMAIN rows : new[m] = rows[i]
    <3> TAKE m \in DOMAIN new
    <3>1. at[m] \in DOMAIN rows /\ new[m] = mid[at[m]]
      BY <2>6, <2>10
    <3> QED
      BY <2>2, <3>1
  <2>12. \A i \in DOMAIN rows : \E m \in DOMAIN new : new[m].token = rows[i].token
    <3> TAKE i \in DOMAIN rows
    <3>1. PICK f \in firsts : rows[f].token = rows[i].token
      BY <2>8
    <3>2. PICK m \in DOMAIN new : at[m] = f
      BY <2>10
    <3>3. new[m].token = rows[i].token
      BY <2>2, <2>6, <2>10, <3>1, <3>2
    <3> QED
      BY <3>3
  <2> QED
    BY <1>4, <2>9, <2>10, <2>11, <2>12
<1> QED
  BY <1>3, <1>4

LEMMA ClampIs ==
    ASSUME NEW rows \in Seq(Row), NEW i \in DOMAIN rows
    PROVE  Clamp(rows, i) = i
<1>1. i \in Nat /\ i >= 1 /\ i <= Len(rows) /\ rows # <<>>
  BY SeqIs
<1> QED
  BY <1>1 DEF Clamp

\* An account that is looked for among rows that have it is found.
LEMMA LocateIs ==
    ASSUME NEW rows \in Seq(Row), NEW wanted, wanted # {},
           \A id, other \in wanted : id = other, wanted \subseteq Ids(rows),
           NEW i
    PROVE  wanted \subseteq IdAt(rows, Locate(rows, wanted, i))
<1> DEFINE S == {k \in DOMAIN rows : rows[k].id \in wanted}
           k == FirstOf(S)
<1>1. S \subseteq Nat /\ S # {}
  BY SeqIs DEF Ids
<1>2. Locate(rows, wanted, i) = k
  BY DEF Locate
<1> HIDE DEF S
<1>3. k \in S
  BY <1>1, FirstOfIs
<1>4. k \in DOMAIN rows /\ rows[k].id \in wanted
  BY <1>3 DEF S
<1> QED
  BY <1>2, <1>4 DEF IdAt

LEMMA IdAtIs ==
    ASSUME NEW rows, NEW i
    PROVE  /\ \A id, other \in IdAt(rows, i) : id = other
           /\ IdAt(rows, i) \subseteq Ids(rows)
BY DEF IdAt, Ids

\* What unionAccountsWithDisk leaves of a payload and of the account that the
\* writer has as active.
LEMMA UnionIs ==
    ASSUME NEW rows \in Seq(Row), NEW active, NEW dropped, NEW disk,
           DiskRows(disk) \in Seq(Row)
    PROVE  LET new == Union(rows, active, dropped, disk)
           IN  /\ \/ new.rows = rows /\ (disk = NoFile \/ rows = <<>>)
                  \/ new.rows = Merged(rows, dropped, disk)
               /\ new.rows \in Seq(Row)
               /\ \A i \in DOMAIN rows : i \in DOMAIN new.rows
                                         /\ new.rows[i].id = rows[i].id
               /\ IdAt(rows, active) \subseteq IdAt(new.rows, new.active)
<1> DEFINE new == Union(rows, active, dropped, disk)
           all == Merged(rows, dropped, disk)
<1>1. CASE disk = NoFile \/ rows = <<>>
  <2>1. new.rows = rows /\ new.active = Clamp(rows, active)
    BY <1>1 DEF Union
  <2>2. active \in DOMAIN rows => new.active = active
    BY <2>1, ClampIs
  <2> HIDE DEF new
  <2>3. IdAt(rows, active) \subseteq IdAt(new.rows, new.active)
    BY <2>1, <2>2 DEF IdAt
  <2> QED
    BY <1>1, <2>1, <2>3 DEF new
<1>2. CASE ~(disk = NoFile \/ rows = <<>>)
  <2>1. new.rows = all /\ new.active = Locate(all, IdAt(rows, active), active)
    BY <1>2 DEF Union, Merged
  <2>2. /\ all \in Seq(Row)
        /\ \A i \in DOMAIN rows : i \in DOMAIN all
                                  /\ all[i] = Freshest(rows[i], disk)
    BY MergedIs
  <2>3. \A i \in DOMAIN rows : Freshest(rows[i], disk).id = rows[i].id
    <3> TAKE i \in DOMAIN rows
    <3>1. rows[i] \in Row
      BY SeqIs
    <3> QED
      BY <3>1, FreshestIs
  <2> HIDE DEF all, new
  <2>4. IdAt(rows, active) \subseteq Ids(all)
    BY <2>2, <2>3 DEF IdAt, Ids
  <2>5. IdAt(rows, active) # {} =>
            IdAt(rows, active) \subseteq IdAt(all, new.active)
    BY <2>1, <2>2, <2>4, IdAtIs, LocateIs
  <2> QED
    BY <2>1, <2>2, <2>3, <2>5 DEF all, new
<1> QED
  BY <1>1, <1>2

\* What prepareStorageForSave writes, and what of it is active.
LEMMA PrepareIs ==
    ASSUME NEW accounts \in Seq(Row), NEW current, NEW dropped, NEW disk,
           DiskRows(disk) \in Seq(Row)
    PROVE  LET new == Prepare(accounts, current, dropped, disk)
           IN  /\ \/ new.rows = <<>>
                  \/ \E S : /\ S \subseteq DOMAIN accounts
                            /\ new.rows = Merged(ElementsAt(accounts, S), dropped, disk)
               /\ new.rows \in Seq(Row)
               /\ Ids(new.rows) \cap dropped \subseteq Ids(accounts)
               /\ IdAt(accounts, current) \cap Ids(new.rows)
                      \subseteq IdAt(new.rows, new.active)
<1> DEFINE S == {i \in DOMAIN accounts : \/ accounts[i].enabled
                                         \/ Find(DiskRows(disk), accounts[i]) # 0}
           kept == ElementsAt(accounts, S)
           new == Prepare(accounts, current, dropped, disk)
           others == Foreign(kept, dropped, disk)
<1>1. /\ S \subseteq DOMAIN accounts
      /\ new.rows = IF kept = <<>> THEN <<>> ELSE Merged(kept, dropped, disk)
      /\ new.active = Locate(new.rows, IdAt(accounts, current), current)
  BY DEF Prepare, Merged
<1> HIDE DEF S, new
<1>2. /\ kept \in Seq(Row)
      /\ \A n \in DOMAIN kept : \E i \in DOMAIN accounts : kept[n] = accounts[i]
  BY <1>1, RowsAtIs
<1> HIDE DEF kept
<1>3. /\ Merged(kept, dropped, disk) \in Seq(Row)
      /\ \A n \in DOMAIN kept : Merged(kept, dropped, disk)[n] = Freshest(kept[n], disk)
      /\ \A j \in DOMAIN Merged(kept, dropped, disk) : j \notin DOMAIN kept =>
             /\ j - Len(kept) \in DOMAIN others
             /\ Merged(kept, dropped, disk)[j] = others[j - Len(kept)]
  BY <1>2, MergedIs
<1>4. \A n \in DOMAIN others : others[n].id \notin dropped
  BY <1>2, ForeignIs
<1> HIDE DEF others
<1>5. \A n \in DOMAIN kept : Freshest(kept[n], disk).id = kept[n].id
  <2> TAKE n \in DOMAIN kept
  <2>1. kept[n] \in Row
    BY <1>2, SeqIs
  <2> QED
    BY <2>1, FreshestIs
<1>6. new.rows \in Seq(Row)
  BY <1>1, <1>3
<1>7. Ids(new.rows) \cap dropped \subseteq Ids(accounts)
  <2>1. ASSUME NEW j \in DOMAIN new.rows, new.rows[j].id \in dropped
        PROVE  new.rows[j].id \in Ids(accounts)
    <3>1. new.rows = Merged(kept, dropped, disk)
      BY <1>1, <2>1
    <3>2. j \in DOMAIN kept
      BY <1>3, <1>4, <2>1, <3>1
    <3>3. new.rows[j].id = kept[j].id
      BY <1>3, <1>5, <3>1, <3>2
    <3>4. PICK i \in DOMAIN accounts : kept[j] = accounts[i]
      BY <1>2, <3>2
    <3> QED
      BY <3>3, <3>4 DEF Ids
  <2> QED
    BY <2>1 DEF Ids
<1>8. IdAt(accounts, current) \cap Ids(new.rows) \subseteq IdAt(new.rows, new.active)
  <2> SUFFICES ASSUME NEW id \in IdAt(accounts, current), id \in Ids(new.rows)
               PROVE  id \in IdAt(new.rows, new.active)
    OBVIOUS
  <2>1. /\ \A other \in IdAt(accounts, current) : id = other
        /\ IdAt(accounts, current) \subseteq Ids(new.rows)
    BY IdAtIs
  <2> QED
    BY <1>1, <1>6, <2>1, LocateIs
<1>9. \/ new.rows = <<>>
      \/ \E T : /\ T \subseteq DOMAIN accounts
                /\ new.rows = Merged(ElementsAt(accounts, T), dropped, disk)
  BY <1>1 DEF kept
<1> QED
  BY <1>6, <1>7, <1>8, <1>9 DEF new

\* A sync leaves an enabled account as current, if there is one.
LEMMA SyncFindsActive ==
    ASSUME NEW rows \in Seq(Row), NEW disk, disk.rows \in Seq(Row), Distinct(rows),
           Distinct(disk.rows), NEW T, Agree(T), RowSet(rows) \subseteq T,
           RowSet(disk.rows) \subseteq T, NEW current,
           Enabled(Reconciled(rows, disk)) # {}
    PROVE  ReconciledCurrent(Reconciled(rows, disk), current, disk)
               \in Enabled(Reconciled(rows, disk))
<1> DEFINE new == Reconciled(rows, disk)
           D == disk.rows
           active == Clamp(D, disk.active)
           index(i) == LastOf({j \in DOMAIN new : new[j].id = new[i].id})
           target == index(Find(new, D[active]))
           usable == active \in Enabled(D)
<1>1. /\ new \in Seq(Row) /\ Distinct(new)
      /\ \A m \in DOMAIN D : m \in DOMAIN new /\ new[m] = D[m]
  BY ReconciledInOrder
<1>2. RowsOf(new, RowSet(rows) \cup RowSet(D))
  BY ReconciledRows
<1>3. Enabled(new) # {} /\ DOMAIN new \subseteq Nat
  BY <1>1, SeqIs
<1>4. ReconciledCurrent(new, current, disk) =
          CASE Enabled(new) = {}                      -> 0
            [] usable /\ new[target].enabled          -> target
            [] usable /\ ~new[target].enabled         -> current
            [] ~usable /\ current \in Enabled(new)    -> current
            [] OTHER                                  -> index(FirstOf(Enabled(new)))
  BY DEF ReconciledCurrent
<1> HIDE DEF new
<1>5. ASSUME NEW i \in DOMAIN new PROVE index(i) = i
  <2> DEFINE S == {j \in DOMAIN new : new[j].id = new[i].id}
  <2>1. S = {i}
    BY <1>1 DEF Distinct
  <2>2. i <= i
    BY <1>3
  <2>3. LastOf({i}) = i
    BY <2>2 DEF LastOf
  <2> QED
    BY <2>1, <2>3
<1>6. CASE usable
  <2>1. active \in DOMAIN D /\ D[active].enabled
    BY <1>6 DEF Enabled
  <2> HIDE DEF active
  <2>2. active \in DOMAIN new /\ new[active] = D[active]
    BY <1>1, <2>1
  <2>3. Find(new, D[active]) = active
    <3>1. \E i \in DOMAIN new : new[i].id = D[active].id
      BY <2>2
    <3>2. LET k == Find(new, D[active])
          IN  k \in DOMAIN new /\ new[k].id = D[active].id
      BY <1>1, <3>1, FindIs
    <3> QED
      BY <1>1, <2>2, <3>2 DEF Distinct
  <2>4. target = active
    BY <1>5, <2>2, <2>3
  <2>5. new[target].enabled /\ active \in Enabled(new)
    BY <2>1, <2>2, <2>4 DEF Enabled
  <2> HIDE DEF target, usable, index
  <2>6. ReconciledCurrent(new, current, disk) = active
    BY <1>3, <1>4, <1>6, <2>4, <2>5
  <2> QED
    BY <2>5, <2>6 DEF new
<1>7. CASE ~usable /\ current \in Enabled(new)
  <2> HIDE DEF target, usable, index
  <2>1. ReconciledCurrent(new, current, disk) = current
    BY <1>3, <1>4, <1>7
  <2> QED
    BY <1>7, <2>1 DEF new
<1>8. CASE ~usable /\ current \notin Enabled(new)
  <2> DEFINE first == FirstOf(Enabled(new))
  <2>1. Enabled(new) \subseteq DOMAIN new /\ Enabled(new) \subseteq Nat
    BY <1>3 DEF Enabled
  <2>2. first \in Enabled(new)
    BY <1>3, <2>1, FirstOfIs
  <2>3. index(first) = first
    BY <1>5, <2>1, <2>2
  <2> HIDE DEF target, usable, index, first
  <2>4. ReconciledCurrent(new, current, disk) = index(first)
    BY <1>3, <1>4, <1>8 DEF first
  <2> QED
    BY <2>2, <2>3, <2>4 DEF new
<1> QED
  BY <1>6, <1>7, <1>8

\* Only rows that were there are left, at places of their own.
LEMMA RemoveAtIs ==
    ASSUME NEW rows \in Seq(Row), NEW i \in DOMAIN rows
    PROVE  LET new == RemoveAt(rows, i)
               was(j) == IF j < i THEN j ELSE j + 1
           IN  /\ new \in Seq(Row)
               /\ \A j \in DOMAIN new : was(j) \in DOMAIN rows /\ new[j] = rows[was(j)]
               /\ DOMAIN new \subseteq Nat
<1> DEFINE N == Len(rows)
           left == SubSeq(rows, 1, i - 1)
           right == SubSeq(rows, i + 1, Len(rows))
           new == RemoveAt(rows, i)
<1>1. N \in Nat /\ DOMAIN rows = 1 .. N /\ i \in 1 .. N
  BY SeqIs
<1>2. /\ left \in Seq(Row) /\ Len(left) = i - 1
      /\ \A j \in 1 .. (i - 1) : left[j] = rows[j]
  BY <1>1
<1>3. /\ right \in Seq(Row) /\ Len(right) = N - i
      /\ \A j \in 1 .. (N - i) : right[j] = rows[i + j]
  BY <1>1
<1>4. new = left \o right
  BY DEF RemoveAt
<1> HIDE DEF left, right, new
<1>5. /\ new \in Seq(Row) /\ Len(new) = N - 1
      /\ DOMAIN new = 1 .. (N - 1)
      /\ DOMAIN left = 1 .. (i - 1)
      /\ DOMAIN right = 1 .. (N - i)
      /\ \A j \in DOMAIN left : new[j] = left[j]
      /\ \A j \in DOMAIN new : j \notin DOMAIN left =>
             j - (i - 1) \in DOMAIN right /\ new[j] = right[j - (i - 1)]
  <2>1. /\ new \in Seq(Row) /\ Len(new) = Len(left) + Len(right)
        /\ DOMAIN new = 1 .. (Len(left) + Len(right))
        /\ DOMAIN left = 1 .. Len(left) /\ DOMAIN right = 1 .. Len(right)
        /\ \A j \in DOMAIN left : new[j] = left[j]
        /\ \A j \in DOMAIN new : j \notin DOMAIN left =>
             j - Len(left) \in DOMAIN right /\ new[j] = right[j - Len(left)]
    BY <1>2, <1>3, <1>4, Concat
  <2>2. Len(left) + Len(right) = N - 1
    BY <1>1, <1>2, <1>3
  <2> QED
    BY <1>2, <1>3, <2>1, <2>2
<1>6. ASSUME NEW j \in DOMAIN new
      PROVE  LET was == IF j < i THEN j ELSE j + 1
             IN  was \in DOMAIN rows /\ new[j] = rows[was]
  <2>1. j \in 1 .. (N - 1)
    BY <1>5
  <2>2. CASE j < i
    BY <1>1, <1>2, <1>5, <2>1, <2>2
  <2>3. CASE ~(j < i)
    <3>1. j \notin DOMAIN left /\ j - (i - 1) \in 1 .. (N - i)
      BY <1>1, <1>5, <2>1, <2>3
    <3>2. i + (j - (i - 1)) = j + 1 /\ j + 1 \in DOMAIN rows
      BY <1>1, <2>1
    <3> QED
      BY <1>3, <1>5, <2>3, <3>1, <3>2
  <2> QED
    BY <2>2, <2>3
<1>7. DOMAIN new \subseteq Nat
  BY <1>5
<1> QED
  BY <1>5, <1>6, <1>7 DEF new
==============================================================================
