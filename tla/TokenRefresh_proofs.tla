-------------------------- MODULE TokenRefresh_proofs --------------------------
(***************************************************************************)
(* Theorems about TokenRefresh, for every set of processes and every bound *)
(* on rotations, saves, 401 answers and faults.                            *)
(***************************************************************************)
EXTENDS TokenRefresh, TLAPS

USE DEF Gen

(***************************************************************************)
(* The type invariant.  A request that has been answered has been given a  *)
(* token: without that, TakeAnswer could store the number 0 as one.        *)
(***************************************************************************)
AnswerHasToken ==
    \A p \in Proc : flow[p].pc = "answered" => flow[p].got \in Gen

Typed == TypeOK /\ AnswerHasToken

LEMMA InitTyped == Init => Typed
<1> SUFFICES ASSUME Init PROVE Typed
  OBVIOUS
<1>1. First \in Account /\ NoSave \in Save /\ NoFlow \in Flow
  BY BoundsOK DEF First, Account, NoSave, Save, NoFlow, Flow, PC
<1>2. TypeOK
  BY <1>1, BoundsOK DEF Init, LeaseInit, TypeOK
<1> QED
  BY <1>2 DEF Init, Typed, AnswerHasToken, NoFlow

LEMMA MergeTypes ==
    ASSUME disk \in Account, NEW a \in Account, NEW e
    PROVE  Freshest(a) \in Account /\ Adopted(a, e) \in Account
<1>1. [disk EXCEPT !.enabled = a.enabled] \in Account
  BY DEF Account
<1>2. \A u \in {disk.upd, a.upd} :
          [disk EXCEPT !.upd = u, !.enabled = a.enabled] \in Account
  BY DEF Account
<1> QED
  BY <1>1, <1>2 DEF Freshest, Adopted

\* What Set, Blame and a move of the flow keep in their types.
LEMMA SetType ==
    ASSUME mem \in [Proc -> Account], NEW p \in Proc, NEW a \in Account,
           Set(p, a)
    PROVE  mem' \in [Proc -> Account]
BY DEF Set

LEMMA BlameType ==
    ASSUME blame \in Causes \cup {NoCause}, NEW cause \in Causes, NEW b,
           Blame(cause, b)
    PROVE  blame' \in Causes \cup {NoCause}
BY DEF Blame

FlowTyped(f) == f \in Flow /\ (f.pc = "answered" => f.got \in Gen)

LEMMA FlowMoves ==
    ASSUME Typed, NEW p \in Proc, NEW f,
           FlowTyped(f), flow' = [flow EXCEPT ![p] = f]
    PROVE  flow' \in [Proc -> Flow] /\ AnswerHasToken'
BY DEF Typed, TypeOK, AnswerHasToken, FlowTyped

LEMMA FlowEnters ==
    ASSUME Typed, NEW p \in Proc, NEW label \in PC \ {"answered"},
           Enter(p, label)
    PROVE  flow' \in [Proc -> Flow] /\ AnswerHasToken'
<1>1. FlowTyped([flow[p] EXCEPT !.pc = label])
  BY ZenonT(40) DEF Typed, TypeOK, FlowTyped, Flow
<1>2. flow' = [flow EXCEPT ![p] = [flow[p] EXCEPT !.pc = label]]
  BY DEF Enter
<1> QED
  BY <1>1, <1>2, FlowMoves

LEMMA NoFlowTyped == FlowTyped(NoFlow)
BY DEF FlowTyped, NoFlow, Flow, PC

\* A refresh that is about to take the lock, the first time or again.
LEMMA LockingTyped ==
    ASSUME NEW source \in {"foreground", "idle"}, NEW tries \in 1..2,
           NEW attempted \in Gen \cup {0}
    PROVE  FlowTyped(Attempt(source, tries, attempted))
BY DEF Attempt, FlowTyped, Flow, PC

\* One save of one process moves on.
LEMMA SaveMoves ==
    ASSUME save \in [Proc -> [SaveKind -> Save]], NEW p \in Proc,
           NEW k \in SaveKind, NEW s \in Save,
           save' = [save EXCEPT ![p][k] = s]
    PROVE  save' \in [Proc -> [SaveKind -> Save]]
OBVIOUS

LEMMA StageTypes ==
    ASSUME NEW s \in Save
    PROVE  Requested(s) \in Save /\ [s EXCEPT !.stage = "load"] \in Save
<1>1. [s EXCEPT !.stage = "load"] \in Save
  BY DEF Save
<1> QED
  BY <1>1 DEF Requested

LEMMA StartTypes ==
    ASSUME Typed, NEW p \in Proc, NEW source \in {"foreground", "idle"},
           StartRefresh(p, source)
    PROVE  Typed'
<1> USE DEF Typed, TypeOK
<1> DEFINE f == Attempt(source, 1, mem[p].rt)
<1>1. mem[p].rt \in Gen
  BY DEF Account
<1>2. FlowTyped(f)
  BY <1>1, LockingTyped
<1>3. flow' \in [Proc -> Flow] /\ AnswerHasToken'
  BY <1>2, FlowMoves DEF StartRefresh
<1> QED
  BY <1>3 DEF StartRefresh, storeVars

LEMMA RefreshTypes ==
    ASSUME Typed, NEW p \in Proc, RefreshStep(p)
    PROVE  Typed'
<1> USE DEF Typed, TypeOK
<1>1. CASE TakeLock(p)
  <2>1. flow' \in [Proc -> Flow] /\ AnswerHasToken'
    BY <1>1, FlowEnters DEF TakeLock, PC
  <2>2. holders' \subseteq Proc /\ lapsed' \subseteq holders'
    BY <1>1 DEF TakeLock, Acquire
  <2> QED
    BY <1>1, <2>1, <2>2 DEF TakeLock, storeVars
<1>2. CASE LockBusy(p)
  <2>1. mem' \in [Proc -> Account]
    BY <1>2, MergeTypes, SetType DEF LockBusy
  <2>2. flow' \in [Proc -> Flow] /\ AnswerHasToken'
    BY <1>2, NoFlowTyped, FlowMoves DEF LockBusy
  <2> QED
    BY <1>2, <2>1, <2>2 DEF LockBusy
<1>3. CASE ReadDisk(p)
  <2> DEFINE a == Adopted(mem[p], FALSE)
  <2>1. a \in Account
    BY MergeTypes
  <2>2. mem' \in [Proc -> Account]
    BY <1>3, <2>1, SetType DEF ReadDisk
  <2>3. \/ Enter(p, "releasing")
        \/ flow' = [flow EXCEPT ![p].pc = "calling", ![p].sent = a.rt]
    BY <1>3 DEF ReadDisk
  <2>4. FlowTyped([flow[p] EXCEPT !.pc = "calling", !.sent = a.rt])
    <3>1. a.rt \in Gen
      BY <2>1 DEF Account
    <3> HIDE DEF a
    <3> QED
      BY ZenonT(40), <3>1 DEF FlowTyped, Flow, PC
  <2>5. flow' \in [Proc -> Flow] /\ AnswerHasToken'
    <3>1. CASE Enter(p, "releasing")
      BY <3>1, FlowEnters DEF PC
    <3>2. CASE flow' = [flow EXCEPT ![p] =
                  [flow[p] EXCEPT !.pc = "calling", !.sent = a.rt]]
      BY <2>4, <3>2, FlowMoves
    <3> QED
      BY <2>3, <3>1, <3>2
  <2> QED
    BY <1>3, <2>2, <2>5 DEF ReadDisk
<1>4. CASE ServerRotates(p)
  <2> DEFINE f == [flow[p] EXCEPT !.pc = "answered", !.sent = 0,
                                  !.got = issued + 1]
  <2>1. issued' \in Gen /\ issued + 1 \in Gen
    BY <1>4, BoundsOK DEF ServerRotates
  <2>2. FlowTyped(f)
    BY ZenonT(40), <2>1 DEF FlowTyped, Flow, PC
  <2>3. flow' = [flow EXCEPT ![p] = f]
    BY <1>4 DEF ServerRotates
  <2>4. flow' \in [Proc -> Flow] /\ AnswerHasToken'
    BY <2>2, <2>3, FlowMoves
  <2> QED
    BY <1>4, <2>1, <2>4 DEF ServerRotates, storeVars
<1>5. CASE ServerRefuses(p) \/ RequestFails(p) \/ AnswerLost(p)
  <2>1. \A kind \in {"transient", "terminal"} : FlowTyped(Failed(flow[p], kind))
    BY ZenonT(40) DEF Failed, Flow, PC, FlowTyped
  <2>2. PICK kind \in {"transient", "terminal"} :
            flow' = [flow EXCEPT ![p] = Failed(flow[p], kind)]
    BY <1>5 DEF ServerRefuses, RequestFails, AnswerLost
  <2>3. flow' \in [Proc -> Flow] /\ AnswerHasToken'
    BY <2>1, <2>2, FlowMoves
  <2>4. blame' \in Causes \cup {NoCause}
    BY <1>5, BlameType DEF ServerRefuses, RequestFails, AnswerLost, Causes
  <2> QED
    BY <1>5, <2>3, <2>4 DEF ServerRefuses, RequestFails, AnswerLost, storeVars
<1>6. CASE TakeAnswer(p)
  <2>1. flow[p].got \in Gen /\ now' \in Nat
    BY <1>6 DEF TakeAnswer, AnswerHasToken
  <2>2. [mem[p] EXCEPT !.rt = flow[p].got, !.access = flow[p].got,
                       !.upd = now'] \in Account
    BY <2>1 DEF Account
  <2>3. mem' \in [Proc -> Account]
    BY <1>6, <2>2, SetType DEF TakeAnswer
  <2>4. FlowTyped([flow[p] EXCEPT !.pc = "persist", !.got = 0])
    BY ZenonT(40) DEF FlowTyped, Flow, PC
  <2>5. flow' \in [Proc -> Flow] /\ AnswerHasToken'
    <3>1. flow' = [flow EXCEPT ![p] = [flow[p] EXCEPT !.pc = "persist", !.got = 0]]
      BY <1>6 DEF TakeAnswer
    <3> QED
      BY <2>4, <3>1, FlowMoves
  <2>6. save' \in [Proc -> [SaveKind -> Save]]
    <3>1. save[p]["refresh"] \in Save /\ "refresh" \in SaveKind
      BY DEF SaveKind
    <3>2. save' = [save EXCEPT ![p]["refresh"] =
                      [save[p]["refresh"] EXCEPT !.stage = "load"]]
      BY <1>6 DEF TakeAnswer
    <3> QED
      BY <3>1, <3>2, StageTypes, SaveMoves
  <2> QED
    BY <1>6, <2>1, <2>3, <2>5, <2>6 DEF TakeAnswer
<1>7. CASE ReleaseLock(p)
  <2>1. flow' \in [Proc -> Flow] /\ AnswerHasToken'
    <3>1. FlowTyped([flow[p] EXCEPT !.pc = "retry", !.failure = "none"])
      BY ZenonT(40) DEF FlowTyped, Flow, PC
    <3>2. \/ flow' = [flow EXCEPT ![p] =
                 [flow[p] EXCEPT !.pc = "retry", !.failure = "none"]]
          \/ flow' = [flow EXCEPT ![p] = NoFlow]
      BY <1>7 DEF ReleaseLock
    <3> QED
      BY <3>1, <3>2, FlowMoves, NoFlowTyped
  <2>2. mem' \in [Proc -> Account]
    <3>1. [mem[p] EXCEPT !.enabled = FALSE] \in Account
      BY DEF Account
    <3> QED
      BY <1>7, <3>1, SetType DEF ReleaseLock
  <2>3. save' \in [Proc -> [SaveKind -> Save]]
    <3>1. save[p]["background"] \in Save /\ "background" \in SaveKind
      BY DEF SaveKind
    <3>2. \/ save' = save
          \/ save' = [save EXCEPT ![p]["background"] =
                          Requested(save[p]["background"])]
      BY <1>7 DEF ReleaseLock
    <3> QED
      BY <3>1, <3>2, StageTypes, SaveMoves
  <2>4. holders' \subseteq Proc /\ lapsed' \subseteq holders'
    BY <1>7 DEF ReleaseLock, Release
  <2> QED
    BY <1>7, <2>1, <2>2, <2>3, <2>4 DEF ReleaseLock
<1>8. CASE Retry(p)
  <2>1. mem' \in [Proc -> Account]
    <3>1. [mem[p] EXCEPT !.rt = disk.rt, !.upd = disk.upd] \in Account
      BY DEF Account
    <3>2. \E a \in Account : Set(p, a)
      BY <1>8, <3>1 DEF Retry
    <3> QED
      BY <3>2, SetType
  <2> DEFINE f == Attempt(flow[p].source, 2, flow[p].attempted)
  <2>2. FlowTyped(f)
    BY LockingTyped DEF Flow
  <2>3. flow' = [flow EXCEPT ![p] = f]
    BY <1>8 DEF Retry
  <2>4. flow' \in [Proc -> Flow] /\ AnswerHasToken'
    BY <2>2, <2>3, FlowMoves
  <2> QED
    BY <1>8, <2>1, <2>4 DEF Retry
<1> QED
  BY <1>1, <1>2, <1>3, <1>4, <1>5, <1>6, <1>7, <1>8 DEF RefreshStep

LEMMA SaveStepTypes ==
    ASSUME Typed, NEW p \in Proc, NEW k \in SaveKind, SaveStep(p, k)
    PROVE  Typed'
<1> USE DEF Typed, TypeOK
<1>0. /\ mem[p] \in Account /\ save[p][k] \in Save /\ save[p][k].row \in Account
      /\ save[p]["background"] \in Save
      /\ NoSave \in Save
      /\ disk.upd \in Nat
  BY BoundsOK DEF Save, SaveKind, NoSave, First, Account
<1>1. CASE SavePrepare(p, k)
  <2>1. Freshest(mem[p]) \in Account
    BY <1>0, MergeTypes
  <2>2. mem' \in [Proc -> Account]
    BY <1>1, <2>1, SetType DEF SavePrepare
  <2>3. [stage |-> "merge", row |-> Freshest(mem[p]), read |-> 0] \in Save
    BY <2>1 DEF Save
  <2>4. save' \in [Proc -> [SaveKind -> Save]]
    BY <1>1, <2>3, SaveMoves DEF SavePrepare
  <2> QED
    BY <1>1, <2>2, <2>4 DEF SavePrepare, AnswerHasToken
<1>2. CASE SaveMerge(p, k)
  <2>1. Freshest(save[p][k].row) \in Account
    BY <1>0, MergeTypes
  <2>2. [stage |-> "write", row |-> Freshest(save[p][k].row),
         read |-> disk.upd] \in Save
    BY <1>0, <2>1 DEF Save
  <2>3. save' \in [Proc -> [SaveKind -> Save]]
    BY <1>2, <2>2, SaveMoves DEF SaveMerge
  <2> QED
    BY <1>2, <2>3 DEF SaveMerge, AnswerHasToken
<1>3. CASE SaveWrite(p, k)
  <2>1. save' \in [Proc -> [SaveKind -> Save]]
    BY <1>0, <1>3, SaveMoves DEF SaveWrite, SaveEnds
  <2>2. flow' \in [Proc -> Flow] /\ AnswerHasToken'
    BY <1>3, FlowEnters DEF SaveWrite, SaveEnds, PC, AnswerHasToken
  <2>3. blame' \in Causes \cup {NoCause}
    BY <1>3, BlameType DEF SaveWrite, Causes
  <2> QED
    BY <1>0, <1>3, <2>1, <2>2, <2>3 DEF SaveWrite
<1>4. CASE SaveFails(p, k)
  <2>1. save' \in [Proc -> [SaveKind -> Save]]
    <3> DEFINE s == IF k = "refresh" THEN Requested(save[p]["background"])
                                     ELSE NoSave
               once == [save EXCEPT ![p][k] = NoSave]
    <3>1. s \in Save
      BY <1>0, StageTypes
    <3>2. once \in [Proc -> [SaveKind -> Save]] /\ "background" \in SaveKind
      BY <1>0 DEF SaveKind
    <3>3. once[p]["background"] =
             IF k = "refresh" THEN save[p]["background"] ELSE NoSave
      BY <1>0 DEF SaveKind
    <3>4. save' = [once EXCEPT ![p]["background"] = s]
      BY <1>4, <3>3 DEF SaveFails
    <3> HIDE DEF once, s
    <3> QED
      BY <3>1, <3>2, <3>4
  <2>2. flow' \in [Proc -> Flow] /\ AnswerHasToken'
    BY <1>4, FlowEnters DEF SaveFails, PC, AnswerHasToken
  <2>3. blame' \in Causes \cup {NoCause}
    BY <1>4, BlameType DEF SaveFails, Causes
  <2> QED
    BY <1>4, <2>1, <2>2, <2>3 DEF SaveFails
<1> QED
  BY <1>1, <1>2, <1>3, <1>4 DEF SaveStep

LEMMA OtherTypes ==
    ASSUME Typed, NEW p \in Proc,
           \/ StartSave(p) \/ SyncFromDisk(p) \/ AuthFailed(p)
           \/ LeaseLapses(p) \/ Crash(p) \/ TokenAges
    PROVE  Typed'
<1> USE DEF Typed, TypeOK
<1>0. mem[p] \in Account
  OBVIOUS
<1>1. CASE StartSave(p)
  <2>1. save[p]["background"] \in Save /\ "background" \in SaveKind
    BY DEF SaveKind
  <2>2. save' = [save EXCEPT ![p]["background"] =
                    [save[p]["background"] EXCEPT !.stage = "load"]]
    BY <1>1 DEF StartSave
  <2>3. save' \in [Proc -> [SaveKind -> Save]]
    BY <2>1, <2>2, StageTypes, SaveMoves
  <2> QED
    BY <1>1, <2>3 DEF StartSave, AnswerHasToken
<1>2. CASE SyncFromDisk(p)
  <2>1. \A x \in Gen \cup {0} : [disk EXCEPT !.access = x] \in Account
    BY DEF Account
  <2>2. mem' \in [Proc -> Account]
    <3>1. mem[p].access \in Gen \cup {0} /\ disk.access \in Gen \cup {0}
      BY DEF Account
    <3>2. \E a \in Account : Set(p, a)
      BY <1>2, <2>1, <3>1 DEF SyncFromDisk
    <3> QED
      BY <3>2, SetType
  <2>3. blame' \in Causes \cup {NoCause}
    BY <1>2, BlameType DEF SyncFromDisk, Causes
  <2> QED
    BY <1>2, <2>2, <2>3 DEF SyncFromDisk, AnswerHasToken
<1>3. CASE AuthFailed(p)
  <2>1. now' \in Nat
    BY <1>3 DEF AuthFailed
  <2>2. [mem[p] EXCEPT !.access = 0, !.upd = now'] \in Account
    BY <1>0, <2>1 DEF Account
  <2>3. mem' \in [Proc -> Account]
    BY <1>3, <2>2, SetType DEF AuthFailed
  <2>4. blame' \in Causes \cup {NoCause}
    BY <1>3, BlameType DEF AuthFailed, Causes
  <2> QED
    BY <1>3, <2>1, <2>3, <2>4 DEF AuthFailed, AnswerHasToken
<1>4. CASE LeaseLapses(p)
  <2>1. blame' \in Causes \cup {NoCause}
    BY <1>4, BlameType DEF LeaseLapses, Causes
  <2> QED
    BY <1>4, <2>1 DEF LeaseLapses, Lapse, AnswerHasToken, refreshVars, storeVars
<1>5. CASE Crash(p)
  <2>1. blame' \in Causes \cup {NoCause}
    BY <1>5, BlameType DEF Crash, Causes
  <2>2. flow' \in [Proc -> Flow] /\ AnswerHasToken'
    BY <1>5, NoFlowTyped, FlowMoves DEF Crash
  <2>3. save' \in [Proc -> [SaveKind -> Save]]
    <3>1. [k \in SaveKind |-> NoSave] \in [SaveKind -> Save]
      BY BoundsOK DEF Save, NoSave, First, Account
    <3> QED
      BY <1>5, <3>1 DEF Crash
  <2>4. mem' \in [Proc -> Account]
    BY <1>5, SetType DEF Crash
  <2>5. holders' \subseteq Proc /\ lapsed' \subseteq holders'
    BY <1>5 DEF Crash, Release
  <2> QED
    BY <1>5, <2>1, <2>2, <2>3, <2>4, <2>5 DEF Crash
<1>6. CASE TokenAges
  BY <1>6, BoundsOK DEF TokenAges, AnswerHasToken, storeVars
<1> QED
  BY <1>1, <1>2, <1>3, <1>4, <1>5, <1>6

LEMMA TypedStep == Typed /\ [Next]_vars => Typed'
<1> SUFFICES ASSUME Typed, [Next]_vars PROVE Typed'
  OBVIOUS
<1>1. CASE TokenAges
  BY <1>1, BoundsOK DEF TokenAges, Typed, TypeOK, AnswerHasToken, storeVars
<1>2. CASE UNCHANGED vars
  BY <1>2 DEF vars, Typed, TypeOK, AnswerHasToken
<1> QED
  BY <1>1, <1>2, StartTypes, RefreshTypes, SaveStepTypes, OtherTypes DEF Next

\* Every reachable state is well typed, for all processes and bounds.
THEOREM TypeCorrect == Spec => []TypeOK
<1>1. Typed => TypeOK
  BY DEF Typed
<1> QED
  BY <1>1, InitTyped, TypedStep, PTL DEF Spec

------------------------------------------------------------------------------
(***************************************************************************)
(* The inductive invariant of a system to which no cause has happened.     *)
(*                                                                         *)
(* Locked: the one process between the acquisition and the release of the  *)
(* lock is the one that may hold tokens nobody else has.                   *)
(* Ordered: of two copies of the account the one with the newer stamp has  *)
(* the newer refresh token, so the merges, which go by stamps, never       *)
(* choose an older token; and no copy is disabled.                         *)
(* WritesMerged: a row about to be written is no older than the file was   *)
(* when it was last read.                                                  *)
(* Current: the server's token is in the file, or with the lock holder.    *)
(***************************************************************************)
Critical == {"readDisk", "calling", "answered", "persist", "releasing"}

Locked ==
    /\ lapsed = {}
    /\ \A p \in Proc : p \in holders <=> flow[p].pc \in Critical
    /\ \A p, q \in holders : p = q
    /\ \A p \in Proc : flow[p].failure # "terminal" /\ flow[p].pc # "retry"
    /\ \A p \in Proc :
          save[p]["refresh"].stage # "none" <=> flow[p].pc = "persist"

Copies == {First, disk} \cup {mem[p] : p \in Proc}
                        \cup {save[p][k].row : p \in Proc, k \in SaveKind}

Ordered ==
    /\ \A a \in Copies : a.enabled /\ a.rt <= issued /\ a.upd <= now
    /\ \A a, b \in Copies : a.upd >= b.upd => a.rt >= b.rt

WritesMerged ==
    \A p \in Proc, k \in SaveKind :
        save[p][k].stage = "write" => save[p][k].row.upd >= save[p][k].read

Current ==
    /\ \A p \in Proc :
          /\ flow[p].pc = "calling" => flow[p].sent = issued
          /\ flow[p].pc = "answered" => flow[p].got = issued
          /\ flow[p].pc = "persist" =>
                /\ mem[p].rt = issued
                /\ save[p]["refresh"].stage # "load" =>
                      save[p]["refresh"].row.rt = issued
          /\ mem[p].rt > disk.rt => flow[p].pc = "persist"
    /\ \/ disk.rt = issued
       \/ \E p \in Proc : flow[p].pc \in {"answered", "persist"}

Safe == Locked /\ Ordered /\ WritesMerged /\ Current
Inv == Typed /\ (blame = NoCause => Safe)

LEMMA CauseTypes == NoCause \notin Causes
BY DEF NoCause, Causes

\* A step after which there has been no cause is not one of the causes.
LEMMA Blameless ==
    ASSUME NEW cause \in Causes, NEW b, Blame(cause, b), blame' = NoCause
    PROVE  blame = NoCause /\ ~b
BY CauseTypes DEF Blame

\* What a step that nothing is blamed for does not do.
NothingToBlame ==
    /\ blame = NoCause
    /\ \A p \in Proc :
          /\ ~AnswerLost(p) /\ ~LeaseLapses(p) /\ ~SaveFails(p, "refresh")
          /\ AuthFailed(p) => mem[p].rt = issued
          /\ SyncFromDisk(p) \/ Crash(p) => ~HasUnsavedTokens(p)
          /\ \A k \in SaveKind : SaveWrite(p, k) => disk.upd = save[p][k].read

LEMMA NoCauseStep ==
    ASSUME [Next]_vars, blame' = NoCause
    PROVE  blame = NoCause
<1>1. ASSUME NEW p \in Proc, NEW cause \in Causes, NEW b, Blame(cause, b)
      PROVE  blame = NoCause
  BY <1>1, Blameless
<1>2. ASSUME NEW p \in Proc, RefreshStep(p) PROVE blame = NoCause
  BY <1>1, <1>2 DEF RefreshStep, TakeLock, LockBusy, ReadDisk, ServerRotates,
     ServerRefuses, RequestFails, AnswerLost, TakeAnswer, ReleaseLock, Retry,
     Causes
<1>3. ASSUME NEW p \in Proc, NEW k \in SaveKind, SaveStep(p, k)
      PROVE  blame = NoCause
  BY <1>1, <1>3 DEF SaveStep, SavePrepare, SaveMerge, SaveWrite, SaveFails,
     Causes
<1>4. ASSUME NEW p \in Proc,
             \/ \E source \in {"foreground", "idle"} : StartRefresh(p, source)
             \/ StartSave(p) \/ SyncFromDisk(p) \/ AuthFailed(p)
             \/ LeaseLapses(p) \/ Crash(p)
      PROVE  blame = NoCause
  BY <1>1, <1>4 DEF StartRefresh, StartSave, SyncFromDisk, AuthFailed,
     LeaseLapses, Crash, Causes
<1> QED
  BY <1>2, <1>3, <1>4 DEF Next, vars, TokenAges

LEMMA NotBlamed ==
    ASSUME [Next]_vars, blame' = NoCause
    PROVE  NothingToBlame
<1> SUFFICES ASSUME NEW p \in Proc
             PROVE  /\ ~AnswerLost(p) /\ ~LeaseLapses(p) /\ ~SaveFails(p, "refresh")
                    /\ AuthFailed(p) => mem[p].rt = issued
                    /\ SyncFromDisk(p) \/ Crash(p) => ~HasUnsavedTokens(p)
                    /\ \A k \in SaveKind :
                          SaveWrite(p, k) => disk.upd = save[p][k].read
  BY NoCauseStep DEF NothingToBlame
<1>1. ~AnswerLost(p) /\ ~LeaseLapses(p) /\ ~SaveFails(p, "refresh")
  BY Blameless DEF AnswerLost, LeaseLapses, SaveFails, Causes
<1>2. AuthFailed(p) => mem[p].rt = issued
  BY Blameless DEF AuthFailed, Causes
<1>3. SyncFromDisk(p) => ~HasUnsavedTokens(p)
  BY Blameless DEF SyncFromDisk, Causes
<1>4. Crash(p) => ~HasUnsavedTokens(p)
  BY Blameless DEF Crash, Causes
<1>5. \A k \in SaveKind : SaveWrite(p, k) => disk.upd = save[p][k].read
  BY Blameless DEF SaveWrite, Causes
<1> QED
  BY <1>1, <1>2, <1>3, <1>4, <1>5

(***************************************************************************)
(* One step without a cause keeps each part of the invariant.              *)
(***************************************************************************)
LEMMA LockedStays ==
    ASSUME Locked, UNCHANGED <<holders, lapsed>>, NEW p \in Proc,
           flow[p].pc \in Critical <=> flow'[p].pc \in Critical,
           flow'[p].failure # "terminal", flow'[p].pc # "retry",
           \A q \in Proc \ {p} :
              /\ flow'[q] = flow[q]
              /\ save[q]["refresh"].stage # "none" <=>
                    save'[q]["refresh"].stage # "none",
           save'[p]["refresh"].stage # "none" <=> flow'[p].pc = "persist"
    PROVE  Locked'
BY DEF Locked

LEMMA LockedStep ==
    ASSUME Typed, Safe, Next, NothingToBlame
    PROVE  Locked'
<1> USE DEF Typed, TypeOK, Safe, Locked, Critical
<1>1. ASSUME NEW p \in Proc, NEW source \in {"foreground", "idle"},
             StartRefresh(p, source)
      PROVE  Locked'
  BY <1>1 DEF StartRefresh, Attempt, storeVars
<1>2. ASSUME NEW p \in Proc, RefreshStep(p) PROVE Locked'
  <2>1. CASE TakeLock(p)
    BY <2>1 DEF TakeLock, Acquire, Enter, storeVars
  <2>2. CASE LockBusy(p)
    BY <2>2 DEF LockBusy, NoFlow
  <2>3. CASE ReadDisk(p)
    <3>1. /\ flow[p].pc = "readDisk"
          /\ flow'[p].failure = flow[p].failure
          /\ flow'[p].pc \in {"releasing", "calling"}
          /\ \A q \in Proc \ {p} : flow'[q] = flow[q]
      <4>1. CASE Enter(p, "releasing")
        BY <2>3, <4>1 DEF ReadDisk, Enter, Flow
      <4>2. CASE \E t : flow' = [flow EXCEPT ![p].pc = "calling", ![p].sent = t]
        BY <2>3, <4>2 DEF ReadDisk, Flow
      <4> QED
        BY <2>3, <4>1, <4>2 DEF ReadDisk
    <3>2. UNCHANGED <<holders, lapsed, save>>
      BY <2>3 DEF ReadDisk
    <3> QED
      BY ZenonT(40), <3>1, <3>2, LockedStays
  <2>4. CASE ServerRotates(p)
    BY <2>4 DEF ServerRotates, storeVars, Flow
  <2>5. CASE ServerRefuses(p)
    BY <2>5 DEF ServerRefuses, Current
  <2>6. CASE RequestFails(p)
    BY <2>6 DEF RequestFails, Failed, Flow, storeVars
  <2>7. CASE AnswerLost(p)
    BY <2>7 DEF NothingToBlame
  <2>8. CASE TakeAnswer(p)
    BY <2>8 DEF TakeAnswer, Flow, SaveKind
  <2>9. CASE ReleaseLock(p)
    BY <2>9 DEF ReleaseLock, Release, NoFlow
  <2>10. CASE Retry(p)
    BY <2>10 DEF Retry
  <2> QED
    BY <1>2, <2>1, <2>2, <2>3, <2>4, <2>5, <2>6, <2>7, <2>8, <2>9, <2>10
       DEF RefreshStep
<1>3. ASSUME NEW p \in Proc, NEW k \in SaveKind, SaveStep(p, k) PROVE Locked'
  <2>1. CASE SavePrepare(p, k) \/ SaveMerge(p, k)
    <3>1. PICK s : save' = [save EXCEPT ![p][k] = s] /\ s.stage # "none"
                   /\ save[p][k].stage # "none"
      BY <2>1 DEF SavePrepare, SaveMerge
    <3> QED
      BY <2>1, <3>1 DEF SavePrepare, SaveMerge, SaveKind
  <2>2. CASE SaveWrite(p, k)
    <3>1. CASE k = "refresh"
      <4>1. /\ flow[p].pc = "persist"
            /\ flow'[p].pc = "releasing" /\ flow'[p].failure = flow[p].failure
            /\ \A q \in Proc \ {p} : flow'[q] = flow[q] /\ save'[q] = save[q]
        BY <2>2, <3>1 DEF SaveWrite, SaveEnds, Enter, SaveKind, Flow
      <4>2. save'[p]["refresh"].stage = "none"
        BY <2>2, <3>1 DEF SaveWrite, SaveEnds, SaveKind, NoSave
      <4> QED
        BY <2>2, <4>1, <4>2, LockedStays DEF SaveWrite
    <3>2. CASE k = "background"
      BY <2>2, <3>2 DEF SaveWrite, SaveEnds, SaveKind
    <3> QED
      BY <3>1, <3>2 DEF SaveKind
  <2>3. CASE SaveFails(p, k)
    <3>1. k = "background" /\ UNCHANGED <<holders, lapsed, flow>>
      BY <2>3 DEF SaveFails, NothingToBlame, SaveKind
    <3>2. \A q \in Proc : save'[q]["refresh"] = save[q]["refresh"]
      BY <2>3, <3>1 DEF SaveFails, SaveKind
    <3> QED
      BY <3>1, <3>2, LockedStays
  <2> QED
    BY <1>3, <2>1, <2>2, <2>3 DEF SaveStep
<1>4. ASSUME NEW p \in Proc,
             StartSave(p) \/ SyncFromDisk(p) \/ AuthFailed(p)
      PROVE  Locked'
  BY <1>4 DEF StartSave, SyncFromDisk, AuthFailed, SaveKind
<1>5. ASSUME NEW p \in Proc, Crash(p) PROVE Locked'
  BY <1>5 DEF Crash, Release, NoFlow, NoSave, SaveKind
<1>6. CASE TokenAges
  BY <1>6 DEF TokenAges, storeVars
<1> QED
  BY <1>1, <1>2, <1>3, <1>4, <1>5, <1>6 DEF Next, NothingToBlame

\* Copies with the token and the stamp of a copy there is, and copies of the
\* server's token that have just been stamped.
OldStamps ==
    {a \in Account : a.enabled /\
        \E b \in Copies : a.rt = b.rt /\ a.upd = b.upd}
NewStamps ==
    {a \in Account : a.enabled /\ a.rt = issued /\ a.upd = now + 1}

LEMMA CopiesTyped ==
    ASSUME Typed
    PROVE  Copies \subseteq Account /\ First \in Account
<1>1. First \in Account
  BY BoundsOK DEF First, Account
<1>2. \A p \in Proc, k \in SaveKind : save[p][k].row \in Account
  BY DEF Typed, TypeOK, Save
<1> QED
  BY <1>1, <1>2 DEF Copies, Typed, TypeOK

LEMMA CopiesAreOld ==
    ASSUME Typed, Ordered
    PROVE  Copies \subseteq OldStamps
BY CopiesTyped DEF OldStamps, Ordered

\* What a step makes of the copies, one by one.
LEMMA CopiesMove ==
    ASSUME Typed, Ordered, NEW S, OldStamps \subseteq S,
           disk' = disk \/ disk' \in S,
           \A p \in Proc : mem'[p] = mem[p] \/ mem'[p] \in S,
           \A p \in Proc, k \in SaveKind :
              save'[p][k].row = save[p][k].row \/ save'[p][k].row \in S
    PROVE  Copies' \subseteq S
<1>1. Copies \subseteq S
  BY CopiesAreOld
<1> QED
  BY <1>1 DEF Copies

LEMMA OldStampsOrdered ==
    ASSUME Typed, Ordered, Copies' \subseteq OldStamps,
           issued' \in {issued, issued + 1}, now' = now
    PROVE  Ordered'
<1> SUFFICES ASSUME NEW a \in Copies', NEW b \in Copies'
             PROVE  /\ a.enabled /\ a.rt <= issued' /\ a.upd <= now'
                    /\ a.upd >= b.upd => a.rt >= b.rt
  BY DEF Ordered
<1>1. PICK c \in Copies : a.rt = c.rt /\ a.upd = c.upd
  BY DEF OldStamps
<1>2. PICK d \in Copies : b.rt = d.rt /\ b.upd = d.upd
  BY DEF OldStamps
<1>3. a.enabled
  BY DEF OldStamps
<1>4. c.rt \in Nat /\ issued \in Nat
  BY CopiesTyped DEF Typed, TypeOK, Account
<1> QED
  BY <1>1, <1>2, <1>3, <1>4 DEF Ordered

LEMMA NewStampsOrdered ==
    ASSUME Typed, Ordered, Copies' \subseteq OldStamps \cup NewStamps,
           issued' = issued, now' = now + 1
    PROVE  Ordered'
<1> SUFFICES ASSUME NEW a \in Copies', NEW b \in Copies'
             PROVE  /\ a.enabled /\ a.rt <= issued' /\ a.upd <= now'
                    /\ a.upd >= b.upd => a.rt >= b.rt
  BY DEF Ordered
<1> DEFINE Old(x) == \E c \in Copies : x.rt = c.rt /\ x.upd = c.upd
           New(x) == x.rt = issued /\ x.upd = now + 1
<1>1. a.enabled /\ (Old(a) \/ New(a)) /\ (Old(b) \/ New(b))
  BY DEF OldStamps, NewStamps
<1>2. \A c \in Copies : c.rt \in Nat /\ c.upd \in Nat
  BY CopiesTyped DEF Account
<1>3. \A x : Old(x) => x.rt \in Nat /\ x.upd \in Nat
                       /\ x.rt <= issued /\ x.upd <= now
  BY <1>2 DEF Ordered
<1>4. issued \in Nat /\ now \in Nat
  BY DEF Typed, TypeOK
<1>5. Old(a) /\ Old(b) => (a.upd >= b.upd => a.rt >= b.rt)
  BY DEF Ordered
<1> HIDE DEF Old
<1> QED
  BY <1>1, <1>3, <1>4, <1>5

\* A merge by stamps chooses one of the two, and one that is no older.
LEMMA FreshestIsOld ==
    ASSUME Typed, Ordered, NEW a \in Copies
    PROVE  /\ Freshest(a) \in OldStamps
           /\ Freshest(a).upd >= disk.upd
           /\ Freshest(a).rt >= a.rt
           /\ Freshest(a).rt \in {a.rt, disk.rt}
<1> USE DEF Freshest, DiskIsNewer
<1>1. a \in Account /\ disk \in Account /\ disk \in Copies
  BY CopiesTyped DEF Typed, TypeOK, Copies
<1>2. CASE DiskIsNewer(a)
  <2> DEFINE f == [disk EXCEPT !.enabled = a.enabled]
  <2>1. f \in Account /\ f.rt = disk.rt /\ f.upd = disk.upd /\ f.enabled
    BY <1>1 DEF Account, Ordered
  <2>2. Freshest(a) = f
    BY <1>2
  <2>3. disk.rt >= a.rt
    BY <1>1, <1>2 DEF Ordered, Account
  <2> HIDE DEF f
  <2>4. f \in OldStamps
    BY <1>1, <2>1 DEF OldStamps
  <2>5. disk.upd >= disk.upd
    BY <1>1 DEF Account
  <2> QED
    BY <2>1, <2>2, <2>3, <2>4, <2>5
<1>3. CASE ~DiskIsNewer(a)
  <2>1. Freshest(a) = a
    BY <1>3
  <2>2. a.upd >= disk.upd /\ a.rt >= a.rt
    BY <1>1, <1>3 DEF Account
  <2> QED
    BY <2>1, <2>2, CopiesAreOld
<1> QED
  BY <1>2, <1>3

\* Without unsaved tokens, what applyDiskAuthIfFresher adopts is newer: the
\* file of a healthy system never has a different token and no newer stamp.
LEMMA AdoptedIsFreshest ==
    ASSUME Typed, Safe, NEW p \in Proc, flow[p].pc # "persist", NEW e
    PROVE  Adopted(mem[p], e) = Freshest(mem[p])
<1>1. mem[p] \in Account /\ disk \in Account /\ mem[p] \in Copies /\ disk \in Copies
  BY DEF Typed, TypeOK, Copies
<1>2. CASE DiskIsNewer(mem[p])
  <2>1. [disk EXCEPT !.upd = disk.upd, !.enabled = mem[p].enabled]
           = [disk EXCEPT !.enabled = mem[p].enabled]
    BY <1>1 DEF Account
  <2> QED
    BY <1>2, <2>1 DEF Adopted, Adopts, Freshest
<1>3. CASE ~DiskIsNewer(mem[p])
  <2>1. mem[p].rt >= disk.rt
    BY <1>1, <1>3 DEF Safe, Ordered, DiskIsNewer, Account
  <2>2. ~(mem[p].rt > disk.rt)
    BY DEF Safe, Current
  <2>3. mem[p].rt = disk.rt
    BY <1>1, <2>1, <2>2 DEF Account
  <2> QED
    BY <1>3, <2>3 DEF Adopted, Adopts, Freshest
<1> QED
  BY <1>2, <1>3

LEMMA OrderedStep ==
    ASSUME Typed, Safe, Next, NothingToBlame
    PROVE  Ordered'
<1> USE DEF Typed, Safe
<1>0. /\ disk \in Copies /\ disk \in OldStamps /\ NoSave.row \in OldStamps
      /\ \A q \in Proc : mem[q] \in Copies /\ mem[q] \in Account
      /\ \A q \in Proc, k \in SaveKind : save[q][k].row \in Copies
      /\ disk \in Account
  BY CopiesAreOld DEF Copies, NoSave, TypeOK
<1>1. ASSUME UNCHANGED <<mem, disk, save, issued, now>> PROVE Ordered'
  BY <1>1 DEF Ordered, Copies
<1>2. ASSUME NEW p \in Proc, NEW a \in OldStamps, mem' = [mem EXCEPT ![p] = a],
             UNCHANGED <<disk, save, now>>, issued' \in {issued, issued + 1}
      PROVE  Ordered'
  BY <1>2, CopiesMove, OldStampsOrdered DEF TypeOK
<1>3. ASSUME NEW p \in Proc, LockBusy(p) \/ ReadDisk(p) PROVE Ordered'
  <2>1. PICK e \in BOOLEAN : Set(p, Adopted(mem[p], e))
    BY <1>3 DEF LockBusy, ReadDisk
  <2>2. flow[p].pc # "persist"
    BY <1>3 DEF LockBusy, ReadDisk
  <2>3. Adopted(mem[p], e) \in OldStamps
    BY <1>0, <2>2, AdoptedIsFreshest, FreshestIsOld
  <2> QED
    BY <1>2, <1>3, <2>1, <2>3 DEF LockBusy, ReadDisk, Set
<1>4. ASSUME NEW p \in Proc, ServerRotates(p) PROVE Ordered'
  <2>1. Copies' \subseteq OldStamps
    BY <1>4, CopiesMove DEF ServerRotates, storeVars
  <2> QED
    BY <1>4, <2>1, OldStampsOrdered DEF ServerRotates
<1>5. ASSUME NEW p \in Proc, TakeAnswer(p) \/ AuthFailed(p) PROVE Ordered'
  <2>1. PICK a \in NewStamps : mem' = [mem EXCEPT ![p] = a]
    <3>1. mem[p].enabled /\ now + 1 \in Nat
      BY <1>0 DEF Ordered, TypeOK
    <3>2. CASE TakeAnswer(p)
      <4> DEFINE a == [mem[p] EXCEPT !.rt = flow[p].got,
                            !.access = flow[p].got, !.upd = now + 1]
      <4>1. flow[p].got \in Gen /\ flow[p].got = issued
        BY <3>2 DEF TakeAnswer, AnswerHasToken, Current
      <4>2. a \in Account /\ a.enabled = mem[p].enabled
            /\ a.rt = issued /\ a.upd = now + 1
        BY <1>0, <3>1, <4>1 DEF Account
      <4>3. mem' = [mem EXCEPT ![p] = a]
        BY <3>2 DEF TakeAnswer, Set
      <4> HIDE DEF a
      <4> QED
        BY <3>1, <4>2, <4>3 DEF NewStamps
    <3>3. CASE AuthFailed(p)
      <4> DEFINE a == [mem[p] EXCEPT !.access = 0, !.upd = now + 1]
      <4>1. mem[p].rt = issued
        BY <3>3 DEF NothingToBlame
      <4>2. a \in Account /\ a.enabled = mem[p].enabled
            /\ a.rt = issued /\ a.upd = now + 1
        BY <1>0, <3>1, <4>1 DEF Account
      <4>3. mem' = [mem EXCEPT ![p] = a]
        BY <3>3 DEF AuthFailed, Set
      <4> HIDE DEF a
      <4> QED
        BY <3>1, <4>2, <4>3 DEF NewStamps
    <3> QED
      BY <1>5, <3>2, <3>3
  <2>2. \A q \in Proc, k \in SaveKind : save'[q][k].row = save[q][k].row
    <3>1. \/ save' = save
          \/ save' = [save EXCEPT ![p]["refresh"] =
                          [save[p]["refresh"] EXCEPT !.stage = "load"]]
      BY <1>5 DEF TakeAnswer, AuthFailed
    <3>2. /\ save[p]["refresh"] \in Save /\ "refresh" \in SaveKind
          /\ save \in [Proc -> [SaveKind -> Save]]
      BY DEF TypeOK, SaveKind
    <3>3. [save[p]["refresh"] EXCEPT !.stage = "load"].row
             = save[p]["refresh"].row
      BY <3>2 DEF Save
    <3> QED
      BY ZenonT(40), <3>1, <3>2, <3>3
  <2>3. Copies' \subseteq OldStamps \cup NewStamps
    <3>1. \A q \in Proc : mem'[q] = mem[q] \/ mem'[q] \in NewStamps
      BY <2>1 DEF TypeOK
    <3>2. disk' = disk
      BY <1>5 DEF TakeAnswer, AuthFailed
    <3> DEFINE S == OldStamps \cup NewStamps
    <3>3. OldStamps \subseteq S /\ NewStamps \subseteq S
      OBVIOUS
    <3> HIDE DEF S
    <3>4. Copies' \subseteq S
      BY <2>2, <3>1, <3>2, <3>3, CopiesMove
    <3> QED
      BY <3>4 DEF S
  <2> QED
    BY <1>5, <2>3, NewStampsOrdered DEF TakeAnswer, AuthFailed
<1>6. ASSUME NEW p \in Proc, ReleaseLock(p) PROVE Ordered'
  <2>1. flow[p].failure # "terminal"
    BY DEF Locked
  <2> QED
    BY <1>1, <1>6, <2>1 DEF ReleaseLock
<1>7. ASSUME NEW p \in Proc, NEW k \in SaveKind, SaveStep(p, k)
      PROVE  Ordered'
  <2>1. \A r \in {mem[p], save[p][k].row} : Freshest(r) \in OldStamps
    BY <1>0, FreshestIsOld
  <2>2. /\ issued' = issued /\ now' = now
        /\ disk' \in {disk, save[p][k].row}
        /\ \A q \in Proc : mem'[q] \in {mem[q], Freshest(mem[p])}
    BY <1>7 DEF SaveStep, SavePrepare, SaveMerge, SaveWrite, SaveFails, Set,
       TypeOK
  <2>3. \A q \in Proc, j \in SaveKind :
           save'[q][j].row \in {save[q][j].row, NoSave.row, Freshest(mem[p]),
                                Freshest(save[p][k].row)}
    <3>1. CASE SavePrepare(p, k) \/ SaveMerge(p, k)
      BY <3>1 DEF SavePrepare, SaveMerge, TypeOK
    <3>2. CASE SaveWrite(p, k)
      BY <3>2 DEF SaveWrite, SaveEnds, TypeOK
    <3>3. CASE SaveFails(p, k)
      BY <3>3 DEF SaveFails, NothingToBlame, TypeOK, SaveKind
    <3> QED
      BY <1>7, <3>1, <3>2, <3>3 DEF SaveStep
  <2>4. \A r \in {save[p][k].row} : r \in OldStamps
    BY <1>0, CopiesAreOld
  <2>5. Copies' \subseteq OldStamps
    BY <1>0, <2>1, <2>2, <2>3, <2>4, CopiesMove
  <2> QED
    BY <2>2, <2>5, OldStampsOrdered
<1>8. ASSUME NEW p \in Proc, StartSave(p) PROVE Ordered'
  <2>1. \A q \in Proc, k \in SaveKind : save'[q][k].row = save[q][k].row
    BY <1>8 DEF StartSave, TypeOK, SaveKind, Save
  <2> QED
    BY <1>8, <2>1, CopiesMove, OldStampsOrdered DEF StartSave
<1>9. ASSUME NEW p \in Proc, SyncFromDisk(p) PROVE Ordered'
  <2> DEFINE a == [disk EXCEPT !.access = IF @ = 0 THEN mem[p].access ELSE @]
  <2>1. a \in Account /\ a.enabled = disk.enabled
        /\ a.rt = disk.rt /\ a.upd = disk.upd
    BY <1>0 DEF Account
  <2>2. Set(p, a)
    BY <1>9 DEF SyncFromDisk
  <2> HIDE DEF a
  <2>3. a \in OldStamps
    BY <1>0, <2>1 DEF OldStamps, Ordered
  <2> QED
    BY <1>2, <1>9, <2>2, <2>3 DEF Set, SyncFromDisk
<1>10. ASSUME NEW p \in Proc, Crash(p) PROVE Ordered'
  <2>1. \A q \in Proc, k \in SaveKind :
           save'[q][k].row \in {save[q][k].row, NoSave.row}
    BY <1>10 DEF Crash, TypeOK
  <2>2. \A q \in Proc : mem'[q] \in {mem[q], disk}
    BY <1>10 DEF Crash, Set, TypeOK
  <2>3. Copies' \subseteq OldStamps
    BY <1>0, <1>10, <2>1, <2>2, CopiesMove DEF Crash
  <2> QED
    BY <1>10, <2>3, OldStampsOrdered DEF Crash
<1>11. ASSUME NEW p \in Proc, ServerRefuses(p) \/ Retry(p) \/ AnswerLost(p)
               \/ LeaseLapses(p)
       PROVE  FALSE
  BY <1>11 DEF ServerRefuses, Retry, NothingToBlame, Current, Locked
<1>12. ASSUME NEW p \in Proc,
              \/ \E source \in {"foreground", "idle"} : StartRefresh(p, source)
              \/ TakeLock(p) \/ RequestFails(p) \/ TokenAges
       PROVE  Ordered'
  BY <1>1, <1>12 DEF StartRefresh, TakeLock, RequestFails, TokenAges, storeVars
<1>13. CASE TokenAges
  BY <1>1, <1>13 DEF TokenAges, storeVars
<1> QED
  BY <1>3, <1>4, <1>5, <1>6, <1>7, <1>8, <1>9, <1>10, <1>11, <1>12, <1>13
     DEF Next, RefreshStep

LEMMA WritesMergedStep ==
    ASSUME Typed, Safe, Next, NothingToBlame
    PROVE  WritesMerged'
<1> USE DEF Typed, TypeOK, Safe, WritesMerged
<1>1. ASSUME NEW p \in Proc, NEW j \in SaveKind, NEW s,
             save' = [save EXCEPT ![p][j] = s],
             s.stage = "write" => s.row.upd >= s.read
      PROVE  WritesMerged'
  BY <1>1
<1>2. ASSUME NEW p \in Proc, NEW k \in SaveKind, SaveStep(p, k)
      PROVE  WritesMerged'
  <2>1. CASE SavePrepare(p, k)
    BY <1>1, <2>1 DEF SavePrepare
  <2>2. CASE SaveMerge(p, k)
    <3>1. save[p][k].row \in Copies
      BY DEF Copies
    <3>2. Freshest(save[p][k].row).upd >= disk.upd
      BY <3>1, FreshestIsOld
    <3> QED
      BY <1>1, <2>2, <3>2 DEF SaveMerge
  <2>3. CASE SaveWrite(p, k)
    BY <1>1, <2>3 DEF SaveWrite, SaveEnds, NoSave
  <2>4. CASE SaveFails(p, k)
    BY ZenonT(40), <1>1, <2>4 DEF SaveFails, NothingToBlame, SaveKind, NoSave
  <2> QED
    BY <1>2, <2>1, <2>2, <2>3, <2>4 DEF SaveStep
<1>3. ASSUME NEW p \in Proc, StartSave(p) \/ TakeAnswer(p)
      PROVE  WritesMerged'
  <2>1. PICK j \in SaveKind :
           save' = [save EXCEPT ![p][j] = [save[p][j] EXCEPT !.stage = "load"]]
    BY <1>3 DEF StartSave, TakeAnswer, SaveKind
  <2>2. [save[p][j] EXCEPT !.stage = "load"].stage = "load"
    BY DEF Save
  <2> QED
    BY <1>1, <2>1, <2>2
<1>4. ASSUME NEW p \in Proc, Crash(p) PROVE WritesMerged'
  BY <1>4 DEF Crash, NoSave
<1>5. ASSUME NEW p \in Proc, ReleaseLock(p) PROVE save' = save
  BY <1>5 DEF ReleaseLock, Locked
<1> QED
  BY <1>2, <1>3, <1>4, <1>5
     DEF Next, StartRefresh, RefreshStep, TakeLock, LockBusy, ReadDisk,
         ServerRotates, ServerRefuses, RequestFails, AnswerLost, Retry,
         SyncFromDisk, AuthFailed, LeaseLapses, TokenAges, storeVars

\* A holder without tokens of its own knows that the file is up to date.
LEMMA HolderKnows ==
    ASSUME Safe, NEW p \in Proc,
           flow[p].pc \in {"readDisk", "calling", "releasing"}
    PROVE  disk.rt = issued
BY DEF Safe, Locked, Current, Critical

\* A step that leaves the flow and the server alone, and changes copies only
\* by merging.
LEMMA CurrentMerged ==
    ASSUME Typed, Safe, UNCHANGED <<flow, issued, disk>>,
           \A p \in Proc :
              /\ mem'[p].rt \in {mem[p].rt, disk.rt} /\ mem'[p].rt >= mem[p].rt
              /\ flow[p].pc = "persist" =>
                    /\ mem'[p].rt = issued
                    /\ save'[p]["refresh"].stage # "load" =>
                          save'[p]["refresh"].row.rt = issued
    PROVE  Current'
<1>1. disk \in Account /\ \A p \in Proc : mem[p] \in Account
  BY DEF Typed, TypeOK
<1> QED
  BY <1>1 DEF Current, Safe, Account

LEMMA CurrentSaves ==
    ASSUME Typed, Safe, NothingToBlame, NEW p \in Proc, NEW k \in SaveKind,
           SaveStep(p, k)
    PROVE  Current'
<1> USE DEF Safe
<1>t. /\ mem \in [Proc -> Account] /\ save \in [Proc -> [SaveKind -> Save]]
      /\ flow \in [Proc -> Flow]
  BY DEF Typed, TypeOK
<1>0. /\ mem[p] \in Copies /\ mem[p] \in Account
      /\ save[p][k].row \in Copies /\ save[p][k].row \in Account
      /\ disk \in Copies /\ disk \in Account /\ issued \in Nat
      /\ \A q \in Proc : mem[q] \in Account /\ mem[q] \in Copies
  BY CopiesTyped DEF Copies, Typed, TypeOK
<1>n. /\ disk.rt \in Nat /\ save[p][k].row.rt \in Nat /\ issued \in Nat
      /\ mem[p].rt \in Nat
  BY <1>0 DEF Account
<1>m. ASSUME NEW q \in Proc
      PROVE  mem[q].rt \in Nat /\ mem[q].rt <= issued
  <2>1. mem[q] \in Copies /\ mem[q] \in Account
    BY <1>0
  <2> QED
    BY <2>1 DEF Account, Ordered
<1>1. CASE SavePrepare(p, k)
  <2> DEFINE a == Freshest(mem[p])
  <2>1. a \in OldStamps /\ a.rt >= mem[p].rt /\ a.rt \in {mem[p].rt, disk.rt}
    BY <1>0, FreshestIsOld
  <2>2. a.rt <= issued /\ a.rt \in Nat
    BY <1>0, <1>n, <2>1 DEF Ordered
  <2>3. flow[p].pc = "persist" => a.rt = issued
    <3> HIDE DEF a
    <3> QED
      BY <1>0, <1>n, <2>1, <2>2 DEF Current
  <2>4. /\ mem' = [mem EXCEPT ![p] = a]
        /\ save' = [save EXCEPT ![p][k] =
                       [stage |-> "merge", row |-> a, read |-> 0]]
    BY <1>1 DEF SavePrepare, Set
  <2> HIDE DEF a
  <2>5. ASSUME NEW q \in Proc
        PROVE  \/ save'[q]["refresh"] = save[q]["refresh"]
               \/ q = p /\ save'[q]["refresh"].row = a
    BY <1>t, <2>4 DEF SaveKind
  <2>7. mem'[p] = a /\ \A q \in Proc \ {p} : mem'[q] = mem[q]
    BY <1>t, <2>4
  <2>6. \A q \in Proc :
              /\ mem'[q].rt \in {mem[q].rt, disk.rt} /\ mem'[q].rt >= mem[q].rt
              /\ flow[q].pc = "persist" =>
                    /\ mem'[q].rt = issued
                    /\ save'[q]["refresh"].stage # "load" =>
                          save'[q]["refresh"].row.rt = issued
    BY <1>n, <1>m, <2>1, <2>2, <2>3, <2>5, <2>7 DEF Current
  <2> QED
    BY <1>1, <2>6, CurrentMerged DEF SavePrepare
<1>2. CASE SaveMerge(p, k)
  <2> DEFINE a == Freshest(save[p][k].row)
  <2>1. a.rt >= save[p][k].row.rt /\ a.rt \in {save[p][k].row.rt, disk.rt}
    BY <1>0, FreshestIsOld
  <2>2. a.rt <= issued /\ a.rt \in Nat
    BY <1>0, <1>n, <2>1 DEF Ordered
  <2>3. flow[p].pc = "persist" /\ k = "refresh" => a.rt = issued
    <3>1. save[p][k].stage = "merge"
      BY <1>2 DEF SaveMerge
    <3> HIDE DEF a
    <3> QED
      BY <1>n, <2>1, <2>2, <3>1 DEF Current
  <2>4. save' = [save EXCEPT ![p][k] =
                    [stage |-> "write", row |-> a, read |-> disk.upd]]
    BY <1>2 DEF SaveMerge
  <2>5. \A q \in Proc :
           \/ save'[q]["refresh"] = save[q]["refresh"]
           \/ q = p /\ k = "refresh" /\ save'[q]["refresh"].row = a
    BY <1>t, <2>4 DEF SaveKind
  <2> HIDE DEF a
  <2>6. \A q \in Proc :
              /\ mem[q].rt \in {mem[q].rt, disk.rt} /\ mem[q].rt >= mem[q].rt
              /\ flow[q].pc = "persist" =>
                    /\ mem[q].rt = issued
                    /\ save'[q]["refresh"].stage # "load" =>
                          save'[q]["refresh"].row.rt = issued
    BY <1>0, <2>3, <2>5 DEF Current, Account
  <2> QED
    BY <1>2, <2>6, CurrentMerged DEF SaveMerge
<1>3. CASE SaveWrite(p, k)
  <2> DEFINE a == save[p][k].row
  <2>1. a.upd >= disk.upd
    BY <1>0, <1>3 DEF SaveWrite, WritesMerged, NothingToBlame
  <2>2. a.rt >= disk.rt /\ a.rt <= issued
    BY <1>0, <2>1 DEF Ordered
  <2>3. disk' = a /\ mem' = mem /\ issued' = issued
    BY <1>3 DEF SaveWrite
  <2>4. CASE k = "refresh"
    <3>1. flow[p].pc = "persist" /\ a.rt = issued
      BY <1>3, <2>4 DEF SaveWrite, Locked, Current
    <3>2. /\ flow'[p].pc = "releasing"
          /\ \A q \in Proc \ {p} : flow'[q] = flow[q] /\ save'[q] = save[q]
      BY <1>t, <1>3, <2>4 DEF SaveWrite, SaveEnds, Enter, Flow
    <3>3. ASSUME NEW q \in Proc PROVE ~(mem[q].rt > issued)
      BY <1>n, <1>m
    <3> HIDE DEF a
    <3> QED
      BY <2>3, <3>1, <3>2, <3>3 DEF Current
  <2>5. CASE k = "background"
    <3>1. /\ flow' = flow
          /\ \A q \in Proc : save'[q]["refresh"] = save[q]["refresh"]
      BY <1>t, <1>3, <2>5 DEF SaveWrite, SaveEnds, SaveKind
    <3>2. \A q \in Proc : mem[q].rt > a.rt => mem[q].rt > disk.rt
      BY <1>n, <1>m, <2>2
    <3>3. disk.rt = issued => a.rt = issued
      BY <1>n, <2>2
    <3> HIDE DEF a
    <3> QED
      BY <2>3, <3>1, <3>2, <3>3 DEF Current
  <2> QED
    BY <2>4, <2>5 DEF SaveKind
<1>4. CASE SaveFails(p, k)
  <2>1. k = "background" /\ UNCHANGED <<flow, mem, disk, issued>>
    BY <1>4 DEF SaveFails, NothingToBlame, SaveKind
  <2>2. \A q \in Proc : save'[q]["refresh"] = save[q]["refresh"]
    BY <1>t, <1>4, <2>1 DEF SaveFails, SaveKind
  <2> QED
    BY <2>1, <2>2 DEF Current
<1> QED
  BY <1>1, <1>2, <1>3, <1>4 DEF SaveStep

\* A step that leaves the tokens alone and moves p to or from a state in
\* which it neither has an answer nor writes one down.
LEMMA CurrentFlow ==
    ASSUME Safe, UNCHANGED <<mem, disk, save, issued>>, NEW p \in Proc,
           flow[p].pc \notin {"answered", "persist"},
           flow'[p].pc \notin {"answered", "persist"},
           flow'[p].pc = "calling" => flow'[p].sent = issued,
           \A q \in Proc \ {p} : flow'[q] = flow[q]
    PROVE  Current'
BY DEF Current, Safe

LEMMA CurrentRefreshes ==
    ASSUME Typed, Safe, NothingToBlame, NEW p \in Proc, RefreshStep(p)
    PROVE  Current'
<1> USE DEF Safe
<1>t. /\ mem \in [Proc -> Account] /\ save \in [Proc -> [SaveKind -> Save]]
      /\ flow \in [Proc -> Flow] /\ disk \in Account /\ issued \in Nat
      /\ mem[p] \in Account
  BY DEF Typed, TypeOK
<1>c. mem[p] \in Copies /\ \A q \in Proc : mem[q] \in Copies
  BY DEF Copies
<1>1. CASE TakeLock(p)
  <2>1. /\ flow[p].pc = "locking" /\ flow'[p].pc = "readDisk"
        /\ \A q \in Proc \ {p} : flow'[q] = flow[q]
    BY <1>t, <1>1 DEF TakeLock, Enter, Flow
  <2> QED
    BY <1>1, <2>1, CurrentFlow DEF TakeLock, storeVars
<1>2. CASE LockBusy(p) \/ ReadDisk(p)
  <2> DEFINE a == Freshest(mem[p])
  <2>1. flow[p].pc \in {"locking", "readDisk"}
    BY <1>2 DEF LockBusy, ReadDisk
  <2>2. \A e \in BOOLEAN : Adopted(mem[p], e) = a
    BY <2>1, AdoptedIsFreshest
  <2>3. /\ mem' = [mem EXCEPT ![p] = a]
        /\ UNCHANGED <<disk, save, issued>>
    BY <1>2, <2>2 DEF LockBusy, ReadDisk, Set
  <2>4. a.rt \in {mem[p].rt, disk.rt} /\ a.rt >= mem[p].rt
    BY <1>c, FreshestIsOld
  <2>5. mem[p].rt \in Nat /\ disk.rt \in Nat /\ ~(mem[p].rt > disk.rt)
    BY <1>t, <2>1 DEF Current, Account
  <2>6. ~(a.rt > disk.rt)
    <3> HIDE DEF a
    <3> QED
      BY <2>4, <2>5
  <2>7. flow'[p].pc \notin {"answered", "persist"}
        /\ \A q \in Proc \ {p} : flow'[q] = flow[q]
    <3>1. CASE LockBusy(p)
      BY <1>t, <3>1 DEF LockBusy, NoFlow
    <3>2. CASE ReadDisk(p)
      <4>1. \/ flow' = [flow EXCEPT ![p].pc = "releasing"]
            \/ \E x : flow' = [flow EXCEPT ![p].pc = "calling", ![p].sent = x]
        BY <3>2 DEF ReadDisk, Enter
      <4> QED
        BY <1>t, <4>1 DEF Flow
    <3> QED
      BY <1>2, <3>1, <3>2
  <2>8. flow'[p].pc = "calling" => flow'[p].sent = issued
    <3>1. CASE LockBusy(p)
      BY <1>t, <3>1 DEF LockBusy, NoFlow
    <3>2. CASE ReadDisk(p)
      <4>1. Adopted(mem[p], FALSE) = a /\ flow[p].pc = "readDisk"
        BY <2>2, <3>2 DEF ReadDisk
      <4>2. a.rt = issued
        <5>1. disk.rt = issued
          BY <4>1, HolderKnows
        <5>2. a.upd >= disk.upd /\ a \in OldStamps
          BY <1>c, FreshestIsOld
        <5>3. disk \in Copies
          BY DEF Copies
        <5>4. a.rt >= disk.rt
          BY <5>2, <5>3 DEF OldStamps, Ordered
        <5> HIDE DEF a
        <5> QED
          BY <2>5, <2>6, <5>1, <5>4, <2>4
      <4> HIDE DEF a
      <4>3. \/ flow' = [flow EXCEPT ![p].pc = "releasing"]
            \/ flow' = [flow EXCEPT ![p].pc = "calling", ![p].sent = a.rt]
        BY <3>2, <4>1 DEF ReadDisk, Enter
      <4> QED
        BY <1>t, <4>2, <4>3 DEF Flow
    <3> QED
      BY <1>2, <3>1, <3>2
  <2>9. mem'[p] = a /\ \A q \in Proc \ {p} : mem'[q] = mem[q]
    BY <1>t, <2>3
  <2> HIDE DEF a
  <2> QED
    BY <2>1, <2>3, <2>6, <2>7, <2>8, <2>9 DEF Current
<1>3. CASE ServerRotates(p)
  <2>1. /\ flow'[p].pc = "answered" /\ flow'[p].got = issued'
        /\ \A q \in Proc \ {p} : flow'[q] = flow[q]
    BY <1>t, <1>3 DEF ServerRotates, Flow
  <2>2. \A q \in Proc \ {p} : flow[q].pc \notin Critical
    BY <1>3 DEF ServerRotates, Locked, Critical
  <2> QED
    <3>1. UNCHANGED <<mem, disk, save>> /\ flow[p].pc = "calling"
      BY <1>3 DEF ServerRotates, storeVars
    <3>2. \A q \in Proc : ~(mem[q].rt > disk.rt)
      BY <2>2, <3>1 DEF Current, Critical
    <3> QED
      BY <2>1, <2>2, <3>1, <3>2 DEF Current, Critical
<1>4. CASE ServerRefuses(p) \/ AnswerLost(p) \/ Retry(p)
  BY <1>4 DEF ServerRefuses, Retry, NothingToBlame, Current, Locked
<1>5. CASE RequestFails(p)
  <2>1. /\ flow[p].pc = "calling" /\ flow'[p].pc = "releasing"
        /\ \A q \in Proc \ {p} : flow'[q] = flow[q]
    BY <1>t, <1>5 DEF RequestFails, Failed, Flow
  <2> QED
    BY <1>5, <2>1, CurrentFlow DEF RequestFails, storeVars
<1>6. CASE TakeAnswer(p)
  <2>1. flow[p].pc = "answered" /\ flow[p].got = issued
    BY <1>6 DEF TakeAnswer, Current
  <2>2. /\ flow'[p].pc = "persist"
        /\ \A q \in Proc \ {p} : flow'[q] = flow[q]
    BY <1>t, <1>6 DEF TakeAnswer, Flow
  <2>3. /\ mem'[p].rt = issued
        /\ \A q \in Proc \ {p} : mem'[q] = mem[q]
    BY <1>t, <1>6, <2>1 DEF TakeAnswer, Set, Account
  <2>4. /\ save'[p]["refresh"].stage = "load"
        /\ \A q \in Proc \ {p} : save'[q] = save[q]
    <3>1. save[p]["refresh"] \in Save /\ "refresh" \in SaveKind
      BY <1>t DEF SaveKind
    <3>2. save' = [save EXCEPT ![p]["refresh"] =
                      [save[p]["refresh"] EXCEPT !.stage = "load"]]
      BY <1>6 DEF TakeAnswer
    <3>3. [save[p]["refresh"] EXCEPT !.stage = "load"].stage = "load"
      BY <3>1 DEF Save
    <3> QED
      BY <1>t, <3>1, <3>2, <3>3
  <2>5. disk' = disk /\ issued' = issued
    BY <1>6 DEF TakeAnswer
  <2> QED
    BY <2>2, <2>3, <2>4, <2>5 DEF Current
<1>7. CASE ReleaseLock(p)
  <2>1. flow[p].pc = "releasing" /\ flow[p].failure # "terminal"
    BY <1>7 DEF ReleaseLock, Locked
  <2>2. /\ flow' = [flow EXCEPT ![p] = NoFlow]
        /\ UNCHANGED <<mem, disk, save, issued>>
    BY <1>7, <2>1 DEF ReleaseLock
  <2>3. flow'[p].pc = "idle" /\ \A q \in Proc \ {p} : flow'[q] = flow[q]
    BY <1>t, <2>2 DEF NoFlow
  <2> QED
    BY <2>1, <2>2, <2>3, CurrentFlow
<1> QED
  BY <1>1, <1>2, <1>3, <1>4, <1>5, <1>6, <1>7 DEF RefreshStep

LEMMA CurrentStep ==
    ASSUME Typed, Safe, Next, NothingToBlame
    PROVE  Current'
<1> USE DEF Safe
<1>t. /\ mem \in [Proc -> Account] /\ save \in [Proc -> [SaveKind -> Save]]
      /\ flow \in [Proc -> Flow] /\ disk \in Account
  BY DEF Typed, TypeOK
<1>1. ASSUME NEW p \in Proc, NEW source \in {"foreground", "idle"},
             StartRefresh(p, source)
      PROVE  Current'
  <2>1. /\ flow[p].pc = "idle" /\ flow'[p].pc = "locking"
        /\ \A q \in Proc \ {p} : flow'[q] = flow[q]
    BY <1>t, <1>1 DEF StartRefresh, Attempt
  <2> QED
    BY <1>1, <2>1, CurrentFlow DEF StartRefresh, storeVars
<1>2. ASSUME NEW p \in Proc, StartSave(p) PROVE Current'
  <2>1. \A q \in Proc : save'[q]["refresh"] = save[q]["refresh"]
    BY <1>t, <1>2 DEF StartSave, SaveKind
  <2> QED
    BY <1>2, <2>1 DEF StartSave, Current
<1>3. ASSUME NEW p \in Proc, AuthFailed(p) PROVE Current'
  <2>1. /\ mem'[p].rt = mem[p].rt
        /\ \A q \in Proc \ {p} : mem'[q] = mem[q]
    BY <1>t, <1>3 DEF AuthFailed, Set, Account
  <2> QED
    BY <1>3, <2>1 DEF AuthFailed, Current
<1>4. ASSUME NEW p \in Proc, SyncFromDisk(p) PROVE Current'
  <2>1. /\ mem'[p].rt = disk.rt
        /\ \A q \in Proc \ {p} : mem'[q] = mem[q]
    BY <1>t, <1>4 DEF SyncFromDisk, Set, Account
  <2>2. flow[p].pc \notin {"answered", "persist"}
    BY <1>4 DEF NothingToBlame, HasUnsavedTokens
  <2>3. ~(disk.rt > disk.rt)
    BY <1>t DEF Account
  <2> QED
    BY <1>4, <2>1, <2>2, <2>3 DEF SyncFromDisk, Current
<1>5. ASSUME NEW p \in Proc, Crash(p) PROVE Current'
  <2>1. /\ mem'[p].rt = disk.rt /\ flow'[p].pc = "idle"
        /\ \A q \in Proc \ {p} :
              mem'[q] = mem[q] /\ flow'[q] = flow[q] /\ save'[q] = save[q]
    BY <1>t, <1>5 DEF Crash, Set, NoFlow
  <2>2. flow[p].pc \notin {"answered", "persist"}
    BY <1>5 DEF NothingToBlame, HasUnsavedTokens
  <2>3. ~(disk.rt > disk.rt)
    BY <1>t DEF Account
  <2> QED
    BY <1>5, <2>1, <2>2, <2>3 DEF Crash, Current
<1>6. CASE TokenAges
  BY <1>6 DEF TokenAges, storeVars, Current
<1> QED
  BY <1>1, <1>2, <1>3, <1>4, <1>5, <1>6, CurrentRefreshes, CurrentSaves
     DEF Next, NothingToBlame

(***************************************************************************)
(* The inductive invariant, and what it was made for.                      *)
(***************************************************************************)
LEMMA InitInv == Init => Inv
<1> SUFFICES ASSUME Init PROVE Inv
  OBVIOUS
<1>1. Typed
  BY InitTyped
<1>2. Copies = {First}
  BY DEF Init, Copies, NoSave
<1>3. Ordered
  BY <1>2 DEF Init, Ordered, First
<1>4. Locked /\ WritesMerged /\ Current
  BY DEF Init, LeaseInit, Locked, WritesMerged, Current, Critical, NoFlow,
     NoSave, First, SaveKind
<1> QED
  BY <1>1, <1>3, <1>4 DEF Inv, Safe

LEMMA StepInv == Inv /\ [Next]_vars => Inv'
<1> SUFFICES ASSUME Inv, [Next]_vars PROVE Inv'
  OBVIOUS
<1>1. Typed'
  BY TypedStep DEF Inv
<1>2. ASSUME blame' = NoCause PROVE Safe'
  <2>1. Typed /\ Safe /\ NothingToBlame
    BY <1>2, NotBlamed DEF Inv, NothingToBlame
  <2>2. CASE Next
    BY <2>1, <2>2, LockedStep, OrderedStep, WritesMergedStep, CurrentStep
       DEF Safe
  <2>3. CASE UNCHANGED vars
    BY <2>1, <2>3 DEF vars, Safe, Locked, Ordered, Copies, WritesMerged, Current
  <2> QED
    BY <2>2, <2>3
<1> QED
  BY <1>1, <1>2 DEF Inv

THEOREM Invariance == Spec => []Inv
BY InitInv, StepInv, PTL DEF Spec

\* Until one of the causes has happened, no request to the token endpoint
\* carries a rotated refresh token, with any number of processes refreshing,
\* saving, syncing and answering 401s at once.
THEOREM CurrentTokenSent == Spec => []RequestCarriesCurrentToken
<1>1. Inv => RequestCarriesCurrentToken
  BY DEF Inv, Safe, Current, RequestCarriesCurrentToken
<1> QED
  BY <1>1, Invariance, PTL

\* Until then nothing takes the account away from the user.
THEOREM NeverDisabled == Spec => []DisabledOnlyWithCause
<1>1. Inv => DisabledOnlyWithCause
  BY DEF Inv, Safe, Ordered, Copies, DisabledOnlyWithCause
<1> QED
  BY <1>1, Invariance, PTL

\* Until then the server's current refresh token is in the file, or with a
\* process that holds the lock and is about to write it there.
THEOREM TokenSurvives == Spec => []CurrentTokenSurvives
<1>1. Inv => CurrentTokenSurvives
  BY DEF Inv, Safe, Current, Locked, Critical, CurrentTokenSurvives,
     HasUnsavedTokens
<1> QED
  BY <1>1, Invariance, PTL

\* Until then no save, of whatever process and however long it has been
\* under way, replaces the refresh token in the file by an older one.
THEOREM DiskMovesForward == Spec => DiskGoesBackOnlyWithCause
<1>1. Inv /\ [Next]_vars /\ blame' = NoCause => disk'.rt >= disk.rt
  <2> SUFFICES ASSUME Inv, [Next]_vars, blame' = NoCause
               PROVE  disk'.rt >= disk.rt
    OBVIOUS
  <2>1. Typed /\ Safe /\ NothingToBlame
    BY NotBlamed DEF Inv, NothingToBlame
  <2>2. disk \in Copies /\ disk.rt \in Nat /\ disk.upd \in Nat
    BY <2>1 DEF Typed, TypeOK, Copies, Account
  <2>3. ASSUME NEW p \in Proc, NEW k \in SaveKind, SaveWrite(p, k)
        PROVE  disk'.rt >= disk.rt
    BY <2>1, <2>2, <2>3
       DEF SaveWrite, NothingToBlame, Safe, WritesMerged, Ordered, Copies
  <2>4. disk' = disk => disk'.rt >= disk.rt
    BY <2>2
  <2> QED
    BY ZenonT(40), <2>3, <2>4 DEF Next, vars, StartRefresh, RefreshStep, TakeLock, LockBusy,
       ReadDisk, ServerRotates, ServerRefuses, RequestFails, AnswerLost,
       TakeAnswer, ReleaseLock, Retry, SaveStep, SavePrepare, SaveMerge,
       SaveFails, StartSave, SyncFromDisk, AuthFailed, LeaseLapses, Crash,
       TokenAges, storeVars
<1>2. Inv /\ [Next]_vars => [blame' = NoCause => disk'.rt >= disk.rt]_vars
  BY <1>1
<1> QED
  BY <1>2, Invariance, PTL DEF Spec, DiskGoesBackOnlyWithCause
==============================================================================
