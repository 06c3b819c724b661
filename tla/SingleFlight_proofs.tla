-------------------------- MODULE SingleFlight_proofs --------------------------
(***************************************************************************)
(* Theorems about SingleFlight, for every set of requests and every bound. *)
(***************************************************************************)
EXTENDS SingleFlight, TLAPS

\* refreshInFlight has an entry exactly while there is a refresh, and it is
\* that refresh.
EntryIsActive == \A s \in Slot : flight[s].stage # "none" <=> inFlight = s

\* Whoever awaits a refresh awaits the one in refreshInFlight.
WaitersOnEntry ==
    \A c \in Caller : caller[c].pc \in {"joined", "behindIdle"} =>
        inFlight \in Slot /\ caller[c].flight = inFlight

IInv == TypeOK /\ EntryIsActive /\ WaitersOnEntry

USE DEF Manager, Gen, Call, CallerState

LEMMA InitIInv == Init => IInv
<1> SUFFICES ASSUME Init PROVE IInv
  OBVIOUS
<1>1. First \in Account /\ NoCall \in Call /\ NoCaller \in CallerState
  BY BoundsOK DEF First, Account, NoCall, NoCaller
<1>2. TypeOK
  BY <1>1, BoundsOK DEF Init, TypeOK
<1> QED
  BY <1>2, SlotsOK DEF Init, IInv, EntryIsActive, WaitersOnEntry, NoCall, NoCaller

(***************************************************************************)
(* The call of the single flight and the end of a refresh, which every     *)
(* step that changes refreshInFlight goes through.                         *)
(***************************************************************************)
Kept ==
    /\ flight' \in [Slot -> Call]
    /\ inFlight' \in Slot \cup {NoFlight}
    /\ caller' \in [Caller -> CallerState]
    /\ EntryIsActive'
    /\ WaitersOnEntry'

LEMMA EnterKeeps ==
    ASSUME IInv, NEW c \in Caller, NEW asked \in CallerState, Enter(c, asked)
    PROVE  Kept
<1> USE DEF IInv, TypeOK
<1>1. CASE inFlight = NoFlight
  <2> DEFINE s == CHOOSE t \in Slot \ Active : TRUE
  <2>1. /\ Slot \ Active # {}
        /\ flight' = [flight EXCEPT ![s] = Started(c, asked.manager)]
        /\ inFlight' = s
        /\ caller' = [caller EXCEPT ![c] =
               [asked EXCEPT !.pc = "joined", !.flight = s]]
    BY <1>1 DEF Enter
  <2>2. s \in Slot
    BY <2>1
  <2>3. Started(c, asked.manager) \in Call /\ Started(c, asked.manager).stage # "none"
    BY BoundsOK DEF Started, NoCall, Source
  <2>4. \A t \in Slot : flight[t].stage = "none"
    BY <1>1, SlotsOK DEF EntryIsActive
  <2>5. EntryIsActive'
    BY <2>1, <2>2, <2>3, <2>4 DEF EntryIsActive
  <2>6. \A d \in Caller : caller[d].pc \notin {"joined", "behindIdle"}
    BY <1>1, SlotsOK DEF WaitersOnEntry
  <2>7. WaitersOnEntry'
    BY <2>1, <2>2, <2>6 DEF WaitersOnEntry
  <2> QED
    BY <2>1, <2>2, <2>3, <2>5, <2>7 DEF Kept
<1>2. CASE inFlight # NoFlight
  <2>1. UNCHANGED <<flight, inFlight>> /\ inFlight \in Slot
    BY <1>2 DEF Enter
  <2>2. PICK label \in {"behindIdle", "joined"} : caller' = [caller EXCEPT ![c] =
           [asked EXCEPT !.pc = label, !.flight = inFlight]]
    BY <1>2 DEF Enter
  <2>3. [asked EXCEPT !.pc = label, !.flight = inFlight] \in CallerState
    BY <2>1
  <2>4. caller' \in [Caller -> CallerState]
    BY <2>2, <2>3
  <2>5. EntryIsActive'
    BY <2>1 DEF EntryIsActive
  <2>6. WaitersOnEntry'
    BY <2>1, <2>2 DEF WaitersOnEntry
  <2> QED
    BY <2>1, <2>4, <2>5, <2>6 DEF Kept
<1> QED
  BY <1>1, <1>2

Result == {"none", "ok", "transient", "refused"}

LEMMA EndKeeps ==
    ASSUME IInv, NEW s \in Slot, flight[s].stage # "none",
           NEW result \in Result, NEW objects \in [Manager -> Account],
           End(s, result, objects)
    PROVE  Kept /\ auth' \in [Manager -> Account]
<1> USE DEF IInv, TypeOK
<1> DEFINE joined == {c \in Caller :
                         caller[c].pc = "joined" /\ caller[c].flight = s}
           behind == {c \in Caller :
                         caller[c].pc = "behindIdle" /\ caller[c].flight = s}
           givingUp == {c \in joined : GivesUp(c, result)}
<1>1. inFlight = s
  BY DEF EntryIsActive
<1>2. \A c \in Caller \ (joined \cup behind) :
         caller[c].pc \notin {"joined", "behindIdle"}
  BY <1>1 DEF WaitersOnEntry
<1>3. auth' \in [Manager -> Account]
  <2>1. auth' = [m \in Manager |-> [objects[m] EXCEPT
                   !.enabled = @ /\ \A c \in givingUp : caller[c].manager # m]]
    BY DEF End
  <2>2. ASSUME NEW m \in Manager, NEW flag \in BOOLEAN
        PROVE  [objects[m] EXCEPT !.enabled = flag] \in Account
    BY DEF Account
  <2>3. ASSUME NEW m \in Manager
        PROVE  (objects[m].enabled /\ \A c \in givingUp : caller[c].manager # m)
                  \in BOOLEAN
    OBVIOUS
  <2> QED
    BY Zenon, <2>1, <2>2, <2>3
<1>4. PICK unserved \in SUBSET behind :
         /\ \/ /\ unserved = {}
               /\ flight' = [flight EXCEPT ![s] = NoCall]
            \/ \E c \in unserved : flight' =
                  [flight EXCEPT ![s] = Started(c, caller[c].manager)]
         /\ inFlight' = EntryAfter(s, unserved)
         /\ caller' = [c \in Caller |->
               CASE c \in joined   -> AfterResult(caller[c], result)
                 [] c \in unserved -> [caller[c] EXCEPT !.pc = "joined"]
                 [] c \in behind \ unserved -> NoCaller
                 [] OTHER          -> caller[c]]
  BY DEF End
<1>5. joined \cap behind = {}
  OBVIOUS
<1>6. ASSUME NEW c \in Caller
      PROVE  /\ AfterResult(caller[c], result) \in CallerState
             /\ AfterResult(caller[c], result).pc \notin {"joined", "behindIdle"}
             /\ NoCaller \in CallerState /\ NoCaller.pc = "none"
  <2>1. NoCaller \in CallerState /\ NoCaller.pc = "none"
    BY BoundsOK DEF NoCaller
  <2>2. caller[c] \in CallerState
    OBVIOUS
  <2>3. /\ [caller[c] EXCEPT !.pc = "readDisk", !.flight = NoFlight]
              \in CallerState
        /\ [caller[c] EXCEPT !.pc = "readDisk", !.flight = NoFlight].pc
              = "readDisk"
    BY <2>2
  <2> QED
    BY <2>1, <2>3 DEF AfterResult
<1>7. ASSUME NEW c \in Caller
      PROVE  /\ caller'[c] \in CallerState
             /\ c \notin unserved =>
                   caller'[c].pc \notin {"joined", "behindIdle"}
  <2>1. CASE c \in joined
    BY <1>4, <1>6, <2>1
  <2>2. CASE c \in unserved
    <3>1. caller'[c] = [caller[c] EXCEPT !.pc = "joined"]
      BY <1>4, <1>5, <2>2
    <3>2. caller[c] \in CallerState
      OBVIOUS
    <3> QED
      BY <2>2, <3>1, <3>2
  <2>3. CASE c \in behind \ unserved
    BY <1>4, <1>5, <1>6, <2>3
  <2>4. CASE c \notin joined \cup behind
    <3>1. caller'[c] = caller[c]
      BY <1>4, <2>4
    <3> QED
      BY <1>2, <2>4, <3>1
  <2> QED
    BY <2>1, <2>2, <2>3, <2>4
<1>8. caller' \in [Caller -> CallerState]
  <2>1. DOMAIN caller' = Caller /\ caller' = [c \in Caller |-> caller'[c]]
    BY <1>4
  <2> QED
    BY <1>7, <2>1
<1>9. \A c \in unserved : caller'[c].flight = s
  BY <1>4, <1>5
<1>10. CASE unserved = {}
  <2>1. flight' = [flight EXCEPT ![s] = NoCall] /\ inFlight' = NoFlight
    BY <1>4, <1>10 DEF EntryAfter
  <2>2. NoCall \in Call /\ NoCall.stage = "none"
    BY BoundsOK DEF NoCall
  <2>3. EntryIsActive'
    BY <1>1, <2>1, <2>2, SlotsOK DEF EntryIsActive
  <2> QED
    BY <1>3, <1>7, <1>8, <1>10, <2>1, <2>2, <2>3 DEF Kept, WaitersOnEntry
<1>11. CASE unserved # {}
  <2>1. PICK c \in unserved : flight' =
           [flight EXCEPT ![s] = Started(c, caller[c].manager)]
    BY <1>4, <1>11
  <2>2. inFlight' = s
    BY <1>4, <1>11 DEF EntryAfter
  <2>3. c \in Caller
    BY <1>4
  <2>4. /\ Started(c, caller[c].manager) \in Call
        /\ Started(c, caller[c].manager).stage # "none"
    BY <2>3, BoundsOK DEF Started, NoCall, Source
  <2>5. EntryIsActive'
    BY <1>1, <2>1, <2>2, <2>4 DEF EntryIsActive
  <2> QED
    BY <1>3, <1>7, <1>8, <1>9, <2>1, <2>2, <2>4, <2>5 DEF Kept, WaitersOnEntry
<1> QED
  BY <1>10, <1>11

(***************************************************************************)
(* Merging with the file keeps an account an account.                      *)
(***************************************************************************)
LEMMA AuthTypes ==
    ASSUME TypeOK, NEW a \in Account
    PROVE  /\ Freshest(a) \in Account
           /\ \A expired \in BOOLEAN : Adopted(a, expired) \in Account
           /\ Adopted(a, FALSE).rt \in Gen
<1>1. ASSUME NEW stamp \in Nat, NEW flag \in BOOLEAN
      PROVE  /\ [disk EXCEPT !.enabled = flag] \in Account
             /\ [disk EXCEPT !.upd = stamp, !.enabled = flag] \in Account
  BY DEF TypeOK, Account
<1>2. a.upd \in Nat /\ disk.upd \in Nat /\ a.enabled \in BOOLEAN
  BY DEF TypeOK, Account
<1>3. Freshest(a) \in Account
  BY <1>1, <1>2 DEF Freshest
<1>4. \A expired \in BOOLEAN : Adopted(a, expired) \in Account
  BY <1>1, <1>2 DEF Adopted
<1> QED
  BY <1>3, <1>4 DEF Account

(***************************************************************************)
(* Steps that leave the refreshes and their callers alone.                 *)
(***************************************************************************)
LEMMA UnchangedKeeps ==
    ASSUME IInv, UNCHANGED <<flight, inFlight, caller>>
    PROVE  Kept
BY DEF IInv, TypeOK, Kept, EntryIsActive, WaitersOnEntry

\* What is left of TypeOK.
StoreTypes ==
    /\ auth \in [Manager -> Account]
    /\ current \in Manager
    /\ disk \in Account
    /\ issued \in Gen
    /\ now \in Nat
    /\ freshFrom \in 1 .. MaxGen + 1
    /\ events \in Nat
    /\ cause \in Causes \cup {NoCause}

LEMMA AskedType ==
    ASSUME NEW m \in Manager, NEW tries \in {1, 2},
           NEW attempted \in Gen \cup {0}
    PROVE  Asked(m, tries, attempted) \in CallerState
<1>1. NoCaller \in CallerState
  BY BoundsOK DEF NoCaller
<1>2. tries \in 0..2
  OBVIOUS
<1>3. /\ [NoCaller EXCEPT !.manager = m] \in CallerState
      /\ \A c \in CallerState : [c EXCEPT !.tries = tries] \in CallerState
      /\ \A c \in CallerState : [c EXCEPT !.attempted = attempted] \in CallerState
  BY <1>1, <1>2
<1> QED
  BY <1>3 DEF Asked

LEMMA CallersKeep ==
    ASSUME IInv, (\E c \in Request : Ask(c)) \/ AskIdle
                    \/ (\E c \in Caller : AskAgain(c))
    PROVE  Kept /\ StoreTypes'
<1> USE DEF IInv, TypeOK
<1>1. Asked(current, 1, auth[current].rt) \in CallerState
  <2>1. current \in Manager /\ auth[current].rt \in Gen \cup {0}
    BY DEF Account
  <2> QED
    BY <2>1, AskedType
<1>2. ASSUME NEW c \in Request, Ask(c) PROVE Kept /\ StoreTypes'
  <2>1. Kept
    BY <1>1, <1>2, EnterKeeps DEF Ask, Caller
  <2> QED
    BY <1>2, <2>1 DEF Ask, StoreTypes
<1>3. CASE AskIdle
  <2>1. Kept
    BY <1>1, <1>3, EnterKeeps DEF AskIdle, Caller
  <2> QED
    BY <1>3, <2>1 DEF AskIdle, StoreTypes
<1>4. ASSUME NEW c \in Caller, AskAgain(c) PROVE Kept /\ StoreTypes'
  <2>1. caller[c].manager \in Manager /\ caller[c].attempted \in Gen \cup {0}
    OBVIOUS
  <2>2. Asked(caller[c].manager, 2, caller[c].attempted) \in CallerState
    BY <2>1, AskedType
  <2>3. Kept
    BY <1>4, <2>2, EnterKeeps DEF AskAgain
  <2>4. auth' \in [Manager -> Account]
    <3> DEFINE m == caller[c].manager
    <3>1. [auth[m] EXCEPT !.rt = disk.rt, !.upd = disk.upd] \in Account
      BY <2>1 DEF Account
    <3>2. \/ UNCHANGED auth
          \/ auth' = [auth EXCEPT ![m] =
                         [auth[m] EXCEPT !.rt = disk.rt, !.upd = disk.upd]]
      BY <1>4, <2>1 DEF AskAgain
    <3> QED
      BY <2>1, <3>1, <3>2
  <2> QED
    BY <1>4, <2>3, <2>4 DEF AskAgain, StoreTypes
<1> QED
  BY <1>2, <1>3, <1>4

(***************************************************************************)
(* A step of a refresh.                                                    *)
(***************************************************************************)
LEMMA EndStep ==
    ASSUME IInv, NEW s \in Slot, LockBusy(s) \/ Release(s)
    PROVE  Kept /\ StoreTypes'
<1> USE DEF IInv, TypeOK
<1>1. CASE LockBusy(s)
  <2> DEFINE m == flight[s].manager
  <2>1. m \in Manager /\ auth[m] \in Account
    OBVIOUS
  <2>2. PICK expired \in BOOLEAN :
           LET found == Adopted(auth[m], expired)
               ok == Adopts(auth[m], expired) /\ IsFresh(found)
           IN  End(s, IF ok THEN "ok" ELSE "transient",
                   [auth EXCEPT ![m] = found])
    BY <1>1 DEF LockBusy, IsFresh
  <2>3. [auth EXCEPT ![m] = Adopted(auth[m], expired)] \in [Manager -> Account]
    BY <2>1, AuthTypes
  <2>4. PICK result \in Result :
           End(s, result, [auth EXCEPT ![m] = Adopted(auth[m], expired)])
    BY <2>2 DEF Result
  <2>5. flight[s].stage # "none"
    BY <1>1 DEF LockBusy
  <2>6. Kept /\ auth' \in [Manager -> Account]
    BY <2>3, <2>4, <2>5, EndKeeps
  <2> QED
    BY <1>1, <2>6 DEF LockBusy, StoreTypes
<1>2. CASE Release(s)
  <2>1. flight[s].stage # "none" /\ flight[s].result \in Result
        /\ End(s, flight[s].result, auth)
    BY <1>2 DEF Release, Result
  <2>2. Kept /\ auth' \in [Manager -> Account]
    BY <2>1, EndKeeps
  <2> QED
    BY <1>2, <2>2 DEF Release, StoreTypes
<1> QED
  BY <1>1, <1>2

UnderWay(call) == call \in Call /\ call.stage # "none"

LEMMA CallTypes ==
    ASSUME TypeOK, NEW s \in Slot
    PROVE  /\ UnderWay([flight[s] EXCEPT !.stage = "readDisk"])
           /\ UnderWay([flight[s] EXCEPT !.stage = "persist", !.sent = 0])
           /\ UnderWay([flight[s] EXCEPT !.stage = "release",
                                         !.result = "ok"])
           /\ \A token \in Gen :
                 UnderWay([flight[s] EXCEPT !.stage = "calling",
                                            !.sent = token])
           /\ \A result \in Result :
                 UnderWay([flight[s] EXCEPT !.stage = "release", !.sent = 0,
                                            !.result = result])
<1>1. flight[s] \in Call
  BY DEF TypeOK
<1> QED
  BY <1>1 DEF Result, UnderWay

LEMMA StageKeeps ==
    ASSUME IInv, NEW s \in Slot, NEW call, UnderWay(call),
           flight[s].stage # "none",
           flight' = [flight EXCEPT ![s] = call], UNCHANGED shared
    PROVE  Kept
<1>1. /\ flight' \in [Slot -> Call]
      /\ \A t \in Slot : flight'[t].stage # "none" <=> flight[t].stage # "none"
  BY DEF IInv, TypeOK, UnderWay
<1> QED
  BY <1>1 DEF IInv, TypeOK, Kept, EntryIsActive, WaitersOnEntry, shared

LEMMA SavesTypes ==
    ASSUME TypeOK, NEW m \in Manager, SavesManager(m)
    PROVE  auth' \in [Manager -> Account] /\ disk' \in Account
<1>1. Freshest(auth[m]) \in Account
  BY AuthTypes DEF TypeOK
<1> QED
  BY <1>1 DEF SavesManager, TypeOK

LEMMA MiddleStep ==
    ASSUME IInv, NEW s \in Slot, FlightStep(s), ~LockBusy(s), ~Release(s)
    PROVE  Kept /\ StoreTypes'
<1> USE DEF IInv, TypeOK
<1>1. ASSUME NEW result \in Result, Releases(s, result),
             flight[s].stage # "none", UNCHANGED shared
      PROVE  Kept
  <2> DEFINE call == [flight[s] EXCEPT !.stage = "release", !.sent = 0,
                                       !.result = result]
  <2>1. UnderWay(call)
    BY CallTypes
  <2>2. flight' = [flight EXCEPT ![s] = call]
    BY <1>1 DEF Releases
  <2> HIDE DEF call, IInv
  <2> QED
    BY <1>1, <2>1, <2>2, StageKeeps
<1>2. flight[s].manager \in Manager
  OBVIOUS
<1>3. CASE TakeLock(s)
  <2> DEFINE call == [flight[s] EXCEPT !.stage = "readDisk"]
  <2>1. UnderWay(call)
    BY CallTypes
  <2>2. /\ flight[s].stage # "none" /\ UNCHANGED shared
        /\ flight' = [flight EXCEPT ![s] = call]
    BY <1>3 DEF TakeLock
  <2>3. Kept
    <3> HIDE DEF call, IInv
    <3> QED
      BY <2>1, <2>2, StageKeeps
  <2> QED
    BY <1>3, <2>3 DEF TakeLock, StoreTypes
<1>4. CASE ReadDisk(s)
  <2> DEFINE found == Adopted(auth[flight[s].manager], FALSE)
             done == [flight[s] EXCEPT !.stage = "release", !.result = "ok"]
             asks == [flight[s] EXCEPT !.stage = "calling", !.sent = found.rt]
  <2>1. found \in Account /\ found.rt \in Gen
    BY <1>2, AuthTypes
  <2>2. UnderWay(done) /\ UnderWay(asks)
    BY <2>1, CallTypes
  <2>3. /\ flight[s].stage # "none" /\ UNCHANGED shared
        /\ \/ flight' = [flight EXCEPT ![s] = done]
           \/ flight' = [flight EXCEPT ![s] = asks]
    BY <1>4 DEF ReadDisk
  <2>4. Kept
    <3> HIDE DEF done, asks, IInv
    <3> QED
      BY <2>2, <2>3, StageKeeps
  <2>5. auth' \in [Manager -> Account]
    BY <1>4, <2>1 DEF ReadDisk
  <2> QED
    BY <1>4, <2>4, <2>5 DEF ReadDisk, StoreTypes
<1>5. CASE Rotates(s)
  <2> DEFINE m == flight[s].manager
             call == [flight[s] EXCEPT !.stage = "persist", !.sent = 0]
  <2>1. UnderWay(call)
    BY CallTypes
  <2>2. /\ flight[s].stage # "none" /\ UNCHANGED shared
        /\ flight' = [flight EXCEPT ![s] = call]
    BY <1>5 DEF Rotates
  <2>3. Kept
    <3> HIDE DEF call, IInv
    <3> QED
      BY <2>1, <2>2, StageKeeps
  <2>4. issued + 1 \in Gen /\ now + 1 \in Nat
    BY SMTT(20), <1>5, BoundsOK DEF Rotates
  <2>5. auth' = [auth EXCEPT ![m] = [auth[m] EXCEPT
           !.rt = issued + 1, !.access = issued + 1, !.upd = now + 1]]
    BY <1>5 DEF Rotates
  <2>6. [auth[m] EXCEPT !.rt = issued + 1, !.access = issued + 1,
                        !.upd = now + 1] \in Account
    BY <1>2, <2>4 DEF Account
  <2> QED
    BY <1>5, <2>3, <2>4, <2>5, <2>6 DEF Rotates, StoreTypes
<1>6. CASE Refused(s)
  <2>1. Kept
    BY <1>1, <1>6 DEF Refused, Result
  <2> QED
    BY <1>6, <2>1 DEF Refused, StoreTypes
<1>7. CASE CallFails(s)
  <2>1. Kept
    BY <1>1, <1>7 DEF CallFails, Result
  <2>2. issued' \in Gen /\ events' \in Nat /\ cause' \in Causes \cup {NoCause}
    BY <1>7, BoundsOK DEF CallFails, Event, Blame, Causes
  <2> QED
    BY <1>7, <2>1, <2>2 DEF CallFails, StoreTypes
<1>8. CASE Persist(s)
  <2>1. Kept
    BY <1>1, <1>8 DEF Persist, Result
  <2>2. auth' \in [Manager -> Account] /\ disk' \in Account
    BY <1>8, SavesTypes DEF Persist
  <2>3. cause' \in Causes \cup {NoCause}
    BY <1>8 DEF Persist, Blame, Causes
  <2> QED
    BY <1>8, <2>1, <2>2, <2>3 DEF Persist, StoreTypes
<1>9. CASE PersistFails(s)
  <2>1. Kept
    BY <1>1, <1>9 DEF PersistFails, Result
  <2> QED
    BY <1>9, <2>1 DEF PersistFails, Event, Blame, Causes, StoreTypes
<1> QED
  BY <1>3, <1>4, <1>5, <1>6, <1>7, <1>8, <1>9 DEF FlightStep

(***************************************************************************)
(* The steps that leave the refreshes alone.                               *)
(***************************************************************************)
LEMMA OtherStep ==
    ASSUME IInv,
           \/ Reload \/ Sync \/ OtherRefreshes \/ TokenAges
           \/ \E m \in Manager : TimerSaves(m)
    PROVE  Kept /\ StoreTypes'
<1> USE DEF IInv, TypeOK
<1>1. Kept
  <2>1. UNCHANGED <<flight, inFlight, caller>>
    BY DEF Reload, Sync, OtherRefreshes, TokenAges, TimerSaves, shared
  <2> QED
    BY <2>1, UnchangedKeeps
<1>2. CASE Reload
  <2>1. current' \in Manager
    BY <1>2, BoundsOK DEF Reload
  <2>2. auth' \in [Manager -> Account]
    BY <1>2 DEF Reload
  <2> QED
    BY <1>1, <1>2, <2>1, <2>2 DEF Reload, StoreTypes
<1>3. CASE Sync
  <2>1. [disk EXCEPT !.access = IF @ = 0 THEN auth[current].access ELSE @]
           \in Account
    BY DEF Account
  <2>2. auth' \in [Manager -> Account]
    BY <1>3, <2>1 DEF Sync
  <2> QED
    BY <1>1, <1>3, <2>2 DEF Sync, Blame, Causes, StoreTypes
<1>4. CASE OtherRefreshes
  <2>1. issued' \in Gen /\ now' \in Nat
    BY <1>4, BoundsOK DEF OtherRefreshes
  <2>2. disk' \in Account
    BY <1>4, <2>1 DEF OtherRefreshes, Account
  <2> QED
    BY <1>1, <1>4, <2>1, <2>2 DEF OtherRefreshes, StoreTypes
<1>5. CASE TokenAges
  <2>1. freshFrom' \in 1 .. MaxGen + 1
    BY <1>5, BoundsOK DEF TokenAges
  <2> QED
    BY <1>1, <1>5, <2>1 DEF TokenAges, StoreTypes
<1>6. ASSUME NEW m \in Manager, TimerSaves(m) PROVE StoreTypes'
  <2>1. auth' \in [Manager -> Account] /\ disk' \in Account
    BY <1>6, SavesTypes DEF TimerSaves
  <2> QED
    BY <1>6, <2>1 DEF TimerSaves, Event, StoreTypes
<1> QED
  BY <1>1, <1>2, <1>3, <1>4, <1>5, <1>6

LEMMA StepIInv == IInv /\ [Next]_vars => IInv'
<1> SUFFICES ASSUME IInv, [Next]_vars PROVE Kept /\ StoreTypes'
  BY DEF Kept, StoreTypes, IInv, TypeOK
<1>1. ASSUME NEW s \in Slot, FlightStep(s) PROVE Kept /\ StoreTypes'
  BY <1>1, EndStep, MiddleStep
<1>2. CASE UNCHANGED vars
  BY <1>2, UnchangedKeeps DEF vars, shared, IInv, TypeOK, StoreTypes
<1> QED
  BY <1>1, <1>2, CallersKeep, OtherStep DEF Next

THEOREM Invariance == Spec => []IInv
BY InitIInv, StepIInv, PTL DEF Spec

\* Type correctness, for every set of requests and every bound.
THEOREM TypeCorrect == Spec => []TypeOK
<1>1. IInv => TypeOK
  BY DEF IInv
<1> QED
  BY <1>1, Invariance, PTL

\* The single flight is single, however many requests join, wait behind an
\* idle refresh and try again, and whenever managers are replaced.
THEOREM SingleRefresh == Spec => []OneRefreshAtATime
<1>1. IInv => OneRefreshAtATime
  BY DEF IInv, EntryIsActive, OneRefreshAtATime, Active
<1> QED
  BY <1>1, Invariance, PTL

\* No caller is left waiting for a refresh that is over.
THEOREM NobodyForgotten == Spec => []WaitersHaveFlight
<1>1. IInv => WaitersHaveFlight
  BY DEF IInv, EntryIsActive, WaitersOnEntry, WaitersHaveFlight, Active
<1> QED
  BY <1>1, Invariance, PTL

------------------------------------------------------------------------------
(***************************************************************************)
(* Which token a refresh sends, before the first cause.  As in             *)
(* TokenRefresh the newer stamp goes with the newer token, and the         *)
(* server's token is in the file or in the account object of the one       *)
(* refresh that is about to save it, whichever manager that belongs to.    *)
(***************************************************************************)
Copies == {disk} \cup {auth[m] : m \in Manager}

Ordered ==
    /\ \A a \in Copies : a.rt <= issued /\ a.upd <= now
    /\ \A a, b \in Copies : a.upd >= b.upd => a.rt >= b.rt

IsCurrent ==
    /\ \A s \in Slot : flight[s].stage = "calling" => flight[s].sent = issued
    /\ \/ disk.rt = issued
       \/ \E s \in Slot : /\ flight[s].stage = "persist"
                          /\ auth[flight[s].manager].rt = issued

NothingRefused ==
    /\ \A s \in Slot : flight[s].result # "refused"
    /\ \A c \in Caller : caller[c].pc # "readDisk"

Safe == Ordered /\ IsCurrent /\ NothingRefused

\* Nobody works on the account object of a manager that is not there yet.
ManagersExist ==
    /\ \A s \in Slot : flight[s].manager <= current
    /\ \A c \in Caller : caller[c].manager <= current

Inv == IInv /\ ManagersExist /\ (cause = NoCause => Safe)

OldStamps ==
    {a \in Account : \E b \in Copies : a.rt = b.rt /\ a.upd = b.upd}
NewStamps ==
    {a \in Account : a.rt = issued + 1 /\ a.upd = now + 1}

LEMMA CopiesTyped ==
    ASSUME IInv
    PROVE  /\ Copies \subseteq Account /\ Copies \subseteq OldStamps
           /\ disk \in Copies /\ disk.rt \in Nat /\ issued \in Nat /\ now \in Nat
           /\ \A m \in Manager : auth[m] \in Copies
<1>1. Copies \subseteq Account /\ disk \in Account
  BY DEF IInv, TypeOK, Copies
<1>2. disk.rt \in Nat /\ issued \in Nat /\ now \in Nat
  BY <1>1 DEF IInv, TypeOK, Account
<1>3. disk \in Copies /\ \A m \in Manager : auth[m] \in Copies
  BY DEF Copies
<1>4. Copies \subseteq OldStamps
  BY <1>1 DEF OldStamps
<1> QED
  BY <1>1, <1>2, <1>3, <1>4

LEMMA CopiesMove ==
    ASSUME IInv, NEW S, OldStamps \subseteq S, disk' = disk \/ disk' \in S,
           \A m \in Manager : auth'[m] = auth[m] \/ auth'[m] \in S
    PROVE  Copies' \subseteq S
<1>1. Copies \subseteq S
  BY CopiesTyped
<1> QED
  BY <1>1 DEF Copies

LEMMA OldStampsOrdered ==
    ASSUME IInv, Ordered, Copies' \subseteq OldStamps, issued' = issued, now' = now
    PROVE  Ordered'
<1> SUFFICES ASSUME NEW a \in Copies', NEW b \in Copies'
             PROVE  /\ a.rt <= issued' /\ a.upd <= now'
                    /\ a.upd >= b.upd => a.rt >= b.rt
  BY DEF Ordered
<1>1. PICK c \in Copies : a.rt = c.rt /\ a.upd = c.upd
  BY DEF OldStamps
<1>2. PICK d \in Copies : b.rt = d.rt /\ b.upd = d.upd
  BY DEF OldStamps
<1> QED
  BY <1>1, <1>2 DEF Ordered

LEMMA NewStampsOrdered ==
    ASSUME IInv, Ordered, Copies' \subseteq OldStamps \cup NewStamps,
           issued' = issued + 1, now' = now + 1
    PROVE  Ordered'
<1> SUFFICES ASSUME NEW a \in Copies', NEW b \in Copies'
             PROVE  /\ a.rt <= issued' /\ a.upd <= now'
                    /\ a.upd >= b.upd => a.rt >= b.rt
  BY DEF Ordered
<1> DEFINE Old(x) == \E c \in Copies : x.rt = c.rt /\ x.upd = c.upd
           New(x) == x.rt = issued + 1 /\ x.upd = now + 1
<1>1. (Old(a) \/ New(a)) /\ (Old(b) \/ New(b))
  BY DEF OldStamps, NewStamps
<1>2. \A c \in Copies : c.rt \in Nat /\ c.upd \in Nat
  BY CopiesTyped DEF Account
<1>3. \A x : Old(x) => x.rt \in Nat /\ x.upd \in Nat
                       /\ x.rt <= issued /\ x.upd <= now
  BY <1>2 DEF Ordered
<1>4. issued \in Nat /\ now \in Nat
  BY CopiesTyped
<1>5. Old(a) /\ Old(b) => (a.upd >= b.upd => a.rt >= b.rt)
  BY DEF Ordered
<1> HIDE DEF Old
<1> QED
  BY <1>1, <1>3, <1>4, <1>5

\* The newer of a copy and the file is one of the two, with no older token.
LEMMA FreshestIsOld ==
    ASSUME IInv, Ordered, NEW m \in Manager
    PROVE  /\ Freshest(auth[m]) \in OldStamps
           /\ Freshest(auth[m]).rt >= auth[m].rt
           /\ Freshest(auth[m]).rt >= disk.rt
           /\ Freshest(auth[m]).rt \in {auth[m].rt, disk.rt}
<1> DEFINE a == auth[m]
<1>1. a \in Account /\ disk \in Account /\ a \in Copies /\ disk \in Copies
  BY CopiesTyped DEF IInv, TypeOK
<1>2. CASE DiskIsNewer(a)
  <2> DEFINE f == [disk EXCEPT !.enabled = a.enabled]
  <2>1. f \in Account /\ f.rt = disk.rt /\ f.upd = disk.upd
    BY <1>1 DEF Account
  <2>2. Freshest(a) = f
    BY <1>2 DEF Freshest
  <2>3. disk.rt >= a.rt /\ disk.rt >= disk.rt
    BY <1>1, <1>2 DEF Ordered, Account, DiskIsNewer
  <2> HIDE DEF f
  <2>4. f \in OldStamps
    BY <1>1, <2>1 DEF OldStamps
  <2> QED
    BY <2>1, <2>2, <2>3, <2>4
<1>3. CASE ~DiskIsNewer(a)
  <2>1. Freshest(a) = a
    BY <1>3 DEF Freshest
  <2>2. a.rt >= disk.rt /\ a.rt >= a.rt
    BY <1>1, <1>3 DEF Account, DiskIsNewer, Ordered
  <2> QED
    BY <1>1, <2>1, <2>2, CopiesTyped
<1> QED
  BY <1>2, <1>3

\* While the one refresh is not about to save, the file has the token.
LEMMA FileKnows ==
    ASSUME IInv, Safe, NEW s \in Slot, flight[s].stage \notin {"none", "persist"}
    PROVE  disk.rt = issued
BY SlotsOK DEF IInv, EntryIsActive, Safe, IsCurrent

\* Then the fallback of an expired account has nothing to take.
LEMMA AdoptedIsFreshest ==
    ASSUME IInv, Safe, NEW m \in Manager, disk.rt = issued, NEW e
    PROVE  Adopted(auth[m], e) = Freshest(auth[m])
<1>1. auth[m] \in Account /\ disk \in Account /\ auth[m] \in Copies /\ disk \in Copies
  BY CopiesTyped DEF IInv, TypeOK
<1>2. CASE DiskIsNewer(auth[m])
  <2>1. [disk EXCEPT !.upd = disk.upd, !.enabled = auth[m].enabled]
           = [disk EXCEPT !.enabled = auth[m].enabled]
    BY <1>1 DEF Account
  <2> QED
    BY <1>2, <2>1 DEF Adopted, Adopts, Freshest
<1>3. CASE ~DiskIsNewer(auth[m])
  <2>1. auth[m].rt >= disk.rt /\ auth[m].rt <= issued
    BY <1>1, <1>3 DEF Safe, Ordered, DiskIsNewer, Account
  <2>2. auth[m].rt = disk.rt
    BY <1>1, <2>1, CopiesTyped DEF Account
  <2> QED
    BY <1>3, <2>2 DEF Adopted, Adopts, Freshest
<1> QED
  BY <1>2, <1>3

\* The end of a refresh changes who is enabled, and nobody's tokens.
LEMMA EndKeepsTokens ==
    ASSUME IInv, NEW s \in Slot, flight[s].stage # "none",
           NEW result \in Result, NEW objects \in [Manager -> Account],
           End(s, result, objects)
    PROVE  /\ \A m \in Manager :
                 auth'[m].rt = objects[m].rt /\ auth'[m].upd = objects[m].upd
           /\ \A t \in Slot : /\ flight'[t].stage \in {"none", "lock"}
                              /\ flight'[t].result \in {"none", flight[t].result}
           /\ result # "refused" => \A c \in Caller :
                 caller'[c] = caller[c] \/ caller'[c].pc # "readDisk"
           /\ \A t \in Slot : flight'[t].manager
                 \in {1, flight[t].manager} \cup {caller[c].manager : c \in Caller}
           /\ \A c \in Caller : caller'[c].manager \in {1, caller[c].manager}
<1> DEFINE joined == {c \in Caller :
                         caller[c].pc = "joined" /\ caller[c].flight = s}
           givingUp == {c \in joined : GivesUp(c, result)}
           Flag(m) == objects[m].enabled /\ \A c \in givingUp : caller[c].manager # m
<1>1. auth' = [m \in Manager |-> [objects[m] EXCEPT !.enabled = Flag(m)]]
  BY DEF End
<1>2. ASSUME NEW m \in Manager
      PROVE  auth'[m].rt = objects[m].rt /\ auth'[m].upd = objects[m].upd
  <2>1. auth'[m] = [objects[m] EXCEPT !.enabled = Flag(m)]
    BY <1>1
  <2>2. objects[m] \in Account
    OBVIOUS
  <2> HIDE DEF Flag
  <2> QED
    BY <2>1, <2>2 DEF Account
<1>3. \A t \in Slot : t # s => flight[t].stage = "none"
  BY DEF IInv, EntryIsActive
<1>4. \/ flight' = [flight EXCEPT ![s] = NoCall]
      \/ \E c \in Caller :
            flight' = [flight EXCEPT ![s] = Started(c, caller[c].manager)]
  BY DEF End
<1>5. /\ NoCall.stage = "none" /\ NoCall.result = "none"
      /\ NoCall.manager = 1
      /\ \A c, m : /\ Started(c, m).stage = "lock" /\ Started(c, m).result = "none"
                   /\ Started(c, m).manager = m
  BY DEF Started, NoCall
<1>6. flight \in [Slot -> Call]
  BY DEF IInv, TypeOK
<1>7. ASSUME NEW t \in Slot
      PROVE  /\ flight'[t].stage \in {"none", "lock"}
             /\ flight'[t].result \in {"none", flight[t].result}
  <2>1. CASE t = s
    BY <1>4, <1>5, <1>6, <2>1
  <2>2. CASE t # s
    BY <1>3, <1>4, <1>6, <2>2
  <2> QED
    BY <2>1, <2>2
<1>8. ASSUME NEW c \in Caller, result # "refused"
      PROVE  caller'[c] = caller[c] \/ caller'[c].pc # "readDisk"
  <2>1. caller'[c] \in {AfterResult(caller[c], result), NoCaller, caller[c],
                        [caller[c] EXCEPT !.pc = "joined"]}
    BY DEF End
  <2>2. AfterResult(caller[c], result) = NoCaller
    BY <1>8 DEF AfterResult
  <2>3. NoCaller.pc # "readDisk"
    BY DEF NoCaller
  <2>4. [caller[c] EXCEPT !.pc = "joined"].pc # "readDisk"
    BY DEF IInv, TypeOK
  <2> QED
    BY <2>1, <2>2, <2>3, <2>4
<1>9. ASSUME NEW t \in Slot
      PROVE  flight'[t].manager
                \in {1, flight[t].manager} \cup {caller[c].manager : c \in Caller}
  <2>1. CASE t = s
    BY <1>4, <1>5, <1>6, <2>1
  <2>2. CASE t # s
    BY <1>4, <1>6, <2>2
  <2> QED
    BY <2>1, <2>2
<1>10. ASSUME NEW c \in Caller
       PROVE  caller'[c].manager \in {1, caller[c].manager}
  <2>1. caller'[c] \in {AfterResult(caller[c], result), NoCaller, caller[c],
                        [caller[c] EXCEPT !.pc = "joined"]}
    BY DEF End
  <2>2. AfterResult(caller[c], result).manager \in {1, caller[c].manager}
    BY DEF AfterResult, NoCaller, IInv, TypeOK
  <2>3. NoCaller.manager = 1
    BY DEF NoCaller
  <2>4. [caller[c] EXCEPT !.pc = "joined"].manager = caller[c].manager
    BY DEF IInv, TypeOK
  <2> QED
    BY <2>1, <2>2, <2>3, <2>4
<1> QED
  BY <1>2, <1>7, <1>8, <1>9, <1>10

LEMMA EnterMoves ==
    ASSUME IInv, NEW c \in Caller, NEW asked \in CallerState, Enter(c, asked)
    PROVE  /\ \A t \in Slot :
                 \/ flight'[t] = flight[t]
                 \/ /\ flight[t].stage = "none" /\ flight'[t].stage = "lock"
                    /\ flight'[t].result = "none"
           /\ \A d \in Caller :
                 caller'[d] = caller[d] \/ caller'[d].pc # "readDisk"
           /\ \A t \in Slot : flight'[t].manager \in {flight[t].manager, asked.manager}
           /\ \A d \in Caller :
                 caller'[d].manager \in {caller[d].manager, asked.manager}
<1>t. flight \in [Slot -> Call] /\ caller \in [Caller -> CallerState]
  BY DEF IInv, TypeOK
<1>1. CASE inFlight = NoFlight
  <2> DEFINE s == CHOOSE t \in Slot \ Active : TRUE
  <2>1. /\ Slot \ Active # {}
        /\ flight' = [flight EXCEPT ![s] = Started(c, asked.manager)]
        /\ caller' = [caller EXCEPT ![c] =
               [asked EXCEPT !.pc = "joined", !.flight = s]]
    BY <1>1 DEF Enter
  <2>2. s \in Slot /\ flight[s].stage = "none"
    BY <2>1 DEF Active
  <2>3. \A m : /\ Started(c, m).stage = "lock" /\ Started(c, m).result = "none"
               /\ Started(c, m).manager = m
    BY DEF Started, NoCall
  <2> HIDE DEF s
  <2>4. /\ [asked EXCEPT !.pc = "joined", !.flight = s].pc = "joined"
        /\ [asked EXCEPT !.pc = "joined", !.flight = s].manager = asked.manager
    OBVIOUS
  <2> QED
    BY <1>t, <2>1, <2>2, <2>3, <2>4
<1>2. CASE inFlight # NoFlight
  <2>1. PICK label \in {"behindIdle", "joined"} : caller' = [caller EXCEPT ![c] =
           [asked EXCEPT !.pc = label, !.flight = inFlight]]
    BY <1>2 DEF Enter
  <2>2. /\ [asked EXCEPT !.pc = label, !.flight = inFlight].pc = label
        /\ [asked EXCEPT !.pc = label, !.flight = inFlight].manager = asked.manager
    OBVIOUS
  <2>3. flight' = flight
    BY <1>2 DEF Enter
  <2> QED
    BY <1>t, <2>1, <2>2, <2>3
<1> QED
  BY <1>1, <1>2

\* Refreshes that get no further than the lock, while the tokens stay, leave
\* a safe state safe.
LEMMA CallersKeepSafe ==
    ASSUME IInv, Safe, UNCHANGED <<disk, issued, now, auth>>,
           \A t \in Slot :
              \/ flight'[t] = flight[t]
              \/ /\ flight[t].stage = "none" /\ flight'[t].stage = "lock"
                 /\ flight'[t].result = "none",
           \A c \in Caller : caller'[c] = caller[c] \/ caller'[c].pc # "readDisk"
    PROVE  Safe'
<1>1. Ordered'
  BY DEF Safe, Ordered, Copies
<1>2. IsCurrent'
  BY DEF Safe, IsCurrent
<1>3. NothingRefused'
  BY DEF Safe, NothingRefused
<1> QED
  BY <1>1, <1>2, <1>3 DEF Safe

LEMMA AsksKeepSafe ==
    ASSUME IInv, Safe,
           \/ \E c \in Request : Ask(c)
           \/ AskIdle
           \/ \E c \in Caller : AskAgain(c)
    PROVE  Safe'
<1>1. Asked(current, 1, auth[current].rt) \in CallerState
  BY AskedType DEF IInv, TypeOK, Account
<1>2. ASSUME NEW c \in Caller PROVE ~AskAgain(c)
  BY DEF AskAgain, Safe, NothingRefused
<1>3. PICK c \in Caller : Enter(c, Asked(current, 1, auth[current].rt))
  BY <1>2 DEF Ask, AskIdle, Caller
<1>4. UNCHANGED <<disk, issued, now, auth>>
  BY <1>2 DEF Ask, AskIdle
<1> QED
  BY <1>1, <1>3, <1>4, EnterMoves, CallersKeepSafe

LEMMA EndKeepsSafe ==
    ASSUME IInv, Safe, NEW s \in Slot, LockBusy(s) \/ Release(s)
    PROVE  Safe'
<1>t. /\ auth \in [Manager -> Account] /\ flight[s] \in Call
      /\ UNCHANGED <<disk, issued, now>>
  BY DEF IInv, TypeOK, LockBusy, Release
<1>1. disk.rt = issued
  BY FileKnows DEF LockBusy, Release
<1> DEFINE m == flight[s].manager
           merged == [auth EXCEPT ![m] = Freshest(auth[m])]
<1>2. m \in Manager
  BY <1>t
<1>3. Freshest(auth[m]) \in OldStamps
  BY <1>2, FreshestIsOld DEF Safe
<1>4. PICK result \in Result \ {"refused"}, objects \in {auth, merged} :
         End(s, result, objects)
  <2>1. CASE LockBusy(s)
    <3>1. PICK expired \in BOOLEAN :
             LET found == Adopted(auth[m], expired)
                 ok == Adopts(auth[m], expired) /\ IsFresh(found)
             IN  End(s, IF ok THEN "ok" ELSE "transient",
                     [auth EXCEPT ![m] = found])
      BY <2>1 DEF LockBusy, IsFresh
    <3>2. Adopted(auth[m], expired) = Freshest(auth[m])
      BY <1>1, <1>2, AdoptedIsFreshest
    <3>3. PICK result \in {"ok", "transient"} :
             End(s, result, [auth EXCEPT ![m] = Adopted(auth[m], expired)])
      BY <3>1
    <3> QED
      BY <3>2, <3>3 DEF Result
  <2>2. CASE Release(s)
    BY <1>t, <2>2 DEF Release, Safe, NothingRefused, Result
  <2> QED
    BY <2>1, <2>2
<1>5. objects \in [Manager -> Account]
  <2>1. merged \in [Manager -> Account]
    BY <1>t, <1>3 DEF OldStamps
  <2> QED
    BY <1>t, <2>1
<1>6. flight[s].stage # "none"
  BY DEF LockBusy, Release
<1>r. result \in Result /\ result # "refused"
  BY <1>4 DEF Result
<1> HIDE DEF merged
<1>7. /\ \A j \in Manager :
            auth'[j].rt = objects[j].rt /\ auth'[j].upd = objects[j].upd
      /\ \A t \in Slot : /\ flight'[t].stage \in {"none", "lock"}
                         /\ flight'[t].result \in {"none", flight[t].result}
      /\ \A c \in Caller : caller'[c] = caller[c] \/ caller'[c].pc # "readDisk"
  <2>1. End(s, result, objects)
    BY <1>4
  <2> QED
    BY <1>5, <1>6, <1>r, <2>1, EndKeepsTokens
<1>8. Ordered'
  <2>1. \A j \in Manager : objects[j] \in OldStamps
    <3>1. \A j \in Manager : auth[j] \in OldStamps
      BY CopiesTyped
    <3>2. \A j \in Manager : merged[j] \in OldStamps
      BY <1>t, <1>3, <3>1 DEF merged
    <3> QED
      BY <3>1, <3>2
  <2>2. auth' \in [Manager -> Account]
    BY <1>4, <1>5, <1>6, EndKeeps
  <2>3. \A j \in Manager : auth'[j] \in OldStamps
    BY <1>7, <2>1, <2>2 DEF OldStamps
  <2>4. Copies' \subseteq OldStamps
    BY <1>t, <2>3, CopiesMove
  <2> QED
    BY <1>t, <2>4, OldStampsOrdered DEF Safe
<1>9. IsCurrent'
  BY <1>t, <1>1, <1>7 DEF IsCurrent
<1>10. NothingRefused'
  BY <1>7 DEF Safe, NothingRefused
<1> QED
  BY <1>8, <1>9, <1>10 DEF Safe

LEMMA SavesKeepOrder ==
    ASSUME IInv, Safe, NEW m \in Manager, SavesManager(m),
           UNCHANGED <<issued, now>>
    PROVE  /\ Ordered'
           /\ disk'.rt >= disk.rt /\ disk'.rt >= auth[m].rt
           /\ disk'.rt <= issued /\ disk'.rt \in Nat
           /\ auth'[m].rt = disk'.rt
           /\ \A j \in Manager : j # m => auth'[j] = auth[j]
<1> DEFINE a == Freshest(auth[m])
<1>1. a \in OldStamps /\ a.rt >= auth[m].rt /\ a.rt >= disk.rt
  BY FreshestIsOld DEF Safe
<1>2. auth' = [auth EXCEPT ![m] = a] /\ disk' = a
  BY DEF SavesManager
<1>3. auth \in [Manager -> Account]
  BY DEF IInv, TypeOK
<1> HIDE DEF a
<1>4. Copies' \subseteq OldStamps
  BY <1>1, <1>2, <1>3, CopiesMove
<1>5. Ordered'
  BY <1>4, OldStampsOrdered DEF Safe
<1>6. disk'.rt <= issued /\ disk'.rt \in Nat
  BY <1>1, <1>2, CopiesTyped DEF OldStamps, Safe, Ordered, Account
<1> QED
  BY <1>1, <1>2, <1>3, <1>5, <1>6

\* What a step of a refresh that is not its end does to the others: nothing.
LEMMA OneMoves ==
    ASSUME IInv, NEW s \in Slot, NEW call, flight' = [flight EXCEPT ![s] = call]
    PROVE  flight'[s] = call /\ \A t \in Slot : t # s => flight'[t] = flight[t]
BY DEF IInv, TypeOK

LEMMA MiddleKeepsSafe ==
    ASSUME IInv, Safe, cause' = NoCause, NEW s \in Slot, FlightStep(s),
           ~LockBusy(s), ~Release(s)
    PROVE  Safe'
<1>t. /\ auth \in [Manager -> Account] /\ flight[s] \in Call
      /\ issued \in Nat /\ disk \in Account
  BY DEF IInv, TypeOK
<1>u. \A t \in Slot : t # s /\ flight[s].stage # "none" => flight[t].stage = "none"
  BY DEF IInv, EntryIsActive
<1> DEFINE m == flight[s].manager
<1>m. m \in Manager
  BY <1>t
<1>k. ASSUME UNCHANGED <<disk, auth, issued, now>> PROVE Ordered'
  BY <1>k DEF Safe, Ordered, Copies
<1>r. ASSUME NEW result \in Result, result # "refused", Releases(s, result),
             caller' = caller
      PROVE  /\ flight'[s].stage = "release"
             /\ \A t \in Slot : t # s => flight'[t] = flight[t]
             /\ NothingRefused'
  <2> DEFINE call == [flight[s] EXCEPT !.stage = "release", !.sent = 0,
                                       !.result = result]
  <2>1. call.stage = "release" /\ call.result = result
    BY <1>t
  <2>2. flight' = [flight EXCEPT ![s] = call]
    BY <1>r DEF Releases
  <2> HIDE DEF call
  <2> QED
    BY <1>r, <2>1, <2>2, OneMoves DEF Safe, NothingRefused
<1>1. CASE TakeLock(s)
  <2> DEFINE call == [flight[s] EXCEPT !.stage = "readDisk"]
  <2>1. call.stage = "readDisk" /\ call.result = flight[s].result
    BY <1>t
  <2>2. flight' = [flight EXCEPT ![s] = call] /\ flight[s].stage = "lock"
    BY <1>1 DEF TakeLock
  <2> HIDE DEF call
  <2>3. flight'[s] = call /\ \A t \in Slot : t # s => flight'[t] = flight[t]
    BY <2>2, OneMoves
  <2>4. UNCHANGED <<disk, auth, issued, now, caller>>
    BY <1>1 DEF TakeLock, shared
  <2> QED
    BY <1>k, <2>1, <2>2, <2>3, <2>4 DEF Safe, IsCurrent, NothingRefused
<1>2. CASE ReadDisk(s)
  <2> DEFINE a == Freshest(auth[m])
  <2>1. disk.rt = issued /\ flight[s].stage = "readDisk"
    BY <1>2, FileKnows DEF ReadDisk
  <2>2. Adopted(auth[m], FALSE) = a
    BY <1>m, <2>1, AdoptedIsFreshest
  <2>3. a \in OldStamps /\ a.rt >= disk.rt /\ a.rt \in Nat /\ a.rt <= issued
    <3>1. a \in OldStamps /\ a.rt >= disk.rt
      BY <1>m, FreshestIsOld DEF Safe
    <3> HIDE DEF a
    <3> QED
      BY <3>1 DEF OldStamps, Account, Safe, Ordered
  <2>4. /\ auth' = [auth EXCEPT ![m] = a]
        /\ UNCHANGED <<disk, issued, now, caller>>
    BY <1>2, <2>2 DEF ReadDisk, shared
  <2> DEFINE done == [flight[s] EXCEPT !.stage = "release", !.result = "ok"]
             asks == [flight[s] EXCEPT !.stage = "calling", !.sent = a.rt]
  <2>5. \/ flight' = [flight EXCEPT ![s] = done]
        \/ flight' = [flight EXCEPT ![s] = asks]
    BY <1>2, <2>2 DEF ReadDisk
  <2> HIDE DEF a
  <2>6. /\ done.stage = "release" /\ done.result = "ok"
        /\ asks.stage = "calling" /\ asks.sent = a.rt
        /\ asks.result = flight[s].result
    BY <1>t
  <2> HIDE DEF done, asks
  <2>7. flight'[s] \in {done, asks} /\ \A t \in Slot : t # s => flight'[t] = flight[t]
    BY <2>5, OneMoves
  <2>8. Copies' \subseteq OldStamps
    BY <1>t, <2>3, <2>4, CopiesMove
  <2>9. Ordered'
    BY <2>4, <2>8, OldStampsOrdered DEF Safe
  <2>10. a.rt = issued
    BY <1>t, <2>1, <2>3
  <2> QED
    BY <1>u, <2>1, <2>4, <2>6, <2>7, <2>9, <2>10
       DEF Safe, IsCurrent, NothingRefused
<1>3. CASE Rotates(s)
  <2> DEFINE call == [flight[s] EXCEPT !.stage = "persist", !.sent = 0]
             a == [auth[m] EXCEPT !.rt = issued + 1, !.access = issued + 1,
                                  !.upd = now + 1]
  <2>1. call.stage = "persist" /\ call.result = flight[s].result
        /\ call.manager = m
    BY <1>t
  <2>2. /\ flight' = [flight EXCEPT ![s] = call] /\ flight[s].stage = "calling"
        /\ auth' = [auth EXCEPT ![m] = a]
        /\ issued' = issued + 1 /\ now' = now + 1 /\ issued < MaxGen
        /\ UNCHANGED <<disk, caller>>
    BY <1>3 DEF Rotates, shared
  <2>3. a \in NewStamps /\ a.rt = issued + 1
    <3>1. issued + 1 \in Gen /\ now + 1 \in Nat /\ auth[m] \in Account
      BY SMTT(20), <1>t, <1>m, <2>2, BoundsOK DEF IInv, TypeOK
    <3>2. a \in Account /\ a.rt = issued + 1 /\ a.upd = now + 1
      BY <3>1 DEF Account
    <3> HIDE DEF a
    <3> QED
      BY <3>2 DEF NewStamps
  <2> HIDE DEF call, a
  <2>4. flight'[s] = call /\ \A t \in Slot : t # s => flight'[t] = flight[t]
    BY <2>2, OneMoves
  <2>5. Ordered'
    <3> DEFINE S == OldStamps \cup NewStamps
    <3>1. OldStamps \subseteq S /\ a \in S
      BY <2>3
    <3> HIDE DEF S
    <3>2. Copies' \subseteq S
      BY <1>t, <2>2, <3>1, CopiesMove
    <3> QED
      BY <2>2, <3>2, NewStampsOrdered DEF S, Safe
  <2>6. auth'[m].rt = issued'
    BY <1>t, <1>m, <2>2, <2>3
  <2> QED
    BY <1>u, <2>1, <2>2, <2>4, <2>5, <2>6 DEF Safe, IsCurrent, NothingRefused
<1>4. CASE Refused(s)
  BY <1>4 DEF Refused, Safe, IsCurrent
<1>5. CASE CallFails(s)
  <2>1. /\ UNCHANGED <<disk, auth, now, caller>>
        /\ flight[s].stage = "calling" /\ Releases(s, "transient")
    BY <1>5 DEF CallFails, shared
  <2>2. issued' = issued
    BY <1>5 DEF CallFails, Blame, NoCause
  <2>3. disk.rt = issued
    BY <2>1, FileKnows
  <2> QED
    BY <1>k, <1>r, <1>u, <2>1, <2>2, <2>3 DEF Safe, IsCurrent, Result
<1>6. CASE Persist(s)
  <2>1. current = m
    BY <1>6 DEF Persist, Blame, NoCause
  <2>2. /\ SavesManager(m) /\ UNCHANGED <<issued, now, caller>>
        /\ flight[s].stage = "persist" /\ Releases(s, "ok")
    BY <1>6, <2>1 DEF Persist, shared
  <2>3. disk.rt = issued \/ auth[m].rt = issued
    BY <1>u, <2>2 DEF Safe, IsCurrent
  <2>4. /\ Ordered' /\ disk'.rt >= disk.rt /\ disk'.rt >= auth[m].rt
        /\ disk'.rt <= issued /\ disk'.rt \in Nat
    BY <1>m, <2>2, SavesKeepOrder
  <2>5. disk'.rt = issued
    BY <1>t, <2>3, <2>4
  <2> QED
    BY <1>r, <1>u, <2>2, <2>4, <2>5 DEF Safe, IsCurrent, Result
<1>7. CASE PersistFails(s)
  BY <1>7 DEF PersistFails, Blame, NoCause
<1> QED
  BY <1>1, <1>2, <1>3, <1>4, <1>5, <1>6, <1>7 DEF FlightStep

(***************************************************************************)
(* Account objects that nobody works on yet.                               *)
(***************************************************************************)
LEMMA ManagersFromOld ==
    ASSUME IInv, ManagersExist, current' \in Nat, current' >= current,
           NEW M, \A j \in M : j \in Manager /\ j <= current,
           \A s \in Slot : flight'[s].manager \in {1, flight[s].manager} \cup M,
           \A c \in Caller : caller'[c].manager \in {1, caller[c].manager} \cup M
    PROVE  ManagersExist'
<1>1. current \in Nat \ {0}
  BY BoundsOK DEF IInv, TypeOK
<1>2. \A j \in {1} \cup M : j \in Nat /\ j <= current
  BY <1>1, BoundsOK
<1>3. \A s \in Slot : flight[s].manager \in Nat
  BY BoundsOK DEF IInv, TypeOK
<1>4. \A c \in Caller : caller[c].manager \in Nat
  BY BoundsOK DEF IInv, TypeOK
<1>5. ASSUME NEW s \in Slot PROVE flight'[s].manager <= current'
  <2>1. flight'[s].manager \in Nat /\ flight'[s].manager <= current
    BY <1>2, <1>3 DEF ManagersExist
  <2> QED
    BY <1>1, <2>1
<1>6. ASSUME NEW c \in Caller PROVE caller'[c].manager <= current'
  <2>1. caller'[c].manager \in Nat /\ caller'[c].manager <= current
    BY <1>2, <1>4 DEF ManagersExist
  <2> QED
    BY <1>1, <2>1
<1> QED
  BY <1>5, <1>6 DEF ManagersExist

LEMMA ManagersStep == IInv /\ ManagersExist /\ [Next]_vars => ManagersExist'
<1> SUFFICES ASSUME IInv, ManagersExist, [Next]_vars PROVE ManagersExist'
  OBVIOUS
<1>t. /\ current \in Manager /\ current \in Nat /\ current <= current
      /\ \A c \in Caller : caller[c].manager \in Manager
      /\ \A s \in Slot : flight[s].manager \in Manager
  BY BoundsOK DEF IInv, TypeOK
<1> DEFINE M == {current} \cup {caller[c].manager : c \in Caller}
<1>m. \A j \in M : j \in Manager /\ j <= current
  BY <1>t DEF ManagersExist
<1>1. ASSUME NEW c \in Caller, NEW j \in M, NEW tries \in {1, 2},
             NEW attempted \in Gen \cup {0},
             Enter(c, Asked(j, tries, attempted)), current' = current
      PROVE  ManagersExist'
  <2>1. /\ Asked(j, tries, attempted) \in CallerState
        /\ Asked(j, tries, attempted).manager = j
    BY <1>1, <1>m, AskedType DEF Asked, NoCaller
  <2>2. /\ \A t \in Slot : flight'[t].manager \in {flight[t].manager, j}
        /\ \A d \in Caller : caller'[d].manager \in {caller[d].manager, j}
    BY <1>1, <2>1, EnterMoves
  <2> HIDE DEF M
  <2> QED
    BY <1>1, <1>t, <1>m, <2>2, ManagersFromOld
<1>2. CASE (\E c \in Request : Ask(c)) \/ AskIdle
  <2>1. auth[current].rt \in Gen \cup {0}
    BY <1>t DEF IInv, TypeOK, Account
  <2>2. PICK c \in Caller : Enter(c, Asked(current, 1, auth[current].rt))
    BY <1>2 DEF Ask, AskIdle, Caller
  <2>3. current' = current
    BY <1>2 DEF Ask, AskIdle
  <2> QED
    BY <1>1, <2>1, <2>2, <2>3
<1>3. ASSUME NEW c \in Caller, AskAgain(c) PROVE ManagersExist'
  <2>1. caller[c].attempted \in Gen \cup {0}
    BY DEF IInv, TypeOK
  <2>2. Enter(c, Asked(caller[c].manager, 2, caller[c].attempted))
        /\ current' = current
    BY <1>3 DEF AskAgain
  <2> QED
    BY <1>1, <2>1, <2>2
<1>4. ASSUME NEW s \in Slot, LockBusy(s) \/ Release(s) PROVE ManagersExist'
  <2>1. PICK result \in Result, objects \in [Manager -> Account] :
           End(s, result, objects)
    <3>1. CASE LockBusy(s)
      <4> DEFINE m == flight[s].manager
      <4>1. m \in Manager /\ auth[m] \in Account /\ auth \in [Manager -> Account]
        BY <1>t DEF IInv, TypeOK
      <4>2. PICK expired \in BOOLEAN :
               LET found == Adopted(auth[m], expired)
                   ok == Adopts(auth[m], expired) /\ IsFresh(found)
               IN  End(s, IF ok THEN "ok" ELSE "transient",
                       [auth EXCEPT ![m] = found])
        BY <3>1 DEF LockBusy, IsFresh
      <4>3. PICK result \in {"ok", "transient"} :
               End(s, result, [auth EXCEPT ![m] = Adopted(auth[m], expired)])
        BY <4>2
      <4>4. [auth EXCEPT ![m] = Adopted(auth[m], expired)] \in [Manager -> Account]
        BY <4>1, AuthTypes DEF IInv
      <4> QED
        BY <4>3, <4>4 DEF Result
    <3>2. CASE Release(s)
      BY <3>2 DEF Release, Result, IInv, TypeOK
    <3> QED
      BY <1>4, <3>1, <3>2
  <2>2. flight[s].stage # "none" /\ current' = current
    BY <1>4 DEF LockBusy, Release
  <2>3. /\ \A t \in Slot : flight'[t].manager
              \in {1, flight[t].manager} \cup {caller[c].manager : c \in Caller}
        /\ \A c \in Caller : caller'[c].manager \in {1, caller[c].manager}
    BY <2>1, <2>2, EndKeepsTokens
  <2>4. /\ \A t \in Slot : flight'[t].manager \in {1, flight[t].manager} \cup M
        /\ \A c \in Caller : caller'[c].manager \in {1, caller[c].manager} \cup M
    BY <2>3
  <2> HIDE DEF M
  <2> QED
    BY <1>t, <1>m, <2>2, <2>4, ManagersFromOld
<1>5. ASSUME NEW s \in Slot, FlightStep(s), ~LockBusy(s), ~Release(s)
      PROVE  ManagersExist'
  <2>1. UNCHANGED <<current, caller>>
    BY <1>5 DEF FlightStep, TakeLock, ReadDisk, Rotates, Refused, CallFails,
       Persist, PersistFails, shared
  <2>0. flight[s] \in Call
    BY DEF IInv, TypeOK
  <2>2. PICK call : flight' = [flight EXCEPT ![s] = call]
                    /\ call.manager = flight[s].manager
    <3>1. CASE TakeLock(s)
      <4> DEFINE call == [flight[s] EXCEPT !.stage = "readDisk"]
      <4>1. flight' = [flight EXCEPT ![s] = call] /\ call.manager = flight[s].manager
        BY <2>0, <3>1 DEF TakeLock
      <4> QED
        BY <4>1
    <3>2. CASE ReadDisk(s)
      <4> DEFINE a == Adopted(auth[flight[s].manager], FALSE).rt
                 done == [flight[s] EXCEPT !.stage = "release", !.result = "ok"]
                 asks == [flight[s] EXCEPT !.stage = "calling", !.sent = a]
      <4>1. \/ flight' = [flight EXCEPT ![s] = done]
            \/ flight' = [flight EXCEPT ![s] = asks]
        BY <3>2 DEF ReadDisk
      <4>2. done.manager = flight[s].manager /\ asks.manager = flight[s].manager
        BY <2>0
      <4> QED
        BY <4>1, <4>2
    <3>3. CASE Rotates(s)
      <4> DEFINE call == [flight[s] EXCEPT !.stage = "persist", !.sent = 0]
      <4>1. flight' = [flight EXCEPT ![s] = call] /\ call.manager = flight[s].manager
        BY <2>0, <3>3 DEF Rotates
      <4> QED
        BY <4>1
    <3>4. ASSUME NEW result, Releases(s, result)
          PROVE  \E call : flight' = [flight EXCEPT ![s] = call]
                           /\ call.manager = flight[s].manager
      <4> DEFINE call == [flight[s] EXCEPT !.stage = "release", !.sent = 0,
                                           !.result = result]
      <4>1. flight' = [flight EXCEPT ![s] = call] /\ call.manager = flight[s].manager
        BY <2>0, <3>4 DEF Releases
      <4> QED
        BY <4>1
    <3> QED
      BY <1>5, <3>1, <3>2, <3>3, <3>4
         DEF FlightStep, Refused, CallFails, Persist, PersistFails
  <2>3. \A t \in Slot : flight'[t].manager = flight[t].manager
    BY <2>2, OneMoves
  <2> QED
    BY <2>1, <2>3 DEF ManagersExist
<1>6. CASE \/ Reload \/ Sync \/ OtherRefreshes \/ TokenAges
           \/ \E m \in Manager : TimerSaves(m)
  <2>1. UNCHANGED <<flight, caller>> /\ current' \in {current, current + 1}
    BY <1>6 DEF Reload, Sync, OtherRefreshes, TokenAges, TimerSaves, shared
  <2>2. current' \in Nat /\ current' >= current
    BY <1>t, <2>1
  <2> HIDE DEF M
  <2> QED
    BY <1>m, <2>1, <2>2, ManagersFromOld
<1>7. CASE UNCHANGED vars
  BY <1>7 DEF vars, shared, ManagersExist
<1> QED
  BY <1>2, <1>3, <1>4, <1>5, <1>6, <1>7 DEF Next

\* The steps of the process that are not a refresh's, and of other processes.
LEMMA OtherKeepsSafe ==
    ASSUME IInv, ManagersExist, Safe, cause' = NoCause,
           \/ Reload \/ Sync \/ OtherRefreshes \/ TokenAges
           \/ \E m \in Manager : TimerSaves(m)
    PROVE  Safe'
<1>t. /\ auth \in [Manager -> Account] /\ disk \in Account
      /\ current \in Manager /\ issued \in Nat /\ now \in Nat
  BY DEF IInv, TypeOK
<1>d. disk \in OldStamps /\ \A m \in Manager : auth[m] \in OldStamps
  BY CopiesTyped
<1>s. ASSUME UNCHANGED <<flight, caller>> PROVE NothingRefused'
  BY <1>s DEF Safe, NothingRefused
<1>1. CASE Reload
  <2>1. /\ auth' = [auth EXCEPT ![current + 1] = disk]
        /\ UNCHANGED <<disk, flight, caller, issued, now>>
    BY <1>1 DEF Reload, shared
  <2>2. Copies' \subseteq OldStamps
    BY <1>t, <1>d, <2>1, CopiesMove
  <2>3. Ordered'
    BY <2>1, <2>2, OldStampsOrdered DEF Safe
  <2>4. \A s \in Slot : auth'[flight[s].manager] = auth[flight[s].manager]
    <3> SUFFICES ASSUME NEW s \in Slot
                 PROVE  auth'[flight[s].manager] = auth[flight[s].manager]
      OBVIOUS
    <3>1. flight[s].manager \in Manager /\ flight[s].manager <= current
      BY DEF ManagersExist, IInv, TypeOK
    <3>2. flight[s].manager # current + 1
      BY <1>t, <3>1, BoundsOK
    <3> QED
      BY <1>t, <2>1, <3>1, <3>2
  <2> QED
    BY <1>s, <2>1, <2>3, <2>4 DEF Safe, IsCurrent
<1>2. CASE Sync
  <2> DEFINE a == [disk EXCEPT !.access = IF @ = 0 THEN auth[current].access ELSE @]
  <2>1. /\ auth' = [auth EXCEPT ![current] = a]
        /\ UNCHANGED <<disk, flight, caller, issued, now>>
    BY <1>2 DEF Sync, shared
  <2>2. ~(auth[current].rt > disk.rt)
    BY <1>2 DEF Sync, Blame, NoCause
  <2>3. a \in OldStamps /\ a.rt = disk.rt
    <3>1. auth[current].access \in Gen \cup {0}
      BY <1>t DEF Account
    <3>2. a \in Account /\ a.rt = disk.rt /\ a.upd = disk.upd
      BY <1>t, <3>1 DEF Account
    <3> HIDE DEF a
    <3> QED
      BY <3>2, CopiesTyped DEF OldStamps
  <2> HIDE DEF a
  <2>4. Copies' \subseteq OldStamps
    BY <1>t, <1>d, <2>1, <2>3, CopiesMove
  <2>5. Ordered'
    BY <2>1, <2>4, OldStampsOrdered DEF Safe
  <2>6. auth[current].rt \in Nat /\ disk.rt \in Nat
    <3>1. auth[current] \in Account /\ disk \in Account
      BY <1>t
    <3>2. auth[current].rt \in Gen /\ disk.rt \in Gen
      BY <3>1 DEF Account
    <3> QED
      BY <3>2, BoundsOK
  <2>7. auth[current].rt <= disk.rt /\ disk.rt <= issued
    BY <2>2, <2>6, CopiesTyped DEF Safe, Ordered
  <2>8. auth[current].rt = issued => disk.rt = issued
    BY <1>t, <2>6, <2>7
  <2>9. \A m \in Manager : m # current => auth'[m] = auth[m]
    BY <1>t, <2>1
  <2>10. \A s \in Slot : flight[s].manager \in Manager
    BY DEF IInv, TypeOK
  <2>11. IsCurrent'
    BY <2>1, <2>8, <2>9, <2>10 DEF Safe, IsCurrent
  <2> QED
    BY <1>s, <2>1, <2>5, <2>11 DEF Safe
<1>3. CASE OtherRefreshes
  <2> DEFINE a == [disk EXCEPT !.rt = issued + 1, !.access = issued + 1,
                               !.upd = now + 1]
  <2>1. /\ disk' = a /\ issued' = issued + 1 /\ now' = now + 1
        /\ issued < MaxGen
        /\ UNCHANGED <<auth, flight, caller>>
        /\ \A s \in Slot : ~HoldsLock(s)
    BY <1>3 DEF OtherRefreshes, shared
  <2>2. a \in NewStamps /\ a.rt = issued + 1
    <3>1. issued + 1 \in Gen /\ now + 1 \in Nat
      BY SMTT(20), <1>t, <2>1, BoundsOK DEF IInv, TypeOK
    <3>2. a \in Account /\ a.rt = issued + 1 /\ a.upd = now + 1
      BY <1>t, <3>1 DEF Account
    <3> HIDE DEF a
    <3> QED
      BY <3>2 DEF NewStamps
  <2> HIDE DEF a
  <2> DEFINE S == OldStamps \cup NewStamps
  <2>3. OldStamps \subseteq S /\ a \in S
    BY <2>2
  <2> HIDE DEF S
  <2>4. Copies' \subseteq S
    BY <2>1, <2>3, CopiesMove
  <2>5. Ordered'
    BY <2>1, <2>4, NewStampsOrdered DEF S, Safe
  <2>6. IsCurrent'
    BY <2>1, <2>2 DEF IsCurrent, HoldsLock
  <2> QED
    BY <1>s, <2>1, <2>5, <2>6 DEF Safe
<1>4. CASE TokenAges
  <2>1. UNCHANGED <<auth, disk, flight, caller, issued, now>>
    BY <1>4 DEF TokenAges, shared
  <2> QED
    BY <1>s, <2>1 DEF Safe, Ordered, Copies, IsCurrent
<1>5. ASSUME NEW m \in Manager, TimerSaves(m) PROVE Safe'
  <2>1. SavesManager(m) /\ UNCHANGED <<flight, caller, issued, now>>
    BY <1>5 DEF TimerSaves, shared
  <2>2. /\ Ordered'
        /\ disk'.rt >= disk.rt /\ disk'.rt >= auth[m].rt
        /\ disk'.rt <= issued /\ disk'.rt \in Nat
        /\ auth'[m].rt = disk'.rt
        /\ \A j \in Manager : j # m => auth'[j] = auth[j]
    BY <2>1, SavesKeepOrder
  <2>3. disk.rt = issued => disk'.rt = issued
    BY <1>t, <2>2
  <2>4. auth[m].rt = issued => disk'.rt = issued
    BY <1>t, <2>2
  <2>5. \A s \in Slot : flight[s].manager \in Manager
    BY DEF IInv, TypeOK
  <2>6. IsCurrent'
    BY <2>1, <2>2, <2>3, <2>4, <2>5 DEF Safe, IsCurrent
  <2> QED
    BY <1>s, <2>1, <2>2, <2>6 DEF Safe
<1> QED
  BY <1>1, <1>2, <1>3, <1>4, <1>5

\* A cause is never forgotten.
LEMMA NoCauseStep == [Next]_vars /\ cause' = NoCause => cause = NoCause
<1> SUFFICES ASSUME [Next]_vars, cause' = NoCause PROVE cause = NoCause
  OBVIOUS
<1>1. ASSUME NEW s \in Slot, FlightStep(s) PROVE cause = NoCause
  <2>1. \/ cause' = cause
        \/ \E reason \in Causes : \E happened \in BOOLEAN :
              cause' = IF happened /\ cause = NoCause THEN reason ELSE cause
    BY <1>1 DEF FlightStep, TakeLock, LockBusy, ReadDisk, Rotates, Refused,
       CallFails, Persist, PersistFails, Release, Causes, Blame
  <2>2. NoCause \notin Causes
    BY DEF Causes, NoCause
  <2> QED
    BY <2>1, <2>2
<1>2. CASE Sync
  BY <1>2 DEF Sync, Blame, NoCause
<1>3. CASE \/ (\E c \in Request : Ask(c)) \/ AskIdle
           \/ (\E c \in Caller : AskAgain(c))
           \/ Reload \/ OtherRefreshes \/ TokenAges
           \/ (\E m \in Manager : TimerSaves(m)) \/ UNCHANGED vars
  BY <1>3 DEF Ask, AskIdle, AskAgain, Reload, OtherRefreshes, TokenAges,
     TimerSaves, vars
<1> QED
  BY <1>1, <1>2, <1>3 DEF Next

LEMMA InitInv == Init => Inv
<1> SUFFICES ASSUME Init PROVE Inv
  OBVIOUS
<1>1. IInv
  BY InitIInv
<1>2. /\ disk.rt = 1 /\ disk.upd = 1 /\ issued = 1 /\ now = 1 /\ current = 1
      /\ \A m \in Manager : auth[m] = disk
      /\ \A s \in Slot : /\ flight[s].stage = "none" /\ flight[s].result = "none"
                          /\ flight[s].manager = 1
      /\ \A c \in Caller : caller[c].pc = "none" /\ caller[c].manager = 1
  BY DEF Init, First, NoCall, NoCaller
<1>3. ManagersExist
  BY <1>2 DEF ManagersExist
<1>4. \A a \in Copies : a = disk
  BY <1>2 DEF Copies
<1>5. Ordered
  BY <1>2, <1>4 DEF Ordered
<1>6. IsCurrent /\ NothingRefused
  BY <1>2 DEF IsCurrent, NothingRefused
<1> QED
  BY <1>1, <1>3, <1>5, <1>6 DEF Inv, Safe

LEMMA StepInv == Inv /\ [Next]_vars => Inv'
<1> SUFFICES ASSUME Inv, [Next]_vars PROVE Inv'
  OBVIOUS
<1>1. IInv' /\ ManagersExist'
  BY StepIInv, ManagersStep DEF Inv
<1>2. ASSUME cause' = NoCause PROVE Safe'
  <2>1. IInv /\ ManagersExist /\ Safe
    BY <1>2, NoCauseStep DEF Inv
  <2>2. CASE \/ (\E c \in Request : Ask(c)) \/ AskIdle
             \/ (\E c \in Caller : AskAgain(c))
    BY <2>1, <2>2, AsksKeepSafe
  <2>3. ASSUME NEW s \in Slot, FlightStep(s) PROVE Safe'
    BY <1>2, <2>1, <2>3, EndKeepsSafe, MiddleKeepsSafe
  <2>4. CASE \/ Reload \/ Sync \/ OtherRefreshes \/ TokenAges
             \/ \E m \in Manager : TimerSaves(m)
    BY <1>2, <2>1, <2>4, OtherKeepsSafe
  <2>5. CASE UNCHANGED vars
    BY <2>1, <2>5 DEF vars, shared, Safe, Ordered, Copies, IsCurrent, NothingRefused
  <2> QED
    BY <2>2, <2>3, <2>4, <2>5 DEF Next
<1> QED
  BY <1>1, <1>2 DEF Inv

(***************************************************************************)
(* Until the first cause a refresh never sends a rotated token, whichever  *)
(* caller started it on whichever manager's account object.                *)
(***************************************************************************)
THEOREM SharedTokenCurrent == Spec => []SharedRefreshIsCurrent
<1>1. Inv => SharedRefreshIsCurrent
  BY DEF Inv, Safe, IsCurrent, SharedRefreshIsCurrent
<1> QED
  BY <1>1, InitInv, StepInv, PTL DEF Spec

(***************************************************************************)
(* While the process has had one manager, a refused refresh means that the *)
(* server's token is neither in memory nor in the file, whatever causes    *)
(* there have been: a file with that token is newer than memory without    *)
(* it, so that a refresh would have sent it.                               *)
(***************************************************************************)
Gone == auth[1].rt # issued /\ disk.rt # issued

\* Nothing in memory or in the file is of later than now.
Stamped ==
    /\ disk.upd <= now /\ auth[1].upd <= now
    /\ disk.rt <= issued /\ auth[1].rt <= issued
FileLeads == disk.rt = issued /\ auth[1].rt # issued => disk.upd > auth[1].upd

\* The server refuses the call, or has refused it.
Beaten(call) == \/ call.stage = "calling" /\ call.sent # issued
                \/ call.stage = "release" /\ call.result = "refused"

Alone == Stamped /\ FileLeads /\ \A s \in Slot : Beaten(flight[s]) => Gone
AloneInv == IInv /\ ManagersExist /\ (current = 1 => Alone)

LEMMA OneManager ==
    ASSUME IInv, ManagersExist, current = 1
    PROVE  /\ 1 \in Manager
           /\ \A s \in Slot : flight[s].manager = 1
           /\ \A c \in Caller : caller[c].manager = 1
<1>1. 1 \in Manager
  BY DEF IInv, TypeOK
<1>2. ASSUME NEW m \in Manager, m <= current PROVE m = 1
  BY <1>2
<1>3. /\ \A s \in Slot : flight[s].manager \in Manager
      /\ \A c \in Caller : caller[c].manager \in Manager
  BY DEF IInv, TypeOK
<1> QED
  BY <1>1, <1>2, <1>3 DEF ManagersExist

LEMMA StampTypes ==
    ASSUME IInv, 1 \in Manager
    PROVE  /\ auth[1] \in Account /\ disk \in Account
           /\ auth[1].upd \in Nat /\ disk.upd \in Nat
           /\ issued \in Nat /\ now \in Nat
           /\ auth[1].enabled \in BOOLEAN
BY DEF IInv, TypeOK, Account

\* Tokens are only copied, between memory and file.
Copied ==
    /\ UNCHANGED <<issued, now>>
    /\ \/ /\ UNCHANGED disk
          /\ auth'[1].rt = auth[1].rt /\ auth'[1].upd = auth[1].upd
       \/ /\ auth'[1].rt = disk'.rt
          /\ disk'.rt \in {disk.rt, auth[1].rt}
          /\ {disk'.upd, auth'[1].upd} \subseteq {disk.upd, auth[1].upd}

LEMMA CopiedKeeps ==
    ASSUME Stamped, FileLeads, Copied
    PROVE  Stamped' /\ FileLeads' /\ (Gone => Gone')
<1>1. CASE /\ UNCHANGED disk
           /\ auth'[1].rt = auth[1].rt /\ auth'[1].upd = auth[1].upd
  BY <1>1 DEF Copied, Stamped, FileLeads, Gone
<1>2. CASE /\ auth'[1].rt = disk'.rt
           /\ disk'.rt \in {disk.rt, auth[1].rt}
           /\ {disk'.upd, auth'[1].upd} \subseteq {disk.upd, auth[1].upd}
  <2>1. disk'.upd \in {disk.upd, auth[1].upd} /\ auth'[1].upd \in {disk.upd, auth[1].upd}
    BY <1>2
  <2> QED
    BY <1>2, <2>1 DEF Copied, Stamped, FileLeads, Gone
<1> QED
  BY <1>1, <1>2 DEF Copied

LEMMA CopiedAlone ==
    ASSUME Alone, Copied, \A s \in Slot : Beaten(flight[s])' => Beaten(flight[s])
    PROVE  Alone'
BY CopiedKeeps DEF Alone

\* What applyDiskAuthIfFresher and a save take is the file's or stays.
LEMMA AdoptedCopies ==
    ASSUME NEW a \in Account, disk \in Account, NEW expired \in BOOLEAN
    PROVE  LET new == Adopted(a, expired)
           IN  /\ new.enabled = a.enabled
               /\ \/ new.rt = a.rt /\ new.upd = a.upd
                  \/ new.rt = disk.rt /\ new.upd \in {disk.upd, a.upd}
<1>1. a.enabled \in BOOLEAN
  BY DEF Account
<1>2. ASSUME NEW stamp
      PROVE  /\ [disk EXCEPT !.upd = stamp, !.enabled = a.enabled].rt = disk.rt
             /\ [disk EXCEPT !.upd = stamp, !.enabled = a.enabled].upd = stamp
             /\ [disk EXCEPT !.upd = stamp, !.enabled = a.enabled].enabled = a.enabled
  BY DEF Account
<1> QED
  BY <1>2 DEF Adopted

LEMMA FreshestCopies ==
    ASSUME NEW a \in Account, disk \in Account
    PROVE  LET new == Freshest(a)
           IN  /\ new.enabled = a.enabled
               /\ \/ new.rt = a.rt /\ new.upd = a.upd
                  \/ new.rt = disk.rt /\ new.upd = disk.upd
BY DEF Freshest, Account

LEMMA SaveCopies ==
    ASSUME IInv, 1 \in Manager, SavesManager(1), UNCHANGED <<issued, now>>
    PROVE  Copied /\ auth'[1].enabled = auth[1].enabled
<1>1. auth \in [Manager -> Account] /\ auth[1] \in Account /\ disk \in Account
  BY StampTypes DEF IInv, TypeOK
<1>2. PICK a : a = Freshest(auth[1])
  OBVIOUS
<1>3. auth'[1] = a /\ disk' = a
  BY <1>1, <1>2 DEF SavesManager
<1>4. /\ a.enabled = auth[1].enabled
      /\ \/ a.rt = auth[1].rt /\ a.upd = auth[1].upd
         \/ a.rt = disk.rt /\ a.upd = disk.upd
  BY <1>1, <1>2, FreshestCopies
<1> QED
  BY <1>3, <1>4 DEF Copied

\* The account is given up only when the token is gone.
Justified ==
    auth[1].enabled /\ ~auth'[1].enabled /\ disk.enabled => Gone

LEMMA AsksAlone ==
    ASSUME IInv, ManagersExist, current = 1, Alone,
           (\E c \in Request : Ask(c)) \/ AskIdle \/ (\E c \in Caller : AskAgain(c))
    PROVE  Alone' /\ Justified
<1>t. /\ 1 \in Manager /\ auth[1] \in Account /\ disk \in Account
      /\ auth \in [Manager -> Account]
      /\ \A c \in Caller : caller[c].manager = 1
  BY OneManager, StampTypes DEF IInv, TypeOK
<1>1. PICK c \in Caller, tries \in {1, 2}, attempted \in Gen \cup {0} :
         Enter(c, Asked(1, tries, attempted))
  <2>1. auth[1].rt \in Gen \cup {0}
    BY <1>t DEF Account
  <2>2. \A d \in Caller : caller[d].attempted \in Gen \cup {0}
    BY DEF IInv, TypeOK
  <2>3. CASE (\E d \in Request : Ask(d)) \/ AskIdle
    <3>1. PICK d \in Caller : Enter(d, Asked(current, 1, auth[current].rt))
      BY <2>3 DEF Ask, AskIdle, Caller
    <3> QED
      BY <2>1, <3>1
  <2>4. ASSUME NEW d \in Caller, AskAgain(d)
        PROVE  Enter(d, Asked(1, 2, caller[d].attempted))
    BY <1>t, <2>4 DEF AskAgain
  <2> QED
    BY <2>2, <2>3, <2>4
<1>2. Asked(1, tries, attempted) \in CallerState
  BY <1>t, AskedType
<1>3. ASSUME NEW t \in Slot
      PROVE flight'[t] = flight[t] \/ flight'[t].stage = "lock"
  BY <1>1, <1>2, EnterMoves
<1>4. UNCHANGED <<disk, issued, now>>
  BY DEF Ask, AskIdle, AskAgain
<1>5. /\ auth'[1].enabled = auth[1].enabled
      /\ \/ auth'[1] = auth[1]
         \/ auth'[1].rt = disk.rt /\ auth'[1].upd = disk.upd
  <2>1. CASE (\E d \in Request : Ask(d)) \/ AskIdle
    BY <2>1 DEF Ask, AskIdle
  <2>2. ASSUME NEW d \in Caller, AskAgain(d)
        PROVE  UNCHANGED auth \/ auth' = [auth EXCEPT ![1] =
                   [auth[1] EXCEPT !.rt = disk.rt, !.upd = disk.upd]]
    BY <1>t, <2>2 DEF AskAgain
  <2>3. PICK a : a = [auth[1] EXCEPT !.rt = disk.rt, !.upd = disk.upd]
    OBVIOUS
  <2>4. a.rt = disk.rt /\ a.upd = disk.upd /\ a.enabled = auth[1].enabled
    BY <1>t, <2>3 DEF Account
  <2> QED
    BY <1>t, <2>1, <2>2, <2>3, <2>4
<1>6. Copied
  BY <1>4, <1>5 DEF Copied
<1>7. \A t \in Slot : Beaten(flight[t])' => Beaten(flight[t])
  BY <1>3, <1>4 DEF Beaten
<1> QED
  BY <1>5, <1>6, <1>7, CopiedAlone DEF Justified

\* Only a refusal makes the end of a refresh disable an account.
LEMMA EndEnables ==
    ASSUME NEW s \in Slot, NEW result \in Result \ {"refused"},
           NEW objects \in [Manager -> Account], 1 \in Manager,
           End(s, result, objects)
    PROVE  auth'[1].enabled = objects[1].enabled
<1> DEFINE joined == {c \in Caller :
                         caller[c].pc = "joined" /\ caller[c].flight = s}
           givingUp == {c \in joined : GivesUp(c, result)}
           Flag(m) == objects[m].enabled /\ \A c \in givingUp : caller[c].manager # m
<1>1. auth' = [m \in Manager |-> [objects[m] EXCEPT !.enabled = Flag(m)]]
  BY DEF End
<1>2. givingUp = {}
  BY DEF GivesUp
<1>3. objects[1].enabled \in BOOLEAN /\ objects[1] \in Account
  BY DEF Account
<1>4. Flag(1) = objects[1].enabled
  <2> HIDE DEF givingUp
  <2>1. (\A c \in givingUp : caller[c].manager # 1) = TRUE
    BY <1>2
  <2> QED
    BY <1>3, <2>1
<1> HIDE DEF Flag
<1>5. [objects[1] EXCEPT !.enabled = Flag(1)].enabled = Flag(1)
  BY <1>3 DEF Account
<1> QED
  BY <1>1, <1>4, <1>5

LEMMA EndsAlone ==
    ASSUME IInv, ManagersExist, current = 1, Alone, NEW s \in Slot,
           LockBusy(s) \/ Release(s)
    PROVE  Alone' /\ Justified
<1>t. /\ 1 \in Manager /\ auth[1] \in Account /\ disk \in Account
      /\ auth \in [Manager -> Account] /\ flight[s].manager = 1
      /\ flight[s] \in Call
  BY OneManager, StampTypes DEF IInv, TypeOK
<1>1. /\ UNCHANGED <<disk, issued, now>> /\ flight[s].stage # "none"
  BY DEF LockBusy, Release
<1>2. PICK result \in Result, objects \in [Manager -> Account] :
         /\ End(s, result, objects)
         /\ objects[1].enabled = auth[1].enabled
         /\ result = "refused" => Gone
         /\ \/ objects[1].rt = auth[1].rt /\ objects[1].upd = auth[1].upd
            \/ objects[1].rt = disk.rt /\ objects[1].upd \in {disk.upd, auth[1].upd}
  <2>1. CASE LockBusy(s)
    <3>1. PICK expired \in BOOLEAN :
             LET found == Adopted(auth[1], expired)
                 ok == Adopts(auth[1], expired) /\ IsFresh(found)
             IN  End(s, IF ok THEN "ok" ELSE "transient", [auth EXCEPT ![1] = found])
      BY <1>t, <2>1 DEF LockBusy, IsFresh
    <3>2. PICK found : found = Adopted(auth[1], expired)
      OBVIOUS
    <3>3. found \in Account
      BY <1>t, <3>2, AuthTypes DEF IInv
    <3>4. /\ found.enabled = auth[1].enabled
          /\ \/ found.rt = auth[1].rt /\ found.upd = auth[1].upd
             \/ found.rt = disk.rt /\ found.upd \in {disk.upd, auth[1].upd}
      BY <1>t, <3>2, AdoptedCopies
    <3>5. PICK result \in {"ok", "transient"} :
             End(s, result, [auth EXCEPT ![1] = found])
      BY <3>1, <3>2
    <3>6. /\ [auth EXCEPT ![1] = found] \in [Manager -> Account]
          /\ [auth EXCEPT ![1] = found][1] = found
      BY <1>t, <3>3
    <3> QED
      BY <3>4, <3>5, <3>6 DEF Result
  <2>2. CASE Release(s)
    <3>1. End(s, flight[s].result, auth) /\ flight[s].stage = "release"
      BY <2>2 DEF Release
    <3>2. flight[s].result \in Result
      BY <1>t DEF Result
    <3>3. flight[s].result = "refused" => Gone
      BY <3>1 DEF Alone, Beaten
    <3> QED
      BY <1>t, <3>1, <3>2, <3>3
  <2> QED
    BY <2>1, <2>2
<1>3. /\ auth'[1].rt = objects[1].rt /\ auth'[1].upd = objects[1].upd
      /\ \A t \in Slot : flight'[t].stage \in {"none", "lock"}
  BY <1>t, <1>1, <1>2, EndKeepsTokens
<1>4. Copied
  BY <1>1, <1>2, <1>3 DEF Copied
<1>5. Alone'
  BY <1>3, <1>4, CopiedAlone DEF Beaten
<1>6. result # "refused" => auth'[1].enabled = auth[1].enabled
  BY <1>t, <1>2, EndEnables
<1> QED
  BY <1>2, <1>5, <1>6 DEF Justified

LEMMA MiddleAlone ==
    ASSUME IInv, ManagersExist, current = 1, Alone, NEW s \in Slot, FlightStep(s),
           ~LockBusy(s), ~Release(s)
    PROVE  Alone' /\ Justified
<1>t. /\ 1 \in Manager /\ auth[1] \in Account /\ disk \in Account
      /\ auth \in [Manager -> Account] /\ flight[s].manager = 1
      /\ flight[s] \in Call /\ issued \in Nat /\ now \in Nat
      /\ auth[1].upd \in Nat /\ disk.upd \in Nat
  BY OneManager, StampTypes DEF IInv, TypeOK
<1>u. \A t \in Slot : t # s /\ flight[s].stage # "none" => flight[t].stage = "none"
  BY DEF IInv, EntryIsActive
<1>c. ASSUME NEW call, flight' = [flight EXCEPT ![s] = call], ~Beaten(call)',
             Copied, flight[s].stage # "none"
      PROVE  Alone'
  <2>1. \A t \in Slot : ~Beaten(flight[t])'
    <3>1. flight'[s] = call /\ \A t \in Slot : t # s => flight'[t] = flight[t]
      BY <1>c, OneMoves
    <3> QED
      BY <1>c, <1>u, <3>1 DEF Beaten
  <2> QED
    BY <1>c, <2>1, CopiedAlone
<1>r. ASSUME NEW result \in Result \ {"refused"}, Releases(s, result), Copied,
             flight[s].stage # "none"
      PROVE  Alone'
  <2>1. PICK call : call = [flight[s] EXCEPT !.stage = "release", !.sent = 0,
                                             !.result = result]
    OBVIOUS
  <2>2. call.stage = "release" /\ call.result = result
    BY <1>t, <2>1
  <2>3. flight' = [flight EXCEPT ![s] = call] /\ ~Beaten(call)'
    BY <1>r, <2>1, <2>2 DEF Releases, Beaten
  <2> QED
    BY <1>c, <1>r, <2>3
<1>s. ASSUME UNCHANGED auth PROVE Justified
  BY <1>s DEF Justified
<1>1. CASE TakeLock(s)
  <2>1. PICK call : call = [flight[s] EXCEPT !.stage = "readDisk"]
    OBVIOUS
  <2>2. call.stage = "readDisk"
    BY <1>t, <2>1
  <2>3. /\ flight' = [flight EXCEPT ![s] = call] /\ flight[s].stage = "lock"
        /\ UNCHANGED <<auth, disk, issued, now>>
    BY <1>1, <2>1 DEF TakeLock
  <2>4. ~Beaten(call)' /\ Copied
    BY <2>2, <2>3 DEF Beaten, Copied
  <2> QED
    BY <1>c, <1>s, <2>3, <2>4
<1>2. CASE ReadDisk(s)
  <2>1. PICK found : found = Adopted(auth[1], FALSE)
    OBVIOUS
  <2>2. /\ found.enabled = auth[1].enabled
        /\ \/ found.rt = auth[1].rt /\ found.upd = auth[1].upd
           \/ found.rt = disk.rt /\ found.upd \in {disk.upd, auth[1].upd}
    BY <1>t, <2>1, AdoptedCopies
  <2>3. PICK done, asks :
           /\ done = [flight[s] EXCEPT !.stage = "release", !.result = "ok"]
           /\ asks = [flight[s] EXCEPT !.stage = "calling", !.sent = found.rt]
    OBVIOUS
  <2>4. /\ done.stage = "release" /\ done.result = "ok"
        /\ asks.stage = "calling" /\ asks.sent = found.rt
    BY <1>t, <2>3
  <2>5. /\ auth' = [auth EXCEPT ![1] = found]
        /\ UNCHANGED <<disk, issued, now>> /\ flight[s].stage = "readDisk"
        /\ \/ flight' = [flight EXCEPT ![s] = done]
           \/ flight' = [flight EXCEPT ![s] = asks]
    BY <1>2, <1>t, <2>1, <2>3 DEF ReadDisk
  <2>6. auth'[1] = found
    BY <1>t, <2>5
  <2>7. Copied
    BY <2>2, <2>5, <2>6 DEF Copied
  <2>8. Justified
    BY <2>2, <2>6 DEF Justified
  <2>9. ~Beaten(done)'
    BY <2>4 DEF Beaten
  <2>10. CASE found.rt = issued
    <3>1. ~Beaten(asks)'
      BY <2>4, <2>5, <2>10 DEF Beaten
    <3> QED
      BY <1>c, <2>5, <2>7, <2>8, <2>9, <3>1
  <2>11. CASE found.rt # issued
    <3>1. disk.rt # issued
      <4>1. CASE DiskIsNewer(auth[1])
        <5>1. found.rt = disk.rt
          BY <1>t, <2>1, <4>1 DEF Adopted, Adopts, Account
        <5> QED
          BY <2>11, <5>1
      <4>2. CASE ~DiskIsNewer(auth[1])
        <5>1. found = auth[1]
          BY <2>1, <4>2 DEF Adopted, Adopts
        <5> QED
          BY <2>11, <4>2, <5>1 DEF Alone, FileLeads, DiskIsNewer
      <4> QED
        BY <4>1, <4>2
    <3>2. Gone'
      BY <2>5, <2>6, <2>11, <3>1 DEF Gone
    <3>3. Stamped' /\ FileLeads'
      BY <2>7, CopiedKeeps DEF Alone
    <3> QED
      BY <2>8, <3>2, <3>3 DEF Alone
  <2> QED
    BY <2>10, <2>11
<1>3. CASE Rotates(s)
  <2>1. PICK call, a :
           /\ call = [flight[s] EXCEPT !.stage = "persist", !.sent = 0]
           /\ a = [auth[1] EXCEPT !.rt = issued + 1, !.access = issued + 1,
                                  !.upd = now + 1]
    OBVIOUS
  <2>2. /\ call.stage = "persist"
        /\ a.rt = issued + 1 /\ a.upd = now + 1 /\ a.enabled = auth[1].enabled
    BY <1>t, <2>1 DEF Account
  <2>3. /\ flight' = [flight EXCEPT ![s] = call] /\ flight[s].stage = "calling"
        /\ auth' = [auth EXCEPT ![1] = a]
        /\ issued' = issued + 1 /\ now' = now + 1
        /\ UNCHANGED disk
    BY <1>3, <1>t, <2>1 DEF Rotates
  <2>4. auth'[1] = a
    BY <1>t, <2>3
  <2>5. Stamped' /\ FileLeads'
    <3>1. disk.rt \in Nat /\ disk.rt <= issued /\ disk.upd <= now
      BY <1>t DEF Account, Alone, Stamped
    <3>2. /\ auth'[1].rt = issued + 1 /\ auth'[1].upd = now + 1
          /\ UNCHANGED disk /\ issued' = issued + 1 /\ now' = now + 1
      BY <2>2, <2>3, <2>4
    <3> QED
      BY <1>t, <3>1, <3>2 DEF Stamped, FileLeads
  <2>6. \A t \in Slot : ~Beaten(flight[t])'
    <3>1. flight'[s] = call /\ \A t \in Slot : t # s => flight'[t] = flight[t]
      BY <2>3, OneMoves
    <3> QED
      BY <1>u, <2>2, <2>3, <3>1 DEF Beaten
  <2> QED
    BY <2>2, <2>4, <2>5, <2>6 DEF Alone, Justified
<1>4. CASE Refused(s)
  <2>1. /\ flight[s].stage = "calling" /\ flight[s].sent # issued
        /\ UNCHANGED <<auth, disk, issued, now>>
    BY <1>4 DEF Refused
  <2>2. Gone /\ Copied
    BY <2>1 DEF Alone, Beaten, Copied
  <2>3. Stamped' /\ FileLeads' /\ Gone'
    BY <2>2, CopiedKeeps DEF Alone
  <2> QED
    BY <1>s, <2>1, <2>3 DEF Alone
<1>5. CASE CallFails(s)
  <2>1. /\ flight[s].stage = "calling" /\ Releases(s, "transient")
        /\ UNCHANGED <<auth, disk, now>>
        /\ issued' = issued \/ (issued' = issued + 1 /\ issued < MaxGen)
    BY <1>5 DEF CallFails
  <2>2. CASE issued' = issued
    <3>1. Copied
      BY <2>1, <2>2 DEF Copied
    <3> QED
      BY <1>r, <1>s, <2>1, <3>1 DEF Result
  <2>3. CASE issued' = issued + 1
    <3>1. PICK call : call = [flight[s] EXCEPT !.stage = "release", !.sent = 0,
                                               !.result = "transient"]
      OBVIOUS
    <3>2. call.stage = "release" /\ call.result = "transient"
      BY <1>t, <3>1
    <3>3. flight' = [flight EXCEPT ![s] = call]
      BY <2>1, <3>1 DEF Releases
    <3>4. flight'[s] = call /\ \A t \in Slot : t # s => flight'[t] = flight[t]
      BY <3>3, OneMoves
    <3>5. \A t \in Slot : ~Beaten(flight[t])'
      BY <1>u, <2>1, <3>2, <3>4 DEF Beaten
    <3>6. disk.rt # issued' /\ auth[1].rt <= issued' /\ disk.rt <= issued'
      <4>1. disk.rt <= issued /\ auth[1].rt <= issued
        BY DEF Alone, Stamped
      <4>2. disk.rt \in Nat /\ auth[1].rt \in Nat
        BY <1>t DEF Account
      <4> QED
        BY <1>t, <2>3, <4>1, <4>2
    <3> QED
      BY <1>s, <2>1, <3>5, <3>6 DEF Alone, Stamped, FileLeads
  <2> QED
    BY <2>1, <2>2, <2>3
<1>6. CASE Persist(s)
  <2>1. /\ SavesManager(1) /\ Releases(s, "ok") /\ flight[s].stage = "persist"
        /\ UNCHANGED <<issued, now>>
    BY <1>6 DEF Persist
  <2>2. Copied /\ Justified
    BY <1>t, <2>1, SaveCopies DEF Justified
  <2> QED
    BY <1>r, <2>1, <2>2 DEF Result
<1>7. CASE PersistFails(s)
  <2>1. /\ Releases(s, "ok") /\ flight[s].stage = "persist"
        /\ UNCHANGED <<auth, disk, issued, now>>
    BY <1>7 DEF PersistFails
  <2>2. Copied
    BY <2>1 DEF Copied
  <2> QED
    BY <1>r, <1>s, <2>1, <2>2 DEF Result
<1> QED
  BY <1>1, <1>2, <1>3, <1>4, <1>5, <1>6, <1>7 DEF FlightStep

LEMMA OthersAlone ==
    ASSUME IInv, ManagersExist, current = 1, current' = 1, Alone,
           \/ Reload \/ Sync \/ OtherRefreshes \/ TokenAges
           \/ \E m \in Manager : TimerSaves(m)
    PROVE  Alone' /\ Justified
<1>t. /\ 1 \in Manager /\ auth[1] \in Account /\ disk \in Account
      /\ auth \in [Manager -> Account] /\ issued \in Nat /\ now \in Nat
      /\ auth[1].upd \in Nat /\ disk.upd \in Nat
  BY OneManager, StampTypes DEF IInv, TypeOK
<1>c. ASSUME Copied, UNCHANGED flight PROVE Alone'
  <2>1. \A s \in Slot : Beaten(flight[s])' => Beaten(flight[s])
    BY <1>c DEF Copied, Beaten
  <2> QED
    BY <1>c, <2>1, CopiedAlone
<1>1. ~Reload
  BY DEF Reload
<1>2. CASE Sync
  <2>1. PICK a : a = [disk EXCEPT !.access = IF @ = 0 THEN auth[1].access ELSE @]
    OBVIOUS
  <2>2. a.rt = disk.rt /\ a.upd = disk.upd /\ a.enabled = disk.enabled
    BY <1>t, <2>1 DEF Account
  <2>3. /\ auth' = [auth EXCEPT ![1] = a]
        /\ UNCHANGED <<disk, flight, issued, now>>
    BY <1>2, <2>1 DEF Sync
  <2>4. auth'[1] = a
    BY <1>t, <2>3
  <2>5. Copied /\ Justified
    BY <2>2, <2>3, <2>4 DEF Copied, Justified
  <2> QED
    BY <1>c, <2>3, <2>5
<1>3. CASE OtherRefreshes
  <2>1. PICK a : a = [disk EXCEPT !.rt = issued + 1, !.access = issued + 1,
                                  !.upd = now + 1]
    OBVIOUS
  <2>2. a.rt = issued + 1 /\ a.upd = now + 1
    BY <1>t, <2>1 DEF Account
  <2>3. /\ disk' = a /\ issued' = issued + 1 /\ now' = now + 1
        /\ UNCHANGED <<auth, flight>>
        /\ \A s \in Slot : ~HoldsLock(s)
    BY <1>3, <2>1 DEF OtherRefreshes
  <2>4. auth[1].rt \in Nat /\ auth[1].rt <= issued /\ auth[1].upd <= now
    BY <1>t DEF Account, Alone, Stamped
  <2>5. Stamped' /\ FileLeads'
    BY <1>t, <2>2, <2>3, <2>4 DEF Stamped, FileLeads
  <2>6. \A s \in Slot : ~Beaten(flight[s])'
    BY <2>3 DEF Beaten, HoldsLock
  <2> QED
    BY <2>3, <2>5, <2>6 DEF Alone, Justified
<1>4. CASE TokenAges
  <2>1. UNCHANGED <<auth, disk, flight, issued, now>>
    BY <1>4 DEF TokenAges
  <2> QED
    BY <1>c, <2>1 DEF Copied, Justified
<1>5. ASSUME NEW m \in Manager, TimerSaves(m) PROVE Alone' /\ Justified
  <2>1. m = 1
    BY <1>5 DEF TimerSaves
  <2>2. SavesManager(1) /\ UNCHANGED <<flight, issued, now>>
    BY <1>5, <2>1 DEF TimerSaves
  <2>3. Copied /\ Justified
    BY <1>t, <2>2, SaveCopies DEF Justified
  <2> QED
    BY <1>c, <2>2, <2>3
<1> QED
  BY <1>1, <1>2, <1>3, <1>4, <1>5

\* A manager that has been replaced does not come back.
LEMMA FirstStays ==
    ASSUME IInv, [Next]_vars, current' = 1
    PROVE  current = 1
<1>1. current \in Nat /\ current >= 1
  BY DEF IInv, TypeOK
<1>2. current' = current \/ current' = current + 1
  BY DEF Next, Ask, AskIdle, AskAgain, FlightStep, TakeLock, LockBusy, ReadDisk,
     Rotates, Refused, CallFails, Persist, PersistFails, Release, Reload, Sync,
     TimerSaves, OtherRefreshes, TokenAges, vars
<1> QED
  BY <1>1, <1>2

LEMMA StepAlone ==
    ASSUME AloneInv, [Next]_vars, current' = 1
    PROVE  Alone' /\ Justified
<1>1. IInv /\ ManagersExist /\ current = 1 /\ Alone
  BY FirstStays DEF AloneInv
<1>2. CASE \/ (\E c \in Request : Ask(c)) \/ AskIdle
           \/ (\E c \in Caller : AskAgain(c))
  BY <1>1, <1>2, AsksAlone
<1>3. ASSUME NEW s \in Slot, FlightStep(s) PROVE Alone' /\ Justified
  BY <1>1, <1>3, EndsAlone, MiddleAlone
<1>4. CASE \/ Reload \/ Sync \/ OtherRefreshes \/ TokenAges
           \/ \E m \in Manager : TimerSaves(m)
  BY <1>1, <1>4, OthersAlone
<1>5. CASE UNCHANGED vars
  BY <1>1, <1>5 DEF vars, Alone, Stamped, FileLeads, Gone, Beaten, Justified
<1> QED
  BY <1>2, <1>3, <1>4, <1>5 DEF Next

LEMMA InitAlone == Init => AloneInv
<1> SUFFICES ASSUME Init PROVE AloneInv
  OBVIOUS
<1>1. IInv /\ ManagersExist
  BY InitInv DEF Inv
<1>2. 1 \in Manager
  BY <1>1 DEF IInv, TypeOK, Init
<1>3. /\ auth[1] = First /\ disk = First /\ issued = 1 /\ now = 1
      /\ \A s \in Slot : flight[s] = NoCall
  BY <1>2 DEF Init
<1>4. Alone
  BY <1>3 DEF Alone, Stamped, FileLeads, Beaten, First, NoCall
<1> QED
  BY <1>1, <1>4 DEF AloneInv

\* With one manager the account is given up (resolveAccessToken) only when the
\* server's token is neither in the account object nor in the file: a failed save,
\* a lost answer or a token that others have rotated is no reason by itself.
THEOREM DisabledOnlyWhenLost == Spec => DisabledOnlyWhenTokenLost
<1>1. AloneInv /\ [Next]_vars => AloneInv'
  BY StepIInv, ManagersStep, StepAlone DEF AloneInv
<1>2. AloneInv /\ [Next]_vars =>
         [/\ current' = 1 /\ auth[1].enabled /\ ~auth'[1].enabled
          /\ disk.enabled
          => auth[1].rt # issued /\ disk.rt # issued]_vars
  BY StepAlone DEF Justified, Gone
<1> QED
  BY <1>1, <1>2, InitAlone, PTL DEF Spec, DisabledOnlyWhenTokenLost
==============================================================================
