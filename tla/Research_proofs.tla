--------------------------- MODULE Research_proofs ---------------------------
(***************************************************************************)
(* What research rests on: the cache of the archives, for every set of     *)
(* processes, every number of remote versions and every number of crashes; *)
(* the history of funding, for every range, every list of payments and     *)
(* every size of a page; the backtest engine, for every history and every  *)
(* list of decisions; the structure of a market, for every series of bars; *)
(* the replay of the opening range, for every history in order and every   *)
(* sector; and the history of bars, for every calendar of months and all   *)
(* that may be published.  Two ideas carry the engine.  The loop over the  *)
(* decisions keeps its trades one by one, none beginning before the one    *)
(* before it is over; and a bar that is appended changes no trade that     *)
(* ended in an earlier one.                                                *)
(***************************************************************************)
EXTENDS ArchiveStore, FundingHistory, KlineHistory, Backtest, MarketStructure, OpeningRange, Recursion, FiniteSetTheorems

-----------------------------------------------------------------------------
(* The cache of one archive.                                               *)

(* What a process holds once it has streamed the archive.                  *)
Held(c) ==
  /\ step[c] \in {"check", "replace", "sum"} =>
       temp[c].against = hand[c] /\ Exists(temp[c])
  /\ step[c] \in {"replace", "sum"} => hand[c] = 0 \/ Matches(temp[c], hand[c])

(* Nobody but the last one to replace the archive has its checksum to write. *)
Alone ==
  ~torn => \A c \in Clients : step[c] = "sum" =>
             zip = temp[c] /\ \A d \in Clients : step[d] = "sum" => d = c

StoreInv ==
  /\ StoreTypeOK
  /\ \A c \in Clients : Held(c)
  /\ CorruptOnlyUnchecked
  /\ Alone
  /\ MismatchOnlyWhenTorn

(* The invariant holds before anything is downloaded.                      *)
LEMMA StoreInvInit == StoreInit => StoreInv
<1> SUFFICES ASSUME StoreInit PROVE StoreInv
  OBVIOUS
<1>1. StoreTypeOK
  <2>1. NoFile \in Contents
    <3>1. 0 \in 0..MaxVersions
      BY ArchiveAssumption
    <3> QED BY <3>1 DEF NoFile, Contents
  <2>2. temp \in [Clients -> Contents] /\ zip \in Contents
    BY <2>1 DEF StoreInit
  <2>3. remote \in Versions /\ remoteSum \in 0..MaxVersions /\ sum \in 0..MaxVersions
    BY ArchiveAssumption DEF StoreInit, Versions
  <2>4. step \in [Clients -> Steps] /\ hand \in [Clients -> 0..MaxVersions]
    BY ArchiveAssumption DEF StoreInit, Steps
  <2>5. crashes \in 0..MaxCrashes
    BY ArchiveAssumption DEF StoreInit
  <2>6. torn \in BOOLEAN
    BY Zenon DEF StoreInit
  <2> QED BY <2>2, <2>3, <2>4, <2>5, <2>6 DEF StoreTypeOK
<1>2. (\A c \in Clients : Held(c)) /\ Alone
  BY DEF StoreInit, Held, Alone
<1>3. CorruptOnlyUnchecked /\ MismatchOnlyWhenTorn
  BY DEF StoreInit, CorruptOnlyUnchecked, MismatchOnlyWhenTorn, Exists, NoFile
<1> QED BY <1>1, <1>2, <1>3 DEF StoreInv

(* Every step keeps the types.                                             *)
LEMMA StoreTypeStep == StoreTypeOK /\ [StoreNext]_store => StoreTypeOK'
<1> SUFFICES ASSUME StoreTypeOK, [StoreNext]_store PROVE StoreTypeOK'
  OBVIOUS
<1> USE ArchiveAssumption DEF StoreTypeOK, Versions
<1>1. CASE Publish
  BY <1>1 DEF Publish
<1>2. CASE PublishSum
  BY <1>2 DEF PublishSum
<1>3. ASSUME NEW c \in Clients, NEW force \in BOOLEAN, Begin(c, force) PROVE StoreTypeOK'
  <2>1. NoFile \in Contents
    BY DEF NoFile, Contents
  <2> QED BY <1>3, <2>1 DEF Begin, Goto, Steps
<1>4. ASSUME NEW c \in Clients, ReadSum(c) PROVE StoreTypeOK'
  BY <1>4 DEF ReadSum, Goto, Steps
<1>5. ASSUME NEW c \in Clients, VerifyHit(c) PROVE StoreTypeOK'
  BY <1>5 DEF VerifyHit, Goto, Steps
<1>6. ASSUME NEW c \in Clients, FetchSum(c) PROVE StoreTypeOK'
  BY <1>6 DEF FetchSum, Goto, Steps
<1>7. ASSUME NEW c \in Clients, Download(c) PROVE StoreTypeOK'
  <2>1. PICK whole \in BOOLEAN :
          temp' = [temp EXCEPT ![c] = [version |-> remote, whole |-> whole, against |-> hand[c]]]
    BY <1>7 DEF Download
  <2>2. [version |-> remote, whole |-> whole, against |-> hand[c]] \in Contents
    BY DEF Contents
  <2>3. temp' \in [Clients -> Contents]
    BY <2>1, <2>2
  <2> QED BY <1>7, <2>3 DEF Download, Goto, Steps
<1>8. ASSUME NEW c \in Clients, RequestFails(c) PROVE StoreTypeOK'
  BY <1>8 DEF RequestFails, Goto, Steps
<1>9. ASSUME NEW c \in Clients, Check(c) PROVE StoreTypeOK'
  BY <1>9 DEF Check, Goto, Steps
<1>10. ASSUME NEW c \in Clients, Replace(c) PROVE StoreTypeOK'
  BY <1>10 DEF Replace, Goto, Steps
<1>11. ASSUME NEW c \in Clients, StoreSum(c) PROVE StoreTypeOK'
  BY <1>11 DEF StoreSum, Goto, Steps
<1>12. ASSUME NEW c \in Clients, Crash(c) PROVE StoreTypeOK'
  BY <1>12 DEF Crash, Goto, Steps
<1>13. CASE UNCHANGED store
  BY <1>13 DEF store
<1> QED
  BY <1>1, <1>2, <1>3, <1>4, <1>5, <1>6, <1>7, <1>8, <1>9, <1>10, <1>11, <1>12, <1>13
     DEF StoreNext, ClientStep

(* The steps of the server, and those of a process that leave the cache    *)
(* alone: what the others hold is as it was.                               *)
LEMMA CacheKept ==
  ASSUME StoreInv, StoreTypeOK', UNCHANGED <<zip, sum>>, torn => torn',
         \A c \in Clients : step'[c] = "sum" <=> step[c] = "sum",
         \A c \in Clients : step[c] = "sum" => temp'[c] = temp[c],
         \A c \in Clients : Held(c)'
  PROVE  StoreInv'
<1>1. CorruptOnlyUnchecked'
  BY DEF StoreInv, CorruptOnlyUnchecked, Exists
<1>2. Alone'
  BY DEF StoreInv, Alone
<1>3. MismatchOnlyWhenTorn'
  BY DEF StoreInv, MismatchOnlyWhenTorn, Matches, Writing
<1> QED BY <1>1, <1>2, <1>3 DEF StoreInv

(* A verified, or an uncheckable, archive replaces the one in the cache.   *)
LEMMA ReplaceKeeps ==
  ASSUME StoreInv, StoreTypeOK', NEW c \in Clients, Replace(c)
  PROVE  StoreInv'
<1> USE DEF StoreInv, StoreTypeOK, Replace, Goto
<1>1. \A d \in Clients : Held(d)'
  BY DEF Held
<1>2. CorruptOnlyUnchecked'
  BY DEF CorruptOnlyUnchecked, Held, Matches, Contents
<1>3. Alone'
  BY DEF Alone
<1>4. MismatchOnlyWhenTorn'
  BY DEF MismatchOnlyWhenTorn, Writing
<1> QED BY <1>1, <1>2, <1>3, <1>4

(* The checksum of that archive takes the place of the old one's.          *)
LEMMA StoreSumKeeps ==
  ASSUME StoreInv, StoreTypeOK', NEW c \in Clients, StoreSum(c)
  PROVE  StoreInv'
<1> USE DEF StoreInv, StoreTypeOK, StoreSum, Goto
<1>1. \A d \in Clients : Held(d)'
  BY DEF Held
<1>2. CorruptOnlyUnchecked'
  BY DEF CorruptOnlyUnchecked
<1>3. Alone'
  BY DEF Alone
<1>4. MismatchOnlyWhenTorn'
  <2>1. CASE torn
    BY <2>1 DEF MismatchOnlyWhenTorn
  <2>2. CASE ~torn
    <3>1. zip = temp[c] /\ (hand[c] = 0 \/ Matches(temp[c], hand[c]))
      BY <2>2 DEF Alone, Held
    <3> QED BY <3>1 DEF MismatchOnlyWhenTorn, Matches
  <2> QED BY <2>1, <2>2
<1> QED BY <1>1, <1>2, <1>3, <1>4

(* A process ends: if it had replaced the archive, its checksum is owed.   *)
LEMMA CrashKeeps ==
  ASSUME StoreInv, StoreTypeOK', NEW c \in Clients, Crash(c)
  PROVE  StoreInv'
<1> USE DEF StoreInv, StoreTypeOK, Crash, Goto
<1>1. \A d \in Clients : Held(d)'
  BY DEF Held
<1>2. CorruptOnlyUnchecked'
  BY DEF CorruptOnlyUnchecked
<1>3. Alone'
  BY DEF Alone
<1>4. MismatchOnlyWhenTorn'
  BY DEF MismatchOnlyWhenTorn, Writing
<1> QED BY <1>1, <1>2, <1>3, <1>4

(* Every step keeps the invariant.                                         *)
LEMMA StoreInvStep == StoreInv /\ [StoreNext]_store => StoreInv'
<1> SUFFICES ASSUME StoreInv, [StoreNext]_store PROVE StoreInv'
  OBVIOUS
<1>0. StoreTypeOK'
  BY StoreTypeStep DEF StoreInv
<1> USE <1>0 DEF StoreInv, StoreTypeOK
<1>1. CASE Publish \/ PublishSum \/ UNCHANGED store
  <2>1. UNCHANGED <<zip, sum, torn, step, temp, hand>>
    BY <1>1 DEF Publish, PublishSum, store
  <2>2. \A c \in Clients : Held(c)'
    BY <2>1 DEF Held, Exists, Matches
  <2> QED BY <2>1, <2>2, CacheKept
<1>2. ASSUME NEW c \in Clients, NEW force \in BOOLEAN, Begin(c, force) PROVE StoreInv'
  <2>1. \A d \in Clients : Held(d)'
    BY <1>2 DEF Begin, Goto, Held
  <2> QED BY <1>2, <2>1, CacheKept DEF Begin, Goto
<1>3. ASSUME NEW c \in Clients, ReadSum(c) \/ VerifyHit(c) \/ FetchSum(c) PROVE StoreInv'
  <2>1. \A d \in Clients : Held(d)'
    BY <1>3 DEF ReadSum, VerifyHit, FetchSum, Goto, Held
  <2> QED BY <1>3, <2>1, CacheKept DEF ReadSum, VerifyHit, FetchSum, Goto
<1>4. ASSUME NEW c \in Clients, Download(c) PROVE StoreInv'
  <2>1. PICK whole \in BOOLEAN :
          temp' = [temp EXCEPT ![c] = [version |-> remote, whole |-> whole, against |-> hand[c]]]
    BY <1>4 DEF Download
  <2>2. temp'[c].version # 0 /\ temp'[c].against = hand'[c]
    <3>1. remote # 0
      BY ArchiveAssumption DEF Versions
    <3>2. temp'[c] = [version |-> remote, whole |-> whole, against |-> hand[c]]
      BY <2>1
    <3> QED BY <1>4, <3>1, <3>2 DEF Download
  <2>3. Held(c)'
    BY <1>4, <2>2 DEF Download, Goto, Held, Exists
  <2>4. ASSUME NEW d \in Clients, d # c PROVE Held(d)'
    BY <1>4, <2>1, <2>4 DEF Download, Goto, Held, Exists, Matches
  <2> QED BY <1>4, <2>1, <2>3, <2>4, CacheKept DEF Download, Goto
<1>5. ASSUME NEW c \in Clients, RequestFails(c) \/ Check(c) PROVE StoreInv'
  <2>1. \A d \in Clients : Held(d)'
    BY <1>5 DEF RequestFails, Check, Goto, Held
  <2> QED BY <1>5, <2>1, CacheKept DEF RequestFails, Check, Goto
<1>6. ASSUME NEW c \in Clients, Replace(c) PROVE StoreInv'
  BY <1>6, ReplaceKeeps
<1>7. ASSUME NEW c \in Clients, StoreSum(c) PROVE StoreInv'
  BY <1>7, StoreSumKeeps
<1>8. ASSUME NEW c \in Clients, Crash(c) PROVE StoreInv'
  BY <1>8, CrashKeeps
<1> QED
  BY <1>1, <1>2, <1>3, <1>4, <1>5, <1>6, <1>7, <1>8 DEF StoreNext, ClientStep

(* However many processes download the archive, overlap and crash, and     *)
(* however often it is remote again, the invariant holds.               *)
THEOREM StoreInvariant == StoreSpec => []StoreInv
BY StoreInvInit, StoreInvStep, PTL DEF StoreSpec

(* A damaged archive is only ever cached where there was no checksum.      *)
THEOREM NeverCorruptWhenChecked == StoreSpec => []CorruptOnlyUnchecked
<1>1. StoreInv => CorruptOnlyUnchecked
  BY DEF StoreInv
<1> QED BY <1>1, StoreInvariant, PTL

(* Archive and checksum fit, unless a download was torn apart.             *)
THEOREM ArchiveFitsChecksum == StoreSpec => []MismatchOnlyWhenTorn
<1>1. StoreInv => MismatchOnlyWhenTorn
  BY DEF StoreInv
<1> QED BY <1>1, StoreInvariant, PTL

-----------------------------------------------------------------------------
(* The backtest engine.                                                    *)

LEMMA MinOfSome ==
  ASSUME NEW T \in SUBSET Nat, T # {}
  PROVE  Min(T) \in T /\ \A n \in T : Min(T) <= n
<1>1. \E n \in T : \A m \in T : n <= m
  BY LeastExists
<1> QED BY <1>1, Zenon DEF Min

LEMMA MinOfTwo == ASSUME NEW a \in Nat, NEW b \in Nat PROVE Min({a, b}) = IF a <= b THEN a ELSE b
<1>1. Min({a, b}) \in {a, b} /\ \A n \in {a, b} : Min({a, b}) <= n
  BY MinOfSome
<1> QED BY <1>1

LEMMA MaxOfTwo == ASSUME NEW a \in Int, NEW b \in Int PROVE Max({a, b}) = IF a >= b THEN a ELSE b
<1>1. \E n \in {a, b} : \A m \in {a, b} : n >= m
  OBVIOUS
<1>2. Max({a, b}) \in {a, b} /\ \A m \in {a, b} : Max({a, b}) >= m
  BY <1>1, Zenon DEF Max
<1> QED BY <1>2

(* Names for the reasons, so that a case on them is a case on equalities.  *)
Endings == {"STOP_GAP", "TARGET_GAP", "AMBIGUOUS_STOP_FIRST", "AMBIGUOUS_TARGET_FIRST",
            "STOP", "TARGET", "NONE"}

LEMMA ReasonIsEnding == ASSUME NEW b, NEW i PROVE Reason(b, i) \in Endings
<1>1. \/ StopGap(b, i) \/ (~StopGap(b, i) /\ TargetGap(b, i))
      \/ (~StopGap(b, i) /\ ~TargetGap(b, i))
  OBVIOUS
<1> QED BY BacktestAssumption, Zenon DEF Reason, Endings

(* The last bar a trade may be held: the hold, or the end of the data.     *)
Until(bs, k, i) ==
  LET held == k + 1 + (IF i.hold = 0 THEN 0 ELSE i.hold - 1)
  IN IF Len(bs) <= held THEN Len(bs) ELSE held

LEMMA FinalBarIs ==
  ASSUME NEW bs \in Seq(Bars), NEW k \in 1..(Len(bs) - 1), NEW i \in Intents
  PROVE  FinalBar(bs, k + 1, i) = Until(bs, k, i) /\ Until(bs, k, i) \in (k + 1)..Len(bs)
<1>1. i.hold \in Nat /\ Len(bs) \in Nat /\ k \in Nat
  BY BacktestAssumption
<1>2. Max({0, i.hold - 1}) = IF i.hold = 0 THEN 0 ELSE i.hold - 1
  BY <1>1, MaxOfTwo
<1>3. k + 1 + (IF i.hold = 0 THEN 0 ELSE i.hold - 1) \in Nat
  BY <1>1
<1>4. FinalBar(bs, k + 1, i) = Min({Len(bs), k + 1 + (IF i.hold = 0 THEN 0 ELSE i.hold - 1)})
  BY <1>2 DEF FinalBar
<1>5. FinalBar(bs, k + 1, i) = Until(bs, k, i)
  BY <1>1, <1>3, <1>4, MinOfTwo DEF Until
<1>6. Until(bs, k, i) \in (k + 1)..Len(bs)
  BY <1>1 DEF Until
<1> QED BY <1>5, <1>6

(* The bars that would end a trade, and the one that does.                 *)
Ending(bs, k, i) == {j \in (k + 1)..Until(bs, k, i) : Reason(bs[j], i) # "NONE"}
Exit(bs, k, i) == IF Ending(bs, k, i) = {} THEN Until(bs, k, i) ELSE Min(Ending(bs, k, i))

LEMMA SimulatedIs ==
  ASSUME NEW bs \in Seq(Bars), NEW k \in 1..(Len(bs) - 1), NEW i \in Intents
  PROVE  Simulated(bs, k, i) =
           [intent |-> i, signal |-> k, entry |-> k + 1, exit |-> Exit(bs, k, i),
            raw |-> RawExit(bs[Exit(bs, k, i)], i),
            price |-> Slipped(RawExit(bs[Exit(bs, k, i)], i), -Sign(i)),
            reason |-> IF Ending(bs, k, i) # {} THEN Reason(bs[Exit(bs, k, i)], i)
                       ELSE IF Until(bs, k, i) = Len(bs) THEN "END_OF_DATA" ELSE "TIME_STOP"]
<1>1. FinalBar(bs, k + 1, i) = Until(bs, k, i)
  BY FinalBarIs
<1> QED BY <1>1, Zenon DEF Simulated, Ending, Exit, ExitBar

LEMMA ExitIs ==
  ASSUME NEW bs \in Seq(Bars), NEW k \in 1..(Len(bs) - 1), NEW i \in Intents
  PROVE  /\ Exit(bs, k, i) \in (k + 1)..Until(bs, k, i) /\ Exit(bs, k, i) \in (k + 1)..Len(bs)
         /\ \A j \in (k + 1)..(Exit(bs, k, i) - 1) : Reason(bs[j], i) = "NONE"
         /\ Ending(bs, k, i) # {} => Exit(bs, k, i) \in Ending(bs, k, i)
<1>1. Until(bs, k, i) \in (k + 1)..Len(bs) /\ Len(bs) \in Nat /\ k \in Nat
  BY FinalBarIs
<1>2. CASE Ending(bs, k, i) = {}
  <2>1. Exit(bs, k, i) = Until(bs, k, i)
    BY <1>2 DEF Exit
  <2> QED BY <1>1, <1>2, <2>1 DEF Ending
<1>3. CASE Ending(bs, k, i) # {}
  <2>1. Ending(bs, k, i) \in SUBSET Nat /\ Ending(bs, k, i) \in SUBSET ((k + 1)..Until(bs, k, i))
    BY <1>1 DEF Ending
  <2>2. Exit(bs, k, i) \in Ending(bs, k, i) /\ \A j \in Ending(bs, k, i) : Exit(bs, k, i) <= j
    BY <1>3, <2>1, MinOfSome DEF Exit
  <2>3. Exit(bs, k, i) \in (k + 1)..Until(bs, k, i)
    BY <2>1, <2>2
  <2>4. ASSUME NEW j \in (k + 1)..(Exit(bs, k, i) - 1) PROVE Reason(bs[j], i) = "NONE"
    <3>1. j \in (k + 1)..Until(bs, k, i) /\ ~(Exit(bs, k, i) <= j)
      BY <1>1, <2>3
    <3> QED BY <2>2, <3>1 DEF Ending
  <2> QED BY <1>1, <2>2, <2>3, <2>4
<1> QED BY <1>2, <1>3

-----------------------------------------------------------------------------
(* Trades that are made on a history, and lists of them in order: none     *)
(* begins before the one before it is over.                                *)
Made(bs) == {d \in (1..(Len(bs) - 1)) \X Intents : Worthwhile(bs[d[1] + 1], d[2])}
TradesOf(bs) == {Simulated(bs, d[1], d[2]) : d \in Made(bs)}
OneByOne(ts, free) ==
  /\ \A n \in DOMAIN ts : ts[n].exit < free
  /\ \A m, n \in DOMAIN ts : m < n => ts[m].exit < ts[n].entry
LoopStates(bs) ==
  {s \in [trades : Seq(TradesOf(bs)), free : 2..(Len(bs) + 1)] : OneByOne(s.trades, s.free)}

LEMMA TradeIs ==
  ASSUME NEW bs \in Seq(Bars), NEW t \in TradesOf(bs)
  PROVE  \E k \in 1..(Len(bs) - 1), i \in Intents :
           /\ Worthwhile(bs[k + 1], i) /\ t = Simulated(bs, k, i)
           /\ t.intent = i /\ t.entry = k + 1 /\ t.exit = Exit(bs, k, i)
           /\ t.raw = RawExit(bs[t.exit], i) /\ t.price = Slipped(t.raw, -Sign(i))
<1>1. PICK d \in Made(bs) : t = Simulated(bs, d[1], d[2])
  BY DEF TradesOf
<1>2. PICK k \in 1..(Len(bs) - 1), i \in Intents : d = <<k, i>> /\ Worthwhile(bs[k + 1], i)
  BY DEF Made
<1>3. t = Simulated(bs, k, i)
  BY <1>1, <1>2
<1>4. /\ t.intent = i /\ t.entry = k + 1 /\ t.exit = Exit(bs, k, i)
      /\ t.raw = RawExit(bs[t.exit], i) /\ t.price = Slipped(t.raw, -Sign(i))
  BY <1>3, SimulatedIs
<1> QED BY <1>2, <1>3, <1>4

LEMMA TradeBounds ==
  ASSUME NEW bs \in Seq(Bars), NEW t \in TradesOf(bs)
  PROVE  /\ t.entry \in Nat /\ t.exit \in Nat /\ Len(bs) \in Nat
         /\ 2 <= t.entry /\ t.entry <= t.exit /\ t.exit <= Len(bs)
<1>1. PICK k \in 1..(Len(bs) - 1), i \in Intents : t.entry = k + 1 /\ t.exit = Exit(bs, k, i)
  BY TradeIs
<1>2. Exit(bs, k, i) \in (k + 1)..Len(bs)
  BY ExitIs
<1> QED BY <1>1, <1>2

LEMMA TurnKeeps ==
  ASSUME NEW bs \in Seq(Bars), NEW is, \A k \in DOMAIN is : is[k] \in Intents,
         NEW k \in 1..Len(bs), NEW s \in LoopStates(bs)
  PROVE  Turn(bs, is, k, s) \in LoopStates(bs)
<1> DEFINE taken == IF k \in DOMAIN is THEN Taken(bs, k, is[k], s.free) ELSE <<>>
<1>1. CASE taken = <<>>
  BY <1>1 DEF Turn
<1>2. CASE taken # <<>>
  <2>1. /\ k \in DOMAIN is /\ k + 1 <= Len(bs) /\ k + 1 >= s.free
        /\ Worthwhile(bs[k + 1], is[k])
        /\ taken = <<Simulated(bs, k, is[k])>>
    BY <1>2 DEF Taken
  <2>2. PICK t : t = Simulated(bs, k, is[k])
    OBVIOUS
  <2>3. is[k] \in Intents /\ k \in 1..(Len(bs) - 1)
    BY <2>1
  <2>4. t \in TradesOf(bs)
    <3>1. <<k, is[k]>> \in Made(bs)
      BY <2>1, <2>3 DEF Made
    <3> QED BY <2>2, <3>1 DEF TradesOf
  <2>5. t.entry = k + 1
    BY <2>2, <2>3, SimulatedIs
  <2>6. t.exit \in Nat /\ t.entry <= t.exit /\ t.exit <= Len(bs) /\ Len(bs) \in Nat
    BY <2>4, TradeBounds
  <2>7. Turn(bs, is, k, s) = [trades |-> s.trades \o <<t>>, free |-> t.exit + 1]
    <3>1. taken = <<t>> /\ taken # <<>> /\ <<t>>[1] = t
      BY <1>2, <2>1, <2>2
    <3>2. Turn(bs, is, k, s) = IF taken = <<>> THEN s
            ELSE [trades |-> s.trades \o taken, free |-> taken[1].exit + 1]
      BY DEF Turn
    <3> HIDE DEF taken
    <3> QED BY <3>1, <3>2
  <2>8. s.trades \in Seq(TradesOf(bs)) /\ s.free \in 2..(Len(bs) + 1) /\ OneByOne(s.trades, s.free)
    BY DEF LoopStates
  <2> DEFINE ts == s.trades \o <<t>>
  <2>9. /\ ts \in Seq(TradesOf(bs)) /\ Len(s.trades) \in Nat /\ Len(ts) = Len(s.trades) + 1
        /\ ts[Len(s.trades) + 1] = t /\ \A n \in 1..Len(s.trades) : ts[n] = s.trades[n]
    BY <2>4, <2>8
  <2> HIDE DEF ts
  <2>10. DOMAIN ts = 1..(Len(s.trades) + 1) /\ DOMAIN s.trades = 1..Len(s.trades)
    BY <2>8, <2>9
  <2>11. ASSUME NEW n \in 1..Len(s.trades)
         PROVE  s.trades[n].exit \in Nat /\ s.trades[n].exit < k + 1
    <3>1. s.trades[n] \in TradesOf(bs) /\ s.trades[n].exit < s.free
      BY <2>8, <2>10 DEF OneByOne
    <3>2. s.trades[n].exit \in Nat
      BY <3>1, TradeBounds
    <3> QED BY <2>1, <2>8, <3>1, <3>2
  <2>12. ASSUME NEW n \in DOMAIN ts PROVE ts[n].exit < t.exit + 1
    <3>1. CASE n \in 1..Len(s.trades)
      <4>1. ts[n].exit \in Nat /\ ts[n].exit < t.entry
        BY <2>5, <2>9, <2>11, <3>1
      <4>2. t.entry \in Nat
        BY <2>4, TradeBounds
      <4> QED BY <2>6, <4>1, <4>2
    <3>2. CASE n = Len(s.trades) + 1
      BY <2>6, <2>9, <3>2
    <3> QED BY <2>9, <2>10, <3>1, <3>2
  <2>13. ASSUME NEW m \in DOMAIN ts, NEW n \in DOMAIN ts, m < n PROVE ts[m].exit < ts[n].entry
    <3>1. m \in 1..Len(s.trades)
      BY <2>9, <2>10, <2>13
    <3>2. CASE n \in 1..Len(s.trades)
      BY <2>8, <2>9, <2>10, <2>13, <3>1, <3>2 DEF OneByOne
    <3>3. CASE n = Len(s.trades) + 1
      BY <2>5, <2>9, <2>11, <3>1, <3>3
    <3> QED BY <2>9, <2>10, <3>2, <3>3
  <2>14. OneByOne(ts, t.exit + 1)
    BY <2>12, <2>13 DEF OneByOne
  <2>15. t.exit + 1 \in 2..(Len(bs) + 1)
    BY <2>4, <2>6, TradeBounds
  <2>16. [trades |-> ts, free |-> t.exit + 1] \in LoopStates(bs)
    BY <2>9, <2>14, <2>15 DEF LoopStates
  <2> QED BY <2>7, <2>16 DEF ts
<1> QED BY <1>1, <1>2

LEMMA LoopIs ==
  ASSUME NEW bs \in Seq(Bars), NEW is, \A k \in DOMAIN is : is[k] \in Intents, Len(bs) >= 2
  PROVE  /\ Loop(bs, is)[0] = [trades |-> <<>>, free |-> 2]
         /\ \A k \in 1..Len(bs) : Loop(bs, is)[k] = Turn(bs, is, k, Loop(bs, is)[k - 1])
         /\ \A k \in 0..Len(bs) : Loop(bs, is)[k] \in LoopStates(bs)
<1> DEFINE L == Len(bs)
           base == [trades |-> <<>>, free |-> 2]
           turn == [k \in 1..L |-> [s \in LoopStates(bs) |-> Turn(bs, is, k, s)]]
<1>1. L \in Nat /\ L >= 2
  OBVIOUS
<1>2. base \in LoopStates(bs)
  BY <1>1 DEF LoopStates, OneByOne
<1>3. turn \in [1..L -> [LoopStates(bs) -> LoopStates(bs)]]
  BY TurnKeeps
<1>4. \A k \in 1..L : \A s \in LoopStates(bs) : turn[k][s] = Turn(bs, is, k, s)
  OBVIOUS
<1> HIDE DEF turn, L, base
<1>5. PICK f : Follows(f, L, LoopStates(bs), base, turn)
  BY <1>1, <1>2, <1>3, RecursionExists
<1>6. ASSUME NEW k \in 1..L PROVE f[k] = Turn(bs, is, k, f[k - 1])
  <2>1. f[k - 1] \in LoopStates(bs)
    BY <1>1, <1>5 DEF Follows
  <2> QED BY <1>4, <1>5, <2>1 DEF Follows
<1>7. f = [k \in 0..L |-> IF k = 0 THEN base ELSE Turn(bs, is, k, f[k - 1])]
  <2>1. \A k \in 0..L : f[k] = IF k = 0 THEN base ELSE Turn(bs, is, k, f[k - 1])
    BY <1>1, <1>5, <1>6 DEF Follows
  <2> QED BY <1>5, <2>1, Zenon DEF Follows
<1> DEFINE after == Loop(bs, is)
<1>8. after = [k \in 0..L |-> IF k = 0 THEN base ELSE Turn(bs, is, k, after[k - 1])]
  BY <1>7, Zenon DEF Loop, L, base
<1> HIDE DEF after
<1>9. \A k \in 0..L : after[k] = IF k = 0 THEN base ELSE Turn(bs, is, k, after[k - 1])
  BY <1>8, Zenon
<1>10. after[0] = base /\ \A k \in 1..L : after[k] = Turn(bs, is, k, after[k - 1])
  BY <1>1, <1>9
<1> DEFINE T == {k \in 0..L : after[k] \in LoopStates(bs)}
<1>11. 0 \in T
  BY <1>1, <1>2, <1>10
<1>12. ASSUME NEW k \in 1..L, k - 1 \in T PROVE k \in T
  <2>1. Turn(bs, is, k, after[k - 1]) \in LoopStates(bs)
    BY <1>12, TurnKeeps DEF L
  <2> QED BY <1>1, <1>10, <2>1
<1> HIDE DEF T
<1>13. \A k \in 0..L : k \in T
  BY <1>1, <1>11, <1>12, UpTo
<1> QED BY <1>10, <1>13 DEF T, L, base, after

LEMMA RunIs ==
  ASSUME NEW bs \in Seq(Bars), NEW is, \A k \in DOMAIN is : is[k] \in Intents
  PROVE  Run(bs, is) \in Seq(TradesOf(bs)) /\ OneByOne(Run(bs, is), Len(bs) + 1)
<1>1. CASE Len(bs) < 2
  <2>1. Run(bs, is) = <<>>
    BY <1>1 DEF Run
  <2> QED BY <2>1 DEF OneByOne
<1>2. CASE ~(Len(bs) < 2)
  <2>1. Len(bs) \in Nat /\ Len(bs) >= 2
    BY <1>2
  <2>2. PICK s : s = Loop(bs, is)[Len(bs)]
    OBVIOUS
  <2>3. s \in LoopStates(bs)
    BY <2>1, <2>2, LoopIs
  <2>4. Run(bs, is) = s.trades
    BY <1>2, <2>2 DEF Run
  <2>5. s.trades \in Seq(TradesOf(bs)) /\ s.free \in 2..(Len(bs) + 1) /\ OneByOne(s.trades, s.free)
    BY <2>3 DEF LoopStates
  <2>6. ASSUME NEW n \in DOMAIN s.trades PROVE s.trades[n].exit < Len(bs) + 1
    <3>1. s.trades[n] \in TradesOf(bs)
      BY <2>5
    <3> QED BY <3>1, TradeBounds
  <2> QED BY <2>4, <2>5, <2>6 DEF OneByOne
<1> QED BY <1>1, <1>2

-----------------------------------------------------------------------------
BacktestInv ==
  /\ bars \in Seq(Bars)
  /\ DOMAIN intents \in SUBSET (1..Len(bars)) /\ \A k \in DOMAIN intents : intents[k] \in Intents
  /\ trades \in Seq(TradesOf(bars)) /\ OneByOne(trades, Len(bars) + 1)
  /\ trades = Run(bars, intents)

(* The rigid form of a step.                                               *)
LEMMA BarStep ==
  ASSUME BacktestInv, BarClosed
  PROVE  /\ \E b \in Bars : bars' = Append(bars, b)
         /\ DOMAIN intents' \in SUBSET (DOMAIN intents \cup {Len(bars) + 1})
         /\ \A k \in DOMAIN intents : k \in DOMAIN intents' /\ intents'[k] = intents[k]
         /\ \A k \in DOMAIN intents' : intents'[k] \in Intents
         /\ trades' = Run(bars', intents')
<1>1. CASE intents' = intents
  BY <1>1 DEF BarClosed, BacktestInv
<1>2. ASSUME NEW i \in Intents,
             intents' = [k \in DOMAIN intents \cup {Len(bars) + 1} |->
                           IF k \in DOMAIN intents THEN intents[k] ELSE i]
      PROVE  /\ DOMAIN intents' \in SUBSET (DOMAIN intents \cup {Len(bars) + 1})
             /\ \A k \in DOMAIN intents : k \in DOMAIN intents' /\ intents'[k] = intents[k]
             /\ \A k \in DOMAIN intents' : intents'[k] \in Intents
  BY <1>2 DEF BacktestInv
<1> QED BY <1>1, <1>2 DEF BarClosed

LEMMA BacktestInvAlways == BacktestSpec => []BacktestInv
<1>1. HistoryInit => BacktestInv
  <2> SUFFICES ASSUME HistoryInit PROVE BacktestInv
    OBVIOUS
  <2>1. bars \in Seq(Bars) /\ Len(bars) = 0 /\ DOMAIN intents = {}
    BY DEF HistoryInit
  <2>2. Run(bars, intents) = <<>>
    BY <2>1 DEF Run
  <2> QED BY <2>1, <2>2 DEF HistoryInit, BacktestInv, OneByOne
<1>2. BacktestInv /\ [BarClosed]_history => BacktestInv'
  <2> SUFFICES ASSUME BacktestInv, [BarClosed]_history PROVE BacktestInv'
    OBVIOUS
  <2>1. CASE BarClosed
    <3>1. PICK bs, is, ts : bs = bars' /\ is = intents' /\ ts = trades'
      OBVIOUS
    <3>2. PICK b \in Bars : bs = Append(bars, b)
      BY <2>1, <3>1, BarStep
    <3>3. bars \in Seq(Bars) /\ bs \in Seq(Bars) /\ Len(bs) = Len(bars) + 1 /\ Len(bars) \in Nat
      BY <3>2 DEF BacktestInv
    <3>4. DOMAIN is \in SUBSET (1..Len(bs)) /\ (\A k \in DOMAIN is : is[k] \in Intents) /\ ts = Run(bs, is)
      BY <2>1, <3>1, <3>3, BarStep DEF BacktestInv
    <3>5. ts \in Seq(TradesOf(bs)) /\ OneByOne(ts, Len(bs) + 1)
      BY <3>3, <3>4, RunIs
    <3> QED BY <3>1, <3>3, <3>4, <3>5 DEF BacktestInv
  <2>2. CASE UNCHANGED history
    BY <2>2 DEF history, BacktestInv
  <2> QED BY <2>1, <2>2
<1> QED BY <1>1, <1>2, PTL DEF BacktestSpec

-----------------------------------------------------------------------------
(* No trade is simulated better than the market allows.                    *)

LEMMA ReasonCases ==
  ASSUME NEW b, NEW i, StopFirst = TRUE
  PROVE  /\ StopGap(b, i) => Reason(b, i) = "STOP_GAP"
         /\ ~StopGap(b, i) /\ TargetGap(b, i) => Reason(b, i) = "TARGET_GAP"
         /\ ~StopGap(b, i) /\ ~TargetGap(b, i) /\ StopHit(b, i) /\ TargetHit(b, i)
              => Reason(b, i) = "AMBIGUOUS_STOP_FIRST"
         /\ ~StopGap(b, i) /\ ~TargetGap(b, i) /\ StopHit(b, i) /\ ~TargetHit(b, i)
              => Reason(b, i) = "STOP"
         /\ ~StopGap(b, i) /\ ~TargetGap(b, i) /\ ~StopHit(b, i) /\ TargetHit(b, i)
              => Reason(b, i) = "TARGET"
         /\ ~StopGap(b, i) /\ ~TargetGap(b, i) /\ ~StopHit(b, i) /\ ~TargetHit(b, i)
              => Reason(b, i) = "NONE"
<1> QED BY Zenon DEF Reason

LEMMA RawExitCases ==
  ASSUME NEW b, NEW i
  PROVE  /\ Reason(b, i) = "STOP_GAP" => RawExit(b, i) = b.open
         /\ Reason(b, i) \in {"STOP", "AMBIGUOUS_STOP_FIRST"} => RawExit(b, i) = i.stop
         /\ Reason(b, i) \in {"TARGET", "TARGET_GAP"} => RawExit(b, i) = i.target
         /\ Reason(b, i) = "NONE" => RawExit(b, i) = b.close
<1> QED BY DEF RawExit

LEMMA QuietBar ==
  ASSUME NEW b, NEW i, StopFirst = TRUE, Reason(b, i) = "NONE"
  PROVE  PathExits(b, i) = {}
<1>1. ~StopGap(b, i) /\ ~TargetGap(b, i) /\ ~StopHit(b, i) /\ ~TargetHit(b, i)
  BY ReasonCases
<1> QED BY <1>1 DEF PathExits

LEMMA ExitIsWorst ==
  ASSUME NEW b \in Bars, NEW i \in Intents, StopFirst = TRUE, NEW e \in Bars, Worthwhile(e, i)
  PROVE  /\ \A p \in PathExits(b, i) : Sign(i) * (RawExit(b, i) - p) <= 0
         /\ PathExits(b, i) = {} => RawExit(b, i) = b.close
<1>1. PICK sign : sign = Sign(i) /\ sign \in {1, -1}
  BY DEF Sign
<1>2. b.open \in Nat /\ b.close \in Nat /\ i.stop \in Nat /\ i.target \in Nat /\ e.open \in Nat
  BY BacktestAssumption
<1>3. sign * (i.stop - i.target) <= 0
  <2>1. PICK entry : entry = Entry(e, i)
    OBVIOUS
  <2>2. entry \in Int
    <3>1. e.open \div SlipDen \in Int
      BY <1>2, BacktestAssumption
    <3>2. entry = e.open + sign * (e.open \div SlipDen)
      BY <1>1, <2>1 DEF Entry, Slipped
    <3> QED BY <1>1, <1>2, <3>1, <3>2
  <2>3. sign * (entry - i.stop) > 0 /\ sign * (i.target - entry) > 0
    BY <1>1, <2>1 DEF Worthwhile, Risk, Reward
  <2>4. CASE sign = 1
    BY <1>2, <2>2, <2>3, <2>4
  <2>5. CASE sign = -1
    BY <1>2, <2>2, <2>3, <2>5
  <2> QED BY <1>1, <2>4, <2>5
<1>4. CASE StopGap(b, i)
  <2>1. PathExits(b, i) = {b.open} /\ RawExit(b, i) = b.open
    BY <1>4, ReasonCases, RawExitCases DEF PathExits
  <2> QED BY <1>1, <1>2, <2>1
<1>5. CASE ~StopGap(b, i) /\ TargetGap(b, i)
  <2>1. PathExits(b, i) = {b.open} /\ RawExit(b, i) = i.target
    BY <1>5, ReasonCases, RawExitCases DEF PathExits
  <2>2. sign * (b.open - i.target) >= 0
    BY <1>1, <1>5 DEF TargetGap
  <2>3. sign * (i.target - b.open) <= 0
    BY <1>1, <1>2, <2>2
  <2> QED BY <1>1, <2>1, <2>3
<1>6. CASE ~StopGap(b, i) /\ ~TargetGap(b, i) /\ StopHit(b, i) /\ TargetHit(b, i)
  <2>1. PathExits(b, i) = {i.stop, i.target} /\ RawExit(b, i) = i.stop
    BY <1>6, ReasonCases, RawExitCases DEF PathExits
  <2>2. sign * (i.stop - i.stop) <= 0
    BY <1>1, <1>2
  <2> QED BY <1>1, <1>3, <2>1, <2>2
<1>7. CASE ~StopGap(b, i) /\ ~TargetGap(b, i) /\ StopHit(b, i) /\ ~TargetHit(b, i)
  <2>1. PathExits(b, i) = {i.stop} /\ RawExit(b, i) = i.stop
    BY <1>7, ReasonCases, RawExitCases DEF PathExits
  <2> QED BY <1>1, <1>2, <2>1
<1>8. CASE ~StopGap(b, i) /\ ~TargetGap(b, i) /\ ~StopHit(b, i) /\ TargetHit(b, i)
  <2>1. PathExits(b, i) = {i.target} /\ RawExit(b, i) = i.target
    BY <1>8, ReasonCases, RawExitCases DEF PathExits
  <2> QED BY <1>1, <1>2, <2>1
<1>9. CASE ~StopGap(b, i) /\ ~TargetGap(b, i) /\ ~StopHit(b, i) /\ ~TargetHit(b, i)
  <2>1. PathExits(b, i) = {} /\ RawExit(b, i) = b.close
    BY <1>9, ReasonCases, RawExitCases DEF PathExits
  <2> QED BY <2>1
<1> QED BY <1>4, <1>5, <1>6, <1>7, <1>8, <1>9, Zenon

LEMMA RawExitIsPrice ==
  ASSUME NEW b \in Bars, NEW i \in Intents
  PROVE  RawExit(b, i) \in Nat
<1>1. b.open \in Nat /\ b.close \in Nat /\ i.stop \in Nat /\ i.target \in Nat
  BY BacktestAssumption
<1>2. RawExit(b, i) \in {b.open, b.close, i.stop, i.target}
  BY DEF RawExit
<1> QED BY <1>1, <1>2

(* With the stop read first in a bar that reaches both levels, as the      *)
(* configuration has it, no path of the market inside the bars ends a      *)
(* trade earlier or worse than the simulation does.                        *)
THEOREM SimulationIsPessimistic ==
  ASSUME StopFirst = TRUE
  PROVE  BacktestSpec => []Pessimistic
<1>1. BacktestInv => Pessimistic
  <2> SUFFICES ASSUME BacktestInv, NEW n \in DOMAIN trades
               PROVE  LET t == trades[n]
                          i == t.intent
                          paths == PathExits(bars[t.exit], i)
                      IN /\ \A k \in t.entry..(t.exit - 1) : PathExits(bars[k], i) = {}
                         /\ \A p \in paths : Sign(i) * (t.raw - p) <= 0
                         /\ paths = {} => t.raw = bars[t.exit].close
                         /\ Sign(i) * (t.price - t.raw) <= 0
    BY DEF Pessimistic
  <2>1. bars \in Seq(Bars) /\ trades[n] \in TradesOf(bars)
    BY DEF BacktestInv
  <2>2. PICK t : t = trades[n]
    OBVIOUS
  <2>3. PICK k \in 1..(Len(bars) - 1), i \in Intents :
           /\ Worthwhile(bars[k + 1], i)
           /\ t.intent = i /\ t.entry = k + 1 /\ t.exit = Exit(bars, k, i)
           /\ t.raw = RawExit(bars[t.exit], i) /\ t.price = Slipped(t.raw, -Sign(i))
    BY <2>1, <2>2, TradeIs
  <2>4. /\ t.exit \in (k + 1)..Len(bars)
        /\ \A j \in (k + 1)..(t.exit - 1) : Reason(bars[j], i) = "NONE"
    BY <2>1, <2>3, ExitIs
  <2>5. bars[t.exit] \in Bars /\ bars[k + 1] \in Bars
    BY <2>1, <2>3, <2>4
  <2>6. \A j \in t.entry..(t.exit - 1) : PathExits(bars[j], i) = {}
    BY <2>3, <2>4, QuietBar
  <2>7. /\ \A p \in PathExits(bars[t.exit], i) : Sign(i) * (t.raw - p) <= 0
        /\ PathExits(bars[t.exit], i) = {} => t.raw = bars[t.exit].close
    BY <2>3, <2>5, ExitIsWorst
  <2>8. Sign(i) * (t.price - t.raw) <= 0
    <3>1. t.raw \in Nat /\ SlipDen \in Nat \ {0}
      BY <2>3, <2>5, RawExitIsPrice, BacktestAssumption
    <3>2. t.raw \div SlipDen \in Nat
      BY <3>1
    <3>3. t.price = t.raw + (-Sign(i)) * (t.raw \div SlipDen) /\ Sign(i) \in {1, -1}
      BY <2>3 DEF Slipped, Sign
    <3> QED BY <3>1, <3>2, <3>3
  <2> QED BY <2>2, <2>3, <2>6, <2>7, <2>8
<1> QED BY <1>1, BacktestInvAlways, PTL

-----------------------------------------------------------------------------
(* The equity curve.                                                       *)

Ended(ts, k) == {n \in DOMAIN ts : ts[n].exit <= k}

(* The trades that are over at a bar are the first ones.                   *)
LEMMA EndedFirst ==
  ASSUME NEW bs \in Seq(Bars), NEW ts \in Seq(TradesOf(bs)), OneByOne(ts, Len(bs) + 1), NEW k \in Nat
  PROVE  /\ \A n \in DOMAIN ts : ts[n].exit \in Nat /\ ts[n].entry \in Nat /\ ts[n].entry <= ts[n].exit
                                 /\ 2 <= ts[n].entry
         /\ \E p \in 0..Len(ts) : Ended(ts, k) = 1..p
<1>1. ASSUME NEW n \in DOMAIN ts
      PROVE  /\ ts[n].exit \in Nat /\ ts[n].entry \in Nat /\ ts[n].entry <= ts[n].exit
             /\ 2 <= ts[n].entry
  <2>1. ts[n] \in TradesOf(bs)
    OBVIOUS
  <2> QED BY <2>1, TradeBounds
<1>2. DOMAIN ts = 1..Len(ts) /\ Len(ts) \in Nat
  OBVIOUS
<1> DEFINE T == {n \in 1..(Len(ts) + 1) : n \notin Ended(ts, k)}
<1>3. T \in SUBSET Nat /\ Len(ts) + 1 \in T
  BY <1>2 DEF Ended
<1>4. PICK q \in T : \A m \in T : q <= m
  BY <1>3, LeastExists
<1>5. q - 1 \in 0..Len(ts) /\ q \in 1..(Len(ts) + 1)
  BY <1>2, <1>4
<1>6. ASSUME NEW n \in 1..(q - 1) PROVE n \in Ended(ts, k)
  <2>1. n \in 1..(Len(ts) + 1) /\ ~(q <= n)
    BY <1>2, <1>5
  <2> QED BY <1>4, <2>1
<1>7. ASSUME NEW n \in Ended(ts, k) PROVE n \in 1..(q - 1)
  <2>1. n \in 1..Len(ts) /\ ts[n].exit <= k
    BY <1>2 DEF Ended
  <2>2. CASE n < q
    BY <1>2, <2>1, <2>2
  <2>3. CASE n = q
    BY <1>4, <2>3
  <2>4. CASE n > q
    <3>1. q \in DOMAIN ts
      BY <1>2, <1>5, <2>1, <2>4
    <3>2. ts[q].exit < ts[n].entry
      BY <1>2, <2>1, <2>4, <3>1 DEF OneByOne
    <3>3. ts[q].exit <= k
      BY <1>1, <1>2, <2>1, <3>1, <3>2
    <3> QED BY <1>4, <3>1, <3>3 DEF Ended
  <2> QED BY <1>2, <1>5, <2>1, <2>2, <2>3, <2>4
<1>8. Ended(ts, k) = 1..(q - 1)
  BY <1>6, <1>7, Zenon
<1> QED BY <1>1, <1>5, <1>8

(* The count of a point of the curve, when the one before it is right.     *)
LEMMA PointIs ==
  ASSUME BacktestInv, NEW k \in 1..Len(bars), NEW p \in 0..Len(trades), Ended(trades, k - 1) = 1..p
  PROVE  /\ CurvePoint(p, k).booked \in 0..Len(trades)
         /\ Ended(trades, k) = 1..CurvePoint(p, k).booked
         /\ CurvePoint(p, k).marked <=> \E n \in DOMAIN trades : trades[n].entry <= k /\ k < trades[n].exit
<1> PICK ts : ts = trades
  OBVIOUS
<1>1. /\ bars \in Seq(Bars) /\ ts \in Seq(TradesOf(bars)) /\ OneByOne(ts, Len(bars) + 1)
      /\ DOMAIN ts = 1..Len(ts) /\ Len(ts) \in Nat /\ k \in Nat /\ k >= 1 /\ k - 1 \in Nat
  BY DEF BacktestInv
<1>2. \A n \in DOMAIN ts : ts[n].exit \in Nat /\ ts[n].entry \in Nat /\ ts[n].entry <= ts[n].exit
  BY <1>1, EndedFirst
<1>3. CloseAfter \in {1, 2}
  BY BacktestAssumption
<1>4. \A n \in DOMAIN ts : n > p => ts[n].exit >= k
  <2> SUFFICES ASSUME NEW n \in DOMAIN ts, n > p PROVE ts[n].exit >= k
    OBVIOUS
  <2>1. n \notin Ended(ts, k - 1)
    BY <1>1
  <2> QED BY <1>1, <1>2, <2>1 DEF Ended
<1> DEFINE over == {j \in DOMAIN trades : j > p /\ CloseTime(trades[j].exit) <= OpenTime(k)}
<1>5. over = {}
  <2> SUFFICES ASSUME NEW j \in DOMAIN ts, j > p, CloseTime(ts[j].exit) <= OpenTime(k) PROVE FALSE
    OBVIOUS
  <2>1. ts[j].exit >= k /\ ts[j].exit \in Nat
    BY <1>2, <1>4
  <2> QED BY <1>1, <1>3, <2>1 DEF CloseTime, OpenTime
<1>6. p + Cardinality(over) = p
  <2>1. Cardinality(over) = 0
    BY <1>5, FS_EmptySet
  <2> QED BY <2>1
<1> DEFINE begun == p < Len(ts) /\ OpenTime(ts[p + 1].entry) <= OpenTime(k)
           ends == begun /\ CloseTime(ts[p + 1].exit) <= CloseTime(k)
           mark == begun /\ ~ends /\ OpenTime(k) < CloseTime(ts[p + 1].exit)
<1>7. CurvePoint(p, k).booked = (IF ends THEN p + 1 ELSE p) /\ CurvePoint(p, k).marked = mark
  <2>1. CurvePoint(p, k) = [booked |-> IF ends THEN p + 1 ELSE p, marked |-> mark]
    BY <1>6 DEF CurvePoint
  <2>2. PICK b : b = IF ends THEN p + 1 ELSE p
    OBVIOUS
  <2>3. PICK c : c = mark
    OBVIOUS
  <2> HIDE DEF ends, mark
  <2>4. CurvePoint(p, k) = [booked |-> b, marked |-> c]
    BY <2>1, <2>2, <2>3, Zenon
  <2>5. CurvePoint(p, k).booked = b /\ CurvePoint(p, k).marked = c
    BY <2>4
  <2> QED BY <2>2, <2>3, <2>5, Zenon
<1>8. p < Len(ts) => /\ p + 1 \in DOMAIN ts /\ ts[p + 1].exit \in Nat /\ ts[p + 1].entry \in Nat
                     /\ ts[p + 1].entry <= ts[p + 1].exit /\ ts[p + 1].exit >= k
  BY <1>1, <1>2, <1>4
<1>9. (begun <=> (p < Len(ts) /\ ts[p + 1].entry <= k))
  BY <1>1, <1>8 DEF OpenTime
<1>10. (ends <=> (p < Len(ts) /\ ts[p + 1].exit <= k))
  BY <1>1, <1>3, <1>8, <1>9 DEF CloseTime
<1>11. p < Len(ts) => OpenTime(k) < CloseTime(ts[p + 1].exit)
  BY <1>1, <1>3, <1>8 DEF OpenTime, CloseTime
<1>12. ASSUME NEW n \in DOMAIN ts, n > p + 1 PROVE ts[n].entry > k /\ ts[n].exit > k
  <2>1. p + 1 \in DOMAIN ts /\ p < Len(ts)
    BY <1>1, <1>12
  <2>2. ts[p + 1].exit < ts[n].entry
    BY <1>1, <1>12, <2>1 DEF OneByOne
  <2> QED BY <1>1, <1>2, <1>8, <2>1, <2>2
<1>13. \A n \in DOMAIN ts : n <= p => ts[n].exit <= k - 1
  BY <1>1 DEF Ended
<1> HIDE DEF begun, ends
<1>14. CASE ends
  <2>1. CurvePoint(p, k).booked = p + 1 /\ ~CurvePoint(p, k).marked
    <3>1. ~mark
      BY <1>14
    <3> HIDE DEF mark
    <3> QED BY <1>7, <1>14, <3>1, Zenon
  <2>2. p < Len(ts) /\ ts[p + 1].exit <= k /\ p + 1 \in 0..Len(ts)
    BY <1>1, <1>10, <1>14
  <2>3. Ended(ts, k) = 1..(p + 1)
    <3>1. ASSUME NEW n \in DOMAIN ts PROVE (ts[n].exit <= k <=> n <= p + 1)
      <4>1. CASE n <= p
        BY <1>1, <1>2, <1>13, <4>1
      <4>2. CASE n = p + 1
        BY <2>2, <4>2
      <4>3. CASE n > p + 1
        BY <1>1, <1>2, <1>12, <4>3
      <4> QED BY <1>1, <4>1, <4>2, <4>3
    <3> QED BY <1>1, <2>2, <3>1 DEF Ended
  <2>4. ~\E n \in DOMAIN ts : ts[n].entry <= k /\ k < ts[n].exit
    <3> SUFFICES ASSUME NEW n \in DOMAIN ts, ts[n].entry <= k, k < ts[n].exit PROVE FALSE
      OBVIOUS
    <3>1. n > p + 1
      BY <1>1, <1>2, <2>2, <2>3 DEF Ended
    <3> QED BY <1>1, <1>2, <1>12, <3>1
  <2> QED BY <2>1, <2>2, <2>3, <2>4
<1>15. CASE ~ends
  <2>1. CurvePoint(p, k).booked = p
    BY <1>7, <1>15
  <2>2. (CurvePoint(p, k).marked <=> (p < Len(ts) /\ ts[p + 1].entry <= k))
    <3>1. (mark <=> (p < Len(ts) /\ ts[p + 1].entry <= k))
      BY <1>9, <1>11, <1>15
    <3> HIDE DEF mark
    <3> QED BY <1>7, <3>1, Zenon
  <2>3. p < Len(ts) => ts[p + 1].exit > k
    BY <1>1, <1>8, <1>10, <1>15
  <2>4. Ended(ts, k) = 1..p
    <3>1. ASSUME NEW n \in DOMAIN ts PROVE (ts[n].exit <= k <=> n <= p)
      <4>1. CASE n <= p
        BY <1>1, <1>2, <1>13, <4>1
      <4>2. CASE n = p + 1
        BY <1>1, <1>2, <2>3, <4>2
      <4>3. CASE n > p + 1
        BY <1>1, <1>2, <1>12, <4>3
      <4> QED BY <1>1, <4>1, <4>2, <4>3
    <3> QED BY <1>1, <3>1 DEF Ended
  <2>5. ((p < Len(ts) /\ ts[p + 1].entry <= k) <=> \E n \in DOMAIN ts : ts[n].entry <= k /\ k < ts[n].exit)
    <3>1. ASSUME p < Len(ts), ts[p + 1].entry <= k
          PROVE  \E n \in DOMAIN ts : ts[n].entry <= k /\ k < ts[n].exit
      BY <1>1, <1>8, <2>3, <3>1
    <3>2. ASSUME NEW n \in DOMAIN ts, ts[n].entry <= k, k < ts[n].exit
          PROVE  p < Len(ts) /\ ts[p + 1].entry <= k
      <4>1. n > p
        BY <1>1, <1>2, <1>13, <3>2
      <4>2. ~(n > p + 1)
        BY <1>1, <1>2, <1>12, <3>2
      <4>3. n = p + 1 /\ p < Len(ts)
        BY <1>1, <4>1, <4>2
      <4> QED BY <3>2, <4>3
    <3> QED BY <3>1, <3>2
  <2> QED BY <2>1, <2>2, <2>4, <2>5
<1> QED BY <1>14, <1>15

LEMMA PointsCount ==
  BacktestInv => \A k \in 1..Len(bars) :
    /\ Point[k].booked \in 0..Len(trades) /\ Ended(trades, k) = 1..Point[k].booked
    /\ Point[k].marked <=> \E n \in DOMAIN trades : trades[n].entry <= k /\ k < trades[n].exit
<1> SUFFICES ASSUME BacktestInv
             PROVE  \A k \in 1..Len(bars) :
               /\ Point[k].booked \in 0..Len(trades) /\ Ended(trades, k) = 1..Point[k].booked
               /\ Point[k].marked <=> \E n \in DOMAIN trades : trades[n].entry <= k /\ k < trades[n].exit
  OBVIOUS
<1> DEFINE L == Len(bars)
           start == [booked |-> 0, marked |-> FALSE]
<1>1. /\ L \in Nat /\ bars \in Seq(Bars) /\ trades \in Seq(TradesOf(bars))
      /\ OneByOne(trades, Len(bars) + 1) /\ Len(trades) \in Nat
  BY DEF BacktestInv
<1> DEFINE S == {start} \cup {CurvePoint(p, k) : p \in Nat, k \in 1..L}
           count(s) == IF s.booked \in Nat THEN s.booked ELSE 0
           turn == [k \in 1..L |-> [s \in S |-> CurvePoint(count(s), k)]]
<1>2. start \in S /\ turn \in [1..L -> [S -> S]]
  OBVIOUS
<1>3. \A k \in 1..L : \A s \in S : s.booked \in Nat => turn[k][s] = CurvePoint(s.booked, k)
  OBVIOUS
<1> HIDE DEF turn, S, L, start, count
<1>4. PICK f : Follows(f, L, S, start, turn)
  BY <1>1, <1>2, RecursionExists
<1> DEFINE Right(g, k) == g[k].booked \in 0..Len(trades) /\ Ended(trades, k) = 1..g[k].booked
<1>5. f[0] = start /\ Right(f, 0)
  <2>1. f[0] = start /\ start.booked = 0
    BY <1>4, Zenon DEF Follows, start
  <2>2. Ended(trades, 0) = {}
    <3>1. \A n \in DOMAIN trades : trades[n].exit \in Nat /\ trades[n].entry \in Nat
             /\ trades[n].entry <= trades[n].exit /\ 2 <= trades[n].entry
      BY <1>1, EndedFirst DEF L
    <3>2. \A n \in DOMAIN trades : ~(trades[n].exit <= 0)
      BY <3>1
    <3> QED BY <3>2 DEF Ended
  <2>3. f[0].booked = 0
    BY <2>1
  <2>4. 0 \in 0..Len(trades) /\ 1..0 = {}
    BY <1>1
  <2> QED BY <2>1, <2>2, <2>3, <2>4
<1> DEFINE T == {k \in 0..L : Right(f, k)}
<1>6. 0 \in T
  BY <1>1, <1>5
<1>7. ASSUME NEW k \in 1..L, Right(f, k - 1)
      PROVE  f[k] = CurvePoint(f[k - 1].booked, k) /\ Right(f, k)
  <2>1. k - 1 \in 0..L /\ k \in 1..Len(bars)
    BY <1>1 DEF L
  <2>2. f[k - 1] \in S /\ f[k] = turn[k][f[k - 1]]
    BY <1>4, <2>1 DEF Follows
  <2>3. PICK p \in 0..Len(trades) : p = f[k - 1].booked
    BY <1>7
  <2>4. p \in Nat /\ Ended(trades, k - 1) = 1..p
    BY <1>1, <1>7, <2>3
  <2>5. f[k] = CurvePoint(p, k)
    BY <1>3, <2>2, <2>3, <2>4
  <2>6. CurvePoint(p, k).booked \in 0..Len(trades) /\ Ended(trades, k) = 1..CurvePoint(p, k).booked
    BY <2>1, <2>3, <2>4, PointIs
  <2> QED BY <2>3, <2>5, <2>6
<1>8. ASSUME NEW k \in 1..L, k - 1 \in T PROVE k \in T
  BY <1>1, <1>7, <1>8
<1> HIDE DEF T
<1>9. \A k \in 0..L : k \in T
  BY <1>1, <1>6, <1>8, UpTo
<1>10. \A k \in 0..L : Right(f, k)
  BY <1>9 DEF T
<1> HIDE DEF Right
<1>11. \A k \in 1..L : f[k] = CurvePoint(f[k - 1].booked, k)
  <2> SUFFICES ASSUME NEW k \in 1..L PROVE f[k] = CurvePoint(f[k - 1].booked, k)
    OBVIOUS
  <2>1. k - 1 \in 0..L
    BY <1>1
  <2> QED BY <1>7, <1>10, <2>1
<1>12. f = [k \in 0..L |-> IF k = 0 THEN start ELSE CurvePoint(f[k - 1].booked, k)]
  <2>1. \A k \in 0..L : f[k] = IF k = 0 THEN start ELSE CurvePoint(f[k - 1].booked, k)
    BY <1>1, <1>5, <1>11
  <2> QED BY <1>4, <2>1, Zenon DEF Follows
<1>13. Point = [k \in 0..L |-> IF k = 0 THEN start ELSE CurvePoint(Point[k - 1].booked, k)]
  BY <1>12, Zenon DEF Point, L, start
<1>14. \A k \in 0..L : Point[k] = IF k = 0 THEN start ELSE CurvePoint(Point[k - 1].booked, k)
  BY <1>13, Zenon
<1>15. Point[0] = f[0] /\ \A k \in 1..L : Point[k] = CurvePoint(Point[k - 1].booked, k)
  BY <1>1, <1>5, <1>14
<1> DEFINE U == {k \in 0..L : Point[k] = f[k]}
<1>16. 0 \in U
  BY <1>1, <1>15
<1>17. ASSUME NEW k \in 1..L, k - 1 \in U PROVE k \in U
  BY <1>1, <1>11, <1>15, <1>17
<1> HIDE DEF U
<1>18. \A k \in 0..L : k \in U
  BY <1>1, <1>16, <1>17, UpTo
<1>19. \A k \in 0..L : Point[k] = f[k]
  BY <1>18 DEF U
<1> SUFFICES ASSUME NEW k \in 1..L
             PROVE  /\ Point[k].booked \in 0..Len(trades) /\ Ended(trades, k) = 1..Point[k].booked
                    /\ Point[k].marked <=> \E n \in DOMAIN trades : trades[n].entry <= k /\ k < trades[n].exit
  BY DEF L
<1>20. k - 1 \in 0..L /\ k \in 0..L /\ k \in 1..Len(bars)
  BY <1>1 DEF L
<1>21. PICK p \in 0..Len(trades) : p = f[k - 1].booked /\ Ended(trades, k - 1) = 1..p
  BY <1>10, <1>20 DEF Right
<1>22. Point[k] = CurvePoint(p, k)
  BY <1>15, <1>19, <1>20, <1>21
<1> QED BY <1>20, <1>21, <1>22, PointIs, Zenon

(* The equity books every trade once, in the bar it ends, and marks it in  *)
(* the bars it is held; no two trades share a bar or a funding payment.    *)
THEOREM EquityBooksEveryTrade == BacktestSpec => []CurveBooksEveryTrade
<1>1. BacktestInv => CurveBooksEveryTrade
  <2> SUFFICES ASSUME BacktestInv PROVE CurveBooksEveryTrade
    OBVIOUS
  <2>1. bars \in Seq(Bars) /\ DOMAIN bars = 1..Len(bars) /\ Len(bars) \in Nat
    BY DEF BacktestInv
  <2>2. ASSUME NEW k \in DOMAIN bars
        PROVE  /\ Curve[k].booked = Cardinality({n \in DOMAIN trades : trades[n].exit <= k})
               /\ Curve[k].marked <=> \E n \in DOMAIN trades : trades[n].entry <= k /\ k < trades[n].exit
    <3>1. Curve[k] = Point[k]
      BY DEF Curve
    <3>2. PICK p : p = Point[k].booked
      OBVIOUS
    <3>3. /\ p \in 0..Len(trades) /\ Ended(trades, k) = 1..p
          /\ Point[k].marked <=> \E n \in DOMAIN trades : trades[n].entry <= k /\ k < trades[n].exit
      BY <2>1, <3>2, PointsCount
    <3>4. p \in Nat
      BY <3>3 DEF BacktestInv
    <3>5. Cardinality(1..p) = p
      BY <3>4, FS_Interval
    <3>6. Cardinality(Ended(trades, k)) = p
      BY <3>3, <3>5
    <3> QED BY <3>1, <3>2, <3>3, <3>6, Zenon DEF Ended
  <2>3. /\ trades \in Seq(TradesOf(bars)) /\ OneByOne(trades, Len(bars) + 1)
        /\ DOMAIN trades = 1..Len(trades) /\ Len(trades) \in Nat
    BY DEF BacktestInv
  <2>4. \A n \in DOMAIN trades : trades[n].exit \in Nat /\ trades[n].entry \in Nat /\ trades[n].entry <= trades[n].exit
    BY <2>1, <2>3, EndedFirst
  <2>5. ASSUME NEW m \in DOMAIN trades, NEW n \in DOMAIN trades, m < n
        PROVE  /\ (trades[m].entry..trades[m].exit) \cap (trades[n].entry..trades[n].exit) = {}
               /\ Funded(trades[m]) \cap Funded(trades[n]) = {}
    <3>1. trades[m].exit < trades[n].entry
      BY <2>3, <2>5 DEF OneByOne
    <3>2. PICK x \in Nat, y \in Nat : x = trades[m].exit /\ y = trades[n].entry /\ x < y
      BY <2>4, <3>1
    <3>3. (trades[m].entry..trades[m].exit) \cap (trades[n].entry..trades[n].exit) = {}
      BY <2>4, <3>2
    <3>4. CloseTime(x) <= OpenTime(y)
      BY <3>2, BacktestAssumption DEF CloseTime, OpenTime
    <3>5. \A time \in Int : time <= CloseTime(x) => ~(OpenTime(y) < time)
      <4>1. CloseTime(x) \in Int /\ OpenTime(y) \in Int
        BY BacktestAssumption DEF CloseTime, OpenTime
      <4> QED BY <3>4, <4>1
    <3>6. Funded(trades[m]) \cap Funded(trades[n]) = {}
      BY <3>2, <3>5, BacktestAssumption DEF Funded
    <3> QED BY <3>3, <3>6
  <2>6. ASSUME NEW m \in DOMAIN trades, NEW n \in DOMAIN trades, m # n
        PROVE  /\ (trades[m].entry..trades[m].exit) \cap (trades[n].entry..trades[n].exit) = {}
               /\ Funded(trades[m]) \cap Funded(trades[n]) = {}
    <3>1. m < n \/ n < m
      BY <2>3, <2>6
    <3>2. CASE m < n
      BY <2>5, <3>2
    <3>3. CASE n < m
      <4>1. /\ (trades[n].entry..trades[n].exit) \cap (trades[m].entry..trades[m].exit) = {}
            /\ Funded(trades[n]) \cap Funded(trades[m]) = {}
        BY <2>5, <3>3
      <4> QED BY <4>1, Zenon
    <3> QED BY <3>1, <3>2, <3>3
  <2> QED BY <2>2, <2>6, Zenon DEF CurveBooksEveryTrade
<1> QED BY <1>1, BacktestInvAlways, PTL

-----------------------------------------------------------------------------
(* One more bar.                                                           *)

LEMMA SameTrade ==
  ASSUME NEW bs \in Seq(Bars), NEW b \in Bars, NEW cs, cs = Append(bs, b),
         NEW k \in 1..(Len(bs) - 1), NEW i \in Intents
  PROVE  /\ Simulated(bs, k, i).reason # "END_OF_DATA" => Simulated(cs, k, i) = Simulated(bs, k, i)
         /\ Simulated(bs, k, i).reason = "END_OF_DATA" => Simulated(bs, k, i).exit = Len(bs)
<1>1. /\ cs \in Seq(Bars) /\ Len(cs) = Len(bs) + 1 /\ Len(bs) \in Nat /\ k \in Nat
      /\ k \in 1..(Len(cs) - 1) /\ \A j \in 1..Len(bs) : cs[j] = bs[j]
  OBVIOUS
<1>2. Until(bs, k, i) \in (k + 1)..Len(bs) /\ Until(cs, k, i) \in (k + 1)..Len(cs)
  BY <1>1, FinalBarIs
<1>3. Until(bs, k, i) # Len(bs) => Until(cs, k, i) = Until(bs, k, i)
  <2>1. i.hold \in Nat
    BY BacktestAssumption
  <2> QED BY <1>1, <2>1 DEF Until
<1>4. Until(bs, k, i) <= Until(cs, k, i) /\ Until(cs, k, i) <= Until(bs, k, i) + 1
      /\ (Until(cs, k, i) # Until(bs, k, i) => Until(cs, k, i) = Len(bs) + 1)
  <2>1. i.hold \in Nat
    BY BacktestAssumption
  <2> QED BY <1>1, <2>1 DEF Until
<1>5. /\ Simulated(bs, k, i).reason = IF Ending(bs, k, i) # {} THEN Reason(bs[Exit(bs, k, i)], i)
                                      ELSE IF Until(bs, k, i) = Len(bs) THEN "END_OF_DATA" ELSE "TIME_STOP"
      /\ Simulated(bs, k, i).exit = Exit(bs, k, i)
  BY SimulatedIs
<1> DEFINE Told(hs) == IF Ending(hs, k, i) # {} THEN Reason(hs[Exit(hs, k, i)], i)
                       ELSE IF Until(hs, k, i) = Len(hs) THEN "END_OF_DATA" ELSE "TIME_STOP"
           Trade(x, c, r) ==
             [intent |-> i, signal |-> k, entry |-> k + 1, exit |-> x, raw |-> RawExit(c, i),
              price |-> Slipped(RawExit(c, i), -Sign(i)), reason |-> r]
<1>9. Simulated(bs, k, i) = Trade(Exit(bs, k, i), bs[Exit(bs, k, i)], Told(bs))
  BY SimulatedIs
<1>10. Simulated(cs, k, i) = Trade(Exit(cs, k, i), cs[Exit(cs, k, i)], Told(cs))
  BY <1>1, SimulatedIs
<1> HIDE DEF Trade
<1>6. CASE Ending(bs, k, i) # {}
  <2>1. Reason(bs[Exit(bs, k, i)], i) # "END_OF_DATA"
    BY ReasonIsEnding DEF Endings
  <2>2. Ending(bs, k, i) \in SUBSET Nat /\ Ending(cs, k, i) \in SUBSET Nat
    BY <1>1, <1>2 DEF Ending
  <2>3. Ending(bs, k, i) \in SUBSET Ending(cs, k, i)
    <3> SUFFICES ASSUME NEW j \in Ending(bs, k, i) PROVE j \in Ending(cs, k, i)
      OBVIOUS
    <3>1. j \in (k + 1)..Until(bs, k, i) /\ Reason(bs[j], i) # "NONE"
      BY DEF Ending
    <3>2. j \in (k + 1)..Until(cs, k, i) /\ j \in 1..Len(bs)
      BY <1>1, <1>2, <1>4, <3>1
    <3> QED BY <1>1, <3>1, <3>2 DEF Ending
  <2>4. \A j \in Ending(cs, k, i) : j \in Ending(bs, k, i) \/ j = Len(bs) + 1
    <3> SUFFICES ASSUME NEW j \in Ending(cs, k, i), j # Len(bs) + 1 PROVE j \in Ending(bs, k, i)
      OBVIOUS
    <3>1. j \in (k + 1)..Until(cs, k, i) /\ Reason(cs[j], i) # "NONE"
      BY DEF Ending
    <3>2. j \in (k + 1)..Until(bs, k, i) /\ j \in 1..Len(bs)
      BY <1>1, <1>2, <1>4, <3>1
    <3> QED BY <1>1, <3>1, <3>2 DEF Ending
  <2>5. PICK x \in Ending(bs, k, i) : x = Exit(bs, k, i) /\ \A j \in Ending(bs, k, i) : x <= j
    BY <1>6, <2>2, MinOfSome DEF Exit
  <2>6. Ending(cs, k, i) # {}
    BY <1>6, <2>3
  <2>7. PICK y \in Ending(cs, k, i) : y = Exit(cs, k, i) /\ \A j \in Ending(cs, k, i) : y <= j
    BY <2>2, <2>6, MinOfSome DEF Exit
  <2>8. x \in Nat /\ y \in Nat /\ x <= Len(bs)
    BY <1>1, <1>2, <2>2 DEF Ending
  <2>9. y <= x
    BY <2>3, <2>7
  <2>10. y \in Ending(bs, k, i)
    BY <1>1, <2>4, <2>8, <2>9
  <2>11. x = y
    BY <2>5, <2>8, <2>9, <2>10
  <2>12. Exit(cs, k, i) = Exit(bs, k, i) /\ cs[Exit(bs, k, i)] = bs[Exit(bs, k, i)]
    BY <1>1, <1>2, <2>5, <2>7, <2>11 DEF Ending
  <2>13. Simulated(cs, k, i) = Simulated(bs, k, i)
    <3>1. Told(cs) = Told(bs)
      BY <1>6, <2>6, <2>12
    <3> QED BY <1>9, <1>10, <2>12, <3>1, Zenon
  <2> QED BY <1>5, <1>6, <2>1, <2>13
<1>7. CASE Ending(bs, k, i) = {} /\ Until(bs, k, i) # Len(bs)
  <2>1. Until(cs, k, i) = Until(bs, k, i) /\ Until(cs, k, i) # Len(cs)
    BY <1>1, <1>2, <1>3, <1>7
  <2>2. Ending(cs, k, i) = {}
    <3> SUFFICES ASSUME NEW j \in Ending(cs, k, i) PROVE FALSE
      OBVIOUS
    <3>1. j \in (k + 1)..Until(bs, k, i) /\ Reason(cs[j], i) # "NONE"
      BY <2>1 DEF Ending
    <3>2. cs[j] = bs[j]
      BY <1>1, <1>2, <3>1
    <3> QED BY <1>7, <3>1, <3>2 DEF Ending
  <2>3. Exit(cs, k, i) = Exit(bs, k, i) /\ cs[Exit(bs, k, i)] = bs[Exit(bs, k, i)]
    BY <1>1, <1>2, <1>7, <2>1, <2>2 DEF Exit
  <2>4. Simulated(cs, k, i) = Simulated(bs, k, i)
    <3>1. Told(cs) = Told(bs)
      BY <1>7, <2>1, <2>2
    <3> QED BY <1>9, <1>10, <2>3, <3>1, Zenon
  <2> QED BY <1>5, <1>7, <2>4
<1>8. CASE Ending(bs, k, i) = {} /\ Until(bs, k, i) = Len(bs)
  BY <1>5, <1>8 DEF Exit
<1> QED BY <1>6, <1>7, <1>8

(* What a longer history's loop has when it has the trades that are over.  *)
Keeps(ts, us) ==
  \A n \in DOMAIN ts : ts[n].reason # "END_OF_DATA" => n \in DOMAIN us /\ us[n] = ts[n]

LEMMA TurnAppends ==
  ASSUME NEW bs \in Seq(Bars), NEW is, \A k \in DOMAIN is : is[k] \in Intents,
         NEW k \in 1..Len(bs), NEW s \in LoopStates(bs), NEW ts, Keeps(ts, s.trades)
  PROVE  Keeps(ts, Turn(bs, is, k, s).trades)
<1> DEFINE taken == IF k \in DOMAIN is THEN Taken(bs, k, is[k], s.free) ELSE <<>>
<1>1. Turn(bs, is, k, s) = IF taken = <<>> THEN s
        ELSE [trades |-> s.trades \o taken, free |-> taken[1].exit + 1]
  BY DEF Turn
<1>2. s.trades \in Seq(TradesOf(bs))
  BY DEF LoopStates
<1>3. taken = <<>> \/ \E t : taken = <<t>>
  BY DEF Taken
<1> HIDE DEF taken
<1>4. CASE taken = <<>>
  BY <1>1, <1>4
<1>5. ASSUME NEW t, taken = <<t>> PROVE Keeps(ts, Turn(bs, is, k, s).trades)
  <2>1. Turn(bs, is, k, s).trades = s.trades \o <<t>>
    BY <1>1, <1>5
  <2>2. \A n \in DOMAIN s.trades : n \in DOMAIN (s.trades \o <<t>>) /\ (s.trades \o <<t>>)[n] = s.trades[n]
    BY <1>2
  <2> QED BY <2>1, <2>2 DEF Keeps
<1> QED BY <1>3, <1>4, <1>5

(* A turn within the shorter history.                                      *)
LEMMA TurnsAgree ==
  ASSUME NEW bs \in Seq(Bars), NEW b \in Bars, NEW cs, cs = Append(bs, b),
         NEW is, \A k \in DOMAIN is : is[k] \in Intents,
         NEW js, \A k \in DOMAIN js : js[k] \in Intents,
         \A k \in 1..Len(bs) : (k \in DOMAIN is <=> k \in DOMAIN js) /\ (k \in DOMAIN is => js[k] = is[k]),
         NEW k \in 1..(Len(bs) - 1), NEW s \in LoopStates(bs), s \in LoopStates(cs)
  PROVE  \/ Turn(bs, is, k, s) = Turn(cs, js, k, s)
         \/ /\ Turn(bs, is, k, s).free = Len(bs) + 1
            /\ Keeps(Turn(bs, is, k, s).trades, Turn(cs, js, k, s).trades)
<1>1. /\ cs \in Seq(Bars) /\ Len(cs) = Len(bs) + 1 /\ Len(bs) \in Nat /\ k \in Nat
      /\ k \in 1..Len(bs) /\ k + 1 \in 1..Len(bs) /\ cs[k + 1] = bs[k + 1]
  OBVIOUS
<1>2. (k \in DOMAIN is <=> k \in DOMAIN js) /\ (k \in DOMAIN is => js[k] = is[k])
  BY <1>1
<1>3. CASE ~(k \in DOMAIN is /\ k + 1 >= s.free /\ Worthwhile(bs[k + 1], is[k]))
  <2>1. Turn(bs, is, k, s) = s
    BY <1>3 DEF Turn, Taken
  <2>2. Turn(cs, js, k, s) = s
    BY <1>1, <1>2, <1>3 DEF Turn, Taken
  <2> QED BY <2>1, <2>2
<1>4. CASE k \in DOMAIN is /\ k + 1 >= s.free /\ Worthwhile(bs[k + 1], is[k])
  <2>1. PICK i \in Intents : i = is[k] /\ i = js[k] /\ k \in DOMAIN js
    BY <1>2, <1>4
  <2>2. PICK t, u : t = Simulated(bs, k, i) /\ u = Simulated(cs, k, i)
    OBVIOUS
  <2>3. /\ Taken(bs, k, is[k], s.free) = <<t>>
        /\ Taken(cs, k, js[k], s.free) = <<u>>
    BY <1>1, <1>4, <2>1, <2>2 DEF Taken
  <2>4. Turn(bs, is, k, s) = [trades |-> s.trades \o <<t>>, free |-> t.exit + 1]
    BY <1>4, <2>3 DEF Turn
  <2>5. Turn(cs, js, k, s) = [trades |-> s.trades \o <<u>>, free |-> u.exit + 1]
    BY <2>1, <2>3 DEF Turn
  <2>6. (t.reason # "END_OF_DATA" => u = t) /\ (t.reason = "END_OF_DATA" => t.exit = Len(bs))
    <3>1. /\ Simulated(bs, k, i).reason # "END_OF_DATA" => Simulated(cs, k, i) = Simulated(bs, k, i)
          /\ Simulated(bs, k, i).reason = "END_OF_DATA" => Simulated(bs, k, i).exit = Len(bs)
      BY SameTrade
    <3> QED BY <2>2, <3>1
  <2>7. CASE t.reason # "END_OF_DATA"
    BY <2>4, <2>5, <2>6, <2>7
  <2>8. CASE t.reason = "END_OF_DATA"
    <3>1. s.trades \in Seq(TradesOf(bs)) /\ s.trades \in Seq(TradesOf(cs))
      BY DEF LoopStates
    <3>2. PICK n \in Nat : n = Len(s.trades)
      BY <3>1
    <3>3. PICK ts, us : ts = s.trades \o <<t>> /\ us = s.trades \o <<u>>
      OBVIOUS
    <3>4. DOMAIN ts = 1..(n + 1) /\ DOMAIN us = 1..(n + 1) /\ ts[n + 1] = t
          /\ \A j \in 1..n : ts[j] = us[j]
      BY <3>1, <3>2, <3>3
    <3>5. Keeps(ts, us)
      <4> SUFFICES ASSUME NEW j \in 1..(n + 1), ts[j].reason # "END_OF_DATA" PROVE us[j] = ts[j]
        BY <3>4 DEF Keeps
      <4>1. j # n + 1
        BY <2>8, <3>4
      <4> QED BY <3>2, <3>4, <4>1
    <3>6. Turn(bs, is, k, s).trades = ts /\ Turn(cs, js, k, s).trades = us
          /\ Turn(bs, is, k, s).free = Len(bs) + 1
      BY <2>4, <2>5, <2>6, <2>8, <3>3
    <3> QED BY <3>5, <3>6
  <2> QED BY <2>7, <2>8
<1> QED BY <1>3, <1>4

LEMMA RunsAgree ==
  ASSUME NEW bs \in Seq(Bars), NEW b \in Bars, NEW cs, cs = Append(bs, b),
         NEW is, \A k \in DOMAIN is : is[k] \in Intents,
         NEW js, \A k \in DOMAIN js : js[k] \in Intents,
         \A k \in 1..Len(bs) : (k \in DOMAIN is <=> k \in DOMAIN js) /\ (k \in DOMAIN is => js[k] = is[k])
  PROVE  Keeps(Run(bs, is), Run(cs, js))
<1>1. CASE Len(bs) < 2
  <2>1. Run(bs, is) = <<>>
    BY <1>1 DEF Run
  <2> QED BY <2>1 DEF Keeps
<1>2. CASE ~(Len(bs) < 2)
  <2> PICK L : L = Len(bs)
    OBVIOUS
  <2>1. /\ L \in Nat /\ L >= 2 /\ cs \in Seq(Bars) /\ Len(cs) = L + 1
        /\ ~(Len(cs) < 2) /\ Len(bs) >= 2 /\ Len(cs) >= 2
    BY <1>2
  <2> PICK f, g : f = Loop(bs, is) /\ g = Loop(cs, js)
    OBVIOUS
  <2>2. /\ \A k \in 1..L : f[k] = Turn(bs, is, k, f[k - 1])
        /\ \A k \in 0..L : f[k] \in LoopStates(bs)
        /\ f[0] = [trades |-> <<>>, free |-> 2]
    BY <2>1, LoopIs
  <2>3. /\ \A k \in 1..(L + 1) : g[k] = Turn(cs, js, k, g[k - 1])
        /\ \A k \in 0..(L + 1) : g[k] \in LoopStates(cs)
        /\ g[0] = [trades |-> <<>>, free |-> 2]
    <3>1. /\ \A k \in 1..Len(cs) : g[k] = Turn(cs, js, k, g[k - 1])
          /\ \A k \in 0..Len(cs) : g[k] \in LoopStates(cs)
          /\ g[0] = [trades |-> <<>>, free |-> 2]
      BY <2>1, LoopIs
    <3> QED BY <2>1, <3>1
  <2> DEFINE Good(k) == f[k] = g[k] \/ (f[k].free = L + 1 /\ Keeps(f[k].trades, g[k].trades))
             T == {k \in 0..(L - 1) : Good(k)}
  <2>4. 0 \in T
    BY <2>1, <2>2, <2>3
  <2>5. ASSUME NEW k \in 1..(L - 1), k - 1 \in T PROVE k \in T
    <3>1. /\ k - 1 \in 0..L /\ k - 1 \in 0..(L + 1) /\ k \in 1..L /\ k \in 1..(L + 1)
          /\ k \in 1..(Len(bs) - 1) /\ k \in 1..Len(cs) /\ k \in 0..(L - 1) /\ k + 1 < L + 1
      BY <2>1
    <3>2. f[k] = Turn(bs, is, k, f[k - 1]) /\ g[k] = Turn(cs, js, k, g[k - 1])
          /\ f[k - 1] \in LoopStates(bs) /\ g[k - 1] \in LoopStates(cs)
      BY <2>2, <2>3, <3>1
    <3>3. CASE f[k - 1] = g[k - 1]
      <4>1. PICK s : s = f[k - 1] /\ s = g[k - 1]
        BY <3>3
      <4>2. s \in LoopStates(bs) /\ s \in LoopStates(cs)
        BY <3>2, <4>1
      <4>3. \/ Turn(bs, is, k, s) = Turn(cs, js, k, s)
            \/ /\ Turn(bs, is, k, s).free = Len(bs) + 1
               /\ Keeps(Turn(bs, is, k, s).trades, Turn(cs, js, k, s).trades)
        BY <3>1, <4>2, TurnsAgree
      <4> QED BY <3>1, <3>2, <4>1, <4>3
    <3>4. CASE f[k - 1].free = L + 1 /\ Keeps(f[k - 1].trades, g[k - 1].trades)
      <4>1. Turn(bs, is, k, f[k - 1]) = f[k - 1]
        BY <3>1, <3>4, <2>1 DEF Turn, Taken
      <4>2. Keeps(f[k - 1].trades, Turn(cs, js, k, g[k - 1]).trades)
        BY <2>1, <3>1, <3>2, <3>4, TurnAppends
      <4> QED BY <3>1, <3>2, <3>4, <4>1, <4>2
    <3> QED BY <2>5, <3>3, <3>4
  <2> HIDE DEF T
  <2>6. \A k \in 0..(L - 1) : k \in T
    <3>1. PICK M \in Nat : M = L - 1
      BY <2>1
    <3>2. \A k \in 0..M : k \in T
      BY <2>4, <2>5, <3>1, UpTo
    <3> QED BY <3>1, <3>2
  <2>7. Keeps(f[L - 1].trades, g[L - 1].trades)
    <3>1. Good(L - 1)
      BY <2>1, <2>6 DEF T
    <3> QED BY <3>1 DEF Keeps
  <2>8. /\ f[L] = Turn(bs, is, L, f[L - 1]) /\ g[L] = Turn(cs, js, L, g[L - 1])
        /\ g[L + 1] = Turn(cs, js, L + 1, g[L]) /\ g[L - 1] \in LoopStates(cs) /\ g[L] \in LoopStates(cs)
        /\ L \in 1..Len(cs) /\ L + 1 \in 1..Len(cs)
    <3>1. L \in 1..L /\ L \in 1..(L + 1) /\ L + 1 \in 1..(L + 1) /\ L - 1 \in 0..(L + 1)
          /\ L \in 0..(L + 1) /\ (L + 1) - 1 = L
      BY <2>1
    <3> QED BY <2>1, <2>2, <2>3, <3>1
  <2>9. f[L] = f[L - 1]
    BY <2>1, <2>8 DEF Turn, Taken
  <2>10. Keeps(f[L].trades, g[L].trades)
    BY <2>1, <2>7, <2>8, <2>9, TurnAppends
  <2>11. Keeps(f[L].trades, g[L + 1].trades)
    BY <2>1, <2>8, <2>10, TurnAppends
  <2>12. Run(bs, is) = f[L].trades /\ Run(cs, js) = g[L + 1].trades
    BY <2>1, <1>2 DEF Run
  <2> QED BY <2>11, <2>12
<1> QED BY <1>1, <1>2

(* Whatever the next bar brings, a trade that was over stays what it was,  *)
(* at its place: nothing simulated so far rested on a later bar.           *)
THEOREM LaterBarsChangeNothing == BacktestSpec => NoLookAhead
<1> DEFINE Step == \A n \in DOMAIN trades : trades[n].reason # "END_OF_DATA" =>
                     n \in DOMAIN trades' /\ trades'[n] = trades[n]
<1>1. ASSUME BacktestInv, [BarClosed]_history PROVE [Step]_history
  <2>1. CASE BarClosed
    <3>1. PICK bs, cs, is, js : bs = bars /\ cs = bars' /\ is = intents /\ js = intents'
      OBVIOUS
    <3>2. PICK b \in Bars : cs = Append(bs, b)
      BY <1>1, <2>1, <3>1, BarStep
    <3>3. bs \in Seq(Bars) /\ \A k \in DOMAIN is : is[k] \in Intents
      BY <1>1, <3>1 DEF BacktestInv
    <3>4. /\ DOMAIN js \in SUBSET (DOMAIN is \cup {Len(bs) + 1})
          /\ \A k \in DOMAIN is : k \in DOMAIN js /\ js[k] = is[k]
          /\ \A k \in DOMAIN js : js[k] \in Intents
      BY <1>1, <2>1, <3>1, BarStep
    <3>5. \A k \in 1..Len(bs) : (k \in DOMAIN is <=> k \in DOMAIN js) /\ (k \in DOMAIN is => js[k] = is[k])
      BY <3>3, <3>4
    <3>6. Keeps(Run(bs, is), Run(cs, js))
      BY <3>2, <3>3, <3>4, <3>5, RunsAgree
    <3>7. trades = Run(bs, is) /\ trades' = Run(cs, js)
      BY <1>1, <2>1, <3>1, BarStep DEF BacktestInv
    <3> QED BY <3>6, <3>7 DEF Keeps
  <2>2. CASE UNCHANGED history
    BY <2>2
  <2> QED BY <1>1, <2>1, <2>2
<1>2. BacktestInv /\ [BarClosed]_history => [Step]_history
  BY <1>1
<1> QED BY <1>2, BacktestInvAlways, PTL DEF BacktestSpec, NoLookAhead
-----------------------------------------------------------------------------
(* Market structure.  One side of it: values with swings, and closes that  *)
(* are looked at above them.  i is the latest swing confirmed by bar k,    *)
(* and it is broken when a close since its confirmation is above it.       *)
SideOK(values, closes, i, broken, k) ==
  /\ i \in 0..k /\ broken \in BOOLEAN
  /\ i = 0 => broken
  /\ i # 0 => i + PivotRight <= k /\ IsSwing(values, i)
  /\ \A j \in 1..k : j + PivotRight <= k /\ IsSwing(values, j) => j <= i
  /\ i # 0 => (broken <=> \E j \in (i + PivotRight)..k : closes[j] > values[i])

Above(values, closes, i, k) ==
  /\ i # 0
  /\ closes[k] > values[i]
  /\ \A j \in (i + PivotRight)..(k - 1) : closes[j] <= values[i]

(* One bar, on one side, when no break of the other side hides its break:  *)
(* it may confirm a swing, which is the latest then, and may break it.     *)
Turned(values, closes, k, i, broken, swing, latest, breaks) ==
  /\ values \in Seq(Int) /\ closes \in [1..Len(values) -> Int]
  /\ k \in 1..Len(values) /\ i \in 0..(k - 1)
  /\ broken \in BOOLEAN /\ swing \in BOOLEAN /\ breaks \in BOOLEAN
  /\ SideOK(values, closes, i, broken, k - 1)
  /\ swing <=> k - PivotRight > 0 /\ IsSwing(values, k - PivotRight)
  /\ latest = IF swing THEN k - PivotRight ELSE i
  /\ breaks <=> latest # 0 /\ Breaks(swing, broken, closes[IF k = 1 THEN 1 ELSE k - 1],
                                     closes[k], values[latest])

LEMMA SideStep ==
  ASSUME NEW values, NEW closes, NEW k, NEW i, NEW broken, NEW swing, NEW latest, NEW breaks,
         Turned(values, closes, k, i, broken, swing, latest, breaks)
  PROVE  /\ breaks <=> Above(values, closes, latest, k)
         /\ SideOK(values, closes, latest, breaks \/ (~swing /\ broken), k)
<1> USE StructureAssumption
<1> DEFINE after == breaks \/ (~swing /\ broken)
<1>0. /\ values \in Seq(Int) /\ closes \in [1..Len(values) -> Int]
      /\ k \in 1..Len(values) /\ i \in 0..(k - 1)
      /\ broken \in BOOLEAN /\ swing \in BOOLEAN /\ breaks \in BOOLEAN
      /\ SideOK(values, closes, i, broken, k - 1)
      /\ swing <=> k - PivotRight > 0 /\ IsSwing(values, k - PivotRight)
      /\ latest = IF swing THEN k - PivotRight ELSE i
      /\ breaks <=> latest # 0 /\ Breaks(swing, broken, closes[IF k = 1 THEN 1 ELSE k - 1],
                                         closes[k], values[latest])
  BY DEF Turned
<1>1. /\ Len(values) \in Nat /\ k \in Nat /\ PivotRight \in Nat /\ PivotRight >= 1
      /\ \A j \in 1..Len(values) : values[j] \in Int /\ closes[j] \in Int
  <2>1. \A j \in 1..Len(values) : values[j] \in Int
    BY <1>0
  <2>2. \A j \in 1..Len(values) : closes[j] \in Int
    BY <1>0
  <2> QED BY <1>0, <2>1, <2>2
<1>2. latest \in 0..k /\ after \in BOOLEAN
  BY <1>0, <1>1 DEF IsSwing
<1>3. latest # 0 => latest + PivotRight <= k /\ IsSwing(values, latest)
  BY <1>0, <1>1 DEF SideOK
<1>4. \A j \in 1..k : j + PivotRight <= k /\ IsSwing(values, j) => j <= latest
  <2> SUFFICES ASSUME NEW j \in 1..k, j + PivotRight <= k, IsSwing(values, j)
               PROVE  j <= latest
    OBVIOUS
  <2>1. CASE j + PivotRight = k
    BY <1>0, <1>1, <2>1
  <2>2. CASE j + PivotRight # k
    <3>1. j \in 1..(k - 1) /\ j + PivotRight <= k - 1
      BY <1>0, <1>1, <2>2
    <3>2. j <= i
      BY <1>0, <3>1 DEF SideOK
    <3> QED BY <1>0, <1>1, <3>1, <3>2
  <2> QED BY <2>1, <2>2
<1>5. CASE swing
  <2>1. latest = k - PivotRight /\ latest \in 1..k /\ latest # 0 /\ latest + PivotRight = k
    BY <1>0, <1>1, <1>5
  <2>2. breaks <=> closes[k] > values[latest]
    BY <1>0, <1>5, <2>1 DEF Breaks
  <2>3. (latest + PivotRight)..k = {k} /\ (latest + PivotRight)..(k - 1) = {}
    BY <1>0, <1>1, <2>1
  <2>4. after = breaks
    BY <1>0, <1>5
  <2> QED BY <1>2, <1>3, <1>4, <2>1, <2>2, <2>3, <2>4 DEF SideOK, Above
<1>6. CASE ~swing /\ i = 0
  <2>1. latest = 0 /\ broken /\ ~breaks
    BY <1>0, <1>6 DEF SideOK
  <2> QED BY <1>2, <1>3, <1>4, <1>6, <2>1 DEF SideOK, Above
<1>7. CASE ~swing /\ i # 0
  <2>1. /\ latest = i /\ latest # 0 /\ latest + PivotRight <= k - 1 /\ k # 1
        /\ latest \in 1..Len(values)
    BY <1>0, <1>1, <1>7 DEF SideOK
  <2>2. (latest + PivotRight)..k = ((latest + PivotRight)..(k - 1)) \cup {k}
    BY <1>0, <1>1, <2>1
  <2>3. broken <=> \E j \in (latest + PivotRight)..(k - 1) : closes[j] > values[latest]
    BY <1>0, <2>1 DEF SideOK
  <2>4. \A j \in (latest + PivotRight)..k : j \in 1..Len(values)
    BY <1>0, <1>1, <2>1
  <2>5. CASE broken
    <3>1. ~breaks /\ after
      BY <1>0, <1>7, <2>5 DEF Breaks
    <3>2. PICK j \in (latest + PivotRight)..(k - 1) : closes[j] > values[latest]
      BY <2>3, <2>5
    <3>3. ~(closes[j] <= values[latest])
      BY <1>1, <2>1, <2>2, <2>4, <3>2
    <3>4. ~Above(values, closes, latest, k)
      BY <3>2, <3>3 DEF Above
    <3>5. \E m \in (latest + PivotRight)..k : closes[m] > values[latest]
      BY <2>2, <3>2
    <3> QED BY <1>2, <1>3, <1>4, <2>1, <3>1, <3>4, <3>5 DEF SideOK
  <2>6. CASE ~broken
    <3>1. \A j \in (latest + PivotRight)..(k - 1) : closes[j] <= values[latest]
      BY <1>1, <2>1, <2>2, <2>3, <2>4, <2>6
    <3>2. k - 1 \in (latest + PivotRight)..(k - 1)
      BY <1>0, <1>1, <2>1
    <3>3. closes[k - 1] <= values[latest]
      BY <3>1, <3>2
    <3>4. breaks <=> closes[k] > values[latest]
      BY <1>0, <1>7, <2>1, <2>6, <3>3 DEF Breaks
    <3>5. after = breaks
      BY <1>0, <2>6
    <3>6. breaks <=> Above(values, closes, latest, k)
      BY <2>1, <3>1, <3>4 DEF Above
    <3>7. breaks <=> \E m \in (latest + PivotRight)..k : closes[m] > values[latest]
      BY <2>2, <2>3, <2>6, <3>4
    <3> QED BY <1>2, <1>3, <1>4, <2>1, <3>5, <3>6, <3>7 DEF SideOK
  <2> QED BY <2>5, <2>6
<1> QED BY <1>5, <1>6, <1>7

(* No bar is the first to close above a swing high and below a swing low:  *)
(* whichever of the two was confirmed first, the other one's bar closed,   *)
(* or reached, on the wrong side of it.                                    *)
LEMMA OneSide ==
  ASSUME NEW bs \in Seq(Candle), NEW k \in 1..Len(bs), NEW h \in 1..k, NEW l \in 1..k,
         h + PivotRight <= k, l + PivotRight <= k, SwingHigh(bs, h), SwingLow(bs, l),
         Above(Highs(bs), [j \in DOMAIN bs |-> bs[j].close], h, k)
  PROVE  ~Above(Depths(bs), [j \in DOMAIN bs |-> -bs[j].close], l, k)
<1> USE StructureAssumption
<1> SUFFICES ASSUME Above(Depths(bs), [j \in DOMAIN bs |-> -bs[j].close], l, k)
             PROVE  FALSE
  OBVIOUS
<1>1. /\ Len(bs) \in Nat /\ PivotRight \in Nat /\ PivotRight >= 1 /\ DOMAIN bs = 1..Len(bs)
      /\ h \in Nat /\ l \in Nat /\ k \in Nat
  OBVIOUS
<1>2. \A j \in 1..Len(bs) :
        /\ bs[j].high \in Int /\ bs[j].low \in Int /\ bs[j].close \in Int
        /\ bs[j].low <= bs[j].close /\ bs[j].close <= bs[j].high
  <2> TAKE j \in 1..Len(bs)
  <2>1. bs[j] \in Candle
    OBVIOUS
  <2> QED BY <2>1 DEF Candle
<1>3. h \in 1..Len(bs) /\ l \in 1..Len(bs)
  BY <1>1
<1>4. /\ bs[k].close > bs[h].high
      /\ \A j \in (h + PivotRight)..(k - 1) : bs[j].close <= bs[h].high
  <2>1. \A j \in (h + PivotRight)..(k - 1) : j \in 1..Len(bs)
    BY <1>1
  <2>2. Highs(bs)[h] = bs[h].high
    BY <1>1, <1>3 DEF Highs
  <2>3. \A j \in 1..Len(bs) : [m \in DOMAIN bs |-> bs[m].close][j] = bs[j].close
    BY <1>1
  <2> QED BY <1>1, <2>1, <2>2, <2>3, Zenon DEF Above
<1>5. /\ bs[k].close < bs[l].low
      /\ \A j \in (l + PivotRight)..(k - 1) : bs[j].close >= bs[l].low
  <2>1. \A j \in (l + PivotRight)..(k - 1) : j \in 1..Len(bs)
    BY <1>1
  <2>2. Depths(bs)[l] = -bs[l].low
    BY <1>1, <1>3 DEF Depths
  <2>3. \A j \in 1..Len(bs) : [m \in DOMAIN bs |-> -bs[m].close][j] = -bs[j].close
    BY <1>1
  <2>4. /\ -bs[k].close > -bs[l].low
        /\ \A j \in (l + PivotRight)..(k - 1) : -bs[j].close <= -bs[l].low
    BY <1>1, <2>1, <2>2, <2>3, Zenon DEF Above
  <2> QED BY <1>2, <1>3, <2>1, <2>4
<1>6. bs[h].high < bs[l].low
  BY <1>2, <1>3, <1>4, <1>5
<1>7. CASE h = l
  BY <1>2, <1>3, <1>6, <1>7
<1>8. CASE h < l
  <2>1. CASE l >= h + PivotRight
    <3>1. l \in (h + PivotRight)..(k - 1)
      BY <1>1, <2>1
    <3>2. bs[l].close <= bs[h].high
      BY <1>4, <3>1
    <3> QED BY <1>2, <1>3, <1>6, <3>2
  <2>2. CASE l < h + PivotRight
    <3>1. l \in (h - PivotLeft)..(h + PivotRight) /\ l # h
      BY <1>1, <1>8, <2>2
    <3>2. bs[l].high < bs[h].high
      BY <1>1, <1>3, <3>1 DEF SwingHigh, IsSwing, Highs
    <3> QED BY <1>2, <1>3, <1>6, <3>2
  <2> QED BY <1>1, <2>1, <2>2
<1>9. CASE l < h
  <2>1. CASE h >= l + PivotRight
    <3>1. h \in (l + PivotRight)..(k - 1)
      BY <1>1, <2>1
    <3>2. bs[h].close >= bs[l].low
      BY <1>5, <3>1
    <3> QED BY <1>2, <1>3, <1>6, <3>2
  <2>2. CASE h < l + PivotRight
    <3>1. h \in (l - PivotLeft)..(l + PivotRight) /\ l # h
      BY <1>1, <1>9, <2>2
    <3>2. -bs[h].low < -bs[l].low
      BY <1>1, <1>3, <3>1 DEF SwingLow, IsSwing, Depths
    <3> QED BY <1>2, <1>3, <1>6, <3>2
  <2> QED BY <1>1, <2>1, <2>2
<1> QED BY <1>1, <1>7, <1>8, <1>9

LEMMA HighsAndDepths ==
  ASSUME NEW bs \in Seq(Candle)
  PROVE  /\ Highs(bs) \in Seq(Int) /\ Len(Highs(bs)) = Len(bs)
         /\ Depths(bs) \in Seq(Int) /\ Len(Depths(bs)) = Len(bs)
<1>1. \A j \in 1..Len(bs) : bs[j].high \in Int /\ -bs[j].low \in Int
  <2> TAKE j \in 1..Len(bs)
  <2>1. bs[j] \in Candle
    OBVIOUS
  <2> QED BY <2>1 DEF Candle
<1>2. Highs(bs) = [k \in 1..Len(bs) |-> bs[k].high] /\ Depths(bs) = [k \in 1..Len(bs) |-> -bs[k].low]
  BY DEF Highs, Depths
<1> QED BY <1>1, <1>2

(* A swing is confirmed by the bars that are there.                        *)
LEMMA SeenSwing ==
  ASSUME NEW bs \in Seq(Candle), NEW k \in 1..Len(bs), NEW p \in 1..k, p + PivotRight <= k
  PROVE  /\ SwingHigh(SubSeq(bs, 1, k), p) <=> SwingHigh(bs, p)
         /\ SwingLow(SubSeq(bs, 1, k), p) <=> SwingLow(bs, p)
<1> USE StructureAssumption
<1> DEFINE seen == SubSeq(bs, 1, k)
<1>1. /\ Len(bs) \in Nat /\ DOMAIN bs = 1..Len(bs) /\ k \in Nat /\ p \in Nat
      /\ seen \in Seq(Candle) /\ Len(seen) = k /\ DOMAIN seen = 1..k
      /\ \A j \in 1..k : seen[j] = bs[j]
  OBVIOUS
<1> HIDE DEF seen
<1>2. /\ Highs(seen) \in Seq(Int) /\ Len(Highs(seen)) = k
      /\ Highs(bs) \in Seq(Int) /\ Len(Highs(bs)) = Len(bs)
      /\ Depths(seen) \in Seq(Int) /\ Len(Depths(seen)) = k
      /\ Depths(bs) \in Seq(Int) /\ Len(Depths(bs)) = Len(bs)
  BY <1>1, HighsAndDepths
<1>3. \A j \in 1..k : Highs(seen)[j] = Highs(bs)[j] /\ Depths(seen)[j] = Depths(bs)[j]
  BY <1>1 DEF Highs, Depths
<1>4. p > PivotLeft => \A j \in (p - PivotLeft)..(p + PivotRight) : j \in 1..k
  BY <1>1
<1>5. k + 0 <= Len(bs) /\ p + PivotRight <= Len(bs)
  BY <1>1
<1>6. SwingHigh(seen, p) <=> SwingHigh(bs, p)
  BY <1>1, <1>2, <1>3, <1>4, <1>5 DEF SwingHigh, IsSwing
<1>7. SwingLow(seen, p) <=> SwingLow(bs, p)
  BY <1>1, <1>2, <1>3, <1>4, <1>5 DEF SwingLow, IsSwing
<1> QED BY <1>6, <1>7 DEF seen

-----------------------------------------------------------------------------
(* Both sides of a series, and what the state of bar k says of them.       *)
Closes(bs) == [j \in DOMAIN bs |-> bs[j].close]
Falls(bs) == [j \in DOMAIN bs |-> -bs[j].close]

SwingState(bs) ==
  [trend : {"RANGE", "UP", "DOWN"},
   event : {"NONE", "BOS_UP", "CHOCH_UP", "BOS_DOWN", "CHOCH_DOWN"},
   high : 0..Len(bs), low : 0..Len(bs), highBroken : BOOLEAN, lowBroken : BOOLEAN]

StateOK(bs, s, k) ==
  /\ SideOK(Highs(bs), Closes(bs), s.high, s.highBroken, k)
  /\ SideOK(Depths(bs), Falls(bs), s.low, s.lowBroken, k)

Tells(bs, s, k) ==
  /\ s.event \in {"BOS_UP", "CHOCH_UP"} <=> Above(Highs(bs), Closes(bs), s.high, k)
  /\ s.event \in {"BOS_DOWN", "CHOCH_DOWN"} <=> Above(Depths(bs), Falls(bs), s.low, k)
  /\ s.event \in {"BOS_UP", "CHOCH_UP"} => s.trend = "UP"
  /\ s.event \in {"BOS_DOWN", "CHOCH_DOWN"} => s.trend = "DOWN"

LEMMA StateType ==
  ASSUME NEW bs \in Seq(Candle), NEW k \in 1..Len(bs), NEW s \in SwingState(bs)
  PROVE  StateAfter(s, bs, k) \in SwingState(bs)
<1> USE StructureAssumption
<1>1. k \in Nat /\ Len(bs) \in Nat /\ (k - PivotRight > 0 => k - PivotRight \in 0..Len(bs))
  OBVIOUS
<1>2. StateAfter(s, bs, k).high \in 0..Len(bs) /\ StateAfter(s, bs, k).low \in 0..Len(bs)
  BY <1>1 DEF StateAfter, SwingState
<1> QED BY <1>2 DEF StateAfter, SwingState

LEMMA StateStep ==
  ASSUME NEW bs \in Seq(Candle), NEW k \in 1..Len(bs), NEW s \in SwingState(bs), StateOK(bs, s, k - 1)
  PROVE  StateOK(bs, StateAfter(s, bs, k), k) /\ Tells(bs, StateAfter(s, bs, k), k)
<1> USE StructureAssumption
<1>1. /\ k \in Nat /\ k >= 1 /\ Len(bs) \in Nat /\ k <= Len(bs) /\ DOMAIN bs = 1..Len(bs)
      /\ PivotRight \in Nat /\ PivotRight >= 1
  OBVIOUS
<1> DEFINE pivot == k - PivotRight
           newHigh == pivot > 0 /\ SwingHigh(SubSeq(bs, 1, k), pivot)
           newLow == pivot > 0 /\ SwingLow(SubSeq(bs, 1, k), pivot)
           high == IF newHigh THEN pivot ELSE s.high
           low == IF newLow THEN pivot ELSE s.low
           previous == bs[IF k = 1 THEN 1 ELSE k - 1].close
           breaksHigh == /\ high # 0
                         /\ Breaks(newHigh, s.highBroken, previous, bs[k].close, bs[high].high)
           first == /\ low # 0
                    /\ Breaks(newLow, s.lowBroken, -previous, -bs[k].close, -bs[low].low)
           breaksLow == /\ low # 0 /\ ~breaksHigh
                        /\ Breaks(newLow, s.lowBroken, -previous, -bs[k].close, -bs[low].low)
           after == StateAfter(s, bs, k)
<1>2. after = [trend |-> IF breaksHigh THEN "UP" ELSE IF breaksLow THEN "DOWN" ELSE s.trend,
               event |-> IF breaksHigh THEN (IF s.trend = "DOWN" THEN "CHOCH_UP" ELSE "BOS_UP")
                         ELSE IF breaksLow THEN (IF s.trend = "UP" THEN "CHOCH_DOWN" ELSE "BOS_DOWN")
                         ELSE "NONE",
               high |-> high, low |-> low,
               highBroken |-> breaksHigh \/ (~newHigh /\ s.highBroken),
               lowBroken |-> breaksLow \/ (~newLow /\ s.lowBroken)]
  BY Zenon DEF StateAfter
<1>3. breaksLow <=> first /\ ~breaksHigh
  OBVIOUS
<1>4. /\ newHigh <=> pivot > 0 /\ IsSwing(Highs(bs), pivot)
      /\ newLow <=> pivot > 0 /\ IsSwing(Depths(bs), pivot)
  <2>1. pivot > 0 => pivot \in 1..k /\ pivot + PivotRight <= k
    BY <1>1
  <2> QED BY <2>1, SeenSwing DEF SwingHigh, SwingLow
<1>5. /\ Highs(bs) \in Seq(Int) /\ Len(Highs(bs)) = Len(bs)
      /\ Depths(bs) \in Seq(Int) /\ Len(Depths(bs)) = Len(bs)
  BY HighsAndDepths
<1>6. /\ Closes(bs) \in [1..Len(bs) -> Int] /\ Falls(bs) \in [1..Len(bs) -> Int]
      /\ \A j \in 1..Len(bs) : Closes(bs)[j] = bs[j].close /\ Falls(bs)[j] = -bs[j].close
      /\ \A j \in 1..Len(bs) : Highs(bs)[j] = bs[j].high /\ Depths(bs)[j] = -bs[j].low
  <2>1. \A j \in 1..Len(bs) : bs[j].close \in Int /\ -bs[j].close \in Int
    <3> TAKE j \in 1..Len(bs)
    <3>1. bs[j] \in Candle
      OBVIOUS
    <3> QED BY <3>1 DEF Candle
  <2> QED BY <1>1, <2>1 DEF Closes, Falls, Highs, Depths
<1>7. /\ s.high \in 0..(k - 1) /\ s.highBroken \in BOOLEAN
      /\ s.low \in 0..(k - 1) /\ s.lowBroken \in BOOLEAN
      /\ SideOK(Highs(bs), Closes(bs), s.high, s.highBroken, k - 1)
      /\ SideOK(Depths(bs), Falls(bs), s.low, s.lowBroken, k - 1)
  BY DEF StateOK, SideOK
<1>8. /\ high # 0 => high \in 1..Len(bs)
      /\ low # 0 => low \in 1..Len(bs)
      /\ (IF k = 1 THEN 1 ELSE k - 1) \in 1..Len(bs)
  BY <1>1, <1>7
<1>9. /\ Closes(bs)[IF k = 1 THEN 1 ELSE k - 1] = previous /\ Closes(bs)[k] = bs[k].close
      /\ Falls(bs)[IF k = 1 THEN 1 ELSE k - 1] = -previous /\ Falls(bs)[k] = -bs[k].close
      /\ high # 0 => Highs(bs)[high] = bs[high].high
      /\ low # 0 => Depths(bs)[low] = -bs[low].low
  BY <1>6, <1>8
<1>10. /\ breaksHigh \in BOOLEAN
       /\ breaksHigh <=> high # 0 /\ Breaks(newHigh, s.highBroken, Closes(bs)[IF k = 1 THEN 1 ELSE k - 1],
                                             Closes(bs)[k], Highs(bs)[high])
       /\ first \in BOOLEAN
       /\ first <=> low # 0 /\ Breaks(newLow, s.lowBroken, Falls(bs)[IF k = 1 THEN 1 ELSE k - 1],
                                       Falls(bs)[k], Depths(bs)[low])
  BY <1>9, Zenon
<1>11. high = (IF newHigh THEN pivot ELSE s.high) /\ low = (IF newLow THEN pivot ELSE s.low)
  OBVIOUS
<1>12. breaksLow \in BOOLEAN /\ newHigh \in BOOLEAN /\ newLow \in BOOLEAN
  OBVIOUS
<1> HIDE DEF newHigh, newLow, high, low, breaksHigh, first, breaksLow, previous, after
<1>13. /\ breaksHigh <=> Above(Highs(bs), Closes(bs), high, k)
       /\ SideOK(Highs(bs), Closes(bs), high, breaksHigh \/ (~newHigh /\ s.highBroken), k)
  <2>1. PICK v, c, i, j : v = Highs(bs) /\ c = Closes(bs) /\ i = s.high /\ j = high
    OBVIOUS
  <2>2. PICK new \in BOOLEAN, old \in BOOLEAN, breaks \in BOOLEAN :
          (new <=> newHigh) /\ old = s.highBroken /\ (breaks <=> breaksHigh)
    BY <1>7, <1>10, <1>12
  <2>3. /\ v \in Seq(Int) /\ c \in [1..Len(v) -> Int] /\ k \in 1..Len(v) /\ i \in 0..(k - 1)
        /\ SideOK(v, c, i, old, k - 1)
    BY <1>5, <1>6, <1>7, <2>1, <2>2
  <2>4. new <=> k - PivotRight > 0 /\ IsSwing(v, k - PivotRight)
    BY <1>4, <2>1, <2>2
  <2>5. j = IF new THEN k - PivotRight ELSE i
    BY <1>11, <2>1, <2>2
  <2>6. breaks <=> j # 0 /\ Breaks(new, old, c[IF k = 1 THEN 1 ELSE k - 1], c[k], v[j])
    BY <1>10, <1>12, <2>1, <2>2 DEF Breaks
  <2>7. Turned(v, c, k, i, old, new, j, breaks)
    BY <2>3, <2>4, <2>5, <2>6 DEF Turned
  <2>8. (breaks <=> Above(v, c, j, k)) /\ SideOK(v, c, j, breaks \/ (~new /\ old), k)
    BY <2>7, SideStep
  <2>9. (breaks \/ (~new /\ old)) = (breaksHigh \/ (~newHigh /\ s.highBroken))
    BY <1>10, <1>12, <2>2
  <2> QED BY <2>1, <2>2, <2>8, <2>9
<1>14. /\ first <=> Above(Depths(bs), Falls(bs), low, k)
       /\ SideOK(Depths(bs), Falls(bs), low, first \/ (~newLow /\ s.lowBroken), k)
  <2>1. PICK v, c, i, j : v = Depths(bs) /\ c = Falls(bs) /\ i = s.low /\ j = low
    OBVIOUS
  <2>2. PICK new \in BOOLEAN, old \in BOOLEAN, breaks \in BOOLEAN :
          (new <=> newLow) /\ old = s.lowBroken /\ (breaks <=> first)
    BY <1>7, <1>10, <1>12
  <2>3. /\ v \in Seq(Int) /\ c \in [1..Len(v) -> Int] /\ k \in 1..Len(v) /\ i \in 0..(k - 1)
        /\ SideOK(v, c, i, old, k - 1)
    BY <1>5, <1>6, <1>7, <2>1, <2>2
  <2>4. new <=> k - PivotRight > 0 /\ IsSwing(v, k - PivotRight)
    BY <1>4, <2>1, <2>2
  <2>5. j = IF new THEN k - PivotRight ELSE i
    BY <1>11, <2>1, <2>2
  <2>6. breaks <=> j # 0 /\ Breaks(new, old, c[IF k = 1 THEN 1 ELSE k - 1], c[k], v[j])
    BY <1>10, <1>12, <2>1, <2>2 DEF Breaks
  <2>7. Turned(v, c, k, i, old, new, j, breaks)
    BY <2>3, <2>4, <2>5, <2>6 DEF Turned
  <2>8. (breaks <=> Above(v, c, j, k)) /\ SideOK(v, c, j, breaks \/ (~new /\ old), k)
    BY <2>7, SideStep
  <2>9. (breaks \/ (~new /\ old)) = (first \/ (~newLow /\ s.lowBroken))
    BY <1>10, <1>12, <2>2
  <2> QED BY <2>1, <2>2, <2>8, <2>9
<1>15. ~(breaksHigh /\ first)
  <2> SUFFICES ASSUME breaksHigh, first PROVE FALSE
    OBVIOUS
  <2>1. /\ high \in 1..k /\ high + PivotRight <= k /\ SwingHigh(bs, high)
        /\ low \in 1..k /\ low + PivotRight <= k /\ SwingLow(bs, low)
    BY <1>1, <1>13, <1>14 DEF Above, SideOK, SwingHigh, SwingLow
  <2>2. /\ Above(Highs(bs), [j \in DOMAIN bs |-> bs[j].close], high, k)
        /\ Above(Depths(bs), [j \in DOMAIN bs |-> -bs[j].close], low, k)
    BY <1>13, <1>14 DEF Closes, Falls
  <2> QED BY <2>1, <2>2, OneSide
<1>16. breaksLow = first
  BY <1>3, <1>10, <1>15, <1>12
<1>17. StateOK(bs, after, k)
  BY <1>2, <1>13, <1>14, <1>16 DEF StateOK
<1>18. Tells(bs, after, k)
  <2>1. after.event \in {"BOS_UP", "CHOCH_UP"} <=> breaksHigh
    BY <1>2
  <2>2. after.event \in {"BOS_DOWN", "CHOCH_DOWN"} <=> breaksLow
    BY <1>2, <1>15, <1>16
  <2>3. (breaksHigh => after.trend = "UP") /\ (breaksLow => after.trend = "DOWN")
    BY <1>2, <1>15, <1>16
  <2>4. after.high = high /\ after.low = low
    BY <1>2
  <2>5. /\ breaksHigh <=> Above(Highs(bs), Closes(bs), after.high, k)
        /\ breaksLow <=> Above(Depths(bs), Falls(bs), after.low, k)
    BY <1>13, <1>14, <1>16, <2>4
  <2> HIDE DEF after
  <2> QED BY <2>1, <2>2, <2>3, <2>5 DEF Tells
<1> QED BY <1>17, <1>18 DEF after

(* The recursion over the bars of a series keeps both.                     *)
LEMMA TraceIs ==
  ASSUME NEW bs \in Seq(Candle)
  PROVE  \A k \in 1..Len(bs) : /\ Trace(bs)[k] \in SwingState(bs)
                               /\ StateOK(bs, Trace(bs)[k], k) /\ Tells(bs, Trace(bs)[k], k)
<1> DEFINE L == Len(bs)
           S == SwingState(bs)
           turn == [k \in 1..L |-> [s \in S |-> StateAfter(s, bs, k)]]
<1>1. L \in Nat
  OBVIOUS
<1>2. StartState \in S
  BY DEF StartState, SwingState
<1>3. turn \in [1..L -> [S -> S]] /\ \A k \in 1..L : \A s \in S : turn[k][s] = StateAfter(s, bs, k)
  BY StateType
<1> HIDE DEF turn, S, L
<1>4. PICK f : Follows(f, L, S, StartState, turn)
  BY <1>1, <1>2, <1>3, RecursionExists
<1>5. ASSUME NEW k \in 1..L PROVE f[k] = StateAfter(f[k - 1], bs, k)
  <2>1. f[k - 1] \in S
    BY <1>1, <1>4 DEF Follows
  <2> QED BY <1>3, <1>4, <2>1 DEF Follows
<1>6. f = [k \in 0..L |-> IF k = 0 THEN StartState ELSE StateAfter(f[k - 1], bs, k)]
  <2>1. \A k \in 0..L : f[k] = IF k = 0 THEN StartState ELSE StateAfter(f[k - 1], bs, k)
    BY <1>1, <1>4, <1>5 DEF Follows
  <2> QED BY <1>4, <2>1, Zenon DEF Follows
<1> DEFINE at == Trace(bs)
<1>7. at = [k \in 0..L |-> IF k = 0 THEN StartState ELSE StateAfter(at[k - 1], bs, k)]
  BY <1>6, Zenon DEF Trace, L
<1> HIDE DEF at
<1>8. \A k \in 0..L : at[k] = IF k = 0 THEN StartState ELSE StateAfter(at[k - 1], bs, k)
  BY <1>7, Zenon
<1>9. at[0] = StartState /\ \A k \in 1..L : at[k] = StateAfter(at[k - 1], bs, k)
  BY <1>1, <1>8
<1> DEFINE Good(k) == at[k] \in S /\ StateOK(bs, at[k], k)
           T == {k \in 0..L : Good(k)}
<1>10. 0 \in T
  <2>1. StateOK(bs, StartState, 0)
    BY DEF StateOK, SideOK, StartState
  <2> QED BY <1>1, <1>2, <1>9, <2>1
<1>11. ASSUME NEW k \in 1..L, k - 1 \in T PROVE k \in T
  <2>1. StateAfter(at[k - 1], bs, k) \in S /\ StateOK(bs, StateAfter(at[k - 1], bs, k), k)
    BY <1>11, StateType, StateStep DEF L, S
  <2> QED BY <1>1, <1>9, <2>1
<1> HIDE DEF T
<1>12. \A k \in 0..L : k \in T
  BY <1>1, <1>10, <1>11, UpTo
<1> USE DEF T
<1>13. ASSUME NEW k \in 1..L PROVE Good(k) /\ Tells(bs, at[k], k)
  <2>1. k - 1 \in 0..L /\ k \in 0..L
    BY <1>1
  <2>2. Good(k - 1) /\ Good(k)
    BY <1>12, <2>1
  <2>3. Tells(bs, StateAfter(at[k - 1], bs, k), k)
    BY <2>2, StateStep DEF L, S
  <2> QED BY <1>9, <2>2, <2>3
<1> QED BY <1>13 DEF at, L, S

LEMMA LookedIs ==
  ASSUME NEW bs \in Seq(Candle), bs # <<>>
  PROVE  Looked(bs, Lookback) \in Seq(Candle) /\ Looked(bs, Lookback) # <<>>
<1> USE StructureAssumption
<1>1. Len(bs) \in Nat /\ Len(bs) >= 1
  OBVIOUS
<1>2. CASE Lookback > 0
  <2>1. PICK m : m = Larger(1, Len(bs) - Lookback + 1)
    OBVIOUS
  <2>2. m \in 1..Len(bs)
    BY <1>1, <1>2, <2>1 DEF Larger
  <2>3. Looked(bs, Lookback) = SubSeq(bs, m, Len(bs))
    BY <1>2, <2>1 DEF Looked
  <2>4. SubSeq(bs, m, Len(bs)) \in Seq(Candle) /\ Len(SubSeq(bs, m, Len(bs))) = Len(bs) - m + 1
    BY <1>1, <2>2
  <2>5. Len(SubSeq(bs, m, Len(bs))) # Len(<<>>)
    BY <1>1, <2>2, <2>4
  <2> QED BY <2>3, <2>4, <2>5
<1>3. CASE ~(Lookback > 0)
  BY <1>3 DEF Looked
<1> QED BY <1>2, <1>3

(* What the swing of a state says is what the property looks for.          *)
LEMMA AboveIsFirst ==
  ASSUME NEW values \in Seq(Int), NEW closes, NEW i, NEW broken, Len(values) >= 1,
         SideOK(values, closes, i, broken, Len(values))
  PROVE  Above(values, closes, i, Len(values)) <=> FirstAbove(values, closes)
<1> USE StructureAssumption
<1> DEFINE n == Len(values)
           swings == {k \in 1..n : IsSwing(values, k)}
<1>1. n \in Nat /\ PivotRight \in Nat
  OBVIOUS
<1>2. \A j \in swings : j + PivotRight <= n /\ j <= i
  BY <1>1 DEF SideOK, IsSwing
<1>3. CASE i = 0
  <2>1. swings = {}
    BY <1>1, <1>2, <1>3
  <2> QED BY <1>3, <2>1 DEF Above, FirstAbove
<1>4. CASE i # 0
  <2>1. i \in swings
    BY <1>1, <1>4 DEF SideOK
  <2>2. Max(swings) = i
    <3>1. i \in swings /\ \A y \in swings : i >= y
      BY <1>1, <1>2, <2>1
    <3>2. \A x \in swings : (\A y \in swings : x >= y) => x = i
      BY <1>1, <3>1
    <3> HIDE DEF swings
    <3> QED BY <3>1, <3>2, Zenon DEF Max
  <2>3. swings # {}
    BY <2>1
  <2> QED BY <1>4, <2>2, <2>3 DEF Above, FirstAbove
<1> QED BY <1>3, <1>4

AnyState ==
  [trend : {"RANGE", "UP", "DOWN"},
   event : {"NONE", "BOS_UP", "CHOCH_UP", "BOS_DOWN", "CHOCH_DOWN"},
   high : Nat, low : Nat, highBroken : BOOLEAN, lowBroken : BOOLEAN]

StructureInv ==
  /\ candles \in Seq(Candle) /\ structures \in Seq(AnyState)
  /\ candles # <<>> => structures # <<>> /\ Last(structures) = Detected(candles, Lookback)

LEMMA DetectedIs ==
  ASSUME NEW bs \in Seq(Candle), bs # <<>>, NEW w, w = Looked(bs, Lookback)
  PROVE  /\ w \in Seq(Candle) /\ Len(w) \in Nat /\ Len(w) >= 1
         /\ Detected(bs, Lookback) \in SwingState(w)
         /\ StateOK(w, Detected(bs, Lookback), Len(w))
         /\ Tells(w, Detected(bs, Lookback), Len(w))
<1>1. w \in Seq(Candle) /\ w # <<>> /\ Len(w) \in Nat /\ Len(w) >= 1
  BY LookedIs
<1>2. Detected(bs, Lookback) = Last(States(w))
  BY DEF Detected
<1>3. /\ States(w) = [k \in 1..Len(w) |-> Trace(w)[k]]
      /\ \A k \in 1..Len(w) : Trace(w)[k] \in SwingState(w)
  BY <1>1, TraceIs DEF States
<1>4. Len(States(w)) = Len(w) /\ Last(States(w)) = Trace(w)[Len(w)]
  <2>1. States(w) \in Seq(SwingState(w)) /\ Len(States(w)) = Len(w)
    BY <1>1, <1>3
  <2> QED BY <1>1, <1>3, <2>1 DEF Last
<1>5. Len(w) \in 1..Len(w)
  BY <1>1
<1> QED BY <1>1, <1>2, <1>4, <1>5, TraceIs

(* A break is reported on the first bar to close beyond the latest         *)
(* confirmed swing, and on no other, for every series of bars that close   *)
(* between their low and their high.                                       *)
THEOREM BreaksComeFirst == StructureSpec => []BreaksAreFirst
<1>1. StructureInit => StructureInv
  BY DEF StructureInit, StructureInv
<1>2. ASSUME StructureInv, [\E candle \in Candle : CandleCloses(candle)]_structure
      PROVE  StructureInv'
  <2>1. CASE UNCHANGED structure
    BY <1>2, <2>1 DEF StructureInv, structure
  <2>2. CASE \E candle \in Candle : CandleCloses(candle)
    <3>1. PICK candle \in Candle : CandleCloses(candle)
      BY <2>2
    <3>2. candles' \in Seq(Candle) /\ candles' # <<>>
      BY <1>2, <3>1 DEF StructureInv, CandleCloses
    <3>3. PICK d, w : d = Detected(candles', Lookback) /\ w = Looked(candles', Lookback)
      OBVIOUS
    <3>4. d \in SwingState(w) /\ Len(w) \in Nat
      BY <3>2, <3>3, DetectedIs
    <3>5. d \in AnyState
      BY <3>4 DEF SwingState, AnyState
    <3>6. structures' = Append(structures, d)
      BY <3>1, <3>3 DEF CandleCloses
    <3>7. structures \in Seq(AnyState)
      BY <1>2 DEF StructureInv
    <3>8. /\ structures' \in Seq(AnyState) /\ structures' # <<>>
          /\ structures'[Len(structures')] = d
      BY <3>5, <3>6, <3>7
    <3> QED BY <3>2, <3>3, <3>8 DEF StructureInv, Last
  <2> QED BY <1>2, <2>1, <2>2
<1>3. StructureInv => BreaksAreFirst
  <2> SUFFICES ASSUME StructureInv, candles # <<>> PROVE BreaksAreFirst
    BY DEF BreaksAreFirst
  <2>1. PICK w, s : w = Looked(candles, Lookback) /\ s = Last(structures)
    OBVIOUS
  <2>2. /\ w \in Seq(Candle) /\ Len(w) \in Nat /\ Len(w) >= 1
        /\ StateOK(w, s, Len(w)) /\ Tells(w, s, Len(w))
    BY <2>1, DetectedIs DEF StructureInv
  <2>3. /\ Highs(w) \in Seq(Int) /\ Len(Highs(w)) = Len(w)
        /\ Depths(w) \in Seq(Int) /\ Len(Depths(w)) = Len(w)
    BY <2>2, HighsAndDepths
  <2>4. /\ Above(Highs(w), Closes(w), s.high, Len(w)) <=> FirstAbove(Highs(w), Closes(w))
        /\ Above(Depths(w), Falls(w), s.low, Len(w)) <=> FirstAbove(Depths(w), Falls(w))
    BY <2>2, <2>3, AboveIsFirst DEF StateOK
  <2>5. /\ s.event \in {"BOS_UP", "CHOCH_UP"} <=> FirstAbove(Highs(w), [k \in DOMAIN w |-> w[k].close])
        /\ s.event \in {"BOS_DOWN", "CHOCH_DOWN"} <=> FirstAbove(Depths(w), [k \in DOMAIN w |-> -w[k].close])
        /\ s.event \in {"BOS_UP", "CHOCH_UP"} => s.trend = "UP"
        /\ s.event \in {"BOS_DOWN", "CHOCH_DOWN"} => s.trend = "DOWN"
    BY <2>2, <2>4 DEF Tells, Closes, Falls
  <2> QED BY <2>1, <2>5 DEF BreaksAreFirst
<1>4. QED
  BY <1>1, <1>2, <1>3, PTL DEF StructureSpec

-----------------------------------------------------------------------------
(* The history of funding.  A list that holds the payments of a stretch of *)
(* time, in order.                                                         *)
Holds(list, t) == \E i \in 1..Len(list) : list[i] = t

InOrder(list) == \A i, j \in 1..Len(list) : i < j => list[i] < list[j]

Lists(list, from, to) ==
  /\ list \in Seq(Nat) /\ InOrder(list)
  /\ \A i \in 1..Len(list) : list[i] \in Payments /\ from <= list[i] /\ list[i] <= to
  /\ \A t \in Payments : from <= t /\ t <= to => Holds(list, t)

LEMMA PaymentsAreTimes == \A t \in Payments : t \in Nat /\ t >= 1
<1> QED BY FundingAssumption

LEMMA ListsGrow ==
  ASSUME NEW from \in Nat, NEW t \in Nat \ {0}, NEW list, Lists(list, from, t - 1)
  PROVE  Lists(IF t \in Payments /\ from <= t THEN Append(list, t) ELSE list, from, t)
<1>1. /\ list \in Seq(Nat) /\ Len(list) \in Nat
      /\ \A i \in 1..Len(list) : list[i] \in Nat /\ list[i] <= t - 1
  BY DEF Lists
<1>2. CASE t \in Payments /\ from <= t
  <2> DEFINE more == Append(list, t)
  <2>1. /\ more \in Seq(Nat) /\ Len(more) = Len(list) + 1 /\ more[Len(list) + 1] = t
        /\ \A i \in 1..Len(list) : more[i] = list[i]
    BY <1>1
  <2> HIDE DEF more
  <2>2. ASSUME NEW i \in 1..Len(more), NEW j \in 1..Len(more), i < j PROVE more[i] < more[j]
    <3>1. CASE j \in 1..Len(list)
      <4>1. i \in 1..Len(list) /\ more[i] = list[i] /\ more[j] = list[j]
        BY <1>1, <2>1, <2>2, <3>1
      <4> QED BY <2>2, <3>1, <4>1 DEF Lists, InOrder
    <3>2. CASE j = Len(list) + 1
      <4>1. i \in 1..Len(list) /\ more[j] = t
        BY <1>1, <2>1, <2>2, <3>2
      <4>2. more[i] \in Nat /\ more[i] <= t - 1
        BY <1>1, <2>1, <4>1
      <4> QED BY <4>1, <4>2
    <3> QED BY <1>1, <2>1, <3>1, <3>2
  <2>3. ASSUME NEW i \in 1..Len(more)
        PROVE  more[i] \in Payments /\ from <= more[i] /\ more[i] <= t
    <3>1. CASE i \in 1..Len(list)
      <4>1. more[i] = list[i] /\ list[i] \in Nat /\ list[i] <= t - 1
        BY <1>1, <2>1, <3>1
      <4>2. list[i] \in Payments /\ from <= list[i]
        BY <3>1 DEF Lists
      <4> QED BY <4>1, <4>2
    <3>2. CASE i = Len(list) + 1
      BY <1>2, <2>1, <3>2
    <3> QED BY <1>1, <2>1, <3>1, <3>2
  <2>4. ASSUME NEW p \in Payments, from <= p, p <= t PROVE Holds(more, p)
    <3>1. CASE p = t
      BY <1>1, <2>1, <3>1 DEF Holds
    <3>2. CASE p # t
      <4>1. p <= t - 1
        BY <2>4, <3>2, PaymentsAreTimes
      <4>2. PICK i \in 1..Len(list) : list[i] = p
        BY <2>4, <4>1 DEF Lists, Holds
      <4> QED BY <1>1, <2>1, <4>2 DEF Holds
    <3> QED BY <3>1, <3>2
  <2>5. Lists(more, from, t)
    BY <2>1, <2>2, <2>3, <2>4 DEF Lists, InOrder
  <2> QED BY <1>2, <2>5 DEF more
<1>3. CASE ~(t \in Payments /\ from <= t)
  <2>1. ASSUME NEW p \in Payments, from <= p, p <= t PROVE Holds(list, p)
    <3>1. p <= t - 1
      BY <1>3, <2>1, PaymentsAreTimes
    <3> QED BY <2>1, <3>1 DEF Lists
  <2>2. Lists(list, from, t)
    BY <1>1, <2>1 DEF Lists
  <2> QED BY <1>3, <2>2
<1> QED BY <1>2, <1>3

LEMMA PaidLists ==
  ASSUME NEW from \in Nat, NEW to \in Nat
  PROVE  Lists(Paid(from, to), from, to)
<1> DEFINE S == Seq(Nat)
           more(t, list) == CASE t = 0 -> <<>>
                              [] t > 0 /\ t \in Payments /\ from <= t -> Append(list, t)
                              [] OTHER -> list
           stride == [t \in 1..to |-> [list \in S |-> more(t, list)]]
<1>1. \A t \in 1..to : \A list \in S : more(t, list) \in S
  OBVIOUS
<1>2. stride \in [1..to -> [S -> S]] /\ \A t \in 1..to : \A list \in S : stride[t][list] = more(t, list)
  BY <1>1
<1>3. <<>> \in S
  OBVIOUS
<1> HIDE DEF stride, S
<1>4. PICK f : Follows(f, to, S, <<>>, stride)
  BY <1>2, <1>3, RecursionExists
<1>5. ASSUME NEW t \in 1..to PROVE f[t] = more(t, f[t - 1])
  <2>1. f[t - 1] \in S
    BY <1>4 DEF Follows
  <2> QED BY <1>2, <1>4, <2>1 DEF Follows
<1>6. \A t \in 0..to : f[t] = more(t, f[t - 1])
  <2> TAKE t \in 0..to
  <2>1. CASE t = 0
    BY <1>4, <2>1 DEF Follows
  <2>2. CASE t # 0
    <3>1. t \in 1..to
      BY <2>2
    <3> QED BY <1>5, <3>1
  <2> QED BY <2>1, <2>2
<1>7. f = [t \in 0..to |-> CASE t = 0 -> <<>>
                            [] t > 0 /\ t \in Payments /\ from <= t -> Append(f[t - 1], t)
                            [] OTHER -> f[t - 1]]
  BY <1>4, <1>6, Zenon DEF Follows
<1> DEFINE upTo == CHOOSE g : g = [t \in 0..to |-> CASE t = 0 -> <<>>
                            [] t > 0 /\ t \in Payments /\ from <= t -> Append(g[t - 1], t)
                            [] OTHER -> g[t - 1]]
<1>8. upTo = [t \in 0..to |-> CASE t = 0 -> <<>>
                            [] t > 0 /\ t \in Payments /\ from <= t -> Append(upTo[t - 1], t)
                            [] OTHER -> upTo[t - 1]]
  BY <1>7, Zenon
<1>9. Paid(from, to) = upTo[to]
  BY Zenon DEF Paid
<1> HIDE DEF upTo
<1>10. upTo[0] = <<>> /\ \A t \in 1..to : upTo[t] = more(t, upTo[t - 1])
  <2>1. \A t \in 0..to : upTo[t] = more(t, upTo[t - 1])
    BY <1>8, Zenon
  <2> QED BY <2>1
<1> DEFINE T == {t \in 0..to : Lists(upTo[t], from, t)}
<1>11. 0 \in T
  <2>1. Lists(<<>>, from, 0)
    BY PaymentsAreTimes DEF Lists, InOrder
  <2> QED BY <1>10, <2>1
<1>12. ASSUME NEW t \in 1..to, t - 1 \in T PROVE t \in T
  <2>1. upTo[t] = IF t \in Payments /\ from <= t THEN Append(upTo[t - 1], t) ELSE upTo[t - 1]
    BY <1>10
  <2>2. Lists(upTo[t - 1], from, t - 1) /\ t \in Nat \ {0}
    BY <1>12
  <2> QED BY <2>1, <2>2, ListsGrow
<1> HIDE DEF T
<1>13. \A t \in 0..to : t \in T
  BY <1>11, <1>12, UpTo
<1>14. Lists(upTo[to], from, to)
  BY <1>13 DEF T
<1> QED BY <1>9, <1>14

-----------------------------------------------------------------------------
(* Months.                                                                 *)
LEMMA MonthIs ==
  ASSUME NEW t \in Nat \ {0}
  PROVE  /\ MonthOf(t) \in Nat \ {0}
         /\ MonthStart(MonthOf(t)) <= t /\ t <= MonthEnd(MonthOf(t))
<1> USE FundingAssumption
<1>1. PICK q : q = (t - 1) \div MonthLen
  OBVIOUS
<1>2. q \in Nat /\ q * MonthLen <= t - 1 /\ t - 1 < (q + 1) * MonthLen
  BY <1>1
<1>3. MonthOf(t) = q + 1
  BY <1>1 DEF MonthOf
<1> QED BY <1>2, <1>3 DEF MonthStart, MonthEnd

LEMMA Spans ==
  ASSUME NEW a \in Nat, NEW b \in Nat, a * MonthLen < b * MonthLen
  PROVE  a < b
<1> USE FundingAssumption
<1> SUFFICES ASSUME b <= a PROVE FALSE
  OBVIOUS
<1>1. PICK d \in Nat : a = b + d
  <2>1. a - b \in Nat /\ a = b + (a - b)
    OBVIOUS
  <2> QED BY <2>1
<1>2. a * MonthLen = b * MonthLen + d * MonthLen /\ d * MonthLen \in Nat /\ b * MonthLen \in Nat
  BY <1>1
<1> QED BY <1>2

LEMMA InMonth ==
  ASSUME NEW month \in Nat \ {0}, NEW t \in Nat \ {0}
  PROVE  MonthOf(t) = month <=> MonthStart(month) <= t /\ t <= MonthEnd(month)
<1> USE FundingAssumption
<1>1. PICK m : m = MonthOf(t)
  OBVIOUS
<1>2. m \in Nat \ {0} /\ (m - 1) * MonthLen + 1 <= t /\ t <= m * MonthLen
  BY <1>1, MonthIs DEF MonthStart, MonthEnd
<1>3. ASSUME MonthStart(month) <= t, t <= MonthEnd(month) PROVE m = month
  <2>1. (month - 1) * MonthLen + 1 <= t /\ t <= month * MonthLen
    BY <1>3 DEF MonthStart, MonthEnd
  <2>2. (m - 1) * MonthLen < month * MonthLen /\ (month - 1) * MonthLen < m * MonthLen
    BY <1>2, <2>1
  <2>3. m - 1 \in Nat /\ month - 1 \in Nat
    BY <1>2
  <2>4. m - 1 < month
    BY <1>2, <2>2, <2>3, Spans
  <2>5. month - 1 < m
    BY <1>2, <2>2, <2>3, Spans
  <2> QED BY <1>2, <2>4, <2>5
<1> QED BY <1>1, <1>3, MonthIs

(* Later instants are in later months, and a month begins after the end of *)
(* the one before it.                                                      *)
LEMMA MonthsOrdered ==
  ASSUME NEW a \in Nat \ {0}, NEW b \in Nat \ {0}, a <= b
  PROVE  MonthOf(a) <= MonthOf(b)
<1> USE FundingAssumption
<1>1. PICK m, n : m = MonthOf(a) /\ n = MonthOf(b)
  OBVIOUS
<1>2. /\ m \in Nat \ {0} /\ (m - 1) * MonthLen + 1 <= a
      /\ n \in Nat \ {0} /\ b <= n * MonthLen
  BY <1>1, MonthIs DEF MonthStart, MonthEnd
<1>3. (m - 1) * MonthLen < n * MonthLen /\ m - 1 \in Nat
  BY <1>2
<1>4. m - 1 < n
  BY <1>2, <1>3, Spans
<1> QED BY <1>1, <1>2, <1>4

LEMMA MonthBounds ==
  ASSUME NEW month \in Nat \ {0}
  PROVE  /\ MonthStart(month) \in Nat \ {0} /\ MonthEnd(month) \in Nat \ {0}
         /\ MonthStart(month) <= MonthEnd(month)
         /\ MonthStart(month + 1) = MonthEnd(month) + 1
<1> USE FundingAssumption
<1>1. (month - 1) * MonthLen \in Nat /\ month * MonthLen = (month - 1) * MonthLen + MonthLen
  <2>1. PICK k \in Nat : month = k + 1
    <3>1. month - 1 \in Nat /\ month = (month - 1) + 1
      OBVIOUS
    <3> QED BY <3>1
  <2> QED BY <2>1
<1> QED BY <1>1 DEF MonthStart, MonthEnd

-----------------------------------------------------------------------------
(* A page answers for what it was asked: all of it that was due when it    *)
(* was read, or all of it up to its last row if it is full.                *)
PageOK(key, page, time) ==
  /\ key[1] \in Nat /\ key[2] \in Nat
  /\ page \in [rows : Seq(Nat), at : Nat] /\ page.at <= time
  /\ InOrder(page.rows)
  /\ \A i \in 1..Len(page.rows) :
       page.rows[i] \in Payments /\ key[1] <= page.rows[i] /\ page.rows[i] <= key[2]
  /\ \A t \in Payments : key[1] <= t /\ t <= key[2] =>
       IF Len(page.rows) < PageLimit THEN t <= page.at => Holds(page.rows, t)
       ELSE t <= page.rows[Len(page.rows)] => Holds(page.rows, t)

HoleIn(ps, t) ==
  \E key \in DOMAIN ps : /\ key[1] <= t /\ t <= key[2] /\ MonthOf(key[2]) = MonthOf(t)
                         /\ ps[key].at < t

(* What a call has of the instants before b, but for holes.                *)
Covered(call, list, ps, b) ==
  /\ InOrder(list)
  /\ \A i \in 1..Len(list) : list[i] \in Payments /\ call.from <= list[i] /\ list[i] < b
  /\ \A t \in Payments : call.from <= t /\ t < b /\ t <= call.began =>
       Holds(list, t) \/ (~call.force /\ HoleIn(ps, t))

Calls ==
  [status : {"idle", "archive", "pages", "done", "failed"}, from : Nat \ {0}, to : Nat \ {0},
   force : BOOLEAN, began : Nat, month : Nat \ {0}, next : Nat, rows : Seq(Nat)]

(* The month of a call is one of its range, and what it covers of it.      *)
InRange(call) == call.from <= call.to /\ call.month \in MonthOf(call.from)..MonthOf(call.to)
Begins(call) == Max({call.from, MonthStart(call.month)})
Ends(call) == Min({call.to, MonthEnd(call.month)})

CallOK(call, ps) ==
  /\ call.status \in {"archive", "pages"} => InRange(call)
  /\ call.status = "archive" => Covered(call, call.rows, ps, Begins(call))
  /\ call.status = "pages" =>
       call.next \in Begins(call)..Ends(call) /\ Covered(call, call.rows, ps, call.next)
  /\ call.status = "done" => Increasing(call.rows) /\ Covered(call, call.rows, ps, call.to + 1)

FundingInv ==
  /\ now \in Nat \ {0}
  /\ load \in Calls /\ load.began <= now
  /\ \A key \in DOMAIN pages : PageOK(key, pages[key], now)
  /\ CallOK(load, pages)

LEMMA CoveredBounds ==
  ASSUME NEW call \in Calls, InRange(call)
  PROVE  /\ Begins(call) \in Nat \ {0} /\ Ends(call) \in Nat \ {0} /\ Begins(call) <= Ends(call)
         /\ call.from <= Begins(call) /\ Ends(call) <= call.to
         /\ call.month = MonthOf(call.from) => Begins(call) = call.from
         /\ call.month = MonthOf(call.to) => Ends(call) = call.to
         /\ call.month < MonthOf(call.to) => Ends(call) = MonthEnd(call.month)
         /\ \A t \in Begins(call)..Ends(call) : MonthOf(t) = call.month
<1>1. PICK f, g, m : f = call.from /\ g = call.to /\ m = call.month
  OBVIOUS
<1>2. f \in Nat \ {0} /\ g \in Nat \ {0} /\ f <= g /\ m \in Nat \ {0}
  BY <1>1 DEF Calls, InRange
<1>3. m \in MonthOf(f)..MonthOf(g) /\ MonthOf(f) \in Nat \ {0} /\ MonthOf(g) \in Nat \ {0}
  BY <1>1, <1>2, MonthIs DEF InRange
<1>4. PICK a, b : a = MonthStart(m) /\ b = MonthEnd(m)
  OBVIOUS
<1>5. a \in Nat \ {0} /\ b \in Nat \ {0} /\ a <= b
  BY <1>2, <1>4, MonthBounds
<1>6. /\ Begins(call) = IF f >= a THEN f ELSE a
      /\ Ends(call) = IF g <= b THEN g ELSE b
  BY <1>1, <1>2, <1>4, <1>5, MinOfTwo, MaxOfTwo DEF Begins, Ends
(* The range begins before the end of the month, and ends after its start. *)
<1>7. f <= b
  <2> SUFFICES ASSUME b < f PROVE FALSE
    BY <1>2, <1>5
  <2>1. m = MonthOf(f)
    <3>1. MonthOf(b) = m
      BY <1>2, <1>4, <1>5, InMonth
    <3>2. m <= MonthOf(f)
      BY <1>2, <1>5, <3>1, MonthsOrdered
    <3> QED BY <1>2, <1>3, <3>2
  <2>2. f <= b
    BY <1>2, <1>4, <2>1, MonthIs
  <2> QED BY <1>2, <1>5, <2>2
<1>8. a <= g
  <2> SUFFICES ASSUME g < a PROVE FALSE
    BY <1>2, <1>5
  <2>1. m = MonthOf(g)
    <3>1. MonthOf(a) = m
      BY <1>2, <1>4, <1>5, InMonth
    <3>2. MonthOf(g) <= m
      BY <1>2, <1>5, <3>1, MonthsOrdered
    <3> QED BY <1>2, <1>3, <3>2
  <2>2. a <= g
    BY <1>2, <1>4, <2>1, MonthIs
  <2> QED BY <1>2, <1>5, <2>2
<1>9. m = MonthOf(f) => a <= f
  BY <1>2, <1>4, MonthIs
<1>10. m = MonthOf(g) => g <= b
  BY <1>2, <1>4, MonthIs
<1>11. m < MonthOf(g) => b < g
  <2> SUFFICES ASSUME m < MonthOf(g), g <= b PROVE FALSE
    BY <1>2, <1>5
  <2>1. MonthOf(b) = m
    BY <1>2, <1>4, <1>5, InMonth
  <2>2. MonthOf(g) <= m
    BY <1>2, <1>5, <2>1, MonthsOrdered
  <2> QED BY <1>2, <1>3, <2>2
<1>12. \A t \in Nat \ {0} : a <= t /\ t <= b => MonthOf(t) = m
  BY <1>2, <1>4, InMonth
<1>13. \A t \in Begins(call)..Ends(call) : t \in Nat \ {0} /\ a <= t /\ t <= b
  BY <1>2, <1>5, <1>6
<1> QED BY <1>1, <1>2, <1>3, <1>4, <1>5, <1>6, <1>7, <1>8, <1>9, <1>10, <1>11, <1>12, <1>13

(* More list cover more, when they have what is due of it, or a hole.      *)
LEMMA CoverMore ==
  ASSUME NEW call \in Calls, NEW list \in Seq(Nat), NEW more \in Seq(Nat), NEW ps, NEW b \in Nat, NEW c \in Nat,
         b <= c, call.from <= b, Covered(call, list, ps, b),
         InOrder(more), \A i \in 1..Len(more) : more[i] \in Payments /\ b <= more[i] /\ more[i] < c,
         \A t \in Payments : b <= t /\ t < c /\ t <= call.began =>
           Holds(more, t) \/ (~call.force /\ HoleIn(ps, t))
  PROVE  Covered(call, list \o more, ps, c)
<1> DEFINE all == list \o more
<1>1. /\ Len(list) \in Nat /\ Len(more) \in Nat /\ Len(all) = Len(list) + Len(more)
      /\ \A i \in 1..Len(list) : all[i] = list[i] /\ list[i] \in Nat
      /\ \A i \in 1..Len(more) : all[Len(list) + i] = more[i] /\ more[i] \in Nat
  OBVIOUS
<1> HIDE DEF all
<1>2. ASSUME NEW i \in 1..Len(all)
      PROVE  all[i] \in Payments /\ call.from <= all[i] /\ all[i] < c
  <2>1. CASE i \in 1..Len(list)
    <3>1. list[i] \in Payments /\ call.from <= list[i] /\ list[i] < b
      BY <2>1 DEF Covered
    <3> QED BY <1>1, <2>1, <3>1
  <2>2. CASE i \notin 1..Len(list)
    <3>1. i - Len(list) \in 1..Len(more) /\ i = Len(list) + (i - Len(list))
      BY <1>1, <2>2
    <3>2. all[i] = more[i - Len(list)] /\ more[i - Len(list)] \in Nat
      BY <1>1, <3>1
    <3>3. PICK m \in Nat : m = more[i - Len(list)] /\ all[i] = m
      BY <3>2
    <3>4. m \in Payments /\ b <= m /\ m < c /\ call.from \in Nat
      BY <3>1, <3>3 DEF Calls
    <3> QED BY <3>3, <3>4
  <2> QED BY <2>1, <2>2
<1>3. ASSUME NEW t \in Payments, call.from <= t, t < c, t <= call.began
      PROVE  Holds(all, t) \/ (~call.force /\ HoleIn(ps, t))
  <2>1. Holds(list, t) => Holds(all, t)
    BY <1>1 DEF Holds
  <2>2. Holds(more, t) => Holds(all, t)
    <3> SUFFICES ASSUME NEW i \in 1..Len(more), more[i] = t PROVE Holds(all, t)
      BY DEF Holds
    <3>1. Len(list) + i \in 1..Len(all) /\ all[Len(list) + i] = t
      BY <1>1
    <3> QED BY <3>1 DEF Holds
  <2>3. CASE t < b
    BY <1>3, <2>1, <2>3 DEF Covered
  <2>4. CASE b <= t
    BY <1>3, <2>2, <2>4
  <2> QED BY <2>3, <2>4, PaymentsAreTimes
<1>4. ASSUME NEW i \in 1..Len(all), NEW j \in 1..Len(all), i < j PROVE all[i] < all[j]
  <2>1. CASE j \in 1..Len(list)
    <3>1. i \in 1..Len(list)
      BY <1>1, <1>4, <2>1
    <3>2. list[i] < list[j]
      BY <1>4, <2>1, <3>1 DEF Covered, InOrder
    <3> QED BY <1>1, <2>1, <3>1, <3>2
  <2>2. CASE j \notin 1..Len(list)
    <3>1. PICK y \in 1..Len(more) : j = Len(list) + y
      <4>1. j - Len(list) \in 1..Len(more) /\ j = Len(list) + (j - Len(list))
        BY <1>1, <2>2
      <4> QED BY <4>1
    <3>2. all[j] = more[y] /\ more[y] \in Nat /\ b <= more[y]
      BY <1>1, <3>1
    <3>3. CASE i \in 1..Len(list)
      <4>1. all[i] = list[i] /\ list[i] \in Nat /\ list[i] < b
        BY <1>1, <3>3 DEF Covered
      <4>2. \A x, z \in Nat : x < b /\ b <= z => x < z
        OBVIOUS
      <4> QED BY <3>2, <4>1, <4>2
    <3>4. CASE i \notin 1..Len(list)
      <4>1. PICK x \in 1..Len(more) : i = Len(list) + x
        <5>1. i - Len(list) \in 1..Len(more) /\ i = Len(list) + (i - Len(list))
          BY <1>1, <3>4
        <5> QED BY <5>1
      <4>2. x < y
        BY <1>1, <1>4, <3>1, <4>1
      <4>3. more[x] < more[y]
        BY <4>2 DEF InOrder
      <4> QED BY <1>1, <3>2, <4>1, <4>3
    <3> QED BY <3>3, <3>4
  <2> QED BY <2>1, <2>2
<1>5. Covered(call, all, ps, c)
  BY <1>2, <1>3, <1>4 DEF Covered, InOrder
<1> QED BY <1>5 DEF all

(* The answer of the server.                                               *)
LEMMA AnswerOK ==
  ASSUME NEW from \in Nat, NEW to \in Nat, now \in Nat
  PROVE  /\ PageOK(<<from, to>>, Answer(from, to), now) /\ Answer(from, to).at = now
<1> USE FundingAssumption
<1>1. PICK n, p : n = Min({to, now}) /\ p = Paid(from, n)
  OBVIOUS
<1>2. n \in Nat /\ n <= to /\ n <= now /\ \A t \in Nat : t <= to /\ t <= now => t <= n
  BY <1>1, MinOfTwo
<1>3. Lists(p, from, n) /\ p \in Seq(Nat) /\ Len(p) \in Nat
  <2>1. Lists(p, from, n)
    BY <1>1, <1>2, PaidLists
  <2> QED BY <2>1 DEF Lists
<1>4. PICK k, list : k = Min({PageLimit, Len(p)}) /\ list = SubSeq(p, 1, k)
  OBVIOUS
<1>5. k = IF PageLimit <= Len(p) THEN PageLimit ELSE Len(p)
  BY <1>3, <1>4, MinOfTwo
<1>6. /\ k \in Nat /\ k <= Len(p)
      /\ list \in Seq(Nat) /\ Len(list) = k /\ \A i \in 1..k : list[i] = p[i]
  <2>1. k \in Nat /\ k <= Len(p)
    BY <1>3, <1>5
  <2> HIDE FundingAssumption
  <2>2. p \in Seq(Nat) /\ Len(p) \in Nat /\ list = SubSeq(p, 1, k)
    BY <1>3, <1>4
  <2> QED BY <2>1, <2>2
<1>7. Answer(from, to) = [rows |-> list, at |-> now]
  BY <1>1, <1>4 DEF Answer
<1>8. ASSUME NEW i \in 1..Len(list)
      PROVE  list[i] \in Payments /\ from <= list[i] /\ list[i] <= to
  <2>1. i \in 1..Len(p) /\ list[i] = p[i] /\ p[i] \in Nat
    BY <1>3, <1>6
  <2>2. p[i] \in Payments /\ from <= p[i] /\ p[i] <= n
    BY <1>3, <2>1 DEF Lists
  <2> QED BY <1>2, <2>1, <2>2
<1>9. ASSUME NEW t \in Payments, from <= t, t <= to
      PROVE  IF Len(list) < PageLimit THEN t <= now => Holds(list, t)
             ELSE t <= list[Len(list)] => Holds(list, t)
  <2>1. t \in Nat
    BY PaymentsAreTimes
  <2>2. t <= n => Holds(p, t)
    BY <1>3, <1>9 DEF Lists
  <2>3. CASE Len(list) < PageLimit
    <3>1. list = p
      <4>1. k = Len(p)
        BY <1>5, <1>6, <2>3
      <4> QED BY <1>3, <1>6, <4>1
    <3> QED BY <1>2, <1>9, <2>1, <2>2, <2>3, <3>1
  <2>4. CASE ~(Len(list) < PageLimit)
    <3>1. k = PageLimit /\ k \in 1..Len(p) /\ Len(list) = k
      BY <1>3, <1>5, <1>6, <2>4
    <3> SUFFICES ASSUME t <= list[Len(list)] PROVE Holds(list, t)
      BY <2>4
    <3>2. list[Len(list)] = p[k] /\ p[k] \in Nat /\ p[k] <= n
      BY <1>3, <1>6, <3>1 DEF Lists
    <3>3. PICK i \in 1..Len(p) : p[i] = t
      BY <1>2, <2>1, <2>2, <3>2 DEF Holds
    <3>4. i \in 1..k
      <4>1. k < i => p[k] < p[i]
        BY <1>3, <3>1, <3>3 DEF Lists, InOrder
      <4> QED BY <1>6, <2>1, <3>2, <3>3, <4>1
    <3> QED BY <1>6, <3>1, <3>3, <3>4 DEF Holds
  <2> QED BY <2>3, <2>4
<1>10. \A a, b : <<a, b>>[1] = a /\ <<a, b>>[2] = b
  OBVIOUS
<1>11. InOrder(list)
  <2>1. \A i, j \in 1..Len(p) : i < j => p[i] < p[j]
    BY <1>3 DEF Lists, InOrder
  <2>2. \A i \in 1..k : i \in 1..Len(p)
    BY <1>3, <1>6
  <2> QED BY <1>6, <2>1, <2>2 DEF InOrder
<1> QED BY <1>6, <1>7, <1>8, <1>9, <1>10, <1>11 DEF PageOK

LEMMA OrderIsIncreasing == ASSUME NEW list \in Seq(Nat), InOrder(list) PROVE Increasing(list)
BY DEF InOrder, Increasing

(* The end of a month is the start of the next, or the end of the call.    *)
WithMonth(call, all) ==
  IF call.month < MonthOf(call.to)
  THEN [call EXCEPT !.rows = all, !.month = @ + 1, !.status = "archive"]
  ELSE [call EXCEPT !.rows = all, !.status = IF Increasing(all) THEN "done" ELSE "failed"]

LEMMA MonthEnds ==
  ASSUME NEW call \in Calls, InRange(call), NEW ps, NEW list \in Seq(Nat),
         Covered(call, call.rows \o list, ps, Ends(call) + 1)
  PROVE  LET after == WithMonth(call, call.rows \o list)
         IN after \in Calls /\ after.began = call.began /\ after.status # "failed" /\ CallOK(after, ps)
<1> DEFINE all == call.rows \o list
           after == WithMonth(call, all)
<1>1. all \in Seq(Nat) /\ call.rows \in Seq(Nat)
  BY DEF Calls
<1>2. Covered(call, all, ps, Ends(call) + 1)
  OBVIOUS
<1>3. /\ call.month \in Nat \ {0} /\ call.from \in Nat \ {0} /\ call.to \in Nat \ {0}
      /\ MonthOf(call.from) \in Nat /\ MonthOf(call.to) \in Nat
      /\ call.from <= call.to /\ MonthOf(call.from) <= call.month /\ call.month <= MonthOf(call.to)
  BY MonthIs DEF Calls, InRange
<1>4. /\ call.month < MonthOf(call.to) => Ends(call) = MonthEnd(call.month)
      /\ call.month = MonthOf(call.to) => Ends(call) = call.to
      /\ call.from <= Ends(call) /\ Ends(call) \in Nat
  BY CoveredBounds DEF Calls
<1>5. CASE call.month < MonthOf(call.to)
  <2>1. after = [call EXCEPT !.rows = all, !.month = @ + 1, !.status = "archive"]
    BY <1>5 DEF WithMonth
  <2> HIDE DEF all, after
  <2>2. /\ after \in Calls /\ after.began = call.began /\ after.from = call.from /\ after.to = call.to
        /\ after.force = call.force /\ after.month = call.month + 1 /\ after.rows = all
        /\ after.status = "archive"
    <3>1. PICK next \in Nat \ {0} : next = call.month + 1
      BY <1>3
    <3>2. after = [call EXCEPT !.rows = all, !.month = next, !.status = "archive"]
      BY <2>1, <3>1
    <3> QED BY <1>1, <3>1, <3>2 DEF Calls
  <2>3. InRange(after)
    BY <1>3, <1>5, <2>2 DEF InRange
  <2>4. MonthStart(after.month) = Ends(call) + 1
    BY <1>3, <1>4, <1>5, <2>2, MonthBounds
  <2>5. Begins(after) = Ends(call) + 1
    <3>1. call.from \in Int /\ Ends(call) + 1 \in Int /\ ~(call.from >= Ends(call) + 1)
      BY <1>3, <1>4
    <3>2. Begins(after) = Max({call.from, Ends(call) + 1})
      BY <2>2, <2>4 DEF Begins
    <3> QED BY <3>1, <3>2, MaxOfTwo
  <2>6. Covered(after, all, ps, Ends(call) + 1)
    BY <1>2, <2>2 DEF Covered
  <2>7. after \in Calls /\ after.began = call.began /\ after.status # "failed" /\ CallOK(after, ps)
    BY <2>2, <2>3, <2>5, <2>6 DEF CallOK
  <2> QED BY <2>7 DEF after, all
<1>6. CASE ~(call.month < MonthOf(call.to))
  <2>1. after = [call EXCEPT !.rows = all, !.status = IF Increasing(all) THEN "done" ELSE "failed"]
    BY <1>6 DEF WithMonth
  <2> HIDE DEF all, after
  <2>2. /\ after \in Calls /\ after.began = call.began /\ after.from = call.from /\ after.to = call.to
        /\ after.force = call.force /\ after.rows = all
        /\ after.status = IF Increasing(all) THEN "done" ELSE "failed"
    BY <1>1, <1>3, <2>1 DEF Calls
  <2>3. Ends(call) = call.to
    BY <1>3, <1>4, <1>6
  <2>4. Covered(after, all, ps, after.to + 1)
    BY <1>2, <2>2, <2>3 DEF Covered
  <2>5. Increasing(after.rows)
    BY <1>1, <1>2, <2>2, OrderIsIncreasing DEF Covered
  <2>6. after.status = "done"
    BY <2>2, <2>5
  <2>7. after \in Calls /\ after.began = call.began /\ after.status # "failed" /\ CallOK(after, ps)
    BY <2>2, <2>4, <2>5, <2>6 DEF CallOK
  <2> QED BY <2>7 DEF after, all
<1> QED BY <1>5, <1>6

(* What a month has of its own, from its archive or from its last page.    *)
LEMMA MonthCovered ==
  ASSUME FundingInv, load.status \in {"archive", "pages"}, NEW ps, NEW b \in Begins(load)..Ends(load),
         Covered(load, load.rows, ps, b), NEW list \in Seq(Nat), InOrder(list),
         \A i \in 1..Len(list) : list[i] \in Payments /\ b <= list[i] /\ list[i] <= Ends(load),
         \A t \in Payments : b <= t /\ t <= Ends(load) /\ t <= load.began =>
           Holds(list, t) \/ (~load.force /\ HoleIn(ps, t)),
         MonthDone(list)
  PROVE  /\ load' \in Calls /\ load'.began = load.began /\ load'.status # "failed"
         /\ CallOK(load', ps)
<1>1. load \in Calls /\ InRange(load) /\ load.rows \in Seq(Nat)
  BY DEF FundingInv, CallOK, Calls
<1>2. PICK e : e = Ends(load)
  OBVIOUS
<1>3. /\ Begins(load) \in Nat /\ e \in Nat /\ b \in Nat /\ b <= e /\ load.from <= b
      /\ load.from \in Nat
  BY <1>1, <1>2, CoveredBounds DEF Calls
<1>4. Covered(load, load.rows \o list, ps, e + 1)
  <2>1. \A i \in 1..Len(list) : list[i] \in Payments /\ b <= list[i] /\ list[i] < e + 1
    BY <1>2, <1>3
  <2>2. ASSUME NEW t \in Payments, b <= t, t < e + 1, t <= load.began
        PROVE  Holds(list, t) \/ (~load.force /\ HoleIn(ps, t))
    <3>1. t <= e
      BY <1>3, <2>2, PaymentsAreTimes
    <3> QED BY <1>2, <2>2, <3>1
  <2>3. e + 1 \in Nat /\ b <= e + 1
    BY <1>3
  <2> QED BY <1>1, <1>3, <2>1, <2>2, <2>3, CoverMore
<1>5. load' = WithMonth(load, load.rows \o list)
  BY DEF MonthDone, WithMonth
<1>6. LET after == WithMonth(load, load.rows \o list)
      IN after \in Calls /\ after.began = load.began /\ after.status # "failed" /\ CallOK(after, ps)
  BY <1>1, <1>2, <1>4, MonthEnds
<1> QED BY <1>5, <1>6

(* A page of the month that runs covers it up to the last row of a full    *)
(* page, or else to its end, but for holes.                                *)
LEMMA PageCovers ==
  ASSUME FundingInv, load.status = "pages", NEW ps, NEW page,
         <<load.next, Ends(load)>> \in DOMAIN ps, ps[<<load.next, Ends(load)>>] = page,
         PageOK(<<load.next, Ends(load)>>, page, now), load.force => page.at = now,
         NEW t \in Payments, load.next <= t, t <= Ends(load), t <= load.began,
         Len(page.rows) >= PageLimit => t <= page.rows[Len(page.rows)]
  PROVE  Holds(page.rows, t) \/ (~load.force /\ HoleIn(ps, t))
<1> USE FundingAssumption
<1>1. PICK key : key = <<load.next, Ends(load)>> /\ key[1] = load.next /\ key[2] = Ends(load)
  OBVIOUS
<1>2. /\ load \in Calls /\ InRange(load) /\ load.began \in Nat /\ load.began <= now /\ now \in Nat
      /\ load.next \in Begins(load)..Ends(load)
  BY DEF FundingInv, CallOK, Calls
<1>3. t \in Nat /\ page.at \in Nat /\ Len(page.rows) \in Nat
  BY PaymentsAreTimes DEF PageOK
<1>4. PICK b, e : b = Begins(load) /\ e = Ends(load)
  OBVIOUS
<1>5. b \in Nat \ {0} /\ e \in Nat \ {0} /\ b <= e /\ \A x \in b..e : MonthOf(x) = load.month
  BY <1>2, <1>4, CoveredBounds
<1>6. load.next \in Nat /\ b <= load.next
  BY <1>2, <1>4, <1>5
<1>7. t \in b..e /\ e \in b..e
  BY <1>3, <1>4, <1>5, <1>6
<1>8. MonthOf(key[2]) = MonthOf(t)
  BY <1>1, <1>4, <1>5, <1>7
<1>9. IF Len(page.rows) < PageLimit THEN t <= page.at => Holds(page.rows, t)
      ELSE t <= page.rows[Len(page.rows)] => Holds(page.rows, t)
  BY <1>1 DEF PageOK
<1>10. CASE Len(page.rows) < PageLimit
  <2>1. CASE t <= page.at
    BY <1>9, <1>10, <2>1
  <2>2. CASE ~(t <= page.at)
    <3>1. ~load.force
      BY <1>2, <1>3, <2>2
    <3>2. HoleIn(ps, t)
      BY <1>1, <1>3, <1>8, <2>2 DEF HoleIn
    <3> QED BY <3>1, <3>2
  <2> QED BY <2>1, <2>2
<1>11. CASE ~(Len(page.rows) < PageLimit)
  BY <1>3, <1>9, <1>11
<1> QED BY <1>10, <1>11

(* A page in the cache stays, but for a forced load, so that its hole does *)
(* not go unexplained.                                                     *)
LEMMA HolesStay ==
  ASSUME NEW call, NEW list, NEW ps, NEW key, NEW page, NEW b, Covered(call, list, ps, b),
         ~call.force /\ key \in DOMAIN ps => page = ps[key]
  PROVE  Covered(call, list, [k \in DOMAIN ps \cup {key} |-> IF k = key THEN page ELSE ps[k]], b)
<1> DEFINE more == [k \in DOMAIN ps \cup {key} |-> IF k = key THEN page ELSE ps[k]]
<1>1. ASSUME ~call.force, NEW t, HoleIn(ps, t) PROVE HoleIn(more, t)
  <2>1. PICK k \in DOMAIN ps : /\ k[1] <= t /\ t <= k[2] /\ MonthOf(k[2]) = MonthOf(t)
                               /\ ps[k].at < t
    BY <1>1 DEF HoleIn
  <2>2. k \in DOMAIN more /\ more[k] = ps[k]
    BY <1>1
  <2> HIDE DEF more
  <2> QED BY <2>1, <2>2 DEF HoleIn
<1> HIDE DEF more
<1>2. Covered(call, list, more, b)
  BY <1>1 DEF Covered
<1> QED BY <1>2 DEF more

-----------------------------------------------------------------------------
(* Each step keeps it.                                                     *)
LEMMA FundingStarts == ASSUME FundingInit PROVE FundingInv
<1>1. now = 1 /\ pages = <<>> /\ load \in Calls /\ load.status = "idle" /\ load.began = 1
  BY DEF FundingInit, Calls
<1> QED BY <1>1 DEF FundingInv, CallOK

LEMMA PagesAge ==
  ASSUME NEW key, NEW page, NEW time \in Nat, NEW later \in Nat, time <= later, PageOK(key, page, time)
  PROVE  PageOK(key, page, later)
BY DEF PageOK

LEMMA LoadBegins ==
  ASSUME FundingInv, BeginLoad
  PROVE  load' \in Calls /\ load'.began <= now /\ CallOK(load', pages)
<1>1. PICK r \in Ranges, force \in BOOLEAN :
        load' = [status |-> "archive", from |-> r[1], to |-> r[2], force |-> force, began |-> now,
                 month |-> MonthOf(r[1]), next |-> r[1], rows |-> <<>>]
  BY DEF BeginLoad
<1>2. PICK f, t : f = r[1] /\ t = r[2]
  OBVIOUS
<1>3. f \in Nat \ {0} /\ t \in Nat \ {0} /\ f <= t
  BY <1>2, FundingAssumption
<1>4. PICK m : m = MonthOf(f)
  OBVIOUS
<1>5. m \in Nat \ {0} /\ MonthOf(t) \in Nat /\ m <= MonthOf(t) /\ MonthStart(m) <= f /\ MonthStart(m) \in Nat
  BY <1>3, <1>4, MonthIs, MonthsOrdered, MonthBounds
<1>6. /\ load' \in Calls /\ load'.status = "archive" /\ load'.from = f /\ load'.to = t
      /\ load'.began = now /\ load'.month = m /\ load'.rows = <<>>
  BY <1>1, <1>2, <1>3, <1>4, <1>5 DEF FundingInv, Calls
<1>7. InRange(load')
  BY <1>3, <1>4, <1>5, <1>6 DEF InRange
<1>8. Begins(load') = f
  <2>1. Begins(load') = Max({f, MonthStart(m)})
    BY <1>6 DEF Begins
  <2> QED BY <1>3, <1>5, <2>1, MaxOfTwo
<1>9. Covered(load', <<>>, pages, f)
  BY <1>3, <1>6, PaymentsAreTimes DEF Covered, InOrder
<1> QED BY <1>6, <1>7, <1>8, <1>9 DEF FundingInv, CallOK

LEMMA ArchiveRead ==
  ASSUME FundingInv, ReadArchive
  PROVE  /\ load' \in Calls /\ load'.began = load.began /\ load'.status # "failed"
         /\ CallOK(load', pages)
<1>1. /\ load \in Calls /\ load.status = "archive" /\ InRange(load)
      /\ Covered(load, load.rows, pages, Begins(load))
  BY DEF FundingInv, CallOK, ReadArchive
<1>2. CoveredStart = Begins(load) /\ CoveredEnd = Ends(load)
  BY DEF CoveredStart, CoveredEnd, Begins, Ends
<1>3. PICK b, e : b = Begins(load) /\ e = Ends(load)
  OBVIOUS
<1>4. b \in Nat /\ e \in Nat /\ b <= e /\ b \in b..e
  BY <1>1, <1>3, CoveredBounds
<1>5. CASE load.month \in published
  <2>1. PICK list : list = Paid(b, e)
    OBVIOUS
  <2>2. Lists(list, b, e)
    BY <1>4, <2>1, PaidLists
  <2>3. MonthDone(list)
    BY <1>2, <1>3, <1>5, <2>1 DEF ReadArchive
  <2>4. /\ list \in Seq(Nat) /\ InOrder(list)
        /\ \A i \in 1..Len(list) : list[i] \in Payments /\ b <= list[i] /\ list[i] <= e
        /\ \A t \in Payments : b <= t /\ t <= e => Holds(list, t)
    BY <2>2 DEF Lists
  <2> QED BY <1>1, <1>3, <1>4, <2>3, <2>4, MonthCovered
<1>6. CASE load.month \notin published
  <2>1. load' = [load EXCEPT !.status = "pages", !.next = b]
    BY <1>2, <1>3, <1>6 DEF ReadArchive
  <2>2. /\ load' \in Calls /\ load'.status = "pages" /\ load'.next = b /\ load'.rows = load.rows
        /\ load'.from = load.from /\ load'.to = load.to /\ load'.month = load.month
        /\ load'.force = load.force /\ load'.began = load.began
    BY <1>1, <1>4, <2>1 DEF Calls
  <2>3. InRange(load') /\ Begins(load') = b /\ Ends(load') = e
    BY <1>1, <1>3, <2>2 DEF InRange, Begins, Ends
  <2>4. Covered(load', load.rows, pages, b)
    BY <1>1, <1>3, <2>2 DEF Covered
  <2> QED BY <1>4, <2>2, <2>3, <2>4 DEF CallOK
<1> QED BY <1>5, <1>6

LEMMA PageRead ==
  ASSUME FundingInv, ReadPage
  PROVE  /\ load' \in Calls /\ load'.began = load.began /\ load'.status # "failed"
         /\ CallOK(load', pages')
         /\ \A key \in DOMAIN pages' : PageOK(key, pages'[key], now)
<1> USE FundingAssumption
<1>1. /\ load \in Calls /\ load.status = "pages" /\ InRange(load) /\ now \in Nat
      /\ load.next \in Begins(load)..Ends(load) /\ Covered(load, load.rows, pages, load.next)
      /\ \A k \in DOMAIN pages : PageOK(k, pages[k], now)
  BY DEF FundingInv, CallOK, ReadPage
<1>2. CoveredStart = Begins(load) /\ CoveredEnd = Ends(load)
  BY DEF CoveredStart, CoveredEnd, Begins, Ends
<1>3. PICK b, e, n : b = Begins(load) /\ e = Ends(load) /\ n = load.next
  OBVIOUS
<1>4. b \in Nat /\ e \in Nat /\ b <= e /\ n \in Nat /\ b <= n /\ n <= e /\ n \in b..e
  BY <1>1, <1>3, CoveredBounds
<1>5. PICK key, page :
        /\ key = <<n, e>>
        /\ page = IF key \in DOMAIN pages /\ ~load.force THEN pages[key] ELSE Answer(n, e)
  OBVIOUS
<1>6. /\ pages' = [k \in DOMAIN pages \cup {key} |-> IF k = key THEN page ELSE pages[k]]
      /\ IF Len(page.rows) >= PageLimit /\ Last(page.rows) + 1 <= e
         THEN load' = [load EXCEPT !.rows = @ \o page.rows, !.next = Last(page.rows) + 1]
         ELSE MonthDone(page.rows)
  BY <1>2, <1>3, <1>5, Zenon DEF ReadPage
<1>7. PageOK(key, page, now) /\ (load.force => page.at = now)
  BY <1>1, <1>4, <1>5, AnswerOK
<1>8. key \in DOMAIN pages' /\ pages'[key] = page
  BY <1>6
<1>9. \A k \in DOMAIN pages' : PageOK(k, pages'[k], now)
  BY <1>1, <1>6, <1>7
<1>10. Covered(load, load.rows, pages', n)
  <2>1. ~load.force /\ key \in DOMAIN pages => page = pages[key]
    BY <1>5
  <2> QED BY <1>1, <1>3, <1>6, <2>1, HolesStay
<1>11. PICK list : list = page.rows
  OBVIOUS
<1>12. /\ list \in Seq(Nat) /\ Len(list) \in Nat
       /\ \A i \in 1..Len(list) : list[i] \in Payments /\ n <= list[i] /\ list[i] <= e
       /\ InOrder(list)
  <2>1. key[1] = n /\ key[2] = e
    BY <1>5
  <2> QED BY <1>7, <1>11, <2>1 DEF PageOK
<1>13. \A t \in Payments :
         /\ n <= t /\ t <= e /\ t <= load.began
         /\ Len(list) >= PageLimit => t <= list[Len(list)]
         => Holds(list, t) \/ (~load.force /\ HoleIn(pages', t))
  BY <1>1, <1>3, <1>5, <1>7, <1>8, <1>11, PageCovers
<1>14. Last(list) = list[Len(list)]
  BY DEF Last
<1>15. CASE Len(list) >= PageLimit /\ Last(list) + 1 <= e
  <2>1. PICK last : last = list[Len(list)]
    OBVIOUS
  <2>2. Len(list) \in 1..Len(list)
    BY <1>12, <1>15
  <2>3. last \in Nat /\ n <= last /\ last + 1 <= e
    <3>1. list[Len(list)] \in Nat /\ n <= list[Len(list)]
      BY <1>12, <2>2
    <3> QED BY <1>14, <1>15, <2>1, <3>1
  <2>4. load' = [load EXCEPT !.rows = @ \o list, !.next = last + 1]
    BY <1>6, <1>11, <1>14, <1>15, <2>1
  <2>5. /\ load' \in Calls /\ load'.status = "pages" /\ load'.next = last + 1
        /\ load'.rows = load.rows \o list
        /\ load'.from = load.from /\ load'.to = load.to /\ load'.month = load.month
        /\ load'.force = load.force /\ load'.began = load.began
    <3>1. load.rows \o list \in Seq(Nat) /\ last + 1 \in Nat
      BY <1>1, <1>12, <2>3 DEF Calls
    <3> QED BY <1>1, <2>4, <3>1 DEF Calls
  <2>6. InRange(load') /\ Begins(load') = b /\ Ends(load') = e
    BY <1>1, <1>3, <2>5 DEF InRange, Begins, Ends
  <2>7. Covered(load, load.rows \o list, pages', last + 1)
    <3>1. \A i \in 1..Len(list) : list[i] \in Payments /\ n <= list[i] /\ list[i] < last + 1
      <4> TAKE i \in 1..Len(list)
      <4>1. list[i] \in Nat /\ list[i] \in Payments /\ n <= list[i]
        BY <1>12
      <4>2. i < Len(list) => list[i] < last
        BY <1>12, <2>1, <2>2 DEF InOrder
      <4>3. i < Len(list) \/ i = Len(list)
        BY <1>12
      <4> QED BY <2>1, <2>3, <4>1, <4>2, <4>3
    <3>2. ASSUME NEW t \in Payments, n <= t, t < last + 1, t <= load.began
          PROVE  Holds(list, t) \/ (~load.force /\ HoleIn(pages', t))
      <4>1. t <= e /\ t <= last
        BY <1>4, <2>3, <3>2, PaymentsAreTimes
      <4> QED BY <1>13, <2>1, <3>2, <4>1
    <3>3. load.rows \in Seq(Nat) /\ load.from <= n /\ n <= last + 1 /\ last + 1 \in Nat
      BY <1>1, <1>3, <1>4, <2>3, CoveredBounds DEF Calls
    <3> QED BY <1>1, <1>4, <1>10, <1>12, <3>1, <3>2, <3>3, CoverMore
  <2>8. Covered(load', load.rows \o list, pages', last + 1)
    BY <2>5, <2>7 DEF Covered
  <2>9. last + 1 \in b..e
    BY <1>4, <2>3
  <2>10. CallOK(load', pages')
    BY <2>5, <2>6, <2>8, <2>9 DEF CallOK
  <2> QED BY <1>9, <2>5, <2>10
<1>16. CASE ~(Len(list) >= PageLimit /\ Last(list) + 1 <= e)
  <2>1. MonthDone(list)
    BY <1>6, <1>11, <1>16
  <2>2. ASSUME NEW t \in Payments, n <= t, t <= e, t <= load.began
        PROVE  Holds(list, t) \/ (~load.force /\ HoleIn(pages', t))
    <3>1. ASSUME Len(list) >= PageLimit PROVE t <= list[Len(list)]
      <4>1. list[Len(list)] \in Nat
        BY <1>12, <3>1
      <4> QED BY <1>4, <1>14, <1>16, <2>2, <3>1, <4>1, PaymentsAreTimes
    <3> QED BY <1>13, <2>2, <3>1
  <2> QED BY <1>1, <1>3, <1>4, <1>9, <1>10, <1>12, <2>1, <2>2, MonthCovered
<1> QED BY <1>15, <1>16

LEMMA FundingStep == ASSUME FundingInv, [FundingNext]_funding PROVE FundingInv'
<1>1. /\ now \in Nat \ {0} /\ load \in Calls /\ load.began <= now /\ load.began \in Nat
      /\ \A key \in DOMAIN pages : PageOK(key, pages[key], now)
      /\ CallOK(load, pages)
  BY DEF FundingInv, Calls
<1>2. CASE Tick
  <2>1. now' = now + 1 /\ UNCHANGED <<published, pages, load>>
    BY <1>2 DEF Tick
  <2>2. now' \in Nat \ {0} /\ now <= now' /\ load.began <= now'
    BY <1>1, <2>1
  <2>3. \A key \in DOMAIN pages : PageOK(key, pages[key], now')
    BY <1>1, <2>2, PagesAge
  <2> QED BY <1>1, <2>1, <2>2, <2>3 DEF FundingInv
<1>3. CASE PublishArchive
  BY <1>1, <1>3 DEF PublishArchive, FundingInv
<1>4. CASE BeginLoad
  <2>1. now' = now /\ pages' = pages
    BY <1>4 DEF BeginLoad
  <2>2. load' \in Calls /\ load'.began <= now /\ CallOK(load', pages)
    BY <1>4, LoadBegins
  <2> QED BY <1>1, <2>1, <2>2 DEF FundingInv
<1>5. CASE ReadArchive
  <2>1. now' = now /\ pages' = pages
    BY <1>5 DEF ReadArchive
  <2>2. load' \in Calls /\ load'.began = load.began /\ CallOK(load', pages)
    BY <1>5, ArchiveRead
  <2> QED BY <1>1, <2>1, <2>2 DEF FundingInv
<1>6. CASE ReadPage
  <2>1. now' = now
    BY <1>6 DEF ReadPage
  <2>2. /\ load' \in Calls /\ load'.began = load.began /\ CallOK(load', pages')
        /\ \A key \in DOMAIN pages' : PageOK(key, pages'[key], now)
    BY <1>6, PageRead
  <2> QED BY <1>1, <2>1, <2>2 DEF FundingInv
<1>7. CASE LoadFails
  <2>1. /\ load' = [load EXCEPT !.status = "failed", !.rows = <<>>]
        /\ now' = now /\ pages' = pages
    BY <1>7 DEF LoadFails
  <2>2. load' \in Calls /\ load'.status = "failed" /\ load'.began = load.began
    <3>1. load \in Calls /\ <<>> \in Seq(Nat)
      BY <1>1
    <3> QED BY <2>1, <3>1 DEF Calls
  <2> QED BY <1>1, <2>1, <2>2 DEF FundingInv, CallOK
<1>8. CASE UNCHANGED funding
  BY <1>1, <1>8 DEF funding, FundingInv
<1> QED BY <1>2, <1>3, <1>4, <1>5, <1>6, <1>7, <1>8 DEF FundingNext

LEMMA FundingHolds == ASSUME FundingInv PROVE HolesOnlyFromOldPages
<1> SUFFICES ASSUME load.status = "done" PROVE HolesOnlyFromOldPages
  BY DEF HolesOnlyFromOldPages
<1>1. /\ load \in Calls /\ Increasing(load.rows) /\ Covered(load, load.rows, pages, load.to + 1)
      /\ load.rows \in Seq(Nat) /\ load.from \in Nat /\ load.to \in Nat /\ load.began \in Nat
  BY DEF FundingInv, CallOK, Calls
<1>2. \A t : t \in Range(load.rows) <=> Holds(load.rows, t)
  <2>1. DOMAIN load.rows = 1..Len(load.rows)
    BY <1>1
  <2> QED BY <2>1 DEF Range, Holds
<1>3. Range(load.rows) \subseteq Payments \cap load.from..load.to
  <2> SUFFICES ASSUME NEW i \in 1..Len(load.rows), NEW t, load.rows[i] = t
               PROVE  t \in Payments \cap load.from..load.to
    BY <1>2 DEF Holds
  <2>1. t \in Payments /\ load.from <= t /\ t < load.to + 1
    BY <1>1 DEF Covered
  <2> QED BY <1>1, <2>1, PaymentsAreTimes
<1>4. ASSUME NEW t \in Payments, load.from <= t, t <= Min({load.to, load.began}),
             t \notin Range(load.rows)
      PROVE  /\ ~load.force
             /\ \E key \in DOMAIN pages :
                  key[1] <= t /\ t <= key[2] /\ MonthOf(key[2]) = MonthOf(t) /\ pages[key].at < t
  <2>1. t <= load.to /\ t <= load.began /\ t \in Nat
    BY <1>1, <1>4, MinOfTwo, PaymentsAreTimes
  <2>2. ~load.force /\ HoleIn(pages, t)
    BY <1>1, <1>2, <1>4, <2>1 DEF Covered
  <2> QED BY <2>2 DEF HoleIn
<1> QED BY <1>1, <1>3, <1>4 DEF HolesOnlyFromOldPages

(* A loaded history of funding is in order and within its range, and every *)
(* payment that was due when the load began and is not in it falls in a    *)
(* page of its month that was cached before the payment, in a load that    *)
(* was not forced: nothing is missing for another reason                   *)
(* (binance_archive.py:508-510).                                           *)
THEOREM HolesAreOld == FundingSpec => []HolesOnlyFromOldPages
<1>1. FundingInit => FundingInv
  BY FundingStarts
<1>2. FundingInv /\ [FundingNext]_funding => FundingInv'
  BY FundingStep
<1>3. FundingInv => HolesOnlyFromOldPages
  BY FundingHolds
<1> QED BY <1>1, <1>2, <1>3, PTL DEF FundingSpec

(* The list a load collects are in order at each step, so that the sort    *)
(* and the check for duplicates at its end (binance_archive.py:430-436)    *)
(* find nothing to do: a load fails only when a request of it does.        *)
THEOREM OnlyRequestsFail ==
  FundingSpec => [][load.status # "failed" /\ load'.status = "failed" => LoadFails]_funding
<1>1. FundingInit => FundingInv
  BY FundingStarts
<1>2. FundingInv /\ [FundingNext]_funding => FundingInv'
  BY FundingStep
<1>3. FundingInv /\ [FundingNext]_funding
      => [load.status # "failed" /\ load'.status = "failed" => LoadFails]_funding
  <2> SUFFICES ASSUME FundingInv, FundingNext, load.status # "failed", load'.status = "failed"
               PROVE  LoadFails
    OBVIOUS
  <2>1. ~Tick /\ ~PublishArchive
    BY DEF Tick, PublishArchive
  <2>2. ~BeginLoad
    BY DEF BeginLoad
  <2>3. ~ReadArchive /\ ~ReadPage
    BY ArchiveRead, PageRead
  <2> QED BY <2>1, <2>2, <2>3 DEF FundingNext
<1> QED BY <1>1, <1>2, <1>3, PTL DEF FundingSpec

-----------------------------------------------------------------------------
(* The opening range.  The bars chosen from a list, step by step.          *)
Candles == [day : Nat, minute : Nat, open : Nat, high : Nat, low : Nat, close : Nat, volume : Nat]

Selects(f, bs, K) ==
  /\ f[0] = <<>>
  /\ \A k \in 0..Len(bs) : f[k] \in Seq(Candles)
  /\ \A k \in 1..Len(bs) : f[k] = IF k \in K THEN Append(f[k - 1], bs[k]) ELSE f[k - 1]

LEMMA ThoseAre ==
  ASSUME NEW bs \in Seq(Candles), NEW K
  PROVE  \E f : Selects(f, bs, K) /\ Those(bs, K) = f[Len(bs)]
<1> DEFINE m == Len(bs)
           S == Seq(Candles)
           more(k, r) == IF k = 0 THEN <<>> ELSE IF k \in K THEN Append(r, bs[k]) ELSE r
           stride == [k \in 1..m |-> [r \in S |-> more(k, r)]]
<1>1. m \in Nat /\ \A k \in 1..m : bs[k] \in Candles
  OBVIOUS
<1> HIDE DEF m
<1>2. \A k \in 1..m : \A r \in S : more(k, r) \in S
  <2> TAKE k \in 1..m
  <2>1. \A r \in S : <<>> \in S /\ r \in S /\ Append(r, bs[k]) \in S
    BY <1>1
  <2> HIDE DEF S
  <2> QED BY <2>1, Zenon
<1>3. /\ stride \in [1..m -> [S -> S]]
      /\ \A k \in 1..m : \A r \in S : stride[k][r] = more(k, r)
  BY <1>2
<1>4. <<>> \in S
  OBVIOUS
<1> HIDE DEF stride, S
<1>5. PICK f : Follows(f, m, S, <<>>, stride)
  BY <1>1, <1>3, <1>4, RecursionExists
<1>6. ASSUME NEW k \in 1..m PROVE f[k] = more(k, f[k - 1])
  <2>1. f[k - 1] \in S
    BY <1>1, <1>5 DEF Follows
  <2> QED BY <1>3, <1>5, <2>1 DEF Follows
<1>7. \A k \in 0..m : f[k] = more(k, f[k - 1])
  <2> TAKE k \in 0..m
  <2>1. CASE k = 0
    BY <1>5, <2>1 DEF Follows
  <2>2. CASE k # 0
    <3>1. k \in 1..m
      BY <1>1, <2>2
    <3> QED BY <1>6, <3>1
  <2> QED BY <2>1, <2>2
<1>8. f = [k \in 0..m |-> IF k = 0 THEN <<>>
                         ELSE IF k \in K THEN Append(f[k - 1], bs[k])
                         ELSE f[k - 1]]
  BY <1>5, <1>7, Zenon DEF Follows
<1> DEFINE upTo == CHOOSE h : h = [k \in 0..m |-> IF k = 0 THEN <<>>
                                 ELSE IF k \in K THEN Append(h[k - 1], bs[k])
                                 ELSE h[k - 1]]
<1>9. upTo = [k \in 0..m |-> IF k = 0 THEN <<>>
                            ELSE IF k \in K THEN Append(upTo[k - 1], bs[k])
                            ELSE upTo[k - 1]]
  BY <1>8, Zenon
<1>10. Those(bs, K) = upTo[Len(bs)]
  BY Zenon DEF Those, m
<1> HIDE DEF upTo
<1>11. \A k \in 0..m : upTo[k] = more(k, upTo[k - 1])
  BY <1>9, Zenon
<1>12. upTo[0] = <<>> /\ \A k \in 1..m : upTo[k] = IF k \in K THEN Append(upTo[k - 1], bs[k]) ELSE upTo[k - 1]
  <2>1. \A r : more(0, r) = <<>>
    OBVIOUS
  <2>2. \A k \in 1..m : k # 0 /\ k \in 0..m
    BY <1>1
  <2>3. 0 \in 0..m
    BY <1>1
  <2>4. upTo[0] = more(0, upTo[0 - 1])
    BY <1>11, <2>3
  <2>5. ASSUME NEW k \in 1..m PROVE upTo[k] = IF k \in K THEN Append(upTo[k - 1], bs[k]) ELSE upTo[k - 1]
    BY <1>11, <2>2, Zenon
  <2> HIDE DEF more
  <2> QED BY <2>1, <2>4, <2>5
<1> DEFINE T == {k \in 0..m : upTo[k] \in S}
<1>13. 0 \in T
  BY <1>1, <1>4, <1>12
<1>14. ASSUME NEW k \in 1..m, k - 1 \in T PROVE k \in T
  <2>1. Append(upTo[k - 1], bs[k]) \in S /\ upTo[k - 1] \in S
    BY <1>1, <1>14 DEF S
  <2> QED BY <1>12, <2>1
<1> HIDE DEF T
<1>15. \A k \in 0..m : k \in T
  BY <1>1, <1>13, <1>14, UpTo
<1>16. Selects(upTo, bs, K)
  BY <1>12, <1>15 DEF Selects, T, S, m
<1> QED BY <1>10, <1>16

(* A selection from the first n bars is the one after n steps.             *)
LEMMA ThoseOf ==
  ASSUME NEW bs \in Seq(Candles), NEW K, NEW f, Selects(f, bs, K), NEW n \in 0..Len(bs),
         NEW L, \A k \in 1..n : k \in L <=> k \in K
  PROVE  Those(SubSeq(bs, 1, n), L) = f[n]
<1> DEFINE pre == SubSeq(bs, 1, n)
<1>1. /\ n \in Nat /\ n <= Len(bs) /\ Len(bs) \in Nat
      /\ pre \in Seq(Candles) /\ Len(pre) = n /\ \A k \in 1..n : pre[k] = bs[k]
  OBVIOUS
<1> HIDE DEF pre
<1>2. PICK g : Selects(g, pre, L) /\ Those(pre, L) = g[Len(pre)]
  BY <1>1, ThoseAre
<1> DEFINE T == {k \in 0..n : g[k] = f[k]}
<1>3. 0 \in T
  BY <1>1, <1>2 DEF Selects
<1>4. ASSUME NEW k \in 1..n, k - 1 \in T PROVE k \in T
  <2>1. g[k - 1] = f[k - 1] /\ k \in 1..Len(bs) /\ k \in 1..Len(pre) /\ pre[k] = bs[k]
    BY <1>1, <1>4
  <2>2. /\ g[k] = IF k \in L THEN Append(g[k - 1], pre[k]) ELSE g[k - 1]
        /\ f[k] = IF k \in K THEN Append(f[k - 1], bs[k]) ELSE f[k - 1]
    BY <1>2, <2>1 DEF Selects
  <2>3. g[k] = f[k]
    BY <2>1, <2>2
  <2> QED BY <2>3
<1> HIDE DEF T
<1>5. \A k \in 0..n : k \in T
  BY <1>1, <1>3, <1>4, UpTo
<1>6. n \in T
  BY <1>1, <1>5
<1> QED BY <1>1, <1>2, <1>6 DEF T, pre

LEMMA Extends ==
  ASSUME NEW bs \in Seq(Candles), NEW K, NEW f, Selects(f, bs, K),
         NEW m \in 0..Len(bs), NEW n \in 0..Len(bs), m <= n
  PROVE  /\ Len(f[m]) <= Len(f[n]) /\ \A i \in 1..Len(f[m]) : f[n][i] = f[m][i]
         /\ (\A k \in (m + 1)..n : k \notin K) => f[n] = f[m]
<1>1. PICK z \in Nat : z = n - m
  OBVIOUS
<1>2. m \in Nat /\ n \in Nat /\ Len(bs) \in Nat /\ m + z = n /\ n <= Len(bs)
  BY <1>1
<1> DEFINE Grows(k) == /\ f[k] \in Seq(Candles) /\ Len(f[m]) <= Len(f[k])
                       /\ \A i \in 1..Len(f[m]) : f[k][i] = f[m][i]
                       /\ (\A h \in (m + 1)..k : h \notin K) => f[k] = f[m]
           T == {j \in 0..z : Grows(m + j)}
<1>3. f[m] \in Seq(Candles) /\ Len(f[m]) \in Nat
  <2>1. f[m] \in Seq(Candles)
    BY DEF Selects
  <2> QED BY <2>1
<1>4. 0 \in T
  <2>1. m + 0 = m
    BY <1>2
  <2> QED BY <1>3, <2>1
<1>5. ASSUME NEW j \in 1..z, j - 1 \in T PROVE j \in T
  <2>1. PICK k \in 1..Len(bs) : k = m + j /\ k - 1 = m + (j - 1)
    BY <1>2
  <2>2. Grows(k - 1)
    BY <1>5, <2>1
  <2>3. PICK p : p = f[k - 1]
    OBVIOUS
  <2>4. f[k] = IF k \in K THEN Append(p, bs[k]) ELSE p
    BY <2>3 DEF Selects
  <2>5. k \in (m + 1)..k /\ \A h \in (m + 1)..(k - 1) : h \in (m + 1)..k
    BY <1>2, <2>1
  <2>6. CASE k \in K
    <3>1. p \in Seq(Candles) /\ Len(f[m]) <= Len(p) /\ \A i \in 1..Len(f[m]) : p[i] = f[m][i]
      BY <2>2, <2>3
    <3>2. bs[k] \in Candles
      OBVIOUS
    <3>3. PICK q : q = Append(p, bs[k])
      OBVIOUS
    <3>4. q \in Seq(Candles) /\ Len(q) = Len(p) + 1 /\ Len(p) \in Nat /\ \A i \in 1..Len(p) : q[i] = p[i]
      BY <3>1, <3>2, <3>3
    <3>5. Len(f[m]) <= Len(q) /\ \A i \in 1..Len(f[m]) : q[i] = f[m][i]
      BY <1>3, <3>1, <3>4
    <3>6. f[k] = q
      BY <2>4, <2>6, <3>3
    <3>7. Grows(k)
      BY <2>5, <2>6, <3>4, <3>5, <3>6
    <3> QED BY <2>1, <3>7
  <2>7. CASE k \notin K
    BY <2>1, <2>2, <2>3, <2>4, <2>5, <2>7
  <2> QED BY <2>6, <2>7
<1> HIDE DEF T
<1>6. \A j \in 0..z : j \in T
  BY <1>1, <1>4, <1>5, UpTo
<1>7. Grows(m + z)
  <2>1. z \in T
    BY <1>1, <1>6
  <2> QED BY <2>1 DEF T
<1> QED BY <1>2, <1>7

(* The place each chosen bar has in the list.                              *)
Located(g, s, bs, K, n) ==
  /\ g \in [1..Len(s) -> 1..n]
  /\ \A i \in 1..Len(s) : g[i] \in K /\ s[i] = bs[g[i]]
  /\ \A i, j \in 1..Len(s) : i < j => g[i] < g[j]
  /\ \A k \in 1..n : k \in K => \E i \in 1..Len(s) : g[i] = k

LEMMA Places ==
  ASSUME NEW bs \in Seq(Candles), NEW K, NEW f, Selects(f, bs, K), NEW n \in 0..Len(bs)
  PROVE  \E g : Located(g, f[n], bs, K, n)
<1>1. n \in Nat /\ Len(bs) \in Nat /\ n <= Len(bs)
  OBVIOUS
<1> DEFINE T == {k \in 0..n : \E g : Located(g, f[k], bs, K, k)}
<1>2. 0 \in T
  <2>1. f[0] = <<>>
    BY DEF Selects
  <2>2. PICK g : g = [i \in 1..0 |-> 1]
    OBVIOUS
  <2>3. Located(g, f[0], bs, K, 0)
    BY <2>1, <2>2 DEF Located
  <2> QED BY <1>1, <2>3
<1>3. ASSUME NEW k \in 1..n, k - 1 \in T PROVE k \in T
  <2>1. PICK g : Located(g, f[k - 1], bs, K, k - 1)
    BY <1>3
  <2>2. PICK p : p = f[k - 1]
    OBVIOUS
  <2>3. p \in Seq(Candles) /\ k \in 1..Len(bs) /\ bs[k] \in Candles
    <3>1. k \in 1..Len(bs) /\ k - 1 \in 0..Len(bs)
      BY <1>1
    <3> QED BY <2>2, <3>1 DEF Selects
  <2>4. f[k] = IF k \in K THEN Append(p, bs[k]) ELSE p
    BY <2>2, <2>3 DEF Selects
  <2>5. /\ g \in [1..Len(p) -> 1..(k - 1)]
        /\ \A i \in 1..Len(p) : g[i] \in K /\ p[i] = bs[g[i]] /\ g[i] \in 1..(k - 1)
        /\ \A i, j \in 1..Len(p) : i < j => g[i] < g[j]
        /\ \A h \in 1..(k - 1) : h \in K => \E i \in 1..Len(p) : g[i] = h
    BY <2>1, <2>2 DEF Located
  <2>6. CASE k \in K
    <3>1. PICK q, l : q = Append(p, bs[k]) /\ l = Len(p)
      OBVIOUS
    <3>2. l \in Nat /\ Len(q) = l + 1 /\ q[l + 1] = bs[k] /\ \A i \in 1..l : q[i] = p[i]
      BY <2>3, <3>1
    <3>3. 1..(l + 1) = (1..l) \cup {l + 1} /\ l + 1 \in 1..(l + 1) /\ l + 1 \notin 1..l
      BY <3>2
    <3> DEFINE h == [i \in 1..(l + 1) |-> IF i = l + 1 THEN k ELSE g[i]]
    <3>4. h[l + 1] = k /\ \A i \in 1..l : h[i] = g[i]
      BY <3>3
    <3>5. h \in [1..(l + 1) -> 1..k]
      <4>1. \A i \in 1..l : g[i] \in 1..k
        BY <2>5, <3>1
      <4>2. k \in 1..k
        OBVIOUS
      <4> QED BY <3>3, <4>1, <4>2
    <3> HIDE DEF h
    <3>6. ASSUME NEW i \in 1..(l + 1) PROVE h[i] \in K /\ q[i] = bs[h[i]]
      <4>1. CASE i \in 1..l
        BY <2>5, <3>1, <3>2, <3>4, <4>1
      <4>2. CASE i = l + 1
        BY <2>6, <3>2, <3>4, <4>2
      <4> QED BY <3>3, <4>1, <4>2
    <3>7. ASSUME NEW i \in 1..(l + 1), NEW j \in 1..(l + 1), i < j PROVE h[i] < h[j]
      <4>1. i \in 1..l
        BY <3>2, <3>7
      <4>2. CASE j \in 1..l
        BY <2>5, <3>1, <3>4, <3>7, <4>1, <4>2
      <4>3. CASE j = l + 1
        <5>1. g[i] \in 1..(k - 1)
          BY <2>5, <3>1, <4>1
        <5> QED BY <3>4, <4>1, <4>3, <5>1
      <4> QED BY <3>3, <4>2, <4>3
    <3>8. ASSUME NEW a \in 1..k, a \in K PROVE \E i \in 1..(l + 1) : h[i] = a
      <4>1. CASE a = k
        BY <3>3, <3>4, <4>1
      <4>2. CASE a # k
        <5>1. a \in 1..(k - 1)
          BY <4>2
        <5>2. PICK i \in 1..l : g[i] = a
          BY <2>5, <3>1, <3>8, <5>1
        <5> QED BY <3>3, <3>4, <5>2
      <4> QED BY <4>1, <4>2
    <3>9. Located(h, q, bs, K, k)
      BY <3>2, <3>5, <3>6, <3>7, <3>8 DEF Located
    <3>10. f[k] = q
      BY <2>4, <2>6, <3>1
    <3> QED BY <1>1, <3>9, <3>10
  <2>7. CASE k \notin K
    <3>1. g \in [1..Len(p) -> 1..k]
      <4>1. \A i \in 1..Len(p) : g[i] \in 1..k
        BY <2>5
      <4> QED BY <2>5, <4>1
    <3>2. \A a \in 1..k : a \in K => a \in 1..(k - 1)
      BY <2>7
    <3>3. Located(g, p, bs, K, k)
      BY <2>5, <3>1, <3>2 DEF Located
    <3> QED BY <2>4, <2>7, <3>3
  <2> QED BY <2>6, <2>7
<1> HIDE DEF T
<1>4. \A k \in 0..n : k \in T
  BY <1>1, <1>2, <1>3, UpTo
<1>5. n \in T
  BY <1>1, <1>4
<1> QED BY <1>5 DEF T

-----------------------------------------------------------------------------
LEMMA MinIs ==
  ASSUME NEW S \in SUBSET Nat, S # {}
  PROVE  Min(S) \in S /\ Min(S) \in Nat /\ \A x \in S : Min(S) <= x
<1>1. \E n \in S : \A x \in S : n <= x
  BY LeastExists
<1>2. Min(S) \in S /\ \A x \in S : Min(S) <= x
  BY <1>1, Zenon DEF Min
<1> QED BY <1>2

LEMMA MaxIs ==
  ASSUME NEW S \in SUBSET Nat, NEW n \in S, \A x \in S : x <= n
  PROVE  Max(S) \in S /\ \A x \in S : x <= Max(S)
<1>1. \A x \in S : n >= x
  OBVIOUS
<1>2. Max(S) \in S /\ \A x \in S : Max(S) >= x
  BY <1>1, Zenon DEF Max
<1> QED BY <1>2

LEMMA RangeIs ==
  ASSUME NEW s \in Seq(Candles), Len(s) > 0
  PROVE  /\ Max(HighsOf(s)) \in Nat /\ \A k \in 1..Len(s) : s[k].high <= Max(HighsOf(s))
         /\ Min(LowsOf(s)) \in Nat /\ \A k \in 1..Len(s) : Min(LowsOf(s)) <= s[k].low
<1>1. /\ Len(s) \in Nat /\ DOMAIN s = 1..Len(s) /\ 1 \in 1..Len(s)
      /\ \A k \in 1..Len(s) : s[k] \in Candles
  OBVIOUS
<1>2. \A k \in 1..Len(s) : s[k].high \in Nat /\ s[k].low \in Nat
  BY <1>1 DEF Candles
<1>3. /\ HighsOf(s) \in SUBSET Nat /\ LowsOf(s) \in SUBSET Nat /\ LowsOf(s) # {}
      /\ \A k \in 1..Len(s) : s[k].high \in HighsOf(s) /\ s[k].low \in LowsOf(s)
      /\ \A x \in HighsOf(s) : \E k \in 1..Len(s) : x = s[k].high
  BY <1>1, <1>2 DEF HighsOf, LowsOf
<1> DEFINE Highest(n, m) == \A k \in 1..n : s[k].high <= s[m].high
           T == {n \in 0..Len(s) : n = 0 \/ \E m \in 1..n : Highest(n, m)}
<1>4. 0 \in T
  BY <1>1
<1>5. ASSUME NEW n \in 1..Len(s), n - 1 \in T PROVE n \in T
  <2>1. n \in 1..n /\ n \in 0..Len(s) /\ \A k \in 1..n : k \in 1..Len(s) /\ (k = n \/ k \in 1..(n - 1))
    BY <1>1
  <2>2. CASE n = 1
    <3>1. Highest(n, n)
      BY <1>2, <2>1, <2>2
    <3> HIDE DEF Highest
    <3> QED BY <2>1, <3>1
  <2>3. CASE n # 1
    <3>1. PICK m \in 1..(n - 1) : Highest(n - 1, m)
      <4>1. n - 1 # 0
        BY <2>3
      <4> HIDE DEF Highest
      <4> QED BY <1>5, <4>1
    <3>2. m \in 1..n /\ m \in 1..Len(s)
      BY <1>1
    <3>3. CASE s[n].high <= s[m].high
      <4>1. Highest(n, m)
        BY <2>1, <3>1, <3>3
      <4> HIDE DEF Highest
      <4> QED BY <2>1, <3>2, <4>1
    <3>4. CASE ~(s[n].high <= s[m].high)
      <4>1. Highest(n, n)
        BY <1>2, <2>1, <3>1, <3>2, <3>4
      <4> HIDE DEF Highest
      <4> QED BY <2>1, <4>1
    <3> QED BY <3>3, <3>4
  <2> QED BY <2>2, <2>3
<1> HIDE DEF T
<1>6. \A n \in 0..Len(s) : n \in T
  BY <1>1, <1>4, <1>5, UpTo
<1>7. PICK m \in 1..Len(s) : \A k \in 1..Len(s) : s[k].high <= s[m].high
  <2>1. Len(s) \in T /\ Len(s) # 0
    BY <1>1, <1>6
  <2> QED BY <2>1 DEF T
<1>8. s[m].high \in HighsOf(s) /\ \A x \in HighsOf(s) : x <= s[m].high
  BY <1>3, <1>7
<1>9. Max(HighsOf(s)) \in HighsOf(s) /\ \A x \in HighsOf(s) : x <= Max(HighsOf(s))
  BY <1>3, <1>8, MaxIs
<1>10. Min(LowsOf(s)) \in Nat /\ \A x \in LowsOf(s) : Min(LowsOf(s)) <= x
  BY <1>3, MinIs
<1> QED BY <1>3, <1>9, <1>10

-----------------------------------------------------------------------------
(* The parts of an answer.                                                 *)
InTime(bs) == \A i, j \in 1..Len(bs) : i < j => Before(bs[i], bs[j])
Session(bs, d) == {k \in DOMAIN bs : bs[k].day = d /\ IsRegular(bs[k])}
Today(bs) == Those(bs, Session(bs, bs[Len(bs)].day))
UntilCutoff(regular) == {k \in (RangeBars + 1)..Len(regular) : regular[k].minute < Cutoff}
Broken(regular, sector) ==
  {k \in UntilCutoff(regular) : \E d \in {"LONG", "SHORT"} : Allows(sector, d) /\ BreaksRange(regular, k, d)}
Toward(regular, sector) ==
  IF Allows(sector, "LONG") /\ BreaksRange(regular, Min(Broken(regular, sector)), "LONG") THEN "LONG" ELSE "SHORT"
Confirmed(bs, regular, sector) ==
  {k \in UntilCutoff(regular) : /\ k > Min(Broken(regular, sector))
                                /\ Retests(regular, k, Toward(regular, sector))
                                /\ VolumeConfirms(bs, regular[k])}

LEMMA LastIsToday ==
  ASSUME NEW bs \in Seq(Candles), InTime(bs), Len(bs) > 0
  PROVE  Max({bs[k].day : k \in DOMAIN bs}) = bs[Len(bs)].day
<1> DEFINE S == {bs[k].day : k \in DOMAIN bs}
           n == bs[Len(bs)].day
<1>1. /\ Len(bs) \in Nat /\ DOMAIN bs = 1..Len(bs) /\ Len(bs) \in 1..Len(bs)
      /\ \A k \in 1..Len(bs) : bs[k] \in Candles
  OBVIOUS
<1>2. \A k \in 1..Len(bs) : bs[k].day \in Nat
  BY <1>1 DEF Candles
<1>3. \A k \in 1..Len(bs) : bs[k].day <= n
  <2> TAKE k \in 1..Len(bs)
  <2>1. CASE k = Len(bs)
    BY <1>2, <2>1
  <2>2. CASE k # Len(bs)
    <3>1. k < Len(bs)
      <4>1. \A l \in Nat : \A j \in 1..l : j # l => j < l
        OBVIOUS
      <4> QED BY <1>1, <2>2, <4>1
    <3> QED BY <1>1, <1>2, <3>1 DEF InTime, Before
  <2> QED BY <2>1, <2>2
<1>4. S \in SUBSET Nat /\ n \in S /\ \A x \in S : x <= n
  BY <1>1, <1>2, <1>3
<1>5. Max(S) \in S /\ \A x \in S : x <= Max(S)
  <2> HIDE DEF S, n
  <2> QED BY <1>4, MaxIs
<1>6. Max(S) <= n /\ n <= Max(S) /\ Max(S) \in Nat /\ n \in Nat
  BY <1>4, <1>5
<1> HIDE DEF S, n
<1>7. Max(S) = n
  BY <1>6
<1> QED BY <1>7 DEF S, n

LEMMA AnswerIs ==
  ASSUME NEW bs \in Seq(Candles), InTime(bs), Len(bs) > 0, NEW previous, NEW sector,
         Evaluated(bs, previous, sector).status = "TRIGGERED"
  PROVE  LET regular == Today(bs)
         IN /\ Len(regular) >= RangeBars
            /\ Broken(regular, sector) # {} /\ Confirmed(bs, regular, sector) # {}
            /\ Evaluated(bs, previous, sector) =
                 Signal(regular, Min(Confirmed(bs, regular, sector)), Toward(regular, sector))
<1> DEFINE today == Max({bs[k].day : k \in DOMAIN bs})
           premarket == Those(bs, {k \in DOMAIN bs : bs[k].day = today /\ IsPremarket(bs[k])})
           regular == Those(bs, {k \in DOMAIN bs : bs[k].day = today /\ IsRegular(bs[k])})
           broken == Broken(regular, sector)
           confirmed == Confirmed(bs, regular, sector)
           filtered == Filtered(bs, today, premarket, regular[1].open, previous)
           answer == Evaluated(bs, previous, sector)
           signal == Signal(regular, Min(confirmed), Toward(regular, sector))
<1>1. answer = IF Len(regular) < RangeBars THEN Other("OPENING_RANGE_FORMING")
               ELSE IF filtered THEN Other("FILTERED")
               ELSE IF broken = {} THEN Other("WAIT_BREAKOUT")
               ELSE IF confirmed = {} THEN Other("WAIT_RETEST")
               ELSE signal
  BY Zenon DEF Evaluated, UntilCutoff, Broken, Toward, Confirmed
<1>2. regular = Today(bs)
  BY LastIsToday, Zenon DEF Today, Session
<1> HIDE DEF regular, filtered, broken, confirmed, answer, signal
<1>3. \A x \in {"OPENING_RANGE_FORMING", "FILTERED", "WAIT_BREAKOUT", "WAIT_RETEST"} :
        Other(x).status # "TRIGGERED"
  BY DEF Other
<1>4. answer.status = "TRIGGERED"
  BY DEF answer
<1>5. ~(Len(regular) < RangeBars) /\ broken # {} /\ confirmed # {} /\ answer = signal
  BY <1>1, <1>3, <1>4
<1>6. Len(regular) >= RangeBars
  <2>1. PICK f : Selects(f, bs, Session(bs, bs[Len(bs)].day)) /\ regular = f[Len(bs)]
    BY <1>2, ThoseAre DEF Today
  <2>2. regular \in Seq(Candles)
    BY <2>1 DEF Selects
  <2>3. Len(regular) \in Nat /\ RangeBars \in Nat
    BY <2>2, OrbAssumption
  <2> QED BY <1>5, <2>3
<1> QED BY <1>2, <1>5, <1>6 DEF broken, confirmed, answer, signal

(* What the answer says of the bars it is based on.                        *)
LEMMA TodayIs ==
  ASSUME NEW bs \in Seq(Candles), Len(bs) > 0
  PROVE  /\ Today(bs) \in Seq(Candles)
         /\ \E g : Located(g, Today(bs), bs, Session(bs, bs[Len(bs)].day), Len(bs))
<1> DEFINE K == Session(bs, bs[Len(bs)].day)
<1>1. PICK f : Selects(f, bs, K) /\ Today(bs) = f[Len(bs)]
  BY ThoseAre DEF Today
<1>2. Len(bs) \in 0..Len(bs)
  OBVIOUS
<1>3. f[Len(bs)] \in Seq(Candles)
  BY <1>1, <1>2 DEF Selects
<1> HIDE DEF K
<1>4. \E g : Located(g, f[Len(bs)], bs, K, Len(bs))
  BY <1>1, <1>2, Places
<1> QED BY <1>1, <1>3, <1>4 DEF K

LEMMA BarsAndPrices ==
  /\ RangeBars \in Nat \ {0} /\ BufferDen \in Nat \ {0} /\ RewardR \in Nat \ {0} /\ Cutoff \in Nat
  /\ \A b \in Candles : /\ b.day \in Nat /\ b.minute \in Nat /\ b.high \in Nat /\ b.low \in Nat
                        /\ b.close \in Nat
BY OrbAssumption DEF Candles

LEMMA FirstBreak ==
  ASSUME NEW regular \in Seq(Candles), NEW sector, Broken(regular, sector) # {}
  PROVE  LET first == Min(Broken(regular, sector))
         IN /\ first \in UntilCutoff(regular) /\ first \in Nat
            /\ first \in (RangeBars + 1)..Len(regular)
            /\ Toward(regular, sector) \in {"LONG", "SHORT"}
            /\ BreaksRange(regular, first, Toward(regular, sector))
            /\ \A k \in Broken(regular, sector) : first <= k
<1> DEFINE S == Broken(regular, sector)
           first == Min(S)
<1>1. S \in SUBSET Nat /\ \A k \in S : k \in UntilCutoff(regular) /\ k \in (RangeBars + 1)..Len(regular)
  BY BarsAndPrices DEF Broken, UntilCutoff
<1>2. first \in S /\ first \in Nat /\ \A k \in S : first <= k
  <2> HIDE DEF S
  <2> QED BY <1>1, MinIs DEF S
<1>3. \E d \in {"LONG", "SHORT"} : Allows(sector, d) /\ BreaksRange(regular, first, d)
  BY <1>2, Zenon DEF Broken
<1>4. CASE Allows(sector, "LONG") /\ BreaksRange(regular, first, "LONG")
  <2>1. Toward(regular, sector) = "LONG"
    BY <1>4, Zenon DEF Toward
  <2> QED BY <1>1, <1>2, <1>4, <2>1
<1>5. CASE ~(Allows(sector, "LONG") /\ BreaksRange(regular, first, "LONG"))
  <2>1. Toward(regular, sector) = "SHORT"
    BY <1>5, Zenon DEF Toward
  <2>2. BreaksRange(regular, first, "SHORT")
    BY <1>3, <1>5, Zenon
  <2> QED BY <1>1, <1>2, <2>1, <2>2
<1> QED BY <1>4, <1>5

-----------------------------------------------------------------------------
(* Two answers of one session, given after bars m and n, are on the same   *)
(* bar when the sector allows the same.                                    *)
LEMMA FirstOf ==
  ASSUME NEW bs \in Seq(Candles), InTime(bs), NEW n \in 1..Len(bs)
  PROVE  LET pre == SubSeq(bs, 1, n)
         IN /\ pre \in Seq(Candles) /\ Len(pre) = n /\ DOMAIN pre = 1..n /\ InTime(pre)
            /\ \A k \in 1..n : pre[k] = bs[k] /\ bs[k] \in Candles /\ k \in 1..Len(bs)
<1> DEFINE pre == SubSeq(bs, 1, n)
<1>1. /\ pre \in Seq(Candles) /\ Len(pre) = n
      /\ \A k \in 1..n : pre[k] = bs[k] /\ bs[k] \in Candles /\ k \in 1..Len(bs)
  OBVIOUS
<1> HIDE DEF pre
<1>2. InTime(pre)
  BY <1>1 DEF InTime
<1>3. DOMAIN pre = 1..n
  BY <1>1
<1> QED BY <1>1, <1>2, <1>3 DEF pre

LEMMA VolumeOfTheTime ==
  ASSUME NEW bs \in Seq(Candles), InTime(bs), NEW m \in 1..Len(bs), NEW n \in 1..Len(bs), m <= n,
         NEW j \in 1..m
  PROVE  VolumeConfirms(SubSeq(bs, 1, m), bs[j]) = VolumeConfirms(SubSeq(bs, 1, n), bs[j])
<1> DEFINE c == bs[j]
           P == {k \in 1..Len(bs) : Before(bs[k], c) /\ IsRegular(bs[k]) /\ bs[k].volume > 0}
           prior(b) == {k \in DOMAIN b : Before(b[k], c) /\ IsRegular(b[k]) /\ b[k].volume > 0}
           x == SubSeq(bs, 1, m)
           y == SubSeq(bs, 1, n)
<1>1. PICK f : Selects(f, bs, P)
  BY ThoseAre
<1>2. m \in 0..Len(bs) /\ n \in 0..Len(bs) /\ m \in Nat /\ n \in Nat /\ j \in Nat /\ j <= m
  OBVIOUS
<1>3. Those(x, prior(x)) = f[m]
  <2>1. DOMAIN x = 1..m /\ \A k \in 1..m : x[k] = bs[k] /\ k \in 1..Len(bs)
    BY FirstOf
  <2>2. \A k \in 1..m : k \in prior(x) <=> k \in P
    <3> HIDE DEF x
    <3> QED BY <2>1
  <2> HIDE DEF P, prior
  <2> QED BY <1>1, <1>2, <2>2, ThoseOf
<1>4. Those(y, prior(y)) = f[n]
  <2>1. DOMAIN y = 1..n /\ \A k \in 1..n : y[k] = bs[k] /\ k \in 1..Len(bs)
    BY FirstOf
  <2>2. \A k \in 1..n : k \in prior(y) <=> k \in P
    <3> HIDE DEF y
    <3> QED BY <2>1
  <2> HIDE DEF P, prior
  <2> QED BY <1>1, <1>2, <2>2, ThoseOf
<1>5. \A k \in (m + 1)..n : k \notin P
  <2> SUFFICES ASSUME NEW k \in (m + 1)..n, k \in P PROVE FALSE
    OBVIOUS
  <2>1. k \in 1..Len(bs) /\ j \in 1..Len(bs) /\ j < k
    BY <1>2
  <2>2. Before(bs[j], bs[k]) /\ Before(bs[k], bs[j])
    BY <2>1 DEF InTime
  <2>3. bs[j] \in Candles /\ bs[k] \in Candles
    BY <2>1
  <2> QED BY <2>2, <2>3, BarsAndPrices DEF Before
<1>6. f[n] = f[m]
  <2> HIDE DEF P
  <2> QED BY <1>1, <1>2, <1>5, Extends
<1>7. Those(x, prior(x)) = Those(y, prior(y))
  BY <1>3, <1>4, <1>6
<1> QED BY <1>7, Zenon DEF VolumeConfirms

LEMMA SameAnswer ==
  ASSUME NEW bs \in Seq(Candles), InTime(bs), NEW m \in 1..Len(bs), NEW n \in 1..Len(bs), m <= n,
         bs[m].day = bs[n].day, NEW p, NEW q, NEW sector,
         Evaluated(SubSeq(bs, 1, m), p, sector).status = "TRIGGERED",
         Evaluated(SubSeq(bs, 1, n), q, sector).status = "TRIGGERED"
  PROVE  Evaluated(SubSeq(bs, 1, m), p, sector).bar = Evaluated(SubSeq(bs, 1, n), q, sector).bar
<1> DEFINE x == SubSeq(bs, 1, m)
           y == SubSeq(bs, 1, n)
           d == bs[m].day
           K == {k \in 1..Len(bs) : bs[k].day = d /\ IsRegular(bs[k])}
<1>1. PICK f : Selects(f, bs, K)
  BY ThoseAre
<1>2. m \in 0..Len(bs) /\ n \in 0..Len(bs) /\ m \in Nat /\ n \in Nat /\ m \in 1..m /\ n \in 1..n
  OBVIOUS
<1>3. /\ x \in Seq(Candles) /\ Len(x) = m /\ DOMAIN x = 1..m /\ InTime(x)
      /\ \A k \in 1..m : x[k] = bs[k] /\ k \in 1..Len(bs)
  BY FirstOf
<1>4. /\ y \in Seq(Candles) /\ Len(y) = n /\ DOMAIN y = 1..n /\ InTime(y)
      /\ \A k \in 1..n : y[k] = bs[k] /\ k \in 1..Len(bs)
  BY FirstOf
<1>5. Today(x) = f[m]
  <2>1. x[Len(x)].day = d
    BY <1>2, <1>3
  <2>2. \A k \in 1..m : k \in Session(x, d) <=> k \in K
    <3> HIDE DEF x
    <3> QED BY <1>3 DEF Session
  <2>3. Those(x, Session(x, d)) = f[m]
    <3> HIDE DEF K, d
    <3> QED BY <1>1, <1>2, <2>2, ThoseOf
  <2> QED BY <2>1, <2>3 DEF Today
<1>6. Today(y) = f[n]
  <2>1. y[Len(y)].day = d
    BY <1>2, <1>4
  <2>2. \A k \in 1..n : k \in Session(y, d) <=> k \in K
    <3> HIDE DEF y
    <3> QED BY <1>4 DEF Session
  <2>3. Those(y, Session(y, d)) = f[n]
    <3> HIDE DEF K, d
    <3> QED BY <1>1, <1>2, <2>2, ThoseOf
  <2> QED BY <2>1, <2>3 DEF Today
<1> DEFINE a == Today(x)
           b == Today(y)
<1>7. /\ a \in Seq(Candles) /\ b \in Seq(Candles) /\ Len(a) \in Nat /\ Len(b) \in Nat
      /\ Len(a) <= Len(b) /\ \A i \in 1..Len(a) : b[i] = a[i] /\ i \in 1..Len(b)
  <2>1. f[m] \in Seq(Candles) /\ f[n] \in Seq(Candles)
    BY <1>1, <1>2 DEF Selects
  <2>2. Len(f[m]) <= Len(f[n]) /\ \A i \in 1..Len(f[m]) : f[n][i] = f[m][i]
    <3> HIDE DEF K
    <3> QED BY <1>1, <1>2, Extends
  <2> QED BY <1>5, <1>6, <2>1, <2>2
<1>8. \A k \in 1..Len(a) : \E j \in 1..m : a[k] = bs[j]
  <2>1. PICK g : Located(g, a, x, Session(x, x[Len(x)].day), Len(x))
    <3>1. x \in Seq(Candles) /\ Len(x) > 0
      BY <1>2, <1>3
    <3> HIDE DEF x
    <3> QED BY <3>1, TodayIs
  <2> TAKE k \in 1..Len(a)
  <2>2. g[k] \in 1..m /\ a[k] = x[g[k]]
    BY <1>3, <2>1 DEF Located
  <2> QED BY <1>3, <2>2
<1> DEFINE A == Broken(a, sector)
           B == Broken(b, sector)
<1>9. /\ Len(a) >= RangeBars /\ A # {} /\ Confirmed(x, a, sector) # {}
      /\ Evaluated(x, p, sector) = Signal(a, Min(Confirmed(x, a, sector)), Toward(a, sector))
  <2>1. Len(x) > 0
    BY <1>2, <1>3
  <2> QED BY <1>3, <2>1, AnswerIs
<1>10. /\ Len(b) >= RangeBars /\ B # {} /\ Confirmed(y, b, sector) # {}
       /\ Evaluated(y, q, sector) = Signal(b, Min(Confirmed(y, b, sector)), Toward(b, sector))
  <2>1. Len(y) > 0
    BY <1>2, <1>4
  <2> QED BY <1>4, <2>1, AnswerIs
<1> HIDE DEF x, y, a, b, A, B
<1>11. \A k \in 0..Len(a) : SubSeq(a, 1, k) = SubSeq(b, 1, k)
  <2> TAKE k \in 0..Len(a)
  <2>1. /\ SubSeq(a, 1, k) = [i \in 1..k |-> a[i]]
        /\ SubSeq(b, 1, k) = [i \in 1..k |-> b[i]]
    BY <1>7
  <2>2. \A i \in 1..k : a[i] = b[i]
    BY <1>7
  <2> QED BY <2>1, <2>2
<1>12. SubSeq(a, 1, RangeBars) = SubSeq(b, 1, RangeBars)
  BY <1>7, <1>9, <1>11, BarsAndPrices
<1>13. ASSUME NEW k \in 1..Len(a), NEW w
       PROVE  /\ BreaksRange(a, k, w) = BreaksRange(b, k, w) /\ Retests(a, k, w) = Retests(b, k, w)
              /\ VolumeConfirms(x, a[k]) = VolumeConfirms(y, b[k])
  <2>1. SubSeq(a, 1, k) = SubSeq(b, 1, k) /\ a[k] = b[k]
    BY <1>7, <1>11
  <2>2. BreaksRange(a, k, w) = BreaksRange(b, k, w)
    BY <1>12, <2>1, Zenon DEF BreaksRange
  <2>3. Retests(a, k, w) = Retests(b, k, w)
    BY <1>12, <2>1, Zenon DEF Retests, Level
  <2>4. VolumeConfirms(x, a[k]) = VolumeConfirms(y, a[k])
    <3>1. PICK j \in 1..m : a[k] = bs[j]
      BY <1>8
    <3> QED BY <3>1, VolumeOfTheTime DEF x, y
  <2> QED BY <2>1, <2>2, <2>3, <2>4
<1>14. /\ \A k \in UntilCutoff(a) : k \in UntilCutoff(b) /\ k \in 1..Len(a)
       /\ \A k \in UntilCutoff(b) : k <= Len(a) => k \in UntilCutoff(a)
  <2>1. RangeBars \in Nat
    BY BarsAndPrices
  <2> QED BY <1>7, <2>1 DEF UntilCutoff
<1>15. /\ \A k \in A : k \in B
       /\ \A k \in B : k <= Len(a) => k \in A
  BY <1>13, <1>14, Zenon DEF Broken, A, B
<1> DEFINE first == Min(A)
<1>16. first \in 1..Len(a) /\ Min(B) = first
  <2>1. /\ A \in SUBSET Nat /\ B \in SUBSET Nat /\ \A k \in A : k <= Len(a) /\ k \in 1..Len(a)
    BY <1>7, BarsAndPrices DEF A, B, Broken, UntilCutoff
  <2>2. first \in A /\ first \in Nat /\ \A k \in A : first <= k
    BY <1>9, <2>1, MinIs
  <2>3. Min(B) \in B /\ Min(B) \in Nat /\ \A k \in B : Min(B) <= k
    BY <1>10, <2>1, MinIs
  <2> HIDE DEF first
  <2>4. Min(B) <= first
    BY <1>15, <2>2, <2>3
  <2>5. Min(B) \in A
    <3>1. first <= Len(a)
      BY <2>1, <2>2
    <3>2. Min(B) <= Len(a)
      BY <1>7, <2>2, <2>3, <2>4, <3>1
    <3> QED BY <1>15, <2>3, <3>2
  <2>6. first <= Min(B)
    BY <2>2, <2>5
  <2> QED BY <2>1, <2>2, <2>3, <2>4, <2>6
<1>17. Toward(a, sector) = Toward(b, sector)
  <2>1. BreaksRange(a, first, "LONG") = BreaksRange(b, first, "LONG")
    BY <1>13, <1>16
  <2> QED BY <1>16, <2>1, Zenon DEF Toward, A, B
<1> DEFINE C == Confirmed(x, a, sector)
           D == Confirmed(y, b, sector)
<1>18. /\ \A k \in C : k \in D
       /\ \A k \in D : k <= Len(a) => k \in C
  <2>1. /\ C = {k \in UntilCutoff(a) : k > first /\ Retests(a, k, Toward(a, sector)) /\ VolumeConfirms(x, a[k])}
        /\ D = {k \in UntilCutoff(b) : k > first /\ Retests(b, k, Toward(a, sector)) /\ VolumeConfirms(y, b[k])}
    BY <1>16, <1>17, Zenon DEF Confirmed, A, B
  <2> HIDE DEF C, D, first
  <2> QED BY <1>13, <1>14, <2>1, Zenon
<1>19. /\ C \in SUBSET Nat /\ D \in SUBSET Nat /\ \A k \in C : k <= Len(a) /\ k \in 1..Len(a)
  BY <1>7, BarsAndPrices DEF Confirmed, UntilCutoff
<1> HIDE DEF C, D
<1>20. Min(C) \in 1..Len(a) /\ Min(D) = Min(C)
  <2>1. Min(C) \in C /\ Min(C) \in Nat /\ \A k \in C : Min(C) <= k
    BY <1>9, <1>19, MinIs DEF C
  <2>2. Min(D) \in D /\ Min(D) \in Nat /\ \A k \in D : Min(D) <= k
    BY <1>10, <1>19, MinIs DEF D
  <2>3. Min(D) <= Min(C) /\ Min(C) <= Len(a)
    BY <1>18, <1>19, <2>1, <2>2
  <2>4. Min(D) \in C
    BY <1>7, <1>18, <2>1, <2>2, <2>3
  <2> QED BY <1>19, <2>1, <2>2, <2>3, <2>4
<1>21. a[Min(C)] = b[Min(D)]
  BY <1>7, <1>20
<1>22. Evaluated(x, p, sector).bar = a[Min(C)] /\ Evaluated(y, q, sector).bar = b[Min(D)]
  BY <1>9, <1>10 DEF Signal, C, D
<1> QED BY <1>21, <1>22 DEF x, y

-----------------------------------------------------------------------------
(* Where the stop and the target of a retest lie.                          *)
LEMMA BeyondLevel ==
  ASSUME NEW l \in Nat, NEW c \in Nat
  PROVE  /\ c > l => BufferDen * c - (BufferDen - 1) * l > 0
         /\ c < l => (BufferDen + 1) * l - BufferDen * c > 0
         /\ BufferDen * c \in Int /\ (BufferDen - 1) * l \in Int /\ (BufferDen + 1) * l \in Int
<1>1. PICK D \in Nat : D = BufferDen /\ D >= 1
  BY BarsAndPrices
<1>2. \A e \in Nat : e >= 1 => D * e >= 1
  <2>1. ASSUME NEW e \in Nat, e >= 1 PROVE D * e >= 1
    <3>1. PICK h \in Nat : h = D - 1
      BY <1>1
    <3>2. D * e = h * e + e /\ h * e >= 0
      BY <3>1
    <3> QED BY <2>1, <3>2
  <2> QED BY <2>1
<1>3. ASSUME c > l PROVE D * c - (D - 1) * l > 0
  <2>1. PICK e \in Nat : e = c - l /\ e >= 1
    BY <1>3
  <2>2. D * c = D * e + D * l
    BY <2>1
  <2>3. (D - 1) * l = D * l - l
    OBVIOUS
  <2>4. D * e \in Nat /\ D * l \in Nat
    OBVIOUS
  <2> QED BY <1>2, <2>1, <2>2, <2>3, <2>4
<1>4. ASSUME c < l PROVE (D + 1) * l - D * c > 0
  <2>1. PICK e \in Nat : e = l - c /\ e >= 1
    BY <1>4
  <2>2. D * l = D * e + D * c
    BY <2>1
  <2>3. (D + 1) * l = D * l + l
    OBVIOUS
  <2>4. D * e \in Nat /\ D * c \in Nat
    OBVIOUS
  <2> QED BY <1>2, <2>1, <2>2, <2>3, <2>4
<1>5. D * c \in Int /\ (D - 1) * l \in Int /\ (D + 1) * l \in Int
  OBVIOUS
<1> QED BY <1>1, <1>3, <1>4, <1>5

LEMMA RewardCounts ==
  ASSUME NEW r \in Int, r > 0
  PROVE  RewardR * r > 0 /\ RewardR * r \in Int
<1>1. PICK h \in Nat : RewardR = h + 1
  <2>1. RewardR - 1 \in Nat /\ RewardR = (RewardR - 1) + 1
    BY BarsAndPrices
  <2> QED BY <2>1
<1>2. h * r \in Int /\ h * r >= 0 /\ (h + 1) * r = h * r + r
  OBVIOUS
<1> QED BY <1>1, <1>2

LEMMA LeastOfTwo ==
  ASSUME NEW a \in Int, NEW b \in Int
  PROVE  /\ Min({a, b}) \in Int /\ Min({a, b}) <= b
         /\ Max({a, b}) \in Int /\ Max({a, b}) >= b
<1>1. \E x \in {a, b} : \A y \in {a, b} : x <= y
  <2>1. CASE a <= b
    BY <2>1
  <2>2. CASE ~(a <= b)
    BY <2>2
  <2> QED BY <2>1, <2>2
<1>2. \E x \in {a, b} : \A y \in {a, b} : x >= y
  <2>1. CASE a >= b
    BY <2>1
  <2>2. CASE ~(a >= b)
    BY <2>2
  <2> QED BY <2>1, <2>2
<1>3. Min({a, b}) \in {a, b} /\ \A y \in {a, b} : Min({a, b}) <= y
  BY <1>1, Zenon DEF Min
<1>4. Max({a, b}) \in {a, b} /\ \A y \in {a, b} : Max({a, b}) >= y
  BY <1>2, Zenon DEF Max
<1> QED BY <1>3, <1>4

LEMMA LevelIs ==
  ASSUME NEW regular \in Seq(Candles), Len(regular) >= RangeBars
  PROVE  /\ Max(HighsOf(SubSeq(regular, 1, RangeBars))) \in Nat
         /\ Min(LowsOf(SubSeq(regular, 1, RangeBars))) \in Nat
         /\ \A i \in 1..RangeBars :
              /\ regular[i].high <= Max(HighsOf(SubSeq(regular, 1, RangeBars)))
              /\ Min(LowsOf(SubSeq(regular, 1, RangeBars))) <= regular[i].low
<1> DEFINE opening == SubSeq(regular, 1, RangeBars)
<1>1. /\ opening \in Seq(Candles) /\ Len(opening) = RangeBars /\ Len(opening) > 0
      /\ \A i \in 1..RangeBars : opening[i] = regular[i]
  BY BarsAndPrices
<1> HIDE DEF opening
<1>2. /\ Max(HighsOf(opening)) \in Nat /\ \A k \in 1..Len(opening) : opening[k].high <= Max(HighsOf(opening))
      /\ Min(LowsOf(opening)) \in Nat /\ \A k \in 1..Len(opening) : Min(LowsOf(opening)) <= opening[k].low
  BY <1>1, RangeIs
<1>3. \A i \in 1..RangeBars : regular[i].high <= Max(HighsOf(opening)) /\ Min(LowsOf(opening)) <= regular[i].low
  BY <1>1, <1>2
<1> QED BY <1>2, <1>3 DEF opening

LEMMA RetestIs ==
  ASSUME NEW regular \in Seq(Candles), Len(regular) >= RangeBars, NEW k \in 1..Len(regular),
         NEW w \in {"LONG", "SHORT"}, Retests(regular, k, w)
  PROVE  LET s == Signal(regular, k, w)
             sign == IF w = "LONG" THEN 1 ELSE -1
         IN /\ s.bar = regular[k] /\ s.direction = w /\ s.status = "TRIGGERED"
            /\ sign * (BufferDen * s.bar.close - s.stop) > 0
            /\ sign * (s.target - BufferDen * s.bar.close) > 0
<1> DEFINE s == Signal(regular, k, w)
           level == Level(regular, w)
           b == regular[k]
           stop == StopOf(regular, k, w)
<1>1. b \in Candles /\ b.close \in Nat /\ b.high \in Nat /\ b.low \in Nat
  BY BarsAndPrices
<1>2. level \in Nat
  BY LevelIs DEF Level
<1>3. /\ s.bar = b /\ s.direction = w /\ s.status = "TRIGGERED" /\ s.stop = stop
      /\ s.target = BufferDen * b.close + RewardR * (BufferDen * b.close - stop)
  BY DEF Signal
<1>4. /\ BufferDen * b.close \in Int /\ BufferDen * b.low \in Int /\ BufferDen * b.high \in Int
      /\ (BufferDen - 1) * level \in Int /\ (BufferDen + 1) * level \in Int
  <2>1. \A x, y \in Int : x * y \in Int
    OBVIOUS
  <2>2. BufferDen \in Int /\ BufferDen - 1 \in Int /\ BufferDen + 1 \in Int
    BY BarsAndPrices
  <2>3. b.close \in Int /\ b.low \in Int /\ b.high \in Int /\ level \in Int
    BY <1>1, <1>2
  <2> HIDE DEF b, level
  <2> QED BY <2>1, <2>2, <2>3
<1>5. CASE w = "LONG"
  <2>1. b.close > level
    BY <1>5 DEF Retests
  <2>2. stop = Min({BufferDen * b.low, (BufferDen - 1) * level})
    BY <1>5, Zenon DEF StopOf
  <2>3. BufferDen * b.close - (BufferDen - 1) * level > 0
    BY <1>1, <1>2, <2>1, BeyondLevel
  <2> HIDE DEF level, stop, s, b
  <2>4. stop \in Int /\ stop <= (BufferDen - 1) * level
    BY <1>4, <2>2, LeastOfTwo
  <2>5. PICK c \in Int, v \in Int : c = BufferDen * b.close /\ v = (BufferDen - 1) * level
    BY <1>4
  <2>6. c - stop > 0 /\ c - stop \in Int
    BY <2>3, <2>4, <2>5
  <2>7. RewardR * (c - stop) > 0 /\ RewardR * (c - stop) \in Int
    BY <2>6, RewardCounts
  <2>8. PICK t \in Int : t = RewardR * (c - stop)
    BY <2>7
  <2>9. s.target = c + t
    BY <1>3, <2>5, <2>8
  <2>10. /\ 1 * (BufferDen * s.bar.close - s.stop) > 0
         /\ 1 * (s.target - BufferDen * s.bar.close) > 0
    <3>1. BufferDen * s.bar.close = c /\ s.stop = stop
      BY <1>3, <2>5
    <3>2. c - stop > 0 /\ t > 0 /\ stop \in Int
      BY <2>4, <2>6, <2>7, <2>8
    <3>3. 1 * (c - stop) > 0 /\ 1 * ((c + t) - c) > 0
      BY <3>2
    <3> QED BY <2>9, <3>1, <3>3, Zenon
  <2> QED BY <1>3, <1>5, <2>10 DEF s, b
<1>6. CASE w = "SHORT"
  <2>1. b.close < level
    BY <1>6 DEF Retests
  <2>2. stop = Max({BufferDen * b.high, (BufferDen + 1) * level})
    BY <1>6, Zenon DEF StopOf
  <2>3. (BufferDen + 1) * level - BufferDen * b.close > 0
    BY <1>1, <1>2, <2>1, BeyondLevel
  <2> HIDE DEF level, stop, s, b
  <2>4. stop \in Int /\ stop >= (BufferDen + 1) * level
    BY <1>4, <2>2, LeastOfTwo
  <2>5. PICK c \in Int, v \in Int : c = BufferDen * b.close /\ v = (BufferDen + 1) * level
    BY <1>4
  <2>6. stop - c > 0 /\ stop - c \in Int
    BY <2>3, <2>4, <2>5
  <2>7. RewardR * (stop - c) > 0 /\ RewardR * (stop - c) \in Int
    BY <2>6, RewardCounts
  <2>8. PICK t \in Int : t = RewardR * (stop - c)
    BY <2>7
  <2>9. s.target = c - t
    <3>1. RewardR \in Int
      BY BarsAndPrices
    <3>2. RewardR * (c - stop) = -(RewardR * (stop - c))
      BY <2>4, <3>1
    <3> QED BY <1>3, <2>5, <2>8, <3>2
  <2>10. /\ (-1) * (BufferDen * s.bar.close - s.stop) > 0
         /\ (-1) * (s.target - BufferDen * s.bar.close) > 0
    <3>1. BufferDen * s.bar.close = c /\ s.stop = stop
      BY <1>3, <2>5
    <3>2. stop - c > 0 /\ t > 0 /\ stop \in Int
      BY <2>4, <2>6, <2>7, <2>8
    <3>3. (-1) * (c - stop) > 0 /\ (-1) * ((c - t) - c) > 0
      BY <3>2
    <3> QED BY <2>9, <3>1, <3>3, Zenon
  <2> QED BY <1>3, <1>6, <2>10 DEF s, b
<1> QED BY <1>5, <1>6

(* The places up to a chosen one are as many as its number.                *)
LEMMA CountsPlaces ==
  ASSUME NEW l \in Nat, NEW n \in Nat, NEW g \in [1..l -> 1..n],
         \A i, j \in 1..l : i < j => g[i] < g[j]
  PROVE  \A i \in 0..l : IsFiniteSet({g[j] : j \in 1..i}) /\ Cardinality({g[j] : j \in 1..i}) = i
<1> DEFINE P(i) == {g[j] : j \in 1..i}
           T == {i \in 0..l : IsFiniteSet(P(i)) /\ Cardinality(P(i)) = i}
<1>1. 0 \in T
  <2>1. P(0) = {}
    OBVIOUS
  <2>2. IsFiniteSet({}) /\ Cardinality({}) = 0
    BY FS_EmptySet
  <2>3. IsFiniteSet(P(0)) /\ Cardinality(P(0)) = 0
    BY <2>1, <2>2, Zenon
  <2>4. 0 \in 0..l
    OBVIOUS
  <2> QED BY <2>3, <2>4
<1>2. ASSUME NEW i \in 1..l, i - 1 \in T PROVE i \in T
  <2>1. P(i) = P(i - 1) \cup {g[i]}
    <3>1. 1..i = (1..(i - 1)) \cup {i}
      OBVIOUS
    <3> QED BY <3>1
  <2>2. g[i] \notin P(i - 1)
    <3>1. \A j \in 1..(i - 1) : g[j] < g[i] /\ g[j] \in Nat /\ g[i] \in Nat
      OBVIOUS
    <3> QED BY <3>1
  <2>3. IsFiniteSet(P(i - 1)) /\ Cardinality(P(i - 1)) = i - 1
    BY <1>2
  <2> HIDE DEF P
  <2>4. IsFiniteSet(P(i)) /\ Cardinality(P(i)) = Cardinality(P(i - 1)) + 1
    <3>1. PICK p, x : p = P(i - 1) /\ x = g[i]
      OBVIOUS
    <3>2. IsFiniteSet(p) /\ x \notin p /\ P(i) = p \cup {x}
      BY <2>1, <2>2, <2>3, <3>1
    <3>3. IsFiniteSet(p \cup {x}) /\ Cardinality(p \cup {x}) = Cardinality(p) + 1
      BY <3>2, FS_AddElement
    <3> QED BY <3>1, <3>2, <3>3
  <2>5. Cardinality(P(i)) = i /\ i \in 0..l
    BY <2>3, <2>4
  <2> QED BY <2>4, <2>5
<1> HIDE DEF T
<1>3. \A i \in 0..l : i \in T
  BY <1>1, <1>2, UpTo
<1> QED BY <1>3 DEF T

-----------------------------------------------------------------------------
(* A signal is on a bar of its session before the cutoff, after a break of *)
(* the opening range in its direction.                                     *)
EarlierBars(bs, s) ==
  {k \in 1..Len(bs) : bs[k].day = s.bar.day /\ IsRegular(bs[k]) /\ Before(bs[k], s.bar)}
FirstFew(E) == {k \in E : Cardinality({j \in E : j <= k}) <= RangeBars}
Broke(bs, k, R, s) ==
  \A i \in R : IF s.direction = "LONG" THEN bs[k].close > bs[i].high ELSE bs[k].close < bs[i].low

LEMMA SignalIsSound ==
  ASSUME NEW bs \in Seq(Candles), InTime(bs), Len(bs) > 0, NEW previous, NEW sector, NEW s,
         s = Evaluated(bs, previous, sector), s.status = "TRIGGERED"
  PROVE  LET sign == IF s.direction = "LONG" THEN 1 ELSE -1
             E == EarlierBars(bs, s)
         IN /\ s.bar \in {bs[k] : k \in 1..Len(bs)} /\ s.bar.day = bs[Len(bs)].day
            /\ IsRegular(s.bar) /\ s.bar.minute < Cutoff /\ s.direction \in {"LONG", "SHORT"}
            /\ \E k \in E : k \notin FirstFew(E) /\ Broke(bs, k, FirstFew(E), s)
            /\ sign * (BufferDen * s.bar.close - s.stop) > 0
            /\ sign * (s.target - BufferDen * s.bar.close) > 0
<1> DEFINE d == bs[Len(bs)].day
           K == Session(bs, d)
<1>1. PICK a : a = Today(bs)
  OBVIOUS
<1>2. a \in Seq(Candles) /\ Len(a) \in Nat
  <2>1. a \in Seq(Candles)
    BY <1>1, TodayIs
  <2> QED BY <2>1
<1>3. PICK g : Located(g, a, bs, K, Len(bs))
  BY <1>1, TodayIs
<1> HIDE DEF K
<1>4. PICK w, first, c : /\ w = Toward(a, sector) /\ first = Min(Broken(a, sector))
                         /\ c = Min(Confirmed(bs, a, sector))
  OBVIOUS
<1>5. /\ Len(a) >= RangeBars /\ Broken(a, sector) # {} /\ Confirmed(bs, a, sector) # {}
      /\ s = Signal(a, c, w)
  BY <1>1, <1>4, AnswerIs
<1>6. /\ first \in Nat /\ first \in (RangeBars + 1)..Len(a) /\ w \in {"LONG", "SHORT"}
      /\ BreaksRange(a, first, w)
  BY <1>2, <1>4, <1>5, FirstBreak
<1>7. /\ c \in UntilCutoff(a) /\ c > first /\ Retests(a, c, w)
  <2>1. Confirmed(bs, a, sector) \in SUBSET Nat
    BY <1>2, BarsAndPrices DEF Confirmed, UntilCutoff
  <2>2. c \in Confirmed(bs, a, sector)
    BY <1>4, <1>5, <2>1, MinIs
  <2> QED BY <1>4, <2>2 DEF Confirmed
<1>8. c \in 1..Len(a) /\ first \in 1..Len(a) /\ a[c].minute < Cutoff /\ c \in Nat /\ RangeBars \in Nat
      /\ RangeBars < first
  BY <1>2, <1>6, <1>7, BarsAndPrices DEF UntilCutoff
<1>9. LET sign == IF w = "LONG" THEN 1 ELSE -1
      IN /\ s.bar = a[c] /\ s.direction = w
         /\ sign * (BufferDen * s.bar.close - s.stop) > 0
         /\ sign * (s.target - BufferDen * s.bar.close) > 0
  BY <1>2, <1>5, <1>6, <1>7, <1>8, RetestIs
<1>10. /\ g \in [1..Len(a) -> 1..Len(bs)]
       /\ \A i \in 1..Len(a) : g[i] \in 1..Len(bs) /\ g[i] \in Nat /\ g[i] \in K /\ a[i] = bs[g[i]]
       /\ \A i, j \in 1..Len(a) : i < j => g[i] < g[j]
       /\ \A k \in 1..Len(bs) : k \in K => \E i \in 1..Len(a) : g[i] = k
  BY <1>3 DEF Located
<1>11. \A k \in 1..Len(bs) : k \in K <=> bs[k].day = d /\ IsRegular(bs[k])
  <2>1. DOMAIN bs = 1..Len(bs)
    OBVIOUS
  <2> QED BY <2>1 DEF K, Session
<1>12. s.bar = bs[g[c]] /\ g[c] \in 1..Len(bs) /\ s.bar.day = d /\ IsRegular(s.bar)
  BY <1>8, <1>9, <1>10, <1>11
<1> HIDE DEF d
<1> DEFINE E == EarlierBars(bs, s)
<1>13. E = {g[i] : i \in 1..(c - 1)}
  <2>1. ASSUME NEW i \in 1..(c - 1) PROVE g[i] \in E
    <3>1. i \in 1..Len(a) /\ i < c
      BY <1>2, <1>8
    <3>2. g[i] \in 1..Len(bs) /\ g[i] < g[c] /\ bs[g[i]].day = d /\ IsRegular(bs[g[i]])
      BY <1>8, <1>10, <1>11, <3>1
    <3>3. Before(bs[g[i]], bs[g[c]])
      BY <1>12, <3>2 DEF InTime
    <3> QED BY <1>12, <3>2, <3>3 DEF EarlierBars
  <2>2. ASSUME NEW k \in E PROVE \E i \in 1..(c - 1) : k = g[i]
    <3>1. k \in 1..Len(bs) /\ bs[k].day = d /\ IsRegular(bs[k]) /\ Before(bs[k], bs[g[c]])
      BY <1>12 DEF EarlierBars
    <3>2. PICK i \in 1..Len(a) : g[i] = k
      BY <1>10, <1>11, <3>1
    <3>3. bs[k] \in Candles /\ bs[g[c]] \in Candles
      BY <1>12, <3>1
    <3>4. k # g[c]
      BY <3>1, <3>3, BarsAndPrices DEF Before
    <3>5. ~(c < i)
      <4> SUFFICES ASSUME c < i PROVE FALSE
        OBVIOUS
      <4>1. g[c] < k
        BY <1>8, <1>10, <3>2
      <4>2. Before(bs[g[c]], bs[k])
        BY <1>12, <3>1, <4>1 DEF InTime
      <4> QED BY <3>1, <3>3, <4>2, BarsAndPrices DEF Before
    <3>6. i # c
      BY <3>2, <3>4
    <3>7. i \in 1..(c - 1)
      BY <1>2, <1>8, <3>5, <3>6
    <3> QED BY <3>2, <3>7
  <2> QED BY <2>1, <2>2
<1> HIDE DEF E
<1>14. ASSUME NEW i \in 1..(c - 1) PROVE Cardinality({j \in E : j <= g[i]}) = i
  <2>1. {j \in E : j <= g[i]} = {g[j] : j \in 1..i}
    <3>1. ASSUME NEW j \in 1..(c - 1) PROVE g[j] <= g[i] <=> j <= i
      <4>1. /\ i \in 1..Len(a) /\ j \in 1..Len(a) /\ g[i] \in Nat /\ g[j] \in Nat
            /\ i \in Nat /\ j \in Nat
        BY <1>2, <1>8, <1>10
      <4>2. (i < j => g[i] < g[j]) /\ (j < i => g[j] < g[i])
        BY <1>10, <4>1
      <4>3. i = j => g[i] = g[j]
        OBVIOUS
      <4> QED BY <4>1, <4>2, <4>3
    <3>2. \A j \in 1..i : j \in 1..(c - 1) /\ j <= i
      BY <1>8
    <3>3. \A j \in 1..(c - 1) : j <= i => j \in 1..i
      BY <1>8
    <3> QED BY <1>13, <3>1, <3>2, <3>3
  <2>2. Len(bs) \in Nat /\ i \in 0..Len(a)
    BY <1>2, <1>8
  <2>3. Cardinality({g[j] : j \in 1..i}) = i
    <3>1. PICK l, m : l = Len(a) /\ m = Len(bs)
      OBVIOUS
    <3>2. l \in Nat /\ m \in Nat /\ i \in 0..l
      BY <1>2, <2>2, <3>1
    <3>3. g \in [1..l -> 1..m]
      BY <1>10, <3>1
    <3>4. \A p, q \in 1..l : p < q => g[p] < g[q]
      BY <1>10, <3>1
    <3>5. \A p \in 0..l : IsFiniteSet({g[q] : q \in 1..p}) /\ Cardinality({g[q] : q \in 1..p}) = p
      BY <3>2, <3>3, <3>4, CountsPlaces
    <3> QED BY <3>2, <3>5
  <2> QED BY <2>1, <2>3
<1>15. \A k \in FirstFew(E) : \E i \in 1..RangeBars : k = g[i]
  <2> TAKE k \in FirstFew(E)
  <2>1. k \in E /\ Cardinality({j \in E : j <= k}) <= RangeBars
    BY DEF FirstFew
  <2>2. PICK i \in 1..(c - 1) : k = g[i]
    BY <1>13, <2>1
  <2>3. i <= RangeBars
    BY <1>14, <2>1, <2>2
  <2> QED BY <1>8, <2>2, <2>3
<1>16. first \in 1..(c - 1) /\ g[first] \in E /\ g[first] \notin FirstFew(E)
  <2>1. first \in 1..(c - 1)
    BY <1>2, <1>7, <1>8
  <2>2. ~(Cardinality({j \in E : j <= g[first]}) <= RangeBars)
    BY <1>8, <1>14, <2>1
  <2> QED BY <1>13, <2>1, <2>2 DEF FirstFew
<1>17. Broke(bs, g[first], FirstFew(E), s)
  <2> SUFFICES ASSUME NEW k \in FirstFew(E)
               PROVE  IF w = "LONG" THEN bs[g[first]].close > bs[k].high
                      ELSE bs[g[first]].close < bs[k].low
    BY <1>9 DEF Broke
  <2>1. PICK i \in 1..RangeBars : k = g[i]
    BY <1>15
  <2>2. i \in 1..Len(a) /\ bs[k] = a[i] /\ bs[g[first]] = a[first]
    BY <1>2, <1>5, <1>8, <1>10, <2>1
  <2>3. /\ a[i].high <= Max(HighsOf(SubSeq(a, 1, RangeBars)))
        /\ Min(LowsOf(SubSeq(a, 1, RangeBars))) <= a[i].low
        /\ Max(HighsOf(SubSeq(a, 1, RangeBars))) \in Nat /\ Min(LowsOf(SubSeq(a, 1, RangeBars))) \in Nat
    BY <1>2, <1>5, LevelIs
  <2>4. a[i] \in Candles /\ a[first] \in Candles
    BY <1>2, <1>8, <2>2
  <2>5. /\ a[i].high \in Nat /\ a[i].low \in Nat /\ a[first].close \in Nat
    BY <2>4, BarsAndPrices
  <2>6. CASE w = "LONG"
    <3>1. a[first].close > Max(HighsOf(SubSeq(a, 1, RangeBars)))
      BY <1>6, <2>6 DEF BreaksRange
    <3> QED BY <2>2, <2>3, <2>5, <2>6, <3>1
  <2>7. CASE w = "SHORT"
    <3>1. a[first].close < Min(LowsOf(SubSeq(a, 1, RangeBars)))
      BY <1>6, <2>7 DEF BreaksRange
    <3> QED BY <2>2, <2>3, <2>5, <2>7, <3>1
  <2> QED BY <1>6, <2>6, <2>7
<1>18. s.bar \in {bs[k] : k \in 1..Len(bs)} /\ s.bar.minute < Cutoff /\ s.direction \in {"LONG", "SHORT"}
  BY <1>6, <1>8, <1>9, <1>12
<1> QED BY <1>9, <1>12, <1>16, <1>17, <1>18 DEF E, d

-----------------------------------------------------------------------------
(* Every decision is the answer after its bar, and none is taken twice.    *)
AnswerAt(n) == Evaluated(SubSeq(rows, 1, n), PreviousClose[UtcDate(rows[n])], Sector[UtcDate(rows[n])])
OrbInv ==
  /\ rows \in Seq(Candles) /\ InTime(rows)
  /\ DOMAIN decided \subseteq 1..Len(rows)
  /\ \A n \in DOMAIN decided : decided[n] = AnswerAt(n) /\ decided[n].status = "TRIGGERED"
  /\ \A n, o \in DOMAIN decided : decided[n].bar = decided[o].bar => n = o

LEMMA OrbStarts == ASSUME OrbInit PROVE OrbInv
<1>1. rows = <<>> /\ decided = <<>> /\ DOMAIN <<>> = {}
  BY DEF OrbInit
<1> QED BY <1>1 DEF OrbInv, InTime

LEMMA OrbStep == ASSUME OrbInv, OrbNext PROVE OrbInv'
<1>0. PICK d \in Days : \E minute \in DOMAIN Shapes[d] : \E x \in Shapes[d][minute] :
        LET b == [x EXCEPT !.day = d, !.minute = minute]
        IN (\A k \in DOMAIN rows : Before(rows[k], b)) /\ Replay(b)
  BY Zenon DEF OrbNext
<1>1. PICK minute \in DOMAIN Shapes[d] : \E x \in Shapes[d][minute] :
        LET b == [x EXCEPT !.day = d, !.minute = minute]
        IN (\A k \in DOMAIN rows : Before(rows[k], b)) /\ Replay(b)
  BY <1>0
<1>2. PICK b : b \in Candles /\ (\A k \in DOMAIN rows : Before(rows[k], b)) /\ Replay(b)
  <2>1. PICK x \in Shapes[d][minute] :
          LET b == [x EXCEPT !.day = d, !.minute = minute]
          IN (\A k \in DOMAIN rows : Before(rows[k], b)) /\ Replay(b)
    BY <1>1
  <2>2. x \in Candles /\ d \in Nat /\ minute \in Nat
    BY OrbAssumption DEF Candles
  <2>3. [x EXCEPT !.day = d, !.minute = minute] \in Candles
    BY <2>2 DEF Candles
  <2> QED BY <2>1, <2>3
<1>3. PICK r, l, answer :
        /\ r = Append(rows, b) /\ l = Len(r)
        /\ answer = Evaluated(r, PreviousClose[UtcDate(b)], Sector[UtcDate(b)])
  OBVIOUS
<1>4. /\ rows' = r
      /\ IF answer.status = "TRIGGERED" /\ \A n \in DOMAIN decided : decided[n].bar # answer.bar
         THEN decided' = [n \in DOMAIN decided \cup {l} |-> IF n \in DOMAIN decided THEN decided[n] ELSE answer]
         ELSE UNCHANGED decided
  BY <1>2, <1>3, Zenon DEF Replay
<1>5. /\ rows \in Seq(Candles) /\ Len(rows) \in Nat /\ DOMAIN rows = 1..Len(rows)
      /\ r \in Seq(Candles) /\ l = Len(rows) + 1 /\ Len(r) = l /\ r[l] = b
      /\ \A k \in 1..Len(rows) : r[k] = rows[k]
  <2>1. rows \in Seq(Candles)
    BY DEF OrbInv
  <2> QED BY <1>2, <1>3, <2>1
<1>6. InTime(r)
  <2> SUFFICES ASSUME NEW i \in 1..l, NEW j \in 1..l, i < j PROVE Before(r[i], r[j])
    BY <1>5 DEF InTime
  <2>1. i \in 1..Len(rows) /\ r[i] = rows[i]
    BY <1>5
  <2>2. CASE j \in 1..Len(rows)
    BY <1>5, <2>1, <2>2 DEF OrbInv, InTime
  <2>3. CASE j = l
    BY <1>2, <1>5, <2>1, <2>3
  <2> QED BY <1>5, <2>2, <2>3
<1>7. SubSeq(r, 1, l) = r
  BY <1>5
<1>8. \A n \in 1..Len(rows) : SubSeq(r, 1, n) = SubSeq(rows, 1, n)
  <2> TAKE n \in 1..Len(rows)
  <2>1. /\ SubSeq(r, 1, n) = [i \in 1..n |-> r[i]]
        /\ SubSeq(rows, 1, n) = [i \in 1..n |-> rows[i]]
    BY <1>5
  <2>2. \A i \in 1..n : r[i] = rows[i]
    BY <1>5
  <2> QED BY <2>1, <2>2
<1>9. /\ \A n \in 1..Len(rows) : AnswerAt(n)' = AnswerAt(n)
      /\ AnswerAt(l)' = answer
  <2>1. \A n \in 1..Len(rows) : AnswerAt(n)' = AnswerAt(n)
    BY <1>4, <1>5, <1>8, Zenon DEF AnswerAt, UtcDate
  <2>2. AnswerAt(l)' = answer
    BY <1>3, <1>4, <1>5, <1>7, Zenon DEF AnswerAt, UtcDate
  <2> QED BY <2>1, <2>2
<1> DEFINE D == DOMAIN decided
<1>10. /\ D \subseteq 1..Len(rows) /\ l \notin D
       /\ \A n \in D : decided[n] = AnswerAt(n) /\ decided[n].status = "TRIGGERED"
       /\ \A n, o \in D : decided[n].bar = decided[o].bar => n = o
  <2>1. /\ D \subseteq 1..Len(rows)
        /\ \A n \in D : decided[n] = AnswerAt(n) /\ decided[n].status = "TRIGGERED"
        /\ \A n, o \in D : decided[n].bar = decided[o].bar => n = o
    BY DEF OrbInv
  <2>2. l \notin 1..Len(rows)
    BY <1>5
  <2> QED BY <2>1, <2>2
<1>11. 1..l = (1..Len(rows)) \cup {l}
  BY <1>5
<1>12. CASE answer.status = "TRIGGERED" /\ \A n \in D : decided[n].bar # answer.bar
  <2>1. /\ DOMAIN decided' = D \cup {l} /\ decided'[l] = answer
        /\ \A n \in D : decided'[n] = decided[n]
    BY <1>4, <1>10, <1>12
  <2>2. DOMAIN decided' \subseteq 1..l
    BY <1>10, <1>11, <2>1
  <2>3. \A n \in DOMAIN decided' : decided'[n] = AnswerAt(n)' /\ decided'[n].status = "TRIGGERED"
    <3>1. \A n \in D : decided'[n] = AnswerAt(n)' /\ decided'[n].status = "TRIGGERED"
      BY <1>9, <1>10, <2>1, Zenon
    <3> QED BY <1>9, <1>12, <2>1, <3>1, Zenon
  <2>4. \A n, o \in DOMAIN decided' : decided'[n].bar = decided'[o].bar => n = o
    <3>1. \A n, o \in D : decided'[n].bar = decided'[o].bar => n = o
      BY <1>10, <2>1, Zenon
    <3>2. \A n \in D : decided'[n].bar # decided'[l].bar
      BY <1>12, <2>1, Zenon
    <3> QED BY <2>1, <3>1, <3>2, Zenon
  <2> HIDE DEF D
  <2> QED BY <1>4, <1>5, <1>6, <2>2, <2>3, <2>4 DEF OrbInv
<1>13. CASE ~(answer.status = "TRIGGERED" /\ \A n \in D : decided[n].bar # answer.bar)
  <2>1. decided' = decided
    BY <1>4, <1>13
  <2>2. D \subseteq 1..l
    BY <1>10, <1>11
  <2>3. \A n \in D : decided'[n] = AnswerAt(n)' /\ decided'[n].status = "TRIGGERED"
    BY <1>9, <1>10, <2>1, Zenon
  <2> QED BY <1>4, <1>5, <1>6, <1>10, <2>1, <2>2, <2>3 DEF OrbInv
<1> QED BY <1>12, <1>13

LEMMA SignalsHold == ASSUME OrbInv PROVE OneSignalPerSector
<1>1. /\ rows \in Seq(Candles) /\ InTime(rows) /\ DOMAIN decided \subseteq 1..Len(rows)
      /\ \A n \in DOMAIN decided : decided[n] = AnswerAt(n) /\ decided[n].status = "TRIGGERED"
      /\ \A n, o \in DOMAIN decided : decided[n].bar = decided[o].bar => n = o
  BY DEF OrbInv
<1> SUFFICES ASSUME NEW n \in DOMAIN decided
             PROVE  LET s == decided[n]
                        earlier == {k \in 1..n : rows[k].day = s.bar.day /\ IsRegular(rows[k]) /\ Before(rows[k], s.bar)}
                        range == {k \in earlier : Cardinality({j \in earlier : j <= k}) <= RangeBars}
                        sign == IF s.direction = "LONG" THEN 1 ELSE -1
                    IN /\ \A o \in DOMAIN decided :
                            decided[o].bar.day = s.bar.day =>
                              o = n \/ Sector[UtcDate(rows[o])] # Sector[UtcDate(rows[n])]
                       /\ s.bar \in {rows[k] : k \in 1..n} /\ IsRegular(s.bar) /\ s.bar.minute < Cutoff
                       /\ \E k \in earlier : k \notin range /\ \A i \in range :
                            IF sign = 1 THEN rows[k].close > rows[i].high ELSE rows[k].close < rows[i].low
                       /\ sign * (BufferDen * s.bar.close - s.stop) > 0
                       /\ sign * (s.target - BufferDen * s.bar.close) > 0
  BY Zenon DEF OneSignalPerSector
<1> DEFINE s == decided[n]
           sign == IF s.direction = "LONG" THEN 1 ELSE -1
<1>2. ASSUME NEW m \in DOMAIN decided
      PROVE  /\ m \in 1..Len(rows) /\ decided[m].bar.day = rows[m].day
  <2>1. m \in 1..Len(rows) /\ m \in 1..m /\ m > 0
    BY <1>1
  <2>2. PICK bs : bs = SubSeq(rows, 1, m)
    OBVIOUS
  <2>3. bs \in Seq(Candles) /\ Len(bs) = m /\ InTime(bs) /\ \A k \in 1..m : bs[k] = rows[k]
    BY <1>1, <2>1, <2>2, FirstOf
  <2>4. Len(bs) > 0 /\ bs[Len(bs)] = rows[m]
    BY <2>1, <2>3
  <2>5. decided[m] = Evaluated(bs, PreviousClose[UtcDate(rows[m])], Sector[UtcDate(rows[m])])
    BY <1>1, <2>2 DEF AnswerAt
  <2>6. decided[m].bar.day = bs[Len(bs)].day
    BY <1>1, <2>3, <2>4, <2>5, SignalIsSound
  <2> QED BY <2>1, <2>4, <2>6
<1>3. ASSUME NEW o \in DOMAIN decided, decided[o].bar.day = s.bar.day,
             Sector[UtcDate(rows[o])] = Sector[UtcDate(rows[n])]
      PROVE  o = n
  <2>1. o \in 1..Len(rows) /\ n \in 1..Len(rows) /\ rows[o].day = rows[n].day
    BY <1>2, <1>3
  <2>2. /\ decided[o] = AnswerAt(o) /\ decided[o].status = "TRIGGERED"
        /\ decided[n] = AnswerAt(n) /\ decided[n].status = "TRIGGERED"
    BY <1>1
  <2>3. o <= n \/ n <= o
    BY <2>1
  <2>4. decided[o].bar = decided[n].bar
    <3> DEFINE p == PreviousClose[UtcDate(rows[o])]
               q == PreviousClose[UtcDate(rows[n])]
               sector == Sector[UtcDate(rows[n])]
    <3>1. /\ decided[o] = Evaluated(SubSeq(rows, 1, o), p, sector)
          /\ decided[n] = Evaluated(SubSeq(rows, 1, n), q, sector)
      BY <1>3, <2>2 DEF AnswerAt
    <3> HIDE DEF p, q, sector
    <3>2. CASE o <= n
      BY <1>1, <2>1, <2>2, <3>1, <3>2, SameAnswer
    <3>3. CASE n <= o
      BY <1>1, <2>1, <2>2, <3>1, <3>3, SameAnswer
    <3> QED BY <2>3, <3>2, <3>3
  <2> QED BY <1>1, <2>4
<1>4. PICK bs : bs = SubSeq(rows, 1, n)
  OBVIOUS
<1>5. /\ n \in 1..Len(rows) /\ bs \in Seq(Candles) /\ Len(bs) = n /\ InTime(bs) /\ Len(bs) > 0
      /\ \A k \in 1..n : bs[k] = rows[k]
  <2>1. n \in 1..Len(rows) /\ n > 0
    BY <1>1
  <2> QED BY <1>1, <1>4, <2>1, FirstOf
<1>6. s = Evaluated(bs, PreviousClose[UtcDate(rows[n])], Sector[UtcDate(rows[n])]) /\ s.status = "TRIGGERED"
  BY <1>1, <1>4 DEF AnswerAt
<1> DEFINE E == EarlierBars(bs, s)
           earlier == {k \in 1..n : rows[k].day = s.bar.day /\ IsRegular(rows[k]) /\ Before(rows[k], s.bar)}
           range == {k \in earlier : Cardinality({j \in earlier : j <= k}) <= RangeBars}
<1>7. /\ s.bar \in {bs[k] : k \in 1..Len(bs)}
      /\ IsRegular(s.bar) /\ s.bar.minute < Cutoff /\ s.direction \in {"LONG", "SHORT"}
      /\ \E k \in E : k \notin FirstFew(E) /\ Broke(bs, k, FirstFew(E), s)
      /\ sign * (BufferDen * s.bar.close - s.stop) > 0
      /\ sign * (s.target - BufferDen * s.bar.close) > 0
  <2> HIDE DEF s
  <2> QED BY <1>5, <1>6, SignalIsSound
<1>8. earlier = E
  <2> HIDE DEF s
  <2> QED BY <1>5 DEF EarlierBars
<1>9. range = FirstFew(E)
  BY <1>8, Zenon DEF FirstFew
<1>10. s.bar \in {rows[k] : k \in 1..n}
  <2> HIDE DEF s
  <2> QED BY <1>5, <1>7
<1>11. \E k \in earlier : k \notin range /\ \A i \in range :
         IF sign = 1 THEN rows[k].close > rows[i].high ELSE rows[k].close < rows[i].low
  <2>1. PICK k \in E : k \notin FirstFew(E) /\ Broke(bs, k, FirstFew(E), s)
    BY <1>7
  <2>2. sign = 1 <=> s.direction = "LONG"
    OBVIOUS
  <2>3. \A i \in FirstFew(E) : i \in 1..n
    BY <1>5 DEF FirstFew, EarlierBars
  <2>4. k \in 1..n
    BY <1>5 DEF EarlierBars
  <2>5. ASSUME NEW i \in FirstFew(E)
        PROVE  IF sign = 1 THEN rows[k].close > rows[i].high ELSE rows[k].close < rows[i].low
    <3>1. bs[k] = rows[k] /\ bs[i] = rows[i]
      BY <1>5, <2>3, <2>4
    <3>2. IF s.direction = "LONG" THEN bs[k].close > bs[i].high ELSE bs[k].close < bs[i].low
      BY <2>1, Zenon DEF Broke
    <3> HIDE DEF sign, s
    <3> QED BY <2>2, <3>1, <3>2
  <2> HIDE DEF sign, s, E, earlier, range
  <2> QED BY <1>8, <1>9, <2>1, <2>5
<1> HIDE DEF E, sign
<1> QED BY <1>3, <1>7, <1>10, <1>11 DEF sign

(* build_orb_intents asks evaluate_orb_retest again after every bar: all    *)
(* the answers of one session for one sector are on one bar, so it gives   *)
(* one decision, and that is a retest in the session after a break of the  *)
(* opening range, with stop and target on their sides.                     *)
THEOREM SignalsAreSound == OrbSpec => []OneSignalPerSector
<1>1. OrbInv /\ [OrbNext]_orb => OrbInv'
  <2> SUFFICES ASSUME OrbInv, [OrbNext]_orb PROVE OrbInv'
    OBVIOUS
  <2>1. CASE OrbNext
    BY <2>1, OrbStep
  <2>2. CASE UNCHANGED orb
    <3>1. rows' = rows /\ decided' = decided
      BY <2>2 DEF orb
    <3> QED BY <3>1 DEF OrbInv, AnswerAt, InTime
  <2> QED BY <2>1, <2>2
<1>2. OrbSpec => []OrbInv
  BY <1>1, OrbStarts, PTL DEF OrbSpec
<1>3. OrbInv => OneSignalPerSector
  BY SignalsHold
<1> QED BY <1>2, <1>3, PTL

-----------------------------------------------------------------------------
(* The history of bars.  Lists joined to one, step by step.                *)
Joins(f, lists, S) ==
  /\ f[0] = <<>>
  /\ \A k \in 0..Len(lists) : f[k] \in Seq(S)
  /\ \A k \in 1..Len(lists) : f[k] = f[k - 1] \o lists[k]

LEMMA JoinedAre ==
  ASSUME NEW S, NEW lists \in Seq(Seq(S))
  PROVE  \E f : Joins(f, lists, S) /\ Joined(lists) = f[Len(lists)]
<1> DEFINE m == Len(lists)
           Q == Seq(S)
           more(k, r) == IF k = 0 THEN <<>> ELSE r \o lists[k]
           stride == [k \in 1..m |-> [r \in Q |-> more(k, r)]]
<1>1. m \in Nat /\ \A k \in 1..m : lists[k] \in Q
  OBVIOUS
<1> HIDE DEF m
<1>2. \A k \in 1..m : \A r \in Q : more(k, r) \in Q
  <2> TAKE k \in 1..m
  <2>1. lists[k] \in Q
    BY <1>1
  <2>2. \A r \in Q : <<>> \in Q /\ r \o lists[k] \in Q
    BY <2>1
  <2> HIDE DEF Q
  <2> QED BY <2>2, Zenon
<1>3. /\ stride \in [1..m -> [Q -> Q]]
      /\ \A k \in 1..m : \A r \in Q : stride[k][r] = more(k, r)
  BY <1>2
<1>4. <<>> \in Q
  OBVIOUS
<1> HIDE DEF stride, Q
<1>5. PICK f : Follows(f, m, Q, <<>>, stride)
  BY <1>1, <1>3, <1>4, RecursionExists
<1>6. ASSUME NEW k \in 1..m PROVE f[k] = more(k, f[k - 1])
  <2>1. f[k - 1] \in Q
    BY <1>1, <1>5 DEF Follows
  <2> QED BY <1>3, <1>5, <2>1 DEF Follows
<1>7. \A k \in 0..m : f[k] = more(k, f[k - 1])
  <2> TAKE k \in 0..m
  <2>1. CASE k = 0
    BY <1>5, <2>1 DEF Follows
  <2>2. CASE k # 0
    <3>1. k \in 1..m
      BY <1>1, <2>2
    <3> QED BY <1>6, <3>1
  <2> QED BY <2>1, <2>2
<1>8. f = [k \in 0..m |-> IF k = 0 THEN <<>> ELSE f[k - 1] \o lists[k]]
  BY <1>5, <1>7, Zenon DEF Follows
<1> DEFINE upTo == CHOOSE h : h = [k \in 0..m |-> IF k = 0 THEN <<>> ELSE h[k - 1] \o lists[k]]
<1>9. upTo = [k \in 0..m |-> IF k = 0 THEN <<>> ELSE upTo[k - 1] \o lists[k]]
  BY <1>8, Zenon
<1>10. Joined(lists) = upTo[Len(lists)]
  BY Zenon DEF Joined, m
<1> HIDE DEF upTo
<1>11. \A k \in 0..m : upTo[k] = more(k, upTo[k - 1])
  BY <1>9, Zenon
<1>12. upTo[0] = <<>> /\ \A k \in 1..m : upTo[k] = upTo[k - 1] \o lists[k]
  <2>1. \A r : more(0, r) = <<>>
    OBVIOUS
  <2>2. \A k \in 1..m : k # 0 /\ k \in 0..m
    BY <1>1
  <2>3. 0 \in 0..m
    BY <1>1
  <2>4. upTo[0] = more(0, upTo[0 - 1])
    BY <1>11, <2>3
  <2>5. ASSUME NEW k \in 1..m PROVE upTo[k] = upTo[k - 1] \o lists[k]
    BY <1>11, <2>2, Zenon
  <2> HIDE DEF more
  <2> QED BY <2>1, <2>4, <2>5
<1> DEFINE T == {k \in 0..m : upTo[k] \in Q}
<1>13. 0 \in T
  BY <1>1, <1>4, <1>12
<1>14. ASSUME NEW k \in 1..m, k - 1 \in T PROVE k \in T
  <2>1. upTo[k - 1] \in Q /\ lists[k] \in Q
    BY <1>1, <1>14
  <2>2. upTo[k - 1] \o lists[k] \in Q
    BY <2>1 DEF Q
  <2>3. k \in 0..m
    BY <1>1
  <2>4. upTo[k] = upTo[k - 1] \o lists[k]
    BY <1>12
  <2>5. upTo[k] \in Q
    BY <2>2, <2>4, Zenon
  <2> QED BY <2>3, <2>5
<1> HIDE DEF T
<1>15. \A k \in 0..m : k \in T
  BY <1>1, <1>13, <1>14, UpTo
<1>16. Joins(upTo, lists, S)
  BY <1>12, <1>15 DEF Joins, T, Q, m
<1> QED BY <1>10, <1>16

(* What is in a joined list, and where.                                    *)
LEMMA Concatenated ==
  ASSUME NEW S, NEW a \in Seq(S), NEW b \in Seq(S)
  PROVE  /\ a \o b \in Seq(S) /\ Len(a \o b) = Len(a) + Len(b) /\ Len(a) \in Nat /\ Len(b) \in Nat
         /\ \A i \in 1..Len(a) : (a \o b)[i] = a[i]
         /\ \A i \in 1..Len(b) : (a \o b)[Len(a) + i] = b[i]
         /\ \A i \in 1..Len(a \o b) : i \in 1..Len(a) \/ (i - Len(a) \in 1..Len(b) /\ (a \o b)[i] = b[i - Len(a)])
<1> QED OBVIOUS

LEMMA TimesIsNat ==
  ASSUME NEW bs \in Seq(Int), NEW s
  PROVE  /\ Times(bs, s) \in Nat /\ IsFiniteSet({k \in 1..Len(bs) : bs[k] = s})
         /\ Times(bs, s) = Cardinality({k \in 1..Len(bs) : bs[k] = s})
         /\ Times(bs, s) = 0 <=> \A k \in 1..Len(bs) : bs[k] # s
<1> DEFINE K == {k \in 1..Len(bs) : bs[k] = s}
<1>1. DOMAIN bs = 1..Len(bs) /\ Len(bs) \in Nat
  OBVIOUS
<1>2. IsFiniteSet(1..Len(bs))
  BY <1>1, FS_Interval
<1>3. IsFiniteSet(K)
  BY <1>2, FS_Subset
<1>4. Times(bs, s) = Cardinality(K)
  BY <1>1 DEF Times
<1>5. Cardinality(K) \in Nat /\ (Cardinality(K) = 0 <=> K = {})
  BY <1>3, FS_CardinalityType, FS_EmptySet
<1>6. K = {} <=> \A k \in 1..Len(bs) : bs[k] # s
  OBVIOUS
<1> QED BY <1>3, <1>4, <1>5, <1>6

LEMMA TimesAdd ==
  ASSUME NEW a \in Seq(Int), NEW b \in Seq(Int), NEW s
  PROVE  Times(a \o b, s) = Times(a, s) + Times(b, s)
<1> DEFINE c == a \o b
           m == Len(a)
           n == Len(b)
           A == {k \in 1..m : a[k] = s}
           B == {k \in 1..n : b[k] = s}
           C == {k \in 1..Len(c) : c[k] = s}
           D == {k \in (m + 1)..(m + n) : c[k] = s}
<1>1. /\ c \in Seq(Int) /\ m \in Nat /\ n \in Nat /\ Len(c) = m + n
      /\ \A i \in 1..m : c[i] = a[i]
      /\ \A i \in 1..n : c[m + i] = b[i]
  BY Concatenated
<1> HIDE DEF c, m, n
<1>2. C = A \cup D /\ A \cap D = {}
  BY <1>1
<1>3. IsFiniteSet(A) /\ IsFiniteSet(B) /\ IsFiniteSet(C)
  BY <1>1, TimesIsNat DEF m, n
<1>4. Cardinality(D) = Cardinality(B) /\ IsFiniteSet(D)
  <2> DEFINE f == [k \in B |-> m + k]
  <2>1. f \in [B -> D]
    BY <1>1
  <2>2. \A x, y \in B : f[x] = f[y] => x = y
    BY <1>1
  <2>3. \A y \in D : \E x \in B : f[x] = y
    <3> TAKE y \in D
    <3>1. y - m \in 1..n /\ m + (y - m) = y
      BY <1>1
    <3>2. y - m \in B
      BY <1>1, <3>1
    <3> QED BY <3>1, <3>2
  <2> HIDE DEF f
  <2>4. f \in Bijection(B, D)
    BY <2>1, <2>2, <2>3 DEF Bijection, Injection, Surjection, IsInjective
  <2>5. ExistsBijection(B, D)
    BY <2>4 DEF ExistsBijection
  <2> QED BY <1>3, <2>5, FS_Bijection
<1>5. Cardinality(C) = Cardinality(A) + Cardinality(D) - Cardinality({})
  BY <1>2, <1>3, <1>4, FS_Union
<1>6. Cardinality(A) \in Nat /\ Cardinality(D) \in Nat /\ Cardinality({}) = 0
  BY <1>3, <1>4, FS_CardinalityType, FS_EmptySet
<1>7. Times(c, s) = Cardinality(C) /\ Times(a, s) = Cardinality(A) /\ Times(b, s) = Cardinality(B)
  BY <1>1, TimesIsNat DEF m, n
<1> HIDE DEF A, B, C, D
<1>8. Times(c, s) = Times(a, s) + Times(b, s)
  BY <1>4, <1>5, <1>6, <1>7
<1> QED BY <1>8 DEF c

LEMMA TimesOfNothing == ASSUME NEW s PROVE Times(<<>>, s) = 0
<1>1. <<>> \in Seq(Int) /\ 1..Len(<<>>) = {}
  OBVIOUS
<1> QED BY <1>1, TimesIsNat

(* A slot that only one of the lists has is in all as often as in that one. *)
LEMMA OnlyFrom ==
  ASSUME NEW lists \in Seq(Seq(Int)), NEW s, NEW h \in 0..Len(lists),
         \A k \in 1..Len(lists) : k # h => Times(lists[k], s) = 0
  PROVE  /\ Joined(lists) \in Seq(Int)
         /\ Times(Joined(lists), s) = IF h = 0 THEN 0 ELSE Times(lists[h], s)
<1>1. PICK f : Joins(f, lists, Int) /\ Joined(lists) = f[Len(lists)]
  BY JoinedAre
<1> DEFINE N == Len(lists)
           T == {k \in 0..N : Times(f[k], s) = IF h = 0 \/ k < h THEN 0 ELSE Times(lists[h], s)}
<1>2. N \in Nat /\ h \in 0..N /\ \A k \in 1..N : lists[k] \in Seq(Int)
  OBVIOUS
<1> HIDE DEF N
<1>3. 0 \in T
  <2>1. Times(f[0], s) = 0
    BY <1>1, TimesOfNothing DEF Joins
  <2>2. 0 \in 0..N /\ (h = 0 \/ 0 < h)
    BY <1>2
  <2> QED BY <2>1, <2>2
<1>4. ASSUME NEW k \in 1..N, k - 1 \in T PROVE k \in T
  <2>1. /\ f[k - 1] \in Seq(Int) /\ lists[k] \in Seq(Int) /\ f[k] = f[k - 1] \o lists[k]
        /\ k - 1 \in 0..N
    <3>1. k - 1 \in 0..N /\ k \in 1..N
      BY <1>2
    <3> QED BY <1>1, <1>2, <3>1 DEF Joins, N
  <2>2. Times(f[k], s) = Times(f[k - 1], s) + Times(lists[k], s)
    BY <2>1, TimesAdd
  <2>3. k # h => Times(lists[k], s) = 0
    BY DEF N
  <2>4. Times(f[k - 1], s) = IF h = 0 \/ k - 1 < h THEN 0 ELSE Times(lists[h], s)
    BY <1>4
  <2>5. Times(f[k - 1], s) \in Nat /\ Times(lists[k], s) \in Nat
    BY <2>1, TimesIsNat
  <2>6. k \in 0..N /\ k \in Nat /\ h \in Nat
    BY <1>2
  <2> QED BY <2>2, <2>3, <2>4, <2>5, <2>6
<1> HIDE DEF T
<1>5. \A k \in 0..N : k \in T
  BY <1>2, <1>3, <1>4, UpTo
<1>6. N \in T /\ f[N] \in Seq(Int)
  BY <1>1, <1>2, <1>5 DEF Joins, N
<1> QED BY <1>1, <1>2, <1>6 DEF T, N

-----------------------------------------------------------------------------
File == [days : SUBSET Int, there : BOOLEAN]

(* The months are one after the other, from the first day on.              *)
LEMMA MonthsAre ==
  /\ Len(MonthSpans) \in Nat /\ Len(MonthSpans) >= 1 /\ MonthSpans[1][1] = 1
  /\ \A m \in 1..Len(MonthSpans) :
       MonthSpans[m] \in Nat \X Nat /\ MonthSpans[m][1] \in Nat /\ MonthSpans[m][2] \in Nat
       /\ MonthSpans[m][1] <= MonthSpans[m][2] /\ MonthSpans[m] = <<MonthSpans[m][1], MonthSpans[m][2]>>
  /\ \A m \in 2..Len(MonthSpans) : MonthSpans[m][1] = MonthSpans[m - 1][2] + 1
  /\ LastOfDays = MonthSpans[Len(MonthSpans)][2] /\ LastOfDays \in Nat /\ LastOfDays >= 1
<1> USE KlineAssumption
<1>1. Len(MonthSpans) \in Nat /\ Len(MonthSpans) >= 1 /\ DOMAIN MonthSpans = 1..Len(MonthSpans)
  OBVIOUS
<1>2. ASSUME NEW m \in 1..Len(MonthSpans)
      PROVE  MonthSpans[m] \in Nat \X Nat /\ MonthSpans[m][1] \in Nat /\ MonthSpans[m][2] \in Nat
             /\ MonthSpans[m][1] <= MonthSpans[m][2] /\ MonthSpans[m] = <<MonthSpans[m][1], MonthSpans[m][2]>>
  <2>1. MonthSpans[m] \in Nat \X Nat
    OBVIOUS
  <2>2. m \in DOMAIN MonthSpans
    BY <1>1
  <2>3. MonthSpans[m][1] <= MonthSpans[m][2]
    BY <2>2
  <2>4. MonthSpans[m][1] \in Nat /\ MonthSpans[m][2] \in Nat /\ MonthSpans[m] = <<MonthSpans[m][1], MonthSpans[m][2]>>
    BY <2>1
  <2> QED BY <2>1, <2>3, <2>4
<1> DEFINE T == {m \in 0..Len(MonthSpans) : m >= 1 => MonthSpans[m][2] >= 1}
<1>3. 0 \in T
  BY <1>1
<1>4. ASSUME NEW m \in 1..Len(MonthSpans), m - 1 \in T PROVE m \in T
  <2>1. MonthSpans[m][1] >= 1
    <3>1. CASE m = 1
      BY <3>1
    <3>2. CASE m # 1
      <4>1. m \in 2..Len(MonthSpans) /\ m - 1 \in 1..Len(MonthSpans)
        BY <3>2
      <4>2. MonthSpans[m - 1][2] >= 1 /\ MonthSpans[m - 1][2] \in Nat
        BY <1>2, <1>4, <4>1
      <4>3. MonthSpans[m][1] = MonthSpans[m - 1][2] + 1
        BY <4>1
      <4> QED BY <4>2, <4>3
    <3> QED BY <3>1, <3>2
  <2> QED BY <1>2, <2>1
<1>5. \A m \in 0..Len(MonthSpans) : m \in T
  BY <1>1, <1>3, <1>4, UpTo
<1>6. MonthSpans[Len(MonthSpans)][2] >= 1
  BY <1>1, <1>5
<1> QED BY <1>1, <1>2, <1>6 DEF LastOfDays

LEMMA SlotsAre ==
  /\ SlotsPerDay \in Nat /\ SlotsPerDay >= 1 /\ SlotsPerDay * LastOfDays \in Nat
  /\ AllSlots = 1..(SlotsPerDay * LastOfDays)
<1>1. SlotsPerDay \in Nat /\ SlotsPerDay >= 1 /\ LastOfDays \in Nat
  BY KlineAssumption, MonthsAre
<1>2. SlotsPerDay * LastOfDays \in Nat
  BY <1>1
<1> QED BY <1>1, <1>2 DEF AllSlots

(* What a quotient is, and that a slot is of one of the days.              *)
LEMMA Divides ==
  ASSUME NEW x \in Nat, NEW u \in Nat \ {0}
  PROVE  /\ x \div u \in Nat /\ x % u \in 0..(u - 1) /\ u * (x \div u) \in Nat
         /\ x = u * (x \div u) + (x % u)
<1> QED OBVIOUS

LEMMA GrowsBy ==
  ASSUME NEW a \in Nat, NEW b \in Int, NEW c \in Int, b < c
  PROVE  a * b + a <= a * c /\ a * b \in Int /\ a * c \in Int
<1>1. PICK d \in Nat : c = b + 1 + d
  <2>1. c - b - 1 \in Nat /\ c = b + 1 + (c - b - 1)
    OBVIOUS
  <2> QED BY <2>1
<1>2. a * c = a * b + a + a * d
  BY <1>1
<1>3. a * d \in Nat /\ a * b \in Int
  OBVIOUS
<1> QED BY <1>2, <1>3

LEMMA SlotHasDay == ASSUME NEW s \in AllSlots PROVE DayOf(s) \in AllDays
<1>1. PICK u \in Nat \ {0}, l \in Nat, x \in Nat, q \in Nat :
        u = SlotsPerDay /\ l = LastOfDays /\ x = s - 1 /\ x < u * l /\ q = x \div u
  <2>1. s - 1 \in Nat /\ s - 1 < SlotsPerDay * LastOfDays /\ SlotsPerDay \in Nat \ {0}
    BY SlotsAre
  <2> QED BY <2>1, MonthsAre, Divides
<1>2. u * q <= x /\ u * q \in Nat
  <2>1. x = u * q + (x % u) /\ x % u \in 0..(u - 1) /\ u * q \in Nat
    BY <1>1, Divides
  <2> QED BY <2>1
<1>3. q < l
  <2> SUFFICES ASSUME q >= l PROVE FALSE
    BY <1>1
  <2>1. CASE q = l
    BY <1>1, <1>2, <2>1
  <2>2. CASE l < q
    <3>1. u * l + u <= u * q /\ u * l \in Int
      BY <2>2, GrowsBy
    <3> QED BY <1>1, <1>2, <3>1
  <2> QED BY <2>1, <2>2
<1> QED BY <1>1, <1>3 DEF DayOf, AllDays

-----------------------------------------------------------------------------
(* A list of slots in order, each as often as it is to be there.           *)
Rises(bs) == \A i, j \in 1..Len(bs) : i < j => bs[i] <= bs[j]

LEMMA RisesOn ==
  ASSUME NEW a \in Seq(Int), NEW b \in Seq(Int), NEW k \in Int, Rises(a), \A i \in 1..Len(a) : a[i] <= k,
         \A i \in 1..Len(b) : b[i] = k
  PROVE  Rises(a \o b) /\ \A i \in 1..Len(a \o b) : (a \o b)[i] <= k
<1>1. PICK c : c = a \o b
  OBVIOUS
<1>2. /\ c \in Seq(Int) /\ Len(c) = Len(a) + Len(b) /\ Len(a) \in Nat /\ Len(b) \in Nat
      /\ \A i \in 1..Len(a) : c[i] = a[i]
      /\ \A i \in 1..Len(c) : i \in 1..Len(a) \/ (i - Len(a) \in 1..Len(b) /\ c[i] = b[i - Len(a)])
  BY <1>1, Concatenated
<1>3. \A i \in 1..Len(c) : i \in 1..Len(a) \/ c[i] = k
  BY <1>2
<1>4. \A i \in 1..Len(a) : a[i] \in Int
  OBVIOUS
<1>5. \A i \in 1..Len(c) : c[i] <= k
  <2> TAKE i \in 1..Len(c)
  <2>1. CASE i \in 1..Len(a)
    BY <1>2, <2>1
  <2> QED BY <1>3, <2>1
<1>6. ASSUME NEW i \in 1..Len(c), NEW j \in 1..Len(c), i < j PROVE c[i] <= c[j]
  <2>1. CASE j \in 1..Len(a)
    <3>1. i \in 1..Len(a)
      BY <1>2, <1>6, <2>1
    <3> QED BY <1>2, <1>6, <2>1, <3>1 DEF Rises
  <2>2. CASE c[j] = k
    BY <1>5, <2>2
  <2> QED BY <1>3, <2>1, <2>2
<1> QED BY <1>1, <1>5, <1>6 DEF Rises

LEMMA ListedIs ==
  ASSUME NEW times \in [AllSlots -> Nat]
  PROVE  /\ Listed(times) \in Seq(Int) /\ Rises(Listed(times))
         /\ \A s \in AllSlots : Times(Listed(times), s) = times[s]
         /\ \A i \in 1..Len(Listed(times)) : Listed(times)[i] \in AllSlots
<1> DEFINE N == SlotsPerDay * LastOfDays
           same(s) == [n \in 1..times[s] |-> s]
           lists == [s \in AllSlots |-> same(s)]
<1>1. N \in Nat /\ AllSlots = 1..N
  BY SlotsAre
<1> HIDE DEF N
<1>2. \A s \in 1..N : times[s] \in Nat /\ s \in Int
  BY <1>1
<1>3. \A s \in 1..N : same(s) \in Seq(Int) /\ Len(same(s)) = times[s] /\ \A i \in 1..times[s] : same(s)[i] = s
  BY <1>2
<1> HIDE DEF same
<1>4. lists \in Seq(Seq(Int)) /\ Len(lists) = N /\ \A s \in 1..N : lists[s] = same(s)
  BY <1>1, <1>3
<1>5. Listed(times) = Joined(lists)
  BY Zenon DEF Listed, same
<1> HIDE DEF lists
<1>6. ASSUME NEW s \in 1..N PROVE Times(same(s), s) = times[s] /\ \A r \in 1..N : r # s => Times(same(r), s) = 0
  <2>1. Times(same(s), s) = Cardinality({k \in 1..Len(same(s)) : same(s)[k] = s})
    BY <1>3, TimesIsNat
  <2>2. {k \in 1..Len(same(s)) : same(s)[k] = s} = 1..times[s]
    BY <1>3
  <2>3. Cardinality(1..times[s]) = times[s]
    <3>1. times[s] \in Nat
      BY <1>2
    <3> QED BY <3>1, FS_Interval
  <2>4. ASSUME NEW r \in 1..N, r # s PROVE Times(same(r), s) = 0
    <3>1. same(r) \in Seq(Int) /\ \A k \in 1..Len(same(r)) : same(r)[k] # s
      BY <1>3, <2>4
    <3> QED BY <3>1, TimesIsNat
  <2> QED BY <2>1, <2>2, <2>3, <2>4
<1>7. ASSUME NEW s \in 1..N PROVE Times(Joined(lists), s) = times[s]
  <2>1. \A k \in 1..Len(lists) : k # s => Times(lists[k], s) = 0
    BY <1>4, <1>6
  <2>2. s \in 0..Len(lists) /\ s # 0
    BY <1>1, <1>4
  <2>3. Times(Joined(lists), s) = Times(lists[s], s)
    BY <1>4, <2>1, <2>2, OnlyFrom
  <2> QED BY <1>4, <1>6, <2>3
<1>8. PICK f : Joins(f, lists, Int) /\ Joined(lists) = f[N]
  BY <1>4, JoinedAre
<1> DEFINE T == {k \in 0..N : Rises(f[k]) /\ \A i \in 1..Len(f[k]) : f[k][i] \in 1..k}
<1>9. 0 \in T
  <2>1. f[0] = <<>> /\ 0 \in 0..N
    BY <1>1, <1>8 DEF Joins
  <2>2. 1..Len(<<>>) = {}
    OBVIOUS
  <2> QED BY <2>1, <2>2 DEF Rises
<1>10. ASSUME NEW k \in 1..N, k - 1 \in T PROVE k \in T
  <2>1. k - 1 \in 0..N /\ k \in 0..N
    BY <1>1
  <2>2. PICK a \in Seq(Int), b \in Seq(Int) : a = f[k - 1] /\ b = same(k) /\ f[k] = a \o b
    <3>1. f[k - 1] \in Seq(Int) /\ f[k] = f[k - 1] \o lists[k]
      BY <1>4, <1>8, <2>1 DEF Joins
    <3>2. lists[k] = same(k) /\ same(k) \in Seq(Int)
      BY <1>3, <1>4
    <3> QED BY <3>1, <3>2
  <2>3. Rises(a) /\ \A i \in 1..Len(a) : a[i] \in 1..(k - 1)
    BY <1>10, <2>2
  <2>4. \A i \in 1..Len(b) : b[i] = k
    BY <1>3, <2>2
  <2>5. \A i \in 1..Len(a) : a[i] <= k
    BY <2>3
  <2>6. Rises(a \o b)
    <3>1. k \in Int
      BY <1>1
    <3> QED BY <2>3, <2>4, <2>5, <3>1, RisesOn
  <2>7. \A i \in 1..Len(a \o b) : (i \in 1..Len(a) /\ (a \o b)[i] = a[i])
                                    \/ (i - Len(a) \in 1..Len(b) /\ (a \o b)[i] = b[i - Len(a)])
    BY Concatenated
  <2>8. \A i \in 1..Len(a \o b) : (a \o b)[i] \in 1..k
    <3> TAKE i \in 1..Len(a \o b)
    <3>1. CASE i \in 1..Len(a) /\ (a \o b)[i] = a[i]
      <4>1. a[i] \in 1..(k - 1)
        BY <2>3, <3>1
      <4> QED BY <3>1, <4>1
    <3>2. CASE i - Len(a) \in 1..Len(b) /\ (a \o b)[i] = b[i - Len(a)]
      <4>1. b[i - Len(a)] = k
        BY <2>4, <3>2
      <4> QED BY <3>2, <4>1
    <3> QED BY <2>7, <3>1, <3>2
  <2> QED BY <2>1, <2>2, <2>6, <2>8
<1> HIDE DEF T
<1>11. \A k \in 0..N : k \in T
  BY <1>1, <1>9, <1>10, UpTo
<1>12. N \in T /\ f[N] \in Seq(Int)
  BY <1>1, <1>4, <1>8, <1>11 DEF Joins
<1> QED BY <1>1, <1>5, <1>7, <1>8, <1>12 DEF T

-----------------------------------------------------------------------------
(* The files of a range: every day asked for is in one of them.            *)
OnceIn(files, d) == \E k \in 1..Len(files) : \A j \in 1..Len(files) : d \in files[j].days <=> j = k
NeverIn(files, d) == \A j \in 1..Len(files) : d \notin files[j].days

LEMMA JoinOnce ==
  ASSUME NEW a \in Seq(File), NEW b \in Seq(File), NEW d
  PROVE  /\ OnceIn(a, d) /\ NeverIn(b, d) => OnceIn(a \o b, d)
         /\ NeverIn(a, d) /\ OnceIn(b, d) => OnceIn(a \o b, d)
         /\ NeverIn(a, d) /\ NeverIn(b, d) => NeverIn(a \o b, d)
<1>1. PICK c, m, n : c = a \o b /\ m = Len(a) /\ n = Len(b)
  OBVIOUS
<1>2. /\ Len(c) = m + n /\ m \in Nat /\ n \in Nat
      /\ \A i \in 1..m : c[i] = a[i]
      /\ \A i \in 1..n : c[m + i] = b[i]
      /\ \A i \in 1..Len(c) : i \in 1..m \/ (i - m \in 1..n /\ c[i] = b[i - m])
  BY <1>1, Concatenated
<1>3. ASSUME OnceIn(a, d), NeverIn(b, d) PROVE OnceIn(c, d)
  <2>1. PICK k \in 1..m : \A j \in 1..m : d \in a[j].days <=> j = k
    BY <1>1, <1>3 DEF OnceIn
  <2>2. k \in 1..Len(c)
    BY <1>2
  <2>3. ASSUME NEW j \in 1..Len(c) PROVE d \in c[j].days <=> j = k
    <3>1. CASE j \in 1..m
      BY <1>2, <2>1, <3>1
    <3>2. CASE j \notin 1..m
      <4>1. j - m \in 1..n /\ c[j] = b[j - m] /\ j # k
        BY <1>2, <3>2
      <4> QED BY <1>1, <1>3, <4>1 DEF NeverIn
    <3> QED BY <3>1, <3>2
  <2> QED BY <2>2, <2>3 DEF OnceIn
<1>4. ASSUME NeverIn(a, d), OnceIn(b, d) PROVE OnceIn(c, d)
  <2>1. PICK k \in 1..n : \A j \in 1..n : d \in b[j].days <=> j = k
    BY <1>1, <1>4 DEF OnceIn
  <2>2. m + k \in 1..Len(c)
    BY <1>2
  <2>3. ASSUME NEW j \in 1..Len(c) PROVE d \in c[j].days <=> j = m + k
    <3>1. CASE j \in 1..m
      <4>1. c[j] = a[j] /\ d \notin a[j].days
        BY <1>1, <1>2, <1>4, <3>1 DEF NeverIn
      <4>2. j # m + k
        BY <1>2, <3>1
      <4> QED BY <4>1, <4>2
    <3>2. CASE j \notin 1..m
      <4>1. j - m \in 1..n /\ c[j] = b[j - m]
        BY <1>2, <3>2
      <4>2. d \in b[j - m].days <=> j - m = k
        BY <2>1, <4>1
      <4>3. j - m = k <=> j = m + k
        BY <1>2
      <4> QED BY <4>1, <4>2, <4>3
    <3> QED BY <3>1, <3>2
  <2> QED BY <2>2, <2>3 DEF OnceIn
<1>5. ASSUME NeverIn(a, d), NeverIn(b, d) PROVE NeverIn(c, d)
  <2>1. ASSUME NEW j \in 1..Len(c) PROVE d \notin c[j].days
    <3>1. CASE j \in 1..m
      BY <1>1, <1>2, <1>5, <3>1 DEF NeverIn
    <3>2. CASE j - m \in 1..n /\ c[j] = b[j - m]
      BY <1>1, <1>5, <3>2 DEF NeverIn
    <3> QED BY <1>2, <3>1, <3>2
  <2> QED BY <2>1 DEF NeverIn
<1> QED BY <1>1, <1>3, <1>4, <1>5

LEMMA OfTwo ==
  ASSUME NEW a \in Int, NEW b \in Int
  PROVE  /\ Max({a, b}) = IF a >= b THEN a ELSE b
         /\ Min({a, b}) = IF a <= b THEN a ELSE b
<1>1. \E n \in {a, b} : \A m \in {a, b} : n >= m
  OBVIOUS
<1>2. Max({a, b}) \in {a, b} /\ \A m \in {a, b} : Max({a, b}) >= m
  BY <1>1, Zenon DEF Max
<1>3. \E n \in {a, b} : \A m \in {a, b} : n <= m
  OBVIOUS
<1>4. Min({a, b}) \in {a, b} /\ \A m \in {a, b} : Min({a, b}) <= m
  BY <1>3, Zenon DEF Min
<1> QED BY <1>2, <1>4

LEMMA DailyFiles ==
  ASSUME NEW from \in Int, NEW to \in Int, NEW d \in Int
  PROVE  /\ Daily(from, to) \in Seq(File)
         /\ d \in from..to => OnceIn(Daily(from, to), d)
         /\ d \notin from..to => NeverIn(Daily(from, to), d)
<1>1. CASE from > to
  BY <1>1 DEF Daily, OnceIn, NeverIn
<1>2. CASE from <= to
  <2> DEFINE n == to - from + 1
             file(k) == [days |-> {from + k - 1}, there |-> from + k - 1 \in daily]
             fs == [k \in 1..n |-> file(k)]
  <2>1. Daily(from, to) = fs
    BY <1>2 DEF Daily
  <2>2. n \in Nat /\ \A k \in 1..n : file(k) \in File /\ file(k).days = {from + k - 1}
    BY <1>2 DEF File
  <2> HIDE DEF n, file
  <2>3. fs \in Seq(File) /\ Len(fs) = n /\ \A k \in 1..n : fs[k].days = {from + k - 1}
    BY <2>2
  <2> HIDE DEF fs
  <2>4. \A j \in 1..n : d \in fs[j].days <=> j = d - from + 1
    BY <2>2, <2>3
  <2>5. d - from + 1 \in 1..n <=> d \in from..to
    BY DEF n
  <2>6. d \in from..to => OnceIn(fs, d)
    BY <2>3, <2>4, <2>5 DEF OnceIn
  <2>7. d \notin from..to => NeverIn(fs, d)
    BY <2>3, <2>4, <2>5 DEF NeverIn
  <2> QED BY <2>1, <2>3, <2>6, <2>7
<1> QED BY <1>1, <1>2

LEMMA MonthFiles ==
  ASSUME asked \in Int \X Int, NEW m \in 1..Len(MonthSpans), NEW d \in Int
  PROVE  /\ FilesOf(m) \in Seq(File)
         /\ d \in asked[1]..asked[2] /\ d \in MonthSpans[m][1]..MonthSpans[m][2] => OnceIn(FilesOf(m), d)
         /\ ~(d \in asked[1]..asked[2] /\ d \in MonthSpans[m][1]..MonthSpans[m][2]) => NeverIn(FilesOf(m), d)
<1>1. PICK lo \in Nat, hi \in Nat, a \in Int, b \in Int :
        lo = MonthSpans[m][1] /\ hi = MonthSpans[m][2] /\ a = asked[1] /\ b = asked[2]
  BY MonthsAre
<1>2. PICK from \in Int, to \in Int :
        /\ from = Max({a, lo}) /\ to = Min({b, hi})
        /\ from = (IF a >= lo THEN a ELSE lo) /\ to = (IF b <= hi THEN b ELSE hi)
  <2>1. Max({a, lo}) = (IF a >= lo THEN a ELSE lo) /\ Min({b, hi}) = (IF b <= hi THEN b ELSE hi)
    <3>1. lo \in Int /\ hi \in Int
      OBVIOUS
    <3> QED BY <3>1, OfTwo
  <2>2. Max({a, lo}) \in Int /\ Min({b, hi}) \in Int
    BY <2>1
  <2> QED BY <2>1, <2>2
<1>3. d \in from..to <=> d \in a..b /\ d \in lo..hi
  BY <1>2
<1>4. FilesOf(m) = IF MonthSpans[m] = <<from, to>> /\ m \in monthly
                   THEN <<[days |-> from..to, there |-> TRUE]>> ELSE Daily(from, to)
  BY <1>1, <1>2, Zenon DEF FilesOf
<1>5. CASE FilesOf(m) = <<[days |-> from..to, there |-> TRUE]>>
  <2>1. PICK fs : fs = <<[days |-> from..to, there |-> TRUE]>>
    OBVIOUS
  <2>2. fs \in Seq(File) /\ Len(fs) = 1 /\ fs[1].days = from..to
    BY <2>1 DEF File
  <2>3. d \in from..to => OnceIn(fs, d)
    BY <2>2 DEF OnceIn
  <2>4. d \notin from..to => NeverIn(fs, d)
    BY <2>2 DEF NeverIn
  <2> QED BY <1>1, <1>3, <1>5, <2>1, <2>2, <2>3, <2>4
<1>6. CASE FilesOf(m) = Daily(from, to)
  <2>1. PICK fs : fs = Daily(from, to)
    OBVIOUS
  <2>2. fs \in Seq(File) /\ (d \in from..to => OnceIn(fs, d)) /\ (d \notin from..to => NeverIn(fs, d))
    BY <2>1, DailyFiles
  <2>3. FilesOf(m) = fs
    BY <1>6, <2>1
  <2> QED BY <1>1, <1>3, <2>2, <2>3
<1> QED BY <1>4, <1>5, <1>6

LEMMA DaysOnce ==
  ASSUME asked \in Int \X Int
  PROVE  /\ Downloaded \in Seq(File)
         /\ \A d \in AllDays : IF d \in asked[1]..asked[2] THEN OnceIn(Downloaded, d)
                             ELSE NeverIn(Downloaded, d)
<1> DEFINE N == Len(MonthSpans)
           lists == [month \in DOMAIN MonthSpans |-> FilesOf(month)]
           end(m) == IF m = 0 THEN 0 ELSE MonthSpans[m][2]
           wanted(d) == d \in asked[1]..asked[2]
<1>1. N \in Nat /\ N >= 1 /\ DOMAIN MonthSpans = 1..N
  BY KlineAssumption, MonthsAre
<1>2. \A m \in 1..N : FilesOf(m) \in Seq(File)
  BY MonthFiles, 0 \in Int
<1> HIDE DEF N
<1>3. lists \in Seq(Seq(File)) /\ Len(lists) = N /\ \A m \in 1..N : lists[m] = FilesOf(m)
  BY <1>1, <1>2
<1>4. Downloaded = Joined(lists)
  BY Zenon DEF Downloaded
<1> HIDE DEF lists
<1>5. PICK f : Joins(f, lists, File) /\ Joined(lists) = f[N]
  BY <1>3, JoinedAre
<1>6. \A m \in 1..N : /\ MonthSpans[m][1] \in Nat /\ MonthSpans[m][2] \in Nat
                     /\ MonthSpans[m][1] <= MonthSpans[m][2]
                     /\ MonthSpans[m][1] = end(m - 1) + 1 /\ end(m) = MonthSpans[m][2]
  <2> TAKE m \in 1..N
  <2>1. MonthSpans[m][1] \in Nat /\ MonthSpans[m][2] \in Nat /\ MonthSpans[m][1] <= MonthSpans[m][2]
    BY MonthsAre DEF N
  <2>2. MonthSpans[m][1] = end(m - 1) + 1
    <3>1. CASE m = 1
      BY <3>1, MonthsAre
    <3>2. CASE m # 1
      <4>1. m \in 2..N /\ m - 1 # 0
        BY <1>1, <3>2
      <4> QED BY <4>1, MonthsAre DEF N
    <3> QED BY <3>1, <3>2
  <2>3. m # 0
    BY <1>1
  <2> QED BY <2>1, <2>2, <2>3
<1>7. \A m \in 0..N : end(m) \in Nat
  <2> TAKE m \in 0..N
  <2>1. CASE m = 0
    BY <2>1
  <2>2. CASE m # 0
    <3>1. m \in 1..N
      BY <1>1, <2>2
    <3> QED BY <1>6, <3>1
  <2> QED BY <2>1, <2>2
<1>8. end(0) = 0
  OBVIOUS
<1> HIDE DEF end, wanted
<1> DEFINE Files(m, d) == IF wanted(d) /\ d <= end(m) THEN OnceIn(f[m], d) ELSE NeverIn(f[m], d)
           T == {m \in 0..N : \A d \in Nat \ {0} : Files(m, d)}
<1>9. 0 \in T
  <2>1. f[0] = <<>> /\ 0 \in 0..N
    BY <1>1, <1>5 DEF Joins
  <2>2. \A d \in Nat \ {0} : NeverIn(<<>>, d) /\ ~(d <= end(0))
    BY <1>8 DEF NeverIn
  <2> QED BY <2>1, <2>2
<1>10. ASSUME NEW m \in 1..N, m - 1 \in T PROVE m \in T
  <2>1. m - 1 \in 0..N /\ m \in 0..N
    BY <1>1
  <2>2. PICK a \in Seq(File), b \in Seq(File) : a = f[m - 1] /\ b = FilesOf(m) /\ f[m] = a \o b
    <3>1. f[m - 1] \in Seq(File) /\ f[m] = f[m - 1] \o lists[m]
      BY <1>3, <1>5, <2>1 DEF Joins
    <3> QED BY <1>2, <1>3, <3>1
  <2>3. PICK e \in Nat, g \in Nat : e = end(m - 1) /\ g = end(m) /\ e < g
                                /\ MonthSpans[m][1] = e + 1 /\ MonthSpans[m][2] = g
    BY <1>6, <1>7, <2>1
  <2>4. ASSUME NEW d \in Nat \ {0} PROVE Files(m, d)
    <3>1. IF wanted(d) /\ d <= e THEN OnceIn(a, d) ELSE NeverIn(a, d)
      BY <1>10, <2>2, <2>3
    <3>2. IF wanted(d) /\ d \in (e + 1)..g THEN OnceIn(b, d) ELSE NeverIn(b, d)
      BY <2>2, <2>3, MonthFiles DEF N, wanted
    <3>3. CASE ~wanted(d) \/ d > g
      <4>1. NeverIn(a, d) /\ NeverIn(b, d)
        BY <2>3, <3>1, <3>2, <3>3
      <4>2. NeverIn(a \o b, d)
        BY <4>1, JoinOnce
      <4> QED BY <2>2, <2>3, <3>3, <4>2
    <3>4. CASE wanted(d) /\ d <= e
      <4>1. OnceIn(a, d) /\ NeverIn(b, d)
        BY <3>1, <3>2, <3>4
      <4>2. OnceIn(a \o b, d)
        BY <4>1, JoinOnce
      <4> QED BY <2>2, <2>3, <3>4, <4>2
    <3>5. CASE wanted(d) /\ d > e /\ d <= g
      <4>1. NeverIn(a, d) /\ OnceIn(b, d)
        BY <3>1, <3>2, <3>5
      <4>2. OnceIn(a \o b, d)
        BY <4>1, JoinOnce
      <4> QED BY <2>2, <2>3, <3>5, <4>2
    <3> QED BY <2>3, <3>3, <3>4, <3>5
  <2> QED BY <2>1, <2>4
<1> HIDE DEF T
<1>11. \A m \in 0..N : m \in T
  BY <1>1, <1>9, <1>10, UpTo
<1>12. N \in T /\ f[N] \in Seq(File) /\ end(N) = LastOfDays
  <2>1. N \in 0..N /\ N \in 1..N
    BY <1>1
  <2> QED BY <1>3, <1>5, <1>6, <1>11, <2>1 DEF Joins, N, LastOfDays
<1>13. ASSUME NEW d \in AllDays PROVE Files(N, d) /\ d <= end(N)
  <2>1. d \in 1..LastOfDays
    BY DEF AllDays
  <2>2. LastOfDays \in Nat
    BY MonthsAre
  <2>3. d \in Nat \ {0} /\ d <= LastOfDays
    BY <2>1, <2>2
  <2>4. \A m \in T : \A other \in Nat \ {0} : Files(m, other)
    BY Zenon DEF T
  <2>5. N \in T /\ end(N) = LastOfDays
    BY <1>12
  <2>6. Files(N, d)
    BY Zenon, <2>3, <2>4, <2>5
  <2> QED BY <2>3, <2>5, <2>6
<1> QED BY <1>4, <1>5, <1>12, <1>13 DEF wanted

-----------------------------------------------------------------------------
(* What a file has and what a load returns.                                *)
Copies(s) == IF s \in missing THEN 0 ELSE IF s \in doubled THEN 2 ELSE 1

LEMMA ParsedIs ==
  ASSUME NEW file
  PROVE  /\ Parsed(file) \in Seq(Int)
         /\ \A s \in AllSlots : Times(Parsed(file), s) = IF DayOf(s) \in file.days THEN Copies(s) ELSE 0
<1> DEFINE times == [s \in AllSlots |-> IF s \in missing \/ DayOf(s) \notin file.days THEN 0
                                       ELSE IF s \in doubled THEN 2 ELSE 1]
<1>1. times \in [AllSlots -> Nat]
  OBVIOUS
<1>2. \A s \in AllSlots : times[s] = IF DayOf(s) \in file.days THEN Copies(s) ELSE 0
  BY DEF Copies
<1>3. Parsed(file) = Listed(times)
  BY Zenon DEF Parsed
<1> HIDE DEF times
<1> QED BY <1>1, <1>2, <1>3, ListedIs

LEMMA LoadedIs ==
  ASSUME asked \in Int \X Int
  PROVE  /\ Loaded \in Seq(Int) /\ Rises(Loaded)
         /\ \A i \in 1..Len(Loaded) : Loaded[i] \in AllSlots
         /\ \A s \in AllSlots :
              Times(Loaded, s) = IF DayOf(s) \in asked[1]..asked[2] THEN Copies(s) ELSE 0
<1> DEFINE N == Len(Downloaded)
           lists == [k \in DOMAIN Downloaded |-> Parsed(Downloaded[k])]
           all == Joined(lists)
           times == [s \in AllSlots |-> IF DayOf(s) \in asked[1]..asked[2] THEN Times(all, s) ELSE 0]
<1>1. N \in Nat /\ DOMAIN Downloaded = 1..N
  BY DaysOnce
<1>2. lists \in Seq(Seq(Int)) /\ Len(lists) = N /\ \A k \in 1..N : lists[k] = Parsed(Downloaded[k])
  BY <1>1, ParsedIs
<1>3. Loaded = Listed(times)
  BY Zenon DEF Loaded
<1> HIDE DEF lists
<1>4. \A s \in AllSlots : s \in Int /\ DayOf(s) \in AllDays
  BY SlotHasDay DEF AllSlots
<1>5. ASSUME NEW s \in AllSlots
      PROVE  all \in Seq(Int) /\ (DayOf(s) \in asked[1]..asked[2] => Times(all, s) = Copies(s))
  <2>1. CASE DayOf(s) \in asked[1]..asked[2]
    <3>1. PICK h \in 1..N : \A j \in 1..N : DayOf(s) \in Downloaded[j].days <=> j = h
      BY <1>4, <2>1, DaysOnce DEF OnceIn
    <3>2. /\ Times(lists[h], s) = Copies(s)
          /\ \A k \in 1..N : k # h => Times(lists[k], s) = 0
      <4>1. \A k \in 1..N : Times(lists[k], s) = IF DayOf(s) \in Downloaded[k].days THEN Copies(s) ELSE 0
        BY <1>2, ParsedIs
      <4> HIDE DEF N
      <4> QED BY <3>1, <4>1
    <3>3. h \in 0..Len(lists) /\ h # 0
      BY <1>1, <1>2
    <3>4. /\ Joined(lists) \in Seq(Int)
          /\ Times(Joined(lists), s) = Times(lists[h], s)
      BY <1>2, <3>2, <3>3, OnlyFrom
    <3> QED BY <3>2, <3>4
  <2>2. CASE DayOf(s) \notin asked[1]..asked[2]
    <3>1. \A k \in 1..N : DayOf(s) \notin Downloaded[k].days
      BY <1>4, <2>2, DaysOnce DEF NeverIn
    <3>2. \A k \in 1..N : Times(lists[k], s) = 0
      BY <1>2, <3>1, ParsedIs
    <3>3. 0 \in 0..Len(lists)
      BY <1>1, <1>2
    <3>4. Joined(lists) \in Seq(Int)
      BY <1>2, <3>2, <3>3, OnlyFrom
    <3> QED BY <2>2, <3>4
  <2> QED BY <2>1, <2>2
<1> HIDE DEF all
<1>6. \A s \in AllSlots : Copies(s) \in Nat
  BY DEF Copies
<1>7. times \in [AllSlots -> Nat] /\ \A s \in AllSlots : times[s] = IF DayOf(s) \in asked[1]..asked[2] THEN Copies(s) ELSE 0
  BY <1>5, <1>6
<1> HIDE DEF times
<1> QED BY <1>3, <1>7, ListedIs

LEMMA GotIs ==
  ASSUME asked \in Int \X Int
  PROVE  /\ {Loaded[k] : k \in DOMAIN Loaded} = {s \in AllSlots \ missing : DayOf(s) \in asked[1]..asked[2]}
         /\ \A s \in AllSlots : Times(Loaded, s) = 1 <=> s \in {Loaded[k] : k \in DOMAIN Loaded} /\ s \notin doubled
<1>1. PICK bs \in Seq(Int) : bs = Loaded
  BY LoadedIs
<1>2. /\ \A i \in 1..Len(bs) : bs[i] \in AllSlots
      /\ \A s \in AllSlots : Times(bs, s) = IF DayOf(s) \in asked[1]..asked[2] THEN Copies(s) ELSE 0
  BY <1>1, LoadedIs
<1>3. DOMAIN bs = 1..Len(bs)
  OBVIOUS
<1>4. \A s \in AllSlots : (\E i \in 1..Len(bs) : bs[i] = s) <=> Times(bs, s) # 0
  BY TimesIsNat
<1>5. \A s \in AllSlots : Times(bs, s) # 0 <=> s \notin missing /\ DayOf(s) \in asked[1]..asked[2]
  BY <1>2 DEF Copies
<1>6. {bs[k] : k \in DOMAIN bs} = {s \in AllSlots \ missing : DayOf(s) \in asked[1]..asked[2]}
  <2>1. ASSUME NEW k \in DOMAIN bs
        PROVE  bs[k] \in AllSlots \ missing /\ DayOf(bs[k]) \in asked[1]..asked[2]
    <3>1. k \in 1..Len(bs) /\ bs[k] \in AllSlots
      BY <1>2, <1>3
    <3>2. Times(bs, bs[k]) # 0
      BY <1>4, <3>1
    <3> QED BY <1>5, <3>1, <3>2
  <2>2. ASSUME NEW s \in AllSlots \ missing, DayOf(s) \in asked[1]..asked[2]
        PROVE  \E k \in DOMAIN bs : bs[k] = s
    BY <1>3, <1>4, <1>5, <2>2
  <2> QED BY <2>1, <2>2
<1>7. \A s \in AllSlots : Times(bs, s) = 1 <=> s \in {bs[k] : k \in DOMAIN bs} /\ s \notin doubled
  BY <1>2, <1>6 DEF Copies
<1> QED BY <1>1, <1>6, <1>7

-----------------------------------------------------------------------------
(* A strict load.                                                          *)
(* Of a set of numbers below a bound there is a greatest.                  *)
LEMMA GreatestExists ==
  ASSUME NEW N \in Nat, NEW S \in SUBSET (0..N), S # {}
  PROVE  \E n \in S : \A x \in S : x <= n
<1> DEFINE R == {r \in 0..N : N - r \in S}
<1>1. R \in SUBSET Nat /\ R # {}
  <2>1. PICK x \in S : x \in 0..N
    OBVIOUS
  <2>2. N - x \in 0..N /\ N - (N - x) = x
    BY <2>1
  <2>3. N - x \in R
    BY <2>1, <2>2
  <2>4. R \in SUBSET Nat
    OBVIOUS
  <2> HIDE DEF R
  <2> QED BY <2>3, <2>4
<1>2. PICK r \in R : \A x \in R : r <= x
  <2> HIDE DEF R
  <2> QED BY <1>1, LeastExists
<1>3. N - r \in S /\ r \in 0..N
  OBVIOUS
<1>4. ASSUME NEW x \in S PROVE x <= N - r
  <2>1. x \in 0..N /\ N - x \in 0..N /\ N - (N - x) = x
    OBVIOUS
  <2>2. N - x \in R
    BY <2>1
  <2>3. r <= N - x
    BY <1>2, <2>2
  <2> QED BY <1>3, <2>1, <2>3
<1> QED BY <1>3, <1>4

LEMMA NoHole ==
  ASSUME NEW N \in Nat, NEW bs \in Seq(Int), \A i \in 1..Len(bs) : bs[i] \in 1..N, Gaps(bs) = {}
  PROVE  LET got == {bs[k] : k \in DOMAIN bs} IN got = {} \/ got = Min(got)..Max(got)
<1> DEFINE got == {bs[k] : k \in DOMAIN bs}
<1>1. got \in SUBSET (1..N)
  OBVIOUS
<1>2. \A pair \in got \X got : ~(pair[2] - pair[1] > 1 /\ \A s \in got : s <= pair[1] \/ pair[2] <= s)
  BY Zenon DEF Gaps
<1> HIDE DEF got
<1>3. \A p, c \in got : ~(c - p > 1 /\ \A s \in got : s <= p \/ c <= s)
  <2> TAKE p, c \in got
  <2>1. <<p, c>> \in got \X got /\ <<p, c>>[1] = p /\ <<p, c>>[2] = c
    OBVIOUS
  <2> QED BY <1>2, <2>1
<1> SUFFICES ASSUME got # {} PROVE got = Min(got)..Max(got)
  BY DEF got
<1>4. got \in SUBSET Nat /\ got \in SUBSET (0..N) /\ \A x \in got : x \in Nat
  BY <1>1
<1>5. Min(got) \in got /\ \A x \in got : Min(got) <= x
  BY <1>4, MinIs
<1>6. Max(got) \in got /\ \A x \in got : x <= Max(got)
  <2>1. PICK n \in got : \A x \in got : x <= n
    BY <1>4, GreatestExists
  <2> QED BY <1>4, <2>1, MaxIs
<1>7. ASSUME NEW s \in Min(got)..Max(got), s \notin got PROVE FALSE
  <2> DEFINE L == {x \in got : x < s}
             G == {x \in got : s < x}
  <2>1. s \in Nat /\ Min(got) \in L /\ Max(got) \in G
    <3>1. Min(got) \in Nat /\ Max(got) \in Nat /\ Min(got) \in got /\ Max(got) \in got
      BY <1>4, <1>5, <1>6
    <3>2. s \in Nat /\ Min(got) <= s /\ s <= Max(got) /\ s # Min(got) /\ s # Max(got)
      BY <1>7, <3>1
    <3>3. Min(got) < s /\ s < Max(got)
      BY <3>1, <3>2
    <3> QED BY <3>1, <3>2, <3>3
  <2>2. L \in SUBSET (0..N) /\ G \in SUBSET Nat /\ L # {} /\ G # {}
    BY <1>4, <2>1
  <2>3. PICK p \in L : \A x \in L : x <= p
    <3> HIDE DEF L
    <3> QED BY <2>2, GreatestExists
  <2>4. PICK c \in G : \A x \in G : c <= x
    <3> HIDE DEF G
    <3> QED BY <2>2, LeastExists
  <2>5. p \in got /\ c \in got /\ p < s /\ s < c /\ p \in Nat /\ c \in Nat
    BY <1>4
  <2>6. \A x \in got : x <= p \/ c <= x
    <3> TAKE x \in got
    <3>1. x < s \/ s < x
      BY <1>4, <1>7, <2>1
    <3> QED BY <2>3, <2>4, <3>1
  <2>7. c - p > 1
    BY <2>1, <2>5
  <2> QED BY <1>3, <2>5, <2>6, <2>7
<1>8. \A x \in got : x \in Min(got)..Max(got)
  BY <1>4, <1>5, <1>6
<1> QED BY <1>7, <1>8

-----------------------------------------------------------------------------
(* The bars of one bucket.                                                 *)
LEMMA MultipleDivides ==
  ASSUME NEW u \in Nat \ {0}, NEW q \in Nat
  PROVE  u * q \in Nat /\ (u * q) % u = 0
<1>1. PICK x \in Nat : x = u * q
  OBVIOUS
<1>2. PICK t \in Nat, r \in 0..(u - 1) : t = x \div u /\ r = x % u /\ x = u * t + r
  BY Divides
<1>3. ~(t < q)
  <2> SUFFICES ASSUME t < q PROVE FALSE
    OBVIOUS
  <2>1. u * t + u <= u * q /\ u * t \in Int
    BY GrowsBy
  <2> QED BY <1>1, <1>2, <2>1
<1>4. ~(q < t)
  <2> SUFFICES ASSUME q < t PROVE FALSE
    OBVIOUS
  <2>1. u * q + u <= u * t /\ u * t \in Int
    BY GrowsBy
  <2> QED BY <1>1, <1>2, <2>1
<1>5. t = q
  BY <1>3, <1>4
<1> QED BY <1>1, <1>2, <1>5

LEMMA BucketSizeIs == BucketSlots \in Nat \ {0}
<1> QED BY KlineAssumption

LEMMA BucketStartIs ==
  ASSUME NEW p \in Nat \ {0}
  PROVE  /\ BucketStart(p) \in Nat \ {0} /\ BucketStart(p) <= p /\ p <= BucketStart(p) + BucketSlots - 1
         /\ (BucketStart(p) - 1) % BucketSlots = 0
         /\ \E q \in Nat : BucketStart(p) - 1 = BucketSlots * q
<1>1. PICK u \in Nat \ {0} : u = BucketSlots
  BY BucketSizeIs
<1>2. PICK x \in Nat, q \in Nat, r \in 0..(u - 1) : x = p - 1 /\ r = x % u /\ x = u * q + r
  <2>1. p - 1 \in Nat
    OBVIOUS
  <2> QED BY <2>1, Divides
<1>3. u * q \in Nat /\ (u * q) % u = 0
  BY MultipleDivides
<1>4. PICK b : b = BucketStart(p) /\ b = p - r
  <2>1. (p - 1) % BucketSlots = r
    BY <1>1, <1>2, Zenon
  <2> QED BY <2>1, Zenon DEF BucketStart
<1>5. b \in Nat \ {0} /\ b <= p /\ p <= b + u - 1 /\ b - 1 = u * q
  <2>1. PICK w \in Nat : w = u * q
    BY <1>3
  <2>2. p = w + r + 1 /\ b = w + 1 /\ r <= u - 1 /\ r \in Nat
    BY <1>2, <1>4, <2>1
  <2> QED BY <2>1, <2>2
<1>6. (b - 1) % u = 0
  BY <1>3, <1>5, Zenon
<1>7. BucketStart(p) = b /\ u = BucketSlots /\ q \in Nat
  BY <1>1, <1>4
<1> HIDE DEF BucketStart
<1> QED BY <1>5, <1>6, <1>7

LEMMA SameBucket ==
  ASSUME NEW p \in Nat \ {0}, NEW s \in Nat \ {0}, (s - 1) % BucketSlots = 0
  PROVE  BucketStart(p) = s <=> p \in s..(s + BucketSlots - 1)
<1>1. PICK u \in Nat \ {0} : u = BucketSlots
  BY BucketSizeIs
<1>2. PICK b \in Nat \ {0}, q \in Nat : b = BucketStart(p) /\ b <= p /\ p <= b + u - 1 /\ b - 1 = u * q
  BY <1>1, BucketStartIs
<1>3. PICK t \in Nat : s - 1 = u * t
  <2>1. PICK x \in Nat : x = s - 1 /\ x % u = 0
    BY <1>1
  <2>2. x \div u \in Nat /\ x = u * (x \div u) + (x % u) /\ u * (x \div u) \in Nat
    BY Divides
  <2>3. x = u * (x \div u)
    BY <2>1, <2>2
  <2> QED BY <2>1, <2>2, <2>3
<1>4. ASSUME p \in s..(s + u - 1) PROVE b = s
  <2>1. ~(q < t)
    <3> SUFFICES ASSUME q < t PROVE FALSE
      OBVIOUS
    <3>1. u * q + u <= u * t /\ u * t \in Int /\ u * q \in Int
      BY GrowsBy
    <3> QED BY <1>2, <1>3, <1>4, <3>1
  <2>2. ~(t < q)
    <3> SUFFICES ASSUME t < q PROVE FALSE
      OBVIOUS
    <3>1. u * t + u <= u * q /\ u * t \in Int /\ u * q \in Int
      BY GrowsBy
    <3> QED BY <1>2, <1>3, <1>4, <3>1
  <2>3. t = q
    BY <2>1, <2>2
  <2> QED BY <1>2, <1>3, <2>3
<1>5. ASSUME b = s PROVE p \in s..(s + u - 1)
  BY <1>2, <1>5
<1> QED BY <1>1, <1>2, <1>4, <1>5

LEMMA TimesOfOne ==
  ASSUME NEW x \in Int, NEW s
  PROVE  Times(<<x>>, s) = IF x = s THEN 1 ELSE 0
<1>1. PICK bs : bs = <<x>>
  OBVIOUS
<1>2. bs \in Seq(Int) /\ Len(bs) = 1 /\ bs[1] = x
  BY <1>1
<1>3. Times(bs, s) = Cardinality({k \in 1..Len(bs) : bs[k] = s})
  BY <1>2, TimesIsNat
<1>4. x = s => {k \in 1..Len(bs) : bs[k] = s} = {1}
  BY <1>2
<1>5. x # s => {k \in 1..Len(bs) : bs[k] = s} = {}
  BY <1>2
<1>6. Cardinality({1}) = 1 /\ Cardinality({}) = 0
  BY FS_Singleton, FS_EmptySet
<1> QED BY <1>1, <1>3, <1>4, <1>5, <1>6

LEMMA TimesUpTo ==
  ASSUME NEW bs \in Seq(Int), NEW p, NEW k \in 1..Len(bs)
  PROVE  /\ Cardinality({j \in 1..k : bs[j] = p}) =
              Cardinality({j \in 1..(k - 1) : bs[j] = p}) + (IF bs[k] = p THEN 1 ELSE 0)
         /\ Cardinality({j \in 1..(k - 1) : bs[j] = p}) \in Nat
<1> DEFINE A == {j \in 1..(k - 1) : bs[j] = p}
           B == {j \in 1..k : bs[j] = p}
<1>1. IsFiniteSet(1..(k - 1))
  BY FS_Interval
<1>2. IsFiniteSet(A) /\ Cardinality(A) \in Nat
  BY <1>1, FS_Subset, FS_CardinalityType
<1>3. bs[k] = p => B = A \cup {k} /\ k \notin A
  OBVIOUS
<1>4. bs[k] # p => B = A
  OBVIOUS
<1> HIDE DEF A, B
<1>5. bs[k] = p => Cardinality(B) = Cardinality(A) + 1
  BY <1>2, <1>3, FS_AddElement
<1>6. Cardinality(B) = Cardinality(A) + (IF bs[k] = p THEN 1 ELSE 0)
  BY <1>2, <1>4, <1>5
<1> QED BY <1>2, <1>6 DEF A, B

LEMMA BucketIs ==
  ASSUME NEW bs \in Seq(Int), Rises(bs), NEW start
  PROVE  /\ Bucket(bs, start) \in Seq(Int) /\ Rises(Bucket(bs, start))
         /\ \A p : Times(Bucket(bs, start), p) = IF BucketStart(p) = start THEN Times(bs, p) ELSE 0
<1> DEFINE N == Len(bs)
           part(k) == IF BucketStart(bs[k]) = start THEN <<bs[k]>> ELSE <<>>
           lists == [k \in DOMAIN bs |-> part(k)]
           count(p, k) == Cardinality({j \in 1..k : bs[j] = p})
<1>1. N \in Nat /\ DOMAIN bs = 1..N /\ \A k \in 1..N : bs[k] \in Int
  OBVIOUS
<1>2. \A k \in 1..N : part(k) \in Seq(Int)
  BY <1>1
<1>3. lists \in Seq(Seq(Int)) /\ Len(lists) = N /\ \A k \in 1..N : lists[k] = part(k)
  BY <1>1, <1>2
<1>4. Bucket(bs, start) = Joined(lists)
  BY Zenon DEF Bucket
<1> HIDE DEF lists, part
<1>5. PICK f : Joins(f, lists, Int) /\ Joined(lists) = f[N]
  BY <1>3, JoinedAre
<1>6. \A k \in 1..N : f[k] = f[k - 1] \o part(k) /\ f[k - 1] \in Seq(Int) /\ f[k] \in Seq(Int) /\ part(k) \in Seq(Int)
  <2> TAKE k \in 1..N
  <2>1. k - 1 \in 0..N /\ k \in 0..N
    BY <1>1
  <2> QED BY <1>2, <1>3, <1>5, <2>1 DEF Joins
<1>7. \A p : \A k \in 1..N : /\ count(p, k) = count(p, k - 1) + (IF bs[k] = p THEN 1 ELSE 0)
                         /\ count(p, k - 1) \in Nat
  BY TimesUpTo
<1> HIDE DEF count
<1> DEFINE T == {k \in 0..N : /\ Rises(f[k]) /\ \A i \in 1..Len(f[k]) : \E j \in 1..k : f[k][i] = bs[j]
                             /\ \A p : Times(f[k], p) = IF BucketStart(p) = start THEN count(p, k) ELSE 0}
<1>8. 0 \in T
  <2>1. f[0] = <<>> /\ 0 \in 0..N
    BY <1>1, <1>5 DEF Joins
  <2>2. 1..Len(<<>>) = {} /\ \A p : {j \in 1..0 : bs[j] = p} = {}
    OBVIOUS
  <2>3. \A p : count(p, 0) = 0
    BY <2>2, FS_EmptySet DEF count
  <2>4. \A p : Times(<<>>, p) = 0
    BY TimesOfNothing
  <2> QED BY <2>1, <2>2, <2>3, <2>4 DEF Rises
<1>9. ASSUME NEW k \in 1..N, k - 1 \in T PROVE k \in T
  <2>1. PICK a \in Seq(Int), b \in Seq(Int), c \in Seq(Int) :
          a = f[k - 1] /\ b = part(k) /\ c = f[k] /\ c = a \o b
    BY <1>6
  <2>2. k \in 0..N
    BY <1>1
  <2>3. /\ Rises(a) /\ \A i \in 1..Len(a) : \E j \in 1..(k - 1) : a[i] = bs[j]
        /\ \A p : Times(a, p) = IF BucketStart(p) = start THEN count(p, k - 1) ELSE 0
    BY <1>9, <2>1
  <2>4. CASE b = <<bs[k]>> /\ BucketStart(bs[k]) = start
    <3>1. \A i \in 1..Len(b) : b[i] = bs[k]
      BY <2>4
    <3>2. \A i \in 1..Len(a) : a[i] <= bs[k]
      <4> TAKE i \in 1..Len(a)
      <4>1. PICK j \in 1..(k - 1) : a[i] = bs[j]
        BY <2>3
      <4>2. j \in 1..Len(bs) /\ k \in 1..Len(bs) /\ j < k
        BY <1>1
      <4> QED BY <4>1, <4>2 DEF Rises
    <3>3. bs[k] \in Int
      BY <1>1
    <3>4. Rises(c)
      BY <2>1, <2>3, <3>1, <3>2, <3>3, RisesOn
    <3>5. \A i \in 1..Len(c) : \E j \in 1..k : c[i] = bs[j]
      <4> TAKE i \in 1..Len(c)
      <4>1. \/ i \in 1..Len(a) /\ c[i] = a[i]
            \/ i - Len(a) \in 1..Len(b) /\ c[i] = b[i - Len(a)]
        BY <2>1, Concatenated
      <4>2. CASE i \in 1..Len(a) /\ c[i] = a[i]
        <5>1. PICK j \in 1..(k - 1) : a[i] = bs[j]
          BY <2>3, <4>2
        <5> QED BY <4>2, <5>1
      <4>3. CASE i - Len(a) \in 1..Len(b) /\ c[i] = b[i - Len(a)]
        <5>1. c[i] = bs[k]
          BY Zenon, <3>1, <4>3
        <5>2. k \in 1..k
          BY <1>1
        <5> QED BY Zenon, <5>1, <5>2
      <4> QED BY <4>1, <4>2, <4>3
    <3>6. ASSUME NEW p PROVE Times(c, p) = IF BucketStart(p) = start THEN count(p, k) ELSE 0
      <4>1. Times(c, p) = Times(a, p) + Times(b, p)
        BY <2>1, TimesAdd
      <4>2. Times(b, p) = IF bs[k] = p THEN 1 ELSE 0
        BY <2>4, <3>3, TimesOfOne
      <4>3. count(p, k) = count(p, k - 1) + (IF bs[k] = p THEN 1 ELSE 0) /\ count(p, k - 1) \in Nat
        BY <1>7
      <4>4. bs[k] = p => BucketStart(p) = start
        BY <2>4
      <4> QED BY <2>3, <4>1, <4>2, <4>3, <4>4
    <3> QED BY <2>1, <2>2, <3>4, <3>5, <3>6
  <2>5. CASE b = <<>> /\ BucketStart(bs[k]) # start
    <3>1. c = a
      BY <2>1, <2>5
    <3>2. \A i \in 1..Len(c) : \E j \in 1..k : c[i] = bs[j]
      BY <2>3, <3>1
    <3>3. ASSUME NEW p PROVE Times(c, p) = IF BucketStart(p) = start THEN count(p, k) ELSE 0
      <4>1. count(p, k) = count(p, k - 1) + (IF bs[k] = p THEN 1 ELSE 0) /\ count(p, k - 1) \in Nat
        BY <1>7
      <4>2. BucketStart(p) = start => bs[k] # p
        BY <2>5
      <4> QED BY <2>3, <3>1, <4>1, <4>2
    <3> QED BY <2>1, <2>2, <2>3, <3>1, <3>2, <3>3
  <2> QED BY <2>1, <2>4, <2>5 DEF part
<1> HIDE DEF T
<1>10. \A k \in 0..N : k \in T
  BY <1>1, <1>8, <1>9, UpTo
<1>11. N \in T /\ f[N] \in Seq(Int)
  BY <1>1, <1>3, <1>5, <1>10 DEF Joins
<1>12. \A p : Times(bs, p) = count(p, N)
  BY TimesIsNat DEF count
<1> QED BY <1>4, <1>5, <1>11, <1>12 DEF T

(* A rising list that has each number of an interval once is the interval. *)
LEMMA InARow ==
  ASSUME NEW L \in Seq(Int), Rises(L), NEW a \in Int, NEW n \in Nat,
         \A p : Times(L, p) = IF p \in a..(a + n - 1) THEN 1 ELSE 0
  PROVE  L = [k \in 1..n |-> a + k - 1]
<1>1. Len(L) \in Nat /\ DOMAIN L = 1..Len(L) /\ \A i \in 1..Len(L) : L[i] \in Int
  OBVIOUS
<1>2. \A i \in 1..Len(L) : L[i] \in a..(a + n - 1)
  <2> TAKE i \in 1..Len(L)
  <2>1. Times(L, L[i]) # 0
    BY TimesIsNat
  <2> QED BY <2>1
<1>3. \A p \in a..(a + n - 1) : \E i \in 1..Len(L) : L[i] = p
  <2> TAKE p \in a..(a + n - 1)
  <2>1. Times(L, p) # 0
    OBVIOUS
  <2> QED BY <2>1, TimesIsNat
<1>4. ASSUME NEW i \in 1..Len(L), NEW j \in 1..Len(L), i < j PROVE L[i] < L[j]
  <2>1. L[i] <= L[j]
    BY <1>4 DEF Rises
  <2>2. ASSUME L[i] = L[j] PROVE FALSE
    <3> DEFINE K == {k \in 1..Len(L) : L[k] = L[i]}
    <3>1. i \in K /\ j \in K
      BY <2>2
    <3>2. IsFiniteSet(K) /\ Cardinality(K) = 1
      BY <1>2, TimesIsNat
    <3> HIDE DEF K
    <3>3. PICK x : K = {x}
      BY <3>2, FS_Singleton
    <3> QED BY <1>4, <3>1, <3>3
  <2> QED BY <1>1, <2>1, <2>2
<1> DEFINE T == {k \in 0..n : k <= Len(L) /\ (k >= 1 => L[k] = a + k - 1)}
<1>5. 0 \in T
  BY <1>1
<1>6. ASSUME NEW k \in 1..n, k - 1 \in T PROVE k \in T
  <2>1. k - 1 <= Len(L) /\ (k - 1 >= 1 => L[k - 1] = a + (k - 1) - 1)
    BY <1>6
  <2>2. PICK i \in 1..Len(L) : L[i] = a + k - 1
    <3>1. a + k - 1 \in a..(a + n - 1)
      OBVIOUS
    <3> QED BY <1>3, <3>1
  <2>3. ~(i < k)
    <3> SUFFICES ASSUME i < k PROVE FALSE
      OBVIOUS
    <3>1. k - 1 \in 1..Len(L) /\ i <= k - 1 /\ L[k - 1] = a + (k - 1) - 1
      BY <2>1
    <3>2. L[i] <= L[k - 1]
      BY <1>4, <3>1
    <3> QED BY <2>2, <3>1, <3>2
  <2>4. ~(i > k)
    <3> SUFFICES ASSUME i > k PROVE FALSE
      OBVIOUS
    <3>1. k \in 1..Len(L) /\ L[k] \in Int /\ L[k] < a + k - 1 /\ L[k] >= a
      BY <1>1, <1>2, <1>4, <2>2
    <3>2. k # 1
      BY <3>1
    <3>3. k - 1 \in 1..Len(L) /\ k - 1 < k /\ L[k - 1] = a + (k - 1) - 1
      BY <1>1, <2>1, <3>2
    <3>4. L[k - 1] < L[k]
      BY <1>4, <3>1, <3>3
    <3> QED BY <3>1, <3>3, <3>4
  <2>5. i = k
    BY <2>3, <2>4
  <2> QED BY <2>2, <2>5
<1> HIDE DEF T
<1>7. \A k \in 0..n : k \in T
  BY <1>5, <1>6, UpTo
<1>8. Len(L) = n
  <2>1. n <= Len(L) /\ (n >= 1 => L[n] = a + n - 1)
    BY <1>7 DEF T
  <2>2. ~(Len(L) > n)
    <3> SUFFICES ASSUME Len(L) > n PROVE FALSE
      OBVIOUS
    <3>1. n + 1 \in 1..Len(L) /\ L[n + 1] \in a..(a + n - 1)
      BY <1>1, <1>2
    <3>2. n # 0
      BY <3>1
    <3>3. n \in 1..Len(L) /\ L[n] = a + n - 1 /\ L[n] < L[n + 1]
      BY <1>4, <2>1, <3>1, <3>2
    <3> QED BY <3>1, <3>3
  <2>3. PICK l \in Nat : l = Len(L)
    BY <1>1
  <2>4. n <= l /\ ~(l > n)
    BY <2>1, <2>2, <2>3
  <2>5. l = n
    BY <2>4
  <2> QED BY <2>3, <2>5
<1>9. \A k \in 1..n : L[k] = a + k - 1
  BY <1>7 DEF T
<1> QED BY <1>1, <1>8, <1>9

LEMMA ExpectedIs ==
  ASSUME NEW s \in Nat
  PROVE  \A p : Times(Expected(s), p) = IF p \in s..(s + BucketSlots - 1) THEN 1 ELSE 0
<1>1. PICK n, L : n \in Nat /\ n = BucketSlots /\ L = Expected(s)
  BY BucketSizeIs
<1>2. L = [k \in 1..n |-> s + k - 1]
  BY <1>1 DEF Expected
<1>3. L \in Seq(Int) /\ Len(L) = n /\ \A k \in 1..n : L[k] = s + k - 1
  BY <1>1, <1>2
<1>4. ASSUME NEW p PROVE Times(L, p) = IF p \in s..(s + n - 1) THEN 1 ELSE 0
  <2>1. Times(L, p) = Cardinality({k \in 1..n : L[k] = p})
    BY <1>3, TimesIsNat
  <2>2. CASE p \in s..(s + n - 1)
    <3>1. p - s + 1 \in 1..n /\ \A k \in 1..n : L[k] = p <=> k = p - s + 1
      BY <1>3, <2>2
    <3>2. {k \in 1..n : L[k] = p} = {p - s + 1}
      BY <3>1
    <3> QED BY <2>1, <2>2, <3>2, FS_Singleton
  <2>3. CASE p \notin s..(s + n - 1)
    <3>1. {k \in 1..n : L[k] = p} = {}
      BY <1>3, <2>3
    <3> QED BY <2>1, <2>3, <3>1, FS_EmptySet
  <2> QED BY <2>2, <2>3
<1> QED BY <1>1, <1>4

(* A bucket is whole exactly if each of its slots is there once.           *)
LEMMA BucketWhole ==
  ASSUME NEW bs \in Seq(Int), Rises(bs), \A i \in 1..Len(bs) : bs[i] \in Nat \ {0},
         NEW s \in Nat \ {0}, (s - 1) % BucketSlots = 0
  PROVE  Bucket(bs, s) = Expected(s) <=> \A p \in s..(s + BucketSlots - 1) : Times(bs, p) = 1
<1>1. PICK n \in Nat, L \in Seq(Int) : n = BucketSlots /\ L = Bucket(bs, s)
  BY BucketSizeIs, BucketIs
<1>2. Rises(L) /\ \A p : Times(L, p) = IF BucketStart(p) = s THEN Times(bs, p) ELSE 0
  BY <1>1, BucketIs
<1>3. \A p : Times(bs, p) # 0 => p \in Nat \ {0}
  <2> TAKE p
  <2>1. Times(bs, p) # 0 => \E i \in 1..Len(bs) : bs[i] = p
    BY TimesIsNat
  <2> QED BY <2>1
<1>4. \A p \in Nat \ {0} : BucketStart(p) = s <=> p \in s..(s + n - 1)
  BY <1>1, SameBucket
<1>5. \A p \in s..(s + n - 1) : p \in Nat \ {0}
  OBVIOUS
<1>6. ASSUME L = Expected(s), NEW p \in s..(s + n - 1) PROVE Times(bs, p) = 1
  <2>1. Times(L, p) = 1
    BY <1>1, <1>6, ExpectedIs
  <2>2. BucketStart(p) = s
    BY <1>4, <1>5
  <2> QED BY <1>2, <2>1, <2>2
<1>7. ASSUME \A p \in s..(s + n - 1) : Times(bs, p) = 1 PROVE L = Expected(s)
  <2>1. ASSUME NEW p PROVE Times(L, p) = IF p \in s..(s + n - 1) THEN 1 ELSE 0
    <3>1. CASE p \in s..(s + n - 1)
      <4>1. BucketStart(p) = s /\ Times(bs, p) = 1
        BY <1>4, <1>5, <1>7, <3>1
      <4> QED BY <1>2, <3>1, <4>1
    <3>2. CASE p \notin s..(s + n - 1)
      <4>1. BucketStart(p) = s => Times(bs, p) = 0
        BY <1>3, <1>4, <3>2
      <4> QED BY <1>2, <3>2, <4>1
    <3> QED BY <3>1, <3>2
  <2>2. L = [k \in 1..n |-> s + k - 1]
    <3>1. s \in Int
      OBVIOUS
    <3> QED BY <1>2, <2>1, <3>1, InARow
  <2> QED BY <1>1, <2>2 DEF Expected
<1> QED BY <1>1, <1>6, <1>7

-----------------------------------------------------------------------------
(* What the prices of a bucket contain.                                    *)
LEMMA GreatestOf ==
  ASSUME NEW n \in Nat, NEW h \in [0..n -> Nat]
  PROVE  \E i \in 0..n : \A j \in 0..n : h[j] <= h[i]
<1> DEFINE T == {m \in 0..n : \E i \in 0..m : \A j \in 0..m : h[j] <= h[i]}
<1>1. 0 \in T
  <2>1. \A j \in 0..0 : h[j] <= h[0]
    <3>1. h[0] \in Nat
      OBVIOUS
    <3> QED BY <3>1
  <2>2. 0 \in 0..0 /\ 0 \in 0..n
    OBVIOUS
  <2> QED BY <2>1, <2>2
<1>2. ASSUME NEW m \in 1..n, m - 1 \in T PROVE m \in T
  <2>1. PICK i \in 0..(m - 1) : \A j \in 0..(m - 1) : h[j] <= h[i]
    BY <1>2
  <2>2. h[i] \in Nat /\ h[m] \in Nat /\ i \in 0..m /\ m \in 0..m /\ m \in 0..n
    OBVIOUS
  <2>3. \A j \in 0..m : j \in 0..(m - 1) \/ j = m
    OBVIOUS
  <2>4. CASE h[m] <= h[i]
    <3>1. \A j \in 0..m : h[j] <= h[i]
      BY <2>1, <2>3, <2>4
    <3> QED BY <2>2, <3>1
  <2>5. CASE h[i] <= h[m]
    <3>1. ASSUME NEW j \in 0..m PROVE h[j] <= h[m]
      <4>1. h[j] \in Nat
        OBVIOUS
      <4> QED BY <2>1, <2>2, <2>3, <2>5, <4>1
    <3> QED BY <2>2, <3>1
  <2> QED BY <2>2, <2>4, <2>5
<1> HIDE DEF T
<1>3. \A m \in 0..n : m \in T
  BY <1>1, <1>2, UpTo
<1>4. n \in T
  BY <1>3
<1> QED BY <1>4 DEF T

LEMMA BarsArePriced ==
  ASSUME NEW s \in AllSlots
  PROVE  BarAt(s).low \in Nat /\ BarAt(s).high \in Nat
<1>1. Price[s] \in [open : Nat, high : Nat, low : Nat, close : Nat]
  BY KlineAssumption
<1> QED BY <1>1 DEF BarAt

LEMMA CombinedHolds ==
  ASSUME NEW start \in Nat, \A s \in start..(start + BucketSlots - 1) : s \in AllSlots,
         NEW s \in start..(start + BucketSlots - 1)
  PROVE  Combined(start).low <= BarAt(s).low /\ BarAt(s).high <= Combined(start).high
<1>1. PICK n \in Nat : n = BucketSlots - 1 /\ start..(start + BucketSlots - 1) = start..(start + n)
  BY BucketSizeIs
<1> DEFINE slots == start..(start + BucketSlots - 1)
           lows == {BarAt(p).low : p \in slots}
           highs == {BarAt(p).high : p \in slots}
<1>2. Combined(start).low = Min(lows) /\ Combined(start).high = Max(highs)
  BY DEF Combined
<1>3. \A p \in slots : BarAt(p).low \in Nat /\ BarAt(p).high \in Nat
  BY BarsArePriced
<1> DEFINE h == [i \in 0..n |-> BarAt(start + i).high]
<1>4. \A i \in 0..n : start + i \in slots
  BY <1>1
<1>5. \A p \in slots : p - start \in 0..n /\ start + (p - start) = p
  BY <1>1
<1> HIDE DEF slots
<1>6. h \in [0..n -> Nat] /\ \A i \in 0..n : h[i] = BarAt(start + i).high
  BY <1>3, <1>4
<1> HIDE DEF h
<1>7. PICK i \in 0..n : \A j \in 0..n : h[j] <= h[i]
  BY <1>6, GreatestOf
<1>8. \A p \in slots : BarAt(p).high <= BarAt(start + i).high
  <2> TAKE p \in slots
  <2>1. h[p - start] <= h[i] /\ h[p - start] = BarAt(p).high
    BY <1>5, <1>6, <1>7
  <2> QED BY <1>6, <2>1
<1>9. highs \in SUBSET Nat /\ BarAt(start + i).high \in highs /\ \A x \in highs : x <= BarAt(start + i).high
  BY <1>3, <1>4, <1>8
<1>10. lows \in SUBSET Nat /\ BarAt(s).low \in lows /\ BarAt(s).high \in highs
  BY <1>3 DEF slots
<1> HIDE DEF highs, lows
<1>11. Min(lows) <= BarAt(s).low
  BY <1>10, MinIs
<1>12. BarAt(s).high <= Max(highs)
  BY <1>9, <1>10, MaxIs
<1> QED BY <1>2, <1>11, <1>12

-----------------------------------------------------------------------------
LEMMA MadeFrom ==
  ASSUME asked \in Int \X Int
  PROVE  LET got == {Loaded[k] : k \in DOMAIN Loaded}
             made == Aggregated(Loaded)
             Once(s) == s \in got /\ s \notin doubled
         IN /\ {made[k].start : k \in DOMAIN made} =
                 {s \in AllSlots : (s - 1) % BucketSlots = 0 /\ \A p \in s..(s + BucketSlots - 1) : Once(p)}
            /\ \A k \in DOMAIN made : /\ made[k] = Combined(made[k].start)
                                     /\ Cardinality({j \in DOMAIN made : made[j].start = made[k].start}) = 1
<1>1. PICK bs \in Seq(Int) : bs = Loaded /\ Rises(bs)
  BY LoadedIs
<1> DEFINE got == {bs[k] : k \in DOMAIN bs}
           starts == {BucketStart(bs[k]) : k \in DOMAIN bs}
           times == [s \in AllSlots |-> IF s \in starts /\ Bucket(bs, s) = Expected(s) THEN 1 ELSE 0]
           whole == Listed(times)
           made == Aggregated(bs)
           Once(s) == s \in got /\ s \notin doubled
           Aligned(s) == (s - 1) % BucketSlots = 0
<1>2. made = [k \in DOMAIN whole |-> Combined(whole[k])]
  BY Zenon DEF Aggregated
<1>3. /\ DOMAIN bs = 1..Len(bs) /\ \A i \in 1..Len(bs) : bs[i] \in AllSlots
      /\ \A s \in AllSlots : s \in Nat \ {0}
  BY <1>1, LoadedIs DEF AllSlots
<1>4. times \in [AllSlots -> Nat]
  OBVIOUS
<1>5. \A s \in AllSlots : times[s] # 0 <=> s \in starts /\ Bucket(bs, s) = Expected(s)
  OBVIOUS
<1> HIDE DEF times, made
<1>6. /\ whole \in Seq(Int) /\ \A s \in AllSlots : Times(whole, s) = times[s]
      /\ \A i \in 1..Len(whole) : whole[i] \in AllSlots
  BY <1>4, ListedIs
<1> HIDE DEF whole
<1>7. DOMAIN whole = 1..Len(whole) /\ DOMAIN made = 1..Len(whole)
  BY <1>2, <1>6
<1>8. \A k \in DOMAIN made : made[k] = Combined(whole[k]) /\ made[k].start = whole[k]
  BY <1>2, <1>7 DEF Combined
<1>9. ASSUME NEW s \in AllSlots
      PROVE  (\E k \in DOMAIN made : made[k].start = s) <=> s \in starts /\ Bucket(bs, s) = Expected(s)
  <2>1. Times(whole, s) # 0 <=> \E k \in 1..Len(whole) : whole[k] = s
    BY <1>6, TimesIsNat
  <2> QED BY <1>5, <1>6, <1>7, <1>8, <2>1
<1>10. ASSUME NEW s \in AllSlots
       PROVE  s \in starts /\ Bucket(bs, s) = Expected(s) <=>
                Aligned(s) /\ \A p \in s..(s + BucketSlots - 1) : Once(p)
  <2>1. s \in Nat \ {0}
    BY <1>3
  <2>2. s \in starts => Aligned(s)
    <3> SUFFICES ASSUME NEW k \in DOMAIN bs, s = BucketStart(bs[k]) PROVE Aligned(s)
      OBVIOUS
    <3>1. bs[k] \in Nat \ {0}
      BY <1>3
    <3> QED BY <3>1, BucketStartIs
  <2>3. \A p : Times(bs, p) = 1 <=> Once(p)
    <3> TAKE p
    <3>1. CASE p \in AllSlots
      BY <1>1, <3>1, GotIs
    <3>2. CASE p \notin AllSlots
      <4>1. p \notin got /\ Times(bs, p) = 0
        <5>1. \A i \in 1..Len(bs) : bs[i] # p
          BY <1>3, <3>2
        <5> QED BY <1>3, <5>1, TimesIsNat
      <4> QED BY <4>1
    <3> QED BY <3>1, <3>2
  <2>4. ASSUME Aligned(s)
        PROVE  Bucket(bs, s) = Expected(s) <=> \A p \in s..(s + BucketSlots - 1) : Once(p)
    <3>1. \A i \in 1..Len(bs) : bs[i] \in Nat \ {0}
      BY <1>3
    <3>2. Bucket(bs, s) = Expected(s) <=> \A p \in s..(s + BucketSlots - 1) : Times(bs, p) = 1
      BY <1>1, <2>1, <2>4, <3>1, BucketWhole
    <3> HIDE DEF Once
    <3> QED BY <2>3, <3>2
  <2>5. ASSUME Aligned(s), \A p \in s..(s + BucketSlots - 1) : Once(p) PROVE s \in starts
    <3>1. s \in s..(s + BucketSlots - 1)
      BY <2>1, BucketSizeIs
    <3>2. PICK k \in DOMAIN bs : bs[k] = s
      BY <2>5, <3>1
    <3>3. BucketStart(s) = s
      BY <2>1, <2>5, <3>1, SameBucket
    <3> QED BY <3>2, <3>3
  <2> HIDE DEF Aligned, Once, starts
  <2> QED BY <2>2, <2>4, <2>5
<1>11. \A k \in DOMAIN made : made[k].start \in AllSlots
  BY <1>6, <1>7, <1>8
<1>12. {made[k].start : k \in DOMAIN made} =
         {s \in AllSlots : Aligned(s) /\ \A p \in s..(s + BucketSlots - 1) : Once(p)}
  <2> HIDE DEF Aligned, Once, starts
  <2> QED BY <1>9, <1>10, <1>11
<1>13. ASSUME NEW k \in DOMAIN made
       PROVE  /\ made[k] = Combined(made[k].start)
              /\ Cardinality({j \in DOMAIN made : made[j].start = made[k].start}) = 1
  <2>1. PICK s \in AllSlots : s = whole[k] /\ made[k].start = s /\ made[k] = Combined(s)
    BY <1>6, <1>7, <1>8
  <2>2. {j \in DOMAIN made : made[j].start = s} = {j \in DOMAIN whole : whole[j] = s}
    BY <1>7, <1>8
  <2>3. Times(whole, s) = times[s]
    BY <1>6
  <2>4. times[s] = 1
    <3>1. s \in starts /\ Bucket(bs, s) = Expected(s)
      BY <1>9, <2>1
    <3> QED BY <3>1 DEF times
  <2> QED BY <2>1, <2>2, <2>3, <2>4 DEF Times
<1>14. made = Aggregated(Loaded) /\ got = {Loaded[k] : k \in DOMAIN Loaded}
  BY <1>1 DEF made
<1> HIDE DEF got
<1> QED BY <1>12, <1>13, <1>14

(* Whatever is published, and for every calendar of months, every number   *)
(* of bars in a day and in a bucket: a load has every day from one file    *)
(* and every bar the archives have, a strict load has no hole, a bar is    *)
(* only aggregated from parts that are all there, once, and exactly one is *)
(* from such parts if they are sound (aggregate_klines).                   *)
THEOREM HistoryIsWhole == asked \in Int \X Int => HistoryWhole
<1> SUFFICES ASSUME asked \in Int \X Int PROVE HistoryWhole
  OBVIOUS
<1> DEFINE got == {Loaded[k] : k \in DOMAIN Loaded}
           made == Aggregated(Loaded)
           AllOnce(start) == \A p \in Parts(start) : p \in got /\ p \notin doubled
           aligned == {s \in AllSlots : (s - 1) % BucketSlots = 0}
           sound == {s \in aligned : \A p \in Parts(s) : Sound(p)}
           Of(s) == {k \in DOMAIN made : made[k].start = s}
<1>1. ASSUME NEW d \in AllDays
      PROVE  Cardinality({k \in DOMAIN Downloaded : d \in Downloaded[k].days}) =
               IF d \in asked[1]..asked[2] THEN 1 ELSE 0
  <2>1. DOMAIN Downloaded = 1..Len(Downloaded)
    BY DaysOnce
  <2>2. CASE d \in asked[1]..asked[2]
    <3>1. PICK h \in 1..Len(Downloaded) : \A j \in 1..Len(Downloaded) : d \in Downloaded[j].days <=> j = h
      BY <2>2, DaysOnce DEF OnceIn
    <3>2. {k \in DOMAIN Downloaded : d \in Downloaded[k].days} = {h}
      BY <2>1, <3>1
    <3> QED BY <2>2, <3>2, FS_Singleton
  <2>3. CASE d \notin asked[1]..asked[2]
    <3>1. {k \in DOMAIN Downloaded : d \in Downloaded[k].days} = {}
      BY <2>1, <2>3, DaysOnce DEF NeverIn
    <3> QED BY <2>3, <3>1, FS_EmptySet
  <2> QED BY <2>2, <2>3
<1>2. got = {s \in AllSlots \ missing : DayOf(s) \in asked[1]..asked[2]}
  BY GotIs
<1>3. ValidRange(Loaded) => got = {} \/ got = Min(got)..Max(got)
  <2>1. ValidRange(Loaded) => Gaps(Loaded) = {}
    BY DEF ValidRange
  <2>2. \A i \in 1..Len(Loaded) : Loaded[i] \in 1..(SlotsPerDay * LastOfDays)
    BY LoadedIs, SlotsAre
  <2> QED BY <2>1, <2>2, LoadedIs, SlotsAre, NoHole
<1>4. /\ {made[k].start : k \in DOMAIN made} = {s \in aligned : AllOnce(s)}
      /\ \A k \in DOMAIN made : made[k] = Combined(made[k].start) /\ Cardinality(Of(made[k].start)) = 1
  <2>1. {s \in AllSlots : (s - 1) % BucketSlots = 0 /\ AllOnce(s)} = {s \in aligned : AllOnce(s)}
    OBVIOUS
  <2> QED BY <2>1, MadeFrom DEF Parts
<1> HIDE DEF made
<1>5. \A k \in DOMAIN made : made[k].start \in aligned /\ AllOnce(made[k].start)
  <2> HIDE DEF aligned, AllOnce
  <2> QED BY <1>4
<1>6. \A s \in sound : AllOnce(s) => Cardinality(Of(s)) = 1
  <2> TAKE s \in sound
  <2>1. s \in aligned
    OBVIOUS
  <2> HIDE DEF aligned, AllOnce, sound
  <2>2. AllOnce(s) => \E k \in DOMAIN made : made[k].start = s
    BY <1>4, <2>1
  <2> QED BY <1>4, <2>2
<1>7. ASSUME NEW k \in DOMAIN made, NEW p \in Parts(made[k].start)
      PROVE  made[k].low <= BarAt(p).low /\ BarAt(p).high <= made[k].high
  <2>1. PICK start : start = made[k].start
    OBVIOUS
  <2>2. start \in AllSlots /\ AllOnce(start)
    BY <1>5, <2>1
  <2>3. \A s \in Parts(start) : s \in AllSlots
    BY <1>2, <2>2
  <2>4. start \in Nat
    BY <2>2 DEF AllSlots
  <2>5. Combined(start).low <= BarAt(p).low /\ BarAt(p).high <= Combined(start).high
    BY <2>1, <2>3, <2>4, CombinedHolds DEF Parts
  <2> QED BY <1>4, <2>1, <2>5
<1> HIDE DEF got
<1> QED BY <1>1, <1>2, <1>3, <1>5, <1>6, <1>7, Zenon DEF HistoryWhole, got, made
=============================================================================
