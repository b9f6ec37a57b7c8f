-------------------------- MODULE Strategies_proofs --------------------------
(***************************************************************************)
(* The three live strategies, for all prices, levels and plans: each of    *)
(* their answers is one the monitor's model allows, and a trade keeps to   *)
(* the plan, or the dips, it is based on.  And the candles they read: the   *)
(* newest closed ones, for every cache and any number of restarts, while   *)
(* fewer connections were lost than candles are asked for.  And the        *)
(* replayable rules, for every history and publication: what they find at  *)
(* a time they find, the same, as soon as all it is made of is known.      *)
(***************************************************************************)
EXTENDS Strategies, CandleFeed, CryptoMicro, Recursion, SequenceTheorems, FiniteSetTheorems

Level == {"L2", "L3", "L4"}

(* The levels of one candle are appended to those of its first look.       *)
LEMMA Appended ==
  /\ <<>> \o <<"L2">> = <<"L2">> /\ <<>> \o <<"L3">> = <<"L3">> /\ <<>> \o <<"L4">> = <<"L4">>
  /\ <<"L2">> \o <<"L2">> = <<"L2", "L2">> /\ <<"L2">> \o <<"L3">> = <<"L2", "L3">>
  /\ <<"L2">> \o <<"L4">> = <<"L2", "L4">>
<1>1. ASSUME NEW a \in Level PROVE <<>> \o <<a>> = <<a>>
  OBVIOUS
<1>2. ASSUME NEW a \in Level, NEW b \in Level PROVE <<a>> \o <<b>> = <<a, b>>
  <2>1. <<a>> \in Seq(Level) /\ <<b>> \in Seq(Level) /\ <<a, b>> \in Seq(Level)
    OBVIOUS
  <2>2. /\ Len(<<a>>) = 1 /\ Len(<<b>>) = 1 /\ Len(<<a, b>>) = 2
        /\ <<a>>[1] = a /\ <<b>>[1] = b /\ <<a, b>>[1] = a /\ <<a, b>>[2] = b
    OBVIOUS
  <2>3. /\ <<a>> \o <<b>> \in Seq(Level) /\ Len(<<a>> \o <<b>>) = 2
        /\ (<<a>> \o <<b>>)[1] = a /\ (<<a>> \o <<b>>)[2] = b
    BY <2>1, <2>2
  <2>4. \A i \in 1..2 : (<<a>> \o <<b>>)[i] = <<a, b>>[i]
    BY <2>2, <2>3
  <2>5. QED
    BY <2>1, <2>2, <2>3, <2>4, SeqEqual
<1>3. "L2" \in Level /\ "L3" \in Level /\ "L4" \in Level
  BY DEF Level
<1>4. QED
  BY <1>1, <1>2, <1>3, Zenon

-----------------------------------------------------------------------------
(* The state of a strategy, and what the base class does to it.            *)
State == [state : StrategyStates, entered : Nat, last : {NoTrade, Id}]

LEMMA StateChanges ==
  ASSUME NEW s \in State, NEW t \in Nat
  PROVE  /\ Unlock(s) \in State /\ Watch(s, t) \in State /\ Refuse(s, t) \in State
         /\ Enter(s, t, Id) \in State /\ TimeStop(s, t) \in State
         /\ MakeSignal(s, NoTrade) \in State /\ OnSignalResolved(s, Id, t) \in State
         /\ Refuse(s, t).state = "INVALID" /\ Enter(s, t, Id).state = "TRIGGERED"
         /\ TimeStop(s, t).state = "EXPIRED" /\ MakeSignal(s, NoTrade).state = s.state
         /\ Watch(s, t).state = "WATCHING"
         /\ OnSignalResolved(s, Id, t).state \in {"COOLDOWN", s.state}
<1> USE DEF State, StrategyStates, NoTrade, Id
<1>1. ASSUME NEW x \in StrategyStates
      PROVE  SetState(s, x, t) \in State /\ SetState(s, x, t).state = x
  BY <1>1 DEF SetState
<1>2. ASSUME NEW r \in State, NEW id \in {NoTrade, Id}
      PROVE  MakeSignal(r, id) \in State /\ MakeSignal(r, id).state = r.state
  BY <1>2 DEF MakeSignal
<1>3. Unlock(s) \in State
  BY DEF Unlock, Fresh
<1>4. OnSignalResolved(s, Id, t) \in State /\ OnSignalResolved(s, Id, t).state \in {"COOLDOWN", s.state}
  BY DEF OnSignalResolved
<1>5. {"WATCHING", "INVALID", "TRIGGERED", "EXPIRED"} \subseteq StrategyStates
  OBVIOUS
<1> HIDE DEF State, StrategyStates
<1>6. QED
  BY <1>1, <1>2, <1>3, <1>4, <1>5 DEF Watch, Refuse, Enter, TimeStop

(* Looking again at a level that is watched changes nothing but the id of  *)
(* the latest signal.                                                      *)
LEMMA WatchedAgain ==
  ASSUME NEW s \in State, s.state = "WATCHING", NEW t \in Nat
  PROVE  MakeSignal(s, NoTrade) = Watch(s, t)
<1>1. SetState(s, "WATCHING", t) = s
  <2>1. SetState(s, "WATCHING", t) = [s EXCEPT !.state = "WATCHING", !.entered = s.entered]
    <3>1. (CASE s.state = "WATCHING" -> s.entered
             [] "WATCHING" \in Entered \cup Terminal -> t
             [] OTHER -> 0) = s.entered
      BY DEF Entered, Terminal
    <3>2. QED
      BY <3>1 DEF SetState
  <2>2. [s EXCEPT !.state = "WATCHING", !.entered = s.entered] = s
    BY DEF State
  <2>3. QED
    BY <2>1, <2>2
<1>2. QED
  BY <1>1 DEF Watch

LEMMA WatchTwice ==
  ASSUME NEW s \in State, NEW t \in Nat
  PROVE  MakeSignal(Watch(s, t), NoTrade) = Watch(s, t)
<1>1. SetState(s, "WATCHING", t) \in State
  BY DEF SetState, State, StrategyStates
<1>2. QED
  BY <1>1 DEF Watch, MakeSignal, State

(* What the conditions of a strategy may answer once it is not locked.     *)
LEMMA FreeAnswer ==
  ASSUME NEW t, Unlocked(t)
  PROVE  Reactions(st, t, Id, Hold, Cooldown) = FreeReactions(Unlock(st), t, Id)
BY DEF Unlocked, Reactions

LEMMA HeadAnswer ==
  ASSUME NEW t, TimeStopped(t) \/ Locked(t)
  PROVE  Reaction(st', levels') \in Reactions(st, t, Id, Hold, Cooldown)
<1>1. CASE TimeStopped(t)
  BY <1>1 DEF TimeStopped, Reactions, Answer
<1>2. CASE Locked(t)
  BY <1>2 DEF Locked, Reactions, Answer
<1>3. QED
  BY <1>1, <1>2

(* The answers of a strategy that watches: s is its state before or after  *)
(* a first look, which has left the levels first.                          *)
FirstLook(u, t, s, first) ==
  \/ s = u /\ first = <<>>
  \/ s = Watch(u, t) /\ first = <<"L2">>

LEMMA LookedOnly ==
  ASSUME NEW u, NEW t, NEW s, NEW first, FirstLook(u, t, s, first)
  PROVE  Reaction(s, first) \in FreeReactions(u, t, Id)
BY DEF FirstLook, FreeReactions

LEMMA LookedAndRefused ==
  ASSUME NEW u, NEW t, NEW s, NEW first, FirstLook(u, t, s, first)
  PROVE  /\ Reaction(Refuse(s, t), first \o <<"L4">>) \in FreeReactions(u, t, Id)
         /\ Reaction(Refuse(s, t), <<"L4">>) \in FreeReactions(u, t, Id)
<1>1. CASE s = u /\ first = <<>>
  BY <1>1, Appended DEF FreeReactions
<1>2. CASE s = Watch(u, t) /\ first = <<"L2">>
  BY <1>2, Appended DEF FreeReactions
<1>3. QED
  BY <1>1, <1>2 DEF FirstLook

LEMMA LookedAndTraded ==
  ASSUME NEW u \in State, NEW t \in Nat, NEW s, NEW first, FirstLook(u, t, s, first),
         s = u => u.state = "WATCHING"
  PROVE  /\ Reaction(Enter(s, t, Id), first \o <<"L3">>) \in FreeReactions(u, t, Id)
         /\ Reaction(MakeSignal(s, NoTrade), first \o <<"L2">>) \in FreeReactions(u, t, Id)
<1>1. CASE s = u /\ first = <<>>
  <2>1. first \o <<"L3">> = <<"L3">> /\ first \o <<"L2">> = <<"L2">>
    BY <1>1, Appended
  <2>2. MakeSignal(s, NoTrade) = Watch(u, t)
    BY <1>1, WatchedAgain
  <2>3. QED
    BY <1>1, <2>1, <2>2 DEF FreeReactions
<1>2. CASE s = Watch(u, t) /\ first = <<"L2">>
  <2>1. first \o <<"L3">> = <<"L2", "L3">> /\ first \o <<"L2">> = <<"L2", "L2">>
    BY <1>2, Appended
  <2>2. MakeSignal(s, NoTrade) = Watch(u, t)
    BY <1>2, WatchTwice
  <2>3. QED
    BY <1>2, <2>1, <2>2 DEF FreeReactions
<1>3. QED
  BY <1>1, <1>2 DEF FirstLook

-----------------------------------------------------------------------------
(* What all three keep: the types of the head they share.                  *)
HeadOK == now \in Nat /\ st \in State

LEMMA LaterType ==
  ASSUME HeadOK, NEW t, Later(t)
  PROVE  t \in Nat /\ now' = t
BY LiveAssumption DEF HeadOK, Later

LEMMA HeadKept ==
  ASSUME HeadOK, NEW t \in Nat, now' = t, TimeStopped(t) \/ Locked(t)
  PROVE  HeadOK' /\ ctx' = ctx /\ trade' = <<>>
                 /\ (st' = st \/ st'.state = "EXPIRED")
BY StateChanges DEF HeadOK, TimeStopped, Locked, Answer

LEMMA ResolvedKept ==
  ASSUME HeadOK, NEW nothing, Resolved(nothing)
  PROVE  HeadOK' /\ ctx' = nothing /\ trade' = <<>>
BY StateChanges DEF HeadOK, Resolved

-----------------------------------------------------------------------------
(* The head each of them instantiates is this one.                         *)
LEMMA Cm2Head ==
  /\ Cm2!Id = Id /\ Cm2!NoTrade = NoTrade
  /\ \A s : Cm2!Unlock(s) = Unlock(s)
  /\ \A s, t : /\ Cm2!Watch(s, t) = Watch(s, t) /\ Cm2!Refuse(s, t) = Refuse(s, t)
               /\ Cm2!Enter(s, t, Id) = Enter(s, t, Id) /\ Cm2!TimeStop(s, t) = TimeStop(s, t)
  /\ \A s, i : Cm2!MakeSignal(s, i) = MakeSignal(s, i)
  /\ \A s, c, ls, tr, small : Cm2!Answer(s, c, ls, tr, small) <=> Answer(s, c, ls, tr, small)
  /\ \A t : /\ Cm2!Later(t) <=> Later(t)
            /\ Cm2!TimeStopped(t) <=> TimeStopped(t)
            /\ (Cm2!Locked(t) <=> Locked(t)) /\ (Cm2!Unlocked(t) <=> Unlocked(t))
  /\ \A n : /\ Cm2!LiveInit(n) <=> LiveInit(n)
            /\ Cm2!Context(n) = Context(n) /\ (Cm2!Resolved(n) <=> Resolved(n))
  /\ \A x, y, b : Cm2!RewardEnough(x, y, b) <=> RewardEnough(x, y, b)
  /\ \A x, b, y : Cm2!Reward2(x, b, y) = Reward2(x, b, y)
<1>1. /\ Cm2!Id = Id /\ Cm2!NoTrade = NoTrade /\ Cm2!Fresh = Fresh
      /\ Cm2!Entered = Entered /\ Cm2!Terminal = Terminal
  BY DEF Cm2!Id, Id, Cm2!NoTrade, NoTrade, Cm2!Fresh, Fresh, Cm2!Entered,
         Entered, Cm2!Terminal, Terminal
<1>2. \A s, x, t : Cm2!SetState(s, x, t) = SetState(s, x, t)
  BY <1>1 DEF Cm2!SetState, SetState
<1>3. \A s, i : Cm2!MakeSignal(s, i) = MakeSignal(s, i)
  BY DEF Cm2!MakeSignal, MakeSignal
<1>4. \A s : Cm2!Unlock(s) = Unlock(s)
  BY <1>1 DEF Cm2!Unlock, Unlock
<1>5. \A s, t : /\ Cm2!Watch(s, t) = Watch(s, t) /\ Cm2!Refuse(s, t) = Refuse(s, t)
                /\ Cm2!Enter(s, t, Id) = Enter(s, t, Id) /\ Cm2!TimeStop(s, t) = TimeStop(s, t)
  BY <1>1, <1>2, <1>3 DEF Cm2!Watch, Watch, Cm2!Refuse, Refuse, Cm2!Enter, Enter,
                          Cm2!TimeStop, TimeStop
<1>6. \A s, c, ls, tr, small : Cm2!Answer(s, c, ls, tr, small) <=> Answer(s, c, ls, tr, small)
  BY DEF Cm2!Answer, Answer
<1>7. \A s, t, h : /\ Cm2!TimeStopDue(s, t, h) <=> TimeStopDue(s, t, h)
                   /\ Cm2!EntryLocked(s, t, h) <=> EntryLocked(s, t, h)
  BY <1>1 DEF Cm2!TimeStopDue, TimeStopDue, Cm2!EntryLocked, EntryLocked
<1>8. \A t : /\ Cm2!Later(t) <=> Later(t)
             /\ Cm2!TimeStopped(t) <=> TimeStopped(t)
             /\ (Cm2!Locked(t) <=> Locked(t)) /\ (Cm2!Unlocked(t) <=> Unlocked(t))
  BY <1>5, <1>6, <1>7 DEF Cm2!Later, Later, Cm2!TimeStopped, TimeStopped, Cm2!Locked, Locked,
                          Cm2!Unlocked, Unlocked
<1>9. \A s, t : Cm2!OnSignalResolved(s, Id, t) = OnSignalResolved(s, Id, t)
  BY <1>1 DEF Cm2!OnSignalResolved, OnSignalResolved
<1>10. \A n : /\ Cm2!LiveInit(n) <=> LiveInit(n)
              /\ Cm2!Context(n) = Context(n) /\ (Cm2!Resolved(n) <=> Resolved(n))
  BY <1>1, <1>9 DEF Cm2!LiveInit, LiveInit, Cm2!Context, Context, Cm2!Resolved, Resolved
<1>11. \A x, y, b : Cm2!RewardEnough(x, y, b) <=> RewardEnough(x, y, b)
  BY DEF Cm2!RewardEnough, RewardEnough
<1>12. \A x, b, y : Cm2!Reward2(x, b, y) = Reward2(x, b, y)
  BY DEF Cm2!Reward2, Reward2
<1>13. QED
  BY <1>1, <1>3, <1>4, <1>5, <1>6, <1>8, <1>10, <1>11, <1>12, Zenon

LEMMA Cm3Head ==
  /\ Cm3!Id = Id /\ Cm3!NoTrade = NoTrade
  /\ \A s : Cm3!Unlock(s) = Unlock(s)
  /\ \A s, t : /\ Cm3!Watch(s, t) = Watch(s, t) /\ Cm3!Refuse(s, t) = Refuse(s, t)
               /\ Cm3!Enter(s, t, Id) = Enter(s, t, Id) /\ Cm3!TimeStop(s, t) = TimeStop(s, t)
  /\ \A s, i : Cm3!MakeSignal(s, i) = MakeSignal(s, i)
  /\ \A s, c, ls, tr, small : Cm3!Answer(s, c, ls, tr, small) <=> Answer(s, c, ls, tr, small)
  /\ \A t : /\ Cm3!Later(t) <=> Later(t)
            /\ Cm3!TimeStopped(t) <=> TimeStopped(t)
            /\ (Cm3!Locked(t) <=> Locked(t)) /\ (Cm3!Unlocked(t) <=> Unlocked(t))
  /\ \A n : /\ Cm3!LiveInit(n) <=> LiveInit(n)
            /\ Cm3!Context(n) = Context(n) /\ (Cm3!Resolved(n) <=> Resolved(n))
  /\ \A x, y, b : Cm3!RewardEnough(x, y, b) <=> RewardEnough(x, y, b)
  /\ \A x, b, y : Cm3!Reward2(x, b, y) = Reward2(x, b, y)
<1>1. /\ Cm3!Id = Id /\ Cm3!NoTrade = NoTrade /\ Cm3!Fresh = Fresh
      /\ Cm3!Entered = Entered /\ Cm3!Terminal = Terminal
  BY DEF Cm3!Id, Id, Cm3!NoTrade, NoTrade, Cm3!Fresh, Fresh, Cm3!Entered,
         Entered, Cm3!Terminal, Terminal
<1>2. \A s, x, t : Cm3!SetState(s, x, t) = SetState(s, x, t)
  BY <1>1 DEF Cm3!SetState, SetState
<1>3. \A s, i : Cm3!MakeSignal(s, i) = MakeSignal(s, i)
  BY DEF Cm3!MakeSignal, MakeSignal
<1>4. \A s : Cm3!Unlock(s) = Unlock(s)
  BY <1>1 DEF Cm3!Unlock, Unlock
<1>5. \A s, t : /\ Cm3!Watch(s, t) = Watch(s, t) /\ Cm3!Refuse(s, t) = Refuse(s, t)
                /\ Cm3!Enter(s, t, Id) = Enter(s, t, Id) /\ Cm3!TimeStop(s, t) = TimeStop(s, t)
  BY <1>1, <1>2, <1>3 DEF Cm3!Watch, Watch, Cm3!Refuse, Refuse, Cm3!Enter, Enter,
                          Cm3!TimeStop, TimeStop
<1>6. \A s, c, ls, tr, small : Cm3!Answer(s, c, ls, tr, small) <=> Answer(s, c, ls, tr, small)
  BY DEF Cm3!Answer, Answer
<1>7. \A s, t, h : /\ Cm3!TimeStopDue(s, t, h) <=> TimeStopDue(s, t, h)
                   /\ Cm3!EntryLocked(s, t, h) <=> EntryLocked(s, t, h)
  BY <1>1 DEF Cm3!TimeStopDue, TimeStopDue, Cm3!EntryLocked, EntryLocked
<1>8. \A t : /\ Cm3!Later(t) <=> Later(t)
             /\ Cm3!TimeStopped(t) <=> TimeStopped(t)
             /\ (Cm3!Locked(t) <=> Locked(t)) /\ (Cm3!Unlocked(t) <=> Unlocked(t))
  BY <1>5, <1>6, <1>7 DEF Cm3!Later, Later, Cm3!TimeStopped, TimeStopped, Cm3!Locked, Locked,
                          Cm3!Unlocked, Unlocked
<1>9. \A s, t : Cm3!OnSignalResolved(s, Id, t) = OnSignalResolved(s, Id, t)
  BY <1>1 DEF Cm3!OnSignalResolved, OnSignalResolved
<1>10. \A n : /\ Cm3!LiveInit(n) <=> LiveInit(n)
              /\ Cm3!Context(n) = Context(n) /\ (Cm3!Resolved(n) <=> Resolved(n))
  BY <1>1, <1>9 DEF Cm3!LiveInit, LiveInit, Cm3!Context, Context, Cm3!Resolved, Resolved
<1>11. \A x, y, b : Cm3!RewardEnough(x, y, b) <=> RewardEnough(x, y, b)
  BY DEF Cm3!RewardEnough, RewardEnough
<1>12. \A x, b, y : Cm3!Reward2(x, b, y) = Reward2(x, b, y)
  BY DEF Cm3!Reward2, Reward2
<1>13. QED
  BY <1>1, <1>3, <1>4, <1>5, <1>6, <1>8, <1>10, <1>11, <1>12, Zenon

LEMMA StandHead ==
  /\ Stand!Id = Id /\ Stand!NoTrade = NoTrade
  /\ \A s : Stand!Unlock(s) = Unlock(s)
  /\ \A s, t : /\ Stand!Watch(s, t) = Watch(s, t) /\ Stand!Refuse(s, t) = Refuse(s, t)
               /\ Stand!Enter(s, t, Id) = Enter(s, t, Id) /\ Stand!TimeStop(s, t) = TimeStop(s, t)
  /\ \A s, i : Stand!MakeSignal(s, i) = MakeSignal(s, i)
  /\ \A s, c, ls, tr, small : Stand!Answer(s, c, ls, tr, small) <=> Answer(s, c, ls, tr, small)
  /\ \A t : /\ Stand!Later(t) <=> Later(t)
            /\ Stand!TimeStopped(t) <=> TimeStopped(t)
            /\ (Stand!Locked(t) <=> Locked(t)) /\ (Stand!Unlocked(t) <=> Unlocked(t))
  /\ \A n : /\ Stand!LiveInit(n) <=> LiveInit(n)
            /\ Stand!Context(n) = Context(n) /\ (Stand!Resolved(n) <=> Resolved(n))
  /\ \A x, y, b : Stand!RewardEnough(x, y, b) <=> RewardEnough(x, y, b)
  /\ \A x, b, y : Stand!Reward2(x, b, y) = Reward2(x, b, y)
<1>1. /\ Stand!Id = Id /\ Stand!NoTrade = NoTrade /\ Stand!Fresh = Fresh
      /\ Stand!Entered = Entered /\ Stand!Terminal = Terminal
  BY DEF Stand!Id, Id, Stand!NoTrade, NoTrade, Stand!Fresh, Fresh,
         Stand!Entered, Entered, Stand!Terminal, Terminal
<1>2. \A s, x, t : Stand!SetState(s, x, t) = SetState(s, x, t)
  BY <1>1 DEF Stand!SetState, SetState
<1>3. \A s, i : Stand!MakeSignal(s, i) = MakeSignal(s, i)
  BY DEF Stand!MakeSignal, MakeSignal
<1>4. \A s : Stand!Unlock(s) = Unlock(s)
  BY <1>1 DEF Stand!Unlock, Unlock
<1>5. \A s, t : /\ Stand!Watch(s, t) = Watch(s, t) /\ Stand!Refuse(s, t) = Refuse(s, t)
                /\ Stand!Enter(s, t, Id) = Enter(s, t, Id) /\ Stand!TimeStop(s, t) = TimeStop(s, t)
  BY <1>1, <1>2, <1>3 DEF Stand!Watch, Watch, Stand!Refuse, Refuse, Stand!Enter, Enter,
                          Stand!TimeStop, TimeStop
<1>6. \A s, c, ls, tr, small : Stand!Answer(s, c, ls, tr, small) <=> Answer(s, c, ls, tr, small)
  BY DEF Stand!Answer, Answer
<1>7. \A s, t, h : /\ Stand!TimeStopDue(s, t, h) <=> TimeStopDue(s, t, h)
                   /\ Stand!EntryLocked(s, t, h) <=> EntryLocked(s, t, h)
  BY <1>1 DEF Stand!TimeStopDue, TimeStopDue, Stand!EntryLocked, EntryLocked
<1>8. \A t : /\ Stand!Later(t) <=> Later(t)
             /\ Stand!TimeStopped(t) <=> TimeStopped(t)
             /\ (Stand!Locked(t) <=> Locked(t)) /\ (Stand!Unlocked(t) <=> Unlocked(t))
  BY <1>5, <1>6, <1>7 DEF Stand!Later, Later, Stand!TimeStopped, TimeStopped, Stand!Locked, Locked,
                          Stand!Unlocked, Unlocked
<1>9. \A s, t : Stand!OnSignalResolved(s, Id, t) = OnSignalResolved(s, Id, t)
  BY <1>1 DEF Stand!OnSignalResolved, OnSignalResolved
<1>10. \A n : /\ Stand!LiveInit(n) <=> LiveInit(n)
              /\ Stand!Context(n) = Context(n) /\ (Stand!Resolved(n) <=> Resolved(n))
  BY <1>1, <1>9 DEF Stand!LiveInit, LiveInit, Stand!Context, Context, Stand!Resolved, Resolved
<1>11. \A x, y, b : Stand!RewardEnough(x, y, b) <=> RewardEnough(x, y, b)
  BY DEF Stand!RewardEnough, RewardEnough
<1>12. \A x, b, y : Stand!Reward2(x, b, y) = Reward2(x, b, y)
  BY DEF Stand!Reward2, Reward2
<1>13. QED
  BY <1>1, <1>3, <1>4, <1>5, <1>6, <1>8, <1>10, <1>11, <1>12, Zenon

-----------------------------------------------------------------------------
(* PullbackFailShort.                                                      *)
Cm2Zone == [low : Int, high : Int, fail : Int, invalid : Int]

(* What was touched is watched, traded or over, it is what the history     *)
(* says, and if it is a plan, the plan's levels and target apply.          *)
Cm2Touch(s, c, z) ==
  c.touched => /\ s.state \in {"WATCHING"} \cup Entered \cup Terminal
               /\ c.zone = z
               /\ z \in {Cm2!Plan(r) : r \in Cm2References} => c.dynamic

Cm2Inv ==
  /\ HeadOK
  /\ ctx \in [touched : BOOLEAN, zone : Cm2Zone, dynamic : BOOLEAN]
  /\ Cm2Touch(st, ctx, touch)
  /\ Cm2!TradeKeepsPlan

(* A configured zone is no plan: a plan leaves room below its fail level.  *)
LEMMA PlansAreNotFixed ==
  ASSUME NEW r \in Cm2References
  PROVE  /\ Cm2!Plan(r) \in Cm2Zone /\ Cm2!Plan(r) # Cm2!NoPlan
         /\ Cm2!Plan(r) # Cm2!Zone1 /\ Cm2!Plan(r) # Cm2!Zone2
<1>1. PICK k \in Nat \ {0} : Cm2Atr = 20 * k
  BY Cm2Assumption
<1>2. /\ (Cm2Atr * 4) \div 20 = 4 * k /\ (Cm2Atr * 5) \div 20 = 5 * k
      /\ (Cm2Atr * 3) \div 20 = 3 * k /\ (Cm2Atr * 15) \div 20 = 15 * k
  BY <1>1
<1>3. Cm2!Plan(r) = [low |-> r - 4 * k, high |-> r + 5 * k, fail |-> r - 3 * k, invalid |-> r + 15 * k]
  BY <1>2 DEF Cm2!Plan
<1>4. r \in Int
  BY Cm2Assumption
<1>5. QED
  BY <1>1, <1>3, <1>4 DEF Cm2Zone, Cm2!NoPlan, Cm2!Zone1, Cm2!Zone2, Cm2!FixedZone

(* The candle is judged in state s with context c, after a first look or   *)
(* without: the answer is allowed, and what it leaves keeps the touch.     *)
LEMMA Cm2Judged ==
  ASSUME HeadOK, NEW t \in Nat, now' = t, NEW k \in Cm2!Candle,
         NEW s \in State, NEW c \in [touched : BOOLEAN, zone : Cm2Zone, dynamic : BOOLEAN],
         NEW first, FirstLook(Unlock(st), t, s, first),
         NEW z, Cm2Touch(s, c, z), c.touched => s.state = "WATCHING",
         Cm2!Judge(k, s, c, first, t), touch' = z
  PROVE  Cm2Inv' /\ Reaction(st', levels') \in FreeReactions(Unlock(st), t, Id)
<1> DEFINE u == Unlock(st)
<1>0. u \in State /\ k.price \in Int
  BY StateChanges, Cm2Assumption DEF HeadOK, Cm2!Candle
<1>1. ASSUME st' \in State, ctx' = c, Cm2!TradeKeepsPlan',
             c.touched => st'.state \in {"WATCHING"} \cup Entered \cup Terminal
      PROVE  Cm2Inv'
  <2>1. HeadOK' /\ Cm2Touch(st', ctx', touch')
    BY <1>1 DEF HeadOK, Cm2Touch
  <2>2. QED
    BY <1>1, <2>1 DEF Cm2Inv, Cm2Touch
<1>2. ASSUME trade' = <<>> PROVE Cm2!TradeKeepsPlan'
  BY <1>2 DEF Cm2!TradeKeepsPlan
<1>3. CASE Answer(Refuse(s, t), c, first \o <<"L4">>, <<>>, FALSE)
  <2>1. st' = Refuse(s, t) /\ levels' = first \o <<"L4">> /\ ctx' = c /\ trade' = <<>>
    BY <1>3 DEF Answer
  <2>2. st' \in State /\ st'.state = "INVALID"
    BY <2>1, StateChanges
  <2>3. Cm2Inv'
    BY <1>1, <1>2, <2>1, <2>2 DEF Terminal
  <2>4. QED
    BY <2>1, <2>3, LookedAndRefused
<1>4. CASE Answer(s, c, first, <<>>, FALSE)
  <2>1. st' = s /\ levels' = first /\ ctx' = c /\ trade' = <<>>
    BY <1>4 DEF Answer
  <2>2. QED
    BY <1>1, <1>2, <2>1, LookedOnly
<1>5. CASE c.touched /\ k.price < c.zone.fail /\ Cm2!GoShort(k, s, c, first, t)
  <2> DEFINE Stop(buffer) == Cm2!StructureStop(c, k.plan) + buffer
             Reward(buffer) == Reward2(Stop(buffer) - k.price, c.dynamic, k.price - Cm2Target1)
             Entry(buffer) == [entry |-> k.price, stop |-> Stop(buffer), reward2 |-> Reward(buffer)]
  <2>1. PICK buffer \in Cm2Buffers, roundsDown \in BOOLEAN :
          IF RewardEnough(Stop(buffer) - k.price, Reward(buffer), roundsDown)
          THEN Answer(Enter(s, t, Id), c, first \o <<"L3">>, <<Entry(buffer)>>, FALSE)
          ELSE Answer(MakeSignal(s, NoTrade), c, first \o <<"L2">>, <<>>, TRUE)
    BY <1>5, Cm2Head DEF Cm2!GoShort
  <2>2. s = u => u.state = "WATCHING"
    BY <1>5
  <2>3. CASE ~RewardEnough(Stop(buffer) - k.price, Reward(buffer), roundsDown)
    <3>1. /\ st' = MakeSignal(s, NoTrade) /\ levels' = first \o <<"L2">>
          /\ ctx' = c /\ trade' = <<>>
      BY <2>1, <2>3 DEF Answer
    <3>2. Cm2Inv'
      BY <1>1, <1>2, <3>1, StateChanges
    <3>3. QED
      BY <1>0, <2>2, <3>1, <3>2, LookedAndTraded
  <2>4. CASE RewardEnough(Stop(buffer) - k.price, Reward(buffer), roundsDown)
    <3> DEFINE e == Entry(buffer)
    <3>1. st' = Enter(s, t, Id) /\ levels' = first \o <<"L3">> /\ ctx' = c /\ trade' = <<e>>
      BY <2>1, <2>4 DEF Answer
    <3>2. ASSUME z \in {Cm2!Plan(r) : r \in Cm2References}
          PROVE  /\ e.entry < z.fail /\ e.stop >= z.invalid
                 /\ e.reward2 >= 3 * (e.stop - e.entry)
      <4>2. c.dynamic /\ c.zone = z /\ z.fail \in Int /\ z.invalid \in Int
        BY <1>5, <3>2 DEF Cm2Touch, Cm2Zone
      <4>3. buffer \in Nat
        BY Cm2Assumption
      <4>4. Stop(buffer) = z.invalid + buffer
        BY <4>2 DEF Cm2!StructureStop
      <4>5. Stop(buffer) \in Int /\ Stop(buffer) >= z.invalid
        BY <4>2, <4>3, <4>4
      <4>6. Reward(buffer) = 3 * (Stop(buffer) - k.price)
        BY <2>4, <4>2 DEF RewardEnough, Reward2
      <4>7. QED
        <5> HIDE DEF Stop, Reward
        <5>1. QED
          BY <1>0, <1>5, <4>2, <4>5, <4>6
    <3> HIDE DEF e
    <3>3. DOMAIN <<e>> = {1} /\ <<e>>[1] = e
      OBVIOUS
    <3>4. Cm2!TradeKeepsPlan'
      BY <3>1, <3>2, <3>3 DEF Cm2!TradeKeepsPlan
    <3>5. st' \in State /\ st'.state = "TRIGGERED"
      BY <3>1, StateChanges
    <3>6. Cm2Inv'
      BY <1>1, <3>1, <3>4, <3>5 DEF Entered
    <3>7. QED
      BY <1>0, <2>2, <3>1, <3>6, LookedAndTraded
  <2>5. QED
    BY <2>3, <2>4
<1>6. \/ Answer(Refuse(s, t), c, first \o <<"L4">>, <<>>, FALSE)
      \/ c.touched /\ k.price < c.zone.fail /\ Cm2!GoShort(k, s, c, first, t)
      \/ Answer(s, c, first, <<>>, FALSE)
  BY Cm2Head DEF Cm2!Judge
<1>7. QED
  BY <1>3, <1>4, <1>5, <1>6

(* What the conditions see of the touch once a state that is over is       *)
(* forgotten.                                                              *)
LEMMA Cm2Remembered ==
  ASSUME Cm2Inv, NEW t, Unlocked(t)
  PROVE  /\ Unlock(st) \in State
         /\ Context(Cm2!Untouched) \in [touched : BOOLEAN, zone : Cm2Zone, dynamic : BOOLEAN]
         /\ Context(Cm2!Untouched).touched =>
              /\ Unlock(st).state = "WATCHING"
              /\ Cm2Touch(Unlock(st), Context(Cm2!Untouched), touch)
<1>1. Unlock(st) \in State
  <2>1. st \in State /\ 0 \in Nat
    BY DEF Cm2Inv, HeadOK
  <2>2. QED
    BY <2>1, StateChanges
<1>2. CASE st.state \in Terminal
  BY <1>1, <1>2 DEF Context, Cm2!Untouched, Cm2!NoPlan, Cm2Zone
<1>3. CASE st.state \notin Terminal
  <2>1. Context(Cm2!Untouched) = ctx /\ Unlock(st) = st
    BY <1>3 DEF Context, Unlock
  <2>2. st.state \notin Entered
    BY DEF Unlocked, EntryLocked
  <2>3. ctx.touched => st.state = "WATCHING"
    BY <1>3, <2>2 DEF Cm2Inv, Cm2Touch
  <2>4. QED
    BY <1>1, <2>1, <2>3 DEF Cm2Inv
<1>4. QED
  BY <1>2, <1>3

(* A zone a candle enters is typed, and dynamic if it is a plan.           *)
LEMMA Cm2Entered ==
  ASSUME NEW k \in Cm2!Candle, NEW c, NEW z \in Cm2!Entering(c, k)
  PROVE  /\ z \in Cm2Zone
         /\ z \in {Cm2!Plan(r) : r \in Cm2References} => k.plan # Cm2!NoPlan
<1>1. k.plan \in Cm2!Plans /\ z \in Cm2!Zones(k.plan)
  BY DEF Cm2!Candle, Cm2!Entering
<1>2. Cm2!Zone1 \in Cm2Zone /\ Cm2!Zone2 \in Cm2Zone
  BY Cm2Assumption DEF Cm2!Zone1, Cm2!Zone2, Cm2!FixedZone, Cm2Zone
<1>3. CASE k.plan = Cm2!NoPlan
  BY <1>1, <1>2, <1>3, PlansAreNotFixed DEF Cm2!Zones
<1>4. CASE k.plan # Cm2!NoPlan
  BY <1>1, <1>4, PlansAreNotFixed DEF Cm2!Zones, Cm2!Plans
<1>5. QED
  BY <1>3, <1>4

LEMMA Cm2Conditions ==
  ASSUME Cm2Inv, NEW t \in Nat, now' = t, Unlocked(t), NEW k \in Cm2!Candle,
         Cm2!Conditions(k, t)
  PROVE  Cm2Inv' /\ Reaction(st', levels') \in Reactions(st, t, Id, Hold, Cooldown)
<1> DEFINE u == Unlock(st)
           c == Context(Cm2!Untouched)
           zones == Cm2!Entering(c, k)
           Touched(z) == [touched |-> TRUE, zone |-> z, dynamic |-> k.plan # Cm2!NoPlan]
<1>1. /\ HeadOK /\ u \in State
      /\ c \in [touched : BOOLEAN, zone : Cm2Zone, dynamic : BOOLEAN]
      /\ c.touched => u.state = "WATCHING" /\ Cm2Touch(u, c, touch)
  BY Cm2Remembered DEF Cm2Inv
<1>2. \/ /\ zones = {} /\ Cm2!Judge(k, u, c, <<>>, t)
         /\ touch' = IF c.touched THEN touch ELSE Cm2!NoPlan
      \/ \E z \in zones : Cm2!Judge(k, Watch(u, t), Touched(z), <<"L2">>, t) /\ touch' = z
  BY Cm2Head DEF Cm2!Conditions
<1>3. CASE Cm2!Judge(k, u, c, <<>>, t) /\ touch' = IF c.touched THEN touch ELSE Cm2!NoPlan
  <2> DEFINE z == IF c.touched THEN touch ELSE Cm2!NoPlan
  <2>1. Cm2Touch(u, c, z) /\ (c.touched => u.state = "WATCHING")
    BY <1>1 DEF Cm2Touch
  <2>2. FirstLook(Unlock(st), t, u, <<>>)
    BY DEF FirstLook
  <2> HIDE DEF u, c, z
  <2>3. Cm2Inv' /\ Reaction(st', levels') \in FreeReactions(Unlock(st), t, Id)
    BY <1>1, <1>3, <2>1, <2>2, Cm2Judged DEF z
  <2>4. QED
    BY <2>3, FreeAnswer
<1>4. ASSUME NEW z \in zones, Cm2!Judge(k, Watch(u, t), Touched(z), <<"L2">>, t), touch' = z
      PROVE  Cm2Inv' /\ Reaction(st', levels') \in Reactions(st, t, Id, Hold, Cooldown)
  <2>1. z \in Cm2Zone /\ (z \in {Cm2!Plan(r) : r \in Cm2References} => k.plan # Cm2!NoPlan)
    BY Cm2Entered
  <2>2. Touched(z) \in [touched : BOOLEAN, zone : Cm2Zone, dynamic : BOOLEAN]
    BY <2>1
  <2>3. Watch(u, t) \in State /\ Watch(u, t).state = "WATCHING"
    BY <1>1, StateChanges
  <2>4. Cm2Touch(Watch(u, t), Touched(z), z)
    BY <2>1, <2>3 DEF Cm2Touch
  <2>5. FirstLook(Unlock(st), t, Watch(u, t), <<"L2">>)
    BY DEF FirstLook
  <2> HIDE DEF u, Touched
  <2>6. Cm2Inv' /\ Reaction(st', levels') \in FreeReactions(Unlock(st), t, Id)
    BY <1>1, <1>4, <2>2, <2>3, <2>4, <2>5, Cm2Judged
  <2>7. QED
    BY <2>6, FreeAnswer
<1>5. QED
  BY <1>2, <1>3, <1>4

LEMMA Cm2Step ==
  ASSUME Cm2Inv, Cm2!Next
  PROVE  /\ Cm2Inv'
         /\ \/ st.last = Id /\ st' = OnSignalResolved(st, Id, now)
            \/ Reaction(st', levels') \in Reactions(st, now', Id, Hold, Cooldown)
<1>0. HeadOK
  BY DEF Cm2Inv
<1>1. ASSUME NEW t, Later(t), TimeStopped(t) \/ Locked(t), touch' = touch
      PROVE  Cm2Inv' /\ Reaction(st', levels') \in Reactions(st, now', Id, Hold, Cooldown)
  <2>1. t \in Nat /\ now' = t
    BY <1>0, <1>1, LaterType
  <2>2. HeadOK' /\ ctx' = ctx /\ trade' = <<>> /\ (st' = st \/ st'.state = "EXPIRED")
    BY <1>0, <1>1, <2>1, HeadKept
  <2>3. Cm2Touch(st', ctx', touch')
    BY <1>1, <2>2 DEF Cm2Inv, Cm2Touch, Terminal
  <2>4. Cm2!TradeKeepsPlan'
    BY <2>2 DEF Cm2!TradeKeepsPlan
  <2>5. Cm2Inv'
    BY <2>2, <2>3, <2>4 DEF Cm2Inv, Cm2Touch
  <2>6. QED
    BY <1>1, <2>1, <2>5, HeadAnswer
<1>2. ASSUME NEW t, Later(t), Unlocked(t), NEW k \in Cm2!Candle, Cm2!Conditions(k, t)
      PROVE  Cm2Inv' /\ Reaction(st', levels') \in Reactions(st, now', Id, Hold, Cooldown)
  <2>1. t \in Nat /\ now' = t
    BY <1>0, <1>2, LaterType
  <2>2. QED
    BY <1>2, <2>1, Cm2Conditions
<1>3. ASSUME NEW t \in {now, now + 1}, Cm2!OnMarketUpdate(t)
      PROVE  Cm2Inv' /\ Reaction(st', levels') \in Reactions(st, now', Id, Hold, Cooldown)
  <2>1. /\ Later(t)
        /\ \/ (TimeStopped(t) \/ Locked(t)) /\ touch' = touch
           \/ Unlocked(t) /\ \E k \in Cm2!Candle : Cm2!Conditions(k, t)
    BY <1>3, Cm2Head DEF Cm2!OnMarketUpdate
  <2>2. QED
    BY <1>1, <1>2, <2>1
<1>4. CASE Cm2!OnSignalResolvedStep
  <2>1. Resolved(Cm2!Untouched) /\ touch' = Cm2!NoPlan
    BY <1>4, Cm2Head DEF Cm2!OnSignalResolvedStep
  <2>2. HeadOK' /\ ctx' = Cm2!Untouched /\ trade' = <<>>
    BY <1>0, <2>1, ResolvedKept
  <2>3. /\ ctx' \in [touched : BOOLEAN, zone : Cm2Zone, dynamic : BOOLEAN]
        /\ ~ctx'.touched
    BY <2>2 DEF Cm2!Untouched, Cm2!NoPlan, Cm2Zone
  <2>4. Cm2!TradeKeepsPlan'
    BY <2>2 DEF Cm2!TradeKeepsPlan
  <2>5. Cm2Inv'
    BY <2>2, <2>3, <2>4 DEF Cm2Inv, Cm2Touch
  <2>6. QED
    BY <2>1, <2>5 DEF Resolved
<1>5. QED
  BY <1>3, <1>4 DEF Cm2!Next

LEMMA Cm2Starts ==
  ASSUME Cm2!Init PROVE Cm2Inv
<1>1. LiveInit(Cm2!Untouched)
  BY Cm2Head DEF Cm2!Init
<1>2. HeadOK /\ ctx = Cm2!Untouched /\ trade = <<>>
  BY <1>1 DEF LiveInit, HeadOK, State, StrategyStates, Fresh, NoTrade
<1>3. QED
  BY <1>2 DEF Cm2Inv, Cm2Touch, Cm2!TradeKeepsPlan, Cm2!Untouched, Cm2!NoPlan, Cm2Zone

-----------------------------------------------------------------------------
(* LiquiditySweepLong.                                                     *)
Cm3Context ==
  [swept : BOOLEAN, low : Int, levels : [sweep : Int, reclaim : Int], dynamic : BOOLEAN]

(* What was swept is watched, traded or over, and the low remembered is    *)
(* the lowest of the dips the history has.                                 *)
Cm3Low(s, c, seen) ==
  c.swept => /\ s.state \in {"WATCHING"} \cup Entered \cup Terminal
             /\ seen \subseteq Int /\ c.low \in seen
             /\ \A d \in seen : c.low <= d

Cm3Inv ==
  /\ HeadOK
  /\ ctx \in Cm3Context
  /\ Cm3Low(st, ctx, dips)
  /\ Cm3!StopBelowDips

LEMMA LowestIsMin ==
  ASSUME NEW S \in SUBSET Int, NEW x \in S, \A y \in S : x <= y
  PROVE  Cm3!Min(S) = x
<1>1. \A y \in S : (\A w \in S : y <= w) => y = x
  OBVIOUS
<1>2. QED
  BY <1>1 DEF Cm3!Min

LEMMA Cm3Judged ==
  ASSUME HeadOK, NEW t \in Nat, now' = t, NEW k \in Cm3!Candle,
         NEW s \in State, NEW c \in Cm3Context,
         NEW first, FirstLook(Unlock(st), t, s, first),
         NEW seen, Cm3Low(s, c, seen), c.swept => s.state = "WATCHING",
         Cm3!Judge(k, s, c, first, t), dips' = seen
  PROVE  Cm3Inv' /\ Reaction(st', levels') \in FreeReactions(Unlock(st), t, Id)
<1> DEFINE u == Unlock(st)
<1>0. u \in State /\ k.price \in Int
  BY StateChanges, Cm3Assumption DEF HeadOK, Cm3!Candle
<1>1. ASSUME st' \in State, ctx' = c, Cm3!StopBelowDips',
             c.swept => st'.state \in {"WATCHING"} \cup Entered \cup Terminal
      PROVE  Cm3Inv'
  <2>1. HeadOK' /\ Cm3Low(st', ctx', dips')
    BY <1>1 DEF HeadOK, Cm3Low
  <2>2. QED
    BY <1>1, <2>1 DEF Cm3Inv, Cm3Low
<1>2. ASSUME trade' = <<>> PROVE Cm3!StopBelowDips'
  BY <1>2 DEF Cm3!StopBelowDips
<1>3. CASE Answer(Refuse(s, t), c, <<"L4">>, <<>>, FALSE)
  <2>1. st' = Refuse(s, t) /\ levels' = <<"L4">> /\ ctx' = c /\ trade' = <<>>
    BY <1>3 DEF Answer
  <2>2. st' \in State /\ st'.state = "INVALID"
    BY <2>1, StateChanges
  <2>3. Cm3Inv'
    BY <1>1, <1>2, <2>1, <2>2 DEF Terminal
  <2>4. QED
    BY <2>1, <2>3, LookedAndRefused
<1>4. CASE Answer(s, c, first, <<>>, FALSE)
  <2>1. st' = s /\ levels' = first /\ ctx' = c /\ trade' = <<>>
    BY <1>4 DEF Answer
  <2>2. QED
    BY <1>1, <1>2, <2>1, LookedOnly
<1>5. CASE c.swept /\ Cm3!GoLong(k, s, c, first, t)
  <2> DEFINE Stop(buffer) == c.low - buffer
             Reward(buffer) == Reward2(k.price - Stop(buffer), c.dynamic, Cm3Target1 - k.price)
             Entry(buffer) == [entry |-> k.price, stop |-> Stop(buffer), reward2 |-> Reward(buffer)]
  <2>1. PICK buffer \in Cm3Buffers, roundsDown \in BOOLEAN :
          IF RewardEnough(k.price - Stop(buffer), Reward(buffer), roundsDown)
          THEN Answer(Enter(s, t, Id), c, first \o <<"L3">>, <<Entry(buffer)>>, FALSE)
          ELSE Answer(MakeSignal(s, NoTrade), c, first \o <<"L2">>, <<>>, TRUE)
    BY <1>5, Cm3Head DEF Cm3!GoLong
  <2>2. s = u => u.state = "WATCHING"
    BY <1>5
  <2>3. CASE ~RewardEnough(k.price - Stop(buffer), Reward(buffer), roundsDown)
    <3>1. /\ st' = MakeSignal(s, NoTrade) /\ levels' = first \o <<"L2">>
          /\ ctx' = c /\ trade' = <<>>
      BY <2>1, <2>3 DEF Answer
    <3>2. Cm3Inv'
      BY <1>1, <1>2, <3>1, StateChanges
    <3>3. QED
      BY <1>0, <2>2, <3>1, <3>2, LookedAndTraded
  <2>4. CASE RewardEnough(k.price - Stop(buffer), Reward(buffer), roundsDown)
    <3> DEFINE e == Entry(buffer)
    <3>1. st' = Enter(s, t, Id) /\ levels' = first \o <<"L3">> /\ ctx' = c /\ trade' = <<e>>
      BY <2>1, <2>4 DEF Answer
    <3>2. e.stop <= Cm3!Min(seen) /\ e.stop < e.entry /\ e.reward2 >= 3 * (e.entry - e.stop)
      <4>1. c.low \in Int /\ Cm3!Min(seen) = c.low
        BY <1>5, LowestIsMin DEF Cm3Low
      <4>2. buffer \in Nat /\ Cm3Target1 \in Int
        BY Cm3Assumption
      <4>3. Stop(buffer) \in Int /\ Stop(buffer) <= c.low
        BY <4>1, <4>2
      <4>4. Reward(buffer) \in Int
        BY <1>0, <4>2, <4>3 DEF Reward2
      <4>5. /\ k.price - Stop(buffer) > 0
            /\ Reward(buffer) >= 3 * (k.price - Stop(buffer))
        <5> HIDE DEF Stop, Reward
        <5>1. QED
          BY <1>0, <2>4, <4>3, <4>4 DEF RewardEnough
      <4>6. QED
        <5> HIDE DEF Stop, Reward
        <5>1. QED
          BY <1>0, <4>1, <4>3, <4>5
    <3> HIDE DEF e
    <3>3. DOMAIN <<e>> = {1} /\ <<e>>[1] = e
      OBVIOUS
    <3>4. Cm3!StopBelowDips'
      BY <3>1, <3>2, <3>3 DEF Cm3!StopBelowDips, Cm3!Min
    <3>5. st' \in State /\ st'.state = "TRIGGERED"
      BY <3>1, StateChanges
    <3>6. Cm3Inv'
      BY <1>1, <3>1, <3>4, <3>5 DEF Entered
    <3>7. QED
      BY <1>0, <2>2, <3>1, <3>6, LookedAndTraded
  <2>5. QED
    BY <2>3, <2>4
<1>6. \/ Answer(Refuse(s, t), c, <<"L4">>, <<>>, FALSE)
      \/ c.swept /\ Cm3!GoLong(k, s, c, first, t)
      \/ Answer(s, c, first, <<>>, FALSE)
  BY Cm3Head DEF Cm3!Judge
<1>7. QED
  BY <1>3, <1>4, <1>5, <1>6

LEMMA Cm3Remembered ==
  ASSUME Cm3Inv, NEW t, Unlocked(t)
  PROVE  /\ Unlock(st) \in State
         /\ Context(Cm3!Unswept) \in Cm3Context
         /\ Context(Cm3!Unswept).swept =>
              /\ Unlock(st).state = "WATCHING"
              /\ Cm3Low(Unlock(st), Context(Cm3!Unswept), dips)
<1>1. Unlock(st) \in State
  <2>1. st \in State /\ 0 \in Nat
    BY DEF Cm3Inv, HeadOK
  <2>2. QED
    BY <2>1, StateChanges
<1>2. CASE st.state \in Terminal
  BY <1>1, <1>2 DEF Context, Cm3!Unswept, Cm3!NoPlan, Cm3Context
<1>3. CASE st.state \notin Terminal
  <2>1. Context(Cm3!Unswept) = ctx /\ Unlock(st) = st
    BY <1>3 DEF Context, Unlock
  <2>2. st.state \notin Entered
    BY DEF Unlocked, EntryLocked
  <2>3. ctx.swept => st.state = "WATCHING"
    BY <1>3, <2>2 DEF Cm3Inv, Cm3Low
  <2>4. QED
    BY <1>1, <2>1, <2>3 DEF Cm3Inv
<1>4. QED
  BY <1>2, <1>3

(* A sweep remembers the lowest of the dips before it and its own.         *)
LEMMA Cm3Swept ==
  ASSUME NEW k \in Cm3!Candle, NEW c \in Cm3Context, NEW before,
         NEW s, s.state = "WATCHING",
         c.swept => before \subseteq Int /\ c.low \in before /\ \A d \in before : c.low <= d,
         ~c.swept => before = {}
  PROVE  /\ Cm3!Sweep(c, k) \in Cm3Context
         /\ Cm3Low(s, Cm3!Sweep(c, k), before \cup {k.low})
<1>1. k.low \in Int /\ k.plan \in Cm3!Plans
  BY Cm3Assumption DEF Cm3!Candle
<1>2. Cm3Atr \div 10 \in Int
  BY Cm3Assumption
<1>3. Cm3!LevelsNow(c, k.plan) \in [sweep : Int, reclaim : Int]
  <2>1. k.plan \in [sweep : Int, reclaim : Int]
    BY <1>1, <1>2, Cm3Assumption DEF Cm3!Plans, Cm3!Plan, Cm3!NoPlan
  <2>2. [sweep |-> FixedSweep, reclaim |-> FixedReclaim] \in [sweep : Int, reclaim : Int]
    BY Cm3Assumption
  <2>3. QED
    BY <2>1, <2>2 DEF Cm3!LevelsNow, Cm3Context
<1>4. DEFINE low == IF c.swept /\ c.low < k.low THEN c.low ELSE k.low
<1>5. /\ low \in Int /\ low \in before \cup {k.low} /\ before \subseteq Int
      /\ \A d \in before \cup {k.low} : low <= d
  BY <1>1 DEF Cm3Context
<1>6. Cm3!Sweep(c, k) \in Cm3Context /\ Cm3!Sweep(c, k).low = low
  <2> HIDE DEF low
  <2>1. Cm3!Sweep(c, k) = [swept |-> TRUE, levels |-> Cm3!LevelsNow(c, k.plan), low |-> low,
                           dynamic |-> c.dynamic \/ k.plan # Cm3!NoPlan]
    BY DEF Cm3!Sweep, low
  <2>2. (c.dynamic \/ k.plan # Cm3!NoPlan) \in BOOLEAN
    OBVIOUS
  <2>3. QED
    BY <1>3, <1>5, <2>1, <2>2 DEF Cm3Context
<1>7. before \cup {k.low} \subseteq Int /\ s.state \in {"WATCHING"} \cup Entered \cup Terminal
  BY <1>1, <1>5
<1> HIDE DEF low
<1>8. QED
  BY <1>5, <1>6, <1>7 DEF Cm3Low

LEMMA Cm3Conditions ==
  ASSUME Cm3Inv, NEW t \in Nat, now' = t, Unlocked(t), NEW k \in Cm3!Candle,
         Cm3!Conditions(k, t)
  PROVE  Cm3Inv' /\ Reaction(st', levels') \in Reactions(st, t, Id, Hold, Cooldown)
<1> DEFINE u == Unlock(st)
           c == Context(Cm3!Unswept)
           before == IF c.swept THEN dips ELSE {}
<1>1. /\ HeadOK /\ u \in State /\ c \in Cm3Context
      /\ c.swept => u.state = "WATCHING" /\ Cm3Low(u, c, dips)
  BY Cm3Remembered DEF Cm3Inv
<1>2. \/ Cm3!Judge(k, u, c, <<>>, t) /\ dips' = before
      \/ Cm3!Judge(k, Watch(u, t), Cm3!Sweep(c, k), <<"L2">>, t) /\ dips' = before \cup {k.low}
  BY Cm3Head DEF Cm3!Conditions
<1>3. Cm3Low(u, c, before) /\ (c.swept => u.state = "WATCHING")
  BY <1>1 DEF Cm3Low
<1>4. CASE Cm3!Judge(k, u, c, <<>>, t) /\ dips' = before
  <2>1. FirstLook(Unlock(st), t, u, <<>>)
    BY DEF FirstLook
  <2> HIDE DEF u, c, before
  <2>2. Cm3Inv' /\ Reaction(st', levels') \in FreeReactions(Unlock(st), t, Id)
    BY <1>1, <1>3, <1>4, <2>1, Cm3Judged
  <2>3. QED
    BY <2>2, FreeAnswer
<1>5. CASE /\ Cm3!Judge(k, Watch(u, t), Cm3!Sweep(c, k), <<"L2">>, t)
           /\ dips' = before \cup {k.low}
  <2>1. FirstLook(Unlock(st), t, Watch(u, t), <<"L2">>)
    BY DEF FirstLook
  <2>2. Watch(u, t) \in State /\ Watch(u, t).state = "WATCHING"
    BY <1>1, StateChanges
  <2>3. /\ c.swept => /\ before \subseteq Int /\ c.low \in before
                      /\ \A d \in before : c.low <= d
        /\ ~c.swept => before = {}
    BY <1>3 DEF Cm3Low
  <2> HIDE DEF u, c, before
  <2>4. /\ Cm3!Sweep(c, k) \in Cm3Context
        /\ Cm3Low(Watch(u, t), Cm3!Sweep(c, k), before \cup {k.low})
    BY <1>1, <2>2, <2>3, Cm3Swept
  <2>5. Cm3Inv' /\ Reaction(st', levels') \in FreeReactions(Unlock(st), t, Id)
    BY <1>1, <1>5, <2>1, <2>2, <2>4, Cm3Judged
  <2>6. QED
    BY <2>5, FreeAnswer
<1>6. QED
  BY <1>2, <1>4, <1>5

LEMMA Cm3Step ==
  ASSUME Cm3Inv, Cm3!Next
  PROVE  /\ Cm3Inv'
         /\ \/ st.last = Id /\ st' = OnSignalResolved(st, Id, now)
            \/ Reaction(st', levels') \in Reactions(st, now', Id, Hold, Cooldown)
<1>0. HeadOK
  BY DEF Cm3Inv
<1>1. ASSUME NEW t, Later(t), TimeStopped(t) \/ Locked(t), dips' = dips
      PROVE  Cm3Inv' /\ Reaction(st', levels') \in Reactions(st, now', Id, Hold, Cooldown)
  <2>1. t \in Nat /\ now' = t
    BY <1>0, <1>1, LaterType
  <2>2. HeadOK' /\ ctx' = ctx /\ trade' = <<>> /\ (st' = st \/ st'.state = "EXPIRED")
    BY <1>0, <1>1, <2>1, HeadKept
  <2>3. Cm3Low(st', ctx', dips')
    BY <1>1, <2>2 DEF Cm3Inv, Cm3Low, Terminal
  <2>4. Cm3!StopBelowDips'
    BY <2>2 DEF Cm3!StopBelowDips
  <2>5. Cm3Inv'
    BY <2>2, <2>3, <2>4 DEF Cm3Inv, Cm3Low
  <2>6. QED
    BY <1>1, <2>1, <2>5, HeadAnswer
<1>2. ASSUME NEW t, Later(t), Unlocked(t), NEW k \in Cm3!Candle, Cm3!Conditions(k, t)
      PROVE  Cm3Inv' /\ Reaction(st', levels') \in Reactions(st, now', Id, Hold, Cooldown)
  <2>1. t \in Nat /\ now' = t
    BY <1>0, <1>2, LaterType
  <2>2. QED
    BY <1>2, <2>1, Cm3Conditions
<1>3. ASSUME NEW t \in {now, now + 1}, Cm3!OnMarketUpdate(t)
      PROVE  Cm3Inv' /\ Reaction(st', levels') \in Reactions(st, now', Id, Hold, Cooldown)
  <2>1. /\ Later(t)
        /\ \/ (TimeStopped(t) \/ Locked(t)) /\ dips' = dips
           \/ Unlocked(t) /\ \E k \in Cm3!Candle : Cm3!Conditions(k, t)
    BY <1>3, Cm3Head DEF Cm3!OnMarketUpdate
  <2>2. QED
    BY <1>1, <1>2, <2>1
<1>4. CASE Cm3!OnSignalResolvedStep
  <2>1. Resolved(Cm3!Unswept)
    BY <1>4, Cm3Head DEF Cm3!OnSignalResolvedStep
  <2>2. HeadOK' /\ ctx' = Cm3!Unswept /\ trade' = <<>>
    BY <1>0, <2>1, ResolvedKept
  <2>3. ctx' \in Cm3Context /\ ~ctx'.swept
    BY <2>2 DEF Cm3!Unswept, Cm3!NoPlan, Cm3Context
  <2>4. Cm3!StopBelowDips'
    BY <2>2 DEF Cm3!StopBelowDips
  <2>5. Cm3Inv'
    BY <2>2, <2>3, <2>4 DEF Cm3Inv, Cm3Low
  <2>6. QED
    BY <2>1, <2>5 DEF Resolved
<1>5. QED
  BY <1>3, <1>4 DEF Cm3!Next

LEMMA Cm3Starts ==
  ASSUME Cm3!Init PROVE Cm3Inv
<1>1. LiveInit(Cm3!Unswept)
  BY Cm3Head DEF Cm3!Init
<1>2. HeadOK /\ ctx = Cm3!Unswept /\ trade = <<>>
  BY <1>1 DEF LiveInit, HeadOK, State, StrategyStates, Fresh, NoTrade
<1>3. QED
  BY <1>2 DEF Cm3Inv, Cm3Low, Cm3!StopBelowDips, Cm3!Unswept, Cm3!NoPlan, Cm3Context

-----------------------------------------------------------------------------
(* StandAboveLevel.                                                        *)
LEMMA StandStep ==
  ASSUME HeadOK, Stand!Next
  PROVE  /\ HeadOK'
         /\ Reaction(st', levels') \in Reactions(st, now', Id, Hold, Cooldown)
<1> DEFINE u == Unlock(st)
<1>1. PICK k \in Stand!Candle, t \in {now, now + 1} : Stand!OnMarketUpdate(k, t)
  BY DEF Stand!Next
<1>2. /\ Later(t)
      /\ \/ TimeStopped(t) \/ Locked(t)
         \/ Unlocked(t) /\ Stand!Conditions(k, t, recent')
  BY <1>1, StandHead DEF Stand!OnMarketUpdate
<1>3. t \in Nat /\ now' = t
  BY <1>2, LaterType
<1>4. CASE TimeStopped(t) \/ Locked(t)
  BY <1>3, <1>4, HeadKept, HeadAnswer
<1>5. CASE Unlocked(t) /\ Stand!Conditions(k, t, recent')
  <2>1. /\ u \in State /\ Watch(u, t) \in State
        /\ Refuse(u, t) \in State /\ Enter(Watch(u, t), t, Id) \in State
    BY <1>3, StateChanges DEF HeadOK
  <2>2. \/ Answer(Refuse(u, t), <<>>, <<"L4">>, <<>>, FALSE)
        \/ Answer(u, <<>>, <<>>, <<>>, FALSE)
        \/ Answer(Watch(u, t), <<>>, <<"L2">>, <<>>, FALSE)
        \/ Answer(Enter(Watch(u, t), t, Id), <<>>, <<"L2", "L3">>, <<>>, FALSE)
    BY <1>5, StandHead DEF Stand!Conditions
  <2>3. HeadOK'
    BY <1>3, <2>1, <2>2 DEF HeadOK, Answer
  <2>4. Reaction(st', levels') \in FreeReactions(u, t, Id)
    BY <2>2 DEF FreeReactions, Answer
  <2>5. QED
    BY <1>3, <1>5, <2>3, <2>4, FreeAnswer
<1>6. QED
  BY <1>2, <1>4, <1>5

LEMMA StandStarts ==
  ASSUME Stand!Init PROVE HeadOK
<1>1. LiveInit(<<>>)
  BY StandHead DEF Stand!Init
<1>2. QED
  BY <1>1 DEF LiveInit, HeadOK, State, StrategyStates, Fresh, NoTrade

-----------------------------------------------------------------------------
(* The three of them.                                                      *)
StrategiesInv ==
  /\ which \in {"CM2", "CM3", "STAND"}
  /\ which = "CM2" => Cm2Inv
  /\ which = "CM3" => Cm3Inv
  /\ which = "STAND" => HeadOK

LEMMA StrategiesStart == StrategiesInit => StrategiesInv
BY Cm2Starts, Cm3Starts, StandStarts DEF StrategiesInit, StrategiesInv

(* A step of the strategy answers as the base class allows.                *)
Allowed ==
  \/ st.last = Id /\ st' = OnSignalResolved(st, Id, now)
  \/ Reaction(st', levels') \in Reactions(st, now', Id, Hold, Cooldown)

LEMMA StrategiesStep == StrategiesInv /\ StrategiesNext => StrategiesInv' /\ Allowed
BY Cm2Step, Cm3Step, StandStep DEF StrategiesInv, StrategiesNext, Allowed

LEMMA StrategiesStutter == StrategiesInv /\ UNCHANGED strategies => StrategiesInv'
<1>1. SUFFICES ASSUME StrategiesInv, UNCHANGED strategies PROVE StrategiesInv'
  OBVIOUS
<1>2. /\ which' = which /\ touch' = touch /\ dips' = dips
      /\ now' = now /\ st' = st /\ ctx' = ctx /\ trade' = trade
  BY <1>1 DEF strategies, live
<1>3. HeadOK => HeadOK'
  BY <1>2 DEF HeadOK
<1>4. Cm2Inv => Cm2Inv'
  BY <1>2, <1>3 DEF Cm2Inv, Cm2Touch, Cm2!TradeKeepsPlan
<1>5. Cm3Inv => Cm3Inv'
  BY <1>2, <1>3 DEF Cm3Inv, Cm3Low, Cm3!StopBelowDips
<1>6. QED
  BY <1>1, <1>2, <1>3, <1>4, <1>5 DEF StrategiesInv

LEMMA StrategiesInvariant == StrategiesSpec => []StrategiesInv
<1>1. StrategiesInv /\ [StrategiesNext]_strategies => StrategiesInv'
  BY StrategiesStep, StrategiesStutter
<1>2. QED
  BY <1>1, StrategiesStart, PTL DEF StrategiesSpec

(* PullbackFailShort: whatever plans the candles after the touch bring, a  *)
(* trade on a dynamic plan is entered below the fail level of the plan     *)
(* that was touched, with the stop of that plan and 1.5 times the risk.    *)
THEOREM TradesKeepPlan == StrategiesSpec => []TradeKeepsPlan
<1>1. StrategiesInv => TradeKeepsPlan
  BY DEF StrategiesInv, TradeKeepsPlan, Cm2Inv
<1>2. QED
  BY <1>1, StrategiesInvariant, PTL

(* LiquiditySweepLong: the stop of a trade is not above any of the dips    *)
(* seen since the watch began, and the reward is 1.5 times the risk.       *)
THEOREM StopsBelowDips == StrategiesSpec => []StopBelowDips
<1>1. StrategiesInv => StopBelowDips
  BY DEF StrategiesInv, StopBelowDips, Cm3Inv
<1>2. QED
  BY <1>1, StrategiesInvariant, PTL

(* Every answer of the three strategies is one of those the monitor's      *)
(* model lets a strategy give.                                             *)
THEOREM StrategiesAnswer == StrategiesSpec => AnswersAllowed
<1>1. StrategiesInv /\ [StrategiesNext]_strategies => [Allowed]_live
  BY StrategiesStep DEF strategies
<1>2. QED
  BY <1>1, StrategiesInvariant, PTL DEF StrategiesSpec, AnswersAllowed, Allowed

-----------------------------------------------------------------------------
(* Candles on their way.  A list of candles in the order of their bars.    *)
Klines == [opens : 1..LastBar, closed : BOOLEAN]
Ascends(s) == \A i, j \in 1..Len(s) : i < j => s[i].opens < s[j].opens
Has(s, x) == \E i \in 1..Len(s) : s[i] = x

LEMMA KlineIs ==
  ASSUME NEW b \in 1..LastBar, NEW c \in BOOLEAN
  PROVE  Kline(b, c) \in Klines /\ Kline(b, c).opens = b /\ Kline(b, c).closed = c
BY DEF Kline, Klines

LEMMA KlineOf == ASSUME NEW x \in Klines PROVE x = Kline(x.opens, x.closed)
BY DEF Kline, Klines

(* What is kept of a list: the elements at the places in K, in order.      *)
Left(g, K, k) == {g[j].opens : j \in (1..k) \ K}
Kept(r, g, K, k) ==
  /\ r \in Seq(Klines) /\ Ascends(r)
  /\ \A i \in 1..Len(r) : \E j \in K \cap 1..k : r[i] = g[j]
  /\ \A j \in K \cap 1..k : Has(r, g[j])
  /\ IsFiniteSet(Left(g, K, k)) /\ Len(r) + Cardinality(Left(g, K, k)) = k

LEMMA KeepsOneMore ==
  ASSUME NEW m \in Nat, NEW g \in [1..m -> Klines], NEW K,
         \A i, j \in 1..m : i < j => g[i].opens < g[j].opens,
         NEW k \in 1..m, NEW r, Kept(r, g, K, k - 1)
  PROVE  Kept(IF k \in K THEN Append(r, g[k]) ELSE r, g, K, k)
<1> DEFINE x == g[k]
<1>1. /\ r \in Seq(Klines) /\ Len(r) \in Nat /\ Ascends(r)
      /\ \A i \in 1..Len(r) : \E j \in K \cap 1..(k - 1) : r[i] = g[j]
      /\ \A j \in K \cap 1..(k - 1) : Has(r, g[j])
      /\ IsFiniteSet(Left(g, K, k - 1)) /\ Len(r) + Cardinality(Left(g, K, k - 1)) = k - 1
      /\ Cardinality(Left(g, K, k - 1)) \in Nat
  BY FS_CardinalityType DEF Kept
<1>2. x \in Klines /\ x.opens \in Nat /\ \A j \in 1..(k - 1) : g[j].opens \in Nat /\ g[j].opens < x.opens
  BY DEF Klines
<1>3. \A j \in 1..k : j \in 1..(k - 1) \/ j = k
  OBVIOUS
<1>4. CASE k \in K
  <2> DEFINE more == Append(r, x)
  <2>1. /\ more \in Seq(Klines) /\ Len(more) = Len(r) + 1 /\ more[Len(r) + 1] = x
        /\ \A i \in 1..Len(r) : more[i] = r[i]
    BY <1>1, <1>2
  <2> HIDE DEF more
  <2>2. \A i \in 1..Len(more) : i \in 1..Len(r) \/ i = Len(r) + 1
    BY <1>1, <2>1
  <2>3. \A i \in 1..Len(r) : r[i].opens < x.opens
    BY <1>1, <1>2
  <2>4. ASSUME NEW i \in 1..Len(more), NEW j \in 1..Len(more), i < j
        PROVE  more[i].opens < more[j].opens
    <3>1. i \in 1..Len(r)
      BY <1>1, <2>1, <2>4
    <3>2. CASE j \in 1..Len(r)
      BY <1>1, <2>1, <2>4, <3>1, <3>2 DEF Ascends
    <3>3. CASE j = Len(r) + 1
      BY <2>1, <2>3, <3>1, <3>3
    <3> QED BY <2>2, <3>2, <3>3
  <2>5. ASSUME NEW i \in 1..Len(more) PROVE \E j \in K \cap 1..k : more[i] = g[j]
    <3>1. CASE i \in 1..Len(r)
      <4>1. PICK j \in K \cap 1..(k - 1) : r[i] = g[j]
        BY <1>1, <3>1
      <4>2. j \in K \cap 1..k
        BY <4>1
      <4> QED BY <2>1, <3>1, <4>1, <4>2
    <3>2. CASE i = Len(r) + 1
      <4>1. k \in K \cap 1..k
        BY <1>4
      <4> QED BY <2>1, <3>2, <4>1
    <3> QED BY <2>2, <3>1, <3>2
  <2>6. ASSUME NEW j \in K \cap 1..k PROVE Has(more, g[j])
    <3>1. CASE j = k
      <4>1. Len(r) + 1 \in 1..Len(more)
        BY <1>1, <2>1
      <4> QED BY <2>1, <3>1, <4>1 DEF Has
    <3>2. CASE j # k
      <4>1. j \in K \cap 1..(k - 1)
        BY <2>6, <3>2
      <4>2. PICK i \in 1..Len(r) : r[i] = g[j]
        BY <1>1, <4>1 DEF Has
      <4>3. i \in 1..Len(more)
        BY <1>1, <2>1
      <4> QED BY <2>1, <4>2, <4>3 DEF Has
    <3> QED BY <3>1, <3>2
  <2>7. Left(g, K, k) = Left(g, K, k - 1)
    <3>1. (1..k) \ K = (1..(k - 1)) \ K
      BY <1>3, <1>4
    <3> QED BY <3>1 DEF Left
  <2>8. Len(more) + Cardinality(Left(g, K, k)) = k
    BY <1>1, <2>1, <2>7
  <2>9. Kept(more, g, K, k)
    BY <1>1, <2>1, <2>4, <2>5, <2>6, <2>7, <2>8 DEF Kept, Ascends
  <2> QED BY <1>4, <2>9 DEF more
<1>5. CASE k \notin K
  <2>1. \A i \in 1..Len(r) : \E j \in K \cap 1..k : r[i] = g[j]
    <3>1. \A j \in K \cap 1..(k - 1) : j \in K \cap 1..k
      OBVIOUS
    <3> QED BY <1>1, <3>1
  <2>2. \A j \in K \cap 1..k : Has(r, g[j])
    BY <1>1, <1>3, <1>5
  <2>3. Left(g, K, k) = Left(g, K, k - 1) \cup {x.opens}
    <3>1. (1..k) \ K = ((1..(k - 1)) \ K) \cup {k}
      BY <1>5
    <3> QED BY <3>1 DEF Left
  <2>4. x.opens \notin Left(g, K, k - 1)
    BY <1>2 DEF Left
  <2>5. /\ IsFiniteSet(Left(g, K, k))
        /\ Cardinality(Left(g, K, k)) = Cardinality(Left(g, K, k - 1)) + 1
    <3>1. PICK left : left = Left(g, K, k - 1)
      OBVIOUS
    <3>2. IsFiniteSet(left) /\ x.opens \notin left /\ Left(g, K, k) = left \cup {x.opens}
      BY <1>1, <2>3, <2>4, <3>1
    <3>3. IsFiniteSet(left \cup {x.opens}) /\ Cardinality(left \cup {x.opens}) = Cardinality(left) + 1
      BY <3>2, FS_AddElement
    <3> QED BY <3>1, <3>2, <3>3
  <2>6. Len(r) + Cardinality(Left(g, K, k)) = k
    <3>1. PICK c \in Nat : c = Cardinality(Left(g, K, k - 1))
      BY <1>1
    <3>2. Len(r) + c = k - 1 /\ Len(r) \in Nat /\ Cardinality(Left(g, K, k)) = c + 1
      BY <1>1, <2>5, <3>1
    <3>3. k \in Nat /\ \A h, d \in Nat : h + d = k - 1 => h + (d + 1) = k
      OBVIOUS
    <3> QED BY <3>2, <3>3
  <2>7. Kept(r, g, K, k)
    BY <1>1, <2>1, <2>2, <2>5, <2>6 DEF Kept
  <2> QED BY <1>5, <2>7
<1> QED BY <1>4, <1>5

LEMMA KeepsAll ==
  ASSUME NEW m \in Nat, NEW g \in [1..m -> Klines], NEW K,
         \A i, j \in 1..m : i < j => g[i].opens < g[j].opens,
         NEW f, f[0] = <<>>,
         \A k \in 1..m : f[k] = IF k \in K THEN Append(f[k - 1], g[k]) ELSE f[k - 1]
  PROVE  Kept(f[m], g, K, m)
<1> DEFINE T == {k \in 0..m : Kept(f[k], g, K, k)}
<1>1. 0 \in T
  <2>1. Left(g, K, 0) = {}
    BY DEF Left
  <2>2. IsFiniteSet(Left(g, K, 0)) /\ Len(<<>>) + Cardinality(Left(g, K, 0)) = 0
    <3>1. IsFiniteSet({}) /\ Cardinality({}) = 0
      BY FS_EmptySet
    <3>2. Len(<<>>) = 0
      OBVIOUS
    <3>3. IsFiniteSet(Left(g, K, 0)) /\ Cardinality(Left(g, K, 0)) = 0
      BY <2>1, <3>1, Zenon
    <3> QED BY <3>2, <3>3
  <2>3. Kept(<<>>, g, K, 0)
    BY <2>2 DEF Kept, Ascends
  <2> QED BY <2>3
<1>2. ASSUME NEW k \in 1..m, k - 1 \in T PROVE k \in T
  BY <1>2, KeepsOneMore
<1> HIDE DEF T
<1>3. \A k \in 0..m : k \in T
  BY <1>1, <1>2, UpTo
<1> QED BY <1>3 DEF T

-----------------------------------------------------------------------------
(* Two lists of which one ends with the other's elements end alike.        *)
Enumerates(r, S) ==
  /\ r \in Seq(Klines) /\ Ascends(r)
  /\ \A i \in 1..Len(r) : r[i] \in S
  /\ \A x \in S : Has(r, x)

LEMMA EndAlike ==
  ASSUME NEW a, NEW b, NEW A, NEW B, Enumerates(a, A), Enumerates(b, B), A \subseteq B,
         \A x \in B, y \in A : y.opens <= x.opens => x \in A
  PROVE  /\ Len(a) <= Len(b)
         /\ \A j \in 0..(Len(a) - 1) : a[Len(a) - j] = b[Len(b) - j]
<1>1. PICK la, lb : la = Len(a) /\ lb = Len(b)
  OBVIOUS
<1>2. /\ la \in Nat /\ lb \in Nat /\ a \in Seq(Klines) /\ b \in Seq(Klines)
      /\ \A i \in 1..la : a[i] \in A /\ a[i] \in Klines /\ a[i].opens \in Nat
      /\ \A i \in 1..lb : b[i] \in B /\ b[i] \in Klines /\ b[i].opens \in Nat
      /\ \A i, j \in 1..la : i < j => a[i].opens < a[j].opens
      /\ \A i, j \in 1..lb : i < j => b[i].opens < b[j].opens
      /\ \A x \in A : \E i \in 1..la : a[i] = x
      /\ \A x \in B : \E i \in 1..lb : b[i] = x
  <2>1. /\ a \in Seq(Klines) /\ b \in Seq(Klines)
        /\ \A i \in 1..la : a[i] \in A
        /\ \A i \in 1..lb : b[i] \in B
    BY <1>1 DEF Enumerates
  <2>2. /\ \A i, j \in 1..la : i < j => a[i].opens < a[j].opens
        /\ \A i, j \in 1..lb : i < j => b[i].opens < b[j].opens
    <3>1. Ascends(a) /\ Ascends(b)
      BY Zenon DEF Enumerates
    <3> QED BY <1>1, <3>1 DEF Ascends
  <2>3. /\ \A x \in A : \E i \in 1..la : a[i] = x
        /\ \A x \in B : \E i \in 1..lb : b[i] = x
    <3>1. (\A x \in A : Has(a, x)) /\ \A x \in B : Has(b, x)
      BY Zenon DEF Enumerates
    <3>2. (\A x : Has(a, x) => \E i \in 1..la : a[i] = x) /\ \A x : Has(b, x) => \E i \in 1..lb : b[i] = x
      BY <1>1 DEF Has
    <3> QED BY <3>1, <3>2, Zenon
  <2>4. /\ la \in Nat /\ lb \in Nat
        /\ \A i \in 1..la : a[i] \in Klines
        /\ \A i \in 1..lb : b[i] \in Klines
    BY <1>1, <2>1
  <2>5. \A x \in Klines : x.opens \in Nat
    BY DEF Klines
  <2> QED BY <2>1, <2>2, <2>3, <2>4, <2>5
(* The elements at one distance from the ends are equal when those after   *)
(* them are.                                                               *)
<1>3. ASSUME NEW j \in 0..(la - 1), j > 0 => j - 1 < lb /\ a[la - (j - 1)] = b[lb - (j - 1)]
      PROVE  j < lb /\ a[la - j] = b[lb - j]
  <2>1. PICK i \in 1..la : i = la - j
    BY <1>2
  <2>2. PICK k \in 1..lb : b[k] = a[i]
    BY <1>2
  <2>3. k <= lb - j
    <3>1. CASE j = 0
      BY <1>2, <3>1
    <3>2. CASE j # 0
      <4>1. PICK i1 \in 1..la, k1 \in 1..lb : i1 = la - (j - 1) /\ k1 = lb - (j - 1) /\ a[i1] = b[k1]
        <5>1. la - (j - 1) \in 1..la /\ lb - (j - 1) \in 1..lb /\ a[la - (j - 1)] = b[lb - (j - 1)]
          BY <1>2, <1>3, <3>2
        <5> QED BY <5>1
      <4>2. i < i1
        BY <1>2, <2>1, <4>1
      <4>3. b[k].opens < b[k1].opens
        BY <1>2, <2>2, <4>1, <4>2
      <4>4. k1 < k => b[k1].opens < b[k].opens
        BY <1>2
      <4>5. k < k1
        BY <1>2, <4>3, <4>4
      <4> QED BY <1>2, <4>1, <4>5
    <3> QED BY <3>1, <3>2
  <2>4. PICK n \in 1..lb : n = lb - j
    BY <1>2, <2>3
  <2>5. b[k].opens <= b[n].opens
    <3>1. k <= n /\ b[k].opens \in Nat /\ b[n].opens \in Nat
      BY <1>2, <2>3, <2>4
    <3>2. k < n => b[k].opens < b[n].opens
      BY <1>2
    <3>3. k < n \/ k = n
      BY <3>1
    <3> QED BY <3>1, <3>2, <3>3
  <2>6. b[n] \in A
    BY <1>2, <2>2, <2>5
  <2>7. PICK h \in 1..la : a[h] = b[n]
    BY <1>2, <2>6
  <2>8. h <= i
    <3>1. CASE j = 0
      BY <1>2, <2>1, <3>1
    <3>2. CASE j # 0
      <4>1. PICK i1 \in 1..la, k1 \in 1..lb : i1 = la - (j - 1) /\ k1 = lb - (j - 1) /\ a[i1] = b[k1]
        <5>1. la - (j - 1) \in 1..la /\ lb - (j - 1) \in 1..lb /\ a[la - (j - 1)] = b[lb - (j - 1)]
          BY <1>2, <1>3, <3>2
        <5> QED BY <5>1
      <4>2. b[n].opens < b[k1].opens
        BY <1>2, <2>4, <4>1
      <4>3. i1 < h => a[i1].opens < a[h].opens
        BY <1>2
      <4>4. h < i1
        <5>1. a[h].opens < a[i1].opens /\ a[h].opens \in Nat /\ a[i1].opens \in Nat
          BY <1>2, <2>7, <4>1, <4>2
        <5>2. ~(i1 < h) /\ i1 # h
          BY <4>3, <5>1
        <5> QED BY <5>2
      <4> QED BY <1>2, <2>1, <4>1, <4>4
    <3> QED BY <3>1, <3>2
  <2>9. a[h].opens <= a[i].opens
    BY <1>2, <2>8
  <2>10. k = n
    <3>1. b[n].opens <= b[k].opens
      BY <2>2, <2>7, <2>9
    <3>2. k < n => b[k].opens < b[n].opens
      BY <1>2
    <3>3. b[k].opens \in Nat /\ b[n].opens \in Nat /\ k <= n
      BY <1>2, <2>3, <2>4
    <3> QED BY <3>1, <3>2, <3>3
  <2> QED BY <1>2, <2>1, <2>2, <2>4, <2>10
<1> DEFINE T == {j \in 0..la : j > 0 => j - 1 < lb /\ a[la - (j - 1)] = b[lb - (j - 1)]}
<1>4. 0 \in T
  BY <1>2
<1>5. ASSUME NEW j \in 1..la, j - 1 \in T PROVE j \in T
  <2>1. j - 1 \in 0..(la - 1)
    BY <1>2
  <2>2. j - 1 > 0 => (j - 1) - 1 < lb /\ a[la - ((j - 1) - 1)] = b[lb - ((j - 1) - 1)]
    BY <1>5
  <2>3. j - 1 < lb /\ a[la - (j - 1)] = b[lb - (j - 1)]
    BY <1>3, <2>1, <2>2
  <2> QED BY <2>3
<1> HIDE DEF T
<1>6. \A j \in 0..la : j \in T
  BY <1>2, <1>4, <1>5, UpTo
<1>7. \A j \in 0..(la - 1) : j < lb /\ a[la - j] = b[lb - j]
  <2> TAKE j \in 0..(la - 1)
  <2>1. j + 1 \in 0..la /\ j + 1 > 0 /\ (j + 1) - 1 = j
    BY <1>2
  <2>2. j + 1 \in T
    BY <1>6, <2>1
  <2> QED BY <2>1, <2>2 DEF T
<1>8. la <= lb
  <2>1. CASE la = 0
    BY <1>2, <2>1
  <2>2. CASE la # 0
    <3>1. la - 1 \in 0..(la - 1)
      BY <1>2, <2>2
    <3>2. la - 1 < lb
      BY <1>7, <3>1
    <3> QED BY <1>2, <3>2
  <2> QED BY <2>1, <2>2
<1> QED BY <1>1, <1>7, <1>8

LEMMA NewestIs ==
  ASSUME NEW S, NEW s \in Seq(S), NEW n \in Nat
  PROVE  LET t == Newest(s, n)
         IN /\ t \in Seq(S) /\ Len(t) = IF Len(s) > n THEN n ELSE Len(s)
            /\ \A i \in 1..Len(t) : t[i] = s[Len(s) - Len(t) + i]
<1>1. Len(s) \in Nat
  OBVIOUS
<1>2. CASE Len(s) > n
  <2>1. Newest(s, n) = SubSeq(s, Len(s) - n + 1, Len(s))
    BY <1>2 DEF Newest
  <2>2. Len(s) - n + 1 \in 1..(Len(s) + 1)
    BY <1>1, <1>2
  <2> QED BY <1>1, <1>2, <2>1, <2>2
<1>3. CASE ~(Len(s) > n)
  <2>1. Newest(s, n) = SubSeq(s, 1, Len(s))
    BY <1>3 DEF Newest
  <2>2. Newest(s, n) = s
    BY <1>1, <2>1
  <2> QED BY <1>1, <1>3, <2>2
<1> QED BY <1>2, <1>3

(* The newest n of the two are the same when the shorter has n of them or  *)
(* all.                                                                    *)
LEMMA NewestAlike ==
  ASSUME NEW a, NEW b, NEW A, NEW B, Enumerates(a, A), Enumerates(b, B), A \subseteq B,
         \A x \in B, y \in A : y.opens <= x.opens => x \in A,
         NEW n \in Nat, Len(a) >= n \/ A = B
  PROVE  Newest(a, n) = Newest(b, n)
<1>1. PICK la, lb : la = Len(a) /\ lb = Len(b)
  OBVIOUS
<1>2. a \in Seq(Klines) /\ b \in Seq(Klines) /\ la \in Nat /\ lb \in Nat
  BY <1>1 DEF Enumerates
<1>3. la <= lb /\ \A j \in 0..(la - 1) : a[la - j] = b[lb - j]
  BY <1>1, EndAlike
<1>4. A = B => la = lb
  <2> SUFFICES ASSUME A = B PROVE la = lb
    OBVIOUS
  <2>1. \A x \in A, y \in B : y.opens <= x.opens => x \in B
    OBVIOUS
  <2>2. Len(b) <= Len(a)
    BY <2>1, EndAlike
  <2> QED BY <1>1, <1>2, <1>3, <2>2
<1> DEFINE s == Newest(a, n)
           t == Newest(b, n)
<1>5. /\ s \in Seq(Klines) /\ Len(s) = (IF la > n THEN n ELSE la)
      /\ \A i \in 1..Len(s) : s[i] = a[la - Len(s) + i]
  BY <1>1, <1>2, NewestIs
<1>6. /\ t \in Seq(Klines) /\ Len(t) = (IF lb > n THEN n ELSE lb)
      /\ \A i \in 1..Len(t) : t[i] = b[lb - Len(t) + i]
  BY <1>1, <1>2, NewestIs
<1> HIDE DEF s, t
<1>7. Len(s) = Len(t) /\ Len(s) <= la
  BY <1>1, <1>2, <1>3, <1>4, <1>5, <1>6
<1>8. ASSUME NEW i \in 1..Len(s) PROVE s[i] = t[i]
  <2>1. PICK j \in 0..(la - 1) : j = Len(s) - i
    <3>1. Len(s) \in Nat /\ Len(s) <= la /\ la \in Nat /\ i \in Nat /\ 1 <= i /\ i <= Len(s)
      BY <1>2, <1>5, <1>7
    <3>2. Len(s) - i \in 0..(la - 1)
      BY <3>1
    <3> QED BY <3>2
  <2>2. la - Len(s) + i = la - j /\ lb - Len(s) + i = lb - j
    BY <1>2, <1>5, <2>1
  <2>3. s[i] = a[la - j] /\ t[i] = b[lb - j]
    <3>1. i \in 1..Len(t) /\ Len(t) = Len(s)
      BY <1>7
    <3>2. s[i] = a[la - Len(s) + i] /\ t[i] = b[lb - Len(s) + i]
      BY <1>5, <1>6, <3>1
    <3> QED BY <2>2, <3>2
  <2> QED BY <1>3, <2>1, <2>3
<1>9. s = t
  <2>1. s = [i \in 1..Len(s) |-> s[i]] /\ t = [i \in 1..Len(t) |-> t[i]]
    BY <1>5, <1>6
  <2> QED BY <1>7, <1>8, <2>1
<1> QED BY <1>9 DEF s, t

-----------------------------------------------------------------------------
(* The rows of the table, and what a read keeps.                           *)
LEMMA RowsAre ==
  ASSUME table \subseteq 1..LastBar
  PROVE  Enumerates(Rows, {Kline(b, TRUE) : b \in table})
<1> USE FeedAssumption
<1> DEFINE S == Seq(Klines)
           more(b, rows) == IF b = 0 THEN <<>>
                            ELSE IF b \in table THEN Append(rows, Kline(b, TRUE)) ELSE rows
           stride == [b \in 1..LastBar |-> [rows \in S |-> more(b, rows)]]
           g == [b \in 1..LastBar |-> Kline(b, TRUE)]
<1>1. \A b \in 1..LastBar : \A rows \in S : more(b, rows) \in S
  <2> TAKE b \in 1..LastBar
  <2>1. PICK x \in Klines : x = Kline(b, TRUE)
    BY KlineIs
  <2>2. <<>> \in S /\ \A rows \in S : Append(rows, x) \in S
    OBVIOUS
  <2> HIDE DEF S
  <2> QED BY <2>1, <2>2, Zenon
<1>2. /\ stride \in [1..LastBar -> [S -> S]]
      /\ \A b \in 1..LastBar : \A rows \in S : stride[b][rows] = more(b, rows)
  BY <1>1
<1>3. <<>> \in S /\ LastBar \in Nat
  OBVIOUS
<1> HIDE DEF stride, S
<1>4. PICK f : Follows(f, LastBar, S, <<>>, stride)
  BY <1>2, <1>3, RecursionExists
<1>5. ASSUME NEW b \in 1..LastBar PROVE f[b] = more(b, f[b - 1])
  <2>1. f[b - 1] \in S
    BY <1>4 DEF Follows
  <2> QED BY <1>2, <1>4, <2>1 DEF Follows
<1>6. \A b \in 0..LastBar : f[b] = more(b, f[b - 1])
  <2> TAKE b \in 0..LastBar
  <2>1. CASE b = 0
    BY <1>4, <2>1 DEF Follows
  <2>2. CASE b # 0
    <3>1. b \in 1..LastBar
      BY <2>2
    <3> QED BY <1>5, <3>1
  <2> QED BY <2>1, <2>2
<1>7. f = [b \in 0..LastBar |-> IF b = 0 THEN <<>>
                               ELSE IF b \in table THEN Append(f[b - 1], Kline(b, TRUE))
                               ELSE f[b - 1]]
  BY <1>4, <1>6, Zenon DEF Follows
<1> DEFINE upTo == CHOOSE h : h = [b \in 0..LastBar |-> IF b = 0 THEN <<>>
                               ELSE IF b \in table THEN Append(h[b - 1], Kline(b, TRUE))
                               ELSE h[b - 1]]
<1>8. upTo = [b \in 0..LastBar |-> IF b = 0 THEN <<>>
                               ELSE IF b \in table THEN Append(upTo[b - 1], Kline(b, TRUE))
                               ELSE upTo[b - 1]]
  BY <1>7, Zenon
<1>9. Rows = upTo[LastBar]
  BY Zenon DEF Rows
<1> HIDE DEF upTo
<1>10. upTo[0] = <<>> /\ \A b \in 1..LastBar : upTo[b] = more(b, upTo[b - 1])
  <2>1. \A b \in 0..LastBar : upTo[b] = more(b, upTo[b - 1])
    BY <1>8, Zenon
  <2>2. \A rows : more(0, rows) = <<>>
    OBVIOUS
  <2> HIDE DEF more
  <2>3. 0 \in 0..LastBar /\ \A b \in 1..LastBar : b \in 0..LastBar
    OBVIOUS
  <2>4. upTo[0] = more(0, upTo[0 - 1])
    BY <2>1, <2>3
  <2> QED BY <2>1, <2>2, <2>3, <2>4
<1>11. /\ g \in [1..LastBar -> Klines]
       /\ \A b \in 1..LastBar : g[b] = Kline(b, TRUE) /\ g[b].opens = b
  BY KlineIs
<1> HIDE DEF g
<1>12. \A b \in 1..LastBar : upTo[b] = IF b \in table THEN Append(upTo[b - 1], g[b]) ELSE upTo[b - 1]
  <2> TAKE b \in 1..LastBar
  <2>1. b # 0
    OBVIOUS
  <2>2. upTo[b] = more(b, upTo[b - 1])
    BY <1>10
  <2> QED BY <1>11, <2>1, <2>2, Zenon
<1>13. \A i, j \in 1..LastBar : i < j => g[i].opens < g[j].opens
  BY <1>11
<1>14. Kept(upTo[LastBar], g, table, LastBar)
  BY <1>3, <1>10, <1>11, <1>12, <1>13, KeepsAll
<1>15. /\ \A i \in 1..Len(Rows) : Rows[i] \in {Kline(b, TRUE) : b \in table}
       /\ \A x \in {Kline(b, TRUE) : b \in table} : Has(Rows, x)
  <2>1. table \cap 1..LastBar = table
    OBVIOUS
  <2>2. \A b \in table : g[b] = Kline(b, TRUE)
    BY <1>11
  <2> QED BY <1>9, <1>14, <2>1, <2>2 DEF Kept
<1> QED BY <1>9, <1>14, <1>15 DEF Kept, Enumerates

(* What _closed_recent takes the newest n of, and how many it has.         *)
LEMMA ClosedAre ==
  ASSUME NEW latest \in Seq(Klines), Ascends(latest)
  PROVE  LET closed[k \in 0..Len(latest)] ==
               IF k = 0 THEN <<>>
               ELSE IF latest[k].closed THEN Append(closed[k - 1], latest[k])
               ELSE closed[k - 1]
         IN Kept(closed[Len(latest)], latest, {k \in 1..Len(latest) : latest[k].closed}, Len(latest))
<1> DEFINE m == Len(latest)
           S == Seq(Klines)
           more(k, rows) == IF k = 0 THEN <<>>
                            ELSE IF latest[k].closed THEN Append(rows, latest[k]) ELSE rows
           stride == [k \in 1..m |-> [rows \in S |-> more(k, rows)]]
           K == {k \in 1..m : latest[k].closed}
<1>1. m \in Nat /\ \A k \in 1..m : latest[k] \in Klines
  OBVIOUS
<1> HIDE DEF m
<1>2. \A k \in 1..m : \A rows \in S : more(k, rows) \in S
  BY <1>1
<1>3. /\ stride \in [1..m -> [S -> S]]
      /\ \A k \in 1..m : \A rows \in S : stride[k][rows] = more(k, rows)
  BY <1>2
<1>4. <<>> \in S
  OBVIOUS
<1> HIDE DEF stride, S
<1>5. PICK f : Follows(f, m, S, <<>>, stride)
  BY <1>1, <1>3, <1>4, RecursionExists
<1>6. ASSUME NEW k \in 1..m PROVE f[k] = more(k, f[k - 1])
  <2>1. f[k - 1] \in S
    BY <1>1, <1>5 DEF Follows
  <2> QED BY <1>3, <1>5, <2>1 DEF Follows
<1>7. \A k \in 0..m : f[k] = more(k, f[k - 1])
  <2> TAKE k \in 0..m
  <2>1. CASE k = 0
    BY <1>5, <2>1 DEF Follows
  <2>2. CASE k # 0
    <3>1. k \in 1..m
      BY <1>1, <2>2
    <3> QED BY <1>6, <3>1
  <2> QED BY <2>1, <2>2
<1>8. f = [k \in 0..m |-> IF k = 0 THEN <<>>
                         ELSE IF latest[k].closed THEN Append(f[k - 1], latest[k])
                         ELSE f[k - 1]]
  BY <1>5, <1>7, Zenon DEF Follows
<1> DEFINE closed == CHOOSE h : h = [k \in 0..m |-> IF k = 0 THEN <<>>
                                   ELSE IF latest[k].closed THEN Append(h[k - 1], latest[k])
                                   ELSE h[k - 1]]
<1>9. closed = [k \in 0..m |-> IF k = 0 THEN <<>>
                              ELSE IF latest[k].closed THEN Append(closed[k - 1], latest[k])
                              ELSE closed[k - 1]]
  BY <1>8, Zenon
<1> HIDE DEF closed
<1>10. closed[0] = <<>> /\ \A k \in 1..m : closed[k] = more(k, closed[k - 1])
  <2>1. \A k \in 0..m : closed[k] = more(k, closed[k - 1])
    BY <1>9, Zenon
  <2> QED BY <1>1, <2>1
<1>11. \A k \in 1..m : closed[k] = IF k \in K THEN Append(closed[k - 1], latest[k]) ELSE closed[k - 1]
  BY <1>1, <1>10
<1>12. \A i, j \in 1..m : i < j => latest[i].opens < latest[j].opens
  BY DEF Ascends, m
<1>13. latest \in [1..m -> Klines]
  BY DEF m
<1>14. Kept(closed[m], latest, K, m)
  <2> HIDE DEF K
  <2> QED BY <1>1, <1>10, <1>11, <1>12, <1>13, KeepsAll
<1> QED BY <1>14 DEF closed, m

-----------------------------------------------------------------------------
(* What is on its way: the reports of a bar follow each other, the last    *)
(* one when it closes, and those of a later bar after them.                *)
Open(b) == Kline(b, FALSE)
Shut(b) == Kline(b, TRUE)
Before(x, y) == x.opens < y.opens \/ (x.opens = y.opens /\ ~x.closed)
Els(s) == {s[i] : i \in 1..Len(s)}
InTurn(s) == \A i, j \in 1..Len(s) : i < j => Before(s[i], s[j])
Leads(s, q) == \A x \in Els(s), y \in Els(q) : Before(x, y)

LEMMA OpenAndShut ==
  /\ \A b \in 1..LastBar : /\ Open(b) \in Klines /\ Open(b).opens = b /\ ~Open(b).closed
                           /\ Shut(b) \in Klines /\ Shut(b).opens = b /\ Shut(b).closed
  /\ \A x \in Klines : x.opens \in 1..LastBar /\ x = IF x.closed THEN Shut(x.opens) ELSE Open(x.opens)
  /\ \A x \in Klines : x.opens \in Nat
BY DEF Open, Shut, Kline, Klines

LEMMA AppendEls ==
  ASSUME NEW s \in Seq(Klines), NEW x \in Klines
  PROVE  /\ Append(s, x) \in Seq(Klines) /\ Els(Append(s, x)) = Els(s) \cup {x}
         /\ InTurn(s) /\ (\A y \in Els(s) : Before(y, x)) => InTurn(Append(s, x))
<1> DEFINE more == Append(s, x)
<1>1. /\ more \in Seq(Klines) /\ Len(s) \in Nat /\ Len(more) = Len(s) + 1
      /\ more[Len(s) + 1] = x /\ \A i \in 1..Len(s) : more[i] = s[i]
  OBVIOUS
<1> HIDE DEF more
<1>2. 1..Len(more) = (1..Len(s)) \cup {Len(s) + 1}
  BY <1>1
<1>3. Els(more) = Els(s) \cup {x}
  BY <1>1, <1>2 DEF Els
<1>4. ASSUME InTurn(s), \A y \in Els(s) : Before(y, x) PROVE InTurn(more)
  <2> SUFFICES ASSUME NEW i \in 1..Len(more), NEW j \in 1..Len(more), i < j
               PROVE  Before(more[i], more[j])
    BY DEF InTurn
  <2>1. i \in 1..Len(s) /\ more[i] = s[i] /\ s[i] \in Els(s)
    BY <1>1 DEF Els
  <2>2. CASE j \in 1..Len(s)
    BY <1>1, <1>4, <2>1, <2>2 DEF InTurn
  <2>3. CASE j = Len(s) + 1
    BY <1>1, <1>4, <2>1, <2>3
  <2> QED BY <1>2, <2>2, <2>3
<1> QED BY <1>1, <1>3, <1>4 DEF more

LEMMA TailEls ==
  ASSUME NEW s \in Seq(Klines), s # <<>>
  PROVE  /\ Head(s) \in Klines /\ Tail(s) \in Seq(Klines)
         /\ Els(s) = {Head(s)} \cup Els(Tail(s))
         /\ InTurn(s) => InTurn(Tail(s)) /\ \A y \in Els(Tail(s)) : Before(Head(s), y)
<1> DEFINE less == Tail(s)
           x == Head(s)
<1>1. /\ Len(s) \in Nat /\ less \in Seq(Klines) /\ Len(less) = Len(s) - 1 /\ Len(less) \in Nat
      /\ x = s[1] /\ x \in Klines /\ 1 \in 1..Len(s) /\ \A i \in 1..Len(less) : less[i] = s[i + 1]
  OBVIOUS
<1> HIDE DEF less, x
<1>2. /\ \A i \in 1..Len(less) : i + 1 \in 1..Len(s)
      /\ \A i \in 1..Len(s) : i = 1 \/ (i - 1 \in 1..Len(less) /\ (i - 1) + 1 = i)
  BY <1>1
<1>3. Els(s) = {x} \cup Els(less)
  <2>1. Els(s) \subseteq {x} \cup Els(less)
    <3> SUFFICES ASSUME NEW i \in 1..Len(s) PROVE s[i] \in {x} \cup Els(less)
      BY DEF Els
    <3>1. CASE i = 1
      BY <1>1, <3>1
    <3>2. CASE i # 1
      <4>1. PICK j \in 1..Len(less) : j + 1 = i
        BY <1>2, <3>2
      <4>2. less[j] = s[i]
        BY <1>1, <4>1
      <4> QED BY <4>2 DEF Els
    <3> QED BY <3>1, <3>2
  <2>2. {x} \cup Els(less) \subseteq Els(s)
    BY <1>1, <1>2 DEF Els
  <2> QED BY <2>1, <2>2
<1>4. ASSUME InTurn(s) PROVE InTurn(less) /\ \A y \in Els(less) : Before(x, y)
  <2>1. ASSUME NEW i \in 1..Len(less), NEW j \in 1..Len(less), i < j PROVE Before(less[i], less[j])
    <3>1. i + 1 \in 1..Len(s) /\ j + 1 \in 1..Len(s) /\ i + 1 < j + 1
      BY <1>2, <2>1
    <3> QED BY <1>1, <1>4, <3>1 DEF InTurn
  <2>2. ASSUME NEW i \in 1..Len(less) PROVE Before(x, less[i])
    <3>1. i + 1 \in 1..Len(s) /\ 1 \in 1..Len(s) /\ 1 < i + 1
      BY <1>1, <1>2
    <3> QED BY <1>1, <1>4, <3>1 DEF InTurn
  <2> QED BY <2>1, <2>2 DEF InTurn, Els
<1> QED BY <1>1, <1>3, <1>4 DEF less, x

(* The cache keeps its newest bars, and of a bar the last report.          *)
LEMMA CachedIs ==
  ASSUME cache \in Seq(Klines), Ascends(cache), Len(cache) <= CacheLimit,
         NEW k \in Klines, \A y \in Els(cache) : Before(y, k)
  PROVE  LET c == Cached(k)
         IN /\ c \in Seq(Klines) /\ Ascends(c) /\ Len(c) <= CacheLimit
            /\ Len(cache) = CacheLimit => Len(c) = CacheLimit
            /\ k \in Els(c) /\ Els(c) \subseteq Els(cache) \cup {k}
            /\ \A y \in Els(cache) :
                 \/ y \in Els(c)
                 \/ ~y.closed /\ y.opens = k.opens
                 \/ Len(c) = CacheLimit /\ \A z \in Els(c) : y.opens < z.opens
<1> USE FeedAssumption
<1>1. PICK h, n : h = cache /\ n = Len(cache)
  OBVIOUS
<1>2. /\ h \in Seq(Klines) /\ n \in Nat /\ Len(h) = n /\ n <= CacheLimit
      /\ \A i \in 1..n : h[i] \in Klines /\ h[i].opens \in Nat
      /\ \A i, j \in 1..n : i < j => h[i].opens < h[j].opens
      /\ \A i \in 1..n : Before(h[i], k)
      /\ k.opens \in Nat
  BY <1>1, OpenAndShut DEF Ascends, Els
<1> DEFINE c == Cached(k)
           Shifts(d, q) ==
         /\ c \in Seq(Klines) /\ Len(c) = d + 1 /\ d + 1 <= CacheLimit /\ c[d + 1] = k
         /\ n = CacheLimit => d + 1 = CacheLimit
         /\ q + d <= n
         /\ \A i \in 1..d : c[i] = h[q + i] /\ h[q + i].opens < k.opens
         /\ \A i \in 1..n : \/ i - q \in 1..d
                            \/ ~h[i].closed /\ h[i].opens = k.opens
                            \/ i <= q /\ d + 1 = CacheLimit /\ h[i].opens < k.opens
(* The new list is d candles of the old one, q places on, and k.           *)
<1>3. PICK d \in 0..n, q \in 0..n : Shifts(d, q)
  <2>1. CASE cache # <<>> /\ Last(cache).opens = k.opens
    <3>1. c = Front(cache) \o <<k>>
      BY <2>1 DEF Cached
    <3>2. Front(cache) = SubSeq(h, 1, n - 1) /\ Last(cache) = h[n] /\ n \in 1..n
      BY <1>1, <1>2, <2>1 DEF Front, Last
    <3>3. PICK f : f = SubSeq(h, 1, n - 1)
      OBVIOUS
    <3>4. f \in Seq(Klines) /\ Len(f) = n - 1 /\ n - 1 \in 0..n /\ \A i \in 1..(n - 1) : f[i] = h[i]
      BY <1>2, <3>2, <3>3
    <3>5. /\ c \in Seq(Klines) /\ Len(c) = (n - 1) + 1 /\ c[(n - 1) + 1] = k
          /\ \A i \in 1..(n - 1) : c[i] = h[0 + i]
      BY <1>2, <3>1, <3>2, <3>3, <3>4
    <3>6. h[n].opens = k.opens /\ ~h[n].closed
      BY <1>2, <2>1, <3>2 DEF Before
    <3>7. \A i \in 1..(n - 1) : h[0 + i].opens < k.opens
      BY <1>2, <3>2, <3>6
    <3>8. \A i \in 1..n : i - 0 \in 1..(n - 1) \/ (~h[i].closed /\ h[i].opens = k.opens)
      BY <1>2, <3>6
    <3> HIDE DEF c
    <3>9. n - 1 \in 0..n /\ 0 \in 0..n /\ (n - 1) + 1 = n /\ 0 + (n - 1) <= n
      BY <1>2, <3>2
    <3>10. Shifts(n - 1, 0)
      BY <1>2, <3>5, <3>7, <3>8, <3>9
    <3> HIDE DEF Shifts
    <3> QED BY <3>9, <3>10
  <2>2. CASE ~(cache # <<>> /\ Last(cache).opens = k.opens)
    <3>1. c = Newest(Append(h, k), CacheLimit)
      BY <1>1, <2>2 DEF Cached
    <3>2. PICK a : a = Append(h, k)
      OBVIOUS
    <3>3. /\ a \in Seq(Klines) /\ Len(a) = n + 1 /\ a[n + 1] = k /\ \A i \in 1..n : a[i] = h[i]
      BY <1>2, <3>2
    <3>4. PICK d : d = IF n + 1 > CacheLimit THEN CacheLimit - 1 ELSE n
      OBVIOUS
    <3>5. d \in Nat /\ d \in 0..n /\ d + 1 <= CacheLimit /\ (n = CacheLimit => d + 1 = CacheLimit)
          /\ n - d \in 0..n /\ (n - d) + d <= n
      BY <1>2, <3>4
    <3>6. /\ c \in Seq(Klines) /\ Len(c) = d + 1
          /\ \A i \in 1..(d + 1) : c[i] = a[(n + 1) - (d + 1) + i]
      <4>1. LET t == Newest(a, CacheLimit)
            IN /\ t \in Seq(Klines) /\ Len(t) = IF Len(a) > CacheLimit THEN CacheLimit ELSE Len(a)
               /\ \A i \in 1..Len(t) : t[i] = a[Len(a) - Len(t) + i]
        BY <3>3, NewestIs
      <4>2. Len(c) = d + 1
        BY <1>2, <3>1, <3>2, <3>3, <3>4, <4>1
      <4>3. c \in Seq(Klines) /\ \A i \in 1..Len(c) : c[i] = a[Len(a) - Len(c) + i]
        BY <3>1, <3>2, <4>1
      <4> QED BY <3>3, <4>2, <4>3
    <3> HIDE DEF c
    <3>7. c[d + 1] = k
      <4>1. d + 1 \in 1..(d + 1) /\ (n + 1) - (d + 1) + (d + 1) = n + 1
        BY <1>2, <3>5
      <4> QED BY <3>3, <3>6, <4>1
    <3>8. \A i \in 1..d : c[i] = h[(n - d) + i]
      <4> TAKE i \in 1..d
      <4>1. i \in 1..(d + 1) /\ (n + 1) - (d + 1) + i = (n - d) + i /\ (n - d) + i \in 1..n
        BY <1>2, <3>5
      <4> QED BY <3>3, <3>6, <4>1
    <3>9. \A i \in 1..n : h[i].opens < k.opens
      <4>1. CASE n = 0
        BY <4>1
      <4>2. CASE n # 0
        <5>1. Last(cache) = h[n] /\ n \in 1..n /\ cache # <<>>
          BY <1>1, <1>2, <4>2 DEF Last
        <5>2. h[n].opens < k.opens
          BY <1>2, <2>2, <5>1 DEF Before
        <5> QED BY <1>2, <5>1, <5>2
      <4> QED BY <4>1, <4>2
    <3>10. \A i \in 1..d : h[(n - d) + i].opens < k.opens
      <4> TAKE i \in 1..d
      <4>1. (n - d) + i \in 1..n
        BY <1>2, <3>5
      <4> QED BY <3>9, <4>1
    <3>11. \A i \in 1..n : i - (n - d) \in 1..d
                           \/ (i <= n - d /\ d + 1 = CacheLimit /\ h[i].opens < k.opens)
      <4> TAKE i \in 1..n
      <4>1. i <= n - d => d + 1 = CacheLimit
        BY <1>2, <3>4, <3>5
      <4>2. ~(i <= n - d) => i - (n - d) \in 1..d
        BY <1>2, <3>5
      <4> QED BY <3>9, <4>1, <4>2
    <3>12. Shifts(d, n - d)
      BY <3>5, <3>6, <3>7, <3>8, <3>10, <3>11
    <3> HIDE DEF Shifts
    <3> QED BY <3>5, <3>12
  <2> QED BY <2>1, <2>2
<1> HIDE DEF c
<1>4. \A i \in 1..d : q + i \in 1..n /\ h[q + i].opens \in Nat
  <2> TAKE i \in 1..d
  <2>1. q + i \in 1..n
    BY <1>2, <1>3
  <2> QED BY <1>2, <2>1
<1>5. 1..(d + 1) = (1..d) \cup {d + 1} /\ d + 1 \in 1..(d + 1)
  BY <1>3
<1>6. ASSUME NEW i \in 1..Len(c), NEW j \in 1..Len(c), i < j PROVE c[i].opens < c[j].opens
  <2>1. i \in 1..d /\ c[i] = h[q + i]
    BY <1>3, <1>6
  <2>2. CASE j \in 1..d
    <3>1. q + i \in 1..n /\ q + j \in 1..n /\ q + i < q + j /\ c[j] = h[q + j]
      <4>1. q + i < q + j
        BY <1>6, <2>1, <2>2
      <4> QED BY <1>3, <1>4, <2>1, <2>2, <4>1
    <3> QED BY <1>2, <2>1, <3>1
  <2>3. CASE j = d + 1
    BY <1>3, <2>1, <2>3
  <2> QED BY <1>3, <1>5, <2>2, <2>3
<1>7. Els(c) \subseteq Els(cache) \cup {k} /\ k \in Els(c)
  <2>1. ASSUME NEW i \in 1..Len(c) PROVE c[i] \in Els(cache) \cup {k}
    <3>1. CASE i \in 1..d
      BY <1>1, <1>3, <1>4, <3>1 DEF Els
    <3>2. CASE i = d + 1
      BY <1>3, <3>2
    <3> QED BY <1>3, <1>5, <3>1, <3>2
  <2>2. k \in Els(c)
    BY <1>3, <1>5 DEF Els
  <2> QED BY <2>1, <2>2 DEF Els
<1>8. ASSUME NEW i \in 1..n
      PROVE  \/ h[i] \in Els(c)
             \/ ~h[i].closed /\ h[i].opens = k.opens
             \/ Len(c) = CacheLimit /\ \A z \in Els(c) : h[i].opens < z.opens
  <2>1. CASE i - q \in 1..d
    <3>1. q + (i - q) = i /\ i - q \in 1..Len(c)
      BY <1>2, <1>3, <2>1
    <3>2. c[i - q] = h[i]
      BY <1>3, <2>1, <3>1
    <3> QED BY <3>1, <3>2 DEF Els
  <2>2. CASE i <= q /\ d + 1 = CacheLimit /\ h[i].opens < k.opens
    <3>1. ASSUME NEW j \in 1..Len(c) PROVE h[i].opens < c[j].opens
      <4>1. CASE j \in 1..d
        <5>1. q + j \in 1..n /\ i < q + j /\ c[j] = h[q + j]
          <6>1. i < q + j
            BY <2>2, <4>1
          <6> QED BY <1>3, <1>4, <4>1, <6>1
        <5> QED BY <1>2, <5>1
      <4>2. CASE j = d + 1
        BY <1>3, <2>2, <4>2
      <4> QED BY <1>3, <1>5, <4>1, <4>2
    <3> QED BY <1>3, <2>2, <3>1 DEF Els
  <2> QED BY <1>3, <2>1, <2>2
<1>9. \A y \in Els(cache) :
        \/ y \in Els(c)
        \/ ~y.closed /\ y.opens = k.opens
        \/ Len(c) = CacheLimit /\ \A z \in Els(c) : y.opens < z.opens
  BY <1>1, <1>8 DEF Els
<1>10. /\ c \in Seq(Klines) /\ Ascends(c) /\ Len(c) <= CacheLimit
       /\ Len(cache) = CacheLimit => Len(c) = CacheLimit
  BY <1>1, <1>3, <1>6 DEF Ascends
<1> QED BY <1>7, <1>9, <1>10 DEF c

-----------------------------------------------------------------------------
(* The bars of which a report is on its way or in the cache, and not the   *)
(* last one; those that will not be ended by the connection that is up are *)
(* as many as there were losses at most.                                   *)
Piped == Els(cache) \cup Els(bus) \cup Els(wire)
Unended == {b \in 1..LastBar : Open(b) \in Piped /\ Shut(b) \notin Piped}
Missing == Unended \ (IF up THEN {bar} ELSE {})

FeedTypes ==
  /\ bar \in 1..LastBar /\ up \in BOOLEAN /\ losses \in Nat
  /\ cache \in Seq(Klines) /\ bus \in Seq(Klines) /\ wire \in Seq(Klines)
  /\ table \subseteq 1..(bar - 1)

FeedOrder ==
  /\ Ascends(cache) /\ InTurn(bus) /\ InTurn(wire)
  /\ Leads(cache, bus) /\ Leads(cache, wire) /\ Leads(bus, wire)
  /\ \A x \in Piped : Before(x, Open(bar))
  /\ \A t \in table, x \in Els(bus) \cup Els(wire) : Before(Shut(t), x)

TableKept ==
  /\ Len(cache) <= CacheLimit
  /\ \A x \in Els(cache) : x.closed => x.opens \in table
  /\ \A t \in table : \/ Shut(t) \in Els(cache)
                      \/ Len(cache) = CacheLimit /\ \A x \in Els(cache) : t < x.opens

FeedInv == FeedTypes /\ FeedOrder /\ TableKept /\ Cardinality(Missing) <= losses

LEMMA FewerMissing ==
  ASSUME NEW m, NEW more, more \subseteq 1..LastBar, m \subseteq more, NEW n \in Nat, Cardinality(more) <= n
  PROVE  Cardinality(m) <= n
<1>1. IsFiniteSet(more)
  <2>1. IsFiniteSet(1..LastBar)
    <3>1. 1 \in Int /\ LastBar \in Int
      BY FeedAssumption
    <3> QED BY <3>1, FS_Interval
  <2> QED BY <2>1, FS_Subset
<1>2. IsFiniteSet(m) /\ Cardinality(m) <= Cardinality(more)
  BY <1>1, FS_Subset
<1> QED BY <1>1, <1>2, FS_CardinalityType

LEMMA OneMoreMissing ==
  ASSUME NEW m, NEW more, more \subseteq 1..LastBar, m \subseteq 1..LastBar, NEW n \in Nat,
         Cardinality(more) <= n, \A b, c \in m \ more : b = c
  PROVE  Cardinality(m) <= n + 1
<1>1. IsFiniteSet(more)
  <2>1. IsFiniteSet(1..LastBar)
    <3>1. 1 \in Int /\ LastBar \in Int
      BY FeedAssumption
    <3> QED BY <3>1, FS_Interval
  <2> QED BY <2>1, FS_Subset
<1>2. PICK b : m \subseteq more \cup {b}
  <2>1. CASE m \subseteq more
    BY <2>1
  <2>2. CASE \E b \in m : b \notin more
    <3>1. PICK b \in m : b \notin more
      BY <2>2
    <3> QED BY <3>1
  <2> QED BY <2>1, <2>2
<1>3. IsFiniteSet(more \cup {b}) /\ Cardinality(more \cup {b}) <= n + 1
  <2>1. Cardinality(more) \in Nat
    BY <1>1, FS_CardinalityType
  <2>2. /\ IsFiniteSet(more \cup {b})
        /\ Cardinality(more \cup {b}) = IF b \in more THEN Cardinality(more) ELSE Cardinality(more) + 1
    BY <1>1, FS_AddElement
  <2> QED BY <2>1, <2>2
<1>4. IsFiniteSet(m) /\ Cardinality(m) <= Cardinality(more \cup {b})
  BY <1>2, <1>3, FS_Subset
<1> QED BY <1>3, <1>4, FS_CardinalityType

LEMMA FeedStarts == ASSUME FeedInit PROVE FeedInv
<1> USE FeedAssumption
<1>1. /\ bar = 1 /\ up = FALSE /\ losses = 0 /\ table = {}
      /\ cache = <<>> /\ bus = <<>> /\ wire = <<>>
  BY DEF FeedInit
<1>2. Els(<<>>) = {}
  BY DEF Els
<1>3. Piped = {}
  BY <1>1, <1>2 DEF Piped
<1>4. Missing = {}
  BY <1>3 DEF Missing, Unended
<1>5. Cardinality(Missing) <= losses
  <2>1. Cardinality({}) = 0
    BY FS_EmptySet
  <2> QED BY <1>1, <1>4, <2>1
<1>6. FeedTypes
  <2>1. up \in BOOLEAN
    BY <1>1, Zenon
  <2>2. bar \in 1..LastBar /\ <<>> \in Seq(Klines)
    BY <1>1
  <2> QED BY <1>1, <2>1, <2>2 DEF FeedTypes
<1>7. FeedOrder
  BY <1>1, <1>2, <1>3 DEF FeedOrder, Ascends, InTurn, Leads
<1>8. TableKept
  BY <1>1, <1>2 DEF TableKept
<1> QED BY <1>5, <1>6, <1>7, <1>8 DEF FeedInv

(* The connection: what is added to the wire comes after all that is there. *)
LEMMA Wired ==
  ASSUME FeedInv, NEW x \in Klines, \A y \in Piped : Before(y, x),
         \A t \in table : Before(Shut(t), x),
         wire' = Append(wire, x), bar' \in 1..LastBar, bar <= bar', Before(x, Open(bar')),
         UNCHANGED <<up, bus, cache, table, losses>>
  PROVE  /\ FeedTypes' /\ FeedOrder' /\ TableKept'
         /\ Piped' = Piped \cup {x}
<1>1. wire' \in Seq(Klines) /\ Els(wire') = Els(wire) \cup {x} /\ InTurn(wire')
  BY AppendEls DEF FeedInv, FeedTypes, FeedOrder, Piped
<1>2. Piped' = Piped \cup {x}
  BY <1>1 DEF Piped
<1>3. FeedTypes'
  <2>1. bar \in Nat /\ bar' \in Nat
    BY FeedAssumption DEF FeedInv, FeedTypes
  <2>2. 1..(bar - 1) \subseteq 1..(bar' - 1)
    <3>1. \A b, c \in Nat : b <= c => 1..(b - 1) \subseteq 1..(c - 1)
      OBVIOUS
    <3> QED BY <2>1, <3>1
  <2> QED BY <1>1, <2>2 DEF FeedInv, FeedTypes
<1>4. FeedOrder'
  <2>1. \A y \in Piped : Before(y, Open(bar'))
    <3> TAKE y \in Piped
    <3>1. Before(y, Open(bar)) /\ y.opens \in Nat
      <4>1. Before(y, Open(bar))
        BY DEF FeedInv, FeedOrder
      <4>2. cache \in Seq(Klines) /\ bus \in Seq(Klines) /\ wire \in Seq(Klines)
        BY DEF FeedInv, FeedTypes
      <4>3. y \in Klines
        BY <4>2 DEF Piped, Els
      <4> QED BY <4>1, <4>3, OpenAndShut
    <3>2. Open(bar).opens = bar /\ Open(bar').opens = bar' /\ bar \in Nat /\ bar' \in Nat
      BY OpenAndShut, FeedAssumption DEF FeedInv, FeedTypes
    <3> QED BY <3>1, <3>2 DEF Before
  <2>2. \A y \in Piped' : Before(y, Open(bar'))
    BY <1>2, <2>1
  <2>3. Leads(cache, wire') /\ Leads(bus, wire')
    BY <1>1 DEF FeedInv, FeedOrder, Leads, Piped
  <2>4. \A t \in table, y \in Els(bus) \cup Els(wire') : Before(Shut(t), y)
    BY <1>1 DEF FeedInv, FeedOrder
  <2> QED BY <1>1, <2>2, <2>3, <2>4 DEF FeedInv, FeedOrder
<1>5. TableKept'
  BY DEF FeedInv, TableKept
<1> QED BY <1>2, <1>3, <1>4, <1>5

LEMMA MissingTypes == Missing \subseteq 1..LastBar /\ Unended \subseteq 1..LastBar
BY DEF Missing, Unended

LEMMA ReportStep == ASSUME FeedInv, BarReported PROVE FeedInv'
<1> USE FeedAssumption
<1> DEFINE x == Open(bar)
<1>1. /\ up /\ wire' = Append(wire, x)
      /\ bar' = bar /\ UNCHANGED <<up, bus, cache, table, losses>>
  BY DEF BarReported, Open
<1>2. /\ bar \in 1..LastBar /\ x \in Klines /\ x.opens = bar /\ ~x.closed
      /\ losses \in Nat /\ table \subseteq 1..(bar - 1) /\ Cardinality(Missing) <= losses
      /\ \A y \in Piped : Before(y, x)
  BY OpenAndShut DEF FeedInv, FeedTypes, FeedOrder
<1>3. \A t \in table : Before(Shut(t), x)
  <2> TAKE t \in table
  <2>1. t \in 1..LastBar /\ t < bar
    BY <1>2
  <2>2. Shut(t).opens = t
    BY <2>1, OpenAndShut
  <2> QED BY <1>2, <2>1, <2>2 DEF Before
<1> HIDE DEF x
<1>4. Before(x, x) /\ x = Open(bar')
  BY <1>1, <1>2 DEF Before, x
<1>5. FeedTypes' /\ FeedOrder' /\ TableKept' /\ Piped' = Piped \cup {x}
  <2>1. bar' \in 1..LastBar /\ bar <= bar' /\ Before(x, Open(bar'))
    BY <1>1, <1>2, <1>4
  <2>2. wire' = Append(wire, x) /\ UNCHANGED <<up, bus, cache, table, losses>>
    BY <1>1
  <2> QED BY <1>2, <1>3, <2>1, <2>2, Wired
<1>6. Missing' \subseteq Missing
  <2> SUFFICES ASSUME NEW b \in 1..LastBar, b # bar, Open(b) \in Piped', Shut(b) \notin Piped'
               PROVE  b \in Missing
    BY <1>1 DEF Missing, Unended
  <2>1. Open(b) # x
    BY <1>2, OpenAndShut
  <2> QED BY <1>1, <1>5, <2>1 DEF Missing, Unended
<1>7. Cardinality(Missing') <= losses
  BY <1>2, <1>6, MissingTypes, FewerMissing
<1> QED BY <1>1, <1>5, <1>7 DEF FeedInv

LEMMA EndStep == ASSUME FeedInv, BarEnds PROVE FeedInv'
<1> USE FeedAssumption
<1> DEFINE x == Shut(bar)
<1>1. /\ bar < LastBar /\ bar' = bar + 1 /\ UNCHANGED <<up, bus, cache, table, losses>>
      /\ wire' = IF up THEN Append(wire, x) ELSE wire
  BY DEF BarEnds, Shut
<1>2. /\ bar \in 1..LastBar /\ bar' \in 1..LastBar /\ bar <= bar'
      /\ losses \in Nat /\ table \subseteq 1..(bar - 1) /\ Cardinality(Missing) <= losses
      /\ \A y \in Piped : Before(y, Open(bar))
      /\ \A y \in Piped : y \in Klines /\ y.opens \in Nat
  <2>1. \A y \in Piped : y \in Klines
    BY DEF FeedInv, FeedTypes, Piped, Els
  <2> QED BY <1>1, <2>1, OpenAndShut DEF FeedInv, FeedTypes, FeedOrder
<1>3. /\ x \in Klines /\ x.opens = bar /\ Open(bar).opens = bar /\ ~Open(bar).closed
      /\ Open(bar').opens = bar + 1
  BY <1>1, <1>2, OpenAndShut
<1> HIDE DEF x
<1>4. \A y \in Piped : Before(y, x) /\ Before(y, Open(bar'))
  <2> TAKE y \in Piped
  <2>1. Before(y, Open(bar)) /\ y.opens \in Nat /\ bar \in Nat
    BY <1>2
  <2> QED BY <1>3, <2>1 DEF Before
<1>5. CASE up
  <2>1. \A t \in table : Before(Shut(t), x)
    <3> TAKE t \in table
    <3>1. t \in 1..LastBar /\ t < bar
      BY <1>2
    <3>2. Shut(t).opens = t
      BY <3>1, OpenAndShut
    <3> QED BY <1>3, <3>1, <3>2 DEF Before
  <2>2. Before(x, Open(bar'))
    BY <1>2, <1>3 DEF Before
  <2>3. FeedTypes' /\ FeedOrder' /\ TableKept' /\ Piped' = Piped \cup {x}
    <3>1. wire' = Append(wire, x) /\ UNCHANGED <<up, bus, cache, table, losses>>
      BY <1>1, <1>5
    <3> QED BY <1>2, <1>3, <1>4, <2>1, <2>2, <3>1, Wired
  <2>4. Missing' \subseteq Missing
    <3> SUFFICES ASSUME NEW b \in 1..LastBar, Open(b) \in Piped', Shut(b) \notin Piped'
                 PROVE  b \in Missing
      BY <1>1 DEF Missing, Unended
    <3>1. b # bar
      BY <2>3 DEF x
    <3>2. Open(b) # x
      BY <1>2, OpenAndShut DEF x
    <3> QED BY <1>5, <2>3, <3>1, <3>2 DEF Missing, Unended
  <2>5. Cardinality(Missing') <= losses
    BY <1>2, <2>4, MissingTypes, FewerMissing
  <2> QED BY <1>1, <2>3, <2>5 DEF FeedInv
<1>6. CASE ~up
  <2>1. wire' = wire /\ UNCHANGED <<up, bus, cache, table, losses>>
    BY <1>1, <1>6
  <2>2. Piped' = Piped
    BY <2>1 DEF Piped
  <2>3. Missing' = Missing
    BY <1>6, <2>1, <2>2 DEF Missing, Unended
  <2>4. FeedTypes'
    <3>1. bar \in Nat /\ bar' \in Nat
      BY <1>2
    <3>2. \A b, c \in Nat : b <= c => 1..(b - 1) \subseteq 1..(c - 1)
      OBVIOUS
    <3>3. table \subseteq 1..(bar' - 1)
      BY <1>2, <3>1, <3>2
    <3> QED BY <1>2, <2>1, <3>3 DEF FeedInv, FeedTypes
  <2>5. FeedOrder'
    BY <1>4, <2>1, <2>2 DEF FeedInv, FeedOrder
  <2>6. TableKept'
    BY <2>1 DEF FeedInv, TableKept
  <2> QED BY <1>2, <2>1, <2>3, <2>4, <2>5, <2>6 DEF FeedInv
<1> QED BY <1>5, <1>6

LEMMA ConnectStep == ASSUME FeedInv, Connect PROVE FeedInv'
<1>1. ~up /\ up' = TRUE /\ UNCHANGED <<bar, wire, bus, cache, table, losses>>
  BY DEF Connect
<1>2. Piped' = Piped
  BY <1>1 DEF Piped
<1>3. Missing' \subseteq Missing
  BY <1>1, <1>2 DEF Missing, Unended
<1>4. Cardinality(Missing') <= losses
  BY <1>3, MissingTypes, FewerMissing DEF FeedInv, FeedTypes
<1>5. FeedTypes'
  <2>1. up' \in BOOLEAN
    BY <1>1, Zenon
  <2> QED BY <1>1, <2>1 DEF FeedInv, FeedTypes
<1>6. FeedOrder' /\ TableKept'
  BY <1>1, <1>2 DEF FeedInv, FeedOrder, TableKept
<1> QED BY <1>1, <1>4, <1>5, <1>6 DEF FeedInv

(* A bar that the connection does not end any more is the last of which a  *)
(* report has left the wire.                                               *)
LEMMA DisconnectStep == ASSUME FeedInv, Disconnect PROVE FeedInv'
<1>1. /\ up /\ up' = FALSE /\ wire' = <<>> /\ losses' = losses + 1
      /\ UNCHANGED <<bar, bus, cache, table>>
  BY DEF Disconnect
<1>2. Els(wire') = {} /\ <<>> \in Seq(Klines) /\ InTurn(wire')
  BY <1>1 DEF Els, InTurn
<1>3. Piped' = Els(cache) \cup Els(bus) /\ Piped' \subseteq Piped
  BY <1>1, <1>2 DEF Piped
<1>4. FeedTypes'
  <2>1. up' \in BOOLEAN
    BY <1>1, Zenon
  <2>2. losses' \in Nat
    BY <1>1 DEF FeedInv, FeedTypes
  <2> QED BY <1>1, <1>2, <2>1, <2>2 DEF FeedInv, FeedTypes
<1>5. FeedOrder'
  BY <1>1, <1>2, <1>3 DEF FeedInv, FeedOrder, Leads
<1>6. TableKept'
  BY <1>1 DEF FeedInv, TableKept
<1>7. \A b, c \in Missing' \ Missing : b = c
  <2>1. ASSUME NEW b \in Missing' \ Missing, NEW c \in Missing' PROVE c <= b
    <3>1. /\ b \in 1..LastBar /\ c \in 1..LastBar /\ Open(c) \in Piped' /\ Open(b) \in Piped'
          /\ Shut(b) \notin Piped'
      BY <2>1 DEF Missing, Unended
    <3>2. Shut(b) \in Els(wire) \/ b = bar
      BY <1>1, <1>3, <2>1, <3>1 DEF Missing, Unended, Piped
    <3>3. /\ Open(c).opens = c /\ Shut(b).opens = b /\ Open(bar).opens = bar
          /\ b \in Nat /\ c \in Nat
      BY <3>1, OpenAndShut DEF FeedInv, FeedTypes
    <3>4. CASE Shut(b) \in Els(wire)
      <4>1. Before(Open(c), Shut(b))
        BY <1>3, <3>1, <3>4 DEF FeedInv, FeedOrder, Leads
      <4> QED BY <3>3, <4>1 DEF Before
    <3>5. CASE b = bar
      <4>1. Before(Open(c), Open(bar))
        BY <1>3, <3>1 DEF FeedInv, FeedOrder
      <4> QED BY <3>3, <3>5, <4>1 DEF Before
    <3> QED BY <3>2, <3>4, <3>5
  <2> TAKE b, c \in Missing' \ Missing
  <2>2. c <= b /\ b <= c
    BY <2>1
  <2>3. b \in Nat /\ c \in Nat
    BY DEF Missing, Unended
  <2> QED BY <2>2, <2>3
<1>8. Cardinality(Missing') <= losses + 1
  <2>1. Missing' \subseteq 1..LastBar /\ Missing \subseteq 1..LastBar
    BY DEF Missing, Unended
  <2>2. losses \in Nat /\ Cardinality(Missing) <= losses
    BY DEF FeedInv, FeedTypes
  <2> QED BY <1>7, <2>1, <2>2, OneMoreMissing
<1> QED BY <1>1, <1>4, <1>5, <1>6, <1>8 DEF FeedInv

LEMMA PublishStep == ASSUME FeedInv, Publish PROVE FeedInv'
<1> DEFINE x == Head(wire)
<1>1. /\ wire # <<>> /\ bus' = Append(bus, x) /\ wire' = Tail(wire)
      /\ UNCHANGED <<bar, up, cache, table, losses>>
  BY DEF Publish
<1>2. /\ wire \in Seq(Klines) /\ bus \in Seq(Klines) /\ InTurn(wire) /\ InTurn(bus)
      /\ Leads(bus, wire) /\ Leads(cache, wire) /\ Leads(cache, bus)
      /\ \A t \in table, y \in Els(bus) \cup Els(wire) : Before(Shut(t), y)
  BY DEF FeedInv, FeedTypes, FeedOrder
<1>3. /\ x \in Klines /\ wire' \in Seq(Klines) /\ Els(wire) = {x} \cup Els(wire')
      /\ InTurn(wire') /\ \A y \in Els(wire') : Before(x, y)
  BY <1>1, <1>2, TailEls
<1> HIDE DEF x
<1>4. bus' \in Seq(Klines) /\ Els(bus') = Els(bus) \cup {x} /\ InTurn(bus')
  <2>1. \A y \in Els(bus) : Before(y, x)
    BY <1>2, <1>3 DEF Leads
  <2> QED BY <1>1, <1>2, <1>3, <2>1, AppendEls
<1>5. Piped' = Piped
  BY <1>1, <1>3, <1>4 DEF Piped
<1>6. Missing' = Missing
  BY <1>1, <1>5 DEF Missing, Unended
<1>7. FeedTypes'
  BY <1>1, <1>3, <1>4 DEF FeedInv, FeedTypes
<1>8. FeedOrder'
  <2>1. Leads(cache, bus') /\ Leads(cache, wire') /\ Leads(bus', wire')
    BY <1>2, <1>3, <1>4 DEF Leads
  <2>2. \A t \in table, y \in Els(bus') \cup Els(wire') : Before(Shut(t), y)
    BY <1>2, <1>3, <1>4
  <2> QED BY <1>1, <1>3, <1>4, <1>5, <2>1, <2>2 DEF FeedInv, FeedOrder
<1>9. TableKept'
  BY <1>1 DEF FeedInv, TableKept
<1> QED BY <1>1, <1>6, <1>7, <1>8, <1>9 DEF FeedInv

(* A candle moves from the bus to the cache, and to the table if it is     *)
(* closed.                                                                 *)
LEMMA ConsumeStep == ASSUME FeedInv, Consume PROVE FeedInv'
<1> USE FeedAssumption
<1> DEFINE k == Head(bus)
<1>1. /\ bus # <<>> /\ bus' = Tail(bus) /\ cache' = Cached(k) /\ table' = Stored(k)
      /\ UNCHANGED <<bar, up, wire, losses>>
  BY DEF Consume
<1>2. /\ bar \in 1..LastBar /\ table \subseteq 1..(bar - 1)
      /\ cache \in Seq(Klines) /\ wire \in Seq(Klines) /\ bus \in Seq(Klines)
      /\ Ascends(cache) /\ InTurn(bus) /\ InTurn(wire)
      /\ Leads(bus, wire) /\ Leads(cache, wire) /\ Leads(cache, bus)
      /\ \A y \in Piped : Before(y, Open(bar))
      /\ \A t \in table, y \in Els(bus) \cup Els(wire) : Before(Shut(t), y)
      /\ TableKept /\ Len(cache) <= CacheLimit
  BY DEF FeedInv, FeedTypes, FeedOrder, TableKept
<1>3. /\ k \in Klines /\ bus' \in Seq(Klines) /\ Els(bus) = {k} \cup Els(bus')
      /\ InTurn(bus') /\ \A y \in Els(bus') : Before(k, y)
  BY <1>1, <1>2, TailEls
<1> HIDE DEF k
<1>4. \A y \in Els(cache) : Before(y, k) /\ y \in Klines
  <2>1. \A y \in Els(cache) : y \in Klines
    BY <1>2 DEF Els
  <2>2. k \in Els(bus)
    BY <1>3
  <2>3. \A y \in Els(cache) : Before(y, k)
    BY <1>2, <2>2 DEF Leads
  <2> QED BY <2>1, <2>3
<1>5. /\ cache' \in Seq(Klines) /\ Ascends(cache') /\ Len(cache') <= CacheLimit
      /\ Len(cache) = CacheLimit => Len(cache') = CacheLimit
      /\ k \in Els(cache') /\ Els(cache') \subseteq Els(cache) \cup {k}
      /\ \A y \in Els(cache) :
           \/ y \in Els(cache')
           \/ ~y.closed /\ y.opens = k.opens
           \/ Len(cache') = CacheLimit /\ \A z \in Els(cache') : y.opens < z.opens
  <2>1. LET c == Cached(k)
        IN /\ c \in Seq(Klines) /\ Ascends(c) /\ Len(c) <= CacheLimit
           /\ Len(cache) = CacheLimit => Len(c) = CacheLimit
           /\ k \in Els(c) /\ Els(c) \subseteq Els(cache) \cup {k}
           /\ \A y \in Els(cache) :
                \/ y \in Els(c)
                \/ ~y.closed /\ y.opens = k.opens
                \/ Len(c) = CacheLimit /\ \A z \in Els(c) : y.opens < z.opens
    BY <1>2, <1>3, <1>4, CachedIs
  <2> QED BY <1>1, <2>1
<1>6. Piped' \subseteq Piped /\ k \in Piped
  BY <1>1, <1>3, <1>5 DEF Piped
<1>7. /\ k.opens \in 1..LastBar /\ Before(k, Open(bar)) /\ Open(bar).opens = bar /\ ~Open(bar).closed
      /\ bar \in Nat
      /\ k.closed => k = Shut(k.opens)
  BY <1>2, <1>3, <1>6, OpenAndShut
<1>8. /\ table' \subseteq 1..(bar - 1)
      /\ table \subseteq table'
      /\ \A t \in table' : t \in table \/ (k.closed /\ t = k.opens)
      /\ k.closed => k.opens \in table'
  <2>1. ASSUME k.closed PROVE k.opens \in 1..(bar - 1)
    <3>1. k.opens < bar
      BY <1>7, <2>1 DEF Before
    <3> QED BY <1>7, <3>1
  <2> QED BY <1>1, <1>2, <2>1 DEF Stored
<1>9. FeedTypes'
  BY <1>1, <1>3, <1>5, <1>8 DEF FeedInv, FeedTypes
<1>10. FeedOrder'
  <2>1. Leads(cache', bus') /\ Leads(cache', wire) /\ Leads(bus', wire)
    BY <1>2, <1>3, <1>5 DEF Leads
  <2>2. ASSUME NEW t \in table', NEW y \in Els(bus') \cup Els(wire) PROVE Before(Shut(t), y)
    <3>1. CASE t \in table
      BY <1>2, <1>3, <2>2, <3>1
    <3>2. CASE k.closed /\ t = k.opens
      <4>1. Shut(t) = k
        BY <1>7, <3>2
      <4> QED BY <1>2, <1>3, <2>2, <4>1 DEF Leads
    <3> QED BY <1>8, <2>2, <3>1, <3>2
  <2>3. \A y \in Piped' : Before(y, Open(bar))
    BY <1>2, <1>6
  <2> QED BY <1>1, <1>2, <1>3, <1>5, <2>1, <2>2, <2>3 DEF FeedOrder
<1>11. TableKept'
  <2>1. \A y \in Els(cache') : y.closed => y.opens \in table'
    BY <1>2, <1>5, <1>8 DEF TableKept
  <2>2. ASSUME NEW t \in table'
        PROVE  \/ Shut(t) \in Els(cache')
               \/ Len(cache') = CacheLimit /\ \A y \in Els(cache') : t < y.opens
    <3>0. t \in 1..LastBar /\ Shut(t).opens = t /\ Shut(t).closed
      <4>1. t \in 1..LastBar
        BY <1>2, <1>8, <2>2
      <4> QED BY <4>1, OpenAndShut
    <3>1. CASE k.closed /\ t = k.opens
      BY <1>5, <1>7, <3>1
    <3>2. CASE t \in table /\ Shut(t) \in Els(cache)
      BY <1>5, <3>0, <3>2
    <3>3. CASE Len(cache) = CacheLimit /\ \A y \in Els(cache) : t < y.opens
      <4>1. PICK y : y \in Els(cache)
        BY <1>2, <3>3 DEF Els
      <4>2. t < y.opens /\ Before(y, k) /\ y.opens \in Nat
        BY <1>4, <3>3, <4>1, OpenAndShut
      <4>3. t < k.opens
        BY <1>7, <3>0, <4>2 DEF Before
      <4> QED BY <1>5, <3>3, <4>3
    <3> QED BY <1>2, <1>8, <2>2, <3>1, <3>2, <3>3 DEF TableKept
  <2> QED BY <1>5, <2>1, <2>2 DEF TableKept
<1>12. Missing' \subseteq Missing
  <2> SUFFICES ASSUME NEW b \in 1..LastBar, Open(b) \in Piped', Shut(b) \notin Piped', Shut(b) \in Piped
               PROVE  FALSE
    BY <1>1, <1>6 DEF Missing, Unended
  <2>1. Shut(b) \in Els(cache) /\ Shut(b) # k
    BY <1>1, <1>3, <1>5 DEF Piped
  <2>2. /\ Shut(b).opens = b /\ Shut(b).closed /\ Open(b).opens = b /\ b \in Nat
    BY OpenAndShut
  <2>3. \A z \in Els(cache') : b < z.opens
    BY <1>5, <2>1, <2>2 DEF Piped
  <2>4. Open(b) \notin Els(cache')
    BY <2>2, <2>3
  <2>5. Open(b) \in Els(bus) \cup Els(wire)
    BY <1>1, <1>3, <2>4 DEF Piped
  <2>6. Before(Shut(b), Open(b))
    BY <1>2, <2>1, <2>5 DEF Leads
  <2> QED BY <2>2, <2>6 DEF Before
<1>13. Cardinality(Missing') <= losses
  BY <1>12, MissingTypes, FewerMissing DEF FeedInv, FeedTypes
<1> QED BY <1>1, <1>9, <1>10, <1>11, <1>13 DEF FeedInv

(* The new cache holds the newest rows of the table and nothing that waits *)
(* for its end.                                                            *)
LEMMA RestartStep == ASSUME FeedInv, Restart PROVE FeedInv'
<1> USE FeedAssumption
<1>1. /\ up' = FALSE /\ wire' = <<>> /\ bus' = <<>> /\ cache' = Newest(Rows, CacheLimit)
      /\ UNCHANGED <<bar, table, losses>>
  BY DEF Restart
<1>2. /\ bar \in 1..LastBar /\ table \subseteq 1..(bar - 1) /\ table \subseteq 1..LastBar
      /\ losses \in Nat
  <2>1. bar \in 1..LastBar /\ table \subseteq 1..(bar - 1) /\ losses \in Nat
    BY DEF FeedInv, FeedTypes
  <2> QED BY <2>1
<1>3. \A t \in table : /\ Shut(t) \in Klines /\ Shut(t).opens = t /\ Shut(t).closed
                       /\ t < bar /\ t \in Nat
  BY <1>2, OpenAndShut
<1>4. PICK r, n : r = Rows /\ n = Len(r)
  OBVIOUS
<1>5. /\ r \in Seq(Klines) /\ n \in Nat /\ Len(r) = n
      /\ \A i, j \in 1..n : i < j => r[i].opens < r[j].opens
      /\ \A i \in 1..n : \E t \in table : r[i] = Shut(t)
      /\ \A t \in table : \E i \in 1..n : r[i] = Shut(t)
  <2>1. Enumerates(r, {Shut(t) : t \in table})
    BY <1>2, <1>4, RowsAre DEF Shut
  <2>2. r \in Seq(Klines) /\ n \in Nat /\ Len(r) = n
    BY <1>4, <2>1 DEF Enumerates
  <2>3. \A i, j \in 1..n : i < j => r[i].opens < r[j].opens
    BY <1>4, <2>1 DEF Enumerates, Ascends
  <2>4. \A i \in 1..n : r[i] \in {Shut(t) : t \in table}
    BY <1>4, <2>1 DEF Enumerates
  <2>5. \A t \in table : Has(r, Shut(t))
    <3>1. \A t \in table : Shut(t) \in {Shut(u) : u \in table}
      OBVIOUS
    <3>2. \A x \in {Shut(u) : u \in table} : Has(r, x)
      BY <2>1, Zenon DEF Enumerates
    <3> QED BY <3>1, <3>2, Zenon
  <2>6. \A t \in table : \E i \in 1..n : r[i] = Shut(t)
    BY <1>4, <2>5 DEF Has
  <2> QED BY <2>2, <2>3, <2>4, <2>6
<1>6. PICK c, m : c = cache' /\ m = Len(c)
  OBVIOUS
<1>7. /\ c \in Seq(Klines) /\ m = (IF n > CacheLimit THEN CacheLimit ELSE n)
      /\ \A i \in 1..m : c[i] = r[n - m + i]
  <2>1. c = Newest(r, CacheLimit)
    BY <1>1, <1>4, <1>6
  <2>2. LET t == Newest(r, CacheLimit)
        IN /\ t \in Seq(Klines) /\ Len(t) = IF Len(r) > CacheLimit THEN CacheLimit ELSE Len(r)
           /\ \A i \in 1..Len(t) : t[i] = r[Len(r) - Len(t) + i]
    BY <1>5, NewestIs
  <2> QED BY <1>5, <1>6, <2>1, <2>2
<1>8. m \in Nat /\ m <= CacheLimit /\ m <= n /\ \A i \in 1..m : n - m + i \in 1..n
  BY <1>5, <1>7
<1>9. Ascends(c)
  <2> SUFFICES ASSUME NEW i \in 1..m, NEW j \in 1..m, i < j PROVE c[i].opens < c[j].opens
    BY <1>6 DEF Ascends
  <2>1. n - m + i < n - m + j
    BY <1>5, <1>8
  <2> QED BY <1>5, <1>7, <1>8, <2>1
<1>10. \A x \in Els(c) : \E t \in table : x = Shut(t)
  <2>1. ASSUME NEW i \in 1..m PROVE \E t \in table : c[i] = Shut(t)
    <3>1. PICK j \in 1..n : j = n - m + i
      BY <1>8
    <3>2. PICK t \in table : r[j] = Shut(t)
      BY <1>5
    <3> QED BY <1>7, <3>1, <3>2
  <2> QED BY <1>6, <2>1 DEF Els
<1>11. /\ Els(wire') = {} /\ Els(bus') = {} /\ <<>> \in Seq(Klines)
       /\ InTurn(wire') /\ InTurn(bus')
  BY <1>1 DEF Els, InTurn
<1>12. Piped' = Els(c)
  BY <1>6, <1>11 DEF Piped
<1>13. FeedTypes'
  <2>1. up' \in BOOLEAN
    BY <1>1, Zenon
  <2> QED BY <1>1, <1>2, <1>6, <1>7, <2>1 DEF FeedTypes
<1>14. FeedOrder'
  <2>1. \A x \in Els(c) : Before(x, Open(bar))
    <3>1. Open(bar).opens = bar
      BY <1>2, OpenAndShut
    <3> QED BY <1>3, <1>10, <3>1 DEF Before
  <2> QED BY <1>1, <1>6, <1>9, <1>11, <1>12, <2>1 DEF FeedOrder, Leads
<1>15. TableKept'
  <2>1. \A x \in Els(c) : x.closed => x.opens \in table
    BY <1>3, <1>10
  <2>2. ASSUME NEW t \in table
        PROVE  \/ Shut(t) \in Els(c)
               \/ m = CacheLimit /\ \A x \in Els(c) : t < x.opens
    <3>1. PICK i \in 1..n : r[i] = Shut(t)
      BY <1>5
    <3>2. CASE i > n - m
      <4>1. PICK j \in 1..m : n - m + j = i
        <5>1. i - (n - m) \in 1..m /\ n - m + (i - (n - m)) = i
          <6>1. n \in Nat /\ m \in Nat /\ i \in Nat /\ i <= n
            BY <1>5, <1>8
          <6> QED BY <3>2, <6>1
        <5> QED BY <5>1
      <4>2. c[j] = Shut(t)
        BY <1>7, <3>1, <4>1
      <4> QED BY <1>6, <4>2 DEF Els
    <3>3. CASE ~(i > n - m)
      <4>1. m = CacheLimit
        BY <1>5, <1>7, <3>3
      <4>2. ASSUME NEW j \in 1..m PROVE t < c[j].opens
        <5>1. PICK h \in 1..n : h = n - m + j /\ i < h
          BY <1>5, <1>8, <3>3
        <5>2. r[i].opens < r[h].opens /\ c[j] = r[h]
          BY <1>5, <1>7, <5>1
        <5> QED BY <1>3, <3>1, <5>2
      <4> QED BY <1>6, <4>1, <4>2 DEF Els
    <3> QED BY <3>2, <3>3
  <2> QED BY <1>1, <1>6, <1>8, <2>1, <2>2 DEF TableKept
<1>16. Cardinality(Missing') <= losses
  <2>1. \A b \in 1..LastBar : Open(b) \notin Els(c)
    BY <1>3, <1>10, OpenAndShut
  <2>2. Missing' = {}
    BY <1>12, <2>1 DEF Missing, Unended
  <2>3. Cardinality({}) = 0
    BY FS_EmptySet
  <2> QED BY <1>2, <2>2, <2>3
<1> QED BY <1>1, <1>13, <1>14, <1>15, <1>16 DEF FeedInv

LEMMA FeedStep == ASSUME FeedInv, [FeedNext]_feed PROVE FeedInv'
<1>1. CASE BarReported
  BY <1>1, ReportStep
<1>2. CASE BarEnds
  BY <1>2, EndStep
<1>3. CASE Connect
  BY <1>3, ConnectStep
<1>4. CASE Disconnect
  BY <1>4, DisconnectStep
<1>5. CASE Publish
  BY <1>5, PublishStep
<1>6. CASE Consume
  BY <1>6, ConsumeStep
<1>7. CASE Restart
  BY <1>7, RestartStep
<1>8. CASE UNCHANGED feed
  <2>1. UNCHANGED <<bar, up, wire, bus, cache, table, losses>>
    BY <1>8 DEF feed
  <2>2. Piped' = Piped
    BY <2>1 DEF Piped
  <2>3. Missing' = Missing
    BY <2>1, <2>2 DEF Missing, Unended
  <2>4. FeedTypes' /\ FeedOrder' /\ TableKept'
    BY <2>1, <2>2 DEF FeedInv, FeedTypes, FeedOrder, TableKept
  <2> QED BY <2>1, <2>3, <2>4 DEF FeedInv
<1> QED BY <1>1, <1>2, <1>3, <1>4, <1>5, <1>6, <1>7, <1>8 DEF FeedNext

(* A candle of the cache that is not closed and not the newest is missing. *)
LEMMA UnclosedAreMissing ==
  ASSUME FeedInv, NEW i \in 1..Len(cache), NEW j \in 1..Len(cache), i < j, ~cache[i].closed
  PROVE  cache[i].opens \in Missing
<1>1. PICK b, x, y : b = cache[i].opens /\ x = cache[i] /\ y = cache[j]
  OBVIOUS
<1>2. /\ x \in Klines /\ y \in Klines /\ x \in Els(cache) /\ y \in Els(cache)
      /\ x.opens < y.opens /\ bar \in 1..LastBar
  <2>1. cache \in Seq(Klines) /\ Ascends(cache) /\ bar \in 1..LastBar
    BY DEF FeedInv, FeedTypes, FeedOrder
  <2>2. x \in Klines /\ y \in Klines
    BY <1>1, <2>1
  <2> QED BY <1>1, <2>1, <2>2 DEF Ascends, Els
<1>3. b = x.opens /\ b \in 1..LastBar /\ x = Open(b) /\ y.opens \in Nat /\ b < y.opens
  <2>1. x.opens \in 1..LastBar /\ x = Open(x.opens) /\ y.opens \in Nat
    BY <1>1, <1>2, OpenAndShut
  <2> QED BY <1>1, <1>2, <2>1
<1>4. Shut(b).opens = b /\ Shut(b).closed /\ b \in Nat /\ bar \in Nat /\ Open(bar).opens = bar
  BY <1>2, <1>3, OpenAndShut
<1>5. Open(b) \in Piped /\ y \in Piped
  BY <1>2, <1>3 DEF Piped
<1>6. b # bar
  <2>1. Before(y, Open(bar))
    BY <1>5 DEF FeedInv, FeedOrder
  <2> QED BY <1>3, <1>4, <2>1 DEF Before
<1>7. Shut(b) \notin Els(cache)
  <2> SUFFICES ASSUME NEW k \in 1..Len(cache), cache[k] = Shut(b) PROVE FALSE
    BY DEF Els
  <2>1. cache[k].opens = cache[i].opens /\ k # i /\ cache[i].opens \in Nat
    BY <1>1, <1>3, <1>4
  <2>2. k < i => cache[k].opens < cache[i].opens
    BY DEF FeedInv, FeedOrder, Ascends
  <2>3. i < k => cache[i].opens < cache[k].opens
    BY DEF FeedInv, FeedOrder, Ascends
  <2>4. Len(cache) \in Nat
    BY DEF FeedInv, FeedTypes
  <2> QED BY <2>1, <2>2, <2>3, <2>4
<1>8. Shut(b) \notin Els(bus) \cup Els(wire)
  <2> SUFFICES ASSUME Shut(b) \in Els(bus) \cup Els(wire) PROVE FALSE
    OBVIOUS
  <2>1. Before(y, Shut(b))
    BY <1>2 DEF FeedInv, FeedOrder, Leads
  <2> QED BY <1>3, <1>4, <2>1 DEF Before
<1> QED BY <1>1, <1>3, <1>5, <1>6, <1>7, <1>8 DEF Missing, Unended, Piped

LEMMA ReadsHold == ASSUME FeedInv PROVE ClosedReadsAreNewest
<1> USE FeedAssumption
<1> SUFFICES ASSUME NEW n \in 1..(CacheLimit \div 2), losses < n
             PROVE  ClosedRecent(n) = Newest(Rows, n)
  BY DEF ClosedReadsAreNewest
<1>1. n \in Nat /\ 2 * n \in Nat /\ 2 * n <= CacheLimit
  <2>1. \A m \in Nat : \A k \in 1..(m \div 2) : k \in Nat /\ 2 * k \in Nat /\ 2 * k <= m
    OBVIOUS
  <2> QED BY <2>1
<1>2. /\ cache \in Seq(Klines) /\ Ascends(cache) /\ Len(cache) \in Nat /\ Len(cache) <= CacheLimit
      /\ table \subseteq 1..LastBar /\ losses \in Nat /\ Cardinality(Missing) <= losses
      /\ bar \in 1..LastBar /\ table \subseteq 1..(bar - 1)
  <2>1. /\ bar \in 1..LastBar /\ table \subseteq 1..(bar - 1)
        /\ cache \in Seq(Klines) /\ losses \in Nat
    BY DEF FeedInv, FeedTypes
  <2>2. table \subseteq 1..LastBar /\ Len(cache) \in Nat
    BY <2>1
  <2> QED BY <2>1, <2>2 DEF FeedInv, FeedOrder, TableKept
<1>3. \A t \in table : /\ Shut(t) \in Klines /\ Shut(t).opens = t /\ Shut(t).closed /\ t \in Nat
  BY <1>2, OpenAndShut
<1>4. PICK r, l, q : r = Newest(cache, 2 * n) /\ l = Len(r) /\ q = Len(cache) - l
  OBVIOUS
<1>5. /\ r \in Seq(Klines) /\ l = (IF Len(cache) > 2 * n THEN 2 * n ELSE Len(cache))
      /\ \A i \in 1..l : r[i] = cache[Len(cache) - l + i]
  <2>1. LET t == Newest(cache, 2 * n)
        IN /\ t \in Seq(Klines) /\ Len(t) = IF Len(cache) > 2 * n THEN 2 * n ELSE Len(cache)
           /\ \A i \in 1..Len(t) : t[i] = cache[Len(cache) - Len(t) + i]
    BY <1>1, <1>2, NewestIs
  <2> QED BY <1>4, <2>1
<1>6. /\ l \in Nat /\ q \in Nat /\ q + l = Len(cache)
      /\ \A i \in 1..l : q + i \in 1..Len(cache) /\ r[i] = cache[q + i] /\ r[i] \in Klines
  BY <1>1, <1>2, <1>4, <1>5
<1>7. Ascends(r)
  <2> SUFFICES ASSUME NEW i \in 1..l, NEW j \in 1..l, i < j PROVE r[i].opens < r[j].opens
    BY <1>4 DEF Ascends
  <2>1. q + i \in 1..Len(cache) /\ q + j \in 1..Len(cache) /\ q + i < q + j
    BY <1>6
  <2> QED BY <1>2, <1>6, <2>1 DEF Ascends
<1> DEFINE K == {k \in 1..l : r[k].closed}
<1>8. PICK a : ClosedRecent(n) = Newest(a, n) /\ Kept(a, r, K, l)
  <2> DEFINE closed == CHOOSE h : h = [k \in 0..Len(r) |->
                          IF k = 0 THEN <<>>
                          ELSE IF r[k].closed THEN Append(h[k - 1], r[k])
                          ELSE h[k - 1]]
  <2>1. Kept(closed[Len(r)], r, {k \in 1..Len(r) : r[k].closed}, Len(r))
    BY <1>5, <1>7, ClosedAre
  <2>2. ClosedRecent(n) = Newest(closed[Len(r)], n)
    BY <1>4, Zenon DEF ClosedRecent
  <2> HIDE DEF closed
  <2> QED BY <1>4, <2>1, <2>2
<1> HIDE DEF K
<1>9. \A k \in 1..l : k \in K <=> r[k].closed
  BY DEF K
<1>10. K \subseteq 1..l
  BY DEF K
<1> DEFINE A == {r[k] : k \in K}
           B == {Shut(t) : t \in table}
<1>11. Enumerates(a, A)
  <2>1. K \cap 1..l = K
    BY <1>10
  <2> QED BY <1>8, <2>1 DEF Kept, Enumerates
<1>12. Enumerates(Rows, B)
  BY <1>2, RowsAre DEF Shut
<1>13. \A x \in A : \E k \in 1..l : r[k] = x /\ x.closed /\ x \in Klines /\ x \in Els(cache)
  <2> TAKE x \in A
  <2>1. PICK k \in K : r[k] = x
    OBVIOUS
  <2>2. k \in 1..l /\ x.closed
    BY <1>9, <1>10, <2>1
  <2>3. q + k \in 1..Len(cache) /\ x = cache[q + k] /\ x \in Klines
    BY <1>6, <2>1, <2>2
  <2> QED BY <2>1, <2>2, <2>3 DEF Els
<1>14. \A k \in 1..l : r[k].closed => r[k] \in A
  BY <1>9
<1>15. \A x \in B : \E t \in table : x = Shut(t)
  OBVIOUS
<1>16. \A t \in table : Shut(t) \in B
  OBVIOUS
<1> HIDE DEF A, B
<1>17. A \subseteq B
  <2> SUFFICES ASSUME NEW x \in A PROVE x \in B
    OBVIOUS
  <2>1. x.closed /\ x \in Klines /\ x \in Els(cache)
    BY <1>13
  <2>2. x.opens \in table /\ x = Shut(x.opens)
    BY <2>1, OpenAndShut DEF FeedInv, TableKept
  <2> QED BY <1>16, <2>2
<1>18. ASSUME NEW t \in table, NEW i \in 1..Len(cache), cache[i] = Shut(t), i > q PROVE Shut(t) \in A
  <2>1. PICK k \in 1..l : q + k = i
    <3>1. i - q \in 1..l /\ q + (i - q) = i
      <4>1. i \in Nat /\ i <= q + l
        BY <1>6
      <4> QED BY <1>6, <1>18, <4>1
    <3> QED BY <3>1
  <2>2. r[k] = Shut(t)
    BY <1>6, <1>18, <2>1
  <2> QED BY <1>3, <1>14, <2>2
<1>19. ASSUME NEW x \in B, NEW y \in A, y.opens <= x.opens PROVE x \in A
  <2>1. PICK t \in table : x = Shut(t)
    BY <1>15
  <2>2. PICK k \in 1..l : r[k] = y /\ y \in Klines /\ y \in Els(cache)
    BY <1>13
  <2>3. y.opens \in Nat /\ x.opens = t /\ t \in Nat
    BY <1>3, <2>1, <2>2, OpenAndShut
  <2>4. ~(\A z \in Els(cache) : t < z.opens)
    BY <1>19, <2>2, <2>3
  <2>5. Shut(t) \in Els(cache)
    BY <2>4 DEF FeedInv, TableKept
  <2>6. PICK i \in 1..Len(cache) : cache[i] = Shut(t)
    BY <2>5 DEF Els
  <2>7. PICK j \in 1..Len(cache) : j = q + k /\ cache[j] = y
    BY <1>6, <2>2
  <2>8. i < j => cache[i].opens < cache[j].opens
    BY <1>2 DEF Ascends
  <2>9. ~(i < j)
    BY <1>19, <2>1, <2>3, <2>6, <2>7, <2>8
  <2>10. i > q
    <3>1. i \in Nat /\ k \in Nat /\ k > 0
      BY <1>2, <1>6
    <3> QED BY <1>6, <2>7, <2>9, <3>1
  <2> QED BY <1>18, <2>1, <2>6, <2>10
<1>20. Len(a) >= n \/ A = B
  <2>1. CASE l < 2 * n
    <3>1. Len(cache) < CacheLimit /\ q = 0
      BY <1>1, <1>2, <1>4, <1>5, <2>1
    <3>2. ASSUME NEW t \in table PROVE Shut(t) \in A
      <4>1. Shut(t) \in Els(cache)
        BY <3>1 DEF FeedInv, TableKept
      <4>2. PICK i \in 1..Len(cache) : cache[i] = Shut(t)
        BY <4>1 DEF Els
      <4>3. i > q
        BY <1>2, <3>1
      <4> QED BY <1>18, <4>2, <4>3
    <3> QED BY <1>15, <1>17, <3>2
  <2>2. CASE ~(l < 2 * n)
    <3>1. l = 2 * n /\ l > 0 /\ Len(cache) \in 1..Len(cache)
      BY <1>1, <1>2, <1>5, <2>2
    <3> DEFINE unclosed == Left(r, K, l)
               newest == cache[Len(cache)].opens
    <3>2. IsFiniteSet(unclosed) /\ Len(a) + Cardinality(unclosed) = l
      BY <1>8 DEF Kept
    <3>3. \A b \in unclosed : b \in Missing \/ b = newest
      <4> SUFFICES ASSUME NEW k \in (1..l) \ K PROVE r[k].opens \in Missing \/ r[k].opens = newest
        BY DEF Left
      <4>1. ~r[k].closed
        BY <1>9
      <4>2. PICK i \in 1..Len(cache) : i = q + k /\ r[k] = cache[i]
        BY <1>6
      <4>3. CASE i = Len(cache)
        BY <4>2, <4>3
      <4>4. CASE i # Len(cache)
        <5>1. i < Len(cache)
          BY <1>2, <4>4
        <5> QED BY <3>1, <4>1, <4>2, <5>1, UnclosedAreMissing
      <4> QED BY <4>3, <4>4
    <3>4. unclosed \subseteq 1..LastBar
      <4> SUFFICES ASSUME NEW k \in (1..l) \ K PROVE r[k].opens \in 1..LastBar
        BY DEF Left
      <4> QED BY <1>6, OpenAndShut
    <3>5. Cardinality(unclosed) <= losses + 1
      <4> HIDE DEF unclosed, newest
      <4>1. \A b, c \in unclosed \ Missing : b = c
        BY <3>3
      <4> QED BY <1>2, <3>4, <4>1, MissingTypes, OneMoreMissing
    <3>6. Cardinality(unclosed) \in Nat /\ Len(a) \in Nat
      BY <1>8, <3>2, FS_CardinalityType DEF Kept
    <3> QED BY <1>1, <1>2, <3>1, <3>2, <3>5, <3>6
  <2> QED BY <2>1, <2>2
<1>21. \A x \in B, y \in A : y.opens <= x.opens => x \in A
  BY <1>19
<1>22. Newest(a, n) = Newest(Rows, n)
  BY <1>1, <1>11, <1>12, <1>17, <1>20, <1>21, NewestAlike
<1> QED BY <1>8, <1>22

(* _closed_recent answers with the newest candles of the table, each       *)
(* once and in order, whatever the connection loses and the bus holds: at  *)
(* most one candle for each lost connection stays open in the cache, which *)
(* holds twice as many as are asked for.                                   *)
THEOREM ReadsAreNewest == FeedSpec => []ClosedReadsAreNewest
<1>1. FeedSpec => []FeedInv
  BY FeedStarts, FeedStep, PTL DEF FeedSpec
<1>2. FeedInv => ClosedReadsAreNewest
  BY ReadsHold
<1> QED BY <1>1, <1>2, PTL

-----------------------------------------------------------------------------
(* The stable sort of the micro rules: a total order of the numbers, so    *)
(* that each place is taken by one item and the last by the greatest.      *)
Keyed(keys, N) == \A k \in 1..N : keys[k][1] \in Int /\ keys[k][2] \in Int

LEMMA PrecedesIsTotal ==
  ASSUME NEW N \in Nat, NEW keys, Keyed(keys, N), NEW i \in 1..N, NEW j \in 1..N
  PROVE  /\ Precedes(keys, i, i)
         /\ Precedes(keys, i, j) \/ Precedes(keys, j, i)
         /\ Precedes(keys, i, j) /\ Precedes(keys, j, i) => i = j
         /\ \A k \in 1..N : Precedes(keys, i, j) /\ Precedes(keys, j, k) => Precedes(keys, i, k)
<1>1. /\ keys[i][1] \in Int /\ keys[i][2] \in Int /\ keys[j][1] \in Int /\ keys[j][2] \in Int
      /\ i \in Int /\ j \in Int
  BY DEF Keyed
<1>2. /\ Precedes(keys, i, i)
      /\ Precedes(keys, i, j) \/ Precedes(keys, j, i)
      /\ Precedes(keys, i, j) /\ Precedes(keys, j, i) => i = j
  BY <1>1 DEF Precedes
<1>3. ASSUME NEW k \in 1..N, Precedes(keys, i, j), Precedes(keys, j, k) PROVE Precedes(keys, i, k)
  <2>1. keys[k][1] \in Int /\ keys[k][2] \in Int /\ k \in Int
    BY DEF Keyed
  <2> QED BY <1>1, <1>3, <2>1 DEF Precedes
<1> QED BY <1>2, <1>3

(* A finite set of numbers has a least one in a total preorder of them.    *)
LEMMA LeastIn ==
  ASSUME NEW N \in Nat, NEW K \in SUBSET (1..N), K # {}, NEW R,
         \A i \in K : \A j \in K : <<i, j>> \in R \/ <<j, i>> \in R,
         \A i \in K : \A j \in K : \A k \in K : <<i, j>> \in R /\ <<j, k>> \in R => <<i, k>> \in R
  PROVE  \E g \in K : \A k \in K : <<g, k>> \in R
<1> DEFINE HasLeast(L) == \E g \in L : \A k \in L : <<g, k>> \in R
           T == {n \in 0..N : \A L \in SUBSET (K \cap 1..n) : L # {} => HasLeast(L)}
<1>1. 0 \in T
  <2>1. K \cap 1..0 = {}
    OBVIOUS
  <2>2. \A L \in SUBSET (K \cap 1..0) : L = {}
    BY <2>1
  <2>3. 0 \in 0..N
    OBVIOUS
  <2> HIDE DEF HasLeast
  <2> QED BY <2>2, <2>3
<1>2. ASSUME NEW n \in 1..N, n - 1 \in T PROVE n \in T
  <2>1. ASSUME NEW L \in SUBSET (K \cap 1..n), L # {} PROVE HasLeast(L)
    <3>1. CASE n \notin L
      <4>1. L \in SUBSET (K \cap 1..(n - 1))
        BY <3>1
      <4> QED BY <1>2, <2>1, <4>1
    <3>2. CASE n \in L /\ L \ {n} = {}
      <4>1. \A k \in L : k = n
        BY <3>2
      <4> QED BY <3>2, <4>1
    <3>3. CASE n \in L /\ L \ {n} # {}
      <4>1. L \ {n} \in SUBSET (K \cap 1..(n - 1))
        BY <3>3
      <4>2. PICK g \in L \ {n} : \A k \in L \ {n} : <<g, k>> \in R
        BY <1>2, <3>3, <4>1
      <4>3. g \in K /\ n \in K /\ L \subseteq K
        BY <3>3
      <4>4. CASE <<g, n>> \in R
        BY <4>2, <4>4
      <4>5. CASE <<n, g>> \in R
        <5>1. ASSUME NEW k \in L PROVE <<n, k>> \in R
          <6>1. CASE k = n
            BY <4>3, <6>1
          <6>2. CASE k # n
            <7>1. <<g, k>> \in R /\ k \in K
              BY <4>2, <4>3, <6>2
            <7> QED BY <4>3, <4>5, <7>1
          <6> QED BY <6>1, <6>2
        <5> QED BY <3>3, <5>1
      <4> QED BY <4>3, <4>4, <4>5
    <3> QED BY <3>1, <3>2, <3>3
  <2> QED BY <2>1
<1> HIDE DEF T
<1>3. \A n \in 0..N : n \in T
  BY <1>1, <1>2, UpTo
<1>4. N \in T /\ K \in SUBSET (K \cap 1..N)
  BY <1>3
<1> QED BY <1>4 DEF T

LEMMA GreatestIn ==
  ASSUME NEW N \in Nat, NEW keys, Keyed(keys, N), NEW K \in SUBSET (1..N), K # {}
  PROVE  /\ \E g \in K : \A k \in K : Precedes(keys, k, g)
         /\ \E g \in K : \A k \in K : Precedes(keys, g, k)
<1> DEFINE rising == {p \in K \X K : Precedes(keys, p[1], p[2])}
           falling == {p \in K \X K : Precedes(keys, p[2], p[1])}
<1>1. /\ \A i \in K : \A j \in K : Precedes(keys, i, j) \/ Precedes(keys, j, i)
      /\ \A i \in K : \A j \in K : \A k \in K :
           Precedes(keys, i, j) /\ Precedes(keys, j, k) => Precedes(keys, i, k)
  BY PrecedesIsTotal
<1>2. \A i \in K : \A j \in K : (<<i, j>> \in rising <=> Precedes(keys, i, j)) /\ (<<i, j>> \in falling <=> Precedes(keys, j, i))
  OBVIOUS
<1> HIDE DEF rising, falling
<1>3. \E g \in K : \A k \in K : <<g, k>> \in rising
  <2>1. \A i \in K : \A j \in K : <<i, j>> \in rising \/ <<j, i>> \in rising
    <3> TAKE i \in K
    <3> TAKE j \in K
    <3>1. Precedes(keys, i, j) \/ Precedes(keys, j, i)
      BY <1>1
    <3> QED BY <1>2, <3>1
  <2>2. \A i \in K : \A j \in K : \A k \in K : <<i, j>> \in rising /\ <<j, k>> \in rising => <<i, k>> \in rising
    <3> TAKE i \in K
    <3> TAKE j \in K
    <3> TAKE k \in K
    <3>1. Precedes(keys, i, j) /\ Precedes(keys, j, k) => Precedes(keys, i, k)
      BY <1>1
    <3> QED BY <1>2, <3>1
  <2> QED BY <2>1, <2>2, LeastIn
<1>4. \E g \in K : \A k \in K : <<g, k>> \in falling
  <2>1. \A i \in K : \A j \in K : <<i, j>> \in falling \/ <<j, i>> \in falling
    <3> TAKE i \in K
    <3> TAKE j \in K
    <3>1. Precedes(keys, i, j) \/ Precedes(keys, j, i)
      BY <1>1
    <3> QED BY <1>2, <3>1
  <2>2. \A i \in K : \A j \in K : \A k \in K : <<i, j>> \in falling /\ <<j, k>> \in falling => <<i, k>> \in falling
    <3> TAKE i \in K
    <3> TAKE j \in K
    <3> TAKE k \in K
    <3>1. Precedes(keys, k, j) /\ Precedes(keys, j, i) => Precedes(keys, k, i)
      BY <1>1
    <3> QED BY <1>2, <3>1
  <2> QED BY <2>1, <2>2, LeastIn
<1> QED BY <1>2, <1>3, <1>4

LEMMA PlaceWithout ==
  ASSUME NEW N \in Nat, NEW keys, Keyed(keys, N), NEW K \in SUBSET (1..N),
         NEW g \in K, \A k \in K : Precedes(keys, k, g)
  PROVE  /\ IsFiniteSet(K) /\ Cardinality(K) \in Nat \ {0} /\ Cardinality(K \ {g}) = Cardinality(K) - 1
         /\ Place(keys, K, g) = Cardinality(K)
         /\ \A k \in K \ {g} : /\ Place(keys, K, k) = Place(keys, K \ {g}, k)
                               /\ Place(keys, K, k) \in 0..(Cardinality(K) - 1)
<1>1. IsFiniteSet(1..N)
  BY FS_Interval, 1 \in Int
<1>2. IsFiniteSet(K)
  BY <1>1, FS_Subset
<1>3. Cardinality(K) \in Nat \ {0}
  BY <1>2, FS_CardinalityType, FS_EmptySet
<1>4. IsFiniteSet(K \ {g}) /\ Cardinality(K \ {g}) = Cardinality(K) - 1
  BY <1>2, FS_RemoveElement
<1>5. Place(keys, K, g) = Cardinality(K)
  <2>1. {j \in K : Precedes(keys, j, g)} = K
    OBVIOUS
  <2> QED BY <2>1 DEF Place
<1>6. ASSUME NEW k \in K \ {g}
      PROVE  /\ Place(keys, K, k) = Place(keys, K \ {g}, k)
             /\ Place(keys, K, k) \in 0..(Cardinality(K) - 1)
  <2>1. ~Precedes(keys, g, k)
    <3>1. Precedes(keys, k, g) /\ k \in 1..N /\ g \in 1..N /\ k # g
      OBVIOUS
    <3> QED BY <3>1, PrecedesIsTotal
  <2>2. {j \in K : Precedes(keys, j, k)} = {j \in K \ {g} : Precedes(keys, j, k)}
    BY <2>1
  <2> DEFINE front == {j \in K \ {g} : Precedes(keys, j, k)}
  <2>3. front \in SUBSET (K \ {g})
    OBVIOUS
  <2> HIDE DEF front
  <2>4. IsFiniteSet(front) /\ Cardinality(front) <= Cardinality(K \ {g}) /\ Cardinality(front) \in Nat
    BY <1>4, <2>3, FS_Subset, FS_CardinalityType
  <2>5. Place(keys, K, k) = Cardinality(front) /\ Place(keys, K \ {g}, k) = Cardinality(front)
    BY <2>2 DEF Place, front
  <2> QED BY <1>3, <1>4, <2>4, <2>5
<1> QED BY <1>2, <1>3, <1>4, <1>5, <1>6

LEMMA PlacesAreTaken ==
  ASSUME NEW N \in Nat, NEW keys, Keyed(keys, N), NEW K \in SUBSET (1..N)
  PROVE  /\ Cardinality(K) \in Nat
         /\ \A n \in 1..Cardinality(K) : \E k \in K : Place(keys, K, k) = n
<1>1. IsFiniteSet(1..N) /\ Cardinality(1..N) = N
  BY FS_Interval, 1 \in Int
<1>2. \A L \in SUBSET (1..N) : Cardinality(L) \in 0..N
  <2> TAKE L \in SUBSET (1..N)
  <2>1. IsFiniteSet(L) /\ Cardinality(L) <= N
    BY <1>1, FS_Subset
  <2> QED BY <2>1, FS_CardinalityType
<1> DEFINE Taken(L) == \A n \in 1..Cardinality(L) : \E k \in L : Place(keys, L, k) = n
           T == {c \in 0..N : \A L \in SUBSET (1..N) : Cardinality(L) = c => Taken(L)}
<1>3. 0 \in T
  <2>1. \A L \in SUBSET (1..N) : Cardinality(L) = 0 => Taken(L)
    OBVIOUS
  <2> QED BY <2>1
<1>4. ASSUME NEW c \in 1..N, c - 1 \in T PROVE c \in T
  <2>1. ASSUME NEW L \in SUBSET (1..N), Cardinality(L) = c PROVE Taken(L)
    <3>1. L # {}
      BY <2>1, FS_EmptySet
    <3>2. PICK g \in L : \A k \in L : Precedes(keys, k, g)
      BY <3>1, GreatestIn
    <3>3. /\ Cardinality(L \ {g}) = c - 1 /\ Place(keys, L, g) = c
          /\ \A k \in L \ {g} : Place(keys, L, k) = Place(keys, L \ {g}, k)
      BY <2>1, <3>2, PlaceWithout
    <3>4. L \ {g} \in SUBSET (1..N)
      OBVIOUS
    <3>5. Taken(L \ {g})
      BY <1>4, <3>3, <3>4
    <3>6. ASSUME NEW n \in 1..c PROVE \E k \in L : Place(keys, L, k) = n
      <4>1. CASE n = c
        BY <3>3, <4>1
      <4>2. CASE n # c
        <5>1. n \in 1..(c - 1)
          BY <4>2
        <5>2. PICK k \in L \ {g} : Place(keys, L \ {g}, k) = n
          BY <3>3, <3>5, <5>1
        <5> QED BY <3>3, <5>2
      <4> QED BY <4>1, <4>2
    <3> QED BY <2>1, <3>6
  <2> HIDE DEF Taken
  <2> QED BY <2>1
<1> HIDE DEF T, Taken
<1>5. \A c \in 0..N : c \in T
  BY <1>3, <1>4, UpTo
<1>6. Cardinality(K) \in 0..N
  BY <1>2
<1>7. Taken(K)
  BY <1>5, <1>6 DEF T
<1> QED BY <1>6, <1>7 DEF Taken

LEMMA PlaceOfGreatest ==
  ASSUME NEW N \in Nat, NEW keys, Keyed(keys, N), NEW K \in SUBSET (1..N),
         NEW g \in K, \A k \in K : Precedes(keys, k, g), NEW k \in K, Place(keys, K, k) = Cardinality(K)
  PROVE  k = g
<1>1. Cardinality(K) \in Nat /\ \A j \in K \ {g} : Place(keys, K, j) \in 0..(Cardinality(K) - 1)
  BY PlaceWithout
<1>2. CASE k # g
  <2>1. Cardinality(K) \in 0..(Cardinality(K) - 1)
    BY <1>1, <1>2
  <2> QED BY <1>1, <2>1
<1> QED BY <1>2

LEMMA SortedIs ==
  ASSUME NEW S, NEW s \in Seq(S), NEW keys, Keyed(keys, Len(s)), NEW K \in SUBSET (1..Len(s))
  PROVE  /\ Sorted(s, keys, K) \in Seq(S) /\ Len(Sorted(s, keys, K)) = Cardinality(K)
         /\ Cardinality(K) \in Nat /\ (Cardinality(K) = 0 <=> K = {})
         /\ \A n \in 1..Cardinality(K) : \E k \in K : Sorted(s, keys, K)[n] = s[k]
         /\ \A g \in K : (\A k \in K : Precedes(keys, k, g)) => Last(Sorted(s, keys, K)) = s[g]
<1> DEFINE N == Len(s)
           c == Cardinality(K)
           places == {<<k, Place(keys, K, k)>> : k \in K}
           At(n) == (CHOOSE p \in places : p[2] = n)[1]
           r == [n \in 1..c |-> s[At(n)]]
<1>1. N \in Nat /\ \A k \in 1..N : s[k] \in S
  OBVIOUS
<1>2. c \in Nat /\ \A n \in 1..c : \E k \in K : Place(keys, K, k) = n
  <2> HIDE DEF N
  <2> QED BY <1>1, PlacesAreTaken DEF N
<1>3. IsFiniteSet(K)
  <2>1. IsFiniteSet(1..N)
    BY <1>1, FS_Interval, 1 \in Int, N \in Int
  <2> QED BY <2>1, FS_Subset
<1>4. c = 0 <=> K = {}
  BY <1>3, FS_EmptySet
<1>5. ASSUME NEW n \in 1..c PROVE At(n) \in K /\ Place(keys, K, At(n)) = n
  <2>1. PICK k \in K : Place(keys, K, k) = n
    BY <1>2
  <2>2. <<k, n>> \in places
    BY <2>1
  <2>3. \E p \in places : p[2] = n
    <3>1. <<k, n>>[2] = n
      OBVIOUS
    <3> HIDE DEF places
    <3> QED BY <2>2, <3>1
  <2> DEFINE p == CHOOSE p \in places : p[2] = n
  <2>4. p \in places /\ p[2] = n
    <3> HIDE DEF places
    <3> QED BY <2>3
  <2> HIDE DEF p
  <2>5. PICK j \in K : p = <<j, Place(keys, K, j)>>
    BY <2>4
  <2>6. p[1] = j /\ p[2] = Place(keys, K, j)
    BY <2>5
  <2> QED BY <2>4, <2>6 DEF p
<1>6. Sorted(s, keys, K) = r
  BY Zenon DEF Sorted
<1> HIDE DEF c, At
<1>7. \A n \in 1..c : s[At(n)] \in S
  BY <1>1, <1>5
<1>8. r \in Seq(S) /\ Len(r) = c /\ \A n \in 1..c : r[n] = s[At(n)]
  BY <1>2, <1>7
<1> HIDE DEF r
<1>9. ASSUME NEW g \in K, \A k \in K : Precedes(keys, k, g) PROVE Last(r) = s[g]
  <2>1. c \in 1..c
    BY <1>2, <1>4
  <2>2. At(c) = g
    <3>1. At(c) \in K /\ Place(keys, K, At(c)) = c
      BY <1>5, <2>1
    <3>2. PICK k \in K : k = At(c) /\ Place(keys, K, k) = Cardinality(K)
      BY <3>1 DEF c
    <3>3. Keyed(keys, N) /\ K \in SUBSET (1..N) /\ N \in Nat
      BY <1>1
    <3> HIDE DEF N
    <3>4. k = g
      BY <1>9, <3>2, <3>3, PlaceOfGreatest
    <3> QED BY <3>2, <3>4
  <2>3. r[Len(r)] = s[g]
    BY <1>8, <2>1, <2>2
  <2> QED BY <2>3 DEF Last
<1>10. \A n \in 1..c : \E k \in K : r[n] = s[k]
  BY <1>5, <1>8
<1> QED BY <1>2, <1>4, <1>6, <1>8, <1>9, <1>10 DEF c

-----------------------------------------------------------------------------
(* What is known at a time, and nothing later, is known at any other time  *)
(* from the last of it on.                                                 *)
LEMMA KnownBarsAre ==
  ASSUME NEW bars \in Seq(PricedBar), NEW t \in Int
  PROVE  /\ KnownBars(bars, t) \in Seq(PricedBar)
         /\ \A n \in 1..Len(KnownBars(bars, t)) :
              \E k \in 1..Len(bars) : KnownBars(bars, t)[n] = bars[k] /\ bars[k].closes <= t
         /\ KnownBars(bars, t) # <<>> =>
              \A a \in Int : Last(KnownBars(bars, t)).closes <= a /\ a <= t
                               => KnownBars(bars, a) = KnownBars(bars, t)
<1> DEFINE keys == [k \in DOMAIN bars |-> <<bars[k].closes, bars[k].opens>>]
           K(u) == {k \in DOMAIN bars : bars[k].closes <= u}
           known == Sorted(bars, keys, K(t))
<1>1. /\ Len(bars) \in Nat /\ DOMAIN bars = 1..Len(bars)
      /\ \A k \in 1..Len(bars) : bars[k].closes \in Int /\ bars[k].opens \in Int
  <2>1. Len(bars) \in Nat /\ DOMAIN bars = 1..Len(bars) /\ \A k \in 1..Len(bars) : bars[k] \in PricedBar
    OBVIOUS
  <2>2. \A b \in PricedBar : b.closes \in Int /\ b.opens \in Int
    BY DEF PricedBar
  <2> QED BY <2>1, <2>2
<1>2. Keyed(keys, Len(bars)) /\ \A k \in 1..Len(bars) : keys[k][1] = bars[k].closes
  BY <1>1 DEF Keyed
<1>3. \A u : KnownBars(bars, u) = Sorted(bars, keys, K(u))
  BY DEF KnownBars
<1> HIDE DEF keys
<1>4. K(t) \in SUBSET (1..Len(bars))
  BY <1>1
<1>5. /\ known \in Seq(PricedBar) /\ Len(known) = Cardinality(K(t)) /\ Cardinality(K(t)) \in Nat
      /\ Cardinality(K(t)) = 0 <=> K(t) = {}
      /\ \A n \in 1..Cardinality(K(t)) : \E k \in K(t) : known[n] = bars[k]
      /\ \A g \in K(t) : (\A k \in K(t) : Precedes(keys, k, g)) => Last(known) = bars[g]
  <2> HIDE DEF K
  <2> QED BY <1>2, <1>4, SortedIs
<1>6. \A n \in 1..Len(known) : \E k \in 1..Len(bars) : known[n] = bars[k] /\ bars[k].closes <= t
  <2> TAKE n \in 1..Len(known)
  <2>1. PICK k \in K(t) : known[n] = bars[k]
    <3> HIDE DEF K, known
    <3> QED BY <1>5
  <2> QED BY <1>1, <2>1
<1>7. ASSUME known # <<>>, NEW a \in Int, Last(known).closes <= a, a <= t PROVE K(a) = K(t)
  <2>1. K(t) # {}
    <3> HIDE DEF K, known
    <3>1. Len(known) # 0
      BY <1>5, <1>7
    <3> QED BY <1>5, <3>1
  <2>2. PICK g \in K(t) : \A k \in K(t) : Precedes(keys, k, g)
    <3> HIDE DEF K
    <3> QED BY <1>1, <1>2, <1>4, <2>1, GreatestIn
  <2>3. bars[g].closes <= a
    <3>1. Last(known) = bars[g]
      BY <1>5, <2>2
    <3> QED BY <1>7, <3>1
  <2>4. \A k \in K(t) : bars[k].closes <= bars[g].closes
    <3> TAKE k \in K(t)
    <3>1. k \in 1..Len(bars) /\ g \in 1..Len(bars) /\ Precedes(keys, k, g)
      BY <1>1, <2>2
    <3>2. keys[k][1] <= keys[g][1]
      <4>1. keys[k][1] \in Int /\ keys[g][1] \in Int
        BY <1>2, <3>1 DEF Keyed
      <4> QED BY <3>1, <4>1 DEF Precedes
    <3> QED BY <1>2, <3>1, <3>2
  <2>5. \A k \in DOMAIN bars : bars[k].closes <= a <=> bars[k].closes <= t
    <3> TAKE k \in DOMAIN bars
    <3>1. bars[k].closes \in Int /\ bars[g].closes \in Int
      BY <1>1
    <3>2. CASE bars[k].closes <= t
      <4>1. bars[k].closes <= bars[g].closes
        BY <2>4, <3>2
      <4> QED BY <2>3, <3>1, <3>2, <4>1
    <3>3. CASE ~(bars[k].closes <= t)
      BY <1>7, <3>1, <3>3
    <3> QED BY <3>2, <3>3
  <2> QED BY <2>5
<1>8. ASSUME known # <<>>, NEW a \in Int, Last(known).closes <= a, a <= t
      PROVE  KnownBars(bars, a) = KnownBars(bars, t)
  <2>1. K(a) = K(t)
    BY <1>7, <1>8
  <2> HIDE DEF K
  <2> QED BY Zenon, <1>3, <2>1
<1>9. KnownBars(bars, t) = known
  BY Zenon, <1>3
<1> HIDE DEF known, K
<1> QED BY <1>5, <1>6, <1>8, <1>9

(* Points are published no sooner than they are observed.                  *)
Dated(S) == \A p \in S : p.observed \in Int /\ p.available \in Int /\ p.observed <= p.available

LEMMA PointsAreKeyed ==
  ASSUME NEW S, Dated(S), NEW points \in Seq(S)
  PROVE  /\ Len(points) \in Nat /\ DOMAIN points = 1..Len(points)
         /\ \A k \in 1..Len(points) : /\ points[k] \in S /\ points[k].observed \in Int
                                      /\ points[k].available \in Int
                                      /\ points[k].observed <= points[k].available
         /\ Keyed(PointKeys(points), Len(points))
<1>1. /\ Len(points) \in Nat /\ DOMAIN points = 1..Len(points)
      /\ \A k \in 1..Len(points) : points[k] \in S
  OBVIOUS
<1>2. \A k \in 1..Len(points) : /\ points[k].observed \in Int /\ points[k].available \in Int
                                /\ points[k].observed <= points[k].available
  BY <1>1 DEF Dated
<1>3. Keyed(PointKeys(points), Len(points))
  BY <1>1, <1>2 DEF Keyed, PointKeys
<1> QED BY <1>1, <1>2, <1>3

LEMMA LatestPointIs ==
  ASSUME NEW S, Dated(S), NEW points \in Seq(S), NEW t \in Int
  PROVE  \/ LatestPoint(points, t) = <<>> /\ KnownPoints(points, t) = {}
         \/ \E g \in KnownPoints(points, t) : /\ LatestPoint(points, t) = <<points[g]>>
                                             /\ \A k \in KnownPoints(points, t) : Precedes(PointKeys(points), k, g)
<1> DEFINE keys == PointKeys(points)
           K == KnownPoints(points, t)
<1>1. Len(points) \in Nat /\ Keyed(keys, Len(points)) /\ K \in SUBSET (1..Len(points))
  BY PointsAreKeyed DEF KnownPoints
<1>2. LatestPoint(points, t) = IF K = {} THEN <<>> ELSE <<Last(Sorted(points, keys, K))>>
  BY DEF LatestPoint
<1> HIDE DEF keys, K
<1>3. CASE K # {}
  <2>1. PICK g \in K : \A k \in K : Precedes(keys, k, g)
    BY <1>1, <1>3, GreatestIn
  <2>2. Last(Sorted(points, keys, K)) = points[g]
    BY <1>1, <2>1, SortedIs
  <2> QED BY <1>2, <1>3, <2>1, <2>2 DEF K, keys
<1> QED BY <1>2, <1>3 DEF K

LEMMA LatestPointStays ==
  ASSUME NEW S, Dated(S), NEW points \in Seq(S), NEW t \in Int, NEW a \in Int, a <= t,
         LatestPoint(points, t) # <<>> => LatestPoint(points, t)[1].available <= a
  PROVE  LatestPoint(points, a) = LatestPoint(points, t)
<1> DEFINE keys == PointKeys(points)
<1>1. /\ DOMAIN points = 1..Len(points) /\ Len(points) \in Nat /\ Keyed(keys, Len(points))
      /\ \A k \in 1..Len(points) : /\ points[k].observed \in Int /\ points[k].available \in Int
                                   /\ points[k].observed <= points[k].available
  BY PointsAreKeyed
<1>2. KnownPoints(points, a) \subseteq KnownPoints(points, t)
  BY <1>1 DEF KnownPoints
<1>3. CASE LatestPoint(points, t) = <<>> /\ KnownPoints(points, t) = {}
  <2>1. KnownPoints(points, a) = {}
    BY <1>2, <1>3
  <2> QED BY <1>3, <2>1 DEF LatestPoint
<1>4. CASE \E g \in KnownPoints(points, t) : /\ LatestPoint(points, t) = <<points[g]>>
                                            /\ \A k \in KnownPoints(points, t) : Precedes(keys, k, g)
  <2>1. PICK g \in KnownPoints(points, t) : /\ LatestPoint(points, t) = <<points[g]>>
                                           /\ \A k \in KnownPoints(points, t) : Precedes(keys, k, g)
    BY <1>4
  <2>2. LatestPoint(points, t)[1] = points[g] /\ LatestPoint(points, t) # <<>>
    BY <2>1
  <2>3. points[g].available <= a /\ g \in 1..Len(points)
    BY <1>1, <2>2 DEF KnownPoints
  <2>4. g \in KnownPoints(points, a)
    BY <1>1, <2>3 DEF KnownPoints
  <2>5. PICK h \in KnownPoints(points, a) : /\ LatestPoint(points, a) = <<points[h]>>
                                           /\ \A k \in KnownPoints(points, a) : Precedes(keys, k, h)
    BY <2>4, LatestPointIs
  <2>6. Precedes(keys, g, h) /\ Precedes(keys, h, g) /\ h \in 1..Len(points)
    <3>1. h \in 1..Len(points)
      BY <1>1, <2>5 DEF KnownPoints
    <3>2. h \in KnownPoints(points, t)
      BY <1>2, <2>5
    <3> HIDE DEF keys
    <3> QED BY <2>1, <2>4, <2>5, <3>1, <3>2
  <2>7. g = h
    <3> HIDE DEF keys
    <3> QED BY <1>1, <2>3, <2>6, PrecedesIsTotal
  <2> QED BY <2>1, <2>5, <2>7
<1> QED BY <1>3, <1>4, LatestPointIs

-----------------------------------------------------------------------------
(* The z of washouts is a weak order: a z that is not below another, and   *)
(* that not below a third, is not below the third.                         *)
IsScore(w) == w.num \in Int /\ w.den \in Nat /\ (w.den = 0 => w.num # 0)

LEMMA ProductsCompare ==
  ASSUME NEW a \in Int, NEW b \in Int, NEW c \in Int, NEW p \in Nat \ {0}, NEW q \in Nat \ {0}, NEW r \in Nat \ {0},
         a * q >= b * p, b * r >= c * q
  PROVE  a * r >= c * p
<1>1. (a * q) * r >= (b * p) * r
  <2>1. \A x \in Int, y \in Int, z \in Nat : x >= y => x * z >= y * z
    OBVIOUS
  <2>2. a * q \in Int /\ b * p \in Int /\ r \in Nat
    OBVIOUS
  <2> QED BY <2>1, <2>2
<1>2. (b * r) * p >= (c * q) * p
  <2>1. \A x \in Int, y \in Int, z \in Nat : x >= y => x * z >= y * z
    OBVIOUS
  <2>2. b * r \in Int /\ c * q \in Int /\ p \in Nat
    OBVIOUS
  <2> QED BY <2>1, <2>2
<1>3. (a * q) * r = (a * r) * q /\ (c * q) * p = (c * p) * q /\ (b * p) * r = (b * r) * p
  OBVIOUS
<1>4. (a * r) * q >= (c * p) * q
  BY <1>1, <1>2, <1>3
<1>5. \A x \in Int, y \in Int, z \in Nat \ {0} : x * z >= y * z => x >= y
  OBVIOUS
<1>6. a * r \in Int /\ c * p \in Int
  OBVIOUS
<1> QED BY <1>4, <1>5, <1>6

LEMMA ZOrders ==
  ASSUME NEW x, NEW y, NEW z, IsScore(x), IsScore(y), IsScore(z)
  PROVE  /\ ~ZLess(x, x) /\ (~ZLess(x, y) \/ ~ZLess(y, x))
         /\ ~ZLess(x, y) /\ ~ZLess(y, z) => ~ZLess(x, z)
<1> DEFINE Below(a, p, b, q) == a * q < b * p \/ (p = 0 /\ q = 0 /\ a < 0 /\ 0 < b)
<1>1. ASSUME NEW a \in Int, NEW b \in Int, NEW p \in Nat, NEW q \in Nat, p = 0 => a # 0, q = 0 => b # 0
      PROVE  /\ ~Below(a, p, a, p) /\ (~Below(a, p, b, q) \/ ~Below(b, q, a, p))
             /\ p = 0 => (Below(a, p, b, q) <=> a < 0 /\ (q # 0 \/ 0 < b))
             /\ q = 0 => (Below(a, p, b, q) <=> 0 < b /\ (p # 0 \/ a < 0))
             /\ p # 0 /\ q # 0 => (Below(a, p, b, q) <=> a * q < b * p)
  <2>1. a * q \in Int /\ b * p \in Int
    OBVIOUS
  <2>2. p = 0 => b * p = 0
    OBVIOUS
  <2>3. q = 0 => a * q = 0
    OBVIOUS
  <2>4. q # 0 => (a * q < 0 <=> a < 0)
    OBVIOUS
  <2>5. p # 0 => (0 < b * p <=> 0 < b)
    OBVIOUS
  <2>6. ~(a * p < a * p)
    <3>1. a * p \in Int
      OBVIOUS
    <3> QED BY <3>1
  <2> QED BY <1>1, <2>1, <2>2, <2>3, <2>4, <2>5, <2>6
<1>2. ASSUME NEW a \in Int, NEW b \in Int, NEW c \in Int, NEW p \in Nat, NEW q \in Nat, NEW r \in Nat,
             p = 0 => a # 0, q = 0 => b # 0, r = 0 => c # 0, ~Below(a, p, b, q), ~Below(b, q, c, r)
      PROVE  ~Below(a, p, c, r)
  <2> DEFINE ab == Below(a, p, b, q)
             bc == Below(b, q, c, r)
             ac == Below(a, p, c, r)
  <2>1. /\ p = 0 => (ab <=> a < 0 /\ (q # 0 \/ 0 < b))
        /\ q = 0 => (ab <=> 0 < b /\ (p # 0 \/ a < 0))
        /\ p # 0 /\ q # 0 => (ab <=> a * q < b * p)
    BY <1>1, <1>2
  <2>2. /\ q = 0 => (bc <=> b < 0 /\ (r # 0 \/ 0 < c))
        /\ r = 0 => (bc <=> 0 < c /\ (q # 0 \/ b < 0))
        /\ q # 0 /\ r # 0 => (bc <=> b * r < c * q)
    BY <1>1, <1>2
  <2>3. /\ p = 0 => (ac <=> a < 0 /\ (r # 0 \/ 0 < c))
        /\ r = 0 => (ac <=> 0 < c /\ (p # 0 \/ a < 0))
        /\ p # 0 /\ r # 0 => (ac <=> a * r < c * p)
    BY <1>1, <1>2
  <2>4. ~ab /\ ~bc
    BY <1>2
  <2> HIDE DEF ab, bc, ac
  <2>5. CASE p # 0 /\ q # 0 /\ r # 0
    <3>1. a * q >= b * p /\ b * r >= c * q
      <4>1. a * q \in Int /\ b * p \in Int /\ b * r \in Int /\ c * q \in Int
        OBVIOUS
      <4> QED BY <2>1, <2>2, <2>4, <2>5, <4>1
    <3>2. p \in Nat \ {0} /\ q \in Nat \ {0} /\ r \in Nat \ {0}
      BY <2>5
    <3>3. a * r >= c * p
      BY <3>1, <3>2, ProductsCompare
    <3>4. ~(a * r < c * p)
      <4>1. a * r \in Int /\ c * p \in Int
        OBVIOUS
      <4> QED BY <3>3, <4>1
    <3>5. ~ac
      BY <2>3, <2>5, <3>4
    <3> QED BY <3>5 DEF ac
  <2>6. CASE q = 0 /\ p # 0 /\ r # 0
    <3>1. ~(0 < b) /\ ~(b < 0)
      BY <2>1, <2>2, <2>4, <2>6
    <3> QED BY <1>2, <2>6, <3>1
  <2>7. CASE p = 0 \/ r = 0
    <3>1. ~ac
      BY <1>2, <2>1, <2>2, <2>3, <2>4, <2>7
    <3> QED BY <3>1 DEF ac
  <2> QED BY <2>5, <2>6, <2>7
<1>3. /\ ZLess(x, x) <=> Below(x.num, x.den, x.num, x.den)
      /\ ZLess(x, y) <=> Below(x.num, x.den, y.num, y.den)
      /\ ZLess(y, x) <=> Below(y.num, y.den, x.num, x.den)
      /\ ZLess(y, z) <=> Below(y.num, y.den, z.num, z.den)
      /\ ZLess(x, z) <=> Below(x.num, x.den, z.num, z.den)
  BY Zenon DEF ZLess
<1> HIDE DEF Below
<1>4. /\ x.num \in Int /\ x.den \in Nat /\ (x.den = 0 => x.num # 0)
      /\ y.num \in Int /\ y.den \in Nat /\ (y.den = 0 => y.num # 0)
      /\ z.num \in Int /\ z.den \in Nat /\ (z.den = 0 => z.num # 0)
  BY DEF IsScore
<1>5. ~ZLess(x, x) /\ (~ZLess(x, y) \/ ~ZLess(y, x))
  BY <1>1, <1>3, <1>4
<1>6. ~ZLess(x, y) /\ ~ZLess(y, z) => ~ZLess(x, z)
  BY <1>2, <1>3, <1>4
<1> QED BY <1>5, <1>6

-----------------------------------------------------------------------------
(* A washout has a z, and is known from the last of its points on.         *)
LEMMA TailIs ==
  ASSUME NEW S, NEW s \in Seq(S), NEW n \in Nat \ {0}
  PROVE  Tail1(s, n) \in Seq(S) /\ (Len(s) >= 1 => Len(Tail1(s, n)) >= 1 /\ Last(Tail1(s, n)) = Last(s))
<1>1. Len(s) \in Nat /\ \A k \in 1..Len(s) : s[k] \in S
  OBVIOUS
<1>2. PICK from \in Nat \ {0} : from = Larger(1, Len(s) - n + 1) /\ (Len(s) >= 1 => from <= Len(s))
  BY <1>1 DEF Larger
<1>3. Tail1(s, n) = SubSeq(s, from, Len(s))
  BY <1>2 DEF Tail1
<1>4. SubSeq(s, from, Len(s)) \in Seq(S)
  BY <1>1, <1>2
<1>5. CASE Len(s) >= 1
  <2>1. Len(SubSeq(s, from, Len(s))) = Len(s) - from + 1
    BY <1>1, <1>2, <1>5
  <2>2. SubSeq(s, from, Len(s))[Len(s) - from + 1] = s[Len(s)]
    BY <1>1, <1>2, <1>5
  <2> QED BY <1>1, <1>2, <1>3, <1>4, <1>5, <2>1, <2>2 DEF Last
<1> QED BY <1>1, <1>3, <1>4, <1>5

LEMMA MedianIs ==
  ASSUME NEW s, Len(s) >= 1
  PROVE  (s \in Seq(Int) => Median2(s) \in Int) /\ (s \in Seq(Nat) => Median2(s) \in Nat)
<1>1. ASSUME NEW S \in SUBSET Int, s \in Seq(S)
      PROVE  \E x \in S : \E y \in S : Median2(s) = x + y
  <2> DEFINE keys == [k \in DOMAIN s |-> <<s[k], 0>>]
             o == Ordered(s)
  <2>1. Len(s) \in Nat \ {0} /\ DOMAIN s = 1..Len(s) /\ \A k \in 1..Len(s) : s[k] \in Int
    <3>1. Len(s) \in Nat /\ DOMAIN s = 1..Len(s) /\ \A k \in 1..Len(s) : s[k] \in S
      BY <1>1
    <3>2. \A k \in 1..Len(s) : s[k] \in Int
      BY <3>1
    <3>3. Len(s) \in Nat \ {0}
      BY <3>1
    <3> QED BY <3>1, <3>2, <3>3
  <2>2. Keyed(keys, Len(s))
    BY <2>1 DEF Keyed
  <2>3. o = Sorted(s, keys, 1..Len(s))
    BY <2>1 DEF Ordered
  <2> HIDE DEF keys, o
  <2>4. Cardinality(1..Len(s)) = Len(s)
    BY <2>1, FS_Interval, 1 \in Int
  <2>5. o \in Seq(S) /\ Len(o) = Len(s)
    BY <1>1, <2>2, <2>3, <2>4, SortedIs
  <2>6. (Len(o) + 1) \div 2 \in 1..Len(o) /\ (Len(o) + 2) \div 2 \in 1..Len(o)
    BY <2>1, <2>5
  <2>7. o[(Len(o) + 1) \div 2] \in S /\ o[(Len(o) + 2) \div 2] \in S
    BY <2>5, <2>6
  <2>8. Median2(s) = o[(Len(o) + 1) \div 2] + o[(Len(o) + 2) \div 2]
    BY DEF Median2, o
  <2> QED BY <2>7, <2>8
<1>2. s \in Seq(Int) => Median2(s) \in Int
  <2>1. ASSUME s \in Seq(Int) PROVE Median2(s) \in Int
    <3>1. PICK x \in Int, y \in Int : Median2(s) = x + y
      BY <1>1, <2>1
    <3> QED BY <3>1
  <2> QED BY <2>1
<1>3. s \in Seq(Nat) => Median2(s) \in Nat
  <2>1. ASSUME s \in Seq(Nat) PROVE Median2(s) \in Nat
    <3>1. PICK x \in Nat, y \in Nat : Median2(s) = x + y
      BY <1>1, <2>1, Nat \in SUBSET Int
    <3> QED BY <3>1
  <2> QED BY <2>1
<1> QED BY <1>2, <1>3

LEMMA WashoutIs ==
  ASSUME NEW points \in Seq(InterestPoint), NEW K \in SUBSET (1..Len(points)),
         NEW g \in K, \A k \in K : Precedes(PointKeys(points), k, g)
  PROVE  \/ Washout(points, K) = <<>>
         \/ \E w : Washout(points, K) = <<w>> /\ IsScore(w) /\ w.available = points[g].available
<1> DEFINE seen == Sorted(points, PointKeys(points), K)
           m == Len(seen)
           changes == [k \in 1..(m - 1) |-> seen[k + 1].contracts - seen[k].contracts]
           last == Last(changes)
           history == Tail1(Front(changes), OiLookback)
           center2 == Median2(history)
           spread == [k \in DOMAIN history |-> Span(2 * history[k], center2)]
           mad4 == Median2(spread)
           den == IF mad4 = 0 /\ 2 * last = center2 THEN 1 ELSE mad4
           w == [num |-> 2 * last - center2, den |-> den,
                 low |-> 5 * last <= Quantile5(history, 2), available |-> Last(seen).available]
           short == Len(changes) <= OiMinHistory \/ Len(history) < OiMinHistory
<1>1. Washout(points, K) = IF short THEN <<>> ELSE <<w>>
  BY DEF Washout
<1>2. OiMinHistory \in Nat \ {0} /\ OiLookback \in Nat \ {0}
  BY MicroAssumption
<1>3. Dated(InterestPoint)
  BY DEF Dated, InterestPoint
<1>4. Keyed(PointKeys(points), Len(points))
  BY <1>3, PointsAreKeyed
<1>5. seen \in Seq(InterestPoint) /\ Last(seen) = points[g]
  <2> DEFINE keys == PointKeys(points)
  <2>1. Keyed(keys, Len(points)) /\ \A k \in K : Precedes(keys, k, g)
    BY <1>4
  <2> HIDE DEF keys
  <2>2. Sorted(points, keys, K) \in Seq(InterestPoint) /\ Last(Sorted(points, keys, K)) = points[g]
    BY <2>1, SortedIs
  <2> QED BY <2>2 DEF keys
<1> HIDE DEF seen
<1>6. CASE ~short
  <2>1. m \in Nat /\ \A k \in 1..m : seen[k].contracts \in Int
    <3>1. Len(seen) \in Nat /\ \A k \in 1..Len(seen) : seen[k] \in InterestPoint
      BY <1>5
    <3>2. \A p \in InterestPoint : p.contracts \in Int
      BY DEF InterestPoint
    <3> QED BY <3>1, <3>2
  <2>2. \A k \in 1..(m - 1) : seen[k + 1].contracts - seen[k].contracts \in Int
    BY <2>1
  <2>3. changes \in Seq(Int) \/ m = 0
    BY <2>1, <2>2
  <2>4. m # 0 /\ Len(changes) = m - 1 /\ m - 1 >= 2
    <3>1. m = 0 => Len(changes) = 0
      <4>1. CASE m = 0
        <5>1. DOMAIN changes = {} /\ 1..(m - 1) = {}
          BY <4>1
        <5>2. changes = <<>>
          BY <5>1
        <5> QED BY <5>2
      <4> QED BY <4>1
    <3>2. m # 0 => Len(changes) = m - 1
      BY <2>1
    <3>3. Len(changes) > OiMinHistory
      <4>1. Len(changes) \in Nat /\ ~(Len(changes) <= OiMinHistory)
        <5>1. ~(Len(changes) <= OiMinHistory)
          BY <1>6
        <5> HIDE DEF changes
        <5>2. Len(changes) \in Nat
          BY <2>1, <3>1, <3>2
        <5> QED BY <5>1, <5>2
      <4> HIDE DEF changes
      <4> QED BY <1>2, <4>1
    <3> HIDE DEF changes
    <3> QED BY <1>2, <2>1, <3>1, <3>2, <3>3
  <2>5. changes \in Seq(Int) /\ Len(changes) \in Nat
    BY <2>3, <2>4
  <2> HIDE DEF changes
  <2>6. last \in Int
    BY <2>4, <2>5 DEF Last
  <2>7. Front(changes) \in Seq(Int)
    BY <2>4, <2>5 DEF Front
  <2>8. history \in Seq(Int)
    <3>1. Tail1(Front(changes), OiLookback) \in Seq(Int)
      <4> DEFINE f == Front(changes)
      <4>1. f \in Seq(Int)
        BY <2>7
      <4> HIDE DEF f
      <4>2. Tail1(f, OiLookback) \in Seq(Int)
        BY <1>2, <4>1, TailIs
      <4> QED BY <4>2 DEF f
    <3> QED BY <3>1
  <2> HIDE DEF history
  <2>9. Len(history) \in Nat /\ Len(history) >= 1 /\ DOMAIN history = 1..Len(history)
    BY <1>2, <1>6, <2>8
  <2>10. center2 \in Int
    BY <2>8, <2>9, MedianIs
  <2> HIDE DEF center2
  <2>11. \A k \in 1..Len(history) : Span(2 * history[k], center2) \in Nat
    <3> TAKE k \in 1..Len(history)
    <3>1. history[k] \in Int
      BY <2>8
    <3> QED BY <2>10, <3>1 DEF Span
  <2>12. spread \in Seq(Nat) /\ Len(spread) >= 1
    BY <2>9, <2>11
  <2> HIDE DEF spread
  <2>13. mad4 \in Nat
    BY <2>12, MedianIs
  <2> HIDE DEF mad4, last
  <2>14. den \in Nat /\ 2 * last - center2 \in Int /\ (den = 0 => 2 * last - center2 # 0)
    BY <2>6, <2>10, <2>13
  <2> HIDE DEF den
  <2>15. w.num = 2 * last - center2 /\ w.den = den /\ w.available = points[g].available
    BY <1>5
  <2>16. IsScore(w)
    BY <2>14, <2>15 DEF IsScore
  <2> HIDE DEF w
  <2> QED BY <1>1, <1>6, <2>15, <2>16
<1> QED BY <1>1, <1>6

-----------------------------------------------------------------------------
(* The strongest washout is the same from its own publication on.          *)
KnownThen(points, k) ==
  {j \in KnownPoints(points, points[k].available) : Precedes(PointKeys(points), j, k)}
WashoutAt(points, k) == Washout(points, KnownThen(points, k))
FoundAt(points, t, from) ==
  {k \in KnownPoints(points, t) : points[k].observed >= from /\ WashoutAt(points, k) # <<>>}
LeastAt(points, t, from) ==
  {k \in FoundAt(points, t, from) :
     \A j \in FoundAt(points, t, from) : ~ZLess(WashoutAt(points, j)[1], WashoutAt(points, k)[1])}
FirstAt(points, t, from, k) ==
  k \in LeastAt(points, t, from) /\ \A j \in LeastAt(points, t, from) : Precedes(PointKeys(points), k, j)

LEMMA InterestIsKeyed ==
  ASSUME NEW points \in Seq(InterestPoint)
  PROVE  /\ Len(points) \in Nat /\ DOMAIN points = 1..Len(points)
         /\ \A k \in 1..Len(points) : /\ points[k].observed \in Int /\ points[k].available \in Int
                                      /\ points[k].observed <= points[k].available
         /\ Keyed(PointKeys(points), Len(points))
<1>1. Dated(InterestPoint)
  BY DEF Dated, InterestPoint
<1> QED BY <1>1, PointsAreKeyed

LEMMA WashoutAtIs ==
  ASSUME NEW points \in Seq(InterestPoint), NEW k \in 1..Len(points)
  PROVE  \/ WashoutAt(points, k) = <<>>
         \/ \E w : WashoutAt(points, k) = <<w>> /\ IsScore(w) /\ w.available = points[k].available
<1>1. /\ Len(points) \in Nat /\ DOMAIN points = 1..Len(points)
      /\ points[k].observed \in Int /\ points[k].available \in Int
      /\ points[k].observed <= points[k].available /\ Keyed(PointKeys(points), Len(points))
  BY InterestIsKeyed
<1>2. Precedes(PointKeys(points), k, k)
  BY <1>1, PrecedesIsTotal
<1>3. k \in KnownThen(points, k) /\ KnownThen(points, k) \in SUBSET (1..Len(points))
  BY <1>1, <1>2 DEF KnownThen, KnownPoints
<1>4. \A j \in KnownThen(points, k) : Precedes(PointKeys(points), j, k)
  BY DEF KnownThen
<1> QED BY <1>3, <1>4, WashoutIs DEF WashoutAt

LEMMA ScoresIn ==
  ASSUME NEW points \in Seq(InterestPoint), NEW t, NEW from, NEW k \in FoundAt(points, t, from)
  PROVE  /\ k \in 1..Len(points) /\ k \in KnownPoints(points, t)
         /\ IsScore(WashoutAt(points, k)[1]) /\ WashoutAt(points, k) = <<WashoutAt(points, k)[1]>>
         /\ WashoutAt(points, k)[1].available = points[k].available
<1>1. k \in 1..Len(points) /\ k \in KnownPoints(points, t) /\ WashoutAt(points, k) # <<>>
  BY InterestIsKeyed DEF FoundAt, KnownPoints
<1>2. PICK w : WashoutAt(points, k) = <<w>> /\ IsScore(w) /\ w.available = points[k].available
  BY <1>1, WashoutAtIs
<1>3. WashoutAt(points, k)[1] = w
  BY <1>2
<1> QED BY <1>1, <1>2, <1>3

LEMMA FirstExists ==
  ASSUME NEW points \in Seq(InterestPoint), NEW t, NEW from, FoundAt(points, t, from) # {}
  PROVE  \E k \in LeastAt(points, t, from) : FirstAt(points, t, from, k)
<1> DEFINE F == FoundAt(points, t, from)
           L == LeastAt(points, t, from)
           score(k) == WashoutAt(points, k)[1]
           R == {p \in F \X F : ~ZLess(score(p[2]), score(p[1]))}
<1>1. /\ Len(points) \in Nat /\ Keyed(PointKeys(points), Len(points)) /\ F \in SUBSET (1..Len(points))
      /\ \A k \in F : IsScore(score(k))
  <2>1. \A k \in F : k \in 1..Len(points) /\ IsScore(score(k))
    BY ScoresIn
  <2> HIDE DEF F
  <2> QED BY <2>1, InterestIsKeyed
<1>2. L = {k \in F : \A j \in F : ~ZLess(score(j), score(k))}
  BY DEF LeastAt
<1>3. F # {}
  OBVIOUS
<1> HIDE DEF F, L, score
<1>4. \A i \in F : \A j \in F : <<i, j>> \in R <=> ~ZLess(score(j), score(i))
  OBVIOUS
<1> HIDE DEF R
<1>5. \A i \in F : \A j \in F : <<i, j>> \in R \/ <<j, i>> \in R
  BY <1>1, <1>4, ZOrders
<1>6. \A i \in F : \A j \in F : \A k \in F : <<i, j>> \in R /\ <<j, k>> \in R => <<i, k>> \in R
  <2> TAKE i \in F
  <2> TAKE j \in F
  <2> TAKE k \in F
  <2>1. IsScore(score(i)) /\ IsScore(score(j)) /\ IsScore(score(k))
    BY <1>1
  <2>2. ~ZLess(score(k), score(j)) /\ ~ZLess(score(j), score(i)) => ~ZLess(score(k), score(i))
    BY <2>1, ZOrders
  <2> QED BY <1>4, <2>2
<1>7. PICK g \in F : \A k \in F : <<g, k>> \in R
  BY <1>1, <1>3, <1>5, <1>6, LeastIn
<1>8. g \in L /\ L \in SUBSET (1..Len(points))
  BY <1>1, <1>2, <1>4, <1>7
<1>9. PICK f \in L : \A k \in L : Precedes(PointKeys(points), f, k)
  BY <1>1, <1>8, GreatestIn
<1> QED BY <1>9 DEF FirstAt, L

LEMMA WashoutNearIs ==
  ASSUME NEW points \in Seq(InterestPoint), NEW t \in Int, NEW from
  PROVE  /\ FoundAt(points, t, from) = {} => WashoutNear(points, t, from) = <<>>
         /\ \A k : FirstAt(points, t, from, k) => WashoutNear(points, t, from) = WashoutAt(points, k)
<1> DEFINE keys == PointKeys(points)
           known == KnownPoints(points, t)
           washout == [k \in known |->
             Washout(points, {j \in known \cap KnownPoints(points, points[k].available) : Precedes(keys, j, k)})]
           found == {k \in known : points[k].observed >= from /\ washout[k] # <<>>}
           least == {k \in found : \A j \in found : ~ZLess(washout[j][1], washout[k][1])}
           first == CHOOSE k \in least : \A j \in least : Precedes(keys, k, j)
<1>1. WashoutNear(points, t, from) = IF found = {} THEN <<>> ELSE washout[first]
  BY DEF WashoutNear
<1>2. ASSUME NEW k \in known PROVE washout[k] = WashoutAt(points, k)
  <2> DEFINE seen == {j \in known \cap KnownPoints(points, points[k].available) : Precedes(keys, j, k)}
  <2>1. KnownPoints(points, points[k].available) \subseteq known
    BY InterestIsKeyed DEF KnownPoints
  <2>2. seen = KnownThen(points, k)
    BY <2>1 DEF KnownThen
  <2>3. washout[k] = Washout(points, seen)
    OBVIOUS
  <2> HIDE DEF seen, washout
  <2> QED BY <2>2, <2>3 DEF WashoutAt
<1> HIDE DEF washout
<1>3. found = FoundAt(points, t, from)
  BY <1>2 DEF FoundAt
<1>4. \A k \in found : washout[k] = WashoutAt(points, k)
  BY <1>2
<1>5. least = LeastAt(points, t, from)
  <2> HIDE DEF found
  <2> QED BY <1>3, <1>4 DEF LeastAt
<1>6. ASSUME NEW k, FirstAt(points, t, from, k) PROVE found # {} /\ washout[first] = WashoutAt(points, k)
  <2>1. k \in least /\ \A j \in least : Precedes(keys, k, j)
    BY <1>5, <1>6 DEF FirstAt
  <2>2. first \in least /\ \A j \in least : Precedes(keys, first, j)
    <3> HIDE DEF least
    <3> QED BY <2>1
  <2>3. k \in found /\ first \in found
    <3> HIDE DEF found, first
    <3> QED BY <2>1, <2>2
  <2>4. \A j \in found : j \in 1..Len(points)
    <3> HIDE DEF found
    <3> QED BY <1>3, ScoresIn
  <2>5. k = first
    <3>1. Precedes(keys, k, first) /\ Precedes(keys, first, k)
      <4> HIDE DEF first, least
      <4> QED BY <2>1, <2>2
    <3>2. k \in 1..Len(points) /\ first \in 1..Len(points)
      <4> HIDE DEF first, found
      <4> QED BY <2>3, <2>4
    <3> HIDE DEF first, keys
    <3> QED BY <3>1, <3>2, InterestIsKeyed, PrecedesIsTotal DEF keys
  <2> HIDE DEF first, found
  <2> QED BY <1>4, <2>3, <2>5
<1> HIDE DEF found, first
<1>7. FoundAt(points, t, from) = {} => WashoutNear(points, t, from) = <<>>
  BY <1>1, <1>3
<1>8. \A k : FirstAt(points, t, from, k) => WashoutNear(points, t, from) = WashoutAt(points, k)
  BY <1>1, <1>6
<1> QED BY <1>7, <1>8

LEMMA WashoutKnown ==
  ASSUME NEW points \in Seq(InterestPoint), NEW t \in Int, NEW from
  PROVE  \/ WashoutNear(points, t, from) = <<>> /\ FoundAt(points, t, from) = {}
         \/ \E k \in 1..Len(points) :
              /\ FirstAt(points, t, from, k) /\ WashoutNear(points, t, from) = WashoutAt(points, k)
              /\ WashoutAt(points, k) = <<WashoutAt(points, k)[1]>>
              /\ WashoutAt(points, k)[1].available = points[k].available
              /\ points[k].available \in Int /\ points[k].available <= t
<1>1. CASE FoundAt(points, t, from) # {}
  <2>1. PICK k \in LeastAt(points, t, from) : FirstAt(points, t, from, k)
    BY <1>1, FirstExists
  <2>2. WashoutNear(points, t, from) = WashoutAt(points, k)
    BY <2>1, WashoutNearIs
  <2>3. k \in FoundAt(points, t, from)
    BY DEF LeastAt
  <2>4. /\ k \in 1..Len(points) /\ k \in KnownPoints(points, t)
        /\ WashoutAt(points, k) = <<WashoutAt(points, k)[1]>>
        /\ WashoutAt(points, k)[1].available = points[k].available
    BY <2>3, ScoresIn
  <2>5. points[k].available \in Int /\ points[k].available <= t
    BY <2>4, InterestIsKeyed DEF KnownPoints
  <2> QED BY <2>1, <2>2, <2>4, <2>5
<1> QED BY <1>1, WashoutNearIs

LEMMA WashoutStays ==
  ASSUME NEW points \in Seq(InterestPoint), NEW t \in Int, NEW a \in Int, NEW from, a <= t,
         WashoutNear(points, t, from) # <<>> => WashoutNear(points, t, from)[1].available <= a
  PROVE  WashoutNear(points, a, from) = WashoutNear(points, t, from)
<1>1. KnownPoints(points, a) \subseteq KnownPoints(points, t)
  BY InterestIsKeyed DEF KnownPoints
<1>2. FoundAt(points, a, from) \subseteq FoundAt(points, t, from)
  BY <1>1 DEF FoundAt
<1>3. CASE FoundAt(points, t, from) = {}
  <2>1. FoundAt(points, a, from) = {}
    BY <1>2, <1>3
  <2> QED BY <1>3, <2>1, WashoutNearIs
<1>4. ASSUME NEW k \in 1..Len(points),
             FirstAt(points, t, from, k), WashoutNear(points, t, from) = WashoutAt(points, k),
             WashoutAt(points, k) = <<WashoutAt(points, k)[1]>>,
             WashoutAt(points, k)[1].available = points[k].available
      PROVE  WashoutNear(points, a, from) = WashoutNear(points, t, from)
  <2>1. k \in LeastAt(points, t, from) /\ k \in FoundAt(points, t, from)
    BY <1>4 DEF FirstAt, LeastAt
  <2>2. WashoutNear(points, t, from) # <<>>
    BY <1>4, <2>1 DEF FoundAt
  <2>3. points[k].available <= a
    <3>1. WashoutNear(points, t, from)[1] = WashoutAt(points, k)[1]
      BY <1>4
    <3> QED BY <1>4, <2>2, <3>1
  <2>4. k \in KnownPoints(points, a)
    BY <2>3, InterestIsKeyed DEF KnownPoints
  <2>5. k \in FoundAt(points, a, from)
    BY <2>1, <2>4 DEF FoundAt
  <2>6. k \in LeastAt(points, a, from)
    BY <1>2, <2>1, <2>5 DEF LeastAt
  <2>7. ASSUME NEW j \in LeastAt(points, a, from) PROVE j \in LeastAt(points, t, from)
    <3>1. j \in FoundAt(points, t, from) /\ ~ZLess(WashoutAt(points, k)[1], WashoutAt(points, j)[1])
      BY <1>2, <2>5, <2>7 DEF LeastAt
    <3>2. ASSUME NEW i \in FoundAt(points, t, from)
          PROVE  ~ZLess(WashoutAt(points, i)[1], WashoutAt(points, j)[1])
      <4>1. ~ZLess(WashoutAt(points, i)[1], WashoutAt(points, k)[1])
        BY <2>1 DEF LeastAt
      <4>2. /\ IsScore(WashoutAt(points, i)[1]) /\ IsScore(WashoutAt(points, k)[1])
            /\ IsScore(WashoutAt(points, j)[1])
        BY <2>1, <3>1, ScoresIn
      <4> QED BY <3>1, <4>1, <4>2, ZOrders
    <3> QED BY <3>1, <3>2 DEF LeastAt
  <2>8. FirstAt(points, a, from, k)
    BY <1>4, <2>6, <2>7 DEF FirstAt
  <2> QED BY <1>4, <2>8, WashoutNearIs
<1> QED BY <1>3, <1>4, WashoutKnown

-----------------------------------------------------------------------------
(* A candidate: what it says of when it became available.                  *)
LEMMA LatestOfIs ==
  ASSUME NEW s \in Seq(Int), Len(s) >= 1
  PROVE  /\ LatestOf(s) \in Int /\ \A k \in 1..Len(s) : s[k] <= LatestOf(s)
         /\ \E k \in 1..Len(s) : LatestOf(s) = s[k]
<1> DEFINE N == Len(s)
           R == {p \in (1..N) \X (1..N) : s[p[1]] >= s[p[2]]}
           all == {s[k] : k \in DOMAIN s}
<1>1. N \in Nat /\ N >= 1 /\ DOMAIN s = 1..N /\ \A k \in 1..N : s[k] \in Int
  OBVIOUS
<1> HIDE DEF N
<1>2. \A i \in 1..N : \A j \in 1..N : <<i, j>> \in R <=> s[i] >= s[j]
  OBVIOUS
<1> HIDE DEF R
<1>3. \A i \in 1..N : \A j \in 1..N : <<i, j>> \in R \/ <<j, i>> \in R
  <2> TAKE i \in 1..N
  <2> TAKE j \in 1..N
  <2>1. s[i] \in Int /\ s[j] \in Int
    BY <1>1
  <2>2. s[i] >= s[j] \/ s[j] >= s[i]
    BY <2>1
  <2> QED BY Zenon, <1>2, <2>2
<1>4. \A i \in 1..N : \A j \in 1..N : \A k \in 1..N : <<i, j>> \in R /\ <<j, k>> \in R => <<i, k>> \in R
  BY <1>1, <1>2
<1>5. 1..N # {} /\ 1..N \in SUBSET (1..N)
  BY <1>1
<1>6. PICK g \in 1..N : \A k \in 1..N : <<g, k>> \in R
  BY <1>1, <1>3, <1>4, <1>5, LeastIn
<1>7. s[g] \in all /\ \A y \in all : s[g] >= y
  BY <1>1, <1>2, <1>6
<1>8. Max(all) \in all /\ \A y \in all : Max(all) >= y
  BY <1>7 DEF Max
<1>9. LatestOf(s) = Max(all)
  BY DEF LatestOf
<1> QED BY <1>1, <1>8, <1>9 DEF N

LEMMA MaxIsIn ==
  ASSUME NEW a \in Int, NEW b \in Int, NEW K \in SUBSET (a..b), K # {}
  PROVE  Max(K) \in K
<1> DEFINE T == {b - k : k \in K}
<1>1. T \in SUBSET Nat /\ T # {}
  <2>1. \A k \in K : b - k \in Nat
    OBVIOUS
  <2> QED BY <2>1
<1>2. PICK n \in T : \A m \in T : n <= m
  BY <1>1, LeastExists
<1>3. PICK g \in K : n = b - g
  BY <1>2
<1>4. \A k \in K : g >= k
  <2> TAKE k \in K
  <2>1. b - k \in T /\ k \in Int /\ g \in Int
    OBVIOUS
  <2> QED BY <1>2, <1>3, <2>1
<1> QED BY <1>3, <1>4 DEF Max

(* A series that ends by t, and at most one point that is published by t.  *)
EndsBy(s, t) == s \in Seq(PricedBar) /\ \A k \in 1..Len(s) : s[k].closes <= t
KnownBy(latest, t) ==
  latest = <<>> \/ (latest = <<latest[1]>> /\ latest[1].available \in Int /\ latest[1].available <= t)
(* A candidate that says nothing of the time it is looked for.             *)
Candid(c, signal, t) == c.signal = signal /\ c.signal <= c.available /\ c.available \in Int /\ c.available <= t

LEMMA LastIs ==
  ASSUME NEW t \in Int, NEW s, EndsBy(s, t), Len(s) >= 1
  PROVE  Last(s).closes \in Int /\ Last(s).closes <= t /\ s # <<>>
<1>1. Len(s) \in 1..Len(s) /\ s \in Seq(PricedBar)
  BY DEF EndsBy
<1>2. s[Len(s)] \in PricedBar
  BY <1>1
<1> QED BY <1>1, <1>2 DEF Last, EndsBy, PricedBar

LEMMA AvailabilityIs ==
  ASSUME NEW t \in Int, NEW latest, KnownBy(latest, t)
  PROVE  /\ Availability(latest) \in Seq(Int)
         /\ \A k \in 1..Len(Availability(latest)) : Availability(latest)[k] <= t
         /\ latest # <<>> => Len(Availability(latest)) = 1 /\ Availability(latest)[1] = latest[1].available
<1>1. CASE latest = <<>>
  BY <1>1 DEF Availability
<1>2. CASE latest # <<>>
  <2>1. latest[1].available \in Int /\ latest[1].available <= t
    BY <1>2 DEF KnownBy
  <2>2. Availability(latest) = <<latest[1].available>>
    BY <1>2 DEF Availability
  <2> QED BY <1>2, <2>1, <2>2
<1> QED BY <1>1, <1>2

(* The latest of a series of times: of one, and of the others.             *)
LEMMA LatestOfTwo ==
  ASSUME NEW t \in Int, NEW a \in Seq(Int), NEW b \in Seq(Int), Len(a) >= 1,
         \A k \in 1..Len(a) : a[k] <= t, \A k \in 1..Len(b) : b[k] <= t
  PROVE  /\ LatestOf(a \o b) \in Int /\ LatestOf(a \o b) <= t
         /\ \A k \in 1..Len(a) : a[k] <= LatestOf(a \o b)
         /\ \A k \in 1..Len(b) : b[k] <= LatestOf(a \o b)
<1>1. PICK c : c = a \o b
  OBVIOUS
<1>2. /\ c \in Seq(Int) /\ Len(c) = Len(a) + Len(b) /\ Len(a) \in Nat /\ Len(b) \in Nat
      /\ \A i \in 1..Len(c) : c[i] = IF i <= Len(a) THEN a[i] ELSE b[i - Len(a)]
  BY <1>1
<1>3. /\ LatestOf(c) \in Int /\ \A k \in 1..Len(c) : c[k] <= LatestOf(c)
      /\ \E k \in 1..Len(c) : LatestOf(c) = c[k]
  <2>1. c \in Seq(Int) /\ Len(c) >= 1
    BY <1>2
  <2> QED BY <2>1, LatestOfIs
<1>4. LatestOf(c) <= t
  <2>1. PICK k \in 1..Len(c) : LatestOf(c) = c[k]
    BY <1>3
  <2>2. CASE k <= Len(a)
    <3>1. k \in 1..Len(a) /\ c[k] = a[k]
      BY <1>2, <2>2
    <3> QED BY <2>1, <3>1
  <2>3. CASE k > Len(a)
    <3>1. k - Len(a) \in 1..Len(b) /\ c[k] = b[k - Len(a)]
      BY <1>2, <2>3
    <3> QED BY <2>1, <3>1
  <2> QED BY <1>2, <2>2, <2>3
<1>5. \A k \in 1..Len(a) : a[k] <= LatestOf(c)
  <2> TAKE k \in 1..Len(a)
  <2>1. k \in 1..Len(c) /\ c[k] = a[k]
    BY <1>2
  <2> QED BY <1>3, <2>1
<1>6. \A k \in 1..Len(b) : b[k] <= LatestOf(c)
  <2> TAKE k \in 1..Len(b)
  <2>1. PICK i \in Nat : i = k + Len(a)
    BY <1>2
  <2>2. i \in 1..Len(c) /\ ~(i <= Len(a)) /\ i - Len(a) = k
    BY <1>2, <2>1
  <2>3. c[i] = b[k]
    BY <1>2, <2>2
  <2> QED BY <1>3, <2>2, <2>3
<1> QED BY <1>1, <1>3, <1>4, <1>5, <1>6

LEMMA BtcIsKnown ==
  ASSUME NEW btc \in Seq(PricedBar), BtcKnown(btc)
  PROVE  Len(btc) >= 1
<1>1. Minimum \in Nat /\ Minimum >= 1 /\ FlowLookback \in Nat
  BY StructureAssumption, MicroAssumption DEF Minimum
<1>2. Len(btc) >= Larger(FlowLookback, Minimum)
  BY DEF BtcKnown
<1> QED BY <1>1, <1>2 DEF Larger

LEMMA NodeIs ==
  ASSUME NEW t \in Int, NEW s, EndsBy(s, t), NEW u \in Int, Profile(KnownBars(s, u)) # <<>>
  PROVE  Profile(KnownBars(s, u))[1].available \in Int /\ Profile(KnownBars(s, u))[1].available <= t
<1> DEFINE bs == KnownBars(s, u)
<1>1. bs \in Seq(PricedBar) /\ \A n \in 1..Len(bs) : \E k \in 1..Len(s) : bs[n] = s[k]
  BY KnownBarsAre DEF EndsBy
<1> HIDE DEF bs
<1>2. /\ Len(bs) >= ProfileMinBars
      /\ Profile(bs)[1].available = Last(Tail1(bs, ProfileLookback)).closes
  <2> Profile(bs) # <<>>
    BY DEF bs
  <2>1. ~(Len(bs) < ProfileMinBars) /\ Profile(bs)[1].available = Last(Tail1(bs, ProfileLookback)).closes
    BY DEF Profile
  <2> QED BY <1>1, <2>1, MicroAssumption
<1>3. ProfileMinBars \in Nat \ {0} /\ ProfileLookback \in Nat \ {0}
  BY MicroAssumption
<1>4. Len(bs) \in 1..Len(bs)
  BY <1>1, <1>2, <1>3
<1>5. Last(Tail1(bs, ProfileLookback)) = bs[Len(bs)]
  BY <1>1, <1>3, <1>4, TailIs DEF Last
<1>6. PICK k \in 1..Len(s) : bs[Len(bs)] = s[k]
  BY <1>1, <1>4
<1>7. s[k] \in PricedBar /\ s[k].closes <= t
  BY DEF EndsBy
<1> QED BY <1>2, <1>5, <1>6, <1>7 DEF bs, PricedBar

LEMMA ShortIs ==
  ASSUME NEW t \in Int, NEW fives, NEW fifteens, NEW fours, NEW btc, NEW funding,
         EndsBy(fives, t), EndsBy(fifteens, t), EndsBy(fours, t), EndsBy(btc, t), KnownBy(funding, t),
         ShortOf(fives, fifteens, fours, btc, funding) # <<>>
  PROVE  \E c : /\ ShortOf(fives, fifteens, fours, btc, funding) = <<c>>
                /\ Candid(c, Last(fives).closes, t)
                /\ fives # <<>> /\ fifteens # <<>> /\ fours # <<>> /\ btc # <<>>
                /\ Last(fifteens).closes <= c.available /\ Last(fours).closes <= c.available
                /\ Last(btc).closes <= c.available
                /\ funding # <<>> => funding[1].available <= c.available
<1> DEFINE atr == AtrOf(fives)
           lost == Losses(fives, fifteens, atr)
           loss == Max(lost)
           node == Profile(KnownBars(fifteens, fives[loss].opens))[1]
           stop == Max({node.level} \cup {Scale * fives[k].high : k \in loss..Len(fives)}) + 10 * atr
           targets == Targets(fives, -1)
           times == <<Last(fives).closes, Last(fifteens).closes, Last(fours).closes, Last(btc).closes, node.available>>
           known == LatestOf(times \o Availability(funding))
           c == [stop |-> stop, target |-> Max(targets), signal |-> Last(fives).closes, available |-> known]
<1>1. /\ ShortOf(fives, fifteens, fours, btc, funding) = <<c>>
      /\ Len(fives) >= (IF "CVD" \in Gates THEN Larger(Minimum, FlowLookback + 1) ELSE Minimum)
      /\ Len(fifteens) >= ProfileMinBars /\ Len(fours) >= Minimum /\ lost # {} /\ BtcKnown(btc)
  BY DEF ShortOf
<1>2. /\ Minimum \in Nat /\ Minimum >= 1 /\ FlowLookback \in Nat /\ ProfileMinBars \in Nat \ {0}
      /\ SearchBars \in Nat
  BY StructureAssumption, MicroAssumption DEF Minimum
<1>3. /\ fives \in Seq(PricedBar) /\ fifteens \in Seq(PricedBar) /\ fours \in Seq(PricedBar)
      /\ btc \in Seq(PricedBar)
  BY DEF EndsBy
<1>4. Len(fives) >= 1 /\ Len(fifteens) >= 1 /\ Len(fours) >= 1 /\ Len(btc) >= 1
  <2>1. Len(btc) >= 1
    BY <1>1, <1>3, BtcIsKnown
  <2>2. Len(fives) >= 1
    BY <1>1, <1>2, <1>3 DEF Larger
  <2> QED BY <1>1, <1>2, <1>3, <2>1, <2>2
<1> HIDE DEF stop, targets, atr
<1>5. loss \in Losses(fives, fifteens, atr) /\ loss \in 1..Len(fives)
  <2>1. lost \in SUBSET (2..Len(fives))
    <3>1. Larger(2, Len(fives) - SearchBars) \in Int /\ Larger(2, Len(fives) - SearchBars) >= 2
      BY <1>2, <1>3 DEF Larger
    <3>2. lost \subseteq Larger(2, Len(fives) - SearchBars)..(Len(fives) - 1)
      BY DEF Losses
    <3> HIDE DEF lost
    <3> QED BY <1>3, <3>1, <3>2
  <2> HIDE DEF lost
  <2>2. loss \in lost
    <3>1. 2 \in Int /\ Len(fives) \in Int /\ lost # {}
      BY <1>1, <1>3
    <3> DEFINE n == Len(fives)
    <3> HIDE DEF n
    <3>2. 2 \in Int /\ n \in Int /\ lost # {} /\ lost \in SUBSET (2..n)
      BY <2>1, <3>1 DEF n
    <3>3. Max(lost) \in lost
      BY <3>2, MaxIsIn
    <3> QED BY <3>3 DEF loss
  <2>3. loss \in 2..Len(fives)
    BY <2>1, <2>2
  <2> QED BY <1>3, <2>2, <2>3 DEF lost
<1> HIDE DEF lost, loss
<1>6. fives[loss].opens \in Int /\ Profile(KnownBars(fifteens, fives[loss].opens)) # <<>>
  <2>1. fives[loss] \in PricedBar
    BY <1>3, <1>5
  <2>2. LossAt(fives, fifteens, loss, atr)
    BY <1>5 DEF Losses
  <2> QED BY <2>1, <2>2 DEF LossAt, PricedBar
<1>7. node.available \in Int /\ node.available <= t
  BY <1>6, NodeIs
<1> HIDE DEF node
<1>8. /\ Last(fives).closes \in Int /\ Last(fives).closes <= t /\ fives # <<>>
      /\ Last(fifteens).closes \in Int /\ Last(fifteens).closes <= t /\ fifteens # <<>>
      /\ Last(fours).closes \in Int /\ Last(fours).closes <= t /\ fours # <<>>
      /\ Last(btc).closes \in Int /\ Last(btc).closes <= t /\ btc # <<>>
  BY <1>4, LastIs
<1>9. /\ times \in Seq(Int) /\ Len(times) = 5 /\ times[1] = Last(fives).closes /\ times[2] = Last(fifteens).closes
      /\ times[3] = Last(fours).closes /\ times[4] = Last(btc).closes
      /\ \A k \in 1..Len(times) : times[k] <= t
  <2> DEFINE p == Last(fives).closes
             q == Last(fifteens).closes
             r == Last(fours).closes
             u == Last(btc).closes
             v == node.available
  <2>1. p \in Int /\ q \in Int /\ r \in Int /\ u \in Int /\ v \in Int /\ p <= t /\ q <= t /\ r <= t /\ u <= t /\ v <= t
    BY <1>7, <1>8
  <2> HIDE DEF p, q, r, u, v
  <2>2. /\ <<p, q, r, u, v>> \in Seq(Int) /\ Len(<<p, q, r, u, v>>) = 5
        /\ \A k \in 1..5 : <<p, q, r, u, v>>[k] <= t
    BY <2>1
  <2> QED BY <2>2 DEF p, q, r, u, v
<1> HIDE DEF times
<1>10. /\ Availability(funding) \in Seq(Int) /\ \A k \in 1..Len(Availability(funding)) : Availability(funding)[k] <= t
       /\ funding # <<>> => Len(Availability(funding)) = 1 /\ Availability(funding)[1] = funding[1].available
  BY AvailabilityIs
<1>11. /\ known \in Int /\ known <= t /\ \A k \in 1..5 : times[k] <= known
       /\ \A k \in 1..Len(Availability(funding)) : Availability(funding)[k] <= known
  <2>1. Len(times) >= 1 /\ 1..Len(times) = 1..5
    BY <1>9
  <2> QED BY <1>9, <1>10, <2>1, LatestOfTwo
<1>12. /\ Last(fives).closes <= known /\ Last(fifteens).closes <= known /\ Last(fours).closes <= known
       /\ Last(btc).closes <= known /\ (funding # <<>> => funding[1].available <= known)
  BY <1>9, <1>10, <1>11
<1> HIDE DEF known
<1>13. c.signal = Last(fives).closes /\ c.available = known
  OBVIOUS
<1> HIDE DEF c
<1> QED BY <1>1, <1>8, <1>11, <1>12, <1>13 DEF Candid

LEMMA LongIs ==
  ASSUME NEW t \in Int, NEW fives, NEW btc, NEW washout, NEW funding,
         EndsBy(fives, t), EndsBy(btc, t), KnownBy(washout, t), KnownBy(funding, t),
         LongOf(fives, btc, washout, funding) # <<>>
  PROVE  \E c : /\ LongOf(fives, btc, washout, funding) = <<c>> /\ Candid(c, Last(fives).closes, t)
                /\ fives # <<>> /\ btc # <<>> /\ Last(btc).closes <= c.available
                /\ washout # <<>> => washout[1].available <= c.available
                /\ funding # <<>> => funding[1].available <= c.available
<1> DEFINE atr == AtrOf(fives)
           sweeps == Sweeps(fives, atr)
           sweep == Max(sweeps)
           stop == Scale * fives[sweep].low - 10 * atr
           targets == Targets(fives, 1)
           first == <<Last(fives).closes, Last(btc).closes>>
           times == first \o Availability(washout)
           known == LatestOf(times \o Availability(funding))
           c == [stop |-> stop, target |-> Min(targets), signal |-> Last(fives).closes, available |-> known]
<1>1. /\ LongOf(fives, btc, washout, funding) = <<c>> /\ sweeps # {} /\ BtcKnown(btc)
  BY DEF LongOf
<1>2. SearchBars \in Nat
  BY MicroAssumption
<1>3. fives \in Seq(PricedBar) /\ btc \in Seq(PricedBar)
  BY DEF EndsBy
<1> HIDE DEF stop, targets, atr, sweep
<1>4. Len(fives) >= 1 /\ Len(btc) >= 1
  <2>1. Len(btc) >= 1
    BY <1>1, <1>3, BtcIsKnown
  <2>2. PICK k \in Larger(1, Len(fives) - SearchBars)..Len(fives) : TRUE
    BY <1>1 DEF Sweeps
  <2>3. k >= 1 /\ k <= Len(fives)
    BY <1>2, <1>3, <2>2 DEF Larger
  <2> QED BY <1>3, <2>1, <2>3
<1> HIDE DEF sweeps
<1>5. /\ Last(fives).closes \in Int /\ Last(fives).closes <= t /\ fives # <<>>
      /\ Last(btc).closes \in Int /\ Last(btc).closes <= t /\ btc # <<>>
  BY <1>4, LastIs
<1>6. /\ first \in Seq(Int) /\ Len(first) = 2 /\ first[1] = Last(fives).closes /\ first[2] = Last(btc).closes
      /\ \A k \in 1..Len(first) : first[k] <= t
  BY <1>5
<1> HIDE DEF first
<1>7. /\ Availability(funding) \in Seq(Int) /\ \A k \in 1..Len(Availability(funding)) : Availability(funding)[k] <= t
      /\ funding # <<>> => Len(Availability(funding)) = 1 /\ Availability(funding)[1] = funding[1].available
  BY AvailabilityIs
<1>8. /\ Availability(washout) \in Seq(Int) /\ \A k \in 1..Len(Availability(washout)) : Availability(washout)[k] <= t
      /\ washout # <<>> => Len(Availability(washout)) = 1 /\ Availability(washout)[1] = washout[1].available
  BY AvailabilityIs
<1>9. /\ times \in Seq(Int) /\ Len(times) >= 2 /\ Len(times) = 2 + Len(Availability(washout))
      /\ times[1] = Last(fives).closes /\ times[2] = Last(btc).closes
      /\ \A k \in 1..Len(times) : times[k] <= t
      /\ washout # <<>> => Len(times) = 3 /\ times[3] = washout[1].available
  <2>1. PICK b \in Seq(Int) : /\ b = Availability(washout) /\ \A k \in 1..Len(b) : b[k] <= t
                              /\ washout # <<>> => Len(b) = 1 /\ b[1] = washout[1].available
    BY <1>8
  <2>2. PICK d : d = first \o b
    OBVIOUS
  <2>3. /\ d \in Seq(Int) /\ Len(d) = 2 + Len(b) /\ Len(b) \in Nat
        /\ \A i \in 1..Len(d) : d[i] = IF i <= 2 THEN first[i] ELSE b[i - 2]
    <3>1. PICK a \in Seq(Int) : a = first /\ Len(a) = 2
      BY <1>6
    <3>2. /\ a \o b \in Seq(Int) /\ Len(a \o b) = Len(a) + Len(b) /\ Len(b) \in Nat
          /\ \A i \in 1..(Len(a) + Len(b)) : (a \o b)[i] = IF i <= Len(a) THEN a[i] ELSE b[i - Len(a)]
      OBVIOUS
    <3> QED BY <2>2, <3>1, <3>2
  <2>4. d[1] = Last(fives).closes /\ d[2] = Last(btc).closes
    <3>1. 1 \in 1..Len(d) /\ 2 \in 1..Len(d)
      BY <2>3
    <3> QED BY <1>6, <2>3, <3>1
  <2>5. \A k \in 1..Len(d) : d[k] <= t
    <3> TAKE k \in 1..Len(d)
    <3>1. CASE k <= 2
      <4>1. k \in 1..Len(first) /\ d[k] = first[k]
        BY <1>6, <2>3, <3>1
      <4> QED BY <1>6, <4>1
    <3>2. CASE k > 2
      <4>1. k - 2 \in 1..Len(b) /\ d[k] = b[k - 2]
        BY <2>3, <3>2
      <4> QED BY <2>1, <4>1
    <3> QED BY <2>3, <3>1, <3>2
  <2>6. washout # <<>> => Len(d) = 3 /\ d[3] = washout[1].available
    <3>1. ASSUME washout # <<>> PROVE Len(d) = 3 /\ d[3] = washout[1].available
      <4>0. Len(b) = 1 /\ b[1] = washout[1].available
        BY Zenon, <2>1, <3>1
      <4>1. Len(d) = 3 /\ 3 \in 1..Len(d)
        BY <2>3, <4>0
      <4>2. d[3] = b[1]
        BY <2>3, <4>1
      <4> QED BY <4>0, <4>1, <4>2
    <3> QED BY <3>1
  <2>7. d = times
    BY <2>1, <2>2
  <2> HIDE DEF times
  <2> QED BY <2>1, <2>3, <2>4, <2>5, <2>6, <2>7
<1> HIDE DEF times
<1>10. /\ known \in Int /\ known <= t /\ \A k \in 1..Len(times) : times[k] <= known
       /\ \A k \in 1..Len(Availability(funding)) : Availability(funding)[k] <= known
  <2>1. Len(times) >= 1
    BY <1>9
  <2> QED BY <1>7, <1>9, <2>1, LatestOfTwo
<1>11. /\ Last(fives).closes <= known /\ Last(btc).closes <= known
       /\ (washout # <<>> => washout[1].available <= known)
       /\ (funding # <<>> => funding[1].available <= known)
  <2>1. 1 \in 1..Len(times) /\ 2 \in 1..Len(times)
    BY <1>8, <1>9
  <2>2. Last(fives).closes <= known /\ Last(btc).closes <= known
    BY <1>9, <1>10, <2>1
  <2>3. washout # <<>> => washout[1].available <= known
    <3>1. washout # <<>> => 3 \in 1..Len(times)
      BY <1>9
    <3> QED BY <1>9, <1>10, <3>1
  <2>4. funding # <<>> => funding[1].available <= known
    <3>1. ASSUME funding # <<>> PROVE funding[1].available <= known
      <4>1. Len(Availability(funding)) = 1 /\ Availability(funding)[1] = funding[1].available
        BY Zenon, <1>7, <3>1
      <4>2. 1 \in 1..Len(Availability(funding))
        BY <4>1
      <4> QED BY <1>10, <4>1, <4>2
    <3> QED BY <3>1
  <2> QED BY <2>2, <2>3, <2>4
<1> HIDE DEF known
<1>12. c.signal = Last(fives).closes /\ c.available = known
  OBVIOUS
<1> HIDE DEF c
<1> QED BY <1>1, <1>5, <1>10, <1>11, <1>12 DEF Candid

-----------------------------------------------------------------------------
(* Each candidate was there, the same, when it says it became available.   *)
SameThen(candidates, c, t, start) ==
  /\ candidates = <<c>> /\ c.signal <= c.available /\ c.available <= t
  /\ c.available \in Int /\ start < c.available

LEMMA SeriesEnd ==
  ASSUME NEW bars \in Seq(PricedBar), NEW t \in Int
  PROVE  EndsBy(KnownBars(bars, t), t)
<1>1. /\ KnownBars(bars, t) \in Seq(PricedBar)
      /\ \A n \in 1..Len(KnownBars(bars, t)) :
           \E k \in 1..Len(bars) : KnownBars(bars, t)[n] = bars[k] /\ bars[k].closes <= t
  BY KnownBarsAre
<1> QED BY <1>1 DEF EndsBy

LEMMA FundingKnown ==
  ASSUME NEW points \in Seq(FundingPoint), NEW t \in Int
  PROVE  /\ KnownBy(LatestPoint(points, t), t)
         /\ \A a \in Int : a <= t /\ (LatestPoint(points, t) # <<>> => LatestPoint(points, t)[1].available <= a)
                             => LatestPoint(points, a) = LatestPoint(points, t)
<1>1. Dated(FundingPoint)
  BY DEF Dated, FundingPoint
<1>2. KnownBy(LatestPoint(points, t), t)
  <2>1. CASE LatestPoint(points, t) = <<>>
    BY <2>1 DEF KnownBy
  <2>2. ASSUME NEW g \in KnownPoints(points, t), LatestPoint(points, t) = <<points[g]>>
        PROVE  KnownBy(LatestPoint(points, t), t)
    <3>1. points[g].available \in Int /\ points[g].available <= t
      BY <1>1, PointsAreKeyed DEF KnownPoints
    <3>2. LatestPoint(points, t)[1] = points[g]
      BY <2>2
    <3> QED BY <2>2, <3>1, <3>2 DEF KnownBy
  <2> QED BY <1>1, <2>1, <2>2, LatestPointIs
<1> QED BY <1>1, <1>2, LatestPointStays

LEMMA BarsKnown ==
  ASSUME NEW bars \in Seq(PricedBar), NEW t \in Int, NEW a \in Int, a <= t,
         KnownBars(bars, t) # <<>>, Last(KnownBars(bars, t)).closes <= a
  PROVE  KnownBars(bars, a) = KnownBars(bars, t)
BY KnownBarsAre

LEMMA AfterStart ==
  ASSUME NEW bars \in Seq(PricedBar), NEW t \in Int, NEW start \in Int,
         \A k \in DOMAIN bars : start < bars[k].closes, KnownBars(bars, t) # <<>>
  PROVE  start < Last(KnownBars(bars, t)).closes
<1> DEFINE s == KnownBars(bars, t)
<1>1. s \in Seq(PricedBar) /\ \A n \in 1..Len(s) : \E k \in 1..Len(bars) : s[n] = bars[k]
  BY KnownBarsAre
<1> HIDE DEF s
<1>2. Len(s) \in 1..Len(s)
  BY <1>1 DEF s
<1>3. PICK k \in 1..Len(bars) : s[Len(s)] = bars[k]
  BY <1>1, <1>2
<1> QED BY <1>3 DEF Last, s

LEMMA ShortStays ==
  ASSUME data \in MicroSeries, NEW start \in Int, \A k \in DOMAIN data.eth : start < data.eth[k].closes,
         NEW t \in Int, ShortCandidate(t) # <<>>
  PROVE  \E c : SameThen(ShortCandidate(t), c, t, start) /\ ShortCandidate(c.available) = <<c>>
<1> DEFINE fives(u) == KnownBars(data.eth, u)
           fifteens(u) == KnownBars(data.eth15, u)
           fours(u) == KnownBars(data.eth4h, u)
           btc(u) == KnownBars(data.btc, u)
           funding(u) == LatestPoint(data.funding, u)
<1>1. /\ data.eth \in Seq(PricedBar) /\ data.eth15 \in Seq(PricedBar) /\ data.eth4h \in Seq(PricedBar)
      /\ data.btc \in Seq(PricedBar) /\ data.funding \in Seq(FundingPoint)
  BY DEF MicroSeries
<1>2. \A u : ShortCandidate(u) = ShortOf(fives(u), fifteens(u), fours(u), btc(u), funding(u))
  BY DEF ShortCandidate
<1>3. /\ EndsBy(fives(t), t) /\ EndsBy(fifteens(t), t) /\ EndsBy(fours(t), t) /\ EndsBy(btc(t), t)
      /\ KnownBy(funding(t), t)
  BY <1>1, SeriesEnd, FundingKnown
<1>4. PICK c : /\ ShortCandidate(t) = <<c>> /\ Candid(c, Last(fives(t)).closes, t)
               /\ fives(t) # <<>> /\ fifteens(t) # <<>> /\ fours(t) # <<>> /\ btc(t) # <<>>
               /\ Last(fifteens(t)).closes <= c.available /\ Last(fours(t)).closes <= c.available
               /\ Last(btc(t)).closes <= c.available
               /\ funding(t) # <<>> => funding(t)[1].available <= c.available
  <2>1. ShortOf(fives(t), fifteens(t), fours(t), btc(t), funding(t)) # <<>>
    BY <1>2
  <2> HIDE DEF fives, fifteens, fours, btc, funding
  <2> QED BY <1>2, <1>3, <2>1, ShortIs
<1>5. /\ c.signal = Last(fives(t)).closes /\ c.signal <= c.available /\ c.available \in Int /\ c.available <= t
  BY <1>4 DEF Candid
<1>6. start < c.available
  <2>1. start < Last(fives(t)).closes
    BY <1>1, <1>4, AfterStart
  <2>2. Last(fives(t)).closes \in Int
    <3>1. Len(fives(t)) >= 1 /\ EndsBy(fives(t), t)
      BY <1>3, <1>4 DEF EndsBy
    <3> QED BY <3>1, LastIs
  <2> QED BY <1>5, <2>1, <2>2
<1>7. /\ fives(c.available) = fives(t) /\ fifteens(c.available) = fifteens(t) /\ fours(c.available) = fours(t)
      /\ btc(c.available) = btc(t)
  BY <1>1, <1>4, <1>5, BarsKnown
<1>8. funding(c.available) = funding(t)
  BY <1>1, <1>4, <1>5, FundingKnown
<1>9. ShortCandidate(c.available) = ShortCandidate(t)
  <2> HIDE DEF fives, fifteens, fours, btc, funding
  <2> QED BY <1>2, <1>7, <1>8
<1> QED BY <1>4, <1>5, <1>6, <1>9 DEF SameThen

LEMMA LongStays ==
  ASSUME data \in MicroSeries, NEW start \in Int, \A k \in DOMAIN data.eth : start < data.eth[k].closes,
         NEW t \in Int, LongCandidate(t) # <<>>
  PROVE  \E c : SameThen(LongCandidate(t), c, t, start) /\ LongCandidate(c.available) = <<c>>
<1> DEFINE fives(u) == KnownBars(data.eth, u)
           btc(u) == KnownBars(data.btc, u)
           funding(u) == LatestPoint(data.funding, u)
           sweeps(bs) == Sweeps(bs, AtrOf(bs))
           near(bs, u) == IF sweeps(bs) = {} THEN <<>>
                          ELSE WashoutNear(data.interest, u, bs[Max(sweeps(bs))].opens)
<1>1. /\ data.eth \in Seq(PricedBar) /\ data.btc \in Seq(PricedBar)
      /\ data.interest \in Seq(InterestPoint) /\ data.funding \in Seq(FundingPoint)
  BY DEF MicroSeries
<1>2. \A u : LongCandidate(u) = LongOf(fives(u), btc(u), near(fives(u), u), funding(u))
  BY DEF LongCandidate
<1> HIDE DEF sweeps
<1>3. \A bs : KnownBy(near(bs, t), t)
  <2> TAKE bs
  <2>1. CASE sweeps(bs) = {}
    BY <2>1 DEF KnownBy
  <2>2. CASE sweeps(bs) # {}
    <3> DEFINE from == bs[Max(sweeps(bs))].opens
    <3>1. near(bs, t) = WashoutNear(data.interest, t, from)
      BY <2>2
    <3> HIDE DEF from
    <3>2. CASE WashoutNear(data.interest, t, from) = <<>>
      BY <3>1, <3>2 DEF KnownBy
    <3>3. ASSUME NEW k \in 1..Len(data.interest), WashoutNear(data.interest, t, from) = WashoutAt(data.interest, k),
                 WashoutAt(data.interest, k) = <<WashoutAt(data.interest, k)[1]>>,
                 WashoutAt(data.interest, k)[1].available = data.interest[k].available,
                 data.interest[k].available \in Int, data.interest[k].available <= t
          PROVE  KnownBy(near(bs, t), t)
      <4> DEFINE w == WashoutNear(data.interest, t, from)
      <4>1. w = <<w[1]>> /\ w[1].available \in Int /\ w[1].available <= t
        BY <3>3
      <4> HIDE DEF w
      <4>2. KnownBy(w, t)
        BY <4>1 DEF KnownBy
      <4> QED BY <3>1, <4>2 DEF w
    <3> QED BY <1>1, <3>2, <3>3, WashoutKnown
  <2> QED BY <2>1, <2>2
<1>4. EndsBy(fives(t), t) /\ EndsBy(btc(t), t) /\ KnownBy(funding(t), t)
  BY <1>1, SeriesEnd, FundingKnown
<1>5. \A bs : \A a \in Int : a <= t /\ (near(bs, t) # <<>> => near(bs, t)[1].available <= a)
                               => near(bs, a) = near(bs, t)
  BY <1>1, WashoutStays
<1> HIDE DEF near
<1>6. PICK c : /\ LongCandidate(t) = <<c>> /\ Candid(c, Last(fives(t)).closes, t)
               /\ fives(t) # <<>> /\ btc(t) # <<>> /\ Last(btc(t)).closes <= c.available
               /\ near(fives(t), t) # <<>> => near(fives(t), t)[1].available <= c.available
               /\ funding(t) # <<>> => funding(t)[1].available <= c.available
  <2>1. LongOf(fives(t), btc(t), near(fives(t), t), funding(t)) # <<>> /\ KnownBy(near(fives(t), t), t)
    BY <1>2, <1>3
  <2> HIDE DEF fives, btc, funding
  <2> QED BY <1>2, <1>4, <2>1, LongIs
<1>7. /\ c.signal = Last(fives(t)).closes /\ c.signal <= c.available /\ c.available \in Int /\ c.available <= t
  BY <1>6 DEF Candid
<1>8. start < c.available
  <2>1. start < Last(fives(t)).closes
    BY <1>1, <1>6, AfterStart
  <2>2. Last(fives(t)).closes \in Int
    <3>1. Len(fives(t)) >= 1 /\ EndsBy(fives(t), t)
      BY <1>4, <1>6 DEF EndsBy
    <3> QED BY <3>1, LastIs
  <2> QED BY <1>7, <2>1, <2>2
<1>9. fives(c.available) = fives(t) /\ btc(c.available) = btc(t)
  BY <1>1, <1>6, <1>7, BarsKnown
<1>10. funding(c.available) = funding(t)
  BY <1>1, <1>6, <1>7, FundingKnown
<1>11. near(fives(t), c.available) = near(fives(t), t)
  BY <1>5, <1>6, <1>7
<1>12. LongCandidate(c.available) = LongCandidate(t)
  <2> HIDE DEF fives, btc, funding
  <2> QED BY <1>2, <1>9, <1>10, <1>11
<1> QED BY <1>6, <1>7, <1>8, <1>12 DEF SameThen

(* What a replay holds: at each time since it began, before the first bar, *)
(* the candidates of that time.                                            *)
MicroInv ==
  /\ data \in MicroSeries /\ asOf \in Int
  /\ \E start \in Int :
       /\ \A k \in DOMAIN data.eth : start < data.eth[k].closes
       /\ start <= asOf /\ DOMAIN replay = (start + 1)..asOf
       /\ \A t \in (start + 1)..asOf : replay[t] = [short |-> ShortCandidate(t), long |-> LongCandidate(t)]

LEMMA MicroStarts == MicroInit => MicroInv
<1> SUFFICES ASSUME MicroInit PROVE MicroInv
  OBVIOUS
<1>1. /\ data \in MicroSeries /\ asOf \in Int /\ \A k \in DOMAIN data.eth : asOf < data.eth[k].closes
      /\ replay = <<>>
  BY DEF MicroInit
<1>2. DOMAIN replay = (asOf + 1)..asOf /\ asOf <= asOf /\ (asOf + 1)..asOf = {}
  BY <1>1
<1> QED BY <1>1, <1>2 DEF MicroInv

LEMMA MicroStep == MicroInv /\ [TimePasses]_micro => MicroInv'
<1> SUFFICES ASSUME MicroInv, [TimePasses]_micro PROVE MicroInv'
  OBVIOUS
<1>1. ASSUME data' = data PROVE \A t : ShortCandidate(t)' = ShortCandidate(t) /\ LongCandidate(t)' = LongCandidate(t)
  BY <1>1 DEF ShortCandidate, LongCandidate
<1>2. CASE UNCHANGED micro
  <2>1. data' = data /\ asOf' = asOf /\ replay' = replay
    BY <1>2 DEF micro
  <2> QED BY <1>1, <2>1 DEF MicroInv
<1>3. CASE TimePasses
  <2>1. PICK start \in Int :
           /\ \A k \in DOMAIN data.eth : start < data.eth[k].closes
           /\ start <= asOf /\ DOMAIN replay = (start + 1)..asOf
           /\ \A t \in (start + 1)..asOf : replay[t] = [short |-> ShortCandidate(t), long |-> LongCandidate(t)]
    BY DEF MicroInv
  <2>2. data \in MicroSeries /\ asOf \in Int
    BY DEF MicroInv
  <2>3. /\ asOf' = asOf + 1 /\ data' = data
        /\ replay' = [t \in DOMAIN replay \cup {asOf'} |->
             IF t = asOf' THEN [short |-> ShortCandidate(t), long |-> LongCandidate(t)] ELSE replay[t]]
    BY <1>3 DEF TimePasses
  <2>4. DOMAIN replay \cup {asOf'} = (start + 1)..asOf'
    BY <2>1, <2>2, <2>3
  <2>5. DOMAIN replay' = (start + 1)..asOf' /\ asOf' \in Int /\ start <= asOf'
    BY <2>1, <2>2, <2>3, <2>4
  <2>6. \A t \in (start + 1)..asOf' : replay'[t] = [short |-> ShortCandidate(t), long |-> LongCandidate(t)]
    <3> TAKE t \in (start + 1)..asOf'
    <3>1. replay'[t] = IF t = asOf' THEN [short |-> ShortCandidate(t), long |-> LongCandidate(t)] ELSE replay[t]
      BY <2>3, <2>4
    <3>2. t # asOf' => t \in (start + 1)..asOf
      BY <2>2, <2>3
    <3> QED BY <2>1, <3>1, <3>2
  <2>7. \A t \in (start + 1)..asOf' : replay'[t] = [short |-> ShortCandidate(t)', long |-> LongCandidate(t)']
    BY <1>1, <2>3, <2>6
  <2> QED BY <2>1, <2>2, <2>3, <2>5, <2>7 DEF MicroInv
<1> QED BY <1>2, <1>3

LEMMA ReplayHolds == MicroInv => CandidateReproducible
<1> SUFFICES ASSUME MicroInv, NEW t \in DOMAIN replay, NEW side \in {"short", "long"}, replay[t][side] # <<>>
             PROVE  LET candidate == replay[t][side][1]
                    IN /\ candidate.signal <= candidate.available /\ candidate.available <= t
                       /\ candidate.available \in DOMAIN replay
                       /\ replay[candidate.available][side] = <<candidate>>
  BY DEF CandidateReproducible
<1>1. PICK start \in Int :
         /\ \A k \in DOMAIN data.eth : start < data.eth[k].closes
         /\ start <= asOf /\ DOMAIN replay = (start + 1)..asOf
         /\ \A u \in (start + 1)..asOf : replay[u] = [short |-> ShortCandidate(u), long |-> LongCandidate(u)]
  BY DEF MicroInv
<1>2. data \in MicroSeries /\ asOf \in Int /\ t \in Int /\ t <= asOf
  BY <1>1 DEF MicroInv
<1> DEFINE At(u) == IF side = "short" THEN ShortCandidate(u) ELSE LongCandidate(u)
<1>3. \A u \in (start + 1)..asOf : replay[u][side] = At(u)
  BY <1>1
<1>4. At(t) # <<>>
  BY <1>1, <1>3
<1>5. PICK c : SameThen(At(t), c, t, start) /\ At(c.available) = <<c>>
  BY <1>1, <1>2, <1>4, ShortStays, LongStays
<1> HIDE DEF At
<1>6. replay[t][side] = <<c>>
  BY <1>1, <1>3, <1>5 DEF SameThen
<1>7. replay[t][side][1] = c
  BY <1>6
<1>8. c.signal <= c.available /\ c.available <= t /\ c.available \in (start + 1)..asOf
  BY <1>1, <1>2, <1>5 DEF SameThen
<1>9. replay[c.available][side] = <<c>>
  BY <1>3, <1>5, <1>8
<1> QED BY <1>1, <1>7, <1>8, <1>9

(* A candidate of C-M2 or C-M3 was there, the same one, at the moment it   *)
(* says it became available, and not before the bar that signals it: for   *)
(* every history of bars in any order, every publication of open interest  *)
(* and funding that is not before its observation, every configuration and *)
(* set of gates (crypto_micro_rules.py:46).                                *)
THEOREM CandidatesReproduce == MicroSpec => []CandidateReproducible
<1>1. MicroInit => MicroInv
  BY MicroStarts
<1>2. MicroInv /\ [TimePasses]_micro => MicroInv'
  BY MicroStep
<1>3. MicroInv => CandidateReproducible
  BY ReplayHolds
<1> QED BY <1>1, <1>2, <1>3, PTL DEF MicroSpec
=============================================================================
