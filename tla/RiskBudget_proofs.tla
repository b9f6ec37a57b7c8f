-------------------------- MODULE RiskBudget_proofs --------------------------
(***************************************************************************)
(* The loss of a day and the drawdown, for any number of trades, days and  *)
(* outcomes.  Neither property is inductive alone: what is open when a     *)
(* limit is reached may still be lost.  The one invariant is about the     *)
(* day's result less the R at risk, the other about what the equity is at  *)
(* worst once all that is open is lost: an outcome lowers neither, and a   *)
(* new trade does so only while the limit is not reached and there is      *)
(* room in the cluster.  An outcome rounds the equity down by less than    *)
(* one step, which the second counts for every R at risk.                  *)
(***************************************************************************)
EXTENDS RiskBudget, Recursion

Trade   == [size : Nat, tp1 : BOOLEAN]
Outcome == [r : Int, size : Nat, day : Nat]
State   == [equity : Int, peak : Int, daily : Int, losses : Int, throttle : BOOLEAN, stop : BOOLEAN]

BudgetTypes ==
  /\ made \in Nat /\ day \in Nat
  /\ DOMAIN open \in SUBSET (1..made) /\ open \in [DOMAIN open -> Trade]
  /\ outcomes \in Seq(Outcome)
  /\ \A n \in 1..Len(outcomes) : outcomes[n].day <= day

(* The two recursions are what they say.                                   *)
CountedOutcomes ==
  /\ Counted[0] = NoOutcomes
  /\ \A n \in 1..Len(outcomes) : Counted[n] = Count(Counted[n - 1], outcomes[n])
  /\ \A n \in 0..Len(outcomes) : Counted[n] \in State

SummedSizes ==
  /\ AtRisk[0] = 0
  /\ \A n \in 1..made : AtRisk[n] = AtRisk[n - 1] + SizeOf(n)
  /\ \A n \in 0..made : AtRisk[n] \in Nat

BudgetInv ==
  /\ BudgetTypes
  /\ ActiveR <= MaxClusterR
  /\ RiskState.daily - ActiveR > -(MaxDailyLossR + MaxClusterR)

-----------------------------------------------------------------------------
LEMMA QuotientIsInt == ASSUME NEW a \in Int, NEW b \in Nat, b > 0 PROVE a \div b \in Int
<1> QED OBVIOUS

LEMMA CountsState ==
  ASSUME NEW s \in State, NEW o \in Outcome, day \in Nat
  PROVE  /\ Count(s, o) \in State
         /\ Count(s, o).daily = IF o.day >= day THEN s.daily + o.r * o.size ELSE s.daily
<1> DEFINE equity == (s.equity * (Unit + o.r * o.size)) \div Unit
           moved == [s EXCEPT !.equity = equity, !.peak = Greater(@, equity)]
<1>1. Unit \in Nat /\ Unit > 0
  BY BudgetAssumption
<1>2. equity \in Int
  <2>1. s.equity * (Unit + o.r * o.size) \in Int
    BY <1>1 DEF State, Outcome
  <2> QED BY <1>1, <2>1, QuotientIsInt
<1> HIDE DEF equity
<1>3. moved \in State
  BY <1>2 DEF State, Greater
<1>4. (s.throttle \/ Down(moved, ThrottleStart)) \in BOOLEAN
      /\ (s.stop \/ Down(moved, Stop)) \in BOOLEAN
  OBVIOUS
<1>5. (IF o.day >= day THEN s.daily + o.r * o.size ELSE s.daily) \in Int
  BY DEF State, Outcome
<1>6. (CASE o.r < 0 -> s.losses + 1 [] o.r > 0 -> 0 [] OTHER -> s.losses) \in Int
  BY DEF State, Outcome
<1> QED BY <1>2, <1>3, <1>4, <1>5, <1>6 DEF Count, State, Outcome, equity

(* Two sums that differ in one of their terms differ by as much.           *)
LEMMA SumsDiffer ==
  ASSUME NEW N \in Nat, NEW f, NEW g, NEW m \in Nat, NEW d \in Int,
         \A k \in 0..N : f[k] \in Int /\ g[k] \in Int,
         f[0] = g[0],
         \A k \in 1..N : g[k] - g[k - 1] = f[k] - f[k - 1] + (IF k = m THEN d ELSE 0)
  PROVE  g[N] = f[N] + (IF m \in 1..N THEN d ELSE 0)
<1> DEFINE T == {k \in 0..N : g[k] = f[k] + (IF m \in 1..k THEN d ELSE 0)}
<1>1. 0 \in T
  OBVIOUS
<1>2. ASSUME NEW k \in 1..N, k - 1 \in T PROVE k \in T
  <2>1. k \in 0..N /\ k - 1 \in 0..N
    OBVIOUS
  <2>2. f[k] \in Int /\ g[k] \in Int /\ f[k - 1] \in Int /\ g[k - 1] \in Int
    BY <2>1
  <2>3. g[k] - g[k - 1] = f[k] - f[k - 1] + (IF k = m THEN d ELSE 0)
    OBVIOUS
  <2>4. g[k - 1] = f[k - 1] + (IF m \in 1..(k - 1) THEN d ELSE 0)
    BY <1>2
  <2>5. g[k] = f[k] + (IF m \in 1..k THEN d ELSE 0)
    BY <2>2, <2>3, <2>4
  <2> QED BY <2>1, <2>5
<1> HIDE DEF T
<1>3. \A k \in 0..N : k \in T
  BY <1>1, <1>2, UpTo
<1>4. N \in T
  BY <1>3
<1> QED BY <1>4 DEF T

LEMMA CountedIs == BudgetTypes => CountedOutcomes
<1> SUFFICES ASSUME BudgetTypes PROVE CountedOutcomes
  OBVIOUS
<1> DEFINE L == Len(outcomes)
           step == [n \in 1..L |-> [s \in State |-> Count(s, outcomes[n])]]
<1>1. L \in Nat /\ day \in Nat /\ \A n \in 1..L : outcomes[n] \in Outcome
  BY DEF BudgetTypes
<1>2. NoOutcomes \in State
  BY DEF NoOutcomes, State, One
<1>3. step \in [1..L -> [State -> State]]
  BY <1>1, CountsState
<1>4. \A n \in 1..L : \A s \in State : step[n][s] = Count(s, outcomes[n])
  OBVIOUS
<1> HIDE DEF step, L
<1>5. PICK f : Follows(f, L, State, NoOutcomes, step)
  BY <1>1, <1>2, <1>3, RecursionExists
<1>6. ASSUME NEW n \in 1..L PROVE f[n] = Count(f[n - 1], outcomes[n])
  <2>1. f[n - 1] \in State
    BY <1>1, <1>5 DEF Follows
  <2> QED BY <1>4, <1>5, <2>1 DEF Follows
<1>7. f = [n \in 0..L |-> IF n = 0 THEN NoOutcomes ELSE Count(f[n - 1], outcomes[n])]
  <2>1. \A n \in 0..L : f[n] = IF n = 0 THEN NoOutcomes ELSE Count(f[n - 1], outcomes[n])
    BY <1>1, <1>5, <1>6 DEF Follows
  <2> QED BY <1>5, <2>1, Zenon DEF Follows
<1>8. Counted = [n \in 0..L |-> IF n = 0 THEN NoOutcomes ELSE Count(Counted[n - 1], outcomes[n])]
  BY <1>7, Zenon DEF Counted, L
<1>9. \A n \in 0..L : Counted[n] = IF n = 0 THEN NoOutcomes ELSE Count(Counted[n - 1], outcomes[n])
  BY <1>8, Zenon
<1>10. Counted[0] = NoOutcomes /\ \A n \in 1..L : Counted[n] = Count(Counted[n - 1], outcomes[n])
  BY <1>1, <1>9
<1> DEFINE T == {n \in 0..L : Counted[n] \in State}
<1>11. 0 \in T
  BY <1>1, <1>2, <1>10
<1>12. ASSUME NEW n \in 1..L, n - 1 \in T PROVE n \in T
  BY <1>1, <1>10, <1>12, CountsState
<1> HIDE DEF T
<1>13. \A n \in 0..L : n \in T
  BY <1>1, <1>11, <1>12, UpTo
<1> QED BY <1>10, <1>13 DEF CountedOutcomes, T, L

LEMMA AtRiskIs == BudgetTypes => SummedSizes
<1> SUFFICES ASSUME BudgetTypes PROVE SummedSizes
  OBVIOUS
<1> DEFINE step == [n \in 1..made |-> [s \in Nat |-> s + SizeOf(n)]]
<1>1. made \in Nat /\ \A n \in 1..made : SizeOf(n) \in Nat
  BY DEF BudgetTypes, SizeOf, Trade
<1>2. step \in [1..made -> [Nat -> Nat]]
  BY <1>1
<1>3. \A n \in 1..made : \A s \in Nat : step[n][s] = s + SizeOf(n)
  OBVIOUS
<1> HIDE DEF step
<1>4. PICK f : Follows(f, made, Nat, 0, step)
  <2>1. 0 \in Nat
    OBVIOUS
  <2> QED BY <1>1, <1>2, <2>1, RecursionExists
<1>5. ASSUME NEW n \in 1..made PROVE f[n] = f[n - 1] + SizeOf(n)
  <2>1. f[n - 1] \in Nat
    BY <1>1, <1>4 DEF Follows
  <2> QED BY <1>3, <1>4, <2>1 DEF Follows
<1>6. f = [n \in 0..made |-> IF n = 0 THEN 0 ELSE f[n - 1] + SizeOf(n)]
  <2>1. \A n \in 0..made : f[n] = IF n = 0 THEN 0 ELSE f[n - 1] + SizeOf(n)
    BY <1>1, <1>4, <1>5 DEF Follows
  <2> QED BY <1>4, <2>1, Zenon DEF Follows
<1>7. AtRisk = [n \in 0..made |-> IF n = 0 THEN 0 ELSE AtRisk[n - 1] + SizeOf(n)]
  BY <1>6, Zenon DEF AtRisk
<1>8. \A n \in 0..made : AtRisk[n] = IF n = 0 THEN 0 ELSE AtRisk[n - 1] + SizeOf(n)
  BY <1>7, Zenon
<1>9. AtRisk[0] = 0 /\ \A n \in 1..made : AtRisk[n] = AtRisk[n - 1] + SizeOf(n)
  BY <1>1, <1>8
<1> DEFINE T == {n \in 0..made : AtRisk[n] \in Nat}
<1>10. 0 \in T
  BY <1>1, <1>9
<1>11. ASSUME NEW n \in 1..made, n - 1 \in T PROVE n \in T
  BY <1>1, <1>9, <1>11
<1> HIDE DEF T
<1>12. \A n \in 0..made : n \in T
  BY <1>1, <1>10, <1>11, UpTo
<1> QED BY <1>9, <1>12 DEF SummedSizes, T

-----------------------------------------------------------------------------
(* What the actions do to the two sums.                                    *)

LEMMA CountsAppended ==
  ASSUME BudgetTypes, BudgetTypes', CountedOutcomes, CountedOutcomes', day' = day,
         NEW o \in Outcome, o.day = day, outcomes' = Append(outcomes, o)
  PROVE  /\ RiskState' = Count(RiskState, o)
         /\ RiskState'.daily = RiskState.daily + o.r * o.size
<1> PICK L : L = Len(outcomes)
  OBVIOUS
<1> DEFINE T == {n \in 0..L : Counted'[n] = Counted[n]}
<1>1. L \in Nat /\ Len(outcomes)' = L + 1 /\ day \in Nat
      /\ outcomes'[L + 1] = o /\ \A n \in 1..L : outcomes'[n] = outcomes[n]
  BY DEF BudgetTypes
<1>2. 0 \in T
  BY <1>1 DEF CountedOutcomes, NoOutcomes
<1>3. ASSUME NEW n \in 1..L, n - 1 \in T PROVE n \in T
  <2>1. Counted'[n] = Count(Counted[n - 1], outcomes[n])'
    BY <1>1 DEF CountedOutcomes
  <2>2. Counted'[n - 1] = Counted[n - 1] /\ outcomes'[n] = outcomes[n]
    BY <1>1, <1>3
  <2>3. Count(Counted[n - 1], outcomes[n])' = Count(Counted[n - 1], outcomes[n])
    BY <2>2 DEF Count, Down
  <2> QED BY <1>1, <2>1, <2>3 DEF CountedOutcomes
<1> HIDE DEF T
<1>4. \A n \in 0..L : n \in T
  BY <1>1, <1>2, <1>3, UpTo
<1>5. Counted'[L] = Counted[L] /\ Counted[L] \in State
  BY <1>1, <1>4 DEF T, CountedOutcomes
<1>6. Counted'[L + 1] = Count(Counted[L], outcomes[L + 1])'
  <2>1. L + 1 \in 1..Len(outcomes)' /\ (L + 1) - 1 = L
    BY <1>1
  <2> QED BY <2>1 DEF CountedOutcomes
<1>7. Counted'[L + 1].daily = IF o.day >= day THEN Counted[L].daily + o.r * o.size
                              ELSE Counted[L].daily
  <2>1. Counted'[L] = Counted[L] /\ outcomes'[L + 1] = o
    BY <1>1, <1>5
  <2> QED BY <1>5, <1>6, <2>1 DEF Count, State
<1>8. RiskState' = Counted'[L + 1] /\ RiskState = Counted[L]
  BY <1>1 DEF RiskState
<1>9. RiskState' = Count(RiskState, o)
  <2>1. Counted'[L + 1] = Count(Counted[L], o)
    BY <1>1, <1>5, <1>6 DEF Count, Down
  <2> QED BY <1>8, <2>1
<1> QED BY <1>1, <1>7, <1>8, <1>9

(* A new day leaves equity and peak as they are.                           *)
LEMMA DayKeepsEquity ==
  ASSUME BudgetTypes, CountedOutcomes, CountedOutcomes', outcomes' = outcomes
  PROVE  /\ RiskState'.equity = RiskState.equity /\ RiskState'.peak = RiskState.peak
         /\ RiskState'.stop = RiskState.stop
<1> DEFINE L == Len(outcomes)
           Same(s, r) == s.equity = r.equity /\ s.peak = r.peak /\ s.stop = r.stop
           T == {n \in 0..L : Same(Counted'[n], Counted[n])}
<1>1. L \in Nat /\ \A n \in 1..L : outcomes[n] \in Outcome
  BY DEF BudgetTypes
<1>2. 0 \in T
  BY <1>1 DEF CountedOutcomes, NoOutcomes
<1>3. ASSUME NEW n \in 1..L, n - 1 \in T PROVE n \in T
  <2>1. Counted'[n] = Count(Counted[n - 1], outcomes[n])' /\ Counted[n] = Count(Counted[n - 1], outcomes[n])
    BY <1>1 DEF CountedOutcomes
  <2>2. PICK s, r, o : s = Counted'[n - 1] /\ r = Counted[n - 1] /\ o = outcomes[n] /\ o = outcomes'[n]
    OBVIOUS
  <2>3. s \in State /\ r \in State /\ Same(s, r)
    BY <1>1, <1>3, <2>2 DEF CountedOutcomes
  <2>4. Counted[n] = Count(r, o)
    BY <2>1, <2>2
  <2>5. Same(Counted'[n], Count(r, o))
    BY <2>1, <2>2, <2>3 DEF Count, Down, State
  <2> QED BY <2>4, <2>5
<1> HIDE DEF T
<1>4. \A n \in 0..L : n \in T
  BY <1>1, <1>2, <1>3, UpTo
<1> QED BY <1>1, <1>4 DEF T, RiskState

(* A new day begins without losses.                                        *)
LEMMA DayBeginsAtZero ==
  ASSUME BudgetTypes, CountedOutcomes', outcomes' = outcomes, day' = day + 1
  PROVE  RiskState'.daily = 0
<1> DEFINE L == Len(outcomes)
           T == {n \in 0..L : Counted'[n].daily = 0}
<1>1. L \in Nat /\ day \in Nat /\ outcomes \in Seq(Outcome)
      /\ \A n \in 1..L : outcomes[n] \in Outcome /\ outcomes[n].day <= day
  BY DEF BudgetTypes
<1>2. 0 \in T
  BY <1>1 DEF CountedOutcomes, NoOutcomes
<1>3. ASSUME NEW n \in 1..L, n - 1 \in T PROVE n \in T
  <2>1. Counted'[n] = Count(Counted[n - 1], outcomes[n])'
    BY <1>1 DEF CountedOutcomes
  <2>2. Counted'[n - 1] \in State /\ outcomes'[n] \in Outcome /\ day' \in Nat
    BY <1>1 DEF CountedOutcomes
  <2>3. Counted'[n].daily = IF outcomes'[n].day >= day' THEN Counted'[n - 1].daily + outcomes'[n].r * outcomes'[n].size
                            ELSE Counted'[n - 1].daily
    BY <2>1, <2>2 DEF Count, State
  <2>4. ~(outcomes'[n].day >= day')
    BY <1>1, <2>2 DEF Outcome
  <2> QED BY <1>1, <1>3, <2>3, <2>4
<1> HIDE DEF T
<1>4. \A n \in 0..L : n \in T
  BY <1>1, <1>2, <1>3, UpTo
<1> QED BY <1>1, <1>4 DEF T, RiskState

LEMMA SizesDiffer ==
  ASSUME BudgetTypes, BudgetTypes', SummedSizes, SummedSizes', made' = made,
         NEW m \in Nat, NEW d \in Int,
         \A n \in 1..made : SizeOf(n)' = SizeOf(n) + (IF n = m THEN d ELSE 0)
  PROVE  ActiveR' = ActiveR + (IF m \in 1..made THEN d ELSE 0)
<1> DEFINE f == AtRisk
           g == AtRisk'
<1>1. made \in Nat
  BY DEF BudgetTypes
<1>2. \A k \in 0..made : f[k] \in Int /\ g[k] \in Int
  BY DEF SummedSizes
<1>3. f[0] = g[0]
  BY DEF SummedSizes
<1>4. ASSUME NEW k \in 1..made
      PROVE  g[k] - g[k - 1] = f[k] - f[k - 1] + (IF k = m THEN d ELSE 0)
  <2>1. g[k] = g[k - 1] + SizeOf(k)' /\ f[k] = f[k - 1] + SizeOf(k)
    BY DEF SummedSizes
  <2>2. g[k - 1] \in Int /\ f[k - 1] \in Int
    BY <1>1, <1>2
  <2>3. SizeOf(k) \in Int
    BY DEF SizeOf, BudgetTypes, Trade
  <2> QED BY <2>1, <2>2, <2>3
<1> HIDE DEF f, g
<1>5. g[made] = f[made] + (IF m \in 1..made THEN d ELSE 0)
  BY <1>1, <1>2, <1>3, <1>4, SumsDiffer
<1> QED BY <1>5 DEF f, g, ActiveR

LEMMA SizesAppended ==
  ASSUME BudgetTypes, BudgetTypes', SummedSizes, SummedSizes', made' = made + 1,
         \A n \in 1..made : SizeOf(n)' = SizeOf(n),
         NEW s, NEW k, k = made', SizeOf(k)' = s
  PROVE  ActiveR' = ActiveR + s
<1> PICK m : m = made
  OBVIOUS
<1> DEFINE T == {n \in 0..m : AtRisk'[n] = AtRisk[n]}
<1>1. m \in Nat
  BY DEF BudgetTypes
<1>2. 0 \in T
  BY <1>1 DEF SummedSizes
<1>3. ASSUME NEW n \in 1..m, n - 1 \in T PROVE n \in T
  <2>1. AtRisk'[n] = AtRisk'[n - 1] + SizeOf(n)' /\ AtRisk[n] = AtRisk[n - 1] + SizeOf(n)
    BY <1>1 DEF SummedSizes
  <2> QED BY <1>1, <1>3, <2>1
<1> HIDE DEF T
<1>4. \A n \in 0..m : n \in T
  BY <1>1, <1>2, <1>3, UpTo
<1>5. AtRisk'[m] = AtRisk[m]
  BY <1>1, <1>4 DEF T
<1>6. AtRisk'[m + 1] = AtRisk'[m] + SizeOf(m + 1)'
  <2>1. m + 1 \in 1..made' /\ (m + 1) - 1 = m
    BY <1>1
  <2> QED BY <2>1 DEF SummedSizes
<1>7. ActiveR' = AtRisk'[m + 1] /\ ActiveR = AtRisk[m] /\ SizeOf(m + 1)' = s
  BY <1>1 DEF ActiveR
<1> QED BY <1>5, <1>6, <1>7

-----------------------------------------------------------------------------
LEMMA ThrottledSmaller ==
  ASSUME NEW size \in Nat, NEW throttles \in Nat
  PROVE  Throttled(size, throttles) \in Nat /\ Throttled(size, throttles) <= size
<1> QED BY DEF Throttled

(* What the policy allows fits in what is left of the cluster.             *)
LEMMA AllowedFits ==
  ASSUME NEW active \in Nat, active <= MaxClusterR,
         NEW halted \in BOOLEAN, NEW throttles \in Nat,
         NEW size, size = AllowedR(PositionR, active, halted, throttles, MaxPositionR, MaxClusterR)
  PROVE  size \in Nat /\ active + size <= MaxClusterR /\ (halted => size = 0)
<1> DEFINE wanted == Lesser(Greater(PositionR, 0), MaxPositionR)
           half == Throttled(wanted, throttles)
           room == Greater(0, MaxClusterR - active)
<1>1. /\ PositionR \in Nat /\ MaxPositionR \in Nat /\ MaxClusterR \in Nat
      /\ MaxPositionR <= MaxClusterR
  BY BudgetAssumption
<1>2. wanted \in Nat /\ wanted <= MaxPositionR
  BY <1>1 DEF Lesser, Greater
<1>3. half \in Nat /\ half <= MaxPositionR
  <2> HIDE DEF wanted
  <2>1. Throttled(wanted, throttles) \in Nat /\ Throttled(wanted, throttles) <= wanted
    BY <1>2, ThrottledSmaller
  <2> QED BY <1>1, <1>2, <2>1
<1>4. room = MaxClusterR - active
  BY <1>1 DEF Greater
<1>5. size = CASE halted -> 0
               [] ~halted /\ active > 0 /\ room <= half -> room
               [] OTHER -> half
  BY DEF AllowedR
<1> HIDE DEF half, room
<1>6. CASE halted
  BY <1>1, <1>5, <1>6
<1>7. CASE ~halted /\ active > 0 /\ room <= half
  BY <1>1, <1>4, <1>5, <1>7
<1>8. CASE ~halted /\ ~(active > 0 /\ room <= half)
  BY <1>1, <1>3, <1>4, <1>5, <1>8
<1> QED BY <1>6, <1>7, <1>8

LEMMA BudgetStarts == BudgetInit => BudgetInv
<1> SUFFICES ASSUME BudgetInit PROVE BudgetInv
  OBVIOUS
<1>1. BudgetTypes
  BY DEF BudgetInit, BudgetTypes, Trade
<1>2. ActiveR = 0
  BY <1>1, AtRiskIs DEF SummedSizes, ActiveR, BudgetInit
<1>3. RiskState.daily = 0
  BY <1>1, CountedIs DEF CountedOutcomes, RiskState, NoOutcomes, BudgetInit
<1> QED BY <1>1, <1>2, <1>3, BudgetAssumption DEF BudgetInv

AllowedNow == AllowedR(PositionR, ActiveR, Halted(RiskState), Throttles(RiskState),
                       MaxPositionR, MaxClusterR)

(* A trade that opens fits in the cluster, and none opens once the limit of *)
(* the day is reached.                                                     *)
LEMMA OpenedFits ==
  BudgetInv => /\ ActiveR \in Nat /\ RiskState.daily \in Int
               /\ AllowedNow \in Nat /\ ActiveR + AllowedNow <= MaxClusterR
               /\ RiskState.daily <= -MaxDailyLossR => AllowedNow = 0
<1> SUFFICES ASSUME BudgetInv
             PROVE  /\ ActiveR \in Nat /\ RiskState.daily \in Int
                    /\ AllowedNow \in Nat /\ ActiveR + AllowedNow <= MaxClusterR
                    /\ RiskState.daily <= -MaxDailyLossR => AllowedNow = 0
  OBVIOUS
<1>1. RiskState \in State
  BY CountedIs DEF CountedOutcomes, RiskState, BudgetInv, BudgetTypes
<1>2. ActiveR \in Nat /\ ActiveR <= MaxClusterR
  BY AtRiskIs DEF SummedSizes, ActiveR, BudgetInv, BudgetTypes
<1>3. Throttles(RiskState) \in Nat
  BY DEF Throttles
<1>4. Halted(RiskState) \in BOOLEAN
  BY DEF Halted
<1>5. AllowedNow \in Nat /\ ActiveR + AllowedNow <= MaxClusterR /\ (Halted(RiskState) => AllowedNow = 0)
  BY <1>2, <1>3, <1>4, AllowedFits DEF AllowedNow
<1>6. RiskState.daily <= -MaxDailyLossR => Halted(RiskState)
  BY DEF Halted
<1> QED BY <1>1, <1>2, <1>5, <1>6 DEF State

(* Types are kept by every step.                                           *)
LEMMA TypesKept == BudgetInv /\ [BudgetNext]_budget => BudgetTypes'
<1> SUFFICES ASSUME BudgetInv, [BudgetNext]_budget PROVE BudgetTypes'
  OBVIOUS
<1> USE DEF BudgetInv
<1>1. CASE OpenTrade
  <2>1. AllowedNow \in Nat
    BY OpenedFits
  <2>2. made \in Nat /\ made' = made + 1 /\ outcomes' = outcomes /\ day' = day
    BY <1>1 DEF OpenTrade, BudgetTypes
  <2>3. CASE open' = open
    BY <2>2, <2>3 DEF BudgetTypes
  <2>4. CASE open' = [n \in DOMAIN open \cup {made'} |->
                        IF n = made' THEN [size |-> AllowedNow, tp1 |-> FALSE] ELSE open[n]]
    <3>1. [size |-> AllowedNow, tp1 |-> FALSE] \in Trade
      BY <2>1 DEF Trade
    <3>2. DOMAIN open' \in SUBSET (1..made') /\ open' \in [DOMAIN open' -> Trade]
      BY <2>2, <2>4, <3>1 DEF BudgetTypes
    <3> QED BY <2>2, <3>2 DEF BudgetTypes
  <2> QED BY <1>1, <2>3, <2>4 DEF OpenTrade, AllowedNow
<1>2. ASSUME NEW n \in DOMAIN open, Confirm(n) PROVE BudgetTypes'
  <2>1. open[n] \in Trade /\ open' = [open EXCEPT ![n] = [open[n] EXCEPT !.tp1 = TRUE]]
    BY <1>2 DEF Confirm, BudgetTypes
  <2>2. open' \in [DOMAIN open -> Trade] /\ DOMAIN open' = DOMAIN open
    BY <2>1 DEF BudgetTypes, Trade
  <2> QED BY <1>2, <2>2 DEF Confirm, BudgetTypes
<1>3. ASSUME NEW n \in DOMAIN open, NEW r \in ResultR(open[n]), Resolve(n, r) PROVE BudgetTypes'
  <2>1. r \in Int /\ open[n] \in Trade
    BY BudgetAssumption DEF ResultR, BudgetTypes
  <2> DEFINE o == [r |-> r, size |-> open[n].size, day |-> day]
  <2>2. o \in Outcome /\ o.day = day
    BY <2>1 DEF Outcome, Trade, BudgetTypes
  <2>3. open' \in [DOMAIN open' -> Trade] /\ DOMAIN open' \in SUBSET (1..made)
    BY <1>3 DEF Resolve, BudgetTypes
  <2>4. outcomes' = Append(outcomes, o) /\ day' = day /\ made' = made
    BY <1>3 DEF Resolve
  <2> HIDE DEF o
  <2>5. outcomes' \in Seq(Outcome) /\ \A k \in 1..Len(outcomes') : outcomes'[k].day <= day'
    BY <2>2, <2>4 DEF BudgetTypes
  <2> QED BY <2>3, <2>4, <2>5 DEF BudgetTypes
<1>4. CASE NextDay
  <2>1. ASSUME NEW k \in 1..Len(outcomes) PROVE outcomes[k].day <= day + 1
    <3>1. outcomes[k] \in Outcome /\ outcomes[k].day <= day /\ day \in Nat
      BY DEF BudgetTypes
    <3> QED BY <3>1 DEF Outcome
  <2> QED BY <1>4, <2>1 DEF NextDay, BudgetTypes
<1>5. CASE UNCHANGED budget
  BY <1>5 DEF budget, BudgetTypes
<1> QED BY <1>1, <1>2, <1>3, <1>4, <1>5 DEF BudgetNext

(* What the actions do to the R at risk.                                   *)
LEMMA OpenAdds ==
  ASSUME BudgetInv, BudgetTypes', OpenTrade
  PROVE  ActiveR' = ActiveR + (IF Blocked(AllowedNow) THEN 0 ELSE AllowedNow)
<1>1. BudgetTypes /\ SummedSizes /\ SummedSizes'
  BY AtRiskIs, PTL DEF BudgetInv
<1>2. made \in Nat /\ made' = made + 1 /\ DOMAIN open \in SUBSET (1..made)
  BY <1>1 DEF OpenTrade, BudgetTypes
<1>3. PICK k : k = made'
  OBVIOUS
<1>4. AllowedNow \in Nat /\ ActiveR \in Nat
  BY OpenedFits
<1>5. CASE Blocked(AllowedNow)
  <2>1. open' = open
    BY <1>5 DEF OpenTrade, AllowedNow
  <2>2. \A n \in 1..made : SizeOf(n)' = SizeOf(n)
    BY <2>1 DEF SizeOf
  <2>3. SizeOf(k)' = 0
    BY <1>2, <1>3, <2>1 DEF SizeOf
  <2>4. ActiveR' = ActiveR + 0
    BY <1>1, <1>2, <1>3, <2>2, <2>3, SizesAppended
  <2> QED BY <1>5, <2>4
<1>6. CASE ~Blocked(AllowedNow)
  <2>1. open' = [n \in DOMAIN open \cup {made'} |->
                   IF n = made' THEN [size |-> AllowedNow, tp1 |-> FALSE] ELSE open[n]]
    BY <1>6 DEF OpenTrade, AllowedNow
  <2>2. \A n \in 1..made : SizeOf(n)' = SizeOf(n)
    BY <1>2, <2>1 DEF SizeOf
  <2>3. SizeOf(k)' = AllowedNow
    BY <1>2, <1>3, <2>1 DEF SizeOf
  <2>4. ActiveR' = ActiveR + AllowedNow
    BY <1>1, <1>2, <1>3, <2>2, <2>3, SizesAppended
  <2> QED BY <1>6, <2>4
<1> QED BY <1>5, <1>6

LEMMA ConfirmKeeps ==
  ASSUME BudgetInv, BudgetTypes', NEW n \in DOMAIN open, Confirm(n)
  PROVE  /\ ActiveR' = ActiveR
         /\ DOMAIN open' = DOMAIN open /\ \A k \in DOMAIN open : open'[k].size = open[k].size
<1>1. BudgetTypes /\ SummedSizes /\ SummedSizes'
  BY AtRiskIs, PTL DEF BudgetInv
<1>2. DOMAIN open' = DOMAIN open /\ \A k \in DOMAIN open : open'[k].size = open[k].size
  <2>1. open[n] \in Trade /\ open' = [open EXCEPT ![n] = [open[n] EXCEPT !.tp1 = TRUE]]
    BY <1>1 DEF Confirm, BudgetTypes
  <2> QED BY <2>1 DEF Trade
<1>3. \A k \in 1..made : SizeOf(k)' = SizeOf(k) + (IF k = 0 THEN 0 ELSE 0)
  <2>1. \A k \in 1..made : SizeOf(k) \in Nat /\ SizeOf(k)' = SizeOf(k)
    BY <1>1, <1>2 DEF SizeOf, BudgetTypes, Trade
  <2> QED BY <2>1
<1>4. made' = made
  BY DEF Confirm
<1>5. ActiveR' = ActiveR + (IF 0 \in 1..made THEN 0 ELSE 0)
  BY <1>1, <1>3, <1>4, SizesDiffer
<1>6. ActiveR \in Nat
  BY OpenedFits
<1> QED BY <1>2, <1>5, <1>6

(* What is read off a final row: a loss of one R, or no loss.              *)
LEMMA ResolveTakes ==
  ASSUME BudgetInv, BudgetTypes', NEW n \in DOMAIN open, NEW r \in ResultR(open[n]), Resolve(n, r)
  PROVE  \E o \in Outcome :
           /\ o.r = r /\ o.size = open[n].size /\ o.size <= ActiveR /\ (r = -1 \/ r \in Nat)
           /\ ActiveR' = ActiveR - o.size
           /\ RiskState' = Count(RiskState, o)
           /\ RiskState'.daily = RiskState.daily + o.r * o.size
<1>1. /\ BudgetTypes /\ SummedSizes /\ SummedSizes' /\ CountedOutcomes /\ CountedOutcomes'
      /\ ActiveR \in Nat /\ ActiveR' \in Nat
  <2>1. BudgetTypes /\ SummedSizes /\ SummedSizes' /\ CountedOutcomes /\ CountedOutcomes'
    BY AtRiskIs, CountedIs, PTL DEF BudgetInv
  <2>2. ActiveR \in Nat /\ ActiveR' \in Nat
    BY <2>1 DEF SummedSizes, ActiveR, BudgetTypes
  <2> QED BY <2>1, <2>2
<1>2. PICK o : o = [r |-> r, size |-> open[n].size, day |-> day]
  OBVIOUS
<1>3. n \in 1..made /\ n \in Nat /\ made \in Nat /\ open[n] \in Trade /\ r \in Int /\ (r = -1 \/ r \in Nat) /\ day \in Nat
  <2>1. n \in 1..made /\ made \in Nat /\ open[n] \in Trade /\ day \in Nat
    BY <1>1 DEF BudgetTypes
  <2>2. r \in Nat \/ r = -1
    BY BudgetAssumption DEF ResultR
  <2> QED BY <2>1, <2>2
<1>4. outcomes' = Append(outcomes, o) /\ day' = day /\ made' = made
      /\ open' = [k \in DOMAIN open \ {n} |-> open[k]]
  BY <1>2 DEF Resolve
<1>5. o \in Outcome /\ o.day = day /\ o.size \in Nat /\ o.r = r /\ o.size = open[n].size
  BY <1>2, <1>3 DEF Outcome, Trade
<1>6. RiskState' = Count(RiskState, o) /\ RiskState'.daily = RiskState.daily + o.r * o.size
  BY <1>1, <1>4, <1>5, CountsAppended
<1>7. PICK d \in Int : d = -o.size
  BY <1>5
<1>8. ASSUME NEW k \in 1..made PROVE SizeOf(k)' = SizeOf(k) + (IF k = n THEN d ELSE 0)
  <2>1. SizeOf(k) \in Nat
    BY <1>1 DEF SizeOf, BudgetTypes, Trade
  <2>2. CASE k = n
    BY <1>4, <1>5, <1>7, <2>2 DEF SizeOf
  <2>3. CASE k # n
    BY <1>4, <2>1, <2>3 DEF SizeOf
  <2> QED BY <2>2, <2>3
<1>9. ActiveR' = ActiveR + (IF n \in 1..made THEN d ELSE 0)
  BY <1>1, <1>3, <1>4, <1>7, <1>8, SizesDiffer
<1>10. ActiveR' = ActiveR - o.size /\ o.size <= ActiveR
  BY <1>1, <1>3, <1>5, <1>7, <1>9
<1> QED BY <1>3, <1>5, <1>6, <1>10

LEMMA BudgetStep == BudgetInv /\ [BudgetNext]_budget => BudgetInv'
<1> SUFFICES ASSUME BudgetInv, [BudgetNext]_budget PROVE BudgetInv'
  OBVIOUS
<1>1. BudgetTypes' /\ BudgetTypes
  BY TypesKept DEF BudgetInv
<1>2. CountedOutcomes'
  BY <1>1, CountedIs, PTL
<1>3. /\ MaxClusterR \in Nat /\ MaxDailyLossR \in Nat \ {0}
      /\ ActiveR \in Nat /\ ActiveR <= MaxClusterR /\ RiskState.daily \in Int
      /\ RiskState.daily - ActiveR > -(MaxDailyLossR + MaxClusterR)
  BY OpenedFits, BudgetAssumption DEF BudgetInv
<1>4. SUFFICES ActiveR' <= MaxClusterR /\ RiskState'.daily - ActiveR' > -(MaxDailyLossR + MaxClusterR)
  BY <1>1 DEF BudgetInv
<1>5. outcomes' = outcomes /\ day' = day => RiskState' = RiskState
  BY DEF RiskState, Counted, Count, Down
<1>6. CASE OpenTrade
  <2>1. outcomes' = outcomes /\ day' = day
    BY <1>6 DEF OpenTrade
  <2>2. /\ AllowedNow \in Nat /\ ActiveR + AllowedNow <= MaxClusterR
        /\ RiskState.daily <= -MaxDailyLossR => AllowedNow = 0
    BY OpenedFits
  <2>3. ActiveR' = ActiveR + (IF Blocked(AllowedNow) THEN 0 ELSE AllowedNow)
    BY <1>1, <1>6, OpenAdds
  <2> QED BY <1>3, <1>5, <2>1, <2>2, <2>3 DEF Blocked
<1>7. ASSUME NEW n \in DOMAIN open, Confirm(n)
      PROVE  ActiveR' <= MaxClusterR /\ RiskState'.daily - ActiveR' > -(MaxDailyLossR + MaxClusterR)
  <2>1. outcomes' = outcomes /\ day' = day
    BY <1>7 DEF Confirm
  <2>2. ActiveR' = ActiveR
    BY <1>1, <1>7, ConfirmKeeps
  <2> QED BY <1>3, <1>5, <2>1, <2>2
<1>8. ASSUME NEW n \in DOMAIN open, NEW r \in ResultR(open[n]), Resolve(n, r)
      PROVE  ActiveR' <= MaxClusterR /\ RiskState'.daily - ActiveR' > -(MaxDailyLossR + MaxClusterR)
  <2>1. PICK o \in Outcome :
          /\ o.r = r /\ (r = -1 \/ r \in Nat) /\ ActiveR' = ActiveR - o.size
          /\ RiskState'.daily = RiskState.daily + o.r * o.size
    BY <1>1, <1>8, ResolveTakes
  <2>2. o.size \in Nat /\ o.r \in Int /\ o.r >= -1
    BY <2>1 DEF Outcome
  <2>3. o.r * o.size >= -o.size /\ o.r * o.size \in Int
    BY <2>2
  <2> QED BY <1>3, <2>1, <2>2, <2>3
<1>9. CASE NextDay
  <2>1. RiskState'.daily = 0
    BY <1>1, <1>2, <1>9, DayBeginsAtZero DEF NextDay
  <2>2. ActiveR' = ActiveR
    BY <1>9 DEF NextDay, ActiveR, AtRisk, SizeOf
  <2> QED BY <1>3, <2>1, <2>2
<1>10. CASE UNCHANGED budget
  <2>1. ActiveR' = ActiveR
    BY <1>10 DEF budget, ActiveR, AtRisk, SizeOf
  <2> QED BY <1>3, <1>5, <1>10, <2>1 DEF budget
<1> QED BY <1>6, <1>7, <1>8, <1>9, <1>10 DEF BudgetNext

LEMMA BudgetInvAlways == BudgetSpec => []BudgetInv
<1> QED BY BudgetStarts, BudgetStep, PTL DEF BudgetSpec

(* However many trades are open when the limit of the day is reached, the  *)
(* day loses less than the limit and one cluster cap.                      *)
THEOREM DayLossBounded == BudgetSpec => []DailyLossBounded
<1>1. BudgetInv => DailyLossBounded
  BY OpenedFits, BudgetAssumption DEF BudgetInv, DailyLossBounded
<1> QED BY <1>1, BudgetInvAlways, PTL

-----------------------------------------------------------------------------
(* The drawdown.  What the equity is at worst once all that is open is     *)
(* lost: each loss takes its part and less than one step of rounding.      *)
AtWorst(equity, active) == equity * (Unit - active) - active * Unit
Bounded(equity, peak, active) == AtWorst(equity, active) >= (Unit - Stop - MaxClusterR) * peak
Room(equity, peak) == (peak - equity) * Unit < Stop * peak

LEMMA UnitsAre ==
  /\ Unit \in Nat /\ Unit >= 1 /\ Stop \in Nat /\ MaxClusterR \in Nat /\ MaxClusterR < Unit
  /\ Unit * Unit \in Nat /\ One * Stop \in Nat /\ One \in Nat /\ One * Stop >= Unit * Unit
<1>1. Unit \in Nat /\ Stop \in Nat /\ MaxClusterR \in Nat /\ MaxClusterR < Unit /\ One \in Nat
  BY BudgetAssumption DEF One
<1> QED BY <1>1, FixedPointAssumption

LEMMA Products == ASSUME NEW a \in Int, NEW b \in Int PROVE a * b \in Int
<1> QED OBVIOUS

LEMMA Distributes == ASSUME NEW a \in Int, NEW b \in Int, NEW c \in Int PROVE a * (b - c) = a * b - a * c
<1> QED OBVIOUS

LEMMA Grows ==
  ASSUME NEW a \in Nat, NEW b \in Int, NEW c \in Int, b <= c
  PROVE  a * b <= a * c
<1>1. PICK d \in Nat : d = c - b
  OBVIOUS
<1>2. a * c = a * b + a * d
  BY <1>1
<1>3. a * d \in Nat /\ a * b \in Int
  OBVIOUS
<1> QED BY <1>2, <1>3

(* While the stop is not reached there is room for a whole cluster.        *)
LEMMA RoomSuffices ==
  ASSUME NEW e \in Nat, NEW p \in Nat, e <= p, p >= One, Room(e, p),
         NEW a \in Nat, a <= MaxClusterR
  PROVE  Bounded(e, p, a)
<1> USE UnitsAre
<1>1. PICK d \in Nat, u \in Nat, s \in Nat, m \in Nat :
         d = p - e /\ u = Unit /\ s = Stop /\ m = MaxClusterR
  OBVIOUS
<1>2. /\ d * u \in Int /\ s * p \in Int /\ a * u \in Int /\ d * a \in Int /\ p * u \in Int
      /\ p * a \in Int /\ p * m \in Int /\ u * u \in Int
  BY <1>1, Products
<1>3. e = p - d
  BY <1>1
<1>4. AtWorst(e, a) = p * u - p * a - d * u + d * a - a * u
  <2>1. e * (u - a) = (p - d) * (u - a)
    BY <1>3
  <2>2. (p - d) * (u - a) = p * u - p * a - d * u + d * a
    BY <1>1
  <2> QED BY <1>1, <2>1, <2>2 DEF AtWorst
<1>5. (Unit - Stop - MaxClusterR) * p = p * u - s * p - p * m
  BY <1>1
<1>6. d * u < s * p
  BY <1>1 DEF Room
<1>7. p * a <= p * m
  BY <1>1, Grows
<1>8. CASE d >= u
  <2>1. a * u <= a * d
    BY <1>1, <1>8, Grows
  <2>2. a * d = d * a
    BY <1>1
  <2> QED BY <1>2, <1>4, <1>5, <1>6, <1>7, <2>1, <2>2 DEF Bounded
<1>9. CASE d < u
  <2>1. s * p >= u * u
    <3>1. s * One <= s * p
      BY <1>1, Grows
    <3>2. s * One = One * s /\ s * One \in Int
      BY <1>1, Products
    <3> QED BY <1>1, <1>2, <3>1, <3>2
  <2>2. u - a \in Nat /\ u - a >= 0
    BY <1>1
  <2>3. (u - a) * d <= (u - a) * u
    BY <1>1, <1>9, <2>2, Grows
  <2>4. (u - a) * d = d * u - d * a /\ (u - a) * u = u * u - a * u
    BY <1>1
  <2> QED BY <1>2, <1>4, <1>5, <1>7, <2>1, <2>3, <2>4 DEF Bounded
<1> QED BY <1>1, <1>8, <1>9

(* What a quotient rounded down loses.                                     *)
LEMMA RoundedDown ==
  ASSUME NEW x \in Nat, NEW u \in Nat, u >= 1
  PROVE  /\ x \div u \in Nat /\ u * (x \div u) <= x /\ x < u * (x \div u) + u
         /\ \A n \in Nat : u * n <= x => n <= x \div u
<1>1. x \div u \in Int /\ x % u \in 0..(u - 1) /\ x = u * (x \div u) + (x % u)
  OBVIOUS
<1>2. PICK q \in Int : q = x \div u
  BY <1>1
<1>3. u * q \in Int /\ u * q <= x /\ x < u * q + u
  BY <1>1, <1>2
<1>4. ASSUME NEW n \in Int, n > q PROVE u * n > x
  <2>1. u * (q + 1) <= u * n
    BY <1>2, <1>4, Grows
  <2>2. u * (q + 1) = u * q + u /\ u * n \in Int
    BY <1>2
  <2> QED BY <1>3, <2>1, <2>2
<1>5. q >= 0
  <2>1. SUFFICES ASSUME 0 > q PROVE FALSE
    BY <1>2
  <2>2. u * 0 > x
    BY <1>4, <2>1
  <2> QED BY <2>2
<1>6. \A n \in Nat : u * n <= x => n <= q
  <2> TAKE n \in Nat
  <2> HAVE u * n <= x
  <2>1. SUFFICES ASSUME n > q PROVE FALSE
    BY <1>2
  <2>2. u * n > x
    BY <1>4, <2>1
  <2> QED BY <2>2
<1> QED BY <1>2, <1>3, <1>5, <1>6

(* A loss of the size s of what is open leaves the bound where it is.      *)
LEMMA LossWithin ==
  ASSUME NEW e \in Nat, NEW p \in Nat, NEW a \in Nat, NEW s \in Nat, 1 <= s, s <= a, a <= MaxClusterR,
         Bounded(e, p, a), NEW f, f = (e * (Unit + (-1) * s)) \div Unit
  PROVE  f \in Nat /\ f <= e /\ Bounded(f, p, a - s)
<1> USE UnitsAre
<1>1. PICK u \in Nat, b \in Nat, x \in Nat :
         u = Unit /\ b = a - s /\ x = e * (u - s)
  <2>1. Unit - s \in Nat
    OBVIOUS
  <2> QED BY <2>1
<1>2. u >= 1 /\ f = x \div u
  BY <1>1
<1>3. f \in Nat /\ u * f <= x /\ x < u * f + u
  BY <1>2, RoundedDown
<1>4. /\ e * u \in Int /\ e * s \in Nat /\ e * a \in Int /\ e * b \in Int /\ f * u \in Int /\ f * b \in Int
      /\ b * u \in Int /\ a * u \in Int /\ s * u \in Int
  BY <1>1, <1>3, Products
<1>5. x = e * u - e * s /\ u * f = f * u
  BY <1>1, <1>3
<1>6. f <= e
  <2>1. SUFFICES ASSUME f > e PROVE FALSE
    BY <1>3
  <2>2. u * (e + 1) <= u * f
    BY <1>3, <2>1, Grows
  <2>3. u * (e + 1) = e * u + u
    OBVIOUS
  <2> QED BY <1>3, <1>4, <1>5, <2>2, <2>3
<1> DEFINE w == AtWorst(e, a)
           v == AtWorst(f, b)
<1>7. w = e * u - e * a - a * u /\ v = f * u - f * b - b * u /\ w \in Int /\ v \in Int
  <2>1. e * (u - a) = e * u - e * a /\ f * (u - b) = f * u - f * b
    <3>1. e \in Int /\ u \in Int /\ a \in Int /\ f \in Int /\ b \in Int
      BY <1>1, <1>3
    <3> QED BY <3>1, Distributes, Zenon
  <2> QED BY <1>1, <1>4, <2>1 DEF AtWorst
<1>8. e * a = e * b + e * s /\ a * u = b * u + s * u
  BY <1>1
<1>9. f * b <= e * b
  <2>1. b * f <= b * e
    BY <1>3, <1>6, Grows
  <2> QED BY <1>1, <1>3, <2>1
<1>10. s * u >= u
  <2>1. u * 1 <= u * s
    BY Grows
  <2> QED BY <2>1
<1> HIDE DEF w, v
<1>11. v >= w
  BY <1>3, <1>4, <1>5, <1>7, <1>8, <1>9, <1>10
<1>12. (Unit - Stop - MaxClusterR) * p \in Int
  OBVIOUS
<1> QED BY <1>1, <1>3, <1>6, <1>7, <1>11, <1>12 DEF Bounded, w, v

(* A result that is no loss does so, too, whether or not it makes a peak.  *)
LEMMA GainWithin ==
  ASSUME NEW e \in Nat, NEW p \in Nat, NEW a \in Nat, NEW b \in Nat, b <= a, a <= MaxClusterR,
         e <= p, p >= One, Bounded(e, p, a), NEW y \in Nat, NEW f, f = (e * (Unit + y)) \div Unit
  PROVE  f \in Nat /\ e <= f /\ Bounded(f, Greater(p, f), b)
<1> USE UnitsAre
<1>1. PICK u \in Nat, x \in Nat : u = Unit /\ x = e * (u + y)
  OBVIOUS
<1>2. u >= 1 /\ f = x \div u
  BY <1>1
<1>3. f \in Nat /\ \A n \in Nat : u * n <= x => n <= f
  BY <1>2, RoundedDown
<1>4. u * e <= x
  <2>1. x = u * e + e * y /\ e * y \in Nat /\ u * e \in Nat
    BY <1>1
  <2> QED BY <2>1
<1>5. e <= f
  BY <1>3, <1>4
<1>6. AtWorst(e, a) <= AtWorst(f, b)
  <2>1. u - a \in Nat /\ u - a <= u - b /\ u - b \in Nat
    BY <1>1
  <2>2. (u - a) * e <= (u - a) * f /\ f * (u - a) <= f * (u - b)
    BY <1>3, <1>5, <2>1, Grows
  <2>3. (u - a) * e = e * (u - a) /\ (u - a) * f = f * (u - a)
    BY <1>3, <2>1
  <2>4. u * b <= u * a /\ u * b = b * u /\ u * a = a * u
    BY Grows
  <2>5. e * (u - a) \in Int /\ f * (u - a) \in Int /\ f * (u - b) \in Int /\ b * u \in Int /\ a * u \in Int
    BY <1>3, <2>1, Products
  <2> QED BY <1>1, <2>2, <2>3, <2>4, <2>5 DEF AtWorst
<1>7. AtWorst(e, a) \in Int /\ AtWorst(f, b) \in Int /\ (Unit - Stop - MaxClusterR) * p \in Int
  BY <1>3 DEF AtWorst
<1>8. CASE f <= p
  BY <1>3, <1>6, <1>7, <1>8 DEF Bounded, Greater
<1>9. CASE f > p
  <2>1. PICK s \in Nat, m \in Nat : s = Stop /\ m = MaxClusterR
    OBVIOUS
  <2>2. /\ f * u \in Int /\ f * b \in Int /\ f * m \in Int /\ f * s \in Int /\ b * u \in Int /\ u * u \in Int
        /\ m * u \in Int
    BY <1>3, <2>1, Products
  <2>3. AtWorst(f, b) = f * u - f * b - b * u
    BY <1>1, <1>3 DEF AtWorst
  <2>4. (Unit - Stop - MaxClusterR) * f = f * u - f * s - f * m
    BY <1>1, <1>3, <2>1
  <2>5. f * b <= f * m
    BY <1>3, <2>1, Grows
  <2>6. f * s >= u * u
    <3>1. s * One <= s * f
      BY <1>3, <1>9, <2>1, Grows
    <3>2. s * One = One * s /\ s * One \in Int /\ s * f = f * s
      BY <1>3, <2>1
    <3> QED BY <1>1, <2>1, <2>2, <3>1, <3>2
  <2>7. u * b <= u * u /\ u * b = b * u
    BY <1>1, Grows
  <2>8. Bounded(f, f, b)
    BY <2>2, <2>3, <2>4, <2>5, <2>6, <2>7 DEF Bounded
  <2> QED BY <1>3, <1>9, <2>8 DEF Greater
<1> QED BY <1>3, <1>5, <1>8, <1>9

(* What is bounded is within the stop and one cluster cap.                 *)
LEMMA BoundedIsEnough ==
  ASSUME NEW e \in Nat, NEW p \in Nat, NEW a \in Nat, Bounded(e, p, a)
  PROVE  (p - e) * Unit <= (Stop + MaxClusterR) * p
<1> USE UnitsAre
<1>1. PICK u \in Nat, s \in Nat, m \in Nat : u = Unit /\ s = Stop /\ m = MaxClusterR
  OBVIOUS
<1>2. /\ e * u \in Int /\ e * a \in Nat /\ a * u \in Nat /\ p * u \in Int /\ p * s \in Int /\ p * m \in Int
  BY <1>1, Products
<1>3. AtWorst(e, a) = e * u - e * a - a * u
  BY <1>1 DEF AtWorst
<1>4. (Unit - Stop - MaxClusterR) * p = p * u - p * s - p * m
  BY <1>1
<1>5. (p - e) * Unit = p * u - e * u /\ (Stop + MaxClusterR) * p = p * s + p * m
  BY <1>1
<1> QED BY <1>2, <1>3, <1>4, <1>5 DEF Bounded

(* What one turn of the loop does to the equity, the peak and the stop.    *)
LEMMA CountMoves ==
  ASSUME NEW s \in State, s.equity \in Nat, s.peak \in Nat, NEW o \in Outcome
  PROVE  LET f == (s.equity * (Unit + o.r * o.size)) \div Unit
         IN /\ Count(s, o).equity = f /\ Count(s, o).peak = Greater(s.peak, f)
            /\ (f \in Nat /\ ~Count(s, o).stop) => (~s.stop /\ Room(f, Greater(s.peak, f)))
<1> DEFINE f == (s.equity * (Unit + o.r * o.size)) \div Unit
           p == Greater(s.peak, f)
           moved == [s EXCEPT !.equity = f, !.peak = Greater(@, f)]
<1> HIDE DEF f
<1>1. moved.equity = f /\ moved.peak = p
  BY DEF State
<1>2. Count(s, o).equity = f /\ Count(s, o).peak = p /\ Count(s, o).stop = (s.stop \/ Down(moved, Stop))
  BY <1>1 DEF Count, State, f
<1>3. ASSUME f \in Nat, ~Down(moved, Stop) PROVE Room(f, p)
  <2>1. p \in Nat
    BY <1>3 DEF Greater
  <2>2. (p - f) * Unit \in Int /\ Stop * p \in Int
    BY <1>3, <2>1, UnitsAre, Products
  <2>3. ~((p - f) * Unit >= Stop * p)
    BY <1>1, <1>3 DEF Down
  <2> QED BY <2>2, <2>3 DEF Room
<1> QED BY <1>2, <1>3 DEF f

EquityOK(s, active) ==
  /\ s.equity \in Nat /\ s.peak \in Nat /\ s.equity <= s.peak /\ One <= s.peak
  /\ ~s.stop => Room(s.equity, s.peak)
  /\ Bounded(s.equity, s.peak, active)

DrawdownInv ==
  /\ BudgetInv
  /\ \A n \in DOMAIN open : open[n].size >= 1
  /\ EquityOK(RiskState, ActiveR)

LEMMA DrawdownStarts == BudgetInit => DrawdownInv
<1> SUFFICES ASSUME BudgetInit PROVE DrawdownInv
  OBVIOUS
<1>1. BudgetInv
  BY BudgetStarts
<1>2. RiskState = NoOutcomes /\ ActiveR = 0
  BY <1>1, AtRiskIs, CountedIs DEF BudgetInv, SummedSizes, ActiveR, CountedOutcomes, RiskState, BudgetInit
<1>3. DOMAIN open = {}
  BY DEF BudgetInit
<1>4. Room(One, One)
  <2>1. (One - One) * Unit = 0 /\ Stop * One > 0
    <3>1. Stop * One = One * Stop /\ Unit * Unit > 0
      <4>1. Unit * 1 <= Unit * Unit
        BY UnitsAre, Grows
      <4> QED BY <4>1, UnitsAre
    <3> QED BY <3>1, UnitsAre
  <2> QED BY <2>1 DEF Room
<1>5. Bounded(One, One, 0)
  BY <1>4, UnitsAre, RoomSuffices
<1> QED BY <1>1, <1>2, <1>3, <1>4, <1>5, UnitsAre DEF DrawdownInv, EquityOK, NoOutcomes

LEMMA ResolveWithin ==
  ASSUME NEW s \in State, NEW a \in Nat, a <= MaxClusterR, EquityOK(s, a), NEW o \in Outcome,
         1 <= o.size, o.size <= a, o.r = -1 \/ o.r \in Nat
  PROVE  EquityOK(Count(s, o), a - o.size)
<1> DEFINE f == (s.equity * (Unit + o.r * o.size)) \div Unit
<1>1. /\ s.equity \in Nat /\ s.peak \in Nat /\ s.equity <= s.peak /\ One <= s.peak
      /\ Bounded(s.equity, s.peak, a)
  BY DEF EquityOK
<1>2. o.size \in Nat /\ a - o.size \in Nat /\ a - o.size <= a
  BY DEF Outcome
<1>3. /\ Count(s, o).equity = f /\ Count(s, o).peak = Greater(s.peak, f)
      /\ (f \in Nat /\ ~Count(s, o).stop) => Room(f, Greater(s.peak, f))
  BY <1>1, CountMoves
<1>4. f \in Nat /\ Bounded(f, Greater(s.peak, f), a - o.size)
  <2>1. CASE o.r = -1
    <3>1. f = (s.equity * (Unit + (-1) * o.size)) \div Unit
      BY <2>1
    <3> HIDE DEF f
    <3>2. f \in Nat /\ f <= s.equity /\ Bounded(f, s.peak, a - o.size)
      BY <1>1, <1>2, <3>1, LossWithin
    <3>3. Greater(s.peak, f) = s.peak
      BY <1>1, <3>2 DEF Greater
    <3> QED BY <3>2, <3>3
  <2>2. CASE o.r \in Nat
    <3>1. PICK y \in Nat : y = o.r * o.size
      BY <1>2, <2>2
    <3>2. f = (s.equity * (Unit + y)) \div Unit
      BY <3>1
    <3> HIDE DEF f
    <3> QED BY <1>1, <1>2, <3>1, <3>2, GainWithin
  <2> QED BY <2>1, <2>2
<1> HIDE DEF f
<1>5. Greater(s.peak, f) \in Nat /\ f <= Greater(s.peak, f) /\ s.peak <= Greater(s.peak, f)
  BY <1>1, <1>4 DEF Greater
<1> QED BY <1>1, <1>3, <1>4, <1>5, UnitsAre DEF EquityOK

LEMMA DrawdownStep == DrawdownInv /\ [BudgetNext]_budget => DrawdownInv'
<1> SUFFICES ASSUME DrawdownInv, [BudgetNext]_budget PROVE DrawdownInv'
  OBVIOUS
<1>1. /\ BudgetInv /\ BudgetInv' /\ BudgetTypes' /\ BudgetTypes
      /\ \A n \in DOMAIN open : open[n].size >= 1
      /\ EquityOK(RiskState, ActiveR)
  BY BudgetStep DEF DrawdownInv, BudgetInv
<1>2. CountedOutcomes /\ CountedOutcomes'
  BY <1>1, CountedIs, PTL
<1>3. RiskState \in State /\ ActiveR \in Nat /\ ActiveR <= MaxClusterR
  <2>1. Len(outcomes) \in 0..Len(outcomes)
    BY <1>1 DEF BudgetTypes
  <2>2. RiskState \in State
    BY <1>2, <2>1 DEF CountedOutcomes, RiskState
  <2>3. ActiveR \in Nat
    BY <1>1, OpenedFits
  <2>4. ActiveR <= MaxClusterR
    BY <1>1 DEF BudgetInv
  <2> QED BY <2>2, <2>3, <2>4
<1>4. outcomes' = outcomes /\ day' = day => RiskState' = RiskState
  BY DEF RiskState, Counted, Count, Down
<1> DEFINE Keeps == (\A n \in DOMAIN open' : open'[n].size >= 1) /\ EquityOK(RiskState', ActiveR')
<1>5. SUFFICES Keeps
  BY <1>1 DEF DrawdownInv, EquityOK
<1>6. CASE OpenTrade
  <2>1. RiskState' = RiskState
    BY <1>4, <1>6 DEF OpenTrade
  <2>2. AllowedNow \in Nat /\ ActiveR + AllowedNow <= MaxClusterR
    BY <1>1, OpenedFits
  <2>3. ActiveR' = ActiveR + (IF Blocked(AllowedNow) THEN 0 ELSE AllowedNow)
    BY <1>1, <1>6, OpenAdds
  <2>4. CASE Blocked(AllowedNow)
    <3>1. open' = open
      BY <1>6, <2>4 DEF OpenTrade, AllowedNow
    <3> QED BY <1>1, <1>3, <2>1, <2>3, <2>4, <3>1
  <2>5. CASE ~Blocked(AllowedNow)
    <3>1. open' = [n \in DOMAIN open \cup {made'} |->
                     IF n = made' THEN [size |-> AllowedNow, tp1 |-> FALSE] ELSE open[n]]
      BY <1>6, <2>5 DEF OpenTrade, AllowedNow
    <3>2. AllowedNow >= 1
      BY <2>2, <2>5 DEF Blocked
    <3>3. \A n \in DOMAIN open' : open'[n].size >= 1
      BY <1>1, <3>1, <3>2
    <3>4. ~RiskState.stop
      BY <3>2 DEF AllowedNow, AllowedR, Halted
    <3>5. Bounded(RiskState.equity, RiskState.peak, ActiveR + AllowedNow)
      <4>1. ActiveR + AllowedNow \in Nat
        BY <1>3, <2>2
      <4> QED BY <1>1, <2>2, <3>4, <4>1, RoomSuffices DEF EquityOK
    <3> QED BY <1>1, <2>1, <2>3, <2>5, <3>3, <3>5 DEF EquityOK
  <2> QED BY <2>4, <2>5
<1>7. ASSUME NEW n \in DOMAIN open, Confirm(n) PROVE Keeps
  <2>1. RiskState' = RiskState
    BY <1>4, <1>7 DEF Confirm
  <2>2. /\ ActiveR' = ActiveR
        /\ DOMAIN open' = DOMAIN open /\ \A k \in DOMAIN open : open'[k].size = open[k].size
    BY <1>1, <1>7, ConfirmKeeps
  <2> QED BY <1>1, <2>1, <2>2
<1>8. ASSUME NEW n \in DOMAIN open, NEW r \in ResultR(open[n]), Resolve(n, r) PROVE Keeps
  <2>1. PICK o \in Outcome :
          /\ o.r = r /\ o.size = open[n].size /\ o.size <= ActiveR /\ (r = -1 \/ r \in Nat)
          /\ ActiveR' = ActiveR - o.size /\ RiskState' = Count(RiskState, o)
    BY <1>1, <1>8, ResolveTakes
  <2>2. 1 <= o.size
    <3>1. o.size >= 1
      BY <1>1, <2>1
    <3> QED BY <3>1 DEF Outcome
  <2>3. EquityOK(Count(RiskState, o), ActiveR - o.size)
    BY <1>1, <1>3, <2>1, <2>2, ResolveWithin
  <2>4. open' = [k \in DOMAIN open \ {n} |-> open[k]]
    BY <1>8 DEF Resolve
  <2>5. \A k \in DOMAIN open' : open'[k].size >= 1
    BY <1>1, <2>4
  <2> QED BY <2>1, <2>3, <2>5
<1>9. CASE NextDay
  <2>1. /\ RiskState'.equity = RiskState.equity /\ RiskState'.peak = RiskState.peak
        /\ RiskState'.stop = RiskState.stop
    BY <1>1, <1>2, <1>9, DayKeepsEquity DEF NextDay
  <2>2. ActiveR' = ActiveR /\ open' = open
    BY <1>9 DEF NextDay, ActiveR, AtRisk, SizeOf
  <2> QED BY <1>1, <2>1, <2>2 DEF EquityOK
<1>10. CASE UNCHANGED budget
  <2>1. ActiveR' = ActiveR /\ open' = open
    BY <1>10 DEF budget, ActiveR, AtRisk, SizeOf
  <2> QED BY <1>1, <1>4, <1>10, <2>1 DEF budget
<1> QED BY <1>6, <1>7, <1>8, <1>9, <1>10 DEF BudgetNext

(* The policy opens nothing once get_portfolio_risk_state reports the stop, *)
(* and what is open by then is one cluster cap at most: the equity never   *)
(* falls further below its peak than both together, in whatever order      *)
(* trades open, overlap and end, and with the roundings of every outcome.  *)
THEOREM DrawdownIsBounded == BudgetSpec => []DrawdownBounded
<1>1. DrawdownInv => DrawdownBounded
  <2> SUFFICES ASSUME DrawdownInv PROVE DrawdownBounded
    OBVIOUS
  <2>1. EquityOK(RiskState, ActiveR) /\ ActiveR \in Nat
    BY OpenedFits DEF DrawdownInv
  <2> QED BY <2>1, BoundedIsEnough DEF EquityOK, DrawdownBounded
<1>2. BudgetSpec => []DrawdownInv
  BY DrawdownStarts, DrawdownStep, PTL DEF BudgetSpec
<1> QED BY <1>1, <1>2, PTL
=============================================================================
