-------------------------- MODULE Reporter_proofs --------------------------
(***************************************************************************)
(* Proofs about Reporter, for every number of services, symbols, channels, *)
(* contracts and failures.                                                 *)
(***************************************************************************)
EXTENDS ReporterInvariant, FiniteSetTheorems, TLAPS

(* A summary is no opportunity, and a message names one. *)
LEMMA SummaryApart == Summary \notin Opportunity
BY DEF Summary, Opportunity

(* What a run sends, if it is no summary, is a message. *)
LEMMA MessageType ==
  ASSUME TypeOK, NEW p \in Process, part[p] # Summary
  PROVE  MessageOf(p) \in Message
BY DEF TypeOK, MessageOf, Message

LEMMA NextChannelType ==
  ASSUME TypeOK, NEW p \in Process, NextChannel(p)
  PROVE  /\ pc' \in [Process -> {"idle", "stream", "lookup", "send", "save", "done"}]
         /\ channel' \in [Process -> Channel]
BY SizesAssumption DEF TypeOK, NextChannel, Channel

LEMMA TryType ==
  ASSUME TypeOK, NEW p \in Process, Try(p)
  PROVE  /\ pc' \in [Process -> {"idle", "stream", "lookup", "send", "save", "done"}]
         /\ tried' \in [Process -> SUBSET Channel]
         /\ warned' \in [Process -> SUBSET Channel]
BY DEF TypeOK, Try

LEMMA HidesType ==
  ASSUME TypeOK, NEW p \in Process, NEW hidden \in BOOLEAN, Hides(p, hidden)
  PROVE  lost' \in [Message -> Nat]
BY MessageType DEF TypeOK, Hides

LEMMA ShowsType ==
  ASSUME TypeOK, NEW p \in Process, Shows(p)
  PROVE  delivered' \in [Message -> Nat]
BY MessageType DEF TypeOK, Shows

LEMMA FaultType == ASSUME TypeOK, Fault PROVE faults' \in 0..MaxFaults
BY SizesAssumption DEF TypeOK, Fault

(* Every step keeps the types. *)
LEMMA TypeStep == ASSUME TypeOK, [Next]_vars PROVE TypeOK'
<1>1. CASE UNCHANGED vars
  BY <1>1 DEF TypeOK, vars, outside, delivery, report
<1>2. ASSUME NEW p \in Process, Start(p) PROVE TypeOK'
  BY <1>2, SizesAssumption DEF TypeOK, Start, outside
<1>3. ASSUME NEW p \in Process, NEW o \in Opportunity, Trade(p, o) PROVE TypeOK'
  BY <1>3, SizesAssumption DEF TypeOK, Trade, outside, Channel
<1>4. ASSUME NEW p \in Process, NEW failed \in SUBSET Symbol, NoTrade(p, failed) PROVE TypeOK'
  BY <1>4, SizesAssumption DEF TypeOK, NoTrade, outside, delivery
<1>5. ASSUME NEW p \in Process, Abort(p) PROVE TypeOK'
  BY <1>5, SizesAssumption DEF TypeOK, Abort, outside, delivery
<1>6. ASSUME NEW p \in Process, Summarise(p) PROVE TypeOK'
  BY <1>6, SizesAssumption DEF TypeOK, Summarise, outside, report, Channel
<1>7. ASSUME NEW p \in Process, Lookup(p) PROVE TypeOK'
  BY <1>7, TryType DEF TypeOK, Lookup, outside
<1>8. ASSUME NEW p \in Process, Skip(p) PROVE TypeOK'
  BY <1>8, NextChannelType DEF TypeOK, Skip, outside, report
<1>9. ASSUME NEW p \in Process, LookupFails(p) PROVE TypeOK'
  <2>1. Sent(MessageOf(p)) \in BOOLEAN
    BY DEF Sent
  <2>2. lost' \in [Message -> Nat]
    BY <1>9, <2>1, HidesType DEF LookupFails
  <2> QED
    BY <1>9, <2>2, TryType, FaultType DEF TypeOK, LookupFails
<1>10. ASSUME NEW p \in Process, Send(p) PROVE TypeOK'
  BY <1>10, ShowsType DEF TypeOK, Send, report
<1>11. ASSUME NEW p \in Process, NEW shown \in BOOLEAN, SendFails(p, shown) PROVE TypeOK'
  <2>1. lost' \in [Message -> Nat]
    BY <1>11, HidesType DEF SendFails
  <2>2. delivered' \in [Message -> Nat]
    BY <1>11, ShowsType DEF SendFails, TypeOK
  <2> QED
    BY <1>11, <2>1, <2>2, FaultType DEF TypeOK, SendFails, report
<1>12. ASSUME NEW p \in Process, Save(p) PROVE TypeOK'
  BY <1>12, NextChannelType, MessageType DEF TypeOK, Save, report
<1>13. ASSUME NEW p \in Process, SaveFails(p) PROVE TypeOK'
  <2>1. lost' \in [Message -> Nat]
    BY <1>13, HidesType DEF SaveFails, TypeOK
  <2> QED
    BY <1>13, <2>1, NextChannelType, FaultType DEF TypeOK, SaveFails, report
<1>14. ASSUME NEW p \in Process, Crash(p) PROVE TypeOK'
  <2>1. (pc[p] = "save" /\ ok[p]) \in BOOLEAN
    OBVIOUS
  <2>2. lost' \in [Message -> Nat]
    BY <1>14, <2>1, HidesType DEF Crash
  <2> QED
    BY <1>14, <2>2, FaultType DEF TypeOK, Crash, report
<1>15. ASSUME NEW p \in Process, NoTrade(p, {symbol[p]}) PROVE TypeOK'
  <2>1. {symbol[p]} \in SUBSET Symbol
    BY <1>15, SizesAssumption DEF NoTrade, TypeOK, Symbol
  <2> QED
    BY <1>15, <2>1, <1>4
<1>16. {} \in SUBSET Symbol
  OBVIOUS
<1> QED
  BY <1>1, <1>2, <1>3, <1>4, <1>5, <1>6, <1>7, <1>8, <1>9, <1>10, <1>11, <1>12, <1>13,
     <1>14, <1>15, <1>16 DEF Next, Run, Fails

-----------------------------------------------------------------------------
(* Sets of runs can be counted. *)
LEMMA RunsFinite ==
  ASSUME NEW T \in SUBSET Process
  PROVE  /\ IsFiniteSet(T) /\ Cardinality(T) \in Nat
         /\ Cardinality(Process) \in Nat /\ Cardinality(T) <= Cardinality(Process)
<1>1. IsFiniteSet(Process)
  BY SizesAssumption
<1> QED
  BY <1>1, FS_Subset, FS_CardinalityType

(* Runs that send and runs that save a message are different runs. *)
LEMMA InFlight ==
  ASSUME NEW m \in Message
  PROVE  Cardinality(Sending(m)) + Cardinality(Saving(m)) <= Cardinality(Process)
<1>1. /\ Sending(m) \in SUBSET Process /\ Saving(m) \in SUBSET Process
      /\ Sending(m) \cup Saving(m) \in SUBSET Process
      /\ Sending(m) \cap Saving(m) = {}
  BY DEF Sending, Saving
<1>2. Cardinality(Sending(m) \cap Saving(m)) = 0
  BY <1>1, FS_EmptySet
<1>3. Cardinality(Sending(m) \cup Saving(m)) =
        Cardinality(Sending(m)) + Cardinality(Saving(m)) - Cardinality(Sending(m) \cap Saving(m))
  BY <1>1, RunsFinite, FS_Union
<1>4. /\ Cardinality(Sending(m)) \in Nat /\ Cardinality(Saving(m)) \in Nat
      /\ Cardinality(Sending(m) \cup Saving(m)) <= Cardinality(Process)
  BY <1>1, RunsFinite
<1> QED
  BY <1>2, <1>3, <1>4

(* A set of runs that changes only at p changes its size by p.             *)
LEMMA SizeMoves ==
  ASSUME NEW S \in SUBSET Process, NEW T \in SUBSET Process, NEW p, S \ {p} = T \ {p}
  PROVE  Cardinality(T) = Cardinality(S) + (IF p \in T THEN 1 ELSE 0) - (IF p \in S THEN 1 ELSE 0)
<1>1. IsFiniteSet(S) /\ IsFiniteSet(T) /\ Cardinality(S) \in Nat /\ Cardinality(T) \in Nat
  BY RunsFinite
<1>2. Cardinality(S \ {p}) = IF p \in S THEN Cardinality(S) - 1 ELSE Cardinality(S)
  BY <1>1, FS_RemoveElement
<1>3. Cardinality(T \ {p}) = IF p \in T THEN Cardinality(T) - 1 ELSE Cardinality(T)
  BY <1>1, FS_RemoveElement
<1>4. Cardinality(S \ {p}) = Cardinality(T \ {p})
  OBVIOUS
<1>5. CASE p \in S
  BY <1>1, <1>2, <1>3, <1>4, <1>5
<1>6. CASE p \notin S
  BY <1>1, <1>2, <1>3, <1>4, <1>6
<1> QED
  BY <1>5, <1>6

(* Every step is one run's: the others stay where they are. *)
Moves(p) ==
  \A q \in Process \ {p} : /\ pc'[q] = pc[q] /\ part'[q] = part[q]
                           /\ channel'[q] = channel[q] /\ ok'[q] = ok[q]

LEMMA MovesAlone ==
  ASSUME TypeOK, NEW p \in Process, Start(p) \/ Run(p) \/ Fails(p)
  PROVE  Moves(p)
BY DEF TypeOK, Moves, Start, Run, Fails, Trade, NoTrade, Abort, Summarise, Lookup, Skip, Send,
       Save, LookupFails, SaveFails, Crash, SendFails, Try, NextChannel, delivery

(* So the runs in flight with a message change by that run at the most.    *)
LEMMA FlightMoves ==
  ASSUME TypeOK, NEW p \in Process, Moves(p), NEW m \in Message
  PROVE  /\ Cardinality(Sending(m)) \in Nat /\ Cardinality(Saving(m)) \in Nat
         /\ Cardinality(Process) \in Nat
         /\ Cardinality(Sending(m)') = Cardinality(Sending(m))
              + (IF p \in Sending(m)' THEN 1 ELSE 0) - (IF p \in Sending(m) THEN 1 ELSE 0)
         /\ Cardinality(Saving(m)') = Cardinality(Saving(m))
              + (IF p \in Saving(m)' THEN 1 ELSE 0) - (IF p \in Saving(m) THEN 1 ELSE 0)
<1>1. \A q \in Process \ {p} : MessageOf(q)' = MessageOf(q)
  BY DEF Moves, MessageOf
<1>2. /\ Sending(m) \ {p} = Sending(m)' \ {p}
      /\ Saving(m) \ {p} = Saving(m)' \ {p}
  BY <1>1 DEF Moves, Sending, Saving
<1>3. /\ Sending(m) \in SUBSET Process /\ Sending(m)' \in SUBSET Process
      /\ Saving(m) \in SUBSET Process /\ Saving(m)' \in SUBSET Process
  BY DEF Sending, Saving
<1> QED
  BY <1>2, <1>3, SizeMoves, RunsFinite

(* What the counts of one message must satisfy. *)
Counted(m) ==
  IF Sent(m) THEN delivered[m] + Cardinality(Sending(m)) <= lost[m] + Cardinality(Process)
             ELSE delivered[m] <= lost[m] + Cardinality(Saving(m))

(* A run that neither sends nor saves leaves the counts alone. *)
LEMMA QuietKeepsCounts ==
  ASSUME TypeOK, NEW p \in Process, Moves(p), NEW m \in Message, Counted(m),
         pc[p] \notin {"send", "save"}, pc'[p] \notin {"send", "save"},
         UNCHANGED outside
  PROVE  Counted(m)'
<1>1. /\ p \notin Sending(m) /\ p \notin Saving(m)
      /\ p \notin Sending(m)' /\ p \notin Saving(m)'
  BY DEF Sending, Saving
<1> QED
  BY <1>1, FlightMoves DEF Counted, outside, Sent, TypeOK

(* The steps of the delivery itself, for the message the run is at.        *)
LEMMA TryCounts ==
  ASSUME TypeOK, NEW p \in Process, Moves(p), NEW m \in Message, Counted(m),
         pc[p] = "lookup", pc'[p] = "send", UNCHANGED <<notifications, delivered>>,
         \/ UNCHANGED lost /\ (part[p] # Summary => ~Sent(MessageOf(p)))
         \/ part[p] # Summary /\ Hides(p, Sent(MessageOf(p))),
         UNCHANGED <<part, channel>>
  PROVE  Counted(m)'
<1>1. /\ p \notin Sending(m) /\ p \notin Saving(m) /\ p \notin Saving(m)'
      /\ p \in Sending(m)' => part[p] # Summary /\ MessageOf(p) = m
  BY DEF Sending, Saving, MessageOf
<1>2. Sent(m)' <=> Sent(m)
  BY DEF Sent
<1>3. lost'[m] \in Nat /\ lost'[m] >= lost[m]
  BY MessageType DEF Hides, TypeOK
<1>4. p \in Sending(m)' /\ Sent(m) => lost'[m] = lost[m] + 1
  BY <1>1 DEF Hides, TypeOK
<1> QED
  BY <1>1, <1>2, <1>3, <1>4, FlightMoves DEF Counted, TypeOK

LEMMA SendCounts ==
  ASSUME TypeOK, NEW p \in Process, Moves(p), NEW m \in Message, Counted(m),
         pc[p] = "send", pc'[p] = "save", UNCHANGED <<notifications, part, channel>>,
         \/ ok'[p] /\ Shows(p) /\ UNCHANGED lost
         \/ ~ok'[p] /\ Shows(p) /\ Hides(p, TRUE)
         \/ ~ok'[p] /\ UNCHANGED <<delivered, lost>>
  PROVE  Counted(m)'
<1>1. Sent(m)' <=> Sent(m)
  BY DEF Sent
<1>2. CASE part[p] # Summary /\ MessageOf(p) = m
  <2>1. /\ p \in Sending(m) /\ p \notin Saving(m) /\ p \notin Sending(m)'
        /\ p \in Saving(m)' <=> ok'[p]
    BY <1>2 DEF Sending, Saving, MessageOf
  <2>2. \/ ok'[p] /\ delivered'[m] = delivered[m] + 1 /\ lost'[m] = lost[m]
        \/ ~ok'[p] /\ delivered'[m] = delivered[m] + 1 /\ lost'[m] = lost[m] + 1
        \/ ~ok'[p] /\ delivered'[m] = delivered[m] /\ lost'[m] = lost[m]
    BY <1>2 DEF Shows, Hides, TypeOK
  <2> QED
    BY <1>1, <2>1, <2>2, FlightMoves DEF Counted, TypeOK
<1>3. CASE ~(part[p] # Summary /\ MessageOf(p) = m)
  <2>1. /\ p \notin Sending(m) /\ p \notin Saving(m)
        /\ p \notin Sending(m)' /\ p \notin Saving(m)'
    BY <1>3 DEF Sending, Saving, MessageOf
  <2>2. delivered'[m] = delivered[m] /\ lost'[m] = lost[m]
    BY <1>3, MessageType DEF Shows, Hides, TypeOK
  <2> QED
    BY <1>1, <2>1, <2>2, FlightMoves DEF Counted, TypeOK
<1> QED
  BY <1>2, <1>3

(* Recording a delivery closes the message, or loses it. *)
LEMMA SaveCounts ==
  ASSUME TypeOK, NEW p \in Process, Moves(p), NEW m \in Message, Counted(m),
         pc[p] = "save", pc'[p] \notin {"send", "save"}, UNCHANGED delivered,
         \/ Save(p)
         \/ Hides(p, ok[p]) /\ UNCHANGED notifications
  PROVE  Counted(m)'
<1>1. /\ p \notin Sending(m) /\ p \notin Sending(m)' /\ p \notin Saving(m)'
      /\ p \in Saving(m) <=> ok[p] /\ part[p] # Summary /\ MessageOf(p) = m
  BY DEF Sending, Saving
<1>2. CASE p \in Saving(m) /\ Save(p)
  <2>1. Sent(m)' /\ lost'[m] = lost[m] /\ delivered'[m] = delivered[m]
    BY <1>1, <1>2 DEF Save, Sent
  <2> QED
    BY <1>1, <1>2, <2>1, FlightMoves, InFlight DEF Counted, TypeOK
<1>3. CASE p \in Saving(m) /\ ~Save(p)
  <2>1. (Sent(m)' <=> Sent(m)) /\ lost'[m] = lost[m] + 1 /\ delivered'[m] = delivered[m]
    BY <1>1, <1>3 DEF Hides, Sent, TypeOK
  <2> QED
    BY <1>1, <1>3, <2>1, FlightMoves DEF Counted, TypeOK
<1>4. CASE p \notin Saving(m)
  <2>1. Sent(m)' <=> Sent(m)
    BY <1>1, <1>4, MessageType DEF Save, Sent
  <2>2. lost'[m] = lost[m] /\ delivered'[m] = delivered[m]
    BY <1>1, <1>4, MessageType DEF Save, Hides, TypeOK
  <2> QED
    BY <1>1, <1>4, <2>1, <2>2, FlightMoves DEF Counted, TypeOK
<1> QED
  BY <1>2, <1>3, <1>4

(* A run that dies before it saved leaves what it showed unrecorded. *)
LEMMA CrashCounts ==
  ASSUME TypeOK, NEW p \in Process, Moves(p), NEW m \in Message, Counted(m), Crash(p)
  PROVE  Counted(m)'
<1>1. CASE pc[p] = "save"
  <2>1. Hides(p, ok[p])
    BY <1>1 DEF Crash, Hides
  <2> QED
    BY <1>1, <2>1, SaveCounts DEF Crash, TypeOK
<1>2. CASE pc[p] # "save"
  <2>1. /\ p \notin Saving(m) /\ p \notin Sending(m)' /\ p \notin Saving(m)'
    BY <1>2 DEF Sending, Saving, Crash, TypeOK
  <2>2. (Sent(m)' <=> Sent(m)) /\ UNCHANGED <<lost, delivered>>
    BY <1>2 DEF Crash, Hides, Sent
  <2> QED
    BY <2>1, <2>2, FlightMoves DEF Counted, TypeOK
<1> QED
  BY <1>1, <1>2

LEMMA NextChannelGoesOn ==
  ASSUME TypeOK, NEW p \in Process, NextChannel(p)
  PROVE  pc'[p] \in {"lookup", "stream", "done"}
BY DEF NextChannel, TypeOK

LEMMA CountsStep == ASSUME TypeOK, CountsOK, [Next]_vars PROVE CountsOK'
<1> SUFFICES ASSUME NEW m \in Message PROVE Counted(m)'
  BY DEF CountsOK, Counted
<1>1. Counted(m)
  BY DEF CountsOK, Counted
<1>2. CASE UNCHANGED vars
  BY <1>1, <1>2 DEF Counted, Sent, Sending, Saving, MessageOf, vars, outside, delivery
<1>3. ASSUME NEW p \in Process, Start(p) \/ Run(p) \/ Fails(p) PROVE Counted(m)'
  <2>1. Moves(p)
    BY <1>3, MovesAlone
  <2>2. CASE Start(p)
    BY <1>1, <2>1, <2>2, QuietKeepsCounts DEF Start, TypeOK
  <2>3. CASE \E o \in Opportunity : Trade(p, o)
    BY <1>1, <2>1, <2>3, QuietKeepsCounts DEF Trade, TypeOK
  <2>4. CASE NoTrade(p, {}) \/ NoTrade(p, {symbol[p]}) \/ Abort(p)
    BY <1>1, <2>1, <2>4, QuietKeepsCounts DEF NoTrade, Abort, delivery, TypeOK
  <2>5. CASE Summarise(p)
    BY <1>1, <2>1, <2>5, QuietKeepsCounts DEF Summarise, TypeOK
  <2>6. CASE Lookup(p)
    BY <1>1, <2>1, <2>6, TryCounts DEF Lookup, Try, outside, TypeOK
  <2>7. CASE Skip(p)
    BY <1>1, <2>1, <2>7, NextChannelGoesOn, QuietKeepsCounts DEF Skip
  <2>8. CASE Send(p)
    BY <1>1, <2>1, <2>8, SendCounts DEF Send, TypeOK
  <2>9. CASE Save(p)
    BY <1>1, <2>1, <2>9, NextChannelGoesOn, SaveCounts DEF Save
  <2>10. CASE LookupFails(p)
    BY <1>1, <2>1, <2>10, TryCounts DEF LookupFails, Try, TypeOK
  <2>11. CASE SaveFails(p)
    BY <1>1, <2>1, <2>11, NextChannelGoesOn, SaveCounts DEF SaveFails
  <2>12. CASE Crash(p)
    BY <1>1, <2>1, <2>12, CrashCounts
  <2>13. ASSUME NEW shown \in BOOLEAN, SendFails(p, shown) PROVE Counted(m)'
    <3>1. CASE shown
      BY <1>1, <2>1, <2>13, <3>1, SendCounts DEF SendFails, TypeOK, Hides
    <3>2. CASE ~shown
      <4>1. UNCHANGED <<delivered, lost>>
        BY <2>13, <3>2 DEF SendFails, Hides
      <4> QED
        BY <1>1, <2>1, <2>13, <4>1, SendCounts DEF SendFails, TypeOK
    <3> QED
      BY <3>1, <3>2
  <2> QED
    BY <1>3, <2>2, <2>3, <2>4, <2>5, <2>6, <2>7, <2>8, <2>9, <2>10, <2>11, <2>12, <2>13
       DEF Run, Fails
<1> QED
  BY <1>2, <1>3 DEF Next

-----------------------------------------------------------------------------
(* A message that is recorded, or about to be, has been shown. *)
Seen(m) == Sent(m) \/ Saving(m) # {} => delivered[m] > 0

(* Nothing is recorded and no run begins to save: what was shown stays.    *)
LEMMA SeenStays ==
  ASSUME TypeOK, NEW p \in Process, Moves(p), NEW m \in Message, Seen(m),
         p \notin Saving(m)', delivered[m] > 0 => delivered'[m] > 0,
         Sent(m)' => Sent(m) \/ p \in Saving(m)
  PROVE  Seen(m)'
<1>1. \A q \in Process \ {p} : MessageOf(q)' = MessageOf(q)
  BY DEF Moves, MessageOf
<1>2. Saving(m)' \subseteq Saving(m)
  BY <1>1 DEF Moves, Saving
<1>3. Sent(m) \/ Saving(m) # {} => delivered'[m] > 0
  BY DEF Seen
<1> QED
  BY <1>2, <1>3 DEF Seen

LEMMA ShownStep == ASSUME TypeOK, ShownOK, [Next]_vars PROVE ShownOK'
<1> SUFFICES ASSUME NEW m \in Message PROVE Seen(m)'
  BY DEF ShownOK, Seen
<1>1. Seen(m)
  BY DEF ShownOK, Seen
<1>2. CASE UNCHANGED vars
  BY <1>1, <1>2 DEF Seen, Sent, Saving, MessageOf, vars, outside, delivery
<1>3. ASSUME NEW p \in Process, Start(p) \/ Run(p) \/ Fails(p) PROVE Seen(m)'
  <2>1. Moves(p)
    BY <1>3, MovesAlone
  <2>2. delivered[m] \in Nat
    BY DEF TypeOK
  <2>3. CASE Start(p) \/ Summarise(p) \/ \E o \in Opportunity : Trade(p, o)
    <3>1. p \notin Saving(m)' /\ UNCHANGED delivered /\ (Sent(m)' <=> Sent(m))
      BY <2>3 DEF Start, Summarise, Trade, Saving, Sent, outside, TypeOK
    <3> QED
      BY <1>1, <2>1, <2>2, <3>1, SeenStays
  <2>4. CASE NoTrade(p, {}) \/ NoTrade(p, {symbol[p]}) \/ Abort(p)
    BY <1>1, <2>4 DEF NoTrade, Abort, delivery, outside, Seen, Sent, Saving, MessageOf
  <2>5. CASE Lookup(p) \/ LookupFails(p)
    <3>1. p \notin Saving(m)' /\ UNCHANGED delivered /\ (Sent(m)' <=> Sent(m))
      BY <2>5 DEF Lookup, LookupFails, Try, Saving, Sent, outside, TypeOK
    <3> QED
      BY <1>1, <2>1, <2>2, <3>1, SeenStays
  <2>6. CASE Skip(p) \/ SaveFails(p)
    <3>1. p \notin Saving(m)' /\ UNCHANGED delivered /\ (Sent(m)' <=> Sent(m))
      BY <2>6, NextChannelGoesOn DEF Skip, SaveFails, Saving, Sent, outside
    <3> QED
      BY <1>1, <2>1, <2>2, <3>1, SeenStays
  <2>7. CASE Send(p)
    <3>1. CASE part[p] # Summary /\ MessageOf(p) = m
      <4>1. delivered'[m] = delivered[m] + 1
        BY <2>7, <3>1 DEF Send, Shows, TypeOK
      <4> QED
        BY <2>2, <4>1 DEF Seen
    <3>2. CASE ~(part[p] # Summary /\ MessageOf(p) = m)
      <4>1. delivered'[m] = delivered[m]
        BY <2>7, <3>2, MessageType DEF Send, Shows, TypeOK
      <4>2. p \notin Saving(m)' /\ (Sent(m)' <=> Sent(m))
        BY <2>7, <3>2 DEF Send, Saving, Sent, MessageOf
      <4> QED
        BY <1>1, <2>1, <2>2, <4>1, <4>2, SeenStays
    <3> QED
      BY <3>1, <3>2
  <2>8. ASSUME NEW shown \in BOOLEAN, SendFails(p, shown) PROVE Seen(m)'
    <3>1. delivered[m] > 0 => delivered'[m] > 0
      BY <2>2, <2>8, MessageType DEF SendFails, Shows, TypeOK
    <3>2. p \notin Saving(m)' /\ (Sent(m)' <=> Sent(m))
      BY <2>8 DEF SendFails, Saving, Sent, TypeOK
    <3> QED
      BY <1>1, <2>1, <3>1, <3>2, SeenStays
  <2>9. CASE Save(p)
    <3>1. p \notin Saving(m)' /\ UNCHANGED delivered
      BY <2>9, NextChannelGoesOn DEF Save, Saving
    <3>2. Sent(m)' => Sent(m) \/ p \in Saving(m)
      BY <2>9 DEF Save, Sent, Saving
    <3> QED
      BY <1>1, <2>1, <2>2, <3>1, <3>2, SeenStays
  <2>10. CASE Crash(p)
    <3>1. p \notin Saving(m)' /\ UNCHANGED delivered /\ (Sent(m)' <=> Sent(m))
      BY <2>10 DEF Crash, Saving, Sent, TypeOK
    <3> QED
      BY <1>1, <2>1, <2>2, <3>1, SeenStays
  <2> QED
    BY <1>3, <2>3, <2>4, <2>5, <2>6, <2>7, <2>8, <2>9, <2>10 DEF Run, Fails
<1> QED
  BY <1>2, <1>3 DEF Next

-----------------------------------------------------------------------------
(* What one run knows of its loop and of the opportunities it found. *)
LoopOf(p) ==
  /\ tried[p] # {} => found[p] # {}
  /\ InLoop(p) /\ part[p] # Summary => part[p] \in found[p]
  /\ InLoop(p) /\ part[p] = Summary => Passed(p) \subseteq warned[p]
  /\ pc[p] = "done" => warned[p] = Channel \/ (errors[p] = {} /\ tried[p] # {})

FoundBy(p) ==
  \A o \in found[p], c \in Channel :
    \/ c \in tried[p] \/ Sent(<<o, c>>)
    \/ InLoop(p) /\ part[p] = o /\ c \notin Passed(p)
    \/ pc[p] = "idle"

(* Rows are never deleted. *)
LEMMA SentForGood ==
  ASSUME [Next]_vars, NEW m, Sent(m)
  PROVE  Sent(m)'
BY DEF Next, Run, Fails, Start, Trade, NoTrade, Abort, Summarise, Lookup, Skip, Send, Save,
       LookupFails, SaveFails, Crash, SendFails, vars, outside, Sent

(* A run is not touched by the steps of another one. *)
Untouched(q) ==
  /\ pc'[q] = pc[q] /\ part'[q] = part[q] /\ channel'[q] = channel[q]
  /\ errors'[q] = errors[q] /\ tried'[q] = tried[q]
  /\ warned'[q] = warned[q] /\ found'[q] = found[q]

LEMMA OthersUntouched ==
  ASSUME TypeOK, NEW p \in Process, Start(p) \/ Run(p) \/ Fails(p),
         NEW q \in Process, q # p
  PROVE  Untouched(q)
BY DEF TypeOK, Untouched, Start, Run, Fails, Trade, NoTrade, Abort, Summarise, Lookup, Skip,
       Send, Save, LookupFails, SaveFails, Crash, SendFails, Try, NextChannel, delivery, report

LEMMA UntouchedKeeps ==
  ASSUME NEW q \in Process, Untouched(q), LoopOf(q), FoundBy(q),
         \A m : Sent(m) => Sent(m)'
  PROVE  LoopOf(q)' /\ FoundBy(q)'
BY DEF Untouched, LoopOf, FoundBy, InLoop, Passed

(* To the next channel: the one behind has been tried or was sent before.  *)
LEMMA NextChannelKeeps ==
  ASSUME TypeOK, NEW p \in Process, LoopOf(p), FoundBy(p), NextChannel(p), InLoop(p),
         UNCHANGED <<part, report>>, \A m : Sent(m) => Sent(m)',
         part[p] = Summary => channel[p] \in warned[p],
         part[p] # Summary => channel[p] \in tried[p] \/ Sent(MessageOf(p))
  PROVE  LoopOf(p)' /\ FoundBy(p)'
<1>1. channel[p] \in 1..NChannels /\ NChannels \in Nat
  BY SizesAssumption DEF TypeOK, Channel
<1>2. CASE channel[p] < NChannels
  <2>1. pc'[p] = "lookup" /\ channel'[p] = channel[p] + 1
    BY <1>2 DEF NextChannel, TypeOK
  <2>2. Passed(p)' = 1..channel[p]
    BY <1>1, <2>1 DEF Passed
  <2>3. 1..channel[p] \subseteq Passed(p) \cup {channel[p]}
    BY <1>1 DEF Passed
  <2>4. LoopOf(p)'
    BY <2>1, <2>2, <2>3 DEF LoopOf, InLoop, report
  <2>5. FoundBy(p)'
    <3> SUFFICES ASSUME NEW o \in found[p], NEW c \in Channel
                 PROVE  \/ c \in tried[p] \/ Sent(<<o, c>>)
                        \/ part[p] = o /\ c \notin 1..channel[p]
      BY <2>1, <2>2 DEF FoundBy, InLoop, report
    <3>1. \/ c \in tried[p] \/ Sent(<<o, c>>)
          \/ part[p] = o /\ c \notin Passed(p)
      BY DEF FoundBy, InLoop
    <3>2. part[p] = o /\ c = channel[p] => c \in tried[p] \/ Sent(<<o, c>>)
      BY SummaryApart DEF MessageOf, TypeOK
    <3> QED
      BY <2>3, <3>1, <3>2
  <2> QED
    BY <2>4, <2>5
<1>3. CASE ~(channel[p] < NChannels)
  <2>1. /\ pc'[p] = IF part[p] = Summary THEN "done" ELSE "stream"
        /\ channel'[p] = channel[p]
    BY <1>3 DEF NextChannel, TypeOK
  <2>2. channel[p] = NChannels
    BY <1>1, <1>3
  <2>3. Channel \subseteq Passed(p) \cup {channel[p]}
    BY <1>1, <2>2 DEF Passed, Channel
  <2>4. LoopOf(p)'
    BY <2>1, <2>3 DEF LoopOf, InLoop, report, TypeOK
  <2>5. FoundBy(p)'
    BY <2>1, <2>3, SummaryApart DEF FoundBy, InLoop, report, MessageOf, TypeOK
  <2> QED
    BY <2>4, <2>5
<1> QED
  BY <1>2, <1>3

(* The attempt on one channel. *)
LEMMA TryKeeps ==
  ASSUME TypeOK, NEW p \in Process, LoopOf(p), FoundBy(p), pc[p] = "lookup", Try(p),
         UNCHANGED <<part, channel, errors, found>>, \A m : Sent(m) => Sent(m)'
  PROVE  LoopOf(p)' /\ FoundBy(p)'
<1>1. channel[p] \in Nat /\ pc'[p] = "send"
  BY DEF TypeOK, Channel, Try
<1>2. 1..channel[p] = (1..(channel[p] - 1)) \cup {channel[p]} \/ channel[p] = 0
  BY <1>1
<1>3. channel[p] # 0
  BY DEF TypeOK, Channel
<1>4. Passed(p)' = Passed(p) \cup {channel[p]}
  BY <1>1, <1>2, <1>3 DEF Passed
<1>5. CASE part[p] = Summary
  <2>1. warned'[p] = warned[p] \cup {channel[p]} /\ tried' = tried
    BY <1>5 DEF Try, TypeOK
  <2> QED
    BY <1>1, <1>4, <1>5, <2>1, SummaryApart DEF LoopOf, FoundBy, InLoop, TypeOK
<1>6. CASE part[p] # Summary
  <2>1. tried'[p] = tried[p] \cup {channel[p]} /\ warned' = warned
    BY <1>6 DEF Try, TypeOK
  <2>2. LoopOf(p)'
    BY <1>1, <1>4, <1>6, <2>1 DEF LoopOf, InLoop
  <2>3. FoundBy(p)'
    BY <1>1, <1>4, <1>6, <2>1 DEF FoundBy, InLoop
  <2> QED
    BY <2>2, <2>3
<1> QED
  BY <1>5, <1>6

(* In the send and the save the channel has been tried already. *)
LEMMA TriedAlready ==
  ASSUME TypeOK, NEW p \in Process, LoopOf(p), FoundBy(p), pc[p] \in {"send", "save"}
  PROVE  /\ part[p] = Summary => channel[p] \in warned[p]
         /\ part[p] # Summary => channel[p] \in tried[p] \/ Sent(MessageOf(p))
<1>1. channel[p] \in Passed(p) /\ channel[p] \in Channel
  BY DEF Passed, TypeOK, Channel
<1>2. CASE part[p] = Summary
  BY <1>1, <1>2 DEF LoopOf, InLoop
<1>3. CASE part[p] # Summary
  BY <1>1, <1>3 DEF LoopOf, FoundBy, InLoop, MessageOf
<1> QED
  BY <1>2, <1>3

LEMMA LoopStep ==
  ASSUME TypeOK, LoopOK, FoundOK, [Next]_vars
  PROVE  LoopOK' /\ FoundOK'
<1>1. \A p \in Process : LoopOf(p) /\ FoundBy(p)
  BY DEF LoopOK, FoundOK, LoopOf, FoundBy
<1>2. \A m : Sent(m) => Sent(m)'
  BY SentForGood
<1> SUFFICES \A p \in Process : LoopOf(p)' /\ FoundBy(p)'
  BY DEF LoopOK, FoundOK, LoopOf, FoundBy
<1>3. CASE UNCHANGED vars
  BY <1>1, <1>3 DEF LoopOf, FoundBy, InLoop, Passed, Sent, vars, outside, delivery, report
<1>4. ASSUME NEW p \in Process, Start(p) \/ Run(p) \/ Fails(p)
      PROVE  LoopOf(p)' /\ FoundBy(p)'
  <2>1. LoopOf(p) /\ FoundBy(p)
    BY <1>1
  <2>2. CASE Start(p)
    BY <2>2 DEF Start, LoopOf, FoundBy, InLoop, TypeOK
  <2>3. ASSUME NEW o \in Opportunity, Trade(p, o) PROVE LoopOf(p)' /\ FoundBy(p)'
    <3>1. /\ pc[p] = "stream" /\ pc'[p] = "lookup" /\ part'[p] = o /\ channel'[p] = 1
          /\ found'[p] = found[p] \cup {o} /\ UNCHANGED <<outside, errors, tried, warned>>
      BY <2>3 DEF Trade, TypeOK
    <3>2. Passed(p)' = {}
      BY <3>1 DEF Passed
    <3>3. o # Summary
      BY SummaryApart
    <3>4. LoopOf(p)'
      BY <2>1, <3>1, <3>2, <3>3 DEF LoopOf, InLoop
    <3>5. FoundBy(p)'
      BY <1>2, <2>1, <3>1, <3>2 DEF FoundBy, InLoop
    <3> QED
      BY <3>4, <3>5
  <2>4. CASE NoTrade(p, {}) \/ NoTrade(p, {symbol[p]}) \/ Abort(p)
    <3>1. pc[p] = "stream" /\ UNCHANGED <<delivery, tried, warned, found>>
      BY <2>4 DEF NoTrade, Abort
    <3> QED
      BY <1>2, <2>1, <3>1 DEF LoopOf, FoundBy, InLoop, delivery
  <2>5. CASE Summarise(p)
    <3>1. /\ pc[p] = "stream" /\ part'[p] = Summary /\ channel'[p] = 1
          /\ pc'[p] = IF NeedsSummary(p) THEN "lookup" ELSE "done"
          /\ UNCHANGED report
      BY <2>5 DEF Summarise, TypeOK
    <3>2. pc'[p] = "lookup" => Passed(p)' = {}
      BY <3>1 DEF Passed
    <3>3. LoopOf(p)'
      BY <2>1, <3>1, <3>2 DEF LoopOf, InLoop, NeedsSummary, report
    <3>4. FoundBy(p)'
      BY <1>2, <2>1, <3>1 DEF FoundBy, InLoop, report
    <3> QED
      BY <3>3, <3>4
  <2>6. CASE Lookup(p) \/ LookupFails(p)
    BY <1>2, <2>1, <2>6, TryKeeps DEF Lookup, LookupFails
  <2>7. CASE Skip(p)
    BY <1>2, <2>1, <2>7, NextChannelKeeps DEF Skip, InLoop
  <2>8. CASE Send(p) \/ \E shown \in BOOLEAN : SendFails(p, shown)
    <3>1. /\ pc[p] = "send" /\ pc'[p] = "save"
          /\ UNCHANGED <<notifications, part, channel, report>>
      BY <2>8 DEF Send, SendFails, TypeOK
    <3> QED
      BY <1>2, <2>1, <3>1 DEF LoopOf, FoundBy, InLoop, Passed, report
  <2>9. CASE Save(p) \/ SaveFails(p)
    <3>1. /\ pc[p] = "save" /\ NextChannel(p) /\ UNCHANGED <<part, report>>
      BY <2>9 DEF Save, SaveFails
    <3>2. /\ part[p] = Summary => channel[p] \in warned[p]
          /\ part[p] # Summary => channel[p] \in tried[p] \/ Sent(MessageOf(p))
      BY <2>1, <3>1, TriedAlready
    <3>3. InLoop(p)
      BY <3>1 DEF InLoop
    <3> QED
      BY <1>2, <2>1, <3>1, <3>2, <3>3, NextChannelKeeps
  <2>10. CASE Crash(p)
    <3>1. pc'[p] = "idle" /\ UNCHANGED report
      BY <2>10 DEF Crash, TypeOK
    <3> QED
      BY <2>1, <3>1 DEF LoopOf, FoundBy, InLoop, report
  <2> QED
    BY <1>4, <2>2, <2>3, <2>4, <2>5, <2>6, <2>7, <2>8, <2>9, <2>10 DEF Run, Fails
<1>5. ASSUME NEW p \in Process, Start(p) \/ Run(p) \/ Fails(p), NEW q \in Process, q # p
      PROVE  LoopOf(q)' /\ FoundBy(q)'
  BY <1>1, <1>2, <1>5, OthersUntouched, UntouchedKeeps
<1> QED
  BY <1>3, <1>4, <1>5 DEF Next

-----------------------------------------------------------------------------
LEMMA ReporterInit == Init => RInv
<1> SUFFICES ASSUME Init PROVE RInv
  OBVIOUS
<1>1. TypeOK
  BY SizesAssumption DEF Init, TypeOK, Channel
<1>2. \A m \in Message : ~Sent(m) /\ Sending(m) = {} /\ Saving(m) = {}
  BY DEF Init, Sent, Sending, Saving
<1>3. CountsOK
  BY <1>2, FS_EmptySet DEF CountsOK, Init
<1>4. ShownOK
  BY <1>2 DEF ShownOK
<1>5. LoopOK /\ FoundOK
  BY DEF Init, LoopOK, FoundOK, InLoop
<1> QED
  BY <1>1, <1>3, <1>4, <1>5 DEF RInv

(* The invariant is inductive. *)
LEMMA ReporterInductive == RInv /\ [Next]_vars => RInv'
BY TypeStep, CountsStep, ShownStep, LoopStep DEF RInv

LEMMA ReporterInvariantHolds == Spec => []RInv
BY ReporterInit, ReporterInductive, PTL DEF Spec

(* The counters, channels and symbols of every run keep their types.       *)
THEOREM ReporterTypeCorrect == Spec => []TypeOK
<1>1. RInv => TypeOK
  BY DEF RInv
<1> QED
  BY <1>1, ReporterInvariantHolds, PTL

(* An opportunity is shown on a channel as often as services run at once,  *)
(* and once more for each failure that hid a delivery: the lookup before   *)
(* the send suppresses everything else.                                    *)
THEOREM FewDuplicates == Spec => []DuplicatesBounded
<1>1. RInv => DuplicatesBounded
  <2> SUFFICES ASSUME RInv, NEW m \in Message
               PROVE  delivered[m] <= lost[m] + Cardinality(Process)
    BY DEF DuplicatesBounded
  <2>1. /\ Sending(m) \in SUBSET Process /\ Saving(m) \in SUBSET Process
        /\ delivered[m] \in Nat /\ lost[m] \in Nat
    BY DEF Sending, Saving, RInv, TypeOK
  <2>2. IF Sent(m) THEN delivered[m] + Cardinality(Sending(m)) <= lost[m] + Cardinality(Process)
                   ELSE delivered[m] <= lost[m] + Cardinality(Saving(m))
    BY DEF RInv, CountsOK
  <2> QED
    BY <2>1, <2>2, RunsFinite
<1> QED
  BY <1>1, ReporterInvariantHolds, PTL

(* The database calls nothing sent that a channel has not shown: what the  *)
(* lookup suppresses has been seen.                                        *)
THEOREM NothingSuppressedUnseen == Spec => []SentWasShown
<1>1. RInv => SentWasShown
  BY DEF RInv, ShownOK, SentWasShown
<1> QED
  BY <1>1, ReporterInvariantHolds, PTL

(* A completed run has named its failed symbols on every channel.          *)
THEOREM ErrorsReachEveryChannel == Spec => []ErrorsReported
<1>1. RInv => ErrorsReported
  BY DEF RInv, LoopOK, ErrorsReported
<1> QED
  BY <1>1, ReporterInvariantHolds, PTL

(* A completed run has tried every channel that has not been told of one   *)
(* of its opportunities before.                                            *)
THEOREM NoChannelIsSilent == Spec => []NoSilentChannel
<1>1. RInv => NoSilentChannel
  <2> SUFFICES ASSUME RInv, NEW p \in Process, NEW c \in Channel, pc[p] = "done"
               PROVE  c \in tried[p] \cup warned[p] \/ \E o \in found[p] : Sent(<<o, c>>)
    BY DEF NoSilentChannel
  <2>1. warned[p] = Channel \/ tried[p] # {}
    BY DEF RInv, LoopOK
  <2>2. CASE tried[p] # {}
    <3>1. PICK o \in found[p] : TRUE
      BY <2>2 DEF RInv, LoopOK
    <3> QED
      BY <3>1 DEF RInv, FoundOK, InLoop
  <2> QED
    BY <2>1, <2>2
<1> QED
  BY <1>1, ReporterInvariantHolds, PTL
=============================================================================
