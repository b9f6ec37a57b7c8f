------------------------------ MODULE Reporter ------------------------------
(***************************************************************************)
(* app/review/reporter.py: the report that streams one part per symbol and *)
(* sends it to every enabled channel.  An opportunity has an id, the table *)
(* "notifications" remembers what was sent under it, and a later run skips *)
(* what it finds there.  Sending and remembering are two steps, each of    *)
(* which may fail, and the process may die between them.                   *)
(*                                                                         *)
(* Two services run the report against one database: the cron job and the  *)
(* one that is deployed by hand (railway.toml, railway.manual.toml).       *)
(***************************************************************************)
EXTENDS Integers, FiniteSets

CONSTANTS
  Process,    \* the services
  NSymbols,   \* the watch list is 1..NSymbols
  NChannels,  \* the enabled channels, in the order of the configuration
  Plans,      \* contracts the LLM may give for a symbol on its latest bar
  MaxFaults   \* bound: failures and crashes

ASSUME SizesAssumption ==
  /\ NSymbols \in Nat /\ NChannels \in Nat \ {0} /\ MaxFaults \in Nat
  /\ IsFiniteSet(Process)

Symbol      == 1..NSymbols
Channel     == 1..NChannels
Opportunity == Symbol \X Plans
Message     == Opportunity \X Channel
Summary     == <<>>      \* in the place of an opportunity: has no id
System      == 0         \* the symbol a broken stream is reported under

VARIABLES
  notifications, \* database: {<<message, status>>} of the opportunities
  delivered,     \* how often the channel has shown the opportunity
  lost,          \* history: failures that hid a delivery from the database
  faults,        \* failures and crashes so far
  pc,            \* per process: where the run is
  part,          \* the opportunity being sent, or Summary
  channel,       \* the channel it is being sent to
  ok,            \* what the notifier answered
  symbol,        \* the symbol whose part comes next
  errors,        \* the symbols of data_error_parts
  tried,         \* channels an opportunity was tried on (notification_attempts)
  warned,        \* channels the summary was tried on
  found          \* history: opportunities the run has come across

outside  == <<notifications, delivered, lost>>
delivery == <<pc, part, channel, ok>>
report   == <<symbol, errors, tried, warned, found>>
vars == <<outside, faults, delivery, report>>

TypeOK ==
  /\ notifications \subseteq Message \X {"SENT", "FAILED"}
  /\ delivered \in [Message -> Nat] /\ lost \in [Message -> Nat]
  /\ faults \in 0..MaxFaults
  /\ pc \in [Process -> {"idle", "stream", "lookup", "send", "save", "done"}]
  /\ part \in [Process -> Opportunity \cup {Summary}]
  /\ channel \in [Process -> Channel]
  /\ ok \in [Process -> BOOLEAN]
  /\ symbol \in [Process -> 1..(NSymbols + 1)]
  /\ errors \in [Process -> SUBSET (Symbol \cup {System})]
  /\ tried \in [Process -> SUBSET Channel]
  /\ warned \in [Process -> SUBSET Channel]
  /\ found \in [Process -> SUBSET Opportunity]

Init ==
  /\ notifications = {} /\ faults = 0
  /\ delivered = [m \in Message |-> 0] /\ lost = [m \in Message |-> 0]
  /\ pc = [p \in Process |-> "idle"]
  /\ part = [p \in Process |-> Summary] /\ channel = [p \in Process |-> 1]
  /\ ok = [p \in Process |-> FALSE]
  /\ symbol = [p \in Process |-> 1] /\ errors = [p \in Process |-> {}]
  /\ tried = [p \in Process |-> {}] /\ warned = [p \in Process |-> {}]
  /\ found = [p \in Process |-> {}]

-----------------------------------------------------------------------------
(* A slot of the schedule, or a deployment by hand: nothing is remembered  *)
(* from the run before but the database.                                   *)
Start(p) ==
  /\ pc[p] \in {"idle", "done"}
  /\ pc' = [pc EXCEPT ![p] = "stream"]
  /\ symbol' = [symbol EXCEPT ![p] = 1]
  /\ errors' = [errors EXCEPT ![p] = {}]
  /\ tried' = [tried EXCEPT ![p] = {}] /\ warned' = [warned EXCEPT ![p] = {}]
  /\ found' = [found EXCEPT ![p] = {}]
  /\ UNCHANGED <<outside, faults, part, channel, ok>>

(* The next part of the stream: a trade, which is sent at once, ...        *)
Trade(p, o) ==
  /\ pc[p] = "stream" /\ symbol[p] <= NSymbols /\ o[1] = symbol[p]
  /\ pc' = [pc EXCEPT ![p] = "lookup"]
  /\ part' = [part EXCEPT ![p] = o] /\ channel' = [channel EXCEPT ![p] = 1]
  /\ symbol' = [symbol EXCEPT ![p] = @ + 1]
  /\ found' = [found EXCEPT ![p] = @ \cup {o}]
  /\ UNCHANGED <<outside, faults, ok, errors, tried, warned>>

(* ... no trade, or a symbol that could not be analysed, ...               *)
NoTrade(p, failed) ==
  /\ pc[p] = "stream" /\ symbol[p] <= NSymbols
  /\ errors' = [errors EXCEPT ![p] = @ \cup failed]
  /\ symbol' = [symbol EXCEPT ![p] = @ + 1]
  /\ UNCHANGED <<outside, faults, delivery, tried, warned, found>>

(* ... or an exception, which ends the stream.  The last one can come      *)
(* after all parts: the stream archives its snapshot in a finally.         *)
Abort(p) ==
  /\ pc[p] = "stream" /\ System \notin errors[p]
  /\ errors' = [errors EXCEPT ![p] = @ \cup {System}]
  /\ symbol' = [symbol EXCEPT ![p] = NSymbols + 1]
  /\ UNCHANGED <<outside, faults, delivery, tried, warned, found>>

(* Mutant of NeedsSummary: errors are reported only if nothing was sent.   *)
NeedsSummaryOnlyWhenQuiet(p) == tried[p] = {}

(* A run whose attempts were all suppressed counts as one that found       *)
(* nothing new.                                                            *)
NeedsSummary(p) == errors[p] # {} \/ tried[p] = {}

Summarise(p) ==
  /\ pc[p] = "stream" /\ symbol[p] > NSymbols
  /\ pc' = [pc EXCEPT ![p] = IF NeedsSummary(p) THEN "lookup" ELSE "done"]
  /\ part' = [part EXCEPT ![p] = Summary] /\ channel' = [channel EXCEPT ![p] = 1]
  /\ UNCHANGED <<outside, faults, ok, report>>

-----------------------------------------------------------------------------
MessageOf(p) == <<part[p], channel[p]>>

(* Mutants of Sent: a failed attempt counts too; only the first channel is *)
(* asked for.                                                              *)
SentOrFailed(m) == \E status \in {"SENT", "FAILED"} : <<m, status>> \in notifications
SentOnFirst(m)  == <<<<m[1], 1>>, "SENT">> \in notifications

(* was_notification_sent                                                   *)
Sent(m) == <<m, "SENT">> \in notifications

(* Mutant of NextChannel: the loop runs past the last channel.             *)
NextChannelUnbounded(p) ==
  /\ pc' = [pc EXCEPT ![p] = IF part[p] = Summary THEN "done" ELSE "lookup"]
  /\ channel' = [channel EXCEPT ![p] = @ + 1]

(* The loop over the channels: the next one, or on with the stream.        *)
NextChannel(p) ==
  IF channel[p] < NChannels
  THEN /\ pc' = [pc EXCEPT ![p] = "lookup"]
       /\ channel' = [channel EXCEPT ![p] = @ + 1]
  ELSE /\ pc' = [pc EXCEPT ![p] = IF part[p] = Summary THEN "done" ELSE "stream"]
       /\ UNCHANGED channel

(* attempted += 1, and on to the notifier.                                 *)
Try(p) ==
  /\ pc' = [pc EXCEPT ![p] = "send"]
  /\ IF part[p] = Summary
     THEN warned' = [warned EXCEPT ![p] = @ \cup {channel[p]}] /\ UNCHANGED tried
     ELSE tried' = [tried EXCEPT ![p] = @ \cup {channel[p]}] /\ UNCHANGED warned

(* Only a part with an id is looked up.                                    *)
Lookup(p) ==
  /\ pc[p] = "lookup"
  /\ part[p] = Summary \/ ~Sent(MessageOf(p))
  /\ Try(p)
  /\ UNCHANGED <<outside, faults, part, channel, ok, symbol, errors, found>>

Skip(p) ==
  /\ pc[p] = "lookup" /\ part[p] # Summary /\ Sent(MessageOf(p))
  /\ NextChannel(p)
  /\ UNCHANGED <<outside, faults, part, ok, report>>

Fault == faults < MaxFaults /\ faults' = faults + 1

Hides(p, hidden) ==
  lost' = IF hidden /\ part[p] # Summary THEN [lost EXCEPT ![MessageOf(p)] = @ + 1]
          ELSE lost

(* The database fails the lookup: delivery continues.                      *)
LookupFails(p) ==
  /\ pc[p] = "lookup" /\ part[p] # Summary /\ Fault
  /\ Try(p) /\ Hides(p, Sent(MessageOf(p)))
  /\ UNCHANGED <<notifications, delivered, part, channel, ok, symbol, errors, found>>

Shows(p) ==
  delivered' = IF part[p] = Summary THEN delivered
               ELSE [delivered EXCEPT ![MessageOf(p)] = @ + 1]

Send(p) ==
  /\ pc[p] = "send"
  /\ Shows(p)
  /\ pc' = [pc EXCEPT ![p] = "save"] /\ ok' = [ok EXCEPT ![p] = TRUE]
  /\ UNCHANGED <<notifications, lost, faults, part, channel, report>>

(* The notifier answers with an error or raises, with the message shown    *)
(* (a timeout after the request was accepted) or not.                      *)
SendFails(p, shown) ==
  /\ pc[p] = "send" /\ Fault
  /\ IF shown THEN Shows(p) ELSE UNCHANGED delivered
  /\ Hides(p, shown)
  /\ pc' = [pc EXCEPT ![p] = "save"] /\ ok' = [ok EXCEPT ![p] = FALSE]
  /\ UNCHANGED <<notifications, part, channel, report>>

(* Mutants of Save: every attempt is recorded as sent; the channels after  *)
(* a failed one are given up.                                              *)
SaveAlwaysSent(p) ==
  /\ pc[p] = "save"
  /\ notifications' = IF part[p] = Summary THEN notifications ELSE
       notifications \cup {<<MessageOf(p), "SENT">>}
  /\ NextChannel(p)
  /\ UNCHANGED <<delivered, lost, faults, part, ok, report>>

SaveGivesUp(p) ==
  /\ pc[p] = "save"
  /\ notifications' = IF part[p] = Summary THEN notifications ELSE
       notifications \cup {<<MessageOf(p), IF ok[p] THEN "SENT" ELSE "FAILED">>}
  /\ IF ok[p] THEN NextChannel(p)
     ELSE pc' = [pc EXCEPT ![p] = IF part[p] = Summary THEN "done" ELSE "stream"]
          /\ UNCHANGED channel
  /\ UNCHANGED <<delivered, lost, faults, part, ok, report>>

(* save_notification; rows of summaries are never looked up.               *)
Save(p) ==
  /\ pc[p] = "save"
  /\ notifications' = IF part[p] = Summary THEN notifications ELSE
       notifications \cup {<<MessageOf(p), IF ok[p] THEN "SENT" ELSE "FAILED">>}
  /\ NextChannel(p)
  /\ UNCHANGED <<delivered, lost, faults, part, ok, report>>

SaveFails(p) ==
  /\ pc[p] = "save" /\ Fault
  /\ Hides(p, ok[p])
  /\ NextChannel(p)
  /\ UNCHANGED <<notifications, delivered, part, ok, report>>

(* The process dies; the service does not restart it (restartPolicyType).  *)
Crash(p) ==
  /\ pc[p] \notin {"idle", "done"} /\ Fault
  /\ Hides(p, pc[p] = "save" /\ ok[p])
  /\ pc' = [pc EXCEPT ![p] = "idle"]
  /\ UNCHANGED <<notifications, delivered, part, channel, ok, report>>

-----------------------------------------------------------------------------
Run(p) ==
  \/ \E o \in Opportunity : Trade(p, o)
  \/ NoTrade(p, {}) \/ NoTrade(p, {symbol[p]}) \/ Abort(p) \/ Summarise(p)
  \/ Lookup(p) \/ Skip(p) \/ Send(p) \/ Save(p)

Fails(p) ==
  \/ LookupFails(p) \/ SaveFails(p) \/ Crash(p)
  \/ \E shown \in BOOLEAN : SendFails(p, shown)

Next == \E p \in Process : Start(p) \/ Run(p) \/ Fails(p)

Spec == Init /\ [][Next]_vars

(* The schedule starts runs for ever, and a run that lives goes on.        *)
FairSpec == Spec /\ \A p \in Process : WF_vars(Start(p)) /\ WF_vars(Run(p))

-----------------------------------------------------------------------------
(* A channel shows an opportunity once, and once more for every failure    *)
(* that hid a delivery from the database and for every other service that  *)
(* runs at the same time.                                                  *)
DuplicatesBounded ==
  \A m \in Message : delivered[m] <= lost[m] + Cardinality(Process)

(* "The same high-timeframe opportunity is not sent twice."                *)
NotSentTwice == \A m \in Message : delivered[m] <= 1

(* What the database calls sent has been shown.                            *)
SentWasShown == \A m \in Message : Sent(m) => delivered[m] > 0

(* A run that completes with symbols it could not analyse, or with a       *)
(* broken stream, has tried to say so on every channel, trades or not.     *)
ErrorsReported ==
  \A p \in Process : pc[p] = "done" /\ errors[p] # {} => warned[p] = Channel

(* A run that completes has tried every channel, except one on which an    *)
(* opportunity of this run had been sent already.                          *)
NoSilentChannel ==
  \A p \in Process, c \in Channel : pc[p] = "done" =>
    c \in tried[p] \cup warned[p] \/ \E o \in found[p] : Sent(<<o, c>>)

(* An opportunity that runs keep finding is shown on every channel in the  *)
(* end, whatever failed before: a failed attempt is tried again.           *)
FoundIsShown ==
  \A o \in Opportunity, c \in Channel :
    []<>(\E p \in Process : part[p] = o /\ pc[p] = "lookup") => <>(delivered[<<o, c>>] > 0)
=============================================================================
