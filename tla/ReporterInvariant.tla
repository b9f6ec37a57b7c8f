------------------------- MODULE ReporterInvariant -------------------------
(***************************************************************************)
(* The inductive invariant of Reporter: what the database, the channels    *)
(* and the runs that are under way know of one message.                    *)
(***************************************************************************)
EXTENDS Reporter

(* The runs about to send the message; those that have, and are about to   *)
(* record it.                                                              *)
Sending(m) == {p \in Process : pc[p] = "send" /\ part[p] # Summary /\ MessageOf(p) = m}
Saving(m)  == {p \in Process : pc[p] = "save" /\ ok[p] /\ part[p] # Summary /\ MessageOf(p) = m}

(* Before the first record a delivery is in the hands of a run or lost;    *)
(* after it only the runs that looked the message up before can add one.   *)
CountsOK ==
  \A m \in Message :
    IF Sent(m) THEN delivered[m] + Cardinality(Sending(m)) <= lost[m] + Cardinality(Process)
               ELSE delivered[m] <= lost[m] + Cardinality(Saving(m))

ShownOK ==
  \A m \in Message : Sent(m) \/ Saving(m) # {} => delivered[m] > 0

(* The channels the loop over the channels has tried or skipped.           *)
InLoop(p) == pc[p] \in {"lookup", "send", "save"}
Passed(p) == IF pc[p] = "lookup" THEN 1..(channel[p] - 1) ELSE 1..channel[p]

LoopOK ==
  \A p \in Process :
    /\ tried[p] # {} => found[p] # {}
    /\ InLoop(p) /\ part[p] # Summary => part[p] \in found[p]
    /\ InLoop(p) /\ part[p] = Summary => Passed(p) \subseteq warned[p]
    /\ pc[p] = "done" => warned[p] = Channel \/ (errors[p] = {} /\ tried[p] # {})

(* Every opportunity of the run has been tried or found sent, on every     *)
(* channel the loop has passed.                                            *)
FoundOK ==
  \A p \in Process : \A o \in found[p], c \in Channel :
    \/ c \in tried[p] \/ Sent(<<o, c>>)
    \/ InLoop(p) /\ part[p] = o /\ c \notin Passed(p)
    \/ pc[p] = "idle"

RInv ==
  /\ TypeOK
  /\ CountsOK
  /\ ShownOK
  /\ LoopOK
  /\ FoundOK
=============================================================================
