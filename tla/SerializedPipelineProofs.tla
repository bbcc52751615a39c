----------------------- MODULE SerializedPipelineProofs -----------------------
(***************************************************************************)
(* Theorems about SerializedPipeline for any number of lanes, any probing  *)
(* order that visits every lane, any buffer sizes and any set of calls.    *)
(***************************************************************************)
EXTENDS SerializedPipeline, TLAPS

USE CallsAssumption, LanesAssumption

-----------------------------------------------------------------------------
(* What receiving from a channel does to its buffer. *)
LEMMA TailFacts ==
    ASSUME NEW S, NEW s \in Seq(S), s # <<>>
    PROVE  /\ Head(s) \in S
           /\ Head(s) = s[1]
           /\ Tail(s) \in Seq(S)
           /\ Len(s) \in Nat \ {0}
           /\ Len(Tail(s)) = Len(s) - 1
           /\ \A i \in 1..Len(Tail(s)) : Tail(s)[i] = s[i + 1]
  OBVIOUS

(* What sending on a channel does to its buffer. *)
LEMMA AppendFacts ==
    ASSUME NEW S, NEW s \in Seq(S), NEW e \in S
    PROVE  /\ Append(s, e) \in Seq(S)
           /\ Append(s, e) # <<>>
           /\ Len(s) \in Nat
           /\ Len(Append(s, e)) = Len(s) + 1
           /\ \A i \in 1..Len(s) : Append(s, e)[i] = s[i]
           /\ Append(s, e)[Len(s) + 1] = e
  OBVIOUS

(* laneFor always yields a lane, whatever kind a caller passes. *)
LEMMA LaneOfLanes == \A c : LaneOf(c) \in Lanes
  BY DEF LaneOf

LEMMA TurnInRange ==
    ASSUME turn \in Lanes PROVE NextTurn \in Lanes
  BY DEF NextTurn, Lanes

-----------------------------------------------------------------------------
(* The state of the pipeline is always well typed. *)
LEMMA TypeStep == TypeOK /\ [Next]_vars => TypeOK'
<1> SUFFICES ASSUME TypeOK, [Next]_vars PROVE TypeOK'
  OBVIOUS
<1> USE DEF TypeOK, Answers
<1>1. ASSUME NEW c \in Calls, Enqueue(c) PROVE TypeOK'
  <2>1. Append(queue[LaneOf(c)], c) \in Seq(Calls)
    BY LaneOfLanes, AppendFacts
  <2>2. queue' \in [Lanes -> Seq(Calls)]
    BY <1>1, <2>1, LaneOfLanes DEF Enqueue
  <2>3. QED
    BY <1>1, <2>2 DEF Enqueue
<1>2. ASSUME NEW c \in Calls, RefuseEnqueue(c) PROVE TypeOK'
  BY <1>2 DEF RefuseEnqueue, laneVars
<1>3. ASSUME NEW c \in Calls, EndContext(c) PROVE TypeOK'
  BY <1>3 DEF EndContext, laneVars
<1>4. ASSUME NEW c \in Calls, ReturnResult(c) PROVE TypeOK'
  BY <1>4 DEF ReturnResult, laneVars
<1>5. ASSUME NEW c \in Calls, ReturnEnded(c) PROVE TypeOK'
  BY <1>5 DEF ReturnEnded, laneVars
<1>6. ASSUME NEW c \in Calls, NewCall(c) PROVE TypeOK'
  BY <1>6 DEF NewCall, laneVars
<1>7. ASSUME NEW l \in Lanes, Take(l)
      PROVE  /\ queue' \in [Lanes -> Seq(Calls)]
             /\ job' \in Calls
             /\ worker' = "checking"
             /\ probes' \in 0..NLanes
             /\ overtaken' \in [Lanes -> Nat]
  <2>1. Head(queue[l]) \in Calls /\ Tail(queue[l]) \in Seq(Calls)
    BY <1>7, TailFacts DEF Take
  <2>2. QED
    BY <1>7, <2>1 DEF Take
<1>8. CASE ProbeHit
  <2>1. Order[turn] \in Lanes
    BY OrderAssumption
  <2>2. QED
    BY <1>7, <1>8, <2>1, TurnInRange DEF ProbeHit, callVars
<1>9. CASE ProbeMiss
  BY <1>9, TurnInRange DEF ProbeMiss, callVars
<1>10. CASE BlockingReceive
  BY <1>7, <1>10 DEF BlockingReceive, callVars
<1>11. ASSUME NEW a \in Answers, Reply(a), worker # "seeking"
       PROVE  /\ result' \in [Calls -> Answers \cup {"none"}]
              /\ worker' = "seeking" /\ job' = NoCall
              /\ UNCHANGED <<laneVars, phase, ended, outcome>>
  BY <1>11 DEF Reply
<1>12. CASE SkipEnded
  BY <1>11, <1>12 DEF SkipEnded, laneVars
<1>13. CASE Start
  BY <1>13 DEF Start, laneVars, callVars
<1>14. CASE Finish
  <2>1. effect' \in [Calls -> BOOLEAN]
    BY <1>14 DEF Finish
  <2>2. QED
    BY <1>11, <1>14, <2>1 DEF Finish, laneVars
<1>15. CASE UNCHANGED vars
  BY <1>15 DEF vars
<1>16. QED
  BY <1>1, <1>2, <1>3, <1>4, <1>5, <1>6, <1>8, <1>9, <1>10, <1>12, <1>13,
     <1>14, <1>15 DEF Next, WorkerStep, CallerStep

THEOREM TypeCorrect == Spec => []TypeOK
<1>1. Init => TypeOK
  BY DEF Init, TypeOK, Answers, Lanes
<1>2. QED
  BY <1>1, TypeStep, PTL DEF Spec

-----------------------------------------------------------------------------
(***************************************************************************)
(* Fair rotation.  Gap(p) counts the lanes the sweep probes before it      *)
(* comes to position p.  A lane the current sweep has already found empty  *)
(* (Gap(p) + probes >= NLanes) cannot have been overtaken yet; any other   *)
(* lane can be overtaken at most once per lane still ahead of it.  The sum *)
(* therefore never exceeds NLanes.                                         *)
(***************************************************************************)
Gap(p) == IF p >= turn THEN p - turn ELSE p - turn + NLanes

OvertakingAt(p) ==
    /\ queue[Order[p]] = <<>> => overtaken[Order[p]] = 0
    /\ IF Gap(p) + probes >= NLanes
       THEN overtaken[Order[p]] = 0
       ELSE overtaken[Order[p]] + Gap(p) <= NLanes

OvertakingInv ==
    /\ worker # "seeking" => probes = 0
    /\ \A p \in Lanes : OvertakingAt(p)

(* Receiving from lane l raises no other lane's count by more than one. *)
LEMMA TakeOvertaken ==
    ASSUME TypeOK, NEW l \in Lanes, Take(l), NEW k \in Lanes,
           queue[k] = <<>> => overtaken[k] = 0
    PROVE  /\ overtaken'[k] \in Nat
           /\ overtaken'[k] <= overtaken[k] + 1
           /\ k = l => overtaken'[k] = 0
           /\ queue'[k] = <<>> => overtaken'[k] = 0
           /\ probes' = 0 /\ worker' = "checking"
<1>1. overtaken[k] \in Nat
  BY DEF TypeOK
<1>2. k # l => queue'[k] = queue[k]
  BY DEF Take, TypeOK
<1>3. QED
  BY <1>1, <1>2 DEF Take

(* One probe brings the sweep one lane closer to every lane but its own. *)
LEMMA GapStep ==
    ASSUME turn \in Lanes, NEW p \in Lanes, turn' = NextTurn
    PROVE  /\ Gap(p) \in 0..(NLanes - 1)
           /\ p # turn => Gap(p) > 0 /\ Gap(p)' = Gap(p) - 1
           /\ p = turn => Gap(p)' = NLanes - 1
<1>1. NLanes \in Nat /\ turn \in Nat /\ p \in Nat /\ turn < NLanes /\ p < NLanes
  BY DEF Lanes
<1>2. turn' = IF turn = NLanes - 1 THEN 0 ELSE turn + 1
  BY DEF NextTurn
<1>3. /\ Gap(p) = IF p >= turn THEN p - turn ELSE p - turn + NLanes
      /\ Gap(p)' = IF p >= turn' THEN p - turn' ELSE p - turn' + NLanes
  BY DEF Gap
<1>4. QED
  BY <1>1, <1>2, <1>3

LEMMA OvertakingStep ==
    TypeOK /\ OvertakingInv /\ [Next]_vars => OvertakingInv'
<1> SUFFICES ASSUME TypeOK, OvertakingInv, [Next]_vars PROVE OvertakingInv'
  OBVIOUS
<1> USE DEF OvertakingInv
<1>1. ASSUME UNCHANGED laneVars, worker' # "seeking" => worker # "seeking" \/ probes = 0
      PROVE OvertakingInv'
  BY <1>1 DEF laneVars, OvertakingAt, Gap
<1>2. ASSUME NEW c \in Calls, Enqueue(c) PROVE OvertakingInv'
  <2>1. Append(queue[LaneOf(c)], c) # <<>>
    <3>1. queue[LaneOf(c)] \in Seq(Calls)
      BY LaneOfLanes DEF TypeOK
    <3>2. QED
      BY <3>1, AppendFacts
  <2>2. \A k \in Lanes : queue'[k] = <<>> => queue[k] = <<>>
    BY <1>2, <2>1, LaneOfLanes DEF Enqueue, TypeOK
  <2>3. UNCHANGED <<turn, probes, worker, overtaken>>
    BY <1>2 DEF Enqueue
  <2>4. ASSUME NEW p \in Lanes PROVE OvertakingAt(p)'
    <3>1. Order[p] \in Lanes
      BY OrderAssumption
    <3>2. QED
      BY <2>2, <2>3, <3>1 DEF OvertakingAt, Gap
  <2>5. QED
    BY <2>3, <2>4
<1>3. CASE ProbeHit
  <2>1. Order[turn] \in Lanes /\ Take(Order[turn]) /\ turn' = NextTurn
    BY <1>3, OrderAssumption DEF ProbeHit, TypeOK
  <2>2. ASSUME NEW p \in Lanes PROVE OvertakingAt(p)'
    <3>1. Order[p] \in Lanes /\ (Order[p] = Order[turn] <=> p = turn)
      BY OrderAssumption DEF TypeOK
    <3>2. OvertakingAt(p)
      OBVIOUS
    <3>3. /\ overtaken'[Order[p]] \in Nat
          /\ overtaken'[Order[p]] <= overtaken[Order[p]] + 1
          /\ p = turn => overtaken'[Order[p]] = 0
          /\ queue'[Order[p]] = <<>> => overtaken'[Order[p]] = 0
          /\ probes' = 0
      BY <2>1, <3>1, <3>2, TakeOvertaken DEF OvertakingAt
    <3>4. overtaken[Order[p]] \in Nat /\ turn \in Lanes /\ probes \in 0..NLanes
      BY <3>1 DEF TypeOK
    <3>5. /\ p # turn => Gap(p)' = Gap(p) - 1
          /\ p = turn => Gap(p)' = NLanes - 1
          /\ Gap(p) \in 0..(NLanes - 1)
          /\ p # turn => Gap(p) > 0
      BY <2>1, <3>4, GapStep
    <3>6. QED
      BY <3>2, <3>3, <3>4, <3>5 DEF OvertakingAt
  <2>3. QED
    BY <2>1, <2>2, <1>3 DEF Take
<1>4. CASE ProbeMiss
  <2>1. /\ queue[Order[turn]] = <<>>
        /\ turn' = NextTurn /\ probes' = probes + 1 /\ probes < NLanes
        /\ UNCHANGED <<queue, worker, overtaken>> /\ worker = "seeking"
    BY <1>4 DEF ProbeMiss
  <2>2. ASSUME NEW p \in Lanes PROVE OvertakingAt(p)'
    <3>1. Order[p] \in Lanes
      BY OrderAssumption
    <3>2. OvertakingAt(p)
      OBVIOUS
    <3>3. overtaken[Order[p]] \in Nat /\ turn \in Lanes /\ probes \in 0..NLanes
      BY <3>1 DEF TypeOK
    <3>4. /\ p # turn => Gap(p)' = Gap(p) - 1
          /\ p = turn => Gap(p)' = NLanes - 1
          /\ Gap(p) \in 0..(NLanes - 1)
      BY <2>1, <3>3, GapStep
    <3>5. QED
      BY <2>1, <3>2, <3>3, <3>4 DEF OvertakingAt
  <2>3. QED
    BY <2>1, <2>2
<1>5. CASE BlockingReceive
  <2>1. PICK l \in Lanes : Take(l)
    BY <1>5 DEF BlockingReceive
  <2>2. turn' = turn /\ probes = NLanes
    BY <1>5 DEF BlockingReceive
  <2>3. ASSUME NEW p \in Lanes PROVE OvertakingAt(p)'
    <3>1. Order[p] \in Lanes
      BY OrderAssumption
    <3>2. OvertakingAt(p)
      OBVIOUS
    <3>3. /\ overtaken'[Order[p]] \in Nat
          /\ overtaken'[Order[p]] <= overtaken[Order[p]] + 1
          /\ queue'[Order[p]] = <<>> => overtaken'[Order[p]] = 0
          /\ probes' = 0
      BY <2>1, <3>1, <3>2, TakeOvertaken DEF OvertakingAt
    <3>4. turn \in Lanes /\ overtaken[Order[p]] \in Nat
      BY <3>1 DEF TypeOK
    <3>5. Gap(p) \in 0..(NLanes - 1) /\ Gap(p)' = Gap(p)
      BY <2>2, <3>4 DEF Gap, Lanes
    <3>6. QED
      BY <2>2, <3>2, <3>3, <3>4, <3>5 DEF OvertakingAt
  <2>4. QED
    BY <2>1, <2>3 DEF Take
<1>6. CASE SkipEnded
  BY <1>1, <1>6 DEF SkipEnded, Reply
<1>7. CASE Start
  BY <1>1, <1>7 DEF Start
<1>8. CASE Finish
  BY <1>1, <1>8 DEF Finish, Reply
<1>9. ASSUME NEW c \in Calls, CallerStep(c) PROVE OvertakingInv'
  BY <1>1, <1>2, <1>9 DEF CallerStep, RefuseEnqueue, EndContext, ReturnResult,
     ReturnEnded, NewCall
<1>10. CASE UNCHANGED vars
  BY <1>1, <1>10 DEF vars, laneVars
<1>11. QED
  BY <1>3, <1>4, <1>5, <1>6, <1>7, <1>8, <1>9, <1>10 DEF Next, WorkerStep

(* While a lane has a job waiting, the worker serves at most NLanes jobs   *)
(* of other lanes, for every number of lanes and every load.               *)
THEOREM FairRotation == Spec => []BoundedOvertaking
<1>1. Init => OvertakingInv
  <2> SUFFICES ASSUME Init, NEW p \in Lanes PROVE OvertakingAt(p)
    BY DEF Init, OvertakingInv
  <2>1. overtaken[Order[p]] = 0
    BY OrderAssumption DEF Init
  <2>2. Gap(p) \in 0..(NLanes - 1) /\ probes = 0
    BY DEF Init, Gap, Lanes
  <2>3. QED
    BY <2>1, <2>2 DEF OvertakingAt
<1>2. TypeOK /\ OvertakingInv => BoundedOvertaking
  <2> SUFFICES ASSUME TypeOK, OvertakingInv, NEW l \in Lanes
               PROVE  overtaken[l] <= NLanes
    BY DEF BoundedOvertaking
  <2>1. PICK p \in Lanes : Order[p] = l
    BY OrderAssumption
  <2>2. Gap(p) \in Nat /\ overtaken[l] \in Nat
    BY DEF Gap, TypeOK, Lanes
  <2>3. QED
    BY <2>1, <2>2 DEF OvertakingInv, OvertakingAt
<1>3. QED
  BY <1>1, <1>2, OvertakingStep, TypeCorrect, PTL DEF Spec

-----------------------------------------------------------------------------
(***************************************************************************)
(* The whereabouts of a job.  A job in a lane is there once, in the lane   *)
(* of its own call, not also in the worker's hands; a job the pipeline     *)
(* owns is unanswered and its caller is not about to enqueue it again; a   *)
(* caller that returned while its job was still owned saw its context end. *)
(***************************************************************************)
Slots(l) == 1..Len(queue[l])

PlacedInv ==
    \A l \in Lanes : \A i \in Slots(l) :
        /\ LaneOf(queue[l][i]) = l
        /\ queue[l][i] # job
        /\ \A j \in Slots(l) : queue[l][i] = queue[l][j] => i = j

OwnedInv ==
    /\ worker = "seeking" <=> job = NoCall
    /\ \A c \in Calls : Pending(c) =>
          /\ result[c] = "none"
          /\ phase[c] # "calling"
          /\ phase[c] = "returned" => ended[c]

ToldInv ==
    \A c \in Calls :
        /\ phase[c] = "waiting" => Pending(c) \/ result[c] # "none"
        /\ phase[c] = "calling" => result[c] = "none"
        /\ phase[c] # "returned" <=> outcome[c] = "none"
        /\ result[c] = "ok" => effect[c]
        /\ result[c] = "ctx" => ended[c]
        /\ outcome[c] = "ok" => result[c] = "ok"
        /\ outcome[c] = "err" => result[c] = "err"
        /\ outcome[c] = "ctx" => ended[c]

IInv == TypeOK /\ PlacedInv /\ OwnedInv /\ ToldInv

(* Putting c at the end of its lane adds c to the owned jobs, no other. *)
LEMMA EnqueuePlaces ==
    ASSUME TypeOK, PlacedInv, OwnedInv, NEW c \in Calls, Enqueue(c)
    PROVE  PlacedInv' /\ \A d \in Calls : Pending(d)' <=> Pending(d) \/ d = c
<1> DEFINE k == LaneOf(c)
<1>1. k \in Lanes /\ queue[k] \in Seq(Calls)
  BY LaneOfLanes DEF TypeOK
<1>2. /\ queue' = [queue EXCEPT ![k] = Append(queue[k], c)]
      /\ job' = job /\ phase[c] = "calling"
  BY DEF Enqueue
<1>3. /\ \A l \in Lanes : l # k => queue'[l] = queue[l]
      /\ queue'[k] = Append(queue[k], c)
  BY <1>1, <1>2 DEF TypeOK
<1>4. ~Pending(c)
  BY <1>2 DEF OwnedInv
<1>5. /\ Len(queue[k]) \in Nat
      /\ Len(queue'[k]) = Len(queue[k]) + 1
      /\ \A i \in Slots(k) : queue'[k][i] = queue[k][i] /\ queue[k][i] # c
      /\ queue'[k][Len(queue[k]) + 1] = c
  BY <1>1, <1>3, <1>4, AppendFacts DEF Slots, Pending, Queued
<1>6. Slots(k)' = Slots(k) \cup {Len(queue[k]) + 1} /\ Len(queue[k]) + 1 \notin Slots(k)
  BY <1>5 DEF Slots
<1>7. PlacedInv'
  <2> SUFFICES ASSUME NEW l \in Lanes, NEW i \in Slots(l)'
               PROVE  /\ LaneOf(queue'[l][i]) = l
                      /\ queue'[l][i] # job'
                      /\ \A j \in Slots(l)' : queue'[l][i] = queue'[l][j] => i = j
    BY DEF PlacedInv, LaneOf
  <2>1. CASE l # k
    <3>1. queue'[l] = queue[l] /\ i \in Slots(l) /\ Slots(l)' = Slots(l)
      BY <1>3, <2>1 DEF Slots
    <3>2. /\ LaneOf(queue[l][i]) = l
          /\ queue[l][i] # job
          /\ \A j \in Slots(l) : queue[l][i] = queue[l][j] => i = j
      BY <3>1 DEF PlacedInv
    <3>3. job' = job
      BY <1>2
    <3>4. QED
      BY <3>1, <3>2, <3>3
  <2>2. CASE l = k
    <3>1. c # job /\ job' = job
      BY <1>2, <1>4 DEF Pending
    <3>2. \A j \in Slots(k) : /\ LaneOf(queue[k][j]) = k
                              /\ queue[k][j] # job
                              /\ \A m \in Slots(k) : queue[k][j] = queue[k][m] => j = m
      BY <1>1 DEF PlacedInv
    <3>3. i \in Slots(k) \/ i = Len(queue[k]) + 1
      BY <1>6, <2>2
    <3>4. LaneOf(queue'[k][i]) = k
      BY <1>5, <3>2, <3>3
    <3>5. queue'[k][i] # job'
      BY <1>5, <3>1, <3>2, <3>3
    <3>6. ASSUME NEW j \in Slots(k)', queue'[k][i] = queue'[k][j] PROVE i = j
      <4>1. j \in Slots(k) \/ j = Len(queue[k]) + 1
        BY <1>6
      <4>2. QED
        BY <1>5, <3>2, <3>3, <3>6, <4>1
    <3>7. QED
      BY <2>2, <3>4, <3>5, <3>6
  <2>3. QED
    BY <2>1, <2>2
<1>8. ASSUME NEW d \in Calls PROVE Pending(d)' <=> Pending(d) \/ d = c
  <2>1. LaneOf(d) \in Lanes
    BY LaneOfLanes
  <2>2. Queued(d) <=> \E i \in Slots(LaneOf(d)) : queue[LaneOf(d)][i] = d
    BY DEF Queued, Slots
  <2>3. Queued(d)' <=> \E i \in Slots(LaneOf(d))' : queue'[LaneOf(d)][i] = d
    BY DEF Queued, Slots, LaneOf
  <2>4. CASE LaneOf(d) = k
    <3>1. Queued(d)' <=> Queued(d) \/ d = c
      BY <1>5, <1>6, <2>2, <2>3, <2>4
    <3>2. QED
      BY <1>2, <3>1 DEF Pending
  <2>5. CASE LaneOf(d) # k
    <3>1. Queued(d)' <=> Queued(d)
      BY <1>3, <2>1, <2>2, <2>3, <2>5 DEF Slots
    <3>2. QED
      BY <1>2, <2>5, <3>1 DEF Pending
  <2>6. QED
    BY <2>4, <2>5
<1>9. QED
  BY <1>7, <1>8

(* Receiving moves one job from its lane into the worker's hands. *)
LEMMA TakePlaces ==
    ASSUME TypeOK, PlacedInv, job = NoCall, NEW k \in Lanes, Take(k)
    PROVE  /\ PlacedInv'
           /\ job' \in Calls
           /\ \A d \in Calls : Pending(d)' <=> Pending(d)
<1>1. queue[k] \in Seq(Calls) /\ queue[k] # <<>>
  BY DEF TypeOK, Take
<1>2. /\ \A l \in Lanes : l # k => queue'[l] = queue[l]
      /\ queue'[k] = Tail(queue[k])
      /\ job' = Head(queue[k])
  BY DEF TypeOK, Take
<1>3. /\ job' \in Calls /\ job' = queue[k][1]
      /\ Len(queue[k]) \in Nat \ {0}
      /\ Len(queue'[k]) = Len(queue[k]) - 1
      /\ \A i \in 1..Len(queue'[k]) : queue'[k][i] = queue[k][i + 1]
  BY <1>1, <1>2, TailFacts
<1>4. \A i \in Slots(k)' : i + 1 \in Slots(k) /\ queue'[k][i] = queue[k][i + 1]
  BY <1>3 DEF Slots
<1>5. 1 \in Slots(k) /\ \A i \in Slots(k) : i # 1 => i - 1 \in Slots(k)'
  BY <1>3 DEF Slots
<1>6. LaneOf(job') = k
  BY <1>3, <1>5 DEF PlacedInv
<1>7. PlacedInv'
  <2> SUFFICES ASSUME NEW l \in Lanes, NEW i \in Slots(l)'
               PROVE  /\ LaneOf(queue'[l][i]) = l
                      /\ queue'[l][i] # job'
                      /\ \A j \in Slots(l)' : queue'[l][i] = queue'[l][j] => i = j
    BY DEF PlacedInv, LaneOf
  <2>1. CASE l # k
    <3>1. queue'[l] = queue[l] /\ i \in Slots(l) /\ Slots(l)' = Slots(l)
      BY <1>2, <2>1 DEF Slots
    <3>2. QED
      BY <1>6, <2>1, <3>1 DEF PlacedInv
  <2>2. CASE l = k
    <3>1. i \in Nat /\ i > 0 /\ \A j \in Slots(k)' : j \in Nat
      BY <1>3, <2>2 DEF Slots
    <3>2. i + 1 # 1 /\ \A j \in Slots(k)' : i + 1 = j + 1 => i = j
      BY <3>1
    <3>3. QED
      BY <1>3, <1>4, <1>5, <2>2, <3>2 DEF PlacedInv
  <2>3. QED
    BY <2>1, <2>2
<1>8. ASSUME NEW d \in Calls PROVE Pending(d)' <=> Pending(d)
  <2>1. LaneOf(d) \in Lanes
    BY LaneOfLanes
  <2>2. Queued(d) <=> \E i \in Slots(LaneOf(d)) : queue[LaneOf(d)][i] = d
    BY DEF Queued, Slots
  <2>3. Queued(d)' <=> \E i \in Slots(LaneOf(d))' : queue'[LaneOf(d)][i] = d
    BY DEF Queued, Slots, LaneOf
  <2>4. Pending(d) <=> Queued(d)
    BY DEF Pending
  <2>5. CASE LaneOf(d) # k
    <3>1. Queued(d)' <=> Queued(d)
      BY <1>2, <2>1, <2>2, <2>3, <2>5 DEF Slots
    <3>2. QED
      BY <1>6, <2>4, <2>5, <3>1 DEF Pending
  <2>6. CASE LaneOf(d) = k
    <3>1. Queued(d)' => Queued(d)
      BY <1>4, <2>2, <2>3, <2>6
    <3>2. Queued(d) => d = job' \/ Queued(d)'
      <4> SUFFICES ASSUME NEW i \in Slots(k), queue[k][i] = d, d # job'
                   PROVE  Queued(d)'
        BY <2>2, <2>6
      <4>1. i - 1 \in Slots(k)' /\ (i - 1) + 1 = i
        BY <1>3, <1>5 DEF Slots
      <4>2. queue'[k][i - 1] = d
        BY <1>4, <4>1
      <4>3. QED
        BY <2>3, <2>6, <4>1, <4>2
    <3>3. d = job' => Queued(d)
      BY <1>3, <1>5, <2>2, <2>6
    <3>4. QED
      BY <2>4, <3>1, <3>2, <3>3 DEF Pending
  <2>7. QED
    BY <2>5, <2>6
<1>9. QED
  BY <1>3, <1>7, <1>8

(* A step that leaves lanes and worker alone leaves the owned jobs alone. *)
LEMMA PendingUnchanged ==
    ASSUME UNCHANGED <<queue, job>>
    PROVE  /\ PlacedInv => PlacedInv'
           /\ \A d \in Calls : Pending(d)' <=> Pending(d)
  BY DEF PlacedInv, Slots, Pending, Queued, LaneOf

(* An answer ends the pipeline's ownership of the worker's job only. *)
LEMMA ReplyPlaces ==
    ASSUME TypeOK, PlacedInv, worker # "seeking", OwnedInv,
           UNCHANGED queue, job' = NoCall
    PROVE  /\ job \in Calls
           /\ PlacedInv'
           /\ \A d \in Calls : Pending(d)' <=> Pending(d) /\ d # job
<1>1. job \in Calls
  BY DEF OwnedInv, TypeOK
<1>2. ~Queued(job)
  <2>1. LaneOf(job) \in Lanes
    BY LaneOfLanes
  <2>2. QED
    BY <2>1 DEF Queued, PlacedInv, Slots
<1>3. \A l \in Lanes : \A i \in Slots(l) : queue[l][i] \in Calls
  <2> SUFFICES ASSUME NEW l \in Lanes, NEW i \in Slots(l) PROVE queue[l][i] \in Calls
    OBVIOUS
  <2>1. queue[l] \in Seq(Calls)
    BY DEF TypeOK
  <2>2. QED
    BY <2>1 DEF Slots
<1>4. PlacedInv'
  BY <1>3 DEF PlacedInv, Slots, LaneOf
<1>5. \A d \in Calls : Queued(d)' <=> Queued(d)
  BY DEF Queued, LaneOf
<1>6. QED
  BY <1>1, <1>2, <1>4, <1>5 DEF Pending

LEMMA IInvStep == IInv /\ [Next]_vars => IInv'
<1> SUFFICES ASSUME TypeOK, PlacedInv, OwnedInv, ToldInv, [Next]_vars
             PROVE  PlacedInv' /\ OwnedInv' /\ ToldInv'
  BY TypeStep DEF IInv
<1>1. ASSUME NEW c \in Calls, Enqueue(c) PROVE PlacedInv' /\ OwnedInv' /\ ToldInv'
  <2>1. PlacedInv' /\ \A d \in Calls : Pending(d)' <=> Pending(d) \/ d = c
    BY <1>1, EnqueuePlaces
  <2>2. /\ phase[c] = "calling"
        /\ phase' = [phase EXCEPT ![c] = "waiting"]
        /\ UNCHANGED <<worker, job, ended, result, outcome, effect>>
    BY <1>1 DEF Enqueue
  <2>3. result[c] = "none" /\ outcome[c] = "none"
    BY <2>2 DEF ToldInv
  <2>4. OwnedInv'
    BY <2>1, <2>2, <2>3 DEF OwnedInv, TypeOK
  <2>5. ToldInv'
    BY <2>1, <2>2, <2>3 DEF ToldInv, TypeOK
  <2>6. QED
    BY <2>1, <2>4, <2>5
<1>2. ASSUME NEW c \in Calls, RefuseEnqueue(c) PROVE PlacedInv' /\ OwnedInv' /\ ToldInv'
  <2>1. UNCHANGED <<queue, job>>
    BY <1>2 DEF RefuseEnqueue, laneVars
  <2>2. QED
    BY <1>2, <2>1, PendingUnchanged
    DEF RefuseEnqueue, laneVars, OwnedInv, ToldInv, TypeOK
<1>3. ASSUME NEW c \in Calls, EndContext(c) PROVE PlacedInv' /\ OwnedInv' /\ ToldInv'
  <2>1. UNCHANGED <<queue, job>>
    BY <1>3 DEF EndContext, laneVars
  <2>2. QED
    BY <1>3, <2>1, PendingUnchanged
    DEF EndContext, laneVars, OwnedInv, ToldInv, TypeOK
<1>4. ASSUME NEW c \in Calls, ReturnResult(c) PROVE PlacedInv' /\ OwnedInv' /\ ToldInv'
  <2>1. UNCHANGED <<queue, job>>
    BY <1>4 DEF ReturnResult, laneVars
  <2>2. ~Pending(c)
    BY <1>4 DEF ReturnResult, OwnedInv
  <2>3. QED
    BY <1>4, <2>1, <2>2, PendingUnchanged
    DEF ReturnResult, laneVars, OwnedInv, ToldInv, TypeOK
<1>5. ASSUME NEW c \in Calls, ReturnEnded(c) PROVE PlacedInv' /\ OwnedInv' /\ ToldInv'
  <2>1. UNCHANGED <<queue, job>>
    BY <1>5 DEF ReturnEnded, laneVars
  <2>2. QED
    BY <1>5, <2>1, PendingUnchanged
    DEF ReturnEnded, laneVars, OwnedInv, ToldInv, TypeOK
<1>6. ASSUME NEW c \in Calls, NewCall(c) PROVE PlacedInv' /\ OwnedInv' /\ ToldInv'
  <2>1. UNCHANGED <<queue, job>> /\ ~Pending(c)
    BY <1>6 DEF NewCall, laneVars
  <2>2. QED
    BY <1>6, <2>1, PendingUnchanged
    DEF NewCall, laneVars, OwnedInv, ToldInv, TypeOK
<1>7. ASSUME NEW l \in Lanes, Take(l), worker = "seeking", UNCHANGED callVars
      PROVE  PlacedInv' /\ OwnedInv' /\ ToldInv'
  <2>1. job = NoCall
    BY <1>7 DEF OwnedInv
  <2>2. /\ PlacedInv' /\ job' \in Calls
        /\ \A d \in Calls : Pending(d)' <=> Pending(d)
    BY <1>7, <2>1, TakePlaces
  <2>3. worker' # "seeking" /\ job' # NoCall
    BY <1>7, <2>2 DEF Take
  <2>4. QED
    BY <1>7, <2>2, <2>3 DEF callVars, OwnedInv, ToldInv
<1>8. CASE ProbeHit
  <2>1. Order[turn] \in Lanes
    BY OrderAssumption DEF TypeOK
  <2>2. QED
    BY <1>7, <1>8, <2>1 DEF ProbeHit
<1>9. CASE ProbeMiss
  BY <1>9, PendingUnchanged DEF ProbeMiss, callVars, OwnedInv, ToldInv
<1>10. CASE BlockingReceive
  BY <1>7, <1>10 DEF BlockingReceive
<1>11. CASE SkipEnded
  <2>1. /\ worker # "seeking" /\ ended[job]
        /\ UNCHANGED <<queue, phase, ended, outcome, effect>>
        /\ job' = NoCall /\ worker' = "seeking"
        /\ result' = [result EXCEPT ![job] = "ctx"]
    BY <1>11 DEF SkipEnded, Reply, laneVars
  <2>2. /\ job \in Calls /\ PlacedInv'
        /\ \A d \in Calls : Pending(d)' <=> Pending(d) /\ d # job
    BY <2>1, ReplyPlaces
  <2>3. Pending(job)
    BY DEF Pending
  <2>4. result[job] = "none"
    BY <2>2, <2>3 DEF OwnedInv
  <2>5. OwnedInv'
    BY <2>1, <2>2 DEF OwnedInv, TypeOK
  <2>6. ToldInv'
    <3> SUFFICES ASSUME NEW c \in Calls
                 PROVE  /\ phase[c] = "waiting" => Pending(c)' \/ result'[c] # "none"
                        /\ phase[c] = "calling" => result'[c] = "none"
                        /\ phase[c] # "returned" <=> outcome[c] = "none"
                        /\ result'[c] = "ok" => effect[c]
                        /\ result'[c] = "ctx" => ended[c]
                        /\ outcome[c] = "ok" => result'[c] = "ok"
                        /\ outcome[c] = "err" => result'[c] = "err"
                        /\ outcome[c] = "ctx" => ended[c]
      BY <2>1 DEF ToldInv
    <3>1. CASE c = job
      <4>1. phase[job] # "calling"
        BY <2>2, <2>3 DEF OwnedInv
      <4>2. QED
        BY <2>1, <2>2, <2>4, <3>1, <4>1 DEF ToldInv, TypeOK
    <3>2. CASE c # job
      BY <2>1, <2>2, <3>2 DEF ToldInv, TypeOK
    <3>3. QED
      BY <3>1, <3>2
  <2>7. QED
    BY <2>2, <2>5, <2>6
<1>12. CASE Start
  <2>1. UNCHANGED <<queue, job>> /\ worker # "seeking" /\ worker' # "seeking"
    BY <1>12 DEF Start, laneVars
  <2>2. QED
    BY <1>12, <2>1, PendingUnchanged DEF Start, callVars, OwnedInv, ToldInv
<1>13. CASE Finish
  <2>1. PICK a \in {"ok", "err"}, e \in BOOLEAN :
          /\ Reply(a)
          /\ effect' = [effect EXCEPT ![job] = e]
          /\ a = "ok" => e = TRUE
    BY <1>13 DEF Finish
  <2>2. /\ worker # "seeking"
        /\ UNCHANGED <<queue, phase, ended, outcome>>
        /\ job' = NoCall /\ worker' = "seeking"
        /\ result' = [result EXCEPT ![job] = a]
    BY <1>13, <2>1 DEF Finish, Reply, laneVars
  <2>3. /\ job \in Calls /\ PlacedInv'
        /\ \A d \in Calls : Pending(d)' <=> Pending(d) /\ d # job
    BY <2>2, ReplyPlaces
  <2>4. Pending(job)
    BY DEF Pending
  <2>5. result[job] = "none" /\ phase[job] # "calling"
    BY <2>3, <2>4 DEF OwnedInv
  <2>6. OwnedInv'
    BY <2>2, <2>3 DEF OwnedInv, TypeOK
  <2>7. ToldInv'
    <3> SUFFICES ASSUME NEW c \in Calls
                 PROVE  /\ phase[c] = "waiting" => Pending(c)' \/ result'[c] # "none"
                        /\ phase[c] = "calling" => result'[c] = "none"
                        /\ phase[c] # "returned" <=> outcome[c] = "none"
                        /\ result'[c] = "ok" => effect'[c]
                        /\ result'[c] = "ctx" => ended[c]
                        /\ outcome[c] = "ok" => result'[c] = "ok"
                        /\ outcome[c] = "err" => result'[c] = "err"
                        /\ outcome[c] = "ctx" => ended[c]
      BY <2>2 DEF ToldInv
    <3>1. CASE c = job
      BY <2>1, <2>2, <2>3, <2>5, <3>1 DEF ToldInv, TypeOK
    <3>2. CASE c # job
      BY <2>1, <2>2, <2>3, <3>2 DEF ToldInv, TypeOK
    <3>3. QED
      BY <3>1, <3>2
  <2>8. QED
    BY <2>3, <2>6, <2>7
<1>14. CASE UNCHANGED vars
  BY <1>14, PendingUnchanged DEF vars, OwnedInv, ToldInv
<1>15. QED
  BY <1>1, <1>2, <1>3, <1>4, <1>5, <1>6, <1>8, <1>9, <1>10, <1>11, <1>12,
     <1>13, <1>14 DEF Next, WorkerStep, CallerStep

LEMMA Inductive == Spec => []IInv
<1>1. Init => IInv
  <2> SUFFICES ASSUME Init PROVE IInv
    OBVIOUS
  <2>1. TypeOK
    BY DEF Init, TypeOK, Answers, Lanes
  <2>2. \A l \in Lanes : Slots(l) = {}
    BY DEF Init, Slots
  <2>3. \A c \in Calls : ~Pending(c)
    <3> SUFFICES ASSUME NEW c \in Calls PROVE ~Pending(c)
      OBVIOUS
    <3>1. Slots(LaneOf(c)) = {}
      BY <2>2, LaneOfLanes
    <3>2. QED
      BY <3>1 DEF Init, Pending, Queued, Slots
  <2>4. PlacedInv
    BY <2>2 DEF PlacedInv
  <2>5. QED
    BY <2>1, <2>3, <2>4 DEF Init, IInv, OwnedInv, ToldInv
<1>2. QED
  BY <1>1, IInvStep, PTL DEF Spec

(* Every waiting caller's job is owned by the pipeline or answered, and    *)
(* the one-place result channel receives at most one answer.               *)
THEOREM CallsTracked == Spec => []NoLostCall
<1>1. IInv => NoLostCall
  <2> SUFFICES ASSUME IInv PROVE NoLostCall
    OBVIOUS
  <2>1. job # NoCall => ~Queued(job)
    BY LaneOfLanes DEF IInv, PlacedInv, Queued, Slots
  <2>2. QED
    BY <2>1 DEF IInv, NoLostCall, OwnedInv, ToldInv
<1>2. QED
  BY <1>1, Inductive, PTL

(* A caller is told success only of a function that ran to its end, and a  *)
(* context error only when its context has ended.                          *)
THEOREM OutcomesTruthful == Spec => []TruthfulOutcome
<1>1. IInv => TruthfulOutcome
  BY DEF IInv, ToldInv, TruthfulOutcome
<1>2. QED
  BY <1>1, Inductive, PTL

(* The worker starts no function whose caller has already returned. *)
THEOREM AbandonedJobsSkipped == Spec => AbandonedNeverStarts
<1>1. IInv /\ [Next]_vars =>
        [(worker = "checking" /\ worker' = "running") => phase[job] = "waiting"]_vars
  <2> SUFFICES ASSUME IInv, Next, worker = "checking", worker' = "running"
               PROVE  phase[job] = "waiting"
    BY DEF vars
  <2>1. Start
    BY DEF Next, WorkerStep, CallerStep, ProbeHit, ProbeMiss, BlockingReceive,
       SkipEnded, Finish, Reply, Enqueue, RefuseEnqueue, EndContext,
       ReturnResult, ReturnEnded, NewCall
  <2>2. job \in Calls /\ Pending(job) /\ ~ended[job]
    BY <2>1 DEF IInv, TypeOK, OwnedInv, Pending, Start
  <2>3. phase[job] \in {"calling", "waiting", "returned"}
    BY <2>2 DEF IInv, TypeOK
  <2>4. QED
    BY <2>2, <2>3 DEF IInv, OwnedInv
<1>2. QED
  BY <1>1, Inductive, PTL DEF Spec, AbandonedNeverStarts

-----------------------------------------------------------------------------
(***************************************************************************)
(* The pipeline implements SerialExecutor: Status maps every step to a     *)
(* step of the abstract executor or to a stutter.                          *)
(***************************************************************************)
LEMMA StatusValues ==
    ASSUME IInv, NEW c \in Calls
    PROVE  /\ worker = "running" /\ job = c => Status(c) = "active"
           /\ Pending(c) /\ ~(worker = "running" /\ job = c) => Status(c) = "accepted"
           /\ ~Pending(c) /\ result[c] \in {"ok", "err"} => Status(c) = "settled"
           /\ ~Pending(c) /\ result[c] = "ctx" => Status(c) = "refused"
           /\ ~Pending(c) /\ result[c] = "none" /\ phase[c] = "returned"
                => Status(c) = "refused"
           /\ ~Pending(c) /\ result[c] = "none" /\ phase[c] # "returned"
                => Status(c) = "asked"
  BY DEF Status, Pending

(* A step that changes nothing Status looks at leaves every status alone;  *)
(* one that does so except at c changes no other status.                   *)
LEMMA StatusUnchanged ==
    ASSUME NEW c \in Calls,
           \A d \in Calls : d # c =>
               /\ Pending(d)' <=> Pending(d)
               /\ (worker = "running" /\ job = d)' <=> (worker = "running" /\ job = d)
               /\ result'[d] = result[d]
               /\ phase'[d] = phase[d]
    PROVE  \A d \in Calls : d # c => Status(d)' = Status(d)
  BY DEF Status

StatusMap == [c \in Calls |-> Status(c)]

LEMMA StepRefines == IInv /\ IInv' /\ [Next]_vars => [Executor!Next]_(Executor!vars)
<1> SUFFICES ASSUME IInv, IInv', [Next]_vars
             PROVE  Executor!Next \/ UNCHANGED Executor!vars
  OBVIOUS
<1>0. ASSUME \A d \in Calls : Status(d)' = Status(d), outcome' = outcome
      PROVE UNCHANGED Executor!vars
  BY <1>0 DEF Executor!vars
<1>1. ASSUME NEW c \in Calls, Enqueue(c) PROVE Executor!Accept(c)
  <2>1. \A d \in Calls : Pending(d)' <=> Pending(d) \/ d = c
    BY <1>1, EnqueuePlaces DEF IInv
  <2>2. /\ phase[c] = "calling" /\ phase' = [phase EXCEPT ![c] = "waiting"]
        /\ UNCHANGED <<worker, job, ended, result, outcome, effect>>
    BY <1>1 DEF Enqueue
  <2>3. ~Pending(c) /\ result[c] = "none"
    BY <2>2 DEF IInv, OwnedInv, ToldInv
  <2>4. Status(c) = "asked"
    BY <2>2, <2>3, StatusValues
  <2>5. Status(c)' = "accepted"
    <3>1. Pending(c)' /\ ~(worker = "running" /\ job = c)'
      BY <2>1, <2>2, <2>3 DEF Pending
    <3>2. QED
      BY <3>1 DEF Status
  <2>6. \A d \in Calls : d # c => Status(d)' = Status(d)
    BY <2>1, <2>2, StatusUnchanged DEF IInv, TypeOK
  <2>7. QED
    BY <2>2, <2>4, <2>5, <2>6 DEF Executor!Accept
<1>2. ASSUME NEW c \in Calls, RefuseEnqueue(c) PROVE Executor!TurnAway(c)
  <2>1. /\ phase[c] = "calling" /\ phase' = [phase EXCEPT ![c] = "returned"]
        /\ outcome' = [outcome EXCEPT ![c] = "ctx"]
        /\ UNCHANGED <<queue, worker, job, result>>
    BY <1>2 DEF RefuseEnqueue, laneVars
  <2>2. \A d \in Calls : Pending(d)' <=> Pending(d)
    BY <2>1, PendingUnchanged
  <2>3. ~Pending(c) /\ result[c] = "none"
    BY <2>1 DEF IInv, OwnedInv, ToldInv
  <2>4. Status(c) = "asked"
    BY <2>1, <2>3, StatusValues
  <2>5. Status(c)' = "refused"
    <3>1. /\ phase'[c] = "returned" /\ result'[c] = "none"
          /\ ~Pending(c)' /\ ~(worker = "running" /\ job = c)'
      BY <2>1, <2>2, <2>3 DEF IInv, TypeOK, Pending
    <3>2. QED
      BY <3>1 DEF Status
  <2>6. \A d \in Calls : d # c => Status(d)' = Status(d)
    BY <2>1, <2>2, StatusUnchanged DEF IInv, TypeOK
  <2>7. QED
    BY <2>1, <2>4, <2>5, <2>6 DEF Executor!TurnAway
<1>3. ASSUME NEW c \in Calls, EndContext(c) PROVE UNCHANGED Executor!vars
  <2>1. UNCHANGED <<queue, worker, job, result, phase, outcome>>
    BY <1>3 DEF EndContext, laneVars
  <2>2. QED
    BY <1>0, <2>1, PendingUnchanged DEF Status
<1>4. ASSUME NEW c \in Calls, ReturnResult(c) \/ ReturnEnded(c)
      PROVE  Executor!Tell(c)
  <2>1. PICK v \in Answers :
          /\ phase[c] = "waiting" /\ phase' = [phase EXCEPT ![c] = "returned"]
          /\ outcome' = [outcome EXCEPT ![c] = v]
          /\ v = result[c] \/ v = "ctx"
          /\ UNCHANGED <<queue, worker, job, result>>
    BY <1>4 DEF ReturnResult, ReturnEnded, laneVars, IInv, TypeOK, Answers
  <2>2. \A d \in Calls : Pending(d)' <=> Pending(d)
    BY <2>1, PendingUnchanged
  <2>3. Pending(c) \/ result[c] # "none"
    BY <2>1 DEF IInv, ToldInv
  <2>4. Status(c)' = Status(c) /\ Status(c) # "asked"
    BY <2>1, <2>2, <2>3 DEF Status, IInv, TypeOK, Answers
  <2>5. \A d \in Calls : d # c => Status(d)' = Status(d)
    BY <2>1, <2>2, StatusUnchanged DEF IInv, TypeOK
  <2>6. outcome[c] = "none"
    BY <2>1 DEF IInv, ToldInv
  <2>7. v \in {"ok", "err"} => Status(c) = "settled"
    <3> SUFFICES ASSUME v \in {"ok", "err"} PROVE Status(c) = "settled"
      OBVIOUS
    <3>1. result[c] = v
      BY <2>1
    <3>2. ~Pending(c)
      BY <3>1 DEF IInv, OwnedInv
    <3>3. QED
      BY <3>1, <3>2, StatusValues
  <2>8. QED
    BY <2>1, <2>4, <2>5, <2>6, <2>7 DEF Executor!Tell, Answers
<1>5. ASSUME NEW c \in Calls, NewCall(c) PROVE Executor!Renew(c)
  <2>1. /\ phase[c] = "returned" /\ ~Pending(c)
        /\ phase' = [phase EXCEPT ![c] = "calling"]
        /\ result' = [result EXCEPT ![c] = "none"]
        /\ outcome' = [outcome EXCEPT ![c] = "none"]
        /\ UNCHANGED <<queue, worker, job>>
    BY <1>5 DEF NewCall, laneVars
  <2>2. \A d \in Calls : Pending(d)' <=> Pending(d)
    BY <2>1, PendingUnchanged
  <2>3. Status(c) \in {"settled", "refused"}
    BY <2>1, StatusValues DEF IInv, TypeOK, Answers
  <2>4. Status(c)' = "asked"
    <3>1. /\ phase'[c] = "calling" /\ result'[c] = "none"
          /\ ~Pending(c)' /\ ~(worker = "running" /\ job = c)'
      BY <2>1, <2>2 DEF IInv, TypeOK, Pending
    <3>2. QED
      BY <3>1 DEF Status
  <2>5. \A d \in Calls : d # c => Status(d)' = Status(d)
    BY <2>1, <2>2, StatusUnchanged DEF IInv, TypeOK
  <2>6. outcome[c] # "none"
    BY <2>1 DEF IInv, ToldInv
  <2>7. QED
    BY <2>1, <2>3, <2>4, <2>5, <2>6 DEF Executor!Renew
<1>6. ASSUME NEW l \in Lanes, Take(l), worker = "seeking", UNCHANGED callVars
      PROVE  UNCHANGED Executor!vars
  <2>1. job = NoCall
    BY <1>6 DEF IInv, OwnedInv
  <2>2. \A d \in Calls : Pending(d)' <=> Pending(d)
    BY <1>6, <2>1, TakePlaces DEF IInv
  <2>3. QED
    BY <1>0, <1>6, <2>2 DEF Status, Take, callVars
<1>7. CASE SkipEnded
  <2>1. /\ worker = "checking" /\ ended[job]
        /\ UNCHANGED <<queue, phase, outcome>>
        /\ job' = NoCall /\ worker' = "seeking"
        /\ result' = [result EXCEPT ![job] = "ctx"]
    BY <1>7 DEF SkipEnded, Reply, laneVars
  <2>2. /\ job \in Calls
        /\ \A d \in Calls : Pending(d)' <=> Pending(d) /\ d # job
    BY <2>1, ReplyPlaces DEF IInv
  <2>3. Status(job) = "accepted"
    BY <2>1 DEF Status, Pending
  <2>4. \A d \in Calls : d # job => Status(d)' = Status(d)
    BY <2>1, <2>2, StatusUnchanged DEF IInv, TypeOK
  <2>5. [c \in Calls |-> Status(c)]' = [StatusMap EXCEPT ![job] = "refused"]
    <3>1. \A c \in Calls : c = job => Status(c)' = "refused"
      BY <2>1, <2>2 DEF Status, IInv, TypeOK
    <3>2. QED
      BY <2>2, <2>4, <3>1 DEF StatusMap
  <2>6. QED
    BY <2>1, <2>2, <2>3, <2>5 DEF Executor!Next, Executor!Withdraw, StatusMap
<1>8. CASE Start
  <2>1. /\ worker = "checking" /\ ~ended[job] /\ worker' = "running"
        /\ UNCHANGED <<queue, job, phase, result, outcome>>
    BY <1>8 DEF Start, laneVars, callVars
  <2>2. job \in Calls /\ Pending(job)
    BY <2>1 DEF IInv, TypeOK, OwnedInv, Pending
  <2>3. \A d \in Calls : Pending(d)' <=> Pending(d)
    BY <2>1, PendingUnchanged
  <2>4. Status(job) = "accepted"
    BY <2>1, <2>2 DEF Status
  <2>5. \A d \in Calls : Status(d) # "active"
    BY <2>1 DEF Status
  <2>6. [c \in Calls |-> Status(c)]' = [StatusMap EXCEPT ![job] = "active"]
    BY <2>1, <2>2, <2>3 DEF Status, StatusMap
  <2>7. outcome[job] = "none"
    <3>1. result[job] = "none" /\ (phase[job] = "returned" => ended[job])
      BY <2>2 DEF IInv, OwnedInv
    <3>2. QED
      BY <2>1, <2>2, <3>1 DEF IInv, ToldInv, TypeOK
  <2>8. QED
    BY <2>1, <2>2, <2>4, <2>5, <2>6, <2>7
    DEF Executor!Next, Executor!Begin, StatusMap
<1>9. CASE Finish
  <2>1. PICK a \in {"ok", "err"} : Reply(a)
    BY <1>9 DEF Finish
  <2>2. /\ worker = "running"
        /\ UNCHANGED <<queue, phase, outcome>>
        /\ job' = NoCall /\ worker' = "seeking"
        /\ result' = [result EXCEPT ![job] = a]
    BY <1>9, <2>1 DEF Finish, Reply, laneVars
  <2>3. /\ job \in Calls
        /\ \A d \in Calls : Pending(d)' <=> Pending(d) /\ d # job
    BY <2>2, ReplyPlaces DEF IInv
  <2>4. Status(job) = "active"
    BY <2>2 DEF Status, Pending
  <2>5. \A d \in Calls : d # job => Status(d)' = Status(d)
    BY <2>2, <2>3, StatusUnchanged DEF IInv, TypeOK
  <2>6. [c \in Calls |-> Status(c)]' = [StatusMap EXCEPT ![job] = "settled"]
    <3>1. \A c \in Calls : c = job => Status(c)' = "settled"
      BY <2>2, <2>3 DEF Status, IInv, TypeOK
    <3>2. QED
      BY <2>3, <2>5, <3>1 DEF StatusMap
  <2>7. QED
    BY <2>2, <2>3, <2>4, <2>6 DEF Executor!Next, Executor!Settle, StatusMap
<1>10. CASE ProbeHit
  <2>1. Order[turn] \in Lanes
    BY OrderAssumption DEF IInv, TypeOK
  <2>2. QED
    BY <1>6, <1>10, <2>1 DEF ProbeHit
<1>11. CASE ProbeMiss
  BY <1>0, <1>11, PendingUnchanged DEF ProbeMiss, callVars, Status
<1>12. CASE BlockingReceive
  BY <1>6, <1>12 DEF BlockingReceive
<1>13. CASE UNCHANGED vars
  BY <1>0, <1>13, PendingUnchanged DEF vars, Status
<1>14. QED
  BY <1>1, <1>2, <1>3, <1>4, <1>5, <1>7, <1>8, <1>9, <1>10, <1>11, <1>12, <1>13
  DEF Next, WorkerStep, CallerStep, Executor!Next

(* The pipeline executes the functions of its callers one at a time, each  *)
(* at most once per call and never after a refusal.                        *)
THEOREM Refinement == Spec => ImplementsExecutor
<1>1. Init => Executor!Init
  <2> SUFFICES ASSUME Init PROVE Executor!Init
    OBVIOUS
  <2>1. \A c \in Calls : ~Pending(c)
    <3> SUFFICES ASSUME NEW c \in Calls PROVE ~Pending(c)
      OBVIOUS
    <3>1. queue[LaneOf(c)] = <<>>
      BY LaneOfLanes DEF Init
    <3>2. QED
      BY <3>1 DEF Init, Pending, Queued
  <2>2. QED
    BY <2>1 DEF Init, Status, Executor!Init
<1>2. QED
  BY <1>1, StepRefines, Inductive, PTL DEF Spec, ImplementsExecutor, Executor!Spec
=============================================================================
