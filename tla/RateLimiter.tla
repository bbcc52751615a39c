----------------------------- MODULE RateLimiter -----------------------------
(***************************************************************************)
(* The per-IP request limiter of the API: pkg/api/ratelimiter.go.          *)
(*                                                                         *)
(* An API handler calls Acquire, which hands its request over the one      *)
(* unbuffered channel of the dispatcher (loop); the dispatcher passes it   *)
(* over the unbuffered channel of the worker of that IP (runIPWorker),     *)
(* which may sit out a cooldown before it puts the answer in the request's *)
(* one-place response channel.  A watcher goroutine per permit             *)
(* (waitForRelease) reports the release back to the worker.                *)
(*                                                                         *)
(* Time is kept as ages: age[r] is the time since the completion stamp of  *)
(* r, capped at Cooldown, where a stamp no longer counts.  A request is    *)
(* used again (Forget) once nothing in the limiter refers to it.           *)
(***************************************************************************)
EXTENDS Integers, Sequences, FiniteSets

CONSTANTS
    Requests,   \* calls of Acquire
    IPs,        \* client addresses
    IpOf,       \* IpOf[r]: the address r comes from
    Heavy,      \* the requests of kind RequestHeavy
    Burst,      \* heavyBurst
    Cooldown,   \* heavyCooldown, in ticks
    NoRequest   \* "no request in hand"

Assumption ==
    /\ NoRequest \notin Requests
    /\ Heavy \subseteq Requests
    /\ IpOf \in [Requests -> IPs]
    /\ {Burst, Cooldown} \subseteq Nat \ {0}

VARIABLES
    phase,      \* phase[r]: where the caller of Acquire stands
    ended,      \* ended[r]: the HTTP request's context is done
    reply,      \* reply[r]: content of the response channel
    dispatching,\* the request the dispatcher is handing to a worker
    wstate,     \* wstate[ip]: what the worker of ip is doing
    wreq,       \* wreq[ip]: the request it is doing it for
    activeHeavy,\* activeHeavy[ip]
    heavyHistory, \* heavyHistory[ip]: requests whose stamps are kept
    watcher,    \* watcher[r]: the waitForRelease goroutine of r's permit
    age,        \* age[r]: time since r's completion stamp
    crashed     \* the process died on an index out of range

callerVars == <<phase, ended>>
workerVars == <<wstate, wreq, activeHeavy, heavyHistory>>
vars == <<phase, ended, reply, dispatching, wstate, wreq, activeHeavy,
          heavyHistory, watcher, age, crashed>>

Waiting(r) == phase[r] \in {"sending", "answering"}
Fresh(r) == age[r] < Cooldown
-----------------------------------------------------------------------------
Init ==
    /\ phase = [r \in Requests |-> "idle"]
    /\ ended = [r \in Requests |-> FALSE]
    /\ reply = [r \in Requests |-> "none"]
    /\ dispatching = NoRequest
    /\ wstate = [ip \in IPs |-> "selecting"]
    /\ wreq = [ip \in IPs |-> NoRequest]
    /\ activeHeavy = [ip \in IPs |-> 0]
    /\ heavyHistory = [ip \in IPs |-> <<>>]
    /\ watcher = [r \in Requests |-> "none"]
    /\ age = [r \in Requests |-> Cooldown]
    /\ crashed = FALSE

(* A step of the process that does not kill it. *)
Alive == ~crashed /\ UNCHANGED crashed

(* --- Acquire and Release, in the handler's goroutine ------------------- *)

Move(r, p) ==
    /\ Alive
    /\ phase' = [phase EXCEPT ![r] = p]
    /\ UNCHANGED <<ended, reply, dispatching, workerVars, watcher, age>>

Arrive(r) == phase[r] = "idle" /\ Move(r, "sending")

Cancel(r) ==
    /\ Alive
    /\ Waiting(r) \/ phase[r] = "holding"
    /\ ~ended[r]
    /\ ended' = [ended EXCEPT ![r] = TRUE]
    /\ UNCHANGED <<phase, reply, dispatching, workerVars, watcher, age>>

(* Either select of Acquire may take the context's branch. *)
GiveUp(r) == Waiting(r) /\ ended[r] /\ Move(r, "gone")

TakePermit(r) == phase[r] = "answering" /\ reply[r] = "permit" /\ Move(r, "holding")
TakeRefusal(r) == phase[r] = "answering" /\ reply[r] = "refusal" /\ Move(r, "gone")

(* The handler's deferred permit.Release(). *)
Release(r) == phase[r] = "holding" /\ Move(r, "released")

(* --- loop: the dispatcher ---------------------------------------------- *)

Receive(r) ==
    /\ Alive
    /\ dispatching = NoRequest
    /\ phase[r] = "sending"
    /\ phase' = [phase EXCEPT ![r] = "answering"]
    /\ dispatching' = r
    /\ UNCHANGED <<ended, reply, workerVars, watcher, age>>

Dispatch(r) ==
    /\ Alive
    /\ dispatching = r
    /\ wstate[IpOf[r]] = "selecting"
    /\ dispatching' = NoRequest
    /\ wstate' = [wstate EXCEPT ![IpOf[r]] = "deciding"]
    /\ wreq' = [wreq EXCEPT ![IpOf[r]] = r]
    /\ UNCHANGED <<callerVars, reply, activeHeavy, heavyHistory, watcher, age>>

DispatchEnded(r) ==
    /\ Alive
    /\ dispatching = r
    /\ ended[r]
    /\ dispatching' = NoRequest
    /\ reply' = [reply EXCEPT ![r] = "refusal"]
    /\ UNCHANGED <<callerVars, workerVars, watcher, age>>

(* --- runIPWorker -------------------------------------------------------- *)

(* The stamps younger than the cooldown, in the order they arrived. *)
Trimmed(history) ==
    LET dst[n \in 0..Len(history)] ==
          IF n = 0 THEN <<>>
          ELSE IF Fresh(history[n]) THEN Append(dst[n - 1], history[n]) ELSE dst[n - 1]
    IN  dst[Len(history)]

Serving(ip, state) == wstate[ip] = state /\ wreq[ip] # NoRequest

(* Wherever the worker looks at the request's context it may find it done. *)
Refuse(ip) ==
    /\ Alive
    /\ wstate[ip] \in {"deciding", "cooling", "granting"}
    /\ ended[wreq[ip]]
    /\ reply' = [reply EXCEPT ![wreq[ip]] = "refusal"]
    /\ wstate' = [wstate EXCEPT ![ip] = "selecting"]
    /\ wreq' = [wreq EXCEPT ![ip] = NoRequest]
    /\ UNCHANGED <<callerVars, dispatching, activeHeavy, heavyHistory, watcher,
                   age>>

(* Faulty variant: one download more than the burst gets through. *)
AdmitOneMore(ip) ==
    /\ Alive
    /\ Serving(ip, "deciding") /\ ~ended[wreq[ip]]
    /\ wreq[ip] \in Heavy => activeHeavy[ip] + Len(Trimmed(heavyHistory[ip])) <= Burst
    /\ wstate' = [wstate EXCEPT ![ip] = "granting"]
    /\ UNCHANGED <<callerVars, reply, dispatching, wreq, activeHeavy, heavyHistory,
                   watcher, age>>

Admit(ip) ==
    /\ Alive
    /\ Serving(ip, "deciding") /\ ~ended[wreq[ip]]
    /\ LET kept == Trimmed(heavyHistory[ip]) IN
         \/ /\ wreq[ip] \notin Heavy
            /\ UNCHANGED heavyHistory
         \/ /\ wreq[ip] \in Heavy
            /\ activeHeavy[ip] + Len(kept) < Burst
            /\ heavyHistory' = [heavyHistory EXCEPT ![ip] = kept]
    /\ wstate' = [wstate EXCEPT ![ip] = "granting"]
    /\ UNCHANGED <<callerVars, reply, dispatching, wreq, activeHeavy, watcher,
                   age>>

(* The burst is used up: the worker sleeps until heavyHistory[0] expires.  *)
(* With the whole burst in flight the history is empty and the index fails.*)
Throttle(ip) ==
    /\ ~crashed
    /\ Serving(ip, "deciding") /\ ~ended[wreq[ip]]
    /\ wreq[ip] \in Heavy
    /\ LET kept == Trimmed(heavyHistory[ip]) IN
         /\ activeHeavy[ip] + Len(kept) >= Burst
         /\ heavyHistory' = [heavyHistory EXCEPT ![ip] = kept]
         /\ crashed' = (kept = <<>>)
    /\ wstate' = [wstate EXCEPT ![ip] = "cooling"]
    /\ UNCHANGED <<callerVars, reply, dispatching, wreq, activeHeavy, watcher,
                   age>>

CooldownOver(ip) ==
    /\ Alive
    /\ Serving(ip, "cooling")
    /\ ~Fresh(Head(heavyHistory[ip]))
    /\ wstate' = [wstate EXCEPT ![ip] = "granting"]
    /\ UNCHANGED <<callerVars, reply, dispatching, wreq, activeHeavy,
                   heavyHistory, watcher, age>>

(* Faulty variant: the worker itself waits for the release. *)
GrantAndDrain(ip) ==
    /\ Alive
    /\ Serving(ip, "granting")
    /\ reply' = [reply EXCEPT ![wreq[ip]] = "permit"]
    /\ wstate' = [wstate EXCEPT ![ip] = "draining"]
    /\ UNCHANGED <<callerVars, dispatching, wreq, activeHeavy, heavyHistory,
                   watcher, age>>

Grant(ip) ==
    /\ Alive
    /\ Serving(ip, "granting")
    /\ LET r == wreq[ip] IN
         /\ reply' = [reply EXCEPT ![r] = "permit"]
         /\ activeHeavy' = [activeHeavy EXCEPT ![ip] = @ + IF r \in Heavy THEN 1 ELSE 0]
         /\ watcher' = [watcher EXCEPT ![r] = "watching"]
    /\ wstate' = [wstate EXCEPT ![ip] = "selecting"]
    /\ wreq' = [wreq EXCEPT ![ip] = NoRequest]
    /\ UNCHANGED <<callerVars, dispatching, heavyHistory, age>>

(* The worker hears of a release; stale stamps are dropped on the way. *)
Notice(r) ==
    LET ip == IpOf[r] IN
    /\ Alive
    /\ watcher[r] = "noticing"
    /\ wstate[ip] = "selecting"
    /\ watcher' = [watcher EXCEPT ![r] = "none"]
    /\ IF r \in Heavy
       THEN /\ activeHeavy' = [activeHeavy EXCEPT ![ip] = IF @ > 0 THEN @ - 1 ELSE 0]
            /\ heavyHistory' = [heavyHistory EXCEPT ![ip] = Trimmed(Append(@, r))]
       ELSE UNCHANGED <<activeHeavy, heavyHistory>>
    /\ UNCHANGED <<callerVars, reply, dispatching, wstate, wreq, age>>

(* --- waitForRelease ----------------------------------------------------- *)

(* The watcher waits for the release even when the context is done first,  *)
(* then stamps the completion and offers it to the worker.                 *)
Stamp(r) ==
    /\ Alive
    /\ watcher[r] = "watching"
    /\ phase[r] = "released"
    /\ watcher' = [watcher EXCEPT ![r] = "noticing"]
    /\ age' = [age EXCEPT ![r] = 0]
    /\ UNCHANGED <<callerVars, reply, dispatching, workerVars>>

(* --- time and new requests ---------------------------------------------- *)

Tick ==
    /\ Alive
    /\ \E r \in Requests : Fresh(r)
    /\ age' = [r \in Requests |-> IF Fresh(r) THEN age[r] + 1 ELSE age[r]]
    /\ UNCHANGED <<callerVars, reply, dispatching, workerVars, watcher>>

Forget(r) ==
    /\ Alive
    /\ phase[r] \in {"gone", "released"}
    /\ dispatching # r /\ wreq[IpOf[r]] # r
    /\ watcher[r] = "none" /\ ~Fresh(r)
    /\ \A i \in DOMAIN heavyHistory[IpOf[r]] : heavyHistory[IpOf[r]][i] # r
    /\ phase' = [phase EXCEPT ![r] = "idle"]
    /\ ended' = [ended EXCEPT ![r] = FALSE]
    /\ reply' = [reply EXCEPT ![r] = "none"]
    /\ UNCHANGED <<dispatching, workerVars, watcher, age>>

HandlerStep(r) ==
    \/ Arrive(r) \/ Cancel(r) \/ GiveUp(r)
    \/ TakePermit(r) \/ TakeRefusal(r) \/ Release(r) \/ Forget(r)

WorkerStep(ip) ==
    \/ Refuse(ip) \/ Admit(ip) \/ Throttle(ip) \/ CooldownOver(ip) \/ Grant(ip)

Next ==
    \/ \E r \in Requests :
          \/ HandlerStep(r)
          \/ Receive(r) \/ Dispatch(r) \/ DispatchEnded(r)
          \/ Notice(r) \/ Stamp(r)
    \/ \E ip \in IPs : WorkerStep(ip)
    \/ Tick

Spec == Init /\ [][Next]_vars

(* Runnable goroutines run and time passes.  Go serves blocked senders of  *)
(* a channel in arrival order, hence strong fairness for each sender.      *)
Fairness ==
    /\ WF_vars(Tick)
    /\ \A ip \in IPs : WF_vars(WorkerStep(ip))
    /\ \A r \in Requests :
         /\ WF_vars(GiveUp(r) \/ TakePermit(r) \/ TakeRefusal(r))
         /\ SF_vars(Receive(r))
         /\ SF_vars(Dispatch(r))
-----------------------------------------------------------------------------
TypeOK ==
    /\ phase \in [Requests -> {"idle", "sending", "answering", "holding",
                               "released", "gone"}]
    /\ ended \in [Requests -> BOOLEAN]
    /\ reply \in [Requests -> {"none", "permit", "refusal"}]
    /\ dispatching \in Requests \cup {NoRequest}
    /\ wstate \in [IPs -> {"selecting", "deciding", "cooling", "granting"}]
    /\ wreq \in [IPs -> Requests \cup {NoRequest}]
    /\ activeHeavy \in [IPs -> Nat]
    /\ heavyHistory \in [IPs -> Seq(Requests)]
    /\ watcher \in [Requests -> {"none", "watching", "noticing"}]
    /\ age \in [Requests -> 0..Cooldown]
    /\ crashed \in BOOLEAN

(* Downloads of ip in progress: granted and not yet released. *)
InFlight(ip) == {r \in Heavy : /\ IpOf[r] = ip
                               /\ \/ phase[r] = "holding"
                                  \/ watcher[r] = "watching"}
(* Downloads of ip that completed less than a cooldown ago. *)
Recent(ip) == {r \in Heavy : IpOf[r] = ip /\ Fresh(r)}

(* What the limiter is for: over no cooldown period does one address have  *)
(* more than Burst heavy downloads in progress or just finished, although  *)
(* the count is not taken again after a cooldown and release notices reach *)
(* the worker late and out of order.                                       *)
BurstRespected ==
    \A ip \in IPs : Cardinality(InFlight(ip) \cup Recent(ip)) <= Burst

(* Every Acquire returns, with a permit or an error, as long as the        *)
(* process lives: a cooldown delays it, but never for good.                *)
EveryAcquireReturns ==
    \A r \in Requests : Waiting(r) ~> (~Waiting(r) \/ crashed)

(* "Count both in-flight heavy downloads and recently completed ones so    *)
(* only sustained floods trigger throttling": a burst that is all in       *)
(* flight is throttled, it does not end the process.                       *)
ThrottlingSurvives == ~crashed
=============================================================================
