---------------------------- MODULE ResponseCache ----------------------------
(***************************************************************************)
(* The cache of API answers: the goroutine of pkg/api/cache.go and the     *)
(* handlers that ask it (cachedJSONWithTTL of pkg/api/handlers.go).  The   *)
(* goroutine runs the loader itself, with the context of the request that  *)
(* missed, so one slow query holds up every key.                           *)
(*                                                                         *)
(* A response is the time at which the database was read for it; the clock *)
(* stops at MaxTime.  Nothing in the program closes the cache.             *)
(***************************************************************************)
EXTENDS Integers

CONSTANTS
    Callers,    \* handlers
    Keys,
    TTL,        \* TTL[k]: how long an answer may be served
    MaxTime     \* bound on the clock

ASSUME TTLAssumption == \A k \in Keys : TTL[k] \in Nat \ {0}
ASSUME TimeAssumption == MaxTime \in Nat

VARIABLES
    now,
    store,      \* the entries
    load,       \* the loader under way
    phase,      \* phase[c]: where the handler is in GetWithTTL
    key,        \* key[c]: what it asked for
    reply,      \* reply[c]: its reply channel, which holds one response
    sent,       \* history: when the current request was made
    loaded      \* history: the start of the last load of k that succeeded

callVars == <<phase, key, sent>>
vars == <<now, store, load, callVars, reply, loaded>>

Times == 0..MaxTime
Never == -1         \* no such time
Failure == -2       \* the answer of a loader that failed
NoEntry == [data |-> Never, expires |-> Never]

Nothing == Never
-----------------------------------------------------------------------------
Init ==
    /\ now = 0
    /\ store = [k \in Keys |-> NoEntry]
    /\ load = [at |-> "idle"]
    /\ phase = [c \in Callers |-> "idle"]
    /\ key \in [Callers -> Keys]
    /\ reply = [c \in Callers |-> Nothing]
    /\ sent = [c \in Callers |-> 0]
    /\ loaded = [k \in Keys |-> Never]

Tick ==
    /\ now < MaxTime
    /\ now' = now + 1
    /\ UNCHANGED <<store, load, callVars, reply, loaded>>

(* GetWithTTL up to its first select. *)
Ask(c) ==
    /\ phase[c] = "idle"
    /\ phase' = [phase EXCEPT ![c] = "asking"]
    /\ \E k \in Keys : key' = [key EXCEPT ![c] = k]
    /\ reply' = [reply EXCEPT ![c] = Nothing]
    /\ sent' = [sent EXCEPT ![c] = now]
    /\ UNCHANGED <<now, store, load, loaded>>

Fresh(k) == now < store[k].expires

Taken(c) ==
    /\ load.at = "idle"
    /\ phase[c] = "asking"
    /\ phase' = [phase EXCEPT ![c] = "waiting"]

Hit(c) ==
    /\ Taken(c) /\ Fresh(key[c])
    /\ reply' = [reply EXCEPT ![c] = store[key[c]].data]
    /\ UNCHANGED <<now, store, load, key, sent, loaded>>

Miss(c) ==
    /\ Taken(c) /\ ~Fresh(key[c])
    /\ load' = [at |-> "loading", for |-> c, key |-> key[c], stamp |-> now, read |-> Never]
    /\ UNCHANGED <<now, store, key, reply, sent, loaded>>

(* The moment the loader's query sees the database. *)
Read ==
    /\ load.at = "loading" /\ load.read = Never
    /\ load' = [load EXCEPT !.read = now]
    /\ UNCHANGED <<now, store, callVars, reply, loaded>>

(* Faulty variant: the lifetime starts when the entry is stored. *)
EntryStampedLate == [data |-> load.read, expires |-> now + TTL[load.key]]

(* What the loop stores; its lifetime starts when the request was taken. *)
Entry == [data |-> load.read, expires |-> load.stamp + TTL[load.key]]

(* The reply channel has room; whether the caller is still there does not  *)
(* matter.                                                                 *)
Answer(response) ==
    /\ reply' = [reply EXCEPT ![load.for] = response]
    /\ load' = [at |-> "idle"]

(* Faulty variant: an answer is kept only if its caller is still there. *)
LoadedForCaller ==
    /\ load.at = "loading" /\ load.read # Never
    /\ store' = IF phase[load.for] = "waiting"
                THEN [store EXCEPT ![load.key] = Entry] ELSE store
    /\ loaded' = [loaded EXCEPT ![load.key] = load.stamp]
    /\ Answer(load.read)
    /\ UNCHANGED <<now, callVars>>

Loaded ==
    /\ load.at = "loading" /\ load.read # Never
    /\ store' = [store EXCEPT ![load.key] = Entry]
    /\ loaded' = [loaded EXCEPT ![load.key] = load.stamp]
    /\ Answer(load.read)
    /\ UNCHANGED <<now, callVars>>

(* The query fails or the context of the one who missed is done. *)
LoadFails ==
    /\ load.at = "loading"
    /\ store' = [store EXCEPT ![load.key] = NoEntry]
    /\ Answer(Failure)
    /\ UNCHANGED <<now, callVars, loaded>>

Receive(c) ==
    /\ phase[c] = "waiting" /\ reply[c] # Nothing
    /\ phase' = [phase EXCEPT ![c] = "idle"]
    /\ UNCHANGED <<now, store, load, key, reply, sent, loaded>>

(* The client goes away; an answer that is still to come goes into a       *)
(* channel nobody reads.                                                   *)
Leave(c) ==
    /\ phase[c] \in {"asking", "waiting"}
    /\ phase' = [phase EXCEPT ![c] = "left"]
    /\ UNCHANGED <<now, store, load, key, reply, sent, loaded>>

Next ==
    \/ Tick \/ Read \/ Loaded \/ LoadFails
    \/ \E c \in Callers : Ask(c) \/ Hit(c) \/ Miss(c) \/ Receive(c) \/ Leave(c)

Spec == Init /\ [][Next]_vars
-----------------------------------------------------------------------------
TypeOK ==
    /\ now \in Times
    /\ store \in [Keys -> [data : Times, expires : Nat] \cup {NoEntry}]
    /\ \/ load = [at |-> "idle"]
       \/ load \in [at : {"loading"}, for : Callers, key : Keys, stamp : Times,
                    read : Times \cup {Never}]
    /\ phase \in [Callers -> {"idle", "asking", "waiting", "left"}]
    /\ key \in [Callers -> Keys]
    /\ reply \in [Callers -> Times \cup {Nothing, Failure}]
    /\ sent \in [Callers -> Times]
    /\ loaded \in [Keys -> Times \cup {Never}]

(* However long loads and queues take, no answer shows the database as it  *)
(* was a whole lifetime or more before the request was made.               *)
BoundedStaleness ==
    \A c \in Callers : reply[c] \in Times => reply[c] + TTL[key[c]] > sent[c]

(* Requests for a key load it at most once in a lifetime, even when the    *)
(* one it was loaded for has left and when other keys fail.                *)
OneLoadPerLifetime ==
    load.at = "loading" /\ loaded[load.key] # Never
        => load.stamp >= loaded[load.key] + TTL[load.key]
=============================================================================
