---------------------------- MODULE VisitorSessions ----------------------------
(***************************************************************************)
(* Visitor identities: pkg/analytics/service.go, with the session table of *)
(* pkg/database/analytics.go.  HTTP handlers (ensureSession, RecordEvent)  *)
(* talk over channels to one goroutine (run) that owns the visitor counter *)
(* and a short-lived map from browser fingerprints to sessions, and writes *)
(* sessions and events to the database.                                    *)
(*                                                                         *)
(* An identity is a session with its visitor number; the display name      *)
(* carries the number.  A row of the table that is found by fingerprint is *)
(* any row with it (last_seen_at has seconds).                             *)
(***************************************************************************)
EXTENDS Integers, Sequences, FiniteSetsExt

CONSTANTS
    Browsers,
    FingerprintOf,  \* FingerprintOf[b]: the hash of the headers b sends
    Requests,
    BrowserOf,      \* BrowserOf[r]: who sends request r
    Capacity,       \* of the channel messages: 256 in the source
    Fallback,       \* the number of a visitor for whom none was drawn
    Impatient,      \* the requests whose client may close the connection
    MaxVisits,      \* bound: requests that ever arrive
    MaxCrashes      \* bound: restarts of the process

Assumption ==
    /\ IsFiniteSet(Browsers) /\ IsFiniteSet(Requests)
    /\ BrowserOf \in [Requests -> Browsers]
    /\ {Capacity, Fallback, MaxVisits} \subseteq Nat \ {0} /\ MaxCrashes \in Nat

VARIABLES
    cookie,     \* cookie[b]: the identity in b's cookies
    at,         \* at[r]: where the handler of r stands
    who,        \* who[r]: the identity it has found or made
    gone,       \* gone[r]: the client has closed the connection
    lookups,    \* the channel fingerprints
    numbers,    \* the channel numbers
    messages,   \* the channel messages
    writing,    \* the message the goroutine is writing, <<>> when it selects
    cache,      \* fingerprintCache
    counter,    \* visitorCounter, -1 until the seed is loaded
    rows,       \* analytics_sessions: [fp, id, number]
    events,     \* sessions named by rows of analytics_events
    lost,       \* history: sessions with a dropped or failed message
    drawn,      \* history: [process, number, id] of every number drawn
    ids,        \* how many session identifiers have been made
    visits,     \* requests so far
    crashes

handlerVars == <<at, who, gone>>
tableVars == <<rows, events>>
vars == <<cookie, at, who, gone, lookups, numbers, messages, writing, cache, counter,
          rows, events, lost, drawn, ids, visits, crashes>>

NoOne == [id |-> 0, number |-> 0]
Fingerprints == {FingerprintOf[b] : b \in Browsers}
Fp(r) == FingerprintOf[BrowserOf[r]]

Active(r) == at[r] \notin {"idle", "done"}
Selecting == writing = <<>>

(* loadVisitorSeed: the larger of the highest number and the row count. *)
Seed == Max({row.number : row \in rows} \cup {Cardinality(rows)})

(* The handler of r goes on to place, as the visitor i. *)
Go(r, place, i) ==
    /\ at' = [at EXCEPT ![r] = place]
    /\ who' = [who EXCEPT ![r] = i]

Unheard == UNCHANGED <<cookie, gone, writing, cache, counter, tableVars, lost, visits, crashes>>
-----------------------------------------------------------------------------
Init ==
    /\ cookie = [b \in Browsers |-> NoOne]
    /\ at = [r \in Requests |-> "idle"]
    /\ who = [r \in Requests |-> NoOne]
    /\ gone = [r \in Requests |-> FALSE]
    /\ lookups = <<>> /\ numbers = <<>> /\ messages = <<>> /\ writing = <<>>
    /\ cache = [f \in Fingerprints |-> NoOne]
    /\ counter = -1
    /\ rows = {} /\ events = {}
    /\ lost = {} /\ drawn = {}
    /\ ids = 0 /\ visits = 0 /\ crashes = 0

(* --- the handler ----------------------------------------------------------- *)

(* A request arrives; without cookies the fingerprint is looked up.  A     *)
(* cookie may be deleted by its owner.                                     *)
Begin(r) ==
    /\ ~Active(r)
    /\ visits < MaxVisits /\ visits' = visits + 1
    /\ gone' = [gone EXCEPT ![r] = FALSE]
    /\ \/ /\ cookie[BrowserOf[r]] # NoOne
          /\ Go(r, "known", cookie[BrowserOf[r]])
          /\ UNCHANGED lookups
       \/ /\ Go(r, "looking", NoOne)
          /\ lookups' = Append(lookups, [kind |-> "lookup", for |-> r, i |-> NoOne])
    /\ UNCHANGED <<cookie, numbers, messages, writing, cache, counter, tableVars, lost,
                   drawn, ids, crashes>>

(* resolveSessionByFingerprint finds the visitor. *)
Resolve(r) ==
    /\ at[r] = "resolving" /\ ~gone[r]
    /\ \E row \in {row \in rows : row.fp = Fp(r)} :
          Go(r, "known", [id |-> row.id, number |-> row.number])
    /\ UNCHANGED <<lookups, numbers, messages, drawn, ids>> /\ Unheard

(* The table does not know the fingerprint, or the query fails: a new      *)
(* session, and a number is asked for.                                     *)
Create(r) ==
    /\ at[r] = "resolving"
    /\ ids' = ids + 1
    /\ Go(r, "numbering", [id |-> ids + 1, number |-> 0])
    /\ numbers' = Append(numbers, r)
    /\ UNCHANGED <<lookups, messages, drawn>> /\ Unheard

(* storeFingerprint *)
Remember(r) ==
    /\ at[r] = "known"
    /\ lookups' = Append(lookups, [kind |-> "store", for |-> r, i |-> who[r]])
    /\ Go(r, "storing", who[r])
    /\ UNCHANGED <<numbers, messages, drawn, ids>> /\ Unheard

(* The request's context is done: each wait is given up in its turn. *)
GiveUp(r) ==
    /\ gone[r]
    /\ \/ at[r] = "looking" /\ Go(r, "resolving", NoOne)
       \/ at[r] = "numbering" /\ Go(r, "known", [who[r] EXCEPT !.number = Fallback])
       \/ at[r] \in {"known", "storing"} /\ Go(r, "sending", who[r])
    /\ UNCHANGED <<lookups, numbers, messages, drawn, ids>> /\ Unheard

(* A message is enqueued unless the channel is full. *)
Post(r, kind) ==
    LET m == [kind |-> kind, id |-> who[r].id, number |-> who[r].number, fp |-> Fp(r)] IN
    IF Len(messages) < Capacity
    THEN messages' = Append(messages, m) /\ UNCHANGED lost
    ELSE lost' = (IF kind = "session" THEN lost \cup {who[r].id} ELSE lost) /\ UNCHANGED messages

(* enqueueSession *)
Send(r) ==
    /\ at[r] = "sending"
    /\ Post(r, "session")
    /\ Go(r, "recording", who[r])
    /\ UNCHANGED <<cookie, gone, lookups, numbers, writing, cache, counter, tableVars, drawn,
                   ids, visits, crashes>>

(* RecordEvent, and the response with the cookies. *)
Respond(r) ==
    /\ at[r] = "recording"
    /\ Post(r, "event")
    /\ Go(r, "done", NoOne)
    /\ cookie' = IF gone[r] THEN cookie ELSE [cookie EXCEPT ![BrowserOf[r]] = who[r]]
    /\ UNCHANGED <<gone, lookups, numbers, writing, cache, counter, tableVars, drawn, ids,
                   visits, crashes>>

Disconnect(r) ==
    /\ r \in Impatient /\ Active(r) /\ ~gone[r]
    /\ gone' = [gone EXCEPT ![r] = TRUE]
    /\ UNCHANGED <<cookie, at, who, lookups, numbers, messages, writing, cache, counter,
                   tableVars, lost, drawn, ids, visits, crashes>>

(* --- run ---------------------------------------------------------------------- *)

Served == UNCHANGED <<cookie, gone, messages, writing, tableVars, lost, ids, visits, crashes>>

(* Faulty variant: a hit returns the session without its name. *)
ServeLookupNameless ==
    /\ Selecting /\ lookups # <<>> /\ Head(lookups).kind = "lookup"
    /\ LET r == Head(lookups).for
           hit == cache[Fp(r)] IN
          IF at[r] # "looking" THEN UNCHANGED <<at, who, numbers>>
          ELSE IF hit = NoOne THEN Go(r, "resolving", NoOne) /\ UNCHANGED numbers
          ELSE Go(r, "numbering", [hit EXCEPT !.number = 0]) /\ numbers' = Append(numbers, r)
    /\ lookups' = Tail(lookups)
    /\ UNCHANGED <<cache, counter, drawn>> /\ Served

(* Faulty variant: a miss is not answered. *)
ServeLookupSilent ==
    /\ Selecting /\ lookups # <<>> /\ Head(lookups).kind = "lookup"
    /\ LET r == Head(lookups).for IN
          IF at[r] = "looking" /\ cache[Fp(r)] # NoOne THEN Go(r, "known", cache[Fp(r)])
                                                      ELSE UNCHANGED <<at, who>>
    /\ lookups' = Tail(lookups)
    /\ UNCHANGED <<numbers, cache, counter, drawn>> /\ Served

ServeLookup ==
    /\ Selecting /\ lookups # <<>> /\ Head(lookups).kind = "lookup"
    /\ LET r == Head(lookups).for
           hit == cache[Fp(r)] IN
          IF at[r] # "looking" THEN UNCHANGED <<at, who>>
          ELSE Go(r, IF hit = NoOne THEN "resolving" ELSE "known", hit)
    /\ lookups' = Tail(lookups)
    /\ UNCHANGED <<numbers, cache, counter, drawn>> /\ Served

ServeStore ==
    /\ Selecting /\ lookups # <<>> /\ Head(lookups).kind = "store"
    /\ LET r == Head(lookups).for IN
          /\ cache' = [cache EXCEPT ![Fp(r)] = Head(lookups).i]
          /\ IF at[r] = "storing" /\ who[r] = Head(lookups).i
             THEN Go(r, "sending", who[r]) ELSE UNCHANGED <<at, who>>
    /\ lookups' = Tail(lookups)
    /\ UNCHANGED <<numbers, counter, drawn>> /\ Served

(* handleNumberRequest: the seed is loaded before the first number; when   *)
(* that fails the counter starts at zero.                                  *)
ServeNumber ==
    /\ Selecting /\ numbers # <<>>
    /\ \E base \in IF counter = -1 THEN {0, Seed} ELSE {counter} :
       LET r == Head(numbers) IN
          /\ counter' = base + 1
          /\ IF at[r] = "numbering"
             THEN /\ Go(r, "known", [who[r] EXCEPT !.number = base + 1])
                  /\ drawn' = drawn \cup {[process |-> crashes, number |-> base + 1,
                                           id |-> who[r].id]}
             ELSE UNCHANGED <<at, who, drawn>>
    /\ numbers' = Tail(numbers)
    /\ UNCHANGED <<lookups, cache>> /\ Served

TakeMessage ==
    /\ Selecting /\ messages # <<>>
    /\ writing' = <<Head(messages)>>
    /\ messages' = Tail(messages)
    /\ UNCHANGED <<cookie, handlerVars, lookups, numbers, cache, counter, tableVars, lost,
                   drawn, ids, visits, crashes>>

(* UpsertAnalyticsSession, InsertAnalyticsEvent; either may fail. *)
Write ==
    /\ writing # <<>>
    /\ LET m == writing[1]
           row == [fp |-> m.fp, id |-> m.id, number |-> m.number] IN
       \/ /\ m.kind = "session"
          /\ rows' = {q \in rows : q.id # m.id} \cup {row}
          /\ UNCHANGED <<events, lost>>
       \/ /\ m.kind = "event"
          /\ events' = events \cup {m.id}
          /\ UNCHANGED <<rows, lost>>
       \/ /\ lost' = IF m.kind = "session" THEN lost \cup {m.id} ELSE lost
          /\ UNCHANGED <<rows, events>>
    /\ writing' = <<>>
    /\ UNCHANGED <<cookie, handlerVars, lookups, numbers, messages, cache, counter, drawn,
                   ids, visits, crashes>>

(* An entry outlives its ten seconds. *)
Expire(f) ==
    /\ cache[f] # NoOne
    /\ cache' = [cache EXCEPT ![f] = NoOne]
    /\ UNCHANGED <<cookie, handlerVars, lookups, numbers, messages, writing, counter,
                   tableVars, lost, drawn, ids, visits, crashes>>

(* The process dies: channels, cache and counter are gone, and with them   *)
(* the messages of every session that was not written.                     *)
Crash ==
    /\ crashes < MaxCrashes
    /\ crashes' = crashes + 1
    /\ at' = [r \in Requests |-> "idle"] /\ who' = [r \in Requests |-> NoOne]
    /\ gone' = [r \in Requests |-> FALSE]
    /\ lookups' = <<>> /\ numbers' = <<>> /\ messages' = <<>> /\ writing' = <<>>
    /\ cache' = [f \in Fingerprints |-> NoOne] /\ counter' = -1
    /\ lost' = 1..ids
    /\ UNCHANGED <<cookie, tableVars, drawn, ids, visits>>

Handle(r) ==
    Resolve(r) \/ Create(r) \/ Remember(r) \/ GiveUp(r) \/ Send(r) \/ Respond(r)

Next ==
    \/ \E r \in Requests : Begin(r) \/ Handle(r) \/ Disconnect(r)
    \/ ServeLookup \/ ServeStore \/ ServeNumber \/ TakeMessage \/ Write
    \/ \E f \in Fingerprints : Expire(f)
    \/ Crash

Spec == Init /\ [][Next]_vars

(* Handlers and the goroutine run on; its select picks among the ready     *)
(* channels at random, so each of them is served again and again.          *)
Fairness ==
    /\ \A r \in Requests : WF_vars(Handle(r))
    /\ SF_vars(ServeLookup \/ ServeStore) /\ SF_vars(ServeNumber) /\ SF_vars(TakeMessage)
    /\ WF_vars(Write)
-----------------------------------------------------------------------------
Identities == [id : 0..MaxVisits, number : 0..(Fallback + MaxVisits)]

TypeOK ==
    /\ cookie \in [Browsers -> Identities]
    /\ at \in [Requests -> {"idle", "looking", "resolving", "numbering", "known", "storing",
                            "sending", "recording", "done"}]
    /\ who \in [Requests -> Identities]
    /\ gone \in [Requests -> BOOLEAN]
    /\ lookups \in Seq([kind : {"lookup", "store"}, for : Requests, i : Identities])
    /\ numbers \in Seq(Requests)
    /\ Len(messages) <= Capacity /\ Len(writing) <= 1
    /\ cache \in [Fingerprints -> Identities]
    /\ counter \in -1..(Fallback + MaxVisits)
    /\ rows \subseteq [fp : Fingerprints, id : 1..MaxVisits,
                       number : 1..(Fallback + MaxVisits)]
    /\ events \subseteq 1..ids /\ lost \subseteq 1..ids
    /\ ids \in 0..visits /\ visits \in 0..MaxVisits /\ crashes \in 0..MaxCrashes

(* What is known of a session agrees: it has one number in cookies, cache, *)
(* table, messages under way and handlers; and a session named by an event *)
(* in the table is there too, unless its own message was dropped by a full *)
(* queue, could not be written, or was lost in a crash.                    *)
SessionsAgree ==
    LET known == {cookie[b] : b \in Browsers} \cup {cache[f] : f \in Fingerprints}
                 \cup {who[r] : r \in {q \in Requests : at[q] # "numbering"}}
                 \cup {[id |-> row.id, number |-> row.number] : row \in rows}
                 \cup {[id |-> messages[i].id, number |-> messages[i].number] :
                          i \in 1..Len(messages)}
    IN  /\ \A x, y \in known : x.id = y.id => x.number = y.number
        /\ \A s \in events : s \in lost \/ \E row \in rows : row.id = s

(* Every request gets past the analytics, whatever the goroutine is busy   *)
(* with and whether the client is still there.                             *)
EveryRequestPasses == \A r \in Requests : Active(r) ~> ~Active(r)
=============================================================================
