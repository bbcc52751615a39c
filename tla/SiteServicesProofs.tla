-------------------------- MODULE SiteServicesProofs --------------------------
(***************************************************************************)
(* Proofs about the services behind the handlers, for any handlers, keys   *)
(* and lifetimes, however far the clock runs, and any users, codes, URLs,  *)
(* callers and tracks: no answer is staler than a lifetime and no key is   *)
(* loaded twice in one, the short links agree, the track numbers neither   *)
(* fall asleep nor get worse, and what is known of a visitor agrees.       *)
(***************************************************************************)
EXTENDS SiteServices, FiniteSetTheorems, SequenceTheorems, TLAPS

(* --- the response cache ----------------------------------------------------- *)

(* An entry expires at most a lifetime after its data was read. *)
EntriesHonest ==
    \A k \in Keys : store[k] # NoEntry => store[k].expires <= store[k].data + TTL[k]

(* The load belongs to a request that is still unanswered, for its key, and *)
(* reads after it was begun.                                               *)
LoadOwned ==
    load.at = "loading" =>
        /\ key[load.for] = load.key
        /\ phase[load.for] \in {"waiting", "left"}
        /\ reply[load.for] = Nothing
        /\ sent[load.for] <= load.stamp /\ load.stamp <= now
        /\ load.read # Never => load.stamp <= load.read

AskedOnce ==
    \A c \in Callers : sent[c] <= now /\ (phase[c] = "asking" => reply[c] = Nothing)

(* The entry of the last load is served until a new load may begin. *)
EntryLasts ==
    \A k \in Keys : loaded[k] # Never =>
        loaded[k] + TTL[k] <= now \/ store[k].expires = loaded[k] + TTL[k]

CacheInv ==
    /\ TypeOK /\ EntriesHonest /\ LoadOwned /\ AskedOnce /\ EntryLasts
    /\ BoundedStaleness /\ OneLoadPerLifetime

LEMMA CacheConstants ==
    /\ MaxTime \in Nat /\ \A k \in Keys : TTL[k] \in Nat /\ TTL[k] > 0
    /\ Never \notin Times /\ Failure \notin Times /\ Never # Failure
    /\ Times \subseteq Nat /\ Never \in Int /\ Failure \in Int
BY TTLAssumption, TimeAssumption DEF Times, Never, Failure

LEMMA CacheStart == ASSUME Init PROVE CacheInv
BY CacheConstants DEF Init, CacheInv, TypeOK, EntriesHonest, LoadOwned, AskedOnce, EntryLasts,
   BoundedStaleness, OneLoadPerLifetime, Times, Nothing

LEMMA TickKeeps == ASSUME CacheInv, Tick PROVE CacheInv'
BY CacheConstants DEF Tick, callVars, CacheInv, TypeOK, EntriesHonest, LoadOwned, AskedOnce, EntryLasts,
   BoundedStaleness, OneLoadPerLifetime, Times, Nothing

LEMMA AskKeeps == ASSUME CacheInv, NEW c \in Callers, Ask(c) PROVE CacheInv'
BY CacheConstants DEF Ask, CacheInv, TypeOK, EntriesHonest, LoadOwned, AskedOnce, EntryLasts,
   BoundedStaleness, OneLoadPerLifetime, Times, Nothing

LEMMA HitKeeps == ASSUME CacheInv, NEW c \in Callers, Hit(c) PROVE CacheInv'
BY CacheConstants DEF Hit, Taken, Fresh, CacheInv, TypeOK, EntriesHonest, LoadOwned, AskedOnce, EntryLasts,
   BoundedStaleness, OneLoadPerLifetime, Times, Nothing, NoEntry

LEMMA MissKeeps == ASSUME CacheInv, NEW c \in Callers, Miss(c) PROVE CacheInv'
BY CacheConstants DEF Miss, Taken, Fresh, CacheInv, TypeOK, EntriesHonest, LoadOwned, AskedOnce, EntryLasts,
   BoundedStaleness, OneLoadPerLifetime, Times, Nothing

LEMMA ReadKeeps == ASSUME CacheInv, Read PROVE CacheInv'
BY CacheConstants DEF Read, callVars, CacheInv, TypeOK, EntriesHonest, LoadOwned, AskedOnce, EntryLasts,
   BoundedStaleness, OneLoadPerLifetime, Times, Nothing

LEMMA LoadedKeeps == ASSUME CacheInv, Loaded PROVE CacheInv'
<1> DEFINE k == load.key
           c == load.for
<1>1. /\ k \in Keys /\ c \in Callers /\ load.stamp \in Times /\ load.read \in Times
      /\ key[c] = k /\ sent[c] <= load.stamp /\ load.stamp <= load.read /\ load.stamp <= now
  BY DEF Loaded, CacheInv, TypeOK, LoadOwned
<1>2. /\ store' = [store EXCEPT ![k] = Entry]
      /\ loaded' = [loaded EXCEPT ![k] = load.stamp]
      /\ reply' = [reply EXCEPT ![c] = load.read]
      /\ load' = [at |-> "idle"] /\ UNCHANGED <<now, phase, key, sent>>
  BY DEF Loaded, Answer, callVars
<1> HIDE DEF k, c
<1>3. TypeOK'
  <2>1. Entry \in [data : Times, expires : Nat]
    <3>1. load.stamp + TTL[k] \in Nat
      BY <1>1, CacheConstants DEF Times
    <3> QED BY <1>1, <3>1 DEF Entry, k
  <2> QED BY <1>1, <1>2, <2>1 DEF CacheInv, TypeOK
<1>4. EntriesHonest' /\ EntryLasts'
  <2>1. /\ Entry.data = load.read /\ Entry.expires = load.stamp + TTL[k]
        /\ Entry.expires <= Entry.data + TTL[k]
    BY <1>1, CacheConstants DEF Entry, k, Times
  <2>2. store'[k] = Entry /\ loaded'[k] = load.stamp
        /\ \A j \in Keys \ {k} : store'[j] = store[j] /\ loaded'[j] = loaded[j]
    BY <1>1, <1>2 DEF CacheInv, TypeOK
  <2> QED BY <1>2, <2>1, <2>2 DEF CacheInv, EntriesHonest, EntryLasts
<1>5. LoadOwned' /\ OneLoadPerLifetime'
  BY <1>2 DEF LoadOwned, OneLoadPerLifetime
<1>6. AskedOnce'
  BY <1>1, <1>2 DEF CacheInv, AskedOnce, LoadOwned, Loaded, c
<1>7. BoundedStaleness'
  <2>1. load.read + TTL[k] > sent[c]
    BY <1>1, CacheConstants DEF CacheInv, TypeOK, Times
  <2> QED BY <1>1, <1>2, <2>1 DEF CacheInv, TypeOK, BoundedStaleness
<1> QED BY <1>3, <1>4, <1>5, <1>6, <1>7 DEF CacheInv

LEMMA LoadFailsKeeps == ASSUME CacheInv, LoadFails PROVE CacheInv'
BY CacheConstants DEF LoadFails, Answer, callVars, CacheInv, TypeOK, EntriesHonest, LoadOwned,
   AskedOnce, EntryLasts, BoundedStaleness, OneLoadPerLifetime, Times, Nothing

LEMMA ReceiveKeeps == ASSUME CacheInv, NEW c \in Callers, Receive(c) PROVE CacheInv'
BY CacheConstants DEF Receive, CacheInv, TypeOK, EntriesHonest, LoadOwned, AskedOnce, EntryLasts,
   BoundedStaleness, OneLoadPerLifetime, Times, Nothing

LEMMA LeaveKeeps == ASSUME CacheInv, NEW c \in Callers, Leave(c) PROVE CacheInv'
BY CacheConstants DEF Leave, CacheInv, TypeOK, EntriesHonest, LoadOwned, AskedOnce, EntryLasts,
   BoundedStaleness, OneLoadPerLifetime, Times, Nothing

LEMMA CacheInvariant == SiteSpec => []CacheInv
<1>1. CacheInv /\ UNCHANGED vars => CacheInv'
  BY DEF vars, callVars, CacheInv, TypeOK, EntriesHonest, LoadOwned, AskedOnce, EntryLasts,
         BoundedStaleness, OneLoadPerLifetime
<1>2. CacheInv /\ Next => CacheInv'
  BY TickKeeps, AskKeeps, HitKeeps, MissKeeps, ReadKeeps, LoadedKeeps, LoadFailsKeeps,
     ReceiveKeeps, LeaveKeeps DEF Next
<1>3. CacheInv /\ [SiteNext]_siteVars => CacheInv'
  BY <1>1, <1>2 DEF SiteNext, MoveCache, MoveTrackInfo, MoveLinks, MoveVisitors, siteVars
<1>4. SiteInit => CacheInv
  BY CacheStart DEF SiteInit
<1> QED BY <1>3, <1>4, PTL DEF SiteSpec

(* Type correctness of the response cache. *)
THEOREM CacheTypes == SiteSpec => []TypeOK
BY CacheInvariant, PTL DEF CacheInv

(* No answer is a lifetime or more older than the request for it.  It needs *)
(* that an entry's lifetime is counted from before its data was read.      *)
THEOREM NoStaleAnswers == SiteSpec => []BoundedStaleness
BY CacheInvariant, PTL DEF CacheInv

(* A key is not loaded again within the lifetime of its last load: the     *)
(* entry of a successful load stays until it has expired.                  *)
THEOREM LoadsAreSpaced == SiteSpec => []OneLoadPerLifetime
BY CacheInvariant, PTL DEF CacheInv
-----------------------------------------------------------------------------
(* --- the short links -------------------------------------------------------- *)

Places == {"idle", "shown", "proposing", "inserting", "done", "exhausted", "failed"}

(* Types, and what the two unique constraints of the table keep. *)
LinksTyped ==
    /\ links \subseteq [code : Codes, target : Targets]
    /\ linkAt \in [Users -> Places]
    /\ target \in [Users -> Targets]
    /\ code \in [Users -> Codes \cup {NoCode}]
    /\ \A u \in Users : linkAt[u] = "inserting" => code[u] \in Codes

LinksUnique == \A l, m \in links : l.target = m.target <=> l.code = m.code

(* A caller that is done holds the row of its URL. *)
Given == \A u \in Users : linkAt[u] = "done" => [code |-> code[u], target |-> target[u]] \in links

LinksInv == LinksTyped /\ LinksUnique /\ Given

LEMMA LinksStart == ASSUME Links!Init PROVE LinksInv
<1>1. (CHOOSE t \in Targets : TRUE) \in Targets
  BY ServicesAssumption DEF Links!Assumption
<1> QED
  BY <1>1 DEF Links!Init, LinksInv, LinksTyped, LinksUnique, Given, Places

(* The row of a stored URL is found by its URL. *)
LEMMA FoundRow ==
    ASSUME LinksTyped, NEW t \in Targets, Links!Stored(t)
    PROVE  Links!CodeOf(t) \in Codes /\ [code |-> Links!CodeOf(t), target |-> t] \in links
<1>1. PICK l \in links : l.target = t
  BY DEF Links!Stored
<1> DEFINE found == CHOOSE m \in links : m.target = t
<1>2. found \in links /\ found.target = t
  BY <1>1
<1>3. found \in [code : Codes, target : Targets]
  BY <1>2 DEF LinksTyped
<1>4. found = [code |-> found.code, target |-> found.target] /\ found.code \in Codes
  BY <1>3
<1>5. Links!CodeOf(t) = found.code
  BY DEF Links!CodeOf
<1> QED BY <1>2, <1>4, <1>5

(* Insert and Fail add a row only where both constraints allow it. *)
LEMMA RowAdded ==
    ASSUME LinksTyped, LinksUnique, NEW c \in Codes, NEW t \in Targets,
           ~Links!Taken(c), ~Links!Stored(t),
           links' = links \cup {[code |-> c, target |-> t]}
    PROVE  LinksUnique' /\ links' \subseteq [code : Codes, target : Targets] /\ links \subseteq links'
<1>1. [code |-> c, target |-> t] \in [code : Codes, target : Targets]
  OBVIOUS
<1>2. \A l \in links : l.code # c /\ l.target # t
  BY DEF Links!Taken, Links!Stored
<1>3. LinksUnique'
  <2> SUFFICES ASSUME NEW l \in links', NEW m \in links'
               PROVE  l.target = m.target <=> l.code = m.code
    BY DEF LinksUnique
  <2>1. CASE l \in links /\ m \in links
    BY <2>1 DEF LinksUnique
  <2>2. CASE l \in links /\ m \notin links
    BY <2>2, <1>2
  <2>3. CASE l \notin links /\ m \in links
    BY <2>3, <1>2
  <2>4. CASE l \notin links /\ m \notin links
    BY <2>4
  <2> QED BY <2>1, <2>2, <2>3, <2>4
<1> QED BY <1>1, <1>3 DEF LinksTyped

(* A user's step that leaves the table alone, or adds a row to it. *)
LEMMA UserMoves ==
    ASSUME LinksInv, NEW u \in Users, NEW place \in Places, NEW c \in Codes \cup {NoCode},
           Links!Go(u, place, c), UNCHANGED target,
           LinksUnique', links' \subseteq [code : Codes, target : Targets], links \subseteq links',
           place = "inserting" => c \in Codes,
           place = "done" => [code |-> c, target |-> target[u]] \in links'
    PROVE  LinksInv'
<1>1. /\ linkAt' \in [Users -> Places] /\ code' \in [Users -> Codes \cup {NoCode}]
      /\ \A v \in Users : linkAt'[v] = IF v = u THEN place ELSE linkAt[v]
      /\ \A v \in Users : code'[v] = IF v = u THEN c ELSE code[v]
  BY DEF LinksInv, LinksTyped, Links!Go
<1>2. LinksTyped'
  BY <1>1 DEF LinksInv, LinksTyped
<1>3. Given'
  BY <1>1 DEF LinksInv, Given
<1> QED BY <1>2, <1>3 DEF LinksInv

LEMMA LinksStep == ASSUME LinksInv, Links!Next PROVE LinksInv'
<1> USE DEF Places
<1> PICK u \in Users :
       \/ Links!Preview(u) \/ Links!Persist(u) \/ Links!Propose(u) \/ Links!Insert(u)
       \/ Links!Exhausted(u) \/ Links!Fail(u) \/ Links!Again(u)
  BY DEF Links!Next
<1>0. UNCHANGED links => LinksUnique' /\ links' \subseteq [code : Codes, target : Targets]
                         /\ links \subseteq links'
  BY DEF LinksInv, LinksTyped, LinksUnique
<1>t. target[u] \in Targets /\ code[u] \in Codes \cup {NoCode}
  BY DEF LinksInv, LinksTyped
<1>1. CASE Links!Preview(u)
  BY <1>1, <1>0, UserMoves DEF Links!Preview
<1>2. CASE Links!Persist(u)
  <2>1. CASE Links!Stored(target[u])
    BY <2>1, <1>2, <1>0, <1>t, FoundRow, UserMoves DEF Links!Persist, LinksInv
  <2>2. CASE ~Links!Stored(target[u])
    BY <2>2, <1>2, <1>0, <1>t, UserMoves DEF Links!Persist
  <2> QED BY <2>1, <2>2
<1>3. CASE Links!Propose(u)
  <2>1. CASE Links!Retry(u)
    BY <2>1, <1>3, <1>0, UserMoves DEF Links!Propose, Links!Retry
  <2>2. CASE ~Links!Retry(u)
    BY <2>2, <1>3, <1>0, UserMoves DEF Links!Propose
  <2> QED BY <2>1, <2>2
<1>4. CASE Links!Insert(u)
  <2>1. CASE Links!Taken(code[u]) \/ Links!Stored(target[u])
    BY <2>1, <1>4, <1>0, UserMoves DEF Links!Insert, Links!Retry
  <2>2. CASE ~(Links!Taken(code[u]) \/ Links!Stored(target[u]))
    <3>1. code[u] \in Codes
      BY <1>4 DEF Links!Insert, LinksInv, LinksTyped
    <3>2. links' = links \cup {[code |-> code[u], target |-> target[u]]}
          /\ Links!Go(u, "done", code[u]) /\ UNCHANGED target
      BY <1>4, <2>2 DEF Links!Insert
    <3>3. LinksUnique' /\ links' \subseteq [code : Codes, target : Targets] /\ links \subseteq links'
      BY <3>1, <3>2, <2>2, <1>t, RowAdded DEF LinksInv
    <3> QED BY <3>1, <3>2, <3>3, UserMoves
  <2> QED BY <2>1, <2>2
<1>5. CASE Links!Exhausted(u)
  BY <1>5, <1>0, UserMoves DEF Links!Exhausted
<1>6. CASE Links!Fail(u)
  <2>1. LinksUnique' /\ links' \subseteq [code : Codes, target : Targets] /\ links \subseteq links'
    <3>1. CASE UNCHANGED links
      BY <3>1, <1>0
    <3>2. CASE ~UNCHANGED links
      <4>1. /\ code[u] \in Codes /\ ~Links!Taken(code[u]) /\ ~Links!Stored(target[u])
            /\ links' = links \cup {[code |-> code[u], target |-> target[u]]}
        BY <3>2, <1>6 DEF Links!Fail, LinksInv, LinksTyped
      <4> QED BY <4>1, <1>t, RowAdded DEF LinksInv
    <3> QED BY <3>1, <3>2
  <2> QED BY <2>1, <1>6, UserMoves DEF Links!Fail
<1>7. CASE Links!Again(u)
  <2>1. PICK t \in Targets : target' = [target EXCEPT ![u] = t]
    BY <1>7 DEF Links!Again
  <2>2. /\ linkAt' = [linkAt EXCEPT ![u] = "idle"] /\ code' = [code EXCEPT ![u] = NoCode]
        /\ UNCHANGED links
    BY <1>7 DEF Links!Again, Links!Go
  <2>3. LinksTyped'
    BY <2>1, <2>2 DEF LinksInv, LinksTyped
  <2>4. \A v \in Users : linkAt'[v] = "done" =>
            v # u /\ linkAt[v] = "done" /\ target'[v] = target[v] /\ code'[v] = code[v]
    BY <2>1, <2>2 DEF LinksInv, LinksTyped
  <2> QED BY <2>2, <2>3, <2>4 DEF LinksInv, LinksUnique, Given
<1> QED BY <1>1, <1>2, <1>3, <1>4, <1>5, <1>6, <1>7

LEMMA LinksStutter == ASSUME LinksInv, UNCHANGED linkVars PROVE LinksInv'
BY DEF linkVars, LinksInv, LinksTyped, LinksUnique, Given

(* The property of the run: codes that were given lead to their URLs, and  *)
(* a URL has one code (PersistShortLink, which looks before it inserts).   *)
THEOREM CodesStayUnique == SiteSpec => []LinksAgree
<1>1. SiteInit => LinksInv
  BY LinksStart DEF SiteInit
<1>2. LinksInv /\ [SiteNext]_siteVars => LinksInv'
  BY LinksStep, LinksStutter
     DEF SiteNext, MoveCache, MoveTrackInfo, MoveLinks, MoveVisitors, siteVars, linkVars
<1>3. LinksInv => LinksAgree
  BY DEF LinksInv, LinksUnique, Given, LinksAgree, Links!LinksAgree
<1> QED BY <1>1, <1>2, <1>3, PTL DEF SiteSpec
-----------------------------------------------------------------------------
(* What the last track is does not matter here. *)
IsNumbers(s) == s \in [ready : BOOLEAN, total : Nat, latest : {s.latest}]

TrackInfoTyped ==
    /\ stored \subseteq Ids /\ registered \subseteq Ids
    /\ IsNumbers(snapshot)
    /\ refresh \in [at : {"none", "counting", "indexing", "done"}, prev : {refresh.prev},
                    got : {refresh.got}, failed : BOOLEAN]
    /\ IsNumbers(refresh.prev) /\ IsNumbers(refresh.got)
    /\ refreshing \in BOOLEAN

(* What a refresh brings home: on success a count that was true when it    *)
(* was taken, and tracks only get more; on failure the numbers it was      *)
(* started with, which nobody else replaces while it is under way.         *)
RefreshHonest ==
    /\ snapshot.total <= Cardinality(stored)
    /\ refresh.got.total <= Cardinality(stored)
    /\ IF refreshing THEN refresh.at # "none" /\ refresh.prev = snapshot ELSE refresh.at = "none"
    /\ refresh.at \in {"counting", "indexing"} => ~refresh.failed
    /\ refresh.at \in {"indexing", "done"} /\ ~refresh.failed =>
         refresh.got.ready /\ (refreshing => refresh.got.total >= snapshot.total)
    /\ refresh.at = "done" /\ refresh.failed => refresh.got = refresh.prev

TrackInfoInv == TrackInfoTyped /\ RefreshHonest /\ RefreshNeverStops

(* The instance has its own copy of the operators on finite sets. *)
LEMMA SameCardinality == \A S : TrackInfo!Cardinality(S) = Cardinality(S)
BY Zenon DEF TrackInfo!Cardinality, Cardinality

LEMMA Counts ==
    ASSUME NEW S \in SUBSET Ids, NEW T \in SUBSET S
    PROVE  Cardinality(S) \in Nat /\ Cardinality(T) \in Nat /\ Cardinality(T) <= Cardinality(S)
<1>1. IsFiniteSet(Ids)
  BY ServicesAssumption DEF TrackInfo!Assumption, TrackInfo!IsFiniteSet, IsFiniteSet
<1>2. IsFiniteSet(S) /\ IsFiniteSet(T)
  BY <1>1, FS_Subset
<1> QED BY <1>2, FS_Subset, FS_CardinalityType

LEMMA TrackInfoStart == ASSUME TrackInfo!Init PROVE TrackInfoInv
<1>1. /\ snapshot = [ready |-> FALSE, total |-> 0, latest |-> 0]
      /\ refresh = [at |-> "counting", prev |-> snapshot, got |-> snapshot, failed |-> FALSE]
      /\ stored = {} /\ registered = {} /\ refreshing = TRUE
  BY DEF TrackInfo!Init, TrackInfo!NoSnapshot, TrackInfo!NoLoad, TrackInfo!None
<1>2. TrackInfoTyped
  BY <1>1 DEF TrackInfoTyped, IsNumbers
<1>3. RefreshHonest
  BY <1>1, FS_EmptySet DEF RefreshHonest
<1> QED BY <1>1, <1>2, <1>3 DEF TrackInfoInv, RefreshNeverStops, TrackInfo!RefreshNeverStops

(* The snapshot is ready and counts no less than before, if it was ready.  *)
Improves == snapshot.ready => snapshot'.ready /\ snapshot'.total >= snapshot.total

LEMMA Retyped ==
    ASSUME TrackInfoTyped, UNCHANGED <<stored, registered>>, IsNumbers(snapshot'),
           refreshing' \in BOOLEAN, NEW g, NEW q, IsNumbers(g), IsNumbers(q), NEW f \in BOOLEAN,
           NEW a \in {"none", "counting", "indexing", "done"},
           refresh' = [at |-> a, prev |-> q, got |-> g, failed |-> f]
    PROVE  TrackInfoTyped'
<1>1. refresh'.at = a /\ refresh'.prev = q /\ refresh'.got = g /\ refresh'.failed = f
  OBVIOUS
<1>2. IsNumbers(refresh'.prev) /\ IsNumbers(refresh'.got)
  BY <1>1
<1> QED BY <1>1, <1>2 DEF TrackInfoTyped, IsNumbers

(* The refresh goroutine counts, looks up the last track, or fails. *)
LEMMA LoadingKeeps ==
    ASSUME TrackInfoInv, TrackInfo!CountTracks \/ TrackInfo!GetTrackIDByIndex \/ TrackInfo!LoadFails
    PROVE  TrackInfoInv' /\ Improves
<1>0. Cardinality(stored) \in Nat /\ TrackInfo!Cardinality(stored) = Cardinality(stored)
  BY Counts, SameCardinality DEF TrackInfoInv, TrackInfoTyped
<1>1. /\ UNCHANGED <<stored, registered, snapshot, refreshing, timer, loop>>
      /\ refreshing /\ refresh.at \in {"counting", "indexing"}
  BY DEF TrackInfo!CountTracks, TrackInfo!GetTrackIDByIndex, TrackInfo!LoadFails, TrackInfo!LoadStep,
         TrackInfo!dataVars, TrackInfoInv, RefreshHonest
<1>2. /\ refresh' = [at |-> refresh'.at, prev |-> refresh.prev, got |-> refresh'.got,
                     failed |-> refresh'.failed]
      /\ refresh'.at \in {"indexing", "done"} /\ refresh'.failed \in BOOLEAN
      /\ \/ refresh'.failed /\ refresh'.at = "done" /\ refresh'.got = refresh.prev
         \/ /\ ~refresh'.failed /\ refresh'.got.ready = TRUE /\ IsNumbers(refresh'.got)
            /\ refresh'.got.total \in {Cardinality(stored)} \cup
                                      (IF refresh.at = "indexing" THEN {refresh.got.total} ELSE {})
  <2>1. CASE TrackInfo!CountTracks
    BY <1>0, <2>1 DEF TrackInfo!CountTracks, TrackInfo!LoadStep, TrackInfo!None,
                      TrackInfoInv, TrackInfoTyped, RefreshHonest, IsNumbers
  <2>2. CASE TrackInfo!GetTrackIDByIndex
    BY <1>0, <2>2 DEF TrackInfo!GetTrackIDByIndex, TrackInfo!LoadStep,
                      TrackInfoInv, TrackInfoTyped, RefreshHonest, IsNumbers
  <2>3. CASE TrackInfo!LoadFails
    BY <1>0, <2>3 DEF TrackInfo!LoadFails, TrackInfo!LoadStep, TrackInfoInv, TrackInfoTyped
  <2> QED BY <2>1, <2>2, <2>3
<1>3. TrackInfoTyped'
  BY <1>1, <1>2 DEF TrackInfoInv, TrackInfoTyped, IsNumbers
<1>4. RefreshHonest'
  BY <1>0, <1>1, <1>2 DEF TrackInfoInv, TrackInfoTyped, RefreshHonest, IsNumbers
<1> QED BY <1>0, <1>1, <1>3, <1>4
        DEF TrackInfoInv, TrackInfoTyped, IsNumbers, RefreshNeverStops, TrackInfo!RefreshNeverStops, Improves

(* The outcome of a refresh is no worse than what it replaces. *)
LEMMA AbsorbKeeps ==
    ASSUME TrackInfoInv, TrackInfo!Absorb, UNCHANGED <<stored, registered>>
    PROVE  TrackInfoInv' /\ Improves
<1>0. Cardinality(stored) \in Nat
  BY Counts DEF TrackInfoInv, TrackInfoTyped
<1>1. /\ refresh' = [at |-> "none", prev |-> refresh'.prev, got |-> refresh'.prev, failed |-> FALSE]
      /\ IsNumbers(refresh'.prev) /\ refresh'.prev.total = 0
      /\ refreshing /\ refreshing' = FALSE /\ timer' # "off"
  BY DEF TrackInfo!Absorb, TrackInfo!NoLoad, TrackInfo!NoSnapshot, TrackInfo!None, IsNumbers
<1>2. IsNumbers(snapshot') /\ snapshot'.total <= Cardinality(stored) /\ Improves
  <2>1. CASE snapshot' = snapshot
    BY <2>1 DEF TrackInfoInv, TrackInfoTyped, RefreshHonest, IsNumbers, Improves
  <2>2. CASE snapshot' = refresh.got
    BY <2>2 DEF TrackInfo!Absorb, TrackInfoInv, TrackInfoTyped, RefreshHonest, IsNumbers, Improves
  <2> QED BY <2>1, <2>2 DEF TrackInfo!Absorb
<1>3. TrackInfoTyped'
  BY <1>1, <1>2, Retyped DEF TrackInfoInv
<1>4. RefreshHonest'
  BY <1>0, <1>1, <1>2 DEF RefreshHonest
<1> QED BY <1>1, <1>2, <1>3, <1>4 DEF TrackInfoInv, RefreshNeverStops, TrackInfo!RefreshNeverStops

(* The snapshot and the refresh stay as they are. *)
LEMMA NothingNew ==
    ASSUME TrackInfoInv, UNCHANGED <<stored, registered, snapshot, refreshing, refresh>>,
           RefreshNeverStops'
    PROVE  TrackInfoInv' /\ Improves
BY DEF TrackInfoInv, TrackInfoTyped, RefreshHonest, IsNumbers, Improves

(* Nothing the invariant speaks of changes, but the loop may stop. *)
LEMMA OthersKeep ==
    ASSUME TrackInfoInv, UNCHANGED <<stored, registered, snapshot, refreshing, refresh>>,
           UNCHANGED timer \/ loop' = "stopped", loop = "stopped" => loop' = "stopped"
    PROVE  TrackInfoInv' /\ Improves
<1>1. RefreshNeverStops'
  BY DEF TrackInfoInv, RefreshNeverStops, TrackInfo!RefreshNeverStops
<1> QED BY <1>1, NothingNew

(* A refresh is asked for; the loop's other variables do not matter. *)
LEMMA TriggerKeeps ==
    ASSUME TrackInfoInv, TrackInfo!TriggerRefresh, UNCHANGED <<stored, registered, snapshot>>
    PROVE  TrackInfoInv' /\ Improves
<1>0. Cardinality(stored) \in Nat
  BY Counts DEF TrackInfoInv, TrackInfoTyped
<1>1. refreshing' = TRUE /\ RefreshNeverStops'
  BY DEF TrackInfo!TriggerRefresh, RefreshNeverStops, TrackInfo!RefreshNeverStops
<1>2. CASE refreshing = TRUE
  BY <1>1, <1>2, NothingNew DEF TrackInfo!TriggerRefresh
<1>3. CASE refreshing # TRUE
  <2> DEFINE q == TrackInfo!NoSnapshot
  <2>1. q = [ready |-> FALSE, total |-> 0, latest |-> 0]
    BY DEF TrackInfo!NoSnapshot, TrackInfo!None
  <2>2. refresh' = [at |-> "counting", prev |-> snapshot, got |-> q, failed |-> FALSE]
    BY <1>3 DEF TrackInfo!TriggerRefresh, TrackInfo!StartedLoad, TrackInfo!NoLoad, TrackInfoInv,
                TrackInfoTyped
  <2> HIDE DEF q
  <2>3. TrackInfoTyped'
    BY <1>1, <2>1, <2>2, Retyped DEF TrackInfoInv, TrackInfoTyped, IsNumbers
  <2>4. RefreshHonest' /\ Improves
    BY <1>0, <1>1, <2>1, <2>2 DEF TrackInfoInv, TrackInfoTyped, RefreshHonest, IsNumbers, Improves
  <2> QED BY <1>1, <2>3, <2>4 DEF TrackInfoInv
<1> QED BY <1>2, <1>3

(* An import only adds tracks. *)
LEMMA ImportKeeps ==
    ASSUME TrackInfoInv, NEW t \in Ids, TrackInfo!Register(t) \/ TrackInfo!StoreMarkers(t)
    PROVE  TrackInfoInv' /\ Improves
<1>1. /\ stored' \subseteq Ids /\ stored \subseteq stored' /\ registered' \subseteq Ids
      /\ UNCHANGED <<snapshot, refreshing, refresh, timer, loop>>
  BY DEF TrackInfo!Register, TrackInfo!StoreMarkers, TrackInfoInv, TrackInfoTyped
<1>2. /\ Cardinality(stored) \in Nat /\ Cardinality(stored') \in Nat
      /\ Cardinality(stored) <= Cardinality(stored')
  BY <1>1, Counts
<1> QED BY <1>1, <1>2 DEF TrackInfoInv, TrackInfoTyped, RefreshHonest, RefreshNeverStops, IsNumbers,
                          TrackInfo!RefreshNeverStops, Improves

LEMMA LoopKeeps == ASSUME TrackInfoInv, TrackInfo!LoopStep PROVE TrackInfoInv' /\ Improves
<1> USE DEF TrackInfo!dataVars
<1>1. CASE TrackInfo!AbsorbIdle
  BY <1>1, AbsorbKeeps DEF TrackInfo!AbsorbIdle
<1>2. CASE TrackInfo!TimerFires
  BY <1>2, TriggerKeeps DEF TrackInfo!TimerFires
<1>3. CASE TrackInfo!AttendOutcome
  BY <1>3, AbsorbKeeps DEF TrackInfo!AttendOutcome, TrackInfo!Attended
<1>4. CASE TrackInfo!AttendOver
  BY <1>4, OthersKeep DEF TrackInfo!AttendOver, TrackInfo!Attended
<1>5. CASE TrackInfo!Stop
  BY <1>5, OthersKeep DEF TrackInfo!Stop
<1> QED BY <1>1, <1>2, <1>3, <1>4, <1>5 DEF TrackInfo!LoopStep

LEMMA ClientKeeps ==
    ASSUME TrackInfoInv, NEW c \in Clients,
           \/ TrackInfo!Ask(c) \/ TrackInfo!Return(c) \/ TrackInfo!AskAgain(c)
           \/ TrackInfo!EndContext(c) \/ TrackInfo!AnswerCached(c) \/ TrackInfo!Attend(c)
    PROVE  TrackInfoInv' /\ Improves
<1> USE DEF TrackInfo!dataVars, TrackInfo!Client
<1>1. CASE TrackInfo!Ask(c) \/ TrackInfo!Return(c) \/ TrackInfo!AskAgain(c) \/ TrackInfo!EndContext(c)
  BY <1>1, OthersKeep
     DEF TrackInfo!Ask, TrackInfo!Return, TrackInfo!AskAgain, TrackInfo!EndContext
<1>2. CASE TrackInfo!AnswerCached(c) /\ fresh
  BY <1>2, OthersKeep DEF TrackInfo!AnswerCached
<1>3. CASE TrackInfo!AnswerCached(c) /\ ~fresh
  BY <1>3, TriggerKeeps DEF TrackInfo!AnswerCached
<1>4. CASE TrackInfo!Attend(c)
  BY <1>4, TriggerKeeps DEF TrackInfo!Attend
<1> QED BY <1>1, <1>2, <1>3, <1>4

LEMMA TrackInfoStep == ASSUME TrackInfoInv, TrackInfo!Next PROVE TrackInfoInv' /\ Improves
<1>1. CASE TrackInfo!Close \/ TrackInfo!Expire
  BY <1>1, OthersKeep DEF TrackInfo!Close, TrackInfo!Expire, TrackInfo!dataVars
<1> QED BY <1>1, ImportKeeps, LoadingKeeps, LoopKeeps, ClientKeeps DEF TrackInfo!Next

LEMMA TrackInfoStutter == ASSUME TrackInfoInv, UNCHANGED trackInfoVars PROVE TrackInfoInv' /\ Improves
BY OthersKeep DEF trackInfoVars

LEMMA SiteKeepsTrackInfo == ASSUME TrackInfoInv, [SiteNext]_siteVars PROVE TrackInfoInv' /\ Improves
BY TrackInfoStep, TrackInfoStutter
   DEF SiteNext, MoveCache, MoveTrackInfo, MoveLinks, MoveVisitors, siteVars

(* The property of the run: until the cache is closed a refresh is under   *)
(* way or the timer is set (the loop of trackinfo_cache.go).               *)
THEOREM RefreshIsDue == SiteSpec => []RefreshNeverStops
<1>1. SiteInit => TrackInfoInv
  BY TrackInfoStart DEF SiteInit
<1>2. TrackInfoInv => RefreshNeverStops
  BY DEF TrackInfoInv
<1> QED BY <1>1, <1>2, SiteKeepsTrackInfo, PTL DEF SiteSpec

(* The property of the run: no refresh takes away what could be served, or *)
(* replaces it by an older count.                                          *)
THEOREM SnapshotsImprove == SiteSpec => SnapshotOnlyImproves
<1>1. SiteInit => TrackInfoInv
  BY TrackInfoStart DEF SiteInit
<1>2. TrackInfoInv /\ [SiteNext]_siteVars => [Improves]_(TrackInfo!vars)
  BY SiteKeepsTrackInfo
<1>3. TrackInfoInv /\ [SiteNext]_siteVars => TrackInfoInv'
  BY SiteKeepsTrackInfo
<1> QED BY <1>1, <1>2, <1>3, PTL DEF SiteSpec, SnapshotOnlyImproves, TrackInfo!SnapshotOnlyImproves, Improves
-----------------------------------------------------------------------------
(* --- the visitors ------------------------------------------------------------ *)

IsSeq(s) == \E S : s \in Seq(S)

LEMMA AppendOf ==
    ASSUME NEW s, IsSeq(s), NEW x
    PROVE  /\ IsSeq(Append(s, x)) /\ Len(s) \in Nat /\ Len(Append(s, x)) = Len(s) + 1
           /\ \A k \in 1..Len(s) : Append(s, x)[k] = s[k]
           /\ Append(s, x)[Len(s) + 1] = x
<1>1. PICK S : s \in Seq(S)
  BY DEF IsSeq
<1>2. s \in Seq(S \cup {x}) /\ x \in S \cup {x}
  BY <1>1
<1>3. Append(s, x) \in Seq(S \cup {x})
  BY <1>2
<1> QED BY <1>2, <1>3 DEF IsSeq

LEMMA TailOf ==
    ASSUME NEW s, IsSeq(s), s # <<>>
    PROVE  /\ IsSeq(Tail(s)) /\ Len(s) \in Nat \ {0} /\ Len(Tail(s)) = Len(s) - 1
           /\ Head(s) = s[1]
           /\ \A k \in 1..Len(Tail(s)) : k + 1 \in 1..Len(s) /\ Tail(s)[k] = s[k + 1]
<1>1. PICK S : s \in Seq(S)
  BY DEF IsSeq
<1>2. Len(s) \in Nat \ {0}
  BY <1>1, EmptySeq
<1>3. Tail(s) \in Seq(S) /\ Len(Tail(s)) = Len(s) - 1
      /\ \A k \in 1..Len(Tail(s)) : Tail(s)[k] = s[k + 1]
  BY <1>1, HeadTailProperties
<1>4. Head(s) = s[1]
  BY <1>1
<1> QED BY <1>2, <1>3, <1>4 DEF IsSeq

LEMMA NoSeq == IsSeq(<<>>) /\ Len(<<>>) = 0
<1>1. <<>> \in Seq({})
  OBVIOUS
<1> QED BY <1>1 DEF IsSeq

LEMMA OneSeq == ASSUME NEW x PROVE IsSeq(<<x>>) /\ Len(<<x>>) = 1 /\ <<x>>[1] = x
<1>1. <<x>> \in Seq({x})
  OBVIOUS
<1> QED BY <1>1 DEF IsSeq

Identity(m) == [id |-> m.id, number |-> m.number]

(* The identities in use, wherever they are; a request that waits for its  *)
(* number has an identifier only.                                          *)
InUse ==
    {Visitors!NoOne} \cup {cookie[b] : b \in Browsers} \cup {cache[f] : f \in Visitors!Fingerprints}
    \cup {who[r] : r \in {q \in Requests : at[q] # "numbering"}}
    \cup {Identity(row) : row \in rows}
    \cup {Identity(messages[k]) : k \in 1..Len(messages)}
    \cup {Identity(writing[k]) : k \in 1..Len(writing)}
    \cup {lookups[k].i : k \in 1..Len(lookups)}

Chosen == {"known", "storing", "sending", "recording"}

VisitorShapes ==
    /\ IsSeq(lookups) /\ IsSeq(messages) /\ IsSeq(writing) /\ Len(writing) <= 1
    /\ at = [r \in Requests |-> at[r]] /\ who = [r \in Requests |-> who[r]]
    /\ cookie = [b \in Browsers |-> cookie[b]]
    /\ cache = [f \in Visitors!Fingerprints |-> cache[f]]
    /\ ids \in Nat

(* An identifier that waits for its number is nowhere else, so whichever   *)
(* number it gets agrees with everything.                                  *)
Numbered ==
    /\ \A x \in InUse : x.id \in 0..ids /\ x = Identity(x) /\ (x.id = 0 => x = Visitors!NoOne)
    /\ \A x, y \in InUse : x.id = y.id => x.number = y.number
    /\ \A r \in Requests : at[r] = "numbering" =>
          /\ who[r] = Identity(who[r]) /\ who[r].id \in 1..ids
          /\ \A x \in InUse : x.id # who[r].id
          /\ \A q \in Requests : at[q] = "numbering" /\ who[q].id = who[r].id => q = r

(* Nobody is recorded without a session. *)
Signed ==
    /\ \A r \in Requests : at[r] \in Chosen => who[r].id # 0
    /\ \A row \in rows : row.id # 0
    /\ \A k \in 1..Len(messages) : messages[k].id # 0
    /\ \A k \in 1..Len(writing) : writing[k].id # 0

NumbersInv == VisitorShapes /\ Numbered /\ Signed

(* A session is in the table, or what would have put it there is lost ...  *)
Safe(s) == s \in lost \/ \E row \in rows : row.id = s

(* ... or being written, or in the queue before place n.                   *)
Under(s, n) ==
    \/ Safe(s)
    \/ \E k \in 1..Len(writing) : writing[k].kind = "session" /\ writing[k].id = s
    \/ \E k \in 1..Len(messages) : k < n /\ messages[k].kind = "session" /\ messages[k].id = s

(* The session's message is ahead of the event's. *)
EventsInv ==
    /\ \A s \in events : s \in 1..ids /\ Safe(s)
    /\ \A k \in 1..Len(writing) : writing[k].kind = "event" => Safe(writing[k].id)
    /\ \A n \in 1..Len(messages) : messages[n].kind = "event" => Under(messages[n].id, n)
    /\ \A r \in Requests : at[r] = "recording" => Under(who[r].id, Len(messages) + 1)

VisitorsInv == NumbersInv /\ EventsInv

LEMMA VisitorsStart == ASSUME Visitors!Init PROVE VisitorsInv
<1> USE DEF Visitors!Init
<1>1. VisitorShapes
  BY NoSeq DEF VisitorShapes
<1>2. \A x \in InUse : x = Visitors!NoOne
  BY NoSeq DEF InUse
<1>3. Visitors!NoOne.id = 0 /\ Visitors!NoOne = Identity(Visitors!NoOne) /\ ids = 0
  BY DEF Visitors!NoOne, Identity
<1>4. Numbered
  BY <1>2, <1>3 DEF Numbered
<1>5. Signed /\ EventsInv
  BY NoSeq DEF Signed, EventsInv, Chosen
<1> QED BY <1>1, <1>4, <1>5 DEF VisitorsInv, NumbersInv

(* What is in use is in use somewhere.                                     *)
LEMMA UsedSomewhere ==
    /\ Visitors!NoOne \in InUse
    /\ \A b \in Browsers : cookie[b] \in InUse
    /\ \A f \in Visitors!Fingerprints : cache[f] \in InUse
    /\ \A r \in Requests : at[r] # "numbering" => who[r] \in InUse
    /\ \A row \in rows : Identity(row) \in InUse
    /\ \A k \in 1..Len(messages) : Identity(messages[k]) \in InUse
    /\ \A k \in 1..Len(writing) : Identity(writing[k]) \in InUse
    /\ \A k \in 1..Len(lookups) : lookups[k].i \in InUse
BY DEF InUse

(* A step that hands identities on invents none.                           *)
CookiesKeep ==
    /\ cookie' = [b \in Browsers |-> cookie'[b]]
    /\ \A b \in Browsers : cookie'[b] \in InUse
CacheKeeps ==
    /\ cache' = [f \in Visitors!Fingerprints |-> cache'[f]]
    /\ \A f \in Visitors!Fingerprints : cache'[f] \in InUse
RowsKeep == \A row \in rows' : Identity(row) \in InUse /\ row.id # 0
MessagesKeep ==
    /\ IsSeq(messages')
    /\ \A k \in 1..Len(messages') : Identity(messages'[k]) \in InUse /\ messages'[k].id # 0
WritingKeeps ==
    /\ IsSeq(writing') /\ Len(writing') <= 1
    /\ \A k \in 1..Len(writing') : Identity(writing'[k]) \in InUse /\ writing'[k].id # 0
LookupsKeep ==
    IsSeq(lookups') /\ \A k \in 1..Len(lookups') : lookups'[k].i \in InUse
HandlersKeep ==
    /\ at' = [r \in Requests |-> at'[r]] /\ who' = [r \in Requests |-> who'[r]]
    /\ \A r \in Requests :
          /\ at'[r] = "numbering" => at[r] = "numbering" /\ who'[r] = who[r]
          /\ at'[r] # "numbering" => who'[r] \in InUse
          /\ at'[r] \in Chosen => who'[r].id # 0

LEMMA Rearranged ==
    ASSUME NumbersInv, HandlersKeep, CookiesKeep, CacheKeeps, RowsKeep, MessagesKeep,
           WritingKeeps, LookupsKeep, UNCHANGED ids
    PROVE  NumbersInv'
<1>1. VisitorShapes'
  BY DEF VisitorShapes, NumbersInv, HandlersKeep, CookiesKeep, CacheKeeps, MessagesKeep,
         WritingKeeps, LookupsKeep
<1>2. ASSUME NEW x \in InUse' PROVE x \in InUse
  <2>1. \/ x = Visitors!NoOne
        \/ \E b \in Browsers : x = cookie'[b]
        \/ \E f \in Visitors!Fingerprints : x = cache'[f]
        \/ \E r \in Requests : at'[r] # "numbering" /\ x = who'[r]
        \/ \E row \in rows' : x = Identity(row)
        \/ \E k \in 1..Len(messages') : x = Identity(messages'[k])
        \/ \E k \in 1..Len(writing') : x = Identity(writing'[k])
        \/ \E k \in 1..Len(lookups') : x = lookups'[k].i
    BY DEF InUse, Visitors!NoOne, Visitors!Fingerprints, Identity
  <2> QED BY <2>1, UsedSomewhere DEF HandlersKeep, CookiesKeep, CacheKeeps, RowsKeep,
             MessagesKeep, WritingKeeps, LookupsKeep
<1>3. \A r \in Requests : at'[r] = "numbering" => at[r] = "numbering" /\ who'[r] = who[r]
  BY DEF HandlersKeep
<1>4. Numbered'
  BY <1>2, <1>3 DEF NumbersInv, Numbered, Visitors!NoOne, Identity
<1>5. Signed'
  BY DEF Signed, HandlersKeep, RowsKeep, MessagesKeep, WritingKeeps
<1> QED BY <1>1, <1>4, <1>5 DEF NumbersInv

LEMMA Standing ==
    ASSUME NumbersInv
    PROVE  /\ UNCHANGED cookie => CookiesKeep
           /\ UNCHANGED cache => CacheKeeps
           /\ UNCHANGED rows => RowsKeep
           /\ UNCHANGED messages => MessagesKeep
           /\ UNCHANGED writing => WritingKeeps
           /\ UNCHANGED lookups => LookupsKeep
           /\ UNCHANGED <<at, who>> => HandlersKeep
<1> USE UsedSomewhere DEF NumbersInv, VisitorShapes, Signed
<1>1. (UNCHANGED cookie => CookiesKeep) /\ (UNCHANGED cache => CacheKeeps)
  BY DEF CookiesKeep, CacheKeeps
<1>2. (UNCHANGED rows => RowsKeep) /\ (UNCHANGED messages => MessagesKeep)
  BY DEF RowsKeep, MessagesKeep
<1>3. (UNCHANGED writing => WritingKeeps) /\ (UNCHANGED lookups => LookupsKeep)
  BY DEF WritingKeeps, LookupsKeep
<1>4. UNCHANGED <<at, who>> => HandlersKeep
  BY DEF HandlersKeep
<1> QED BY <1>1, <1>2, <1>3, <1>4

LEMMA LookupsMove ==
    ASSUME NumbersInv,
           \/ lookups # <<>> /\ lookups' = Tail(lookups)
           \/ \E m : m.i \in InUse /\ lookups' = Append(lookups, m)
    PROVE  LookupsKeep
<1> USE UsedSomewhere DEF NumbersInv, VisitorShapes, LookupsKeep
<1>1. CASE lookups # <<>> /\ lookups' = Tail(lookups)
  BY <1>1, TailOf
<1>2. ASSUME NEW m, m.i \in InUse, lookups' = Append(lookups, m)
      PROVE  LookupsKeep
  <2>1. \A k \in 1..(Len(lookups) + 1) : k \in 1..Len(lookups) \/ k = Len(lookups) + 1
    BY AppendOf
  <2> QED BY <1>2, <2>1, AppendOf
<1> QED BY <1>1, <1>2

(* A handler goes on. *)
LEMMA Moved ==
    ASSUME VisitorShapes, NEW r, NEW place, NEW j, Visitors!Go(r, place, j)
    PROVE  /\ at' = [q \in Requests |-> IF q = r THEN place ELSE at[q]]
           /\ who' = [q \in Requests |-> IF q = r THEN j ELSE who[q]]
BY DEF VisitorShapes, Visitors!Go

LEMMA Settled ==
    ASSUME NumbersInv, NEW r, NEW place, NEW j \in InUse, Visitors!Go(r, place, j),
           place # "numbering", place \in Chosen => j.id # 0
    PROVE  HandlersKeep
<1>1. /\ at' = [q \in Requests |-> IF q = r THEN place ELSE at[q]]
      /\ who' = [q \in Requests |-> IF q = r THEN j ELSE who[q]]
  BY Moved DEF NumbersInv
<1> QED BY <1>1, UsedSomewhere DEF HandlersKeep, NumbersInv, Signed

LEMMA Posted ==
    ASSUME NumbersInv, NEW r \in Requests, at[r] \in Chosen, NEW kind, Visitors!Post(r, kind)
    PROVE  MessagesKeep
<1> DEFINE m == [kind |-> kind, id |-> who[r].id, number |-> who[r].number,
                 fp |-> Visitors!Fp(r)]
<1>1. who[r] \in InUse /\ who[r] = Identity(who[r]) /\ who[r].id # 0
  BY UsedSomewhere DEF NumbersInv, Numbered, Signed, Chosen
<1>2. Identity(m) \in InUse /\ m.id # 0
  BY <1>1 DEF Identity
<1>3. messages' = messages \/ messages' = Append(messages, m)
  BY DEF Visitors!Post
<1>4. CASE messages' = messages
  BY <1>4, Standing
<1>5. CASE messages' = Append(messages, m)
  <2> HIDE DEF m
  <2>1. \A k \in 1..(Len(messages) + 1) : k \in 1..Len(messages) \/ k = Len(messages) + 1
    BY AppendOf DEF NumbersInv, VisitorShapes
  <2> QED BY <1>2, <1>5, <2>1, AppendOf, UsedSomewhere
          DEF NumbersInv, VisitorShapes, MessagesKeep, Signed
<1> QED BY <1>3, <1>4, <1>5

(* A fresh identifier, for which a number is asked. *)
LEMMA CreateNumbers ==
    ASSUME NumbersInv, NEW r \in Requests, Visitors!Create(r)
    PROVE  NumbersInv'
<1> DEFINE j == [id |-> ids + 1, number |-> 0]
<1>1. /\ at' = [q \in Requests |-> IF q = r THEN "numbering" ELSE at[q]]
      /\ who' = [q \in Requests |-> IF q = r THEN j ELSE who[q]]
  BY Moved DEF NumbersInv, Visitors!Create
<1>2. /\ ids' = ids + 1 /\ ids \in Nat
      /\ UNCHANGED <<cookie, cache, rows, lookups, messages, writing>>
  BY DEF Visitors!Create, Visitors!Unheard, Visitors!tableVars, NumbersInv, VisitorShapes
<1>3. InUse' \subseteq InUse
  BY <1>1, <1>2 DEF InUse, Identity, Visitors!NoOne
<1>4. \A x \in InUse : x.id \in 0..ids
  BY DEF NumbersInv, Numbered
<1>5. \A q \in Requests : at[q] = "numbering" => who[q].id \in 1..ids
  BY DEF NumbersInv, Numbered
<1>6. Numbered'
  <2>1. \A x \in InUse' : x.id \in 0..ids' /\ x = Identity(x)
                          /\ (x.id = 0 => x = Visitors!NoOne)
    BY <1>2, <1>3 DEF NumbersInv, Numbered
  <2>2. \A x, y \in InUse' : x.id = y.id => x.number = y.number
    BY <1>3 DEF NumbersInv, Numbered
  <2>3. ASSUME NEW q \in Requests, at'[q] = "numbering"
        PROVE  /\ who'[q] = Identity(who'[q]) /\ who'[q].id \in 1..ids'
               /\ \A x \in InUse' : x.id # who'[q].id
               /\ \A p \in Requests :
                     at'[p] = "numbering" /\ who'[p].id = who'[q].id => p = q
    <3>1. CASE q = r
      BY <1>1, <1>2, <1>3, <1>4, <1>5, <3>1 DEF Identity
    <3>2. CASE q # r
      BY <1>1, <1>2, <1>3, <1>5, <2>3, <3>2 DEF NumbersInv, Numbered
    <3> QED BY <3>1, <3>2
  <2> QED BY <2>1, <2>2, <2>3 DEF Numbered, Visitors!NoOne, Identity
<1>7. VisitorShapes' /\ Signed'
  BY <1>1, <1>2 DEF NumbersInv, VisitorShapes, Signed, Chosen
<1> QED BY <1>6, <1>7 DEF NumbersInv

(* The identifier gets a number, whichever it is. *)
LEMMA NumberGiven ==
    ASSUME NumbersInv, NEW r \in Requests, NEW n, at[r] = "numbering",
           Visitors!Go(r, "known", [who[r] EXCEPT !.number = n]),
           UNCHANGED <<cookie, cache, rows, lookups, messages, writing, ids>>
    PROVE  NumbersInv'
<1> DEFINE j == [id |-> who[r].id, number |-> n]
<1>0. who[r] = Identity(who[r]) /\ who[r].id \in 1..ids /\ ids \in Nat
  BY DEF NumbersInv, Numbered, VisitorShapes
<1>1. [who[r] EXCEPT !.number = n] = j
  BY <1>0 DEF Identity
<1>2. /\ at' = [q \in Requests |-> IF q = r THEN "known" ELSE at[q]]
      /\ who' = [q \in Requests |-> IF q = r THEN j ELSE who[q]]
  BY <1>1, Moved DEF NumbersInv
<1>3. InUse' \subseteq InUse \cup {j}
  BY <1>2 DEF InUse, Identity, Visitors!NoOne
<1>4. \A x \in InUse : x.id # j.id
  BY DEF NumbersInv, Numbered
<1>5. Numbered'
  <2>1. \A x \in InUse' : x.id \in 0..ids' /\ x = Identity(x)
                          /\ (x.id = 0 => x = Visitors!NoOne)
    BY <1>0, <1>3 DEF NumbersInv, Numbered, Identity
  <2>2. \A x, y \in InUse' : x.id = y.id => x.number = y.number
    BY <1>3, <1>4 DEF NumbersInv, Numbered
  <2>3. ASSUME NEW q \in Requests, at'[q] = "numbering"
        PROVE  /\ who'[q] = Identity(who'[q]) /\ who'[q].id \in 1..ids'
               /\ \A x \in InUse' : x.id # who'[q].id
               /\ \A p \in Requests :
                     at'[p] = "numbering" /\ who'[p].id = who'[q].id => p = q
    <3>1. q # r /\ at[q] = "numbering" /\ who'[q] = who[q]
      BY <1>2, <2>3
    <3>2. j.id # who[q].id
      BY <3>1 DEF NumbersInv, Numbered
    <3> QED BY <1>2, <1>3, <3>1, <3>2 DEF NumbersInv, Numbered
  <2> QED BY <2>1, <2>2, <2>3 DEF Numbered, Visitors!NoOne, Identity
<1>6. VisitorShapes' /\ Signed'
  BY <1>0, <1>2 DEF NumbersInv, VisitorShapes, Signed, Chosen
<1> QED BY <1>5, <1>6 DEF NumbersInv

LEMMA KnownFingerprint == ASSUME NEW r \in Requests PROVE Visitors!Fp(r) \in Visitors!Fingerprints
BY ServicesAssumption DEF Visitors!Assumption, Visitors!Fp, Visitors!Fingerprints

LEMMA HandlerNumbers ==
    ASSUME NumbersInv, NEW r \in Requests,
           Visitors!Begin(r) \/ Visitors!Handle(r) \/ Visitors!Disconnect(r)
    PROVE  NumbersInv'
<1> USE DEF Visitors!Unheard, Visitors!tableVars
<1>1. CASE Visitors!Begin(r)
  <2>1. BrowserOf[r] \in Browsers
    BY ServicesAssumption DEF Visitors!Assumption
  <2>2. UNCHANGED <<cookie, cache, rows, messages, writing, ids>>
    BY <1>1 DEF Visitors!Begin
  <2>3. CASE Visitors!Go(r, "looking", Visitors!NoOne)
             /\ lookups' = Append(lookups, [kind |-> "lookup", for |-> r, i |-> Visitors!NoOne])
    <3>1. HandlersKeep
      BY <2>3, Settled, UsedSomewhere DEF Chosen
    <3>2. LookupsKeep
      BY <2>3, LookupsMove, UsedSomewhere
    <3> QED BY <2>2, <3>1, <3>2, Standing, Rearranged
  <2>4. CASE cookie[BrowserOf[r]] # Visitors!NoOne
             /\ Visitors!Go(r, "known", cookie[BrowserOf[r]]) /\ UNCHANGED lookups
    <3>1. cookie[BrowserOf[r]] \in InUse
      BY <2>1, UsedSomewhere
    <3>2. cookie[BrowserOf[r]].id # 0
      BY <2>4, <3>1 DEF NumbersInv, Numbered
    <3>3. HandlersKeep
      BY <2>4, <3>1, <3>2, Settled
    <3> QED BY <2>2, <2>4, <3>3, Standing, Rearranged
  <2> QED BY <1>1, <2>3, <2>4 DEF Visitors!Begin
<1>2. CASE Visitors!Resolve(r)
  <2>1. PICK row \in rows :
          Visitors!Go(r, "known", [id |-> row.id, number |-> row.number])
    BY <1>2 DEF Visitors!Resolve
  <2>2. Identity(row) \in InUse /\ Identity(row).id # 0
        /\ Visitors!Go(r, "known", Identity(row))
    BY <2>1, UsedSomewhere DEF Identity, NumbersInv, Signed
  <2>3. HandlersKeep
    BY <2>2, Settled
  <2> QED BY <1>2, <2>3, Standing, Rearranged DEF Visitors!Resolve
<1>3. CASE Visitors!Create(r)
  BY <1>3, CreateNumbers
<1>4. CASE Visitors!Remember(r)
  <2>1. who[r] \in InUse /\ who[r].id # 0
    BY <1>4, UsedSomewhere DEF Visitors!Remember, NumbersInv, Signed, Chosen
  <2>2. HandlersKeep
    BY <1>4, <2>1, Settled DEF Visitors!Remember
  <2>3. LookupsKeep
    BY <1>4, <2>1, LookupsMove DEF Visitors!Remember
  <2> QED BY <1>4, <2>2, <2>3, Standing, Rearranged DEF Visitors!Remember
<1>5. CASE Visitors!GiveUp(r)
  <2> USE DEF Visitors!GiveUp
  <2>1. CASE at[r] = "numbering" /\ Visitors!Go(r, "known", [who[r] EXCEPT !.number = Fallback])
    BY <1>5, <2>1, NumberGiven
  <2>2. CASE at[r] = "looking" /\ Visitors!Go(r, "resolving", Visitors!NoOne)
    <3>1. HandlersKeep
      BY <2>2, Settled, UsedSomewhere DEF Chosen
    <3> QED BY <1>5, <3>1, Standing, Rearranged
  <2>3. CASE at[r] \in {"known", "storing"} /\ Visitors!Go(r, "sending", who[r])
    <3>1. who[r] \in InUse /\ who[r].id # 0
      BY <2>3, UsedSomewhere DEF NumbersInv, Signed, Chosen
    <3>2. HandlersKeep
      BY <2>3, <3>1, Settled
    <3> QED BY <1>5, <3>2, Standing, Rearranged
  <2> QED BY <1>5, <2>1, <2>2, <2>3
<1>6. CASE Visitors!Send(r)
  <2>1. at[r] \in Chosen /\ who[r] \in InUse /\ who[r].id # 0
    BY <1>6, UsedSomewhere DEF Visitors!Send, NumbersInv, Signed, Chosen
  <2>2. HandlersKeep
    BY <1>6, <2>1, Settled DEF Visitors!Send
  <2>3. MessagesKeep
    BY <1>6, <2>1, Posted DEF Visitors!Send
  <2> QED BY <1>6, <2>2, <2>3, Standing, Rearranged DEF Visitors!Send
<1>7. CASE Visitors!Respond(r)
  <2>1. at[r] \in Chosen /\ who[r] \in InUse
    BY <1>7, UsedSomewhere DEF Visitors!Respond, Chosen
  <2>2. HandlersKeep
    BY <1>7, Settled, UsedSomewhere DEF Visitors!Respond, Chosen
  <2>3. MessagesKeep
    BY <1>7, <2>1, Posted DEF Visitors!Respond
  <2>4. CookiesKeep
    BY <1>7, <2>1, UsedSomewhere DEF Visitors!Respond, CookiesKeep, NumbersInv, VisitorShapes
  <2> QED BY <1>7, <2>2, <2>3, <2>4, Standing, Rearranged DEF Visitors!Respond
<1>8. CASE Visitors!Disconnect(r)
  BY <1>8, Standing, Rearranged DEF Visitors!Disconnect
<1> QED
  BY <1>1, <1>2, <1>3, <1>4, <1>5, <1>6, <1>7, <1>8 DEF Visitors!Handle

LEMMA ServiceNumbers ==
    ASSUME NumbersInv, Visitors!ServeLookup \/ Visitors!ServeStore \/ Visitors!ServeNumber
    PROVE  NumbersInv'
<1> USE DEF Visitors!Served, Visitors!tableVars
<1>1. CASE Visitors!ServeLookup
  <2> DEFINE r == Head(lookups).for
             hit == cache[Visitors!Fp(r)]
  <2>1. LookupsKeep
    BY <1>1, LookupsMove DEF Visitors!ServeLookup
  <2>2. HandlersKeep
    <3>1. CASE UNCHANGED <<at, who>>
      BY <3>1, Standing
    <3>2. CASE r \notin Requests
      BY <1>1, <3>1, <3>2 DEF Visitors!ServeLookup, Visitors!Go, NumbersInv, VisitorShapes
    <3>3. CASE r \in Requests /\ at[r] = "looking"
      <4>1. hit \in InUse /\ (hit.id = 0 => hit = Visitors!NoOne)
        BY <3>3, KnownFingerprint, UsedSomewhere DEF NumbersInv, Numbered
      <4>2. Visitors!Go(r, IF hit = Visitors!NoOne THEN "resolving" ELSE "known", hit)
        BY <1>1, <3>3 DEF Visitors!ServeLookup
      <4> QED BY <4>1, <4>2, Settled DEF Chosen
    <3> QED BY <1>1, <3>1, <3>2, <3>3 DEF Visitors!ServeLookup
  <2> QED BY <1>1, <2>1, <2>2, Standing, Rearranged DEF Visitors!ServeLookup
<1>2. CASE Visitors!ServeStore
  <2> DEFINE r == Head(lookups).for
             j == Head(lookups).i
  <2>1. LookupsKeep
    BY <1>2, LookupsMove DEF Visitors!ServeStore
  <2>2. j \in InUse
    BY <1>2, TailOf, UsedSomewhere DEF Visitors!ServeStore, NumbersInv, VisitorShapes
  <2>3. CacheKeeps
    BY <1>2, <2>2, UsedSomewhere DEF Visitors!ServeStore, CacheKeeps, NumbersInv, VisitorShapes
  <2>4. HandlersKeep
    <3>1. CASE UNCHANGED <<at, who>>
      BY <3>1, Standing
    <3>2. CASE r \notin Requests
      BY <1>2, <3>1, <3>2 DEF Visitors!ServeStore, Visitors!Go, NumbersInv, VisitorShapes
    <3>3. CASE r \in Requests /\ at[r] = "storing" /\ Visitors!Go(r, "sending", who[r])
      BY <3>3, Settled, UsedSomewhere DEF NumbersInv, Signed, Chosen
    <3> QED BY <1>2, <3>1, <3>2, <3>3 DEF Visitors!ServeStore
  <2> QED BY <1>2, <2>1, <2>3, <2>4, Standing, Rearranged DEF Visitors!ServeStore
<1>3. CASE Visitors!ServeNumber
  <2> DEFINE r == Head(numbers)
  <2>1. CASE UNCHANGED <<at, who>>
    BY <1>3, <2>1, Standing, Rearranged DEF Visitors!ServeNumber
  <2>2. CASE r \notin Requests
    BY <1>3, <2>1, <2>2 DEF Visitors!ServeNumber, Visitors!Go, NumbersInv, VisitorShapes
  <2>3. ASSUME r \in Requests, at[r] = "numbering", NEW n,
               Visitors!Go(r, "known", [who[r] EXCEPT !.number = n])
        PROVE  NumbersInv'
    BY <1>3, <2>3, NumberGiven DEF Visitors!ServeNumber
  <2> QED BY <1>3, <2>1, <2>2, <2>3 DEF Visitors!ServeNumber
<1> QED BY <1>1, <1>2, <1>3

LEMMA WriterNumbers ==
    ASSUME NumbersInv, Visitors!TakeMessage \/ Visitors!Write
    PROVE  NumbersInv'
<1> USE DEF Visitors!handlerVars, Visitors!tableVars
<1>1. CASE Visitors!TakeMessage
  <2> DEFINE m == Head(messages)
  <2>1. writing' = <<m>> /\ messages' = Tail(messages) /\ messages # <<>>
    BY <1>1 DEF Visitors!TakeMessage
  <2>2. m = messages[1] /\ 1 \in 1..Len(messages)
    BY <2>1, TailOf DEF NumbersInv, VisitorShapes
  <2>3. Identity(m) \in InUse /\ m.id # 0
    BY <2>2, UsedSomewhere DEF NumbersInv, Signed
  <2> HIDE DEF m
  <2>4. WritingKeeps
    BY <2>1, <2>3, OneSeq DEF WritingKeeps
  <2>5. MessagesKeep
    BY <2>1, TailOf, UsedSomewhere DEF MessagesKeep, NumbersInv, VisitorShapes, Signed
  <2> QED BY <1>1, <2>4, <2>5, Standing, Rearranged DEF Visitors!TakeMessage
<1>2. CASE Visitors!Write
  <2> DEFINE m == writing[1]
  <2>1. Identity(m) \in InUse /\ m.id # 0
    BY <1>2, TailOf, UsedSomewhere DEF Visitors!Write, NumbersInv, VisitorShapes, Signed
  <2>2. \A row \in rows' : row \in rows \/ row = [fp |-> m.fp, id |-> m.id, number |-> m.number]
    BY <1>2 DEF Visitors!Write
  <2>3. RowsKeep
    <3>1. ASSUME NEW row \in rows' PROVE Identity(row) \in InUse /\ row.id # 0
      <4>1. CASE row \in rows
        BY <4>1, UsedSomewhere DEF NumbersInv, Signed
      <4>2. CASE row = [fp |-> m.fp, id |-> m.id, number |-> m.number]
        BY <2>1, <4>2 DEF Identity
      <4> QED BY <2>2, <4>1, <4>2
    <3> QED BY <3>1 DEF RowsKeep
  <2>4. WritingKeeps
    BY <1>2, NoSeq DEF Visitors!Write, WritingKeeps
  <2> QED BY <1>2, <2>3, <2>4, Standing, Rearranged DEF Visitors!Write
<1> QED BY <1>1, <1>2

LEMMA NumbersStep == ASSUME NumbersInv, Visitors!Next PROVE NumbersInv'
<1>1. ASSUME NEW f \in Visitors!Fingerprints, Visitors!Expire(f)
      PROVE  NumbersInv'
  <2>1. CacheKeeps
    BY <1>1, UsedSomewhere DEF Visitors!Expire, CacheKeeps, NumbersInv, VisitorShapes
  <2> QED BY <1>1, <2>1, Standing, Rearranged
          DEF Visitors!Expire, Visitors!handlerVars, Visitors!tableVars
<1>2. CASE Visitors!Crash
  <2> USE <1>2, NoSeq, UsedSomewhere DEF Visitors!Crash
  <2>1. HandlersKeep
    BY DEF HandlersKeep, Chosen
  <2>2. CacheKeeps /\ MessagesKeep /\ WritingKeeps /\ LookupsKeep
    BY DEF CacheKeeps, MessagesKeep, WritingKeeps, LookupsKeep
  <2>3. RowsKeep /\ CookiesKeep /\ UNCHANGED ids
    BY Standing DEF Visitors!tableVars
  <2> QED BY <2>1, <2>2, <2>3, Rearranged
<1> QED
  BY <1>1, <1>2, HandlerNumbers, ServiceNumbers, WriterNumbers DEF Visitors!Next

(* The same after a step. *)
SafeNext(s) == s \in lost' \/ \E row \in rows' : row.id = s
UnderNext(s, n) ==
    \/ SafeNext(s)
    \/ \E k \in 1..Len(writing') : writing'[k].kind = "session" /\ writing'[k].id = s
    \/ \E k \in 1..Len(messages') :
          k < n /\ messages'[k].kind = "session" /\ messages'[k].id = s

LEMMA EventsNext ==
    ASSUME \A s \in events' : s \in 1..ids' /\ SafeNext(s),
           \A k \in 1..Len(writing') : writing'[k].kind = "event" => SafeNext(writing'[k].id),
           \A n \in 1..Len(messages') :
              messages'[n].kind = "event" => UnderNext(messages'[n].id, n),
           \A r \in Requests :
              at'[r] = "recording" => UnderNext(who'[r].id, Len(messages') + 1)
    PROVE  EventsInv'
BY DEF EventsInv, Under, Safe, UnderNext, SafeNext

(* Handlers that record nothing, and the goroutine at other channels.      *)
LEMMA NothingRecorded ==
    ASSUME NumbersInv, EventsInv, UNCHANGED <<rows, events, lost, messages, writing>>,
           ids' = ids \/ ids' = ids + 1,
           \A r \in Requests : at'[r] = "recording" => at[r] = "recording" /\ who'[r] = who[r]
    PROVE  EventsInv'
<1>1. \A s \in 1..ids : s \in 1..ids'
  BY DEF NumbersInv, VisitorShapes
<1> QED BY <1>1 DEF EventsInv, Under, Safe

LEMMA RecordsNothing ==
    ASSUME NumbersInv, NEW r, NEW place, NEW j, Visitors!Go(r, place, j), place # "recording"
    PROVE  \A q \in Requests : at'[q] = "recording" => at[q] = "recording" /\ who'[q] = who[q]
BY Moved DEF NumbersInv

(* A message is put at the end of the queue, if there is room. *)
LEMMA PostedBehind ==
    ASSUME NumbersInv, NEW r \in Requests, NEW kind, Visitors!Post(r, kind)
    PROVE  \/ /\ IsSeq(messages') /\ Len(messages) \in Nat /\ Len(messages') = Len(messages) + 1
              /\ \A k \in 1..Len(messages) : messages'[k] = messages[k]
              /\ messages'[Len(messages) + 1].kind = kind
              /\ messages'[Len(messages) + 1].id = who[r].id
              /\ UNCHANGED lost
           \/ /\ UNCHANGED messages /\ Len(messages) \in Nat
              /\ lost' = IF kind = "session" THEN lost \cup {who[r].id} ELSE lost
<1> DEFINE m == [kind |-> kind, id |-> who[r].id, number |-> who[r].number,
                 fp |-> Visitors!Fp(r)]
<1>1. \/ messages' = Append(messages, m) /\ UNCHANGED lost
      \/ /\ UNCHANGED messages
         /\ lost' = IF kind = "session" THEN lost \cup {who[r].id} ELSE lost
  BY DEF Visitors!Post
<1>2. m.kind = kind /\ m.id = who[r].id
  OBVIOUS
<1> HIDE DEF m
<1>3. IsSeq(messages)
  BY DEF NumbersInv, VisitorShapes
<1>4. CASE messages' = Append(messages, m) /\ UNCHANGED lost
  BY <1>2, <1>3, <1>4, AppendOf
<1>5. Len(messages) \in Nat
  BY <1>3, AppendOf
<1> QED BY <1>1, <1>4, <1>5

LEMMA SendEvents ==
    ASSUME NumbersInv, EventsInv, NEW r \in Requests, Visitors!Send(r)
    PROVE  EventsInv'
<1>1. UNCHANGED <<rows, events, writing, ids>>
  BY DEF Visitors!Send, Visitors!tableVars
<1>2. \A q \in Requests : at'[q] = "recording" =>
         who'[q] = who[q] /\ (at[q] = "recording" \/ q = r)
  BY Moved DEF NumbersInv, Visitors!Send
<1>3. CASE /\ Len(messages) \in Nat /\ Len(messages') = Len(messages) + 1
           /\ \A k \in 1..Len(messages) : messages'[k] = messages[k]
           /\ messages'[Len(messages) + 1].kind = "session"
           /\ messages'[Len(messages) + 1].id = who[r].id
           /\ UNCHANGED lost
  <2>1. \A s : \A n \in 1..(Len(messages) + 1) : Under(s, n) => UnderNext(s, n) /\ UnderNext(s, n + 1)
    BY <1>1, <1>3 DEF Under, Safe, UnderNext, SafeNext
  <2>2. UnderNext(who[r].id, Len(messages) + 2)
    BY <1>3 DEF Under, UnderNext
  <2>3. \A n \in 1..Len(messages') : messages'[n].kind = "event" => n \in 1..Len(messages)
    BY <1>3
  <2>4. \A s \in events' : s \in 1..ids' /\ SafeNext(s)
    BY <1>1, <1>3 DEF EventsInv, Safe, SafeNext
  <2>5. \A k \in 1..Len(writing') : writing'[k].kind = "event" => SafeNext(writing'[k].id)
    BY <1>1, <1>3 DEF EventsInv, Safe, SafeNext
  <2>6. \A n \in 1..Len(messages') :
           messages'[n].kind = "event" => UnderNext(messages'[n].id, n)
    BY <1>3, <2>1, <2>3 DEF EventsInv
  <2>7. \A q \in Requests : at'[q] = "recording" => UnderNext(who'[q].id, Len(messages') + 1)
    BY <1>2, <1>3, <2>1, <2>2 DEF EventsInv
  <2> QED BY <2>4, <2>5, <2>6, <2>7, EventsNext
<1>4. CASE UNCHANGED messages /\ Len(messages) \in Nat /\ lost' = lost \cup {who[r].id}
  <2>1. \A s : Safe(s) => SafeNext(s)
    BY <1>1, <1>4 DEF Safe, SafeNext
  <2>2. \A s, n : Under(s, n) => UnderNext(s, n)
    BY <1>1, <1>4, <2>1 DEF Under, UnderNext
  <2>3. \A n : UnderNext(who[r].id, n)
    BY <1>4 DEF Under, Safe, UnderNext, SafeNext
  <2> QED BY <1>1, <1>2, <1>4, <2>1, <2>2, <2>3, EventsNext DEF EventsInv
<1> QED BY <1>3, <1>4, PostedBehind DEF Visitors!Send

LEMMA RespondEvents ==
    ASSUME NumbersInv, EventsInv, NEW r \in Requests, Visitors!Respond(r)
    PROVE  EventsInv'
<1>1. UNCHANGED <<rows, events, writing, ids, lost>>
  BY PostedBehind DEF Visitors!Respond, Visitors!tableVars
<1>2. /\ at[r] = "recording"
      /\ \A q \in Requests : at'[q] = "recording" => at[q] = "recording" /\ who'[q] = who[q]
  BY RecordsNothing DEF Visitors!Respond
<1>3. CASE /\ Len(messages) \in Nat /\ Len(messages') = Len(messages) + 1
           /\ \A k \in 1..Len(messages) : messages'[k] = messages[k]
           /\ messages'[Len(messages) + 1].id = who[r].id
  <2>1. \A s : \A n \in 1..(Len(messages) + 1) : Under(s, n) => UnderNext(s, n) /\ UnderNext(s, n + 1)
    BY <1>1, <1>3 DEF Under, Safe, UnderNext, SafeNext
  <2>2. \A n \in 1..Len(messages') : n \in 1..Len(messages) \/ n = Len(messages) + 1
    BY <1>3
  <2>3. \A s \in events' : s \in 1..ids' /\ SafeNext(s)
    BY <1>1 DEF EventsInv, Safe, SafeNext
  <2>4. \A k \in 1..Len(writing') : writing'[k].kind = "event" => SafeNext(writing'[k].id)
    BY <1>1 DEF EventsInv, Safe, SafeNext
  <2>5. UnderNext(who[r].id, Len(messages) + 1)
    BY <1>2, <1>3, <2>1 DEF EventsInv
  <2>6. \A n \in 1..Len(messages') :
           messages'[n].kind = "event" => UnderNext(messages'[n].id, n)
    BY <1>3, <2>1, <2>2, <2>5 DEF EventsInv
  <2>7. \A q \in Requests : at'[q] = "recording" => UnderNext(who'[q].id, Len(messages') + 1)
    BY <1>2, <1>3, <2>1 DEF EventsInv
  <2> QED BY <2>3, <2>4, <2>6, <2>7, EventsNext
<1>4. CASE UNCHANGED messages
  BY <1>1, <1>2, <1>4, NothingRecorded
<1> QED BY <1>3, <1>4, PostedBehind DEF Visitors!Respond

LEMMA HandlerEvents ==
    ASSUME NumbersInv, EventsInv, NEW r \in Requests,
           Visitors!Begin(r) \/ Visitors!Handle(r) \/ Visitors!Disconnect(r)
    PROVE  EventsInv'
<1> USE DEF Visitors!Unheard, Visitors!tableVars
<1>1. CASE Visitors!Begin(r)
  BY <1>1, RecordsNothing, NothingRecorded DEF Visitors!Begin
<1>2. CASE Visitors!Resolve(r)
  BY <1>2, RecordsNothing, NothingRecorded DEF Visitors!Resolve
<1>3. CASE Visitors!Create(r)
  BY <1>3, RecordsNothing, NothingRecorded DEF Visitors!Create
<1>4. CASE Visitors!Remember(r)
  BY <1>4, RecordsNothing, NothingRecorded DEF Visitors!Remember
<1>5. CASE Visitors!GiveUp(r)
  BY <1>5, RecordsNothing, NothingRecorded DEF Visitors!GiveUp
<1>6. CASE Visitors!Disconnect(r)
  BY <1>6, NothingRecorded DEF Visitors!Disconnect
<1> QED
  BY <1>1, <1>2, <1>3, <1>4, <1>5, <1>6, SendEvents, RespondEvents DEF Visitors!Handle

LEMMA ServiceEvents ==
    ASSUME NumbersInv, EventsInv,
           Visitors!ServeLookup \/ Visitors!ServeStore \/ Visitors!ServeNumber
    PROVE  EventsInv'
<1> USE DEF Visitors!Served, Visitors!tableVars
<1>1. CASE Visitors!ServeLookup
  BY <1>1, RecordsNothing, NothingRecorded DEF Visitors!ServeLookup
<1>2. CASE Visitors!ServeStore
  BY <1>2, RecordsNothing, NothingRecorded DEF Visitors!ServeStore
<1>3. CASE Visitors!ServeNumber
  BY <1>3, RecordsNothing, NothingRecorded DEF Visitors!ServeNumber
<1> QED BY <1>1, <1>2, <1>3

(* The queue moves up by one, and its head is being written. *)
LEMMA TakeEvents ==
    ASSUME NumbersInv, EventsInv, Visitors!TakeMessage
    PROVE  EventsInv'
<1> DEFINE m == messages[1]
<1>1. UNCHANGED <<rows, events, lost, at, who, ids>>
  BY DEF Visitors!TakeMessage, Visitors!handlerVars, Visitors!tableVars
<1>2. /\ Len(messages) \in Nat \ {0} /\ Len(messages') = Len(messages) - 1
      /\ \A k \in 1..Len(messages') : k + 1 \in 1..Len(messages) /\ messages'[k] = messages[k + 1]
      /\ writing' = <<m>> /\ Len(writing) = 0
  BY TailOf, NoSeq DEF Visitors!TakeMessage, Visitors!Selecting, NumbersInv, VisitorShapes
<1> HIDE DEF m
<1>3. Len(writing') = 1 /\ writing'[1] = m
  BY <1>2, OneSeq
<1>4. \A s : Safe(s) => SafeNext(s)
  BY <1>1 DEF Safe, SafeNext
<1>5. ASSUME NEW s, NEW n \in 1..(Len(messages) + 1), Under(s, n)
      PROVE  UnderNext(s, n - 1)
  <2>1. CASE Safe(s)
    BY <1>4, <2>1 DEF Under, UnderNext
  <2>2. ASSUME NEW k \in 1..Len(messages), k < n, messages[k].kind = "session",
               messages[k].id = s
        PROVE  UnderNext(s, n - 1)
    <3>1. CASE k = 1
      BY <1>3, <2>2, <3>1 DEF Under, UnderNext, m
    <3>2. CASE k # 1
      <4>1. k - 1 \in 1..Len(messages') /\ k - 1 < n - 1 /\ messages'[k - 1] = messages[k]
        BY <1>2, <2>2, <3>2
      <4> QED BY <2>2, <4>1 DEF Under, UnderNext
    <3> QED BY <3>1, <3>2
  <2> QED BY <1>2, <1>5, <2>1, <2>2 DEF Under, UnderNext
<1>6. m.kind = "event" => Safe(m.id)
  BY <1>2 DEF EventsInv, Under, m
<1>7. \A s \in events' : s \in 1..ids' /\ SafeNext(s)
  BY <1>1, <1>4 DEF EventsInv
<1>8. \A k \in 1..Len(writing') : writing'[k].kind = "event" => SafeNext(writing'[k].id)
  BY <1>3, <1>4, <1>6
<1>9. ASSUME NEW n \in 1..Len(messages'), messages'[n].kind = "event"
      PROVE  UnderNext(messages'[n].id, n)
  <2>1. n + 1 \in 1..Len(messages) /\ messages'[n] = messages[n + 1] /\ n = (n + 1) - 1
    BY <1>2
  <2>2. Under(messages[n + 1].id, n + 1)
    BY <1>9, <2>1 DEF EventsInv
  <2>3. UnderNext(messages[n + 1].id, (n + 1) - 1)
    BY <1>5, <2>1, <2>2
  <2> QED BY <2>1, <2>3
<1>10. ASSUME NEW q \in Requests, at'[q] = "recording"
       PROVE  UnderNext(who'[q].id, Len(messages') + 1)
  <2>1. Under(who[q].id, Len(messages) + 1)
    BY <1>1, <1>10 DEF EventsInv
  <2>2. Len(messages) + 1 \in 1..(Len(messages) + 1)
    BY <1>2
  <2>3. UnderNext(who[q].id, (Len(messages) + 1) - 1)
    BY <1>5, <2>1, <2>2
  <2> QED BY <1>1, <1>2, <2>3
<1> QED BY <1>7, <1>8, <1>9, <1>10, EventsNext

LEMMA WriteEvents ==
    ASSUME NumbersInv, EventsInv, Visitors!Write
    PROVE  EventsInv'
<1> DEFINE m == writing[1]
<1>1. UNCHANGED <<at, who, messages, ids>> /\ Len(writing') = 0
  BY NoSeq DEF Visitors!Write, Visitors!handlerVars
<1>2. Len(writing) = 1
  <2>1. writing # <<>> /\ IsSeq(writing) /\ Len(writing) <= 1
    BY DEF Visitors!Write, NumbersInv, VisitorShapes
  <2> QED BY <2>1, TailOf
<1>3. /\ events' = events \/ (m.kind = "event" /\ events' = events \cup {m.id})
      /\ \A s : Safe(s) => SafeNext(s)
      /\ m.kind = "session" => SafeNext(m.id)
  <2>1. CASE /\ m.kind = "session" /\ UNCHANGED <<events, lost>>
             /\ rows' = {q \in rows : q.id # m.id}
                        \cup {[fp |-> m.fp, id |-> m.id, number |-> m.number]}
    <3>1. SafeNext(m.id)
      <4> DEFINE row == [fp |-> m.fp, id |-> m.id, number |-> m.number]
      <4>1. row \in rows' /\ row.id = m.id
        BY <2>1
      <4> HIDE DEF row
      <4> QED BY <4>1 DEF SafeNext
    <3>2. ASSUME NEW s, Safe(s), s # m.id PROVE SafeNext(s)
      <4>1. CASE s \in lost
        BY <2>1, <4>1 DEF SafeNext
      <4>2. ASSUME NEW q \in rows, q.id = s PROVE SafeNext(s)
        <5>1. q \in rows'
          BY <2>1, <3>2, <4>2
        <5> QED BY <4>2, <5>1 DEF SafeNext
      <4> QED BY <3>2, <4>1, <4>2 DEF Safe
    <3> QED BY <2>1, <3>1, <3>2
  <2>2. CASE m.kind = "event" /\ events' = events \cup {m.id} /\ UNCHANGED <<rows, lost>>
    BY <2>2 DEF Safe, SafeNext
  <2>3. CASE /\ lost' = IF m.kind = "session" THEN lost \cup {m.id} ELSE lost
             /\ UNCHANGED <<rows, events>>
    BY <2>3 DEF Safe, SafeNext
  <2> QED BY <2>1, <2>2, <2>3 DEF Visitors!Write
<1>4. m.id \in 1..ids
  <2>1. Identity(m) \in InUse /\ m.id # 0 /\ Identity(m).id = m.id
    BY <1>2, UsedSomewhere DEF NumbersInv, Signed, Identity
  <2> QED BY <2>1 DEF NumbersInv, Numbered, VisitorShapes
<1>5. m.kind = "event" => Safe(m.id)
  BY <1>2 DEF EventsInv
<1> HIDE DEF m
<1>6. \A s, n : Under(s, n) => UnderNext(s, n)
  <2> TAKE s, n
  <2>1. ASSUME NEW k \in 1..Len(writing), writing[k].kind = "session", writing[k].id = s
        PROVE  SafeNext(s)
    BY <1>2, <1>3, <2>1 DEF m
  <2> QED BY <1>1, <1>3, <2>1 DEF Under, UnderNext
<1>7. \A s \in events' : s \in 1..ids' /\ SafeNext(s)
  BY <1>1, <1>3, <1>4, <1>5 DEF EventsInv
<1> QED BY <1>1, <1>6, <1>7, EventsNext DEF EventsInv

LEMMA EventsStep == ASSUME NumbersInv, EventsInv, Visitors!Next PROVE EventsInv'
<1>1. ASSUME NEW f, Visitors!Expire(f) PROVE EventsInv'
  BY <1>1, NothingRecorded DEF Visitors!Expire, Visitors!handlerVars, Visitors!tableVars
<1>2. CASE Visitors!Crash
  <2>1. \A s \in 1..ids : SafeNext(s)
    BY <1>2 DEF Visitors!Crash, SafeNext
  <2>2. UNCHANGED <<events, ids>> /\ Len(writing') = 0 /\ Len(messages') = 0
    BY <1>2, NoSeq DEF Visitors!Crash, Visitors!tableVars
  <2>3. \A r \in Requests : at'[r] # "recording"
    BY <1>2 DEF Visitors!Crash
  <2> QED BY <2>1, <2>2, <2>3, EventsNext DEF EventsInv
<1> QED BY <1>1, <1>2, HandlerEvents, ServiceEvents, TakeEvents, WriteEvents DEF Visitors!Next

LEMMA VisitorsStutter == ASSUME VisitorsInv, UNCHANGED visitorVars PROVE VisitorsInv'
<1> USE DEF visitorVars, VisitorsInv
<1>1. NumbersInv'
  BY Standing, Rearranged
<1>2. EventsInv'
  BY NothingRecorded
<1> QED BY <1>1, <1>2

(* The property of the run: one session has one number wherever it is      *)
(* known, and a session with an event is in the table unless its own       *)
(* message was lost (analytics ensureSession, run).                        *)
THEOREM SessionsStayOne == SiteSpec => []SessionsAgree
<1>1. SiteInit => VisitorsInv
  BY VisitorsStart DEF SiteInit
<1>2. VisitorsInv /\ [SiteNext]_siteVars => VisitorsInv'
  BY VisitorsStutter, NumbersStep, EventsStep
     DEF VisitorsInv, SiteNext, MoveCache, MoveTrackInfo, MoveLinks, MoveVisitors, siteVars
<1>3. VisitorsInv => SessionsAgree
  BY UsedSomewhere DEF VisitorsInv, NumbersInv, Numbered, EventsInv, Safe, Identity,
     SessionsAgree, Visitors!SessionsAgree
<1> QED BY <1>1, <1>2, <1>3, PTL DEF SiteSpec
=============================================================================
