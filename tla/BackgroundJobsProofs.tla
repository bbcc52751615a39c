-------------------------- MODULE BackgroundJobsProofs --------------------------
(***************************************************************************)
(* Proofs about the goroutines of the process, for any tracks, page sizes, *)
(* faults, callers and crashes: import_history is honest and lasting, an   *)
(* archive that is announced is there, the limiter keeps its burst for     *)
(* any requests, addresses, bursts and cooldowns and crashes only when it  *)
(* is overrun, and what each of them uses is bounded.                      *)
(***************************************************************************)
EXTENDS BackgroundJobs, FiniteSetTheorems, TLAPS

Sources == 1..MaxSources

(* HistoryHonest, written out. *)
Honest ==
    \A s \in Sources : /\ history[s] = "imported" => s \in stored
                       /\ history[s] = "skipped" => s \in Broken

(* The worker of either loader stores the markers first and asks for       *)
(* tracks without history only.                                            *)
LoaderInv ==
    /\ published \in 0..MaxSources /\ page \in Nat /\ queue \in Seq(Sources)
    /\ history \in [Sources -> {"none", "imported", "skipped"}]
    /\ source \in 0..MaxSources /\ working \in 0..3 /\ (source = 0 <=> working = 0)
    /\ working = 1 => history[source] = "none"
    /\ working > 1 => source \in stored
    /\ Honest

(* What the worker, and whatever else moves, may do to the history.        *)
Lasting ==
    \A s \in Sources :
        history[s] # "none" => history'[s] = history[s] /\ (source' = s => source = s)

(* The four kinds of steps of a loader, whichever provider it serves.      *)
Walks ==
    /\ UNCHANGED <<history, stored>>
    /\ published' \in 0..MaxSources /\ page' \in Nat /\ queue' \in Seq(Sources)
    /\ \/ UNCHANGED <<source, working>>
       \/ source' = 0 /\ working' = 0

Requested ==
    /\ UNCHANGED <<history, stored, published, page>>
    /\ queue' \in Seq(Sources)
    /\ source' \in Sources /\ history[source'] = "none" /\ working' = 1

Rejected ==
    /\ UNCHANGED <<stored, published, page, queue>>
    /\ working = 1 /\ source \in Broken
    /\ \/ UNCHANGED history
       \/ history' = [history EXCEPT ![source] = "skipped"]
    /\ source' = 0 /\ working' = 0

Worked ==
    /\ UNCHANGED <<published, page, queue>>
    /\ working > 0
    /\ stored \subseteq stored'
    /\ working = 1 => source \in stored' /\ UNCHANGED history
    /\ \/ UNCHANGED history
       \/ history[source] = "none" /\ history' = [history EXCEPT ![source] = "imported"]
    /\ \/ source' = 0 /\ working' = 0
       \/ source' = source /\ working' = working + 1 /\ working < 3

LoaderMoves == Walks \/ Requested \/ Rejected \/ Worked

LEMMA MovesKeep ==
    ASSUME LoaderInv, LoaderMoves
    PROVE  LoaderInv' /\ Lasting
<1> USE DEF LoaderInv, Honest, Sources, Lasting
<1>n. MaxSources \in Nat
  BY JobsAssumption DEF AtomFast!Assumption
<1>1. CASE Walks
  BY <1>1, <1>n DEF Walks
<1>2. CASE Requested
  BY <1>2, <1>n DEF Requested
<1>3. CASE Rejected
  BY <1>3, <1>n DEF Rejected
<1>4. CASE Worked
  BY <1>4, <1>n DEF Worked
<1> QED BY <1>1, <1>2, <1>3, <1>4 DEF LoaderMoves

-----------------------------------------------------------------------------
LEMMA AtomFastBounds ==
    ASSUME NEW a \in Int, NEW b \in Int
    PROVE  /\ AtomFast!Min({a, b}) \in {a, b}
           /\ AtomFast!Min({a, b}) <= a /\ AtomFast!Min({a, b}) <= b
           /\ AtomFast!Max({a, b}) \in {a, b}
           /\ AtomFast!Max({a, b}) >= a /\ AtomFast!Max({a, b}) >= b
<1>1. \E x \in {a, b} : \A y \in {a, b} : x <= y
  OBVIOUS
<1>2. \E x \in {a, b} : \A y \in {a, b} : x >= y
  OBVIOUS
<1> QED BY <1>1, <1>2 DEF AtomFast!Min, AtomFast!Max

LEMMA AtomFastPage ==
    ASSUME LoaderInv
    PROVE  AtomFast!Page(page + 1) \in Seq(Sources)
<1> DEFINE first == published - page * PageSize
           size == AtomFast!Min({PageSize, AtomFast!Max({first, 0})})
<1>1. PageSize \in Nat /\ page \in Nat /\ published \in 0..MaxSources /\ MaxSources \in Nat
  BY JobsAssumption DEF LoaderInv, AtomFast!Assumption
<1>2. page * PageSize \in Nat
  BY <1>1
<1>3. first \in Int /\ first <= MaxSources
  BY <1>1, <1>2
<1>4. size \in Nat /\ (size > 0 => size <= first)
  <2> DEFINE most == AtomFast!Max({first, 0})
  <2>0. 0 \in Int /\ PageSize \in Int
    BY <1>1
  <2> HIDE DEF first
  <2>1. most \in {first, 0} /\ most >= first /\ most >= 0
    BY Zenon, <1>3, <2>0, AtomFastBounds
  <2>2. most \in Int
    BY <2>1, <1>3
  <2> HIDE DEF most
  <2>3. size \in {PageSize, most} /\ size <= PageSize /\ size <= most
    BY Zenon, <2>0, <2>2, AtomFastBounds DEF most
  <2> HIDE DEF size
  <2> QED BY <1>1, <1>3, <2>1, <2>3
<1>5. \A i \in 1..size : first - i + 1 \in Sources
  BY <1>3, <1>4, <1>1 DEF Sources
<1>6. AtomFast!Page(page + 1) = [i \in 1..size |-> first - i + 1]
  <2>1. published - ((page + 1) - 1) * PageSize = first
    BY <1>1
  <2> QED BY Zenon, <2>1 DEF AtomFast!Page
<1> HIDE DEF size, first
<1>7. [i \in 1..size |-> first - i + 1] \in Seq(Sources)
  BY <1>4, <1>5
<1> QED BY <1>6, <1>7

LEMMA SamePage == \A p : Safecast!Page(p) = AtomFast!Page(p)
BY Zenon DEF AtomFast!Page, Safecast!Page, AtomFast!Min, Safecast!Min, AtomFast!Max, Safecast!Max

LEMMA AtomFastMoves == ASSUME LoaderInv, AtomFast!Next PROVE LoaderMoves
<1> USE DEF LoaderInv, Sources
<1>n. MaxSources \in Nat /\ <<>> \in Seq(Sources)
  BY JobsAssumption DEF AtomFast!Assumption
<1>q. queue # <<>> => Head(queue) \in Sources /\ Tail(queue) \in Seq(Sources)
  <2> HIDE DEF Sources
  <2>1. queue \in Seq(Sources)
    OBVIOUS
  <2> HIDE DEF LoaderInv
  <2> QED BY <2>1
<1>e. \A ph : AtomFast!Enter(ph) => page' \in Nat /\ queue' \in Seq(Sources)
  BY <1>n DEF AtomFast!Enter
<1>f. AtomFast!Finish => page' \in Nat /\ queue' \in Seq(Sources)
  BY Zenon, <1>e DEF AtomFast!Finish
<1>1. CASE AtomFast!Boot
  <2>1. page' \in Nat /\ queue' \in Seq(Sources)
    BY Zenon, <1>1, <1>e DEF AtomFast!Boot
  <2> QED BY <1>1, <2>1 DEF AtomFast!Boot, AtomFast!tables, LoaderMoves, Walks
<1>2. CASE AtomFast!Tick
  BY <1>2, <1>e DEF AtomFast!Tick, AtomFast!tables, LoaderMoves, Walks
<1>3. CASE AtomFast!FetchPage
  <2>1. page' \in Nat /\ queue' \in Seq(Sources)
    BY <1>3, <1>f, AtomFastPage DEF AtomFast!FetchPage
  <2> QED BY <1>3, <2>1 DEF AtomFast!FetchPage, AtomFast!tables, LoaderMoves, Walks
<1>4. CASE AtomFast!PageFails \/ AtomFast!NothingNew
  BY <1>4, <1>e, <1>f DEF AtomFast!PageFails, AtomFast!NothingNew, AtomFast!tables, LoaderMoves, Walks
<1>5. CASE AtomFast!Skip
  <2>1. page' \in Nat /\ queue' \in Seq(Sources)
    BY <1>5, <1>e, <1>q DEF AtomFast!Skip
  <2> QED BY <1>5, <2>1 DEF AtomFast!Skip, AtomFast!tables, LoaderMoves, Walks
<1>6. CASE AtomFast!Request
  BY <1>6, <1>q DEF AtomFast!Request, AtomFast!Known, AtomFast!tables, LoaderMoves, Requested
<1>7. CASE AtomFast!LookupFails
  BY <1>7, <1>q DEF AtomFast!LookupFails, AtomFast!tables, LoaderMoves, Walks
<1>8. CASE AtomFast!Reject
  BY <1>8 DEF AtomFast!Reject, AtomFast!WorkerWaits, LoaderMoves, Rejected
<1>9. CASE AtomFast!Work
  <2>1. /\ AtomFast!Order[1] = "markers" /\ Len(AtomFast!Order) = 3
        /\ AtomFast!Order[1] # "history"
    BY DEF AtomFast!Order
  <2>2. working = 1 => source \in stored' /\ UNCHANGED history
    BY <1>9, <2>1 DEF AtomFast!Work
  <2>3. \/ UNCHANGED history
        \/ history[source] = "none" /\ history' = [history EXCEPT ![source] = "imported"]
    BY <1>9 DEF AtomFast!Work, AtomFast!Known
  <2>4. \/ source' = 0 /\ working' = 0
        \/ source' = source /\ working' = working + 1 /\ working < 3
    BY <1>9, <2>1 DEF AtomFast!Work, AtomFast!WorkerWaits
  <2>5. stored \subseteq stored' /\ working > 0 /\ UNCHANGED <<published, page, queue>>
    BY <1>9 DEF AtomFast!Work
  <2> QED BY <2>2, <2>3, <2>4, <2>5 DEF LoaderMoves, Worked
<1>10. CASE AtomFast!WorkFails
  BY <1>10 DEF AtomFast!WorkFails, AtomFast!WorkerWaits, AtomFast!tables, LoaderMoves, Walks
<1>11. CASE AtomFast!Crash
  BY <1>11, <1>e DEF AtomFast!Crash, AtomFast!WorkerWaits, AtomFast!tables, LoaderMoves, Walks
<1>12. CASE AtomFast!Publish
  BY <1>12, <1>n DEF AtomFast!Publish, AtomFast!tables, LoaderMoves, Walks
<1> QED BY <1>1, <1>2, <1>3, <1>4, <1>5, <1>6, <1>7, <1>8, <1>9, <1>10, <1>11, <1>12 DEF AtomFast!Next

LEMMA SafecastMoves == ASSUME LoaderInv, Safecast!Next PROVE LoaderMoves
<1> USE DEF LoaderInv, Sources
<1>n. MaxSources \in Nat /\ <<>> \in Seq(Sources)
  BY JobsAssumption DEF AtomFast!Assumption
<1>q. queue # <<>> => Head(queue) \in Sources /\ Tail(queue) \in Seq(Sources)
  <2> HIDE DEF Sources
  <2>1. queue \in Seq(Sources)
    OBVIOUS
  <2> HIDE DEF LoaderInv
  <2> QED BY <2>1
<1>e. \A ph : Safecast!Enter(ph) => page' \in Nat /\ queue' \in Seq(Sources)
  BY <1>n DEF Safecast!Enter
<1>f. Safecast!Finish => page' \in Nat /\ queue' \in Seq(Sources)
  BY Zenon, <1>e DEF Safecast!Finish
<1>1. CASE Safecast!Boot
  <2>1. page' \in Nat /\ queue' \in Seq(Sources)
    BY Zenon, <1>1, <1>e DEF Safecast!Boot
  <2> QED BY <1>1, <2>1 DEF Safecast!Boot, Safecast!tables, LoaderMoves, Walks
<1>2. CASE Safecast!Tick
  BY <1>2, <1>e DEF Safecast!Tick, Safecast!tables, LoaderMoves, Walks
<1>3. CASE Safecast!FetchPage
  <2>1. page' \in Nat /\ queue' \in Seq(Sources)
    BY <1>3, <1>f, AtomFastPage, SamePage DEF Safecast!FetchPage
  <2> QED BY <1>3, <2>1 DEF Safecast!FetchPage, Safecast!tables, LoaderMoves, Walks
<1>4. CASE Safecast!PageFails \/ Safecast!NothingNew
  BY <1>4, <1>e, <1>f DEF Safecast!PageFails, Safecast!NothingNew, Safecast!tables, LoaderMoves, Walks
<1>5. CASE Safecast!Skip
  <2>1. page' \in Nat /\ queue' \in Seq(Sources)
    BY <1>5, <1>e, <1>q DEF Safecast!Skip
  <2> QED BY <1>5, <2>1 DEF Safecast!Skip, Safecast!tables, LoaderMoves, Walks
<1>6. CASE Safecast!Request
  BY <1>6, <1>q DEF Safecast!Request, Safecast!Known, Safecast!tables, LoaderMoves, Requested
<1>7. CASE Safecast!LookupFails
  BY <1>7, <1>q DEF Safecast!LookupFails, Safecast!tables, LoaderMoves, Walks
<1>8. CASE Safecast!Reject
  BY <1>8 DEF Safecast!Reject, Safecast!WorkerWaits, LoaderMoves, Rejected
<1>9. CASE Safecast!Work
  <2>1. /\ Safecast!Order[1] = "markers" /\ Len(Safecast!Order) = 3
        /\ Safecast!Order[1] # "history"
    BY DEF Safecast!Order
  <2>2. working = 1 => source \in stored' /\ UNCHANGED history
    BY <1>9, <2>1 DEF Safecast!Work
  <2>3. \/ UNCHANGED history
        \/ history[source] = "none" /\ history' = [history EXCEPT ![source] = "imported"]
    BY <1>9 DEF Safecast!Work, Safecast!Known
  <2>4. \/ source' = 0 /\ working' = 0
        \/ source' = source /\ working' = working + 1 /\ working < 3
    BY <1>9, <2>1 DEF Safecast!Work, Safecast!WorkerWaits
  <2>5. stored \subseteq stored' /\ working > 0 /\ UNCHANGED <<published, page, queue>>
    BY <1>9 DEF Safecast!Work
  <2> QED BY <2>2, <2>3, <2>4, <2>5 DEF LoaderMoves, Worked
<1>10. CASE Safecast!WorkFails
  BY <1>10 DEF Safecast!WorkFails, Safecast!WorkerWaits, Safecast!tables, LoaderMoves, Walks
<1>11. CASE Safecast!Crash
  BY <1>11, <1>e DEF Safecast!Crash, Safecast!WorkerWaits, Safecast!tables, LoaderMoves, Walks
<1>12. CASE Safecast!Publish
  BY <1>12, <1>n DEF Safecast!Publish, Safecast!tables, LoaderMoves, Walks
<1> QED BY <1>1, <1>2, <1>3, <1>4, <1>5, <1>6, <1>7, <1>8, <1>9, <1>10, <1>11, <1>12 DEF Safecast!Next

LEMMA LoaderStart == ASSUME AtomFast!Init PROVE LoaderInv
<1> MaxSources \in Nat
  BY JobsAssumption DEF AtomFast!Assumption
<1> QED BY DEF AtomFast!Init, AtomFast!Sources, LoaderInv, Honest, Sources

LEMMA LoaderStep == ASSUME LoaderInv, [Next]_vars PROVE LoaderInv' /\ Lasting
<1>1. CASE MoveAtomFast
  BY <1>1, AtomFastMoves, MovesKeep DEF MoveAtomFast, InLoader
<1>2. CASE MoveSafecast
  BY <1>2, SafecastMoves, MovesKeep DEF MoveSafecast, InLoader
<1>3. CASE UNCHANGED loaderVars
  BY <1>3 DEF loaderVars, LoaderInv, Honest, Lasting
<1> QED BY <1>1, <1>2, <1>3 DEF Next, MoveArchive, MoveLimiter, InArchive, InLimiter, vars

(* The property of the run: an imported track has its markers, a skipped   *)
(* one could not be imported (storeTrack and storeImport write the history *)
(* after the markers).                                                     *)
THEOREM HistoryIsHonest == Spec => []HistoryHonest
<1>1. Init => LoaderInv
  BY LoaderStart DEF Init
<1>2. LoaderInv /\ [Next]_vars => LoaderInv'
  BY LoaderStep
<1>3. LoaderInv => HistoryHonest
  BY DEF LoaderInv, Honest, HistoryHonest, AtomFast!HistoryHonest, AtomFast!Sources, Sources
<1> QED BY <1>1, <1>2, <1>3, PTL DEF Spec

(* The property of the run: a track with history is neither fetched again  *)
(* nor does its row change (processTrackIfNew, EnsureImportHistory).       *)
THEOREM HistoryLasts == Spec => ImportedOnce
<1> DEFINE Once == \A s \in AtomFast!Sources :
               AtomFast!Known(s) => history'[s] = history[s] /\ (source' = s => source = s)
<1>1. Init => LoaderInv
  BY LoaderStart DEF Init
<1>2. LoaderInv /\ [Next]_vars => LoaderInv' /\ [Once]_(AtomFast!vars)
  <2> SUFFICES ASSUME LoaderInv, [Next]_vars PROVE LoaderInv' /\ Once
    OBVIOUS
  <2> QED BY LoaderStep DEF Lasting, AtomFast!Sources, AtomFast!Known, Sources
<1>3. []LoaderInv /\ [][Next]_vars => [][Once]_(AtomFast!vars)
  BY <1>2, PTL
<1>4. [][Once]_(AtomFast!vars) => ImportedOnce
  BY DEF ImportedOnce, AtomFast!ImportedOnce
<1> QED BY <1>1, <1>2, <1>3, <1>4, PTL DEF Spec
-----------------------------------------------------------------------------
(* The archive is there, or need not be.                                   *)
There == archive = "complete" \/ stopping \/ builder = "removed"

(* What is reported and not yet taken is as true as what was taken; a bad  *)
(* end that is on its way makes up for both.                               *)
ArchiveInv ==
    /\ archive \in {"none", "complete"}
    /\ outcome # "none" => builder = "reporting"
    /\ outcome = "ok" => archive = "complete"
    /\ result = "ok" => There \/ outcome = "error"
    /\ current = "ok" => There \/ "error" \in {outcome, result}

LEMMA ArchiveStart == ASSUME Archive!Init PROVE ArchiveInv
BY DEF Archive!Init, ArchiveInv, There

LEMMA BuilderKeeps ==
    ASSUME ArchiveInv,
           Archive!BuildStarts \/ Archive!Build \/ Archive!Report \/ Archive!BuilderStops
    PROVE  ArchiveInv'
<1> USE DEF ArchiveInv, There, Archive!Builder, Archive!Built, Archive!diskVars
<1>1. CASE Archive!BuildStarts
  BY <1>1 DEF Archive!BuildStarts
<1>2. CASE Archive!BuildFails
  BY <1>2 DEF Archive!BuildFails
<1>3. CASE Archive!Replace
  BY <1>3 DEF Archive!Replace
<1>4. CASE Archive!RemoveOld
  BY <1>4 DEF Archive!RemoveOld
<1>5. CASE Archive!RenameAgain
  BY <1>5 DEF Archive!RenameAgain
<1>6. CASE Archive!Report
  BY <1>6 DEF Archive!Report
<1>7. CASE Archive!BuilderStops
  BY <1>7 DEF Archive!BuilderStops
<1> QED BY <1>1, <1>2, <1>3, <1>4, <1>5, <1>6, <1>7 DEF Archive!Build

LEMMA CoordinatorKeeps == ASSUME ArchiveInv, Archive!Coordinate PROVE ArchiveInv'
<1> USE DEF ArchiveInv, There, Archive!diskVars, Archive!buildVars
<1>1. CASE Archive!Receive \/ Archive!AwaitOver
  BY <1>1 DEF Archive!Receive, Archive!AwaitOver, Archive!Take
<1>2. CASE Archive!TimerFires \/ Archive!CoordStops
  BY <1>2 DEF Archive!TimerFires, Archive!CoordStops
<1>3. ASSUME NEW c \in Callers, Archive!Serve(c) \/ Archive!Await(c)
      PROVE  ArchiveInv'
  BY <1>3 DEF Archive!Serve, Archive!Await, Archive!Accept
<1> QED BY <1>1, <1>2, <1>3 DEF Archive!Coordinate

LEMMA ArchiveStep == ASSUME ArchiveInv, Archive!Next PROVE ArchiveInv'
<1> USE DEF ArchiveInv, There, Archive!diskVars, Archive!buildVars
<1>1. ASSUME NEW c \in Callers,
             \/ Archive!Fetch(c) \/ Archive!Return(c)
             \/ Archive!FetchAgain(c) \/ Archive!EndContext(c)
      PROVE  ArchiveInv'
  BY <1>1 DEF Archive!Fetch, Archive!Return, Archive!FetchAgain, Archive!EndContext,
              Archive!Caller
<1>2. CASE Archive!Expire \/ Archive!Shutdown
  BY <1>2 DEF Archive!Expire, Archive!Shutdown
<1>3. CASE Archive!Crash
  BY <1>3 DEF Archive!Crash, Archive!Started
<1> QED BY <1>1, <1>2, <1>3, BuilderKeeps, CoordinatorKeeps DEF Archive!Next

(* The property of the run: a caller told that the archive is ready finds  *)
(* it, unless replaceFile has just taken it away or bad news is under way. *)
THEOREM ReadyIsThere == Spec => []ReadyMeansThere
<1>1. Init => ArchiveInv
  BY ArchiveStart DEF Init
<1>2. ArchiveInv /\ [Next]_vars => ArchiveInv'
  <2>1. UNCHANGED archiveVars => UNCHANGED <<archive, builder, outcome, result, current, stopping>>
    BY DEF archiveVars
  <2>2. ArchiveInv /\ UNCHANGED archiveVars => ArchiveInv'
    BY <2>1 DEF ArchiveInv, There
  <2> QED BY <2>2, ArchiveStep
          DEF Next, MoveArchive, MoveAtomFast, MoveSafecast, MoveLimiter,
              InArchive, InLoader, InLimiter, vars
<1>3. ArchiveInv => ReadyMeansThere
  BY DEF ArchiveInv, There, ReadyMeansThere, Archive!ReadyMeansThere
<1> QED BY <1>1, <1>2, <1>3, PTL DEF Spec

(* --- the limiter: sequences ------------------------------------------------- *)

(* A finite set of naturals has a greatest element: a smallest set without *)
(* one would still lack it after losing an element.                        *)
LEMMA Greatest ==
    ASSUME NEW S \in SUBSET Nat, S # {}, IsFiniteSet(S)
    PROVE  \E m \in S : \A n \in S : n <= m
<1> DEFINE Bad == {T \in SUBSET Nat : T # {} /\ IsFiniteSet(T) /\ ~\E m \in T : \A n \in T : n <= m}
<1> SUFFICES ASSUME Bad # {} PROVE FALSE
  OBVIOUS
<1>1. IsWellFoundedOn(StrictSubsetOrdering(Nat), FiniteSubsetsOf(Nat))
  BY FS_StrictSubsetOrderingWellFounded
<1>2. Bad \subseteq FiniteSubsetsOf(Nat)
  BY DEF FiniteSubsetsOf
<1>3. PICK T \in Bad : \A R \in Bad : ~(<<R, T>> \in StrictSubsetOrdering(Nat))
  <2> HIDE DEF Bad
  <2> QED BY <1>1, <1>2, WFMin
<1>4. /\ T \in SUBSET Nat /\ T # {} /\ IsFiniteSet(T)
      /\ ~\E m \in T : \A n \in T : n <= m
  OBVIOUS
<1>5. PICK x \in T : x \in Nat
  BY <1>4
<1> DEFINE R == T \ {x}
<1>6. R \in SUBSET Nat /\ IsFiniteSet(R)
  BY <1>4, FS_RemoveElement
<1>7. <<R, T>> \in StrictSubsetOrdering(Nat)
  BY <1>4, <1>5, <1>6 DEF StrictSubsetOrdering
<1>8. R \notin Bad
  BY <1>3, <1>7
<1>9. CASE R = {}
  <2>1. \A n \in T : n = x
    BY <1>9
  <2> QED BY <1>4, <1>5, <2>1
<1>10. CASE R # {}
  <2>1. PICK m \in R : \A n \in R : n <= m
    BY <1>6, <1>8, <1>10
  <2>2. m \in Nat /\ m \in T
    BY <1>6
  <2>3. \A n \in T : n \in R \/ n = x
    OBVIOUS
  <2>4. CASE x <= m
    BY <1>4, <2>1, <2>2, <2>3, <2>4
  <2>5. CASE m < x
    <3>1. \A n \in T : n <= x
      BY <1>4, <1>5, <2>1, <2>2, <2>3, <2>5
    <3> QED BY <1>4, <1>5, <3>1
  <2>6. x <= m \/ m < x
    BY <1>5, <2>2
  <2> QED BY <2>4, <2>5, <2>6
<1> QED BY <1>9, <1>10

(* One more round of the loop that trims a history. *)
Kept(h, dst, n) ==
    IF n = 0 THEN <<>>
    ELSE IF Limiter!Fresh(h[n]) THEN Append(dst[n - 1], h[n]) ELSE dst[n - 1]

(* The loop comes to its end: rounds that are right up to m can be         *)
(* continued by one, so the greatest m is the length of the history.       *)
LEMMA TrimmingEnds ==
    ASSUME NEW h, Len(h) \in Nat
    PROVE  \E dst : /\ dst = [n \in 0..Len(h) |-> Kept(h, dst, n)]
                    /\ Limiter!Trimmed(h) = dst[Len(h)]
<1> DEFINE Rounds(m, dst) == dst = [n \in 0..m |-> Kept(h, dst, n)]
           Run == {m \in 0..Len(h) : \E dst : Rounds(m, dst)}
<1>1. 0 \in Run
  <2> DEFINE dst == [n \in 0..0 |-> <<>>]
  <2>1. Rounds(0, dst)
    BY DEF Kept
  <2> QED BY <2>1
<1>2. IsFiniteSet(Run)
  <2>1. IsFiniteSet(0..Len(h))
    BY FS_Interval
  <2> QED BY <2>1, FS_Subset
<1>3. PICK m \in Run : \A n \in Run : n <= m
  <2>1. Run \in SUBSET Nat
    OBVIOUS
  <2> HIDE DEF Run
  <2> QED BY <1>1, <1>2, <2>1, Greatest
<1>4. PICK old : Rounds(m, old)
  OBVIOUS
<1>5. CASE m < Len(h)
  <2> DEFINE step == IF Limiter!Fresh(h[m + 1]) THEN Append(old[m], h[m + 1]) ELSE old[m]
             new == [n \in 0..m + 1 |-> IF n = m + 1 THEN step ELSE old[n]]
  <2>1. m \in Nat /\ m + 1 \in 0..Len(h)
    BY <1>5
  <2>2. ASSUME NEW n \in 0..m + 1 PROVE new[n] = Kept(h, new, n)
    <3>1. CASE n = m + 1
      <4>1. new[n] = step /\ new[n - 1] = old[m]
        BY <2>1, <3>1
      <4> QED BY <2>1, <3>1, <4>1 DEF Kept
    <3>2. CASE n \in 0..m
      <4>1. new[n] = old[n] /\ (n # 0 => new[n - 1] = old[n - 1])
        BY <2>1, <3>2
      <4>2. old[n] = Kept(h, old, n)
        BY <1>4, <3>2
      <4> HIDE DEF new
      <4> QED BY <2>1, <3>2, <4>1, <4>2 DEF Kept
    <3> QED BY <2>1, <3>1, <3>2
  <2>3. Rounds(m + 1, new)
    <3>1. new = [n \in 0..m + 1 |-> new[n]]
      OBVIOUS
    <3> HIDE DEF new
    <3> QED BY <2>2, <3>1
  <2>4. m + 1 \in Run
    <3> HIDE DEF new
    <3> QED BY <2>1, <2>3
  <2> QED BY <1>3, <2>1, <2>4
<1>6. CASE m = Len(h)
  <2>1. \E dst : dst = [n \in 0..Len(h) |-> Kept(h, dst, n)]
    BY <1>4, <1>6
  <2> DEFINE dst == CHOOSE dst : dst = [n \in 0..Len(h) |-> Kept(h, dst, n)]
  <2>2. dst = [n \in 0..Len(h) |-> Kept(h, dst, n)]
    BY <2>1
  <2>3. Limiter!Trimmed(h) = dst[Len(h)]
    BY DEF Limiter!Trimmed, Kept
  <2> HIDE DEF dst
  <2> QED BY <2>2, <2>3
<1> QED BY <1>3, <1>5, <1>6

(* What a sequence holds, and that it holds each entry once. *)
Entries(s) == {s[i] : i \in 1..Len(s)}
Once(s) == \A i, j \in 1..Len(s) : s[i] = s[j] => i = j

(* A new entry at the end of a sequence. *)
LEMMA Appended ==
    ASSUME NEW S, NEW k \in Seq(S), NEW e \in S
    PROVE  /\ Append(k, e) \in Seq(S) /\ Entries(Append(k, e)) = Entries(k) \cup {e}
           /\ Once(k) /\ e \notin Entries(k) => Once(Append(k, e))
<1>1. /\ Append(k, e) \in Seq(S) /\ Len(Append(k, e)) = Len(k) + 1 /\ Len(k) \in Nat
      /\ Append(k, e)[Len(k) + 1] = e /\ \A i \in 1..Len(k) : Append(k, e)[i] = k[i]
  OBVIOUS
<1> DEFINE a == Append(k, e)
<1> HIDE DEF a
<1>2. \A i \in 1..Len(a) : (i \in 1..Len(k) /\ a[i] = k[i]) \/ (i = Len(k) + 1 /\ a[i] = e)
  BY <1>1 DEF a
<1>3. \A i \in 1..Len(k) : i \in 1..Len(a) /\ a[i] = k[i]
  BY <1>1 DEF a
<1>4. Len(k) + 1 \in 1..Len(a) /\ a[Len(k) + 1] = e
  BY <1>1 DEF a
<1>5. Entries(a) = Entries(k) \cup {e}
  BY <1>2, <1>3, <1>4 DEF Entries
<1>6. Once(k) /\ e \notin Entries(k) => Once(a)
  BY <1>1, <1>2 DEF Once, Entries
<1> QED BY <1>1, <1>5, <1>6 DEF a

(* A sequence without repetitions is as long as it has entries. *)
LEMMA Counted ==
    ASSUME NEW S, NEW k \in Seq(S), Once(k)
    PROVE  IsFiniteSet(Entries(k)) /\ Cardinality(Entries(k)) = Len(k)
<1>1. k \in Bijection(1..Len(k), Entries(k))
  <2>1. k \in [1..Len(k) -> Entries(k)]
    BY DEF Entries
  <2>2. \A x \in Entries(k) : \E i \in 1..Len(k) : k[i] = x
    BY DEF Entries
  <2> QED BY <2>1, <2>2 DEF Bijection, Injection, Surjection, Once, IsInjective
<1>2. ExistsBijection(1..Len(k), Entries(k)) /\ Len(k) \in Nat
  BY <1>1 DEF ExistsBijection
<1> QED BY <1>2, FS_CountingElements, FS_NatBijection

(* What the loop leaves of a history: its fresh entries, each once. *)
LEMMA Trimming ==
    ASSUME NEW S, NEW h \in Seq(S), Once(h)
    PROVE  LET k == Limiter!Trimmed(h) IN
           k \in Seq(S) /\ Once(k) /\ Entries(k) = {r \in Entries(h) : Limiter!Fresh(r)}
<1>1. Len(h) \in Nat
  OBVIOUS
<1>2. PICK dst : /\ dst = [n \in 0..Len(h) |-> Kept(h, dst, n)]
                 /\ Limiter!Trimmed(h) = dst[Len(h)]
  BY <1>1, TrimmingEnds
<1> DEFINE Right(n) == /\ dst[n] \in Seq(S) /\ Once(dst[n])
                       /\ Entries(dst[n]) = {h[i] : i \in {j \in 1..n : Limiter!Fresh(h[j])}}
           Rights == {n \in 0..Len(h) : Right(n)}
<1>3. 0 \in Rights
  <2>1. dst[0] = <<>>
    BY <1>2 DEF Kept
  <2>2. Len(dst[0]) = 0 /\ 1..0 = {} /\ dst[0] \in Seq(S)
    BY <2>1
  <2>3. Entries(dst[0]) = {} /\ Once(dst[0])
    BY <2>2 DEF Entries, Once
  <2>4. {h[i] : i \in {j \in 1..0 : Limiter!Fresh(h[j])}} = {}
    BY <2>2
  <2> QED BY <1>1, <2>2, <2>3, <2>4
<1>4. IsFiniteSet(Rights)
  <2>1. IsFiniteSet(0..Len(h))
    BY <1>1, FS_Interval
  <2> QED BY <2>1, FS_Subset
<1>5. PICK m \in Rights : \A n \in Rights : n <= m
  <2>1. Rights \in SUBSET Nat
    OBVIOUS
  <2> HIDE DEF Rights
  <2> QED BY <1>3, <1>4, <2>1, Greatest
<1>6. CASE m < Len(h)
  <2>1. m \in Nat /\ m + 1 \in 0..Len(h) /\ m + 1 \in 1..Len(h) /\ Right(m) /\ h[m + 1] \in S
    BY <1>6
  <2>2. dst[m + 1] = IF Limiter!Fresh(h[m + 1]) THEN Append(dst[m], h[m + 1]) ELSE dst[m]
    <3>1. m + 1 # 0 /\ (m + 1) - 1 = m
      BY <2>1
    <3> QED BY <1>2, <2>1, <3>1 DEF Kept
  <2>3. \A j \in 1..m + 1 : j \in 1..m \/ j = m + 1
    BY <2>1
  <2>4. ASSUME Limiter!Fresh(h[m + 1]) PROVE Right(m + 1)
    <3>1. h[m + 1] \notin Entries(dst[m])
      <4>1. \A j \in 1..m : j \in 1..Len(h) /\ j # m + 1
        BY <2>1
      <4> QED BY <2>1, <4>1 DEF Once
    <3>2. Entries(dst[m + 1]) = {h[i] : i \in {j \in 1..m + 1 : Limiter!Fresh(h[j])}}
      <4>1. Entries(dst[m + 1]) = Entries(dst[m]) \cup {h[m + 1]}
        BY <2>1, <2>2, <2>4, Appended
      <4>2. {j \in 1..m + 1 : Limiter!Fresh(h[j])} = {j \in 1..m : Limiter!Fresh(h[j])} \cup {m + 1}
        BY <2>1, <2>3, <2>4
      <4> QED BY <2>1, <4>1, <4>2
    <3>3. dst[m + 1] \in Seq(S) /\ Once(dst[m + 1])
      BY <2>1, <2>2, <2>4, <3>1, Appended
    <3> QED BY <3>2, <3>3
  <2>5. ASSUME ~Limiter!Fresh(h[m + 1]) PROVE Right(m + 1)
    <3>1. {j \in 1..m + 1 : Limiter!Fresh(h[j])} = {j \in 1..m : Limiter!Fresh(h[j])}
      BY <2>1, <2>3, <2>5
    <3>2. dst[m + 1] = dst[m]
      BY <2>2, <2>5
    <3> QED BY <2>1, <3>1, <3>2
  <2>6. m + 1 \in Rights
    <3> HIDE DEF Right
    <3> QED BY <2>1, <2>4, <2>5
  <2> QED BY <1>5, <2>1, <2>6
<1>7. CASE m = Len(h)
  <2>1. Right(Len(h))
    BY <1>7
  <2>2. {h[i] : i \in {j \in 1..Len(h) : Limiter!Fresh(h[j])}} = {r \in Entries(h) : Limiter!Fresh(r)}
    BY DEF Entries
  <2> QED BY <1>2, <2>1, <2>2
<1> QED BY <1>1, <1>5, <1>6, <1>7

(* --- the limiter: its accounts ---------------------------------------------- *)

(* Downloads of an address whose release its worker has not heard of, and  *)
(* those it remembers and that still count.                                *)
Running(ip) == {r \in Heavy : IpOf[r] = ip /\ watcher[r] # "none"}
Remembered(ip) == {r \in Entries(heavyHistory[ip]) : Limiter!Fresh(r)}
Counting(ip) == Running(ip) \cup Remembered(ip)

(* A request is in one hand at a time and is answered once; a permit has   *)
(* its watcher until it is released.                                       *)
RequestOk(r) ==
    /\ ~(dispatching = r /\ wreq[IpOf[r]] = r)
    /\ dispatching = r \/ wreq[IpOf[r]] = r =>
         admission[r] \in {"answering", "gone"} /\ permit[r] = "none" /\ watcher[r] = "none"
    /\ admission[r] \in {"idle", "sending"} => permit[r] = "none" /\ watcher[r] = "none"
    /\ admission[r] = "holding" => permit[r] = "permit"
    /\ permit[r] = "permit" /\ admission[r] \in {"answering", "holding"} => watcher[r] = "watching"
    /\ watcher[r] = "noticing" => admission[r] = "released"

(* A worker has requests of its own address only. *)
WorkerOk(ip) ==
    /\ wreq[ip] # NoRequest => wreq[ip] \in Requests /\ IpOf[wreq[ip]] = ip
    /\ wstate[ip] # "selecting" => wreq[ip] # NoRequest

(* The worker counts right, and every recent download is on its account.   *)
AccountOk(ip) ==
    /\ Once(heavyHistory[ip])
    /\ \A r \in Entries(heavyHistory[ip]) :
         r \in Heavy /\ IpOf[r] = ip /\ watcher[r] = "none" /\ admission[r] = "released"
    /\ IsFiniteSet(Running(ip)) /\ activeHeavy[ip] = Cardinality(Running(ip))
    /\ Limiter!Recent(ip) \subseteq Counting(ip)

(* What the burst still allows when the worker has decided: of a history   *)
(* that it waits for, the first entry will not count when it goes on.      *)
BurstOk(ip) ==
    /\ Cardinality(Counting(ip)) <= Burst
    /\ wstate[ip] = "granting" /\ wreq[ip] \in Heavy => Cardinality(Counting(ip)) < Burst
    /\ wstate[ip] = "cooling" /\ ~crashed =>
         heavyHistory[ip] # <<>> /\ Cardinality(Running(ip)) + Len(heavyHistory[ip]) <= Burst

(* The invariant of the limiter. *)
LimiterInv ==
    /\ Limiter!TypeOK
    /\ \A r \in Requests : RequestOk(r)
    /\ \A ip \in IPs : WorkerOk(ip) /\ AccountOk(ip) /\ BurstOk(ip)

(* What is assumed of requests, addresses and bounds. *)
LEMMA LimiterConstants ==
    /\ NoRequest \notin Requests /\ Heavy \subseteq Requests /\ IpOf \in [Requests -> IPs]
    /\ Burst \in Nat \ {0} /\ Cooldown \in Nat \ {0}
BY JobsAssumption DEF Limiter!Assumption

(* Running and remembered downloads are finitely many, and not the same. *)
LEMMA CountsAdd ==
    ASSUME LimiterInv, NEW ip \in IPs
    PROVE  /\ IsFiniteSet(Running(ip)) /\ Cardinality(Running(ip)) \in Nat
           /\ IsFiniteSet(Remembered(ip)) /\ Cardinality(Remembered(ip)) \in Nat
           /\ IsFiniteSet(Counting(ip)) /\ Cardinality(Counting(ip)) \in Nat
           /\ Cardinality(Counting(ip)) = Cardinality(Running(ip)) + Cardinality(Remembered(ip))
<1>1. IsFiniteSet(Running(ip)) /\ Cardinality(Running(ip)) \in Nat
  BY FS_CardinalityType DEF LimiterInv, AccountOk
<1>2. heavyHistory[ip] \in Seq(Requests) /\ Once(heavyHistory[ip])
  BY DEF LimiterInv, AccountOk, Limiter!TypeOK
<1>3. IsFiniteSet(Entries(heavyHistory[ip]))
  BY <1>2, Counted
<1>4. Remembered(ip) \in SUBSET Entries(heavyHistory[ip])
  BY DEF Remembered
<1>5. IsFiniteSet(Remembered(ip))
  BY <1>3, <1>4, FS_Subset
<1>6. Running(ip) \cap Remembered(ip) = {}
  BY DEF LimiterInv, AccountOk, Running, Remembered
<1>7. Cardinality({}) = 0
  BY FS_EmptySet
<1>8. IsFiniteSet(Counting(ip))
      /\ Cardinality(Counting(ip)) = Cardinality(Running(ip)) + Cardinality(Remembered(ip)) - 0
  BY <1>1, <1>5, <1>6, <1>7, FS_Union DEF Counting
<1>9. Cardinality(Remembered(ip)) \in Nat /\ Cardinality(Counting(ip)) \in Nat
  BY <1>5, <1>8, FS_CardinalityType
<1> QED BY <1>1, <1>5, <1>8, <1>9

(* Steps that start no download, end none and forget none. *)
LEMMA AccountsStand ==
    ASSUME LimiterInv, UNCHANGED <<watcher, age, heavyHistory, activeHeavy, crashed>>,
           \A ip \in IPs : wstate'[ip] \in {"granting", "cooling"} =>
               wstate'[ip] = wstate[ip] /\ wreq'[ip] = wreq[ip],
           \A r \in Requests : admission[r] = "released" /\ admission'[r] # "released" =>
               r \notin Entries(heavyHistory[IpOf[r]])
    PROVE  \A ip \in IPs : AccountOk(ip)' /\ BurstOk(ip)'
<1> SUFFICES ASSUME NEW ip \in IPs PROVE AccountOk(ip)' /\ BurstOk(ip)'
  OBVIOUS
<1>1. /\ Running(ip)' = Running(ip) /\ Remembered(ip)' = Remembered(ip)
      /\ Counting(ip)' = Counting(ip) /\ Limiter!Recent(ip)' = Limiter!Recent(ip)
  BY DEF Running, Remembered, Counting, Limiter!Recent, Limiter!Fresh
<1>2. \A r \in Entries(heavyHistory[ip]) :
         r \in Heavy /\ IpOf[r] = ip /\ watcher'[r] = "none" /\ admission'[r] = "released"
  BY LimiterConstants DEF LimiterInv, AccountOk
<1>3. AccountOk(ip)'
  BY <1>1, <1>2 DEF LimiterInv, AccountOk
<1>4. BurstOk(ip)'
  BY <1>1 DEF LimiterInv, BurstOk
<1> QED BY <1>3, <1>4

(* The handlers only move their own request. *)
LEMMA HandlersKeep ==
    ASSUME LimiterInv, NEW r \in Requests, Limiter!HandlerStep(r)
    PROVE  LimiterInv'
<1> USE DEF Limiter!Alive, Limiter!workerVars
<1>1. CASE Limiter!Arrive(r) \/ Limiter!GiveUp(r) \/ Limiter!TakePermit(r)
           \/ Limiter!TakeRefusal(r) \/ Limiter!Release(r)
  <2>1. /\ UNCHANGED <<contextDone, permit, dispatching, wstate, wreq, activeHeavy,
                       heavyHistory, watcher, age, crashed>>
        /\ \/ admission[r] = "idle" /\ admission' = [admission EXCEPT ![r] = "sending"]
           \/ admission[r] \in {"sending", "answering"} /\ admission' = [admission EXCEPT ![r] = "gone"]
           \/ /\ admission[r] = "answering" /\ permit[r] = "permit"
              /\ admission' = [admission EXCEPT ![r] = "holding"]
           \/ admission[r] = "holding" /\ admission' = [admission EXCEPT ![r] = "released"]
    BY <1>1 DEF Limiter!Arrive, Limiter!GiveUp, Limiter!TakePermit, Limiter!TakeRefusal,
                Limiter!Release, Limiter!Move, Limiter!Waiting
  <2>2. Limiter!TypeOK'
    BY <2>1 DEF LimiterInv, Limiter!TypeOK
  <2>3. \A x \in Requests : RequestOk(x)'
    BY <2>1 DEF LimiterInv, RequestOk, Limiter!TypeOK
  <2>4. \A ip \in IPs : WorkerOk(ip)'
    BY <2>1 DEF LimiterInv, WorkerOk
  <2>5. \A ip \in IPs : AccountOk(ip)' /\ BurstOk(ip)'
    <3>1. \A x \in Requests : admission[x] = "released" => admission'[x] = "released"
      BY <2>1 DEF LimiterInv, Limiter!TypeOK
    <3> QED BY <2>1, <3>1, AccountsStand
  <2> QED BY <2>2, <2>3, <2>4, <2>5 DEF LimiterInv
<1>2. CASE Limiter!Cancel(r)
  <2>1. /\ contextDone' = [contextDone EXCEPT ![r] = TRUE]
        /\ UNCHANGED <<admission, permit, dispatching, wstate, wreq, activeHeavy,
                       heavyHistory, watcher, age, crashed>>
    BY <1>2 DEF Limiter!Cancel
  <2>2. Limiter!TypeOK'
    BY <2>1 DEF LimiterInv, Limiter!TypeOK
  <2>3. (\A x \in Requests : RequestOk(x)') /\ \A ip \in IPs : WorkerOk(ip)'
    BY <2>1 DEF LimiterInv, RequestOk, WorkerOk
  <2>4. \A ip \in IPs : AccountOk(ip)' /\ BurstOk(ip)'
    BY <2>1, AccountsStand
  <2> QED BY <2>2, <2>3, <2>4 DEF LimiterInv
<1>3. CASE Limiter!Forget(r)
  <2>1. /\ admission' = [admission EXCEPT ![r] = "idle"]
        /\ contextDone' = [contextDone EXCEPT ![r] = FALSE]
        /\ permit' = [permit EXCEPT ![r] = "none"]
        /\ UNCHANGED <<dispatching, wstate, wreq, activeHeavy, heavyHistory, watcher, age, crashed>>
        /\ dispatching # r /\ wreq[IpOf[r]] # r /\ watcher[r] = "none"
        /\ \A i \in DOMAIN heavyHistory[IpOf[r]] : heavyHistory[IpOf[r]][i] # r
    BY <1>3 DEF Limiter!Forget
  <2>2. Limiter!TypeOK'
    BY <2>1 DEF LimiterInv, Limiter!TypeOK
  <2>3. (\A x \in Requests : RequestOk(x)') /\ \A ip \in IPs : WorkerOk(ip)'
    BY <2>1 DEF LimiterInv, RequestOk, WorkerOk, Limiter!TypeOK
  <2>4. r \notin Entries(heavyHistory[IpOf[r]])
    <3>1. heavyHistory[IpOf[r]] \in Seq(Requests)
      BY LimiterConstants DEF LimiterInv, Limiter!TypeOK
    <3>2. DOMAIN heavyHistory[IpOf[r]] = 1..Len(heavyHistory[IpOf[r]])
      BY <3>1
    <3> QED BY <2>1, <3>2 DEF Entries
  <2>5. \A ip \in IPs : AccountOk(ip)' /\ BurstOk(ip)'
    <3>1. \A x \in Requests : x # r => admission'[x] = admission[x]
      BY <2>1 DEF LimiterInv, Limiter!TypeOK
    <3> QED BY <2>1, <2>4, <3>1, AccountsStand
  <2> QED BY <2>2, <2>3, <2>5 DEF LimiterInv
<1> QED BY <1>1, <1>2, <1>3 DEF Limiter!HandlerStep

(* The dispatcher passes a request from hand to hand. *)
LEMMA DispatcherKeeps ==
    ASSUME LimiterInv, NEW r \in Requests,
           Limiter!Receive(r) \/ Limiter!Dispatch(r) \/ Limiter!DispatchEnded(r)
    PROVE  LimiterInv'
<1> USE DEF Limiter!Alive, Limiter!workerVars, Limiter!callerVars
<1>1. CASE Limiter!Receive(r)
  <2>1. /\ dispatching = NoRequest /\ dispatching' = r
        /\ admission[r] = "sending" /\ admission' = [admission EXCEPT ![r] = "answering"]
        /\ UNCHANGED <<contextDone, permit, wstate, wreq, activeHeavy, heavyHistory, watcher, age, crashed>>
    BY <1>1 DEF Limiter!Receive
  <2>2. Limiter!TypeOK'
    BY <2>1 DEF LimiterInv, Limiter!TypeOK
  <2>3. (\A x \in Requests : RequestOk(x)') /\ \A ip \in IPs : WorkerOk(ip)'
    BY <2>1 DEF LimiterInv, RequestOk, WorkerOk, Limiter!TypeOK
  <2>4. \A ip \in IPs : AccountOk(ip)' /\ BurstOk(ip)'
    <3>1. \A x \in Requests : admission[x] = "released" => admission'[x] = "released"
      BY <2>1 DEF LimiterInv, Limiter!TypeOK
    <3> QED BY <2>1, <3>1, AccountsStand
  <2> QED BY <2>2, <2>3, <2>4 DEF LimiterInv
<1>2. CASE Limiter!Dispatch(r)
  <2>1. /\ dispatching = r /\ dispatching' = NoRequest /\ wstate[IpOf[r]] = "selecting"
        /\ wstate' = [wstate EXCEPT ![IpOf[r]] = "deciding"]
        /\ wreq' = [wreq EXCEPT ![IpOf[r]] = r]
        /\ UNCHANGED <<admission, contextDone, permit, activeHeavy, heavyHistory, watcher, age, crashed>>
    BY <1>2 DEF Limiter!Dispatch
  <2>2. IpOf[r] \in IPs /\ NoRequest \notin Requests
    BY LimiterConstants
  <2>3. Limiter!TypeOK'
    BY <2>1, <2>2 DEF LimiterInv, Limiter!TypeOK
  <2>4. \A x \in Requests : RequestOk(x)'
    BY <2>1, <2>2, LimiterConstants DEF LimiterInv, RequestOk, Limiter!TypeOK
  <2>5. \A ip \in IPs : WorkerOk(ip)'
    BY <2>1, <2>2 DEF LimiterInv, WorkerOk, Limiter!TypeOK
  <2>6. \A ip \in IPs : AccountOk(ip)' /\ BurstOk(ip)'
    <3>1. \A ip \in IPs : wstate'[ip] \in {"granting", "cooling"} =>
               wstate'[ip] = wstate[ip] /\ wreq'[ip] = wreq[ip]
      BY <2>1, <2>2 DEF LimiterInv, Limiter!TypeOK
    <3> QED BY <2>1, <3>1, AccountsStand
  <2> QED BY <2>3, <2>4, <2>5, <2>6 DEF LimiterInv
<1>3. CASE Limiter!DispatchEnded(r)
  <2>1. /\ dispatching = r /\ dispatching' = NoRequest
        /\ permit' = [permit EXCEPT ![r] = "refusal"]
        /\ UNCHANGED <<admission, contextDone, wstate, wreq, activeHeavy, heavyHistory, watcher, age, crashed>>
    BY <1>3 DEF Limiter!DispatchEnded
  <2>2. Limiter!TypeOK'
    BY <2>1 DEF LimiterInv, Limiter!TypeOK
  <2>3. (\A x \in Requests : RequestOk(x)') /\ \A ip \in IPs : WorkerOk(ip)'
    BY <2>1, LimiterConstants DEF LimiterInv, RequestOk, WorkerOk, Limiter!TypeOK
  <2>4. \A ip \in IPs : AccountOk(ip)' /\ BurstOk(ip)'
    BY <2>1, AccountsStand
  <2> QED BY <2>2, <2>3, <2>4 DEF LimiterInv
<1> QED BY <1>1, <1>2, <1>3

(* A step about other addresses. *)
LEMMA OthersStand ==
    ASSUME LimiterInv, NEW ip \in IPs, UNCHANGED admission, crashed => crashed',
           heavyHistory'[ip] = heavyHistory[ip], activeHeavy'[ip] = activeHeavy[ip],
           wstate'[ip] = wstate[ip], wreq'[ip] = wreq[ip],
           \A r \in Requests : IpOf[r] = ip => watcher'[r] = watcher[r] /\ age'[r] = age[r]
    PROVE  AccountOk(ip)' /\ BurstOk(ip)'
<1>1. \A r \in Entries(heavyHistory[ip]) :
         /\ r \in Requests /\ r \in Heavy /\ IpOf[r] = ip
         /\ watcher'[r] = "none" /\ admission'[r] = "released" /\ age'[r] = age[r]
  BY LimiterConstants DEF LimiterInv, AccountOk
<1>2. Running(ip)' = Running(ip) /\ Limiter!Recent(ip)' = Limiter!Recent(ip)
  BY LimiterConstants DEF Running, Limiter!Recent, Limiter!Fresh
<1>3. Remembered(ip)' = Remembered(ip)
  BY <1>1 DEF Remembered, Limiter!Fresh
<1>4. Counting(ip)' = Counting(ip)
  BY <1>2, <1>3 DEF Counting
<1>5. AccountOk(ip)'
  BY <1>1, <1>2, <1>4 DEF LimiterInv, AccountOk
<1>6. BurstOk(ip)'
  BY <1>2, <1>4 DEF LimiterInv, BurstOk
<1> QED BY <1>5, <1>6

(* A refusal changes no account. *)
LEMMA RefuseKeeps == ASSUME LimiterInv, NEW ip \in IPs, Limiter!Refuse(ip) PROVE LimiterInv'
<1>1. /\ wstate[ip] # "selecting"
      /\ permit' = [permit EXCEPT ![wreq[ip]] = "refusal"]
      /\ wstate' = [wstate EXCEPT ![ip] = "selecting"]
      /\ wreq' = [wreq EXCEPT ![ip] = NoRequest]
      /\ UNCHANGED <<admission, contextDone, dispatching, activeHeavy, heavyHistory, watcher, age, crashed>>
  BY DEF Limiter!Refuse, Limiter!Alive, Limiter!callerVars
<1>2. wreq[ip] \in Requests /\ IpOf[wreq[ip]] = ip
  BY <1>1 DEF LimiterInv, WorkerOk
<1>3. Limiter!TypeOK'
  BY <1>1, <1>2 DEF LimiterInv, Limiter!TypeOK
<1>4. \A r \in Requests : RequestOk(r)'
  BY <1>1, <1>2, LimiterConstants DEF LimiterInv, RequestOk, Limiter!TypeOK
<1>5. \A x \in IPs : WorkerOk(x)'
  BY <1>1 DEF LimiterInv, WorkerOk, Limiter!TypeOK
<1>6. \A x \in IPs : AccountOk(x)' /\ BurstOk(x)'
  <2>1. \A x \in IPs : wstate'[x] \in {"granting", "cooling"} =>
               wstate'[x] = wstate[x] /\ wreq'[x] = wreq[x]
    BY <1>1 DEF LimiterInv, Limiter!TypeOK
  <2> QED BY <1>1, <2>1, AccountsStand
<1> QED BY <1>3, <1>4, <1>5, <1>6 DEF LimiterInv

(* A worker that goes on with its request, its history trimmed or not. *)
LEMMA WorkerMoves ==
    ASSUME LimiterInv, NEW ip \in IPs, NEW place \in {"granting", "cooling"},
           NEW kept \in {heavyHistory[ip], Limiter!Trimmed(heavyHistory[ip])},
           wreq[ip] # NoRequest,
           wstate' = [wstate EXCEPT ![ip] = place],
           heavyHistory' = [heavyHistory EXCEPT ![ip] = kept],
           UNCHANGED <<admission, contextDone, permit, dispatching, wreq, activeHeavy, watcher, age>>,
           crashed' \in BOOLEAN, crashed => crashed',
           place = "granting" /\ wreq[ip] \in Heavy => Cardinality(Counting(ip)) < Burst,
           place = "cooling" /\ ~crashed' =>
               kept # <<>> /\ Cardinality(Running(ip)) + Len(kept) <= Burst
    PROVE  LimiterInv'
<1>1. heavyHistory[ip] \in Seq(Requests) /\ Once(heavyHistory[ip])
  BY DEF LimiterInv, AccountOk, Limiter!TypeOK
<1>2. /\ kept \in Seq(Requests) /\ Once(kept) /\ Entries(kept) \subseteq Entries(heavyHistory[ip])
      /\ {r \in Entries(kept) : Limiter!Fresh(r)} = Remembered(ip)
  BY <1>1, Trimming DEF Remembered
<1>3. Limiter!TypeOK'
  BY <1>2 DEF LimiterInv, Limiter!TypeOK
<1>4. \A r \in Requests : RequestOk(r)'
  BY DEF LimiterInv, RequestOk
<1>5. \A x \in IPs : WorkerOk(x)'
  BY DEF LimiterInv, WorkerOk, Limiter!TypeOK
<1>6. /\ heavyHistory'[ip] = kept /\ wstate'[ip] = place
      /\ \A x \in IPs : x # ip => heavyHistory'[x] = heavyHistory[x] /\ wstate'[x] = wstate[x]
  BY DEF LimiterInv, Limiter!TypeOK
<1>7. /\ Running(ip)' = Running(ip) /\ Remembered(ip)' = Remembered(ip)
      /\ Counting(ip)' = Counting(ip) /\ Limiter!Recent(ip)' = Limiter!Recent(ip)
  <2>1. Running(ip)' = Running(ip) /\ Limiter!Recent(ip)' = Limiter!Recent(ip)
    BY DEF Running, Limiter!Recent, Limiter!Fresh
  <2>2. Remembered(ip)' = {r \in Entries(kept) : Limiter!Fresh(r)}
    BY <1>6 DEF Remembered, Limiter!Fresh
  <2> QED BY <1>2, <2>1, <2>2 DEF Counting
<1>8. AccountOk(ip)'
  BY <1>2, <1>6, <1>7 DEF LimiterInv, AccountOk
<1>9. BurstOk(ip)'
  BY <1>6, <1>7 DEF LimiterInv, BurstOk
<1>10. \A x \in IPs : x # ip => AccountOk(x)' /\ BurstOk(x)'
  BY <1>6, OthersStand
<1> QED BY <1>3, <1>4, <1>5, <1>8, <1>9, <1>10 DEF LimiterInv

(* What is kept of a trimmed history is what counts of it. *)
LEMMA TrimmedCounts ==
    ASSUME LimiterInv, NEW ip \in IPs
    PROVE  LET kept == Limiter!Trimmed(heavyHistory[ip]) IN
           /\ Len(kept) \in Nat /\ kept \in Seq(Requests)
           /\ Cardinality(Counting(ip)) = activeHeavy[ip] + Len(kept)
           /\ activeHeavy[ip] = Cardinality(Running(ip)) /\ activeHeavy[ip] \in Nat
<1> DEFINE kept == Limiter!Trimmed(heavyHistory[ip])
<1>1. heavyHistory[ip] \in Seq(Requests) /\ Once(heavyHistory[ip])
  BY DEF LimiterInv, AccountOk, Limiter!TypeOK
<1>2. kept \in Seq(Requests) /\ Once(kept) /\ Entries(kept) = Remembered(ip)
  BY <1>1, Trimming DEF Remembered
<1> HIDE DEF kept
<1>3. Cardinality(Remembered(ip)) = Len(kept)
  BY <1>2, Counted
<1>4. Cardinality(Counting(ip)) = Cardinality(Running(ip)) + Cardinality(Remembered(ip))
      /\ Cardinality(Running(ip)) \in Nat
  BY CountsAdd
<1>5. activeHeavy[ip] = Cardinality(Running(ip))
  BY DEF LimiterInv, AccountOk
<1>6. Len(kept) \in Nat
  BY <1>2
<1>7. /\ Len(kept) \in Nat /\ kept \in Seq(Requests)
      /\ Cardinality(Counting(ip)) = activeHeavy[ip] + Len(kept)
      /\ activeHeavy[ip] = Cardinality(Running(ip)) /\ activeHeavy[ip] \in Nat
  BY <1>2, <1>3, <1>4, <1>5, <1>6
<1> QED BY <1>7 DEF kept

(* A download is let through only below the burst. *)
LEMMA AdmitKeeps == ASSUME LimiterInv, NEW ip \in IPs, Limiter!Admit(ip) PROVE LimiterInv'
<1>1. /\ wreq[ip] # NoRequest /\ wstate' = [wstate EXCEPT ![ip] = "granting"]
      /\ UNCHANGED <<admission, contextDone, permit, dispatching, wreq, activeHeavy, watcher, age, crashed>>
  BY DEF Limiter!Admit, Limiter!Alive, Limiter!Serving, Limiter!callerVars
<1>2. crashed' \in BOOLEAN /\ (crashed => crashed')
  BY <1>1 DEF LimiterInv, Limiter!TypeOK
<1>3. CASE wreq[ip] \notin Heavy /\ UNCHANGED heavyHistory
  <2>1. heavyHistory' = [heavyHistory EXCEPT ![ip] = heavyHistory[ip]]
    BY <1>3 DEF LimiterInv, Limiter!TypeOK
  <2> QED BY <1>1, <1>2, <1>3, <2>1, WorkerMoves
<1>4. CASE /\ activeHeavy[ip] + Len(Limiter!Trimmed(heavyHistory[ip])) < Burst
           /\ heavyHistory' = [heavyHistory EXCEPT ![ip] = Limiter!Trimmed(heavyHistory[ip])]
  <2>1. Cardinality(Counting(ip)) < Burst
    BY <1>4, TrimmedCounts
  <2> QED BY <1>1, <1>2, <1>4, <2>1, WorkerMoves
<1> QED BY <1>3, <1>4 DEF Limiter!Admit

(* A throttled worker has at most the burst on its account. *)
LEMMA ThrottleKeeps == ASSUME LimiterInv, NEW ip \in IPs, Limiter!Throttle(ip) PROVE LimiterInv'
<1> DEFINE kept == Limiter!Trimmed(heavyHistory[ip])
<1>1. /\ wreq[ip] # NoRequest /\ wstate' = [wstate EXCEPT ![ip] = "cooling"]
      /\ heavyHistory' = [heavyHistory EXCEPT ![ip] = kept] /\ ~crashed /\ crashed' = (kept = <<>>)
      /\ UNCHANGED <<admission, contextDone, permit, dispatching, wreq, activeHeavy, watcher, age>>
  BY DEF Limiter!Throttle, Limiter!Serving, Limiter!callerVars
<1>2. Cardinality(Running(ip)) + Len(kept) <= Burst
  BY TrimmedCounts DEF LimiterInv, BurstOk
<1> HIDE DEF kept
<1>3. crashed' \in BOOLEAN /\ (~crashed' => kept # <<>>)
  BY <1>1
<1> QED BY <1>1, <1>2, <1>3, WorkerMoves DEF kept

(* The first entry of the history that it waited for does not count now. *)
LEMMA CooldownOverKeeps ==
    ASSUME LimiterInv, NEW ip \in IPs, Limiter!CooldownOver(ip) PROVE LimiterInv'
<1> DEFINE h == heavyHistory[ip]
<1>1. /\ wstate[ip] = "cooling" /\ wreq[ip] # NoRequest /\ ~crashed /\ ~Limiter!Fresh(Head(h))
      /\ wstate' = [wstate EXCEPT ![ip] = "granting"]
      /\ UNCHANGED <<admission, contextDone, permit, dispatching, wreq, activeHeavy, heavyHistory,
                     watcher, age, crashed>>
  BY DEF Limiter!CooldownOver, Limiter!Alive, Limiter!Serving, Limiter!callerVars
<1>2. h \in Seq(Requests) /\ Once(h) /\ h # <<>> /\ Cardinality(Running(ip)) + Len(h) <= Burst
  BY <1>1 DEF LimiterInv, AccountOk, BurstOk, Limiter!TypeOK
<1>3. Head(h) \in Entries(h) /\ Len(h) \in Nat
  <2>1. 1 \in 1..Len(h) /\ Head(h) = h[1] /\ Len(h) \in Nat
    BY <1>2
  <2> QED BY <2>1 DEF Entries
<1>4. Remembered(ip) \in SUBSET (Entries(h) \ {Head(h)})
  BY <1>1 DEF Remembered
<1>5. IsFiniteSet(Entries(h) \ {Head(h)}) /\ Cardinality(Entries(h) \ {Head(h)}) = Len(h) - 1
  <2>1. IsFiniteSet(Entries(h)) /\ Cardinality(Entries(h)) = Len(h)
    BY <1>2, Counted
  <2> QED BY <1>3, <2>1, FS_RemoveElement
<1>6. Cardinality(Remembered(ip)) <= Len(h) - 1
  BY <1>4, <1>5, FS_Subset
<1>7. Cardinality(Counting(ip)) < Burst
  BY <1>2, <1>3, <1>6, CountsAdd, LimiterConstants
<1>8. heavyHistory' = [heavyHistory EXCEPT ![ip] = heavyHistory[ip]]
  BY <1>1 DEF LimiterInv, Limiter!TypeOK
<1>9. crashed' \in BOOLEAN /\ (crashed => crashed')
  BY <1>1 DEF LimiterInv, Limiter!TypeOK
<1> QED BY <1>1, <1>7, <1>8, <1>9, WorkerMoves

(* A permit is on the account from now on. *)
LEMMA GrantKeeps == ASSUME LimiterInv, NEW ip \in IPs, Limiter!Grant(ip) PROVE LimiterInv'
<1>0. PICK r \in Requests : r = wreq[ip]
  BY DEF LimiterInv, WorkerOk, Limiter!Grant, Limiter!Serving
<1>1. /\ wstate[ip] = "granting"
      /\ permit' = [permit EXCEPT ![r] = "permit"]
      /\ activeHeavy' = [activeHeavy EXCEPT ![ip] = @ + IF r \in Heavy THEN 1 ELSE 0]
      /\ watcher' = [watcher EXCEPT ![r] = "watching"]
      /\ wstate' = [wstate EXCEPT ![ip] = "selecting"]
      /\ wreq' = [wreq EXCEPT ![ip] = NoRequest]
      /\ UNCHANGED <<admission, contextDone, dispatching, heavyHistory, age, crashed>>
  BY <1>0 DEF Limiter!Grant, Limiter!Alive, Limiter!Serving, Limiter!callerVars
<1>2. r \in Requests /\ IpOf[r] = ip /\ r # NoRequest
  BY <1>0, LimiterConstants DEF LimiterInv, WorkerOk
<1>3. /\ admission[r] \in {"answering", "gone"} /\ watcher[r] = "none" /\ dispatching # r
  BY <1>0, <1>2 DEF LimiterInv, RequestOk
<1>4. /\ \A x \in Requests : x # r => permit'[x] = permit[x] /\ watcher'[x] = watcher[x]
      /\ permit'[r] = "permit" /\ watcher'[r] = "watching"
      /\ activeHeavy'[ip] = activeHeavy[ip] + (IF r \in Heavy THEN 1 ELSE 0)
      /\ wstate'[ip] = "selecting" /\ wreq'[ip] = NoRequest
      /\ \A x \in IPs : x # ip => /\ activeHeavy'[x] = activeHeavy[x]
                                  /\ wstate'[x] = wstate[x] /\ wreq'[x] = wreq[x]
  BY <1>1, <1>2 DEF LimiterInv, Limiter!TypeOK
<1>5. Limiter!TypeOK'
  <2>1. activeHeavy' \in [IPs -> Nat]
    BY <1>1 DEF LimiterInv, Limiter!TypeOK
  <2> QED BY <1>1, <1>2, <2>1 DEF LimiterInv, Limiter!TypeOK
<1>6. \A x \in Requests : RequestOk(x)'
  <2>1. \A x \in Requests : x # r => RequestOk(x)'
    <3> SUFFICES ASSUME NEW x \in Requests, x # r PROVE RequestOk(x)'
      OBVIOUS
    <3>1. IpOf[x] \in IPs /\ x # NoRequest
      BY LimiterConstants
    <3>2. wreq'[IpOf[x]] = x => wreq[IpOf[x]] = x
      BY <1>4, <3>1
    <3> QED BY <1>1, <1>4, <3>2 DEF LimiterInv, RequestOk
  <2>2. RequestOk(r)'
    BY <1>1, <1>2, <1>3, <1>4, LimiterConstants DEF LimiterInv, RequestOk
  <2> QED BY <2>1, <2>2
<1>7. \A x \in IPs : WorkerOk(x)'
  BY <1>4 DEF LimiterInv, WorkerOk
<1>8. Running(ip)' = (IF r \in Heavy THEN Running(ip) \cup {r} ELSE Running(ip)) /\ r \notin Running(ip)
  BY <1>2, <1>3, <1>4, LimiterConstants DEF Running
<1>9. r \notin Entries(heavyHistory[ip])
  BY <1>3 DEF LimiterInv, AccountOk
<1>10. Remembered(ip)' = Remembered(ip) /\ Limiter!Recent(ip)' = Limiter!Recent(ip)
  BY <1>1 DEF Remembered, Limiter!Recent, Limiter!Fresh
<1>11. AccountOk(ip)'
  <2>1. \A x \in Entries(heavyHistory[ip]) :
          x \in Heavy /\ IpOf[x] = ip /\ watcher'[x] = "none" /\ admission'[x] = "released"
    BY <1>1, <1>4, <1>9, LimiterConstants DEF LimiterInv, AccountOk
  <2>2. IsFiniteSet(Running(ip)') /\ activeHeavy'[ip] = Cardinality(Running(ip)')
    <3>1. activeHeavy[ip] = Cardinality(Running(ip)) /\ activeHeavy[ip] \in Nat
      BY DEF LimiterInv, AccountOk, Limiter!TypeOK
    <3>2. IsFiniteSet(Running(ip))
      BY CountsAdd
    <3>3. IsFiniteSet(Running(ip) \cup {r}) /\ Cardinality(Running(ip) \cup {r}) = Cardinality(Running(ip)) + 1
      BY <1>8, <3>2, FS_AddElement
    <3> QED BY <1>4, <1>8, <3>1, <3>2, <3>3
  <2>3. Limiter!Recent(ip)' \subseteq Counting(ip)'
    BY <1>8, <1>10 DEF LimiterInv, AccountOk, Counting
  <2>4. Once(heavyHistory'[ip]) /\ Entries(heavyHistory'[ip]) = Entries(heavyHistory[ip])
    BY <1>1 DEF LimiterInv, AccountOk
  <2> QED BY <2>1, <2>2, <2>3, <2>4 DEF AccountOk
<1>12. BurstOk(ip)'
  <2>1. CASE r \in Heavy
    <3>1. Counting(ip)' = Counting(ip) \cup {r}
      BY <1>8, <1>10, <2>1 DEF Counting
    <3>2. Cardinality(Counting(ip)) < Burst
      BY <1>0, <1>1, <2>1 DEF LimiterInv, BurstOk
    <3>3. IsFiniteSet(Counting(ip)) /\ Cardinality(Counting(ip)) \in Nat
      BY CountsAdd
    <3>4. Cardinality(Counting(ip) \cup {r}) <= Burst
      <4>1. Cardinality(Counting(ip) \cup {r}) =
              IF r \in Counting(ip) THEN Cardinality(Counting(ip)) ELSE Cardinality(Counting(ip)) + 1
        BY <3>3, FS_AddElement
      <4> QED BY <3>2, <3>3, <4>1, LimiterConstants
    <3> QED BY <1>4, <3>1, <3>4 DEF BurstOk
  <2>2. CASE r \notin Heavy
    <3>1. Counting(ip)' = Counting(ip)
      BY <1>8, <1>10, <2>2 DEF Counting
    <3> QED BY <1>4, <3>1 DEF LimiterInv, BurstOk
  <2> QED BY <2>1, <2>2
<1>13. \A x \in IPs : x # ip => AccountOk(x)' /\ BurstOk(x)'
  BY <1>1, <1>2, <1>4, OthersStand
<1> QED BY <1>5, <1>6, <1>7, <1>11, <1>12, <1>13 DEF LimiterInv

(* A release moves a download from one side of the account to the other, or *)
(* off it when its stamp is stale.                                          *)
LEMMA NoticeKeeps == ASSUME LimiterInv, NEW r \in Requests, Limiter!Notice(r) PROVE LimiterInv'
<1> DEFINE ip == IpOf[r]
           h == heavyHistory[ip]
           kept == Limiter!Trimmed(Append(h, r))
<1>1. /\ watcher[r] = "noticing" /\ wstate[ip] = "selecting" /\ watcher' = [watcher EXCEPT ![r] = "none"]
      /\ UNCHANGED <<admission, contextDone, permit, dispatching, wstate, wreq, age, crashed>>
      /\ r \in Heavy =>
           /\ activeHeavy' = [activeHeavy EXCEPT ![ip] = IF @ > 0 THEN @ - 1 ELSE 0]
           /\ heavyHistory' = [heavyHistory EXCEPT ![ip] = kept]
      /\ r \notin Heavy => UNCHANGED <<activeHeavy, heavyHistory>>
  BY DEF Limiter!Notice, Limiter!Alive, Limiter!callerVars
<1>2. ip \in IPs /\ h \in Seq(Requests) /\ Once(h)
  BY LimiterConstants DEF LimiterInv, AccountOk, Limiter!TypeOK
<1>3. r \notin Entries(h) /\ admission[r] = "released"
  BY <1>1, <1>2 DEF LimiterInv, AccountOk, RequestOk
<1>4. /\ kept \in Seq(Requests) /\ Once(kept)
      /\ Entries(kept) = {x \in Entries(h) \cup {r} : Limiter!Fresh(x)}
  <2>1. Append(h, r) \in Seq(Requests) /\ Once(Append(h, r)) /\ Entries(Append(h, r)) = Entries(h) \cup {r}
    BY <1>2, <1>3, Appended
  <2> QED BY <2>1, Trimming
<1> HIDE DEF kept, h, ip
<1>5. Limiter!TypeOK'
  <2>1. activeHeavy' \in [IPs -> Nat]
    <3>1. CASE r \in Heavy
      <4> DEFINE less == IF activeHeavy[ip] > 0 THEN activeHeavy[ip] - 1 ELSE 0
      <4>1. less \in Nat /\ activeHeavy \in [IPs -> Nat]
        BY <1>2 DEF LimiterInv, Limiter!TypeOK
      <4>2. activeHeavy' = [activeHeavy EXCEPT ![ip] = less]
        BY <1>1, <3>1
      <4> HIDE DEF less
      <4> QED BY <4>1, <4>2
    <3>2. CASE r \notin Heavy
      BY <1>1, <3>2 DEF LimiterInv, Limiter!TypeOK
    <3> QED BY <3>1, <3>2
  <2>2. heavyHistory' \in [IPs -> Seq(Requests)]
    BY <1>1, <1>4 DEF LimiterInv, Limiter!TypeOK
  <2>3. watcher' \in [Requests -> {"none", "watching", "noticing"}]
    BY <1>1 DEF LimiterInv, Limiter!TypeOK
  <2> QED BY <1>1, <2>1, <2>2, <2>3 DEF LimiterInv, Limiter!TypeOK
<1>6. watcher'[r] = "none" /\ \A x \in Requests : x # r => watcher'[x] = watcher[x]
  BY <1>1 DEF LimiterInv, Limiter!TypeOK
<1>7. \A x \in Requests : RequestOk(x)'
  BY <1>1, <1>3, <1>6 DEF LimiterInv, RequestOk
<1>8. \A x \in IPs : WorkerOk(x)'
  BY <1>1 DEF LimiterInv, WorkerOk
<1>9. \A x \in IPs : x # ip => activeHeavy'[x] = activeHeavy[x] /\ heavyHistory'[x] = heavyHistory[x]
  BY <1>1 DEF LimiterInv, Limiter!TypeOK
<1>10. \A x \in IPs : x # ip => AccountOk(x)' /\ BurstOk(x)'
  BY <1>1, <1>6, <1>9, OthersStand DEF ip
<1>11. CASE r \notin Heavy
  <2>1. UNCHANGED <<activeHeavy, heavyHistory>>
    BY <1>1, <1>11
  <2>2. Running(ip)' = Running(ip) /\ Remembered(ip)' = Remembered(ip)
        /\ Limiter!Recent(ip)' = Limiter!Recent(ip)
    BY <1>1, <1>6, <1>11, <2>1, LimiterConstants DEF Running, Remembered, Limiter!Recent, Limiter!Fresh
  <2>3. Counting(ip)' = Counting(ip)
    BY <2>2 DEF Counting
  <2>4. \A x \in Entries(heavyHistory[ip]) :
          x \in Heavy /\ IpOf[x] = ip /\ watcher'[x] = "none" /\ admission'[x] = "released"
    BY <1>1, <1>2, <1>6, LimiterConstants DEF LimiterInv, AccountOk
  <2>5. AccountOk(ip)'
    BY <1>2, <2>1, <2>2, <2>3, <2>4 DEF LimiterInv, AccountOk
  <2>6. BurstOk(ip)'
    BY <1>1, <1>2, <2>1, <2>2, <2>3 DEF LimiterInv, BurstOk
  <2> QED BY <1>5, <1>7, <1>8, <1>10, <2>5, <2>6 DEF LimiterInv
<1>12. CASE r \in Heavy
  <2>1. heavyHistory'[ip] = kept /\ activeHeavy'[ip] = IF activeHeavy[ip] > 0 THEN activeHeavy[ip] - 1 ELSE 0
    BY <1>1, <1>2, <1>12 DEF LimiterInv, Limiter!TypeOK
  <2>2. r \in Running(ip) /\ Running(ip)' = Running(ip) \ {r}
    BY <1>1, <1>6, <1>12, LimiterConstants DEF Running, ip
  <2>3. Remembered(ip)' = {x \in Entries(h) \cup {r} : Limiter!Fresh(x)}
        /\ Limiter!Recent(ip)' = Limiter!Recent(ip)
    BY <1>1, <1>4, <2>1 DEF Remembered, Limiter!Fresh, Limiter!Recent
  <2>4. Counting(ip)' \subseteq Counting(ip)
    BY <2>2, <2>3 DEF Counting, Remembered, h
  <2>5. AccountOk(ip)'
    <3>1. \A x \in Entries(kept) :
            x \in Heavy /\ IpOf[x] = ip /\ watcher'[x] = "none" /\ admission'[x] = "released"
      <4>1. \A x \in Entries(h) :
              x \in Heavy /\ IpOf[x] = ip /\ watcher'[x] = "none" /\ admission'[x] = "released"
        BY <1>1, <1>2, <1>3, <1>6, LimiterConstants DEF LimiterInv, AccountOk, h
      <4> QED BY <1>1, <1>3, <1>4, <1>6, <1>12, <4>1 DEF ip
    <3>2. IsFiniteSet(Running(ip)') /\ activeHeavy'[ip] = Cardinality(Running(ip)')
      <4>1. activeHeavy[ip] = Cardinality(Running(ip)) /\ IsFiniteSet(Running(ip))
            /\ activeHeavy[ip] \in Nat
        BY <1>2 DEF LimiterInv, AccountOk, Limiter!TypeOK
      <4>2. IsFiniteSet(Running(ip) \ {r}) /\ Cardinality(Running(ip) \ {r}) = Cardinality(Running(ip)) - 1
        BY <2>2, <4>1, FS_RemoveElement
      <4>3. Cardinality(Running(ip) \ {r}) \in Nat
        BY <4>2, FS_CardinalityType
      <4> QED BY <2>1, <2>2, <4>1, <4>2, <4>3
    <3>3. Limiter!Recent(ip)' \subseteq Counting(ip)'
      <4>1. Limiter!Recent(ip) \subseteq Running(ip) \cup Remembered(ip)
        BY <1>2 DEF LimiterInv, AccountOk, Counting
      <4>2. \A x \in Limiter!Recent(ip) : Limiter!Fresh(x)
        BY DEF Limiter!Recent
      <4>3. Remembered(ip) \subseteq Remembered(ip)'
        BY <2>3 DEF Remembered, h
      <4> QED BY <2>2, <2>3, <4>1, <4>2, <4>3 DEF Counting
    <3> QED BY <1>4, <2>1, <3>1, <3>2, <3>3 DEF AccountOk
  <2>6. BurstOk(ip)'
    <3>1. Cardinality(Counting(ip)') <= Cardinality(Counting(ip)) /\ Cardinality(Counting(ip)') \in Nat
      BY <1>2, <2>4, CountsAdd, FS_Subset, FS_CardinalityType
    <3>2. Cardinality(Counting(ip)) <= Burst /\ Cardinality(Counting(ip)) \in Nat
      BY <1>2, CountsAdd DEF LimiterInv, BurstOk
    <3>3. Cardinality(Counting(ip)') <= Burst
      BY <3>1, <3>2, LimiterConstants
    <3> QED BY <1>1, <3>3 DEF BurstOk
  <2> QED BY <1>5, <1>7, <1>8, <1>10, <2>5, <2>6 DEF LimiterInv
<1> QED BY <1>11, <1>12

(* A stamp is set while the download is on the worker's account. *)
LEMMA StampKeeps == ASSUME LimiterInv, NEW r \in Requests, Limiter!Stamp(r) PROVE LimiterInv'
<1>1. /\ watcher[r] = "watching" /\ admission[r] = "released"
      /\ watcher' = [watcher EXCEPT ![r] = "noticing"] /\ age' = [age EXCEPT ![r] = 0]
      /\ UNCHANGED <<admission, contextDone, permit, dispatching, wstate, wreq, activeHeavy,
                     heavyHistory, crashed>>
  BY DEF Limiter!Stamp, Limiter!Alive, Limiter!callerVars, Limiter!workerVars
<1>2. Limiter!TypeOK'
  <2>1. 0 \in 0..Cooldown
    BY LimiterConstants
  <2> QED BY <1>1, <2>1 DEF LimiterInv, Limiter!TypeOK
<1>3. /\ watcher'[r] = "noticing"
      /\ \A x \in Requests : x # r => watcher'[x] = watcher[x] /\ age'[x] = age[x]
  BY <1>1 DEF LimiterInv, Limiter!TypeOK
<1>4. \A x \in Requests : RequestOk(x)'
  BY <1>1, <1>3 DEF LimiterInv, RequestOk
<1>5. \A x \in IPs : WorkerOk(x)'
  BY <1>1 DEF LimiterInv, WorkerOk
<1>6. ASSUME NEW ip \in IPs PROVE AccountOk(ip)' /\ BurstOk(ip)'
  <2>1. \A x \in Entries(heavyHistory[ip]) :
          /\ x \in Heavy /\ x \in Requests /\ IpOf[x] = ip /\ admission[x] = "released"
          /\ x # r /\ watcher'[x] = "none" /\ age'[x] = age[x]
    BY <1>1, <1>3, LimiterConstants DEF LimiterInv, AccountOk
  <2>2. Running(ip)' = Running(ip)
    BY <1>1, <1>3, LimiterConstants DEF Running
  <2>3. Remembered(ip)' = Remembered(ip)
    BY <1>1, <2>1 DEF Remembered, Limiter!Fresh
  <2>4. Counting(ip)' = Counting(ip)
    BY <2>2, <2>3 DEF Counting
  <2>5. Limiter!Recent(ip)' \subseteq Counting(ip)
    <3>1. Limiter!Recent(ip)' \subseteq Limiter!Recent(ip) \cup Running(ip)
      BY <1>1, <1>3, LimiterConstants DEF Limiter!Recent, Limiter!Fresh, Running
    <3> QED BY <3>1 DEF LimiterInv, AccountOk, Counting
  <2>6. AccountOk(ip)'
    BY <1>1, <2>1, <2>2, <2>4, <2>5 DEF LimiterInv, AccountOk
  <2>7. BurstOk(ip)'
    BY <1>1, <2>2, <2>4 DEF LimiterInv, BurstOk
  <2> QED BY <2>6, <2>7
<1> QED BY <1>2, <1>4, <1>5, <1>6 DEF LimiterInv

(* With time, downloads only stop to count. *)
LEMMA TickKeeps == ASSUME LimiterInv, Limiter!Tick PROVE LimiterInv'
<1>1. /\ age' = [r \in Requests |-> IF Limiter!Fresh(r) THEN age[r] + 1 ELSE age[r]]
      /\ UNCHANGED <<admission, contextDone, permit, dispatching, wstate, wreq, activeHeavy,
                     heavyHistory, watcher, crashed>>
  BY DEF Limiter!Tick, Limiter!Alive, Limiter!callerVars, Limiter!workerVars
<1>2. age' \in [Requests -> 0..Cooldown] /\ \A r \in Requests : age'[r] < Cooldown => age[r] < Cooldown
  <2>1. ASSUME NEW r \in Requests PROVE age'[r] \in 0..Cooldown /\ (age'[r] < Cooldown => age[r] < Cooldown)
    <3>1. age[r] \in 0..Cooldown /\ Cooldown \in Nat
      BY LimiterConstants DEF LimiterInv, Limiter!TypeOK
    <3>2. age'[r] = IF age[r] < Cooldown THEN age[r] + 1 ELSE age[r]
      BY <1>1 DEF Limiter!Fresh
    <3> QED BY <3>1, <3>2
  <2> QED BY <1>1, <2>1
<1>3. Limiter!TypeOK'
  BY <1>1, <1>2 DEF LimiterInv, Limiter!TypeOK
<1>4. (\A r \in Requests : RequestOk(r)') /\ \A ip \in IPs : WorkerOk(ip)'
  BY <1>1 DEF LimiterInv, RequestOk, WorkerOk
<1>5. ASSUME NEW ip \in IPs PROVE AccountOk(ip)' /\ BurstOk(ip)'
  <2>1. \A x \in Entries(heavyHistory[ip]) : x \in Requests
    BY LimiterConstants DEF LimiterInv, AccountOk
  <2>2. Running(ip)' = Running(ip)
    BY <1>1 DEF Running
  <2>3. Remembered(ip)' \subseteq Remembered(ip)
    BY <1>1, <1>2, <2>1 DEF Remembered, Limiter!Fresh
  <2>4. Counting(ip)' \in SUBSET Counting(ip)
    BY <2>2, <2>3 DEF Counting
  <2>5. Limiter!Recent(ip)' \subseteq Counting(ip)'
    <3>1. \A x \in Limiter!Recent(ip)' : x \in Limiter!Recent(ip) /\ age'[x] < Cooldown
      BY <1>2, LimiterConstants DEF Limiter!Recent, Limiter!Fresh
    <3>2. \A x \in Entries(heavyHistory[ip]) : age'[x] < Cooldown => x \in Remembered(ip)'
      BY <1>1 DEF Remembered, Limiter!Fresh
    <3>3. Limiter!Recent(ip) \subseteq Running(ip) \cup Entries(heavyHistory[ip])
      BY DEF LimiterInv, AccountOk, Counting, Remembered
    <3> QED BY <2>2, <3>1, <3>2, <3>3 DEF Counting
  <2>6. AccountOk(ip)'
    BY <1>1, <2>2, <2>5 DEF LimiterInv, AccountOk
  <2>7. BurstOk(ip)'
    <3>1. Cardinality(Counting(ip)') <= Cardinality(Counting(ip)) /\ Cardinality(Counting(ip)') \in Nat
          /\ Cardinality(Counting(ip)) \in Nat
      BY <2>4, CountsAdd, FS_Subset, FS_CardinalityType
    <3>2. /\ Cardinality(Counting(ip)') <= Burst
          /\ wstate[ip] = "granting" /\ wreq[ip] \in Heavy => Cardinality(Counting(ip)') < Burst
      BY <3>1, LimiterConstants DEF LimiterInv, BurstOk
    <3> QED BY <1>1, <2>2, <3>2 DEF LimiterInv, BurstOk
  <2> QED BY <2>6, <2>7
<1> QED BY <1>3, <1>4, <1>5 DEF LimiterInv

(* At the start every account is empty. *)
LEMMA LimiterStart == ASSUME Limiter!Init PROVE LimiterInv
<1> USE DEF Limiter!Init
<1>1. Limiter!TypeOK
  <2>1. Cooldown \in 0..Cooldown /\ 0 \in Nat
    BY LimiterConstants
  <2>2. <<>> \in Seq(Requests)
    OBVIOUS
  <2> QED BY <2>1, <2>2 DEF Limiter!TypeOK
<1>2. \A r \in Requests : RequestOk(r)
  BY LimiterConstants DEF RequestOk
<1>3. ASSUME NEW ip \in IPs PROVE WorkerOk(ip) /\ AccountOk(ip) /\ BurstOk(ip)
  <2>1. Running(ip) = {}
    BY LimiterConstants DEF Running
  <2>2. heavyHistory[ip] = <<>> /\ Entries(<<>>) = {} /\ Once(<<>>)
    BY DEF Entries, Once
  <2>3. Limiter!Recent(ip) = {}
    <3>1. \A r \in Requests : ~(age[r] < Cooldown)
      BY LimiterConstants
    <3> QED BY <3>1, LimiterConstants DEF Limiter!Recent, Limiter!Fresh
  <2>4. Counting(ip) = {}
    BY <2>1, <2>2 DEF Counting, Remembered
  <2>5. IsFiniteSet({}) /\ Cardinality({}) = 0
    BY FS_EmptySet
  <2>6. WorkerOk(ip)
    BY DEF WorkerOk
  <2>7. AccountOk(ip)
    BY <2>1, <2>2, <2>3, <2>4, <2>5 DEF AccountOk
  <2>8. BurstOk(ip)
    BY <2>4, <2>5, LimiterConstants DEF BurstOk
  <2> QED BY <2>6, <2>7, <2>8
<1> QED BY <1>1, <1>2, <1>3 DEF LimiterInv

(* Every step of the limiter. *)
LEMMA LimiterStep == ASSUME LimiterInv, Limiter!Next PROVE LimiterInv'
BY HandlersKeep, DispatcherKeeps, RefuseKeeps, AdmitKeeps, ThrottleKeeps, CooldownOverKeeps,
   GrantKeeps, NoticeKeeps, StampKeeps, TickKeeps DEF Limiter!Next, Limiter!WorkerStep

(* The limiter counts as this module does. *)
LEMMA SameCardinality == ASSUME NEW S PROVE Limiter!Cardinality(S) = Cardinality(S)
BY DEF Limiter!Cardinality, Cardinality

(* The limiter's invariant outlives steps of the other jobs as well. *)
LEMMA LimiterStays == ASSUME LimiterInv, [Next]_vars PROVE LimiterInv'
<1>1. ASSUME LimiterInv, UNCHANGED limiterVars PROVE LimiterInv'
  <2>1. UNCHANGED <<admission, contextDone, permit, dispatching, wstate, wreq, activeHeavy,
                    heavyHistory, watcher, age, crashed>>
    BY <1>1 DEF limiterVars
  <2>2. (\A r \in Requests : RequestOk(r)') /\ \A ip \in IPs : WorkerOk(ip)'
    BY <1>1, <2>1 DEF LimiterInv, RequestOk, WorkerOk
  <2>3. \A ip \in IPs : AccountOk(ip)' /\ BurstOk(ip)'
    BY <1>1, <2>1, AccountsStand
  <2> QED BY <1>1, <2>1, <2>2, <2>3 DEF LimiterInv, Limiter!TypeOK
<1> QED BY <1>1, LimiterStep
        DEF Next, MoveArchive, MoveAtomFast, MoveSafecast, MoveLimiter,
            InArchive, InLoader, InLimiter, vars

(* The property of the run: however late releases are heard of and however *)
(* long a cooldown was, no address has more than Burst heavy downloads in  *)
(* progress or just finished (runIPWorker).                                *)
THEOREM BurstIsRespected == Spec => []BurstRespected
<1>1. Init => LimiterInv
  BY LimiterStart DEF Init
<1>2. LimiterInv /\ [Next]_vars => LimiterInv'
  BY LimiterStays
<1>3. LimiterInv => BurstRespected
  <2> SUFFICES ASSUME LimiterInv, NEW ip \in IPs
               PROVE  Cardinality(Limiter!InFlight(ip) \cup Limiter!Recent(ip)) <= Burst
    BY SameCardinality DEF BurstRespected, Limiter!BurstRespected
  <2>1. Limiter!InFlight(ip) \subseteq Running(ip)
    BY LimiterConstants DEF LimiterInv, RequestOk, Limiter!InFlight, Running
  <2>2. Limiter!InFlight(ip) \cup Limiter!Recent(ip) \in SUBSET Counting(ip)
    BY <2>1 DEF LimiterInv, AccountOk, Counting
  <2>3. /\ Cardinality(Limiter!InFlight(ip) \cup Limiter!Recent(ip)) <= Cardinality(Counting(ip))
        /\ Cardinality(Limiter!InFlight(ip) \cup Limiter!Recent(ip)) \in Nat
    BY <2>2, CountsAdd, FS_Subset, FS_CardinalityType
  <2>4. Cardinality(Counting(ip)) <= Burst /\ Cardinality(Counting(ip)) \in Nat
    BY CountsAdd DEF LimiterInv, BurstOk
  <2> QED BY <2>3, <2>4, LimiterConstants
<1> QED BY <1>1, <1>2, <1>3, PTL DEF Spec

(* --- the limiter: the index out of range ------------------------------------- *)

(* An address has its whole burst under way, and its worker has another.   *)
Overrun(ip) == wreq[ip] \in Heavy /\ Cardinality(Running(ip)) = Burst
CrashInv == LimiterInv /\ (crashed => \E ip \in IPs : Overrun(ip))

LEMMA OnlyThrottleCrashes ==
    ASSUME LimiterInv, Limiter!Next
    PROVE  ~crashed /\ (crashed' => \E ip \in IPs : Limiter!Throttle(ip))
<1>1. crashed \in BOOLEAN
  BY DEF LimiterInv, Limiter!TypeOK
<1>2. ASSUME NEW r \in Requests, Limiter!HandlerStep(r) PROVE ~crashed /\ ~crashed'
  BY <1>1, <1>2 DEF Limiter!HandlerStep, Limiter!Arrive, Limiter!Cancel, Limiter!GiveUp, Limiter!TakePermit,
     Limiter!TakeRefusal, Limiter!Release, Limiter!Forget, Limiter!Move, Limiter!Alive
<1>3. ASSUME NEW r \in Requests,
             \/ Limiter!Receive(r) \/ Limiter!Dispatch(r) \/ Limiter!DispatchEnded(r)
             \/ Limiter!Notice(r) \/ Limiter!Stamp(r)
      PROVE  ~crashed /\ ~crashed'
  BY <1>1, <1>3 DEF Limiter!Receive, Limiter!Dispatch, Limiter!DispatchEnded, Limiter!Notice, Limiter!Stamp,
     Limiter!Alive
<1>4. ASSUME NEW ip \in IPs,
             Limiter!Refuse(ip) \/ Limiter!Admit(ip) \/ Limiter!CooldownOver(ip) \/ Limiter!Grant(ip)
      PROVE  ~crashed /\ ~crashed'
  BY <1>1, <1>4 DEF Limiter!Refuse, Limiter!Admit, Limiter!CooldownOver, Limiter!Grant, Limiter!Alive
<1>5. ASSUME NEW ip \in IPs, Limiter!Throttle(ip) PROVE ~crashed
  BY <1>5 DEF Limiter!Throttle
<1>6. ASSUME Limiter!Tick PROVE ~crashed /\ ~crashed'
  BY <1>1, <1>6 DEF Limiter!Tick, Limiter!Alive
<1> QED BY <1>2, <1>3, <1>4, <1>5, <1>6 DEF Limiter!Next, Limiter!WorkerStep

(* With nothing left of the history, all that counts is under way. *)
LEMMA CrashOverruns ==
    ASSUME LimiterInv, NEW ip \in IPs, Limiter!Throttle(ip), crashed'
    PROVE  Overrun(ip)'
<1> DEFINE kept == Limiter!Trimmed(heavyHistory[ip])
<1>1. /\ wreq[ip] \in Heavy /\ activeHeavy[ip] + Len(kept) >= Burst /\ crashed' = (kept = <<>>)
      /\ UNCHANGED <<wreq, watcher>>
  BY DEF Limiter!Throttle
<1>2. /\ Cardinality(Counting(ip)) = activeHeavy[ip] + Len(kept)
      /\ activeHeavy[ip] = Cardinality(Running(ip)) /\ activeHeavy[ip] \in Nat
  BY TrimmedCounts
<1>3. Cardinality(Counting(ip)) <= Burst
  BY DEF LimiterInv, BurstOk
<1> HIDE DEF kept
<1>4. kept = <<>>
  BY <1>1
<1>5. Len(kept) = 0
  BY <1>4
<1>6. Cardinality(Running(ip)) = Burst
  BY <1>1, <1>2, <1>3, <1>5, LimiterConstants
<1>7. Running(ip)' = Running(ip)
  BY <1>1 DEF Running
<1> QED BY <1>1, <1>6, <1>7 DEF Overrun

(* Why the limiter ends the process: never for what an address downloaded  *)
(* before, only when Burst heavy downloads of one address are all under    *)
(* way and it asks for one more (runIPWorker reads the first of the stamps *)
(* it kept, and there is none).                                            *)
THEOREM CrashNeedsOverrun == Spec => [](crashed => \E ip \in IPs : Overrun(ip))
<1>1. Init => CrashInv
  <2> SUFFICES ASSUME Init PROVE CrashInv
    OBVIOUS
  <2>1. LimiterInv
    BY LimiterStart DEF Init
  <2>2. ~crashed
    BY DEF Init, Limiter!Init
  <2> QED BY <2>1, <2>2 DEF CrashInv
<1>2. CrashInv /\ [Next]_vars => CrashInv'
  <2> SUFFICES ASSUME CrashInv, [Next]_vars PROVE CrashInv'
    OBVIOUS
  <2>1. LimiterInv /\ LimiterInv'
    BY LimiterStays DEF CrashInv
  <2>2. CASE Limiter!Next
    <3>1. SUFFICES ASSUME crashed' PROVE \E ip \in IPs : Overrun(ip)'
      BY <2>1 DEF CrashInv
    <3>2. PICK ip \in IPs : Limiter!Throttle(ip)
      BY <2>1, <2>2, <3>1, OnlyThrottleCrashes
    <3>3. Overrun(ip)'
      BY <2>1, <3>1, <3>2, CrashOverruns
    <3> QED BY <3>3
  <2>3. CASE UNCHANGED limiterVars
    <3>1. UNCHANGED <<wreq, watcher, crashed>>
      BY <2>3 DEF limiterVars
    <3>2. \A ip \in IPs : Overrun(ip)' = Overrun(ip)
      BY <3>1 DEF Overrun, Running
    <3> QED BY <2>1, <3>1, <3>2 DEF CrashInv
  <2> QED BY <2>2, <2>3
          DEF Next, MoveArchive, MoveAtomFast, MoveSafecast, MoveLimiter,
              InArchive, InLoader, InLimiter, vars
<1>3. CrashInv => (crashed => \E ip \in IPs : Overrun(ip))
  BY DEF CrashInv
<1> QED BY <1>1, <1>2, <1>3, PTL DEF Spec

(* The calls for heavy downloads that an address may have side by side. *)
HeavyOf(ip) == {r \in Heavy : IpOf[r] = ip}

(* The call in the worker's hands is not among those under way. *)
LEMMA OneMoreThanBurst ==
    ASSUME LimiterInv, NEW ip \in IPs, Overrun(ip), IsFiniteSet(HeavyOf(ip))
    PROVE  Cardinality(HeavyOf(ip)) > Burst
<1>1. wreq[ip] \in HeavyOf(ip)
  BY LimiterConstants DEF LimiterInv, WorkerOk, Overrun, HeavyOf
<1>2. watcher[wreq[ip]] = "none"
  BY <1>1, LimiterConstants DEF LimiterInv, RequestOk, HeavyOf
<1>3. Running(ip) \in SUBSET (HeavyOf(ip) \ {wreq[ip]})
  BY <1>2 DEF Running, HeavyOf
<1>4. /\ IsFiniteSet(HeavyOf(ip) \ {wreq[ip]})
      /\ Cardinality(HeavyOf(ip) \ {wreq[ip]}) = Cardinality(HeavyOf(ip)) - 1
      /\ Cardinality(HeavyOf(ip)) \in Nat
  BY <1>1, FS_RemoveElement, FS_CardinalityType
<1>5. Cardinality(Running(ip)) <= Cardinality(HeavyOf(ip)) - 1
  BY <1>3, <1>4, FS_Subset
<1> QED BY <1>4, <1>5, LimiterConstants DEF Overrun

(* The property that fails in general holds for modest clients: while no   *)
(* address has more than Burst heavy downloads asked for, under way or     *)
(* remembered at a time (a request is used again only when it is           *)
(* forgotten), throttling never ends the process (runIPWorker).            *)
THEOREM ModestClientsSurvive ==
    ASSUME \A ip \in IPs : IsFiniteSet(HeavyOf(ip)) /\ Cardinality(HeavyOf(ip)) <= Burst
    PROVE  Spec => []Limiter!ThrottlingSurvives
<1>1. Init => LimiterInv
  BY LimiterStart DEF Init
<1>2. LimiterInv /\ [Next]_vars => LimiterInv'
  BY LimiterStays
<1>3. LimiterInv /\ (crashed => \E ip \in IPs : Overrun(ip)) => Limiter!ThrottlingSurvives
  <2> SUFFICES ASSUME LimiterInv, NEW ip \in IPs, Overrun(ip) PROVE FALSE
    BY DEF Limiter!ThrottlingSurvives
  <2>1. Cardinality(HeavyOf(ip)) > Burst /\ Cardinality(HeavyOf(ip)) <= Burst
    BY OneMoreThanBurst
  <2>2. Cardinality(HeavyOf(ip)) \in Nat
    BY FS_CardinalityType
  <2> QED BY <2>1, <2>2, LimiterConstants
<1> QED BY <1>1, <1>2, <1>3, CrashNeedsOverrun, PTL DEF Spec
-----------------------------------------------------------------------------
(* --- types ------------------------------------------------------------------ *)

(* There is a temporary archive just while one is built.                   *)
ArchiveTypes ==
    /\ archive \in {"none", "complete"} /\ temps \in 0..1
    /\ due \in BOOLEAN /\ requested \in BOOLEAN /\ stopping \in BOOLEAN
    /\ builder \in {"idle", "building", "removed", "reporting", "gone"}
    /\ outcome \in Archive!Results /\ result \in Archive!Results /\ current \in Archive!Results
    /\ timer \in {"off", "aligned", "plain"}
    /\ coord \in {"selecting", "waiting", "stopped"} /\ serving \in Callers \cup {NoCaller}
    /\ phase \in [Callers -> {"idle", "sending", "waiting", "returned"}]
    /\ ended \in [Callers -> BOOLEAN] /\ answer \in [Callers -> Archive!Results]
    /\ crashes \in 0..MaxCrashes
    /\ coord = "waiting" <=> serving # NoCaller
    /\ builder = "reporting" <=> outcome # "none"
    /\ temps = 1 <=> builder \in {"building", "removed"}

LEMMA ArchiveWrittenOut == ASSUME ArchiveTypes PROVE Archive!TypeOK
<1>1. (coord = "waiting") = (serving # NoCaller)
  BY DEF ArchiveTypes
<1>2. (builder = "reporting") = (outcome # "none")
  BY DEF ArchiveTypes
<1> QED BY <1>1, <1>2 DEF ArchiveTypes, Archive!TypeOK

LEMMA ArchiveTypesKeep == ASSUME ArchiveTypes, Archive!Next PROVE ArchiveTypes'
<1>n. NoCaller \notin Callers /\ MaxCrashes \in Nat
  BY JobsAssumption DEF Archive!Assumption
<1> USE DEF ArchiveTypes, Archive!Results
<1>1. CASE Archive!BuildStarts \/ Archive!Report \/ Archive!BuilderStops
  <2> USE DEF Archive!Builder, Archive!diskVars, Archive!callVars
  <2>1. CASE Archive!BuildStarts
    <3>1. requested' = FALSE
      BY <2>1 DEF Archive!BuildStarts
    <3>2. requested' \in BOOLEAN
      BY <3>1
    <3>3. temps = 0 /\ temps' = 1 /\ builder' = "building"
      BY <2>1 DEF Archive!BuildStarts
    <3>4. UNCHANGED <<archive, due, outcome, result, current, timer, coord, serving, stopping,
                      phase, ended, answer, crashes>>
      BY <2>1 DEF Archive!BuildStarts
    <3> QED BY <2>1, <3>2, <3>3, <3>4, <1>n DEF Archive!BuildStarts
  <2>2. CASE Archive!Report
    BY <2>2, <1>n DEF Archive!Report
  <2>3. CASE Archive!BuilderStops
    BY <2>3, <1>n DEF Archive!BuilderStops
  <2> QED BY <1>1, <2>1, <2>2, <2>3
<1>2. CASE Archive!Build
  <2> USE DEF Archive!Builder, Archive!Built, Archive!callVars
  <2>1. CASE Archive!BuildFails
    BY <2>1, <1>n DEF Archive!BuildFails
  <2>2. CASE Archive!Replace
    <3>1. due' = FALSE /\ due' \in BOOLEAN
      BY <2>2 DEF Archive!Replace
    <3> QED BY <2>2, <3>1, <1>n DEF Archive!Replace
  <2>3. CASE Archive!RemoveOld
    BY <2>3, <1>n DEF Archive!RemoveOld
  <2>4. CASE Archive!RenameAgain
    <3>1. due' \in BOOLEAN
      BY <2>4 DEF Archive!RenameAgain
    <3> QED BY <2>4, <3>1, <1>n DEF Archive!RenameAgain
  <2> QED BY <1>2, <2>1, <2>2, <2>3, <2>4 DEF Archive!Build
<1>3. CASE Archive!Coordinate
  <2> USE DEF Archive!diskVars, Archive!buildVars, Archive!callVars
  <2>1. CASE Archive!Receive \/ Archive!TimerFires
    BY <2>1, <1>n DEF Archive!Receive, Archive!TimerFires, Archive!Take
  <2>2. CASE Archive!AwaitOver
    BY <2>2, <1>n DEF Archive!AwaitOver, Archive!Take
  <2>3. CASE Archive!CoordStops
    BY <2>3, <1>n DEF Archive!CoordStops
  <2>4. ASSUME NEW c \in Callers, Archive!Serve(c) PROVE ArchiveTypes'
    BY <2>4, <1>n DEF Archive!Serve, Archive!Accept
  <2>5. ASSUME NEW c \in Callers, Archive!Await(c) PROVE ArchiveTypes'
    BY <2>5, <1>n DEF Archive!Await, Archive!Accept
  <2> QED BY <1>3, <2>1, <2>2, <2>3, <2>4, <2>5 DEF Archive!Coordinate
<1>4. ASSUME NEW c \in Callers,
             \/ Archive!Fetch(c) \/ Archive!Return(c)
             \/ Archive!FetchAgain(c) \/ Archive!EndContext(c)
      PROVE  ArchiveTypes'
  <2> USE DEF Archive!Caller, Archive!diskVars, Archive!buildVars
  <2>1. CASE Archive!Fetch(c) \/ Archive!Return(c)
    BY <2>1, <1>n DEF Archive!Fetch, Archive!Return
  <2>2. CASE Archive!FetchAgain(c)
    BY <2>2, <1>n DEF Archive!FetchAgain
  <2>3. CASE Archive!EndContext(c)
    BY <2>3, <1>n DEF Archive!EndContext
  <2> QED BY <1>4, <2>1, <2>2, <2>3
<1>5. CASE Archive!Expire \/ Archive!Shutdown
  <2> USE DEF Archive!diskVars, Archive!buildVars, Archive!callVars
  <2>1. CASE Archive!Expire
    BY <2>1, <1>n DEF Archive!Expire
  <2>2. CASE Archive!Shutdown
    BY <2>2, <1>n DEF Archive!Shutdown
  <2> QED BY <1>5, <2>1, <2>2
<1>6. CASE Archive!Crash
  BY <1>6, <1>n DEF Archive!Crash, Archive!Started
<1> QED BY <1>1, <1>2, <1>3, <1>4, <1>5, <1>6 DEF Archive!Next

(* What a walk has imported of a page, what is left of it, and the track   *)
(* in work are no more than the page was.                                  *)
LoaderTypes ==
    /\ published \in 0..MaxSources
    /\ history \in [Sources -> {"none", "imported", "skipped"}]
    /\ stored \subseteq Sources /\ labelled \subseteq Sources
    /\ at \in {"boot", "initial", "refresh", "idle"}
    /\ page \in 0..MaxSources /\ queue \in Seq(1..published)
    /\ seen \in 0..(SeenLimit - 1) /\ fresh \in 0..PageSize
    /\ source \in 0..published /\ working \in 0..3 /\ (source = 0 <=> working = 0)
    /\ faults \in 0..MaxFaults
    /\ fresh + Len(queue) + (IF source = 0 THEN 0 ELSE 1) <= PageSize

LEMMA LoaderLimits ==
    /\ MaxSources \in Nat \ {0} /\ PageSize \in Nat \ {0} /\ SeenLimit \in Nat \ {0}
    /\ MaxFaults \in Nat
BY JobsAssumption DEF AtomFast!Assumption

LEMMA TypesWrittenOut == ASSUME LoaderTypes PROVE AtomFast!TypeOK
<1>1. AtomFast!Max({SeenLimit - 1, 0}) = SeenLimit - 1
  <2>1. SeenLimit - 1 \in Int /\ 0 \in Int /\ SeenLimit - 1 >= 0
    BY LoaderLimits
  <2> HIDE DEF LoaderTypes
  <2> DEFINE a == SeenLimit - 1
  <2>2. a \in Int /\ a >= 0
    BY <2>1
  <2> HIDE DEF a
  <2>3. AtomFast!Max({a, 0}) \in {a, 0} /\ AtomFast!Max({a, 0}) >= a
    BY <2>1, <2>2, AtomFastBounds
  <2>4. AtomFast!Max({a, 0}) = a
    BY <2>2, <2>3
  <2> QED BY <2>4 DEF a
<1>2. Len(queue) <= PageSize
  <2>1. Len(queue) \in Nat /\ fresh \in Nat
    BY DEF LoaderTypes
  <2> QED BY <2>1, LoaderLimits DEF LoaderTypes
<1> QED BY <1>1, <1>2 DEF LoaderTypes, AtomFast!TypeOK, AtomFast!Sources, Sources

(* A page lists tracks, and there are no more pages than tracks. *)
LEMMA PageTypes ==
    ASSUME LoaderTypes
    PROVE  /\ AtomFast!Page(page + 1) \in Seq(1..published)
           /\ Len(AtomFast!Page(page + 1)) <= PageSize
           /\ AtomFast!Page(page + 1) # <<>> => page < MaxSources
<1> DEFINE first == published - page * PageSize
           size == AtomFast!Min({PageSize, AtomFast!Max({first, 0})})
<1>1. PageSize \in Nat \ {0} /\ page \in Nat /\ published \in 0..MaxSources /\ MaxSources \in Nat
  BY LoaderLimits DEF LoaderTypes
<1>2. page * PageSize \in Nat /\ page <= page * PageSize
  <2>1. page * PageSize = page + page * (PageSize - 1)
    BY <1>1
  <2>2. PageSize - 1 \in Nat
    BY <1>1
  <2>3. page * (PageSize - 1) \in Nat
    BY <1>1, <2>2
  <2> QED BY <1>1, <2>1, <2>3
<1>3. first \in Int /\ first <= published /\ (first > 0 => page < MaxSources)
  BY <1>1, <1>2
<1>4. size \in Nat /\ size <= PageSize /\ (size > 0 => size <= first /\ first > 0)
  <2> DEFINE most == AtomFast!Max({first, 0})
  <2>0. 0 \in Int /\ PageSize \in Int
    BY <1>1
  <2> HIDE DEF first
  <2>1. most \in {first, 0} /\ most >= first /\ most >= 0
    BY Zenon, <1>3, <2>0, AtomFastBounds
  <2>2. most \in Int
    BY <2>1, <1>3
  <2> HIDE DEF most
  <2>3. size \in {PageSize, most} /\ size <= PageSize /\ size <= most
    BY Zenon, <2>0, <2>2, AtomFastBounds DEF most
  <2> HIDE DEF size
  <2> QED BY <1>1, <1>3, <2>1, <2>3
<1>5. AtomFast!Page(page + 1) = [i \in 1..size |-> first - i + 1]
  <2>1. published - ((page + 1) - 1) * PageSize = first
    BY <1>1
  <2> QED BY Zenon, <2>1 DEF AtomFast!Page
<1> HIDE DEF size, first
<1>6. \A i \in 1..size : first - i + 1 \in 1..published
  BY <1>1, <1>3, <1>4
<1>7. [i \in 1..size |-> first - i + 1] \in Seq(1..published)
  BY <1>4, <1>6
<1>8. Len([i \in 1..size |-> first - i + 1]) = size
  BY <1>4
<1>9. AtomFast!Page(page + 1) # <<>> => size > 0
  <2> SUFFICES ASSUME ~(size > 0) PROVE AtomFast!Page(page + 1) = <<>>
    OBVIOUS
  <2>1. size = 0
    BY <1>4
  <2> QED BY <1>5, <1>7, <1>8, <2>1
<1> QED BY <1>3, <1>4, <1>5, <1>7, <1>8, <1>9

(* The kinds of steps that differ between the providers.                   *)
LEMMA EnterTypes ==
    ASSUME LoaderTypes, NEW ph \in {"boot", "initial", "refresh", "idle"}, AtomFast!Enter(ph),
           UNCHANGED <<published, history, stored, labelled>>,
           UNCHANGED <<source, working>> \/ AtomFast!WorkerWaits,
           UNCHANGED faults \/ AtomFast!Fault
    PROVE  LoaderTypes'
<1>1. queue' = <<>> /\ Len(queue') = 0 /\ queue' \in Seq(1..published)
  BY DEF AtomFast!Enter
<1> QED BY <1>1, LoaderLimits DEF LoaderTypes, AtomFast!Enter, AtomFast!WorkerWaits, AtomFast!Fault

LEMMA PageComes ==
    ASSUME LoaderTypes, source = 0, AtomFast!Page(page + 1) # <<>>,
           queue' = AtomFast!Page(page + 1), page' = page + 1, fresh' = 0,
           UNCHANGED <<published, history, stored, labelled, at, seen, source, working, faults>>
    PROVE  LoaderTypes'
<1>1. Len(queue') \in Nat /\ Len(queue') <= PageSize /\ queue' \in Seq(1..published) /\ page < MaxSources
  BY PageTypes
<1> HIDE DEF AtomFast!Page
<1> QED BY <1>1, LoaderLimits DEF LoaderTypes

LEMMA WorkTypes ==
    ASSUME LoaderTypes, working > 0,
           stored' = stored \/ stored' = stored \cup {source},
           labelled' = labelled \/ labelled' = labelled \cup {source},
           \/ history' = history
           \/ \E told \in {"imported", "skipped"} : history' = [history EXCEPT ![source] = told],
           \/ source' = 0 /\ working' = 0 /\ fresh' \in {fresh, fresh + 1}
           \/ working < 3 /\ working' = working + 1 /\ UNCHANGED <<source, fresh>>,
           UNCHANGED <<published, at, page, queue, seen, faults>>
    PROVE  LoaderTypes'
<1>1. source \in Sources /\ source # 0 /\ Len(queue) \in Nat
  BY LoaderLimits DEF LoaderTypes, Sources
<1>2. history' \in [Sources -> {"none", "imported", "skipped"}]
  BY DEF LoaderTypes
<1>3. stored' \subseteq Sources /\ labelled' \subseteq Sources
  BY <1>1 DEF LoaderTypes
<1> QED BY <1>1, <1>2, <1>3, LoaderLimits DEF LoaderTypes

(* The others are the same for both.                                       *)
Alike ==
    \/ AtomFast!Tick \/ AtomFast!NothingNew \/ AtomFast!Skip \/ AtomFast!Request
    \/ AtomFast!LookupFails \/ AtomFast!WorkFails \/ AtomFast!Crash \/ AtomFast!Publish

LEMMA AlikeTypes == ASSUME LoaderTypes, Alike PROVE LoaderTypes'
<1>q. queue # <<>> => /\ Head(queue) \in 1..published /\ Tail(queue) \in Seq(1..published)
                      /\ Len(Tail(queue)) = Len(queue) - 1
  <2> DEFINE T == 1..published
  <2>1. queue \in Seq(T)
    BY DEF LoaderTypes
  <2> HIDE DEF T
  <2>2. queue # <<>> => Head(queue) \in T /\ Tail(queue) \in Seq(T) /\ Len(Tail(queue)) = Len(queue) - 1
    BY <2>1
  <2> QED BY <2>2 DEF T
<1>l. Len(queue) \in Nat
  BY DEF LoaderTypes
<1>1. CASE AtomFast!Tick \/ AtomFast!NothingNew \/ AtomFast!Crash
  BY <1>1, EnterTypes DEF AtomFast!Tick, AtomFast!NothingNew, AtomFast!Crash, AtomFast!tables
<1>2. CASE AtomFast!Skip
  <2>1. CASE AtomFast!Enter("idle")
    BY <1>2, <2>1, EnterTypes DEF AtomFast!Skip, AtomFast!tables
  <2>2. CASE ~AtomFast!Enter("idle")
    <3>1. /\ queue # <<>> /\ queue' = Tail(queue) /\ source = 0
          /\ seen' = seen \/ (seen' = seen + 1 /\ seen + 1 < SeenLimit)
          /\ UNCHANGED <<at, page, fresh, published, history, stored, labelled, source, working, faults>>
      BY <1>2, <2>2, LoaderLimits DEF AtomFast!Skip, AtomFast!tables, LoaderTypes
    <3> QED BY <1>q, <1>l, <3>1, LoaderLimits DEF LoaderTypes
  <2> QED BY <2>1, <2>2
<1>3. CASE AtomFast!Request
  BY <1>3, <1>q, <1>l, LoaderLimits DEF AtomFast!Request, AtomFast!tables, LoaderTypes
<1>4. CASE AtomFast!LookupFails
  BY <1>4, <1>q, <1>l, LoaderLimits DEF AtomFast!LookupFails, AtomFast!Fault, AtomFast!tables, LoaderTypes
<1>5. CASE AtomFast!WorkFails
  BY <1>5, <1>l, LoaderLimits
     DEF AtomFast!WorkFails, AtomFast!WorkerWaits, AtomFast!Fault, AtomFast!tables, LoaderTypes
<1>6. CASE AtomFast!Publish
  <2>1. published' = published + 1 /\ published < MaxSources
        /\ UNCHANGED <<history, stored, labelled, at, page, queue, seen, fresh, source, working, faults>>
    BY <1>6 DEF AtomFast!Publish, AtomFast!tables
  <2>2. queue \in Seq(1..published')
    <3>1. 1..published \subseteq 1..published' /\ queue \in Seq(1..published)
      BY <2>1 DEF LoaderTypes
    <3>2. \A S, T : S \subseteq T => \A q \in Seq(S) : q \in Seq(T)
      OBVIOUS
    <3> QED BY Zenon, <3>1, <3>2
  <2> QED BY <2>1, <2>2, <1>l, LoaderLimits DEF LoaderTypes
<1> QED BY <1>1, <1>2, <1>3, <1>4, <1>5, <1>6 DEF Alike

LEMMA AtomFastTypes == ASSUME LoaderTypes, AtomFast!Next PROVE LoaderTypes'
<1>1. CASE AtomFast!Boot
  BY <1>1, EnterTypes DEF AtomFast!Boot, AtomFast!tables
<1>2. CASE AtomFast!PageFails
  BY <1>2, EnterTypes DEF AtomFast!PageFails, AtomFast!Finish, AtomFast!tables
<1>3. CASE AtomFast!FetchPage
  <2>1. CASE AtomFast!Page(page + 1) = <<>>
    BY <1>3, <2>1, EnterTypes DEF AtomFast!FetchPage, AtomFast!Finish, AtomFast!tables
  <2>2. CASE AtomFast!Page(page + 1) # <<>>
    BY <1>3, <2>2, PageComes DEF AtomFast!FetchPage, AtomFast!Walking, AtomFast!tables
  <2> QED BY <2>1, <2>2
<1>4. CASE AtomFast!Reject
  BY <1>4, WorkTypes DEF AtomFast!Reject, AtomFast!WorkerWaits
<1>5. CASE AtomFast!Work
  <2>1. Len(AtomFast!Order) = 3
    BY DEF AtomFast!Order
  <2>2. working \in 0..3
    BY DEF LoaderTypes
  <2> QED BY <1>5, <2>1, <2>2, WorkTypes DEF AtomFast!Work, AtomFast!WorkerWaits
<1> QED BY <1>1, <1>2, <1>3, <1>4, <1>5, AlikeTypes DEF AtomFast!Next, Alike

LEMMA SafecastTypes == ASSUME LoaderTypes, Safecast!Next PROVE LoaderTypes'
<1>e. \A ph : Safecast!Enter(ph) <=> AtomFast!Enter(ph)
  BY DEF Safecast!Enter, AtomFast!Enter
<1>f. /\ Safecast!Fault <=> AtomFast!Fault
      /\ Safecast!WorkerWaits <=> AtomFast!WorkerWaits
  BY DEF Safecast!Fault, AtomFast!Fault, Safecast!WorkerWaits, AtomFast!WorkerWaits
<1>1. CASE Safecast!Boot
  BY <1>1, <1>e, <1>f, EnterTypes DEF Safecast!Boot, Safecast!tables
<1>2. CASE Safecast!PageFails
  BY <1>2, <1>e, <1>f, EnterTypes DEF Safecast!PageFails, Safecast!Finish, Safecast!tables
<1>3. CASE Safecast!FetchPage
  <2>1. CASE Safecast!Page(page + 1) = <<>>
    BY <1>3, <2>1, <1>e, EnterTypes DEF Safecast!FetchPage, Safecast!Finish, Safecast!tables
  <2>2. CASE Safecast!Page(page + 1) # <<>>
    BY <1>3, <2>2, SamePage, PageComes DEF Safecast!FetchPage, Safecast!Walking, Safecast!tables
  <2> QED BY <2>1, <2>2
<1>4. CASE Safecast!Reject
  BY <1>4, WorkTypes DEF Safecast!Reject, Safecast!WorkerWaits
<1>5. CASE Safecast!Work
  <2>1. Len(Safecast!Order) = 3
    BY DEF Safecast!Order
  <2>2. working \in 0..3
    BY DEF LoaderTypes
  <2> QED BY <1>5, <2>1, <2>2, WorkTypes DEF Safecast!Work, Safecast!WorkerWaits
<1>6. CASE \/ Safecast!Tick \/ Safecast!NothingNew \/ Safecast!Skip \/ Safecast!Request
           \/ Safecast!LookupFails \/ Safecast!WorkFails \/ Safecast!Crash \/ Safecast!Publish
  <2>1. Alike
    BY <1>6, <1>e, <1>f
       DEF Alike, Safecast!Tick, Safecast!NothingNew, Safecast!Skip, Safecast!Request,
           Safecast!LookupFails, Safecast!WorkFails, Safecast!Crash, Safecast!Publish,
           Safecast!Walking, Safecast!Exhausted, Safecast!Known, Safecast!tables,
           AtomFast!Tick, AtomFast!NothingNew, AtomFast!Skip, AtomFast!Request,
           AtomFast!LookupFails, AtomFast!WorkFails, AtomFast!Crash, AtomFast!Publish,
           AtomFast!Walking, AtomFast!Exhausted, AtomFast!Known, AtomFast!tables
  <2> QED BY <2>1, AlikeTypes
<1> QED BY <1>1, <1>2, <1>3, <1>4, <1>5, <1>6 DEF Safecast!Next

(* Types, with what keeps resources bounded: an archive has at most one    *)
(* temporary file (buildArchive, replaceFile); a loader takes no more from *)
(* a page than the page has, asks for no more pages than there are tracks, *)
(* and passes fewer known tracks than its limit (atomfastLoader).          *)
THEOREM JobTypes == Spec => []TypeOK
<1> DEFINE Inv == ArchiveTypes /\ LoaderTypes /\ LimiterInv
<1>1. Init => Inv
  <2> SUFFICES ASSUME Init PROVE Inv
    OBVIOUS
  <2>1. ArchiveTypes
    <3>1. /\ archive \in {"none", "complete"} /\ temps = 0
          /\ due \in BOOLEAN /\ requested \in BOOLEAN /\ stopping \in BOOLEAN
      BY DEF Init, Archive!Init
    <3>2. /\ phase \in [Callers -> {"idle", "sending", "waiting", "returned"}]
          /\ ended \in [Callers -> BOOLEAN] /\ answer \in [Callers -> Archive!Results]
      BY DEF Init, Archive!Init, Archive!Results
    <3>3. /\ outcome = "none" /\ result = "none" /\ current \in {"none", "ok"}
          /\ builder = "idle" /\ coord = "selecting" /\ serving = NoCaller
          /\ timer \in {"plain", "aligned"} /\ crashes = 0
      BY DEF Init, Archive!Init
    <3>4. MaxCrashes \in Nat
      BY JobsAssumption DEF Archive!Assumption
    <3> QED BY <3>1, <3>2, <3>3, <3>4 DEF ArchiveTypes, Archive!Results
  <2>2. LoaderTypes
    <3>1. <<>> \in Seq(1..published) /\ Len(<<>>) = 0
      OBVIOUS
    <3> QED BY <3>1, LoaderLimits DEF Init, AtomFast!Init, AtomFast!Sources, LoaderTypes, Sources
  <2> QED BY <2>1, <2>2, LimiterStart DEF Init
<1>2. Inv /\ [Next]_vars => Inv'
  <2> SUFFICES ASSUME Inv, [Next]_vars PROVE Inv'
    OBVIOUS
  <2>1. ArchiveTypes'
    <3>1. CASE MoveArchive
      BY <3>1, ArchiveTypesKeep DEF MoveArchive, InArchive
    <3>2. CASE UNCHANGED archiveVars
      BY <3>2 DEF archiveVars, ArchiveTypes
    <3> QED BY <3>1, <3>2 DEF Next, MoveAtomFast, MoveSafecast, MoveLimiter, InLoader, InLimiter, vars
  <2>2. LoaderTypes'
    <3>1. CASE MoveAtomFast
      BY <3>1, AtomFastTypes DEF MoveAtomFast, InLoader
    <3>2. CASE MoveSafecast
      BY <3>2, SafecastTypes DEF MoveSafecast, InLoader
    <3>3. CASE UNCHANGED loaderVars
      BY <3>3 DEF loaderVars, LoaderTypes
    <3> QED BY <3>1, <3>2, <3>3 DEF Next, MoveArchive, MoveLimiter, InArchive, InLimiter, vars
  <2>3. LimiterInv'
    BY LimiterStays
  <2> QED BY <2>1, <2>2, <2>3
<1>3. Inv => TypeOK
  BY ArchiveWrittenOut, TypesWrittenOut DEF LimiterInv, TypeOK
<1> QED BY <1>1, <1>2, <1>3, PTL DEF Spec
==============================================================================
