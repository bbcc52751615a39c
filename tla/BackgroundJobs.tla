----------------------------- MODULE BackgroundJobs -----------------------------
(***************************************************************************)
(* The goroutines that main starts and that run as long as the process:    *)
(* the generator of the JSON archive, the loaders of AtomFast and          *)
(* Safecast, which keep their progress under their own source name in      *)
(* import_history, and the rate limiter of the API.  What any of them may  *)
(* do does not depend on the state of the others, so one of them moves     *)
(* while the others stand still: the behaviours of each are all there, and *)
(* TLC explores the sum of their state spaces instead of the product.      *)
(***************************************************************************)
EXTENDS Integers, Sequences, FiniteSetsExt

CONSTANTS
    Callers, NoCaller, MaxCrashes,
    MaxSources, PageSize, SeenLimit, MaxFaults, Broken, PublishWhile,
    Requests, IPs, IpOf, Heavy, Burst, Cooldown, NoRequest

VARIABLES
    moving,     \* the part that moves
    archive, due, temps, requested, builder, outcome, result, current, timer, coord,
    serving, stopping, phase, ended, answer, crashes,
    published, history, stored, labelled, at, page, queue, seen, fresh, source, working,
    faults,
    admission, contextDone, permit, dispatching, wstate, wreq, activeHeavy,
    heavyHistory, watcher, age, crashed

Archive == INSTANCE ArchiveGenerator
AtomFast == INSTANCE ImportLoader
    WITH Provider <- "AtomFast", phase <- at, step <- working
Safecast == INSTANCE ImportLoader
    WITH Provider <- "Safecast", phase <- at, step <- working
Limiter == INSTANCE RateLimiter
    WITH phase <- admission, ended <- contextDone, reply <- permit

ASSUME JobsAssumption ==
    /\ Archive!Assumption /\ AtomFast!Assumption /\ Limiter!Assumption

archiveVars == <<archive, due, temps, requested, builder, outcome, result, current,
                 timer, coord, serving, stopping, phase, ended, answer, crashes>>
loaderVars == <<published, history, stored, labelled, at, page, queue, seen, fresh,
                source, working, faults>>
limiterVars == <<admission, contextDone, permit, dispatching, wstate, wreq, activeHeavy,
                 heavyHistory, watcher, age, crashed>>
vars == <<moving, archiveVars, loaderVars, limiterVars>>

(* Only the part that moves has more than one initial state. *)
Init ==
    /\ moving \in {"archive", "AtomFast", "Safecast", "limiter"}
    /\ Archive!Init /\ AtomFast!Init /\ Limiter!Init
    /\ moving # "archive" => archive = "complete" /\ ~due
    /\ moving \notin {"AtomFast", "Safecast"} => published = 0

(* Steps of the part that moves. *)
InArchive(step) == moving = "archive" /\ step /\ UNCHANGED <<moving, loaderVars, limiterVars>>
InLimiter(step) == moving = "limiter" /\ step /\ UNCHANGED <<moving, archiveVars, loaderVars>>
InLoader(provider, step) ==
    moving = provider /\ step /\ UNCHANGED <<moving, archiveVars, limiterVars>>

MoveArchive == InArchive(Archive!Next)
MoveAtomFast == InLoader("AtomFast", AtomFast!Next)
MoveSafecast == InLoader("Safecast", Safecast!Next)
MoveLimiter == InLimiter(Limiter!Next)

Next == MoveArchive \/ MoveAtomFast \/ MoveSafecast \/ MoveLimiter

(* The goroutine of the loader that moves runs on and its ticker fires.    *)
LoaderProgress ==
    InLoader("AtomFast", AtomFast!Progress) \/ InLoader("Safecast", Safecast!Progress)

LimiterReturns(r) == Limiter!GiveUp(r) \/ Limiter!TakePermit(r) \/ Limiter!TakeRefusal(r)

(* The fairness the code gives (Archive!Fairness, Limiter!Fairness), or    *)
(* less where less is enough: the coordinator may prefer one branch of its *)
(* select to another for ever, as long as it takes requests or timers.     *)
(* Only one part moves in a behaviour, so fair steps of two parts share a  *)
(* formula, which then speaks of the one that moves.                       *)
Fairness ==
    /\ WF_vars(LoaderProgress)
    /\ WF_vars(InArchive(Archive!BuildStarts) \/ InLimiter(Limiter!Tick))
    /\ WF_vars(InArchive(Archive!Report))
    /\ WF_vars(InArchive(Archive!AwaitOver))
    /\ WF_vars(InArchive(Archive!CoordStops))
    /\ SF_vars(InArchive(Archive!Replace))
    /\ \A c \in Callers :
          /\ WF_vars(InArchive(Archive!Return(c)))
          /\ WF_vars(InArchive(Archive!Serve(c) \/ Archive!Await(c)))
    /\ \A ip \in IPs : WF_vars(InArchive(Archive!Build) \/ InLimiter(Limiter!WorkerStep(ip)))
    /\ \A r \in Requests :
          /\ WF_vars(InLimiter(LimiterReturns(r)))
          /\ WF_vars(InLimiter(Limiter!Dispatch(r)))
          /\ SF_vars(InLimiter(Limiter!Receive(r)) \/ InArchive(Archive!Receive \/ Archive!TimerFires))

Spec == Init /\ [][Next]_vars /\ Fairness
-----------------------------------------------------------------------------
(* The type invariant of every part, with what it bounds: no more than one *)
(* temporary archive, a page within its size.                              *)
TypeOK == Archive!TypeOK /\ AtomFast!TypeOK /\ Limiter!TypeOK

(* A caller told that the archive is ready finds it, unless the fallback   *)
(* of replaceFile has just taken it away.                                  *)
ReadyMeansThere == Archive!ReadyMeansThere

(* An archive that is missing or due is replaced in the end, although      *)
(* builds fail, requests for builds are dropped, and callers wait.         *)
EventuallyFresh == Archive!EventuallyFresh

(* What import_history says is so, after any failure or crash: an imported *)
(* track has its markers, a skipped one could not be imported.             *)
HistoryHonest == AtomFast!HistoryHonest

(* A track with history is not fetched again, although new tracks shift    *)
(* the pages while the loader walks them, and its row does not change.     *)
ImportedOnce == AtomFast!ImportedOnce

(* The newest track gets in whatever failed before it. *)
NewestImported == moving \in {"AtomFast", "Safecast"} => AtomFast!NewestImported

(* Over no cooldown period does one address have more than Burst heavy     *)
(* downloads in progress or just finished, although the count is not taken *)
(* again after a cooldown and release notices arrive late and in any order.*)
BurstRespected == Limiter!BurstRespected

(* Every Acquire returns, with a permit or an error, as long as the        *)
(* process lives: a cooldown delays it, but never for good.                *)
EveryAcquireReturns == Limiter!EveryAcquireReturns
=============================================================================
