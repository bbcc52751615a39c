------------------------------ MODULE SiteServices ------------------------------
(***************************************************************************)
(* The services behind the handlers: the response cache that answers the   *)
(* API, the track numbers that its overview shows, the short links of both *)
(* the API and the pages, and the numbering of the visitors.  They call    *)
(* each other through the handlers only and share no state, so one of them *)
(* moves while the others stand still: the behaviours of each are all      *)
(* there, and TLC explores the sum of their state spaces instead of the    *)
(* product.                                                                *)
(***************************************************************************)
EXTENDS ResponseCache, Sequences, FiniteSets

CONSTANTS
    Clients, Ids, NoClient,
    Users, Codes, Targets, NoCode, MaxAttempts,
    Browsers, FingerprintOf, Requests, BrowserOf, Capacity, Fallback, Impatient,
    MaxVisits, MaxCrashes

VARIABLES
    moving,     \* the service that moves
    stored, registered, snapshot, fresh, refreshing, refresh, timer, loop, attending,
    quit, client, clientDone, answer,
    links, linkAt, target, code, attempts,
    cookie, at, who, gone, lookups, numbers, messages, writing, cache, counter,
    rows, events, lost, drawn, ids, visits, crashes

TrackInfo == INSTANCE TrackInfoCache
    WITH load <- refresh, phase <- client, ended <- clientDone
Links == INSTANCE ShortLinks WITH at <- linkAt
Visitors == INSTANCE VisitorSessions

ASSUME ServicesAssumption ==
    TrackInfo!Assumption /\ Links!Assumption /\ Visitors!Assumption

trackInfoVars == <<stored, registered, snapshot, fresh, refreshing, refresh, timer, loop,
                   attending, quit, client, clientDone, answer>>
linkVars == <<links, linkAt, target, code, attempts>>
visitorVars == <<cookie, at, who, gone, lookups, numbers, messages, writing, cache,
                 counter, rows, events, lost, drawn, ids, visits, crashes>>
siteVars == <<moving, vars, trackInfoVars, linkVars, visitorVars>>

SiteInit ==
    /\ moving \in {"cache", "track info", "links", "visitors"}
    /\ Init /\ TrackInfo!Init /\ Links!Init /\ Visitors!Init

MoveCache ==
    /\ moving = "cache" /\ Next
    /\ UNCHANGED <<moving, trackInfoVars, linkVars, visitorVars>>

MoveTrackInfo ==
    /\ moving = "track info" /\ TrackInfo!Next
    /\ UNCHANGED <<moving, vars, linkVars, visitorVars>>

MoveLinks ==
    /\ moving = "links" /\ Links!Next
    /\ UNCHANGED <<moving, vars, trackInfoVars, visitorVars>>

MoveVisitors ==
    /\ moving = "visitors" /\ Visitors!Next
    /\ UNCHANGED <<moving, vars, trackInfoVars, linkVars>>

SiteNext == MoveCache \/ MoveTrackInfo \/ MoveLinks \/ MoveVisitors

(* Fairness is stated for the visitors, whose liveness is checked; while   *)
(* they stand still in their initial state none of their steps is due.     *)
SiteSpec == SiteInit /\ [][SiteNext]_siteVars /\ Visitors!Fairness
-----------------------------------------------------------------------------
(* Stale-but-useful: no failed refresh takes away the track numbers that   *)
(* could be served, and an older count never replaces a newer one.         *)
SnapshotOnlyImproves == TrackInfo!SnapshotOnlyImproves

(* The track numbers cannot fall asleep: until the cache is closed a       *)
(* refresh is under way or the timer is set, whichever way the last        *)
(* refresh ended and whether a request or the timer had asked for it.      *)
RefreshNeverStops == TrackInfo!RefreshNeverStops

(* The code a caller was given leads to its URL, whoever stored it; two    *)
(* callers that shortened one URL hold one code, and no code leads to two  *)
(* URLs.                                                                   *)
LinksAgree == Links!LinksAgree

(* What is known of a session agrees: one number everywhere, and no event  *)
(* in the table without its session, unless that was dropped or lost.      *)
SessionsAgree == Visitors!SessionsAgree

(* Every request gets past the analytics, whatever the goroutine is busy   *)
(* with and whether the client is still there.                             *)
EveryRequestPasses == Visitors!EveryRequestPasses
=============================================================================
