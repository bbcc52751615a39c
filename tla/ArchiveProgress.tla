---------------------------- MODULE ArchiveProgress ----------------------------
(***************************************************************************)
(* The import of a .tgz of exported tracks (importArchiveFromFile and      *)
(* importArchiveFromURL of chicha-isotope-map.go): the loop over its       *)
(* entries and the goroutine that logs how far it has come.  Two channels  *)
(* lead from one to the other, one for bytes and one for entries; sends to *)
(* them are dropped when they are full.  The import ends when the logger   *)
(* has seen both closed and written its last line.                         *)
(*                                                                         *)
(* What is stored for an entry is the subject of TrackImport.  All callers *)
(* pass a context that is never done.                                      *)
(***************************************************************************)
EXTENDS Integers, Sequences

CONSTANTS
    Entries,    \* the kinds of the entries, in the order of the archive
    Room        \* of the channel of entries: 64 in the source

Assumption ==
    /\ Entries \in Seq({"export", "other"})
    /\ Room \in Nat \ {0}

VARIABLES
    pos,        \* the entry that is read next
    reader,     \* "closed", "next", "processing", "over" (channels closed) or "returned"
    entryIndex, \* entries processed
    imported,   \* importedAny
    failed,     \* the archive broke off, or held no track at all
    updates,    \* the channel of entries
    dropped,    \* an update found the channel full
    bytesSeen,  \* the logger has seen the channel of bytes closed
    closedSeen, \* the logger has seen the channel of entries closed
    entries,    \* the number of entries the logger knows of
    line,       \* the one it wrote last, -1 before the first line
    logger      \* "looping" or "done"

readerVars == <<pos, reader, entryIndex, imported, failed>>
loggerVars == <<bytesSeen, closedSeen, entries, line, logger>>
vars == <<pos, reader, entryIndex, imported, failed, updates, dropped,
          bytesSeen, closedSeen, entries, line, logger>>

Init ==
    /\ pos = 1 /\ reader = "closed" /\ entryIndex = 0
    /\ imported = FALSE /\ failed = FALSE
    /\ updates = <<>> /\ dropped = FALSE
    /\ bytesSeen = FALSE /\ closedSeen = FALSE
    /\ entries = 0 /\ line = -1 /\ logger = "done"

(* The source is open: new channels, a new logger, the first entry. *)
Open ==
    /\ reader = "closed"
    /\ pos' = 1 /\ reader' = "next" /\ entryIndex' = 0
    /\ imported' = FALSE /\ failed' = FALSE
    /\ updates' = <<>> /\ dropped' = FALSE
    /\ bytesSeen' = FALSE /\ closedSeen' = FALSE
    /\ entries' = 0 /\ line' = -1 /\ logger' = "looping"

(* sendProgress(name) with n as the number of entries *)
SendProgress(n) ==
    IF Len(updates) < Room
    THEN updates' = Append(updates, n) /\ UNCHANGED dropped
    ELSE dropped' = TRUE /\ UNCHANGED updates
-----------------------------------------------------------------------------
(* Directories and files that are no exports. *)
PassOver ==
    /\ reader = "next" /\ pos <= Len(Entries) /\ Entries[pos] = "other"
    /\ pos' = pos + 1
    /\ UNCHANGED <<reader, entryIndex, imported, failed, updates, dropped, loggerVars>>

NextEntry ==
    /\ reader = "next" /\ pos <= Len(Entries) /\ Entries[pos] # "other"
    /\ SendProgress(entryIndex)
    /\ reader' = "processing"
    /\ UNCHANGED <<pos, entryIndex, imported, failed, loggerVars>>

(* The entry was stored, or left out as unreadable, a duplicate, live or   *)
(* broken.                                                                 *)
EntryDone ==
    /\ reader = "processing"
    /\ entryIndex' = entryIndex + 1
    /\ SendProgress(entryIndex + 1)
    /\ imported' \in {imported, TRUE}
    /\ pos' = pos + 1 /\ reader' = "next"
    /\ UNCHANGED <<failed, loggerVars>>

(* The end of the archive, or an error on the way: both channels are       *)
(* closed.  An archive without any export is an error too.                 *)
Finish ==
    /\ reader = "next"
    /\ reader' = "over"
    /\ failed' \in IF pos > Len(Entries) THEN {entryIndex = 0, TRUE} ELSE {TRUE}
    /\ UNCHANGED <<pos, entryIndex, imported, updates, dropped, loggerVars>>

Return ==
    /\ reader = "over" /\ logger = "done"
    /\ reader' = "returned"
    /\ UNCHANGED <<pos, entryIndex, imported, failed, updates, dropped, loggerVars>>

(* The caller of the import is through with it. *)
Close ==
    /\ reader = "returned"
    /\ reader' = "closed"
    /\ UNCHANGED <<pos, entryIndex, imported, failed, updates, dropped, loggerVars>>

(* --- the logger ---------------------------------------------------------- *)

SeeBytesClosed ==
    /\ logger = "looping" /\ ~bytesSeen
    /\ reader = "over"
    /\ bytesSeen' = TRUE
    /\ UNCHANGED <<readerVars, updates, dropped, closedSeen, entries, line, logger>>

SeeUpdate ==
    /\ logger = "looping" /\ updates # <<>>
    /\ entries' = Head(updates)
    /\ updates' = Tail(updates)
    /\ UNCHANGED <<readerVars, dropped, bytesSeen, closedSeen, line, logger>>

SeeClosed ==
    /\ logger = "looping" /\ ~closedSeen
    /\ reader = "over" /\ updates = <<>>
    /\ closedSeen' = TRUE
    /\ UNCHANGED <<readerVars, updates, dropped, bytesSeen, entries, line, logger>>

(* Faulty variant: the end of the bytes is enough. *)
BytesOver == bytesSeen

(* Faulty variant: the end has to be seen while there is still news. *)
BothOverInTime == bytesSeen /\ closedSeen /\ updates # <<>>

BothOver == bytesSeen /\ closedSeen

(* The ticker, after which alone the loop looks whether it may end: the    *)
(* branches that see a channel closed start the loop again.                *)
Tick ==
    /\ logger = "looping"
    /\ line' \in IF BothOver THEN {entries} ELSE {line, entries}
    /\ logger' = IF BothOver THEN "done" ELSE logger
    /\ UNCHANGED <<readerVars, updates, dropped, bytesSeen, closedSeen, entries>>

Reading == PassOver \/ NextEntry \/ EntryDone \/ Finish

Step == Reading \/ Return \/ SeeBytesClosed \/ SeeUpdate \/ SeeClosed \/ Tick

Next == Open \/ Step \/ Close

Spec == Init /\ [][Next]_vars

(* The archive is read on, the ticker ticks and a select with something to *)
(* receive receives in the end, whatever else is ready.                    *)
Fairness ==
    /\ WF_vars(Reading) /\ WF_vars(Return)
    /\ WF_vars(SeeBytesClosed) /\ WF_vars(SeeUpdate \/ SeeClosed) /\ WF_vars(Tick)
-----------------------------------------------------------------------------
TypeOK ==
    /\ pos \in 1..(Len(Entries) + 1)
    /\ reader \in {"closed", "next", "processing", "over", "returned"}
    /\ entryIndex \in 0..Len(Entries) /\ {imported, failed} \subseteq BOOLEAN
    /\ updates \in Seq(0..Len(Entries)) /\ Len(updates) <= Room
    /\ {dropped, bytesSeen, closedSeen} \subseteq BOOLEAN
    /\ entries \in 0..Len(Entries) /\ line \in -1..Len(Entries)
    /\ logger \in {"looping", "done"}

(* The last line tells the true number of entries, unless the channel      *)
(* overflowed on the way.                                                  *)
LastLineExact == reader = "returned" /\ ~dropped => line = entryIndex
=============================================================================
