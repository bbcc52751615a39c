----------------------------- MODULE DesktopImports -----------------------------
(***************************************************************************)
(* What a click on "import" sets in motion, from the handler to the        *)
(* housekeeping: ImportSlot admits one import at a time and tells the page *)
(* how it goes, ArchiveProgress reads the archive, and for a DuckDB file   *)
(* an import that stored something asks DuckDBMaintenance for a pass       *)
(* before it returns (importArchiveFromURL, 3390-3438).                    *)
(***************************************************************************)
EXTENDS Integers, Sequences, FiniteSets

CONSTANTS Clicks, StatusRoom, Entries, EntryRoom, QueueSize

VARIABLES
    slot, stage, outcome, statusUpdates, statusDropped, status,
    pos, reader, entryIndex, imported, failed, entryUpdates, entryDropped,
    bytesSeen, closedSeen, entries, line, logger,
    jobs, caller, ended, worker, done, logged

Slot == INSTANCE ImportSlot
    WITH Room <- StatusRoom, updates <- statusUpdates, dropped <- statusDropped
Archive == INSTANCE ArchiveProgress
    WITH Room <- EntryRoom, updates <- entryUpdates, dropped <- entryDropped
Maintenance == INSTANCE DuckDBMaintenance WITH Imports <- Clicks

ASSUME RoomAssumption == Slot!Assumption /\ Archive!Assumption /\ Maintenance!Assumption

slotVars == <<slot, stage, outcome, statusUpdates, statusDropped, status>>
archiveVars == <<pos, reader, entryIndex, imported, failed, entryUpdates, entryDropped,
                 bytesSeen, closedSeen, entries, line, logger>>
maintenanceVars == <<jobs, caller, ended, worker, done, logged>>
vars == <<slotVars, archiveVars, maintenanceVars>>

Init == Slot!Init /\ Archive!Init /\ Maintenance!Init
-----------------------------------------------------------------------------
(* Clicks, answers and the status, everything but the end of an import. *)
SlotStep ==
    /\ \/ \E c \in Clicks :
            \/ Slot!TakeSlot(c) \/ Slot!Refuse(c) \/ Slot!Handles(c)
            \/ Slot!Begin(c) \/ Slot!Release(c) \/ Slot!Report(c)
       \/ Slot!Track
    /\ UNCHANGED <<archiveVars, maintenanceVars>>

(* The download answers and the archive is read. *)
Open(c) ==
    /\ stage[c] = "importing"
    /\ caller[c] = "importing"
    /\ Archive!Open
    /\ UNCHANGED <<slotVars, maintenanceVars>>

ArchiveStep == Archive!Step /\ UNCHANGED <<slotVars, maintenanceVars>>

(* queueDuckDBMaintenanceAfterImport, if anything was imported *)
Queue(c) ==
    /\ stage[c] = "importing"
    /\ reader = "returned" /\ ~failed /\ imported
    /\ Maintenance!Schedule(c)
    /\ UNCHANGED <<slotVars, archiveVars>>

MaintenanceStep == Maintenance!Step /\ UNCHANGED <<slotVars, archiveVars>>

(* The download failed, or was answered with another status than 2xx. *)
DownloadFails(c) ==
    /\ reader = "closed"
    /\ Slot!End(c) /\ outcome'[c] = "error"
    /\ UNCHANGED <<archiveVars, maintenanceVars>>

(* importArchiveFromURL returns. *)
End(c) ==
    /\ ~failed /\ imported => caller[c] \in {"gave up", "returned"}
    /\ Archive!Close
    /\ Slot!End(c) /\ outcome'[c] = IF failed THEN "error" ELSE "done"
    /\ UNCHANGED maintenanceVars

Next ==
    \/ SlotStep \/ ArchiveStep \/ MaintenanceStep
    \/ \E c \in Clicks : Open(c) \/ Queue(c) \/ DownloadFails(c) \/ End(c)

Spec == Init /\ [][Next]_vars

(* The fairness of the parts; a download is answered or fails, and the     *)
(* import goes on when a function it called has returned.                  *)
FairSpec ==
    /\ Spec
    /\ Slot!Running /\ Archive!Fairness /\ Maintenance!Fairness
    /\ \A c \in Clicks : WF_vars(Open(c) \/ DownloadFails(c)) /\ WF_vars(Queue(c)) /\ WF_vars(End(c))
-----------------------------------------------------------------------------
TypeOK == Slot!TypeOK /\ Archive!TypeOK /\ Maintenance!TypeOK

(* The last line of an import's log tells the true number of entries,      *)
(* unless its channel overflowed.                                          *)
LastLineExact == Archive!LastLineExact

(* Every request for the housekeeping is answered, so that no goroutine    *)
(* waits for good.                                                         *)
EveryRequestLogged == Maintenance!EveryRequestLogged

(* The whole keeps the promise of the slot: an import that has begun ends, *)
(* although it waits for the download, the log's ticker and room in the    *)
(* queue of the housekeeping, and the next operator can click.             *)
ImplementsSlot == Slot!FairSpec
=============================================================================
