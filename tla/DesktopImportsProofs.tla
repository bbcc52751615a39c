-------------------------- MODULE DesktopImportsProofs --------------------------
(***************************************************************************)
(* Proofs about the import behind a click, for any archive, clicks and     *)
(* room in the channels: the last line of its log is exact, and one import *)
(* goes on at a time.                                                      *)
(***************************************************************************)
EXTENDS DesktopImports, SequenceTheorems, TLAPS

(* What the logger will know once it has read the channel of entries.      *)
Newest == IF entryUpdates = <<>> THEN entries ELSE entryUpdates[Len(entryUpdates)]

Reading == {"next", "processing"}

(* The logger ends after it has seen the channel closed, which is after it *)
(* has read it, which is after the last entry.                             *)
LogInv ==
    /\ entryIndex \in Nat /\ entries \in Nat /\ entryUpdates \in Seq(Nat)
    /\ ~entryDropped => Newest = entryIndex
    /\ reader \in Reading => logger = "looping" /\ ~closedSeen
    /\ closedSeen => entryUpdates = <<>>
    /\ logger = "done" /\ reader # "closed" => closedSeen /\ line = entries
    /\ reader = "returned" => logger = "done"

LEMMA LogStart == ASSUME Archive!Init PROVE LogInv
BY DEF Archive!Init, LogInv, Newest, Reading

(* A send makes its number the newest, or is dropped.                      *)
LEMMA Sent ==
    ASSUME entryUpdates \in Seq(Nat), NEW n \in Nat, Archive!SendProgress(n),
           UNCHANGED entries
    PROVE  /\ entryUpdates' \in Seq(Nat)
           /\ ~entryDropped' => ~entryDropped /\ Newest' = n
<1>1. CASE Len(entryUpdates) < EntryRoom
  <2>1. entryUpdates' = Append(entryUpdates, n) /\ UNCHANGED entryDropped
    BY <1>1 DEF Archive!SendProgress
  <2>2. entryUpdates' # <<>> /\ entryUpdates'[Len(entryUpdates')] = n
    BY <2>1
  <2> QED BY <2>1, <2>2 DEF Newest
<1>2. CASE ~(Len(entryUpdates) < EntryRoom)
  BY <1>2 DEF Archive!SendProgress
<1> QED BY <1>1, <1>2

LEMMA LastOfTail ==
    ASSUME NEW s \in Seq(Nat), s # <<>>, Len(s) # 1
    PROVE  Tail(s) # <<>> /\ Tail(s)[Len(Tail(s))] = s[Len(s)]
<1>1. Len(s) \in Nat \ {0}
  BY EmptySeq
<1>2. Len(Tail(s)) = Len(s) - 1 /\ \A i \in 1..Len(Tail(s)) : Tail(s)[i] = s[i + 1]
  BY HeadTailProperties
<1>3. Tail(s) # <<>>
  <2>1. Len(Tail(s)) # 0
    BY <1>1, <1>2
  <2> QED BY Zenon, <2>1, EmptySeq
<1> QED BY <1>1, <1>2, <1>3

(* The first number is read; the newest stays the newest.                  *)
LEMMA Read ==
    ASSUME entryUpdates \in Seq(Nat), entryUpdates # <<>>,
           entries' = Head(entryUpdates), entryUpdates' = Tail(entryUpdates)
    PROVE  entries' \in Nat /\ entryUpdates' \in Seq(Nat) /\ Newest' = Newest
<1>1. entries' \in Nat /\ entryUpdates' \in Seq(Nat)
  BY HeadTailProperties
<1>2. CASE Len(entryUpdates) = 1
  BY <1>2 DEF Newest
<1>3. CASE Len(entryUpdates) # 1
  BY <1>3, LastOfTail DEF Newest
<1> QED BY <1>1, <1>2, <1>3

LEMMA LogStep == ASSUME LogInv, Archive!Open \/ Archive!Step \/ Archive!Close PROVE LogInv'
<1> USE DEF LogInv, Reading, Archive!loggerVars, Archive!readerVars
<1>1. CASE Archive!Open
  BY <1>1 DEF Archive!Open, Newest
<1>2. CASE Archive!PassOver \/ Archive!Finish \/ Archive!Return \/ Archive!Close
  <2>1. UNCHANGED <<entryUpdates, entryDropped, entries, entryIndex, closedSeen, line, logger>>
    BY <1>2 DEF Archive!PassOver, Archive!Finish, Archive!Return, Archive!Close
  <2>2. \/ UNCHANGED reader
        \/ reader \in Reading /\ reader' = "over"
        \/ reader = "over" /\ logger = "done" /\ reader' = "returned"
        \/ reader' = "closed"
    BY <1>2 DEF Archive!PassOver, Archive!Finish, Archive!Return, Archive!Close
  <2> QED BY <2>1, <2>2 DEF Newest
<1>3. CASE Archive!NextEntry
  BY <1>3, Sent DEF Archive!NextEntry
<1>4. CASE Archive!EntryDone
  <2>1. entryIndex + 1 \in Nat
    OBVIOUS
  <2> QED BY <1>4, <2>1, Sent DEF Archive!EntryDone
<1>5. CASE Archive!SeeUpdate
  BY <1>5, Read DEF Archive!SeeUpdate
<1>6. CASE Archive!SeeBytesClosed \/ Archive!SeeClosed
  BY <1>6 DEF Archive!SeeBytesClosed, Archive!SeeClosed, Newest
<1>7. CASE Archive!Tick
  BY <1>7 DEF Archive!Tick, Archive!BothOver, Newest
<1> QED BY <1>1, <1>2, <1>3, <1>4, <1>5, <1>6, <1>7 DEF Archive!Step, Archive!Reading

LEMMA ImportStep == ASSUME LogInv, [Next]_vars PROVE LogInv'
<1>1. CASE UNCHANGED archiveVars
  BY <1>1 DEF archiveVars, LogInv, Newest
<1>2. CASE ArchiveStep \/ \E c \in Clicks : Open(c) \/ End(c)
  BY <1>2, LogStep DEF ArchiveStep, Open, End
<1> QED
  BY <1>1, <1>2 DEF Next, SlotStep, Queue, MaintenanceStep, DownloadFails, vars

(* The property of the run: unless an update was dropped, the line that    *)
(* the log of an import ends with has the true number of entries (the      *)
(* logging goroutine of importArchiveFromURL).                             *)
THEOREM LastLineIsExact == Spec => []LastLineExact
<1>1. Init => LogInv
  BY LogStart DEF Init
<1>2. LogInv /\ [Next]_vars => LogInv'
  BY ImportStep
<1>3. LogInv => LastLineExact
  BY DEF LogInv, Newest, LastLineExact, Archive!LastLineExact
<1> QED BY <1>1, <1>2, <1>3, PTL DEF Spec
-----------------------------------------------------------------------------
(* The steps of the whole are steps of the slot: what the handler, the     *)
(* importer and the tracker share is touched by nothing else.              *)
LEMMA SlotStepMaps == ASSUME [Next]_vars PROVE [Slot!Next]_(Slot!vars)
<1> USE DEF Slot!vars
<1>1. CASE SlotStep
  BY <1>1 DEF SlotStep, Slot!Next, Slot!Handles
<1>2. CASE UNCHANGED slotVars
  BY <1>2 DEF slotVars
<1>3. CASE \E c \in Clicks : DownloadFails(c) \/ End(c)
  BY <1>3 DEF DownloadFails, End, Slot!Next
<1> QED
  BY <1>1, <1>2, <1>3 DEF Next, ArchiveStep, Open, Queue, MaintenanceStep, vars
-----------------------------------------------------------------------------
(* --- one import at a time, and types ------------------------------------------ *)

Texts == {"running", "done", "error"}
Stages == {"new", "holding", "announced", "importing", "ended", "released", "over"}

(* An import that has the token has not given it back.                     *)
Importing == {"holding", "announced", "importing", "ended"}

(* The token is with the handler or with the one import that took it, and  *)
(* what is reported a second time was reported before.                     *)
SlotInv ==
    /\ Slot!TypeOK
    /\ slot = 1 => \A c \in Clicks : stage[c] \notin Importing
    /\ \A c, d \in Clicks : stage[c] \in Importing /\ stage[d] \in Importing => c = d
    /\ \A c \in Clicks : stage[c] \in {"ended", "released"} => outcome[c] # "none"

(* The tracker is told, or the update is dropped. *)
LEMMA Noted ==
    ASSUME Slot!TypeOK, NEW text \in Texts, Slot!setImportStatus(text)
    PROVE  /\ statusUpdates' \in Seq(Texts) /\ Len(statusUpdates') <= StatusRoom
           /\ statusDropped' \in BOOLEAN
<1>1. statusUpdates \in Seq(Texts) /\ Len(statusUpdates) <= StatusRoom /\ statusDropped \in BOOLEAN
      /\ StatusRoom \in Nat
  BY RoomAssumption DEF Slot!TypeOK, Slot!Assumption, Texts
<1>2. CASE Len(statusUpdates) < StatusRoom
  <2>1. statusUpdates' = Append(statusUpdates, text) /\ UNCHANGED statusDropped
    BY <1>2 DEF Slot!setImportStatus
  <2> HIDE DEF Texts
  <2>2. statusUpdates' \in Seq(Texts) /\ Len(statusUpdates') = Len(statusUpdates) + 1
    BY <1>1, <2>1
  <2> QED BY <1>1, <1>2, <2>1, <2>2
<1>3. CASE ~(Len(statusUpdates) < StatusRoom)
  <2>1. statusDropped' = TRUE /\ UNCHANGED statusUpdates
    BY <1>3 DEF Slot!setImportStatus
  <2> QED BY <1>1, <2>1
<1> QED BY <1>2, <1>3

(* A request goes on, with or without the token. *)
LEMMA Moved ==
    ASSUME SlotInv, NEW c \in Clicks, NEW from, NEW to \in Stages, Slot!Moves(c, from, to),
           UNCHANGED status,
           outcome' = outcome \/ \E text \in {"done", "error"} : outcome' = [outcome EXCEPT ![c] = text],
           to \in {"ended", "released"} => outcome'[c] # "none",
           \/ UNCHANGED <<statusUpdates, statusDropped>>
           \/ \E text \in Texts : Slot!setImportStatus(text),
           \/ from \in Importing /\ to \in Importing /\ slot' = slot
           \/ from \notin Importing /\ to \notin Importing /\ slot' = slot
           \/ from \in Importing /\ to \notin Importing /\ slot' = slot + 1
           \/ from \notin Importing /\ to \in Importing /\ slot > 0 /\ slot' = slot - 1
    PROVE  SlotInv'
<1>1. /\ slot \in {0, 1} /\ stage \in [Clicks -> Stages] /\ status \in Texts \cup {"idle"}
      /\ outcome \in [Clicks -> {"none", "done", "error"}]
      /\ statusUpdates \in Seq(Texts) /\ Len(statusUpdates) <= StatusRoom /\ statusDropped \in BOOLEAN
  BY DEF SlotInv, Slot!TypeOK, Stages, Texts
<1>2. stage[c] = from /\ stage' = [stage EXCEPT ![c] = to]
  BY DEF Slot!Moves
<1>3. stage' \in [Clicks -> Stages] /\ stage'[c] = to /\ \A d \in Clicks : d # c => stage'[d] = stage[d]
  BY <1>1, <1>2
<1>4. /\ outcome' \in [Clicks -> {"none", "done", "error"}]
      /\ \A d \in Clicks : d # c => outcome'[d] = outcome[d]
  BY <1>1
<1>5. /\ statusUpdates' \in Seq(Texts) /\ Len(statusUpdates') <= StatusRoom
      /\ statusDropped' \in BOOLEAN
  BY <1>1, Noted DEF SlotInv
<1>6. slot' \in {0, 1} /\ (to \in Importing => slot' = 0)
  BY <1>1, <1>2 DEF SlotInv
<1>7. \A d \in Clicks : d # c /\ from \in Importing => stage[d] \notin Importing
  BY <1>2 DEF SlotInv
<1>8. slot' = 1 => \A d \in Clicks : stage'[d] \notin Importing
  BY <1>1, <1>2, <1>3, <1>6, <1>7 DEF SlotInv
<1>9. \A d, e \in Clicks : stage'[d] \in Importing /\ stage'[e] \in Importing => d = e
  <2>1. to \in Importing => \A d \in Clicks : d # c => stage[d] \notin Importing
    BY <1>1, <1>7 DEF SlotInv
  <2> QED BY <1>3, <2>1 DEF SlotInv
<1>10. \A d \in Clicks : stage'[d] \in {"ended", "released"} => outcome'[d] # "none"
  BY <1>3, <1>4 DEF SlotInv
<1>11. Slot!TypeOK'
  BY <1>1, <1>3, <1>4, <1>5, <1>6 DEF Slot!TypeOK, Stages, Texts
<1> QED BY <1>8, <1>9, <1>10, <1>11 DEF SlotInv

LEMMA SlotKeeps == ASSUME SlotInv, Slot!Next PROVE SlotInv'
<1> USE DEF Importing, Stages
<1>1. ASSUME NEW c \in Clicks, Slot!TakeSlot(c) \/ Slot!Refuse(c) \/ Slot!Skip(c) PROVE SlotInv'
  <2>1. CASE Slot!TakeSlot(c)
    BY <2>1, Moved DEF Slot!TakeSlot
  <2>2. CASE Slot!Refuse(c)
    BY <2>2, Moved DEF Slot!Refuse
  <2>3. CASE Slot!Skip(c)
    BY <2>3, Moved DEF Slot!Skip
  <2> QED BY <1>1, <2>1, <2>2, <2>3
<1>2. ASSUME NEW c \in Clicks, Slot!Announce(c) \/ Slot!Begin(c) PROVE SlotInv'
  <2>1. \E text \in Texts : Slot!setImportStatus(text)
    BY <1>2 DEF Slot!Announce, Slot!Begin, Texts
  <2>2. CASE Slot!Announce(c)
    BY <2>1, <2>2, Moved DEF Slot!Announce
  <2>3. CASE Slot!Begin(c)
    BY <2>1, <2>3, Moved DEF Slot!Begin
  <2> QED BY <1>2, <2>2, <2>3
<1>3. ASSUME NEW c \in Clicks, Slot!End(c) PROVE SlotInv'
  <2>1. PICK text \in {"done", "error"} :
          outcome' = [outcome EXCEPT ![c] = text] /\ Slot!setImportStatus(text)
    BY <1>3 DEF Slot!End
  <2>2. text \in Texts /\ outcome'[c] # "none"
    BY <2>1 DEF Texts, SlotInv, Slot!TypeOK
  <2>3. Slot!Moves(c, "importing", "ended") /\ slot' = slot /\ UNCHANGED status
    BY <1>3 DEF Slot!End
  <2> QED BY <2>1, <2>2, <2>3, Moved
<1>4. ASSUME NEW c \in Clicks, Slot!Release(c) PROVE SlotInv'
  <2>1. stage[c] = "ended" /\ outcome' = outcome
    BY <1>4 DEF Slot!Release, Slot!Moves
  <2>2. outcome'[c] # "none"
    BY <2>1 DEF SlotInv
  <2> QED BY <1>4, <2>1, <2>2, Moved DEF Slot!Release
<1>5. ASSUME NEW c \in Clicks, Slot!Report(c) PROVE SlotInv'
  <2>1. stage[c] = "released" /\ outcome' = outcome
    BY <1>5 DEF Slot!Report, Slot!Moves
  <2>2. outcome[c] \in Texts
    BY <2>1 DEF SlotInv, Slot!TypeOK, Texts
  <2> QED BY <1>5, <2>1, <2>2, Moved DEF Slot!Report
<1>6. CASE Slot!Track
  <2>1. /\ status' = Head(statusUpdates) /\ statusUpdates' = Tail(statusUpdates) /\ statusUpdates # <<>>
        /\ UNCHANGED <<slot, stage, outcome, statusDropped>>
    BY <1>6 DEF Slot!Track
  <2>2. statusUpdates \in Seq(Texts) /\ Len(statusUpdates) <= StatusRoom /\ StatusRoom \in Nat
    BY RoomAssumption DEF SlotInv, Slot!TypeOK, Slot!Assumption, Texts
  <2>3. /\ status' \in Texts /\ statusUpdates' \in Seq(Texts)
        /\ Len(statusUpdates') = Len(statusUpdates) - 1 /\ Len(statusUpdates) \in Nat
    <3> HIDE DEF Texts
    <3> QED BY <2>1, <2>2, HeadTailProperties
  <2> QED BY <2>1, <2>2, <2>3 DEF SlotInv, Slot!TypeOK, Texts
<1> QED BY <1>1, <1>2, <1>3, <1>4, <1>5, <1>6 DEF Slot!Next

LEMMA SlotStart == ASSUME Slot!Init PROVE SlotInv
<1>1. StatusRoom \in Nat
  BY RoomAssumption DEF Slot!Assumption
<1>2. Slot!TypeOK
  <2>1. statusUpdates = <<>> /\ statusUpdates \in Seq(Texts) /\ Len(statusUpdates) <= StatusRoom
    BY <1>1 DEF Slot!Init
  <2>2. slot \in 0..1 /\ status = "idle"
    BY DEF Slot!Init
  <2>4. statusDropped \in BOOLEAN
    BY DEF Slot!Init
  <2>3. stage \in [Clicks -> Stages] /\ outcome \in [Clicks -> {"none", "done", "error"}]
    BY DEF Slot!Init, Stages
  <2> QED BY <2>1, <2>2, <2>3, <2>4 DEF Slot!TypeOK, Texts, Stages
<1>3. \A c \in Clicks : stage[c] = "new"
  BY DEF Slot!Init
<1> QED BY <1>2, <1>3 DEF SlotInv, Importing

(* An archive is read, and housekeeping asked for, for an import that is   *)
(* under way.                                                              *)
Waiting == {"offering", "queued"}
ReadInv ==
    /\ caller \in [Clicks -> {"importing", "offering", "queued", "gave up", "returned"}]
    /\ reader # "closed" => \E c \in Clicks : stage[c] = "importing"
    /\ \A c \in Clicks :
         caller[c] \in Waiting => stage[c] = "importing" /\ reader = "returned" /\ ~failed /\ imported

LEMMA ReadKeeps == ASSUME SlotInv, ReadInv, [Next]_vars PROVE ReadInv'
<1>1. CASE UNCHANGED vars
  BY <1>1 DEF ReadInv, vars, slotVars, archiveVars, maintenanceVars
<1>2. CASE SlotStep
  <2>1. UNCHANGED <<caller, reader, failed, imported>>
    BY <1>2 DEF SlotStep, archiveVars, maintenanceVars
  <2>2. ASSUME NEW c \in Clicks, stage[c] = "importing" PROVE stage'[c] = "importing"
    <3>1. stage' = stage
          \/ \E d \in Clicks : \E from, to : from # "importing" /\ Slot!Moves(d, from, to)
      BY <1>2 DEF SlotStep, Slot!TakeSlot, Slot!Refuse, Slot!Handles, Slot!Skip, Slot!Announce,
         Slot!Begin, Slot!Release, Slot!Report, Slot!Track
    <3> QED BY <2>2, <3>1 DEF Slot!Moves, SlotInv, Slot!TypeOK
  <2>3. reader' # "closed" => \E c \in Clicks : stage'[c] = "importing"
    BY <2>1, <2>2 DEF ReadInv
  <2>4. \A c \in Clicks :
          caller'[c] \in Waiting => stage'[c] = "importing" /\ reader' = "returned" /\ ~failed' /\ imported'
    BY <2>1, <2>2 DEF ReadInv
  <2> QED BY <2>1, <2>3, <2>4 DEF ReadInv
<1>3. CASE ArchiveStep
  <2>1. UNCHANGED <<caller, stage>>
    BY <1>3 DEF ArchiveStep, slotVars, maintenanceVars
  <2>2. /\ reader = "closed" => reader' = "closed"
        /\ reader = "returned" => UNCHANGED <<reader, failed, imported>>
    BY <1>3 DEF ArchiveStep, Archive!Step, Archive!Reading, Archive!PassOver, Archive!NextEntry,
       Archive!EntryDone, Archive!Finish, Archive!Return, Archive!SeeBytesClosed, Archive!SeeUpdate,
       Archive!SeeClosed, Archive!Tick, Archive!readerVars
  <2>3. reader' # "closed" => \E c \in Clicks : stage'[c] = "importing"
    BY <2>1, <2>2 DEF ReadInv
  <2>4. ASSUME NEW c \in Clicks, caller'[c] \in Waiting
        PROVE  stage'[c] = "importing" /\ reader' = "returned" /\ ~failed' /\ imported'
    <3>1. stage[c] = "importing" /\ reader = "returned" /\ ~failed /\ imported
      BY <2>1, <2>4 DEF ReadInv
    <3>2. UNCHANGED <<reader, failed, imported>>
      BY <2>2, <3>1
    <3> QED BY <2>1, <3>1, <3>2
  <2>5. caller' \in [Clicks -> {"importing", "offering", "queued", "gave up", "returned"}]
    BY <2>1 DEF ReadInv
  <2> QED BY <2>3, <2>4, <2>5 DEF ReadInv
<1>4. CASE MaintenanceStep
  <2>1. UNCHANGED <<stage, reader, failed, imported>>
    BY <1>4 DEF MaintenanceStep, slotVars, archiveVars
  <2>2. \/ UNCHANGED caller
        \/ \E c \in Clicks : \/ caller[c] = "offering" /\ caller' = [caller EXCEPT ![c] = "queued"]
                             \/ caller' = [caller EXCEPT ![c] = "gave up"]
                             \/ caller' = [caller EXCEPT ![c] = "returned"]
    BY <1>4 DEF MaintenanceStep, Maintenance!Step, Maintenance!Drop, Maintenance!Begin,
       Maintenance!Finish, Maintenance!Enqueue, Maintenance!Timeout, Maintenance!GiveUp,
       Maintenance!Return, Maintenance!Log
  <2>3. caller' \in [Clicks -> {"importing", "offering", "queued", "gave up", "returned"}]
    BY <2>2 DEF ReadInv
  <2>4. \A c \in Clicks : caller'[c] \in Waiting => caller[c] \in Waiting
    BY <2>2 DEF ReadInv, Waiting
  <2> QED BY <2>1, <2>3, <2>4 DEF ReadInv
<1>5. ASSUME NEW c \in Clicks, Open(c) PROVE ReadInv'
  <2>1. UNCHANGED <<caller, stage>> /\ stage[c] = "importing" /\ reader = "closed"
    BY <1>5 DEF Open, slotVars, maintenanceVars, Archive!Open
  <2> QED BY <2>1 DEF ReadInv
<1>6. ASSUME NEW c \in Clicks, Queue(c) PROVE ReadInv'
  <2>1. /\ UNCHANGED <<stage, reader, failed, imported>>
        /\ stage[c] = "importing" /\ reader = "returned" /\ ~failed /\ imported
        /\ caller' = [caller EXCEPT ![c] = "offering"]
    BY <1>6 DEF Queue, slotVars, archiveVars, Maintenance!Schedule
  <2> QED BY <2>1 DEF ReadInv
<1>7. ASSUME NEW c \in Clicks, DownloadFails(c) PROVE ReadInv'
  <2>1. UNCHANGED <<caller, reader>> /\ reader = "closed"
    BY <1>7 DEF DownloadFails, archiveVars, maintenanceVars
  <2> QED BY <2>1 DEF ReadInv
<1>8. ASSUME NEW c \in Clicks, End(c) PROVE ReadInv'
  <2>1. /\ caller' = caller /\ reader' = "closed" /\ stage[c] = "importing"
        /\ ~failed /\ imported => caller[c] \in {"gave up", "returned"}
    BY <1>8 DEF End, maintenanceVars, Archive!Close, Slot!End, Slot!Moves
  <2>2. \A d \in Clicks : caller[d] \notin Waiting
    <3> SUFFICES ASSUME NEW d \in Clicks, caller[d] \in Waiting PROVE FALSE
      OBVIOUS
    <3>1. stage[d] = "importing" /\ ~failed /\ imported
      BY DEF ReadInv
    <3>2. d = c
      BY <2>1, <3>1 DEF SlotInv, Importing
    <3> QED BY <2>1, <3>1, <3>2 DEF Waiting
  <2> QED BY <2>1, <2>2 DEF ReadInv
<1> QED BY <1>1, <1>2, <1>3, <1>4, <1>5, <1>6, <1>7, <1>8 DEF Next

(* What the slot is for: of all imports that operators clicked for one at  *)
(* most is under way; an archive is read for that one only, and it does    *)
(* not end while its request for the housekeeping waits for room or for    *)
(* its context (desktopAdminBootstrapImportHandler,                        *)
(* importArchiveFromURL).                                                  *)
OneImport ==
    /\ \A c, d \in Clicks : stage[c] \in Importing /\ stage[d] \in Importing => c = d
    /\ reader # "closed" => \E c \in Clicks : stage[c] = "importing"
    /\ \A c \in Clicks : caller[c] \in Waiting => stage[c] = "importing" /\ reader = "returned"

LEMMA SlotStays == ASSUME SlotInv, [Next]_vars PROVE SlotInv'
<1>1. [Slot!Next]_(Slot!vars)
  BY SlotStepMaps
<1>2. CASE UNCHANGED Slot!vars
  BY <1>2 DEF Slot!vars, SlotInv, Slot!TypeOK
<1> QED BY <1>1, <1>2, SlotKeeps

THEOREM OneImportAtATime == Spec => []OneImport
<1>1. Init => SlotInv /\ ReadInv
  <2> SUFFICES ASSUME Init PROVE SlotInv /\ ReadInv
    OBVIOUS
  <2>1. SlotInv
    BY SlotStart DEF Init
  <2>2. ReadInv
    BY DEF Init, Archive!Init, Maintenance!Init, ReadInv, Waiting
  <2> QED BY <2>1, <2>2
<1>2. SlotInv /\ ReadInv /\ [Next]_vars => (SlotInv /\ ReadInv)'
  BY SlotStays, ReadKeeps
<1>3. SlotInv /\ ReadInv => OneImport
  BY DEF SlotInv, ReadInv, OneImport
<1> QED BY <1>1, <1>2, <1>3, PTL DEF Spec

(* An entry that was processed is behind the one that is read.             *)
ArchiveTypes ==
    /\ Archive!TypeOK
    /\ entryIndex < pos
    /\ reader = "processing" => pos <= Len(Entries)

LEMMA Counted ==
    ASSUME Archive!TypeOK, NEW n \in 0..Len(Entries), Archive!SendProgress(n)
    PROVE  /\ entryUpdates' \in Seq(0..Len(Entries)) /\ Len(entryUpdates') <= EntryRoom
           /\ entryDropped' \in BOOLEAN
<1> DEFINE Numbers == 0..Len(Entries)
<1>1. entryUpdates \in Seq(Numbers) /\ Len(entryUpdates) <= EntryRoom /\ entryDropped \in BOOLEAN
      /\ EntryRoom \in Nat /\ n \in Numbers
  BY RoomAssumption DEF Archive!TypeOK, Archive!Assumption
<1> HIDE DEF Numbers
<1>2. CASE Len(entryUpdates) < EntryRoom
  <2>1. entryUpdates' = Append(entryUpdates, n) /\ UNCHANGED entryDropped
    BY <1>2 DEF Archive!SendProgress
  <2>2. entryUpdates' \in Seq(Numbers) /\ Len(entryUpdates') = Len(entryUpdates) + 1
    BY <1>1, <2>1
  <2> QED BY <1>1, <1>2, <2>1, <2>2 DEF Numbers
<1>3. CASE ~(Len(entryUpdates) < EntryRoom)
  <2>1. entryDropped' = TRUE /\ UNCHANGED entryUpdates
    BY <1>3 DEF Archive!SendProgress
  <2> QED BY <1>1, <2>1 DEF Numbers
<1> QED BY <1>2, <1>3

LEMMA ArchiveKeeps ==
    ASSUME ArchiveTypes, Archive!Next
    PROVE  ArchiveTypes'
<1> USE DEF ArchiveTypes, Archive!TypeOK, Archive!readerVars, Archive!loggerVars
<1>0. Len(Entries) \in Nat /\ EntryRoom \in Nat
  BY RoomAssumption DEF Archive!Assumption
<1>1. CASE Archive!Open
  <2>1. /\ pos' = 1 /\ reader' = "next" /\ entryIndex' = 0 /\ imported' = FALSE /\ failed' = FALSE
        /\ entryUpdates' = <<>> /\ entryDropped' = FALSE /\ bytesSeen' = FALSE /\ closedSeen' = FALSE
        /\ entries' = 0 /\ line' = -1 /\ logger' = "looping"
    BY <1>1 DEF Archive!Open
  <2>2. <<>> \in Seq(0..Len(Entries)) /\ Len(<<>>) <= EntryRoom
    BY <1>0
  <2>3. 1 \in 1..(Len(Entries) + 1) /\ 0 \in 0..Len(Entries) /\ -1 \in -1..Len(Entries)
    BY <1>0
  <2>4. /\ pos' \in 1..(Len(Entries) + 1) /\ entryIndex' \in 0..Len(Entries) /\ entryIndex' < pos'
        /\ entries' \in 0..Len(Entries) /\ line' \in -1..Len(Entries)
    BY <2>1, <2>3
  <2>5. entryUpdates' \in Seq(0..Len(Entries)) /\ Len(entryUpdates') <= EntryRoom
    BY <2>1, <2>2
  <2>6. {imported', failed'} \subseteq BOOLEAN /\ {entryDropped', bytesSeen', closedSeen'} \subseteq BOOLEAN
    BY <2>1
  <2> QED BY <2>1, <2>4, <2>5, <2>6
<1>2. CASE Archive!PassOver \/ Archive!Finish \/ Archive!Return \/ Archive!Close
  <2>1. UNCHANGED <<entryIndex, imported, entryUpdates, entryDropped, bytesSeen, closedSeen, entries,
                    line, logger>>
    BY <1>2 DEF Archive!PassOver, Archive!Finish, Archive!Return, Archive!Close
  <2>2. failed' \in BOOLEAN
    BY <1>2 DEF Archive!PassOver, Archive!Finish, Archive!Return, Archive!Close
  <2>3. /\ pos' = pos \/ (pos' = pos + 1 /\ pos <= Len(Entries))
        /\ reader' \in {"closed", "next", "over", "returned"}
    BY <1>2 DEF Archive!PassOver, Archive!Finish, Archive!Return, Archive!Close
  <2>4. pos' \in 1..(Len(Entries) + 1) /\ entryIndex' < pos'
    BY <1>0, <2>1, <2>3
  <2> QED BY <2>1, <2>2, <2>3, <2>4
<1>3. CASE Archive!NextEntry
  <2>1. /\ UNCHANGED <<pos, entryIndex, imported, failed, bytesSeen, closedSeen, entries, line, logger>>
        /\ reader' = "processing" /\ pos <= Len(Entries) /\ Archive!SendProgress(entryIndex)
    BY <1>3 DEF Archive!NextEntry
  <2>2. /\ entryUpdates' \in Seq(0..Len(Entries)) /\ Len(entryUpdates') <= EntryRoom
        /\ entryDropped' \in BOOLEAN
    BY <2>1, Counted
  <2> QED BY <2>1, <2>2
<1>4. CASE Archive!EntryDone
  <2>1. /\ UNCHANGED <<failed, bytesSeen, closedSeen, entries, line, logger>>
        /\ reader = "processing" /\ reader' = "next" /\ pos' = pos + 1
        /\ entryIndex' = entryIndex + 1 /\ Archive!SendProgress(entryIndex + 1)
    BY <1>4 DEF Archive!EntryDone
  <2>2. imported' \in BOOLEAN
    BY <1>4 DEF Archive!EntryDone
  <2>3. /\ entryIndex + 1 \in 0..Len(Entries) /\ entryIndex' < pos'
        /\ pos' \in 1..(Len(Entries) + 1)
    BY <1>0, <2>1
  <2>4. /\ entryUpdates' \in Seq(0..Len(Entries)) /\ Len(entryUpdates') <= EntryRoom
        /\ entryDropped' \in BOOLEAN
    BY <2>1, <2>3, Counted
  <2> QED BY <2>1, <2>2, <2>3, <2>4
<1>5. CASE Archive!SeeUpdate
  <2> DEFINE Numbers == 0..Len(Entries)
  <2>1. /\ entryUpdates # <<>> /\ entries' = Head(entryUpdates) /\ entryUpdates' = Tail(entryUpdates)
        /\ UNCHANGED <<pos, reader, entryIndex, imported, failed, entryDropped, bytesSeen, closedSeen,
                       line, logger>>
    BY <1>5 DEF Archive!SeeUpdate
  <2>2. entryUpdates \in Seq(Numbers) /\ Len(entryUpdates) <= EntryRoom
    OBVIOUS
  <2> HIDE DEF Numbers
  <2>3. /\ entries' \in Numbers /\ entryUpdates' \in Seq(Numbers)
        /\ Len(entryUpdates') = Len(entryUpdates) - 1 /\ Len(entryUpdates) \in Nat
    BY <2>1, <2>2, HeadTailProperties
  <2>4. Len(entryUpdates') <= EntryRoom
    BY <1>0, <2>2, <2>3
  <2> QED BY <2>1, <2>3, <2>4 DEF Numbers
<1>6. CASE Archive!SeeBytesClosed \/ Archive!SeeClosed
  BY <1>6 DEF Archive!SeeBytesClosed, Archive!SeeClosed
<1>7. CASE Archive!Tick
  BY <1>0, <1>7 DEF Archive!Tick, Archive!BothOver
<1> QED BY <1>1, <1>2, <1>3, <1>4, <1>5, <1>6, <1>7 DEF Archive!Next, Archive!Step, Archive!Reading

LEMMA TailOf ==
    ASSUME NEW S, NEW s \in Seq(S), s # <<>>, NEW room \in Nat, Len(s) <= room
    PROVE  Head(s) \in S /\ Tail(s) \in Seq(S) /\ Len(Tail(s)) <= room
<1>1. Head(s) \in S /\ Tail(s) \in Seq(S) /\ Len(Tail(s)) = Len(s) - 1 /\ Len(s) \in Nat
  BY HeadTailProperties
<1> QED BY <1>1

LEMMA AppendFits ==
    ASSUME NEW S, NEW s \in Seq(S), NEW e \in S, NEW room \in Nat, Len(s) < room
    PROVE  Append(s, e) \in Seq(S) /\ Len(Append(s, e)) <= room
<1>1. Append(s, e) \in Seq(S) /\ Len(Append(s, e)) = Len(s) + 1 /\ Len(s) \in Nat
  BY AppendProperties
<1> QED BY <1>1

LEMMA MaintenanceKeeps ==
    ASSUME Maintenance!TypeOK, Maintenance!Next
    PROVE  Maintenance!TypeOK'
<1>0. jobs \in Seq(Clicks) /\ Len(jobs) <= QueueSize /\ QueueSize \in Nat
  BY RoomAssumption DEF Maintenance!TypeOK, Maintenance!Assumption
<1> USE DEF Maintenance!TypeOK
<1>1. CASE Maintenance!Drop \/ Maintenance!Begin
  <2>1. /\ jobs # <<>> /\ jobs' = Tail(jobs) /\ UNCHANGED <<caller, ended, logged>>
        /\ \/ worker' = worker /\ done' = [done EXCEPT ![Head(jobs)] = "cancelled"]
           \/ worker' = <<Head(jobs)>> /\ done' = done
    BY <1>1 DEF Maintenance!Drop, Maintenance!Begin
  <2>2. Head(jobs) \in Clicks /\ jobs' \in Seq(Clicks) /\ Len(jobs') <= QueueSize
    BY <1>0, <2>1, TailOf
  <2> QED BY <2>1, <2>2
<1>2. CASE Maintenance!Finish
  BY <1>2 DEF Maintenance!Finish
<1>3. ASSUME NEW c \in Clicks, Maintenance!Enqueue(c) PROVE Maintenance!TypeOK'
  <2> HIDE DEF Maintenance!TypeOK
  <2>1. /\ Len(jobs) < QueueSize /\ jobs' = Append(jobs, c) /\ UNCHANGED <<ended, worker, done, logged>>
        /\ caller' = [caller EXCEPT ![c] = "queued"]
    BY <1>3 DEF Maintenance!Enqueue
  <2>2. jobs' \in Seq(Clicks) /\ Len(jobs') <= QueueSize
    BY <1>0, <2>1, AppendFits
  <2> QED BY <2>1, <2>2 DEF Maintenance!TypeOK
<1>4. ASSUME NEW c \in Clicks,
             \/ Maintenance!Timeout(c) \/ Maintenance!GiveUp(c) \/ Maintenance!Return(c)
             \/ Maintenance!Log(c) \/ Maintenance!Schedule(c)
      PROVE  Maintenance!TypeOK'
  BY <1>4 DEF Maintenance!Timeout, Maintenance!GiveUp, Maintenance!Return, Maintenance!Log,
     Maintenance!Schedule
<1> QED BY <1>1, <1>2, <1>3, <1>4 DEF Maintenance!Next, Maintenance!Step

(* Types: the token is there once, no channel holds more than it has room  *)
(* for, and no entry is counted that the archive does not have.            *)
THEOREM DesktopTypes == Spec => []TypeOK
<1> DEFINE Inv == SlotInv /\ ArchiveTypes /\ Maintenance!TypeOK
<1>1. Init => Inv
  <2> SUFFICES ASSUME Init PROVE Inv
    OBVIOUS
  <2>1. Len(Entries) \in Nat /\ EntryRoom \in Nat /\ QueueSize \in Nat
    BY RoomAssumption DEF Archive!Assumption, Maintenance!Assumption
  <2>2. ArchiveTypes
    <3>1. <<>> \in Seq(0..Len(Entries)) /\ Len(<<>>) <= EntryRoom
      BY <2>1
    <3>2. 1 \in 1..(Len(Entries) + 1) /\ 0 \in 0..Len(Entries) /\ -1 \in -1..Len(Entries)
      BY <2>1
    <3>3. /\ pos \in 1..(Len(Entries) + 1) /\ entryIndex \in 0..Len(Entries) /\ entryIndex < pos
          /\ entries \in 0..Len(Entries) /\ line \in -1..Len(Entries)
          /\ entryUpdates \in Seq(0..Len(Entries)) /\ Len(entryUpdates) <= EntryRoom
      BY <3>1, <3>2 DEF Init, Archive!Init
    <3>4. /\ reader = "closed" /\ logger = "done"
          /\ {imported, failed} \subseteq BOOLEAN /\ {entryDropped, bytesSeen, closedSeen} \subseteq BOOLEAN
      BY DEF Init, Archive!Init
    <3> QED BY <3>3, <3>4 DEF ArchiveTypes, Archive!TypeOK
  <2>3. Maintenance!TypeOK
    BY <2>1 DEF Init, Maintenance!Init, Maintenance!TypeOK
  <2> QED BY <2>2, <2>3, SlotStart DEF Init
<1>2. Inv /\ [Next]_vars => Inv'
  <2> SUFFICES ASSUME Inv, [Next]_vars PROVE Inv'
    OBVIOUS
  <2>1. SlotInv'
    BY SlotStays
  <2>2. ArchiveTypes'
    <3>1. Archive!Next \/ UNCHANGED archiveVars
      BY DEF Next, SlotStep, Open, ArchiveStep, Queue, MaintenanceStep, DownloadFails, End, vars, Archive!Next
    <3> QED BY <3>1, ArchiveKeeps DEF archiveVars, ArchiveTypes, Archive!TypeOK
  <2>3. Maintenance!TypeOK'
    <3>1. Maintenance!Next \/ UNCHANGED maintenanceVars
      BY DEF Next, SlotStep, Open, ArchiveStep, Queue, MaintenanceStep, DownloadFails, End, vars,
         Maintenance!Next
    <3> QED BY <3>1, MaintenanceKeeps DEF maintenanceVars, Maintenance!TypeOK
  <2> QED BY <2>1, <2>2, <2>3
<1>3. Inv => TypeOK
  BY DEF TypeOK, SlotInv, ArchiveTypes
<1> QED BY <1>1, <1>2, <1>3, PTL DEF Spec
=============================================================================
