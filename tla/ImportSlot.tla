------------------------------- MODULE ImportSlot -------------------------------
(***************************************************************************)
(* The import a desktop operator starts with a click                       *)
(* (desktopAdminBootstrapImportHandler, startBackgroundArchiveImport and   *)
(* the import status tracker of chicha-isotope-map.go).  A token in a      *)
(* channel of one admits one import at a time; the goroutines of an import *)
(* tell the tracker how it goes through a second channel and do not wait   *)
(* when that one is full.                                                  *)
(***************************************************************************)
EXTENDS Integers, Sequences

CONSTANTS
    Clicks,     \* the requests, each from the one click
    Room        \* of the channel of updates: 128 in the source

Assumption == Room \in Nat \ {0}

VARIABLES
    slot,       \* the tokens in desktopAdminImportSlot
    stage,      \* of each request and of the import it started
    outcome,    \* "none" until the import of the request ended
    updates,    \* importStatusUpdateCh
    dropped,    \* an update found the channel full
    status      \* statusBySource["TGZ"]

vars == <<slot, stage, outcome, updates, dropped, status>>

Init ==
    /\ slot = 1
    /\ stage = [c \in Clicks |-> "new"]
    /\ outcome = [c \in Clicks |-> "none"]
    /\ updates = <<>> /\ dropped = FALSE
    /\ status = "idle"

setImportStatus(text) ==
    IF Len(updates) < Room
    THEN updates' = Append(updates, text) /\ UNCHANGED dropped
    ELSE dropped' = TRUE /\ UNCHANGED updates

Moves(c, from, to) == stage[c] = from /\ stage' = [stage EXCEPT ![c] = to]
-----------------------------------------------------------------------------
TakeSlot(c) ==
    /\ slot > 0
    /\ slot' = slot - 1
    /\ Moves(c, "new", "holding")
    /\ UNCHANGED <<outcome, updates, dropped, status>>

(* 409, import already running *)
Refuse(c) ==
    /\ slot = 0
    /\ Moves(c, "new", "over")
    /\ UNCHANGED <<slot, outcome, updates, dropped, status>>

(* The payload is no JSON, or the operator did not tick the box. *)
Skip(c) ==
    /\ Moves(c, "holding", "over")
    /\ slot' = slot + 1
    /\ UNCHANGED <<outcome, updates, dropped, status>>

Announce(c) ==
    /\ Moves(c, "holding", "announced")
    /\ setImportStatus("running")
    /\ UNCHANGED <<slot, outcome, status>>

(* The goroutine of startBackgroundArchiveImport starts. *)
Begin(c) ==
    /\ Moves(c, "announced", "importing")
    /\ setImportStatus("running")
    /\ UNCHANGED <<slot, outcome, status>>

(* importArchiveFromURL returns, and the importer reports. *)
End(c) ==
    /\ Moves(c, "importing", "ended")
    /\ \E text \in {"done", "error"} :
         outcome' = [outcome EXCEPT ![c] = text] /\ setImportStatus(text)
    /\ UNCHANGED <<slot, status>>

(* The deferred send of the importer. *)
Release(c) ==
    /\ slot = 0
    /\ slot' = slot + 1
    /\ Moves(c, "ended", "released")
    /\ UNCHANGED <<outcome, updates, dropped, status>>

(* The goroutine that called the importer reports a second time. *)
Report(c) ==
    /\ Moves(c, "released", "over")
    /\ setImportStatus(outcome[c])
    /\ UNCHANGED <<slot, outcome, status>>

Track ==
    /\ updates # <<>>
    /\ status' = Head(updates) /\ updates' = Tail(updates)
    /\ UNCHANGED <<slot, stage, outcome, dropped>>

(* The work of a request after the click. *)
Handles(c) == Skip(c) \/ Announce(c)

Next ==
    \/ \E c \in Clicks :
         \/ TakeSlot(c) \/ Refuse(c) \/ Skip(c) \/ Announce(c)
         \/ Begin(c) \/ End(c) \/ Release(c) \/ Report(c)
    \/ Track

Spec == Init /\ [][Next]_vars

(* Handler, goroutines and tracker run on; nobody has to click. *)
Running ==
    /\ WF_vars(Track)
    /\ \A c \in Clicks :
         /\ WF_vars(Handles(c)) /\ WF_vars(Begin(c))
         /\ WF_vars(Release(c)) /\ WF_vars(Report(c))

(* ... and an import that has begun comes to an end.  Here that is taken   *)
(* for granted; DesktopImports shows it of the import that is made.        *)
FairSpec == Spec /\ Running /\ \A c \in Clicks : WF_vars(End(c))
-----------------------------------------------------------------------------
TypeOK ==
    /\ slot \in 0..1
    /\ stage \in [Clicks -> {"new", "holding", "announced", "importing", "ended",
                             "released", "over"}]
    /\ outcome \in [Clicks -> {"none", "done", "error"}]
    /\ updates \in Seq({"running", "done", "error"}) /\ Len(updates) <= Room
    /\ dropped \in BOOLEAN
    /\ status \in {"idle", "running", "done", "error"}
=============================================================================
