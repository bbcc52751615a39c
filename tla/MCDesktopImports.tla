---------------------------- MODULE MCDesktopImports ----------------------------
(* DesktopImports for TLC: two clicks, one export among two entries. *)
EXTENDS DesktopImports

CONSTANTS c1, c2

MCEntries == <<"export", "other">>
=============================================================================
