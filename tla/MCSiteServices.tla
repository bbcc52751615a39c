----------------------------- MODULE MCSiteServices -----------------------------
(* SiteServices for TLC: two handlers and one cached answer; one caller of *)
(* the track numbers; two users of short links; one browser with two       *)
(* requests under way.                                                     *)
EXTENDS SiteServices, TLC

CONSTANTS c1, c2, overview, u1, u2, t1, t2, b1, f1, r1, r2

MCTTL == overview :> 2
MCFingerprint == b1 :> f1
MCBrowser == r1 :> b1 @@ r2 :> b1
=============================================================================
