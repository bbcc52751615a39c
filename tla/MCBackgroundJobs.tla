---------------------------- MODULE MCBackgroundJobs ----------------------------
(* BackgroundJobs for TLC: one caller of the archive; lists of up to five  *)
(* tracks on pages of two; three heavy downloads of one address against a  *)
(* burst of two.                                                           *)
EXTENDS BackgroundJobs, TLC

CONSTANTS c1, a1, a2, a3, ipA

MCIpOf == a1 :> ipA @@ a2 :> ipA @@ a3 :> ipA
=============================================================================
