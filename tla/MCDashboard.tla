---------------------------- MODULE MCDashboard ----------------------------
(* A small instance of Dashboard for TLC.                                  *)
EXTENDS Dashboard, TLC

CONSTANTS s1, s2, s3

MCSocks == {s1, s2, s3}

(* Sockets are interchangeable names.                                       *)
MCSymmetry == Permutations(MCSocks)
=============================================================================
