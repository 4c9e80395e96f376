---------------------------- MODULE MCEnrolment ----------------------------
(* Enrolment for TLC: requests and codes are model values named in the cfg. *)
EXTENDS Enrolment, TLC

CONSTANTS c1, r1, r2, r3, x1
=============================================================================
