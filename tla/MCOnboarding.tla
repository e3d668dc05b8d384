---------------------------- MODULE MCOnboarding ----------------------------
(* A small instance of Onboarding for TLC.                                 *)
EXTENDS Onboarding

CONSTANTS alice, w1, w2, q1
=============================================================================
