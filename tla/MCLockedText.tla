---------------------------- MODULE MCLockedText ----------------------------
(* Small instances of LockedText for TLC. *)
EXTENDS LockedText

CONSTANTS a, space
=============================================================================
