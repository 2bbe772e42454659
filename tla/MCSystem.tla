------------------------------ MODULE MCSystem -------------------------------
(* A small instance of System for TLC. *)
EXTENDS System
=============================================================================
