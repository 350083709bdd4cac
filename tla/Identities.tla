----------------------------- MODULE Identities -----------------------------
(***************************************************************************)
(* What every program knows a client by: the ID of its container, which is *)
(* the hostname it registers with.                                         *)
(***************************************************************************)
EXTENDS FiniteSets

CONSTANT ID   \* container IDs

(* They are strings of twelve hexadecimal digits.                          *)
ASSUME FiniteAssumption == IsFiniteSet(ID)
=============================================================================
