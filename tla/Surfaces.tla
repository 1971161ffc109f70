------------------------------ MODULE Surfaces ------------------------------
(***************************************************************************)
(* The daemon's surfaces: those with a person or a disk on their other     *)
(* side (Desk) and those a model call passes (Wire).  They share no state: *)
(* one part of one of them moves, and a step of either leaves the other    *)
(* alone, so that what each promises on its own holds here.                *)
(***************************************************************************)
EXTENDS Desk, Wire

vars == <<desk, wire>>

Init == DeskInit /\ WireInit /\ (part = "none") # (leg = "none")

Next ==
    \/ DeskNext /\ UNCHANGED wire
    \/ WireNext /\ UNCHANGED desk

Spec == Init /\ [][Next]_vars
============================================================================
