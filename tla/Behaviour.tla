------------------------------ MODULE Behaviour -----------------------------
(***************************************************************************)
(* Several parts of the system are checked in one run: a behaviour is one of *)
(* a single part, which `part' names, and s is the state of that part.       *)
(***************************************************************************)
VARIABLES part, s
=============================================================================
