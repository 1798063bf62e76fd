---------------------------- MODULE MCOnboarding -----------------------------
(***************************************************************************)
(* Small instances of onboarding for TLC: AGENTS.md, a skill file, and     *)
(* policies that govern one or both of them.                               *)
(***************************************************************************)
EXTENDS Onboarding

CONSTANTS agents, skill
=============================================================================
