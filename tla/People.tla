------------------------------- MODULE People -------------------------------
(* The players of the modules about what players do with one another. *)
CONSTANTS
  Players,
  NoPlayer  \* NULL

ASSUME PeopleAssumption == NoPlayer \notin Players
=============================================================================
