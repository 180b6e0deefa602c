------------------------------- MODULE World -------------------------------
(* What several subsystems name: the users, and the absence of a value. *)
CONSTANTS Users, None
============================================================================
