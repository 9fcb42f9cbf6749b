----------------------------- MODULE MCEventForm -----------------------------
(* The form with a clock of a few moments.                                  *)
EXTENDS EventForm
=============================================================================
