---------------------------- MODULE MCJobLiveView ----------------------------
(* JobLiveView on small instances: the .cfg files give every constant. *)
EXTENDS JobLiveView
=============================================================================
