----------------------------- MODULE MCAppPane -----------------------------
(* AppPane on small instances. *)
EXTENDS AppPane
=============================================================================
