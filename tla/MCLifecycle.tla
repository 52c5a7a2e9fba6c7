---------------------------- MODULE MCLifecycle ----------------------------
(* Three components to tear down. *)
EXTENDS Lifecycle

MCComponents == <<"wifi", "api", "sensor">>

=============================================================================
