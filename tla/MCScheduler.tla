---------------------------- MODULE MCScheduler ----------------------------
(* One component's named timer, and a self-keyed one that may be started   *)
(* in parallel; two item objects; a clock of a few milliseconds.           *)
EXTENDS Scheduler, TLC
CONSTANTS i1, i2, named, self, comp

MCItems == {i1, i2}
MCKeys == {named, self}
MCOwner == named :> comp @@ self :> None
MCComponents == {comp}
=============================================================================
