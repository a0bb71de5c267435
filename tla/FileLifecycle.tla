--------------------------- MODULE FileLifecycle ---------------------------
(***************************************************************************)
(* What the file store promises for one upload (docs/pmt-docs/             *)
(* 04-communication.md: uploading, ready, attached, deleting, deleted):    *)
(* its state only moves forward, it is dropped without a deletion job only *)
(* before it was ready, and after that only through one.                   *)
(***************************************************************************)
CONSTANT Files

VARIABLE phase              \* of each file

Phases == {"absent", "uploading", "ready", "attached", "deleting", "deleted"}

Moves ==
  {<<"absent", "uploading">>, <<"uploading", "ready">>, <<"uploading", "deleted">>,
   <<"ready", "attached">>, <<"ready", "deleting">>, <<"attached", "deleting">>,
   <<"deleting", "deleted">>}

LifecycleInit == phase = [f \in Files |-> "absent"]

\* A retention batch moves several files at once.
LifecycleNext ==
  /\ phase' \in [Files -> Phases]
  /\ \A f \in Files : phase'[f] # phase[f] => <<phase[f], phase'[f]>> \in Moves

LifecycleSpec == LifecycleInit /\ [][LifecycleNext]_phase
=============================================================================
