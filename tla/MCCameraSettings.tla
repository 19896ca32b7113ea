-------------------------- MODULE MCCameraSettings --------------------------
(* Model values of CameraSettings for TLC. *)
EXTENDS CameraSettings, TLC

\* The structure is zero at first: the sensor's own settings differ from that.
FactorySettings == [f \in Fields |-> IF f \in {"dcw", "aec"} THEN 1 ELSE 0]

Symmetry == Permutations(SaveTasks)
=============================================================================
