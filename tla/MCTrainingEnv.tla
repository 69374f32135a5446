---------------------------- MODULE MCTrainingEnv ----------------------------
(* Small instances of TrainingEnv.tla for TLC. *)
EXTENDS TrainingEnv, TLC
===============================================================================
