------------------------------ MODULE MCEtcdSim ------------------------------
(* Small instances of EtcdSim. *)
EXTENDS EtcdSim

CONSTANT c1
==============================================================================
