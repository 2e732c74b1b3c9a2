--------------------- MODULE MCTransmissionGateRegistry ---------------------
(***************************************************************************)
(* Model checking of the registry: the sends are interchangeable.          *)
(***************************************************************************)
EXTENDS TransmissionGateRegistry, TLC

SendSymmetry == Permutations(Sends)
=============================================================================
