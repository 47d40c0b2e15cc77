------------------------------ MODULE MCMPIJob ------------------------------
(***************************************************************************)
(* MPIJob for TLC: receivers are interchangeable, so permuting them is     *)
(* sound for the runs that check no liveness.                              *)
(***************************************************************************)
EXTENDS MPIConversation, TLC

ReceiverSymmetry == Permutations(Receivers)
=============================================================================
