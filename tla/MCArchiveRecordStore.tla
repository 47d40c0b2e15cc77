------------------------ MODULE MCArchiveRecordStore ------------------------
(* ArchiveRecordStore for TLC: keys are interchangeable. *)
EXTENDS ArchiveRecordStoreProperties, TLC

KeySymmetry == Permutations(Keys)
=============================================================================
