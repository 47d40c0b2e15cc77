-------------------------- MODULE MCDBRecordStore --------------------------
(* DBRecordStore for TLC: a record of one segment and one of two. *)
EXTENDS DBRecordStoreProperties

MCRecords == {<<1>>, <<2, 3>>}
=============================================================================
