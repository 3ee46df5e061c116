---------------------------- MODULE MCRecordStores ----------------------------
(* An instance of RecordStores for TLC: two requests, two values.            *)
EXTENDS RecordStores

CONSTANTS r1, r2
=============================================================================
