---------------------------- MODULE MCIngestion ----------------------------
(* Instance of Ingestion for TLC: two processes, of which the scheduled     *)
(* command may use one.                                                     *)
EXTENDS Ingestion
MCOptionSets == {{}, {"bio"}}
=============================================================================
