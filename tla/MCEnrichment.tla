---- MODULE MCEnrichment ----
(* One event with one artist: every race is about one entity. *)
EXTENDS Enrichment

CONSTANTS a1, e1, w1

MCLineup == [e \in {e1} |-> {a1}]
====
