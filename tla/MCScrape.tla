------------------------------ MODULE MCScrape ------------------------------
(* Instance of Scrape for TLC: two months with one event each.  One artist  *)
(* plays at the first event, so a list made between the writes of two shards *)
(* differs from one made later.  The single file of earlier versions holds   *)
(* the second event.                                                         *)
EXTENDS Scrape, TLC
CONSTANTS e1, e2, a1
MCChunks == <<{e1}, {e2}>>
MCLineUp == (e1 :> {a1}) @@ (e2 :> {})
MCDates == {(e1 :> 2025) @@ (e2 :> 2026)}
MCOptions == {{"bio", "dedup"}, {"refresh"}}
=============================================================================
