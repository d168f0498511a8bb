---------------------------- MODULE MCCollector ----------------------------
(***************************************************************************)
(* Three posts of one run and one of another on a pool of two connections, *)
(* while the map asks once: retries race each other, can hold every        *)
(* connection and do not carry the same number of rows.                    *)
(***************************************************************************)
EXTENDS Collector, TLC

CONSTANTS map, first, retry, again, other, runA, runB

MCRunId(r) == IF r = other THEN runB ELSE runA
MCRows(r) == IF r = first THEN 2 ELSE 1
MCResults(r) == IF r = other THEN 2 ELSE 1
MCWellFormed(r) == TRUE

=============================================================================
