---------------------------- MODULE MCIngestion ----------------------------
(* Ingestion for TLC; liveness is checked, so the workers are not permuted. *)
EXTENDS Ingestion

CONSTANTS w1, w2

\* One worker, and two workers that may take an entry from each other.
MCConfigs ==
    [workers : {{w1}}, spool : BOOLEAN, kind : {<<"good", "good">>, <<"malformed", "bad">>}]
      \cup [workers : {{w1, w2}}, spool : BOOLEAN, kind : {<<"good", "bad">>}]
=============================================================================
