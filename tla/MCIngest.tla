------------------------------- MODULE MCIngest -------------------------------
(* Model-checking instance of Ingest: two demo generators sending two     *)
(* messages each through one spooler, whose segments hold two records.    *)
EXTENDS Ingest

CONSTANTS c1, c2

MCClients == {c1, c2}
==============================================================================
