----------------------------- MODULE MCIngestion -----------------------------
(* Two ingestions, one after the other, of a knowledge base of two         *)
(* documents.                                                              *)
EXTENDS Ingestion

CONSTANTS j1, j2, w1, w2, q1, q2, da, db, k1

TwoDocs == <<da, db>>
NoParents == [r \in Runs |-> NoRun]
===============================================================================
