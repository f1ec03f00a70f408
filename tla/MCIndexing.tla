------------------------------ MODULE MCIndexing ------------------------------
(* One file, two runs of its processing, one deletion.                          *)
EXTENDS Indexing
===============================================================================
