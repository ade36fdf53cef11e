------------------------------ MODULE MCIngest ------------------------------
(***************************************************************************)
(* Model-checking instance of Ingest.  The files come in either order and  *)
(* the properties are temporal, so no symmetry is used.  There is one      *)
(* identifier for two files, so at most one of them is processed, before   *)
(* or after the other could not be opened.                                 *)
(***************************************************************************)
EXTENDS Ingest
=============================================================================
