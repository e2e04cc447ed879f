----------------------------- MODULE MCScaffold -----------------------------
(* Two commands in one directory, with a list of two files.                 *)
EXTENDS Scaffold
=============================================================================
