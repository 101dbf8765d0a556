------------------------------- MODULE MCWeb -------------------------------
(* Values for the constants of the harness and of the page, for model checking. *)
EXTENDS WebPage
=============================================================================
