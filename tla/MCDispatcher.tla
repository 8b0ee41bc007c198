---------------------------- MODULE MCDispatcher ----------------------------
(* Small instances of Dispatcher: every submission goes to the first form. *)
EXTENDS DispatcherRefinement, TLC

CONSTANT f1

MCFormOf == [s \in Submissions |-> f1]
=============================================================================
