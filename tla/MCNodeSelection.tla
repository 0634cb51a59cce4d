-------------------------- MODULE MCNodeSelection --------------------------
(***************************************************************************)
(* NodeSelection with two supported nodes and one that is not.             *)
(***************************************************************************)
EXTENDS NodeSelection

CONSTANTS a, b, x

MCNodes         == {a, b, x}
MCSupported     == {a, b}
MCSubscriptions == { <<>>, <<x, a, b>>, <<b>>, <<x>> }
=============================================================================
