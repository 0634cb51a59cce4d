---------------------------- MODULE MCBrowserPage ----------------------------
(***************************************************************************)
(* BrowserPage with two nodes, of which an update may take one away.       *)
(***************************************************************************)
EXTENDS BrowserPage

CONSTANTS a, b

MCNames         == {a, b}
MCSubscriptions == { <<a, b>>, <<b>> }
=============================================================================
