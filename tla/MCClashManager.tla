--------------------------- MODULE MCClashManager ---------------------------
(***************************************************************************)
(* Small instances of ClashManager for TLC: two ports, one subscription    *)
(* URL, and up to three sections that a user may switch between.           *)
(***************************************************************************)
EXTENDS ClashManager

CONSTANTS p1, p2, u1

MCPorts == {p1, p2}
MCUrls  == {u1}

OnWithUrl == [enabled |-> TRUE, url |-> u1, auto |-> TRUE, urlTest |-> TRUE]
OnNoUrl   == [enabled |-> TRUE, url |-> None, auto |-> FALSE, urlTest |-> FALSE]
Off       == [enabled |-> FALSE, url |-> u1, auto |-> TRUE, urlTest |-> TRUE]

MCConfigs == {OnWithUrl, OnNoUrl, Off}
MCTwoConfigs == {OnWithUrl, Off}

AllRequests == RequestKinds
=============================================================================
