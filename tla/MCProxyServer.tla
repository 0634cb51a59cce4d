--------------------------- MODULE MCProxyServer ---------------------------
(***************************************************************************)
(* ProxyServer with interchangeable connections.                           *)
(***************************************************************************)
EXTENDS ProxyServer, TLC

Symmetry == Permutations(Conns)
=============================================================================
