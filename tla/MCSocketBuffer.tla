--------------------------- MODULE MCSocketBuffer ---------------------------
(***************************************************************************)
(* SocketBuffer under a handshake like socks5Connect's: a write and a read, *)
(* a write and two reads in a row, then the relay.                         *)
(***************************************************************************)
EXTENDS SocketBuffer

MCHandshake == << [count |-> 1, sends |-> TRUE],
                  [count |-> 2, sends |-> TRUE],
                  [count |-> 1, sends |-> FALSE] >>
=============================================================================
