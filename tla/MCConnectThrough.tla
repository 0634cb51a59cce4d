-------------------------- MODULE MCConnectThrough --------------------------
(***************************************************************************)
(* ConnectThrough with every kind of framed node the transports build, and *)
(* a raw node with a handshake like socks5Connect's: a write and a read, a *)
(* write and two reads in a row, then the relay.                           *)
(***************************************************************************)
EXTENDS ConnectThrough

MCHandshake == << [count |-> 1, sends |-> TRUE],
                  [count |-> 2, sends |-> TRUE],
                  [count |-> 1, sends |-> FALSE] >>

Node(ws, sealed, opensSealed, header, vmess) ==
    [ws |-> ws, sealed |-> sealed, opensSealed |-> opensSealed,
     header |-> header, vmess |-> vmess]

\* ss and trojan over tcp, vless over ws, vmess over both.
MCKinds ==
    { Node(FALSE, TRUE, TRUE, 0, FALSE), Node(FALSE, FALSE, FALSE, 0, FALSE),
      Node(TRUE, FALSE, FALSE, 2, FALSE) }
    \cup { Node(ws, TRUE, FALSE, 1, TRUE) : ws \in BOOLEAN }
=============================================================================
