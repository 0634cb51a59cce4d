--------------------------- MODULE ConnectThrough ---------------------------
(***************************************************************************)
(* connectThrough (lib/core/transports.js): the node's type decides which  *)
(* face carries a connection, a raw socket's (SocketBuffer), a framed one's *)
(* (Framing) or the native connector's (NativeConnector), and the proxy    *)
(* server is to see no difference (Stream).                                *)
(***************************************************************************)
EXTENDS SocketBuffer

CONSTANTS
    Kinds,       \* see Framing
    Cap,
    CountLimit,
    MaxUp,
    MaxDown,
    MaxExtras

VARIABLES
    node,  \* the node: [type, reality]
    face   \* the face it got: "raw", "framed", "native", or "none": it threw

VARIABLES
    kind, sent, outCount, up, got, serverIn, used, replied, replyCount, reply,
    extras, in, pending, left, need, inCount, delivered, phase, streamEnd, serverUp

VARIABLES
    host, child, exited, stdin, stdinEnd, stdout, reading, closed, killer,
    upCopy, downCopy, asked, headRead, inbound, far, headed, offered, carried,
    said, relayed

F == INSTANCE Framing
N == INSTANCE NativeConnector

ASSUME FramingAssumption ==
    F!KindsAssumption /\ F!CapAssumption /\ F!BoundsAssumption

framedVars ==
    <<kind, sent, outCount, up, got, serverIn, used, replied, replyCount, reply,
      extras, in, pending, left, need, inCount, delivered, phase, streamEnd, serverUp>>
nativeVars ==
    <<host, child, exited, stdin, stdinEnd, stdout, reading, closed, killer,
      upCopy, downCopy, asked, headRead, inbound, far, headed, offered, carried,
      said, relayed>>
allVars    == <<node, face, vars, framedVars, nativeVars>>

\* reality: flow xtls-rprx-vision and reality-opts.
Types == {"direct", "http", "socks5", "ss", "trojan", "vless", "vmess",
          "hysteria2", "tuic", "other"}
Nodes == [type : Types, reality : BOOLEAN]

\* The faces a node may get; a native one needs the connector's binary.
FacesOf(n) ==
    IF n.type = "hysteria2" \/ (n.type = "vless" /\ n.reality) THEN {"native", "none"}
    ELSE IF n.type \in {"direct", "http", "socks5"} THEN {"raw"}
    ELSE IF n.type \in {"ss", "trojan", "vless", "vmess"} THEN {"framed"}
    ELSE {"none"}

\* The framings of a type.
KindsOf(type) ==
    {k \in Kinds : CASE type = "ss"     -> k.opensSealed
                     [] type = "vmess"  -> k.vmess
                     [] type = "trojan" -> ~k.sealed /\ k.header = 0
                     [] type = "vless"  -> ~k.sealed /\ k.header > 0}

\* The face there is; the others do not exist and stay as they are.
ConnectInit ==
    /\ node \in Nodes /\ face \in FacesOf(node)
    /\ node.reality => node.type = "vless"
    /\ Init /\ F!Init /\ N!Init
    /\ IF face = "framed" THEN kind \in KindsOf(node.type)
       ELSE kind = CHOOSE k \in Kinds : TRUE

Raw(Step) ==
    face = "raw" /\ Step /\ UNCHANGED <<node, face, framedVars, nativeVars>>
Framed(Step) ==
    face = "framed" /\ Step /\ UNCHANGED <<node, face, vars, nativeVars>>
Native(Step) ==
    face = "native" /\ Step /\ UNCHANGED <<node, face, vars, framedVars>>

ConnectNext == Raw(Next) \/ Framed(F!Next) \/ Native(N!Next)

ConnectSpec == ConnectInit /\ [][ConnectNext]_allVars

-----------------------------------------------------------------------------

\* What the event loops and goroutines do whenever they can: the raw face's task,
\* a client that keeps reading, a socket that reports its close once it failed or
\* was destroyed; the framed face's reader; Node's events and timer, and the
\* connector's copies and exit.
Scheduling ==
    /\ WF_allVars(Raw(Read)) /\ WF_allVars(Raw(Written)) /\ WF_allVars(Raw(Drain))
    /\ WF_allVars(Raw((errored \/ destroyed) /\ Close))
    /\ WF_allVars(Framed(F!Reader))
    /\ WF_allVars(Native(N!Read)) /\ WF_allVars(Native(N!Exit))
    /\ WF_allVars(Native(N!Kill)) /\ WF_allVars(Native(N!Spawn))
    /\ WF_allVars(Native(N!CopyUp)) /\ WF_allVars(Native(N!CopyDown))
    /\ WF_allVars(Native(N!Leave))

\* For the answers: a client that speaks, a server that reads and sends, and a
\* target that answers.
Peers ==
    /\ WF_allVars(Framed(\E n \in 1 .. MaxUp : F!Write(n)))
    /\ WF_allVars(Framed(F!ServerReads))
    /\ WF_allVars(Framed(\E n \in 1 .. MaxDown : F!ServerReplies(n)))
    /\ WF_allVars(Framed(\E k \in DOMAIN reply : F!ServerSends(k)))
    /\ WF_allVars(Native(\E n \in 1 .. MaxUp : N!Write(n)))
    /\ WF_allVars(Native(\E n \in 1 .. MaxDown : N!FarAnswers(n)))

ConnectFairSpec == ConnectSpec /\ Scheduling /\ Peers

-----------------------------------------------------------------------------
(* Properties.                                                             *)

\* The types of the three faces.
ConnectTypeOK ==
    /\ node \in Nodes /\ face \in {"raw", "framed", "native", "none"}
    /\ TypeOK /\ F!TypeOK /\ N!TypeOK

\* What Framing states of its face, see there.
UpInOrder   == F!UpInOrder
UpInStep    == F!UpInStep
NoncesFresh == F!NoncesFresh
DownInOrder == F!DownInOrder

\* An end the protocol or the connector announces comes after all that was sent:
\* vmess's empty chunk, ws's close frame, main's wg.Wait() (main.go:57-76), the
\* last but for what a broken connection kept from the connector.
EndsComplete == F!EndsComplete /\ N!NativeEndsComplete

\* transports.js:22-24: "so the proxy server never cares which protocol a node
\* speaks": whichever face carries a connection, each direction is a stream, and
\* so is the buffer its handshake reads from.
FacesCarryStreams ==
    /\ Reads!Spec /\ Relay!Spec
    /\ F!Upward!Spec /\ F!Downward!Spec
    /\ N!Upward!Spec /\ N!Downward!Spec

UpstreamOver ==
    \/ face = "raw" /\ Relaying /\ ended
    \/ face = "framed" /\ phase = "open" /\ streamEnd # "no"
    \/ face = "native" /\ child = "relaying" /\ far # "open"

FaceOver ==
    \/ face = "raw" /\ (task \in {"done", "failed"} \/ client # "open")
    \/ face = "framed" /\ phase # "open"
    \/ face = "native" /\ (reading # "open" \/ host = "crashed")

\* An upstream socket that closes ends the reads of its face, slow client or not.
SocketsEnd == face # "native" /\ UpstreamOver ~> FaceOver

\* transports.js:577-579: no connector outlives a face that was closed, whatever
\* its copies wait for and whenever it exits.
Reaped == face = "native" /\ closed ~> N!Dead \/ host = "crashed"

Asking ==
    \/ face = "framed" /\ phase = "open"
    \/ face = "native" /\ child = "relaying"

AnsweredOrOver ==
    \/ face = "framed" /\ (delivered # <<>> \/ phase # "open" \/ ~serverUp)
    \/ face = "native" /\ \/ relayed # <<>> \/ far # "open"
                          \/ closed \/ N!Dead \/ host = "crashed"

\* transports.js:372-375, 496-499 and vless.go:100: the server answers no sooner
\* than the client has written, so writes must not wait for the response header.
\* A client that speaks gets its answer, unless the connection goes first.
Answered == Asking ~> AnsweredOrOver

\* transports.js:22-24, as above: so does an upstream that closes behind any node.
UniformEnd == UpstreamOver ~> FaceOver

=============================================================================
