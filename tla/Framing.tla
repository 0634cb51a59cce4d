------------------------------- MODULE Framing -------------------------------
(***************************************************************************)
(* The faces of ss, vmess, trojan and vless (lib/core/transports.js,       *)
(* vmess.js, ws.js): how a client's bytes are cut, sealed and framed on    *)
(* their way up, and how the answer is taken out of WebSocket frames,      *)
(* response header and sealed chunks on its way down.                      *)
(*                                                                         *)
(* A payload byte is its position in its direction.  A byte with a nonce   *)
(* stands for ciphertext: it opens under that nonce only.  Everything that *)
(* is read by count (a size field, a response header's field) is one unit. *)
(* SocketBuffer shows that reads by count do not depend on how a stream is *)
(* cut, so a unit that is still on its way is one not sent yet.  The       *)
(* upstream server is external.                                            *)
(***************************************************************************)
EXTENDS Naturals, Sequences, SequencesExt

CONSTANTS
    Kinds,       \* nodes: [ws, sealed, opensSealed, header, vmess]
    Cap,         \* bytes to a chunk: 0x3fff
    CountLimit,  \* nonces in vmess's 16-bit counter: 65536
    MaxUp,       \* bound on the client's bytes
    MaxDown,     \* bound on the server's bytes
    MaxExtras    \* bound on the server's pings and empty frames

\* opensSealed is ss, which knows no ws; vmess seals its chunks.
KindsAssumption ==
    /\ Kinds \subseteq [ws : BOOLEAN, sealed : BOOLEAN, opensSealed : BOOLEAN,
                        header : Nat, vmess : BOOLEAN]
    /\ \A k \in Kinds : /\ k.opensSealed => k.sealed /\ ~k.ws /\ ~k.vmess
                        /\ k.vmess => k.sealed
CapAssumption == Cap \in Nat \ {0} /\ CountLimit \in Nat \ {0}
BoundsAssumption == {MaxUp, MaxDown, MaxExtras} \subseteq Nat

VARIABLES
    kind,      \* the node
    sent,      \* the client's bytes the face was given
    outCount,  \* the writer's nonce counter
    up,        \* what the socket was given and the server has not read
    got,       \* ghost: the bytes the server has opened
    serverIn,  \* the server's count of the chunks it opened
    used,      \* ghost: the nonces the writer has sealed under
    replied,   \* the server's bytes
    replyCount, \* the server's nonce counter
    reply,     \* the server's inner stream, not in a frame yet
    extras,    \* the pings and empty frames the server has sent
    in,        \* what the socket delivers
    pending,   \* iterableSource's pending
    left,      \* units of the response header still to read
    need,      \* the size readChunk has read, or 0 before it has
    inCount,   \* the reader's nonce counter
    delivered, \* the bytes the face has yielded
    phase,     \* the face's: see Phases
    streamEnd, \* "no", or how in has ended: "frame" (ws close) or "socket"
    serverUp   \* the server has not closed

upVars     == <<sent, outCount, up, used>>
serverVars == <<got, serverIn, replied, replyCount, reply, extras, serverUp>>
downVars   == <<pending, left, need, inCount, delivered>>
vars       == <<kind, upVars, serverVars, downVars, in, phase, streamEnd>>

\* "ended" and "failed" are the reads'; "refused": the server's first answer is
\* not one; "crashed": the process is gone.
Phases == {"upgrade", "open", "ended", "failed", "refused", "closed", "crashed"}

Units == {"head", "data", "ping", "close", "header", "size", "body", "echo"}
Unit(is, n, nonce)       == [is |-> is, n |-> n, nonce |-> nonce]
Message(is, bytes, nonce) == [is |-> is, bytes |-> bytes, nonce |-> nonce]

Bytes(first, n) == [i \in 1 .. n |-> first + i - 1]

TypeOK ==
    /\ kind \in Kinds
    /\ sent \in 0 .. MaxUp /\ replied \in 0 .. MaxDown /\ extras \in 0 .. MaxExtras
    /\ outCount \in Nat /\ (kind.vmess => outCount <= CountLimit)
    /\ {serverIn, replyCount, left, need, inCount} \subseteq Nat
    /\ left <= kind.header
    /\ up \in Seq([is : {"request", "data", "pong", "end"}, bytes : Seq(Nat), nonce : Nat])
    /\ {got, used, delivered} \subseteq Seq(Nat)
    /\ {reply, in, pending} \subseteq Seq([is : Units, n : Nat, nonce : Nat])
    /\ phase \in Phases
    /\ streamEnd \in {"no", "frame", "socket"}
    /\ serverUp \in BOOLEAN

\* What the face opens with: ss seals the address under its first nonce; vmess
\* seals its command under a key of its own.
Request == Message("request", <<>>, 0)

\* The socket is connected.  Over ws the request waits for the upgrade.
Init ==
    /\ kind \in Kinds
    /\ sent = 0 /\ got = <<>> /\ serverIn = 0
    /\ outCount = IF kind.opensSealed THEN 1 ELSE 0
    /\ used = IF kind.opensSealed THEN <<0>> ELSE <<>>
    /\ up = IF kind.ws THEN <<>> ELSE <<Request>>
    /\ replied = 0 /\ replyCount = 0 /\ reply = <<>> /\ extras = 0
    /\ in = IF kind.ws THEN <<Unit("head", 0, 0)>> ELSE <<>>
    /\ pending = <<>> /\ left = kind.header /\ need = 0 /\ inCount = 0
    /\ delivered = <<>>
    /\ phase = IF kind.ws THEN "upgrade" ELSE "open"
    /\ streamEnd = "no" /\ serverUp = TRUE

-----------------------------------------------------------------------------
(* Up: the client's bytes.                                                 *)

\* Mutant: the last part is cut at the chunk's size too.
PartsTooLong(n) ==
    [i \in 1 .. (n + Cap - 1) \div Cap |->
        Message("data", Bytes(sent + (i - 1) * Cap + 1, Cap), outCount + i - 1)]

\* The parts of n bytes and the nonce each is sealed under.
Parts(n) ==
    [i \in 1 .. (n + Cap - 1) \div Cap |->
        LET before == (i - 1) * Cap
        IN  Message("data", Bytes(sent + before + 1, IF n - before < Cap THEN n - before ELSE Cap),
                    outCount + i - 1)]

\* Mutant: every part of a write is sealed under one nonce.
WriteSealedOnce(n) ==
    LET parts == [i \in DOMAIN Parts(n) |-> [Parts(n)[i] EXCEPT !.nonce = outCount]]
    IN  /\ kind.sealed
        /\ up' = up \o parts
        /\ used' = used \o [i \in DOMAIN parts |-> outCount]
        /\ outCount' = outCount + 1
        /\ UNCHANGED phase

\* Mutant: the 16-bit counter starts again at 0.
WriteSealedWraps(n) ==
    LET parts == [i \in DOMAIN Parts(n) |->
                    [Parts(n)[i] EXCEPT !.nonce = IF kind.vmess THEN @ % CountLimit ELSE @]]
    IN  /\ kind.sealed
        /\ up' = up \o parts
        /\ used' = used \o [i \in DOMAIN parts |-> parts[i].nonce]
        /\ outCount' = IF kind.vmess THEN (outCount + Len(parts)) % CountLimit
                       ELSE outCount + Len(parts)
        /\ UNCHANGED phase

\* vmess's writeUInt16BE throws when the counter is out: the parts before are
\* written, and nothing catches what the client's "data" listener throws.
WriteSealed(n) ==
    LET all   == Parts(n)
        out   == kind.vmess /\ outCount + Len(all) > CountLimit
        parts == IF out THEN SubSeq(all, 1, CountLimit - outCount) ELSE all
    IN  /\ kind.sealed
        /\ up' = up \o parts
        /\ used' = used \o [i \in DOMAIN parts |-> parts[i].nonce]
        /\ outCount' = outCount + Len(parts)
        /\ phase' = IF out THEN "crashed" ELSE phase

WriteRaw(n) ==
    /\ ~kind.sealed
    /\ up' = Append(up, Message("data", Bytes(sent + 1, n), 0))
    /\ UNCHANGED <<outCount, used, phase>>

\* Mutant: a write waits for the response header.
WriteGated(n) ==
    /\ phase = "open" /\ left = 0
    /\ sent + n <= MaxUp /\ sent' = sent + n
    /\ WriteSealed(n) \/ WriteRaw(n)
    /\ UNCHANGED <<kind, serverVars, downVars, in, streamEnd>>

\* face.write(data) of n bytes.  A ws face sends each chunk in one frame.
Write(n) ==
    /\ phase \in {"open", "ended"}
    /\ sent + n <= MaxUp /\ sent' = sent + n
    /\ WriteSealed(n) \/ WriteRaw(n)
    /\ UNCHANGED <<kind, serverVars, downVars, in, streamEnd>>

\* The client ends or leaves, or is destroyed when the reads fail.  vmess sends
\* an empty chunk before it destroys the socket, which may still go out.
FaceCloses ==
    /\ phase \in {"open", "ended", "failed"}
    /\ phase' = "closed"
    /\ up' = IF kind.vmess THEN Append(up, Message("end", <<>>, 0)) ELSE up
    /\ UNCHANGED <<kind, sent, outCount, used, serverVars, downVars, in, streamEnd>>

-----------------------------------------------------------------------------
(* The server.                                                             *)

Opened(m) == kind.sealed /\ (m.is = "data" \/ (m.is = "request" /\ kind.opensSealed))

\* It reads what comes next; a chunk that does not open ends it.
ServerReads ==
    /\ serverUp /\ up # <<>>
    /\ LET m == Head(up)
       IN  IF Opened(m) /\ m.nonce # serverIn
           THEN serverUp' = FALSE /\ UNCHANGED <<got, serverIn>>
           ELSE /\ got' = got \o m.bytes
                /\ serverIn' = IF Opened(m) THEN serverIn + 1 ELSE serverIn
                /\ UNCHANGED serverUp
    /\ up' = Tail(up)
    /\ UNCHANGED <<kind, sent, outCount, used, replied, replyCount, reply, extras,
                   downVars, in, phase, streamEnd>>

\* The target answers what it was sent.  The response header goes before the
\* first of it, and an answer is one chunk.
ServerReplies(n) ==
    /\ serverUp /\ got # <<>> /\ replied + n <= MaxDown
    /\ replied' = replied + n
    /\ replyCount' = IF kind.sealed THEN replyCount + 1 ELSE 0
    /\ LET nonce  == IF kind.sealed THEN replyCount ELSE 0
           header == IF replied = 0 THEN [i \in 1 .. kind.header |-> Unit("header", 0, 0)]
                     ELSE <<>>
           size   == IF kind.sealed THEN <<Unit("size", n, 0)>> ELSE <<>>
       IN  reply' = reply \o header \o size
                    \o [i \in 1 .. n |-> Unit("body", replied + i, nonce)]
    /\ UNCHANGED <<kind, upVars, got, serverIn, extras, serverUp, downVars, in, phase, streamEnd>>

\* It sends k units of its stream; over ws in a frame, which may cut a chunk in
\* two.
ServerSends(k) ==
    /\ k \in 1 .. Len(reply)
    /\ in' = in \o (IF kind.ws THEN <<Unit("data", k, 0)>> ELSE <<>>) \o SubSeq(reply, 1, k)
    /\ reply' = SubSeq(reply, k + 1, Len(reply))
    /\ UNCHANGED <<kind, upVars, got, serverIn, replied, replyCount, extras, serverUp,
                   downVars, phase, streamEnd>>

\* A ping with n bytes, or an empty frame.
ServerPings(n) ==
    /\ kind.ws /\ serverUp /\ extras < MaxExtras
    /\ extras' = extras + 1
    /\ in' = in \o (IF n = 0 THEN <<Unit("data", 0, 0)>>
                    ELSE <<Unit("ping", n, 0)>> \o [i \in 1 .. n |-> Unit("echo", i, 0)])
    /\ UNCHANGED <<kind, upVars, got, serverIn, replied, replyCount, reply, serverUp,
                   downVars, phase, streamEnd>>

\* It has said all: vmess has a chunk for that, ws a frame.
ServerEnds ==
    /\ serverUp /\ reply = <<>> /\ replied > 0
    /\ serverUp' = FALSE
    /\ LET last  == IF kind.vmess THEN <<Unit("size", 0, 0)>> ELSE <<>>
           frame == IF kind.vmess THEN <<Unit("data", 1, 0)>> ELSE <<>>
       IN  in' = in \o (IF kind.ws THEN frame \o last \o <<Unit("close", 0, 0)>> ELSE last)
    /\ UNCHANGED <<kind, upVars, got, serverIn, replied, replyCount, reply, extras,
                   downVars, phase, streamEnd>>

\* The socket closes: SocketBuffer's #ended.
SocketCloses ==
    /\ ~serverUp \/ phase \in {"closed", "crashed"}
    /\ streamEnd = "no" /\ streamEnd' = "socket"
    /\ serverUp' = FALSE
    /\ UNCHANGED <<kind, upVars, got, serverIn, replied, replyCount, reply, extras,
                   downVars, in, phase>>

-----------------------------------------------------------------------------
(* Down: the face's reads.                                                 *)

\* wsHandshake reads the head and no byte more, and the request goes out.
Upgrade ==
    /\ phase = "upgrade" /\ streamEnd = "no" /\ in # <<>>
    /\ phase' = "open" /\ in' = Tail(in) /\ up' = Append(up, Request)
    /\ UNCHANGED <<kind, sent, outCount, used, serverVars, downVars, streamEnd>>

\* What the units of the stream are read from, and how many the next read wants.
Source == IF kind.ws THEN pending ELSE in

Wanted == IF left = 0 /\ kind.sealed /\ need > 0 THEN need ELSE 1

Reads  == phase = "open" /\ (kind.ws \/ streamEnd = "no") /\ Len(Source) >= Wanted

Consume(n) ==
    /\ IF kind.ws THEN pending' = SubSeq(pending, n + 1, Len(pending)) /\ UNCHANGED in
       ELSE in' = SubSeq(in, n + 1, Len(in)) /\ UNCHANGED pending

\* Mutant: a frame with no payload is taken for the end.
PullFrameEmptyEnds ==
    /\ kind.ws /\ phase = "open" /\ streamEnd = "no" /\ Len(pending) < Wanted
    /\ in # <<>>
    /\ LET payload == SubSeq(in, 2, Head(in).n + 1)
       IN  /\ in' = SubSeq(in, Head(in).n + 2, Len(in))
           /\ pending' = IF Head(in).is = "data" THEN pending \o payload ELSE pending
           /\ streamEnd' = IF payload = <<>> THEN "frame" ELSE "no"
    /\ UNCHANGED <<kind, upVars, serverVars, left, need, inCount, delivered, phase>>

\* Mutant: a ping's payload is passed on with its pong.
PullFramePingThrough ==
    /\ kind.ws /\ phase = "open" /\ streamEnd = "no" /\ Len(pending) < Wanted
    /\ in # <<>>
    /\ LET payload == SubSeq(in, 2, Head(in).n + 1)
       IN  /\ in' = SubSeq(in, Head(in).n + 2, Len(in))
           /\ pending' = pending \o payload
           /\ streamEnd' = IF Head(in).is = "close" THEN "frame" ELSE "no"
    /\ UNCHANGED <<kind, upVars, serverVars, left, need, inCount, delivered, phase>>

\* A read over ws that wants more takes the next frame: a ping is answered, a
\* close ends the stream, an empty frame is passed over.
PullFrame ==
    /\ kind.ws /\ phase = "open" /\ streamEnd = "no" /\ Len(pending) < Wanted
    /\ in # <<>>
    /\ LET payload == SubSeq(in, 2, Head(in).n + 1)
       IN  /\ in' = SubSeq(in, Head(in).n + 2, Len(in))
           /\ pending' = IF Head(in).is = "data" THEN pending \o payload ELSE pending
           /\ up' = IF Head(in).is = "ping" THEN Append(up, Message("pong", <<>>, 0)) ELSE up
           /\ streamEnd' = IF Head(in).is = "close" THEN "frame" ELSE "no"
    /\ UNCHANGED <<kind, sent, outCount, used, serverVars, left, need, inCount, delivered, phase>>

\* One read of the response header, lazily, before the first of the payload.
ReadHeader ==
    /\ Reads /\ left > 0
    /\ Consume(1) /\ left' = left - 1
    /\ UNCHANGED <<kind, upVars, serverVars, need, inCount, delivered, phase, streamEnd>>

\* readChunk's size; 0 is the end.
ReadSize ==
    /\ Reads /\ left = 0 /\ kind.sealed /\ need = 0
    /\ Consume(1)
    /\ LET size == Head(Source)
       IN  /\ need' = IF size.is = "size" THEN size.n ELSE 0
           /\ phase' = IF size.is # "size" THEN "failed"
                       ELSE IF size.n = 0 /\ kind.vmess THEN "ended" ELSE phase
    /\ UNCHANGED <<kind, upVars, serverVars, left, inCount, delivered, streamEnd>>

\* Its payload, if it opens under the next nonce and vmess's counter has one.
ReadChunk ==
    /\ Reads /\ left = 0 /\ kind.sealed /\ need > 0
    /\ Consume(need) /\ need' = 0
    /\ LET chunk == SubSeq(Source, 1, need)
       IN  IF /\ kind.vmess => inCount < CountLimit
              /\ \A i \in DOMAIN chunk : chunk[i].is = "body" /\ chunk[i].nonce = inCount
           THEN /\ delivered' = delivered \o [i \in DOMAIN chunk |-> chunk[i].n]
                /\ inCount' = inCount + 1
                /\ UNCHANGED phase
           ELSE phase' = "failed" /\ UNCHANGED <<delivered, inCount>>
    /\ UNCHANGED <<kind, upVars, serverVars, left, streamEnd>>

\* trojan and vless pass on what there is.
ReadAny ==
    /\ Reads /\ left = 0 /\ ~kind.sealed
    /\ Consume(Len(Source))
    /\ delivered' = delivered \o [i \in DOMAIN Source |-> Source[i].n]
    /\ UNCHANGED <<kind, upVars, serverVars, left, need, inCount, phase, streamEnd>>

\* The stream is over while a read wants more.  Only readAny takes that for an
\* end: of a ws close frame, and without ws of the socket's.
ReadPastEnd ==
    /\ phase = "open" /\ streamEnd # "no" /\ ~Reads
    /\ phase' = IF left = 0 /\ ~kind.sealed /\ (streamEnd = "frame" \/ ~kind.ws)
                THEN "ended" ELSE "failed"
    /\ UNCHANGED <<kind, upVars, serverVars, downVars, in, streamEnd>>

\* The upgrade's status is not 101 or its head never ends; the response header
\* is not of this protocol.
Refused ==
    /\ phase = "upgrade" \/ (Reads /\ left > 0)
    /\ phase' = "refused"
    /\ UNCHANGED <<kind, upVars, serverVars, downVars, in, streamEnd>>

Reader == Upgrade \/ PullFrame \/ ReadHeader \/ ReadSize \/ ReadChunk \/ ReadAny \/ ReadPastEnd

Server ==
    \/ ServerReads \/ ServerEnds
    \/ \E n \in 1 .. MaxDown : ServerReplies(n)
    \/ \E k \in DOMAIN reply : ServerSends(k)
    \/ \E n \in 0 .. 1 : ServerPings(n)

Next ==
    \/ \E n \in 1 .. MaxUp : Write(n)
    \/ FaceCloses \/ Reader \/ Refused \/ Server \/ SocketCloses

Spec == Init /\ [][Next]_vars

-----------------------------------------------------------------------------
(* Properties.                                                             *)

Upward == INSTANCE ByteStream WITH given <- sent, over <- ~serverUp

Downward == INSTANCE ByteStream WITH
    given <- replied, got <- delivered, over <- phase \notin {"upgrade", "open"}

BytesOf(messages) == FlattenSeq([i \in DOMAIN messages |-> messages[i].bytes])

\* The nonces of those that are sealed.
NoncesOf(messages) ==
    FlattenSeq([i \in DOMAIN messages |->
                  IF Opened(messages[i]) THEN <<messages[i].nonce>> ELSE <<>>])

\* However writes are cut into chunks and mixed with pongs: the server gets the
\* client's bytes in order, each once, unless the process is gone.
UpInOrder ==
    LET written == got \o BytesOf(up)
    IN  /\ written = Bytes(1, Len(written))
        /\ phase # "crashed" /\ serverUp => Len(written) = sent

\* Writer and server count alike: what is on its way opens, chunk by chunk,
\* from the address of an ss request on.
UpInStep ==
    LET ahead == NoncesOf(up)
    IN  serverUp => /\ ahead = Bytes(serverIn, Len(ahead))
                    /\ kind.sealed => serverIn + Len(ahead) = outCount

\* No nonce seals two chunks, to the end of the 16-bit counter and past it.
NoncesFresh == IsInjective(used)

\* Whatever frames the stream is cut into, with pings between them, and however
\* the response header and the first payload share a frame: the client gets the
\* server's bytes in order, no byte of header, ping or size among them, and the
\* reads fail for the stream's end alone, or for a counter that is out.
DownInOrder ==
    /\ delivered = Bytes(1, Len(delivered)) /\ Len(delivered) <= replied
    /\ phase = "failed" => streamEnd # "no" \/ inCount = CountLimit

\* An end that the protocol announces, vmess's empty chunk or a close frame, is
\* seen when all before it has been passed on, and not earlier.
EndsComplete ==
    phase = "ended" /\ (kind.ws \/ kind.sealed) => Len(delivered) = replied

=============================================================================
