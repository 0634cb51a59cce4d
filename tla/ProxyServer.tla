----------------------------- MODULE ProxyServer -----------------------------
(***************************************************************************)
(* lib/core/proxy-server.js: the loopback server and, per inbound          *)
(* connection, the SOCKS5 or HTTP request, the dial, and the relay between *)
(* client and upstream face.                                               *)
(*                                                                         *)
(* An inbound socket flows from its first "data" listener on: a chunk no   *)
(* listener waits for is gone, and a chunk that was unshifted is emitted   *)
(* at the next tick to whoever listens then.  A payload chunk is its       *)
(* number in the client's stream after the request.  The server socket     *)
(* does not allow half-open connections, so a client that sends FIN can    *)
(* no longer be written to: leaving is one event.                          *)
(***************************************************************************)
EXTENDS Naturals, Sequences, SequencesExt

CONSTANTS
    Conns,      \* inbound connections
    MaxChunks,  \* bound on the payload chunks of a client
    MaxDown     \* bound on the chunks of an upstream

ASSUME BoundsAssumption == MaxChunks \in Nat \ {0} /\ MaxDown \in Nat

VARIABLES
    listening,  \* #server # null
    phase,      \* where the handler of a connection is
    form,       \* the kind of request: "socks", "connect" or "absolute"
    client,     \* the client's socket
    left,       \* the phase in which the client left
    face,       \* the upstream face
    sent,       \* the number of payload chunks the client sent
    rest,       \* the chunk that came with a SOCKS5 request
    held,       \* the chunk unshifted into the client's stream
    up,         \* the payload chunks written to the face
    owed,       \* the chunks that came with a SOCKS5 request or in a relay
    log         \* what the client was sent, in order

vars == <<listening, phase, form, client, left, face, sent, rest, held, up, owed, log>>

Phases == {"none", "first", "socks", "head", "dialing", "relay", "forward",
           "answered", "destroyed"}
Forms  == {"socks", "connect", "absolute"}
Words  == {"method", "ok", "refused", "failed", "bad", "data", "fin"}
Chunks == 1 .. MaxChunks

TypeOK ==
    /\ listening \in BOOLEAN
    /\ phase \in [Conns -> Phases]
    /\ form \in [Conns -> Forms \cup {"none"}]
    /\ client \in [Conns -> {"none", "open", "gone"}]
    /\ left \in [Conns -> Phases]
    /\ face \in [Conns -> {"none", "open", "closed"}]
    /\ sent \in [Conns -> 0 .. MaxChunks]
    /\ \A seq \in {rest, held, up} : seq \in [Conns -> Seq(Chunks)]
    /\ owed \in [Conns -> SUBSET Chunks]
    /\ log \in [Conns -> Seq(Words)]

\* start() resolved; no connection yet.
Init ==
    /\ listening = TRUE
    /\ phase = [c \in Conns |-> "none"] /\ left = phase
    /\ form = [c \in Conns |-> "none"] /\ client = form /\ face = form
    /\ sent = [c \in Conns |-> 0]
    /\ rest = [c \in Conns |-> <<>>] /\ held = rest /\ up = rest /\ log = rest
    /\ owed = [c \in Conns |-> {}]

\* Written to the client's socket, if that still takes anything.
Say(c, words) ==
    log' = IF client[c] = "open" THEN [log EXCEPT ![c] = @ \o words] ELSE log

Become(c, p) == phase' = [phase EXCEPT ![c] = p]

\* A tick has passed since the last unshift.
Settled(c) == held[c] = <<>>

-----------------------------------------------------------------------------
(* The server.                                                             *)

Accept(c) ==
    /\ listening /\ client[c] = "none"
    /\ client' = [client EXCEPT ![c] = "open"]
    /\ Become(c, "first")
    /\ UNCHANGED <<listening, form, left, face, sent, rest, held, up, owed, log>>

\* server.close() refuses new connections and keeps the ones there are.
Stop ==
    /\ listening
    /\ listening' = FALSE
    /\ UNCHANGED <<phase, form, client, left, face, sent, rest, held, up, owed, log>>

-----------------------------------------------------------------------------
(* The request.                                                            *)

\* First byte 5: the method is answered.  Without method 0 the client is ended.
SocksGreeting(c) ==
    /\ phase[c] = "first" /\ client[c] = "open"
    /\ \/ Become(c, "socks") /\ Say(c, <<"method">>)
       \/ Become(c, "answered") /\ Say(c, <<"method", "fin">>)
    /\ form' = [form EXCEPT ![c] = "socks"]
    /\ UNCHANGED <<listening, client, left, face, sent, rest, held, up, owed>>

\* The handler threw: #handle's catch destroys the client.
Throw(c) ==
    /\ Become(c, "destroyed")
    /\ client' = [client EXCEPT ![c] = "gone"]
    /\ left' = [left EXCEPT ![c] = phase[c]]

\* A chunk that is not a whole SOCKS5 request: a read past its end throws.
SocksFragment(c) ==
    /\ phase[c] = "socks" /\ client[c] = "open"
    /\ Throw(c)
    /\ UNCHANGED <<listening, form, face, sent, rest, held, up, owed, log>>

\* A chunk with a request the rules or the lack of a node turn down.
SocksTurnedDown(c) ==
    /\ phase[c] = "socks" /\ client[c] = "open"
    /\ Become(c, "answered")
    /\ \E word \in {"refused", "failed"} : Say(c, <<word, "fin">>)
    /\ UNCHANGED <<listening, form, client, left, face, sent, rest, held, up, owed>>

\* Mutant: rest begins inside the request.
SocksDialsOffByOne(c) ==
    /\ phase[c] = "socks" /\ client[c] = "open"
    /\ Become(c, "dialing")
    /\ sent' = [sent EXCEPT ![c] = 1]
    /\ rest' = [rest EXCEPT ![c] = <<0, 1>>]
    /\ owed' = [owed EXCEPT ![c] = {1}]
    /\ UNCHANGED <<listening, form, client, left, face, held, up, log>>

\* A chunk with a request, and maybe payload after it.
SocksDials(c) ==
    /\ phase[c] = "socks" /\ client[c] = "open"
    /\ Become(c, "dialing")
    /\ \/ UNCHANGED <<sent, rest, owed>>
       \/ /\ sent' = [sent EXCEPT ![c] = 1]
          /\ rest' = [rest EXCEPT ![c] = <<1>>]
          /\ owed' = [owed EXCEPT ![c] = {1}]
    /\ UNCHANGED <<listening, form, client, left, face, held, up, log>>

AtHead(c) == phase[c] \in {"first", "head"} /\ client[c] = "open"

\* A chunk without the blank line.
HttpFragment(c) ==
    /\ AtHead(c)
    /\ Become(c, "head")
    /\ UNCHANGED <<listening, form, client, left, face, sent, rest, held, up, owed, log>>

\* No CONNECT with a port and no absolute URL; or one that is turned down.
HttpTurnedDown(c) ==
    /\ AtHead(c)
    /\ Become(c, "answered")
    /\ \E word \in {"bad", "failed"} : Say(c, <<word, "fin">>)
    /\ UNCHANGED <<listening, form, client, left, face, sent, rest, held, up, owed>>

\* A CONNECT without a target.
HttpThrows(c) ==
    /\ AtHead(c)
    /\ Throw(c)
    /\ UNCHANGED <<listening, form, face, sent, rest, held, up, owed, log>>

\* The head is complete; payload that came with it is unshifted at once.
HttpDials(c, request) ==
    /\ AtHead(c)
    /\ Become(c, "dialing")
    /\ form' = [form EXCEPT ![c] = request]
    /\ \/ UNCHANGED <<sent, held>>
       \/ /\ sent' = [sent EXCEPT ![c] = 1]
          /\ held' = [held EXCEPT ![c] = <<1>>]
    /\ UNCHANGED <<listening, client, left, face, rest, up, owed, log>>

-----------------------------------------------------------------------------
(* The dial: connectThrough rejects or resolves.                           *)

DialFails(c) ==
    /\ phase[c] = "dialing" /\ Settled(c)
    /\ Become(c, "answered")
    /\ Say(c, <<"failed", "fin">>)
    /\ UNCHANGED <<listening, form, client, left, face, sent, rest, held, up, owed>>

\* Mutant: the upstream is read before the client is told.
DialOkPumpsFirst(c) ==
    /\ phase[c] = "dialing" /\ Settled(c)
    /\ face' = [face EXCEPT ![c] = "open"]
    /\ Become(c, IF form[c] = "absolute" THEN "forward" ELSE "relay")
    /\ Say(c, IF form[c] = "absolute" THEN <<>> ELSE <<"data", "ok">>)
    /\ held' = [held EXCEPT ![c] = rest[c]]
    /\ rest' = [rest EXCEPT ![c] = <<>>]
    /\ UNCHANGED <<listening, form, client, left, sent, up, owed>>

\* Mutant: rest is forgotten.
DialOkDropsRest(c) ==
    /\ phase[c] = "dialing" /\ Settled(c)
    /\ face' = [face EXCEPT ![c] = "open"]
    /\ Become(c, IF form[c] = "absolute" THEN "forward" ELSE "relay")
    /\ Say(c, IF form[c] = "absolute" THEN <<>> ELSE <<"ok">>)
    /\ UNCHANGED <<listening, form, client, left, sent, rest, held, up, owed>>

\* Tunnels are confirmed, rest is unshifted and the listeners attached in one
\* tick.  An absolute-form request is rewritten, written to the face, and only
\* the way down is pumped.
DialOk(c) ==
    /\ phase[c] = "dialing" /\ Settled(c)
    /\ face' = [face EXCEPT ![c] = "open"]
    /\ Become(c, IF form[c] = "absolute" THEN "forward" ELSE "relay")
    /\ Say(c, IF form[c] = "absolute" THEN <<>> ELSE <<"ok">>)
    /\ held' = [held EXCEPT ![c] = rest[c]]
    /\ rest' = [rest EXCEPT ![c] = <<>>]
    /\ UNCHANGED <<listening, form, client, left, sent, up, owed>>

-----------------------------------------------------------------------------
(* Payload.                                                                *)

\* "data" on the client: the relay's listener writes it to the face.  Without a
\* listener the chunk is gone.
Emit(c, chunks) ==
    up' = IF phase[c] = "relay" /\ face[c] = "open" /\ client[c] = "open"
          THEN [up EXCEPT ![c] = @ \o chunks] ELSE up

\* The tick after an unshift.
Flow(c) ==
    /\ ~Settled(c)
    /\ Emit(c, held[c])
    /\ held' = [held EXCEPT ![c] = <<>>]
    /\ UNCHANGED <<listening, phase, form, client, left, face, sent, rest, owed, log>>

ClientSends(c) ==
    /\ phase[c] \in {"dialing", "relay", "forward"} /\ client[c] = "open" /\ Settled(c)
    /\ sent[c] < MaxChunks
    /\ sent' = [sent EXCEPT ![c] = @ + 1]
    /\ Emit(c, <<sent[c] + 1>>)
    /\ owed' = IF phase[c] = "relay" THEN [owed EXCEPT ![c] = @ \cup {sent[c] + 1}] ELSE owed
    /\ UNCHANGED <<listening, phase, form, client, left, face, rest, held, log>>

Downs(c) == Len(SelectSeq(log[c], LAMBDA word : word = "data"))

\* pumpInto writes a chunk, or returns if the client is destroyed.
FaceSends(c) ==
    /\ face[c] = "open" /\ client[c] = "open" /\ Settled(c)
    /\ Downs(c) < MaxDown
    /\ Say(c, <<"data">>)
    /\ UNCHANGED <<listening, phase, form, client, left, face, sent, rest, held, up, owed>>

\* The upstream closes, and pumpInto ends the client; or fails, and it is
\* destroyed.
FaceEnds(c) ==
    /\ face[c] = "open" /\ Settled(c)
    /\ face' = [face EXCEPT ![c] = "closed"]
    /\ \/ Say(c, <<"fin">>) /\ UNCHANGED <<phase, client, left>>
       \/ client[c] = "open" /\ Throw(c) /\ UNCHANGED log
    /\ UNCHANGED <<listening, form, sent, rest, held, up, owed>>

\* Mutant: the relay closes its face on "error" alone.
ClientLeavesQuietly(c) ==
    /\ client[c] = "open" /\ Settled(c)
    /\ client' = [client EXCEPT ![c] = "gone"]
    /\ left' = [left EXCEPT ![c] = phase[c]]
    /\ UNCHANGED <<listening, phase, form, face, sent, rest, held, up, owed, log>>

\* "end", "close" or "error" on the client: the relay's listeners close the
\* face, and there are none in other phases.
ClientLeaves(c) ==
    /\ client[c] = "open" /\ Settled(c)
    /\ client' = [client EXCEPT ![c] = "gone"]
    /\ left' = [left EXCEPT ![c] = phase[c]]
    /\ face' = IF phase[c] = "relay" THEN [face EXCEPT ![c] = "closed"] ELSE face
    /\ UNCHANGED <<listening, phase, form, sent, rest, held, up, owed, log>>

-----------------------------------------------------------------------------

Next ==
    \/ Stop
    \/ \E c \in Conns :
        \/ Accept(c) \/ SocksGreeting(c) \/ SocksFragment(c)
        \/ SocksTurnedDown(c) \/ SocksDials(c)
        \/ HttpFragment(c) \/ HttpTurnedDown(c) \/ HttpThrows(c)
        \/ \E request \in {"connect", "absolute"} : HttpDials(c, request)
        \/ DialOk(c) \/ DialFails(c)
        \/ Flow(c) \/ ClientSends(c) \/ FaceSends(c) \/ FaceEnds(c) \/ ClientLeaves(c)

Spec == Init /\ [][Next]_vars

-----------------------------------------------------------------------------
(* Properties.                                                             *)

\* An upstream outlives its client in two cases only: the client left before
\* the tunnel was up, or it sent an absolute-form request, whose client nobody
\* watches.  Whatever else happens in between, a tunnel's face is closed.
FacesFollowClients ==
    \A c \in Conns :
        face[c] = "open" /\ client[c] = "gone" =>
            left[c] = "dialing" \/ form[c] = "absolute"

\* The chunks of seq are those of the set, in order and each once.
Carries(seq, chunks) ==
    /\ \A i, j \in DOMAIN seq : i < j => seq[i] < seq[j]
    /\ \A n \in Chunks : n \in chunks <=> \E i \in DOMAIN seq : seq[i] = n

\* What the client sent with a SOCKS5 request and all it sends over a tunnel is
\* written to the face in order, each chunk once: the request's leftover goes
\* first, through the dial, the unshift and the new listener.
TunnelCarries ==
    \A c \in Conns :
        phase[c] = "relay" /\ face[c] = "open" /\ client[c] = "open" =>
            Carries(up[c] \o held[c], owed[c])

Verdicts == {"ok", "refused", "failed", "bad"}

\* The client is told once how its request went, before any byte of the
\* upstream, and is sent nothing of an upstream it was refused.
ToldBeforeData ==
    \A c \in Conns :
        /\ \A i, j \in DOMAIN log[c] : {log[c][i], log[c][j]} \subseteq Verdicts => i = j
        /\ \A i \in DOMAIN log[c] :
              /\ log[c][i] = "data" /\ form[c] # "absolute" => \E j \in 1 .. (i - 1) : log[c][j] = "ok"
              /\ log[c][i] \in Verdicts \ {"ok"} => face[c] = "none"

\* proxy-server.js:8: "HTTP proxy: CONNECT for tunnels, absolute-form GET/POST
\* for plain http": the body of a request that is forwarded is forwarded too.
BodyForwarded ==
    \A c \in Conns :
        phase[c] = "forward" /\ face[c] = "open" => Len(up[c] \o held[c]) = sent[c]

=============================================================================
