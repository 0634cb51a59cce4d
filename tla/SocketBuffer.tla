---------------------------- MODULE SocketBuffer ----------------------------
(***************************************************************************)
(* lib/core/transports.js: the SocketBuffer that owns the bytes an         *)
(* upstream socket delivers, and the one task that reads them: first the   *)
(* exact reads of a handshake (socks5Connect, httpConnect), then the       *)
(* rawFace generator that pumpInto (lib/core/proxy-server.js) writes to    *)
(* the client.                                                             *)
(*                                                                         *)
(* A byte is its position in the stream.  The task awaits every read       *)
(* before the next, so #waiters holds one waiter at most: it does exactly  *)
(* when the task is at "await".  Socket events are delivered only while    *)
(* the task awaits something, since its continuation runs before the event *)
(* loop turns.                                                             *)
(***************************************************************************)
EXTENDS Naturals, Sequences

CONSTANTS
    Handshake,   \* the handshake's reads: [count, sends]; sends: it writes first
    ChunkSizes,  \* the sizes of "data" events
    MaxBytes     \* bound on the bytes that arrive

ASSUME HandshakeAssumption ==
    Handshake \in Seq([count : Nat, sends : BOOLEAN])
ASSUME ChunkAssumption == ChunkSizes \subseteq Nat \ {0}
ASSUME BoundAssumption == MaxBytes \in Nat

VARIABLES
    arrived,   \* bytes "data" events have delivered
    buffer,    \* #buffer
    ended,     \* #ended
    errored,   \* #error # null
    step,      \* the read the task is at; past Handshake, the relay's readAny
    task,      \* what the task awaits, or how it finished
    taken,     \* the bytes reads have resolved with
    written,   \* the bytes pumpInto wrote to the client
    client,    \* the client's socket
    destroyed  \* the face was closed: socket.destroy()

vars == <<arrived, buffer, ended, errored, step, task, taken, written, client, destroyed>>

Relaying == step > Len(Handshake)

\* The bytes the first k reads of the handshake take.
HandshakeBytes[k \in 0 .. Len(Handshake)] ==
    IF k = 0 THEN 0 ELSE HandshakeBytes[k - 1] + Handshake[k].count

\* The waiter of the read at step is satisfied by buf.
Satisfied(buf) ==
    IF Relaying THEN Len(buf) > 0 ELSE Len(buf) >= Handshake[step].count

\* What it is resolved with: all that is buffered, or exactly count bytes.
Share(buf) == IF Relaying THEN Len(buf) ELSE Handshake[step].count

\* What a read that fails leaves: pumpInto's catch destroys the client, whose
\* "close" closes the face.
Fail ==
    /\ task' = "failed"
    /\ client' = IF Relaying THEN "gone" ELSE client
    /\ destroyed' = (destroyed \/ Relaying)

\* The reads are over: pumpInto ends a client that is not destroyed.
Finish ==
    /\ task' = "done"
    /\ client' = IF client = "open" THEN "ended" ELSE client
    /\ UNCHANGED destroyed

-----------------------------------------------------------------------------

TypeOK ==
    /\ arrived \in Nat
    /\ buffer \in Seq(Nat) /\ taken \in Seq(Nat) /\ written \in Seq(Nat)
    /\ ended \in BOOLEAN /\ errored \in BOOLEAN
    /\ step \in 1 .. (Len(Handshake) + 1)
    /\ task \in {"run", "write", "await", "drain", "done", "failed"}
    /\ client \in {"open", "ended", "gone"}
    /\ destroyed \in BOOLEAN

\* The socket is connected and its SocketBuffer constructed.
Init ==
    /\ arrived = 0 /\ buffer = <<>> /\ taken = <<>> /\ written = <<>>
    /\ ended = FALSE /\ errored = FALSE /\ step = 1
    /\ task = IF Handshake # <<>> /\ Handshake[1].sends THEN "write" ELSE "run"
    /\ client = "open" /\ destroyed = FALSE

\* Mutant: the reads of the relay are counted as the handshake's are.
GoesOnCounting(chunk) ==
    /\ step' = step + 1
    /\ task' = "run"
    /\ written' = IF Relaying THEN written \o chunk ELSE written

\* Mutant: what the handshake reads is relayed too.
GoesOnRelaying(chunk) ==
    /\ step' = IF Relaying THEN step ELSE step + 1
    /\ task' = "run"
    /\ written' = written \o chunk

\* The task goes on with what a read resolved with.  In the handshake it may
\* write before its next read.  In the relay pumpInto returns if the client is
\* destroyed, and else writes the chunk, and awaits "drain" if the client's
\* buffer is full.
GoesOn(chunk) ==
    \/ /\ ~Relaying
       /\ step' = step + 1
       /\ task' = IF step < Len(Handshake) /\ Handshake[step + 1].sends
                  THEN "write" ELSE "run"
       /\ UNCHANGED written
    \/ /\ Relaying /\ client = "gone"
       /\ task' = "done"
       /\ UNCHANGED <<step, written>>
    \/ /\ Relaying /\ client # "gone"
       /\ written' = written \o chunk
       /\ task' \in {"run", "drain"}
       /\ UNCHANGED step

\* Mutant: what a read does not take is dropped with the chunk.
ResolveDropsRest(buf) ==
    LET share == SubSeq(buf, 1, Share(buf))
    IN  /\ taken' = taken \o share
        /\ buffer' = <<>>
        /\ GoesOn(share)
        /\ UNCHANGED <<ended, errored, client, destroyed>>

\* #flush's body for a satisfied waiter.
Resolve(buf) ==
    LET share == SubSeq(buf, 1, Share(buf))
    IN  /\ taken' = taken \o share
        /\ buffer' = SubSeq(buf, Share(buf) + 1, Len(buf))
        /\ GoesOn(share)
        /\ UNCHANGED <<ended, errored, client, destroyed>>

\* read(count) rejects and readAny() resolves with null on a buffer that ended.
AfterEnd == IF Relaying THEN Finish ELSE Fail

\* Mutant: a read waits for the next chunk whatever is buffered.
ReadAlwaysWaits ==
    /\ task = "run"
    /\ \/ /\ ended /\ AfterEnd
          /\ UNCHANGED <<arrived, buffer, ended, errored, step, taken, written>>
       \/ /\ ~ended
          /\ task' = "await"
          /\ UNCHANGED <<arrived, buffer, ended, errored, step, taken, written, client, destroyed>>

\* The task calls read(count) or readAny().
Read ==
    /\ task = "run"
    /\ \/ /\ ended /\ AfterEnd
          /\ UNCHANGED <<arrived, buffer, ended, errored, step, taken, written>>
       \/ ~ended /\ Satisfied(buffer) /\ Resolve(buffer) /\ UNCHANGED arrived
       \/ /\ ~ended /\ ~Satisfied(buffer)
          /\ task' = "await"
          /\ UNCHANGED <<arrived, buffer, ended, errored, step, taken, written, client, destroyed>>

\* A promise of the task settles: socketWrite's at once or with "drain", which a
\* socket that has closed does not emit; or the client's "drain".
Written ==
    /\ task = "write" /\ ~ended
    /\ task' = "run"
    /\ UNCHANGED <<arrived, buffer, ended, errored, step, taken, written, client, destroyed>>

\* Mutant: the pump is not woken by "drain".
DrainIgnored ==
    /\ task = "drain" /\ client = "open" /\ ended
    /\ task' = "run"
    /\ UNCHANGED <<arrived, buffer, ended, errored, step, taken, written, client, destroyed>>

Drain ==
    /\ task = "drain" /\ client = "open"
    /\ task' = "run"
    /\ UNCHANGED <<arrived, buffer, ended, errored, step, taken, written, client, destroyed>>

\* The upstream's answer is not what the handshake expects: it throws, and the
\* socket stays as it is.
Refuse ==
    /\ task \in {"write", "run"} /\ step > 1
    /\ Relaying => Len(taken) = HandshakeBytes[Len(Handshake)]
    /\ task' = "failed"
    /\ UNCHANGED <<arrived, buffer, ended, errored, step, taken, written, client, destroyed>>

-----------------------------------------------------------------------------
(* Socket events.                                                          *)

EventLoop == task # "run"

\* "data": the chunk is appended, and the waiter served if that satisfies it.
Data(size) ==
    /\ EventLoop /\ ~ended /\ ~errored /\ ~destroyed
    /\ arrived + size <= MaxBytes
    /\ arrived' = arrived + size
    /\ LET filled == buffer \o [i \in 1 .. size |-> arrived + i]
       IN  \/ task = "await" /\ Satisfied(filled) /\ Resolve(filled)
           \/ /\ ~(task = "await" /\ Satisfied(filled))
              /\ buffer' = filled
              /\ UNCHANGED <<ended, errored, step, task, taken, written, client, destroyed>>

\* Mutant: a waiter is not told of the end.
CloseUnheard ==
    /\ EventLoop /\ ~ended
    /\ ended' = TRUE
    /\ UNCHANGED <<arrived, buffer, errored, step, task, taken, written, client, destroyed>>

\* "close": readAny resolves with null, read(count) rejects.
Close ==
    /\ EventLoop /\ ~ended
    /\ ended' = TRUE
    /\ \/ task = "await" /\ AfterEnd
       \/ task # "await" /\ UNCHANGED <<task, client, destroyed>>
    /\ UNCHANGED <<arrived, buffer, errored, step, taken, written>>

\* "error": the waiter rejects, and so does a socketWrite under way; "close"
\* follows.
Error ==
    /\ EventLoop /\ ~ended /\ ~errored /\ ~destroyed
    /\ errored' = TRUE
    /\ \/ task \in {"await", "write"} /\ Fail
       \/ task \notin {"await", "write"} /\ UNCHANGED <<task, client, destroyed>>
    /\ UNCHANGED <<arrived, buffer, ended, step, taken, written>>

\* The client disconnects.  The relay's listener closes the face; before the
\* relay there is none, and nobody is told.
ClientGone ==
    /\ EventLoop /\ client # "gone"
    /\ client' = "gone"
    /\ destroyed' = (destroyed \/ Relaying)
    /\ UNCHANGED <<arrived, buffer, ended, errored, step, task, taken, written>>

SocketEvent == (\E size \in ChunkSizes : Data(size)) \/ Close \/ Error \/ ClientGone

Next == Read \/ Written \/ Drain \/ Refuse \/ SocketEvent

Spec == Init /\ [][Next]_vars

-----------------------------------------------------------------------------
(* Properties.                                                             *)

Stream(n) == [i \in 1 .. n |-> i]

\* Reads resolve with the stream's bytes, each once and in order, and what no
\* read has taken is still buffered: #flush and the reads that bypass it never
\* drop, repeat or swap a byte, wherever the chunks are cut.
InOrder == taken \o buffer = Stream(arrived)

\* The buffer between "data" events and reads, and the relay between what
\* follows the handshake and the client.
Reads == INSTANCE ByteStream WITH given <- arrived, got <- taken, over <- ended

Relay == INSTANCE ByteStream WITH
    given <- IF arrived < HandshakeBytes[Len(Handshake)] THEN 0
             ELSE arrived - HandshakeBytes[Len(Handshake)],
    got   <- [i \in DOMAIN written |-> written[i] - HandshakeBytes[Len(Handshake)]],
    over  <- client # "open" \/ task \in {"done", "failed"}

\* What the client gets is what follows the handshake: no byte of an upstream
\* reply is relayed, and none of the payload is eaten by the handshake.
RelayStartsAfterHandshake ==
    client = "gone" \/ written = SubSeq(taken, HandshakeBytes[step - 1] + 1, Len(taken))

\* No read waits for bytes that are already there, or on a socket that has
\* closed: whatever order "data", "close", "error" and the calls come in.
NoMissedWakeup == task = "await" => ~ended /\ ~Satisfied(buffer)

\* What the relay has received reaches a client that goes on reading, unless
\* the upstream fails or closes first.
Relayed ==
    LET payload == HandshakeBytes[Len(Handshake)] + Len(written)
    IN  (Relaying /\ payload < arrived)
            ~> payload = arrived \/ ended \/ errored \/ client # "open" \/ task = "failed"

\* transports.js:25-27: "any leftovers stay buffered for the relay phase, so
\* pipelined early data (TLS ClientHello etc.) is never lost".  An upstream
\* that closes in good order has had all it sent written to an open client.
NeverLost ==
    task = "done" /\ client = "ended" /\ ~errored =>
        HandshakeBytes[Len(Handshake)] + Len(written) = arrived

=============================================================================
