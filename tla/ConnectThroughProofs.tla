------------------------- MODULE ConnectThroughProofs -------------------------
(***************************************************************************)
(* Proofs about ConnectThrough, about SocketBuffer, its raw face, and      *)
(* about NativeConnector, its native face, for any handshake, framing,     *)
(* chunk sizes and number of bytes.                                        *)
(*                                                                         *)
(* The argument about SocketBuffer is about one equation: what the reads   *)
(* have taken, followed by what is buffered, is the stream.  "data"        *)
(* extends both sides by the same bytes, and #flush moves the boundary     *)
(* between the two.  That about NativeConnector is about one equation for  *)
(* each direction: what has come out followed by what is in the pipes.     *)
(*                                                                         *)
(* Each face is let run by itself: a step of the composition is a step of  *)
(* one face's module and a stutter of the two others, so what the proofs   *)
(* about the three modules show of a face holds of it behind               *)
(* connectThrough.                                                         *)
(***************************************************************************)
EXTENDS ConnectThrough, StreamLemmas

\* What holds at every step: the types, the stream, and the waiter.
BufferInv == TypeOK /\ InOrder /\ NoMissedWakeup

-----------------------------------------------------------------------------
(* The stream.                                                             *)

\* The bytes of a "data" event extend the stream.
LEMMA StreamGrows ==
    ASSUME NEW a \in Nat, NEW k \in Nat
    PROVE  /\ Stream(a) \in Seq(Nat)
           /\ [i \in 1 .. k |-> a + i] \in Seq(Nat)
           /\ Stream(a) \o [i \in 1 .. k |-> a + i] = Stream(a + k)
<1>1. /\ Upto(a) \in Seq(Nat) /\ After(a, k) \in Seq(Nat)
      /\ Upto(a) \o After(a, k) = Upto(a + k)
    BY UptoGrows
<1> QED
    BY <1>1, Zenon DEF Stream, Upto, After

-----------------------------------------------------------------------------
(* #flush and the continuation of the task.                                *)

LEMMA CountIsNat == ~Relaying /\ TypeOK => Handshake[step].count \in Nat
<1> SUFFICES ASSUME ~Relaying, TypeOK PROVE Handshake[step].count \in Nat
    OBVIOUS
<1>1. Len(Handshake) \in Nat /\ step \in 1 .. Len(Handshake)
    BY HandshakeAssumption DEF Relaying, TypeOK
<1>2. Handshake[step] \in [count : Nat, sends : BOOLEAN]
    BY <1>1, HandshakeAssumption, ElementOfSeq
<1> QED
    BY <1>2

LEMMA ShareFits ==
    ASSUME TypeOK, NEW buf \in Seq(Nat), Satisfied(buf)
    PROVE  Share(buf) \in 0 .. Len(buf)
<1>1. Len(buf) \in Nat
    OBVIOUS
<1>2. CASE Relaying
    BY <1>1, <1>2 DEF Share
<1>3. CASE ~Relaying
  <2>1. Handshake[step].count \in Nat
      BY <1>3, CountIsNat
  <2>2. Len(buf) >= Handshake[step].count
      BY <1>3 DEF Satisfied
  <2> QED
      BY <1>1, <1>3, <2>1, <2>2 DEF Share
<1> QED
    BY <1>2, <1>3

\* What a resolved read leaves: no byte is lost between it and the buffer, and
\* the task is no longer waiting.
LEMMA ResolveKeepsStream ==
    ASSUME TypeOK, NEW buf \in Seq(Nat), Satisfied(buf), Resolve(buf)
    PROVE  /\ taken' \in Seq(Nat) /\ buffer' \in Seq(Nat) /\ written' \in Seq(Nat)
           /\ taken' \o buffer' = taken \o buf
           /\ step' \in 1 .. (Len(Handshake) + 1)
           /\ task' \in {"run", "write", "drain", "done"}
           /\ UNCHANGED <<ended, errored, client, destroyed>>
           /\ Len(taken) <= Len(taken')
<1> DEFINE share == SubSeq(buf, 1, Share(buf))
           rest  == SubSeq(buf, Share(buf) + 1, Len(buf))
<1>1. Share(buf) \in 0 .. Len(buf)
    BY ShareFits
<1>2. share \in Seq(Nat) /\ rest \in Seq(Nat) /\ share \o rest = buf
    BY <1>1, CutInTwo
<1>3. taken' = taken \o share /\ buffer' = rest /\ GoesOn(share)
    BY DEF Resolve
<1> HIDE DEF share, rest
<1>4. taken \in Seq(Nat) /\ written \in Seq(Nat)
    BY DEF TypeOK
<1>5. taken' \in Seq(Nat) /\ buffer' \in Seq(Nat)
    BY <1>2, <1>3, <1>4, ConcatProperties, Zenon
<1>6. taken' \o buffer' = taken \o (share \o rest)
  <2>1. (taken \o share) \o rest = taken \o (share \o rest)
    <3>1. taken \in Seq(Nat) /\ share \in Seq(Nat) /\ rest \in Seq(Nat)
        BY <1>2, <1>4
    <3> QED
        BY <3>1, ConcatNat, ZenonT(60)
  <2> QED
      BY <1>3, <2>1, Zenon
<1>7. written \o share \in Seq(Nat)
    BY <1>2, <1>4, ConcatProperties, Zenon
<1>8. written' \in Seq(Nat)
    BY <1>3, <1>4, <1>7 DEF GoesOn
<1>9. step \in 1 .. (Len(Handshake) + 1) /\ Len(Handshake) \in Nat
    BY HandshakeAssumption DEF TypeOK
<1>10. step' \in 1 .. (Len(Handshake) + 1)
    BY <1>3, <1>9 DEF GoesOn, Relaying
<1>11. task' \in {"run", "write", "drain", "done"}
    BY <1>3 DEF GoesOn
<1>12. UNCHANGED <<ended, errored, client, destroyed>>
    BY DEF Resolve
<1>13. Len(taken) <= Len(taken')
  <2>1. Len(taken \o share) = Len(taken) + Len(share)
      BY <1>2, <1>4, ConcatProperties, Zenon
  <2>2. Len(taken) \in Nat /\ Len(share) \in Nat
      BY <1>2, <1>4, LenProperties
  <2>3. Len(taken') = Len(taken) + Len(share)
      BY <1>3, <2>1, Zenon
  <2> QED
      BY <2>2, <2>3
<1> QED
    BY <1>2, <1>5, <1>6, <1>8, <1>10, <1>11, <1>12, <1>13

\* A read that ends or fails changes neither the stream nor its types.
LEMMA AfterEndFinishes ==
    ASSUME TypeOK, AfterEnd \/ Fail
    PROVE  task' \in {"done", "failed"} /\ client' \in {"open", "ended", "gone"}
           /\ destroyed' \in BOOLEAN
<1>1. client \in {"open", "ended", "gone"} /\ destroyed \in BOOLEAN
    BY DEF TypeOK
<1>2. CASE Fail
  <2>1. task' = "failed" /\ client' = (IF Relaying THEN "gone" ELSE client)
      BY <1>2 DEF Fail
  <2>2. destroyed' \in BOOLEAN
      BY <1>2 DEF Fail
  <2> QED
      BY <1>1, <2>1, <2>2
<1>3. CASE Finish
  <2>1. task' = "done" /\ client' = (IF client = "open" THEN "ended" ELSE client)
      BY <1>3 DEF Finish
  <2>2. destroyed' = destroyed
      BY <1>3 DEF Finish
  <2> QED
      BY <1>1, <2>1, <2>2
<1> QED
    BY <1>2, <1>3 DEF AfterEnd

-----------------------------------------------------------------------------
(* The steps.                                                              *)

\* A step that keeps arrived, buffer, taken and written keeps the stream.
LEMMA StreamUntouched ==
    ASSUME InOrder, UNCHANGED <<arrived, buffer, taken>>
    PROVE  InOrder'
BY DEF InOrder, Stream

\* Serving the waiter, or the read being called, out of what arrived.
LEMMA Serving ==
    ASSUME TypeOK, arrived' \in Nat, errored' = errored,
           NEW buf \in Seq(Nat), Satisfied(buf), Resolve(buf),
           taken \o buf = Stream(arrived')
    PROVE  BufferInv'
<1>1. /\ taken' \in Seq(Nat) /\ buffer' \in Seq(Nat) /\ written' \in Seq(Nat)
      /\ taken' \o buffer' = taken \o buf
      /\ step' \in 1 .. (Len(Handshake) + 1)
      /\ task' \in {"run", "write", "drain", "done"}
      /\ UNCHANGED <<ended, errored, client, destroyed>>
    BY ResolveKeepsStream
<1>2. /\ ended' \in BOOLEAN /\ errored' \in BOOLEAN /\ destroyed' \in BOOLEAN
    BY <1>1, Zenon DEF TypeOK
<1>3. client' \in {"open", "ended", "gone"}
    BY <1>1 DEF TypeOK
<1>4. task' \in {"run", "write", "await", "drain", "done", "failed"} /\ task' # "await"
    BY <1>1
<1>5. TypeOK'
    BY <1>1, <1>2, <1>3, <1>4, Zenon DEF TypeOK
<1>6. InOrder'
    BY <1>1, Zenon DEF InOrder, Stream
<1>7. NoMissedWakeup'
    BY <1>4 DEF NoMissedWakeup
<1> QED
    BY <1>5, <1>6, <1>7 DEF BufferInv

\* A step that leaves the stream and its task not waiting.
LEMMA Leaving ==
    ASSUME BufferInv, UNCHANGED <<arrived, buffer, taken, written, step>>,
           task' \in {"run", "done", "failed"},
           client' \in {"open", "ended", "gone"}, destroyed' \in BOOLEAN,
           ended' \in BOOLEAN, errored' \in BOOLEAN
    PROVE  BufferInv'
<1>1. TypeOK'
  <2>1. /\ arrived' \in Nat /\ buffer' \in Seq(Nat) /\ taken' \in Seq(Nat)
        /\ written' \in Seq(Nat) /\ step' \in 1 .. (Len(Handshake) + 1)
      BY Zenon DEF BufferInv, TypeOK
  <2>2. task' \in {"run", "write", "await", "drain", "done", "failed"}
      OBVIOUS
  <2> QED
      BY <2>1, <2>2, Zenon DEF TypeOK
<1>2. InOrder'
    BY StreamUntouched, Zenon DEF BufferInv
<1>3. NoMissedWakeup'
    BY DEF NoMissedWakeup
<1> QED
    BY <1>1, <1>2, <1>3 DEF BufferInv

\* A step that leaves the stream and the task where they are.
LEMMA Staying ==
    ASSUME BufferInv, UNCHANGED <<arrived, buffer, taken, written, step, task>>,
           task' = "await" => ended' = ended,
           client' \in {"open", "ended", "gone"}, destroyed' \in BOOLEAN,
           ended' \in BOOLEAN, errored' \in BOOLEAN
    PROVE  BufferInv'
<1>1. TypeOK'
    BY Zenon DEF BufferInv, TypeOK
<1>2. InOrder'
    BY StreamUntouched, Zenon DEF BufferInv
<1>3. NoMissedWakeup'
    BY DEF BufferInv, NoMissedWakeup, Satisfied, Relaying
<1> QED
    BY <1>1, <1>2, <1>3 DEF BufferInv

\* "data", whether it wakes the waiter or is only buffered.
LEMMA DataStep ==
    ASSUME BufferInv, NEW size \in ChunkSizes, Data(size)
    PROVE  BufferInv'
<1> DEFINE more   == [i \in 1 .. size |-> arrived + i]
           filled == buffer \o more
<1>1. /\ arrived \in Nat /\ buffer \in Seq(Nat) /\ taken \in Seq(Nat)
      /\ taken \o buffer = Stream(arrived)
    BY DEF BufferInv, TypeOK, InOrder
<1>2. size \in Nat
    BY ChunkAssumption
<1>3. arrived' = arrived + size /\ arrived' \in Nat
    BY <1>1, <1>2 DEF Data
<1>4. more \in Seq(Nat) /\ Stream(arrived) \o more = Stream(arrived')
    BY <1>1, <1>2, <1>3, StreamGrows
<1> HIDE DEF more
<1>5. filled \in Seq(Nat)
    BY <1>1, <1>4, ConcatProperties, Zenon
<1>6. taken \o filled = Stream(arrived')
  <2>1. (taken \o buffer) \o more = taken \o (buffer \o more)
      BY <1>1, <1>4, ConcatNat, ZenonT(60)
  <2> QED
      BY <1>1, <1>4, <2>1, Zenon
<1>7. \/ task = "await" /\ Satisfied(filled) /\ Resolve(filled)
      \/ /\ ~(task = "await" /\ Satisfied(filled))
         /\ buffer' = filled
         /\ UNCHANGED <<ended, errored, step, task, taken, written, client, destroyed>>
    BY DEF Data, more
<1>8. errored' = errored /\ ended = FALSE
  <2>1. ended = FALSE /\ errored = FALSE
      BY Zenon DEF BufferInv, TypeOK, Data
  <2> QED
      BY <1>7, <2>1, Zenon DEF Resolve, Data
<1> HIDE DEF filled
<1>9. CASE task = "await" /\ Satisfied(filled) /\ Resolve(filled)
    BY <1>3, <1>5, <1>6, <1>8, <1>9, Serving, Zenon DEF BufferInv
<1>10. CASE /\ ~(task = "await" /\ Satisfied(filled))
            /\ buffer' = filled
            /\ UNCHANGED <<ended, errored, step, task, taken, written, client, destroyed>>
  <2>1. TypeOK'
      BY <1>3, <1>5, <1>10, Zenon DEF BufferInv, TypeOK
  <2>2. InOrder'
      BY <1>6, <1>10, Zenon DEF InOrder, Stream
  <2>3. NoMissedWakeup'
      BY <1>8, <1>10 DEF NoMissedWakeup, Satisfied, Relaying
  <2> QED
      BY <2>1, <2>2, <2>3 DEF BufferInv
<1> QED
    BY <1>7, <1>9, <1>10

\* read(count) or readAny() is called.
LEMMA ReadStep ==
    ASSUME BufferInv, Read
    PROVE  BufferInv'
<1>1. /\ TypeOK /\ arrived \in Nat /\ buffer \in Seq(Nat)
      /\ taken \o buffer = Stream(arrived)
    BY DEF BufferInv, TypeOK, InOrder
<1>2. CASE ended /\ AfterEnd
           /\ UNCHANGED <<arrived, buffer, ended, errored, step, taken, written>>
  <2>1. task' \in {"done", "failed"} /\ client' \in {"open", "ended", "gone"}
        /\ destroyed' \in BOOLEAN
      BY <1>1, <1>2, AfterEndFinishes, Zenon
  <2>2. ended' \in BOOLEAN /\ errored' \in BOOLEAN
      BY <1>1, <1>2, Zenon DEF TypeOK
  <2>3. task' \in {"run", "done", "failed"}
      BY <2>1
  <2> QED
      BY <1>2, <2>1, <2>2, <2>3, Leaving, Zenon
<1>3. CASE ~ended /\ Satisfied(buffer) /\ Resolve(buffer) /\ UNCHANGED arrived
  <2>1. errored' = errored
      BY <1>3, Zenon DEF Resolve
  <2> QED
      BY <1>1, <1>3, <2>1, Serving, Zenon
<1>4. CASE /\ ~ended /\ ~Satisfied(buffer)
           /\ task' = "await"
           /\ UNCHANGED <<arrived, buffer, ended, errored, step, taken, written, client, destroyed>>
  <2>1. TypeOK'
      BY <1>1, <1>4, Zenon DEF TypeOK
  <2>2. InOrder'
      BY <1>4, StreamUntouched, Zenon DEF BufferInv
  <2>3. NoMissedWakeup'
    <3>1. ~ended'
        BY <1>4, Zenon
    <3>2. ~Satisfied(buffer)'
        BY <1>4 DEF Satisfied, Relaying
    <3> QED
        BY <3>1, <3>2, Zenon DEF NoMissedWakeup
  <2> QED
      BY <2>1, <2>2, <2>3 DEF BufferInv
<1> QED
    BY <1>2, <1>3, <1>4, Zenon DEF Read

\* "close" and "error" wake the waiter, whatever it waits for.
LEMMA EndStep ==
    ASSUME BufferInv, Close \/ Error
    PROVE  BufferInv'
<1>1. TypeOK /\ ended \in BOOLEAN /\ errored \in BOOLEAN /\ destroyed \in BOOLEAN
      /\ client \in {"open", "ended", "gone"}
    BY Zenon DEF BufferInv, TypeOK
<1>2. UNCHANGED <<arrived, buffer, taken, written, step>>
    BY Zenon DEF Close, Error
<1>3. ended' \in BOOLEAN /\ errored' \in BOOLEAN
    BY <1>1, Zenon DEF Close, Error
<1>4. CASE AfterEnd \/ Fail
  <2>1. task' \in {"done", "failed"} /\ client' \in {"open", "ended", "gone"}
        /\ destroyed' \in BOOLEAN
      BY <1>1, <1>4, AfterEndFinishes, Zenon
  <2>2. task' \in {"run", "done", "failed"}
      BY <2>1
  <2> QED
      BY <1>2, <1>3, <2>1, <2>2, Leaving, Zenon
<1>5. CASE task # "await" /\ UNCHANGED <<task, client, destroyed>>
    BY <1>1, <1>2, <1>3, <1>5, Staying, Zenon
<1>6. \/ AfterEnd \/ Fail
      \/ task # "await" /\ UNCHANGED <<task, client, destroyed>>
  <2>1. CASE Close
      BY <2>1, Zenon DEF Close
  <2>2. CASE Error
    <3>1. \/ task \in {"await", "write"} /\ Fail
          \/ task \notin {"await", "write"} /\ UNCHANGED <<task, client, destroyed>>
        BY <2>2, Zenon DEF Error
    <3> QED
        BY <3>1
  <2> QED
      BY <2>1, <2>2
<1> QED
    BY <1>4, <1>5, <1>6, Zenon

\* Steps that do not touch the stream.
LEMMA OtherStep ==
    ASSUME BufferInv, Written \/ Drain \/ Refuse \/ ClientGone \/ UNCHANGED vars
    PROVE  BufferInv'
<1>1. TypeOK /\ ended \in BOOLEAN /\ errored \in BOOLEAN /\ destroyed \in BOOLEAN
      /\ client \in {"open", "ended", "gone"}
    BY Zenon DEF BufferInv, TypeOK
<1>2. CASE Written \/ Drain \/ Refuse
  <2>1. /\ UNCHANGED <<arrived, buffer, ended, errored, step, taken, written, client, destroyed>>
        /\ task' = "run" \/ task' = "failed"
      BY <1>2, Zenon DEF Written, Drain, Refuse
  <2>2. task' \in {"run", "done", "failed"}
      BY <2>1
  <2> QED
      BY <1>1, <2>1, <2>2, Leaving, Zenon
<1>3. CASE ClientGone
  <2>1. /\ UNCHANGED <<arrived, buffer, ended, errored, step, task, taken, written>>
        /\ client' = "gone" /\ destroyed' = (destroyed \/ Relaying)
      BY <1>3, Zenon DEF ClientGone
  <2>2. client' \in {"open", "ended", "gone"}
      BY <2>1
  <2>3. destroyed' \in BOOLEAN
      BY <2>1
  <2> QED
      BY <1>1, <2>1, <2>2, <2>3, Staying, Zenon
<1>4. CASE UNCHANGED vars
    BY <1>1, <1>4, Staying, Zenon DEF vars
<1> QED
    BY <1>2, <1>3, <1>4

-----------------------------------------------------------------------------
(* What holds of SocketBuffer.                                             *)

\* The stream and the waiter are right after every step of every behaviour.
THEOREM BufferInvariance == Spec => []BufferInv
<1>1. Init => BufferInv
  <2> SUFFICES ASSUME Init PROVE BufferInv
      OBVIOUS
  <2>1. /\ arrived = 0 /\ buffer = <<>> /\ taken = <<>> /\ written = <<>>
        /\ step = 1 /\ client = "open" /\ task \in {"write", "run"}
      BY DEF Init
  <2>2. ended \in BOOLEAN /\ errored \in BOOLEAN /\ destroyed \in BOOLEAN
      BY Zenon DEF Init
  <2>3. Len(Handshake) \in Nat
      BY HandshakeAssumption
  <2>4. TypeOK
      BY <2>1, <2>2, <2>3 DEF TypeOK
  <2>5. Stream(0) = <<>> /\ taken \o buffer = <<>>
      BY <2>1 DEF Stream
  <2>6. InOrder
      BY <2>1, <2>5 DEF InOrder
  <2>7. NoMissedWakeup
      BY <2>1 DEF NoMissedWakeup
  <2> QED
      BY <2>4, <2>6, <2>7 DEF BufferInv
<1>2. BufferInv /\ [Next]_vars => BufferInv'
  <2> SUFFICES ASSUME BufferInv, [Next]_vars PROVE BufferInv'
      OBVIOUS
  <2>1. CASE Read
      BY <2>1, ReadStep
  <2>2. CASE \E size \in ChunkSizes : Data(size)
      BY <2>2, DataStep
  <2>3. CASE Close \/ Error
      BY <2>3, EndStep
  <2>4. CASE Written \/ Drain \/ Refuse \/ ClientGone \/ UNCHANGED vars
      BY <2>4, OtherStep
  <2> QED
      BY <2>1, <2>2, <2>3, <2>4, Zenon DEF Next, SocketEvent
<1> QED
    BY <1>1, <1>2, PTL DEF Spec

\* Every field of the buffer and of its task keeps its type.
THEOREM BufferTypeCorrect == Spec => []TypeOK
<1>1. BufferInv => TypeOK
    BY DEF BufferInv
<1> QED
    BY <1>1, BufferInvariance, PTL

\* Reads resolve with the stream's bytes, each once and in order, wherever the
\* chunks are cut: SocketBuffer's #flush and read().
THEOREM BufferInOrder == Spec => []InOrder
<1>1. BufferInv => InOrder
    BY DEF BufferInv
<1> QED
    BY <1>1, BufferInvariance, PTL

\* No read waits for bytes that are there or on a socket that has closed:
\* #flush against the "close" and "error" listeners.
THEOREM BufferNoMissedWakeup == Spec => []NoMissedWakeup
<1>1. BufferInv => NoMissedWakeup
    BY DEF BufferInv
<1> QED
    BY <1>1, BufferInvariance, PTL

-----------------------------------------------------------------------------
(* SocketBuffer implements a stream.                                       *)

\* What every step does to the counts: bytes arrive and are taken, neither
\* goes back, and after the end none is taken.
LEMMA CountsGrow ==
    ASSUME BufferInv, [Next]_vars
    PROVE  /\ arrived <= arrived' /\ Len(taken) <= Len(taken')
           /\ ended => ended' /\ taken' = taken
<1>1. TypeOK /\ arrived \in Nat /\ buffer \in Seq(Nat) /\ taken \in Seq(Nat) /\ Len(taken) \in Nat
    BY LenProperties DEF BufferInv, TypeOK
<1>2. CASE UNCHANGED <<arrived, taken>> /\ (ended => ended')
    BY <1>1, <1>2
<1>3. CASE Read
  <2>1. CASE ended /\ AfterEnd
             /\ UNCHANGED <<arrived, buffer, ended, errored, step, taken, written>>
      BY <1>2, <2>1, Zenon
  <2>2. CASE ~ended /\ Satisfied(buffer) /\ Resolve(buffer) /\ UNCHANGED arrived
    <3>1. Len(taken) <= Len(taken')
        BY <1>1, <2>2, ResolveKeepsStream, Zenon
    <3> QED
        BY <1>1, <2>2, <3>1
  <2>3. CASE /\ ~ended /\ ~Satisfied(buffer)
             /\ task' = "await"
             /\ UNCHANGED <<arrived, buffer, ended, errored, step, taken, written, client, destroyed>>
      BY <1>2, <2>3, Zenon
  <2> QED
      BY <1>3, <2>1, <2>2, <2>3, Zenon DEF Read
<1>4. ASSUME NEW size \in ChunkSizes, Data(size)
      PROVE  /\ arrived <= arrived' /\ Len(taken) <= Len(taken')
             /\ ended => ended' /\ taken' = taken
  <2> DEFINE filled == buffer \o [i \in 1 .. size |-> arrived + i]
  <2>1. ~ended /\ arrived' = arrived + size
      BY <1>4, Zenon DEF Data
  <2>2. size \in Nat /\ arrived <= arrived'
      BY <1>1, <2>1, ChunkAssumption
  <2>3. \/ task = "await" /\ Satisfied(filled) /\ Resolve(filled)
        \/ taken' = taken
      BY <1>4, Zenon DEF Data
  <2>4. [i \in 1 .. size |-> arrived + i] \in Seq(Nat)
      BY <1>1, <2>2, StreamGrows
  <2>5. filled \in Seq(Nat)
      BY <1>1, <2>4, ConcatType, Zenon
  <2> HIDE DEF filled
  <2>6. CASE Satisfied(filled) /\ Resolve(filled)
    <3>1. Len(taken) <= Len(taken')
        BY <1>1, <2>5, <2>6, ResolveKeepsStream, Zenon
    <3> QED
        BY <2>1, <2>2, <3>1
  <2>7. CASE taken' = taken
      BY <1>1, <2>1, <2>2, <2>7
  <2> QED
      BY <2>3, <2>6, <2>7
<1>5. CASE Close \/ Error \/ ClientGone \/ Written \/ Drain \/ Refuse \/ UNCHANGED vars
  <2>1. UNCHANGED <<arrived, taken>>
      BY <1>5, Zenon DEF Close, Error, ClientGone, Written, Drain, Refuse, vars
  <2>2. CASE Close \/ Error
      BY <2>1, <2>2, <1>2, Zenon DEF Close, Error
  <2>3. CASE ClientGone \/ Written \/ Drain \/ Refuse \/ UNCHANGED vars
    <3>1. ended' = ended
        BY <2>3, Zenon DEF ClientGone, Written, Drain, Refuse, vars
    <3> QED
        BY <1>2, <2>1, <3>1
  <2> QED
      BY <1>5, <2>2, <2>3
<1> QED
    BY <1>3, <1>4, <1>5, Zenon DEF Next, SocketEvent

\* transports.js:25: "One SocketBuffer per connection owns all inbound bytes":
\* for its readers it is the stream itself, wherever the chunks are cut.
THEOREM BufferCarriesStream == Spec => Reads!Spec
<1>1. Init => Reads!Init
    BY DEF Init, Reads!Init
<1>2. BufferInv /\ BufferInv' /\ [Next]_vars => [Reads!Next]_<<arrived, taken, ended>>
  <2> SUFFICES ASSUME BufferInv, BufferInv', [Next]_vars PROVE Reads!Next
      OBVIOUS
  <2>1. /\ arrived <= arrived' /\ Len(taken) <= Len(taken')
        /\ ended => ended' /\ taken' = taken
      BY CountsGrow
  <2>2. /\ arrived \in Nat /\ taken \in Seq(Nat) /\ buffer \in Seq(Nat)
        /\ taken \o buffer = Upto(arrived)
      BY DEF BufferInv, TypeOK, InOrder, Stream, Upto
  <2>3. /\ arrived' \in Nat /\ taken' \in Seq(Nat) /\ buffer' \in Seq(Nat)
        /\ taken' \o buffer' = Upto(arrived')
      BY DEF BufferInv, TypeOK, InOrder, Stream, Upto
  <2>4. Len(taken) \in 0 .. arrived /\ taken = Upto(Len(taken))
      BY <2>2, PrefixOfUpto
  <2>5. Len(taken') \in 0 .. arrived' /\ taken' = Upto(Len(taken'))
      BY <2>3, PrefixOfUpto
  <2>6. \E k \in 0 .. arrived' - Len(taken) : taken' = taken \o After(Len(taken), k)
    <3>1. Len(taken) <= Len(taken') /\ Len(taken') <= arrived'
        BY <2>1, <2>3, <2>5
    <3> QED
        BY <2>2, <2>3, <2>4, <2>5, <3>1, StreamStep
  <2>7. Reads!Take
      BY <2>6, Zenon DEF Reads!Take, After
  <2>8. Reads!Put
      BY <2>1, <2>3 DEF Reads!Put
  <2>9. ended \in BOOLEAN /\ ended' \in BOOLEAN
      BY Zenon DEF BufferInv, TypeOK
  <2> QED
      BY <2>1, <2>7, <2>8, <2>9, Zenon DEF Reads!Next, Reads!End
<1> QED
    BY <1>1, <1>2, BufferInvariance, PTL DEF Spec, Reads!Spec

-----------------------------------------------------------------------------
(* Where the relay starts.                                                 *)

LEMMA CountIs == \A k \in 1 .. Len(Handshake) : Handshake[k].count \in Nat
<1>1. \A k \in 1 .. Len(Handshake) : Handshake[k] \in [count : Nat, sends : BOOLEAN]
    BY HandshakeAssumption, ElementOfSeq
<1> QED
    BY <1>1

\* The sums of the first counts of the handshake, up to the nth.
SumsTo(n) ==
    {f \in [0 .. n -> Nat] :
        f[0] = 0 /\ \A k \in 1 .. n : f[k] = f[k - 1] + Handshake[k].count}

LEMMA SumsExist == SumsTo(Len(Handshake)) # {}
<1> DEFINE have == {n \in Nat : n <= Len(Handshake) => SumsTo(n) # {}}
<1>1. 0 \in have
  <2>1. [k \in 0 .. 0 |-> 0] \in SumsTo(0)
      BY DEF SumsTo
  <2> QED
      BY <2>1
<1>2. ASSUME NEW n \in Nat, n \in have PROVE n + 1 \in have
  <2> SUFFICES ASSUME n + 1 <= Len(Handshake) PROVE SumsTo(n + 1) # {}
      OBVIOUS
  <2>1. Len(Handshake) \in Nat
      BY HandshakeAssumption
  <2>2. PICK f \in [0 .. n -> Nat] :
            f[0] = 0 /\ \A k \in 1 .. n : f[k] = f[k - 1] + Handshake[k].count
      BY <1>2, <2>1 DEF SumsTo
  <2> DEFINE g == [k \in 0 .. (n + 1) |-> IF k = n + 1 THEN f[n] + Handshake[n + 1].count ELSE f[k]]
  <2>3. Handshake[n + 1].count \in Nat /\ f[n] \in Nat
      BY <2>1, CountIs
  <2>4. g \in [0 .. (n + 1) -> Nat] /\ g[0] = 0
      BY <2>2, <2>3
  <2>5. \A k \in 1 .. (n + 1) : g[k] = g[k - 1] + Handshake[k].count
    <3> TAKE k \in 1 .. (n + 1)
    <3>1. k - 1 \in 0 .. n /\ k - 1 # n + 1 /\ k \in 0 .. (n + 1)
        OBVIOUS
    <3>2. CASE k = n + 1
        BY <3>1, <3>2
    <3>3. CASE k # n + 1
      <4>1. k \in 1 .. n
          BY <3>3
      <4> QED
          BY <2>2, <3>1, <3>3, <4>1
    <3> QED
        BY <3>2, <3>3
  <2> HIDE DEF g
  <2>6. g \in SumsTo(n + 1)
      BY <2>4, <2>5 DEF SumsTo
  <2> QED
      BY <2>6
<1>3. \A n \in Nat : n \in have
  <2> HIDE DEF have
  <2> QED
      BY <1>1, <1>2, SetInduction
<1> QED
    BY <1>3, HandshakeAssumption

\* HandshakeBytes is what its recursion says.
LEMMA BytesOfHandshake ==
    /\ HandshakeBytes \in [0 .. Len(Handshake) -> Nat]
    /\ HandshakeBytes[0] = 0
    /\ \A k \in 1 .. Len(Handshake) :
          HandshakeBytes[k] = HandshakeBytes[k - 1] + Handshake[k].count
<1> DEFINE last == Len(Handshake)
           body(f) == [k \in 0 .. last |-> IF k = 0 THEN 0 ELSE f[k - 1] + Handshake[k].count]
<1>1. last \in Nat
    BY HandshakeAssumption
<1>2. PICK f \in [0 .. last -> Nat] :
          f[0] = 0 /\ \A k \in 1 .. last : f[k] = f[k - 1] + Handshake[k].count
    BY SumsExist, Zenon DEF SumsTo
<1>3. f = body(f)
  <2>1. \A k \in 0 .. last : f[k] = body(f)[k]
      BY <1>1, <1>2
  <2> QED
      BY <2>1, <1>2
<1>4. HandshakeBytes = CHOOSE h : h = body(h)
    BY Zenon DEF HandshakeBytes
<1>5. HandshakeBytes = body(HandshakeBytes)
    BY <1>3, <1>4, Zenon
<1>6. /\ DOMAIN HandshakeBytes = 0 .. last
      /\ \A k \in 0 .. last : HandshakeBytes[k] =
            IF k = 0 THEN 0 ELSE HandshakeBytes[k - 1] + Handshake[k].count
    BY <1>5, Zenon
<1> DEFINE natural == {k \in Nat : k <= last => HandshakeBytes[k] \in Nat}
<1>7. 0 \in natural
  <2>1. 0 \in 0 .. last
      BY <1>1
  <2>2. HandshakeBytes[0] = 0
      BY <1>6, <2>1, Zenon
  <2> QED
      BY <2>2
<1>8. ASSUME NEW k \in Nat, k \in natural PROVE k + 1 \in natural
  <2> SUFFICES ASSUME k + 1 <= last PROVE HandshakeBytes[k + 1] \in Nat
      OBVIOUS
  <2>1. HandshakeBytes[k] \in Nat /\ Handshake[k + 1].count \in Nat
      BY <1>1, <1>8, CountIs
  <2>2. k + 1 \in 0 .. last /\ k + 1 # 0 /\ (k + 1) - 1 = k
      BY <1>1
  <2> QED
      BY <1>6, <2>1, <2>2
<1>9. \A k \in Nat : k \in natural
  <2> HIDE DEF natural
  <2> QED
      BY <1>7, <1>8, SetInduction
<1>10. \A k \in 0 .. last : HandshakeBytes[k] \in Nat
    BY <1>1, <1>9
<1>11. HandshakeBytes = [k \in 0 .. last |-> HandshakeBytes[k]]
    BY <1>5, Zenon
<1>12. HandshakeBytes \in [0 .. last -> Nat]
    BY <1>10, <1>11, Zenon
<1>13. \A k \in 1 .. last : k \in 0 .. last /\ k # 0
    BY <1>1
<1>14. 0 \in 0 .. last
    BY <1>1
<1> QED
    BY <1>6, <1>12, <1>13, <1>14, Zenon

\* Where the relay stands: the handshake has taken the bytes it counts, what is
\* written follows them, and an open client has been written all that was taken.
RelayPlace ==
    LET h == HandshakeBytes[step - 1]
    IN  /\ ~Relaying => Len(taken) = h
        /\ written = After(h, Len(written))
        /\ h + Len(written) <= Len(taken)
        /\ client # "gone" => h + Len(written) = Len(taken)
        /\ client = "ended" => task = "done"

LEMMA PlaceIsNat ==
    ASSUME TypeOK
    PROVE  /\ Len(Handshake) \in Nat /\ step - 1 \in 0 .. Len(Handshake)
           /\ HandshakeBytes[step - 1] \in Nat
<1>1. Len(Handshake) \in Nat /\ step - 1 \in 0 .. Len(Handshake)
    BY HandshakeAssumption DEF TypeOK
<1> QED
    BY <1>1, BytesOfHandshake, Zenon

\* A step that takes and writes nothing, and ends the client only with the task.
LEMMA PlaceKept ==
    ASSUME RelayPlace, UNCHANGED <<taken, written, step>>,
           client' # "gone" => client # "gone",
           client' = "ended" => task' = "done"
    PROVE  RelayPlace'
BY Zenon DEF RelayPlace, Relaying, After

\* A read of the handshake takes what it counts, and none of it is written.
LEMMA HandshakePlace ==
    ASSUME TypeOK, RelayPlace, task # "done", ~Relaying,
           NEW buf \in Seq(Nat), Satisfied(buf), Resolve(buf)
    PROVE  RelayPlace'
<1> DEFINE h == HandshakeBytes[step - 1]
           c == Handshake[step].count
           share == SubSeq(buf, 1, c)
<1>1. /\ Len(Handshake) \in Nat /\ step \in 1 .. Len(Handshake) /\ h \in Nat /\ c \in Nat
      /\ Len(buf) \in Nat
  <2>1. Len(Handshake) \in Nat /\ h \in Nat
      BY PlaceIsNat, Zenon
  <2>2. step \in 1 .. Len(Handshake)
      BY <2>1 DEF Relaying, TypeOK
  <2>3. c \in Nat
      BY <2>2, CountIs, Zenon
  <2>4. Len(buf) \in Nat
      BY LenProperties
  <2> QED
      BY <2>1, <2>2, <2>3, <2>4
<1>2. HandshakeBytes[step] = h + c
    BY <1>1, BytesOfHandshake, Zenon
<1>3. taken' = taken \o share /\ step' = step + 1 /\ written' = written /\ client' = client
  <2>1. Share(buf) = c
      BY Zenon DEF Share
  <2> QED
      BY <2>1, Zenon DEF Resolve, GoesOn
<1>4. Len(taken) = h /\ written \in Seq(Nat) /\ taken \in Seq(Nat) /\ Len(written) \in Nat
      /\ written = After(h, Len(written)) /\ h + Len(written) <= Len(taken)
      /\ client # "ended"
    BY LenProperties, Zenon DEF RelayPlace, TypeOK
<1>5. Len(buf) >= c
    BY Zenon DEF Satisfied
<1>6. share \in Seq(Nat) /\ Len(share) = c
  <2>1. c \in 0 .. Len(buf)
      BY <1>1, <1>5
  <2> QED
      BY <1>1, <2>1, CutInTwo
<1> HIDE DEF share, h, c
<1>7. Len(taken') = h + c
    BY <1>3, <1>4, <1>6, ConcatProperties, Zenon
<1>8. Len(written) = 0
    BY <1>1, <1>4
<1>9. written' = After(h + c, Len(written'))
  <2>1. written = <<>>
      BY <1>4, <1>8, EmptySeq
  <2>2. After(h + c, 0) = <<>>
      BY DEF After
  <2> QED
      BY <1>3, <1>8, <2>1, <2>2
<1>10. step' - 1 = step
    BY <1>1, <1>3
<1>11. HandshakeBytes[step' - 1] = h + c
    BY <1>2, <1>10, Zenon
<1>12. h + c + Len(written') = Len(taken') /\ h + c + Len(written') <= Len(taken')
    BY <1>1, <1>3, <1>7, <1>8
<1> QED
    BY <1>3, <1>4, <1>7, <1>9, <1>11, <1>12, Zenon DEF RelayPlace

\* The client's count keeps up with the reads'.
LEMMA KeepsUp ==
    ASSUME NEW h \in Nat, NEW k \in Nat,
           Len(written) \in Nat, Len(taken) \in Nat, h + Len(written) = Len(taken),
           Len(written') = Len(written) + k, Len(taken') = Len(taken) + k
    PROVE  h + Len(written') = Len(taken') /\ h + Len(written') <= Len(taken')
OBVIOUS

\* A read of the relay takes what is buffered, and a client that is there is
\* written just that.
LEMMA RelayingPlace ==
    ASSUME TypeOK, RelayPlace, task # "done", Relaying, NEW n \in Nat,
           NEW buf \in Seq(Nat), taken \o buf = Upto(n), Resolve(buf)
    PROVE  RelayPlace'
<1> DEFINE h == HandshakeBytes[step - 1]
<1>1. /\ h \in Nat /\ taken \in Seq(Nat) /\ written \in Seq(Nat)
      /\ Len(written) \in Nat
    BY PlaceIsNat, LenProperties, Zenon DEF TypeOK
<1>2. /\ Len(taken) \in Nat /\ Len(buf) \in Nat /\ buf = After(Len(taken), Len(buf))
    BY <1>1, SuffixOfUpto
<1>3. SubSeq(buf, 1, Len(buf)) = buf
    BY SubSeqFull
<1>4. taken' = taken \o buf /\ GoesOn(buf) /\ client' = client
    BY <1>3, Zenon DEF Resolve, Share
<1>5. /\ written = After(h, Len(written)) /\ h + Len(written) <= Len(taken)
      /\ client # "gone" => h + Len(written) = Len(taken)
      /\ client # "ended"
    BY Zenon DEF RelayPlace
<1> HIDE DEF h
<1>6. Len(taken') = Len(taken) + Len(buf)
    BY <1>1, <1>4, ConcatProperties, Zenon
<1>7. CASE client = "gone" /\ UNCHANGED <<step, written>>
  <2>1. h + Len(written') <= Len(taken')
      BY <1>1, <1>2, <1>5, <1>6, <1>7
  <2>2. h = HandshakeBytes[step' - 1]
      BY <1>7, Zenon DEF h
  <2>3. Relaying' /\ written' = After(h, Len(written'))
      BY <1>5, <1>7, Zenon DEF Relaying
  <2> QED
      BY <1>4, <1>7, <2>1, <2>2, <2>3 DEF RelayPlace
<1>8. CASE client # "gone" /\ written' = written \o buf /\ UNCHANGED step
  <2>1. buf = After(h + Len(written), Len(buf))
      BY <1>2, <1>5, <1>8, Zenon
  <2>2. written' = After(h, Len(written) + Len(buf))
    <3>1. After(h, Len(written)) \o After(h + Len(written), Len(buf))
              = After(h, Len(written) + Len(buf))
        BY <1>1, <1>2, AfterGrows
    <3> QED
        BY <1>5, <1>8, <2>1, <3>1, Zenon
  <2>3. Len(written') = Len(written) + Len(buf)
      BY <1>1, <1>8, ConcatProperties, Zenon
  <2>4. h + Len(written') = Len(taken') /\ h + Len(written') <= Len(taken')
    <3>1. /\ h \in Nat /\ Len(written) \in Nat /\ Len(taken) \in Nat /\ Len(buf) \in Nat
          /\ h + Len(written) = Len(taken)
        BY <1>1, <1>2, <1>5, <1>8, Zenon
    <3> QED
        BY <1>6, <2>3, <3>1, KeepsUp, Zenon
  <2>5. h = HandshakeBytes[step' - 1] /\ Relaying'
      BY <1>8, Zenon DEF h, Relaying
  <2>6. written' = After(h, Len(written'))
      BY <2>2, <2>3, Zenon
  <2> QED
      BY <1>4, <1>5, <2>4, <2>5, <2>6, Zenon DEF RelayPlace
<1> QED
    BY <1>4, <1>7, <1>8, Zenon DEF GoesOn

LEMMA PlaceStep ==
    ASSUME BufferInv, RelayPlace, [Next]_vars
    PROVE  RelayPlace'
<1>1. /\ TypeOK /\ arrived \in Nat /\ buffer \in Seq(Nat)
      /\ taken \o buffer = Upto(arrived)
      /\ task # "done" => client # "ended"
    BY Zenon DEF BufferInv, TypeOK, InOrder, Stream, Upto, RelayPlace
<1>2. ASSUME NEW n \in Nat, NEW buf \in Seq(Nat), taken \o buf = Upto(n), task # "done",
             Satisfied(buf), Resolve(buf)
      PROVE  RelayPlace'
    BY <1>1, <1>2, HandshakePlace, RelayingPlace
<1>3. ASSUME AfterEnd \/ Fail, UNCHANGED <<taken, written, step>>, task # "done"
      PROVE  RelayPlace'
  <2>1. CASE Fail
    <3>1. client' # "gone" => client # "gone"
        BY <2>1, Zenon DEF Fail
    <3>2. client' = "ended" => task' = "done"
        BY <1>1, <1>3, <2>1 DEF Fail
    <3> QED
        BY <1>3, <3>1, <3>2, PlaceKept
  <2>2. CASE Finish
    <3>1. task' = "done" /\ (client' # "gone" => client # "gone")
        BY <2>2 DEF Finish
    <3> QED
        BY <1>3, <3>1, PlaceKept
  <2> QED
      BY <1>3, <2>1, <2>2, Zenon DEF AfterEnd
<1>4. ASSUME UNCHANGED <<taken, written, step>>,
             client' = client \/ client' = "gone", task # "done" \/ task' = task
      PROVE  RelayPlace'
  <2>1. client' # "gone" => client # "gone"
      BY <1>4, Zenon
  <2>2. client' = "ended" => task' = "done"
      BY <1>1, <1>4
  <2> QED
      BY <1>4, <2>1, <2>2, PlaceKept
<1>5. CASE Read
  <2>0. task # "done"
      BY <1>5 DEF Read
  <2>1. CASE AfterEnd /\ UNCHANGED <<taken, written, step>>
      BY <1>3, <2>0, <2>1
  <2>2. CASE Satisfied(buffer) /\ Resolve(buffer)
      BY <1>1, <1>2, <2>0, <2>2, Zenon
  <2>3. CASE UNCHANGED <<taken, written, step, client>>
      BY <1>4, <2>0, <2>3, Zenon
  <2> QED
      BY <1>5, <2>1, <2>2, <2>3, Zenon DEF Read
<1>6. ASSUME NEW size \in ChunkSizes, Data(size) PROVE RelayPlace'
  <2> DEFINE more   == [i \in 1 .. size |-> arrived + i]
             filled == buffer \o more
  <2>1. size \in Nat /\ arrived + size \in Nat
      BY <1>1, ChunkAssumption
  <2>2. more \in Seq(Nat) /\ Stream(arrived) \o more = Stream(arrived + size)
      BY <1>1, <2>1, StreamGrows
  <2>3. \/ task = "await" /\ Satisfied(filled) /\ Resolve(filled)
        \/ UNCHANGED <<taken, written, step, client, task>>
      BY <1>6, Zenon DEF Data
  <2> HIDE DEF more
  <2>4. filled \in Seq(Nat)
      BY <1>1, <2>2, ConcatType, Zenon
  <2>5. taken \o filled = Upto(arrived + size)
    <3>1. (taken \o buffer) \o more = taken \o (buffer \o more)
      <4>1. taken \in Seq(Nat)
          BY <1>1 DEF TypeOK
      <4> QED
          BY <1>1, <2>2, <4>1, ConcatNat, ZenonT(60)
    <3>2. Stream(arrived) = Upto(arrived) /\ Stream(arrived + size) = Upto(arrived + size)
        BY Zenon DEF Stream, Upto
    <3> QED
        BY <1>1, <2>2, <3>1, <3>2, Zenon
  <2> HIDE DEF filled
  <2>6. CASE task = "await" /\ Satisfied(filled) /\ Resolve(filled)
    <3>1. task # "done"
        BY <2>6
    <3> QED
        BY <1>2, <2>1, <2>4, <2>5, <2>6, <3>1, Zenon
  <2>7. CASE UNCHANGED <<taken, written, step, client, task>>
      BY <1>4, <2>7, Zenon
  <2> QED
      BY <2>3, <2>6, <2>7, Zenon
<1>7. CASE Close \/ Error
  <2>1. UNCHANGED <<taken, written, step>>
      BY <1>7, Zenon DEF Close, Error
  <2>2. \/ (AfterEnd \/ Fail) /\ task \in {"await", "write"}
        \/ UNCHANGED <<task, client>>
    <3>1. CASE Close
      <4>1. (task = "await" /\ AfterEnd) \/ UNCHANGED <<task, client>>
          BY <3>1, Zenon DEF Close
      <4> QED
          BY <4>1
    <3>2. CASE Error
        BY <3>2, Zenon DEF Error
    <3> QED
        BY <1>7, <3>1, <3>2
  <2>3. CASE (AfterEnd \/ Fail) /\ task \in {"await", "write"}
    <3>1. task # "done"
        BY <2>3
    <3> QED
        BY <1>3, <2>1, <2>3, <3>1, Zenon
  <2>4. CASE UNCHANGED <<task, client>>
      BY <1>4, <2>1, <2>4, Zenon
  <2> QED
      BY <2>2, <2>3, <2>4, Zenon
<1>8. CASE Written \/ Drain \/ Refuse
  <2>1. UNCHANGED <<taken, written, step, client>>
      BY <1>8, Zenon DEF Written, Drain, Refuse
  <2>2. task # "done"
      BY <1>8 DEF Written, Drain, Refuse
  <2> QED
      BY <1>4, <2>1, <2>2, Zenon
<1>9. CASE ClientGone \/ UNCHANGED vars
  <2>1. UNCHANGED <<taken, written, step, task>> /\ (client' = client \/ client' = "gone")
      BY <1>9, Zenon DEF ClientGone, vars
  <2> QED
      BY <1>4, <2>1, Zenon
<1> QED
    BY <1>5, <1>6, <1>7, <1>8, <1>9, Zenon DEF Next, SocketEvent

THEOREM RelayPlaced == Spec => []RelayPlace
<1>1. Init => RelayPlace
  <2> SUFFICES ASSUME Init PROVE RelayPlace
      OBVIOUS
  <2>1. HandshakeBytes[step - 1] = 0
    <3>1. step - 1 = 0
        BY DEF Init
    <3> QED
        BY <3>1, BytesOfHandshake, Zenon
  <2>2. taken = <<>> /\ written = <<>> /\ client = "open" /\ After(0, 0) = <<>>
      BY DEF Init, After
  <2> QED
      BY <2>1, <2>2 DEF RelayPlace
<1>2. BufferInv /\ RelayPlace /\ [Next]_vars => RelayPlace'
    BY PlaceStep
<1> QED
    BY <1>1, <1>2, BufferInvariance, PTL DEF Spec

\* What the client gets is what follows the handshake, for any handshake: no byte
\* of an upstream reply is relayed and none of the payload is eaten, however the
\* replies and the payload share chunks (SocketBuffer.read against rawFace).
THEOREM RelayStarts == Spec => []RelayStartsAfterHandshake
<1>1. BufferInv /\ RelayPlace => RelayStartsAfterHandshake
  <2> SUFFICES ASSUME BufferInv, RelayPlace, client # "gone"
               PROVE  written = SubSeq(taken, HandshakeBytes[step - 1] + 1, Len(taken))
      BY Zenon DEF RelayStartsAfterHandshake
  <2> DEFINE h == HandshakeBytes[step - 1]
  <2>1. h \in Nat /\ taken \in Seq(Nat) /\ Len(written) \in Nat
      BY PlaceIsNat, LenProperties, Zenon DEF BufferInv, TypeOK
  <2>2. written = After(h, Len(written)) /\ Len(taken) = h + Len(written)
      BY Zenon DEF RelayPlace
  <2>3. taken = Upto(Len(taken))
      BY PrefixOfUpto, Zenon DEF BufferInv, TypeOK, InOrder, Stream, Upto
  <2> HIDE DEF h
  <2>4. SubSeq(Upto(h + Len(written)), h + 1, h + Len(written)) = After(h, Len(written))
      BY <2>1, RestOfUpto
  <2>5. SubSeq(taken, h + 1, Len(taken)) = written
      BY <2>2, <2>3, <2>4, Zenon
  <2> QED
      BY <2>5, Zenon DEF h
<1> QED
    BY <1>1, BufferInvariance, RelayPlaced, PTL

-----------------------------------------------------------------------------
(* The relay implements a stream.                                          *)

\* What Relay puts for its variables.
RelayGiven == IF arrived < HandshakeBytes[Len(Handshake)] THEN 0
              ELSE arrived - HandshakeBytes[Len(Handshake)]
RelayGot   == [i \in DOMAIN written |-> written[i] - HandshakeBytes[Len(Handshake)]]
RelayOver  == client # "open" \/ task \in {"done", "failed"}

\* What is written, counted from the end of the handshake, is a stream.
RelayStream ==
    /\ RelayGiven \in Nat /\ RelayGot \in Seq(Nat)
    /\ Len(RelayGot) = Len(written) /\ RelayGot = Upto(Len(RelayGot))
    /\ Len(RelayGot) <= RelayGiven

LEMMA RelayGotStream ==
    ASSUME BufferInv, RelayPlace
    PROVE  RelayStream
<1> DEFINE H == HandshakeBytes[Len(Handshake)]
           h == HandshakeBytes[step - 1]
           w == Len(written)
<1>1. /\ Len(Handshake) \in Nat /\ step \in 1 .. (Len(Handshake) + 1)
      /\ H \in Nat /\ h \in Nat /\ w \in Nat /\ arrived \in Nat
      /\ written \in Seq(Nat) /\ Len(taken) \in Nat
  <2>1. /\ Len(Handshake) \in Nat /\ step \in 1 .. (Len(Handshake) + 1)
      BY HandshakeAssumption DEF BufferInv, TypeOK
  <2>2. H \in Nat /\ h \in Nat
    <3>1. Len(Handshake) \in 0 .. Len(Handshake)
        BY <2>1
    <3> QED
        BY <3>1, BytesOfHandshake, PlaceIsNat, Zenon DEF BufferInv
  <2>3. written \in Seq(Nat) /\ taken \in Seq(Nat) /\ arrived \in Nat
      BY Zenon DEF BufferInv, TypeOK
  <2> QED
      BY <2>1, <2>2, <2>3, LenProperties
<1>2. Len(taken) <= arrived
  <2>1. Len(taken) \in 0 .. arrived
      BY PrefixOfUpto, Zenon DEF BufferInv, TypeOK, InOrder, Stream, Upto
  <2> QED
      BY <1>1, <2>1
<1>3. /\ written = After(h, w) /\ h + w <= Len(taken) /\ (~Relaying => Len(taken) = h)
    BY Zenon DEF RelayPlace
<1>4. CASE Relaying
  <2>1. step - 1 = Len(Handshake)
      BY <1>1, <1>4 DEF Relaying
  <2>2. h = H
      BY <2>1, Zenon
  <2> HIDE DEF h, H, w
  <2>3. DOMAIN written = 1 .. w /\ \A i \in 1 .. w : written[i] = H + i
      BY <1>1, <1>3, <2>2 DEF After
  <2>4. [i \in DOMAIN written |-> written[i] - H] = Upto(w)
    <3>1. \A i \in 1 .. w : written[i] - H = i
        BY <1>1, <2>3
    <3> QED
        BY <2>3, <3>1, Zenon DEF Upto
  <2>5. RelayGot = Upto(w)
      BY <2>4, Zenon DEF RelayGot, H
  <2>6. ~(arrived < H) /\ arrived - H \in Nat /\ w <= arrived - H
      BY <1>1, <1>2, <1>3, <2>2
  <2>7. RelayGiven = arrived - H
      BY <2>6, Zenon DEF RelayGiven, H
  <2>8. Upto(w) \in Seq(Nat) /\ Len(Upto(w)) = w
      BY <1>1, UptoGrows
  <2> QED
      BY <2>5, <2>6, <2>7, <2>8, Zenon DEF RelayStream, w
<1>5. CASE ~Relaying
  <2> HIDE DEF h, w, H
  <2>1. w = 0
      BY <1>1, <1>3, <1>5
  <2>2. written = <<>>
      BY <1>1, <2>1, EmptySeq DEF w
  <2>3. RelayGot = <<>>
      BY <2>2 DEF RelayGot
  <2>4. <<>> = Upto(0) /\ Len(<<>>) = 0 /\ <<>> \in Seq(Nat)
      BY DEF Upto
  <2>5. RelayGiven \in Nat /\ 0 <= RelayGiven
      BY <1>1 DEF RelayGiven, H
  <2> QED
      BY <2>2, <2>3, <2>4, <2>5 DEF RelayStream
<1> QED
    BY <1>4, <1>5

\* Nothing that was written is taken back, and nothing is written once the relay
\* is over, which it stays.
LEMMA WritesGrow ==
    ASSUME BufferInv, RelayPlace, [Next]_vars
    PROVE  /\ Len(written) <= Len(written')
           /\ RelayOver => RelayOver' /\ written' = written
<1>1. /\ TypeOK /\ buffer \in Seq(Nat) /\ written \in Seq(Nat) /\ Len(written) \in Nat
      /\ client = "ended" => task = "done"
      /\ client \in {"open", "ended", "gone"}
    BY LenProperties, Zenon DEF BufferInv, TypeOK, RelayPlace
<1>2. ASSUME NEW buf \in Seq(Nat), Satisfied(buf), Resolve(buf), task \in {"run", "await"}
      PROVE  /\ Len(written) <= Len(written')
             /\ RelayOver => RelayOver' /\ written' = written
  <2> DEFINE share == SubSeq(buf, 1, Share(buf))
  <2>1. GoesOn(share) /\ client' = client
      BY <1>2, Zenon DEF Resolve
  <2>2. share \in Seq(Nat)
      BY <1>1, <1>2, ShareFits, CutInTwo
  <2> HIDE DEF share
  <2>3. CASE written' = written /\ client = "gone"
      BY <1>1, <2>1, <2>3 DEF RelayOver
  <2>4. CASE written' = written /\ client # "gone"
    <3>1. ~RelayOver
        BY <1>1, <1>2, <2>4 DEF RelayOver
    <3> QED
        BY <1>1, <2>4, <3>1
  <2>5. CASE written' = written \o share /\ client # "gone"
    <3>1. Len(written') = Len(written) + Len(share) /\ Len(share) \in Nat
        BY <1>1, <2>2, <2>5, ConcatProperties, LenProperties, Zenon
    <3>2. ~RelayOver
        BY <1>1, <1>2, <2>5 DEF RelayOver
    <3> QED
        BY <1>1, <3>1, <3>2
  <2> QED
      BY <2>1, <2>3, <2>4, <2>5, Zenon DEF GoesOn
<1>3. ASSUME written' = written, client # "open" => client' # "open",
             task \in {"done", "failed"} => task' \in {"done", "failed"}
      PROVE  /\ Len(written) <= Len(written')
             /\ RelayOver => RelayOver' /\ written' = written
    BY <1>1, <1>3 DEF RelayOver
<1>4. ASSUME AfterEnd \/ Fail, written' = written
      PROVE  /\ Len(written) <= Len(written')
             /\ RelayOver => RelayOver' /\ written' = written
  <2>1. task' \in {"done", "failed"}
      BY <1>1, <1>4, AfterEndFinishes, Zenon
  <2> QED
      BY <1>1, <1>4, <2>1 DEF RelayOver
<1>5. CASE Read
  <2>1. task = "run" /\ task \in {"run", "await"} /\ task \notin {"done", "failed"}
      BY <1>5 DEF Read
  <2>2. CASE AfterEnd /\ written' = written
      BY <1>4, <2>2
  <2>3. CASE Satisfied(buffer) /\ Resolve(buffer)
      BY <1>1, <1>2, <2>1, <2>3
  <2>4. CASE UNCHANGED <<written, client>>
      BY <1>3, <2>1, <2>4, Zenon
  <2> QED
      BY <1>5, <2>2, <2>3, <2>4, Zenon DEF Read
<1>6. ASSUME NEW size \in ChunkSizes, Data(size)
      PROVE  /\ Len(written) <= Len(written')
             /\ RelayOver => RelayOver' /\ written' = written
  <2> DEFINE filled == buffer \o [i \in 1 .. size |-> arrived + i]
  <2>1. \/ task = "await" /\ Satisfied(filled) /\ Resolve(filled)
        \/ UNCHANGED <<written, client, task>>
      BY <1>6, Zenon DEF Data
  <2>2. filled \in Seq(Nat)
    <3>1. size \in Nat /\ arrived \in Nat
        BY <1>1, ChunkAssumption DEF TypeOK
    <3>2. [i \in 1 .. size |-> arrived + i] \in Seq(Nat)
        BY <3>1, StreamGrows
    <3> QED
        BY <1>1, <3>2, ConcatType, Zenon
  <2> HIDE DEF filled
  <2>3. CASE task = "await" /\ Satisfied(filled) /\ Resolve(filled)
    <3>1. task \in {"run", "await"}
        BY <2>3
    <3> QED
        BY <1>2, <2>2, <2>3, <3>1, Zenon
  <2>4. CASE UNCHANGED <<written, client, task>>
      BY <1>3, <2>4, Zenon
  <2> QED
      BY <2>1, <2>3, <2>4, Zenon
<1>7. CASE Close \/ Error
  <2>1. written' = written
      BY <1>7, Zenon DEF Close, Error
  <2>2. AfterEnd \/ Fail \/ UNCHANGED <<task, client>>
      BY <1>7, Zenon DEF Close, Error
  <2> QED
      BY <1>3, <1>4, <2>1, <2>2, Zenon
<1>8. CASE Written \/ Drain \/ Refuse
  <2>1. UNCHANGED <<written, client>> /\ task \notin {"done", "failed"}
      BY <1>8 DEF Written, Drain, Refuse
  <2> QED
      BY <1>3, <2>1, Zenon
<1>9. CASE ClientGone \/ UNCHANGED vars
  <2>1. /\ UNCHANGED <<written, task>>
        /\ client # "open" => client' # "open"
      BY <1>9 DEF ClientGone, vars
  <2> QED
      BY <1>3, <2>1, Zenon
<1> QED
    BY <1>5, <1>6, <1>7, <1>8, <1>9, Zenon DEF Next, SocketEvent

\* transports.js:22-24: what follows the handshake reaches the client as a stream,
\* until the relay is over: rawFace's reads and the writes of pumpInto.
THEOREM RelayCarriesStream == Spec => Relay!Spec
<1>1. Init => Relay!Init
  <2> SUFFICES ASSUME Init PROVE Relay!Init
      OBVIOUS
  <2>1. HandshakeBytes[Len(Handshake)] \in Nat
    <3>1. Len(Handshake) \in 0 .. Len(Handshake)
        BY HandshakeAssumption
    <3> QED
        BY <3>1, BytesOfHandshake, Zenon
  <2>2. RelayGiven = 0
      BY <2>1 DEF Init, RelayGiven
  <2>3. RelayGot = <<>>
      BY DEF Init, RelayGot
  <2>4. RelayOver = FALSE
      BY DEF Init, RelayOver
  <2> QED
      BY <2>2, <2>3, <2>4, Zenon DEF Relay!Init, RelayGiven, RelayGot, RelayOver
<1>2. BufferInv /\ RelayPlace => RelayStream
    BY RelayGotStream
<1>3. /\ BufferInv /\ RelayPlace /\ BufferInv' /\ RelayStream /\ RelayStream' /\ [Next]_vars
      => [Relay!Next]_<<RelayGiven, RelayGot, RelayOver>>
  <2> SUFFICES ASSUME BufferInv, RelayPlace, BufferInv', RelayStream, RelayStream', [Next]_vars
               PROVE  Relay!Next
      OBVIOUS
  <2>1. /\ RelayGiven \in Nat /\ RelayGot \in Seq(Nat)
        /\ Len(RelayGot) = Len(written) /\ RelayGot = Upto(Len(RelayGot))
      BY Zenon DEF RelayStream
  <2>2. /\ RelayGiven' \in Nat /\ RelayGot' \in Seq(Nat)
        /\ Len(RelayGot') = Len(written') /\ RelayGot' = Upto(Len(RelayGot'))
        /\ Len(RelayGot') <= RelayGiven'
      BY Zenon DEF RelayStream, Upto
  <2>3. /\ Len(written) <= Len(written')
        /\ RelayOver => RelayOver' /\ written' = written
      BY WritesGrow
  <2>4. RelayGiven' >= RelayGiven
    <3>1. arrived <= arrived' /\ arrived \in Nat /\ arrived' \in Nat
        BY CountsGrow DEF BufferInv, TypeOK
    <3>2. HandshakeBytes[Len(Handshake)] \in Nat
      <4>1. Len(Handshake) \in 0 .. Len(Handshake)
          BY HandshakeAssumption
      <4> QED
          BY <4>1, BytesOfHandshake, Zenon
    <3> QED
        BY <3>1, <3>2 DEF RelayGiven
  <2>5. \E k \in 0 .. RelayGiven' - Len(RelayGot) :
            RelayGot' = RelayGot \o After(Len(RelayGot), k)
    <3>1. Len(RelayGot) <= Len(RelayGot')
        BY <2>1, <2>2, <2>3, Zenon
    <3> QED
        BY <2>1, <2>2, <3>1, StreamStep
  <2>6. Relay!Take
      BY <2>5, Zenon DEF Relay!Take, RelayGiven, RelayGot, After
  <2>7. Relay!Put
      BY <2>2, <2>4, Zenon DEF Relay!Put, RelayGiven
  <2>8. RelayOver => RelayOver' /\ RelayGot' = RelayGot
      BY <2>3, Zenon DEF RelayGot
  <2> QED
      BY <2>6, <2>7, <2>8, Zenon DEF Relay!Next, Relay!End, RelayOver, RelayGot
<1> QED
    BY <1>1, <1>2, <1>3, BufferInvariance, RelayPlaced, PTL
        DEF Spec, Relay!Spec, RelayGiven, RelayGot, RelayOver

-----------------------------------------------------------------------------
(* The native connector.  Upwards, what the target got followed by what    *)
(* waits in stdin is what the face was given, until the server closes or   *)
(* the child dies.  Downwards, what the face yielded, what stdout holds    *)
(* and what the child has not read, less the response header, is what the  *)
(* target said, until the face is closed.                                  *)

\* The response header, while it is on its way.
Front == IF headed /\ ~headRead THEN <<0>> ELSE <<>>

\* p is the payload the child has not read.
Unread(p) ==
    /\ p \in Seq(Nat) /\ inbound = Front \o p
    /\ reading # "destroyed" => relayed \o (stdout \o p) = Upto(said)

NativeUpInv ==
    /\ carried = Upto(Len(carried)) /\ Len(carried) <= offered
    /\ far = "open" /\ ~N!Dead => carried \o stdin = Upto(offered)

NativeDownInv ==
    /\ relayed = Upto(Len(relayed)) /\ Len(relayed) <= said
    /\ headRead => headed
    /\ ~headed => inbound = <<>>
    /\ \E p : Unread(p)

\* How the two processes come to their ends.
NativeEndInv ==
    /\ exited => N!Dead
    /\ child = "done" => ~downCopy
    /\ ~downCopy /\ reading # "destroyed" =>
          far = "broken" \/ (far = "ended" /\ inbound = <<>>)
    /\ reading = "ended" => stdout = <<>> /\ N!Dead

NativeInv == N!TypeOK /\ NativeUpInv /\ NativeDownInv /\ NativeEndInv

-----------------------------------------------------------------------------
(* Types.                                                                  *)

LEMMA RunType ==
    ASSUME NEW a \in Nat, NEW n \in Nat
    PROVE  /\ N!Run(a, n) \in Seq(Nat) /\ Upto(a) \in Seq(Nat)
           /\ Upto(a) \o N!Run(a, n) = Upto(a + n)
BY UptoGrows DEF N!Run, After

LEMMA HeadFirst ==
    ASSUME NEW p \in Seq(Nat)
    PROVE  <<0>> \o p \in Seq(Nat) /\ Tail(<<0>> \o p) = p /\ <<0>> \o p # <<>>
<1>1. <<0>> \in Seq(Nat) /\ Len(<<0>>) = 1
    OBVIOUS
<1>2. /\ <<0>> \o p \in Seq(Nat) /\ Len(<<0>> \o p) = 1 + Len(p)
      /\ \A i \in 1 .. 1 + Len(p) :
            (<<0>> \o p)[i] = IF i <= 1 THEN <<0>>[i] ELSE p[i - 1]
    BY <1>1, ConcatProperties
<1>3. Len(p) \in Nat
    OBVIOUS
<1> DEFINE s == <<0>> \o p
<1>4. s \in Seq(Nat) /\ Len(s) = 1 + Len(p) /\ \A i \in 1 .. Len(p) : s[i + 1] = p[i]
    BY <1>2, <1>3
<1> HIDE DEF s
<1>5. s # <<>>
    BY <1>3, <1>4
<1>6. /\ Tail(s) \in Seq(Nat) /\ Len(Tail(s)) = Len(s) - 1
      /\ \A i \in 1 .. Len(Tail(s)) : Tail(s)[i] = s[i + 1]
    BY <1>4, <1>5, HeadTailProperties
<1>7. Len(Tail(s)) = Len(p)
    BY <1>3, <1>4, <1>6
<1>8. \A i \in 1 .. Len(Tail(s)) : Tail(s)[i] = p[i]
    BY <1>4, <1>6, <1>7
<1>9. Tail(s) = p
    BY <1>6, <1>7, <1>8, SeqEqual, Zenon
<1> QED
    BY <1>4, <1>5, <1>9 DEF s

\* Every step keeps the types: first those of the flags, then the bytes'.
LEMMA NativeFlagsStep ==
    ASSUME N!TypeOK, [N!Next]_(N!vars)
    PROVE  /\ host' \in {"up", "crashed"} /\ child' \in N!Children
           /\ reading' \in {"open", "ended", "destroyed"} /\ far' \in {"open", "ended", "broken"}
           /\ exited' \in BOOLEAN /\ stdinEnd' \in BOOLEAN /\ closed' \in BOOLEAN
           /\ killer' \in BOOLEAN /\ upCopy' \in BOOLEAN /\ downCopy' \in BOOLEAN
           /\ asked' \in BOOLEAN /\ headRead' \in BOOLEAN /\ headed' \in BOOLEAN
<1> DEFINE Flags == /\ host' \in {"up", "crashed"} /\ child' \in N!Children
                    /\ reading' \in {"open", "ended", "destroyed"} /\ far' \in {"open", "ended", "broken"}
                    /\ exited' \in BOOLEAN /\ stdinEnd' \in BOOLEAN /\ closed' \in BOOLEAN
                    /\ killer' \in BOOLEAN /\ upCopy' \in BOOLEAN /\ downCopy' \in BOOLEAN
                    /\ asked' \in BOOLEAN /\ headRead' \in BOOLEAN /\ headed' \in BOOLEAN
<1>0. /\ host \in {"up", "crashed"} /\ child \in N!Children
      /\ reading \in {"open", "ended", "destroyed"} /\ far \in {"open", "ended", "broken"}
      /\ exited \in BOOLEAN /\ stdinEnd \in BOOLEAN /\ closed \in BOOLEAN
      /\ killer \in BOOLEAN /\ upCopy \in BOOLEAN /\ downCopy \in BOOLEAN
      /\ asked \in BOOLEAN /\ headRead \in BOOLEAN /\ headed \in BOOLEAN
    BY DEF N!TypeOK
<1>1. CASE N!Spawn
    BY <1>0, <1>1 DEF N!Spawn, N!Children, N!nodeVars, N!childVars, N!farVars, N!pipes
<1>2. CASE \E n \in 1 .. MaxUp : N!Write(n)
    BY <1>0, <1>2 DEF N!Write, N!Children, N!nodeVars, N!childVars, N!farVars, N!pipes
<1>3. CASE N!StdinError
    BY <1>0, <1>3 DEF N!StdinError, N!Children, N!nodeVars, N!childVars, N!farVars, N!pipes
<1>4. CASE N!Exit
    BY <1>0, <1>4 DEF N!Exit, N!Children, N!nodeVars, N!childVars, N!farVars, N!pipes
<1>5. CASE N!Read
    BY <1>0, <1>5 DEF N!Read, N!Children, N!nodeVars, N!childVars, N!farVars, N!pipes
<1>6. CASE N!Close
    BY <1>0, <1>6 DEF N!Close, N!Children, N!nodeVars, N!childVars, N!farVars, N!pipes
<1>7. CASE N!Kill
    BY <1>0, <1>7, ZenonT(60) DEF N!Kill, N!Dead, N!Children, N!nodeVars, N!childVars,
                          N!farVars, N!pipes
<1>8. CASE N!Dial
    BY <1>0, <1>8 DEF N!Dial, N!Children, N!nodeVars, N!childVars, N!farVars, N!pipes
<1>9. CASE N!CopyUp
    BY <1>0, <1>9, ZenonT(60) DEF N!CopyUp, N!Children, N!nodeVars, N!childVars,
                          N!farVars, N!pipes
<1>10. CASE N!CopyDown
    BY <1>0, <1>10, ZenonT(60) DEF N!CopyDown, N!Children, N!nodeVars, N!childVars,
                           N!farVars, N!pipes
<1>11. CASE N!Leave
    BY <1>0, <1>11 DEF N!Leave, N!Children, N!nodeVars, N!childVars, N!farVars, N!pipes
<1>12. CASE N!Die
    BY <1>0, <1>12 DEF N!Die, N!Children, N!nodeVars, N!childVars, N!farVars, N!pipes
<1>13. CASE \E n \in 0 .. MaxDown : N!FarAnswers(n)
    BY <1>0, <1>13 DEF N!FarAnswers, N!Children, N!nodeVars, N!childVars, N!farVars, N!pipes
<1>14. CASE N!FarEnds
    BY <1>0, <1>14 DEF N!FarEnds, N!Children, N!nodeVars, N!childVars, N!farVars, N!pipes
<1>15. CASE N!FarBreaks
    BY <1>0, <1>15 DEF N!FarBreaks, N!Children, N!nodeVars, N!childVars, N!farVars, N!pipes
<1>16. CASE UNCHANGED N!vars
    BY <1>0, <1>16 DEF N!vars, N!Children, N!nodeVars, N!childVars, N!farVars, N!pipes
<1> QED
    BY <1>1, <1>2, <1>3, <1>4, <1>5, <1>6, <1>7, <1>8, <1>9, <1>10, <1>11, <1>12, <1>13,
       <1>14, <1>15, <1>16, Zenon DEF N!Next, N!Node, N!Child


-----------------------------------------------------------------------------
(* Up.                                                                     *)

LEMMA NativeUpStep ==
    ASSUME NativeInv, [N!Next]_(N!vars), MaxUp \in Nat
    PROVE  /\ carried' \in Seq(Nat) /\ stdin' \in Seq(Nat) /\ offered' \in Nat
           /\ NativeUpInv'
           /\ offered <= offered' /\ Len(carried) <= Len(carried')
           /\ N!Dead => N!Dead' /\ carried' = carried
<1> DEFINE Goal == /\ carried' \in Seq(Nat) /\ stdin' \in Seq(Nat) /\ offered' \in Nat
                   /\ NativeUpInv'
                   /\ offered <= offered' /\ Len(carried) <= Len(carried')
                   /\ N!Dead => N!Dead' /\ carried' = carried
<1>1. /\ carried \in Seq(Nat) /\ stdin \in Seq(Nat) /\ offered \in Nat
      /\ Len(carried) \in Nat /\ <<>> \in Seq(Nat)
    BY LenProperties DEF NativeInv, N!TypeOK
<1>2. /\ carried = Upto(Len(carried)) /\ Len(carried) <= offered
      /\ far = "open" /\ ~N!Dead => carried \o stdin = Upto(offered)
    BY DEF NativeInv, NativeUpInv
<1>3. CASE /\ UNCHANGED <<carried, stdin, offered>>
           /\ (far' = "open" => far = "open") /\ (N!Dead => N!Dead')
    BY <1>1, <1>2, <1>3 DEF NativeUpInv
<1>4. CASE \/ N!Spawn \/ N!StdinError \/ N!Read \/ N!Close \/ N!FarEnds \/ N!FarBreaks
           \/ N!Leave \/ N!Die \/ N!Dial
  <2>1. UNCHANGED <<carried, stdin, offered>>
      BY <1>4, Zenon DEF N!Spawn, N!StdinError, N!Read, N!Close, N!FarEnds, N!FarBreaks,
                         N!Leave, N!Die, N!Dial, N!nodeVars, N!childVars, N!farVars, N!pipes
  <2>2. far' = "open" => far = "open"
      BY <1>4 DEF N!Spawn, N!StdinError, N!Read, N!Close, N!FarEnds, N!FarBreaks, N!Leave,
                  N!Die, N!Dial, N!farVars
  <2>3. N!Dead => N!Dead'
      BY <1>4 DEF N!Spawn, N!StdinError, N!Read, N!Close, N!FarEnds, N!FarBreaks, N!Leave,
                  N!Die, N!Dial, N!Dead, N!childVars
  <2> QED
      BY <1>3, <2>1, <2>2, <2>3
<1>5. CASE N!Kill \/ N!CopyDown \/ (\E n \in 0 .. MaxDown : N!FarAnswers(n)) \/ UNCHANGED N!vars
  <2>1. UNCHANGED <<carried, stdin, offered>>
      BY <1>5, Zenon DEF N!Kill, N!CopyDown, N!FarAnswers, N!vars, N!nodeVars,
                         N!childVars, N!farVars, N!pipes
  <2>2. far' = "open" => far = "open"
      BY <1>5 DEF N!Kill, N!CopyDown, N!FarAnswers, N!vars, N!farVars
  <2>3. N!Dead => N!Dead'
      BY <1>5 DEF N!Kill, N!CopyDown, N!FarAnswers, N!Dead, N!vars, N!childVars
  <2> QED
      BY <1>3, <2>1, <2>2, <2>3
<1>6. ASSUME NEW n \in 1 .. MaxUp, N!Write(n) PROVE Goal
  <2>1. /\ offered' = offered + n /\ n \in Nat /\ carried' = carried
        /\ far' = far /\ child' = child
        /\ stdin' = IF exited THEN stdin ELSE stdin \o N!Run(offered, n)
      BY <1>6 DEF N!Write, N!childVars, N!farVars
  <2>2. N!Run(offered, n) \in Seq(Nat) /\ Upto(offered) \o N!Run(offered, n) = Upto(offered + n)
      BY <1>1, <2>1, RunType
  <2>3. offered' \in Nat /\ offered <= offered' /\ Len(carried) <= offered'
      BY <1>1, <1>2, <2>1
  <2>4. exited => N!Dead
      BY DEF NativeInv, NativeEndInv
  <2>5. N!Dead' <=> N!Dead
      BY <2>1 DEF N!Dead
  <2>6. CASE exited
    <3>1. stdin' = stdin /\ N!Dead'
        BY <2>1, <2>4, <2>5, <2>6
    <3>2. NativeUpInv'
        BY <1>2, <2>1, <2>3, <3>1, Zenon DEF NativeUpInv
    <3>3. Len(carried) <= Len(carried')
        BY <1>1, <2>1
    <3> QED
        BY <1>1, <2>1, <2>3, <3>1, <3>2, <3>3, Zenon
  <2>7. CASE ~exited
    <3>1. stdin' = stdin \o N!Run(offered, n)
        BY <2>1, <2>7
    <3>2. stdin' \in Seq(Nat)
        BY <1>1, <2>2, <3>1, ConcatType
    <3>3. carried \o stdin' = (carried \o stdin) \o N!Run(offered, n)
        BY <1>1, <2>2, <3>1, ConcatNat, ZenonT(60)
    <3>4. far = "open" /\ ~N!Dead => carried \o stdin' = Upto(offered')
        BY <1>2, <2>1, <2>2, <3>3, Zenon
    <3>5. NativeUpInv'
        BY <1>2, <2>1, <2>3, <2>5, <3>4, Zenon DEF NativeUpInv
    <3> QED
        BY <1>1, <2>1, <2>3, <2>5, <3>2, <3>5
  <2> QED
      BY <2>6, <2>7
<1>7. CASE N!Exit
  <2>1. UNCHANGED <<carried, offered, far, child>> /\ stdin' = <<>> /\ N!Dead
      BY <1>7, Zenon DEF N!Exit, N!childVars, N!farVars
  <2>2. N!Dead'
      BY <2>1 DEF N!Dead
  <2> QED
      BY <1>1, <1>2, <2>1, <2>2 DEF NativeUpInv
<1>8. CASE N!CopyUp
  <2>1. ~N!Dead /\ UNCHANGED <<child, far, offered>>
      BY <1>8 DEF N!CopyUp, N!Dead, N!nodeVars
  <2>2. ~N!Dead'
      BY <2>1 DEF N!Dead
  <2>3. CASE far = "open" /\ carried' = carried \o stdin /\ stdin' = <<>>
    <3>1. carried' = Upto(offered)
        BY <1>2, <2>1, <2>3
    <3>2. carried' \in Seq(Nat) /\ Len(carried') = offered
        BY <1>1, <3>1, UptoGrows
    <3>3. carried' \o stdin' = carried'
        BY <2>3, <3>2, ConcatEmpty, Zenon
    <3>4. NativeUpInv'
        BY <1>1, <2>1, <3>1, <3>2, <3>3 DEF NativeUpInv
    <3> QED
        BY <1>1, <1>2, <2>1, <2>3, <3>2, <3>4
  <2>4. CASE far # "open" /\ carried' = carried /\ stdin' = <<>>
      BY <1>1, <1>2, <2>1, <2>4 DEF NativeUpInv
  <2>5. CASE carried' = carried /\ stdin' = stdin
      BY <1>1, <1>2, <2>1, <2>2, <2>5 DEF NativeUpInv
  <2> QED
      BY <1>8, <2>3, <2>4, <2>5, Zenon DEF N!CopyUp
<1> QED
    BY <1>4, <1>5, <1>6, <1>7, <1>8, Zenon DEF N!Next, N!Node, N!Child

-----------------------------------------------------------------------------
(* Down.                                                                   *)

LEMMA FrontType == Front \in Seq(Nat)
BY DEF Front

LEMMA NativeDownStep ==
    ASSUME NativeInv, [N!Next]_(N!vars), MaxDown \in Nat
    PROVE  /\ relayed' \in Seq(Nat) /\ stdout' \in Seq(Nat) /\ inbound' \in Seq(Nat)
           /\ said' \in Nat /\ NativeDownInv'
           /\ said <= said' /\ Len(relayed) <= Len(relayed')
           /\ reading # "open" => reading' # "open" /\ relayed' = relayed
<1> DEFINE Goal == /\ relayed' \in Seq(Nat) /\ stdout' \in Seq(Nat) /\ inbound' \in Seq(Nat)
                   /\ said' \in Nat /\ NativeDownInv'
                   /\ said <= said' /\ Len(relayed) <= Len(relayed')
                   /\ reading # "open" => reading' # "open" /\ relayed' = relayed
<1>1. /\ relayed \in Seq(Nat) /\ stdout \in Seq(Nat) /\ inbound \in Seq(Nat)
      /\ said \in Nat /\ Len(relayed) \in Nat /\ <<>> \in Seq(Nat)
    BY LenProperties DEF NativeInv, N!TypeOK
<1>2. /\ relayed = Upto(Len(relayed)) /\ Len(relayed) <= said
      /\ headRead => headed
      /\ ~headed => inbound = <<>>
    BY DEF NativeInv, NativeDownInv
<1>3. PICK p : Unread(p)
    BY DEF NativeInv, NativeDownInv
<1>4. /\ p \in Seq(Nat) /\ inbound = Front \o p
      /\ reading # "destroyed" => relayed \o (stdout \o p) = Upto(said)
    BY <1>3 DEF Unread
<1>5. CASE /\ UNCHANGED <<relayed, stdout, inbound, headed, headRead, said>>
           /\ reading' # "destroyed" => reading # "destroyed"
           /\ reading # "open" => reading' # "open"
  <2>1. Front' = Front
      BY <1>5 DEF Front
  <2>2. Unread(p)'
      BY <1>4, <1>5, <2>1, Zenon DEF Unread
  <2>3. \E q : Unread(q)'
      BY <2>2
  <2>4. NativeDownInv'
      BY <1>2, <1>5, <2>3, Zenon DEF NativeDownInv
  <2>5. said <= said' /\ Len(relayed) <= Len(relayed')
      BY <1>1, <1>5
  <2> QED
      BY <1>1, <1>5, <2>4, <2>5, Zenon
<1>6. CASE N!Spawn \/ N!StdinError \/ N!Exit \/ N!Close \/ N!Kill
           \/ (\E n \in 1 .. MaxUp : N!Write(n))
  <2>1. UNCHANGED <<relayed, stdout, inbound, headed, headRead, said>>
      BY <1>6, Zenon DEF N!Spawn, N!StdinError, N!Exit, N!Close, N!Kill, N!Write,
                         N!nodeVars, N!childVars, N!farVars, N!pipes
  <2>2. /\ reading' # "destroyed" => reading # "destroyed"
        /\ reading # "open" => reading' # "open"
      BY <1>6 DEF N!Spawn, N!StdinError, N!Exit, N!Close, N!Kill, N!Write
  <2> QED
      BY <1>5, <2>1, <2>2
<1>7. CASE \/ N!Dial \/ N!CopyUp \/ N!Leave \/ N!Die \/ N!FarEnds \/ N!FarBreaks
           \/ UNCHANGED N!vars
  <2>1. UNCHANGED <<relayed, stdout, inbound, headed, headRead, said>>
      BY <1>7, Zenon DEF N!Dial, N!CopyUp, N!Leave, N!Die, N!FarEnds, N!FarBreaks, N!vars,
                         N!nodeVars, N!childVars, N!farVars, N!pipes
  <2>2. reading' = reading
      BY <1>7, Zenon DEF N!Dial, N!CopyUp, N!Leave, N!Die, N!FarEnds, N!FarBreaks,
                         N!vars, N!nodeVars
  <2> QED
      BY <1>5, <2>1, <2>2
<1>8. CASE N!Read
  <2>1. CASE stdout = <<>> /\ N!Dead /\ reading' = "ended" /\ UNCHANGED <<relayed, stdout>>
    <3>1. UNCHANGED <<relayed, stdout, inbound, headed, headRead, said>>
        BY <1>8, <2>1, Zenon DEF N!Read, N!childVars, N!farVars
    <3>2. reading = "open"
        BY <1>8 DEF N!Read
    <3> QED
        BY <1>5, <2>1, <3>1, <3>2
  <2>2. CASE stdout # <<>> /\ relayed' = relayed \o stdout /\ stdout' = <<>> /\ reading' = reading
    <3>1. reading = "open" /\ UNCHANGED <<inbound, headed, headRead, said>>
        BY <1>8, Zenon DEF N!Read, N!childVars, N!farVars
    <3>2. relayed \o (stdout \o p) = Upto(said)
        BY <1>4, <3>1
    <3>3. /\ relayed' \in Seq(Nat) /\ relayed' \o (stdout' \o p) = Upto(said')
          /\ relayed' = Upto(Len(relayed')) /\ Len(relayed') <= said'
          /\ Len(relayed) <= Len(relayed')
      <4> DEFINE r == relayed \o stdout
      <4>1. /\ r \in Seq(Nat) /\ r \o (<<>> \o p) = Upto(said)
            /\ r = Upto(Len(r)) /\ Len(r) <= said /\ Len(relayed) <= Len(r)
        <5>1. r \in Seq(Nat)
            BY <1>1, ConcatType, Zenon
        <5>2. r \o p = Upto(said)
            BY <1>1, <1>4, <3>2, ConcatNat, ZenonT(60)
        <5>3. <<>> \o p = p
            BY <1>4, ConcatEmpty, Zenon
        <5>4. Len(r) = Len(relayed) + Len(stdout) /\ Len(relayed) \in Nat /\ Len(stdout) \in Nat
            BY <1>1, ConcatProperties, LenProperties
        <5> HIDE DEF r
        <5>5. Len(r) \in 0 .. said /\ r = Upto(Len(r))
            BY <1>1, <1>4, <5>1, <5>2, PrefixOfUpto
        <5>6. Len(r) <= said /\ Len(relayed) <= Len(r)
            BY <1>1, <5>4, <5>5
        <5> QED
            BY <5>1, <5>2, <5>3, <5>5, <5>6, Zenon
      <4>2. relayed' = r /\ stdout' = <<>> /\ said' = said
          BY <2>2, <3>1
      <4> HIDE DEF r
      <4> QED
          BY <4>1, <4>2, Zenon
    <3>4. Front' = Front
        BY <3>1 DEF Front
    <3>5. Unread(p)'
        BY <1>4, <3>1, <3>3, <3>4, Zenon DEF Unread
    <3>6. \E q : Unread(q)'
        BY <3>5
    <3>7. NativeDownInv'
        BY <1>2, <3>1, <3>3, <3>6, Zenon DEF NativeDownInv
    <3>8. said <= said'
        BY <1>1, <3>1
    <3> QED
        BY <1>1, <2>2, <3>1, <3>3, <3>7, <3>8, Zenon
  <2> QED
      BY <1>8, <2>1, <2>2, Zenon DEF N!Read
<1>9. CASE N!CopyDown
  <2>1. UNCHANGED <<relayed, reading, said, headed>>
      BY <1>9, Zenon DEF N!CopyDown, N!nodeVars, N!farVars
  <2>2. CASE UNCHANGED <<inbound, headRead, stdout>>
      BY <1>5, <2>1, <2>2
  <2>3. CASE inbound # <<>> /\ inbound' = <<>> /\ headRead' = TRUE
    <3> DEFINE bytes == IF headRead THEN inbound ELSE Tail(inbound)
    <3>1. headed
        BY <1>2, <2>3
    <3>2. bytes = p
      <4>1. CASE headRead
        <5>1. Front = <<>>
            BY <4>1 DEF Front
        <5>2. Front \o p = p
            BY <1>4, <5>1, ConcatEmpty, Zenon
        <5> QED
            BY <1>4, <4>1, <5>2
      <4>2. CASE ~headRead
        <5>1. inbound = <<0>> \o p
            BY <1>4, <3>1, <4>2 DEF Front
        <5>2. Tail(<<0>> \o p) = p
            BY <1>4, HeadFirst
        <5> QED
            BY <4>2, <5>1, <5>2
      <4> QED
          BY <4>1, <4>2
    <3>3. Front' = <<>>
        BY <2>3 DEF Front
    <3>4. \/ reading = "destroyed" /\ stdout' = stdout
          \/ stdout' = stdout \o p
      <4>1. IF reading = "destroyed" /\ bytes # <<>>
            THEN stdout' = stdout ELSE stdout' = stdout \o bytes
          BY <1>9, <2>3, Zenon DEF N!CopyDown
      <4> QED
          BY <3>2, <4>1
    <3> HIDE DEF bytes
    <3>5. stdout \o p \in Seq(Nat) /\ (stdout \o p) \o <<>> = stdout \o p
        BY <1>1, <1>4, ConcatType, ConcatEmpty, Zenon
    <3>6. stdout' \in Seq(Nat)
        BY <1>1, <3>4, <3>5
    <3>7. reading # "destroyed" => relayed \o (stdout' \o <<>>) = Upto(said)
        BY <1>4, <3>4, <3>5, Zenon
    <3>8. <<>> \o <<>> = <<>>
        BY <1>1, ConcatEmpty, Zenon
    <3>9. Unread(<<>>)'
        BY <1>1, <2>1, <2>3, <3>3, <3>7, <3>8, Zenon DEF Unread
    <3>10. \E q : Unread(q)'
        BY <3>9
    <3>11. NativeDownInv'
        BY <1>2, <2>1, <2>3, <3>1, <3>10, Zenon DEF NativeDownInv
    <3>12. said <= said' /\ Len(relayed) <= Len(relayed')
        BY <1>1, <2>1
    <3> QED
        BY <1>1, <2>1, <2>3, <3>6, <3>11, <3>12, Zenon
  <2> QED
      BY <1>9, <2>2, <2>3, Zenon DEF N!CopyDown
<1>10. ASSUME NEW n \in 0 .. MaxDown, N!FarAnswers(n) PROVE Goal
  <2>1. /\ headed' = TRUE /\ said' = said + n
        /\ inbound' = (inbound \o (IF headed THEN <<>> ELSE <<0>>)) \o N!Run(said, n)
        /\ UNCHANGED <<relayed, reading, stdout, headRead>>
      BY <1>10, Zenon DEF N!FarAnswers, N!nodeVars, N!childVars
  <2>2. /\ n \in Nat /\ N!Run(said, n) \in Seq(Nat)
        /\ Upto(said) \o N!Run(said, n) = Upto(said')
    <3>1. n \in Nat
        OBVIOUS
    <3>2. /\ N!Run(said, n) \in Seq(Nat)
          /\ Upto(said) \o N!Run(said, n) = Upto(said + n)
        BY <1>1, <3>1, RunType
    <3> QED
        BY <2>1, <3>1, <3>2, Zenon
  <2>3. said' \in Nat /\ said <= said' /\ Len(relayed) <= said'
      BY <1>1, <1>2, <2>1, <2>2
  <2>4. PICK q \in Seq(Nat) : q = p \o N!Run(said, n)
    <3>1. p \o N!Run(said, n) \in Seq(Nat)
        BY <1>4, <2>2, ConcatType, Zenon
    <3> QED
        BY <3>1, Zenon
  <2>5. inbound \o (IF headed THEN <<>> ELSE <<0>>) = Front' \o p
    <3>1. CASE headed
      <4>1. Front' = Front
          BY <2>1, <3>1 DEF Front
      <4>2. inbound \o <<>> = inbound
          BY <1>1, ConcatEmpty, Zenon
      <4> QED
          BY <1>4, <3>1, <4>1, <4>2
    <3>2. CASE ~headed
      <4>1. Front' = <<0>> /\ Front = <<>> /\ inbound = <<>>
          BY <1>2, <2>1, <3>2 DEF Front
      <4>2. <<>> \o p = p
          BY <1>4, ConcatEmpty, Zenon
      <4>3. p = <<>>
          BY <1>4, <4>1, <4>2, Zenon
      <4>4. <<0>> \in Seq(Nat)
          OBVIOUS
      <4>5. <<>> \o <<0>> = <<0>> /\ <<0>> \o <<>> = <<0>>
          BY <4>4, ConcatEmpty, Zenon
      <4> QED
          BY <3>2, <4>1, <4>3, <4>5
    <3> QED
        BY <3>1, <3>2
  <2>6. Front' \in Seq(Nat)
      BY DEF Front
  <2>7. inbound' = Front' \o q
    <3>1. (Front' \o p) \o N!Run(said, n) = Front' \o (p \o N!Run(said, n))
        BY <1>4, <2>2, <2>6, ConcatNat, ZenonT(60)
    <3> QED
        BY <2>1, <2>4, <2>5, <3>1, Zenon
  <2>8. inbound' \in Seq(Nat)
      BY <2>4, <2>6, <2>7, ConcatType, Zenon
  <2>9. reading # "destroyed" => relayed \o (stdout \o q) = Upto(said')
    <3>0. /\ relayed \in Seq(Nat) /\ stdout \in Seq(Nat) /\ p \in Seq(Nat)
          /\ N!Run(said, n) \in Seq(Nat)
        BY <1>1, <1>4, <2>2
    <3>1. stdout \o q = (stdout \o p) \o N!Run(said, n)
      <4>1. (stdout \o p) \o N!Run(said, n) = stdout \o (p \o N!Run(said, n))
          BY ONLY <3>0, ConcatNat, ZenonT(60)
      <4> QED
          BY <2>4, <4>1, Zenon
    <3>2. PICK t \in Seq(Nat) : t = stdout \o p
      <4>1. stdout \o p \in Seq(Nat)
          BY <3>0, ConcatType, Zenon
      <4> QED
          BY <4>1, Zenon
    <3>3. (relayed \o t) \o N!Run(said, n) = relayed \o (t \o N!Run(said, n))
      <4>1. relayed \in Seq(Nat) /\ t \in Seq(Nat) /\ N!Run(said, n) \in Seq(Nat)
          BY <3>0
      <4> QED
          BY ONLY <4>1, ConcatNat, ZenonT(60)
    <3> QED
        BY <1>4, <2>2, <3>1, <3>2, <3>3, Zenon
  <2>10. Unread(q)'
      BY <2>1, <2>4, <2>7, <2>9, Zenon DEF Unread
  <2>11. \E r : Unread(r)'
      BY <2>10
  <2>12. NativeDownInv'
      BY <1>2, <2>1, <2>3, <2>11, Zenon DEF NativeDownInv
  <2>13. Len(relayed) <= Len(relayed')
      BY <1>1, <2>1
  <2> QED
      BY <1>1, <2>1, <2>3, <2>8, <2>12, <2>13, Zenon
<1> QED
    BY <1>6, <1>7, <1>8, <1>9, <1>10, Zenon DEF N!Next, N!Node, N!Child

-----------------------------------------------------------------------------
(* The ends.                                                               *)

LEMMA NativeEndStep ==
    ASSUME NativeInv, [N!Next]_(N!vars)
    PROVE  NativeEndInv'
<1>1. /\ exited => N!Dead
      /\ child = "done" => ~downCopy
      /\ ~downCopy /\ reading # "destroyed" =>
            far = "broken" \/ (far = "ended" /\ inbound = <<>>)
      /\ reading = "ended" => stdout = <<>> /\ N!Dead
    BY DEF NativeInv, NativeEndInv
<1>2. CASE \/ N!Spawn \/ N!StdinError \/ N!Dial \/ N!Die \/ N!CopyUp
           \/ N!FarEnds \/ N!FarBreaks \/ UNCHANGED N!vars
           \/ \E n \in 1 .. MaxUp : N!Write(n)
  <2>1. /\ UNCHANGED <<exited, reading, stdout, inbound, downCopy>>
        /\ N!Dead => child' = child
        /\ child' = "done" => child = "done"
        /\ far' \in {far, "broken"} \/ (far = "open" /\ far' = "ended")
      BY <1>2 DEF N!Spawn, N!StdinError, N!Dial, N!Die, N!CopyUp, N!FarEnds, N!FarBreaks,
                  N!Write, N!Dead, N!vars, N!nodeVars, N!childVars, N!farVars, N!pipes
  <2>2. N!Dead => N!Dead'
      BY <2>1 DEF N!Dead
  <2>3. ~downCopy' /\ reading' # "destroyed" =>
          far' = "broken" \/ (far' = "ended" /\ inbound' = <<>>)
      BY <1>1, <2>1
  <2> QED
      BY <1>1, <2>1, <2>2, <2>3, Zenon DEF NativeEndInv
<1>3. CASE N!Exit
  <2>1. N!Dead /\ UNCHANGED <<reading, stdout, inbound, downCopy, child, far>>
      BY <1>3, Zenon DEF N!Exit, N!childVars, N!farVars
  <2>2. N!Dead'
      BY <2>1 DEF N!Dead
  <2> QED
      BY <1>1, <2>1, <2>2, Zenon DEF NativeEndInv
<1>4. CASE N!Read
  <2>1. UNCHANGED <<exited, inbound, downCopy, child, far>> /\ reading = "open"
      BY <1>4, Zenon DEF N!Read, N!childVars, N!farVars
  <2>2. N!Dead' <=> N!Dead
      BY <2>1 DEF N!Dead
  <2>3. reading' = "ended" => stdout' = <<>> /\ N!Dead
      BY <1>4 DEF N!Read
  <2>4. ~downCopy' => far' = "broken" \/ (far' = "ended" /\ inbound' = <<>>)
      BY <1>1, <2>1
  <2> QED
      BY <1>1, <2>1, <2>2, <2>3, <2>4, Zenon DEF NativeEndInv
<1>5. CASE N!Close
  <2>1. /\ UNCHANGED <<exited, stdout, inbound, downCopy, child, far>>
        /\ reading' = IF reading = "open" THEN "destroyed" ELSE reading
      BY <1>5, Zenon DEF N!Close, N!childVars, N!farVars
  <2>2. N!Dead' <=> N!Dead
      BY <2>1 DEF N!Dead
  <2>3. /\ reading' = "ended" => reading = "ended"
        /\ reading' # "destroyed" => reading # "destroyed"
      BY <2>1
  <2> QED
      BY <1>1, <2>1, <2>2, <2>3, Zenon DEF NativeEndInv
<1>6. CASE N!Kill
  <2>1. /\ UNCHANGED <<exited, reading, stdout, inbound, downCopy, far>>
        /\ N!Dead => child' = child
        /\ ~N!Dead => child' = "failed"
      BY <1>6 DEF N!Kill, N!farVars, N!pipes
  <2>2. N!Dead' /\ (child' = "done" => child = "done")
      BY <2>1 DEF N!Dead
  <2> QED
      BY <1>1, <2>1, <2>2, Zenon DEF NativeEndInv
<1>7. CASE N!Leave
  <2>1. /\ UNCHANGED <<exited, reading, stdout, inbound, downCopy, far>>
        /\ ~downCopy /\ child' = "done"
      BY <1>7, Zenon DEF N!Leave, N!nodeVars, N!farVars, N!pipes
  <2>2. N!Dead'
      BY <2>1 DEF N!Dead
  <2> QED
      BY <1>1, <2>1, <2>2, Zenon DEF NativeEndInv
<1>8. CASE \E n \in 0 .. MaxDown : N!FarAnswers(n)
  <2>1. /\ UNCHANGED <<exited, reading, stdout, downCopy, child, far>> /\ far = "open"
      BY <1>8, Zenon DEF N!FarAnswers, N!nodeVars, N!childVars
  <2>2. N!Dead' <=> N!Dead
      BY <2>1 DEF N!Dead
  <2>3. downCopy \/ reading = "destroyed"
      BY <1>1, <2>1
  <2> QED
      BY <1>1, <2>1, <2>2, <2>3, Zenon DEF NativeEndInv
<1>9. CASE N!CopyDown
  <2>1. /\ UNCHANGED <<exited, reading, far>> /\ child = "relaying"
        /\ child' \in {"relaying", "failed"} /\ ~N!Dead
        /\ ~downCopy' => \/ reading = "destroyed" \/ far = "broken"
                         \/ far = "ended" /\ inbound' = <<>>
      BY <1>9 DEF N!CopyDown, N!Dead, N!nodeVars, N!farVars
  <2>2. ~exited /\ reading # "ended"
      BY <1>1, <2>1
  <2>3. child' # "done"
      BY <2>1
  <2> QED
      BY <2>1, <2>2, <2>3, Zenon DEF NativeEndInv
<1> QED
    BY <1>2, <1>3, <1>4, <1>5, <1>6, <1>7, <1>8, <1>9, Zenon DEF N!Next, N!Node, N!Child

-----------------------------------------------------------------------------
(* The theorems.  The bounds only have to be numbers.                      *)

LEMMA NativeInit == N!Init => NativeInv
<1> SUFFICES ASSUME N!Init PROVE NativeInv
    OBVIOUS
<1>1. N!TypeOK
  <2>1. /\ host \in {"up", "crashed"} /\ child \in N!Children
        /\ reading \in {"open", "ended", "destroyed"} /\ far \in {"open", "ended", "broken"}
        /\ {offered, said} \subseteq Nat
      BY DEF N!Init, N!Children
  <2>2. {exited, stdinEnd, closed, killer, upCopy, downCopy, asked, headRead, headed}
            \subseteq BOOLEAN
      BY Zenon DEF N!Init
  <2>3. <<>> \in Seq(Nat)
      OBVIOUS
  <2>4. {stdin, carried, inbound, stdout, relayed} \subseteq Seq(Nat)
      BY <2>3, Zenon DEF N!Init
  <2> QED
      BY <2>1, <2>2, <2>4, Zenon DEF N!TypeOK
<1>2. <<>> \in Seq(Nat) /\ Len(<<>>) = 0 /\ <<>> = Upto(0)
    BY DEF Upto
<1>3. <<>> \o <<>> = <<>>
    BY <1>2, ConcatEmpty, Zenon
<1>4. NativeUpInv
    BY <1>2, <1>3 DEF N!Init, NativeUpInv
<1>5. Front = <<>>
    BY DEF N!Init, Front
<1>6. Unread(<<>>)
    BY <1>2, <1>3, <1>5, Zenon DEF N!Init, Unread
<1>7. \E p : Unread(p)
    BY <1>6
<1>8. NativeDownInv
    BY <1>2, <1>7 DEF N!Init, NativeDownInv
<1>9. NativeEndInv
    BY DEF N!Init, NativeEndInv, N!Dead
<1> QED
    BY <1>1, <1>4, <1>8, <1>9 DEF NativeInv

LEMMA NativeStep ==
    ASSUME MaxUp \in Nat, MaxDown \in Nat, NativeInv, [N!Next]_(N!vars)
    PROVE  NativeInv'
<1>1. carried' \in Seq(Nat) /\ stdin' \in Seq(Nat) /\ offered' \in Nat /\ NativeUpInv'
    BY NativeUpStep
<1>2. /\ relayed' \in Seq(Nat) /\ stdout' \in Seq(Nat) /\ inbound' \in Seq(Nat)
      /\ said' \in Nat /\ NativeDownInv'
    BY NativeDownStep
<1>3. NativeEndInv'
    BY NativeEndStep
<1>4. /\ {stdin', carried', inbound', stdout', relayed'} \subseteq Seq(Nat)
      /\ {offered', said'} \subseteq Nat
    BY <1>1, <1>2, Zenon
<1>5. /\ host' \in {"up", "crashed"} /\ child' \in N!Children
      /\ reading' \in {"open", "ended", "destroyed"} /\ far' \in {"open", "ended", "broken"}
      /\ exited' \in BOOLEAN /\ stdinEnd' \in BOOLEAN /\ closed' \in BOOLEAN
      /\ killer' \in BOOLEAN /\ upCopy' \in BOOLEAN /\ downCopy' \in BOOLEAN
      /\ asked' \in BOOLEAN /\ headRead' \in BOOLEAN /\ headed' \in BOOLEAN
    BY NativeFlagsStep DEF NativeInv
<1>6. {exited', stdinEnd', closed', killer', upCopy', downCopy', asked', headRead', headed'}
          \subseteq BOOLEAN
    BY <1>5, Zenon
<1>7. N!TypeOK'
    BY <1>4, <1>5, <1>6, Zenon DEF N!TypeOK
<1> QED
    BY <1>1, <1>2, <1>3, <1>7, Zenon DEF NativeInv

THEOREM NativeInvariance ==
    ASSUME MaxUp \in Nat, MaxDown \in Nat
    PROVE  N!Spec => []NativeInv
<1>1. N!Init => NativeInv
    BY NativeInit
<1>2. NativeInv /\ [N!Next]_(N!vars) => NativeInv'
    BY NativeStep
<1> QED
    BY <1>1, <1>2, PTL DEF N!Spec

\* A connector that came to its end by itself has passed on all its server said,
\* except for what a broken connection kept from it (main.go: the read error is
\* printed, wg.Wait() is for both copies), however the bytes were cut and whenever
\* the client closed its half.
THEOREM NativeComplete ==
    ASSUME MaxUp \in Nat, MaxDown \in Nat
    PROVE  N!Spec => []N!NativeEndsComplete
<1>1. NativeInv => N!NativeEndsComplete
  <2> SUFFICES ASSUME NativeInv, reading = "ended", child = "done", far = "broken" => inbound = <<>>
               PROVE  relayed = N!Run(0, said)
      BY DEF N!NativeEndsComplete
  <2>1. PICK p : Unread(p)
      BY DEF NativeInv, NativeDownInv
  <2>2. stdout = <<>> /\ inbound = <<>>
      BY DEF NativeInv, NativeEndInv
  <2>3. /\ p \in Seq(Nat) /\ <<>> = Front \o p /\ relayed \o (<<>> \o p) = Upto(said)
      BY <2>1, <2>2 DEF Unread
  <2>4. p = <<>>
    <3>1. CASE Front = <<>>
        BY <2>3, <3>1, ConcatEmpty, Zenon
    <3>2. CASE Front = <<0>>
        BY <2>3, <3>2, HeadFirst
    <3> QED
        BY <3>1, <3>2 DEF Front
  <2>5. relayed \in Seq(Nat) /\ said \in Nat
      BY DEF NativeInv, N!TypeOK
  <2>6. relayed \o (<<>> \o <<>>) = relayed
      BY <2>3, <2>4, <2>5, ConcatEmpty, Zenon
  <2>7. relayed = Upto(said)
      BY <2>3, <2>4, <2>6, Zenon
  <2> QED
      BY <2>5, <2>7 DEF N!Run, Upto
<1> QED
    BY <1>1, NativeInvariance, PTL

\* What the target gets is the stream the face was given, as far as it goes:
\* face.write, the connector's stdin and its copy lose, repeat and swap nothing.
THEOREM NativeCarriesUpward ==
    ASSUME MaxUp \in Nat, MaxDown \in Nat
    PROVE  N!Spec => N!Upward!Spec
<1>1. N!Init => N!Upward!Init
    BY DEF N!Init, N!Upward!Init, N!Dead
<1>2. NativeInv /\ NativeInv' /\ [N!Next]_(N!vars) => [N!Upward!Next]_<<offered, carried, N!Dead>>
  <2> SUFFICES ASSUME NativeInv, NativeInv', [N!Next]_(N!vars) PROVE N!Upward!Next
      OBVIOUS
  <2>1. /\ offered <= offered' /\ Len(carried) <= Len(carried')
        /\ N!Dead => N!Dead' /\ carried' = carried
      BY NativeUpStep
  <2>2. carried \in Seq(Nat) /\ carried = Upto(Len(carried))
      BY DEF NativeInv, N!TypeOK, NativeUpInv
  <2>3. carried' \in Seq(Nat) /\ carried' = Upto(Len(carried')) /\ Len(carried') <= offered'
      BY DEF NativeInv, N!TypeOK, NativeUpInv
  <2>4. offered' \in Nat
      BY DEF NativeInv, N!TypeOK
  <2>5. \E k \in 0 .. offered' - Len(carried) : carried' = carried \o After(Len(carried), k)
      BY <2>1, <2>2, <2>3, <2>4, StreamStep
  <2>6. N!Upward!Take
      BY <2>5, Zenon DEF N!Upward!Take, After
  <2>7. N!Upward!Put
      BY <2>1, <2>4 DEF N!Upward!Put
  <2>8. N!Dead \in BOOLEAN /\ N!Dead' \in BOOLEAN
      BY DEF N!Dead
  <2>9. N!Dead' = TRUE \/ N!Dead' = N!Dead
      BY <2>1, <2>8
  <2>10. N!Dead => N!Dead' = TRUE /\ carried' = carried
      BY <2>1, <2>8
  <2> QED
      BY <2>6, <2>7, <2>9, <2>10, Zenon DEF N!Upward!Next, N!Upward!End
<1> QED
    BY <1>1, <1>2, NativeInvariance, PTL DEF N!Spec, N!Upward!Spec

\* What the face's read yields is the stream the target said, less the response
\* header: the connector's copy and its stdout lose, repeat and swap nothing, and
\* nothing comes after the end.
THEOREM NativeCarriesDownward ==
    ASSUME MaxUp \in Nat, MaxDown \in Nat
    PROVE  N!Spec => N!Downward!Spec
<1>1. N!Init => N!Downward!Init
    BY DEF N!Init, N!Downward!Init
<1>2. NativeInv /\ NativeInv' /\ [N!Next]_(N!vars) 
         => [N!Downward!Next]_<<said, relayed, reading # "open">>
  <2> SUFFICES ASSUME NativeInv, NativeInv', [N!Next]_(N!vars) PROVE N!Downward!Next
      OBVIOUS
  <2>1. /\ said <= said' /\ Len(relayed) <= Len(relayed')
        /\ reading # "open" => reading' # "open" /\ relayed' = relayed
      BY NativeDownStep
  <2>2. relayed \in Seq(Nat) /\ relayed = Upto(Len(relayed))
      BY DEF NativeInv, N!TypeOK, NativeDownInv
  <2>3. relayed' \in Seq(Nat) /\ relayed' = Upto(Len(relayed')) /\ Len(relayed') <= said'
      BY DEF NativeInv, N!TypeOK, NativeDownInv
  <2>4. said' \in Nat
      BY DEF NativeInv, N!TypeOK
  <2>5. \E k \in 0 .. said' - Len(relayed) : relayed' = relayed \o After(Len(relayed), k)
      BY <2>1, <2>2, <2>3, <2>4, StreamStep
  <2>6. N!Downward!Take
      BY <2>5, Zenon DEF N!Downward!Take, After
  <2>7. N!Downward!Put
      BY <2>1, <2>4 DEF N!Downward!Put
  <2>8. (reading # "open")' = TRUE \/ (reading # "open")' = (reading # "open")
      BY <2>1
  <2>9. reading # "open" => (reading # "open")' = TRUE /\ relayed' = relayed
      BY <2>1
  <2> QED
      BY <2>6, <2>7, <2>8, <2>9, Zenon DEF N!Downward!Next, N!Downward!End
<1> QED
    BY <1>1, <1>2, NativeInvariance, PTL DEF N!Spec, N!Downward!Spec

-----------------------------------------------------------------------------
FP == INSTANCE FramingProofs

-----------------------------------------------------------------------------
(* The three faces.                                                        *)

\* A raw face is a behaviour of SocketBuffer.
LEMMA RunsRaw == ConnectSpec => Spec
<1>1. ConnectInit => Init
    BY Zenon DEF ConnectInit
<1>2. [ConnectNext]_allVars => [Next]_vars
    BY Zenon DEF ConnectNext, Raw, Framed, Native, allVars
<1> QED
    BY <1>1, <1>2, PTL DEF ConnectSpec, Spec

\* The theorems' instance of Framing is ConnectThrough's.
LEMMA SameFraming ==
    /\ F!Init => FP!Init
    /\ F!Next => FP!Next
    /\ framedVars' = framedVars => UNCHANGED FP!vars
<1>1. F!Init => FP!Init
    BY Zenon DEF F!Init, FP!Init, F!Request, FP!Request, F!Message, FP!Message, F!Unit, FP!Unit
<1>2. F!Next => FP!Next
    BY Zenon DEF F!Next, FP!Next,
        F!Write, F!WriteSealed, F!WriteRaw, F!Parts, F!Message, F!Bytes, F!FaceCloses,
        F!Reader, F!Refused, F!Server, F!SocketCloses, F!Upgrade, F!PullFrame,
        F!ReadHeader, F!ReadSize, F!ReadChunk, F!ReadAny, F!ReadPastEnd, F!ServerReads,
        F!ServerEnds, F!ServerReplies, F!ServerSends, F!ServerPings, F!Opened, F!Unit,
        F!Request, F!Source, F!Wanted, F!Reads, F!Consume, F!upVars, F!serverVars,
        F!downVars, FP!Write, FP!WriteSealed, FP!WriteRaw, FP!Parts, FP!Message, FP!Bytes,
        FP!FaceCloses, FP!Reader, FP!Refused, FP!Server, FP!SocketCloses, FP!Upgrade,
        FP!PullFrame, FP!ReadHeader, FP!ReadSize, FP!ReadChunk, FP!ReadAny,
        FP!ReadPastEnd, FP!ServerReads, FP!ServerEnds, FP!ServerReplies, FP!ServerSends,
        FP!ServerPings, FP!Opened, FP!Unit, FP!Request, FP!Source, FP!Wanted, FP!Reads,
        FP!Consume, FP!upVars, FP!serverVars, FP!downVars
<1>3. framedVars' = framedVars => UNCHANGED FP!vars
    BY Zenon DEF framedVars, FP!vars, FP!upVars, FP!serverVars, FP!downVars
<1> QED
    BY <1>1, <1>2, <1>3, Zenon

LEMMA RunsFramed == ConnectSpec => FP!Spec
<1>1. ConnectInit => FP!Init
    BY SameFraming, Zenon DEF ConnectInit
<1>2. [ConnectNext]_allVars => [FP!Next]_(FP!vars)
    BY SameFraming, Zenon DEF ConnectNext, Raw, Framed, Native, allVars
<1> QED
    BY <1>1, <1>2, PTL DEF ConnectSpec, FP!Spec

LEMMA RunsNative == ConnectSpec => N!Spec
<1>1. ConnectInit => N!Init
    BY Zenon DEF ConnectInit
<1>2. nativeVars' = nativeVars => UNCHANGED N!vars
    BY Zenon DEF nativeVars, N!vars, N!nodeVars, N!childVars, N!farVars, N!pipes
<1>3. [ConnectNext]_allVars => [N!Next]_(N!vars)
    BY <1>2, Zenon DEF ConnectNext, Raw, Framed, Native, allVars
<1> QED
    BY <1>1, <1>3, PTL DEF ConnectSpec, N!Spec

-----------------------------------------------------------------------------
(* What holds of the composition.                                         *)

\* The bounds the theorems about the faces assume.
LEMMA ConnectBounds ==
    /\ FP!KindsAssumption /\ FP!CapAssumption /\ FP!BoundsAssumption
    /\ MaxUp \in Nat /\ MaxDown \in Nat
<1>1. F!KindsAssumption /\ F!CapAssumption /\ F!BoundsAssumption
    BY FramingAssumption
<1>2. FP!KindsAssumption /\ FP!CapAssumption /\ FP!BoundsAssumption
    BY <1>1, Zenon DEF F!KindsAssumption, FP!KindsAssumption, F!CapAssumption,
        FP!CapAssumption, F!BoundsAssumption, FP!BoundsAssumption
<1> QED
    BY <1>1, <1>2, Zenon DEF F!BoundsAssumption

\* No nonce seals two chunks, whichever framed node a connection is for and
\* however the client's writes are cut: seal() in transports.js and vmess.js.
THEOREM ConnectNonces == ConnectSpec => []NoncesFresh
<1>1. FP!Spec => []FP!NoncesFresh
    BY ConnectBounds, FP!NoncesNeverRepeat
<1>2. FP!NoncesFresh => NoncesFresh
    BY Zenon DEF FP!NoncesFresh, NoncesFresh, F!NoncesFresh, F!IsInjective, FP!IsInjective
<1> QED
    BY <1>1, <1>2, RunsFramed, PTL

\* The server behind a framed node gets what the client wrote, in order and once,
\* however it is cut into chunks: write() of the framed faces.
THEOREM ConnectUpInOrder == ConnectSpec => []UpInOrder
<1>1. FP!Spec => []FP!UpInOrder
    BY ConnectBounds, FP!UpstreamInOrder
<1>2. FP!UpInOrder => UpInOrder
    BY Zenon DEF FP!UpInOrder, UpInOrder, F!UpInOrder, F!Bytes, FP!Bytes, F!BytesOf,
        FP!BytesOf, F!FlattenSeq, FP!FlattenSeq
<1> QED
    BY <1>1, <1>2, RunsFramed, PTL

\* Writer and server count alike behind every framed node: seal()'s counter and
\* the one the server opens with.
THEOREM ConnectUpInStep == ConnectSpec => []UpInStep
<1>1. FP!Spec => []FP!UpInStep
    BY ConnectBounds, FP!UpstreamInStep
<1>2. FP!UpInStep => UpInStep
    BY Zenon DEF FP!UpInStep, UpInStep, F!UpInStep, F!Bytes, FP!Bytes, F!NoncesOf,
        FP!NoncesOf, F!Opened, FP!Opened, F!FlattenSeq, FP!FlattenSeq
<1> QED
    BY <1>1, <1>2, RunsFramed, PTL

\* Behind every framed node the client gets the server's bytes, in order and each
\* once, however they are framed, sealed and cut, and the reads fail for the end of
\* the stream or for a counter that is out alone: read() of the framed faces.
THEOREM ConnectDownInOrder == ConnectSpec => []DownInOrder
<1>1. FP!Spec => []FP!DownInOrder
    BY ConnectBounds, FP!DownstreamInOrder
<1>2. FP!DownInOrder => DownInOrder
    BY Zenon DEF FP!DownInOrder, DownInOrder, F!DownInOrder, F!Bytes, FP!Bytes
<1> QED
    BY <1>1, <1>2, RunsFramed, PTL

\* Behind every node an end that the protocol or the connector announces comes
\* after all that was sent: vmess's empty chunk, ws's close frame, main.go's
\* wg.Wait() for both copies, but for what a broken connection kept from them.
THEOREM ConnectEndsComplete == ConnectSpec => []EndsComplete
<1>1. FP!Spec => []FP!EndsComplete
    BY ConnectBounds, FP!AnnouncedEndsComplete
<1>2. N!Spec => []N!NativeEndsComplete
    BY ConnectBounds, NativeComplete
<1>3. FP!EndsComplete => F!EndsComplete
    BY Zenon DEF FP!EndsComplete, F!EndsComplete
<1>4. F!EndsComplete /\ N!NativeEndsComplete => EndsComplete
    BY Zenon DEF EndsComplete
<1> QED
    BY <1>1, <1>2, <1>3, <1>4, RunsFramed, RunsNative, PTL

\* A raw face's reads get the stream, each byte once and in order, and none waits
\* for bytes that are there: #flush behind connectThrough.
THEOREM ConnectReads == ConnectSpec => [](InOrder /\ NoMissedWakeup)
<1> QED
    BY RunsRaw, BufferInOrder, BufferNoMissedWakeup, PTL

\* What a raw face's client gets is what follows the handshake its node needs, from
\* the first byte on: SocketBuffer.read against rawFace, behind connectThrough.
THEOREM ConnectRelays == ConnectSpec => []RelayStartsAfterHandshake
<1> QED
    BY RunsRaw, RelayStarts, PTL

\* Every variable of the three faces keeps its type, and a connection the face its
\* node's type gave it: connectThrough's switch decides once.
THEOREM ConnectTyping == ConnectSpec => []ConnectTypeOK
<1>1. ConnectSpec => []TypeOK
    BY RunsRaw, BufferTypeCorrect, PTL
<1>2. ConnectSpec => []F!TypeOK
  <2>1. FP!Spec => []FP!TypeOK
      BY ConnectBounds, FP!FramingTyping
  <2>2. FP!TypeOK => F!TypeOK
      BY Zenon DEF FP!TypeOK, F!TypeOK, FP!Units, F!Units, FP!Phases, F!Phases
  <2> QED
      BY <2>1, <2>2, RunsFramed, PTL
<1>3. ConnectSpec => []N!TypeOK
  <2>1. N!Spec => []NativeInv
      BY ConnectBounds, NativeInvariance
  <2>2. NativeInv => N!TypeOK
      BY Zenon DEF NativeInv
  <2> QED
      BY <2>1, <2>2, RunsNative, PTL
<1>4. ConnectSpec => [](node \in Nodes /\ face \in {"raw", "framed", "native", "none"})
  <2> DEFINE Chosen == node \in Nodes /\ face \in {"raw", "framed", "native", "none"}
  <2>1. ConnectInit => Chosen
    <3> SUFFICES ASSUME ConnectInit PROVE Chosen
        OBVIOUS
    <3>1. node \in Nodes /\ face \in FacesOf(node)
        BY Zenon DEF ConnectInit
    <3>2. FacesOf(node) \subseteq {"raw", "framed", "native", "none"}
        BY DEF FacesOf
    <3> QED
        BY <3>1, <3>2, Zenon
  <2>2. Chosen /\ [ConnectNext]_allVars => Chosen'
    <3>1. [ConnectNext]_allVars => node' = node /\ face' = face
        BY Zenon DEF ConnectNext, Raw, Framed, Native, allVars
    <3> QED
        BY <3>1, Zenon
  <2> QED
      BY <2>1, <2>2, PTL DEF ConnectSpec
<1> QED
    BY <1>1, <1>2, <1>3, <1>4, PTL DEF ConnectTypeOK

\* transports.js:22-24: whichever face carries a connection, for every handshake,
\* kind of node and number of bytes, each of its directions is a stream, and so is
\* the buffer below a raw face's handshake.
THEOREM ConnectStreams == ConnectSpec => FacesCarryStreams
<1>1. ConnectSpec => Reads!Spec /\ Relay!Spec
    BY RunsRaw, BufferCarriesStream, RelayCarriesStream, PTL
<1>2. ConnectSpec => N!Upward!Spec
    BY ConnectBounds, NativeCarriesUpward, RunsNative, PTL
<1>3. ConnectSpec => N!Downward!Spec
    BY ConnectBounds, NativeCarriesDownward, RunsNative, PTL
<1>4. ConnectSpec => F!Upward!Spec
  <2>1. FP!Spec => FP!Upward!Spec
      BY ConnectBounds, FP!FramingCarriesUpward
  <2>2. FP!Upward!Init => F!Upward!Init
      BY Zenon DEF FP!Upward!Init, F!Upward!Init
  <2>3. [FP!Upward!Next]_<<sent, got, ~serverUp>> => [F!Upward!Next]_<<sent, got, ~serverUp>>
      BY Zenon DEF FP!Upward!Next, F!Upward!Next, FP!Upward!Put, F!Upward!Put,
                   FP!Upward!Take, F!Upward!Take, FP!Upward!End, F!Upward!End
  <2> QED
      BY <2>1, <2>2, <2>3, RunsFramed, PTL DEF FP!Upward!Spec, F!Upward!Spec
<1>5. ConnectSpec => F!Downward!Spec
  <2>1. FP!Spec => FP!Downward!Spec
      BY ConnectBounds, FP!FramingCarriesDownward
  <2>2. FP!Downward!Init => F!Downward!Init
      BY Zenon DEF FP!Downward!Init, F!Downward!Init
  <2>3. [FP!Downward!Next]_<<replied, delivered, phase \notin {"upgrade", "open"}>>
            => [F!Downward!Next]_<<replied, delivered, phase \notin {"upgrade", "open"}>>
      BY Zenon DEF FP!Downward!Next, F!Downward!Next, FP!Downward!Put, F!Downward!Put,
                   FP!Downward!Take, F!Downward!Take, FP!Downward!End, F!Downward!End
  <2> QED
      BY <2>1, <2>2, <2>3, RunsFramed, PTL DEF FP!Downward!Spec, F!Downward!Spec
<1> QED
    BY <1>1, <1>2, <1>3, <1>4, <1>5, PTL DEF FacesCarryStreams

=============================================================================
