----------------------------- MODULE FramingProofs -----------------------------
(***************************************************************************)
(* Proofs about Framing, for every kind of node, chunk size, counter and   *)
(* number of bytes.                                                        *)
(*                                                                         *)
(* Nonces (CountInv): those used are the ones the counter has passed, in   *)
(* order; it never goes back, and a write that would take it past vmess's  *)
(* 16 bits stops at them.                                                  *)
(*                                                                         *)
(* Up (UpInv): what the server has opened and what is on its way to it are *)
(* the client's bytes in order, and the nonces on their way are those the  *)
(* server expects.  What is on its way is the FlattenSeq of a sequence of  *)
(* messages, hence the lemmas about FlattenSeq.                            *)
(*                                                                         *)
(* Down (DownInv): what has been read of in, what its whole frames bring   *)
(* and what the server has not sent yet are, one after another, the rest   *)
(* of the response header and then the server's bytes from the next one    *)
(* on, cut into chunks under the next nonces.                              *)
(***************************************************************************)
EXTENDS Framing, StreamLemmas

\* The first n values of a counter.
Nonces(n) == [i \in 1 .. n |-> i - 1]

CountInv ==
    /\ outCount \in Nat
    /\ used = Nonces(outCount)
    /\ kind.vmess => outCount <= CountLimit

\* The next values of a counter extend its first ones.
LEMMA NoncesGrow ==
    ASSUME NEW a \in Nat, NEW m \in Nat
    PROVE  Nonces(a) \o [i \in 1 .. m |-> a + i - 1] = Nonces(a + m)
<1> DEFINE more == [i \in 1 .. m |-> a + i - 1]
<1>1. /\ Nonces(a) \in Seq(Nat) /\ Len(Nonces(a)) = a
      /\ Nonces(a + m) \in Seq(Nat) /\ Len(Nonces(a + m)) = a + m
    BY DEF Nonces
<1>2. more \in Seq(Nat) /\ Len(more) = m
    OBVIOUS
<1> HIDE DEF more
<1>3. /\ Nonces(a) \o more \in Seq(Nat)
      /\ Len(Nonces(a) \o more) = Len(Nonces(a)) + Len(more)
      /\ \A i \in 1 .. Len(Nonces(a)) + Len(more) :
            (Nonces(a) \o more)[i] =
                IF i <= Len(Nonces(a)) THEN Nonces(a)[i] ELSE more[i - Len(Nonces(a))]
    BY <1>1, <1>2, ConcatProperties, Zenon
<1>4. \A i \in 1 .. a + m : (Nonces(a) \o more)[i] = Nonces(a + m)[i]
    BY <1>1, <1>2, <1>3 DEF Nonces, more
<1>5. Len(Nonces(a) \o more) = a + m
    BY <1>1, <1>2, <1>3
<1>6. Nonces(a) \o more = Nonces(a + m)
    BY <1>1, <1>3, <1>4, <1>5, SeqEqual
<1> QED
    BY <1>6 DEF more

\* The parts of a write are sealed under the counter's next values.
LEMMA PartsCount ==
    ASSUME NEW n \in Nat, CapAssumption, outCount \in Nat
    PROVE  /\ (n + Cap - 1) \div Cap \in Nat
           /\ Parts(n) \in Seq({Parts(n)[i] : i \in DOMAIN Parts(n)})
           /\ Len(Parts(n)) = (n + Cap - 1) \div Cap
           /\ \A i \in 1 .. Len(Parts(n)) : Parts(n)[i].nonce = outCount + i - 1
<1> DEFINE k == (n + Cap - 1) \div Cap
<1>1. Cap \in Nat \ {0} /\ n + Cap - 1 \in Nat
    BY DEF CapAssumption
<1>2. k \in Nat
    BY <1>1
<1> HIDE DEF k
<1>3. Parts(n) = [i \in 1 .. k |->
        LET before == (i - 1) * Cap
        IN  Message("data", Bytes(sent + before + 1, IF n - before < Cap THEN n - before ELSE Cap),
                    outCount + i - 1)]
    BY DEF Parts, k
<1>4. DOMAIN Parts(n) = 1 .. k
    BY <1>3, Zenon
<1>5. \A i \in 1 .. k : Parts(n)[i].nonce = outCount + i - 1
  <2> TAKE i \in 1 .. k
  <2>1. \E bytes : Parts(n)[i] = Message("data", bytes, outCount + i - 1)
      BY <1>3, Zenon
  <2> QED
      BY <2>1 DEF Message
<1>6. Len(Parts(n)) = k
    BY <1>2, <1>3
<1>7. Parts(n) \in Seq({Parts(n)[i] : i \in DOMAIN Parts(n)})
  <2> DEFINE S == {Parts(n)[i] : i \in DOMAIN Parts(n)}
  <2>1. \A i \in 1 .. k : Parts(n)[i] \in S
      BY <1>4
  <2>2. Parts(n) = [i \in 1 .. k |-> Parts(n)[i]]
      BY <1>3, Zenon
  <2> HIDE DEF S
  <2>3. [i \in 1 .. k |-> Parts(n)[i]] \in Seq(S)
      BY <1>2, <2>1, IsASeq
  <2>4. Parts(n) \in Seq(S)
      BY <2>2, <2>3
  <2> QED
      BY <2>4 DEF S
<1> QED
    BY <1>2, <1>5, <1>6, <1>7 DEF k

\* A sealed write keeps the invariant: it seals under the counter's next values,
\* as many as vmess's field still has.
LEMMA SealedStep ==
    ASSUME CapAssumption, CountInv, NEW n \in Nat, WriteSealed(n), kind' = kind
    PROVE  CountInv'
<1>1. /\ outCount \in Nat /\ used = Nonces(outCount)
      /\ kind.vmess => outCount <= CountLimit
      /\ CountLimit \in Nat
    BY DEF CountInv, CapAssumption
<1> DEFINE all   == Parts(n)
           out   == kind.vmess /\ outCount + Len(all) > CountLimit
           parts == IF out THEN SubSeq(all, 1, CountLimit - outCount) ELSE all
           m     == IF out THEN CountLimit - outCount ELSE Len(all)
<1>2. /\ used' = used \o [i \in DOMAIN parts |-> parts[i].nonce]
      /\ outCount' = outCount + Len(parts)
    BY Zenon DEF WriteSealed
<1>3. /\ all \in Seq({all[i] : i \in DOMAIN all}) /\ Len(all) \in Nat
      /\ \A i \in 1 .. Len(all) : all[i].nonce = outCount + i - 1
    BY <1>1, PartsCount
<1> HIDE DEF all
<1>4. m \in Nat /\ m <= Len(all) /\ (kind.vmess => outCount + m <= CountLimit)
    BY <1>1, <1>3
<1>5. DOMAIN parts = 1 .. m /\ Len(parts) = m /\ \A i \in 1 .. m : parts[i] = all[i]
  <2>1. CASE out
    <3>1. CountLimit - outCount \in Nat /\ CountLimit - outCount <= Len(all)
        BY <1>4, <2>1
    <3> DEFINE c == CountLimit - outCount
    <3>2. SubSeq(all, 1, c) = [i \in 1 .. c |-> all[i]]
        BY <1>3, <3>1
    <3> QED
        BY <2>1, <3>1, <3>2
  <2>2. CASE ~out
      BY <1>3, <2>2
  <2> QED
      BY <2>1, <2>2
<1> HIDE DEF m, parts, out
<1>6. [i \in DOMAIN parts |-> parts[i].nonce] = [i \in 1 .. m |-> outCount + i - 1]
  <2>1. \A i \in 1 .. m : parts[i].nonce = outCount + i - 1
    <3> TAKE i \in 1 .. m
    <3>1. i \in 1 .. Len(all)
        BY <1>3, <1>4
    <3> QED
        BY <1>3, <1>5, <3>1, Zenon
  <2> QED
      BY <1>5, <2>1, Zenon
<1>7. used' = Nonces(outCount + m) /\ outCount' = outCount + m
    BY <1>1, <1>2, <1>4, <1>5, <1>6, NoncesGrow, Zenon
<1>8. outCount' \in Nat
    BY <1>1, <1>4, <1>7
<1> QED
    BY <1>4, <1>7, <1>8, Zenon DEF CountInv, Nonces

LEMMA CountStep ==
    ASSUME CapAssumption, MaxUp \in Nat, CountInv, [Next]_vars
    PROVE  CountInv'
<1>1. CASE UNCHANGED <<kind, outCount, used>>
    BY <1>1, Zenon DEF CountInv, Nonces
<1>2. ASSUME NEW n \in 1 .. MaxUp, Write(n) PROVE CountInv'
  <2>1. n \in Nat /\ kind' = kind
      BY <1>2 DEF Write
  <2>2. CASE WriteSealed(n)
      BY <2>1, <2>2, SealedStep
  <2>3. CASE WriteRaw(n)
      BY <1>1, <2>1, <2>3, Zenon DEF WriteRaw
  <2> QED
      BY <1>2, <2>2, <2>3, Zenon DEF Write
<1>3. CASE FaceCloses \/ Refused \/ SocketCloses \/ UNCHANGED vars
    BY <1>1, <1>3, Zenon DEF FaceCloses, Refused, SocketCloses, vars, upVars
<1>4. CASE Reader
    BY <1>1, <1>4, Zenon DEF Reader, Upgrade, PullFrame, ReadHeader, ReadSize, ReadChunk,
                             ReadAny, ReadPastEnd, upVars
<1>5. CASE Server
    BY <1>1, <1>5, Zenon DEF Server, ServerReads, ServerEnds, ServerReplies, ServerSends,
                             ServerPings, upVars
<1> QED
    BY <1>2, <1>3, <1>4, <1>5, Zenon DEF Next

LEMMA CountInit == CapAssumption /\ Init => CountInv
<1> SUFFICES ASSUME CapAssumption, Init PROVE CountInv
    OBVIOUS
<1>1. CASE kind.opensSealed
  <2>1. outCount = 1 /\ used = <<0>>
      BY <1>1 DEF Init
  <2>2. <<0>> = Nonces(1) /\ 1 <= CountLimit
      BY DEF Nonces, CapAssumption
  <2> QED
      BY <2>1, <2>2 DEF CountInv
<1>2. CASE ~kind.opensSealed
  <2>1. outCount = 0 /\ used = <<>>
      BY <1>2 DEF Init
  <2>2. <<>> = Nonces(0) /\ 0 <= CountLimit
      BY DEF Nonces, CapAssumption
  <2> QED
      BY <2>1, <2>2 DEF CountInv
<1> QED
    BY <1>1, <1>2

\* No nonce seals two chunks, whatever is written and however it is cut, to the
\* end of vmess's counter and past it: seal() in transports.js and vmess.js.
THEOREM NoncesNeverRepeat ==
    ASSUME CapAssumption, MaxUp \in Nat
    PROVE  Spec => []NoncesFresh
<1>1. Init => CountInv
    BY CountInit
<1>2. CountInv /\ [Next]_vars => CountInv'
    BY CountStep
<1>3. CountInv => NoncesFresh
    BY DEF CountInv, NoncesFresh, IsInjective, Nonces
<1> QED
    BY <1>1, <1>2, <1>3, PTL DEF Spec

-----------------------------------------------------------------------------
(* FlattenSeq.                                                             *)

\* What FlattenSeq has put together after each of the first n sequences.
Partial(seqs, n, S) ==
    {f \in [0 .. n -> Seq(S)] :
        f[0] = <<>> /\ \A i \in 1 .. n : f[i] = f[i - 1] \o seqs[i]}

LEMMA PartialExists ==
    ASSUME NEW S, NEW seqs \in Seq(Seq(S))
    PROVE  Partial(seqs, Len(seqs), S) # {}
<1> DEFINE have == {n \in Nat : n <= Len(seqs) => Partial(seqs, n, S) # {}}
<1>0. Len(seqs) \in Nat
    BY LenProperties
<1>1. 0 \in have
  <2> DEFINE f == [k \in 0 .. 0 |-> <<>>]
  <2>1. <<>> \in Seq(S)
      OBVIOUS
  <2>2. f \in [0 .. 0 -> Seq(S)] /\ f[0] = <<>>
      BY <2>1
  <2>3. \A i \in 1 .. 0 : f[i] = f[i - 1] \o seqs[i]
      OBVIOUS
  <2> HIDE DEF f
  <2>4. f \in Partial(seqs, 0, S)
      BY <2>2, <2>3, Zenon DEF Partial
  <2> QED
      BY <2>4
<1>2. ASSUME NEW n \in Nat, n \in have PROVE n + 1 \in have
  <2> SUFFICES ASSUME n + 1 <= Len(seqs) PROVE Partial(seqs, n + 1, S) # {}
      OBVIOUS
  <2>1. n <= Len(seqs) /\ n + 1 \in 1 .. Len(seqs) /\ n \in 0 .. n
      BY <1>0
  <2>2. PICK f \in [0 .. n -> Seq(S)] : f[0] = <<>> /\ \A i \in 1 .. n : f[i] = f[i - 1] \o seqs[i]
      BY <1>2, <2>1, Zenon DEF Partial
  <2> DEFINE g == [k \in 0 .. (n + 1) |-> IF k = n + 1 THEN f[n] \o seqs[n + 1] ELSE f[k]]
  <2>3. seqs[n + 1] \in Seq(S) /\ f[n] \in Seq(S)
      BY <2>1, <2>2, ElementOfSeq, Zenon
  <2>4. f[n] \o seqs[n + 1] \in Seq(S)
      BY <2>3, ConcatProperties, Zenon
  <2>5. /\ \A k \in 0 .. (n + 1) : k = n + 1 \/ (k # n + 1 /\ k \in 0 .. n)
        /\ 0 \in 0 .. n /\ 0 # n + 1 /\ 0 \in 0 .. (n + 1)
      OBVIOUS
  <2>6. g \in [0 .. (n + 1) -> Seq(S)]
      BY <2>4, <2>5, Zenon
  <2>7. g[0] = <<>>
      BY <2>2, <2>5, Zenon
  <2>8. \A i \in 1 .. (n + 1) : g[i] = g[i - 1] \o seqs[i]
    <3> TAKE i \in 1 .. (n + 1)
    <3>1. i \in 0 .. (n + 1) /\ i - 1 \in 0 .. (n + 1) /\ i - 1 # n + 1
        OBVIOUS
    <3>2. g[i - 1] = f[i - 1]
        BY <3>1, Zenon
    <3>3. CASE i = n + 1
      <4>1. i - 1 = n
          BY <3>3
      <4> QED
          BY <3>1, <3>2, <3>3, <4>1, Zenon
    <3>4. CASE i # n + 1
      <4>1. i \in 1 .. n
          BY <3>4
      <4> QED
          BY <2>2, <3>1, <3>2, <3>4, <4>1, Zenon
    <3> QED
        BY <3>3, <3>4
  <2> HIDE DEF g
  <2>9. g \in Partial(seqs, n + 1, S)
      BY <2>6, <2>7, <2>8, Zenon DEF Partial
  <2> QED
      BY <2>9
<1>3. \A n \in Nat : n \in have
  <2> HIDE DEF have
  <2> QED
      BY <1>1, <1>2, SetInduction
<1> QED
    BY <1>0, <1>3

\* FlattenSeq is the last of them.
LEMMA FlattenIs ==
    ASSUME NEW S, NEW seqs \in Seq(Seq(S)), NEW f \in Partial(seqs, Len(seqs), S)
    PROVE  FlattenSeq(seqs) = f[Len(seqs)] /\ FlattenSeq(seqs) \in Seq(S)
<1> DEFINE N == Len(seqs)
           body(g) == [i \in 1 .. N |-> IF i = 1 THEN seqs[i] ELSE g[i - 1] \o seqs[i]]
           flat == CHOOSE g : g = body(g)
<1>1. N \in Nat /\ \A i \in 1 .. N : seqs[i] \in Seq(S)
    BY LenProperties, ElementOfSeq
<1>2. /\ f \in [0 .. N -> Seq(S)] /\ f[0] = <<>>
      /\ \A i \in 1 .. N : f[i] = f[i - 1] \o seqs[i]
    BY Zenon DEF Partial
<1>3. CASE N = 0
  <2>1. FlattenSeq(seqs) = seqs /\ seqs = <<>>
      BY <1>3, EmptySeq DEF FlattenSeq
  <2>2. <<>> \in Seq(S)
      OBVIOUS
  <2> QED
      BY <1>2, <1>3, <2>1, <2>2
<1>4. CASE N # 0
  <2>1. FlattenSeq(seqs) = flat[N]
      BY <1>4, Zenon DEF FlattenSeq
  <2> DEFINE g == [i \in 1 .. N |-> f[i]]
  <2>2. g = body(g)
    <3>1. \A i \in 1 .. N : g[i] = body(g)[i]
      <4> TAKE i \in 1 .. N
      <4>1. CASE i = 1
        <5>1. f[1] = <<>> \o seqs[1] /\ seqs[1] \in Seq(S)
          <6>1. 1 \in 1 .. N /\ 1 - 1 = 0
              BY <1>1, <4>1
          <6>2. f[1] = f[1 - 1] \o seqs[1]
              BY <1>2, <6>1, Zenon
          <6> QED
              BY <1>1, <1>2, <6>1, <6>2, Zenon
        <5>2. <<>> \o seqs[1] = seqs[1]
            BY <5>1, ConcatEmptySeq, Zenon
        <5> QED
            BY <4>1, <5>1, <5>2, Zenon
      <4>2. CASE i # 1
        <5>1. i - 1 \in 1 .. N
            BY <1>1, <4>2
        <5> QED
            BY <1>2, <4>2, <5>1, Zenon
      <4> QED
          BY <4>1, <4>2
    <3> QED
        BY <3>1, Zenon
  <2>3. flat = body(flat)
      BY <2>2, Zenon
  <2>4. \A i \in 1 .. N : flat[i] = IF i = 1 THEN seqs[i] ELSE flat[i - 1] \o seqs[i]
      BY <2>3, Zenon
  <2>5. \A i \in 1 .. N : g[i] = IF i = 1 THEN seqs[i] ELSE g[i - 1] \o seqs[i]
      BY <2>2, Zenon
  <2> DEFINE same == {n \in Nat : n + 1 <= N => flat[n + 1] = g[n + 1]}
  <2> HIDE DEF g, flat
  <2>6. 0 \in same
    <3>1. 1 \in 1 .. N /\ 0 + 1 = 1
        BY <1>1, <1>4
    <3>2. flat[1] = g[1]
        BY <2>4, <2>5, <3>1, Zenon
    <3> QED
        BY <3>1, <3>2
  <2>7. ASSUME NEW n \in Nat, n \in same PROVE n + 1 \in same
    <3> SUFFICES ASSUME (n + 1) + 1 <= N PROVE flat[(n + 1) + 1] = g[(n + 1) + 1]
        OBVIOUS
    <3>1. flat[n + 1] = g[n + 1]
        BY <1>1, <2>7
    <3>2. (n + 1) + 1 \in 1 .. N /\ (n + 1) + 1 # 1 /\ ((n + 1) + 1) - 1 = n + 1
        BY <1>1
    <3> DEFINE k == (n + 1) + 1
    <3>3. flat[k] = flat[k - 1] \o seqs[k] /\ g[k] = g[k - 1] \o seqs[k]
        BY <2>4, <2>5, <3>2, Zenon
    <3> QED
        BY <3>1, <3>2, <3>3, Zenon
  <2>8. \A n \in Nat : n \in same
    <3> HIDE DEF same
    <3> QED
        BY <2>6, <2>7, SetInduction
  <2>9. N - 1 \in Nat /\ (N - 1) + 1 = N /\ N \in 1 .. N
      BY <1>1, <1>4
  <2>10. flat[N] = g[N]
    <3>1. N - 1 \in same
        BY <2>8, <2>9, Zenon
    <3>2. flat[(N - 1) + 1] = g[(N - 1) + 1]
        BY <1>1, <2>9, <3>1
    <3> QED
        BY <2>9, <3>2, Zenon
  <2>11. g[N] = f[N]
      BY <2>9, Zenon DEF g
  <2>12. N \in 0 .. N
      BY <1>1
  <2> QED
      BY <1>2, <2>1, <2>10, <2>11, <2>12, Zenon
<1> QED
    BY <1>3, <1>4

LEMMA FlattenType ==
    ASSUME NEW S, NEW seqs \in Seq(Seq(S))
    PROVE  FlattenSeq(seqs) \in Seq(S)
<1>1. PICK f : f \in Partial(seqs, Len(seqs), S)
    BY PartialExists, Zenon
<1> QED
    BY <1>1, FlattenIs, Zenon

LEMMA FlattenEmpty == FlattenSeq(<<>>) = <<>>
BY DEF FlattenSeq

LEMMA ConcatRegroups ==
    ASSUME NEW S
    PROVE  \A s, t, u \in Seq(S) : (s \o t) \o u = s \o (t \o u)
BY ConcatAssociative

LEMMA FlattenConcat ==
    ASSUME NEW S
    PROVE  \A s, t \in Seq(Seq(S)) : FlattenSeq(s \o t) = FlattenSeq(s) \o FlattenSeq(t)
<1>0. \A a, b, c \in Seq(S) : (a \o b) \o c = a \o (b \o c)
    BY ConcatRegroups
<1> TAKE s, t \in Seq(Seq(S))
<1> DEFINE m == Len(s)
           n == Len(t)
<1>1. /\ m \in Nat /\ n \in Nat /\ s \o t \in Seq(Seq(S)) /\ Len(s \o t) = m + n
      /\ \A i \in 1 .. m + n : (s \o t)[i] = IF i <= m THEN s[i] ELSE t[i - m]
    BY ConcatProperties, LenProperties, Zenon
<1>2. PICK f : f \in Partial(s, m, S)
    BY PartialExists, Zenon
<1>3. PICK g : g \in Partial(t, n, S)
    BY PartialExists, Zenon
<1>4. /\ f \in [0 .. m -> Seq(S)] /\ f[0] = <<>>
      /\ \A i \in 1 .. m : f[i] = f[i - 1] \o s[i]
    BY <1>2, Zenon DEF Partial
<1>5. /\ g \in [0 .. n -> Seq(S)] /\ g[0] = <<>>
      /\ \A i \in 1 .. n : g[i] = g[i - 1] \o t[i]
    BY <1>3, Zenon DEF Partial
<1>6. FlattenSeq(s) = f[m] /\ FlattenSeq(t) = g[n]
    BY <1>2, <1>3, FlattenIs, Zenon
<1>7. /\ \A i \in 1 .. n : t[i] \in Seq(S)
      /\ m \in 0 .. m /\ n \in 0 .. n /\ f[m] \in Seq(S)
  <2>1. m \in 0 .. m /\ n \in 0 .. n
      BY <1>1
  <2> QED
      BY <1>4, <2>1, ElementOfSeq, Zenon
<1> DEFINE h == [i \in 0 .. m + n |-> IF i <= m THEN f[i] ELSE f[m] \o g[i - m]]
<1> HIDE DEF m, n
<1>8. h \in [0 .. m + n -> Seq(S)]
  <2> SUFFICES ASSUME NEW i \in 0 .. m + n
               PROVE  (IF i <= m THEN f[i] ELSE f[m] \o g[i - m]) \in Seq(S)
      OBVIOUS
  <2>1. CASE i <= m
    <3>1. i \in 0 .. m
        BY <1>1, <2>1
    <3> QED
        BY <1>4, <2>1, <3>1, Zenon
  <2>2. CASE ~(i <= m)
    <3>1. i - m \in 0 .. n
        BY <1>1, <2>2
    <3>2. f[m] \o g[i - m] \in Seq(S)
        BY <1>5, <1>7, <3>1, ConcatProperties, Zenon
    <3> QED
        BY <2>2, <3>2, Zenon
  <2> QED
      BY <2>1, <2>2
<1>9. h[0] = <<>>
  <2>1. 0 \in 0 .. m + n /\ 0 <= m
      BY <1>1
  <2> QED
      BY <1>4, <2>1, Zenon
<1>10. \A i \in 1 .. m + n : h[i] = h[i - 1] \o (s \o t)[i]
  <2> TAKE i \in 1 .. m + n
  <2>1. i \in 0 .. m + n /\ i - 1 \in 0 .. m + n
      BY <1>1
  <2>2. CASE i <= m
    <3>1. i \in 1 .. m /\ i - 1 <= m
        BY <1>1, <2>2
    <3> QED
        BY <1>1, <1>4, <2>1, <2>2, <3>1, Zenon
  <2>3. CASE ~(i <= m)
    <3>1. i - m \in 1 .. n /\ (i - m) - 1 = (i - 1) - m /\ (i - m) - 1 \in 0 .. n
        BY <1>1, <2>3
    <3>2. h[i] = f[m] \o g[i - m]
        BY <2>1, <2>3, Zenon
    <3>3. g[i - m] = g[(i - 1) - m] \o t[i - m]
        BY <1>5, <3>1, Zenon
    <3>4. f[m] \o g[i - m] = (f[m] \o g[(i - 1) - m]) \o t[i - m]
      <4>1. f[m] \in Seq(S) /\ g[(i - 1) - m] \in Seq(S) /\ t[i - m] \in Seq(S)
          BY <1>5, <1>7, <3>1, Zenon
      <4>2. (f[m] \o g[(i - 1) - m]) \o t[i - m] = f[m] \o (g[(i - 1) - m] \o t[i - m])
          BY <1>0, <4>1, Zenon
      <4> QED
          BY <3>3, <4>2, Zenon
    <3>5. h[i - 1] = f[m] \o g[(i - 1) - m]
      <4>1. CASE i - 1 <= m
        <5>1. i - 1 = m /\ (i - 1) - m = 0
            BY <1>1, <2>3, <4>1
        <5>2. f[m] \o <<>> = f[m]
            BY <1>7, ConcatEmptySeq, Zenon
        <5> QED
            BY <1>5, <2>1, <4>1, <5>1, <5>2, Zenon
      <4>2. CASE ~(i - 1 <= m)
          BY <2>1, <4>2, Zenon
      <4> QED
          BY <4>1, <4>2
    <3> QED
        BY <1>1, <2>3, <3>2, <3>4, <3>5, Zenon
  <2> QED
      BY <2>2, <2>3
<1>11. h[m + n] = f[m] \o g[n]
  <2>1. m + n \in 0 .. m + n /\ (m + n) - m = n
      BY <1>1
  <2>2. CASE m + n <= m
    <3>1. m + n = m /\ n = 0
        BY <1>1, <2>2
    <3>2. f[m] \o <<>> = f[m]
        BY <1>7, ConcatEmptySeq, Zenon
    <3> QED
        BY <1>5, <2>1, <2>2, <3>1, <3>2, Zenon
  <2>3. CASE ~(m + n <= m)
      BY <2>1, <2>3, Zenon
  <2> QED
      BY <2>2, <2>3
<1> HIDE DEF h
<1>12. h \in Partial(s \o t, Len(s \o t), S)
    BY <1>1, <1>8, <1>9, <1>10, Zenon DEF Partial
<1>13. FlattenSeq(s \o t) = h[m + n]
    BY <1>1, <1>12, FlattenIs, Zenon
<1> QED
    BY <1>6, <1>11, <1>13, Zenon

LEMMA FlattenOne ==
    ASSUME NEW S, NEW x \in Seq(S)
    PROVE  FlattenSeq(<<x>>) = x
<1> DEFINE f == [i \in 0 .. 1 |-> IF i = 0 THEN <<>> ELSE x]
<1>1. <<x>> \in Seq(Seq(S)) /\ Len(<<x>>) = 1 /\ <<x>>[1] = x /\ <<>> \in Seq(S)
    OBVIOUS
<1>2. f \in [0 .. 1 -> Seq(S)] /\ f[0] = <<>> /\ f[1] = x
    BY <1>1
<1>3. <<>> \o x = x
    BY ConcatEmptySeq, Zenon
<1> HIDE DEF f
<1>4. \A i \in 1 .. 1 : i = 1 /\ i - 1 = 0
    OBVIOUS
<1>5. \A i \in 1 .. 1 : f[i] = f[i - 1] \o <<x>>[i]
    BY <1>1, <1>2, <1>3, <1>4, Zenon
<1>6. f \in Partial(<<x>>, Len(<<x>>), S)
    BY <1>1, <1>2, <1>5, Zenon DEF Partial
<1> QED
    BY <1>1, <1>2, <1>6, FlattenIs, Zenon

\* The elements of u, each replaced by the sequence that map gives it.
FlatMap(map, u) == FlattenSeq([i \in DOMAIN u |-> map[u[i]]])

LEMMA Mapped ==
    ASSUME NEW M, NEW S, NEW map \in [M -> Seq(S)]
    PROVE  \A u \in Seq(M) :
              /\ [i \in DOMAIN u |-> map[u[i]]] \in Seq(Seq(S))
              /\ Len([i \in DOMAIN u |-> map[u[i]]]) = Len(u)
              /\ DOMAIN u = 1 .. Len(u) /\ Len(u) \in Nat
              /\ FlatMap(map, u) \in Seq(S)
<1> TAKE u \in Seq(M)
<1>1. DOMAIN u = 1 .. Len(u) /\ Len(u) \in Nat /\ \A i \in 1 .. Len(u) : u[i] \in M
    BY LenProperties, ElementOfSeq
<1>2. \A i \in 1 .. Len(u) : map[u[i]] \in Seq(S)
    BY <1>1, Zenon
<1> DEFINE g == [i \in 1 .. Len(u) |-> map[u[i]]]
<1>3. g \in Seq(Seq(S)) /\ Len(g) = Len(u)
    BY <1>1, <1>2
<1>4. FlattenSeq(g) \in Seq(S)
    BY <1>3, FlattenType
<1> QED
    BY <1>1, <1>3, <1>4, Zenon DEF FlatMap

LEMMA FlatMapConcat ==
    ASSUME NEW M, NEW S, NEW map \in [M -> Seq(S)]
    PROVE  \A u, v \in Seq(M) : FlatMap(map, u \o v) = FlatMap(map, u) \o FlatMap(map, v)
<1> DEFINE F(w) == [i \in DOMAIN w |-> map[w[i]]]
<1>0. \A w \in Seq(M) :
          /\ F(w) \in Seq(Seq(S)) /\ Len(F(w)) = Len(w)
          /\ DOMAIN w = 1 .. Len(w) /\ Len(w) \in Nat
    BY Mapped
<1>a. \A s, t \in Seq(Seq(S)) : FlattenSeq(s \o t) = FlattenSeq(s) \o FlattenSeq(t)
    BY FlattenConcat
<1> TAKE u, v \in Seq(M)
<1>1. /\ u \o v \in Seq(M) /\ Len(u \o v) = Len(u) + Len(v)
      /\ \A i \in 1 .. Len(u) + Len(v) : (u \o v)[i] = IF i <= Len(u) THEN u[i] ELSE v[i - Len(u)]
    BY ConcatProperties, Zenon
<1>2. /\ F(u) \in Seq(Seq(S)) /\ Len(F(u)) = Len(u) /\ DOMAIN u = 1 .. Len(u) /\ Len(u) \in Nat
    BY <1>0, Zenon
<1>3. /\ F(v) \in Seq(Seq(S)) /\ Len(F(v)) = Len(v) /\ DOMAIN v = 1 .. Len(v) /\ Len(v) \in Nat
    BY <1>0, Zenon
<1>4. /\ F(u \o v) \in Seq(Seq(S)) /\ Len(F(u \o v)) = Len(u) + Len(v)
      /\ DOMAIN (u \o v) = 1 .. Len(u) + Len(v)
    BY <1>0, <1>1, Zenon
<1>5. /\ F(u) \o F(v) \in Seq(Seq(S)) /\ Len(F(u) \o F(v)) = Len(u) + Len(v)
      /\ \A i \in 1 .. Len(u) + Len(v) :
            (F(u) \o F(v))[i] = IF i <= Len(u) THEN F(u)[i] ELSE F(v)[i - Len(u)]
  <2> HIDE DEF F
  <2>1. /\ F(u) \o F(v) \in Seq(Seq(S)) /\ Len(F(u) \o F(v)) = Len(F(u)) + Len(F(v))
        /\ \A i \in 1 .. Len(F(u)) + Len(F(v)) :
            (F(u) \o F(v))[i] = IF i <= Len(F(u)) THEN F(u)[i] ELSE F(v)[i - Len(F(u))]
      BY <1>2, <1>3, ConcatProperties, Zenon
  <2> QED
      BY <1>2, <1>3, <2>1, Zenon
<1>6. \A i \in 1 .. Len(u) + Len(v) : F(u \o v)[i] = (F(u) \o F(v))[i]
  <2> TAKE i \in 1 .. Len(u) + Len(v)
  <2>1. F(u \o v)[i] = map[(u \o v)[i]]
      BY <1>4, Zenon
  <2>2. CASE i <= Len(u)
    <3>1. i \in 1 .. Len(u)
        BY <1>2, <1>3, <2>2
    <3> QED
        BY <1>1, <1>2, <1>5, <2>1, <2>2, <3>1, Zenon
  <2>3. CASE ~(i <= Len(u))
    <3>1. i - Len(u) \in 1 .. Len(v)
        BY <1>2, <1>3, <2>3
    <3> QED
        BY <1>1, <1>3, <1>5, <2>1, <2>3, <3>1, Zenon
  <2> QED
      BY <2>2, <2>3
<1>7. F(u \o v) = F(u) \o F(v)
  <2> HIDE DEF F
  <2> QED
      BY <1>4, <1>5, <1>6, SeqEqual
<1>8. FlattenSeq(F(u) \o F(v)) = FlattenSeq(F(u)) \o FlattenSeq(F(v))
    BY <1>2, <1>3, <1>a, Zenon
<1> QED
    BY <1>7, <1>8, Zenon DEF FlatMap

LEMMA FlatMapOne ==
    ASSUME NEW M, NEW S, NEW map \in [M -> Seq(S)]
    PROVE  \A x \in M : FlatMap(map, <<x>>) = map[x]
<1>0. \A y \in Seq(S) : FlattenSeq(<<y>>) = y
    BY FlattenOne
<1> TAKE x \in M
<1>1. [i \in DOMAIN <<x>> |-> map[<<x>>[i]]] = <<map[x]>>
    OBVIOUS
<1>2. map[x] \in Seq(S)
    OBVIOUS
<1> QED
    BY <1>0, <1>1, <1>2, Zenon DEF FlatMap

LEMMA FlatMapEmpty ==
    ASSUME NEW map
    PROVE  FlatMap(map, <<>>) = <<>>
<1>1. [i \in DOMAIN <<>> |-> map[<<>>[i]]] = <<>>
    OBVIOUS
<1> QED
    BY <1>1, FlattenEmpty, Zenon DEF FlatMap

LEMMA FlatMapAppend ==
    ASSUME NEW M, NEW S, NEW map \in [M -> Seq(S)]
    PROVE  \A u \in Seq(M) : \A x \in M : FlatMap(map, Append(u, x)) = FlatMap(map, u) \o map[x]
<1>1. \A u, v \in Seq(M) : FlatMap(map, u \o v) = FlatMap(map, u) \o FlatMap(map, v)
    BY FlatMapConcat
<1>2. \A x \in M : FlatMap(map, <<x>>) = map[x]
    BY FlatMapOne
<1> TAKE u \in Seq(M)
<1> TAKE x \in M
<1>3. Append(u, x) = u \o <<x>> /\ <<x>> \in Seq(M)
    BY AppendIsConcat
<1> QED
    BY <1>1, <1>2, <1>3, Zenon

LEMMA FlatMapFront ==
    ASSUME NEW M, NEW S, NEW map \in [M -> Seq(S)]
    PROVE  \A u \in Seq(M) : u # <<>> =>
              /\ Head(u) \in M /\ Tail(u) \in Seq(M)
              /\ FlatMap(map, u) = map[Head(u)] \o FlatMap(map, Tail(u))
<1>1. \A u, v \in Seq(M) : FlatMap(map, u \o v) = FlatMap(map, u) \o FlatMap(map, v)
    BY FlatMapConcat
<1>2. \A x \in M : FlatMap(map, <<x>>) = map[x]
    BY FlatMapOne
<1> TAKE u \in Seq(M)
<1> HAVE u # <<>>
<1>3. Head(u) \in M /\ Tail(u) \in Seq(M) /\ <<Head(u)>> \in Seq(M)
    BY HeadTailProperties
<1>4. u = <<Head(u)>> \o Tail(u)
    BY <1>3
<1> QED
    BY <1>1, <1>2, <1>3, <1>4, Zenon

-----------------------------------------------------------------------------
(* Messages.                                                               *)

Msgs == [is : {"request", "data", "pong", "end"}, bytes : Seq(Nat), nonce : Nat]

bytesOf == [m \in Msgs |-> m.bytes]
nonceOf == [m \in Msgs |-> IF Opened(m) THEN <<m.nonce>> ELSE <<>>]

LEMMA MapTypes == bytesOf \in [Msgs -> Seq(Nat)] /\ nonceOf \in [Msgs -> Seq(Nat)]
<1>1. \A m \in Msgs : m.bytes \in Seq(Nat) /\ m.nonce \in Nat
    BY DEF Msgs
<1>2. \A m \in Msgs : <<m.nonce>> \in Seq(Nat) /\ <<>> \in Seq(Nat)
    BY <1>1
<1>3. \A m \in Msgs : (IF Opened(m) THEN <<m.nonce>> ELSE <<>>) \in Seq(Nat)
    BY <1>2
<1> QED
    BY <1>1, <1>3 DEF bytesOf, nonceOf

LEMMA AsFlatMap ==
    \A u \in Seq(Msgs) : BytesOf(u) = FlatMap(bytesOf, u) /\ NoncesOf(u) = FlatMap(nonceOf, u)
<1> TAKE u \in Seq(Msgs)
<1>1. \A i \in DOMAIN u : u[i] \in Msgs
    BY LenProperties, ElementOfSeq
<1>2. [i \in DOMAIN u |-> u[i].bytes] = [i \in DOMAIN u |-> bytesOf[u[i]]]
    BY <1>1, Zenon DEF bytesOf
<1>3. [i \in DOMAIN u |-> IF Opened(u[i]) THEN <<u[i].nonce>> ELSE <<>>]
        = [i \in DOMAIN u |-> nonceOf[u[i]]]
    BY <1>1, Zenon DEF nonceOf
<1> QED
    BY <1>2, <1>3, Zenon DEF BytesOf, NoncesOf, FlatMap

\* What messages carry is what each of them carries, one after the other.
LEMMA Carrying ==
    /\ BytesOf(<<>>) = <<>> /\ NoncesOf(<<>>) = <<>>
    /\ \A u \in Seq(Msgs) : BytesOf(u) \in Seq(Nat) /\ NoncesOf(u) \in Seq(Nat)
    /\ \A u, v \in Seq(Msgs) :
          BytesOf(u \o v) = BytesOf(u) \o BytesOf(v) /\ NoncesOf(u \o v) = NoncesOf(u) \o NoncesOf(v)
    /\ \A m \in Msgs :
          BytesOf(<<m>>) = m.bytes /\ NoncesOf(<<m>>) = IF Opened(m) THEN <<m.nonce>> ELSE <<>>
<1>1. <<>> \in Seq(Msgs) /\ \A m \in Msgs : <<m>> \in Seq(Msgs)
    OBVIOUS
<1>2. \A u, v \in Seq(Msgs) : u \o v \in Seq(Msgs)
    BY ConcatProperties
<1>3. FlatMap(bytesOf, <<>>) = <<>> /\ FlatMap(nonceOf, <<>>) = <<>>
    BY FlatMapEmpty
<1>4. \A u \in Seq(Msgs) : FlatMap(bytesOf, u) \in Seq(Nat) /\ FlatMap(nonceOf, u) \in Seq(Nat)
    BY MapTypes, Mapped
<1>5. \A u, v \in Seq(Msgs) : FlatMap(bytesOf, u \o v) = FlatMap(bytesOf, u) \o FlatMap(bytesOf, v)
  <2>1. bytesOf \in [Msgs -> Seq(Nat)]
      BY MapTypes
  <2> QED
      BY <2>1, FlatMapConcat, SMTT(60)
<1>6. \A u, v \in Seq(Msgs) : FlatMap(nonceOf, u \o v) = FlatMap(nonceOf, u) \o FlatMap(nonceOf, v)
  <2>1. nonceOf \in [Msgs -> Seq(Nat)]
      BY MapTypes
  <2> QED
      BY <2>1, FlatMapConcat, SMTT(60)
<1>7. \A m \in Msgs : FlatMap(bytesOf, <<m>>) = bytesOf[m]
    BY MapTypes, FlatMapOne
<1>8. \A m \in Msgs : FlatMap(nonceOf, <<m>>) = nonceOf[m]
    BY MapTypes, FlatMapOne
<1>9. \A m \in Msgs : bytesOf[m] = m.bytes /\ nonceOf[m] = IF Opened(m) THEN <<m.nonce>> ELSE <<>>
    BY Zenon DEF bytesOf, nonceOf
<1>10. BytesOf(<<>>) = <<>> /\ NoncesOf(<<>>) = <<>>
    BY <1>1, <1>3, AsFlatMap, Zenon
<1>11. \A u \in Seq(Msgs) : BytesOf(u) \in Seq(Nat) /\ NoncesOf(u) \in Seq(Nat)
    BY <1>4, AsFlatMap, Zenon
<1>12. \A u, v \in Seq(Msgs) :
          BytesOf(u \o v) = BytesOf(u) \o BytesOf(v) /\ NoncesOf(u \o v) = NoncesOf(u) \o NoncesOf(v)
    BY <1>2, <1>5, <1>6, AsFlatMap, Zenon
<1>13. \A m \in Msgs :
          BytesOf(<<m>>) = m.bytes /\ NoncesOf(<<m>>) = IF Opened(m) THEN <<m.nonce>> ELSE <<>>
    BY <1>1, <1>7, <1>8, <1>9, AsFlatMap, Zenon
<1> QED
    BY <1>10, <1>11, <1>12, <1>13, Zenon

-----------------------------------------------------------------------------
(* The parts of a write.                                                   *)

LEMMA Products == \A m, c \in Nat : (m + 1) * c = m * c + c /\ m * c \in Nat
OBVIOUS

\* n bytes fill the chunks but the last, and reach into that one.
LEMMA CapCuts ==
    ASSUME NEW n \in Nat \ {0}, NEW c \in Nat \ {0}, NEW q, q = (n + c - 1) \div c
    PROVE  /\ q \in Nat /\ q > 0 /\ n <= q * c
           /\ \A m \in Nat : m < q => m * c < n
<1> DEFINE a == n + c - 1
<1>1. a \in Nat
    OBVIOUS
<1>2. q \in Nat /\ q * c <= a /\ a < q * c + c
    BY <1>1
<1>3. q * c \in Nat
    BY <1>2, Products
<1>4. n <= q * c
    BY <1>2, <1>3
<1>5. q # 0
  <2>1. 0 * c = 0
      OBVIOUS
  <2> QED
      BY <1>4, <2>1
<1>6. ASSUME NEW m \in Nat, m < q PROVE m * c < n
  <2>1. (m + 1) * c <= q * c
      BY <1>2, <1>6
  <2>2. (m + 1) * c = m * c + c /\ m * c \in Nat
      BY Products
  <2> QED
      BY <1>2, <1>3, <2>1, <2>2
<1> QED
    BY <1>2, <1>4, <1>5, <1>6

\* The end, in the write, of its first m parts.
Reach(m, n) == IF m * Cap < n THEN m * Cap ELSE n

LEMMA BytesAreAfter == \A a, k \in Nat : Bytes(a + 1, k) = After(a, k)
<1> TAKE a, k \in Nat
<1>1. \A i \in 1 .. k : a + 1 + i - 1 = a + i
    OBVIOUS
<1> QED
    BY <1>1, Zenon DEF Bytes, After

LEMMA PartsAre ==
    ASSUME CapAssumption, sent \in Nat, outCount \in Nat, NEW n \in Nat \ {0}
    PROVE  /\ Parts(n) \in Seq(Msgs)
           /\ Len(Parts(n)) \in Nat /\ Reach(Len(Parts(n)), n) = n
           /\ \A m \in Nat : m < Len(Parts(n)) =>
                /\ Parts(n)[m + 1].is = "data"
                /\ Parts(n)[m + 1].nonce = outCount + m
                /\ Parts(n)[m + 1].bytes = After(sent + Reach(m, n), Reach(m + 1, n) - Reach(m, n))
                /\ Reach(m, n) \in 0 .. n /\ Reach(m + 1, n) - Reach(m, n) \in Nat
<1> DEFINE q == (n + Cap - 1) \div Cap
<1>1. /\ Cap \in Nat \ {0} /\ q \in Nat /\ n <= q * Cap /\ q * Cap \in Nat
      /\ \A m \in Nat : m < q => m * Cap < n
    BY CapCuts, Products DEF CapAssumption
<1>2. Parts(n) = [i \in 1 .. q |->
        LET before == (i - 1) * Cap
        IN  Message("data", Bytes(sent + before + 1, IF n - before < Cap THEN n - before ELSE Cap),
                    outCount + i - 1)]
    BY Zenon DEF Parts
<1> HIDE DEF q
<1>3. Reach(q, n) = n
    BY <1>1 DEF Reach
<1>4. ASSUME NEW m \in Nat, m < q
      PROVE  /\ Parts(n)[m + 1] \in Msgs
             /\ Parts(n)[m + 1].is = "data"
             /\ Parts(n)[m + 1].nonce = outCount + m
             /\ Parts(n)[m + 1].bytes = After(sent + Reach(m, n), Reach(m + 1, n) - Reach(m, n))
             /\ Reach(m, n) \in 0 .. n /\ Reach(m + 1, n) - Reach(m, n) \in Nat
  <2> DEFINE b == m * Cap
             k == IF n - b < Cap THEN n - b ELSE Cap
             bytes == Bytes(sent + b + 1, k)
  <2>1. m + 1 \in 1 .. q /\ (m + 1) - 1 = m /\ outCount + (m + 1) - 1 = outCount + m
      BY <1>1, <1>4
  <2>2. Parts(n)[m + 1] = Message("data", bytes, outCount + m)
      BY <1>2, <2>1, Zenon
  <2>3. b \in Nat /\ b < n /\ (m + 1) * Cap = b + Cap
      BY <1>1, <1>4, Products
  <2> HIDE DEF b
  <2>4. k \in Nat /\ k > 0 /\ k <= n - b
      BY <1>1, <2>3
  <2>5. Reach(m, n) = b /\ Reach(m + 1, n) = b + k
      BY <1>1, <2>3 DEF Reach, b
  <2>6. bytes = After(sent + b, k) /\ bytes \in Seq(Nat)
    <3>1. sent + b \in Nat
        BY <2>3
    <3> HIDE DEF k
    <3>2. bytes = After(sent + b, k)
        BY <2>4, <3>1, BytesAreAfter, Zenon
    <3>3. After(sent + b, k) \in Seq(Nat)
        BY <2>4, <3>1, UptoGrows, Zenon
    <3> QED
        BY <3>2, <3>3
  <2> HIDE DEF k, bytes
  <2>7. (b + k) - b = k /\ b \in 0 .. n /\ outCount + m \in Nat
      BY <2>3, <2>4
  <2>8. /\ Message("data", bytes, outCount + m) \in Msgs
        /\ Message("data", bytes, outCount + m).is = "data"
        /\ Message("data", bytes, outCount + m).nonce = outCount + m
        /\ Message("data", bytes, outCount + m).bytes = bytes
      BY <2>6, <2>7 DEF Message, Msgs
  <2> QED
      BY <2>2, <2>4, <2>5, <2>6, <2>7, <2>8, Zenon
<1>5. Parts(n) \in Seq(Msgs) /\ Len(Parts(n)) = q
  <2>1. \A i \in 1 .. q : i - 1 \in Nat /\ i - 1 < q /\ (i - 1) + 1 = i
      BY <1>1
  <2>2. \A i \in 1 .. q : Parts(n)[i] \in Msgs
    <3> TAKE i \in 1 .. q
    <3>1. Parts(n)[(i - 1) + 1] \in Msgs
        BY <1>4, <2>1, Zenon
    <3> QED
        BY <2>1, <3>1, Zenon
  <2>3. Parts(n) = [i \in 1 .. q |-> Parts(n)[i]]
      BY <1>2, Zenon
  <2>4. [i \in 1 .. q |-> Parts(n)[i]] \in Seq(Msgs)
      BY <1>1, <2>2, IsASeq
  <2>5. Len(Parts(n)) = q
      BY <1>1, <1>2
  <2> QED
      BY <2>3, <2>4, <2>5, Zenon
<1> QED
    BY <1>1, <1>3, <1>4, <1>5, Zenon

\* The first m parts carry what the write reaches with them, and are sealed under
\* the counter's next m values.
LEMMA PartsCarry ==
    ASSUME CapAssumption, sent \in Nat, outCount \in Nat, kind.sealed, NEW n \in Nat \ {0},
           NEW m \in 0 .. Len(Parts(n))
    PROVE  /\ SubSeq(Parts(n), 1, m) \in Seq(Msgs)
           /\ BytesOf(SubSeq(Parts(n), 1, m)) = After(sent, Reach(m, n))
           /\ NoncesOf(SubSeq(Parts(n), 1, m)) = Bytes(outCount, m)
           /\ Reach(m, n) \in 0 .. n
<1> DEFINE all == Parts(n)
           first(k) == SubSeq(all, 1, k)
           good == {k \in Nat : k <= Len(all) =>
                       /\ first(k) \in Seq(Msgs)
                       /\ BytesOf(first(k)) = After(sent, Reach(k, n))
                       /\ NoncesOf(first(k)) = Bytes(outCount, k)
                       /\ Reach(k, n) \in 0 .. n}
<1>1. /\ all \in Seq(Msgs) /\ Len(all) \in Nat
      /\ \A k \in Nat : k < Len(all) =>
            /\ all[k + 1].is = "data"
            /\ all[k + 1].nonce = outCount + k
            /\ all[k + 1].bytes = After(sent + Reach(k, n), Reach(k + 1, n) - Reach(k, n))
            /\ Reach(k, n) \in 0 .. n /\ Reach(k + 1, n) - Reach(k, n) \in Nat
    BY PartsAre, Zenon
<1> HIDE DEF all
<1>2. 0 \in good
  <2>1. first(0) = <<>>
      BY <1>1
  <2>2. <<>> \in Seq(Msgs)
      OBVIOUS
  <2>3. Reach(0, n) = 0
    <3>1. 0 * Cap = 0 /\ 0 < n
        BY DEF CapAssumption
    <3> QED
        BY <3>1 DEF Reach
  <2>4. After(sent, 0) = <<>> /\ Bytes(outCount, 0) = <<>>
      BY DEF After, Bytes
  <2>5. 0 \in 0 .. n
      OBVIOUS
  <2> HIDE DEF first
  <2>6. /\ first(0) \in Seq(Msgs)
        /\ BytesOf(first(0)) = After(sent, Reach(0, n))
        /\ NoncesOf(first(0)) = Bytes(outCount, 0)
        /\ Reach(0, n) \in 0 .. n
      BY <2>1, <2>2, <2>3, <2>4, <2>5, Carrying, Zenon
  <2> QED
      BY <2>6, Zenon
<1>3. ASSUME NEW k \in Nat, k \in good PROVE k + 1 \in good
  <2> SUFFICES ASSUME k + 1 <= Len(all)
               PROVE  /\ first(k + 1) \in Seq(Msgs)
                      /\ BytesOf(first(k + 1)) = After(sent, Reach(k + 1, n))
                      /\ NoncesOf(first(k + 1)) = Bytes(outCount, k + 1)
                      /\ Reach(k + 1, n) \in 0 .. n
      OBVIOUS
  <2> DEFINE next == all[k + 1]
             r == Reach(k, n)
             d == Reach(k + 1, n) - Reach(k, n)
  <2>1. /\ k <= Len(all) /\ k < Len(all) /\ k + 1 \in 1 .. Len(all)
      BY <1>1
  <2>2. /\ first(k) \in Seq(Msgs) /\ BytesOf(first(k)) = After(sent, r)
        /\ NoncesOf(first(k)) = Bytes(outCount, k) /\ r \in 0 .. n
      BY <1>3, <2>1, Zenon
  <2>3. /\ next.is = "data" /\ next.nonce = outCount + k
        /\ next.bytes = After(sent + r, d) /\ d \in Nat
      BY <1>1, <2>1, Zenon
  <2>4. next \in Msgs /\ <<next>> \in Seq(Msgs)
    <3>1. next \in Msgs
        BY <1>1, <2>1, ElementOfSeq, Zenon
    <3> HIDE DEF next
    <3> QED
        BY <3>1
  <2>5. first(k + 1) = first(k) \o <<next>>
    <3>1. first(k + 1) = Append(first(k), next)
        BY <1>1, <2>1
    <3> HIDE DEF first, next
    <3> QED
        BY <2>2, <2>4, <3>1, AppendIsConcat
  <2> HIDE DEF first
  <2>6. first(k + 1) \in Seq(Msgs)
      BY <2>2, <2>4, <2>5, ConcatProperties, Zenon
  <2>7. BytesOf(first(k + 1)) = After(sent, r) \o After(sent + r, d)
    <3>1. BytesOf(first(k) \o <<next>>) = BytesOf(first(k)) \o BytesOf(<<next>>)
        BY <2>2, <2>4, Carrying, Zenon
    <3>2. BytesOf(<<next>>) = next.bytes
        BY <2>4, Carrying, Zenon
    <3> QED
        BY <2>2, <2>3, <2>5, <3>1, <3>2, Zenon
  <2>8. NoncesOf(first(k + 1)) = Bytes(outCount, k) \o <<outCount + k>>
    <3>1. NoncesOf(first(k) \o <<next>>) = NoncesOf(first(k)) \o NoncesOf(<<next>>)
        BY <2>2, <2>4, Carrying, Zenon
    <3>2. Opened(next)
        BY <2>3 DEF Opened
    <3>3. NoncesOf(<<next>>) = <<next.nonce>>
        BY <2>4, <3>2, Carrying, Zenon
    <3> QED
        BY <2>2, <2>3, <2>5, <3>1, <3>3, Zenon
  <2>9. Reach(k + 1, n) = r + d /\ r + d \in 0 .. n
    <3>1. r \in Nat /\ Reach(k + 1, n) \in Int
      <4>1. (k + 1) * Cap \in Nat
          BY Products DEF CapAssumption
      <4> QED
          BY <2>2, <4>1 DEF Reach
    <3>2. Reach(k + 1, n) <= n
      <4>1. (k + 1) * Cap \in Nat
          BY Products DEF CapAssumption
      <4> QED
          BY <4>1 DEF Reach
    <3> QED
        BY <2>3, <3>1, <3>2
  <2> HIDE DEF r, d
  <2>10. After(sent, r) \o After(sent + r, d) = After(sent, r + d)
    <3>1. sent \in Nat /\ r \in Nat /\ d \in Nat
        BY <2>2, <2>3
    <3> QED
        BY <3>1, AfterGrows
  <2>11. Bytes(outCount, k) \o <<outCount + k>> = Bytes(outCount, k + 1)
    <3>1. \A i \in 1 .. k : Bytes(outCount, k)[i] = outCount + i - 1
        BY DEF Bytes
    <3>2. Bytes(outCount, k) \in Seq(Nat) /\ Len(Bytes(outCount, k)) = k
        BY DEF Bytes
    <3>3. Bytes(outCount, k + 1) \in Seq(Nat) /\ Len(Bytes(outCount, k + 1)) = k + 1
        BY DEF Bytes
    <3>4. <<outCount + k>> \in Seq(Nat) /\ Len(<<outCount + k>>) = 1
          /\ <<outCount + k>>[1] = outCount + k
        OBVIOUS
    <3> QED
        BY SMTT(60) DEF Bytes
  <2> QED
      BY <2>6, <2>7, <2>8, <2>9, <2>10, <2>11, Zenon
<1>4. \A k \in Nat : k \in good
  <2> HIDE DEF good
  <2> QED
      BY <1>2, <1>3, SetInduction
<1>5. m \in Nat /\ m <= Len(all)
    BY <1>1 DEF all
<1> QED
    BY <1>4, <1>5, Zenon DEF all

-----------------------------------------------------------------------------
(* Up: the client's bytes.                                                 *)

LEMMA SumRegroups == \A a, b, c \in Nat : a + (b + c) = (a + b) + c
OBVIOUS

LEMMA BytesGrow ==
    ASSUME NEW a \in Nat, NEW n \in Nat, NEW m \in Nat
    PROVE  /\ Bytes(a, n) \in Seq(Nat) /\ Len(Bytes(a, n)) = n
           /\ Bytes(a, n) \o Bytes(a + n, m) = Bytes(a, n + m)
<1> DEFINE s == Bytes(a, n)
           t == Bytes(a + n, m)
<1>1. /\ s \in Seq(Nat) /\ Len(s) = n /\ t \in Seq(Nat) /\ Len(t) = m
      /\ Bytes(a, n + m) \in Seq(Nat) /\ Len(Bytes(a, n + m)) = n + m
    BY DEF Bytes
<1>2. /\ \A i \in 1 .. n : s[i] = a + i - 1
      /\ \A i \in 1 .. m : t[i] = a + n + i - 1
      /\ \A i \in 1 .. n + m : Bytes(a, n + m)[i] = a + i - 1
    BY DEF Bytes
<1> HIDE DEF s, t
<1>3. /\ s \o t \in Seq(Nat) /\ Len(s \o t) = Len(s) + Len(t)
      /\ \A i \in 1 .. Len(s) + Len(t) :
            (s \o t)[i] = IF i <= Len(s) THEN s[i] ELSE t[i - Len(s)]
    BY <1>1, ConcatProperties, Zenon
<1> DEFINE both == s \o t
<1> HIDE DEF both
<1>4. \A i \in 1 .. n + m : both[i] = Bytes(a, n + m)[i]
  <2> TAKE i \in 1 .. n + m
  <2>1. both[i] = IF i <= n THEN s[i] ELSE t[i - n]
      BY <1>1, <1>3, Zenon DEF both
  <2>2. CASE i <= n
    <3>1. i \in 1 .. n
        BY <2>2
    <3> QED
        BY <1>2, <2>1, <2>2, <3>1, Zenon
  <2>3. CASE ~(i <= n)
    <3>1. i - n \in 1 .. m /\ a + n + (i - n) - 1 = a + i - 1
        BY <2>3
    <3> QED
        BY <1>2, <2>1, <2>3, <3>1, Zenon
  <2> QED
      BY <2>2, <2>3
<1>5. both \in Seq(Nat) /\ Len(both) = n + m
    BY <1>1, <1>3, Zenon DEF both
<1>6. both = Bytes(a, n + m)
    BY <1>1, <1>4, <1>5, SeqEqual
<1> QED
    BY <1>1, <1>6, Zenon DEF both, s, t

\* The first of numbers in order, and those after it.
InOrderFrom(x, rest, a, n) == <<x>> \o rest = Bytes(a, n)

LEMMA BytesHead ==
    \A a, x, n \in Nat : \A rest \in Seq(Nat) :
        InOrderFrom(x, rest, a, n)
            => x = a /\ rest = Bytes(a + 1, Len(rest)) /\ n = 1 + Len(rest)
<1> SUFFICES ASSUME NEW a \in Nat, NEW x \in Nat, NEW n \in Nat, NEW rest \in Seq(Nat),
                    <<x>> \o rest = Bytes(a, n)
             PROVE  x = a /\ rest = Bytes(a + 1, Len(rest)) /\ n = 1 + Len(rest)
    BY Zenon DEF InOrderFrom
<1> DEFINE one == <<x>>
<1>1. one \in Seq(Nat) /\ Len(one) = 1 /\ one[1] = x /\ Len(rest) \in Nat
    BY LenProperties
<1> HIDE DEF one
<1>2. /\ one \o rest \in Seq(Nat) /\ Len(one \o rest) = Len(one) + Len(rest)
      /\ \A i \in 1 .. Len(one) + Len(rest) :
            (one \o rest)[i] = IF i <= Len(one) THEN one[i] ELSE rest[i - Len(one)]
    BY <1>1, ConcatProperties, Zenon
<1>3. /\ Len(Bytes(a, n)) = n /\ \A i \in 1 .. n : Bytes(a, n)[i] = a + i - 1
      /\ one \o rest = Bytes(a, n)
    BY DEF Bytes, one
<1> DEFINE both == one \o rest
<1> HIDE DEF both
<1>4. n = 1 + Len(rest) /\ \A i \in 1 .. n : both[i] = a + i - 1
    BY <1>1, <1>2, <1>3, Zenon DEF both
<1>5. \A i \in 1 .. 1 + Len(rest) : both[i] = IF i <= 1 THEN one[i] ELSE rest[i - 1]
    BY <1>1, <1>2, Zenon DEF both
<1>6. x = a
  <2>1. 1 \in 1 .. n /\ 1 \in 1 .. 1 + Len(rest)
      BY <1>1, <1>4
  <2>2. both[1] = a + 1 - 1 /\ both[1] = one[1]
      BY <1>4, <1>5, <2>1
  <2> QED
      BY <1>1, <2>2
<1>7. \A i \in 1 .. Len(rest) : rest[i] = (a + 1) + i - 1
  <2> TAKE i \in 1 .. Len(rest)
  <2>1. i + 1 \in 1 .. n /\ ~(i + 1 <= 1) /\ (i + 1) - 1 = i /\ a + (i + 1) - 1 = (a + 1) + i - 1
      BY <1>1, <1>4
  <2>2. both[i + 1] = a + (i + 1) - 1
      BY <1>4, <2>1, Zenon
  <2>3. both[i + 1] = rest[(i + 1) - 1]
      BY <1>4, <1>5, <2>1, Zenon
  <2> QED
      BY <2>1, <2>2, <2>3, Zenon
<1>8. /\ Bytes(a + 1, Len(rest)) \in Seq(Nat) /\ Len(Bytes(a + 1, Len(rest))) = Len(rest)
      /\ \A i \in 1 .. Len(rest) : Bytes(a + 1, Len(rest))[i] = (a + 1) + i - 1
    BY <1>1 DEF Bytes
<1>9. \A i \in 1 .. Len(rest) : rest[i] = Bytes(a + 1, Len(rest))[i]
    BY <1>7, <1>8, Zenon
<1>10. rest = Bytes(a + 1, Len(rest))
    BY <1>8, <1>9, SeqEqual
<1> QED
    BY <1>4, <1>6, <1>10, Zenon

UpTypes ==
    /\ kind \in Kinds /\ phase \in Phases /\ serverUp \in BOOLEAN
    /\ sent \in Nat /\ outCount \in Nat /\ serverIn \in Nat
    /\ up \in Seq(Msgs) /\ got \in Seq(Nat)
    /\ kind.vmess => outCount <= CountLimit
    /\ phase = "upgrade" => kind.ws

\* What the server has opened and what is on its way to it is what the client
\* wrote, but for what a counter that is out keeps back.
UpWhole ==
    LET written == got \o BytesOf(up)
    IN  /\ written = Upto(Len(written)) /\ Len(written) <= sent
        /\ phase # "crashed" => Len(written) = sent

\* The server's count goes on where the nonces on their way begin, and the
\* writer's where they end.
UpCounts ==
    LET ahead == NoncesOf(up)
    IN  /\ ahead = Bytes(serverIn, Len(ahead))
        /\ kind.sealed => serverIn + Len(ahead) = outCount

UpInv == UpTypes /\ UpWhole /\ UpCounts

\* Messages that carry the client's next bytes under the counter's next nonces.
LEMMA UpAppends ==
    ASSUME UpInv, phase # "crashed", kind' = kind, got' = got, serverIn' = serverIn,
           NEW v \in Seq(Msgs), NEW r \in Nat, NEW m \in Nat, up' = up \o v,
           BytesOf(v) = After(sent, r), sent' \in Nat, sent + r <= sent',
           phase' # "crashed" => sent' = sent + r,
           NoncesOf(v) = Bytes(outCount, m), outCount' = outCount + m, m > 0 => kind.sealed
    PROVE  up' \in Seq(Msgs) /\ UpWhole' /\ UpCounts'
<1>1. /\ up \in Seq(Msgs) /\ got \in Seq(Nat) /\ sent \in Nat /\ outCount \in Nat
      /\ serverIn \in Nat
    BY DEF UpInv, UpTypes
<1>2. up' \in Seq(Msgs)
    BY <1>1, ConcatProperties
<1>3. /\ BytesOf(up') = BytesOf(up) \o BytesOf(v) /\ NoncesOf(up') = NoncesOf(up) \o NoncesOf(v)
      /\ BytesOf(up) \in Seq(Nat) /\ NoncesOf(up) \in Seq(Nat)
    BY <1>1, Carrying, Zenon
<1> DEFINE written == got \o BytesOf(up)
           more == After(sent, r)
<1>4. written = Upto(sent) /\ Len(written) = sent
    BY Zenon DEF UpInv, UpWhole
<1>5. /\ Upto(sent) \o more = Upto(sent + r) /\ more \in Seq(Nat)
      /\ Len(Upto(sent + r)) = sent + r
  <2>1. sent + r \in Nat
      BY <1>1
  <2> QED
      BY <1>1, <2>1, UptoGrows, Zenon
<1>6. got' \o BytesOf(up') = Upto(sent + r)
  <2>1. (got \o BytesOf(up)) \o BytesOf(v) = got \o (BytesOf(up) \o BytesOf(v))
    <3>1. BytesOf(v) \in Seq(Nat)
        BY <1>5, Zenon
    <3> QED
        BY <1>1, <1>3, <3>1, ConcatNat, Zenon
  <2> QED
      BY <1>3, <1>4, <1>5, <2>1, Zenon
<1>7. UpWhole'
  <2> DEFINE after == got' \o BytesOf(up')
  <2>1. Len(after) = sent + r /\ after = Upto(Len(after))
      BY <1>5, <1>6, Zenon
  <2>2. BytesOf(up)' = BytesOf(up')
      BY Zenon DEF BytesOf
  <2> HIDE DEF after
  <2>3. Len(after) <= sent' /\ (phase' # "crashed" => Len(after) = sent')
      BY <2>1
  <2> QED
      BY <2>1, <2>2, <2>3, Zenon DEF UpWhole, after, Upto
<1>8. UpCounts'
  <2> DEFINE ahead == NoncesOf(up)
             after == NoncesOf(up')
  <2>1. NoncesOf(up)' = after
      BY DEF NoncesOf, Opened
  <2>2. /\ ahead = Bytes(serverIn, Len(ahead)) /\ Len(ahead) \in Nat
        /\ kind.sealed => serverIn + Len(ahead) = outCount
    <3>1. Len(ahead) \in Nat
        BY <1>3, LenProperties, Zenon
    <3> QED
        BY <3>1, Zenon DEF UpInv, UpCounts
  <2>3. after = ahead \o Bytes(outCount, m)
      BY <1>3, Zenon
  <2> HIDE DEF ahead, after
  <2>4. after = Bytes(serverIn, Len(ahead) + m) /\ Len(after) = Len(ahead) + m
    <3>1. CASE m = 0
      <4>1. Bytes(outCount, m) = <<>>
          BY <3>1 DEF Bytes
      <4>2. ahead \o <<>> = ahead
          BY <1>3, ConcatEmpty, Zenon DEF ahead
      <4>3. Len(ahead) + m = Len(ahead)
          BY <2>2, <3>1
      <4> QED
          BY <2>2, <2>3, <4>1, <4>2, <4>3, Zenon
    <3>2. CASE m > 0
      <4>1. outCount = serverIn + Len(ahead) /\ Len(ahead) + m \in Nat
          BY <2>2, <3>2
      <4>2. /\ Bytes(serverIn, Len(ahead)) \o Bytes(serverIn + Len(ahead), m)
                  = Bytes(serverIn, Len(ahead) + m)
            /\ Len(Bytes(serverIn, Len(ahead) + m)) = Len(ahead) + m
        <5>1. serverIn \in Nat /\ Len(ahead) \in Nat
            BY <1>1, <2>2
        <5> QED
            BY <4>1, <5>1, BytesGrow
      <4> QED
          BY <2>2, <2>3, <4>1, <4>2, Zenon
    <3> QED
        BY <3>1, <3>2
  <2>5. kind'.sealed => serverIn' + Len(after) = outCount'
    <3> SUFFICES ASSUME kind'.sealed PROVE serverIn' + Len(after) = outCount'
        OBVIOUS
    <3>1. serverIn + Len(ahead) = outCount
        BY <2>2, Zenon
    <3>2. serverIn + (Len(ahead) + m) = outCount + m
      <4>1. serverIn \in Nat /\ Len(ahead) \in Nat /\ m \in Nat
          BY <1>1, <2>2
      <4>2. serverIn + (Len(ahead) + m) = (serverIn + Len(ahead)) + m
          BY <4>1, SumRegroups, Zenon
      <4> QED
          BY <3>1, <4>2, Zenon
    <3> QED
        BY <2>4, <3>2, Zenon
  <2> QED
      BY <2>1, <2>4, <2>5, Zenon DEF UpCounts, Bytes
<1> QED
    BY <1>2, <1>7, <1>8, Zenon

\* A message without the client's bytes that is not sealed.
LEMMA UpQuiet ==
    ASSUME UpInv, phase # "crashed", UNCHANGED <<kind, sent, outCount, got, serverIn>>,
           NEW m \in Msgs, m.bytes = <<>>, ~Opened(m), up' = Append(up, m)
    PROVE  up' \in Seq(Msgs) /\ UpWhole' /\ UpCounts'
<1>1. up \in Seq(Msgs) /\ sent \in Nat /\ outCount \in Nat
    BY DEF UpInv, UpTypes
<1>2. <<m>> \in Seq(Msgs) /\ up' = up \o <<m>>
    BY <1>1, AppendIsConcat
<1>3. BytesOf(<<m>>) = <<>> /\ NoncesOf(<<m>>) = <<>>
    BY Carrying, Zenon
<1>4. After(sent, 0) = <<>> /\ Bytes(outCount, 0) = <<>>
    BY DEF After, Bytes
<1>5. sent + 0 = sent /\ outCount + 0 = outCount /\ sent <= sent /\ ~(0 > 0)
    BY <1>1
<1>6. /\ BytesOf(<<m>>) = After(sent, 0) /\ NoncesOf(<<m>>) = Bytes(outCount, 0)
      /\ sent' = sent + 0 /\ sent' \in Nat /\ sent + 0 <= sent' /\ outCount' = outCount + 0
    BY <1>1, <1>3, <1>4, <1>5, Zenon
<1> QED
    BY <1>2, <1>5, <1>6, UpAppends, Zenon

\* A write brings the client's next bytes under the counter's next nonces, or as
\* many of them as the counter has left before the process goes.
LEMMA UpWrite ==
    ASSUME CapAssumption, MaxUp \in Nat, UpInv, NEW n \in 1 .. MaxUp, Write(n)
    PROVE  up' \in Seq(Msgs) /\ UpWhole' /\ UpCounts'
<1>1. /\ up \in Seq(Msgs) /\ sent \in Nat /\ outCount \in Nat
      /\ CountLimit \in Nat /\ n \in Nat \ {0} /\ n \in Nat
      /\ kind.vmess => outCount <= CountLimit
    BY DEF UpInv, UpTypes, CapAssumption
<1>2. /\ phase # "crashed" /\ kind' = kind /\ got' = got /\ serverIn' = serverIn
      /\ sent' = sent + n
    BY DEF Write, serverVars
<1>3. sent' \in Nat
    BY <1>1, <1>2
<1>4. CASE WriteSealed(n)
  <2> DEFINE all   == Parts(n)
             out   == kind.vmess /\ outCount + Len(all) > CountLimit
             m     == IF out THEN CountLimit - outCount ELSE Len(all)
             parts == SubSeq(all, 1, m)
  <2>1. all \in Seq(Msgs) /\ Len(all) \in Nat /\ Reach(Len(all), n) = n
      BY <1>1, PartsAre, Zenon
  <2>2. /\ kind.sealed
        /\ up' = up \o (IF out THEN SubSeq(all, 1, CountLimit - outCount) ELSE all)
        /\ outCount' = outCount + Len(IF out THEN SubSeq(all, 1, CountLimit - outCount) ELSE all)
        /\ phase' = IF out THEN "crashed" ELSE phase
      BY <1>4, Zenon DEF WriteSealed
  <2> HIDE DEF all
  <2>3. m \in 0 .. Len(all) /\ (~out => m = Len(all))
    <3>1. CASE out
      <4>1. outCount <= CountLimit /\ outCount + Len(all) > CountLimit
          BY <1>1, <3>1
      <4>2. CountLimit - outCount \in 0 .. Len(all)
          BY <1>1, <2>1, <4>1
      <4> QED
          BY <3>1, <4>2
    <3>2. CASE ~out
      <4>1. Len(all) \in 0 .. Len(all)
          BY <2>1
      <4> QED
          BY <3>2, <4>1, Zenon
    <3> QED
        BY <3>1, <3>2
  <2>4. SubSeq(all, 1, Len(all)) = all
      BY <2>1, SubSeqFull, Zenon
  <2>5. /\ parts = (IF out THEN SubSeq(all, 1, CountLimit - outCount) ELSE all)
        /\ Len(parts) = m
    <3>1. Len(parts) = m
        BY <2>1, <2>3
    <3> QED
        BY <2>4, <3>1, Zenon
  <2>6. /\ parts \in Seq(Msgs) /\ BytesOf(parts) = After(sent, Reach(m, n))
        /\ NoncesOf(parts) = Bytes(outCount, m) /\ Reach(m, n) \in 0 .. n
      BY <1>1, <2>2, <2>3, PartsCarry, Zenon DEF all
  <2>7. phase' # "crashed" => Reach(m, n) = n
      BY <2>1, <2>2, <2>3, Zenon
  <2>8. up' = up \o parts /\ outCount' = outCount + m
      BY <2>2, <2>5, Zenon
  <2>9. m \in Nat
      BY <2>3, <2>1
  <2> HIDE DEF m, parts, out
  <2>10. /\ Reach(m, n) \in Nat /\ sent + Reach(m, n) <= sent'
         /\ phase' # "crashed" => sent' = sent + Reach(m, n)
    <3> DEFINE r == Reach(m, n)
    <3>1. r \in 0 .. n /\ n \in Nat /\ sent \in Nat /\ (phase' # "crashed" => r = n)
        BY <1>1, <2>6, <2>7, Zenon
    <3> HIDE DEF r
    <3>2. r \in Nat /\ sent + r <= sent + n
        BY <3>1
    <3>3. r \in Nat /\ sent + r <= sent' /\ (phase' # "crashed" => sent' = sent + r)
        BY <1>2, <3>1, <3>2, Zenon
    <3> QED
        BY <3>3 DEF r
  <2> QED
      BY <1>2, <1>3, <2>2, <2>6, <2>8, <2>9, <2>10, UpAppends, Zenon
<1>5. CASE WriteRaw(n)
  <2> DEFINE m == Message("data", Bytes(sent + 1, n), 0)
  <2>1. up' = Append(up, m) /\ ~kind.sealed /\ outCount' = outCount
      BY <1>5 DEF WriteRaw
  <2>2. Bytes(sent + 1, n) = After(sent, n) /\ After(sent, n) \in Seq(Nat)
      BY <1>1, BytesAreAfter, UptoGrows, Zenon
  <2>3. m \in Msgs /\ m.bytes = After(sent, n) /\ ~Opened(m)
    <3>1. ~Opened(m)
        BY <2>1, Zenon DEF Opened
    <3> QED
        BY <2>2, <3>1 DEF Message, Msgs
  <2> HIDE DEF m
  <2>4. <<m>> \in Seq(Msgs) /\ up' = up \o <<m>>
      BY <1>1, <2>1, <2>3, AppendIsConcat
  <2>5. BytesOf(<<m>>) = After(sent, n) /\ NoncesOf(<<m>>) = <<>>
      BY <2>3, Carrying, Zenon
  <2>6. Bytes(outCount, 0) = <<>>
      BY DEF Bytes
  <2>7. outCount + 0 = outCount /\ ~(0 > 0) /\ sent + n <= sent + n
      BY <1>1
  <2>8. /\ NoncesOf(<<m>>) = Bytes(outCount, 0) /\ outCount' = outCount + 0
        /\ sent + n <= sent'
      BY <1>2, <2>1, <2>5, <2>6, <2>7, Zenon
  <2> QED
      BY <1>1, <1>2, <1>3, <2>4, <2>5, <2>7, <2>8, UpAppends, Zenon
<1> QED
    BY <1>4, <1>5, Zenon DEF Write

\* The server reads what it was sent: it opens, and goes on where it was.
LEMMA UpServerReads ==
    ASSUME UpInv, ServerReads
    PROVE  /\ up' \in Seq(Msgs) /\ got' \in Seq(Nat) /\ serverIn' \in Nat
           /\ serverUp' = serverUp
           /\ UpWhole' /\ UpCounts'
<1> DEFINE m == Head(up)
           t == Tail(up)
<1>1. /\ up \in Seq(Msgs) /\ up # <<>> /\ got \in Seq(Nat) /\ sent \in Nat /\ serverIn \in Nat
    BY DEF UpInv, UpTypes, ServerReads
<1>2. /\ m \in Msgs /\ t \in Seq(Msgs) /\ <<m>> \in Seq(Msgs) /\ up = <<m>> \o t
  <2>1. m \in Msgs /\ t \in Seq(Msgs)
      BY <1>1
  <2>2. Len(up) \in Nat \ {0} /\ \A i \in 1 .. Len(up) : up[i] \in Msgs
      BY <1>1, EmptySeq, LenProperties, ElementOfSeq
  <2>3. up = <<m>> \o t
      BY <1>1, <2>1, <2>2
  <2> HIDE DEF m
  <2> QED
      BY <2>1, <2>3
<1>3. /\ IF Opened(m) /\ m.nonce # serverIn
         THEN serverUp' = FALSE /\ UNCHANGED <<got, serverIn>>
         ELSE /\ got' = got \o m.bytes
              /\ serverIn' = IF Opened(m) THEN serverIn + 1 ELSE serverIn
              /\ UNCHANGED serverUp
      /\ up' = t /\ UNCHANGED <<kind, sent, outCount, phase>>
    BY Zenon DEF ServerReads
<1> HIDE DEF m, t
<1>4. /\ BytesOf(up) = BytesOf(<<m>>) \o BytesOf(t) /\ NoncesOf(up) = NoncesOf(<<m>>) \o NoncesOf(t)
      /\ BytesOf(t) \in Seq(Nat) /\ NoncesOf(t) \in Seq(Nat) /\ BytesOf(<<m>>) = m.bytes
      /\ BytesOf(<<m>>) \in Seq(Nat)
      /\ NoncesOf(<<m>>) = IF Opened(m) THEN <<m.nonce>> ELSE <<>>
    BY <1>2, Carrying, Zenon
<1>5. m.nonce \in Nat
    BY <1>2 DEF Msgs
<1> DEFINE ahead == NoncesOf(up)
           rest  == NoncesOf(t)
<1>6. /\ ahead = Bytes(serverIn, Len(ahead)) /\ Len(ahead) \in Nat
      /\ kind.sealed => serverIn + Len(ahead) = outCount
  <2>1. Len(ahead) \in Nat
      BY <1>1, Carrying, LenProperties, Zenon
  <2> QED
      BY <2>1, Zenon DEF UpInv, UpCounts
<1>7. Len(rest) \in Nat
    BY <1>4, LenProperties, Zenon
<1>8. /\ Opened(m) => /\ m.nonce = serverIn
                      /\ rest = Bytes(serverIn + 1, Len(rest))
                      /\ Len(ahead) = 1 + Len(rest)
      /\ ~Opened(m) => ahead = rest
  <2>1. CASE Opened(m)
    <3>1. InOrderFrom(m.nonce, rest, serverIn, Len(ahead)) /\ rest \in Seq(Nat)
        BY <1>4, <1>6, <2>1, Zenon DEF InOrderFrom
    <3> HIDE DEF rest, ahead
    <3>2. serverIn \in Nat /\ m.nonce \in Nat /\ Len(ahead) \in Nat
        BY <1>1, <1>5, <1>6, Zenon
    <3>3. m.nonce = serverIn /\ rest = Bytes(serverIn + 1, Len(rest)) /\ Len(ahead) = 1 + Len(rest)
        BY <3>1, <3>2, BytesHead, Zenon
    <3> QED
        BY <2>1, <3>3
  <2>2. CASE ~Opened(m)
      BY <1>4, <2>2, ConcatEmpty, Zenon
  <2> QED
      BY <2>1, <2>2
<1>9. /\ got' = got \o m.bytes /\ serverIn' = (IF Opened(m) THEN serverIn + 1 ELSE serverIn)
      /\ serverUp' = serverUp
    BY <1>3, <1>8, Zenon
<1>10. got' \in Seq(Nat) /\ serverIn' \in Nat
  <2>1. got' \in Seq(Nat)
      BY <1>1, <1>4, <1>9, ConcatType, Zenon
  <2>2. serverIn' \in Nat
      BY <1>1, <1>9
  <2> QED
      BY <2>1, <2>2
<1>11. UpWhole'
  <2>1. got' \o BytesOf(t) = got \o BytesOf(up)
    <3>1. /\ got \in Seq(Nat) /\ m.bytes \in Seq(Nat) /\ BytesOf(t) \in Seq(Nat)
          /\ BytesOf(up) = m.bytes \o BytesOf(t)
        BY <1>1, <1>4, Zenon
    <3>2. (got \o m.bytes) \o BytesOf(t) = got \o (m.bytes \o BytesOf(t))
        BY <3>1, ConcatNat, Zenon
    <3> QED
        BY <1>9, <3>1, <3>2, Zenon
  <2>2. BytesOf(up)' = BytesOf(t)
      BY <1>3, Zenon DEF BytesOf
  <2>3. (got \o BytesOf(up))' = got \o BytesOf(up)
      BY <2>1, <2>2, Zenon
  <2> QED
      BY <1>3, <2>3, Zenon DEF UpInv, UpWhole, Upto
<1>12. UpCounts'
  <2>1. NoncesOf(up)' = rest
      BY <1>3 DEF NoncesOf, Opened
  <2> HIDE DEF ahead, rest
  <2>2. rest = Bytes(serverIn', Len(rest))
      BY <1>6, <1>8, <1>9, Zenon
  <2>3. kind.sealed => serverIn' + Len(rest) = outCount
    <3> SUFFICES ASSUME kind.sealed PROVE serverIn' + Len(rest) = outCount
        OBVIOUS
    <3>1. serverIn + Len(ahead) = outCount
        BY <1>6, Zenon
    <3>2. CASE Opened(m)
      <4>1. serverIn' = serverIn + 1 /\ Len(ahead) = 1 + Len(rest)
          BY <1>8, <1>9, <3>2, Zenon
      <4>2. serverIn + (1 + Len(rest)) = (serverIn + 1) + Len(rest)
          BY <1>1, <1>7, SumRegroups
      <4> QED
          BY <3>1, <4>1, <4>2, Zenon
    <3>3. CASE ~Opened(m)
        BY <1>8, <1>9, <3>1, <3>3, Zenon
    <3> QED
        BY <3>2, <3>3
  <2> QED
      BY <1>3, <2>1, <2>2, <2>3, Zenon DEF UpCounts, Bytes
<1> QED
    BY <1>2, <1>3, <1>9, <1>10, <1>11, <1>12, Zenon

LEMMA UpInit == KindsAssumption /\ CapAssumption /\ Init => UpInv
<1> SUFFICES ASSUME KindsAssumption, CapAssumption, Init PROVE UpInv
    OBVIOUS
<1>1. Request \in Msgs /\ Request.bytes = <<>> /\ Request.nonce = 0 /\ Request.is = "request"
    BY DEF Request, Message, Msgs
<1>2. <<Request>> \in Seq(Msgs) /\ <<>> \in Seq(Msgs) /\ <<>> \in Seq(Nat)
  <2> HIDE DEF Request
  <2> QED
      BY <1>1
<1>3. /\ kind \in Kinds /\ sent = 0 /\ got = <<>> /\ serverIn = 0 /\ serverUp = TRUE
      /\ outCount = IF kind.opensSealed THEN 1 ELSE 0
      /\ up = IF kind.ws THEN <<>> ELSE <<Request>>
      /\ phase = IF kind.ws THEN "upgrade" ELSE "open"
    BY Zenon DEF Init
<1>4. kind.opensSealed => kind.sealed /\ ~kind.ws /\ ~kind.vmess
    BY <1>3, Zenon DEF KindsAssumption
<1>5. CountLimit \in Nat /\ CountLimit >= 1
    BY DEF CapAssumption
<1>6. UpTypes
    BY <1>2, <1>3, <1>5 DEF UpTypes, Phases
<1>7. BytesOf(up) = <<>>
    BY <1>1, <1>2, <1>3, Carrying, Zenon
<1>8. UpWhole
  <2>1. <<>> \o <<>> = <<>>
      BY <1>2, ConcatEmpty, Zenon
  <2>2. Len(<<>>) = 0 /\ Upto(0) = <<>> /\ 0 <= 0
      BY DEF Upto
  <2>3. got \o BytesOf(up) = <<>>
      BY <1>3, <1>7, <2>1, Zenon
  <2> QED
      BY <1>3, <2>2, <2>3, Zenon DEF UpWhole
<1>9. UpCounts
  <2>1. CASE kind.opensSealed
    <3>1. NoncesOf(up) = <<0>>
      <4>1. up = <<Request>>
          BY <1>3, <1>4, <2>1, Zenon
      <4>2. Opened(Request)
          BY <1>1, <1>4, <2>1, Zenon DEF Opened
      <4> QED
          BY <1>1, <4>1, <4>2, Carrying, Zenon
    <3>2. <<0>> = Bytes(0, 1) /\ Len(<<0>>) = 1 /\ 0 + 1 = 1
        BY DEF Bytes
    <3> QED
        BY <1>3, <2>1, <3>1, <3>2, Zenon DEF UpCounts
  <2>2. CASE ~kind.opensSealed
    <3>1. ~Opened(Request)
        BY <1>1, <2>2 DEF Opened
    <3>2. NoncesOf(up) = <<>>
        BY <1>1, <1>3, <3>1, Carrying, Zenon
    <3>3. <<>> = Bytes(0, 0) /\ Len(<<>>) = 0 /\ 0 + 0 = 0
        BY DEF Bytes
    <3> QED
        BY <1>3, <2>2, <3>2, <3>3, Zenon DEF UpCounts
  <2> QED
      BY <2>1, <2>2
<1> QED
    BY <1>6, <1>8, <1>9 DEF UpInv

LEMMA UpStep ==
    ASSUME KindsAssumption, CapAssumption, BoundsAssumption, CountInv', UpInv, [Next]_vars
    PROVE  UpInv'
<1>0. /\ kind \in Kinds /\ phase \in Phases /\ serverUp \in BOOLEAN
      /\ sent \in Nat /\ outCount \in Nat /\ serverIn \in Nat /\ got \in Seq(Nat)
      /\ kind.vmess => outCount <= CountLimit
      /\ phase = "upgrade" => kind.ws
      /\ UpTypes /\ UpWhole /\ UpCounts /\ up \in Seq(Msgs)
    BY DEF UpInv, UpTypes
<1>1. ASSUME UNCHANGED <<kind, sent, outCount, up, got, serverIn>>,
             phase' = "crashed" <=> phase = "crashed", phase' \in Phases,
             phase' = "upgrade" => phase = "upgrade", serverUp' \in BOOLEAN
      PROVE  UpInv'
  <2>1. UpTypes'
      BY <1>0, <1>1, Zenon DEF UpTypes, Msgs
  <2>2. UpWhole'
      BY <1>0, <1>1, Zenon DEF UpWhole, BytesOf, Upto
  <2>3. UpCounts'
      BY <1>0, <1>1, Zenon DEF UpCounts, NoncesOf, Opened, Bytes
  <2> QED
      BY <2>1, <2>2, <2>3 DEF UpInv
<1>2. ASSUME NEW n \in 1 .. MaxUp, Write(n) PROVE UpInv'
  <2>1. up' \in Seq(Msgs) /\ UpWhole' /\ UpCounts'
      BY <1>2, UpWrite DEF BoundsAssumption
  <2>2. /\ kind' = kind /\ serverUp' = serverUp
        /\ sent' = sent + n /\ got' = got /\ serverIn' = serverIn
      BY <1>2 DEF Write, serverVars
  <2>3. phase' \in Phases /\ phase' # "upgrade"
    <3>1. phase \in {"open", "ended"} /\ (phase' = phase \/ phase' = "crashed")
        BY <1>2, Zenon DEF Write, WriteSealed, WriteRaw
    <3> QED
        BY <3>1 DEF Phases
  <2>4. sent' \in Nat /\ outCount' \in Nat /\ (kind'.vmess => outCount' <= CountLimit)
    <3>1. sent' \in Nat
        BY <1>0, <2>2 DEF BoundsAssumption
    <3> QED
        BY <3>1 DEF CountInv
  <2> QED
      BY <1>0, <2>1, <2>2, <2>3, <2>4, Zenon DEF UpInv, UpTypes, Msgs
<1>3. ASSUME UNCHANGED <<kind, sent, outCount, got, serverIn, serverUp>>, phase # "crashed",
             phase' \in Phases \ {"upgrade"},
             NEW m \in Msgs, m.bytes = <<>>, ~Opened(m), up' = Append(up, m)
      PROVE  UpInv'
  <2>1. up' \in Seq(Msgs) /\ UpWhole' /\ UpCounts'
      BY <1>3, UpQuiet, Zenon
  <2> QED
      BY <1>0, <1>3, <2>1, Zenon DEF UpInv, UpTypes, Msgs
<1>4. CASE FaceCloses
  <2>1. /\ UNCHANGED <<kind, sent, outCount, got, serverIn, serverUp>>
        /\ phase \in {"open", "ended", "failed"} /\ phase' = "closed"
        /\ up' = IF kind.vmess THEN Append(up, Message("end", <<>>, 0)) ELSE up
      BY <1>4, Zenon DEF FaceCloses, serverVars
  <2>2. phase # "crashed" /\ phase' \in Phases \ {"upgrade"}
      BY <2>1 DEF Phases
  <2>3. CASE kind.vmess
    <3> DEFINE m == Message("end", <<>>, 0)
    <3>1. m \in Msgs /\ m.bytes = <<>> /\ ~Opened(m)
        BY DEF Message, Msgs, Opened
    <3> HIDE DEF m
    <3>2. up' = Append(up, m)
        BY <2>1, <2>3, Zenon DEF m
    <3> QED
        BY <1>3, <2>1, <2>2, <3>1, <3>2, Zenon
  <2>4. CASE ~kind.vmess
    <3>1. /\ UNCHANGED <<kind, sent, outCount, up, got, serverIn>>
          /\ phase' # "crashed" /\ phase' # "upgrade" /\ phase' \in Phases /\ serverUp' \in BOOLEAN
        BY <1>0, <2>1, <2>2, <2>4
    <3> QED
        BY <1>1, <2>2, <3>1, Zenon
  <2> QED
      BY <2>3, <2>4
<1>5. CASE ServerReads
  <2>1. /\ up' \in Seq(Msgs) /\ got' \in Seq(Nat) /\ serverIn' \in Nat
        /\ serverUp' = serverUp /\ UpWhole' /\ UpCounts'
      BY <1>5, UpServerReads, Zenon
  <2>2. UNCHANGED <<kind, sent, outCount, phase>>
      BY <1>5, Zenon DEF ServerReads
  <2> QED
      BY <1>0, <2>1, <2>2, Zenon DEF UpInv, UpTypes, Msgs
<1>6. CASE Upgrade
  <2>1. /\ UNCHANGED <<kind, sent, outCount, got, serverIn, serverUp>>
        /\ phase = "upgrade" /\ phase' = "open" /\ up' = Append(up, Request)
      BY <1>6, Zenon DEF Upgrade, serverVars
  <2>2. phase # "crashed" /\ phase' \in Phases \ {"upgrade"}
      BY <2>1 DEF Phases
  <2>3. Request \in Msgs /\ Request.bytes = <<>> /\ ~Opened(Request)
    <3>1. ~kind.opensSealed
        BY <1>0, <2>1, Zenon DEF KindsAssumption
    <3> QED
        BY <3>1 DEF Request, Message, Msgs, Opened
  <2> QED
      BY <1>3, <2>1, <2>2, <2>3, Zenon
<1>7. CASE PullFrame
  <2>1. /\ UNCHANGED <<kind, sent, outCount, got, serverIn, serverUp>>
        /\ phase = "open" /\ phase' = phase
        /\ up' = IF Head(in).is = "ping" THEN Append(up, Message("pong", <<>>, 0)) ELSE up
      BY <1>7, Zenon DEF PullFrame, serverVars
  <2>2. phase # "crashed" /\ phase' \in Phases \ {"upgrade"} /\ phase' # "crashed"
      BY <2>1 DEF Phases
  <2>3. CASE Head(in).is = "ping"
    <3> DEFINE m == Message("pong", <<>>, 0)
    <3>1. m \in Msgs /\ m.bytes = <<>> /\ ~Opened(m)
        BY DEF Message, Msgs, Opened
    <3> HIDE DEF m
    <3>2. up' = Append(up, m)
        BY <2>1, <2>3, Zenon DEF m
    <3> QED
        BY <1>3, <2>1, <2>2, <3>1, <3>2, Zenon
  <2>4. CASE Head(in).is # "ping"
    <3>1. /\ UNCHANGED <<kind, sent, outCount, up, got, serverIn>>
          /\ phase' # "crashed" /\ phase' # "upgrade" /\ phase' \in Phases /\ serverUp' \in BOOLEAN
        BY <1>0, <2>1, <2>2, <2>4
    <3> QED
        BY <1>1, <2>2, <3>1, Zenon
  <2> QED
      BY <2>3, <2>4
<1>8. CASE ReadHeader \/ ReadSize \/ ReadChunk \/ ReadAny \/ ReadPastEnd \/ Refused
           \/ SocketCloses \/ UNCHANGED vars
  <2>1. UNCHANGED <<kind, sent, outCount, up, got, serverIn>> /\ serverUp' \in BOOLEAN
      BY <1>0, <1>8, Zenon DEF ReadHeader, ReadSize, ReadChunk, ReadAny, ReadPastEnd, Refused,
                               SocketCloses, vars, upVars, serverVars
  <2>2. \/ phase' = phase
        \/ phase \in {"open", "upgrade"} /\ phase' \in {"open", "ended", "failed", "refused"}
      BY <1>8 DEF ReadHeader, ReadSize, ReadChunk, ReadAny, ReadPastEnd, Refused, Reads,
                  SocketCloses, vars
  <2>3. phase' \in Phases /\ (phase' = "upgrade" => phase = "upgrade")
        /\ (phase' = "crashed" <=> phase = "crashed")
      BY <1>0, <2>2 DEF Phases
  <2> QED
      BY <1>1, <2>1, <2>3, Zenon
<1>9. CASE Server
  <2>1. CASE ServerReads
      BY <1>5, <2>1
  <2>2. CASE ~ServerReads
    <3>1. /\ UNCHANGED <<kind, sent, outCount, up, got, serverIn, phase>>
          /\ serverUp' = serverUp \/ serverUp' = FALSE
        BY <1>9, <2>2, Zenon DEF Server, ServerEnds, ServerReplies, ServerSends, ServerPings, upVars
    <3>2. serverUp' \in BOOLEAN
        BY <1>0, <3>1
    <3> QED
        BY <1>0, <1>1, <3>1, <3>2, Zenon
  <2> QED
      BY <2>1, <2>2
<1> QED
    BY <1>2, <1>4, <1>6, <1>7, <1>8, <1>9, Zenon DEF Next, Reader

LEMMA UpAlways ==
    ASSUME KindsAssumption, CapAssumption, BoundsAssumption
    PROVE  Spec => []UpInv
<1>1. Init => UpInv
    BY UpInit
<1>2. Init => CountInv
    BY CountInit
<1>3. CountInv /\ [Next]_vars => CountInv'
    BY CountStep DEF BoundsAssumption
<1>4. CountInv' /\ UpInv /\ [Next]_vars => UpInv'
    BY UpStep
<1> QED
    BY <1>1, <1>2, <1>3, <1>4, PTL DEF Spec

LEMMA WholeIsBytes == \A n \in Nat : Bytes(1, n) = Upto(n)
<1> TAKE n \in Nat
<1>1. \A i \in 1 .. n : 1 + i - 1 = i
    OBVIOUS
<1> QED
    BY <1>1, Zenon DEF Bytes, Upto

\* However writes are cut into chunks and mixed with pongs, for every chunk size
\* and counter: the server gets the client's bytes in order, each once, unless
\* the process is gone: write() of the framed faces.
THEOREM UpstreamInOrder ==
    ASSUME KindsAssumption, CapAssumption, BoundsAssumption
    PROVE  Spec => []UpInOrder
<1>1. UpInv => UpInOrder
  <2> SUFFICES ASSUME UpInv PROVE UpInOrder
      OBVIOUS
  <2> DEFINE written == got \o BytesOf(up)
  <2>1. /\ written = Upto(Len(written)) /\ (phase # "crashed" => Len(written) = sent)
        /\ got \in Seq(Nat) /\ up \in Seq(Msgs)
      BY Zenon DEF UpInv, UpWhole, UpTypes
  <2>2. Len(written) \in Nat
    <3>1. BytesOf(up) \in Seq(Nat)
        BY <2>1, Carrying, Zenon
    <3>2. written \in Seq(Nat)
        BY <2>1, <3>1, ConcatType, Zenon
    <3> QED
        BY <3>2, LenProperties, Zenon
  <2>3. written = Bytes(1, Len(written))
      BY <2>1, <2>2, WholeIsBytes, Zenon
  <2> QED
      BY <2>1, <2>3, Zenon DEF UpInOrder
<1> QED
    BY <1>1, UpAlways, PTL

\* Writer and server count alike, for every kind of node: each chunk on its way
\* opens under the nonce that the server has come to.
THEOREM UpstreamInStep ==
    ASSUME KindsAssumption, CapAssumption, BoundsAssumption
    PROVE  Spec => []UpInStep
<1>1. UpInv => UpInStep
    BY Zenon DEF UpInv, UpCounts, UpInStep
<1> QED
    BY <1>1, UpAlways, PTL

GotStream ==
    /\ got \in Seq(Nat) /\ sent \in Nat /\ Len(got) \in Nat /\ Len(got) <= sent
    /\ got = Upto(Len(got))

LEMMA GotIsStream == UpInv => GotStream
<1> SUFFICES ASSUME UpInv PROVE GotStream
    OBVIOUS
<1>1. got \in Seq(Nat) /\ up \in Seq(Msgs) /\ sent \in Nat
    BY DEF UpInv, UpTypes
<1>2. BytesOf(up) \in Seq(Nat)
    BY <1>1, Carrying, Zenon
<1> DEFINE written == got \o BytesOf(up)
<1>3. written = Upto(Len(written)) /\ Len(written) <= sent
    BY Zenon DEF UpInv, UpWhole
<1>4. Len(written) \in Nat
    BY <1>1, <1>2, ConcatType, LenProperties, Zenon
<1> DEFINE n == Len(written)
<1>5. got \o BytesOf(up) = Upto(n) /\ n \in Nat /\ n <= sent
    BY <1>3, <1>4, Zenon
<1> HIDE DEF n, written
<1>6. Len(got) \in 0 .. n /\ got = Upto(Len(got))
    BY <1>1, <1>2, <1>5, PrefixOfUpto, Zenon
<1>7. Len(got) \in Nat /\ Len(got) <= sent
    BY <1>1, <1>5, <1>6
<1> QED
    BY <1>1, <1>6, <1>7, Zenon DEF GotStream

\* What a step does to what the server has opened.
LEMMA GotGrows ==
    ASSUME UpInv, MaxUp \in Nat, [Next]_vars
    PROVE  /\ sent' \in Nat /\ sent <= sent'
           /\ Len(got) <= Len(got') /\ (~serverUp => got' = got)
           /\ serverUp' = serverUp \/ ~serverUp'
           /\ ~serverUp => ~serverUp'
<1>1. /\ sent \in Nat /\ got \in Seq(Nat) /\ up \in Seq(Msgs) /\ serverUp \in BOOLEAN
      /\ Len(got) \in Nat
    BY LenProperties DEF UpInv, UpTypes
<1>2. CASE UNCHANGED <<sent, got>> /\ (serverUp' = serverUp \/ serverUp' = FALSE)
    BY <1>1, <1>2
<1>3. ASSUME NEW n \in 1 .. MaxUp, Write(n)
      PROVE  sent' = sent + n /\ got' = got /\ serverUp' = serverUp
    BY <1>3 DEF Write, serverVars
<1>4. CASE ServerReads
  <2>1. sent' = sent /\ serverUp = TRUE /\ (serverUp' = serverUp \/ serverUp' = FALSE)
      BY <1>4, Zenon DEF ServerReads
  <2>2. got' = got \/ got' = got \o Head(up).bytes
      BY <1>4, Zenon DEF ServerReads
  <2>3. Head(up) \in Msgs
    <3>1. up # <<>>
        BY <1>4 DEF ServerReads
    <3> QED
        BY <1>1, <3>1
  <2>4. Head(up).bytes \in Seq(Nat)
      BY <2>3 DEF Msgs
  <2> DEFINE b == Head(up).bytes
  <2> HIDE DEF b
  <2>5. Len(got \o b) = Len(got) + Len(b) /\ Len(b) \in Nat
      BY <1>1, <2>4, ConcatProperties, LenProperties, Zenon DEF b
  <2>6. Len(got) <= Len(got')
    <3>1. got' = got \/ got' = got \o b
        BY <2>2 DEF b
    <3>2. Len(got) <= Len(got) + Len(b) /\ Len(got) <= Len(got)
        BY <1>1, <2>5
    <3> QED
        BY <2>5, <3>1, <3>2, Zenon
  <2>7. sent' \in Nat /\ sent <= sent'
      BY <1>1, <2>1
  <2> QED
      BY <1>1, <2>1, <2>6, <2>7, Zenon
<1>5. CASE FaceCloses \/ Refused \/ Reader \/ SocketCloses \/ UNCHANGED vars
  <2>1. UNCHANGED <<sent, got>> /\ (serverUp' = serverUp \/ serverUp' = FALSE)
      BY <1>5, Zenon DEF FaceCloses, Refused, Reader, SocketCloses, Upgrade, PullFrame, ReadHeader,
                         ReadSize, ReadChunk, ReadAny, ReadPastEnd, vars, upVars, serverVars
  <2> QED
      BY <1>2, <2>1
<1>6. CASE ServerEnds \/ (\E n \in 1 .. MaxDown : ServerReplies(n))
           \/ (\E k \in DOMAIN reply : ServerSends(k)) \/ (\E n \in 0 .. 1 : ServerPings(n))
  <2>1. UNCHANGED <<sent, got>> /\ (serverUp' = serverUp \/ serverUp' = FALSE)
      BY <1>6, Zenon DEF ServerEnds, ServerReplies, ServerSends, ServerPings, upVars
  <2> QED
      BY <1>2, <2>1
<1>7. CASE \E n \in 1 .. MaxUp : Write(n)
  <2>1. PICK n \in 1 .. MaxUp : Write(n)
      BY <1>7
  <2>2. sent' = sent + n /\ got' = got /\ serverUp' = serverUp
      BY <1>3, <2>1
  <2> QED
      BY <1>1, <2>2
<1> QED
    BY <1>4, <1>5, <1>6, <1>7, Zenon DEF Next, Server

\* transports.js:22-24: what the client writes to a framed face reaches the server
\* as a stream: cut, sealed and framed on the way, it comes out as it went in.
THEOREM FramingCarriesUpward ==
    ASSUME KindsAssumption, CapAssumption, BoundsAssumption
    PROVE  Spec => Upward!Spec
<1>1. Init => Upward!Init
    BY DEF Init, Upward!Init
<1>2. UpInv => GotStream
    BY GotIsStream
<1>3. UpInv /\ GotStream /\ GotStream' /\ [Next]_vars
      => [Upward!Next]_<<sent, got, ~serverUp>>
  <2> SUFFICES ASSUME UpInv, GotStream, GotStream', [Next]_vars PROVE Upward!Next
      OBVIOUS
  <2>1. /\ sent' \in Nat /\ sent <= sent'
        /\ Len(got) <= Len(got') /\ (~serverUp => got' = got)
        /\ serverUp' = serverUp \/ ~serverUp'
        /\ ~serverUp => ~serverUp'
      BY GotGrows DEF BoundsAssumption
  <2>2. /\ got \in Seq(Nat) /\ got = Upto(Len(got)) /\ sent \in Nat
        /\ got' \in Seq(Nat) /\ got' = Upto(Len(got')) /\ Len(got') <= sent'
      BY Zenon DEF GotStream, Upto
  <2>3. \E k \in 0 .. sent' - Len(got) : got' = got \o After(Len(got), k)
      BY <2>1, <2>2, StreamStep, Zenon
  <2>4. Upward!Take
      BY <2>3, Zenon DEF Upward!Take, After
  <2>5. Upward!Put
      BY <2>1, <2>2 DEF Upward!Put
  <2> QED
      BY <2>1, <2>4, <2>5 DEF Upward!Next, Upward!End
<1> QED
    BY <1>1, <1>2, <1>3, UpAlways, PTL DEF Spec, Upward!Spec

-----------------------------------------------------------------------------
(* The units on their way down.                                            *)

\* Two ways to cut one sequence at the same place are the same.
LEMMA SameCut ==
    ASSUME NEW S
    PROVE  \A s, p, t, q \in Seq(S) : s \o p = t \o q /\ Len(s) = Len(t) => s = t /\ p = q
<1> SUFFICES ASSUME NEW s \in Seq(S), NEW p \in Seq(S), NEW t \in Seq(S), NEW q \in Seq(S),
                    s \o p = t \o q, Len(s) = Len(t)
             PROVE  s = t /\ p = q
    OBVIOUS
<1> DEFINE one == s \o p
           two == t \o q
<1>1. /\ Len(s) \in Nat /\ Len(p) \in Nat /\ Len(t) \in Nat /\ Len(q) \in Nat
      /\ Len(one) = Len(s) + Len(p) /\ Len(two) = Len(t) + Len(q)
      /\ \A i \in 1 .. Len(s) + Len(p) : one[i] = IF i <= Len(s) THEN s[i] ELSE p[i - Len(s)]
      /\ \A i \in 1 .. Len(t) + Len(q) : two[i] = IF i <= Len(t) THEN t[i] ELSE q[i - Len(t)]
    BY ConcatProperties, LenProperties, Zenon
<1>2. one = two
    OBVIOUS
<1> HIDE DEF one, two
<1>3. Len(p) = Len(q)
    BY <1>1, <1>2
<1>4. \A i \in 1 .. Len(s) : s[i] = t[i]
  <2> TAKE i \in 1 .. Len(s)
  <2>1. i \in 1 .. Len(s) + Len(p) /\ i \in 1 .. Len(t) + Len(q) /\ i <= Len(s) /\ i <= Len(t)
      BY <1>1
  <2>2. one[i] = s[i] /\ two[i] = t[i]
      BY <1>1, <2>1, Zenon
  <2> QED
      BY <1>2, <2>2, Zenon
<1>5. \A i \in 1 .. Len(p) : p[i] = q[i]
  <2> TAKE i \in 1 .. Len(p)
  <2> DEFINE j == Len(s) + i
  <2>1. /\ j \in 1 .. Len(s) + Len(p) /\ j \in 1 .. Len(t) + Len(q) /\ ~(j <= Len(s))
        /\ ~(j <= Len(t)) /\ j - Len(s) = i /\ j - Len(t) = i
      BY <1>1, <1>3
  <2> HIDE DEF j
  <2>2. one[j] = p[j - Len(s)] /\ two[j] = q[j - Len(t)]
      BY <1>1, <2>1, Zenon
  <2> QED
      BY <1>2, <2>1, <2>2, Zenon
<1>6. s = t
    BY <1>4, SeqEqual
<1>7. p = q
    BY <1>3, <1>5, SeqEqual
<1> QED
    BY <1>6, <1>7

\* Cutting a sequence in two loses nothing.
LEMMA Cut ==
    ASSUME NEW S
    PROVE  \A s \in Seq(S) : \A n \in 0 .. Len(s) :
              /\ SubSeq(s, 1, n) \in Seq(S) /\ Len(SubSeq(s, 1, n)) = n
              /\ SubSeq(s, n + 1, Len(s)) \in Seq(S)
              /\ Len(SubSeq(s, n + 1, Len(s))) = Len(s) - n
              /\ SubSeq(s, 1, n) \o SubSeq(s, n + 1, Len(s)) = s
<1> TAKE s \in Seq(S)
<1> TAKE n \in 0 .. Len(s)
<1>1. Len(s) \in Nat /\ \A i \in 1 .. Len(s) : s[i] \in S
    BY LenProperties, ElementOfSeq
<1>2. SubSeq(s, 1, n) \in Seq(S) /\ Len(SubSeq(s, 1, n)) = n
    BY <1>1, SubSeqProperties
<1>3. SubSeq(s, n + 1, Len(s)) \in Seq(S) /\ Len(SubSeq(s, n + 1, Len(s))) = Len(s) - n
    BY <1>1, SubSeqProperties
<1>4. 1 \in 1 .. Len(s) + 1 /\ n \in 1 - 1 .. Len(s) /\ Len(s) \in n .. Len(s)
    BY <1>1
<1>5. SubSeq(s, 1, n) \o SubSeq(s, n + 1, Len(s)) = SubSeq(s, 1, Len(s))
    BY <1>4, ConcatAdjacentSubSeq, Zenon
<1>6. SubSeq(s, 1, Len(s)) = s
    BY SubSeqFull, Zenon
<1> QED
    BY <1>2, <1>3, <1>5, <1>6, Zenon

\* What is taken from the front of a stream's first part.
LEMMA TakeFront ==
    ASSUME NEW S
    PROVE  \A s, u, a, q \in Seq(S) :
              s \o u = a \o q /\ Len(a) <= Len(s)
                  => /\ SubSeq(s, 1, Len(a)) = a
                     /\ SubSeq(s, Len(a) + 1, Len(s)) \in Seq(S)
                     /\ SubSeq(s, Len(a) + 1, Len(s)) \o u = q
<1>1. \A s \in Seq(S) : \A n \in 0 .. Len(s) :
         /\ SubSeq(s, 1, n) \in Seq(S) /\ Len(SubSeq(s, 1, n)) = n
         /\ SubSeq(s, n + 1, Len(s)) \in Seq(S)
         /\ SubSeq(s, 1, n) \o SubSeq(s, n + 1, Len(s)) = s
    BY Cut
<1>2. \A s, t, u \in Seq(S) : (s \o t) \o u = s \o (t \o u)
    BY ConcatRegroups
<1>3. \A s, p, t, q \in Seq(S) : s \o p = t \o q /\ Len(s) = Len(t) => s = t /\ p = q
    BY SameCut
<1>4. \A s, t \in Seq(S) : s \o t \in Seq(S)
    BY ConcatProperties
<1> SUFFICES ASSUME NEW s \in Seq(S), NEW u \in Seq(S), NEW a \in Seq(S), NEW q \in Seq(S),
                    s \o u = a \o q, Len(a) <= Len(s)
             PROVE  /\ SubSeq(s, 1, Len(a)) = a
                    /\ SubSeq(s, Len(a) + 1, Len(s)) \in Seq(S)
                    /\ SubSeq(s, Len(a) + 1, Len(s)) \o u = q
    BY Zenon
<1> DEFINE n == Len(a)
           x == SubSeq(s, 1, n)
           y == SubSeq(s, n + 1, Len(s))
<1>5. n \in 0 .. Len(s)
    BY LenProperties
<1>6. x \in Seq(S) /\ Len(x) = n /\ y \in Seq(S) /\ x \o y = s
    BY <1>1, <1>5, Zenon
<1> HIDE DEF x, y
<1>7. x \o (y \o u) = a \o q
  <2>1. (x \o y) \o u = x \o (y \o u)
    <3>1. x \in Seq(S) /\ y \in Seq(S) /\ u \in Seq(S)
        BY <1>6
    <3> QED
        BY <1>2, <3>1, Zenon
  <2>2. (x \o y) \o u = s \o u
      BY <1>6, Zenon
  <2>3. s \o u = a \o q
      OBVIOUS
  <2> QED
      BY <2>1, <2>2, <2>3, Zenon
<1>8. x = a /\ y \o u = q
    BY <1>3, <1>4, <1>6, <1>7, Zenon
<1> QED
    BY <1>6, <1>8, Zenon DEF x, y

-----------------------------------------------------------------------------
(* Sequences of units.                                                     *)

U == [is : Units, n : Nat, nonce : Nat]

Headers(n)      == [i \in 1 .. n |-> Unit("header", 0, 0)]
Bodies(x, n, k) == [i \in 1 .. n |-> Unit("body", x + i, k)]
Sized(n)        == IF n > 0 THEN <<Unit("size", n, 0)>> ELSE <<>>
Ends            == {<<>>, <<Unit("size", 0, 0)>>}

LEMMA UnitTypes ==
    /\ \A is \in Units : \A n, k \in Nat : Unit(is, n, k) \in U /\ <<Unit(is, n, k)>> \in Seq(U)
    /\ \A n \in Nat : Headers(n) \in Seq(U) /\ Len(Headers(n)) = n
    /\ \A x, n, k \in Nat : Bodies(x, n, k) \in Seq(U) /\ Len(Bodies(x, n, k)) = n
    /\ \A n \in Nat : Sized(n) \in Seq(U)
    /\ Ends \subseteq Seq(U)
<1>1. \A is \in Units : \A n, k \in Nat : Unit(is, n, k) \in U
    BY DEF Unit, U
<1>2. \A u \in U : <<u>> \in Seq(U)
    OBVIOUS
<1>3. \A is \in Units : \A n, k \in Nat : <<Unit(is, n, k)>> \in Seq(U)
    BY <1>1, <1>2, Zenon
<1>4. {"header", "body", "size"} \subseteq Units /\ 0 \in Nat
    BY DEF Units
<1>5. ASSUME NEW n \in Nat PROVE Headers(n) \in Seq(U) /\ Len(Headers(n)) = n
  <2> DEFINE h == Unit("header", 0, 0)
  <2>1. h \in U
      BY <1>1, <1>4
  <2> HIDE DEF h
  <2>2. [i \in 1 .. n |-> h] \in Seq(U) /\ Len([i \in 1 .. n |-> h]) = n
      BY <2>1
  <2> QED
      BY <2>2 DEF Headers, h
<1>6. ASSUME NEW x \in Nat, NEW n \in Nat, NEW k \in Nat
      PROVE  Bodies(x, n, k) \in Seq(U) /\ Len(Bodies(x, n, k)) = n
  <2> DEFINE b(i) == Unit("body", x + i, k)
  <2>1. \A i \in 1 .. n : b(i) \in U
    <3> TAKE i \in 1 .. n
    <3>1. x + i \in Nat
        OBVIOUS
    <3> QED
        BY <1>1, <1>4, <3>1
  <2> HIDE DEF b
  <2>2. [i \in 1 .. n |-> b(i)] \in Seq(U) /\ Len([i \in 1 .. n |-> b(i)]) = n
      BY <2>1
  <2> QED
      BY <2>2 DEF Bodies, b
<1>7. <<>> \in Seq(U)
    OBVIOUS
<1>8. \A n \in Nat : Sized(n) \in Seq(U)
    BY <1>3, <1>4, <1>7, Zenon DEF Sized
<1>9. Ends \subseteq Seq(U)
    BY <1>3, <1>4, <1>7, Zenon DEF Ends
<1> QED
    BY <1>1, <1>3, <1>5, <1>6, <1>8, <1>9

LEMMA CatUnits ==
    /\ \A s, t \in Seq(U) : s \o t \in Seq(U) /\ Len(s \o t) = Len(s) + Len(t)
    /\ \A s, t, u \in Seq(U) : (s \o t) \o u = s \o (t \o u)
    /\ \A s \in Seq(U) : s \o <<>> = s /\ <<>> \o s = s
    /\ <<>> \in Seq(U)
<1>1. \A s, t \in Seq(U) : s \o t \in Seq(U) /\ Len(s \o t) = Len(s) + Len(t)
    BY ConcatProperties
<1>2. \A s, t, u \in Seq(U) : (s \o t) \o u = s \o (t \o u)
    BY ConcatRegroups
<1>3. \A s \in Seq(U) : s \o <<>> = s /\ <<>> \o s = s
    BY ConcatEmptySeq
<1> QED
    BY <1>1, <1>2, <1>3

LEMMA UnitsRegroup == \A s, t, u \in Seq(U) : (s \o t) \o u = s \o (t \o u)
BY ConcatRegroups

Regroups(s, t, u) == (s \o t) \o u = s \o (t \o u)

LEMMA UnitsRegroups == \A s, t, u \in Seq(U) : Regroups(s, t, u)
BY ConcatRegroups DEF Regroups

\* Two cuts of one sequence.
Cuts(s, u, a, q) == s \o u = a \o q

LEMMA UnitsTaken ==
    \A s, u, a, q \in Seq(U) :
        Cuts(s, u, a, q) /\ Len(a) <= Len(s)
            => /\ SubSeq(s, 1, Len(a)) = a
               /\ SubSeq(s, Len(a) + 1, Len(s)) \in Seq(U)
               /\ SubSeq(s, Len(a) + 1, Len(s)) \o u = q
BY TakeFront DEF Cuts

-----------------------------------------------------------------------------
(* The chunks of a sealed stream.                                          *)

Chunk == [first : Nat, n : Nat \ {0}, nonce : Nat]

\* The chunks from byte x and nonce a on to byte y and nonce b.
Chunks(x, a, y, b) ==
    {cs \in Seq(Chunk) :
        /\ a + Len(cs) = b /\ x <= y
        /\ \A i \in 1 .. Len(cs) : cs[i].nonce = a + i - 1 /\ cs[i].first + cs[i].n <= y
        /\ cs = <<>> => x = y
        /\ cs # <<>> => cs[1].first = x /\ cs[Len(cs)].first + cs[Len(cs)].n = y
        /\ \A i \in 2 .. Len(cs) : cs[i].first = cs[i - 1].first + cs[i - 1].n}

LEMMA NoChunks ==
    \A x, a, y, b \in Nat :
        /\ <<>> \in Chunks(x, a, x, a)
        /\ <<>> \in Chunks(x, a, y, b) => x = y /\ a = b
<1>1. <<>> \in Seq(Chunk) /\ Len(<<>>) = 0
    OBVIOUS
<1> QED
    BY <1>1 DEF Chunks

LEMMA ChunkAdded ==
    ASSUME NEW x \in Nat, NEW a \in Nat, NEW y \in Nat, NEW b \in Nat,
           NEW cs \in Chunks(x, a, y, b), NEW n \in Nat \ {0}
    PROVE  Append(cs, [first |-> y, n |-> n, nonce |-> b]) \in Chunks(x, a, y + n, b + 1)
<1> DEFINE c == [first |-> y, n |-> n, nonce |-> b]
           ds == Append(cs, c)
           m == Len(cs)
<1>1. c \in Chunk /\ c.first = y /\ c.n = n /\ c.nonce = b
    BY DEF Chunk
<1>2. /\ cs \in Seq(Chunk) /\ a + m = b /\ x <= y
      /\ \A i \in 1 .. m : cs[i].nonce = a + i - 1 /\ cs[i].first + cs[i].n <= y
      /\ cs = <<>> => x = y
      /\ cs # <<>> => cs[1].first = x /\ cs[m].first + cs[m].n = y
      /\ \A i \in 2 .. m : cs[i].first = cs[i - 1].first + cs[i - 1].n
    BY DEF Chunks
<1>3. m \in Nat /\ (cs = <<>> <=> m = 0)
    BY <1>2, LenProperties, EmptySeq
<1> HIDE DEF c
<1>4. /\ ds \in Seq(Chunk) /\ Len(ds) = m + 1 /\ ds # <<>>
      /\ \A i \in 1 .. m : ds[i] = cs[i]
      /\ ds[m + 1] = c
    BY <1>1, <1>2, AppendProperties
<1>5. \A i \in 1 .. m : cs[i].first \in Nat /\ cs[i].n \in Nat
  <2> TAKE i \in 1 .. m
  <2>1. cs[i] \in Chunk
      BY <1>2, ElementOfSeq
  <2> QED
      BY <2>1 DEF Chunk
<1> HIDE DEF ds, m
<1>6. a + Len(ds) = b + 1 /\ x <= y + n
    BY <1>2, <1>3, <1>4
<1>7. \A i \in 1 .. m + 1 : ds[i].nonce = a + i - 1 /\ ds[i].first + ds[i].n <= y + n
  <2> TAKE i \in 1 .. m + 1
  <2>1. CASE i \in 1 .. m
    <3>1. cs[i].nonce = a + i - 1 /\ cs[i].first + cs[i].n <= y + n
        BY <1>2, <1>5, <2>1
    <3> QED
        BY <1>4, <2>1, <3>1, Zenon
  <2>2. CASE i = m + 1
    <3>1. b = a + i - 1 /\ y + n <= y + n
        BY <1>2, <1>3, <2>2
    <3> QED
        BY <1>1, <1>4, <2>2, <3>1, Zenon
  <2> QED
      BY <1>3, <2>1, <2>2
<1>8. ds[1].first = x
  <2>1. CASE m = 0
      BY <1>1, <1>2, <1>3, <1>4, <2>1
  <2>2. CASE m # 0
    <3>1. 1 \in 1 .. m
        BY <1>3, <2>2
    <3> QED
        BY <1>2, <1>3, <1>4, <2>2, <3>1, Zenon
  <2> QED
      BY <2>1, <2>2
<1>9. \A i \in 2 .. m + 1 : ds[i].first = ds[i - 1].first + ds[i - 1].n
  <2> TAKE i \in 2 .. m + 1
  <2>1. CASE i \in 2 .. m
    <3>1. i \in 1 .. m /\ i - 1 \in 1 .. m
        BY <1>3, <2>1
    <3> QED
        BY <1>2, <1>4, <2>1, <3>1, Zenon
  <2>2. CASE i = m + 1
    <3>1. i - 1 = m /\ m \in 1 .. m
        BY <1>3, <2>2
    <3>2. cs # <<>>
        BY <1>3, <3>1
    <3> QED
        BY <1>1, <1>2, <1>4, <2>2, <3>1, <3>2, Zenon
  <2> QED
      BY <1>3, <2>1, <2>2
<1>10. ds \in Chunks(x, a, y + n, b + 1)
  <2>1. ds[Len(ds)].first + ds[Len(ds)].n = y + n
      BY <1>1, <1>4, Zenon
  <2> QED
      BY <1>4, <1>6, <1>7, <1>8, <1>9, <2>1, Zenon DEF Chunks
<1> QED
    BY <1>10 DEF ds, c

LEMMA ChunkTaken ==
    ASSUME NEW x \in Nat, NEW a \in Nat, NEW y \in Nat, NEW b \in Nat,
           NEW cs \in Chunks(x, a, y, b), cs # <<>>
    PROVE  /\ Head(cs) \in Chunk /\ Head(cs).first = x /\ Head(cs).nonce = a
           /\ x + Head(cs).n <= y
           /\ Tail(cs) \in Chunks(x + Head(cs).n, a + 1, y, b)
<1> DEFINE c == Head(cs)
           ds == Tail(cs)
           m == Len(cs)
<1>1. /\ cs \in Seq(Chunk) /\ a + m = b /\ x <= y
      /\ \A i \in 1 .. m : cs[i].nonce = a + i - 1 /\ cs[i].first + cs[i].n <= y
      /\ cs[1].first = x /\ cs[m].first + cs[m].n = y
      /\ \A i \in 2 .. m : cs[i].first = cs[i - 1].first + cs[i - 1].n
    BY DEF Chunks
<1>2. m \in Nat /\ m # 0 /\ \A i \in 1 .. m : cs[i] \in Chunk
    BY <1>1, LenProperties, EmptySeq, ElementOfSeq
<1>3. /\ ds \in Seq(Chunk) /\ Len(ds) = m - 1 /\ c = cs[1]
      /\ \A i \in 1 .. m - 1 : ds[i] = cs[i + 1]
    BY <1>1, <1>2, HeadTailProperties
<1>4. 1 \in 1 .. m /\ m \in 1 .. m
    BY <1>2
<1>5. /\ c \in Chunk /\ c.first = x /\ c.nonce = a + 1 - 1 /\ c.first + c.n <= y
    BY <1>1, <1>2, <1>3, <1>4, Zenon
<1> HIDE DEF c, ds, m
<1>6. c.n \in Nat
    BY <1>5 DEF Chunk
<1>7. c.nonce = a /\ x + c.n <= y /\ a + 1 - 1 = a
    BY <1>5
<1>8. \A i \in 1 .. m - 1 : ds[i].nonce = (a + 1) + i - 1 /\ ds[i].first + ds[i].n <= y
  <2> TAKE i \in 1 .. m - 1
  <2>1. i + 1 \in 1 .. m /\ a + (i + 1) - 1 = (a + 1) + i - 1
      BY <1>2
  <2> QED
      BY <1>1, <1>3, <2>1, Zenon
<1>9. ds = <<>> => x + c.n = y
  <2> SUFFICES ASSUME ds = <<>> PROVE x + c.n = y
      OBVIOUS
  <2>1. m = 1
    <3>1. Len(ds) = 0
        OBVIOUS
    <3> QED
        BY <1>2, <1>3, <3>1
  <2> QED
      BY <1>1, <1>3, <1>5, <2>1, Zenon
<1>10. ds # <<>> => ds[1].first = x + c.n /\ ds[Len(ds)].first + ds[Len(ds)].n = y
  <2> SUFFICES ASSUME ds # <<>> PROVE ds[1].first = x + c.n /\ ds[Len(ds)].first + ds[Len(ds)].n = y
      OBVIOUS
  <2>1. m - 1 # 0
      BY <1>3, EmptySeq
  <2>2. 1 \in 1 .. m - 1 /\ m - 1 \in 1 .. m - 1 /\ 1 + 1 = 2 /\ 2 \in 2 .. m
        /\ (m - 1) + 1 = m /\ 2 - 1 = 1
      BY <1>2, <2>1
  <2>3. ds[1] = cs[2] /\ ds[m - 1] = cs[m]
      BY <1>3, <2>2, Zenon
  <2>4. cs[2].first = cs[1].first + cs[1].n
      BY <1>1, <2>2, Zenon
  <2> QED
      BY <1>1, <1>3, <1>5, <2>3, <2>4, Zenon
<1>11. \A i \in 2 .. m - 1 : ds[i].first = ds[i - 1].first + ds[i - 1].n
  <2> TAKE i \in 2 .. m - 1
  <2>1. /\ i + 1 \in 2 .. m /\ (i + 1) - 1 = i /\ i \in 1 .. m - 1 /\ i - 1 \in 1 .. m - 1
        /\ (i - 1) + 1 = i
      BY <1>2
  <2>2. cs[i + 1].first = cs[i].first + cs[i].n
      BY <1>1, <2>1, Zenon
  <2>3. ds[i] = cs[i + 1] /\ ds[i - 1] = cs[i]
      BY <1>3, <2>1, Zenon
  <2> QED
      BY <2>2, <2>3, Zenon
<1>12. (a + 1) + Len(ds) = b
    BY <1>1, <1>2, <1>3
<1>13. ds \in Chunks(x + c.n, a + 1, y, b)
    BY <1>3, <1>7, <1>8, <1>9, <1>10, <1>11, <1>12, Zenon DEF Chunks
<1> QED
    BY <1>5, <1>7, <1>13, Zenon DEF c, ds

-----------------------------------------------------------------------------
(* A sealed stream: what its reader finds in it.                           *)

sealOf == [c \in Chunk |-> <<Unit("size", c.n, 0)>> \o Bodies(c.first, c.n, c.nonce)]

LEMMA ChunkFields ==
    /\ sealOf \in [Chunk -> Seq(U)]
    /\ \A c \in Chunk :
          /\ c.first \in Nat /\ c.n \in Nat /\ c.n > 0 /\ c.nonce \in Nat
          /\ sealOf[c] = <<Unit("size", c.n, 0)>> \o Bodies(c.first, c.n, c.nonce)
          /\ <<Unit("size", c.n, 0)>> \in Seq(U)
          /\ Bodies(c.first, c.n, c.nonce) \in Seq(U) /\ Len(Bodies(c.first, c.n, c.nonce)) = c.n
<1>1. \A c \in Chunk : c.first \in Nat /\ c.n \in Nat /\ c.n > 0 /\ c.nonce \in Nat
    BY DEF Chunk
<1>2. \A c \in Chunk :
          /\ <<Unit("size", c.n, 0)>> \in Seq(U)
          /\ Bodies(c.first, c.n, c.nonce) \in Seq(U) /\ Len(Bodies(c.first, c.n, c.nonce)) = c.n
  <2>1. "size" \in Units /\ 0 \in Nat
      BY DEF Units
  <2> QED
      BY <1>1, <2>1, UnitTypes, Zenon
<1>3. \A c \in Chunk : <<Unit("size", c.n, 0)>> \o Bodies(c.first, c.n, c.nonce) \in Seq(U)
    BY <1>2, CatUnits, Zenon
<1> QED
    BY <1>1, <1>2, <1>3, Zenon DEF sealOf

LEMMA SealedMap ==
    /\ FlatMap(sealOf, <<>>) = <<>>
    /\ \A cs \in Seq(Chunk) : FlatMap(sealOf, cs) \in Seq(U)
    /\ \A cs \in Seq(Chunk) : \A c \in Chunk :
          FlatMap(sealOf, Append(cs, c)) = FlatMap(sealOf, cs) \o sealOf[c]
    /\ \A cs \in Seq(Chunk) : cs # <<>> =>
          /\ Head(cs) \in Chunk /\ Tail(cs) \in Seq(Chunk)
          /\ FlatMap(sealOf, cs) = sealOf[Head(cs)] \o FlatMap(sealOf, Tail(cs))
<1>1. sealOf \in [Chunk -> Seq(U)]
    BY ChunkFields
<1>2. FlatMap(sealOf, <<>>) = <<>>
    BY FlatMapEmpty
<1>3. \A cs \in Seq(Chunk) : FlatMap(sealOf, cs) \in Seq(U)
    BY <1>1, Mapped
<1>4. \A cs \in Seq(Chunk) : \A c \in Chunk :
          FlatMap(sealOf, Append(cs, c)) = FlatMap(sealOf, cs) \o sealOf[c]
    BY <1>1, FlatMapAppend
<1>5. \A cs \in Seq(Chunk) : cs # <<>> =>
          /\ Head(cs) \in Chunk /\ Tail(cs) \in Seq(Chunk)
          /\ FlatMap(sealOf, cs) = sealOf[Head(cs)] \o FlatMap(sealOf, Tail(cs))
    BY <1>1, FlatMapFront
<1> QED
    BY <1>2, <1>3, <1>4, <1>5

\* What p is to the reads of a sealed face: the rest of the chunk whose size they
\* have read, the chunks after it, and maybe vmess's last.
SealedAhead(k, x, a, y, b, size, over, p) ==
    \E cs \in Chunks(x, a, y, b) : \E end \in Ends :
        /\ end # <<>> => k.vmess /\ over
        /\ Sized(size) \o p = FlatMap(sealOf, cs) \o end

LEMMA SealedReply ==
    ASSUME NEW k, NEW x \in Nat, NEW a \in Nat, NEW y \in Nat, NEW b \in Nat, NEW size \in Nat,
           NEW p \in Seq(U), SealedAhead(k, x, a, y, b, size, FALSE, p), NEW n \in Nat \ {0}
    PROVE  SealedAhead(k, x, a, y + n, b + 1, size, FALSE,
                       p \o (<<Unit("size", n, 0)>> \o Bodies(y, n, b)))
<1>1. PICK cs \in Chunks(x, a, y, b) : \E end \in Ends :
        /\ end # <<>> => k.vmess /\ FALSE
        /\ Sized(size) \o p = FlatMap(sealOf, cs) \o end
    BY Zenon DEF SealedAhead
<1>2. Sized(size) \o p = FlatMap(sealOf, cs) \o <<>>
    BY <1>1
<1> DEFINE c   == [first |-> y, n |-> n, nonce |-> b]
           new == <<Unit("size", n, 0)>> \o Bodies(y, n, b)
           s   == Sized(size)
           f   == FlatMap(sealOf, cs)
<1>3. c \in Chunk /\ c.first = y /\ c.n = n /\ c.nonce = b
    BY DEF Chunk
<1>4. Append(cs, c) \in Chunks(x, a, y + n, b + 1)
    BY ChunkAdded
<1> HIDE DEF c
<1>5. sealOf[c] = new /\ new \in Seq(U)
  <2>1. sealOf[c] = new
      BY <1>3, ChunkFields, Zenon
  <2>2. sealOf[c] \in Seq(U)
      BY <1>3, ChunkFields, Zenon
  <2> QED
      BY <2>1, <2>2, Zenon
<1>6. cs \in Seq(Chunk)
    BY DEF Chunks
<1>7. s \in Seq(U) /\ f \in Seq(U)
    BY <1>6, UnitTypes, SealedMap, Zenon
<1>8. FlatMap(sealOf, Append(cs, c)) = f \o new
    BY <1>3, <1>5, <1>6, SealedMap, Zenon
<1> HIDE DEF new, s, f
<1>9. s \o p = f
  <2>1. s \o p = f \o <<>>
      BY <1>2, Zenon DEF s, f
  <2> QED
      BY <1>7, <2>1, CatUnits, Zenon
<1>10. s \o (p \o new) = f \o new
  <2>1. (s \o p) \o new = s \o (p \o new)
    <3>1. s \in Seq(U) /\ p \in Seq(U) /\ new \in Seq(U)
        BY <1>5, <1>7
    <3> QED
        BY <3>1, UnitsRegroup, Zenon
  <2> QED
      BY <1>9, <2>1, Zenon
<1>11. s \o (p \o new) = (f \o new) \o <<>>
  <2>1. f \o new \in Seq(U)
      BY <1>5, <1>7, CatUnits, Zenon
  <2>2. (f \o new) \o <<>> = f \o new
      BY <2>1, CatUnits, Zenon
  <2> QED
      BY <1>10, <2>2, Zenon
<1>12. Sized(size) \o (p \o new) = FlatMap(sealOf, Append(cs, c)) \o <<>>
    BY <1>8, <1>11, Zenon DEF s
<1>13. <<>> \in Ends
    BY DEF Ends
<1> HIDE DEF s, f
<1> DEFINE ds == Append(cs, c)
<1>14. ds \in Chunks(x, a, y + n, b + 1) /\ Sized(size) \o (p \o new) = FlatMap(sealOf, ds) \o <<>>
    BY <1>4, <1>12, Zenon
<1> HIDE DEF ds
<1>15. SealedAhead(k, x, a, y + n, b + 1, size, FALSE, p \o new)
    BY <1>13, <1>14, Zenon DEF SealedAhead
<1> QED
    BY <1>15, Zenon DEF new

LEMMA SealedEnds ==
    ASSUME NEW k, NEW x \in Nat, NEW a \in Nat, NEW y \in Nat, NEW b \in Nat, NEW size \in Nat,
           NEW p \in Seq(U), SealedAhead(k, x, a, y, b, size, FALSE, p)
    PROVE  /\ SealedAhead(k, x, a, y, b, size, TRUE, p)
           /\ k.vmess => SealedAhead(k, x, a, y, b, size, TRUE, p \o <<Unit("size", 0, 0)>>)
<1>1. PICK cs \in Chunks(x, a, y, b) : \E end \in Ends :
        /\ end # <<>> => k.vmess /\ FALSE
        /\ Sized(size) \o p = FlatMap(sealOf, cs) \o end
    BY Zenon DEF SealedAhead
<1>2. Sized(size) \o p = FlatMap(sealOf, cs) \o <<>>
    BY <1>1
<1> DEFINE last == <<Unit("size", 0, 0)>>
           s    == Sized(size)
           f    == FlatMap(sealOf, cs)
<1>3. <<>> \in Ends /\ last \in Ends
    BY DEF Ends
<1>4. SealedAhead(k, x, a, y, b, size, TRUE, p)
    BY <1>2, <1>3, Zenon DEF SealedAhead
<1>5. cs \in Seq(Chunk)
    BY DEF Chunks
<1>6. s \in Seq(U) /\ f \in Seq(U) /\ last \in Seq(U)
    BY <1>3, <1>5, UnitTypes, SealedMap, Zenon
<1> HIDE DEF s, f, last
<1>7. s \o p = f
  <2>1. s \o p = f \o <<>>
      BY <1>2, Zenon DEF s, f
  <2> QED
      BY <1>6, <2>1, CatUnits, Zenon
<1>8. s \o (p \o last) = f \o last
  <2>1. (s \o p) \o last = s \o (p \o last)
      BY <1>6, UnitsRegroup, Zenon
  <2> QED
      BY <1>7, <2>1, Zenon
<1>9. k.vmess => SealedAhead(k, x, a, y, b, size, TRUE, p \o last)
    BY <1>3, <1>8, Zenon DEF SealedAhead, s, f
<1> QED
    BY <1>4, <1>9, Zenon DEF last

\* s \o u is the stream, of which s is there to be read.
SealedStream(k, x, a, y, b, size, over, s, u) == SealedAhead(k, x, a, y, b, size, over, s \o u)

\* A size that is read is that of the next chunk, or vmess's last.
SizeRead(k, x, a, y, b, over, s, u) ==
    /\ Head(s).is = "size" /\ Head(s).n \in Nat
    /\ Head(s).n = 0 => k.vmess /\ over /\ x = y
    /\ Head(s).n > 0 =>
            SealedStream(k, x, a, y, b, Head(s).n, over, SubSeq(s, 2, Len(s)), u)

LEMMA SealedSize ==
    \A k, over : \A x, a, y, b \in Nat : \A s, u \in Seq(U) :
        SealedStream(k, x, a, y, b, 0, over, s, u) /\ Len(s) >= 1
            => SizeRead(k, x, a, y, b, over, s, u)
<1> TAKE k, over
<1> TAKE x, a, y, b \in Nat
<1> TAKE s, u \in Seq(U)
<1> HAVE SealedStream(k, x, a, y, b, 0, over, s, u) /\ Len(s) >= 1
<1> SUFFICES
        /\ Head(s).is = "size" /\ Head(s).n \in Nat
        /\ Head(s).n = 0 => k.vmess /\ over /\ x = y
        /\ Head(s).n > 0 =>
                SealedAhead(k, x, a, y, b, Head(s).n, over, SubSeq(s, 2, Len(s)) \o u)
    BY Zenon DEF SizeRead, SealedStream
<1>1. PICK cs \in Chunks(x, a, y, b) : \E end \in Ends :
        /\ end # <<>> => k.vmess /\ over
        /\ Sized(0) \o (s \o u) = FlatMap(sealOf, cs) \o end
    BY Zenon DEF SealedAhead, SealedStream
<1>2. PICK end \in Ends :
        /\ end # <<>> => k.vmess /\ over
        /\ Sized(0) \o (s \o u) = FlatMap(sealOf, cs) \o end
    BY <1>1, Zenon
<1>3. cs \in Seq(Chunk) /\ end \in Seq(U) /\ s \o u \in Seq(U)
    BY UnitTypes, CatUnits, Zenon DEF Chunks
<1>4. s \o u = FlatMap(sealOf, cs) \o end
  <2>1. Sized(0) = <<>>
      BY DEF Sized
  <2>2. <<>> \o (s \o u) = s \o u
      BY <1>3, CatUnits, Zenon
  <2> QED
      BY <1>2, <2>1, <2>2, Zenon
<1>5. \A g \in U : \A q \in Seq(U) :
        s \o u = <<g>> \o q => /\ Head(s) = g
                               /\ SubSeq(s, 2, Len(s)) \in Seq(U)
                               /\ SubSeq(s, 2, Len(s)) \o u = q
  <2> TAKE g \in U
  <2> TAKE q \in Seq(U)
  <2> HAVE s \o u = <<g>> \o q
  <2> DEFINE one == <<g>>
  <2>1. one \in Seq(U) /\ Len(one) = 1 /\ one[1] = g /\ Len(one) + 1 = 2 /\ Len(one) <= Len(s)
      BY LenProperties
  <2>2. Cuts(s, u, one, q)
      BY Zenon DEF Cuts
  <2> HIDE DEF one
  <2>3. /\ SubSeq(s, 1, Len(one)) = one
        /\ SubSeq(s, Len(one) + 1, Len(s)) \in Seq(U)
        /\ SubSeq(s, Len(one) + 1, Len(s)) \o u = q
      BY <2>1, <2>2, UnitsTaken, Zenon
  <2>4. SubSeq(s, 1, 1)[1] = s[1] /\ Head(s) = s[1]
      BY LenProperties
  <2> QED
      BY <2>1, <2>3, <2>4, Zenon
<1>6. CASE cs = <<>>
  <2>1. s \o u = end
    <3>1. FlatMap(sealOf, cs) = <<>>
        BY <1>6, SealedMap, Zenon
    <3>2. <<>> \o end = end
        BY <1>3, CatUnits, Zenon
    <3> QED
        BY <1>4, <3>1, <3>2, Zenon
  <2>2. end # <<>>
    <3>1. Len(s \o u) = Len(s) + Len(u) /\ Len(u) \in Nat /\ Len(s) \in Nat
        BY CatUnits, LenProperties, Zenon
    <3>2. Len(s \o u) # 0
        BY <3>1
    <3> QED
        BY <2>1, <3>2
  <2> DEFINE g == Unit("size", 0, 0)
  <2>3. end = <<g>>
      BY <2>2, Zenon DEF Ends
  <2>4. g \in U /\ g.is = "size" /\ g.n = 0
      BY DEF Unit, U, Units
  <2> HIDE DEF g
  <2>5. s \o u = <<g>> \o <<>>
    <3>1. <<g>> \o <<>> = <<g>>
        BY <1>3, <2>3, CatUnits, Zenon
    <3> QED
        BY <2>1, <2>3, <3>1, Zenon
  <2>6. Head(s) = g
      BY <1>5, <2>4, <2>5, CatUnits, Zenon
  <2>7. x = y
      BY <1>6, NoChunks, Zenon
  <2>8. k.vmess /\ over
      BY <1>2, <2>2, Zenon
  <2>9. 0 \in Nat /\ ~(0 > 0)
      OBVIOUS
  <2> QED
      BY <2>4, <2>6, <2>7, <2>8, <2>9, Zenon
<1>7. CASE cs # <<>>
  <2> DEFINE c    == Head(cs)
             g    == Unit("size", c.n, 0)
             body == Bodies(c.first, c.n, c.nonce)
             rest == FlatMap(sealOf, Tail(cs))
             q    == body \o (rest \o end)
  <2>1. c \in Chunk /\ Tail(cs) \in Seq(Chunk) /\ FlatMap(sealOf, cs) = sealOf[c] \o rest
      BY <1>3, <1>7, SealedMap, Zenon
  <2> HIDE DEF c
  <2>2. /\ c.n \in Nat /\ c.n > 0 /\ sealOf[c] = <<g>> \o body
        /\ <<g>> \in Seq(U) /\ body \in Seq(U)
      BY <2>1, ChunkFields, Zenon
  <2>3. g \in U /\ g.is = "size" /\ g.n = c.n
      BY <2>2 DEF Unit, U, Units
  <2>4. rest \in Seq(U)
      BY <2>1, SealedMap, Zenon
  <2>5. rest \o end \in Seq(U)
      BY <1>3, <2>4, CatUnits, Zenon
  <2>6. q \in Seq(U)
      BY <2>2, <2>5, CatUnits, Zenon
  <2>7. Sized(c.n) = <<g>>
      BY <2>2, Zenon DEF Sized
  <2> HIDE DEF g, body, rest
  <2>8. FlatMap(sealOf, cs) \o end = <<g>> \o q
    <3>1. <<g>> \o body \in Seq(U)
        BY <2>2, CatUnits, Zenon
    <3>2. ((<<g>> \o body) \o rest) \o end = (<<g>> \o body) \o (rest \o end)
        BY <1>3, <2>4, <3>1, UnitsRegroup, Zenon
    <3>3. (<<g>> \o body) \o (rest \o end) = <<g>> \o (body \o (rest \o end))
        BY <2>2, <2>5, UnitsRegroup, Zenon
    <3> QED
        BY <2>1, <2>2, <3>2, <3>3, Zenon
  <2> HIDE DEF q
  <2>9. s \o u = <<g>> \o q
      BY <1>4, <2>8, Zenon
  <2>10. Head(s) = g /\ SubSeq(s, 2, Len(s)) \o u = q
      BY <1>5, <2>3, <2>6, <2>9, Zenon
  <2>11. Sized(c.n) \o q = FlatMap(sealOf, cs) \o end
      BY <2>7, <2>8, Zenon
  <2>12. SealedAhead(k, x, a, y, b, c.n, over, q)
      BY <1>2, <2>11, Zenon DEF SealedAhead
  <2>13. c.n # 0
      BY <2>2
  <2> QED
      BY <2>2, <2>3, <2>10, <2>12, <2>13, Zenon
<1> QED
    BY <1>6, <1>7

\* A chunk that is read whole opens: its bytes are the next and so is its nonce.
ChunkRead(k, x, a, y, b, over, n, s, u) ==
    /\ SubSeq(s, 1, n) = Bodies(x, n, a)
    /\ SubSeq(s, n + 1, Len(s)) \in Seq(U)
    /\ x + n <= y
    /\ SealedStream(k, x + n, a + 1, y, b, 0, over, SubSeq(s, n + 1, Len(s)), u)

LEMMA SealedChunk ==
    \A k, over : \A x, a, y, b \in Nat : \A n \in Nat \ {0} : \A s, u \in Seq(U) :
        SealedStream(k, x, a, y, b, n, over, s, u) /\ Len(s) >= n
            => ChunkRead(k, x, a, y, b, over, n, s, u)
<1> TAKE k, over
<1> TAKE x, a, y, b \in Nat
<1> TAKE n \in Nat \ {0}
<1> TAKE s, u \in Seq(U)
<1> HAVE SealedStream(k, x, a, y, b, n, over, s, u) /\ Len(s) >= n
<1> SUFFICES
        /\ SubSeq(s, 1, n) = Bodies(x, n, a)
        /\ SubSeq(s, n + 1, Len(s)) \in Seq(U)
        /\ x + n <= y
        /\ SealedAhead(k, x + n, a + 1, y, b, 0, over, SubSeq(s, n + 1, Len(s)) \o u)
    BY Zenon DEF ChunkRead, SealedStream
<1>1. PICK cs \in Chunks(x, a, y, b) : \E end \in Ends :
        /\ end # <<>> => k.vmess /\ over
        /\ Sized(n) \o (s \o u) = FlatMap(sealOf, cs) \o end
    BY Zenon DEF SealedAhead, SealedStream
<1>2. PICK end \in Ends :
        /\ end # <<>> => k.vmess /\ over
        /\ Sized(n) \o (s \o u) = FlatMap(sealOf, cs) \o end
    BY <1>1, Zenon
<1>3. cs \in Seq(Chunk) /\ end \in Seq(U) /\ s \o u \in Seq(U)
    BY UnitTypes, CatUnits, Zenon DEF Chunks
<1> DEFINE g == Unit("size", n, 0)
           p == s \o u
<1>4. g \in U /\ g.n = n /\ <<g>> \in Seq(U) /\ Sized(n) = <<g>>
  <2>1. g \in U /\ g.n = n
      BY DEF Unit, U, Units
  <2>2. Sized(n) = <<g>>
      BY DEF Sized
  <2> HIDE DEF g
  <2> QED
      BY <2>1, <2>2
<1> HIDE DEF g
<1>5. <<g>> \o p = FlatMap(sealOf, cs) \o end
    BY <1>2, <1>4, Zenon
<1>6. p \in Seq(U)
    BY <1>3
<1>7. \A h \in U : \A q \in Seq(U) : <<g>> \o p = <<h>> \o q => g = h /\ p = q
  <2> HIDE DEF p
  <2> TAKE h \in U
  <2> TAKE q \in Seq(U)
  <2> HAVE <<g>> \o p = <<h>> \o q
  <2> DEFINE one == <<g>>
             two == <<h>>
  <2>1. /\ one \in Seq(U) /\ two \in Seq(U) /\ Len(one) = Len(two)
        /\ one[1] = g /\ two[1] = h
      BY <1>4
  <2>2. one \o p = two \o q
      OBVIOUS
  <2> HIDE DEF one, two
  <2>3. one = two /\ p = q
      BY <1>6, <2>1, <2>2, SameCut
  <2> QED
      BY <2>1, <2>3, Zenon
<1>8. cs # <<>>
  <2> SUFFICES ASSUME cs = <<>> PROVE FALSE
      OBVIOUS
  <2>1. <<g>> \o p = end
    <3>1. FlatMap(sealOf, cs) = <<>>
        BY SealedMap, Zenon
    <3>2. <<>> \o end = end
        BY <1>3, CatUnits, Zenon
    <3> QED
        BY <1>5, <3>1, <3>2, Zenon
  <2>2. end # <<>>
    <3>1. Len(<<g>> \o p) = Len(<<g>>) + Len(p)
        BY <1>4, <1>6, CatUnits, Zenon
    <3>2. Len(p) \in Nat
        BY <1>6, LenProperties, Zenon
    <3>3. Len(<<g>>) = 1
        OBVIOUS
    <3> HIDE DEF p
    <3>4. Len(<<g>> \o p) # 0
        BY <3>1, <3>2, <3>3
    <3> QED
        BY <2>1, <3>4
  <2> DEFINE h == Unit("size", 0, 0)
  <2>3. end = <<h>>
      BY <2>2, Zenon DEF Ends
  <2>4. h \in U /\ h.n = 0
      BY DEF Unit, U, Units
  <2> HIDE DEF h
  <2>5. <<h>> \o <<>> = <<h>>
      BY <1>3, <2>3, CatUnits, Zenon
  <2>6. <<g>> \o p = <<h>> \o <<>>
      BY <2>1, <2>3, <2>5, Zenon
  <2>7. g = h
      BY <1>7, <2>4, <2>6, CatUnits, Zenon
  <2> QED
      BY <1>4, <2>4, <2>7
<1> DEFINE c    == Head(cs)
           body == Bodies(c.first, c.n, c.nonce)
           rest == FlatMap(sealOf, Tail(cs))
           h    == Unit("size", c.n, 0)
           q    == body \o (rest \o end)
<1>9. c \in Chunk /\ Tail(cs) \in Seq(Chunk) /\ FlatMap(sealOf, cs) = sealOf[c] \o rest
    BY <1>3, <1>8, SealedMap, Zenon
<1>10. /\ c.first = x /\ c.nonce = a /\ x + c.n <= y
       /\ Tail(cs) \in Chunks(x + c.n, a + 1, y, b)
    BY <1>8, ChunkTaken
<1> DEFINE ds == Tail(cs)
<1>a. ds \in Chunks(x + c.n, a + 1, y, b)
    BY <1>10
<1> HIDE DEF c, ds
<1>11. /\ c.n \in Nat /\ sealOf[c] = <<h>> \o body
       /\ <<h>> \in Seq(U) /\ body \in Seq(U) /\ Len(body) = c.n
    BY <1>9, ChunkFields, Zenon
<1>12. h \in U /\ h.n = c.n
    BY <1>11 DEF Unit, U, Units
<1>13. rest \in Seq(U)
    BY <1>9, SealedMap, Zenon
<1>14. rest \o end \in Seq(U)
    BY <1>3, <1>13, CatUnits, Zenon
<1>15. q \in Seq(U)
    BY <1>11, <1>14, CatUnits, Zenon
<1>16. body = Bodies(x, c.n, a)
    BY <1>10, Zenon
<1>17. rest = FlatMap(sealOf, ds)
    BY Zenon DEF ds
<1> HIDE DEF body, rest, h
<1>18. FlatMap(sealOf, cs) \o end = <<h>> \o q
  <2>1. <<h>> \o body \in Seq(U)
      BY <1>11, CatUnits, Zenon
  <2>2. ((<<h>> \o body) \o rest) \o end = (<<h>> \o body) \o (rest \o end)
      BY <1>3, <1>13, <2>1, UnitsRegroup, Zenon
  <2>3. (<<h>> \o body) \o (rest \o end) = <<h>> \o (body \o (rest \o end))
      BY <1>11, <1>14, UnitsRegroup, Zenon
  <2> QED
      BY <1>9, <1>11, <2>2, <2>3, Zenon
<1> HIDE DEF q
<1>19. g = h /\ p = q
    BY <1>5, <1>7, <1>12, <1>15, <1>18, Zenon
<1>20. n = c.n
    BY <1>4, <1>12, <1>19, Zenon
<1>21. s \o u = body \o (rest \o end) /\ Len(body) = n /\ Len(body) <= Len(s)
  <2>1. s \o u = body \o (rest \o end)
      BY <1>19, Zenon DEF p, q
  <2>2. Len(body) = n
      BY <1>11, <1>20, Zenon
  <2>3. Len(s) \in Nat /\ n <= Len(s)
      BY LenProperties
  <2> QED
      BY <2>1, <2>2, <2>3, Zenon
<1> DEFINE after == rest \o end
<1>22. Cuts(s, u, body, after) /\ after \in Seq(U)
    BY <1>14, <1>21, Zenon DEF Cuts
<1> HIDE DEF after, p
<1>23. /\ SubSeq(s, 1, Len(body)) = body
       /\ SubSeq(s, Len(body) + 1, Len(s)) \in Seq(U)
       /\ SubSeq(s, Len(body) + 1, Len(s)) \o u = after
    BY <1>11, <1>21, <1>22, UnitsTaken, Zenon
<1>24. SealedAhead(k, x + n, a + 1, y, b, 0, over, after)
  <2>1. Sized(0) = <<>>
      BY DEF Sized
  <2>2. <<>> \o after = after
      BY <1>22, CatUnits, Zenon
  <2>3. Sized(0) \o after = FlatMap(sealOf, ds) \o end
      BY <1>17, <2>1, <2>2, Zenon DEF after
  <2>4. ds \in Chunks(x + n, a + 1, y, b)
      BY <1>a, <1>20, Zenon
  <2> QED
      BY <1>2, <2>3, <2>4, Zenon DEF SealedAhead
<1> QED
    BY <1>10, <1>16, <1>20, <1>21, <1>23, <1>24, Zenon

-----------------------------------------------------------------------------
(* A stream that is not sealed.                                            *)

\* What p is to the reads of a face that does not seal.
RawAhead(x, y, size, p) == size = 0 /\ x <= y /\ p = Bodies(x, y - x, 0)

Joins(x, m, n, k) == Bodies(x, m, k) \o Bodies(x + m, n, k) = Bodies(x, m + n, k)

LEMMA BodiesGrow == \A x, m, n, k \in Nat : Joins(x, m, n, k)
<1> TAKE x, m, n, k \in Nat
<1> DEFINE s == Bodies(x, m, k)
           t == Bodies(x + m, n, k)
           r == Bodies(x, m + n, k)
           both == s \o t
<1>1. /\ s \in Seq(U) /\ Len(s) = m /\ t \in Seq(U) /\ Len(t) = n
      /\ r \in Seq(U) /\ Len(r) = m + n
  <2>1. x + m \in Nat /\ m + n \in Nat
      OBVIOUS
  <2> QED
      BY <2>1, UnitTypes, Zenon
<1>2. /\ \A i \in 1 .. m : s[i] = Unit("body", x + i, k)
      /\ \A i \in 1 .. n : t[i] = Unit("body", x + m + i, k)
      /\ \A i \in 1 .. m + n : r[i] = Unit("body", x + i, k)
    BY Zenon DEF Bodies
<1> HIDE DEF s, t, r
<1>3. /\ both \in Seq(U) /\ Len(both) = Len(s) + Len(t)
      /\ \A i \in 1 .. Len(s) + Len(t) :
            both[i] = IF i <= Len(s) THEN s[i] ELSE t[i - Len(s)]
    BY <1>1, ConcatProperties, Zenon
<1> HIDE DEF both
<1>4. \A i \in 1 .. m + n : both[i] = r[i]
  <2> TAKE i \in 1 .. m + n
  <2>1. both[i] = IF i <= m THEN s[i] ELSE t[i - m]
      BY <1>1, <1>3, Zenon
  <2>2. CASE i <= m
    <3>1. i \in 1 .. m
        BY <2>2
    <3> QED
        BY <1>2, <2>1, <2>2, <3>1, Zenon
  <2>3. CASE ~(i <= m)
    <3>1. i - m \in 1 .. n /\ x + m + (i - m) = x + i
        BY <2>3
    <3> QED
        BY <1>2, <2>1, <2>3, <3>1, Zenon
  <2> QED
      BY <2>2, <2>3
<1>5. both = r
    BY <1>1, <1>3, <1>4, SeqEqual
<1> QED
    BY <1>5 DEF both, s, t, r, Joins

LEMMA RawReply ==
    ASSUME NEW x \in Nat, NEW y \in Nat, NEW size \in Nat, NEW p, RawAhead(x, y, size, p), NEW n \in Nat
    PROVE  RawAhead(x, y + n, size, p \o Bodies(y, n, 0))
<1> DEFINE m == y - x
<1>1. m \in Nat /\ x + m = y /\ m + n = (y + n) - x /\ x <= y + n
    BY DEF RawAhead
<1>2. p = Bodies(x, m, 0) /\ size = 0
    BY Zenon DEF RawAhead
<1> HIDE DEF m
<1>3. Bodies(x, m, 0) \o Bodies(x + m, n, 0) = Bodies(x, m + n, 0)
  <2>1. x \in Nat /\ m \in Nat /\ n \in Nat /\ 0 \in Nat
      BY <1>1
  <2>2. Joins(x, m, n, 0)
      BY <2>1, BodiesGrow, Zenon
  <2> QED
      BY <2>2, Zenon DEF Joins
<1>4. p \o Bodies(y, n, 0) = Bodies(x, (y + n) - x, 0)
    BY <1>1, <1>2, <1>3, Zenon
<1> QED
    BY <1>1, <1>2, <1>4, Zenon DEF RawAhead

LEMMA RawRead ==
    ASSUME NEW x \in Nat, NEW y \in Nat, NEW size \in Nat, NEW s \in Seq(U), NEW u \in Seq(U),
           RawAhead(x, y, size, s \o u)
    PROVE  /\ s = Bodies(x, Len(s), 0) /\ x + Len(s) <= y
           /\ RawAhead(x + Len(s), y, 0, u)
<1> DEFINE m == Len(s)
           n == Len(u)
<1>1. x <= y /\ s \o u = Bodies(x, y - x, 0)
    BY Zenon DEF RawAhead
<1>2. m \in Nat /\ n \in Nat /\ Len(s \o u) = m + n
    BY CatUnits, LenProperties, Zenon
<1>3. Len(Bodies(x, y - x, 0)) = y - x
  <2>1. y - x \in Nat /\ 0 \in Nat
      BY <1>1
  <2> QED
      BY <2>1, UnitTypes, Zenon
<1>4. m + n = y - x
    BY <1>1, <1>2, <1>3, Zenon
<1> HIDE DEF m, n
<1>5. x + m \in Nat /\ x + m <= y /\ n = y - (x + m) /\ x + m <= y
    BY <1>1, <1>2, <1>4
<1> DEFINE a == Bodies(x, m, 0)
           q == Bodies(x + m, n, 0)
<1>6. a \in Seq(U) /\ Len(a) = m /\ q \in Seq(U)
    BY <1>2, <1>5, UnitTypes
<1>7. a \o q = Bodies(x, m + n, 0)
  <2>1. x \in Nat /\ m \in Nat /\ n \in Nat /\ 0 \in Nat
      BY <1>2
  <2>2. Joins(x, m, n, 0)
      BY <2>1, BodiesGrow, Zenon
  <2> QED
      BY <2>2, Zenon DEF Joins
<1>8. s \o u = a \o q
    BY <1>1, <1>4, <1>7, Zenon
<1>9. Len(s) = Len(a)
    BY <1>6, Zenon DEF m
<1> HIDE DEF a, q
<1>10. s = a /\ u = q
    BY <1>6, <1>8, <1>9, SameCut
<1> QED
    BY <1>5, <1>10, Zenon DEF RawAhead, a, q, m

-----------------------------------------------------------------------------
(* The inner stream: the response header, then chunks or bytes.            *)

\* What t, the stream that is in no frame any more, is to the reads of a face of
\* kind k that has delivered x bytes of y and opened a chunks of b, with l units of
\* the response header to read and size bytes of a chunk.
Ahead(k, x, a, y, b, size, over, p) ==
    IF k.sealed THEN SealedAhead(k, x, a, y, b, size, over, p) ELSE RawAhead(x, y, size, p)

Inner(k, x, a, y, b, l, size, over, t) ==
    IF y = 0
    THEN t = <<>> /\ size = 0 /\ l = k.header /\ b = 0 /\ a = 0 /\ x = 0
    ELSE \E p \in Seq(U) : /\ t = Headers(l) \o p
                           /\ size > 0 => l = 0
                           /\ Ahead(k, x, a, y, b, size, over, p)

\* What an answer of n bytes is sent as.
Answer(k, y, b, n) ==
    (IF k.sealed THEN <<Unit("size", n, 0)>> ELSE <<>>) \o Bodies(y, n, IF k.sealed THEN b ELSE 0)

LEMMA AnswerType ==
    ASSUME NEW k, NEW y \in Nat, NEW b \in Nat, NEW n \in Nat
    PROVE  Answer(k, y, b, n) \in Seq(U)
<1>1. Bodies(y, n, IF k.sealed THEN b ELSE 0) \in Seq(U)
  <2>1. (IF k.sealed THEN b ELSE 0) \in Nat
      OBVIOUS
  <2> QED
      BY <2>1, UnitTypes, Zenon
<1>2. (IF k.sealed THEN <<Unit("size", n, 0)>> ELSE <<>>) \in Seq(U)
  <2>1. "size" \in Units /\ 0 \in Nat
      BY DEF Units
  <2> QED
      BY <2>1, UnitTypes, CatUnits, Zenon
<1> QED
    BY <1>1, <1>2, CatUnits, Zenon DEF Answer

LEMMA AheadReply ==
    ASSUME NEW k, NEW x \in Nat, NEW a \in Nat, NEW y \in Nat, NEW b \in Nat, NEW size \in Nat,
           NEW p \in Seq(U), Ahead(k, x, a, y, b, size, FALSE, p), NEW n \in Nat \ {0},
           NEW c \in Nat, k.sealed => c = b + 1
    PROVE  Ahead(k, x, a, y + n, c, size, FALSE, p \o Answer(k, y, b, n))
<1>1. CASE k.sealed
  <2>1. Answer(k, y, b, n) = <<Unit("size", n, 0)>> \o Bodies(y, n, b)
      BY <1>1, Zenon DEF Answer
  <2>2. SealedAhead(k, x, a, y, b, size, FALSE, p)
      BY <1>1, Zenon DEF Ahead
  <2>3. SealedAhead(k, x, a, y + n, b + 1, size, FALSE,
                    p \o (<<Unit("size", n, 0)>> \o Bodies(y, n, b)))
      BY <2>2, SealedReply
  <2> QED
      BY <1>1, <2>1, <2>3, Zenon DEF Ahead
<1>2. CASE ~k.sealed
  <2>1. Answer(k, y, b, n) = Bodies(y, n, 0)
    <3>1. <<>> \o Bodies(y, n, 0) = Bodies(y, n, 0)
      <4>1. n \in Nat /\ 0 \in Nat
          OBVIOUS
      <4>2. Bodies(y, n, 0) \in Seq(U)
          BY <4>1, UnitTypes, Zenon
      <4> QED
          BY <4>2, CatUnits, Zenon
    <3> QED
        BY <1>2, <3>1, Zenon DEF Answer
  <2>2. RawAhead(x, y + n, size, p \o Bodies(y, n, 0))
    <3>1. RawAhead(x, y, size, p)
        BY <1>2, Zenon DEF Ahead
    <3> QED
        BY <3>1, RawReply
  <2> QED
      BY <1>2, <2>1, <2>2, Zenon DEF Ahead
<1> QED
    BY <1>1, <1>2

\* The server answers: the response header before its first answer.
LEMMA InnerReply ==
    ASSUME NEW k, k.header \in Nat, NEW x \in Nat, NEW a \in Nat, NEW y \in Nat, NEW b \in Nat,
           NEW l \in Nat, NEW size \in Nat, NEW t \in Seq(U),
           Inner(k, x, a, y, b, l, size, FALSE, t), NEW n \in Nat \ {0},
           NEW c \in Nat, k.sealed => c = b + 1
    PROVE  Inner(k, x, a, y + n, c, l, size, FALSE,
                 t \o ((IF y = 0 THEN Headers(k.header) ELSE <<>>) \o Answer(k, y, b, n)))
<1> DEFINE new == Answer(k, y, b, n)
<1>1. new \in Seq(U) /\ y + n # 0
    BY AnswerType
<1>2. CASE y = 0
  <2>1. t = <<>> /\ size = 0 /\ l = k.header /\ b = 0 /\ a = 0 /\ x = 0
      BY <1>2, Zenon DEF Inner
  <2>2. Ahead(k, 0, 0, 0, 0, 0, FALSE, <<>>)
    <3>1. Sized(0) = <<>> /\ <<>> \in Ends /\ 0 \in Nat /\ 0 - 0 = 0 /\ 0 <= 0
        BY DEF Sized, Ends
    <3>2. <<>> \in Chunks(0, 0, 0, 0)
        BY <3>1, NoChunks, Zenon
    <3>3. Sized(0) \o <<>> = FlatMap(sealOf, <<>>) \o <<>>
        BY <3>1, SealedMap, Zenon
    <3>4. SealedAhead(k, 0, 0, 0, 0, 0, FALSE, <<>>)
        BY <3>1, <3>2, <3>3, Zenon DEF SealedAhead
    <3>5. Bodies(0, 0, 0) = <<>>
        BY DEF Bodies
    <3>6. RawAhead(0, 0, 0, <<>>)
        BY <3>1, <3>5, Zenon DEF RawAhead
    <3> QED
        BY <3>4, <3>6, Zenon DEF Ahead
  <2>3. Ahead(k, x, a, y + n, c, size, FALSE, <<>> \o new)
    <3>1. <<>> \in Seq(U) /\ 0 \in Nat /\ Ahead(k, x, a, y, b, size, FALSE, <<>>)
        BY <1>2, <2>1, <2>2, CatUnits, Zenon
    <3> HIDE DEF new
    <3> QED
        BY <3>1, AheadReply DEF new
  <2>4. <<>> \o new = new
      BY <1>1, CatUnits, Zenon
  <2>5. Headers(l) \o new \in Seq(U)
      BY <1>1, UnitTypes, CatUnits, Zenon
  <2>6. <<>> \o (Headers(l) \o new) = Headers(l) \o new
      BY <2>5, CatUnits, Zenon
  <2>7. t \o ((IF y = 0 THEN Headers(k.header) ELSE <<>>) \o new) = Headers(l) \o new
      BY <1>2, <2>1, <2>6, Zenon
  <2>8. ~(size > 0)
      BY <2>1
  <2> HIDE DEF new
  <2> QED
      BY <1>1, <2>3, <2>4, <2>7, <2>8, Zenon DEF Inner, new
<1>3. CASE y # 0
  <2>1. PICK p \in Seq(U) : /\ t = Headers(l) \o p
                            /\ size > 0 => l = 0
                            /\ Ahead(k, x, a, y, b, size, FALSE, p)
      BY <1>3, Zenon DEF Inner
  <2>2. Ahead(k, x, a, y + n, c, size, FALSE, p \o new)
      BY <2>1, AheadReply
  <2>3. p \o new \in Seq(U) /\ <<>> \o new = new
      BY <1>1, CatUnits, Zenon
  <2>4. Headers(l) \in Seq(U)
      BY UnitTypes, Zenon
  <2> HIDE DEF new
  <2>5. (Headers(l) \o p) \o new = Headers(l) \o (p \o new)
    <3>1. Headers(l) \in Seq(U) /\ p \in Seq(U) /\ new \in Seq(U)
        BY <1>1, <2>4
    <3> QED
        BY <3>1, UnitsRegroup, Zenon
  <2>6. t \o ((IF y = 0 THEN Headers(k.header) ELSE <<>>) \o new) = Headers(l) \o (p \o new)
      BY <1>3, <2>1, <2>3, <2>5, Zenon
  <2> QED
      BY <1>1, <2>1, <2>2, <2>3, <2>6, Zenon DEF Inner, new
<1> QED
    BY <1>2, <1>3

\* The server's close, with vmess's last chunk.
LEMMA InnerOver ==
    ASSUME NEW k, k.vmess => k.sealed, NEW x \in Nat, NEW a \in Nat, NEW y \in Nat, NEW b \in Nat,
           NEW l \in Nat, NEW size \in Nat, NEW t \in Seq(U), NEW over \in BOOLEAN,
           Inner(k, x, a, y, b, l, size, over, t)
    PROVE  /\ Inner(k, x, a, y, b, l, size, TRUE, t)
           /\ y # 0 /\ ~over /\ k.vmess =>
                Inner(k, x, a, y, b, l, size, TRUE, t \o <<Unit("size", 0, 0)>>)
<1> DEFINE last == <<Unit("size", 0, 0)>>
<1>1. last \in Seq(U)
    BY UnitTypes, Zenon DEF Ends
<1>2. CASE y = 0
    BY <1>2, Zenon DEF Inner
<1>3. CASE y # 0
  <2>1. PICK p \in Seq(U) : /\ t = Headers(l) \o p
                            /\ size > 0 => l = 0
                            /\ Ahead(k, x, a, y, b, size, over, p)
      BY <1>3, Zenon DEF Inner
  <2>2. Ahead(k, x, a, y, b, size, TRUE, p)
    <3>1. CASE k.sealed /\ ~over
      <4>1. SealedAhead(k, x, a, y, b, size, FALSE, p)
          BY <2>1, <3>1, Zenon DEF Ahead
      <4> QED
          BY <3>1, <4>1, SealedEnds, Zenon DEF Ahead
    <3>2. CASE over
        BY <2>1, <3>2, Zenon
    <3>3. CASE ~k.sealed
        BY <2>1, <3>3, Zenon DEF Ahead
    <3> QED
        BY <3>1, <3>2, <3>3, Zenon
  <2>3. Inner(k, x, a, y, b, l, size, TRUE, t)
      BY <1>3, <2>1, <2>2, Zenon DEF Inner
  <2>4. ASSUME ~over, k.vmess PROVE Inner(k, x, a, y, b, l, size, TRUE, t \o last)
    <3>1. SealedAhead(k, x, a, y, b, size, FALSE, p)
        BY <2>1, <2>4, Zenon DEF Ahead
    <3>2. Ahead(k, x, a, y, b, size, TRUE, p \o last)
        BY <2>4, <3>1, SealedEnds, Zenon DEF Ahead
    <3>3. Headers(l) \in Seq(U) /\ p \in Seq(U) /\ p \o last \in Seq(U)
        BY <1>1, UnitTypes, CatUnits, Zenon
    <3> HIDE DEF last
    <3>4. (Headers(l) \o p) \o last = Headers(l) \o (p \o last)
        BY <1>1, <3>3, UnitsRegroup, Zenon
    <3>5. t \o last = Headers(l) \o (p \o last)
        BY <2>1, <3>4, Zenon
    <3> QED
        BY <1>3, <2>1, <3>2, <3>3, <3>5, Zenon DEF Inner
  <2> QED
      BY <2>3, <2>4, Zenon
<1> QED
    BY <1>2, <1>3

LEMMA HeadersFront ==
    ASSUME NEW l \in Nat \ {0}
    PROVE  Headers(l) = <<Unit("header", 0, 0)>> \o Headers(l - 1)
<1> DEFINE h == Unit("header", 0, 0)
           one == <<h>>
           s == Headers(l - 1)
           r == Headers(l)
           both == one \o s
<1>1. /\ s \in Seq(U) /\ Len(s) = l - 1 /\ r \in Seq(U) /\ Len(r) = l
  <2>1. l - 1 \in Nat /\ l \in Nat
      OBVIOUS
  <2> QED
      BY <2>1, UnitTypes, Zenon
<1>2. one \in Seq(U) /\ Len(one) = 1 /\ one[1] = h
  <2>1. h \in U
      BY DEF Unit, U, Units
  <2> HIDE DEF h
  <2> QED
      BY <2>1
<1>3. /\ \A i \in 1 .. l - 1 : s[i] = h
      /\ \A i \in 1 .. l : r[i] = h
    BY Zenon DEF Headers
<1> HIDE DEF one, s, r, h
<1>4. /\ both \in Seq(U) /\ Len(both) = Len(one) + Len(s)
      /\ \A i \in 1 .. Len(one) + Len(s) :
            both[i] = IF i <= Len(one) THEN one[i] ELSE s[i - Len(one)]
    BY <1>1, <1>2, ConcatProperties, Zenon
<1> HIDE DEF both
<1>5. \A i \in 1 .. l : both[i] = r[i]
  <2> TAKE i \in 1 .. l
  <2>1. i \in 1 .. Len(one) + Len(s) /\ (i <= 1 => i = 1) /\ (~(i <= 1) => i - 1 \in 1 .. l - 1)
      BY <1>1, <1>2
  <2> QED
      BY <1>2, <1>3, <1>4, <2>1, Zenon
<1>6. Len(both) = l
    BY <1>1, <1>2, <1>4
<1>7. both = r
    BY <1>1, <1>4, <1>5, <1>6, SeqEqual
<1> QED
    BY <1>7 DEF both, one, s, r, h

\* What of the stream is read when nothing of the header is left.
LEMMA InnerOpen ==
    ASSUME NEW k, NEW x, NEW a, NEW y, NEW b, NEW size, NEW over, NEW s \in Seq(U),
           NEW u \in Seq(U), Inner(k, x, a, y, b, 0, size, over, s \o u), Len(s) >= 1
    PROVE  y # 0 /\ Ahead(k, x, a, y, b, size, over, s \o u)
<1>1. s \o u # <<>>
  <2>1. Len(s \o u) = Len(s) + Len(u) /\ Len(u) \in Nat /\ Len(s) \in Nat
      BY CatUnits, LenProperties, Zenon
  <2>2. Len(s \o u) # 0
      BY <2>1
  <2> QED
      BY <2>2
<1>2. y # 0
    BY <1>1, Zenon DEF Inner
<1>3. PICK p \in Seq(U) : s \o u = Headers(0) \o p /\ Ahead(k, x, a, y, b, size, over, p)
    BY <1>2, Zenon DEF Inner
<1>4. Headers(0) = <<>>
    BY DEF Headers
<1>5. <<>> \o p = p
    BY CatUnits, Zenon
<1>6. s \o u = p
    BY <1>3, <1>4, <1>5, Zenon
<1> QED
    BY <1>2, <1>3, <1>6, Zenon

\* s \o u is the stream, of which s is there to be read.
Stream(k, x, a, y, b, l, size, over, s, u) == Inner(k, x, a, y, b, l, size, over, s \o u)

LEMMA InnerHeader ==
    \A k, over : \A x, a, y, b, size \in Nat : \A l \in Nat \ {0} : \A s, u \in Seq(U) :
        Stream(k, x, a, y, b, l, size, over, s, u) /\ Len(s) >= 1
            => /\ SubSeq(s, 2, Len(s)) \in Seq(U)
               /\ Stream(k, x, a, y, b, l - 1, size, over, SubSeq(s, 2, Len(s)), u)
<1> TAKE k, over
<1> TAKE x, a, y, b, size \in Nat
<1> TAKE l \in Nat \ {0}
<1> TAKE s, u \in Seq(U)
<1> HAVE Stream(k, x, a, y, b, l, size, over, s, u) /\ Len(s) >= 1
<1> SUFFICES
        /\ SubSeq(s, 2, Len(s)) \in Seq(U)
        /\ Inner(k, x, a, y, b, l - 1, size, over, SubSeq(s, 2, Len(s)) \o u)
    BY Zenon DEF Stream
<1>0. Inner(k, x, a, y, b, l, size, over, s \o u)
    BY Zenon DEF Stream
<1>1. s \o u # <<>>
  <2>1. Len(s \o u) = Len(s) + Len(u) /\ Len(u) \in Nat /\ Len(s) \in Nat
      BY CatUnits, LenProperties, Zenon
  <2>2. Len(s \o u) # 0
      BY <2>1
  <2> QED
      BY <2>2
<1>2. y # 0
    BY <1>0, <1>1, Zenon DEF Inner
<1>3. PICK p \in Seq(U) : /\ s \o u = Headers(l) \o p
                          /\ size > 0 => l = 0
                          /\ Ahead(k, x, a, y, b, size, over, p)
    BY <1>0, <1>2, Zenon DEF Inner
<1> DEFINE one == <<Unit("header", 0, 0)>>
           more == Headers(l - 1)
<1>4. Headers(l) = one \o more
    BY HeadersFront
<1>5. one \in Seq(U) /\ Len(one) = 1 /\ more \in Seq(U) /\ more \o p \in Seq(U)
  <2>1. "header" \in Units /\ 0 \in Nat /\ l - 1 \in Nat
      BY DEF Units
  <2>2. one \in Seq(U) /\ more \in Seq(U)
      BY <2>1, UnitTypes, Zenon
  <2>3. more \o p \in Seq(U)
      BY <2>2, CatUnits, Zenon
  <2>4. Len(one) = 1
      OBVIOUS
  <2> QED
      BY <2>2, <2>3, <2>4, Zenon
<1> HIDE DEF one, more
<1>6. (one \o more) \o p = one \o (more \o p)
  <2>1. one \in Seq(U) /\ more \in Seq(U) /\ p \in Seq(U)
      BY <1>5
  <2>2. Regroups(one, more, p)
      BY <2>1, UnitsRegroups, Zenon
  <2> QED
      BY <2>2, Zenon DEF Regroups
<1>7. Cuts(s, u, one, more \o p)
    BY <1>3, <1>4, <1>6, Zenon DEF Cuts
<1>8. Len(one) <= Len(s) /\ Len(one) + 1 = 2
    BY <1>5
<1> DEFINE q == more \o p
<1>9. q \in Seq(U) /\ Cuts(s, u, one, q)
    BY <1>5, <1>7, Zenon
<1> HIDE DEF q
<1>10. /\ SubSeq(s, Len(one) + 1, Len(s)) \in Seq(U)
       /\ SubSeq(s, Len(one) + 1, Len(s)) \o u = q
    BY <1>5, <1>8, <1>9, UnitsTaken, Zenon
<1>11. SubSeq(s, 2, Len(s)) \in Seq(U) /\ SubSeq(s, 2, Len(s)) \o u = Headers(l - 1) \o p
    BY <1>8, <1>10, Zenon DEF q, more
<1>12. size > 0 => l - 1 = 0
    BY <1>3
<1> QED
    BY <1>2, <1>3, <1>11, <1>12, Zenon DEF Inner

\* What a read of a size finds.
SizeFound(k, x, a, y, b, over, s, u) ==
    /\ Head(s).is = "size" /\ Head(s).n \in Nat
    /\ Head(s).n = 0 => k.vmess /\ over /\ x = y
    /\ Head(s).n > 0 => Stream(k, x, a, y, b, 0, Head(s).n, over, SubSeq(s, 2, Len(s)), u)

LEMMA InnerSize ==
    \A k, over : \A x, a, y, b \in Nat : \A s, u \in Seq(U) :
        Stream(k, x, a, y, b, 0, 0, over, s, u) /\ Len(s) >= 1 /\ k.sealed
            => SizeFound(k, x, a, y, b, over, s, u)
<1> TAKE k, over
<1> TAKE x, a, y, b \in Nat
<1> TAKE s, u \in Seq(U)
<1> HAVE Stream(k, x, a, y, b, 0, 0, over, s, u) /\ Len(s) >= 1 /\ k.sealed
<1> SUFFICES
        /\ Head(s).is = "size" /\ Head(s).n \in Nat
        /\ Head(s).n = 0 => k.vmess /\ over /\ x = y
        /\ Head(s).n > 0 =>
                Inner(k, x, a, y, b, 0, Head(s).n, over, SubSeq(s, 2, Len(s)) \o u)
    BY Zenon DEF Stream, SizeFound
<1>1. y # 0 /\ SealedAhead(k, x, a, y, b, 0, over, s \o u)
    BY InnerOpen, Zenon DEF Ahead, Stream
<1> DEFINE rest == SubSeq(s, 2, Len(s)) \o u
           n == Head(s).n
<1>2. /\ Head(s).is = "size" /\ n \in Nat
      /\ n = 0 => k.vmess /\ over /\ x = y
      /\ n > 0 => SealedAhead(k, x, a, y, b, n, over, rest)
  <2>1. SealedStream(k, x, a, y, b, 0, over, s, u)
      BY <1>1, Zenon DEF SealedStream
  <2>2. SizeRead(k, x, a, y, b, over, s, u)
      BY <2>1, SealedSize, Zenon
  <2> QED
      BY <2>2, Zenon DEF SizeRead, SealedStream
<1>3. rest \in Seq(U)
  <2>1. Len(s) \in Nat /\ \A i \in 1 .. Len(s) : s[i] \in U
      BY LenProperties, ElementOfSeq
  <2>2. SubSeq(s, 2, Len(s)) \in Seq(U)
      BY <2>1, SubSeqProperties
  <2> QED
      BY <2>2, CatUnits, Zenon
<1> HIDE DEF rest, n
<1>4. n > 0 => Inner(k, x, a, y, b, 0, n, over, rest)
  <2> SUFFICES ASSUME n > 0 PROVE Inner(k, x, a, y, b, 0, n, over, rest)
      OBVIOUS
  <2>1. Headers(0) \o rest = rest
    <3>1. Headers(0) = <<>>
        BY DEF Headers
    <3> QED
        BY <1>3, <3>1, CatUnits, Zenon
  <2>2. Ahead(k, x, a, y, b, n, over, rest)
      BY <1>2, Zenon DEF Ahead
  <2> QED
      BY <1>1, <1>3, <2>1, <2>2, Zenon DEF Inner
<1> QED
    BY <1>2, <1>4, Zenon DEF rest, n

\* What a read of a chunk finds.
ChunkFound(k, x, a, y, b, over, n, s, u) ==
    /\ SubSeq(s, 1, n) = Bodies(x, n, a)
    /\ x + n <= y
    /\ Stream(k, x + n, a + 1, y, b, 0, 0, over, SubSeq(s, n + 1, Len(s)), u)

LEMMA InnerChunk ==
    \A k, over : \A x, a, y, b \in Nat : \A n \in Nat \ {0} : \A s, u \in Seq(U) :
        Stream(k, x, a, y, b, 0, n, over, s, u) /\ Len(s) >= n /\ k.sealed
            => ChunkFound(k, x, a, y, b, over, n, s, u)
<1> TAKE k, over
<1> TAKE x, a, y, b \in Nat
<1> TAKE n \in Nat \ {0}
<1> TAKE s, u \in Seq(U)
<1> HAVE Stream(k, x, a, y, b, 0, n, over, s, u) /\ Len(s) >= n /\ k.sealed
<1> SUFFICES
        /\ SubSeq(s, 1, n) = Bodies(x, n, a)
        /\ x + n <= y
        /\ Inner(k, x + n, a + 1, y, b, 0, 0, over, SubSeq(s, n + 1, Len(s)) \o u)
    BY Zenon DEF Stream, ChunkFound
<1>1. Len(s) >= 1
    BY LenProperties
<1>2. y # 0 /\ SealedAhead(k, x, a, y, b, n, over, s \o u)
    BY <1>1, InnerOpen, Zenon DEF Ahead, Stream
<1> DEFINE after == SubSeq(s, n + 1, Len(s))
           rest  == after \o u
<1>3. /\ SubSeq(s, 1, n) = Bodies(x, n, a)
      /\ after \in Seq(U)
      /\ x + n <= y
      /\ SealedAhead(k, x + n, a + 1, y, b, 0, over, rest)
  <2>1. SealedStream(k, x, a, y, b, n, over, s, u)
      BY <1>2, Zenon DEF SealedStream
  <2>2. ChunkRead(k, x, a, y, b, over, n, s, u)
      BY <2>1, SealedChunk, Zenon
  <2> QED
      BY <2>2, Zenon DEF ChunkRead, SealedStream
<1>4. rest \in Seq(U)
    BY <1>3, CatUnits, Zenon
<1> HIDE DEF rest
<1>5. Headers(0) \o rest = rest
  <2>1. Headers(0) = <<>>
      BY DEF Headers
  <2> QED
      BY <1>4, <2>1, CatUnits, Zenon
<1>6. Ahead(k, x + n, a + 1, y, b, 0, over, rest)
    BY <1>3, Zenon DEF Ahead
<1>7. ~(0 > 0)
    OBVIOUS
<1>8. Inner(k, x + n, a + 1, y, b, 0, 0, over, rest)
    BY <1>2, <1>4, <1>5, <1>6, <1>7, Zenon DEF Inner
<1> QED
    BY <1>3, <1>8, Zenon DEF rest

LEMMA InnerAny ==
    \A k, over : \A x, a, y, b, size \in Nat : \A s, u \in Seq(U) :
        Stream(k, x, a, y, b, 0, size, over, s, u) /\ Len(s) >= 1 /\ ~k.sealed
            => /\ s = Bodies(x, Len(s), 0) /\ x + Len(s) <= y /\ size = 0
               /\ Inner(k, x + Len(s), a, y, b, 0, size, over, u)
<1> TAKE k, over
<1> TAKE x, a, y, b, size \in Nat
<1> TAKE s, u \in Seq(U)
<1> HAVE Stream(k, x, a, y, b, 0, size, over, s, u) /\ Len(s) >= 1 /\ ~k.sealed
<1>1. y # 0 /\ RawAhead(x, y, size, s \o u)
    BY InnerOpen, Zenon DEF Ahead, Stream
<1>2. /\ s = Bodies(x, Len(s), 0) /\ x + Len(s) <= y
      /\ RawAhead(x + Len(s), y, 0, u)
    BY <1>1, RawRead
<1>3. size = 0 /\ ~(0 > 0)
    BY <1>1 DEF RawAhead
<1>4. Headers(0) \o u = u
  <2>1. Headers(0) = <<>>
      BY DEF Headers
  <2> QED
      BY <2>1, CatUnits, Zenon
<1> DEFINE z == x + Len(s)
<1>5. z = x + Len(s)
    OBVIOUS
<1> HIDE DEF z
<1>6. Inner(k, z, a, y, b, 0, size, over, u)
    BY <1>1, <1>2, <1>3, <1>4, <1>5, Zenon DEF Inner, Ahead
<1> QED
    BY <1>2, <1>3, <1>5, <1>6, Zenon

LEMMA InnerDone ==
    ASSUME NEW k, ~k.sealed, NEW x \in Nat, NEW a \in Nat, NEW y \in Nat, NEW b \in Nat,
           NEW size, NEW over, Inner(k, x, a, y, b, 0, size, over, <<>>)
    PROVE  x = y
<1>1. CASE y = 0
    BY <1>1, Zenon DEF Inner
<1>2. CASE y # 0
  <2>1. PICK p \in Seq(U) : <<>> = Headers(0) \o p /\ RawAhead(x, y, size, p)
      BY <1>2, Zenon DEF Inner, Ahead
  <2>2. p = <<>>
    <3>1. Headers(0) = <<>>
        BY DEF Headers
    <3> QED
        BY <2>1, <3>1, CatUnits, Zenon
  <2>3. x <= y /\ Bodies(x, y - x, 0) = <<>>
      BY <2>1, <2>2, Zenon DEF RawAhead
  <2>4. y - x \in Nat
      BY <2>3
  <2>5. Len(Bodies(x, y - x, 0)) = y - x
    <3>1. 0 \in Nat
        OBVIOUS
    <3> QED
        BY <2>4, <3>1, UnitTypes, Zenon
  <2>6. y - x = 0
      BY <2>3, <2>5
  <2> QED
      BY <2>6
<1> QED
    BY <1>1, <1>2

-----------------------------------------------------------------------------
(* WebSocket frames.                                                       *)

Frame == [is : {"data", "ping", "close"}, payload : Seq(U)]

frameOf   == [f \in Frame |-> <<Unit(f.is, Len(f.payload), 0)>> \o f.payload]
contentOf == [f \in Frame |-> IF f.is = "data" THEN f.payload ELSE <<>>]

\* A close frame is the last, and the server has said all.
ClosesLast(fs, closed) == \A i \in 1 .. Len(fs) : fs[i].is = "close" => i = Len(fs) /\ closed

\* s is whole frames, and c what they bring.
Framed(s, c, closed) ==
    \E fs \in Seq(Frame) :
        ClosesLast(fs, closed) /\ s = FlatMap(frameOf, fs) /\ c = FlatMap(contentOf, fs)

LEMMA FrameFields ==
    /\ frameOf \in [Frame -> Seq(U)] /\ contentOf \in [Frame -> Seq(U)]
    /\ \A f \in Frame :
          /\ f.payload \in Seq(U) /\ Len(f.payload) \in Nat /\ f.is \in Units
          /\ <<Unit(f.is, Len(f.payload), 0)>> \in Seq(U)
          /\ frameOf[f] = <<Unit(f.is, Len(f.payload), 0)>> \o f.payload
          /\ contentOf[f] = IF f.is = "data" THEN f.payload ELSE <<>>
<1>1. \A f \in Frame : f.payload \in Seq(U) /\ f.is \in Units
    BY DEF Frame, Units
<1>2. \A f \in Frame : Len(f.payload) \in Nat
    BY <1>1, LenProperties
<1>3. 0 \in Nat
    OBVIOUS
<1>4. \A f \in Frame : <<Unit(f.is, Len(f.payload), 0)>> \in Seq(U)
    BY <1>1, <1>2, <1>3, UnitTypes, Zenon
<1>5. \A f \in Frame : <<Unit(f.is, Len(f.payload), 0)>> \o f.payload \in Seq(U)
    BY <1>1, <1>4, CatUnits, Zenon
<1>6. \A f \in Frame : (IF f.is = "data" THEN f.payload ELSE <<>>) \in Seq(U)
    BY <1>1, CatUnits, Zenon
<1> QED
    BY <1>1, <1>2, <1>4, <1>5, <1>6, Zenon DEF frameOf, contentOf

LEMMA FramesMap ==
    /\ FlatMap(frameOf, <<>>) = <<>> /\ FlatMap(contentOf, <<>>) = <<>>
    /\ \A fs \in Seq(Frame) : FlatMap(frameOf, fs) \in Seq(U) /\ FlatMap(contentOf, fs) \in Seq(U)
    /\ \A fs \in Seq(Frame) : \A f \in Frame :
          /\ FlatMap(frameOf, Append(fs, f)) = FlatMap(frameOf, fs) \o frameOf[f]
          /\ FlatMap(contentOf, Append(fs, f)) = FlatMap(contentOf, fs) \o contentOf[f]
    /\ \A fs \in Seq(Frame) : fs # <<>> =>
          /\ Head(fs) \in Frame /\ Tail(fs) \in Seq(Frame)
          /\ FlatMap(frameOf, fs) = frameOf[Head(fs)] \o FlatMap(frameOf, Tail(fs))
          /\ FlatMap(contentOf, fs) = contentOf[Head(fs)] \o FlatMap(contentOf, Tail(fs))
<1>1. frameOf \in [Frame -> Seq(U)] /\ contentOf \in [Frame -> Seq(U)]
    BY FrameFields
<1>2. FlatMap(frameOf, <<>>) = <<>> /\ FlatMap(contentOf, <<>>) = <<>>
    BY FlatMapEmpty
<1>3. \A fs \in Seq(Frame) : FlatMap(frameOf, fs) \in Seq(U) /\ FlatMap(contentOf, fs) \in Seq(U)
    BY <1>1, Mapped
<1>4. \A fs \in Seq(Frame) : \A f \in Frame :
          /\ FlatMap(frameOf, Append(fs, f)) = FlatMap(frameOf, fs) \o frameOf[f]
          /\ FlatMap(contentOf, Append(fs, f)) = FlatMap(contentOf, fs) \o contentOf[f]
    BY <1>1, FlatMapAppend
<1>5. \A fs \in Seq(Frame) : fs # <<>> =>
          /\ Head(fs) \in Frame /\ Tail(fs) \in Seq(Frame)
          /\ FlatMap(frameOf, fs) = frameOf[Head(fs)] \o FlatMap(frameOf, Tail(fs))
    BY <1>1, FlatMapFront
<1>6. \A fs \in Seq(Frame) : fs # <<>> =>
          FlatMap(contentOf, fs) = contentOf[Head(fs)] \o FlatMap(contentOf, Tail(fs))
    BY <1>1, FlatMapFront
<1> QED
    BY <1>2, <1>3, <1>4, <1>5, <1>6, Zenon

LEMMA ClosesAppend ==
    \A closed : \A fs \in Seq(Frame) : \A f \in Frame :
        ClosesLast(fs, FALSE) /\ (f.is = "close" => closed) => ClosesLast(Append(fs, f), closed)
<1> TAKE closed
<1> TAKE fs \in Seq(Frame)
<1> TAKE f \in Frame
<1> HAVE ClosesLast(fs, FALSE) /\ (f.is = "close" => closed)
<1> DEFINE gs == Append(fs, f)
           m == Len(fs)
<1>1. /\ m \in Nat /\ Len(gs) = m + 1 /\ gs[m + 1] = f
      /\ \A i \in 1 .. m : gs[i] = fs[i]
    BY AppendProperties, LenProperties
<1>2. \A i \in 1 .. m : fs[i].is # "close"
    BY Zenon DEF ClosesLast
<1>3. \A i \in 1 .. m + 1 : i \in 1 .. m \/ i = m + 1
    BY <1>1
<1> HIDE DEF gs, m
<1>4. \A i \in 1 .. Len(gs) : gs[i].is = "close" => i = Len(gs) /\ closed
    BY <1>1, <1>2, <1>3, Zenon
<1> QED
    BY <1>4, Zenon DEF ClosesLast, gs

LEMMA ClosesTail ==
    ASSUME NEW fs \in Seq(Frame), fs # <<>>, NEW closed, ClosesLast(fs, closed)
    PROVE  /\ ClosesLast(Tail(fs), closed)
           /\ Head(fs).is = "close" => Tail(fs) = <<>> /\ closed
<1> DEFINE gs == Tail(fs)
           m == Len(fs)
<1>1. /\ m \in Nat \ {0} /\ gs \in Seq(Frame) /\ Len(gs) = m - 1 /\ Head(fs) = fs[1]
      /\ \A i \in 1 .. m - 1 : gs[i] = fs[i + 1]
  <2>1. m \in Nat \ {0}
      BY LenProperties, EmptySeq
  <2> QED
      BY <2>1, HeadTailProperties
<1>2. \A i \in 1 .. m : fs[i].is = "close" => i = m /\ closed
    BY Zenon DEF ClosesLast
<1>a. m \in Nat \ {0}
    BY <1>1
<1> HIDE DEF m
<1>3. \A i \in 1 .. m - 1 : i + 1 \in 1 .. m /\ (i + 1 = m => i = m - 1)
    BY <1>a
<1>4. 1 \in 1 .. m /\ (1 = m => m - 1 = 0)
    BY <1>1
<1> HIDE DEF gs
<1>5. \A i \in 1 .. Len(gs) : gs[i].is = "close" => i = Len(gs) /\ closed
    BY <1>1, <1>2, <1>3, Zenon
<1>6. Head(fs).is = "close" => Len(gs) = 0 /\ closed
    BY <1>1, <1>2, <1>4, Zenon
<1>7. Len(gs) = 0 => gs = <<>>
    BY <1>1, EmptySeq
<1> QED
    BY <1>5, <1>6, <1>7, Zenon DEF ClosesLast, gs

\* One frame more.
LEMMA FrameAdded ==
    ASSUME NEW s \in Seq(U), NEW c \in Seq(U), Framed(s, c, FALSE), NEW f \in Frame, NEW closed,
           f.is = "close" => closed
    PROVE  Framed(s \o frameOf[f], c \o contentOf[f], closed)
<1>1. PICK fs \in Seq(Frame) :
          ClosesLast(fs, FALSE) /\ s = FlatMap(frameOf, fs) /\ c = FlatMap(contentOf, fs)
    BY Zenon DEF Framed
<1> DEFINE gs == Append(fs, f)
<1>2. gs \in Seq(Frame) /\ ClosesLast(gs, closed)
  <2>1. ClosesLast(gs, closed)
      BY <1>1, ClosesAppend, Zenon
  <2>2. gs \in Seq(Frame)
      OBVIOUS
  <2> QED
      BY <2>1, <2>2
<1>3. FlatMap(frameOf, gs) = s \o frameOf[f] /\ FlatMap(contentOf, gs) = c \o contentOf[f]
    BY <1>1, FramesMap, Zenon
<1> HIDE DEF gs
<1> QED
    BY <1>2, <1>3, Zenon DEF Framed

\* What a reader makes of the first frame.
FrameTaken(s, c, closed) ==
    LET payload == SubSeq(s, 2, Head(s).n + 1)
        rest    == SubSeq(s, Head(s).n + 2, Len(s))
    IN  \E more \in Seq(U) :
            /\ payload \in Seq(U) /\ rest \in Seq(U)
            /\ c = (IF Head(s).is = "data" THEN payload ELSE <<>>) \o more
            /\ Framed(rest, more, closed)
            /\ Head(s).is = "close" => rest = <<>> /\ closed

LEMMA TakesFrame ==
    ASSUME NEW s \in Seq(U), NEW c \in Seq(U), NEW closed, Framed(s, c, closed), s # <<>>
    PROVE  FrameTaken(s, c, closed)
<1>1. PICK fs \in Seq(Frame) :
          ClosesLast(fs, closed) /\ s = FlatMap(frameOf, fs) /\ c = FlatMap(contentOf, fs)
    BY Zenon DEF Framed
<1>2. fs # <<>>
    BY <1>1, FramesMap, Zenon
<1> DEFINE f    == Head(fs)
           gs   == Tail(fs)
           p    == f.payload
           n    == Len(p)
           g    == Unit(f.is, n, 0)
           one  == <<g>>
           rest == FlatMap(frameOf, gs)
           more == FlatMap(contentOf, gs)
<1>3. /\ f \in Frame /\ gs \in Seq(Frame)
      /\ s = frameOf[f] \o rest /\ c = contentOf[f] \o more
    BY <1>1, <1>2, FramesMap, Zenon
<1>4. ClosesLast(gs, closed) /\ (f.is = "close" => gs = <<>> /\ closed)
    BY <1>1, <1>2, ClosesTail
<1> HIDE DEF f, gs
<1>5. /\ p \in Seq(U) /\ n \in Nat /\ f.is \in Units
      /\ one \in Seq(U) /\ frameOf[f] = one \o p
      /\ contentOf[f] = IF f.is = "data" THEN p ELSE <<>>
    BY <1>3, FrameFields, Zenon
<1>6. rest \in Seq(U) /\ more \in Seq(U)
    BY <1>3, FramesMap, Zenon
<1>7. g.is = f.is /\ g.n = n /\ Len(one) = 1 /\ one[1] = g
    BY DEF Unit
<1>8. Framed(rest, more, closed)
    BY <1>3, <1>4, Zenon DEF Framed
<1>9. f.is = "close" => rest = <<>> /\ closed
    BY <1>4, FramesMap, Zenon
<1> HIDE DEF p, n, g, one, rest, more
<1> DEFINE h == one \o p
<1>10. h \in Seq(U) /\ Len(h) = 1 + n /\ h[1] = g
  <2>1. h \in Seq(U) /\ Len(h) = Len(one) + Len(p)
      BY <1>5, CatUnits, Zenon
  <2>2. h[1] = one[1]
      BY <1>5, <1>7, ConcatProperties
  <2> QED
      BY <1>7, <2>1, <2>2, Zenon DEF n
<1>11. SubSeq(h, 2, 1 + n) = p
  <2>1. SubSeq(h, 2, Len(h)) = p
    <3>1. <<>> \in Seq(U) /\ p \o <<>> = p /\ Len(one) <= Len(one)
        BY <1>5, <1>7, CatUnits
    <3>2. SubSeq(h, Len(one) + 1, Len(h)) \o <<>> = p /\ SubSeq(h, Len(one) + 1, Len(h)) \in Seq(U)
      <4>1. Cuts(h, <<>>, one, p)
        <5>1. h \o <<>> = h
            BY <1>10, CatUnits, Zenon
        <5> QED
            BY <5>1, Zenon DEF h, Cuts
      <4>2. Len(one) <= Len(h)
          BY <1>5, <1>7, <1>10
      <4> HIDE DEF h
      <4> QED
          BY <1>5, <1>10, <3>1, <4>1, <4>2, UnitsTaken, Zenon
    <3>3. SubSeq(h, Len(one) + 1, Len(h)) = p
      <4> DEFINE z == SubSeq(h, Len(one) + 1, Len(h))
      <4>1. z \in Seq(U) /\ z \o <<>> = p
          BY <3>2
      <4> HIDE DEF z
      <4>2. z \o <<>> = z
          BY <4>1, CatUnits, Zenon
      <4>3. z = p
          BY <4>1, <4>2, Zenon
      <4> QED
          BY <4>3, Zenon DEF z
    <3>4. Len(one) + 1 = 2
        BY <1>7
    <3> QED
        BY <3>3, <3>4, Zenon
  <2> QED
      BY <1>10, <2>1, Zenon
<1>12. s = h \o rest /\ Len(s) = Len(h) + Len(rest) /\ Len(rest) \in Nat
  <2>1. s = h \o rest
      BY <1>3, <1>5, Zenon
  <2> QED
      BY <1>6, <1>10, <2>1, CatUnits, LenProperties, Zenon
<1> HIDE DEF h
<1>13. Head(s) = g
  <2>1. s[1] = h[1]
      BY <1>5, <1>6, <1>10, <1>12, ConcatProperties
  <2>2. Head(s) = s[1]
      OBVIOUS
  <2> QED
      BY <1>10, <2>1, <2>2, Zenon
<1>14. SubSeq(s, 2, n + 1) = p /\ SubSeq(s, n + 2, Len(s)) = rest
  <2>1. SubSeq(s, 1, Len(h)) = h /\ SubSeq(s, Len(h) + 1, Len(s)) = rest
    <3>1. Cuts(s, <<>>, h, rest)
      <4>1. s \o <<>> = s
          BY CatUnits, Zenon
      <4> QED
          BY <1>12, <4>1, Zenon DEF Cuts
    <3>2. Len(h) <= Len(s)
        BY <1>10, <1>12, <1>5
    <3> DEFINE z == SubSeq(s, Len(h) + 1, Len(s))
    <3>3. SubSeq(s, 1, Len(h)) = h /\ z \in Seq(U) /\ z \o <<>> = rest
      <4>1. <<>> \in Seq(U)
          OBVIOUS
      <4> QED
          BY <1>6, <1>10, <3>1, <3>2, <4>1, UnitsTaken, Zenon
    <3> HIDE DEF z
    <3>4. z \o <<>> = z
        BY <3>3, CatUnits, Zenon
    <3>5. z = rest
        BY <3>3, <3>4, Zenon
    <3> QED
        BY <3>3, <3>5, Zenon DEF z
  <2>2. Len(h) + 1 = n + 2 /\ n + 1 = 1 + n
      BY <1>5, <1>10
  <2>3. SubSeq(s, 2, n + 1) = p
    <3>1. \A i \in 1 .. n : i + 1 \in 1 .. n + 1 /\ i + 2 - 1 = i + 1
        BY <1>5
    <3>2. SubSeq(SubSeq(s, 1, Len(h)), 2, 1 + n) = SubSeq(s, 2, n + 1)
      <4>1. /\ Len(s) \in Nat /\ Len(h) <= Len(s) /\ Len(h) = n + 1 /\ n \in Nat
            /\ s \in Seq(U)
          BY <1>5, <1>10, <1>12, LenProperties
      <4> QED
          BY <4>1
    <3> QED
        BY <1>11, <2>1, <3>2, Zenon
  <2> QED
      BY <2>1, <2>2, <2>3, Zenon
<1>15. Head(s).n = n /\ Head(s).is = f.is
    BY <1>7, <1>13, Zenon
<1>16. c = (IF f.is = "data" THEN p ELSE <<>>) \o more
    BY <1>3, <1>5, Zenon
<1> QED
    BY <1>5, <1>6, <1>8, <1>9, <1>14, <1>15, <1>16, Zenon DEF FrameTaken

LEMMA NoFrames ==
    /\ \A closed : Framed(<<>>, <<>>, closed)
    /\ \A closed : \A c : Framed(<<>>, c, closed) => c = <<>>
<1>1. ASSUME NEW closed PROVE Framed(<<>>, <<>>, closed)
  <2>1. <<>> \in Seq(Frame) /\ ClosesLast(<<>>, closed)
      BY DEF ClosesLast
  <2> QED
      BY <2>1, FramesMap, Zenon DEF Framed
<1>2. ASSUME NEW closed, NEW c, Framed(<<>>, c, closed) PROVE c = <<>>
  <2>1. PICK fs \in Seq(Frame) : <<>> = FlatMap(frameOf, fs) /\ c = FlatMap(contentOf, fs)
      BY <1>2, Zenon DEF Framed
  <2>2. fs = <<>>
    <3> SUFFICES ASSUME fs # <<>> PROVE FALSE
        OBVIOUS
    <3> DEFINE f    == Head(fs)
               rest == FlatMap(frameOf, Tail(fs))
               one  == <<Unit(f.is, Len(f.payload), 0)>>
    <3>1. f \in Frame /\ Tail(fs) \in Seq(Frame) /\ <<>> = frameOf[f] \o rest
        BY <2>1, FramesMap, Zenon
    <3> HIDE DEF f
    <3>2. frameOf[f] = one \o f.payload /\ one \in Seq(U) /\ f.payload \in Seq(U)
        BY <3>1, FrameFields, Zenon
    <3>3. rest \in Seq(U)
        BY <3>1, FramesMap, Zenon
    <3>4. Len(one) = 1
        OBVIOUS
    <3> HIDE DEF one, rest
    <3> DEFINE p == f.payload
               h == one \o p
    <3>5. h \in Seq(U) /\ Len(h) = 1 + Len(p)
      <4>1. h \in Seq(U) /\ Len(h) = Len(one) + Len(p)
          BY <3>2, CatUnits, Zenon
      <4> QED
          BY <3>4, <4>1, Zenon
    <3>6. <<>> = h \o rest
        BY <3>1, <3>2, Zenon
    <3>a. Len(p) \in Nat /\ Len(rest) \in Nat
        BY <3>2, <3>3, LenProperties
    <3> HIDE DEF h, p
    <3>7. Len(h \o rest) = Len(h) + Len(rest)
        BY <3>3, <3>5, CatUnits, Zenon
    <3>8. Len(h) + Len(rest) # 0
        BY <3>5, <3>a
    <3>9. Len(<<>>) = 0
        OBVIOUS
    <3> QED
        BY <3>6, <3>7, <3>8, <3>9, Zenon
  <2> QED
      BY <2>1, <2>2, FramesMap, Zenon
<1> QED
    BY <1>1, <1>2

\* What the server may add: a frame of p, an empty one, a ping, and its close,
\* before which vmess has a frame for its last chunk.
LEMMA FramedData ==
    \A closed : \A s, c, p \in Seq(U) :
        Framed(s, c, FALSE) => Framed((s \o <<Unit("data", Len(p), 0)>>) \o p, c \o p, closed)
<1> TAKE closed
<1> TAKE s, c, p \in Seq(U)
<1> HAVE Framed(s, c, FALSE)
<1> DEFINE f   == [is |-> "data", payload |-> p]
           one == <<Unit(f.is, Len(f.payload), 0)>>
<1>1. f \in Frame /\ f.is = "data" /\ f.is # "close" /\ f.payload = p
    BY DEF Frame
<1> HIDE DEF f
<1>2. Framed(s \o frameOf[f], c \o contentOf[f], closed)
    BY <1>1, FrameAdded
<1>3. frameOf[f] = one \o p /\ one \in Seq(U) /\ contentOf[f] = p
    BY <1>1, FrameFields, Zenon
<1>4. one = <<Unit("data", Len(p), 0)>>
    BY <1>1, Zenon
<1> HIDE DEF one
<1>5. Regroups(s, one, p)
    BY <1>3, UnitsRegroups, Zenon
<1>6. Framed((s \o one) \o p, c \o p, closed)
    BY <1>2, <1>3, <1>5, Zenon DEF Regroups
<1> QED
    BY <1>4, <1>6, Zenon

LEMMA FramedEmpty ==
    \A closed : \A s, c \in Seq(U) :
        Framed(s, c, FALSE) => Framed(s \o <<Unit("data", 0, 0)>>, c, closed)
<1> TAKE closed
<1> TAKE s, c \in Seq(U)
<1> HAVE Framed(s, c, FALSE)
<1> DEFINE f   == [is |-> "data", payload |-> <<>>]
           one == <<Unit(f.is, Len(f.payload), 0)>>
<1>1. f \in Frame /\ f.is = "data" /\ f.is # "close" /\ f.payload = <<>> /\ Len(f.payload) = 0
    BY DEF Frame
<1> HIDE DEF f
<1>2. Framed(s \o frameOf[f], c \o contentOf[f], closed)
    BY <1>1, FrameAdded
<1>3. frameOf[f] = one \o <<>> /\ one \in Seq(U) /\ contentOf[f] = <<>>
    BY <1>1, FrameFields, Zenon
<1>4. one = <<Unit("data", 0, 0)>>
    BY <1>1, Zenon
<1> HIDE DEF one
<1>5. one \o <<>> = one /\ c \o <<>> = c
    BY <1>3, CatUnits, Zenon
<1>6. Framed(s \o one, c, closed)
    BY <1>2, <1>3, <1>5, Zenon
<1> QED
    BY <1>4, <1>6, Zenon

LEMMA FramedPing ==
    \A closed : \A s, c, p \in Seq(U) :
        Framed(s, c, FALSE) => Framed(s \o (<<Unit("ping", Len(p), 0)>> \o p), c, closed)
<1> TAKE closed
<1> TAKE s, c, p \in Seq(U)
<1> HAVE Framed(s, c, FALSE)
<1> DEFINE f   == [is |-> "ping", payload |-> p]
           one == <<Unit(f.is, Len(f.payload), 0)>>
<1>1. f \in Frame /\ f.is = "ping" /\ f.is # "close" /\ f.is # "data" /\ f.payload = p
    BY DEF Frame
<1> HIDE DEF f
<1>2. Framed(s \o frameOf[f], c \o contentOf[f], closed)
    BY <1>1, FrameAdded
<1>3. frameOf[f] = one \o p /\ contentOf[f] = <<>>
    BY <1>1, FrameFields, Zenon
<1>4. one = <<Unit("ping", Len(p), 0)>>
    BY <1>1, Zenon
<1> HIDE DEF one
<1>5. c \o <<>> = c
    BY CatUnits, Zenon
<1>6. Framed(s \o (one \o p), c, closed)
    BY <1>2, <1>3, <1>5, Zenon
<1> QED
    BY <1>4, <1>6, Zenon

LEMMA FramedClose ==
    \A s, c \in Seq(U) : Framed(s, c, FALSE) => Framed(s \o <<Unit("close", 0, 0)>>, c, TRUE)
<1> TAKE s, c \in Seq(U)
<1> HAVE Framed(s, c, FALSE)
<1> DEFINE f   == [is |-> "close", payload |-> <<>>]
           one == <<Unit(f.is, Len(f.payload), 0)>>
<1>1. f \in Frame /\ f.is = "close" /\ f.is # "data" /\ f.payload = <<>> /\ Len(f.payload) = 0
    BY DEF Frame
<1> HIDE DEF f
<1>2. Framed(s \o frameOf[f], c \o contentOf[f], TRUE)
    BY <1>1, FrameAdded
<1>3. frameOf[f] = one \o <<>> /\ one \in Seq(U) /\ contentOf[f] = <<>>
    BY <1>1, FrameFields, Zenon
<1>4. one = <<Unit("close", 0, 0)>>
    BY <1>1, Zenon
<1> HIDE DEF one
<1>5. one \o <<>> = one /\ c \o <<>> = c
    BY <1>3, CatUnits, Zenon
<1>6. Framed(s \o one, c, TRUE)
    BY <1>2, <1>3, <1>5, Zenon
<1> QED
    BY <1>4, <1>6, Zenon

LEMMA FramedLast ==
    \A s, c \in Seq(U) :
        Framed(s, c, FALSE)
            => Framed(s \o ((<<Unit("data", 1, 0)>> \o <<Unit("size", 0, 0)>>) \o <<Unit("close", 0, 0)>>),
                      c \o <<Unit("size", 0, 0)>>, TRUE)
<1> TAKE s, c \in Seq(U)
<1> HAVE Framed(s, c, FALSE)
<1> DEFINE p   == <<Unit("size", 0, 0)>>
           one == <<Unit("data", 1, 0)>>
           end == <<Unit("close", 0, 0)>>
<1>1. p \in Seq(U) /\ one \in Seq(U) /\ end \in Seq(U) /\ Len(p) = 1
  <2>1. {"size", "data", "close"} \subseteq Units /\ 0 \in Nat /\ 1 \in Nat /\ Len(p) = 1
      BY DEF Units
  <2> QED
      BY <2>1, UnitTypes, Zenon
<1>2. one = <<Unit("data", Len(p), 0)>> /\ end = <<Unit("close", 0, 0)>>
    BY <1>1, Zenon
<1> HIDE DEF p, end, one
<1>3. Framed((s \o one) \o p, c \o p, FALSE)
    BY <1>1, <1>2, FramedData, Zenon
<1> DEFINE t == (s \o one) \o p
           d == c \o p
<1>4. t \in Seq(U) /\ d \in Seq(U) /\ one \o p \in Seq(U)
    BY <1>1, CatUnits, Zenon
<1>5. Framed(t, d, FALSE)
    BY <1>3
<1>6. Regroups(s, one, p) /\ Regroups(s, one \o p, end)
    BY <1>1, <1>4, UnitsRegroups, Zenon
<1> HIDE DEF t, d
<1>7. Framed(t \o end, d, TRUE)
    BY <1>2, <1>4, <1>5, FramedClose, Zenon
<1>8. t \o end = s \o ((one \o p) \o end)
    BY <1>6, Zenon DEF t, Regroups
<1> QED
    BY <1>7, <1>8, Zenon DEF d, p, one, end

LEMMA TailGrows ==
    \A s, t \in Seq(U) : s # <<>> => /\ Tail(s) \in Seq(U) /\ s \o t # <<>>
                                     /\ Tail(s \o t) = Tail(s) \o t /\ Head(s \o t) = Head(s)
<1> TAKE s, t \in Seq(U)
<1> HAVE s # <<>>
<1> DEFINE g   == Head(s)
           one == <<g>>
           q   == Tail(s)
           r   == q \o t
<1>1. g \in U /\ q \in Seq(U) /\ s = one \o q
  <2>1. g \in U /\ q \in Seq(U)
      OBVIOUS
  <2>2. Len(s) \in Nat \ {0} /\ \A i \in 1 .. Len(s) : s[i] \in U
      BY EmptySeq, LenProperties, ElementOfSeq
  <2>3. s = one \o q
      BY <2>1, <2>2
  <2> QED
      BY <2>1, <2>3
<1> HIDE DEF g, q
<1>2. one \in Seq(U) /\ Len(one) = 1 /\ one[1] = g
    BY <1>1
<1>3. r \in Seq(U)
    BY <1>1, CatUnits, Zenon
<1>4. s \o t = one \o r
  <2>1. Regroups(one, q, t)
      BY <1>1, <1>2, UnitsRegroups, Zenon
  <2> QED
      BY <1>1, <2>1, Zenon DEF Regroups
<1> HIDE DEF r
<1> DEFINE both == one \o r
<1>5. both \in Seq(U) /\ Len(both) = 1 + Len(r) /\ Len(r) \in Nat /\ both[1] = g
    BY <1>1, <1>2, <1>3, ConcatProperties, LenProperties
<1>6. both # <<>>
    BY <1>5
<1>7. SubSeq(both, 2, Len(both)) = r
  <2>1. Cuts(both, <<>>, one, r) /\ Len(one) <= Len(both) /\ Len(one) + 1 = 2
    <3>1. both \o <<>> = both
        BY <1>5, CatUnits, Zenon
    <3> QED
        BY <1>2, <1>5, <3>1 DEF Cuts
  <2>2. <<>> \in Seq(U)
      OBVIOUS
  <2> DEFINE z == SubSeq(both, Len(one) + 1, Len(both))
  <2> HIDE DEF both
  <2>3. z \in Seq(U) /\ z \o <<>> = r
      BY <1>2, <1>3, <1>5, <2>1, <2>2, UnitsTaken, Zenon
  <2> HIDE DEF z
  <2>4. z \o <<>> = z
      BY <2>3, CatUnits, Zenon
  <2>5. z = r
      BY <2>3, <2>4, Zenon
  <2> QED
      BY <2>1, <2>5, Zenon DEF z
<1>8. Tail(both) = SubSeq(both, 2, Len(both)) /\ Head(both) = both[1]
  <2>1. Tail(both) = SubSeq(both, 2, Len(both))
      BY <1>5, <1>6
  <2> QED
      BY <2>1
<1>9. s \o t = both
    BY <1>4
<1> HIDE DEF both
<1>10. /\ s \o t # <<>> /\ Tail(s \o t) = r /\ Head(s \o t) = g
    BY <1>5, <1>6, <1>7, <1>8, <1>9, Zenon
<1> QED
    BY <1>1, <1>10, Zenon DEF r, q, g

-----------------------------------------------------------------------------
(* What is still to come: read, in frames, and not sent yet.               *)

LEMMA FramedGoesOn ==
    \A s, c, closed, later : Framed(s, c, closed) /\ (closed => later) => Framed(s, c, later)
BY Zenon DEF Framed, ClosesLast

\* What comes for the reads of a face: s is there, frames brings more, and the
\* server has r to send.
Brings(k, alive, r, frames, more) ==
    IF k.ws THEN Framed(frames, more, ~alive /\ r = <<>>) ELSE more = <<>>

Coming(k, x, a, y, b, l, size, alive, s, r, frames) ==
    \E more \in Seq(U) :
        Brings(k, alive, r, frames, more) /\ Stream(k, x, a, y, b, l, size, ~alive, s, more \o r)

\* (s \o (m \o r)) \o n, told as s \o (m \o (r \o n)).
LEMMA FarRegroup ==
    \A s, m, r, n \in Seq(U) : (s \o (m \o r)) \o n = s \o (m \o (r \o n))
<1> TAKE s, m, r, n \in Seq(U)
<1> DEFINE t == m \o r
<1>1. t \in Seq(U)
    BY CatUnits, Zenon
<1>2. Regroups(m, r, n)
    BY UnitsRegroups, Zenon
<1>3. t \o n = m \o (r \o n)
    BY <1>2, Zenon DEF Regroups
<1> HIDE DEF t
<1>4. Regroups(s, t, n)
    BY <1>1, UnitsRegroups, Zenon
<1>5. (s \o t) \o n = s \o (t \o n)
    BY <1>4, Zenon DEF Regroups
<1> QED
    BY <1>3, <1>5, Zenon DEF t

FarGroups(s, m, r, n) == (s \o (m \o r)) \o n = s \o (m \o (r \o n))

LEMMA FarGrouped == \A s, m, r, n \in Seq(U) : FarGroups(s, m, r, n)
BY FarRegroup DEF FarGroups

LEMMA ComingReply ==
    ASSUME NEW k, k.header \in Nat, NEW x \in Nat, NEW a \in Nat, NEW y \in Nat, NEW b \in Nat,
           NEW l \in Nat, NEW size \in Nat, NEW s \in Seq(U), NEW r \in Seq(U), NEW frames,
           Coming(k, x, a, y, b, l, size, TRUE, s, r, frames),
           NEW n \in Nat \ {0}, NEW c \in Nat, k.sealed => c = b + 1
    PROVE  Coming(k, x, a, y + n, c, l, size, TRUE, s,
                  r \o ((IF y = 0 THEN Headers(k.header) ELSE <<>>) \o Answer(k, y, b, n)), frames)
<1> DEFINE new == (IF y = 0 THEN Headers(k.header) ELSE <<>>) \o Answer(k, y, b, n)
<1>1. PICK more \in Seq(U) :
        /\ Brings(k, TRUE, r, frames, more)
        /\ Stream(k, x, a, y, b, l, size, ~TRUE, s, more \o r)
    BY Zenon DEF Coming
<1> DEFINE t == s \o (more \o r)
<1>2. t \in Seq(U)
  <2>1. more \o r \in Seq(U)
      BY CatUnits, Zenon
  <2> QED
      BY <2>1, CatUnits, Zenon
<1>3. Inner(k, x, a, y, b, l, size, FALSE, t)
  <2>1. Inner(k, x, a, y, b, l, size, ~TRUE, t)
      BY <1>1, Zenon DEF Stream
  <2> HIDE DEF t
  <2> QED
      BY <2>1
<1>4. new \in Seq(U)
  <2>1. Answer(k, y, b, n) \in Seq(U)
      BY AnswerType
  <2>2. (IF y = 0 THEN Headers(k.header) ELSE <<>>) \in Seq(U)
      BY UnitTypes, CatUnits, Zenon
  <2> QED
      BY <2>1, <2>2, CatUnits, Zenon
<1>5. Inner(k, x, a, y + n, c, l, size, FALSE, t \o new)
  <2> HIDE DEF t
  <2> QED
      BY <1>2, <1>3, InnerReply
<1> HIDE DEF new
<1>6. FarGroups(s, more, r, new)
    BY <1>4, FarGrouped, Zenon
<1>7. t \o new = s \o (more \o (r \o new))
    BY <1>6, Zenon DEF FarGroups
<1> HIDE DEF t
<1> DEFINE later == s \o (more \o (r \o new))
<1>8. Inner(k, x, a, y + n, c, l, size, FALSE, later)
    BY <1>5, <1>7, Zenon
<1>9. Inner(k, x, a, y + n, c, l, size, ~TRUE, later)
  <2> HIDE DEF later
  <2> QED
      BY <1>8
<1>10. Stream(k, x, a, y + n, c, l, size, ~TRUE, s, more \o (r \o new))
    BY <1>9, Zenon DEF Stream
<1>11. Brings(k, TRUE, r \o new, frames, more)
    BY <1>1, FramedGoesOn, Zenon DEF Brings
<1> QED
    BY <1>10, <1>11, Zenon DEF Coming, new

\* A face without ws.
LEMMA ComingRaw ==
    ASSUME NEW k, ~k.ws, NEW x, NEW a, NEW y, NEW b, NEW l, NEW size, NEW alive,
           NEW s \in Seq(U), NEW r \in Seq(U), NEW frames, NEW later, NEW s2, NEW r2 \in Seq(U),
           s \o r = s2 \o r2, Coming(k, x, a, y, b, l, size, alive, s, r, frames)
    PROVE  Coming(k, x, a, y, b, l, size, alive, s2, r2, later)
<1>1. PICK more \in Seq(U) :
        more = <<>> /\ Stream(k, x, a, y, b, l, size, ~alive, s, more \o r)
    BY Zenon DEF Coming, Brings
<1>2. <<>> \o r = r /\ <<>> \o r2 = r2 /\ <<>> \in Seq(U)
    BY CatUnits, Zenon
<1>3. Inner(k, x, a, y, b, l, size, ~alive, s \o r)
    BY <1>1, <1>2, Zenon DEF Stream
<1>4. Stream(k, x, a, y, b, l, size, ~alive, s2, <<>> \o r2)
    BY <1>2, <1>3, Zenon DEF Stream
<1>5. Brings(k, alive, r2, later, <<>>)
    BY Zenon DEF Brings
<1> QED
    BY <1>2, <1>4, <1>5, Zenon DEF Coming

\* The server sends p, and keeps q.
LEMMA ComingSent ==
    ASSUME NEW k, k.ws, NEW x, NEW a, NEW y, NEW b, NEW l, NEW size, NEW alive,
           NEW s \in Seq(U), NEW p \in Seq(U), NEW q \in Seq(U), NEW frames \in Seq(U),
           p # <<>>, Coming(k, x, a, y, b, l, size, alive, s, p \o q, frames)
    PROVE  Coming(k, x, a, y, b, l, size, alive, s, q,
                  (frames \o <<Unit("data", Len(p), 0)>>) \o p)
<1> DEFINE r == p \o q
<1>1. r \in Seq(U) /\ r # <<>>
  <2>1. r \in Seq(U) /\ Len(r) = Len(p) + Len(q) /\ Len(p) \in Nat /\ Len(q) \in Nat
      BY CatUnits, LenProperties, Zenon
  <2>2. Len(p) # 0
      BY EmptySeq
  <2>3. Len(r) # 0
      BY <2>1, <2>2
  <2> QED
      BY <2>1, <2>3
<1>2. PICK more \in Seq(U) :
        /\ Framed(frames, more, ~alive /\ r = <<>>)
        /\ Stream(k, x, a, y, b, l, size, ~alive, s, more \o r)
    BY Zenon DEF Coming, Brings
<1> DEFINE again == more \o p
<1>3. again \in Seq(U)
    BY CatUnits, Zenon
<1>4. Regroups(more, p, q)
    BY UnitsRegroups, Zenon
<1>5. again \o q = more \o r
    BY <1>4, Zenon DEF Regroups
<1>6. Framed(frames, more, FALSE)
    BY <1>1, <1>2, FramedGoesOn, Zenon
<1>7. Framed((frames \o <<Unit("data", Len(p), 0)>>) \o p, again, ~alive /\ q = <<>>)
    BY <1>6, FramedData, Zenon
<1> HIDE DEF again, r
<1>8. Stream(k, x, a, y, b, l, size, ~alive, s, again \o q)
    BY <1>2, <1>5, Zenon
<1>9. Brings(k, alive, q, (frames \o <<Unit("data", Len(p), 0)>>) \o p, again)
    BY <1>7, Zenon DEF Brings
<1> QED
    BY <1>3, <1>8, <1>9, Zenon DEF Coming

\* Frames that bring nothing.
LEMMA ComingPing ==
    ASSUME NEW k, k.ws, NEW x, NEW a, NEW y, NEW b, NEW l, NEW size, NEW s, NEW r,
           NEW frames \in Seq(U), Coming(k, x, a, y, b, l, size, TRUE, s, r, frames)
    PROVE  /\ Coming(k, x, a, y, b, l, size, TRUE, s, r, frames \o <<Unit("data", 0, 0)>>)
           /\ \A p \in Seq(U) :
                Coming(k, x, a, y, b, l, size, TRUE, s, r,
                       frames \o (<<Unit("ping", Len(p), 0)>> \o p))
<1>1. PICK more \in Seq(U) :
        /\ Framed(frames, more, ~TRUE /\ r = <<>>)
        /\ Stream(k, x, a, y, b, l, size, ~TRUE, s, more \o r)
    BY Zenon DEF Coming, Brings
<1>2. Framed(frames, more, FALSE)
    BY <1>1, FramedGoesOn, Zenon
<1>3. Framed(frames \o <<Unit("data", 0, 0)>>, more, ~TRUE /\ r = <<>>)
    BY <1>2, FramedEmpty, Zenon
<1>4. ASSUME NEW p \in Seq(U)
      PROVE  Framed(frames \o (<<Unit("ping", Len(p), 0)>> \o p), more, ~TRUE /\ r = <<>>)
    BY <1>2, FramedPing, Zenon
<1>5. Brings(k, TRUE, r, frames \o <<Unit("data", 0, 0)>>, more)
    BY <1>3, Zenon DEF Brings
<1>6. \A p \in Seq(U) : Brings(k, TRUE, r, frames \o (<<Unit("ping", Len(p), 0)>> \o p), more)
    BY <1>4, Zenon DEF Brings
<1>7. Coming(k, x, a, y, b, l, size, TRUE, s, r, frames \o <<Unit("data", 0, 0)>>)
    BY <1>1, <1>5, Zenon DEF Coming
<1>8. \A p \in Seq(U) : Coming(k, x, a, y, b, l, size, TRUE, s, r,
                               frames \o (<<Unit("ping", Len(p), 0)>> \o p))
    BY <1>1, <1>6, Zenon DEF Coming
<1> QED
    BY <1>7, <1>8

\* The server is gone.
LEMMA ComingOver ==
    ASSUME NEW k, k.vmess => k.sealed, NEW x \in Nat, NEW a \in Nat, NEW y \in Nat, NEW b \in Nat,
           NEW l \in Nat, NEW size \in Nat, NEW s \in Seq(U), NEW r \in Seq(U), NEW frames,
           NEW alive \in BOOLEAN, Coming(k, x, a, y, b, l, size, alive, s, r, frames)
    PROVE  Coming(k, x, a, y, b, l, size, FALSE, s, r, frames)
<1>1. PICK more \in Seq(U) :
        /\ Brings(k, alive, r, frames, more)
        /\ Stream(k, x, a, y, b, l, size, ~alive, s, more \o r)
    BY Zenon DEF Coming
<1> DEFINE t == s \o (more \o r)
<1>2. t \in Seq(U)
  <2>1. more \o r \in Seq(U)
      BY CatUnits, Zenon
  <2> QED
      BY <2>1, CatUnits, Zenon
<1>3. Inner(k, x, a, y, b, l, size, ~alive, t)
    BY <1>1, Zenon DEF Stream
<1>4. Inner(k, x, a, y, b, l, size, ~FALSE, t)
  <2> HIDE DEF t
  <2>1. (~alive) \in BOOLEAN
      OBVIOUS
  <2>2. Inner(k, x, a, y, b, l, size, TRUE, t)
      BY <1>2, <1>3, <2>1, InnerOver
  <2> QED
      BY <2>2
<1>5. Stream(k, x, a, y, b, l, size, ~FALSE, s, more \o r)
    BY <1>4, Zenon DEF Stream
<1>6. Brings(k, FALSE, r, frames, more)
    BY <1>1, FramedGoesOn, Zenon DEF Brings
<1> QED
    BY <1>5, <1>6, Zenon DEF Coming

\* The server ends: vmess has a chunk for that, ws a frame.
LEMMA ComingEnds ==
    ASSUME NEW k, k.vmess => k.sealed, NEW x \in Nat, NEW a \in Nat, NEW y \in Nat \ {0},
           NEW b \in Nat, NEW l \in Nat, NEW size \in Nat, NEW s \in Seq(U), NEW frames \in Seq(U),
           Coming(k, x, a, y, b, l, size, TRUE, s, <<>>, frames)
    PROVE  LET last == <<Unit("size", 0, 0)>>
               end  == <<Unit("close", 0, 0)>>
           IN  /\ ~k.ws /\ k.vmess =>
                    \A later : Coming(k, x, a, y, b, l, size, FALSE, s \o last, <<>>, later)
               /\ ~k.ws => Coming(k, x, a, y, b, l, size, FALSE, s, <<>>, frames)
               /\ k.ws /\ k.vmess =>
                    Coming(k, x, a, y, b, l, size, FALSE, s, <<>>,
                           frames \o ((<<Unit("data", 1, 0)>> \o last) \o end))
               /\ k.ws => Coming(k, x, a, y, b, l, size, FALSE, s, <<>>, frames \o end)
<1> DEFINE last == <<Unit("size", 0, 0)>>
           end  == <<Unit("close", 0, 0)>>
<1>1. PICK more \in Seq(U) :
        /\ Brings(k, TRUE, <<>>, frames, more)
        /\ Stream(k, x, a, y, b, l, size, ~TRUE, s, more \o <<>>)
    BY Zenon DEF Coming
<1>2. more \o <<>> = more /\ <<>> \in Seq(U)
    BY CatUnits, Zenon
<1>3. last \in Seq(U)
    BY UnitTypes, Zenon DEF Ends
<1> DEFINE t == s \o more
<1>4. t \in Seq(U)
    BY CatUnits, Zenon
<1>5. Inner(k, x, a, y, b, l, size, ~TRUE, t)
    BY <1>1, <1>2, Zenon DEF Stream
<1>6. Inner(k, x, a, y, b, l, size, FALSE, t)
  <2> HIDE DEF t
  <2> QED
      BY <1>5
<1>7. /\ Inner(k, x, a, y, b, l, size, TRUE, t)
      /\ k.vmess => Inner(k, x, a, y, b, l, size, TRUE, t \o last)
  <2> HIDE DEF t
  <2>1. y # 0 /\ y \in Nat
      OBVIOUS
  <2>2. /\ Inner(k, x, a, y, b, l, size, TRUE, t)
        /\ y # 0 /\ ~FALSE /\ k.vmess =>
                Inner(k, x, a, y, b, l, size, TRUE, t \o <<Unit("size", 0, 0)>>)
      BY <1>4, <1>6, <2>1, InnerOver
  <2> QED
      BY <2>1, <2>2
<1> HIDE DEF last
<1>8. Stream(k, x, a, y, b, l, size, ~FALSE, s, more \o <<>>)
  <2>1. Inner(k, x, a, y, b, l, size, ~FALSE, t)
    <3> HIDE DEF t
    <3> QED
        BY <1>7
  <2> QED
      BY <1>2, <2>1, Zenon DEF Stream
<1>9. k.ws => Coming(k, x, a, y, b, l, size, FALSE, s, <<>>, frames \o end)
  <2> SUFFICES ASSUME k.ws PROVE Coming(k, x, a, y, b, l, size, FALSE, s, <<>>, frames \o end)
      OBVIOUS
  <2>1. Framed(frames, more, FALSE)
      BY <1>1, FramedGoesOn, Zenon DEF Brings
  <2>2. Framed(frames \o end, more, TRUE)
      BY <2>1, FramedClose, Zenon
  <2>3. Brings(k, FALSE, <<>>, frames \o end, more)
      BY <2>2, FramedGoesOn, Zenon DEF Brings
  <2> QED
      BY <1>8, <2>3, Zenon DEF Coming
<1>10. ~k.ws => Coming(k, x, a, y, b, l, size, FALSE, s, <<>>, frames)
  <2> SUFFICES ASSUME ~k.ws PROVE Coming(k, x, a, y, b, l, size, FALSE, s, <<>>, frames)
      OBVIOUS
  <2>1. Brings(k, FALSE, <<>>, frames, more)
      BY <1>1, Zenon DEF Brings
  <2> QED
      BY <1>8, <2>1, Zenon DEF Coming
<1> DEFINE again == more \o last
<1>11. again \in Seq(U) /\ again \o <<>> = again
    BY <1>3, CatUnits, Zenon
<1>12. k.vmess => Stream(k, x, a, y, b, l, size, ~FALSE, s, again \o <<>>)
  <2> SUFFICES ASSUME k.vmess PROVE Stream(k, x, a, y, b, l, size, ~FALSE, s, again \o <<>>)
      OBVIOUS
  <2>1. Regroups(s, more, last)
      BY <1>3, UnitsRegroups, Zenon
  <2>2. t \o last = s \o again
      BY <2>1, Zenon DEF Regroups
  <2> DEFINE z == s \o again
  <2>3. Inner(k, x, a, y, b, l, size, TRUE, z)
      BY <1>7, <2>2, Zenon
  <2>4. Inner(k, x, a, y, b, l, size, ~FALSE, z)
    <3> HIDE DEF z
    <3> QED
        BY <2>3
  <2> HIDE DEF again
  <2> QED
      BY <1>11, <2>4, Zenon DEF Stream
<1>13. k.ws /\ k.vmess =>
            Coming(k, x, a, y, b, l, size, FALSE, s, <<>>,
                   frames \o ((<<Unit("data", 1, 0)>> \o last) \o end))
  <2> SUFFICES ASSUME k.ws, k.vmess
               PROVE  Coming(k, x, a, y, b, l, size, FALSE, s, <<>>,
                             frames \o ((<<Unit("data", 1, 0)>> \o last) \o end))
      OBVIOUS
  <2> DEFINE fs == frames \o ((<<Unit("data", 1, 0)>> \o last) \o end)
  <2>1. Framed(frames, more, FALSE)
      BY <1>1, FramedGoesOn, Zenon DEF Brings
  <2>2. Framed(fs, again, TRUE)
      BY <2>1, FramedLast, Zenon DEF last
  <2> HIDE DEF fs, again
  <2>3. Brings(k, FALSE, <<>>, fs, again)
      BY <2>2, FramedGoesOn, Zenon DEF Brings
  <2>4. Coming(k, x, a, y, b, l, size, FALSE, s, <<>>, fs)
      BY <1>11, <1>12, <2>3, Zenon DEF Coming
  <2> QED
      BY <2>4 DEF fs
<1>14. ~k.ws /\ k.vmess =>
            \A later : Coming(k, x, a, y, b, l, size, FALSE, s \o last, <<>>, later)
  <2> SUFFICES ASSUME ~k.ws, k.vmess, NEW later
               PROVE  Coming(k, x, a, y, b, l, size, FALSE, s \o last, <<>>, later)
      OBVIOUS
  <2>1. more = <<>>
      BY <1>1, Zenon DEF Brings
  <2>2. again = last /\ last \o <<>> = last /\ <<>> \o <<>> = <<>>
      BY <1>2, <1>3, <2>1, CatUnits, Zenon
  <2> DEFINE z == s \o last
  <2>3. z \in Seq(U) /\ z \o <<>> = z
      BY <1>3, CatUnits, Zenon
  <2>4. Inner(k, x, a, y, b, l, size, ~FALSE, z)
      BY <1>12, <2>2, Zenon DEF Stream
  <2> HIDE DEF z, again
  <2>5. Stream(k, x, a, y, b, l, size, ~FALSE, z, <<>> \o <<>>)
      BY <2>2, <2>3, <2>4, Zenon DEF Stream
  <2>6. Brings(k, FALSE, <<>>, later, <<>>)
      BY Zenon DEF Brings
  <2>7. Coming(k, x, a, y, b, l, size, FALSE, z, <<>>, later)
      BY <1>2, <2>5, <2>6, Zenon DEF Coming
  <2> QED
      BY <2>7 DEF z
<1> QED
    BY <1>9, <1>10, <1>13, <1>14, Zenon DEF last

\* A read over ws takes the next frame.
LEMMA ComingFrame ==
    ASSUME NEW k, k.ws, NEW x, NEW a, NEW y, NEW b, NEW l, NEW size, NEW alive,
           NEW s \in Seq(U), NEW r \in Seq(U), NEW frames \in Seq(U), frames # <<>>,
           Coming(k, x, a, y, b, l, size, alive, s, r, frames)
    PROVE  LET payload == SubSeq(frames, 2, Head(frames).n + 1)
               rest    == SubSeq(frames, Head(frames).n + 2, Len(frames))
               s2      == IF Head(frames).is = "data" THEN s \o payload ELSE s
           IN  /\ rest \in Seq(U) /\ s2 \in Seq(U)
               /\ Coming(k, x, a, y, b, l, size, alive, s2, r, rest)
               /\ Head(frames).is = "close" => rest = <<>> /\ ~alive /\ r = <<>>
<1> DEFINE payload == SubSeq(frames, 2, Head(frames).n + 1)
           rest    == SubSeq(frames, Head(frames).n + 2, Len(frames))
           data    == IF Head(frames).is = "data" THEN payload ELSE <<>>
           s2      == IF Head(frames).is = "data" THEN s \o payload ELSE s
<1>1. PICK more \in Seq(U) :
        /\ Framed(frames, more, ~alive /\ r = <<>>)
        /\ Stream(k, x, a, y, b, l, size, ~alive, s, more \o r)
    BY Zenon DEF Coming, Brings
<1>2. FrameTaken(frames, more, ~alive /\ r = <<>>)
    BY <1>1, TakesFrame
<1>3. PICK after \in Seq(U) :
        /\ payload \in Seq(U) /\ rest \in Seq(U)
        /\ more = data \o after
        /\ Framed(rest, after, ~alive /\ r = <<>>)
        /\ Head(frames).is = "close" => rest = <<>> /\ ~alive /\ r = <<>>
    BY <1>2, Zenon DEF FrameTaken
<1>4. data \in Seq(U)
    BY <1>3, CatUnits, Zenon
<1>5. s2 = s \o data /\ s2 \in Seq(U)
    BY <1>3, CatUnits, Zenon
<1> HIDE DEF payload, rest, data, s2
<1>6. s \o (more \o r) = s2 \o (after \o r)
  <2>1. FarGroups(s, data, after, r) /\ Regroups(s, data, after)
      BY <1>4, FarGrouped, UnitsRegroups, Zenon
  <2>2. Regroups(s, more, r)
      BY UnitsRegroups, Zenon
  <2>3. Regroups(s2, after, r)
      BY <1>5, UnitsRegroups, Zenon
  <2>4. (s \o more) \o r = s \o (more \o r)
      BY <2>2, Zenon DEF Regroups
  <2>5. s \o more = s2 \o after
      BY <1>3, <1>5, <2>1, Zenon DEF Regroups
  <2>6. (s2 \o after) \o r = s2 \o (after \o r)
      BY <2>3, Zenon DEF Regroups
  <2> QED
      BY <2>4, <2>5, <2>6, Zenon
<1>7. Stream(k, x, a, y, b, l, size, ~alive, s2, after \o r)
    BY <1>1, <1>6, Zenon DEF Stream
<1>8. Coming(k, x, a, y, b, l, size, alive, s2, r, rest)
    BY <1>3, <1>7, Zenon DEF Coming, Brings
<1> QED
    BY <1>3, <1>5, <1>8, Zenon DEF payload, rest, s2

LEMMA ComingHeader ==
    ASSUME NEW k, NEW x \in Nat, NEW a \in Nat, NEW y \in Nat, NEW b \in Nat, NEW l \in Nat \ {0},
           NEW size \in Nat, NEW alive, NEW s \in Seq(U), NEW r \in Seq(U), NEW frames,
           Len(s) >= 1, Coming(k, x, a, y, b, l, size, alive, s, r, frames)
    PROVE  /\ SubSeq(s, 2, Len(s)) \in Seq(U)
           /\ Coming(k, x, a, y, b, l - 1, size, alive, SubSeq(s, 2, Len(s)), r, frames)
<1>1. PICK more \in Seq(U) :
        /\ Brings(k, alive, r, frames, more)
        /\ Stream(k, x, a, y, b, l, size, ~alive, s, more \o r)
    BY Zenon DEF Coming
<1> DEFINE u == more \o r
<1>2. u \in Seq(U) /\ Stream(k, x, a, y, b, l, size, ~alive, s, u)
    BY <1>1, CatUnits, Zenon
<1> HIDE DEF u
<1>3. /\ SubSeq(s, 2, Len(s)) \in Seq(U)
      /\ Stream(k, x, a, y, b, l - 1, size, ~alive, SubSeq(s, 2, Len(s)), u)
    BY <1>2, InnerHeader, Zenon
<1> QED
    BY <1>1, <1>3, Zenon DEF Coming, u

LEMMA ComingSize ==
    ASSUME NEW k, k.sealed, NEW x \in Nat, NEW a \in Nat, NEW y \in Nat, NEW b \in Nat,
           NEW alive, NEW s \in Seq(U), NEW r \in Seq(U), NEW frames,
           Len(s) >= 1, Coming(k, x, a, y, b, 0, 0, alive, s, r, frames)
    PROVE  /\ Head(s).is = "size" /\ Head(s).n \in Nat
           /\ Head(s).n = 0 => k.vmess /\ ~alive /\ x = y
           /\ Head(s).n > 0 => Coming(k, x, a, y, b, 0, Head(s).n, alive, SubSeq(s, 2, Len(s)), r, frames)
<1>1. PICK more \in Seq(U) :
        /\ Brings(k, alive, r, frames, more)
        /\ Stream(k, x, a, y, b, 0, 0, ~alive, s, more \o r)
    BY Zenon DEF Coming
<1> DEFINE u == more \o r
<1>2. u \in Seq(U) /\ Stream(k, x, a, y, b, 0, 0, ~alive, s, u)
    BY <1>1, CatUnits, Zenon
<1> HIDE DEF u
<1>3. SizeFound(k, x, a, y, b, ~alive, s, u)
    BY <1>2, InnerSize, Zenon
<1>4. /\ Head(s).is = "size" /\ Head(s).n \in Nat
      /\ Head(s).n = 0 => k.vmess /\ ~alive /\ x = y
      /\ Head(s).n > 0 => Stream(k, x, a, y, b, 0, Head(s).n, ~alive, SubSeq(s, 2, Len(s)), u)
    BY <1>3, Zenon DEF SizeFound
<1>5. Head(s).n > 0 => Coming(k, x, a, y, b, 0, Head(s).n, alive, SubSeq(s, 2, Len(s)), r, frames)
    BY <1>1, <1>4, Zenon DEF Coming, u
<1> QED
    BY <1>4, <1>5, Zenon

LEMMA ComingChunk ==
    ASSUME NEW k, k.sealed, NEW x \in Nat, NEW a \in Nat, NEW y \in Nat, NEW b \in Nat,
           NEW n \in Nat \ {0}, NEW alive, NEW s \in Seq(U), NEW r \in Seq(U), NEW frames,
           Len(s) >= n, Coming(k, x, a, y, b, 0, n, alive, s, r, frames)
    PROVE  /\ SubSeq(s, 1, n) = Bodies(x, n, a)
           /\ x + n <= y
           /\ Coming(k, x + n, a + 1, y, b, 0, 0, alive, SubSeq(s, n + 1, Len(s)), r, frames)
<1>1. PICK more \in Seq(U) :
        /\ Brings(k, alive, r, frames, more)
        /\ Stream(k, x, a, y, b, 0, n, ~alive, s, more \o r)
    BY Zenon DEF Coming
<1> DEFINE u == more \o r
<1>2. u \in Seq(U) /\ Stream(k, x, a, y, b, 0, n, ~alive, s, u)
    BY <1>1, CatUnits, Zenon
<1> HIDE DEF u
<1>3. ChunkFound(k, x, a, y, b, ~alive, n, s, u)
    BY <1>2, InnerChunk, Zenon
<1> QED
    BY <1>1, <1>3, Zenon DEF ChunkFound, Coming, u

\* What a read of all there is finds.
AnyFound(k, x, a, y, b, size, over, s, u) ==
    /\ s = Bodies(x, Len(s), 0) /\ x + Len(s) <= y
    /\ Inner(k, x + Len(s), a, y, b, 0, size, over, u)

LEMMA InnerAnyFound ==
    \A k, over : \A x, a, y, b, size \in Nat : \A s, u \in Seq(U) :
        Stream(k, x, a, y, b, 0, size, over, s, u) /\ Len(s) >= 1 /\ ~k.sealed
            => AnyFound(k, x, a, y, b, size, over, s, u)
<1> TAKE k, over
<1> TAKE x, a, y, b, size \in Nat
<1> TAKE s, u \in Seq(U)
<1> HAVE Stream(k, x, a, y, b, 0, size, over, s, u) /\ Len(s) >= 1 /\ ~k.sealed
<1> QED
    BY InnerAny DEF AnyFound

LEMMA ComingAny ==
    ASSUME NEW k, ~k.sealed, NEW x \in Nat, NEW a \in Nat, NEW y \in Nat, NEW b \in Nat,
           NEW size \in Nat, NEW alive, NEW s \in Seq(U), NEW r \in Seq(U), NEW frames,
           Len(s) >= 1, Coming(k, x, a, y, b, 0, size, alive, s, r, frames)
    PROVE  /\ s = Bodies(x, Len(s), 0) /\ x + Len(s) <= y
           /\ Coming(k, x + Len(s), a, y, b, 0, size, alive, <<>>, r, frames)
<1>1. PICK more \in Seq(U) :
        /\ Brings(k, alive, r, frames, more)
        /\ Stream(k, x, a, y, b, 0, size, ~alive, s, more \o r)
    BY Zenon DEF Coming
<1> DEFINE u == more \o r
<1>2. u \in Seq(U) /\ Stream(k, x, a, y, b, 0, size, ~alive, s, u)
    BY <1>1, CatUnits, Zenon
<1> HIDE DEF u
<1>3. /\ s = Bodies(x, Len(s), 0) /\ x + Len(s) <= y
      /\ Inner(k, x + Len(s), a, y, b, 0, size, ~alive, u)
  <2>1. AnyFound(k, x, a, y, b, size, ~alive, s, u)
      BY <1>2, InnerAnyFound, Zenon
  <2> QED
      BY <2>1, Zenon DEF AnyFound
<1>4. <<>> \o u = u
    BY <1>2, CatUnits, Zenon
<1>5. Stream(k, x + Len(s), a, y, b, 0, size, ~alive, <<>>, u)
    BY <1>3, <1>4, Zenon DEF Stream
<1>6. Coming(k, x + Len(s), a, y, b, 0, size, alive, <<>>, r, frames)
    BY <1>1, <1>5, Zenon DEF Coming, u
<1> QED
    BY <1>3, <1>6, Zenon

\* Over ws, where nothing is left to come.
LEMMA ComingDone ==
    ASSUME NEW k, k.ws, ~k.sealed, NEW x \in Nat, NEW a \in Nat, NEW y \in Nat, NEW b \in Nat,
           NEW size, NEW alive, Coming(k, x, a, y, b, 0, size, alive, <<>>, <<>>, <<>>)
    PROVE  x = y
<1>1. PICK more \in Seq(U) :
        /\ Framed(<<>>, more, ~alive /\ <<>> = <<>>)
        /\ Stream(k, x, a, y, b, 0, size, ~alive, <<>>, more \o <<>>)
    BY Zenon DEF Coming, Brings
<1>2. more = <<>>
    BY <1>1, NoFrames, Zenon
<1>3. <<>> \o <<>> = <<>>
    BY CatUnits, Zenon
<1>4. Inner(k, x, a, y, b, 0, size, ~alive, <<>>)
    BY <1>1, <1>2, <1>3, Zenon DEF Stream
<1> QED
    BY <1>4, InnerDone

-----------------------------------------------------------------------------
(* Down: the server's bytes.                                               *)

\* Past the upgrade's head, in is frames.
FrameIn == IF phase = "upgrade" THEN Tail(in) ELSE in

DownTypes ==
    /\ kind \in Kinds /\ phase \in Phases /\ serverUp \in BOOLEAN
    /\ streamEnd \in {"no", "frame", "socket"}
    /\ sent \in 0 .. MaxUp /\ replied \in 0 .. MaxDown /\ extras \in 0 .. MaxExtras
    /\ replyCount \in Nat /\ left \in 0 .. kind.header /\ need \in Nat /\ inCount \in Nat
    /\ reply \in Seq(U) /\ in \in Seq(U) /\ pending \in Seq(U)
    /\ phase = "upgrade" => kind.ws /\ in # <<>>

DownSeen ==
    /\ Len(delivered) \in Nat /\ delivered = Upto(Len(delivered)) /\ Len(delivered) <= replied
    /\ kind.vmess => inCount <= CountLimit
    /\ phase = "failed" => streamEnd # "no" \/ inCount = CountLimit
    /\ phase = "ended" /\ (kind.ws \/ kind.sealed) => Len(delivered) = replied /\ ~serverUp
    /\ streamEnd = "frame" => in = <<>> /\ reply = <<>> /\ ~serverUp

DownComes ==
    phase \in {"upgrade", "open"} =>
        Coming(kind, Len(delivered), inCount, replied, replyCount, left, need, serverUp, Source,
               reply, FrameIn)

DownInv == DownTypes /\ DownSeen /\ DownComes

LEMMA KindFacts ==
    ASSUME KindsAssumption, DownTypes
    PROVE  /\ kind.header \in Nat /\ kind.ws \in BOOLEAN /\ kind.sealed \in BOOLEAN
           /\ kind.vmess \in BOOLEAN /\ (kind.vmess => kind.sealed)
BY DEF KindsAssumption, DownTypes

LEMMA DownFacts ==
    ASSUME KindsAssumption, BoundsAssumption, DownInv
    PROVE  /\ kind.header \in Nat /\ (kind.vmess => kind.sealed)
           /\ Source \in Seq(U) /\ FrameIn \in Seq(U) /\ reply \in Seq(U)
           /\ in \in Seq(U) /\ pending \in Seq(U)
           /\ Len(delivered) \in Nat /\ replied \in Nat /\ replyCount \in Nat /\ left \in Nat
           /\ need \in Nat /\ inCount \in Nat /\ serverUp \in BOOLEAN
           /\ MaxDown \in Nat /\ MaxUp \in Nat /\ MaxExtras \in Nat
<1>1. DownTypes /\ DownSeen
    BY DEF DownInv
<1>2. kind.header \in Nat /\ (kind.vmess => kind.sealed)
    BY <1>1, KindFacts
<1>3. in \in Seq(U) /\ pending \in Seq(U) /\ reply \in Seq(U)
    BY <1>1 DEF DownTypes
<1>4. Source \in Seq(U)
    BY <1>3, Zenon DEF Source
<1>5. FrameIn \in Seq(U)
  <2>1. phase = "upgrade" => in # <<>>
      BY <1>1 DEF DownTypes
  <2>2. in # <<>> => Tail(in) \in Seq(U)
      BY <1>3
  <2> QED
      BY <1>3, <2>1, <2>2, Zenon DEF FrameIn
<1>6. MaxDown \in Nat /\ MaxUp \in Nat /\ MaxExtras \in Nat
    BY DEF BoundsAssumption
<1>7. replied \in Nat /\ left \in Nat
    BY <1>1, <1>2, <1>6 DEF DownTypes
<1>8. /\ Len(delivered) \in Nat /\ replyCount \in Nat /\ need \in Nat /\ inCount \in Nat
      /\ serverUp \in BOOLEAN
    BY <1>1 DEF DownTypes, DownSeen
<1> QED
    BY <1>2, <1>3, <1>4, <1>5, <1>6, <1>7, <1>8

LEMMA Stays ==
    \A a \in BOOLEAN : \A b : b = a \/ b = FALSE => b \in BOOLEAN /\ (~a => ~b)
<1> TAKE a \in BOOLEAN
<1> TAKE b
<1> HAVE b = a \/ b = FALSE
<1>1. CASE b = a
    BY <1>1
<1>2. CASE b = FALSE
    BY <1>2
<1> QED
    BY <1>1, <1>2

\* What only the far side sees, and the end.
LEMMA DownQuiet ==
    ASSUME KindsAssumption, BoundsAssumption, DownInv,
           UNCHANGED <<kind, replied, replyCount, reply, extras, in, downVars>>,
           sent' \in 0 .. MaxUp,
           serverUp' = serverUp \/ serverUp' = FALSE,
           streamEnd' = streamEnd \/ (streamEnd = "no" /\ streamEnd' = "socket"),
           phase' \in Phases, phase' \in {"upgrade", "open"} => phase' = phase,
           phase' = "failed" => phase = "failed" \/ streamEnd # "no",
           phase' = "ended" /\ (kind.ws \/ kind.sealed)
                => phase = "ended" \/ (Len(delivered) = replied /\ ~serverUp)
    PROVE  DownInv'
<1>1. DownTypes /\ DownSeen /\ DownComes
    BY DEF DownInv
<1>2. UNCHANGED <<kind, replied, replyCount, reply, extras, in, pending, left, need, inCount, delivered>>
    BY DEF downVars
<1>3. serverUp \in BOOLEAN /\ serverUp' \in BOOLEAN /\ (~serverUp => ~serverUp')
  <2>1. serverUp \in BOOLEAN
      BY <1>1, Zenon DEF DownTypes
  <2>2. serverUp' = serverUp \/ serverUp' = FALSE
      OBVIOUS
  <2> QED
      BY <2>1, <2>2, Stays, Zenon
<1>4. DownTypes'
  <2>1. streamEnd' \in {"no", "frame", "socket"}
    <3>1. streamEnd \in {"no", "frame", "socket"}
        BY <1>1, Zenon DEF DownTypes
    <3> QED
        BY <3>1, Zenon
  <2>2. phase' = "upgrade" => kind.ws /\ in # <<>>
      BY <1>1, Zenon DEF DownTypes
  <2> QED
      BY <1>1, <1>2, <1>3, <2>1, <2>2, Zenon DEF DownTypes, U
<1>5. DownSeen'
  <2>1. streamEnd' = "frame" => streamEnd = "frame"
      OBVIOUS
  <2>2. streamEnd # "no" => streamEnd' # "no"
      OBVIOUS
  <2>3. phase' = "failed" => streamEnd' # "no" \/ inCount = CountLimit
      BY <1>1, <2>2, Zenon DEF DownSeen
  <2>4. phase' = "ended" /\ (kind.ws \/ kind.sealed) => Len(delivered) = replied /\ ~serverUp'
      BY <1>1, <1>3, Zenon DEF DownSeen
  <2>5. streamEnd' = "frame" => in = <<>> /\ reply = <<>> /\ ~serverUp'
      BY <1>1, <1>3, <2>1, Zenon DEF DownSeen
  <2> QED
      BY <1>1, <1>2, <2>3, <2>4, <2>5, Zenon DEF DownSeen, Upto
<1>6. DownComes'
  <2> SUFFICES ASSUME phase' \in {"upgrade", "open"}
               PROVE  Coming(kind, Len(delivered), inCount, replied, replyCount, left, need, serverUp',
                             Source, reply, FrameIn)
    <3>1. phase' \in {"upgrade", "open"} => Source' = Source /\ FrameIn' = FrameIn
        BY <1>2, Zenon DEF Source, FrameIn
    <3> QED
        BY <1>2, <3>1, Zenon DEF DownComes
  <2>1. Coming(kind, Len(delivered), inCount, replied, replyCount, left, need, serverUp, Source,
               reply, FrameIn)
      BY <1>1, Zenon DEF DownComes
  <2>2. CASE serverUp' = serverUp
      BY <2>1, <2>2, Zenon
  <2>3. CASE serverUp' = FALSE
    <3>1. Coming(kind, Len(delivered), inCount, replied, replyCount, left, need, FALSE, Source,
                 reply, FrameIn)
        BY <2>1, DownFacts, ComingOver
    <3> QED
        BY <2>3, <3>1
  <2> QED
      BY <2>2, <2>3
<1> QED
    BY <1>4, <1>5, <1>6 DEF DownInv

LEMMA DownInit == KindsAssumption /\ CapAssumption /\ BoundsAssumption /\ Init => DownInv
<1> SUFFICES ASSUME KindsAssumption, CapAssumption, BoundsAssumption, Init PROVE DownInv
    OBVIOUS
<1> DEFINE head == Unit("head", 0, 0)
<1>1. head \in U
    BY DEF Unit, U, Units
<1> HIDE DEF head
<1>2. <<head>> \in Seq(U) /\ <<>> \in Seq(U) /\ <<head>> # <<>> /\ Tail(<<head>>) = <<>>
    BY <1>1
<1>3. /\ kind \in Kinds /\ sent = 0 /\ replied = 0 /\ replyCount = 0 /\ reply = <<>> /\ extras = 0
      /\ in = (IF kind.ws THEN <<head>> ELSE <<>>)
      /\ pending = <<>> /\ left = kind.header /\ need = 0 /\ inCount = 0 /\ delivered = <<>>
      /\ phase = (IF kind.ws THEN "upgrade" ELSE "open")
      /\ streamEnd = "no" /\ serverUp = TRUE
    BY Zenon DEF Init, head
<1>4. kind.header \in Nat /\ MaxUp \in Nat /\ MaxDown \in Nat /\ MaxExtras \in Nat
      /\ CountLimit \in Nat
    BY <1>3 DEF KindsAssumption, BoundsAssumption, CapAssumption
<1>5. /\ 0 \in 0 .. MaxUp /\ 0 \in 0 .. MaxDown /\ 0 \in 0 .. MaxExtras
      /\ kind.header \in 0 .. kind.header /\ 0 \in Nat /\ 0 <= 0 /\ 0 <= CountLimit
    BY <1>4
<1>6. DownTypes
  <2>1. phase \in Phases /\ serverUp \in BOOLEAN /\ streamEnd \in {"no", "frame", "socket"}
      BY <1>3 DEF Phases
  <2>2. reply \in Seq(U) /\ in \in Seq(U) /\ pending \in Seq(U)
      BY <1>2, <1>3, Zenon
  <2>3. phase = "upgrade" => kind.ws /\ in # <<>>
      BY <1>2, <1>3
  <2> QED
      BY <1>3, <1>5, <2>1, <2>2, <2>3, Zenon DEF DownTypes
<1>7. DownSeen
  <2>1. Len(<<>>) = 0 /\ <<>> = Upto(0)
      BY DEF Upto
  <2>2. phase # "failed" /\ phase # "ended" /\ streamEnd # "frame"
      BY <1>3
  <2> QED
      BY <1>3, <1>5, <2>1, <2>2, Zenon DEF DownSeen
<1>8. DownComes
  <2>1. Source = <<>> /\ FrameIn = <<>>
      BY <1>2, <1>3 DEF Source, FrameIn
  <2>2. Inner(kind, 0, 0, 0, 0, kind.header, 0, ~TRUE, <<>>)
      BY Zenon DEF Inner
  <2>3. <<>> \o (<<>> \o <<>>) = <<>>
      BY CatUnits, Zenon
  <2>4. Stream(kind, 0, 0, 0, 0, kind.header, 0, ~TRUE, <<>>, <<>> \o <<>>)
      BY <2>2, <2>3, Zenon DEF Stream
  <2>5. Brings(kind, TRUE, <<>>, <<>>, <<>>)
      BY NoFrames, Zenon DEF Brings
  <2>6. Coming(kind, 0, 0, 0, 0, kind.header, 0, TRUE, <<>>, <<>>, <<>>)
      BY <1>2, <2>4, <2>5, Zenon DEF Coming
  <2>7. Len(delivered) = 0
      BY <1>3
  <2>8. Coming(kind, Len(delivered), inCount, replied, replyCount, left, need, serverUp, Source,
               reply, FrameIn)
      BY <1>3, <2>1, <2>6, <2>7
  <2> QED
      BY <2>8, Zenon DEF DownComes
<1> QED
    BY <1>6, <1>7, <1>8 DEF DownInv

\* The server answers: its answer joins what it has to send.
LEMMA DownReplies ==
    ASSUME KindsAssumption, BoundsAssumption, DownInv, NEW n \in 1 .. MaxDown, ServerReplies(n)
    PROVE  DownInv'
<1>1. DownTypes /\ DownSeen /\ DownComes
    BY DEF DownInv
<1>2. /\ kind.header \in Nat /\ (kind.vmess => kind.sealed)
      /\ Source \in Seq(U) /\ FrameIn \in Seq(U) /\ reply \in Seq(U)
      /\ Len(delivered) \in Nat /\ replied \in Nat /\ replyCount \in Nat /\ left \in Nat
      /\ need \in Nat /\ inCount \in Nat /\ MaxDown \in Nat
    BY DownFacts
<1> DEFINE nonce  == IF kind.sealed THEN replyCount ELSE 0
           header == IF replied = 0 THEN Headers(kind.header) ELSE <<>>
           size   == IF kind.sealed THEN <<Unit("size", n, 0)>> ELSE <<>>
           bodies == Bodies(replied, n, nonce)
           count  == IF kind.sealed THEN replyCount + 1 ELSE 0
           answer == Answer(kind, replied, replyCount, n)
<1>3. /\ serverUp /\ replied + n <= MaxDown /\ replied' = replied + n
      /\ replyCount' = count
      /\ reply' = ((reply \o header) \o size) \o bodies
      /\ UNCHANGED <<kind, sent, extras, serverUp, pending, left, need, inCount, delivered,
                     in, phase, streamEnd>>
    BY Zenon DEF ServerReplies, Headers, Bodies, upVars, downVars
<1>4. n \in Nat \ {0} /\ n \in Nat /\ count \in Nat /\ (kind.sealed => count = replyCount + 1)
      /\ nonce \in Nat
    BY <1>2
<1>5. header \in Seq(U) /\ size \in Seq(U) /\ bodies \in Seq(U) /\ size \o bodies \in Seq(U)
  <2>1. "size" \in Units /\ 0 \in Nat
      BY DEF Units
  <2>2. header \in Seq(U)
      BY <1>2, UnitTypes, CatUnits, Zenon
  <2>3. size \in Seq(U)
      BY <1>4, <2>1, UnitTypes, CatUnits, Zenon
  <2> HIDE DEF nonce
  <2>4. bodies \in Seq(U)
      BY <1>2, <1>4, UnitTypes, Zenon
  <2>5. size \o bodies \in Seq(U)
      BY <2>3, <2>4, CatUnits, Zenon
  <2> QED
      BY <2>2, <2>3, <2>4, <2>5
<1>6. answer = size \o bodies
    BY Zenon DEF Answer
<1> HIDE DEF header, size, bodies, answer, count, nonce
<1>7. reply' = reply \o (header \o answer) /\ reply' \in Seq(U)
  <2>1. reply \o header \in Seq(U) /\ header \o answer \in Seq(U)
      BY <1>2, <1>5, <1>6, CatUnits, Zenon
  <2>2. Regroups(reply \o header, size, bodies)
      BY <1>5, <2>1, UnitsRegroups, Zenon
  <2>3. Regroups(reply, header, answer)
      BY <1>2, <1>5, <1>6, UnitsRegroups, Zenon
  <2>4. reply' = (reply \o header) \o answer
      BY <1>3, <1>6, <2>2, Zenon DEF Regroups
  <2>5. reply' = reply \o (header \o answer)
      BY <2>3, <2>4, Zenon DEF Regroups
  <2>6. reply \o (header \o answer) \in Seq(U)
      BY <1>2, <2>1, CatUnits, Zenon
  <2> QED
      BY <2>5, <2>6, Zenon
<1>8. DownTypes'
  <2>1. replied' \in 0 .. MaxDown /\ replyCount' \in Nat
      BY <1>2, <1>3, <1>4
  <2> QED
      BY <1>1, <1>3, <1>7, <2>1, Zenon DEF DownTypes, U
<1>9. DownSeen'
  <2>1. Len(delivered) <= replied'
    <3>1. Len(delivered) <= replied
        BY <1>1, Zenon DEF DownSeen
    <3>2. Len(delivered) <= replied + n
        BY <1>2, <1>4, <3>1
    <3> QED
        BY <1>3, <3>2, Zenon
  <2>2. streamEnd # "frame" /\ ~(phase = "ended" /\ (kind.ws \/ kind.sealed))
      BY <1>1, <1>3, Zenon DEF DownSeen
  <2> QED
      BY <1>1, <1>3, <2>1, <2>2, Zenon DEF DownSeen, Upto
<1>10. DownComes'
  <2> SUFFICES ASSUME phase' \in {"upgrade", "open"}
               PROVE  Coming(kind, Len(delivered), inCount, replied + n, count, left, need,
                             serverUp, Source, reply \o (header \o answer), FrameIn)
    <3>1. Source' = Source /\ FrameIn' = FrameIn
        BY <1>3, Zenon DEF Source, FrameIn
    <3> QED
        BY <1>3, <1>7, <3>1, Zenon DEF DownComes
  <2>1. serverUp = TRUE
      BY <1>1, <1>3 DEF DownTypes
  <2>2. Coming(kind, Len(delivered), inCount, replied, replyCount, left, need, TRUE, Source,
               reply, FrameIn)
    <3>1. Coming(kind, Len(delivered), inCount, replied, replyCount, left, need, serverUp, Source,
                 reply, FrameIn)
        BY <1>1, <1>3, Zenon DEF DownComes
    <3> QED
        BY <2>1, <3>1
  <2>3. Coming(kind, Len(delivered), inCount, replied + n, count, left, need, TRUE, Source,
               reply \o (header \o answer), FrameIn)
    <3>1. Coming(kind, Len(delivered), inCount, replied + n, count, left, need, TRUE, Source,
                 reply \o ((IF replied = 0 THEN Headers(kind.header) ELSE <<>>)
                            \o Answer(kind, replied, replyCount, n)), FrameIn)
        BY <1>2, <1>4, <2>2, ComingReply
    <3> QED
        BY <3>1 DEF header, answer
  <2> QED
      BY <2>1, <2>3
<1> QED
    BY <1>8, <1>9, <1>10 DEF DownInv

\* The server sends the front of what it has, over ws in a frame.
LEMMA DownSends ==
    ASSUME KindsAssumption, BoundsAssumption, DownInv, NEW k \in DOMAIN reply, ServerSends(k)
    PROVE  DownInv'
<1>1. DownTypes /\ DownSeen /\ DownComes
    BY DEF DownInv
<1>2. /\ Source \in Seq(U) /\ FrameIn \in Seq(U) /\ reply \in Seq(U) /\ in \in Seq(U)
      /\ pending \in Seq(U)
    BY DownFacts
<1> DEFINE p     == SubSeq(reply, 1, k)
           q     == SubSeq(reply, k + 1, Len(reply))
           frame == IF kind.ws THEN <<Unit("data", k, 0)>> ELSE <<>>
<1>3. /\ in' = (in \o frame) \o p /\ reply' = q
      /\ UNCHANGED <<kind, sent, replied, replyCount, extras, serverUp, pending, left, need,
                     inCount, delivered, phase, streamEnd>>
    BY Zenon DEF ServerSends, upVars, downVars
<1>4. k \in 0 .. Len(reply) /\ k \in Nat /\ k # 0
  <2>1. k \in 1 .. Len(reply) /\ Len(reply) \in Nat
      BY <1>2, LenProperties
  <2> HIDE DEF DownInv
  <2> QED
      BY <2>1
<1>5. /\ p \in Seq(U) /\ Len(p) = k /\ q \in Seq(U) /\ p \o q = reply
    BY <1>2, <1>4, Cut, Zenon
<1>6. frame \in Seq(U)
  <2>1. "data" \in Units /\ 0 \in Nat
      BY DEF Units
  <2> QED
      BY <1>4, <2>1, UnitTypes, CatUnits, Zenon
<1> HIDE DEF p, q
<1>7. p # <<>> /\ reply # <<>>
  <2>1. p # <<>>
    <3>1. Len(<<>>) = 0
        OBVIOUS
    <3> QED
        BY <1>4, <1>5, <3>1, Zenon
  <2>2. reply # <<>>
    <3>1. Len(reply) # 0
        BY <1>2, <1>4, LenProperties
    <3> QED
        BY <3>1
  <2> QED
      BY <2>1, <2>2
<1>8. in \o frame \in Seq(U) /\ in' \in Seq(U)
  <2>1. in \o frame \in Seq(U)
      BY <1>2, <1>6, CatUnits, Zenon
  <2> QED
      BY <1>3, <1>5, <2>1, CatUnits, Zenon
<1>9. in' = in \o (frame \o p) /\ frame \o p \in Seq(U)
  <2>1. Regroups(in, frame, p)
      BY <1>2, <1>5, <1>6, UnitsRegroups, Zenon
  <2>2. frame \o p \in Seq(U)
      BY <1>5, <1>6, CatUnits, Zenon
  <2> QED
      BY <1>3, <2>1, <2>2, Zenon DEF Regroups
<1>10. phase = "upgrade" => in # <<>> /\ in' # <<>> /\ FrameIn' = Tail(in) \o (frame \o p)
  <2> SUFFICES ASSUME phase = "upgrade"
               PROVE  in # <<>> /\ in' # <<>> /\ FrameIn' = Tail(in) \o (frame \o p)
      OBVIOUS
  <2>1. in # <<>>
      BY <1>1, Zenon DEF DownTypes
  <2>2. in' # <<>> /\ Tail(in') = Tail(in) \o (frame \o p)
      BY <1>2, <1>9, <2>1, TailGrows, Zenon
  <2> QED
      BY <1>3, <2>1, <2>2, Zenon DEF FrameIn
<1>11. FrameIn' = (FrameIn \o frame) \o p
  <2>1. FrameIn' = FrameIn \o (frame \o p)
      BY <1>3, <1>9, <1>10, Zenon DEF FrameIn
  <2>2. Regroups(FrameIn, frame, p)
      BY <1>2, <1>5, <1>6, UnitsRegroups, Zenon
  <2> QED
      BY <2>1, <2>2, Zenon DEF Regroups
<1>12. DownTypes'
    BY <1>1, <1>3, <1>5, <1>8, <1>10, Zenon DEF DownTypes, U
<1>13. DownSeen'
  <2>1. streamEnd # "frame"
      BY <1>1, <1>7, Zenon DEF DownSeen
  <2> QED
      BY <1>1, <1>3, <2>1, Zenon DEF DownSeen, Upto
<1>14. DownComes'
  <2> SUFFICES ASSUME phase \in {"upgrade", "open"}
               PROVE  Coming(kind, Len(delivered), inCount, replied, replyCount, left, need,
                             serverUp, Source', q, FrameIn')
      BY <1>3, Zenon DEF DownComes
  <2>1. Coming(kind, Len(delivered), inCount, replied, replyCount, left, need, serverUp, Source,
               p \o q, FrameIn)
      BY <1>1, <1>5, Zenon DEF DownComes
  <2>2. CASE kind.ws
    <3>1. Source' = Source
        BY <1>3, <2>2, Zenon DEF Source
    <3>2. frame = <<Unit("data", Len(p), 0)>>
        BY <1>5, <2>2, Zenon
    <3> HIDE DEF frame
    <3>3. Coming(kind, Len(delivered), inCount, replied, replyCount, left, need, serverUp, Source,
                 q, (FrameIn \o <<Unit("data", Len(p), 0)>>) \o p)
        BY <1>2, <1>5, <1>7, <2>1, <2>2, ComingSent
    <3> QED
        BY <1>11, <3>1, <3>2, <3>3, Zenon
  <2>3. CASE ~kind.ws
    <3>1. Source = in /\ Source' = in'
        BY <1>3, <2>3, Zenon DEF Source
    <3>2. frame = <<>>
        BY <2>3
    <3>3. in \o <<>> = in
        BY <1>2, CatUnits, Zenon
    <3>4. in' = in \o p
        BY <1>3, <3>2, <3>3, Zenon
    <3>5. Regroups(in, p, q)
        BY <1>2, <1>5, UnitsRegroups, Zenon
    <3> DEFINE r == p \o q
               later == FrameIn'
    <3>6. in \o r = in' \o q /\ r \in Seq(U)
        BY <1>5, <3>4, <3>5, CatUnits, Zenon DEF Regroups
    <3>7. Coming(kind, Len(delivered), inCount, replied, replyCount, left, need, serverUp, in,
                 r, FrameIn)
        BY <2>1, <3>1, Zenon
    <3> HIDE DEF r, later
    <3>8. Coming(kind, Len(delivered), inCount, replied, replyCount, left, need, serverUp, in',
                 q, later)
        BY <1>2, <1>5, <2>3, <3>6, <3>7, ComingRaw
    <3> QED
        BY <3>1, <3>8, Zenon DEF later
  <2> QED
      BY <2>2, <2>3
<1> QED
    BY <1>12, <1>13, <1>14 DEF DownInv

LEMMA FrameInGrows ==
    ASSUME DownTypes, NEW x \in Seq(U), in' = in \o x, phase' = phase
    PROVE  in' \in Seq(U) /\ FrameIn' = FrameIn \o x /\ (phase = "upgrade" => in' # <<>>)
<1>1. in \in Seq(U) /\ (phase = "upgrade" => in # <<>>)
    BY Zenon DEF DownTypes
<1>2. in' \in Seq(U)
    BY <1>1, CatUnits, Zenon
<1>3. CASE phase = "upgrade"
  <2>1. in' # <<>> /\ Tail(in') = Tail(in) \o x
      BY <1>1, <1>3, TailGrows, Zenon
  <2> QED
      BY <1>2, <1>3, <2>1, Zenon DEF FrameIn
<1>4. CASE phase # "upgrade"
    BY <1>2, <1>4, Zenon DEF FrameIn
<1> QED
    BY <1>3, <1>4

\* The server sends a ping, or an empty frame.
LEMMA DownPings ==
    ASSUME KindsAssumption, BoundsAssumption, DownInv, NEW n \in 0 .. 1, ServerPings(n)
    PROVE  DownInv'
<1>1. DownTypes /\ DownSeen /\ DownComes
    BY DEF DownInv
<1>2. Source \in Seq(U) /\ FrameIn \in Seq(U) /\ reply \in Seq(U) /\ MaxExtras \in Nat
    BY DownFacts
<1> DEFINE echo  == [i \in 1 .. n |-> Unit("echo", i, 0)]
           ping  == <<Unit("ping", n, 0)>> \o echo
           empty == <<Unit("data", 0, 0)>>
           added == IF n = 0 THEN empty ELSE ping
<1>3. /\ kind.ws /\ serverUp /\ extras < MaxExtras /\ extras' = extras + 1
      /\ in' = in \o added
      /\ UNCHANGED <<kind, sent, replied, replyCount, reply, serverUp, pending, left, need,
                     inCount, delivered, phase, streamEnd>>
    BY Zenon DEF ServerPings, upVars, downVars
<1>4. echo \in Seq(U) /\ Len(echo) = n /\ n \in Nat
  <2> DEFINE e(i) == Unit("echo", i, 0)
  <2>1. "echo" \in Units /\ 0 \in Nat /\ n \in Nat
      BY DEF Units
  <2>2. \A i \in 1 .. n : e(i) \in U
    <3> TAKE i \in 1 .. n
    <3>1. i \in Nat
        OBVIOUS
    <3> QED
        BY <2>1, <3>1, UnitTypes, Zenon
  <2> HIDE DEF e
  <2>3. [i \in 1 .. n |-> e(i)] \in Seq(U) /\ Len([i \in 1 .. n |-> e(i)]) = n
      BY <2>1, <2>2
  <2> QED
      BY <2>1, <2>3 DEF e
<1>5. empty \in Seq(U) /\ ping \in Seq(U)
  <2> HIDE DEF echo
  <2>1. {"ping", "data"} \subseteq Units /\ 0 \in Nat
      BY DEF Units
  <2> QED
      BY <1>4, <2>1, UnitTypes, CatUnits, Zenon
<1>6. ping = <<Unit("ping", Len(echo), 0)>> \o echo
    BY <1>4, Zenon
<1> HIDE DEF echo, ping, empty
<1>7. added \in Seq(U)
    BY <1>5, Zenon
<1>8. in' \in Seq(U) /\ FrameIn' = FrameIn \o added /\ (phase = "upgrade" => in' # <<>>)
  <2> HIDE DEF added
  <2> QED
      BY <1>1, <1>3, <1>7, FrameInGrows
<1>9. DownTypes'
  <2>1. extras' \in 0 .. MaxExtras
    <3>1. extras \in 0 .. MaxExtras
        BY <1>1, Zenon DEF DownTypes
    <3> QED
        BY <1>2, <1>3, <3>1
  <2> QED
      BY <1>1, <1>3, <1>8, <2>1, Zenon DEF DownTypes, U
<1>10. DownSeen'
  <2>1. streamEnd # "frame"
      BY <1>1, <1>3, Zenon DEF DownSeen
  <2> QED
      BY <1>1, <1>3, <2>1, Zenon DEF DownSeen, Upto
<1>11. DownComes'
  <2> SUFFICES ASSUME phase \in {"upgrade", "open"}
               PROVE  Coming(kind, Len(delivered), inCount, replied, replyCount, left, need,
                             serverUp, Source, reply, FrameIn \o added)
    <3>1. Source' = Source
        BY <1>3, Zenon DEF Source
    <3> QED
        BY <1>3, <1>8, <3>1, Zenon DEF DownComes
  <2>1. serverUp = TRUE
      BY <1>1, <1>3 DEF DownTypes
  <2>2. Coming(kind, Len(delivered), inCount, replied, replyCount, left, need, TRUE, Source,
               reply, FrameIn)
    <3>1. Coming(kind, Len(delivered), inCount, replied, replyCount, left, need, serverUp, Source,
                 reply, FrameIn)
        BY <1>1, Zenon DEF DownComes
    <3> QED
        BY <2>1, <3>1
  <2>3. /\ Coming(kind, Len(delivered), inCount, replied, replyCount, left, need, TRUE, Source,
                  reply, FrameIn \o <<Unit("data", 0, 0)>>)
        /\ \A p \in Seq(U) :
             Coming(kind, Len(delivered), inCount, replied, replyCount, left, need, TRUE, Source,
                    reply, FrameIn \o (<<Unit("ping", Len(p), 0)>> \o p))
      BY <1>2, <1>3, <2>2, ComingPing
  <2>4. Coming(kind, Len(delivered), inCount, replied, replyCount, left, need, TRUE, Source,
               reply, FrameIn \o empty)
      BY <2>3, Zenon DEF empty
  <2>5. Coming(kind, Len(delivered), inCount, replied, replyCount, left, need, TRUE, Source,
               reply, FrameIn \o ping)
    <3>1. Coming(kind, Len(delivered), inCount, replied, replyCount, left, need, TRUE, Source,
                 reply, FrameIn \o (<<Unit("ping", Len(echo), 0)>> \o echo))
        BY <1>4, <2>3, Zenon
    <3> QED
        BY <1>6, <3>1, Zenon
  <2>6. Coming(kind, Len(delivered), inCount, replied, replyCount, left, need, TRUE, Source,
               reply, FrameIn \o added)
      BY <2>4, <2>5, Zenon
  <2> QED
      BY <2>1, <2>6
<1> QED
    BY <1>9, <1>10, <1>11 DEF DownInv

\* The server has said all.
LEMMA DownEnds ==
    ASSUME KindsAssumption, BoundsAssumption, DownInv, ServerEnds
    PROVE  DownInv'
<1>1. DownTypes /\ DownSeen /\ DownComes
    BY DEF DownInv
<1>2. /\ kind.header \in Nat /\ (kind.vmess => kind.sealed)
      /\ Source \in Seq(U) /\ FrameIn \in Seq(U) /\ in \in Seq(U)
      /\ Len(delivered) \in Nat /\ replied \in Nat /\ replyCount \in Nat /\ left \in Nat
      /\ need \in Nat /\ inCount \in Nat
    BY DownFacts
<1> DEFINE chunk == <<Unit("size", 0, 0)>>
           data  == <<Unit("data", 1, 0)>>
           end   == <<Unit("close", 0, 0)>>
           last  == IF kind.vmess THEN chunk ELSE <<>>
           frame == IF kind.vmess THEN data ELSE <<>>
           added == IF kind.ws THEN (frame \o last) \o end ELSE last
<1>3. /\ serverUp /\ reply = <<>> /\ replied > 0 /\ serverUp' = FALSE
      /\ in' = in \o added
      /\ UNCHANGED <<kind, sent, replied, replyCount, reply, extras, pending, left, need,
                     inCount, delivered, phase, streamEnd>>
    BY Zenon DEF ServerEnds, upVars, downVars
<1>4. chunk \in Seq(U) /\ data \in Seq(U) /\ end \in Seq(U) /\ <<>> \in Seq(U)
  <2>1. {"size", "data", "close"} \subseteq Units /\ 0 \in Nat /\ 1 \in Nat /\ <<>> \in Seq(U)
      BY DEF Units
  <2> QED
      BY <2>1, UnitTypes, Zenon
<1> HIDE DEF chunk, data, end
<1>5. last \in Seq(U) /\ frame \in Seq(U)
    BY <1>4, Zenon
<1>6. added \in Seq(U)
  <2> HIDE DEF last, frame
  <2>1. frame \o last \in Seq(U)
      BY <1>5, CatUnits, Zenon
  <2>2. (frame \o last) \o end \in Seq(U)
      BY <1>4, <2>1, CatUnits, Zenon
  <2> QED
      BY <1>5, <2>2, Zenon
<1>7. in' \in Seq(U) /\ FrameIn' = FrameIn \o added /\ (phase = "upgrade" => in' # <<>>)
  <2> HIDE DEF added
  <2> QED
      BY <1>1, <1>3, <1>6, FrameInGrows
<1>8. DownTypes'
  <2>1. FALSE \in BOOLEAN
      OBVIOUS
  <2> QED
      BY <1>1, <1>3, <1>7, <2>1, Zenon DEF DownTypes, U
<1>9. DownSeen'
  <2>1. streamEnd # "frame" /\ ~(phase = "ended" /\ (kind.ws \/ kind.sealed))
      BY <1>1, <1>3, Zenon DEF DownSeen
  <2> QED
      BY <1>1, <1>3, <2>1, Zenon DEF DownSeen, Upto
<1>10. DownComes'
  <2> SUFFICES ASSUME phase \in {"upgrade", "open"}
               PROVE  Coming(kind, Len(delivered), inCount, replied, replyCount, left, need,
                             FALSE, Source', <<>>, FrameIn')
      BY <1>3, Zenon DEF DownComes
  <2>1. serverUp = TRUE
      BY <1>1, <1>3 DEF DownTypes
  <2>2. Coming(kind, Len(delivered), inCount, replied, replyCount, left, need, TRUE, Source,
               <<>>, FrameIn)
    <3>1. Coming(kind, Len(delivered), inCount, replied, replyCount, left, need, serverUp, Source,
                 <<>>, FrameIn)
        BY <1>1, <1>3, Zenon DEF DownComes
    <3> QED
        BY <2>1, <3>1
  <2>3. replied \in Nat \ {0}
      BY <1>2, <1>3
  <2> DEFINE C(s, frames) == Coming(kind, Len(delivered), inCount, replied, replyCount, left, need,
                                    FALSE, s, <<>>, frames)
  <2>4. /\ ~kind.ws /\ kind.vmess =>
             \A later : Coming(kind, Len(delivered), inCount, replied, replyCount, left, need,
                               FALSE, Source \o <<Unit("size", 0, 0)>>, <<>>, later)
        /\ ~kind.ws => Coming(kind, Len(delivered), inCount, replied, replyCount, left, need,
                              FALSE, Source, <<>>, FrameIn)
        /\ kind.ws /\ kind.vmess =>
             Coming(kind, Len(delivered), inCount, replied, replyCount, left, need, FALSE, Source, <<>>,
                    FrameIn \o ((<<Unit("data", 1, 0)>> \o <<Unit("size", 0, 0)>>)
                                \o <<Unit("close", 0, 0)>>))
        /\ kind.ws => Coming(kind, Len(delivered), inCount, replied, replyCount, left, need,
                             FALSE, Source, <<>>, FrameIn \o <<Unit("close", 0, 0)>>)
      BY <1>2, <2>2, <2>3, ComingEnds
  <2>5. /\ ~kind.ws /\ kind.vmess => \A later : C(Source \o chunk, later)
        /\ ~kind.ws => C(Source, FrameIn)
        /\ kind.ws /\ kind.vmess => C(Source, FrameIn \o ((data \o chunk) \o end))
        /\ kind.ws => C(Source, FrameIn \o end)
      BY <2>4, Zenon DEF chunk, data, end
  <2> HIDE DEF C
  <2>6. CASE kind.ws
    <3>1. Source' = Source
        BY <1>3, <2>6, Zenon DEF Source
    <3>2. CASE kind.vmess
      <4>1. added = (data \o chunk) \o end
          BY <2>6, <3>2, Zenon
      <4>2. C(Source', FrameIn')
          BY <1>7, <2>5, <2>6, <3>1, <3>2, <4>1, Zenon
      <4> QED
          BY <4>2, Zenon DEF C
    <3>3. CASE ~kind.vmess
      <4>1. (<<>> \o <<>>) \o end = end
          BY <1>4, CatUnits, Zenon
      <4>2. added = end
          BY <2>6, <3>3, <4>1, Zenon
      <4>3. C(Source', FrameIn')
          BY <1>7, <2>5, <2>6, <3>1, <4>2, Zenon
      <4> QED
          BY <4>3, Zenon DEF C
    <3> QED
        BY <3>2, <3>3
  <2>7. CASE ~kind.ws
    <3>1. Source = in /\ Source' = in'
        BY <1>3, <2>7, Zenon DEF Source
    <3>2. CASE kind.vmess
      <4>1. added = chunk
          BY <2>7, <3>2, Zenon
      <4>2. C(Source', FrameIn')
          BY <1>3, <2>5, <2>7, <3>1, <3>2, <4>1, Zenon
      <4> QED
          BY <4>2, Zenon DEF C
    <3>3. CASE ~kind.vmess
      <4>1. added = <<>> /\ in \o <<>> = in /\ FrameIn \o <<>> = FrameIn
          BY <1>2, <2>7, <3>3, CatUnits, Zenon
      <4>2. C(Source', FrameIn')
          BY <1>3, <1>7, <2>5, <2>7, <3>1, <4>1, Zenon
      <4> QED
          BY <4>2, Zenon DEF C
    <3> QED
        BY <3>2, <3>3
  <2> QED
      BY <2>6, <2>7
<1> QED
    BY <1>8, <1>9, <1>10 DEF DownInv

\* Past the head of the upgrade.
LEMMA DownUpgrade ==
    ASSUME KindsAssumption, BoundsAssumption, DownInv, Upgrade
    PROVE  DownInv'
<1>1. DownTypes /\ DownSeen /\ DownComes
    BY DEF DownInv
<1>2. FrameIn \in Seq(U) /\ in \in Seq(U)
    BY DownFacts
<1>3. /\ phase = "upgrade" /\ phase' = "open" /\ streamEnd = "no" /\ in' = Tail(in)
      /\ UNCHANGED <<kind, sent, replied, replyCount, reply, extras, serverUp, pending, left, need,
                     inCount, delivered, streamEnd>>
    BY Zenon DEF Upgrade, serverVars, downVars
<1>4. kind.ws /\ FrameIn = Tail(in) /\ FrameIn' = in' /\ phase' # "upgrade" /\ phase' \in Phases
  <2>1. kind.ws
      BY <1>1, <1>3, Zenon DEF DownTypes
  <2>2. phase' # "upgrade" /\ phase' \in Phases
      BY <1>3 DEF Phases
  <2> QED
      BY <1>3, <2>1, <2>2, Zenon DEF FrameIn
<1>5. DownTypes'
    BY <1>1, <1>2, <1>3, <1>4, Zenon DEF DownTypes, U
<1>6. DownSeen'
  <2>1. phase' # "failed" /\ phase' # "ended" /\ streamEnd' # "frame"
      BY <1>3
  <2> QED
      BY <1>1, <1>3, <2>1, Zenon DEF DownSeen, Upto
<1>7. DownComes'
  <2>1. Source' = Source /\ FrameIn' = FrameIn
      BY <1>3, <1>4, Zenon DEF Source
  <2>2. Coming(kind, Len(delivered), inCount, replied, replyCount, left, need, serverUp, Source,
               reply, FrameIn)
      BY <1>1, <1>3, Zenon DEF DownComes
  <2> QED
      BY <1>3, <2>1, <2>2, Zenon DEF DownComes
<1> QED
    BY <1>5, <1>6, <1>7 DEF DownInv

\* A read takes the next frame.
LEMMA DownPulls ==
    ASSUME KindsAssumption, BoundsAssumption, DownInv, PullFrame
    PROVE  DownInv'
<1>1. DownTypes /\ DownSeen /\ DownComes
    BY DEF DownInv
<1>2. in \in Seq(U) /\ pending \in Seq(U) /\ reply \in Seq(U) /\ serverUp \in BOOLEAN
    BY DownFacts
<1> DEFINE payload == SubSeq(in, 2, Head(in).n + 1)
           rest    == SubSeq(in, Head(in).n + 2, Len(in))
           s2      == IF Head(in).is = "data" THEN pending \o payload ELSE pending
<1>3. /\ kind.ws /\ phase = "open" /\ streamEnd = "no" /\ in # <<>>
      /\ in' = rest /\ pending' = s2
      /\ streamEnd' = IF Head(in).is = "close" THEN "frame" ELSE "no"
      /\ UNCHANGED <<kind, sent, replied, replyCount, reply, extras, serverUp, left, need,
                     inCount, delivered, phase>>
    BY Zenon DEF PullFrame, serverVars
<1>4. Source = pending /\ FrameIn = in /\ Source' = pending' /\ FrameIn' = in' /\ phase # "upgrade"
  <2>1. phase # "upgrade"
      BY <1>3
  <2> QED
      BY <1>3, <2>1, Zenon DEF Source, FrameIn
<1>5. Coming(kind, Len(delivered), inCount, replied, replyCount, left, need, serverUp, pending,
             reply, in)
    BY <1>1, <1>3, <1>4, Zenon DEF DownComes
<1>6. /\ rest \in Seq(U) /\ s2 \in Seq(U)
      /\ Coming(kind, Len(delivered), inCount, replied, replyCount, left, need, serverUp, s2,
                reply, rest)
      /\ Head(in).is = "close" => rest = <<>> /\ ~serverUp /\ reply = <<>>
    BY <1>2, <1>3, <1>5, ComingFrame
<1> HIDE DEF payload, rest, s2
<1>7. DownTypes'
  <2>1. streamEnd' \in {"no", "frame", "socket"}
      BY <1>3
  <2> QED
      BY <1>1, <1>3, <1>4, <1>6, <2>1, Zenon DEF DownTypes, U
<1>8. DownSeen'
  <2>1. phase # "failed" /\ phase # "ended" /\ (streamEnd' = "frame" => Head(in).is = "close")
      BY <1>3
  <2> QED
      BY <1>1, <1>3, <1>6, <2>1, Zenon DEF DownSeen, Upto
<1>9. DownComes'
    BY <1>3, <1>4, <1>6, Zenon DEF DownComes
<1> QED
    BY <1>7, <1>8, <1>9 DEF DownInv

\* A read of n units of the source.
LEMMA ReadsOn ==
    ASSUME DownTypes, DownSeen, Reads, NEW n \in Nat, n <= Len(Source), Consume(n), kind' = kind
    PROVE  /\ phase = "open" /\ in' \in Seq(U) /\ pending' \in Seq(U) /\ Source \in Seq(U)
           /\ Source' = SubSeq(Source, n + 1, Len(Source))
           /\ kind.ws => in' = in
           /\ ~kind.ws => streamEnd = "no"
           /\ streamEnd = "frame" => in' = <<>>
<1>1. in \in Seq(U) /\ pending \in Seq(U)
    BY Zenon DEF DownTypes
<1>2. phase = "open" /\ (kind.ws \/ streamEnd = "no")
    BY Zenon DEF Reads
<1>3. CASE kind.ws
  <2>1. /\ Source = pending /\ Source' = pending' /\ in' = in
        /\ pending' = SubSeq(pending, n + 1, Len(pending))
      BY <1>3, Zenon DEF Consume, Source
  <2>2. n \in 0 .. Len(pending)
      BY <1>1, <2>1, LenProperties
  <2>3. pending' \in Seq(U)
      BY <1>1, <2>1, <2>2, Cut, Zenon
  <2>4. streamEnd = "frame" => in = <<>>
      BY Zenon DEF DownSeen
  <2> QED
      BY <1>1, <1>2, <1>3, <2>1, <2>3, <2>4, Zenon
<1>4. CASE ~kind.ws
  <2>1. /\ Source = in /\ Source' = in' /\ pending' = pending
        /\ in' = SubSeq(in, n + 1, Len(in))
      BY <1>4, Zenon DEF Consume, Source
  <2>2. n \in 0 .. Len(in)
      BY <1>1, <2>1, LenProperties
  <2>3. in' \in Seq(U)
      BY <1>1, <2>1, <2>2, Cut, Zenon
  <2>4. streamEnd # "frame"
      BY <1>2, <1>4
  <2> QED
      BY <1>1, <1>2, <1>4, <2>1, <2>3, <2>4, Zenon
<1> QED
    BY <1>3, <1>4

\* Without ws no frame matters.
LEMMA FramesMatterNot ==
    ASSUME NEW k, ~k.ws, NEW x, NEW a, NEW y, NEW b, NEW l, NEW size, NEW alive, NEW s, NEW r,
           NEW frames, NEW later, Coming(k, x, a, y, b, l, size, alive, s, r, frames)
    PROVE  Coming(k, x, a, y, b, l, size, alive, s, r, later)
BY Zenon DEF Coming, Brings

\* What is left when a read is done.
LEMMA DownRead ==
    ASSUME DownTypes, DownSeen, Reads, NEW n \in Nat, n <= Len(Source), Consume(n),
           UNCHANGED <<kind, sent, replied, replyCount, reply, extras, serverUp, streamEnd>>,
           phase' \in Phases \ {"upgrade"}, left' \in 0 .. kind.header, need' \in Nat, inCount' \in Nat,
           Len(delivered') \in Nat, delivered' = Upto(Len(delivered')), Len(delivered') <= replied,
           kind.vmess => inCount' <= CountLimit,
           phase' = "failed" => inCount' = CountLimit,
           phase' = "ended" => Len(delivered') = replied /\ ~serverUp,
           phase' = "open" =>
                Coming(kind, Len(delivered'), inCount', replied, replyCount, left', need', serverUp,
                       SubSeq(Source, n + 1, Len(Source)), reply, FrameIn)
    PROVE  DownInv'
<1>1. /\ phase = "open" /\ in' \in Seq(U) /\ pending' \in Seq(U)
      /\ Source' = SubSeq(Source, n + 1, Len(Source))
      /\ kind.ws => in' = in
      /\ ~kind.ws => streamEnd = "no"
      /\ streamEnd = "frame" => in' = <<>>
    BY ReadsOn, Zenon
<1>2. phase' \in Phases /\ phase' # "upgrade" /\ (phase' \in {"upgrade", "open"} => phase' = "open")
    OBVIOUS
<1>3. DownTypes'
    BY <1>1, <1>2, Zenon DEF DownTypes, U
<1>4. DownSeen'
    BY <1>1, Zenon DEF DownSeen, Upto
<1>5. DownComes'
  <2> SUFFICES ASSUME phase' = "open"
               PROVE  Coming(kind, Len(delivered'), inCount', replied, replyCount, left', need',
                             serverUp, Source', reply, FrameIn')
      BY <1>2, Zenon DEF DownComes
  <2>1. FrameIn = in /\ FrameIn' = in'
    <3>1. phase # "upgrade"
        BY <1>1
    <3> QED
        BY <1>2, <3>1, Zenon DEF FrameIn
  <2>2. Coming(kind, Len(delivered'), inCount', replied, replyCount, left', need', serverUp,
               Source', reply, FrameIn)
      BY <1>1, Zenon
  <2>3. CASE kind.ws
      BY <1>1, <2>1, <2>2, <2>3, Zenon
  <2>4. CASE ~kind.ws
      BY <2>2, <2>4, FramesMatterNot
  <2> QED
      BY <2>3, <2>4
<1> QED
    BY <1>3, <1>4, <1>5 DEF DownInv

\* What every read starts from.
LEMMA DownOpen ==
    ASSUME KindsAssumption, BoundsAssumption, DownInv, Reads
    PROVE  /\ phase = "open" /\ phase \in Phases \ {"upgrade"} /\ Len(Source) >= Wanted
           /\ Len(Source) \in Nat
           /\ left \in 0 .. kind.header
           /\ delivered = Upto(Len(delivered)) /\ Len(delivered) <= replied
           /\ kind.vmess => inCount <= CountLimit
           /\ Coming(kind, Len(delivered), inCount, replied, replyCount, left, need, serverUp,
                     Source, reply, FrameIn)
<1>1. DownTypes /\ DownSeen /\ DownComes
    BY DEF DownInv
<1>2. phase = "open" /\ Len(Source) >= Wanted
    BY Zenon DEF Reads
<1>3. Len(Source) \in Nat
    BY DownFacts, LenProperties
<1>4. phase \in Phases \ {"upgrade"}
    BY <1>2 DEF Phases
<1>5. left \in 0 .. kind.header
    BY <1>1, Zenon DEF DownTypes
<1>6. /\ delivered = Upto(Len(delivered)) /\ Len(delivered) <= replied
      /\ kind.vmess => inCount <= CountLimit
    BY <1>1, Zenon DEF DownSeen
<1>7. Coming(kind, Len(delivered), inCount, replied, replyCount, left, need, serverUp,
             Source, reply, FrameIn)
    BY <1>1, <1>2, Zenon DEF DownComes
<1> QED
    BY <1>2, <1>3, <1>4, <1>5, <1>6, <1>7, Zenon

LEMMA DownHeader ==
    ASSUME KindsAssumption, BoundsAssumption, DownInv, ReadHeader
    PROVE  DownInv'
<1>1. DownTypes /\ DownSeen
    BY DEF DownInv
<1>2. /\ kind.header \in Nat /\ Source \in Seq(U) /\ reply \in Seq(U)
      /\ Len(delivered) \in Nat /\ replied \in Nat /\ replyCount \in Nat /\ left \in Nat
      /\ need \in Nat /\ inCount \in Nat
    BY DownFacts
<1>3. /\ Reads /\ left > 0 /\ Consume(1) /\ left' = left - 1
      /\ UNCHANGED <<kind, sent, replied, replyCount, reply, extras, serverUp, streamEnd, need,
                     inCount, delivered, phase>>
    BY Zenon DEF ReadHeader, upVars, serverVars
<1>4. /\ phase = "open" /\ phase \in Phases \ {"upgrade"} /\ Len(Source) >= Wanted
      /\ Len(Source) \in Nat
      /\ left \in 0 .. kind.header
      /\ delivered = Upto(Len(delivered)) /\ Len(delivered) <= replied
      /\ kind.vmess => inCount <= CountLimit
      /\ Coming(kind, Len(delivered), inCount, replied, replyCount, left, need, serverUp,
                Source, reply, FrameIn)
    BY <1>3, DownOpen, Zenon
<1>5. Wanted = 1
    BY <1>2, <1>3 DEF Wanted
<1>6. 1 <= Len(Source) /\ Len(Source) >= 1 /\ 1 \in Nat /\ 1 + 1 = 2 /\ left \in Nat \ {0}
    BY <1>2, <1>3, <1>4, <1>5
<1>7. left - 1 \in 0 .. kind.header
    BY <1>2, <1>3, <1>4
<1>8. Coming(kind, Len(delivered), inCount, replied, replyCount, left - 1, need, serverUp,
             SubSeq(Source, 2, Len(Source)), reply, FrameIn)
    BY <1>2, <1>4, <1>6, ComingHeader
<1>9. phase' # "failed" /\ phase' # "ended"
    BY <1>3, <1>4
<1>10. Coming(kind, Len(delivered'), inCount', replied, replyCount, left', need', serverUp,
              SubSeq(Source, 1 + 1, Len(Source)), reply, FrameIn)
    BY <1>3, <1>6, <1>8, Zenon
<1>11. delivered' = Upto(Len(delivered')) /\ Len(delivered') <= replied /\ Len(delivered') \in Nat
    BY <1>2, <1>3, <1>4, Zenon
<1> QED
    BY <1>1, <1>2, <1>3, <1>4, <1>6, <1>7, <1>9, <1>10, <1>11, DownRead, Zenon

LEMMA DownSize ==
    ASSUME KindsAssumption, BoundsAssumption, DownInv, ReadSize
    PROVE  DownInv'
<1>1. DownTypes /\ DownSeen
    BY DEF DownInv
<1>2. /\ kind.header \in Nat /\ Source \in Seq(U) /\ reply \in Seq(U)
      /\ Len(delivered) \in Nat /\ replied \in Nat /\ replyCount \in Nat /\ left \in Nat
      /\ need \in Nat /\ inCount \in Nat
    BY DownFacts
<1> DEFINE g == Head(Source)
<1>3. /\ Reads /\ left = 0 /\ kind.sealed /\ need = 0 /\ Consume(1)
      /\ need' = IF g.is = "size" THEN g.n ELSE 0
      /\ phase' = IF g.is # "size" THEN "failed"
                  ELSE IF g.n = 0 /\ kind.vmess THEN "ended" ELSE phase
      /\ UNCHANGED <<kind, sent, replied, replyCount, reply, extras, serverUp, streamEnd, left,
                     inCount, delivered>>
    BY Zenon DEF ReadSize, upVars, serverVars
<1>4. /\ phase = "open" /\ phase \in Phases \ {"upgrade"} /\ Len(Source) >= Wanted
      /\ Len(Source) \in Nat
      /\ left \in 0 .. kind.header
      /\ delivered = Upto(Len(delivered)) /\ Len(delivered) <= replied
      /\ kind.vmess => inCount <= CountLimit
      /\ Coming(kind, Len(delivered), inCount, replied, replyCount, left, need, serverUp,
                Source, reply, FrameIn)
    BY <1>3, DownOpen, Zenon
<1>5. Wanted = 1
    BY <1>3 DEF Wanted
<1>6. 1 <= Len(Source) /\ Len(Source) >= 1 /\ 1 \in Nat /\ 1 + 1 = 2
    BY <1>4, <1>5
<1>7. Coming(kind, Len(delivered), inCount, replied, replyCount, 0, 0, serverUp,
             Source, reply, FrameIn)
    BY <1>3, <1>4, Zenon
<1>8. /\ g.is = "size" /\ g.n \in Nat
      /\ g.n = 0 => kind.vmess /\ ~serverUp /\ Len(delivered) = replied
      /\ g.n > 0 => Coming(kind, Len(delivered), inCount, replied, replyCount, 0, g.n, serverUp,
                           SubSeq(Source, 2, Len(Source)), reply, FrameIn)
    BY <1>2, <1>3, <1>6, <1>7, ComingSize
<1> HIDE DEF g
<1>9. need' = g.n /\ need' \in Nat
    BY <1>3, <1>8, Zenon
<1>10. phase' = IF g.n = 0 THEN "ended" ELSE "open"
    BY <1>3, <1>4, <1>8, Zenon
<1>11. phase' \in Phases \ {"upgrade"} /\ phase' # "failed" /\ (phase' = "ended" => g.n = 0)
       /\ (phase' = "open" => g.n # 0)
    BY <1>10 DEF Phases
<1>12. g.n # 0 => g.n > 0
    BY <1>8
<1>13. phase' = "ended" => Len(delivered') = replied /\ ~serverUp
    BY <1>3, <1>8, <1>11, Zenon
<1>14. phase' = "open" =>
            Coming(kind, Len(delivered'), inCount', replied, replyCount, left', need', serverUp,
                   SubSeq(Source, 1 + 1, Len(Source)), reply, FrameIn)
    BY <1>3, <1>6, <1>8, <1>9, <1>11, <1>12, Zenon
<1>15. /\ delivered' = Upto(Len(delivered')) /\ Len(delivered') <= replied /\ Len(delivered') \in Nat
       /\ left' \in 0 .. kind.header /\ inCount' \in Nat /\ (kind.vmess => inCount' <= CountLimit)
    BY <1>2, <1>3, <1>4, Zenon
<1> QED
    BY <1>1, <1>3, <1>6, <1>9, <1>11, <1>13, <1>14, <1>15, DownRead, Zenon

\* The bytes of a run of units, when d went before.
NextRun(d, x, n, k, s) == d = Upto(x) /\ s = Bodies(x, n, k)

RunRead(d, x, n, k, s) ==
    /\ d \o [i \in DOMAIN s |-> s[i].n] = Upto(x + n)
    /\ Len(Upto(x + n)) = x + n
    /\ \A i \in DOMAIN s : s[i].is = "body" /\ s[i].nonce = k

LEMMA BytesRead ==
    \A x, n, k \in Nat : \A d, s : NextRun(d, x, n, k, s) => RunRead(d, x, n, k, s)
<1> TAKE x, n, k \in Nat
<1> TAKE d, s
<1> HAVE NextRun(d, x, n, k, s)
<1> SUFFICES
        /\ d \o [i \in DOMAIN s |-> s[i].n] = Upto(x + n)
        /\ Len(Upto(x + n)) = x + n
        /\ \A i \in DOMAIN s : s[i].is = "body" /\ s[i].nonce = k
    BY Zenon DEF RunRead
<1>0. d = Upto(x) /\ s = Bodies(x, n, k)
    BY Zenon DEF NextRun
<1>1. Len(s) = n /\ s \in Seq(U)
    BY <1>0, UnitTypes, Zenon
<1>2. DOMAIN s = 1 .. n
    BY <1>1
<1>3. \A i \in 1 .. n : s[i].n = x + i /\ s[i].is = "body" /\ s[i].nonce = k
    BY <1>0 DEF Bodies, Unit
<1>4. [i \in DOMAIN s |-> s[i].n] = After(x, n)
    BY <1>2, <1>3, Zenon DEF After
<1>5. Upto(x) \o After(x, n) = Upto(x + n) /\ Len(Upto(x + n)) = x + n
  <2>1. x + n \in Nat
      OBVIOUS
  <2> QED
      BY <2>1, UptoGrows, Zenon
<1> QED
    BY <1>0, <1>2, <1>3, <1>4, <1>5, Zenon

LEMMA DownChunk ==
    ASSUME KindsAssumption, CapAssumption, BoundsAssumption, DownInv, ReadChunk
    PROVE  DownInv'
<1>1. DownTypes /\ DownSeen
    BY DEF DownInv
<1>2. /\ kind.header \in Nat /\ Source \in Seq(U) /\ reply \in Seq(U)
      /\ Len(delivered) \in Nat /\ replied \in Nat /\ replyCount \in Nat /\ left \in Nat
      /\ need \in Nat /\ inCount \in Nat /\ CountLimit \in Nat
    BY DownFacts DEF CapAssumption
<1> DEFINE chunk == SubSeq(Source, 1, need)
           opens == /\ kind.vmess => inCount < CountLimit
                    /\ \A i \in DOMAIN chunk : chunk[i].is = "body" /\ chunk[i].nonce = inCount
<1>3. /\ Reads /\ left = 0 /\ kind.sealed /\ need > 0 /\ Consume(need) /\ need' = 0
      /\ IF opens
         THEN /\ delivered' = delivered \o [i \in DOMAIN chunk |-> chunk[i].n]
              /\ inCount' = inCount + 1
              /\ UNCHANGED phase
         ELSE phase' = "failed" /\ UNCHANGED <<delivered, inCount>>
      /\ UNCHANGED <<kind, sent, replied, replyCount, reply, extras, serverUp, streamEnd, left>>
    BY Zenon DEF ReadChunk, upVars, serverVars
<1>4. /\ phase = "open" /\ phase \in Phases \ {"upgrade"} /\ Len(Source) >= Wanted
      /\ Len(Source) \in Nat
      /\ left \in 0 .. kind.header
      /\ delivered = Upto(Len(delivered)) /\ Len(delivered) <= replied
      /\ kind.vmess => inCount <= CountLimit
      /\ Coming(kind, Len(delivered), inCount, replied, replyCount, left, need, serverUp,
                Source, reply, FrameIn)
    BY <1>3, DownOpen, Zenon
<1>5. Wanted = need
    BY <1>3, Zenon DEF Wanted
<1>6. need <= Len(Source) /\ Len(Source) >= need /\ need \in Nat \ {0}
    BY <1>2, <1>3, <1>4, <1>5
<1>7. Coming(kind, Len(delivered), inCount, replied, replyCount, 0, need, serverUp,
             Source, reply, FrameIn)
    BY <1>3, <1>4, Zenon
<1>8. /\ chunk = Bodies(Len(delivered), need, inCount)
      /\ Len(delivered) + need <= replied
      /\ Coming(kind, Len(delivered) + need, inCount + 1, replied, replyCount, 0, 0, serverUp,
                SubSeq(Source, need + 1, Len(Source)), reply, FrameIn)
    BY <1>2, <1>3, <1>6, <1>7, ComingChunk
<1> HIDE DEF chunk
<1> DEFINE x == Len(delivered)
           z == x + need
<1>9. /\ delivered \o [i \in DOMAIN chunk |-> chunk[i].n] = Upto(z) /\ Len(Upto(z)) = z
      /\ \A i \in DOMAIN chunk : chunk[i].is = "body" /\ chunk[i].nonce = inCount
  <2>1. x \in Nat /\ delivered = Upto(x) /\ chunk = Bodies(x, need, inCount)
      BY <1>2, <1>4, <1>8
  <2> HIDE DEF x
  <2>2. NextRun(delivered, x, need, inCount, chunk)
      BY <2>1, Zenon DEF NextRun
  <2>3. RunRead(delivered, x, need, inCount, chunk)
      BY <1>2, <2>1, <2>2, BytesRead, Zenon
  <2> QED
      BY <2>3, Zenon DEF RunRead
<1>10. z \in Nat /\ z <= replied
    BY <1>2, <1>8
<1> HIDE DEF x, z
<1>11. CASE kind.vmess => inCount < CountLimit
  <2>1. /\ delivered' = Upto(z) /\ Len(delivered') = z /\ inCount' = inCount + 1
        /\ phase' = "open" /\ phase' \in Phases \ {"upgrade"}
      BY <1>3, <1>4, <1>9, <1>11, Zenon
  <2>2. phase' # "failed" /\ phase' # "ended"
      BY <2>1
  <2>3. inCount' \in Nat /\ (kind.vmess => inCount' <= CountLimit)
      BY <1>2, <1>11, <2>1
  <2>4. 0 \in Nat /\ left' \in 0 .. kind.header
      BY <1>3, <1>4, Zenon
  <2>5. Coming(kind, Len(delivered'), inCount', replied, replyCount, left', need', serverUp,
               SubSeq(Source, need + 1, Len(Source)), reply, FrameIn)
      BY <1>3, <1>8, <2>1, Zenon DEF z, x
  <2>6. /\ Len(delivered') \in Nat /\ delivered' = Upto(Len(delivered')) /\ Len(delivered') <= replied
        /\ need' \in Nat
      BY <1>3, <1>10, <2>1, <2>4, Zenon
  <2> QED
      BY <1>1, <1>2, <1>3, <1>6, <2>1, <2>2, <2>3, <2>4, <2>5, <2>6, DownRead, Zenon
<1>12. CASE ~(kind.vmess => inCount < CountLimit)
  <2>1. phase' = "failed" /\ delivered' = delivered /\ inCount' = inCount
      BY <1>3, <1>12, Zenon
  <2>2. inCount = CountLimit
      BY <1>2, <1>4, <1>12
  <2>3. phase' # "open" /\ phase' # "ended" /\ phase' \in Phases \ {"upgrade"}
      BY <2>1 DEF Phases
  <2>4. 0 \in Nat /\ left' \in 0 .. kind.header
      BY <1>3, <1>4, Zenon
  <2>5. /\ Len(delivered') \in Nat /\ delivered' = Upto(Len(delivered')) /\ Len(delivered') <= replied
        /\ need' \in Nat /\ inCount' \in Nat /\ (kind.vmess => inCount' <= CountLimit)
        /\ inCount' = CountLimit
      BY <1>2, <1>3, <1>4, <2>1, <2>2, <2>4, Zenon
  <2> QED
      BY <1>1, <1>2, <1>3, <1>6, <2>3, <2>4, <2>5, DownRead, Zenon
<1> QED
    BY <1>11, <1>12

LEMMA DownAny ==
    ASSUME KindsAssumption, BoundsAssumption, DownInv, ReadAny
    PROVE  DownInv'
<1>1. DownTypes /\ DownSeen
    BY DEF DownInv
<1>2. /\ kind.header \in Nat /\ Source \in Seq(U) /\ reply \in Seq(U)
      /\ Len(delivered) \in Nat /\ replied \in Nat /\ replyCount \in Nat /\ left \in Nat
      /\ need \in Nat /\ inCount \in Nat
    BY DownFacts
<1> DEFINE n == Len(Source)
           x == Len(delivered)
           z == x + n
<1>3. /\ Reads /\ left = 0 /\ ~kind.sealed /\ Consume(n)
      /\ delivered' = delivered \o [i \in DOMAIN Source |-> Source[i].n]
      /\ UNCHANGED <<kind, sent, replied, replyCount, reply, extras, serverUp, streamEnd, left,
                     need, inCount, phase>>
    BY Zenon DEF ReadAny, upVars, serverVars
<1>4. /\ phase = "open" /\ phase \in Phases \ {"upgrade"} /\ n >= Wanted
      /\ n \in Nat
      /\ left \in 0 .. kind.header
      /\ delivered = Upto(x) /\ x <= replied
      /\ kind.vmess => inCount <= CountLimit
      /\ Coming(kind, x, inCount, replied, replyCount, left, need, serverUp,
                Source, reply, FrameIn)
    BY <1>3, DownOpen, Zenon
<1>5. Wanted = 1
    BY <1>3, Zenon DEF Wanted
<1>6. n >= 1 /\ n <= n
    BY <1>4, <1>5
<1>7. Coming(kind, x, inCount, replied, replyCount, 0, need, serverUp, Source, reply, FrameIn)
    BY <1>3, <1>4, Zenon
<1>8. /\ Source = Bodies(x, n, 0) /\ z <= replied
      /\ Coming(kind, z, inCount, replied, replyCount, 0, need, serverUp, <<>>, reply, FrameIn)
    BY <1>2, <1>3, <1>6, <1>7, ComingAny
<1>9. delivered \o [i \in DOMAIN Source |-> Source[i].n] = Upto(z) /\ Len(Upto(z)) = z
  <2>1. x \in Nat /\ n \in Nat /\ 0 \in Nat
      BY <1>2, <1>4
  <2> HIDE DEF x, n
  <2>2. NextRun(delivered, x, n, 0, Source)
      BY <1>4, <1>8, Zenon DEF NextRun
  <2>3. RunRead(delivered, x, n, 0, Source)
      BY <2>1, <2>2, BytesRead, Zenon
  <2> QED
      BY <2>3, Zenon DEF RunRead
<1>10. z \in Nat
    BY <1>2, <1>4
<1>11. SubSeq(Source, n + 1, Len(Source)) = <<>>
    BY <1>2, <1>4
<1> HIDE DEF z, x, n
<1>12. delivered' = Upto(z) /\ Len(delivered') = z
    BY <1>3, <1>9, Zenon
<1>13. phase' # "failed" /\ phase' # "ended" /\ phase' \in Phases \ {"upgrade"}
    BY <1>3, <1>4
<1>14. Coming(kind, Len(delivered'), inCount', replied, replyCount, left', need', serverUp,
              SubSeq(Source, n + 1, Len(Source)), reply, FrameIn)
    BY <1>3, <1>8, <1>11, <1>12, Zenon
<1>15. /\ Len(delivered') \in Nat /\ delivered' = Upto(Len(delivered')) /\ Len(delivered') <= replied
       /\ left' \in 0 .. kind.header /\ need' \in Nat /\ inCount' \in Nat
       /\ kind.vmess => inCount' <= CountLimit
    BY <1>2, <1>3, <1>4, <1>8, <1>10, <1>12, Zenon
<1>16. n <= Len(Source)
    BY <1>6 DEF n
<1> QED
    BY <1>1, <1>3, <1>4, <1>13, <1>14, <1>15, <1>16, DownRead, Zenon

LEMMA DownPastEnd ==
    ASSUME KindsAssumption, BoundsAssumption, DownInv, ReadPastEnd
    PROVE  DownInv'
<1>1. DownTypes /\ DownSeen /\ DownComes
    BY DEF DownInv
<1>2. /\ UNCHANGED <<kind, replied, replyCount, reply, extras, in, downVars>>
      /\ UNCHANGED <<sent, serverUp, streamEnd>>
      /\ phase = "open" /\ streamEnd # "no" /\ ~Reads
      /\ phase' = IF left = 0 /\ ~kind.sealed /\ (streamEnd = "frame" \/ ~kind.ws)
                  THEN "ended" ELSE "failed"
    BY Zenon DEF ReadPastEnd, upVars, serverVars
<1>3. sent' \in 0 .. MaxUp
    BY <1>1, <1>2, Zenon DEF DownTypes
<1>4. phase' \in Phases /\ phase' \notin {"upgrade", "open"}
    BY <1>2 DEF Phases
<1>5. ASSUME phase' = "ended", kind.ws \/ kind.sealed
      PROVE  Len(delivered) = replied /\ ~serverUp
  <2>1. left = 0 /\ ~kind.sealed /\ kind.ws /\ streamEnd = "frame"
      BY <1>2, <1>5
  <2>2. in = <<>> /\ reply = <<>> /\ ~serverUp
      BY <1>1, <2>1, Zenon DEF DownSeen
  <2>3. Source = pending /\ FrameIn = in
    <3>1. phase # "upgrade"
        BY <1>2
    <3> QED
        BY <2>1, <3>1, Zenon DEF Source, FrameIn
  <2>4. pending = <<>>
    <3>1. ~(Len(pending) >= Wanted) /\ Wanted = 1
        BY <1>2, <2>1, <2>3, Zenon DEF Reads, Wanted
    <3>2. pending \in Seq(U)
        BY <1>1, Zenon DEF DownTypes
    <3>3. Len(pending) \in Nat
        BY <3>2, LenProperties
    <3>4. Len(pending) = 0
        BY <3>1, <3>3
    <3> QED
        BY <3>2, <3>4, EmptySeq
  <2>5. Coming(kind, Len(delivered), inCount, replied, replyCount, 0, need, serverUp, <<>>,
               <<>>, <<>>)
    <3>1. Coming(kind, Len(delivered), inCount, replied, replyCount, left, need, serverUp, Source,
                 reply, FrameIn)
        BY <1>1, <1>2, Zenon DEF DownComes
    <3> QED
        BY <2>1, <2>2, <2>3, <2>4, <3>1, Zenon
  <2>6. /\ Len(delivered) \in Nat /\ replied \in Nat /\ replyCount \in Nat /\ inCount \in Nat
      BY DownFacts
  <2>7. Len(delivered) = replied
      BY <2>1, <2>5, <2>6, ComingDone
  <2> QED
      BY <2>2, <2>7
<1> QED
    BY <1>2, <1>3, <1>4, <1>5, DownQuiet, Zenon

LEMMA DownStep ==
    ASSUME KindsAssumption, CapAssumption, BoundsAssumption, DownInv, [Next]_vars
    PROVE  DownInv'
<1>1. DownTypes /\ DownSeen
    BY DEF DownInv
<1>2. /\ phase \in Phases /\ serverUp \in BOOLEAN /\ sent \in 0 .. MaxUp
    BY <1>1, Zenon DEF DownTypes
<1>3. ASSUME NEW n \in 1 .. MaxUp, Write(n) PROVE DownInv'
  <2>1. /\ UNCHANGED <<kind, replied, replyCount, reply, extras, in, downVars>>
        /\ UNCHANGED <<serverUp, streamEnd>>
        /\ sent + n <= MaxUp /\ sent' = sent + n
        /\ phase \in {"open", "ended"} /\ (phase' = phase \/ phase' = "crashed")
      BY <1>3, Zenon DEF Write, WriteSealed, WriteRaw, serverVars
  <2>2. sent' \in 0 .. MaxUp
    <3>1. MaxUp \in Nat
        BY DEF BoundsAssumption
    <3> QED
        BY <1>2, <2>1, <3>1
  <2>3. /\ phase' \in Phases /\ (phase' \in {"upgrade", "open"} => phase' = phase)
        /\ phase' # "failed" /\ (phase' = "ended" => phase = "ended")
      BY <2>1 DEF Phases
  <2> QED
      BY <2>1, <2>2, <2>3, DownQuiet, Zenon
<1>4. CASE FaceCloses \/ Refused
  <2>1. /\ UNCHANGED <<kind, replied, replyCount, reply, extras, in, downVars>>
        /\ UNCHANGED <<sent, serverUp, streamEnd>>
        /\ phase' = "closed" \/ phase' = "refused"
      BY <1>4, Zenon DEF FaceCloses, Refused, upVars, serverVars
  <2>2. /\ phase' \in Phases /\ phase' \notin {"upgrade", "open"} /\ phase' # "failed"
        /\ phase' # "ended"
      BY <2>1 DEF Phases
  <2>3. sent' \in 0 .. MaxUp
      BY <1>2, <2>1, Zenon
  <2> QED
      BY <2>1, <2>2, <2>3, DownQuiet, Zenon
<1>5. CASE ServerReads \/ SocketCloses \/ UNCHANGED vars
  <2>1. /\ UNCHANGED <<kind, replied, replyCount, reply, extras, in, downVars>>
        /\ UNCHANGED <<sent, phase>>
        /\ serverUp' = serverUp \/ serverUp' = FALSE
        /\ streamEnd' = streamEnd \/ (streamEnd = "no" /\ streamEnd' = "socket")
      BY <1>5, Zenon DEF ServerReads, SocketCloses, vars, upVars, serverVars
  <2>2. sent' \in 0 .. MaxUp /\ phase' \in Phases
      BY <1>2, <2>1, Zenon
  <2> QED
      BY <2>1, <2>2, DownQuiet, Zenon
<1>6. CASE Reader
    BY <1>6, DownUpgrade, DownPulls, DownHeader, DownSize, DownChunk, DownAny, DownPastEnd, Zenon
       DEF Reader
<1>7. CASE Server
  <2>1. CASE ServerReads
      BY <1>5, <2>1
  <2>2. CASE ServerEnds
      BY <2>2, DownEnds
  <2>3. CASE \E n \in 1 .. MaxDown : ServerReplies(n)
      BY <2>3, DownReplies
  <2>4. CASE \E k \in DOMAIN reply : ServerSends(k)
      BY <2>4, DownSends
  <2>5. CASE \E n \in 0 .. 1 : ServerPings(n)
      BY <2>5, DownPings
  <2> QED
      BY <1>7, <2>1, <2>2, <2>3, <2>4, <2>5, Zenon DEF Server
<1> QED
    BY <1>3, <1>4, <1>5, <1>6, <1>7, Zenon DEF Next

LEMMA DownAlways ==
    ASSUME KindsAssumption, CapAssumption, BoundsAssumption
    PROVE  Spec => []DownInv
<1>1. Init => DownInv
    BY DownInit
<1>2. DownInv /\ [Next]_vars => DownInv'
    BY DownStep
<1> QED
    BY <1>1, <1>2, PTL DEF Spec

\* Whatever frames the stream is cut into, with pings between, for every kind of
\* node and every bound: the client gets the server's bytes in order, each once,
\* and the reads fail for the stream's end or for a counter that is out: the
\* readers of vmess.js, ws.js and transports.js.
THEOREM DownstreamInOrder ==
    ASSUME KindsAssumption, CapAssumption, BoundsAssumption
    PROVE  Spec => []DownInOrder
<1>1. DownInv => DownInOrder
  <2> SUFFICES ASSUME DownInv PROVE DownInOrder
      OBVIOUS
  <2>1. /\ Len(delivered) \in Nat /\ delivered = Upto(Len(delivered)) /\ Len(delivered) <= replied
        /\ phase = "failed" => streamEnd # "no" \/ inCount = CountLimit
      BY Zenon DEF DownInv, DownSeen
  <2>2. delivered = Bytes(1, Len(delivered))
      BY <2>1, WholeIsBytes, Zenon
  <2> QED
      BY <2>1, <2>2, Zenon DEF DownInOrder
<1> QED
    BY <1>1, DownAlways, PTL

\* An end that the protocol announces is seen when all before it has been passed
\* on: vmess's empty chunk (vmess.js), ws's close frame (ws.js).
THEOREM AnnouncedEndsComplete ==
    ASSUME KindsAssumption, CapAssumption, BoundsAssumption
    PROVE  Spec => []EndsComplete
<1>1. DownInv => EndsComplete
    BY Zenon DEF DownInv, DownSeen, EndsComplete
<1> QED
    BY <1>1, DownAlways, PTL

\* What a step does to what the face has delivered.
LEMMA DeliveredGrows ==
    ASSUME KindsAssumption, BoundsAssumption, DownInv, DownInv', [Next]_vars
    PROVE  /\ replied \in Nat /\ replied' \in Nat /\ replied <= replied'
           /\ Len(delivered) \in Nat /\ Len(delivered') \in Nat
           /\ Len(delivered) <= Len(delivered')
           /\ phase \notin {"upgrade", "open"} =>
                    delivered' = delivered /\ phase' \notin {"upgrade", "open"}
<1>1. /\ replied \in Nat /\ Len(delivered) \in Nat /\ MaxDown \in Nat /\ Source \in Seq(U)
    BY DownFacts
<1>2. replied' \in Nat /\ Len(delivered') \in Nat
  <2>1. replied' \in 0 .. MaxDown /\ Len(delivered') \in Nat
      BY Zenon DEF DownInv, DownTypes, DownSeen
  <2> QED
      BY <1>1, <2>1
<1>3. replied' = replied \/ \E n \in 1 .. MaxDown : replied' = replied + n
    BY Zenon DEF Next, Server, Reader, Write, FaceCloses, Refused, SocketCloses, ServerReads, ServerEnds,
                 ServerReplies, ServerSends, ServerPings, Upgrade, PullFrame, ReadHeader, ReadSize,
                 ReadChunk, ReadAny, ReadPastEnd, vars, upVars, serverVars, downVars
<1>4. replied <= replied'
    BY <1>1, <1>3
<1>5. delivered' = delivered \/ ReadChunk \/ ReadAny
    BY Zenon DEF Next, Server, Reader, Write, FaceCloses, Refused, SocketCloses, ServerReads, ServerEnds,
                 ServerReplies, ServerSends, ServerPings, Upgrade, PullFrame, ReadHeader, ReadSize,
                 ReadPastEnd, vars, upVars, serverVars, downVars
<1>6. phase \notin {"upgrade", "open"} =>
            delivered' = delivered /\ phase' \notin {"upgrade", "open"}
  <2> SUFFICES ASSUME phase \notin {"upgrade", "open"}
               PROVE  delivered' = delivered /\ phase' \notin {"upgrade", "open"}
      OBVIOUS
  <2>1. delivered' = delivered
      BY <1>5 DEF ReadChunk, ReadAny, Reads
  <2>2. ~Reader /\ ~Refused
      BY Zenon DEF Reader, Upgrade, PullFrame, ReadHeader, ReadSize, ReadChunk, ReadAny,
                   ReadPastEnd, Refused, Reads
  <2>3. phase' = phase \/ phase' = "crashed" \/ phase' = "closed"
      BY <2>2, Zenon DEF Next, Server, Write, WriteSealed, WriteRaw, FaceCloses, SocketCloses, ServerReads,
                 ServerEnds, ServerReplies, ServerSends, ServerPings, vars
  <2> QED
      BY <2>1, <2>3
<1>7. Len(delivered) <= Len(delivered')
  <2>1. delivered = Upto(Len(delivered)) /\ delivered' = Upto(Len(delivered'))
      BY Zenon DEF DownInv, DownSeen, Upto
  <2>2. CASE delivered' = delivered
      BY <1>1, <2>2
  <2>3. ASSUME NEW t, t \in Seq(Nat), delivered' = delivered \o t PROVE Len(delivered) <= Len(delivered')
    <3>1. delivered \in Seq(Nat)
        BY <1>1, <2>1, UptoGrows, Zenon
    <3>2. Len(delivered \o t) = Len(delivered) + Len(t) /\ Len(t) \in Nat
        BY <2>3, <3>1, ConcatProperties, LenProperties, Zenon
    <3>3. Len(delivered) <= Len(delivered) + Len(t)
        BY <1>1, <3>2
    <3> QED
        BY <2>3, <3>2, <3>3, Zenon
  <2>4. ASSUME NEW s, s \in Seq(U) PROVE [i \in DOMAIN s |-> s[i].n] \in Seq(Nat)
    <3>1. DOMAIN s = 1 .. Len(s) /\ Len(s) \in Nat /\ \A i \in 1 .. Len(s) : s[i] \in U
        BY <2>4, LenProperties, ElementOfSeq
    <3>2. \A i \in 1 .. Len(s) : s[i].n \in Nat
        BY <3>1 DEF U
    <3> DEFINE e(i) == s[i].n
    <3> HIDE DEF e
    <3>3. \A i \in 1 .. Len(s) : e(i) \in Nat
        BY <3>2 DEF e
    <3>4. [i \in 1 .. Len(s) |-> e(i)] \in Seq(Nat)
        BY <3>1, <3>3
    <3> QED
        BY <3>1, <3>4 DEF e
  <2>5. CASE ReadAny
    <3>1. delivered' = delivered \o [i \in DOMAIN Source |-> Source[i].n]
        BY <2>5, Zenon DEF ReadAny
    <3> QED
        BY <1>1, <2>3, <2>4, <3>1, Zenon
  <2>6. CASE ReadChunk
    <3> DEFINE chunk == SubSeq(Source, 1, need)
    <3>1. delivered' = delivered \/ delivered' = delivered \o [i \in DOMAIN chunk |-> chunk[i].n]
        BY <2>6, Zenon DEF ReadChunk
    <3>2. chunk \in Seq(U)
      <4>1. need \in Nat /\ need <= Len(Source) /\ Len(Source) \in Nat
        <5>1. need \in Nat
            BY DownFacts
        <5>2. Len(Source) >= Wanted /\ Wanted = need
            BY <2>6, Zenon DEF ReadChunk, Reads, Wanted
        <5> QED
            BY <1>1, <5>1, <5>2, LenProperties
      <4>2. need \in 0 .. Len(Source)
          BY <4>1
      <4> QED
          BY <1>1, <4>2, Cut, Zenon
    <3> HIDE DEF chunk
    <3> QED
        BY <2>2, <2>3, <2>4, <3>1, <3>2, Zenon
  <2> QED
      BY <1>5, <2>2, <2>5, <2>6
<1> QED
    BY <1>1, <1>2, <1>4, <1>6, <1>7

\* transports.js:22-24: what the server sends a framed face reaches the client as
\* a stream: cut, sealed and framed on the way, it comes out as it went in, until
\* the reads are over.
THEOREM FramingCarriesDownward ==
    ASSUME KindsAssumption, CapAssumption, BoundsAssumption
    PROVE  Spec => Downward!Spec
<1>1. Init => Downward!Init
    BY DEF Init, Downward!Init
<1>2. DownInv /\ DownInv' /\ [Next]_vars
      => [Downward!Next]_<<replied, delivered, phase \notin {"upgrade", "open"}>>
  <2> SUFFICES ASSUME DownInv, DownInv', [Next]_vars PROVE Downward!Next
      OBVIOUS
  <2>1. /\ replied \in Nat /\ replied' \in Nat /\ replied <= replied'
        /\ Len(delivered) \in Nat /\ Len(delivered') \in Nat
        /\ Len(delivered) <= Len(delivered')
        /\ phase \notin {"upgrade", "open"} =>
                 delivered' = delivered /\ phase' \notin {"upgrade", "open"}
      BY DeliveredGrows
  <2>2. /\ delivered = Upto(Len(delivered)) /\ delivered' = Upto(Len(delivered'))
        /\ Len(delivered') <= replied'
      BY Zenon DEF DownInv, DownSeen, Upto
  <2>3. delivered \in Seq(Nat) /\ delivered' \in Seq(Nat)
      BY <2>1, <2>2, UptoGrows, Zenon
  <2>4. \E k \in 0 .. replied' - Len(delivered) : delivered' = delivered \o After(Len(delivered), k)
      BY <2>1, <2>2, <2>3, StreamStep, Zenon
  <2>5. Downward!Take
      BY <2>4, Zenon DEF Downward!Take, After
  <2>6. Downward!Put
      BY <2>1, Zenon DEF Downward!Put
  <2> QED
      BY <2>1, <2>5, <2>6 DEF Downward!Next, Downward!End
<1> QED
    BY <1>1, <1>2, DownAlways, PTL DEF Spec, Downward!Spec

-----------------------------------------------------------------------------
(* Types.                                                                  *)

\* Every variable keeps its type, for every kind of node and every bound: above
\* all vmess's counter keeps within its 16 bits and no read asks for more of the
\* response header than there is.
THEOREM FramingTyping ==
    ASSUME KindsAssumption, CapAssumption, BoundsAssumption
    PROVE  Spec => []TypeOK
<1>1. CountInv /\ UpInv /\ DownInv => TypeOK
  <2> SUFFICES ASSUME CountInv, UpInv, DownInv PROVE TypeOK
      OBVIOUS
  <2>1. /\ outCount \in Nat /\ used = Nonces(outCount)
        /\ kind.vmess => outCount <= CountLimit
      BY Zenon DEF CountInv
  <2>2. used \in Seq(Nat)
      BY <2>1 DEF Nonces
  <2>3. /\ up \in Seq([is : {"request", "data", "pong", "end"}, bytes : Seq(Nat), nonce : Nat])
        /\ got \in Seq(Nat) /\ serverIn \in Nat
      BY Zenon DEF UpInv, UpTypes, Msgs
  <2>4. Len(delivered) \in Nat /\ delivered = Upto(Len(delivered))
      BY Zenon DEF DownInv, DownSeen
  <2>5. delivered \in Seq(Nat)
      BY <2>4, UptoGrows, Zenon
  <2>6. /\ kind \in Kinds /\ phase \in Phases /\ serverUp \in BOOLEAN
        /\ streamEnd \in {"no", "frame", "socket"}
        /\ sent \in 0 .. MaxUp /\ replied \in 0 .. MaxDown /\ extras \in 0 .. MaxExtras
        /\ replyCount \in Nat /\ left \in 0 .. kind.header /\ need \in Nat /\ inCount \in Nat
      BY Zenon DEF DownInv, DownTypes
  <2>7. /\ reply \in Seq([is : Units, n : Nat, nonce : Nat])
        /\ in \in Seq([is : Units, n : Nat, nonce : Nat])
        /\ pending \in Seq([is : Units, n : Nat, nonce : Nat])
      BY Zenon DEF DownInv, DownTypes, U
  <2>8. left \in Nat /\ left <= kind.header
      BY <2>6 DEF KindsAssumption
  <2>9. {serverIn, replyCount, left, need, inCount} \subseteq Nat
      BY <2>3, <2>6, <2>8, Zenon
  <2>10. {got, used, delivered} \subseteq Seq(Nat)
      BY <2>2, <2>3, <2>5, Zenon
  <2>11. {reply, in, pending} \subseteq Seq([is : Units, n : Nat, nonce : Nat])
      BY <2>7, Zenon
  <2> QED
      BY <2>1, <2>3, <2>6, <2>8, <2>9, <2>10, <2>11, Zenon DEF TypeOK
<1>2. Init => CountInv
    BY CountInit
<1>3. CountInv /\ [Next]_vars => CountInv'
    BY CountStep DEF BoundsAssumption
<1> QED
    BY <1>1, <1>2, <1>3, UpAlways, DownAlways, PTL DEF Spec

=============================================================================
