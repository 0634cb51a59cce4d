----------------------------- MODULE StreamLemmas -----------------------------
(***************************************************************************)
(* Facts about streams, the sequences 1, 2, ... n in which a byte is its   *)
(* position: how they are cut, extended and recognised by their prefixes,  *)
(* for the proofs about SocketBuffer, ConnectThrough, NativeConnector and  *)
(* Framing; and facts about natural numbers and induction over a set, for  *)
(* those about NodeSelection and RuleEngine.                               *)
(***************************************************************************)
EXTENDS Integers, Sequences, SequenceTheorems, WellFoundedInduction, TLAPS

\* The stream of n bytes, and the n bytes that follow the first a.
Upto(n)     == [i \in 1 .. n |-> i]
After(a, n) == [i \in 1 .. n |-> a + i]

\* Cutting a sequence in two loses nothing.
LEMMA CutInTwo ==
    ASSUME NEW s \in Seq(Nat), NEW n \in 0 .. Len(s)
    PROVE  /\ SubSeq(s, 1, n) \in Seq(Nat)
           /\ SubSeq(s, n + 1, Len(s)) \in Seq(Nat)
           /\ SubSeq(s, 1, n) \o SubSeq(s, n + 1, Len(s)) = s
<1>1. Len(s) \in Nat /\ s \in [1 .. Len(s) -> Nat]
    BY LenProperties
<1>2. \A i \in 1 .. n : s[i] \in Nat
    BY <1>1
<1>3. \A i \in n + 1 .. Len(s) : s[i] \in Nat
    BY <1>1
<1>4. SubSeq(s, 1, n) \in Seq(Nat)
    BY <1>1, <1>2, SubSeqProperties
<1>5. SubSeq(s, n + 1, Len(s)) \in Seq(Nat)
    BY <1>1, <1>3, SubSeqProperties
<1>6. 1 \in 1 .. Len(s) + 1 /\ n \in 1 - 1 .. Len(s) /\ Len(s) \in n .. Len(s)
    BY <1>1
<1>7. SubSeq(s, 1, n) \o SubSeq(s, n + 1, Len(s)) = SubSeq(s, 1, Len(s))
    BY <1>6, ConcatAdjacentSubSeq, Zenon
<1> QED
    BY <1>4, <1>5, <1>7, SubSeqFull

\* Concatenation stays among the sequences of numbers, and is associative.
LEMMA ConcatType == \A s, t \in Seq(Nat) : s \o t \in Seq(Nat)
BY ConcatProperties

LEMMA ConcatNat ==
    \A s, t, u \in Seq(Nat) : (s \o t) \o u = s \o (t \o u)
BY SMTT(60)

LEMMA ConcatEmpty == \A s \in Seq(Nat) : s \o <<>> = s /\ <<>> \o s = s
BY ConcatEmptySeq

\* What follows a stream's end extends it.
LEMMA UptoGrows ==
    ASSUME NEW a \in Nat, NEW k \in Nat
    PROVE  /\ Upto(a) \in Seq(Nat) /\ Len(Upto(a)) = a
           /\ After(a, k) \in Seq(Nat) /\ Len(After(a, k)) = k
           /\ Upto(a) \o After(a, k) = Upto(a + k)
<1> DEFINE more == After(a, k)
<1>1. /\ Upto(a) \in Seq(Nat) /\ Len(Upto(a)) = a
      /\ Upto(a + k) \in Seq(Nat) /\ Len(Upto(a + k)) = a + k
    BY DEF Upto
<1>2. more \in Seq(Nat) /\ Len(more) = k
    BY DEF After
<1> HIDE DEF more
<1>3. /\ Upto(a) \o more \in Seq(Nat)
      /\ Len(Upto(a) \o more) = Len(Upto(a)) + Len(more)
      /\ \A i \in 1 .. Len(Upto(a)) + Len(more) :
            (Upto(a) \o more)[i] =
                IF i <= Len(Upto(a)) THEN Upto(a)[i] ELSE more[i - Len(Upto(a))]
    BY <1>1, <1>2, ConcatProperties, Zenon
<1>4. \A i \in 1 .. a + k : (Upto(a) \o more)[i] = Upto(a + k)[i]
    BY <1>1, <1>2, <1>3 DEF Upto, After, more
<1>5. Len(Upto(a) \o more) = a + k
    BY <1>1, <1>2, <1>3
<1>6. Upto(a) \o more = Upto(a + k)
    BY <1>1, <1>3, <1>4, <1>5, SeqEqual
<1> QED
    BY <1>1, <1>2, <1>6 DEF more

\* Whatever comes first in a stream is a stream.
LEMMA PrefixOfUpto ==
    ASSUME NEW n \in Nat, NEW s \in Seq(Nat), NEW t \in Seq(Nat), s \o t = Upto(n)
    PROVE  Len(s) \in 0 .. n /\ s = Upto(Len(s))
<1>1. /\ Len(s \o t) = Len(s) + Len(t)
      /\ \A i \in 1 .. Len(s) + Len(t) :
            (s \o t)[i] = IF i <= Len(s) THEN s[i] ELSE t[i - Len(s)]
    BY ConcatProperties, Zenon
<1>2. Len(s) \in Nat /\ Len(t) \in Nat
    BY LenProperties
<1>3. Len(Upto(n)) = n
    BY DEF Upto
<1>4. Len(s) + Len(t) = n
    BY <1>1, <1>3, Zenon
<1>5. Len(s) \in 0 .. n
    BY <1>2, <1>4
<1>6. \A i \in 1 .. Len(s) : i \in 1 .. Len(s) + Len(t) /\ i <= Len(s)
    BY <1>2
<1>7. \A i \in 1 .. Len(s) : s[i] = (s \o t)[i]
    BY <1>1, <1>6, Zenon
<1>8. \A i \in 1 .. Len(s) : Upto(n)[i] = i
    BY <1>2, <1>5 DEF Upto
<1>9. \A i \in 1 .. Len(s) : s[i] = Upto(Len(s))[i]
    BY <1>7, <1>8, Zenon DEF Upto
<1>10. Upto(Len(s)) \in Seq(Nat) /\ Len(Upto(Len(s))) = Len(s)
    BY <1>2 DEF Upto
<1> QED
    BY <1>5, <1>9, <1>10, SeqEqual

\* What follows a stream's end, and what follows that.
LEMMA AfterGrows ==
    ASSUME NEW a \in Nat, NEW n \in Nat, NEW m \in Nat
    PROVE  After(a, n) \o After(a + n, m) = After(a, n + m)
<1> DEFINE s    == After(a, n)
           t    == After(a + n, m)
           both == s \o t
<1>1. /\ s \in Seq(Nat) /\ Len(s) = n /\ t \in Seq(Nat) /\ Len(t) = m
      /\ After(a, n + m) \in Seq(Nat) /\ Len(After(a, n + m)) = n + m
  <2>1. a + n \in Nat /\ n + m \in Nat
      OBVIOUS
  <2> QED
      BY <2>1, UptoGrows, Zenon
<1>2. /\ \A i \in 1 .. n : s[i] = a + i
      /\ \A i \in 1 .. m : t[i] = a + n + i
      /\ \A i \in 1 .. n + m : After(a, n + m)[i] = a + i
    BY DEF After
<1> HIDE DEF s, t
<1>3. /\ both \in Seq(Nat) /\ Len(both) = Len(s) + Len(t)
      /\ \A i \in 1 .. Len(s) + Len(t) :
            both[i] = IF i <= Len(s) THEN s[i] ELSE t[i - Len(s)]
    BY <1>1, ConcatProperties, Zenon
<1> HIDE DEF both
<1>4. \A i \in 1 .. n + m : both[i] = After(a, n + m)[i]
  <2> TAKE i \in 1 .. n + m
  <2>1. both[i] = IF i <= n THEN s[i] ELSE t[i - n]
      BY <1>1, <1>3, Zenon
  <2>2. CASE i <= n
    <3>1. i \in 1 .. n
        BY <2>2
    <3> QED
        BY <1>2, <2>1, <2>2, <3>1, Zenon
  <2>3. CASE ~(i <= n)
    <3>1. i - n \in 1 .. m /\ a + n + (i - n) = a + i
        BY <2>3
    <3> QED
        BY <1>2, <2>1, <2>3, <3>1, Zenon
  <2> QED
      BY <2>2, <2>3
<1>5. both = After(a, n + m)
    BY <1>1, <1>3, <1>4, SeqEqual
<1> QED
    BY <1>5 DEF both, s, t

\* Whatever comes last in a stream follows what comes before it.
LEMMA SuffixOfUpto ==
    ASSUME NEW n \in Nat, NEW s \in Seq(Nat), NEW t \in Seq(Nat), s \o t = Upto(n)
    PROVE  /\ Len(s) \in Nat /\ Len(t) \in Nat /\ Len(s) + Len(t) = n
           /\ t = After(Len(s), Len(t))
<1>1. /\ Len(s \o t) = Len(s) + Len(t)
      /\ \A i \in 1 .. Len(s) + Len(t) :
            (s \o t)[i] = IF i <= Len(s) THEN s[i] ELSE t[i - Len(s)]
    BY ConcatProperties, Zenon
<1>2. Len(s) \in Nat /\ Len(t) \in Nat
    BY LenProperties
<1>3. Len(Upto(n)) = n
    BY DEF Upto
<1>4. Len(s) + Len(t) = n
    BY <1>1, <1>3, Zenon
<1>5. \A i \in 1 .. Len(t) : t[i] = After(Len(s), Len(t))[i]
  <2> TAKE i \in 1 .. Len(t)
  <2> DEFINE j == Len(s) + i
  <2>1. j \in 1 .. Len(s) + Len(t) /\ ~(j <= Len(s)) /\ j - Len(s) = i
      BY <1>2
  <2>2. (s \o t)[j] = t[i]
      BY <1>1, <2>1
  <2>3. Upto(n)[j] = j
      BY <1>4, <2>1 DEF Upto
  <2> QED
      BY <2>2, <2>3 DEF After
<1>6. After(Len(s), Len(t)) \in Seq(Nat) /\ Len(After(Len(s), Len(t))) = Len(t)
    BY <1>2, UptoGrows
<1> QED
    BY <1>2, <1>4, <1>5, <1>6, SeqEqual

\* A stream without its first bytes.
LEMMA RestOfUpto ==
    ASSUME NEW a \in Nat, NEW n \in Nat
    PROVE  SubSeq(Upto(a + n), a + 1, a + n) = After(a, n)
<1>1. Upto(a + n) = [i \in 1 .. a + n |-> i]
    BY DEF Upto
<1>2. SubSeq(Upto(a + n), a + 1, a + n) = [i \in 1 .. n |-> Upto(a + n)[a + i]]
    BY SMTT(60)
<1>3. \A i \in 1 .. n : Upto(a + n)[a + i] = a + i
    BY <1>1
<1> QED
    BY <1>2, <1>3, Zenon DEF After

\* From one stream to a longer one some bytes were taken, and those only.
LEMMA UptoTakes ==
    ASSUME NEW a \in Nat, NEW b \in Nat, NEW n \in Nat, a <= b, b <= n
    PROVE  \E k \in 0 .. n - a : Upto(b) = Upto(a) \o After(a, k)
<1>1. b - a \in Nat /\ b - a \in 0 .. n - a /\ a + (b - a) = b
    OBVIOUS
<1>2. Upto(b) = Upto(a) \o After(a, b - a)
    BY <1>1, UptoGrows
<1> QED
    BY <1>1, <1>2


\* What a step does to the bytes that came out, when before it and after it they
\* are the beginning of one stream.
LEMMA StreamStep ==
    ASSUME NEW s \in Seq(Nat), NEW t \in Seq(Nat), NEW n \in Nat,
           s = Upto(Len(s)), t = Upto(Len(t)), Len(s) <= Len(t), Len(t) <= n
    PROVE  \E k \in 0 .. n - Len(s) : t = s \o After(Len(s), k)
<1>1. Len(s) \in Nat /\ Len(t) \in Nat
    BY LenProperties
<1>2. \E k \in 0 .. n - Len(s) : Upto(Len(t)) = Upto(Len(s)) \o After(Len(s), k)
    BY <1>1, UptoTakes
<1> QED
    BY <1>2, Zenon

-----------------------------------------------------------------------------
(* Numbers.                                                                *)

Less == {pair \in Nat \X Nat : pair[1] < pair[2]}

\* Every set of numbers that is not empty has a least one.
LEMMA LeastNat ==
    ASSUME NEW set \in SUBSET Nat, set # {}
    PROVE  \E m \in set : \A k \in set : m <= k
<1>1. IsWellFoundedOn(Less, Nat)
    BY NatLessThanWellFounded, Zenon DEF OpToRel, Less
<1>2. PICK m \in set : \A k \in set : ~(<<k, m>> \in Less)
    BY <1>1, WFMin, Zenon
<1>3. \A k \in set : m <= k
  <2> SUFFICES ASSUME NEW k \in set PROVE m <= k
      OBVIOUS
  <2>1. <<k, m>> \notin Less
      BY <1>2
  <2>2. k \in Nat /\ m \in Nat
      OBVIOUS
  <2>3. ~(k < m)
      BY <2>1, <2>2 DEF Less
  <2> QED
      BY <2>2, <2>3
<1> QED
    BY <1>3

\* A set of numbers with 0 and the successor of each of its members is Nat.
LEMMA SetInduction ==
    ASSUME NEW set, 0 \in set, \A n \in Nat : n \in set => n + 1 \in set
    PROVE  \A n \in Nat : n \in set
<1> SUFFICES ASSUME NEW bad \in Nat, bad \notin set PROVE FALSE
    OBVIOUS
<1>1. PICK m \in Nat \ set : \A k \in Nat \ set : m <= k
    BY LeastNat
<1>2. m # 0 /\ m - 1 \in Nat /\ (m - 1) + 1 = m
    BY <1>1
<1>3. m - 1 \in set
    BY <1>1, <1>2
<1> QED
    BY <1>1, <1>2, <1>3

=============================================================================
