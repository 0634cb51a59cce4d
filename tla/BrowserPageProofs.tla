-------------------------- MODULE BrowserPageProofs --------------------------
(***************************************************************************)
(* Proofs about BrowserPage, for any names, subscriptions, delays, number  *)
(* of polls at once and CONCURRENCY.                                       *)
(*                                                                         *)
(* The tests of the page are counted: what is asked for and not answered,  *)
(* and what is queued, are together what testAllNodes has still to come,   *)
(* and no name is in them twice, since the server sends none twice.        *)
(***************************************************************************)
EXTENDS BrowserPage, StreamLemmas, FiniteSetTheorems

\* What is under way, and that no name is twice.
Way(under, way) == under \cup {answer.name : answer \in way}

Apart(under, way) ==
    /\ \A answer \in way : answer.name \notin under
    /\ \A answer, other \in way : answer.name = other.name => answer = other

\* The lists the page has and those it is sent have no name twice.
ListsInv ==
    /\ IsInjective(NamesOf(list))
    /\ \A i \in Slots : "list" \in DOMAIN polls[i] => IsInjective(NamesOf(polls[i].list))

PoolInv ==
    /\ Apart(tests, answers)
    /\ IsInjective(queue) /\ ToSet(queue) \cap UnderWay = {}
    /\ testing = None /\ testingAll = None => UnderWay = {}
    /\ testing # None => testingAll = None /\ UnderWay = {testing}
    /\ testingAll = None => queue = <<>>
    /\ testingAll # None =>
          /\ IsFiniteSet(UnderWay)
          /\ Cardinality(UnderWay) + Len(queue) = testingAll.total - testingAll.done
          /\ Cardinality(UnderWay) <= Concurrency
          /\ queue # <<>> => Cardinality(UnderWay) = Concurrency

PageInv == TypeOK /\ ListsInv /\ PoolInv

-----------------------------------------------------------------------------
(* Sequences of names.                                                     *)

LEMMA NamesTyped ==
    ASSUME NEW measured \in Seq(Measured)
    PROVE  /\ NamesOf(measured) \in Seq(Names) /\ Len(NamesOf(measured)) = Len(measured)
           /\ DOMAIN measured = 1 .. Len(measured) /\ Len(measured) \in Nat
           /\ \A i \in 1 .. Len(measured) :
                 /\ measured[i] \in Measured /\ measured[i].name \in Names
                 /\ NamesOf(measured)[i] = measured[i].name
<1>1. DOMAIN measured = 1 .. Len(measured) /\ Len(measured) \in Nat
    BY LenProperties
<1>2. \A i \in 1 .. Len(measured) : measured[i] \in Measured
    BY <1>1, ElementOfSeq
<1>3. \A i \in 1 .. Len(measured) : measured[i].name \in Names
    BY <1>2 DEF Measured
<1>4. NamesOf(measured) = [i \in 1 .. Len(measured) |-> measured[i].name]
    BY <1>1, Zenon DEF NamesOf
<1>5. NamesOf(measured) \in Seq(Names) /\ Len(NamesOf(measured)) = Len(measured)
    BY <1>1, <1>3, <1>4
<1> QED
    BY <1>1, <1>2, <1>3, <1>4, <1>5

\* The first n names of a sequence without repetition are n names.
LEMMA FirstNames ==
    ASSUME NEW s \in Seq(Names), IsInjective(s), NEW n \in 0 .. Len(s)
    PROVE  /\ SubSeq(s, 1, n) \in Seq(Names)
           /\ ToSet(SubSeq(s, 1, n)) = {s[i] : i \in 1 .. n}
           /\ IsFiniteSet({s[i] : i \in 1 .. n})
           /\ Cardinality({s[i] : i \in 1 .. n}) = n
           /\ SubSeq(s, n + 1, Len(s)) \in Seq(Names)
           /\ Len(SubSeq(s, n + 1, Len(s))) = Len(s) - n
           /\ IsInjective(SubSeq(s, n + 1, Len(s)))
           /\ ToSet(SubSeq(s, n + 1, Len(s))) = {s[i] : i \in (n + 1) .. Len(s)}
           /\ {s[i] : i \in 1 .. n} \cap {s[i] : i \in (n + 1) .. Len(s)} = {}
<1>1. /\ DOMAIN s = 1 .. Len(s) /\ Len(s) \in Nat /\ n \in Nat /\ n <= Len(s)
      /\ \A i \in 1 .. Len(s) : s[i] \in Names
      /\ \A i, j \in 1 .. Len(s) : s[i] = s[j] => i = j
    BY LenProperties, ElementOfSeq DEF IsInjective
<1>2. /\ SubSeq(s, 1, n) \in Seq(Names) /\ Len(SubSeq(s, 1, n)) = n
      /\ \A i \in 1 .. n : SubSeq(s, 1, n)[i] = s[i]
  <2>1. 1 \in 1 .. (Len(s) + 1) /\ n \in (1 - 1) .. Len(s) /\ \A i \in 1 .. n : s[i] \in Names
      BY <1>1
  <2> QED
      BY <1>1, <2>1, SubSeqProperties
<1>3. ToSet(SubSeq(s, 1, n)) = {s[i] : i \in 1 .. n}
  <2>1. DOMAIN SubSeq(s, 1, n) = 1 .. n
      BY <1>2, LenProperties
  <2> QED
      BY <1>2, <2>1, Zenon DEF ToSet
<1>4. IsFiniteSet({s[i] : i \in 1 .. n}) /\ Cardinality({s[i] : i \in 1 .. n}) = n
  <2> DEFINE T == {s[i] : i \in 1 .. n}
             f == [i \in 1 .. n |-> s[i]]
  <2>1. f \in [1 .. n -> T] /\ IsInjective(f) /\ \A t \in T : \E i \in 1 .. n : f[i] = t
    <3>1. \A i \in 1 .. n : i \in 1 .. Len(s)
        BY <1>1
    <3> QED
        BY <1>1, <3>1, Zenon DEF IsInjective
  <2>2. f \in Bijection(1 .. n, T)
      BY <2>1, Zenon DEF Bijection, Injection, Surjection
  <2>3. ExistsBijection(1 .. n, T)
      BY <2>2, Zenon DEF ExistsBijection
  <2>4. IsFiniteSet(1 .. n) /\ Cardinality(1 .. n) = n
      BY <1>1, FS_Interval
  <2> HIDE DEF T
  <2>5. IsFiniteSet(T) /\ Cardinality(T) = n
      BY <2>3, <2>4, FS_Bijection
  <2> QED
      BY <2>5 DEF T
<1> DEFINE r == SubSeq(s, n + 1, Len(s))
<1>5. /\ r \in Seq(Names) /\ Len(r) = Len(s) - n /\ DOMAIN r = 1 .. (Len(s) - n)
      /\ \A i \in 1 .. (Len(s) - n) : r[i] = s[n + i]
  <2>1. /\ n + 1 \in 1 .. (Len(s) + 1) /\ Len(s) \in (n + 1 - 1) .. Len(s)
        /\ \A i \in (n + 1) .. Len(s) : s[i] \in Names
      BY <1>1
  <2>2. /\ r \in Seq(Names)
        /\ Len(r) = IF n + 1 <= Len(s) THEN Len(s) - (n + 1) + 1 ELSE 0
        /\ \A i \in 1 .. (Len(s) - (n + 1) + 1) : r[i] = s[n + 1 + i - 1]
      BY <1>1, <2>1, SubSeqProperties
  <2>3. Len(s) - (n + 1) + 1 = Len(s) - n /\ \A i \in 1 .. (Len(s) - n) : n + 1 + i - 1 = n + i
      BY <1>1
  <2> HIDE DEF r
  <2>4. Len(r) = Len(s) - n
    <3>1. n \in Nat /\ Len(s) \in Nat /\ n <= Len(s)
        BY <1>1
    <3>2. Len(r) = IF n + 1 <= Len(s) THEN Len(s) - (n + 1) + 1 ELSE 0
        BY <2>2
    <3> QED
        BY <3>1, <3>2
  <2>5. DOMAIN r = 1 .. Len(r)
      BY <2>2, LenProperties
  <2> QED
      BY <2>2, <2>3, <2>4, <2>5, Zenon
<1> HIDE DEF r
<1>6. IsInjective(r)
  <2> SUFFICES ASSUME NEW i \in 1 .. (Len(s) - n), NEW j \in 1 .. (Len(s) - n), r[i] = r[j]
               PROVE  i = j
      BY <1>5, Zenon DEF IsInjective
  <2>1. n + i \in 1 .. Len(s) /\ n + j \in 1 .. Len(s) /\ s[n + i] = s[n + j]
      BY <1>1, <1>5
  <2>2. n + i = n + j
      BY <1>1, <2>1, Zenon
  <2>3. i \in Nat /\ j \in Nat
      BY <1>1
  <2> QED
      BY <1>1, <2>2, <2>3
<1>7. ToSet(r) = {s[i] : i \in (n + 1) .. Len(s)}
  <2>1. ToSet(r) = {r[i] : i \in 1 .. (Len(s) - n)}
      BY <1>5, Zenon DEF ToSet
  <2>2. \A i \in 1 .. (Len(s) - n) : n + i \in (n + 1) .. Len(s)
      BY <1>1
  <2>3. \A i \in (n + 1) .. Len(s) : i - n \in 1 .. (Len(s) - n) /\ n + (i - n) = i
      BY <1>1
  <2>4. \A i \in (n + 1) .. Len(s) : r[i - n] = s[i]
      BY <1>5, <2>3, Zenon
  <2>5. ASSUME NEW i \in 1 .. (Len(s) - n) PROVE r[i] \in {s[j] : j \in (n + 1) .. Len(s)}
    <3>1. r[i] = s[n + i] /\ n + i \in (n + 1) .. Len(s)
        BY <1>5, <2>2, Zenon
    <3> QED
        BY <3>1, Zenon
  <2>6. ASSUME NEW i \in (n + 1) .. Len(s) PROVE s[i] \in {r[j] : j \in 1 .. (Len(s) - n)}
    <3> DEFINE k == i - n
    <3>1. k \in 1 .. (Len(s) - n) /\ r[k] = s[i]
        BY <2>3, <2>4, Zenon
    <3> HIDE DEF k
    <3> QED
        BY <3>1, Zenon
  <2> QED
      BY <2>1, <2>5, <2>6, Zenon
<1>8. {s[i] : i \in 1 .. n} \cap {s[i] : i \in (n + 1) .. Len(s)} = {}
  <2> SUFFICES ASSUME NEW i \in 1 .. n, NEW j \in (n + 1) .. Len(s), s[i] = s[j] PROVE FALSE
      BY Zenon
  <2>1. i \in 1 .. Len(s) /\ j \in 1 .. Len(s) /\ i # j
      BY <1>1
  <2> QED
      BY <1>1, <2>1, Zenon
<1> QED
    BY <1>2, <1>3, <1>4, <1>5, <1>6, <1>7, <1>8 DEF r

\* The head of a sequence without repetition is not in its tail.
LEMMA HeadLeaves ==
    ASSUME NEW s \in Seq(Names), s # <<>>, IsInjective(s)
    PROVE  /\ Head(s) \in Names /\ Tail(s) \in Seq(Names) /\ Len(Tail(s)) = Len(s) - 1
           /\ Len(s) \in Nat /\ Len(s) > 0
           /\ IsInjective(Tail(s)) /\ Head(s) \in ToSet(s) /\ Head(s) \notin ToSet(Tail(s))
           /\ ToSet(Tail(s)) \subseteq ToSet(s)
<1>1. /\ DOMAIN s = 1 .. Len(s) /\ Len(s) \in Nat /\ Len(s) > 0
      /\ \A i \in 1 .. Len(s) : s[i] \in Names
      /\ \A i, j \in 1 .. Len(s) : s[i] = s[j] => i = j
    BY LenProperties, ElementOfSeq, EmptySeq DEF IsInjective
<1> DEFINE t == Tail(s)
<1>2. /\ Head(s) = s[1] /\ t \in Seq(Names) /\ Len(t) = Len(s) - 1
      /\ \A i \in 1 .. Len(t) : t[i] = s[i + 1]
    BY HeadTailProperties
<1>3. DOMAIN t = 1 .. Len(t) /\ Len(t) \in Nat
    BY <1>2, LenProperties
<1> HIDE DEF t
<1>4. \A i \in 1 .. Len(t) : i \in Nat /\ i + 1 \in 1 .. Len(s) /\ i + 1 # 1
    BY <1>1, <1>2, <1>3
<1>5. 1 \in 1 .. Len(s)
    BY <1>1
<1>6. IsInjective(t)
  <2> SUFFICES ASSUME NEW i \in 1 .. Len(t), NEW j \in 1 .. Len(t), t[i] = t[j] PROVE i = j
      BY <1>3, Zenon DEF IsInjective
  <2>1. s[i + 1] = s[j + 1] /\ i + 1 \in 1 .. Len(s) /\ j + 1 \in 1 .. Len(s)
      BY <1>2, <1>4, Zenon
  <2>2. i + 1 = j + 1
      BY <1>1, <2>1, Zenon
  <2>3. i \in Nat /\ j \in Nat
      BY <1>4, Zenon
  <2> QED
      BY <2>2, <2>3
<1>7. Head(s) \in ToSet(s) /\ Head(s) \in Names
    BY <1>1, <1>2, <1>5, Zenon DEF ToSet
<1>8. Head(s) \notin ToSet(t)
  <2> SUFFICES ASSUME NEW i \in 1 .. Len(t), t[i] = s[1] PROVE FALSE
      BY <1>2, <1>3, Zenon DEF ToSet
  <2> QED
      BY <1>1, <1>2, <1>4, <1>5, Zenon
<1>9. ToSet(t) \subseteq ToSet(s)
  <2>1. ASSUME NEW i \in 1 .. Len(t) PROVE t[i] \in ToSet(s)
    <3>1. t[i] = s[i + 1] /\ i + 1 \in 1 .. Len(s)
        BY <1>2, <1>4, Zenon
    <3> QED
        BY <1>1, <3>1, Zenon DEF ToSet
  <2> QED
      BY <1>3, <2>1, Zenon DEF ToSet
<1> QED
    BY <1>1, <1>2, <1>6, <1>7, <1>8, <1>9 DEF t

-----------------------------------------------------------------------------
(* What the server is asked for.                                           *)

\* The types of what a test changes.
PoolTypes ==
    /\ latencies \in [Names -> Delays \cup {None}]
    /\ tests \in SUBSET Names /\ answers \in SUBSET Measured
    /\ testing \in Names \cup {None}
    /\ testingAll \in {None} \cup [done : Nat, total : Nat]
    /\ testingAll # None => testingAll.done < testingAll.total
    /\ queue \in Seq(Names)

\* What is asked for is under way, once.
LEMMA AskingAdds ==
    ASSUME TypeOK, NEW names \in Seq(Names), NEW under \in SUBSET Names,
           NEW way \in SUBSET Measured, Apart(under, way),
           ToSet(names) \cap Way(under, way) = {}, Asks(names, under, way)
    PROVE  /\ latencies' \in [Names -> Delays \cup {None}]
           /\ tests' \in SUBSET Names /\ answers' \in SUBSET Measured
           /\ Apart(tests', answers')
           /\ UnderWay' = Way(under, way) \cup ToSet(names)
<1> DEFINE known == ToSet(names) \cap ToSet(nodes)
           lost  == ToSet(names) \ known
           nulls == [name : lost, delay : {None}]
<1>1. ToSet(names) \subseteq Names
  <2>1. \A i \in DOMAIN names : names[i] \in Names
      BY LenProperties, ElementOfSeq
  <2> QED
      BY <2>1, Zenon DEF ToSet
<1>2. /\ tests' = under \cup known /\ answers' = way \cup nulls
      /\ latencies' = [n \in Names |-> IF n \in lost THEN None ELSE latencies[n]]
    BY Zenon DEF Asks
<1>3. /\ known \subseteq ToSet(names) /\ lost \subseteq ToSet(names)
      /\ known \cap lost = {} /\ known \cup lost = ToSet(names)
    BY Zenon
<1> HIDE DEF known, lost
<1>4. \A null \in nulls : null.name \in lost /\ null.delay = None
    OBVIOUS
<1>5. \A null, other \in nulls : null.name = other.name => null = other
    OBVIOUS
<1>6. \A n \in lost : \E null \in nulls : null.name = n
  <2> SUFFICES ASSUME NEW n \in lost PROVE \E null \in nulls : null.name = n
      OBVIOUS
  <2>1. [name |-> n, delay |-> None] \in nulls /\ [name |-> n, delay |-> None].name = n
      OBVIOUS
  <2> QED
      BY <2>1, Zenon
<1>7. nulls \subseteq Measured
    BY <1>1, <1>3 DEF Measured
<1> HIDE DEF nulls
<1>8. latencies' \in [Names -> Delays \cup {None}]
    BY <1>2 DEF TypeOK
<1>9. \A answer \in way : answer.name \in Way(under, way)
    BY Zenon DEF Way
<1>10. under \subseteq Way(under, way)
    BY Zenon DEF Way
<1>11. Apart(tests', answers')
  <2>1. ASSUME NEW answer \in answers' PROVE answer.name \notin tests'
    <3>1. CASE answer \in way
        BY <1>2, <1>3, <1>9, <3>1, Zenon DEF Apart
    <3>2. CASE answer \in nulls
        BY <1>2, <1>3, <1>4, <1>10, <3>2, Zenon
    <3> QED
        BY <1>2, <2>1, <3>1, <3>2, Zenon
  <2>2. ASSUME NEW answer \in answers', NEW other \in answers', answer.name = other.name
        PROVE  answer = other
    <3>1. CASE answer \in way /\ other \in way
        BY <2>2, <3>1, Zenon DEF Apart
    <3>2. CASE answer \in nulls /\ other \in nulls
        BY <1>5, <2>2, <3>2, Zenon
    <3>3. CASE answer \in way /\ other \in nulls
        BY <1>3, <1>4, <1>9, <2>2, <3>3, Zenon
    <3>4. CASE answer \in nulls /\ other \in way
        BY <1>3, <1>4, <1>9, <2>2, <3>4, Zenon
    <3> QED
        BY <1>2, <3>1, <3>2, <3>3, <3>4, Zenon
  <2> QED
      BY <2>1, <2>2, Zenon DEF Apart
<1>12. UnderWay' = Way(under, way) \cup ToSet(names)
  <2>1. UnderWay' = tests' \cup {answer.name : answer \in answers'}
      BY Zenon DEF UnderWay
  <2>2. {answer.name : answer \in answers'} = {answer.name : answer \in way} \cup lost
      BY <1>2, <1>4, <1>6, Zenon
  <2> QED
      BY <1>2, <1>3, <2>1, <2>2 DEF Way
<1> QED
    BY <1>1, <1>2, <1>3, <1>7, <1>8, <1>11, <1>12

\* Nothing of a test changes.
LEMMA PoolUnmoved ==
    ASSUME PoolInv, UNCHANGED <<tests, answers, testing, testingAll, queue>>
    PROVE  PoolInv'
<1>1. UnderWay' = UnderWay
    BY Zenon DEF UnderWay
<1> QED
    BY <1>1 DEF PoolInv, Apart

-----------------------------------------------------------------------------
(* The count.                                                              *)

LEMMA Kept ==
    ASSUME TypeOK, NEW n \in Names, NEW d \in Delays \cup {None}
    PROVE  [latencies EXCEPT ![n] = d] \in [Names -> Delays \cup {None}]
BY DEF TypeOK

\* A test that ends at the server is still under way.
LEMMA EndingKeeps ==
    ASSUME PageInv, NEW name \in Names, NEW delay \in Delays \cup {None}, Ends(name, delay)
    PROVE  PoolTypes' /\ PoolInv'
<1> DEFINE answer == [name |-> name, delay |-> delay]
<1>1. /\ name \in tests /\ tests' = tests \ {name} /\ answers' = answers \cup {answer}
      /\ UNCHANGED <<testing, testingAll, queue>>
    BY Zenon DEF Ends, pageVars
<1>2. answer \in Measured /\ answer.name = name
    BY DEF Measured
<1> HIDE DEF answer
<1>3. UnderWay' = UnderWay
  <2>1. {other.name : other \in answers'} = {other.name : other \in answers} \cup {name}
      BY <1>1, <1>2, Zenon
  <2>2. UnderWay' = tests' \cup {other.name : other \in answers'}
      BY Zenon DEF UnderWay
  <2> QED
      BY <1>1, <2>1, <2>2 DEF UnderWay
<1>4. Apart(tests', answers')
  <2>1. Apart(tests, answers)
      BY Zenon DEF PageInv, PoolInv
  <2>2. ASSUME NEW other \in answers' PROVE other.name \notin tests'
      BY <1>1, <1>2, <2>1, <2>2, Zenon DEF Apart
  <2>3. ASSUME NEW one \in answers', NEW other \in answers', one.name = other.name
        PROVE  one = other
      BY <1>1, <1>2, <2>1, <2>3, Zenon DEF Apart
  <2> QED
      BY <2>2, <2>3, Zenon DEF Apart
<1>5. PoolTypes'
  <2>1. latencies' = [latencies EXCEPT ![name] = delay]
      BY Zenon DEF Ends
  <2>2. latencies' \in [Names -> Delays \cup {None}]
      BY <2>1, Kept, Zenon DEF PageInv
  <2> QED
      BY <1>1, <1>2, <2>2 DEF PageInv, TypeOK, PoolTypes
<1> QED
    BY <1>1, <1>3, <1>4, <1>5, Zenon DEF PageInv, PoolInv

\* The page hears of a test, and goes on.
LEMMA TestedKeeps ==
    ASSUME PageInv, NEW name \in Names, NEW under \in SUBSET Names,
           NEW way \in SUBSET Measured, Apart(under, way), name \in UnderWay,
           Way(under, way) = UnderWay \ {name},
           NodeTested(name, under, way) \/ WorkerGoesOn(under, way)
    PROVE  PoolTypes' /\ PoolInv'
<1>1. TypeOK /\ PoolInv
    BY Zenon DEF PageInv
<1>2. CASE NodeTested(name, under, way)
  <2>1. /\ testing = name /\ testing' = None /\ tests' = under /\ answers' = way
        /\ UNCHANGED <<latencies, testingAll, queue>>
      BY <1>2, Zenon DEF NodeTested
  <2>2. testing # None
      BY <2>1, PageNamesAssumption, Zenon
  <2>3. testingAll = None /\ UnderWay = {name} /\ queue = <<>>
      BY <1>1, <2>1, <2>2, Zenon DEF PoolInv
  <2>4. UnderWay' = {}
    <3>1. UnderWay' = Way(under, way)
        BY <2>1, Zenon DEF UnderWay, Way
    <3> QED
        BY <2>3, <3>1
  <2>5. PoolTypes'
      BY <1>1, <2>1, <2>3, <2>4 DEF TypeOK, PoolTypes
  <2>6. PoolInv'
    <3>1. IsInjective(queue')
        BY <1>1, <2>1, Zenon DEF PoolInv
    <3> QED
        BY <2>1, <2>3, <2>4, <3>1, Zenon DEF PoolInv
  <2> QED
      BY <2>5, <2>6
<1>3. CASE WorkerGoesOn(under, way)
  <2> DEFINE n == Cardinality(UnderWay)
  <2>1. testingAll # None /\ UNCHANGED testing
      BY <1>3, Zenon DEF WorkerGoesOn
  <2>2. /\ testing = None /\ IsFiniteSet(UnderWay) /\ n <= Concurrency
        /\ n + Len(queue) = testingAll.total - testingAll.done
        /\ queue # <<>> => n = Concurrency
        /\ IsInjective(queue) /\ ToSet(queue) \cap UnderWay = {}
      BY <1>1, <2>1, Zenon DEF PoolInv
  <2>3. /\ n \in Nat /\ IsFiniteSet(UnderWay \ {name})
        /\ Cardinality(UnderWay \ {name}) = n - 1
      BY <2>2, FS_CardinalityType, FS_RemoveElement, Zenon
  <2>4. /\ testingAll \in [done : Nat, total : Nat] /\ testingAll.done < testingAll.total
        /\ queue \in Seq(Names)
      BY <1>1, <2>1 DEF TypeOK
  <2>5. /\ testingAll.done \in Nat /\ testingAll.total \in Nat
        /\ Len(queue) \in Nat /\ Concurrency \in Nat
      BY <2>4, LenProperties, ConcurrencyAssumption
  <2>6. testingAll' = IF testingAll.done + 1 = testingAll.total THEN None
                      ELSE [testingAll EXCEPT !.done = testingAll.done + 1]
      BY <1>3, Zenon DEF WorkerGoesOn
  <2>7. [testingAll EXCEPT !.done = testingAll.done + 1]
            = [done |-> testingAll.done + 1, total |-> testingAll.total]
      BY <2>4
  <2> HIDE DEF n
  <2>8. CASE queue # <<>>
    <3>1. Asks(<<Head(queue)>>, under, way) /\ queue' = Tail(queue)
        BY <1>3, <2>8, Zenon DEF WorkerGoesOn
    <3>2. /\ Head(queue) \in Names /\ Tail(queue) \in Seq(Names)
          /\ Len(Tail(queue)) = Len(queue) - 1 /\ Len(queue) > 0
          /\ IsInjective(Tail(queue)) /\ Head(queue) \in ToSet(queue)
          /\ Head(queue) \notin ToSet(Tail(queue)) /\ ToSet(Tail(queue)) \subseteq ToSet(queue)
        BY <2>2, <2>4, <2>8, HeadLeaves, Zenon
    <3>3. <<Head(queue)>> \in Seq(Names) /\ ToSet(<<Head(queue)>>) = {Head(queue)}
        BY <3>2 DEF ToSet
    <3>4. Head(queue) \notin UnderWay
        BY <2>2, <3>2
    <3>5. ToSet(<<Head(queue)>>) \cap Way(under, way) = {}
        BY <3>3, <3>4
    <3>6. /\ latencies' \in [Names -> Delays \cup {None}]
          /\ tests' \in SUBSET Names /\ answers' \in SUBSET Measured
          /\ Apart(tests', answers')
          /\ UnderWay' = (UnderWay \ {name}) \cup {Head(queue)}
      <4>1. /\ latencies' \in [Names -> Delays \cup {None}]
            /\ tests' \in SUBSET Names /\ answers' \in SUBSET Measured
            /\ Apart(tests', answers')
            /\ UnderWay' = Way(under, way) \cup ToSet(<<Head(queue)>>)
          BY <1>1, <3>1, <3>3, <3>5, AskingAdds
      <4> QED
          BY <3>3, <4>1, Zenon
    <3>7. IsFiniteSet(UnderWay') /\ Cardinality(UnderWay') = n
      <4>1. Head(queue) \notin UnderWay \ {name}
          BY <3>4
      <4>2. /\ IsFiniteSet((UnderWay \ {name}) \cup {Head(queue)})
            /\ Cardinality((UnderWay \ {name}) \cup {Head(queue)}) = n - 1 + 1
          BY <2>3, <4>1, FS_AddElement
      <4>3. n - 1 + 1 = n
          BY <2>3
      <4> QED
          BY <3>6, <4>2, <4>3, Zenon
    <3>8. testingAll.done + 1 < testingAll.total
      <4>1. n = Concurrency /\ Concurrency > 0
          BY <2>2, <2>8, ConcurrencyAssumption
      <4> QED
          BY <2>2, <2>3, <2>5, <3>2, <4>1
    <3>9. testingAll' = [done |-> testingAll.done + 1, total |-> testingAll.total]
        BY <2>6, <2>7, <3>8, <2>5
    <3>10. PoolTypes'
        BY <1>1, <2>1, <2>5, <3>1, <3>2, <3>6, <3>8, <3>9 DEF TypeOK, PoolTypes
    <3>11. ToSet(queue') \cap UnderWay' = {}
        BY <2>2, <3>1, <3>2, <3>6
    <3>12. /\ n + Len(queue') = testingAll'.total - testingAll'.done
           /\ n <= Concurrency
           /\ queue' # <<>> => n = Concurrency
      <4>1. Len(queue') = Len(queue) - 1
          BY <3>1, <3>2
      <4>2. testingAll'.total = testingAll.total /\ testingAll'.done = testingAll.done + 1
          BY <3>9
      <4> QED
          BY <2>2, <2>3, <2>5, <2>8, <4>1, <4>2
    <3>13. testingAll' # None
      <4>1. [done |-> testingAll.done + 1, total |-> testingAll.total]
                \in [done : Nat, total : Nat]
          BY <2>5
      <4> QED
          BY <3>9, <4>1, PageNamesAssumption, Zenon
    <3>14. testing' = None /\ IsInjective(queue')
        BY <2>1, <2>2, <3>1, <3>2, Zenon
    <3> QED
        BY <3>6, <3>7, <3>10, <3>11, <3>12, <3>13, <3>14, Zenon DEF PoolInv
  <2>9. CASE queue = <<>>
    <3>1. Asks(<<>>, under, way) /\ queue' = <<>>
        BY <1>3, <2>9, Zenon DEF WorkerGoesOn
    <3>2. <<>> \in Seq(Names) /\ ToSet(<<>>) = {} /\ IsInjective(<<>>) /\ Len(<<>>) = 0
        BY DEF ToSet, IsInjective
    <3>3. /\ latencies' \in [Names -> Delays \cup {None}]
          /\ tests' \in SUBSET Names /\ answers' \in SUBSET Measured
          /\ Apart(tests', answers')
          /\ UnderWay' = UnderWay \ {name}
      <4>1. /\ latencies' \in [Names -> Delays \cup {None}]
            /\ tests' \in SUBSET Names /\ answers' \in SUBSET Measured
            /\ Apart(tests', answers')
            /\ UnderWay' = Way(under, way) \cup ToSet(<<>>)
        <5>1. ToSet(<<>>) \cap Way(under, way) = {}
            BY <3>2
        <5> QED
            BY <1>1, <3>1, <3>2, <5>1, AskingAdds
      <4> QED
          BY <3>2, <4>1
    <3>4. IsFiniteSet(UnderWay') /\ Cardinality(UnderWay') = n - 1 /\ n - 1 \in Nat
      <4>1. IsFiniteSet(UnderWay') /\ Cardinality(UnderWay') = n - 1
          BY <2>3, <3>3, Zenon
      <4> QED
          BY <4>1, FS_CardinalityType, Zenon
    <3>5. n = testingAll.total - testingAll.done
        BY <2>2, <2>3, <2>5, <2>9, <3>2
    <3>6. testing' = None /\ IsInjective(queue') /\ ToSet(queue') \cap UnderWay' = {}
        BY <2>1, <2>2, <3>1, <3>2
    <3>7. CASE testingAll.done + 1 = testingAll.total
      <4>1. testingAll' = None
          BY <2>6, <3>7, Zenon
      <4>2. UnderWay' = {}
        <5>1. n - 1 = 0
            BY <2>3, <2>5, <3>5, <3>7
        <5> QED
            BY <3>4, <5>1, FS_EmptySet, Zenon
      <4>3. PoolTypes'
          BY <1>1, <2>1, <3>1, <3>3, <4>1 DEF TypeOK, PoolTypes
      <4> QED
          BY <3>1, <3>3, <3>6, <4>1, <4>2, <4>3, Zenon DEF PoolInv
    <3>8. CASE testingAll.done + 1 # testingAll.total
      <4>1. testingAll' = [done |-> testingAll.done + 1, total |-> testingAll.total]
          BY <2>6, <2>7, <3>8, Zenon
      <4>2. testingAll' \in [done : Nat, total : Nat] /\ testingAll'.done < testingAll'.total
          BY <2>4, <2>5, <3>8, <4>1
      <4>3. testingAll' # None
          BY <4>2, PageNamesAssumption, Zenon
      <4>4. PoolTypes'
          BY <1>1, <2>1, <3>1, <3>2, <3>3, <4>2 DEF TypeOK, PoolTypes
      <4>5. /\ Cardinality(UnderWay') + Len(queue') = testingAll'.total - testingAll'.done
            /\ Cardinality(UnderWay') <= Concurrency /\ ~ queue' # <<>>
        <5>1. testingAll'.total = testingAll.total /\ testingAll'.done = testingAll.done + 1
            BY <4>1
        <5>2. n - 1 + 0 = testingAll.total - (testingAll.done + 1) /\ n - 1 <= Concurrency
            BY <2>2, <2>3, <2>5, <3>5
        <5> QED
            BY <3>1, <3>2, <3>4, <5>1, <5>2, Zenon
      <4> QED
          BY <3>3, <3>4, <3>6, <4>3, <4>4, <4>5, Zenon DEF PoolInv
    <3> QED
        BY <3>7, <3>8
  <2> QED
      BY <2>8, <2>9
<1> QED
    BY <1>2, <1>3

\* The button of one node.
LEMMA OneAsked ==
    ASSUME PageInv, NEW i \in DOMAIN list, TestNode(i)
    PROVE  PoolTypes' /\ PoolInv'
<1> DEFINE name == list[i].name
<1>1. TypeOK /\ PoolInv
    BY Zenon DEF PageInv
<1>2. name \in Names
  <2>1. list \in Seq(Measured)
      BY <1>1, Zenon DEF TypeOK
  <2> QED
      BY <2>1, NamesTyped, Zenon
<1>3. /\ testing = None /\ testingAll = None /\ testing' = name
      /\ Asks(<<name>>, tests, answers) /\ UNCHANGED <<testingAll, queue>>
    BY Zenon DEF TestNode, Clickable
<1> HIDE DEF name
<1>4. UnderWay = {} /\ queue = <<>> /\ Apart(tests, answers)
    BY <1>1, <1>3, Zenon DEF PoolInv
<1>5. <<name>> \in Seq(Names) /\ ToSet(<<name>>) = {name}
    BY <1>2 DEF ToSet
<1>6. Way(tests, answers) = UnderWay
    BY Zenon DEF Way, UnderWay
<1>7. /\ latencies' \in [Names -> Delays \cup {None}]
      /\ tests' \in SUBSET Names /\ answers' \in SUBSET Measured
      /\ Apart(tests', answers')
      /\ UnderWay' = Way(tests, answers) \cup ToSet(<<name>>)
  <2>1. tests \in SUBSET Names /\ answers \in SUBSET Measured
      BY <1>1 DEF TypeOK
  <2>2. ToSet(<<name>>) \cap Way(tests, answers) = {}
      BY <1>4, <1>6
  <2> QED
      BY <1>1, <1>3, <1>4, <1>5, <2>1, <2>2, AskingAdds
<1>8. UnderWay' = {name}
    BY <1>4, <1>5, <1>6, <1>7
<1>9. PoolTypes'
    BY <1>1, <1>2, <1>3, <1>7 DEF TypeOK, PoolTypes
<1>10. name # None
    BY <1>2, PageNamesAssumption
<1>11. IsInjective(queue') /\ ToSet(queue') \cap UnderWay' = {}
    BY <1>3, <1>4 DEF IsInjective, ToSet
<1> QED
    BY <1>3, <1>4, <1>7, <1>8, <1>9, <1>10, <1>11, Zenon DEF PoolInv

\* The button of all.
LEMMA AllAsked ==
    ASSUME PageInv, TestAllNodes
    PROVE  PoolTypes' /\ PoolInv'
<1> DEFINE s       == NamesOf(list)
           workers == IF Len(list) < Concurrency THEN Len(list) ELSE Concurrency
           first   == SubSeq(s, 1, workers)
           rest    == SubSeq(s, workers + 1, Len(list))
<1>1. TypeOK /\ PoolInv /\ IsInjective(s)
    BY Zenon DEF PageInv, ListsInv
<1>2. s \in Seq(Names) /\ Len(s) = Len(list) /\ Len(list) \in Nat
  <2>1. list \in Seq(Measured)
      BY <1>1, Zenon DEF TypeOK
  <2> QED
      BY <2>1, NamesTyped, Zenon
<1>3. /\ testing = None /\ testingAll = None /\ list # <<>>
      /\ testingAll' = [done |-> 0, total |-> Len(list)]
      /\ Asks(first, tests, answers) /\ queue' = rest /\ UNCHANGED testing
    BY Zenon DEF TestAllNodes, Clickable
<1> HIDE DEF s
<1>4. Len(list) > 0
  <2>1. list \in Seq(Measured)
      BY <1>1, Zenon DEF TypeOK
  <2> QED
      BY <1>3, <2>1, EmptySeq, LenProperties
<1>5. /\ workers \in 0 .. Len(s) /\ workers <= Concurrency
      /\ workers + (Len(s) - workers) = Len(s)
      /\ Len(s) - workers # 0 => workers = Concurrency
    BY <1>2, ConcurrencyAssumption
<1> HIDE DEF workers
<1> DEFINE asked == {s[i] : i \in 1 .. workers}
           left  == {s[i] : i \in (workers + 1) .. Len(s)}
<1>6. /\ first \in Seq(Names) /\ ToSet(first) = asked
      /\ IsFiniteSet(asked) /\ Cardinality(asked) = workers
      /\ rest \in Seq(Names) /\ Len(rest) = Len(s) - workers
      /\ IsInjective(rest) /\ ToSet(rest) = left /\ asked \cap left = {}
    BY <1>1, <1>2, <1>5, FirstNames, Zenon
<1> HIDE DEF first, rest, asked, left
<1>7. UnderWay = {} /\ Apart(tests, answers)
    BY <1>1, <1>3, Zenon DEF PoolInv
<1>8. Way(tests, answers) = UnderWay
    BY Zenon DEF Way, UnderWay
<1>9. /\ latencies' \in [Names -> Delays \cup {None}]
      /\ tests' \in SUBSET Names /\ answers' \in SUBSET Measured
      /\ Apart(tests', answers')
      /\ UnderWay' = asked
  <2>1. tests \in SUBSET Names /\ answers \in SUBSET Measured
      BY <1>1 DEF TypeOK
  <2>2. ToSet(first) \cap Way(tests, answers) = {}
      BY <1>7, <1>8
  <2>3. /\ latencies' \in [Names -> Delays \cup {None}]
        /\ tests' \in SUBSET Names /\ answers' \in SUBSET Measured
        /\ Apart(tests', answers')
        /\ UnderWay' = Way(tests, answers) \cup ToSet(first)
      BY <1>1, <1>3, <1>6, <1>7, <2>1, <2>2, AskingAdds
  <2> QED
      BY <1>6, <1>7, <1>8, <2>3
<1>10. [done |-> 0, total |-> Len(list)] \in [done : Nat, total : Nat]
    BY <1>2
<1>11. testingAll' # None
    BY <1>3, <1>10, PageNamesAssumption, Zenon
<1>12. PoolTypes'
    BY <1>1, <1>3, <1>4, <1>6, <1>9, <1>10 DEF TypeOK, PoolTypes
<1>13. /\ Cardinality(UnderWay') + Len(queue') = testingAll'.total - testingAll'.done
       /\ Cardinality(UnderWay') <= Concurrency
       /\ queue' # <<>> => Cardinality(UnderWay') = Concurrency
  <2>1. testingAll'.total = Len(s) /\ testingAll'.done = 0 /\ Len(s) - 0 = Len(s)
      BY <1>2, <1>3
  <2>2. queue' # <<>> => Len(queue') # 0
      BY <1>3, <1>6, EmptySeq, Zenon
  <2> QED
      BY <1>3, <1>5, <1>6, <1>9, <2>1, <2>2, Zenon
<1>14. IsInjective(queue') /\ ToSet(queue') \cap UnderWay' = {}
    BY <1>3, <1>6, <1>9
<1>15. testing' = None
    BY <1>3
<1> QED
    BY <1>6, <1>9, <1>11, <1>12, <1>13, <1>14, <1>15, Zenon DEF PoolInv

-----------------------------------------------------------------------------
(* The lists.                                                              *)

\* What a poll may bring.
LEMMA PollKinds ==
    ASSUME NEW p \in Polls
    PROVE  /\ "running" \in DOMAIN p => p.running \in BOOLEAN
           /\ "list" \in DOMAIN p => p.list \in Seq(Measured)
BY DEF Polls

\* One poll moves on, with a list that names no node twice if with any.
LEMMA PollMoves ==
    ASSUME TypeOK, ListsInv, NEW i \in Slots, NEW p \in Polls,
           polls' = [polls EXCEPT ![i] = p],
           "list" \in DOMAIN p => IsInjective(NamesOf(p.list))
    PROVE  /\ polls' \in [Slots -> Polls]
           /\ \A j \in Slots :
                 "list" \in DOMAIN polls'[j] => IsInjective(NamesOf(polls'[j].list))
<1>1. polls \in [Slots -> Polls]
    BY Zenon DEF TypeOK
<1>2. polls' \in [Slots -> Polls] /\ polls'[i] = p
      /\ \A j \in Slots : j # i => polls'[j] = polls[j]
    BY <1>1
<1> QED
    BY <1>2, Zenon DEF ListsInv

\* The server sends a node once.
LEMMA ProxiesOnce ==
    ASSUME TypeOK
    PROVE  Proxies \in Seq(Measured) /\ IsInjective(NamesOf(Proxies))
<1>1. nodes \in Seq(Names) /\ IsInjective(nodes)
    BY PageNamesAssumption, Zenon DEF TypeOK
<1>2. /\ DOMAIN nodes = 1 .. Len(nodes) /\ Len(nodes) \in Nat
      /\ \A i \in 1 .. Len(nodes) : nodes[i] \in Names
    BY <1>1, LenProperties, ElementOfSeq
<1>3. \A i \in 1 .. Len(nodes) : latencies[nodes[i]] \in Delays \cup {None}
    BY <1>2 DEF TypeOK
<1>4. Proxies = [i \in 1 .. Len(nodes) |-> [name |-> nodes[i], delay |-> latencies[nodes[i]]]]
    BY <1>2, Zenon DEF Proxies
<1>5. Proxies \in Seq(Measured)
    BY <1>2, <1>3, <1>4 DEF Measured
<1>6. NamesOf(Proxies) = nodes
  <2>1. DOMAIN Proxies = DOMAIN nodes /\ \A i \in DOMAIN nodes : Proxies[i].name = nodes[i]
      BY <1>2, <1>4
  <2>2. NamesOf(Proxies) = [i \in DOMAIN nodes |-> nodes[i]]
      BY <2>1, Zenon DEF NamesOf
  <2> QED
      BY <1>1, <2>2
<1> QED
    BY <1>1, <1>5, <1>6

-----------------------------------------------------------------------------
(* Every step.                                                             *)

\* A poll starts, is answered or fails.
LEMMA PollKeeps ==
    ASSUME PageInv, NEW i \in Slots,
           PollStarts(i) \/ Server(i) \/ Page(i) \/ PollFails(i)
    PROVE  PageInv'
<1>1. TypeOK /\ ListsInv /\ PoolInv
    BY Zenon DEF PageInv
<1>2. polls \in [Slots -> Polls] /\ polls[i] \in Polls
    BY <1>1 DEF TypeOK
<1>3. \A awaits \in {"none", "clear", "status", "proxies"} :
          [awaits |-> awaits] \in Polls /\ "list" \notin DOMAIN [awaits |-> awaits]
    BY DEF Polls
<1>4. UNCHANGED <<tests, answers, testing, testingAll, queue>>
    BY DEF PollStarts, Server, Page, PollFails, ServerClears, ServerStatus, ServerProxies,
           StatusArrives, ProxiesArrive, pageVars
<1>5. PoolInv'
    BY <1>1, <1>4, PoolUnmoved
<1>6. \E p \in Polls :
          /\ polls' = [polls EXCEPT ![i] = p]
          /\ "list" \in DOMAIN p => IsInjective(NamesOf(p.list))
  <2>1. CASE PollStarts(i)
    <3> DEFINE awaits == IF cleared THEN "status" ELSE "clear"
    <3>1. polls[i] = [awaits |-> "none"] /\ polls' = [polls EXCEPT ![i].awaits = awaits]
        BY <2>1, Zenon DEF PollStarts, Idle
    <3>2. [polls[i] EXCEPT !.awaits = awaits] = [awaits |-> awaits]
        BY <3>1
    <3>3. [polls EXCEPT ![i].awaits = awaits]
              = [polls EXCEPT ![i] = [polls[i] EXCEPT !.awaits = awaits]]
        OBVIOUS
    <3>4. polls' = [polls EXCEPT ![i] = [awaits |-> awaits]]
        BY <3>1, <3>2, <3>3, Zenon
    <3> QED
        BY <1>3, <3>4, Zenon
  <2>2. CASE ServerClears(i)
    <3>1. polls[i] = [awaits |-> "clear"] /\ polls' = [polls EXCEPT ![i].awaits = "status"]
        BY <2>2, Zenon DEF ServerClears
    <3>2. [polls[i] EXCEPT !.awaits = "status"] = [awaits |-> "status"]
        BY <3>1
    <3>3. [polls EXCEPT ![i].awaits = "status"]
              = [polls EXCEPT ![i] = [polls[i] EXCEPT !.awaits = "status"]]
        OBVIOUS
    <3>4. polls' = [polls EXCEPT ![i] = [awaits |-> "status"]]
        BY <3>1, <3>2, <3>3, Zenon
    <3> QED
        BY <1>3, <3>4, Zenon
  <2>3. CASE ServerStatus(i)
    <3> DEFINE p == [awaits |-> "status", running |-> running]
    <3>1. polls' = [polls EXCEPT ![i] = p]
        BY <2>3, Zenon DEF ServerStatus
    <3>2. p \in Polls /\ "list" \notin DOMAIN p
        BY <1>1 DEF TypeOK, Polls
    <3> QED
        BY <3>1, <3>2, Zenon
  <2>4. CASE ServerProxies(i)
    <3> DEFINE p == [awaits |-> "proxies", list |-> Proxies]
    <3>1. polls' = [polls EXCEPT ![i] = p]
        BY <2>4, Zenon DEF ServerProxies
    <3>2. Proxies \in Seq(Measured) /\ IsInjective(NamesOf(Proxies))
        BY <1>1, ProxiesOnce, Zenon
    <3>3. p \in Polls /\ p.list = Proxies
        BY <3>2 DEF Polls
    <3> QED
        BY <3>1, <3>2, <3>3, Zenon
  <2>5. CASE StatusArrives(i)
    <3>1. polls' = [polls EXCEPT ![i] =
                       [awaits |-> IF polls[i].running THEN "proxies" ELSE "none"]]
        BY <1>2, <2>5 DEF StatusArrives, Idle
    <3> QED
        BY <1>3, <3>1, Zenon
  <2>6. CASE ProxiesArrive(i)
    <3>1. polls' = [polls EXCEPT ![i] = [awaits |-> "none"]]
        BY <2>6, Zenon DEF ProxiesArrive, Idle
    <3> QED
        BY <1>3, <3>1, Zenon
  <2>7. CASE PollFails(i)
    <3>1. polls' = [polls EXCEPT ![i] =
                       [awaits |-> IF polls[i].awaits = "clear" THEN "status" ELSE "none"]]
        BY <1>2, <2>7 DEF PollFails, Idle
    <3> QED
        BY <1>3, <3>1, Zenon
  <2> QED
      BY <2>1, <2>2, <2>3, <2>4, <2>5, <2>6, <2>7, Zenon DEF Server, Page
<1>7. /\ polls' \in [Slots -> Polls]
      /\ \A j \in Slots : "list" \in DOMAIN polls'[j] => IsInjective(NamesOf(polls'[j].list))
    BY <1>1, <1>6, PollMoves
<1>8. list' \in Seq(Measured) /\ IsInjective(NamesOf(list'))
  <2>1. CASE ProxiesArrive(i)
    <3>1. "list" \in DOMAIN polls[i] /\ list' = polls[i].list
        BY <2>1, Zenon DEF ProxiesArrive
    <3> QED
        BY <1>1, <1>2, <3>1, PollKinds, Zenon DEF ListsInv
  <2>2. CASE ~ProxiesArrive(i)
    <3>1. list' = list
        BY <2>2 DEF PollStarts, Server, Page, PollFails, ServerClears, ServerStatus,
                    ServerProxies, StatusArrives, pageVars
    <3> QED
        BY <1>1, <3>1, Zenon DEF TypeOK, ListsInv
  <2> QED
      BY <2>1, <2>2
<1>9. ListsInv'
    BY <1>7, <1>8, Zenon DEF ListsInv, NamesOf
<1>10. latencies' \in [Names -> Delays \cup {None}]
  <2>1. CASE ServerClears(i)
      BY <2>1 DEF ServerClears
  <2>2. CASE ~ServerClears(i)
    <3>1. latencies' = latencies
        BY <2>2 DEF PollStarts, Server, Page, PollFails, ServerStatus, ServerProxies,
                    StatusArrives, ProxiesArrive, serverVars
    <3> QED
        BY <1>1, <3>1, Zenon DEF TypeOK
  <2> QED
      BY <2>1, <2>2
<1>11. status' \in BOOLEAN \cup {None}
  <2>1. CASE StatusArrives(i)
    <3>1. "running" \in DOMAIN polls[i] /\ status' = polls[i].running
        BY <2>1, Zenon DEF StatusArrives
    <3>2. polls[i].running \in BOOLEAN
        BY <1>2, <3>1, PollKinds, Zenon
    <3> QED
        BY <3>1, <3>2, Zenon
  <2>2. CASE ~StatusArrives(i)
    <3>1. status' = status
        BY <2>2 DEF PollStarts, Server, Page, PollFails, ServerClears, ServerStatus,
                    ServerProxies, ProxiesArrive, pageVars
    <3> QED
        BY <1>1, <3>1, Zenon DEF TypeOK
  <2> QED
      BY <2>1, <2>2
<1>12. /\ UNCHANGED <<running, nodes>>
       /\ cleared' = TRUE \/ cleared' = cleared
    BY DEF PollStarts, Server, Page, PollFails, ServerClears, ServerStatus, ServerProxies,
           StatusArrives, ProxiesArrive, serverVars, pageVars
<1>13. TypeOK'
    BY <1>1, <1>4, <1>7, <1>8, <1>10, <1>11, <1>12 DEF TypeOK
<1> QED
    BY <1>5, <1>9, <1>13, Zenon DEF PageInv

\* The rest of the page stays as it is.
LEMMA ListsUnmoved ==
    ASSUME PageInv, PoolTypes', PoolInv',
           UNCHANGED <<running, nodes, polls, cleared, status, list>>
    PROVE  PageInv'
<1>1. TypeOK /\ ListsInv
    BY Zenon DEF PageInv
<1>2. TypeOK'
    BY <1>1 DEF TypeOK, PoolTypes
<1>3. ListsInv'
    BY <1>1, Zenon DEF ListsInv, NamesOf
<1> QED
    BY <1>2, <1>3, Zenon DEF PageInv

\* A test starts, ends at the server, or its request or response fails.
LEMMA TestKeeps ==
    ASSUME PageInv,
           \/ \E i \in DOMAIN list : TestNode(i)
           \/ TestAllNodes
           \/ \E name \in Names : DialEnds(name) \/ TimesOut(name) \/ AnswerLost(name)
    PROVE  PageInv'
<1>1. PoolTypes' /\ PoolInv'
  <2>1. CASE \E i \in DOMAIN list : TestNode(i)
      BY <2>1, OneAsked, Zenon
  <2>2. CASE TestAllNodes
      BY <2>2, AllAsked, Zenon
  <2>3. CASE \E name \in Names, delay \in Delays \cup {None} : Ends(name, delay)
      BY <2>3, EndingKeeps, Zenon
  <2>4. ASSUME NEW name \in Names, AnswerLost(name) PROVE PoolTypes' /\ PoolInv'
    <3> DEFINE way == {answer \in answers : answer.name # name}
    <3>1. /\ name \in UnderWay
          /\ NodeTested(name, tests \ {name}, way) \/ WorkerGoesOn(tests \ {name}, way)
        BY <2>4, Zenon DEF AnswerLost, Tested
    <3>2. tests \in SUBSET Names /\ answers \in SUBSET Measured /\ Apart(tests, answers)
        BY DEF PageInv, PoolInv, TypeOK
    <3>3. tests \ {name} \in SUBSET Names /\ way \in SUBSET Measured
        BY <3>2
    <3>4. Apart(tests \ {name}, way)
        BY <3>2, Zenon DEF Apart
    <3>5. Way(tests \ {name}, way) = UnderWay \ {name}
        BY Zenon DEF Way, UnderWay
    <3> HIDE DEF way
    <3> QED
        BY <3>1, <3>2, <3>3, <3>4, <3>5, TestedKeeps
  <2> QED
      BY <2>1, <2>2, <2>3, <2>4, Zenon DEF DialEnds, TimesOut
<1>2. UNCHANGED <<running, nodes, polls, cleared, status, list>>
    BY DEF TestNode, TestAllNodes, DialEnds, TimesOut, Ends, AnswerLost, Tested, pageVars
<1> QED
    BY <1>1, <1>2, ListsUnmoved

\* The page hears of a test.
LEMMA AnswerKeeps ==
    ASSUME PageInv, NEW answer \in answers, AnswerArrives(answer)
    PROVE  PageInv'
<1> DEFINE name == answer.name
           way  == answers \ {answer}
<1>1. TypeOK /\ ListsInv /\ Apart(tests, answers)
    BY Zenon DEF PageInv, PoolInv
<1>2. /\ list' = [i \in DOMAIN list |-> IF list[i].name = name THEN answer ELSE list[i]]
      /\ NodeTested(name, tests, way) \/ WorkerGoesOn(tests, way)
      /\ UNCHANGED <<running, nodes, polls, cleared, status>>
    BY DEF AnswerArrives, Tested
<1>3. /\ tests \in SUBSET Names /\ way \in SUBSET Measured
      /\ answer \in Measured /\ name \in Names
    BY <1>1 DEF TypeOK, Measured
<1>4. Apart(tests, way)
    BY <1>1, Zenon DEF Apart
<1>5. name \in UnderWay
    BY Zenon DEF UnderWay
<1>6. Way(tests, way) = UnderWay \ {name}
  <2>1. name \notin tests
      BY <1>1, Zenon DEF Apart
  <2>2. {other.name : other \in way} = {other.name : other \in answers} \ {name}
    <3>1. \A other \in answers : other.name = name => other = answer
        BY <1>1, Zenon DEF Apart
    <3> QED
        BY <3>1
  <2> QED
      BY <2>1, <2>2 DEF Way, UnderWay
<1>7. PoolTypes' /\ PoolInv'
    BY <1>2, <1>3, <1>4, <1>5, <1>6, TestedKeeps
<1>8. list' \in Seq(Measured) /\ NamesOf(list') = NamesOf(list)
  <2>1. /\ list \in Seq(Measured) /\ DOMAIN list = 1 .. Len(list) /\ Len(list) \in Nat
        /\ \A i \in 1 .. Len(list) : list[i] \in Measured
      BY <1>1, NamesTyped DEF TypeOK
  <2>2. list' = [i \in 1 .. Len(list) |-> IF list[i].name = name THEN answer ELSE list[i]]
      BY <1>2, <2>1, Zenon
  <2>3. list' \in Seq(Measured) /\ DOMAIN list' = DOMAIN list
      BY <1>3, <2>1, <2>2
  <2>4. \A i \in DOMAIN list : list'[i].name = list[i].name
      BY <2>1, <2>2
  <2> QED
      BY <2>3, <2>4, Zenon DEF NamesOf
<1>9. ListsInv'
  <2>1. polls' = polls
      BY <1>2
  <2> QED
      BY <1>1, <1>8, <2>1, Zenon DEF ListsInv, NamesOf
<1>10. TypeOK'
    BY <1>1, <1>2, <1>7, <1>8 DEF TypeOK, PoolTypes
<1> QED
    BY <1>7, <1>9, <1>10, Zenon DEF PageInv

\* The environment's steps.
LEMMA ElsewhereKeeps ==
    ASSUME PageInv, CoreTurns \/ Updated \/ MeasuredElsewhere
    PROVE  PageInv'
<1>1. TypeOK /\ ListsInv /\ PoolInv
    BY Zenon DEF PageInv
<1>2. UNCHANGED <<tests, answers, polls, pageVars>>
    BY DEF CoreTurns, Updated, MeasuredElsewhere
<1>3. PoolInv'
    BY <1>1, <1>2, PoolUnmoved DEF pageVars
<1>4. ListsInv'
    BY <1>1, <1>2, Zenon DEF ListsInv, NamesOf, pageVars
<1>5. latencies' \in [Names -> Delays \cup {None}]
  <2>1. CASE MeasuredElsewhere
    <3>1. CASE \E n \in Names, d \in Delays \cup {None} :
                   latencies' = [latencies EXCEPT ![n] = d]
        BY <1>1, <3>1, Kept, Zenon
    <3>2. CASE latencies' = [n \in Names |-> None]
        BY <3>2
    <3> QED
        BY <2>1, <3>1, <3>2, Zenon DEF MeasuredElsewhere
  <2>2. CASE CoreTurns \/ Updated
      BY <1>1, <2>2 DEF CoreTurns, Updated, TypeOK
  <2> QED
      BY <2>1, <2>2
<1>6. running' \in BOOLEAN /\ nodes' \in Subscriptions
    BY <1>1 DEF CoreTurns, Updated, MeasuredElsewhere, TypeOK
<1>7. TypeOK'
    BY <1>1, <1>2, <1>5, <1>6 DEF TypeOK, pageVars
<1> QED
    BY <1>3, <1>4, <1>7, Zenon DEF PageInv

-----------------------------------------------------------------------------
(* The theorems.                                                           *)

LEMMA PageInvHolds == Spec => []PageInv
<1>1. Init => PageInv
  <2> SUFFICES ASSUME Init PROVE PageInv
      OBVIOUS
  <2>1. /\ tests = {} /\ answers = {} /\ list = <<>> /\ queue = <<>>
        /\ testing = None /\ testingAll = None /\ polls = [i \in Slots |-> Idle]
      BY Zenon DEF Init
  <2>2. UnderWay = {} /\ Apart(tests, answers)
      BY <2>1, Zenon DEF UnderWay, Apart
  <2>3. IsInjective(queue) /\ ToSet(queue) \cap UnderWay = {} /\ IsInjective(NamesOf(list))
      BY <2>1 DEF IsInjective, ToSet, NamesOf
  <2>4. Idle \in Polls /\ "list" \notin DOMAIN Idle
      BY DEF Polls, Idle
  <2>5. TypeOK
    <3>1. /\ running \in BOOLEAN /\ nodes \in Subscriptions /\ cleared = FALSE /\ status = None
          /\ latencies \in [Names -> Delays \cup {None}]
        BY Zenon DEF Init
    <3>2. polls \in [Slots -> Polls]
        BY <2>1, <2>4
    <3>3. list \in Seq(Measured) /\ queue \in Seq(Names)
        BY <2>1
    <3> QED
        BY <2>1, <3>1, <3>2, <3>3 DEF TypeOK
  <2>6. ListsInv
      BY <2>1, <2>3, <2>4 DEF ListsInv
  <2>7. PoolInv
      BY <2>1, <2>2, <2>3, Zenon DEF PoolInv
  <2> QED
      BY <2>5, <2>6, <2>7, Zenon DEF PageInv
<1>2. PageInv /\ [Next]_vars => PageInv'
  <2> SUFFICES ASSUME PageInv, [Next]_vars PROVE PageInv'
      OBVIOUS
  <2>1. CASE \E i \in Slots : PollStarts(i) \/ Server(i) \/ Page(i) \/ PollFails(i)
      BY <2>1, PollKeeps, Zenon
  <2>2. CASE \/ \E i \in DOMAIN list : TestNode(i)
             \/ TestAllNodes
             \/ \E name \in Names : DialEnds(name) \/ TimesOut(name) \/ AnswerLost(name)
      BY <2>2, TestKeeps, Zenon
  <2>3. CASE \E answer \in answers : AnswerArrives(answer)
      BY <2>3, AnswerKeeps, Zenon
  <2>4. CASE CoreTurns \/ Updated \/ MeasuredElsewhere
      BY <2>4, ElsewhereKeeps, Zenon
  <2>5. CASE UNCHANGED vars
    <3>1. UNCHANGED <<running, nodes, latencies, tests, answers, polls, cleared, status, list,
                      testing, testingAll, queue>>
        BY <2>5 DEF vars, serverVars, pageVars
    <3>2. TypeOK'
        BY <3>1 DEF PageInv, TypeOK
    <3>3. PoolInv'
        BY <3>1, PoolUnmoved DEF PageInv
    <3>4. ListsInv'
        BY <3>1, Zenon DEF PageInv, ListsInv, NamesOf
    <3> QED
        BY <3>2, <3>3, <3>4, Zenon DEF PageInv
  <2> QED
      BY <2>1, <2>2, <2>3, <2>4, <2>5, Zenon DEF Next
<1> QED
    BY <1>1, <1>2, PTL DEF Spec

\* The page's and the server's state keep their types, and the count of a test
\* of all stays below its total (client.js:303-308).
THEOREM PageTyping == Spec => []TypeOK
<1>1. PageInv => TypeOK
    BY Zenon DEF PageInv
<1> QED
    BY <1>1, PageInvHolds, PTL

\* While the buttons are disabled each worker awaits one test, no node is tested
\* twice, and when they come back none is left, whatever is lost, times out or
\* leaves the subscription meanwhile (client.js:290-311).
THEOREM WorkersBusy == Spec => []OneTestPerWorker
<1>1. PageInv => OneTestPerWorker
  <2> SUFFICES ASSUME PageInv, testingAll # None
               PROVE  LET toCome == testingAll.total - testingAll.done
                      IN  Cardinality(UnderWay) =
                              IF toCome < Concurrency THEN toCome ELSE Concurrency
      BY Zenon DEF PageInv, PoolInv, OneTestPerWorker
  <2> DEFINE n == Cardinality(UnderWay)
             m == Len(queue)
  <2>1. /\ n + m = testingAll.total - testingAll.done
        /\ n <= Concurrency
        /\ queue # <<>> => n = Concurrency
        /\ IsFiniteSet(UnderWay)
      BY Zenon DEF PageInv, PoolInv
  <2>2. queue \in Seq(Names) /\ testingAll \in [done : Nat, total : Nat]
      BY DEF PageInv, TypeOK
  <2>3. n \in Nat /\ m \in Nat /\ (queue = <<>> => m = 0) /\ (queue # <<>> => m > 0)
      BY <2>1, <2>2, FS_CardinalityType, LenProperties, EmptySeq
  <2>4. Concurrency \in Nat
      BY ConcurrencyAssumption
  <2> HIDE DEF n, m
  <2>5. n = IF n + m < Concurrency THEN n + m ELSE Concurrency
      BY <2>1, <2>3, <2>4
  <2> QED
      BY <2>1, <2>5, Zenon DEF n
<1> QED
    BY <1>1, PageInvHolds, PTL

=============================================================================
