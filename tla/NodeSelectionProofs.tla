------------------------- MODULE NodeSelectionProofs -------------------------
(***************************************************************************)
(* Proofs about NodeSelection, for any nodes, subscriptions and delays.    *)
(*                                                                         *)
(* The user's choice persists: as long as nothing has overlapped a save,   *)
(* at most one save is under way, it is of the last choice, no load runs   *)
(* with it, and what a load has read is still on disk when it ends.        *)
(*                                                                         *)
(* Which node answers follows from the types alone: a set of names of the  *)
(* subscription has a first one, and a set of delays has a least.          *)
(***************************************************************************)
EXTENDS NodeSelection, StreamLemmas

\* The saves when nothing raced: none, or that of the last choice, which finds
\* the file empty once it has opened it.
SavesSettled ==
    \/ saves = <<>> /\ disk = chosen
    \/ /\ loading = "no"
       /\ \E open \in BOOLEAN :
            saves = <<[value |-> chosen, open |-> open]>> /\ (open => disk = None)

ChoiceInv ==
    ~raced =>
        /\ loading = "no" => selected = chosen
        /\ selected \in {None, chosen}
        /\ loading = "read" => found = disk
        /\ SavesSettled

\* The only save under way is the first.
LEMMA OneSave ==
    ASSUME NEW v, NEW open, saves = <<[value |-> v, open |-> open]>>, NEW i \in DOMAIN saves
    PROVE  /\ i = 1 /\ saves[i].value = v /\ saves[i].open = open
           /\ [saves EXCEPT ![i].open = TRUE] = <<[value |-> v, open |-> TRUE]>>
           /\ RemoveAt(saves, i) = <<>> /\ saves # <<>>
<1>1. i = 1
    OBVIOUS
<1>2. saves[1] = [value |-> v, open |-> open] /\ Len(saves) = 1
    OBVIOUS
<1>3. [saves EXCEPT ![1].open = TRUE] = <<[value |-> v, open |-> TRUE]>>
  <2>1. [saves[1] EXCEPT !.open = TRUE] = [value |-> v, open |-> TRUE]
    <3>1. \A q : [[value |-> v, open |-> open] EXCEPT !.open = q] = [value |-> v, open |-> q]
        OBVIOUS
    <3> QED
        BY <1>2, <3>1, Zenon
  <2>2. \A r, q : [<<r>> EXCEPT ![1] = q] = <<q>>
      OBVIOUS
  <2>3. [saves EXCEPT ![1] = [value |-> v, open |-> TRUE]] = <<[value |-> v, open |-> TRUE]>>
      BY <2>2
  <2> QED
      BY <2>1, <2>3
<1>4. SubSeq(saves, 1, 1 - 1) = <<>> /\ SubSeq(saves, 1 + 1, Len(saves)) = <<>>
    BY <1>2, SubSeqEmpty
<1>5. <<>> \in Seq({}) /\ <<>> \o <<>> = <<>>
    BY ConcatEmptySeq
<1>6. RemoveAt(saves, 1) = <<>>
    BY <1>4, <1>5, Zenon DEF RemoveAt
<1> QED
    BY <1>1, <1>2, <1>3, <1>6

LEMMA ChoiceStep == ChoiceInv /\ [Next]_vars => ChoiceInv'
<1> SUFFICES ASSUME ChoiceInv, [Next]_vars, ~raced' PROVE
        /\ loading' = "no" => selected' = chosen'
        /\ selected' \in {None, chosen'}
        /\ loading' = "read" => found' = disk'
        /\ SavesSettled'
    BY DEF ChoiceInv
<1> DEFINE Goal == /\ loading' = "no" => selected' = chosen'
                   /\ selected' \in {None, chosen'}
                   /\ loading' = "read" => found' = disk'
                   /\ SavesSettled'
<1>1. ~raced => /\ loading = "no" => selected = chosen
                /\ selected \in {None, chosen}
                /\ loading = "read" => found = disk
                /\ SavesSettled
    BY DEF ChoiceInv
<1>2. CASE UNCHANGED <<selected, disk, saves, loading, found, chosen, raced>>
    BY <1>1, <1>2 DEF SavesSettled
<1>3. ASSUME NEW name \in Nodes, SelectNode(name) PROVE Goal
  <2>1. /\ saves = <<>> /\ loading = "no" /\ loading' = "no"
        /\ selected' = name /\ chosen' = name
        /\ saves' = Append(saves, [value |-> name, open |-> FALSE])
      BY <1>3 DEF SelectNode
  <2>2. saves' = <<[value |-> chosen', open |-> FALSE]>>
      BY <2>1
  <2>3. SavesSettled'
      BY <2>1, <2>2, Zenon DEF SavesSettled
  <2> QED
      BY <2>1, <2>3
<1>4. ASSUME NEW i \in DOMAIN saves, SaveOpens(i) \/ SaveWrites(i) \/ SaveFails(i) PROVE Goal
  <2>1. ~raced /\ UNCHANGED <<selected, loading, found, chosen>> /\ ~SaveFails(i)
      BY <1>4 DEF SaveOpens, SaveWrites, SaveFails
  <2>2. saves # <<>>
      OBVIOUS
  <2>3. loading = "no" /\ selected = chosen
      BY <1>1, <2>1, <2>2 DEF SavesSettled
  <2>4. PICK open \in BOOLEAN :
            saves = <<[value |-> chosen, open |-> open]>> /\ (open => disk = None)
      BY <1>1, <2>1, <2>2 DEF SavesSettled
  <2>5. /\ saves[i].value = chosen /\ saves[i].open = open
        /\ [saves EXCEPT ![i].open = TRUE] = <<[value |-> chosen, open |-> TRUE]>>
        /\ RemoveAt(saves, i) = <<>>
      BY <2>4, OneSave
  <2>6. CASE SaveOpens(i)
    <3>1. saves' = <<[value |-> chosen', open |-> TRUE]>> /\ disk' = None
        BY <2>1, <2>5, <2>6, Zenon DEF SaveOpens
    <3>2. loading' = "no"
        BY <2>1, <2>3
    <3>3. SavesSettled'
        BY <3>1, <3>2, Zenon DEF SavesSettled
    <3> QED
        BY <2>1, <2>3, <3>3
  <2>7. CASE SaveWrites(i)
    <3>1. saves' = <<>> /\ disk = None
        BY <2>4, <2>5, <2>7 DEF SaveWrites
    <3>2. disk' = chosen'
        BY <2>1, <2>5, <2>7, <3>1 DEF SaveWrites
    <3>3. SavesSettled'
        BY <3>1, <3>2 DEF SavesSettled
    <3> QED
        BY <2>1, <2>3, <3>3
  <2> QED
      BY <1>4, <2>1, <2>6, <2>7
<1>5. CASE CoreStarts
  <2>1. /\ ~raced /\ saves = <<>> /\ loading = "no" /\ loading' = "reading"
        /\ UNCHANGED <<selected, disk, saves, chosen>>
      BY <1>5 DEF CoreStarts
  <2> QED
      BY <1>1, <2>1 DEF SavesSettled
<1>6. CASE LoadReads
  <2>1. /\ ~raced /\ loading = "reading" /\ loading' = "read" /\ found' = disk /\ disk' = disk
        /\ UNCHANGED <<selected, saves, chosen>>
      BY <1>6 DEF LoadReads
  <2> QED
      BY <1>1, <2>1 DEF SavesSettled
<1>7. CASE LoadEnds
  <2>1. /\ ~raced /\ loading = "read" /\ loading' = "no"
        /\ selected' = IF found = None THEN selected ELSE found
        /\ UNCHANGED <<disk, saves, chosen>>
      BY <1>7 DEF LoadEnds
  <2>2. saves = <<>> /\ disk = chosen /\ found = chosen
      BY <1>1, <2>1 DEF SavesSettled
  <2>3. selected' = chosen'
      BY <1>1, <2>1, <2>2
  <2> QED
      BY <2>1, <2>2, <2>3 DEF SavesSettled
<1>8. CASE ProcessRestarts
  <2>1. /\ ~raced /\ saves = <<>> /\ saves' = <<>> /\ selected' = None
        /\ loading' = "reading" /\ UNCHANGED <<disk, chosen>>
      BY <1>8 DEF ProcessRestarts
  <2> QED
      BY <1>1, <2>1 DEF SavesSettled
<1>9. CASE \/ \E name \in Nodes, delay \in Delays \cup {None} : Measured(name, delay)
           \/ ClearLatencies
           \/ \E type \in GroupTypes : SetGroupType(type)
           \/ UNCHANGED vars
    BY <1>2, <1>9, Zenon DEF Measured, ClearLatencies, SetGroupType, vars
<1> QED
    BY <1>3, <1>4, <1>5, <1>6, <1>7, <1>8, <1>9, Zenon DEF Next

\* The user's last choice is in force and in state.json, through updates, core
\* starts and restarts, unless a selection met a save or a load under way, a
\* start met a save, a save failed, or the process ended in one: selectNode(),
\* #saveState() and #loadState().
THEOREM ChoicePersisted == Spec => []ChoicePersists
<1>1. Init => ChoiceInv
    BY DEF Init, ChoiceInv, SavesSettled
<1>2. ChoiceInv => ChoicePersists
    BY DEF ChoiceInv, ChoicePersists, SavesSettled
<1> QED
    BY <1>1, <1>2, ChoiceStep, PTL DEF Spec

-----------------------------------------------------------------------------
(* Types.                                                                  *)

Save == [value : Choice, open : BOOLEAN]

\* A save that ends leaves the others.
LEMMA SaveGone ==
    ASSUME NEW s \in Seq(Save), NEW i \in DOMAIN s
    PROVE  RemoveAt(s, i) \in Seq(Save)
<1>1. Len(s) \in Nat /\ i \in 1 .. Len(s) /\ \A j \in 1 .. Len(s) : s[j] \in Save
    BY LenProperties, ElementOfSeq
<1>2. SubSeq(s, 1, i - 1) \in Seq(Save) /\ SubSeq(s, i + 1, Len(s)) \in Seq(Save)
    BY <1>1, SubSeqProperties
<1> QED
    BY <1>2, ConcatProperties DEF RemoveAt

\* One that opens stays a save.
LEMMA SaveOpen ==
    ASSUME NEW s \in Seq(Save), NEW i \in DOMAIN s
    PROVE  [s EXCEPT ![i].open = TRUE] \in Seq(Save)
<1>1. Len(s) \in Nat /\ i \in 1 .. Len(s) /\ s[i] \in Save
    BY LenProperties, ElementOfSeq
<1>2. [s[i] EXCEPT !.open = TRUE] \in Save
    BY <1>1 DEF Save
<1> QED
    BY <1>1, <1>2, ExceptSeq

LEMMA TypeStep == TypeOK /\ [Next]_vars => TypeOK'
<1> SUFFICES ASSUME TypeOK, [Next]_vars PROVE TypeOK'
    OBVIOUS
<1>1. None \in Choice /\ \A n \in Nodes : n \in Choice
    BY DEF Choice
<1>2. saves \in Seq(Save) /\ Save = [value : Choice, open : BOOLEAN]
    BY DEF TypeOK, Save
<1>3. ASSUME NEW name \in Nodes, SelectNode(name) PROVE TypeOK'
  <2>1. Append(saves, [value |-> name, open |-> FALSE]) \in Seq(Save)
      BY <1>1, <1>2
  <2> QED
      BY <1>1, <1>2, <1>3, <2>1 DEF TypeOK, SelectNode
<1>4. ASSUME NEW i \in DOMAIN saves, SaveOpens(i) \/ SaveWrites(i) \/ SaveFails(i) PROVE TypeOK'
  <2>1. saves' \in Seq(Save)
      BY <1>2, <1>4, SaveGone, SaveOpen DEF SaveOpens, SaveWrites, SaveFails
  <2>2. saves[i].value \in Choice
    <3>1. saves[i] \in Save
        BY <1>2, ElementOfSeq, LenProperties
    <3> QED
        BY <3>1 DEF Save
  <2>3. disk' \in Choice
      BY <1>1, <1>4, <2>2 DEF TypeOK, SaveOpens, SaveWrites, SaveFails
  <2>4. raced' \in BOOLEAN
      BY <1>4 DEF TypeOK, SaveOpens, SaveWrites, SaveFails
  <2>5. UNCHANGED <<names, groupType, latencies, selected, loading, found, chosen>>
      BY <1>4, Zenon DEF SaveOpens, SaveWrites, SaveFails
  <2> QED
      BY <1>2, <2>1, <2>3, <2>4, <2>5 DEF TypeOK
<1>5. CASE CoreStarts
    BY <1>1, <1>5 DEF TypeOK, CoreStarts
<1>6. CASE LoadReads
    BY <1>6 DEF TypeOK, LoadReads
<1>7. CASE LoadEnds
    BY <1>1, <1>7 DEF TypeOK, LoadEnds
<1>8. CASE ProcessRestarts
  <2>1. <<>> \in Seq(Save)
      OBVIOUS
  <2> QED
      BY <1>1, <1>2, <1>8, <2>1 DEF TypeOK, ProcessRestarts
<1>9. CASE \/ \E name \in Nodes, delay \in Delays \cup {None} : Measured(name, delay)
           \/ ClearLatencies
  <2>1. latencies' \in [Nodes -> Delays \cup {None}]
      BY <1>9 DEF TypeOK, Measured, ClearLatencies
  <2>2. UNCHANGED <<names, groupType, selected, disk, saves, loading, found, chosen, raced>>
      BY <1>9, Zenon DEF Measured, ClearLatencies
  <2> QED
      BY <2>1, <2>2 DEF TypeOK
<1>10. CASE \E type \in GroupTypes : SetGroupType(type)
    BY <1>10 DEF TypeOK, SetGroupType
<1>11. CASE UNCHANGED vars
    BY <1>11 DEF TypeOK, vars
<1> QED
    BY <1>3, <1>4, <1>5, <1>6, <1>7, <1>8, <1>9, <1>10, <1>11, Zenon DEF Next

\* The tables keep their types.
THEOREM Typing == Spec => []TypeOK
<1>1. Init => TypeOK
  <2> SUFFICES ASSUME Init PROVE TypeOK
      OBVIOUS
  <2>1. saves \in Seq([value : Choice, open : BOOLEAN])
      BY DEF Init
  <2> QED
      BY <2>1 DEF Init, TypeOK, Choice
<1> QED
    BY <1>1, TypeStep, PTL DEF Spec

-----------------------------------------------------------------------------
(* Which node answers.                                                     *)

\* The names of the subscription.
LEMMA KnownNames ==
    ASSUME TypeOK
    PROVE  /\ Len(names) \in Nat /\ DOMAIN names = 1 .. Len(names)
           /\ \A i \in 1 .. Len(names) : names[i] \in Nodes /\ names[i] \in Known
           /\ \A n \in Known : \E i \in 1 .. Len(names) : names[i] = n
           /\ None \notin Known
           /\ names # <<>> => 1 \in 1 .. Len(names) /\ Head(names) = names[1]
<1>1. names \in Seq(Nodes)
    BY NodesAssumption DEF TypeOK
<1>2. /\ Len(names) \in Nat /\ DOMAIN names = 1 .. Len(names)
      /\ \A i \in 1 .. Len(names) : names[i] \in Nodes
    BY <1>1, LenProperties, ElementOfSeq
<1>3. Known = {names[i] : i \in 1 .. Len(names)}
    BY <1>2, Zenon DEF Known, ToSet
<1>4. names # <<>> => 1 \in 1 .. Len(names) /\ Head(names) = names[1]
    BY <1>1, <1>2, HeadTailProperties, EmptySeq
<1> QED
    BY <1>2, <1>3, <1>4, NodesAssumption

\* A set with a name of the subscription has a first one, which is the head of
\* the subscription if that is in the set.
LEMMA FirstIsOf ==
    ASSUME TypeOK, NEW set, \E n \in Known : n \in set
    PROVE  /\ FirstOf(set) \in set \cap Known
           /\ Head(names) \in set => FirstOf(set) = Head(names)
<1> DEFINE first(i) == names[i] \in set /\ \A j \in 1 .. (i - 1) : names[j] \notin set
           those    == {i \in 1 .. Len(names) : names[i] \in set}
<1>1. /\ Len(names) \in Nat /\ DOMAIN names = 1 .. Len(names)
      /\ \A i \in 1 .. Len(names) : names[i] \in Known
    BY KnownNames
<1>2. those \in SUBSET Nat /\ those # {}
    BY KnownNames, <1>1
<1>3. PICK m \in those : \A k \in those : m <= k
  <2> HIDE DEF those
  <2> QED
      BY <1>2, LeastNat
<1>4. m \in DOMAIN names /\ first(m)
    BY <1>1, <1>3
<1>5. (CHOOSE i \in DOMAIN names : first(i)) \in DOMAIN names
      /\ first(CHOOSE i \in DOMAIN names : first(i))
    BY <1>4, Zenon
<1> DEFINE chosenIndex == CHOOSE i \in DOMAIN names : first(i)
<1>6. FirstOf(set) = names[chosenIndex]
    BY Zenon DEF FirstOf
<1>7. chosenIndex \in 1 .. Len(names) /\ first(chosenIndex)
    BY <1>1, <1>5, Zenon
<1> HIDE DEF chosenIndex
<1>8. FirstOf(set) \in set \cap Known
    BY <1>1, <1>6, <1>7
<1>9. ASSUME Head(names) \in set PROVE FirstOf(set) = Head(names)
  <2>1. 1 \in 1 .. Len(names) /\ Head(names) = names[1]
      BY KnownNames, <1>7
  <2>2. chosenIndex = 1
      BY <1>7, <1>9, <2>1
  <2> QED
      BY <1>6, <2>1, <2>2
<1> QED
    BY <1>8, <1>9

\* Some measured node is as fast as any.
LEMMA FastestIs ==
    ASSUME TypeOK, \E n \in SupportedKnown : latencies[n] # None
    PROVE  /\ Fastest \in SupportedKnown /\ Fastest # None /\ latencies[Fastest] # None
           /\ \A n \in SupportedKnown : latencies[n] # None => latencies[Fastest] <= latencies[n]
<1> DEFINE measured == {n \in SupportedKnown : latencies[n] # None}
           least    == {n \in measured : \A m \in measured : latencies[n] <= latencies[m]}
           delays   == {latencies[n] : n \in measured}
<1>1. measured # {} /\ \A n \in measured : n \in Known /\ n \in Nodes /\ n # None
    BY NodesAssumption, KnownNames DEF SupportedKnown
<1>2. \A n \in measured : latencies[n] \in Nat
    BY <1>1, DelaysAssumption DEF TypeOK
<1>3. PICK d \in delays : \A k \in delays : d <= k
  <2>1. delays \in SUBSET Nat /\ delays # {}
      BY <1>1, <1>2
  <2> HIDE DEF delays
  <2> QED
      BY <2>1, LeastNat
<1>4. PICK n \in measured : latencies[n] = d
    BY <1>3
<1>5. n \in least
    BY <1>3, <1>4
<1>6. \E q \in Known : q \in least
    BY <1>1, <1>5, Zenon
<1>7. Fastest = FirstOf(least)
    BY <1>1, Zenon DEF Fastest
<1> HIDE DEF measured
<1>8. Fastest \in least
    BY <1>6, <1>7, FirstIsOf
<1>9. Fastest \in measured /\ \A m \in measured : latencies[Fastest] <= latencies[m]
    BY <1>8
<1> QED
    BY <1>1, <1>9 DEF measured

\* If no supported node is measured, none is the fastest.
LEMMA NoFastest ==
    ASSUME ~ \E n \in SupportedKnown : latencies[n] # None
    PROVE  Fastest = None
<1>1. {n \in SupportedKnown : latencies[n] # None} = {}
    OBVIOUS
<1> QED
    BY <1>1, Zenon DEF Fastest

\* The cases of #resolveNode.
LEMMA Resolved ==
    ASSUME TypeOK, names # <<>>
    PROVE  \/ selected \in Known /\ Answering = selected
           \/ /\ selected \notin Known /\ groupType = "url-test"
              /\ \E n \in SupportedKnown : latencies[n] # None
              /\ Answering = Fastest
           \/ /\ selected \notin Known
              /\ groupType # "url-test" \/ ~ \E n \in SupportedKnown : latencies[n] # None
              /\ SupportedKnown # {} /\ Answering = FirstOf(SupportedKnown)
           \/ /\ selected \notin Known
              /\ SupportedKnown = {} /\ Answering = Head(names)
<1>1. CASE selected \in Known
    BY <1>1, Zenon DEF Answering, ResolveNode
<1>2. CASE selected \notin Known /\ groupType = "url-test" /\ \E n \in SupportedKnown : latencies[n] # None
    BY <1>2, FastestIs, Zenon DEF Answering, ResolveNode
<1>3. CASE /\ selected \notin Known
           /\ groupType # "url-test" \/ ~ \E n \in SupportedKnown : latencies[n] # None
    BY <1>3, NoFastest, Zenon DEF Answering, ResolveNode
<1> QED
    BY <1>1, <1>2, <1>3, Zenon

\* Traffic goes to a node of the current subscription, and to one that is not
\* supported only if the user selected it or there is no other: #resolveNode.
THEOREM Answers == Spec => []AnswersWithNode
<1>1. TypeOK => AnswersWithNode
  <2> SUFFICES ASSUME TypeOK, names # <<>>
               PROVE  /\ Answering \in Known
                      /\ Answering \notin Supported => Answering = selected \/ SupportedKnown = {}
      BY Zenon DEF AnswersWithNode
  <2>1. Head(names) \in Known
      BY KnownNames
  <2>2. SupportedKnown # {} => FirstOf(SupportedKnown) \in SupportedKnown
      BY FirstIsOf DEF SupportedKnown
  <2>3. SupportedKnown = Known \cap Supported
      BY DEF SupportedKnown
  <2> QED
      BY <2>1, <2>2, <2>3, Resolved, FastestIs
<1> QED
    BY <1>1, Typing, PTL

\* No supported node of the current subscription is known to be faster than the
\* one that answers, unless the user selected it: #resolveNode under url-test.
THEOREM AnswersFast == Spec => []FastestAnswers
<1>1. TypeOK => FastestAnswers
  <2> SUFFICES ASSUME TypeOK, groupType = "url-test", names # <<>>, Answering # selected,
                      NEW n \in SupportedKnown, latencies[n] # None
               PROVE  latencies[Answering] # None /\ latencies[Answering] <= latencies[n]
      BY Zenon DEF FastestAnswers
  <2>1. Answering = Fastest
      BY Resolved
  <2> QED
      BY <2>1, FastestIs
<1> QED
    BY <1>1, Typing, PTL

\* The node the page calls current is the one that answers, but for a selected
\* node the subscription lost and a first node that is not supported:
\* #currentNodeName against #resolveNode.
THEOREM CurrentIsAnswering == Spec => []CurrentAnswers
<1>1. TypeOK => CurrentAnswers
  <2> SUFFICES ASSUME TypeOK, names # <<>>, groupType # "url-test",
                      ~ IF selected = None THEN Head(names) \notin Supported ELSE selected \notin Known
               PROVE  CurrentNodeName = Answering
      BY Zenon DEF CurrentAnswers, CurrentNodeName, Answering
  <2>1. CASE selected # None
      BY <2>1, Resolved, Zenon DEF CurrentNodeName
  <2>2. CASE selected = None
    <3>1. Head(names) \in Supported /\ Head(names) \in Known /\ selected \notin Known
        BY <2>2, KnownNames
    <3>2. Head(names) \in SupportedKnown
        BY <3>1 DEF SupportedKnown
    <3>3. Answering = Head(names)
        BY <3>1, <3>2, Resolved, FirstIsOf
    <3> QED
        BY <2>2, <3>3, Zenon DEF CurrentNodeName
  <2> QED
      BY <2>1, <2>2
<1> QED
    BY <1>1, Typing, PTL

=============================================================================
