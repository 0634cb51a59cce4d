---------------------------- MODULE NodeSelection ----------------------------
(***************************************************************************)
(* Which node answers: lib/core/manager.js's manual selection, the file    *)
(* state.json that keeps it, and the measured latencies, against           *)
(* subscription updates, core starts and process restarts.                 *)
(*                                                                         *)
(* selectNode() runs outside the manager's queue, so a #loadState() and    *)
(* several #saveState() may be under way at once.  A writeFile truncates   *)
(* the file when it opens it and writes later.  A latency test ends with   *)
(* one assignment and is that assignment here, made at any time and for    *)
(* any name: tests outlive the subscription they were started under.       *)
(***************************************************************************)
EXTENDS Naturals, Sequences, SequencesExt

CONSTANTS
    Nodes,          \* node names
    Supported,      \* those isSupported() accepts
    Subscriptions,  \* what an update may bring: sequences of distinct names
    Delays,         \* measured latencies
    None,           \* null
    MaxSaves        \* bound on the saves under way

GroupTypes == {"url-test", "select", "fallback"}

ASSUME NodesAssumption ==
    /\ Supported \subseteq Nodes /\ None \notin Nodes
    /\ \A names \in Subscriptions : names \in Seq(Nodes) /\ IsInjective(names)
ASSUME DelaysAssumption == Delays \subseteq Nat /\ None \notin Delays
ASSUME SavesAssumption == MaxSaves \in Nat

VARIABLES
    names,      \* the keys of #nodeMap(), in order
    groupType,  \* the live section's group type
    latencies,  \* #latencies; None for no number
    selected,   \* #selected
    disk,       \* the selection in state.json; None if there is none to read
    saves,      \* the #saveState() under way: [value, open]
    loading,    \* the #loadState() under way: "no", "reading" or "read"
    found,      \* what it read
    chosen,     \* ghost: the node the user chose last
    raced       \* ghost: a selection or a load overlapped a save, or one failed

vars == <<names, groupType, latencies, selected, disk, saves, loading, found, chosen, raced>>

Choice == Nodes \cup {None}

TypeOK ==
    /\ names \in Subscriptions
    /\ groupType \in GroupTypes
    /\ latencies \in [Nodes -> Delays \cup {None}]
    /\ {selected, disk, found, chosen} \subseteq Choice
    /\ saves \in Seq([value : Choice, open : BOOLEAN])
    /\ loading \in {"no", "reading", "read"}
    /\ raced \in BOOLEAN

\* A core is starting in a new process, with what an earlier one left.
Init ==
    /\ names \in Subscriptions
    /\ groupType \in GroupTypes
    /\ latencies = [n \in Nodes |-> None]
    /\ selected = None
    /\ disk \in Choice /\ chosen = disk
    /\ saves = <<>>
    /\ loading = "reading" /\ found = None
    /\ raced = FALSE

-----------------------------------------------------------------------------
(* The node that answers.                                                  *)

Known == ToSet(names)

SupportedKnown == Known \cap Supported

\* The first name, in the subscription's order, of those in the set.
FirstOf(set) ==
    names[CHOOSE i \in DOMAIN names :
              names[i] \in set /\ \A j \in 1 .. (i - 1) : names[j] \notin set]

\* Mutant: a missing latency counts as 0, as null does in a comparison.
FastestNullIsZero ==
    LET delay(n) == IF latencies[n] = None THEN 0 ELSE latencies[n]
        least    == {n \in SupportedKnown : \A m \in SupportedKnown : delay(n) <= delay(m)}
    IN  IF least = {} THEN None ELSE FirstOf(least)

\* The first of the supported nodes with the least delay, if any is measured.
Fastest ==
    LET measured == {n \in SupportedKnown : latencies[n] # None}
        least    == {n \in measured : \A m \in measured : latencies[n] <= latencies[m]}
    IN  IF measured = {} THEN None ELSE FirstOf(least)

\* Mutant: the default is the first node.
ResolveNodeFirst ==
    IF names = <<>> THEN None
    ELSE IF selected \in Known THEN selected
    ELSE IF groupType = "url-test" /\ Fastest # None THEN Fastest
    ELSE Head(names)

ResolveNode ==
    IF names = <<>> THEN None
    ELSE IF selected \in Known THEN selected
    ELSE IF groupType = "url-test" /\ Fastest # None THEN Fastest
    ELSE IF SupportedKnown # {} THEN FirstOf(SupportedKnown)
    ELSE Head(names)

\* Mutant: the selection is shown for every type of group.
CurrentNodeNameSelected ==
    IF selected # None THEN selected
    ELSE IF names = <<>> THEN None ELSE Head(names)

\* What #groups says of AUTO, the group of all nodes: the name of its "now".
CurrentNodeName ==
    IF groupType = "url-test" THEN ResolveNode
    ELSE IF selected # None THEN selected
    ELSE IF names = <<>> THEN None ELSE Head(names)

-----------------------------------------------------------------------------
(* Selection and state.json.                                               *)

\* selectNode(name) of a known name; the await is the save's.
SelectNode(name) ==
    /\ name \in Known /\ Len(saves) < MaxSaves
    /\ selected' = name /\ chosen' = name
    /\ saves' = Append(saves, [value |-> name, open |-> FALSE])
    /\ raced' = (raced \/ saves # <<>> \/ loading # "no")
    /\ UNCHANGED <<names, groupType, latencies, disk, loading, found>>

SaveOpens(i) ==
    /\ ~saves[i].open
    /\ saves' = [saves EXCEPT ![i].open = TRUE]
    /\ disk' = None
    /\ UNCHANGED <<names, groupType, latencies, selected, loading, found, chosen, raced>>

\* Mutant: the save is dropped.
SaveWritesNothing(i) ==
    /\ saves[i].open
    /\ saves' = RemoveAt(saves, i)
    /\ UNCHANGED <<names, groupType, latencies, selected, disk, loading, found, chosen, raced>>

\* Over what another save has written since, the rest of a longer text stays
\* and the file no longer parses.
SaveWrites(i) ==
    /\ saves[i].open
    /\ saves' = RemoveAt(saves, i)
    /\ disk' \in {saves[i].value} \cup (IF disk = None THEN {} ELSE {None})
    /\ UNCHANGED <<names, groupType, latencies, selected, loading, found, chosen, raced>>

\* "Non-fatal."
SaveFails(i) ==
    /\ saves' = RemoveAt(saves, i)
    /\ raced' = TRUE
    /\ UNCHANGED <<names, groupType, latencies, selected, disk, loading, found, chosen>>

\* #startCore, after an update with the new subscription's nodes.
CoreStarts ==
    /\ loading = "no"
    /\ names' \in Subscriptions
    /\ loading' = "reading" /\ found' = None
    /\ raced' = (raced \/ saves # <<>>)
    /\ UNCHANGED <<groupType, latencies, selected, disk, saves, chosen>>

LoadReads ==
    /\ loading = "reading"
    /\ loading' = "read" /\ found' = disk
    /\ UNCHANGED <<names, groupType, latencies, selected, disk, saves, chosen, raced>>

\* Only a string is taken over.
LoadEnds ==
    /\ loading = "read"
    /\ loading' = "no" /\ found' = None
    /\ selected' = IF found = None THEN selected ELSE found
    /\ UNCHANGED <<names, groupType, latencies, disk, saves, chosen, raced>>

\* The process ends, with the saves under way, and the next one starts.
ProcessRestarts ==
    /\ selected' = None /\ saves' = <<>>
    /\ loading' = "reading" /\ found' = None
    /\ latencies' = [n \in Nodes |-> None]
    /\ names' \in Subscriptions
    /\ raced' = (raced \/ saves # <<>>)
    /\ UNCHANGED <<groupType, disk, chosen>>

-----------------------------------------------------------------------------
(* Latencies and settings.                                                 *)

\* A test of testLatency, testAllLatencies or #refreshLatencies ends.
Measured(name, delay) ==
    /\ latencies' = [latencies EXCEPT ![name] = delay]
    /\ UNCHANGED <<names, groupType, selected, disk, saves, loading, found, chosen, raced>>

\* Mutant: the entries go with their numbers.
ClearLatenciesAndNames ==
    /\ latencies' = <<>>
    /\ UNCHANGED <<names, groupType, selected, disk, saves, loading, found, chosen, raced>>

ClearLatencies ==
    /\ latencies' = [n \in Nodes |-> None]
    /\ UNCHANGED <<names, groupType, selected, disk, saves, loading, found, chosen, raced>>

SetGroupType(type) ==
    /\ groupType' = type
    /\ UNCHANGED <<names, latencies, selected, disk, saves, loading, found, chosen, raced>>

Next ==
    \/ \E name \in Nodes : SelectNode(name)
    \/ \E i \in DOMAIN saves : SaveOpens(i) \/ SaveWrites(i) \/ SaveFails(i)
    \/ CoreStarts \/ LoadReads \/ LoadEnds \/ ProcessRestarts
    \/ \E name \in Nodes, delay \in Delays \cup {None} : Measured(name, delay)
    \/ ClearLatencies
    \/ \E type \in GroupTypes : SetGroupType(type)

Spec == Init /\ [][Next]_vars

-----------------------------------------------------------------------------
(* Properties.                                                             *)

Answering == ResolveNode

\* Whatever the selection, the latencies and the subscription went through:
\* traffic goes to a node of the current subscription, and manager.js:124's
\* "unsupported protocols never become the silent default" holds while the
\* subscription has a node that is supported.
AnswersWithNode ==
    names # <<>> =>
        /\ Answering \in Known
        /\ Answering \notin Supported =>
              Answering = selected \/ SupportedKnown = {}

\* README.md:28: `url-test` (auto-fastest): no supported node of the current
\* subscription is known to be faster than the one that answers, unless the
\* user selected it.
FastestAnswers ==
    groupType = "url-test" /\ names # <<>> /\ Answering # selected =>
        \A n \in SupportedKnown :
            latencies[n] # None =>
                latencies[Answering] # None /\ latencies[Answering] <= latencies[n]

\* The node the page calls current is the one that answers, but for two cases
\* in which #currentNodeName does not follow #resolveNode: the subscription has
\* lost the selected node, or none is selected and the first is not supported.
CurrentAnswers ==
    \/ names = <<>>
    \/ CurrentNodeName = Answering
    \/ /\ groupType # "url-test"
       /\ IF selected = None THEN Head(names) \notin Supported ELSE selected \notin Known

\* README.md:28: `select` (manual, persisted).  The user's last choice is in
\* force and in state.json, through updates, core starts and restarts, unless a
\* selection met a save or a load under way, a start met a save, a save failed,
\* or the process ended in one.
ChoicePersists ==
    ~raced /\ saves = <<>> =>
        /\ disk = chosen
        /\ loading = "no" => selected = chosen

=============================================================================
