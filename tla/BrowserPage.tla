----------------------------- MODULE BrowserPage -----------------------------
(***************************************************************************)
(* The browser page's section (lib/client.js) against the manager's JSON   *)
(* API (lib/core/manager.js): the poll that starts every 2.5 s whether or  *)
(* not the one before has been answered, the latency tests of one node and *)
(* of all, each a race of a dial with a timer (measureLatency, in          *)
(* lib/core/transports.js), and the page's copy of what the server keeps.  *)
(*                                                                         *)
(* Every request and every response takes its time, so they overtake one   *)
(* another.  What else changes the manager, other pages and its own timers *)
(* included, is the environment's.                                         *)
(***************************************************************************)
EXTENDS Naturals, Sequences, SequencesExt, FiniteSets

CONSTANTS
    Names,          \* node names
    Subscriptions,  \* what an update may bring: sequences of distinct names
    Delays,         \* measured latencies
    None,           \* null
    Slots,          \* the polls that may be under way at once
    Concurrency     \* CONCURRENCY: the tests testAllNodes runs at once

ASSUME PageNamesAssumption ==
    /\ \A names \in Subscriptions : names \in Seq(Names) /\ IsInjective(names)
    /\ None \notin Names \cup Delays /\ None \notin [done : Nat, total : Nat]
ASSUME ConcurrencyAssumption == Concurrency \in Nat \ {0}

VARIABLES
    running,    \* #state = "running"
    nodes,      \* the keys of #nodeMap(), in order
    latencies,  \* #latencies; None for null and for no entry
    tests,      \* the names whose test the server runs for the page
    answers,    \* the responses on the way: [name, delay]
    polls,      \* each slot's poll: what it awaits, and what that brings
    cleared,    \* the page has asked for clear-latencies
    status,     \* the page's status: running, or None before the first
    list,       \* its proxies.nodes: [name, delay]
    testing,    \* the node under test, or None
    testingAll, \* [done, total], or None
    queue       \* what testAllNodes has not asked for yet

serverVars == <<running, nodes, latencies>>
pageVars   == <<cleared, status, list, testing, testingAll, queue>>
vars       == <<serverVars, tests, answers, polls, pageVars>>

Measured == [name : Names, delay : Delays \cup {None}]
NamesOf(measured) == [i \in DOMAIN measured |-> measured[i].name]

Idle == [awaits |-> "none"]
Polls ==
    [awaits : {"none", "clear", "status", "proxies"}]
    \cup [awaits : {"status"}, running : BOOLEAN]
    \cup [awaits : {"proxies"}, list : Seq(Measured)]

TypeOK ==
    /\ running \in BOOLEAN /\ nodes \in Subscriptions
    /\ latencies \in [Names -> Delays \cup {None}]
    /\ tests \subseteq Names /\ answers \subseteq Measured
    /\ polls \in [Slots -> Polls]
    /\ cleared \in BOOLEAN /\ status \in BOOLEAN \cup {None}
    /\ list \in Seq(Measured)
    /\ testing \in Names \cup {None}
    /\ testingAll \in {None} \cup [done : Nat, total : Nat]
    /\ testingAll # None => testingAll.done < testingAll.total
    /\ queue \in Seq(Names)

\* The section mounts.
Init ==
    /\ running \in BOOLEAN /\ nodes \in Subscriptions
    /\ latencies \in [Names -> Delays \cup {None}]
    /\ tests = {} /\ answers = {}
    /\ polls = [i \in Slots |-> Idle]
    /\ cleared = FALSE /\ status = None
    /\ list = <<>> /\ testing = None /\ testingAll = None /\ queue = <<>>

-----------------------------------------------------------------------------
(* The poll: tick().                                                       *)

\* Mutant: no interval, the page polls when it mounts.
PollStartsOnce(i) ==
    /\ polls[i] = Idle /\ ~cleared
    /\ cleared' = TRUE
    /\ polls' = [polls EXCEPT ![i].awaits = "clear"]
    /\ UNCHANGED <<serverVars, tests, answers, status, list, testing, testingAll, queue>>

\* The first poll of a page clears the latencies before it asks for anything;
\* those that start meanwhile do not wait for that.
PollStarts(i) ==
    /\ polls[i] = Idle
    /\ cleared' = TRUE
    /\ polls' = [polls EXCEPT ![i].awaits = IF cleared THEN "status" ELSE "clear"]
    /\ UNCHANGED <<serverVars, tests, answers, status, list, testing, testingAll, queue>>

\* handleHttp's "proxies".
Proxies == [i \in DOMAIN nodes |-> [name |-> nodes[i], delay |-> latencies[nodes[i]]]]

\* The server takes the request.
ServerClears(i) ==
    /\ polls[i] = [awaits |-> "clear"]
    /\ latencies' = [n \in Names |-> None]
    /\ polls' = [polls EXCEPT ![i].awaits = "status"]
    /\ UNCHANGED <<running, nodes, tests, answers, pageVars>>

ServerStatus(i) ==
    /\ polls[i] = [awaits |-> "status"]
    /\ polls' = [polls EXCEPT ![i] = [awaits |-> "status", running |-> running]]
    /\ UNCHANGED <<serverVars, tests, answers, pageVars>>

ServerProxies(i) ==
    /\ polls[i] = [awaits |-> "proxies"]
    /\ polls' = [polls EXCEPT ![i] =
                    [awaits |-> "proxies", list |-> Proxies]]
    /\ UNCHANGED <<serverVars, tests, answers, pageVars>>

\* Its response arrives.
StatusArrives(i) ==
    /\ "running" \in DOMAIN polls[i]
    /\ status' = polls[i].running
    /\ polls' = [polls EXCEPT ![i] = IF polls[i].running THEN [awaits |-> "proxies"] ELSE Idle]
    /\ UNCHANGED <<serverVars, tests, answers, cleared, list, testing, testingAll, queue>>

ProxiesArrive(i) ==
    /\ "list" \in DOMAIN polls[i]
    /\ list' = polls[i].list
    /\ polls' = [polls EXCEPT ![i] = Idle]
    /\ UNCHANGED <<serverVars, tests, answers, cleared, status, testing, testingAll, queue>>

\* A request fails.  clear-latencies is forgotten, any other ends the poll.
PollFails(i) ==
    /\ polls[i] # Idle
    /\ polls' = [polls EXCEPT ![i] = IF polls[i].awaits = "clear" THEN [awaits |-> "status"]
                                     ELSE Idle]
    /\ UNCHANGED <<serverVars, tests, answers, pageVars>>

Server(i) == ServerClears(i) \/ ServerStatus(i) \/ ServerProxies(i)
Page(i)   == StatusArrives(i) \/ ProxiesArrive(i)

-----------------------------------------------------------------------------
(* The latency tests.  A request reaches the server at once: what happens  *)
(* on its way could as well happen before the click.                       *)

\* The page asks for names, with the tests and answers of others under way.
\* #testOne looks each up: one the subscription does not have is not dialled,
\* and its answer is null.
Asks(names, under, way) ==
    LET known == ToSet(names) \cap ToSet(nodes)
        lost  == ToSet(names) \ known
    IN  /\ tests' = under \cup known
        /\ latencies' = [n \in Names |-> IF n \in lost THEN None ELSE latencies[n]]
        /\ answers' = way \cup [name : lost, delay : {None}]

\* Mutant: the test of one node leaves the others' buttons enabled.
ClickableWhileTesting == status = TRUE /\ testingAll = None

\* The buttons are there while status says running, and enabled while no test
\* of the page runs.
Clickable == status = TRUE /\ testing = None /\ testingAll = None

TestNode(i) ==
    /\ Clickable
    /\ testing' = list[i].name
    /\ Asks(<<list[i].name>>, tests, answers)
    /\ UNCHANGED <<running, nodes, polls, cleared, status, list, testingAll, queue>>

\* Each worker asks for its first node at once.
TestAllNodes ==
    /\ Clickable /\ list # <<>>
    /\ testingAll' = [done |-> 0, total |-> Len(list)]
    /\ LET workers == IF Len(list) < Concurrency THEN Len(list) ELSE Concurrency
       IN  /\ Asks(SubSeq(NamesOf(list), 1, workers), tests, answers)
           /\ queue' = SubSeq(NamesOf(list), workers + 1, Len(list))
    /\ UNCHANGED <<running, nodes, polls, cleared, status, list, testing>>

\* testLatency: the result is kept and sent.
Ends(name, delay) ==
    /\ name \in tests /\ tests' = tests \ {name}
    /\ latencies' = [latencies EXCEPT ![name] = delay]
    /\ answers' = answers \cup {[name |-> name, delay |-> delay]}
    /\ UNCHANGED <<running, nodes, polls, pageVars>>

\* The dial ends in time, with a face or an error.
DialEnds(name) == \E delay \in Delays \cup {None} : Ends(name, delay)

\* Mutant: measureLatency awaits the dial alone.
TimesOutNever(name) == FALSE

\* The timer fires first; what the dial brings later is nobody's.
TimesOut(name) == Ends(name, None)

\* testNode is over: its finally.
NodeTested(name, under, way) ==
    /\ testing = name /\ testing' = None
    /\ tests' = under /\ answers' = way
    /\ UNCHANGED <<latencies, testingAll, queue>>

\* Mutant: the end comes one answer late.
WorkerGoesOnPast(under, way) ==
    /\ testingAll # None
    /\ \/ queue # <<>> /\ Asks(<<Head(queue)>>, under, way) /\ queue' = Tail(queue)
       \/ queue = <<>> /\ Asks(<<>>, under, way) /\ UNCHANGED queue
    /\ testingAll' = IF testingAll.done = testingAll.total THEN None
                     ELSE [testingAll EXCEPT !.done = @ + 1]
    /\ UNCHANGED testing

\* A worker of testAllNodes takes the next name; the last to end ends it all.
WorkerGoesOn(under, way) ==
    /\ testingAll # None
    /\ \/ queue # <<>> /\ Asks(<<Head(queue)>>, under, way) /\ queue' = Tail(queue)
       \/ queue = <<>> /\ Asks(<<>>, under, way) /\ UNCHANGED queue
    /\ testingAll' = IF testingAll.done + 1 = testingAll.total THEN None
                     ELSE [testingAll EXCEPT !.done = @ + 1]
    /\ UNCHANGED testing

Tested(name, under, way) ==
    /\ NodeTested(name, under, way) \/ WorkerGoesOn(under, way)
    /\ UNCHANGED <<running, nodes, polls, cleared, status>>

\* What the response says of a node that is still shown.
AnswerArrives(answer) ==
    /\ list' = [i \in DOMAIN list |-> IF list[i].name = answer.name THEN answer ELSE list[i]]
    /\ Tested(answer.name, tests, answers \ {answer})

\* The nodes whose test the page awaits.
UnderWay == tests \cup {answer.name : answer \in answers}

\* The request fails or its response does.  A test that goes on for nobody is
\* one of MeasuredElsewhere.
AnswerLost(name) ==
    /\ name \in UnderWay
    /\ Tested(name, tests \ {name}, {answer \in answers : answer.name # name})
    /\ UNCHANGED list

-----------------------------------------------------------------------------
(* The environment.                                                        *)

\* The core starts, stops or fails.
CoreTurns ==
    /\ running' = ~running
    /\ UNCHANGED <<nodes, latencies, tests, answers, polls, pageVars>>

\* updateSubscription: latencies are kept by name.
Updated ==
    /\ nodes' \in Subscriptions
    /\ UNCHANGED <<running, latencies, tests, answers, polls, pageVars>>

\* A test of #refreshLatencies or of another page ends, or one clears.
MeasuredElsewhere ==
    /\ \/ \E n \in Names, d \in Delays \cup {None} : latencies' = [latencies EXCEPT ![n] = d]
       \/ latencies' = [n \in Names |-> None]
    /\ UNCHANGED <<running, nodes, tests, answers, polls, pageVars>>

Next ==
    \/ \E i \in Slots : PollStarts(i) \/ Server(i) \/ Page(i) \/ PollFails(i)
    \/ \E i \in DOMAIN list : TestNode(i)
    \/ TestAllNodes
    \/ \E name \in Names : DialEnds(name) \/ TimesOut(name) \/ AnswerLost(name)
    \/ \E answer \in answers : AnswerArrives(answer)
    \/ CoreTurns \/ Updated \/ MeasuredElsewhere

Spec == Init /\ [][Next]_vars

\* The interval, the server and the network go on, and the test's timer fires.
\* No dial needs to end, and nobody needs to click.
FairSpec ==
    /\ Spec
    /\ \A i \in Slots : WF_vars(PollStarts(i) \/ Server(i) \/ Page(i))
    /\ WF_vars(\E name \in Names : TimesOut(name))
    /\ WF_vars(\E answer \in answers : AnswerArrives(answer))

-----------------------------------------------------------------------------
(* Properties.                                                             *)

\* client.js:290-311: while the buttons are disabled each worker awaits one test,
\* no node is tested twice, and no more tests run than CONCURRENCY; when they come
\* back none is left.
OneTestPerWorker ==
    /\ testing # None => testingAll = None /\ UnderWay = {testing}
    /\ testingAll # None =>
          LET toCome == testingAll.total - testingAll.done
          IN  Cardinality(UnderWay) = IF toCome < Concurrency THEN toCome ELSE Concurrency
    /\ testing = None /\ testingAll = None => UnderWay = {}

\* client.js:281, 314: the buttons a test disables come back, also when its node
\* never answers, its request fails, or the subscription no longer has the node.
TestsEnd == testing # None \/ testingAll # None ~> testing = None /\ testingAll = None

\* What the page shows is what the server has; without a core it keeps its list.
UpToDate ==
    /\ status = running
    /\ running => list = Proxies

Calm == UNCHANGED serverVars /\ ~ \E i \in Slots : PollFails(i)

\* client.js:252: once the manager comes to rest the page shows its state for
\* good, in whatever order responses of older polls and tests still arrive.
Converges == <>[][Calm]_vars => <>[]UpToDate

=============================================================================
