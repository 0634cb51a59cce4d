# A verification project for dsh-clash-proxy

`dsh-clash-proxy` is a plugin that runs a Clash-style proxy inside one Node
process: it fetches a subscription, opens a loopback proxy port that splits
traffic by rules, and points the process's environment and `fetch` at that port.
This directory holds TLA+ modules of the plugin's own logic, the TLC
configurations that check them on small instances, and TLAPS proofs about the
lifecycle, the faces, the rules, node selection, the proxy server and the page. Every
definition is translated from the JavaScript and Go under `src/`; `PROJECT.json`
("map") names the lines of each.

    tlc -config ClashManager.cfg MCClashManager     # any run of the table below
    tlapm ClashManagerProofs.tla                    # the proofs
    tlapm ConnectThroughProofs.tla

## 1. The system

| component | state | operations | talks to |
|---|---|---|---|
| `lib/index.js`, `lib/core/manager.js` lifecycle | `#task` (a promise queue), `#state`, `#runtimeOff`, `#applied`, `#subscription`, `#server`, `#undoEnv`, `#undoDispatcher`, two timers | `start`, `stop`, `restart`, `updateSubscription`, `setRuntimeEnabled`, `reconcile`, auto-update timer, disposal | all below |
| `lib/core/inject.js` | the proxy variables of `process.env`, `globalThis.fetch` | inject and undo, wrap and undo | called by the manager, read by every child process |
| `lib/core/subscription.js`, the cache file | `subscription.yaml` on disk | fetch, parse, fall back to the cache | manager |
| `manager.js` node selection | `#selected`, `#latencies`, `state.json` | `selectNode`, `#saveState`, `#loadState`, latency tests, `#resolveNode` | browser API; asked by the proxy server for each connection |
| `lib/core/rules.js` | compiled rules, CN tables | `decide(host)` | asked by the proxy server for each connection |
| `scripts/build-cn-data.mjs` | the CN tables' files | `extractSuffixes`, `packCidrs` | read by `rules.js` |
| `lib/core/proxy-server.js` | listening socket; per connection a handler, a client socket, a face | `start`, `stop`, SOCKS5, CONNECT, absolute-form HTTP, `#relay`, `pumpInto` | rules, node selection, transports |
| `lib/core/transports.js` `SocketBuffer`, raw, http and socks5 faces | `#buffer`, `#waiters`, `#ended`, `#error` | `read`, `readAny`, `#flush`, socket events | proxy server |
| `transports.js`, `vmess.js`, `ws.js`: ss, vmess, trojan, vless, ws | nonce counters, `pending`, the response header still to read | write, read, close of a face | proxy server, an upstream server |
| `transports.js` `nativeConnect` and `src/native/*.go` | a child process and its pipes | relay over stdin and stdout | proxy server |
| `lib/client.js` and the JSON API | the page's copy of status and nodes, the node or nodes under test | a poll every 2.5 s, latency tests, clicks | manager |

What is hard in it, and where:

- **The queue is not a lock on everything.** Operations run one after another,
  but settings, the runtime switch, the timer, node selection and disposal act
  between any two of their awaits; an operation goes on with the section it
  captured. A queued operation that awaits another queued operation waits for
  itself.
- **A start has seven awaits and can fail at each**, having acquired part of a
  port, an environment, a wrapped `fetch` and two timers.
- **The event loop delivers "data", "close" and "error" whenever a task
  awaits**: a socket that flows with no listener loses what it emits; a "close"
  that has fired is not delivered to a listener attached later.
- **Two layers of framing** (WebSocket frames, sealed chunks) do not share
  boundaries, and both ends must count nonces alike.
- **A native node has three parties with an end each**: Node's face, the
  connector's two goroutines and the server finish in any order, with bytes in four
  pipes between them, and nothing but Node's close and a kill timer ends them all.
- **The page polls without waiting for the poll before**, so responses overtake
  one another, and tests outlive the subscription they were started for.
- **Files are written without a rename or a lock** (`state.json`,
  `subscription.yaml`), and read by the next start.

`PROJECT.json` "hazards" lists them one by one, each at its line, with the
properties that would catch it or the reason none does.

What makes each component correct: the manager gives the process back exactly as
it found it, and its `#state` says what is there; the selection answers with a
node of the current subscription and keeps the user's choice; the rule engine
decides as a definition without scans and shifts does; the proxy server carries
each byte of a tunnel once, in order, and closes what it opened; every face,
whatever lies behind it, carries a stream each way, and neither misses a wakeup
nor outlives its ends; the page comes to show what the manager has, and gives its
buttons back.

## 2. Modules

| module | models | size of its instance |
|---|---|---|
| `ScopedInjection` | the abstract promise of `inject.js` and the manager | - |
| `ClashManager` (+ `MCClashManager`) | the lifecycle, await by await; implements `ScopedInjection` | 375 557 states |
| `NodeSelection` (+ MC) | which node answers, which is shown, and `state.json` | 783 432 states |
| `RuleEngine` (+ MC) | `decide()` and the CN suffix table | 1 634 304 states |
| `ProxyServer` (+ MC) | inbound connections and their relays | 243 542 states |
| `ByteStream` | the abstract promise of one direction of a face | - |
| `SocketBuffer` (+ MC) | exact reads, `rawFace`, `pumpInto`'s backpressure | in `ConnectThrough` |
| `Framing` | the ss, vmess, trojan, vless and ws faces | in `ConnectThrough` |
| `NativeConnector` | the face over a child process, the child, its logical connection | in `ConnectThrough` |
| `ConnectThrough` (+ MC) | which face a node gets; the three faces, each implementing `ByteStream` twice | 168 514 states |
| `BrowserPage` (+ MC) | the page's poll and latency tests against the JSON API | 346 496 states |

The proofs are in `ClashManagerProofs`, `FramingProofs`, `ConnectThroughProofs`
(which holds those about `SocketBuffer`, its raw face, and `NativeConnector`, its
native face), `RuleEngineProofs`, `NodeSelectionProofs`, `ProxyServerProofs` and
`BrowserPageProofs`. Facts about sequences and numbers that several of them use are in
`StreamLemmas`.

### ClashManager

A step is what runs between two awaits; `pc` names the await the running
operation is at, `queue` is `#task` with the running operation first. `BeginCore`,
`RestoreEnvironment`, the `Load...` actions, `CreateServer`, `ListenAndInject`,
`Wire` are `#startCore` in order; `Catch` and `CatchRestores` are its catch block;
`BeginStop` and `EndStop` are `stop()`. `Environment` is everything outside the
queue. `restart()` under a disabled section awaits a `stop()` that is queued
behind it: that is "inner stop", and `SelfBlocked` says that the operation then
never settles. A subscription is the URL it came from; a section keeps the
fields that decide control.

A runtime-enabled request awaits its body before it does anything: `PostRuntime`
is its arrival, `bodies` counts those that wait, `SetRuntimeEnabled` and `BodyFails`
are the two ends. Disposal takes the route away but not a handler that waits, so
`SetRuntimeEnabled`, alone among the requests, may follow it. Whether the host's
`setInterval` refuses a context that is disposed is not decided in `src/`, so a core
that gets to its intervals after disposal may fail there (`WireFails`) or be given
intervals that do not stay (`Wire`).
A section without intervals has nothing to fail at.

`ScopedInjection` forgets the operations: a process whose environment and
`fetch` are opened onto a live port in one order, closed in the other, and given
back as they were. `ImplementsScopedInjection` maps `listening`, `env` and
`fetch` to themselves; `RestoresDangling` adds the abstract fairness: an
environment left pointing at a closed port is restored.

### NodeSelection

`selectNode()` and `#saveState()` run outside the queue, so several saves and a
load overlap. `SaveOpens` truncates the file and `SaveWrites` writes it, possibly
over a longer text that another save has put there. `Measured` is the one
assignment a latency test ends with, for any name at any time. `raced` marks
behaviours in which a selection or load met a save, a save failed, or the process
ended in one; `ChoicePersists` says that the user's choice survives all else.
`CurrentNodeName` is the function that tells the page which node is current; it is
not the one that routes, and `CurrentAnswers` says when the two agree.

### RuleEngine

A host is its sequence of labels, an address a number of `Width` bits or a
sequence of groups. Scans, shifts and masks are translated as arithmetic; the
properties compare `decide()` with definitions by division and by suffix.
`Composed` is every rule line, the user's first; `Dropped` says which of them
`excludeRules` takes out. `BlockSize` is a power of two, and `AsNumber` the number an
IPv6 address writes, as recursive functions, about which the provers can reason.

### ProxyServer

Every variable but one is a function of the connection. `Emit` is a chunk reaching whatever
listens, or being lost; `held` is the chunk `unshift`ed into the client's stream,
which `Flow` emits to whoever listens a tick later. `owed` are the chunks a
tunnel must carry, `left` is the phase a client left in.

### SocketBuffer

The one task that reads: the exact reads of a handshake, then `readAny` and
`pumpInto`. `#waiters` holds one waiter exactly when `task = "await"`. Socket
events come only at an await.

### Framing

It builds on what `SocketBuffer` shows, that reads by count do not depend on how
a stream is cut, so a frame that has not fully arrived is one that has not been
sent. `Kinds` are the nodes `connectThrough` builds a framed face for. Upwards,
`Parts` cuts a write and numbers the nonces; downwards, `PullFrame` is
`WsStream.read()`, `pending` is `iterableSource`'s, and `ReadHeader`, `ReadSize`,
`ReadChunk`, `ReadAny` are the face's reads. The server is external: it opens
chunks in order, answers only once it has data, cuts its stream into frames
anywhere and puts pings and empty frames between them.

### NativeConnector

Three actors share four pipes. Node's part is `nativeConnect`: `Spawn` (a spawn
that fails is an "error" event nobody listens to, and ends the process), `Write`,
`Read`, `Exit`, `Close`, `Kill`. The child's is `main` in `native/main.go` (`Dial`,
the two copies, `FarBreaks` and its read error, `Leave` when both are over) with `logicalConn` of
`native/vless.go` and `hysteria2.go` inside them: `asked` is `requestWritten`,
`headRead` is `responseRead`. The server is external, and its connection ends
(`FarEnds`, all it said can still be read) or breaks (`FarBreaks`, a reset or an idle
timeout, at any time). A copy that meets the error prints it and is over, with what
it has not read, and `main` leaves as after an end. `stdin` holds what Node
buffers too, so a write never waits. A child may die at any time.

### ConnectThrough and ByteStream

`ConnectThrough` picks the face as `connectThrough()` does from the node's type
(and reality settings) and lets that face's module take its steps; the other two
faces do not exist and stand still. `ByteStream` is what all of them promise for
one direction: what comes out is the sequence of what went in, as far as it got,
and nothing comes after the end. `FacesCarryStreams` is that refinement, twice
for each face, and once more for the buffer a raw face's handshake reads from. In
`Reads` a byte comes out when a read takes it; in `Relay` when the client is
given it, counted from the end of the handshake. Upwards a face's stream is over
when the far side has gone (`~serverUp`, `Dead`), downwards when its read has
ended.

### BrowserPage

A poll is a chain of up to three requests; `polls` says for each what it awaits and,
once the server has taken the request, what the response says. `Slots` is how many
may overlap. `TestNode` and `TestAllNodes` are the two buttons, `Tested` the end of
a test on the page, `DialEnds` and `TimesOut` the two sides of `measureLatency`'s
race. `UnderWay` are the nodes whose test the page awaits, at
the server or on the way back; `OneTestPerWorker` relates them to what the page
believes of its tests: the buttons come back when none is left, no sooner, and until
then as many run as there are workers with something to do. A request for a test
reaches the server at once: what could happen on its way could happen before the
click. `AnswerLost` is a request that fails anywhere on its way, for a name the
subscription no longer has too. Everything else that changes the manager is `CoreTurns`, `Updated` and
`MeasuredElsewhere`.

## 3. Runs

Passing runs; each of their properties fails in a variant of the model with a
plausible bug in one definition (`PROJECT.json` "mutants", and the operators
marked "Mutant" in the modules).

| run | question | bounds, and why they suffice |
|---|---|---|
| `manager` | Do injections nest and undo exactly, do channels point at live ports, does `#state` mean what it says, is a disabled or disposed plugin clean, does every operation settle and disposal restore? | All request kinds; three sections (with URL and intervals, without either, disabled); at most three pending operations: one runs, one it may queue itself, one that arrives. One body awaited at a time: it may come before, between or after anything, disposal included, and others after it. Two ports let a restart leak one and open another; when both are taken `ListenFails`. |
| `rules` | Do user rules win, is the sorted IPv4 scan complete, does compaction keep every listed host? | 4-bit addresses, two 2-bit groups: every address and prefix; rows that nest, touch and repeat; up to two user lines and one of the subscription, of eleven that match, miss or do not compile. |
| `connect_through` | Does every face carry a stream each way? Does the relay start after the handshake, is no wakeup missed, do nonces stay in step and fresh, are announced ends complete, does a socket's end reach the client, is a client that speaks answered, is no connector left over? | Every node type. Raw: three handshake reads (a write and a read, a write and two reads), four handshake bytes and three of payload, chunks of 1 to 3: every cut inside a read, between reads and into the relay. Framed: five kinds, ss and trojan over tcp, vless over ws, vmess over both; chunks of 2 bytes and writes of 1 to 3; a counter of 2 nonces, so that it runs out; two bytes down in one chunk or two, cut by frames anywhere; one ping or empty frame at any place. Native: up to three bytes up and two down in any portions, so that each pipe holds some while others are on their way, when the server ends, its connection breaks or the child dies. |
| `proxy_server` | Which faces outlive their clients, what does a tunnel carry, in which order is the client told? | Two interchangeable connections, three payload chunks: one with the request, one during the dial, one in the relay. |
| `node_selection` | Which node answers, is it the one that is shown, and does the choice persist? | Two supported nodes and one that is not, four subscriptions (among them an empty one and one without supported nodes), two delays, two saves under way. |
| `browser_page` | Does the page come to show the manager's state for good, do the buttons of a test come back, and is each worker busy with one test of its own until then? | Two polls at once: an older one that overtakes a newer one. Two nodes, of which an update may remove one; one worker, so that one node waits in the queue while the other is tested; `WorkersBusy` (section 4) is about any number of nodes and workers. |

Runs that end in a violation state what a comment or document says:

| run | violated statement |
|---|---|
| `manager_disable` | README.md:76, disabling restores environment and dispatcher: a restart queued before the plugin is disabled awaits its own stop for ever |
| `manager_listens` | index.js:34, no proxy listens when disabled: a restart replaces the server without stopping it |
| `rules_cidr6` | rules.js:91, an address inside a CN block: only the block's base address is found |
| `socket_buffer_lost` | transports.js:25-27, leftovers are never lost: `readAny()` after "close" drops what is buffered |
| `uniform_end` | transports.js:22-24, a uniform face, so that the proxy server need not care which protocol a node speaks: when the upstream closes, a native node's face does not end its read until the client leaves |
| `proxy_server_body` | proxy-server.js:8, absolute-form POST: the body is emitted to no listener |

Met while modelling, where no document says otherwise: a failed restart keeps the
timers of the core before it; `",no-resolve"` makes a rule line fail to compile;
`GEOIP` is named in a comment (rules.js:122) but not compiled; `fallback` groups
answer as `select` groups do; an update restarts a core the user has switched off
at runtime; a vmess connection's 65 537th chunk throws inside a "data" listener,
where nothing catches it (`phase = "crashed"` in `Framing`); a handshake that
throws leaves its socket open; a connector that cannot be spawned, or that dies
with writes waiting, emits an "error" that nothing listens to (`host = "crashed"`
in `NativeConnector`); the page calls a node current that does not carry the
traffic in the two cases `CurrentAnswers` excepts.

A runtime-enabled request that waits for its body when the plugin is disposed goes
on afterwards: manager.js:481-482 asks nobody whether the plugin is still there. If
the body says "on" it queues a restart behind the stop of the disposal, and with
`autoUpdateHours` 0 and a group that is not url-test nothing stands in that restart's
way: environment and `fetch` stay injected, and no later operation undoes it.
README.md:76 promises that uninstalling restores both. `DisposedIsClean` and
`DisposeRestores` except exactly this case, which `revived` marks, and hold in all
others; without the exception TLC answers with that behaviour.

The comment at
proxy-server.js:79 says that `stop()` destroys every in-flight connection; the code
closes the listening socket only, and `Stop` in `ProxyServer` does as the code
does.

### Fairness

- `ClashManager`: weak fairness of the running operation's next segment, `Op`.
  Promise jobs always run, the fetch is aborted after 30 s, file operations and
  `listen()` complete. Nothing is assumed of users, timers or disposal.
- `ConnectThrough`, `Scheduling`: what event loops and goroutines do whenever they
  can. The raw face's task runs; a client that goes on reading drains; a socket
  that failed or was destroyed reports "close", as Node does; the framed face's
  reader runs; Node reports a child's start, exit and output and fires the kill
  timer; the connector's copies run and `main` returns after them. Not assumed: that
  an upstream sends, ends or stays, that the connector's dial ends, that anybody
  closes.
- `ConnectThrough`, `Peers`: only for `Answered`, which is about a client that
  speaks first to a target that answers. The client writes, the server reads and
  sends, the target answers. `SocketsEnd`, `Relayed` and `Reaped` hold without it.
- `BrowserPage`: the interval, the server and the network go on, and a test's
  timer fires. No dial needs to end and nobody needs to click; requests and
  responses may fail any number of times. `Converges` is conditional on the manager
  coming to rest and on polls that fail no more.

Deadlock is not checked where the modelled thing really ends (a drained queue of
a disposed plugin, finished connections, a relay that is over). It is checked in
`NodeSelection` and `BrowserPage`.

## 4. Proofs

### ClashManager

`ClashManagerProofs` proves, for all sets of ports, URLs, sections and request
kinds and any bounds on the queue and on the bodies awaited, under the named assumptions of `ClashManager`
(`ConfigsAssumption`, `RequestsAssumption`, `BoundAssumption`,
`DistinctAssumption`: the null and marker values are not ports, URLs or sections):

| theorem | statement |
|---|---|
| `Invariance` | `Spec => []IInv` |
| `TypeCorrect` | `Spec => []TypeOK` |
| `SnapshotsCorrect` | an undo is armed exactly while something is injected, and would restore what the plugin found |
| `ChannelsCorrect` | environment and `fetch` point at the live server, outside the catch window |
| `SettledCorrect` | `#state` means what it says between operations |
| `DisabledCorrect`, `DisposedCorrect` | a drained queue of a disabled or disposed plugin leaves nothing behind, unless a runtime-enabled body that came after disposal was the last thing it heard and said "on" |
| `Implements` | `Spec => Scoped!Spec` |

None of the safety properties is inductive: each says what holds when an
operation is over, and a step starts in the middle of one. `IInv` adds what holds
at each await (`AtAwaits`: for instance at "wiring" the environment already names
the port that listens, while `fetch` is still native), which operation can be at
which await (`QueueShape`), and which stop is still to come (`StopComes`: a plugin
disabled by the user is clean or has a stop before it that no later operation
undoes; `LastIsStop`: after disposal the last operation is a stop, unless a late
body revived the plugin, and a late body that says "off" queues one again). The
proof that a step preserves `IInv` takes the conjuncts one by one and, in each,
the actions one by one. `Implements` maps every action to an abstract one or to a
stutter: `ListenAndInject` to `Inject`, `Wire` to `Wrap`, the first halves of
stop, catch and core to `Unwrap` (the catch block also closes its port), the
second halves to `Restore`.

### SocketBuffer (in `ConnectThroughProofs`)

For any sequence of handshake reads, any chunk sizes and any number of bytes
(`HandshakeAssumption`, `ChunkAssumption`, `BoundAssumption`):

| theorem | statement |
|---|---|
| `BufferTypeCorrect` | `Spec => []TypeOK` |
| `BufferInOrder` | what the reads took, followed by what is buffered, is the stream |
| `BufferNoMissedWakeup` | no read waits for bytes that are there, or on a closed socket |
| `BufferCarriesStream` | `Spec => Reads!Spec`: for its readers the buffer is the stream itself |
| `RelayStarts` | `Spec => []RelayStartsAfterHandshake`: the client is written what follows the handshake, from its first byte |
| `RelayCarriesStream` | `Spec => Relay!Spec`: what follows the handshake is a stream for the client |

`TypeOK /\ InOrder /\ NoMissedWakeup` is inductive. `CutInTwo` (in `StreamLemmas`) and
`StreamGrows` are the facts about sequences behind the two ways a byte moves;
`Serving`, `Leaving` and `Staying` say what the three kinds of step keep: one that
resolves a read, one that lets the task go, one that leaves it where it is. For
`BufferCarriesStream` the invariant, before and after a step, makes what was taken a
prefix of the stream; `CountsGrow` adds that the counts never go back and that
nothing is taken past the end, and `StreamStep` turns the two into a step of
`ByteStream`. The relay needs to know where it is: `RelayPlace` says that at step `k`
of the handshake the reads have taken the bytes of the steps before
(`HandshakeBytes`, a recursive function over an arbitrary handshake, which
`BytesOfHandshake` shows to be what its recursion says), and that what was written
follows them.

### Framing

`FramingProofs`, for any set of kinds of node, any chunk size, nonce limit and number
of bytes, pings and empty frames (`KindsAssumption`, `CapAssumption`,
`BoundsAssumption`):

| theorem | statement |
|---|---|
| `FramingTyping` | `Spec => []TypeOK` |
| `NoncesNeverRepeat` | no nonce seals two chunks |
| `UpstreamInOrder`, `UpstreamInStep` | the server gets the client's bytes in order, and opens all that is on its way |
| `DownstreamInOrder` | the client gets the server's bytes in order, and the reads fail for the stream's end or a spent counter alone |
| `AnnouncedEndsComplete` | an announced end comes after all that was sent |
| `FramingCarriesUpward`, `FramingCarriesDownward` | `Spec => Upward!Spec`, `Spec => Downward!Spec` |

`CountInv` says which nonces were used, the first `outCount` in order, and that
vmess's count stops at its limit; `PartsCount` says that a write uses the next ones.

Upwards, `UpInv` says that what the server has opened followed by what is on its way
is what the client wrote (`UpWhole`), and that the nonces on their way run from the
server's count to the writer's (`UpCounts`). Both flatten a sequence of messages:
`FlattenConcat`, `FlatMapConcat` and `FlatMapFront` say what appending to such a
sequence and taking its head do, and `PartsCarry` what the parts of a write carry.

Downwards, `DownInv` has three parts: types, what has been seen (`DownSeen`), and what
is still to come while the face is open (`DownComes`). What comes is in three places:
`Source`, of which reads take; `FrameIn`, whole frames in the socket (`Framed`), of
which `PullFrame` takes one and passes on its content; `reply`, which the server has
not sent. `Coming` says that the three together, less framing, are the units of the
response header still to read and then, for a sealed node, the rest of the chunk
whose size has been read, further chunks (`Chunks`) whose bytes and nonces go on where
the ones before ended, up to what the server has said, and vmess's empty chunk if it
has said all; for one that does not seal, the bytes. Neither `DownInOrder` nor any part of this alone
is inductive: a frame may cut a chunk, the header and the first chunk may share one,
and which end is complete depends on what is in the frames before it. There is a
lemma for each of the ways the three places change (`ComingReply`,
`ComingSent`, `ComingPing`, `ComingEnds`, `ComingFrame`, and a read of each kind).

### NativeConnector (in `ConnectThroughProofs`)

For any number of bytes each way (`MaxUp`, `MaxDown` in
`Nat`), of the instance that `ConnectThrough` has of it:

| theorem | statement |
|---|---|
| `NativeInvariance` | `Spec => []NativeInv`, of which `TypeOK` is a part |
| `NativeComplete` | a connector that came to its end by itself has passed on all its server said, except what a broken connection kept from it |
| `NativeCarriesUpward` | `Spec => Upward!Spec`: the target gets the stream the face was given |
| `NativeCarriesDownward` | `Spec => Downward!Spec`: the face yields the stream the target said |

That what came out is in order is not inductive, since it comes out of pipes. `NativeUpInv`
says that what the target got followed by what is in stdin is the stream; `NativeDownInv`
that what the face yielded, then stdout, then what the child has not read, less the
response header if it is still on its way (`Front`), is the stream. Both hold only
while no pipe has been cut: until the server ends or the child dies upwards, until
the face is destroyed downwards; afterwards what is left is that the prefix already
out stays one. `NativeEndInv` relates the ends of the two processes, which `NativeComplete`
needs: a copy that is over with the face undestroyed has read all its server said,
or its connection broke.

### ConnectThrough

`ConnectThroughProofs` carries these to the composition, for any handshake and
framing (`FramingAssumption` and the assumptions of `SocketBuffer`):

| theorem | statement |
|---|---|
| `ConnectStreams` | `ConnectSpec => FacesCarryStreams`: all six refinements of `ByteStream` |
| `ConnectTyping` | `ConnectSpec => []ConnectTypeOK` |
| `ConnectReads`, `ConnectRelays` | `InOrder`, `NoMissedWakeup` and `RelayStartsAfterHandshake` of the raw face |
| `ConnectNonces`, `ConnectUpInOrder`, `ConnectUpInStep`, `ConnectDownInOrder` | the properties of the framed faces |
| `ConnectEndsComplete` | `EndsComplete`, of the framed faces and the native one |

A step of the composition is a step of one face and a stutter of the others, so the
composition is a behaviour of each of the three modules (`RunsRaw`, `RunsFramed`,
`RunsNative`); `SameFraming` says that the instance `FramingProofs` is about is the
composition's.

### RuleEngine

`RuleEngineProofs`, for any CN table, upstream list, rule lines and targets, any width
of an IPv4 address and any number and width of the groups of an IPv6 one
(`WidthsAssumption`; `Table4Assumption`: the table is sorted and each row starts where
its block does; `NamesAssumption`, `LinesAssumption`, `TargetsAssumption`: names are
sequences of labels, addresses and prefixes are in range):

| theorem | statement |
|---|---|
| `UserRulesWin` | `Spec => []ExtraRulesWin` |
| `Cn4ScanComplete` | `Spec => []Cn4Complete` |
| `ListedAreDirect` | `Spec => []ListedHostsDirect` |

`RuleInv` is that a verdict is the `Decision` of the rules there are, so the rest is
about operators. `MaskIsBlock`: two addresses agree under a mask exactly if division
puts them into one block, the prefix 0 included. `BitsAreBlock` says the same of the
comparison of two IPv6 addresses bit by bit: by `BitIs` each bit that the code picks
out of a group is the last binary digit of a quotient of the address's number
(`FirstGroups` finds the group, `DivideTwice` the bit in it), and by `OneBitMore` two
quotients by a smaller block are equal exactly if the quotients by the block twice as
large are and this digit is. `ScanFinds`: a row that contains an
address starts no later than it, because rows start where their blocks do, so the
early exit comes after it. `SuffixStays`: of the suffixes that a listed name is under
the shortest is not dropped; `WalkFinds`: the walk over a host's dots reaches it.

### NodeSelection and ProxyServer

`NodeSelectionProofs`, for any nodes, subscriptions, delays and number of saves, proves
`Typing`, `Answers` (`AnswersWithNode`), `AnswersFast` (`FastestAnswers`),
`CurrentIsAnswering` (`CurrentAnswers`) and `ChoicePersisted` (`ChoicePersists`). The
second to fourth are about the functions that pick a node: `LeastNat` gives the least
latency a witness. `ChoicePersists` speaks of times when nothing is being saved, so
`ChoiceInv` adds what holds meanwhile: at most one save, it is of the last choice, it
finds the file empty once it has opened it, no load runs with it, and what a load has
read is still on disk.

`ProxyServerProofs`, for any set of connections and any bounds (`BoundsAssumption`),
proves `Typing`, `FacesFollow` (`FacesFollowClients`: a face outlives its client only
if the client left during the dial or sent an absolute-form request), `TunnelsCarry`
(`TunnelCarries`) and `ToldFirst` (`ToldBeforeData`). `Follows` adds in which phases a
face exists; `CarryHere` says, phase by phase, where the chunks are that a tunnel owes
its server: with the request, held, or written; `ToldHere` what a client in each phase
has been told. `OneConnection` reduces a step to the entries of the connection it is
about.

### BrowserPage

`BrowserPageProofs`, for any names, subscriptions, delays, number of polls at once and
`Concurrency` (`PageNamesAssumption`: a subscription names no node twice, as the keys
of a map do not; `ConcurrencyAssumption`: at least one worker), of any number of
requests lost, timed out and answered out of order:

| theorem | statement |
|---|---|
| `PageTyping` | `Spec => []TypeOK`, which bounds the count of a test of all by its total |
| `WorkersBusy` | `Spec => []OneTestPerWorker` |

`OneTestPerWorker` is not inductive: whether the workers are all busy depends on what
they find in the queue. `PoolInv` counts: what is under way and what is queued are
together what is still to come, as many are under way as there are workers if the
queue has any left, and no name is in both or twice (`Apart`: a node is not tested
and answered at once, and not answered twice). That no name is twice goes back to the
list the buttons were pressed on, so `ListsInv` says it of the page's list and of
every list on its way (`ProxiesOnce`), and `FirstNames` and `HeadLeaves` of the parts
the workers cut from it. `TestedKeeps` is the step the argument turns on: one test
less, and one more if the queue has it; `OneAsked` and `AllAsked` are the two buttons.

### StreamLemmas

Cutting and extending streams, and two facts in terms of sets: `LeastNat`, a set of
numbers that is not empty has a least one, and `SetInduction`, a set with 0 and the
successor of each of its members has every number. The library's own induction
takes an operator as a parameter, which the provers here do not instantiate; with the
set of the numbers a fact holds of in its place, recursive functions
(`HandshakeBytes`, `BlockSize`) and `FlattenSeq` can be reasoned about.

### Only model-checked, and why

- Every liveness property (`OperationsSettle`, `DisposeRestores`,
  `RestoresDangling`, `SocketsEnd`, `Relayed`, `Reaped`, `Answered`, `TestsEnd`,
  `Converges`): the prover has no rule for fairness of these steps.

Every invariant and every other action property of the passing runs is a theorem.

## 5. Not modelled, and why

- TLS, REALITY, QUIC, the ciphers, key derivations and address encodings, masking and
  length encoding of WebSocket frames: data transformations inside one connection.
- Vision (`visionConn` in `native/vless.go`). Its padding is such a transformation, but
  its two directions are not independent: `Write` sets `c.Conn = c.rawConn`
  (vless.go:315) while the other goroutine's `Read` uses `c.Conn` (223, 230), with
  nothing between them. What `NativeConnector` shows is about a connection without
  Vision; with it, this data race would have to be shown harmless first.
- The NO_PROXY matcher of `inject.js`, YAML and share-link parsing,
  `sanitizeGroups`: parsing of data that no modelled property tells apart. What a
  subscription's own groups do is in `RuleEngine` and `NodeSelection` as far as
  `decide()` and `#resolveNode` read them; one that calls a group of its own AUTO is
  not.
- Another wrapper over `globalThis.fetch` installed between the plugin's wrap and
  its undo: no code in `src/` does that.
- The worker pool of the server's `testAllLatencies` (the "delay-all" request): the
  page has a pool of its own, which is modelled, and never asks for it.
- On the page: the lifecycle buttons (the requests they send are the environment of
  `ClashManager`), `select`'s round trip (the server's half is `NodeSelection`), the
  `actionBusy` and error display, traffic rates, a second mount of the section;
  layout and texts. Other pages that are open at the same time appear through what
  they do to the manager.
- Downloads of the CN data builder, byte counters, logs and error texts.
