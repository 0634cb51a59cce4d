---------------------------- MODULE ClashManager ----------------------------
(***************************************************************************)
(* The lifecycle of the plugin's orchestrator, lib/core/manager.js: one    *)
(* promise queue of start, stop, restart and updateSubscription, each of   *)
(* them a sequence of segments between awaits, against the browser API,    *)
(* the settings page, the auto-update timer and the disposal of the        *)
(* plugin, which may act between any two segments.                         *)
(*                                                                         *)
(* What an operation acquires is the subject of the module: a listening    *)
(* loopback port, the proxy variables of process.env, the wrapped          *)
(* globalThis.fetch, and two interval timers.                              *)
(*                                                                         *)
(* Abstracted: #error, #engine and #port (shown by status() or computed    *)
(* from what is kept here), node selection (#loadState), and the contents  *)
(* of a subscription, which is named by the URL it came from.  A config    *)
(* keeps the fields that decide control: enabled, the URL in force (None   *)
(* when the section and $CLASH_SUBSCRIPTION_URL are both empty), whether   *)
(* autoUpdateHours > 0, and whether groupType is "url-test".               *)
(***************************************************************************)
EXTENDS Naturals, Sequences, FiniteSets

CONSTANTS
    Ports,      \* the loopback ports (or descriptors) the kernel can hand out
    Urls,       \* the subscription URLs a user may configure
    Configs,    \* the settings sections a user may save
    Requests,   \* the kinds of request the environment makes
    MaxQueue,   \* bound: no request arrives while this many are pending
    MaxBodies,  \* bound: as many bodies of runtime-enabled are awaited at once
    None,       \* JavaScript's null
    Unbound,    \* a ProxyServer that has been created and does not listen yet
    Ambient,    \* the proxy variables as the plugin found them
    Native,     \* globalThis.fetch as the plugin found it
    Garbage     \* bytes that parseSubscription rejects

Section == [enabled : BOOLEAN, url : Urls \cup {None}, auto : BOOLEAN, urlTest : BOOLEAN]

RequestKinds == {"restart", "update", "runtime", "settings", "timer", "dispose"}

ASSUME ConfigsAssumption == Configs # {} /\ Configs \subseteq Section
ASSUME RequestsAssumption == Requests \subseteq RequestKinds
ASSUME BoundAssumption == MaxQueue \in Nat \ {0} /\ MaxBodies \in Nat
ASSUME DistinctAssumption ==
    /\ None \notin Ports \cup Urls \cup Configs
    /\ Unbound \notin Ports \cup {None}
    /\ Ambient \notin Ports \cup {None}
    /\ Native \notin Ports \cup {None}
    /\ Garbage \notin Urls \cup {None}

VARIABLES
    config,         \* the live settings section, what #resolveConfig() returns
    applied,        \* #applied: the section the last reconcile() acted on
    runtimeOff,     \* #runtimeOff: the browser's on/off switch
    disposed,       \* the plugin's fiber has been disposed
    bodies,         \* how many runtime-enabled requests are in readBody()
    revived,        \* history: the last body read after disposal says "on"
    queue,          \* #task: the pending operations, the running one first
    pc,             \* the await the running operation is at
    section,        \* the section the running operation captured
    forced,         \* the running operation is in #loadSubscription(section, true)
    state,          \* #state
    subscription,   \* #subscription: the URL whose body is parsed, or None
    cache,          \* the file subscription.yaml, which outlives the process
    server,         \* #server
    listening,      \* every port this process listens on
    env,            \* the proxy variables of process.env
    undoEnv,        \* the snapshot #undoEnv restores, or None
    fetch,          \* what globalThis.fetch goes through
    undoDispatcher, \* the original #undoDispatcher restores, or None
    autoTimer,      \* the auto-update interval is live
    latencyTimer    \* the latency-test interval is live

world    == <<config, applied, runtimeOff, disposed, bodies, revived>>
channels == <<env, undoEnv, fetch, undoDispatcher>>
sockets  == <<server, listening>>
timers   == <<autoTimer, latencyTimer>>
store    == <<subscription, cache>>
running  == <<section, forced>>
vars     == <<world, queue, pc, running, state, store, sockets, channels, timers>>

States == {"stopped", "disabled", "starting", "running", "failed", "no-subscription"}
\* "inner stop" is the stop() that a queued restart() awaits.
Operations == {"start", "stop", "restart", "update", "inner stop"}
Awaits == {"idle", "restoring", "loading", "loaded", "listening", "wiring",
           "catching", "stopping", "done"}

\* Type correctness.
FlagsOK ==
    /\ runtimeOff \in BOOLEAN /\ disposed \in BOOLEAN /\ revived \in BOOLEAN
    /\ forced \in BOOLEAN
    /\ autoTimer \in BOOLEAN /\ latencyTimer \in BOOLEAN

ValuesOK ==
    /\ config \in Configs
    /\ applied \in Configs \cup {None}
    /\ pc \in Awaits
    /\ section \in Configs \cup {None}
    /\ state \in States
    /\ subscription \in Urls \cup {None}
    /\ cache \in Urls \cup {None, Garbage}
    /\ server \in Ports \cup {None, Unbound}
    /\ listening \subseteq Ports
    /\ env \in Ports \cup {Ambient}
    /\ undoEnv \in Ports \cup {Ambient, None}
    /\ fetch \in Ports \cup {Native}
    /\ undoDispatcher \in Ports \cup {Native, None}

QueueOK == queue \in Seq(Operations)

BodiesOK == bodies \in 0 .. MaxBodies

TypeOK == FlagsOK /\ ValuesOK /\ QueueOK /\ BodiesOK

\* apply(): the manager is new, whatever an earlier process left in the cache
\* file is there, and start() is queued.
Init ==
    /\ config \in Configs
    /\ applied = None
    /\ runtimeOff = FALSE /\ disposed = FALSE
    /\ bodies = 0 /\ revived = FALSE
    /\ queue = <<"start">>
    /\ pc = "idle"
    /\ section = None /\ forced = FALSE
    /\ state = "stopped"
    /\ subscription = None
    /\ cache \in Urls \cup {None, Garbage}
    /\ server = None /\ listening = {}
    /\ env = Ambient /\ undoEnv = None
    /\ fetch = Native /\ undoDispatcher = None
    /\ autoTimer = FALSE /\ latencyTimer = FALSE

-----------------------------------------------------------------------------
(* Pieces the operations share.                                            *)

Running(ops) == pc = "idle" /\ queue # <<>> /\ Head(queue) \in ops

\* await this.#undoDispatcher?.(); this.#undoDispatcher = null  (nobody reads
\* the field between the two, so they are one step)
UndoDispatcher ==
    /\ fetch' = IF undoDispatcher = None THEN fetch ELSE undoDispatcher
    /\ undoDispatcher' = None

\* Mutant: the undo of an environment that was never injected.
UndoEnvUnchecked == env' = undoEnv /\ undoEnv' = None

\* this.#undoEnv?.(); this.#undoEnv = null
UndoEnv ==
    /\ env' = IF undoEnv = None THEN env ELSE undoEnv
    /\ undoEnv' = None

\* this.#server?.stop(); this.#server = null
CloseServer ==
    /\ listening' = listening \ {server}
    /\ server' = None

\* Mutant: #startCore does not leave updateSubscription's forced load behind.
BeginCoreStillForced(sec) ==
    /\ section' = sec /\ forced' = forced
    /\ state' = "starting"
    /\ UndoDispatcher
    /\ pc' = "restoring"
    /\ UNCHANGED <<env, undoEnv>>

\* The first segment of #startCore(sec).  It neither stops nor forgets #server.
BeginCore(sec) ==
    /\ section' = sec /\ forced' = FALSE
    /\ state' = "starting"
    /\ UndoDispatcher
    /\ pc' = "restoring"
    /\ UNCHANGED <<env, undoEnv>>

\* The first segment of #startCore's catch block.
Catch ==
    /\ state' = "failed"
    /\ CloseServer
    /\ UndoDispatcher
    /\ pc' = "catching"

\* A throw inside #loadSubscription: updateSubscription() rejects at once when
\* the load is its own, #startCore catches it when the load is the core's.
LoadThrows ==
    \/ /\ forced
       /\ pc' = "done"
       /\ UNCHANGED <<state, sockets, fetch, undoDispatcher>>
    \/ ~forced /\ Catch

-----------------------------------------------------------------------------
(* start(), restart(), updateSubscription(): the first segment.            *)

StartRefused ==
    /\ Running({"start"})
    /\ server # None \/ ~config.enabled \/ runtimeOff
    /\ state' = IF ~config.enabled \/ runtimeOff THEN "disabled" ELSE state
    /\ pc' = "done"
    /\ UNCHANGED <<world, queue, running, store, sockets, channels, timers>>

Start ==
    /\ Running({"start"})
    /\ server = None /\ config.enabled /\ ~runtimeOff
    /\ BeginCore(config)
    /\ UNCHANGED <<world, queue, store, sockets, timers>>

Restart ==
    /\ Running({"restart"})
    /\ config.enabled /\ ~runtimeOff
    /\ BeginCore(config)
    /\ UNCHANGED <<world, queue, store, sockets, timers>>

\* await this.stop() inside a queued operation: the stop goes to the back of
\* the queue this operation is at the front of.
RestartToStop ==
    /\ Running({"restart"})
    /\ ~config.enabled \/ runtimeOff
    /\ queue' = Append(queue, "inner stop")
    /\ pc' = "done"
    /\ UNCHANGED <<world, running, state, store, sockets, channels, timers>>

UpdateRefused ==
    /\ Running({"update"})
    /\ ~config.enabled
    /\ pc' = "done"
    /\ UNCHANGED <<world, queue, running, state, store, sockets, channels, timers>>

\* Mutant: updateSubscription() without its check of the master switch.
UpdateUnchecked ==
    /\ Running({"update"})
    /\ section' = config /\ forced' = TRUE
    /\ pc' = "loading"
    /\ UNCHANGED <<world, queue, state, store, sockets, channels, timers>>

Update ==
    /\ Running({"update"})
    /\ config.enabled
    /\ section' = config /\ forced' = TRUE
    /\ pc' = "loading"
    /\ UNCHANGED <<world, queue, state, store, sockets, channels, timers>>

\* An operation settles when its own code is over and every promise it awaits
\* has settled: a stop it has queued itself is such a promise.
SelfBlocked == pc = "done" /\ \E i \in DOMAIN queue : queue[i] = "inner stop"

FinishOp ==
    /\ pc = "done" /\ ~SelfBlocked
    /\ queue' = Tail(queue)
    /\ section' = None /\ forced' = FALSE
    /\ pc' = "idle"
    /\ UNCHANGED <<world, state, store, sockets, channels, timers>>

-----------------------------------------------------------------------------
(* #loadSubscription(section, force)                                       *)

MustLoad == pc = "loading" /\ (forced \/ subscription = None)

KeepSubscription ==
    /\ pc = "loading" /\ ~MustLoad
    /\ pc' = "loaded"
    /\ UNCHANGED <<world, queue, running, state, store, sockets, channels, timers>>

LoadFromUrl ==
    /\ MustLoad /\ section.url # None
    /\ subscription' = section.url /\ cache' = section.url
    /\ pc' = "loaded"
    /\ UNCHANGED <<world, queue, running, state, sockets, channels, timers>>

\* The fetch fails or times out (the cache is as it was), a write fails (it is
\* as it was, empty, cut short, or complete when only the meta file failed), or
\* the body does not parse (it has overwritten the cache all the same).
LoadFromUrlFails ==
    /\ MustLoad /\ section.url # None
    /\ cache' \in {cache, None, Garbage, section.url}
    /\ LoadThrows
    /\ UNCHANGED <<world, queue, running, subscription, env, undoEnv, timers>>

LoadFromCache ==
    /\ MustLoad /\ section.url = None
    /\ cache \in Urls
    /\ subscription' = cache
    /\ pc' = "loaded"
    /\ UNCHANGED <<world, queue, running, state, cache, sockets, channels, timers>>

\* The cache file is absent, blank or cannot be read.
NoCachedCopy ==
    /\ MustLoad /\ section.url = None
    /\ subscription' = None
    /\ state' = "no-subscription"
    /\ pc' = "loaded"
    /\ UNCHANGED <<world, queue, running, cache, sockets, channels, timers>>

CachedCopyUnparsable ==
    /\ MustLoad /\ section.url = None
    /\ cache = Garbage
    /\ LoadThrows
    /\ UNCHANGED <<world, queue, running, store, env, undoEnv, timers>>

-----------------------------------------------------------------------------
(* #startCore(section), segment by segment.                                *)

\* Mutant: #startCore injects on top of the injection of the core before it.
RestoreForgotten ==
    /\ pc = "restoring"
    /\ pc' = "loading"
    /\ UNCHANGED <<world, queue, running, state, store, sockets, channels, timers>>

RestoreEnvironment ==
    /\ pc = "restoring"
    /\ UndoEnv
    /\ pc' = "loading"
    /\ UNCHANGED <<world, queue, running, state, store, sockets, fetch, undoDispatcher, timers>>

\* updateSubscription() goes on to #startCore with what it has just loaded.
UpdateToCore ==
    /\ pc = "loaded" /\ forced
    /\ BeginCore(section)
    /\ UNCHANGED <<world, queue, store, sockets, timers>>

NoSubscription ==
    /\ pc = "loaded" /\ ~forced
    /\ subscription = None
    /\ state' = "no-subscription"
    /\ pc' = "done"
    /\ UNCHANGED <<world, queue, running, store, sockets, channels, timers>>

\* new ProxyServer(...) replaces #server, whatever it was.
CreateServer ==
    /\ pc = "loaded" /\ ~forced
    /\ subscription # None
    /\ server' = Unbound
    /\ pc' = "listening"
    /\ UNCHANGED <<world, queue, running, state, store, listening, channels, timers>>

\* server.start(0) resolves and injectEnvironment(port) runs in one segment.
ListenAndInject ==
    /\ pc = "listening"
    /\ \E p \in Ports \ listening :
          /\ server' = p /\ listening' = listening \cup {p}
          /\ env' = p
    /\ undoEnv' = env
    /\ pc' = "wiring"
    /\ UNCHANGED <<world, queue, running, state, store, fetch, undoDispatcher, timers>>

ListenFails ==
    /\ pc = "listening"
    /\ Catch
    /\ UNCHANGED <<world, queue, running, store, env, undoEnv, timers>>

\* wrapFetch() aims at the port it finds in the environment; then the state
\* and the two timers, which a disposed context does not keep.
Wire ==
    /\ pc = "wiring"
    /\ fetch' = env /\ undoDispatcher' = fetch
    /\ state' = "running"
    /\ autoTimer' = (section.auto /\ ~disposed)
    /\ latencyTimer' = (section.urlTest /\ ~disposed)
    /\ pc' = "done"
    /\ UNCHANGED <<world, queue, running, store, sockets, env, undoEnv>>

\* Mutant: the dispatcher of the failing segment is not undone.
WireFailsWrapped ==
    /\ pc = "wiring"
    /\ disposed /\ (section.auto \/ section.urlTest)
    /\ state' = "failed" /\ CloseServer
    /\ fetch' = env /\ undoDispatcher' = fetch
    /\ pc' = "catching"
    /\ autoTimer' = FALSE /\ latencyTimer' = FALSE
    /\ UNCHANGED <<world, queue, running, store, env, undoEnv>>

\* ctx.setInterval refuses a disposed context: the dispatcher installed in this
\* segment is undone in it, the environment after the next await.
WireFails ==
    /\ pc = "wiring"
    /\ disposed /\ (section.auto \/ section.urlTest)
    /\ Catch
    /\ autoTimer' = FALSE /\ latencyTimer' = FALSE
    /\ UNCHANGED <<world, queue, running, store, env, undoEnv>>

\* The rest of the catch block.
CatchRestores ==
    /\ pc = "catching"
    /\ UndoEnv
    /\ pc' = "done"
    /\ UNCHANGED <<world, queue, running, state, store, sockets, fetch, undoDispatcher, timers>>

-----------------------------------------------------------------------------
(* stop()                                                                  *)

\* Mutant: stop() leaves the auto-update interval running.
BeginStopKeepsTimer ==
    /\ Running({"stop", "inner stop"})
    /\ latencyTimer' = FALSE
    /\ UndoDispatcher
    /\ pc' = "stopping"
    /\ UNCHANGED <<world, queue, running, state, store, sockets, env, undoEnv, autoTimer>>

BeginStop ==
    /\ Running({"stop", "inner stop"})
    /\ autoTimer' = FALSE /\ latencyTimer' = FALSE
    /\ UndoDispatcher
    /\ pc' = "stopping"
    /\ UNCHANGED <<world, queue, running, state, store, sockets, env, undoEnv>>

\* Mutant: stop() closes the server and leaves the environment to point at it.
EndStopInjected ==
    /\ pc = "stopping"
    /\ CloseServer
    /\ state' = IF state \in {"disabled", "no-subscription"} THEN state ELSE "stopped"
    /\ pc' = "done"
    /\ UNCHANGED <<world, queue, running, store, channels, timers>>

EndStop ==
    /\ pc = "stopping"
    /\ UndoEnv
    /\ CloseServer
    /\ state' = IF state \in {"disabled", "no-subscription"} THEN state ELSE "stopped"
    /\ pc' = "done"
    /\ UNCHANGED <<world, queue, running, store, fetch, undoDispatcher, timers>>

-----------------------------------------------------------------------------
(* The environment: browser, settings page, timer, plugin host.            *)

Arrives(kind) == kind \in Requests /\ ~disposed /\ Len(queue) < MaxQueue

Enqueue(op) ==
    /\ queue' = Append(queue, op)
    /\ UNCHANGED <<pc, running, state, store, sockets, channels>>

ApiRestart ==
    /\ Arrives("restart")
    /\ Enqueue("restart")
    /\ UNCHANGED <<world, timers>>

ApiUpdate ==
    /\ Arrives("update")
    /\ Enqueue("update")
    /\ UNCHANGED <<world, timers>>

TimerUpdate ==
    /\ Arrives("timer") /\ autoTimer
    /\ Enqueue("update")
    /\ UNCHANGED <<world, timers>>

\* POST runtime-enabled: the handler awaits the body before it does anything.
PostRuntime ==
    /\ Arrives("runtime")
    /\ bodies < MaxBodies
    /\ bodies' = bodies + 1
    /\ UNCHANGED <<config, applied, runtimeOff, disposed, revived, queue, pc, running>>
    /\ UNCHANGED <<state, store, sockets, channels, timers>>

\* The body is too large or its connection breaks: the handler answers 500.
BodyFails ==
    /\ bodies > 0
    /\ bodies' = bodies - 1
    /\ UNCHANGED <<config, applied, runtimeOff, disposed, revived, queue, pc, running>>
    /\ UNCHANGED <<state, store, sockets, channels, timers>>

\* The body has come and setRuntimeEnabled(on) follows.  The route admitted
\* the request before the await; nobody asks again whether the plugin is there.
SetRuntimeEnabled(on) ==
    /\ bodies > 0 /\ Len(queue) < MaxQueue
    /\ bodies' = bodies - 1
    /\ runtimeOff' = ~on
    /\ revived' = (disposed /\ on)
    /\ Enqueue(IF on THEN "restart" ELSE "stop")
    /\ UNCHANGED <<config, applied, disposed, timers>>

\* The settings document changes and onChange calls reconcile(next): next is
\* compared with the section applied last.
Reconcile(next) ==
    /\ Arrives("settings")
    /\ next # applied
    /\ config' = next /\ applied' = next
    /\ Enqueue(IF next.enabled THEN "restart" ELSE "stop")
    /\ UNCHANGED <<runtimeOff, disposed, bodies, revived, timers>>

\* Mutant: stop() is queued only if a core was running when the event came.
DisposeIfRunning ==
    /\ "dispose" \in Requests /\ ~disposed
    /\ disposed' = TRUE
    /\ autoTimer' = FALSE /\ latencyTimer' = FALSE
    /\ queue' = IF server = None THEN queue ELSE Append(queue, "stop")
    /\ UNCHANGED <<pc, running, state, store, sockets, channels>>
    /\ UNCHANGED <<config, applied, runtimeOff, bodies, revived>>

\* The fiber ends: its timers are cleared, its route and its settings hook are
\* gone, and the dispose event queues a stop.  A request whose body has not
\* come yet keeps its handler.
Dispose ==
    /\ "dispose" \in Requests /\ ~disposed
    /\ disposed' = TRUE
    /\ autoTimer' = FALSE /\ latencyTimer' = FALSE
    /\ Enqueue("stop")
    /\ UNCHANGED <<config, applied, runtimeOff, bodies, revived>>

-----------------------------------------------------------------------------

Load ==
    \/ KeepSubscription \/ LoadFromUrl \/ LoadFromUrlFails
    \/ LoadFromCache \/ NoCachedCopy \/ CachedCopyUnparsable

Core ==
    \/ RestoreEnvironment \/ UpdateToCore \/ NoSubscription \/ CreateServer
    \/ ListenAndInject \/ ListenFails \/ Wire \/ WireFails \/ CatchRestores

Op ==
    \/ StartRefused \/ Start \/ Restart \/ RestartToStop \/ UpdateRefused \/ Update
    \/ Load \/ Core \/ BeginStop \/ EndStop \/ FinishOp

\* What queues an operation, and what only moves a request towards it.
Queues ==
    \/ ApiRestart \/ ApiUpdate \/ TimerUpdate \/ Dispose
    \/ \E on \in BOOLEAN : SetRuntimeEnabled(on)
    \/ \E next \in Configs : Reconcile(next)

Environment == Queues \/ PostRuntime \/ BodyFails

Next == Op \/ Environment

Spec == Init /\ [][Next]_vars

\* Every await of an operation settles: promise jobs always run, the fetch is
\* aborted after 30 s, and file operations and listen() complete.  Nothing is
\* assumed of the environment.
FairSpec == Spec /\ WF_vars(Op)

-----------------------------------------------------------------------------
(* Properties.                                                             *)

NothingInjected == env = Ambient /\ fetch = Native
Clean == NothingInjected /\ server = None /\ ~autoTimer /\ ~latencyTimer

\* inject.js promises to restore exactly what it found.  The snapshots are
\* therefore never taken of the plugin's own injection: however starts,
\* restarts and updates follow each other, what an undo would restore is the
\* environment and the fetch of before the plugin, and the undo is there
\* whenever something is injected.
SnapshotsAreOriginal ==
    /\ undoEnv = (IF env = Ambient THEN None ELSE Ambient)
    /\ undoDispatcher = (IF fetch = Native THEN None ELSE Native)

\* Child processes and DSH's own fetch are never pointed at a port nobody
\* listens on, except for the environment between the two halves of
\* #startCore's catch block; and fetch never outlives the environment.
ChannelsLive ==
    /\ fetch # Native => fetch = env
    /\ env # Ambient /\ pc # "catching" => env = server /\ server \in listening

\* The reading of each #state.
Settled ==
    /\ state # "starting"
    /\ state = "running" =>
          env = fetch /\ env = server /\ server \in listening /\ subscription # None
    /\ state # "running" => NothingInjected
    /\ state \in {"stopped", "disabled"} => Clean
    /\ state = "failed" => server = None

\* What #state promises once an operation has settled, with every operation
\* that can precede it: "running" is fully wired, "stopped" and "disabled" hold
\* nothing, "failed" and "no-subscription" have injected nothing, and no
\* operation ends in "starting".
SettledStates == pc = "idle" => Settled

\* Once the queue has drained under a section with enabled = false, nothing of
\* the plugin is left in the process: the stop that reconcile queued comes
\* after every start that was queued or running when the user disabled it.
DisabledIsClean ==
    pc = "idle" /\ queue = <<>> /\ ~config.enabled /\ applied # None => Clean

\* The same for a disposed plugin, whose core may still have been starting or
\* be restarted behind the disposal: nothing is left, unless the last thing the
\* manager heard was a runtime-enabled body that came after the disposal and
\* said "on".  That body queues a restart behind the stop of the disposal.
DisposedIsClean == queue = <<>> /\ disposed => Clean \/ revived

-----------------------------------------------------------------------------
(* The inductive invariant behind these properties: what holds at each     *)
(* await, and which stop is still to come.                                 *)

\* The environment is as found or points at the live server.
Attached == env # Ambient => env = server /\ server \in listening

AtAwaits ==
    /\ pc \in {"idle", "done"} \/ (pc = "loading" /\ forced) => Settled
    /\ pc \in {"restoring", "wiring", "catching", "stopping"} => fetch = Native
    /\ pc = "restoring" => ~forced /\ state = "starting"
    /\ pc = "loading" /\ ~forced => NothingInjected /\ state = "starting"
    /\ pc = "loaded" /\ ~forced => NothingInjected
    /\ pc = "loaded" /\ forced /\ fetch # Native => fetch = env
    /\ pc = "listening" => NothingInjected /\ server = Unbound /\ subscription # None
    /\ pc = "wiring" => env = server /\ server \in listening /\ subscription # None
    /\ pc = "catching" => state = "failed" /\ server = None
    /\ pc = "stopping" => ~autoTimer /\ ~latencyTimer
    /\ pc # "catching" => Attached

\* Which operation is at which await, and when.
QueueShape ==
    /\ pc # "idle" => 1 \in DOMAIN queue
    /\ pc \notin {"idle", "done", "stopping"} => section \in Configs
    /\ \A i \in DOMAIN queue :
          /\ queue[i] = "start" => i = 1 /\ (pc = "idle" => Clean)
          /\ queue[i] = "stop" /\ i = 1 =>
                pc \in {"idle", "stopping", "done"} /\ (pc = "done" => Clean)
          /\ queue[i] = "inner stop" => pc = "done"

StopPending ==
    \E i \in DOMAIN queue : queue[i] = "stop" /\ (i = 1 => pc = "idle")

\* A disabled plugin is clean or has a stop before it.
StopComes ==
    ~config.enabled /\ applied # None =>
        StopPending \/ pc = "stopping" \/ (Clean /\ pc \in {"idle", "done"})

\* A disposed plugin's last operation is a stop, unless it was revived.
LastIsStop ==
    disposed => \/ SelfBlocked \/ revived
                \/ Len(queue) = 0 /\ Clean
                \/ Len(queue) # 0 /\ queue[Len(queue)] = "stop"

IInv ==
    /\ TypeOK /\ SnapshotsAreOriginal /\ AtAwaits
    /\ QueueShape /\ StopComes /\ LastIsStop

\* index.js:34 says of the master switch: "When false no proxy listens and no
\* env is injected."
DisabledNoProxyListens ==
    pc = "idle" /\ queue = <<>> /\ ~config.enabled => listening = {} /\ env = Ambient

\* The manager implements the scoped injection: it opens and closes the two
\* channels in that order and onto live ports only, whatever operations follow
\* each other and wherever they fail, and a port its catch block closes under
\* the environment does not stay there.
Scoped == INSTANCE ScopedInjection

ImplementsScopedInjection == Scoped!Spec
RestoresDangling == Scoped!FairSpec

\* Every operation settles, unless it is a restart that awaits its own stop.
OperationsSettle == pc # "idle" ~> (pc = "idle" \/ SelfBlocked)

\* Disposal ends with everything undone, under the same exception and that of
\* DisposedIsClean; a body that comes last and says "off" is none.
DisposeRestores == disposed ~> (disposed /\ Clean) \/ SelfBlocked \/ revived

\* README.md:76 says: "Disabling/uninstalling restores env vars and the fetch
\* dispatcher - no leftovers".
DisablingRestores == ~config.enabled ~> (NothingInjected \/ config.enabled)

=============================================================================
