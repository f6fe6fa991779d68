------------------------------ MODULE OpenFlux ------------------------------
(***************************************************************************)
(* The OpenFlux tunnel: core/vpn/openFluxController.ts, the network guard  *)
(* openFluxNetworkGuard.ts over transport/networkReconnectWatcher.ts, and  *)
(* the callers that switch the tunnel: the settings section, the bridge of *)
(* the external agent, and the start of the application.                   *)
(*                                                                         *)
(* Callers run concurrently and wait for one another only in the queue of  *)
(* native operations.  An operation ends, its caller's continuation runs   *)
(* and the caller's next request is numbered in one step: nothing but      *)
(* promise callbacks lies between.  Not modelled: the interception of HTTP *)
(* (httpLayer), a core that dies by itself, and the reopening of the       *)
(* transport's sockets after a switch.                                     *)
(***************************************************************************)
EXTENDS Integers, Sequences

CONSTANTS
    AutoStart,      \* config openflux.autoStart
    Caller,         \* who switches the tunnel
    MaxTries,       \* config openflux.startRetries
    MaxPresses,     \* bound: buttons pressed, commands of the agent
    MaxChanges,     \* bound: changes of the network
    MaxSwitches     \* bound: changes of the active account

CallerKind == {"toggle", "retry", "guard", "agent", "boot"}

ASSUME OpenFluxAssumption ==
    /\ AutoStart \in BOOLEAN
    /\ Caller \subseteq CallerKind
    /\ MaxTries \in Nat \ {0}
    /\ MaxPresses \in Nat /\ MaxChanges \in Nat /\ MaxSwitches \in Nat

VARIABLES
    saved,          \* openflux.enabled of the cached config
    savedBy,        \* history: who wrote it last, "boot" in an earlier run
    gen,            \* lifecycleGeneration
    queue,          \* nativeQueue: operations that have not begun
    op,             \* the operation that runs
    kernel,         \* the core: for which request it was raised, on what path
    cleanup,        \* cleanupRequired
    task,           \* where each caller is
    again,          \* changedAgain of the guard
    path,           \* the network the device is on, numbered; odd is "none"
    timer,          \* a change of path is announced when things calm down
    watching,       \* watcher and guard are subscribed
    presses,        \* bounded by MaxPresses
    switches        \* bounded by MaxSwitches

native == <<gen, queue, op, kernel, cleanup>>
network == <<path, timer, watching, switches>>
settings == <<saved, savedBy>>
vars == <<settings, native, task, again, network, presses>>

Unknown == -1
Online(p) == p % 2 = 0
Down == [by |-> 0, path |-> Unknown]
NoOp == [kind |-> "none", by |-> "boot", gen |-> 0, at |-> "free", path |-> Unknown,
         asked |-> FALSE]
Idle == [pc |-> "idle", on |-> FALSE, gen |-> 0, tries |-> 0]

\* saving: saveConfigOverride; asking: getOpenFluxRunning; stopping: stopOpenFlux;
\* lowering, login, raising, pause: retryOpenFlux; reopening: the guard restarts
\* the transport.
Pc == {"idle", "saving", "asking", "stopping", "lowering", "login", "raising",
       "pause", "reopening"}
\* clean, undo, stop: mod.stop() before, after and without a start.
At == {"free", "begun", "support", "starting", "noting", "clean", "undo", "stop"}

TypeOK ==
    /\ saved \in BOOLEAN /\ cleanup \in BOOLEAN /\ again \in BOOLEAN
    /\ savedBy \in Caller \cup {"boot"}
    /\ gen \in Nat
    /\ queue \in Seq([kind : {"stop", "lower", "start"}, by : Caller, gen : Nat])
    /\ op \in [kind : {"none", "stop", "lower", "start"}, by : Caller \cup {"boot"},
               gen : Nat, at : At, path : Int, asked : BOOLEAN]
    /\ kernel \in [by : Nat, path : Int]
    /\ task \in [Caller -> [pc : Pc, on : BOOLEAN, gen : Nat, tries : Nat]]
    /\ path \in Nat
    /\ timer \in BOOLEAN /\ watching \in BOOLEAN
    /\ presses \in Nat /\ switches \in Nat

Init ==
    /\ saved \in BOOLEAN /\ savedBy = "boot"
    /\ gen = 0 /\ queue = <<>> /\ op = NoOp /\ kernel = Down /\ cleanup = FALSE
    /\ task = [c \in Caller |-> Idle] /\ again = FALSE
    /\ path = 0 /\ timer = FALSE /\ watching = TRUE
    /\ presses = 0 /\ switches = 0

-----------------------------------------------------------------------------
(* The controller's operations, as the callers' steps use them.            *)

Ask(kind, c, g) == Append(queue, [kind |-> kind, by |-> c, gen |-> g])

\* c is done with the tunnel; UNCHANGED the queue and the intent.
Done(c) ==
    /\ task' = [task EXCEPT ![c] = Idle]
    /\ UNCHANGED <<gen, queue>>

\* c waits for something outside the queue.
Wait(c, pc) ==
    /\ task' = [task EXCEPT ![c].pc = pc]
    /\ UNCHANGED <<gen, queue>>

\* Broken on purpose: a stop that does not outdate the starts before it.
StopKeepsGen(c) ==
    /\ UNCHANGED gen
    /\ queue' = Ask("stop", c, gen)
    /\ task' = [task EXCEPT ![c].pc = "stopping"]

\* stopOpenFlux
Stop(c) ==
    /\ gen' = gen + 1
    /\ queue' = Ask("stop", c, gen + 1)
    /\ task' = [task EXCEPT ![c].pc = "stopping"]

\* Broken on purpose: a running core is not lowered before it is raised anew.
RetryInPlace(c, on) ==
    IF on
      THEN /\ gen' = gen + 1
           /\ queue' = Ask("start", c, gen + 1)
           /\ task' = [task EXCEPT ![c] = [pc |-> "raising", on |-> on,
                                           gen |-> gen + 1, tries |-> MaxTries - 1]]
      ELSE Done(c)

\* retryOpenFlux with the config c holds, up to its first await.
Retry(c, on) ==
    IF on
      THEN /\ gen' = gen + 1
           /\ queue' = Ask("lower", c, gen + 1)
           /\ task' = [task EXCEPT ![c] = [pc |-> "lowering", on |-> on,
                                           gen |-> gen + 1, tries |-> MaxTries]]
      ELSE Done(c)

\* One turn of the loop of retries, and startForGeneration up to its await.
Attempt(c) ==
    IF task[c].gen = gen
      THEN /\ queue' = Ask("start", c, gen)
           /\ task' = [task EXCEPT ![c].pc = "raising", ![c].tries = @ - 1]
           /\ UNCHANGED gen
      ELSE Done(c)

\* reviveOnce, with changedAgain cleared by the loop around it.
Revive ==
    /\ again' = FALSE
    /\ IF saved /\ ~AutoStart
         THEN /\ task' = [task EXCEPT !["guard"] = [Idle EXCEPT !.pc = "asking", !.on = TRUE]]
              /\ UNCHANGED <<gen, queue>>
         ELSE Retry("guard", saved)

\* Broken on purpose: a change of path during the pass is forgotten.
GuardPassOnce == Done("guard") /\ UNCHANGED again

\* The end of a pass of the guard: the loop of reviveOpenFluxAfterNetworkChange.
GuardPassEnds ==
    IF again THEN Revive ELSE Done("guard") /\ UNCHANGED again

\* A request is answered, and c goes its way.
Leave(c) ==
    IF c = "guard" THEN GuardPassEnds ELSE Done(c) /\ UNCHANGED again

\* retryOpenFlux answered that the tunnel is up, or could not be raised.
Settle(c) ==
    IF c = "guard"
      THEN Wait(c, "reopening") /\ UNCHANGED again
      ELSE Leave(c)

\* What the caller of an operation does with its result, task by task.
Continue(c, result) ==
    LET t == task[c] IN
    CASE t.pc = "stopping" ->
            IF c = "agent" THEN Wait(c, "saving") /\ UNCHANGED again ELSE Leave(c)
      [] t.pc = "lowering" /\ (t.gen # gen) -> Leave(c)
      [] t.pc = "lowering" /\ t.gen = gen /\ result = "failed" -> Settle(c)
      [] t.pc = "lowering" /\ t.gen = gen /\ result # "failed" ->
            IF c \in {"toggle", "retry"}
              THEN Wait(c, "login") /\ UNCHANGED again
              ELSE Attempt(c) /\ UNCHANGED again
      [] t.pc = "raising" /\ result = "failed" /\ t.tries > 0 ->
            Wait(c, "pause") /\ UNCHANGED again
      [] t.pc = "raising" /\ result = "failed" /\ t.tries = 0 -> Settle(c)
      [] t.pc = "raising" /\ result = "on" -> Settle(c)
      [] OTHER -> Leave(c)

-----------------------------------------------------------------------------
(* withNativeLifecycle: one native operation at a time.                    *)

\* The operation answers and frees the queue; its caller goes on.
Answer(result) ==
    /\ op' = NoOp
    /\ Continue(op.by, result)

Advance(at) ==
    /\ op' = [op EXCEPT !.at = at, !.asked = FALSE]
    /\ UNCHANGED <<gen, queue, task, again>>

OpTaken ==
    /\ op = NoOp /\ queue # <<>>
    /\ op' = [kind |-> Head(queue).kind, by |-> Head(queue).by, gen |-> Head(queue).gen,
              at |-> "begun", path |-> Unknown, asked |-> FALSE]
    /\ queue' = Tail(queue)
    /\ UNCHANGED <<settings, gen, kernel, cleanup, task, again, network, presses>>

\* Up to the first native call; all but a stop look whether they are superseded.
OpBegins ==
    /\ op.at = "begun"
    /\ IF op.kind # "stop" /\ op.gen # gen
         THEN Answer("off")
         ELSE Advance(CASE op.kind # "start" -> "stop"
                        [] op.kind = "start" /\ cleanup -> "clean"
                        [] OTHER -> "support")
    /\ UNCHANGED <<settings, kernel, cleanup, network, presses>>

\* stopNativeOpenFlux knows the core is down.
IsDown ==
    /\ cleanup' = FALSE
    /\ CASE op.at = "stop" -> Answer("stopped")
         [] op.at = "undo" -> Answer("off")
         [] op.at = "clean" -> Advance("support")

Stopping == op.at \in {"stop", "clean", "undo"}

StopReturns ==
    /\ Stopping /\ ~op.asked
    /\ kernel' = Down
    /\ IsDown
    /\ UNCHANGED <<settings, network, presses>>

\* mod.stop() fails, having lowered the tunnel or not; the core is asked.
StopThrows ==
    /\ Stopping /\ ~op.asked
    /\ kernel' \in {kernel, Down}
    /\ op' = [op EXCEPT !.asked = TRUE]
    /\ UNCHANGED <<settings, gen, queue, cleanup, task, again, network, presses>>

CoreSaysDown ==
    /\ Stopping /\ op.asked /\ kernel = Down
    /\ IsDown
    /\ UNCHANGED <<settings, kernel, network, presses>>

\* Broken on purpose: the core is told to stop until it does.
CoreIsToldAgain ==
    /\ Stopping /\ op.asked
    /\ Advance(op.at)
    /\ UNCHANGED <<settings, kernel, cleanup, network, presses>>

\* It runs, or does not answer.
CoreSaysNothingGood ==
    /\ Stopping /\ op.asked
    /\ cleanup' = TRUE
    /\ Answer("failed")
    /\ UNCHANGED <<settings, kernel, network, presses>>

\* isSupported answers, and the second look at the generation.
Supported ==
    /\ op.at = "support"
    /\ IF op.gen = gen
         THEN /\ op' = [op EXCEPT !.at = "starting", !.path = path]
              /\ UNCHANGED <<gen, queue, task, again>>
         ELSE Answer("off")
    /\ UNCHANGED <<settings, kernel, cleanup, network, presses>>

Unsupported ==
    /\ op.at = "support"
    /\ Answer("off")
    /\ UNCHANGED <<settings, kernel, cleanup, network, presses>>

\* mod.start() returns an address; a core that runs refuses a second start.
StartReturns ==
    /\ op.at = "starting" /\ kernel = Down
    /\ kernel' = [by |-> op.gen, path |-> op.path]
    /\ Advance("noting")
    /\ UNCHANGED <<settings, cleanup, network, presses>>

StartThrows ==
    /\ op.at = "starting"
    /\ Answer(IF op.gen = gen THEN "failed" ELSE "off")
    /\ UNCHANGED <<settings, kernel, cleanup, network, presses>>

\* Broken on purpose: a start that was superseded meanwhile is left running.
StartKept ==
    /\ op.at = "noting"
    /\ Answer(IF op.gen = gen THEN "on" ELSE "off")
    /\ UNCHANGED <<settings, kernel, cleanup, network, presses>>

\* noteHttpLayer is done: a start that was superseded meanwhile is undone.
StartNoted ==
    /\ op.at = "noting"
    /\ IF op.gen = gen THEN Answer("on") ELSE Advance("undo")
    /\ UNCHANGED <<settings, kernel, cleanup, network, presses>>

-----------------------------------------------------------------------------
(* The callers.                                                            *)

Press(c) ==
    /\ c \in Caller /\ task[c] = Idle
    /\ presses < MaxPresses
    /\ presses' = presses + 1

\* The switch of the settings section, disabled while an earlier move of it is
\* under way: it is saved first.
Toggle(on) ==
    /\ Press("toggle")
    /\ task' = [task EXCEPT !["toggle"] = [Idle EXCEPT !.pc = "saving", !.on = on]]
    /\ UNCHANGED <<settings, native, again, network>>

\* The button of a tunnel that could not be raised: the config is cached.
RetryPressed ==
    /\ Press("retry") /\ saved
    /\ Retry("retry", saved)
    /\ UNCHANGED <<settings, op, kernel, cleanup, again, network>>

\* openflux.enable of the bridge.
AgentEnables ==
    /\ Press("agent")
    /\ task' = [task EXCEPT !["agent"] = [Idle EXCEPT !.pc = "asking", !.on = TRUE]]
    /\ UNCHANGED <<settings, native, again, network>>

\* openflux.disable of the bridge: the tunnel is stopped, then it is saved.
AgentDisables ==
    /\ Press("agent")
    /\ Stop("agent")
    /\ UNCHANGED <<settings, op, kernel, cleanup, again, network>>

\* The start of the application: one attempt, by itself.
Boot ==
    /\ "boot" \in Caller /\ gen = 0
    /\ gen' = 1
    /\ IF saved /\ AutoStart
         THEN /\ queue' = Ask("start", "boot", 1)
              /\ task' = [task EXCEPT !["boot"] = [pc |-> "raising", on |-> TRUE,
                                                  gen |-> 1, tries |-> 0]]
         ELSE UNCHANGED <<queue, task>>
    /\ UNCHANGED <<settings, op, kernel, cleanup, again, network, presses>>

\* saveConfigOverride has written the file, and assigns the cached config.
Saved(c) ==
    /\ task[c].pc = "saving"
    /\ saved' = task[c].on /\ savedBy' = c
    /\ CASE task[c].on -> Retry(c, TRUE)
         [] ~task[c].on /\ c = "toggle" -> Stop(c)
         [] OTHER -> Done(c)
    /\ UNCHANGED <<op, kernel, cleanup, again, network, presses>>

SaveThrows(c) ==
    /\ task[c].pc = "saving"
    /\ Done(c)
    /\ UNCHANGED <<settings, op, kernel, cleanup, again, network, presses>>

\* getOpenFluxRunning answers: the agent goes on to save, the guard to revive
\* what ran - under the config it read before it asked.
RunningKnown(c) ==
    /\ task[c].pc = "asking"
    /\ \E up \in {kernel # Down, FALSE} :
          CASE c = "agent" -> Wait(c, "saving") /\ UNCHANGED again
            [] c = "guard" /\ up -> Retry(c, task[c].on) /\ UNCHANGED again
            [] OTHER -> Leave(c)
    /\ UNCHANGED <<settings, op, kernel, cleanup, network, presses>>

\* authorizeSession: the person logged in, or did not.
LoginEnds(c, authorized) ==
    /\ task[c].pc = "login"
    /\ IF authorized THEN Attempt(c) ELSE Done(c)
    /\ UNCHANGED <<settings, op, kernel, cleanup, again, network, presses>>

\* The pause before the next try is over.
PauseEnds(c) ==
    /\ task[c].pc = "pause"
    /\ IF task[c].gen = gen THEN Attempt(c) /\ UNCHANGED again ELSE Leave(c)
    /\ UNCHANGED <<settings, op, kernel, cleanup, network, presses>>

\* restartInternetTransport is over, and with it the guard's pass.
Reopened ==
    /\ "guard" \in Caller /\ task["guard"].pc = "reopening"
    /\ GuardPassEnds
    /\ UNCHANGED <<settings, op, kernel, cleanup, network, presses>>

-----------------------------------------------------------------------------
(* networkReconnectWatcher and the guard that listens to it.               *)

\* The network changes.  The listener, when there is one, is told of a new
\* connection or of another wire, and puts the announcement off until a burst
\* of changes is over; it announces no loss of the network.
PathChanges(p) ==
    /\ p \in {path + 1, path + 2} /\ p <= MaxChanges
    /\ Online(path) \/ Online(p)
    /\ path' = p
    /\ timer' = (timer \/ (watching /\ Online(p)))
    /\ UNCHANGED <<settings, native, task, again, watching, presses, switches>>

\* reviveOpenFluxAfterNetworkChange, called by the announcement.
PathAnnounced ==
    /\ timer
    /\ timer' = FALSE
    /\ CASE "guard" \notin Caller -> UNCHANGED <<gen, queue, task, again>>
         [] "guard" \in Caller /\ task["guard"] # Idle ->
              again' = TRUE /\ UNCHANGED <<gen, queue, task>>
         [] OTHER -> Revive
    /\ UNCHANGED <<settings, op, kernel, cleanup, path, watching, presses, switches>>

\* The active account changes: watcher and guard are taken down with the old
\* account's services, and put up after the new one's transport has started.
AccountLeaves ==
    /\ watching /\ switches < MaxSwitches
    /\ watching' = FALSE /\ timer' = FALSE
    /\ switches' = switches + 1
    /\ UNCHANGED <<settings, native, task, again, path, presses>>

AccountEnters ==
    /\ ~watching
    /\ watching' = TRUE
    /\ UNCHANGED <<settings, native, task, again, path, timer, presses, switches>>

-----------------------------------------------------------------------------
Core ==
    \/ OpTaken \/ OpBegins \/ StopReturns \/ StopThrows
    \/ CoreSaysDown \/ CoreSaysNothingGood
    \/ Supported \/ Unsupported \/ StartReturns \/ StartThrows \/ StartNoted

Callers ==
    \/ \E on \in BOOLEAN : Toggle(on)
    \/ RetryPressed \/ AgentEnables \/ AgentDisables \/ Boot
    \/ \E c \in Caller : Saved(c) \/ SaveThrows(c) \/ RunningKnown(c) \/ PauseEnds(c)
    \/ \E c \in Caller, authorized \in BOOLEAN : LoginEnds(c, authorized)
    \/ Reopened

World ==
    \/ \E p \in 0..MaxChanges : PathChanges(p)
    \/ PathAnnounced \/ AccountLeaves \/ AccountEnters

Next == Core \/ Callers \/ World

Spec == Init /\ [][Next]_vars

\* The core answers every call, the file of the settings is written, and a
\* timer fires.  Nobody has to log in.
LiveSpec ==
    /\ Spec
    /\ WF_vars(Core)
    /\ \A c \in Caller : WF_vars(Saved(c) \/ SaveThrows(c))

-----------------------------------------------------------------------------
\* Nothing that was asked for is under way.
Quiet ==
    /\ op = NoOp /\ queue = <<>> /\ ~timer
    /\ \A c \in Caller : task[c].pc \in {"idle", "login"}

\* A tunnel that a person has switched off is down once everybody is done,
\* whatever raced with the switch - unless the core refused to stop, which is
\* remembered.  openFluxNetworkGuard.ts:114-116.  The agent's command stops the
\* tunnel before it saves, and promises less.
OffStays ==
    Quiet /\ ~saved /\ savedBy # "agent" /\ ~cleanup => kernel = Down

\* A tunnel that runs was raised on the network the device is on: a change of
\* path during a raise, or during another pass of the guard, is caught up with.
\* Left out: a change announced to nobody, at a change of the account, and a
\* tunnel the guard leaves alone, because it is switched off.
FreshPath ==
    Quiet /\ saved /\ AutoStart /\ switches = 0 /\ Online(path) /\ ~cleanup
          /\ kernel # Down
        => kernel.path = path

\* A tunnel that runs was raised for the newest request there is, or for one
\* that nobody's later request could lower: a pass of the guard, a press and a
\* stop each begin by lowering what the earlier ones raised.
NewestRuns == Quiet /\ ~cleanup /\ kernel # Down => kernel.by = gen

\* Switching off gets through though a login is open and tries are repeated.
OffGetsThrough ==
    "toggle" \in Caller =>
        (task["toggle"].pc = "stopping" ~> (kernel = Down \/ cleanup))

Intent == INSTANCE OpenFluxIntent WITH
    request <- gen,
    active <- IF op = NoOp THEN 0 ELSE op.gen,
    calling <- op.at = "starting",
    raised <- kernel.by,
    stuck <- cleanup

\* The controller keeps the promise of OpenFluxIntent.
KeepsIntent == Intent!Spec
=============================================================================
