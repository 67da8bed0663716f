------------------------------ MODULE AppBase -------------------------------
(***************************************************************************)
(* libraries/appbase: the life of an application made of plugins, on two   *)
(* threads: main (initialize, startup, exec, shutdown) and the signal      *)
(* thread that startup creates, which calls quit() once per kind of signal.*)
(***************************************************************************)
EXTENDS Naturals, Sequences

CONSTANTS
    Plugins,     \* the registered plugins
    Requires,    \* for each, what APPBASE_PLUGIN_REQUIRES lists, in order
    Autostart,   \* the plugins to initialize, in order: those named with
                 \* --plugin, then those given to application::initialize
    Servers,     \* the plugins whose startup may leave something to wait for
    Signals      \* the kinds of signal startup waits for

ASSUME PluginsAssumption ==
    /\ Requires \in [Plugins -> Seq(Plugins)]
    /\ Autostart \in Seq(Plugins)
    /\ Servers \subseteq Plugins

VARIABLES
    main,        \* where the main thread is
    state,       \* plugin::_state of each plugin
    calls,       \* the plugins whose initialize or startup is in progress
    next,        \* the position of the loop over plugins
    initialized, \* application::initialized_plugins
    running,     \* application::running_plugins
    log,         \* history: the plugin_* bodies that ran, in order
    quiting,     \* application_impl::_is_quiting
    io_serv,     \* the io_service: runnable, stopped, or reset
    work,        \* whether a server waits on the io_service
    pending,     \* the signals startup still waits for
    stopping     \* whether the signal thread is inside quit()

signalVars == <<quiting, io_serv, pending, stopping>>

bvars == <<main, state, calls, next, initialized, running, log, work, signalVars>>

BInit ==
    /\ main = "initialize"
    /\ state = [p \in Plugins |-> "registered"]
    /\ calls = <<>>
    /\ next = 1
    /\ initialized = <<>>
    /\ running = <<>>
    /\ log = <<>>
    /\ quiting = FALSE
    /\ io_serv = "runnable"
    /\ work = FALSE
    /\ pending = {}
    /\ stopping = FALSE

-----------------------------------------------------------------------------
(***************************************************************************)
(* plugin::initialize and plugin::startup have the same shape: if the      *)
(* plugin is in the state from, it moves to the state to, does the same    *)
(* to the plugins it requires, in order, and then runs its own body.       *)
(***************************************************************************)
Top == calls[Len(calls)]

(* Variant: what a plugin requires is not looked at. *)
Waiting_Never(p, from) == FALSE

Waiting(p, from) == \E i \in DOMAIN Requires[p] : state[Requires[p][i]] = from

FirstWaiting(p, from) ==
    Requires[p][CHOOSE i \in DOMAIN Requires[p] :
                    /\ state[Requires[p][i]] = from
                    /\ \A j \in 1 .. i - 1 : state[Requires[p][j]] # from]

(* Variant: the state is not set before the nested calls. *)
Enter_KeepsState(p, from, to) ==
    /\ state[p] = from
    /\ calls' = Append(calls, p)
    /\ UNCHANGED state

Enter(p, from, to) ==
    /\ state[p] = from
    /\ state' = [state EXCEPT ![p] = to]
    /\ calls' = Append(calls, p)

(* A call nested in the one on top of the stack. *)
EnterRequired(from, to) ==
    /\ calls # <<>>
    /\ Waiting(Top, from)
    /\ Enter(FirstWaiting(Top, from), from, to)

ReadyForBody(from) ==
    /\ calls # <<>>
    /\ ~ Waiting(Top, from)

Return == calls' = SubSeq(calls, 1, Len(calls) - 1)

Ran(what, p) == log' = Append(log, [what |-> what, plugin |-> p])

-----------------------------------------------------------------------------
(***************************************************************************)
(* application::initialize_impl: the loop over the autostart plugins.      *)
(***************************************************************************)
InitializeNext ==
    /\ main = "initialize"
    /\ calls = <<>>
    /\ next <= Len(Autostart)
    /\ IF state[Autostart[next]] = "registered"
       THEN Enter(Autostart[next], "registered", "initialized")
       ELSE UNCHANGED <<state, calls>>
    /\ next' = next + 1
    /\ UNCHANGED <<main, initialized, running, log, work, signalVars>>

InitializeRequired ==
    /\ main = "initialize"
    /\ EnterRequired("registered", "initialized")
    /\ UNCHANGED <<main, next, initialized, running, log, work, signalVars>>

InitializeBody ==
    /\ main = "initialize"
    /\ ReadyForBody("registered")
    /\ initialized' = Append(initialized, Top)
    /\ Ran("initialize", Top)
    /\ Return
    /\ UNCHANGED <<main, state, next, running, work, signalVars>>

(* An option that only prints, or no configuration file: main returns. *)
InitializeDeclines ==
    /\ main = "initialize"
    /\ calls = <<>>
    /\ next = 1
    /\ main' = "exited"
    /\ UNCHANGED <<state, calls, next, initialized, running, log, work,
                   signalVars>>

(* plugin_initialize throws: initialize answers false and main returns. *)
InitializeThrows ==
    /\ main = "initialize"
    /\ ReadyForBody("registered")
    /\ main' = "exited"
    /\ UNCHANGED <<state, calls, next, initialized, running, log, work,
                   signalVars>>

(***************************************************************************)
(* application::startup: the signal handlers first, then the loop over the *)
(* initialized plugins, which a quit ends.                                 *)
(***************************************************************************)
StartupBegin ==
    /\ main = "initialize"
    /\ calls = <<>>
    /\ next > Len(Autostart)
    /\ main' = "startup"
    /\ next' = 1
    /\ pending' = Signals
    /\ UNCHANGED <<state, calls, initialized, running, log, quiting,
                   io_serv, work, stopping>>

StartupNext ==
    /\ main = "startup"
    /\ calls = <<>>
    /\ next <= Len(initialized)
    /\ ~ quiting
    /\ IF state[initialized[next]] = "initialized"
       THEN Enter(initialized[next], "initialized", "started")
       ELSE UNCHANGED <<state, calls>>
    /\ next' = next + 1
    /\ UNCHANGED <<main, initialized, running, log, work, signalVars>>

StartupRequired ==
    /\ main = "startup"
    /\ EnterRequired("initialized", "started")
    /\ UNCHANGED <<main, next, initialized, running, log, work, signalVars>>

(* A server that is configured with an address waits for connections. *)
StartupBody ==
    /\ main = "startup"
    /\ ReadyForBody("initialized")
    /\ running' = Append(running, Top)
    /\ work' \in {work} \cup (IF Top \in Servers THEN {TRUE} ELSE {})
    /\ Ran("startup", Top)
    /\ Return
    /\ UNCHANGED <<main, state, next, initialized, signalVars>>

(* plugin_startup throws: the catch block of startup calls shutdown. *)
StartupThrows ==
    /\ main = "startup"
    /\ ReadyForBody("initialized")
    /\ main' = "shutdown"
    /\ calls' = <<>>
    /\ next' = Len(running)
    /\ UNCHANGED <<state, initialized, running, log, work, signalVars>>

(* The loop is done, or a quit was seen: main goes on to exec. *)
StartupEnd ==
    /\ main = "startup"
    /\ calls = <<>>
    /\ quiting \/ next > Len(initialized)
    /\ main' = "exec"
    /\ UNCHANGED <<state, calls, next, initialized, running, log, work,
                   signalVars>>

(***************************************************************************)
(* exec: run() returns once the io_service is stopped, or has nothing left *)
(* to wait for; then shutdown.                                             *)
(***************************************************************************)
ExecReturns ==
    /\ main = "exec"
    /\ io_serv = "stopped" \/ ~ work
    /\ main' = "shutdown"
    /\ next' = Len(running)
    /\ UNCHANGED <<state, calls, initialized, running, log, work, signalVars>>

(* Variant: the plugins are shut down in the order they were started. *)
ShutdownNext_Forward ==
    /\ main = "shutdown"
    /\ next > 0
    /\ LET p == running[Len(running) + 1 - next]
       IN  state' = [state EXCEPT ![p] = "stopped"] /\ Ran("shutdown", p)
    /\ next' = next - 1
    /\ UNCHANGED <<main, calls, initialized, running, work, signalVars>>

(***************************************************************************)
(* application::shutdown: running_plugins from its end, then everything is *)
(* cleared and the io_service reset.                                       *)
(***************************************************************************)
ShutdownNext ==
    /\ main = "shutdown"
    /\ next > 0
    /\ state' = [state EXCEPT ![running[next]] = "stopped"]
    /\ Ran("shutdown", running[next])
    /\ next' = next - 1
    /\ UNCHANGED <<main, calls, initialized, running, work, signalVars>>

ShutdownClear ==
    /\ main = "shutdown"
    /\ next = 0
    /\ running' = <<>>
    /\ initialized' = <<>>
    /\ io_serv' = "reset"
    /\ main' = "leaving"
    /\ UNCHANGED <<state, calls, next, log, quiting, pending, work, stopping>>

(* main returns; the process, the detached signal thread with it, is gone. *)
Leave ==
    /\ main = "leaving"
    /\ main' = "exited"
    /\ UNCHANGED <<state, calls, next, initialized, running, log, work,
                   signalVars>>

-----------------------------------------------------------------------------
(***************************************************************************)
(* The signal thread: each handler calls quit() and is not armed again.    *)
(* quit() sets the flag and then stops the io_service through a pointer    *)
(* that shutdown may have reset.                                           *)
(***************************************************************************)
Signal(s) ==
    /\ s \in pending
    /\ ~ stopping
    /\ main \notin {"exited", "crashed"}
    /\ pending' = pending \ {s}
    /\ quiting' = TRUE
    /\ stopping' = TRUE
    /\ UNCHANGED <<main, state, calls, next, initialized, running, log, work,
                   io_serv>>

(* Variant: quit() only sets the flag. *)
QuitStops_Nothing ==
    /\ stopping
    /\ main \notin {"exited", "crashed"}
    /\ stopping' = FALSE
    /\ UNCHANGED <<main, state, calls, next, initialized, running, log, work,
                   quiting, io_serv, pending>>

QuitStops ==
    /\ stopping
    /\ main \notin {"exited", "crashed"}
    /\ stopping' = FALSE
    /\ \/ io_serv # "reset" /\ io_serv' = "stopped" /\ UNCHANGED main
       \/ io_serv = "reset" /\ main' = "crashed" /\ UNCHANGED io_serv
    /\ UNCHANGED <<state, calls, next, initialized, running, log, work, quiting,
                   pending>>

MainStep ==
    \/ InitializeNext \/ InitializeRequired \/ InitializeBody \/ InitializeThrows
    \/ InitializeDeclines
    \/ StartupBegin \/ StartupNext \/ StartupRequired \/ StartupBody
    \/ StartupThrows \/ StartupEnd
    \/ ExecReturns \/ ShutdownNext \/ ShutdownClear \/ Leave

BNext == MainStep \/ QuitStops \/ \E s \in Signals : Signal(s)

(* Both threads are scheduled; nobody has to send a signal. *)
BSpec == BInit /\ [][BNext]_bvars /\ WF_bvars(MainStep) /\ WF_bvars(QuitStops)

-----------------------------------------------------------------------------
(***************************************************************************)
(* Properties.                                                             *)
(***************************************************************************)
Before(e, f) ==
    \E i, j \in DOMAIN log : i < j /\ log[i] = e /\ log[j] = f

Happened(e) == \E i \in DOMAIN log : log[i] = e

Ev(what, p) == [what |-> what, plugin |-> p]

(***************************************************************************)
(* Every body of a plugin runs at most once, and all initialize bodies run *)
(* before any startup body, also when plugins require each other and       *)
(* wherever a signal or an exception falls.                                *)
(***************************************************************************)
OnceInOrder ==
    \A i, j \in DOMAIN log :
        /\ log[i] = log[j] => i = j
        /\ log[i].what = "startup" /\ log[j].what = "initialize" => j < i

(***************************************************************************)
(* The sets of plugins that hold what their members require.               *)
(***************************************************************************)
ClosedSets ==
    {S \in SUBSET Plugins :
        \A p \in S : \A i \in DOMAIN Requires[p] : Requires[p][i] \in S}

Needs(p, q) == \A S \in ClosedSets : p \in S => q \in S

(* What p requires and what that needs, except through one that needs p. *)
NeededFirst ==
    [p \in Plugins |-> {q \in Plugins :
        \E i \in DOMAIN Requires[p] :
            ~ Needs(Requires[p][i], p) /\ Needs(Requires[p][i], q)}]

(***************************************************************************)
(* The plugins a plugin requires, directly or through others, are          *)
(* initialized and started before it, whatever the order of the autostart  *)
(* list, except those it only reaches through one that requires it in turn *)
(* (the call of that one is still in progress, and may have more to do).   *)
(***************************************************************************)
RequiredFirst ==
    \A i \in DOMAIN log : log[i].what # "shutdown" =>
        \A q \in NeededFirst[log[i].plugin] :
            \E j \in 1 .. i - 1 : log[j] = Ev(log[i].what, q)

(***************************************************************************)
(* Shutdown bodies run in the reverse order of the startup bodies, so that *)
(* a plugin is shut down before what it requires; and when main is done    *)
(* with shutdown, exactly the plugins whose startup body completed were    *)
(* shut down, also after an exception half-way through startup or a signal *)
(* during it.                                                              *)
(***************************************************************************)
ShutdownReversed ==
    /\ \A i, j \in DOMAIN log :
        i < j /\ log[i].what = "shutdown" /\ log[j].what = "shutdown" =>
            Before(Ev("startup", log[j].plugin), Ev("startup", log[i].plugin))
    /\ main \in {"leaving", "exited"} =>
        \A p \in Plugins : Happened(Ev("startup", p)) <=> Happened(Ev("shutdown", p))

(***************************************************************************)
(* One signal during or after startup ends the program: the main thread    *)
(* never misses a quit (a flag read before the signal, a run() entered     *)
(* after it).                                                              *)
(***************************************************************************)
QuitEnds == quiting ~> main \in {"exited", "crashed"}

(***************************************************************************)
(* What the README of appbase says: the program gracefully exits from      *)
(* SIGINT and SIGTERM; no signal makes it use what shutdown released.      *)
(***************************************************************************)
GracefulExit == main # "crashed"
=============================================================================
