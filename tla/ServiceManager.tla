-------------------------- MODULE ServiceManager ---------------------------
(***************************************************************************)
(* The web admin runs frps or frpc as a subprocess. Its request handlers    *)
(* start, stop and restart the service; a task per started process waits    *)
(* for its exit and starts the service again when it failed. All of them    *)
(* are coroutines of one event loop and share the fields of one             *)
(* ServiceManager; they interleave wherever one of them awaits: the half    *)
(* second after killing leftover processes, the spawning of a subprocess,   *)
(* the exit of a process, the second before an automatic restart.           *)
(***************************************************************************)
EXTENDS Integers

CONSTANTS
    Requests,       \* handlers of requests that run at the same time
    MaxProcs,       \* bound: processes of the service
    None

Pids == 1..MaxProcs

\* The task that waits for a process is named by the process it was started
\* with, and a handler by its request.
Coroutines == Requests \cup Pids

ASSUME ConstantsAssumption ==
    /\ MaxProcs \in Nat \ {0}
    /\ Requests \cap Pids = {}
    /\ None \notin Coroutines

VARIABLES
    killExisting,   \* BOOLEAN, fixed: do start requests ask to kill leftovers?
    psWorks,        \* BOOLEAN, fixed: is every run of ps answered in time?
    proc,           \* proc[p]: the process of the operating system
    \* The fields of the ServiceManager.
    process,        \* the managed process, or None
    stopping,       \* _stopping
    autoRestart,
    tasks,          \* the wait task in _tasks, or None for an empty list
    \* The coroutines.
    pc,             \* where each is suspended
    arg,            \* the process it spawns, stops or waits for, or None
    restarting,     \* the handlers that stop in order to start again
    closing         \* the web admin shuts down: no request is accepted

fields == <<process, stopping, autoRestart, tasks>>
vars == <<killExisting, psWorks, proc, fields, pc, arg, restarting, closing>>

ProcState == {"unborn", "running", "terminating", "failed", "succeeded"}
RequestPc == {"idle", "killing", "spawning", "stopping", "cleaning"}
TaskPc    == {"none", "created", "waiting", "sleeping", "spawning", "done"}

TypeOK ==
    /\ killExisting \in BOOLEAN /\ psWorks \in BOOLEAN
    /\ proc \in [Pids -> ProcState]
    /\ process \in Pids \cup {None}
    /\ stopping \in BOOLEAN /\ autoRestart \in BOOLEAN
    /\ tasks \in Pids \cup {None}
    /\ pc \in [Coroutines -> RequestPc \cup TaskPc]
    /\ \A r \in Requests : pc[r] \in RequestPc
    /\ \A p \in Pids : pc[p] \in TaskPc
    /\ arg \in [Coroutines -> Pids \cup {None}]
    /\ restarting \subseteq Requests
    /\ closing \in BOOLEAN

Live(p) == proc[p] \in {"running", "terminating"}

\* A process of the service may be left over from elsewhere.
Init ==
    /\ killExisting \in BOOLEAN /\ psWorks \in BOOLEAN
    /\ \E leftover \in {{}, {1}} :
          proc = [p \in Pids |-> IF p \in leftover THEN "running" ELSE "unborn"]
    /\ process = None /\ stopping = FALSE /\ autoRestart \in BOOLEAN /\ tasks = None
    /\ pc = [co \in Coroutines |-> IF co \in Requests THEN "idle" ELSE "none"]
    /\ arg = [co \in Coroutines |-> None]
    /\ restarting = {}
    /\ closing = FALSE

-----------------------------------------------------------------------------
(* start() *)

Running == process # None /\ Live(process)

\* The processes a listing is about: ps lists every process of the service but the
\* managed one, so also one whose start() is still suspended.
External == {p \in Pids : Live(p)} \ (IF Running THEN {process} ELSE {})

\* _find_external_processes: a ps that fails, is missing or takes more than three
\* seconds counts as nothing found.
Findings == {External} \cup (IF psWorks THEN {} ELSE {{}})

Goto(co, label, p) ==
    /\ pc' = [pc EXCEPT ![co] = label]
    /\ arg' = [arg EXCEPT ![co] = p]

\* A coroutine is over: a handler has answered, a task is done.
Leave(co) == Goto(co, IF co \in Requests THEN "idle" ELSE "done", None)

\* The process is created before create_subprocess_exec first suspends.
Spawn(co) ==
    /\ stopping' = FALSE
    /\ \/ Leave(co) /\ UNCHANGED proc
       \/ \E p \in Pids :
             /\ proc[p] = "unborn" /\ \A q \in Pids : q < p => proc[q] # "unborn"
             /\ proc' = [proc EXCEPT ![p] = "running"]
             /\ Goto(co, "spawning", p)

\* The leftovers are sent SIGTERM.
KillLeftovers(co) ==
    /\ proc' = [p \in Pids |-> IF p \in External THEN "terminating" ELSE proc[p]]
    /\ Goto(co, "killing", None)
    /\ UNCHANGED stopping

\* Faulty variant: start() looks for leftovers only when it may kill them.
StartLooksToKill(co, kill) ==
    \/ Running /\ Leave(co) /\ UNCHANGED <<stopping, proc>>
    \/ ~Running /\ kill /\ External # {} /\ KillLeftovers(co)
    \/ ~Running /\ (kill => External = {}) /\ Spawn(co)

\* start(), up to where it first suspends or raises.
Start(co, kill) ==
    \/ Running /\ Leave(co) /\ UNCHANGED <<stopping, proc>>
    \/ /\ ~Running
       /\ \E found \in Findings :
             \/ found # {} /\ ~kill /\ Leave(co) /\ UNCHANGED <<stopping, proc>>
             \/ found # {} /\ kill /\ KillLeftovers(co)
             \/ found = {} /\ Spawn(co)

Accepted(r) == pc[r] = "idle" /\ ~closing

StartRequest(r) ==
    /\ Accepted(r)
    /\ Start(r, killExisting)
    /\ UNCHANGED <<killExisting, psWorks, closing, process, autoRestart, tasks, restarting>>

\* Half a second later the leftovers are not looked at again.
LeftoversKilled(r) ==
    /\ pc[r] = "killing"
    /\ Spawn(r)
    /\ UNCHANGED <<killExisting, psWorks, closing, process, autoRestart, tasks, restarting>>

\* create_subprocess_exec returns, and the tasks of the new process are created.
\* It suspends as often for each process: the one created first returns first.
Spawned(co) ==
    LET p == arg[co]
        over == IF co \in Requests THEN "idle" ELSE "done"
    IN
    /\ pc[co] = "spawning"
    /\ \A other \in Coroutines : pc[other] = "spawning" => p <= arg[other]
    /\ process' = p /\ tasks' = p
    /\ pc' = [pc EXCEPT ![co] = over, ![p] = "created"]
    /\ arg' = [arg EXCEPT ![co] = None]
    /\ UNCHANGED <<killExisting, psWorks, closing, proc, stopping, autoRestart, restarting>>

\* A request of its own: the leftovers are sent SIGTERM and not waited for. With
\* nothing found it does nothing.
KillExternal(r) ==
    /\ Accepted(r) /\ External # {}
    /\ proc' = [p \in Pids |-> IF p \in External THEN "terminating" ELSE proc[p]]
    /\ UNCHANGED <<killExisting, psWorks, closing, fields, pc, arg, restarting>>

-----------------------------------------------------------------------------
(* _wait_exit() *)

\* The task waits for the process that is managed when it first runs.
WaitExit(p) ==
    /\ pc[p] = "created"
    /\ Goto(p, "waiting", process)
    /\ UNCHANGED <<killExisting, psWorks, closing, proc, fields, restarting>>

\* The exit code is read from the process that is managed by now; that of a
\* running process is None, which is not 0.
Exited(p) ==
    /\ pc[p] = "waiting" /\ ~Live(arg[p])
    /\ IF ~stopping /\ autoRestart /\ proc[process] # "succeeded"
       THEN Goto(p, "sleeping", None) ELSE Leave(p)
    /\ UNCHANGED <<killExisting, psWorks, closing, proc, fields, restarting>>

AutoStart(p) ==
    /\ pc[p] = "sleeping"
    /\ Start(p, FALSE)
    /\ UNCHANGED <<killExisting, psWorks, closing, process, autoRestart, tasks, restarting>>

-----------------------------------------------------------------------------
(* stop(), restart() and shutdown() *)

\* stop(), up to its waiting for the process. One that has exited already is
\* waited for all the same.
Terminate(r) ==
    /\ stopping' = TRUE
    /\ proc' = [proc EXCEPT ![process] = IF @ = "running" THEN "terminating" ELSE @]
    /\ Goto(r, "stopping", process)

StopRequest(r) ==
    /\ Accepted(r) /\ process # None
    /\ Terminate(r)
    /\ UNCHANGED <<killExisting, psWorks, closing, process, autoRestart, tasks, restarting>>

RestartRequest(r) ==
    /\ Accepted(r)
    /\ \/ Running /\ Terminate(r) /\ restarting' = restarting \cup {r}
       \/ ~Running /\ Start(r, FALSE) /\ UNCHANGED restarting
    /\ UNCHANGED <<killExisting, psWorks, closing, process, autoRestart, tasks>>

\* The end of _cleanup_tasks, and of a stop(); restart() goes on with a start.
Cleaned(r) ==
    /\ tasks' = None
    /\ restarting' = restarting \ {r}
    /\ IF r \in restarting THEN Start(r, FALSE)
       ELSE Leave(r) /\ UNCHANGED <<stopping, proc>>

\* Faulty variant: the tasks are forgotten, not cancelled.
CleanupTasksForgets(r) ==
    /\ tasks' = tasks
    /\ restarting' = restarting \ {r}
    /\ IF r \in restarting THEN Start(r, FALSE)
       ELSE Leave(r) /\ UNCHANGED <<stopping, proc>>

\* _cleanup_tasks: the wait task in _tasks is cancelled and awaited; one that
\* spawns a process kills it when it is cancelled.
CleanupTasks(r) ==
    IF tasks = None \/ pc[tasks] = "done"
    THEN Cleaned(r)
    ELSE /\ proc' = IF pc[tasks] = "spawning"
                    THEN [proc EXCEPT ![arg[tasks]] = "failed"] ELSE proc
         /\ pc' = [pc EXCEPT ![r] = "cleaning", ![tasks] = "done"]
         /\ arg' = [arg EXCEPT ![r] = None, ![tasks] = None]
         /\ UNCHANGED <<stopping, tasks, restarting>>

\* The process stop() waited for has exited. The task in _tasks may be a later
\* one's by now.
Stopped(r) ==
    /\ pc[r] = "stopping" /\ ~Live(arg[r])
    /\ CleanupTasks(r)
    /\ UNCHANGED <<killExisting, psWorks, closing, process, autoRestart>>

TasksAwaited(r) ==
    /\ pc[r] = "cleaning"
    /\ Cleaned(r)
    /\ UNCHANGED <<killExisting, psWorks, closing, process, autoRestart>>

\* shutdown(), once no request is in progress any more: a running process is
\* stopped, otherwise only the tasks are cancelled.
Shutdown(r) ==
    /\ \A q \in Requests : Accepted(q)
    /\ closing' = TRUE
    /\ autoRestart' = (autoRestart /\ ~Running)
    /\ \/ Running /\ Terminate(r) /\ UNCHANGED <<tasks, restarting>>
       \/ ~Running /\ CleanupTasks(r)
    /\ UNCHANGED <<killExisting, psWorks, process>>

\* The event loop has ended, and with it every coroutine.
Over == closing /\ \A r \in Requests : pc[r] = "idle"

-----------------------------------------------------------------------------
(* The processes. *)

\* A process exits or fails by itself, after SIGTERM, or after SIGKILL.
Exits(p) ==
    /\ Live(p)
    /\ \E how \in {"failed", "succeeded"} : proc' = [proc EXCEPT ![p] = how]
    /\ UNCHANGED <<killExisting, psWorks, closing, fields, pc, arg, restarting>>

-----------------------------------------------------------------------------

Handler(r) == Spawned(r) \/ LeftoversKilled(r) \/ Stopped(r) \/ TasksAwaited(r)
WaitTask(p) == WaitExit(p) \/ Exited(p) \/ AutoStart(p) \/ Spawned(p)

Next ==
    \/ \E r \in Requests :
          StartRequest(r) \/ StopRequest(r) \/ RestartRequest(r) \/ KillExternal(r)
            \/ Shutdown(r) \/ Handler(r)
    \/ \E p \in Pids : (~Over /\ WaitTask(p)) \/ Exits(p)

Spec == Init /\ [][Next]_vars

-----------------------------------------------------------------------------
(* Properties. *)

\* Without kill_existing, and while ps answers, there are never two processes of
\* the service: a start that crosses another one, a restart or an automatic restart
\* sees what the other has spawned even before the manager knows it. When ps fails
\* nothing else keeps crossing starts apart: `running` is false until
\* create_subprocess_exec returns.
AtMostOneProcess ==
    ~killExisting /\ psWorks => \A p, q \in Pids : Live(p) /\ Live(q) => p = q

\* A stop also cancels the automatic restart that is pending for the process it
\* found: with the stop answered, no task it could know of will start the
\* service again.
StopCancelsRestart ==
    stopping /\ tasks # None /\ (\A r \in Requests : pc[r] = "idle") =>
        pc[tasks] \notin {"sleeping", "spawning"}
=============================================================================
