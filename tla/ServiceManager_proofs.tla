------------------------ MODULE ServiceManager_proofs ------------------------
(***************************************************************************)
(* Proofs about the service manager, for any number of concurrent requests   *)
(* and of processes. That there is at most one process is inductive once one *)
(* adds that nobody waits for leftovers to end when no request asks to kill  *)
(* them: whoever spawns has looked for processes in the same step, and found *)
(* them all if ps works.                                                     *)
(***************************************************************************)
EXTENDS ServiceManager, TLAPS

\* Only requests that ask for it wait for the leftovers to end.
KillingIsAsked ==
    ~killExisting => \A r \in Requests : pc[r] # "killing"

IInv == TypeOK /\ KillingIsAsked /\ AtMostOneProcess

-----------------------------------------------------------------------------
(* Lemmas about the operators. *)

\* Where a coroutine may go, and what that leaves of the types.
LEMMA GotoType ==
    ASSUME TypeOK, NEW co \in Coroutines, NEW label, NEW p \in Pids \cup {None},
           co \in Requests => label \in RequestPc,
           co \in Pids => label \in TaskPc,
           Goto(co, label, p)
    PROVE  /\ pc' \in [Coroutines -> RequestPc \cup TaskPc]
           /\ \A r \in Requests : pc'[r] \in RequestPc
           /\ \A q \in Pids : pc'[q] \in TaskPc
           /\ arg' \in [Coroutines -> Pids \cup {None}]
           /\ \A r \in Requests : pc'[r] # pc[r] => pc'[r] = label
  BY ConstantsAssumption DEF TypeOK, Goto, Coroutines

\* The types of what start() changes.
StartTyped ==
    /\ pc' \in [Coroutines -> RequestPc \cup TaskPc]
    /\ \A r \in Requests : pc'[r] \in RequestPc
    /\ \A q \in Pids : pc'[q] \in TaskPc
    /\ arg' \in [Coroutines -> Pids \cup {None}]
    /\ proc' \in [Pids -> ProcState]
    /\ stopping' \in BOOLEAN

\* Nothing comes to life.
Quiet == \A p \in Pids : proc'[p] \in {"running", "terminating"} => Live(p)

\* A coroutine that leaves is idle or done.
LEMMA LeaveType ==
    ASSUME TypeOK, NEW co \in Coroutines, Leave(co),
           proc' \in [Pids -> ProcState], stopping' \in BOOLEAN
    PROVE  /\ StartTyped
           /\ \A r \in Requests : pc'[r] # pc[r] => pc'[r] # "killing"
  <1>1. CASE co \in Requests
    <2>1. Goto(co, "idle", None)
      BY <1>1 DEF Leave
    <2>2. "idle" \in RequestPc /\ co \notin Pids
      BY <1>1, ConstantsAssumption DEF RequestPc
    <2> QED
      BY <2>1, <2>2, GotoType DEF StartTyped
  <1>2. CASE co \in Pids
    <2>1. co \notin Requests
      BY <1>2, ConstantsAssumption
    <2>2. Goto(co, "done", None)
      BY <2>1 DEF Leave
    <2>3. "done" \in TaskPc
      BY DEF TaskPc
    <2> QED
      BY <2>1, <2>2, <2>3, GotoType DEF StartTyped
  <1> QED
    BY <1>1, <1>2 DEF Coroutines

\* What a coroutine that spawns does: there may be one process more, and it is
\* the coroutine's.
LEMMA SpawnType ==
    ASSUME TypeOK, NEW co \in Coroutines, Spawn(co)
    PROVE  /\ StartTyped
           /\ \A r \in Requests : pc'[r] # pc[r] => pc'[r] # "killing"
           /\ (\A p \in Pids : ~Live(p)) =>
                  \A p, q \in Pids : proc'[p] \in {"running", "terminating"}
                      /\ proc'[q] \in {"running", "terminating"} => p = q
  <1>0. stopping' \in BOOLEAN
    BY DEF Spawn
  <1>1. CASE Leave(co) /\ UNCHANGED proc
    <2>1. proc' \in [Pids -> ProcState]
      BY <1>1 DEF TypeOK
    <2>2. /\ StartTyped
          /\ \A r \in Requests : pc'[r] # pc[r] => pc'[r] # "killing"
      BY <1>0, <1>1, <2>1, LeaveType
    <2> QED
      BY <1>1, <2>2 DEF Live
  <1>2. CASE \E p \in Pids : /\ proc[p] = "unborn"
                             /\ proc' = [proc EXCEPT ![p] = "running"]
                             /\ Goto(co, "spawning", p)
    <2>1. PICK p \in Pids : /\ proc' = [proc EXCEPT ![p] = "running"]
                            /\ Goto(co, "spawning", p)
      BY <1>2
    <2>2. "spawning" \in RequestPc /\ "spawning" \in TaskPc
      BY DEF RequestPc, TaskPc
    <2>3. /\ pc' \in [Coroutines -> RequestPc \cup TaskPc]
          /\ \A r \in Requests : pc'[r] \in RequestPc
          /\ \A q \in Pids : pc'[q] \in TaskPc
          /\ arg' \in [Coroutines -> Pids \cup {None}]
          /\ \A r \in Requests : pc'[r] # pc[r] => pc'[r] = "spawning"
      BY <2>1, <2>2, GotoType
    <2>4. proc' \in [Pids -> ProcState]
      BY <2>1 DEF TypeOK, ProcState
    <2>5. (\A q \in Pids : ~Live(q)) =>
              \A q \in Pids : proc'[q] \in {"running", "terminating"} => q = p
      BY <2>1 DEF TypeOK, Live
    <2> QED
      BY <1>0, <2>3, <2>4, <2>5 DEF StartTyped
  <1> QED
    BY <1>1, <1>2 DEF Spawn

\* A ps that answers lists nothing, and the managed process is not running: there is
\* none at all.
LEMMA NothingLive ==
    ASSUME ~Running, psWorks, {} \in Findings
    PROVE  \A p \in Pids : ~Live(p)
  BY DEF External, Findings

\* What start() preserves, and that it leads to at most one process.
LEMMA StartKeeps ==
    ASSUME IInv, NEW co \in Coroutines, NEW kill \in BOOLEAN, Start(co, kill),
           co \in Pids => ~kill
    PROVE  /\ StartTyped
           /\ ~kill => \A r \in Requests : pc'[r] # pc[r] => pc'[r] # "killing"
           /\ ~killExisting /\ psWorks => \A p, q \in Pids :
                  proc'[p] \in {"running", "terminating"}
                    /\ proc'[q] \in {"running", "terminating"} => p = q
  <1>0. TypeOK
    BY DEF IInv
  <1>1. CASE Leave(co) /\ UNCHANGED <<stopping, proc>>
    <2>1. proc' \in [Pids -> ProcState] /\ stopping' \in BOOLEAN
      BY <1>0, <1>1 DEF TypeOK
    <2>2. /\ StartTyped
          /\ \A r \in Requests : pc'[r] # pc[r] => pc'[r] # "killing"
      BY <1>0, <1>1, <2>1, LeaveType
    <2> QED
      BY <1>1, <2>2 DEF IInv, AtMostOneProcess, Live
  <1>2. CASE kill /\ KillLeftovers(co)
    <2>1. "killing" \in RequestPc
      BY DEF RequestPc
    <2>2. co \in Requests
      BY <1>2 DEF Coroutines
    <2>3. Goto(co, "killing", None)
      BY <1>2 DEF KillLeftovers
    <2>4. co \notin Pids
      BY <1>2
    <2>5. /\ proc' \in [Pids -> ProcState] /\ Quiet
      BY <1>0, <1>2 DEF KillLeftovers, TypeOK, ProcState, External, Live, Quiet
    <2> QED
      BY <1>0, <1>2, <2>1, <2>3, <2>4, <2>5, GotoType
         DEF StartTyped, TypeOK, KillLeftovers, IInv, AtMostOneProcess, Live, Quiet
  <1>3. CASE ~Running /\ {} \in Findings /\ Spawn(co)
    BY <1>0, <1>3, SpawnType, NothingLive
  <1> QED
    BY <1>1, <1>2, <1>3 DEF Start

-----------------------------------------------------------------------------
(* Every action preserves IInv. *)

LEMMA Initially == Init => IInv
  <1> SUFFICES ASSUME Init PROVE IInv
    OBVIOUS
  <1>1. TypeOK
    BY ConstantsAssumption
       DEF Init, TypeOK, ProcState, RequestPc, TaskPc, Coroutines, Pids
  <1>2. KillingIsAsked
    BY DEF Init, KillingIsAsked, Coroutines
  <1>3. AtMostOneProcess
    BY DEF Init, AtMostOneProcess, Live
  <1> QED
    BY <1>1, <1>2, <1>3 DEF IInv

\* A step that starts nothing: it keeps the types, sends nobody to wait for
\* leftovers, and brings nothing to life.
LEMMA QuietStep ==
    ASSUME IInv, TypeOK', Quiet, UNCHANGED <<killExisting, psWorks>>,
           \A r \in Requests : pc'[r] # pc[r] => pc'[r] # "killing"
    PROVE  IInv'
  BY DEF IInv, KillingIsAsked, AtMostOneProcess, Live, Quiet

\* A step whose only effect is that of a start().
LEMMA StartStep ==
    ASSUME IInv, NEW co \in Coroutines, NEW kill \in BOOLEAN, Start(co, kill),
           co \in Pids => ~kill, kill => killExisting,
           UNCHANGED <<killExisting, psWorks, process>>,
           autoRestart' \in BOOLEAN, closing' \in BOOLEAN,
           tasks' \in Pids \cup {None}, restarting' \subseteq Requests
    PROVE  IInv'
  <1>1. /\ StartTyped
        /\ ~kill => \A r \in Requests : pc'[r] # pc[r] => pc'[r] # "killing"
        /\ ~killExisting /\ psWorks => \A p, q \in Pids :
               proc'[p] \in {"running", "terminating"}
                 /\ proc'[q] \in {"running", "terminating"} => p = q
    BY StartKeeps
  <1>2. TypeOK'
    BY <1>1 DEF IInv, TypeOK, StartTyped
  <1>3. KillingIsAsked'
    BY <1>1 DEF IInv, KillingIsAsked
  <1>4. AtMostOneProcess'
    BY <1>1 DEF AtMostOneProcess, Live
  <1> QED
    BY <1>2, <1>3, <1>4 DEF IInv

\* A step whose only effect on processes is that a coroutine moves on quietly.
LEMMA MoveStep ==
    ASSUME IInv, NEW co \in Coroutines, NEW label, NEW p \in Pids \cup {None},
           Goto(co, label, p),
           co \in Requests => label \in RequestPc, co \in Pids => label \in TaskPc,
           label # "killing", Quiet, proc' \in [Pids -> ProcState],
           stopping' \in BOOLEAN, autoRestart' \in BOOLEAN, closing' \in BOOLEAN,
           tasks' \in Pids \cup {None}, restarting' \subseteq Requests,
           UNCHANGED <<killExisting, psWorks, process>>
    PROVE  IInv'
  <1>1. TypeOK
    BY DEF IInv
  <1>2. /\ pc' \in [Coroutines -> RequestPc \cup TaskPc]
        /\ \A r \in Requests : pc'[r] \in RequestPc
        /\ \A q \in Pids : pc'[q] \in TaskPc
        /\ arg' \in [Coroutines -> Pids \cup {None}]
        /\ \A r \in Requests : pc'[r] # pc[r] => pc'[r] = label
    BY <1>1, GotoType
  <1>3. TypeOK'
    BY <1>1, <1>2 DEF TypeOK
  <1> QED
    BY <1>2, <1>3, QuietStep

\* A coroutine leaves and the processes stay as they are.
LEMMA LeaveStep ==
    ASSUME IInv, NEW co \in Coroutines, Leave(co),
           UNCHANGED <<killExisting, psWorks, proc, process, stopping>>,
           autoRestart' \in BOOLEAN, closing' \in BOOLEAN,
           tasks' \in Pids \cup {None}, restarting' \subseteq Requests
    PROVE  IInv'
  <1>1. TypeOK /\ proc' \in [Pids -> ProcState] /\ stopping' \in BOOLEAN /\ Quiet
    BY DEF IInv, TypeOK, Quiet, Live
  <1>2. /\ StartTyped
        /\ \A r \in Requests : pc'[r] # pc[r] => pc'[r] # "killing"
    BY <1>1, LeaveType
  <1>3. TypeOK'
    BY <1>1, <1>2 DEF TypeOK, StartTyped
  <1> QED
    BY <1>1, <1>2, <1>3, QuietStep

\* A handler asks the managed process to end.
LEMMA TerminateStep ==
    ASSUME IInv, NEW r \in Requests, Terminate(r), process # None,
           autoRestart' \in BOOLEAN, closing' \in BOOLEAN,
           tasks' \in Pids \cup {None}, restarting' \subseteq Requests,
           UNCHANGED <<killExisting, psWorks, process>>
    PROVE  IInv'
  <1>1. process \in Pids /\ proc \in [Pids -> ProcState]
    BY DEF IInv, TypeOK
  <1>2. Quiet /\ proc' \in [Pids -> ProcState] /\ stopping' \in BOOLEAN
    BY <1>1 DEF Terminate, Quiet, Live, ProcState
  <1>3. "stopping" \in RequestPc /\ r \notin Pids /\ r \in Coroutines
    BY ConstantsAssumption DEF RequestPc, Coroutines
  <1>4. Goto(r, "stopping", process)
    BY DEF Terminate
  <1>5. process \in Pids \cup {None}
    BY <1>1
  <1>6. "stopping" # "killing"
    OBVIOUS
  <1> QED
    BY <1>2, <1>3, <1>4, <1>5, <1>6, MoveStep

\* The end of a stop, or the start that a restart goes on with.
LEMMA CleanedStep ==
    ASSUME IInv, NEW r \in Requests, Cleaned(r),
           autoRestart' \in BOOLEAN, closing' \in BOOLEAN,
           UNCHANGED <<killExisting, psWorks, process>>
    PROVE  IInv'
  <1>1. /\ tasks' \in Pids \cup {None} /\ restarting' \subseteq Requests
        /\ r \in Coroutines /\ r \notin Pids
    BY ConstantsAssumption DEF Cleaned, IInv, TypeOK, Coroutines
  <1>2. CASE r \in restarting
    <2>1. Start(r, FALSE) /\ FALSE \in BOOLEAN
      BY <1>2 DEF Cleaned
    <2> QED
      BY <1>1, <2>1, StartStep
  <1>3. CASE r \notin restarting
    <2>1. Leave(r) /\ UNCHANGED <<stopping, proc>>
      BY <1>3 DEF Cleaned
    <2> QED
      BY <1>1, <2>1, LeaveStep
  <1> QED
    BY <1>2, <1>3

\* _cleanup_tasks may end a process that is being spawned, and starts none
\* itself.
LEMMA CleanupStep ==
    ASSUME IInv, NEW r \in Requests, CleanupTasks(r),
           autoRestart' \in BOOLEAN, closing' \in BOOLEAN,
           UNCHANGED <<killExisting, psWorks, process>>
    PROVE  IInv'
  <1>1. CASE tasks = None \/ pc[tasks] = "done"
    BY <1>1, CleanedStep DEF CleanupTasks
  <1>2. CASE ~(tasks = None \/ pc[tasks] = "done")
    <2>0. TypeOK /\ tasks \in Pids /\ tasks \notin Requests
      BY <1>2, ConstantsAssumption DEF IInv, TypeOK
    <2>1. /\ proc' = IF pc[tasks] = "spawning"
                     THEN [proc EXCEPT ![arg[tasks]] = "failed"] ELSE proc
          /\ pc' = [pc EXCEPT ![r] = "cleaning", ![tasks] = "done"]
          /\ arg' = [arg EXCEPT ![r] = None, ![tasks] = None]
          /\ UNCHANGED <<stopping, tasks, restarting>>
      BY <1>2 DEF CleanupTasks
    <2>2. proc' \in [Pids -> ProcState] /\ Quiet
      BY <2>0, <2>1 DEF TypeOK, ProcState, Quiet, Live
    <2>3. arg' \in [Coroutines -> Pids \cup {None}]
      BY <2>0, <2>1 DEF TypeOK
    <2>4. /\ pc' \in [Coroutines -> RequestPc \cup TaskPc]
          /\ \A q \in Requests : pc'[q] \in RequestPc
          /\ \A q \in Pids : pc'[q] \in TaskPc
          /\ \A q \in Requests : pc'[q] # pc[q] => pc'[q] # "killing"
      BY <2>0, <2>1, ConstantsAssumption DEF TypeOK, RequestPc, TaskPc, Coroutines
    <2>5. TypeOK'
      BY <2>0, <2>1, <2>2, <2>3, <2>4 DEF TypeOK
    <2> QED
      BY <2>2, <2>4, <2>5, QuietStep
  <1> QED
    BY <1>1, <1>2

\* A process that has been spawned becomes the managed one.
LEMMA SpawnedStep ==
    ASSUME IInv, NEW co \in Coroutines, Spawned(co)
    PROVE  IInv'
  <1>0. TypeOK /\ arg[co] \in Pids \cup {None}
    BY DEF IInv, TypeOK
  <1>1. /\ pc' \in [Coroutines -> RequestPc \cup TaskPc]
        /\ \A r \in Requests : pc'[r] \in RequestPc
        /\ \A p \in Pids : pc'[p] \in TaskPc
        /\ \A r \in Requests : pc'[r] # pc[r] => pc'[r] # "killing"
    BY <1>0, ConstantsAssumption DEF Spawned, TypeOK, RequestPc, TaskPc, Coroutines
  <1>2. arg' \in [Coroutines -> Pids \cup {None}]
    BY <1>0 DEF Spawned, TypeOK
  <1>3. TypeOK' /\ Quiet /\ UNCHANGED <<killExisting, psWorks>>
    BY <1>0, <1>1, <1>2 DEF Spawned, TypeOK, Quiet, Live
  <1> QED
    BY <1>1, <1>3, QuietStep

\* What a task that waits for a process does.
LEMMA WaitTaskStep ==
    ASSUME IInv, NEW p \in Pids, WaitTask(p)
    PROVE  IInv'
  <1>0. /\ TypeOK /\ p \in Coroutines /\ p \notin Requests /\ Pids \subseteq Coroutines
        /\ {"waiting", "sleeping"} \subseteq TaskPc
    BY ConstantsAssumption DEF IInv, Coroutines, TaskPc
  <1>1. CASE WaitExit(p)
    <2>1. /\ Goto(p, "waiting", process) /\ process \in Pids \cup {None}
          /\ UNCHANGED <<killExisting, psWorks, closing, proc, fields, restarting>>
      BY <1>0, <1>1 DEF WaitExit, TypeOK
    <2>2. Quiet /\ proc' \in [Pids -> ProcState]
      BY <1>0, <2>1 DEF TypeOK, Quiet, Live
    <2> QED
      BY <1>0, <2>1, <2>2, MoveStep DEF fields, TypeOK
  <1>2. CASE Exited(p)
    <2>1. UNCHANGED <<killExisting, psWorks, closing, proc, fields, restarting>>
      BY <1>2 DEF Exited
    <2>2. Quiet /\ proc' \in [Pids -> ProcState]
      BY <1>0, <2>1 DEF TypeOK, Quiet, Live
    <2>3. Goto(p, "sleeping", None) \/ Leave(p)
      BY <1>2 DEF Exited
    <2>4. CASE Goto(p, "sleeping", None)
      BY <1>0, <2>1, <2>2, <2>4, MoveStep DEF fields, TypeOK
    <2>5. CASE Leave(p)
      BY <1>0, <2>1, <2>5, LeaveStep DEF fields, TypeOK
    <2> QED
      BY <2>3, <2>4, <2>5
  <1>3. CASE AutoStart(p)
    BY <1>0, <1>3, StartStep DEF AutoStart, TypeOK
  <1>4. CASE Spawned(p)
    BY <1>0, <1>4, SpawnedStep
  <1> QED
    BY <1>1, <1>2, <1>3, <1>4 DEF WaitTask

\* What a request does.
LEMMA RequestStep ==
    ASSUME IInv, NEW r \in Requests,
           \/ StartRequest(r) \/ StopRequest(r) \/ RestartRequest(r) \/ KillExternal(r)
           \/ Shutdown(r) \/ Handler(r)
    PROVE  IInv'
  <1>0. TypeOK /\ r \in Coroutines /\ r \notin Pids
    BY ConstantsAssumption DEF IInv, Coroutines
  <1>1. CASE StartRequest(r)
    BY <1>0, <1>1, StartStep DEF StartRequest, TypeOK
  <1>2. CASE StopRequest(r)
    BY <1>0, <1>2, TerminateStep DEF StopRequest, TypeOK
  <1>3. CASE RestartRequest(r)
    <2>1. CASE Running /\ Terminate(r) /\ restarting' = restarting \cup {r}
      BY <1>0, <1>3, <2>1, TerminateStep DEF RestartRequest, Running, TypeOK
    <2>2. CASE ~Running /\ Start(r, FALSE) /\ UNCHANGED restarting
      BY <1>0, <1>3, <2>2, StartStep DEF RestartRequest, TypeOK
    <2> QED
      BY <1>3, <2>1, <2>2 DEF RestartRequest
  <1>4. CASE KillExternal(r)
    <2>1. Quiet /\ TypeOK'
      BY <1>0, <1>4 DEF KillExternal, fields, TypeOK, ProcState, External, Live, Quiet
    <2> QED
      BY <1>4, <2>1, QuietStep DEF KillExternal
  <1>5. CASE Shutdown(r)
    <2>1. /\ autoRestart' \in BOOLEAN /\ closing' \in BOOLEAN
          /\ UNCHANGED <<killExisting, psWorks, process>>
      BY <1>0, <1>5 DEF Shutdown, TypeOK
    <2>2. CASE Running /\ Terminate(r) /\ UNCHANGED <<tasks, restarting>>
      BY <1>0, <2>1, <2>2, TerminateStep DEF Running, TypeOK
    <2>3. CASE ~Running /\ CleanupTasks(r)
      BY <2>1, <2>3, CleanupStep
    <2> QED
      BY <1>5, <2>2, <2>3 DEF Shutdown
  <1>6. CASE Spawned(r)
    BY <1>0, <1>6, SpawnedStep
  <1>7. CASE LeftoversKilled(r)
    <2>1. killExisting
      BY <1>7 DEF LeftoversKilled, IInv, KillingIsAsked
    <2>2. /\ StartTyped
          /\ \A q \in Requests : pc'[q] # pc[q] => pc'[q] # "killing"
      BY <1>0, <1>7, SpawnType DEF LeftoversKilled
    <2>3. TypeOK' /\ killExisting' = killExisting
      BY <1>0, <1>7, <2>2 DEF LeftoversKilled, TypeOK, StartTyped
    <2> QED
      BY <2>1, <2>3 DEF IInv, KillingIsAsked, AtMostOneProcess
  <1>8. CASE Stopped(r)
    BY <1>0, <1>8, CleanupStep DEF Stopped, TypeOK
  <1>9. CASE TasksAwaited(r)
    BY <1>0, <1>9, CleanedStep DEF TasksAwaited, TypeOK
  <1> QED
    BY <1>1, <1>2, <1>3, <1>4, <1>5, <1>6, <1>7, <1>8, <1>9 DEF Handler

LEMMA Inductive == IInv /\ [Next]_vars => IInv'
  <1> SUFFICES ASSUME IInv, [Next]_vars PROVE IInv'
    OBVIOUS
  <1>1. CASE \E r \in Requests :
               \/ StartRequest(r) \/ StopRequest(r) \/ RestartRequest(r)
               \/ KillExternal(r) \/ Shutdown(r) \/ Handler(r)
    BY <1>1, RequestStep
  <1>2. CASE \E p \in Pids : WaitTask(p)
    BY <1>2, WaitTaskStep
  <1>3. ASSUME NEW p \in Pids, Exits(p) PROVE IInv'
    <2>1. Quiet /\ TypeOK'
      BY <1>3 DEF Exits, fields, IInv, TypeOK, ProcState, Live, Quiet
    <2> QED
      BY <1>3, <2>1, QuietStep DEF Exits
  <1>4. CASE UNCHANGED vars
    BY <1>4 DEF vars, fields, IInv, TypeOK, KillingIsAsked, AtMostOneProcess, Live
  <1> QED
    BY <1>1, <1>2, <1>3, <1>4 DEF Next

-----------------------------------------------------------------------------
(* A stop and the automatic restart. *)

\* A restart that is pending after a stop is being cancelled: the stop is not
\* over. Only a spawn clears _stopping, and only while it is clear does a task
\* go to sleep.
StopInv ==
    stopping /\ tasks # None /\ pc[tasks] \in {"sleeping", "spawning"} =>
        \E r \in Requests : pc[r] \in {"stopping", "cleaning"}

\* No pending restart comes from a coroutine that goes elsewhere, unless it is
\* the stop itself.
LEMMA GotoKeepsStop ==
    ASSUME TypeOK, StopInv, NEW co \in Coroutines, NEW label, NEW STATE p, Goto(co, label, p),
           tasks' = tasks, stopping' => stopping,
           label \notin {"sleeping", "spawning"},
           pc[co] \notin {"stopping", "cleaning"}
    PROVE  StopInv'
  <1> SUFFICES ASSUME stopping', tasks' # None, pc'[tasks'] \in {"sleeping", "spawning"}
               PROVE  \E r \in Requests : pc'[r] \in {"stopping", "cleaning"}
    BY DEF StopInv
  <1>1. tasks \in Coroutines /\ pc' = [pc EXCEPT ![co] = label]
    BY DEF TypeOK, Coroutines, Goto
  <1>2. \A q \in Coroutines : pc'[q] = IF q = co THEN label ELSE pc[q]
    BY <1>1 DEF TypeOK
  <1>3. pc[tasks] \in {"sleeping", "spawning"} /\ stopping /\ tasks # None
    BY <1>1, <1>2
  <1>4. PICK r \in Requests : pc[r] \in {"stopping", "cleaning"}
    BY <1>3 DEF StopInv
  <1> QED
    BY <1>2, <1>4 DEF Coroutines

\* Nor from start(): it leaves, waits, or clears _stopping.
LEMMA StartKeepsStop ==
    ASSUME TypeOK, StopInv, NEW co \in Coroutines,
           \/ Leave(co) /\ UNCHANGED <<stopping, proc>>
           \/ KillLeftovers(co)
           \/ Spawn(co),
           tasks' = tasks, pc[co] \notin {"stopping", "cleaning"}
    PROVE  StopInv'
  <1>1. CASE Leave(co) /\ UNCHANGED <<stopping, proc>>
    <2>1. CASE co \in Requests
      BY <1>1, <2>1, GotoKeepsStop DEF Leave
    <2>2. CASE co \notin Requests
      BY <1>1, <2>2, GotoKeepsStop DEF Leave
    <2> QED
      BY <2>1, <2>2
  <1>2. CASE KillLeftovers(co)
    BY <1>2, GotoKeepsStop DEF KillLeftovers
  <1>3. CASE Spawn(co)
    BY <1>3 DEF Spawn, StopInv
  <1> QED
    BY <1>1, <1>2, <1>3

\* A stop begins.
LEMMA TerminateKeepsStop ==
    ASSUME TypeOK, NEW r \in Requests, Terminate(r)
    PROVE  StopInv'
  <1>1. pc'[r] = "stopping"
    BY DEF Terminate, Goto, TypeOK, Coroutines
  <1> QED
    BY <1>1 DEF StopInv

\* A stop takes the task in _tasks out, or the task is over.
LEMMA CleanupKeepsStop ==
    ASSUME TypeOK, NEW r \in Requests, CleanupTasks(r)
    PROVE  StopInv'
  <1>1. CASE Cleaned(r)
    BY <1>1 DEF Cleaned, StopInv
  <1>2. CASE /\ tasks # None
             /\ pc' = [pc EXCEPT ![r] = "cleaning", ![tasks] = "done"]
             /\ tasks' = tasks
    <2>1. tasks \in Pids /\ pc'[tasks] = "done"
      BY <1>2 DEF TypeOK, Coroutines
    <2> QED
      BY <1>2, <2>1 DEF StopInv
  <1> QED
    BY <1>1, <1>2 DEF CleanupTasks

\* A process is managed and its task created.
LEMMA SpawnedKeepsStop ==
    ASSUME TypeOK, NEW co \in Coroutines, Spawned(co)
    PROVE  StopInv'
  <1>1. CASE arg[co] \in Pids
    <2>1. tasks' = arg[co] /\ pc'[arg[co]] = "created"
      BY <1>1 DEF Spawned, TypeOK, Coroutines
    <2> QED
      BY <2>1 DEF StopInv
  <1>2. CASE arg[co] = None
    BY <1>2 DEF Spawned, StopInv
  <1> QED
    BY <1>1, <1>2 DEF TypeOK

\* Every step.
LEMMA StopInductive == TypeOK /\ StopInv /\ [Next]_vars => StopInv'
  <1> SUFFICES ASSUME TypeOK, StopInv, [Next]_vars PROVE StopInv'
    OBVIOUS
  <1>1. ASSUME NEW r \in Requests,
               \/ StartRequest(r) \/ StopRequest(r) \/ RestartRequest(r)
               \/ KillExternal(r) \/ Shutdown(r) \/ Handler(r)
        PROVE  StopInv'
    <2>0. r \in Coroutines
      BY DEF Coroutines
    <2>1. CASE StartRequest(r)
      <3>1. /\ (Leave(r) /\ UNCHANGED <<stopping, proc>>) \/ KillLeftovers(r) \/ Spawn(r)
            /\ tasks' = tasks /\ pc[r] = "idle"
        BY <2>1 DEF StartRequest, Accepted, Start
      <3> QED
        BY <2>0, <3>1, StartKeepsStop
    <2>2. CASE StopRequest(r)
      BY <2>2, TerminateKeepsStop DEF StopRequest
    <2>3. CASE RestartRequest(r)
      <3>1. /\ \/ Terminate(r)
               \/ (Leave(r) /\ UNCHANGED <<stopping, proc>>) \/ KillLeftovers(r) \/ Spawn(r)
            /\ tasks' = tasks /\ pc[r] = "idle"
        BY <2>3 DEF RestartRequest, Accepted, Start
      <3> QED
        BY <2>0, <3>1, StartKeepsStop, TerminateKeepsStop
    <2>4. CASE KillExternal(r)
      BY <2>4 DEF KillExternal, fields, StopInv
    <2>5. CASE Shutdown(r)
      BY <2>5, TerminateKeepsStop, CleanupKeepsStop DEF Shutdown
    <2>6. CASE Spawned(r)
      BY <2>0, <2>6, SpawnedKeepsStop
    <2>7. CASE LeftoversKilled(r)
      BY <2>7 DEF LeftoversKilled, Spawn, StopInv
    <2>8. CASE Stopped(r)
      BY <2>8, CleanupKeepsStop DEF Stopped
    <2>9. CASE TasksAwaited(r)
      BY <2>9 DEF TasksAwaited, Cleaned, StopInv
    <2> QED
      BY <1>1, <2>1, <2>2, <2>3, <2>4, <2>5, <2>6, <2>7, <2>8, <2>9 DEF Handler
  <1>2. ASSUME NEW p \in Pids, WaitTask(p) PROVE StopInv'
    <2>0. p \in Coroutines /\ p \notin Requests
      BY ConstantsAssumption DEF Coroutines
    <2>1. CASE WaitExit(p)
      BY <2>0, <2>1, GotoKeepsStop DEF WaitExit, fields
    <2>2. CASE Exited(p)
      <3>1. CASE ~stopping
        BY <2>2, <3>1 DEF Exited, fields, StopInv
      <3>2. CASE stopping
        <4>1. Goto(p, "done", None) /\ tasks' = tasks /\ stopping' = stopping
          BY <2>0, <2>2, <3>2 DEF Exited, fields, Leave
        <4>2. pc[p] = "waiting"
          BY <2>2 DEF Exited
        <4> QED
          BY <2>0, <4>1, <4>2, GotoKeepsStop
      <3> QED
        BY <3>1, <3>2
    <2>3. CASE AutoStart(p)
      <3>1. /\ (Leave(p) /\ UNCHANGED <<stopping, proc>>) \/ KillLeftovers(p) \/ Spawn(p)
            /\ tasks' = tasks /\ pc[p] = "sleeping"
        BY <2>3 DEF AutoStart, Start
      <3> QED
        BY <2>0, <3>1, StartKeepsStop
    <2>4. CASE Spawned(p)
      BY <2>0, <2>4, SpawnedKeepsStop
    <2> QED
      BY <1>2, <2>1, <2>2, <2>3, <2>4 DEF WaitTask
  <1>3. ASSUME NEW p \in Pids, Exits(p) PROVE StopInv'
    BY <1>3 DEF Exits, fields, StopInv
  <1>4. CASE UNCHANGED vars
    BY <1>4 DEF vars, fields, StopInv
  <1> QED
    BY <1>1, <1>2, <1>3, <1>4 DEF Next

-----------------------------------------------------------------------------
(* The theorems. *)

\* The type invariant, for any requests and processes.
THEOREM TypeCorrect == Spec => []TypeOK
  <1>1. IInv => TypeOK
    BY DEF IInv
  <1> QED
    BY <1>1, Initially, Inductive, PTL DEF Spec

\* While ps answers and no request asks to kill leftovers, no two processes of the
\* service are alive at once: of the starts, restarts and automatic restarts that cross,
\* one spawns, and the others see its process (service_manager.py:143-161).
THEOREM AtMostOneCorrect == Spec => []AtMostOneProcess
  <1>1. IInv => AtMostOneProcess
    BY DEF IInv
  <1> QED
    BY <1>1, Initially, Inductive, PTL DEF Spec

\* A stop that is answered has cancelled the automatic restart it could know of
\* (service_manager.py:214).
THEOREM StopCorrect == Spec => []StopCancelsRestart
  <1>1. Init => StopInv
    BY DEF Init, StopInv
  <1>2. StopInv => StopCancelsRestart
    BY DEF StopInv, StopCancelsRestart
  <1> QED
    BY <1>1, <1>2, TypeCorrect, StopInductive, PTL DEF Spec
=============================================================================
