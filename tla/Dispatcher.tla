----------------------------- MODULE Dispatcher -----------------------------
(***************************************************************************)
(* EventDispatcher: the bounded pool that runs the application's handlers. *)
(* The reader of each client emits messages; a message for a path without  *)
(* block=True becomes a task of its own, a message for a blocking path is  *)
(* queued under its (path, client) key and run by the key's drainer, which *)
(* is one task of the pool. A handler that fails reports an ERROR event,   *)
(* from the worker that runs it, through the same pool.                    *)
(*                                                                         *)
(* concurrent.futures.ThreadPoolExecutor is external: a FIFO of tasks and  *)
(* a fixed set of workers, closed to new tasks by its shutdown.            *)
(***************************************************************************)
EXTENDS Integers, Sequences, FiniteSets

CONSTANTS
    Clients,     \* each has one reader thread, which emits in arrival order
    Paths,       \* the blocking paths
    Workers,     \* the threads of the executor
    MaxPending,  \* max_pending_tasks
    MaxEmits,    \* bound: messages each client sends
    MayClose,    \* may the application shut the dispatcher down?
    NoJob        \* "no job"

ASSUME DispatcherAssumption ==
    /\ MaxPending \in Nat \ {0}
    /\ MaxEmits \in Nat
    /\ MayClose \in BOOLEAN
    /\ Clients \cap Workers = {}
    /\ NoJob \notin Clients \X (1..MaxEmits)
    /\ IsFiniteSet(Clients) /\ IsFiniteSet(Workers)

Jobs    == Clients \X (1..MaxEmits)   \* the n-th message of a client
Keys    == Paths \X Clients
Threads == Clients \cup Workers       \* the threads that call _submit

\* The callbacks given to _submit.
Handle(j) == <<"handle", j>>     \* _dispatch of a path that does not block
Drain(k)  == <<"drain", k>>      \* the drainer of a key
Report    == <<"report">>        \* the handlers of the ERROR event
Tasks     == {Handle(j) : j \in Jobs} \cup {Drain(k) : k \in Keys} \cup {Report}
NoTask    == <<>>

VARIABLES
    emitted,       \* how many messages each client has sent
    slots,         \* permits left in _task_slots
    closed,        \* _closed
    activeTasks,   \* _active_tasks
    serialQueues,  \* _serial_queues, <<>> for an absent key
    serialActive,  \* _serial_active
    wedged,        \* auxiliary: keys whose drainer _submit refused
    submit,        \* where each thread is inside _submit
    workQueue,     \* the executor's queue
    poolClosed,    \* has the executor been shut down?
    worker         \* what each worker is doing

serialVars == <<serialQueues, serialActive, wedged>>
poolVars   == <<workQueue, poolClosed, worker>>
vars == <<emitted, slots, closed, activeTasks, serialVars, submit, poolVars>>

Submitting(place, t) == [at |-> place, task |-> t]
Outside == Submitting("outside", NoTask)
Working(place, t, j) == [at |-> place, task |-> t, job |-> j]
Idle == Working("idle", NoTask, NoJob)

Init ==
    /\ emitted = [c \in Clients |-> 0]
    /\ slots = MaxPending
    /\ closed = FALSE
    /\ activeTasks = 0
    /\ serialQueues = [k \in Keys |-> <<>>]
    /\ serialActive = {}
    /\ wedged = {}
    /\ submit = [t \in Threads |-> Outside]
    /\ workQueue = <<>>
    /\ poolClosed = FALSE
    /\ worker = [w \in Workers |-> Idle]

----------------------------------------------------------------------------
(* emit_path, on the reader thread of client c.                            *)

NextJob(c) == <<c, emitted[c] + 1>>

MayEmit(c) ==
    /\ submit[c] = Outside
    /\ emitted[c] < MaxEmits
    /\ emitted' = [emitted EXCEPT ![c] = @ + 1]

EmitPath(c) ==
    /\ MayEmit(c)
    /\ submit' = [submit EXCEPT ![c] = Submitting("acquire", Handle(NextJob(c)))]
    /\ UNCHANGED <<slots, closed, activeTasks, serialVars, poolVars>>

\* Mutant: every job of a key starts a drainer.
EmitSerialAlwaysStarts(c, p) ==
    LET k == <<p, c>> IN
    /\ MayEmit(c)
    /\ Len(serialQueues[k]) < MaxPending
    /\ serialQueues' = [serialQueues EXCEPT ![k] = Append(@, NextJob(c))]
    /\ serialActive' = serialActive \cup {k}
    /\ submit' = [submit EXCEPT ![c] = Submitting("acquire", Drain(k))]
    /\ UNCHANGED <<slots, closed, activeTasks, wedged, poolVars>>

\* _enqueue_serial under _serial_lock: the key is marked active here, the
\* drainer is submitted after the lock is released.
EmitSerial(c, p) ==
    LET k == <<p, c>> IN
    /\ MayEmit(c)
    /\ IF Len(serialQueues[k]) >= MaxPending
          THEN UNCHANGED <<serialVars, submit>>
          ELSE /\ serialQueues' =
                    [serialQueues EXCEPT ![k] = Append(@, NextJob(c))]
               /\ serialActive' = serialActive \cup {k}
               /\ submit' = IF k \in serialActive THEN submit
                            ELSE [submit EXCEPT ![c] = Submitting("acquire", Drain(k))]
               /\ wedged' = wedged
    /\ UNCHANGED <<slots, closed, activeTasks, poolVars>>

----------------------------------------------------------------------------
(* _submit, on thread t.                                                   *)

Move(t, place) == submit' = [submit EXCEPT ![t].at = place]

\* An exception leaves _submit. Nothing undoes what _enqueue_serial did.
Raise(t) ==
    /\ submit' = [submit EXCEPT ![t] = Outside]
    /\ wedged' = wedged \cup {k \in Keys : submit[t].task = Drain(k)}
    /\ UNCHANGED <<serialQueues, serialActive>>

\* Mutant: the pool has no bound.
AcquireUnbounded(t) ==
    /\ submit[t].at = "acquire"
    /\ slots' = slots - 1
    /\ Move(t, "check")
    /\ UNCHANGED <<emitted, closed, activeTasks, serialVars, poolVars>>

Acquire(t) ==
    /\ submit[t].at = "acquire"
    /\ slots > 0
    /\ slots' = slots - 1
    /\ Move(t, "check")
    /\ UNCHANGED <<emitted, closed, activeTasks, serialVars, poolVars>>

\* queue_timeout runs out.
AcquireTimeout(t) ==
    /\ submit[t].at = "acquire"
    /\ slots = 0
    /\ Raise(t)
    /\ UNCHANGED <<emitted, slots, closed, activeTasks, poolVars>>

\* Mutant: a closed dispatcher keeps the slot it took.
CheckOpenKeepsSlot(t) ==
    /\ submit[t].at = "check"
    /\ IF closed THEN Raise(t) ELSE Move(t, "count") /\ UNCHANGED serialVars
    /\ UNCHANGED <<emitted, slots, closed, activeTasks, poolVars>>

CheckOpen(t) ==
    /\ submit[t].at = "check"
    /\ IF closed THEN slots' = slots + 1 /\ Raise(t)
                 ELSE slots' = slots /\ Move(t, "count") /\ UNCHANGED serialVars
    /\ UNCHANGED <<emitted, closed, activeTasks, poolVars>>

CountTask(t) ==
    /\ submit[t].at = "count"
    /\ activeTasks' = activeTasks + 1
    /\ Move(t, "submit")
    /\ UNCHANGED <<emitted, slots, closed, serialVars, poolVars>>

\* executor.submit raises RuntimeError once the executor is shut down.
SubmitTask(t) ==
    /\ submit[t].at = "submit"
    /\ IF poolClosed
          THEN Move(t, "uncount") /\ workQueue' = workQueue
          ELSE /\ submit' = [submit EXCEPT ![t] = Outside]
               /\ workQueue' = Append(workQueue, submit[t].task)
    /\ UNCHANGED <<emitted, slots, closed, activeTasks, serialVars, poolClosed,
                   worker>>

\* Mutant: a task that the executor refused is still counted.
UncountNothing(t) ==
    /\ submit[t].at = "uncount"
    /\ Move(t, "return")
    /\ UNCHANGED <<emitted, slots, closed, activeTasks, serialVars, poolVars>>

UncountTask(t) ==
    /\ submit[t].at = "uncount"
    /\ activeTasks' = activeTasks - 1
    /\ Move(t, "return")
    /\ UNCHANGED <<emitted, slots, closed, serialVars, poolVars>>

ReturnSlot(t) ==
    /\ submit[t].at = "return"
    /\ slots' = slots + 1
    /\ Raise(t)
    /\ UNCHANGED <<emitted, closed, activeTasks, poolVars>>

----------------------------------------------------------------------------
(* A worker: _run_task around a callback.                                  *)

TakeTask(w) ==
    /\ worker[w] = Idle
    /\ workQueue # <<>>
    /\ worker' = [worker EXCEPT ![w] =
         LET t == Head(workQueue) IN
         CASE t[1] = "handle" -> Working("job", t, t[2])
           [] t[1] = "drain"  -> Working("drain", t, NoJob)
           [] t[1] = "report" -> Working("release", t, NoJob)]
    /\ workQueue' = Tail(workQueue)
    /\ UNCHANGED <<emitted, slots, closed, activeTasks, serialVars, submit,
                   poolClosed>>

\* Mutant: the drainer takes the newest job, pop() for popleft().
DrainNewest(w) ==
    LET k == worker[w].task[2]
        n == Len(serialQueues[k])
    IN
    /\ worker[w].at = "drain"
    /\ IF n = 0
          THEN /\ serialActive' = serialActive \ {k}
               /\ worker' = [worker EXCEPT ![w].at = "release"]
               /\ serialQueues' = serialQueues
          ELSE /\ worker' = [worker EXCEPT ![w] =
                               Working("job", @.task, serialQueues[k][n])]
               /\ serialQueues' = [serialQueues EXCEPT ![k] = SubSeq(@, 1, n - 1)]
               /\ serialActive' = serialActive
    /\ UNCHANGED <<emitted, slots, closed, activeTasks, wedged, submit,
                   workQueue, poolClosed>>

\* _drain under _serial_lock: the next job of the key, or the end of the drainer.
DrainStep(w) ==
    LET k == worker[w].task[2] IN
    /\ worker[w].at = "drain"
    /\ IF serialQueues[k] = <<>>
          THEN /\ serialActive' = serialActive \ {k}
               /\ worker' = [worker EXCEPT ![w].at = "release"]
               /\ serialQueues' = serialQueues
          ELSE /\ worker' = [worker EXCEPT ![w] =
                               Working("job", @.task, Head(serialQueues[k]))]
               /\ serialQueues' = [serialQueues EXCEPT ![k] = Tail(@)]
               /\ serialActive' = serialActive
    /\ UNCHANGED <<emitted, slots, closed, activeTasks, wedged, submit,
                   workQueue, poolClosed>>

After(t) == IF t[1] = "drain" THEN "drain" ELSE "release"

\* The handlers return, or one fails and _report_handler_error emits ERROR.
EndJob(w) ==
    /\ worker[w].at = "job"
    /\ worker' = [worker EXCEPT ![w] = Working(After(@.task), @.task, NoJob)]
    /\ UNCHANGED <<emitted, slots, closed, activeTasks, serialVars, submit,
                   workQueue, poolClosed>>

FailJob(w) ==
    /\ worker[w].at = "job"
    /\ worker' = [worker EXCEPT ![w].at = "reporting"]
    /\ submit' = [submit EXCEPT ![w] = Submitting("acquire", Report)]
    /\ UNCHANGED <<emitted, slots, closed, activeTasks, serialVars, workQueue,
                   poolClosed>>

\* Mutant: a job that fails ends its drainer.
ReportedEnds(w) ==
    /\ worker[w].at = "reporting"
    /\ submit[w] = Outside
    /\ worker' = [worker EXCEPT ![w] = Working("release", @.task, NoJob)]
    /\ UNCHANGED <<emitted, slots, closed, activeTasks, serialVars, submit,
                   workQueue, poolClosed>>

\* Whether or not ERROR was queued, the worker goes on.
Reported(w) ==
    /\ worker[w].at = "reporting"
    /\ submit[w] = Outside
    /\ worker' = [worker EXCEPT ![w] = Working(After(@.task), @.task, NoJob)]
    /\ UNCHANGED <<emitted, slots, closed, activeTasks, serialVars, submit,
                   workQueue, poolClosed>>

ReleaseSlot(w) ==
    /\ worker[w].at = "release"
    /\ slots' = slots + 1
    /\ worker' = [worker EXCEPT ![w].at = "finish"]
    /\ UNCHANGED <<emitted, closed, activeTasks, serialVars, submit, workQueue,
                   poolClosed>>

\* Mutant: the task that ends stays counted.
FinishUncounted(w) ==
    /\ worker[w].at = "finish"
    /\ worker' = [worker EXCEPT ![w] = Idle]
    /\ UNCHANGED <<emitted, slots, closed, activeTasks, serialVars, submit,
                   workQueue, poolClosed>>

FinishTask(w) ==
    /\ worker[w].at = "finish"
    /\ activeTasks' = activeTasks - 1
    /\ worker' = [worker EXCEPT ![w] = Idle]
    /\ UNCHANGED <<emitted, slots, closed, serialVars, submit, workQueue,
                   poolClosed>>

----------------------------------------------------------------------------
(* shutdown: the flag first, the executor afterwards. Queued tasks still run. *)

Close ==
    /\ MayClose
    /\ ~closed
    /\ closed' = TRUE
    /\ UNCHANGED <<emitted, slots, activeTasks, serialVars, submit, poolVars>>

ShutdownPool ==
    /\ closed
    /\ ~poolClosed
    /\ poolClosed' = TRUE
    /\ UNCHANGED <<emitted, slots, closed, activeTasks, serialVars, submit,
                   workQueue, worker>>

----------------------------------------------------------------------------
Submit(t) ==
    \/ Acquire(t) \/ AcquireTimeout(t) \/ CheckOpen(t) \/ CountTask(t)
    \/ SubmitTask(t) \/ UncountTask(t) \/ ReturnSlot(t)

Work(w) ==
    \/ TakeTask(w) \/ DrainStep(w) \/ EndJob(w) \/ FailJob(w) \/ Reported(w)
    \/ ReleaseSlot(w) \/ FinishTask(w)

Next ==
    \/ \E c \in Clients : EmitPath(c) \/ \E p \in Paths : EmitSerial(c, p)
    \/ \E t \in Threads : Submit(t)
    \/ \E w \in Workers : Work(w)
    \/ Close
    \/ ShutdownPool

\* Threads run and handlers return; nothing makes a client send.
Fairness ==
    /\ \A t \in Threads : WF_vars(Submit(t))
    /\ \A w \in Workers : WF_vars(Work(w))

Spec == Init /\ [][Next]_vars /\ Fairness

----------------------------------------------------------------------------
SubmitPlaces == {"outside", "acquire", "check", "count", "submit", "uncount",
                 "return"}
WorkPlaces == {"idle", "job", "drain", "reporting", "release", "finish"}

(* Every variable keeps its shape.                                          *)
TypeOK ==
    /\ emitted \in [Clients -> 0..MaxEmits]
    /\ slots \in Nat
    /\ closed \in BOOLEAN
    /\ activeTasks \in Int
    /\ serialQueues \in [Keys -> Seq(Jobs)]
    /\ serialActive \subseteq Keys
    /\ wedged \subseteq Keys
    /\ submit \in [Threads -> [at : SubmitPlaces, task : Tasks \cup {NoTask}]]
    /\ workQueue \in Seq(Tasks)
    /\ poolClosed \in BOOLEAN
    /\ worker \in [Workers -> [at : WorkPlaces, task : Tasks \cup {NoTask},
                               job : Jobs \cup {NoJob}]]

HoldsSlot  == {t \in Threads :
                 submit[t].at \in {"check", "count", "submit", "uncount", "return"}}
UsesSlot   == {w \in Workers : worker[w].at \notin {"idle", "finish"}}
Counted    == {t \in Threads : submit[t].at \in {"submit", "uncount"}}
Busy       == {w \in Workers : worker[w].at # "idle"}

(* No slot of the pool is lost or returned twice, whatever fails: the       *)
(* permits that are out are those of the tasks queued or running and of the *)
(* threads that hold one inside _submit. (One release too many raises       *)
(* ValueError from the BoundedSemaphore; a lost one shrinks the pool.)      *)
SlotsConserved ==
    slots + Cardinality(HoldsSlot) + Len(workQueue) + Cardinality(UsesSlot)
        = MaxPending

(* _active_tasks counts every task queued or running, so wait_idle cannot   *)
(* return True before an accepted task has ended, nor wait for one that was *)
(* refused.                                                                 *)
ActiveTasksExact ==
    activeTasks = Cardinality(Counted) + Len(workQueue) + Cardinality(Busy)

\* The threads, workers and queue positions that hold the drainer of k.
Drainers(k) ==
    {t \in Threads : submit[t].task = Drain(k)}
        \cup {w \in Workers : worker[w].task = Drain(k)
                                 /\ worker[w].at \notin {"release", "finish"}}
        \cup {i \in 1..Len(workQueue) : workQueue[i] = Drain(k)}

(* A key has one drainer at most, in whatever stage it is; it has one, or   *)
(* is known to have lost it, exactly while it is marked active; and no job  *)
(* waits under a key that is not.                                           *)
OneDrainer ==
    \A k \in Keys :
        /\ Cardinality(Drainers(k)) = IF k \in serialActive \ wedged THEN 1 ELSE 0
        /\ serialQueues[k] # <<>> => k \in serialActive

\* The job of key k that a worker runs now.
Running(k) ==
    IF \E w \in Workers : worker[w].task = Drain(k) /\ worker[w].job # NoJob
    THEN worker[CHOOSE w \in Workers :
                  worker[w].task = Drain(k) /\ worker[w].job # NoJob].job
    ELSE NoJob

Serial == INSTANCE SerialExecutor
            WITH backlog <- serialQueues, running <- [k \in Keys |-> Running(k)]

(* "Jobs run in arrival order", one at a time per (path, client).           *)
SerialPerKey == Serial!Spec

(* A job queued under a key is run in the end, unless _submit refused the   *)
(* key's drainer.                                                           *)
QueuedJobsRun ==
    \A k \in Keys :
        (serialQueues[k] # <<>>) ~> (serialQueues[k] = <<>> \/ k \in wedged)

(* A dispatcher whose clients are done becomes idle: wait_idle returns.     *)
BecomesIdle ==
    (\A c \in Clients : emitted[c] = MaxEmits) ~> (activeTasks = 0)

(* dispatcher.py:294-299, "Only the first job for a key starts a drainer.   *)
(* That drainer stays on the pool for the whole backlog": a job that was    *)
(* queued behind another, which emit_path accepts without an error, is run. *)
BacklogIsRun ==
    \A k \in Keys : (Len(serialQueues[k]) > 1) ~> (serialQueues[k] = <<>>)

=============================================================================
