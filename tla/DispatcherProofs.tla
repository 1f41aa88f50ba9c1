-------------------------- MODULE DispatcherProofs --------------------------
(***************************************************************************)
(* The safety properties of Dispatcher, for any number of clients, paths,  *)
(* workers and slots: no slot is lost, the count of tasks is exact, a key  *)
(* has one drainer at most, and the jobs of a key run in order.            *)
(***************************************************************************)
EXTENDS Dispatcher, FiniteSetTheorems, TLAPS

----------------------------------------------------------------------------
(* The callbacks of _submit are told apart by their first component.       *)

\* The worker's CASE on a callback has exactly one branch that applies.
LEMMA TaskKinds ==
    /\ \A j : Handle(j)[1] = "handle" /\ Handle(j)[2] = j
    /\ \A k : Drain(k)[1] = "drain" /\ Drain(k)[2] = k
    /\ Report[1] = "report"
    /\ \A j, k : Handle(j) # Drain(k) /\ Handle(j) # Report /\ Drain(k) # Report
    /\ \A k : Drain(k) # NoTask
    /\ \A k, l : Drain(k) = Drain(l) => k = l
    /\ \A t \in Tasks : t[1] \in {"handle", "drain", "report"}
    /\ \A t \in Tasks : t[1] = "handle" => t[2] \in Jobs
    /\ \A t \in Tasks : t[1] = "drain" => t[2] \in Keys /\ t = Drain(t[2])
  <1>1. /\ \A j : Handle(j)[1] = "handle" /\ Handle(j)[2] = j
        /\ \A k : Drain(k)[1] = "drain" /\ Drain(k)[2] = k
        /\ Report[1] = "report"
    BY DEF Handle, Drain, Report
  <1>2. \A j, k : Handle(j) # Drain(k) /\ Handle(j) # Report /\ Drain(k) # Report
    BY <1>1
  <1>3. \A k : Drain(k) # NoTask
    BY DEF Drain, NoTask
  <1>4. \A k, l : Drain(k) = Drain(l) => k = l
    BY <1>1
  <1> QED
    BY <1>1, <1>2, <1>3, <1>4 DEF Tasks

\* What a worker does with the task it takes from the queue.
LEMMA TakenTask ==
    ASSUME TypeOK, NEW w \in Workers, TakeTask(w)
    PROVE  LET t == Head(workQueue) IN
           /\ t \in Tasks
           /\ workQueue' \in Seq(Tasks)
           /\ Len(workQueue') = Len(workQueue) - 1
           /\ \/ t[1] = "handle" /\ worker' = [worker EXCEPT ![w] = Working("job", t, t[2])]
              \/ t[1] = "drain" /\ worker' = [worker EXCEPT ![w] = Working("drain", t, NoJob)]
              \/ t[1] = "report" /\ worker' = [worker EXCEPT ![w] = Working("release", t, NoJob)]
  <1> DEFINE t == Head(workQueue)
  <1>1. workQueue \in Seq(Tasks) /\ workQueue # <<>> /\ workQueue' = Tail(workQueue)
    BY DEF TypeOK, TakeTask
  <1>2. t \in Tasks /\ workQueue' \in Seq(Tasks) /\ Len(workQueue') = Len(workQueue) - 1
    BY <1>1
  <1>3. t[1] \in {"handle", "drain", "report"}
    BY <1>2, TaskKinds
  <1>4. worker' = [worker EXCEPT ![w] =
          CASE t[1] = "handle" -> Working("job", t, t[2])
            [] t[1] = "drain"  -> Working("drain", t, NoJob)
            [] t[1] = "report" -> Working("release", t, NoJob)]
    BY DEF TakeTask
  <1> QED
    BY <1>2, <1>3, <1>4

----------------------------------------------------------------------------
(* Every variable keeps its shape, and a thread has in hand what its place *)
(* says: TypeOK is not inductive without the second.                       *)

\* A thread inside _submit has a callback; a worker has a task and, while it
\* handles one, a job; it is inside _submit only to report an error.
InHand ==
    /\ \A t \in Threads : IF submit[t].at = "outside" THEN submit[t] = Outside
                                                      ELSE submit[t].task \in Tasks
    /\ \A w \in Workers :
          /\ IF worker[w].at = "idle" THEN worker[w] = Idle
                                      ELSE worker[w].task \in Tasks
          /\ worker[w].at = "drain" => worker[w].task[1] = "drain"
          /\ IF worker[w].at \in {"job", "reporting"} THEN worker[w].job \in Jobs
                                                      ELSE worker[w].job = NoJob
          /\ worker[w].at # "reporting" => submit[w] = Outside
          /\ submit[w].task \in {Report, NoTask}

Shape == TypeOK /\ InHand

SubmitHands == [at : SubmitPlaces, task : Tasks \cup {NoTask}]
WorkHands   == [at : WorkPlaces, task : Tasks \cup {NoTask}, job : Jobs \cup {NoJob}]

\* Every variable has its shape before the first message.
LEMMA ShapeInit == Init => Shape
  <1> SUFFICES ASSUME Init PROVE Shape
    OBVIOUS
  <1> USE DispatcherAssumption DEF Init, Submitting, Outside, Working, Idle
  <1>1. submit \in [Threads -> SubmitHands] /\ worker \in [Workers -> WorkHands]
    BY DEF SubmitHands, WorkHands, SubmitPlaces, WorkPlaces
  <1>2. TypeOK
    <2>1. serialQueues \in [Keys -> Seq(Jobs)] /\ workQueue \in Seq(Tasks)
      OBVIOUS
    <2>2. emitted \in [Clients -> 0..MaxEmits] /\ slots \in Nat
      OBVIOUS
    <2>3. closed \in BOOLEAN /\ poolClosed \in BOOLEAN
      OBVIOUS
    <2>5. activeTasks \in Int
      OBVIOUS
    <2>4. serialActive \subseteq Keys /\ wedged \subseteq Keys
      OBVIOUS
    <2> HIDE DEF Init
    <2> QED
      BY <1>1, <2>1, <2>2, <2>3, <2>4, <2>5 DEF TypeOK, SubmitHands, WorkHands
  <1>3. InHand
    BY DEF InHand, Threads
  <1> QED
    BY <1>2, <1>3 DEF Shape

\* A reader that emits comes from outside _submit and enters it with a task.
LEMMA ShapeEmit ==
    ASSUME Shape, NEW c \in Clients,
           EmitPath(c) \/ \E p \in Paths : EmitSerial(c, p)
    PROVE  Shape'
  <1> USE DispatcherAssumption DEF Shape
  <1>0. MayEmit(c) /\ c \in Threads /\ c \notin Workers
    BY DEF EmitPath, EmitSerial, Threads
  <1>1. MayEmit(c) /\ NextJob(c) \in Jobs /\ c \in Threads /\ c \notin Workers
    <2>1. emitted[c] + 1 \in 1..MaxEmits
      BY <1>0 DEF MayEmit, TypeOK
    <2> QED
      BY <1>0, <2>1 DEF NextJob, Jobs
  <1>s. submit \in [Threads -> SubmitHands]
    BY DEF TypeOK, SubmitHands
  <1>2. emitted' \in [Clients -> 0..MaxEmits]
    BY <1>1 DEF MayEmit, TypeOK
  <1>3. CASE EmitPath(c)
    <2>1. Handle(NextJob(c)) \in Tasks
      BY <1>1 DEF Tasks
    <2>2. submit' \in [Threads -> SubmitHands]
      BY <1>s, <1>1, <1>3, <2>1 DEF EmitPath, SubmitHands, Submitting, SubmitPlaces
    <2>3. TypeOK'
      BY <1>2, <1>3, <2>2 DEF EmitPath, TypeOK, SubmitHands, serialVars, poolVars
    <2>4. InHand'
      BY <1>1, <1>3, <2>1
         DEF EmitPath, InHand, TypeOK, Submitting, Outside, poolVars, Threads
    <2> QED
      BY <2>3, <2>4
  <1>4. ASSUME NEW p \in Paths, EmitSerial(c, p) PROVE Shape'
    <2>1. <<p, c>> \in Keys /\ Drain(<<p, c>>) \in Tasks
      BY DEF Tasks, Keys
    <2>2. serialQueues' \in [Keys -> Seq(Jobs)]
      <3>1. serialQueues \in [Keys -> Seq(Jobs)]
        BY DEF TypeOK
      <3>2. \/ serialQueues' = serialQueues
            \/ serialQueues' = [serialQueues EXCEPT ![<<p, c>>] = Append(@, NextJob(c))]
        BY <1>4 DEF EmitSerial, serialVars
      <3>3. Append(serialQueues[<<p, c>>], NextJob(c)) \in Seq(Jobs)
        BY <1>1, <2>1, <3>1
      <3> QED
        BY <2>1, <3>1, <3>2, <3>3
    <2>3. serialActive' \subseteq Keys /\ wedged' \subseteq Keys
      BY ZenonT(30), <1>4, <2>1 DEF EmitSerial, serialVars, TypeOK
    <2>4. \/ submit' = submit
          \/ submit' = [submit EXCEPT ![c] = Submitting("acquire", Drain(<<p, c>>))]
      BY <1>4 DEF EmitSerial, serialVars
    <2>5. submit' \in [Threads -> SubmitHands]
      BY <1>s, <1>1, <2>1, <2>4 DEF SubmitHands, Submitting, SubmitPlaces
    <2>6. TypeOK'
      BY <1>2, <1>4, <2>2, <2>3, <2>5 DEF EmitSerial, TypeOK, SubmitHands, poolVars
    <2>7. InHand'
      <3>1. worker' = worker
        BY <1>4 DEF EmitSerial, poolVars
      <3> QED
        BY <1>s, <1>1, <2>1, <2>4, <3>1 DEF InHand, Submitting, Outside, Threads
    <2> QED
      BY <2>6, <2>7
  <1> QED
    BY <1>3, <1>4

\* A thread inside _submit keeps its task until it leaves.
LEMMA ShapeSubmit ==
    ASSUME Shape, NEW t \in Threads, Submit(t)
    PROVE  Shape'
  <1> USE DEF Shape
  <1>1. submit[t] \in SubmitHands /\ submit[t].at # "outside"
    BY DEF TypeOK, SubmitHands, Submit, Acquire, AcquireTimeout, CheckOpen, CountTask,
           SubmitTask, UncountTask, ReturnSlot
  <1>2. submit[t].task \in Tasks
    BY <1>1 DEF InHand
  <1>3. \/ \E place \in SubmitPlaces \ {"outside"} : submit' = [submit EXCEPT ![t].at = place]
        \/ submit' = [submit EXCEPT ![t] = Outside]
    BY DEF Submit, Acquire, AcquireTimeout, CheckOpen, CountTask, SubmitTask, UncountTask,
           ReturnSlot, Move, Raise, SubmitPlaces
  <1>s. submit \in [Threads -> SubmitHands]
    BY DEF TypeOK, SubmitHands
  <1>4. submit' \in [Threads -> SubmitHands]
    BY <1>s, <1>3 DEF SubmitHands, Outside, Submitting, SubmitPlaces
  <1>5. worker' = worker /\ emitted' = emitted /\ serialQueues' = serialQueues
        /\ serialActive' = serialActive
    BY DEF Submit, Acquire, AcquireTimeout, CheckOpen, CountTask, SubmitTask, UncountTask,
           ReturnSlot, Raise, serialVars, poolVars
  <1>6. InHand'
    <2>1. \A u \in Threads : IF submit'[u].at = "outside" THEN submit'[u] = Outside
                                                          ELSE submit'[u].task \in Tasks
      BY <1>s, <1>2, <1>3 DEF InHand, SubmitHands, Outside, Submitting
    <2>2. \A w \in Workers : submit'[w].task \in {Report, NoTask}
      BY <1>3 DEF InHand, TypeOK, Outside, Submitting, Threads
    <2>3. \A w \in Workers : worker[w].at # "reporting" => submit'[w] = Outside
      BY <1>1, <1>3 DEF InHand, TypeOK, Outside, Submitting, Threads
    <2> QED
      BY <1>5, <2>1, <2>2, <2>3 DEF InHand
  <1>7. /\ slots' \in Nat /\ closed' \in BOOLEAN /\ activeTasks' \in Int
        /\ wedged' \subseteq Keys /\ poolClosed' \in BOOLEAN
    BY DEF Submit, Acquire, AcquireTimeout, CheckOpen, CountTask, SubmitTask, UncountTask,
           ReturnSlot, Raise, serialVars, poolVars, TypeOK
  <1>8. workQueue' \in Seq(Tasks)
    <2>1. workQueue' = workQueue \/ workQueue' = Append(workQueue, submit[t].task)
      BY DEF Submit, Acquire, AcquireTimeout, CheckOpen, CountTask, SubmitTask,
             UncountTask, ReturnSlot, poolVars
    <2>2. workQueue \in Seq(Tasks)
      BY DEF TypeOK
    <2> QED
      BY <1>2, <2>1, <2>2
  <1> QED
    BY <1>4, <1>5, <1>6, <1>7, <1>8 DEF TypeOK, SubmitHands

\* A worker takes a task, runs its jobs and ends it.
LEMMA ShapeWork ==
    ASSUME Shape, NEW w \in Workers, Work(w)
    PROVE  Shape'
  <1> USE DispatcherAssumption DEF Shape
  <1>s. submit \in [Threads -> SubmitHands] /\ worker \in [Workers -> WorkHands]
    BY DEF TypeOK, SubmitHands, WorkHands
  <1>0. w \in Threads /\ worker[w] \in WorkHands
    BY <1>s DEF Threads
  <1>1. CASE TakeTask(w)
    <2>1. PICK t \in Tasks :
            /\ workQueue' \in Seq(Tasks)
            /\ \/ t[1] = "handle" /\ worker' = [worker EXCEPT ![w] = Working("job", t, t[2])]
               \/ t[1] = "drain" /\ worker' = [worker EXCEPT ![w] = Working("drain", t, NoJob)]
               \/ t[1] = "report" /\ worker' = [worker EXCEPT ![w] = Working("release", t, NoJob)]
      BY <1>1, TakenTask
    <2>2. t[1] = "handle" => t[2] \in Jobs
      BY TaskKinds
    <2>3. worker' \in [Workers -> WorkHands]
      <3>1. Working("job", t, t[2]) \in WorkHands \/ t[1] # "handle"
        BY <2>2 DEF WorkHands, Working, WorkPlaces
      <3>2. /\ Working("drain", t, NoJob) \in WorkHands
            /\ Working("release", t, NoJob) \in WorkHands
        BY DEF WorkHands, Working, WorkPlaces
      <3> QED
        BY <1>s, <2>1, <3>1, <3>2
    <2>4. worker[w].at = "idle"
      BY <1>1 DEF TakeTask, Idle, Working
    <2>5. InHand'
      <3>1. submit' = submit
        BY <1>1 DEF TakeTask
      <3>2. \A v \in Workers \ {w} : worker'[v] = worker[v]
        BY <1>s, <2>1
      <3>3. /\ worker'[w].task = t
            /\ worker'[w].at \in {"job", "drain", "release"}
            /\ worker'[w].at = "drain" => t[1] = "drain"
            /\ IF worker'[w].at = "job" THEN worker'[w].job \in Jobs
                                        ELSE worker'[w].job = NoJob
        BY <1>s, <2>1, <2>2 DEF Working
      <3> QED
        BY <2>4, <3>1, <3>2, <3>3 DEF InHand
    <2> QED
      BY <1>1, <2>1, <2>3, <2>5 DEF TakeTask, TypeOK, WorkHands, serialVars
  <1>2. CASE DrainStep(w)
    <2> DEFINE k == worker[w].task[2]
    <2>1. k \in Keys /\ worker[w].task \in Tasks
      BY <1>0, <1>2, TaskKinds DEF DrainStep, InHand
    <2>2. CASE serialQueues[k] = <<>>
      <3>1. worker' = [worker EXCEPT ![w].at = "release"]
        BY <1>2, <2>2 DEF DrainStep
      <3>2. worker' \in [Workers -> WorkHands]
        BY <3>1 DEF TypeOK, WorkHands, WorkPlaces
      <3>3. InHand'
        BY <1>2, <2>1, <3>1 DEF DrainStep, InHand, TypeOK, Idle, Working
      <3> QED
        BY <1>2, <2>2, <3>2, <3>3 DEF DrainStep, TypeOK, WorkHands
    <2>3. CASE serialQueues[k] # <<>>
      <3>1. Head(serialQueues[k]) \in Jobs /\ Tail(serialQueues[k]) \in Seq(Jobs)
        BY <2>1, <2>3 DEF TypeOK
      <3>2. worker' = [worker EXCEPT ![w] =
                         Working("job", worker[w].task, Head(serialQueues[k]))]
        BY <1>2, <2>3, <1>0 DEF DrainStep, TypeOK
      <3>3. worker' \in [Workers -> WorkHands]
        BY <2>1, <3>1, <3>2 DEF TypeOK, WorkHands, WorkPlaces, Working
      <3>4. InHand'
        BY <1>2, <2>1, <3>1, <3>2 DEF DrainStep, InHand, TypeOK, Idle, Working
      <3>5. serialQueues' \in [Keys -> Seq(Jobs)]
        BY <1>2, <2>1, <2>3, <3>1 DEF DrainStep, TypeOK
      <3> QED
        BY <1>2, <2>3, <3>3, <3>4, <3>5 DEF DrainStep, TypeOK, WorkHands
    <2> QED
      BY <2>2, <2>3
  <1>3. CASE EndJob(w) \/ Reported(w)
    <2>1. /\ worker[w].at \in {"job", "reporting"}
          /\ submit[w] = Outside
          /\ worker' = [worker EXCEPT ![w] = Working(After(worker[w].task), worker[w].task, NoJob)]
      BY <1>3 DEF EndJob, Reported, TypeOK, InHand
    <2>2. worker[w].task \in Tasks
      BY <2>1 DEF InHand
    <2>3. After(worker[w].task) \in {"drain", "release"}
      BY DEF After
    <2>4. After(worker[w].task) = "drain" => worker[w].task[1] = "drain"
      BY DEF After
    <2>5. worker' \in [Workers -> WorkHands]
      BY <2>1, <2>2, <2>3 DEF TypeOK, WorkHands, WorkPlaces, Working
    <2>6. submit' = submit
      BY <1>3 DEF EndJob, Reported
    <2>7. InHand'
      BY <2>1, <2>2, <2>3, <2>4, <2>6 DEF InHand, TypeOK, Working, Idle
    <2> QED
      BY <1>3, <2>5, <2>7 DEF EndJob, Reported, TypeOK, WorkHands, serialVars
  <1>4. CASE FailJob(w)
    <2>1. submit' \in [Threads -> SubmitHands]
      BY <1>0, <1>4 DEF FailJob, TypeOK, SubmitHands, Submitting, SubmitPlaces, Tasks
    <2>2. worker' \in [Workers -> WorkHands]
      BY <1>0, <1>4 DEF FailJob, TypeOK, WorkHands, WorkPlaces
    <2>3. InHand'
      <3>1. /\ worker'[w].at = "reporting" /\ worker'[w].task = worker[w].task
            /\ worker'[w].job = worker[w].job
            /\ submit'[w] = Submitting("acquire", Report)
            /\ \A v \in Workers \ {w} : worker'[v] = worker[v]
            /\ \A u \in Threads \ {w} : submit'[u] = submit[u]
        BY <1>s, <1>0, <1>4 DEF FailJob
      <3>2. Report \in Tasks
        BY DEF Tasks
      <3>3. worker[w].at = "job"
        BY <1>4 DEF FailJob
      <3> QED
        BY <3>1, <3>2, <3>3 DEF InHand, Submitting, Outside, Threads
    <2> QED
      BY <1>4, <2>1, <2>2, <2>3 DEF FailJob, TypeOK, SubmitHands, WorkHands, serialVars
  <1>5. CASE ReleaseSlot(w)
    <2>1. worker' \in [Workers -> WorkHands]
      BY <1>0, <1>5 DEF ReleaseSlot, TypeOK, WorkHands, WorkPlaces
    <2>2. InHand'
      BY <1>0, <1>5 DEF ReleaseSlot, InHand, TypeOK, Idle, Working
    <2> QED
      BY <1>5, <2>1, <2>2 DEF ReleaseSlot, TypeOK, WorkHands, serialVars
  <1>6. CASE FinishTask(w)
    <2>1. worker' \in [Workers -> WorkHands]
      BY <1>0, <1>6 DEF FinishTask, TypeOK, WorkHands, WorkPlaces, Idle, Working
    <2>2. InHand'
      BY <1>0, <1>6 DEF FinishTask, InHand, TypeOK, Idle, Working
    <2> QED
      BY <1>6, <2>1, <2>2 DEF FinishTask, TypeOK, WorkHands, serialVars
  <1> QED
    BY <1>1, <1>2, <1>3, <1>4, <1>5, <1>6 DEF Work

\* No step takes a variable out of its shape.
LEMMA ShapeStep == Shape /\ [Next]_vars => Shape'
  <1> SUFFICES ASSUME Shape, [Next]_vars PROVE Shape'
    OBVIOUS
  <1>1. CASE Close \/ ShutdownPool
    BY <1>1 DEF Shape, TypeOK, InHand, Close, ShutdownPool, serialVars, poolVars
  <1>2. CASE UNCHANGED vars
    BY <1>2 DEF Shape, TypeOK, InHand, vars, serialVars, poolVars
  <1> QED
    BY <1>1, <1>2, ShapeEmit, ShapeSubmit, ShapeWork DEF Next

----------------------------------------------------------------------------
(* Slots and counts.                                                       *)

Conserved == SlotsConserved /\ ActiveTasksExact

\* The sets that SlotsConserved and ActiveTasksExact count are finite.
LEMMA Finite ==
    /\ IsFiniteSet(HoldsSlot) /\ IsFiniteSet(UsesSlot)
    /\ IsFiniteSet(Counted) /\ IsFiniteSet(Busy)
    /\ {Cardinality(HoldsSlot), Cardinality(UsesSlot), Cardinality(Counted),
        Cardinality(Busy)} \subseteq Nat
  <1>1. IsFiniteSet(Threads)
    BY DispatcherAssumption, FS_Union DEF Threads
  <1>2. HoldsSlot \in SUBSET Threads /\ Counted \in SUBSET Threads
    BY DEF HoldsSlot, Counted
  <1>3. UsesSlot \in SUBSET Workers /\ Busy \in SUBSET Workers
    BY DEF UsesSlot, Busy
  <1>4. /\ IsFiniteSet(HoldsSlot) /\ IsFiniteSet(Counted)
        /\ IsFiniteSet(UsesSlot) /\ IsFiniteSet(Busy)
    BY <1>1, <1>2, <1>3, FS_Subset, DispatcherAssumption
  <1> QED
    BY <1>4, FS_CardinalityType

\* A set to which one element was added, or from which one was taken.
LEMMA AddOne ==
    ASSUME NEW S, NEW x, IsFiniteSet(S), x \notin S
    PROVE  Cardinality(S \cup {x}) = Cardinality(S) + 1
  BY FS_AddElement

\* Taking one element out makes a finite set smaller by one.
LEMMA TakeOne ==
    ASSUME NEW S, NEW x, IsFiniteSet(S), x \in S
    PROVE  Cardinality(S \ {x}) = Cardinality(S) - 1
  BY FS_RemoveElement

\* No slot is out and no task is counted before the first message.
LEMMA ConservedInit == Init => Conserved
  <1> SUFFICES ASSUME Init PROVE Conserved
    OBVIOUS
  <1>1. HoldsSlot = {} /\ UsesSlot = {} /\ Counted = {} /\ Busy = {}
    BY DEF Init, HoldsSlot, UsesSlot, Counted, Busy, Outside, Submitting, Idle, Working
  <1>2. Len(workQueue) = 0
    BY DEF Init
  <1> QED
    BY <1>1, <1>2, FS_EmptySet, DispatcherAssumption
       DEF Init, Conserved, SlotsConserved, ActiveTasksExact

\* A step that moves one thread in _submit changes the two sets of threads by
\* that thread.
LEMMA SubmitSets ==
    ASSUME Shape, NEW t \in Threads, NEW h,
           submit' = [submit EXCEPT ![t] = h]
    PROVE  /\ HoldsSlot' = IF h.at \in {"check", "count", "submit", "uncount", "return"}
                           THEN HoldsSlot \cup {t} ELSE HoldsSlot \ {t}
           /\ Counted' = IF h.at \in {"submit", "uncount"}
                         THEN Counted \cup {t} ELSE Counted \ {t}
  <1>1. /\ \A u \in Threads \ {t} : submit'[u] = submit[u]
        /\ submit'[t] = h
    BY DEF Shape, TypeOK
  <1> QED
    BY <1>1 DEF HoldsSlot, Counted

\* The same for a worker.
LEMMA WorkSets ==
    ASSUME Shape, NEW w \in Workers, NEW h,
           worker' = [worker EXCEPT ![w] = h]
    PROVE  /\ UsesSlot' = IF h.at \notin {"idle", "finish"}
                          THEN UsesSlot \cup {w} ELSE UsesSlot \ {w}
           /\ Busy' = IF h.at # "idle" THEN Busy \cup {w} ELSE Busy \ {w}
  <1>1. /\ \A v \in Workers \ {w} : worker'[v] = worker[v]
        /\ worker'[w] = h
    BY DEF Shape, TypeOK
  <1> QED
    BY <1>1 DEF UsesSlot, Busy

\* A reader that enters _submit holds no slot yet.
LEMMA ConservedEmit ==
    ASSUME Shape, Conserved, NEW c \in Clients,
           EmitPath(c) \/ \E p \in Paths : EmitSerial(c, p)
    PROVE  Conserved'
  <1>1. UNCHANGED <<slots, activeTasks, workQueue, worker>>
    BY DEF EmitPath, EmitSerial, poolVars
  <1>2. \/ submit' = submit
        \/ \E task : submit' = [submit EXCEPT ![c] = Submitting("acquire", task)]
    BY DEF EmitPath, EmitSerial, serialVars
  <1>3. c \in Threads /\ submit[c].at = "outside"
    <2>1. c \in Threads /\ MayEmit(c)
      BY DEF EmitPath, EmitSerial, Threads
    <2> QED
      BY <2>1 DEF MayEmit, Outside, Submitting
  <1>4. HoldsSlot' = HoldsSlot /\ Counted' = Counted
    <2>1. CASE submit' = submit
      BY <2>1 DEF HoldsSlot, Counted
    <2>2. ASSUME NEW task, submit' = [submit EXCEPT ![c] = Submitting("acquire", task)]
          PROVE  HoldsSlot' = HoldsSlot /\ Counted' = Counted
      <3>1. c \notin HoldsSlot /\ c \notin Counted
        BY <1>3 DEF HoldsSlot, Counted
      <3>2. HoldsSlot' = HoldsSlot \ {c} /\ Counted' = Counted \ {c}
        BY <1>3, <2>2, SubmitSets DEF Submitting
      <3> QED
        BY <3>1, <3>2
    <2> QED
      BY <1>2, <2>1, <2>2
  <1>5. UsesSlot' = UsesSlot /\ Busy' = Busy
    BY <1>1 DEF UsesSlot, Busy
  <1> QED
    BY <1>1, <1>4, <1>5 DEF Conserved, SlotsConserved, ActiveTasksExact

\* _submit takes a slot before it counts the task, and gives back on every way
\* out what it took.
LEMMA ConservedSubmit ==
    ASSUME Shape, Conserved, NEW t \in Threads, Submit(t)
    PROVE  Conserved'
  <1>0. /\ slots \in Nat /\ activeTasks \in Int /\ Len(workQueue) \in Nat /\ MaxPending \in Nat
        /\ Cardinality(HoldsSlot) \in Nat /\ Cardinality(UsesSlot) \in Nat
        /\ Cardinality(Counted) \in Nat /\ Cardinality(Busy) \in Nat
    BY DispatcherAssumption, Finite DEF Shape, TypeOK
  <1>1. UsesSlot' = UsesSlot /\ Busy' = Busy
    BY DEF Submit, Acquire, AcquireTimeout, CheckOpen, CountTask, SubmitTask, UncountTask,
           ReturnSlot, poolVars, UsesSlot, Busy
  <1>2. /\ slots \in Nat /\ activeTasks \in Int /\ Len(workQueue) \in Nat
        /\ workQueue \in Seq(Tasks) /\ MaxPending \in Nat
    BY DispatcherAssumption DEF Shape, TypeOK
  <1>3. /\ slots + Cardinality(HoldsSlot) + Len(workQueue) + Cardinality(UsesSlot)
              = MaxPending
        /\ activeTasks = Cardinality(Counted) + Len(workQueue) + Cardinality(Busy)
    BY DEF Conserved, SlotsConserved, ActiveTasksExact
  <1>4. SUFFICES
          /\ slots' + Cardinality(HoldsSlot') + Len(workQueue') + Cardinality(UsesSlot)
                = MaxPending
          /\ activeTasks' = Cardinality(Counted') + Len(workQueue') + Cardinality(Busy)
    BY <1>1 DEF Conserved, SlotsConserved, ActiveTasksExact
  <1>5. submit[t] \in SubmitHands
    BY DEF Shape, TypeOK, SubmitHands
  <1>6. /\ submit[t].at \in {"check", "count", "submit", "uncount", "return"} <=> t \in HoldsSlot
        /\ submit[t].at \in {"submit", "uncount"} <=> t \in Counted
    BY DEF HoldsSlot, Counted
  <1>7. ASSUME NEW place, Move(t, place)
        PROVE  /\ HoldsSlot' = IF place \in {"check", "count", "submit", "uncount", "return"}
                               THEN HoldsSlot \cup {t} ELSE HoldsSlot \ {t}
               /\ Counted' = IF place \in {"submit", "uncount"}
                             THEN Counted \cup {t} ELSE Counted \ {t}
    <2>1. submit' = [submit EXCEPT ![t] = [submit[t] EXCEPT !.at = place]]
      BY <1>7 DEF Move
    <2>2. [submit[t] EXCEPT !.at = place].at = place
      BY <1>5 DEF SubmitHands
    <2> QED
      BY <2>1, <2>2, SubmitSets
  <1>8. ASSUME submit' = [submit EXCEPT ![t] = Outside]
        PROVE  HoldsSlot' = HoldsSlot \ {t} /\ Counted' = Counted \ {t}
    <2>1. Outside.at = "outside"
      BY DEF Outside, Submitting
    <2> QED
      BY <1>8, <2>1, SubmitSets
  <1>9. CASE Acquire(t)
    <2>1. t \notin HoldsSlot /\ t \notin Counted
      BY <1>6, <1>9 DEF Acquire
    <2>2. HoldsSlot' = HoldsSlot \cup {t} /\ Counted' = Counted
      BY <1>7, <1>9, <2>1 DEF Acquire
    <2>3. Cardinality(HoldsSlot') = Cardinality(HoldsSlot) + 1
      BY <2>1, <2>2, AddOne, Finite
    <2> QED
      BY SMTT(30), <1>0, <1>3, <1>9, <2>2, <2>3 DEF Acquire, poolVars
  <1>10. CASE AcquireTimeout(t)
    <2>1. t \notin HoldsSlot /\ t \notin Counted
      BY <1>6, <1>10 DEF AcquireTimeout
    <2>2. HoldsSlot' = HoldsSlot /\ Counted' = Counted
      BY <1>8, <1>10, <2>1 DEF AcquireTimeout, Raise
    <2> QED
      BY <1>3, <1>10, <2>2 DEF AcquireTimeout, poolVars
  <1>11. CASE CheckOpen(t)
    <2>1. t \in HoldsSlot /\ t \notin Counted
      BY <1>6, <1>11 DEF CheckOpen
    <2>2. CASE closed
      <3>1. HoldsSlot' = HoldsSlot \ {t} /\ Counted' = Counted
        BY <1>8, <1>11, <2>1, <2>2 DEF CheckOpen, Raise
      <3>2. Cardinality(HoldsSlot') = Cardinality(HoldsSlot) - 1
        BY <2>1, <3>1, TakeOne, Finite
      <3>3. slots' = slots + 1 /\ workQueue' = workQueue /\ activeTasks' = activeTasks
        BY <1>11, <2>2 DEF CheckOpen, poolVars
      <3> QED
        BY SMTT(30), <1>0, <1>3, <3>1, <3>2, <3>3
    <2>3. CASE ~closed
      <3>1. HoldsSlot' = HoldsSlot /\ Counted' = Counted
        BY <1>7, <1>11, <2>1, <2>3 DEF CheckOpen
      <3> QED
        BY <1>3, <1>11, <2>3, <3>1 DEF CheckOpen, poolVars
    <2> QED
      BY <2>2, <2>3
  <1>12. CASE CountTask(t)
    <2>1. t \in HoldsSlot /\ t \notin Counted
      BY <1>6, <1>12 DEF CountTask
    <2>2. HoldsSlot' = HoldsSlot /\ Counted' = Counted \cup {t}
      BY <1>7, <1>12, <2>1 DEF CountTask
    <2>3. Cardinality(Counted') = Cardinality(Counted) + 1
      BY <2>1, <2>2, AddOne, Finite
    <2> QED
      BY SMTT(30), <1>0, <1>3, <1>12, <2>2, <2>3 DEF CountTask, poolVars
  <1>13. CASE SubmitTask(t)
    <2>1. t \in HoldsSlot /\ t \in Counted
      BY <1>6, <1>13 DEF SubmitTask
    <2>2. CASE poolClosed
      <3>1. HoldsSlot' = HoldsSlot /\ Counted' = Counted
        BY <1>7, <1>13, <2>1, <2>2 DEF SubmitTask
      <3> QED
        BY <1>3, <1>13, <2>2, <3>1 DEF SubmitTask
    <2>3. CASE ~poolClosed
      <3>1. HoldsSlot' = HoldsSlot \ {t} /\ Counted' = Counted \ {t}
        BY <1>8, <1>13, <2>3 DEF SubmitTask
      <3>2. /\ Cardinality(HoldsSlot') = Cardinality(HoldsSlot) - 1
            /\ Cardinality(Counted') = Cardinality(Counted) - 1
        BY <2>1, <3>1, TakeOne, Finite
      <3>3. submit[t].task \in Tasks
        BY <1>13 DEF SubmitTask, Shape, InHand
      <3>4. workQueue' = Append(workQueue, submit[t].task)
        BY <1>13, <2>3 DEF SubmitTask
      <3>5. Len(workQueue') = Len(workQueue) + 1
        BY <1>2, <3>3, <3>4
      <3>6. slots' = slots /\ activeTasks' = activeTasks
        BY <1>13 DEF SubmitTask
      <3> QED
        BY SMTT(30), <1>0, <1>3, <3>2, <3>5, <3>6
    <2> QED
      BY <2>2, <2>3
  <1>14. CASE UncountTask(t)
    <2>1. t \in HoldsSlot /\ t \in Counted
      BY <1>6, <1>14 DEF UncountTask
    <2>2. HoldsSlot' = HoldsSlot /\ Counted' = Counted \ {t}
      <3>1. Move(t, "return")
        BY <1>14 DEF UncountTask
      <3>2. HoldsSlot' = HoldsSlot \cup {t} /\ Counted' = Counted \ {t}
        BY <1>7, <3>1
      <3> QED
        BY <2>1, <3>2
    <2>3. Cardinality(Counted') = Cardinality(Counted) - 1
      BY <2>1, <2>2, TakeOne, Finite
    <2> QED
      BY SMTT(30), <1>0, <1>3, <1>14, <2>2, <2>3 DEF UncountTask, poolVars
  <1>15. CASE ReturnSlot(t)
    <2>1. t \in HoldsSlot /\ t \notin Counted
      BY <1>6, <1>15 DEF ReturnSlot
    <2>2. HoldsSlot' = HoldsSlot \ {t} /\ Counted' = Counted
      BY <1>8, <1>15, <2>1 DEF ReturnSlot, Raise
    <2>3. Cardinality(HoldsSlot') = Cardinality(HoldsSlot) - 1
      BY <2>1, <2>2, TakeOne, Finite
    <2> QED
      BY SMTT(30), <1>0, <1>3, <1>15, <2>2, <2>3 DEF ReturnSlot, poolVars
  <1> QED
    BY <1>9, <1>10, <1>11, <1>12, <1>13, <1>14, <1>15 DEF Submit

\* A worker has its slot from the queue and gives it back once, then its count.
LEMMA ConservedWork ==
    ASSUME Shape, Conserved, NEW w \in Workers, Work(w)
    PROVE  Conserved'
  <1>0. /\ slots \in Nat /\ activeTasks \in Int /\ Len(workQueue) \in Nat /\ MaxPending \in Nat
        /\ Cardinality(HoldsSlot) \in Nat /\ Cardinality(UsesSlot) \in Nat
        /\ Cardinality(Counted) \in Nat /\ Cardinality(Busy) \in Nat
    BY DispatcherAssumption, Finite DEF Shape, TypeOK
  <1>2. /\ slots \in Nat /\ activeTasks \in Int /\ Len(workQueue) \in Nat
        /\ workQueue \in Seq(Tasks) /\ MaxPending \in Nat /\ w \in Threads
    BY DispatcherAssumption DEF Shape, TypeOK, Threads
  <1>3. /\ slots + Cardinality(HoldsSlot) + Len(workQueue) + Cardinality(UsesSlot)
              = MaxPending
        /\ activeTasks = Cardinality(Counted) + Len(workQueue) + Cardinality(Busy)
    BY DEF Conserved, SlotsConserved, ActiveTasksExact
  <1>4. SUFFICES
          /\ slots' + Cardinality(HoldsSlot') + Len(workQueue') + Cardinality(UsesSlot')
                = MaxPending
          /\ activeTasks' = Cardinality(Counted') + Len(workQueue') + Cardinality(Busy')
    BY DEF Conserved, SlotsConserved, ActiveTasksExact
  <1>5. worker[w] \in WorkHands /\ worker \in [Workers -> WorkHands]
    BY DEF Shape, TypeOK, WorkHands
  <1>6. /\ worker[w].at \notin {"idle", "finish"} <=> w \in UsesSlot
        /\ worker[w].at # "idle" <=> w \in Busy
    BY DEF UsesSlot, Busy
  <1>7. ASSUME submit' = submit PROVE HoldsSlot' = HoldsSlot /\ Counted' = Counted
    BY <1>7 DEF HoldsSlot, Counted
  <1>8. ASSUME NEW place, worker' = [worker EXCEPT ![w].at = place]
        PROVE  /\ UsesSlot' = IF place \notin {"idle", "finish"}
                              THEN UsesSlot \cup {w} ELSE UsesSlot \ {w}
               /\ Busy' = IF place # "idle" THEN Busy \cup {w} ELSE Busy \ {w}
    <2>1. worker' = [worker EXCEPT ![w] = [worker[w] EXCEPT !.at = place]]
      BY <1>8
    <2>2. [worker[w] EXCEPT !.at = place].at = place
      BY <1>5 DEF WorkHands
    <2> QED
      BY <2>1, <2>2, WorkSets
  <1>9. ASSUME NEW place, NEW t, NEW j, worker' = [worker EXCEPT ![w] = Working(place, t, j)]
        PROVE  /\ UsesSlot' = IF place \notin {"idle", "finish"}
                              THEN UsesSlot \cup {w} ELSE UsesSlot \ {w}
               /\ Busy' = IF place # "idle" THEN Busy \cup {w} ELSE Busy \ {w}
    <2>1. Working(place, t, j).at = place
      BY DEF Working
    <2> QED
      BY <1>9, <2>1, WorkSets
  <1>10. CASE TakeTask(w)
    <2>1. w \notin UsesSlot /\ w \notin Busy
      <3>1. worker[w].at = "idle"
        BY <1>10 DEF TakeTask, Idle, Working
      <3> QED
        BY <1>6, <3>1
    <2>2. \E place \in {"job", "drain", "release"} : \E t, j :
             worker' = [worker EXCEPT ![w] = Working(place, t, j)]
      BY <1>10, TakenTask DEF Shape
    <2>3. UsesSlot' = UsesSlot \cup {w} /\ Busy' = Busy \cup {w}
      BY <1>9, <2>2
    <2>4. /\ Cardinality(UsesSlot') = Cardinality(UsesSlot) + 1
          /\ Cardinality(Busy') = Cardinality(Busy) + 1
      BY <2>1, <2>3, AddOne, Finite
    <2>5. Len(workQueue') = Len(workQueue) - 1
      BY <1>10, TakenTask DEF Shape
    <2>6. HoldsSlot' = HoldsSlot /\ Counted' = Counted
      BY <1>7, <1>10 DEF TakeTask
    <2>7. slots' = slots /\ activeTasks' = activeTasks
      BY <1>10 DEF TakeTask
    <2>8. Cardinality(HoldsSlot) \in Nat /\ Cardinality(UsesSlot) \in Nat
          /\ Cardinality(Counted) \in Nat /\ Cardinality(Busy) \in Nat
      BY Finite
    <2>9. slots' + Cardinality(HoldsSlot') + Len(workQueue') + Cardinality(UsesSlot')
             = slots + Cardinality(HoldsSlot) + (Len(workQueue) - 1)
                  + (Cardinality(UsesSlot) + 1)
      BY <2>4, <2>5, <2>6, <2>7
    <2>10. Cardinality(Counted') + Len(workQueue') + Cardinality(Busy')
              = Cardinality(Counted) + (Len(workQueue) - 1) + (Cardinality(Busy) + 1)
      BY <2>4, <2>5, <2>6
    <2> QED
      BY SMTT(30), <1>2, <1>3, <2>7, <2>8, <2>9, <2>10
  <1>11. CASE DrainStep(w) \/ EndJob(w) \/ FailJob(w) \/ Reported(w)
    <2>1. w \in UsesSlot /\ w \in Busy
      <3>1. worker[w].at \in {"drain", "job", "reporting"}
        BY <1>11 DEF DrainStep, EndJob, FailJob, Reported
      <3> QED
        BY <1>6, <3>1
    <2>2. \/ \E place \in {"job", "drain", "release"} : \E t, j :
                worker' = [worker EXCEPT ![w] = Working(place, t, j)]
          \/ worker' = [worker EXCEPT ![w].at = "release"]
          \/ worker' = [worker EXCEPT ![w].at = "reporting"]
      <3>1. CASE DrainStep(w)
        BY <1>5, <3>1 DEF DrainStep
      <3>2. CASE EndJob(w) \/ Reported(w)
        BY <1>5, <3>2 DEF EndJob, Reported, After
      <3>3. CASE FailJob(w)
        BY <3>3 DEF FailJob
      <3> QED
        BY <1>11, <3>1, <3>2, <3>3
    <2>3. UsesSlot' = UsesSlot /\ Busy' = Busy
      BY <1>8, <1>9, <2>1, <2>2
    <2>4. HoldsSlot' = HoldsSlot /\ Counted' = Counted
      <3>1. CASE FailJob(w)
        <4>1. submit' = [submit EXCEPT ![w] = Submitting("acquire", Report)]
          BY <3>1 DEF FailJob
        <4>2. Submitting("acquire", Report).at = "acquire"
          BY DEF Submitting
        <4>3. HoldsSlot' = HoldsSlot \ {w} /\ Counted' = Counted \ {w}
          BY <1>2, <4>1, <4>2, SubmitSets
        <4>4. worker[w].at = "job"
          BY <3>1 DEF FailJob
        <4>5. submit[w].at = "outside"
          BY <4>4 DEF Shape, InHand, Outside, Submitting
        <4> QED
          BY <4>3, <4>5 DEF HoldsSlot, Counted
      <3>2. CASE ~FailJob(w)
        BY <1>7, <1>11, <3>2 DEF DrainStep, EndJob, Reported
      <3> QED
        BY <3>1, <3>2
    <2>5. UNCHANGED <<slots, activeTasks, workQueue>>
      BY <1>11 DEF DrainStep, EndJob, FailJob, Reported
    <2> QED
      BY <1>3, <2>3, <2>4, <2>5
  <1>12. CASE ReleaseSlot(w)
    <2>1. w \in UsesSlot /\ w \in Busy
      BY <1>6, <1>12 DEF ReleaseSlot
    <2>2. worker' = [worker EXCEPT ![w].at = "finish"]
      BY <1>12 DEF ReleaseSlot
    <2>3. UsesSlot' = UsesSlot \ {w} /\ Busy' = Busy \cup {w}
      <3> DEFINE h == [worker[w] EXCEPT !.at = "finish"]
      <3>1. worker' = [worker EXCEPT ![w] = h]
        BY <2>2
      <3>2. h.at = "finish"
        BY <1>5 DEF WorkHands
      <3> HIDE DEF h
      <3> QED
        BY <3>1, <3>2, WorkSets
    <2>4. Cardinality(UsesSlot') = Cardinality(UsesSlot) - 1 /\ Busy' = Busy
      BY <2>1, <2>3, TakeOne, Finite
    <2>5. HoldsSlot' = HoldsSlot /\ Counted' = Counted
      BY <1>7, <1>12 DEF ReleaseSlot
    <2>6. slots' = slots + 1 /\ activeTasks' = activeTasks /\ workQueue' = workQueue
      BY <1>12 DEF ReleaseSlot
    <2> QED
      BY SMTT(30), <1>0, <1>3, <2>4, <2>5, <2>6
  <1>13. CASE FinishTask(w)
    <2>1. w \notin UsesSlot /\ w \in Busy
      BY <1>6, <1>13 DEF FinishTask
    <2>2. worker' = [worker EXCEPT ![w] = Working("idle", NoTask, NoJob)]
      BY <1>13 DEF FinishTask, Idle
    <2>3. UsesSlot' = UsesSlot \ {w} /\ Busy' = Busy \ {w}
      BY <1>9, <2>2
    <2>4. UsesSlot' = UsesSlot /\ Cardinality(Busy') = Cardinality(Busy) - 1
      BY <2>1, <2>3, TakeOne, Finite
    <2>5. HoldsSlot' = HoldsSlot /\ Counted' = Counted
      BY <1>7, <1>13 DEF FinishTask
    <2>6. activeTasks' = activeTasks - 1 /\ slots' = slots /\ workQueue' = workQueue
      BY <1>13 DEF FinishTask
    <2> QED
      BY SMTT(30), <1>0, <1>3, <2>4, <2>5, <2>6
  <1> QED
    BY <1>10, <1>11, <1>12, <1>13 DEF Work

\* No step loses or invents a slot or a count.
LEMMA ConservedStep == Shape /\ Conserved /\ [Next]_vars => Conserved'
  <1> SUFFICES ASSUME Shape, Conserved, [Next]_vars PROVE Conserved'
    OBVIOUS
  <1>1. CASE Close \/ ShutdownPool \/ UNCHANGED vars
    <2>1. UNCHANGED <<slots, activeTasks, submit, workQueue, worker>>
      BY <1>1 DEF Close, ShutdownPool, vars, poolVars
    <2>2. /\ HoldsSlot' = HoldsSlot /\ Counted' = Counted
          /\ UsesSlot' = UsesSlot /\ Busy' = Busy
      BY <2>1 DEF HoldsSlot, Counted, UsesSlot, Busy
    <2> QED
      BY <2>1, <2>2 DEF Conserved, SlotsConserved, ActiveTasksExact
  <1> QED
    BY <1>1, ConservedEmit, ConservedSubmit, ConservedWork DEF Next

----------------------------------------------------------------------------
(* One drainer for each active key.                                        *)

\* Who holds the drainer of k: threads in _submit, workers, and the queue.
Submits(k) == {t \in Threads : submit[t].task = Drain(k)}
Runs(k)    == {w \in Workers : worker[w].task = Drain(k)
                                  /\ worker[w].at \notin {"release", "finish"}}
Queued(k)  == {i \in 1..Len(workQueue) : workQueue[i] = Drain(k)}

NoDrainer(k)  == Submits(k) = {} /\ Runs(k) = {} /\ Queued(k) = {}
HasDrainer(k) == \/ (\E t : Submits(k) = {t}) /\ Runs(k) = {} /\ Queued(k) = {}
                 \/ Submits(k) = {} /\ (\E w : Runs(k) = {w}) /\ Queued(k) = {}
                 \/ Submits(k) = {} /\ Runs(k) = {} /\ (\E i : Queued(k) = {i})

\* OneDrainer without the cardinality; and a key whose drainer was refused stays
\* active for ever, so that it never gets another.
DrainerInv ==
    /\ wedged \subseteq serialActive
    /\ \A k \in Keys :
          /\ IF k \in serialActive \ wedged THEN HasDrainer(k) ELSE NoDrainer(k)
          /\ serialQueues[k] # <<>> => k \in serialActive

\* No key is active before the first message.
LEMMA DrainerInit == Init => DrainerInv
  <1> SUFFICES ASSUME Init PROVE DrainerInv
    OBVIOUS
  <1>1. \A k \in Keys : NoDrainer(k)
    <2> SUFFICES ASSUME NEW k \in Keys PROVE NoDrainer(k)
      OBVIOUS
    <2>1. \A t \in Threads : submit[t].task = NoTask
      BY DEF Init, Outside, Submitting
    <2>2. \A w \in Workers : worker[w].task = NoTask
      BY DEF Init, Idle, Working
    <2>3. Queued(k) = {}
      BY DEF Init, Queued
    <2> QED
      BY <2>1, <2>2, <2>3, TaskKinds DEF NoDrainer, Submits, Runs
  <1> QED
    BY <1>1 DEF Init, DrainerInv

\* The first job of a key that is not active brings its drainer.
LEMMA DrainerEmit ==
    ASSUME Shape, DrainerInv, NEW c \in Clients,
           EmitPath(c) \/ \E p \in Paths : EmitSerial(c, p)
    PROVE  DrainerInv'
  <1>1. c \in Threads /\ submit[c].task = NoTask /\ submit \in [Threads -> SubmitHands]
    <2>1. c \in Threads /\ MayEmit(c)
      BY DEF EmitPath, EmitSerial, Threads
    <2> QED
      BY <2>1 DEF MayEmit, Outside, Submitting, Shape, TypeOK, SubmitHands
  <1>2. UNCHANGED <<workQueue, worker>>
    BY DEF EmitPath, EmitSerial, poolVars
  <1>3. \A k \in Keys : Runs(k)' = Runs(k) /\ Queued(k)' = Queued(k)
    BY <1>2 DEF Runs, Queued
  <1>4. ASSUME NEW task, submit' = [submit EXCEPT ![c] = Submitting("acquire", task)]
        PROVE  /\ \A k \in Keys : task # Drain(k) => Submits(k)' = Submits(k)
               /\ \A k \in Keys : task = Drain(k) /\ Submits(k) = {} => Submits(k)' = {c}
    <2>1. /\ \A t \in Threads \ {c} : submit'[t] = submit[t]
          /\ submit'[c].task = task
      BY <1>1, <1>4 DEF Submitting
    <2> QED
      BY <1>1, <2>1, TaskKinds DEF Submits
  <1>5. CASE EmitPath(c)
    <2>1. \A k \in Keys : Submits(k)' = Submits(k)
      <3> DEFINE task == Handle(NextJob(c))
      <3>1. \A k \in Keys : task # Drain(k)
        BY TaskKinds
      <3>2. submit' = [submit EXCEPT ![c] = Submitting("acquire", task)]
        BY <1>5 DEF EmitPath
      <3> HIDE DEF task
      <3> QED
        BY <1>4, <3>1, <3>2
    <2>2. UNCHANGED serialVars
      BY <1>5 DEF EmitPath
    <2> QED
      BY <1>3, <2>1, <2>2 DEF DrainerInv, HasDrainer, NoDrainer, serialVars
  <1>6. ASSUME NEW p \in Paths, EmitSerial(c, p) PROVE DrainerInv'
    <2> DEFINE key == <<p, c>>
    <2>0. key \in Keys
      BY DEF Keys
    <2>1. CASE UNCHANGED <<serialVars, submit>>
      BY <1>3, <2>1 DEF DrainerInv, HasDrainer, NoDrainer, serialVars, Submits
    <2>2. CASE ~UNCHANGED <<serialVars, submit>>
      <3>1. /\ serialQueues' = [serialQueues EXCEPT ![key] = Append(@, NextJob(c))]
            /\ serialActive' = serialActive \cup {key}
            /\ submit' = IF key \in serialActive THEN submit
                         ELSE [submit EXCEPT ![c] = Submitting("acquire", Drain(key))]
            /\ wedged' = wedged
        BY <1>6, <2>2 DEF EmitSerial
      <3>2. \A k \in Keys \ {key} : serialQueues'[k] = serialQueues[k]
        BY <3>1 DEF Shape, TypeOK
      <3>3. CASE key \in serialActive
        BY <1>3, <3>1, <3>2, <3>3 DEF DrainerInv, HasDrainer, NoDrainer, Submits
      <3>4. CASE key \notin serialActive
        <4>1. submit' = [submit EXCEPT ![c] = Submitting("acquire", Drain(key))]
          BY <3>1, <3>4
        <4>2. NoDrainer(key) /\ key \notin wedged
          BY <2>0, <3>4 DEF DrainerInv
        <4>3. Submits(key)' = {c}
          BY <1>4, <2>0, <4>1, <4>2 DEF NoDrainer
        <4>4. HasDrainer(key)'
          BY <1>3, <2>0, <4>2, <4>3 DEF HasDrainer, NoDrainer
        <4>5. \A k \in Keys \ {key} : Submits(k)' = Submits(k)
          <5> DEFINE task == Drain(key)
          <5>1. \A k \in Keys \ {key} : task # Drain(k)
            BY TaskKinds
          <5>2. submit' = [submit EXCEPT ![c] = Submitting("acquire", task)]
            BY <4>1
          <5> HIDE DEF task
          <5> QED
            BY <1>4, <5>1, <5>2
        <4>6. \A k \in Keys \ {key} : /\ HasDrainer(k) => HasDrainer(k)'
                                      /\ NoDrainer(k) => NoDrainer(k)'
          BY <1>3, <4>5 DEF HasDrainer, NoDrainer
        <4> QED
          BY <2>0, <3>1, <3>2, <4>2, <4>4, <4>6 DEF DrainerInv
      <3> QED
        BY <3>3, <3>4
    <2> QED
      BY <2>1, <2>2
  <1> QED
    BY <1>5, <1>6

\* A drainer that leaves _submit is queued, or its key is wedged.
LEMMA DrainerSubmit ==
    ASSUME Shape, DrainerInv, NEW t \in Threads, Submit(t)
    PROVE  DrainerInv'
  <1>1. submit \in [Threads -> SubmitHands] /\ workQueue \in Seq(Tasks)
    BY DEF Shape, TypeOK, SubmitHands
  <1>2. /\ worker' = worker /\ serialQueues' = serialQueues /\ serialActive' = serialActive
    BY DEF Submit, Acquire, AcquireTimeout, CheckOpen, CountTask, SubmitTask, UncountTask,
           ReturnSlot, Raise, serialVars, poolVars
  <1>3. \A k \in Keys : Runs(k)' = Runs(k)
    BY <1>2 DEF Runs
  <1>4. \/ (\E place : Move(t, place)) /\ workQueue' = workQueue /\ wedged' = wedged
        \/ Raise(t) /\ workQueue' = workQueue
        \/ /\ submit' = [submit EXCEPT ![t] = Outside] /\ wedged' = wedged
           /\ workQueue' = Append(workQueue, submit[t].task)
           /\ submit[t].at = "submit"
    BY DEF Submit, Acquire, AcquireTimeout, CheckOpen, CountTask, SubmitTask, UncountTask,
           ReturnSlot, serialVars, poolVars
  <1>5. ASSUME submit' = [submit EXCEPT ![t] = Outside]
        PROVE  \A k \in Keys : Submits(k)' = Submits(k) \ {t}
    <2>1. /\ \A u \in Threads \ {t} : submit'[u] = submit[u]
          /\ submit'[t].task = NoTask
      BY <1>1, <1>5 DEF Outside, Submitting
    <2> QED
      BY <2>1, TaskKinds DEF Submits
  <1>6. CASE (\E place : Move(t, place)) /\ workQueue' = workQueue /\ wedged' = wedged
    <2>1. \A u \in Threads : submit'[u].task = submit[u].task
      BY <1>1, <1>6 DEF Move, SubmitHands
    <2>2. \A k \in Keys : Submits(k)' = Submits(k) /\ Queued(k)' = Queued(k)
      BY <1>6, <2>1 DEF Submits, Queued
    <2> QED
      BY <1>2, <1>3, <1>6, <2>2 DEF DrainerInv, HasDrainer, NoDrainer
  <1>7. CASE Raise(t) /\ workQueue' = workQueue
    <2>1. /\ \A k \in Keys : Submits(k)' = Submits(k) \ {t} /\ Queued(k)' = Queued(k)
          /\ wedged' = wedged \cup {k \in Keys : t \in Submits(k)}
      BY <1>5, <1>7 DEF Raise, Queued, Submits
    <2>2. ASSUME NEW k \in Keys, t \in Submits(k)
          PROVE  k \in serialActive /\ NoDrainer(k)'
      <3>1. HasDrainer(k) /\ k \in serialActive
        BY <2>2 DEF DrainerInv, NoDrainer
      <3>2. Submits(k) = {t} /\ Runs(k) = {} /\ Queued(k) = {}
        BY <2>2, <3>1 DEF HasDrainer
      <3> QED
        BY <1>3, <2>1, <3>1, <3>2 DEF NoDrainer
    <2>3. ASSUME NEW k \in Keys, t \notin Submits(k)
          PROVE  /\ HasDrainer(k) => HasDrainer(k)'
                 /\ NoDrainer(k) => NoDrainer(k)'
      <3>1. Submits(k)' = Submits(k) /\ Queued(k)' = Queued(k) /\ Runs(k)' = Runs(k)
        BY <1>3, <2>1, <2>3
      <3> QED
        BY <3>1 DEF HasDrainer, NoDrainer
    <2> QED
      BY <1>2, <2>1, <2>2, <2>3 DEF DrainerInv
  <1>8. CASE /\ submit' = [submit EXCEPT ![t] = Outside] /\ wedged' = wedged
             /\ workQueue' = Append(workQueue, submit[t].task)
             /\ submit[t].at = "submit"
    <2> DEFINE n == Len(workQueue)
    <2>1. submit[t].task \in Tasks
      BY <1>8 DEF Shape, InHand
    <2>2. /\ Len(workQueue') = n + 1 /\ n \in Nat
          /\ \A i \in 1..n : workQueue'[i] = workQueue[i]
          /\ workQueue'[n + 1] = submit[t].task
      BY <1>1, <1>8, <2>1
    <2>3. \A k \in Keys : Queued(k)' = IF t \in Submits(k) THEN Queued(k) \cup {n + 1}
                                                           ELSE Queued(k)
      BY <2>2 DEF Queued, Submits
    <2>4. \A k \in Keys : Submits(k)' = Submits(k) \ {t}
      BY <1>5, <1>8
    <2>5. ASSUME NEW k \in Keys, t \in Submits(k)
          PROVE  k \in serialActive \ wedged /\ HasDrainer(k)'
      <3>1. HasDrainer(k) /\ k \in serialActive \ wedged
        BY <2>5 DEF DrainerInv, NoDrainer
      <3>2. Submits(k) = {t} /\ Runs(k) = {} /\ Queued(k) = {}
        BY <2>5, <3>1 DEF HasDrainer
      <3>3. Submits(k)' = {} /\ Runs(k)' = {} /\ Queued(k)' = {n + 1}
        BY <1>3, <2>3, <2>4, <2>5, <3>2
      <3> QED
        BY <3>1, <3>3 DEF HasDrainer
    <2>6. ASSUME NEW k \in Keys, t \notin Submits(k)
          PROVE  /\ HasDrainer(k) => HasDrainer(k)'
                 /\ NoDrainer(k) => NoDrainer(k)'
      <3>1. Submits(k)' = Submits(k) /\ Queued(k)' = Queued(k) /\ Runs(k)' = Runs(k)
        BY <1>3, <2>3, <2>4, <2>6
      <3> QED
        BY <3>1 DEF HasDrainer, NoDrainer
    <2> QED
      BY <1>2, <1>8, <2>5, <2>6 DEF DrainerInv
  <1> QED
    BY <1>4, <1>6, <1>7, <1>8

\* A drainer stays with its worker for the whole backlog, and ends only when the
\* backlog is empty.
LEMMA DrainerWork ==
    ASSUME Shape, DrainerInv, NEW w \in Workers, Work(w)
    PROVE  DrainerInv'
  <1>1. /\ worker \in [Workers -> WorkHands] /\ w \in Threads
        /\ submit \in [Threads -> SubmitHands] /\ workQueue \in Seq(Tasks)
        /\ serialQueues \in [Keys -> Seq(Jobs)]
    BY DEF Shape, TypeOK, WorkHands, SubmitHands, Threads
  <1>2. wedged' = wedged
    BY DEF Work, TakeTask, DrainStep, EndJob, FailJob, Reported, ReleaseSlot, FinishTask,
           serialVars
  <1>3. \A k \in Keys : Submits(k)' = Submits(k)
    <2>1. \A t \in Threads : \/ submit'[t] = submit[t]
                             \/ submit'[t].task = Report /\ submit[t].task = NoTask
      <3>1. CASE FailJob(w)
        <4>1. submit[w] = Outside
          BY <3>1 DEF FailJob, Shape, InHand
        <4> QED
          BY <1>1, <3>1, <4>1 DEF FailJob, Outside, Submitting
      <3>2. CASE ~FailJob(w)
        BY <3>2 DEF Work, TakeTask, DrainStep, EndJob, Reported, ReleaseSlot, FinishTask
      <3> QED
        BY <3>1, <3>2
    <2> QED
      BY <2>1, TaskKinds DEF Submits
  <1>4. CASE TakeTask(w)
    <2> DEFINE t == Head(workQueue)
               n == Len(workQueue)
    <2>1. /\ workQueue' = Tail(workQueue) /\ workQueue # <<>> /\ worker[w].task = NoTask
          /\ UNCHANGED <<serialQueues, serialActive>>
      BY <1>4 DEF TakeTask, serialVars, Idle, Working
    <2>2. /\ t \in Tasks /\ n \in Nat \ {0} /\ Len(workQueue') = n - 1 /\ t = workQueue[1]
          /\ \A i \in 1..(n - 1) : workQueue'[i] = workQueue[i + 1]
      BY <1>1, <2>1
    <2>3. /\ worker'[w].task = t
          /\ t[1] = "drain" => worker'[w].at = "drain"
          /\ \A v \in Workers \ {w} : worker'[v] = worker[v]
      BY <1>1, <1>4, TakenTask DEF Shape, Working
    <2>4. \A k \in Keys : w \notin Runs(k)
      BY <2>1, TaskKinds DEF Runs
    <2>5. \A k \in Keys : Runs(k)' = IF t = Drain(k) THEN Runs(k) \cup {w} ELSE Runs(k)
      BY <2>3, <2>4, TaskKinds DEF Runs
    <2>6. \A k \in Keys : Queued(k)' = {i - 1 : i \in Queued(k) \ {1}}
      BY <2>2 DEF Queued
    <2>7. ASSUME NEW k \in Keys, t = Drain(k)
          PROVE  k \in serialActive \ wedged /\ HasDrainer(k)'
      <3>1. 1 \in Queued(k)
        BY <2>2, <2>7 DEF Queued
      <3>2. HasDrainer(k) /\ k \in serialActive \ wedged
        BY <3>1 DEF DrainerInv, NoDrainer
      <3>3. Submits(k) = {} /\ Runs(k) = {} /\ Queued(k) = {1}
        BY <3>1, <3>2 DEF HasDrainer
      <3>4. Submits(k)' = {} /\ Runs(k)' = {w} /\ Queued(k)' = {}
        BY <1>3, <2>5, <2>6, <2>7, <3>3
      <3> QED
        BY <3>2, <3>4 DEF HasDrainer
    <2>8. ASSUME NEW k \in Keys, t # Drain(k)
          PROVE  /\ HasDrainer(k) => HasDrainer(k)'
                 /\ NoDrainer(k) => NoDrainer(k)'
      <3>1. 1 \notin Queued(k)
        BY <2>2, <2>8 DEF Queued
      <3>2. Queued(k)' = {i - 1 : i \in Queued(k)}
        BY <2>6, <3>1
      <3>3. Queued(k) = {} => Queued(k)' = {}
        BY <3>2
      <3>4. \A x : Queued(k) = {x} => Queued(k)' = {x - 1}
        BY <3>2
      <3>5. Submits(k)' = Submits(k) /\ Runs(k)' = Runs(k)
        BY <1>3, <2>5, <2>8
      <3> QED
        BY <3>3, <3>4, <3>5 DEF HasDrainer, NoDrainer
    <2> QED
      BY <1>2, <2>1, <2>7, <2>8 DEF DrainerInv
  <1>5. CASE DrainStep(w)
    <2>1. PICK k \in Keys : worker[w].at = "drain" /\ worker[w].task = Drain(k)
      BY <1>5, TaskKinds DEF DrainStep, Shape, InHand
    <2>k. k = worker[w].task[2]
      BY <2>1, TaskKinds
    <2>2. w \in Runs(k) /\ \A l \in Keys \ {k} : w \notin Runs(l)
      BY <2>1, TaskKinds DEF Runs
    <2>3. workQueue' = workQueue /\ \A l \in Keys : Queued(l)' = Queued(l)
      BY <1>5 DEF DrainStep, Queued
    <2>4. HasDrainer(k) /\ k \in serialActive \ wedged
      BY <2>1, <2>2 DEF DrainerInv, NoDrainer
    <2>5. Submits(k) = {} /\ Runs(k) = {w} /\ Queued(k) = {}
      BY <2>2, <2>4 DEF HasDrainer
    <2>6. CASE serialQueues[k] = <<>>
      <3>1. /\ worker' = [worker EXCEPT ![w].at = "release"]
            /\ serialActive' = serialActive \ {k} /\ serialQueues' = serialQueues
        BY <1>5, <2>k, <2>6 DEF DrainStep
      <3>2. \A l \in Keys : Runs(l)' = Runs(l) \ {w}
        <4>1. /\ worker'[w].at = "release"
              /\ \A v \in Workers \ {w} : worker'[v] = worker[v]
          BY <1>1, <3>1
        <4> QED
          BY <4>1 DEF Runs
      <3>3. NoDrainer(k)'
        BY <1>3, <2>1, <2>3, <2>5, <3>2 DEF NoDrainer
      <3>4. \A l \in Keys \ {k} : /\ HasDrainer(l) => HasDrainer(l)'
                                  /\ NoDrainer(l) => NoDrainer(l)'
        BY <1>3, <2>2, <2>3, <3>2 DEF HasDrainer, NoDrainer
      <3> QED
        BY <1>2, <2>1, <2>4, <2>6, <3>1, <3>3, <3>4 DEF DrainerInv
    <2>7. CASE serialQueues[k] # <<>>
      <3>1. /\ worker' = [worker EXCEPT ![w] =
                            Working("job", worker[w].task, Head(serialQueues[k]))]
            /\ serialActive' = serialActive
            /\ serialQueues' = [serialQueues EXCEPT ![k] = Tail(@)]
        BY <1>1, <1>5, <2>k, <2>7 DEF DrainStep
      <3>2. \A l \in Keys : Runs(l)' = Runs(l)
        <4>1. /\ worker'[w].at = "job" /\ worker'[w].task = worker[w].task
              /\ \A v \in Workers \ {w} : worker'[v] = worker[v]
          BY <1>1, <3>1 DEF Working
        <4> QED
          BY <2>1, <4>1 DEF Runs
      <3>3. \A l \in Keys : /\ HasDrainer(l) => HasDrainer(l)'
                            /\ NoDrainer(l) => NoDrainer(l)'
        BY <1>3, <2>3, <3>2 DEF HasDrainer, NoDrainer
      <3>4. \A l \in Keys \ {k} : serialQueues'[l] = serialQueues[l]
        BY <1>1, <3>1
      <3> QED
        BY <1>2, <2>4, <3>1, <3>3, <3>4 DEF DrainerInv
    <2> QED
      BY <2>6, <2>7
  <1>6. CASE EndJob(w) \/ FailJob(w) \/ Reported(w) \/ ReleaseSlot(w) \/ FinishTask(w)
    <2>1. UNCHANGED <<workQueue, serialQueues, serialActive>>
      BY <1>6 DEF EndJob, FailJob, Reported, ReleaseSlot, FinishTask, serialVars
    <2>2. \A v \in Workers \ {w} : worker'[v] = worker[v]
      BY <1>1, <1>6 DEF EndJob, FailJob, Reported, ReleaseSlot, FinishTask
    <2>3. \A k \in Keys : w \in Runs(k)' <=> w \in Runs(k)
      <3>1. CASE EndJob(w) \/ Reported(w)
        <4>1. /\ worker[w].at \in {"job", "reporting"}
              /\ worker'[w].task = worker[w].task
              /\ worker'[w].at = After(worker[w].task)
          BY <1>1, <3>1 DEF EndJob, Reported, Working
        <4>2. \A k \in Keys : worker[w].task = Drain(k) => After(worker[w].task) = "drain"
          BY TaskKinds DEF After
        <4> QED
          BY <4>1, <4>2 DEF Runs
      <3>2. CASE FailJob(w)
        <4>1. /\ worker[w].at = "job" /\ worker'[w].at = "reporting"
              /\ worker'[w].task = worker[w].task
          BY <1>1, <3>2 DEF FailJob, WorkHands
        <4> QED
          BY <4>1 DEF Runs
      <3>3. CASE ReleaseSlot(w)
        <4>1. worker[w].at = "release" /\ worker'[w].at = "finish"
          BY <1>1, <3>3 DEF ReleaseSlot, WorkHands
        <4> QED
          BY <4>1 DEF Runs
      <3>4. CASE FinishTask(w)
        <4>1. worker[w].at = "finish" /\ worker'[w].task = NoTask
          BY <1>1, <3>4 DEF FinishTask, Idle, Working
        <4> QED
          BY <4>1, TaskKinds DEF Runs
      <3> QED
        BY <1>6, <3>1, <3>2, <3>3, <3>4
    <2>4. \A k \in Keys : Runs(k)' = Runs(k) /\ Queued(k)' = Queued(k)
      BY <2>1, <2>2, <2>3 DEF Runs, Queued
    <2> QED
      BY <1>2, <1>3, <2>1, <2>4 DEF DrainerInv, HasDrainer, NoDrainer
  <1> QED
    BY <1>4, <1>5, <1>6 DEF Work

\* No step gives a key a second drainer or takes it away from an active one.
LEMMA DrainerStep == Shape /\ DrainerInv /\ [Next]_vars => DrainerInv'
  <1> SUFFICES ASSUME Shape, DrainerInv, [Next]_vars PROVE DrainerInv'
    OBVIOUS
  <1>1. CASE Close \/ ShutdownPool \/ UNCHANGED vars
    <2>1. UNCHANGED <<submit, workQueue, worker, serialQueues, serialActive, wedged>>
      BY <1>1 DEF Close, ShutdownPool, vars, serialVars, poolVars
    <2> QED
      BY ZenonT(30), <2>1 DEF DrainerInv, HasDrainer, NoDrainer, Submits, Runs, Queued
  <1> QED
    BY <1>1, DrainerEmit, DrainerSubmit, DrainerWork DEF Next

----------------------------------------------------------------------------
(* The theorems.                                                           *)

Inv == Shape /\ Conserved /\ DrainerInv

(* The inductive invariant: shapes, slots and counts, and the drainer of    *)
(* each key, in every interleaving of readers, workers and shutdown.        *)
THEOREM Invariance == Spec => []Inv
  <1>1. Init => Inv
    BY ShapeInit, ConservedInit, DrainerInit DEF Inv
  <1>2. Inv /\ [Next]_vars => Inv'
    BY ShapeStep, ConservedStep, DrainerStep DEF Inv
  <1> QED
    BY <1>1, <1>2, PTL DEF Spec

(* Every variable of the dispatcher keeps its shape.                        *)
THEOREM TypeCorrect == Spec => []TypeOK
  <1>1. Inv => TypeOK
    BY DEF Inv, Shape
  <1> QED
    BY <1>1, Invariance, PTL

(* No slot of the pool is lost or returned twice, whatever fails, and the   *)
(* BoundedSemaphore is never released beyond max_pending_tasks.             *)
THEOREM NoSlotIsLost == Spec => []SlotsConserved
  <1>1. Inv => SlotsConserved
    BY DEF Inv, Conserved
  <1> QED
    BY <1>1, Invariance, PTL

(* _active_tasks is the number of tasks that are queued or run.             *)
THEOREM CountIsExact == Spec => []ActiveTasksExact
  <1>1. Inv => ActiveTasksExact
    BY DEF Inv, Conserved
  <1> QED
    BY <1>1, Invariance, PTL

(* A key that is active has exactly one drainer, or lost it to a refusal of *)
(* _submit; any other key has none, and no job waits under it.              *)
THEOREM DrainerIsUnique == Spec => []OneDrainer
  <1>1. Inv => OneDrainer
    <2> SUFFICES ASSUME Inv, NEW k \in Keys
                 PROVE  /\ Cardinality(Drainers(k))
                             = IF k \in serialActive \ wedged THEN 1 ELSE 0
                        /\ serialQueues[k] # <<>> => k \in serialActive
      BY DEF OneDrainer
    <2>1. Drainers(k) = Submits(k) \cup Runs(k) \cup Queued(k)
      BY DEF Drainers, Submits, Runs, Queued
    <2>2. CASE k \in serialActive \ wedged
      <3>1. HasDrainer(k)
        BY <2>2 DEF Inv, DrainerInv
      <3>2. \E x : Drainers(k) = {x}
        BY <2>1, <3>1 DEF HasDrainer
      <3> QED
        BY <2>2, <3>2, FS_Singleton DEF Inv, DrainerInv
    <2>3. CASE k \notin serialActive \ wedged
      <3>1. Drainers(k) = {}
        BY <2>1, <2>3 DEF Inv, DrainerInv, NoDrainer
      <3> QED
        BY <2>3, <3>1, FS_EmptySet DEF Inv, DrainerInv
    <2> QED
      BY <2>2, <2>3
  <1> QED
    BY <1>1, Invariance, PTL

----------------------------------------------------------------------------
(* The jobs of a key run one at a time and in order: Dispatcher implements *)
(* SerialExecutor.                                                         *)

\* What runs under k is the job of the only worker that has its drainer.
RunningExact ==
    \A k \in Keys :
       /\ \A w \in Workers : worker[w].task = Drain(k) /\ worker[w].job # NoJob
             => Running(k) = worker[w].job /\ Runs(k) = {w}
       /\ (\A w \in Workers : worker[w].task = Drain(k) => worker[w].job = NoJob)
             => Running(k) = NoJob

\* At most one worker runs a job of a key, and Running(k) is that job.
LEMMA RunningJob == Inv => RunningExact
  <1> SUFFICES ASSUME Inv, NEW k \in Keys
               PROVE  /\ \A w \in Workers : worker[w].task = Drain(k) /\ worker[w].job # NoJob
                            => Running(k) = worker[w].job /\ Runs(k) = {w}
                      /\ (\A w \in Workers : worker[w].task = Drain(k) => worker[w].job = NoJob)
                            => Running(k) = NoJob
    BY DEF RunningExact
  <1>1. ASSUME NEW w \in Workers, worker[w].task = Drain(k), worker[w].job # NoJob
        PROVE  Runs(k) = {w}
    <2>1. worker[w].at \in {"job", "reporting"}
      BY <1>1 DEF Inv, Shape, InHand
    <2>2. w \in Runs(k)
      BY <1>1, <2>1 DEF Runs
    <2>3. HasDrainer(k)
      BY <2>2 DEF Inv, DrainerInv, NoDrainer
    <2> QED
      BY <2>2, <2>3 DEF HasDrainer
  <1>2. ASSUME NEW w \in Workers, worker[w].task = Drain(k), worker[w].job # NoJob
        PROVE  Running(k) = worker[w].job
    <2> DEFINE R == {v \in Workers : worker[v].task = Drain(k) /\ worker[v].job # NoJob}
               v == CHOOSE v \in Workers :
                      worker[v].task = Drain(k) /\ worker[v].job # NoJob
    <2>1. v \in Workers /\ worker[v].task = Drain(k) /\ worker[v].job # NoJob
      BY <1>2
    <2>2. v = w
      <3>1. Runs(k) = {v}
        BY <1>1, <2>1
      <3>2. Runs(k) = {w}
        BY <1>1, <1>2
      <3> QED
        BY <3>1, <3>2
    <2>3. Running(k) = worker[v].job
      BY <1>2 DEF Running
    <2> QED
      BY <2>2, <2>3
  <1>3. ASSUME \A w \in Workers : worker[w].task = Drain(k) => worker[w].job = NoJob
        PROVE  Running(k) = NoJob
    BY <1>3 DEF Running
  <1> QED
    BY <1>1, <1>2, <1>3


\* The worker v runs a job of k.
Runner(v, k) == worker[v].task = Drain(k) /\ worker[v].job # NoJob

\* Nothing changes under a key whose runner, if any, keeps its job.
LEMMA SameRunning ==
    ASSUME RunningExact, RunningExact', NEW k \in Keys,
           \A v \in Workers : /\ Runner(v, k)' <=> Runner(v, k)
                              /\ Runner(v, k) => worker'[v].job = worker[v].job
    PROVE  Running(k)' = Running(k)
  <1>1. CASE \E v \in Workers : Runner(v, k)
    <2>1. PICK v \in Workers : Runner(v, k) /\ Runner(v, k)'
      BY <1>1
    <2>2. Running(k) = worker[v].job
      BY <2>1 DEF RunningExact, Runner
    <2>3. Running(k)' = worker'[v].job
      BY <2>1 DEF RunningExact, Runner
    <2> QED
      BY <2>1, <2>2, <2>3
  <1>2. CASE \A v \in Workers : ~Runner(v, k)
    <2>1. Running(k) = NoJob
      BY <1>2 DEF RunningExact, Runner
    <2>2. Running(k)' = NoJob
      BY <1>2 DEF RunningExact, Runner
    <2> QED
      BY <2>1, <2>2
  <1> QED
    BY <1>1, <1>2

running == [k \in Keys |-> Running(k)]

\* Every step of a worker starts or ends a job, or changes nothing of what
\* SerialExecutor sees.
LEMMA SerialWork ==
    ASSUME Inv, RunningExact, RunningExact', NEW w \in Workers, Work(w)
    PROVE  Serial!Next \/ UNCHANGED <<serialQueues, running>>
  <1>1. /\ worker \in [Workers -> WorkHands] /\ serialQueues \in [Keys -> Seq(Jobs)]
        /\ NoJob \notin Jobs
    BY DispatcherAssumption DEF Inv, Shape, TypeOK, WorkHands, Jobs
  <1>2. ASSUME \A v \in Workers, k \in Keys : /\ Runner(v, k)' <=> Runner(v, k)
                                              /\ Runner(v, k) => worker'[v].job = worker[v].job
        PROVE  running' = running
    BY <1>2, SameRunning DEF running
  <1>3. CASE TakeTask(w)
    <2>1. /\ worker[w].job = NoJob
          /\ \A v \in Workers \ {w} : worker'[v] = worker[v]
          /\ \/ worker'[w].job = NoJob
             \/ worker'[w].task[1] = "handle"
      <3>1. worker[w].job = NoJob
        BY <1>3 DEF TakeTask, Idle, Working
      <3>2. /\ \A v \in Workers \ {w} : worker'[v] = worker[v]
            /\ worker'[w].job = NoJob \/ worker'[w].task[1] = "handle"
        BY <1>1, <1>3, TakenTask DEF Inv, Shape, Working
      <3> QED
        BY <3>1, <3>2
    <2>2. \A v \in Workers, k \in Keys : /\ Runner(v, k)' <=> Runner(v, k)
                                         /\ Runner(v, k) => worker'[v].job = worker[v].job
      BY <2>1, TaskKinds DEF Runner
    <2>3. serialQueues' = serialQueues
      BY <1>3 DEF TakeTask, serialVars
    <2> QED
      BY <1>2, <2>2, <2>3
  <1>4. CASE DrainStep(w)
    <2>1. PICK k \in Keys : worker[w].at = "drain" /\ worker[w].task = Drain(k)
      BY <1>4, TaskKinds DEF DrainStep, Inv, Shape, InHand
    <2>2. k = worker[w].task[2] /\ worker[w].job = NoJob
      BY <2>1, TaskKinds DEF Inv, Shape, InHand
    <2>3. CASE serialQueues[k] = <<>>
      <3>1. /\ \A v \in Workers \ {w} : worker'[v] = worker[v]
            /\ worker'[w].job = NoJob
            /\ serialQueues' = serialQueues
        BY <1>1, <1>4, <2>2, <2>3 DEF DrainStep, WorkHands
      <3>2. \A v \in Workers, l \in Keys : /\ Runner(v, l)' <=> Runner(v, l)
                                           /\ Runner(v, l) => worker'[v].job = worker[v].job
        BY <2>2, <3>1 DEF Runner
      <3> QED
        BY <1>2, <3>1, <3>2
    <2>4. CASE serialQueues[k] # <<>>
      <3>1. /\ \A v \in Workers \ {w} : worker'[v] = worker[v]
            /\ worker'[w].job = Head(serialQueues[k])
            /\ worker'[w].task = Drain(k)
            /\ serialQueues' = [serialQueues EXCEPT ![k] = Tail(@)]
        BY <1>1, <1>4, <2>1, <2>2, <2>4 DEF DrainStep, Working
      <3>2. Head(serialQueues[k]) \in Jobs
        BY <1>1, <2>4
      <3>3. w \in Runs(k)
        BY <2>1 DEF Runs
      <3>4. Running(k) = NoJob
        <4>1. \A v \in Workers : worker[v].task = Drain(k) => worker[v].job = NoJob
          BY <2>2, <3>3 DEF RunningExact
        <4> QED
          BY <4>1 DEF RunningExact
      <3>5. Running(k)' = Head(serialQueues[k])
        BY <1>1, <3>1, <3>2 DEF RunningExact
      <3>6. \A l \in Keys \ {k} : Running(l)' = Running(l)
        <4> SUFFICES ASSUME NEW l \in Keys \ {k} PROVE Running(l)' = Running(l)
          OBVIOUS
        <4>1. Drain(k) # Drain(l)
          BY TaskKinds
        <4>2. \A v \in Workers : /\ Runner(v, l)' <=> Runner(v, l)
                                 /\ Runner(v, l) => worker'[v].job = worker[v].job
          BY <2>1, <3>1, <4>1 DEF Runner
        <4> QED
          BY <4>2, SameRunning
      <3>7. running' = [running EXCEPT ![k] = Head(serialQueues[k])]
        BY <3>5, <3>6 DEF running
      <3>8. Serial!Start(k)
        BY <2>4, <3>1, <3>4, <3>7 DEF Serial!Start, running
      <3> QED
        BY <3>8 DEF Serial!Next
    <2> QED
      BY <2>3, <2>4
  <1>5. CASE EndJob(w) \/ Reported(w)
    <2>1. /\ worker[w].at \in {"job", "reporting"} /\ worker[w].job \in Jobs
          /\ \A v \in Workers \ {w} : worker'[v] = worker[v]
          /\ worker'[w].task = worker[w].task /\ worker'[w].job = NoJob
          /\ serialQueues' = serialQueues
      BY <1>1, <1>5 DEF EndJob, Reported, Working, Inv, Shape, InHand, serialVars
    <2>2. ASSUME NEW k \in Keys, worker[w].task = Drain(k)
          PROVE  Serial!Next
      <3>1. Running(k) # NoJob /\ Runs(k) = {w}
        BY <1>1, <2>1, <2>2 DEF RunningExact
      <3>2. Running(k)' = NoJob
        <4>1. \A v \in Workers : worker'[v].task = Drain(k) => worker'[v].job = NoJob
          BY <2>1, <2>2, <3>1 DEF RunningExact
        <4> QED
          BY <4>1 DEF RunningExact
      <3>3. \A l \in Keys \ {k} : Running(l)' = Running(l)
        <4> SUFFICES ASSUME NEW l \in Keys \ {k} PROVE Running(l)' = Running(l)
          OBVIOUS
        <4>1. Drain(k) # Drain(l)
          BY TaskKinds
        <4>2. \A v \in Workers : /\ Runner(v, l)' <=> Runner(v, l)
                                 /\ Runner(v, l) => worker'[v].job = worker[v].job
          BY <2>1, <2>2, <4>1 DEF Runner
        <4> QED
          BY <4>2, SameRunning
      <3>4. running' = [running EXCEPT ![k] = NoJob]
        BY <3>2, <3>3 DEF running
      <3>5. Serial!Finish(k)
        BY <2>1, <3>1, <3>4 DEF Serial!Finish, running
      <3> QED
        BY <3>5 DEF Serial!Next
    <2>3. ASSUME \A k \in Keys : worker[w].task # Drain(k)
          PROVE  UNCHANGED <<serialQueues, running>>
      <3>1. \A v \in Workers, l \in Keys : /\ Runner(v, l)' <=> Runner(v, l)
                                           /\ Runner(v, l) => worker'[v].job = worker[v].job
        BY <2>1, <2>3 DEF Runner
      <3> QED
        BY <1>2, <2>1, <3>1
    <2> QED
      BY <2>2, <2>3
  <1>6. CASE FailJob(w) \/ ReleaseSlot(w) \/ FinishTask(w)
    <2>1. /\ \A v \in Workers \ {w} : worker'[v] = worker[v]
          /\ \/ worker'[w].task = worker[w].task /\ worker'[w].job = worker[w].job
             \/ worker'[w].job = NoJob /\ worker[w].job = NoJob
          /\ serialQueues' = serialQueues
      BY <1>1, <1>6 DEF FailJob, ReleaseSlot, FinishTask, WorkHands, Idle, Working, Inv,
             Shape, InHand, serialVars
    <2>2. \A v \in Workers, l \in Keys : /\ Runner(v, l)' <=> Runner(v, l)
                                         /\ Runner(v, l) => worker'[v].job = worker[v].job
      BY <2>1 DEF Runner
    <2> QED
      BY <1>2, <2>1, <2>2
  <1> QED
    BY <1>3, <1>4, <1>5, <1>6 DEF Work

\* A reader that queues a job is an arrival; the rest changes nothing.
LEMMA SerialStep ==
    ASSUME Inv, RunningExact, RunningExact', [Next]_vars
    PROVE  Serial!Next \/ UNCHANGED <<serialQueues, running>>
  <1>1. worker' = worker => running' = running
    BY DEF running, Running
  <1>2. ASSUME NEW c \in Clients, NEW p \in Paths, EmitSerial(c, p)
        PROVE  Serial!Next \/ UNCHANGED <<serialQueues, running>>
    <2>1. running' = running
      BY <1>1, <1>2 DEF EmitSerial, poolVars
    <2>2. <<p, c>> \in Keys
      BY DEF Keys
    <2>3. NextJob(c) \in Jobs
      <3>1. emitted[c] + 1 \in 1..MaxEmits
        BY <1>2, DispatcherAssumption DEF EmitSerial, MayEmit, Inv, Shape, TypeOK
      <3> QED
        BY <3>1 DEF NextJob, Jobs
    <2>4. \/ serialQueues' = serialQueues
          \/ serialQueues' = [serialQueues EXCEPT ![<<p, c>>] = Append(@, NextJob(c))]
      BY <1>2 DEF EmitSerial, serialVars
    <2>5. serialQueues' # serialQueues => Serial!Arrive(<<p, c>>, NextJob(c))
      BY <2>1, <2>4 DEF Serial!Arrive, running
    <2> QED
      BY <2>1, <2>2, <2>3, <2>5 DEF Serial!Next
  <1>3. CASE \/ UNCHANGED vars \/ Close \/ ShutdownPool
             \/ \E c \in Clients : EmitPath(c)
             \/ \E t \in Threads : Submit(t)
    <2>1. UNCHANGED <<worker, serialQueues>>
      BY <1>3 DEF vars, Close, ShutdownPool, EmitPath, Submit, Acquire, AcquireTimeout,
             CheckOpen, CountTask, SubmitTask, UncountTask, ReturnSlot, Raise, serialVars,
             poolVars
    <2> QED
      BY <1>1, <2>1
  <1> QED
    BY <1>2, <1>3, SerialWork DEF Next

(* "Jobs run in arrival order": every step of the readers, the pool and its *)
(* workers is a step of SerialExecutor or a stutter.                        *)
THEOREM JobsRunInOrder == Spec => SerialPerKey
  <1>1. Init => Serial!Init
    <2> SUFFICES ASSUME Init PROVE Serial!Init
      OBVIOUS
    <2>1. \A w \in Workers : worker[w].job = NoJob
      BY DEF Init, Idle, Working
    <2>2. \A k \in Keys : Running(k) = NoJob
      BY <2>1 DEF Running
    <2> QED
      BY <2>2 DEF Init, Serial!Init
  <1>2. Inv /\ RunningExact /\ RunningExact' /\ [Next]_vars
          => [Serial!Next]_<<serialQueues, running>>
    BY SerialStep
  <1>3. SerialPerKey <=> Serial!Init /\ [][Serial!Next]_<<serialQueues, running>>
    BY DEF SerialPerKey, Serial!Spec, running
  <1> QED
    BY <1>1, <1>2, <1>3, Invariance, RunningJob, PTL DEF Spec

=============================================================================
