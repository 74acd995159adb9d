------------------------- MODULE ThreadManagerProofs -------------------------
(***************************************************************************)
(* For any number of clients, workers and jobs: the types and the locks of *)
(* the thread pool; that it implements JobPool until a data race hits its  *)
(* queue; and that wait_all returns late enough.                           *)
(***************************************************************************)
EXTENDS ThreadManager, FiniteSetTheorems, TLAPS

-----------------------------------------------------------------------------
(* Types and locks.                                                        *)

\* The number of jobs in the queue is in range.
LEMMA QueueSize == ASSUME NEW Q \in SUBSET Job PROVE Cardinality(Q) \in Size
<1>1. IsFiniteSet(Job) /\ Cardinality(Job) = MaxJob
  BY CountAssumption, FS_Interval DEF Job
<1>2. IsFiniteSet(Q) /\ Cardinality(Q) <= Cardinality(Job)
  BY <1>1, FS_Subset
<1>3. Cardinality(Q) \in Nat
  BY <1>2, FS_CardinalityType
<1>4. QED
  BY <1>1, <1>2, <1>3, CountAssumption DEF Size

\* The jobs in the hands of workers are jobs.
LEMMA TakenJobs == ASSUME TypeOK PROVE Taken \subseteq Job
  BY DEF TypeOK, LocalsOK, Taken, Holding

\* The first and the next of the numbers.
LEMMA Numbers ==
  /\ 0 \in Size /\ 1 \in Turn /\ 1 \in Job \cup {MaxJob + 1}
  /\ \A w \in Worker : w + 1 \in Turn
  /\ \A w \in Turn : w <= WorkerCount => w \in Worker
  /\ \A j \in Job \cup {MaxJob + 1} : j <= MaxJob => j \in Job /\ j + 1 \in Job \cup {MaxJob + 1}
  /\ NoJob \notin Job
  BY CountAssumption DEF Size, Turn, Job, Worker, NoJob

LEMMA InitTyped == Init => TypeOK
  BY CountAssumption, ClientAssumption, Numbers
     DEF Init, TypeOK, Worker, Job, NoJob, None, Event, ClientState, WorkerState, ClientAt,
         WorkerAt, Scheduling, Assigning, Finishing, LocksOK, LocalsOK, Holding

\* A thread that only moves on.
LEMMA Move ==
  ASSUME TypeOK, NEW c \in Client, NEW at \in ClientAt, Goto(c, at)
  PROVE  /\ client' \in [Client -> ClientState]
         /\ client'[c] = [client[c] EXCEPT !.at = at]
         /\ \A d \in Client \ {c} : client'[d] = client[d]
  BY DEF TypeOK, Goto, ClientState

LEMMA WorkerMove ==
  ASSUME TypeOK, NEW w \in Worker, NEW at \in WorkerAt, Step(w, at)
  PROVE  /\ worker' \in [Worker -> WorkerState]
         /\ worker'[w] = [worker[w] EXCEPT !.at = at]
         /\ \A v \in Worker \ {w} : worker'[v] = worker[v]
  BY DEF TypeOK, Step, WorkerState

\* The local state of the clients after a step.
LEMMA StepClients ==
  ASSUME TypeOK, [Next]_vars PROVE client' \in [Client -> ClientState]
<1> USE DEF TypeOK
<1>1. ASSUME NEW c \in Client, Schedule(c) PROVE client' \in [Client -> ClientState]
  <2>1. [client[c] EXCEPT !.at = "emplacing", !.job = nextId, !.view = queue] \in ClientState
    <3>1. nextId \in Job
      BY <1>1, Numbers DEF Schedule
    <3>2. QED
      BY <3>1 DEF ClientState, ClientAt, Scheduling
  <2>2. QED
    BY <1>1, <2>1 DEF Schedule
<1>2. ASSUME NEW c \in Client, Emplace(c) \/ Sleep(c) PROVE client' \in [Client -> ClientState]
  BY <1>2, Move DEF Emplace, Sleep, ClientAt, Scheduling, Finishing
<1>3. ASSUME NEW c \in Client, Notify(c) PROVE client' \in [Client -> ClientState]
  <2>1. [client[c] EXCEPT !.at = "idle", !.job = NoJob, !.view = {}] \in ClientState
    BY <1>3 DEF Notify, ClientState, ClientAt, NoJob
  <2>2. QED
    BY <1>3, <2>1 DEF Notify
<1>4. ASSUME NEW c \in Client, WaitAll(c) PROVE client' \in [Client -> ClientState]
  <2>1. queue \cup Taken \in SUBSET Job
    BY TakenJobs
  <2>2. [client[c] EXCEPT !.at = "checking", !.goal = "all", !.due = queue \cup Taken] \in ClientState
    BY <2>1 DEF ClientState, ClientAt, Assigning
  <2>3. QED
    BY <1>4, <2>2 DEF WaitAll
<1>5. ASSUME NEW c \in Client, WaitOne(c) PROVE client' \in [Client -> ClientState]
  <2>1. [client[c] EXCEPT !.at = "sizing", !.goal = "one"] \in ClientState
    BY <1>5 DEF WaitOne, ClientState, ClientAt, Assigning
  <2>2. QED
    BY <1>5, <2>1 DEF WaitOne
<1>6. ASSUME NEW c \in Client, CheckEmpty(c) PROVE client' \in [Client -> ClientState]
  <2>1. [client[c] EXCEPT !.at = "polling", !.turn = 1] \in ClientState
    BY Numbers DEF ClientState, ClientAt, Finishing
  <2>2. QED
    BY <1>6, <2>1, Move DEF CheckEmpty, ClientAt, Assigning
<1>7. ASSUME NEW c \in Client, ReadSize(c) PROVE client' \in [Client -> ClientState]
  <2>1. [client[c] EXCEPT !.at = "assigning", !.size = Cardinality(queue)] \in ClientState
    BY <1>7, QueueSize DEF ReadSize, ClientState, ClientAt, Assigning
  <2>2. QED
    BY <1>7, <2>1 DEF ReadSize
<1>8. ASSUME NEW c \in Client, TestSize(c) PROVE client' \in [Client -> ClientState]
  <2>1. \A at \in {"checking", "sizing"} : [client[c] EXCEPT !.at = at, !.size = 0] \in ClientState
    BY Numbers DEF ClientState, ClientAt, Assigning
  <2>2. QED
    BY <1>8, <2>1, Move DEF TestSize, ClientAt, Assigning
<1>9. ASSUME NEW c \in Client, Poll(c) \/ TestFinished(c)
      PROVE  client' \in [Client -> ClientState]
  <2> DEFINE turn == client[c].turn + 1
  <2>1. turn \in Turn
    BY <1>9, Numbers DEF Poll, TestFinished, ClientIs, LocalsOK, ClientState
  <2>2. [client[c] EXCEPT !.turn = turn] \in ClientState
        /\ [client[c] EXCEPT !.at = "polling", !.turn = turn] \in ClientState
    BY <2>1 DEF ClientState, ClientAt, Finishing
  <2>3. QED
    BY <1>9, <2>2, Move DEF Poll, TestFinished, ClientAt, Finishing
<1>11. ASSUME NEW c \in Client, Return(c) PROVE client' \in [Client -> ClientState]
  <2>1. [client[c] EXCEPT !.at = "idle", !.turn = 1, !.due = {}] \in ClientState
    BY Numbers DEF ClientState, ClientAt
  <2>2. QED
    BY <1>11, <2>1 DEF Return
<1>12. ASSUME NEW w \in Worker, Take(w) \/ Announce(w) PROVE client' \in [Client -> ClientState]
  <2>1. \A c \in Client : /\ [client[c] EXCEPT !.at = "assigning"] \in ClientState
                         /\ [client[c] EXCEPT !.at = "testing", !.unheard = FALSE] \in ClientState
                         /\ [client[c] EXCEPT !.unheard = TRUE] \in ClientState
    BY DEF ClientState, ClientAt, Assigning, Finishing
  <2>2. QED
    BY <1>12, <2>1 DEF Take, Announce
<1>13. CASE \/ \E w \in Worker : \/ Loop(w) \/ Request(w) \/ Doze(w) \/ ClearFinished(w)
                              \/ Execute(w) \/ SetFinished(w) \/ Throw(w)
            \/ Destroy \/ Join \/ UNCHANGED vars
  BY <1>13 DEF Loop, Request, Doze, ClearFinished, Execute, SetFinished, Throw, Destroy, Join, vars
<1>14. QED
  BY <1>1, <1>2, <1>3, <1>4, <1>5, <1>6, <1>7, <1>8, <1>9, <1>11, <1>12, <1>13
     DEF Next, Continue, Work

\* The local state of the workers after a step.
LEMMA StepWorkers ==
  ASSUME TypeOK, [Next]_vars PROVE worker' \in [Worker -> WorkerState]
<1> USE DEF TypeOK
<1>1. ASSUME NEW c \in Client, Notify(c) PROVE worker' \in [Worker -> WorkerState]
  BY <1>1, WorkerMove DEF Notify, WorkerAt
<1>2. ASSUME NEW w \in Worker, Loop(w) \/ Doze(w) \/ Execute(w)
      PROVE  worker' \in [Worker -> WorkerState]
  BY <1>2, WorkerMove DEF Loop, Doze, Execute, WorkerAt
<1>3. ASSUME NEW w \in Worker, Request(w) PROVE worker' \in [Worker -> WorkerState]
  <2>1. \A j \in queue : [worker[w] EXCEPT !.at = "taking", !.job = j, !.view = queue] \in WorkerState
    BY DEF WorkerState, WorkerAt
  <2>2. QED
    BY <1>3, <2>1, WorkerMove DEF Request, WorkerAt
<1>4. ASSUME NEW w \in Worker, Take(w) \/ ClearFinished(w) \/ SetFinished(w) \/ Announce(w)
      PROVE worker' \in [Worker -> WorkerState]
  <2>1. /\ [worker[w] EXCEPT !.at = "took", !.view = {}] \in WorkerState
        /\ [worker[w] EXCEPT !.at = "running", !.finished = FALSE] \in WorkerState
        /\ [worker[w] EXCEPT !.at = "announcing", !.finished = TRUE] \in WorkerState
        /\ [worker[w] EXCEPT !.at = "head", !.job = NoJob] \in WorkerState
    BY DEF WorkerState, WorkerAt, NoJob
  <2>2. QED
    BY <1>4, <2>1 DEF Take, ClearFinished, SetFinished, Announce
<1>6. CASE Destroy \/ Join
  <2>1. \A w \in Worker : [worker[w] EXCEPT !.goOn = FALSE] \in WorkerState
    BY DEF WorkerState
  <2>2. QED
    BY <1>6, <2>1 DEF Destroy, Join, Stop
<1>7. CASE \/ \E c \in Client : \/ Schedule(c) \/ Emplace(c) \/ WaitAll(c) \/ WaitOne(c)
                              \/ CheckEmpty(c) \/ ReadSize(c) \/ TestSize(c) \/ Poll(c)
                              \/ TestFinished(c) \/ Sleep(c) \/ Return(c)
           \/ \E w \in Worker : Throw(w)
           \/ UNCHANGED vars
  BY <1>7 DEF Schedule, Emplace, WaitAll, WaitOne, CheckEmpty, ReadSize, TestSize, Poll,
              TestFinished, Sleep, Return, Throw, vars
<1>8. QED
  BY <1>1, <1>2, <1>3, <1>4, <1>6, <1>7 DEF Next, Continue, Work

\* The shared fields after a step.
LEMMA StepShared ==
  ASSUME TypeOK, [Next]_vars
  PROVE  /\ queue' \subseteq Job /\ nextId' \in Job \cup {MaxJob + 1}
         /\ schedLock' \in Client \cup {None} /\ jobsLock' \in Worker \cup {NoJob}
         /\ executed' \subseteq Job /\ closing' \in {0} \cup Turn
         /\ status' \in {"running", "terminated"} /\ events' \subseteq Event
<1> USE CountAssumption DEF TypeOK
<1>1. queue' \subseteq Job /\ events' \subseteq Event
  <2>1. ASSUME NEW c \in Client, Emplace(c) PROVE queue' \subseteq Job /\ events' \subseteq Event
    <3>1. client[c].view \in SUBSET Job /\ client[c].job \in Job
      BY <2>1 DEF Emplace, ClientIs, LocalsOK, Scheduling, ClientState
    <3>2. QED
      BY <2>1, <3>1 DEF Emplace, WriteBack, Event
  <2>2. ASSUME NEW w \in Worker, Take(w) PROVE queue' \subseteq Job /\ events' \subseteq Event
    <3>1. worker[w].view \in SUBSET Job
      BY DEF WorkerState
    <3>2. QED
      BY <2>2, <3>1 DEF Take, WriteBack, Event
  <2>3. ASSUME NEW c \in Client, Notify(c) \/ Poll(c) PROVE queue' \subseteq Job /\ events' \subseteq Event
    BY <2>3 DEF Notify, Poll, Event
  <2>4. CASE queue' = queue /\ events' = events
    BY <2>4
  <2>5. QED
    BY <2>1, <2>2, <2>3, <2>4
       DEF Next, Continue, Work, Schedule, WaitAll, WaitOne, CheckEmpty, ReadSize, TestSize,
           TestFinished, Sleep, Return, Loop, Request, Doze, ClearFinished, Execute, Throw,
           SetFinished, Announce, Destroy, Join, vars
<1>2. executed' \subseteq Job
  <2>1. ASSUME NEW w \in Worker, Execute(w) PROVE executed' \subseteq Job
    BY <2>1 DEF Execute, WorkerIs, LocalsOK, Holding
  <2>2. QED
    BY <2>1
       DEF Next, Continue, Work, Schedule, Emplace, Notify, WaitAll, WaitOne, CheckEmpty,
           ReadSize, TestSize, Poll, TestFinished, Sleep, Return, Loop, Request, Doze, Take,
           ClearFinished, Throw, SetFinished, Announce, Destroy, Join, vars
<1>3. nextId' \in Job \cup {MaxJob + 1} /\ schedLock' \in Client \cup {None}
  BY Numbers
     DEF Next, Continue, Work, Schedule, Emplace, Notify, WaitAll, WaitOne, CheckEmpty,
         ReadSize, TestSize, Poll, TestFinished, Sleep, Return, Loop, Request, Doze, Take,
         ClearFinished, Execute, Throw, SetFinished, Announce, Destroy, Join, vars
<1>6. closing' \in {0} \cup Turn /\ status' \in {"running", "terminated"}
  BY Numbers
     DEF Next, Continue, Work, Schedule, Emplace, Notify, WaitAll, WaitOne, CheckEmpty,
         ReadSize, TestSize, Poll, TestFinished, Sleep, Return, Loop, Request, Doze, Take,
         ClearFinished, Execute, Throw, SetFinished, Announce, Destroy, Join, vars
<1>4. jobsLock' \in Worker \cup {NoJob}
  BY DEF Next, Continue, Work, Schedule, Emplace, Notify, WaitAll, WaitOne, CheckEmpty,
         ReadSize, TestSize, Poll, TestFinished, Sleep, Return, Loop, Request, Doze, Take,
         ClearFinished, Execute, Throw, SetFinished, Announce, Destroy, Join, vars
<1>5. QED
  BY <1>1, <1>2, <1>3, <1>4, <1>6

\* A step of a call that waits: it moves its own client only, which holds no
\* mutex before or after, and which knows the worker it waits for.
LEMMA WaitStep ==
  ASSUME TypeOK, NEW c \in Client,
         \/ WaitAll(c) \/ WaitOne(c) \/ CheckEmpty(c) \/ ReadSize(c) \/ TestSize(c)
         \/ Poll(c) \/ TestFinished(c) \/ Sleep(c) \/ Return(c)
  PROVE  /\ UNCHANGED <<schedLock, jobsLock, worker>>
         /\ \A d \in Client \ {c} : client'[d] = client[d]
         /\ client[c].at \notin Scheduling /\ client'[c].at \notin Scheduling
         /\ client'[c].at \in {"testing", "sleeping", "finishWait"} => client'[c].turn \in Worker
<1> DEFINE Effect ==
             /\ UNCHANGED <<schedLock, jobsLock, worker>>
             /\ \A d \in Client \ {c} : client'[d] = client[d]
             /\ client[c].at \notin Scheduling /\ client'[c].at \notin Scheduling
             /\ client'[c].at \in {"testing", "sleeping", "finishWait"} => client'[c].turn \in Worker
<1> USE Numbers DEF TypeOK, ClientIs, Scheduling, ClientState
<1>1. CASE WaitAll(c)
  BY <1>1 DEF WaitAll
<1>2. CASE WaitOne(c)
  BY <1>2 DEF WaitOne
<1>3. CASE CheckEmpty(c)
  <2>1. \/ client' = [client EXCEPT ![c] = [client[c] EXCEPT !.at = "sizing"]]
        \/ client' = [client EXCEPT ![c] = [client[c] EXCEPT !.at = "polling", !.turn = 1]]
    BY <1>3 DEF CheckEmpty, Goto
  <2>2. client[c].at = "checking" /\ UNCHANGED <<schedLock, jobsLock, worker>>
    BY <1>3 DEF CheckEmpty
  <2> DEFINE r1 == [client[c] EXCEPT !.at = "sizing"]
             r2 == [client[c] EXCEPT !.at = "polling", !.turn = 1]
  <2>5. r1.at = "sizing" /\ r2.at = "polling"
    BY DEF ClientState
  <2>6. client' = [client EXCEPT ![c] = r1] \/ client' = [client EXCEPT ![c] = r2]
    BY <2>1
  <2> HIDE DEF r1, r2
  <2>3. client'[c].at \in {"sizing", "polling"} /\ \A d \in Client \ {c} : client'[d] = client[d]
    BY <2>5, <2>6
  <2>4. QED
    BY <2>2, <2>3
<1>4. CASE ReadSize(c)
  BY <1>4 DEF ReadSize
<1>5. CASE TestSize(c)
  <2>1. \E r \in {[client[c] EXCEPT !.at = "checking", !.size = 0],
                 [client[c] EXCEPT !.at = "sizing", !.size = 0],
                 [client[c] EXCEPT !.at = "assignWait"]} :
          client' = [client EXCEPT ![c] = r]
    BY <1>5 DEF TestSize, Goto
  <2>2. client[c].at = "assigning" /\ UNCHANGED <<schedLock, jobsLock, worker>>
    BY <1>5 DEF TestSize
  <2>3. QED
    BY <2>1, <2>2
<1>6. CASE Poll(c)
  BY <1>6 DEF Poll, Goto
<1>7. CASE TestFinished(c)
  <2>1. \/ client' = [client EXCEPT ![c] = [client[c] EXCEPT !.at = "sleeping"]]
        \/ client' = [client EXCEPT ![c] = [client[c] EXCEPT !.at = "polling",
                                                           !.turn = client[c].turn + 1]]
    BY <1>7 DEF TestFinished, Goto
  <2>2. client[c].at = "testing" /\ UNCHANGED <<schedLock, jobsLock, worker>>
    BY <1>7 DEF TestFinished
  <2>3. client[c].turn \in Worker
    BY <2>2 DEF LocalsOK
  <2>4. /\ \A d \in Client \ {c} : client'[d] = client[d]
        /\ \/ client'[c].at = "polling"
           \/ client'[c].at = "sleeping" /\ client'[c].turn = client[c].turn
    <3> DEFINE k == client[c]
               asleep == [k EXCEPT !.at = "sleeping"]
               next   == [k EXCEPT !.at = "polling", !.turn = client[c].turn + 1]
    <3>1. asleep.at = "sleeping" /\ asleep.turn = k.turn /\ next.at = "polling"
      OBVIOUS
    <3>2. client' = [client EXCEPT ![c] = asleep] \/ client' = [client EXCEPT ![c] = next]
      BY <2>1
    <3>3. client \in [Client -> ClientState]
      OBVIOUS
    <3> HIDE DEF asleep, next, k
    <3>4. (\A d \in Client \ {c} : client'[d] = client[d]) /\ client'[c] \in {asleep, next}
      BY ONLY <3>2, <3>3, c \in Client
    <3> QED BY ONLY <3>1, <3>4 DEF k
  <2>5. QED
    BY <2>2, <2>3, <2>4
<1>8. CASE Sleep(c)
  BY <1>8 DEF Sleep, Goto, LocalsOK
<1>9. CASE Return(c)
  BY <1>9 DEF Return
<1>10. QED
  BY <1>1, <1>2, <1>3, <1>4, <1>5, <1>6, <1>7, <1>8, <1>9

\* A step of a worker outside of request_job.
LEMMA WorkStep ==
  ASSUME TypeOK, NEW w \in Worker,
         Loop(w) \/ ClearFinished(w) \/ Execute(w) \/ SetFinished(w) \/ Announce(w)
  PROVE  /\ UNCHANGED <<schedLock, jobsLock>>
         /\ \A v \in Worker \ {w} : worker'[v] = worker[v]
         /\ worker[w].at \notin {"dozing", "taking"} /\ worker'[w].at \notin {"dozing", "taking"}
         /\ worker'[w].at \in Holding => worker'[w].job \in Job
<1> USE DEF TypeOK, WorkerIs, Holding, LocalsOK, WorkerState
<1>1. CASE Loop(w)
  BY <1>1 DEF Loop, Step
<1>2. CASE ClearFinished(w)
  BY <1>2 DEF ClearFinished
<1>3. CASE Execute(w)
  BY <1>3 DEF Execute, Step
<1>4. CASE SetFinished(w)
  BY <1>4 DEF SetFinished
<1>5. CASE Announce(w)
  <2>1. /\ UNCHANGED <<schedLock, jobsLock>> /\ worker[w].at = "announcing"
        /\ worker' = [worker EXCEPT ![w] = [worker[w] EXCEPT !.at = "head", !.job = NoJob]]
    BY <1>5 DEF Announce
  <2> QED BY <2>1
<1>6. QED
  BY <1>1, <1>2, <1>3, <1>4, <1>5

\* Which clients a worker's step wakes: they stay inside their call.
LEMMA Woken ==
  ASSUME TypeOK, NEW w \in Worker, Work(w)
  PROVE  \A c \in Client :
           \/ client'[c] = client[c]
           \/ /\ client[c].at = "assignWait"
              /\ client'[c] = [client[c] EXCEPT !.at = "assigning"]
           \/ /\ client[c].at = "finishWait"
              /\ client'[c] = [client[c] EXCEPT !.at = "testing", !.unheard = FALSE]
           \/ /\ client[c].at = "sleeping"
              /\ client'[c] = [client[c] EXCEPT !.unheard = TRUE]
<1>1. CASE Announce(w)
  BY <1>1 DEF Announce, Asleep, AboutToSleep
<1>2. CASE ~Announce(w)
  BY <1>2 DEF Work, Loop, Request, Doze, Take, ClearFinished, Execute, SetFinished, TypeOK
<1> QED BY <1>1, <1>2

\* request_job holds the mutex from the test of the queue to the pop or the wait.
LEMMA RequestStep ==
  ASSUME TypeOK, NEW w \in Worker, Request(w) \/ Doze(w) \/ Take(w)
  PROVE  /\ schedLock' = schedLock
         /\ \A v \in Worker \ {w} : worker'[v] = worker[v]
         /\ \/ /\ jobsLock = NoJob /\ jobsLock' = w
               /\ worker[w].at = "request" /\ worker'[w].at \in {"dozing", "taking"}
            \/ /\ jobsLock = w /\ jobsLock' = NoJob
               /\ worker[w].at \in {"dozing", "taking"} /\ worker'[w].at \in {"waiting", "took"}
         /\ worker'[w].at \in Holding => worker'[w].job \in Job
<1> USE DEF TypeOK, WorkerIs, Holding, LocalsOK, LocksOK, WorkerState
<1>1. CASE Request(w)
  <2>1. \/ worker' = [worker EXCEPT ![w] = [worker[w] EXCEPT !.at = "dozing"]]
        \/ \E j \in Job : worker' = [worker EXCEPT ![w] = [worker[w] EXCEPT
                                          !.at = "taking", !.job = j, !.view = queue]]
    BY <1>1 DEF Request, Step
  <2>2. /\ schedLock' = schedLock /\ jobsLock = NoJob /\ jobsLock' = w
        /\ worker[w].at = "request"
    BY <1>1 DEF Request, Unlocked
  <2>3. CASE worker' = [worker EXCEPT ![w] = [worker[w] EXCEPT !.at = "dozing"]]
    BY <2>2, <2>3
  <2>4. ASSUME NEW j \in Job, worker' = [worker EXCEPT ![w] = [worker[w] EXCEPT
                                            !.at = "taking", !.job = j, !.view = queue]]
        PROVE  /\ \A v \in Worker \ {w} : worker'[v] = worker[v]
               /\ worker'[w].at = "taking" /\ worker'[w].job \in Job
    <3> DEFINE r == [worker[w] EXCEPT !.at = "taking", !.job = j, !.view = queue]
    <3>1. r.at = "taking" /\ r.job = j
      BY DEF WorkerState
    <3>2. worker' = [worker EXCEPT ![w] = r]
      BY <2>4
    <3> HIDE DEF r
    <3>3. QED
      BY <3>1, <3>2
  <2>5. QED
    BY <2>1, <2>2, <2>3, <2>4
<1>2. CASE Doze(w)
  BY <1>2 DEF Doze, Step
<1>3. CASE Take(w)
  <2>1. /\ worker' = [worker EXCEPT ![w] = [worker[w] EXCEPT !.at = "took", !.view = {}]]
        /\ schedLock' = schedLock /\ jobsLock' = NoJob /\ worker[w].at = "taking"
    BY <1>3 DEF Take
  <2>2. jobsLock = w /\ worker[w].job \in Job
    BY <2>1
  <2> DEFINE r == [worker[w] EXCEPT !.at = "took", !.view = {}]
  <2>5. r.at = "took" /\ r.job = worker[w].job
    BY DEF WorkerState
  <2>6. worker' = [worker EXCEPT ![w] = r]
    BY <2>1
  <2> HIDE DEF r
  <2>3. /\ \A v \in Worker \ {w} : worker'[v] = worker[v]
        /\ worker'[w].at = "took" /\ worker'[w].job = worker[w].job
    BY <2>5, <2>6
  <2>4. QED
    BY <2>1, <2>2, <2>3
<1>4. QED
  BY <1>1, <1>2, <1>3

\* A mutex is held by the thread whose control state says so, and by no other.
LEMMA StepLocks == ASSUME TypeOK, [Next]_vars PROVE LocksOK'
<1> USE ClientAssumption
    DEF TypeOK, LocksOK, ClientIs, WorkerIs, Scheduling, ClientState, WorkerState
<1>1. ASSUME NEW c \in Client, Schedule(c) PROVE LocksOK'
  BY <1>1 DEF Schedule, None
<1>2. ASSUME NEW c \in Client, Emplace(c) PROVE LocksOK'
  BY <1>2 DEF Emplace, Goto
<1>3. ASSUME NEW c \in Client, Notify(c) PROVE LocksOK'
  <2>1. \A w \in Worker : worker'[w].at \in {"dozing", "taking"} <=> jobsLock' = w
    BY <1>3 DEF Notify, Step
  <2>2. \A d \in Client : client'[d].at \in Scheduling <=> schedLock' = d
    BY <1>3 DEF Notify, None
  <2>3. QED
    BY <2>1, <2>2
<1>4. ASSUME NEW c \in Client,
             \/ WaitAll(c) \/ WaitOne(c) \/ CheckEmpty(c) \/ ReadSize(c) \/ TestSize(c)
             \/ Poll(c) \/ TestFinished(c) \/ Sleep(c) \/ Return(c)
      PROVE  LocksOK'
  <2> HIDE DEF TypeOK, ClientState, WorkerState, ClientIs, WorkerIs, Scheduling, LocksOK
  <2>1. /\ UNCHANGED <<schedLock, jobsLock, worker>>
        /\ \A d \in Client \ {c} : client'[d] = client[d]
        /\ client[c].at \notin Scheduling /\ client'[c].at \notin Scheduling
    BY <1>4, WaitStep
  <2>2. QED
    BY <2>1 DEF LocksOK, TypeOK
<1>5. ASSUME NEW w \in Worker, Work(w) PROVE LocksOK'
  <2> HIDE DEF TypeOK, ClientState, WorkerState, ClientIs, WorkerIs, LocksOK
  <2>1. ASSUME NEW d \in Client
        PROVE  client'[d].at \in Scheduling <=> client[d].at \in Scheduling
    <3>1. client[d] \in ClientState
      BY DEF TypeOK
    <3>2. \/ client'[d] = client[d]
          \/ client[d].at = "assignWait" /\ client'[d] = [client[d] EXCEPT !.at = "assigning"]
          \/ /\ client[d].at = "finishWait"
             /\ client'[d] = [client[d] EXCEPT !.at = "testing", !.unheard = FALSE]
          \/ client[d].at = "sleeping" /\ client'[d] = [client[d] EXCEPT !.unheard = TRUE]
      BY <1>5, Woken
    <3> QED BY ONLY <3>1, <3>2 DEF Scheduling, ClientState
  <2>2. CASE Request(w) \/ Doze(w) \/ Take(w)
    <3>1. NoJob \notin Worker
      BY DEF Worker, NoJob
    <3>2. QED
      BY <2>1, <2>2, <3>1, RequestStep DEF LocksOK, TypeOK
  <2>3. CASE Loop(w) \/ ClearFinished(w) \/ Execute(w) \/ SetFinished(w) \/ Announce(w)
    BY <2>1, <2>3, WorkStep DEF LocksOK, TypeOK
  <2>4. QED
    BY <1>5, <2>2, <2>3 DEF Work
<1>12. CASE Destroy \/ Join
  BY <1>12 DEF Destroy, Join, Stop
<1>13. CASE UNCHANGED vars \/ \E w \in Worker : Throw(w)
  BY <1>13 DEF vars, Throw
<1>14. QED
  BY <1>1, <1>2, <1>3, <1>4, <1>5, <1>12, <1>13 DEF Next, Continue

\* A thread that needs a job or a worker has one.
LEMMA StepLocals == ASSUME TypeOK, [Next]_vars PROVE LocalsOK'
<1> USE DEF TypeOK, LocalsOK
<1>1. ASSUME NEW c \in Client, Schedule(c) PROVE LocalsOK'
  BY <1>1, Numbers DEF Schedule, Scheduling, ClientState
<1>2. ASSUME NEW c \in Client, Emplace(c) PROVE LocalsOK'
  <2>1. \A d \in Client \ {c} : client'[d] = client[d]
    BY <1>2 DEF Emplace, Goto
  <2>2. /\ client[c].at \in Scheduling /\ client'[c].job = client[c].job
        /\ client'[c].at = "notifying" /\ worker' = worker
    BY <1>2 DEF Emplace, Goto, ClientIs, Scheduling, ClientState
  <2>3. QED
    BY <2>1, <2>2
<1>3. ASSUME NEW c \in Client, Notify(c) PROVE LocalsOK'
  <2>1. \A w \in Worker : worker'[w].at \in Holding => worker'[w].job \in Job
    BY <1>3 DEF Notify, Step, Holding, WorkerState
  <2>2. QED
    BY <1>3, <2>1 DEF Notify, Scheduling, ClientState
<1>4. ASSUME NEW c \in Client,
             \/ WaitAll(c) \/ WaitOne(c) \/ CheckEmpty(c) \/ ReadSize(c) \/ TestSize(c)
             \/ Poll(c) \/ TestFinished(c) \/ Sleep(c) \/ Return(c)
      PROVE  LocalsOK'
  <2>1. /\ worker' = worker
        /\ \A d \in Client \ {c} : client'[d] = client[d]
        /\ client'[c].at \notin Scheduling
        /\ client'[c].at \in {"testing", "sleeping", "finishWait"} => client'[c].turn \in Worker
    BY <1>4, WaitStep
  <2>2. QED
    BY <2>1
<1>5. ASSUME NEW w \in Worker, Work(w) PROVE LocalsOK'
  <2>1. \A c \in Client :
          /\ client'[c].at \in Scheduling => client'[c].job \in Job
          /\ client'[c].at \in {"testing", "sleeping", "finishWait"} => client'[c].turn \in Worker
    <3>1. ASSUME NEW c \in Client
          PROVE  /\ client'[c].job = client[c].job /\ client'[c].turn = client[c].turn
                 /\ client'[c].at \in Scheduling => client[c].at \in Scheduling
                 /\ client'[c].at \in {"testing", "sleeping", "finishWait"}
                      => client[c].at \in {"testing", "sleeping", "finishWait"}
      <4>1. client[c] \in ClientState
        OBVIOUS
      <4>2. \/ client'[c] = client[c]
            \/ client[c].at = "assignWait" /\ client'[c] = [client[c] EXCEPT !.at = "assigning"]
            \/ /\ client[c].at = "finishWait"
               /\ client'[c] = [client[c] EXCEPT !.at = "testing", !.unheard = FALSE]
            \/ client[c].at = "sleeping" /\ client'[c] = [client[c] EXCEPT !.unheard = TRUE]
        BY <1>5, Woken
      <4> QED BY ONLY <4>1, <4>2 DEF Scheduling, ClientState
    <3> QED BY <3>1
  <2>2. /\ \A v \in Worker \ {w} : worker'[v] = worker[v]
        /\ worker'[w].at \in Holding => worker'[w].job \in Job
    BY <1>5, RequestStep, WorkStep DEF Work
  <2>3. QED
    BY <2>1, <2>2
<1>12. CASE Destroy \/ Join
  BY <1>12 DEF Destroy, Join, Stop, Holding, WorkerState
<1>13. CASE UNCHANGED vars \/ \E w \in Worker : Throw(w)
  BY <1>13 DEF vars, Throw
<1>14. QED
  BY <1>1, <1>2, <1>3, <1>4, <1>5, <1>12, <1>13 DEF Next, Continue

LEMMA StepTyped == TypeOK /\ [Next]_vars => TypeOK'
  BY StepClients, StepWorkers, StepShared, StepLocks, StepLocals DEF TypeOK

\* The state of a pool of any size stays in its types, and its two mutexes
\* exclude: at most one client is in schedule_func, at most one worker between
\* the lock and the unlock of request_job.
THEOREM PoolTypeCorrect == Spec => []TypeOK
  BY InitTyped, StepTyped, PTL DEF Spec

-----------------------------------------------------------------------------
(* The refinement of JobPool.                                              *)

InHand == {"took", "running"}

\* Steps that put no job into a worker's hand and take none out of it.
LEMMA SameTaken ==
  ASSUME \A w \in Worker : /\ worker'[w].at \in InHand <=> worker[w].at \in InHand
                           /\ worker[w].at \in InHand => worker'[w].job = worker[w].job
  PROVE  Taken' = Taken
  BY DEF Taken, InHand

\* What a worker's steps do to its job.
LEMMA JobSteps ==
  ASSUME TypeOK, NEW w \in Worker
  PROVE  /\ Take(w) => /\ worker[w].at = "taking"
                       /\ worker'[w].at = "took" /\ worker'[w].job = worker[w].job
                       /\ worker'[w].finished = worker[w].finished
         /\ ClearFinished(w) => /\ worker[w].at = "took" /\ worker'[w].at = "running"
                                /\ worker'[w].job = worker[w].job /\ ~worker'[w].finished
         /\ Execute(w) => worker[w].at = "running" /\ worker'[w].at = "executed"
         /\ SetFinished(w) => worker[w].at = "executed" /\ worker'[w].at = "announcing"
         /\ Announce(w) => worker[w].at = "announcing" /\ worker'[w].at = "head"
         /\ Loop(w) => worker[w].at = "head" /\ worker'[w].at \in {"request", "exited"}
         /\ Doze(w) => worker[w].at = "dozing" /\ worker'[w].at = "waiting"
         /\ Request(w) => /\ worker[w].at = "request"
                          /\ \/ worker'[w].at = "dozing"
                             \/ worker'[w].at = "taking" /\ worker'[w].job \in worker'[w].view
<1> USE DEF TypeOK, WorkerIs, Step
<1>0. worker[w] \in WorkerState
  OBVIOUS
<1> DEFINE Becomes(r) == worker' = [worker EXCEPT ![w] = r]
<1>1. ASSUME NEW r, Becomes(r) PROVE worker'[w] = r
  BY <1>1
<1>2. ASSUME Take(w)
      PROVE  /\ worker[w].at = "taking"
             /\ worker'[w].at = "took" /\ worker'[w].job = worker[w].job
             /\ worker'[w].finished = worker[w].finished
  <2> DEFINE r == [worker[w] EXCEPT !.at = "took", !.view = {}]
  <2>1. Becomes(r) /\ worker[w].at = "taking"
    BY <1>2 DEF Take
  <2>2. r.at = "took" /\ r.job = worker[w].job /\ r.finished = worker[w].finished
    BY <1>0 DEF WorkerState
  <2> HIDE DEF r, Becomes
  <2>3. QED
    BY <1>1, <2>1, <2>2
<1>3. ASSUME ClearFinished(w)
      PROVE  /\ worker[w].at = "took" /\ worker'[w].at = "running"
             /\ worker'[w].job = worker[w].job /\ ~worker'[w].finished
  <2> DEFINE r == [worker[w] EXCEPT !.at = "running", !.finished = FALSE]
  <2>1. Becomes(r) /\ worker[w].at = "took"
    BY <1>3 DEF ClearFinished
  <2>2. r.at = "running" /\ r.job = worker[w].job /\ ~r.finished
    BY <1>0 DEF WorkerState
  <2> HIDE DEF r, Becomes
  <2>3. QED
    BY <1>1, <2>1, <2>2
<1>4. Execute(w) => worker[w].at = "running" /\ worker'[w].at = "executed"
  BY <1>0 DEF Execute, WorkerState
<1>5. SetFinished(w) => worker[w].at = "executed" /\ worker'[w].at = "announcing"
  BY <1>0 DEF SetFinished, WorkerState
<1>6. Announce(w) => worker[w].at = "announcing" /\ worker'[w].at = "head"
  BY <1>0 DEF Announce, WorkerState
<1>7. Loop(w) => worker[w].at = "head" /\ worker'[w].at \in {"request", "exited"}
  BY <1>0 DEF Loop, WorkerState
<1>8. Doze(w) => worker[w].at = "dozing" /\ worker'[w].at = "waiting"
  BY <1>0 DEF Doze, WorkerState
<1>9. ASSUME Request(w)
      PROVE  /\ worker[w].at = "request"
             /\ \/ worker'[w].at = "dozing"
                \/ worker'[w].at = "taking" /\ worker'[w].job \in worker'[w].view
  <2>1. /\ worker[w].at = "request"
        /\ \/ Becomes([worker[w] EXCEPT !.at = "dozing"])
           \/ \E j \in queue : Becomes([worker[w] EXCEPT !.at = "taking", !.job = j, !.view = queue])
    BY <1>9 DEF Request
  <2>2. CASE Becomes([worker[w] EXCEPT !.at = "dozing"])
    BY <1>0, <2>1, <2>2 DEF WorkerState
  <2>3. ASSUME NEW j \in queue,
               Becomes([worker[w] EXCEPT !.at = "taking", !.job = j, !.view = queue])
        PROVE  worker'[w].at = "taking" /\ worker'[w].job \in worker'[w].view
    <3> DEFINE r == [worker[w] EXCEPT !.at = "taking", !.job = j, !.view = queue]
    <3>1. r.at = "taking" /\ r.job = j /\ r.view = queue
      BY <1>0 DEF WorkerState
    <3>2. Becomes(r)
      BY <2>3
    <3> HIDE DEF r, Becomes
    <3>3. QED
      BY <1>1, <3>1, <3>2
  <2> HIDE DEF Becomes
  <2>4. QED
    BY <2>1, <2>2, <2>3
<1>10. QED
  BY <1>2, <1>3, <1>4, <1>5, <1>6, <1>7, <1>8, <1>9

\* A notification or the destructor changes no worker's job.
LEMMA OtherSteps ==
  ASSUME TypeOK, [Next]_vars, ~\E w \in Worker : Work(w)
  PROVE  \A w \in Worker :
           /\ worker'[w].at = worker[w].at \/ (worker[w].at = "waiting" /\ worker'[w].at = "request")
           /\ worker'[w].job = worker[w].job /\ worker'[w].view = worker[w].view
           /\ worker'[w].finished = worker[w].finished
<1> DEFINE Same(w) ==
             /\ worker'[w].at = worker[w].at \/ (worker[w].at = "waiting" /\ worker'[w].at = "request")
             /\ worker'[w].job = worker[w].job /\ worker'[w].view = worker[w].view
             /\ worker'[w].finished = worker[w].finished
<1> USE DEF TypeOK
<1>1. ASSUME worker' = worker PROVE \A w \in Worker : Same(w)
  BY <1>1
<1>2. ASSUME NEW c \in Client, Notify(c) PROVE \A w \in Worker : Same(w)
  <2>1. worker' = worker \/ \E v \in Worker : worker[v].at = "waiting" /\ Step(v, "request")
    BY <1>2 DEF Notify
  <2>2. ASSUME NEW v \in Worker, worker[v].at = "waiting", Step(v, "request")
        PROVE  \A w \in Worker : Same(w)
    BY <2>2 DEF Step, WorkerState
  <2>3. QED
    BY <1>1, <2>1, <2>2
<1>3. CASE Destroy \/ Join
  BY <1>3 DEF Destroy, Join, Stop, WorkerState
<1>4. ASSUME NEW c \in Client, Schedule(c) \/ Emplace(c) PROVE worker' = worker
  BY <1>4 DEF Schedule, Emplace
<1>5. ASSUME NEW c \in Client,
             \/ WaitAll(c) \/ WaitOne(c) \/ CheckEmpty(c) \/ ReadSize(c) \/ TestSize(c)
             \/ Poll(c) \/ TestFinished(c) \/ Sleep(c) \/ Return(c)
      PROVE  worker' = worker
  BY <1>5, WaitStep
<1>6. CASE UNCHANGED vars \/ \E w \in Worker : Throw(w)
  BY <1>6 DEF vars, Throw
<1>7. QED
  BY <1>1, <1>2, <1>3, <1>4, <1>5, <1>6 DEF Next, Continue

\* A client is emplacing a job only after Schedule.
LEMMA Emplacing ==
  ASSUME TypeOK, [Next]_vars, NEW c \in Client, ~Schedule(c), client'[c].at = "emplacing"
  PROVE  client'[c] = client[c]
<1> USE DEF TypeOK
<1>1. ASSUME NEW d \in Client, Schedule(d) PROVE client'[c] = client[c]
  <2>1. d # c
    BY <1>1
  <2>2. QED
    BY <1>1, <2>1 DEF Schedule
<1>2. ASSUME NEW d \in Client, Emplace(d) \/ Notify(d) PROVE client'[c] = client[c]
  <2>1. CASE d = c
    BY <1>2, <2>1 DEF Emplace, Notify, Goto, ClientState
  <2>2. CASE d # c
    BY <1>2, <2>2 DEF Emplace, Notify, Goto
  <2>3. QED
    BY <2>1, <2>2
<1>3. ASSUME NEW d \in Client,
             \/ WaitAll(d) \/ WaitOne(d) \/ CheckEmpty(d) \/ ReadSize(d) \/ TestSize(d)
             \/ Poll(d) \/ TestFinished(d) \/ Sleep(d) \/ Return(d)
      PROVE  client'[c] = client[c]
  BY <1>3, WaitStep DEF Scheduling
<1>4. ASSUME NEW w \in Worker, Work(w) PROVE client'[c] = client[c]
  BY <1>4, Woken DEF ClientState
<1>5. CASE Destroy \/ Join \/ UNCHANGED vars \/ \E w \in Worker : Throw(w)
  BY <1>5 DEF Destroy, Join, vars, Throw
<1>6. QED
  BY <1>1, <1>2, <1>3, <1>4, <1>5 DEF Next, Continue

\* The job that a worker is about to pop comes from the queue that it has read.
LEMMA Taking ==
  ASSUME TypeOK, [Next]_vars, NEW v \in Worker, worker'[v].at = "taking"
  PROVE  \/ worker'[v].job \in worker'[v].view
         \/ /\ worker[v].at = "taking"
            /\ worker'[v].job = worker[v].job /\ worker'[v].view = worker[v].view
<1>1. ASSUME NEW w \in Worker, Work(w), v # w PROVE worker'[v] = worker[v]
  BY <1>1, WorkStep, RequestStep DEF Work
<1>2. ASSUME Work(v) PROVE worker'[v].job \in worker'[v].view
  BY <1>2, JobSteps DEF Work
<1>3. QED
  BY <1>1, <1>2, OtherSteps

-----------------------------------------------------------------------------
(* The inductive invariant.                                                *)

Known == queue \cup Taken \cup executed

\* Until a race every job is at one place, which is none before Emplace; the
\* workers' jobs are different, and what a worker pops is in the queue.
PoolOK ==
  /\ \A j \in Known : j < nextId
  /\ queue \cap Taken = {} /\ queue \cap executed = {} /\ Taken \cap executed = {}
  /\ \A c \in Client : client[c].at = "emplacing" => client[c].job < nextId /\ client[c].job \notin Known
  /\ \A w \in Worker : worker[w].at = "taking" => worker[w].job \in worker[w].view
  /\ \A w, v \in Worker :
       w # v /\ worker[w].at \in InHand /\ worker[v].at \in InHand => worker[w].job # worker[v].job

PoolInv == TypeOK /\ (Raced \/ PoolOK)

LEMMA InitPool == Init => Pool!Init /\ PoolInv
<1> SUFFICES ASSUME Init PROVE Pool!Init /\ PoolInv
  OBVIOUS
<1>1. Taken = {} /\ queue = {} /\ executed = {}
  BY DEF Init, Taken
<1>2. PoolOK
  BY <1>1 DEF Init, PoolOK, Known, InHand
<1>3. QED
  BY <1>1, <1>2, InitTyped DEF PoolInv, Pool!Init

\* What went wrong is never forgotten.
LEMMA EventsStay == ASSUME [Next]_vars PROVE events \subseteq events'
<1>1. ASSUME NEW c \in Client, Schedule(c) \/ WaitAll(c) \/ WaitOne(c) \/ CheckEmpty(c) \/ ReadSize(c)
                               \/ TestSize(c) \/ TestFinished(c) \/ Sleep(c) \/ Return(c)
      PROVE  events' = events
  BY <1>1 DEF Schedule, WaitAll, WaitOne, CheckEmpty, ReadSize, TestSize, TestFinished, Sleep, Return
<1>2. ASSUME NEW c \in Client, Emplace(c) \/ Notify(c) \/ Poll(c) PROVE events \subseteq events'
  BY <1>2 DEF Emplace, Notify, Poll, WriteBack
<1>3. ASSUME NEW w \in Worker, Work(w) \/ Throw(w) PROVE events \subseteq events'
  BY <1>3 DEF Work, Throw, Loop, Request, Doze, Take, ClearFinished, Execute, SetFinished, Announce,
              WriteBack
<1>4. CASE Destroy \/ Join \/ UNCHANGED vars
  BY <1>4 DEF Destroy, Join, vars
<1>5. QED
  BY <1>1, <1>2, <1>3, <1>4 DEF Next, Continue

\* The numbers of jobs.
LEMMA KnownJobs == ASSUME TypeOK PROVE /\ Known \subseteq Nat /\ nextId \in Nat
                                        /\ \A c \in Client : client[c].job \in Nat
<1>1. Job \subseteq Nat /\ NoJob \in Nat /\ MaxJob + 1 \in Nat
  BY CountAssumption DEF Job, NoJob
<1>2. QED
  BY <1>1, TakenJobs DEF TypeOK, Known, ClientState

LEMMA ScheduleStep ==
  ASSUME TypeOK, PoolOK, NEW c \in Client, Schedule(c)
  PROVE  PoolOK' /\ UNCHANGED Pool!vars
<1> USE DEF TypeOK
<1> DEFINE r == [client[c] EXCEPT !.at = "emplacing", !.job = nextId, !.view = queue]
<1>1. /\ client' = [client EXCEPT ![c] = r] /\ nextId' = nextId + 1
      /\ UNCHANGED <<queue, worker, executed>>
  BY DEF Schedule
<1>2. r.job = nextId
  BY DEF ClientState
<1> HIDE DEF r
<1>3. client'[c].job = nextId /\ \A d \in Client \ {c} : client'[d] = client[d]
  BY <1>1, <1>2
<1>4. Taken' = Taken /\ Known' = Known
  BY <1>1 DEF Taken, Known
<1>5. \A d \in Client : client'[d].at = "emplacing" => client'[d].job < nextId' /\ client'[d].job \notin Known'
  BY <1>1, <1>3, <1>4, KnownJobs DEF PoolOK
<1>6. QED
  BY <1>1, <1>4, <1>5, KnownJobs DEF PoolOK, Pool!vars

LEMMA EmplaceStep ==
  ASSUME TypeOK, PoolOK, NEW c \in Client, Emplace(c), ~Raced'
  PROVE  PoolOK' /\ \E j \in Job : Pool!Submit(j)
<1> DEFINE j == client[c].job
<1>1. /\ client[c].at = "emplacing" /\ queue' = queue \cup {j}
      /\ UNCHANGED <<nextId, worker, executed>>
  BY DEF Emplace, ClientIs, WriteBack, Raced
<1>2. j \in Job /\ j \notin Known /\ j < nextId
  BY <1>1 DEF TypeOK, LocalsOK, Scheduling, PoolOK
<1>3. \A d \in Client : client'[d].at # "emplacing"
  BY <1>1 DEF Emplace, Goto, TypeOK, LocksOK, Scheduling, ClientState
<1>4. Taken' = Taken /\ Known' = Known \cup {j}
  BY <1>1 DEF Taken, Known
<1> HIDE DEF j
<1>5. PoolOK'
  BY <1>1, <1>2, <1>3, <1>4 DEF PoolOK, Known
<1>6. QED
  BY <1>1, <1>2, <1>4, <1>5 DEF Pool!Submit, Known

\* What the clients that are emplacing, and the workers about to pop, do not do.
LEMMA Elsewhere ==
  ASSUME TypeOK, PoolOK, [Next]_vars, \A c \in Client : ~Schedule(c)
  PROVE  /\ \A c \in Client : client'[c].at = "emplacing" => client'[c] = client[c]
         /\ \A w \in Worker : worker'[w].at = "taking" => worker'[w].job \in worker'[w].view
  BY Emplacing, Taking DEF PoolOK

LEMMA TakeStep ==
  ASSUME TypeOK, PoolOK, [Next]_vars, NEW w \in Worker, Take(w), ~Raced'
  PROVE  PoolOK' /\ \E j \in Job : Pool!Start(j)
<1> DEFINE j == worker[w].job
<1>1. /\ worker[w].at = "taking" /\ worker[w].view = queue /\ queue' = queue \ {j}
      /\ UNCHANGED <<nextId, executed>>
  BY DEF Take, WorkerIs, WriteBack, Raced
<1>2. j \in queue /\ j \in Job
  BY <1>1 DEF PoolOK, TypeOK
<1>3. /\ worker'[w].at = "took" /\ worker'[w].job = j
      /\ \A v \in Worker \ {w} : worker'[v] = worker[v]
  BY JobSteps, RequestStep
<1> HIDE DEF j
<1>4. Taken' = Taken \cup {j} /\ Known' = Known
  <2>1. Taken' = Taken \cup {j}
    BY <1>1, <1>3 DEF Taken
  <2>2. QED
    BY <1>1, <1>2, <2>1 DEF Known
<1>5. \A c \in Client : ~Schedule(c)
  BY <1>1, KnownJobs DEF Schedule
<1>6. \A v \in Worker : worker[v].at \in InHand => worker[v].job # j
  BY <1>2 DEF PoolOK, Taken, InHand
<1>7. \A v, u \in Worker :
        v # u /\ worker'[v].at \in InHand /\ worker'[u].at \in InHand => worker'[v].job # worker'[u].job
  BY <1>3, <1>6 DEF PoolOK
<1>8. PoolOK'
  BY <1>1, <1>2, <1>4, <1>5, <1>7, Elsewhere DEF PoolOK
<1>9. QED
  BY <1>1, <1>2, <1>4, <1>8 DEF Pool!Start

LEMMA ExecuteStep ==
  ASSUME TypeOK, PoolOK, [Next]_vars, NEW w \in Worker, Execute(w)
  PROVE  PoolOK' /\ \E j \in Job : Pool!Finish(j)
<1> DEFINE j == worker[w].job
<1>1. /\ worker[w].at = "running" /\ executed' = executed \cup {j}
      /\ UNCHANGED <<queue, nextId>>
  BY DEF Execute, WorkerIs
<1>2. j \in Taken /\ j \in Job
  BY <1>1 DEF Taken, TypeOK, LocalsOK, Holding
<1>3. /\ worker'[w].at = "executed"
      /\ \A v \in Worker \ {w} : worker'[v] = worker[v]
  BY JobSteps, WorkStep
<1>4. \A v \in Worker \ {w} : worker[v].at \in InHand => worker[v].job # j
  BY <1>1 DEF PoolOK, InHand
<1> HIDE DEF j
<1>5. Taken' = Taken \ {j}
  <2>1. \A v \in Worker : worker'[v].at \in InHand <=> v # w /\ worker[v].at \in InHand
    BY <1>3 DEF InHand
  <2>2. Taken = {worker[v].job : v \in {u \in Worker : worker[u].at \in InHand}}
    BY DEF Taken, InHand
  <2>3. Taken' = {worker'[v].job : v \in {u \in Worker : worker'[u].at \in InHand}}
    BY DEF Taken, InHand
  <2>4. worker[w].job = j
    BY DEF j
  <2>5. QED
    BY <1>3, <1>4, <2>1, <2>2, <2>3, <2>4
<1>6. Known' = Known
  BY <1>1, <1>2, <1>5 DEF Known
<1>7. \A c \in Client : ~Schedule(c)
  BY <1>1, KnownJobs DEF Schedule
<1>8. \A v, u \in Worker :
        v # u /\ worker'[v].at \in InHand /\ worker'[u].at \in InHand => worker'[v].job # worker'[u].job
  BY <1>3 DEF PoolOK, InHand
<1>9. PoolOK'
  BY <1>1, <1>2, <1>5, <1>6, <1>7, <1>8, Elsewhere DEF PoolOK
<1>10. QED
  BY <1>1, <1>2, <1>5, <1>9 DEF Pool!Finish

\* Any other step moves no job.
LEMMA QuietStep ==
  ASSUME TypeOK, PoolOK, [Next]_vars,
         \A c \in Client : ~Schedule(c) /\ ~Emplace(c),
         \A w \in Worker : ~Take(w) /\ ~Execute(w)
  PROVE  PoolOK' /\ UNCHANGED Pool!vars
<1>1. UNCHANGED <<queue, nextId, executed>>
  <2>1. ASSUME NEW c \in Client, Notify(c) \/ Poll(c) \/ WaitAll(c) \/ WaitOne(c) \/ CheckEmpty(c)
                                 \/ ReadSize(c) \/ TestSize(c) \/ TestFinished(c) \/ Sleep(c)
                                 \/ Return(c)
        PROVE  UNCHANGED <<queue, nextId, executed>>
    BY <2>1 DEF Notify, Poll, WaitAll, WaitOne, CheckEmpty, ReadSize, TestSize, TestFinished,
                Sleep, Return
  <2>2. ASSUME NEW w \in Worker, \/ Loop(w) \/ Request(w) \/ Doze(w) \/ ClearFinished(w)
                                 \/ SetFinished(w) \/ Announce(w) \/ Throw(w)
        PROVE  UNCHANGED <<queue, nextId, executed>>
    BY <2>2 DEF Loop, Request, Doze, ClearFinished, SetFinished, Announce, Throw
  <2>3. CASE Destroy \/ Join \/ UNCHANGED vars
    BY <2>3 DEF Destroy, Join, vars
  <2>4. QED
    BY <2>1, <2>2, <2>3 DEF Next, Continue, Work
<1>2. \A w \in Worker : /\ worker'[w].at \in InHand <=> worker[w].at \in InHand
                        /\ worker[w].at \in InHand => worker'[w].job = worker[w].job
  <2> DEFINE Same(v) == /\ worker'[v].at \in InHand <=> worker[v].at \in InHand
                        /\ worker[v].at \in InHand => worker'[v].job = worker[v].job
  <2>1. ASSUME NEW w \in Worker, Work(w) PROVE \A v \in Worker : Same(v)
    <3>1. \A v \in Worker \ {w} : worker'[v] = worker[v]
      BY <2>1, WorkStep, RequestStep DEF Work
    <3>2. Same(w)
      BY <2>1, JobSteps DEF Work, InHand
    <3>3. QED
      BY <3>1, <3>2
  <2>2. CASE ~\E w \in Worker : Work(w)
    BY <2>2, OtherSteps DEF InHand
  <2>3. QED
    BY <2>1, <2>2
<1>3. Taken' = Taken
  BY <1>2, SameTaken
<1>4. Known' = Known
  BY <1>1, <1>3 DEF Known
<1>5. \A w, v \in Worker :
        w # v /\ worker'[w].at \in InHand /\ worker'[v].at \in InHand => worker'[w].job # worker'[v].job
  BY <1>2 DEF PoolOK
<1>6. QED
  BY <1>1, <1>3, <1>4, <1>5, Elsewhere DEF PoolOK, Pool!vars

\* Every step keeps the invariant and is a step of JobPool, unless it is a race.
LEMMA StepPool ==
  ASSUME PoolInv, [Next]_vars
  PROVE  PoolInv' /\ (Raced' \/ Pool!Next \/ UNCHANGED Pool!vars)
<1>1. TypeOK /\ TypeOK'
  BY StepTyped DEF PoolInv
<1>2. CASE Raced'
  BY <1>1, <1>2 DEF PoolInv
<1>3. CASE ~Raced'
  <2>1. PoolOK
    BY <1>3, EventsStay DEF PoolInv, Raced
  <2>2. CASE \E c \in Client : Schedule(c)
    BY <1>1, <2>1, <2>2, ScheduleStep DEF PoolInv
  <2>3. CASE \E c \in Client : Emplace(c)
    BY <1>1, <1>3, <2>1, <2>3, EmplaceStep DEF PoolInv, Pool!Next
  <2>4. CASE \E w \in Worker : Take(w)
    BY <1>1, <1>3, <2>1, <2>4, TakeStep DEF PoolInv, Pool!Next
  <2>5. CASE \E w \in Worker : Execute(w)
    BY <1>1, <1>3, <2>1, <2>5, ExecuteStep DEF PoolInv, Pool!Next
  <2>6. CASE /\ \A c \in Client : ~Schedule(c) /\ ~Emplace(c)
             /\ \A w \in Worker : ~Take(w) /\ ~Execute(w)
    BY <1>1, <2>1, <2>6, QuietStep DEF PoolInv
  <2>7. QED
    BY <2>2, <2>3, <2>4, <2>5, <2>6
<1>4. QED
  BY <1>2, <1>3

\* Until a data race hits its queue, a ThreadManager of any size is a JobPool:
\* no job is lost, taken twice or run twice, whatever its threads do at once.
THEOREM ManagerIsPool == Spec => RunsAsPool
<1>1. PoolInv /\ [Next]_vars => [Raced' \/ Pool!Next]_Pool!vars
  BY StepPool
<1>2. QED
  BY <1>1, InitPool, StepPool, PTL DEF Spec, RunsAsPool

-----------------------------------------------------------------------------
(* Waiting.                                                                *)

\* No race, and no finished_ was taken for that of another job.
Clean == events \cap {"raced", "stale"} = {}

\* What a waiting client relies on.  The jobs it has to wait for are known; once
\* the queue was empty none of them is in it, nor in the hands of a worker that
\* it has passed; and a worker that still holds one has not set finished_.
Waits(k) ==
  /\ k.at = "checking" => k.goal = "all"
  /\ k.at \in Assigning /\ k.goal = "all" => k.due \subseteq Known
  /\ k.at \in Finishing =>
       /\ k.due \subseteq Taken \cup executed
       /\ \A w \in Worker : w < k.turn /\ worker[w].at \in InHand => worker[w].job \notin k.due
  /\ k.at \in {"testing", "sleeping", "finishWait"} =>
       (worker[k.turn].at = "took" /\ worker[k.turn].job \in k.due => ~worker[k.turn].finished)

Cleared == \A w \in Worker : worker[w].at = "running" => ~worker[w].finished

WaitInv ==
  /\ PoolInv /\ Cleared
  /\ Clean => \A c \in Client : Waits(client[c])

-----------------------------------------------------------------------------

LEMMA InitWaits == Init => WaitInv
  BY InitPool DEF Init, WaitInv, Cleared, Waits, Assigning, Finishing

\* What went wrong is never forgotten.
LEMMA CleanBefore == ASSUME [Next]_vars, Clean' PROVE Clean /\ ~Raced /\ ~Raced'
  BY EventsStay DEF Clean, Raced

\* Only ClearFinished lets a worker run a job.
LEMMA StepCleared == ASSUME TypeOK, [Next]_vars, Cleared PROVE Cleared'
<1> SUFFICES ASSUME NEW v \in Worker, worker'[v].at = "running" PROVE ~worker'[v].finished
  BY DEF Cleared
<1>1. ASSUME NEW w \in Worker, Work(w), v # w PROVE worker'[v] = worker[v]
  BY <1>1, WorkStep, RequestStep DEF Work
<1>2. ASSUME Work(v) PROVE ~worker'[v].finished
  BY <1>2, JobSteps DEF Work
<1>3. QED
  BY <1>1, <1>2, OtherSteps DEF Cleared

\* What the world around a client may do: jobs go from the queue into hands and
\* from hands to the executed ones.
LEMMA World ==
  ASSUME TypeOK, PoolOK, [Next]_vars, ~Raced, ~Raced'
  PROVE  /\ Known \subseteq Known' /\ Taken \cup executed \subseteq Taken' \cup executed'
         /\ \A w \in Worker : worker'[w].at \in InHand =>
              \/ worker[w].at \in InHand /\ worker'[w].job = worker[w].job
              \/ worker'[w].job \in queue
         /\ \A w \in Worker : worker'[w].at = "took" =>
              \/ /\ worker[w].at = "took" /\ worker'[w].job = worker[w].job
                 /\ worker'[w].finished = worker[w].finished
              \/ worker'[w].job \in queue
<1>1. Known \subseteq Known' /\ Taken \cup executed \subseteq Taken' \cup executed'
  <2>1. Pool!Next \/ UNCHANGED Pool!vars
    BY StepPool DEF PoolInv
  <2>2. QED
    BY <2>1 DEF Pool!Next, Pool!Submit, Pool!Start, Pool!Finish, Pool!vars, Known
<1> DEFINE Hand(w) == worker'[w].at \in InHand =>
                        \/ worker[w].at \in InHand /\ worker'[w].job = worker[w].job
                        \/ worker'[w].job \in queue
           Took(w) == worker'[w].at = "took" =>
                        \/ /\ worker[w].at = "took" /\ worker'[w].job = worker[w].job
                           /\ worker'[w].finished = worker[w].finished
                        \/ worker'[w].job \in queue
<1>2. ASSUME NEW w \in Worker, Work(w) PROVE \A v \in Worker : Hand(v) /\ Took(v)
  <2>1. \A v \in Worker \ {w} : worker'[v] = worker[v]
    BY <1>2, WorkStep, RequestStep DEF Work
  <2>2. ASSUME Take(w) PROVE worker'[w].job \in queue
    <3>1. worker[w].at = "taking" /\ worker[w].view = queue
      BY <2>2 DEF Take, WorkerIs, WriteBack, Raced
    <3>2. QED
      BY <2>2, <3>1, JobSteps DEF PoolOK
  <2>3. Hand(w) /\ Took(w)
    BY <1>2, <2>2, JobSteps DEF Work, InHand
  <2>4. QED
    BY <2>1, <2>3
<1>3. ASSUME ~\E w \in Worker : Work(w) PROVE \A v \in Worker : Hand(v) /\ Took(v)
  BY <1>3, OtherSteps DEF InHand
<1> HIDE DEF Hand, Took
<1>4. \A v \in Worker : Hand(v) /\ Took(v)
  BY <1>2, <1>3
<1>5. QED
  BY <1>1, <1>4 DEF Hand, Took

-----------------------------------------------------------------------------

\* A client that only waits, while others act and may wake it.
LEMMA Waiting ==
  ASSUME TypeOK, PoolOK, [Next]_vars, ~Raced, ~Raced', NEW c \in Client, Waits(client[c]),
         \/ client'[c].at = client[c].at
         \/ client[c].at = "assignWait" /\ client'[c].at = "assigning"
         \/ client[c].at = "finishWait" /\ client'[c].at = "testing",
         client'[c].due = client[c].due, client'[c].goal = client[c].goal,
         client'[c].turn = client[c].turn
  PROVE  Waits(client[c])'
<1> DEFINE k == client[c]
           r == client'[c]
<1>1. /\ r.at = "checking" => k.at = "checking"
      /\ r.at \in Assigning => k.at \in Assigning
      /\ r.at \in Finishing => k.at \in Finishing
      /\ r.at \in {"testing", "sleeping", "finishWait"} => k.at \in {"testing", "sleeping", "finishWait"}
  BY DEF Assigning, Finishing
<1>2. r.due = k.due /\ r.goal = k.goal /\ r.turn = k.turn
  OBVIOUS
<1> HIDE DEF k, r
<1>3. Waits(k)
  BY DEF k
<1>4. r.at = "checking" => r.goal = "all"
  BY <1>1, <1>2, <1>3 DEF Waits
<1>5. r.at \in Assigning /\ r.goal = "all" => r.due \subseteq Known'
  BY <1>1, <1>2, <1>3, World DEF Waits
<1>6. ASSUME r.at \in Finishing
      PROVE  /\ r.due \subseteq Taken' \cup executed' /\ r.due \cap queue = {}
             /\ \A w \in Worker : w < r.turn /\ worker'[w].at \in InHand => worker'[w].job \notin r.due
  <2>1. k.due \subseteq Taken \cup executed
    BY <1>1, <1>3, <1>6 DEF Waits
  <2>2. r.due \cap queue = {}
    BY <1>2, <2>1 DEF PoolOK
  <2>3. \A w \in Worker : w < k.turn /\ worker[w].at \in InHand => worker[w].job \notin k.due
    BY <1>1, <1>3, <1>6 DEF Waits
  <2>4. QED
    BY <1>2, <2>1, <2>2, <2>3, World
<1>7. ASSUME r.at \in {"testing", "sleeping", "finishWait"}, r.turn \in Worker,
             worker'[r.turn].at = "took", worker'[r.turn].job \in r.due
      PROVE  ~worker'[r.turn].finished
  <2>1. worker'[r.turn].job \notin queue
    BY <1>6, <1>7 DEF Finishing
  <2>2. /\ worker[r.turn].at = "took" /\ worker'[r.turn].job = worker[r.turn].job
        /\ worker'[r.turn].finished = worker[r.turn].finished
    BY <1>7, <2>1, World
  <2>3. QED
    BY <1>1, <1>2, <1>3, <1>7, <2>2 DEF Waits
<1>8. r.at \in {"testing", "sleeping", "finishWait"} => r.turn \in Worker
  BY StepLocals DEF LocalsOK, r
<1>9. QED
  BY <1>4, <1>5, <1>6, <1>7, <1>8 DEF Waits, r

\* What the steps of a waiting call do to the client's own state.
LEMMA WaitFields ==
  ASSUME TypeOK, NEW c \in Client
  PROVE  /\ WaitAll(c) => /\ client'[c].at = "checking" /\ client'[c].goal = "all"
                          /\ client'[c].due = queue \cup Taken
         /\ WaitOne(c) => client'[c].at = "sizing" /\ client'[c].goal = "one"
         /\ CheckEmpty(c) =>
              /\ client[c].at = "checking"
              /\ client'[c].goal = client[c].goal /\ client'[c].due = client[c].due
              /\ \/ client'[c].at = "sizing"
                 \/ queue = {} /\ client'[c].at = "polling" /\ client'[c].turn = 1
         /\ ReadSize(c) \/ TestSize(c) =>
              /\ client[c].at \in Assigning /\ client'[c].at \in Assigning
              /\ client'[c].goal = client[c].goal /\ client'[c].due = client[c].due
              /\ client'[c].at = "checking" => client[c].goal = "all"
         /\ Poll(c) =>
              /\ client[c].at = "polling" /\ client'[c].due = client[c].due
              /\ \/ /\ worker[client[c].turn].finished
                    /\ client'[c].at = "polling" /\ client'[c].turn = client[c].turn + 1
                 \/ /\ ~worker[client[c].turn].finished
                    /\ client'[c].at = "testing" /\ client'[c].turn = client[c].turn
         /\ TestFinished(c) =>
              /\ client[c].at = "testing" /\ client'[c].due = client[c].due
              /\ \/ /\ worker[client[c].turn].finished
                    /\ client'[c].at = "polling" /\ client'[c].turn = client[c].turn + 1
                 \/ client'[c].at = "sleeping" /\ client'[c].turn = client[c].turn
         /\ Sleep(c) =>
              /\ client[c].at = "sleeping" /\ client'[c].due = client[c].due
              /\ client'[c].at = "finishWait" /\ client'[c].turn = client[c].turn
         /\ Return(c) => client'[c].at = "idle"
<1> USE DEF TypeOK, ClientIs, Goto
<1> DEFINE k == client[c]
           Becomes(r) == client' = [client EXCEPT ![c] = r]
<1>1. k \in ClientState
  OBVIOUS
<1>2. ASSUME NEW r, Becomes(r) PROVE client'[c] = r
  BY <1>2
<1>3. WaitAll(c) => /\ client'[c].at = "checking" /\ client'[c].goal = "all"
                    /\ client'[c].due = queue \cup Taken
  BY <1>1 DEF WaitAll, ClientState
<1>4. WaitOne(c) => client'[c].at = "sizing" /\ client'[c].goal = "one"
  BY <1>1 DEF WaitOne, ClientState
<1>5. ASSUME CheckEmpty(c)
      PROVE  /\ k.at = "checking" /\ client'[c].goal = k.goal /\ client'[c].due = k.due
             /\ \/ client'[c].at = "sizing"
                \/ queue = {} /\ client'[c].at = "polling" /\ client'[c].turn = 1
  <2>1. /\ k.at = "checking"
        /\ \/ Becomes([k EXCEPT !.at = "sizing"])
           \/ queue = {} /\ Becomes([k EXCEPT !.at = "polling", !.turn = 1])
    BY <1>5 DEF CheckEmpty
  <2> DEFINE r1 == [k EXCEPT !.at = "sizing"]
             r2 == [k EXCEPT !.at = "polling", !.turn = 1]
  <2>2. /\ r1.at = "sizing" /\ r1.goal = k.goal /\ r1.due = k.due
        /\ r2.at = "polling" /\ r2.turn = 1 /\ r2.goal = k.goal /\ r2.due = k.due
    BY <1>1 DEF ClientState
  <2>3. Becomes(r1) \/ (queue = {} /\ Becomes(r2))
    BY <2>1
  <2> HIDE DEF r1, r2, k, Becomes
  <2>4. QED
    BY <1>2, <2>1, <2>2, <2>3
<1>6. ASSUME ReadSize(c) \/ TestSize(c)
      PROVE  /\ k.at \in Assigning /\ client'[c].at \in Assigning
             /\ client'[c].goal = k.goal /\ client'[c].due = k.due
             /\ client'[c].at = "checking" => k.goal = "all"
  <2>1. k.at \in {"sizing", "assigning"}
    BY <1>6 DEF ReadSize, TestSize
  <2>2. \/ Becomes([k EXCEPT !.at = "assigning", !.size = Cardinality(queue)])
        \/ Becomes([k EXCEPT !.at = IF k.goal = "all" THEN "checking" ELSE "sizing", !.size = 0])
        \/ Becomes([k EXCEPT !.at = "assignWait"])
    BY <1>6 DEF ReadSize, TestSize
  <2> DEFINE r1 == [k EXCEPT !.at = "assigning", !.size = Cardinality(queue)]
             r2 == [k EXCEPT !.at = IF k.goal = "all" THEN "checking" ELSE "sizing", !.size = 0]
             r3 == [k EXCEPT !.at = "assignWait"]
  <2>3. /\ r1.at = "assigning" /\ r1.goal = k.goal /\ r1.due = k.due
        /\ r2.at \in {"checking", "sizing"} /\ r2.goal = k.goal /\ r2.due = k.due
        /\ r2.at = "checking" => k.goal = "all"
        /\ r3.at = "assignWait" /\ r3.goal = k.goal /\ r3.due = k.due
    BY <1>1 DEF ClientState
  <2>4. Becomes(r1) \/ Becomes(r2) \/ Becomes(r3)
    BY <2>2
  <2> HIDE DEF r1, r2, r3, k, Becomes
  <2>5. QED
    BY <1>2, <2>1, <2>3, <2>4 DEF Assigning
<1> DEFINE next == [k EXCEPT !.turn = k.turn + 1]
           past == [k EXCEPT !.at = "polling", !.turn = k.turn + 1]
           stay(at) == [k EXCEPT !.at = at]
<1>7. /\ next.at = k.at /\ next.turn = k.turn + 1 /\ next.due = k.due
      /\ past.at = "polling" /\ past.turn = k.turn + 1 /\ past.due = k.due
      /\ \A at \in ClientAt : stay(at).at = at /\ stay(at).turn = k.turn /\ stay(at).due = k.due
  BY <1>1 DEF ClientState
<1>8. /\ Poll(c) => /\ k.at = "polling"
                    /\ \/ worker[k.turn].finished /\ Becomes(next)
                       \/ ~worker[k.turn].finished /\ Becomes(stay("testing"))
      /\ TestFinished(c) => /\ k.at = "testing"
                            /\ \/ worker[k.turn].finished /\ Becomes(past)
                               \/ Becomes(stay("sleeping"))
      /\ Sleep(c) => k.at = "sleeping" /\ Becomes(stay("finishWait"))
  BY DEF Poll, TestFinished, Sleep
<1>9. Return(c) => client'[c].at = "idle"
  BY <1>1 DEF Return, ClientState
<1>10. {"testing", "sleeping", "finishWait"} \subseteq ClientAt
  BY DEF ClientAt, Finishing
<1> HIDE DEF k, next, past, stay, Becomes
<1>11. QED
  BY <1>2, <1>3, <1>4, <1>5, <1>6, <1>7, <1>8, <1>9, <1>10 DEF k

\* A waiting client's own step, in a world that stands still.
LEMMA OwnWait ==
  ASSUME TypeOK, NEW c \in Client, Waits(client[c]), Cleared, "stale" \notin events',
         \/ WaitAll(c) \/ WaitOne(c) \/ CheckEmpty(c) \/ ReadSize(c) \/ TestSize(c)
         \/ Poll(c) \/ TestFinished(c) \/ Sleep(c) \/ Return(c)
  PROVE  Waits(client[c])'
<1> DEFINE k == client[c]
           r == client'[c]
           Behind(t) == \A w \in Worker : w < t /\ worker[w].at \in InHand => worker[w].job \notin k.due
           Ready(t) == worker[t].at = "took" /\ worker[t].job \in k.due => ~worker[t].finished
<1>1. UNCHANGED <<queue, worker, executed>> /\ Known' = Known /\ Taken' = Taken
  BY DEF WaitAll, WaitOne, CheckEmpty, ReadSize, TestSize, Poll, TestFinished, Sleep, Return,
         Known, Taken
<1>2. SUFFICES /\ r.at = "checking" => r.goal = "all"
               /\ r.at \in Assigning /\ r.goal = "all" => r.due \subseteq Known
               /\ r.at \in Finishing =>
                    /\ r.due \subseteq Taken \cup executed
                    /\ \A w \in Worker : w < r.turn /\ worker[w].at \in InHand => worker[w].job \notin r.due
               /\ r.at \in {"testing", "sleeping", "finishWait"} =>
                    (worker[r.turn].at = "took" /\ worker[r.turn].job \in r.due => ~worker[r.turn].finished)
  BY <1>1 DEF Waits
<1>3. CASE WaitAll(c)
  BY <1>3, WaitFields DEF Known, Finishing
<1>4. CASE WaitOne(c)
  BY <1>4, WaitFields DEF Finishing
<1>5. CASE CheckEmpty(c)
  <2>1. k.goal = "all" /\ k.due \subseteq Known
    BY <1>5, WaitFields DEF Waits, Assigning
  <2>2. \A w \in Worker : ~(w < 1)
    BY CountAssumption DEF Worker
  <2>3. QED
    BY <1>5, <2>1, <2>2, WaitFields DEF Known, Finishing
<1>6. CASE ReadSize(c) \/ TestSize(c)
  <2>1. r.at \in Assigning => r.at \notin Finishing /\ r.at \notin {"testing", "sleeping", "finishWait"}
    BY DEF Assigning, Finishing
  <2>2. QED
    BY <1>6, <2>1, WaitFields DEF Waits
\* A worker with finished_ set holds no job that is waited for.
<1>7. ASSUME NEW t \in Worker, worker[t].finished, Ready(t), Behind(t) PROVE Behind(t + 1)
  <2>1. worker[t].at \in InHand => worker[t].job \notin k.due
    BY <1>7 DEF Cleared, InHand
  <2>2. \A w \in Worker : w < t + 1 => w < t \/ w = t
    BY CountAssumption DEF Worker
  <2>3. QED
    BY <1>7, <2>1, <2>2
<1>8. CASE Poll(c)
  <2>1. k.turn \in Worker
    BY <1>8 DEF Poll, TypeOK, ClientState, Turn, Worker, Numbers
  <2>2. k.due \subseteq Taken \cup executed /\ Behind(k.turn)
    BY <1>8, WaitFields DEF Waits, Finishing
  <2>3. worker[k.turn].finished /\ r.turn = k.turn + 1 => Ready(k.turn)
    BY <1>8, WaitFields DEF Poll
  <2>4. QED
    BY <1>7, <1>8, <2>1, <2>2, <2>3, WaitFields DEF Assigning
<1>9. CASE TestFinished(c)
  <2>1. k.turn \in Worker
    BY <1>9, WaitFields DEF TypeOK, LocalsOK
  <2>2. k.due \subseteq Taken \cup executed /\ Behind(k.turn) /\ Ready(k.turn)
    BY <1>9, WaitFields DEF Waits, Finishing
  <2>3. QED
    BY <1>7, <1>9, <2>1, <2>2, WaitFields DEF Assigning
<1>10. CASE Sleep(c)
  BY <1>10, WaitFields DEF Waits, Assigning, Finishing
<1>11. CASE Return(c)
  BY <1>11, WaitFields DEF Assigning, Finishing
<1>12. QED
  BY <1>3, <1>4, <1>5, <1>6, <1>8, <1>9, <1>10, <1>11

\* Whatever step the system takes, a client goes on to rely on what is true.
LEMMA StepWaiting ==
  ASSUME TypeOK, PoolOK, [Next]_vars, ~Raced, ~Raced', Cleared, "stale" \notin events',
         NEW c \in Client, Waits(client[c])
  PROVE  Waits(client[c])'
<1> DEFINE Woke ==
      /\ \/ client'[c].at = client[c].at
         \/ client[c].at = "assignWait" /\ client'[c].at = "assigning"
         \/ client[c].at = "finishWait" /\ client'[c].at = "testing"
      /\ client'[c].due = client[c].due /\ client'[c].goal = client[c].goal
      /\ client'[c].turn = client[c].turn
<1>1. CASE \/ WaitAll(c) \/ WaitOne(c) \/ CheckEmpty(c) \/ ReadSize(c) \/ TestSize(c)
           \/ Poll(c) \/ TestFinished(c) \/ Sleep(c) \/ Return(c)
  BY <1>1, OwnWait
<1>2. CASE Schedule(c) \/ Emplace(c) \/ Notify(c)
  <2>1. client'[c].at \in {"idle", "emplacing", "notifying"}
    <3>1. client \in [Client -> ClientState]
      BY DEF TypeOK
    <3>2. CASE Schedule(c)
      <4>1. client' = [client EXCEPT ![c] =
                          [client[c] EXCEPT !.at = "emplacing", !.job = nextId, !.view = queue]]
        BY <3>2 DEF Schedule
      <4> QED BY ONLY <3>1, <4>1, c \in Client DEF ClientState
    <3>3. CASE Emplace(c)
      BY <3>1, <3>3 DEF Emplace, Goto, ClientState
    <3>4. CASE Notify(c)
      <4>1. client' = [client EXCEPT ![c] =
                          [client[c] EXCEPT !.at = "idle", !.job = NoJob, !.view = {}]]
        BY <3>4 DEF Notify
      <4> QED BY ONLY <3>1, <4>1, c \in Client DEF ClientState
    <3> QED BY <1>2, <3>2, <3>3, <3>4
  <2>2. QED
    BY <2>1 DEF Waits, Assigning, Finishing
<1>3. ASSUME NEW d \in Client, d # c,
             Schedule(d) \/ WaitAll(d) \/ WaitOne(d) \/ Continue(d)
      PROVE  Woke
  <2>1. client'[c] = client[c]
    BY <1>3, WaitStep DEF Continue, Schedule, Emplace, Notify, Goto, TypeOK
  <2>2. QED
    BY <2>1
<1>4. ASSUME NEW w \in Worker, Work(w) PROVE Woke
  <2> DEFINE k == client[c]
             assigning == [k EXCEPT !.at = "assigning"]
             testing   == [k EXCEPT !.at = "testing", !.unheard = FALSE]
             deaf      == [k EXCEPT !.unheard = TRUE]
  <2>1. /\ assigning.at = "assigning" /\ testing.at = "testing" /\ deaf.at = k.at
        /\ \A s \in {assigning, testing, deaf} :
             s.due = k.due /\ s.goal = k.goal /\ s.turn = k.turn
    BY DEF TypeOK, ClientState
  <2>2. \/ client'[c] = k
        \/ k.at = "assignWait" /\ client'[c] = assigning
        \/ k.at = "finishWait" /\ client'[c] = testing
        \/ client'[c] = deaf
    BY <1>4, Woken
  <2> HIDE DEF assigning, testing, deaf
  <2>3. QED
    BY <2>1, <2>2
<1>5. CASE Destroy \/ Join \/ UNCHANGED vars \/ \E w \in Worker : Throw(w)
  <2>1. client' = client
    BY <1>5 DEF Destroy, Join, vars, Throw
  <2>2. Woke
    BY <2>1
  <2> HIDE DEF Woke
  <2>3. QED
    BY <2>2, Waiting DEF Woke
<1>6. Woke => Waits(client[c])'
  BY Waiting
<1> HIDE DEF Woke
<1>7. QED
  BY <1>1, <1>2, <1>3, <1>4, <1>5, <1>6 DEF Next, Continue

LEMMA StepWaits == WaitInv /\ [Next]_vars => WaitInv'
<1> SUFFICES ASSUME WaitInv, [Next]_vars PROVE WaitInv'
  OBVIOUS
<1>1. PoolInv' /\ Cleared'
  BY StepPool, StepCleared DEF WaitInv, PoolInv
<1>2. ASSUME Clean' PROVE \A c \in Client : Waits(client[c])'
  <2>1. Clean /\ ~Raced /\ ~Raced' /\ "stale" \notin events'
    BY <1>2, CleanBefore DEF Clean
  <2>2. TypeOK /\ PoolOK /\ Cleared /\ \A c \in Client : Waits(client[c])
    BY <2>1 DEF WaitInv, PoolInv
  <2>3. QED
    BY <2>1, <2>2, StepWaiting
<1>3. QED
  BY <1>1, <1>2 DEF WaitInv

\* Behind the last worker no job that is waited for is in a hand.
LEMMA Returning ==
  ASSUME WaitInv, NEW c \in Client, Return(c), Clean
  PROVE  client[c].due \subseteq executed
<1>1. client[c].at = "polling" /\ client[c].turn > WorkerCount /\ client[c].turn \in Turn
  BY DEF Return, ClientIs, WaitInv, PoolInv, TypeOK, ClientState
<1>2. \A w \in Worker : w < client[c].turn
  BY <1>1, CountAssumption DEF Worker, Turn
<1>3. /\ client[c].due \subseteq Taken \cup executed
      /\ \A w \in Worker : worker[w].at \in InHand => worker[w].job \notin client[c].due
  BY <1>1, <1>2 DEF WaitInv, Waits, Finishing
<1>4. QED
  BY <1>3 DEF Taken, InHand

\* However many threads wait, schedule and work: when wait_all returns, every
\* job scheduled before the call has been executed, unless the queue was raced
\* for or the finished_ of an earlier job was taken for the last one's.
THEOREM WaitsLongEnough == Spec => WaitAllComplete
<1>1. WaitInv /\ [Next]_vars =>
        [\A c \in Client :
           Return(c) /\ events \cap {"raced", "stale"} = {} => client[c].due \subseteq executed]_vars
  BY Returning DEF Clean
<1>2. QED
  BY <1>1, InitWaits, StepWaits, PTL DEF Spec, WaitAllComplete
=============================================================================
