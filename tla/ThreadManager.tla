---------------------------- MODULE ThreadManager ----------------------------
(***************************************************************************)
(* The thread pool of Utils/Threading: a ThreadManager, its JobQueue and   *)
(* its Workers, called by client threads that schedule jobs and wait.      *)
(*                                                                         *)
(* A step is what a thread does between two points at which another thread *)
(* can notice: a mutex taken or released, a shared field read or written,  *)
(* a notification.  A condition variable is the set of threads whose       *)
(* control state says that they wait on it; checking the predicate and     *)
(* going to sleep are two steps wherever the notifier does not hold the    *)
(* mutex, since a notification between them is lost.                       *)
(*                                                                         *)
(* std::priority_queue is not thread safe: push_job writes it without the  *)
(* mutex under which request_job does.  Either reads the queue, then       *)
(* writes it back; when another write came between, the outcome is that of *)
(* its own stale view or of the present queue, and `raced' records it.     *)
(* All priorities are 0: any job of the queue may be the top.              *)
(***************************************************************************)
EXTENDS Naturals, FiniteSets

CONSTANTS Client,       \* the threads that use the ThreadManager
          WorkerCount,  \* its thread_count
          MaxJob        \* bound: jobs ever scheduled

None == "none"

ASSUME ClientAssumption == None \notin Client
ASSUME CountAssumption == WorkerCount \in Nat /\ MaxJob \in Nat

Worker == 1 .. WorkerCount
Job    == 1 .. MaxJob
NoJob  == 0
Size   == 0 .. MaxJob
Turn   == 1 .. WorkerCount + 1

VARIABLES
  queue,     \* the jobs in JobQueue's container
  nextId,    \* ThreadManager::next_id_
  schedLock, \* who holds static_lock_ and ThreadManager::lock_
  jobsLock,  \* the worker that holds JobQueue::lock_
  client,    \* the local state of the client threads
  worker,    \* the Worker objects and the local state of their threads
  executed,  \* the jobs whose status is FINISHED
  closing,   \* 0, or the worker ~ThreadManager deletes; WorkerCount + 1 at its end
  status,    \* "running", or "terminated" by std::terminate
  events     \* history: the hazards that struck

vars == <<queue, nextId, schedLock, jobsLock, client, worker, executed, closing,
          status, events>>

\* raced: a write of the queue was based on a stale view; missed: notify_one of
\* push_job found a worker that had seen the queue empty but did not sleep yet;
\* stale: wait_all took the finished_ of an earlier job for that of the last one.
Event == {"raced", "missed", "stale"}

\* A client is outside ("idle"), inside schedule_func ("emplacing",
\* "notifying"), or inside wait_all or wait(id).
Scheduling == {"emplacing", "notifying"}
Assigning  == {"checking", "sizing", "assigning", "assignWait"}
Finishing  == {"polling", "testing", "sleeping", "finishWait"}
ClientAt   == {"idle"} \cup Scheduling \cup Assigning \cup Finishing

\* goal: "all" in wait_all, "one" in wait(id); size: the local orig_size; turn:
\* the worker wait_all is waiting for; due: history, what it has to wait for;
\* unheard: history, that worker notified between the client's test and its sleep.
ClientState ==
  [at : ClientAt, job : Job \cup {NoJob}, view : SUBSET Job, goal : {"all", "one"},
   size : Size, turn : Turn, due : SUBSET Job, unheard : BOOLEAN]

WorkerAt == {"head", "request", "dozing", "waiting", "taking", "took", "running",
             "executed", "announcing", "exited"}

\* finished and goOn are the fields finished_ and continue_.
WorkerState ==
  [at : WorkerAt, job : Job \cup {NoJob}, view : SUBSET Job,
   finished : BOOLEAN, goOn : BOOLEAN]

Init ==
  /\ queue = {} /\ nextId = 1 /\ schedLock = None /\ jobsLock = NoJob
  /\ client = [c \in Client |-> [at |-> "idle", job |-> NoJob, view |-> {}, goal |-> "all",
                                 size |-> 0, turn |-> 1, due |-> {}, unheard |-> FALSE]]
  /\ worker = [w \in Worker |-> [at |-> "head", job |-> NoJob, view |-> {},
                                 finished |-> FALSE, goOn |-> TRUE]]
  /\ executed = {} /\ closing = 0 /\ status = "running" /\ events = {}

-----------------------------------------------------------------------------

Goto(c, at) == client' = [client EXCEPT ![c] = [@ EXCEPT !.at = at]]
Step(w, at) == worker' = [worker EXCEPT ![w] = [@ EXCEPT !.at = at]]

ClientIs(c, at) == status = "running" /\ client[c].at = at
WorkerIs(w, at) == status = "running" /\ worker[w].at = at

Unlocked == jobsLock = NoJob

\* The write of a container operation that read `view': the result for the view
\* or for the queue as it is now.
WriteBack(view, Change(_)) ==
  /\ queue' \in {Change(queue), Change(view)}
  /\ events' = events \cup (IF view = queue THEN {} ELSE {"raced"})

-----------------------------------------------------------------------------
(* schedule_func and push_job.                                             *)

\* Both mutexes are taken, the job gets its id, emplace reads the container.
Schedule(c) ==
  /\ ClientIs(c, "idle") /\ closing = 0 /\ schedLock = None
  /\ nextId <= MaxJob
  /\ schedLock' = c
  /\ nextId' = nextId + 1
  /\ client' = [client EXCEPT ![c] = [@ EXCEPT !.at = "emplacing", !.job = nextId, !.view = queue]]
  /\ UNCHANGED <<queue, jobsLock, worker, executed, closing, status, events>>

Emplace(c) ==
  /\ ClientIs(c, "emplacing")
  /\ WriteBack(client[c].view, LAMBDA q : q \cup {client[c].job})
  /\ Goto(c, "notifying")
  /\ UNCHANGED <<nextId, schedLock, jobsLock, worker, executed, closing, status>>

\* Mistake: no notify_one.
SilentNotify(c) ==
  /\ ClientIs(c, "notifying")
  /\ schedLock' = None
  /\ client' = [client EXCEPT ![c] = [@ EXCEPT !.at = "idle", !.job = NoJob, !.view = {}]]
  /\ UNCHANGED <<queue, nextId, jobsLock, worker, executed, closing, status, events>>

\* job_available_.notify_one(), then both mutexes are released.
Notify(c) ==
  LET waiters == {w \in Worker : worker[w].at = "waiting"} IN
  /\ ClientIs(c, "notifying")
  /\ \/ \E w \in waiters : Step(w, "request") /\ UNCHANGED events
     \/ /\ waiters = {} /\ UNCHANGED worker
        /\ events' = events \cup
             (IF \E w \in Worker : worker[w].at = "dozing" THEN {"missed"} ELSE {})
  /\ schedLock' = None
  /\ client' = [client EXCEPT ![c] = [@ EXCEPT !.at = "idle", !.job = NoJob, !.view = {}]]
  /\ UNCHANGED <<queue, nextId, jobsLock, executed, closing, status>>

-----------------------------------------------------------------------------
(* Worker::run and request_job.                                            *)

\* Mistake: a loop that does not look at continue_.
EndlessLoop(w) ==
  /\ WorkerIs(w, "head")
  /\ Step(w, "request")
  /\ UNCHANGED <<queue, nextId, schedLock, jobsLock, client, executed, closing, status, events>>

\* thread_ready_ has no waiters.
Loop(w) ==
  /\ WorkerIs(w, "head")
  /\ Step(w, IF worker[w].goOn THEN "request" ELSE "exited")
  /\ UNCHANGED <<queue, nextId, schedLock, jobsLock, client, executed, closing, status, events>>

\* Under the mutex: the predicate !empty(), and top() if it holds.
Request(w) ==
  /\ WorkerIs(w, "request") /\ Unlocked
  /\ jobsLock' = w
  /\ \/ queue = {} /\ Step(w, "dozing")
     \/ \E j \in queue :
          worker' = [worker EXCEPT ![w] = [@ EXCEPT !.at = "taking", !.job = j, !.view = queue]]
  /\ UNCHANGED <<queue, nextId, schedLock, client, executed, closing, status, events>>

\* Mistake: the thread sleeps with the mutex held.
DozeLocked(w) ==
  /\ WorkerIs(w, "dozing")
  /\ Step(w, "waiting")
  /\ UNCHANGED <<queue, nextId, schedLock, jobsLock, client, executed, closing, status, events>>

\* job_available_ puts the thread to sleep and releases the mutex.
Doze(w) ==
  /\ WorkerIs(w, "dozing")
  /\ Step(w, "waiting")
  /\ jobsLock' = NoJob
  /\ UNCHANGED <<queue, nextId, schedLock, client, executed, closing, status, events>>

\* Mistakes: top() without pop(); pop() without notify_all.
TakeNoPop(w) ==
  /\ WorkerIs(w, "taking")
  /\ worker' = [worker EXCEPT ![w] = [@ EXCEPT !.at = "took", !.view = {}]]
  /\ jobsLock' = NoJob
  /\ UNCHANGED <<queue, nextId, schedLock, client, executed, closing, status, events>>
SilentTake(w) ==
  /\ WorkerIs(w, "taking")
  /\ WriteBack(worker[w].view, LAMBDA q : q \ {worker[w].job})
  /\ worker' = [worker EXCEPT ![w] = [@ EXCEPT !.at = "took", !.view = {}]]
  /\ jobsLock' = NoJob
  /\ UNCHANGED <<nextId, schedLock, client, executed, closing, status>>

\* pop(); job_assigned_.notify_all(); the mutex is released on return.
Take(w) ==
  /\ WorkerIs(w, "taking")
  /\ WriteBack(worker[w].view, LAMBDA q : q \ {worker[w].job})
  /\ client' = [c \in Client |-> IF client[c].at = "assignWait"
                                 THEN [client[c] EXCEPT !.at = "assigning"] ELSE client[c]]
  /\ worker' = [worker EXCEPT ![w] = [@ EXCEPT !.at = "took", !.view = {}]]
  /\ jobsLock' = NoJob
  /\ UNCHANGED <<nextId, schedLock, executed, closing, status>>

\* Mistake: finished_ keeps the value of the job before.
KeepFinished(w) ==
  /\ WorkerIs(w, "took")
  /\ Step(w, "running")
  /\ UNCHANGED <<queue, nextId, schedLock, jobsLock, client, executed, closing, status, events>>

\* finished_.store(false) comes after the job was taken.
ClearFinished(w) ==
  /\ WorkerIs(w, "took")
  /\ worker' = [worker EXCEPT ![w] = [@ EXCEPT !.at = "running", !.finished = FALSE]]
  /\ UNCHANGED <<queue, nextId, schedLock, jobsLock, client, executed, closing, status, events>>

\* The job returns: its result is set and its status is FINISHED.
Execute(w) ==
  /\ WorkerIs(w, "running")
  /\ executed' = executed \cup {worker[w].job}
  /\ Step(w, "executed")
  /\ UNCHANGED <<queue, nextId, schedLock, jobsLock, client, closing, status, events>>

\* The job throws: execute rethrows, and nothing in run catches it.
Throw(w) ==
  /\ WorkerIs(w, "running")
  /\ status' = "terminated"
  /\ UNCHANGED <<queue, nextId, schedLock, jobsLock, client, worker, executed, closing, events>>

SetFinished(w) ==
  /\ WorkerIs(w, "executed")
  /\ worker' = [worker EXCEPT ![w] = [@ EXCEPT !.at = "announcing", !.finished = TRUE]]
  /\ UNCHANGED <<queue, nextId, schedLock, jobsLock, client, executed, closing, status, events>>

\* A client that sleeps on the job_finished_ of the worker, or is about to.
Asleep(c, w)       == client[c].at = "finishWait" /\ client[c].turn = w
AboutToSleep(c, w) == client[c].at = "sleeping" /\ client[c].turn = w

\* Mistake: no notify_all.
SilentAnnounce(w) ==
  /\ WorkerIs(w, "announcing")
  /\ worker' = [worker EXCEPT ![w] = [@ EXCEPT !.at = "head", !.job = NoJob]]
  /\ client' = [c \in Client |-> IF AboutToSleep(c, w) THEN [client[c] EXCEPT !.unheard = TRUE]
                                 ELSE client[c]]
  /\ UNCHANGED <<queue, nextId, schedLock, jobsLock, executed, closing, status, events>>

\* job_finished_.notify_all(), without Worker::lock_.
Announce(w) ==
  /\ WorkerIs(w, "announcing")
  /\ worker' = [worker EXCEPT ![w] = [@ EXCEPT !.at = "head", !.job = NoJob]]
  /\ client' = [c \in Client |->
        CASE Asleep(c, w)       -> [client[c] EXCEPT !.at = "testing", !.unheard = FALSE]
          [] AboutToSleep(c, w) -> [client[c] EXCEPT !.unheard = TRUE]
          [] OTHER              -> client[c]]
  /\ UNCHANGED <<queue, nextId, schedLock, jobsLock, executed, closing, status, events>>

-----------------------------------------------------------------------------
(* wait_all, wait(id) and wait_for_assign.                                 *)

Taken == {worker[w].job : w \in {v \in Worker : worker[v].at \in {"took", "running"}}}

WaitAll(c) ==
  /\ ClientIs(c, "idle") /\ closing = 0
  /\ client' = [client EXCEPT ![c] = [@ EXCEPT !.at = "checking", !.goal = "all",
                                                      !.due = queue \cup Taken]]
  /\ UNCHANGED <<queue, nextId, schedLock, jobsLock, worker, executed, closing, status, events>>

\* get_job_entry finds the job (otherwise it throws and nothing changes).  The
\* loop tests the field worker of the job, which nothing ever sets.
WaitOne(c) ==
  /\ ClientIs(c, "idle") /\ closing = 0 /\ queue # {}
  /\ client' = [client EXCEPT ![c] = [@ EXCEPT !.at = "sizing", !.goal = "one"]]
  /\ UNCHANGED <<queue, nextId, schedLock, jobsLock, worker, executed, closing, status, events>>

\* while (!jobs_.empty())
CheckEmpty(c) ==
  /\ ClientIs(c, "checking")
  /\ \/ queue # {} /\ Goto(c, "sizing")
     \/ queue = {} /\ client' = [client EXCEPT ![c] = [@ EXCEPT !.at = "polling", !.turn = 1]]
  /\ UNCHANGED <<queue, nextId, schedLock, jobsLock, worker, executed, closing, status, events>>

\* orig_size is read before the mutex is taken.
ReadSize(c) ==
  /\ ClientIs(c, "sizing")
  /\ client' = [client EXCEPT ![c] = [@ EXCEPT !.at = "assigning", !.size = Cardinality(queue)]]
  /\ UNCHANGED <<queue, nextId, schedLock, jobsLock, worker, executed, closing, status, events>>

\* The predicate size() < orig_size; request_job notifies under the same mutex,
\* so the check and the sleep are one step.
TestSize(c) ==
  /\ ClientIs(c, "assigning") /\ Unlocked
  /\ \/ /\ Cardinality(queue) < client[c].size
        /\ client' = [client EXCEPT ![c] = [@ EXCEPT
             !.at = IF client[c].goal = "all" THEN "checking" ELSE "sizing", !.size = 0]]
     \/ /\ ~(Cardinality(queue) < client[c].size)
        /\ Goto(c, "assignWait")
  /\ UNCHANGED <<queue, nextId, schedLock, jobsLock, worker, executed, closing, status, events>>

\* Worker::wait reads finished_ first without the mutex; Worker::lock_, which
\* only waiting clients take, excludes nothing else and is left out.
Poll(c) ==
  /\ ClientIs(c, "polling") /\ client[c].turn <= WorkerCount
  /\ LET w == client[c].turn
     IN  \/ /\ worker[w].finished
            /\ client' = [client EXCEPT ![c] = [@ EXCEPT !.turn = w + 1]]
            /\ events' = events \cup
                 (IF worker[w].at = "took" /\ worker[w].job \in client[c].due
                  THEN {"stale"} ELSE {})
         \/ ~worker[w].finished /\ Goto(c, "testing") /\ UNCHANGED events
  /\ UNCHANGED <<queue, nextId, schedLock, jobsLock, worker, executed, closing, status>>

\* The predicate of job_finished_.wait, then the sleep.
TestFinished(c) ==
  /\ ClientIs(c, "testing")
  /\ LET w == client[c].turn
     IN  \/ worker[w].finished
            /\ client' = [client EXCEPT ![c] = [@ EXCEPT !.at = "polling", !.turn = w + 1]]
         \/ ~worker[w].finished /\ Goto(c, "sleeping")
  /\ UNCHANGED <<queue, nextId, schedLock, jobsLock, worker, executed, closing, status, events>>

Sleep(c) ==
  /\ ClientIs(c, "sleeping")
  /\ Goto(c, "finishWait")
  /\ UNCHANGED <<queue, nextId, schedLock, jobsLock, worker, executed, closing, status, events>>

\* wait_all returns behind the last worker.
Return(c) ==
  /\ ClientIs(c, "polling") /\ client[c].turn > WorkerCount
  /\ client' = [client EXCEPT ![c] = [@ EXCEPT !.at = "idle", !.turn = 1, !.due = {}]]
  /\ UNCHANGED <<queue, nextId, schedLock, jobsLock, worker, executed, closing, status, events>>

-----------------------------------------------------------------------------
(* ~ThreadManager, when no call is running any more.                       *)

\* continue_.store(false) for the worker whose thread is joined next.
Stop(n) == [w \in Worker |-> IF w = n THEN [worker[w] EXCEPT !.goOn = FALSE] ELSE worker[w]]

Destroy ==
  /\ status = "running" /\ closing = 0 /\ \A c \in Client : client[c].at = "idle"
  /\ closing' = 1 /\ worker' = Stop(1)
  /\ UNCHANGED <<queue, nextId, schedLock, jobsLock, client, executed, status, events>>

\* join() returns, and the next worker is deleted.
Join ==
  /\ status = "running" /\ closing \in Worker /\ worker[closing].at = "exited"
  /\ closing' = closing + 1 /\ worker' = Stop(closing + 1)
  /\ UNCHANGED <<queue, nextId, schedLock, jobsLock, client, executed, status, events>>

-----------------------------------------------------------------------------

\* A call goes on; whether one begins is up to the client.
Continue(c) ==
  \/ Emplace(c) \/ Notify(c) \/ CheckEmpty(c) \/ ReadSize(c) \/ TestSize(c)
  \/ Poll(c) \/ TestFinished(c) \/ Sleep(c) \/ Return(c)

Work(w) ==
  \/ Loop(w) \/ Request(w) \/ Doze(w) \/ Take(w) \/ ClearFinished(w) \/ Execute(w)
  \/ SetFinished(w) \/ Announce(w)

Next ==
  \/ \E c \in Client : Schedule(c) \/ WaitAll(c) \/ WaitOne(c) \/ Continue(c)
  \/ \E w \in Worker : Work(w) \/ Throw(w)
  \/ Destroy \/ Join

\* The operating system runs every thread that is able to run.
Fairness ==
  /\ \A c \in Client : WF_vars(Continue(c))
  /\ \A w \in Worker : WF_vars(Work(w))
  /\ WF_vars(Join)

Spec == Init /\ [][Next]_vars /\ Fairness

-----------------------------------------------------------------------------
(* Properties.                                                             *)

\* Who holds a mutex is where it is held.
LocksOK ==
  /\ \A c \in Client : client[c].at \in Scheduling <=> schedLock = c
  /\ \A w \in Worker : worker[w].at \in {"dozing", "taking"} <=> jobsLock = w

\* A thread that moves a job has one, a client that waits for a worker too.
Holding == {"taking", "took", "running", "executed", "announcing"}
LocalsOK ==
  /\ \A c \in Client :
       /\ client[c].at \in Scheduling => client[c].job \in Job
       /\ client[c].at \in {"testing", "sleeping", "finishWait"} => client[c].turn \in Worker
  /\ \A w \in Worker : worker[w].at \in Holding => worker[w].job \in Job

\* Types of the state, and mutual exclusion in its mutexes.
TypeOK ==
  /\ queue \subseteq Job /\ nextId \in Job \cup {MaxJob + 1}
  /\ schedLock \in Client \cup {None} /\ jobsLock \in Worker \cup {NoJob}
  /\ client \in [Client -> ClientState]
  /\ worker \in [Worker -> WorkerState]
  /\ executed \subseteq Job /\ closing \in {0} \cup Turn
  /\ status \in {"running", "terminated"} /\ events \subseteq Event
  /\ LocksOK /\ LocalsOK

Raced == "raced" \in events

Pool == INSTANCE JobPool WITH waiting <- queue, active <- Taken, done <- executed

\* Until a data race hits the queue the manager is a JobPool: whatever clients
\* and workers do at once, no job is lost, taken by two workers or run twice.
RunsAsPool == Pool!Init /\ [][Raced' \/ Pool!Next]_Pool!vars

\* wait_all returns only when every job scheduled before the call has been
\* executed, unless it met the finished_ of an earlier job (Worker.cpp clears it
\* after the job has left the queue).
WaitAllComplete ==
  [][\A c \in Client :
       Return(c) /\ events \cap {"raced", "stale"} = {} => client[c].due \subseteq executed]_vars

\* A pool in normal operation, without a race.  A lone worker must not miss a
\* notification; of several workers one is awake and looks at the queue again.
Undisturbed ==
  /\ ~Raced /\ status = "running" /\ closing = 0
  /\ WorkerCount > 1 \/ (WorkerCount = 1 /\ "missed" \notin events)

\* Then no job starves: what is in the queue is executed.
JobsRun == []Undisturbed => \A j \in Job : j \in queue ~> j \in executed

\* The three ways in which a waiting client hangs: orig_size was 0, so that the
\* size never falls below it; the worker it waits for never got a job; or that
\* worker set finished_ and notified between the client's test and its sleep.  A
\* worker that has set finished_ and is yet to notify is none of them.
Hangs(c) ==
  \/ client[c].at = "assignWait" /\ client[c].size = 0
  \/ /\ client[c].at = "finishWait"
     /\ LET w == worker[client[c].turn]
        IN  \/ w.finished /\ w.at # "announcing" /\ client[c].unheard
            \/ ~w.finished /\ w.at = "waiting"

\* wait_all ends in no other way than by returning or by one of these; wait(id),
\* whose condition never comes true, ends in a hang.
WaitsEnd ==
  []Undisturbed =>
    \A c \in Client : client[c].at \in Assigning \cup Finishing ~> client[c].at = "idle" \/ Hangs(c)

\* A worker that is not blocked in request_job when ~Worker clears continue_
\* leaves its thread after at most the job it holds, so the join returns.
BusyWorkersLeave ==
  []~Raced =>
    \A w \in Worker :
      worker[w].at \in {"head", "took", "running", "executed", "announcing"} /\ ~worker[w].goOn
        ~> worker[w].at = "exited" \/ status = "terminated"
==============================================================================
