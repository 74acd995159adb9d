------------------------------- MODULE JobPool -------------------------------
(***************************************************************************)
(* What a thread pool promises: a submitted job waits, is started by one   *)
(* worker and is finished once.  ThreadManager keeps the promise as long   *)
(* as no data race hits its queue.                                         *)
(***************************************************************************)
CONSTANT Job

VARIABLES waiting,  \* submitted, not started
          active,   \* being executed
          done      \* executed

vars == <<waiting, active, done>>

TypeOK == waiting \subseteq Job /\ active \subseteq Job /\ done \subseteq Job

Init == waiting = {} /\ active = {} /\ done = {}

Submit(j) ==
  /\ j \notin waiting \cup active \cup done
  /\ waiting' = waiting \cup {j}
  /\ UNCHANGED <<active, done>>

Start(j) ==
  /\ j \in waiting
  /\ waiting' = waiting \ {j}
  /\ active' = active \cup {j}
  /\ UNCHANGED done

Finish(j) ==
  /\ j \in active
  /\ active' = active \ {j}
  /\ done' = done \cup {j}
  /\ UNCHANGED waiting

Next == \E j \in Job : Submit(j) \/ Start(j) \/ Finish(j)

Spec == Init /\ [][Next]_vars
==============================================================================
