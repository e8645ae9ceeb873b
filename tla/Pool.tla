-------------------------------- MODULE Pool --------------------------------
(* The worker pool of balaur_core (task.rs): threads that take jobs off one *)
(* queue, started as work arrives up to a limit, asleep on a condition      *)
(* variable while there is none.                                            *)
(*                                                                          *)
(* What is done under the queue's lock is one step. Starting the thread a   *)
(* submit decided on and waking a sleeper come after the lock is let go, so *)
(* they are steps of their own and anything may happen between.             *)
EXTENDS Integers, Sequences, FiniteSets

CONSTANTS
    Jobs,         \* what is submitted, each once
    NoJob,        \* what a thread that is not busy runs
    Threads,      \* the threads the system can start
    Callers,      \* the threads that submit
    Limit,        \* how many run at once
    MaxFailures   \* bound: threads the system refuses to start

ASSUME PoolConstants ==
    /\ Limit \in Nat \ {0} /\ MaxFailures \in Nat
    /\ IsFiniteSet(Threads) /\ IsFiniteSet(Callers) /\ NoJob \notin Jobs

VARIABLES
    waiting,   \* Queue.waiting
    workers,   \* Queue.workers
    idle,      \* Queue.idle
    closed,    \* Queue.closed
    thread,    \* where each thread is
    job,       \* what a busy thread runs
    caller,    \* where each submit is: at rest, to spawn, to notify one or all
    taken,     \* history: the jobs submitted
    failures   \* threads that did not start

poolVars == <<waiting, workers, idle, closed, thread, job, caller, taken, failures>>

(* A thread is not started, on its way to the lock, running a job, asleep   *)
(* on the condition variable, notified there, or ended.                     *)
ThreadStates == {"none", "ready", "busy", "asleep", "woken", "ended"}

CallerStates == {"rest", "spawn", "one", "all"}

PoolInit ==
    /\ waiting = <<>> /\ workers = 0 /\ idle = 0 /\ closed = FALSE
    /\ thread = [t \in Threads |-> "none"] /\ job = [t \in Threads |-> NoJob]
    /\ caller = [c \in Callers |-> "rest"]
    /\ taken = {} /\ failures = 0

-----------------------------------------------------------------------------
(* Whether a submit starts a thread.                                        *)
Wants == idle = 0 /\ workers < Limit

(* submit, under the lock.                                                  *)
Submit(c, j) ==
    /\ caller[c] = "rest" /\ ~closed /\ j \notin taken
    /\ waiting' = Append(waiting, j) /\ taken' = taken \union {j}
    /\ workers' = IF Wants THEN workers + 1 ELSE workers
    /\ caller' = [caller EXCEPT ![c] = IF Wants THEN "spawn" ELSE "one"]
    /\ UNCHANGED <<idle, closed, thread, job, failures>>

(* The thread decided on starts.                                            *)
Spawn(c, t) ==
    /\ caller[c] = "spawn" /\ thread[t] = "none"
    /\ thread' = [thread EXCEPT ![t] = "ready"]
    /\ caller' = [caller EXCEPT ![c] = "one"]
    /\ UNCHANGED <<waiting, workers, idle, closed, job, taken, failures>>

(* A mutant: a thread that did not start stays counted.                     *)
SpawnForgotten(c) ==
    /\ caller[c] = "spawn" /\ failures < MaxFailures
    /\ failures' = failures + 1
    /\ caller' = [caller EXCEPT ![c] = "one"]
    /\ UNCHANGED <<waiting, workers, idle, closed, thread, job, taken>>

(* Or does not, and is no longer counted.                                   *)
SpawnFails(c) ==
    /\ caller[c] = "spawn" /\ failures < MaxFailures
    /\ workers' = workers - 1 /\ failures' = failures + 1
    /\ caller' = [caller EXCEPT ![c] = "one"]
    /\ UNCHANGED <<waiting, idle, closed, thread, job, taken>>

(* notify_one: a sleeper, if there is one, is on its way to the lock.       *)
NotifyOne(c) ==
    /\ caller[c] = "one"
    /\ IF \E t \in Threads : thread[t] = "asleep"
       THEN \E t \in Threads : /\ thread[t] = "asleep"
                               /\ thread' = [thread EXCEPT ![t] = "woken"]
       ELSE thread' = thread
    /\ caller' = [caller EXCEPT ![c] = "rest"]
    /\ UNCHANGED <<waiting, workers, idle, closed, job, taken, failures>>

(* Drop: what waits is dropped and every sleeper told. The owner drops it,  *)
(* so no submit is under way.                                               *)
Close(c) ==
    /\ ~closed /\ \A d \in Callers : caller[d] = "rest"
    /\ closed' = TRUE /\ waiting' = <<>>
    /\ caller' = [caller EXCEPT ![c] = "all"]
    /\ UNCHANGED <<workers, idle, thread, job, taken, failures>>

NotifyAll(c) ==
    /\ caller[c] = "all"
    /\ thread' = [t \in Threads |-> IF thread[t] = "asleep" THEN "woken" ELSE thread[t]]
    /\ caller' = [caller EXCEPT ![c] = "rest"]
    /\ UNCHANGED <<waiting, workers, idle, closed, job, taken, failures>>

-----------------------------------------------------------------------------
(* work: a thread that has the lock ends, takes a job or goes to sleep.     *)
HasLock(t) == thread[t] \in {"ready", "woken"}

IdleNow(t) == IF thread[t] = "woken" THEN idle - 1 ELSE idle

End(t) ==
    /\ HasLock(t) /\ closed
    /\ workers' = workers - 1 /\ idle' = IdleNow(t)
    /\ thread' = [thread EXCEPT ![t] = "ended"]
    /\ UNCHANGED <<waiting, closed, job, caller, taken, failures>>

Take(t) ==
    /\ HasLock(t) /\ ~closed /\ waiting # <<>>
    /\ waiting' = Tail(waiting) /\ idle' = IdleNow(t)
    /\ thread' = [thread EXCEPT ![t] = "busy"]
    /\ job' = [job EXCEPT ![t] = Head(waiting)]
    /\ UNCHANGED <<workers, closed, caller, taken, failures>>

Sleep(t) ==
    /\ HasLock(t) /\ ~closed /\ waiting = <<>>
    /\ idle' = IdleNow(t) + 1
    /\ thread' = [thread EXCEPT ![t] = "asleep"]
    /\ UNCHANGED <<waiting, workers, closed, job, caller, taken, failures>>

(* A wait may return with no notification.                                  *)
Stir(t) ==
    /\ thread[t] = "asleep"
    /\ thread' = [thread EXCEPT ![t] = "woken"]
    /\ UNCHANGED <<waiting, workers, idle, closed, job, caller, taken, failures>>

(* A job ends, or panics, and its thread goes on.                           *)
Finish(t) ==
    /\ thread[t] = "busy"
    /\ thread' = [thread EXCEPT ![t] = "ready"]
    /\ job' = [job EXCEPT ![t] = NoJob]
    /\ UNCHANGED <<waiting, workers, idle, closed, caller, taken, failures>>

Call(c) ==
    \/ \E j \in Jobs : Submit(c, j)
    \/ \E t \in Threads : Spawn(c, t)
    \/ SpawnFails(c) \/ NotifyOne(c) \/ Close(c) \/ NotifyAll(c)

Work(t) == End(t) \/ Take(t) \/ Sleep(t) \/ Stir(t) \/ Finish(t)

PoolNext == (\E c \in Callers : Call(c)) \/ (\E t \in Threads : Work(t))

PoolSpec == PoolInit /\ [][PoolNext]_poolVars

-----------------------------------------------------------------------------
(* The shape of the state.                                                  *)
PoolTypeOK ==
    /\ waiting \in Seq(Jobs) /\ workers \in Int /\ idle \in Int /\ closed \in BOOLEAN
    /\ thread \in [Threads -> ThreadStates] /\ job \in [Threads -> Jobs \union {NoJob}]
    /\ caller \in [Callers -> CallerStates] /\ taken \subseteq Jobs /\ failures \in Nat

(* A job waits only while something will look at the queue: a thread that   *)
(* is not asleep, or a submit that has still to start or to notify one. The *)
(* exception is a system that refused a thread and a pool that counts none: *)
(* there the job waits for the next submit, which will start one.           *)
NobodyIsStranded ==
    waiting # <<>> => \/ \E t \in Threads : thread[t] \in {"ready", "woken", "busy"}
                      \/ \E c \in Callers : caller[c] \in {"spawn", "one"}
                      \/ failures > 0 /\ workers = 0

(* No more jobs run at once than the limit, whatever threads did not start  *)
(* and however submits and workers interleave.                              *)
LimitIsKept == Cardinality({t \in Threads : thread[t] = "busy"}) <= Limit
=============================================================================
