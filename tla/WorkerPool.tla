----------------------------- MODULE WorkerPool -----------------------------
(***************************************************************************)
(* base::PosixDynamicThreadPool and the WorkerPoolImpl that owns it         *)
(* (base/threading/worker_pool_posix.{h,cc}).                              *)
(*                                                                         *)
(* Any thread posts tasks; the pool starts a non-joinable thread whenever  *)
(* there are fewer idle threads than queued tasks; a thread that finds no  *)
(* work waits on tasks_available_cv_ for ten minutes and then exits.  The  *)
(* critical sections under lock_ are atomic; a wait on the condition       *)
(* variable ends one section and the return from the wait starts another.  *)
(***************************************************************************)
EXTENDS Integers, Sequences, FiniteSets

CONSTANTS
    Tasks,          \* Task objects that callers may post, each once
    Workers,        \* WorkerThread objects that may be created
    NoTask          \* the NULL Task*

ASSUME WorkersFinite == IsFiniteSet(Workers)
ASSUME NoTaskIsNull == NoTask \notin Tasks

VARIABLES
    tasks_,             \* queue of posted tasks, guarded by lock_
    num_idle_threads_,  \* the pool's count of idle threads
    terminated_,        \* set by Terminate()
    pc,                 \* where each WorkerThread is
    current,            \* the task a worker has been handed
    owner,              \* progress of ~WorkerPoolImpl
    finished,           \* tasks that ran (and were then deleted)
    discarded,          \* tasks deleted unrun by ~PosixDynamicThreadPool
    destroyed           \* ~PosixDynamicThreadPool has run

vars == <<tasks_, num_idle_threads_, terminated_, pc, current, owner,
          finished, discarded, destroyed>>

(***************************************************************************)
(* uncreated: no such object yet       starting: before its first          *)
(* stillborn: pthread_create failed,     WaitForTask()                     *)
(*   the object is never deleted       looping: between two tasks          *)
(* waiting: blocked in TimedWait()     woken: signalled or timed out, not  *)
(* running: in task->Run()               yet holding lock_ again           *)
(* exiting: WaitForTask() gave NULL    exited: after "delete this"         *)
(***************************************************************************)
WorkerState == {"uncreated", "stillborn", "starting", "looping", "waiting",
                "woken", "running", "exiting", "exited"}

OwnerState == {"open", "terminated", "broadcast", "released"}

InState(S) == {w \in Workers : pc[w] \in S}

Idle == InState({"waiting", "woken"})

Queued == {tasks_[i] : i \in DOMAIN tasks_}

Posted == Queued \cup {current[w] : w \in Workers} \cup finished \cup discarded

TypeOK ==
    /\ tasks_ \in Seq(Tasks)
    /\ num_idle_threads_ \in Nat
    /\ terminated_ \in BOOLEAN
    /\ pc \in [Workers -> WorkerState]
    /\ current \in [Workers -> Tasks \cup {NoTask}]
    /\ owner \in OwnerState
    /\ finished \subseteq Tasks
    /\ discarded \subseteq Tasks
    /\ destroyed \in BOOLEAN

Init ==
    /\ tasks_ = <<>>
    /\ num_idle_threads_ = 0
    /\ terminated_ = FALSE
    /\ pc = [w \in Workers |-> "uncreated"]
    /\ current = [w \in Workers |-> NoTask]
    /\ owner = "open"
    /\ finished = {}
    /\ discarded = {}
    /\ destroyed = FALSE

-----------------------------------------------------------------------------
(* PostTask.  The DCHECK makes posting to a terminated pool the caller's   *)
(* error, so it is a guard here.                                           *)

\* ConditionVariable::Signal: some waiter, if there is one, wakes up.
CvSignal(from) ==
    \/ /\ \A w \in Workers : from[w] # "waiting"
       /\ pc' = from
    \/ \E w \in Workers :
          /\ from[w] = "waiting"
          /\ pc' = [from EXCEPT ![w] = "woken"]

\* The result of CreateNonJoinable is ignored: when pthread_create fails the
\* WorkerThread object stays behind and nobody is told.
CreateNonJoinable ==
    \E w \in Workers, state \in {"starting", "stillborn"} :
        /\ pc[w] = "uncreated"
        /\ pc' = [pc EXCEPT ![w] = state]

\* Mutant: the queue is measured before the push.
PostTask_SizeBeforePush(t) ==
    /\ ~terminated_
    /\ t \notin Posted
    /\ tasks_' = Append(tasks_, t)
    /\ IF num_idle_threads_ >= Len(tasks_)
         THEN CvSignal(pc)
         ELSE CreateNonJoinable
    /\ UNCHANGED <<num_idle_threads_, terminated_, current, owner, finished,
                   discarded, destroyed>>

PostTask(t) ==
    /\ ~terminated_
    /\ t \notin Posted
    /\ tasks_' = Append(tasks_, t)
    /\ IF num_idle_threads_ >= Len(tasks_) + 1
         THEN CvSignal(pc)
         ELSE CreateNonJoinable
    /\ UNCHANGED <<num_idle_threads_, terminated_, current, owner, finished,
                   discarded, destroyed>>

-----------------------------------------------------------------------------
(* WorkerThread::ThreadMain and the two halves of WaitForTask              *)

\* Mutant: the pop is forgotten.
TakeTask_NoPop(w) ==
    /\ tasks_ # <<>>
    /\ current' = [current EXCEPT ![w] = Head(tasks_)]
    /\ pc' = [pc EXCEPT ![w] = "running"]
    /\ UNCHANGED tasks_

\* WaitForTask pops the front of the queue and returns it.
TakeTask(w) ==
    /\ tasks_ # <<>>
    /\ current' = [current EXCEPT ![w] = Head(tasks_)]
    /\ tasks_' = Tail(tasks_)
    /\ pc' = [pc EXCEPT ![w] = "running"]

ReturnNull(w) ==
    /\ pc' = [pc EXCEPT ![w] = "exiting"]
    /\ UNCHANGED <<tasks_, current>>

\* WaitForTask up to the wait on tasks_available_cv_.
WaitForTask(w) ==
    /\ pc[w] \in {"starting", "looping"}
    /\ \/ /\ terminated_
          /\ ReturnNull(w)
          /\ UNCHANGED num_idle_threads_
       \/ /\ ~terminated_
          /\ tasks_ = <<>>
          /\ num_idle_threads_' = num_idle_threads_ + 1
          /\ pc' = [pc EXCEPT ![w] = "waiting"]
          /\ UNCHANGED <<tasks_, current>>
       \/ /\ ~terminated_
          /\ TakeTask(w)
          /\ UNCHANGED num_idle_threads_
    /\ UNCHANGED <<terminated_, owner, finished, discarded, destroyed>>

\* The ten minutes pass, or the wait ends spuriously.
TimedWaitExpires(w) ==
    /\ pc[w] = "waiting"
    /\ pc' = [pc EXCEPT ![w] = "woken"]
    /\ UNCHANGED <<tasks_, num_idle_threads_, terminated_, current, owner,
                   finished, discarded, destroyed>>

\* Mutant: a thread that times out is still counted as idle.
ResumeWaitForTask_KeepsCount(w) ==
    /\ pc[w] = "woken"
    /\ \/ /\ tasks_ = <<>>
          /\ ReturnNull(w)
          /\ UNCHANGED num_idle_threads_
       \/ /\ TakeTask(w)
          /\ num_idle_threads_' = num_idle_threads_ - 1
    /\ UNCHANGED <<terminated_, owner, finished, discarded, destroyed>>

\* WaitForTask after the wait: terminated_ is not looked at again.
ResumeWaitForTask(w) ==
    /\ pc[w] = "woken"
    /\ num_idle_threads_' = num_idle_threads_ - 1
    /\ \/ tasks_ = <<>> /\ ReturnNull(w)
       \/ TakeTask(w)
    /\ UNCHANGED <<terminated_, owner, finished, discarded, destroyed>>

\* Mutant: the task is deleted and was not run.
RunTask_OnlyDeletes(w) ==
    /\ pc[w] = "running"
    /\ discarded' = discarded \cup {current[w]}
    /\ current' = [current EXCEPT ![w] = NoTask]
    /\ pc' = [pc EXCEPT ![w] = "looping"]
    /\ UNCHANGED <<tasks_, num_idle_threads_, terminated_, owner, finished, destroyed>>

\* task->Run(); delete task;
RunTask(w) ==
    /\ pc[w] = "running"
    /\ finished' = finished \cup {current[w]}
    /\ current' = [current EXCEPT ![w] = NoTask]
    /\ pc' = [pc EXCEPT ![w] = "looping"]
    /\ UNCHANGED <<tasks_, num_idle_threads_, terminated_, owner, discarded,
                   destroyed>>

\* Dropping the last reference runs ~PosixDynamicThreadPool, which deletes
\* every task still queued.  A stillborn worker keeps its reference.
DropReference(lastOne) ==
    IF lastOne
      THEN /\ destroyed' = TRUE
           /\ discarded' = discarded \cup Queued
           /\ tasks_' = <<>>
      ELSE UNCHANGED <<destroyed, discarded, tasks_>>

\* "delete this" at the end of ThreadMain.
ThreadExit(w) ==
    /\ pc[w] = "exiting"
    /\ pc' = [pc EXCEPT ![w] = "exited"]
    /\ DropReference(/\ owner = "released"
                     /\ \A v \in Workers \ {w} : pc[v] \in {"uncreated", "exited"})
    /\ UNCHANGED <<num_idle_threads_, terminated_, current, owner, finished>>

-----------------------------------------------------------------------------
(* ~WorkerPoolImpl: Terminate() and the release of pool_                   *)

Terminate ==
    /\ owner = "open"
    /\ owner' = "terminated"
    /\ terminated_' = TRUE
    /\ UNCHANGED <<tasks_, num_idle_threads_, pc, current, finished, discarded,
                   destroyed>>

\* Mutant: Signal instead of Broadcast.
TerminateBroadcast_SignalsOne ==
    /\ owner = "terminated"
    /\ owner' = "broadcast"
    /\ CvSignal(pc)
    /\ UNCHANGED <<tasks_, num_idle_threads_, terminated_, current, finished,
                   discarded, destroyed>>

\* The Broadcast is made after lock_ has been released.
TerminateBroadcast ==
    /\ owner = "terminated"
    /\ owner' = "broadcast"
    /\ pc' = [w \in Workers |-> IF pc[w] = "waiting" THEN "woken" ELSE pc[w]]
    /\ UNCHANGED <<tasks_, num_idle_threads_, terminated_, current, finished,
                   discarded, destroyed>>

ReleasePool ==
    /\ owner = "broadcast"
    /\ owner' = "released"
    /\ DropReference(\A w \in Workers : pc[w] \in {"uncreated", "exited"})
    /\ UNCHANGED <<num_idle_threads_, terminated_, pc, current, finished>>

-----------------------------------------------------------------------------
WorkerStep(w) ==
    WaitForTask(w) \/ ResumeWaitForTask(w) \/ RunTask(w) \/ ThreadExit(w)

Next ==
    \/ \E t \in Tasks : PostTask(t)
    \/ \E w \in Workers : WorkerStep(w)
    \/ \E w \in Workers : TimedWaitExpires(w)
    \/ Terminate
    \/ TerminateBroadcast
    \/ ReleasePool

Spec == Init /\ [][Next]_vars

(***************************************************************************)
(* The scheduler runs every runnable thread, and ~WorkerPoolImpl, once     *)
(* begun, runs on.  Nothing makes a caller post or the process exit, and   *)
(* no progress may depend on the ten-minute timeout.                       *)
(***************************************************************************)
Fairness ==
    /\ \A w \in Workers : WF_vars(WorkerStep(w))
    /\ WF_vars(TerminateBroadcast)
    /\ WF_vars(ReleasePool)

FairSpec == Spec /\ Fairness

-----------------------------------------------------------------------------
(* Properties                                                              *)

\* num_idle_threads_ is exactly the number of threads inside the wait in
\* WaitForTask, a woken one that has not yet got lock_ back included.
IdleCountAccurate == num_idle_threads_ = Cardinality(Idle)

\* While the pool is open each queued task has a thread of its own that is
\* already on its way to the queue: PostTask's choice between waking an idle
\* thread and starting one never leaves a task to a sleeping thread, whatever
\* timeouts and other workers do meanwhile.  A failed pthread_create strands
\* at most the one task it was made for.
NoStrandedTask ==
    ~terminated_ =>
        Len(tasks_) <= Cardinality(InState({"starting", "woken", "stillborn"}))

\* A task belongs to one place: it is never queued twice, handed to two
\* workers, run after it was deleted, or deleted while queued or running.  And the
\* pool is destroyed only after its last worker is gone, when every task it took
\* ownership of has been run or deleted.
OneHolderPerTask ==
    /\ \A i, j \in DOMAIN tasks_ : tasks_[i] = tasks_[j] => i = j
    /\ \A v, w \in Workers : current[v] = current[w] => v = w \/ current[v] = NoTask
    /\ \A w \in Workers : current[w] \notin Queued \cup finished \cup discarded
    /\ Queued \cap (finished \cup discarded) = {}
    /\ finished \cap discarded = {}
    /\ destroyed => /\ tasks_ = <<>>
                    /\ \A w \in Workers : pc[w] \in {"uncreated", "exited"}

\* pthread_create has failed once: the WorkerThread object left behind serves no
\* task and keeps its reference to the pool.
CreateHasFailed == InState({"stillborn"}) # {}

\* A queued task runs, unless the pool is terminated first: no sleeping thread,
\* timeout or shutdown of another worker leaves it in the queue.
TaskEventuallyRuns ==
    \A t \in Tasks :
        (t \in Queued) ~> (t \in finished \/ terminated_ \/ CreateHasFailed)

\* After Terminate() every worker leaves and the pool goes away, without
\* anyone having to sit out the idle timeout.
PoolEventuallyDestroyed == terminated_ ~> destroyed \/ CreateHasFailed
=============================================================================
