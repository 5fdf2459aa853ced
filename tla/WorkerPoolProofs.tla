-------------------------- MODULE WorkerPoolProofs --------------------------
(***************************************************************************)
(* Proofs about WorkerPool: the inductive invariant IInv and what follows  *)
(* from it for any set of tasks and any finite set of workers.             *)
(***************************************************************************)
EXTENDS WorkerPool, SequencesExt, SequenceTheorems, FiniteSetTheorems, TLAPS

-----------------------------------------------------------------------------
(* Sequences                                                               *)

NoneTwice(s) == \A i, j \in 1..Len(s) : s[i] = s[j] => i = j

\* Append puts x behind a sequence that does not hold it.
LEMMA Appended ==
    ASSUME NEW S, NEW s \in Seq(S), NoneTwice(s), NEW x \in S, \A i \in 1..Len(s) : s[i] # x
    PROVE  /\ Append(s, x) \in Seq(S) /\ NoneTwice(Append(s, x))
           /\ \A i \in 1..Len(Append(s, x)) :
                 Append(s, x)[i] = x \/ (i \in 1..Len(s) /\ Append(s, x)[i] = s[i])
<1>1. /\ Append(s, x) \in Seq(S) /\ Len(Append(s, x)) = Len(s) + 1 /\ Len(s) \in Nat
      /\ \A i \in 1..Len(s) : Append(s, x)[i] = s[i]
      /\ Append(s, x)[Len(s) + 1] = x
  OBVIOUS
<1>2. NoneTwice(Append(s, x))
  <2> SUFFICES ASSUME NEW i \in 1..(Len(s) + 1), NEW j \in 1..(Len(s) + 1),
                      Append(s, x)[i] = Append(s, x)[j]
               PROVE  i = j
    BY <1>1 DEF NoneTwice
  <2>1. \A k \in 1..(Len(s) + 1) : k \in 1..Len(s) \/ k = Len(s) + 1
    BY <1>1
  <2> QED
    BY <1>1, <2>1 DEF NoneTwice
<1>3. \A i \in 1..(Len(s) + 1) :
         Append(s, x)[i] = x \/ (i \in 1..Len(s) /\ Append(s, x)[i] = s[i])
  BY <1>1
<1> QED
  BY <1>1, <1>2, <1>3

\* Tail drops the first element.
LEMMA TailOf ==
    ASSUME NEW S, NEW s \in Seq(S), NoneTwice(s), Len(s) >= 1
    PROVE  /\ Tail(s) \in Seq(S) /\ NoneTwice(Tail(s)) /\ Len(Tail(s)) = Len(s) - 1
           /\ \A i \in 1..Len(Tail(s)) : i + 1 \in 2..Len(s) /\ Tail(s)[i] = s[i + 1]
<1>1. Tail(s) \in Seq(S) /\ Len(Tail(s)) = Len(s) - 1 /\ Len(s) \in Nat
      /\ \A i \in 1..Len(Tail(s)) : Tail(s)[i] = s[i + 1]
  OBVIOUS
<1>2. \A i \in 1..Len(Tail(s)) : i + 1 \in 1..Len(s) /\ i + 1 \in 2..Len(s)
  BY <1>1
<1>3. NoneTwice(Tail(s))
  <2> SUFFICES ASSUME NEW i \in 1..Len(Tail(s)), NEW j \in 1..Len(Tail(s)),
                      Tail(s)[i] = Tail(s)[j]
               PROVE  i = j
    BY DEF NoneTwice
  <2>1. i + 1 = j + 1
    BY <1>1, <1>2 DEF NoneTwice
  <2> QED
    BY <2>1
<1> QED
  BY <1>1, <1>2, <1>3

-----------------------------------------------------------------------------
(* Counting workers                                                        *)

\* The workers that the worker-state function f puts into a state of S.
At(f, S) == {w \in Workers : f[w] \in S}

Ind(b) == IF b THEN 1 ELSE 0

\* The workers in given states are finitely many.
LEMMA AtFinite ==
    ASSUME NEW f, NEW S
    PROVE  IsFiniteSet(At(f, S)) /\ Cardinality(At(f, S)) \in Nat
  BY WorkersFinite, FS_Subset, FS_CardinalityType DEF At

\* What moving one worker does to the number of workers in the states S.
LEMMA CountMove ==
    ASSUME NEW f, DOMAIN f = Workers, f = [w \in Workers |-> f[w]],
           NEW w \in Workers, NEW s, NEW S
    PROVE  /\ Cardinality(At([f EXCEPT ![w] = s], S))
                = Cardinality(At(f, S)) + Ind(s \in S) - Ind(f[w] \in S)
           /\ f[w] \in S => Cardinality(At(f, S)) >= 1
  <1> DEFINE A == At(f, S)
             B == At([f EXCEPT ![w] = s], S)
  <1>1. IsFiniteSet(A) /\ Cardinality(A) \in Nat /\ Cardinality(B) \in Nat
    BY AtFinite
  <1>2. CASE s \in S /\ f[w] \notin S
    <2>1. B = A \cup {w} /\ w \notin A
      BY <1>2 DEF At
    <2>2. Cardinality(B) = Cardinality(A) + 1
      BY <2>1, <1>1, FS_AddElement
    <2>3. QED
      BY <2>2, <1>1, <1>2 DEF Ind
  <1>3. CASE s \notin S /\ f[w] \in S
    <2>1. B = A \ {w} /\ w \in A
      BY <1>3 DEF At
    <2>2. Cardinality(B) = Cardinality(A) - 1
      BY <2>1, <1>1, FS_RemoveElement
    <2>3. QED
      BY <2>2, <1>1, <1>3 DEF Ind
  <1>4. CASE s \in S <=> f[w] \in S
    <2>1. B = A
      BY <1>4 DEF At
    <2>2. Cardinality(B) = Cardinality(A) + Ind(s \in S) - Ind(f[w] \in S)
      BY <2>1, <1>1, <1>4 DEF Ind
    <2>3. f[w] \in S => w \in A
      BY DEF At
    <2>4. w \in A => Cardinality(A \ {w}) = Cardinality(A) - 1
      BY <1>1, FS_RemoveElement
    <2>5. Cardinality(A \ {w}) \in Nat
      BY <1>1, FS_RemoveElement, FS_CardinalityType
    <2>6. QED
      BY <2>2, <2>3, <2>4, <2>5, <1>1
  <1>5. QED
    BY <1>2, <1>3, <1>4

-----------------------------------------------------------------------------
(* The invariant                                                           *)

IdleStates == {"waiting", "woken"}
WayStates == {"starting", "woken", "stillborn"}

\* A running worker has been handed a task, and only a running one.
RunningHasTask == \A w \in Workers : pc[w] = "running" <=> current[w] # NoTask

\* The inductive invariant.  IdleCountAccurate is what NoStrandedTask needs:
\* when Signal finds nobody asleep, all idle threads are awake already.
TypeInv ==
    /\ TypeOK
    /\ RunningHasTask
    /\ owner # "open" => terminated_

IInv == TypeInv /\ IdleCountAccurate /\ NoStrandedTask

\* The invariant in terms of the two counts, before and after a step.
LEMMA IInvCounts ==
    /\ IInv <=> /\ TypeInv
                /\ num_idle_threads_ = Cardinality(At(pc, IdleStates))
                /\ ~terminated_ => Len(tasks_) <= Cardinality(At(pc, WayStates))
    /\ IInv' <=> /\ TypeInv'
                 /\ num_idle_threads_' = Cardinality(At(pc', IdleStates))
                 /\ ~terminated_' => Len(tasks_') <= Cardinality(At(pc', WayStates))
  BY DEF IInv, IdleCountAccurate, NoStrandedTask, Idle, InState, IdleStates,
         WayStates, At

\* No worker exists and nothing is queued at first.
LEMMA InitIInv == Init => IInv
  <1> SUFFICES ASSUME Init PROVE IInv
    OBVIOUS
  <1>1. terminated_ \in BOOLEAN /\ destroyed \in BOOLEAN
    BY Zenon DEF Init
  <1>2. tasks_ \in Seq(Tasks)
    BY DEF Init
  <1>3. TypeInv
    BY <1>1, <1>2 DEF Init, TypeInv, TypeOK, RunningHasTask, WorkerState, OwnerState
  <1>4. At(pc, IdleStates) = {}
    BY DEF Init, At, IdleStates
  <1>5. num_idle_threads_ = Cardinality(At(pc, IdleStates))
    BY <1>4, FS_EmptySet DEF Init
  <1>6. Cardinality(At(pc, WayStates)) \in Nat
    BY AtFinite
  <1>7. QED
    BY <1>3, <1>5, <1>6, IInvCounts DEF Init

AdjustsIdle(w, s) ==
    num_idle_threads_' = num_idle_threads_ + Ind(s \in IdleStates)
                                           - Ind(pc[w] \in IdleStates)

AdjustsWay(w, s) ==
    ~terminated_' =>
        /\ ~terminated_
        /\ \/ Len(tasks_') = 0
           \/ Len(tasks_') <= Len(tasks_) + Ind(s \in WayStates)
                                          - Ind(pc[w] \in WayStates)

\* A step that moves one worker keeps the invariant if it adjusts the idle
\* count by the move and, unless it leaves the queue empty, takes tasks no
\* slower than it takes threads away.
LEMMA MoveIInv ==
    ASSUME IInv, NEW w \in Workers, NEW s,
           pc' = [pc EXCEPT ![w] = s],
           AdjustsIdle(w, s), AdjustsWay(w, s),
           num_idle_threads_' \in Nat => TypeInv',
           tasks_' \in Seq(Tasks)
    PROVE  IInv'
  <1> DEFINE Idl == Cardinality(At(pc, IdleStates))
             Way == Cardinality(At(pc, WayStates))
  <1>1. /\ TypeInv
        /\ num_idle_threads_ = Idl
        /\ ~terminated_ => Len(tasks_) <= Way
    BY IInvCounts
  <1>2. DOMAIN pc = Workers /\ pc = [v \in Workers |-> pc[v]]
    BY <1>1 DEF TypeInv, TypeOK, RunningHasTask
  <1>3. /\ Cardinality(At(pc', IdleStates))
             = Idl + Ind(s \in IdleStates) - Ind(pc[w] \in IdleStates)
        /\ pc[w] \in IdleStates => Idl >= 1
    BY <1>2, CountMove
  <1>4. Cardinality(At(pc', WayStates))
             = Way + Ind(s \in WayStates) - Ind(pc[w] \in WayStates)
    BY <1>2, CountMove
  <1>5. Idl \in Nat /\ Way \in Nat /\ Len(tasks_) \in Nat /\ Len(tasks_') \in Nat
    BY <1>1, AtFinite DEF TypeInv, TypeOK, RunningHasTask
  <1>6. num_idle_threads_' = Cardinality(At(pc', IdleStates))
    BY <1>1, <1>3 DEF AdjustsIdle
  <1>7. Cardinality(At(pc', IdleStates)) \in Nat
    BY AtFinite
  <1>8. TypeInv'
    BY <1>6, <1>7
  <1>9. ~terminated_' => Len(tasks_') <= Cardinality(At(pc', WayStates))
    <2>1. Cardinality(At(pc', WayStates)) \in Nat
      BY AtFinite
    <2>2. QED
      BY <2>1, <1>1, <1>4, <1>5 DEF Ind, AdjustsWay
  <1>10. QED
    BY <1>6, <1>8, <1>9, IInvCounts

\* PostTask wakes or starts a thread for the task, or nobody is asleep and
\* then the idle threads, all awake, are enough.
LEMMA PostTaskIInv == ASSUME IInv, NEW t \in Tasks, PostTask(t) PROVE IInv'
  <1>1. TypeInv /\ num_idle_threads_ = Cardinality(At(pc, IdleStates))
    BY IInvCounts
  <1>2. /\ tasks_' \in Seq(Tasks)
        /\ Len(tasks_') = Len(tasks_) + 1
        /\ Len(tasks_) \in Nat
    BY <1>1 DEF PostTask, TypeInv, TypeOK, RunningHasTask
  <1>3. ASSUME pc' \in [Workers -> WorkerState],
               \A w \in Workers : pc'[w] = "running" <=> pc[w] = "running"
        PROVE  TypeInv'
    BY <1>1, <1>2, <1>3 DEF PostTask, TypeInv, TypeOK, RunningHasTask
  <1>4. ~terminated_ /\ num_idle_threads_' = num_idle_threads_
    BY DEF PostTask
  <1>5. CASE /\ num_idle_threads_ >= Len(tasks_) + 1
             /\ \A w \in Workers : pc[w] # "waiting"
             /\ pc' = pc
    <2>1. At(pc, IdleStates) \subseteq At(pc, WayStates)
      BY <1>5 DEF At, IdleStates, WayStates
    <2>2. Cardinality(At(pc, IdleStates)) <= Cardinality(At(pc, WayStates))
      BY <2>1, AtFinite, FS_Subset
    <2>3. Cardinality(At(pc, WayStates)) \in Nat
      BY AtFinite
    <2>4. Len(tasks_') <= Cardinality(At(pc', WayStates))
      BY <2>2, <2>3, <1>1, <1>2, <1>5 DEF TypeInv, TypeOK, RunningHasTask
    <2>5. TypeInv'
      BY <1>1, <1>3, <1>5 DEF TypeInv, TypeOK, RunningHasTask
    <2>6. QED
      BY <2>4, <2>5, <1>1, <1>4, <1>5, IInvCounts
  <1>6. ASSUME NEW w \in Workers, NEW s \in WayStates,
               pc[w] \notin WayStates, pc[w] # "running",
               s \in IdleStates <=> pc[w] \in IdleStates,
               pc' = [pc EXCEPT ![w] = s]
        PROVE  IInv'
    <2>1. TypeInv'
      BY <1>1, <1>3, <1>6 DEF TypeInv, TypeOK, WorkerState, WayStates
    <2>2. AdjustsIdle(w, s)
      BY <1>1, <1>4, <1>6 DEF AdjustsIdle, Ind, TypeInv, TypeOK
    <2>3. AdjustsWay(w, s)
      BY <1>2, <1>4, <1>6 DEF AdjustsWay, Ind
    <2>4. QED
      BY <2>1, <2>2, <2>3, <1>2, <1>6, MoveIInv
  <1>7. CASE /\ num_idle_threads_ >= Len(tasks_) + 1
             /\ \E w \in Workers :
                   pc[w] = "waiting" /\ pc' = [pc EXCEPT ![w] = "woken"]
    BY <1>6, <1>7 DEF WayStates, IdleStates
  <1>8. CASE CreateNonJoinable
    BY <1>6, <1>8 DEF CreateNonJoinable, WayStates, IdleStates
  <1>9. QED
    BY <1>5, <1>7, <1>8 DEF PostTask, CvSignal

\* Each step of a worker moves that worker only.
LEMMA WorkerIInv ==
    ASSUME IInv, NEW w \in Workers, WorkerStep(w) \/ TimedWaitExpires(w)
    PROVE  IInv'
  <1>1. TypeInv
    BY DEF IInv
  <1>2. /\ tasks_ \in Seq(Tasks)
        /\ Len(tasks_) \in Nat
        /\ num_idle_threads_ \in Nat
        /\ pc[w] \in WorkerState
        /\ tasks_ # <<>> => /\ Tail(tasks_) \in Seq(Tasks)
                            /\ Len(Tail(tasks_)) = Len(tasks_) - 1
                            /\ Head(tasks_) \in Tasks
    BY <1>1 DEF TypeInv, TypeOK, RunningHasTask
  <1>3. CASE WaitForTask(w)
    <2>1. CASE terminated_
      <3>1. pc' = [pc EXCEPT ![w] = "exiting"] /\ terminated_'
        BY <1>3, <2>1 DEF WaitForTask, ReturnNull
      <3>2. TypeInv'
        BY <1>1, <1>3, <2>1 DEF TypeInv, TypeOK, RunningHasTask, WaitForTask, ReturnNull, WorkerState
      <3>3. num_idle_threads_' = num_idle_threads_ /\ tasks_' = tasks_
        BY <1>3, <2>1 DEF WaitForTask, ReturnNull
      <3>4. pc[w] \notin IdleStates
        BY <1>3 DEF WaitForTask, IdleStates
      <3>5. AdjustsIdle(w, "exiting") /\ AdjustsWay(w, "exiting")
        BY <3>1, <3>2, <3>3, <3>4, <1>2
        DEF AdjustsIdle, AdjustsWay, Ind, IdleStates, WayStates
      <3>6. QED
        BY <3>1, <3>2, <3>3, <3>4, <1>2,
           <3>5, MoveIInv
    <2>2. CASE ~terminated_ /\ tasks_ = <<>>
      <3>1. /\ pc' = [pc EXCEPT ![w] = "waiting"]
            /\ num_idle_threads_' = num_idle_threads_ + 1
            /\ tasks_' = tasks_
            /\ UNCHANGED terminated_
        BY <1>3, <2>2 DEF WaitForTask, TakeTask
      <3>2. TypeInv'
        BY <1>1, <1>3, <3>1 DEF TypeInv, TypeOK, RunningHasTask, WaitForTask, TakeTask, ReturnNull, WorkerState
      <3>3. pc[w] \in {"starting", "looping"} /\ Len(tasks_') = 0
        BY <1>3, <2>2, <3>1 DEF WaitForTask
      <3>4. AdjustsIdle(w, "waiting") /\ AdjustsWay(w, "waiting")
        BY <3>1, <3>2, <3>3, <1>2, <2>2
        DEF AdjustsIdle, AdjustsWay, Ind, IdleStates, WayStates
      <3>5. QED
        BY <3>1, <3>2, <3>3, <1>2, <2>2,
           <3>4, MoveIInv
    <2>3. CASE ~terminated_ /\ tasks_ # <<>>
      <3>1. /\ pc' = [pc EXCEPT ![w] = "running"]
            /\ num_idle_threads_' = num_idle_threads_
            /\ tasks_' = Tail(tasks_)
            /\ current' = [current EXCEPT ![w] = Head(tasks_)]
        BY <1>3, <2>3 DEF WaitForTask, TakeTask
      <3>2. TypeInv'
        BY <1>1, <1>2, <1>3, <2>3, <3>1, NoTaskIsNull
        DEF TypeInv, TypeOK, RunningHasTask, WaitForTask, WorkerState
      <3>3. pc[w] \in {"starting", "looping"}
        BY <1>3 DEF WaitForTask
      <3>4. AdjustsIdle(w, "running") /\ AdjustsWay(w, "running")
        BY <3>1, <3>2, <3>3, <1>2, <2>3
        DEF AdjustsIdle, AdjustsWay, Ind, IdleStates, WayStates
      <3>5. QED
        BY <3>1, <3>2, <3>3, <1>2, <2>3,
           <3>4, MoveIInv
    <2>4. QED
      BY <2>1, <2>2, <2>3
  <1>4. CASE ResumeWaitForTask(w)
    <2>1. CASE tasks_ = <<>>
      <3>1. /\ pc' = [pc EXCEPT ![w] = "exiting"]
            /\ tasks_' = tasks_
            /\ Len(tasks_') = 0
        BY <1>4, <2>1 DEF ResumeWaitForTask, TakeTask, ReturnNull
      <3>2. num_idle_threads_' \in Nat => TypeInv'
        BY <1>1, <1>4, <3>1 DEF TypeInv, TypeOK, RunningHasTask, ResumeWaitForTask, TakeTask, ReturnNull, WorkerState
      <3>3. pc[w] = "woken" /\ num_idle_threads_' = num_idle_threads_ - 1
        BY <1>4 DEF ResumeWaitForTask
      <3>4. ~terminated_' => ~terminated_
        BY <1>4 DEF ResumeWaitForTask
      <3>5. AdjustsIdle(w, "exiting") /\ AdjustsWay(w, "exiting")
        BY <3>1, <3>2, <3>3, <3>4, <1>2
        DEF AdjustsIdle, AdjustsWay, Ind, IdleStates, WayStates
      <3>6. QED
        BY <3>1, <3>2, <3>3, <3>4, <1>2,
           <3>5, MoveIInv
    <2>2. CASE tasks_ # <<>>
      <3>1. /\ pc' = [pc EXCEPT ![w] = "running"]
            /\ tasks_' = Tail(tasks_)
            /\ current' = [current EXCEPT ![w] = Head(tasks_)]
        BY <1>4, <2>2 DEF ResumeWaitForTask, TakeTask
      <3>2. num_idle_threads_' \in Nat => TypeInv'
        BY <1>1, <1>2, <1>4, <2>2, <3>1, NoTaskIsNull
        DEF TypeInv, TypeOK, RunningHasTask, ResumeWaitForTask, WorkerState
      <3>3. pc[w] = "woken" /\ num_idle_threads_' = num_idle_threads_ - 1
        BY <1>4 DEF ResumeWaitForTask
      <3>4. ~terminated_' => ~terminated_
        BY <1>4 DEF ResumeWaitForTask
      <3>5. AdjustsIdle(w, "running") /\ AdjustsWay(w, "running")
        BY <3>1, <3>2, <3>3, <3>4, <1>2, <2>2
        DEF AdjustsIdle, AdjustsWay, Ind, IdleStates, WayStates
      <3>6. QED
        BY <3>1, <3>2, <3>3, <3>4, <1>2, <2>2,
           <3>5, MoveIInv
    <2>3. QED
      BY <2>1, <2>2
  <1>5. CASE RunTask(w)
    <2>1. pc' = [pc EXCEPT ![w] = "looping"] /\ pc[w] = "running"
      BY <1>5 DEF RunTask
    <2>2. /\ UNCHANGED <<tasks_, num_idle_threads_>>
          /\ ~terminated_' => ~terminated_
      BY <1>5 DEF RunTask
    <2>3. finished' \subseteq Tasks
      <3>1. current[w] \in Tasks
        BY <1>1, <1>5 DEF RunTask, TypeInv, TypeOK, RunningHasTask
      <3>2. QED
        BY <3>1, <1>1, <1>5 DEF RunTask, TypeInv, TypeOK, RunningHasTask
    <2>4. TypeInv'
      BY <1>1, <1>5, <2>3 DEF TypeInv, TypeOK, RunningHasTask, RunTask, WorkerState
    <2>5. AdjustsIdle(w, "looping") /\ AdjustsWay(w, "looping")
      BY <2>1, <2>2, <2>4, <1>2
      DEF AdjustsIdle, AdjustsWay, Ind, IdleStates, WayStates
    <2>6. QED
      BY <2>1, <2>2, <2>4, <1>2,
         <2>5, MoveIInv
  <1>6. CASE ThreadExit(w)
    <2>1. pc' = [pc EXCEPT ![w] = "exited"] /\ pc[w] = "exiting"
      BY <1>6 DEF ThreadExit
    <2>2. /\ UNCHANGED num_idle_threads_
          /\ ~terminated_' => ~terminated_
          /\ tasks_' = tasks_ \/ tasks_' = <<>>
      BY <1>6 DEF ThreadExit, DropReference
    <2>3. tasks_' \in Seq(Tasks) /\ (Len(tasks_') = 0 \/ Len(tasks_') = Len(tasks_))
      <3>1. <<>> \in Seq(Tasks) /\ Len(<<>>) = 0
        OBVIOUS
      <3>2. QED
        BY <3>1, <2>2, <1>2
    <2>4. TypeInv'
      <3>1. Queued \subseteq Tasks
        BY <1>1 DEF Queued, TypeInv, TypeOK, RunningHasTask
      <3>2. /\ destroyed' \in BOOLEAN
            /\ discarded' \subseteq Tasks
        BY <3>1, <1>1, <1>6 DEF ThreadExit, DropReference, TypeInv, TypeOK, RunningHasTask
      <3>3. QED
        BY <3>2, <1>1, <1>6, <2>3 DEF ThreadExit, TypeInv, TypeOK, RunningHasTask, WorkerState
    <2>5. AdjustsIdle(w, "exited") /\ AdjustsWay(w, "exited")
      BY <2>1, <2>2, <2>3, <2>4, <1>2
      DEF AdjustsIdle, AdjustsWay, Ind, IdleStates, WayStates
    <2>6. QED
      BY <2>1, <2>2, <2>3, <2>4, <1>2,
         <2>5, MoveIInv
  <1>7. CASE TimedWaitExpires(w)
    <2>1. pc' = [pc EXCEPT ![w] = "woken"] /\ pc[w] = "waiting"
      BY <1>7 DEF TimedWaitExpires
    <2>2. /\ UNCHANGED <<tasks_, num_idle_threads_>>
          /\ ~terminated_' => ~terminated_
      BY <1>7 DEF TimedWaitExpires
    <2>3. TypeInv'
      BY <1>1, <1>7 DEF TypeInv, TypeOK, RunningHasTask, TimedWaitExpires, WorkerState
    <2>4. AdjustsIdle(w, "woken") /\ AdjustsWay(w, "woken")
      BY <2>1, <2>2, <2>3, <1>2
      DEF AdjustsIdle, AdjustsWay, Ind, IdleStates, WayStates
    <2>5. QED
      BY <2>1, <2>2, <2>3, <1>2,
         <2>4, MoveIInv
  <1>8. QED
    BY <1>3, <1>4, <1>5, <1>6, <1>7 DEF WorkerStep

\* Terminate, its Broadcast and the release of the pool.
LEMMA OwnerIInv ==
    ASSUME IInv, Terminate \/ TerminateBroadcast \/ ReleasePool
    PROVE  IInv'
  <1>1. TypeInv /\ num_idle_threads_ = Cardinality(At(pc, IdleStates))
    BY IInvCounts
  <1>2. CASE Terminate
    <2>1. TypeInv'
      BY <1>1, <1>2 DEF Terminate, TypeInv, TypeOK, RunningHasTask, OwnerState
    <2>2. terminated_' /\ UNCHANGED <<num_idle_threads_, pc>>
      BY <1>2 DEF Terminate
    <2>3. QED
      BY <1>1, <2>1, <2>2, IInvCounts
  <1>3. CASE TerminateBroadcast
    <2>1. pc' = [w \in Workers |-> IF pc[w] = "waiting" THEN "woken" ELSE pc[w]]
      BY <1>3 DEF TerminateBroadcast
    <2>2. terminated_ /\ UNCHANGED <<num_idle_threads_, terminated_>>
      BY <1>1, <1>3 DEF TerminateBroadcast, TypeInv
    <2>3. TypeInv'
      BY <1>1, <1>3, <2>1, <2>2
      DEF TerminateBroadcast, TypeInv, TypeOK, RunningHasTask, OwnerState, WorkerState
    <2>4. At(pc', IdleStates) = At(pc, IdleStates)
      BY <2>1 DEF At, IdleStates
    <2>5. QED
      BY <1>1, <2>2, <2>3, <2>4, IInvCounts
  <1>4. CASE ReleasePool
    <2>1. terminated_ /\ UNCHANGED <<num_idle_threads_, terminated_, pc, current, finished>>
      BY <1>1, <1>4 DEF ReleasePool, TypeInv
    <2>2. tasks_' \in Seq(Tasks) /\ discarded' \subseteq Tasks /\ destroyed' \in BOOLEAN
      <3>1. tasks_ \in Seq(Tasks) /\ <<>> \in Seq(Tasks) /\ Queued \subseteq Tasks
        BY <1>1 DEF Queued, TypeInv, TypeOK
      <3>2. QED
        BY <3>1, <1>1, <1>4 DEF ReleasePool, DropReference, TypeInv, TypeOK
    <2>3. TypeInv'
      BY <1>1, <1>4, <2>1, <2>2
      DEF ReleasePool, TypeInv, TypeOK, RunningHasTask, OwnerState
    <2>4. QED
      BY <1>1, <2>1, <2>3, IInvCounts
  <1>5. QED
    BY <1>2, <1>3, <1>4

-----------------------------------------------------------------------------
(* The theorems                                                            *)

\* Every step of the pool, its workers and its owner keeps IInv.
THEOREM Invariance == Spec => []IInv
  <1>1. IInv /\ [Next]_vars => IInv'
    <2> SUFFICES ASSUME IInv, [Next]_vars PROVE IInv'
      OBVIOUS
    <2>1. CASE \E t \in Tasks : PostTask(t)
      BY <2>1, PostTaskIInv
    <2>2. CASE \E w \in Workers : WorkerStep(w) \/ TimedWaitExpires(w)
      BY <2>2, WorkerIInv
    <2>3. CASE Terminate \/ TerminateBroadcast \/ ReleasePool
      BY <2>3, OwnerIInv
    <2>4. CASE UNCHANGED vars
      BY <2>4 DEF vars, IInv, TypeInv, TypeOK, RunningHasTask,
                  IdleCountAccurate, NoStrandedTask, Idle, InState
    <2>5. QED
      BY <2>1, <2>2, <2>3, <2>4 DEF Next
  <1>2. QED
    BY InitIInv, <1>1, PTL DEF Spec

\* The pool's variables keep their types; in particular num_idle_threads_
\* never goes below zero.
THEOREM TypeCorrect == Spec => []TypeOK
  <1>1. IInv => TypeOK
    BY DEF IInv, TypeInv
  <1>2. QED
    BY Invariance, <1>1, PTL

\* num_idle_threads_ counts the threads inside the wait of WaitForTask.
THEOREM IdleCountCorrect == Spec => []IdleCountAccurate
  <1>1. IInv => IdleCountAccurate
    BY DEF IInv
  <1>2. QED
    BY Invariance, <1>1, PTL

\* While the pool is open every queued task has a thread of its own on its
\* way, up to one task for each failed pthread_create: PostTask loses no
\* wake-up, for any number of tasks and threads.
THEOREM NoTaskStranded == Spec => []NoStrandedTask
  <1>1. IInv => NoStrandedTask
    BY DEF IInv
  <1>2. QED
    BY Invariance, <1>1, PTL

-----------------------------------------------------------------------------
(* Who holds a task                                                        *)

\* The pool goes away after Terminate() only: no task is posted to what is gone.
HolderInv == OneHolderPerTask /\ (destroyed => terminated_)

\* The queue of a pool that is well typed and in which no task is twice.
LEMMA QueueFacts ==
    ASSUME TypeInv, OneHolderPerTask
    PROVE  /\ tasks_ \in Seq(Tasks) /\ NoneTwice(tasks_) /\ DOMAIN tasks_ = 1..Len(tasks_)
           /\ Queued \subseteq Tasks
  <1>1. tasks_ \in Seq(Tasks) /\ DOMAIN tasks_ = 1..Len(tasks_)
    BY DEF TypeInv, TypeOK
  <1>2. QED
    BY <1>1 DEF OneHolderPerTask, NoneTwice, Queued

\* A task that nobody holds joins the queue.
LEMMA PostTaskHolder ==
    ASSUME TypeInv, HolderInv, NEW t \in Tasks, PostTask(t)
    PROVE  HolderInv'
  <1>1. /\ tasks_' = Append(tasks_, t) /\ t \notin Posted /\ ~terminated_
        /\ UNCHANGED <<terminated_, current, finished, discarded, destroyed>>
    BY DEF PostTask
  <1>2. /\ tasks_ \in Seq(Tasks) /\ NoneTwice(tasks_) /\ DOMAIN tasks_ = 1..Len(tasks_)
        /\ \A i \in 1..Len(tasks_) : tasks_[i] # t
    BY <1>1, QueueFacts DEF HolderInv, Posted, Queued
  <1>3. /\ tasks_' \in Seq(Tasks) /\ NoneTwice(tasks_')
        /\ \A i \in 1..Len(tasks_') :
              tasks_'[i] = t \/ (i \in 1..Len(tasks_) /\ tasks_'[i] = tasks_[i])
    BY <1>1, <1>2, Appended
  <1>4. Queued' \subseteq Queued \cup {t} /\ DOMAIN tasks_' = 1..Len(tasks_')
    BY <1>2, <1>3 DEF Queued
  <1>5. ~destroyed /\ ~destroyed'
    BY <1>1 DEF HolderInv
  <1>6. QED
    BY <1>1, <1>3, <1>4, <1>5 DEF HolderInv, OneHolderPerTask, NoneTwice, Posted

\* The front task moves from the queue to the worker that takes it.
LEMMA TakeTaskHolder ==
    ASSUME TypeInv, HolderInv, NEW w \in Workers, current[w] = NoTask, TakeTask(w),
           pc[w] \notin {"uncreated", "exited"},
           UNCHANGED <<terminated_, finished, discarded, destroyed>>
    PROVE  HolderInv'
  <1> DEFINE t == Head(tasks_)
  <1>1. /\ tasks_ # <<>> /\ current' = [current EXCEPT ![w] = t]
        /\ tasks_' = Tail(tasks_)
    BY DEF TakeTask
  <1>2. tasks_ \in Seq(Tasks) /\ NoneTwice(tasks_) /\ DOMAIN tasks_ = 1..Len(tasks_)
    BY QueueFacts DEF HolderInv
  <1>3. Len(tasks_) >= 1 /\ 1 \in 1..Len(tasks_) /\ tasks_[1] = t /\ Len(tasks_) \in Nat
    BY <1>1, <1>2
  <1>4. /\ tasks_' \in Seq(Tasks) /\ NoneTwice(tasks_')
        /\ \A i \in 1..Len(tasks_') : i + 1 \in 2..Len(tasks_) /\ tasks_'[i] = tasks_[i + 1]
    BY <1>1, <1>2, <1>3, TailOf
  <1> HIDE DEF t
  <1>5. t \in Queued /\ DOMAIN tasks_' = 1..Len(tasks_')
    BY <1>2, <1>3, <1>4 DEF Queued
  <1>6. \A i \in 1..Len(tasks_') : tasks_'[i] \in Queued /\ tasks_'[i] # t
    <2>1. \A j \in 2..Len(tasks_) : j \in 1..Len(tasks_) /\ j # 1
      BY <1>3
    <2>2. \A j \in 2..Len(tasks_) : tasks_[j] \in Queued /\ tasks_[j] # t
      BY <1>2, <1>3, <2>1 DEF NoneTwice, Queued
    <2>3. QED
      BY <1>4, <2>2
  <1>7. Queued' \subseteq Queued \ {t}
    BY <1>5, <1>6 DEF Queued
  <1>8. current' \in [Workers -> Tasks \cup {NoTask}] /\ current'[w] = t
        /\ \A v \in Workers \ {w} : current'[v] = current[v]
    <2>1. t \in Tasks
      BY <1>5, QueueFacts DEF HolderInv
    <2>2. QED
      BY <1>1, <2>1 DEF TypeInv, TypeOK
  <1>9. ~destroyed /\ ~destroyed'
    BY DEF HolderInv, OneHolderPerTask
  <1>10. \A v, u \in Workers : current'[v] = current'[u] => v = u \/ current'[v] = NoTask
    BY <1>5, <1>8 DEF HolderInv, OneHolderPerTask
  <1>11. \A v \in Workers : current'[v] \notin Queued' \cup finished' \cup discarded'
    BY <1>5, <1>7, <1>8 DEF HolderInv, OneHolderPerTask
  <1>12. QED
    BY <1>4, <1>5, <1>7, <1>9, <1>10, <1>11 DEF HolderInv, OneHolderPerTask, NoneTwice

\* Nobody holds a task who is not running it.
LEMMA HoldsNone ==
    ASSUME TypeInv, NEW w \in Workers, pc[w] # "running"
    PROVE  current[w] = NoTask
  BY DEF TypeInv, RunningHasTask

\* The last reference goes: what is queued is deleted, and nobody is left to take it.
LEMMA DropReferenceHolder ==
    ASSUME TypeInv, HolderInv, terminated_', UNCHANGED <<current, finished>>, NEW last \in BOOLEAN,
           DropReference(last),
           last => \A w \in Workers : pc'[w] \in {"uncreated", "exited"},
           ~last => (destroyed => \A w \in Workers : pc'[w] \in {"uncreated", "exited"})
    PROVE  HolderInv'
  <1>1. CASE last
    <2>1. destroyed' = TRUE /\ discarded' = discarded \cup Queued /\ tasks_' = <<>>
      BY <1>1 DEF DropReference
    <2>2. Queued' = {} /\ \A i, j \in DOMAIN tasks_' : FALSE
      BY <2>1 DEF Queued
    <2>3. QED
      BY <1>1, <2>1, <2>2 DEF HolderInv, OneHolderPerTask
  <1>2. CASE ~last
    <2>1. UNCHANGED <<destroyed, discarded, tasks_>>
      BY <1>2 DEF DropReference
    <2>2. Queued' = Queued
      BY <2>1 DEF Queued
    <2>3. QED
      BY <1>2, <2>1, <2>2 DEF HolderInv, OneHolderPerTask
  <1>3. QED
    BY <1>1, <1>2

\* Each step moves a task from one holder to the next, or leaves it.
LEMMA NextHolder == TypeInv /\ HolderInv /\ [Next]_vars => HolderInv'
  <1> SUFFICES ASSUME TypeInv, HolderInv, [Next]_vars PROVE HolderInv'
    OBVIOUS
  <1>1. ASSUME UNCHANGED <<tasks_, current, finished, discarded, destroyed>>,
               terminated_ => terminated_',
               \A w \in Workers : pc[w] \in {"uncreated", "exited"} => pc'[w] = pc[w]
        PROVE  HolderInv'
    BY <1>1 DEF HolderInv, OneHolderPerTask, Queued
  <1>2. pc \in [Workers -> WorkerState]
    BY DEF TypeInv, TypeOK
  <1>3. ASSUME NEW w \in Workers, WaitForTask(w)
        PROVE  HolderInv'
    <2>1. pc[w] \in {"starting", "looping"} /\ current[w] = NoTask
      BY <1>3, HoldsNone DEF WaitForTask
    <2>2. CASE TakeTask(w)
      BY <1>3, <2>1, <2>2, TakeTaskHolder DEF WaitForTask
    <2>3. CASE ~TakeTask(w)
      BY <1>1, <1>2, <1>3, <2>1, <2>3 DEF WaitForTask, ReturnNull
    <2>4. QED
      BY <2>2, <2>3
  <1>4. ASSUME NEW w \in Workers, ResumeWaitForTask(w)
        PROVE  HolderInv'
    <2>1. pc[w] = "woken" /\ current[w] = NoTask
      BY <1>4, HoldsNone DEF ResumeWaitForTask
    <2>2. CASE TakeTask(w)
      BY <1>4, <2>1, <2>2, TakeTaskHolder DEF ResumeWaitForTask
    <2>3. CASE ~TakeTask(w)
      BY <1>1, <1>2, <1>4, <2>1, <2>3 DEF ResumeWaitForTask, ReturnNull
    <2>4. QED
      BY <2>2, <2>3
  <1>5. ASSUME NEW w \in Workers, RunTask(w)
        PROVE  HolderInv'
    <2>1. /\ pc[w] = "running" /\ finished' = finished \cup {current[w]}
          /\ current' = [current EXCEPT ![w] = NoTask]
          /\ pc' = [pc EXCEPT ![w] = "looping"]
          /\ UNCHANGED <<tasks_, terminated_, discarded, destroyed>>
      BY <1>5 DEF RunTask
    <2>2. /\ current'[w] = NoTask /\ \A v \in Workers \ {w} : current'[v] = current[v]
          /\ current[w] \in Tasks
      BY <2>1 DEF TypeInv, TypeOK, RunningHasTask
    <2>3. ~destroyed
      BY <2>1 DEF HolderInv, OneHolderPerTask
    <2>4. NoTask \notin Queued \cup finished \cup discarded
      BY NoTaskIsNull, QueueFacts DEF HolderInv, TypeInv, TypeOK
    <2>5. \A v \in Workers : current'[v] \notin Queued' \cup finished' \cup discarded'
      BY <2>1, <2>2, <2>4, NoTaskIsNull DEF HolderInv, OneHolderPerTask, Queued
    <2>6. /\ Queued' \cap (finished' \cup discarded') = {} /\ finished' \cap discarded' = {}
      BY <2>1 DEF HolderInv, OneHolderPerTask, Queued
    <2>7. \A u, v \in Workers : current'[u] = current'[v] => u = v \/ current'[u] = NoTask
      BY <2>2 DEF HolderInv, OneHolderPerTask
    <2>8. QED
      BY <2>1, <2>3, <2>5, <2>6, <2>7 DEF HolderInv, OneHolderPerTask
  <1>6. ASSUME NEW w \in Workers, ThreadExit(w)
        PROVE  HolderInv'
    <2> DEFINE last == /\ owner = "released"
                       /\ \A v \in Workers \ {w} : pc[v] \in {"uncreated", "exited"}
    <2>1. /\ pc[w] = "exiting" /\ pc' = [pc EXCEPT ![w] = "exited"] /\ DropReference(last)
          /\ UNCHANGED <<current, finished, terminated_>>
      BY <1>6 DEF ThreadExit
    <2>2. ~destroyed
      BY <2>1 DEF HolderInv, OneHolderPerTask
    <2>3. last \in BOOLEAN /\ (last => \A v \in Workers : pc'[v] \in {"uncreated", "exited"})
          /\ (last => owner = "released")
      BY <1>2, <2>1
    <2> HIDE DEF last
    <2>4. CASE last
      <3>1. terminated_
        BY <2>3, <2>4 DEF TypeInv
      <3>2. QED
        BY <2>1, <2>2, <2>3, <3>1, DropReferenceHolder
    <2>5. CASE ~last
      BY <1>1, <1>2, <2>1, <2>5 DEF DropReference
    <2>6. QED
      BY <2>4, <2>5
  <1>7. CASE ReleasePool
    <2> DEFINE last == \A w \in Workers : pc[w] \in {"uncreated", "exited"}
    <2>1. /\ terminated_' /\ pc' = pc /\ DropReference(last) /\ last \in BOOLEAN
          /\ UNCHANGED <<current, finished>>
      BY <1>7 DEF ReleasePool, TypeInv
    <2>2. last => \A w \in Workers : pc'[w] \in {"uncreated", "exited"}
      BY <2>1
    <2>3. destroyed => \A w \in Workers : pc'[w] \in {"uncreated", "exited"}
      BY <2>1 DEF HolderInv, OneHolderPerTask
    <2> HIDE DEF last
    <2>4. QED
      BY <2>1, <2>2, <2>3, DropReferenceHolder
  <1>8. CASE Terminate
    BY <1>1, <1>8 DEF Terminate
  <1>9. CASE TerminateBroadcast
    BY <1>1, <1>9 DEF TerminateBroadcast
  <1>10. ASSUME NEW w \in Workers, TimedWaitExpires(w)
         PROVE  HolderInv'
    BY <1>1, <1>2, <1>10 DEF TimedWaitExpires
  <1>11. CASE UNCHANGED vars
    BY <1>1, <1>11 DEF vars
  <1>12. QED
    BY <1>3, <1>4, <1>5, <1>6, <1>7, <1>8, <1>9, <1>10, <1>11, PostTaskHolder
    DEF Next, WorkerStep

\* A task belongs to one place, for any number of tasks, callers and threads: it is never
\* queued twice, handed to two workers, run after it was deleted, or deleted while queued
\* or running; and the pool is destroyed only after its last worker is gone.
THEOREM TaskHasOneHolder == Spec => []OneHolderPerTask
  <1>1. Init => HolderInv
    <2> SUFFICES ASSUME Init PROVE HolderInv
      OBVIOUS
    <2>1. Queued = {} /\ DOMAIN tasks_ = {} /\ ~destroyed
      BY DEF Init, Queued
    <2>2. QED
      BY <2>1 DEF Init, HolderInv, OneHolderPerTask
  <1>2. IInv => TypeInv
    BY DEF IInv
  <1>3. HolderInv => OneHolderPerTask
    BY DEF HolderInv
  <1>4. QED
    BY <1>1, <1>2, <1>3, Invariance, NextHolder, PTL DEF Spec
=============================================================================
