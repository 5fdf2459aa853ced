---------------------------- MODULE WaitableEvent ----------------------------
(***************************************************************************)
(* base::WaitableEvent on POSIX (base/synchronization/                     *)
(* waitable_event_posix.cc): events shared by threads that signal, reset,  *)
(* poll and wait on them, one at a time or many at once.                   *)
(*                                                                         *)
(* A critical section that takes no further lock is one step.  Signal()    *)
(* calls Fire(), which takes a waiter's lock, while it holds the event's,  *)
(* and WaitMany() holds the locks of several events, so those hold lock_   *)
(* across steps.  A thread has at most one SyncWaiter at a time, on its    *)
(* stack, and the waiter is named by its thread: the next wait of the      *)
(* thread may put its SyncWaiter at the same address.                      *)
(***************************************************************************)
EXTENDS Integers, FiniteSets, SequencesExt

CONSTANTS
    Events,         \* WaitableEvents, named by their address
    ManualReset,    \* those constructed with manual_reset
    Threads,
    NoEvent,        \* a NULL WaitableEvent*
    NoThread        \* the holder of a free lock

ASSUME EventsAssumption == Events \subseteq Nat /\ IsFiniteSet(Events)
ASSUME ManualResetAssumption == ManualReset \subseteq Events
ASSUME NoEventAssumption == NoEvent \notin Events
ASSUME NoThreadAssumption == NoThread \notin Threads

VARIABLES
    \* WaitableEventKernel, per event
    signaled_,
    waiters_,           \* wait-list
    lock_,              \* who holds the kernel's lock between two steps
    \* SyncWaiter, per thread
    fired_,
    signaling_event_,
    \* the call in progress, per thread
    pc,
    raw_waitables,      \* the events of the call, in the caller's order
    mode,               \* which kind of wait it is
    idx,                \* loop counter
    result,             \* index of the event to be reported, 0 for none
    \* history
    owed                \* signals of an auto-reset event nobody has had yet

kernel == <<signaled_, waiters_, lock_>>
waiter == <<fired_, signaling_event_>>
call == <<pc, raw_waitables, mode, idx, result>>
vars == <<signaled_, waiters_, lock_, fired_, signaling_event_, pc,
          raw_waitables, mode, idx, result, owed>>

(***************************************************************************)
(* idle: in no call                    signalAll, signalOne: in Signal(),  *)
(* armed: enqueued, still holding the    holding the event's lock          *)
(*   SyncWaiter's lock                 popWoken, popRefused: SignalOne has *)
(* blocked: in cv_.Wait                  called Fire, has not popped yet   *)
(* awake: woken, wants the lock back   locking, unwinding, releasing:      *)
(* dequeue: TimedWait after Disable      EnqueueMany and what follows it   *)
(*                                     dequeueMany: WaitMany's last loop   *)
(***************************************************************************)
PC == {"idle", "signalAll", "signalOne", "popWoken", "popRefused", "armed",
       "blocked", "awake", "dequeue", "locking", "unwinding", "releasing",
       "dequeueMany"}

\* Wait(), TimedWait() before and after its end_time, WaitMany().
Mode == {"wait", "timed", "expired", "many"}

\* Arrays for WaitMany: its DCHECK wants the events distinct.
RawArrays ==
    {s \in UNION {[1..n -> Events] : n \in 1..Cardinality(Events)} :
        \A i, j \in DOMAIN s : s[i] = s[j] => i = j}

AutoReset == Events \ ManualReset

Free(e) == lock_[e] = NoThread

TypeOK ==
    /\ signaled_ \in [Events -> BOOLEAN]
    /\ waiters_ \in [Events -> Seq(Threads)]
    /\ lock_ \in [Events -> Threads \cup {NoThread}]
    /\ fired_ \in [Threads -> BOOLEAN]
    /\ signaling_event_ \in [Threads -> Events \cup {NoEvent}]
    /\ pc \in [Threads -> PC]
    /\ raw_waitables \in [Threads -> Seq(Events)]
    /\ mode \in [Threads -> Mode]
    /\ idx \in [Threads -> Nat]
    /\ result \in [Threads -> Nat]
    /\ owed \in [Events -> Nat]

Init ==
    /\ signaled_ \in [Events -> BOOLEAN]
    /\ waiters_ = [e \in Events |-> <<>>]
    /\ lock_ = [e \in Events |-> NoThread]
    /\ fired_ = [t \in Threads |-> FALSE]
    /\ signaling_event_ = [t \in Threads |-> NoEvent]
    /\ pc = [t \in Threads |-> "idle"]
    /\ raw_waitables = [t \in Threads |-> <<>>]
    /\ mode = [t \in Threads |-> "wait"]
    /\ idx = [t \in Threads |-> 0]
    /\ result = [t \in Threads |-> 0]
    /\ owed = [e \in Events |-> IF e \in AutoReset /\ signaled_[e] THEN 1 ELSE 0]

-----------------------------------------------------------------------------
\* A caller is told that e was signaled: an auto-reset event owes one less.
Paid(e) ==
    owed' = [owed EXCEPT ![e] = IF e \in AutoReset THEN @ - 1 ELSE @]

\* The call of t returns; its SyncWaiter goes out of scope.
Return(t) ==
    /\ pc' = [pc EXCEPT ![t] = "idle"]
    /\ raw_waitables' = [raw_waitables EXCEPT ![t] = <<>>]
    /\ mode' = [mode EXCEPT ![t] = "wait"]
    /\ idx' = [idx EXCEPT ![t] = 0]
    /\ result' = [result EXCEPT ![t] = 0]
    /\ fired_' = [fired_ EXCEPT ![t] = FALSE]
    /\ signaling_event_' = [signaling_event_ EXCEPT ![t] = NoEvent]

Enter(t, where, events, how) ==
    /\ pc[t] = "idle"
    /\ pc' = [pc EXCEPT ![t] = where]
    /\ raw_waitables' = [raw_waitables EXCEPT ![t] = events]
    /\ mode' = [mode EXCEPT ![t] = how]
    /\ UNCHANGED <<idx, result>>

Goto(t, where) == pc' = [pc EXCEPT ![t] = where]

\* A successful look at a signaled event resets it unless it is manual.
AutoResets(e) ==
    signaled_' = [signaled_ EXCEPT ![e] = e \in ManualReset]

-----------------------------------------------------------------------------
(* Reset, IsSignaled and Signal                                            *)

Reset(t, e) ==
    /\ pc[t] = "idle"
    /\ Free(e)
    /\ signaled_[e]
    /\ signaled_' = [signaled_ EXCEPT ![e] = FALSE]
    /\ Paid(e)
    /\ UNCHANGED <<waiters_, lock_, waiter, call>>

\* IsSignaled() on an event that is not signaled changes nothing.
IsSignaled(t, e) ==
    /\ pc[t] = "idle"
    /\ Free(e)
    /\ signaled_[e]
    /\ AutoResets(e)
    /\ Paid(e)
    /\ UNCHANGED <<waiters_, lock_, waiter, call>>

\* Signal() takes the lock and, unless the event is signaled already, keeps it.
Signal(t, e) ==
    /\ Free(e)
    /\ ~signaled_[e]
    /\ lock_' = [lock_ EXCEPT ![e] = t]
    /\ Enter(t, IF e \in ManualReset THEN "signalAll" ELSE "signalOne", <<e>>, "wait")
    /\ owed' = [owed EXCEPT ![e] = IF e \in AutoReset THEN @ + 1 ELSE @]
    /\ UNCHANGED <<signaled_, waiters_, waiter>>

\* A thread holds its own SyncWaiter's lock from Enqueue until it sleeps.
HoldsWaiterLock(w) == pc[w] \in {"releasing", "armed"}

\* Mutant: Fire sets the flag and does not broadcast.
Fire_NoBroadcast(t, w, e, woken, refused) ==
    /\ ~HoldsWaiterLock(w)
    /\ fired_' = [fired_ EXCEPT ![w] = TRUE]
    /\ signaling_event_' =
          [signaling_event_ EXCEPT ![w] = IF fired_[w] THEN @ ELSE e]
    /\ pc' = [pc EXCEPT ![t] = IF fired_[w] THEN refused ELSE woken]

\* SyncWaiter::Fire: fails if the waiter has fired or was disabled; otherwise
\* its thread, if asleep, is woken.
Fire(t, w, e, woken, refused) ==
    /\ ~HoldsWaiterLock(w)
    /\ fired_' = [fired_ EXCEPT ![w] = TRUE]
    /\ signaling_event_' =
          [signaling_event_ EXCEPT ![w] = IF fired_[w] THEN @ ELSE e]
    /\ pc' = [pc EXCEPT ![t] = IF fired_[w] THEN refused ELSE woken,
                        ![w] = IF @ = "blocked" /\ ~fired_[w] THEN "awake" ELSE @]

SignalDone(t, e, becomes) ==
    /\ signaled_' = [signaled_ EXCEPT ![e] = becomes]
    /\ lock_' = [lock_ EXCEPT ![e] = NoThread]
    /\ Return(t)
    /\ UNCHANGED owed

\* SignalOne: fire the front waiter and pop it, until one accepts.  If none
\* does, Signal() leaves the event signaled.
SignalOne(t) ==
    LET e == raw_waitables[t][1] IN
    \/ /\ pc[t] = "signalOne"
       /\ waiters_[e] = <<>>
       /\ SignalDone(t, e, TRUE)
       /\ UNCHANGED waiters_
    \/ /\ pc[t] = "signalOne"
       /\ waiters_[e] # <<>>
       /\ Fire(t, Head(waiters_[e]), e, "popWoken", "popRefused")
       /\ UNCHANGED <<kernel, raw_waitables, mode, idx, result, owed>>
    \/ /\ pc[t] = "popWoken"
       /\ waiters_' = [waiters_ EXCEPT ![e] = Tail(@)]
       /\ SignalDone(t, e, FALSE)
    \/ /\ pc[t] = "popRefused"
       /\ waiters_' = [waiters_ EXCEPT ![e] = Tail(@)]
       /\ Goto(t, "signalOne")
       /\ UNCHANGED <<signaled_, lock_, waiter, raw_waitables, mode, idx, result, owed>>

\* SignalAll: fire every waiter, then clear the list.
SignalAll(t) ==
    LET e == raw_waitables[t][1] IN
    /\ pc[t] = "signalAll"
    /\ \/ /\ idx[t] < Len(waiters_[e])
          /\ Fire(t, waiters_[e][idx[t] + 1], e, "signalAll", "signalAll")
          /\ idx' = [idx EXCEPT ![t] = @ + 1]
          /\ UNCHANGED <<kernel, raw_waitables, mode, result, owed>>
       \/ /\ idx[t] = Len(waiters_[e])
          /\ waiters_' = [waiters_ EXCEPT ![e] = <<>>]
          /\ SignalDone(t, e, TRUE)

-----------------------------------------------------------------------------
(* Wait and TimedWait                                                      *)

\* TimedWait up to the release of the kernel's lock; Wait() is the same with
\* no end_time.
TimedWait(t, e, how) ==
    /\ Free(e)
    /\ \/ /\ signaled_[e]
          /\ pc[t] = "idle"
          /\ AutoResets(e)
          /\ Paid(e)
          /\ UNCHANGED <<waiters_, call>>
       \/ /\ ~signaled_[e]
          /\ Enter(t, "armed", <<e>>, how)
          /\ waiters_' = [waiters_ EXCEPT ![e] = Append(@, t)]
          /\ UNCHANGED <<signaled_, owed>>
    /\ UNCHANGED <<lock_, waiter>>

\* end_time passes; cv_.TimedWait returns if the thread was in it.
EndTimePasses(t) ==
    /\ mode[t] = "timed"
    /\ pc[t] \in {"armed", "blocked", "awake"}
    /\ mode' = [mode EXCEPT ![t] = "expired"]
    /\ Goto(t, IF pc[t] = "blocked" THEN "awake" ELSE pc[t])
    /\ UNCHANGED <<kernel, waiter, raw_waitables, idx, result, owed>>

SpuriousWakeup(t) ==
    /\ pc[t] = "blocked"
    /\ Goto(t, "awake")
    /\ UNCHANGED <<kernel, waiter, raw_waitables, mode, idx, result, owed>>

\* Mutant: Disable() is left out.
CheckFired_NoDisable(t) ==
    /\ pc[t] \in {"armed", "awake"}
    /\ IF fired_[t] \/ mode[t] = "expired"
         THEN /\ result' = [result EXCEPT ![t] = IF fired_[t] THEN 1 ELSE 0]
              /\ Goto(t, IF mode[t] = "many" THEN "dequeueMany" ELSE "dequeue")
         ELSE /\ Goto(t, "blocked")
              /\ UNCHANGED result
    /\ UNCHANGED <<kernel, waiter, raw_waitables, mode, idx, owed>>

\* One round of the loops around cv_.Wait, with the SyncWaiter's lock held.
\* TimedWait notes whether the waiter fired and disables it; WaitMany's
\* signaled_index starts as the first index.
CheckFired(t) ==
    /\ pc[t] \in {"armed", "awake"}
    /\ IF fired_[t] \/ mode[t] = "expired"
         THEN /\ result' = [result EXCEPT ![t] = IF fired_[t] THEN 1 ELSE 0]
              /\ fired_' = [fired_ EXCEPT ![t] = TRUE]
              /\ Goto(t, IF mode[t] = "many" THEN "dequeueMany" ELSE "dequeue")
         ELSE /\ Goto(t, "blocked")
              /\ UNCHANGED <<result, fired_>>
    /\ UNCHANGED <<kernel, signaling_event_, raw_waitables, mode, idx, owed>>

\* TimedWait takes the kernel's lock again, to leave the wait-list.
Dequeue(t) ==
    LET e == raw_waitables[t][1] IN
    /\ pc[t] = "dequeue"
    /\ Free(e)
    /\ waiters_' = [waiters_ EXCEPT ![e] = RemoveFirst(@, t)]
    /\ IF result[t] = 1 THEN Paid(e) ELSE UNCHANGED owed
    /\ Return(t)
    /\ UNCHANGED <<signaled_, lock_>>

-----------------------------------------------------------------------------
(* WaitMany                                                                *)

\* Mutant: the array is not sorted.
NthWaitable_Unsorted(t, n) == raw_waitables[t][n + 1]

\* waitables[n]: the array sorted by address.
NthWaitable(t, n) ==
    LET S == Range(raw_waitables[t])
    IN  CHOOSE e \in S : Cardinality({f \in S : f < e}) = n

IndexOf(t, e) == CHOOSE i \in DOMAIN raw_waitables[t] : raw_waitables[t][i] = e

WaitMany(t, events) ==
    /\ Enter(t, "locking", events, "many")
    /\ UNCHANGED <<kernel, waiter, owed>>

\* EnqueueMany on its way down: lock the events in order until one is found
\* signaled or all are locked; then the waiter joins every wait-list, and
\* WaitMany takes the SyncWaiter's lock.  r counts the events not yet passed.
EnqueueMany(t) ==
    LET count == Len(raw_waitables[t])
        e == NthWaitable(t, idx[t])
        r == count - idx[t]
    IN
    /\ pc[t] = "locking"
    /\ Free(e)
    /\ \/ /\ signaled_[e]
          /\ AutoResets(e)
          /\ result' = [result EXCEPT ![t] = IndexOf(t, NthWaitable(t, count - r))]
          /\ Goto(t, "unwinding")
          /\ UNCHANGED <<waiters_, lock_, idx>>
       \/ /\ ~signaled_[e]
          /\ lock_' = [lock_ EXCEPT ![e] = t]
          /\ IF r > 1
               THEN /\ idx' = [idx EXCEPT ![t] = @ + 1]
                    /\ UNCHANGED <<waiters_, pc>>
               ELSE /\ waiters_' = [f \in Events |->
                           IF f \in Range(raw_waitables[t]) THEN Append(waiters_[f], t)
                                                        ELSE waiters_[f]]
                    /\ Goto(t, "releasing")
                    /\ UNCHANGED idx
          /\ UNCHANGED <<signaled_, result>>
    /\ UNCHANGED <<waiter, raw_waitables, mode, owed>>

\* EnqueueMany on its way back with r # 0: the locks are released, and
\* WaitMany returns the index it worked out from r.
Unwind(t) ==
    /\ pc[t] = "unwinding"
    /\ IF idx[t] > 0
         THEN /\ lock_' = [lock_ EXCEPT ![NthWaitable(t, idx[t] - 1)] = NoThread]
              /\ idx' = [idx EXCEPT ![t] = @ - 1]
              /\ UNCHANGED <<waiter, pc, raw_waitables, mode, result, owed>>
         ELSE /\ Paid(raw_waitables[t][result[t]])
              /\ Return(t)
              /\ UNCHANGED lock_
    /\ UNCHANGED <<signaled_, waiters_>>

\* WaitMany releases the events' locks in reverse order.
ReleaseMany(t) ==
    /\ pc[t] = "releasing"
    /\ lock_' = [lock_ EXCEPT ![NthWaitable(t, idx[t])] = NoThread]
    /\ IF idx[t] > 0
         THEN /\ idx' = [idx EXCEPT ![t] = @ - 1]
              /\ UNCHANGED pc
         ELSE /\ Goto(t, "armed")
              /\ UNCHANGED idx
    /\ UNCHANGED <<signaled_, waiters_, waiter, raw_waitables, mode, result, owed>>

\* Mutant: the waiter leaves only the list of the event that fired.
DequeueMany_KeepsOthers(t) ==
    LET e == signaling_event_[t] IN
    /\ pc[t] = "dequeueMany"
    /\ Paid(e)
    /\ Return(t)
    /\ UNCHANGED kernel

\* WaitMany's last loop: leave every wait-list but that of the signaling
\* event, which has dropped the waiter itself.
DequeueMany(t) ==
    LET e == raw_waitables[t][idx[t] + 1]
        index == IF e = signaling_event_[t] THEN idx[t] + 1 ELSE result[t]
    IN
    /\ pc[t] = "dequeueMany"
    /\ IF e = signaling_event_[t]
         THEN UNCHANGED waiters_
         ELSE /\ Free(e)
              /\ waiters_' = [waiters_ EXCEPT ![e] = RemoveFirst(@, t)]
    /\ IF idx[t] + 1 = Len(raw_waitables[t])
         THEN /\ Paid(raw_waitables[t][index])
              /\ Return(t)
         ELSE /\ idx' = [idx EXCEPT ![t] = @ + 1]
              /\ result' = [result EXCEPT ![t] = index]
              /\ UNCHANGED <<waiter, pc, raw_waitables, mode, owed>>
    /\ UNCHANGED <<signaled_, lock_>>

-----------------------------------------------------------------------------
\* The calls threads make.
Call(t) ==
    \/ \E e \in Events : \/ Reset(t, e)
                         \/ IsSignaled(t, e)
                         \/ Signal(t, e)
                         \/ \E how \in {"wait", "timed"} : TimedWait(t, e, how)
    \/ \E events \in RawArrays : WaitMany(t, events)

\* What a thread in a call does next by itself.
Proceed(t) ==
    \/ SignalOne(t) \/ SignalAll(t)
    \/ CheckFired(t) \/ Dequeue(t)
    \/ EnqueueMany(t) \/ Unwind(t) \/ ReleaseMany(t) \/ DequeueMany(t)

Next ==
    \E t \in Threads : Call(t) \/ Proceed(t) \/ EndTimePasses(t) \/ SpuriousWakeup(t)

Spec == Init /\ [][Next]_vars

\* Runnable threads run and time passes.  Nothing is assumed about who gets a
\* contended lock, about callers, or about spurious wakeups.
FairSpec ==
    /\ Spec
    /\ \A t \in Threads : WF_vars(Proceed(t)) /\ WF_vars(EndTimePasses(t))

-----------------------------------------------------------------------------
(* Properties                                                              *)

\* The caller has been, or is about to be, told that e was signaled.
Served(e) ==
    {t \in Threads :
        \/ signaling_event_[t] = e
        \/ pc[t] = "unwinding" /\ raw_waitables[t][result[t]] = e}

\* Whoever has the event's lock is in the middle of SignalOne.
MidSignal(e) ==
    \E t \in Threads : lock_[e] = t /\ pc[t] \in {"signalOne", "popRefused"}

\* A signal of an auto-reset event is neither lost nor doubled: it makes one
\* call return it, or stays in signaled_.  A wait that times out while Signal()
\* is walking the list, or a WaitMany that several events fire at once, takes
\* no signal it does not report.
SignalConserved ==
    \A e \in AutoReset :
        owed[e] = (IF signaled_[e] THEN 1 ELSE 0)
                  + Cardinality(Served(e))
                  + (IF MidSignal(e) THEN 1 ELSE 0)

\* Nobody is left asleep on a signaled event: an event that is signaled has an
\* empty wait-list.
SignaledMeansNoWaiters ==
    \A e \in Events : signaled_[e] => waiters_[e] = <<>>

\* The part of e's wait-list that Signal() has still to look at.
Unvisited(e) ==
    LET done == IF Free(e) THEN 0
                ELSE CASE pc[lock_[e]] = "signalAll" -> idx[lock_[e]]
                       [] pc[lock_[e]] \in {"popWoken", "popRefused"} -> 1
                       [] OTHER -> 0
    IN  {i \in DOMAIN waiters_[e] : i > done}

\* Signal() never calls Fire() on a SyncWaiter that has gone out of scope, nor
\* on one of a later wait for other events at the same address.
NoDanglingWaiter ==
    \A e \in Events : \A i \in Unvisited(e) :
        LET w == waiters_[e][i] IN
        /\ pc[w] \in {"releasing", "armed", "blocked", "awake", "dequeue", "dequeueMany"}
        /\ e \in Range(raw_waitables[w])

\* The wait-lists hold those who wait, and nobody else.
WaitListsSound == TypeOK /\ SignaledMeansNoWaiters /\ NoDanglingWaiter

\* A thread inside a call that could do nothing if it ran: asleep for its event,
\* or in want of a lock that somebody holds, the kernel's of an event or, for
\* Fire(), a SyncWaiter's.
Stuck(t) ==
    LET e == raw_waitables[t][1]
        next == raw_waitables[t][idx[t] + 1]
    IN
    \/ pc[t] = "blocked"
    \/ pc[t] = "signalOne" /\ waiters_[e] # <<>> /\ HoldsWaiterLock(Head(waiters_[e]))
    \/ pc[t] = "signalAll" /\ idx[t] # Len(waiters_[e]) /\ HoldsWaiterLock(waiters_[e][idx[t] + 1])
    \/ pc[t] = "dequeue" /\ ~Free(e)
    \/ pc[t] = "locking" /\ ~Free(NthWaitable(t, idx[t]))
    \/ pc[t] = "dequeueMany" /\ next # signaling_event_[t] /\ ~Free(next)

\* Waiting for events in order of address, and never for an event's lock while
\* holding a SyncWaiter's, no set of threads blocks itself: when a thread is
\* inside a call, other than asleep for its event, some thread can go on.
NotAllStuck ==
    (\E t \in Threads : pc[t] \notin {"idle", "blocked"})
        => \E t \in Threads : pc[t] # "idle" /\ ~Stuck(t)

\* The locks never gridlock, and a thread has nothing to wait for but the locks
\* that Stuck names: one that wants none of them can take its next step.
NoGridlock ==
    /\ NotAllStuck
    /\ \A t \in Threads : pc[t] # "idle" /\ ~Stuck(t) => ENABLED Proceed(t)

\* When the calls dry up, everything settles: timed waits have returned, and a
\* thread still in a wait was not fired and waits for events not signaled.
Settles ==
    <>[][\A t \in Threads : pc[t] = "idle" => pc'[t] = "idle"]_vars
      => <>[](\A t \in Threads :
                 \/ pc[t] = "idle"
                 \/ /\ pc[t] \in {"blocked", "awake"}
                    /\ mode[t] \in {"wait", "many"}
                    /\ ~fired_[t]
                    /\ \A e \in Range(raw_waitables[t]) : ~signaled_[e])
=============================================================================
