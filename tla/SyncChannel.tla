---------------------------- MODULE SyncChannel ----------------------------
(***************************************************************************)
(* Synchronous IPC (ipc/ipc_sync_channel.cc).                              *)
(*                                                                         *)
(* A SyncChannel end belongs to a listener thread, which blocks in Send    *)
(* until the reply comes, and to the IPC thread of its process, which      *)
(* receives messages.  A blocked listener thread still dispatches the      *)
(* synchronous messages that arrive, from any of its channels, because     *)
(* their senders may be who it waits for; their handlers may Send again,   *)
(* and so on.  Replies therefore arrive in any order, while a Send can     *)
(* return only when it is on top of the thread's stack.                    *)
(*                                                                         *)
(* One thread's channels share one ReceivedSyncMsgQueue.  The IPC thread   *)
(* puts a message into it under a lock, then sets an event, then posts a   *)
(* task; the listener thread empties it while blocked, when the task runs  *)
(* or when a watcher of the event is called.                               *)
(*                                                                         *)
(* Not modelled: asynchronous messages and message filters, the pumping of *)
(* a nested message loop while blocked, the shutdown event, the deletion   *)
(* of a channel while it is in use.                                        *)
(***************************************************************************)
EXTENDS Integers, Sequences, FiniteSets, SequencesExt

CONSTANTS
    Threads,        \* listener threads, each in a process of its own
    Channels,       \* ends of channels
    Ends,           \* per listener thread: its ends, in the order of their creation
    Peer,           \* the other end
    Restricted,     \* ends with SetRestrictDispatchToSameChannel(true)
    Timed,          \* ends that send with a timeout
    Delaying,       \* ends whose requests may be answered later
    Budgets,        \* how often each end may Send: one of these
    Mortal,         \* threads whose process may die
    None

ASSUME ChannelAssumption ==
    /\ Ends \in [Threads -> Seq(Channels)]
    /\ \A c \in Channels : \E p \in Threads : \A q \in Threads : c \in Range(Ends[q]) <=> q = p
    /\ Peer \in [Channels -> Channels]
    /\ \A c \in Channels : Peer[Peer[c]] = c
    /\ Restricted \subseteq Channels /\ Timed \subseteq Channels
    /\ Delaying \subseteq Channels /\ Budgets \subseteq [Channels -> Nat] /\ Mortal \subseteq Threads

\* None is no call of QueueMessage.
ASSUME NoneAssumption == None \notin [end : Channels, post : BOOLEAN]

VARIABLES
    deserializers_,    \* per end: the Sends under way, the last one innermost
    message_queue_,    \* per thread: synchronous messages to dispatch
    received_replies_, \* per thread: replies whose Send was not the innermost
    dispatch_event_,   \* per thread: set when a message was queued
    task_pending_,     \* per thread: DispatchMessagesTask is posted
    watching,          \* per thread: the ends whose watcher waits for the event
    loop,              \* per thread: the tasks of its message loop
    stack,             \* per thread: what runs, the innermost call first
    ipc,               \* per process: the call of QueueMessage the IPC thread is in
    dispatchReplies,   \* per process: posted DispatchReplies tasks
    wire,              \* per end: the messages on their way to it
    owed,              \* per thread: requests handled and not yet answered
    budget,            \* per end: the calls of Send left
    dead               \* threads whose process died

vars == <<deserializers_, message_queue_, received_replies_, dispatch_event_,
          task_pending_, watching, loop, stack, ipc, dispatchReplies, wire, owed,
          budget, dead>>
queueVars == <<message_queue_, dispatch_event_, task_pending_, watching, loop, ipc>>

Owner == [c \in Channels |-> CHOOSE p \in Threads : c \in Range(Ends[p])]

\* Messages, with the id of the request they are or answer.
Request(id) == [type |-> "request", id |-> id]
Reply(id) == [type |-> "reply", id |-> id]

\* Frames of a listener thread's stack.
Handler(c, id) == [call |-> "OnDispatchMessage", end |-> c, id |-> id]
Dispatch(c) == [call |-> "DispatchMessages", end |-> c, delayed |-> <<>>]
Wait(c, id) == [call |-> "WaitForReply", end |-> c, id |-> id]

Top(p) == Head(stack[p])
InCall(p, call) == p \notin dead /\ stack[p] # <<>> /\ Top(p).call = call
\* The thread runs the program's own code.
InProgram(p) == p \notin dead /\ (stack[p] # <<>> => Top(p).call = "OnDispatchMessage")
Deliver(c, m) == IF Owner[c] \in dead THEN wire ELSE [wire EXCEPT ![c] = Append(@, m)]

---------------------------------------------------------------------------
(* The listener thread. *)

\* To a restricted end a program sends only what no handler waits for: restriction is
\* for channels "where such loops are not possible".
\* SendWithTimeout: Push, ChannelProxy::Send, then WaitForReply, which first
\* dispatches what is queued.
Send(c) ==
    LET p == Owner[c] IN
    /\ InProgram(p)
    /\ Peer[c] \in Restricted => stack[p] = <<>>
    /\ budget[c] > 0
    /\ budget' = [budget EXCEPT ![c] = @ - 1]
    /\ deserializers_' = [deserializers_ EXCEPT ![c] =
                              Append(@, [id |-> budget[c], done |-> FALSE])]
    /\ wire' = Deliver(Peer[c], Request(budget[c]))
    /\ stack' = [stack EXCEPT ![p] = <<Dispatch(c), Wait(c, budget[c])>> \o @]
    /\ UNCHANGED <<queueVars, received_replies_, dispatchReplies, owed, dead>>

\* One turn of the loop in DispatchMessages: a message for a restricted end other
\* than the one that dispatches is put aside until the queue is empty.
DispatchMessages(p) ==
    /\ InCall(p, "DispatchMessages")
    /\ LET q == message_queue_[p]
           rest == Tail(stack[p])
           aside == q[1].end \in Restricted /\ q[1].end # Top(p).end
       IN IF q = <<>>
          THEN /\ message_queue_' = [message_queue_ EXCEPT ![p] = Top(p).delayed]
               /\ stack' = [stack EXCEPT ![p] = rest]
          ELSE /\ message_queue_' = [message_queue_ EXCEPT ![p] = Tail(@)]
               /\ stack' = [stack EXCEPT ![p] =
                      IF aside
                      THEN <<[Top(p) EXCEPT !.delayed = Append(@, q[1])]>> \o rest
                      ELSE <<Handler(q[1].end, q[1].id)>> \o @]
    /\ UNCHANGED <<dispatch_event_, task_pending_, watching, loop, ipc, deserializers_,
                   received_replies_, dispatchReplies, wire, owed, budget, dead>>

\* WaitMany returns the dispatch event.
WaitDispatches(p) ==
    /\ InCall(p, "WaitForReply")
    /\ dispatch_event_[p]
    /\ dispatch_event_' = [dispatch_event_ EXCEPT ![p] = FALSE]
    /\ stack' = [stack EXCEPT ![p] = <<Dispatch(Top(p).end)>> \o @]
    /\ UNCHANGED <<message_queue_, task_pending_, watching, loop, ipc, deserializers_,
                   received_replies_, dispatchReplies, wire, owed, budget, dead>>

\* Mutant: the outermost Send is popped.
Pop_Front(p) ==
    /\ InCall(p, "WaitForReply")
    /\ LET c == Top(p).end IN
       /\ Last(deserializers_[c]).done
       /\ deserializers_' = [deserializers_ EXCEPT ![c] = Tail(@)]
    /\ dispatchReplies' = [dispatchReplies EXCEPT ![p] = @ + 1]
    /\ stack' = [stack EXCEPT ![p] = Tail(@)]
    /\ UNCHANGED <<queueVars, received_replies_, wire, owed, budget, dead>>

\* WaitMany returns the done event: Pop, and Send returns.
Pop(p) ==
    /\ InCall(p, "WaitForReply")
    /\ LET c == Top(p).end IN
       /\ Last(deserializers_[c]).done
       /\ deserializers_' = [deserializers_ EXCEPT ![c] = Front(@)]
    /\ dispatchReplies' = [dispatchReplies EXCEPT ![p] = @ + 1]
    /\ stack' = [stack EXCEPT ![p] = Tail(@)]
    /\ UNCHANGED <<queueVars, received_replies_, wire, owed, budget, dead>>

\* A handler answers its request, or leaves the answer to any thread of its process.
AnswerRequest(p) ==
    /\ InCall(p, "OnDispatchMessage")
    /\ wire' = Deliver(Peer[Top(p).end], Reply(Top(p).id))
    /\ stack' = [stack EXCEPT ![p] = Tail(@)]
    /\ UNCHANGED <<queueVars, deserializers_, received_replies_, dispatchReplies, owed,
                   budget, dead>>
DelayAnswer(p) ==
    /\ InCall(p, "OnDispatchMessage") /\ Top(p).end \in Delaying
    /\ owed' = [owed EXCEPT ![p] = @ \cup {[end |-> Top(p).end, id |-> Top(p).id]}]
    /\ stack' = [stack EXCEPT ![p] = Tail(@)]
    /\ UNCHANGED <<queueVars, deserializers_, received_replies_, dispatchReplies, wire,
                   budget, dead>>
AnswerLater(p) ==
    /\ p \notin dead
    /\ \E r \in owed[p] : /\ owed' = [owed EXCEPT ![p] = @ \ {r}]
                          /\ wire' = Deliver(Peer[r.end], Reply(r.id))
    /\ UNCHANGED <<queueVars, deserializers_, received_replies_, dispatchReplies, stack,
                   budget, dead>>

\* The message loop runs DispatchMessagesTask, or OnWaitableEventSignaled of the
\* watcher of an end, which resets the event and watches it again.
RunTask(p) ==
    /\ p \notin dead
    /\ stack[p] = <<>>
    /\ loop[p] # <<>>
    /\ LET task == Head(loop[p]) IN
       /\ loop' = [loop EXCEPT ![p] = Tail(@)]
       /\ stack' = [stack EXCEPT ![p] = <<Dispatch(task.end)>>]
       /\ IF task.watcher
          THEN /\ dispatch_event_' = [dispatch_event_ EXCEPT ![p] = FALSE]
               /\ watching' = [watching EXCEPT ![p] = Append(@, task.end)]
               /\ UNCHANGED task_pending_
          ELSE /\ task_pending_' = [task_pending_ EXCEPT ![p] = FALSE]
               /\ UNCHANGED <<dispatch_event_, watching>>
    /\ UNCHANGED <<message_queue_, ipc, deserializers_, received_replies_,
                   dispatchReplies, wire, owed, budget, dead>>

---------------------------------------------------------------------------
(* The IPC thread. *)

\* Mutant: the outermost Send is looked at.
Matches_Front(c, id) == deserializers_[c] # <<>> /\ Head(deserializers_[c]).id = id

\* The innermost Send of the end waits for this reply.
Matches(c, id) == deserializers_[c] # <<>> /\ Last(deserializers_[c]).id = id
\* The queued replies that some Send now waits for, by their index.
Ready(p) == {i \in DOMAIN received_replies_[p] :
                 Matches(received_replies_[p][i].end, received_replies_[p][i].id)}
\* TryToUnblockListener, when it returns true.
Unblock(c) == [deserializers_ EXCEPT ![c][Len(deserializers_[c])].done = TRUE]

\* OnMessageReceived, with the locked part of QueueMessage.
OnMessageReceived(c) ==
    LET p == Owner[c]
        m == Head(wire[c])
    IN
    /\ ipc[p] = None
    /\ wire[c] # <<>>
    /\ wire' = [wire EXCEPT ![c] = Tail(@)]
    /\ IF m.type = "request"
       THEN /\ message_queue_' = [message_queue_ EXCEPT ![p] =
                                      Append(@, [end |-> c, id |-> m.id])]
            /\ ipc' = [ipc EXCEPT ![p] = [end |-> c, post |-> ~task_pending_[p]]]
            /\ task_pending_' = [task_pending_ EXCEPT ![p] = TRUE]
            /\ UNCHANGED <<deserializers_, received_replies_>>
       ELSE /\ IF Matches(c, m.id)
               THEN deserializers_' = Unblock(c) /\ UNCHANGED received_replies_
               ELSE /\ received_replies_' = [received_replies_ EXCEPT ![p] =
                                                 Append(@, [end |-> c, id |-> m.id])]
                    /\ UNCHANGED deserializers_
            /\ UNCHANGED <<message_queue_, ipc, task_pending_>>
    /\ UNCHANGED <<dispatch_event_, watching, loop, stack, dispatchReplies, owed, budget,
                   dead>>

\* Mutant: the event is set only when the task is posted.
SignalDispatchEvent_WithTask(p) ==
    /\ ipc[p] # None
    /\ ipc' = [ipc EXCEPT ![p] = None]
    /\ IF ipc[p].post
       THEN /\ dispatch_event_' = [dispatch_event_ EXCEPT ![p] = TRUE]
            /\ watching' = [watching EXCEPT ![p] = <<>>]
            /\ loop' = [loop EXCEPT ![p] = @ \o
                   [i \in DOMAIN watching[p] |-> [watcher |-> TRUE, end |-> watching[p][i]]]
                   \o <<[watcher |-> FALSE, end |-> ipc[p].end]>>]
       ELSE UNCHANGED <<dispatch_event_, watching, loop>>
    /\ UNCHANGED <<message_queue_, task_pending_, deserializers_, received_replies_, stack,
                   dispatchReplies, wire, owed, budget, dead>>

\* The rest of QueueMessage: the event is set, which calls every watcher of it, and
\* the task is posted unless one was.
SignalDispatchEvent(p) ==
    /\ ipc[p] # None
    /\ dispatch_event_' = [dispatch_event_ EXCEPT ![p] = TRUE]
    /\ watching' = [watching EXCEPT ![p] = <<>>]
    /\ loop' = [loop EXCEPT ![p] = @ \o
           [i \in DOMAIN watching[p] |-> [watcher |-> TRUE, end |-> watching[p][i]]] \o
           IF ipc[p].post THEN <<[watcher |-> FALSE, end |-> ipc[p].end]>> ELSE <<>>]
    /\ ipc' = [ipc EXCEPT ![p] = None]
    /\ UNCHANGED <<message_queue_, task_pending_, deserializers_, received_replies_, stack,
                   dispatchReplies, wire, owed, budget, dead>>

\* The task Pop posts: the first reply that some Send now waits for unblocks it.
DispatchReplies(p) ==
    /\ ipc[p] = None
    /\ dispatchReplies[p] > 0
    /\ dispatchReplies' = [dispatchReplies EXCEPT ![p] = @ - 1]
    /\ LET q == received_replies_[p]
       IN IF Ready(p) = {} THEN UNCHANGED <<received_replies_, deserializers_>>
          ELSE /\ received_replies_' = [received_replies_ EXCEPT ![p] = RemoveAt(@, Min(Ready(p)))]
               /\ deserializers_' = Unblock(q[Min(Ready(p))].end)
    /\ UNCHANGED <<queueVars, stack, wire, owed, budget, dead>>

\* OnSendTimeout, for any of the Sends under way.
OnSendTimeout(c) ==
    /\ ipc[Owner[c]] = None
    /\ c \in Timed
    /\ \E i \in DOMAIN deserializers_[c] :
           /\ ~deserializers_[c][i].done
           /\ deserializers_' = [deserializers_ EXCEPT ![c][i].done = TRUE]
    /\ UNCHANGED <<queueVars, received_replies_, stack, dispatchReplies, wire, owed, budget,
                   dead>>

\* OnChannelError, after what the other end had sent: the Sends under way fail.
CancelPendingSends(c) ==
    /\ ipc[Owner[c]] = None
    /\ Owner[Peer[c]] \in dead /\ wire[c] = <<>>
    /\ \E i \in DOMAIN deserializers_[c] : ~deserializers_[c][i].done
    /\ deserializers_' = [deserializers_ EXCEPT ![c] =
           [i \in DOMAIN @ |-> [@[i] EXCEPT !.done = TRUE]]]
    /\ UNCHANGED <<queueVars, received_replies_, stack, dispatchReplies, wire, owed, budget,
                   dead>>

\* A process dies, with all it had received; what it had sent still arrives.
Crash(p) ==
    /\ p \notin dead
    /\ p \in Mortal
    /\ dead' = dead \cup {p}
    /\ deserializers_' = [c \in Channels |-> IF Owner[c] = p THEN <<>> ELSE deserializers_[c]]
    /\ wire' = [c \in Channels |-> IF Owner[c] = p THEN <<>> ELSE wire[c]]
    /\ message_queue_' = [message_queue_ EXCEPT ![p] = <<>>]
    /\ received_replies_' = [received_replies_ EXCEPT ![p] = <<>>]
    /\ dispatch_event_' = [dispatch_event_ EXCEPT ![p] = FALSE]
    /\ task_pending_' = [task_pending_ EXCEPT ![p] = FALSE]
    /\ watching' = [watching EXCEPT ![p] = <<>>]
    /\ loop' = [loop EXCEPT ![p] = <<>>]
    /\ stack' = [stack EXCEPT ![p] = <<>>]
    /\ ipc' = [ipc EXCEPT ![p] = None]
    /\ dispatchReplies' = [dispatchReplies EXCEPT ![p] = 0]
    /\ owed' = [owed EXCEPT ![p] = {}]
    /\ UNCHANGED budget

---------------------------------------------------------------------------
Init ==
    /\ deserializers_ = [c \in Channels |-> <<>>]
    /\ message_queue_ = [p \in Threads |-> <<>>]
    /\ received_replies_ = [p \in Threads |-> <<>>]
    /\ dispatch_event_ = [p \in Threads |-> FALSE]
    /\ task_pending_ = [p \in Threads |-> FALSE]
    /\ watching = Ends
    /\ loop = [p \in Threads |-> <<>>]
    /\ stack = [p \in Threads |-> <<>>]
    /\ ipc = [p \in Threads |-> None]
    /\ dispatchReplies = [p \in Threads |-> 0]
    /\ wire = [c \in Channels |-> <<>>]
    /\ owed = [p \in Threads |-> {}]
    /\ budget \in Budgets
    /\ dead = {}

Listener(p) ==
    \/ DispatchMessages(p)
    \/ WaitDispatches(p)
    \/ Pop(p)
    \/ AnswerRequest(p)
    \/ AnswerLater(p)
    \/ RunTask(p)

IpcThread(p) ==
    \/ \E c \in Range(Ends[p]) : OnMessageReceived(c) \/ CancelPendingSends(c)
    \/ SignalDispatchEvent(p)
    \/ DispatchReplies(p)

Next ==
    \/ \E p \in Threads : Listener(p) \/ IpcThread(p) \/ DelayAnswer(p) \/ Crash(p)
    \/ \E c \in Channels : Send(c) \/ OnSendTimeout(c)

Spec == Init /\ [][Next]_vars

(***************************************************************************)
(* Some thread runs while one can, and a program answers every request it  *)
(* got in the end.  No fairness for timeouts, crashes or new Sends.        *)
(***************************************************************************)
Progress == \E p \in Threads : Listener(p) \/ IpcThread(p)
FairSpec == Spec /\ WF_vars(Progress)

---------------------------------------------------------------------------
(* Properties. *)

TypeOK ==
    /\ \A c \in Channels : \A i \in DOMAIN deserializers_[c] :
           deserializers_[c][i] \in [id : Nat, done : BOOLEAN]
    /\ dispatch_event_ \in [Threads -> BOOLEAN] /\ task_pending_ \in [Threads -> BOOLEAN]
    /\ \A p \in Threads : ToSet(watching[p]) \subseteq ToSet(Ends[p])
    /\ \A p \in Threads : \A i \in DOMAIN stack[p] :
           stack[p][i].call \in {"OnDispatchMessage", "DispatchMessages", "WaitForReply"}
    /\ dispatchReplies \in [Threads -> Nat] /\ dead \subseteq Mortal

\* The frame f is the wait of a Send of end c.
WaitsOn(f, c) == f.call = "WaitForReply" /\ f.end = c

\* How many of them there are on the stack s at i and further out.
Depth(s, c, i) == Cardinality({j \in i..Len(s) : WaitsOn(s[j], c)})

\* A call of WaitForReply waits for the last entry of deserializers_, whichever that is
\* when it looks.  It is its own: the Sends of an end under way are those the listener
\* thread's stack waits in, in the order of the stack ("it works like calling a function").
SendsNest ==
    /\ TypeOK
    /\ \A c \in Channels :
           LET s == stack[Owner[c]] IN
           /\ Depth(s, c, 1) = Len(deserializers_[c])
           /\ \A i \in DOMAIN s : WaitsOn(s[i], c) =>
                 s[i].id = deserializers_[c][Depth(s, c, i)].id

\* A reply that came while an inner Send blocked the thread: as soon as its Send is the
\* innermost of its end there is a task for each such reply.
QueuedReplyIsFound ==
    \A p \in Threads : Cardinality(Ready(p)) <= dispatchReplies[p]

\* While the thread blocks in Send, a message in the queue that it may dispatch has the
\* event set, or about to be set by the IPC thread; and when it runs its message loop, a
\* message in the queue has a task.
QueuedMessageIsSeen ==
    \A p \in Threads : message_queue_[p] # <<>> /\ ipc[p] = None =>
        /\ InCall(p, "WaitForReply") =>
               \/ dispatch_event_[p]
               \/ \A i \in DOMAIN message_queue_[p] :
                      message_queue_[p][i].end \in Restricted \ {Top(p).end}
        /\ stack[p] = <<>> => loop[p] # <<>>

\* No reply and no message is forgotten in the queues that the threads share ("it sets
\* an event that the listener thread waits on during its Send() call").
NothingOverlooked == QueuedReplyIsFound /\ QueuedMessageIsSeen

\* Every Send returns, however calls nest, whichever end dies, whatever was put aside.
EverySendReturns == <>[](\A c \in Channels : deserializers_[c] = <<>>)
=============================================================================
