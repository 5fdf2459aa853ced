---------------------------- MODULE CommandBuffer ----------------------------
(***************************************************************************)
(* The GPU command buffer, from end to end: the CommandBufferHelper and    *)
(* the CommandBufferProxy of the client process, the ring of shared        *)
(* memory, the IPC channel, and in the GPU process the                     *)
(* GpuCommandBufferStub, CommandBufferService, GpuScheduler and            *)
(* CommandParser of one context.                                           *)
(*                                                                         *)
(* The client writes commands at put_ and tells the service how far it has *)
(* got by messages; the service executes them at parser_get and tells the  *)
(* client by replies and by UpdateState messages, which may arrive out of  *)
(* order.  Both run at the same time on the same memory.  The content of   *)
(* an entry is forgotten once it is executed: nobody may read it again.    *)
(***************************************************************************)
EXTENDS Integers, SequencesExt

CONSTANTS
    Commands,           \* [kind, size, arg] the client issues, but SetToken
    TotalEntries,       \* total_entry_count_, the size of the ring
    TokenLimit,         \* tokens are numbers below it (2^31 in the code)
    CommandsPerUpdate,  \* commands_per_update_
    MayFail,            \* whether contexts get lost, commands fail, processes die
    MaxPipeline,        \* bound: messages under way when the client makes a call
    MaxTasks            \* bound: tasks of one sort queued when a message is served

JumpEntries == 2        \* sizeof(cmd::Jump) in entries
UsableEntries == TotalEntries - JumpEntries

ASSUME RingAssumption == TotalEntries \in Nat /\ UsableEntries > 2
ASSUME TokenAssumption == TokenLimit \in Nat /\ TokenLimit > 1
ASSUME MayFailAssumption == MayFail \in BOOLEAN
ASSUME CommandsAssumption ==
    \A c \in Commands : /\ c.size \in 1..(UsableEntries - 1)
                        /\ c.kind \in {"draw", "yield", "resize", "waitLatch"}

VARIABLES
    \* CommandBufferHelper
    put_, get_, last_put_sent_, token_, last_token_read_,
    cpc,            \* where the client's thread is
    loop,           \* which loop around FlushSync it is in
    want,           \* the command to be placed, or the SetToken waited for
    \* CommandBufferProxy
    last_state_,
    \* shared memory and IPC
    ring, channel, inflight,
    \* CommandBufferService, CommandParser and GpuScheduler
    parser_get, parser_put, service_token, error_,
    spc, processed, unscheduled_count_, tasks, reports,
    latch, latched,
    alive           \* the GPU process and its channel

helper == <<put_, get_, last_put_sent_, token_, last_token_read_>>
client == <<cpc, loop, want>>
parser == <<parser_get, parser_put, service_token, error_>>
scheduler == <<spc, processed, unscheduled_count_, tasks, reports, latch, latched>>
vars == <<put_, get_, last_put_sent_, token_, last_token_read_, cpc, loop, want,
          last_state_, ring, channel, inflight, parser_get, parser_put,
          service_token, error_, spc, processed, unscheduled_count_, tasks,
          reports, latch, latched, alive>>

Tokens == 0..(TokenLimit - 1)
SetToken(t) == [kind |-> "setToken", size |-> 2, arg |-> t]
Jump == [kind |-> "jump", size |-> JumpEntries, arg |-> 0]
Noop == [kind |-> "noop", size |-> 0, arg |-> 0]
Issued == Commands \cup {SetToken(t) : t \in Tokens}

Offsets == 0..(TotalEntries - 1)
Empty == [cmd |-> Noop, part |-> 0]     \* an entry of no further interest
Entry == [cmd : Issued \cup {Jump, Noop}, part : 0..UsableEntries]

\* CommandBuffer::State, without its generation: see inflight.
State == [get : Offsets, token : Tokens, error : BOOLEAN]

(***************************************************************************)
(* Messages to the service, in order: a synchronous Flush or GetState is   *)
(* the last one, for its sender waits.                                     *)
(***************************************************************************)
Message == [kind : {"flush", "asyncFlush", "getState"}, put : Nat, get : Nat]

(***************************************************************************)
(* States on their way to the client, in the order GetState() numbered     *)
(* them by generation.  stale says that the client has since taken over a  *)
(* state with a higher generation.                                         *)
(***************************************************************************)
Update == [kind : {"update", "reply"}, state : State, stale : BOOLEAN]

TypeOK ==
    /\ put_ \in Nat /\ get_ \in Offsets /\ last_put_sent_ \in Nat
    /\ token_ \in Tokens /\ last_token_read_ \in Tokens
    /\ cpc \in {"idle", "run", "sync", "unchecked", "fatal"}
    /\ loop \in {"room", "finishFirst", "finish", "token", "error"}
    /\ want \in Issued \cup {Noop}
    /\ last_state_ \in State
    /\ ring \in [Offsets -> Entry]
    /\ channel \in Seq(Message)
    /\ inflight \in Seq(Update)
    /\ parser_get \in Offsets /\ parser_put \in Offsets
    /\ service_token \in Tokens /\ error_ \in BOOLEAN
    /\ spc \in {"idle", "task", "sync"}
    /\ processed \in 0..(CommandsPerUpdate - 1)
    /\ unscheduled_count_ \in 0..1
    /\ tasks \in 0..(MaxTasks + 2) /\ reports \in 0..MaxTasks
    /\ latch \in BOOLEAN /\ latched \in BOOLEAN
    /\ alive \in BOOLEAN

Init ==
    /\ put_ = 0 /\ get_ = 0 /\ last_put_sent_ = 0
    /\ token_ = 0 /\ last_token_read_ = 0
    /\ cpc = "idle" /\ loop = "room" /\ want = Noop
    /\ last_state_ = [get |-> 0, token |-> 0, error |-> FALSE]
    /\ ring = [i \in Offsets |-> Empty]
    /\ channel = <<>> /\ inflight = <<>>
    /\ parser_get = 0 /\ parser_put = 0 /\ service_token = 0 /\ error_ = FALSE
    /\ spc = "idle" /\ processed = 0 /\ unscheduled_count_ = 0
    /\ tasks = 0 /\ reports = 0
    /\ latch = FALSE /\ latched = FALSE
    /\ alive = TRUE

-----------------------------------------------------------------------------
(* CommandBufferProxy                                                      *)

\* Send of an asynchronous message; it fails when the GPU process is gone, and
\* the proxy then flags the context as lost.
SendAsyncFlush ==
    \/ /\ alive
       /\ channel' = Append(channel, [kind |-> "asyncFlush", put |-> put_, get |-> 0])
       /\ UNCHANGED last_state_
    \/ /\ ~alive
       /\ last_state_' = [last_state_ EXCEPT !.error = TRUE]
       /\ UNCHANGED channel

\* OnUpdateState: older generations than the current one are ignored.
OnUpdateState(i) ==
    LET arrived == inflight[i]
        aged == [j \in DOMAIN inflight |->
                   [inflight[j] EXCEPT !.stale = @ \/ (j < i /\ ~arrived.stale)]]
    IN
    /\ last_state_' = IF arrived.stale THEN last_state_ ELSE arrived.state
    /\ inflight' = RemoveAt(aged, i)

SynchronizeState(state) ==
    /\ get_' = state.get
    /\ last_token_read_' = state.token

\* Mutant: the caller tries again.
FlushFailed_Retries(where) == cpc' = "run"

\* FlushSync has failed: WaitForAvailableEntries returns early and GetSpace goes
\* on regardless; the others give up.
FlushFailed(where) == cpc' = IF where = "room" THEN "unchecked" ELSE "idle"

\* CommandBufferHelper::FlushSync, up to the wait for the reply.  If the proxy
\* already knows a newer get offset it only sends an asynchronous flush.
FlushSync(where) ==
    /\ loop' = where
    /\ last_put_sent_' = put_
    /\ \/ /\ last_state_.error
          /\ SynchronizeState(last_state_)
          /\ FlushFailed(where)
          /\ UNCHANGED <<channel, last_state_>>
       \/ /\ ~last_state_.error
          /\ get_ = last_state_.get
          /\ alive
          /\ channel' = Append(channel, [kind |-> "flush", put |-> put_, get |-> get_])
          /\ cpc' = "sync"
          /\ UNCHANGED <<last_state_, get_, last_token_read_>>
       \/ /\ ~last_state_.error
          /\ get_ = last_state_.get
          /\ ~alive
          /\ last_state_' = [last_state_ EXCEPT !.error = TRUE]
          /\ SynchronizeState(last_state_)
          /\ FlushFailed(where)
          /\ UNCHANGED channel
       \/ /\ ~last_state_.error
          /\ get_ # last_state_.get
          /\ SendAsyncFlush
          /\ SynchronizeState(last_state_')
          /\ IF last_state_'.error THEN FlushFailed(where) ELSE cpc' = "run"
    /\ UNCHANGED <<put_, token_, want, ring, inflight, parser, scheduler, alive>>

\* The reply to a synchronous message, which may be overtaken by a newer state.
ReceiveReply ==
    /\ cpc = "sync"
    /\ \E i \in DOMAIN inflight :
          /\ inflight[i].kind = "reply"
          /\ OnUpdateState(i)
    /\ SynchronizeState(last_state_')
    /\ IF loop = "error" THEN cpc' = "idle"
       ELSE IF last_state_'.error THEN FlushFailed(loop) ELSE cpc' = "run"
    /\ UNCHANGED <<put_, last_put_sent_, token_, loop, want, ring, channel, parser,
                   scheduler, alive>>

\* Send returns false when the channel breaks before the reply has arrived.
SyncSendFails ==
    /\ cpc = "sync"
    /\ ~alive
    /\ \A i \in DOMAIN inflight : inflight[i].kind # "reply"
    /\ last_state_' = [last_state_ EXCEPT !.error = TRUE]
    /\ SynchronizeState(last_state_)
    /\ IF loop = "error" THEN cpc' = "idle" ELSE FlushFailed(loop)
    /\ UNCHANGED <<put_, last_put_sent_, token_, loop, want, ring, channel, inflight,
                   parser, scheduler, alive>>

\* UpdateState messages are dispatched by the message loop and, having the
\* unblock flag, also while the client waits for a reply.
ReceiveUpdate ==
    /\ cpc \in {"idle", "sync"}
    /\ \E i \in DOMAIN inflight :
          /\ inflight[i].kind = "update"
          /\ OnUpdateState(i)
    /\ UNCHANGED <<helper, client, ring, channel, parser, scheduler, alive>>

\* The channel's error is dispatched after the messages that arrived before it.
\* Until then one of them may make the proxy forget that Send has failed.
OnChannelError ==
    /\ cpc = "idle"
    /\ ~alive
    /\ inflight = <<>>
    /\ ~last_state_.error
    /\ last_state_' = [last_state_ EXCEPT !.error = TRUE]
    /\ UNCHANGED <<helper, client, ring, channel, inflight, parser, scheduler, alive>>

-----------------------------------------------------------------------------
(* CommandBufferHelper                                                     *)

AvailableEntries == (get_ - put_ - 1 + UsableEntries) % UsableEntries

\* The ring with command c written at offset i.
Written(r, i, c) ==
    [j \in Offsets |-> IF j \in i..(i + c.size - 1)
                       THEN [cmd |-> c, part |-> j - i] ELSE r[j]]

\* GetSpace after the wait, and what the caller writes there.  A put_ that
\* reaches the end exactly wraps at once.
Place ==
    LET next == put_ + want.size
        filled == Written(ring, put_, want)
    IN
    /\ IF next = UsableEntries
         THEN /\ ring' = Written(filled, next, Jump)
              /\ put_' = 0
         ELSE /\ ring' = filled
              /\ put_' = next
    /\ want' = Noop
    /\ IF want = SetToken(0)
         THEN cpc' = "run" /\ loop' = "finishFirst"
         ELSE cpc' = "idle" /\ UNCHANGED loop

\* The caller asks for room.  The model stops where a failed wait has left put_
\* beyond the end: GetSpace's GPU_DCHECK_LE wants it within.
GetSpace(c) ==
    /\ cpc = "idle"
    /\ put_ <= UsableEntries
    /\ cpc' = "run" /\ loop' = "room" /\ want' = c
    /\ UNCHANGED <<put_, get_, last_put_sent_, last_token_read_, last_state_, ring,
                   channel, inflight, parser, scheduler, alive>>

IssueCommand ==
    /\ \E c \in Commands : GetSpace(c)
    /\ UNCHANGED token_

\* Mutant: the wrapped token is like any other.
InsertToken_NoFinish ==
    LET t == IF token_ + 1 = TokenLimit THEN 1 ELSE token_ + 1 IN
    /\ GetSpace(SetToken(t))
    /\ token_' = t

\* InsertToken; when the token wraps to 0, Place goes on with Finish.
InsertToken ==
    LET t == (token_ + 1) % TokenLimit IN
    /\ GetSpace(SetToken(t))
    /\ token_' = t

\* In WaitForAvailableEntries, at the top of one of its loops.
InRoom == cpc = "run" /\ loop = "room"

MustWrap == put_ + want.size > UsableEntries

\* Mutant: an offset of 0 is taken for room at the start.
MustAwaitWrap_ZeroIsFine == get_ > put_

\* put_ may go back to 0 only when get_ is behind it and not at 0 itself.
MustAwaitWrap == get_ > put_ \/ get_ = 0

\* Not enough room before the end: wait until get has wrapped and is not 0...
WaitForWrap ==
    /\ InRoom
    /\ MustWrap
    /\ MustAwaitWrap
    /\ FlushSync("room")

\* ...and then jump back to the start.
InsertJump ==
    /\ InRoom
    /\ MustWrap
    /\ ~MustAwaitWrap
    /\ ring' = Written(ring, put_, Jump)
    /\ put_' = 0
    /\ UNCHANGED <<get_, last_put_sent_, token_, last_token_read_, client, last_state_,
                   channel, inflight, parser, scheduler, alive>>

WaitForRoom ==
    /\ InRoom
    /\ ~MustWrap
    /\ AvailableEntries < want.size
    /\ FlushSync("room")

\* Flush(): nothing is sent once an error is known.
Flush ==
    /\ last_put_sent_' = put_
    /\ IF last_state_.error
         THEN UNCHANGED <<channel, last_state_>>
         ELSE SendAsyncFlush

\* There is room: WaitForAvailableEntries flushes if the buffer is getting half
\* full, or earlier if the reader seems idle, and the command is placed.
PlaceCommand ==
    LET pending == (put_ + UsableEntries - last_put_sent_) % UsableEntries
        limit == UsableEntries \div (IF get_ = last_put_sent_ THEN 16 ELSE 2)
    IN
    /\ InRoom
    /\ ~MustWrap
    /\ AvailableEntries >= want.size
    /\ IF pending > limit
         THEN Flush
         ELSE UNCHANGED <<last_put_sent_, channel, last_state_>>
    /\ Place
    /\ UNCHANGED <<get_, token_, last_token_read_, inflight, parser, scheduler, alive>>

\* The wait failed and the command is placed all the same.
PlaceUnchecked ==
    /\ cpc = "unchecked"
    /\ Place
    /\ UNCHANGED <<get_, last_put_sent_, token_, last_token_read_, last_state_,
                   channel, inflight, parser, scheduler, alive>>

CallFlush ==
    /\ cpc = "idle"
    /\ Flush
    /\ UNCHANGED <<put_, get_, token_, last_token_read_, client, ring, inflight,
                   parser, scheduler, alive>>

CallFinish ==
    /\ cpc = "idle"
    /\ cpc' = "run" /\ loop' = "finishFirst"
    /\ UNCHANGED <<helper, want, last_state_, ring, channel, inflight, parser,
                   scheduler, alive>>

Finish ==
    /\ cpc = "run"
    /\ \/ loop = "finishFirst" /\ FlushSync("finish")
       \/ loop = "finish" /\ put_ # get_ /\ FlushSync("finish")

\* Mutant: one flush is taken to be enough.
FinishReturns_OneFlush ==
    /\ cpc = "run" /\ loop = "finish"
    /\ cpc' = "idle"
    /\ UNCHANGED <<helper, loop, want, last_state_, ring, channel, inflight, parser,
                   scheduler, alive>>

FinishReturns ==
    /\ cpc = "run" /\ loop = "finish"
    /\ put_ = get_
    /\ cpc' = "idle"
    /\ UNCHANGED <<helper, loop, want, last_state_, ring, channel, inflight, parser,
                   scheduler, alive>>

\* WaitForToken; it returns at once if the token has been read or has wrapped.
CallWaitForToken(t) ==
    /\ cpc = "idle"
    /\ t <= token_
    /\ last_token_read_ < t
    /\ cpc' = "run" /\ loop' = "token" /\ want' = SetToken(t)
    /\ UNCHANGED <<helper, last_state_, ring, channel, inflight, parser, scheduler,
                   alive>>

WaitForToken ==
    /\ cpc = "run" /\ loop = "token"
    /\ last_token_read_ < want.arg
    /\ get_ # put_
    /\ FlushSync("token")

WaitForTokenEnds ==
    /\ cpc = "run" /\ loop = "token"
    /\ \/ last_token_read_ >= want.arg /\ cpc' = "idle"
       \/ last_token_read_ < want.arg /\ get_ = put_ /\ cpc' = "fatal"
    /\ want' = Noop
    /\ UNCHANGED <<helper, loop, last_state_, ring, channel, inflight, parser,
                   scheduler, alive>>

\* GetError asks for the state; a known error is reported without asking.
GetError ==
    /\ cpc = "idle"
    /\ IF last_state_.error \/ ~alive
         THEN /\ last_state_' = [last_state_ EXCEPT !.error = TRUE]
              /\ SynchronizeState(last_state_)
              /\ UNCHANGED <<cpc, loop, channel>>
         ELSE /\ channel' = Append(channel, [kind |-> "getState", put |-> 0, get |-> 0])
              /\ cpc' = "sync" /\ loop' = "error"
              /\ UNCHANGED <<last_state_, get_, last_token_read_>>
    /\ UNCHANGED <<put_, last_put_sent_, token_, want, ring, inflight, parser,
                   scheduler, alive>>

-----------------------------------------------------------------------------
(* The GPU process                                                         *)

CurrentState == [get |-> parser_get, token |-> service_token, error |-> error_]

SendState(kind, state) ==
    inflight' = Append(inflight, [kind |-> kind, state |-> state, stale |-> FALSE])

\* ProcessCommands ends.  sync: it was called from FlushSync, which replies.
EndProcessing(sync, state) ==
    /\ spc' = "idle"
    /\ processed' = 0
    /\ IF sync THEN SendState("reply", state) ELSE UNCHANGED inflight

\* ProcessCommands starts, with its early returns: an error, an unscheduled
\* context, a context that cannot be made current.
ProcessCommands(sync) ==
    \/ /\ error_ \/ unscheduled_count_ > 0 \/ parser_get = parser_put'
       /\ EndProcessing(sync, CurrentState)
       /\ UNCHANGED error_
    \/ /\ ~error_ /\ unscheduled_count_ = 0
       /\ MayFail
       /\ error_' = TRUE
       /\ EndProcessing(sync, [CurrentState EXCEPT !.error = TRUE])
    \/ /\ ~error_ /\ unscheduled_count_ = 0
       /\ parser_get # parser_put'
       /\ spc' = IF sync THEN "sync" ELSE "task"
       /\ processed' = 0
       /\ UNCHANGED <<error_, inflight>>

CanReceive(kind) ==
    /\ alive
    /\ spc = "idle"
    /\ channel # <<>>
    /\ Head(channel).kind = kind

\* OnAsyncFlush: the scheduler is told, and a report of the state is queued.
OnAsyncFlush ==
    /\ CanReceive("asyncFlush")
    /\ tasks < MaxTasks /\ reports < MaxTasks
    /\ parser_put' = Head(channel).put
    /\ channel' = Tail(channel)
    /\ tasks' = tasks + 1
    /\ reports' = reports + 1
    /\ UNCHANGED <<helper, client, last_state_, ring, inflight, parser_get,
                   service_token, error_, spc, processed, unscheduled_count_, latch,
                   latched, alive>>

\* OnFlush: commands are processed at once if the client knows the current get
\* offset; otherwise later, and the client gets that offset immediately.
OnFlush ==
    /\ CanReceive("flush")
    /\ tasks < MaxTasks
    /\ parser_put' = Head(channel).put
    /\ channel' = Tail(channel)
    /\ IF Head(channel).get = parser_get
         THEN /\ ProcessCommands(TRUE)
              /\ UNCHANGED tasks
         ELSE /\ tasks' = tasks + 1
              /\ SendState("reply", CurrentState)
              /\ UNCHANGED <<spc, processed, error_>>
    /\ UNCHANGED <<helper, client, last_state_, ring, parser_get, service_token,
                   unscheduled_count_, reports, latch, latched, alive>>

OnGetState ==
    /\ CanReceive("getState")
    /\ channel' = Tail(channel)
    /\ SendState("reply", CurrentState)
    /\ UNCHANGED <<helper, client, last_state_, ring, parser, scheduler, alive>>

ProcessCommandsTask ==
    /\ alive
    /\ spc = "idle"
    /\ tasks > 0
    /\ tasks' = tasks - 1
    /\ parser_put' = parser_put
    /\ ProcessCommands(FALSE)
    /\ UNCHANGED <<helper, client, last_state_, ring, channel, parser_get,
                   service_token, unscheduled_count_, reports, latch, latched, alive>>

ReportState ==
    /\ alive
    /\ spc = "idle"
    /\ reports > 0
    /\ reports' = reports - 1
    /\ SendState("update", CurrentState)
    /\ UNCHANGED <<helper, client, last_state_, ring, channel, parser, spc, processed,
                   unscheduled_count_, tasks, latch, latched, alive>>

\* The entries of a command that has been executed.
Consumed(at, size) ==
    ring' = [j \in Offsets |-> IF j \in at..(at + size - 1) THEN Empty ELSE ring[j]]

\* What ProcessCommand makes of the command c at the get offset.  A header of
\* size 0 or beyond the end of the ring does not reach the handler.
Outcome(c) ==
    CASE c.size = 0 \/ parser_get + c.size > TotalEntries -> {"invalid"}
      [] c.kind = "yield" -> {"yield"}
      [] OTHER -> {IF c.kind = "waitLatch" /\ ~latch THEN "waiting" ELSE "ok"}
                    \cup {o \in {"error"} : MayFail /\ c.kind \in {"draw", "waitLatch"}}

\* Where ProcessCommand leaves get_: a Jump sets it, any other command is
\* stepped over.
NextGet(c) == IF c.kind = "jump" THEN c.arg ELSE (parser_get + c.size) % TotalEntries

\* Mutant: a yield counts as a wait.
Reschedules_NotOnYield(outcome, at) == outcome = "ok" /\ at # parser_put

\* Whether ProcessCommands posts itself when it stops with the context scheduled.
Reschedules(outcome, at) == outcome \in {"ok", "yield"} /\ at # parser_put

\* One round of the loop in GpuScheduler::ProcessCommands.  The command read is
\* whatever the ring holds at the get offset.  After a command that waits for
\* a latch or for the view to be resized the context is unscheduled; after
\* anything else that ends the loop early, the rest is scheduled.
ProcessCommand ==
    LET c == ring[parser_get].cmd IN
    /\ alive
    /\ spc # "idle"
    /\ \E outcome \in Outcome(c) :
       LET stays == outcome \in {"waiting", "invalid"}
           failed == outcome \in {"error", "invalid"}
           at == IF stays THEN parser_get ELSE NextGet(c)
           away == outcome = "waiting" \/ c.kind = "resize"
           more == /\ outcome = "ok"
                   /\ ~away
                   /\ processed + 1 < CommandsPerUpdate
                   /\ at # parser_put
       IN
       /\ parser_get' = at
       /\ IF stays THEN UNCHANGED ring ELSE Consumed(parser_get, c.size)
       /\ service_token' = IF c.kind = "setToken" /\ ~failed THEN c.arg ELSE service_token
       /\ error_' = failed
       /\ latch' = IF c.kind = "waitLatch" /\ ~failed THEN FALSE ELSE latch
       /\ latched' = (outcome = "waiting")
       /\ unscheduled_count_' = IF away THEN unscheduled_count_ + 1 ELSE unscheduled_count_
       /\ tasks' = IF ~more /\ ~away /\ Reschedules(outcome, at)
                     THEN tasks + 1 ELSE tasks
       /\ IF more
            THEN processed' = processed + 1 /\ UNCHANGED <<spc, inflight>>
            ELSE EndProcessing(spc = "sync", [get |-> at, token |-> service_token',
                                              error |-> error_'])
    /\ UNCHANGED <<helper, client, last_state_, channel, parser_put, reports, alive>>

SetScheduled ==
    /\ unscheduled_count_' = unscheduled_count_ - 1
    /\ tasks' = tasks + (IF unscheduled_count_ = 1 THEN 1 ELSE 0)

\* The browser has resized the view: ViewResized.
ViewResized ==
    /\ alive
    /\ spc = "idle"
    /\ unscheduled_count_ > 0 /\ ~latched
    /\ SetScheduled
    /\ UNCHANGED <<helper, client, last_state_, ring, channel, inflight, parser, spc,
                   processed, reports, latch, latched, alive>>

\* Another context sets the latch, and waiting contexts are scheduled again.
SetLatch ==
    /\ alive
    /\ spc = "idle"
    /\ ~latch /\ \E c \in Commands : c.kind = "waitLatch"
    /\ latch' = TRUE
    /\ latched' = FALSE
    /\ IF latched THEN SetScheduled ELSE UNCHANGED <<unscheduled_count_, tasks>>
    /\ UNCHANGED <<helper, client, last_state_, ring, channel, inflight, parser, spc,
                   processed, reports, alive>>

\* The GPU process dies.  What it had sent may still arrive, up to some point.
GpuProcessDies ==
    /\ MayFail
    /\ alive
    /\ alive' = FALSE
    /\ channel' = <<>>
    /\ \E n \in 0..Len(inflight) : inflight' = SubSeq(inflight, 1, n)
    /\ spc' = "idle" /\ processed' = 0 /\ tasks' = 0 /\ reports' = 0
    /\ UNCHANGED <<helper, client, last_state_, ring, parser, unscheduled_count_, latch,
                   latched>>

-----------------------------------------------------------------------------
\* A call sends at most two asynchronous messages, so the bound is on what is
\* under way when a call is made: within a call it never holds anybody up.
Pipeline == Len(channel) + reports + Len(inflight)

ClientCall ==
    /\ Pipeline <= MaxPipeline
    /\ \/ IssueCommand \/ InsertToken \/ CallFlush \/ CallFinish \/ GetError
       \/ \E t \in Tokens : CallWaitForToken(t)

ClientStep ==
    \/ WaitForWrap \/ InsertJump \/ WaitForRoom \/ PlaceCommand \/ PlaceUnchecked
    \/ Finish \/ FinishReturns \/ WaitForToken \/ WaitForTokenEnds
    \/ ReceiveReply \/ SyncSendFails

ServiceReceive == OnAsyncFlush \/ OnFlush \/ OnGetState

Next ==
    \/ ClientCall \/ ClientStep
    \/ ReceiveUpdate \/ OnChannelError
    \/ ServiceReceive \/ ProcessCommand \/ ProcessCommandsTask \/ ReportState
    \/ ViewResized \/ SetLatch
    \/ GpuProcessDies

Spec == Init /\ [][Next]_vars

(***************************************************************************)
(* The threads of both processes run, messages arrive, the message loop    *)
(* serves every queue, the browser answers a resize and other contexts set *)
(* their latches.  The client need not call anything.                      *)
(***************************************************************************)
Fairness ==
    /\ WF_vars(ClientStep) /\ WF_vars(ReceiveUpdate)
    /\ WF_vars(ServiceReceive) /\ WF_vars(ProcessCommand)
    /\ WF_vars(ProcessCommandsTask) /\ WF_vars(ReportState)
    /\ WF_vars(ViewResized) /\ WF_vars(SetLatch)

FairSpec == Spec /\ Fairness

-----------------------------------------------------------------------------
(* Properties                                                              *)

\* The context is lost for one side or the other.
Lost == error_ \/ last_state_.error \/ ~alive

\* Whether the ring holds the whole of command c at offset i.
Intact(i, c) ==
    /\ c.size > 0
    /\ i + c.size <= TotalEntries
    /\ \A k \in 0..(c.size - 1) : ring[i + k] = [cmd |-> c, part |-> k]

\* What the service will execute if it goes on from offset i up to put_,
\* looking at no more than n headers.
Unread[n \in Nat, i \in Offsets] ==
    IF i = put_ THEN <<>>
    ELSE IF n = 0 \/ ~Intact(i, ring[i].cmd) THEN <<Noop>>
    ELSE IF ring[i].cmd = Jump THEN Unread[n - 1, 0]
    ELSE <<ring[i].cmd>> \o Unread[n - 1, (i + ring[i].cmd.size) % TotalEntries]

Queue == IF Lost THEN <<>> ELSE Unread[TotalEntries, parser_get]

\* The ring implements the command stream: what lies between the get offset and
\* the client's put offset is always exactly the commands issued and not yet
\* executed.  The client never overwrites what is unread, and the service never
\* reads what is unwritten, stale, or half of a command.
Stream == INSTANCE CommandStream WITH Command <- Issued, queue <- Queue, lost <- Lost
StreamSpec == Stream!Spec

\* Between two calls, a token the client takes for passed (because its value has
\* been read, or is above the last one and so from before a wrap) is not waiting
\* in the ring: WaitForToken never returns too early.
PassedTokensExecuted ==
    cpc = "idle" /\ ~Lost =>
        \A t \in Tokens : t > token_ \/ t <= last_token_read_
                            => ~Contains(Queue, SetToken(t))

\* Finish returns true only when everything has been executed.
FinishDrains ==
    [][cpc = "run" /\ loop = "finish" /\ cpc' = "idle" /\ ~Lost => Queue = <<>>]_vars

\* As long as the context is not lost, WaitForToken does not find the buffer
\* empty before its token has come, and no header fails to parse.
FailsOnlyWhenLost ==
    /\ cpc = "fatal" => Lost
    /\ spc # "idle" => ring[parser_get].cmd.size > 0

\* A wait for a token ends when it should, and neither earlier nor in a fatal error.
TokenWaitsAreRight == TypeOK /\ PassedTokensExecuted /\ FailsOnlyWhenLost

\* Every call returns: a full ring, a yield, a latch, a resize or the death of
\* the GPU process leave nobody waiting for ever.
ClientReturns == cpc \in {"run", "sync"} ~> cpc \in {"idle", "fatal"}

\* As long as the service knows of unread commands its get offset moves on: no
\* yield, latch, resize or full batch leaves it with work and no task, and no
\* order of flushes and replies makes it forget.
ServiceProgresses ==
    <>[](parser_get # parser_put /\ ~Lost) => []<><<parser_get' # parser_get>>_vars
=============================================================================
