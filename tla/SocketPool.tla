------------------------------ MODULE SocketPool ------------------------------
(***************************************************************************)
(* ClientSocketPoolBaseHelper: sockets shared by the requests of a pool,   *)
(* in groups, under a limit for each group and one for the pool            *)
(* (net/socket/client_socket_pool_base.cc), with the ClientSocketHandles   *)
(* that own the requests.                                                  *)
(*                                                                         *)
(* Everything runs on one thread, but a handler calls others, and what the *)
(* network answers decides how far they go.  A helper is therefore an      *)
(* operator from a state of the pool to the set of states it may end in;   *)
(* an action picks one.  A socket is known by the generation of the pool   *)
(* in which it was connected, a connect job by the one it was started in.  *)
(*                                                                         *)
(* wakeFailed is a history, which no guard reads: a queued request that    *)
(* was woken failed to connect at once, so that its wake-up was of no use  *)
(* to the others; it is FALSE again when a request comes to empty queues.  *)
(***************************************************************************)
EXTENDS Integers, SequencesExt, FiniteSetsExt, Functions

CONSTANTS
    Groups, Handles,
    MaxSockets, MaxPerGroup,    \* max_sockets_, max_sockets_per_group_
    Kinds,          \* the [priority, ignore] a request may have
    ConnectResults, \* what ConnectJob::Connect may return at once
    BackupJobs,     \* connect_backup_jobs_enabled_
    MaxFlushes,     \* bound on pool_generation_number_
    MaxPosted,      \* bound on the callback tasks posted for one handle
    MaxExcess,      \* bound: sockets above the limit when a request ignores it
    None            \* no socket, no callback

ASSUME LimitAssumption ==
    MaxSockets \in Nat /\ MaxPerGroup \in 1..MaxSockets /\ MaxFlushes \in Nat
ASSUME UserAssumption ==
    /\ IsFiniteSet(Groups) /\ IsFiniteSet(Handles)
    /\ None \notin Groups \cup Handles \cup {"ok", "error"}
    /\ Kinds \subseteq [priority : Nat, ignore : BOOLEAN]
ASSUME ConnectAssumption ==
    ConnectResults \subseteq {"ok", "pending", "error", "errorWithSocket"}

VARIABLE pool

(***************************************************************************)
(* pending holds handles; the unused jobs are preconnects no request took.  *)
(* backup is the task behind method_factory_: "running" while its method   *)
(* runs, for the weak pointer lives until the task is deleted.             *)
(***************************************************************************)
JobKinds == {"unused", "used"}
NoJobs == [k \in JobKinds |-> <<>>]

Group == [exists : BOOLEAN, pending : Seq(Handles), jobs : [JobKinds -> Seq(Nat)],
          idle : Seq(Nat), active : Nat, backup : {"none", "posted", "running"}]

NewGroup == [exists |-> TRUE, pending |-> <<>>, jobs |-> NoJobs,
             idle |-> <<>>, active |-> 0, backup |-> "none"]
NoGroup == [NewGroup EXCEPT !.exists = FALSE]

\* The socket of a handle, with the pool_id_ it was handed out under.
Socket == [born : Nat, id : Nat]
ASSUME SocketAssumption == None \notin Socket

\* What a handle asks for; no group when it has no request and no socket.
Request == [group : Groups \cup {None}, priority : Nat, ignore : BOOLEAN]
NoRequest == [group |-> None, priority |-> 0, ignore |-> FALSE]

Pool == [group : [Groups -> Group],
         idle_socket_count_ : Nat, connecting_socket_count_ : Nat,
         handed_out_socket_count_ : Nat, generation : Nat,
         callback : [Handles -> {"ok", "error", None}],     \* pending_callback_map_
         posted : [Handles -> Nat],                         \* InvokeUserCallback tasks
         request : [Handles -> Request],
         socket : [Handles -> Socket \cup {None}],
         initialized : [Handles -> BOOLEAN],                \* is_initialized_
         wakeFailed : BOOLEAN]

TypeOK ==
    /\ pool \in Pool
    /\ pool.generation <= MaxFlushes
    /\ \A g \in Groups : pool.group[g].backup # "running"
                         /\ (~pool.group[g].exists => pool.group[g] = NoGroup)

Init ==
    pool = [group |-> [g \in Groups |-> NoGroup],
            idle_socket_count_ |-> 0, connecting_socket_count_ |-> 0,
            handed_out_socket_count_ |-> 0, generation |-> 0,
            callback |-> [h \in Handles |-> None],
            posted |-> [h \in Handles |-> 0],
            request |-> [h \in Handles |-> NoRequest],
            socket |-> [h \in Handles |-> None],
            initialized |-> [h \in Handles |-> FALSE],
            wakeFailed |-> FALSE]

\* The sum of the numbers that n has for the groups.
SumOver(n) == Cardinality(UNION {{g} \X (1..n[g]) : g \in Groups})

\* Every state that one of the states in S may be taken to by Op.
Then(S, Op(_)) == UNION {Op(p) : p \in S}

-----------------------------------------------------------------------------
(* Group                                                                   *)

NumJobs(G) == Len(G.jobs["unused"]) + Len(G.jobs["used"])

IsEmpty(G) ==
    G.active = 0 /\ G.idle = <<>> /\ NumJobs(G) = 0 /\ G.pending = <<>>

NumActiveSocketSlots(G) == G.active + NumJobs(G) + Len(G.idle)

HasAvailableSocketSlot(G) == NumActiveSocketSlots(G) < MaxPerGroup

IsStalled(G) == HasAvailableSocketSlot(G) /\ Len(G.pending) > NumJobs(G)

CleanupBackupJob(G) == [G EXCEPT !.backup = "none"]

\* Only one timer at a time.
StartBackupSocketTimer(G) ==
    IF G.backup = "none" THEN [G EXCEPT !.backup = "posted"] ELSE G

GetOrCreateGroup(p, g) ==
    IF p.group[g].exists THEN p ELSE [p EXCEPT !.group[g] = NewGroup]

RemoveGroup(p, g) == [p EXCEPT !.group[g] = NoGroup]

RemoveIfEmpty(p, g) == IF IsEmpty(p.group[g]) THEN RemoveGroup(p, g) ELSE p

-----------------------------------------------------------------------------
(* Sockets                                                                 *)

HandOutSocket(p, g, h, born) ==
    [p EXCEPT !.socket[h] = [born |-> born, id |-> p.generation],
              !.handed_out_socket_count_ = @ + 1,
              !.group[g].active = @ + 1]

AddIdleSocket(p, g, born) ==
    [p EXCEPT !.group[g].idle = Append(@, born),
              !.idle_socket_count_ = @ + 1]

\* The group keeps only the idle sockets at the positions in keep.
KeepIdle(p, g, keep) ==
    LET idle == p.group[g].idle
        nth(i) == CHOOSE k \in keep : Cardinality({j \in keep : j <= k}) = i
    IN
    [p EXCEPT !.group[g].idle = [i \in 1..Cardinality(keep) |-> idle[nth(i)]],
              !.idle_socket_count_ = @ - (Len(idle) - Cardinality(keep))]

TotalSockets(p) ==
    p.handed_out_socket_count_ + p.connecting_socket_count_ + p.idle_socket_count_

\* Mutant: idle sockets are not counted.
ReachedMaxSocketsLimit_IdleIsFree(p) ==
    p.handed_out_socket_count_ + p.connecting_socket_count_ >= MaxSockets

ReachedMaxSocketsLimit(p) == TotalSockets(p) >= MaxSockets

\* CloseOneIdleSocketExceptInGroup: the front one of some group, the map's
\* order being of no importance.  No state if there is none.
CloseOneIdleSocket(p, exception) ==
    {RemoveIfEmpty(KeepIdle(p, g, 2..Len(p.group[g].idle)), g) :
        g \in {x \in Groups \ exception : p.group[x].idle # <<>>}}

\* AssignIdleSocketToGroup: the dead sockets among the idle ones are deleted, and
\* one of the others, if any, is handed out.
AssignIdleSocketToGroup(p, g, h) ==
    LET idle == p.group[g].idle IN
    UNION {IF alive = {}
             THEN {[pool |-> KeepIdle(p, g, {}), rv |-> "none"]}
             ELSE {[pool |-> HandOutSocket(KeepIdle(p, g, alive \ {i}), g, h, idle[i]),
                    rv |-> "ok"] : i \in alive}
             : alive \in SUBSET DOMAIN idle}

-----------------------------------------------------------------------------
(* Requests                                                                *)

\* Highest priorities (the lowest numbers) first, older before newer.
InsertRequestIntoQueue(p, g, h) ==
    LET queue == p.group[g].pending
        before == {i \in DOMAIN queue :
                     \A j \in 1..i : p.request[h].priority >= p.request[queue[j]].priority}
    IN
    [p EXCEPT !.group[g].pending = InsertAt(queue, Cardinality(before) + 1, h)]

\* The backup timer goes with the last request.
RemoveRequestFromQueue(p, g, h) ==
    LET G == [p.group[g] EXCEPT !.pending = RemoveFirst(@, h)] IN
    [p EXCEPT !.group[g] = IF G.pending = <<>> THEN CleanupBackupJob(G) ELSE G]

\* Mutant: a failure is noted and never told.
InvokeUserCallbackLater_OnlyOk(p, h, rv) ==
    [p EXCEPT !.callback[h] = rv, !.posted[h] = IF rv = "ok" THEN @ + 1 ELSE @]

InvokeUserCallbackLater(p, h, rv) ==
    [p EXCEPT !.callback[h] = rv, !.posted[h] = @ + 1]

AddJob(p, g, kind) ==
    [p EXCEPT !.connecting_socket_count_ = @ + 1,
              !.group[g].jobs[kind] = Append(@, p.generation)]

\* RemoveConnectJob: the backup timer goes with the last job.
RemoveConnectJob(p, g, kind, i) ==
    LET G == [p.group[g] EXCEPT !.jobs[kind] = RemoveAt(@, i)] IN
    [p EXCEPT !.connecting_socket_count_ = @ - 1,
              !.group[g] = IF NumJobs(G) = 0 THEN CleanupBackupJob(G) ELSE G]

\* The last part of RequestSocketInternal: a new connect job.  h is None for a
\* preconnect.
Connect(p, g, h) ==
    LET G == p.group[g]
        timed == IF BackupJobs /\ IsEmpty(G) /\ h # None
                   THEN [p EXCEPT !.group[g] = StartBackupSocketTimer(G)] ELSE p
        given == IF h = None THEN AddIdleSocket(p, g, p.generation)
                             ELSE HandOutSocket(p, g, h, p.generation)
    IN
    {CASE result = "ok" -> [pool |-> given, rv |-> "ok"]
       [] result = "pending" -> [pool |-> AddJob(timed, g, IF h = None THEN "unused" ELSE "used"), rv |-> "pending"]
       [] result = "errorWithSocket" /\ h # None -> [pool |-> given, rv |-> "error"]
       [] OTHER -> [pool |-> RemoveIfEmpty(p, g), rv |-> "error"]
       : result \in ConnectResults}

\* TryToUsePreconnectConnectJob, when there is one: it is used from now on.  Which does
\* not matter, the jobs of a group being all of one generation.
UsePreconnect(p, g) ==
    LET jobs == p.group[g].jobs IN
    [p EXCEPT !.group[g].jobs =
        [k \in JobKinds |-> IF k = "unused" THEN Tail(jobs["unused"])
                            ELSE Append(jobs["used"], Head(jobs["unused"]))]]

\* RequestSocketInternal, once no idle socket has been found.
RequestNewSocket(p, g, h, ignore) ==
    LET G == p.group[g]
        elsewhere == CloseOneIdleSocket(p, {g})
    IN
    IF h # None /\ G.jobs["unused"] # <<>>
      THEN {[pool |-> UsePreconnect(p, g), rv |-> "pending"]}
    ELSE IF ~HasAvailableSocketSlot(G) /\ ~ignore
      THEN {[pool |-> p, rv |-> "pending"]}
    ELSE IF ~ReachedMaxSocketsLimit(p) \/ ignore
      THEN Connect(p, g, h)
    ELSE IF p.idle_socket_count_ = 0
      THEN {[pool |-> p, rv |-> "pending"]}
    ELSE IF elsewhere # {}
      THEN UNION {Connect(q, g, h) : q \in elsewhere}
    ELSE IF h = None
      THEN {[pool |-> p, rv |-> "error"]}   \* ERR_PRECONNECT_MAX_SOCKET_LIMIT
    ELSE Connect(p, g, h)

\* The states and results RequestSocketInternal may end with.  A preconnect has
\* the flag NO_IDLE_SOCKETS.
RequestSocketInternal(p0, g, h, ignore) ==
    LET p == GetOrCreateGroup(p0, g) IN
    IF h = None THEN RequestNewSocket(p, g, h, ignore)
    ELSE UNION {IF found.rv = "ok" THEN {found}
                ELSE RequestNewSocket(found.pool, g, h, ignore)
                : found \in AssignIdleSocketToGroup(p, g, h)}

\* The request of h was woken and is answered.
Noted(p, h) ==
    [p EXCEPT !.wakeFailed = @ \/ /\ p.callback[h] = "error" /\ p.socket[h] = None
                                  /\ \E g \in Groups : p.group[g].pending # <<>>]

ProcessPendingRequest(p, g) ==
    LET h == Head(p.group[g].pending) IN
    {IF end.rv = "pending" THEN end.pool
     ELSE Noted(InvokeUserCallbackLater(
                    RemoveIfEmpty(RemoveRequestFromQueue(end.pool, g, h), g), h, end.rv), h)
     : end \in RequestSocketInternal(p, g, h, p.request[h].ignore)}

OnAvailableSocketSlot(p, g) ==
    IF IsEmpty(p.group[g]) THEN {RemoveGroup(p, g)}
    ELSE IF p.group[g].pending # <<>> THEN ProcessPendingRequest(p, g)
    ELSE {p}

\* FindTopStalledGroup; ties are settled by the order of the map.
TopStalledGroups(p) ==
    LET stalled == {g \in Groups : IsStalled(p.group[g])}
        top(g) == p.request[Head(p.group[g].pending)].priority
    IN
    {g \in stalled : \A x \in stalled : top(g) <= top(x)}

\* Mutant: only the released group is looked at.
CheckForStalledSocketGroups_Never(p) == {p}

\* At most one stalled group is woken.
CheckForStalledSocketGroups(p) ==
    IF TopStalledGroups(p) = {} THEN {p}
    ELSE UNION {LET wake(q) == OnAvailableSocketSlot(q, g) IN
                IF ~ReachedMaxSocketsLimit(p) THEN wake(p)
                ELSE IF p.idle_socket_count_ > 0 THEN Then(CloseOneIdleSocket(p, {}), wake)
                ELSE {p}
                : g \in TopStalledGroups(p)}

\* Mutant: a socket from before a Flush is kept.
ReleaseToPool_AnyGeneration(p, g, socket, connectedAndIdle) ==
    LET released == [p EXCEPT !.handed_out_socket_count_ = @ - 1,
                              !.group[g].active = @ - 1]
    IN
    IF connectedAndIdle
      THEN Then(OnAvailableSocketSlot(AddIdleSocket(released, g, socket.born), g),
                CheckForStalledSocketGroups)
      ELSE CheckForStalledSocketGroups(released)

\* handle has given up its socket, which is kept if it can be used again.
ReleaseToPool(p, g, socket, connectedAndIdle) ==
    LET released == [p EXCEPT !.handed_out_socket_count_ = @ - 1,
                              !.group[g].active = @ - 1]
    IN
    IF connectedAndIdle /\ socket.id = p.generation
      THEN Then(OnAvailableSocketSlot(AddIdleSocket(released, g, socket.born), g),
                CheckForStalledSocketGroups)
      ELSE CheckForStalledSocketGroups(released)

\* ConnectJobComplete for the i-th of the jobs with that preconnect state.
ConnectJobComplete(p, g, kind, i, result) ==
    LET born == p.group[g].jobs[kind][i]
        queue == p.group[g].pending
        idled == AddIdleSocket(RemoveConnectJob(p, g, kind, i), g, born)
        served == RemoveConnectJob(RemoveRequestFromQueue(p, g, Head(queue)), g, kind, i)
        slot(q) == Then(OnAvailableSocketSlot(q, g), CheckForStalledSocketGroups)
    IN
    CASE result = "ok" /\ queue = <<>> -> slot(idled)
      [] result = "ok" /\ queue # <<>> ->
           {InvokeUserCallbackLater(HandOutSocket(served, g, Head(queue), born),
                                    Head(queue), "ok")}
      [] result = "errorWithSocket" /\ queue # <<>> ->
           {InvokeUserCallbackLater(HandOutSocket(served, g, Head(queue), born),
                                    Head(queue), "error")}
      [] result = "error" /\ queue # <<>> ->
           slot(InvokeUserCallbackLater(served, Head(queue), "error"))
      [] OTHER -> slot(RemoveConnectJob(p, g, kind, i))

-----------------------------------------------------------------------------
(* Actions                                                                 *)

\* HandleInitCompletion: the handle keeps its socket or is reset.
HandleInitCompletion(p, h) ==
    IF p.socket[h] = None THEN [p EXCEPT !.request[h] = NoRequest]
                          ELSE [p EXCEPT !.initialized[h] = TRUE]

NoneQueued == \A g \in Groups : pool.group[g].pending = <<>>

\* ClientSocketHandle::Init and RequestSocket.
RequestSocket(h, g, k) ==
    /\ pool.request[h] = NoRequest
    /\ pool.posted[h] < MaxPosted
    /\ k.ignore => TotalSockets(pool) < MaxSockets + MaxExcess
    /\ LET r == [group |-> g, priority |-> k.priority, ignore |-> k.ignore]
           asked == [pool EXCEPT !.request[h] = r, !.wakeFailed = @ /\ ~NoneQueued]
       IN  pool' \in {IF end.rv = "pending" THEN InsertRequestIntoQueue(end.pool, g, h)
                      ELSE HandleInitCompletion(end.pool, h)
                      : end \in RequestSocketInternal(asked, g, h, k.ignore)}

\* RequestSockets: up to n rounds, ended by an error, to bring the group to n
\* sockets.
RequestSockets(g, n) ==
    LET round(e) ==
          IF e.rv = "error" \/ NumActiveSocketSlots(e.pool.group[g]) >= n THEN {e}
          ELSE RequestSocketInternal(e.pool, g, None, FALSE)
        ends[i \in 0..n] ==
          IF i = 0 THEN {[pool |-> GetOrCreateGroup(pool, g), rv |-> "ok"]}
          ELSE UNION {round(e) : e \in ends[i - 1]}
    IN
    pool' \in {RemoveIfEmpty(e.pool, g) : e \in ends[n]}

\* ClientSocketHandle::Reset of a handle that holds a socket.
ReleaseSocket(h) ==
    /\ pool.initialized[h]
    /\ LET p == [pool EXCEPT !.initialized[h] = FALSE, !.socket[h] = None,
                             !.request[h] = NoRequest]
       IN  \E connectedAndIdle \in BOOLEAN :
             pool' \in ReleaseToPool(p, pool.request[h].group, pool.socket[h],
                                    connectedAndIdle)

\* Reset of a handle whose callback has not run yet.
CancelCallback(h) ==
    /\ pool.callback[h] # None
    /\ LET p == [pool EXCEPT !.callback[h] = None, !.socket[h] = None,
                             !.request[h] = NoRequest]
       IN  IF pool.socket[h] = None THEN pool' = p
           ELSE \E connectedAndIdle \in {pool.callback[h] = "ok", FALSE} :
                  pool' \in ReleaseToPool(p, pool.request[h].group, pool.socket[h],
                                         connectedAndIdle)

\* Reset of a handle whose request is queued.  A job goes with it only when the
\* pool is at its limit.
CancelRequest(h) ==
    \E g \in Groups :
       /\ Contains(pool.group[g].pending, h)
       /\ LET p == RemoveRequestFromQueue([pool EXCEPT !.request[h] = NoRequest], g, h)
              jobs == p.group[g].jobs
          IN  IF NumJobs(p.group[g]) > 0 /\ ReachedMaxSocketsLimit(p)
                THEN pool' \in Then({RemoveConnectJob(p, g, k, 1) :
                                       k \in {kind \in JobKinds : jobs[kind] # <<>>}},
                                    CheckForStalledSocketGroups)
                ELSE pool' = p

\* A connect job ends, or times out.
OnConnectJobComplete(g) ==
    \E kind \in JobKinds, result \in {"ok", "error", "errorWithSocket"} :
       \E i \in DOMAIN pool.group[g].jobs[kind] :
          pool' \in ConnectJobComplete(pool, g, kind, i, result)

\* OnBackupSocketTimerFired.  Blocked by a limit, or by the resolver, it only asks
\* for the timer again.  But the task is deleted after its method has returned,
\* and StartBackupSocketTimer takes it for a timer still pending.
OnBackupSocketTimerFired(g) ==
    /\ pool.group[g].backup = "posted"
    /\ LET p == [pool EXCEPT !.group[g].backup = "running"]
           G == p.group[g]
           done(q) == IF q.group[g].backup = "running"
                        THEN [q EXCEPT !.group[g].backup = "none"] ELSE q
           added == AddJob(p, g, "used")
           blocked == ReachedMaxSocketsLimit(p) \/ ~HasAvailableSocketSlot(G)
       IN
       \/ pool' = done(IF NumJobs(G) = 0 THEN p    \* NOTREACHED
                       ELSE [p EXCEPT !.group[g] = StartBackupSocketTimer(G)])
       \/ /\ NumJobs(G) > 0 /\ ~blocked
          /\ \E result \in ConnectResults :
               IF G.pending = <<>> THEN pool' = done(p)
               ELSE IF result = "pending" THEN pool' = done(added)
               ELSE pool' \in {done(q) : q \in ConnectJobComplete(added, g, "used",
                                          Len(added.group[g].jobs["used"]), result)}

\* InvokeUserCallback, which finds nothing if the request has been cancelled.
InvokeUserCallback(h) ==
    /\ pool.posted[h] > 0
    /\ LET p == [pool EXCEPT !.posted[h] = @ - 1] IN
       pool' = IF pool.callback[h] = None THEN p
               ELSE HandleInitCompletion([p EXCEPT !.callback[h] = None], h)

Tidy(p) == [p EXCEPT !.group = [g \in Groups |-> RemoveIfEmpty(p, g).group[g]]]

\* Mutant: the jobs cancelled are still counted as connecting.
CancelAllConnectJobs_StillCounted(p) ==
    Tidy([p EXCEPT
        !.group = [g \in Groups |-> [CleanupBackupJob(@[g]) EXCEPT
                                      !.jobs = NoJobs]]])

CancelAllConnectJobs(p) ==
    Tidy([p EXCEPT
        !.connecting_socket_count_ = @ - SumOver([g \in Groups |-> NumJobs(p.group[g])]),
        !.group = [g \in Groups |-> [CleanupBackupJob(@[g]) EXCEPT
                                      !.jobs = NoJobs]]])

\* CleanupIdleSockets: keep[g] are the idle sockets of g that stay.
CleanupIdleSockets(p, keep) ==
    IF p.idle_socket_count_ = 0 THEN p
    ELSE Tidy([p EXCEPT
        !.group = [g \in Groups |-> KeepIdle(p, g, keep[g]).group[g]],
        !.idle_socket_count_ = SumOver([g \in Groups |-> Cardinality(keep[g])])])

\* Mutant: a task still posted for the handle is taken to be enough.
AbortAllRequests_NoTask(p) ==
    LET aborted == {h \in Handles : \E g \in Groups : Contains(p.group[g].pending, h)} IN
    Tidy([p EXCEPT
        !.group = [g \in Groups |-> [@[g] EXCEPT !.pending = <<>>]],
        !.callback = [h \in Handles |-> IF h \in aborted THEN "error" ELSE @[h]]])

AbortAllRequests(p) ==
    LET aborted == {h \in Handles : \E g \in Groups : Contains(p.group[g].pending, h)} IN
    Tidy([p EXCEPT
        !.group = [g \in Groups |-> [@[g] EXCEPT !.pending = <<>>]],
        !.callback = [h \in Handles |-> IF h \in aborted THEN "error" ELSE @[h]],
        !.posted = [h \in Handles |-> IF h \in aborted THEN @[h] + 1 ELSE @[h]]])

\* Flush, also when the IP address changes.
Flush ==
    /\ pool.generation < MaxFlushes
    /\ pool' = AbortAllRequests(
                  CleanupIdleSockets(
                    CancelAllConnectJobs([pool EXCEPT !.generation = @ + 1]),
                    [g \in Groups |-> {}]))

CloseIdleSockets == pool' = CleanupIdleSockets(pool, [g \in Groups |-> {}])

\* The timer of the pool drops idle sockets that are dead or too old.
OnCleanupTimerFired ==
    \E keep \in [Groups -> SUBSET (1..MaxSockets)] :
       /\ \A g \in Groups : keep[g] \subseteq DOMAIN pool.group[g].idle
       /\ pool' = CleanupIdleSockets(pool, keep)

Next ==
    \/ \E h \in Handles :
          \/ \E g \in Groups, k \in Kinds : RequestSocket(h, g, k)
          \/ ReleaseSocket(h) \/ CancelCallback(h) \/ CancelRequest(h)
          \/ InvokeUserCallback(h)
    \/ \E g \in Groups :
          \/ \E n \in 1..MaxPerGroup : RequestSockets(g, n)
          \/ OnConnectJobComplete(g) \/ OnBackupSocketTimerFired(g)
    \/ Flush \/ CloseIdleSockets \/ OnCleanupTimerFired

Spec == Init /\ [][Next]_pool

\* Connect jobs end or time out, posted tasks run, users give sockets back.
Fairness ==
    /\ \A g \in Groups : WF_pool(OnConnectJobComplete(g))
    /\ \A h \in Handles : WF_pool(InvokeUserCallback(h)) /\ WF_pool(ReleaseSocket(h))

FairSpec == Spec /\ Fairness

-----------------------------------------------------------------------------
(* Properties                                                              *)

\* The three counters that limits are checked against are the sums over the
\* groups, after every handler.
CountsMatch ==
    /\ pool.idle_socket_count_ = SumOver([g \in Groups |-> Len(pool.group[g].idle)])
    /\ pool.connecting_socket_count_ = SumOver([g \in Groups |-> NumJobs(pool.group[g])])
    /\ pool.handed_out_socket_count_ = SumOver([g \in Groups |-> pool.group[g].active])

\* Without requests that ignore them, the limits hold.
LimitsHold ==
    /\ SumOver([g \in Groups |-> NumActiveSocketSlots(pool.group[g])]) <= MaxSockets
    /\ \A g \in Groups : NumActiveSocketSlots(pool.group[g]) <= MaxPerGroup

\* Every request is in one place: in the queue of its group once, waiting for its
\* callback, or done; and each socket handed out is counted in its group.
HandlesAccounted ==
    /\ \A h \in Handles :
          LET places == {g \in Groups : Contains(pool.group[g].pending, h)} IN
          /\ places = IF pool.request[h].group # None /\ pool.callback[h] = None
                          /\ ~pool.initialized[h]
                        THEN {pool.request[h].group} ELSE {}
          /\ pool.initialized[h] => pool.socket[h] # None /\ pool.callback[h] = None
          /\ pool.callback[h] = "ok" => pool.socket[h] # None
    /\ \A g \in Groups :
          /\ IsInjective(pool.group[g].pending)
          /\ pool.group[g].active =
               Cardinality({h \in Handles : pool.socket[h] # None /\ pool.request[h].group = g})

\* A completion waiting for delivery has a task that will deliver it, however
\* often the handle was reset and used again.
CallbackIsPosted == \A h \in Handles : pool.callback[h] # None => pool.posted[h] > 0

\* After a Flush nothing connected before it is handed out again.
NoStaleIdle == \A g \in Groups : \A i \in DOMAIN pool.group[g].idle :
                   pool.group[g].idle[i] = pool.generation

\* The backup timer finds a job and a request: neither NOTREACHED nor DFATAL.
BackupTimerJustified ==
    \A g \in Groups : pool.group[g].backup # "none" =>
        NumJobs(pool.group[g]) > 0 /\ pool.group[g].pending # <<>>

\* What the pool keeps twice, by hand, agrees after every handler.
PoolConsistent == TypeOK /\ CountsMatch /\ HandlesAccounted /\ BackupTimerJustified

\* Some job or some user's socket is still to end.
SlotsInUse == pool.connecting_socket_count_ + pool.handed_out_socket_count_ > 0

\* Whoever is queued waits for a job or a user's socket to end, which wakes it: "there is
\* no starvation" (client_socket_pool_base.cc, CheckForStalledSocketGroups).  The exception
\* is the code's: only one request is woken for a slot, and if that one fails to connect
\* at once, nothing may be left to wake the others.
WakeupDue == ~NoneQueued => SlotsInUse \/ pool.wakeFailed

\* When no new requests come, every one that waits is answered, whatever preconnects,
\* cancellations and the clean-up of idle sockets do meanwhile, with the same exception: not
\* when a woken request failed to connect at once while others waited.
RequestAnswered ==
    <>[][\A h \in Handles : pool.request[h] = NoRequest => pool'.request[h] = NoRequest]_pool
      => <>[](\/ \A h \in Handles : pool.request[h] = NoRequest \/ pool.initialized[h]
              \/ pool.wakeFailed)
=============================================================================
