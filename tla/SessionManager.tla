--------------------------- MODULE SessionManager ---------------------------
(***************************************************************************)
(* The host's control-authority manager (internal/session/session.go) and  *)
(* the goroutines that use it: one Authorize call per presented token      *)
(* (internal/host/sink.go), its gate goroutine, the per-session watcher,   *)
(* the idle timer, the operator's kick and shutdown.                       *)
(*                                                                         *)
(* Every critical section of Manager.mu is one step; whatever the code     *)
(* does between two critical sections is a separate step, so that the      *)
(* check-then-act sequences of Release, KickCurrentController, Gate and    *)
(* watchSession interleave with everything else.                           *)
(*                                                                         *)
(* A call c creates at most two sessionEntry objects: the one Claim        *)
(* returns, Claimed(c), and, when that entry waited in the queue, the      *)
(* fresh one endSession builds for it, Promoted(c).                        *)
(***************************************************************************)
EXTENDS Integers, Sequences

CONSTANTS
    Call,           \* Authorize calls (one JWT presented on one connection)
    Viewer,         \* viewer_id values
    ViewerOf,       \* the viewer_id in the token of each call
    Sender,         \* the calls whose viewer sends input commands
    MaxQueueDepth,  \* Config.MaxQueueDepth; 0 means unlimited
    PolicyReject,   \* Config.QueuePolicy = PolicyReject
    IdleKick,       \* Config.IdleTimeout > 0
    HeartbeatKick,  \* a heartbeat client that may relay a kick is configured
    NoEntry         \* the nil *sessionEntry

Entry == Call \X {"claimed", "promoted"}

ASSUME ConstantsAssumption ==
    /\ ViewerOf \in [Call -> Viewer]
    /\ Sender \subseteq Call
    /\ MaxQueueDepth \in Nat
    /\ PolicyReject \in BOOLEAN
    /\ IdleKick \in BOOLEAN
    /\ HeartbeatKick \in BOOLEAN
    /\ NoEntry \notin Entry /\ NoEntry \notin Call

VARIABLES
    active,     \* Manager.active
    queue,      \* Manager.queue, as the calls whose Claimed entry waits
    stopped,    \* Manager.stopped
    evClosed,   \* Run has closed eventsOut
    panicked,   \* a send on the closed eventsOut was attempted
    told,       \* last lifecycle event emitted for each viewer
    ctx,        \* playerCtx of each entry
    gates,      \* sessionEntry.gates: the calls whose handle is registered
    gatesDone,  \* sessionEntry.gatesDone
    idle,       \* sessionEntry.idleTimer
    idleCall,   \* an AfterFunc goroutine of that timer waits for mu
    watch,      \* watchSession goroutine of each entry
    pc,         \* where each Authorize call is
    up,         \* the call's connection: ctx alive and raw stream open
    handle,     \* gateHandle of each call
    gate,       \* the gate goroutine of each call
    cur,        \* the entry that goroutine looked up
    tick,       \* the watcher between its test of m.active and its emit
    kick        \* the entry KickCurrentController has read

entryVars == <<ctx, gates, gatesDone, idle, idleCall, watch>>
mgrVars   == <<active, queue, stopped, evClosed, panicked, told>>
callVars  == <<pc, up, handle, gate, cur>>
vars      == <<mgrVars, entryVars, callVars, tick, kick>>

-----------------------------------------------------------------------------
Claimed(c)  == <<c, "claimed">>
Promoted(c) == <<c, "promoted">>

ViewerId(e) == ViewerOf[e[1]]

Queued(c) == \E i \in 1..Len(queue) : queue[i] = c

\* append(m.queue[:k], m.queue[k+1:]...)
Without(q, k) == [i \in 1..(Len(q) - 1) |-> IF i < k THEN q[i] ELSE q[i + 1]]

\* The first queue position held by viewer v.
FirstQueued(v, i) ==
    /\ i \in 1..Len(queue)
    /\ ViewerOf[queue[i]] = v
    /\ \A j \in 1..(i - 1) : ViewerOf[queue[j]] # v

\* findEntryLocked(v) returns e: the active entry first, then queue order.
Found(v, e) ==
    IF active # NoEntry /\ ViewerId(active) = v
    THEN e = active
    ELSE IF \E i \in 1..Len(queue) : ViewerOf[queue[i]] = v
         THEN \E i \in 1..Len(queue) : FirstQueued(v, i) /\ e = Claimed(queue[i])
         ELSE e = NoEntry

\* Mutated form: gateHandle.close does not set closed.
CloseHandlesForgotten(hs) == handle

\* gateHandle.close on every handle in hs.
CloseHandles(hs) == [c \in Call |-> IF c \in hs THEN "closed" ELSE handle[c]]

\* Mutated form: no test of m.stopped.
EmitEventAfterStop(t) ==
    /\ told' = t
    /\ panicked' = (panicked \/ evClosed)

\* emitEvent: a no-op once stopped, otherwise a send on eventsOut.
EmitEvent(t) ==
    /\ told' = IF stopped THEN told ELSE t
    /\ panicked' = (panicked \/ (~stopped /\ evClosed))

-----------------------------------------------------------------------------
Init ==
    /\ active = NoEntry
    /\ queue = <<>>
    /\ stopped = FALSE
    /\ evClosed = FALSE
    /\ panicked = FALSE
    /\ told = [v \in Viewer |-> "nothing"]
    /\ ctx = [e \in Entry |-> "none"]
    /\ gates = [e \in Entry |-> {}]
    /\ gatesDone = [e \in Entry |-> FALSE]
    /\ idle = [e \in Entry |-> "nil"]
    /\ idleCall = [e \in Entry |-> FALSE]
    /\ watch = [e \in Entry |-> "off"]
    /\ pc = [c \in Call |-> "new"]
    /\ up = [c \in Call |-> TRUE]
    /\ handle = [c \in Call |-> "none"]
    /\ gate = [c \in Call |-> "off"]
    /\ cur = [c \in Call |-> NoEntry]
    /\ tick = NoEntry
    /\ kick = NoEntry

\* startSessionLocked on entry e, applied to values this critical section has
\* already changed.
StartSessionLocked(e, ctx0, idle0, watch0, told0) ==
    /\ active' = e
    /\ ctx' = [ctx0 EXCEPT ![e] = "live"]
    /\ idle' = IF IdleKick THEN [idle0 EXCEPT ![e] = "armed"] ELSE idle0
    /\ watch' = [watch0 EXCEPT ![e] = "run"]
    /\ EmitEvent([told0 EXCEPT ![ViewerId(e)] = "granted"])

-----------------------------------------------------------------------------
(* Claim, with the three ways it can succeed or be refused. *)

\* ParseAndVerify or the room_id comparison fails.
ClaimBadToken(c) ==
    /\ pc[c] = "new"
    /\ pc' = [pc EXCEPT ![c] = "done"]
    /\ UNCHANGED <<mgrVars, entryVars, up, handle, gate, cur, tick, kick>>

ClaimActive(c) ==
    /\ pc[c] = "new"
    /\ active = NoEntry
    /\ StartSessionLocked(Claimed(c), ctx, idle, watch, told)
    /\ pc' = [pc EXCEPT ![c] = "claimed"]
    /\ UNCHANGED <<queue, stopped, evClosed, gates, gatesDone, idleCall,
                   up, handle, gate, cur, tick, kick>>

\* ErrControllerActive and ErrQueueFull.
ClaimRefused(c) ==
    /\ pc[c] = "new"
    /\ active # NoEntry
    /\ PolicyReject \/ (MaxQueueDepth > 0 /\ Len(queue) >= MaxQueueDepth)
    /\ pc' = [pc EXCEPT ![c] = "done"]
    /\ UNCHANGED <<mgrVars, entryVars, up, handle, gate, cur, tick, kick>>

\* enqueueLocked: a placeholder context and no watcher.
ClaimQueued(c) ==
    /\ pc[c] = "new"
    /\ active # NoEntry
    /\ ~PolicyReject
    /\ MaxQueueDepth = 0 \/ Len(queue) < MaxQueueDepth
    /\ queue' = Append(queue, c)
    /\ ctx' = [ctx EXCEPT ![Claimed(c)] = "live"]
    /\ EmitEvent([told EXCEPT ![ViewerOf[c]] = "queued"])
    /\ pc' = [pc EXCEPT ![c] = "claimed"]
    /\ UNCHANGED <<active, stopped, evClosed, gates, gatesDone, idle, idleCall,
                   watch, up, handle, gate, cur, tick, kick>>

-----------------------------------------------------------------------------
(* endSession(e), in a step that has already changed watch to watch0. *)

\* Not the active entry any more: nothing happens.
EndStale(e, watch0) ==
    /\ active # e
    /\ watch' = watch0
    /\ UNCHANGED <<mgrVars, ctx, gates, gatesDone, idle, handle>>

\* The active entry e is being ended: the handles registered on it close.
Terminate(e) ==
    /\ active = e
    /\ gatesDone' = [gatesDone EXCEPT ![e] = TRUE]
    /\ handle' = CloseHandles(gates[e])
    /\ UNCHANGED <<stopped, evClosed>>

\* The slot becomes free and the viewers are told t.
Vacate(e, watch0, t) ==
    /\ Terminate(e)
    /\ queue = <<>>
    /\ active' = NoEntry
    /\ ctx' = [ctx EXCEPT ![e] = "done"]
    /\ gates' = [gates EXCEPT ![e] = {}]
    /\ idle' = [idle EXCEPT ![e] = "nil"]
    /\ watch' = watch0
    /\ EmitEvent(t)
    /\ UNCHANGED queue

\* Mutated forms: the end is not announced, or with a kind nobody knows.
EndLastSilent(e, watch0) == Vacate(e, watch0, told)
EndLastUnknownKind(e, watch0) == Vacate(e, watch0, [told EXCEPT ![ViewerId(e)] = "ended"])

\* The queue is empty: the slot becomes free.
EndLast(e, watch0) == Vacate(e, watch0, [told EXCEPT ![ViewerId(e)] = "revoked"])

\* The claims of call n start a new session in the same critical section, q
\* stays in line; ctx0 are the contexts and gates0 the gates by then.
Promotion(e, watch0, n, q, ctx0, gates0) ==
    /\ Terminate(e)
    /\ queue' = q
    /\ gates' = gates0
    /\ StartSessionLocked(Promoted(n), ctx0, [idle EXCEPT ![e] = "nil"], watch0,
                          [told EXCEPT ![ViewerId(e)] = "revoked"])

\* entry.cancel and next.cancel.
CancelBoth(e, n) == [ctx EXCEPT ![e] = "done", ![Claimed(n)] = "done"]

\* e's gates are gone, next's move to the entry started for it.
TransferGates(e, n) ==
    [gates EXCEPT ![e] = {}, ![Claimed(n)] = {}, ![Promoted(n)] = gates[Claimed(n)]]

\* Mutated form: the head is not removed from the queue.
EndPromoteKeepsHead(e, watch0) ==
    /\ queue # <<>>
    /\ LET n == Head(queue)
       IN  Promotion(e, watch0, n, queue, CancelBoth(e, n), TransferGates(e, n))

\* Mutated form: the last claimant is promoted instead of the first.
EndPromoteLast(e, watch0) ==
    /\ queue # <<>>
    /\ LET n == queue[Len(queue)]
       IN  Promotion(e, watch0, n, Without(queue, Len(queue)),
                     CancelBoth(e, n), TransferGates(e, n))

\* The head of the queue is promoted: its placeholder context is cancelled and
\* a new entry, not the one its Session points at, is started for its claims.
EndPromote(e, watch0) ==
    /\ queue # <<>>
    /\ LET n == Head(queue)
       IN  Promotion(e, watch0, n, Tail(queue), CancelBoth(e, n), TransferGates(e, n))

\* Mutated form: the guard m.active != entry is missing.
EndSessionUnguarded(e, watch0) ==
    IF active = NoEntry
    THEN EndStale(e, watch0)
    ELSE EndLast(active, watch0) \/ EndPromote(active, watch0)

EndSession(e, watch0) ==
    \/ EndStale(e, watch0)
    \/ EndLast(e, watch0)
    \/ EndPromote(e, watch0)

-----------------------------------------------------------------------------
(* Gate: registration, then the forwarding goroutine. *)

\* Mutated form: registers on the entry of this claim, ended or not.
GateOpenOwnEntry(c) ==
    /\ pc[c] = "claimed"
    /\ gates' = [gates EXCEPT ![Claimed(c)] = @ \cup {c}]
    /\ handle' = [handle EXCEPT ![c] = "open"]
    /\ gate' = [gate EXCEPT ![c] = "select"]
    /\ pc' = [pc EXCEPT ![c] = "draining"]
    /\ UNCHANGED <<mgrVars, ctx, gatesDone, idle, idleCall, watch, up, cur, tick, kick>>

\* Registered on the entry findEntryLocked returns, which for a viewer with
\* several claims need not be the entry of this call.
GateOpen(c) ==
    /\ pc[c] = "claimed"
    /\ \E e \in Entry :
        /\ Found(ViewerOf[c], e)
        /\ ~gatesDone[e]
        /\ gates' = [gates EXCEPT ![e] = @ \cup {c}]
    /\ handle' = [handle EXCEPT ![c] = "open"]
    /\ gate' = [gate EXCEPT ![c] = "select"]
    /\ pc' = [pc EXCEPT ![c] = "draining"]
    /\ UNCHANGED <<mgrVars, ctx, gatesDone, idle, idleCall, watch, up, cur, tick, kick>>

\* No entry, or its gates are already closed: the channel is returned closed.
GateClosed(c) ==
    /\ pc[c] = "claimed"
    /\ \E e \in Entry \cup {NoEntry} :
        /\ Found(ViewerOf[c], e)
        /\ e # NoEntry => gatesDone[e]
    /\ handle' = [handle EXCEPT ![c] = "closed"]
    /\ pc' = [pc EXCEPT ![c] = "draining"]
    /\ UNCHANGED <<mgrVars, entryVars, up, gate, cur, tick, kick>>

\* Mutated form: the goroutine only ends with its input stream.
GateStopWithStream(c) ==
    /\ gate[c] = "select"
    /\ handle[c] = "closed" /\ ~up[c]
    /\ gate' = [gate EXCEPT ![c] = "exited"]
    /\ UNCHANGED <<mgrVars, entryVars, pc, up, handle, cur, tick, kick>>

\* select: <-handle.done
GateStop(c) ==
    /\ gate[c] = "select"
    /\ handle[c] = "closed"
    /\ gate' = [gate EXCEPT ![c] = "exited"]
    /\ UNCHANGED <<mgrVars, entryVars, pc, up, handle, cur, tick, kick>>

\* select: rawIn closed; the deferred handle.close runs on the way out.
GateRawClosed(c) ==
    /\ gate[c] = "select"
    /\ ~up[c]
    /\ handle' = [handle EXCEPT ![c] = "closed"]
    /\ gate' = [gate EXCEPT ![c] = "exited"]
    /\ UNCHANGED <<mgrVars, entryVars, pc, up, cur, tick, kick>>

\* select: a command; the entry whose idle timer to refresh is looked up.
GateRecv(c) ==
    /\ gate[c] = "select"
    /\ c \in Sender
    /\ \E e \in Entry \cup {NoEntry} :
        /\ Found(ViewerOf[c], e)
        /\ cur' = [cur EXCEPT ![c] = e]
    /\ gate' = [gate EXCEPT ![c] = "check"]
    /\ UNCHANGED <<mgrVars, entryVars, pc, up, handle, tick, kick>>

\* Mutated form: touchIdle resets a timer endSession has disarmed.
TouchIdleAlways(e) == IF e # NoEntry THEN [idle EXCEPT ![e] = "armed"] ELSE idle

\* touchIdle, under idleMu only: Reset re-arms a timer that is not nil.
TouchIdle(e) ==
    IF e # NoEntry /\ idle[e] # "nil" THEN [idle EXCEPT ![e] = "armed"] ELSE idle

\* touchIdle, then isActive is read, by viewer id, in a critical section of its
\* own. (A timer or an end of session between the two gives the same state as
\* one before or after both.)
GateCheck(c) ==
    /\ gate[c] = "check"
    /\ idle' = TouchIdle(cur[c])
    /\ gate' = [gate EXCEPT ![c] =
                  IF active # NoEntry /\ ViewerId(active) = ViewerOf[c]
                  THEN "push" ELSE "select"]
    /\ cur' = [cur EXCEPT ![c] = NoEntry]
    /\ UNCHANGED <<mgrVars, ctx, gates, gatesDone, idleCall, watch,
                   pc, up, handle, tick, kick>>

\* Under handle.mu: forward into the open channel.
GatePush(c) ==
    /\ gate[c] = "push"
    /\ handle[c] = "open"
    /\ gate' = [gate EXCEPT ![c] = "select"]
    /\ UNCHANGED <<mgrVars, entryVars, pc, up, handle, cur, tick, kick>>

\* Under handle.mu: closed meanwhile, the command is dropped.
GateDrop(c) ==
    /\ gate[c] = "push"
    /\ handle[c] = "closed"
    /\ gate' = [gate EXCEPT ![c] = "select"]
    /\ UNCHANGED <<mgrVars, entryVars, pc, up, handle, cur, tick, kick>>

-----------------------------------------------------------------------------
(* The rest of Authorize: drainToTarget returns, then Release. *)

DrainExit(c) ==
    /\ pc[c] = "draining"
    /\ handle[c] = "closed" \/ ~up[c]
    /\ pc' = [pc EXCEPT ![c] = "releasing"]
    /\ UNCHANGED <<mgrVars, entryVars, up, handle, gate, cur, tick, kick>>

\* Release, first critical section, entry active: endSession comes later.
ReleaseActive(c) ==
    /\ pc[c] = "releasing"
    /\ active = Claimed(c)
    /\ pc' = [pc EXCEPT ![c] = "ending"]
    /\ UNCHANGED <<mgrVars, entryVars, up, handle, gate, cur, tick, kick>>

\* Release, entry still waiting: removed, cancelled, its gates closed.
ReleaseQueued(c) ==
    /\ pc[c] = "releasing"
    /\ active # Claimed(c)
    /\ \E k \in 1..Len(queue) : queue[k] = c /\ queue' = Without(queue, k)
    /\ ctx' = [ctx EXCEPT ![Claimed(c)] = "done"]
    /\ gates' = [gates EXCEPT ![Claimed(c)] = {}]
    /\ gatesDone' = [gatesDone EXCEPT ![Claimed(c)] = TRUE]
    /\ handle' = CloseHandles(gates[Claimed(c)])
    /\ pc' = [pc EXCEPT ![c] = "done"]
    /\ UNCHANGED <<active, stopped, evClosed, panicked, told, idle, idleCall,
                   watch, up, gate, cur, tick, kick>>

\* Mutated form: Release does not look at the queue.
ReleaseIgnoresQueue(c) ==
    /\ pc[c] = "releasing"
    /\ active # Claimed(c)
    /\ pc' = [pc EXCEPT ![c] = "done"]
    /\ UNCHANGED <<mgrVars, entryVars, up, handle, gate, cur, tick, kick>>

\* Release, entry neither active nor queued: nothing to do.
ReleaseNoop(c) ==
    /\ pc[c] = "releasing"
    /\ active # Claimed(c)
    /\ ~Queued(c)
    /\ pc' = [pc EXCEPT ![c] = "done"]
    /\ UNCHANGED <<mgrVars, entryVars, up, handle, gate, cur, tick, kick>>

\* Release, second critical section.
ReleaseEnd(c) ==
    /\ pc[c] = "ending"
    /\ EndSession(Claimed(c), watch)
    /\ pc' = [pc EXCEPT ![c] = "done"]
    /\ UNCHANGED <<idleCall, up, gate, cur, tick, kick>>

-----------------------------------------------------------------------------
(* Timers, the watcher goroutine, the operator and shutdown. *)

\* context.WithTimeout of a started session reaches its deadline.
CtxTimeout(e) ==
    /\ watch[e] = "run"
    /\ ctx[e] = "live"
    /\ ctx' = [ctx EXCEPT ![e] = "done"]
    /\ UNCHANGED <<mgrVars, gates, gatesDone, idle, idleCall, watch, callVars, tick, kick>>

\* Mutated form: the watcher returns without ending the session.
WatchDoneSilently(e) ==
    /\ watch[e] = "run" /\ tick # e
    /\ ctx[e] = "done"
    /\ watch' = [watch EXCEPT ![e] = "done"]
    /\ UNCHANGED <<mgrVars, ctx, gates, gatesDone, idle, idleCall, callVars, tick, kick>>

\* watchSession: playerCtx is done.
WatchDone(e) ==
    /\ watch[e] = "run"
    /\ tick # e
    /\ ctx[e] = "done"
    /\ EndSession(e, [watch EXCEPT ![e] = "done"])
    /\ UNCHANGED <<idleCall, pc, up, gate, cur, tick, kick>>

\* watchSession: ticker fired and isStillActive read TRUE (FALSE: no change).
\* At most one watcher at a time is between the two critical sections.
WatchTick(e) ==
    /\ watch[e] = "run"
    /\ tick = NoEntry
    /\ active = e
    /\ tick' = e
    /\ UNCHANGED <<mgrVars, entryVars, callVars, kick>>

\* watchSession: the tick is emitted in a second critical section. A tick
\* carries no lifecycle information, so told keeps its value.
WatchEmitTick(e) ==
    /\ tick = e
    /\ tick' = NoEntry
    /\ EmitEvent(told)
    /\ UNCHANGED <<active, queue, stopped, evClosed, entryVars, callVars, kick>>

\* The idle timer expires: its AfterFunc goroutine starts, mu not yet held.
IdleFire(e) ==
    /\ idle[e] = "armed"
    /\ idle' = [idle EXCEPT ![e] = "fired"]
    /\ idleCall' = [idleCall EXCEPT ![e] = TRUE]
    /\ UNCHANGED <<mgrVars, ctx, gates, gatesDone, watch, callVars, tick, kick>>

IdleEnd(e) ==
    /\ idleCall[e]
    /\ EndSession(e, watch)
    /\ idleCall' = [idleCall EXCEPT ![e] = FALSE]
    /\ UNCHANGED <<pc, up, gate, cur, tick, kick>>

\* KickCurrentController: m.active is read, the lock dropped, ...
KickRead ==
    /\ HeartbeatKick
    /\ kick = NoEntry
    /\ active # NoEntry
    /\ kick' = active
    /\ UNCHANGED <<mgrVars, entryVars, callVars, tick>>

\* ... and the entry that was read is ended.
KickEnd ==
    /\ kick # NoEntry
    /\ EndSession(kick, watch)
    /\ kick' = NoEntry
    /\ UNCHANGED <<idleCall, pc, up, gate, cur, tick>>

\* Run, ctx.Done: everything is cancelled; active and queue keep their values.
Shutdown ==
    LET live == {e \in Entry : e = active \/ (e[2] = "claimed" /\ Queued(e[1]))}
    IN  /\ ~stopped
        /\ stopped' = TRUE
        /\ ctx' = [e \in Entry |-> IF e \in live THEN "done" ELSE ctx[e]]
        /\ gatesDone' = [e \in Entry |-> e \in live \/ gatesDone[e]]
        /\ gates' = [e \in Entry |-> IF e \in live THEN {} ELSE gates[e]]
        /\ handle' = CloseHandles(UNION {gates[e] : e \in live})
        /\ UNCHANGED <<active, queue, evClosed, panicked, told, idle, idleCall,
                       watch, pc, up, gate, cur, tick, kick>>

CloseEvents ==
    /\ stopped /\ ~evClosed
    /\ evClosed' = TRUE
    /\ UNCHANGED <<active, queue, stopped, panicked, told, entryVars, callVars, tick, kick>>

\* The viewer disconnects: the connection's context ends and raw closes. Claim
\* does not look at the connection and neither does Release, so only the time
\* between the two is distinguished.
Disconnect(c) ==
    /\ up[c]
    /\ pc[c] \in {"claimed", "draining"}
    /\ up' = [up EXCEPT ![c] = FALSE]
    /\ UNCHANGED <<mgrVars, entryVars, pc, handle, gate, cur, tick, kick>>

-----------------------------------------------------------------------------
Claim(c)   == ClaimBadToken(c) \/ ClaimActive(c) \/ ClaimRefused(c) \/ ClaimQueued(c)
Gate(c)    == GateOpen(c) \/ GateClosed(c)
GateRun(c) == \/ GateStop(c) \/ GateRawClosed(c) \/ GateRecv(c) \/ GateCheck(c)
              \/ GatePush(c) \/ GateDrop(c)
Release(c) == ReleaseActive(c) \/ ReleaseQueued(c) \/ ReleaseNoop(c) \/ ReleaseEnd(c)
WatchSession(e) == WatchDone(e) \/ WatchTick(e) \/ WatchEmitTick(e)

Next ==
    \/ \E c \in Call : Claim(c) \/ Gate(c) \/ GateRun(c) \/ DrainExit(c) \/ Release(c)
    \/ \E c \in Call : Disconnect(c)
    \/ \E e \in Entry : CtxTimeout(e) \/ WatchSession(e) \/ IdleFire(e) \/ IdleEnd(e)
    \/ KickRead \/ KickEnd \/ Shutdown \/ CloseEvents

Spec == Init /\ [][Next]_vars

\* A session's deadline is reached and its watcher runs. The watcher's select
\* picks among its ready cases at random, hence strong fairness for the one
\* that ends the session; nothing is assumed of viewers or of the operator.
WatchFairness ==
    /\ \A e \in Entry : WF_vars(CtxTimeout(e)) /\ SF_vars(WatchDone(e))
    /\ WF_vars(\E e \in Entry : WatchEmitTick(e))

\* A gate goroutine runs, and its select takes a ready done channel in the end.
GateFairness ==
    \A c \in Call : SF_vars(GateStop(c)) /\ WF_vars(GateCheck(c) \/ GatePush(c) \/ GateDrop(c))

LiveSpec == Spec /\ WatchFairness /\ GateFairness

-----------------------------------------------------------------------------
(* Properties. *)

\* The entries the manager still knows: the controller and the line.
Live(e) == e = active \/ (e[2] = "claimed" /\ Queued(e[1]))

\* Type correctness.
TypeOK ==
    /\ active \in Entry \cup {NoEntry}
    /\ queue \in Seq(Call)
    /\ stopped \in BOOLEAN /\ evClosed \in BOOLEAN /\ panicked \in BOOLEAN
    /\ told \in [Viewer -> {"nothing", "queued", "granted", "revoked"}]
    /\ ctx \in [Entry -> {"none", "live", "done"}]
    /\ gates \in [Entry -> SUBSET Call]
    /\ gatesDone \in [Entry -> BOOLEAN]
    /\ idle \in [Entry -> {"nil", "armed", "fired"}]
    /\ idleCall \in [Entry -> BOOLEAN]
    /\ watch \in [Entry -> {"off", "run", "done"}]
    /\ pc \in [Call -> {"new", "claimed", "draining", "releasing", "ending", "done"}]
    /\ up \in [Call -> BOOLEAN]
    /\ handle \in [Call -> {"none", "open", "closed"}]
    /\ gate \in [Call -> {"off", "select", "check", "push", "exited"}]
    /\ cur \in [Call -> Entry \cup {NoEntry}]
    /\ tick \in Entry \cup {NoEntry}
    /\ kick \in Entry \cup {NoEntry}

\* The slot and the line are consistent: nobody waits for a free slot, no
\* claim waits twice, and whoever holds the slot is not in line as well.
\* (Claim, endSession and Release each change active or queue.)
FifoAuthority ==
    /\ active = NoEntry => queue = <<>>
    /\ \A i, j \in 1..Len(queue) : i # j => queue[i] # queue[j]
    /\ \A i \in 1..Len(queue) : active # NoEntry => active[1] # queue[i]

\* The gate goroutine reads isActive in one critical section and forwards in
\* another; whenever it can still forward, its viewer is still the controller
\* (closeGates runs before the slot changes hands).
ForwardOnlyWhileController ==
    \A c \in Call :
        gate[c] = "push" /\ handle[c] = "open"
            => active # NoEntry /\ ViewerId(active) = ViewerOf[c]

\* An open gate is registered on an entry of its viewer that the manager will
\* close: none survives the session it was opened under, through expiry, kick,
\* release, promotion or shutdown.
NoOrphanGate ==
    \A c \in Call :
        handle[c] = "open" =>
            \E e \in Entry : Live(e) /\ c \in gates[e] /\ ViewerId(e) = ViewerOf[c]

\* emitEvent never sends on eventsOut after Run closed it (that would panic).
NoSendOnClosedEvents == ~panicked

\* The idle timer of an ended session is never armed again, whatever stale
\* entry pointer a gate goroutine still holds when it calls touchIdle.
IdleTimerOfControllerOnly == \A e \in Entry : idle[e] # "nil" => e = active

\* Release lets go of the entry its Session points at, although it drops the
\* lock between the test of m.active and endSession.
ReleaseDropsItsEntry ==
    \A c \in Call : pc[c] = "done" => active # Claimed(c) /\ ~Queued(c)

\* No session is ended on another's account: the endSession calls of a kick, an
\* idle timer, a watcher or a Release that come late, when their entry has been
\* replaced by the next one, leave that next one alone.
EndedOnItsOwnAccount ==
    [][\A e \in Entry : active = e /\ active' # e =>
           ctx[e] = "done" \/ idleCall[e] \/ kick = e \/ pc[e[1]] = "ending"]_vars

\* With one claim for each viewer, the last lifecycle event about a viewer
\* tells the truth about it until the manager is stopped.
EventsTellTheTruth ==
    (~stopped /\ \A c, d \in Call : ViewerOf[c] = ViewerOf[d] => c = d) =>
        \A c \in Call :
            /\ told[ViewerOf[c]] = "granted" <=> active \in {Claimed(c), Promoted(c)}
            /\ Queued(c) => told[ViewerOf[c]] = "queued"

\* A claim that waits is promoted or leaves the line.
QueueIsServed == \A c \in Call : Queued(c) ~> ~Queued(c)

\* A gate goroutine whose handle was closed terminates (no goroutine leak).
GateGoroutineExits == \A c \in Call : handle[c] = "closed" ~> gate[c] \in {"off", "exited"}

\* The manager implements the abstract control authority.
Authority == INSTANCE ControlAuthority WITH
    Claimant <- Call,
    Nobody   <- NoEntry,
    holder   <- IF active = NoEntry THEN NoEntry ELSE active[1],
    waiting  <- queue,
    served   <- {c \in Call : watch[Claimed(c)] # "off" \/ watch[Promoted(c)] # "off"}

ImplementsAuthority == Authority!Spec

-----------------------------------------------------------------------------
(* What a comment of the code says and the code does not do. *)

\* session.go, Release: "the controller slot is freed immediately".
ReleaseFreesSlot ==
    \A c \in Call : pc[c] = "done" => active \notin {Claimed(c), Promoted(c)}

=============================================================================
