------------------------ MODULE SessionManagerProofs ------------------------
(* Theorems about SessionManager, for any calls, viewers and configuration. *)
EXTENDS SessionManager, TLAPS

-----------------------------------------------------------------------------
(* Type correctness. *)

\* Without removes one position of a sequence.
LEMMA WithoutType ==
    ASSUME NEW q \in Seq(Call), NEW k \in 1..Len(q)
    PROVE  /\ Without(q, k) \in Seq(Call)
           /\ Len(Without(q, k)) = Len(q) - 1
           /\ \A i \in 1..(Len(q) - 1) : Without(q, k)[i] = IF i < k THEN q[i] ELSE q[i + 1]
  <1>1. Len(q) \in Nat /\ q \in [1..Len(q) -> Call]
    OBVIOUS
  <1>2. \A i \in 1..(Len(q) - 1) : (IF i < k THEN q[i] ELSE q[i + 1]) \in Call
    BY <1>1
  <1>3. Without(q, k) \in [1..(Len(q) - 1) -> Call]
    BY <1>2 DEF Without
  <1> QED
    BY <1>1, <1>3 DEF Without

\* endSession keeps the types of what it changes.
LEMMA EndSessionType ==
    ASSUME TypeOK, NEW e \in Entry, NEW w \in [Entry -> {"off", "run", "done"}],
           EndSession(e, w)
    PROVE  /\ active' \in Entry \cup {NoEntry}
           /\ queue' \in Seq(Call)
           /\ stopped' \in BOOLEAN /\ evClosed' \in BOOLEAN /\ panicked' \in BOOLEAN
           /\ told' \in [Viewer -> {"nothing", "queued", "granted", "revoked"}]
           /\ ctx' \in [Entry -> {"none", "live", "done"}]
           /\ gates' \in [Entry -> SUBSET Call]
           /\ gatesDone' \in [Entry -> BOOLEAN]
           /\ idle' \in [Entry -> {"nil", "armed", "fired"}]
           /\ watch' \in [Entry -> {"off", "run", "done"}]
           /\ handle' \in [Call -> {"none", "open", "closed"}]
  <1> USE ConstantsAssumption
  <1>0. ViewerId(e) \in Viewer
    BY DEF ViewerId, Entry
  <1>1. CASE EndStale(e, w)
    BY <1>1 DEF EndStale, TypeOK, mgrVars
  <1>2. CASE EndLast(e, w)
    BY <1>0, <1>2 DEF EndLast, Vacate, Terminate, EmitEvent, CloseHandles, TypeOK
  <1>3. CASE EndPromote(e, w)
    <2> DEFINE n == Head(queue)
    <2>1. n \in Call /\ Tail(queue) \in Seq(Call)
      BY <1>3 DEF EndPromote, TypeOK
    <2>2. Promoted(n) \in Entry /\ Claimed(n) \in Entry /\ ViewerId(Promoted(n)) \in Viewer
      BY <2>1 DEF Promoted, Claimed, ViewerId, Entry
    <2> HIDE DEF n
    <2>3. Promotion(e, w, n, Tail(queue), CancelBoth(e, n), TransferGates(e, n))
      BY <1>3 DEF EndPromote, n
    <2>4. QED
      BY <1>0, <2>1, <2>2, <2>3
      DEF Promotion, CancelBoth, TransferGates, Terminate, StartSessionLocked,
          EmitEvent, CloseHandles, TypeOK
  <1> QED
    BY <1>1, <1>2, <1>3 DEF EndSession

\* One step of any kind keeps the types.
LEMMA TypeStep == TypeOK /\ [Next]_vars => TypeOK'
  <1> SUFFICES ASSUME TypeOK, [Next]_vars PROVE TypeOK'
    OBVIOUS
  <1> USE ConstantsAssumption
  <1>0. /\ \A c \in Call : Claimed(c) \in Entry /\ ViewerOf[c] \in Viewer
        /\ \A c \in Call : ViewerId(Claimed(c)) \in Viewer
    BY DEF Claimed, ViewerId, Entry
  <1>1. CASE UNCHANGED vars
    BY <1>1 DEF vars, mgrVars, entryVars, callVars, TypeOK
  <1>2. ASSUME NEW c \in Call, Claim(c) PROVE TypeOK'
    <2>1. CASE ClaimBadToken(c) \/ ClaimRefused(c)
      <3>1. /\ pc' = [pc EXCEPT ![c] = "done"]
            /\ UNCHANGED <<mgrVars, entryVars, up, handle, gate, cur, tick, kick>>
        BY <2>1 DEF ClaimBadToken, ClaimRefused
      <3> QED
        BY <3>1 DEF mgrVars, entryVars, TypeOK
    <2>2. CASE ClaimActive(c)
      BY <1>0, <2>2 DEF ClaimActive, StartSessionLocked, EmitEvent, TypeOK
    <2>3. CASE ClaimQueued(c)
      BY <1>0, <2>3 DEF ClaimQueued, EmitEvent, TypeOK
    <2> QED
      BY <1>2, <2>1, <2>2, <2>3 DEF Claim
  <1>3. ASSUME NEW c \in Call, Gate(c) PROVE TypeOK'
    <2>1. CASE GateOpen(c)
      BY <2>1 DEF GateOpen, mgrVars, TypeOK
    <2>2. CASE GateClosed(c)
      BY <2>2 DEF GateClosed, mgrVars, entryVars, TypeOK
    <2> QED
      BY <1>3, <2>1, <2>2 DEF Gate
  <1>4. ASSUME NEW c \in Call, GateRun(c) PROVE TypeOK'
    <2>1. CASE GateStop(c)
      BY <2>1 DEF GateStop, mgrVars, entryVars, TypeOK
    <2>4. CASE GateRawClosed(c)
      BY <2>4 DEF GateRawClosed, mgrVars, entryVars, TypeOK
    <2>5. CASE GatePush(c)
      BY <2>5 DEF GatePush, mgrVars, entryVars, TypeOK
    <2>6. CASE GateDrop(c)
      BY <2>6 DEF GateDrop, mgrVars, entryVars, TypeOK
    <2>2. CASE GateRecv(c)
      BY <2>2 DEF GateRecv, mgrVars, entryVars, TypeOK
    <2>3. CASE GateCheck(c)
      BY <2>3 DEF GateCheck, TouchIdle, mgrVars, TypeOK
    <2> QED
      BY <1>4, <2>1, <2>2, <2>3, <2>4, <2>5, <2>6 DEF GateRun
  <1>5. ASSUME NEW c \in Call, DrainExit(c) \/ Disconnect(c) PROVE TypeOK'
    <2>1. CASE DrainExit(c)
      BY <2>1 DEF DrainExit, mgrVars, entryVars, TypeOK
    <2>2. CASE Disconnect(c)
      BY <2>2 DEF Disconnect, mgrVars, entryVars, TypeOK
    <2> QED
      BY <1>5, <2>1, <2>2
  <1>6. ASSUME NEW c \in Call, Release(c) PROVE TypeOK'
    <2>1. CASE ReleaseActive(c) \/ ReleaseNoop(c)
      BY <2>1 DEF ReleaseActive, ReleaseNoop, mgrVars, entryVars, TypeOK
    <2>2. CASE ReleaseQueued(c)
      <3>1. queue' \in Seq(Call)
        BY <2>2, WithoutType DEF ReleaseQueued, TypeOK
      <3> QED
        BY <1>0, <2>2, <3>1 DEF ReleaseQueued, CloseHandles, TypeOK
    <2>3. CASE ReleaseEnd(c)
      <3>1. EndSession(Claimed(c), watch) /\ watch \in [Entry -> {"off", "run", "done"}]
        BY <2>3 DEF ReleaseEnd, TypeOK
      <3> QED
        BY <1>0, <2>3, <3>1, EndSessionType DEF ReleaseEnd, TypeOK
    <2> QED
      BY <1>6, <2>1, <2>2, <2>3 DEF Release
  <1>7. ASSUME NEW e \in Entry, CtxTimeout(e) \/ IdleFire(e) PROVE TypeOK'
    <2>1. CASE CtxTimeout(e)
      BY <2>1 DEF CtxTimeout, mgrVars, callVars, TypeOK
    <2>2. CASE IdleFire(e)
      BY <2>2 DEF IdleFire, mgrVars, callVars, TypeOK
    <2> QED
      BY <1>7, <2>1, <2>2
  <1>8. ASSUME NEW e \in Entry, WatchSession(e) PROVE TypeOK'
    <2>1. CASE WatchDone(e)
      <3>1. [watch EXCEPT ![e] = "done"] \in [Entry -> {"off", "run", "done"}]
        BY DEF TypeOK
      <3> QED
        BY <2>1, <3>1, EndSessionType DEF WatchDone, TypeOK
    <2>2. CASE WatchTick(e) \/ WatchEmitTick(e)
      BY <2>2 DEF WatchTick, WatchEmitTick, EmitEvent, mgrVars, entryVars, callVars, TypeOK
    <2> QED
      BY <1>8, <2>1, <2>2 DEF WatchSession
  <1>9. ASSUME NEW e \in Entry, IdleEnd(e) PROVE TypeOK'
    <2>1. watch \in [Entry -> {"off", "run", "done"}]
      BY DEF TypeOK
    <2> QED
      BY <1>9, <2>1, EndSessionType DEF IdleEnd, TypeOK
  <1>10. CASE KickRead
    BY <1>10 DEF KickRead, mgrVars, entryVars, callVars, TypeOK
  <1>11. CASE KickEnd
    <2>1. watch \in [Entry -> {"off", "run", "done"}] /\ kick \in Entry
      BY <1>11 DEF KickEnd, TypeOK
    <2> QED
      BY <1>11, <2>1, EndSessionType DEF KickEnd, TypeOK
  <1>12. CASE Shutdown \/ CloseEvents
    <2>1. CASE Shutdown
      BY <2>1 DEF Shutdown, CloseHandles, TypeOK
    <2>2. CASE CloseEvents
      BY <2>2 DEF CloseEvents, entryVars, callVars, TypeOK
    <2> QED
      BY <1>12, <2>1, <2>2
  <1> QED
    BY <1>1, <1>2, <1>3, <1>4, <1>5, <1>6, <1>7, <1>8, <1>9, <1>10, <1>11, <1>12 DEF Next

\* The initial state is well typed.
LEMMA InitType == Init => TypeOK
  <1> SUFFICES ASSUME Init PROVE TypeOK
    OBVIOUS
  <1>1. /\ active \in Entry \cup {NoEntry} /\ queue \in Seq(Call)
        /\ tick \in Entry \cup {NoEntry} /\ kick \in Entry \cup {NoEntry}
    BY DEF Init
  <1>5. stopped \in BOOLEAN /\ evClosed \in BOOLEAN /\ panicked \in BOOLEAN
    BY DEF Init
  <1>2. /\ gates \in [Entry -> SUBSET Call]
        /\ ctx \in [Entry -> {"none", "live", "done"}]
        /\ idle \in [Entry -> {"nil", "armed", "fired"}]
        /\ watch \in [Entry -> {"off", "run", "done"}]
    BY DEF Init
  <1>3. /\ gatesDone \in [Entry -> BOOLEAN] /\ idleCall \in [Entry -> BOOLEAN]
        /\ up \in [Call -> BOOLEAN]
        /\ cur \in [Call -> Entry \cup {NoEntry}]
    BY DEF Init
  <1>4. /\ told \in [Viewer -> {"nothing", "queued", "granted", "revoked"}]
        /\ pc \in [Call -> {"new", "claimed", "draining", "releasing", "ending", "done"}]
        /\ handle \in [Call -> {"none", "open", "closed"}]
        /\ gate \in [Call -> {"off", "select", "check", "push", "exited"}]
    BY DEF Init
  <1> QED
    BY <1>1, <1>2, <1>3, <1>4, <1>5 DEF TypeOK

\* Every reachable state is well typed.
THEOREM TypeCorrect == Spec => []TypeOK
  BY InitType, TypeStep, PTL DEF Spec

-----------------------------------------------------------------------------
(* The slot and the line. FifoAuthority is not inductive by itself: that a  *)
(* promoted claim is not already in line, and that Release has nothing left *)
(* to do in its last steps, depends on where each call is.                  *)

CallInv ==
    /\ \A i \in 1..Len(queue) : pc[queue[i]] \in {"claimed", "draining", "releasing"}
    /\ \A c \in Call : active = Claimed(c) =>
           pc[c] \in {"claimed", "draining", "releasing", "ending"}
    /\ \A c \in Call : active = Promoted(c) => pc[c] # "new"

LineInv == TypeOK /\ FifoAuthority /\ CallInv

\* Entries of different calls, and the two entries of a call, are different.
LEMMA EntryFacts ==
    /\ \A c \in Call : Claimed(c) \in Entry /\ Promoted(c) \in Entry
    /\ \A c \in Call : Claimed(c) # NoEntry /\ Promoted(c) # NoEntry
    /\ \A c \in Call : Claimed(c)[1] = c /\ Promoted(c)[1] = c
    /\ \A c, d \in Call : Claimed(c) # Promoted(d)
    /\ \A c, d \in Call : Claimed(c) = Claimed(d) => c = d
    /\ \A c, d \in Call : Promoted(c) = Promoted(d) => c = d
    /\ \A e \in Entry : e[1] \in Call /\ (e = Claimed(e[1]) \/ e = Promoted(e[1]))
  BY ConstantsAssumption DEF Entry, Claimed, Promoted

\* endSession, seen from the slot and the line only.
LEMMA EndSessionLine ==
    ASSUME TypeOK, NEW e \in Entry, NEW w, EndSession(e, w)
    PROVE  \/ active # e /\ UNCHANGED <<active, queue>>
           \/ active = e /\ queue = <<>> /\ active' = NoEntry /\ queue' = <<>>
           \/ /\ active = e /\ Len(queue) > 0 /\ queue[1] \in Call
              /\ active' = Promoted(queue[1])
              /\ Len(queue') = Len(queue) - 1
              /\ \A i \in 1..Len(queue') : queue'[i] = queue[i + 1]
  <1>1. CASE EndStale(e, w)
    BY <1>1 DEF EndStale, mgrVars
  <1>2. CASE EndLast(e, w)
    BY <1>2 DEF EndLast, Vacate, Terminate
  <1>3. CASE EndPromote(e, w)
    <2>1. /\ active = e /\ queue # <<>> /\ queue' = Tail(queue)
          /\ active' = Promoted(Head(queue))
      BY <1>3 DEF EndPromote, Promotion, Terminate, StartSessionLocked
    <2>2. queue \in Seq(Call)
      BY DEF TypeOK
    <2> QED
      BY <2>1, <2>2
  <1> QED
    BY <1>1, <1>2, <1>3 DEF EndSession

\* endSession keeps the line consistent, whichever goroutine calls it, when pc
\* changes at most for a call whose Release ends its entry in this very step.
LEMMA EndSessionInv ==
    ASSUME LineInv, TypeOK', NEW e \in Entry, NEW w, EndSession(e, w),
           \/ pc' = pc
           \/ \E c \in Call : /\ pc[c] = "ending" /\ e = Claimed(c)
                            /\ pc' = [pc EXCEPT ![c] = "done"]
    PROVE  FifoAuthority' /\ CallInv'
  <1>0. TypeOK /\ FifoAuthority /\ CallInv /\ queue \in Seq(Call) /\ queue' \in Seq(Call)
    BY DEF LineInv, TypeOK
  <1>p. \A d \in Call : pc'[d] = pc[d] \/ (pc[d] = "ending" /\ pc'[d] = "done" /\ e = Claimed(d))
    BY <1>0, EntryFacts DEF TypeOK
  <1>1. CASE active # e /\ UNCHANGED <<active, queue>>
    BY <1>0, <1>1, <1>p, EntryFacts DEF FifoAuthority, CallInv
  <1>2. CASE active = e /\ queue = <<>> /\ active' = NoEntry /\ queue' = <<>>
    BY <1>0, <1>2, EntryFacts DEF FifoAuthority, CallInv
  <1>3. CASE /\ active = e /\ Len(queue) > 0 /\ queue[1] \in Call
             /\ active' = Promoted(queue[1])
             /\ Len(queue') = Len(queue) - 1
             /\ \A i \in 1..Len(queue') : queue'[i] = queue[i + 1]
    <2>1. active' # NoEntry /\ active'[1] = queue[1]
      BY <1>3, EntryFacts
    <2>2. FifoAuthority'
      <3>1. \A i, j \in 1..Len(queue') : i # j => queue'[i] # queue'[j]
        BY <1>0, <1>3 DEF FifoAuthority
      <3>2. \A i \in 1..Len(queue') : active'[1] # queue'[i]
        <4> SUFFICES ASSUME NEW i \in 1..Len(queue') PROVE queue[1] # queue'[i]
          BY <2>1
        <4>1. i + 1 \in 1..Len(queue) /\ 1 \in 1..Len(queue) /\ i + 1 # 1
          BY <1>0, <1>3
        <4> QED
          BY <1>0, <1>3, <4>1 DEF FifoAuthority
      <3> QED
        BY <2>1, <3>1, <3>2 DEF FifoAuthority
    <2>3. \A i \in 1..Len(queue') : pc'[queue'[i]] \in {"claimed", "draining", "releasing"}
      BY <1>0, <1>3, <1>p DEF CallInv
    <2>4. \A c \in Call : active' # Claimed(c)
      BY <1>3, EntryFacts
    <2>5. \A c \in Call : active' = Promoted(c) => pc'[c] # "new"
      <3>1. 1 \in 1..Len(queue)
        BY <1>0, <1>3
      <3>2. pc[queue[1]] \in {"claimed", "draining", "releasing"}
        BY <1>0, <3>1 DEF CallInv
      <3>3. pc'[queue[1]] # "new"
        BY <1>3, <1>p, <3>2
      <3>4. \A c \in Call : active' = Promoted(c) => c = queue[1]
        BY <1>3, EntryFacts
      <3> QED
        BY <3>3, <3>4
    <2> QED
      BY <2>2, <2>3, <2>4, <2>5 DEF CallInv
  <1> QED
    BY <1>0, <1>1, <1>2, <1>3, EndSessionLine

\* One step of any kind keeps the line consistent.
LEMMA LineStep == LineInv /\ [Next]_vars => LineInv'
  <1> SUFFICES ASSUME LineInv, [Next]_vars PROVE LineInv'
    OBVIOUS
  <1>0. TypeOK /\ FifoAuthority /\ CallInv /\ queue \in Seq(Call)
    BY DEF LineInv, TypeOK
  <1>t. TypeOK'
    BY <1>0, TypeStep
  <1> SUFFICES FifoAuthority' /\ CallInv'
    BY <1>t DEF LineInv
  <1>k. ASSUME UNCHANGED <<active, queue, pc>> PROVE FifoAuthority' /\ CallInv'
    BY <1>0, <1>k DEF FifoAuthority, CallInv
  <1>1. CASE UNCHANGED vars
    BY <1>1, <1>k DEF vars, mgrVars, callVars
  <1>2. ASSUME NEW c \in Call, Claim(c) PROVE FifoAuthority' /\ CallInv'
    <2>0. pc[c] = "new" /\ \A d \in Call : d # c => pc'[d] = pc[d]
      BY <1>0, <1>2 DEF Claim, ClaimBadToken, ClaimRefused, ClaimActive, ClaimQueued, TypeOK
    <2>n. /\ \A i \in 1..Len(queue) : queue[i] # c
          /\ active # Claimed(c) /\ active # Promoted(c)
      BY <1>0, <2>0 DEF CallInv
    <2>1. CASE ClaimBadToken(c) \/ ClaimRefused(c)
      <3>1. UNCHANGED <<active, queue>>
        BY <2>1 DEF ClaimBadToken, ClaimRefused, mgrVars
      <3> QED
        BY <1>0, <2>0, <2>n, <3>1 DEF FifoAuthority, CallInv
    <2>2. CASE ClaimActive(c)
      <3>1. active' = Claimed(c) /\ queue = <<>> /\ queue' = <<>> /\ pc'[c] = "claimed"
        BY <1>0, <2>2 DEF ClaimActive, StartSessionLocked, FifoAuthority, TypeOK
      <3> QED
        BY <3>1, EntryFacts DEF FifoAuthority, CallInv
    <2>3. CASE ClaimQueued(c)
      <3>1. /\ active # NoEntry /\ active' = active /\ queue' = Append(queue, c)
            /\ pc'[c] = "claimed"
        BY <1>0, <2>3 DEF ClaimQueued, TypeOK
      <3>2. active \in Entry /\ active[1] # c
        BY <1>0, <2>n, <3>1, EntryFacts DEF TypeOK
      <3>3. /\ Len(queue') = Len(queue) + 1 /\ queue'[Len(queue) + 1] = c
            /\ \A i \in 1..Len(queue) : queue'[i] = queue[i]
        BY <1>0, <3>1
      <3>4. FifoAuthority'
        BY <1>0, <2>n, <3>1, <3>2, <3>3 DEF FifoAuthority
      <3>5. CallInv'
        BY <1>0, <2>0, <2>n, <3>1, <3>3 DEF CallInv
      <3> QED
        BY <3>4, <3>5
    <2> QED
      BY <1>2, <2>1, <2>2, <2>3 DEF Claim
  <1>3. ASSUME NEW c \in Call, Gate(c) \/ DrainExit(c) PROVE FifoAuthority' /\ CallInv'
    <2>1. UNCHANGED <<active, queue>> /\ \A d \in Call : d # c => pc'[d] = pc[d]
      BY <1>0, <1>3 DEF Gate, GateOpen, GateClosed, DrainExit, mgrVars, TypeOK
    <2>2. /\ pc[c] \in {"claimed", "draining"}
          /\ pc'[c] \in {"draining", "releasing"}
      BY <1>0, <1>3 DEF Gate, GateOpen, GateClosed, DrainExit, TypeOK
    <2>3. \A i \in 1..Len(queue) : pc'[queue[i]] \in {"claimed", "draining", "releasing"}
      BY <1>0, <2>1, <2>2 DEF CallInv
    <2> QED
      BY <1>0, <2>1, <2>2, <2>3 DEF FifoAuthority, CallInv
  <1>4. ASSUME NEW c \in Call, GateRun(c) \/ Disconnect(c) PROVE FifoAuthority' /\ CallInv'
    BY <1>4, <1>k DEF GateRun, GateStop, GateRawClosed, GateRecv, GateCheck, GatePush,
                      GateDrop, Disconnect, mgrVars
  <1>5. ASSUME NEW c \in Call, Release(c) PROVE FifoAuthority' /\ CallInv'
    <2>1. CASE ReleaseActive(c)
      <3>1. /\ UNCHANGED <<active, queue>> /\ active = Claimed(c)
            /\ pc'[c] = "ending" /\ \A d \in Call : d # c => pc'[d] = pc[d]
        BY <1>0, <2>1 DEF ReleaseActive, mgrVars, TypeOK
      <3>2. \A i \in 1..Len(queue) : queue[i] # c
        BY <1>0, <3>1, EntryFacts DEF FifoAuthority
      <3> QED
        BY <1>0, <3>1, <3>2, EntryFacts DEF FifoAuthority, CallInv
    <2>2. CASE ReleaseNoop(c)
      <3>1. /\ UNCHANGED <<active, queue>> /\ active # Claimed(c)
            /\ pc'[c] = "done" /\ \A d \in Call : d # c => pc'[d] = pc[d]
            /\ \A i \in 1..Len(queue) : queue[i] # c
        BY <1>0, <2>2 DEF ReleaseNoop, mgrVars, TypeOK, Queued
      <3> QED
        BY <1>0, <3>1, EntryFacts DEF FifoAuthority, CallInv
    <2>3. CASE ReleaseQueued(c)
      <3>1. /\ active' = active /\ active # Claimed(c)
            /\ pc'[c] = "done" /\ \A d \in Call : d # c => pc'[d] = pc[d]
        BY <1>0, <2>3 DEF ReleaseQueued, TypeOK
      <3>2. PICK k \in 1..Len(queue) : queue[k] = c /\ queue' = Without(queue, k)
        BY <2>3 DEF ReleaseQueued
      <3>3. /\ Len(queue') = Len(queue) - 1
            /\ \A i \in 1..(Len(queue) - 1) :
                  queue'[i] = IF i < k THEN queue[i] ELSE queue[i + 1]
        BY <1>0, <3>2, WithoutType
      <3>4. \A i, j \in 1..Len(queue) : i # j => queue[i] # queue[j]
        BY <1>0 DEF FifoAuthority
      <3>5. \A i \in 1..Len(queue') : queue'[i] # c
        BY <1>0, <3>2, <3>3, <3>4
      <3>6. \A i \in 1..Len(queue') : \E j \in 1..Len(queue) : queue'[i] = queue[j]
        BY <1>0, <3>3
      <3>7. \A i, j \in 1..Len(queue') : i # j => queue'[i] # queue'[j]
        BY <1>0, <3>3, <3>4
      <3>8. active # NoEntry
        BY <1>0, <3>2 DEF FifoAuthority
      <3>9. FifoAuthority'
        BY <1>0, <3>1, <3>6, <3>7, <3>8 DEF FifoAuthority
      <3>10. CallInv'
        <4>1. \A i \in 1..Len(queue') : pc'[queue'[i]] \in {"claimed", "draining", "releasing"}
          <5> SUFFICES ASSUME NEW i \in 1..Len(queue')
                       PROVE  pc'[queue'[i]] \in {"claimed", "draining", "releasing"}
            OBVIOUS
          <5>1. PICK j \in 1..Len(queue) : queue'[i] = queue[j]
            BY <3>6
          <5>2. queue[j] \in Call /\ pc[queue[j]] \in {"claimed", "draining", "releasing"}
            BY <1>0 DEF CallInv
          <5> QED
            BY <3>1, <3>5, <5>1, <5>2
        <4>2. \A d \in Call : active' = Claimed(d) =>
                 pc'[d] \in {"claimed", "draining", "releasing", "ending"}
          BY <1>0, <3>1 DEF CallInv
        <4>3. \A d \in Call : active' = Promoted(d) => pc'[d] # "new"
          BY <1>0, <3>1 DEF CallInv
        <4> QED
          BY <4>1, <4>2, <4>3 DEF CallInv
      <3> QED
        BY <3>9, <3>10
    <2>4. CASE ReleaseEnd(c)
      BY <1>t, <2>4, EndSessionInv, EntryFacts DEF ReleaseEnd
    <2> QED
      BY <1>5, <2>1, <2>2, <2>3, <2>4 DEF Release
  <1>6. ASSUME NEW e \in Entry, CtxTimeout(e) \/ IdleFire(e) PROVE FifoAuthority' /\ CallInv'
    BY <1>6, <1>k DEF CtxTimeout, IdleFire, mgrVars, callVars
  <1>7. ASSUME NEW e \in Entry, WatchSession(e) PROVE FifoAuthority' /\ CallInv'
    <2>1. CASE WatchDone(e)
      BY <1>t, <2>1, EndSessionInv DEF WatchDone
    <2>2. CASE WatchTick(e) \/ WatchEmitTick(e)
      BY <2>2, <1>k DEF WatchTick, WatchEmitTick, mgrVars, callVars
    <2> QED
      BY <1>7, <2>1, <2>2 DEF WatchSession
  <1>8. ASSUME NEW e \in Entry, IdleEnd(e) PROVE FifoAuthority' /\ CallInv'
    BY <1>t, <1>8, EndSessionInv DEF IdleEnd
  <1>9. CASE KickEnd
    <2>1. kick \in Entry
      BY <1>0, <1>9 DEF KickEnd, TypeOK
    <2> QED
      BY <1>t, <1>9, <2>1, EndSessionInv DEF KickEnd
  <1>10. CASE KickRead \/ Shutdown \/ CloseEvents
    BY <1>10, <1>k DEF KickRead, Shutdown, CloseEvents, mgrVars, callVars
  <1> QED
    BY <1>1, <1>2, <1>3, <1>4, <1>5, <1>6, <1>7, <1>8, <1>9, <1>10 DEF Next

\* In every reachable state the controller slot and the waiting line agree.
THEOREM LineCorrect == Spec => []FifoAuthority
  <1>1. Init => LineInv
    <2>1. Init => TypeOK
      BY InitType
    <2> QED
      BY <2>1, EntryFacts DEF Init, LineInv, FifoAuthority, CallInv
  <1>2. LineInv => FifoAuthority
    BY DEF LineInv
  <1> QED
    BY <1>1, <1>2, LineStep, PTL DEF Spec

\* Release lets go of the entry its Session points at.
THEOREM ReleaseCorrect == Spec => []ReleaseDropsItsEntry
  <1>1. Init => LineInv
    BY InitType, EntryFacts DEF Init, LineInv, FifoAuthority, CallInv
  <1>2. LineInv => ReleaseDropsItsEntry
    BY DEF LineInv, CallInv, ReleaseDropsItsEntry, Queued
  <1> QED
    BY <1>1, <1>2, LineStep, PTL DEF Spec

-----------------------------------------------------------------------------
(* Gates. An open handle is registered on the entry findEntryLocked returns *)
(* for its viewer: this is what makes closeGates reach it in time, and it   *)
(* is inductive because entries of one viewer leave in the order in which   *)
(* they arrived.                                                            *)

Registered(c, e) == Found(ViewerOf[c], e) /\ c \in gates[e]

GateInv ==
    /\ \A c \in Call : handle[c] = "open" => \E e \in Entry : Registered(c, e)
    /\ ForwardOnlyWhileController

\* findEntryLocked, when it finds an entry.
LEMMA FoundMeans ==
    ASSUME NEW v, NEW e \in Entry
    PROVE  Found(v, e) <=>
              \/ active # NoEntry /\ ViewerId(active) = v /\ e = active
              \/ /\ ~(active # NoEntry /\ ViewerId(active) = v)
                 /\ \E i \in 1..Len(queue) : FirstQueued(v, i) /\ e = Claimed(queue[i])
  BY ConstantsAssumption DEF Found, FirstQueued

\* An entry findEntryLocked returns is one the manager still knows.
LEMMA FoundIsLive ==
    ASSUME TypeOK, NEW v, NEW e \in Entry, Found(v, e)
    PROVE  Live(e) /\ ViewerId(e) = v
  <1>1. CASE active # NoEntry /\ ViewerId(active) = v /\ e = active
    BY <1>1 DEF Live
  <1>2. CASE \E i \in 1..Len(queue) : FirstQueued(v, i) /\ e = Claimed(queue[i])
    <2>1. PICK i \in 1..Len(queue) : FirstQueued(v, i) /\ e = Claimed(queue[i])
      BY <1>2
    <2> QED
      BY <2>1 DEF Live, FirstQueued, Queued, Claimed, ViewerId
  <1> QED
    BY <1>1, <1>2, FoundMeans

\* endSession closes the handles of the entry it ends and keeps the others
\* registered: the promoted entry inherits those of the one it replaces.
LEMMA EndSessionGates ==
    ASSUME LineInv, TypeOK', GateInv, NEW e \in Entry, NEW w, EndSession(e, w), gate' = gate
    PROVE  GateInv'
  <1>0. /\ TypeOK /\ FifoAuthority /\ queue \in Seq(Call) /\ queue' \in Seq(Call)
        /\ gates \in [Entry -> SUBSET Call] /\ handle \in [Call -> {"none", "open", "closed"}]
    BY DEF LineInv, TypeOK
  <1>1. CASE EndStale(e, w)
    <2>1. UNCHANGED <<active, queue, gates, handle, gate>>
      BY <1>1 DEF EndStale, mgrVars
    <2> QED
      BY <2>1 DEF GateInv, Registered, Found, FirstQueued, ForwardOnlyWhileController
  <1>2. CASE EndLast(e, w)
    <2>1. active = e /\ queue = <<>> /\ handle' = CloseHandles(gates[e])
      BY <1>2 DEF EndLast, Vacate, Terminate
    <2>2. \A c \in Call : handle'[c] # "open"
      <3> SUFFICES ASSUME NEW c \in Call, handle'[c] = "open" PROVE FALSE
        OBVIOUS
      <3>1. c \notin gates[e] /\ handle[c] = "open"
        BY <2>1 DEF CloseHandles
      <3>2. PICK f \in Entry : Registered(c, f)
        BY <3>1 DEF GateInv
      <3>3. f = e
        BY <2>1, <3>2, FoundMeans DEF Registered
      <3> QED
        BY <3>1, <3>2, <3>3 DEF Registered
    <2> QED
      BY <2>2 DEF GateInv, ForwardOnlyWhileController
  <1>3. CASE EndPromote(e, w)
    <2>1. /\ active = e /\ queue # <<>> /\ queue' = Tail(queue)
          /\ handle' = CloseHandles(gates[e])
          /\ active' = Promoted(Head(queue)) /\ gates' = TransferGates(e, Head(queue))
      BY <1>3 DEF EndPromote, Promotion, Terminate, StartSessionLocked
    <2>n. PICK n \in Call : n = queue[1]
      BY <1>0, <2>1
    <2>2. /\ Len(queue) > 0 /\ Head(queue) = n
          /\ Len(queue') = Len(queue) - 1
          /\ \A i \in 1..Len(queue') : queue'[i] = queue[i + 1]
      BY <1>0, <2>1, <2>n
    <2>3. /\ \A i, j \in 1..Len(queue) : i # j => queue[i] # queue[j]
          /\ \A i \in 1..Len(queue) : e[1] # queue[i]
      BY <1>0, <2>1, EntryFacts, ConstantsAssumption DEF FifoAuthority, TypeOK
    <2>4. ASSUME NEW c \in Call, handle'[c] = "open"
          PROVE  /\ ViewerId(e) # ViewerOf[c] /\ handle[c] = "open"
                 /\ \E f \in Entry : Registered(c, f)'
      <3>1. c \notin gates[e] /\ handle[c] = "open"
        BY <2>1, <2>4 DEF CloseHandles
      <3>2. PICK f \in Entry : Registered(c, f)
        BY <3>1 DEF GateInv
      <3>3. f # e /\ c \in gates[f]
        BY <3>1, <3>2 DEF Registered
      <3>4. ViewerId(e) # ViewerOf[c]
        BY <2>1, <3>2, <3>3, FoundMeans, ConstantsAssumption DEF Registered
      <3>5. PICK i \in 1..Len(queue) : FirstQueued(ViewerOf[c], i) /\ f = Claimed(queue[i])
        BY <2>1, <3>2, <3>4, FoundMeans DEF Registered
      <3>6. /\ ViewerOf[queue[i]] = ViewerOf[c] /\ queue[i] \in Call
            /\ \A j \in 1..(i - 1) : ViewerOf[queue[j]] # ViewerOf[c]
        BY <1>0, <3>5 DEF FirstQueued
      <3>7. Promoted(n) \in Entry /\ Claimed(n) \in Entry /\ Promoted(n) # e /\ Claimed(n) # e
        BY <2>n, <2>2, <2>3, EntryFacts
      <3>8. CASE i = 1
        <4>1. f = Claimed(n) /\ ViewerId(Promoted(n)) = ViewerOf[c]
          BY <3>5, <3>6, <3>8, <2>n, EntryFacts DEF ViewerId, Promoted
        <4>2. c \in gates'[Promoted(n)]
          BY <1>0, <2>1, <2>2, <3>3, <3>7, <4>1, EntryFacts DEF TransferGates
        <4>3. active' # NoEntry /\ active' = Promoted(n)
          BY <2>1, <2>2, <3>7, ConstantsAssumption
        <4>m. ViewerId(active') = ViewerOf[c]
          BY <4>1, <4>3
        <4>4. Found(ViewerOf[c], Promoted(n))'
          BY <4>m, <4>3 DEF Found, ViewerId
        <4> QED
          BY <3>1, <3>4, <3>7, <4>2, <4>4 DEF Registered
      <3>9. CASE i > 1
        <4>1. 1 \in 1..(i - 1) /\ i - 1 \in 1..Len(queue') /\ queue'[i - 1] = queue[i]
          BY <1>0, <2>2, <3>9
        <4>2. ViewerOf[n] # ViewerOf[c]
          BY <2>n, <3>6, <4>1
        <4>3. ViewerId(active') # ViewerOf[c]
          BY <2>1, <2>2, <4>2 DEF ViewerId, Promoted
        <4>4. \A j \in 1..((i - 1) - 1) : ViewerOf[queue'[j]] # ViewerOf[c]
          <5> SUFFICES ASSUME NEW j \in 1..((i - 1) - 1) PROVE ViewerOf[queue'[j]] # ViewerOf[c]
            OBVIOUS
          <5>1. j \in 1..Len(queue') /\ j + 1 \in 1..(i - 1)
            BY <1>0, <2>2, <3>9
          <5> QED
            BY <2>2, <3>6, <5>1
        <4>5. FirstQueued(ViewerOf[c], i - 1)'
          BY <3>6, <4>1, <4>4 DEF FirstQueued
        <4>6. f = Claimed(queue'[i - 1])
          BY <3>5, <4>1
        <4>7. Found(ViewerOf[c], f)'
          <5>1. \E k \in 1..Len(queue') : ViewerOf[queue'[k]] = ViewerOf[c]
            BY <3>6, <4>1
          <5>2. \E k \in 1..Len(queue') : FirstQueued(ViewerOf[c], k)' /\ f = Claimed(queue'[k])
            BY <4>1, <4>5, <4>6
          <5> QED
            BY <4>3, <5>1, <5>2 DEF Found, ViewerId
        <4>8. f # Claimed(n) /\ f # Promoted(n)
          <5>1. queue[i] # queue[1]
            BY <2>2, <2>3, <3>9
          <5> QED
            BY <2>2, <3>5, <3>6, <5>1, <2>n, EntryFacts
        <4>9. c \in gates'[f]
          BY <1>0, <2>1, <2>2, <3>3, <3>7, <4>8 DEF TransferGates
        <4> QED
          BY <3>1, <3>4, <4>7, <4>9 DEF Registered
      <3> QED
        BY <3>8, <3>9
    <2>5. ForwardOnlyWhileController'
      <3> SUFFICES ASSUME NEW c \in Call, gate'[c] = "push", handle'[c] = "open" PROVE FALSE
        BY DEF ForwardOnlyWhileController
      <3> QED
        BY <2>1, <2>4 DEF GateInv, ForwardOnlyWhileController
    <2> QED
      BY <2>4, <2>5 DEF GateInv
  <1> QED
    BY <1>1, <1>2, <1>3 DEF EndSession

\* Steps that leave the slot, the line and the registrations alone.
LEMMA GateFrame ==
    ASSUME GateInv, UNCHANGED <<active, queue, gates>>,
           \A c \in Call : handle'[c] = "open" => handle[c] = "open",
           \A c \in Call : gate'[c] = "push" =>
              gate[c] = "push" \/ (active # NoEntry /\ ViewerId(active) = ViewerOf[c])
    PROVE  GateInv'
  <1>1. ASSUME NEW c \in Call, handle'[c] = "open" PROVE \E e \in Entry : Registered(c, e)'
    <2>1. PICK e \in Entry : Registered(c, e)
      BY <1>1 DEF GateInv
    <2>2. Registered(c, e)'
      BY <2>1 DEF Registered, Found, FirstQueued, ViewerId
    <2> QED
      BY <2>2
  <1>2. ForwardOnlyWhileController'
    BY DEF GateInv, ForwardOnlyWhileController, ViewerId
  <1> QED
    BY <1>1, <1>2 DEF GateInv

\* Every step keeps open handles registered where findEntryLocked looks.
LEMMA GateStep == LineInv /\ GateInv /\ [Next]_vars => GateInv'
  <1> SUFFICES ASSUME LineInv, GateInv, [Next]_vars PROVE GateInv'
    OBVIOUS
  <1>t. TypeOK'
    BY TypeStep DEF LineInv
  <1>0. /\ TypeOK /\ FifoAuthority /\ queue \in Seq(Call) /\ queue' \in Seq(Call)
        /\ gates \in [Entry -> SUBSET Call]
        /\ handle \in [Call -> {"none", "open", "closed"}]
        /\ gate \in [Call -> {"off", "select", "check", "push", "exited"}]
    BY <1>t DEF LineInv, TypeOK
  <1>1. CASE UNCHANGED vars
    BY <1>1, GateFrame DEF vars, mgrVars, entryVars, callVars
  <1>2. ASSUME NEW c \in Call, Claim(c) PROVE GateInv'
    <2>1. CASE ClaimBadToken(c)
      BY <2>1, GateFrame DEF ClaimBadToken, mgrVars, entryVars
    <2>2. CASE ClaimRefused(c)
      BY <2>2, GateFrame DEF ClaimRefused, mgrVars, entryVars
    <2>3. CASE ClaimActive(c)
      <3>1. active = NoEntry /\ queue = <<>> /\ UNCHANGED <<gates, handle, gate>>
        BY <1>0, <2>3 DEF ClaimActive, FifoAuthority
      <3>2. \A d \in Call : handle[d] # "open"
        <4> SUFFICES ASSUME NEW d \in Call, handle[d] = "open" PROVE FALSE
          OBVIOUS
        <4>1. PICK f \in Entry : Registered(d, f)
          BY DEF GateInv
        <4> QED
          BY <3>1, <4>1, FoundMeans DEF Registered
      <3> QED
        BY <3>1, <3>2 DEF GateInv, ForwardOnlyWhileController
    <2>4. CASE ClaimQueued(c)
      <3>1. /\ active' = active /\ active # NoEntry /\ queue' = Append(queue, c)
            /\ UNCHANGED <<gates, handle, gate>>
        BY <2>4 DEF ClaimQueued
      <3>2. /\ Len(queue') = Len(queue) + 1
            /\ \A i \in 1..Len(queue) : queue'[i] = queue[i]
        BY <1>0, <3>1
      <3>3. ASSUME NEW d \in Call, handle'[d] = "open" PROVE \E e \in Entry : Registered(d, e)'
        <4>1. PICK f \in Entry : Registered(d, f)
          BY <3>1, <3>3 DEF GateInv
        <4>2. CASE ViewerId(active) = ViewerOf[d]
          <5>1. f = active
            BY <3>1, <4>1, <4>2, FoundMeans DEF Registered
          <5>2. Registered(d, f)'
            BY <3>1, <4>1, <4>2, <5>1 DEF Registered, Found, ViewerId
          <5> QED
            BY <5>2
        <4>3. CASE ViewerId(active) # ViewerOf[d]
          <5>1. PICK i \in 1..Len(queue) : FirstQueued(ViewerOf[d], i) /\ f = Claimed(queue[i])
            BY <4>1, <4>3, FoundMeans DEF Registered
          <5>2. i \in 1..Len(queue') /\ queue'[i] = queue[i] /\ ViewerOf[queue[i]] = ViewerOf[d]
            BY <1>0, <3>2, <5>1 DEF FirstQueued
          <5>3. FirstQueued(ViewerOf[d], i)'
            <6>1. \A j \in 1..(i - 1) : queue'[j] = queue[j] /\ ViewerOf[queue[j]] # ViewerOf[d]
              BY <1>0, <3>2, <5>1 DEF FirstQueued
            <6> QED
              BY <5>2, <6>1 DEF FirstQueued
          <5>4. Found(ViewerOf[d], f)'
            <6>1. \E k \in 1..Len(queue') : ViewerOf[queue'[k]] = ViewerOf[d]
              BY <5>2
            <6>2. \E k \in 1..Len(queue') : FirstQueued(ViewerOf[d], k)' /\ f = Claimed(queue'[k])
              BY <5>1, <5>2, <5>3
            <6> QED
              BY <3>1, <4>3, <6>1, <6>2 DEF Found, ViewerId
          <5> QED
            BY <3>1, <4>1, <5>4 DEF Registered
        <4> QED
          BY <4>2, <4>3
      <3>4. ForwardOnlyWhileController'
        BY <3>1 DEF GateInv, ForwardOnlyWhileController, ViewerId
      <3> QED
        BY <3>3, <3>4 DEF GateInv
    <2> QED
      BY <1>2, <2>1, <2>2, <2>3, <2>4 DEF Claim
  <1>3. ASSUME NEW c \in Call, Gate(c) PROVE GateInv'
    <2>1. CASE GateClosed(c)
      BY <1>0, <2>1, GateFrame DEF GateClosed, mgrVars, entryVars
    <2>2. CASE GateOpen(c)
      <3>1. PICK e \in Entry : /\ Found(ViewerOf[c], e)
                               /\ gates' = [gates EXCEPT ![e] = @ \cup {c}]
        BY <2>2 DEF GateOpen
      <3>2. /\ UNCHANGED <<active, queue>>
            /\ \A d \in Call : d # c => handle'[d] = handle[d]
            /\ \A d \in Call : gate'[d] = "push" => gate[d] = "push"
            /\ gate'[c] = "select"
        BY <1>0, <2>2 DEF GateOpen, mgrVars
      <3>3. \A f \in Entry : gates[f] \subseteq gates'[f]
        BY <1>0, <3>1
      <3>4. c \in gates'[e]
        BY <1>0, <3>1
      <3>5. \A d \in Call, f \in Entry : Found(ViewerOf[d], f) => Found(ViewerOf[d], f)'
        BY <3>2 DEF Found, FirstQueued, ViewerId
      <3>6. ASSUME NEW d \in Call, handle'[d] = "open" PROVE \E f \in Entry : Registered(d, f)'
        <4>1. CASE d = c
          BY <3>1, <3>4, <3>5, <4>1 DEF Registered
        <4>2. CASE d # c
          <5>1. PICK f \in Entry : Registered(d, f)
            BY <3>2, <3>6, <4>2 DEF GateInv
          <5> QED
            BY <3>3, <3>5, <5>1 DEF Registered
        <4> QED
          BY <4>1, <4>2
      <3>7. ForwardOnlyWhileController'
        BY <3>2 DEF GateInv, ForwardOnlyWhileController, ViewerId
      <3> QED
        BY <3>6, <3>7 DEF GateInv
    <2> QED
      BY <1>3, <2>1, <2>2 DEF Gate
  <1>4. ASSUME NEW c \in Call, GateRun(c) PROVE GateInv'
    <2>1. CASE GateStop(c)
      BY <1>0, <2>1, GateFrame DEF GateStop, mgrVars, entryVars
    <2>2. CASE GateRawClosed(c)
      BY <1>0, <2>2, GateFrame DEF GateRawClosed, mgrVars, entryVars
    <2>3. CASE GateRecv(c)
      BY <1>0, <2>3, GateFrame DEF GateRecv, mgrVars, entryVars
    <2>4. CASE GateCheck(c)
      BY <1>0, <2>4, GateFrame DEF GateCheck, mgrVars
    <2>5. CASE GatePush(c)
      BY <1>0, <2>5, GateFrame DEF GatePush, mgrVars, entryVars
    <2>6. CASE GateDrop(c)
      BY <1>0, <2>6, GateFrame DEF GateDrop, mgrVars, entryVars
    <2> QED
      BY <1>4, <2>1, <2>2, <2>3, <2>4, <2>5, <2>6 DEF GateRun
  <1>5. ASSUME NEW c \in Call, Release(c) PROVE GateInv'
    <2>1. CASE ReleaseActive(c)
      BY <2>1, GateFrame DEF ReleaseActive, mgrVars, entryVars
    <2>2. CASE ReleaseNoop(c)
      BY <2>2, GateFrame DEF ReleaseNoop, mgrVars, entryVars
    <2>3. CASE ReleaseEnd(c)
      BY <1>t, <2>3, EndSessionGates, EntryFacts DEF ReleaseEnd
    <2>4. CASE ReleaseQueued(c)
      <3>1. /\ UNCHANGED <<active, gate>>
            /\ handle' = CloseHandles(gates[Claimed(c)])
            /\ gates' = [gates EXCEPT ![Claimed(c)] = {}]
        BY <2>4 DEF ReleaseQueued
      <3>2. PICK k \in 1..Len(queue) : queue[k] = c /\ queue' = Without(queue, k)
        BY <2>4 DEF ReleaseQueued
      <3>3. /\ Len(queue') = Len(queue) - 1
            /\ \A i \in 1..(Len(queue) - 1) :
                  queue'[i] = IF i < k THEN queue[i] ELSE queue[i + 1]
        BY <1>0, <3>2, WithoutType
      <3>4. active # NoEntry
        BY <1>0, <3>2 DEF FifoAuthority
      <3>5. ASSUME NEW d \in Call, handle'[d] = "open"
            PROVE  handle[d] = "open" /\ \E e \in Entry : Registered(d, e)'
        <4>1. handle[d] = "open" /\ d \notin gates[Claimed(c)]
          BY <3>1, <3>5 DEF CloseHandles
        <4>2. PICK f \in Entry : Registered(d, f)
          BY <4>1 DEF GateInv
        <4>3. f # Claimed(c) /\ d \in gates'[f]
          BY <1>0, <3>1, <4>1, <4>2 DEF Registered
        <4>4. CASE ViewerId(active) = ViewerOf[d]
          <5>1. f = active
            BY <3>4, <4>2, <4>4, FoundMeans DEF Registered
          <5>2. Registered(d, f)'
            BY <3>1, <3>4, <4>3, <4>4, <5>1 DEF Registered, Found, ViewerId
          <5> QED
            BY <4>1, <5>2
        <4>5. CASE ViewerId(active) # ViewerOf[d]
          <5>1. PICK i \in 1..Len(queue) : FirstQueued(ViewerOf[d], i) /\ f = Claimed(queue[i])
            BY <4>2, <4>5, FoundMeans DEF Registered
          <5>2. /\ i # k /\ ViewerOf[queue[i]] = ViewerOf[d]
                /\ \A j \in 1..(i - 1) : ViewerOf[queue[j]] # ViewerOf[d]
            BY <3>2, <4>3, <5>1 DEF FirstQueued
          <5>3. PICK p \in 1..(Len(queue) - 1) : p = IF i < k THEN i ELSE i - 1
            BY <1>0, <5>2
          <5>4. p \in 1..Len(queue') /\ queue'[p] = queue[i]
            BY <1>0, <3>3, <5>2, <5>3
          <5>5. \A j \in 1..(p - 1) : ViewerOf[queue'[j]] # ViewerOf[d]
            <6> SUFFICES ASSUME NEW j \in 1..(p - 1) PROVE ViewerOf[queue'[j]] # ViewerOf[d]
              OBVIOUS
            <6>1. j \in 1..(Len(queue) - 1) /\ j \in 1..(i - 1)
              BY <1>0, <5>3
            <6>2. j >= k => j + 1 \in 1..(i - 1)
              BY <1>0, <5>2, <5>3
            <6> QED
              BY <1>0, <3>3, <5>2, <6>1, <6>2
          <5>6. FirstQueued(ViewerOf[d], p)'
            BY <5>2, <5>4, <5>5 DEF FirstQueued
          <5>7. Found(ViewerOf[d], f)'
            <6>1. \E q \in 1..Len(queue') : ViewerOf[queue'[q]] = ViewerOf[d]
              BY <5>2, <5>4
            <6>2. \E q \in 1..Len(queue') : FirstQueued(ViewerOf[d], q)' /\ f = Claimed(queue'[q])
              BY <5>1, <5>4, <5>6
            <6> QED
              BY <3>1, <4>5, <6>1, <6>2 DEF Found, ViewerId
          <5> QED
            BY <4>1, <4>3, <5>7 DEF Registered
        <4> QED
          BY <4>4, <4>5
      <3>6. ForwardOnlyWhileController'
        BY <3>1, <3>5 DEF GateInv, ForwardOnlyWhileController, ViewerId
      <3> QED
        BY <3>5, <3>6 DEF GateInv
    <2> QED
      BY <1>5, <2>1, <2>2, <2>3, <2>4 DEF Release
  <1>6. ASSUME NEW c \in Call, DrainExit(c) PROVE GateInv'
    BY <1>6, GateFrame DEF DrainExit, mgrVars, entryVars
  <1>7. ASSUME NEW c \in Call, Disconnect(c) PROVE GateInv'
    BY <1>7, GateFrame DEF Disconnect, mgrVars, entryVars
  <1>8. ASSUME NEW e \in Entry, CtxTimeout(e) PROVE GateInv'
    BY <1>8, GateFrame DEF CtxTimeout, mgrVars, callVars
  <1>9. ASSUME NEW e \in Entry, IdleFire(e) PROVE GateInv'
    BY <1>9, GateFrame DEF IdleFire, mgrVars, callVars
  <1>10. ASSUME NEW e \in Entry, WatchSession(e) PROVE GateInv'
    <2>1. CASE WatchDone(e)
      BY <1>t, <2>1, EndSessionGates DEF WatchDone
    <2>2. CASE WatchTick(e)
      BY <2>2, GateFrame DEF WatchTick, mgrVars, entryVars, callVars
    <2>3. CASE WatchEmitTick(e)
      BY <2>3, GateFrame DEF WatchEmitTick, entryVars, callVars
    <2> QED
      BY <1>10, <2>1, <2>2, <2>3 DEF WatchSession
  <1>11. ASSUME NEW e \in Entry, IdleEnd(e) PROVE GateInv'
    BY <1>t, <1>11, EndSessionGates DEF IdleEnd
  <1>12. CASE KickRead
    BY <1>12, GateFrame DEF KickRead, mgrVars, entryVars, callVars
  <1>13. CASE KickEnd
    <2>1. kick \in Entry
      BY <1>0, <1>13 DEF KickEnd, TypeOK
    <2> QED
      BY <1>t, <1>13, <2>1, EndSessionGates DEF KickEnd
  <1>14. CASE Shutdown
    <2>1. handle' = CloseHandles(UNION {gates[e] : e \in {x \in Entry : Live(x)}})
      BY <1>14 DEF Shutdown, Live
    <2>2. \A c \in Call : handle'[c] # "open"
      <3> SUFFICES ASSUME NEW c \in Call, handle'[c] = "open" PROVE FALSE
        OBVIOUS
      <3>1. handle[c] = "open" /\ \A e \in Entry : Live(e) => c \notin gates[e]
        BY <2>1 DEF CloseHandles
      <3>2. PICK f \in Entry : Registered(c, f)
        BY <3>1 DEF GateInv
      <3> QED
        BY <1>0, <3>1, <3>2, FoundIsLive DEF Registered
    <2> QED
      BY <2>2 DEF GateInv, ForwardOnlyWhileController
  <1>15. CASE CloseEvents
    BY <1>15, GateFrame DEF CloseEvents, entryVars, callVars
  <1> QED
    BY <1>1, <1>2, <1>3, <1>4, <1>5, <1>6, <1>7, <1>8, <1>9, <1>10, <1>11, <1>12, <1>13,
       <1>14, <1>15 DEF Next

\* Initially there are no handles.
LEMMA GateInit == Init => LineInv /\ GateInv
  <1> SUFFICES ASSUME Init PROVE LineInv /\ GateInv
    OBVIOUS
  <1>1. LineInv
    BY InitType, EntryFacts DEF Init, LineInv, FifoAuthority, CallInv
  <1>2. GateInv
    BY DEF Init, GateInv, ForwardOnlyWhileController
  <1> QED
    BY <1>1, <1>2

\* A gate goroutine that read isActive = true in one critical section and can
\* still forward in another does so while its viewer holds control.
THEOREM ForwardCorrect == Spec => []ForwardOnlyWhileController
  <1>1. LineInv /\ GateInv => ForwardOnlyWhileController
    BY DEF GateInv
  <1> QED
    BY <1>1, GateInit, GateStep, LineStep, PTL DEF Spec

\* No open gate outlives the session it belongs to: closeGates always finds it.
THEOREM GatesCorrect == Spec => []NoOrphanGate
  <1>1. LineInv /\ GateInv => NoOrphanGate
    <2> SUFFICES ASSUME LineInv, GateInv, NEW c \in Call, handle[c] = "open"
                 PROVE  \E e \in Entry : Live(e) /\ c \in gates[e] /\ ViewerId(e) = ViewerOf[c]
      BY DEF NoOrphanGate
    <2>1. PICK e \in Entry : Registered(c, e)
      BY DEF GateInv
    <2> QED
      BY <2>1, FoundIsLive DEF Registered, LineInv
  <1> QED
    BY <1>1, GateInit, GateStep, LineStep, PTL DEF Spec

-----------------------------------------------------------------------------
(* What a step may do to the slot, the line, the timers and the events:     *)
(* nothing, unless it is one of those named here.                           *)

\* Why a goroutine calls endSession(e).
Cause(e) == ctx[e] = "done" \/ idleCall[e] \/ kick = e \/ pc[e[1]] = "ending"

\* A step that calls endSession(e).
Ends(e) ==
    /\ Cause(e)
    /\ \/ EndSession(e, watch)
       \/ watch[e] = "run" /\ EndSession(e, [watch EXCEPT ![e] = "done"])

lineVars == <<active, queue, stopped, evClosed, panicked, told, idle, watch>>

\* Nearly all steps leave these variables alone; no call becomes new again.
LEMMA StepKinds ==
    ASSUME TypeOK, Next
    PROVE  /\ \A c \in Call : pc'[c] = "new" => pc[c] = "new"
           /\ \/ \E e \in Entry : Ends(e)
              \/ \E c \in Call : ClaimActive(c) \/ ClaimQueued(c) \/ ReleaseQueued(c)
              \/ \E c \in Call : GateCheck(c)
              \/ \E e \in Entry : IdleFire(e) \/ WatchEmitTick(e)
              \/ Shutdown \/ CloseEvents
              \/ UNCHANGED lineVars
  <1>0. pc \in [Call -> {"new", "claimed", "draining", "releasing", "ending", "done"}]
    BY DEF TypeOK
  <1> USE DEF mgrVars, entryVars, callVars, lineVars
  <1>1. ASSUME NEW c \in Call, Claim(c)
        PROVE  /\ \A d \in Call : pc'[d] = "new" => pc[d] = "new"
               /\ ClaimActive(c) \/ ClaimQueued(c) \/ UNCHANGED lineVars
    BY <1>0, <1>1 DEF Claim, ClaimBadToken, ClaimRefused, ClaimActive, ClaimQueued
  <1>2. ASSUME NEW c \in Call, Gate(c) \/ DrainExit(c) \/ Disconnect(c)
        PROVE  /\ \A d \in Call : pc'[d] = "new" => pc[d] = "new"
               /\ UNCHANGED lineVars
    BY <1>0, <1>2 DEF Gate, GateOpen, GateClosed, DrainExit, Disconnect
  <1>3. ASSUME NEW c \in Call, GateRun(c)
        PROVE  pc' = pc /\ (GateCheck(c) \/ UNCHANGED lineVars)
    BY <1>3 DEF GateRun, GateStop, GateRawClosed, GateRecv, GateCheck, GatePush, GateDrop
  <1>4. ASSUME NEW c \in Call, Release(c)
        PROVE  /\ \A d \in Call : pc'[d] = "new" => pc[d] = "new"
               /\ Ends(Claimed(c)) \/ ReleaseQueued(c) \/ UNCHANGED lineVars
    <2>1. \A d \in Call : pc'[d] = "new" => pc[d] = "new"
      BY <1>0, <1>4 DEF Release, ReleaseActive, ReleaseQueued, ReleaseNoop, ReleaseEnd
    <2>2. CASE ReleaseEnd(c)
      BY <2>1, <2>2, EntryFacts DEF ReleaseEnd, Ends, Cause
    <2>3. CASE ReleaseActive(c) \/ ReleaseNoop(c) \/ ReleaseQueued(c)
      BY <2>1, <2>3 DEF ReleaseActive, ReleaseNoop
    <2> QED
      BY <1>4, <2>2, <2>3 DEF Release
  <1>5. ASSUME NEW e \in Entry, WatchSession(e)
        PROVE  pc' = pc /\ (Ends(e) \/ WatchEmitTick(e) \/ UNCHANGED lineVars)
    BY <1>5 DEF WatchSession, WatchDone, WatchTick, WatchEmitTick, Ends, Cause
  <1>6. ASSUME NEW e \in Entry, CtxTimeout(e) \/ IdleFire(e) \/ IdleEnd(e)
        PROVE  pc' = pc /\ (Ends(e) \/ IdleFire(e) \/ UNCHANGED lineVars)
    BY <1>6 DEF CtxTimeout, IdleFire, IdleEnd, Ends, Cause
  <1>7. CASE KickEnd
    <2>1. kick \in Entry /\ Ends(kick) /\ pc' = pc
      BY <1>7 DEF KickEnd, Ends, Cause, TypeOK
    <2> QED
      BY <2>1
  <1>8. CASE KickRead \/ Shutdown \/ CloseEvents
    BY <1>8 DEF KickRead, Shutdown, CloseEvents
  <1> QED
    BY <1>1, <1>2, <1>3, <1>4, <1>5, <1>6, <1>7, <1>8, EntryFacts DEF Next

-----------------------------------------------------------------------------
(* Nobody's session ends on another's account.                              *)

\* The slot changes hands only in an endSession of the very entry that held it,
\* called for a reason that entry has itself.
THEOREM EndsCorrect == Spec => EndedOnItsOwnAccount
  <1>1. ASSUME TypeOK, Next, NEW e \in Entry, active = e, active' # e
        PROVE  Cause(e)
    <2>1. CASE \E f \in Entry : Ends(f)
      <3>1. PICK f \in Entry : Ends(f)
        BY <2>1
      <3>2. active = f
        BY <1>1, <3>1, EndSessionLine DEF Ends
      <3> QED
        BY <1>1, <3>1, <3>2 DEF Ends
    <2>2. CASE \E c \in Call : ClaimActive(c) \/ ClaimQueued(c) \/ ReleaseQueued(c)
      BY <1>1, <2>2, ConstantsAssumption DEF ClaimActive, ClaimQueued, ReleaseQueued
    <2>3. CASE \/ \E c \in Call : GateCheck(c)
               \/ \E f \in Entry : IdleFire(f) \/ WatchEmitTick(f)
               \/ Shutdown \/ CloseEvents \/ UNCHANGED lineVars
      BY <1>1, <2>3 DEF GateCheck, IdleFire, WatchEmitTick, Shutdown, CloseEvents,
                        lineVars, mgrVars
    <2> QED
      BY <1>1, <2>1, <2>2, <2>3, StepKinds
  <1>2. TypeOK /\ [Next]_vars =>
          [\A e \in Entry : active = e /\ active' # e =>
               ctx[e] = "done" \/ idleCall[e] \/ kick = e \/ pc[e[1]] = "ending"]_vars
    BY <1>1 DEF Cause
  <1> QED
    BY <1>2, TypeCorrect, PTL DEF Spec, EndedOnItsOwnAccount

-----------------------------------------------------------------------------
(* Idle timers.                                                             *)

\* endSession, seen from the idle timers.
LEMMA EndSessionIdle ==
    ASSUME TypeOK, IdleTimerOfControllerOnly, NEW e \in Entry, NEW w, EndSession(e, w)
    PROVE  IdleTimerOfControllerOnly'
  <1>0. idle \in [Entry -> {"nil", "armed", "fired"}]
    BY DEF TypeOK
  <1>1. CASE EndStale(e, w)
    BY <1>1 DEF EndStale, mgrVars, IdleTimerOfControllerOnly
  <1>2. CASE EndLast(e, w)
    BY <1>0, <1>2 DEF EndLast, Vacate, Terminate, IdleTimerOfControllerOnly
  <1>3. CASE EndPromote(e, w)
    <2>1. PICK f : /\ f = Promoted(Head(queue)) /\ active = e /\ active' = f
                   /\ \/ idle' = [[idle EXCEPT ![e] = "nil"] EXCEPT ![f] = "armed"]
                      \/ idle' = [idle EXCEPT ![e] = "nil"]
      BY <1>3 DEF EndPromote, Promotion, Terminate, StartSessionLocked
    <2> QED
      BY <1>0, <2>1 DEF IdleTimerOfControllerOnly
  <1> QED
    BY <1>1, <1>2, <1>3 DEF EndSession

\* The idle timer of an ended session is never armed again, although touchIdle
\* works on an entry looked up in an earlier critical section.
THEOREM IdleTimersCorrect == Spec => []IdleTimerOfControllerOnly
  <1>1. Init => IdleTimerOfControllerOnly
    BY DEF Init, IdleTimerOfControllerOnly
  <1>2. ASSUME TypeOK, IdleTimerOfControllerOnly, [Next]_vars
        PROVE  IdleTimerOfControllerOnly'
    <2>0. idle \in [Entry -> {"nil", "armed", "fired"}]
      BY <1>2 DEF TypeOK
    <2>1. CASE \E f \in Entry : Ends(f)
      BY <1>2, <2>1, EndSessionIdle DEF Ends
    <2>2. CASE \E c \in Call : ClaimActive(c)
      BY <1>2, <2>0, <2>2, EntryFacts
      DEF ClaimActive, StartSessionLocked, IdleTimerOfControllerOnly
    <2>3. CASE \E c \in Call : ClaimQueued(c) \/ ReleaseQueued(c)
      BY <1>2, <2>3 DEF ClaimQueued, ReleaseQueued, IdleTimerOfControllerOnly
    <2>4. CASE \E c \in Call : GateCheck(c)
      BY <1>2, <2>0, <2>4 DEF GateCheck, TouchIdle, mgrVars, IdleTimerOfControllerOnly
    <2>5. CASE \E f \in Entry : IdleFire(f)
      BY <1>2, <2>0, <2>5 DEF IdleFire, mgrVars, IdleTimerOfControllerOnly
    <2>6. CASE (\E f \in Entry : WatchEmitTick(f)) \/ Shutdown \/ CloseEvents
      BY <1>2, <2>6 DEF WatchEmitTick, Shutdown, CloseEvents, entryVars,
                        IdleTimerOfControllerOnly
    <2>7. CASE UNCHANGED lineVars \/ UNCHANGED vars
      BY <1>2, <2>7 DEF lineVars, vars, mgrVars, entryVars, IdleTimerOfControllerOnly
    <2> QED
      BY <1>2, <2>1, <2>2, <2>3, <2>4, <2>5, <2>6, <2>7, StepKinds
  <1> QED
    BY <1>1, <1>2, TypeCorrect, PTL DEF Spec

-----------------------------------------------------------------------------
(* Events.                                                                  *)

\* Run sets stopped before it closes eventsOut, and that is what emitEvent tests.
EventInv == ~panicked /\ (evClosed => stopped)

\* emitEvent keeps it, whatever it says.
LEMMA EmitKeeps ==
    ASSUME EventInv, NEW t, EmitEvent(t), UNCHANGED <<stopped, evClosed>>
    PROVE  EventInv'
  BY DEF EmitEvent, EventInv

\* endSession emits at most one kind of event after another.
LEMMA EndSessionEvents ==
    ASSUME EventInv, NEW e, NEW w, EndSession(e, w)
    PROVE  EventInv'
  <1>1. CASE EndStale(e, w)
    BY <1>1 DEF EndStale, mgrVars, EventInv
  <1>2. CASE EndLast(e, w)
    BY <1>2, EmitKeeps DEF EndLast, Vacate, Terminate
  <1>3. CASE EndPromote(e, w)
    BY <1>3, EmitKeeps DEF EndPromote, Promotion, Terminate, StartSessionLocked
  <1> QED
    BY <1>1, <1>2, <1>3 DEF EndSession

\* Nobody sends on eventsOut after Run has closed it, although watchers, timers
\* and gates outlive Run.
THEOREM EventsOutCorrect == Spec => []NoSendOnClosedEvents
  <1>1. Init => EventInv
    BY DEF Init, EventInv
  <1>2. ASSUME TypeOK, EventInv, [Next]_vars
        PROVE  EventInv'
    <2>1. CASE \E f \in Entry : Ends(f)
      BY <1>2, <2>1, EndSessionEvents DEF Ends
    <2>2. CASE \E c \in Call : ClaimActive(c) \/ ClaimQueued(c)
      BY <1>2, <2>2, EmitKeeps DEF ClaimActive, StartSessionLocked, ClaimQueued
    <2>3. CASE \E f \in Entry : WatchEmitTick(f)
      BY <1>2, <2>3, EmitKeeps DEF WatchEmitTick
    <2>4. CASE (\E c \in Call : ReleaseQueued(c) \/ GateCheck(c)) \/ (\E f \in Entry : IdleFire(f))
      BY <1>2, <2>4 DEF ReleaseQueued, GateCheck, IdleFire, mgrVars, EventInv
    <2>5. CASE Shutdown \/ CloseEvents
      BY <1>2, <2>5 DEF Shutdown, CloseEvents, EventInv
    <2>6. CASE UNCHANGED lineVars \/ UNCHANGED vars
      BY <1>2, <2>6 DEF lineVars, vars, mgrVars, EventInv
    <2> QED
      BY <1>2, <2>1, <2>2, <2>3, <2>4, <2>5, <2>6, StepKinds
  <1>3. EventInv => NoSendOnClosedEvents
    BY DEF EventInv, NoSendOnClosedEvents
  <1> QED
    BY <1>1, <1>2, <1>3, TypeCorrect, PTL DEF Spec

OneClaimEach == \A c, d \in Call : ViewerOf[c] = ViewerOf[d] => c = d

\* What EventsTellTheTruth says of the calls.
Truth ==
    \A c \in Call :
        /\ told[ViewerOf[c]] = "granted" <=> active \in {Claimed(c), Promoted(c)}
        /\ Queued(c) => told[ViewerOf[c]] = "queued"

\* endSession tells the viewer whose session ends, and the one it promotes.
LEMMA EndSessionTruth ==
    ASSUME LineInv, Truth, OneClaimEach, ~stopped, NEW e \in Entry, NEW w, EndSession(e, w)
    PROVE  Truth'
  <1> USE ConstantsAssumption
  <1>0. /\ queue \in Seq(Call) /\ FifoAuthority
        /\ told \in [Viewer -> {"nothing", "queued", "granted", "revoked"}]
        /\ e[1] \in Call /\ (e = Claimed(e[1]) \/ e = Promoted(e[1]))
        /\ ViewerId(e) = ViewerOf[e[1]]
        /\ \A c \in Call : ViewerOf[c] \in Viewer
    BY EntryFacts DEF LineInv, TypeOK, ViewerId
  <1>1. CASE EndStale(e, w)
    BY <1>1 DEF EndStale, mgrVars, Truth, Queued
  <1>2. CASE EndLast(e, w)
    <2>1. /\ active = e /\ active' = NoEntry /\ queue' = <<>>
          /\ told' = [told EXCEPT ![ViewerOf[e[1]]] = "revoked"]
      BY <1>0, <1>2 DEF EndLast, Vacate, Terminate, EmitEvent
    <2>2. \A c \in Call : told'[ViewerOf[c]] # "granted"
      BY <1>0, <2>1, EntryFacts DEF Truth, OneClaimEach
    <2> QED
      BY <2>1, <2>2, EntryFacts DEF Truth, Queued
  <1>3. CASE EndPromote(e, w)
    <2>1. PICK n : n = Head(queue)
      OBVIOUS
    <2>2. /\ active = e /\ queue # <<>> /\ queue' = Tail(queue) /\ active' = Promoted(n)
          /\ told' = [[told EXCEPT ![ViewerOf[e[1]]] = "revoked"] EXCEPT ![ViewerId(Promoted(n))] = "granted"]
      BY <1>0, <1>3, <2>1
      DEF EndPromote, Promotion, Terminate, StartSessionLocked, EmitEvent
    <2>3. /\ n \in Call /\ n = queue[1] /\ Len(queue') = Len(queue) - 1
          /\ \A i \in 1..Len(queue') : i + 1 \in 1..Len(queue) /\ queue'[i] = queue[i + 1]
          /\ 1 \in 1..Len(queue)
      BY <1>0, <2>1, <2>2
    <2>4. ViewerId(Promoted(n)) = ViewerOf[n]
      BY <2>3, EntryFacts DEF ViewerId
    <2>5. n # e[1] /\ \A i \in 1..Len(queue') : queue'[i] \in Call /\ queue'[i] # n /\ queue'[i] # e[1]
      BY <1>0, <2>2, <2>3, EntryFacts DEF FifoAuthority
    <2>6. ASSUME NEW c \in Call
          PROVE  told'[ViewerOf[c]] = IF c = n THEN "granted"
                                      ELSE IF c = e[1] THEN "revoked" ELSE told[ViewerOf[c]]
      BY <1>0, <2>2, <2>3, <2>4 DEF OneClaimEach
    <2>7. ASSUME NEW c \in Call
          PROVE  told'[ViewerOf[c]] = "granted" <=> active' \in {Claimed(c), Promoted(c)}
      BY <1>0, <2>2, <2>3, <2>6, EntryFacts DEF Truth
    <2>8. ASSUME NEW c \in Call, Queued(c)'
          PROVE  told'[ViewerOf[c]] = "queued"
      <3>1. PICK i \in 1..Len(queue') : queue'[i] = c
        BY <2>8 DEF Queued
      <3>2. Queued(c) /\ c # n /\ c # e[1]
        BY <2>3, <2>5, <3>1 DEF Queued
      <3> QED
        BY <2>6, <3>2 DEF Truth
    <2> QED
      BY <2>7, <2>8 DEF Truth
  <1> QED
    BY <1>1, <1>2, <1>3 DEF EndSession

\* With one claim for each viewer the last lifecycle event a viewer was sent
\* says where it is: in control, in line, or neither.
THEOREM EventsTrue == Spec => []EventsTellTheTruth
  <1> USE ConstantsAssumption
  <1>1. Init => EventsTellTheTruth
    <2> SUFFICES ASSUME Init PROVE Truth
      BY DEF EventsTellTheTruth, Truth
    <2>1. active = NoEntry /\ Len(queue) = 0 /\ told = [v \in Viewer |-> "nothing"]
      BY DEF Init
    <2>2. \A c \in Call : told[ViewerOf[c]] = "nothing"
      BY <2>1
    <2>3. \A c \in Call : active # Claimed(c) /\ active # Promoted(c)
      BY <2>1, EntryFacts
    <2>4. \A c \in Call : ~Queued(c)
      BY <2>1 DEF Queued
    <2> QED
      BY <2>2, <2>3, <2>4 DEF Truth
  <1>2. ASSUME LineInv, EventsTellTheTruth, [Next]_vars
        PROVE  EventsTellTheTruth'
    <2> SUFFICES ASSUME ~stopped', OneClaimEach
                 PROVE  Truth'
      BY DEF EventsTellTheTruth, Truth, OneClaimEach
    <2>0. /\ TypeOK /\ FifoAuthority /\ CallInv /\ queue \in Seq(Call)
          /\ told \in [Viewer -> {"nothing", "queued", "granted", "revoked"}]
          /\ \A c \in Call : ViewerOf[c] \in Viewer
      BY <1>2 DEF LineInv, TypeOK
    <2>s. ~stopped => Truth
      BY <1>2 DEF EventsTellTheTruth, Truth, OneClaimEach
    <2>k. ASSUME UNCHANGED <<active, queue, told, stopped>> PROVE Truth'
      BY <2>k, <2>s DEF Truth, Queued
    <2>1. CASE \E f \in Entry : Ends(f)
      <3>1. PICK f \in Entry : Ends(f)
        BY <2>1
      <3>2. stopped' = stopped
        BY <3>1 DEF Ends, EndSession, EndStale, EndLast, EndPromote, Vacate, Promotion,
                    Terminate, mgrVars
      <3> QED
        BY <1>2, <2>s, <3>1, <3>2, EndSessionTruth DEF Ends
    <2>2. ASSUME NEW c \in Call, ClaimActive(c) PROVE Truth'
      <3>1. /\ active = NoEntry /\ active' = Claimed(c) /\ queue' = queue /\ ~stopped
            /\ told' = [told EXCEPT ![ViewerOf[c]] = "granted"]
        BY <2>2, EntryFacts DEF ClaimActive, StartSessionLocked, EmitEvent, ViewerId
      <3>2. queue = <<>>
        BY <2>0, <3>1 DEF FifoAuthority
      <3> QED
        BY <2>0, <2>s, <3>1, <3>2, EntryFacts DEF Truth, OneClaimEach, Queued
    <2>3. ASSUME NEW c \in Call, ClaimQueued(c) PROVE Truth'
      <3>1. /\ pc[c] = "new" /\ active' = active /\ queue' = Append(queue, c) /\ ~stopped
            /\ told' = [told EXCEPT ![ViewerOf[c]] = "queued"]
        BY <2>3 DEF ClaimQueued, EmitEvent
      <3>2. active # Claimed(c) /\ active # Promoted(c)
        BY <2>0, <3>1 DEF CallInv
      <3>3. \A d \in Call : Queued(d)' => Queued(d) \/ d = c
        BY <2>0, <3>1 DEF Queued
      <3>4. \A d \in Call : told'[ViewerOf[d]] = IF d = c THEN "queued" ELSE told[ViewerOf[d]]
        BY <2>0, <3>1 DEF OneClaimEach
      <3> QED
        BY <2>s, <3>1, <3>2, <3>3, <3>4 DEF Truth
    <2>4. ASSUME NEW c \in Call, ReleaseQueued(c) PROVE Truth'
      <3>1. UNCHANGED <<active, told, stopped>>
        BY <2>4 DEF ReleaseQueued
      <3>2. PICK k \in 1..Len(queue) : queue' = Without(queue, k)
        BY <2>4 DEF ReleaseQueued
      <3>3. \A i \in 1..Len(queue') : \E j \in 1..Len(queue) : queue'[i] = queue[j]
        <4>1. /\ Len(queue') = Len(queue) - 1
              /\ \A i \in 1..(Len(queue) - 1) :
                    queue'[i] = IF i < k THEN queue[i] ELSE queue[i + 1]
          BY <2>0, <3>2, WithoutType
        <4> QED
          BY <2>0, <4>1
      <3>4. \A d \in Call : Queued(d)' => Queued(d)
        BY <3>3 DEF Queued
      <3> QED
        BY <2>s, <3>1, <3>4 DEF Truth
    <2>5. CASE (\E c \in Call : GateCheck(c)) \/ (\E f \in Entry : IdleFire(f))
      BY <2>5, <2>k DEF GateCheck, IdleFire, mgrVars
    <2>6. CASE \E f \in Entry : WatchEmitTick(f)
      BY <2>6, <2>k DEF WatchEmitTick, EmitEvent
    <2>7. CASE Shutdown
      BY <2>7 DEF Shutdown
    <2>8. CASE CloseEvents \/ UNCHANGED lineVars \/ UNCHANGED vars
      BY <2>8, <2>k DEF CloseEvents, lineVars, vars, mgrVars
    <2> QED
      BY <1>2, <2>0, <2>1, <2>2, <2>3, <2>4, <2>5, <2>6, <2>7, <2>8, StepKinds
  <1>3. Init => LineInv
    BY GateInit
  <1> QED
    BY <1>1, <1>2, <1>3, LineStep, PTL DEF Spec

-----------------------------------------------------------------------------
(* The manager implements ControlAuthority. Holder and line are those of    *)
(* the manager; a claim has been served when one of its entries has been    *)
(* started. That it is served once needs WatchInv: a call that is new, or   *)
(* still in line, has had no session.                                       *)

Served == {c \in Call : watch[Claimed(c)] # "off" \/ watch[Promoted(c)] # "off"}

Holder == IF active = NoEntry THEN NoEntry ELSE active[1]

WatchInv == \A c \in Call : pc[c] = "new" \/ Queued(c) => c \notin Served

AuthorityInv == LineInv /\ WatchInv

\* The watchers endSession starts from: one may have ended, none has begun.
LEMMA WatcherEnds ==
    ASSUME TypeOK, NEW e \in Entry, Ends(e)
    PROVE  \E w \in [Entry -> {"off", "run", "done"}] :
               /\ EndSession(e, w)
               /\ \A f \in Entry : w[f] = "off" <=> watch[f] = "off"
  <1>1. watch \in [Entry -> {"off", "run", "done"}]
    BY DEF TypeOK
  <1>2. CASE EndSession(e, watch)
    BY <1>1, <1>2
  <1>3. CASE watch[e] = "run" /\ EndSession(e, [watch EXCEPT ![e] = "done"])
    <2> DEFINE w == [watch EXCEPT ![e] = "done"]
    <2>1. w \in [Entry -> {"off", "run", "done"}]
      BY <1>1
    <2>2. \A f \in Entry : w[f] = "off" <=> watch[f] = "off"
      BY <1>1, <1>3
    <2>3. EndSession(e, w)
      BY <1>3
    <2> HIDE DEF w
    <2> QED
      BY <2>1, <2>2, <2>3
  <1> QED
    BY <1>2, <1>3 DEF Ends

\* endSession is a step of the abstract specification, or none: Vacate when nobody
\* waits, HandOver otherwise.
LEMMA EndSessionImplements ==
    ASSUME AuthorityInv, NEW e \in Entry, NEW w \in [Entry -> {"off", "run", "done"}],
           EndSession(e, w), \A f \in Entry : w[f] = "off" <=> watch[f] = "off"
    PROVE  /\ \/ Holder' = Holder /\ queue' = queue /\ Served' = Served
              \/ Authority!Vacate
              \/ Authority!HandOver
           /\ \A c \in Call : Queued(c)' => Queued(c) /\ (c \in Served' => c \in Served)
           /\ \A c \in Call : c \in Served' => c \in Served \/ Queued(c)
  <1>0. /\ TypeOK /\ FifoAuthority /\ queue \in Seq(Call) /\ e[1] \in Call /\ e # NoEntry
        /\ e[1] # NoEntry
    BY EntryFacts, ConstantsAssumption DEF AuthorityInv, LineInv, TypeOK
  <1>1. CASE EndStale(e, w)
    <2>1. UNCHANGED <<active, queue>> /\ watch' = w
      BY <1>1 DEF EndStale, mgrVars
    <2>2. Served' = Served
      BY <2>1, EntryFacts DEF Served
    <2> QED
      BY <2>1, <2>2 DEF Holder, Queued
  <1>2. CASE EndLast(e, w)
    <2>1. active = e /\ active' = NoEntry /\ queue = <<>> /\ queue' = queue /\ watch' = w
      BY <1>2 DEF EndLast, Vacate, Terminate
    <2>2. Served' = Served
      BY <2>1, EntryFacts DEF Served
    <2>3. Authority!Vacate
      BY <1>0, <2>1, <2>2 DEF Authority!Vacate, Served
    <2> QED
      BY <2>1, <2>2, <2>3 DEF Queued
  <1>3. CASE EndPromote(e, w)
    <2>1. PICK n : n = Head(queue)
      OBVIOUS
    <2>2. /\ active = e /\ queue # <<>> /\ queue' = Tail(queue) /\ active' = Promoted(n)
          /\ watch' = [w EXCEPT ![Promoted(n)] = "run"]
      BY <1>3, <2>1 DEF EndPromote, Promotion, Terminate, StartSessionLocked
    <2>3. /\ n \in Call /\ n = queue[1] /\ Len(queue') = Len(queue) - 1
          /\ \A i \in 1..Len(queue') : i + 1 \in 1..Len(queue) /\ queue'[i] = queue[i + 1]
          /\ 1 \in 1..Len(queue)
      BY <1>0, <2>1, <2>2
    <2>4. Served' = Served \cup {n}
      BY <2>2, <2>3, EntryFacts DEF Served
    <2>5. Queued(n) /\ n \notin Served
      BY <2>3 DEF Queued, AuthorityInv, WatchInv
    <2>6. active' # NoEntry /\ active'[1] = n
      BY <2>2, <2>3, EntryFacts
    <2>7. Authority!HandOver
      BY <1>0, <2>1, <2>2, <2>4, <2>5, <2>6 DEF Authority!HandOver, Served
    <2>8. ASSUME NEW c \in Call, Queued(c)'
          PROVE  Queued(c) /\ c # n
      BY <1>0, <2>3, <2>8 DEF Queued, FifoAuthority
    <2> QED
      BY <2>4, <2>5, <2>7, <2>8
  <1> QED
    BY <1>1, <1>2, <1>3 DEF EndSession

\* Every step is a step of the abstract specification or leaves it alone, and
\* keeps WatchInv.
LEMMA AuthorityStep ==
    AuthorityInv /\ [Next]_vars => WatchInv' /\ [Authority!Next]_(Authority!avars)
  <1> SUFFICES ASSUME AuthorityInv, [Next]_vars
               PROVE  WatchInv' /\ [Authority!Next]_(Authority!avars)
    OBVIOUS
  <1>0. /\ TypeOK /\ FifoAuthority /\ CallInv /\ WatchInv /\ queue \in Seq(Call)
        /\ watch \in [Entry -> {"off", "run", "done"}]
    BY DEF AuthorityInv, LineInv, TypeOK
  <1>n. \A c \in Call : pc[c] = "new" => ~Queued(c) /\ active # Claimed(c) /\ active # Promoted(c)
    BY <1>0 DEF CallInv, Queued
  <1>h. active # NoEntry => Holder \in Call /\ Holder # NoEntry
    BY <1>0, EntryFacts, ConstantsAssumption DEF Holder, TypeOK
  <1>u. ASSUME UNCHANGED <<active, queue, watch>>,
               \A c \in Call : pc'[c] = "new" => pc[c] = "new"
        PROVE  WatchInv' /\ [Authority!Next]_(Authority!avars)
    BY <1>0, <1>u DEF WatchInv, Served, Queued, Authority!avars
  <1>1. CASE UNCHANGED vars
    BY <1>1, <1>u DEF vars, mgrVars, entryVars, callVars
  <1>2. CASE Next
    <2>p. \A c \in Call : pc'[c] = "new" => pc[c] = "new"
      BY <1>0, <1>2, StepKinds
    <2>1. CASE \E e \in Entry : Ends(e)
      <3>1. PICK e \in Entry : Ends(e)
        BY <2>1
      <3>2. PICK w \in [Entry -> {"off", "run", "done"}] :
               EndSession(e, w) /\ \A f \in Entry : w[f] = "off" <=> watch[f] = "off"
        BY <1>0, <3>1, WatcherEnds
      <3>3. /\ \/ Holder' = Holder /\ queue' = queue /\ Served' = Served
               \/ Authority!Vacate
               \/ Authority!HandOver
            /\ \A c \in Call : Queued(c)' => Queued(c) /\ (c \in Served' => c \in Served)
            /\ \A c \in Call : c \in Served' => c \in Served \/ Queued(c)
        BY <3>2, EndSessionImplements
      <3>4. WatchInv'
        BY <1>0, <1>n, <2>p, <3>3 DEF WatchInv
      <3>5. [Authority!Next]_(Authority!avars)
        BY <3>3 DEF Authority!Next, Authority!avars, Holder, Served
      <3> QED
        BY <3>4, <3>5
    <2>2. ASSUME NEW c \in Call, ClaimActive(c)
          PROVE  WatchInv' /\ [Authority!Next]_(Authority!avars)
      <3>1. /\ pc[c] = "new" /\ pc' = [pc EXCEPT ![c] = "claimed"]
            /\ active = NoEntry /\ active' = Claimed(c) /\ queue' = queue
            /\ watch' = [watch EXCEPT ![Claimed(c)] = "run"]
        BY <2>2 DEF ClaimActive, StartSessionLocked
      <3>2. queue = <<>> /\ c \notin Served
        BY <1>0, <3>1 DEF FifoAuthority, WatchInv
      <3>3. Served' = Served \cup {c}
        BY <1>0, <3>1, EntryFacts DEF Served
      <3>4. active' # NoEntry /\ active'[1] = c
        BY <3>1, EntryFacts
      <3>5. Authority!Grant(c)
        BY <3>1, <3>2, <3>3, <3>4 DEF Authority!Grant, Served
      <3>6. WatchInv'
        <4> SUFFICES ASSUME NEW d \in Call, pc'[d] = "new" \/ Queued(d)'
                     PROVE  d \notin Served'
          BY DEF WatchInv
        <4>1. pc'[d] = "new" /\ d # c
          BY <1>0, <3>1, <3>2 DEF Queued, TypeOK
        <4> QED
          BY <1>0, <2>p, <3>3, <4>1 DEF WatchInv
      <3> QED
        BY <3>5, <3>6 DEF Authority!Next
    <2>3. ASSUME NEW c \in Call, ClaimQueued(c)
          PROVE  WatchInv' /\ [Authority!Next]_(Authority!avars)
      <3>1. /\ pc[c] = "new" /\ active # NoEntry
            /\ active' = active /\ queue' = Append(queue, c) /\ watch' = watch
        BY <2>3 DEF ClaimQueued
      <3>2. c \notin Served /\ ~Queued(c) /\ Served' = Served
        BY <1>0, <1>n, <3>1 DEF WatchInv, Served
      <3>3. Authority!Enqueue(c)
        BY <1>h, <3>1, <3>2 DEF Authority!Enqueue, Authority!Waits, Served, Queued, Holder
      <3>4. \A d \in Call : Queued(d)' => Queued(d) \/ d = c
        BY <1>0, <3>1 DEF Queued
      <3>5. WatchInv'
        BY <1>0, <2>p, <3>2, <3>4 DEF WatchInv
      <3> QED
        BY <3>3, <3>5 DEF Authority!Next
    <2>4. ASSUME NEW c \in Call, ReleaseQueued(c)
          PROVE  WatchInv' /\ [Authority!Next]_(Authority!avars)
      <3>1. UNCHANGED <<active, watch>>
        BY <2>4 DEF ReleaseQueued
      <3>2. PICK k \in 1..Len(queue) : queue' = Without(queue, k)
        BY <2>4 DEF ReleaseQueued
      <3>3. Served' = Served
        BY <3>1 DEF Served
      <3>4. Authority!Leave
        BY <3>1, <3>2, <3>3 DEF Authority!Leave, Without, Served
      <3>5. \A i \in 1..Len(queue') : \E j \in 1..Len(queue) : queue'[i] = queue[j]
        <4>1. /\ Len(queue') = Len(queue) - 1
              /\ \A i \in 1..(Len(queue) - 1) :
                    queue'[i] = IF i < k THEN queue[i] ELSE queue[i + 1]
          BY <1>0, <3>2, WithoutType
        <4> QED
          BY <1>0, <4>1
      <3>6. \A d \in Call : Queued(d)' => Queued(d)
        BY <3>5 DEF Queued
      <3>7. WatchInv'
        BY <1>0, <2>p, <3>3, <3>6 DEF WatchInv
      <3> QED
        BY <3>4, <3>7 DEF Authority!Next
    <2>5. CASE \/ \E c \in Call : GateCheck(c)
               \/ \E e \in Entry : IdleFire(e) \/ WatchEmitTick(e)
               \/ Shutdown \/ CloseEvents \/ UNCHANGED lineVars
      <3>1. UNCHANGED <<active, queue, watch>>
        BY <2>5 DEF GateCheck, IdleFire, WatchEmitTick, Shutdown, CloseEvents, lineVars,
                    mgrVars, entryVars
      <3> QED
        BY <1>u, <2>p, <3>1
    <2> QED
      BY <1>0, <1>2, <2>1, <2>2, <2>3, <2>4, <2>5, StepKinds
  <1> QED
    BY <1>1, <1>2

\* The session manager implements the control authority: one holder, a first-come
\* first-served line, a slot that is not left free while somebody waits, and one
\* turn for each claim, whichever goroutines end sessions and however they interleave.
THEOREM AuthorityImplemented == Spec => ImplementsAuthority
  <1>1. Init => AuthorityInv /\ Authority!Init
    <2> SUFFICES ASSUME Init PROVE AuthorityInv /\ Authority!Init
      OBVIOUS
    <2>1. Served = {}
      BY EntryFacts DEF Init, Served
    <2>2. WatchInv
      BY <2>1 DEF WatchInv
    <2>3. Authority!Init
      BY <2>1 DEF Init, Authority!Init, Served
    <2> QED
      BY <2>2, <2>3, GateInit DEF AuthorityInv
  <1>2. AuthorityInv /\ [Next]_vars => AuthorityInv' /\ [Authority!Next]_(Authority!avars)
    BY AuthorityStep, LineStep DEF AuthorityInv
  <1> QED
    BY <1>1, <1>2, PTL DEF Spec, ImplementsAuthority, Authority!Spec

=============================================================================
