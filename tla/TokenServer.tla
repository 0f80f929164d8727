---------------------------- MODULE TokenServer ----------------------------
(***************************************************************************)
(* playgate-server: the life of a token code (issue, redeem, revoke) and   *)
(* of a kick request (kick, heartbeat) under concurrent HTTP handlers      *)
(* (internal/api/server.go) on one SQLite connection (internal/db/db.go)   *)
(* and an in-memory queue counter (internal/queue/queue.go).               *)
(*                                                                         *)
(* One SQL statement, or one queue.Next, is one step; a handler that reads *)
(* a row and writes it in another statement interleaves with the others.   *)
(* There is one room and one host; a request is identified with what it    *)
(* creates, so that a redeem request is also its viewer_id.                *)
(***************************************************************************)
EXTENDS Integers, FiniteSets

CONSTANTS
    Code,         \* token codes
    Redeem,       \* POST /api/tokens/{code}/redeem requests
    Revoke,       \* DELETE /api/tokens/{code} requests
    Beat,         \* POST /api/rooms/{id}/heartbeat requests
    Kick,         \* POST /api/rooms/{id}/kick requests
    CodeOf,       \* the code a Redeem or Revoke request names
    NoViewer,     \* SQL NULL
    DbFaults,     \* a statement may fail
    MaxRestarts   \* bound: server restarts

Request == Redeem \cup Revoke \cup Beat \cup Kick

ASSUME TokenAssumption ==
    /\ CodeOf \in [Redeem \cup Revoke -> Code]
    /\ NoViewer \notin Redeem
    /\ DbFaults \in BOOLEAN /\ MaxRestarts \in Nat
    /\ Redeem \cap Revoke = {} /\ Redeem \cap Beat = {} /\ Redeem \cap Kick = {}
    /\ Revoke \cap Beat = {} /\ Revoke \cap Kick = {} /\ Beat \cap Kick = {}

VARIABLES
    issued,    \* codes that have a row in tokens
    redeemed,  \* tokens.redeemed
    revoked,   \* tokens.revoked
    viewer,    \* tokens.viewer_id
    session,   \* sessions: the queue_pos stored for each viewer, 0 without a row
    counter,   \* queue.Manager.counters of the room
    pos,       \* the position queue.Next returned to each redeem request
    kick,      \* rooms.kick_requested
    shown,     \* rooms.online, current_viewer: the heartbeat they come from
    sawKick,   \* room.KickRequested as read by each heartbeat
    owed,      \* a kick was accepted and no heartbeat response has told so
    pc,        \* where each request is
    starts     \* server restarts so far

tokenVars == <<issued, redeemed, revoked, viewer>>
queueVars == <<session, counter, pos>>
roomVars  == <<kick, shown, sawKick, owed>>
vars == <<tokenVars, queueVars, roomVars, pc, starts>>

Init ==
    /\ issued = {}
    /\ redeemed = [t \in Code |-> FALSE]
    /\ revoked = [t \in Code |-> FALSE]
    /\ viewer = [t \in Code |-> NoViewer]
    /\ session = [r \in Redeem |-> 0]
    /\ counter = 0 /\ pos = [r \in Redeem |-> 0]
    /\ kick = FALSE /\ shown = NoViewer /\ owed = FALSE
    /\ sawKick = [b \in Beat |-> FALSE]
    /\ pc = [q \in Request |-> "new"]
    /\ starts = 0

To(q, where) == pc' = [pc EXCEPT ![q] = where]

-----------------------------------------------------------------------------
(* Statements of db.go. *)

\* Mutated form: UPDATE ... WHERE code=?
RedeemTokenAlways(t, v) ==
    /\ redeemed' = [redeemed EXCEPT ![t] = TRUE]
    /\ viewer' = [viewer EXCEPT ![t] = v]

\* Mutated form: the code is bound to the viewer_id column.
RedeemTokenSwapped(t, v) ==
    /\ redeemed' = [redeemed EXCEPT ![t] = TRUE]
    /\ viewer' = [viewer EXCEPT ![t] = t]

\* UPDATE ... WHERE code=? AND redeemed=0 AND revoked=0; how many rows it
\* changed is not looked at.
RedeemToken(t, v) ==
    IF redeemed[t] \/ revoked[t]
    THEN UNCHANGED <<redeemed, viewer>>
    ELSE /\ redeemed' = [redeemed EXCEPT ![t] = TRUE]
         /\ viewer' = [viewer EXCEPT ![t] = v]

\* Mutated form: UPDATE ... SET revoked=1 WHERE code=?
RevokeTokenAlways(t) == revoked' = [revoked EXCEPT ![t] = TRUE]

\* UPDATE ... SET revoked=1 WHERE code=? AND redeemed=0
RevokeToken(t) ==
    revoked' = IF redeemed[t] THEN revoked ELSE [revoked EXCEPT ![t] = TRUE]

-----------------------------------------------------------------------------
(* handleIssueTokens: one INSERT for each code of the batch. *)

IssueToken(t) ==
    /\ t \notin issued
    /\ issued' = issued \cup {t}
    /\ UNCHANGED <<redeemed, revoked, viewer, queueVars, roomVars, pc, starts>>

-----------------------------------------------------------------------------
(* handleRedeemToken. *)

\* GetToken: no such code, revoked, or redeemed.
RedeemRefused(r) ==
    /\ pc[r] = "new"
    /\ CodeOf[r] \notin issued \/ revoked[CodeOf[r]] \/ redeemed[CodeOf[r]]
    /\ To(r, "refused")
    /\ UNCHANGED <<tokenVars, queueVars, roomVars, starts>>

\* GetToken and GetRoom; the JWT is signed.
RedeemCheck(r) ==
    /\ pc[r] = "new"
    /\ CodeOf[r] \in issued /\ ~revoked[CodeOf[r]] /\ ~redeemed[CodeOf[r]]
    /\ To(r, "checked")
    /\ UNCHANGED <<tokenVars, queueVars, roomVars, starts>>

RedeemUpdate(r) ==
    /\ pc[r] = "checked"
    /\ RedeemToken(CodeOf[r], r)
    /\ To(r, "redeemed")
    /\ UNCHANGED <<issued, revoked, queueVars, roomVars, starts>>

\* queue.Next
RedeemNext(r) ==
    /\ pc[r] = "redeemed"
    /\ counter' = counter + 1
    /\ pos' = [pos EXCEPT ![r] = counter + 1]
    /\ To(r, "numbered")
    /\ UNCHANGED <<session, tokenVars, roomVars, starts>>

\* CreateSession, then 200 with the JWT.
RedeemSession(r) ==
    /\ pc[r] = "numbered"
    /\ session' = [session EXCEPT ![r] = pos[r]]
    /\ To(r, "ok")
    /\ UNCHANGED <<counter, pos, tokenVars, roomVars, starts>>

-----------------------------------------------------------------------------
(* handleRevokeToken. *)

\* GetTokenByCodeAndHostID: 404 or 409.
RevokeRefused(v) ==
    /\ pc[v] = "new"
    /\ CodeOf[v] \notin issued \/ redeemed[CodeOf[v]] \/ revoked[CodeOf[v]]
    /\ To(v, "refused")
    /\ UNCHANGED <<tokenVars, queueVars, roomVars, starts>>

RevokeCheck(v) ==
    /\ pc[v] = "new"
    /\ CodeOf[v] \in issued /\ ~redeemed[CodeOf[v]] /\ ~revoked[CodeOf[v]]
    /\ To(v, "checked")
    /\ UNCHANGED <<tokenVars, queueVars, roomVars, starts>>

\* RevokeToken, then 204 whatever the statement changed.
RevokeUpdate(v) ==
    /\ pc[v] = "checked"
    /\ RevokeToken(CodeOf[v])
    /\ To(v, "ok")
    /\ UNCHANGED <<issued, redeemed, viewer, queueVars, roomVars, starts>>

-----------------------------------------------------------------------------
(* handleKick and handleHeartbeat. *)

KickSet(k) ==
    /\ pc[k] = "new"
    /\ kick' = TRUE /\ owed' = TRUE
    /\ To(k, "ok")
    /\ UNCHANGED <<shown, sawKick, tokenVars, queueVars, starts>>

\* GetRoomByIDAndHostID: kick_requested is read here ...
BeatRead(b) ==
    /\ pc[b] = "new"
    /\ sawKick' = [sawKick EXCEPT ![b] = kick]
    /\ To(b, "read")
    /\ UNCHANGED <<kick, shown, owed, tokenVars, queueVars, starts>>

\* ... UpdateRoomHeartbeat is a statement of its own ...
BeatUpdate(b) ==
    /\ pc[b] = "read"
    /\ shown' = b
    /\ To(b, "updated")
    /\ UNCHANGED <<kick, sawKick, owed, tokenVars, queueVars, starts>>

\* Mutated form: the flag is cleared whatever was read.
BeatClearAlways(b) ==
    /\ pc[b] = "updated"
    /\ kick' = FALSE
    /\ To(b, "cleared")
    /\ UNCHANGED <<shown, sawKick, owed, tokenVars, queueVars, starts>>

\* ... and the flag is cleared by another if it was read as set.
BeatClear(b) ==
    /\ pc[b] = "updated"
    /\ kick' = IF sawKick[b] THEN FALSE ELSE kick
    /\ To(b, "cleared")
    /\ UNCHANGED <<shown, sawKick, owed, tokenVars, queueVars, starts>>

BeatRespond(b) ==
    /\ pc[b] = "cleared"
    /\ owed' = IF sawKick[b] THEN FALSE ELSE owed
    /\ To(b, "ok")
    /\ UNCHANGED <<kick, shown, sawKick, tokenVars, queueVars, starts>>

-----------------------------------------------------------------------------
(* Failures. *)

\* The next statement of the handler fails: 500, earlier ones stay.
StatementFails(q) ==
    /\ DbFaults
    /\ pc[q] \in {"new", "checked", "numbered", "read", "updated"}
    /\ q \in Beat /\ pc[q] = "updated" => sawKick[q]
    /\ To(q, "failed")
    /\ UNCHANGED <<tokenVars, queueVars, roomVars, starts>>

InFlight(q) == pc[q] \notin {"new", "refused", "ok", "failed", "lost"}

\* The server restarts: handlers are gone, the counter starts over. A heartbeat
\* that had cleared the flag and not answered is "lost".
Restart ==
    /\ starts < MaxRestarts
    /\ starts' = starts + 1
    /\ counter' = 0
    /\ pc' = [q \in Request |-> IF ~InFlight(q) THEN pc[q]
                               ELSE IF pc[q] = "cleared" THEN "lost" ELSE "failed"]
    /\ UNCHANGED <<session, pos, tokenVars, roomVars>>

-----------------------------------------------------------------------------
Next ==
    \/ \E t \in Code : IssueToken(t)
    \/ \E r \in Redeem : RedeemRefused(r) \/ RedeemCheck(r) \/ RedeemUpdate(r)
                            \/ RedeemNext(r) \/ RedeemSession(r)
    \/ \E v \in Revoke : RevokeRefused(v) \/ RevokeCheck(v) \/ RevokeUpdate(v)
    \/ \E k \in Kick : KickSet(k)
    \/ \E b \in Beat : BeatRead(b) \/ BeatUpdate(b) \/ BeatClear(b) \/ BeatRespond(b)
    \/ \E q \in Request : StatementFails(q)
    \/ Restart

Spec == Init /\ [][Next]_vars

-----------------------------------------------------------------------------
(* Properties. *)

\* Type correctness.
TypeOK ==
    /\ issued \subseteq Code
    /\ redeemed \in [Code -> BOOLEAN] /\ revoked \in [Code -> BOOLEAN]
    /\ viewer \in [Code -> Redeem \cup {NoViewer}]
    /\ session \in [Redeem -> Nat]
    /\ counter \in Nat /\ pos \in [Redeem -> Nat]
    /\ kick \in BOOLEAN /\ shown \in Beat \cup {NoViewer}
    /\ sawKick \in [Beat -> BOOLEAN] /\ owed \in BOOLEAN
    /\ pc \in [Request -> {"new", "checked", "redeemed", "numbered", "read", "updated",
                           "cleared", "ok", "refused", "failed", "lost"}]
    /\ starts \in 0..MaxRestarts

\* However the handlers interleave, a row is never both redeemed and revoked,
\* and it names a viewer exactly when it is redeemed.
RowsConsistent ==
    \A t \in Code :
        /\ ~(redeemed[t] /\ revoked[t])
        /\ redeemed[t] <=> viewer[t] # NoViewer

\* A redeemed row is final: no later redeem, revoke or restart changes it.
RedeemedForGood ==
    [][\A t \in Code : redeemed[t] => redeemed'[t] /\ viewer'[t] = viewer[t]
                                      /\ revoked'[t] = revoked[t]]_vars

\* An accepted kick is not lost between the statements of overlapping
\* heartbeats: it is in the row or on its way out in a response. (A heartbeat
\* the server dies with after its clear takes the kick along.)
KickNotLost ==
    owed => \/ kick
            \/ \E b \in Beat : sawKick[b] /\ pc[b] \in {"cleared", "lost"}

\* README.md, redeem: "A token can only be redeemed once."
RedeemedOnce ==
    \A r, s \in Redeem : pc[r] = "ok" /\ pc[s] = "ok" /\ CodeOf[r] = CodeOf[s] => r = s

=============================================================================
