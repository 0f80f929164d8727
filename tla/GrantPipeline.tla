--------------------------- MODULE GrantPipeline ---------------------------
(***************************************************************************)
(* How the Twitch bot hands out codes: the grant pipeline, its policy, the *)
(* pool of minted codes, delivery by whisper and chat, and the store of    *)
(* grants with its debounced file (playgate-twitch-bot/src: grant,         *)
(* playgate, store, twitch/whisper.ts, index.ts).                          *)
(*                                                                         *)
(* JavaScript runs to the next await: what lies between two awaits is one  *)
(* step. Codes are numbered in the order in which the server issues them.  *)
(***************************************************************************)
EXTENDS Integers, Sequences, FiniteSets, SequencesExt

CONSTANTS
    Request,       \* GrantRequests, from any source
    User,          \* twitchUserId values
    UserOf,        \* the user of each request
    Setups,        \* delivery modes and bot accounts in use
    Policies,      \* policies the admin page saves
    BatchSize,     \* tokenPool.batchSize
    LowWatermark,  \* tokenPool.lowWatermark
    MaxEvents,     \* MAX_EVENTS
    MaxCodes,      \* bound: codes the server issues
    MaxRare        \* bound: crashes, lost responses, failed writes, admin edits

ASSUME GrantAssumption ==
    /\ UserOf \in [Request -> User]
    /\ \A s \in Setups : s.mode \in {"whisper", "chat", "dual"}
    /\ Policies \subseteq [eligible : SUBSET Request, cooldown : BOOLEAN,
                           maxPerMinute : Nat \ {0}, maxPerStream : Nat \ {0}]
    /\ BatchSize \in Nat \ {0} /\ LowWatermark \in Nat /\ MaxEvents \in Nat \ {0}
    /\ MaxCodes \in Nat /\ MaxRare \in Nat

Code == 1..MaxCodes

VARIABLES
    stage,      \* main: recovering codes, filling the pool, running
    setup,      \* delivery.mode and the bot's account, read at start
    policy,     \* PolicyEngine.policy
    minted,     \* codes 1..minted exist at the server
    redeemed,   \* those redeemed when the bot last listed them
    buffer,     \* TokenPool.buffer
    refilling,  \* TokenPool.refilling is not null
    pc,         \* where the handling of each request is
    held,       \* the code it has taken, or 0
    chain,      \* WhisperSender.chain: the requests and codes to be whispered
    got,        \* the users each code has reached
    slipped,    \* history: codes put into the pool that reach somebody
    mem,        \* GrantStore.data: users with a grant, the number of events in
                \* the log and of those in this stream
    disk,       \* the same, in the file
    timer,      \* GrantStore.flushTimer is not null
    unsaved,    \* history: the last write of the file failed
    rare        \* rare events so far

poolVars == <<minted, buffer, refilling>>
askVars == <<pc, held, chain>>
outVars == <<redeemed, got, slipped>>
storeVars == <<mem, disk, timer, unsaved>>
vars == <<stage, setup, policy, poolVars, askVars, outVars, storeVars, rare>>

Init ==
    /\ stage = "recover" /\ setup \in Setups /\ policy \in Policies
    /\ minted = 0 /\ redeemed = {}
    /\ buffer = <<>> /\ refilling = FALSE
    /\ pc = [r \in Request |-> "new"] /\ held = [r \in Request |-> 0]
    /\ chain = <<>> /\ got = [c \in Code |-> {}] /\ slipped = {}
    /\ mem = [users |-> {}, events |-> 0, stream |-> 0] /\ disk = mem
    /\ timer = FALSE /\ unsaved = FALSE
    /\ rare = 0

Rare == rare < MaxRare /\ rare' = rare + 1

\* No request is about to go on with the result of a refill; events that come
\* from outside wait for those that are.
Settled == stage = "up" /\ \A r \in Request : pc[r] # "woken"

-----------------------------------------------------------------------------
(* TokenPool. *)

NeedsRefill(n) == n <= LowWatermark

\* The server lists the codes of a room newest first.
NewestFirst(codes) == {s \in SetToSeqs(codes) : \A i \in 2..Len(s) : s[i] < s[i - 1]}

\* init: the codes the server lists as issued, or none if that fails. By now
\* viewers have redeemed some of the codes that reached them.
Recover ==
    /\ stage = "recover"
    /\ \E used \in SUBSET {c \in 1..minted : got[c] # {}} :
           /\ redeemed' = redeemed \cup used
           /\ buffer' \in NewestFirst(1..minted \ redeemed') \cup {<<>>}
    /\ slipped' = slipped \cup {c \in ToSet(buffer') : got[c] # {}}
    /\ refilling' = NeedsRefill(Len(buffer'))
    /\ stage' = IF refilling' THEN "fill" ELSE "up"
    /\ UNCHANGED <<setup, policy, minted, askVars, got, storeVars, rare>>

\* refill: the batch arrives. The requests that wait for it go on.
MintDone ==
    /\ refilling /\ minted + BatchSize <= MaxCodes
    /\ minted' = minted + BatchSize
    /\ buffer' = buffer \o [i \in 1..BatchSize |-> minted + i]
    /\ refilling' = FALSE
    /\ stage' = "up"
    /\ pc' = [r \in Request |-> IF pc[r] = "waiting" THEN "woken" ELSE pc[r]]
    /\ UNCHANGED <<setup, policy, held, chain, outVars, storeVars, rare>>

\* Mutated form: those that wait are not told.
MintFailsSilently ==
    /\ refilling /\ refilling' = FALSE
    /\ stage' = IF stage = "fill" THEN "recover" ELSE "up"
    /\ UNCHANGED <<setup, policy, minted, buffer, askVars, outVars, storeVars, rare>>

\* refill rejects, and with it the take of the requests that wait; in init
\* this ends the process, which is started again. The server may have issued
\* the batch.
MintFails ==
    /\ refilling /\ refilling' = FALSE
    /\ stage' = IF stage = "fill" THEN "recover" ELSE "up"
    /\ pc' = [r \in Request |-> IF pc[r] = "waiting" THEN "dropped" ELSE pc[r]]
    /\ \/ UNCHANGED <<minted, rare>>
       \/ minted + BatchSize <= MaxCodes /\ minted' = minted + BatchSize /\ Rare
    /\ UNCHANGED <<setup, policy, buffer, held, chain, outVars, storeVars>>

-----------------------------------------------------------------------------
(* The pipeline, to the point where a code is on its way. *)

\* PolicyEngine.evaluate, when the cooldown since the user's last grant is over
\* or not, and that many events of the log are less than a minute old.
Allowed(r, elapsed, recent) ==
    /\ r \in policy.eligible
    /\ policy.cooldown /\ UserOf[r] \in mem.users => elapsed
    /\ recent < policy.maxPerMinute
    /\ mem.stream < policy.maxPerStream

Verdict(r, allowed) ==
    /\ pc[r] = "new" /\ Settled
    /\ \E elapsed \in BOOLEAN, recent \in 0..mem.events :
            Allowed(r, elapsed, recent) = allowed

Deny(r) ==
    /\ Verdict(r, FALSE)
    /\ pc' = [pc EXCEPT ![r] = "denied"]
    /\ UNCHANGED <<stage, setup, policy, poolVars, held, chain, outVars, storeVars, rare>>

\* take: a code is shifted out, a refill started if few are left.
Shift(r) ==
    /\ buffer # <<>>
    /\ held' = [held EXCEPT ![r] = Head(buffer)]
    /\ buffer' = Tail(buffer)
    /\ refilling' = (refilling \/ NeedsRefill(Len(buffer')))

\* deliver, up to its first await: a whisper is queued unless the mode is chat
\* or the bot would whisper to itself; in mode whisper its result is awaited.
Deliver(r) ==
    LET whispers == setup.mode # "chat" /\ UserOf[r] # setup.bot
    IN  /\ chain' = IF whispers THEN Append(chain, <<r, held'[r]>>) ELSE chain
        /\ pc' = [pc EXCEPT ![r] = IF whispers /\ setup.mode = "whisper" THEN "whisper" ELSE "chat"]

Take(r) ==
    /\ Verdict(r, TRUE)
    /\ Shift(r) /\ Deliver(r)
    /\ UNCHANGED <<stage, setup, policy, minted, outVars, storeVars, rare>>

\* take, the buffer is empty: the refill in flight, or a new one, is awaited.
TakeWaits(r) ==
    /\ Verdict(r, TRUE)
    /\ buffer = <<>>
    /\ refilling' = TRUE
    /\ pc' = [pc EXCEPT ![r] = "waiting"]
    /\ UNCHANGED <<stage, setup, policy, minted, buffer, held, chain,
                   outVars, storeVars, rare>>

\* take, after the refill.
TakeWoken(r) ==
    /\ pc[r] = "woken"
    /\ Shift(r) /\ Deliver(r)
    /\ UNCHANGED <<stage, setup, policy, minted, outVars, storeVars, rare>>

\* Others were faster: "token pool empty and refill failed".
TakeThrows(r) ==
    /\ pc[r] = "woken" /\ buffer = <<>>
    /\ pc' = [pc EXCEPT ![r] = "dropped"]
    /\ UNCHANGED <<stage, setup, policy, poolVars, held, chain, outVars, storeVars, rare>>

-----------------------------------------------------------------------------
(* Delivery, and what the pipeline does with its result. *)

Reach(r, c) == got' = [got EXCEPT ![c] = @ \cup {UserOf[r]}]

Capped(n) == IF n > MaxEvents THEN MaxEvents ELSE n

\* Mutated form: no flush is scheduled.
RecordUnscheduled(r) ==
    /\ mem' = [users |-> mem.users \cup {UserOf[r]},
               events |-> Capped(mem.events + 1), stream |-> Capped(mem.stream + 1)]
    /\ pc' = [pc EXCEPT ![r] = "granted"] /\ held' = [held EXCEPT ![r] = 0]
    /\ UNCHANGED timer

\* store.record
Record(r) ==
    /\ mem' = [users |-> mem.users \cup {UserOf[r]},
               events |-> Capped(mem.events + 1), stream |-> Capped(mem.stream + 1)]
    /\ pc' = [pc EXCEPT ![r] = "granted"] /\ held' = [held EXCEPT ![r] = 0]
    /\ timer' = TRUE

\* The whisper whose turn it is is sent. In mode dual nobody waits for it.
WhisperSent ==
    /\ Settled /\ chain # <<>>
    /\ LET r == Head(chain)[1]
       IN  /\ Reach(r, Head(chain)[2])
           /\ IF pc[r] = "whisper" THEN Record(r) ELSE UNCHANGED <<mem, pc, held, timer>>
    /\ chain' = Tail(chain)
    /\ UNCHANGED <<stage, setup, policy, poolVars, redeemed, slipped, disk, unsaved, rare>>

\* It is rejected, or its response is lost: the next one has its turn, and in
\* mode whisper the code goes to the chat.
WhisperRejected ==
    /\ Settled /\ chain # <<>>
    /\ LET r == Head(chain)[1]
       IN  /\ pc' = IF pc[r] = "whisper" THEN [pc EXCEPT ![r] = "chat"] ELSE pc
           /\ \/ UNCHANGED <<got, rare>>
              \/ Reach(r, Head(chain)[2]) /\ Rare
    /\ chain' = Tail(chain)
    /\ UNCHANGED <<stage, setup, policy, poolVars, held, redeemed, slipped, storeVars>>

\* Mutated form: the code goes back to the pool after every chat delivery.
ChatSentReturned(r) ==
    /\ pc[r] = "chat" /\ Settled
    /\ Reach(r, held[r])
    /\ buffer' = <<held[r]>> \o buffer
    /\ Record(r)
    /\ UNCHANGED <<stage, setup, policy, minted, refilling, chain, redeemed,
                   slipped, disk, unsaved, rare>>

\* The mention in the chat is sent.
ChatSent(r) ==
    /\ pc[r] = "chat" /\ Settled
    /\ Reach(r, held[r])
    /\ Record(r)
    /\ UNCHANGED <<stage, setup, policy, poolVars, chain, redeemed, slipped, disk, unsaved, rare>>

\* It is not, or nobody learns that it was: deliver returns "failed" and the
\* code goes back to the pool, although a whisper may have reached the user or
\* may yet do so.
ChatFails(r) ==
    /\ pc[r] = "chat" /\ Settled
    /\ \/ UNCHANGED <<got, rare>>
       \/ Reach(r, held[r]) /\ Rare
    /\ buffer' = <<held[r]>> \o buffer
    /\ slipped' = IF got'[held[r]] # {} \/ \E i \in 1..Len(chain) : chain[i][2] = held[r]
                  THEN slipped \cup {held[r]} ELSE slipped
    /\ pc' = [pc EXCEPT ![r] = "failed"] /\ held' = [held EXCEPT ![r] = 0]
    /\ UNCHANGED <<stage, setup, policy, minted, refilling, chain, redeemed, storeVars>>

-----------------------------------------------------------------------------
(* The store, the admin page and the process. *)

\* The debounced flush, which may fail to write.
Flush ==
    /\ timer /\ timer' = FALSE
    /\ \/ disk' = mem /\ unsaved' = FALSE /\ UNCHANGED rare
       \/ unsaved' = TRUE /\ UNCHANGED disk /\ Rare
    /\ UNCHANGED <<stage, setup, policy, poolVars, askVars, outVars, mem>>

\* POST /api/reset-stream
ResetStream ==
    /\ Settled /\ mem.stream > 0 /\ Rare
    /\ mem' = [mem EXCEPT !.stream = 0] /\ timer' = TRUE
    /\ UNCHANGED <<stage, setup, policy, poolVars, askVars, outVars, disk, unsaved>>

\* PUT /api/policy: saved to config.yaml and put in force.
SetPolicy(p) ==
    /\ Settled /\ p # policy /\ Rare
    /\ policy' = p
    /\ UNCHANGED <<stage, setup, poolVars, askVars, outVars, storeVars>>

\* The process ends with the grants in the file being d, and starts again.
Restart(d) ==
    /\ stage' = "recover" /\ setup' \in Setups
    /\ buffer' = <<>> /\ refilling' = FALSE /\ chain' = <<>>
    /\ pc' = [r \in Request |-> IF pc[r] \in {"waiting", "woken", "whisper", "chat"}
                                THEN "gone" ELSE pc[r]]
    /\ held' = [r \in Request |-> 0]
    /\ mem' = d /\ disk' = d /\ timer' = FALSE /\ unsaved' = FALSE
    /\ UNCHANGED <<policy, minted, outVars>>

\* A crash, and SIGTERM, whose handler writes the file.
Crash == Rare /\ Restart(disk)
Shutdown == stage = "up" /\ Rare /\ Restart(mem)

Handle(r) ==
    \/ Deny(r) \/ Take(r) \/ TakeWaits(r) \/ TakeWoken(r) \/ TakeThrows(r)
    \/ ChatSent(r) \/ ChatFails(r)
Mint == MintDone \/ MintFails
Whisper == WhisperSent \/ WhisperRejected

Next ==
    \/ Recover \/ Mint \/ Whisper \/ Flush \/ ResetStream \/ Crash \/ Shutdown
    \/ \E r \in Request : Handle(r)
    \/ \E p \in Policies : SetPolicy(p)

Spec == Init /\ [][Next]_vars

\* Requests to the server and to Twitch return or fail, timers fire, and what
\* was awaited goes on: the event loop does not idle while one of them is due.
Due ==
    \/ Recover \/ Mint \/ Whisper \/ Flush
    \/ \E r \in Request : TakeWoken(r) \/ TakeThrows(r) \/ ChatSent(r) \/ ChatFails(r)

FairSpec == Spec /\ WF_vars(Due)

-----------------------------------------------------------------------------
(* Properties. *)

Over == {"denied", "dropped", "failed", "granted", "gone"}

\* What the policy remembers of grants is in the file or about to be written.
\* (Unless the last write failed, which is not tried again.)
SavedOrScheduled == mem # disk => timer \/ unsaved

\* A code reaches one user only, and is not handed out again once it has been
\* redeemed or delivered. (Unless delivery reported a failure although it
\* reached somebody, or a restart recovered a code not redeemed yet.)
DeliveredToOne ==
    \A c \in Code \ slipped :
        /\ Cardinality(got[c]) <= 1
        /\ got[c] # {} => \A i \in 1..Len(buffer) : buffer[i] # c

\* Every request ends, however whispers queue, refills fail and requests
\* compete for the codes of one batch.
RequestsEnd == \A r \in Request : pc[r] # "new" ~> pc[r] \in Over

=============================================================================
