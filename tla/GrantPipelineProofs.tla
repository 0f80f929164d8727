------------------------ MODULE GrantPipelineProofs ------------------------
(***************************************************************************)
(* Proofs about GrantPipeline, for any requests, users, policies and batch *)
(* sizes and any number of crashes and lost responses: what the bot knows  *)
(* of grants is in its file or about to be written, and a code reaches one *)
(* user only.                                                              *)
(***************************************************************************)
EXTENDS GrantPipeline, FiniteSetTheorems, SequenceTheorems, TLAPS

-----------------------------------------------------------------------------
(* The store. *)

LEMMA SavedStep == SavedOrScheduled /\ [Next]_vars => SavedOrScheduled'
<1> SUFFICES ASSUME SavedOrScheduled, [Next]_vars PROVE SavedOrScheduled'
  OBVIOUS
<1> USE DEF SavedOrScheduled, storeVars
<1>1. CASE UNCHANGED storeVars
  BY <1>1
<1>2. CASE Flush
  BY <1>2 DEF Flush
<1>3. CASE ResetStream
  BY <1>3 DEF ResetStream
<1>4. CASE Crash \/ Shutdown
  BY <1>4 DEF Crash, Shutdown, Restart
<1>5. CASE Whisper
  BY <1>5, <1>1 DEF Whisper, WhisperSent, WhisperRejected, Record
<1>6. ASSUME NEW r \in Request, Handle(r) PROVE SavedOrScheduled'
  BY <1>1, <1>6 DEF Handle, Deny, Take, TakeWaits, TakeWoken, TakeThrows, ChatSent, ChatFails, Record
<1>7. CASE Recover \/ Mint \/ (\E p \in Policies : SetPolicy(p)) \/ UNCHANGED vars
  BY <1>1, <1>7 DEF Recover, Mint, MintDone, MintFails, SetPolicy, vars
<1> QED
  BY <1>2, <1>3, <1>4, <1>5, <1>6, <1>7 DEF Next

\* GrantStore never holds a change that is neither in its file nor due to be
\* written, unless the last write failed: every change of data schedules a flush.
THEOREM SavedCorrect == Spec => []SavedOrScheduled
<1>1. Init => SavedOrScheduled
  BY DEF Init, SavedOrScheduled
<1> QED
  BY <1>1, SavedStep, PTL DEF Spec

-----------------------------------------------------------------------------
(* One user per code. *)

\* The types the argument needs.
CodeTypes ==
    /\ minted \in 0..MaxCodes
    /\ buffer \in Seq(Code)
    /\ held \in [Request -> Code \cup {0}]
    /\ chain \in Seq(Request \X Code)
    /\ got \in [Code -> SUBSET User]
    /\ pc \in [Request -> {"new", "waiting", "woken", "whisper", "chat"} \cup Over]

\* The code is in the pool.
InPool(c) == \E i \in 1..Len(buffer) : buffer[i] = c

\* The user has the code, is about to get it in the chat, or by a whisper that
\* waits for its turn.
Has(u, c) == u \in got[c]
Holds(u, c) == \E r \in Request : held[r] = c /\ UserOf[r] = u
Awaits(u, c) == \E i \in 1..Len(chain) : chain[i][2] = c /\ UserOf[chain[i][1]] = u
Concerns(u, c) == Has(u, c) \/ Holds(u, c) \/ Awaits(u, c)

\* A code that does not exist yet concerns nobody.
NoneUnminted ==
    \A c \in Code : c > minted => ~InPool(c) /\ \A u \in User : ~Concerns(u, c)

\* A code is in the pool once, and is either there or with one request.
PoolOnce == \A i, j \in 1..Len(buffer) : buffer[i] = buffer[j] => i = j
HeldOnce ==
    \A r \in Request : held[r] # 0 =>
        /\ ~InPool(held[r])
        /\ \A s \in Request : held[s] = held[r] => s = r

\* A request that delivers holds a code.
DeliverHolds == \A r \in Request : pc[r] \in {"whisper", "chat"} => held[r] # 0

\* Before the pool is filled no code is with a request, or on its way.
EmptyStart ==
    stage # "up" =>
        /\ chain = <<>>
        /\ \A r \in Request : held[r] = 0 /\ pc[r] # "woken"

\* A code concerns one user at most, and none while it is in the pool.
OneUser ==
    \A c \in Code \ slipped : \A u \in User : Concerns(u, c) =>
        /\ ~InPool(c)
        /\ \A v \in User : Concerns(v, c) => v = u

CodeInv ==
    /\ CodeTypes /\ NoneUnminted /\ PoolOnce /\ HeldOnce /\ DeliverHolds
    /\ EmptyStart /\ OneUser

\* What a step that moves no code leaves alone.
codeVars == <<stage, minted, buffer, held, chain, got, slipped, pc>>

\* The server's list is a sequence in which every code occurs once.
LEMMA NewestFirstOnce ==
    ASSUME NEW n \in Nat, NEW S \in SUBSET (1..n), NEW s \in NewestFirst(S)
    PROVE  s \in Seq(S) /\ \A i, j \in 1..Len(s) : s[i] = s[j] => i = j
<1>1. IsFiniteSet(S) /\ Cardinality(S) \in Nat
  <2>1. IsFiniteSet(1..n)
    BY FS_Interval
  <2>2. IsFiniteSet(S)
    BY <2>1, FS_Subset
  <2> QED
    BY <2>2, FS_CardinalityType
<1>2. PICK m \in Nat : m = Cardinality(S)
  BY <1>1
<1>3. s \in [1..m -> S] /\ \A i, j \in 1..m : i # j => s[i] # s[j]
  BY <1>2 DEF NewestFirst, SetToSeqs
<1>4. s \in Seq(S) /\ Len(s) = m
  BY <1>3
<1> QED
  BY <1>3, <1>4

\* A request's code is taken from the pool's front.
LEMMA ShiftTypes ==
    ASSUME CodeTypes, NEW r \in Request, Shift(r)
    PROVE  /\ Len(buffer) \in Nat \ {0} /\ Head(buffer) = buffer[1] /\ buffer[1] \in Code
           /\ held'[r] = buffer[1] /\ held' \in [Request -> Code \cup {0}]
           /\ \A s \in Request \ {r} : held'[s] = held[s]
           /\ buffer' \in Seq(Code) /\ Len(buffer') = Len(buffer) - 1
           /\ \A i \in 1..Len(buffer') : buffer'[i] = buffer[i + 1]
<1>1. buffer \in Seq(Code) /\ buffer # <<>>
  BY DEF CodeTypes, Shift
<1>2. Len(buffer) \in Nat \ {0} /\ Head(buffer) = buffer[1] /\ buffer[1] \in Code
  BY <1>1
<1>3. Tail(buffer) \in Seq(Code) /\ Len(Tail(buffer)) = Len(buffer) - 1
      /\ \A i \in 1..Len(Tail(buffer)) : Tail(buffer)[i] = buffer[i + 1]
  BY <1>1
<1> QED
  BY <1>2, <1>3 DEF CodeTypes, Shift

\* A whisper is queued at the end, or none is.
LEMMA DeliverTypes ==
    ASSUME CodeTypes, NEW r \in Request, held'[r] \in Code, Deliver(r)
    PROVE  /\ chain' \in Seq(Request \X Code)
           /\ chain' # chain => chain' = Append(chain, <<r, held'[r]>>)
           /\ pc' \in [Request -> {"new", "waiting", "woken", "whisper", "chat"} \cup Over]
           /\ \A s \in Request \ {r} : pc'[s] = pc[s]
<1>1. chain \in Seq(Request \X Code) /\ <<r, held'[r]>> \in Request \X Code
  BY DEF CodeTypes
<1>2. Append(chain, <<r, held'[r]>>) \in Seq(Request \X Code)
  BY <1>1
<1>3. chain' = chain \/ chain' = Append(chain, <<r, held'[r]>>)
  BY DEF Deliver
<1> QED
  BY <1>1, <1>2, <1>3 DEF CodeTypes, Deliver

\* The whisper at the front of the chain, and those behind it.
LEMMA HeadOfChain ==
    ASSUME CodeTypes, chain # <<>>
    PROVE  /\ Head(chain) = chain[1] /\ Len(chain) \in Nat \ {0}
           /\ chain[1][1] \in Request /\ chain[1][2] \in Code
           /\ Tail(chain) \in Seq(Request \X Code) /\ Len(Tail(chain)) = Len(chain) - 1
           /\ \A i \in 1..Len(Tail(chain)) : Tail(chain)[i] = chain[i + 1]
<1>1. chain \in Seq(Request \X Code) /\ chain # <<>>
  BY DEF CodeTypes
<1>2. Len(chain) \in Nat \ {0} /\ Head(chain) = chain[1] /\ chain[1] \in Request \X Code
  BY <1>1
<1>3. Tail(chain) \in Seq(Request \X Code) /\ Len(Tail(chain)) = Len(chain) - 1
      /\ \A i \in 1..Len(Tail(chain)) : Tail(chain)[i] = chain[i + 1]
  BY <1>1
<1> QED
  BY <1>2, <1>3

\* The batch is put behind the codes the pool has.
LEMMA Minted ==
    ASSUME CodeTypes, MintDone
    PROVE  /\ minted' \in 0..MaxCodes /\ minted' > minted
           /\ buffer' \in Seq(Code) /\ Len(buffer) \in Nat
           /\ \A i \in 1..Len(buffer) : i \in 1..Len(buffer') /\ buffer'[i] = buffer[i]
           /\ \A i \in 1..Len(buffer') : i > Len(buffer) =>
                  buffer'[i] = minted + (i - Len(buffer))
                  /\ minted < buffer'[i] /\ buffer'[i] <= minted'
<1> DEFINE batch == [i \in 1..BatchSize |-> minted + i]
<1>1. /\ minted \in Nat /\ BatchSize \in Nat \ {0} /\ MaxCodes \in Nat
      /\ minted' = minted + BatchSize /\ minted' <= MaxCodes
      /\ buffer' = buffer \o batch /\ buffer \in Seq(Code)
  BY GrantAssumption DEF CodeTypes, MintDone
<1>2. batch \in Seq(Code) /\ Len(batch) = BatchSize
  <2>1. batch \in [1..BatchSize -> Code]
    BY <1>1 DEF Code
  <2> QED
    BY SMTT(30), <1>1, <2>1
<1>3. \A i \in 1..BatchSize : batch[i] = minted + i
  OBVIOUS
<1> HIDE DEF batch
<1>4. /\ buffer' \in Seq(Code) /\ Len(buffer) \in Nat /\ Len(buffer') = Len(buffer) + BatchSize
      /\ \A i \in 1..Len(buffer) : buffer'[i] = buffer[i]
      /\ \A i \in 1..BatchSize : buffer'[Len(buffer) + i] = batch[i]
  <2>1. Len(buffer) \in Nat /\ Len(batch) \in Nat /\ Len(batch) = BatchSize
    BY <1>1, <1>2
  <2>2. buffer \o batch \in Seq(Code) /\ Len(buffer \o batch) = Len(buffer) + Len(batch)
        /\ \A i \in 1..Len(buffer) + Len(batch) : (buffer \o batch)[i] =
               IF i <= Len(buffer) THEN buffer[i] ELSE batch[i - Len(buffer)]
    BY <1>1, <1>2, ConcatProperties
  <2>3. \A i \in 1..Len(buffer) : buffer'[i] = buffer[i]
    BY <1>1, <2>1, <2>2
  <2>4. ASSUME NEW i \in 1..BatchSize PROVE buffer'[Len(buffer) + i] = batch[i]
    <3>1. /\ Len(buffer) + i \in 1..Len(buffer) + Len(batch) /\ ~(Len(buffer) + i <= Len(buffer))
          /\ (Len(buffer) + i) - Len(buffer) = i
      BY <1>1, <2>1
    <3> QED
      BY <1>1, <2>2, <3>1
  <2> QED
    BY <1>1, <2>1, <2>2, <2>3, <2>4
<1>5. ASSUME NEW i \in 1..Len(buffer'), i > Len(buffer)
      PROVE  buffer'[i] = minted + (i - Len(buffer)) /\ i - Len(buffer) \in 1..BatchSize
  <2>1. i - Len(buffer) \in 1..BatchSize /\ i = Len(buffer) + (i - Len(buffer))
    BY <1>1, <1>4, <1>5
  <2> QED
    BY <1>3, <1>4, <2>1
<1>6. \A i \in 1..Len(buffer) : i \in 1..Len(buffer')
  BY <1>1, <1>4
<1>7. minted' \in 0..MaxCodes /\ minted' > minted
  BY <1>1
<1>8. ASSUME NEW i \in 1..Len(buffer'), i > Len(buffer)
      PROVE  minted < buffer'[i] /\ buffer'[i] <= minted'
  BY <1>1, <1>4, <1>5, <1>8
<1> QED
  BY <1>4, <1>5, <1>6, <1>7, <1>8

LEMMA CodeTypesStep == CodeTypes /\ DeliverHolds /\ [Next]_vars => CodeTypes'
<1> SUFFICES ASSUME CodeTypes, DeliverHolds, [Next]_vars PROVE CodeTypes'
  OBVIOUS
<1> USE GrantAssumption DEF outVars, poolVars, askVars
<1>0. pc \in [Request -> {"new", "waiting", "woken", "whisper", "chat"} \cup Over]
  BY DEF CodeTypes
<1>1. CASE UNCHANGED codeVars
  BY <1>1 DEF codeVars, CodeTypes
<1>2. CASE Recover
  <2>1. buffer' \in Seq(Code)
    <3>1. minted \in Nat /\ 1..minted \subseteq Code
      BY DEF CodeTypes, Code
    <3>2. CASE buffer' = <<>>
      BY <3>2
    <3>3. CASE buffer' \in NewestFirst(1..minted \ redeemed')
      <4> DEFINE S == 1..minted \ redeemed'
      <4>1. S \in SUBSET (1..minted) /\ buffer' \in NewestFirst(S)
        BY <3>3
      <4> HIDE DEF S
      <4>2. buffer' \in Seq(S)
        BY <3>1, <4>1, NewestFirstOnce
      <4>3. S \subseteq Code
        BY <3>1 DEF S
      <4> QED
        BY <4>2, <4>3
    <3> QED
      BY <1>2, <3>2, <3>3 DEF Recover
  <2> QED
    BY <1>2, <2>1 DEF Recover, CodeTypes
<1>3. CASE MintDone
  <2>1. pc' \in [Request -> {"new", "waiting", "woken", "whisper", "chat"} \cup Over]
    BY <1>0, <1>3 DEF MintDone
  <2> QED
    BY <1>3, <2>1, Minted DEF MintDone, CodeTypes
<1>4. CASE MintFails
  <2>1. pc' \in [Request -> {"new", "waiting", "woken", "whisper", "chat"} \cup Over]
    BY <1>0, <1>4 DEF MintFails, Over
  <2>2. minted' \in 0..MaxCodes
    BY <1>4 DEF MintFails, CodeTypes
  <2> QED
    BY <1>4, <2>1, <2>2 DEF MintFails, CodeTypes
<1>5. ASSUME NEW r \in Request, Take(r) \/ TakeWoken(r) PROVE CodeTypes'
  <2>1. Shift(r) /\ Deliver(r) /\ UNCHANGED <<minted, got>>
    BY <1>5 DEF Take, TakeWoken
  <2>2. held'[r] \in Code /\ held' \in [Request -> Code \cup {0}] /\ buffer' \in Seq(Code)
    BY <2>1, ShiftTypes
  <2> QED
    BY <2>1, <2>2, DeliverTypes DEF CodeTypes
<1>6. ASSUME NEW r \in Request, NEW c \in Code, Reach(r, c) PROVE got' \in [Code -> SUBSET User]
  BY <1>6 DEF Reach, CodeTypes
<1>7. CASE WhisperSent \/ WhisperRejected
  <2>1. chain # <<>> /\ chain' = Tail(chain) /\ UNCHANGED <<minted, buffer>>
    BY <1>7 DEF WhisperSent, WhisperRejected
  <2>2. PICK r \in Request, c \in Code : r = Head(chain)[1] /\ c = Head(chain)[2]
    BY <2>1, HeadOfChain
  <2>3. got' = got \/ Reach(r, c)
    BY <1>7, <2>2 DEF WhisperSent, WhisperRejected
  <2>4. got' \in [Code -> SUBSET User]
    BY <1>6, <2>3 DEF CodeTypes
  <2>5. held' \in [Request -> Code \cup {0}]
    BY <1>7, <2>2 DEF WhisperSent, WhisperRejected, Record, CodeTypes
  <2>6. pc' \in [Request -> {"new", "waiting", "woken", "whisper", "chat"} \cup Over]
    BY <1>0, <1>7, <2>2 DEF WhisperSent, WhisperRejected, Record, Over
  <2> QED
    BY <2>1, <2>4, <2>5, <2>6, HeadOfChain DEF CodeTypes
<1>8. ASSUME NEW r \in Request, ChatSent(r) \/ ChatFails(r) PROVE CodeTypes'
  <2>1. pc[r] = "chat" /\ held[r] \in Code
    BY <1>8 DEF ChatSent, ChatFails, DeliverHolds, CodeTypes
  <2>2. got' \in [Code -> SUBSET User]
    BY <1>6, <1>8, <2>1 DEF ChatSent, ChatFails, CodeTypes
  <2>3. <<held[r]>> \o buffer \in Seq(Code)
    BY <2>1 DEF CodeTypes
  <2>4. buffer' \in Seq(Code) /\ UNCHANGED <<minted, chain>>
    BY <1>8, <2>3 DEF ChatSent, ChatFails, CodeTypes
  <2>5. held' \in [Request -> Code \cup {0}]
    BY <1>8 DEF ChatSent, ChatFails, Record, CodeTypes
  <2>6. pc' \in [Request -> {"new", "waiting", "woken", "whisper", "chat"} \cup Over]
    BY <1>0, <1>8 DEF ChatSent, ChatFails, Record, Over
  <2> QED
    BY <2>2, <2>4, <2>5, <2>6 DEF CodeTypes
<1>9. CASE Crash \/ Shutdown
  <2>1. pc' \in [Request -> {"new", "waiting", "woken", "whisper", "chat"} \cup Over]
    BY <1>0, <1>9 DEF Crash, Shutdown, Restart, Over
  <2>2. held' \in [Request -> Code \cup {0}] /\ buffer' = <<>> /\ chain' = <<>>
    BY <1>9 DEF Crash, Shutdown, Restart
  <2> QED
    BY <1>9, <2>1, <2>2 DEF Crash, Shutdown, Restart, CodeTypes
<1>10. ASSUME NEW r \in Request, Deny(r) \/ TakeWaits(r) \/ TakeThrows(r) PROVE CodeTypes'
  <2>1. pc' \in [Request -> {"new", "waiting", "woken", "whisper", "chat"} \cup Over]
    BY <1>0, <1>10 DEF Deny, TakeWaits, TakeThrows, Over
  <2> QED
    BY <1>10, <2>1 DEF Deny, TakeWaits, TakeThrows, CodeTypes
<1>11. CASE Flush \/ ResetStream \/ (\E p \in Policies : SetPolicy(p)) \/ UNCHANGED vars
  BY <1>1, <1>11 DEF Flush, ResetStream, SetPolicy, vars, codeVars
<1> QED
  BY <1>2, <1>3, <1>4, <1>5, <1>7, <1>8, <1>9, <1>10, <1>11
     DEF Next, Mint, Whisper, Handle

\* Steps that put no code anywhere it was not bound for.
LEMMA Settles ==
    ASSUME CodeInv, CodeTypes', minted' >= minted, slipped \subseteq slipped',
           buffer' = buffer \/ buffer' = <<>>,
           \A r \in Request : held'[r] \in {held[r], 0},
           \A u \in User, c \in Code : Has(u, c)' => Concerns(u, c),
           \A u \in User, c \in Code : Awaits(u, c)' => Awaits(u, c)
    PROVE  NoneUnminted' /\ PoolOnce' /\ HeldOnce' /\ OneUser'
<1>1. \A c : InPool(c)' => InPool(c)
  BY DEF InPool
<1>2. \A u \in User, c \in Code : Concerns(u, c)' => Concerns(u, c)
  <2>1. \A u \in User, c \in Code : Holds(u, c)' => Holds(u, c)
    BY DEF Holds, Code
  <2> QED
    BY <2>1 DEF Concerns
<1>3. NoneUnminted'
  <2>1. minted \in Nat /\ minted' \in Nat
    BY GrantAssumption DEF CodeInv, CodeTypes
  <2>2. \A c \in Code : c > minted' => c > minted
    BY <2>1, GrantAssumption DEF Code
  <2> QED
    BY <1>1, <1>2, <2>2 DEF CodeInv, NoneUnminted
<1>4. PoolOnce'
  BY DEF CodeInv, PoolOnce
<1>5. HeldOnce'
  BY <1>1 DEF CodeInv, HeldOnce
<1>6. OneUser'
  BY <1>1, <1>2 DEF CodeInv, OneUser
<1> QED
  BY <1>3, <1>4, <1>5, <1>6

\* A code goes from the pool to a request and into the chain.
LEMMA TakeStep ==
    ASSUME CodeInv, CodeTypes', NEW r \in Request, Shift(r), Deliver(r), stage = "up",
           UNCHANGED <<stage, minted, got, slipped>>
    PROVE  CodeInv'
<1> USE GrantAssumption
<1>0. PICK c \in Code : c = buffer[1]
  BY ShiftTypes DEF CodeInv
<1>1. /\ Len(buffer) \in Nat \ {0} /\ buffer[1] = c /\ held'[r] = c /\ held' \in [Request -> Code \cup {0}]
      /\ \A s \in Request \ {r} : held'[s] = held[s]
      /\ Len(buffer') = Len(buffer) - 1
      /\ \A i \in 1..Len(buffer') : buffer'[i] = buffer[i + 1]
  BY <1>0, ShiftTypes DEF CodeInv
<1>2. /\ chain' # chain => chain' = Append(chain, <<r, c>>)
      /\ chain \in Seq(Request \X Code)
      /\ \A s \in Request \ {r} : pc'[s] = pc[s]
  BY <1>1, DeliverTypes DEF CodeInv, CodeTypes
<1>3. InPool(c) /\ ~InPool(c)' /\ \A d : InPool(d)' => InPool(d)
  <2>1. InPool(c)
    BY <1>1 DEF InPool
  <2>2. ASSUME NEW i \in 1..Len(buffer') PROVE i + 1 \in 1..Len(buffer) /\ i + 1 # 1
    BY <1>1
  <2>3. \A i \in 1..Len(buffer') : buffer'[i] # c
    <3>1. 1 \in 1..Len(buffer)
      BY <1>1
    <3> QED
      BY <1>1, <2>2, <3>1 DEF CodeInv, PoolOnce
  <2>4. ASSUME NEW d, InPool(d)' PROVE InPool(d)
    BY <1>1, <2>2, <2>4 DEF InPool
  <2> QED
    BY <2>1, <2>3, <2>4 DEF InPool
<1>4. ASSUME NEW u \in User, NEW d \in Code, Concerns(u, d)'
      PROVE  Concerns(u, d) \/ (d = c /\ u = UserOf[r])
  <2>1. CASE Has(u, d)'
    BY <2>1 DEF Has, Concerns
  <2>2. CASE Holds(u, d)'
    BY <1>1, <2>2 DEF Holds, Concerns
  <2>3. CASE Awaits(u, d)'
    <3>1. CASE chain' = chain
      BY <2>3, <3>1 DEF Awaits, Concerns
    <3>2. CASE chain' = Append(chain, <<r, c>>)
      <4>1. /\ Len(chain') = Len(chain) + 1 /\ Len(chain) \in Nat
            /\ chain'[Len(chain) + 1] = <<r, c>>
            /\ \A i \in 1..Len(chain) : chain'[i] = chain[i]
        BY <1>1, <1>2, <3>2
      <4>2. PICK i \in 1..Len(chain') : chain'[i][2] = d /\ UserOf[chain'[i][1]] = u
        BY <2>3 DEF Awaits
      <4>3. CASE i \in 1..Len(chain)
        BY <4>1, <4>2, <4>3 DEF Awaits, Concerns
      <4>4. CASE i = Len(chain) + 1
        BY <4>1, <4>2, <4>4
      <4> QED
        BY <4>1, <4>3, <4>4
    <3> QED
      BY <1>2, <3>1, <3>2
  <2> QED
    BY <1>4, <2>1, <2>2, <2>3 DEF Concerns
<1>5. NoneUnminted'
  <2>1. ~(c > minted)
    BY <1>1, <1>3 DEF CodeInv, NoneUnminted
  <2> QED
    BY <1>3, <1>4, <2>1 DEF CodeInv, NoneUnminted
<1>6. PoolOnce'
  <2>1. \A i \in 1..Len(buffer') : i + 1 \in 1..Len(buffer)
    BY <1>1
  <2>2. ASSUME NEW i \in 1..Len(buffer'), NEW j \in 1..Len(buffer'), buffer'[i] = buffer'[j]
        PROVE  i = j
    <3>1. i + 1 = j + 1
      BY <1>1, <2>1, <2>2 DEF CodeInv, PoolOnce
    <3> QED
      BY <1>1, <3>1
  <2> QED
    BY <2>2 DEF PoolOnce
<1>7. HeldOnce'
  <2>1. \A s \in Request : held[s] # c
    BY <1>1, <1>3 DEF CodeInv, HeldOnce, Code
  <2>2. ASSUME NEW s \in Request, NEW d \in Code, held'[s] = d
        PROVE  ~InPool(d)' /\ \A t \in Request : held'[t] = d => t = s
    <3>1. CASE s = r
      <4>1. d = c
        BY <1>1, <2>2, <3>1
      <4> QED
        BY <1>1, <1>3, <2>1, <3>1, <4>1
    <3>2. CASE s # r
      <4>1. held[s] = d /\ d # c /\ d # 0
        BY <1>1, <2>1, <2>2, <3>2 DEF Code
      <4>2. ~InPool(d) /\ \A t \in Request : held[t] = d => t = s
        BY <4>1 DEF CodeInv, HeldOnce
      <4> QED
        BY <1>1, <1>3, <4>1, <4>2
    <3> QED
      BY <3>1, <3>2
  <2> QED
    BY <1>1, <2>2 DEF HeldOnce, InPool
<1>8. DeliverHolds'
  <2> SUFFICES ASSUME NEW s \in Request, pc'[s] \in {"whisper", "chat"} PROVE held'[s] # 0
    BY DEF DeliverHolds
  <2>1. CASE s = r
    BY <1>1, <2>1 DEF Code
  <2>2. CASE s # r
    <3>1. pc'[s] = pc[s] /\ held'[s] = held[s]
      BY <1>1, <1>2, <2>2
    <3> QED
      BY <3>1 DEF CodeInv, DeliverHolds
  <2> QED
    BY <2>1, <2>2
<1>9. EmptyStart'
  BY DEF EmptyStart
<1>10. OneUser'
  <2>1. c \notin slipped => \A u \in User : ~Concerns(u, c)
    BY <1>1, <1>3 DEF CodeInv, OneUser
  <2> QED
    BY <1>3, <1>4, <2>1 DEF CodeInv, OneUser
<1> QED
  BY <1>5, <1>6, <1>7, <1>8, <1>9, <1>10 DEF CodeInv

\* New codes enter the pool.
LEMMA MintStep == ASSUME CodeInv, CodeTypes', MintDone PROVE CodeInv'
<1> USE GrantAssumption
<1>1. /\ minted \in Nat /\ minted' \in Nat /\ minted' > minted
      /\ Len(buffer) \in Nat /\ Len(buffer') \in Nat
      /\ \A i \in 1..Len(buffer) : i \in 1..Len(buffer') /\ buffer'[i] = buffer[i]
      /\ \A i \in 1..Len(buffer') : i > Len(buffer) =>
             buffer'[i] = minted + (i - Len(buffer))
             /\ minted < buffer'[i] /\ buffer'[i] <= minted'
  BY Minted DEF CodeInv, CodeTypes
<1>2. UNCHANGED <<held, chain, got, slipped>> /\ stage' = "up"
  BY DEF MintDone, outVars
<1>3. ASSUME NEW d \in Code, InPool(d)'
      PROVE  IF d > minted THEN d <= minted' ELSE InPool(d)
  <2>1. PICK i \in 1..Len(buffer') : buffer'[i] = d
    BY <1>3 DEF InPool
  <2>2. CASE i > Len(buffer)
    BY <1>1, <2>1, <2>2
  <2>3. CASE ~(i > Len(buffer))
    <3>1. i \in 1..Len(buffer) /\ InPool(d)
      BY <1>1, <2>1, <2>3 DEF InPool
    <3> QED
      BY <3>1 DEF CodeInv, NoneUnminted
  <2> QED
    BY <2>2, <2>3
<1>4. \A u \in User, d \in Code : Concerns(u, d)' <=> Concerns(u, d)
  BY <1>2 DEF Concerns, Has, Holds, Awaits
<1>5. NoneUnminted'
  <2>1. ASSUME NEW d \in Code, d > minted'
        PROVE  ~InPool(d)' /\ \A u \in User : ~Concerns(u, d)'
    <3>1. d > minted /\ d \in Nat
      BY <1>1, <2>1 DEF Code
    <3>2. ~InPool(d)'
      BY <1>1, <1>3, <2>1, <3>1
    <3> QED
      BY <1>4, <3>1, <3>2 DEF CodeInv, NoneUnminted
  <2> QED
    BY <2>1 DEF NoneUnminted
<1>6. PoolOnce'
  <2>1. \A i \in 1..Len(buffer) : buffer[i] <= minted /\ buffer[i] \in Nat
    <3>1. ASSUME NEW i \in 1..Len(buffer) PROVE buffer[i] <= minted /\ buffer[i] \in Nat
      <4>1. buffer[i] \in Code /\ InPool(buffer[i])
        BY DEF CodeInv, CodeTypes, InPool
      <4> QED
        BY <1>1, <4>1 DEF CodeInv, NoneUnminted, Code
    <3> QED
      BY <3>1
  <2>2. ASSUME NEW i \in 1..Len(buffer'), NEW j \in 1..Len(buffer'), buffer'[i] = buffer'[j]
        PROVE  i = j
    <3>1. CASE i \in 1..Len(buffer) /\ j \in 1..Len(buffer)
      BY <1>1, <2>2, <3>1 DEF CodeInv, PoolOnce
    <3>2. CASE i > Len(buffer) /\ j > Len(buffer)
      BY <1>1, <2>2, <3>2
    <3>3. CASE i \in 1..Len(buffer) /\ j > Len(buffer)
      BY <1>1, <2>1, <2>2, <3>3
    <3>4. CASE i > Len(buffer) /\ j \in 1..Len(buffer)
      BY <1>1, <2>1, <2>2, <3>4
    <3> QED
      BY <1>1, <3>1, <3>2, <3>3, <3>4
  <2> QED
    BY <2>2 DEF PoolOnce
<1>7. HeldOnce'
  <2>1. ASSUME NEW r \in Request, NEW d \in Code, held[r] = d PROVE ~InPool(d)' /\ d # 0
    <3>1. d # 0 /\ ~InPool(d)
      BY <2>1 DEF CodeInv, HeldOnce, Code
    <3>2. UserOf[r] \in User /\ Concerns(UserOf[r], d)
      BY <2>1 DEF Concerns, Holds
    <3>3. ~(d > minted)
      BY <3>2 DEF CodeInv, NoneUnminted
    <3> QED
      BY <1>3, <3>1, <3>3
  <2>2. \A r \in Request : held[r] \in Code \cup {0}
    BY DEF CodeInv, CodeTypes
  <2> QED
    BY <1>2, <2>1, <2>2 DEF CodeInv, HeldOnce, InPool
<1>8. DeliverHolds'
  <2>1. \A r \in Request : pc'[r] \in {"whisper", "chat"} => pc[r] \in {"whisper", "chat"}
    BY DEF MintDone
  <2> QED
    BY <1>2, <2>1 DEF CodeInv, DeliverHolds
<1>9. EmptyStart'
  BY <1>2 DEF EmptyStart
<1>10. OneUser'
  <2>1. ASSUME NEW d \in Code \ slipped, NEW u \in User, Concerns(u, d)
        PROVE  ~InPool(d)' /\ \A v \in User : Concerns(v, d) => v = u
    <3>1. ~(d > minted)
      BY <2>1 DEF CodeInv, NoneUnminted
    <3> QED
      BY <1>3, <2>1, <3>1 DEF CodeInv, OneUser
  <2> QED
    BY <1>2, <1>4, <2>1 DEF OneUser
<1> QED
  BY <1>5, <1>6, <1>7, <1>8, <1>9, <1>10 DEF CodeInv

\* A code goes back to the pool: it is one that has slipped, or concerns nobody.
LEMMA GiveBackStep ==
    ASSUME CodeInv, CodeTypes', NEW r \in Request, ChatFails(r)
    PROVE  CodeInv'
<1> USE GrantAssumption
<1>0. PICK c \in Code : c = held[r]
  BY DEF CodeInv, CodeTypes, DeliverHolds, ChatFails
<1>1. /\ buffer' = <<c>> \o buffer /\ UNCHANGED <<stage, minted, chain>>
      /\ held' = [held EXCEPT ![r] = 0] /\ pc' = [pc EXCEPT ![r] = "failed"]
      /\ slipped \subseteq slipped'
      /\ c \in slipped' \/ (got'[c] = {} /\ ~\E i \in 1..Len(chain) : chain[i][2] = c)
      /\ got' = got \/ got' = [got EXCEPT ![c] = @ \cup {UserOf[r]}]
      /\ stage = "up"
  BY <1>0 DEF ChatFails, Settled, Reach
<1>2. /\ buffer \in Seq(Code) /\ Len(buffer) \in Nat /\ Len(buffer') = Len(buffer) + 1
      /\ buffer'[1] = c
      /\ \A i \in 2..Len(buffer') : i - 1 \in 1..Len(buffer) /\ buffer'[i] = buffer[i - 1]
  <2>1. buffer \in Seq(Code) /\ Len(buffer) \in Nat /\ <<c>> \in Seq(Code) /\ Len(<<c>>) = 1
    BY DEF CodeInv, CodeTypes
  <2>2. Len(buffer') = 1 + Len(buffer) /\ \A i \in 1..1 + Len(buffer) :
            buffer'[i] = IF i <= 1 THEN <<c>>[i] ELSE buffer[i - 1]
    BY <1>1, <2>1, ConcatProperties
  <2> QED
    BY <2>1, <2>2
<1>3. ~InPool(c) /\ \A s \in Request : held[s] = c => s = r
  BY <1>0 DEF CodeInv, HeldOnce, Code
<1>4. ASSUME NEW d, InPool(d)' PROVE d = c \/ InPool(d)
  <2>1. PICK i \in 1..Len(buffer') : buffer'[i] = d
    BY <1>4 DEF InPool
  <2>2. i = 1 \/ i \in 2..Len(buffer')
    BY <1>2
  <2> QED
    BY <1>2, <2>1, <2>2 DEF InPool
<1>5. held \in [Request -> Code \cup {0}] /\ got \in [Code -> SUBSET User]
  BY DEF CodeInv, CodeTypes
<1>6. \A u \in User, d \in Code : Concerns(u, d)' => Concerns(u, d)
  <2>1. \A u \in User, d \in Code : Has(u, d)' => Has(u, d) \/ Holds(u, d)
    BY <1>0, <1>1, <1>5 DEF Has, Holds
  <2>2. \A u \in User, d \in Code : Holds(u, d)' => Holds(u, d)
    BY <1>1, <1>5 DEF Holds, Code
  <2>3. \A u \in User, d \in Code : Awaits(u, d)' => Awaits(u, d)
    BY <1>1 DEF Awaits
  <2> QED
    BY <2>1, <2>2, <2>3 DEF Concerns
<1>7. c \notin slipped' => \A u \in User : ~Concerns(u, c)'
  <2>1. \A s \in Request : held'[s] # c
    BY <1>1, <1>3, <1>5 DEF Code
  <2> QED
    BY <1>1, <2>1 DEF Concerns, Has, Holds, Awaits
<1>8. NoneUnminted'
  <2>1. UserOf[r] \in User /\ Concerns(UserOf[r], c)
    BY <1>0 DEF Concerns, Holds
  <2>2. ~(c > minted)
    BY <2>1 DEF CodeInv, NoneUnminted
  <2> QED
    BY <1>1, <1>4, <1>6, <2>2 DEF CodeInv, NoneUnminted
<1>9. PoolOnce'
  <2>1. ASSUME NEW i \in 1..Len(buffer'), NEW j \in 1..Len(buffer'), buffer'[i] = buffer'[j]
        PROVE  i = j
    <3>1. ASSUME NEW k \in 2..Len(buffer') PROVE buffer'[k] # c
      <4>1. k - 1 \in 1..Len(buffer) /\ buffer'[k] = buffer[k - 1]
        BY <1>2
      <4>2. \A n \in 1..Len(buffer) : buffer[n] # c
        BY <1>3 DEF InPool
      <4> QED
        BY <4>1, <4>2
    <3>2. CASE i = 1 \/ j = 1
      BY <1>2, <2>1, <3>1, <3>2
    <3>3. CASE i # 1 /\ j # 1
      <4>1. i \in 2..Len(buffer') /\ j \in 2..Len(buffer')
        BY <3>3
      <4>2. /\ i - 1 \in 1..Len(buffer) /\ j - 1 \in 1..Len(buffer)
            /\ buffer[i - 1] = buffer[j - 1]
        BY <1>2, <2>1, <4>1
      <4>3. i - 1 = j - 1
        BY <4>2 DEF CodeInv, PoolOnce
      <4> QED
        BY <1>2, <4>3
    <3> QED
      BY <3>2, <3>3
  <2> QED
    BY <2>1 DEF PoolOnce
<1>10. HeldOnce'
  <2>1. ASSUME NEW s \in Request, NEW d \in Code, held'[s] = d
        PROVE  ~InPool(d)' /\ \A t \in Request : held'[t] = d => t = s
    <3>1. s # r /\ held[s] = d /\ d # c /\ d # 0
      BY <1>1, <1>3, <1>5, <2>1 DEF Code
    <3>2. ~InPool(d) /\ \A t \in Request : held[t] = d => t = s
      BY <3>1 DEF CodeInv, HeldOnce
    <3> QED
      BY <1>1, <1>4, <1>5, <3>1, <3>2
  <2>2. \A s \in Request : held'[s] \in Code \cup {0}
    BY <1>1, <1>5
  <2> QED
    BY <2>1, <2>2 DEF HeldOnce, InPool
<1>11. DeliverHolds' /\ EmptyStart'
  <2>1. \A s \in Request : pc'[s] \in {"whisper", "chat"} => s # r /\ pc'[s] = pc[s]
    BY <1>1 DEF CodeInv, CodeTypes
  <2> QED
    BY <1>1, <1>5, <2>1 DEF CodeInv, DeliverHolds, EmptyStart
<1>12. OneUser'
  BY <1>1, <1>4, <1>6, <1>7 DEF CodeInv, OneUser
<1> QED
  BY <1>8, <1>9, <1>10, <1>11, <1>12 DEF CodeInv

\* The pool is filled with codes of the server's list; those that concern somebody
\* slip.
LEMMA RecoverStep == ASSUME CodeInv, CodeTypes', Recover PROVE CodeInv'
<1> USE GrantAssumption
<1>1. /\ UNCHANGED <<minted, held, chain, pc, got>> /\ stage = "recover"
      /\ slipped' = slipped \cup {c \in ToSet(buffer') : got[c] # {}}
      /\ minted \in Nat
  BY DEF Recover, askVars, CodeInv, CodeTypes
<1>2. /\ Len(buffer') \in Nat
      /\ \A i \in 1..Len(buffer') : buffer'[i] \in 1..minted
      /\ \A i, j \in 1..Len(buffer') : buffer'[i] = buffer'[j] => i = j
  <2>1. CASE buffer' = <<>>
    BY <2>1
  <2>2. CASE buffer' \in NewestFirst(1..minted \ redeemed')
    <3> DEFINE S == 1..minted \ redeemed'
    <3>1. S \in SUBSET (1..minted) /\ buffer' \in NewestFirst(S)
      BY <2>2
    <3> HIDE DEF S
    <3>2. buffer' \in Seq(S) /\ \A i, j \in 1..Len(buffer') : buffer'[i] = buffer'[j] => i = j
      BY <1>1, <3>1, NewestFirstOnce
    <3>3. Len(buffer') \in Nat /\ \A i \in 1..Len(buffer') : buffer'[i] \in S
      BY <3>2
    <3>4. \A x \in S : x \in 1..minted
      BY <3>1
    <3> QED
      BY <3>2, <3>3, <3>4
  <2> QED
    BY <2>1, <2>2 DEF Recover
<1>3. chain = <<>> /\ \A r \in Request : held[r] = 0 /\ pc[r] # "woken"
  BY <1>1 DEF CodeInv, EmptyStart
<1>4. ASSUME NEW d, InPool(d)' PROVE d \in 1..minted /\ (got[d] # {} => d \in slipped')
  <2>1. PICK i \in 1..Len(buffer') : buffer'[i] = d
    BY <1>4 DEF InPool
  <2>2. d \in ToSet(buffer')
    BY <2>1, <1>2 DEF ToSet, CodeTypes
  <2> QED
    BY <1>1, <1>2, <2>1, <2>2
<1>5. \A u \in User, d \in Code : Concerns(u, d)' => got[d] # {} /\ Concerns(u, d)
  BY <1>1, <1>3 DEF Concerns, Has, Holds, Awaits, Code
<1>6. NoneUnminted'
  BY <1>1, <1>4, <1>5 DEF CodeInv, NoneUnminted, Code
<1>7. PoolOnce' /\ HeldOnce' /\ DeliverHolds' /\ EmptyStart'
  BY <1>1, <1>2, <1>3 DEF CodeInv, PoolOnce, HeldOnce, DeliverHolds, EmptyStart
<1>8. OneUser'
  BY <1>1, <1>4, <1>5 DEF CodeInv, OneUser
<1> QED
  BY <1>6, <1>7, <1>8 DEF CodeInv

\* A code reaches a user it is with, or on its way to.
LEMMA ReachKnown ==
    ASSUME CodeInv, NEW r \in Request, NEW c \in Code, Reach(r, c) \/ UNCHANGED got,
           Concerns(UserOf[r], c)
    PROVE  \A u \in User, d \in Code : Has(u, d)' => Concerns(u, d)
<1>1. got \in [Code -> SUBSET User]
  BY DEF CodeInv, CodeTypes
<1> QED
  BY <1>1 DEF Reach, Has, Concerns

LEMMA WhisperStep == ASSUME CodeInv, CodeTypes', Whisper PROVE CodeInv'
<1> USE GrantAssumption
<1>1. /\ chain # <<>> /\ chain' = Tail(chain) /\ UNCHANGED <<minted, buffer, slipped, stage>>
      /\ stage = "up"
  BY DEF Whisper, WhisperSent, WhisperRejected, poolVars, Settled
<1>2. /\ Len(chain) \in Nat \ {0} /\ Head(chain) = chain[1] /\ Len(chain') = Len(chain) - 1
      /\ chain[1][1] \in Request /\ chain[1][2] \in Code
      /\ \A i \in 1..Len(chain') : chain'[i] = chain[i + 1]
  BY <1>1, HeadOfChain DEF CodeInv
<1>3. PICK r \in Request, c \in Code : r = chain[1][1] /\ c = chain[1][2]
  BY <1>2
<1>4. Concerns(UserOf[r], c)
  <2>1. 1 \in 1..Len(chain)
    BY <1>2
  <2> QED
    BY <1>3, <2>1 DEF Concerns, Awaits
<1>5. Reach(r, c) \/ UNCHANGED got
  BY <1>2, <1>3 DEF Whisper, WhisperSent, WhisperRejected
<1>6. \A u \in User, d \in Code : Has(u, d)' => Concerns(u, d)
  BY <1>4, <1>5, ReachKnown
<1>7. ASSUME NEW u \in User, NEW d \in Code, Awaits(u, d)' PROVE Awaits(u, d)
  <2>1. PICK i \in 1..Len(chain') : chain'[i][2] = d /\ UserOf[chain'[i][1]] = u
    BY <1>7 DEF Awaits
  <2>2. i + 1 \in 1..Len(chain) /\ chain[i + 1] = chain'[i]
    BY <1>2
  <2> QED
    BY <2>1, <2>2 DEF Awaits
<1>8. /\ \A s \in Request : held'[s] \in {held[s], 0}
      /\ \A s \in Request : pc'[s] \in {"whisper", "chat"} =>
             pc[s] \in {"whisper", "chat"} /\ held'[s] = held[s]
  <2>1. held \in [Request -> Code \cup {0}]
        /\ pc \in [Request -> {"new", "waiting", "woken", "whisper", "chat"} \cup Over]
    BY DEF CodeInv, CodeTypes
  <2>2. CASE WhisperSent
    BY <1>2, <1>3, <2>1, <2>2 DEF WhisperSent, Record
  <2>3. CASE WhisperRejected
    BY <1>2, <1>3, <2>1, <2>3 DEF WhisperRejected
  <2> QED
    BY <2>2, <2>3 DEF Whisper
<1>9. NoneUnminted' /\ PoolOnce' /\ HeldOnce' /\ OneUser'
  <2>1. minted' >= minted
    BY <1>1 DEF CodeInv, CodeTypes
  <2> QED
    BY <1>1, <1>6, <1>7, <1>8, <2>1, Settles
<1>10. DeliverHolds' /\ EmptyStart'
  BY <1>1, <1>8 DEF CodeInv, DeliverHolds, EmptyStart
<1> QED
  BY <1>9, <1>10 DEF CodeInv

LEMMA ChatStep == ASSUME CodeInv, CodeTypes', NEW r \in Request, ChatSent(r) PROVE CodeInv'
<1> USE GrantAssumption
<1>1. PICK c \in Code : c = held[r]
  BY DEF CodeInv, CodeTypes, DeliverHolds, ChatSent
<1>2. /\ Reach(r, c) /\ UNCHANGED <<minted, buffer, slipped, stage, chain>> /\ stage = "up"
      /\ held' = [held EXCEPT ![r] = 0] /\ pc' = [pc EXCEPT ![r] = "granted"]
  BY <1>1 DEF ChatSent, Record, poolVars, Settled
<1>3. held \in [Request -> Code \cup {0}]
      /\ pc \in [Request -> {"new", "waiting", "woken", "whisper", "chat"} \cup Over]
  BY DEF CodeInv, CodeTypes
<1>4. Concerns(UserOf[r], c)
  BY <1>1 DEF Concerns, Holds
<1>5. \A u \in User, d \in Code : Has(u, d)' => Concerns(u, d)
  BY <1>2, <1>4, ReachKnown
<1>6. NoneUnminted' /\ PoolOnce' /\ HeldOnce' /\ OneUser'
  <2>1. minted' >= minted
    BY <1>2 DEF CodeInv, CodeTypes
  <2>2. \A u \in User, d \in Code : Awaits(u, d)' => Awaits(u, d)
    BY <1>2 DEF Awaits
  <2>3. \A s \in Request : held'[s] \in {held[s], 0}
    BY <1>2, <1>3
  <2> QED
    BY <1>2, <1>5, <2>1, <2>2, <2>3, Settles
<1>7. DeliverHolds'
  BY <1>2, <1>3 DEF CodeInv, DeliverHolds
<1>8. EmptyStart'
  BY <1>2 DEF EmptyStart
<1> QED
  BY <1>6, <1>7, <1>8 DEF CodeInv

\* Steps that move no code.
LEMMA NoCodeMoved ==
    ASSUME CodeInv, CodeTypes', minted' >= minted,
           UNCHANGED <<got, slipped, buffer, held, chain>>,
           \A r \in Request : pc'[r] \in {"whisper", "chat", "woken"} => pc'[r] = pc[r],
           stage' # "up" => stage # "up"
    PROVE  CodeInv'
<1>1. NoneUnminted' /\ PoolOnce' /\ HeldOnce' /\ OneUser'
  <2>1. \A u \in User, d \in Code : Awaits(u, d)' => Awaits(u, d)
    BY DEF Awaits
  <2>2. \A u \in User, d \in Code : Has(u, d)' => Concerns(u, d)
    BY DEF Has, Concerns
  <2> QED
    BY <2>1, <2>2, Settles
<1>2. DeliverHolds'
  BY DEF CodeInv, DeliverHolds
<1>3. EmptyStart'
  BY DEF CodeInv, EmptyStart
<1> QED
  BY <1>1, <1>2, <1>3 DEF CodeInv

\* The codes that are in the process are lost with it.
LEMMA CodesLost ==
    ASSUME CodeInv, CodeTypes', NEW d, Restart(d) PROVE CodeInv'
<1>1. /\ UNCHANGED <<minted, got, slipped>> /\ buffer' = <<>> /\ chain' = <<>>
      /\ \A r \in Request : held'[r] = 0 /\ pc'[r] \notin {"whisper", "chat", "woken"}
  BY DEF Restart, outVars
<1>2. NoneUnminted' /\ PoolOnce' /\ HeldOnce' /\ OneUser'
  <2>1. \A u \in User, c \in Code : ~Awaits(u, c)'
    BY <1>1 DEF Awaits
  <2>2. \A u \in User, c \in Code : Has(u, c)' => Concerns(u, c)
    BY <1>1 DEF Has, Concerns
  <2>3. minted' >= minted
    BY <1>1 DEF CodeInv, CodeTypes
  <2> QED
    BY <1>1, <2>1, <2>2, <2>3, Settles
<1>3. DeliverHolds' /\ EmptyStart'
  BY <1>1 DEF DeliverHolds, EmptyStart
<1> QED
  BY <1>2, <1>3 DEF CodeInv

LEMMA CodeStep == CodeInv /\ [Next]_vars => CodeInv'
<1> SUFFICES ASSUME CodeInv, [Next]_vars PROVE CodeInv'
  OBVIOUS
<1> USE GrantAssumption DEF poolVars, askVars, outVars
<1>0. CodeTypes'
  BY CodeTypesStep DEF CodeInv
<1>1. minted \in Nat
      /\ pc \in [Request -> {"new", "waiting", "woken", "whisper", "chat"} \cup Over]
  BY DEF CodeInv, CodeTypes
<1>2. CASE UNCHANGED codeVars
  <2>1. UNCHANGED <<minted, pc, stage>> /\ UNCHANGED <<got, slipped, buffer, held, chain>>
    BY <1>2 DEF codeVars
  <2>2. minted' >= minted
    BY <1>1, <2>1
  <2> QED
    BY <1>0, <2>1, <2>2, NoCodeMoved
<1>3. CASE Flush \/ ResetStream \/ (\E p \in Policies : SetPolicy(p)) \/ UNCHANGED vars
  BY <1>2, <1>3 DEF Flush, ResetStream, SetPolicy, vars, codeVars
<1>4. ASSUME NEW r \in Request, Deny(r) \/ TakeWaits(r) \/ TakeThrows(r) PROVE CodeInv'
  <2>1. /\ UNCHANGED <<minted, stage>> /\ UNCHANGED <<got, slipped, buffer, held, chain>>
        /\ \/ pc' = [pc EXCEPT ![r] = "denied"]
           \/ pc' = [pc EXCEPT ![r] = "dropped"]
           \/ pc' = [pc EXCEPT ![r] = "waiting"]
    BY <1>4 DEF Deny, TakeWaits, TakeThrows
  <2>2. \A s \in Request : pc'[s] \in {"whisper", "chat", "woken"} => pc'[s] = pc[s]
    BY <1>1, <2>1
  <2>3. minted' >= minted
    BY <1>1, <2>1
  <2> QED
    BY <1>0, <2>1, <2>2, <2>3, NoCodeMoved
<1>5. CASE MintFails
  <2>1. UNCHANGED <<got, slipped, buffer, held, chain>> /\ (stage' # "up" => stage # "up")
    BY <1>5 DEF MintFails
  <2>2. \A s \in Request : pc'[s] \in {"whisper", "chat", "woken"} => pc'[s] = pc[s]
    BY <1>5 DEF MintFails
  <2>3. minted' >= minted
    BY <1>1, <1>5 DEF MintFails
  <2> QED
    BY <1>0, <2>1, <2>2, <2>3, NoCodeMoved
<1>6. CASE Crash \/ Shutdown
  BY <1>0, <1>6, CodesLost DEF Crash, Shutdown
<1>7. ASSUME NEW r \in Request, Take(r) \/ TakeWoken(r) PROVE CodeInv'
  <2>1. Shift(r) /\ Deliver(r) /\ UNCHANGED <<stage, minted, got, slipped>>
    BY <1>7 DEF Take, TakeWoken
  <2>2. stage = "up"
    BY <1>7 DEF Take, TakeWoken, Verdict, Settled, CodeInv, EmptyStart
  <2> QED
    BY <1>0, <2>1, <2>2, TakeStep
<1> QED
  BY <1>0, <1>3, <1>4, <1>5, <1>6, <1>7, MintStep, GiveBackStep, RecoverStep, WhisperStep,
     ChatStep DEF Next, Mint, Handle

LEMMA CodeInit == Init => CodeInv
<1> SUFFICES ASSUME Init PROVE CodeInv
  OBVIOUS
<1> USE GrantAssumption DEF Init
<1>1. CodeTypes
  BY DEF CodeTypes, Over
<1>2. \A c \in Code : ~InPool(c) /\ \A u \in User : ~Concerns(u, c)
  BY DEF Concerns, Has, Holds, Awaits, InPool, Code
<1>3. PoolOnce /\ HeldOnce /\ DeliverHolds /\ EmptyStart
  <2>1. PoolOnce /\ HeldOnce /\ DeliverHolds
    BY DEF PoolOnce, HeldOnce, DeliverHolds
  <2>2. EmptyStart
    BY DEF EmptyStart
  <2> QED
    BY <2>1, <2>2
<1> QED
  BY <1>1, <1>2, <1>3 DEF CodeInv, NoneUnminted, OneUser

\* A code that has not slipped reaches one user at most, and is not in the pool
\* once it has: through refills, whispers that are queued, rejected or answered
\* too late, failed deliveries, crashes and recovery from the server's list.
THEOREM DeliveredCorrect == Spec => []DeliveredToOne
<1>1. CodeInv => DeliveredToOne
  <2> SUFFICES ASSUME CodeInv, NEW c \in Code \ slipped
               PROVE  /\ Cardinality(got[c]) <= 1
                      /\ got[c] # {} => \A i \in 1..Len(buffer) : buffer[i] # c
    BY DEF DeliveredToOne
  <2>1. got[c] \in SUBSET User
    BY DEF CodeInv, CodeTypes
  <2>2. \A u \in got[c] : Concerns(u, c)
    BY <2>1 DEF Concerns, Has
  <2>3. CASE got[c] = {}
    BY <2>3, FS_EmptySet
  <2>4. CASE got[c] # {}
    <3>1. PICK u \in got[c] : u \in User
      BY <2>1, <2>4
    <3>2. got[c] = {u}
      BY <2>1, <2>2, <3>1 DEF CodeInv, OneUser
    <3>3. Cardinality(got[c]) = 1
      BY <3>2, FS_Singleton
    <3>4. ~InPool(c)
      BY <2>2, <3>1 DEF CodeInv, OneUser
    <3> QED
      BY <3>3, <3>4 DEF InPool
  <2> QED
    BY <2>3, <2>4
<1> QED
  BY <1>1, CodeInit, CodeStep, PTL DEF Spec

=============================================================================
