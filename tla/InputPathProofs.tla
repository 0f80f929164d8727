-------------------------- MODULE InputPathProofs --------------------------
(***************************************************************************)
(* Proofs about InputPath, for any number of Authorize calls, any bound on *)
(* commands and faults and any capacity of the channels and the socket:    *)
(* its types, that the send loop never sleeps on a command nobody will     *)
(* wake it for, and that the neutral command a drain leaves behind is the  *)
(* last one on its way to the console.                                     *)
(***************************************************************************)
EXTENDS InputPath, TLAPS

-----------------------------------------------------------------------------
(* Types. *)

\* writeInput is called with a command: without it Nil could enter the socket.
WriteInv == link = "write" => out # Nil

TypeInv == TypeOK /\ WriteInv

LEMMA TypeInit == Init => TypeInv
<1> SUFFICES ASSUME Init PROVE TypeInv
  OBVIOUS
<1> USE InputAssumption DEF Init
<1>1. sent \in 0..MaxCmds /\ faults \in 0..LinkFaults
  OBVIOUS
<1>2. buf \in [Call -> Seq(Cmd)] /\ wire \in Seq(Cmd)
  OBVIOUS
<1>3. link # "write"
  OBVIOUS
<1> QED
  BY <1>1, <1>2, <1>3 DEF TypeInv, TypeOK, WriteInv, Cmd

LEMMA TypeStep == TypeInv /\ [Next]_vars => TypeInv'
<1> USE InputAssumption
    DEF TypeInv, TypeOK, WriteInv, Cmd, gateVars, coalVars, linkVars, wireVars
<1> SUFFICES ASSUME TypeInv, [Next]_vars PROVE TypeInv'
  OBVIOUS
<1>1. ASSUME NEW c \in Call, Authorize(c) PROVE TypeInv'
  BY <1>1 DEF Authorize
<1>2. ASSUME NEW c \in Call, HandOver(c) PROVE TypeInv'
  BY <1>2 DEF HandOver
<1>3. ASSUME NEW c \in Call, Disconnect(c) PROVE TypeInv'
  BY <1>3 DEF Disconnect
<1>4. ASSUME NEW c \in Call, NEW cmd \in {c, Neutral}, Forward(c, cmd) PROVE TypeInv'
  <2>1. cmd \in Call \cup {Neutral} /\ buf[c] \in Seq(Call \cup {Neutral})
    OBVIOUS
  <2>2. Append(buf[c], cmd) \in Seq(Call \cup {Neutral})
    BY <2>1
  <2>3. buf' \in [Call -> Seq(Call \cup {Neutral})]
    BY <1>4, <2>2 DEF Forward
  <2>4. sent' \in 0..MaxCmds
    BY <1>4 DEF Forward
  <2> QED
    BY <1>4, <2>3, <2>4 DEF Forward
<1>5. ASSUME NEW c \in Call, DrainRecv(c) PROVE TypeInv'
  <2>1. buf[c] \in Seq(Call \cup {Neutral}) /\ buf[c] # <<>>
    BY <1>5 DEF DrainRecv
  <2>2. Head(buf[c]) \in Call \cup {Neutral} /\ Tail(buf[c]) \in Seq(Call \cup {Neutral})
    BY <2>1
  <2> QED
    BY <1>5, <2>2 DEF DrainRecv, Push
<1>6. ASSUME NEW c \in Call, DrainExit(c) PROVE TypeInv'
  BY <1>6 DEF DrainExit
<1>7. ASSUME NEW c \in Call, DrainReset(c) PROVE TypeInv'
  BY <1>7 DEF DrainReset, Push
<1>8. ASSUME NEW c \in Call, DrainSignal(c) PROVE TypeInv'
  BY <1>8 DEF DrainSignal
<1>9. CASE SendLoop
  <2>1. CASE Dial
    BY <2>1 DEF Dial
  <2>2. CASE Poll
    BY <2>2 DEF Poll
  <2>3. CASE PollNone
    BY <2>3 DEF PollNone
  <2>4. CASE UntilReady
    BY <2>4 DEF UntilReady
  <2>5. CASE Write
    <3>1. Append(wire, out) \in Seq(Call \cup {Neutral})
      BY <2>5 DEF Write
    <3> QED
      BY <2>5, <3>1 DEF Write
  <2>6. CASE Notified
    BY <2>6 DEF Notified
  <2>7. CASE TimerFired
    BY <2>7 DEF TimerFired
  <2> QED
    BY <1>9, <2>1, <2>2, <2>3, <2>4, <2>5, <2>6, <2>7 DEF SendLoop
<1>10. CASE Cool \/ TimerExpires \/ Stop \/ LinkStop
  BY ZenonT(30), <1>10 DEF Cool, TimerExpires, Stop, LinkStop
<1>11. CASE LinkLost
  <2>1. faults' \in 0..LinkFaults
    BY <1>11 DEF LinkLost
  <2>2. wire' \in Seq(Call \cup {Neutral})
    <3>1. <<>> \in Seq(Call \cup {Neutral}) /\ wire \in Seq(Call \cup {Neutral})
      OBVIOUS
    <3>2. wire' = wire \/ wire' = <<>>
      BY <1>11 DEF LinkLost
    <3> QED
      BY <3>1, <3>2
  <2>3. link' = "dial" /\ out' = Nil
    BY <1>11 DEF LinkLost
  <2> QED
    BY <1>11, <2>1, <2>2, <2>3 DEF LinkLost
<1>12. CASE Apply
  BY <1>12 DEF Apply
<1>13. CASE UNCHANGED vars
  BY <1>13 DEF vars
<1> QED
  BY ZenonT(30), <1>1, <1>2, <1>3, <1>4, <1>5, <1>6, <1>7, <1>8, <1>9, <1>10, <1>11, <1>12,
     <1>13 DEF Next

\* Every variable of the input path keeps its type, and what is written to the
\* daemon is always a command.
THEOREM TypeCorrect == Spec => []TypeInv
  BY TypeInit, TypeStep, PTL DEF Spec

-----------------------------------------------------------------------------
(* Wakeups. *)

LEMMA WakeupStep == TypeOK /\ NoLostWakeup /\ [Next]_vars => NoLostWakeup'
<1> DEFINE Signals(c) == drain[c] \in {"signal", "resetSignal"}
           Woken == notify \/ timer # "stopped" \/ \E c \in Call : Signals(c)
<1> SUFFICES ASSUME TypeOK, NoLostWakeup, [Next]_vars, link' = "select", pending' # Nil
             PROVE  Woken'
  BY DEF NoLostWakeup
<1> USE DEF TypeOK, NoLostWakeup, gateVars, coalVars, linkVars, wireVars
<1>1. ASSUME NEW c \in Call, drain' = [drain EXCEPT ![c] = "run"], drain[c] = "off",
             UNCHANGED <<coalVars, linkVars>>
      PROVE  Woken'
  <2>1. \A d \in Call : Signals(d) => Signals(d)'
    BY <1>1
  <2> QED
    BY <1>1, <2>1
<1>2. ASSUME NEW c \in Call, DrainRecv(c) \/ DrainReset(c) PROVE Woken'
  BY <1>2 DEF DrainRecv, DrainReset
<1>3. ASSUME NEW c \in Call, DrainExit(c) PROVE Woken'
  <2>1. \A d \in Call : Signals(d) => Signals(d)'
    BY <1>3 DEF DrainExit
  <2> QED
    BY <1>3, <2>1 DEF DrainExit
<1>4. ASSUME NEW c \in Call, DrainSignal(c) PROVE Woken'
  BY <1>4 DEF DrainSignal
<1>5. CASE UNCHANGED <<drain, pending, notify, link>> /\ (timer # "stopped" => timer' # "stopped")
  BY <1>5
<1>6. CASE SendLoop \/ LinkLost \/ LinkStop
  BY <1>6 DEF SendLoop, Dial, Poll, PollNone, UntilReady, Write, Notified, TimerFired,
              LinkLost, LinkStop
<1>7. ASSUME NEW c \in Call, Authorize(c) \/ HandOver(c) \/ Disconnect(c)
                               \/ \E cmd \in {c, Neutral} : Forward(c, cmd)
      PROVE  Woken'
  BY <1>1, <1>5, <1>7 DEF Authorize, HandOver, Disconnect, Forward
<1>8. CASE Cool \/ TimerExpires \/ Apply \/ Stop \/ UNCHANGED vars
  BY <1>5, <1>8 DEF Cool, TimerExpires, Apply, Stop, vars
<1> QED
  BY <1>2, <1>3, <1>4, <1>6, <1>7, <1>8 DEF Next

\* No interleaving of push's two halves with poll, untilReady, the timer and the
\* drains of other viewers puts the send loop to sleep on a pending command that
\* nobody will wake it for.
THEOREM WakeupCorrect == Spec => []NoLostWakeup
<1>1. Init => NoLostWakeup
  BY DEF Init, NoLostWakeup
<1>2. TypeInv => TypeOK
  BY DEF TypeInv
<1> QED
  BY <1>1, <1>2, TypeCorrect, WakeupStep, PTL DEF Spec

-----------------------------------------------------------------------------
(* Neutral. *)

\* A viewer is about to push: commands, or the neutral one that follows them.
Pushes(c) == drain[c] \in {"run", "signal", "reset"}

\* Why NeutralAfterDrains holds: somebody is still due to push Neutral after the
\* newest command, or that command is Neutral already. "resetSignal" is not in
\* Pushes: its neutral has been pushed, only its signal is missing.
NeutralDue == faults = 0 => Newest = Neutral \/ \E c \in Call : Pushes(c)

LEMMA NeutralStep == TypeInv /\ NeutralDue /\ [Next]_vars => NeutralDue'
<1> SUFFICES ASSUME TypeInv, NeutralDue, [Next]_vars, faults' = 0
             PROVE  Newest' = Neutral \/ \E c \in Call : Pushes(c)'
  BY DEF NeutralDue
<1> USE InputAssumption DEF TypeInv, TypeOK, gateVars, coalVars, linkVars, wireVars
<1> DEFINE Due == Newest' = Neutral \/ \E c \in Call : Pushes(c)'
<1>0. faults = 0
  BY DEF Next, Authorize, HandOver, Disconnect, Forward, DrainRecv, DrainExit, DrainReset,
         DrainSignal, SendLoop, Dial, Poll, PollNone, UntilReady, Write, Notified,
         TimerFired, Cool, TimerExpires, LinkLost, Apply, Stop, LinkStop, vars
<1>1. ASSUME \A c \in Call : Pushes(c) => Pushes(c)', Newest' = Newest PROVE Due
  BY <1>0, <1>1 DEF NeutralDue
<1>2. CASE UNCHANGED <<drain, pending, out, wire, console>>
  BY <1>1, <1>2 DEF Pushes, Newest
<1>3. ASSUME NEW c \in Call, Authorize(c) \/ DrainRecv(c) \/ DrainExit(c) PROVE Due
  BY <1>3 DEF Authorize, DrainRecv, DrainExit, Pushes
<1>4. ASSUME NEW c \in Call, DrainReset(c) PROVE Due
  BY <1>4 DEF DrainReset, Push, Newest
<1>5. ASSUME NEW c \in Call, DrainSignal(c) PROVE Due
  <2>1. \A d \in Call : Pushes(d) => Pushes(d)'
    BY <1>5 DEF DrainSignal, Pushes
  <2>2. Newest' = Newest
    BY <1>5 DEF DrainSignal, Newest
  <2> QED
    BY <1>1, <2>1, <2>2
<1>6. CASE Poll
  <2>1. Newest' = Newest
    BY <1>6 DEF Poll, Newest
  <2> QED
    BY <1>1, <1>6, <2>1 DEF Poll, Pushes
<1>7. CASE Write
  <2>1. out # Nil /\ out \in Cmd /\ wire \in Seq(Cmd)
    BY <1>7 DEF Write, WriteInv
  <2>2. wire' = Append(wire, out)
    BY <1>7 DEF Write
  <2> HIDE DEF TypeOK
  <2>3. Len(wire') = Len(wire) + 1 /\ wire'[Len(wire) + 1] = out
    BY <2>1, <2>2
  <2>4. wire' # <<>> /\ wire'[Len(wire')] = out
    BY <2>1, <2>3
  <2>5. Newest' = Newest
    BY <1>7, <2>1, <2>4 DEF Write, Newest
  <2> QED
    BY <1>1, <1>7, <2>5 DEF Write, Pushes
<1>8. CASE Apply
  <2>1. wire \in Seq(Cmd) /\ wire # <<>> /\ wire' = Tail(wire) /\ console' = Head(wire)
    BY <1>8 DEF Apply
  <2> HIDE DEF TypeOK
  <2>2. IF wire' = <<>> THEN console' = wire[Len(wire)]
        ELSE wire'[Len(wire')] = wire[Len(wire)]
    <3>1. Len(wire) \in Nat \ {0} /\ Len(wire') = Len(wire) - 1 /\ wire' \in Seq(Cmd)
      BY <2>1
    <3>2. CASE Len(wire) = 1
      <4>1. wire' = <<>>
        BY <3>1, <3>2
      <4> QED
        BY <2>1, <3>2, <4>1
    <3>3. CASE Len(wire) # 1
      <4>1. wire' # <<>> /\ wire'[Len(wire) - 1] = wire[Len(wire)]
        BY SMTT(30), <2>1, <3>1, <3>3
      <4> QED
        BY <3>1, <4>1
    <3> QED
      BY <3>2, <3>3
  <2>3. Newest' = Newest
    BY <1>8, <2>1, <2>2 DEF Apply, Newest
  <2> QED
    BY <1>1, <1>8, <2>3 DEF Apply, Pushes
<1>9. ASSUME NEW c \in Call, HandOver(c) \/ Disconnect(c)
                               \/ \E cmd \in {c, Neutral} : Forward(c, cmd)
      PROVE  Due
  BY <1>2, <1>9 DEF HandOver, Disconnect, Forward
<1>10. CASE SendLoop
  BY <1>2, <1>6, <1>7, <1>10 DEF SendLoop, Dial, PollNone, UntilReady, Notified, TimerFired
<1>11. CASE Cool \/ TimerExpires \/ Stop \/ LinkStop \/ UNCHANGED vars
  BY <1>2, <1>11 DEF Cool, TimerExpires, Stop, LinkStop, vars
<1>12. CASE LinkLost
  BY <1>12 DEF LinkLost
<1> QED
  BY <1>3, <1>4, <1>5, <1>8, <1>9, <1>10, <1>11, <1>12 DEF Next

\* While the daemon connection holds, the moment nobody's commands are drained
\* the newest command on its way, or the one the console holds, is the neutral
\* one: a button held when control is lost is released behind every command
\* that pressed it.
THEOREM NeutralCorrect == Spec => []NeutralAfterDrains
<1>1. Init => NeutralDue
  BY DEF Init, NeutralDue, Newest
<1>2. NeutralDue => NeutralAfterDrains
  BY DEF NeutralDue, NeutralAfterDrains, NobodyDrains, Pushes
<1> QED
  BY <1>1, <1>2, TypeCorrect, NeutralStep, PTL DEF Spec

=============================================================================
