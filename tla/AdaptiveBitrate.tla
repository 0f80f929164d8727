-------------------------- MODULE AdaptiveBitrate --------------------------
(***************************************************************************)
(* The bitrate controller of internal/abr and the loop of                  *)
(* internal/host/abr.go that feeds it a statistics sample per tick.        *)
(*                                                                         *)
(* Time is counted in ticks and kept as ages that stop at the limits they  *)
(* are compared with. A sample is lossy, clean or not valid yet; loss      *)
(* fractions and the round-trip time matter for nothing else. The factor   *)
(* of a decrease and the least change are fractions with denominator Base. *)
(***************************************************************************)
EXTENDS Integers

CONSTANTS
    Lo, Hi, Start,      \* Min, Max and Start of the configuration
    Step,               \* IncreaseStep
    Base, Factor, Least,    \* DecreaseFactor and MinChangeFraction, times Base
    Cooldown, CleanWindow

Clamp(v) == IF v < Lo THEN Lo ELSE IF v > Hi THEN Hi ELSE v

\* What normalise makes of any configuration.
Normalised ==
    /\ {Lo, Hi, Start, Step, Base, Factor, Least, Cooldown, CleanWindow} \subseteq Nat
    /\ 0 < Lo /\ Lo <= Hi /\ Step > 0
    /\ 0 < Factor /\ Factor < Base
    /\ Cooldown > 0 /\ CleanWindow > 0

ASSUME AbrAssumption == Normalised

\* What a valid report says of the link: a loss above LossThreshold or not.
Report == {"lossy", "clean"}

VARIABLES
    target,     \* Controller.target
    cooled,     \* ticks since lastChange
    clean,      \* ticks since cleanSince, -1 without haveCleanTS
    quiet,      \* ticks since the last lossy sample (history)
    sample      \* the last valid sample (history)

abrVars == <<target, cooled, clean, quiet, sample>>

AbrInit ==
    /\ target = Clamp(Start) /\ cooled = 0 /\ clean = -1
    /\ quiet = 0 /\ sample = "none"

Older(age, limit) == IF age < limit THEN age + 1 ELSE limit

\* Mutated form: a lossy sample does not end the clean stretch.
CleanAgeKept(s) == IF clean = -1 THEN 0 ELSE Older(clean, CleanWindow)

\* The clean stretch after sample s, whether or not a change is due.
CleanAge(s) ==
    CASE s = "lossy" -> -1
      [] s = "clean" /\ clean = -1 -> 0
      [] OTHER -> Older(clean, CleanWindow)

Candidate(s) ==
    Clamp(IF s = "lossy" THEN (target * Factor) \div Base ELSE target + Step)

Abs(n) == IF n < 0 THEN -n ELSE n

\* Observe changes the target: the cooldown is over, the sample is lossy or the
\* link has been clean long enough, and the change is worth a restart.
Due(s) ==
    /\ Older(cooled, Cooldown) >= Cooldown
    /\ s = "lossy" \/ CleanAge(s) >= CleanWindow
    /\ Candidate(s) # target
    /\ Abs(Candidate(s) - target) * Base >= Least * target

\* tick, with a valid sample; SetBitrate of the encoder takes the new target.
Observe(s) ==
    /\ sample' = s
    /\ quiet' = IF s = "lossy" THEN 0 ELSE Older(quiet, CleanWindow)
    /\ \/ /\ Due(s)
          /\ target' = Candidate(s) /\ cooled' = 0
          /\ clean' = IF s = "lossy" THEN -1 ELSE 0
       \/ /\ ~Due(s)
          /\ cooled' = Older(cooled, Cooldown) /\ clean' = CleanAge(s)
          /\ UNCHANGED target

\* tick, before the first receiver report: nothing is observed, time passes.
NoStats ==
    /\ cooled' = Older(cooled, Cooldown)
    /\ clean' = IF clean = -1 THEN -1 ELSE Older(clean, CleanWindow)
    /\ quiet' = Older(quiet, CleanWindow)
    /\ UNCHANGED <<target, sample>>

AbrNext == NoStats \/ \E s \in Report : Observe(s)
AbrSpec == AbrInit /\ [][AbrNext]_abrVars

-----------------------------------------------------------------------------
(* Properties. *)

AbrTypeOK ==
    /\ target \in Lo..Hi /\ cooled \in 0..Cooldown
    /\ clean \in -1..CleanWindow /\ quiet \in 0..CleanWindow
    /\ sample \in Report \cup {"none"}

\* The bitrate never rises into a link that lost packets less than CleanWindow ago,
\* however samples, cooldown and earlier changes fall together.
IncreaseAfterCleanWindow ==
    [][target' > target =>
        sample' = "clean" /\ Older(quiet, CleanWindow) >= CleanWindow]_abrVars

=============================================================================
