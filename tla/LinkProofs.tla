----------------------------- MODULE LinkProofs -----------------------------
(***************************************************************************)
(* The two parts that judge the link to the broker, failsafe.c and the     *)
(* MQTT session: module Failsafe in the first part, with names of its own  *)
(* for specification and variables, MqttSession in the second.  Neither    *)
(* needs a fact of the other.                                              *)
(*                                                                         *)
(* Failsafe, for every entry timer, debounce, sampling gap and clock width *)
(* that satisfy FailsafeAssumption.  The code knows only wrapping clock    *)
(* readings; Timing says how they determine the true ages downFor and      *)
(* upFor in every phase.  The entry timer measures downFor exactly.  The   *)
(* debounce may lag upFor, by at most one gap, because a start at clock    *)
(* reading 0 is not remembered.                                            *)
(*                                                                         *)
(* MqttSession.  None of its proofs depends on how long anything takes:    *)
(* age and the fail-safe's decisions are free in the model.                *)
(***************************************************************************)
EXTENDS Failsafe, MqttSession, TLAPS


\* What the phase and the two clock readings say about the age of the link.
Timing ==
    /\ phase = "IDLE" => linkUp
    /\ phase = "ENTRY_TIMER" =>
         /\ ~linkUp
         /\ downFor = Elapsed(now, timerStarted)
         /\ downFor < EntryTimer
    /\ (phase = "ACTIVE" /\ ~linkUp) => (linkUpSince = 0 /\ upFor = 0)
    /\ (phase = "ACTIVE" /\ linkUp) =>
         \/ linkUpSince = 0 /\ now = 0 /\ upFor = 0 /\ LinkUpDebounce > 0
         \/ /\ linkUpSince # 0
            /\ Elapsed(now, linkUpSince) < LinkUpDebounce
            /\ upFor >= Elapsed(now, linkUpSince)
            /\ upFor <= Elapsed(now, linkUpSince) + MaxGap

IInv == FailsafeTypeOK /\ WritesFollowPhase /\ Timing

-----------------------------------------------------------------------------
(* The clock. *)

\* Moving the clock keeps it in range.
LEMMA AfterType ==
    ASSUME NEW t \in Clock, NEW d \in Gaps
    PROVE  After(t, d) \in Clock
BY FailsafeAssumption DEF After, Clock, Gaps

\* The unsigned difference of two readings is a natural number.
LEMMA ElapsedType ==
    ASSUME NEW t \in Clock, NEW s \in Clock
    PROVE  Elapsed(t, s) \in Nat
BY FailsafeAssumption DEF Elapsed, Clock

\* No time has passed since now.
LEMMA ElapsedSelf ==
    ASSUME NEW t \in Clock
    PROVE  Elapsed(t, t) = 0
BY FailsafeAssumption DEF Elapsed, Clock

\* The unsigned difference advances with the clock, through the wrap.
LEMMA ElapsedAfter ==
    ASSUME NEW t \in Clock, NEW s \in Clock, NEW d \in Gaps,
           Elapsed(t, s) + d < Wrap
    PROVE  Elapsed(After(t, d), s) = Elapsed(t, s) + d
BY FailsafeAssumption DEF Elapsed, After, Clock, Gaps

\* 0 is a clock reading and an age.
LEMMA ZeroType == 0 \in Clock /\ 0 \in 0..Horizon
BY FailsafeAssumption DEF Clock, Horizon

\* Ages stay within the horizon.
LEMMA OlderType ==
    ASSUME NEW years \in 0..Horizon, NEW d \in Gaps
    PROVE  Older(years, d) \in 0..Horizon
BY FailsafeAssumption DEF Older, Horizon, Gaps

-----------------------------------------------------------------------------
(* The invariant. *)

LEMMA InitInv == FailsafeInit => IInv
BY FailsafeAssumption
   DEF FailsafeInit, IInv, FailsafeTypeOK, WritesFollowPhase, Timing, Phases, Clock, Horizon,
       app_availability_online

\* A call that reports the link down preserves the invariant.
LEMMA DownStep ==
    ASSUME IInv, NEW d \in Gaps, on_link_down(d)
    PROVE  IInv'
<1> USE FailsafeAssumption DEF IInv
<1>0. /\ CalledDown(d)
      /\ now' \in Clock
      /\ downFor' \in 0..Horizon
      /\ upFor' = 0
      /\ linkUp' = FALSE
      /\ linkUpSince' = 0
  <2>1. CalledDown(d) /\ linkUpSince' = 0
    BY DEF on_link_down, StartEntryTimer, EntryTimerRuns, EntryTimerExpires,
           OutageGoesOn
  <2>2. now' \in Clock
    BY <2>1, AfterType DEF CalledDown, FailsafeTypeOK
  <2>3. downFor' \in 0..Horizon
    BY <2>1, OlderType DEF CalledDown, FailsafeTypeOK, Horizon, Gaps
  <2> QED BY <2>1, <2>2, <2>3 DEF CalledDown
<1>1. CASE StartEntryTimer(d)
  <2>1. linkUp /\ downFor' = 0
    BY <1>0, <1>1 DEF StartEntryTimer, CalledDown, Timing
  <2>2. Elapsed(now', timerStarted') = 0
    BY <1>0, <1>1, ElapsedSelf DEF StartEntryTimer
  <2>3. FailsafeTypeOK'
    BY <1>0, <1>1, ZeroType DEF StartEntryTimer, FailsafeTypeOK, Phases
  <2>4. WritesFollowPhase' /\ Timing'
    BY <1>0, <1>1, <2>1, <2>2
       DEF StartEntryTimer, WritesFollowPhase, Timing, app_availability_online
  <2> QED BY <2>3, <2>4
<1>2. CASE EntryTimerRuns(d) \/ EntryTimerExpires(d)
  <2>1. /\ phase = "ENTRY_TIMER"
        /\ timerStarted' = timerStarted
        /\ now' = After(now, d)
        /\ downFor' = Older(downFor, d)
        /\ downFor = Elapsed(now, timerStarted)
        /\ downFor < EntryTimer
    BY <1>0, <1>2 DEF EntryTimerRuns, EntryTimerExpires, CalledDown, Timing
  <2>2. Elapsed(now', timerStarted) = downFor + d
    BY <2>1, ElapsedAfter DEF FailsafeTypeOK, Gaps, Horizon
  <2>3. downFor' = downFor + d
    BY <2>1 DEF Older, Horizon, FailsafeTypeOK, Gaps
  <2>4. FailsafeTypeOK'
    BY <1>0, <1>2, ZeroType DEF EntryTimerRuns, EntryTimerExpires, FailsafeTypeOK, Phases
  <2>5. WritesFollowPhase'
    BY <1>2, <2>1
       DEF EntryTimerRuns, EntryTimerExpires, WritesFollowPhase,
           app_availability_online
  <2>6. Timing'
    BY <1>0, <1>2, <2>1, <2>2, <2>3
       DEF EntryTimerRuns, EntryTimerExpires, Timing
  <2> QED BY <2>4, <2>5, <2>6
<1>3. CASE OutageGoesOn(d)
  <2>1. FailsafeTypeOK'
    BY <1>0, <1>3, ZeroType DEF OutageGoesOn, FailsafeTypeOK, Phases
  <2>2. WritesFollowPhase' /\ Timing'
    BY <1>0, <1>3
       DEF OutageGoesOn, WritesFollowPhase, Timing, app_availability_online
  <2> QED BY <2>1, <2>2
<1> QED BY <1>1, <1>2, <1>3 DEF on_link_down

\* How a call that finds the link up while ACTIVE relates the debounce to the
\* true age of the link.
LEMMA DebounceAge ==
    ASSUME IInv, NEW d \in Gaps, CalledUp(d), phase = "ACTIVE"
    PROVE  /\ DebounceStart \in Clock
           /\ now' \in Clock
           /\ upFor' \in 0..Horizon
           /\ upFor' >= Elapsed(now', DebounceStart)
           /\ Elapsed(now', DebounceStart) < LinkUpDebounce =>
                \/ DebounceStart = 0 /\ now' = 0 /\ upFor' = 0
                     /\ LinkUpDebounce > 0
                \/ /\ DebounceStart # 0
                   /\ upFor' <= Elapsed(now', DebounceStart) + MaxGap
<1> USE FailsafeAssumption DEF IInv
<1>0. /\ now' = After(now, d) /\ now' \in Clock
      /\ d \in Nat /\ d >= 1 /\ d <= MaxGap
      /\ linkUpSince \in Clock /\ now \in Clock
      /\ upFor \in 0..Horizon
  BY AfterType DEF CalledUp, FailsafeTypeOK, Gaps
<1>1. CASE ~linkUp
  <2>1. linkUpSince = 0 /\ upFor' = 0 /\ DebounceStart = now'
    BY <1>1 DEF CalledUp, Timing, DebounceStart
  <2>2. Elapsed(now', DebounceStart) = 0
    BY <2>1, <1>0, ElapsedSelf
  <2> QED BY <1>0, <2>1, <2>2 DEF Horizon
<1>2. CASE linkUp /\ linkUpSince = 0
  <2>1. now = 0 /\ upFor = 0 /\ DebounceStart = now'
    BY <1>2 DEF Timing, DebounceStart
  <2>2. now' = d /\ upFor' = d
    BY <1>0, <1>2, <2>1 DEF After, CalledUp, Older, Horizon
  <2>3. Elapsed(now', DebounceStart) = 0
    BY <2>1, <1>0, ElapsedSelf
  <2> QED BY <1>0, <2>1, <2>2, <2>3 DEF Horizon
<1>3. CASE linkUp /\ linkUpSince # 0
  <2>1. /\ DebounceStart = linkUpSince
        /\ Elapsed(now, linkUpSince) < LinkUpDebounce
        /\ upFor >= Elapsed(now, linkUpSince)
        /\ upFor <= Elapsed(now, linkUpSince) + MaxGap
    BY <1>3 DEF Timing, DebounceStart
  <2>2. Elapsed(now, linkUpSince) \in Nat
    BY <1>0, ElapsedType
  <2>3. Elapsed(now', DebounceStart) = Elapsed(now, linkUpSince) + d
    BY <1>0, <2>1, <2>2, ElapsedAfter
  <2>4. upFor' = upFor + d /\ upFor + d \in 0..Horizon
    BY <1>0, <1>3, <2>1, <2>2 DEF CalledUp, Older, Horizon
  <2> QED BY <1>0, <1>3, <2>1, <2>2, <2>3, <2>4
<1> QED BY <1>1, <1>2, <1>3

\* A call that reports the link up preserves the invariant.
LEMMA UpStep ==
    ASSUME IInv, NEW d \in Gaps, on_link_up(d)
    PROVE  IInv'
<1> USE FailsafeAssumption DEF IInv
<1>0. /\ CalledUp(d)
      /\ now' \in Clock
      /\ upFor' \in 0..Horizon
      /\ downFor' = 0
      /\ linkUp' = TRUE
  <2>1. CalledUp(d)
    BY DEF on_link_up, RecoverBeforeExpiry, Debouncing, Recovered, Healthy
  <2>2. now' \in Clock
    BY <2>1, AfterType DEF CalledUp, FailsafeTypeOK
  <2>3. upFor' \in 0..Horizon
    BY <2>1, OlderType DEF CalledUp, FailsafeTypeOK, Horizon, Gaps
  <2> QED BY <2>1, <2>2, <2>3 DEF CalledUp
<1>1. CASE RecoverBeforeExpiry(d) \/ Healthy(d)
  <2>1. FailsafeTypeOK'
    BY <1>0, <1>1, ZeroType DEF RecoverBeforeExpiry, Healthy, FailsafeTypeOK, Phases
  <2>2. WritesFollowPhase' /\ Timing'
    BY <1>0, <1>1
       DEF RecoverBeforeExpiry, Healthy, WritesFollowPhase, Timing,
           app_availability_online
  <2> QED BY <2>1, <2>2
<1>2. CASE Debouncing(d)
  <2>1. phase = "ACTIVE" /\ phase' = "ACTIVE" /\ linkUpSince' = DebounceStart
        /\ Elapsed(now', DebounceStart) < LinkUpDebounce
    BY <1>2 DEF Debouncing
  <2>2. /\ DebounceStart \in Clock
        /\ upFor' >= Elapsed(now', DebounceStart)
        /\ \/ /\ DebounceStart = 0 /\ now' = 0 /\ upFor' = 0
              /\ LinkUpDebounce > 0
           \/ /\ DebounceStart # 0
              /\ upFor' <= Elapsed(now', DebounceStart) + MaxGap
    BY <1>0, <2>1, DebounceAge
  <2>3. FailsafeTypeOK'
    BY <1>0, <1>2, <2>1, <2>2, ZeroType DEF Debouncing, FailsafeTypeOK, Phases
  <2>4. WritesFollowPhase'
    BY <1>2, <2>1
       DEF Debouncing, WritesFollowPhase, app_availability_online
  <2>5. Timing'
    BY <1>0, <2>1, <2>2 DEF Timing
  <2> QED BY <2>3, <2>4, <2>5
<1>3. CASE Recovered(d)
  <2>1. FailsafeTypeOK'
    BY <1>0, <1>3, ZeroType DEF Recovered, FailsafeTypeOK, Phases
  <2>2. WritesFollowPhase' /\ Timing'
    BY <1>0, <1>3
       DEF Recovered, WritesFollowPhase, Timing, app_availability_online
  <2> QED BY <2>1, <2>2
<1> QED BY <1>1, <1>2, <1>3 DEF on_link_up

LEMMA StutterStep ==
    ASSUME IInv, UNCHANGED failsafeVars
    PROVE  IInv'
BY DEF IInv, failsafeVars, FailsafeTypeOK, WritesFollowPhase, Timing, app_availability_online

LEMMA NextInv == IInv /\ [FailsafeNext]_failsafeVars => IInv'
BY DownStep, UpStep, StutterStep DEF FailsafeNext

LEMMA Invariance == FailsafeSpec => []IInv
BY InitInv, NextInv, PTL DEF FailsafeSpec

-----------------------------------------------------------------------------
(* The theorems. *)

\* Every variable of failsafe_state_t keeps its range.
THEOREM FailsafeTypeCorrect == FailsafeSpec => []FailsafeTypeOK
<1>1. IInv => FailsafeTypeOK
  BY DEF IInv
<1> QED BY <1>1, Invariance, PTL

\* remote_writes_allowed is false exactly while the fail-safe is ACTIVE.
THEOREM WritesBlockedExactlyWhenActive == FailsafeSpec => []WritesFollowPhase
<1>1. IInv => WritesFollowPhase
  BY DEF IInv
<1> QED BY <1>1, Invariance, PTL

\* An outage as old as the entry timer always finds the fail-safe ACTIVE.
THEOREM ActsInTime == FailsafeSpec => []OutageNotIgnored
<1>1. IInv => OutageNotIgnored
  BY FailsafeAssumption
     DEF IInv, FailsafeTypeOK, Timing, OutageNotIgnored, is_active, Phases, Horizon
<1> QED BY <1>1, Invariance, PTL

\* ACTIVE never outlives a steady link by the debounce and one gap.
THEOREM LetsGoInTime == FailsafeSpec => []RecoveryNotStuck
<1>1. ASSUME IInv PROVE RecoveryNotStuck
  <2> USE FailsafeAssumption DEF IInv
  <2>1. Elapsed(now, linkUpSince) \in Nat
    BY <1>1, ElapsedType DEF FailsafeTypeOK
  <2> QED
    BY <1>1, <2>1 DEF FailsafeTypeOK, Timing, RecoveryNotStuck, is_active, Horizon
<1> QED BY <1>1, Invariance, PTL

\* A step that raises the fail-safe ends an outage of EntryTimer.
LEMMA EntryStep ==
    ASSUME IInv, [FailsafeNext]_failsafeVars, ~is_active, is_active'
    PROVE  ~linkUp' /\ downFor' >= EntryTimer
<1> USE FailsafeAssumption
<1>1. PICK d \in Gaps : EntryTimerExpires(d)
  BY DEF FailsafeNext, failsafeVars, is_active, on_link_down, on_link_up, StartEntryTimer,
         EntryTimerRuns, OutageGoesOn, RecoverBeforeExpiry, Debouncing,
         Recovered, Healthy
<1>2. /\ ~linkUp /\ ~linkUp'
      /\ downFor = Elapsed(now, timerStarted)
      /\ downFor < EntryTimer
      /\ now' = After(now, d)
      /\ downFor' = Older(downFor, d)
      /\ Elapsed(now', timerStarted) >= EntryTimer
  BY <1>1 DEF IInv, Timing, EntryTimerExpires, CalledDown
<1>3. Elapsed(now', timerStarted) = downFor + d
  BY <1>2, ElapsedAfter DEF IInv, FailsafeTypeOK, Gaps, Horizon
<1>4. downFor' = downFor + d
  BY <1>2 DEF Older, Horizon, IInv, FailsafeTypeOK, Gaps
<1> QED BY <1>2, <1>3, <1>4

\* A step that lowers the fail-safe ends LinkUpDebounce of steady link.
LEMMA ExitStep ==
    ASSUME IInv, [FailsafeNext]_failsafeVars, is_active, ~is_active'
    PROVE  linkUp' /\ upFor' >= LinkUpDebounce
<1> USE FailsafeAssumption
<1>1. PICK d \in Gaps : Recovered(d)
  BY DEF FailsafeNext, failsafeVars, is_active, on_link_down, on_link_up, StartEntryTimer,
         EntryTimerRuns, EntryTimerExpires, OutageGoesOn, RecoverBeforeExpiry,
         Debouncing, Healthy
<1>2. /\ CalledUp(d) /\ phase = "ACTIVE" /\ linkUp'
      /\ Elapsed(now', DebounceStart) >= LinkUpDebounce
  BY <1>1 DEF Recovered, CalledUp
<1>3. /\ DebounceStart \in Clock /\ now' \in Clock /\ upFor' \in 0..Horizon
      /\ upFor' >= Elapsed(now', DebounceStart)
  BY <1>2, DebounceAge
<1>4. Elapsed(now', DebounceStart) \in Nat
  BY <1>3, ElapsedType
<1> QED BY <1>2, <1>3, <1>4 DEF Horizon

\* The fail-safe is entered only after a whole entry timer of outage.
THEOREM NeverEntersEarly == FailsafeSpec => EntersOnlyAfterOutage
<1>1. IInv /\ [FailsafeNext]_failsafeVars =>
        [(~is_active /\ is_active') => (~linkUp' /\ downFor' >= EntryTimer)]_failsafeVars
  BY EntryStep
<1> QED BY <1>1, Invariance, PTL DEF FailsafeSpec, EntersOnlyAfterOutage

\* The fail-safe is left only after a whole debounce of steady link.
THEOREM NeverLeavesEarly == FailsafeSpec => LeavesOnlyAfterDebounce
<1>1. IInv /\ [FailsafeNext]_failsafeVars =>
        [(is_active /\ ~is_active') => (linkUp' /\ upFor' >= LinkUpDebounce)]_failsafeVars
  BY ExitStep
<1> QED BY <1>1, Invariance, PTL DEF FailsafeSpec, LeavesOnlyAfterDebounce

-----------------------------------------------------------------------------
(* The refinement. *)

\* A call that reports the link down is a down sample of the watchdog.
LEMMA DownSample ==
    ASSUME IInv, NEW d \in Gaps, on_link_down(d)
    PROVE  Watchdog!SampleDown(d)
<1>1. CalledDown(d)
  BY DEF on_link_down, StartEntryTimer, EntryTimerRuns, EntryTimerExpires,
         OutageGoesOn
<1>2. downFor' = (IF linkUp THEN 0 ELSE Watchdog!Older(downFor, d))
  BY <1>1 DEF CalledDown, Older, Horizon, Watchdog!Older, Watchdog!Horizon
<1>3. is_active' = (is_active \/ downFor' >= EntryTimer)
  <2>1. IInv'
    BY DownStep
  <2>2. downFor' >= EntryTimer => is_active'
    BY <1>1, <2>1, FailsafeAssumption
       DEF IInv, FailsafeTypeOK, Timing, CalledDown, is_active, Phases, Horizon
  <2>3. is_active => is_active'
    BY DEF is_active, on_link_down, StartEntryTimer, EntryTimerRuns,
           EntryTimerExpires, OutageGoesOn
  <2>4. (~is_active /\ is_active') => downFor' >= EntryTimer
    <3>1. [FailsafeNext]_failsafeVars
      BY DEF FailsafeNext
    <3> QED BY <3>1, EntryStep
  <2>5. is_active \in BOOLEAN /\ is_active' \in BOOLEAN
    BY DEF is_active
  <2> QED BY <2>2, <2>3, <2>4, <2>5
<1> QED BY <1>1, <1>2, <1>3 DEF CalledDown, Watchdog!SampleDown

\* A call that reports the link up is an up sample of the watchdog.
LEMMA UpSample ==
    ASSUME IInv, NEW d \in Gaps, on_link_up(d)
    PROVE  Watchdog!SampleUp(d)
<1>1. CalledUp(d)
  BY DEF on_link_up, RecoverBeforeExpiry, Debouncing, Recovered, Healthy
<1>2. upFor' = (IF linkUp THEN Watchdog!Older(upFor, d) ELSE 0)
  BY <1>1 DEF CalledUp, Older, Horizon, Watchdog!Older, Watchdog!Horizon
<1>3. is_active' \in {is_active, FALSE}
  BY DEF is_active, on_link_up, RecoverBeforeExpiry, Debouncing, Recovered,
         Healthy
<1>4. (is_active /\ ~is_active') => upFor' >= LinkUpDebounce
  <2>1. [FailsafeNext]_failsafeVars
    BY DEF FailsafeNext
  <2> QED BY <2>1, ExitStep
<1>5. is_active' => upFor' < LinkUpDebounce + MaxGap
  <2>1. IInv'
    BY UpStep
  <2>2. Elapsed(now', linkUpSince') \in Nat
    BY <2>1, ElapsedType DEF IInv, FailsafeTypeOK
  <2> QED
    BY <1>1, <2>1, <2>2, FailsafeAssumption
       DEF IInv, FailsafeTypeOK, Timing, CalledUp, is_active, Horizon
<1> QED BY <1>1, <1>2, <1>3, <1>4, <1>5 DEF CalledUp, Watchdog!SampleUp

\* The state machine of failsafe.c implements the watchdog.
THEOREM ImplementsWatchdog == FailsafeSpec => WatchdogSpec
<1>1. FailsafeInit => Watchdog!Init
  BY DEF FailsafeInit, Watchdog!Init, is_active
<1>2. IInv /\ [FailsafeNext]_failsafeVars => [Watchdog!Next]_(Watchdog!vars)
  <2>1. ASSUME IInv, NEW d \in Gaps, on_link_down(d) \/ on_link_up(d)
        PROVE  Watchdog!Next
    BY <2>1, DownSample, UpSample DEF Watchdog!Next, Watchdog!Gaps, Gaps
  <2>2. UNCHANGED failsafeVars => UNCHANGED Watchdog!vars
    BY DEF failsafeVars, Watchdog!vars, is_active
  <2> QED BY <2>1, <2>2 DEF FailsafeNext
<1> QED BY <1>1, <1>2, Invariance, PTL DEF FailsafeSpec, WatchdogSpec, Watchdog!Spec

-----------------------------------------------------------------------------
(* MqttSession *)


\* Type correctness, inductive as it stands.
LEMMA InitTyped == Init => TypeOK
  <1>1. Init => NetTypes
    BY DEF Init, NetTypes, RetainedIds
  <1>2. Init => SessionTypes
    BY DEF Init, SessionTypes, Readings
  <1>3. Init => FailsafeTypes
    BY DEF Init, FailsafeTypes
  <1>4. Init => CountType
    BY DEF Init, CountType, MaxApplied
  <1> QED BY <1>1, <1>2, <1>3, <1>4 DEF TypeOK

LEMMA ArmTyped ==
    ASSUME SessionTypes, Arm, sess' = sess
    PROVE  SessionTypes'
  BY DEF SessionTypes, Arm, Readings

LEMMA NetworkTyped == ASSUME TypeOK, Network PROVE TypeOK'
  <1>1. NetTypes'
    BY DEF TypeOK, NetTypes, RetainedIds, Network, WifiUp, WifiDown, Connected,
           Birth, Disconnected, LastWill, LiveSet, RetainedSet, bootVars,
           netVars, statusVars, brokerVars
  <1>2. SessionTypes'
    <2>1. CASE Connected BY <2>1, ArmTyped DEF Connected, TypeOK
    <2>2. CASE UNCHANGED <<armVars, sess>>
      BY <2>2 DEF TypeOK, SessionTypes, armVars
    <2>3. CASE LiveSet BY <2>3 DEF LiveSet, TypeOK, SessionTypes
    <2>4. CASE \E id \in RetainedIds : RetainedSet(id)
      BY <2>4 DEF RetainedSet, RetainedMark, TypeOK, SessionTypes
    <2> QED
      BY <2>1, <2>2, <2>3, <2>4
      DEF Network, WifiUp, WifiDown, Disconnected, LastWill
  <1>3. FailsafeTypes'
    BY DEF TypeOK, FailsafeTypes, fsVars, Network, WifiUp, WifiDown, Connected,
           Disconnected, LastWill, LiveSet, RetainedSet
  <1>4. CountType'
    BY DEF TypeOK, CountType, MaxApplied, Network, WifiUp, WifiDown, Connected,
           Disconnected, LastWill, LiveSet, RetainedSet
  <1> QED BY <1>1, <1>2, <1>3, <1>4 DEF TypeOK

LEMMA SessionTyped == ASSUME TypeOK, SessionTask PROVE TypeOK'
  <1> USE DEF SessionTask, ReadClock, SessionTick, Subscribe, SessionReady
  <1>1. NetTypes'
    BY DEF TypeOK, NetTypes, RetainedIds, bootVars, netVars, statusVars,
           brokerVars
  <1>2. SessionTypes'
    BY DEF TypeOK, SessionTypes, Readings, armVars
  <1>3. FailsafeTypes'
    BY DEF TypeOK, FailsafeTypes, fsVars
  <1>4. CountType'
    BY DEF TypeOK, CountType
  <1> QED BY <1>1, <1>2, <1>3, <1>4 DEF TypeOK

LEMMA FailsafeTyped == ASSUME TypeOK, FailsafeTask PROVE TypeOK'
  <1> USE DEF FailsafeTask, ReadLink, OnLink, ForceOffline, SendOffline,
              ForceOnline, SendOnline, ArmAgain, ClearSession
  <1>1. NetTypes'
    BY DEF TypeOK, NetTypes, bootVars, netVars, statusVars, brokerVars
  <1>2. SessionTypes'
    <2>1. CASE Arm /\ sess' = sess BY <2>1, ArmTyped DEF TypeOK
    <2>2. CASE ClearSession BY <2>2 DEF TypeOK, SessionTypes
    <2>3. CASE UNCHANGED <<armVars, sess>>
      BY <2>3 DEF TypeOK, SessionTypes, armVars
    <2> QED BY <2>1, <2>2, <2>3
  <1>3. FailsafeTypes'
    <2> USE DEF TypeOK, FailsafeTypes, fsVars
    <2>1. CASE ReadLink BY <2>1 DEF NetTypes
    <2>2. CASE OnLink BY <2>2
    <2>3. CASE ForceOffline \/ SendOffline \/ ForceOnline \/ SendOnline
      BY <2>3
    <2>4. CASE ArmAgain \/ ClearSession BY <2>4
    <2> QED BY <2>1, <2>2, <2>3, <2>4
  <1>4. CountType'
    BY DEF TypeOK, CountType
  <1> QED BY <1>1, <1>2, <1>3, <1>4 DEF TypeOK

LEMMA AppMainTyped == ASSUME TypeOK, AppMain PROVE TypeOK'
  <1> USE DEF AppMain, CommandsInit, BootArm, StartFailsafe
  <1>1. NetTypes'
    BY DEF TypeOK, NetTypes, netVars, statusVars, brokerVars
  <1>2. SessionTypes'
    <2>1. CASE Arm /\ sess' = sess BY <2>1, ArmTyped DEF TypeOK
    <2>2. CASE UNCHANGED <<armVars, sess>>
      BY <2>2 DEF TypeOK, SessionTypes, armVars
    <2> QED BY <2>1, <2>2
  <1>3. FailsafeTypes'
    BY DEF TypeOK, FailsafeTypes, fsVars
  <1>4. CountType'
    BY DEF TypeOK, CountType
  <1> QED BY <1>1, <1>2, <1>3, <1>4 DEF TypeOK

LEMMA StepTyped == TypeOK /\ [Next]_vars => TypeOK'
  <1> SUFFICES ASSUME TypeOK, [Next]_vars PROVE TypeOK'
    OBVIOUS
  <1> USE DEF bootVars, netVars, statusVars, brokerVars, fsVars
  <1>1. CASE TwoSeconds
    <2>1. NetTypes' BY <1>1 DEF TwoSeconds, TypeOK, NetTypes
    <2>2. SessionTypes' BY <1>1 DEF TwoSeconds, TypeOK, SessionTypes
    <2>3. FailsafeTypes' BY <1>1 DEF TwoSeconds, TypeOK, FailsafeTypes
    <2>4. CountType' BY <1>1 DEF TwoSeconds, TypeOK, CountType
    <2> QED BY <2>1, <2>2, <2>3, <2>4 DEF TypeOK
  <1>2. CASE UNCHANGED vars
    <2>1. NetTypes' BY <1>2 DEF vars, TypeOK, NetTypes
    <2>2. SessionTypes' BY <1>2 DEF vars, armVars, TypeOK, SessionTypes
    <2>3. FailsafeTypes' BY <1>2 DEF vars, TypeOK, FailsafeTypes
    <2>4. CountType' BY <1>2 DEF vars, TypeOK, CountType
    <2> QED BY <2>1, <2>2, <2>3, <2>4 DEF TypeOK
  <1> QED
    BY <1>1, <1>2, NetworkTyped, SessionTyped, FailsafeTyped, AppMainTyped
    DEF Next

\* Every flag of the session keeps its type, and mqtt_sess holds a clock
\* reading exactly while it is in its tick.
THEOREM TypeCorrect == Spec => []TypeOK
  BY InitTyped, StepTyped, PTL DEF Spec

-----------------------------------------------------------------------------
(* Availability.  What makes AvailabilityHonest inductive is that the flag  *)
(* a reconnect looks at follows the phase at every point of the loop but   *)
(* one: between failsafe_on_link and the flag's store.                     *)

FlagFollows ==
    /\ fs = "goOffline" => active
    /\ fs = "sendOffline" => active
    /\ fs = "goOnline" => ~active
    /\ fs = "sendOnline" => ~active
    /\ fs \notin {"goOffline", "goOnline"} => (forceOffline <=> active)

\* failsafe_task runs only once app_main has created it.
NotStarted == boot # "run" => fs = "off"

AvailInv == TypeOK /\ NotStarted /\ FlagFollows /\ AvailabilityHonest

LEMMA AvailInit == Init => AvailInv
  BY InitTyped DEF Init, AvailInv, NotStarted, FlagFollows, AvailabilityHonest

LEMMA StartStep == NotStarted /\ [Next]_vars => NotStarted'
  <1> USE DEF NotStarted, bootVars, fsVars
  <1>1. ASSUME NotStarted, Network \/ TwoSeconds \/ SessionTask
        PROVE  NotStarted'
    BY <1>1
    DEF Network, WifiUp, WifiDown, Connected, Disconnected, LastWill, LiveSet,
        RetainedSet, TwoSeconds, SessionTask, ReadClock, SessionTick,
        Subscribe, SessionReady
  <1>2. ASSUME NotStarted, FailsafeTask PROVE NotStarted'
    BY <1>2
    DEF FailsafeTask, ReadLink, OnLink, ForceOffline, SendOffline, ForceOnline,
        SendOnline, ArmAgain, ClearSession
  <1>3. ASSUME NotStarted, AppMain PROVE NotStarted'
    BY <1>3 DEF AppMain, CommandsInit, BootArm, StartFailsafe
  <1>4. ASSUME NotStarted, UNCHANGED vars PROVE NotStarted'
    BY <1>4 DEF vars
  <1> QED BY <1>1, <1>2, <1>3, <1>4 DEF Next

LEMMA AvailStep == AvailInv /\ [Next]_vars => AvailInv'
  <1> SUFFICES ASSUME AvailInv, [Next]_vars
               PROVE  FlagFollows' /\ AvailabilityHonest'
    BY StepTyped, StartStep DEF AvailInv
  <1> USE DEF AvailInv, FlagFollows, AvailabilityHonest, Publishing
  <1>1. CASE UNCHANGED <<conn, statusVars, fsVars>>
    BY <1>1 DEF statusVars, fsVars
  <1>2. CASE Connected
    BY <1>2 DEF Connected, Birth, fsVars
  <1>3. CASE Disconnected
    BY <1>3 DEF Disconnected, statusVars, fsVars
  <1>4. CASE LastWill
    BY <1>4 DEF LastWill, netVars, fsVars
  <1>5. CASE FailsafeTask
    <2> USE DEF netVars, statusVars, TypeOK
    <2>1. CASE ReadLink BY <2>1 DEF ReadLink
    <2>2. CASE OnLink BY <2>2 DEF OnLink
    <2>3. CASE ForceOffline BY <2>3 DEF ForceOffline
    <2>4. CASE SendOffline BY <2>4 DEF SendOffline
    <2>5. CASE ForceOnline BY <2>5 DEF ForceOnline
    <2>6. CASE SendOnline BY <2>6 DEF SendOnline
    <2>7. CASE ArmAgain BY <2>7 DEF ArmAgain
    <2>8. CASE ClearSession BY <2>8 DEF ClearSession
    <2> QED
      BY <1>5, <2>1, <2>2, <2>3, <2>4, <2>5, <2>6, <2>7, <2>8
      DEF FailsafeTask
  <1>6. CASE StartFailsafe
    BY <1>6 DEF StartFailsafe, NotStarted, netVars, statusVars
  <1>7. CASE \/ WifiUp \/ WifiDown \/ LiveSet \/ TwoSeconds \/ SessionTask
             \/ CommandsInit \/ BootArm
             \/ \E id \in RetainedIds : RetainedSet(id)
    BY <1>1, <1>7
    DEF WifiUp, WifiDown, LiveSet, TwoSeconds, SessionTask, ReadClock,
        SessionTick, Subscribe, SessionReady, CommandsInit, BootArm,
        RetainedSet, netVars
  <1>8. CASE UNCHANGED vars
    BY <1>1, <1>8 DEF vars, netVars
  <1> QED
    BY <1>2, <1>3, <1>4, <1>5, <1>6, <1>7, <1>8 DEF Next, Network, AppMain

\* The availability topic shows what the fail-safe decided, wherever the
\* reconnects fall (s_force_offline_birth and the two publishers of mqtt_ha.c).
THEOREM AvailabilityShown == Spec => []AvailabilityHonest
  <1>1. AvailInv => AvailabilityHonest
    BY DEF AvailInv
  <1> QED BY <1>1, AvailInit, AvailStep, PTL DEF Spec

-----------------------------------------------------------------------------
(* Readiness.  Without a connection before mqtt_commands_init and without a *)
(* drop while mqtt_sess announces, a ready session has its subscriptions.  *)

ReadyInv ==
    /\ TypeOK
    /\ conn => catSet
    /\ InTick => conn
    /\ sess = "subscribed" => subs
    /\ ReadyIsSubscribed

LEMMA ReadyInit == Init => ReadyInv
  BY InitTyped DEF Init, ReadyInv, ReadyIsSubscribed, InTick

LEMMA RacesStay == [Next]_vars => races' = races
  BY DEF Next, Network, WifiUp, WifiDown, Connected, Disconnected, LastWill,
         LiveSet, RetainedSet, TwoSeconds, SessionTask, ReadClock, SessionTick,
         Subscribe, SessionReady, FailsafeTask, ReadLink, OnLink, ForceOffline,
         SendOffline, ForceOnline, SendOnline, ArmAgain, ClearSession, AppMain,
         CommandsInit, BootArm, StartFailsafe, vars, bootVars

LEMMA ReadyStep ==
    ASSUME ~EarlyConnect, ~DropInTick
    PROVE  ReadyInv /\ [Next]_vars => ReadyInv'
  <1> SUFFICES ASSUME ReadyInv, [Next]_vars
               PROVE  /\ (conn => catSet)'
                      /\ (InTick => conn)'
                      /\ (sess = "subscribed" => subs)'
                      /\ ReadyIsSubscribed'
    BY StepTyped DEF ReadyInv
  <1> USE DEF ReadyInv, ReadyIsSubscribed, InTick
  <1>1. CASE UNCHANGED <<conn, catSet, sess, subs, ready>>
    BY <1>1
  <1>2. CASE Connected
    BY <1>2 DEF Connected, Arm, bootVars, brokerVars
  <1>3. CASE Disconnected
    BY <1>3 DEF Disconnected, bootVars
  <1>4. CASE SessionTask
    <2> USE DEF bootVars, netVars, brokerVars, armVars
    <2>1. CASE ReadClock BY <2>1 DEF ReadClock
    <2>2. CASE SessionTick BY <2>2 DEF SessionTick, SessionDue
    <2>3. CASE Subscribe BY <2>3 DEF Subscribe, TypeOK
    <2>4. CASE SessionReady BY <2>4 DEF SessionReady
    <2> QED BY <1>4, <2>1, <2>2, <2>3, <2>4 DEF SessionTask
  <1>5. CASE FailsafeTask
    <2> USE DEF bootVars, netVars, brokerVars, armVars
    <2>1. CASE ArmAgain BY <2>1 DEF ArmAgain, Arm
    <2>2. CASE ClearSession BY <2>2 DEF ClearSession, TypeOK
    <2>3. CASE ReadLink \/ OnLink \/ ForceOffline \/ SendOffline
               \/ ForceOnline \/ SendOnline
      BY <1>1, <2>3
      DEF ReadLink, OnLink, ForceOffline, SendOffline, ForceOnline, SendOnline
    <2> QED BY <1>5, <2>1, <2>2, <2>3 DEF FailsafeTask
  <1>6. CASE CommandsInit
    BY <1>6 DEF CommandsInit, netVars, brokerVars, armVars
  <1>7. CASE BootArm
    BY <1>7 DEF BootArm, Arm, netVars, brokerVars, armVars
  <1>8. CASE \/ WifiUp \/ WifiDown \/ LastWill \/ LiveSet \/ TwoSeconds
             \/ StartFailsafe
             \/ \E id \in RetainedIds : RetainedSet(id)
    BY <1>1, <1>8
    DEF WifiUp, WifiDown, LastWill, LiveSet, TwoSeconds, StartFailsafe,
        RetainedSet, bootVars, netVars, brokerVars, armVars
  <1>9. CASE UNCHANGED vars
    BY <1>1, <1>9 DEF vars, bootVars, netVars, brokerVars, armVars
  <1> QED
    BY <1>2, <1>3, <1>4, <1>5, <1>6, <1>7, <1>8, <1>9
    DEF Next, Network, AppMain

\* A ready session is subscribed, provided neither of two races (a connection
\* before mqtt_commands_init, a drop inside the tick of mqtt_sess) may happen:
\* they are the only ways to a deaf session.
THEOREM ReadyMeansSubscribed == Spec => []ReadyIsSubscribed
  <1> DEFINE Inv == ~EarlyConnect /\ ~DropInTick => ReadyInv
  <1>1. Init => Inv
    BY ReadyInit
  <1>2. Inv /\ [Next]_vars => Inv'
    BY ReadyStep, RacesStay DEF EarlyConnect, DropInTick
  <1>3. Inv => ReadyIsSubscribed
    BY DEF ReadyInv, ReadyIsSubscribed
  <1> QED BY <1>1, <1>2, <1>3, PTL DEF Spec

-----------------------------------------------------------------------------
(* The retained gate.  Clock readings only grow old; without an arm between *)
(* a reading and its use none is older than the arm it is compared with.   *)

GateInv ==
    /\ TypeOK
    /\ clock # "before" /\ sample # "before"
    /\ clock = "due" => age = "due"
    /\ sample = "due" => age = "due"

LEMMA GateInit == Init => GateInv
  BY InitTyped DEF Init, GateInv

LEMMA GateArm ==
    ASSUME ~StaleClock, GateInv, Arm
    PROVE  clock' = "fresh" /\ sample' \in {"none", "fresh"}
  BY DEF Arm, GateInv

LEMMA GateStep ==
    ASSUME ~StaleClock
    PROVE  GateInv /\ [Next]_vars => GateInv'
  <1> SUFFICES ASSUME GateInv, [Next]_vars
               PROVE  /\ clock' # "before" /\ sample' # "before"
                      /\ clock' = "due" => age' = "due"
                      /\ sample' = "due" => age' = "due"
    BY StepTyped DEF GateInv
  <1>1. CASE UNCHANGED <<age, clock, sample>>
    BY <1>1 DEF GateInv
  <1>2. CASE Arm
    BY <1>2, GateArm
  <1>3. CASE TwoSeconds
    BY <1>3 DEF TwoSeconds, GateInv
  <1>4. CASE SessionTask
    <2> USE DEF GateInv, TypeOK, SessionTypes, Readings, armVars
    <2>1. CASE ReadClock BY <2>1 DEF ReadClock
    <2>2. CASE SessionTick BY <2>2 DEF SessionTick
    <2>3. CASE Subscribe BY <2>3 DEF Subscribe
    <2>4. CASE SessionReady BY <2>4 DEF SessionReady
    <2> QED BY <1>4, <2>1, <2>2, <2>3, <2>4 DEF SessionTask
  <1>5. CASE FailsafeTask
    BY <1>1, <1>2, <1>5
    DEF FailsafeTask, ReadLink, OnLink, ForceOffline, SendOffline, ForceOnline,
        SendOnline, ArmAgain, ClearSession, armVars
  <1>6. CASE AppMain
    BY <1>1, <1>2, <1>6
    DEF AppMain, CommandsInit, BootArm, StartFailsafe, armVars
  <1>7. CASE Network
    BY <1>1, <1>2, <1>7
    DEF Network, WifiUp, WifiDown, Connected, Disconnected, LastWill, LiveSet,
        RetainedSet, armVars
  <1>8. CASE UNCHANGED vars
    BY <1>1, <1>8 DEF vars, armVars
  <1> QED BY <1>3, <1>4, <1>5, <1>6, <1>7, <1>8 DEF Next

\* The gate lets a retained set through only two seconds after the arm,
\* provided no arm falls between a clock reading and its use.
THEOREM RetainedWaits == Spec => RetainedAfterDebounce
  <1> DEFINE Inv == ~StaleClock => GateInv
  <1>1. Init => Inv
    BY GateInit
  <1>2. Inv /\ [Next]_vars => Inv'
    BY GateStep, RacesStay DEF StaleClock
  <1>3. Inv /\ [Next]_vars
          => [(~StaleClock /\ gate /\ applied' > applied) => age = "due"]_vars
    <2> SUFFICES ASSUME GateInv, [Next]_vars, gate, applied' > applied
                 PROVE  age = "due"
      OBVIOUS
    <2>1. CASE \E id \in RetainedIds : RetainedSet(id)
      BY <2>1 DEF RetainedSet, Allowed, Debounced, GateInv, TypeOK, SessionTypes, CountType,
                  Readings, MaxApplied
    <2>2. CASE applied' = applied \/ applied' = 0
      BY <2>2 DEF GateInv, TypeOK, CountType, MaxApplied
    <2> QED
      BY <2>1, <2>2
      DEF Next, Network, WifiUp, WifiDown, Connected, Disconnected, LastWill,
          LiveSet, TwoSeconds, SessionTask, ReadClock, SessionTick, Subscribe,
          SessionReady, FailsafeTask, ReadLink, OnLink, ForceOffline,
          SendOffline, ForceOnline, SendOnline, ArmAgain, ClearSession, AppMain,
          CommandsInit, BootArm, StartFailsafe, vars
  <1> QED BY <1>1, <1>2, <1>3, PTL DEF Spec, RetainedAfterDebounce
=============================================================================
