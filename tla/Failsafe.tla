------------------------------ MODULE Failsafe ------------------------------
(***************************************************************************)
(* firmware/main/failsafe.c: the Option A fail-safe state machine, driven  *)
(* by failsafe_on_link on a 32-bit millisecond clock that wraps.           *)
(*                                                                         *)
(* One step is one call of failsafe_on_link, d milliseconds after the call *)
(* before it; one disjunct is one path through the function.  downFor and  *)
(* upFor are history: how long the calls have reported the link down, or   *)
(* up, without interruption.  The code keeps neither, it derives both from *)
(* the wrapping timer_started_ms and link_up_since_ms, of which the second *)
(* also uses 0 for "not running".                                          *)
(***************************************************************************)
EXTENDS Integers

CONSTANTS
    EntryTimer,      \* APP_FAILSAFE_ENTRY_TIMER_MS
    LinkUpDebounce,  \* APP_LINK_UP_DEBOUNCE_MS
    MaxGap,          \* longest time between two calls of failsafe_on_link
    Wrap             \* size of the clock's range, 2^32 in the build

ASSUME FailsafeAssumption ==
    /\ EntryTimer \in Nat \ {0}
    /\ LinkUpDebounce \in Nat
    /\ MaxGap \in Nat \ {0}
    /\ Wrap \in Nat
    /\ EntryTimer + LinkUpDebounce + MaxGap + MaxGap < Wrap

VARIABLES
    phase,           \* st->phase
    writesAllowed,   \* st->remote_writes_allowed
    timerStarted,    \* st->timer_started_ms
    linkUpSince,     \* st->link_up_since_ms, 0 when not debouncing
    now,             \* now_ms of the last call
    linkUp,          \* wifi_up && mqtt_up of the last call
    downFor, upFor   \* history, see above

failsafeVars == <<phase, writesAllowed, timerStarted, linkUpSince,
          now, linkUp, downFor, upFor>>

Phases == {"IDLE", "ENTRY_TIMER", "ACTIVE"}
Clock == 0..(Wrap - 1)
Gaps == 1..MaxGap

\* Unsigned subtraction of two clock readings, and the clock d later.
Elapsed(later, earlier) ==
    IF later >= earlier THEN later - earlier ELSE (later - earlier) + Wrap
After(t, d) == IF t + d < Wrap THEN t + d ELSE (t + d) - Wrap

Horizon == EntryTimer + LinkUpDebounce + MaxGap + MaxGap
Older(age, d) == IF age + d < Horizon THEN age + d ELSE Horizon

FailsafeTypeOK ==
    /\ phase \in Phases
    /\ writesAllowed \in BOOLEAN
    /\ timerStarted \in Clock
    /\ linkUpSince \in Clock
    /\ now \in Clock
    /\ linkUp \in BOOLEAN
    /\ downFor \in 0..Horizon
    /\ upFor \in 0..Horizon

FailsafeInit ==
    /\ phase = "IDLE"
    /\ writesAllowed = TRUE
    /\ timerStarted = 0
    /\ linkUpSince = 0
    /\ now = 0
    /\ linkUp = TRUE
    /\ downFor = 0
    /\ upFor = 0

-----------------------------------------------------------------------------
(* The arguments of the call: the clock and the link. *)

CalledDown(d) ==
    /\ now' = After(now, d)
    /\ linkUp' = FALSE
    /\ downFor' = IF linkUp THEN 0 ELSE Older(downFor, d)
    /\ upFor' = 0

CalledUp(d) ==
    /\ now' = After(now, d)
    /\ linkUp' = TRUE
    /\ upFor' = IF linkUp THEN Older(upFor, d) ELSE 0
    /\ downFor' = 0

(* !link_up: every path first stops the recovery debounce. *)

StartEntryTimer(d) ==
    /\ CalledDown(d)
    /\ linkUpSince' = 0
    /\ phase = "IDLE"
    /\ phase' = "ENTRY_TIMER"
    /\ timerStarted' = now'
    /\ writesAllowed' = TRUE

EntryTimerRuns(d) ==
    /\ CalledDown(d)
    /\ linkUpSince' = 0
    /\ phase = "ENTRY_TIMER"
    /\ Elapsed(now', timerStarted) < EntryTimer
    /\ UNCHANGED <<phase, timerStarted, writesAllowed>>

EntryTimerExpires(d) ==
    /\ CalledDown(d)
    /\ linkUpSince' = 0
    /\ phase = "ENTRY_TIMER"
    /\ Elapsed(now', timerStarted) >= EntryTimer
    /\ phase' = "ACTIVE"
    /\ writesAllowed' = FALSE
    /\ UNCHANGED timerStarted

OutageGoesOn(d) ==
    /\ CalledDown(d)
    /\ linkUpSince' = 0
    /\ phase = "ACTIVE"
    /\ UNCHANGED <<phase, timerStarted, writesAllowed>>

(* link_up *)

\* Mutant of RecoverBeforeExpiry: the entry timer is not cancelled.
RecoverKeepsTimer(d) ==
    /\ CalledUp(d)
    /\ phase = "ENTRY_TIMER"
    /\ linkUpSince' = 0
    /\ UNCHANGED <<phase, writesAllowed, timerStarted>>

RecoverBeforeExpiry(d) ==
    /\ CalledUp(d)
    /\ phase = "ENTRY_TIMER"
    /\ phase' = "IDLE"
    /\ writesAllowed' = TRUE
    /\ timerStarted' = 0
    /\ linkUpSince' = 0

\* link_up_since_ms as the ACTIVE path sees it: 0 means start counting now.
DebounceStart == IF linkUpSince = 0 THEN now' ELSE linkUpSince

Debouncing(d) ==
    /\ CalledUp(d)
    /\ phase = "ACTIVE"
    /\ Elapsed(now', DebounceStart) < LinkUpDebounce
    /\ linkUpSince' = DebounceStart
    /\ UNCHANGED <<phase, timerStarted, writesAllowed>>

Recovered(d) ==
    /\ CalledUp(d)
    /\ phase = "ACTIVE"
    /\ Elapsed(now', DebounceStart) >= LinkUpDebounce
    /\ phase' = "IDLE"
    /\ writesAllowed' = TRUE
    /\ linkUpSince' = 0
    /\ UNCHANGED timerStarted

Healthy(d) ==
    /\ CalledUp(d)
    /\ phase = "IDLE"
    /\ linkUpSince' = 0
    /\ writesAllowed' = TRUE
    /\ UNCHANGED <<phase, timerStarted>>

on_link_down(d) ==
    \/ StartEntryTimer(d)
    \/ EntryTimerRuns(d)
    \/ EntryTimerExpires(d)
    \/ OutageGoesOn(d)

on_link_up(d) ==
    \/ RecoverBeforeExpiry(d)
    \/ Debouncing(d)
    \/ Recovered(d)
    \/ Healthy(d)

FailsafeNext == \E d \in Gaps : on_link_down(d) \/ on_link_up(d)

\* failsafe_task calls failsafe_on_link in an endless loop with a 200 ms delay.
FailsafeSpec == FailsafeInit /\ [][FailsafeNext]_failsafeVars

is_active == phase = "ACTIVE"
app_availability_online == phase # "ACTIVE"

-----------------------------------------------------------------------------
(* Properties *)

\* Remote writes are refused for exactly as long as the fail-safe is ACTIVE,
\* whatever path led there (remote_writes_allowed is a copy of the phase that
\* seven assignments keep in step).
WritesFollowPhase == writesAllowed <=> app_availability_online

\* The fail-safe acts in time: once an outage has been seen for EntryTimer the
\* same call makes it ACTIVE, even when the clock wraps during the outage.
OutageNotIgnored == (~linkUp /\ downFor >= EntryTimer) => is_active

\* It lets go in time: ACTIVE outlives a steady link by less than the debounce
\* and one gap.  The gap is the price of the 0 sentinel: a debounce that
\* starts when the clock reads 0 is started again by the next call.
RecoveryNotStuck == is_active => upFor < LinkUpDebounce + MaxGap

\* The fail-safe is never entered early: only by a call that ends an
\* uninterrupted outage of at least EntryTimer.
EntersOnlyAfterOutage ==
    [][(~is_active /\ is_active') => (~linkUp' /\ downFor' >= EntryTimer)]_failsafeVars

\* It is never left early: only by a call that ends LinkUpDebounce of
\* uninterrupted link.
LeavesOnlyAfterDebounce ==
    [][(is_active /\ ~is_active') => (linkUp' /\ upFor' >= LinkUpDebounce)]_failsafeVars

\* The state machine implements the watchdog it is meant to be.
Watchdog == INSTANCE LinkWatchdog WITH active <- is_active
WatchdogSpec == Watchdog!Spec
=============================================================================
