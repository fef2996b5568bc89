---------------------------- MODULE LinkWatchdog ----------------------------
(***************************************************************************)
(* What the fail-safe promises, without its state machine: a watchdog over *)
(* a periodically sampled link.  It raises `active` exactly when the link  *)
(* has been seen down for EntryTimer, lowers it only after the link has    *)
(* been seen up for LinkUpDebounce, and at the latest one sampling gap     *)
(* after that.                                                             *)
(***************************************************************************)
EXTENDS Naturals

CONSTANTS
    EntryTimer,      \* ms of continuous outage before the fail-safe acts
    LinkUpDebounce,  \* ms of continuous link before it lets go
    MaxGap           \* longest time between two samples

VARIABLES
    active,          \* the fail-safe is in force
    linkUp,          \* the last sample of the link
    downFor, upFor   \* how long every sample so far has said down, or up

vars == <<active, linkUp, downFor, upFor>>

\* Ages beyond this one make no difference.
Horizon == EntryTimer + LinkUpDebounce + MaxGap + MaxGap
Older(age, d) == IF age + d < Horizon THEN age + d ELSE Horizon

Gaps == 1..MaxGap

Init ==
    /\ active = FALSE
    /\ linkUp = TRUE
    /\ downFor = 0
    /\ upFor = 0

SampleDown(d) ==
    /\ linkUp' = FALSE
    /\ downFor' = IF linkUp THEN 0 ELSE Older(downFor, d)
    /\ upFor' = 0
    /\ active' = (active \/ downFor' >= EntryTimer)

SampleUp(d) ==
    /\ linkUp' = TRUE
    /\ upFor' = IF linkUp THEN Older(upFor, d) ELSE 0
    /\ downFor' = 0
    /\ active' \in {active, FALSE}
    /\ (active /\ ~active') => upFor' >= LinkUpDebounce
    /\ active' => upFor' < LinkUpDebounce + MaxGap

Next == \E d \in Gaps : SampleDown(d) \/ SampleUp(d)

Spec == Init /\ [][Next]_vars
=============================================================================
