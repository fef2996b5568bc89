--------------------------- MODULE PollSchedule ----------------------------
(***************************************************************************)
(* The cadence of ot_poll.c: in every tick a keepalive, the held setpoint, *)
(* one queued write, and reads of catalogued ids until the tick is used    *)
(* up; which id is read next; what keepalives say of the boiler.  At boot  *)
(* the discovery of ot_catalog.c, run by app_main at priority 1, needs the *)
(* same bus as this task of priority 5.                                    *)
(*                                                                         *)
(* Time.  t is the time since the tick started, in units of the shortest   *)
(* exchange.  An exchange, with its gap, happens under the bus mutex and   *)
(* takes one of Durations.  ot_poll blocks outside the mutex only in its   *)
(* sleep, and it gets a mutex given back before app_main does: app_main    *)
(* can begin an exchange only during that sleep.                           *)
(*                                                                         *)
(* External: what the boiler answers and how long it takes, the writes and *)
(* the hold (module WritePath), and when a promotion runs out, of which    *)
(* only that it does so between two ticks is kept.                         *)
(***************************************************************************)
EXTENDS Integers, FiniteSets

CONSTANTS
    N,          \* OT_CATALOG_MAX_IDS: the ids are 0 .. N-1
    Fast,       \* ids of tier OT_TIER_FAST; the others are slow
    Echoed,     \* directory-writable and not known write-safe
    Interval,   \* APP_OT_KEEPALIVE_INTERVAL_MS
    Margin,     \* the 50 ms kept free at the end of a tick
    Durations,  \* how long an exchange may take
    Longest,    \* the longest of them
    Threshold   \* APP_BOILER_LINK_FAIL_THRESHOLD

Ids == 0..(N - 1)
Readable == 1..(N - 1)  \* ids[0] is read by the keepalive

ASSUME PollAssumption ==
    /\ N \in Nat /\ N > 1
    /\ Fast \subseteq Ids /\ Echoed \subseteq Ids \ {0, 1}
    /\ Longest \in Nat \ {0}
    /\ Durations \subseteq 1..Longest
    /\ Margin \in Nat /\ Interval \in Nat /\ Margin < Interval
    /\ Threshold \in Nat \ {0}

VARIABLES
    pc,             \* where poll_task is
    t,              \* time since tick_start
    avail,          \* ids with OT_SUPPORT_AVAILABLE, other than 0
    promoted,       \* ids with s_promote_until later than tick_start
    rr, slowRr,     \* the two cursors
    fails, healthy, \* s_boiler_link
    probe, phase,   \* where ot_catalog_discover is
    silent,         \* history: keepalives since the boiler last answered one
    missed          \* history: reads by its tier's round an id was passed over in

tickVars == <<pc, t>>
linkVars == <<fails, healthy, silent>>
roundVars == <<rr, slowRr, missed>>
bootVars == <<probe, phase, avail>>
pollVars == <<tickVars, linkVars, roundVars, bootVars, promoted>>

Deadline == Interval - Margin

PollTypeOK ==
    /\ pc \in {"keepalive", "hold", "write", "reads", "sleep"}
    /\ t \in Nat
    /\ avail \subseteq Readable
    /\ promoted \subseteq Readable
    /\ rr \in Ids /\ slowRr \in Ids
    /\ fails \in 0..Threshold /\ healthy \in BOOLEAN /\ silent \in 0..Threshold
    /\ probe \in 0..N /\ phase \in {"read", "classify", "echo"}
    /\ missed \in [Readable -> 0..N]

\* Just after ot_poll_start.  The catalog is empty, or as the cache had it.
PollInit ==
    /\ pc = "keepalive" /\ t = 0
    /\ avail \in SUBSET Readable
    /\ promoted = {}
    /\ rr = 1 /\ slowRr = 0
    /\ fails = 0 /\ healthy = TRUE /\ silent = 0
    /\ probe = 0 /\ phase = "read"
    /\ missed = [i \in Readable |-> 0]

Takes(d) == t' = t + d

-----------------------------------------------------------------------------
(* Keepalive, hold and write *)

\* Counters stop at Threshold: beyond it nothing depends on them.
Capped(n) == IF n < Threshold THEN n + 1 ELSE Threshold

\* ot_boiler_link_fsm_note.  OK and DATA-INVALID are answers.
Note(answered) ==
    IF answered
    THEN fails' = 0 /\ healthy' = TRUE
    ELSE fails' = Capped(fails) /\ healthy' = (healthy /\ fails' < Threshold)

\* do_status_keepalive.
Keepalive ==
    /\ pc = "keepalive"
    /\ \E d \in Durations : Takes(d)
    /\ \E answered \in BOOLEAN :
        /\ Note(answered)
        /\ silent' = IF answered THEN 0 ELSE Capped(silent)
    /\ pc' = "hold"
    /\ UNCHANGED <<roundVars, bootVars, promoted>>

\* apply_hold_ch.
Hold ==
    /\ pc = "hold"
    /\ UNCHANGED t \/ \E d \in Durations : Takes(d)
    /\ pc' = "write"
    /\ UNCHANGED <<linkVars, roundVars, bootVars, promoted>>

\* No write is queued, or one of id 0, which is dropped.
NothingToWrite ==
    /\ pc = "write"
    /\ pc' = "reads"
    /\ UNCHANGED <<t, linkVars, roundVars, bootVars, promoted>>

\* One queued write; an acknowledged one promotes its id.
Write(id) ==
    /\ pc = "write"
    /\ \E d \in Durations : Takes(d)
    /\ promoted' \in {promoted, promoted \cup {id}}
    /\ pc' = "reads"
    /\ UNCHANGED <<linkVars, roundVars, bootVars>>

-----------------------------------------------------------------------------
(* Reads *)

\* The first of S at or after start, going round.
Dist(start, id) == IF id >= start THEN id - start ELSE id + N - start
From(start, S) == CHOOSE id \in S : \A j \in S : Dist(start, id) <= Dist(start, j)

Successor(id) == (id + 1) % N

HotIds == promoted \cap avail
FastIds == avail \cap Fast
SlowIds == avail \ Fast

\* A read of id, if it is OK and brings a new value, promotes it.
Read(id) ==
    /\ \E d \in Durations : Takes(d)
    /\ promoted' \in {promoted, promoted \cup {id}}
    /\ UNCHANGED <<pc, linkVars, bootVars>>

PassedOver(id, S) ==
    missed' = [i \in Readable |->
                 IF i = id THEN 0
                 ELSE IF i \in S /\ missed[i] < N THEN missed[i] + 1
                 ELSE missed[i]]

\* Mutant of MoreReads: the budget of the tick is not looked at.
MoreReadsAlways == pc = "reads"

MoreReads == pc = "reads" /\ t < Deadline

\* The branches of pick_next_read: the lowest promoted id, else the fast
\* round, else the slow round.
ReadPromoted ==
    /\ MoreReads
    /\ HotIds # {}
    /\ Read(From(0, HotIds))
    /\ UNCHANGED roundVars

ReadFast ==
    /\ MoreReads
    /\ HotIds = {} /\ FastIds # {}
    /\ LET id == From(rr, FastIds) IN
        /\ Read(id)
        /\ rr' = Successor(id)
        /\ PassedOver(id, FastIds)
    /\ UNCHANGED slowRr

\* Mutant of ReadSlow: the cursor stays where it is.
ReadSlowSame ==
    /\ MoreReads
    /\ HotIds = {} /\ FastIds = {} /\ SlowIds # {}
    /\ LET id == From(slowRr, SlowIds) IN
        /\ Read(id)
        /\ PassedOver(id, SlowIds)
    /\ UNCHANGED <<rr, slowRr>>

ReadSlow ==
    /\ MoreReads
    /\ HotIds = {} /\ FastIds = {} /\ SlowIds # {}
    /\ LET id == From(slowRr, SlowIds) IN
        /\ Read(id)
        /\ slowRr' = Successor(id)
        /\ PassedOver(id, SlowIds)
    /\ UNCHANGED rr

\* A tick begins, `late` after it was due; some promotions have run out.
NewTick(late) ==
    /\ pc' = "keepalive"
    /\ t' = late
    /\ promoted' \in SUBSET promoted

\* The reads are over: sleep for the rest of the tick, if there is a rest.
EndReads ==
    /\ pc = "reads"
    /\ t >= Deadline \/ avail = {}
    /\ IF t < Interval
       THEN pc' = "sleep" /\ UNCHANGED <<t, promoted>>
       ELSE NewTick(0)
    /\ UNCHANGED <<linkVars, roundVars, bootVars>>

\* The sleep ends on time, but the bus may still be taken.
Wake ==
    /\ pc = "sleep"
    /\ t >= Interval
    /\ NewTick(t - Interval)
    /\ UNCHANGED <<linkVars, roundVars, bootVars>>

PollLoop ==
    \/ Keepalive \/ Hold \/ NothingToWrite
    \/ \E id \in Readable : Write(id)
    \/ ReadPromoted \/ ReadFast \/ ReadSlow
    \/ EndReads \/ Wake

-----------------------------------------------------------------------------
(* ot_catalog_discover *)

Sleeping == pc = "sleep" /\ t < Interval
Discovered == probe = N

\* Time passes in the sleep.
Idle ==
    /\ Sleeping
    /\ Takes(1)
    /\ UNCHANGED <<pc, linkVars, roundVars, bootVars, promoted>>

\* The read of an id, or the write of what was read back to it.
ProbeExchange ==
    /\ Sleeping
    /\ ~Discovered
    /\ \E d \in Durations : Takes(d)
    /\ \/ /\ phase = "read"
          /\ phase' = "classify"
          /\ UNCHANGED probe
       \/ /\ phase = "echo"
          /\ phase' = "read"
          /\ probe' = probe + 1
    /\ UNCHANGED <<pc, linkVars, roundVars, avail, promoted>>

\* Mutant of Classify: an id without an answer is asked again.
ClassifyAgain ==
    /\ phase = "classify"
    /\ \E found \in BOOLEAN :
        /\ avail' = IF found /\ probe # 0 THEN avail \cup {probe}
                    ELSE avail \ {probe}
        /\ \/ found /\ probe \in Echoed /\ phase' = "echo" /\ UNCHANGED probe
           \/ phase' = "read" /\ probe' = IF found THEN probe + 1 ELSE probe
    /\ missed' = [i \in Readable |-> 0]
    /\ UNCHANGED <<tickVars, linkVars, rr, slowRr, promoted>>

\* ot_catalog_classify_read, after the mutex was given back.  The rounds have
\* other members from here on.  An answer without a value is not echoed.
Classify ==
    /\ phase = "classify"
    /\ \E found \in BOOLEAN :
        /\ avail' = IF found /\ probe # 0 THEN avail \cup {probe}
                    ELSE avail \ {probe}
        /\ \/ found /\ probe \in Echoed /\ phase' = "echo" /\ UNCHANGED probe
           \/ phase' = "read" /\ probe' = probe + 1
    /\ missed' = [i \in Readable |-> 0]
    /\ UNCHANGED <<tickVars, linkVars, rr, slowRr, promoted>>

Discover == ProbeExchange \/ Classify

PollNext == PollLoop \/ Idle \/ Discover

PollSpec == PollInit /\ [][PollNext]_pollVars

\* ot_poll runs forever.  app_main, ready with nothing above it running, gets
\* the bus in the sleep of ot_poll, if there is one again and again.
PollFairness ==
    /\ WF_pollVars(PollLoop)
    /\ WF_pollVars(Idle)
    /\ WF_pollVars(Classify)
    /\ SF_pollVars(ProbeExchange)
PollFairSpec == PollSpec /\ PollFairness

-----------------------------------------------------------------------------
(* Properties *)

\* The four exchanges that can precede the reads, or the last one begun before
\* the tick was over.
MaxTick == IF 4 * Longest >= Interval + Longest THEN 4 * Longest - 1
                                                ELSE Interval + Longest - 1

\* ot_poll.c: "Keepalive first -- never dropped".  However reads, writes, the
\* hold and the discovery share the bus, no tick is longer than this, so that
\* the boiler hears from its master in time.
KeepaliveOnTime == t <= MaxTick

\* Of the ids that one round serves none is passed over: between two reads of
\* it every other one is read at most once, wherever promotions interrupt the
\* round.  Rounds are compared between two changes of the catalog.
RoundsAreFair ==
    /\ \A i \in FastIds : missed[i] < Cardinality(FastIds)
    /\ \A i \in SlowIds : missed[i] < Cardinality(SlowIds)

\* v8_boiler_link.md: the link is unhealthy from the third keepalive in a row
\* that the boiler did not answer until the next one it does; the reads and the
\* discovery between them do not count.
HealthFollowsKeepalive == healthy <=> silent < Threshold

\* The discovery gets to its end, so that app_main can go on, unless ot_poll
\* uses up every tick from some time on.
DiscoveryEnds == []<>Sleeping => <>Discovered
=============================================================================
