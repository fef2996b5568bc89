----------------------------- MODULE WritePath ------------------------------
(***************************************************************************)
(* A set command from MQTT to the boiler and back: the esp-mqtt task runs  *)
(* mqtt_commands_handle, the ot_poll task owns the bus (keepalive, held    *)
(* setpoint, one queued write per cycle) and reports each completion to    *)
(* mqtt_commands, and the failsafe task takes the CH setpoint over when    *)
(* the link is lost.                                                       *)
(*                                                                         *)
(* Grain.  ot_poll and esp-mqtt have priority 5, failsafe has 4.  The      *)
(* inbound handler neither blocks nor is preempted by failsafe, and ot_poll *)
(* sleeps during every exchange, so the handler is one action and each     *)
(* exchange is two, its start and its completion with the callback.  The   *)
(* failsafe task can be preempted between any two of its stores: each of   *)
(* its shared accesses is an action of its own.                            *)
(*                                                                         *)
(* Data.  A setpoint is the float of a payload; Encode is what             *)
(* ot_codec_float_to_f88 and its siblings put on the wire for it.  Below   *)
(* and Above hold the setpoints the range check finds under the minimum    *)
(* and over the maximum; a payload "nan" is in neither.  Of the master     *)
(* Status flags only bit 0, CH enable, is ever written.                    *)
(***************************************************************************)
EXTENDS Integers, Sequences

CONSTANTS
    WriteIds,    \* ids the catalog has as AVAILABLE and writable, without 0
    ChId,        \* id 1, the CH setpoint
    Setpoints,   \* what strtof makes of a payload
    Zero,        \* 0.0, the initial and the cleared s_hold_ch_c
    NoSetpoint,  \* has_last_accepted_ch is false
    Raws,        \* 16-bit words on the wire
    Encode,      \* [Setpoints -> Raws]
    Below,       \* [WriteIds -> SUBSET Setpoints], v < b.min_c
    Above,       \* [WriteIds -> SUBSET Setpoints], v > b.max_c
    Within,      \* [WriteIds -> SUBSET Setpoints], the rest that are numbers
    QueueLen     \* capacity of s_write_q

ASSUME WritePathAssumption ==
    /\ ChId \in WriteIds
    /\ Zero \in Setpoints
    /\ NoSetpoint \notin Setpoints
    /\ Encode \in [Setpoints -> Raws]
    /\ Below \in [WriteIds -> SUBSET Setpoints]
    /\ Above \in [WriteIds -> SUBSET Setpoints]
    /\ Within \in [WriteIds -> SUBSET Setpoints]
    /\ QueueLen \in Nat \ {0}

VARIABLES
    pending, pendingVal,     \* s_pending[], s_pending_f[]
    chPending, chWanted,     \* s_status_ch_pending, s_pending_f[0] > 0.5
    chBefore,                \* bit 0 of s_master_hb_before_ch
    chAccepted,              \* the CH mode last published as accepted
    queue,                   \* s_write_q
    masterCh,                \* bit 0 of s_master_hb
    holdOn, holdVal,         \* s_hold_ch, s_hold_ch_c
    poll, frame,             \* where ot_poll is, what it has on the bus
    boiler,                  \* external: the boiler's CH setpoint register
    lastCh,                  \* last_accepted_ch_setpoint_c in NVS
    active,                  \* the fail-safe is ACTIVE, writes are refused
    fs, live,                \* where failsafe_task is, its copy of lastCh
    crossed                  \* history: some command came before the last one
                             \* of its id was answered

cmdVars  == <<pending, pendingVal, chPending, chWanted, chBefore, chAccepted>>
holdVars == <<holdOn, holdVal>>
busVars  == <<poll, frame, boiler>>
fsVars   == <<active, fs, live>>
vars == <<cmdVars, queue, masterCh, holdVars, busVars, lastCh, fsVars, crossed>>

Entries == [id : WriteIds, val : Setpoints, raw : Raws]
NoFrame == [kind |-> "none"]
StatusFrame(ch) == [kind |-> "status", ch |-> ch]
HoldFrame(v) == [kind |-> "hold", val |-> v, raw |-> Encode[v]]
WriteFrame(e) == [kind |-> "write", id |-> e.id, val |-> e.val, raw |-> e.raw]

Frames ==
    {NoFrame}
      \cup {StatusFrame(ch) : ch \in BOOLEAN}
      \cup {HoldFrame(v) : v \in Setpoints}
      \cup {WriteFrame(e) : e \in Entries}

\* ot_exchange_result_t as its readers tell it apart: READ-ACK or WRITE-ACK,
\* DATA-INVALID, and every error and timeout.
Results == {"ok", "invalid", "fail"}
StatusAnswered == {"ok", "invalid"}

TypeOK ==
    /\ pending \in [WriteIds -> BOOLEAN]
    /\ pendingVal \in [WriteIds -> Setpoints]
    /\ chPending \in BOOLEAN /\ chWanted \in BOOLEAN
    /\ chBefore \in BOOLEAN /\ chAccepted \in BOOLEAN
    /\ queue \in Seq(Entries) /\ Len(queue) <= QueueLen
    /\ masterCh \in BOOLEAN
    /\ holdOn \in BOOLEAN /\ holdVal \in Setpoints
    /\ poll \in {"keepalive", "status", "hold", "holding", "write", "writing"}
    /\ frame \in Frames
    /\ boiler \in Raws
    /\ lastCh \in Setpoints \cup {NoSetpoint}
    /\ active \in BOOLEAN
    /\ fs \in {"idle", "read", "enable", "value", "disable", "clear"}
    /\ live \in Setpoints \cup {NoSetpoint}
    /\ crossed \in BOOLEAN

Init ==
    /\ pending = [id \in WriteIds |-> FALSE]
    /\ pendingVal = [id \in WriteIds |-> Zero]
    /\ chPending = FALSE /\ chWanted = FALSE
    /\ chBefore = FALSE /\ chAccepted = FALSE
    /\ queue = <<>>
    /\ masterCh = FALSE
    /\ holdOn = FALSE /\ holdVal = Zero
    /\ poll = "keepalive" /\ frame = NoFrame
    /\ boiler = Encode[Zero]
    /\ lastCh = NoSetpoint
    /\ active = FALSE
    /\ fs = "idle" /\ live = NoSetpoint
    /\ crossed = FALSE

-----------------------------------------------------------------------------
(* esp-mqtt task: on_mqtt_message with a set topic.  A rejected command    *)
(* publishes a rejection and changes nothing else.                         *)

\* Writes of id that the boiler has not answered yet.
OnBus(id) == frame.kind = "write" /\ frame.id = id
Queued(id) == \E i \in 1..Len(queue) : queue[i].id = id

\* Mutant of OutOfRange: only the maximum is checked.
OverMaximum(id, v) == v \in Above[id]

OutOfRange(id, v) == v \in Below[id] \/ v \in Above[id]

\* Mutant of HandleWrite: the fail-safe is not noticed.
HandleWriteUngated(id, v) ==
    /\ ~OutOfRange(id, v)
    /\ Len(queue) < QueueLen
    /\ queue' = Append(queue, [id |-> id, val |-> v, raw |-> Encode[v]])
    /\ pending' = [pending EXCEPT ![id] = TRUE]
    /\ pendingVal' = [pendingVal EXCEPT ![id] = v]
    /\ crossed' = (crossed \/ OnBus(id) \/ Queued(id))
    /\ UNCHANGED <<chPending, chWanted, chBefore, chAccepted, masterCh,
                   holdVars, busVars, lastCh, fsVars>>

HandleWrite(id, v) ==
    /\ ~active
    /\ ~OutOfRange(id, v)
    /\ Len(queue) < QueueLen
    /\ queue' = Append(queue, [id |-> id, val |-> v, raw |-> Encode[v]])
    /\ pending' = [pending EXCEPT ![id] = TRUE]
    /\ pendingVal' = [pendingVal EXCEPT ![id] = v]
    /\ crossed' = (crossed \/ OnBus(id) \/ Queued(id))
    /\ UNCHANGED <<chPending, chWanted, chBefore, chAccepted, masterCh,
                   holdVars, busVars, lastCh, fsVars>>

HandleChEnable(on) ==
    /\ ~active
    /\ chBefore' = masterCh
    /\ masterCh' = on
    /\ chWanted' = on
    /\ chPending' = TRUE
    /\ crossed' = (crossed \/ chPending)
    /\ UNCHANGED <<pending, pendingVal, chAccepted, queue, holdVars, busVars,
                   lastCh, fsVars>>

Handle ==
    \/ \E id \in WriteIds, v \in Setpoints : HandleWrite(id, v)
    \/ \E on \in BOOLEAN : HandleChEnable(on)

-----------------------------------------------------------------------------
(* ot_poll task: one cycle of poll_task.                                   *)

\* A request that gets no proper answer may have reached the boiler.
Taken(old, new, r) == IF r = "ok" THEN {new} ELSE {old, new}

StartKeepalive ==
    /\ poll = "keepalive"
    /\ frame' = StatusFrame(masterCh)
    /\ poll' = "status"
    /\ UNCHANGED <<cmdVars, queue, masterCh, holdVars, boiler,
                   lastCh, fsVars, crossed>>

\* Mutant of StatusComplete: a failed CH enable does not restore the flags.
StatusCompleteNoRestore(r) ==
    /\ chPending' = FALSE
    /\ chAccepted' = IF chPending /\ r \in StatusAnswered
                     THEN chWanted ELSE chAccepted
    /\ UNCHANGED <<pending, pendingVal, chWanted, chBefore, masterCh>>

\* on_ot_status_complete: decide a pending CH enable.
StatusComplete(r) ==
    \/ /\ ~chPending
       /\ UNCHANGED <<cmdVars, masterCh>>
    \/ /\ chPending
       /\ r \in StatusAnswered
       /\ chPending' = FALSE
       /\ chAccepted' = chWanted
       /\ UNCHANGED <<pending, pendingVal, chWanted, chBefore, masterCh>>
    \/ /\ chPending
       /\ r \notin StatusAnswered
       /\ chPending' = FALSE
       /\ masterCh' = chBefore
       /\ UNCHANGED <<pending, pendingVal, chWanted, chBefore, chAccepted>>

FinishKeepalive(r) ==
    /\ poll = "status"
    /\ StatusComplete(r)
    /\ frame' = NoFrame
    /\ poll' = "hold"
    /\ UNCHANGED <<queue, holdVars, boiler, lastCh, fsVars, crossed>>

StartHold ==
    /\ poll = "hold"
    /\ holdOn
    /\ frame' = HoldFrame(holdVal)
    /\ poll' = "holding"
    /\ UNCHANGED <<cmdVars, queue, masterCh, holdVars, boiler,
                   lastCh, fsVars, crossed>>

SkipHold ==
    /\ poll = "hold"
    /\ ~holdOn
    /\ poll' = "write"
    /\ UNCHANGED <<cmdVars, queue, masterCh, holdVars, frame, boiler,
                   lastCh, fsVars, crossed>>

FinishHold(r) ==
    /\ poll = "holding"
    /\ boiler' \in Taken(boiler, frame.raw, r)
    /\ frame' = NoFrame
    /\ poll' = "write"
    /\ UNCHANGED <<cmdVars, queue, masterCh, holdVars, lastCh, fsVars, crossed>>

StartWrite ==
    /\ poll = "write"
    /\ queue # <<>>
    /\ queue' = Tail(queue)
    /\ frame' = WriteFrame(Head(queue))
    /\ poll' = "writing"
    /\ UNCHANGED <<cmdVars, masterCh, holdVars, boiler, lastCh, fsVars, crossed>>

NoWrite ==
    /\ poll = "write"
    /\ queue = <<>>
    /\ poll' = "keepalive"
    /\ UNCHANGED <<cmdVars, queue, masterCh, holdVars, frame, boiler,
                   lastCh, fsVars, crossed>>

\* Mutants of WriteComplete: the result is ignored, a failure leaves the
\* command pending.
WriteCompleteAny(id, r) ==
    /\ pending' = [pending EXCEPT ![id] = FALSE]
    /\ lastCh' = IF pending[id] /\ id = ChId THEN pendingVal[id] ELSE lastCh

WriteCompleteOnlyOk(id, r) ==
    /\ pending' = [pending EXCEPT ![id] = pending[id] /\ r # "ok"]
    /\ lastCh' = IF pending[id] /\ r = "ok" /\ id = ChId
                 THEN pendingVal[id] ELSE lastCh

\* mqtt_commands_on_write_complete: it is told the id, not which write of it.
WriteComplete(id, r) ==
    /\ pending' = [pending EXCEPT ![id] = FALSE]
    /\ lastCh' = IF pending[id] /\ r = "ok" /\ id = ChId
                 THEN pendingVal[id] ELSE lastCh

FinishWrite(r) ==
    /\ poll = "writing"
    /\ boiler' \in IF frame.id = ChId THEN Taken(boiler, frame.raw, r)
                                    ELSE {boiler}
    /\ WriteComplete(frame.id, r)
    /\ frame' = NoFrame
    /\ poll' = "keepalive"
    /\ UNCHANGED <<pendingVal, chPending, chWanted, chBefore, chAccepted, queue,
                   masterCh, holdVars, fsVars, crossed>>

PollTask ==
    \/ StartKeepalive \/ StartHold \/ SkipHold \/ StartWrite \/ NoWrite
    \/ \E r \in Results : FinishKeepalive(r) \/ FinishHold(r) \/ FinishWrite(r)

-----------------------------------------------------------------------------
(* failsafe_task: what it does to the write path when failsafe_on_link     *)
(* (module Failsafe) turns ACTIVE and back.                                *)

GoActive ==
    /\ fs = "idle" /\ ~active
    /\ active' = TRUE
    /\ fs' = "read"
    /\ UNCHANGED <<cmdVars, queue, masterCh, holdVars, busVars, lastCh, live,
                   crossed>>

ReadLive ==
    /\ fs = "read"
    /\ live' = lastCh
    /\ fs' = IF lastCh = NoSetpoint THEN "idle" ELSE "enable"
    /\ UNCHANGED <<cmdVars, queue, masterCh, holdVars, busVars, lastCh, active,
                   crossed>>

\* ot_poll_set_hold_ch_setpoint(true, live): two stores.
EnableHold ==
    /\ fs = "enable"
    /\ holdOn' = TRUE
    /\ fs' = "value"
    /\ UNCHANGED <<cmdVars, queue, masterCh, holdVal, busVars, lastCh, active, live,
                   crossed>>

StoreHeld ==
    /\ fs = "value"
    /\ holdVal' = live
    /\ fs' = "idle"
    /\ live' = NoSetpoint  \* end of its scope
    /\ UNCHANGED <<cmdVars, queue, masterCh, holdOn, busVars, lastCh, active,
                   crossed>>

GoIdle ==
    /\ fs = "idle" /\ active
    /\ active' = FALSE
    /\ fs' = "disable"
    /\ UNCHANGED <<cmdVars, queue, masterCh, holdVars, busVars, lastCh, live,
                   crossed>>

\* ot_poll_set_hold_ch_setpoint(false, 0): two stores.
DisableHold ==
    /\ fs = "disable"
    /\ holdOn' = FALSE
    /\ fs' = "clear"
    /\ UNCHANGED <<cmdVars, queue, masterCh, holdVal, busVars, lastCh, active, live,
                   crossed>>

ClearHeld ==
    /\ fs = "clear"
    /\ holdVal' = Zero
    /\ fs' = "idle"
    /\ UNCHANGED <<cmdVars, queue, masterCh, holdOn, busVars, lastCh, active, live,
                   crossed>>

FailsafeStores == ReadLive \/ EnableHold \/ StoreHeld \/ DisableHold \/ ClearHeld
FailsafeTask == GoActive \/ GoIdle \/ FailsafeStores

-----------------------------------------------------------------------------
\* A restart loses everything but NVS and what the boiler has taken over.
Restart ==
    /\ pending' = [id \in WriteIds |-> FALSE]
    /\ pendingVal' = [id \in WriteIds |-> Zero]
    /\ chPending' = FALSE /\ chWanted' = FALSE
    /\ chBefore' = FALSE /\ chAccepted' = FALSE
    /\ queue' = <<>>
    /\ masterCh' = FALSE
    /\ holdOn' = FALSE /\ holdVal' = Zero
    /\ poll' = "keepalive" /\ frame' = NoFrame
    /\ active' = FALSE
    /\ fs' = "idle" /\ live' = NoSetpoint
    /\ crossed' = FALSE
    /\ UNCHANGED <<boiler, lastCh>>

Next == Handle \/ PollTask \/ FailsafeTask \/ Restart

Spec == Init /\ [][Next]_vars

\* Both loops run forever; the boiler answers a held setpoint now and then.
Fairness ==
    /\ WF_vars(PollTask)
    /\ WF_vars(FailsafeStores)
    /\ SF_vars(FinishHold("ok"))
FairSpec == Spec /\ Fairness

-----------------------------------------------------------------------------
(* Properties *)

\* Payloads that are numbers: the range check sees each of them on one side.
NumbersOnly ==
    \A id \in WriteIds :
        Setpoints = Below[id] \cup Above[id] \cup Within[id]

\* Nothing outside the bounds gets to the boiler by any route: as a queued
\* write, or through s_pending_f, NVS, the failsafe task's copy and the held
\* setpoint, even across restarts.  0 degrees, which the fail-safe's hold
\* starts from, is the one exception: its enable is stored before its value.
OnlyCheckedSetpoints ==
    /\ frame.kind = "write" => frame.val \in Within[frame.id]
    /\ frame.kind = "hold" => frame.val \in Within[ChId] \cup {Zero}
    /\ lastCh \in Within[ChId] \cup {NoSetpoint}

\* A command waiting for its answer is the newest one of its id, in the queue
\* or on the bus: none waits for an answer that cannot come, and the value
\* kept for the answer is not an older command's.
NewestIn(q, id, v) ==
    \E i \in 1..Len(q) :
        /\ q[i].id = id
        /\ q[i].val = v
        /\ \A j \in (i + 1)..Len(q) : q[j].id # id

PendingIsNewest ==
    \A id \in WriteIds : pending[id] =>
        \/ NewestIn(queue, id, pendingVal[id])
        \/ OnBus(id) /\ frame.val = pendingVal[id] /\ ~Queued(id)

\* The stored setpoint changes only to one whose write the boiler has just
\* acknowledged, as long as commands of one id do not overlap.
Acknowledged(v) ==
    /\ OnBus(ChId)
    /\ frame.raw = Encode[v]
    /\ boiler' = frame.raw

LastChInTurn == [][(lastCh' # lastCh /\ ~crossed) => Acknowledged(lastCh')]_vars

\* mqtt_commands.h: "On success -> ACCEPTED (and NVS last-CH for id 1); on bus
\* failure -> OT_FAILED (no state change)", of any commands.
LastChWasAcknowledged == [][lastCh' # lastCh => Acknowledged(lastCh')]_vars

\* mqtt_commands.h: "Failure -> OT_FAILED + ot/0/rejection; master flags
\* restored."  With no CH enable open, the master sends what was accepted last,
\* as long as CH enables do not overlap.
MasterFollowsAccepted == (~chPending /\ ~crossed) => masterCh = chAccepted

\* Every queued command is answered, however many more arrive.
QueuedIsAnswered ==
    /\ \A id \in WriteIds : pending[id] ~> ~pending[id]
    /\ chPending ~> ~chPending

\* If the fail-safe stays ACTIVE with a setpoint held, the boiler ends up with
\* that setpoint whatever was still queued.
HoldPrevails ==
    <>[](active /\ holdOn) => <>[](boiler = Encode[holdVal])
=============================================================================
