------------------------------ MODULE BusProofs -------------------------------
(***************************************************************************)
(* What the master does on the bus: WritePath in the first part,           *)
(* PollSchedule in the second.  Neither needs a fact of the other.         *)
(*                                                                         *)
(* WritePath, for every set of ids, setpoints, bounds and every queue      *)
(* length.  OnlyCheckedSetpoints is not inductive: what reaches the boiler *)
(* passes through the queue, s_pending_f, NVS, the failsafe task's copy    *)
(* and the held value first.  Checked follows it through all of them.      *)
(* LastChInTurn needs all of PendingIsNewest, to know that the value kept  *)
(* for an answer is that of the write on the bus, and QueueInTurn, to know *)
(* that no other write of the id is on its way.                            *)
(*                                                                         *)
(* PollSchedule, for any catalog, timings and threshold.                   *)
(***************************************************************************)
EXTENDS WritePath, PollSchedule, WellFoundedInduction, FiniteSetTheorems, TLAPS

\* Every place a setpoint rests on its way to the boiler holds one that is in
\* bounds (or the 0.0 the held value is cleared to).
Checked ==
    /\ \A i \in 1..Len(queue) : queue[i].val \in Within[queue[i].id]
    /\ \A id \in WriteIds : pending[id] => pendingVal[id] \in Within[id]
    /\ live \in Within[ChId] \cup {NoSetpoint}
    /\ holdVal \in Within[ChId] \cup {Zero}

\* What ot_poll has on the bus is determined by where it is.
BusShape ==
    /\ poll \in {"keepalive", "hold", "write"} => frame = NoFrame
    /\ poll = "status" => \E c \in BOOLEAN : frame = StatusFrame(c)
    /\ poll = "holding" => \E v \in Setpoints : frame = HoldFrame(v)
    /\ poll = "writing" => \E e \in Entries : frame = WriteFrame(e)

\* The failsafe task gets past its read of NVS only with a setpoint in hand.
LiveInHand == fs \in {"enable", "value"} => live # NoSetpoint

IInv == TypeOK /\ BusShape /\ LiveInHand /\ Checked /\ OnlyCheckedSetpoints

\* The frames.
LEMMA FrameShapes ==
    /\ NoFrame \in Frames
    /\ \A c \in BOOLEAN : StatusFrame(c) \in Frames
    /\ \A v \in Setpoints : HoldFrame(v) \in Frames
    /\ \A e \in Entries : WriteFrame(e) \in Frames
BY DEF Frames

LEMMA FrameKinds ==
    /\ NoFrame.kind = "none"
    /\ \A c : StatusFrame(c).kind = "status" /\ StatusFrame(c).ch = c
    /\ \A v : /\ HoldFrame(v).kind = "hold"
              /\ HoldFrame(v).val = v
              /\ HoldFrame(v).raw = Encode[v]
    /\ \A e : /\ WriteFrame(e).kind = "write"
              /\ WriteFrame(e).id = e.id
              /\ WriteFrame(e).val = e.val
              /\ WriteFrame(e).raw = e.raw
BY DEF NoFrame, StatusFrame, HoldFrame, WriteFrame

LEMMA EncodeType == \A v \in Setpoints : Encode[v] \in Raws
BY WritePathAssumption

-----------------------------------------------------------------------------
(* Types. *)

LEMMA InitType == Init => TypeOK /\ BusShape
<1> SUFFICES ASSUME Init PROVE TypeOK /\ BusShape
  OBVIOUS
<1>1. /\ Encode[Zero] \in Raws
      /\ NoFrame \in Frames
      /\ <<>> \in Seq(Entries) /\ Len(<<>>) <= QueueLen
  BY WritePathAssumption, FrameShapes, EncodeType
<1>2. TypeOK
  BY <1>1, WritePathAssumption DEF Init, TypeOK
<1>3. BusShape
  BY DEF Init, BusShape
<1> QED BY <1>2, <1>3

\* A command leaves the types and the bus alone.
LEMMA HandleType ==
    ASSUME TypeOK, BusShape, Handle
    PROVE  TypeOK' /\ BusShape'
<1> USE WritePathAssumption
<1>1. ASSUME NEW id \in WriteIds, NEW v \in Setpoints, HandleWrite(id, v)
      PROVE  TypeOK' /\ BusShape'
  <2>1. [id |-> id, val |-> v, raw |-> Encode[v]] \in Entries
    BY EncodeType DEF Entries
  <2>2. queue' \in Seq(Entries) /\ Len(queue') <= QueueLen
    BY <1>1, <2>1 DEF HandleWrite, TypeOK
  <2>3. BusShape'
    BY <1>1 DEF HandleWrite, BusShape, busVars
  <2> QED
    BY <1>1, <2>2, <2>3
       DEF HandleWrite, TypeOK, busVars, holdVars, fsVars
<1>2. ASSUME NEW on \in BOOLEAN, HandleChEnable(on)
      PROVE  TypeOK' /\ BusShape'
  BY <1>2 DEF HandleChEnable, TypeOK, BusShape, busVars, holdVars, fsVars
<1> QED BY <1>1, <1>2 DEF Handle

LEMMA StartType ==
    ASSUME TypeOK, BusShape,
           StartKeepalive \/ StartHold \/ SkipHold \/ StartWrite \/ NoWrite
    PROVE  TypeOK' /\ BusShape'
<1> USE DEF cmdVars, holdVars, fsVars
<1>1. CASE StartKeepalive
  <2>1. frame' \in Frames /\ frame' = StatusFrame(masterCh)
    BY <1>1, FrameShapes DEF StartKeepalive, TypeOK
  <2> QED BY <1>1, <2>1 DEF StartKeepalive, TypeOK, BusShape
<1>2. CASE StartHold
  <2>1. frame' \in Frames /\ frame' = HoldFrame(holdVal)
    BY <1>2, FrameShapes DEF StartHold, TypeOK
  <2> QED BY <1>2, <2>1 DEF StartHold, TypeOK, BusShape
<1>3. CASE SkipHold \/ NoWrite
  BY <1>3 DEF SkipHold, NoWrite, TypeOK, BusShape
<1>4. CASE StartWrite
  <2>1. Head(queue) \in Entries /\ queue' \in Seq(Entries)
        /\ Len(queue') <= QueueLen
    BY <1>4, WritePathAssumption DEF StartWrite, TypeOK
  <2>2. frame' \in Frames /\ frame' = WriteFrame(Head(queue))
    BY <1>4, <2>1, FrameShapes DEF StartWrite
  <2> QED BY <1>4, <2>1, <2>2 DEF StartWrite, TypeOK, BusShape
<1> QED BY <1>1, <1>2, <1>3, <1>4

LEMMA FinishType ==
    ASSUME TypeOK, BusShape, NEW r \in Results,
           FinishKeepalive(r) \/ FinishHold(r) \/ FinishWrite(r)
    PROVE  TypeOK' /\ BusShape'
<1> USE DEF cmdVars, holdVars, fsVars
<1>0. NoFrame \in Frames
  BY FrameShapes
<1>1. CASE FinishKeepalive(r)
  <2>1. /\ chPending' \in BOOLEAN /\ chAccepted' \in BOOLEAN
        /\ masterCh' \in BOOLEAN
        /\ UNCHANGED <<pending, pendingVal, chWanted, chBefore>>
    BY <1>1 DEF FinishKeepalive, StatusComplete, TypeOK
  <2> QED BY <1>0, <1>1, <2>1 DEF FinishKeepalive, TypeOK, BusShape
<1>2. CASE FinishHold(r)
  <2>1. boiler' \in Raws
    <3>1. PICK v \in Setpoints : frame = HoldFrame(v)
      BY <1>2 DEF FinishHold, BusShape
    <3>2. frame.raw \in Raws
      BY <3>1, FrameKinds, EncodeType
    <3> QED BY <1>2, <3>2 DEF FinishHold, Taken, TypeOK
  <2> QED BY <1>0, <1>2, <2>1 DEF FinishHold, TypeOK, BusShape
<1>3. CASE FinishWrite(r)
  <2>0. PICK e \in Entries : frame = WriteFrame(e)
    BY <1>3 DEF FinishWrite, BusShape
  <2>1. frame.id \in WriteIds /\ frame.raw \in Raws
    BY <2>0, FrameKinds DEF Entries
  <2>2. boiler' \in Raws
    BY <1>3, <2>1 DEF FinishWrite, Taken, TypeOK
  <2>3. pending' \in [WriteIds -> BOOLEAN]
        /\ lastCh' \in Setpoints \cup {NoSetpoint}
    BY <1>3, <2>1 DEF FinishWrite, WriteComplete, TypeOK
  <2> QED BY <1>0, <1>3, <2>2, <2>3 DEF FinishWrite, TypeOK, BusShape
<1> QED BY <1>1, <1>2, <1>3

LEMMA FailsafeType ==
    ASSUME TypeOK, BusShape, LiveInHand, FailsafeTask
    PROVE  TypeOK' /\ BusShape'
<1> USE DEF FailsafeTask, FailsafeStores, GoActive, ReadLive, EnableHold,
            StoreHeld, GoIdle, DisableHold, ClearHeld
<1>1. /\ UNCHANGED <<pending, pendingVal, chPending, chWanted, chBefore,
                      chAccepted, queue, masterCh, poll, frame, boiler, lastCh>>
  BY DEF cmdVars, holdVars, busVars
<1>2. holdOn' \in BOOLEAN /\ active' \in BOOLEAN
  BY DEF TypeOK, holdVars
<1>3. holdVal' \in Setpoints
  BY WritePathAssumption DEF TypeOK, LiveInHand, holdVars
<1>4. /\ fs' \in {"idle", "read", "enable", "value", "disable", "clear"}
      /\ live' \in Setpoints \cup {NoSetpoint}
  BY DEF TypeOK
<1>5. TypeOK'
  BY <1>1, <1>2, <1>3, <1>4 DEF TypeOK
<1>6. BusShape'
  BY <1>1 DEF BusShape
<1> QED BY <1>5, <1>6

LEMMA RestartType ==
    ASSUME TypeOK, Restart
    PROVE  TypeOK' /\ BusShape'
<1>1. /\ NoFrame \in Frames
      /\ <<>> \in Seq(Entries) /\ Len(<<>>) <= QueueLen
  BY WritePathAssumption, FrameShapes
<1>2. TypeOK'
  BY <1>1, WritePathAssumption DEF Restart, TypeOK
<1>3. BusShape'
  BY DEF Restart, BusShape
<1> QED BY <1>2, <1>3

LEMMA LiveStep ==
    ASSUME LiveInHand, Next \/ UNCHANGED vars
    PROVE  LiveInHand'
<1> USE DEF LiveInHand, fsVars
<1>1. CASE Handle
  BY <1>1 DEF Handle, HandleWrite, HandleChEnable
<1>2. CASE PollTask
  BY <1>2 DEF PollTask, StartKeepalive, StartHold, SkipHold, StartWrite,
              NoWrite, FinishKeepalive, FinishHold, FinishWrite
<1>3. CASE FailsafeTask
  BY <1>3 DEF FailsafeTask, FailsafeStores, GoActive, ReadLive, EnableHold,
              StoreHeld, GoIdle, DisableHold, ClearHeld
<1>4. CASE Restart \/ UNCHANGED vars
  BY <1>4 DEF Restart, vars
<1> QED BY <1>1, <1>2, <1>3, <1>4 DEF Next

LEMMA TypeStep ==
    TypeOK /\ BusShape /\ LiveInHand /\ [Next]_vars
      => TypeOK' /\ BusShape' /\ LiveInHand'
<1> SUFFICES ASSUME TypeOK, BusShape, LiveInHand, [Next]_vars
             PROVE  TypeOK' /\ BusShape' /\ LiveInHand'
  OBVIOUS
<1>1. LiveInHand'
  BY LiveStep
<1>2. CASE Handle
  BY <1>1, <1>2, HandleType
<1>3. CASE PollTask
  BY <1>1, <1>3, StartType, FinishType DEF PollTask
<1>4. CASE FailsafeTask
  BY <1>1, <1>4, FailsafeType
<1>5. CASE Restart
  BY <1>1, <1>5, RestartType
<1>6. CASE UNCHANGED vars
  <2>1. TypeOK'
    BY <1>6 DEF TypeOK, vars, cmdVars, holdVars, busVars, fsVars
  <2>2. BusShape'
    BY <1>6 DEF BusShape, vars, busVars
  <2> QED BY <1>1, <2>1, <2>2
<1> QED BY <1>2, <1>3, <1>4, <1>5, <1>6 DEF Next

\* Every variable keeps its range: the queue its capacity, the bus and NVS the
\* setpoints of clients.
THEOREM TypeCorrect == Spec => []TypeOK
<1>1. Init => TypeOK /\ BusShape /\ LiveInHand
  BY InitType DEF Init, LiveInHand
<1> QED BY <1>1, TypeStep, PTL DEF Spec

-----------------------------------------------------------------------------
(* Bounds. *)

LEMMA InitChecked == Init => Checked /\ OnlyCheckedSetpoints
BY FrameKinds DEF Init, Checked, OnlyCheckedSetpoints

\* A command that passes the range check puts one value in bounds into the
\* queue and into s_pending_f.
LEMMA HandleChecked ==
    ASSUME NumbersOnly, IInv, Handle
    PROVE  Checked' /\ OnlyCheckedSetpoints'
<1> USE DEF IInv
<1>1. ASSUME NEW id \in WriteIds, NEW v \in Setpoints, HandleWrite(id, v)
      PROVE  Checked' /\ OnlyCheckedSetpoints'
  <2> DEFINE e == [id |-> id, val |-> v, raw |-> Encode[v]]
  <2>1. v \in Within[id]
    BY <1>1 DEF HandleWrite, OutOfRange, NumbersOnly
  <2>2. e \in Entries /\ e.id = id /\ e.val = v
    BY EncodeType DEF Entries
  <2>3. queue \in Seq(Entries) /\ queue' = Append(queue, e)
    BY <1>1 DEF HandleWrite, TypeOK
  <2> HIDE DEF e
  <2>4. \A i \in 1..Len(queue') : queue'[i].val \in Within[queue'[i].id]
    <3> SUFFICES ASSUME NEW i \in 1..Len(queue')
                 PROVE  queue'[i].val \in Within[queue'[i].id]
      OBVIOUS
    <3>1. CASE i \in 1..Len(queue)
      <4>1. queue'[i] = queue[i]
        BY <2>2, <2>3, <3>1
      <4> QED BY <3>1, <4>1 DEF Checked
    <3>2. CASE i = Len(queue) + 1
      <4>1. queue'[i] = e
        BY <2>2, <2>3, <3>2
      <4> QED BY <2>1, <2>2, <4>1
    <3> QED BY <2>2, <2>3, <3>1, <3>2
  <2>5. \A j \in WriteIds : pending'[j] => pendingVal'[j] \in Within[j]
    BY <1>1, <2>1 DEF HandleWrite, TypeOK, Checked
  <2> QED
    BY <1>1, <2>4, <2>5
       DEF HandleWrite, Checked, OnlyCheckedSetpoints, busVars, holdVars, fsVars
<1>2. ASSUME NEW on \in BOOLEAN, HandleChEnable(on)
      PROVE  Checked' /\ OnlyCheckedSetpoints'
  BY <1>2 DEF HandleChEnable, Checked, OnlyCheckedSetpoints, busVars, holdVars,
              fsVars
<1> QED BY <1>1, <1>2 DEF Handle

LEMMA StartChecked ==
    ASSUME IInv,
           StartKeepalive \/ StartHold \/ SkipHold \/ StartWrite \/ NoWrite
    PROVE  Checked' /\ OnlyCheckedSetpoints'
<1> USE DEF IInv, cmdVars, holdVars, fsVars
<1>1. CASE StartKeepalive
  <2>1. frame'.kind = "status"
    BY <1>1, FrameKinds DEF StartKeepalive, TypeOK
  <2> QED BY <1>1, <2>1 DEF StartKeepalive, Checked, OnlyCheckedSetpoints
<1>2. CASE StartHold
  <2>1. frame'.kind = "hold" /\ frame'.val = holdVal
    BY <1>2, FrameKinds DEF StartHold
  <2> QED BY <1>2, <2>1 DEF StartHold, Checked, OnlyCheckedSetpoints
<1>3. CASE SkipHold \/ NoWrite
  BY <1>3 DEF SkipHold, NoWrite, Checked, OnlyCheckedSetpoints
<1>4. CASE StartWrite
  <2>1. /\ queue \in Seq(Entries) /\ queue # <<>> /\ queue' = Tail(queue)
        /\ Len(queue) \in Nat /\ Len(queue) >= 1
    BY <1>4 DEF StartWrite, TypeOK
  <2>2. /\ frame'.kind = "write" /\ frame'.id = queue[1].id
        /\ frame'.val = queue[1].val
    BY <1>4, <2>1, FrameKinds DEF StartWrite
  <2>3. frame'.val \in Within[frame'.id]
    BY <2>1, <2>2 DEF Checked
  <2>4. \A i \in 1..Len(queue') : queue'[i] = queue[i + 1] /\ i + 1 \in 1..Len(queue)
    BY <2>1
  <2>5. \A i \in 1..Len(queue') : queue'[i].val \in Within[queue'[i].id]
    BY <2>4 DEF Checked
  <2> QED
    BY <1>4, <2>2, <2>3, <2>5 DEF StartWrite, Checked, OnlyCheckedSetpoints
<1> QED BY <1>1, <1>2, <1>3, <1>4

LEMMA FinishChecked ==
    ASSUME IInv, NEW r \in Results,
           FinishKeepalive(r) \/ FinishHold(r) \/ FinishWrite(r)
    PROVE  Checked' /\ OnlyCheckedSetpoints'
<1> USE DEF IInv, cmdVars, holdVars, fsVars
<1>0. frame' = NoFrame /\ frame'.kind = "none"
  BY FrameKinds DEF FinishKeepalive, FinishHold, FinishWrite
<1>1. CASE FinishKeepalive(r)
  <2>1. UNCHANGED <<pending, pendingVal>>
    BY <1>1 DEF FinishKeepalive, StatusComplete
  <2> QED
    BY <1>0, <1>1, <2>1 DEF FinishKeepalive, Checked, OnlyCheckedSetpoints
<1>2. CASE FinishHold(r)
  BY <1>0, <1>2 DEF FinishHold, Checked, OnlyCheckedSetpoints
<1>3. CASE FinishWrite(r)
  <2>1. PICK e \in Entries : frame = WriteFrame(e)
    BY <1>3 DEF FinishWrite, BusShape
  <2>2. frame.id \in WriteIds
    BY <2>1, FrameKinds DEF Entries
  <2>3. \A j \in WriteIds : pending'[j] => pendingVal'[j] \in Within[j]
    BY <1>3, <2>2 DEF FinishWrite, WriteComplete, TypeOK, Checked
  <2>4. lastCh' \in Within[ChId] \cup {NoSetpoint}
    BY <1>3, WritePathAssumption
       DEF FinishWrite, WriteComplete, Checked, OnlyCheckedSetpoints
  <2> QED
    BY <1>0, <1>3, <2>3, <2>4 DEF FinishWrite, Checked, OnlyCheckedSetpoints
<1> QED BY <1>1, <1>2, <1>3

LEMMA FailsafeChecked ==
    ASSUME IInv, FailsafeTask
    PROVE  Checked' /\ OnlyCheckedSetpoints'
<1> USE DEF IInv, FailsafeTask, FailsafeStores, GoActive, ReadLive, EnableHold,
            StoreHeld, GoIdle, DisableHold, ClearHeld
<1>1. UNCHANGED <<pending, pendingVal, queue, frame, lastCh>>
  BY DEF cmdVars, holdVars, busVars
<1>2. live' \in Within[ChId] \cup {NoSetpoint}
  BY DEF Checked, OnlyCheckedSetpoints
<1>3. holdVal' \in Within[ChId] \cup {Zero}
  BY DEF Checked, LiveInHand, holdVars
<1> QED BY <1>1, <1>2, <1>3 DEF Checked, OnlyCheckedSetpoints

LEMMA RestartChecked ==
    ASSUME IInv, Restart
    PROVE  Checked' /\ OnlyCheckedSetpoints'
BY FrameKinds DEF IInv, Restart, Checked, OnlyCheckedSetpoints

\* No setpoint outside the bounds of its id is ever written to the boiler, and
\* none is ever stored as the one to hold, provided payloads are numbers.
THEOREM BoundsHold ==
    ASSUME NumbersOnly
    PROVE  Spec => []OnlyCheckedSetpoints
<1>1. Init => IInv
  BY InitType, InitChecked DEF IInv, Init, LiveInHand
<1>2. IInv /\ [Next]_vars => IInv'
  <2> SUFFICES ASSUME IInv, [Next]_vars PROVE IInv'
    OBVIOUS
  <2>1. TypeOK' /\ BusShape' /\ LiveInHand'
    BY TypeStep DEF IInv
  <2>2. Checked' /\ OnlyCheckedSetpoints'
    <3>1. CASE Handle
      BY <3>1, NumbersOnly, HandleChecked
    <3>2. CASE PollTask
      BY <3>2, StartChecked, FinishChecked DEF PollTask
    <3>3. CASE FailsafeTask
      BY <3>3, FailsafeChecked
    <3>4. CASE Restart
      BY <3>4, RestartChecked
    <3>5. CASE UNCHANGED vars
      BY <3>5 DEF IInv, Checked, OnlyCheckedSetpoints, vars, cmdVars, holdVars,
                  busVars, fsVars
    <3> QED BY <3>1, <3>2, <3>3, <3>4, <3>5 DEF Next
  <2> QED BY <2>1, <2>2 DEF IInv
<1>3. IInv => OnlyCheckedSetpoints
  BY DEF IInv
<1> QED BY <1>1, <1>2, <1>3, PTL DEF Spec

-----------------------------------------------------------------------------
(* Answers. *)

\* The write that leaves the head of the queue for the bus stays outstanding.
LEMMA StartNewest ==
    ASSUME TypeOK, BusShape, PendingIsNewest, StartWrite
    PROVE  PendingIsNewest'
<1>1. /\ queue \in Seq(Entries) /\ Len(queue) \in Nat /\ Len(queue) >= 1
      /\ queue' = Tail(queue)
      /\ UNCHANGED <<pending, pendingVal>>
  BY DEF StartWrite, TypeOK, cmdVars
<1>2. /\ frame'.kind = "write" /\ frame'.id = queue[1].id
      /\ frame'.val = queue[1].val
      /\ frame.kind = "none"
  BY <1>1, FrameKinds DEF StartWrite, BusShape
<1>3. /\ Len(queue') = Len(queue) - 1
      /\ \A i \in 1..Len(queue') : queue'[i] = queue[i + 1]
  BY <1>1
<1> SUFFICES ASSUME NEW id \in WriteIds, pending[id]
             PROVE  \/ NewestIn(queue', id, pendingVal[id])
                    \/ /\ frame'.kind = "write" /\ frame'.id = id
                       /\ frame'.val = pendingVal[id]
                       /\ ~\E i \in 1..Len(queue') : queue'[i].id = id
  BY <1>1 DEF PendingIsNewest, OnBus, Queued
<1>4. NewestIn(queue, id, pendingVal[id])
  BY <1>2 DEF PendingIsNewest, OnBus
<1>5. PICK i \in 1..Len(queue) :
        /\ queue[i].id = id
        /\ queue[i].val = pendingVal[id]
        /\ \A j \in (i + 1)..Len(queue) : queue[j].id # id
  BY <1>4 DEF NewestIn
<1>6. CASE i = 1
  <2>1. \A k \in 1..Len(queue') : queue'[k].id # id
    <3> SUFFICES ASSUME NEW k \in 1..Len(queue') PROVE queue'[k].id # id
      OBVIOUS
    <3>1. k + 1 \in (i + 1)..Len(queue) /\ queue'[k] = queue[k + 1]
      BY <1>1, <1>3, <1>6
    <3> QED BY <1>5, <3>1
  <2> QED BY <1>2, <1>5, <1>6, <2>1
<1>7. CASE i > 1
  <2>1. i - 1 \in 1..Len(queue') /\ queue'[i - 1] = queue[i]
    BY <1>1, <1>3, <1>7
  <2>2. \A j \in ((i - 1) + 1)..Len(queue') : queue'[j].id # id
    <3> SUFFICES ASSUME NEW j \in ((i - 1) + 1)..Len(queue')
                 PROVE  queue'[j].id # id
      OBVIOUS
    <3>1. j + 1 \in (i + 1)..Len(queue) /\ queue'[j] = queue[j + 1]
      BY <1>1, <1>3, <1>7
    <3> QED BY <1>5, <3>1
  <2> QED BY <1>5, <2>1, <2>2 DEF NewestIn
<1> QED BY <1>5, <1>6, <1>7

\* A new command is the newest of its id and disturbs no other id.
LEMMA HandleNewest ==
    ASSUME TypeOK, PendingIsNewest, NEW id \in WriteIds, NEW v \in Setpoints,
           HandleWrite(id, v)
    PROVE  PendingIsNewest'
<1> DEFINE e == [id |-> id, val |-> v, raw |-> Encode[v]]
<1>1. /\ e \in Entries /\ e.id = id /\ e.val = v
      /\ queue \in Seq(Entries) /\ Len(queue) \in Nat
      /\ queue' = Append(queue, e)
      /\ UNCHANGED frame
  BY EncodeType DEF HandleWrite, TypeOK, Entries, busVars
<1> HIDE DEF e
<1>2. /\ Len(queue') = Len(queue) + 1
      /\ queue'[Len(queue) + 1] = e
      /\ \A i \in 1..Len(queue) : queue'[i] = queue[i]
  BY <1>1
<1>3. ASSUME NEW k \in WriteIds, pending'[k]
      PROVE  \/ NewestIn(queue', k, pendingVal'[k])
             \/ /\ OnBus(k)' /\ frame'.val = pendingVal'[k] /\ ~Queued(k)'
  <2>1. CASE k = id
    <3>1. pendingVal'[k] = v
      BY <2>1 DEF HandleWrite, TypeOK
    <3>2. NewestIn(queue', k, v)
      BY <1>1, <1>2, <2>1 DEF NewestIn
    <3> QED BY <3>1, <3>2
  <2>2. CASE k # id
    <3>1. pending[k] /\ pendingVal'[k] = pendingVal[k]
      BY <1>3, <2>2 DEF HandleWrite, TypeOK
    <3>2. CASE NewestIn(queue, k, pendingVal[k])
      <4>1. PICK i \in 1..Len(queue) :
              /\ queue[i].id = k
              /\ queue[i].val = pendingVal[k]
              /\ \A j \in (i + 1)..Len(queue) : queue[j].id # k
        BY <3>2 DEF NewestIn
      <4>2. i \in 1..Len(queue') /\ queue'[i] = queue[i]
        BY <1>1, <1>2
      <4>3. \A j \in (i + 1)..Len(queue') : queue'[j].id # k
        <5> SUFFICES ASSUME NEW j \in (i + 1)..Len(queue')
                     PROVE  queue'[j].id # k
          OBVIOUS
        <5>1. CASE j = Len(queue) + 1
          BY <1>1, <1>2, <2>2, <5>1
        <5>2. CASE j # Len(queue) + 1
          <6>1. j \in (i + 1)..Len(queue) /\ j \in 1..Len(queue)
            BY <1>1, <1>2, <5>2
          <6> QED BY <1>2, <4>1, <6>1
        <5> QED BY <5>1, <5>2
      <4> QED BY <3>1, <4>1, <4>2, <4>3 DEF NewestIn
    <3>3. CASE OnBus(k) /\ frame.val = pendingVal[k] /\ ~Queued(k)
      <4>1. \A i \in 1..Len(queue') : queue'[i].id # k
        <5> SUFFICES ASSUME NEW i \in 1..Len(queue') PROVE queue'[i].id # k
          OBVIOUS
        <5>1. CASE i = Len(queue) + 1
          BY <1>1, <1>2, <2>2, <5>1
        <5>2. CASE i # Len(queue) + 1
          <6>1. i \in 1..Len(queue)
            BY <1>1, <1>2, <5>2
          <6> QED BY <1>2, <3>3, <6>1 DEF Queued
        <5> QED BY <5>1, <5>2
      <4> QED BY <1>1, <3>1, <3>3, <4>1 DEF OnBus, Queued
    <3> QED BY <3>1, <3>2, <3>3 DEF PendingIsNewest
  <2> QED BY <2>1, <2>2
<1> QED BY <1>3 DEF PendingIsNewest

\* An answered write is no longer pending, and the bus is free again.
LEMMA FinishNewest ==
    ASSUME TypeOK, BusShape, PendingIsNewest, NEW r \in Results, FinishWrite(r)
    PROVE  PendingIsNewest'
<1>1. PICK e \in Entries : frame = WriteFrame(e)
  BY DEF FinishWrite, BusShape
<1>2. /\ frame.kind = "write" /\ frame.id \in WriteIds
      /\ UNCHANGED <<queue, pendingVal>>
      /\ pending' = [pending EXCEPT ![frame.id] = FALSE]
  BY <1>1, FrameKinds DEF FinishWrite, WriteComplete, Entries
<1> SUFFICES ASSUME NEW k \in WriteIds, pending'[k]
             PROVE  NewestIn(queue, k, pendingVal[k])
  BY <1>2 DEF PendingIsNewest
<1>3. pending[k] /\ k # frame.id
  BY <1>2 DEF TypeOK
<1> QED BY <1>3 DEF PendingIsNewest, OnBus

\* No other step touches a pending command, the queue or a write on the bus.
LEMMA NewestKept ==
    ASSUME PendingIsNewest,
           UNCHANGED <<pending, pendingVal, queue>>,
           frame.kind # "write" \/ frame' = frame
    PROVE  PendingIsNewest'
BY DEF PendingIsNewest, OnBus, Queued, NewestIn

LEMMA NewestStep ==
    ASSUME TypeOK, BusShape, PendingIsNewest, [Next]_vars
    PROVE  PendingIsNewest'
<1>1. CASE Handle
  <2>1. ASSUME NEW on \in BOOLEAN, HandleChEnable(on)
        PROVE  PendingIsNewest'
    BY <2>1, NewestKept DEF HandleChEnable, busVars
  <2> QED BY <1>1, <2>1, HandleNewest DEF Handle
<1>2. CASE StartWrite
  BY <1>2, StartNewest
<1>3. CASE StartKeepalive \/ StartHold \/ SkipHold \/ NoWrite
  <2>1. frame.kind # "write"
    BY <1>3, FrameKinds
       DEF StartKeepalive, StartHold, SkipHold, NoWrite, BusShape
  <2> QED
    BY <1>3, <2>1, NewestKept
       DEF StartKeepalive, StartHold, SkipHold, NoWrite, cmdVars
<1>4. ASSUME NEW r \in Results, FinishKeepalive(r) \/ FinishHold(r)
      PROVE  PendingIsNewest'
  <2>1. frame.kind # "write"
    BY <1>4, FrameKinds DEF FinishKeepalive, FinishHold, BusShape
  <2> QED
    BY <1>4, <2>1, NewestKept
       DEF FinishKeepalive, FinishHold, StatusComplete, cmdVars
<1>5. ASSUME NEW r \in Results, FinishWrite(r)
      PROVE  PendingIsNewest'
  BY <1>5, FinishNewest
<1>6. CASE FailsafeTask
  BY <1>6, NewestKept
     DEF FailsafeTask, FailsafeStores, GoActive, ReadLive, EnableHold,
         StoreHeld, GoIdle, DisableHold, ClearHeld, cmdVars, busVars
<1>7. CASE Restart
  BY <1>7 DEF Restart, PendingIsNewest
<1>8. CASE UNCHANGED vars
  BY <1>8, NewestKept DEF vars, cmdVars, busVars
<1> QED
  BY <1>1, <1>2, <1>3, <1>4, <1>5, <1>6, <1>7, <1>8 DEF Next, PollTask

\* Every pending command has a write of its own still to be answered, and no
\* later write of the same id follows it.
THEOREM EveryPendingIsOutstanding == Spec => []PendingIsNewest
<1>1. Init => TypeOK /\ BusShape /\ LiveInHand /\ PendingIsNewest
  BY InitType DEF Init, LiveInHand, PendingIsNewest
<1>2. TypeOK /\ BusShape /\ LiveInHand /\ PendingIsNewest /\ [Next]_vars
        => TypeOK' /\ BusShape' /\ LiveInHand' /\ PendingIsNewest'
  BY TypeStep, NewestStep
<1> QED BY <1>1, <1>2, PTL DEF Spec
-----------------------------------------------------------------------------
(* Commands in turn: what holds as long as no command overlaps the last one *)
(* of its id.                                                               *)

\* While CH enables do not overlap, the flags to restore are the accepted ones
\* and the flags on the way are the wanted ones.
FlagsInTurn ==
    ~crossed => IF chPending THEN chBefore = chAccepted /\ masterCh = chWanted
                             ELSE masterCh = chAccepted

LEMMA FlagsStep == FlagsInTurn /\ TypeOK /\ [Next]_vars => FlagsInTurn'
<1> SUFFICES ASSUME FlagsInTurn, TypeOK, [Next]_vars PROVE FlagsInTurn'
  OBVIOUS
<1>1. ASSUME NEW id \in WriteIds, NEW v \in Setpoints, HandleWrite(id, v)
      PROVE  FlagsInTurn'
  BY <1>1 DEF HandleWrite, FlagsInTurn
<1>2. ASSUME NEW on \in BOOLEAN, HandleChEnable(on)
      PROVE  FlagsInTurn'
  BY <1>2 DEF HandleChEnable, FlagsInTurn
<1>3. ASSUME NEW r \in Results, FinishKeepalive(r)
      PROVE  FlagsInTurn'
  BY <1>3 DEF FinishKeepalive, StatusComplete, FlagsInTurn, TypeOK, cmdVars
<1>4. ASSUME UNCHANGED <<chPending, chBefore, chAccepted, chWanted, masterCh,
                         crossed>>
      PROVE  FlagsInTurn'
  BY <1>4 DEF FlagsInTurn
<1>5. CASE PollTask
  BY <1>3, <1>4, <1>5
     DEF PollTask, StartKeepalive, StartHold, SkipHold, StartWrite, NoWrite,
         FinishHold, FinishWrite, cmdVars
<1>6. CASE FailsafeTask
  BY <1>4, <1>6
     DEF FailsafeTask, FailsafeStores, GoActive, ReadLive, EnableHold,
         StoreHeld, GoIdle, DisableHold, ClearHeld, cmdVars
<1>7. CASE Restart
  BY <1>7 DEF Restart, FlagsInTurn
<1>8. CASE UNCHANGED vars
  BY <1>4, <1>8 DEF vars, cmdVars
<1> QED BY <1>1, <1>2, <1>5, <1>6, <1>7, <1>8 DEF Next, Handle

\* With no CH enable open the master sends the accepted flags, whatever the
\* boiler answered to the commands before.
THEOREM FlagsAreRestored == Spec => []MasterFollowsAccepted
<1>1. Init => TypeOK /\ BusShape /\ LiveInHand /\ FlagsInTurn
  BY InitType DEF Init, LiveInHand, FlagsInTurn
<1>2. TypeOK /\ BusShape /\ LiveInHand /\ FlagsInTurn /\ [Next]_vars
        => TypeOK' /\ BusShape' /\ LiveInHand' /\ FlagsInTurn'
  BY TypeStep, FlagsStep
<1>3. FlagsInTurn => MasterFollowsAccepted
  BY DEF FlagsInTurn, MasterFollowsAccepted
<1> QED BY <1>1, <1>2, <1>3, PTL DEF Spec

\* While commands of one id do not overlap, each id has at most one write in
\* the queue, and none there when it has one on the bus.
QueueInTurn ==
    ~crossed =>
      /\ \A i, j \in 1..Len(queue) : queue[i].id = queue[j].id => i = j
      /\ frame.kind = "write" =>
           \A i \in 1..Len(queue) : queue[i].id # frame.id

\* A word on its way is the encoding of its setpoint.
RawMatches ==
    /\ \A i \in 1..Len(queue) : queue[i].raw = Encode[queue[i].val]
    /\ frame.kind = "write" => frame.raw = Encode[frame.val]

TurnInv == QueueInTurn /\ RawMatches

LEMMA HandleTurn ==
    ASSUME TypeOK, TurnInv, NEW id \in WriteIds, NEW v \in Setpoints,
           HandleWrite(id, v)
    PROVE  TurnInv'
<1> DEFINE e == [id |-> id, val |-> v, raw |-> Encode[v]]
<1>1. /\ e \in Entries /\ e.id = id /\ e.raw = Encode[e.val]
      /\ queue \in Seq(Entries) /\ Len(queue) \in Nat
      /\ queue' = Append(queue, e)
      /\ UNCHANGED frame
      /\ crossed' = (crossed \/ OnBus(id) \/ Queued(id))
  BY EncodeType DEF HandleWrite, TypeOK, Entries, busVars
<1> HIDE DEF e
<1>2. /\ Len(queue') = Len(queue) + 1
      /\ queue'[Len(queue) + 1] = e
      /\ \A i \in 1..Len(queue) : queue'[i] = queue[i]
  BY <1>1
<1>3. RawMatches'
  BY <1>1, <1>2 DEF TurnInv, RawMatches
<1>4. ASSUME ~crossed'
      PROVE  /\ \A i, j \in 1..Len(queue') :
                  queue'[i].id = queue'[j].id => i = j
             /\ frame'.kind = "write" =>
                  \A i \in 1..Len(queue') : queue'[i].id # frame'.id
  <2>1. /\ ~crossed /\ ~OnBus(id)
        /\ \A i \in 1..Len(queue) : queue'[i].id # id
    BY <1>1, <1>2, <1>4 DEF Queued
  <2>2. ASSUME NEW i \in 1..Len(queue'), NEW j \in 1..Len(queue'),
               queue'[i].id = queue'[j].id
        PROVE  i = j
    <3>1. CASE i \in 1..Len(queue) /\ j \in 1..Len(queue)
      BY <1>2, <2>1, <2>2, <3>1 DEF TurnInv, QueueInTurn
    <3>2. CASE i = Len(queue) + 1 \/ j = Len(queue) + 1
      BY <1>1, <1>2, <2>1, <2>2, <3>2
    <3> QED BY <1>1, <1>2, <3>1, <3>2
  <2>3. ASSUME frame'.kind = "write", NEW i \in 1..Len(queue')
        PROVE  queue'[i].id # frame'.id
    <3>1. CASE i \in 1..Len(queue)
      BY <1>1, <1>2, <2>1, <2>3, <3>1 DEF TurnInv, QueueInTurn
    <3>2. CASE i = Len(queue) + 1
      BY <1>1, <1>2, <2>1, <2>3, <3>2 DEF OnBus
    <3> QED BY <1>1, <1>2, <3>1, <3>2
  <2> QED BY <2>2, <2>3
<1> QED BY <1>3, <1>4 DEF TurnInv, QueueInTurn

LEMMA StartTurn ==
    ASSUME TypeOK, TurnInv, StartWrite
    PROVE  TurnInv'
<1>1. /\ queue \in Seq(Entries) /\ Len(queue) \in Nat /\ Len(queue) >= 1
      /\ queue' = Tail(queue)
      /\ crossed' = crossed
  BY DEF StartWrite, TypeOK
<1>2. /\ frame'.kind = "write" /\ frame'.id = queue[1].id
      /\ frame'.val = queue[1].val /\ frame'.raw = queue[1].raw
  BY <1>1, FrameKinds DEF StartWrite
<1>3. /\ Len(queue') = Len(queue) - 1
      /\ \A i \in 1..Len(queue') :
            /\ queue'[i] = queue[i + 1]
            /\ i + 1 \in 1..Len(queue) /\ i + 1 # 1
  BY <1>1
<1>4. RawMatches'
  BY <1>1, <1>2, <1>3 DEF TurnInv, RawMatches
<1>5. ASSUME ~crossed',
             NEW i \in 1..Len(queue'), NEW j \in 1..Len(queue'),
             queue'[i].id = queue'[j].id
      PROVE  i = j
  <2>1. i + 1 = j + 1
    BY <1>1, <1>3, <1>5 DEF TurnInv, QueueInTurn
  <2> QED BY <1>1, <1>3, <2>1
<1>6. ASSUME ~crossed', NEW i \in 1..Len(queue')
      PROVE  queue'[i].id # frame'.id
  <2>1. queue[1].id # queue[i + 1].id
    BY <1>1, <1>3, <1>6 DEF TurnInv, QueueInTurn
  <2> QED BY <1>2, <1>3, <2>1
<1> QED BY <1>4, <1>5, <1>6 DEF TurnInv, QueueInTurn

LEMMA TurnStep ==
    ASSUME TypeOK, BusShape, TurnInv, [Next]_vars
    PROVE  TurnInv'
<1>1. ASSUME UNCHANGED <<queue, frame>>, crossed => crossed'
      PROVE  TurnInv'
  BY <1>1 DEF TurnInv, QueueInTurn, RawMatches
<1>2. ASSUME UNCHANGED <<queue, crossed>>, frame'.kind # "write"
      PROVE  TurnInv'
  BY <1>2 DEF TurnInv, QueueInTurn, RawMatches
<1>3. ASSUME NEW on \in BOOLEAN, HandleChEnable(on)
      PROVE  TurnInv'
  BY <1>1, <1>3 DEF HandleChEnable, busVars
<1>4. CASE StartWrite
  BY <1>4, StartTurn
<1>5. CASE StartKeepalive \/ StartHold
  BY <1>2, <1>5, FrameKinds DEF StartKeepalive, StartHold
<1>6. CASE SkipHold \/ NoWrite
  BY <1>1, <1>6 DEF SkipHold, NoWrite
<1>7. ASSUME NEW r \in Results,
             FinishKeepalive(r) \/ FinishHold(r) \/ FinishWrite(r)
      PROVE  TurnInv'
  BY <1>2, <1>7, FrameKinds DEF FinishKeepalive, FinishHold, FinishWrite
<1>8. CASE FailsafeTask
  BY <1>1, <1>8
     DEF FailsafeTask, FailsafeStores, GoActive, ReadLive, EnableHold,
         StoreHeld, GoIdle, DisableHold, ClearHeld, busVars
<1>9. CASE Restart
  BY <1>9, FrameKinds DEF Restart, TurnInv, QueueInTurn, RawMatches
<1>10. CASE UNCHANGED vars
  BY <1>1, <1>10 DEF vars, busVars
<1> QED
  BY <1>3, <1>4, <1>5, <1>6, <1>7, <1>8, <1>9, <1>10, HandleTurn
     DEF Next, Handle, PollTask

\* Only an acknowledged write changes the setpoint in NVS, and the boiler then
\* has that setpoint, as long as commands of one id do not overlap.
THEOREM StoredIsAcknowledged == Spec => LastChInTurn
<1> DEFINE Inv == /\ TypeOK /\ BusShape /\ LiveInHand
                  /\ PendingIsNewest /\ TurnInv
<1>1. Init => Inv
  BY InitType, FrameKinds
     DEF Init, LiveInHand, PendingIsNewest, TurnInv, QueueInTurn, RawMatches
<1>2. Inv /\ [Next]_vars => Inv'
  BY TypeStep, NewestStep, TurnStep
<1>3. Inv /\ [Next]_vars
        => [(lastCh' # lastCh /\ ~crossed) => Acknowledged(lastCh')]_vars
  <2> SUFFICES ASSUME Inv, [Next]_vars, lastCh' # lastCh, ~crossed
               PROVE  Acknowledged(lastCh')
    OBVIOUS
  <2>1. PICK r \in Results : FinishWrite(r)
    BY DEF Next, Handle, HandleWrite, HandleChEnable, PollTask, StartKeepalive,
           StartHold, SkipHold, StartWrite, NoWrite, FinishKeepalive,
           FinishHold, FailsafeTask, FailsafeStores, GoActive, ReadLive,
           EnableHold, StoreHeld, GoIdle, DisableHold, ClearHeld, Restart, vars
  <2>2. /\ pending[frame.id] /\ r = "ok" /\ frame.id = ChId
        /\ lastCh' = pendingVal[ChId]
    BY <2>1 DEF FinishWrite, WriteComplete
  <2>3. frame.kind = "write" /\ OnBus(ChId)
    BY <2>1, <2>2, FrameKinds DEF FinishWrite, BusShape, OnBus
  <2>4. ~NewestIn(queue, ChId, pendingVal[ChId])
    BY <2>3 DEF OnBus, TurnInv, QueueInTurn, NewestIn
  <2>5. frame.val = lastCh'
    BY <2>2, <2>4, WritePathAssumption DEF PendingIsNewest
  <2>6. frame.raw = Encode[lastCh'] /\ boiler' = frame.raw
    BY <2>1, <2>2, <2>3, <2>5 DEF FinishWrite, Taken, TurnInv, RawMatches
  <2> QED BY <2>3, <2>6 DEF Acknowledged
<1> QED BY <1>1, <1>2, <1>3, PTL DEF Spec, LastChInTurn

-----------------------------------------------------------------------------
(* PollSchedule *)

\* A set of naturals that is not empty has a least element.
LEMMA LeastNatural ==
    ASSUME NEW S \in SUBSET Nat, S # {}
    PROVE  \E x \in S : \A y \in S : x <= y
  <1>1. PICK x \in S : \A y \in S : <<y, x>> \notin OpToRel(<, Nat)
    BY WFMin, NatLessThanWellFounded, Zenon
  <1>2. \A y \in S : ~(y < x)
    BY <1>1, Zenon DEF OpToRel
  <1> QED BY <1>2

\* The cyclic search finds a member of the set it searches: no id is ever read
\* that the branch of pick_next_read does not serve.
LEMMA FromFinds ==
    ASSUME NEW start \in Ids, NEW S \in SUBSET Ids, S # {}
    PROVE  /\ From(start, S) \in S
           /\ \A j \in S : Dist(start, From(start, S)) <= Dist(start, j)
  <1> DEFINE D == {Dist(start, id) : id \in S}
  <1>1. \A id \in S : Dist(start, id) \in Nat
    BY PollAssumption DEF Ids, Dist
  <1>2. PICK x \in D : \A y \in D : x <= y
    <2>1. D \in SUBSET Nat BY <1>1
    <2>2. D # {} OBVIOUS
    <2> HIDE DEF D
    <2> QED BY <2>1, <2>2, LeastNatural
  <1>3. \E id \in S : \A j \in S : Dist(start, id) <= Dist(start, j)
    BY <1>2
  <1> QED BY <1>3 DEF From

-----------------------------------------------------------------------------
(* Type correctness *)

\* Only an id below N is being probed.
ProbeInv == phase \in {"classify", "echo"} => probe < N

TypeInv == PollTypeOK /\ ProbeInv

LEMMA SuccessorTyped == ASSUME NEW id \in Ids PROVE Successor(id) \in Ids
  BY PollAssumption DEF Successor, Ids

LEMMA ServedTyped ==
    ASSUME TypeInv
    PROVE  /\ HotIds # {} => From(0, HotIds) \in Readable
           /\ FastIds # {} => From(rr, FastIds) \in Readable
           /\ SlowIds # {} => From(slowRr, SlowIds) \in Readable
  <1>1. /\ HotIds \in SUBSET Ids /\ FastIds \in SUBSET Ids
        /\ SlowIds \in SUBSET Ids
        /\ HotIds \subseteq Readable /\ FastIds \subseteq Readable
        /\ SlowIds \subseteq Readable
    BY PollAssumption
    DEF TypeInv, PollTypeOK, HotIds, FastIds, SlowIds, Ids, Readable
  <1>2. 0 \in Ids /\ rr \in Ids /\ slowRr \in Ids
    BY PollAssumption DEF TypeInv, PollTypeOK, Ids
  <1> QED BY <1>1, <1>2, FromFinds

LEMMA PassedOverTyped ==
    ASSUME TypeInv, NEW id, NEW S, PassedOver(id, S)
    PROVE  missed' \in [Readable -> 0..N]
  BY PollAssumption DEF TypeInv, PollTypeOK, PassedOver

LEMMA InitTyped == PollInit => TypeInv
  BY PollAssumption DEF PollInit, TypeInv, PollTypeOK, ProbeInv, Ids, Readable

LEMMA ReadTyped ==
    ASSUME TypeInv, NEW id \in Readable, pc = "reads", Read(id)
    PROVE  /\ pc' = pc /\ t' \in Nat /\ promoted' \subseteq Readable
           /\ fails' = fails /\ healthy' = healthy /\ silent' = silent
           /\ probe' = probe /\ phase' = phase /\ avail' = avail
  BY PollAssumption DEF TypeInv, PollTypeOK, Read, Takes, linkVars, bootVars

LEMMA PollTyped == ASSUME TypeInv, PollLoop PROVE TypeInv'
  <1> USE PollAssumption
  <1>1. CASE Keepalive
    <2>1. PICK answered \in BOOLEAN :
            /\ Note(answered)
            /\ silent' = IF answered THEN 0 ELSE Capped(silent)
      BY <1>1 DEF Keepalive
    <2>2. /\ 0 \in 0..Threshold
          /\ Capped(fails) \in 0..Threshold /\ Capped(silent) \in 0..Threshold
      BY DEF TypeInv, PollTypeOK, Capped
    <2>3. fails' \in 0..Threshold /\ silent' \in 0..Threshold
      BY <2>1, <2>2 DEF Note
    <2>4. healthy' \in BOOLEAN
      BY <2>1, Zenon DEF Note
    <2>5. t' \in Nat /\ pc' = "hold"
      BY <1>1 DEF TypeInv, PollTypeOK, Keepalive, Takes
    <2> QED
      BY <1>1, <2>3, <2>4, <2>5
      DEF TypeInv, PollTypeOK, ProbeInv, Keepalive, roundVars, bootVars
  <1>2. CASE Hold
    BY <1>2 DEF TypeInv, PollTypeOK, ProbeInv, Hold, Takes, linkVars, roundVars,
                bootVars
  <1>3. CASE NothingToWrite
    BY <1>3 DEF TypeInv, PollTypeOK, ProbeInv, NothingToWrite, linkVars, roundVars, bootVars
  <1>4. CASE \E id \in Readable : Write(id)
    BY <1>4 DEF TypeInv, PollTypeOK, ProbeInv, Write, Takes, linkVars, roundVars,
                bootVars
  <1>5. CASE ReadPromoted
    <2>1. From(0, HotIds) \in Readable
      BY <1>5, ServedTyped DEF ReadPromoted
    <2>2. Read(From(0, HotIds)) /\ pc = "reads"
      BY <1>5 DEF ReadPromoted, MoreReads
    <2> QED
      BY <1>5, <2>1, <2>2, ReadTyped
      DEF TypeInv, PollTypeOK, ProbeInv, ReadPromoted, roundVars
  <1>6. CASE ReadFast
    <2> DEFINE id == From(rr, FastIds)
    <2>1. id \in Readable /\ id \in Ids
      BY <1>6, ServedTyped DEF ReadFast, Readable, Ids
    <2>2. /\ Read(id) /\ pc = "reads"
          /\ rr' = Successor(id) /\ PassedOver(id, FastIds)
      BY <1>6 DEF ReadFast, MoreReads
    <2> HIDE DEF id
    <2>3. rr' \in Ids /\ slowRr' = slowRr
      BY <1>6, <2>1, <2>2, SuccessorTyped DEF ReadFast
    <2>4. missed' \in [Readable -> 0..N] BY <2>2, PassedOverTyped
    <2> QED
      BY <2>1, <2>2, <2>3, <2>4, ReadTyped DEF TypeInv, PollTypeOK, ProbeInv
  <1>7. CASE ReadSlow
    <2> DEFINE id == From(slowRr, SlowIds)
    <2>1. id \in Readable /\ id \in Ids
      BY <1>7, ServedTyped DEF ReadSlow, Readable, Ids
    <2>2. /\ Read(id) /\ pc = "reads"
          /\ slowRr' = Successor(id) /\ PassedOver(id, SlowIds)
      BY <1>7 DEF ReadSlow, MoreReads
    <2> HIDE DEF id
    <2>3. slowRr' \in Ids /\ rr' = rr
      BY <1>7, <2>1, <2>2, SuccessorTyped DEF ReadSlow
    <2>4. missed' \in [Readable -> 0..N] BY <2>2, PassedOverTyped
    <2> QED
      BY <2>1, <2>2, <2>3, <2>4, ReadTyped DEF TypeInv, PollTypeOK, ProbeInv
  <1>8. CASE EndReads
    BY <1>8 DEF TypeInv, PollTypeOK, ProbeInv, EndReads, NewTick, linkVars,
                roundVars, bootVars
  <1>9. CASE Wake
    BY <1>9 DEF TypeInv, PollTypeOK, ProbeInv, Wake, NewTick, linkVars, roundVars,
                bootVars
  <1> QED
    BY <1>1, <1>2, <1>3, <1>4, <1>5, <1>6, <1>7, <1>8, <1>9 DEF PollLoop

LEMMA NextTyped == TypeInv /\ [PollNext]_pollVars => TypeInv'
  <1> SUFFICES ASSUME TypeInv, [PollNext]_pollVars PROVE TypeInv'
    OBVIOUS
  <1> USE PollAssumption
  <1>1. CASE PollLoop BY <1>1, PollTyped
  <1>2. CASE Idle
    BY <1>2 DEF TypeInv, PollTypeOK, ProbeInv, Idle, Takes, linkVars, roundVars,
                bootVars
  <1>3. CASE ProbeExchange
    BY <1>3 DEF TypeInv, PollTypeOK, ProbeInv, ProbeExchange, Takes, Discovered,
                linkVars, roundVars
  <1>4. CASE Classify
    <2>1. avail' \subseteq Readable
      BY <1>4 DEF TypeInv, PollTypeOK, ProbeInv, Classify, Readable
    <2>2. probe' \in 0..N /\ phase' \in {"read", "classify", "echo"} /\ ProbeInv'
      BY <1>4 DEF TypeInv, PollTypeOK, ProbeInv, Classify
    <2>3. missed' \in [Readable -> 0..N]
      BY <1>4 DEF Classify
    <2> QED
      BY <1>4, <2>1, <2>2, <2>3
      DEF TypeInv, PollTypeOK, Classify, tickVars, linkVars
  <1>5. CASE UNCHANGED pollVars
    BY <1>5 DEF TypeInv, PollTypeOK, ProbeInv, pollVars, tickVars, linkVars, roundVars,
                bootVars
  <1> QED BY <1>1, <1>2, <1>3, <1>4, <1>5 DEF PollNext, Discover

\* Every variable of poll_task and of the discovery keeps its type; in
\* particular the cursors of the two rounds wrap within the catalog.
THEOREM PollTypeCorrect == PollSpec => []PollTypeOK
  <1>1. TypeInv /\ [PollNext]_pollVars => TypeInv' BY NextTyped
  <1>2. TypeInv => PollTypeOK BY DEF TypeInv
  <1> QED BY InitTyped, <1>1, <1>2, PTL DEF PollSpec

-----------------------------------------------------------------------------
(* The keepalive is on time *)

\* How much of the tick may be gone at each point of the loop.
SpentInv ==
    /\ pc = "keepalive" => t <= Longest - 1
    /\ pc = "hold" => t <= 2 * Longest - 1
    /\ pc = "write" => t <= 3 * Longest - 1
    /\ pc = "reads" => t <= MaxTick
    /\ pc = "sleep" => t <= Interval + Longest - 1

LEMMA SpentStep ==
    ASSUME TypeInv, SpentInv, [PollNext]_pollVars PROVE SpentInv'
  <1>1. /\ Longest \in Nat /\ Longest > 0 /\ Interval \in Nat /\ Margin \in Nat
        /\ Margin < Interval /\ MaxTick \in Nat /\ t \in Nat
        /\ MaxTick >= 4 * Longest - 1 /\ MaxTick >= Interval + Longest - 1
        /\ MaxTick' = MaxTick
    BY PollAssumption DEF MaxTick, TypeInv, PollTypeOK
  <1>2. \A d \in Durations : d \in Nat /\ d <= Longest
    BY PollAssumption
  <1> USE <1>1, <1>2 DEF SpentInv, Takes
  <1>3. CASE Keepalive BY <1>3 DEF Keepalive
  <1>4. CASE Hold BY <1>4 DEF Hold
  <1>5. CASE NothingToWrite BY <1>5 DEF NothingToWrite
  <1>6. CASE \E id \in Readable : Write(id) BY <1>6 DEF Write
  <1>7. CASE \E id : MoreReads /\ Read(id)
    BY <1>7 DEF MoreReads, Read, Deadline
  <1>8. CASE EndReads BY <1>8 DEF EndReads, NewTick
  <1>9. CASE Wake BY <1>9 DEF Wake, NewTick
  <1>10. CASE Idle BY <1>10 DEF Idle, Sleeping
  <1>11. CASE ProbeExchange BY <1>11 DEF ProbeExchange, Sleeping
  <1>12. CASE UNCHANGED tickVars BY <1>12 DEF tickVars
  <1>13. CASE ReadPromoted \/ ReadFast \/ ReadSlow
    BY <1>7, <1>13 DEF ReadPromoted, ReadFast, ReadSlow
  <1> QED
    BY <1>3, <1>4, <1>5, <1>6, <1>8, <1>9, <1>10, <1>11, <1>12, <1>13
    DEF PollNext, PollLoop, Discover, Classify, pollVars

\* Whatever shares the bus, from one keepalive being due to the next no more
\* than MaxTick passes.
THEOREM KeepaliveIsOnTime == PollSpec => []KeepaliveOnTime
  <1>1. PollInit => SpentInv
    BY PollAssumption DEF PollInit, SpentInv
  <1>2. TypeInv /\ SpentInv /\ [PollNext]_pollVars => SpentInv' BY SpentStep
  <1>3. TypeInv /\ SpentInv => KeepaliveOnTime
    BY PollAssumption
    DEF SpentInv, KeepaliveOnTime, MaxTick, TypeInv, PollTypeOK
  <1>4. TypeInv /\ [PollNext]_pollVars => TypeInv' BY NextTyped
  <1> QED BY InitTyped, <1>1, <1>2, <1>3, <1>4, PTL DEF PollSpec

-----------------------------------------------------------------------------
(* The boiler link *)

\* The counter of the code is the history, and says when the link is lost.
LinkInv == silent = fails /\ (healthy <=> fails < Threshold)

LEMMA LinkStep == ASSUME TypeInv, LinkInv, [PollNext]_pollVars PROVE LinkInv'
  <1>1. CASE Keepalive
    <2>1. PICK answered \in BOOLEAN :
            /\ Note(answered)
            /\ silent' = IF answered THEN 0 ELSE Capped(silent)
      BY <1>1 DEF Keepalive
    <2>2. Threshold \in Nat /\ Threshold > 0 /\ fails \in Nat /\ fails <= Threshold
      BY PollAssumption DEF TypeInv, PollTypeOK
    <2>3. CASE answered
      <3>1. fails' = 0 /\ healthy' = TRUE /\ silent' = 0
        BY <2>1, <2>3 DEF Note
      <3> QED BY <2>2, <3>1 DEF LinkInv
    <2>4. CASE ~answered
      <3>1. /\ fails' = Capped(fails) /\ silent' = Capped(silent)
            /\ healthy' = (healthy /\ fails' < Threshold)
        BY <2>1, <2>4 DEF Note
      <3>2. fails' < Threshold => fails < Threshold
        BY <2>2, <3>1 DEF Capped
      <3>3. healthy' <=> fails' < Threshold
        BY <3>1, <3>2 DEF LinkInv
      <3>4. silent' = fails'
        BY <3>1 DEF LinkInv
      <3> QED BY <3>3, <3>4 DEF LinkInv
    <2> QED BY <2>3, <2>4
  <1>2. CASE UNCHANGED linkVars BY <1>2 DEF LinkInv, linkVars
  <1> QED
    BY <1>1, <1>2
    DEF PollNext, PollLoop, Hold, NothingToWrite, Write, ReadPromoted, ReadFast, ReadSlow,
        Read, EndReads, Wake, Idle, Discover, ProbeExchange, Classify, pollVars

\* The link is unhealthy exactly after Threshold keepalives in a row without an
\* answer: no read and no probe of the discovery counts.
THEOREM HealthIsExact == PollSpec => []HealthFollowsKeepalive
  <1>1. PollInit => LinkInv
    BY PollAssumption DEF PollInit, LinkInv
  <1>2. TypeInv /\ LinkInv /\ [PollNext]_pollVars => LinkInv' BY LinkStep
  <1>3. LinkInv => HealthFollowsKeepalive
    BY DEF LinkInv, HealthFollowsKeepalive
  <1>4. TypeInv /\ [PollNext]_pollVars => TypeInv' BY NextTyped
  <1> QED BY InitTyped, <1>1, <1>2, <1>3, <1>4, PTL DEF PollSpec

-----------------------------------------------------------------------------
(* The rounds *)

\* The ids of a round that come after i, seen from the cursor.
Behind(start, S, i) == {j \in S : Dist(start, j) > Dist(start, i)}

\* An id was passed over at most once for each id that now comes after it.
RoundInv(start, S) == \A i \in S : missed[i] <= Cardinality(Behind(start, S, i))

RoundsInv == RoundInv(rr, FastIds) /\ RoundInv(slowRr, SlowIds)

LEMMA IdsFinite ==
    ASSUME NEW S \in SUBSET Ids
    PROVE  IsFiniteSet(S) /\ Cardinality(S) \in Nat
  <1>1. IsFiniteSet(Ids)
    BY PollAssumption, FS_Interval DEF Ids
  <1> QED BY <1>1, FS_Subset, FS_CardinalityType

\* Seen from behind id, id is last and the others have moved up.
LEMMA DistAfter ==
    ASSUME NEW start \in Ids, NEW id \in Ids, NEW i \in Ids,
           Dist(start, id) <= Dist(start, i)
    PROVE  /\ Dist(Successor(id), id) = N - 1
           /\ Dist(start, i) \in 0..(N - 1)
           /\ i # id => /\ Dist(start, id) < Dist(start, i)
                        /\ Dist(Successor(id), i)
                             = Dist(start, i) - Dist(start, id) - 1
  <1>1. N \in Nat /\ N > 1 /\ start \in 0..(N - 1) /\ id \in 0..(N - 1)
        /\ i \in 0..(N - 1)
    BY PollAssumption DEF Ids
  <1>2. Successor(id) = IF id = N - 1 THEN 0 ELSE id + 1
    <2>1. CASE id = N - 1 BY <1>1, <2>1 DEF Successor
    <2>2. CASE id # N - 1
      <3>1. id + 1 \in 0..(N - 1) BY <1>1, <2>2
      <3> QED BY <1>1, <2>2, <3>1 DEF Successor
    <2> QED BY <2>1, <2>2
  <1> QED BY <1>1, <1>2 DEF Dist

LEMMA BehindAfter ==
    ASSUME NEW start \in Ids, NEW S \in SUBSET Ids, NEW id \in S, NEW i \in S,
           \A j \in S : Dist(start, id) <= Dist(start, j), i # id
    PROVE  Cardinality(Behind(Successor(id), S, i))
             = Cardinality(Behind(start, S, i)) + 1
  <1>1. \A j \in S : /\ Dist(Successor(id), id) = N - 1
                     /\ Dist(start, j) \in 0..(N - 1)
                     /\ j # id => /\ Dist(start, id) < Dist(start, j)
                                  /\ Dist(Successor(id), j)
                                       = Dist(start, j) - Dist(start, id) - 1
    BY DistAfter
  <1>2. id \notin Behind(start, S, i)
    BY <1>1 DEF Behind
  <1>3. Behind(Successor(id), S, i) = Behind(start, S, i) \cup {id}
    BY <1>1, PollAssumption DEF Behind
  <1>4. IsFiniteSet(Behind(start, S, i))
    BY IdsFinite DEF Behind
  <1> QED BY <1>2, <1>3, <1>4, FS_AddElement

\* What a read by a round does to its ids and leaves of the others.
LEMMA RoundStep ==
    ASSUME TypeInv, NEW start \in Ids, NEW S \in SUBSET Readable, S # {},
           RoundInv(start, S), PassedOver(From(start, S), S)
    PROVE  /\ \A i \in S : missed'[i]
                 <= Cardinality(Behind(Successor(From(start, S)), S, i))
           /\ \A i \in Readable \ S : missed'[i] = missed[i]
  <1> DEFINE id == From(start, S)
  <1>1. S \in SUBSET Ids /\ S \subseteq Readable
    BY DEF Ids, Readable
  <1>2. id \in S /\ \A j \in S : Dist(start, id) <= Dist(start, j)
    BY <1>1, FromFinds
  <1>3. \A i \in Readable :
          missed'[i] = IF i = id THEN 0
                       ELSE IF i \in S /\ missed[i] < N THEN missed[i] + 1
                       ELSE missed[i]
    BY DEF PassedOver
  <1>4. \A i \in Readable : missed[i] \in Nat
    BY PollAssumption DEF TypeInv, PollTypeOK
  <1> HIDE DEF id
  <1>5. ASSUME NEW i \in S
        PROVE  missed'[i] <= Cardinality(Behind(Successor(id), S, i))
    <2>1. CASE i = id
      <3>1. Cardinality(Behind(Successor(id), S, i)) \in Nat
        BY <1>1, IdsFinite DEF Behind
      <3> QED BY <1>1, <1>3, <2>1, <3>1
    <2>2. CASE i # id
      <3>1. Cardinality(Behind(Successor(id), S, i))
              = Cardinality(Behind(start, S, i)) + 1
        BY <1>1, <1>2, <2>2, BehindAfter
      <3>2. Cardinality(Behind(start, S, i)) \in Nat
        BY <1>1, IdsFinite DEF Behind
      <3>3. missed[i] <= Cardinality(Behind(start, S, i))
        BY DEF RoundInv
      <3>4. missed'[i] <= missed[i] + 1
        BY <1>1, <1>3, <1>4, <2>2
      <3> QED BY <1>1, <1>4, <3>1, <3>2, <3>3, <3>4, <1>3
    <2> QED BY <2>1, <2>2
  <1>6. \A i \in Readable \ S : missed'[i] = missed[i]
    BY <1>2, <1>3
  <1> QED BY <1>5, <1>6 DEF id

LEMMA NothingMissed ==
    ASSUME NEW start \in Ids, NEW S \in SUBSET Readable, NEW i \in S
    PROVE  0 <= Cardinality(Behind(start, S, i))
  <1>1. Behind(start, S, i) \subseteq S
    BY DEF Behind
  <1>2. S \subseteq Ids
    BY DEF Ids, Readable
  <1>3. Cardinality(Behind(start, S, i)) \in Nat
    BY <1>1, <1>2, IdsFinite
  <1> QED BY <1>3

LEMMA RoundsStep ==
    ASSUME TypeInv, RoundsInv, [PollNext]_pollVars PROVE RoundsInv'
  <1>1. /\ rr \in Ids /\ slowRr \in Ids
        /\ FastIds \in SUBSET Readable /\ SlowIds \in SUBSET Readable
        /\ FastIds \cap SlowIds = {}
    BY DEF TypeInv, PollTypeOK, FastIds, SlowIds
  <1>2. CASE ReadFast
    <2> DEFINE id == From(rr, FastIds)
    <2>1. /\ FastIds # {} /\ rr' = Successor(id) /\ PassedOver(id, FastIds)
          /\ slowRr' = slowRr
      BY <1>2 DEF ReadFast
    <2>2. avail' = avail
      BY <1>2 DEF ReadFast, Read, bootVars
    <2>3. FastIds' = FastIds /\ SlowIds' = SlowIds
      BY <2>2 DEF FastIds, SlowIds
    <2>4. /\ \A i \in FastIds : missed'[i]
                <= Cardinality(Behind(Successor(id), FastIds, i))
          /\ \A i \in Readable \ FastIds : missed'[i] = missed[i]
      BY <1>1, <2>1, RoundStep DEF RoundsInv
    <2> HIDE DEF id
    <2>5. RoundInv(rr, FastIds)'
      BY <2>1, <2>3, <2>4 DEF RoundInv
    <2>6. RoundInv(slowRr, SlowIds)'
      BY <1>1, <2>1, <2>3, <2>4 DEF RoundsInv, RoundInv
    <2> QED BY <2>5, <2>6 DEF RoundsInv
  <1>3. CASE ReadSlow
    <2> DEFINE id == From(slowRr, SlowIds)
    <2>1. /\ SlowIds # {} /\ slowRr' = Successor(id) /\ PassedOver(id, SlowIds)
          /\ rr' = rr
      BY <1>3 DEF ReadSlow
    <2>2. avail' = avail
      BY <1>3 DEF ReadSlow, Read, bootVars
    <2>3. FastIds' = FastIds /\ SlowIds' = SlowIds
      BY <2>2 DEF FastIds, SlowIds
    <2>4. /\ \A i \in SlowIds : missed'[i]
                <= Cardinality(Behind(Successor(id), SlowIds, i))
          /\ \A i \in Readable \ SlowIds : missed'[i] = missed[i]
      BY <1>1, <2>1, RoundStep DEF RoundsInv
    <2> HIDE DEF id
    <2>5. RoundInv(slowRr, SlowIds)'
      BY <2>1, <2>3, <2>4 DEF RoundInv
    <2>6. RoundInv(rr, FastIds)'
      BY <1>1, <2>1, <2>3, <2>4 DEF RoundsInv, RoundInv
    <2> QED BY <2>5, <2>6 DEF RoundsInv
  <1>4. CASE Classify
    <2>1. /\ rr' = rr /\ slowRr' = slowRr
          /\ \A i \in Readable : missed'[i] = 0
      BY <1>4 DEF Classify
    <2>2. TypeInv' BY NextTyped
    <2>3. FastIds' \in SUBSET Readable /\ SlowIds' \in SUBSET Readable
      BY <2>2 DEF TypeInv, PollTypeOK, FastIds, SlowIds
    <2>4. RoundInv(rr, FastIds)'
      BY <1>1, <2>1, <2>3, NothingMissed DEF RoundInv
    <2>5. RoundInv(slowRr, SlowIds)'
      BY <1>1, <2>1, <2>3, NothingMissed DEF RoundInv
    <2> QED BY <2>4, <2>5 DEF RoundsInv
  <1>5. CASE UNCHANGED <<roundVars, avail>>
    BY <1>5 DEF RoundsInv, RoundInv, FastIds, SlowIds, roundVars
  <1> QED
    BY <1>2, <1>3, <1>4, <1>5
    DEF PollNext, PollLoop, Keepalive, Hold, NothingToWrite, Write, ReadPromoted, Read,
        EndReads, Wake, Idle, Discover, ProbeExchange, bootVars, pollVars

\* Between two reads of an id by its round every other id of the round is read
\* at most once, wherever promotions, writes or the end of a tick interrupt it.
THEOREM RoundsStayFair == PollSpec => []RoundsAreFair
  <1>1. PollInit => RoundsInv
    <2> SUFFICES ASSUME PollInit PROVE RoundsInv
      OBVIOUS
    <2>1. /\ rr \in Ids /\ slowRr \in Ids
          /\ FastIds \in SUBSET Readable /\ SlowIds \in SUBSET Readable
      BY InitTyped DEF TypeInv, PollTypeOK, FastIds, SlowIds
    <2>2. \A i \in Readable : missed[i] = 0
      BY DEF PollInit
    <2> QED BY <2>1, <2>2, NothingMissed DEF RoundsInv, RoundInv
  <1>2. TypeInv /\ RoundsInv /\ [PollNext]_pollVars => RoundsInv' BY RoundsStep
  <1>3. ASSUME TypeInv, NEW start \in Ids, NEW S \in SUBSET Readable,
               RoundInv(start, S), NEW i \in S
        PROVE  missed[i] < Cardinality(S)
    <2>1. S \in SUBSET Ids BY DEF Ids, Readable
    <2>2. IsFiniteSet(S) BY <2>1, IdsFinite
    <2>3. Behind(start, S, i) \subseteq S /\ i \notin Behind(start, S, i)
      <3>1. Dist(start, i) \in Nat
        BY <2>1, PollAssumption DEF Dist, Ids
      <3> QED BY <3>1 DEF Behind
    <2>4. /\ Cardinality(Behind(start, S, i)) \in Nat /\ Cardinality(S) \in Nat
      BY <2>1, <2>3, IdsFinite
    <2>5. /\ Cardinality(Behind(start, S, i)) <= Cardinality(S)
          /\ Cardinality(Behind(start, S, i)) # Cardinality(S)
      BY <2>2, <2>3, FS_Subset
    <2>6. i \in Readable /\ N \in Nat /\ missed \in [Readable -> 0..N]
      BY <1>3, PollAssumption DEF TypeInv, PollTypeOK
    <2>7. missed[i] \in Nat
      BY <2>6
    <2>8. missed[i] <= Cardinality(Behind(start, S, i))
      BY <1>3 DEF RoundInv
    <2> QED BY <2>4, <2>5, <2>7, <2>8
  <1>4. TypeInv /\ RoundsInv => RoundsAreFair
    <2> SUFFICES ASSUME TypeInv, RoundsInv PROVE RoundsAreFair
      OBVIOUS
    <2>1. /\ rr \in Ids /\ slowRr \in Ids
          /\ FastIds \in SUBSET Readable /\ SlowIds \in SUBSET Readable
      BY DEF TypeInv, PollTypeOK, FastIds, SlowIds
    <2> QED BY <1>3, <2>1 DEF RoundsInv, RoundsAreFair
  <1>5. TypeInv /\ [PollNext]_pollVars => TypeInv' BY NextTyped
  <1> QED BY InitTyped, <1>1, <1>2, <1>4, <1>5, PTL DEF PollSpec

===============================================================================
