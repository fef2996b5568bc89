-------------------------- MODULE OtaUpdateProofs ---------------------------
(***************************************************************************)
(* Proofs about OtaUpdate, for any set of releases, versions and poll      *)
(* tasks.                                                                  *)
(***************************************************************************)
EXTENDS OtaUpdate, TLAPS

(* The inductive invariant.  A flipped slot holds a whole image because the *)
(* task that flips it remembers which release it downloads, and that there *)
(* was one to download.  A pending image is quiet: no session was ready,   *)
(* so nobody has polled, and with an empty cache no Install starts.        *)

Working == {"check", "perform", "received", "verify", "digest", "finish"}

DownloadInv ==
    /\ dl # "off" => cache # NoRelease
    /\ dl \in Working => from # NoRelease
    /\ flip <=> dl \in {"success", "reboot"}
    /\ flip => other \in Images

Fetched == \A p \in Pollers : poller[p].at = "apply" => poller[p].got # NoRelease

Quiet ==
    /\ ~ready
    /\ deciding = {}
    /\ \A p \in Pollers : ~Active(p)
    /\ cache = NoRelease
    /\ dl = "off"

QuietInv == pending => Quiet /\ other \in Images

Inv == TypeOK /\ DownloadInv /\ Fetched /\ QuietInv /\ ProgressHonest

LEMMA NoReleaseIsNone == NoRelease \notin Releases \cup {Factory}
  BY OtaAssumption DEF OtaAssumption

LEMMA ImageTyped ==
    ASSUME NEW r \in Releases \cup {Factory}, NEW ok \in BOOLEAN
    PROVE  Image(r, ok) \in Images
  BY DEF Image, Images

LEMMA InitInv == Init => Inv
  <1> SUFFICES ASSUME Init PROVE Inv
    OBVIOUS
  <1>1. SlotTypes
    BY DEF Init, SlotTypes, Image, Images
  <1>2. FlagTypes
    BY DEF Init, FlagTypes
  <1>3. DownloadTypes
    BY DEF Init, DownloadTypes
  <1>4. PollTypes
    BY DEF Init, PollTypes, NoPoll, PollStates
  <1>5. DownloadInv /\ QuietInv /\ ProgressHonest
    BY DEF Init, DownloadInv, Working, QuietInv, ProgressHonest
  <1>6. Fetched
    BY DEF Init, Fetched, NoPoll
  <1> QED BY <1>1, <1>2, <1>3, <1>4, <1>5, <1>6 DEF Inv, TypeOK

-----------------------------------------------------------------------------
(* One lemma for each group of actions. *)

LEMMA RestartInv == ASSUME Inv, Restart PROVE Inv'
  <1> USE DEF Restart, Booted
  <1>1. SlotTypes'
    <2>1. flip => other \in Images
      BY DEF Inv, DownloadInv
    <2>2. pending => other \in Images
      BY DEF Inv, QuietInv
    <2> QED BY <2>1, <2>2 DEF Inv, TypeOK, SlotTypes
  <1>2. FlagTypes'
    BY DEF Inv, TypeOK, FlagTypes
  <1>3. DownloadTypes'
    BY DEF DownloadTypes
  <1>4. PollTypes'
    BY DEF PollTypes, NoPoll, PollStates
  <1>5. DownloadInv' /\ ProgressHonest'
    BY DEF DownloadInv, Working, ProgressHonest
  <1>6. Fetched'
    BY DEF Fetched, NoPoll
  <1>7. QuietInv'
    <2>1. pending' => other' \in Images
      BY DEF Inv, TypeOK, SlotTypes
    <2>2. Quiet'
      BY DEF Quiet, Active, NoPoll
    <2> QED BY <2>1, <2>2 DEF QuietInv
  <1> QED BY <1>1, <1>2, <1>3, <1>4, <1>5, <1>6, <1>7 DEF Inv, TypeOK

\* What the download task does not touch, and what nobody else does.
LEMMA PollKept ==
    ASSUME Inv, UNCHANGED <<deciding, poller, inflight>>,
           pollCancel' \in BOOLEAN
    PROVE  PollTypes' /\ Fetched'
  BY DEF Inv, TypeOK, PollTypes, Fetched

LEMMA DownloadKept ==
    ASSUME Inv, UNCHANGED <<dl, from, good, flip, other>>, stopped' \in BOOLEAN,
           cache' = cache \/ cache' # NoRelease
    PROVE  DownloadTypes' /\ DownloadInv'
  BY DEF Inv, TypeOK, DownloadTypes, DownloadInv, Working

\* A pending image and a running task exclude each other.
LEMMA BusyNotPending ==
    ASSUME Inv, \/ dl # "off" \/ ready \/ deciding # {} \/ cache # NoRelease
                \/ \E p \in Pollers : Active(p)
    PROVE  pending = FALSE
  BY DEF Inv, QuietInv, Quiet, TypeOK, SlotTypes

LEMMA PollStep == ASSUME Inv, Poll PROVE Inv'
  <1>1. CASE SessionReady
    <2> USE <1>1 DEF SessionReady
    <2>1. SlotTypes' /\ QuietInv'
      BY DEF Inv, TypeOK, SlotTypes, QuietInv
    <2>2. FlagTypes' /\ ProgressHonest'
      BY DEF Inv, TypeOK, FlagTypes, ProgressHonest, flagVars, dlVars
    <2>3. DownloadTypes' /\ DownloadInv'
      BY DownloadKept DEF Inv, TypeOK, DownloadTypes, flagVars, dlVars
    <2>4. PollTypes' /\ Fetched'
      BY DEF Inv, TypeOK, PollTypes, Fetched, Callers
    <2> QED BY <2>1, <2>2, <2>3, <2>4 DEF Inv, TypeOK
  <1>2. CASE SessionLost
    <2> USE <1>2 DEF SessionLost
    <2>1. SlotTypes' /\ QuietInv'
      BY BusyNotPending DEF Inv, TypeOK, SlotTypes, QuietInv, slotVars
    <2>2. FlagTypes' /\ ProgressHonest'
      BY DEF Inv, TypeOK, FlagTypes, ProgressHonest, flagVars, dlVars
    <2>3. DownloadTypes' /\ DownloadInv'
      BY DownloadKept DEF Inv, TypeOK, DownloadTypes, flagVars, dlVars, slotVars
    <2>4. PollTypes' /\ Fetched'
      BY PollKept DEF Inv, TypeOK, PollTypes, pollVars
    <2> QED BY <2>1, <2>2, <2>3, <2>4 DEF Inv, TypeOK
  <1>3. CASE TickPoll
    <2> USE <1>3 DEF TickPoll
    <2>1. SlotTypes' /\ QuietInv'
      BY BusyNotPending DEF Inv, TypeOK, SlotTypes, QuietInv, slotVars
    <2>2. FlagTypes' /\ ProgressHonest'
      BY DEF Inv, TypeOK, FlagTypes, ProgressHonest, flagVars, linkVars, dlVars
    <2>3. DownloadTypes' /\ DownloadInv'
      BY DownloadKept DEF Inv, TypeOK, DownloadTypes, flagVars, dlVars, slotVars
    <2>4. PollTypes' /\ Fetched'
      BY DEF Inv, TypeOK, PollTypes, Fetched, Callers
    <2> QED BY <2>1, <2>2, <2>3, <2>4 DEF Inv, TypeOK
  <1>4. ASSUME NEW c \in Callers, CreatePoll(c) PROVE Inv'
    <2> USE <1>4 DEF CreatePoll
    <2>1. SlotTypes' /\ QuietInv'
      BY BusyNotPending DEF Inv, TypeOK, SlotTypes, QuietInv, slotVars
    <2>2. FlagTypes' /\ ProgressHonest'
      BY DEF Inv, TypeOK, FlagTypes, ProgressHonest, flagVars, linkVars, dlVars
    <2>3. DownloadTypes' /\ DownloadInv'
      BY DownloadKept DEF Inv, TypeOK, DownloadTypes, flagVars, dlVars, slotVars
    <2>4. PollTypes' /\ Fetched'
      BY DEF Inv, TypeOK, PollTypes, PollStates, Fetched
    <2> QED BY <2>1, <2>2, <2>3, <2>4 DEF Inv, TypeOK
  <1>5. ASSUME NEW p \in Pollers, Fetch(p) PROVE Inv'
    <2> USE <1>5 DEF Fetch
    <2>1. SlotTypes' /\ QuietInv'
      BY BusyNotPending DEF Inv, TypeOK, SlotTypes, QuietInv, slotVars, Active
    <2>2. FlagTypes' /\ ProgressHonest'
      BY DEF Inv, TypeOK, FlagTypes, ProgressHonest, flagVars, linkVars, dlVars
    <2>3. DownloadTypes' /\ DownloadInv'
      BY DownloadKept DEF Inv, TypeOK, DownloadTypes, flagVars, dlVars, slotVars
    <2>4. PollTypes' /\ Fetched'
      BY DEF Inv, TypeOK, PollTypes, PollStates, Fetched
    <2> QED BY <2>1, <2>2, <2>3, <2>4 DEF Inv, TypeOK
  <1>6. ASSUME NEW p \in Pollers, Apply(p) PROVE Inv'
    <2> USE <1>6 DEF Apply
    <2>1. SlotTypes' /\ QuietInv'
      BY BusyNotPending DEF Inv, TypeOK, SlotTypes, QuietInv, slotVars, Active
    <2>2. poller[p].got \in Releases \cup {NoRelease} /\ poller[p].got # NoRelease
      BY DEF Inv, TypeOK, PollTypes, PollStates, Fetched
    <2>3. FlagTypes' /\ ProgressHonest'
      BY <2>2 DEF Inv, TypeOK, FlagTypes, ProgressHonest, linkVars, dlVars
    <2>4. DownloadTypes' /\ DownloadInv'
      BY <2>2, DownloadKept DEF Inv, TypeOK, DownloadTypes, dlVars, slotVars
    <2>5. PollTypes' /\ Fetched'
      BY DEF Inv, TypeOK, PollTypes, PollStates, Fetched
    <2> QED BY <2>1, <2>3, <2>4, <2>5 DEF Inv, TypeOK
  <1>7. ASSUME NEW p \in Pollers, EndPoll(p) PROVE Inv'
    <2> USE <1>7 DEF EndPoll
    <2>1. SlotTypes' /\ QuietInv'
      BY BusyNotPending DEF Inv, TypeOK, SlotTypes, QuietInv, slotVars, Active
    <2>2. FlagTypes' /\ ProgressHonest'
      BY DEF Inv, TypeOK, FlagTypes, ProgressHonest, flagVars, linkVars, dlVars
    <2>3. DownloadTypes' /\ DownloadInv'
      BY DownloadKept DEF Inv, TypeOK, DownloadTypes, flagVars, dlVars, slotVars
    <2>4. PollTypes' /\ Fetched'
      BY DEF Inv, TypeOK, PollTypes, PollStates, NoPoll, Fetched
    <2> QED BY <2>1, <2>2, <2>3, <2>4 DEF Inv, TypeOK
  <1> QED BY <1>1, <1>2, <1>3, <1>4, <1>5, <1>6, <1>7 DEF Poll, PollTask

LEMMA CommandStep ==
    ASSUME Inv, Install \/ Cancel \/ SoftApStart \/ ConfirmTimePasses
    PROVE  Inv'
  <1>1. CASE Install
    <2> USE <1>1 DEF Install
    <2>1. SlotTypes' /\ QuietInv'
      BY DEF Inv, TypeOK, SlotTypes, QuietInv, Quiet, Active, slotVars, linkVars,
             pollVars, ShouldStart
    <2>2. FlagTypes' /\ ProgressHonest'
      BY DEF Inv, TypeOK, FlagTypes, ProgressHonest, linkVars, ShouldStart
    <2>3. DownloadTypes' /\ DownloadInv'
      BY DEF Inv, TypeOK, DownloadTypes, DownloadInv, Working, ShouldStart,
             slotVars
    <2>4. PollTypes' /\ Fetched'
      BY PollKept DEF Inv, TypeOK, PollTypes, pollVars
    <2> QED BY <2>1, <2>2, <2>3, <2>4 DEF Inv, TypeOK
  <1>2. CASE Cancel
    <2> USE <1>2 DEF Cancel
    <2>1. SlotTypes' /\ QuietInv'
      BY DEF Inv, TypeOK, SlotTypes, QuietInv, Quiet, Active, slotVars, linkVars
    <2>2. FlagTypes' /\ ProgressHonest'
      BY DEF Inv, TypeOK, FlagTypes, ProgressHonest, linkVars
    <2>3. DownloadTypes' /\ DownloadInv'
      BY DownloadKept DEF InFlight, slotVars
    <2>4. PollTypes' /\ Fetched'
      BY PollKept
    <2> QED BY <2>1, <2>2, <2>3, <2>4 DEF Inv, TypeOK
  <1>3. CASE SoftApStart
    <2> USE <1>3 DEF SoftApStart
    <2>1. SlotTypes' /\ QuietInv'
      BY DEF Inv, TypeOK, SlotTypes, QuietInv, Quiet, Active, slotVars, flagVars,
             dlVars, pollVars
    <2>2. FlagTypes' /\ ProgressHonest'
      BY DEF Inv, TypeOK, FlagTypes, ProgressHonest, flagVars, dlVars
    <2>3. DownloadTypes' /\ DownloadInv'
      BY DownloadKept DEF Inv, TypeOK, DownloadTypes, slotVars, flagVars, dlVars
    <2>4. PollTypes' /\ Fetched'
      BY PollKept DEF Inv, TypeOK, PollTypes, pollVars
    <2> QED BY <2>1, <2>2, <2>3, <2>4 DEF Inv, TypeOK
  <1>4. CASE ConfirmTimePasses
    <2> USE <1>4 DEF ConfirmTimePasses
    <2>1. SlotTypes' /\ QuietInv'
      BY DEF Inv, TypeOK, SlotTypes, QuietInv, Quiet, Active, linkVars, flagVars,
             dlVars, pollVars
    <2>2. FlagTypes' /\ ProgressHonest'
      BY DEF Inv, TypeOK, FlagTypes, ProgressHonest, linkVars, flagVars, dlVars
    <2>3. DownloadTypes' /\ DownloadInv'
      BY DownloadKept DEF Inv, TypeOK, DownloadTypes, flagVars, dlVars
    <2>4. PollTypes' /\ Fetched'
      BY PollKept DEF Inv, TypeOK, PollTypes, pollVars
    <2> QED BY <2>1, <2>2, <2>3, <2>4 DEF Inv, TypeOK
  <1> QED BY <1>1, <1>2, <1>3, <1>4

\* Steps of the download task that neither erase the other slot nor flip it.
LEMMA SlotKept ==
    ASSUME Inv, dl # "off", UNCHANGED slotVars
    PROVE  SlotTypes' /\ QuietInv'
  BY BusyNotPending DEF Inv, TypeOK, SlotTypes, QuietInv, slotVars

\* Steps of it that only move on, within the part that looks at s_cancel.
LEMMA MoveOn ==
    ASSUME Inv, UNCHANGED <<slotVars, linkVars, flagVars, from, good, stopped,
                            pollVars>>,
           dl \in Working,
           dl' \in Working \cup {"cancelled", "failed"}
    PROVE  Inv'
  <1>1. SlotTypes' /\ QuietInv'
    BY SlotKept DEF Working
  <1>2. FlagTypes' /\ ProgressHonest'
    BY DEF Inv, TypeOK, FlagTypes, ProgressHonest, Working, flagVars, linkVars
  <1>3. DownloadTypes' /\ DownloadInv'
    BY DEF Inv, TypeOK, DownloadTypes, DownloadInv, Working, slotVars, flagVars
  <1>4. PollTypes' /\ Fetched'
    BY PollKept DEF Inv, TypeOK, PollTypes, pollVars
  <1> QED BY <1>1, <1>2, <1>3, <1>4 DEF Inv, TypeOK

LEMMA OtaTaskStep == ASSUME Inv, OtaTask PROVE Inv'
  <1>1. CASE StartDownload
    <2> USE <1>1 DEF StartDownload, Goto
    <2>1. SlotTypes' /\ QuietInv'
      BY SlotKept
    <2>2. FlagTypes' /\ ProgressHonest'
      BY DEF Inv, TypeOK, FlagTypes, ProgressHonest, linkVars
    <2>3. DownloadTypes' /\ DownloadInv'
      BY DEF Inv, TypeOK, DownloadTypes, DownloadInv, Working, slotVars
    <2>4. PollTypes' /\ Fetched'
      BY PollKept DEF Inv, TypeOK, PollTypes, pollVars
    <2> QED BY <2>1, <2>2, <2>3, <2>4 DEF Inv, TypeOK
  <1>2. CASE Begin
    <2> USE <1>2 DEF Begin, Goto
    <2>1. SlotTypes' /\ QuietInv'
      BY BusyNotPending DEF Inv, TypeOK, SlotTypes, QuietInv
    <2>2. FlagTypes' /\ ProgressHonest'
      BY DEF Inv, TypeOK, FlagTypes, ProgressHonest, linkVars, flagVars
    <2>3. DownloadTypes' /\ DownloadInv'
      BY DEF Inv, TypeOK, DownloadTypes, FlagTypes, DownloadInv, Working, flagVars
    <2>4. PollTypes' /\ Fetched'
      BY PollKept DEF Inv, TypeOK, PollTypes, pollVars
    <2> QED BY <2>1, <2>2, <2>3, <2>4 DEF Inv, TypeOK
  <1>3. CASE LookAtCancel("check", "perform") \/ LookAtCancel("received", "verify")
    BY <1>3, MoveOn DEF LookAtCancel, Goto, Working
  <1>4. CASE Perform("check") \/ PerformEnds
    BY <1>4, MoveOn DEF Perform, PerformEnds, Goto, Working
  <1>5. CASE ChooseDigest \/ VerifyDigest
    BY <1>5, MoveOn DEF ChooseDigest, VerifyDigest, Goto, Working
  <1>6. CASE Finish
    <2> USE <1>6 DEF Finish, Goto
    <2>1. Image(from, good) \in Images
      BY ImageTyped DEF Inv, TypeOK, DownloadTypes, DownloadInv, Working
    <2>2. SlotTypes' /\ QuietInv'
      BY <2>1, BusyNotPending DEF Inv, TypeOK, SlotTypes, QuietInv
    <2>3. FlagTypes' /\ ProgressHonest'
      BY DEF Inv, TypeOK, FlagTypes, ProgressHonest, linkVars, flagVars
    <2>4. DownloadTypes' /\ DownloadInv'
      BY <2>1 DEF Inv, TypeOK, DownloadTypes, DownloadInv, Working, flagVars
    <2>5. PollTypes' /\ Fetched'
      BY PollKept DEF Inv, TypeOK, PollTypes, pollVars
    <2> QED BY <2>2, <2>3, <2>4, <2>5 DEF Inv, TypeOK
  <1>7. CASE Success
    <2> USE <1>7 DEF Success, Goto
    <2>1. SlotTypes' /\ QuietInv'
      BY SlotKept
    <2>2. FlagTypes' /\ ProgressHonest'
      BY DEF Inv, TypeOK, FlagTypes, ProgressHonest, linkVars,
             flagVars
    <2>3. DownloadTypes'
      BY DEF Inv, TypeOK, DownloadTypes
    <2>4. DownloadInv'
      BY DEF Inv, DownloadInv, Working, slotVars, flagVars
    <2>5. PollTypes' /\ Fetched'
      BY PollKept DEF Inv, TypeOK, PollTypes, pollVars
    <2> QED BY <2>1, <2>2, <2>3, <2>4, <2>5 DEF Inv, TypeOK
  <1>8. CASE Abort
    <2> USE <1>8 DEF Abort, Goto
    <2>1. SlotTypes' /\ QuietInv'
      BY SlotKept
    <2>2. FlagTypes' /\ ProgressHonest'
      BY DEF Inv, TypeOK, FlagTypes, ProgressHonest, FailedAfter, linkVars,
             flagVars
    <2>3. DownloadTypes'
      BY DEF Inv, TypeOK, DownloadTypes
    <2>4. DownloadInv'
      BY DEF Inv, DownloadInv, Working, slotVars, flagVars
    <2>5. PollTypes' /\ Fetched'
      BY PollKept DEF Inv, TypeOK, PollTypes, pollVars
    <2> QED BY <2>1, <2>2, <2>3, <2>4, <2>5 DEF Inv, TypeOK
  <1>9. CASE EndDownload
    <2> USE <1>9 DEF EndDownload, Goto
    <2>1. SlotTypes' /\ QuietInv'
      BY SlotKept
    <2>2. FlagTypes' /\ ProgressHonest'
      BY DEF Inv, TypeOK, FlagTypes, ProgressHonest, linkVars,
             flagVars
    <2>3. DownloadTypes'
      BY DEF Inv, TypeOK, DownloadTypes
    <2>4. DownloadInv'
      BY DEF Inv, DownloadInv, Working, slotVars, flagVars
    <2>5. PollTypes' /\ Fetched'
      BY PollKept DEF Inv, TypeOK, PollTypes, pollVars
    <2> QED BY <2>1, <2>2, <2>3, <2>4, <2>5 DEF Inv, TypeOK
  <1>10. CASE Reboot
    BY <1>10, RestartInv DEF Reboot
  <1> QED
    BY <1>1, <1>2, <1>3, <1>4, <1>5, <1>6, <1>7, <1>8, <1>9, <1>10 DEF OtaTask

LEMMA StepInv == Inv /\ [Next]_vars => Inv'
  <1> SUFFICES ASSUME Inv, [Next]_vars PROVE Inv'
    OBVIOUS
  <1>1. CASE UNCHANGED vars
    <2> USE <1>1 DEF vars, slotVars, linkVars, flagVars, dlVars, pollVars
    <2>1. SlotTypes' /\ QuietInv'
      BY DEF Inv, TypeOK, SlotTypes, QuietInv, Quiet, Active
    <2>2. FlagTypes' /\ ProgressHonest'
      BY DEF Inv, TypeOK, FlagTypes, ProgressHonest
    <2>3. DownloadTypes' /\ DownloadInv'
      BY DownloadKept DEF Inv, TypeOK, DownloadTypes
    <2>4. PollTypes' /\ Fetched'
      BY PollKept DEF Inv, TypeOK, PollTypes
    <2> QED BY <2>1, <2>2, <2>3, <2>4 DEF Inv, TypeOK
  <1> QED
    BY <1>1, RestartInv, PollStep, CommandStep, OtaTaskStep
    DEF Next, ConfirmTimeout

LEMMA Invariance == Spec => []Inv
  BY InitInv, StepInv, PTL DEF Spec

-----------------------------------------------------------------------------
\* Every flag, slot and poll task keeps its type; a flipped slot in particular
\* holds the image of a release and never a partial one.
THEOREM TypeCorrect == Spec => []TypeOK
  <1>1. Inv => TypeOK BY DEF Inv
  <1> QED BY <1>1, Invariance, PTL

\* As long as a new image may still have to be rolled back nothing has touched
\* the slot to roll back to, whatever the order of sessions, polls, Installs
\* and resets (ota_update_on_mqtt_session_ready confirms before it polls).
THEOREM RollbackStaysPossible == Spec => []RollbackPossible
  <1>1. Inv => RollbackPossible BY DEF Inv, QuietInv, RollbackPossible
  <1> QED BY <1>1, Invariance, PTL

\* in_progress is only ever set while the download task works.
THEOREM ProgressIsHonest == Spec => []ProgressHonest
  <1>1. Inv => ProgressHonest BY DEF Inv
  <1> QED BY <1>1, Invariance, PTL

-----------------------------------------------------------------------------
(* Cancel.  A stop that reaches a started task leaves s_cancel set until    *)
(* the task has seen it.                                                   *)

StopInv ==
    /\ stopped /\ InFlight => cancel
    /\ dl \in {"created", "success"} => ~stopped

\* The races of a behaviour are its races for good.
LEMMA RacesStay == [Next]_vars => races' = races
  <1>1. ASSUME UNCHANGED linkVars \/ UNCHANGED races PROVE races' = races
    BY <1>1 DEF linkVars
  <1>2. ASSUME Restart PROVE races' = races
    BY <1>2 DEF Restart, Booted
  <1>3. ASSUME Poll PROVE races' = races
    BY <1>1, <1>3
    DEF Poll, PollTask, SessionReady, SessionLost, TickPoll, CreatePoll, Fetch,
        Apply, EndPoll
  <1>4. ASSUME Install \/ Cancel \/ SoftApStart \/ ConfirmTimePasses
        PROVE  races' = races
    BY <1>1, <1>4 DEF Install, Cancel, SoftApStart, ConfirmTimePasses
  <1>5. ASSUME OtaTask PROVE races' = races
    BY <1>1, <1>2, <1>5
    DEF OtaTask, StartDownload, Begin, LookAtCancel, Perform, PerformEnds,
        ChooseDigest, VerifyDigest, Finish, Success, Reboot, Abort, EndDownload
  <1>6. ASSUME UNCHANGED vars PROVE races' = races
    BY <1>6 DEF vars, linkVars
  <1> QED BY <1>2, <1>3, <1>4, <1>5, <1>6 DEF Next, ConfirmTimeout

LEMMA StopStep ==
    ASSUME Inv, StopInv, ~EarlyCancel, [Next]_vars
    PROVE  StopInv'
  <1> USE DEF StopInv, InFlight
  <1>1. CASE UNCHANGED <<dl, stopped, cancel>>
    BY <1>1
  <1>2. CASE Restart
    BY <1>2 DEF Restart, Booted
  <1>3. CASE Poll
    BY <1>1, <1>3
    DEF Poll, PollTask, SessionReady, SessionLost, TickPoll, CreatePoll, Fetch,
        Apply, EndPoll, flagVars, dlVars
  <1>4. CASE Install \/ SoftApStart \/ ConfirmTimePasses
    BY <1>1, <1>4
    DEF Install, SoftApStart, ConfirmTimePasses, flagVars, dlVars
  <1>5. CASE Cancel
    <2>1. CASE InFlight BY <1>5, <2>1 DEF Cancel
    <2>2. CASE ~InFlight
      <3>1. ~stopped'
        BY <1>5, <2>2, Zenon DEF Cancel
      <3> QED BY <1>5, <2>2, <3>1 DEF Cancel
    <2> QED BY <2>1, <2>2
  <1>6. CASE OtaTask
    <2> USE DEF Inv, TypeOK, DownloadTypes, FlagTypes, Goto, flagVars
    <2>1. CASE StartDownload \/ Begin
      BY <2>1 DEF StartDownload, Begin
    <2>2. CASE LookAtCancel("check", "perform")
               \/ LookAtCancel("received", "verify")
      BY <2>2 DEF LookAtCancel
    <2>3. CASE Perform("check") \/ PerformEnds
      BY <2>3 DEF Perform, PerformEnds
    <2>4. CASE ChooseDigest \/ VerifyDigest
      BY <2>4 DEF ChooseDigest, VerifyDigest
    <2>5. CASE Finish
      BY <2>5 DEF Finish
    <2>6. CASE Success \/ Abort \/ EndDownload
      BY <2>6 DEF Success, Abort, EndDownload
    <2>7. CASE Reboot
      BY <1>2, <2>7 DEF Reboot
    <2> QED BY <1>6, <2>1, <2>2, <2>3, <2>4, <2>5, <2>6, <2>7 DEF OtaTask
  <1>7. CASE UNCHANGED vars
    BY <1>1, <1>7 DEF vars, flagVars, dlVars
  <1> QED
    BY <1>2, <1>3, <1>4, <1>5, <1>6, <1>7 DEF Next, ConfirmTimeout

\* A download told to stop never flips the slot, unless the order came between
\* xTaskCreate and the first statements of ota_task (ota_update.c:666).
THEOREM CancelIsKept == Spec => []CancelStops
  <1> DEFINE StopInv2 == ~EarlyCancel => StopInv
  <1>1. Init => StopInv2
    BY DEF Init, StopInv, InFlight
  <1>2. Inv /\ StopInv2 /\ [Next]_vars => StopInv2'
    <2> SUFFICES ASSUME Inv, StopInv2, [Next]_vars, ~EarlyCancel' PROVE StopInv'
      OBVIOUS
    <2>1. ~EarlyCancel
      BY RacesStay DEF EarlyCancel
    <2> QED BY <2>1, StopStep
  <1>3. StopInv2 => CancelStops
    BY DEF StopInv, CancelStops
  <1> HIDE DEF StopInv2
  <1> QED BY <1>1, <1>2, <1>3, Invariance, PTL DEF Spec

-----------------------------------------------------------------------------
(* What is flipped to.  Without overlaps a download and a poll exclude each *)
(* other, so that s_cache is the manifest the Install was compared with     *)
(* until the digest has been looked at.                                     *)

NoPolls == deciding = {} /\ \A p \in Pollers : ~Active(p)

CheckedInv ==
    /\ dl # "off" => NoPolls
    /\ dl # "off" /\ ~flip => Newer(cache)
    /\ dl \in Working => from = cache
    /\ dl = "finish" /\ cache \in HasSha => good
    /\ flip => Newer(other.of) /\ (other.of \in HasSha => other.genuine)

LEMMA CheckedKept ==
    ASSUME CheckedInv, NoPolls \/ NoPolls',
           UNCHANGED <<dl, flip, cache, from, good, other, running>>,
           dl # "off" => NoPolls'
    PROVE  CheckedInv'
  BY DEF CheckedInv, Newer, Working

\* While nothing is downloaded nothing has to be checked.
LEMMA IdleIsChecked ==
    ASSUME Inv', dl' = "off"
    PROVE  CheckedInv'
  BY DEF Inv, DownloadInv, CheckedInv, Working

LEMMA CheckedStep ==
    ASSUME Inv, Inv', CheckedInv, ~Overlap, [Next]_vars
    PROVE  CheckedInv'
  <1>1. CASE dl' = "off"
    BY <1>1, IdleIsChecked
  <1> SUFFICES ASSUME dl' # "off" PROVE CheckedInv'
    BY <1>1
  <1>2. CASE UNCHANGED <<dl, slotVars, from, good, cache, deciding, poller>>
    <2>1. NoPolls /\ NoPolls'
      BY <1>2 DEF CheckedInv, NoPolls, Active
    <2> QED BY <1>2, <2>1, CheckedKept DEF slotVars
  <1>3. CASE Restart
    BY <1>3 DEF Restart, Booted
  <1>4. CASE Poll
    <2>1. dl = dl'
      BY <1>4 DEF Poll, PollTask, SessionReady, SessionLost, TickPoll,
                  CreatePoll, Fetch, Apply, EndPoll, dlVars
    <2>2. NoPolls /\ ~ShouldPoll
      BY <2>1 DEF CheckedInv, ShouldPoll
    <2>3. CASE SessionReady
      BY <2>2, <2>3, CheckedKept
      DEF SessionReady, flagVars, dlVars, NoPolls, Active
    <2>4. CASE SessionLost
      BY <1>2, <2>4 DEF SessionLost, flagVars, dlVars, pollVars
    <2>5. CASE TickPoll \/ \E c \in Callers : CreatePoll(c)
      BY <2>2, <2>5 DEF TickPoll, CreatePoll, NoPolls
    <2>6. CASE PollTask
      BY <2>2, <2>6 DEF PollTask, Fetch, Apply, EndPoll, NoPolls, Active
    <2> QED BY <1>4, <2>3, <2>4, <2>5, <2>6 DEF Poll
  <1>5. CASE Install
    <2>1. NoPolls /\ NoPolls'
      BY <1>5 DEF Install, NoPolls, Active, pollVars
    <2>2. CASE ~ShouldStart
      BY <1>5, <1>2, <2>2 DEF Install, pollVars
    <2>3. CASE ShouldStart
      <3>1. flip = FALSE
        BY <1>5, <2>3 DEF Install, Inv, DownloadInv, TypeOK, SlotTypes
      <3> QED
        BY <1>5, <2>1, <2>3, <3>1
        DEF Install, CheckedInv, ShouldStart, Newer, Working, slotVars
    <2> QED BY <2>2, <2>3
  <1>6. CASE Cancel \/ SoftApStart \/ ConfirmTimePasses
    <2>1. UNCHANGED <<dl, flip, cache, from, good, other, running, deciding, poller>>
      BY <1>6 DEF Cancel, SoftApStart, ConfirmTimePasses, slotVars, flagVars,
                  dlVars, pollVars
    <2>2. NoPolls /\ NoPolls'
      BY <2>1 DEF CheckedInv, NoPolls, Active
    <2> QED BY <2>1, <2>2, CheckedKept
  <1>7. CASE OtaTask
    <2> USE DEF Goto
    <2>1. UNCHANGED <<deciding, poller>> \/ Restart
      BY <1>7
      DEF OtaTask, StartDownload, Begin, LookAtCancel, Perform, PerformEnds,
          ChooseDigest, VerifyDigest, Finish, Success, Reboot, Abort,
          EndDownload, pollVars
    <2>2. dl # "off"
      BY <1>7
      DEF OtaTask, StartDownload, Begin, LookAtCancel, Perform, PerformEnds,
          ChooseDigest, VerifyDigest, Finish, Success, Reboot, Abort, EndDownload
    <2>3. CASE Restart
      BY <1>3, <2>3
    <2> SUFFICES ASSUME UNCHANGED <<deciding, poller>> PROVE CheckedInv'
      BY <2>1, <2>3
    <2>4. NoPolls'
      BY <2>2 DEF CheckedInv, NoPolls, Active
    <2>5. flip <=> dl \in {"success", "reboot"}
      BY DEF Inv, DownloadInv
    <2> USE DEF CheckedInv, Working, Newer
    <2>6. CASE StartDownload
      BY <2>4, <2>5, <2>6 DEF StartDownload, slotVars
    <2>7. CASE Begin
      BY <2>4, <2>5, <2>7 DEF Begin, flagVars
    <2>8. CASE LookAtCancel("check", "perform")
               \/ LookAtCancel("received", "verify")
      BY <2>4, <2>5, <2>8 DEF LookAtCancel, slotVars, flagVars
    <2>9. CASE Perform("check") \/ PerformEnds
      BY <2>4, <2>5, <2>9 DEF Perform, PerformEnds, slotVars, flagVars
    <2>10. CASE ChooseDigest
      BY <2>4, <2>5, <2>10 DEF ChooseDigest, slotVars, flagVars
    <2>11. CASE VerifyDigest
      BY <2>4, <2>5, <2>11 DEF VerifyDigest, Matches, slotVars, flagVars
    <2>12. CASE Finish
      BY <2>4, <2>5, <2>12 DEF Finish, Image, flagVars
    <2>13. CASE Success
      BY <2>4, <2>5, <2>13 DEF Success, slotVars
    <2>14. CASE Abort
      BY <2>4, <2>5, <2>14 DEF Abort, slotVars
    <2>15. CASE EndDownload
      BY <2>15 DEF EndDownload
    <2>16. CASE Reboot
      BY <1>3, <2>16 DEF Reboot
    <2> QED
      BY <1>7, <2>6, <2>7, <2>8, <2>9, <2>10, <2>11, <2>12, <2>13, <2>14, <2>15,
         <2>16
      DEF OtaTask
  <1>8. CASE UNCHANGED vars
    BY <1>2, <1>8 DEF vars, flagVars, dlVars, pollVars
  <1> QED
    BY <1>3, <1>4, <1>5, <1>6, <1>7, <1>8 DEF Next, ConfirmTimeout

\* Only a newer image is flipped to, and one with a digest only if its bytes
\* match, for any releases and versions, unless a manifest poll came between
\* (ota_task reads s_cache again after the download, ota_update.c:745).
THEOREM FlipsAreChecked == Spec => []FlipsToChecked
  <1> DEFINE CheckedInv2 == ~Overlap => CheckedInv
  <1>1. Init => CheckedInv2
    BY DEF Init, CheckedInv, Working
  <1>2. Inv /\ Inv' /\ CheckedInv2 /\ [Next]_vars => CheckedInv2'
    <2> SUFFICES ASSUME Inv, Inv', CheckedInv2, [Next]_vars, ~Overlap'
                 PROVE  CheckedInv'
      OBVIOUS
    <2>1. ~Overlap
      BY RacesStay DEF Overlap
    <2> QED BY <2>1, CheckedStep
  <1>3. CheckedInv2 => FlipsToChecked
    BY DEF CheckedInv, FlipsToChecked
  <1> HIDE DEF CheckedInv2
  <1> QED BY <1>1, <1>2, <1>3, Invariance, PTL DEF Spec
=============================================================================
