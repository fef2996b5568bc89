----------------------------- MODULE OtaUpdate ------------------------------
(***************************************************************************)
(* firmware/main/ota_update.c: the cached release manifest, its poll, the  *)
(* download of an Install into the other slot, and the confirmation of a   *)
(* new image or its rollback.                                              *)
(*                                                                         *)
(* The flags are shared without a lock by esp-mqtt (Install, priority 5),  *)
(* failsafe (cancel and tick, 4), mqtt_sess (session ready, 4) and the two *)
(* tasks created here, ota and ota_poll (3).  Calls of the first are one   *)
(* action; schedule_manifest_poll, which two tasks of the same priority    *)
(* call, is split between its test and its stores; the created tasks are   *)
(* split at every blocking call and every look at a cancel flag.           *)
(*                                                                         *)
(* External: the servers, which may hand out a bad asset; esp_https_ota;   *)
(* and the bootloader, which starts a flipped slot as pending verify and   *)
(* goes back to the other slot when a pending image is reset.              *)
(***************************************************************************)
EXTENDS Naturals

CONSTANTS
    Releases,   \* what a manifest can announce
    Factory,    \* the release installed over USB
    Version,    \* [Releases \cup {Factory} -> Nat], the semver as a number
    HasSha,     \* releases whose manifest has a sha256
    NoRelease,  \* s_has_cache is false; also an empty poll result
    Pollers,    \* ota_poll tasks that can exist at once
    Regimes     \* the sets of races a behaviour may have

RaceNames == {"Overlap", "EarlyCancel", "Repeat"}

ASSUME OtaAssumption ==
    /\ Version \in [Releases \cup {Factory} -> Nat]
    /\ HasSha \subseteq Releases
    /\ NoRelease \notin Releases \cup {Factory}
    /\ Regimes \subseteq SUBSET RaceNames

VARIABLES
    races,               \* the races of this behaviour
    running, other,      \* what the two OTA slots hold
    flip,                \* otadata: start the other slot next
    pending,             \* the running image is pending verify
    late,                \* OTA_CONFIRM_TIMEOUT_MS have passed since boot
    ready, softap,       \* s_mqtt_session_ready, s_softap_active
    cache,               \* s_cache and s_has_cache
    failed, inProgress,  \* s_failed, s_in_progress
    cancel,              \* s_cancel
    dl,                  \* where ota_task is; "off" is s_ota_task = NULL
    from, good,          \* the release it downloads; the asset is genuine
    deciding,            \* callers between the test and the stores
    poller,              \* [Pollers -> a poll task and what it fetched]
    inflight, pollCancel,\* s_poll_inflight, s_poll_cancel
    stopped              \* history: this download was told to stop

slotVars == <<running, other, flip, pending, late>>
linkVars == <<races, ready, softap>>
flagVars == <<cache, failed, inProgress, cancel>>
dlVars   == <<dl, from, good, stopped>>
pollVars == <<deciding, poller, inflight, pollCancel>>
vars == <<slotVars, linkVars, flagVars, dlVars, pollVars>>

\* An Install may come while a manifest poll is in flight.
Overlap == "Overlap" \in races
\* A cancel may come before the ota task has started.
EarlyCancel == "EarlyCancel" \in races
\* An Install may come while another one is at work.
Repeat == "Repeat" \in races

Image(r, ok) == [of |-> r, genuine |-> ok]
Images == [of : Releases \cup {Factory}, genuine : BOOLEAN]
Partial == [of |-> NoRelease, genuine |-> FALSE]
Callers == {"mqtt_sess", "failsafe"}
NoPoll == [at |-> "off", got |-> NoRelease]
PollStates == [at : {"off", "fetch", "apply", "end"},
               got : Releases \cup {NoRelease}]

SlotTypes ==
    /\ running \in Images /\ other \in Images \cup {Partial}
    /\ flip \in BOOLEAN /\ pending \in BOOLEAN /\ late \in BOOLEAN

FlagTypes ==
    /\ races \in Regimes
    /\ ready \in BOOLEAN /\ softap \in BOOLEAN
    /\ cache \in Releases \cup {NoRelease}
    /\ failed \in BOOLEAN /\ inProgress \in BOOLEAN /\ cancel \in BOOLEAN

DownloadTypes ==
    /\ dl \in {"off", "created", "begin", "check", "perform", "received",
               "verify", "digest", "finish", "success", "reboot",
               "cancelled", "failed", "tail"}
    /\ from \in Releases \cup {NoRelease}
    /\ good \in BOOLEAN /\ stopped \in BOOLEAN

PollTypes ==
    /\ deciding \in SUBSET Callers
    /\ poller \in [Pollers -> PollStates]
    /\ inflight \in BOOLEAN /\ pollCancel \in BOOLEAN

TypeOK == SlotTypes /\ FlagTypes /\ DownloadTypes /\ PollTypes

\* RAM after a reset.
Booted ==
    /\ UNCHANGED races
    /\ late' = FALSE
    /\ ready' = FALSE /\ softap' \in BOOLEAN
    /\ cache' = NoRelease
    /\ failed' = FALSE /\ inProgress' = FALSE /\ cancel' = FALSE
    /\ dl' = "off" /\ from' = NoRelease /\ good' = FALSE
    /\ deciding' = {} /\ poller' = [p \in Pollers |-> NoPoll]
    /\ inflight' = FALSE /\ pollCancel' = FALSE
    /\ stopped' = FALSE

Init ==
    /\ races \in Regimes
    /\ running = Image(Factory, TRUE) /\ other = Partial
    /\ flip = FALSE /\ pending = FALSE /\ late = FALSE
    /\ ready = FALSE /\ softap \in BOOLEAN
    /\ cache = NoRelease
    /\ failed = FALSE /\ inProgress = FALSE /\ cancel = FALSE
    /\ dl = "off" /\ from = NoRelease /\ good = FALSE
    /\ deciding = {} /\ poller = [p \in Pollers |-> NoPoll]
    /\ inflight = FALSE /\ pollCancel = FALSE
    /\ stopped = FALSE

-----------------------------------------------------------------------------
(* The bootloader and the confirm window *)

\* esp_restart, a panic or a power loss.
Restart ==
    /\ Booted
    /\ flip' = FALSE
    /\ IF flip \/ pending
         THEN running' = other /\ other' = running
         ELSE UNCHANGED <<running, other>>
    /\ pending' = flip

ConfirmTimePasses ==
    /\ ~late
    /\ late' = TRUE
    /\ UNCHANGED <<running, other, flip, pending, linkVars, flagVars, dlVars,
                   pollVars>>

\* ota_update_tick, first half: restart for rollback.
ConfirmTimeout == pending /\ late /\ Restart

-----------------------------------------------------------------------------
(* Manifest poll *)

Active(p) == poller[p].at # "off"

\* ota_should_poll_manifest and the test of schedule_manifest_poll; the
\* intervals between polls are left out.
ShouldPoll ==
    /\ ~softap /\ ~inProgress /\ ~inflight
    /\ Overlap \/ dl = "off"

\* Mutant of SessionReady: a poll, but no confirmation.
SessionReadyUnconfirmed ==
    /\ ~ready /\ ~softap
    /\ "mqtt_sess" \notin deciding
    /\ ready' = TRUE
    /\ deciding' = IF ShouldPoll THEN deciding \cup {"mqtt_sess"} ELSE deciding
    /\ UNCHANGED <<races, running, other, flip, pending, late, softap, flagVars,
                   dlVars, poller, inflight, pollCancel>>

\* ota_update_on_mqtt_session_ready: confirm first, then poll.
SessionReady ==
    /\ ~ready /\ ~softap
    /\ "mqtt_sess" \notin deciding
    /\ ready' = TRUE
    /\ pending' = FALSE
    /\ deciding' = IF ShouldPoll THEN deciding \cup {"mqtt_sess"} ELSE deciding
    /\ UNCHANGED <<races, running, other, flip, late, softap, flagVars, dlVars,
                   poller, inflight, pollCancel>>

\* The session is lost: main.c clears s_mqtt_session_ready.
SessionLost ==
    /\ ready
    /\ ready' = FALSE
    /\ UNCHANGED <<races, slotVars, softap, flagVars, dlVars, pollVars>>

\* ota_update_tick, second half.
TickPoll ==
    /\ ready
    /\ ShouldPoll
    /\ deciding' = deciding \cup {"failsafe"}
    /\ UNCHANGED <<slotVars, linkVars, flagVars, dlVars, poller, inflight,
                   pollCancel>>

CreatePoll(c) ==
    /\ c \in deciding
    /\ deciding' = deciding \ {c}
    /\ inflight' = TRUE
    /\ pollCancel' = FALSE
    /\ \E p \in Pollers :
         /\ ~Active(p)
         /\ poller' = [poller EXCEPT ![p].at = "fetch"]
    /\ UNCHANGED <<slotVars, linkVars, flagVars, dlVars>>

\* http_get_body and ota_manifest_parse: a valid manifest or none.
Fetch(p) ==
    /\ poller[p].at = "fetch"
    /\ \E r \in Releases \cup {NoRelease} :
         poller' = [poller EXCEPT ![p] =
                      IF r = NoRelease \/ pollCancel
                      THEN [at |-> "end", got |-> NoRelease]
                      ELSE [at |-> "apply", got |-> r]]
    /\ UNCHANGED <<slotVars, linkVars, flagVars, dlVars, deciding, inflight,
                   pollCancel>>

\* The second look at s_poll_cancel, then apply_manifest.
Apply(p) ==
    /\ poller[p].at = "apply"
    /\ IF pollCancel
         THEN UNCHANGED <<cache, failed>>
         ELSE cache' = poller[p].got /\ failed' = FALSE
    /\ poller' = [poller EXCEPT ![p] = [at |-> "end", got |-> NoRelease]]
    /\ UNCHANGED <<slotVars, linkVars, inProgress, cancel, dlVars, deciding,
                   inflight, pollCancel>>

EndPoll(p) ==
    /\ poller[p].at = "end"
    /\ inflight' = FALSE
    /\ pollCancel' = FALSE
    /\ poller' = [poller EXCEPT ![p] = NoPoll]
    /\ UNCHANGED <<slotVars, linkVars, flagVars, dlVars, deciding>>

PollTask == \E p \in Pollers : Fetch(p) \/ Apply(p) \/ EndPoll(p)
Poll ==
    \/ SessionReady \/ SessionLost \/ TickPoll
    \/ \E c \in Callers : CreatePoll(c)
    \/ PollTask

-----------------------------------------------------------------------------
(* Install and cancel *)

Newer(r) == Version[r] > Version[running.of]

\* ota_should_start_install.
ShouldStart ==
    /\ ~softap
    /\ ~inProgress
    /\ cache # NoRelease
    /\ Newer(cache)

\* ota_update_handle_install, on a live command of a subscribed session.
Install ==
    /\ Overlap \/ (deciding = {} /\ \A p \in Pollers : ~Active(p))
    /\ Repeat \/ dl = "off"
    /\ \/ /\ ~ShouldStart
          /\ failed' = TRUE
          /\ UNCHANGED <<dl, stopped>>
       \/ /\ ShouldStart
          /\ dl = "off"
          /\ dl' = "created"
          /\ stopped' = FALSE
          /\ UNCHANGED failed
    /\ UNCHANGED <<slotVars, linkVars, cache, inProgress, cancel, from, good,
                   pollVars>>

\* ota_update_cancel, from failsafe_task turning ACTIVE.  Once ota_task is
\* past its last look at s_cancel the download counts as over.
InFlight == dl \in {"created", "begin", "check", "perform", "received",
                    "verify", "digest", "finish"}

Cancel ==
    /\ EarlyCancel \/ dl # "created"
    /\ cancel' = TRUE
    /\ pollCancel' = TRUE
    /\ stopped' = InFlight
    /\ UNCHANGED <<slotVars, linkVars, cache, failed, inProgress, dl, from, good,
                   deciding, poller, inflight>>

\* Provisioning by long press.
SoftApStart ==
    /\ ~softap
    /\ softap' = TRUE
    /\ UNCHANGED <<races, slotVars, ready, flagVars, dlVars, pollVars>>

-----------------------------------------------------------------------------
(* ota_task *)

Goto(at) == dl' = at

StartDownload ==
    /\ dl = "created"
    /\ inProgress' = TRUE
    /\ failed' = FALSE
    /\ cancel' = FALSE
    /\ Goto("begin")
    /\ UNCHANGED <<slotVars, linkVars, cache, from, good, stopped, pollVars>>

\* Slot and size checks and esp_https_ota_begin, with the URL cached by now.
\* A download that begins writes over the other slot.
Begin ==
    /\ dl = "begin"
    /\ from' = cache
    /\ good' \in BOOLEAN
    /\ \/ Goto("check") /\ other' = Partial
       \/ Goto("failed") /\ UNCHANGED other
    /\ UNCHANGED <<running, flip, pending, late, linkVars, flagVars, stopped,
                   pollVars>>

\* A look at s_cancel on the way to the next step.
LookAtCancel(at, next) ==
    /\ dl = at
    /\ Goto(IF cancel THEN "cancelled" ELSE next)
    /\ UNCHANGED <<slotVars, linkVars, flagVars, from, good, stopped, pollVars>>

\* esp_https_ota_perform: more to come, all there, or an error.
Perform(result) ==
    /\ dl = "perform"
    /\ Goto(result)
    /\ UNCHANGED <<slotVars, linkVars, flagVars, from, good, stopped, pollVars>>

\* s_cache.has_sha256 decides whether the digest is looked at.
ChooseDigest ==
    /\ dl = "verify"
    /\ Goto(IF cache \in HasSha THEN "digest" ELSE "finish")
    /\ UNCHANGED <<slotVars, linkVars, flagVars, from, good, stopped, pollVars>>

\* Mutant of Matches: the bytes are not looked at.
MatchesRelease == cache = from

\* verify_partition_sha256, against the digest cached when it is through.
Matches == good /\ cache = from
VerifyDigest ==
    /\ dl = "digest"
    /\ Goto(IF cancel THEN "cancelled" ELSE IF Matches THEN "finish" ELSE "failed")
    /\ UNCHANGED <<slotVars, linkVars, flagVars, from, good, stopped, pollVars>>

\* Mutant of Finish: no last look at s_cancel.
FinishAnyway ==
    /\ dl = "finish"
    /\ other' = Image(from, good)
    /\ flip' = TRUE
    /\ Goto("success")
    /\ UNCHANGED <<running, pending, late, linkVars, flagVars, from, good,
                   stopped, pollVars>>

\* The last look at s_cancel and esp_https_ota_finish, which may refuse.
Finish ==
    /\ dl = "finish"
    /\ \/ cancel /\ Goto("cancelled") /\ UNCHANGED <<other, flip>>
       \/ ~cancel /\ Goto("failed") /\ UNCHANGED <<other, flip>>
       \/ /\ ~cancel
          /\ other' = Image(from, good)
          /\ flip' = TRUE
          /\ Goto("success")
    /\ UNCHANGED <<running, pending, late, linkVars, flagVars, from, good,
                   stopped, pollVars>>

\* The locals from and good go out of scope here.
Success ==
    /\ dl = "success"
    /\ inProgress' = FALSE
    /\ failed' = FALSE
    /\ from' = NoRelease /\ good' = FALSE
    /\ Goto("reboot")
    /\ UNCHANGED <<slotVars, linkVars, cache, cancel, stopped, pollVars>>

Reboot == dl = "reboot" /\ Restart

\* ota_failed_after_download_abort: a cancel keeps s_failed, an error sets it.
FailedAfter(prior, cancelCaused) == IF cancelCaused THEN prior ELSE TRUE

Abort ==
    /\ dl \in {"cancelled", "failed"}
    /\ inProgress' = FALSE
    /\ failed' = FailedAfter(failed, dl = "cancelled")
    /\ from' = NoRelease /\ good' = FALSE
    /\ stopped' = FALSE
    /\ Goto("tail")
    /\ UNCHANGED <<slotVars, linkVars, cache, cancel, pollVars>>

\* Mutant of EndDownload: s_ota_task is not cleared.
EndDownloadHeld == dl = "tail" /\ UNCHANGED vars

EndDownload ==
    /\ dl = "tail"
    /\ Goto("off")
    /\ UNCHANGED <<slotVars, linkVars, flagVars, from, good, stopped, pollVars>>

PerformEnds == Perform("received") \/ Perform("failed")

OtaTask ==
    \/ StartDownload \/ Begin
    \/ LookAtCancel("check", "perform") \/ LookAtCancel("received", "verify")
    \/ Perform("check") \/ PerformEnds
    \/ ChooseDigest \/ VerifyDigest \/ Finish \/ Success \/ Reboot
    \/ Abort \/ EndDownload

-----------------------------------------------------------------------------
Next ==
    \/ Restart \/ ConfirmTimePasses \/ ConfirmTimeout
    \/ Poll
    \/ Install \/ Cancel \/ SoftApStart
    \/ OtaTask

Spec == Init /\ [][Next]_vars

\* The tasks run and time passes; HTTP calls return, at the latest by their
\* timeouts, and an image has an end.
Fairness ==
    /\ WF_vars(ConfirmTimePasses)
    /\ WF_vars(ConfirmTimeout)
    /\ WF_vars(PollTask)
    /\ WF_vars(OtaTask)
    /\ SF_vars(PerformEnds)
FairSpec == Spec /\ Fairness

-----------------------------------------------------------------------------
(* Properties *)

\* While a new image waits for its confirmation the slot to roll back to is
\* intact: nothing that erases it (an Install) can come before the session
\* that confirms, because a manifest is only ever cached after that session.
RollbackPossible == pending => other \in Images

\* Home Assistant's in_progress is not stuck: it ends with the task.
ProgressHonest == inProgress => dl \notin {"off", "created", "reboot", "tail"}

\* Every download comes to an end, by success, error or cancel.
DownloadEnds == dl # "off" ~> dl = "off"

\* The version check at Install and the digest hold for what is flipped to,
\* unless a poll replaced the cached manifest under the download.
FlipsToChecked ==
    flip /\ ~Overlap =>
        /\ Newer(other.of)
        /\ other.of \in HasSha => other.genuine

\* main.c: "do not wedge OT/fail-safe on an in-flight download".  A download
\* the fail-safe told to stop does not flip the slot, unless the order came
\* between xTaskCreate and the first statements of ota_task.
CancelStops == dl = "success" /\ ~EarlyCancel => ~stopped

=============================================================================
