---------------------------- MODULE MqttSession -----------------------------
(***************************************************************************)
(* The MQTT session: what has to happen between a (re)connect and a        *)
(* gateway that Home Assistant can command, and what it presents as its    *)
(* availability meanwhile.  Five tasks share the flags of main.c, mqtt_ha.c *)
(* and mqtt_commands.c without a lock: app_main (priority 1), mqtt_sess    *)
(* and failsafe (4), esp-mqtt and the event loop (5 and above).            *)
(*                                                                         *)
(* Grain.  The handlers of esp-mqtt and of the event loop are one action   *)
(* each.  mqtt_sess and failsafe can be preempted, and publish messages    *)
(* that block: they are split where one access of a shared flag is         *)
(* separated from the next one that relies on it.                          *)
(*                                                                         *)
(* Time.  Two seconds from the last mqtt_session_arm are all that counts:  *)
(* a reading of the clock is "fresh" (less than two seconds after it),     *)
(* "due", or "before" it, which in unsigned arithmetic is due as well.     *)
(*                                                                         *)
(* The broker is external: it keeps no session of a lost connection, sends *)
(* the last will for it, and answers a subscription with what is retained. *)
(***************************************************************************)
EXTENDS Naturals

CONSTANTS
    Regimes  \* which races of RaceNames a behaviour may have: a set of sets

RaceNames == {
    "EarlyConnect",  \* the broker may connect before the discovery is over
    "StaleClock",    \* an arm may come between a clock reading and its use
    "DropInTick"     \* the connection may drop while mqtt_sess announces
    }

ASSUME SessionAssumption == Regimes \subseteq SUBSET RaceNames

VARIABLES
    races,          \* the races this behaviour may have, chosen once
    boot,           \* where app_main is
    wifi,           \* s_wifi_up && s_got_ip
    conn,           \* s_connected
    forceOffline,   \* s_force_offline_birth
    status,         \* external: the retained availability topic
    subs,           \* external: the broker has our subscriptions
    retained,       \* external: retained sets it is still to deliver
    catSet,         \* s_cat is set and the message callback registered
    armed, ready,   \* s_mqtt_session_armed, s_mqtt_session_ready
    age,            \* time since the last arm, s_mqtt_session_since_ms
    gate,           \* s_post_recovery
    oneApplied,     \* s_retained_id1_applied
    clock,          \* s_now_ms, against s_gate_armed_ms
    sess, sample,   \* where mqtt_sess is, now as it read it
    fs, mqttUp,     \* where failsafe is, its copy of s_connected
    active,         \* failsafe_is_active
    applied         \* history: retained id 1 sets applied in this recovery

bootVars   == <<races, boot, catSet>>
netVars    == <<wifi, conn>>
statusVars == <<forceOffline, status>>
brokerVars == <<subs, retained>>
armVars    == <<armed, ready, age, gate, oneApplied, clock, sample>>
fsVars     == <<fs, mqttUp, active>>
vars == <<bootVars, netVars, statusVars, brokerVars, armVars, sess, fsVars,
          applied>>

EarlyConnect == "EarlyConnect" \in races
StaleClock   == "StaleClock" \in races
DropInTick   == "DropInTick" \in races

Readings == {"before", "fresh", "due"}
RetainedIds == {"one", "other"}
MaxApplied == 2  \* the count of history stops here

NetTypes ==
    /\ races \in Regimes
    /\ boot \in {"discover", "await", "drain", "run"}
    /\ wifi \in BOOLEAN /\ conn \in BOOLEAN
    /\ forceOffline \in BOOLEAN
    /\ status \in {"online", "offline"}
    /\ subs \in BOOLEAN
    /\ retained \in SUBSET RetainedIds
    /\ catSet \in BOOLEAN

SessionTypes ==
    /\ armed \in BOOLEAN /\ ready \in BOOLEAN
    /\ age \in {"fresh", "due"}
    /\ gate \in BOOLEAN /\ oneApplied \in BOOLEAN
    /\ clock \in Readings
    /\ sess \in {"delay", "tick", "announce", "subscribed"}
    /\ sample \in IF sess = "tick" THEN Readings ELSE {"none"}

FailsafeTypes ==
    /\ fs \in {"off", "top", "link", "goOffline", "sendOffline",
               "goOnline", "sendOnline", "arm", "clear"}
    /\ mqttUp \in BOOLEAN
    /\ active \in BOOLEAN

CountType == applied \in 0..MaxApplied

TypeOK == NetTypes /\ SessionTypes /\ FailsafeTypes /\ CountType

\* Just after mqtt_ha_start, with or without Wi-Fi.
Init ==
    /\ races \in Regimes
    /\ boot = "discover" /\ catSet = FALSE
    /\ wifi \in BOOLEAN /\ conn = FALSE
    /\ forceOffline = FALSE /\ status = "offline"
    /\ subs = FALSE /\ retained = {}
    /\ armed = FALSE /\ ready = FALSE /\ age = "due"
    /\ gate = FALSE /\ oneApplied = FALSE /\ clock = "fresh"
    /\ sess = "delay" /\ sample = "none"
    /\ fs = "off" /\ mqttUp = FALSE /\ active = FALSE
    /\ applied = 0

\* now_ms - armed_ms >= APP_LINK_UP_DEBOUNCE_MS, both unsigned.
Debounced(reading) == reading # "fresh"

\* Mutant of Arm: an earlier session still counts as ready.
ArmStillReady ==
    /\ armed' = TRUE
    /\ age' = "fresh"
    /\ gate' = TRUE
    /\ oneApplied' = FALSE
    /\ clock' = "fresh"
    /\ sample' \in IF sample = "none" THEN {"none"}
                   ELSE IF StaleClock THEN {"before", "fresh"} ELSE {"fresh"}
    /\ UNCHANGED ready

\* mqtt_session_arm.  A reading mqtt_sess has not used yet is older than now,
\* if only by a tick.
Arm ==
    /\ armed' = TRUE
    /\ ready' = FALSE
    /\ age' = "fresh"
    /\ gate' = TRUE
    /\ oneApplied' = FALSE
    /\ clock' = "fresh"
    /\ sample' \in IF sample = "none" THEN {"none"}
                   ELSE IF StaleClock THEN {"before", "fresh"} ELSE {"fresh"}

-----------------------------------------------------------------------------
(* Event loop and esp-mqtt *)

InTick == sess \in {"announce", "subscribed"}

WifiUp ==
    /\ ~wifi
    /\ wifi' = TRUE
    /\ UNCHANGED <<bootVars, conn, statusVars, brokerVars, armVars, sess,
                   fsVars, applied>>

WifiDown ==
    /\ wifi
    /\ wifi' = FALSE
    /\ applied' = 0
    /\ UNCHANGED <<bootVars, conn, statusVars, brokerVars, armVars, sess, fsVars>>

\* Mutant of Birth: a reconnect is announced as online in any case.
BirthOnline == "online"

\* MQTT_EVENT_CONNECTED.
Birth == IF forceOffline THEN "offline" ELSE "online"

Connected ==
    /\ ~conn /\ wifi
    /\ EarlyConnect \/ catSet
    /\ conn' = TRUE
    /\ status' = Birth
    /\ Arm
    /\ UNCHANGED <<bootVars, wifi, forceOffline, brokerVars, sess, fsVars,
                   applied>>

Disconnected ==
    /\ conn
    /\ DropInTick \/ ~InTick
    /\ conn' = FALSE
    /\ subs' = FALSE
    /\ retained' = {}
    /\ applied' = 0
    /\ UNCHANGED <<bootVars, wifi, statusVars, armVars, sess, fsVars>>

LastWill ==
    /\ ~conn
    /\ status' = "offline"
    /\ UNCHANGED <<bootVars, netVars, forceOffline, brokerVars, armVars, sess,
                   fsVars, applied>>

\* Mutant of Allowed: the debounce is not waited for.
AllowedAtOnce(id) ==
    \/ ~gate
    \/ id = "one" /\ ~oneApplied

\* mqtt_commands_allow_inbound for a retained set.
Allowed(id) ==
    \/ ~gate
    \/ Debounced(clock) /\ id = "one" /\ ~oneApplied

RetainedMark(id) ==
    oneApplied' = IF gate /\ Allowed(id) THEN TRUE ELSE oneApplied

\* A retained set: an allowed one is applied unless the fail-safe refuses it.
RetainedSet(id) ==
    /\ conn
    /\ id \in retained
    /\ retained' = retained \ {id}
    /\ RetainedMark(id)
    /\ applied' = IF /\ Allowed(id) /\ id = "one" /\ ~active
                     /\ applied < MaxApplied
                  THEN applied + 1 ELSE applied
    /\ UNCHANGED <<bootVars, netVars, statusVars, subs, armed, ready, age, gate,
                   clock, sample, sess, fsVars>>

\* A live set of any id ends the gate.
LiveSet ==
    /\ conn /\ subs
    /\ gate
    /\ gate' = FALSE
    /\ UNCHANGED <<bootVars, netVars, statusVars, brokerVars, armed, ready, age,
                   oneApplied, clock, sample, sess, fsVars, applied>>

Network ==
    \/ WifiUp \/ WifiDown \/ Connected \/ Disconnected \/ LastWill
    \/ LiveSet
    \/ \E id \in RetainedIds : RetainedSet(id)

\* Two seconds have passed since the last arm.
TwoSeconds ==
    /\ age = "fresh"
    /\ age' = "due"
    /\ UNCHANGED <<bootVars, netVars, statusVars, brokerVars, armed, ready, gate,
                   oneApplied, clock, sample, sess, fsVars, applied>>

-----------------------------------------------------------------------------
(* mqtt_session_task *)

ReadClock ==
    /\ sess = "delay"
    /\ sample' = age
    /\ sess' = "tick"
    /\ UNCHANGED <<bootVars, netVars, statusVars, brokerVars, armed, ready, age,
                   gate, oneApplied, clock, fsVars, applied>>

SessionDue == armed /\ ~ready /\ conn /\ wifi /\ Debounced(sample)

SessionTick ==
    /\ sess = "tick"
    /\ clock' = sample
    /\ sess' = IF SessionDue THEN "announce" ELSE "delay"
    /\ sample' = "none"
    /\ UNCHANGED <<bootVars, netVars, statusVars, brokerVars, armed, ready, age,
                   gate, oneApplied, fsVars, applied>>

\* After the discovery messages: mqtt_commands_start_subscriptions, whose
\* result is not looked at.  What is retained under the topics comes back.
Subscribe ==
    /\ sess = "announce"
    /\ subs' = (subs \/ (conn /\ catSet))
    /\ IF conn /\ catSet THEN retained' \in SUBSET RetainedIds
                         ELSE UNCHANGED retained
    /\ sess' = "subscribed"
    /\ UNCHANGED <<bootVars, netVars, statusVars, armVars, fsVars, applied>>

SessionReady ==
    /\ sess = "subscribed"
    /\ ready' = TRUE
    /\ sess' = "delay"
    /\ UNCHANGED <<bootVars, netVars, statusVars, brokerVars, armed, age, gate,
                   oneApplied, clock, sample, fsVars, applied>>

SessionTask == ReadClock \/ SessionTick \/ Subscribe \/ SessionReady

-----------------------------------------------------------------------------
(* failsafe_task.  Module Failsafe says when failsafe_on_link changes the   *)
(* phase; of that only the link it requires is kept here.                  *)

ReadLink ==
    /\ fs = "top"
    /\ mqttUp' = conn
    /\ fs' = "link"
    /\ UNCHANGED <<bootVars, netVars, statusVars, brokerVars, armVars, sess,
                   active, applied>>

LinkUp == wifi /\ mqttUp

\* Mutant of OnLink: was_active is lost, every good link arms the session again.
OnLinkForgets ==
    /\ fs = "link"
    /\ \/ /\ ~LinkUp /\ ~active
          /\ active' = TRUE
          /\ fs' = "goOffline"
       \/ /\ LinkUp
          /\ active' = FALSE
          /\ fs' = "goOnline"
       \/ /\ fs' = "clear"
          /\ UNCHANGED active
    /\ UNCHANGED <<bootVars, netVars, statusVars, brokerVars, armVars, sess,
                   mqttUp, applied>>

OnLink ==
    /\ fs = "link"
    /\ \/ /\ ~LinkUp /\ ~active
          /\ active' = TRUE
          /\ fs' = "goOffline"
       \/ /\ LinkUp /\ active
          /\ active' = FALSE
          /\ fs' = "goOnline"
       \/ /\ fs' = "clear"
          /\ UNCHANGED active
    /\ UNCHANGED <<bootVars, netVars, statusVars, brokerVars, armVars, sess,
                   mqttUp, applied>>

\* mqtt_ha_publish_offline and _birth_online: the flag, then the message.
ForceOffline ==
    /\ fs = "goOffline"
    /\ forceOffline' = TRUE
    /\ fs' = "sendOffline"
    /\ UNCHANGED <<bootVars, netVars, status, brokerVars, armVars, sess, mqttUp,
                   active, applied>>

SendOffline ==
    /\ fs = "sendOffline"
    /\ status' = IF conn THEN "offline" ELSE status
    /\ fs' = "clear"
    /\ UNCHANGED <<bootVars, netVars, forceOffline, brokerVars, armVars, sess,
                   mqttUp, active, applied>>

ForceOnline ==
    /\ fs = "goOnline"
    /\ forceOffline' = FALSE
    /\ fs' = "sendOnline"
    /\ UNCHANGED <<bootVars, netVars, status, brokerVars, armVars, sess, mqttUp,
                   active, applied>>

SendOnline ==
    /\ fs = "sendOnline"
    /\ status' = IF conn THEN "online" ELSE status
    /\ fs' = "arm"
    /\ UNCHANGED <<bootVars, netVars, forceOffline, brokerVars, armVars, sess,
                   mqttUp, active, applied>>

ArmAgain ==
    /\ fs = "arm"
    /\ mqttUp
    /\ Arm
    /\ fs' = "clear"
    /\ UNCHANGED <<bootVars, netVars, statusVars, brokerVars, sess, mqttUp, active,
                   applied>>

\* The end of the loop, with the mqtt_up read at its start.
ClearSession ==
    /\ fs = "clear"
    /\ armed' = (armed /\ mqttUp)
    /\ ready' = (ready /\ mqttUp)
    /\ fs' = "top"
    /\ UNCHANGED <<bootVars, netVars, statusVars, brokerVars, age, gate,
                   oneApplied, clock, sample, sess, mqttUp, active, applied>>

FailsafeTask ==
    \/ ReadLink \/ OnLink \/ ForceOffline \/ SendOffline
    \/ ForceOnline \/ SendOnline \/ ArmAgain \/ ClearSession

-----------------------------------------------------------------------------
(* app_main, from the catalog discovery on *)

CommandsInit ==
    /\ boot = "discover"
    /\ catSet' = TRUE
    /\ boot' = "await"
    /\ UNCHANGED <<races, netVars, statusVars, brokerVars, armVars, sess, fsVars,
                   applied>>

\* The wait for the connection ends, with or without one.
BootArm ==
    /\ boot = "await"
    /\ IF conn /\ ~armed THEN Arm ELSE UNCHANGED armVars
    /\ boot' = "drain"
    /\ UNCHANGED <<races, catSet, netVars, statusVars, brokerVars, sess, fsVars,
                   applied>>

StartFailsafe ==
    /\ boot = "drain"
    /\ boot' = "run"
    /\ fs' = "top"
    /\ UNCHANGED <<races, catSet, netVars, statusVars, brokerVars, armVars, sess,
                   mqttUp, active, applied>>

AppMain == CommandsInit \/ BootArm \/ StartFailsafe

-----------------------------------------------------------------------------
Next == Network \/ TwoSeconds \/ SessionTask \/ FailsafeTask \/ AppMain

Spec == Init /\ [][Next]_vars

\* Time passes and every task keeps running; the network owes nothing.
Fairness ==
    /\ WF_vars(TwoSeconds)
    /\ WF_vars(SessionTask)
    /\ WF_vars(FailsafeTask)
    /\ WF_vars(AppMain)
FairSpec == Spec /\ Fairness

-----------------------------------------------------------------------------
(* Properties *)

\* What Home Assistant sees while connected is what the fail-safe decided,
\* except while the failsafe task is publishing a change of it: no reconnect,
\* wherever it falls, brings back "online" during ACTIVE or leaves "offline"
\* behind after it.
Publishing == fs \in {"goOffline", "sendOffline", "goOnline", "sendOnline"}
AvailabilityHonest ==
    (conn /\ ~Publishing) => status = IF active THEN "offline" ELSE "online"

\* A session that stays armed on a link that stays up becomes ready for good.
ArmedBecomesReady == <>[](armed /\ conn /\ wifi) => <>[]ready

\* main.c: "MQTT session ready (discovery + subscribe after debounce)".  While
\* the session counts as ready the broker has its subscriptions, unless it
\* connected before they could be made or the connection dropped within a tick.
ReadyIsSubscribed == (ready /\ conn /\ ~EarlyConnect /\ ~DropInTick) => subs

\* mqtt_commands.h: a retained set passes the gate only "after
\* APP_LINK_UP_DEBOUNCE_MS from arm time", unless the clock it is compared with
\* was read before the arm.
RetainedAfterDebounce ==
    [][(~StaleClock /\ gate /\ applied' > applied) => age = "due"]_vars
=============================================================================
