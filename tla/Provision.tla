------------------------------ MODULE Provision ------------------------------
(***************************************************************************)
(* The configuration in NVS: the save form of the SoftAP portal            *)
(* (provision_softap.c), the long press that clears it, the store of the   *)
(* last accepted CH setpoint (nvs_store.c), and what app_main makes of the *)
(* configuration at boot, with power cuts at any time.                     *)
(*                                                                         *)
(* A save writes one NVS key after the other and takes no lock.  Each      *)
(* nvs_set reaches flash on its own, and its result is not looked at.      *)
(* Portal (httpd), button and ot_poll are three tasks: a task that waits   *)
(* for flash lets the others run, so any two of them can overlap.          *)
(*                                                                         *)
(* A form is a model value.  A key holds the form its value came from, or  *)
(* Blank (empty, or never written).  Keys always written and cleared as a  *)
(* pair or more of strings (SSID and password, the broker's address and    *)
(* login) are one key.  device_id never changes.  Forms come with the right*)
(* PIN: others change nothing, and an accepted one ends in a restart.      *)
(*                                                                         *)
(* External: NVS and the flash below it, power, and the user's button.     *)
(***************************************************************************)
EXTENDS Integers, FiniteSets

CONSTANTS
    Forms,      \* what users submit
    Tls,        \* forms with the TLS box ticked
    WithCa,     \* forms with a CA
    Lo, Hi,     \* their CH bounds in 1/1000 C; those of Blank are the defaults
    Temps,      \* CH setpoints that the boiler accepts
    Psks,       \* passwords the generator can come up with
    Blank,
    MaxFaults   \* bound: writes that fail, saves that are cut off or overlap

ASSUME ProvisionAssumption ==
    /\ Tls \subseteq Forms /\ WithCa \subseteq Forms
    /\ Blank \notin Forms /\ Blank \notin Temps /\ Blank \notin Psks
    /\ Lo \in [Forms \cup {Blank} -> Int]
    /\ Hi \in [Forms \cup {Blank} -> Int]
    /\ Lo[Blank] < Hi[Blank]
    /\ MaxFaults \in Nat

VARIABLES
    flash, ca, psk,     \* NVS: the keys of the config, mqtt_ca, softap_psk
    cfg,                \* s_cfg of nvs_store.c
    seen,               \* s_cfg of main.c, copied from it at boot; "last" is not used
    mode,               \* what app_main has come to
    step,               \* where each writer is; 0 if it is idle
    buf,                \* the config each writer is saving
    storing,            \* the setpoint ot_poll is storing, or Blank
    clean,              \* history: the writer's work was neither failed nor overlapped
    saved, torn,        \* history: credentials last saved as a whole; a save was not
    mixed,              \* history: a save of the form was not finished, so for the bounds
    newest, raced,      \* history: last setpoint stored; a store failed or overlapped a clear
    shown,              \* history: passwords written to the console
    faults              \* history: counted up to MaxFaults

nvsVars == <<flash, ca, psk>>
bootVars == <<seen, mode>>
writerVars == <<step, buf, clean>>
saveHist == <<saved, torn, mixed>>
lastVars == <<storing, newest, raced>>
vars == <<nvsVars, cfg, bootVars, writerVars, saveHist, lastVars, shown, faults>>

\* The order in which nvs_store_save writes; "last" only if there is one.
Order == <<"wifi", "mqtt", "tls", "lo", "hi", "last">>
Credentials == {"wifi", "mqtt", "tls"}
Bounds == {"lo", "hi"}
Keys == Credentials \cup Bounds \cup {"last"}

Configs ==
    {c \in [Keys -> Forms \cup Temps \cup {Blank}] :
        /\ \A k \in Credentials \cup Bounds : c[k] \in Forms \cup {Blank}
        /\ c["last"] \in Temps \cup {Blank}}
Empty == [k \in Keys |-> Blank]
Used(c) == [k \in Credentials \cup Bounds |-> c[k]]

Writers == {"portal", "button"}
Other(w) == IF w = "portal" THEN "button" ELSE "portal"
Commit == 7
CaStep == 8
Restart == 9
Saving(w) == step[w] \in 1..CaStep

TypeOK ==
    /\ flash \in Configs /\ ca \in Forms \cup {Blank} /\ psk \in Psks \cup {Blank}
    /\ cfg \in Configs
    /\ seen \in [Credentials \cup Bounds -> Forms \cup {Blank}]
    /\ mode \in {"off", "boot", "psk", "softap", "run", "noMqtt"}
    /\ step \in [Writers -> 0..Restart]
    /\ buf \in [Writers -> Configs]
    /\ storing \in Temps \cup {Blank}
    /\ clean \in [Writers -> BOOLEAN]
    /\ saved \in Forms \cup {Blank} /\ torn \in BOOLEAN /\ mixed \in BOOLEAN
    /\ newest \in Temps \cup {Blank} /\ raced \in BOOLEAN
    /\ shown \subseteq Psks
    /\ faults \in 0..MaxFaults

\* A device that was never provisioned.
Init ==
    /\ flash = Empty /\ ca = Blank /\ psk = Blank
    /\ cfg = Empty /\ seen = Used(Empty)
    /\ mode = "off"
    /\ step = [w \in Writers |-> 0]
    /\ buf = [w \in Writers |-> Empty]
    /\ storing = Blank
    /\ clean = [w \in Writers |-> TRUE]
    /\ saved = Blank /\ torn = FALSE /\ mixed = FALSE
    /\ newest = Blank /\ raced = FALSE
    /\ shown = {}
    /\ faults = 0

Fault == faults < MaxFaults /\ faults' = faults + 1

-----------------------------------------------------------------------------
(* Boot, restart, power *)

\* esp_restart, an abort or a power cut.  What was only in RAM is gone.
Reset ==
    /\ mode' = "off"
    /\ cfg' = Empty /\ seen' = Used(Empty)
    /\ step' = [w \in Writers |-> 0]
    /\ buf' = [w \in Writers |-> Empty]
    /\ clean' = [w \in Writers |-> clean[w] /\ ~Saving(w)]
    /\ storing' = Blank

PowerCut ==
    /\ mode # "off"
    /\ Reset
    /\ IF \E w \in Writers : Saving(w) THEN Fault ELSE UNCHANGED faults
    /\ UNCHANGED <<nvsVars, saveHist, newest, raced, shown>>

\* nvs_store_init.
Load ==
    /\ mode = "off"
    /\ cfg' = flash /\ seen' = Used(flash)
    /\ mode' = "boot"
    /\ UNCHANGED <<nvsVars, writerVars, saveHist, lastVars, shown, faults>>

\* nvs_store_init finds no free page, or pages of another NVS version.
LoadErased ==
    /\ mode = "off"
    /\ flash' = Empty /\ ca' = Blank /\ psk' = Blank
    /\ cfg' = Empty /\ seen' = Used(Empty)
    /\ mode' = "boot"
    /\ saved' = Blank /\ torn' = FALSE /\ mixed' = FALSE
    /\ newest' = Blank /\ raced' = FALSE /\ shown' = {}
    /\ UNCHANGED <<writerVars, storing, faults>>

\* provision_boot_action, and the same test before it in app_main.
BootAction ==
    IF seen["wifi"] = Blank \/ seen["mqtt"] = Blank THEN "psk"
    ELSE IF seen["tls"] \in Tls /\ ca = Blank THEN "noMqtt"
    ELSE "run"

Decide ==
    /\ mode = "boot"
    /\ mode' = BootAction
    /\ UNCHANGED <<nvsVars, cfg, seen, writerVars, saveHist, lastVars, shown, faults>>

Show(p) == mode' = "softap" /\ shown' = shown \cup {p}

\* nvs_store_ensure_softap_psk and the rest of provision_softap_start.
KnownPsk ==
    /\ mode = "psk"
    /\ psk # Blank
    /\ Show(psk)
    /\ UNCHANGED <<nvsVars, cfg, seen, writerVars, saveHist, lastVars, faults>>

NewPsk(p) ==
    /\ mode = "psk"
    /\ psk = Blank
    /\ psk' = p
    /\ Show(p)
    /\ UNCHANGED <<flash, ca, cfg, seen, writerVars, saveHist, lastVars, faults>>

\* The password could not be stored or SoftAP not started: app_main aborts.
SoftApFails ==
    /\ mode = "psk"
    /\ psk' \in IF psk = Blank THEN Psks \cup {Blank} ELSE {psk}
    /\ Reset
    /\ Fault
    /\ UNCHANGED <<flash, ca, saveHist, newest, raced, shown>>

-----------------------------------------------------------------------------
(* The portal and the button *)

\* ch_min_x100, ch_max_x100: the cast to int32_t cuts off what is left.
Stored(x) == IF x >= 0 THEN x \div 10 ELSE -((-x) \div 10)

\* provision_validate.
Valid(f) == (f \in Tls => f \in WithCa) /\ Lo[f] < Hi[f]

\* Two saves at once: neither can be relied upon.
Begin(w, c) ==
    /\ buf' = [buf EXCEPT ![w] = c]
    /\ step' = [step EXCEPT ![w] = 1]
    /\ clean' = IF Saving(Other(w)) THEN [v \in Writers |-> FALSE]
                ELSE [clean EXCEPT ![w] = TRUE]
    /\ torn' = TRUE
    /\ IF step[Other(w)] # 0 THEN Fault ELSE UNCHANGED faults
    /\ UNCHANGED <<nvsVars, cfg, bootVars, saved, storing, newest, shown>>

\* save_post, as far as nvs_store_save.
Submit(f) ==
    /\ mode = "softap"
    /\ step["portal"] = 0
    /\ Valid(f)
    /\ Begin("portal", [k \in Keys |-> IF k = "last" THEN cfg[k] ELSE f])
    /\ mixed' = TRUE
    /\ UNCHANGED raced

\* Mutant of Cleared: the bounds are cleared too, but one of them only.
ClearedLo == [k \in Keys |-> IF k \in Credentials \cup {"lo"} THEN Blank ELSE cfg[k]]

Cleared == [k \in Keys |-> IF k \in Credentials THEN Blank ELSE cfg[k]]

\* A long press: nvs_store_clear_credentials, as far as nvs_store_save.
Press ==
    /\ mode # "off"
    /\ step["button"] = 0
    /\ Begin("button", Cleared)
    /\ raced' = (raced \/ storing # Blank)
    /\ UNCHANGED mixed

Unclean(w) == clean' = [clean EXCEPT ![w] = FALSE]

\* After nvs_store_save has failed: save_post does not look at its result,
\* nvs_store_clear_credentials returns, and the button task restarts.
SaveFailed(w) ==
    /\ Unclean(w)
    /\ step' = [step EXCEPT ![w] = IF w = "portal" THEN CaStep ELSE Restart]
    /\ Fault
    /\ UNCHANGED <<nvsVars, cfg, bootVars, buf, saveHist, lastVars, shown>>

OpenFails(w) == step[w] = 1 /\ SaveFailed(w)
CommitFails(w) == step[w] = Commit /\ SaveFailed(w)

\* One key.  The "last" of a config without one is left as it is.
WriteKey(w) ==
    /\ step[w] \in 1..6
    /\ LET k == Order[step[w]] IN
        \/ /\ flash' = IF k = "last" /\ buf[w][k] = Blank THEN flash
                       ELSE [flash EXCEPT ![k] = buf[w][k]]
           /\ UNCHANGED <<clean, faults>>
        \/ Unclean(w) /\ Fault /\ UNCHANGED flash
    /\ step' = [step EXCEPT ![w] = @ + 1]
    /\ UNCHANGED <<ca, psk, cfg, bootVars, buf, saveHist, lastVars, shown>>

\* The commit, and s_cfg = *cfg.
CommitKeys(w) ==
    /\ step[w] = Commit
    /\ cfg' = buf[w]
    /\ step' = [step EXCEPT ![w] = CaStep]
    /\ UNCHANGED <<nvsVars, bootVars, buf, clean, saveHist, lastVars, shown, faults>>

\* The form whose CA the portal saves.
Secured == buf["portal"]["tls"] \in Tls

\* Mutant of CaAfter: the CA of an earlier form stays.
CaKept(w) == IF w = "button" THEN Blank
             ELSE IF Secured THEN buf["portal"]["tls"] ELSE ca

\* Mutant of CaAfter: the CA is cleared at every save.
CaDropped(w) == Blank

CaAfter(w) == IF w = "portal" /\ Secured THEN buf["portal"]["tls"] ELSE Blank

\* nvs_store_mqtt_ca_save or _clear.
WriteCa(w) ==
    /\ step[w] = CaStep
    /\ ca' = CaAfter(w)
    /\ step' = [step EXCEPT ![w] = Restart]
    /\ IF clean[w]
       THEN /\ torn' = FALSE
            /\ saved' = buf[w]["wifi"]
            /\ mixed' = (mixed /\ w = "button")
       ELSE UNCHANGED saveHist
    /\ UNCHANGED <<flash, psk, cfg, bootVars, buf, clean, lastVars, shown, faults>>

CaFails(w) ==
    /\ step[w] = CaStep
    /\ ca' \in {ca, CaAfter(w)}
    /\ step' = [step EXCEPT ![w] = Restart]
    /\ Unclean(w)
    /\ Fault
    /\ UNCHANGED <<flash, psk, cfg, bootVars, buf, saveHist, lastVars, shown>>

\* Mutant of RestartNow: the button task does not restart.
RestartPortal(w) ==
    /\ step[w] = Restart
    /\ w = "portal"
    /\ Reset
    /\ UNCHANGED <<nvsVars, saveHist, newest, raced, shown, faults>>

RestartNow(w) ==
    /\ step[w] = Restart
    /\ Reset
    /\ UNCHANGED <<nvsVars, saveHist, newest, raced, shown, faults>>

Work(w) ==
    \/ OpenFails(w) \/ WriteKey(w)
    \/ CommitKeys(w) \/ CommitFails(w)
    \/ WriteCa(w) \/ CaFails(w)
    \/ RestartNow(w)

-----------------------------------------------------------------------------
(* nvs_store_set_last_ch_setpoint *)

\* Mutant of StoreLast: only flash is written.
StoreLastInFlash(v) ==
    /\ mode = "run"
    /\ storing = Blank
    /\ storing' = v
    /\ raced' = (raced \/ step["button"] \in 1..Commit)
    /\ UNCHANGED <<nvsVars, cfg, bootVars, writerVars, saveHist, newest, shown, faults>>

StoreLast(v) ==
    /\ mode = "run"
    /\ storing = Blank
    /\ storing' = v
    /\ cfg' = [cfg EXCEPT !["last"] = v]
    /\ raced' = (raced \/ step["button"] \in 1..Commit)
    /\ UNCHANGED <<nvsVars, bootVars, writerVars, saveHist, newest, shown, faults>>

StoreLastKey ==
    /\ storing # Blank
    /\ \/ /\ flash' = [flash EXCEPT !["last"] = storing]
          /\ newest' = storing
          /\ UNCHANGED <<raced, faults>>
       \/ raced' = TRUE /\ Fault /\ UNCHANGED <<flash, newest>>
    /\ storing' = Blank
    /\ UNCHANGED <<ca, psk, cfg, bootVars, writerVars, saveHist, shown>>

-----------------------------------------------------------------------------
Boot ==
    \/ Load \/ LoadErased \/ Decide
    \/ KnownPsk \/ SoftApFails
    \/ \E p \in Psks : NewPsk(p)

Next ==
    \/ Boot \/ PowerCut
    \/ \E f \in Forms : Submit(f)
    \/ Press
    \/ \E w \in Writers : Work(w)
    \/ \E v \in Temps : StoreLast(v)
    \/ StoreLastKey

Spec == Init /\ [][Next]_vars

\* Tasks run on, the device comes up again after every reset, and power is not
\* always cut, nor the button always pressed, before app_main reads its config.
Fairness ==
    /\ WF_vars(Load \/ LoadErased)
    /\ SF_vars(Decide)
    /\ \A w \in Writers : WF_vars(Work(w))
FairSpec == Spec /\ Fairness

-----------------------------------------------------------------------------
(* Properties *)

\* Once a save or a clear went through as a whole, NVS has what it was to
\* have: the credentials of one form with its CA if it wants TLS and no CA
\* otherwise, or neither credentials nor a CA, whatever was cut off before.
SavedOrCleared ==
    ~torn => /\ \A k \in Credentials : flash[k] = saved
             /\ ca = IF saved \in Tls THEN saved ELSE Blank

\* The CH bounds are those of one form, and a range, be it of one value only:
\* clears, whole or not, save the bounds they found ("Keeps CH
\* bounds", nvs_store.h).
OneRange(c) == c["lo"] = c["hi"] /\ Stored(Lo[c["lo"]]) <= Stored(Hi[c["hi"]])
BoundsKept ==
    ~mixed => /\ OneRange(flash)
              /\ mode \in {"boot", "run", "noMqtt"} => OneRange(seen)

\* The last accepted setpoint, which the fail-safe holds, survives saves,
\* clears and restarts, as long as no store failed or overlapped a clear.
LastKept ==
    ~raced => /\ flash["last"] = newest
              /\ mode # "off" /\ storing = Blank => cfg["last"] = newest

\* nvs_store.h: the SoftAP password is "stable per device; not cleared with
\* credentials".  Every password shown is the one in force.
PskStable == shown \subseteq {psk}

\* MQTT is disabled for want of a CA only after a save that was not finished,
\* or just before the restart that ends a clear.
MqttOffOnlyAfterTear ==
    [][mode' = "noMqtt" /\ mode # "noMqtt" => torn \/ step["button"] = Restart]_vars

\* A long press, if the clear went through, brings the device to SoftAP.
PressBringsSoftAp ==
    Saving("button") /\ clean["button"]
        ~> mode \in {"psk", "softap"} \/ ~clean["button"]
=============================================================================
