--------------------------- MODULE ProvisionProofs --------------------------
(***************************************************************************)
(* Proofs about Provision, for any forms, setpoints, passwords and number  *)
(* of faults.                                                              *)
(***************************************************************************)
EXTENDS Provision, TLAPS

-----------------------------------------------------------------------------
(* Configurations *)

LEMMA OrderKeys ==
    /\ Order[1] = "wifi" /\ Order[2] = "mqtt" /\ Order[3] = "tls"
    /\ Order[4] = "lo" /\ Order[5] = "hi" /\ Order[6] = "last"
    /\ \A i \in 1..6 : Order[i] \in Keys
  BY DEF Order, Keys, Credentials, Bounds

LEMMA ConfigSetLast ==
    ASSUME NEW c \in Configs, NEW v \in Temps
    PROVE  [c EXCEPT !["last"] = v] \in Configs
  BY DEF Configs, Keys, Credentials, Bounds

LEMMA ConfigSetKey ==
    ASSUME NEW c \in Configs, NEW d \in Configs, NEW k \in Keys
    PROVE  [c EXCEPT ![k] = d[k]] \in Configs
  <1> DEFINE e == [c EXCEPT ![k] = d[k]]
  <1>1. e \in [Keys -> Forms \cup Temps \cup {Blank}]
    BY DEF Configs
  <1>2. \A j \in Credentials \cup Bounds : e[j] \in Forms \cup {Blank}
    BY DEF Configs, Keys
  <1>3. e["last"] \in Temps \cup {Blank}
    BY DEF Configs, Keys
  <1> QED BY <1>1, <1>2, <1>3, Zenon DEF Configs

LEMMA EmptyConfig ==
    Empty \in Configs /\ Used(Empty) \in [Credentials \cup Bounds -> Forms \cup {Blank}]
  BY DEF Empty, Used, Configs, Keys, Credentials, Bounds

LEMMA UsedConfig ==
    ASSUME NEW c \in Configs
    PROVE  Used(c) \in [Credentials \cup Bounds -> Forms \cup {Blank}]
  BY DEF Used, Configs

LEMMA FormConfig ==
    ASSUME NEW c \in Configs, NEW f \in Forms
    PROVE  [k \in Keys |-> IF k = "last" THEN c[k] ELSE f] \in Configs
  BY DEF Configs, Keys, Credentials, Bounds

LEMMA ClearedConfig ==
    ASSUME cfg \in Configs PROVE Cleared \in Configs
  BY DEF Configs, Cleared, Keys, Credentials, Bounds

-----------------------------------------------------------------------------
(* Type correctness, in four parts *)

TypeNvs == /\ flash \in Configs /\ ca \in Forms \cup {Blank}
           /\ psk \in Psks \cup {Blank}
TypeRam == /\ cfg \in Configs
           /\ seen \in [Credentials \cup Bounds -> Forms \cup {Blank}]
           /\ buf \in [Writers -> Configs]
           /\ storing \in Temps \cup {Blank}
TypeCtl == /\ mode \in {"off", "boot", "psk", "softap", "run", "noMqtt"}
           /\ step \in [Writers -> 0..Restart]
           /\ faults \in 0..MaxFaults
TypeHist == /\ clean \in [Writers -> BOOLEAN]
            /\ saved \in Forms \cup {Blank} /\ torn \in BOOLEAN
            /\ mixed \in BOOLEAN
            /\ newest \in Temps \cup {Blank} /\ raced \in BOOLEAN
            /\ shown \subseteq Psks

LEMMA TypeParts == TypeOK <=> TypeNvs /\ TypeRam /\ TypeCtl /\ TypeHist
  BY Zenon DEF TypeOK, TypeNvs, TypeRam, TypeCtl, TypeHist

\* What the three ways to restart have in common.
LEMMA ResetTyped ==
    ASSUME TypeOK, Reset
    PROVE  TypeRam' /\ clean' \in [Writers -> BOOLEAN]
           /\ mode' = "off" /\ step' \in [Writers -> 0..Restart]
  <1>1. clean' \in [Writers -> BOOLEAN]
    BY Zenon DEF Reset
  <1> QED BY <1>1, EmptyConfig DEF Reset, TypeRam, Restart

LEMMA BeginTyped ==
    ASSUME TypeOK, NEW w \in Writers, NEW c \in Configs, Begin(w, c)
    PROVE  TypeNvs' /\ TypeRam' /\ TypeCtl' /\ clean' \in [Writers -> BOOLEAN]
           /\ saved' = saved /\ torn' = TRUE /\ newest' = newest /\ shown' = shown
  <1>1. clean' \in [Writers -> BOOLEAN]
    BY DEF TypeOK, Begin, Writers
  <1>2. step' \in [Writers -> 0..Restart]
    BY DEF TypeOK, Begin, Restart
  <1>3. faults' \in 0..MaxFaults
    BY ProvisionAssumption DEF TypeOK, Begin, Fault
  <1>4. buf' \in [Writers -> Configs]
    BY DEF TypeOK, Begin
  <1> QED
    BY <1>1, <1>2, <1>3, <1>4
    DEF TypeOK, TypeNvs, TypeRam, TypeCtl, Begin, nvsVars, bootVars

LEMMA InitTyped == Init => TypeOK
  <1>1. Init => TypeNvs /\ TypeRam
    BY EmptyConfig DEF Init, TypeNvs, TypeRam
  <1>2. Init => TypeCtl
    BY ProvisionAssumption DEF Init, TypeCtl, Restart
  <1>3. Init => TypeHist
    BY Zenon DEF Init, TypeHist
  <1> QED BY <1>1, <1>2, <1>3, TypeParts

LEMMA BootTyped == ASSUME TypeOK, Boot PROVE TypeOK'
  <1> USE ProvisionAssumption
  <1>1. CASE Load
    BY <1>1, UsedConfig, TypeParts, Zenon
    DEF Load, TypeOK, nvsVars, writerVars, saveHist, lastVars
  <1>2. CASE LoadErased
    <2>1. TypeNvs' /\ TypeRam'
      BY <1>2, EmptyConfig DEF TypeOK, LoadErased, TypeNvs, TypeRam, writerVars
    <2>2. TypeCtl' /\ TypeHist'
      BY <1>2, Zenon DEF TypeOK, LoadErased, TypeCtl, TypeHist, writerVars
    <2> QED BY <2>1, <2>2, TypeParts DEF TypeOK, TypeNvs, TypeRam, TypeCtl, TypeHist
  <1>3. CASE Decide
    <2>1. mode' \in {"psk", "noMqtt", "run"}
      BY <1>3 DEF Decide, BootAction
    <2> QED
      BY <1>3, <2>1
      DEF TypeOK, Decide, nvsVars, writerVars, saveHist, lastVars
  <1>4. CASE KnownPsk
    BY <1>4 DEF TypeOK, KnownPsk, Show, nvsVars, writerVars, saveHist, lastVars
  <1>5. CASE \E p \in Psks : NewPsk(p)
    BY <1>5 DEF TypeOK, NewPsk, Show, writerVars, saveHist, lastVars
  <1>6. CASE SoftApFails
    <2>1. psk' \in Psks \cup {Blank}
      BY <1>6 DEF TypeOK, SoftApFails
    <2>2. faults' \in 0..MaxFaults
      BY <1>6 DEF TypeOK, SoftApFails, Fault
    <2>3. TypeRam' /\ clean' \in [Writers -> BOOLEAN]
          /\ mode' = "off" /\ step' \in [Writers -> 0..Restart]
      BY <1>6, ResetTyped DEF SoftApFails
    <2> QED
      BY <1>6, <2>1, <2>2, <2>3 DEF TypeOK, SoftApFails, saveHist, TypeRam
  <1> QED BY <1>1, <1>2, <1>3, <1>4, <1>5, <1>6 DEF Boot

LEMMA WorkTyped == ASSUME TypeOK, NEW w \in Writers, Work(w) PROVE TypeOK'
  <1> USE ProvisionAssumption
  <1> DEFINE Rest == UNCHANGED <<saved, torn, mixed, storing, newest, shown>>
  <1>0. ASSUME Unclean(w) PROVE clean' \in [Writers -> BOOLEAN]
    BY <1>0, Zenon DEF TypeOK, Unclean
  <1>1. CASE OpenFails(w) \/ CommitFails(w)
    <2>1. SaveFailed(w) BY <1>1 DEF OpenFails, CommitFails
    <2>2. clean' \in [Writers -> BOOLEAN] BY <2>1, <1>0 DEF SaveFailed
    <2>3. step' \in [Writers -> 0..Restart]
      BY <2>1 DEF TypeOK, SaveFailed, CaStep, Restart
    <2>4. faults' \in 0..MaxFaults BY <2>1 DEF TypeOK, SaveFailed, Fault
    <2> QED
      BY <2>1, <2>2, <2>3, <2>4
      DEF TypeOK, SaveFailed, nvsVars, bootVars, saveHist, lastVars
  <1>2. CASE WriteKey(w)
    <2>1. Order[step[w]] \in Keys BY <1>2, OrderKeys DEF WriteKey
    <2>2. flash' \in Configs
      <3>1. buf[w] \in Configs /\ flash \in Configs BY DEF TypeOK
      <3>2. [flash EXCEPT ![Order[step[w]]] = buf[w][Order[step[w]]]] \in Configs
        BY <2>1, <3>1, ConfigSetKey, Zenon
      <3> QED BY <1>2, <3>1, <3>2, Zenon DEF WriteKey
    <2>3. clean' \in [Writers -> BOOLEAN] BY <1>2, <1>0, Zenon DEF WriteKey, TypeOK
    <2>4. step' \in [Writers -> 0..Restart] BY <1>2 DEF TypeOK, WriteKey, Restart
    <2>5. faults' \in 0..MaxFaults BY <1>2 DEF TypeOK, WriteKey, Fault
    <2> QED
      BY <1>2, <2>2, <2>3, <2>4, <2>5
      DEF TypeOK, WriteKey, bootVars, saveHist, lastVars
  <1>3. CASE CommitKeys(w)
    <2>1. step' \in [Writers -> 0..Restart]
      BY <1>3 DEF TypeOK, CommitKeys, CaStep, Restart
    <2>2. cfg' \in Configs BY <1>3 DEF TypeOK, CommitKeys
    <2> QED
      BY <1>3, <2>1, <2>2
      DEF TypeOK, CommitKeys, nvsVars, bootVars, saveHist, lastVars
  <1>4. CaAfter(w) \in Forms \cup {Blank}
    BY DEF TypeOK, CaAfter, Secured, Configs, Credentials, Writers
  <1>5. CASE WriteCa(w)
    <2>1. step' \in [Writers -> 0..Restart] BY <1>5 DEF TypeOK, WriteCa, Restart
    <2>2. buf[w]["wifi"] \in Forms \cup {Blank}
      BY DEF TypeOK, Configs, Credentials
    <2>3. saved' \in Forms \cup {Blank}
      BY <1>5, <2>2 DEF TypeOK, WriteCa, saveHist
    <2>4. torn' \in BOOLEAN /\ mixed' \in BOOLEAN
      BY <1>5, Zenon DEF TypeOK, WriteCa, saveHist
    <2> QED
      BY <1>4, <1>5, <2>1, <2>3, <2>4 DEF TypeOK, WriteCa, bootVars, lastVars
  <1>6. CASE CaFails(w)
    <2>1. step' \in [Writers -> 0..Restart] BY <1>6 DEF TypeOK, CaFails, Restart
    <2>2. clean' \in [Writers -> BOOLEAN] BY <1>6, <1>0 DEF CaFails
    <2>3. faults' \in 0..MaxFaults BY <1>6 DEF TypeOK, CaFails, Fault
    <2>4. ca' \in Forms \cup {Blank} BY <1>4, <1>6 DEF TypeOK, CaFails
    <2> QED
      BY <1>6, <2>1, <2>2, <2>3, <2>4
      DEF TypeOK, CaFails, bootVars, saveHist, lastVars
  <1>7. CASE RestartNow(w)
    BY <1>7, ResetTyped DEF TypeOK, TypeRam, RestartNow, nvsVars, saveHist
  <1> QED BY <1>1, <1>2, <1>3, <1>5, <1>6, <1>7 DEF Work

LEMMA OthersTyped ==
    ASSUME TypeOK,
           \/ PowerCut \/ Press \/ StoreLastKey
           \/ \E f \in Forms : Submit(f)
           \/ \E v \in Temps : StoreLast(v)
    PROVE  TypeOK'
  <1> USE ProvisionAssumption
  <1>1. CASE PowerCut
    <2>1. faults' \in 0..MaxFaults BY <1>1 DEF TypeOK, PowerCut, Fault
    <2> QED
      BY <1>1, <2>1, ResetTyped DEF TypeOK, TypeRam, PowerCut, nvsVars, saveHist
  <1>2. CASE Press
    <2>1. Cleared \in Configs BY ClearedConfig DEF TypeOK
    <2>2. TypeNvs' /\ TypeRam' /\ TypeCtl' /\ clean' \in [Writers -> BOOLEAN]
          /\ saved' = saved /\ torn' = TRUE /\ newest' = newest /\ shown' = shown
      <3>1. "button" \in Writers BY DEF Writers
      <3> QED BY <1>2, <2>1, <3>1, BeginTyped DEF Press
    <2>3. raced' \in BOOLEAN /\ mixed' = mixed BY <1>2, Zenon DEF Press
    <2>4. TypeHist' BY <2>2, <2>3, Zenon DEF TypeOK, TypeHist
    <2> QED BY <2>2, <2>4 DEF TypeOK, TypeNvs, TypeRam, TypeCtl, TypeHist
  <1>3. ASSUME NEW f \in Forms, Submit(f) PROVE TypeOK'
    <2>1. [k \in Keys |-> IF k = "last" THEN cfg[k] ELSE f] \in Configs
      BY FormConfig DEF TypeOK
    <2>2. TypeNvs' /\ TypeRam' /\ TypeCtl' /\ clean' \in [Writers -> BOOLEAN]
          /\ saved' = saved /\ torn' = TRUE /\ newest' = newest /\ shown' = shown
      <3>1. "portal" \in Writers BY DEF Writers
      <3> QED BY <1>3, <2>1, <3>1, BeginTyped DEF Submit
    <2>3. raced' = raced /\ mixed' = TRUE BY <1>3, Zenon DEF Submit
    <2>4. TypeHist' BY <2>2, <2>3, Zenon DEF TypeOK, TypeHist
    <2> QED BY <2>2, <2>4 DEF TypeOK, TypeNvs, TypeRam, TypeCtl, TypeHist
  <1>4. ASSUME NEW v \in Temps, StoreLast(v) PROVE TypeOK'
    <2>1. cfg' \in Configs BY <1>4, ConfigSetLast DEF TypeOK, StoreLast
    <2>2. raced' \in BOOLEAN BY <1>4, Zenon DEF StoreLast
    <2> QED
      BY <1>4, <2>1, <2>2
      DEF TypeOK, StoreLast, nvsVars, bootVars, writerVars, saveHist
  <1>5. CASE StoreLastKey
    <2>1. storing \in Temps BY <1>5 DEF TypeOK, StoreLastKey
    <2>2. flash' \in Configs
      BY <1>5, <2>1, ConfigSetLast DEF TypeOK, StoreLastKey
    <2>3. raced' \in BOOLEAN BY <1>5, Zenon DEF TypeOK, StoreLastKey
    <2>4. faults' \in 0..MaxFaults BY <1>5 DEF TypeOK, StoreLastKey, Fault
    <2>5. newest' \in Temps \cup {Blank} BY <1>5, <2>1 DEF TypeOK, StoreLastKey
    <2> QED
      BY <1>5, <2>2, <2>3, <2>4, <2>5
      DEF TypeOK, StoreLastKey, bootVars, writerVars, saveHist
  <1> QED BY <1>1, <1>2, <1>3, <1>4, <1>5

LEMMA NextTyped == TypeOK /\ [Next]_vars => TypeOK'
  <1>1. ASSUME TypeOK, Next PROVE TypeOK'
    BY <1>1, BootTyped, WorkTyped, OthersTyped DEF Next
  <1>2. ASSUME TypeOK, UNCHANGED vars PROVE TypeOK'
    BY <1>2, Zenon
    DEF TypeOK, vars, nvsVars, bootVars, writerVars, saveHist, lastVars
  <1> QED BY <1>1, <1>2

\* Steps of the save, histories and NVS values stay in their ranges.
THEOREM TypeCorrect == Spec => []TypeOK
  BY InitTyped, NextTyped, PTL DEF Spec

-----------------------------------------------------------------------------
(* The SoftAP password *)

LEMMA PskStep == TypeOK /\ PskStable /\ [Next]_vars => PskStable'
  <1> SUFFICES ASSUME TypeOK, PskStable, [Next]_vars PROVE PskStable'
    OBVIOUS
  <1>1. psk = Blank => shown = {}
    BY ProvisionAssumption DEF TypeOK, PskStable
  <1>2. CASE UNCHANGED vars
    BY <1>2 DEF PskStable, vars, nvsVars
  <1>3. CASE Boot
    <2>1. CASE Load \/ LoadErased \/ Decide
      BY <2>1 DEF PskStable, Load, LoadErased, Decide, nvsVars
    <2>2. CASE KnownPsk \/ \E p \in Psks : NewPsk(p)
      BY <1>1, <2>2 DEF PskStable, KnownPsk, NewPsk, Show, nvsVars
    <2>3. CASE SoftApFails
      BY <1>1, <2>3 DEF PskStable, SoftApFails
    <2> QED BY <1>3, <2>1, <2>2, <2>3 DEF Boot
  <1>4. ASSUME NEW w \in Writers, Work(w) PROVE PskStable'
    BY <1>4
    DEF PskStable, Work, OpenFails, CommitFails, SaveFailed, WriteKey, CommitKeys,
        WriteCa, CaFails, RestartNow, nvsVars
  <1>5. CASE PowerCut \/ Press \/ StoreLastKey
    BY <1>5 DEF PskStable, PowerCut, Press, Begin, StoreLastKey, nvsVars
  <1>6. ASSUME NEW f \in Forms, Submit(f) PROVE PskStable'
    BY <1>6 DEF PskStable, Submit, Begin, nvsVars
  <1>7. ASSUME NEW v \in Temps, StoreLast(v) PROVE PskStable'
    BY <1>7 DEF PskStable, StoreLast, nvsVars
  <1> QED BY <1>2, <1>3, <1>4, <1>5, <1>6, <1>7 DEF Next

\* nvs_store.h: "stable per device": as long as flash is not erased, whatever
\* else fails, the password on the console never changes.
THEOREM PskIsStable == Spec => []PskStable
  <1>1. Init => PskStable BY DEF Init, PskStable
  <1> QED BY <1>1, TypeCorrect, PskStep, PTL DEF Spec

-----------------------------------------------------------------------------
(* The last accepted setpoint *)

\* Who can be at work in which mode.
CtlInv == /\ mode = "off" => storing = Blank /\ \A w \in Writers : step[w] = 0
          /\ step["portal"] # 0 => mode = "softap"
          /\ storing # Blank => mode = "run"

LEMMA CtlStep == TypeOK /\ CtlInv /\ [Next]_vars => CtlInv'
  <1> SUFFICES ASSUME TypeOK, CtlInv, [Next]_vars PROVE CtlInv'
    OBVIOUS
  <1>0. ASSUME Reset PROVE CtlInv'
    BY <1>0 DEF Reset, CtlInv, Writers
  <1>1. CASE UNCHANGED vars
    BY <1>1 DEF CtlInv, vars, bootVars, writerVars, lastVars
  <1>2. CASE Boot
    <2>1. CASE Load \/ LoadErased
      BY <2>1 DEF CtlInv, Load, LoadErased, writerVars, lastVars, Writers
    <2>2. CASE Decide
      BY <2>2 DEF CtlInv, Decide, BootAction, writerVars, lastVars
    <2>3. CASE KnownPsk \/ \E p \in Psks : NewPsk(p)
      BY <2>3 DEF CtlInv, KnownPsk, NewPsk, Show, writerVars, lastVars
    <2>4. CASE SoftApFails BY <2>4, <1>0 DEF SoftApFails
    <2> QED BY <1>2, <2>1, <2>2, <2>3, <2>4 DEF Boot
  <1>3. ASSUME NEW w \in Writers, Work(w) PROVE CtlInv'
    <2>1. CASE RestartNow(w) BY <2>1, <1>0 DEF RestartNow
    <2>2. step[w] # 0 => mode # "off" BY DEF CtlInv
    <2>3. CASE OpenFails(w) \/ CommitFails(w)
      BY <2>2, <2>3
      DEF TypeOK, CtlInv, OpenFails, CommitFails, SaveFailed, bootVars, lastVars,
          Commit, Writers
    <2>4. CASE WriteKey(w) \/ CommitKeys(w)
      BY <2>2, <2>4
      DEF TypeOK, CtlInv, WriteKey, CommitKeys, bootVars, lastVars, Commit, Writers
    <2>5. CASE WriteCa(w) \/ CaFails(w)
      BY <2>2, <2>5
      DEF TypeOK, CtlInv, WriteCa, CaFails, bootVars, lastVars, CaStep, Writers
    <2> QED BY <1>3, <2>1, <2>3, <2>4, <2>5 DEF Work
  <1>4. CASE PowerCut BY <1>4, <1>0 DEF PowerCut
  <1>5. CASE Press
    BY <1>5 DEF TypeOK, CtlInv, Press, Begin, bootVars, Writers
  <1>6. ASSUME NEW f \in Forms, Submit(f) PROVE CtlInv'
    BY <1>6 DEF TypeOK, CtlInv, Submit, Begin, bootVars, Writers
  <1>7. ASSUME NEW v \in Temps, StoreLast(v) PROVE CtlInv'
    BY <1>7 DEF CtlInv, StoreLast, bootVars, writerVars
  <1>8. CASE StoreLastKey
    BY <1>8 DEF CtlInv, StoreLastKey, bootVars, writerVars
  <1> QED BY <1>1, <1>2, <1>3, <1>4, <1>5, <1>6, <1>7, <1>8 DEF Next

\* Until a store fails or overlaps a clear, every copy of the config that can
\* still be saved has the setpoint that was stored last.
LastInv ==
    ~raced =>
      /\ flash["last"] = newest
      /\ mode # "off" => cfg["last"] = IF storing = Blank THEN newest ELSE storing
      /\ \A w \in Writers : step[w] \in 1..Commit =>
            storing = Blank /\ buf[w]["last"] = newest

LEMMA LastStep ==
    TypeOK /\ CtlInv /\ LastInv /\ [Next]_vars => LastInv'
  <1> SUFFICES ASSUME TypeOK, CtlInv, LastInv, [Next]_vars, ~raced' PROVE LastInv'
    BY DEF LastInv
  <1>0. ASSUME Reset, UNCHANGED <<flash, newest, raced>> PROVE LastInv'
    BY <1>0 DEF Reset, LastInv, Commit
  <1>1. CASE UNCHANGED vars
    BY <1>1 DEF LastInv, vars, nvsVars, bootVars, writerVars, lastVars
  <1>2. CASE Boot
    <2>1. CASE Load
      BY <2>1
      DEF CtlInv, LastInv, Load, nvsVars, writerVars, lastVars, Commit
    <2>2. CASE LoadErased
      BY <2>2
      DEF CtlInv, LastInv, LoadErased, writerVars, Commit, Empty, Keys
    <2>3. CASE Decide \/ KnownPsk \/ \E p \in Psks : NewPsk(p)
      BY <2>3
      DEF LastInv, Decide, KnownPsk, NewPsk, Show, nvsVars, writerVars, lastVars
    <2>4. CASE SoftApFails BY <2>4, <1>0 DEF SoftApFails
    <2> QED BY <1>2, <2>1, <2>2, <2>3, <2>4 DEF Boot
  <1>3. ASSUME NEW w \in Writers, Work(w) PROVE LastInv'
    <2>1. CASE RestartNow(w) BY <2>1, <1>0 DEF RestartNow, nvsVars
    <2>2. CASE OpenFails(w) \/ CommitFails(w)
      BY <2>2
      DEF TypeOK, LastInv, OpenFails, CommitFails, SaveFailed, nvsVars, bootVars,
          lastVars, Commit, CaStep, Restart
    <2>3. CASE WriteKey(w)
      <3>1. flash'["last"] = flash["last"]
        <4>1. buf[w]["last"] = flash["last"]
          BY <2>3 DEF LastInv, WriteKey, Commit, lastVars
        <4>2. DOMAIN flash = Keys BY DEF TypeOK, Configs
        <4> QED BY <2>3, <4>1, <4>2, OrderKeys DEF WriteKey
      <3>2. \A v \in Writers : step'[v] \in 1..Commit => step[v] \in 1..Commit
        BY <2>3 DEF TypeOK, WriteKey, Commit
      <3> QED BY <2>3, <3>1, <3>2 DEF LastInv, WriteKey, bootVars, lastVars
    <2>4. CASE CommitKeys(w)
      <3>1. cfg'["last"] = newest /\ storing = Blank
        BY <2>4 DEF LastInv, CommitKeys, Commit, lastVars
      <3>2. \A v \in Writers : step'[v] \in 1..Commit => step[v] \in 1..Commit
        BY <2>4 DEF TypeOK, CommitKeys, Commit, CaStep
      <3> QED
        BY <2>4, <3>1, <3>2 DEF LastInv, CommitKeys, nvsVars, bootVars, lastVars
    <2>5. CASE WriteCa(w) \/ CaFails(w)
      <3>1. \A v \in Writers : step'[v] \in 1..Commit => step[v] \in 1..Commit
        BY <2>5 DEF TypeOK, WriteCa, CaFails, Commit, Restart
      <3> QED
        BY <2>5, <3>1 DEF LastInv, WriteCa, CaFails, bootVars, lastVars
    <2> QED BY <1>3, <2>1, <2>2, <2>3, <2>4, <2>5 DEF Work
  <1>4. CASE PowerCut BY <1>4, <1>0 DEF PowerCut, nvsVars
  <1>5. CASE Press
    <2>1. storing = Blank /\ ~raced BY <1>5, Zenon DEF Press
    <2>2. Cleared["last"] = cfg["last"]
      BY DEF Cleared, Keys, Credentials
    <2> QED
      BY <1>5, <2>1, <2>2
      DEF TypeOK, LastInv, Press, Begin, nvsVars, bootVars, Writers
  <1>6. ASSUME NEW f \in Forms, Submit(f) PROVE LastInv'
    <2>1. storing = Blank BY <1>6 DEF CtlInv, Submit
    <2> QED
      BY <1>6, <2>1
      DEF TypeOK, LastInv, Submit, Begin, nvsVars, bootVars, Writers, Keys
  <1>7. ASSUME NEW v \in Temps, StoreLast(v) PROVE LastInv'
    <2>1. ~raced /\ step["button"] \notin 1..Commit BY <1>7, Zenon DEF StoreLast
    <2>2. step["portal"] = 0 BY <1>7 DEF CtlInv, StoreLast
    <2>3. \A w \in Writers : step[w] \notin 1..Commit
      BY <2>1, <2>2 DEF Writers, Commit
    <2>4. v # Blank BY ProvisionAssumption
    <2>5. cfg'["last"] = v
      BY <1>7 DEF TypeOK, Configs, Keys, StoreLast
    <2> QED
      BY <1>7, <2>1, <2>3, <2>4, <2>5
      DEF LastInv, StoreLast, nvsVars, writerVars
  <1>8. CASE StoreLastKey
    <2>1. flash' = [flash EXCEPT !["last"] = storing] /\ newest' = storing /\ ~raced
      BY <1>8 DEF StoreLastKey
    <2>2. \A w \in Writers : step[w] \notin 1..Commit
      BY <1>8, <2>1 DEF LastInv, StoreLastKey
    <2>3. cfg["last"] = storing
      BY <1>8, <2>1 DEF LastInv, CtlInv, StoreLastKey
    <2>4. flash'["last"] = storing BY <2>1 DEF TypeOK, Configs, Keys
    <2> QED
      BY <1>8, <2>1, <2>2, <2>3, <2>4
      DEF LastInv, StoreLastKey, bootVars, writerVars
  <1> QED BY <1>1, <1>2, <1>3, <1>4, <1>5, <1>6, <1>7, <1>8 DEF Next

LEMMA CtlHolds == Spec => []CtlInv
  <1>1. Init => CtlInv BY DEF Init, CtlInv, Writers
  <1> QED BY <1>1, TypeCorrect, CtlStep, PTL DEF Spec

\* The setpoint the fail-safe would hold is the one accepted last, in RAM and
\* flash, across saves, clears and power cuts.
THEOREM LastSurvives == Spec => []LastKept
  <1>1. Init => LastInv BY DEF Init, LastInv, Empty, Keys, Commit, Writers
  <1>2. LastInv => LastKept BY Zenon DEF LastInv, LastKept
  <1> QED BY <1>1, <1>2, TypeCorrect, CtlHolds, LastStep, PTL DEF Spec

-----------------------------------------------------------------------------
(* Credentials and bounds *)

\* A writer whose work is clean has the flash to itself: what it has gone past
\* is in flash.  What the portal writes is all of one valid form, what the
\* button writes has no credentials.
Exclusive == \A w \in Writers : clean[w] /\ Saving(w) => ~Saving(Other(w))
GonePast ==
    \A w \in Writers : clean[w] /\ Saving(w) =>
        \A i \in 1..5 : i < step[w] => flash[Order[i]] = buf[w][Order[i]]
OneForm ==
    Saving("portal") =>
        /\ buf["portal"]["wifi"] \in Forms /\ Valid(buf["portal"]["wifi"])
        /\ \A k \in Credentials \cup Bounds : buf["portal"][k] = buf["portal"]["wifi"]
        /\ mixed
NoCredentials ==
    Saving("button") => \A k \in Credentials : buf["button"][k] = Blank
TornInv == ~torn => \A w \in Writers : ~Saving(w)

SaveInv == /\ Exclusive /\ GonePast /\ OneForm /\ NoCredentials /\ TornInv
           /\ SavedOrCleared

\* The steps that leave writers, flash and histories of the saves alone.
Quiet == /\ step' = step /\ buf' = buf /\ clean' = clean
         /\ flash' = flash /\ ca' = ca
         /\ saved' = saved /\ torn' = torn /\ mixed' = mixed

LEMMA QuietStep == ASSUME SaveInv, Quiet PROVE SaveInv'
  BY DEF SaveInv, Quiet, Exclusive, GonePast, OneForm, NoCredentials, TornInv,
         SavedOrCleared, Saving

LEMMA ResetStep ==
    ASSUME TypeOK, SaveInv, Reset, UNCHANGED <<flash, ca, saveHist>>
    PROVE  SaveInv'
  <1>1. \A w \in Writers : ~Saving(w)'
    BY DEF Reset, Saving, CaStep
  <1>2. "portal" \in Writers /\ "button" \in Writers BY DEF Writers
  <1>3. SavedOrCleared' BY DEF SaveInv, SavedOrCleared, saveHist
  <1> QED
    BY <1>1, <1>2, <1>3
    DEF SaveInv, Exclusive, GonePast, OneForm, NoCredentials, TornInv

LEMMA BeginStep ==
    ASSUME TypeOK, SaveInv, NEW w \in Writers, NEW c \in Configs, Begin(w, c)
    PROVE  Exclusive' /\ GonePast' /\ TornInv' /\ SavedOrCleared'
  <1>1. Other(w) \in Writers /\ Other(w) # w /\ Other(Other(w)) = w
        /\ \A v \in Writers : v = w \/ v = Other(w)
    BY DEF Other, Writers
  <1>2. step'[w] = 1 /\ step'[Other(w)] = step[Other(w)]
    BY <1>1 DEF TypeOK, Begin
  <1>3. Saving(Other(w))' = Saving(Other(w))
    BY <1>2 DEF Saving, Other
  <1>4. CASE Saving(Other(w))
    <2>1. \A v \in Writers : clean'[v] = FALSE
      BY <1>4 DEF Begin
    <2> QED
      BY <2>1 DEF Begin, Exclusive, GonePast, TornInv, SavedOrCleared
  <1>5. CASE ~Saving(Other(w))
    <2>1. \A v \in Writers : Saving(v)' => v = w
      BY <1>1, <1>3, <1>5
    <2>2. Exclusive'
      BY <1>1, <2>1 DEF Exclusive
    <2>3. GonePast'
      BY <1>2, <2>1 DEF GonePast
    <2> QED BY <2>2, <2>3 DEF Begin, TornInv, SavedOrCleared
  <1> QED BY <1>4, <1>5

\* A step of w's save that goes on, or gives up.
LEMMA GoOn ==
    ASSUME TypeOK, SaveInv, NEW w \in Writers, Saving(w),
           UNCHANGED <<buf, saveHist>>,
           \A v \in Writers : v # w => step'[v] = step[v],
           \A v \in Writers : clean'[v] => clean[v]
    PROVE  /\ Exclusive' /\ OneForm' /\ NoCredentials' /\ TornInv' /\ SavedOrCleared'
           /\ \A v \in Writers : clean'[v] /\ Saving(v)' => v = w
  <1>1. \A v \in Writers : Saving(v)' => Saving(v)
    BY DEF Saving
  <1>2. "portal" \in Writers /\ "button" \in Writers
        /\ \A v \in Writers : Other(v) \in Writers
    BY DEF Writers, Other
  <1>3. torn /\ torn' BY DEF SaveInv, TornInv, saveHist, TypeOK
  <1>4. Exclusive' BY <1>1, <1>2 DEF SaveInv, Exclusive
  <1>5. OneForm' /\ NoCredentials'
    BY <1>1, <1>2 DEF SaveInv, OneForm, NoCredentials, saveHist
  <1>6. \A v \in Writers : clean'[v] /\ Saving(v)' => v = w
    BY <1>1 DEF SaveInv, Exclusive, Other, Writers
  <1> QED BY <1>3, <1>4, <1>5, <1>6 DEF TornInv, SavedOrCleared

LEMMA WorkSaves ==
    ASSUME TypeOK, SaveInv, NEW w \in Writers, Work(w)
    PROVE  SaveInv'
  <1>1. CASE OpenFails(w) \/ CommitFails(w)
    <2>1. SaveFailed(w) /\ Saving(w)
      BY <1>1 DEF OpenFails, CommitFails, Saving, Commit, CaStep
    <2>2. \A v \in Writers : clean'[v] => clean[v] /\ v # w
      BY <2>1 DEF TypeOK, SaveFailed, Unclean
    <2>3. \A v \in Writers : v # w => step'[v] = step[v]
      BY <2>1 DEF TypeOK, SaveFailed
    <2>4. UNCHANGED <<buf, saveHist>> BY <2>1 DEF SaveFailed
    <2> QED BY <2>1, <2>2, <2>3, <2>4, GoOn DEF SaveInv, GonePast
  <1>2. CASE WriteKey(w)
    <2>1. Saving(w) /\ step[w] \in 1..6 /\ step'[w] = step[w] + 1
      BY <1>2 DEF TypeOK, WriteKey, Saving, CaStep
    <2>2. \A v \in Writers : clean'[v] => clean[v]
      BY <1>2 DEF TypeOK, WriteKey, Unclean
    <2>3. \A v \in Writers : v # w => step'[v] = step[v]
      BY <1>2 DEF TypeOK, WriteKey
    <2>4. UNCHANGED <<buf, saveHist>> BY <1>2 DEF WriteKey
    <2>5. Exclusive' /\ OneForm' /\ NoCredentials' /\ TornInv' /\ SavedOrCleared'
          /\ \A v \in Writers : clean'[v] /\ Saving(v)' => v = w
      BY <2>1, <2>2, <2>3, <2>4, GoOn
    <2>6. ASSUME clean'[w], NEW i \in 1..5, i < step'[w]
          PROVE  flash'[Order[i]] = buf'[w][Order[i]]
      <3> DEFINE k == Order[step[w]]
      <3>1. flash' = IF k = "last" /\ buf[w][k] = Blank THEN flash
                     ELSE [flash EXCEPT ![k] = buf[w][k]]
        BY <1>2, <2>6 DEF TypeOK, WriteKey, Unclean
      <3>2. Order[i] \in Keys /\ DOMAIN flash = Keys
        BY OrderKeys DEF TypeOK, Configs
      <3>3. CASE i < step[w]
        <4>1. flash[Order[i]] = buf[w][Order[i]]
          BY <2>1, <2>2, <2>6, <3>3 DEF SaveInv, GonePast
        <4> QED BY <2>4, <3>1, <3>2, <4>1
      <3>4. CASE i = step[w]
        <4>1. k # "last" BY <3>4, OrderKeys
        <4> QED BY <2>4, <3>1, <3>2, <3>4, <4>1
      <3> QED BY <2>1, <2>6, <3>3, <3>4 DEF TypeOK
    <2> QED BY <2>5, <2>6 DEF SaveInv, GonePast
  <1>3. CASE CommitKeys(w)
    <2>1. Saving(w) /\ step[w] = 7 BY <1>3 DEF CommitKeys, Saving, Commit, CaStep
    <2>2. \A v \in Writers : v # w => step'[v] = step[v]
      BY <1>3 DEF TypeOK, CommitKeys
    <2>3. UNCHANGED <<buf, clean, flash, saveHist>>
      BY <1>3 DEF CommitKeys, nvsVars
    <2>4. Exclusive' /\ OneForm' /\ NoCredentials' /\ TornInv' /\ SavedOrCleared'
          /\ \A v \in Writers : clean'[v] /\ Saving(v)' => v = w
      BY <2>1, <2>2, <2>3, GoOn
    <2>5. GonePast' BY <2>1, <2>3, <2>4 DEF SaveInv, GonePast
    <2> QED BY <2>4, <2>5 DEF SaveInv
  <1>4. CASE CaFails(w) \/ (WriteCa(w) /\ ~clean[w])
    <2>1. Saving(w) BY <1>4 DEF CaFails, WriteCa, Saving, CaStep
    <2>2. \A v \in Writers : clean'[v] => clean[v] /\ v # w
      BY <1>4 DEF TypeOK, CaFails, WriteCa, Unclean
    <2>3. \A v \in Writers : v # w => step'[v] = step[v]
      BY <1>4 DEF TypeOK, CaFails, WriteCa
    <2>4. UNCHANGED <<buf, saveHist>> BY <1>4 DEF CaFails, WriteCa
    <2> QED BY <2>1, <2>2, <2>3, <2>4, GoOn DEF SaveInv, GonePast
  <1>5. CASE WriteCa(w) /\ clean[w]
    <2>1. Saving(w) /\ step[w] = 8 BY <1>5 DEF WriteCa, Saving, CaStep
    <2>2. \A v \in Writers : ~Saving(v)'
      <3>1. ~Saving(w)' BY <1>5 DEF TypeOK, WriteCa, Saving, CaStep, Restart
      <3>2. ~Saving(Other(w)) BY <1>5, <2>1 DEF SaveInv, Exclusive
      <3>3. step'[Other(w)] = step[Other(w)]
        BY <1>5 DEF TypeOK, WriteCa, Other, Writers
      <3> QED BY <3>1, <3>2, <3>3 DEF Saving, Other, Writers
    <2>3. \A k \in Credentials : flash[k] = buf[w][k]
      BY <1>5, <2>1, OrderKeys DEF SaveInv, GonePast, Credentials
    <2>4. /\ saved' = buf[w]["wifi"] /\ flash' = flash
          /\ ca' = IF w = "portal" /\ buf["portal"]["tls"] \in Tls
                   THEN buf["portal"]["tls"] ELSE Blank
      BY <1>5 DEF WriteCa, CaAfter, Secured
    <2>5. SavedOrCleared'
      <3>1. CASE w = "portal"
        BY <2>1, <2>3, <2>4, <3>1
        DEF SaveInv, OneForm, SavedOrCleared, Credentials
      <3>2. CASE w = "button"
        <4>1. saved' = Blank /\ Blank \notin Tls /\ ca' = Blank
          BY <2>1, <2>4, <3>2, ProvisionAssumption
          DEF SaveInv, NoCredentials, Credentials
        <4> QED
          BY <2>1, <2>3, <2>4, <3>2, <4>1
          DEF SaveInv, NoCredentials, SavedOrCleared
      <3> QED BY <3>1, <3>2 DEF Writers
    <2>6. "portal" \in Writers /\ "button" \in Writers BY DEF Writers
    <2> QED
      BY <2>2, <2>5, <2>6
      DEF SaveInv, Exclusive, GonePast, OneForm, NoCredentials, TornInv
  <1>6. CASE RestartNow(w)
    BY <1>6, ResetStep DEF RestartNow, nvsVars
  <1> QED BY <1>1, <1>2, <1>3, <1>4, <1>5, <1>6 DEF Work

LEMMA SaveStep ==
    TypeOK /\ CtlInv /\ SaveInv /\ [Next]_vars => SaveInv'
  <1> SUFFICES ASSUME TypeOK, CtlInv, SaveInv, [Next]_vars PROVE SaveInv'
    OBVIOUS
  <1>1. CASE UNCHANGED vars
    <2>1. Quiet BY <1>1 DEF Quiet, vars, nvsVars, writerVars, saveHist
    <2> QED BY <2>1, QuietStep
  <1>2. CASE LoadErased
    <2>1. \A v \in Writers : ~Saving(v) /\ ~Saving(v)'
      BY <1>2 DEF CtlInv, LoadErased, Saving, writerVars
    <2>2. SavedOrCleared'
      BY <1>2, ProvisionAssumption
      DEF LoadErased, SavedOrCleared, Empty, Keys, Credentials
    <2>3. "portal" \in Writers /\ "button" \in Writers BY DEF Writers
    <2> QED
      BY <2>1, <2>2, <2>3
      DEF SaveInv, Exclusive, GonePast, OneForm, NoCredentials, TornInv
  <1>3. CASE Load \/ Decide \/ KnownPsk \/ \E p \in Psks : NewPsk(p)
    <2>1. Quiet
      BY <1>3
      DEF Quiet, Load, Decide, KnownPsk, NewPsk, nvsVars, writerVars, saveHist
    <2> QED BY <2>1, QuietStep
  <1>4. CASE SoftApFails \/ PowerCut
    BY <1>4, ResetStep DEF SoftApFails, PowerCut, nvsVars
  <1>5. CASE Press
    <2>1. Cleared \in Configs /\ "button" \in Writers
      BY ClearedConfig DEF TypeOK, Writers
    <2>2. Exclusive' /\ GonePast' /\ TornInv' /\ SavedOrCleared'
      BY <1>5, <2>1, BeginStep DEF Press
    <2>3. buf'["button"] = Cleared /\ buf'["portal"] = buf["portal"]
          /\ step'["portal"] = step["portal"] /\ mixed' = mixed
      BY <1>5 DEF TypeOK, Press, Begin, Writers
    <2>4. NoCredentials'
      BY <2>3 DEF NoCredentials, Cleared, Keys
    <2>5. OneForm'
      BY <2>3 DEF SaveInv, OneForm, Saving
    <2> QED BY <2>2, <2>4, <2>5 DEF SaveInv
  <1>6. ASSUME NEW f \in Forms, Submit(f) PROVE SaveInv'
    <2> DEFINE c == [k \in Keys |-> IF k = "last" THEN cfg[k] ELSE f]
    <2>1. c \in Configs /\ "portal" \in Writers
      BY FormConfig DEF TypeOK, Writers
    <2>2. Exclusive' /\ GonePast' /\ TornInv' /\ SavedOrCleared'
      BY <1>6, <2>1, BeginStep DEF Submit
    <2>3. buf'["portal"] = c /\ buf'["button"] = buf["button"]
          /\ step'["button"] = step["button"] /\ mixed' /\ Valid(f)
      BY <1>6 DEF TypeOK, Submit, Begin, Writers
    <2>4. NoCredentials'
      BY <2>3 DEF SaveInv, NoCredentials, Saving
    <2>5. \A k \in Credentials \cup Bounds : c[k] = f
      BY DEF Keys, Credentials, Bounds
    <2>6. OneForm'
      BY <2>3, <2>5 DEF OneForm, Valid, Credentials
    <2> QED BY <2>2, <2>4, <2>6 DEF SaveInv
  <1>7. ASSUME NEW v \in Temps, StoreLast(v) PROVE SaveInv'
    <2>1. Quiet BY <1>7 DEF Quiet, StoreLast, nvsVars, writerVars, saveHist
    <2> QED BY <2>1, QuietStep
  <1>8. CASE StoreLastKey
    <2>1. \A k \in Keys : k # "last" => flash'[k] = flash[k]
      BY <1>8 DEF TypeOK, Configs, StoreLastKey
    <2>2. \A i \in 1..5 : flash'[Order[i]] = flash[Order[i]]
      BY <2>1, OrderKeys
    <2>3. \A k \in Credentials : flash'[k] = flash[k]
      BY <2>1 DEF Keys, Credentials
    <2>4. UNCHANGED <<ca, step, buf, clean, saved, torn, mixed>>
      BY <1>8 DEF StoreLastKey, writerVars, saveHist
    <2>5. Exclusive' /\ OneForm' /\ NoCredentials' /\ TornInv'
      BY <2>4
      DEF SaveInv, Exclusive, OneForm, NoCredentials, TornInv, Saving
    <2>6. GonePast' BY <2>2, <2>4 DEF SaveInv, GonePast, Saving
    <2>7. SavedOrCleared' BY <2>3, <2>4 DEF SaveInv, SavedOrCleared
    <2> QED BY <2>5, <2>6, <2>7 DEF SaveInv
  <1> QED
    BY <1>1, <1>2, <1>3, <1>4, <1>5, <1>6, <1>7, <1>8, WorkSaves DEF Next, Boot

LEMMA SavesHold == Spec => []SaveInv
  <1>1. Init => SaveInv
    BY ProvisionAssumption
    DEF Init, SaveInv, Exclusive, GonePast, OneForm, NoCredentials, TornInv,
        SavedOrCleared, Saving, Writers, Empty, Keys, Credentials
  <1> QED BY <1>1, TypeCorrect, CtlHolds, SaveStep, PTL DEF Spec

\* A save or clear that went through left in NVS one form with its CA, or
\* nothing, whatever earlier ones that were cut off had left there.
THEOREM SavesAreWhole == Spec => []SavedOrCleared
  <1>1. SaveInv => SavedOrCleared BY DEF SaveInv
  <1> QED BY <1>1, SavesHold, PTL

\* While no form is half saved, all the copies of the bounds that can be saved
\* agree with flash.
Committed ==
    clean["portal"] /\ step["portal"] = CaStep =>
        \A k \in Bounds : cfg[k] = buf["portal"][k]
BoundsInv ==
    /\ Committed
    /\ ~mixed =>
        /\ OneRange(flash)
        /\ mode # "off" => \A k \in Bounds : cfg[k] = flash[k]
        /\ mode \in {"boot", "run", "noMqtt"} => OneRange(seen)
        /\ step["button"] \in 1..Commit =>
              \A k \in Bounds : buf["button"][k] = flash[k]

LEMMA StoredMonotone ==
    ASSUME NEW x \in Int, NEW y \in Int, x < y PROVE Stored(x) <= Stored(y)
  BY DEF Stored

LEMMA EmptyRange == OneRange(Empty) /\ OneRange(Used(Empty))
  BY StoredMonotone, ProvisionAssumption
  DEF OneRange, Empty, Used, Keys, Credentials, Bounds

LEMMA BoundsReset ==
    ASSUME BoundsInv, Reset, UNCHANGED <<flash, mixed>> PROVE BoundsInv'
  BY DEF BoundsInv, Committed, Reset, Writers, CaStep, Commit, OneRange

LEMMA BoundsBoot ==
    ASSUME TypeOK, CtlInv, BoundsInv, Boot PROVE BoundsInv'
  <1>1. CASE Load
    <2>1. step["button"] = 0 /\ step["portal"] = 0
      BY <1>1 DEF CtlInv, Load, Writers
    <2>2. OneRange(flash) => OneRange(Used(flash))
      BY DEF OneRange, Used, Bounds
    <2> QED
      BY <1>1, <2>1, <2>2
      DEF BoundsInv, Committed, Load, nvsVars, writerVars, saveHist, CaStep, Commit,
          OneRange
  <1>2. CASE LoadErased
    <2>1. step["button"] = 0 /\ step["portal"] = 0
      BY <1>2 DEF CtlInv, LoadErased, Writers
    <2> QED
      BY <1>2, <2>1, EmptyRange
      DEF BoundsInv, Committed, LoadErased, writerVars, CaStep, Commit, OneRange
  <1>3. CASE Decide
    BY <1>3
    DEF BoundsInv, Committed, Decide, nvsVars, writerVars, saveHist, OneRange
  <1>4. CASE KnownPsk \/ \E p \in Psks : NewPsk(p)
    BY <1>4
    DEF BoundsInv, Committed, KnownPsk, NewPsk, Show, nvsVars, writerVars,
        saveHist, OneRange
  <1>5. CASE SoftApFails
    BY <1>5, BoundsReset DEF SoftApFails, saveHist
  <1> QED BY <1>1, <1>2, <1>3, <1>4, <1>5 DEF Boot

LEMMA BoundsWork ==
    ASSUME TypeOK, CtlInv, SaveInv, BoundsInv, NEW w \in Writers, Work(w)
    PROVE  BoundsInv'
  <1>1. CASE OpenFails(w) \/ CommitFails(w)
    BY <1>1
    DEF TypeOK, BoundsInv, Committed, OpenFails, CommitFails, SaveFailed, Unclean,
        nvsVars, bootVars, saveHist, CaStep, Commit, Restart, Writers, OneRange
  <1>2. CASE WriteKey(w)
    <2>1. step[w] \in 1..6 /\ step' = [step EXCEPT ![w] = @ + 1]
          /\ UNCHANGED <<cfg, seen, mode, buf, mixed>>
      BY <1>2 DEF WriteKey, bootVars, saveHist
    <2>2. step'["portal"] = CaStep => step["portal"] = CaStep
      BY <2>1 DEF TypeOK, CaStep
    <2>3. clean'["portal"] => clean["portal"]
      <3>1. \A v \in Writers : clean'[v] => clean[v]
        BY <1>2 DEF TypeOK, WriteKey, Unclean
      <3> QED BY <3>1 DEF Writers
    <2>4. Committed' BY <2>1, <2>2, <2>3 DEF BoundsInv, Committed
    <2>5. ASSUME ~mixed PROVE \A k \in Bounds : flash'[k] = flash[k]
      <3>1. w = "button"
        BY <2>1, <2>5 DEF SaveInv, OneForm, Saving, CaStep, Writers
      <3>2. \A k \in Bounds : buf[w][k] = flash[k]
        BY <2>1, <2>5, <3>1 DEF BoundsInv, Commit
      <3>3. DOMAIN flash = Keys BY DEF TypeOK, Configs
      <3> QED BY <1>2, <3>2, <3>3 DEF WriteKey, Bounds, Keys
    <2>6. step'["button"] \in 1..Commit => step["button"] \in 1..Commit
      BY <2>1 DEF TypeOK, Commit, Writers
    <2> QED
      BY <2>1, <2>4, <2>5, <2>6 DEF BoundsInv, OneRange, Bounds
  <1>3. CASE CommitKeys(w)
    <2>1. step[w] = 7 /\ step' = [step EXCEPT ![w] = 8] /\ cfg' = buf[w]
          /\ UNCHANGED <<flash, seen, mode, buf, clean, mixed>>
      BY <1>3 DEF CommitKeys, Commit, CaStep, nvsVars, bootVars, saveHist
    <2>2. Committed'
      <3>1. CASE w = "portal" BY <2>1, <3>1 DEF Committed
      <3>2. CASE w = "button"
        BY <2>1, <3>2
        DEF SaveInv, Exclusive, Committed, Saving, CaStep, Writers, Other, TypeOK
      <3> QED BY <3>1, <3>2 DEF Writers
    <2>3. ~mixed => w = "button"
      BY <2>1 DEF SaveInv, OneForm, Saving, CaStep, Writers
    <2>4. step'["button"] \in 1..Commit => step["button"] \in 1..Commit
      BY <2>1 DEF TypeOK, Commit, Writers
    <2> QED BY <2>1, <2>2, <2>3, <2>4 DEF BoundsInv, OneRange, Commit
  <1>4. CASE CaFails(w) \/ (WriteCa(w) /\ ~(clean[w] /\ w = "portal"))
    <2>1. step[w] = 8 /\ step' = [step EXCEPT ![w] = 9]
          /\ UNCHANGED <<flash, cfg, seen, mode, buf>>
      BY <1>4 DEF CaFails, WriteCa, CaStep, Restart, bootVars
    <2>2. mixed' = mixed
      <3>1. CASE CaFails(w) BY <3>1 DEF CaFails, saveHist
      <3>2. CASE WriteCa(w) /\ ~clean[w] BY <3>2 DEF WriteCa, saveHist
      <3>3. CASE WriteCa(w) /\ clean[w] /\ w # "portal"
        BY <3>3, Zenon DEF TypeOK, WriteCa, Writers
      <3> QED BY <1>4, <3>1, <3>2, <3>3
    <2>3. clean'["portal"] => clean["portal"]
      <3>1. \A v \in Writers : clean'[v] => clean[v]
        BY <1>4 DEF TypeOK, CaFails, WriteCa, Unclean
      <3> QED BY <3>1 DEF Writers
    <2>4. Committed' BY <2>1, <2>3 DEF TypeOK, BoundsInv, Committed, CaStep
    <2>5. step'["button"] \in 1..Commit => step["button"] \in 1..Commit
      BY <2>1 DEF TypeOK, Commit, Writers
    <2> QED BY <2>1, <2>2, <2>4, <2>5 DEF BoundsInv, OneRange
  <1>5. CASE WriteCa(w) /\ clean[w] /\ w = "portal"
    <2>1. step["portal"] = 8 /\ Saving("portal") /\ step'["portal"] = 9
          /\ step'["button"] = step["button"]
          /\ UNCHANGED <<flash, cfg, seen, mode, buf>>
      BY <1>5
      DEF TypeOK, WriteCa, CaStep, Restart, Saving, bootVars, Writers
    <2>2. mode = "softap" BY <2>1 DEF CtlInv
    <2>3. step["button"] \notin 1..Commit
      BY <1>5, <2>1 DEF SaveInv, Exclusive, Saving, Other, Writers, Commit, CaStep
    <2>4. \A k \in Bounds : cfg[k] = buf["portal"][k]
      BY <1>5, <2>1 DEF BoundsInv, Committed, CaStep
    <2>5. \A k \in Bounds : flash[k] = buf["portal"][k]
      BY <1>5, <2>1, OrderKeys DEF SaveInv, GonePast, Bounds
    <2>6. OneRange(flash)
      <3> DEFINE f == buf["portal"]["wifi"]
      <3>1. f \in Forms /\ Lo[f] < Hi[f]
        BY <2>1 DEF SaveInv, OneForm, Valid
      <3>2. flash["lo"] = f /\ flash["hi"] = f
        BY <2>1, <2>5 DEF SaveInv, OneForm, Bounds
      <3>3. Lo[f] \in Int /\ Hi[f] \in Int
        BY <3>1, ProvisionAssumption
      <3>4. Stored(Lo[f]) <= Stored(Hi[f])
        BY <3>1, <3>3, StoredMonotone
      <3> QED BY <3>2, <3>4 DEF OneRange
    <2> QED
      BY <2>1, <2>2, <2>3, <2>4, <2>5, <2>6
      DEF BoundsInv, Committed, OneRange, CaStep
  <1>6. CASE RestartNow(w)
    BY <1>6, BoundsReset DEF RestartNow, nvsVars, saveHist
  <1> QED BY <1>1, <1>2, <1>3, <1>4, <1>5, <1>6 DEF Work

LEMMA BoundsStep ==
    TypeOK /\ CtlInv /\ SaveInv /\ BoundsInv /\ [Next]_vars => BoundsInv'
  <1> SUFFICES ASSUME TypeOK, CtlInv, SaveInv, BoundsInv, [Next]_vars
               PROVE  BoundsInv'
    OBVIOUS
  <1>1. CASE UNCHANGED vars
    BY <1>1
    DEF BoundsInv, Committed, vars, nvsVars, bootVars, writerVars, saveHist, OneRange
  <1>2. CASE PowerCut
    BY <1>2, BoundsReset DEF PowerCut, nvsVars, saveHist
  <1>3. CASE Press
    <2>1. buf'["button"] = Cleared /\ buf'["portal"] = buf["portal"]
          /\ step'["portal"] = step["portal"] /\ mode # "off"
          /\ UNCHANGED <<flash, cfg, seen, mode, mixed>>
      BY <1>3 DEF TypeOK, Press, Begin, nvsVars, bootVars, Writers
    <2>2. \A k \in Bounds : Cleared[k] = cfg[k]
      BY DEF Cleared, Keys, Credentials, Bounds
    <2>3. clean'["portal"] => clean["portal"]
      BY <1>3 DEF TypeOK, Press, Begin, Writers
    <2>4. Committed' BY <2>1, <2>3 DEF BoundsInv, Committed
    <2> QED BY <2>1, <2>2, <2>4 DEF BoundsInv, OneRange, Bounds
  <1>4. ASSUME NEW f \in Forms, Submit(f) PROVE BoundsInv'
    <2>1. step'["portal"] = 1 /\ mixed'
      BY <1>4 DEF TypeOK, Submit, Begin, Writers
    <2> QED BY <2>1 DEF BoundsInv, Committed, CaStep
  <1>5. ASSUME NEW v \in Temps, StoreLast(v) PROVE BoundsInv'
    <2>1. \A k \in Bounds : cfg'[k] = cfg[k]
      BY <1>5 DEF TypeOK, Configs, StoreLast, Keys, Bounds
    <2> QED
      BY <1>5, <2>1
      DEF BoundsInv, Committed, StoreLast, nvsVars, bootVars, writerVars, saveHist,
          OneRange
  <1>6. CASE StoreLastKey
    <2>1. \A k \in Bounds : flash'[k] = flash[k]
      BY <1>6 DEF TypeOK, Configs, StoreLastKey, Keys, Bounds
    <2> QED
      BY <1>6, <2>1
      DEF BoundsInv, Committed, StoreLastKey, bootVars, writerVars, saveHist,
          OneRange, Bounds
  <1> QED
    BY <1>1, <1>2, <1>3, <1>4, <1>5, <1>6, BoundsBoot, BoundsWork DEF Next

\* Unless a save of the form was left unfinished, the CH bounds in force are
\* those of one form, and stay a range when cut to hundredths.
THEOREM BoundsAreKept == Spec => []BoundsKept
  <1>1. Init => BoundsInv
    BY EmptyRange DEF Init, BoundsInv, Committed, Writers, CaStep, Commit
  <1>2. BoundsInv => BoundsKept
    BY DEF BoundsInv, BoundsKept
  <1> QED
    BY <1>1, <1>2, TypeCorrect, CtlHolds, SavesHold, BoundsStep, PTL DEF Spec

-----------------------------------------------------------------------------
(* MQTT off for want of a CA *)

\* Until app_main decides, and unless a save or clear has been at the flash
\* since, the credentials it has read are those in flash.
ReadAsStored ==
    mode = "boot" /\ ~torn /\ step["button"] # Restart =>
        \A k \in Credentials : seen[k] = flash[k]

LEMMA ReadInit == Init => ReadAsStored
  BY DEF Init, ReadAsStored

LEMMA ReadWork ==
    ASSUME TypeOK, CtlInv, SaveInv, ReadAsStored, NEW w \in Writers, Work(w)
    PROVE  ReadAsStored'
  <1>1. CASE RestartNow(w)
    BY <1>1 DEF RestartNow, Reset, ReadAsStored
  <1>2. CASE WriteCa(w)
    <2>1. CASE w = "button"
      <3>1. step'["button"] = Restart
        BY <1>2, <2>1 DEF TypeOK, WriteCa
      <3> QED BY <3>1 DEF ReadAsStored
    <2>2. CASE w = "portal"
      <3>1. mode' = "softap"
        BY <1>2, <2>2 DEF CtlInv, WriteCa, bootVars, CaStep
      <3> QED BY <3>1 DEF ReadAsStored
    <2> QED BY <2>1, <2>2 DEF Writers
  <1>3. CASE OpenFails(w) \/ CommitFails(w) \/ WriteKey(w) \/ CommitKeys(w) \/ CaFails(w)
    <2>1. Saving(w)
      BY <1>3 DEF OpenFails, CommitFails, WriteKey, CommitKeys, CaFails, Saving, Commit,
         CaStep
    <2>2. torn' = torn
      BY <1>3 DEF OpenFails, CommitFails, SaveFailed, WriteKey, CommitKeys, CaFails,
         saveHist
    <2>3. torn
      BY <2>1 DEF TypeOK, SaveInv, TornInv
    <2> QED BY <2>2, <2>3 DEF ReadAsStored
  <1> QED BY <1>1, <1>2, <1>3 DEF Work

LEMMA ReadStep ==
    TypeOK /\ CtlInv /\ SaveInv /\ ReadAsStored /\ [Next]_vars => ReadAsStored'
  <1> SUFFICES ASSUME TypeOK, CtlInv, SaveInv, ReadAsStored, [Next]_vars
               PROVE  ReadAsStored'
    OBVIOUS
  <1>1. CASE UNCHANGED vars
    BY <1>1 DEF ReadAsStored, vars, nvsVars, bootVars, writerVars, saveHist
  <1>2. CASE Load
    <2>1. seen' = Used(flash) /\ flash' = flash
      BY <1>2 DEF Load, nvsVars
    <2> QED BY <2>1 DEF ReadAsStored, Used
  <1>3. CASE LoadErased
    <2>1. seen' = Used(Empty) /\ flash' = Empty
      BY <1>3 DEF LoadErased
    <2> QED BY <2>1 DEF ReadAsStored, Used
  <1>4. CASE Decide \/ KnownPsk \/ SoftApFails \/ PowerCut \/ \E p \in Psks : NewPsk(p)
    <2>1. mode' # "boot"
      BY <1>4 DEF Decide, BootAction, KnownPsk, NewPsk, Show, SoftApFails, PowerCut, Reset
    <2> QED BY <2>1 DEF ReadAsStored
  <1>5. CASE Press \/ \E f \in Forms : Submit(f)
    <2>1. torn' = TRUE
      BY <1>5 DEF Press, Submit, Begin
    <2> QED BY <2>1 DEF ReadAsStored
  <1>6. CASE StoreLastKey \/ \E v \in Temps : StoreLast(v)
    <2>1. mode' = "run"
      BY <1>6 DEF CtlInv, StoreLast, StoreLastKey, bootVars
    <2> QED BY <2>1 DEF ReadAsStored
  <1> QED BY <1>1, <1>2, <1>3, <1>4, <1>5, <1>6, ReadWork DEF Next, Boot

\* app_main goes without MQTT for want of a CA only after a save or clear that
\* was not finished, or while a clear that is through is about to restart: a
\* whole save of a form with TLS has left its CA.
THEOREM MqttOffMeansTorn == Spec => MqttOffOnlyAfterTear
  <1> DEFINE TurnsOff ==
        mode' = "noMqtt" /\ mode # "noMqtt" => torn \/ step["button"] = Restart
  <1>1. TypeOK /\ CtlInv /\ SaveInv /\ ReadAsStored /\ [Next]_vars => [TurnsOff]_vars
    <2> SUFFICES ASSUME TypeOK, CtlInv, SaveInv, ReadAsStored, Next,
                        mode' = "noMqtt", mode # "noMqtt",
                        ~torn, step["button"] # Restart
                 PROVE  FALSE
      OBVIOUS
    <2>1. Decide
      BY DEF Next, Boot, Load, LoadErased, KnownPsk, NewPsk, Show, SoftApFails, PowerCut,
         Reset, Press, Submit, Begin, Work, OpenFails, CommitFails, SaveFailed, WriteKey,
         CommitKeys, WriteCa, CaFails, RestartNow, StoreLast, StoreLastKey, bootVars
    <2>2. seen["tls"] \in Tls /\ ca = Blank
      BY <2>1 DEF Decide, BootAction
    <2>3. flash["tls"] = seen["tls"] /\ flash["tls"] = saved
      BY <2>1 DEF Decide, ReadAsStored, SaveInv, SavedOrCleared, Credentials
    <2>4. ca = saved /\ saved \in Forms
      BY <2>2, <2>3, ProvisionAssumption DEF SaveInv, SavedOrCleared
    <2> QED BY <2>2, <2>4, ProvisionAssumption
  <1>2. Spec => []ReadAsStored
    BY ReadInit, ReadStep, TypeCorrect, CtlHolds, SavesHold, PTL DEF Spec
  <1> QED BY <1>1, <1>2, TypeCorrect, CtlHolds, SavesHold, PTL DEF Spec, MqttOffOnlyAfterTear

=============================================================================
