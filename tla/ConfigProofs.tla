----------------------------- MODULE ConfigProofs -----------------------------
(***************************************************************************)
(* What the skills make of layers of configuration: RenderSkill in the     *)
(* first two parts, Roster in the third.  Neither needs a fact of the      *)
(* other.                                                                  *)
(*                                                                         *)
(* RenderSkill, for any number of renderers, sources, layers, edits and    *)
(* faults: what is published is whole, and of the layers the last wins.    *)
(*                                                                         *)
(* Roster, for any setup, in any order of agents and members.  Lookups     *)
(* says how the pool, its origins and the index belong together after each *)
(* registration: no lookup leads to somebody whose title it is not.        *)
(* RoomInv compares the two scripts: after the same registrations their    *)
(* pools agree in everything a room shows (InStep), and so does whom a     *)
(* title leads to, as long as the titles of those concerned are distinct   *)
(* (Titling).                                                              *)
(***************************************************************************)
EXTENDS RenderSkill, Roster, FiniteSetTheorems, TLAPS

(* A generation is only ever published under the hash of what is in it, so a *)
(* renderer that finds its own name taken finds its own content, or damage.  *)

PCs == {"idle", "sources", "config", "publish", "rename", "entry", "halt"}

ProcShape ==
    /\ DOMAIN proc = Procs /\ proc = [p \in Procs |-> proc[p]]
    /\ \A p \in Procs :
        /\ proc[p] = [pc |-> proc[p].pc, src |-> proc[p].src,
                      read |-> proc[p].read, values |-> proc[p].values]
        /\ proc[p].pc \in PCs

GenInv(i) == gens[i] \in [content : {i}, intact : BOOLEAN]
GensInv == gens = [i \in DOMAIN gens |-> gens[i]] /\ \A i \in DOMAIN gens : GenInv(i)

Inv == ProcShape /\ GensInv /\ HaltMeansDamage /\ faults \in Nat

-----------------------------------------------------------------------------
(* What a step of renderer p does to the renderers. *)

Others(p) == \A q \in Procs \ {p} : proc'[q] = proc[q]

LEMMA GotoShape ==
    ASSUME ProcShape, NEW p \in Procs, NEW pc \in PCs, Goto(p, pc)
    PROVE  /\ ProcShape' /\ Others(p)
           /\ proc'[p].pc = pc
           /\ proc'[p].src = proc[p].src /\ proc'[p].values = proc[p].values
  BY DEF ProcShape, Goto, Others

LEMMA EndShape ==
    ASSUME ProcShape, NEW p \in Procs, End(p)
    PROVE  ProcShape' /\ Others(p) /\ proc'[p].pc = "idle"
  BY DEF ProcShape, End, Becomes, Others, Idle, PCs

RecordOf(r) == [pc |-> r.pc, src |-> r.src, read |-> r.read, values |-> r.values]

LEMMA NewShape ==
    ASSUME ProcShape, NEW p \in Procs, NEW r, r = RecordOf(r), r.pc \in PCs,
           Becomes(p, r)
    PROVE  ProcShape' /\ Others(p) /\ proc'[p] = r
  BY DEF ProcShape, Others, Becomes, RecordOf

(* Reading goes on to the configuration at the most. *)
LEMMA SourceShape ==
    ASSUME ProcShape, NEW p \in Procs, ReadSource(p)
    PROVE  ProcShape' /\ Others(p) /\ proc'[p].pc \in {"sources", "config"}
  <1> DEFINE f == Len(proc[p].src) + 1
             s == Append(proc[p].src, src[f])
             pc == IF f = NSources THEN "config" ELSE "sources"
             r == [proc[p] EXCEPT !.src = s, !.pc = pc]
             Records == [pc : PCs, src : {proc[p].src, s}, read : {proc[p].read},
                         values : {proc[p].values}]
  <1>1. Becomes(p, r)
    BY DEF ReadSource
  <1>2. pc \in {"sources", "config"}
    OBVIOUS
  <1> HIDE DEF s, pc
  <1>3. proc[p] \in Records
    BY DEF ProcShape
  <1>4. r \in Records /\ r.pc = pc
    BY <1>2, <1>3 DEF PCs
  <1> HIDE DEF r
  <1>5. r = RecordOf(r)
    BY <1>4 DEF RecordOf
  <1>6. PICK t : t = r
    OBVIOUS
  <1> QED BY <1>1, <1>2, <1>4, <1>5, <1>6, NewShape DEF PCs

LEMMA LayerShape ==
    ASSUME ProcShape, NEW p \in Procs, ReadLayer(p)
    PROVE  ProcShape' /\ Others(p) /\ proc'[p].pc = "config"
  <1> DEFINE l == proc[p].read + 1
             v == MergeLayer(proc[p].values, layers[l])
             r == [proc[p] EXCEPT !.read = l, !.values = v]
             Records == [pc : {"config"}, src : {proc[p].src},
                         read : {proc[p].read, l}, values : {proc[p].values, v}]
  <1>1. Becomes(p, r) /\ proc[p].pc = "config"
    BY DEF ReadLayer, At
  <1> HIDE DEF l, v
  <1>2. proc[p] \in Records
    BY <1>1 DEF ProcShape
  <1>3. r \in Records
    BY <1>2
  <1> HIDE DEF r
  <1>4. r = RecordOf(r) /\ r.pc = "config"
    BY <1>3 DEF RecordOf
  <1>5. PICK t : t = r
    OBVIOUS
  <1> QED BY <1>1, <1>4, <1>5, NewShape DEF PCs

LEMMA ReadShape ==
    ASSUME ProcShape, NEW p \in Procs, ReadSource(p) \/ ReadLayer(p)
    PROVE  ProcShape' /\ Others(p) /\ proc'[p].pc \notin {"entry", "halt"}
  BY SourceShape, LayerShape

(* Nothing else than a rename, or a damage, touches what is published. *)
LEMMA GensKept ==
    ASSUME Inv, gens' = gens, ProcShape', NEW p \in Procs, Others(p),
           proc'[p].pc # "halt", faults' \in Nat
    PROVE  Inv'
  <1>1. GensInv'
    BY DEF Inv, GensInv, GenInv
  <1>2. ASSUME NEW q \in Procs, At(q, "halt")'
        PROVE  Published(q)' /\ ~gens'[Dest(q)'].intact
    <2>1. q # p /\ proc'[q] = proc[q]
      BY <1>2 DEF Others, At
    <2>2. At(q, "halt") /\ Dest(q)' = Dest(q)
      BY <1>2, <2>1 DEF At, Dest, Identity, Inputs
    <2> QED BY <2>2 DEF Inv, HaltMeansDamage, Published
  <1> QED BY <1>1, <1>2 DEF Inv, HaltMeansDamage

LEMMA ProcStep ==
    ASSUME Inv, NEW p \in Procs,
           \/ Begin(p) \/ ReadSource(p) \/ ReadLayer(p) \/ Resolve(p)
           \/ Stage(p) \/ Report(p) \/ Fail(p) \/ Kill(p)
           \/ \E pc \in {"publish", "rename"} : UseExisting(p, pc)
    PROVE  gens' = gens /\ Inv'
  <1> USE DEF Inv
  <1>1. gens' = gens /\ faults' \in Nat
    <2>1. gens' = gens /\ faults' \in {faults, faults + 1}
      BY DEF Begin, ReadSource, ReadLayer, Resolve, Stage, Report, Fail, Kill,
             UseExisting
    <2> QED BY <2>1
  <1>2. CASE Begin(p) \/ Stage(p) \/ \E pc \in {"publish", "rename"} : UseExisting(p, pc)
    <2>1. \E pc \in PCs \ {"halt"} : Goto(p, pc)
      BY <1>2 DEF Begin, Stage, UseExisting, PCs
    <2> QED BY <1>1, <2>1, GotoShape, GensKept
  <1>3. CASE ReadSource(p) \/ ReadLayer(p)
    <2>1. ProcShape' /\ Others(p) /\ proc'[p].pc # "halt"
      BY <1>3, ReadShape
    <2> QED BY <1>1, <2>1, GensKept
  <1>5. CASE Resolve(p)
    <2>1. Goto(p, "publish") \/ End(p)
      BY <1>5 DEF Resolve
    <2>2. ProcShape' /\ Others(p) /\ proc'[p].pc # "halt"
      BY <2>1, GotoShape, EndShape DEF PCs
    <2> QED BY <1>1, <2>2, GensKept
  <1>6. CASE Report(p) \/ Fail(p) \/ Kill(p)
    <2>1. End(p)
      BY <1>6 DEF Report, Fail, Kill
    <2>2. ProcShape' /\ Others(p) /\ proc'[p].pc # "halt"
      BY <2>1, EndShape
    <2> QED BY <1>1, <2>2, GensKept
  <1> QED BY <1>2, <1>3, <1>5, <1>6, <1>1

LEMMA HaltStep ==
    ASSUME Inv, NEW p \in Procs, NEW pc \in {"publish", "rename"}, Halt(p, pc)
    PROVE  gens' = gens /\ Inv'
  <1> USE DEF Inv
  <1>1. gens' = gens /\ faults' = faults /\ Published(p) /\ ~Verifies(p) /\ Goto(p, "halt")
    BY DEF Halt
  <1>2. /\ ProcShape' /\ Others(p)
        /\ proc'[p].src = proc[p].src /\ proc'[p].values = proc[p].values
    BY <1>1, GotoShape DEF PCs
  <1>3. Dest(p)' = Dest(p)
    BY <1>2 DEF Dest, Identity, Inputs
  <1>4. gens[Dest(p)].intact = FALSE
    <2>1. GenInv(Dest(p))
      BY <1>1 DEF Published, GensInv
    <2>2. Rendered(Inputs(p)) = Dest(p)
      BY DEF Rendered, Dest, Identity
    <2> QED BY <1>1, <2>1, <2>2 DEF Verifies, GenInv
  <1>5. GensInv'
    BY <1>1 DEF GensInv, GenInv
  <1>6. ASSUME NEW q \in Procs, At(q, "halt")'
        PROVE  Published(q)' /\ ~gens'[Dest(q)'].intact
    <2>1. CASE q = p
      BY <1>1, <1>3, <1>4, <2>1 DEF Published
    <2>2. CASE q # p
      <3>1. At(q, "halt") /\ Dest(q)' = Dest(q)
        BY <1>2, <1>6, <2>2 DEF Others, At, Dest, Identity, Inputs
      <3> QED BY <1>1, <3>1 DEF HaltMeansDamage, Published
    <2> QED BY <2>1, <2>2
  <1> QED BY <1>1, <1>2, <1>5, <1>6 DEF HaltMeansDamage

LEMMA RenameStep ==
    ASSUME Inv, NEW p \in Procs, Rename(p)
    PROVE  /\ Inv'
           /\ \A i \in DOMAIN gens : i \in DOMAIN gens' /\ gens'[i] = gens[i]
  <1> USE DEF Inv
  <1>1. ~Published(p) /\ Goto(p, "entry") /\ faults' = faults
    BY DEF Rename
  <1>2. /\ DOMAIN gens' = DOMAIN gens \union {Dest(p)}
        /\ gens'[Dest(p)] = [content |-> Rendered(Inputs(p)), intact |-> TRUE]
        /\ \A i \in DOMAIN gens : gens'[i] = gens[i]
        /\ gens' = [i \in DOMAIN gens' |-> gens'[i]]
    BY <1>1 DEF Rename, Published
  <1>3. ProcShape' /\ Others(p) /\ proc'[p].pc = "entry"
    BY <1>1, GotoShape DEF PCs
  <1>4. GensInv'
    <2>1. Rendered(Inputs(p)) = Dest(p)
      BY DEF Rendered, Dest, Identity
    <2>2. ASSUME NEW i \in DOMAIN gens' PROVE GenInv(i)'
      <3>1. CASE i = Dest(p)
        <4>1. gens'[i] = [content |-> i, intact |-> TRUE]
          BY <1>2, <2>1, <3>1
        <4> QED BY <4>1 DEF GenInv
      <3>2. CASE i \in DOMAIN gens
        BY <1>2, <3>2 DEF GensInv, GenInv
      <3> QED BY <1>2, <3>1, <3>2
    <2> QED BY <1>2, <2>2 DEF GensInv
  <1>5. ASSUME NEW q \in Procs, At(q, "halt")'
        PROVE  Published(q)' /\ ~gens'[Dest(q)'].intact
    <2>1. q # p
      BY <1>3, <1>5 DEF At
    <2>2. At(q, "halt") /\ Dest(q)' = Dest(q)
      BY <1>3, <1>5, <2>1 DEF Others, At, Dest, Identity, Inputs
    <2> QED BY <1>2, <2>2 DEF HaltMeansDamage, Published
  <1> QED BY <1>1, <1>2, <1>3, <1>4, <1>5 DEF HaltMeansDamage

LEMMA DamageStep ==
    ASSUME Inv, NEW k \in DOMAIN gens, Damage(k)
    PROVE  Inv' /\ DOMAIN gens' = DOMAIN gens /\ faults' # faults /\ proc' = proc
  <1> USE DEF Inv
  <1>1. /\ DOMAIN gens' = DOMAIN gens /\ proc' = proc
        /\ \A i \in DOMAIN gens \ {k} : gens'[i] = gens[i]
        /\ gens'[k] \in [content : {k}, intact : {FALSE}]
        /\ gens' = [i \in DOMAIN gens' |-> gens'[i]]
    <2>1. gens' = [gens EXCEPT ![k].intact = FALSE] /\ proc' = proc
      BY DEF Damage
    <2>2. gens[k] \in [content : {k}, intact : BOOLEAN]
      BY DEF GensInv, GenInv
    <2>3. gens' = [i \in DOMAIN gens |-> IF i = k
                        THEN [gens[k] EXCEPT !.intact = FALSE] ELSE gens[i]]
      BY <2>1 DEF GensInv
    <2>4. [gens[k] EXCEPT !.intact = FALSE] \in [content : {k}, intact : {FALSE}]
      BY <2>2
    <2> QED BY <2>1, <2>3, <2>4
  <1>2. faults' = faults + 1
    BY DEF Damage
  <1>3. GensInv'
    <2>1. ASSUME NEW i \in DOMAIN gens' PROVE GenInv(i)'
      <3>1. CASE i = k
        BY <1>1, <3>1 DEF GenInv
      <3>2. CASE i # k
        BY <1>1, <2>1, <3>2 DEF GensInv, GenInv
      <3> QED BY <3>1, <3>2
    <2> QED BY <1>1, <2>1 DEF GensInv
  <1>4. ASSUME NEW q \in Procs, At(q, "halt")'
        PROVE  Published(q)' /\ ~gens'[Dest(q)'].intact
    <2>1. At(q, "halt") /\ Dest(q)' = Dest(q)
      BY <1>1, <1>4 DEF At, Dest, Identity, Inputs
    <2> QED BY <1>1, <2>1 DEF HaltMeansDamage, Published
  <1> QED BY <1>1, <1>2, <1>3, <1>4 DEF HaltMeansDamage, ProcShape

(* An edit touches neither a renderer nor what is published. *)
LEMMA UntouchedStep ==
    ASSUME Inv, UNCHANGED <<gens, proc, faults>>
    PROVE  Inv'
  <1>1. ProcShape' /\ GensInv' /\ faults' \in Nat
    BY DEF Inv, ProcShape, GensInv, GenInv
  <1>2. HaltMeansDamage'
    BY DEF Inv, HaltMeansDamage, At, Published, Dest, Identity, Inputs
  <1> QED BY <1>1, <1>2 DEF Inv

Edits == \/ \E f \in Files, v \in Versions : EditSource(f, v)
         \/ \E l \in Layers \ {1}, path \in Paths, v \in Plain : EditPlain(l, path, v)
         \/ \E l \in Layers \ {1}, t \in Tables : EditTable(l, t)

LEMMA EditsTouchNothing == Edits => UNCHANGED <<gens, proc, faults>>
  BY DEF Edits, EditSource, EditPlain, EditTable, EditLayer

Moves(p) == \/ Begin(p) \/ ReadSource(p) \/ ReadLayer(p) \/ Resolve(p)
            \/ Stage(p) \/ Report(p) \/ Fail(p) \/ Kill(p)
            \/ \E pc \in {"publish", "rename"} : UseExisting(p, pc)

(* The ways a step can go, by what they do to the generations. *)
LEMMA NextCases ==
    ASSUME [Next]_vars
    PROVE  \/ \E p \in Procs : Moves(p)
           \/ \E p \in Procs, pc \in {"publish", "rename"} : Halt(p, pc)
           \/ \E p \in Procs : Rename(p)
           \/ \E i \in DOMAIN gens : Damage(i)
           \/ UNCHANGED <<gens, proc, faults>>
  BY EditsTouchNothing DEF Next, Moves, Edits, vars

-----------------------------------------------------------------------------
LEMMA InitInv == Init => Inv
  <1> SUFFICES ASSUME Init PROVE Inv
    OBVIOUS
  <1>1. proc = [p \in Procs |-> Idle] /\ DOMAIN gens = {} /\ gens = [i \in {} |-> 0] /\ faults = 0
    BY DEF Init
  <1>2. ProcShape
    BY <1>1 DEF ProcShape, Idle, PCs
  <1>3. GensInv
    BY <1>1 DEF GensInv
  <1>4. HaltMeansDamage
    BY <1>1 DEF HaltMeansDamage, At, Idle
  <1> QED BY <1>1, <1>2, <1>3, <1>4 DEF Inv

LEMMA StepInv == Inv /\ [Next]_vars => Inv'
  <1> SUFFICES ASSUME Inv, [Next]_vars PROVE Inv'
    OBVIOUS
  <1>1. CASE \E p \in Procs : Moves(p)
    BY <1>1, ProcStep DEF Moves
  <1>2. CASE \E p \in Procs, pc \in {"publish", "rename"} : Halt(p, pc)
    BY <1>2, HaltStep
  <1>3. CASE \E p \in Procs : Rename(p)
    BY <1>3, RenameStep
  <1>4. CASE \E i \in DOMAIN gens : Damage(i)
    BY <1>4, DamageStep
  <1>5. CASE UNCHANGED <<gens, proc, faults>>
    BY <1>5, UntouchedStep
  <1> QED BY <1>1, <1>2, <1>3, <1>4, <1>5, NextCases

LEMMA Invariance == Spec => []Inv
  BY InitInv, StepInv, PTL DEF Spec

(* A renderer HALTs over a published generation only when that generation was
   damaged: two renderers never disagree about the content of one name. *)
THEOREM HaltsMeanDamage == Spec => []HaltMeansDamage
  <1>1. Inv => HaltMeansDamage
    BY DEF Inv
  <1> QED BY <1>1, Invariance, PTL

(* A published generation is never replaced or removed by any renderer: only
   damage from outside changes it. *)
THEOREM PublishedIsKept == Spec => PublishedStays
  <1> DEFINE Kept == \A i \in DOMAIN gens :
        i \in DOMAIN gens' /\ (gens'[i] = gens[i] \/ faults' # faults)
  <1>1. Inv /\ [Next]_vars => [Kept]_vars
    <2> SUFFICES ASSUME Inv, [Next]_vars PROVE Kept
      OBVIOUS
    <2>1. CASE \E p \in Procs : Moves(p)
      BY <2>1, ProcStep DEF Moves
    <2>2. CASE \E p \in Procs, pc \in {"publish", "rename"} : Halt(p, pc)
      BY <2>2, HaltStep
    <2>3. CASE \E p \in Procs : Rename(p)
      BY <2>3, RenameStep
    <2>4. CASE \E i \in DOMAIN gens : Damage(i)
      BY <2>4, DamageStep
    <2>5. CASE UNCHANGED <<gens, proc, faults>>
      BY <2>5
    <2> QED BY <2>1, <2>2, <2>3, <2>4, <2>5, NextCases
  <1> QED BY <1>1, Invariance, PTL DEF Spec, PublishedStays

-----------------------------------------------------------------------------
(* Of all steps only a renderer that found its generation, verified, or has
   just renamed it there, goes on to the entry. *)
Arrives(p) == ~At(p, "entry") /\ proc'[p].pc = "entry"
WholeEntry(p) ==
    /\ Dest(p) \in DOMAIN gens'
    /\ gens'[Dest(p)] = [content |-> Rendered(Inputs(p)), intact |-> TRUE]

LEMMA MovesArrive ==
    ASSUME Inv, NEW q \in Procs, Moves(q), NEW p \in Procs, Arrives(p)
    PROVE  WholeEntry(p)
  <1>0. gens' = gens /\ ProcShape
    BY ProcStep DEF Moves, Inv
  <1>1. CASE \E pc \in {"publish", "rename"} : UseExisting(q, pc)
    <2>1. Published(q) /\ Verifies(q) /\ Goto(q, "entry")
      BY <1>1 DEF UseExisting
    <2>2. p = q
      BY <1>0, <2>1, GotoShape DEF Arrives, At, Others, PCs
    <2> QED BY <1>0, <2>1, <2>2 DEF WholeEntry, Published, Verifies
  <1>2. CASE Begin(q) \/ Stage(q)
    <2>1. \E pc \in PCs \ {"entry"} : Goto(q, pc)
      BY <1>2 DEF Begin, Stage, PCs
    <2> QED BY <1>0, <2>1, GotoShape DEF Arrives, At, Others
  <1>3. CASE ReadSource(q) \/ ReadLayer(q)
    <2>1. proc'[q].pc # "entry" /\ Others(q)
      BY <1>0, <1>3, ReadShape
    <2> QED BY <2>1 DEF Arrives, At, Others
  <1>4. CASE Resolve(q)
    <2>1. Goto(q, "publish") \/ End(q)
      BY <1>4 DEF Resolve
    <2>2. Others(q) /\ proc'[q].pc # "entry"
      BY <1>0, <2>1, GotoShape, EndShape DEF PCs
    <2> QED BY <2>2 DEF Arrives, At, Others
  <1>5. CASE Report(q) \/ Fail(q) \/ Kill(q)
    <2>1. End(q)
      BY <1>5 DEF Report, Fail, Kill
    <2>2. Others(q) /\ proc'[q].pc # "entry"
      BY <1>0, <2>1, EndShape
    <2> QED BY <2>2 DEF Arrives, At, Others
  <1> QED BY <1>1, <1>2, <1>3, <1>4, <1>5 DEF Moves

(* Whoever made it, a renderer sends the agent only to a generation that has
   all that the renderer computed itself. *)
THEOREM EntriesAreWhole == Spec => EntryIsWhole
  <1> DEFINE Whole == \A p \in Procs : Arrives(p) => WholeEntry(p)
  <1>1. Inv /\ [Next]_vars => [Whole]_vars
    <2> SUFFICES ASSUME Inv, [Next]_vars, NEW p \in Procs, Arrives(p)
                 PROVE  WholeEntry(p)
      OBVIOUS
    <2>0. ProcShape
      BY DEF Inv
    <2>1. CASE \E q \in Procs : Moves(q)
      BY <2>1, MovesArrive
    <2>2. CASE \E q \in Procs, pc \in {"publish", "rename"} : Halt(q, pc)
      <3>1. PICK q \in Procs : Goto(q, "halt")
        BY <2>2 DEF Halt
      <3> QED BY <2>0, <3>1, GotoShape DEF Arrives, At, Others, PCs
    <2>3. CASE \E q \in Procs : Rename(q)
      <3>1. PICK q \in Procs : Rename(q)
        BY <2>3
      <3>2. Goto(q, "entry")
        BY <3>1 DEF Rename
      <3>3. p = q
        BY <2>0, <3>2, GotoShape DEF Arrives, At, Others, PCs
      <3> QED BY <3>1, <3>3 DEF Rename, WholeEntry
    <2>4. CASE \E i \in DOMAIN gens : Damage(i)
      BY <2>4 DEF Damage, Arrives, At
    <2>5. CASE UNCHANGED <<gens, proc, faults>>
      BY <2>5 DEF Arrives, At
    <2> QED BY <2>1, <2>2, <2>3, <2>4, <2>5, NextCases
  <1>2. [Whole]_vars => [\A p \in Procs : ~At(p, "entry") /\ proc'[p].pc = "entry" =>
            /\ Dest(p) \in DOMAIN gens'
            /\ gens'[Dest(p)] = [content |-> Rendered(Inputs(p)), intact |-> TRUE]]_vars
    BY DEF Arrives, WholeEntry
  <1> QED BY <1>1, <1>2, Invariance, PTL DEF Spec, EntryIsWhole

-----------------------------------------------------------------------------
(* The merge.  MergeLayers and MergeTable are loops; with FoldTheorems what *)
(* they give is shown one layer, and within it one item, at a time.         *)

ByItem  == INSTANCE FoldTheorems WITH Op <- PutItem
ByLayer == INSTANCE FoldTheorems WITH Op <- MergeLayer

\* The tables of clean layers: an id for every item, and none twice.
IdsOf(t) == {t[i].id : i \in DOMAIN t}
Named(t) == \A i \in DOMAIN t : t[i].id # Absent
Unique(t) == \A i, j \in DOMAIN t : t[i].id = t[j].id => i = j
Good(t) == t \in Seq(Item) /\ Named(t) /\ Unique(t)

\* The loop over the items of a table, and the one over the layers.
LEMMA ItemsFold ==
    ASSUME NEW base, NEW over
    PROVE  FoldLeft(PutItem, base, over) = ByItem!Fold(base, over)
  BY DEF FoldLeft, MapThenFoldSet, Max, ByItem!Fold, ByItem!Iter, ByItem!Last

LEMMA LayersFold ==
    ASSUME NEW ls
    PROVE  MergeLayers(ls) = ByLayer!Fold(NoLayer, ls)
  BY DEF MergeLayers, FoldLeft, MapThenFoldSet, Max, ByLayer!Fold, ByLayer!Iter,
         ByLayer!Last

\* An item goes to the place of its id, or to the end.
LEMMA PutItemGives ==
    ASSUME NEW t, Good(t), NEW item \in Item, item.id # Absent
    PROVE  LET r == PutItem(t, item)
           IN  /\ Good(r)
               /\ IdsOf(r) = IdsOf(t) \union {item.id}
               /\ \A i \in DOMAIN r :
                    r[i] = item \/ (r[i].id # item.id /\ r[i] \in ToSet(t))
  <1> DEFINE r == PutItem(t, item)
  <1> USE DEF Good, Named, Unique, IdsOf, ToSet
  <1>1. CASE \E i \in DOMAIN t : t[i].id = item.id
    <2>1. PICK p \in DOMAIN t : t[p].id = item.id
      BY <1>1
    <2>2. Position(t, item.id) = p
      <3>1. \A i \in DOMAIN t : t[i].id = item.id => i = p
        BY <2>1
      <3>2. p <= p
        OBVIOUS
      <3>3. /\ t[p].id = item.id
            /\ \A j \in DOMAIN t : t[j].id = item.id => j <= p
        BY <2>1, <3>1, <3>2
      <3> QED BY <3>1, <3>3 DEF Position
    <2>3. r = [t EXCEPT ![p] = item]
      BY <1>1, <2>2 DEF PutItem
    <2> HIDE DEF r
    <2>4. /\ r \in Seq(Item) /\ DOMAIN r = DOMAIN t /\ r[p] = item
          /\ \A i \in DOMAIN t : i # p => r[i] = t[i]
      BY <2>1, <2>3
    <2>5. Good(r)
      BY <2>1, <2>4
    <2>6. IdsOf(r) = IdsOf(t) \union {item.id}
      BY <2>1, <2>4
    <2>7. ASSUME NEW i \in DOMAIN r, r[i] # item
          PROVE  r[i].id # item.id /\ r[i] \in ToSet(t)
      BY <2>1, <2>4, <2>7
    <2> QED BY <2>5, <2>6, <2>7 DEF r
  <1>2. CASE ~\E i \in DOMAIN t : t[i].id = item.id
    <2>1. r = Append(t, item)
      BY <1>2 DEF PutItem
    <2> HIDE DEF r
    <2>2. /\ r \in Seq(Item) /\ DOMAIN r = DOMAIN t \union {Len(t) + 1}
          /\ r[Len(t) + 1] = item /\ Len(t) + 1 \notin DOMAIN t
          /\ \A i \in DOMAIN t : r[i] = t[i]
      BY <2>1
    <2>3. Good(r)
      BY <1>2, <2>2
    <2>4. IdsOf(r) = IdsOf(t) \union {item.id}
      BY <2>2
    <2>5. ASSUME NEW i \in DOMAIN r, r[i] # item
          PROVE  r[i].id # item.id /\ r[i] \in ToSet(t)
      BY <1>2, <2>2, <2>5
    <2> QED BY <2>3, <2>4, <2>5 DEF r
  <1> QED BY <1>1, <1>2

\* The later table's items replace those of their ids, the others stay.
Merged(r, base, over) ==
    /\ Good(r)
    /\ IdsOf(r) = IdsOf(base) \union IdsOf(over)
    /\ \A i \in DOMAIN r :
         \/ r[i] \in ToSet(over)
         \/ r[i].id \notin IdsOf(over) /\ r[i] \in ToSet(base)

LEMMA ItemsMerge ==
    ASSUME NEW base, Good(base), NEW over, Good(over)
    PROVE  Merged(ByItem!Fold(base, over), base, over)
  <1> DEFINE First(k) == SubSeq(over, 1, k)
             Fine == {k \in Nat : k <= Len(over) =>
                        Merged(ByItem!Fold(base, First(k)), base, First(k))}
  <1>0. over \in Seq(Item) /\ Len(over) \in Nat
    BY DEF Good
  <1>1. 0 \in Fine
    <2>1. DOMAIN First(0) = {}
      BY <1>0
    <2> HIDE DEF First
    <2>2. ByItem!Fold(base, First(0)) = base
      BY <2>1, ByItem!FoldNone
    <2>3. IdsOf(First(0)) = {}
      BY <2>1 DEF IdsOf
    <2> QED BY <2>2, <2>3 DEF Merged, ToSet
  <1>2. ASSUME NEW k \in Nat, k \in Fine PROVE k + 1 \in Fine
    <2> SUFFICES ASSUME k + 1 <= Len(over)
                 PROVE  Merged(ByItem!Fold(base, First(k + 1)), base, First(k + 1))
      OBVIOUS
    <2>1. k < Len(over) /\ k <= Len(over) /\ k + 1 \in 1..Len(over)
      BY <1>0
    <2> DEFINE t == ByItem!Fold(base, First(k))
               item == over[k + 1]
               r == PutItem(t, item)
    <2>2. Merged(t, base, First(k))
      BY <1>2, <2>1
    <2>3. ByItem!Fold(base, First(k + 1)) = r
      BY <1>0, <2>1, ByItem!FoldPrefix
    <2>4. item \in Item /\ item.id # Absent
      BY <1>0, <2>1 DEF Good, Named
    <2>5. /\ DOMAIN First(k) = 1..k /\ DOMAIN First(k + 1) = 1..(k + 1)
          /\ \A i \in 1..k : First(k)[i] = over[i] /\ First(k + 1)[i] = over[i]
          /\ First(k + 1)[k + 1] = item
      BY <1>0, <2>1
    <2> HIDE DEF First, t, item, Fine
    <2>6. /\ Good(r)
          /\ IdsOf(r) = IdsOf(t) \union {item.id}
          /\ \A i \in DOMAIN r :
               r[i] = item \/ (r[i].id # item.id /\ r[i] \in ToSet(t))
      BY <2>2, <2>4, PutItemGives DEF Merged
    <2> HIDE DEF r
    <2>7. IdsOf(First(k + 1)) = IdsOf(First(k)) \union {item.id}
      BY <2>5 DEF IdsOf
    <2>8. ToSet(First(k)) \subseteq ToSet(First(k + 1)) /\ item \in ToSet(First(k + 1))
      BY <2>5 DEF ToSet
    <2>9. \A x \in ToSet(t) :
            x \in ToSet(First(k)) \/ (x.id \notin IdsOf(First(k)) /\ x \in ToSet(base))
      BY <2>2 DEF Merged, ToSet
    <2>10. ASSUME NEW i \in DOMAIN r
           PROVE  \/ r[i] \in ToSet(First(k + 1))
                  \/ r[i].id \notin IdsOf(First(k + 1)) /\ r[i] \in ToSet(base)
      BY <2>6, <2>7, <2>8, <2>9
    <2>11. IdsOf(r) = IdsOf(base) \union IdsOf(First(k + 1))
      BY <2>2, <2>6, <2>7 DEF Merged
    <2> QED BY <2>3, <2>6, <2>10, <2>11 DEF Merged
  <1> HIDE DEF Fine
  <1>3. Len(over) \in Fine
    BY <1>0, <1>1, <1>2, ByItem!FromZero
  <1>4. First(Len(over)) = over /\ Len(over) <= Len(over)
    BY <1>0
  <1> QED BY <1>3, <1>4 DEF Fine

\* So do whole tables, empty ones included.
LEMMA TablesMerge ==
    ASSUME NEW base, Good(base), NEW over, Good(over)
    PROVE  Merged(MergeTable(base, over), base, over)
  <1>0. /\ base \in Seq(Item) /\ Len(base) \in Nat /\ DOMAIN base = 1..Len(base)
        /\ over \in Seq(Item) /\ Len(over) \in Nat /\ DOMAIN over = 1..Len(over)
    BY DEF Good
  <1> DEFINE both == base \o over
  <1>1. /\ both \in Seq(Item) /\ DOMAIN both = 1..(Len(base) + Len(over))
        /\ \A i \in 1..Len(base) : both[i] = base[i]
        /\ \A i \in 1..Len(over) : both[Len(base) + i] = over[i]
    BY <1>0
  <1> HIDE DEF both
  <1>2. ASSUME NEW i \in DOMAIN both PROVE both[i].id # Absent
    <2>1. CASE i \in 1..Len(base)
      BY <1>0, <1>1, <2>1 DEF Good, Named
    <2>2. CASE i \notin 1..Len(base)
      <3>1. i - Len(base) \in 1..Len(over) /\ i = Len(base) + (i - Len(base))
        BY <1>0, <1>1, <2>2
      <3>2. both[i] = over[i - Len(base)]
        BY <1>1, <3>1
      <3> QED BY <1>0, <3>1, <3>2 DEF Good, Named
    <2> QED BY <2>1, <2>2
  <1>3. CASE both # <<>>
    <2>1. Keyed(both)
      BY <1>2, <1>3 DEF Keyed
    <2>2. MergeTable(base, over) = ByItem!Fold(base, over)
      BY <2>1, ItemsFold DEF MergeTable, both
    <2> QED BY <2>2, ItemsMerge
  <1>4. CASE both = <<>>
    <2>1. ~Keyed(both)
      BY <1>4 DEF Keyed
    <2>2. MergeTable(base, over) = both
      BY <2>1 DEF MergeTable, both
    <2>3. DOMAIN both = {} /\ DOMAIN base = {} /\ DOMAIN over = {}
      BY <1>0, <1>1, <1>4
    <2> QED BY <1>1, <2>2, <2>3 DEF Merged, Good, Named, Unique, IdsOf
  <1> QED BY <1>3, <1>4

-----------------------------------------------------------------------------
(* The layers. *)

LEMMA TopmostIs ==
    ASSUME NEW S \in SUBSET Nat, NEW l \in S, \A m \in S : m <= l
    PROVE  Topmost(S) = l
  <1>1. \A x \in S : (\A m \in S : m <= x) => x = l
    OBVIOUS
  <1> QED BY <1>1 DEF Topmost

LEMMA LayerParts ==
    ASSUME NEW base, NEW over
    PROVE  /\ MergeLayer(base, over).table = MergeTable(base.table, over.table)
           /\ \A path \in Paths : MergeLayer(base, over).plain[path]
                                  = MergePlain(base.plain[path], over.plain[path])
  BY DEF MergeLayer

\* What the first k layers give.
UpTo(k) == ByLayer!Fold(NoLayer, SubSeq(layers, 1, k))

LEMMA UpToSteps ==
    ASSUME layers \in [Layers -> Layer]
    PROVE  /\ UpTo(0) = NoLayer
           /\ \A k \in Nat : k < NLayers => UpTo(k + 1) = MergeLayer(UpTo(k), layers[k + 1])
           /\ MergeLayers(layers) = UpTo(NLayers)
  <1>0. layers \in Seq(Layer) /\ Len(layers) = NLayers /\ NLayers \in Nat
    BY RenderAssumption DEF Layers
  <1>1. UpTo(0) = NoLayer
    <2>1. DOMAIN SubSeq(layers, 1, 0) = {}
      BY <1>0
    <2> QED BY <2>1, ByLayer!FoldNone DEF UpTo
  <1>2. ASSUME NEW k \in Nat, k < NLayers
        PROVE  UpTo(k + 1) = MergeLayer(UpTo(k), layers[k + 1])
    BY <1>0, <1>2, ByLayer!FoldPrefix DEF UpTo
  <1>3. SubSeq(layers, 1, NLayers) = layers
    BY <1>0
  <1> QED BY <1>1, <1>2, <1>3, LayersFold DEF UpTo

\* The plain value: of the last layer so far that has one.
LEMMA PlainUpTo ==
    ASSUME layers \in [Layers -> Layer], NEW path \in Paths
    PROVE  LET having == {l \in Layers : layers[l].plain[path] # Absent}
           IN  UpTo(NLayers).plain[path] =
                 IF having = {} THEN Absent ELSE layers[Topmost(having)].plain[path]
  <1> DEFINE having(k) == {l \in 1..k : layers[l].plain[path] # Absent}
             Is(k) == UpTo(k).plain[path] =
                 IF having(k) = {} THEN Absent ELSE layers[Topmost(having(k))].plain[path]
             Fine == {k \in Nat : k <= NLayers => Is(k)}
  <1>0. NLayers \in Nat
    BY RenderAssumption
  <1>1. 0 \in Fine
    <2>1. UpTo(0).plain[path] = Absent
      BY UpToSteps DEF NoLayer
    <2>2. having(0) = {}
      OBVIOUS
    <2> HIDE DEF having
    <2> QED BY <2>1, <2>2
  <1>2. ASSUME NEW k \in Nat, k \in Fine PROVE k + 1 \in Fine
    <2> SUFFICES ASSUME k + 1 <= NLayers PROVE Is(k + 1)
      OBVIOUS
    <2>1. Is(k) /\ k < NLayers
      BY <1>0, <1>2
    <2>2. UpTo(k + 1).plain[path]
            = MergePlain(UpTo(k).plain[path], layers[k + 1].plain[path])
      BY <2>1, UpToSteps, LayerParts
    <2>3. CASE layers[k + 1].plain[path] # Absent
      <3>1. k + 1 \in having(k + 1) /\ having(k + 1) \in SUBSET Nat
            /\ \A m \in having(k + 1) : m <= k + 1
        BY <2>3
      <3> HIDE DEF having
      <3>2. Topmost(having(k + 1)) = k + 1
        BY <3>1, TopmostIs
      <3> QED BY <2>2, <2>3, <3>1, <3>2 DEF MergePlain
    <2>4. CASE layers[k + 1].plain[path] = Absent
      <3>1. having(k + 1) = having(k)
        BY <2>4
      <3> HIDE DEF having
      <3> QED BY <2>1, <2>2, <2>4, <3>1 DEF MergePlain
    <2> QED BY <2>3, <2>4
  <1> HIDE DEF Fine
  <1>3. NLayers \in Fine
    BY <1>0, <1>1, <1>2, ByLayer!FromZero
  <1>4. Is(NLayers)
    BY <1>0, <1>3 DEF Fine
  <1>5. having(NLayers) = {l \in Layers : layers[l].plain[path] # Absent}
    BY DEF Layers
  <1> HIDE DEF having
  <1> QED BY <1>4, <1>5

\* An id that names each item once, by the count.
LEMMA CleanIsGood ==
    ASSUME layers \in [Layers -> Layer], NEW l \in Layers, Clean(l)
    PROVE  Good(layers[l].table) /\ Names(l) = IdsOf(layers[l].table)
  <1> DEFINE t == layers[l].table
             f == [i \in 1..Len(t) |-> t[i].id]
  <1>0. t \in Seq(Item) /\ Len(t) \in Nat /\ DOMAIN t = 1..Len(t)
    BY RenderAssumption DEF Layer
  <1>1. /\ Absent \notin Names(l) /\ Cardinality(Names(l)) = Len(t)
        /\ Names(l) = IdsOf(t)
    BY DEF Clean, Names, IdsOf
  <1> HIDE DEF t
  <1>2. f \in Surjection(1..Len(t), Names(l))
    BY <1>0, <1>1 DEF IdsOf, Surjection
  <1>3. IsFiniteSet(1..Len(t)) /\ Cardinality(1..Len(t)) = Len(t)
    <2>1. /\ IsFiniteSet(1..Len(t))
          /\ Cardinality(1..Len(t)) = IF 1 > Len(t) THEN 0 ELSE Len(t) - 1 + 1
      BY <1>0, FS_Interval
    <2> QED BY <1>0, <2>1
  <1> HIDE DEF f
  <1>4. f \in Injection(1..Len(t), Names(l))
    BY <1>1, <1>2, <1>3, FS_Surjection
  <1>5. Unique(t)
    BY <1>0, <1>4 DEF Unique, Injection, IsInjective, f
  <1>6. Named(t)
    BY <1>1 DEF Named, IdsOf
  <1> QED BY <1>0, <1>1, <1>5, <1>6 DEF Good, t

\* The tables of clean layers: every id so far once, as the last that has it.
Tabled(r, k) ==
    /\ Good(r)
    /\ IdsOf(r) = UNION {Names(l) : l \in 1..k}
    /\ \A i \in DOMAIN r : \E l \in 1..k :
         /\ r[i] \in ToSet(layers[l].table)
         /\ \A m \in 1..k : r[i].id \in Names(m) => m <= l

LEMMA TableUpTo ==
    ASSUME layers \in [Layers -> Layer], \A l \in Layers : Clean(l)
    PROVE  Tabled(UpTo(NLayers).table, NLayers)
  <1> DEFINE Fine == {k \in Nat : k <= NLayers => Tabled(UpTo(k).table, k)}
  <1>0. NLayers \in Nat
    BY RenderAssumption
  <1>1. 0 \in Fine
    <2>1. UpTo(0).table = <<>>
      BY UpToSteps DEF NoLayer
    <2>2. UNION {Names(l) : l \in 1..0} = {}
      OBVIOUS
    <2>3. <<>> \in Seq(Item) /\ DOMAIN <<>> = {}
      OBVIOUS
    <2>4. IdsOf(<<>>) = {}
      BY <2>3 DEF IdsOf
    <2> QED BY <2>1, <2>2, <2>3, <2>4 DEF Tabled, Good, Named, Unique
  <1>2. ASSUME NEW k \in Nat, k \in Fine PROVE k + 1 \in Fine
    <2> SUFFICES ASSUME k + 1 <= NLayers PROVE Tabled(UpTo(k + 1).table, k + 1)
      OBVIOUS
    <2> DEFINE base == UpTo(k).table
               over == layers[k + 1].table
               r == UpTo(k + 1).table
    <2>1. Tabled(base, k) /\ k < NLayers /\ k + 1 \in Layers
      BY <1>0, <1>2 DEF Layers
    <2>2. Good(over) /\ Names(k + 1) = IdsOf(over)
      BY <2>1, CleanIsGood
    <2>3. r = MergeTable(base, over)
      BY <2>1, UpToSteps, LayerParts
    <2>4. Merged(r, base, over)
      BY <2>1, <2>2, <2>3, TablesMerge DEF Tabled
    <2> HIDE DEF base, r
    <2>5. UNION {Names(l) : l \in 1..(k + 1)}
            = (UNION {Names(l) : l \in 1..k}) \union Names(k + 1)
      <3>1. 1..(k + 1) = (1..k) \union {k + 1}
        OBVIOUS
      <3> QED BY <3>1
    <2>6. IdsOf(r) = UNION {Names(l) : l \in 1..(k + 1)}
      BY <2>1, <2>2, <2>4, <2>5 DEF Tabled, Merged
    <2>7. ASSUME NEW i \in DOMAIN r
          PROVE  \E l \in 1..(k + 1) :
                   /\ r[i] \in ToSet(layers[l].table)
                   /\ \A m \in 1..(k + 1) : r[i].id \in Names(m) => m <= l
      <3>1. CASE r[i] \in ToSet(over)
        <4>1. k + 1 \in 1..(k + 1) /\ \A m \in 1..(k + 1) : m <= k + 1
          OBVIOUS
        <4> QED BY <3>1, <4>1
      <3>2. CASE r[i] \notin ToSet(over)
        <4>1. r[i].id \notin Names(k + 1) /\ r[i] \in ToSet(base)
          BY <2>2, <2>4, <3>2 DEF Merged
        <4>2. PICK j \in DOMAIN base : r[i] = base[j]
          BY <4>1 DEF ToSet
        <4>3. PICK l \in 1..k :
                /\ base[j] \in ToSet(layers[l].table)
                /\ \A m \in 1..k : base[j].id \in Names(m) => m <= l
          BY <2>1, <4>2 DEF Tabled
        <4>4. l \in 1..(k + 1) /\ \A m \in 1..(k + 1) : m = k + 1 \/ m \in 1..k
          OBVIOUS
        <4> QED BY <4>1, <4>2, <4>3, <4>4
      <3> QED BY <3>1, <3>2
    <2> QED BY <2>4, <2>6, <2>7 DEF Tabled, Merged, r
  <1> HIDE DEF Fine
  <1>3. NLayers \in Fine
    BY <1>0, <1>1, <1>2, ByLayer!FromZero
  <1> QED BY <1>0, <1>3 DEF Fine

\* As many items as ids.
LEMMA OncePerId ==
    ASSUME NEW t, Good(t)
    PROVE  Len(t) = Cardinality(IdsOf(t))
  <1> DEFINE f == [i \in 1..Len(t) |-> t[i].id]
  <1>0. t \in Seq(Item) /\ Len(t) \in Nat /\ DOMAIN t = 1..Len(t)
    BY DEF Good
  <1>1. f \in Surjection(1..Len(t), IdsOf(t))
    BY <1>0 DEF IdsOf, Surjection
  <1>2. f \in Injection(1..Len(t), IdsOf(t))
    <2>1. \A i, j \in 1..Len(t) : f[i] = f[j] => i = j
      BY <1>0 DEF Good, Unique
    <2>2. f \in [1..Len(t) -> IdsOf(t)]
      BY <1>0 DEF IdsOf
    <2>3. DOMAIN f = 1..Len(t)
      OBVIOUS
    <2> HIDE DEF f
    <2> QED BY <2>1, <2>2, <2>3 DEF Injection, IsInjective
  <1>3. IsFiniteSet(1..Len(t)) /\ Cardinality(1..Len(t)) = Len(t)
    <2>1. /\ IsFiniteSet(1..Len(t))
          /\ Cardinality(1..Len(t)) = IF 1 > Len(t) THEN 0 ELSE Len(t) - 1 + 1
      BY <1>0, FS_Interval
    <2> QED BY <1>0, <2>1
  <1> HIDE DEF f
  <1> QED BY <1>1, <1>2, <1>3, FS_Surjection

\* What the merge gives, for any layers.
LEMMA LastWins ==
    ASSUME layers \in [Layers -> Layer]
    PROVE  LastLayerWins
  <1> DEFINE v == MergeLayers(layers)
             t == v.table
             all == UNION {Names(l) : l \in Layers}
  <1>1. v = UpTo(NLayers)
    BY UpToSteps
  <1>2. ASSUME \A l \in Layers : Clean(l)
        PROVE  /\ Len(t) = Cardinality(all)
               /\ \A id \in all : \E i \in DOMAIN t :
                    LET l == Topmost({m \in Layers : id \in Names(m)})
                    IN  t[i].id = id /\ t[i] \in ToSet(layers[l].table)
    <2>1. Tabled(t, NLayers)
      BY <1>1, <1>2, TableUpTo
    <2> HIDE DEF t
    <2>2. Good(t) /\ IdsOf(t) = all
      BY <2>1 DEF Tabled, Layers
    <2>3. Len(t) = Cardinality(all)
      BY <2>2, OncePerId
    <2>4. ASSUME NEW id \in all
          PROVE  \E i \in DOMAIN t :
                    LET l == Topmost({m \in Layers : id \in Names(m)})
                    IN  t[i].id = id /\ t[i] \in ToSet(layers[l].table)
      <3> DEFINE S == {m \in Layers : id \in Names(m)}
      <3>1. PICK i \in DOMAIN t : t[i].id = id
        BY <2>2, <2>4 DEF IdsOf
      <3>2. PICK l \in Layers :
              /\ t[i] \in ToSet(layers[l].table)
              /\ \A m \in Layers : t[i].id \in Names(m) => m <= l
        BY <2>1 DEF Tabled, Layers
      <3>3. id \in Names(l)
        BY <3>1, <3>2 DEF ToSet, Names
      <3>4. S \in SUBSET Nat /\ l \in S /\ \A m \in S : m <= l
        BY <3>1, <3>2, <3>3 DEF Layers
      <3> HIDE DEF S
      <3>5. Topmost(S) = l
        BY <3>4, TopmostIs
      <3> QED BY <3>1, <3>2, <3>5 DEF S
    <2> QED BY <2>3, <2>4
  <1>3. \A path \in Paths :
            LET having == {l \in Layers : layers[l].plain[path] # Absent}
            IN  v.plain[path] = IF having = {} THEN Absent
                                ELSE layers[Topmost(having)].plain[path]
    BY <1>1, PlainUpTo
  <1> HIDE DEF v
  <1> QED BY <1>2, <1>3 DEF LastLayerWins, v

\* A layer stays a layer, whatever is edited.
LayersTyped == layers \in [Layers -> Layer]

LEMMA LayersInit == Init => LayersTyped
  <1> USE DEF LayersTyped
  <1> SUFFICES ASSUME Init PROVE layers \in [Layers -> Layer]
    OBVIOUS
  <1>1. PICK x \in Values, home \in Paths, t \in Tables :
            layers = [l \in Layers |->
                IF l # 1 THEN NoLayer
                ELSE [plain |-> [NoLayer.plain EXCEPT ![home] = x], table |-> t]]
    BY DEF Init
  <1>2. NoLayer \in Layer
    BY RenderAssumption DEF NoLayer, Layer, Plain
  <1>3. [NoLayer.plain EXCEPT ![home] = x] \in [Paths -> Plain]
    BY <1>1 DEF NoLayer, Plain
  <1>4. [plain |-> [NoLayer.plain EXCEPT ![home] = x], table |-> t] \in Layer
    BY <1>1, <1>3 DEF Layer
  <1> QED BY <1>1, <1>2, <1>4

LEMMA LayersStep == LayersTyped /\ [Next]_vars => LayersTyped'
  <1> USE DEF LayersTyped
  <1> SUFFICES ASSUME layers \in [Layers -> Layer], [Next]_vars
               PROVE  layers' \in [Layers -> Layer]
    OBVIOUS
  <1>1. CASE UNCHANGED layers
    BY <1>1
  <1>2. ASSUME NEW l \in Layers, NEW path \in Paths, NEW x \in Plain,
               EditPlain(l, path, x)
        PROVE  layers' \in [Layers -> Layer]
    <2>1. [layers[l] EXCEPT !.plain[path] = x] \in Layer
      BY DEF Layer
    <2> QED BY <1>2, <2>1 DEF EditPlain, EditLayer
  <1>3. ASSUME NEW l \in Layers, NEW t \in Tables, EditTable(l, t)
        PROVE  layers' \in [Layers -> Layer]
    <2>1. [layers[l] EXCEPT !.table = t] \in Layer
      BY DEF Layer
    <2> QED BY <1>3, <2>1 DEF EditTable, EditLayer
  <1> QED
    BY <1>1, <1>2, <1>3
    DEF Next, Begin, ReadSource, ReadLayer, Resolve, UseExisting, Halt, Stage,
        Rename, Report, Fail, Kill, EditSource, Damage, World, vars

\* Whatever the layers are edited to, their merge is what LastLayerWins says
\* without the fold: config_utils.structural_merge, for any number of layers,
\* of keys and of items in a layer.
THEOREM TheLastLayerWins == Spec => []LastLayerWins
  <1>1. LayersTyped => LastLayerWins
    BY LastWins DEF LayersTyped
  <1> QED BY <1>1, LayersInit, LayersStep, PTL DEF Spec

-----------------------------------------------------------------------------
(* Roster: the registrations, and the rooms. *)

-----------------------------------------------------------------------------
Coding   == INSTANCE FoldTheorems WITH Op <- PutCoded
PutMember(list, x) == Put("code", list, x)
PutGroup(list, x)  == Put("id", list, x)
Members  == INSTANCE FoldTheorems WITH Op <- PutMember
Groups   == INSTANCE FoldTheorems WITH Op <- PutGroup

\* The loops are folds.
LEMMA LoopsAreFolds ==
    ASSUME NEW b, NEW s
    PROVE  /\ ByCode(s) = Coding!Fold(<<>>, s)
           /\ FoldLeft(LAMBDA list, x : Put("code", list, x), b, s) = Members!Fold(b, s)
           /\ FoldLeft(LAMBDA list, x : Put("id", list, x), b, s) = Groups!Fold(b, s)
  <1>1. ByCode(s) = Coding!Fold(<<>>, s)
    BY DEF ByCode, FoldLeft, MapThenFoldSet, Max, Coding!Fold, Coding!Iter, Coding!Last
  <1>2. FoldLeft(LAMBDA list, x : Put("code", list, x), b, s) = Members!Fold(b, s)
    BY DEF FoldLeft, MapThenFoldSet, Max, Members!Fold, Members!Iter, Members!Last, PutMember
  <1>3. FoldLeft(LAMBDA list, x : Put("id", list, x), b, s) = Groups!Fold(b, s)
    BY DEF FoldLeft, MapThenFoldSet, Max, Groups!Fold, Groups!Iter, Groups!Last, PutGroup
  <1> QED BY <1>1, <1>2, <1>3

\* No two of a list have the same key.
Unlike(key, list) == \A i, j \in DOMAIN list : list[i][key] = list[j][key] => i = j
Fresh(key, list, x) == \A i \in DOMAIN list : list[i][key] # x[key]

LEMMA PutGives ==
    ASSUME NEW S, NEW list \in Seq(S), NEW x \in S, NEW key
    PROVE  /\ Put(key, list, x) \in Seq(S)
           /\ Fresh(key, list, x) => Put(key, list, x) = Append(list, x)
           /\ Unlike(key, list) => Unlike(key, Put(key, list, x))
  <1> DEFINE same == {i \in DOMAIN list : list[i][key] = x[key]}
             last == CHOOSE i \in same : \A j \in same : j <= i
             r == Put(key, list, x)
  <1>1. Fresh(key, list, x) <=> same = {}
    BY DEF Fresh
  <1>2. r = IF same = {} THEN Append(list, x) ELSE [list EXCEPT ![last] = x]
    BY DEF Put, ReplaceAt
  <1>3. r \in Seq(S)
    <2> HIDE DEF last, same
    <2>1. last \notin DOMAIN list => [list EXCEPT ![last] = x] = list
      OBVIOUS
    <2>2. last \in DOMAIN list => [list EXCEPT ![last] = x] \in Seq(S)
      OBVIOUS
    <2>3. Append(list, x) \in Seq(S)
      OBVIOUS
    <2>4. r \in {Append(list, x), [list EXCEPT ![last] = x]}
      BY <1>2
    <2> HIDE DEF r
    <2> QED BY <2>1, <2>2, <2>3, <2>4
  <1>4. CASE same = {}
    <2>1. r = Append(list, x)
      BY <1>2, <1>4
    <2> HIDE DEF r
    <2>2. /\ DOMAIN r = DOMAIN list \union {Len(list) + 1} /\ r[Len(list) + 1] = x
          /\ Len(list) + 1 \notin DOMAIN list /\ \A i \in DOMAIN list : r[i] = list[i]
      BY <2>1
    <2>3. Unlike(key, list) => Unlike(key, r)
      BY <1>1, <1>4, <2>2 DEF Unlike, Fresh
    <2> QED BY <1>3, <2>1, <2>3 DEF r
  <1>5. CASE same # {}
    <2>1. ASSUME Unlike(key, list) PROVE Unlike(key, r)
      <3>1. PICK p \in DOMAIN list : same = {p}
        BY <1>5, <2>1 DEF Unlike
      <3>2. p \in Nat /\ list[p][key] = x[key]
        BY <3>1
      <3> HIDE DEF same
      <3>3. last = p
        BY <3>1, <3>2
      <3> HIDE DEF last
      <3>4. r = [list EXCEPT ![p] = x]
        BY <1>2, <1>5, <3>3
      <3> HIDE DEF r
      <3>5. DOMAIN r = DOMAIN list /\ \A i \in DOMAIN list : r[i][key] = list[i][key]
        BY <3>2, <3>4
      <3> QED BY <2>1, <3>5 DEF Unlike
    <2> QED BY <1>1, <1>3, <1>5, <2>1
  <1> QED BY <1>4, <1>5

\* The agents have codes, all different, whichever way they are given.
Coded == {l \in Seq(Agent) : Unlike("code", l) /\ \A i \in DOMAIN l : l[i].code # None}

LEMMA CodedStep ==
    ASSUME NEW l \in Coded, NEW a \in Agent
    PROVE  PutCoded(l, a) \in Coded
  <1>1. CASE a.code = None
    BY <1>1 DEF PutCoded
  <1>2. CASE a.code # None
    <2> DEFINE r == Put("code", l, a)
    <2>1. l \in Seq(Agent) /\ Unlike("code", l) /\ \A i \in DOMAIN l : l[i].code # None
      BY DEF Coded
    <2>2. r \in Seq(Agent) /\ Unlike("code", r)
      BY <2>1, PutGives
    <2>3. \A i \in DOMAIN r : r[i].code # None
      <3> DEFINE same == {i \in DOMAIN l : l[i]["code"] = a["code"]}
                 last == CHOOSE i \in same : \A j \in same : j <= i
      <3>1. r = IF same = {} THEN Append(l, a) ELSE [l EXCEPT ![last] = a]
        BY DEF Put, ReplaceAt
      <3> HIDE DEF last, same, r
      <3> QED BY <1>2, <2>1, <3>1
    <2>4. PutCoded(l, a) = r
      BY <1>2 DEF PutCoded
    <2> QED BY <2>2, <2>3, <2>4 DEF Coded
  <1> QED BY <1>1, <1>2

LEMMA AgentsAre ==
    ASSUME setup \in Setups
    PROVE  agents \in Coded
  <1>1. setup \in Setup /\ setup.agents \in Seq(Agent) /\ setup.shape \in {"table", "array"}
    BY RosterAssumption DEF Setup
  <1>2. <<>> \in Coded
    BY DEF Coded, Unlike
  <1>3. CASE ~setup.resolved
    BY <1>2, <1>3 DEF agents, LoadAgents
  <1>4. CASE setup.resolved /\ setup.shape = "table"
    <2>1. agents = setup.agents
      BY <1>4 DEF agents, LoadAgents
    <2>2. Unlike("code", setup.agents) /\ \A i \in DOMAIN setup.agents : setup.agents[i].code # None
      BY <1>4, RosterAssumption DEF Unlike
    <2> QED BY <1>1, <2>1, <2>2 DEF Coded
  <1>5. CASE setup.resolved /\ setup.shape # "table"
    <2>1. agents = Coding!Fold(<<>>, setup.agents)
      BY <1>5, LoopsAreFolds DEF agents, LoadAgents
    <2>2. \A l \in Coded, i \in 1..Len(setup.agents) : PutCoded(l, setup.agents[i]) \in Coded
      BY <1>1, CodedStep
    <2>3. Coding!Fold(<<>>, setup.agents) \in Coded
      BY <1>1, <1>2, <2>2, Coding!FoldKeeps
    <2> QED BY <2>1, <2>3
  <1> QED BY <1>3, <1>4, <1>5

LEMMA AgentIs ==
    ASSUME setup \in Setups
    PROVE  /\ Len(agents) \in Nat /\ DOMAIN agents = 1..Len(agents)
           /\ Unlike("code", agents)
           /\ \A i \in DOMAIN agents :
                /\ agents[i].code \in Tokens /\ agents[i].code # None
                /\ InstalledEntry(agents[i]).name \in Tokens
  <1>1. agents \in Seq(Agent) /\ Unlike("code", agents)
        /\ \A i \in DOMAIN agents : agents[i].code # None
    BY AgentsAre DEF Coded
  <1>2. \A i \in DOMAIN agents : agents[i] \in Agent
    BY <1>1
  <1>3. \A i \in DOMAIN agents : agents[i].code \in Tokens /\ InstalledEntry(agents[i]).name \in Tokens
    BY <1>1, <1>2 DEF Agent, InstalledEntry, Over
  <1> QED BY <1>1, <1>3

-----------------------------------------------------------------------------
(* What both scripts read. *)

LEMMA MembersMerged ==
    ASSUME NEW b \in Seq(Member), NEW o \in Seq(Member)
    PROVE  MergeArrays("code", b, o) \in Seq(Member)
  <1>1. b \o o \in Seq(Member)
    OBVIOUS
  <1>2. Members!Fold(b, o) \in Seq(Member)
    <2>1. \A l \in Seq(Member), i \in 1..Len(o) : PutMember(l, o[i]) \in Seq(Member)
      BY PutGives DEF PutMember
    <2> QED BY <2>1, Members!FoldKeeps
  <1> QED BY <1>1, <1>2, LoopsAreFolds DEF MergeArrays

LEMMA GroupsMerged ==
    ASSUME NEW b \in Seq(Group), NEW o \in Seq(Group)
    PROVE  MergeArrays("id", b, o) \in Seq(Group)
  <1>1. b \o o \in Seq(Group)
    OBVIOUS
  <1>2. Groups!Fold(b, o) \in Seq(Group)
    <2>1. \A l \in Seq(Group), i \in 1..Len(o) : PutGroup(l, o[i]) \in Seq(Group)
      BY PutGives DEF PutGroup
    <2> QED BY <2>1, Groups!FoldKeeps
  <1> QED BY <1>1, <1>2, LoopsAreFolds DEF MergeArrays

LEMMA LayerMerged ==
    ASSUME NEW l \in PartyLayer, NEW o \in PartyLayer
    PROVE  MergePartyLayer(l, o) \in PartyLayer
  BY MembersMerged, GroupsMerged DEF PartyLayer, MergePartyLayer

LEMMA SetupIs ==
    ASSUME setup \in Setups
    PROVE  /\ setup.base \in PartyLayer /\ setup.team \in PartyLayer /\ setup.user \in PartyLayer
           /\ setup.default \in GroupIds \union {None}
  BY RosterAssumption DEF Setup

LEMMA WorkflowsAre ==
    ASSUME setup \in Setups
    PROVE  PartyWorkflow(setup) \in PartyLayer /\ ForgeWorkflow(setup) \in PartyLayer
  <1>1. setup.base \in PartyLayer /\ setup.team \in PartyLayer /\ setup.user \in PartyLayer
    BY SetupIs
  <1>2. MergePartyLayer(MergePartyLayer(setup.base, setup.team), setup.user) \in PartyLayer
    BY <1>1, LayerMerged
  <1>3. Overrides(setup) \in PartyLayer
    BY <1>1 DEF Overrides, PartyLayer
  <1> QED BY <1>1, <1>2, <1>3 DEF PartyWorkflow, ForgeWorkflow

\* Where no two have the same key, putting one after the other appends.
LEMMA PutAppends ==
    ASSUME NEW S, NEW b \in Seq(S), NEW o \in Seq(S), NEW key,
           Unlike(key, b \o o), NEW k \in Nat, k < Len(o)
    PROVE  Put(key, b \o SubSeq(o, 1, k), o[k + 1])
             = Append(b \o SubSeq(o, 1, k), o[k + 1])
  <1> DEFINE l == b \o SubSeq(o, 1, k)
             x == o[k + 1]
  <1>1. l \in Seq(S) /\ x \in S
    OBVIOUS
  <1>2. ASSUME NEW i \in DOMAIN l PROVE l[i][key] # x[key]
    <2>1. /\ DOMAIN (b \o o) = 1..(Len(b) + Len(o)) /\ i \in 1..(Len(b) + k)
          /\ l[i] = (b \o o)[i] /\ x = (b \o o)[Len(b) + k + 1]
      OBVIOUS
    <2>2. /\ i \in DOMAIN (b \o o) /\ Len(b) + k + 1 \in DOMAIN (b \o o)
          /\ i # Len(b) + k + 1
      BY <2>1
    <2> HIDE DEF l, x
    <2> QED BY <2>1, <2>2 DEF Unlike
  <1> HIDE DEF l, x
  <1>3. Put(key, l, x) = Append(l, x)
    BY <1>1, <1>2, PutGives DEF Fresh
  <1> QED BY <1>3 DEF l, x

LEMMA MembersAppend ==
    ASSUME NEW b \in Seq(Member), NEW o \in Seq(Member), Unlike("code", b \o o)
    PROVE  Members!Fold(b, o) = b \o o
  <1>1. \A k \in Nat : k < Len(o) =>
            PutMember(b \o SubSeq(o, 1, k), o[k + 1])
                = Append(b \o SubSeq(o, 1, k), o[k + 1])
    BY PutAppends DEF PutMember
  <1> QED BY <1>1, Members!FoldAppends

LEMMA GroupsAppend ==
    ASSUME NEW b \in Seq(Group), NEW o \in Seq(Group), Unlike("id", b \o o)
    PROVE  Groups!Fold(b, o) = b \o o
  <1>1. \A k \in Nat : k < Len(o) =>
            PutGroup(b \o SubSeq(o, 1, k), o[k + 1])
                = Append(b \o SubSeq(o, 1, k), o[k + 1])
    BY PutAppends DEF PutGroup
  <1> QED BY <1>1, Groups!FoldAppends

\* So in the same configuration both scripts read the same lists.
LEMMA MergedIsAppended ==
    ASSUME NEW b, NEW o, NEW key,
           \/ key = "code" /\ b \in Seq(Member) /\ o \in Seq(Member)
           \/ key = "id" /\ b \in Seq(Group) /\ o \in Seq(Group),
           Unrepeated(key, b \o o)
    PROVE  MergeArrays(key, b, o) = b \o o
  <1>1. CASE b = <<>> \/ \E i \in DOMAIN (b \o o) : (b \o o)[i][key] = None
    BY <1>1 DEF MergeArrays
  <1>2. CASE ~(b = <<>> \/ \E i \in DOMAIN (b \o o) : (b \o o)[i][key] = None)
    <2>1. Unlike(key, b \o o)
      BY <1>2 DEF Unrepeated, Unlike
    <2>2. CASE key = "code"
      <3>1. MergeArrays("code", b, o) = Members!Fold(b, o)
        BY <1>2, <2>2, LoopsAreFolds DEF MergeArrays
      <3> QED BY <2>1, <2>2, <3>1, MembersAppend
    <2>3. CASE key = "id"
      <3>1. MergeArrays("id", b, o) = Groups!Fold(b, o)
        BY <1>2, <2>3, LoopsAreFolds DEF MergeArrays
      <3> QED BY <2>1, <2>3, <3>1, GroupsAppend
    <2> QED BY <2>2, <2>3
  <1> QED BY <1>1, <1>2

LEMMA SameWorkflow ==
    ASSUME setup \in Setups, SameConfig
    PROVE  ForgeWorkflow(setup) = PartyWorkflow(setup)
  <1>1. CASE setup.found
    BY <1>1 DEF ForgeWorkflow
  <1>2. CASE ~setup.found
    <2> DEFINE t == setup.team
               u == setup.user
    <2>1. t \in PartyLayer /\ u \in PartyLayer
      BY SetupIs
    <2>2. /\ setup.merged /\ setup.base = [members |-> <<>>, groups |-> <<>>]
          /\ Unrepeated("code", t.members \o u.members)
          /\ Unrepeated("id", t.groups \o u.groups)
      BY <1>2 DEF SameConfig, Overrides
    <2>3. /\ t.members \in Seq(Member) /\ u.members \in Seq(Member)
          /\ t.groups \in Seq(Group) /\ u.groups \in Seq(Group)
      BY <2>1 DEF PartyLayer
    <2> HIDE DEF t, u
    <2>4. MergePartyLayer(setup.base, t) = [members |-> t.members, groups |-> t.groups]
      BY <2>2, <2>3 DEF MergePartyLayer, MergeArrays
    <2>5. MergePartyLayer([members |-> t.members, groups |-> t.groups], u)
            = [members |-> t.members \o u.members, groups |-> t.groups \o u.groups]
      BY <2>2, <2>3, MergedIsAppended DEF MergePartyLayer
    <2> QED BY <1>2, <2>2, <2>4, <2>5 DEF PartyWorkflow, ForgeWorkflow, Overrides, t, u
  <1> QED BY <1>1, <1>2

-----------------------------------------------------------------------------
(* Registration in the forge. *)

\* What a registration of c does to the pool and the index.
Registered(r, b, c, e) ==
    /\ DOMAIN r.pool = DOMAIN b.pool \union {c} /\ r.pool[c] = e
    /\ \A d \in DOMAIN b.pool \ {c} : r.pool[d] = b.pool[d]
    /\ DOMAIN r.index = DOMAIN b.index \union Claims(c) \union {Lower[e.name]}
    /\ \A t \in Claims(c) : r.index[t] = c
    /\ \A t \in DOMAIN b.index \ Claims(c) : r.index[t] = b.index[t]
    /\ Lower[e.name] \notin DOMAIN b.index => r.index[Lower[e.name]] = c

Updated(g, f, x, v) ==
    /\ DOMAIN g = DOMAIN f \union {x} /\ g[x] = v
    /\ \A y \in DOMAIN f \ {x} : g[y] = f[y]

LEMMA WithGives ==
    ASSUME NEW f, NEW x, NEW v
    PROVE  Updated(With(f, x, v), f, x, v)
  BY DEF With, Updated

LEMMA CodesGive ==
    ASSUME NEW f, NEW c
    PROVE  /\ DOMAIN Codes(f, c) = DOMAIN f \union Claims(c)
           /\ \A t \in Claims(c) : Codes(f, c)[t] = c
           /\ \A t \in DOMAIN f \ Claims(c) : Codes(f, c)[t] = f[t]
  <1> DEFINE g == With(f, c, c)
             h == With(g, Lower[c], c)
  <1>1. Updated(g, f, c, c)
    BY WithGives
  <1> HIDE DEF g
  <1>2. Updated(h, g, Lower[c], c)
    BY WithGives
  <1> HIDE DEF h
  <1>3. Codes(f, c) = With(h, Lower[Alias[c]], c)
    BY DEF Codes, g, h
  <1>4. Updated(Codes(f, c), h, Lower[Alias[c]], c)
    BY <1>3, WithGives
  <1> QED BY <1>1, <1>2, <1>4 DEF Claims, Updated

LEMMA ForgeRegisters ==
    ASSUME NEW b, NEW c, NEW e
    PROVE  Registered(ForgeRegister(b, c, e), b, c, e)
  <1> DEFINE k == Codes(b.index, c)
             n == Lower[e.name]
             x == NameInIndex(k, e.name, c)
  <1>1. /\ DOMAIN k = DOMAIN b.index \union Claims(c)
        /\ \A t \in Claims(c) : k[t] = c
        /\ \A t \in DOMAIN b.index \ Claims(c) : k[t] = b.index[t]
    BY CodesGive
  <1> HIDE DEF k
  <1>2. /\ DOMAIN x = DOMAIN k \union {n}
        /\ \A t \in DOMAIN k : x[t] = k[t]
        /\ n \notin DOMAIN k => x[n] = c
    <2>1. x = IF n \in DOMAIN k /\ k[n] # c THEN k ELSE With(k, n, c)
      BY DEF NameInIndex, Knows
    <2>2. Updated(With(k, n, c), k, n, c)
      BY WithGives
    <2> HIDE DEF x, n
    <2> QED BY <2>1, <2>2 DEF Updated
  <1> HIDE DEF x
  <1>3. /\ ForgeRegister(b, c, e).pool = With(b.pool, c, e)
        /\ ForgeRegister(b, c, e).index = x
    BY DEF ForgeRegister, k, x
  <1> HIDE DEF n
  <1>4. /\ DOMAIN x = DOMAIN b.index \union Claims(c) \union {n}
        /\ \A t \in Claims(c) : x[t] = c
        /\ \A t \in DOMAIN b.index \ Claims(c) : x[t] = b.index[t]
        /\ n \notin DOMAIN b.index => x[n] = c
    BY <1>1, <1>2
  <1>5. Updated(With(b.pool, c, e), b.pool, c, e)
    BY WithGives
  <1> QED BY <1>3, <1>4, <1>5 DEF Registered, Updated, n

\* Where no name clashes the party registers the same.
LEMMA SameRegistration ==
    ASSUME NEW b, NEW c, NEW e, ~Clashes(b, e.name, c)
    PROVE  PartyRegister(b, c, e) = ForgeRegister(b, c, e)
  BY DEF Clashes, PartyRegister, ForgeRegister, NameInIndex, NameOverIndex

-----------------------------------------------------------------------------
(* Nobody is hijacked. *)

CodeOf(i) == agents[i].code
NameOf(i) == Lower[InstalledEntry(agents[i]).name]

RosterTypes == setup \in Setups /\ next \in Nat

\* The tokens of a code are in the index, and its own are its own.
Pooled ==
    \A c \in DOMAIN forge.pool :
        /\ Claims(c) \subseteq DOMAIN forge.index
        /\ ~ClaimedByOther(forge, c, c) => forge.index[c] = c

\* While the agents register, the index holds claims and agents' names only.
Origins ==
    next <= Len(agents) =>
        \A t \in DOMAIN forge.index :
            \/ \E d \in DOMAIN forge.pool : t \in Claims(d)
            \/ \E j \in 1..next : NameOf(j) = t

FirstOfName(i) ==
    /\ \A j \in 1..(i - 1) : NameOf(j) # NameOf(i)
    /\ ~ClaimedByOther(forge, NameOf(i), CodeOf(i))
Led(i) ==
    /\ CodeOf(i) \in DOMAIN forge.pool /\ NameOf(i) \in DOMAIN forge.index
    /\ FirstOfName(i) => forge.index[NameOf(i)] = CodeOf(i)

Lookups == Pooled /\ Origins /\ \A i \in 1..Len(agents) : next >= i => Led(i)

LEMMA PooledStep ==
    ASSUME Pooled, NEW c, NEW e, Registered(forge', forge, c, e)
    PROVE  Pooled'
  <1> SUFFICES ASSUME NEW d \in DOMAIN forge'.pool
               PROVE  /\ Claims(d) \subseteq DOMAIN forge'.index
                      /\ ~ClaimedByOther(forge', d, d) => forge'.index[d] = d
    BY DEF Pooled, ClaimedByOther, Claims
  <1>1. d \in Claims(d)
    BY DEF Claims
  <1>2. CASE d = c
    BY <1>1, <1>2 DEF Registered
  <1>3. CASE d # c
    <2>1. d \in DOMAIN forge.pool /\ c \in DOMAIN forge'.pool
      BY <1>3 DEF Registered
    <2>2. Claims(d) \subseteq DOMAIN forge'.index
      BY <2>1 DEF Pooled, Registered
    <2>3. ASSUME ~ClaimedByOther(forge', d, d) PROVE forge'.index[d] = d
      <3>1. d \notin Claims(c) /\ ~ClaimedByOther(forge, d, d)
        BY <1>3, <2>1, <2>3 DEF ClaimedByOther, Registered
      <3>2. d \in DOMAIN forge.index /\ forge.index[d] = d
        BY <1>1, <2>1, <3>1 DEF Pooled
      <3> QED BY <3>1, <3>2 DEF Registered
    <2> QED BY <2>2, <2>3
  <1> QED BY <1>2, <1>3

\* Who was led to before is led to after.
LEMMA LedStep ==
    ASSUME NEW i, Led(i), UNCHANGED setup, NEW c, NEW e, Registered(forge', forge, c, e)
    PROVE  Led(i)'
  <1> DEFINE n == NameOf(i)
             a == CodeOf(i)
  <1>1. NameOf(i)' = n /\ CodeOf(i)' = a /\ \A j : NameOf(j)' = NameOf(j)
    BY DEF NameOf, CodeOf, agents
  <1>2. a \in DOMAIN forge'.pool /\ n \in DOMAIN forge.index /\ n \in DOMAIN forge'.index
        /\ c \in DOMAIN forge'.pool
    BY DEF Led, Registered
  <1>3. ASSUME FirstOfName(i)' PROVE forge'.index[n] = a
    <2>1. ~ClaimedByOther(forge', n, a) /\ \A j \in 1..(i - 1) : NameOf(j) # n
      BY <1>1, <1>3 DEF FirstOfName, ClaimedByOther, Claims
    <2>2. ~ClaimedByOther(forge, n, a)
      BY <2>1 DEF ClaimedByOther, Registered
    <2>3. forge.index[n] = a
      BY <2>1, <2>2 DEF FirstOfName, Led
    <2>4. n \in Claims(c) => c = a
      BY <1>2, <2>1 DEF ClaimedByOther
    <2> QED BY <1>2, <2>3, <2>4 DEF Registered
  <1> HIDE DEF n, a
  <1>4. CodeOf(i)' \in DOMAIN forge'.pool /\ NameOf(i)' \in DOMAIN forge'.index
    BY <1>1, <1>2
  <1>5. FirstOfName(i)' => forge'.index[NameOf(i)'] = CodeOf(i)'
    BY <1>1, <1>3
  <1> QED BY <1>4, <1>5 DEF Led

\* An agent that comes first by its name is led to from then on.
LEMMA LookupsAgent ==
    ASSUME RosterTypes, Lookups, RegisterAgent
    PROVE  Lookups'
  <1>0. PICK i : i = next + 1
    OBVIOUS
  <1> DEFINE c == CodeOf(i)
             e == InstalledEntry(agents[i])
  <1>1. /\ next < Len(agents) /\ next' = i /\ UNCHANGED setup
        /\ forge' = ForgeRegister(forge, c, e)
    BY <1>0 DEF RegisterAgent, CodeOf
  <1>2. /\ Len(agents) \in Nat /\ i \in 1..Len(agents) /\ agents' = agents
        /\ NameOf(i) = Lower[e.name] /\ next \in Nat
    BY <1>0, <1>1, AgentIs DEF RosterTypes, NameOf, agents
  <1>3. Registered(forge', forge, c, e)
    BY <1>1, ForgeRegisters
  <1>4. Pooled'
    BY <1>3, PooledStep DEF Lookups
  <1>5. \A j : NameOf(j)' = NameOf(j) /\ CodeOf(j)' = CodeOf(j)
    BY <1>1 DEF NameOf, CodeOf, agents
  <1> HIDE DEF c, e
  <1>6. Origins'
    <2> SUFFICES ASSUME NEW t \in DOMAIN forge'.index
                 PROVE  \/ \E d \in DOMAIN forge'.pool : t \in Claims(d)
                        \/ \E j \in 1..i : NameOf(j) = t
      BY <1>1, <1>5 DEF Origins, Claims
    <2>1. CASE t \in DOMAIN forge.index
      <3>1. \/ \E d \in DOMAIN forge.pool : t \in Claims(d)
            \/ \E j \in 1..next : NameOf(j) = t
        BY <1>1, <1>2, <2>1 DEF Lookups, Origins
      <3> QED BY <1>0, <1>2, <1>3, <3>1 DEF Registered
    <2>2. CASE t \in Claims(c)
      BY <1>3, <2>2 DEF Registered
    <2>3. CASE t = NameOf(i)
      BY <1>2, <2>3
    <2> QED BY <1>2, <1>3, <2>1, <2>2, <2>3 DEF Registered
  <1>7. Led(i)'
    <2> DEFINE n == NameOf(i)
    <2>1. c \in DOMAIN forge'.pool /\ n \in DOMAIN forge'.index
      BY <1>2, <1>3 DEF Registered
    <2>2. ASSUME FirstOfName(i)' PROVE forge'.index[n] = c
      <3>1. ~ClaimedByOther(forge', n, c) /\ \A j \in 1..(i - 1) : NameOf(j) # n
        BY <1>5, <2>2 DEF FirstOfName, ClaimedByOther, Claims, c
      <3>2. CASE n \in Claims(c)
        BY <1>3, <3>2 DEF Registered
      <3>3. CASE n \notin Claims(c)
        <4>1. ~ \E d \in DOMAIN forge.pool : n \in Claims(d)
          BY <1>3, <3>1, <3>3 DEF ClaimedByOther, Registered
        <4>2. ~ \E j \in 1..next : NameOf(j) = n
          BY <1>0, <1>2, <3>1
        <4>3. n \notin DOMAIN forge.index
          BY <1>1, <1>2, <4>1, <4>2 DEF Lookups, Origins
        <4> QED BY <1>2, <1>3, <4>3 DEF Registered
      <3> QED BY <3>2, <3>3
    <2> HIDE DEF n
    <2>3. CodeOf(i)' = c /\ NameOf(i)' = n
      BY <1>5 DEF c, n
    <2> QED BY <2>1, <2>2, <2>3 DEF Led
  <1>8. ASSUME NEW j \in 1..Len(agents), next' >= j PROVE Led(j)'
    <2>1. CASE j = i
      BY <1>7, <2>1
    <2>2. CASE j # i
      <3>1. next >= j
        BY <1>0, <1>1, <1>2, <1>8, <2>2
      <3> QED BY <1>1, <1>3, <3>1, LedStep DEF Lookups
    <2> QED BY <2>1, <2>2
  <1> QED BY <1>2, <1>4, <1>6, <1>8 DEF Lookups

LEMMA LookupsMember ==
    ASSUME RosterTypes, Lookups, RegisterMember
    PROVE  Lookups'
  <1> DEFINE theirs == ForgeWorkflow(setup).members
             i == next + 1 - Len(agents)
             m == theirs[i]
  <1>1. /\ i >= 1 /\ next' = next + 1 /\ UNCHANGED setup
        /\ forge' = IF ~Joins(theirs, i) THEN forge
                    ELSE ForgeRegister(forge, Slot(forge, m), Entry(forge, m))
    BY DEF RegisterMember
  <1>2. Len(agents) \in Nat /\ next \in Nat /\ agents' = agents /\ next >= Len(agents)
    <2>1. Len(agents) \in Nat /\ next \in Nat /\ agents' = agents
      BY <1>1, AgentIs DEF RosterTypes, agents
    <2> QED BY <1>1, <2>1
  <1>3. forge' = forge \/ \E c, e : Registered(forge', forge, c, e)
    BY <1>1, ForgeRegisters
  <1>4. Origins'
    <2>1. ~(next' <= Len(agents)')
      BY <1>1, <1>2
    <2> QED BY <2>1 DEF Origins
  <1>5. Pooled'
    <2>1. CASE forge' = forge
      BY <2>1 DEF Lookups, Pooled, ClaimedByOther, Claims
    <2> QED BY <1>3, <2>1, PooledStep DEF Lookups
  <1>6. ASSUME NEW j \in 1..Len(agents) PROVE Led(j)'
    <2>1. Led(j)
      BY <1>2 DEF Lookups
    <2>2. CASE forge' = forge
      <3>1. NameOf(j)' = NameOf(j) /\ CodeOf(j)' = CodeOf(j) /\ FirstOfName(j)' = FirstOfName(j)
        BY <1>1, <2>2 DEF NameOf, CodeOf, FirstOfName, ClaimedByOther, Claims, agents
      <3> QED BY <2>1, <2>2, <3>1 DEF Led
    <2> QED BY <1>1, <1>3, <2>1, <2>2, LedStep
  <1> QED BY <1>2, <1>4, <1>5, <1>6 DEF Lookups

LEMMA LookupsInit == RosterInit => RosterTypes /\ Lookups
  <1> SUFFICES ASSUME RosterInit PROVE RosterTypes /\ Lookups
    OBVIOUS
  <1>1. setup \in Setups /\ next = 0 /\ forge = Nobody
    BY DEF RosterInit
  <1>2. DOMAIN forge.pool = {} /\ DOMAIN forge.index = {}
    BY <1>1 DEF Nobody
  <1>3. \A i \in 1..Len(agents) : ~(next >= i)
    BY <1>1, AgentIs
  <1> QED BY <1>1, <1>2, <1>3 DEF RosterTypes, Lookups, Pooled, Origins

LEMMA LookupsStep == RosterTypes /\ Lookups /\ [RosterNext]_rosterVars => RosterTypes' /\ Lookups'
  <1> SUFFICES ASSUME RosterTypes, Lookups, [RosterNext]_rosterVars PROVE RosterTypes' /\ Lookups'
    OBVIOUS
  <1>1. setup' = setup /\ next' \in {next, next + 1}
    BY DEF RosterNext, RegisterAgent, RegisterMember, rosterVars
  <1>2. RosterTypes'
    BY <1>1 DEF RosterTypes
  <1>3. CASE RegisterAgent
    BY <1>2, <1>3, LookupsAgent
  <1>4. CASE RegisterMember
    BY <1>2, <1>4, LookupsMember
  <1>5. CASE UNCHANGED rosterVars
    <2>1. UNCHANGED <<setup, next, forge>>
      BY <1>5 DEF rosterVars
    <2>2. Lookups' = Lookups
      BY <2>1 DEF Lookups, Pooled, Origins, Led, FirstOfName, NameOf, CodeOf,
                  ClaimedByOther, Claims, agents
    <2> QED BY <1>2, <2>2
  <1> QED BY <1>3, <1>4, <1>5 DEF RosterNext

(* Whatever the members are called, the forge leads the name and the code of
   an agent to this agent, unless another one had the name before or another
   code in the pool is that token. *)
THEOREM NobodyIsHijacked == RosterSpec => []NoHijack
  <1>1. RosterTypes /\ Lookups => NoHijack
    <2> SUFFICES ASSUME RosterTypes, Lookups PROVE NoHijack
      OBVIOUS
    <2>1. ASSUME NEW i \in 1..Len(agents), next >= i,
                 \A j \in 1..(i - 1) :
                    Lower[InstalledEntry(agents[j]).name] # Lower[InstalledEntry(agents[i]).name],
                 ~ClaimedByOther(forge, Lower[InstalledEntry(agents[i]).name], agents[i].code)
          PROVE  forge.index[Lower[InstalledEntry(agents[i]).name]] = agents[i].code
      BY <2>1 DEF Lookups, Led, FirstOfName, NameOf, CodeOf
    <2>2. \A c \in DOMAIN forge.pool : ~ClaimedByOther(forge, c, c) => forge.index[c] = c
      BY DEF Lookups, Pooled
    <2> QED BY <2>1, <2>2 DEF NoHijack
  <1> QED BY <1>1, LookupsInit, LookupsStep, PTL DEF RosterSpec

-----------------------------------------------------------------------------
(* Both scripts have the same people under the same tokens. *)

InStep == SameConfig /\ ~clash => party = forge

LEMMA InStepAgent ==
    ASSUME InStep, RegisterAgent
    PROVE  InStep'
  <1> SUFFICES ASSUME SameConfig', ~clash' PROVE party' = forge'
    BY DEF InStep
  <1>0. PICK i : i = next + 1
    OBVIOUS
  <1> DEFINE a == agents[i]
             e == InstalledEntry(a)
  <1>1. /\ UNCHANGED setup
        /\ party' = IF PartyDies(setup) THEN party ELSE PartyRegister(party, a.code, e)
        /\ forge' = ForgeRegister(forge, a.code, e)
        /\ clash' = (clash \/ Clashes(forge, e.name, a.code))
    BY <1>0 DEF RegisterAgent
  <1>2. SameConfig
    BY <1>1 DEF SameConfig, Unrepeated
  <1>3. ~PartyDies(setup) /\ party = forge /\ ~Clashes(forge, e.name, a.code)
    BY <1>1, <1>2 DEF SameConfig, InStep
  <1> HIDE DEF a, e
  <1> QED BY <1>1, <1>3, SameRegistration

LEMMA InStepMember ==
    ASSUME RosterTypes, InStep, RegisterMember
    PROVE  InStep'
  <1> SUFFICES ASSUME SameConfig', ~clash' PROVE party' = forge'
    BY DEF InStep
  <1>0. PICK i : i = next + 1 - Len(agents)
    OBVIOUS
  <1> DEFINE ours   == PartyWorkflow(setup).members
             theirs == ForgeWorkflow(setup).members
  <1>1. /\ UNCHANGED setup
        /\ party' = IF PartyDies(setup) \/ ~Joins(ours, i) THEN party
                    ELSE PartyRegister(party, Slot(party, ours[i]), Entry(party, ours[i]))
        /\ forge' = IF ~Joins(theirs, i) THEN forge
                    ELSE ForgeRegister(forge, Slot(forge, theirs[i]), Entry(forge, theirs[i]))
        /\ clash' = (\/ clash
                     \/ /\ Joins(theirs, i)
                        /\ Clashes(forge, Entry(forge, theirs[i]).name, Slot(forge, theirs[i])))
    BY <1>0 DEF RegisterMember
  <1>2. SameConfig
    BY <1>1 DEF SameConfig, Unrepeated
  <1>3. ~PartyDies(setup) /\ party = forge
    BY <1>1, <1>2 DEF SameConfig, InStep
  <1>4. ours = theirs
    BY <1>2, SameWorkflow DEF RosterTypes
  <1> HIDE DEF ours, theirs
  <1> QED BY <1>1, <1>3, <1>4, SameRegistration

-----------------------------------------------------------------------------
(* Who gave the title. *)

Joining == ForgeWorkflow(setup).members
Titled(a) == {j \in Calling(a, Joining) : Joining[j].title # None}

\* Every token of the index leads to somebody in the pool.
Leads == \A t \in DOMAIN forge.index : forge.index[t] \in DOMAIN forge.pool

\* Before agent i registers nobody has its tokens; from then on they lead to
\* it, nobody else's code claims them, and its title is the last one given.
Untouched(i) ==
    /\ CodeOf(i) \notin DOMAIN forge.pool
    /\ \A t \in Calls(agents[i]) : t \notin DOMAIN forge.index
Holds(i) ==
    /\ CodeOf(i) \in DOMAIN forge.pool
    /\ \A t \in Calls(agents[i]) :
            t \in DOMAIN forge.index /\ forge.index[t] = CodeOf(i)
    /\ Lower[forge.pool[CodeOf(i)].name]
            \in Calls(agents[i]) \union Given(agents[i], Joining)
NewestTitle(i) ==
    \A j \in Titled(agents[i]) :
        /\ j <= next - Len(agents)
        /\ \A k \in Titled(agents[i]) : k <= next - Len(agents) => k <= j
        => forge.pool[CodeOf(i)].title = Joining[j].title
Apart(i) ==
    /\ \A t \in DOMAIN forge.index :
            forge.index[t] = CodeOf(i)
                => t \in Calls(agents[i]) \union Given(agents[i], Joining)
    /\ \A d \in DOMAIN forge.pool \ {CodeOf(i)} :
            Claims(d) \intersect Calls(agents[i]) = {}

Slotted(i) ==
    Distinct(agents[i], Joining) =>
        /\ next < i => Untouched(i)
        /\ next >= i => Holds(i) /\ NewestTitle(i)
        /\ Apart(i)

Titling == Leads /\ \A i \in 1..Len(agents) : Slotted(i)

\* What a registration puts into the index.
LEMMA LeadsStep ==
    ASSUME Leads, NEW c, NEW e, Registered(forge', forge, c, e)
    PROVE  Leads'
  BY DEF Leads, Registered

\* A registration of someone else that claims nothing of agent i.
LEMMA OtherRegistered ==
    ASSUME NEW i, Apart(i), UNCHANGED setup, NEW c, NEW e,
           Registered(forge', forge, c, e), c # CodeOf(i),
           Claims(c) \intersect Calls(agents[i]) = {}
    PROVE  /\ Apart(i)'
           /\ Holds(i) => Holds(i)' /\ forge'.pool[CodeOf(i)] = forge.pool[CodeOf(i)]
           /\ Untouched(i) /\ Lower[e.name] \notin Calls(agents[i]) => Untouched(i)'
  <1> DEFINE a == agents[i]
             n == CodeOf(i)
             given == Given(a, Joining)
             calls == Calls(a)
  <1>1. /\ CodeOf(i)' = n /\ Calls(agents[i])' = calls
        /\ Given(agents[i], Joining)' = given /\ \A d : Claims(d)' = Claims(d)
    BY DEF CodeOf, agents, Calls, Claims, Given, Calling, Joining, InstalledEntry
  <1> HIDE DEF a, n, given, calls
  <1>2. c # n /\ Claims(c) \intersect calls = {}
    BY DEF n, calls, a
  <1>3. Apart(i)'
    <2>1. /\ \A t \in DOMAIN forge.index : forge.index[t] = n => t \in calls \union given
          /\ \A d \in DOMAIN forge.pool \ {n} : Claims(d) \intersect calls = {}
      BY DEF Apart, n, calls, given, a
    <2>2. \A t \in DOMAIN forge'.index : forge'.index[t] = n => t \in calls \union given
      BY <1>2, <2>1 DEF Registered
    <2>3. \A d \in DOMAIN forge'.pool \ {n} : Claims(d) \intersect calls = {}
      BY <1>2, <2>1 DEF Registered
    <2> QED BY <1>1, <2>2, <2>3 DEF Apart
  <1>4. ASSUME Holds(i) PROVE Holds(i)' /\ forge'.pool[n] = forge.pool[n]
    <2>1. /\ n \in DOMAIN forge.pool
          /\ \A t \in calls : t \in DOMAIN forge.index /\ forge.index[t] = n
          /\ Lower[forge.pool[n].name] \in calls \union given
      BY <1>4 DEF Holds, n, calls, given, a
    <2>2. n \in DOMAIN forge'.pool /\ forge'.pool[n] = forge.pool[n]
      BY <1>2, <2>1 DEF Registered
    <2>3. \A t \in calls : t \in DOMAIN forge'.index /\ forge'.index[t] = n
      BY <1>2, <2>1 DEF Registered
    <2> QED BY <1>1, <2>1, <2>2, <2>3 DEF Holds
  <1>5. ASSUME Untouched(i), Lower[e.name] \notin calls PROVE Untouched(i)'
    <2>1. n \notin DOMAIN forge.pool /\ \A t \in calls : t \notin DOMAIN forge.index
      BY <1>5 DEF Untouched, n, calls, a
    <2>2. n \notin DOMAIN forge'.pool /\ \A t \in calls : t \notin DOMAIN forge'.index
      BY <1>2, <1>5, <2>1 DEF Registered
    <2> QED BY <1>1, <2>2 DEF Untouched
  <1> QED BY <1>3, <1>4, <1>5 DEF n, calls, a

\* The constants of the step: setup says who joins and what calls whom.
LEMMA JoiningIs ==
    ASSUME setup \in Setups
    PROVE  /\ Joining \in Seq(Member) /\ DOMAIN Joining = 1..Len(Joining)
           /\ Len(Joining) \in Nat
           /\ \A i \in DOMAIN agents : Calls(agents[i]) \subseteq Tokens /\ CodeOf(i) \in Calls(agents[i])
  <1>1. Joining \in Seq(Member)
    BY WorkflowsAre DEF Joining, PartyLayer
  <1>2. \A i \in DOMAIN agents : Calls(agents[i]) \subseteq Tokens /\ CodeOf(i) \in Calls(agents[i])
    BY AgentIs, RosterAssumption DEF Calls, Claims, CodeOf
  <1> QED BY <1>1, <1>2

LEMMA SetupKept ==
    ASSUME UNCHANGED setup
    PROVE  /\ agents' = agents /\ Joining' = Joining
           /\ \A i : /\ CodeOf(i)' = CodeOf(i) /\ Calls(agents[i])' = Calls(agents[i])
                    /\ Given(agents[i], Joining)' = Given(agents[i], Joining)
                    /\ Titled(agents[i])' = Titled(agents[i])
                    /\ Distinct(agents[i], Joining)' = Distinct(agents[i], Joining)
  BY DEF agents, Joining, CodeOf, Calls, Claims, Given, Titled, Calling, Distinct, InstalledEntry

\* Before the members there is no title to compare.
LEMMA NoTitleYet ==
    ASSUME setup \in Setups, NEW i \in DOMAIN agents, NEW n \in Nat, n <= Len(agents)
    PROVE  \A j \in Titled(agents[i]) : ~(j <= n - Len(agents))
  BY AgentIs, JoiningIs DEF Titled, Calling

LEMMA SlottedAgent ==
    ASSUME RosterTypes, RosterTypes', Titling, RegisterAgent
    PROVE  Titling'
  <1>0. PICK o : o = next + 1
    OBVIOUS
  <1> DEFINE c == CodeOf(o)
             e == InstalledEntry(agents[o])
  <1>1. /\ next < Len(agents) /\ next' = o /\ UNCHANGED setup
        /\ Registered(forge', forge, c, e)
    BY <1>0, ForgeRegisters DEF RegisterAgent, CodeOf
  <1>2. /\ Len(agents) \in Nat /\ o \in 1..Len(agents) /\ next \in Nat
        /\ DOMAIN agents = 1..Len(agents) /\ agents' = agents
    BY <1>0, <1>1, AgentIs, SetupKept DEF RosterTypes
  <1>3. Leads'
    BY <1>1, LeadsStep DEF Titling
  <1>4. Claims(c) \subseteq Calls(agents[o]) /\ Lower[e.name] \in Calls(agents[o])
        /\ Calls(agents[o]) = Claims(c) \union {Lower[e.name]}
    BY DEF Calls, CodeOf
  <1> HIDE DEF c, e
  <1>5. ASSUME NEW i \in 1..Len(agents), Distinct(agents[i], Joining)'
        PROVE  /\ next' < i => Untouched(i)'
               /\ next' >= i => Holds(i)' /\ NewestTitle(i)'
               /\ Apart(i)'
    <2>1. Distinct(agents[i], Joining)
      BY <1>1, <1>5, SetupKept
    <2>2. /\ next < i => Untouched(i)
          /\ next >= i => Holds(i)
          /\ Apart(i)
      BY <1>5, <2>1 DEF Titling, Slotted
    <2>3. NewestTitle(i)'
      <3>1. \A j \in Titled(agents[i]) : ~(j <= o - Len(agents))
        BY <1>1, <1>2, NoTitleYet DEF RosterTypes
      <3>2. next' = o /\ Titled(agents[i])' = Titled(agents[i]) /\ Len(agents)' = Len(agents)
        BY <1>1, SetupKept
      <3> QED BY <3>1, <3>2 DEF NewestTitle
    <2>4. CASE i = o
      <3> DEFINE calls == Calls(agents[o])
                 given == Given(agents[o], Joining)
      <3>1. c \notin DOMAIN forge.pool /\ \A t \in calls : t \notin DOMAIN forge.index
        BY <1>0, <1>2, <2>2, <2>4 DEF Untouched, c
      <3>2. /\ \A t \in DOMAIN forge.index : forge.index[t] = c => t \in calls \union given
            /\ \A d \in DOMAIN forge.pool \ {c} : Claims(d) \intersect calls = {}
        BY <2>2, <2>4 DEF Apart, c
      <3>3. /\ CodeOf(i)' = c /\ Calls(agents[i])' = calls
            /\ Given(agents[i], Joining)' = given /\ \A d : Claims(d)' = Claims(d)
        BY <1>1, <2>4, SetupKept DEF c, Claims
      <3>4. calls = Claims(c) \union {Lower[e.name]}
        BY <1>4
      <3> HIDE DEF calls, given
      <3>5. /\ c \in DOMAIN forge'.pool /\ Lower[forge'.pool[c].name] \in calls \union given
            /\ \A t \in calls : t \in DOMAIN forge'.index /\ forge'.index[t] = c
        BY <1>1, <3>1, <3>4 DEF Registered
      <3>6. /\ \A t \in DOMAIN forge'.index : forge'.index[t] = c => t \in calls \union given
            /\ \A d \in DOMAIN forge'.pool \ {c} : Claims(d) \intersect calls = {}
        BY <1>1, <3>2, <3>4 DEF Registered
      <3>7. Holds(i)' /\ Apart(i)'
        BY <3>3, <3>5, <3>6 DEF Holds, Apart
      <3> QED BY <1>1, <1>2, <2>3, <2>4, <3>7
    <2>5. CASE i # o
      <3>1. CodeOf(o) # CodeOf(i) /\ o \in DOMAIN agents
        BY <1>2, <2>5, AgentIs DEF RosterTypes, Unlike, CodeOf
      <3>2. Calls(agents[o]) \intersect Calls(agents[i]) = {}
        BY <2>1, <3>1 DEF Distinct, CodeOf
      <3>3. /\ c # CodeOf(i) /\ Claims(c) \intersect Calls(agents[i]) = {}
            /\ Lower[e.name] \notin Calls(agents[i])
        BY <1>4, <3>1, <3>2 DEF c
      <3>4. /\ Apart(i)'
            /\ Holds(i) => Holds(i)'
            /\ Untouched(i) => Untouched(i)'
        BY <1>1, <2>2, <3>3, OtherRegistered
      <3>5. (next' < i => next < i) /\ (next' >= i => next >= i)
        BY <1>0, <1>1, <1>2, <2>5
      <3> QED BY <2>2, <2>3, <3>4, <3>5
    <2> QED BY <2>4, <2>5
  <1> QED BY <1>2, <1>3, <1>5 DEF Titling, Slotted

\* A member that does not call agent i takes a slot that is not its.
LEMMA SlotElsewhere ==
    ASSUME Leads, NEW i, Apart(i), CodeOf(i) \in Calls(agents[i]), NEW m,
           Claims(m.code) \intersect (Calls(agents[i]) \union Given(agents[i], Joining)) = {}
    PROVE  /\ Slot(forge, m) # CodeOf(i)
           /\ Claims(Slot(forge, m)) \intersect Calls(agents[i]) = {}
  <1> DEFINE d == m.code
             n == CodeOf(i)
             both == Calls(agents[i]) \union Given(agents[i], Joining)
  <1>1. d \in Claims(d) /\ Lower[d] \in Claims(d)
    BY DEF Claims
  <1>2. ASSUME NEW t \in DOMAIN forge.index, t \in Claims(d)
        PROVE  /\ forge.index[t] # n
               /\ Claims(forge.index[t]) \intersect Calls(agents[i]) = {}
    <2>1. forge.index[t] # n
      BY <1>2 DEF Apart
    <2>2. forge.index[t] \in DOMAIN forge.pool \ {n}
      BY <2>1 DEF Leads
    <2> QED BY <2>1, <2>2 DEF Apart
  <1>3. Slot(forge, m) = IF Found(forge.index, d) # None THEN Found(forge.index, d) ELSE d
    BY DEF Slot, Canonical
  <1>4. Found(forge.index, d) # None =>
            \E t \in DOMAIN forge.index \intersect Claims(d) : Found(forge.index, d) = forge.index[t]
    BY <1>1 DEF Found, Knows
  <1>5. d # n /\ Claims(d) \intersect Calls(agents[i]) = {}
    BY <1>1
  <1> HIDE DEF d, n
  <1> QED BY <1>2, <1>3, <1>4, <1>5 DEF n

\* A member that calls agent i takes its slot.
LEMMA SlotOf ==
    ASSUME NEW i, Holds(i), CodeOf(i) # None, NEW m, m.code \in Calls(agents[i])
    PROVE  Slot(forge, m) = CodeOf(i)
  BY DEF Holds, Slot, Canonical, Found, Knows

LEMMA SlottedMember ==
    ASSUME RosterTypes, Titling, RegisterMember
    PROVE  Titling'
  <1>0. PICK k : k = next + 1 - Len(agents)
    OBVIOUS
  <1> DEFINE m == Joining[k]
             s == Slot(forge, m)
             e == Entry(forge, m)
  <1>1. /\ k >= 1 /\ next' = next + 1 /\ UNCHANGED setup
        /\ forge' = IF ~Joins(Joining, k) THEN forge ELSE ForgeRegister(forge, s, e)
    BY <1>0 DEF RegisterMember, Joining
  <1>2. /\ Len(agents) \in Nat /\ next \in Nat /\ next >= Len(agents)
        /\ DOMAIN agents = 1..Len(agents) /\ agents' = agents
        /\ k \in Nat /\ k - 1 = next - Len(agents) /\ k = next' - Len(agents)
    <2>1. Len(agents) \in Nat /\ next \in Nat
      BY AgentIs DEF RosterTypes
    <2> QED BY <1>0, <1>1, <2>1, AgentIs, SetupKept DEF RosterTypes
  <1>3. /\ Joining \in Seq(Member) /\ DOMAIN Joining = 1..Len(Joining) /\ Len(Joining) \in Nat
    BY JoiningIs DEF RosterTypes
  <1>4. Joins(Joining, k) =>
            /\ k \in DOMAIN Joining /\ m.code # None
            /\ Registered(forge', forge, s, e)
    BY <1>1, <1>2, <1>3, ForgeRegisters DEF Joins
  <1>5. Leads'
    <2>1. CASE Joins(Joining, k)
      BY <1>4, <2>1, LeadsStep DEF Titling
    <2>2. CASE ~Joins(Joining, k)
      BY <1>1, <2>2 DEF Titling, Leads
    <2> QED BY <2>1, <2>2
  <1> HIDE DEF m, s, e
  <1>6. ASSUME NEW i \in 1..Len(agents), Distinct(agents[i], Joining)'
        PROVE  /\ next' < i => Untouched(i)'
               /\ next' >= i => Holds(i)' /\ NewestTitle(i)'
               /\ Apart(i)'
    <2> DEFINE a == agents[i]
               n == CodeOf(i)
               calls == Calls(a)
               given == Given(a, Joining)
    <2>1. Distinct(a, Joining) /\ next >= i /\ ~(next' < i)
      BY <1>1, <1>2, <1>6, SetupKept
    <2>2. Holds(i) /\ NewestTitle(i) /\ Apart(i)
      BY <1>6, <2>1 DEF Titling, Slotted
    <2>3. /\ n \in calls /\ calls \subseteq Tokens /\ n # None /\ Claims(n) \subseteq calls
      BY <1>2, <1>6, JoiningIs, AgentIs DEF RosterTypes, Calls, CodeOf
    <2>4. /\ CodeOf(i)' = n /\ Calls(agents[i])' = calls
          /\ Given(agents[i], Joining)' = given
          /\ Titled(agents[i])' = Titled(a) /\ Joining' = Joining
          /\ \A d : Claims(d)' = Claims(d)
      BY <1>1, SetupKept DEF Claims
    <2>5. Titled(a) \subseteq {j \in DOMAIN Joining : Joining[j].code \in calls /\ Joining[j].title # None}
      BY DEF Titled, Calling
    <2>6. \A j \in Titled(a) : j \in Nat /\ (j <= k /\ j # k => j <= k - 1)
      BY <1>2, <1>3, <2>5
    <2>7. \A j \in Titled(a) :
            j <= k - 1 /\ (\A l \in Titled(a) : l <= k - 1 => l <= j)
                => forge.pool[n].title = Joining[j].title
      BY <1>2, <2>2 DEF NewestTitle
    \* A member that leaves the title alone.
    <2>8. ASSUME k \notin Titled(a), forge'.pool[n].title = forge.pool[n].title
          PROVE  NewestTitle(i)'
      <3> HIDE DEF a, n, calls, given
      <3>1. ASSUME NEW j \in Titled(a), j <= k, \A l \in Titled(a) : l <= k => l <= j
            PROVE  forge'.pool[n].title = Joining[j].title
        <4>1. j <= k - 1
          BY <2>6, <2>8, <3>1
        <4>2. \A l \in Titled(a) : l <= k - 1 => l <= j
          BY <1>2, <2>6, <3>1
        <4> QED BY <2>7, <2>8, <4>1, <4>2
      <3>2. k = next' - Len(agents)'
        BY <1>2
      <3> QED BY <2>4, <3>1, <3>2 DEF NewestTitle
    <2>9. CASE ~Joins(Joining, k)
      <3>1. forge' = forge
        BY <1>1, <2>9
      <3>2. k \notin Titled(a)
        BY <1>3, <2>3, <2>5, <2>9, RosterAssumption DEF Joins
      <3>3. NewestTitle(i)'
        BY <2>8, <3>1, <3>2
      <3>4. Holds(i)' /\ Apart(i)'
        <4> HIDE DEF n, calls, given
        <4> QED BY <2>2, <2>4, <3>1 DEF Holds, Apart, n, calls, given
      <3> QED BY <2>1, <3>3, <3>4
    <2>10. CASE Joins(Joining, k) /\ m.code \notin calls
      <3>1. k \in DOMAIN Joining \ Calling(a, Joining) /\ m.code # None
        BY <1>4, <2>10 DEF Calling, m
      <3>2. Claims(m.code) \intersect (calls \union given) = {}
        BY <2>1, <3>1 DEF Distinct, m
      <3>3. s # n /\ Claims(s) \intersect calls = {}
        BY <2>2, <2>3, <3>2, SlotElsewhere DEF Titling, s
      <3>4. Apart(i)' /\ Holds(i)' /\ forge'.pool[n] = forge.pool[n]
        BY <1>1, <1>4, <2>2, <2>10, <3>3, OtherRegistered
      <3>5. k \notin Titled(a)
        BY <3>1 DEF Titled
      <3>6. NewestTitle(i)'
        BY <2>8, <3>4, <3>5
      <3> QED BY <2>1, <3>4, <3>6
    <2>11. CASE Joins(Joining, k) /\ m.code \in calls
      <3>1. k \in Calling(a, Joining)
        BY <1>4, <2>11 DEF Calling, m
      <3>2. s = n
        BY <2>2, <2>3, <2>11, SlotOf DEF s
      <3>3. Registered(forge', forge, n, e)
        BY <1>4, <2>11, <3>2
      <3>4. /\ n \in DOMAIN forge.pool
            /\ \A t \in calls : t \in DOMAIN forge.index /\ forge.index[t] = n
            /\ Lower[forge.pool[n].name] \in calls \union given
        BY <2>2 DEF Holds
      <3>5. /\ \A t \in DOMAIN forge.index : forge.index[t] = n => t \in calls \union given
            /\ \A d \in DOMAIN forge.pool \ {n} : Claims(d) \intersect calls = {}
        BY <2>2 DEF Apart
      <3>6. e = [name |-> Over(m.name, forge.pool[n].name),
                 title |-> Over(m.title, forge.pool[n].title), source |-> "custom"]
        BY <3>2, <3>4 DEF e, s, Entry, CustomEntry, Knows
      <3>7. e.name = Over(m.name, forge.pool[n].name) /\ e.title = Over(m.title, forge.pool[n].title)
        BY <3>6
      <3>8. Lower[e.name] \in calls \union given
        <4>1. CASE m.name = None
          BY <3>4, <3>7, <4>1 DEF Over
        <4>2. CASE m.name # None
          <5>1. Lower[m.name] \in given
            BY <3>1, <4>2 DEF Given, m
          <5> QED BY <3>7, <4>2, <5>1 DEF Over
        <4> QED BY <4>1, <4>2
      <3>9. k \in Titled(a) <=> m.title # None
        BY <3>1 DEF Titled, m
      <3>10. forge'.pool[n] = e
        BY <3>3 DEF Registered
      <3>11. NewestTitle(i)'
        <4>1. CASE m.title = None
          <5>1. forge'.pool[n].title = forge.pool[n].title
            BY <3>7, <3>10, <4>1 DEF Over
          <5> QED BY <2>8, <3>9, <4>1, <5>1
        <4>2. CASE m.title # None
          <5>1. forge'.pool[n].title = Joining[k].title
            BY <3>7, <3>10, <4>2 DEF Over, m
          <5>2. ASSUME NEW j \in Titled(a), j <= k, \A l \in Titled(a) : l <= k => l <= j
                PROVE  forge'.pool[n].title = Joining[j].title
            <6>1. k <= j
              BY <1>2, <3>9, <4>2, <5>2
            <6>2. j = k
              BY <1>2, <2>6, <5>2, <6>1
            <6> QED BY <5>1, <6>2
          <5>3. k = next' - Len(agents)'
            BY <1>2
          <5> HIDE DEF a, n, calls, given
          <5> QED BY <2>4, <5>2, <5>3 DEF NewestTitle
        <4> QED BY <4>1, <4>2
      <3> HIDE DEF a, n, calls, given
      <3>12. /\ n \in DOMAIN forge'.pool
             /\ \A t \in calls : t \in DOMAIN forge'.index /\ forge'.index[t] = n
             /\ Lower[forge'.pool[n].name] \in calls \union given
        BY <3>3, <3>4, <3>8, <3>10 DEF Registered
      <3>13. /\ \A t \in DOMAIN forge'.index : forge'.index[t] = n => t \in calls \union given
             /\ \A d \in DOMAIN forge'.pool \ {n} : Claims(d) \intersect calls = {}
        BY <2>3, <3>3, <3>5, <3>8 DEF Registered
      <3>14. Holds(i)' /\ Apart(i)'
        BY <2>4, <3>12, <3>13 DEF Holds, Apart
      <3> QED BY <2>1, <3>11, <3>14
    <2> QED BY <2>9, <2>10, <2>11
  <1> QED BY <1>2, <1>5, <1>6 DEF Titling, Slotted

-----------------------------------------------------------------------------
RoomInv == RosterTypes /\ InStep /\ Titling

LEMMA RoomInit == RosterInit => RoomInv
  <1> SUFFICES ASSUME RosterInit PROVE RoomInv
    OBVIOUS
  <1>1. setup \in Setups /\ next = 0 /\ party = forge /\ forge = Nobody
    BY DEF RosterInit
  <1>2. DOMAIN forge.pool = {} /\ DOMAIN forge.index = {}
    BY <1>1 DEF Nobody
  <1>3. \A i \in 1..Len(agents) : next < i /\ ~(next >= i)
    BY <1>1, AgentIs
  <1>4. Titling
    BY <1>2, <1>3 DEF Titling, Leads, Slotted, Untouched, Apart
  <1> QED BY <1>1, <1>4 DEF RoomInv, RosterTypes, InStep

LEMMA RoomStep == RoomInv /\ [RosterNext]_rosterVars => RoomInv'
  <1> SUFFICES ASSUME RoomInv, [RosterNext]_rosterVars PROVE RoomInv'
    OBVIOUS
  <1>1. setup' = setup /\ next' \in {next, next + 1}
    BY DEF RosterNext, RegisterAgent, RegisterMember, rosterVars
  <1>2. RosterTypes'
    BY <1>1 DEF RoomInv, RosterTypes
  <1>3. CASE RegisterAgent
    BY <1>2, <1>3, InStepAgent, SlottedAgent DEF RoomInv
  <1>4. CASE RegisterMember
    BY <1>2, <1>4, InStepMember, SlottedMember DEF RoomInv
  <1>5. CASE UNCHANGED rosterVars
    <2>1. UNCHANGED <<setup, next, party, forge, clash>>
      BY <1>5 DEF rosterVars
    <2>2. InStep' = InStep
      BY <2>1 DEF InStep, SameConfig, Unrepeated
    <2>3. Titling' = Titling
      BY <2>1 DEF Titling, Leads, Slotted, Untouched, Holds, NewestTitle, Apart, Distinct,
                  CodeOf, Calls, Claims, Calling, Given, Titled, Joining, agents, InstalledEntry
    <2> QED BY <1>2, <2>2, <2>3 DEF RoomInv
  <1> QED BY <1>3, <1>4, <1>5 DEF RosterNext

LEMMA Greatest ==
    ASSUME NEW n \in Nat, NEW T \in SUBSET (1..n), T # {}
    PROVE  \E j \in T : \A k \in T : k <= j
  <1> DEFINE U == {n - j : j \in T}
  <1>1. U \in SUBSET Nat /\ U # {}
    <2>1. \A j \in T : n - j \in Nat
      OBVIOUS
    <2>2. PICK j \in T : TRUE
      OBVIOUS
    <2>3. n - j \in U
      OBVIOUS
    <2> QED BY <2>1, <2>3
  <1> HIDE DEF U
  <1>2. PICK u \in U : \A v \in U : u <= v
    BY <1>1, Coding!LeastNat
  <1>3. PICK j \in T : u = n - j
    BY DEF U
  <1>4. ASSUME NEW k \in T PROVE k <= j
    <2>1. n - k \in U
      BY DEF U
    <2>2. n - j <= n - k
      BY <1>2, <1>3, <2>1
    <2> QED BY <2>2
  <1> QED BY <1>4

\* A group is found by its id, so it is one of the menu.
LEMMA FoundInMenu ==
    ASSUME NEW groups \in Seq(Group), NEW id, FindGroup(groups, id) # {}
    PROVE  groups[Min(FindGroup(groups, id))] \in Menu(groups)
  <1> DEFINE f == FindGroup(groups, id)
  <1>1. f \in SUBSET Nat /\ f \subseteq DOMAIN groups
    BY DEF FindGroup
  <1>2. \A i \in f : groups[i].id # None
    BY DEF FindGroup
  <1> HIDE DEF f
  <1>3. f # {}
    BY DEF f
  <1>4. PICK i \in f : \A j \in f : i <= j
    BY <1>1, <1>3, Coding!LeastNat
  <1>5. Min(f) \in f
    BY <1>1, <1>4 DEF Min
  <1> QED BY <1>1, <1>2, <1>5 DEF Menu, f

(* In the same configuration, unless a name clashed, the two scripts have the
   same people under the same tokens, the room the party opens is one the forge
   lists, and whoever was last to give an agent a title gave the one it has. *)
THEOREM TheRoomsAgree == RosterSpec => []RoomsAgree
  <1>1. RoomInv => RoomsAgree
    <2> SUFFICES ASSUME RoomInv, SameConfig, ~clash, Done
                 PROVE  /\ \/ PartyRoom.active = "unknown_group"
                           \/ PartyRoom \in ForgeRooms
                        /\ TitlesLast(PartyWorkflow(setup).members)
      BY DEF RoomInv, InStep, RoomsAgree
    <2>1. party = forge /\ setup \in Setups /\ next \in Nat
      BY DEF RoomInv, InStep, RosterTypes
    <2>2. ForgeWorkflow(setup) = PartyWorkflow(setup)
      BY <2>1, SameWorkflow
    <2>3. \/ PartyRoom.active = "unknown_group"
          \/ PartyRoom \in ForgeRooms
      <3> DEFINE groups == PartyWorkflow(setup).groups
                 id == IF setup.asked # None THEN setup.asked ELSE setup.default
                 wanted == FindGroup(groups, id)
      <3>1. groups \in Seq(Group)
        BY <2>1, WorkflowsAre DEF PartyLayer
      <3> HIDE DEF id
      <3>2. PartyRoom = IF wanted # {} THEN Card(party, groups[Min(wanted)])
                        ELSE IF setup.asked # None
                             THEN [active |-> "unknown_group", menu |-> Menu(groups)]
                        ELSE Installed(party)
        BY DEF PartyRoom, id
      <3>3. ForgeRooms = {Installed(forge)} \union {Card(forge, g) : g \in Menu(groups)}
        BY <2>2 DEF ForgeRooms
      <3>4. wanted # {} => groups[Min(wanted)] \in Menu(groups)
        BY <3>1, FoundInMenu
      <3> HIDE DEF groups, wanted
      <3>5. CASE wanted # {}
        BY <2>1, <3>2, <3>3, <3>4, <3>5
      <3>6. CASE wanted = {} /\ setup.asked # None
        BY <3>2, <3>6
      <3>7. CASE wanted = {} /\ setup.asked = None
        BY <2>1, <3>2, <3>3, <3>7
      <3> QED BY <3>5, <3>6, <3>7
    <2>4. TitlesLast(PartyWorkflow(setup).members)
      <3>1. PartyWorkflow(setup).members = Joining
        BY <2>2 DEF Joining
      <3>2. /\ Len(agents) \in Nat /\ DOMAIN agents = 1..Len(agents)
            /\ DOMAIN Joining = 1..Len(Joining) /\ Len(Joining) \in Nat
            /\ next >= Len(agents) + Len(Joining)
        BY <2>1, <3>1, AgentIs, JoiningIs DEF Done
      <3>3. ASSUME NEW i \in DOMAIN agents, Distinct(agents[i], Joining), Titled(agents[i]) # {}
            PROVE  \E j \in Titled(agents[i]) :
                    /\ \A k \in Titled(agents[i]) : k <= j
                    /\ Installed(party).members[i].title = Joining[j].title
        <4>1. Titled(agents[i]) \in SUBSET (1..Len(Joining))
          BY <3>2 DEF Titled, Calling
        <4>2. PICK j \in Titled(agents[i]) : \A k \in Titled(agents[i]) : k <= j
          BY <3>2, <3>3, <4>1, Greatest
        <4>3. j <= next - Len(agents)
          BY <2>1, <3>2, <4>1
        <4>4. NewestTitle(i)
          BY <2>1, <3>2, <3>3 DEF RoomInv, Titling, Slotted
        <4>5. forge.pool[CodeOf(i)].title = Joining[j].title
          BY <4>2, <4>3, <4>4 DEF NewestTitle
        <4>6. Installed(party).members[i] = forge.pool[CodeOf(i)]
          BY <2>1, <3>3 DEF Installed, CodeOf
        <4> QED BY <4>2, <4>5, <4>6
      <3> QED BY <3>1, <3>3 DEF TitlesLast, Titled
    <2> QED BY <2>3, <2>4
  <1> QED BY <1>1, RoomInit, RoomStep, PTL DEF RosterSpec

===============================================================================
