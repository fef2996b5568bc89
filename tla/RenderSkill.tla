------------------------------ MODULE RenderSkill ------------------------------
(***************************************************************************)
(* _bmad/scripts/render_skill.py: a skill's Markdown sources, with the     *)
(* values of the configuration put in, become a directory named by a hash  *)
(* of all that went in (a generation), which agents then read. Several     *)
(* renderers run at once, over sources and configuration that may be       *)
(* edited meanwhile; any of them may be killed, and a generation may lose  *)
(* bytes afterwards (nothing is fsynced).                                  *)
(*                                                                         *)
(* The configuration is layers of TOML merged by config_utils.py. A layer  *)
(* here has a plain value at each of several paths that end in one key,    *)
(* and one array of tables (the review layers). A hash is the thing        *)
(* hashed: collisions are left out.                                        *)
(***************************************************************************)
EXTENDS Integers, Sequences, FiniteSets, SequencesExt

CONSTANTS
    Procs,     \* renderers that may run at the same time
    NSources,  \* how many sources the skill has, in the order of their names
    Versions,  \* contents of a source
    Paths,     \* paths of the configuration that end in the same key
    Values,    \* plain values, of the default's type
    BadValue,  \* a plain value of another type
    NLayers,   \* how many layers, the skill's own first
    Tables,    \* what a layer's array may be
    Ids,       \* review layer ids
    Absent,
    MaxRuns, MaxEdits, MaxFaults

Files  == 1..NSources
Layers == 1..NLayers
Item   == [id : Ids \union {Absent}, text : Values]
Plain  == Values \union {BadValue, Absent}
Layer  == [plain : [Paths -> Plain], table : Tables]

ASSUME RenderAssumption ==
    /\ NSources \in Nat \ {0} /\ NLayers \in Nat \ {0}
    /\ Tables \subseteq Seq(Item) /\ <<>> \in Tables
    /\ Absent \notin Ids \union Values \union {BadValue} /\ BadValue \notin Values
    /\ MaxRuns \in Nat /\ MaxEdits \in Nat /\ MaxFaults \in Nat

VARIABLES
    src,      \* the version of each source
    layers,   \* the TOML layers
    gens,     \* the published generations, by the hash of their inputs
    proc,     \* the local state of each renderer
    litter,   \* staging directories whose renderer is gone
    runs, edits, faults

vars == <<src, layers, gens, proc, litter, runs, edits, faults>>

-----------------------------------------------------------------------------
(* config_utils: structural_merge over the layers, in their order. *)

(* A later layer's value replaces, unless it has none. *)
MergePlain(base, over) == IF over # Absent THEN over ELSE base

Keyed(items) == items # <<>> /\ \A i \in DOMAIN items : items[i].id # Absent

Position(items, id) == CHOOSE i \in DOMAIN items :
    /\ items[i].id = id
    /\ \A j \in DOMAIN items : items[j].id = id => j <= i

PutItem(items, item) ==
    IF \E i \in DOMAIN items : items[i].id = item.id
    THEN [items EXCEPT ![Position(items, item.id)] = item]
    ELSE Append(items, item)

(* Arrays whose every item has an id are merged by id, others appended. *)
\* Mutant of MergeTable: arrays are appended.
MergeTableAppend(base, over) == base \o over
MergeTable(base, over) ==
    IF Keyed(base \o over) THEN FoldLeft(PutItem, base, over) ELSE base \o over

MergeLayer(base, over) ==
    [plain |-> [path \in Paths |-> MergePlain(base.plain[path], over.plain[path])],
     table |-> MergeTable(base.table, over.table)]
NoLayer == [plain |-> [path \in Paths |-> Absent], table |-> <<>>]
MergeLayers(ls) == FoldLeft(MergeLayer, NoLayer, ls)

(* _resolve_short_config: the key is somewhere, and only there. *)
Having(plain) == {path \in Paths : plain[path] # Absent}

(* _resolve_customization_value: a value of the type of the skill's own; of an
   array, an id for every review layer, and no id twice, or no table at all
   where the skill's own array is empty. Anything else is a HALT. *)
Resolves(own, v) ==
    /\ \E path \in Paths : Having(v.plain) = {path} /\ v.plain[path] \in Values
    /\ \A i \in DOMAIN v.table : v.table[i].id # Absent
    /\ \A i, j \in DOMAIN v.table : v.table[i].id = v.table[j].id => i = j
    /\ own.table = <<>> => v.table = <<>>

-----------------------------------------------------------------------------
(* Renderers. *)

(* What is rendered is a function of the sources and the resolved values. *)
Inputs(p) == [src |-> proc[p].src, values |-> proc[p].values]
Rendered(inputs) == inputs
\* Mutant of Identity: the resolved values are not hashed.
IdentityOfSources(inputs) == inputs.src
Identity(inputs) == inputs
Dest(p) == Identity(Inputs(p))

Idle == [pc |-> "idle", src |-> <<>>, read |-> 0, values |-> NoLayer]

Init ==
    /\ \E v \in Versions : src = [f \in Files |-> v]
    /\ \E v \in Values, home \in Paths, t \in Tables :
            layers = [l \in Layers |->
                IF l # 1 THEN NoLayer
                ELSE [plain |-> [NoLayer.plain EXCEPT ![home] = v], table |-> t]]
    /\ gens = [i \in {} |-> 0]
    /\ proc = [p \in Procs |-> Idle]
    /\ litter = 0
    /\ runs = 0 /\ edits = 0 /\ faults = 0

At(p, pc) == proc[p].pc = pc
Becomes(p, r) == proc' = [proc EXCEPT ![p] = r]
Goto(p, pc) == proc' = [proc EXCEPT ![p].pc = pc]
End(p) == Becomes(p, Idle)
World == <<src, layers, edits>>

Begin(p) ==
    /\ At(p, "idle") /\ runs < MaxRuns /\ runs' = runs + 1
    /\ Goto(p, "sources")
    /\ UNCHANGED <<World, gens, litter, faults>>

(* _load_sources, one file after the other. *)
ReadSource(p) ==
    LET f == Len(proc[p].src) + 1
    IN  /\ At(p, "sources")
        /\ Becomes(p, [proc[p] EXCEPT
                !.src = Append(@, src[f]),
                !.pc = IF f = NSources THEN "config" ELSE "sources"])
        /\ UNCHANGED <<World, gens, litter, runs, faults>>

(* A layer is read, and merged over those before it. *)
ReadLayer(p) ==
    LET l == proc[p].read + 1
    IN  /\ At(p, "config") /\ l <= NLayers
        /\ Becomes(p, [proc[p] EXCEPT
                !.read = l, !.values = MergeLayer(@, layers[l])])
        /\ UNCHANGED <<World, gens, litter, runs, faults>>

(* _resolve_replacements. *)
Resolve(p) ==
    /\ At(p, "config") /\ proc[p].read = NLayers
    /\ IF Resolves(layers[1], proc[p].values) THEN Goto(p, "publish") ELSE End(p)
    /\ UNCHANGED <<World, gens, litter, runs, faults>>

(* _verify_existing: the manifest, the set of files and every hash. *)
\* Mutant of Verifies: a directory that is there is taken as it is.
VerifiesNothing(p) == TRUE
Verifies(p) == gens[Dest(p)] = [content |-> Rendered(Inputs(p)), intact |-> TRUE]

Published(p) == Dest(p) \in DOMAIN gens

UseExisting(p, pc) ==
    /\ At(p, pc) /\ Published(p) /\ Verifies(p)
    /\ Goto(p, "entry")
    /\ UNCHANGED <<World, gens, litter, runs, faults>>
Halt(p, pc) ==
    /\ At(p, pc) /\ Published(p) /\ ~Verifies(p)
    /\ Goto(p, "halt")
    /\ UNCHANGED <<World, gens, litter, runs, faults>>

(* A staging directory of its own, filled file by file. *)
Stage(p) ==
    /\ At(p, "publish") /\ ~Published(p)
    /\ Goto(p, "rename")
    /\ UNCHANGED <<World, gens, litter, runs, faults>>

(* A directory is not renamed over one that has files. *)
\* Mutant of Rename: the last renderer replaces what is there.
RenameOver(p) ==
    /\ At(p, "rename")
    /\ gens' = [i \in DOMAIN gens \union {Dest(p)} |->
                    IF i = Dest(p)
                    THEN [content |-> Rendered(Inputs(p)), intact |-> TRUE]
                    ELSE gens[i]]
    /\ Goto(p, "entry")
    /\ UNCHANGED <<World, litter, runs, faults>>
Rename(p) ==
    /\ At(p, "rename") /\ ~Published(p)
    /\ gens' = [i \in DOMAIN gens \union {Dest(p)} |->
                    IF i = Dest(p)
                    THEN [content |-> Rendered(Inputs(p)), intact |-> TRUE]
                    ELSE gens[i]]
    /\ Goto(p, "entry")
    /\ UNCHANGED <<World, litter, runs, faults>>

(* The line on stdout; the staging directory is removed on every way out. *)
Report(p) ==
    /\ proc[p].pc \in {"entry", "halt"} /\ End(p)
    /\ UNCHANGED <<World, gens, litter, runs, faults>>

(* A file cannot be read or written: also a HALT, and nothing is published. *)
Fail(p) ==
    /\ proc[p].pc \in {"sources", "config", "publish", "rename"}
    /\ faults < MaxFaults /\ faults' = faults + 1
    /\ End(p)
    /\ UNCHANGED <<World, gens, litter, runs>>

Kill(p) ==
    /\ ~At(p, "idle") /\ faults < MaxFaults /\ faults' = faults + 1
    /\ litter' = IF At(p, "rename") THEN litter + 1 ELSE litter
    /\ End(p)
    /\ UNCHANGED <<World, gens, runs>>

-----------------------------------------------------------------------------
(* Around the renderers. *)

EditSource(f, v) ==
    /\ edits < MaxEdits /\ edits' = edits + 1
    /\ src[f] # v /\ src' = [src EXCEPT ![f] = v]
    /\ UNCHANGED <<layers, gens, proc, litter, runs, faults>>

EditLayer(l, new) ==
    /\ edits < MaxEdits /\ edits' = edits + 1
    /\ layers[l] # new /\ layers' = [layers EXCEPT ![l] = new]
    /\ UNCHANGED <<src, gens, proc, litter, runs, faults>>
EditPlain(l, path, v) == EditLayer(l, [layers[l] EXCEPT !.plain[path] = v])
EditTable(l, t) == EditLayer(l, [layers[l] EXCEPT !.table = t])

(* A power loss or a hand changes a published file. *)
Damage(i) ==
    /\ faults < MaxFaults /\ faults' = faults + 1
    /\ gens[i].intact /\ gens' = [gens EXCEPT ![i].intact = FALSE]
    /\ UNCHANGED <<World, proc, litter, runs>>

Next ==
    \/ \E p \in Procs :
        \/ Begin(p) \/ ReadSource(p) \/ ReadLayer(p) \/ Resolve(p)
        \/ \E pc \in {"publish", "rename"} : UseExisting(p, pc) \/ Halt(p, pc)
        \/ Stage(p) \/ Rename(p) \/ Report(p) \/ Fail(p) \/ Kill(p)
    \/ \E f \in Files, v \in Versions : EditSource(f, v)
    \/ \E l \in Layers \ {1}, path \in Paths, v \in Plain : EditPlain(l, path, v)
    \/ \E l \in Layers \ {1}, t \in Tables : EditTable(l, t)
    \/ \E i \in DOMAIN gens : Damage(i)

Spec == Init /\ [][Next]_vars

-----------------------------------------------------------------------------
(* Whoever published it, and whatever happened to it since, a renderer sends
   the agent only to a generation with everything the renderer computed,
   damage after its last look aside. *)
EntryIsWhole ==
    [][\A p \in Procs :
        ~At(p, "entry") /\ proc'[p].pc = "entry" =>
            /\ Dest(p) \in DOMAIN gens'
            /\ gens'[Dest(p)] = [content |-> Rendered(Inputs(p)), intact |-> TRUE]]_vars

(* A published generation is never replaced: an agent that was sent to it
   reads the same files from its first step to its last. *)
PublishedStays ==
    [][\A i \in DOMAIN gens :
        i \in DOMAIN gens' /\ (gens'[i] = gens[i] \/ faults' # faults)]_vars

(* Renderers of the same inputs agree, and those of other inputs do not meet:
   a HALT over a generation that is there means it was damaged. *)
HaltMeansDamage ==
    \A p \in Procs : At(p, "halt") => Published(p) /\ ~gens[Dest(p)].intact

(* What the layers give, stated without the fold: the plain value of the last
   layer that has one; and when every item has an id and no layer has one
   twice, the review layers are the ids of all layers, each once, each as the
   last layer that names it has it: nothing can be removed by a layer. *)
Names(l) == {layers[l].table[i].id : i \in DOMAIN layers[l].table}
Clean(l) == /\ Absent \notin Names(l)
            /\ Cardinality(Names(l)) = Len(layers[l].table)
Topmost(S)  == CHOOSE l \in S : \A m \in S : m <= l
LastLayerWins ==
    LET v == MergeLayers(layers)
    IN  /\ \A path \in Paths :
            LET having == {l \in Layers : layers[l].plain[path] # Absent}
            IN  v.plain[path] = IF having = {} THEN Absent
                                ELSE layers[Topmost(having)].plain[path]
        /\ (\A l \in Layers : Clean(l)) =>
            LET all == UNION {Names(l) : l \in Layers}
            IN  /\ Len(v.table) = Cardinality(all)
                /\ \A id \in all : \E i \in DOMAIN v.table :
                    LET l == Topmost({m \in Layers : id \in Names(m)})
                    IN  v.table[i].id = id /\ v.table[i] \in ToSet(layers[l].table)

=============================================================================
