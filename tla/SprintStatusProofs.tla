-------------------------- MODULE SprintStatusProofs --------------------------
(***************************************************************************)
(* Proofs about SprintStatus, for any number of commands at once, of edits *)
(* and of faults.                                                          *)
(*                                                                         *)
(* Computes says what a command has in hand at each of its steps: its      *)
(* output is computed from the document it has seen, and nothing else.     *)
(* Everyone who touches the file does one of few things to the commands    *)
(* (Becomes for the one that moves, Beside for the others, Aside for       *)
(* edits), so that each further invariant looks at those few.              *)
(*                                                                         *)
(* AllNumbered: an id carries the place of its item in the list, in every  *)
(* version that may still be written, so ids are unique.  AllKept: what is *)
(* acknowledged, and what is about to be (Owed), is in the file and in the *)
(* bytes that any undisturbed command would put back (Held).  CleanOK: a   *)
(* file that is clean is a fixed point of the merge (Settled), from which  *)
(* both properties of the readers follow.                                  *)
(***************************************************************************)
EXTENDS SprintStatus, SequenceTheorems, TLAPS

Kinds == {"epic", "story", "retro"}

LEMMA LegalStatuses ==
    /\ Legal("epic") = {"backlog", "in-progress", "done"}
    /\ Legal("story") = {"backlog", "ready-for-dev", "in-progress", "review", "done"}
    /\ Legal("retro") = {"optional", "done"}
    /\ DOMAIN Legacy = {"drafted", "contexted"}
  <1>1. /\ DOMAIN Ladder["epic"] = 1..3 /\ DOMAIN Ladder["story"] = 1..5
        /\ DOMAIN Ladder["retro"] = 1..2
    BY DEF Ladder
  <1>2. Legal("epic") = {"backlog", "in-progress", "done"}
    BY <1>1 DEF Legal, Ladder, ToSet
  <1>3. Legal("story") = {"backlog", "ready-for-dev", "in-progress", "review", "done"}
    BY <1>1 DEF Legal, Ladder, ToSet
  <1>4. Legal("retro") = {"optional", "done"}
    BY <1>1 DEF Legal, Ladder, ToSet
  <1> QED BY <1>2, <1>3, <1>4 DEF Legacy

LEMMA Ranks ==
    ASSUME NEW kind \in Kinds, NEW s \in Legal(kind)
    PROVE  /\ Rank(kind, s) \in Nat
           /\ Rank(kind, s) \in DOMAIN Ladder[kind]
           /\ Ladder[kind][Rank(kind, s)] = s
           /\ s \notin DOMAIN Legacy /\ Normalize(s) = s
  <1>1. \E i \in DOMAIN Ladder[kind] : Ladder[kind][i] = s
    BY DEF Legal, ToSet
  <1>2. Rank(kind, s) \in DOMAIN Ladder[kind] /\ Ladder[kind][Rank(kind, s)] = s
    BY <1>1 DEF Rank
  <1>3. DOMAIN Ladder[kind] \subseteq Nat
    BY DEF Kinds, Ladder
  <1>4. s \notin DOMAIN Legacy
    BY LegalStatuses DEF Kinds
  <1> QED BY <1>2, <1>3, <1>4 DEF Normalize

(* A status that is merged is legal, no lower than either of the two, and a
   second merge changes nothing. *)
LEMMA HigherIsHigher ==
    ASSUME NEW kind \in Kinds, NEW computed \in Legal(kind), NEW raw
    PROVE  LET h == Higher(kind, computed, raw)
           IN  /\ h \in Legal(kind)
               /\ Higher(kind, computed, h) = h
               /\ Normalize(raw) \in Legal(kind)
                    => Rank(kind, Normalize(raw)) <= Rank(kind, h)
  <1> DEFINE s == Normalize(raw)
             h == Higher(kind, computed, raw)
  <1>1. CASE s \in Legal(kind) /\ Rank(kind, s) >= Rank(kind, computed)
    <2>1. h = s /\ Normalize(s) = s /\ Rank(kind, s) \in Nat
      BY <1>1, Ranks DEF Higher
    <2>2. Higher(kind, computed, s) = s
      BY <1>1, <2>1 DEF Higher
    <2> QED BY <1>1, <2>1, <2>2
  <1>2. CASE ~(s \in Legal(kind) /\ Rank(kind, s) >= Rank(kind, computed))
    <2>1. h = computed /\ Normalize(computed) = computed /\ Rank(kind, computed) \in Nat
      BY <1>2, Ranks DEF Higher
    <2>2. Higher(kind, computed, computed) = computed
      BY <2>1 DEF Higher
    <2>3. s \in Legal(kind) => Rank(kind, s) <= Rank(kind, computed)
      BY <1>2, <2>1, Ranks
    <2> QED BY <2>1, <2>2, <2>3
  <1> QED BY <1>1, <1>2

LEMMA ComputedIsLegal ==
    ASSUME NEW k \in Keys \ {OddKey}, NEW d \in SUBSET StoryKeys
    PROVE  k.kind \in Kinds /\ Computed(k, d) \in Legal(k.kind)
  <1>1. k.kind \in Kinds /\ (k \in d => k.kind = "story")
    BY DEF Keys, StoryKeys, EpicKey, RetroKey, Kinds
  <1>2. CASE k \in d
    BY <1>1, <1>2, LegalStatuses DEF Computed
  <1>3. CASE k \notin d
    <2>1. 1 \in DOMAIN Ladder[k.kind]
      BY <1>1 DEF Kinds, Ladder
    <2> QED BY <1>1, <1>3, <2>1 DEF Computed, Legal, ToSet
  <1> QED BY <1>2, <1>3

-----------------------------------------------------------------------------
(* The document that generate computes: every status is legal, and another
   merge, with the same stories on disk, gives the same. *)
Settled(entries, dev, d) ==
    /\ DOMAIN dev = entries
    /\ \A k \in entries : /\ dev[k] \in Legal(k.kind)
                          /\ Higher(k.kind, Computed(k, d), dev[k]) = dev[k]

LEMMA LegalIsRaw ==
    ASSUME NEW kind \in Kinds
    PROVE  Legal(kind) \subseteq RawStatuses
  <1>1. kind \in DOMAIN Ladder
    BY DEF Kinds, Ladder
  <1> QED BY <1>1 DEF RawStatuses

LEMMA BuiltIsSettled ==
    ASSUME NEW entries \in SUBSET (Keys \ {OddKey}), NEW existing,
           NEW d \in SUBSET StoryKeys
    PROVE  Settled(entries, BuildDev(entries, existing, d), d)
  <1> DEFINE dev == BuildDev(entries, existing, d)
  <1>1. DOMAIN dev = entries
    BY DEF BuildDev
  <1>2. ASSUME NEW k \in entries
        PROVE  /\ dev[k] \in Legal(k.kind)
               /\ Higher(k.kind, Computed(k, d), dev[k]) = dev[k]
    <2>1. k.kind \in Kinds /\ Computed(k, d) \in Legal(k.kind)
      BY ComputedIsLegal
    <2>2. CASE k \in DOMAIN existing
      <3>1. dev[k] = Higher(k.kind, Computed(k, d), existing[k])
        BY <2>2 DEF BuildDev
      <3> QED BY <2>1, <3>1, HigherIsHigher
    <2>3. CASE k \notin DOMAIN existing
      <3>1. dev[k] = Computed(k, d)
        BY <2>3 DEF BuildDev
      <3>2. Normalize(dev[k]) = dev[k] /\ Rank(k.kind, dev[k]) \in Nat
        BY <2>1, <3>1, Ranks
      <3> QED BY <2>1, <3>1, <3>2 DEF Higher
    <2> QED BY <2>2, <2>3
  <1> QED BY <1>1, <1>2 DEF Settled

LEMMA SettledIsInSync ==
    ASSUME NEW entries \in SUBSET (Keys \ {OddKey}), NEW d \in SUBSET StoryKeys,
           NEW dev, Settled(entries, dev, d)
    PROVE  InSync(entries, dev, d)
  <1>1. \A k \in entries : /\ k.kind \in Kinds /\ dev[k] \in Legal(k.kind)
                           /\ dev[k] \notin DOMAIN Legacy /\ Normalize(dev[k]) = dev[k]
    BY ComputedIsLegal, Ranks DEF Settled
  <1>2. \A k \in entries : BuildDev(entries, dev, d)[k] = dev[k]
    BY DEF Settled, BuildDev
  <1>3. Orphans(entries, dev) = {} /\ Illegal(entries, dev) = {}
    BY <1>1 DEF Settled, Orphans, Illegal
  <1> QED BY <1>1, <1>2, <1>3 DEF InSync, Settled

(* --set puts one legal status over one of the entries. *)
LEMMA SetsAreOne ==
    ASSUME NEW c \in GenerateCmds
    PROVE  /\ c.op = "generate" /\ c.fresh \in BOOLEAN
           /\ DOMAIN c.sets \subseteq {1}
           /\ \A i \in DOMAIN c.sets : /\ i = 1 /\ c.sets[i].key \in Keys
                                       /\ c.sets[i].status \in RawStatuses
  BY DEF GenerateCmds, NoSet

LEMMA SetsApply ==
    ASSUME NEW c \in GenerateCmds, NEW dev, SetFits(c.sets, DOMAIN dev)
    PROVE  /\ DOMAIN ApplySets(dev, c.sets) = DOMAIN dev
           /\ \A k \in DOMAIN dev :
                \/ ApplySets(dev, c.sets)[k] = dev[k]
                \/ \E i \in DOMAIN c.sets :
                    /\ c.sets[i].key = k
                    /\ c.sets[i].status \in Legal(k.kind)
                    /\ ApplySets(dev, c.sets)[k] = c.sets[i].status
           /\ \A k \in DOMAIN dev :
                (\A i \in DOMAIN c.sets : c.sets[i].key # k)
                    => ApplySets(dev, c.sets)[k] = dev[k]
  BY SetsAreOne DEF ApplySets, SetFits

-----------------------------------------------------------------------------
(* Documents. *)
Devs == UNION {[D -> RawStatuses] : D \in SUBSET Keys}

LEMMA DevOK ==
    /\ \A D \in SUBSET Keys : [D -> RawStatuses] \subseteq Devs
    /\ \A dev \in Devs : /\ DOMAIN dev \in SUBSET Keys
                         /\ \A k \in DOMAIN dev : dev[k] \in RawStatuses
    /\ \A dev : DOMAIN dev \in SUBSET Keys /\ dev = [k \in DOMAIN dev |-> dev[k]]
                /\ (\A k \in DOMAIN dev : dev[k] \in RawStatuses) => dev \in Devs
  BY DEF Devs

LEMMA DocOK ==
    /\ \A doc \in Docs : /\ doc.dev \in Devs /\ doc.items \in Seq(Items)
                         /\ doc.whole \in BOOLEAN /\ Readable(doc)
                         /\ Existing(doc) = doc.dev /\ OldItems(doc) = doc.items
    /\ \A dev \in Devs, items \in Seq(Items), w \in BOOLEAN :
            [dev |-> dev, items |-> items, whole |-> w] \in Docs
  BY FileAssumption DEF Docs, Devs, Readable, Existing, OldItems

LEMMA DocReplaced ==
    ASSUME NEW doc \in Docs, NEW d, NEW i
    PROVE  [doc EXCEPT !.dev = d, !.items = i]
                = [dev |-> d, items |-> i, whole |-> doc.whole]
  <1> DEFINE x == [doc EXCEPT !.dev = d]
  <1>1. doc = [dev |-> doc.dev, items |-> doc.items, whole |-> doc.whole]
    BY DEF Docs
  <1>2. x = [dev |-> d, items |-> doc.items, whole |-> doc.whole]
    BY <1>1
  <1>3. [doc EXCEPT !.dev = d, !.items = i] = [x EXCEPT !.items = i]
    OBVIOUS
  <1> HIDE DEF x
  <1>4. [x EXCEPT !.items = i] = [dev |-> d, items |-> i, whole |-> doc.whole]
    BY <1>2
  <1> QED BY <1>3, <1>4

Files == Docs \union {NoFile, Malformed}

LEMMA FileOK ==
    \A f \in Files : /\ Readable(f) <=> f \in Docs
                     /\ OldItems(f) \in Seq(Items)
                     /\ ~Readable(f) => OldItems(f) = <<>>
  BY DocOK, FileAssumption DEF Files, Readable, OldItems

LEMMA SequenceOf ==
    ASSUME NEW S, NEW n \in Nat, NEW f \in [1..n -> S]
    PROVE  f \in Seq(S) /\ Len(f) = n
  <1>1. f \in Seq(S)
    BY SeqDef
  <1>2. 1..n = 1..Len(f) /\ Len(f) \in Nat
    BY <1>1, LenProperties
  <1> QED BY <1>1, <1>2

(* update keeps every item at its place, and numbers the new ones by theirs. *)
LEMMA ItemsMarked ==
    ASSUME NEW items \in Seq(Items), NEW c \in UpdateCmds
    PROVE  LET m == Marked(items, c.sels)
           IN  /\ m \in Seq(Items) /\ Len(m) = Len(items)
               /\ \A i \in 1..Len(items) : m[i].id = items[i].id
  <1> DEFINE m == Marked(items, c.sels)
  <1>1. DOMAIN items = 1..Len(items) /\ Len(items) \in Nat
        /\ \A i \in 1..Len(items) : items[i] \in Items
    OBVIOUS
  <1>2. c.sels \in Seq(Selectors) /\ DOMAIN c.sels = 1..Len(c.sels)
    BY DEF UpdateCmds
  <1>3. ASSUME NEW i \in 1..Len(items)
        PROVE  m[i] \in Items /\ m[i].id = items[i].id
    <2> DEFINE Picks(j) == j \in DOMAIN c.sels /\ i \in Matches(c.sels[j], items)
    <2>1. CASE \E j \in DOMAIN c.sels : i \in Matches(c.sels[j], items)
      <3>1. PICK j \in DOMAIN c.sels :
                m[i] = [items[i] EXCEPT !.status = c.sels[j].status]
        BY <1>1, <2>1 DEF Marked
      <3>2. c.sels[j] \in Selectors
        BY <1>2
      <3>3. c.sels[j].status \in ActionStatuses
        BY <3>2 DEF Selectors
      <3> QED BY <1>1, <3>1, <3>3 DEF Items
    <2>2. CASE ~\E j \in DOMAIN c.sels : i \in Matches(c.sels[j], items)
      BY <1>1, <2>2 DEF Marked
    <2> QED BY <2>1, <2>2
  <1>4. m \in [1..Len(items) -> Items]
    BY <1>1, <1>3 DEF Marked
  <1>5. m \in Seq(Items) /\ Len(m) = Len(items)
    BY <1>1, <1>4, SequenceOf
  <1> QED BY <1>3, <1>5

LEMMA ItemsAdded ==
    ASSUME NEW items \in Seq(Items), NEW c \in UpdateCmds
    PROVE  LET n == Added(items, c.epic, c.adds)
           IN  /\ n \in Seq(Items) /\ Len(n) = Len(items) + Len(c.adds)
               /\ \A i \in 1..Len(items) : n[i] = items[i]
               /\ \A i \in 1..Len(c.adds) :
                    n[Len(items) + i] = NewItem(c.epic, Len(items) + i, c.adds[i])
  <1> DEFINE new == [i \in DOMAIN c.adds |->
                        NewItem(c.epic, Len(items) + i, c.adds[i])]
  <1>1. /\ c.epic \in Epics /\ c.adds \in Seq(Texts) /\ DOMAIN c.adds = 1..Len(c.adds)
        /\ Len(c.adds) \in Nat /\ Len(items) \in Nat
    BY DEF UpdateCmds
  <1>2. ASSUME NEW i \in 1..Len(c.adds)
        PROVE  NewItem(c.epic, Len(items) + i, c.adds[i]) \in Items
    <2>1. c.adds[i] \in Texts /\ Len(items) + i \in Nat
      BY <1>1
    <2>2. <<c.epic, Len(items) + i, c.adds[i]>> \in Ids
      BY <1>1, <2>1 DEF Ids
    <2> QED BY <1>1, <2>1, <2>2 DEF NewItem, Items, ActionStatuses
  <1>3. new \in [1..Len(c.adds) -> Items]
    BY <1>1, <1>2
  <1>4. new \in Seq(Items) /\ Len(new) = Len(c.adds)
    BY <1>1, <1>3, SequenceOf
  <1>5. Added(items, c.epic, c.adds) = items \o new
    BY DEF Added
  <1>6. /\ items \o new \in Seq(Items)
        /\ Len(items \o new) = Len(items) + Len(new)
        /\ \A i \in 1..Len(items) + Len(new) : (items \o new)[i] =
                IF i <= Len(items) THEN items[i] ELSE new[i - Len(items)]
    BY <1>4, ConcatProperties
  <1>7. \A i \in 1..Len(items) : (items \o new)[i] = items[i]
    BY <1>1, <1>4, <1>6
  <1>8. \A i \in 1..Len(c.adds) : (items \o new)[Len(items) + i] = new[i]
    BY <1>1, <1>4, <1>6
  <1> QED BY <1>1, <1>4, <1>5, <1>6, <1>7, <1>8

LEMMA UpdatedOK ==
    ASSUME NEW doc \in Docs, NEW c \in UpdateCmds
    PROVE  LET new == Updated(doc, c)
           IN  /\ new \in Docs /\ new.dev = RetroDone(doc.dev, c.epic, c.retro)
               /\ Len(new.items) = Len(doc.items) + Len(c.adds)
               /\ \A i \in 1..Len(doc.items) : new.items[i].id = doc.items[i].id
               /\ \A i \in 1..Len(c.adds) : new.items[Len(doc.items) + i]
                        = NewItem(c.epic, Len(doc.items) + i, c.adds[i])
  <1> DEFINE m == Marked(doc.items, c.sels)
             n == Added(m, c.epic, c.adds)
             r == RetroDone(doc.dev, c.epic, c.retro)
  <1>1. doc.items \in Seq(Items) /\ doc.dev \in Devs
    BY DocOK
  <1>2. /\ m \in Seq(Items) /\ Len(m) = Len(doc.items)
        /\ \A i \in 1..Len(doc.items) : m[i].id = doc.items[i].id
    BY <1>1, ItemsMarked
  <1>3. /\ n \in Seq(Items) /\ Len(n) = Len(m) + Len(c.adds)
        /\ \A i \in 1..Len(m) : n[i] = m[i]
        /\ \A i \in 1..Len(c.adds) :
                n[Len(m) + i] = NewItem(c.epic, Len(m) + i, c.adds[i])
    BY <1>2, ItemsAdded
  <1>4. r \in Devs
    <2>1. "done" \in RawStatuses
      BY LegalIsRaw, LegalStatuses DEF Kinds
    <2> QED BY <1>1, <2>1, DevOK DEF RetroDone
  <1>5. Updated(doc, c) = [dev |-> r, items |-> n, whole |-> doc.whole]
    BY DocReplaced DEF Updated
  <1>6. Updated(doc, c) \in Docs
    BY <1>3, <1>4, <1>5, DocOK
  <1>7. \A i \in 1..Len(doc.items) : n[i].id = doc.items[i].id
    BY <1>2, <1>3
  <1>8. \A i \in 1..Len(c.adds) : n[Len(doc.items) + i]
                = NewItem(c.epic, Len(doc.items) + i, c.adds[i])
    <2> HIDE DEF n
    <2> QED BY <1>2, <1>3
  <1>9. Len(n) = Len(doc.items) + Len(c.adds)
    BY <1>2, <1>3
  <1>10. /\ Updated(doc, c).dev = r /\ Updated(doc, c).items = n
    <2> HIDE DEF n, r
    <2> QED BY <1>5
  <1> HIDE DEF n
  <1> QED BY <1>6, <1>7, <1>8, <1>9, <1>10

-----------------------------------------------------------------------------
(* The types of the state, and what a command carries. *)
PCs   == {"idle", "build", "load", "write", "verify", "restore"}
Cmds  == GenerateCmds \union UpdateCmds
Local == [pc : PCs, cmd : Cmds \union {NoCmd}, entries : SUBSET (Keys \ {OddKey}),
          seen : Files, orig : Files, found : SUBSET StoryKeys, out : Files,
          disturbed : BOOLEAN]

Typed ==
    /\ plan \in SUBSET StoryKeys /\ disk \in SUBSET StoryKeys
    /\ file \in Files
    /\ proc \in [Procs -> Local]
    /\ acked \subseteq Ids /\ deleted \subseteq Ids
    /\ overtaken \in BOOLEAN /\ clean \in BOOLEAN
    /\ commands \in Nat /\ edits \in Nat /\ faults \in Nat

(* What a generate, an update has computed from what it has seen. *)
Generated(q) ==
    /\ SetFits(q.cmd.sets, q.entries)
    /\ q.out.dev = ApplySets(BuildDev(q.entries,
                                IF q.cmd.fresh THEN <<>> ELSE Existing(q.seen), q.found),
                             q.cmd.sets)
    /\ q.out.items = OldItems(q.seen)
Revised(q) == q.seen \in Docs /\ q.out = Updated(q.seen, q.cmd)

Carries(q) ==
    /\ q.pc # "idle" => q.cmd \in Cmds
    /\ q.pc = "build" => q.cmd.op = "generate"
    /\ q.pc = "load" => q.cmd.op = "update"
    /\ q.pc # "idle" /\ q.cmd.op = "generate" => q.entries # {}
    /\ q.pc \in {"write", "verify"} =>
            /\ q.out \in Docs
            /\ IF q.cmd.op = "generate" THEN Generated(q) ELSE Revised(q)

Computes == Typed /\ \A p \in Procs : Carries(proc[p])

(* What the others notice of a step: whether the file is another one. *)
Undone(q) == [q EXCEPT !.disturbed = FALSE]
Beside(q) ==
    /\ Undone(proc'[q]) = Undone(proc[q])
    /\ proc'[q].disturbed = (proc[q].disturbed \/ file' # file)

Becomes(p, next) ==
    /\ proc' \in [Procs -> Local] /\ proc'[p] = next
    /\ \A q \in Procs \ {p} : Beside(q)

LEMMA CmdOK ==
    /\ \A c \in Cmds : c.op = "generate" <=> c \in GenerateCmds
    /\ \A c \in Cmds : c.op = "update" <=> c \in UpdateCmds
    /\ Inputs \subseteq Cmds
  BY InputAssumption DEF Cmds, GenerateCmds, UpdateCmds

LEMMA IdleOK ==
    /\ Idle \in Local /\ Idle.pc = "idle" /\ Carries(Idle)
    /\ Idle.entries = {} /\ Idle.seen = NoFile /\ Idle.orig = NoFile
    /\ Idle.found = {} /\ Idle.out = NoFile /\ Idle.disturbed = FALSE
  BY DEF Idle, Local, PCs, Files, Carries

LEMMA UndoneOK ==
    ASSUME NEW q \in Local, NEW r \in Local, Undone(q) = Undone(r)
    PROVE  /\ q.pc = r.pc /\ q.cmd = r.cmd /\ q.entries = r.entries
           /\ q.seen = r.seen /\ q.orig = r.orig /\ q.found = r.found /\ q.out = r.out
           /\ Carries(q) <=> Carries(r)
  <1>1. /\ q.pc = r.pc /\ q.cmd = r.cmd /\ q.entries = r.entries
        /\ q.seen = r.seen /\ q.orig = r.orig /\ q.found = r.found /\ q.out = r.out
    <2>1. /\ Undone(q).pc = q.pc /\ Undone(q).cmd = q.cmd /\ Undone(q).entries = q.entries
          /\ Undone(q).seen = q.seen /\ Undone(q).orig = q.orig
          /\ Undone(q).found = q.found /\ Undone(q).out = q.out
      BY DEF Local, Undone
    <2>2. /\ Undone(r).pc = r.pc /\ Undone(r).cmd = r.cmd /\ Undone(r).entries = r.entries
          /\ Undone(r).seen = r.seen /\ Undone(r).orig = r.orig
          /\ Undone(r).found = r.found /\ Undone(r).out = r.out
      BY DEF Local, Undone
    <2> QED BY <2>1, <2>2
  <1> QED BY <1>1 DEF Carries, Generated, Revised

LEMMA BesideOK ==
    ASSUME Typed, NEW q \in Procs, NEW f, file' = f,
           proc'[q] = [proc[q] EXCEPT !.disturbed = @ \/ f # file]
    PROVE  proc'[q] \in Local /\ Beside(q)
  <1>1. proc[q] \in Local
    BY DEF Typed
  <1> DEFINE d == [proc[q] EXCEPT !.disturbed = @ \/ f # file]
  <1>2. /\ d \in Local /\ Undone(d) = Undone(proc[q])
        /\ d.disturbed = (proc[q].disturbed \/ f # file)
    BY <1>1 DEF Local, Undone
  <1>3. d = proc'[q]
    OBVIOUS
  <1> HIDE DEF d
  <1>4. /\ proc'[q] \in Local /\ Undone(proc'[q]) = Undone(proc[q])
        /\ proc'[q].disturbed = (proc[q].disturbed \/ f # file)
    BY <1>2, <1>3
  <1> QED BY <1>4 DEF Beside

LEMMA ReplaceOK ==
    ASSUME Typed, NEW p \in Procs, NEW f \in Files, NEW next \in Local, Replace(p, f, next)
    PROVE  Becomes(p, next) /\ file' = f
  <1>1. file' = f
    BY DEF Replace
  <1>2. ASSUME NEW q \in Procs \ {p}
        PROVE  proc'[q] \in Local /\ Beside(q)
    <2>1. proc'[q] = [proc[q] EXCEPT !.disturbed = @ \/ f # file]
      BY DEF Replace
    <2> QED BY <1>1, <2>1, BesideOK
  <1>3. proc'[p] = next
    BY DEF Replace
  <1>4. proc' \in [Procs -> Local]
    BY <1>2, <1>3 DEF Replace
  <1> QED BY <1>1, <1>2, <1>3, <1>4 DEF Becomes

LEMMA EditOK ==
    ASSUME Typed, NEW f \in Files, Replace(NoName, f, Idle)
    PROVE  /\ proc' \in [Procs -> Local] /\ file' = f
           /\ \A q \in Procs : Beside(q)
  <1>1. file' = f
    BY DEF Replace
  <1>2. ASSUME NEW q \in Procs
        PROVE  proc'[q] \in Local /\ Beside(q)
    <2>1. proc'[q] = [proc[q] EXCEPT !.disturbed = @ \/ f # file]
      BY SprintAssumption DEF Replace
    <2> QED BY <1>1, <2>1, BesideOK
  <1> QED BY <1>1, <1>2 DEF Replace

LEMMA GotoOK ==
    ASSUME Typed, NEW p \in Procs, NEW next \in Local,
           proc' = [proc EXCEPT ![p] = next], file' = file
    PROVE  Becomes(p, next)
  <1>1. \A q \in Procs \ {p} : proc'[q] = proc[q]
    BY DEF Typed
  <1>2. ASSUME NEW q \in Procs \ {p}
        PROVE  Beside(q)
    <2>1. proc[q].disturbed \in BOOLEAN
      BY DEF Typed, Local
    <2> QED BY <1>1, <2>1 DEF Beside
  <1> QED BY <1>2 DEF Typed, Becomes

-----------------------------------------------------------------------------
(* Where each step of a command leads, and that it keeps Computes. *)

(* Several fields replaced at once. *)
LEMMA FieldOK ==
    ASSUME NEW q \in Local
    PROVE  /\ \A v : [q EXCEPT !.pc = v] = [pc |-> v, cmd |-> q.cmd, entries |-> q.entries,
                seen |-> q.seen, orig |-> q.orig, found |-> q.found, out |-> q.out,
                disturbed |-> q.disturbed]
           /\ q = [pc |-> q.pc, cmd |-> q.cmd, entries |-> q.entries,
                seen |-> q.seen, orig |-> q.orig, found |-> q.found, out |-> q.out,
                disturbed |-> q.disturbed]
  BY DEF Local

BuildOf(q, pc, c, e, s) ==
    [q EXCEPT !.pc = pc, !.cmd = c, !.entries = e, !.seen = s]
LoadOf(q, pc, c, o) == [q EXCEPT !.pc = pc, !.cmd = c, !.orig = o]
BuiltOf(q, o, d, f) ==
    [[q EXCEPT !.pc = "write"] EXCEPT !.orig = o, !.out = d, !.found = f]
LoadedOf(q, o, d) ==
    [[q EXCEPT !.pc = "write"] EXCEPT !.seen = o, !.out = d]

LEMMA FourFields ==
    ASSUME NEW q \in Local, NEW pc, NEW c, NEW e, NEW s
    PROVE  BuildOf(q, pc, c, e, s)
                = [pc |-> pc, cmd |-> c, entries |-> e, seen |-> s, orig |-> q.orig,
                   found |-> q.found, out |-> q.out, disturbed |-> q.disturbed]
  <1> DEFINE x == [q EXCEPT !.pc = pc]
             y == [x EXCEPT !.cmd = c]
             z == [y EXCEPT !.entries = e]
  <1>1. x = [pc |-> pc, cmd |-> q.cmd, entries |-> q.entries, seen |-> q.seen,
             orig |-> q.orig, found |-> q.found, out |-> q.out, disturbed |-> q.disturbed]
    BY FieldOK
  <1>2. BuildOf(q, pc, c, e, s) = [z EXCEPT !.seen = s]
    BY DEF BuildOf
  <1> HIDE DEF x
  <1>3. y = [pc |-> pc, cmd |-> c, entries |-> q.entries, seen |-> q.seen,
             orig |-> q.orig, found |-> q.found, out |-> q.out, disturbed |-> q.disturbed]
    BY <1>1
  <1> HIDE DEF y
  <1>4. z = [pc |-> pc, cmd |-> c, entries |-> e, seen |-> q.seen,
             orig |-> q.orig, found |-> q.found, out |-> q.out, disturbed |-> q.disturbed]
    BY <1>3
  <1> HIDE DEF z
  <1>5. [z EXCEPT !.seen = s] = [pc |-> pc, cmd |-> c, entries |-> e, seen |-> s,
             orig |-> q.orig, found |-> q.found, out |-> q.out, disturbed |-> q.disturbed]
    BY <1>4
  <1> QED BY <1>2, <1>5

LEMMA ThreeFields ==
    ASSUME NEW q \in Local, NEW pc, NEW c, NEW o
    PROVE  LoadOf(q, pc, c, o)
                = [pc |-> pc, cmd |-> c, entries |-> q.entries, seen |-> q.seen, orig |-> o,
                   found |-> q.found, out |-> q.out, disturbed |-> q.disturbed]
  <1> DEFINE x == [q EXCEPT !.pc = pc]
             y == [x EXCEPT !.cmd = c]
  <1>1. x = [pc |-> pc, cmd |-> q.cmd, entries |-> q.entries, seen |-> q.seen,
             orig |-> q.orig, found |-> q.found, out |-> q.out, disturbed |-> q.disturbed]
    BY FieldOK
  <1>2. LoadOf(q, pc, c, o) = [y EXCEPT !.orig = o]
    BY DEF LoadOf
  <1> HIDE DEF x
  <1>3. y = [pc |-> pc, cmd |-> c, entries |-> q.entries, seen |-> q.seen,
             orig |-> q.orig, found |-> q.found, out |-> q.out, disturbed |-> q.disturbed]
    BY <1>1
  <1> HIDE DEF y
  <1>4. [y EXCEPT !.orig = o] = [pc |-> pc, cmd |-> c, entries |-> q.entries, seen |-> q.seen,
             orig |-> o, found |-> q.found, out |-> q.out, disturbed |-> q.disturbed]
    BY <1>3
  <1> QED BY <1>2, <1>4

LEMMA OutFields ==
    ASSUME NEW q \in Local, NEW o, NEW d, NEW f
    PROVE  /\ BuiltOf(q, o, d, f)
                = [pc |-> "write", cmd |-> q.cmd, entries |-> q.entries, seen |-> q.seen,
                   orig |-> o, found |-> f, out |-> d, disturbed |-> q.disturbed]
           /\ LoadedOf(q, o, d)
                = [pc |-> "write", cmd |-> q.cmd, entries |-> q.entries, seen |-> o,
                   orig |-> q.orig, found |-> q.found, out |-> d, disturbed |-> q.disturbed]
  <1> DEFINE x == [q EXCEPT !.pc = "write"]
             y == [x EXCEPT !.orig = o]
             z == [y EXCEPT !.out = d]
             w == [x EXCEPT !.seen = o]
  <1>1. x = [pc |-> "write", cmd |-> q.cmd, entries |-> q.entries, seen |-> q.seen,
             orig |-> q.orig, found |-> q.found, out |-> q.out, disturbed |-> q.disturbed]
    BY FieldOK
  <1>2. /\ BuiltOf(q, o, d, f) = [z EXCEPT !.found = f]
        /\ LoadedOf(q, o, d) = [w EXCEPT !.out = d]
    BY DEF BuiltOf, LoadedOf
  <1> HIDE DEF x
  <1>3. y = [pc |-> "write", cmd |-> q.cmd, entries |-> q.entries, seen |-> q.seen,
             orig |-> o, found |-> q.found, out |-> q.out, disturbed |-> q.disturbed]
    BY <1>1
  <1>4. w = [pc |-> "write", cmd |-> q.cmd, entries |-> q.entries, seen |-> o,
             orig |-> q.orig, found |-> q.found, out |-> q.out, disturbed |-> q.disturbed]
    BY <1>1
  <1> HIDE DEF y, w
  <1>5. z = [pc |-> "write", cmd |-> q.cmd, entries |-> q.entries, seen |-> q.seen,
             orig |-> o, found |-> q.found, out |-> d, disturbed |-> q.disturbed]
    BY <1>3
  <1>6. [w EXCEPT !.out = d] = [pc |-> "write", cmd |-> q.cmd, entries |-> q.entries,
             seen |-> o, orig |-> q.orig, found |-> q.found, out |-> d,
             disturbed |-> q.disturbed]
    BY <1>4
  <1> HIDE DEF z
  <1>7. [z EXCEPT !.found = f] = [pc |-> "write", cmd |-> q.cmd, entries |-> q.entries,
             seen |-> q.seen, orig |-> o, found |-> f, out |-> d,
             disturbed |-> q.disturbed]
    BY <1>5
  <1> QED BY <1>2, <1>6, <1>7

LEMMA Ended ==
    ASSUME Typed, NEW p \in Procs, End(p), file' = file
    PROVE  Becomes(p, Idle)
  BY GotoOK, IdleOK DEF End

LEMMA Kept ==
    ASSUME Computes, Typed', NEW p \in Procs, NEW next \in Local, Becomes(p, next),
           Carries(next)
    PROVE  Computes'
  <1>1. ASSUME NEW q \in Procs \ {p}
        PROVE  Carries(proc'[q])
    <2>1. proc[q] \in Local /\ proc'[q] \in Local /\ Undone(proc'[q]) = Undone(proc[q])
      BY DEF Becomes, Beside, Computes, Typed
    <2> QED BY <2>1, UndoneOK DEF Computes
  <1>2. Carries(proc'[p])
    BY DEF Becomes
  <1> QED BY <1>1, <1>2 DEF Computes

LEMMA EntriesOK ==
    ASSUME plan \in SUBSET StoryKeys
    PROVE  Entries(plan) \in SUBSET (Keys \ {OddKey})
  <1>1. ASSUME NEW k \in StoryKeys
        PROVE  {k, EpicKey(k.epic), RetroKey(k.epic)} \in SUBSET (Keys \ {OddKey})
    <2>1. k.epic \in Epics /\ k.kind = "story"
      BY DEF StoryKeys
    <2> QED BY <2>1 DEF Keys, OddKey, EpicKey, RetroKey
  <1> QED BY <1>1 DEF Entries

LEMMA BeginGenerateStep ==
    ASSUME Computes, NEW p \in Procs, NEW c \in Inputs, BeginGenerate(p, c)
    PROVE  LET n == proc'[p]
           IN  /\ Becomes(p, n) /\ Carries(n) /\ Typed'
               /\ n.pc = "build" /\ n.cmd = c /\ n.entries = Entries(plan)
               /\ n.seen = file /\ n.orig = NoFile /\ n.out = NoFile
               /\ ~n.disturbed
  <1> DEFINE n == [Idle EXCEPT !.pc = "build", !.cmd = c, !.entries = Entries(plan),
                               !.seen = file]
  <1>1. c \in Cmds /\ c.op = "generate" /\ Entries(plan) # {}
    BY CmdOK DEF BeginGenerate
  <1>2. Entries(plan) \in SUBSET (Keys \ {OddKey}) /\ file \in Files
    BY EntriesOK DEF Computes, Typed
  <1>3. n = [pc |-> "build", cmd |-> c, entries |-> Entries(plan), seen |-> file,
             orig |-> NoFile, found |-> {}, out |-> NoFile, disturbed |-> FALSE]
    <2>1. n = BuildOf(Idle, "build", c, Entries(plan), file)
      BY DEF BuildOf
    <2> HIDE DEF n
    <2> QED BY <2>1, IdleOK, FourFields
  <1>4. n \in Local
    BY <1>1, <1>2, <1>3 DEF Local, PCs, Files
  <1>5. proc' = [proc EXCEPT ![p] = n] /\ file' = file
    BY DEF BeginGenerate
  <1> HIDE DEF n
  <1>6. Becomes(p, n)
    BY <1>4, <1>5, GotoOK DEF Computes
  <1>7. Carries(n)
    BY <1>1, <1>3 DEF Carries
  <1>8. Typed'
    BY <1>6 DEF BeginGenerate, Quiet, Computes, Typed, Becomes
  <1>9. proc'[p] = n
    BY <1>6 DEF Becomes
  <1> QED BY <1>3, <1>6, <1>7, <1>8, <1>9

LEMMA BeginUpdateStep ==
    ASSUME Computes, NEW p \in Procs, NEW c \in Inputs, BeginUpdate(p, c)
    PROVE  LET n == proc'[p]
           IN  /\ Becomes(p, n) /\ Carries(n) /\ Typed'
               /\ n.pc = "load" /\ n.cmd = c
               /\ n.seen = NoFile /\ n.orig = file /\ n.out = NoFile
               /\ ~n.disturbed
  <1> DEFINE n == [Idle EXCEPT !.pc = "load", !.cmd = c, !.orig = file]
  <1>1. c \in Cmds /\ c.op = "update" /\ c.op # "generate"
    BY CmdOK DEF BeginUpdate
  <1>2. file \in Files
    BY DEF Computes, Typed
  <1>3. n = [pc |-> "load", cmd |-> c, entries |-> {}, seen |-> NoFile,
             orig |-> file, found |-> {}, out |-> NoFile, disturbed |-> FALSE]
    <2>1. n = LoadOf(Idle, "load", c, file)
      BY DEF LoadOf
    <2> HIDE DEF n
    <2> QED BY <2>1, IdleOK, ThreeFields
  <1>4. n \in Local
    BY <1>1, <1>2, <1>3 DEF Local, PCs, Files
  <1>5. proc' = [proc EXCEPT ![p] = n] /\ file' = file
    BY DEF BeginUpdate
  <1> HIDE DEF n
  <1>6. Becomes(p, n)
    BY <1>4, <1>5, GotoOK DEF Computes
  <1>7. Carries(n)
    BY <1>1, <1>3 DEF Carries
  <1>8. Typed'
    BY <1>6 DEF BeginUpdate, Quiet, Computes, Typed, Becomes
  <1>9. proc'[p] = n
    BY <1>6 DEF Becomes
  <1> QED BY <1>3, <1>6, <1>7, <1>8, <1>9

LEMMA SameWork ==
    ASSUME NEW q, NEW r, r.cmd = q.cmd, r.entries = q.entries, r.seen = q.seen,
           r.found = q.found, r.out = q.out
    PROVE  (Generated(q) <=> Generated(r)) /\ (Revised(q) <=> Revised(r))
  BY DEF Generated, Revised

LEMMA BuildStep ==
    ASSUME Computes, NEW p \in Procs, Build(p)
    PROVE  LET n == proc'[p]
               q == proc[p]
           IN  /\ Becomes(p, n) /\ Carries(n) /\ Typed' /\ file' = file
               /\ \/ n = Idle
                  \/ /\ n.pc = "write" /\ n.cmd = q.cmd /\ n.entries = q.entries
                     /\ n.seen = q.seen /\ n.orig = file /\ n.found = disk
                     /\ n.out \in Docs /\ n.disturbed = q.disturbed
                     /\ q.cmd.op = "generate"
  <1> DEFINE q == proc[p]
             doc == [dev |-> ApplySets(Merged(p), q.cmd.sets),
                     items |-> Carried(q.cmd, q.seen),
                     whole |-> Readable(q.seen) => q.seen.whole]
             n == [Goto(p, "write") EXCEPT !.orig = file, !.out = doc, !.found = disk]
  <1>1. /\ q \in Local /\ q.pc = "build" /\ q.cmd \in GenerateCmds
        /\ q.cmd.op = "generate" /\ q.entries # {}
    <2>1. q \in Local /\ q.pc = "build" /\ Carries(q)
      BY DEF Computes, Typed, Build, At
    <2>2. q.cmd \in Cmds /\ q.cmd.op = "generate" /\ q.entries # {}
      BY <2>1 DEF Carries
    <2> QED BY <2>1, <2>2, CmdOK
  <1>2. /\ file' = file /\ plan' = plan /\ disk' = disk /\ overtaken' = overtaken
        /\ deleted' = deleted /\ acked' = acked /\ clean' = clean
        /\ commands' = commands /\ edits' = edits /\ faults' = faults
    BY DEF Build, Quiet, bounds
  <1>3. CASE ~SetFits(q.cmd.sets, q.entries)
    <2>1. End(p)
      BY <1>3 DEF Build
    <2>2. Becomes(p, Idle) /\ proc'[p] = Idle
      BY <2>1, <1>2, Ended DEF Computes, Becomes
    <2>3. Typed'
      BY <2>2, <1>2 DEF Computes, Typed, Becomes
    <2> QED BY <1>2, <2>2, <2>3, IdleOK
  <1>4. CASE SetFits(q.cmd.sets, q.entries)
    <2>1. proc' = [proc EXCEPT ![p] = n]
      BY <1>4 DEF Build
    <2>2. n = BuiltOf(q, file, doc, disk)
      BY DEF Goto, BuiltOf
    <2> HIDE DEF n
    <2>3. n = [pc |-> "write", cmd |-> q.cmd, entries |-> q.entries, seen |-> q.seen,
               orig |-> file, found |-> disk, out |-> doc, disturbed |-> q.disturbed]
      <3> HIDE DEF q, doc
      <3> QED BY <1>1, <2>2, OutFields
    <2> DEFINE old == IF q.cmd.fresh THEN <<>> ELSE Existing(q.seen)
               built == BuildDev(q.entries, old, disk)
    <2>4. q.entries \in SUBSET (Keys \ {OddKey}) /\ disk \in SUBSET StoryKeys
          /\ file \in Files /\ q.seen \in Files
      BY <1>1 DEF Computes, Typed, Local
    <2>5. Settled(q.entries, built, disk)
      BY <2>4, BuiltIsSettled
    <2>6. ApplySets(built, q.cmd.sets) \in Devs
      <3> HIDE DEF built
      <3>1. DOMAIN built = q.entries
        BY <2>5 DEF Settled
      <3>2. \A k \in q.entries : Legal(k.kind) \subseteq RawStatuses
        BY <2>4, ComputedIsLegal, LegalIsRaw
      <3>3. /\ DOMAIN ApplySets(built, q.cmd.sets) = q.entries
            /\ \A k \in q.entries : ApplySets(built, q.cmd.sets)[k] \in RawStatuses
        BY <1>1, <1>4, <2>5, <3>1, <3>2, SetsApply DEF Settled
      <3> DEFINE a == ApplySets(built, q.cmd.sets)
      <3>4. a = [k \in DOMAIN a |-> a[k]]
        BY DEF ApplySets
      <3> HIDE DEF a
      <3>5. a \in Devs
        BY <2>4, <3>3, <3>4, DevOK DEF a
      <3> QED BY <3>5 DEF a
    <2>7. OldItems(q.seen) \in Seq(Items) /\ (Readable(q.seen) => q.seen.whole \in BOOLEAN)
      BY <2>4, FileOK, DocOK
    <2>8. doc.dev = ApplySets(built, q.cmd.sets) /\ doc.items = OldItems(q.seen)
      BY DEF Merged, Carried
    <2>9. doc \in Docs
      BY <2>6, <2>7, DocOK DEF Merged, Carried
    <2> HIDE DEF doc
    <2>10. n \in Local
      BY <1>1, <2>3, <2>4, <2>9 DEF Local, PCs, Files
    <2>11. Becomes(p, n) /\ proc'[p] = n
      BY <2>1, <2>10, <1>2, GotoOK DEF Computes, Becomes
    <2>12. Generated(n)
      BY <1>4, <2>3, <2>8 DEF Generated
    <2>13. Carries(n)
      BY <1>1, <2>3, <2>9, <2>12 DEF Carries, Cmds
    <2>14. Typed'
      BY <2>11, <1>2 DEF Computes, Typed, Becomes
    <2>15. /\ n.pc = "write" /\ n.cmd = q.cmd /\ n.entries = q.entries
           /\ n.seen = q.seen /\ n.orig = file /\ n.found = disk
           /\ n.out \in Docs /\ n.disturbed = q.disturbed
      BY <2>3, <2>9
    <2> QED BY <1>1, <1>2, <2>11, <2>13, <2>14, <2>15
  <1> QED BY <1>3, <1>4

LEMMA LoadStep ==
    ASSUME Computes, NEW p \in Procs, LoadDocument(p)
    PROVE  LET n == proc'[p]
               q == proc[p]
           IN  /\ Becomes(p, n) /\ Carries(n) /\ Typed' /\ file' = file
               /\ \/ n = Idle
                  \/ /\ n.pc = "write" /\ n.cmd = q.cmd /\ q.cmd \in UpdateCmds
                     /\ n.seen = file /\ n.orig = q.orig /\ file \in Docs
                     /\ n.out = Updated(file, q.cmd) /\ n.disturbed = q.disturbed
  <1> DEFINE q == proc[p]
             doc == Updated(file, q.cmd)
             n == [Goto(p, "write") EXCEPT !.seen = file, !.out = doc]
  <1>1. q \in Local /\ q.pc = "load" /\ q.cmd \in UpdateCmds /\ q.cmd.op = "update"
    <2>1. q \in Local /\ q.pc = "load" /\ Carries(q)
      BY DEF Computes, Typed, LoadDocument, At
    <2>2. q.cmd \in Cmds /\ q.cmd.op = "update"
      BY <2>1 DEF Carries
    <2> QED BY <2>1, <2>2, CmdOK
  <1>2. /\ file' = file /\ plan' = plan /\ disk' = disk /\ overtaken' = overtaken
        /\ deleted' = deleted /\ acked' = acked /\ clean' = clean
        /\ commands' = commands /\ edits' = edits /\ faults' = faults
    BY DEF LoadDocument, Quiet, bounds
  <1>3. CASE ~Readable(file) \/ ~Resolved(q.cmd.sels, OldItems(file))
    <2>1. End(p)
      BY <1>3 DEF LoadDocument
    <2>2. Becomes(p, Idle) /\ proc'[p] = Idle
      BY <2>1, <1>2, Ended DEF Computes, Becomes
    <2>3. Typed'
      BY <2>2, <1>2 DEF Computes, Typed, Becomes
    <2> QED BY <1>2, <2>2, <2>3, IdleOK
  <1>4. CASE ~(~Readable(file) \/ ~Resolved(q.cmd.sels, OldItems(file)))
    <2>1. proc' = [proc EXCEPT ![p] = n]
      BY <1>4 DEF LoadDocument
    <2>2. n = LoadedOf(q, file, doc)
      BY DEF Goto, LoadedOf
    <2> HIDE DEF n
    <2>3. n = [pc |-> "write", cmd |-> q.cmd, entries |-> q.entries, seen |-> file,
               orig |-> q.orig, found |-> q.found, out |-> doc, disturbed |-> q.disturbed]
      <3> HIDE DEF q, doc
      <3> QED BY <1>1, <2>2, OutFields
    <2>4. file \in Docs /\ doc \in Docs
      BY <1>1, <1>4, FileOK, UpdatedOK DEF Computes, Typed
    <2>5. n \in Local
      <3> HIDE DEF doc
      <3> QED BY <1>1, <2>3, <2>4 DEF Local, PCs, Files
    <2>6. Becomes(p, n) /\ proc'[p] = n
      BY <2>1, <2>5, <1>2, GotoOK DEF Computes, Becomes
    <2>7. Revised(n)
      <3> HIDE DEF q
      <3> QED BY <2>3, <2>4 DEF Revised
    <2>8. Carries(n)
      <3> HIDE DEF doc
      <3> QED BY <1>1, <2>3, <2>4, <2>7 DEF Carries, Cmds
    <2>9. Typed'
      BY <2>6, <1>2 DEF Computes, Typed, Becomes
    <2>10. /\ n.pc = "write" /\ n.cmd = q.cmd /\ n.seen = file /\ n.orig = q.orig
           /\ n.out = doc /\ n.disturbed = q.disturbed
      <3> HIDE DEF q, doc
      <3> QED BY <2>3
    <2> QED BY <1>1, <1>2, <2>4, <2>6, <2>8, <2>9, <2>10
  <1> QED BY <1>3, <1>4

LEMMA CarriesOn ==
    ASSUME NEW q \in Local, Carries(q), NEW pc \in {"verify", "restore"},
           q.pc # "idle", pc = "verify" => q.pc = "write"
    PROVE  LET n == [q EXCEPT !.pc = pc]
           IN  /\ n \in Local /\ Carries(n) /\ n.pc = pc /\ n.cmd = q.cmd
               /\ n.entries = q.entries /\ n.seen = q.seen /\ n.orig = q.orig
               /\ n.found = q.found /\ n.out = q.out /\ n.disturbed = q.disturbed
  <1> DEFINE n == [q EXCEPT !.pc = pc]
  <1>1. /\ n \in Local /\ n.pc = pc /\ n.cmd = q.cmd
        /\ n.entries = q.entries /\ n.seen = q.seen /\ n.orig = q.orig
        /\ n.found = q.found /\ n.out = q.out /\ n.disturbed = q.disturbed
    BY DEF Local, PCs
  <1> HIDE DEF n
  <1>2. (Generated(q) <=> Generated(n)) /\ (Revised(q) <=> Revised(n))
    BY <1>1, SameWork
  <1>3. Carries(n)
    BY <1>1, <1>2 DEF Carries
  <1> QED BY <1>1, <1>3 DEF n

(* A write that loses something loses no status and no item of the model. *)
LEMMA DocThinned ==
    ASSUME NEW doc \in Docs, NEW w \in BOOLEAN
    PROVE  LET d == [doc EXCEPT !.whole = @ /\ w]
           IN  d \in Docs /\ d.dev = doc.dev /\ d.items = doc.items
  BY DEF Docs

LEMMA WriteStep ==
    ASSUME Computes, NEW p \in Procs, NEW lossy \in BOOLEAN, Write(p, lossy)
    PROVE  LET n == proc'[p]
               q == proc[p]
           IN  /\ Becomes(p, n) /\ Carries(n) /\ Typed'
               /\ q.pc = "write" /\ q.out \in Docs
               /\ n.pc = "verify" /\ n.cmd = q.cmd /\ n.entries = q.entries
               /\ n.seen = q.seen /\ n.orig = q.orig /\ n.found = q.found
               /\ n.out = q.out /\ n.disturbed = q.disturbed
               /\ file' \in Docs /\ file'.dev = q.out.dev /\ file'.items = q.out.items
  <1> DEFINE q == proc[p]
             n == Goto(p, "verify")
             f == [q.out EXCEPT !.whole = @ /\ ~lossy]
  <1>1. q \in Local /\ q.pc = "write" /\ Carries(q)
    BY DEF Computes, Typed, Write, At
  <1>2. q.out \in Docs
    BY <1>1 DEF Carries
  <1>3. /\ n \in Local /\ Carries(n) /\ n.pc = "verify" /\ n.cmd = q.cmd
        /\ n.entries = q.entries /\ n.seen = q.seen /\ n.orig = q.orig
        /\ n.found = q.found /\ n.out = q.out /\ n.disturbed = q.disturbed
    BY <1>1, CarriesOn DEF Goto
  <1>4. f \in Docs /\ f.dev = q.out.dev /\ f.items = q.out.items
    <2> HIDE DEF q
    <2> QED BY <1>2, DocThinned
  <1>5. Replace(p, f, n)
    BY DEF Write
  <1> HIDE DEF n, f
  <1>6. Becomes(p, n) /\ file' = f
    BY <1>3, <1>4, <1>5, ReplaceOK DEF Computes, Files
  <1>7. proc'[p] = n
    BY <1>6 DEF Becomes
  <1>8. Typed'
    <2>1. proc' \in [Procs -> Local] /\ file' \in Files
      BY <1>4, <1>6 DEF Becomes, Files
    <2>2. /\ plan' = plan /\ disk' = disk /\ acked' = acked /\ deleted' = deleted
          /\ commands' = commands /\ edits' = edits
          /\ clean' = FALSE
      BY DEF Write
    <2>3. overtaken' \in BOOLEAN
      BY DEF Write
    <2>4. faults' = faults + 1 \/ faults' = faults
      BY DEF Write
    <2>5. faults' \in Nat
      BY <2>4 DEF Computes, Typed
    <2> QED BY <2>1, <2>2, <2>3, <2>5 DEF Computes, Typed
  <1> QED BY <1>1, <1>2, <1>3, <1>4, <1>6, <1>7, <1>8

Stops(p) == WriteFails(p) \/ Succeed(p) \/ Reject(p) \/ RestoreFails(p) \/ Kill(p)

LEMMA StopStep ==
    ASSUME Computes, NEW p \in Procs, Stops(p)
    PROVE  LET n == proc'[p]
               q == proc[p]
           IN  /\ Becomes(p, n) /\ Carries(n) /\ Typed' /\ file' = file
               /\ q.pc \in {"write", "verify", "restore"}
               /\ deleted' = deleted /\ overtaken' = overtaken
               /\ plan' = plan /\ disk' = disk
               /\ \/ n = Idle
                  \/ /\ n.pc = "restore" /\ n.cmd = q.cmd /\ n.seen = q.seen
                     /\ n.orig = q.orig /\ n.out = q.out /\ n.disturbed = q.disturbed
                     /\ q.pc \in {"write", "verify"}
               /\ \/ acked' = acked /\ (clean' = clean \/ Succeed(p))
                  \/ /\ q.pc = "verify" /\ q.cmd \in UpdateCmds /\ Succeed(p)
                     /\ acked' = acked \union (AddedIds(q.seen, q.cmd) \ deleted)
  <1> DEFINE q == proc[p]
             r == Goto(p, "restore")
  <1>1. q \in Local /\ Carries(q) /\ q.pc \in {"write", "verify", "restore"}
    BY DEF Stops, WriteFails, Succeed, Reject, RestoreFails, Kill, At, Computes, Typed
  <1>2. /\ file' = file /\ plan' = plan /\ disk' = disk /\ deleted' = deleted
        /\ overtaken' = overtaken /\ commands' = commands /\ edits' = edits
    BY DEF Stops, WriteFails, Succeed, Reject, RestoreFails, Kill, Quiet, bounds
  <1>3. \/ End(p)
        \/ q.pc \in {"write", "verify"} /\ proc' = [proc EXCEPT ![p] = r]
    BY DEF Stops, WriteFails, Succeed, Reject, RestoreFails, Kill, At
  <1>4. /\ r \in Local /\ Carries(r) /\ r.pc = "restore" /\ r.cmd = q.cmd
        /\ r.seen = q.seen /\ r.orig = q.orig /\ r.out = q.out
        /\ r.disturbed = q.disturbed
    BY <1>1, CarriesOn DEF Goto
  <1> HIDE DEF r
  <1>5. \/ Becomes(p, Idle)
        \/ q.pc \in {"write", "verify"} /\ Becomes(p, r)
    BY <1>2, <1>3, <1>4, Ended, GotoOK DEF Computes
  <1>6. \/ acked' = acked /\ (clean' = clean \/ Succeed(p))
        \/ /\ q.pc = "verify" /\ q.cmd \in UpdateCmds /\ Succeed(p)
           /\ acked' = acked \union (AddedIds(q.seen, q.cmd) \ deleted)
           /\ AddedIds(q.seen, q.cmd) \subseteq Ids
    <2>1. CASE WriteFails(p) \/ Reject(p) \/ RestoreFails(p) \/ Kill(p)
      BY <2>1 DEF WriteFails, Reject, RestoreFails, Kill
    <2>2. CASE Succeed(p) /\ Generates(p)
      BY <2>2 DEF Succeed
    <2>3. CASE Succeed(p) /\ ~Generates(p)
      <3>1. q.pc = "verify" /\ q.cmd \in UpdateCmds /\ q.seen \in Docs
        BY <1>1, <2>3, CmdOK DEF Succeed, At, Generates, Carries, Revised, Cmds
      <3>2. q.seen.items \in Seq(Items) /\ q.cmd.epic \in Epics /\ q.cmd.adds \in Seq(Texts)
        BY <3>1, DocOK DEF UpdateCmds
      <3>3. ASSUME NEW i \in DOMAIN q.cmd.adds
            PROVE  <<q.cmd.epic, Len(q.seen.items) + i, q.cmd.adds[i]>> \in Ids
        <4>1. q.cmd.adds[i] \in Texts /\ i \in Nat /\ Len(q.seen.items) \in Nat
          BY <3>2
        <4> QED BY <3>2, <4>1 DEF Ids
      <3>4. AddedIds(q.seen, q.cmd) \subseteq Ids
        BY <3>3 DEF AddedIds
      <3> QED BY <2>3, <3>1, <3>4 DEF Succeed
    <2> QED BY <2>1, <2>2, <2>3 DEF Stops
  <1>7. clean' \in BOOLEAN /\ faults' \in Nat
    <2>1. clean \in BOOLEAN /\ faults \in Nat
      BY DEF Computes, Typed
    <2>2. faults' = faults \/ faults' = faults + 1
      BY DEF Stops, WriteFails, Succeed, Reject, RestoreFails, Kill, bounds
    <2>3. clean' = clean \/ Succeed(p)
      BY DEF Stops, WriteFails, Succeed, Reject, RestoreFails, Kill
    <2>4. Succeed(p) => clean' \in BOOLEAN
      BY DEF Succeed
    <2> QED BY <2>1, <2>2, <2>3, <2>4
  <1>8. Typed'
    <2>1. proc' \in [Procs -> Local]
      BY <1>5 DEF Becomes
    <2>2. acked' \subseteq Ids
      BY <1>6 DEF Computes, Typed
    <2> QED BY <1>2, <1>7, <2>1, <2>2 DEF Computes, Typed
  <1>9. CASE Becomes(p, Idle)
    BY <1>1, <1>2, <1>6, <1>8, <1>9, IdleOK DEF Becomes
  <1>10. CASE q.pc \in {"write", "verify"} /\ Becomes(p, r)
    BY <1>1, <1>2, <1>4, <1>6, <1>8, <1>10 DEF Becomes
  <1> QED BY <1>5, <1>9, <1>10

LEMMA RestoreStep ==
    ASSUME Computes, NEW p \in Procs, Restore(p)
    PROVE  LET n == proc'[p]
               q == proc[p]
           IN  /\ Becomes(p, n) /\ Carries(n) /\ Typed'
               /\ q.pc = "restore" /\ n = Idle /\ file' = q.orig
  <1>1. proc[p].orig \in Files
    BY DEF Computes, Typed, Local
  <1>2. Becomes(p, Idle) /\ file' = proc[p].orig
    BY <1>1, IdleOK, ReplaceOK DEF Restore, Computes
  <1>3. Typed'
    <2>1. proc' \in [Procs -> Local] /\ file' \in Files
      BY <1>1, <1>2 DEF Becomes
    <2>2. overtaken' \in BOOLEAN
      BY DEF Restore, Computes, Typed
    <2> QED BY <2>1, <2>2 DEF Restore, bounds, Computes, Typed
  <1> QED BY <1>2, <1>3, IdleOK DEF Restore, At, Becomes

-----------------------------------------------------------------------------
(* The edits. *)

(* What an edit leaves the commands and the file. *)
Aside(f) ==
    /\ proc' \in [Procs -> Local] /\ f \in Files /\ file' = f
    /\ \A q \in Procs : Beside(q)

LEMMA DevEdited ==
    ASSUME NEW doc \in Docs, NEW d \in Devs
    PROVE  LET n == [doc EXCEPT !.dev = d]
           IN  n \in Docs /\ n.items = doc.items
  BY DEF Docs, Devs

LEMMA ItemsEdited ==
    ASSUME NEW doc \in Docs, NEW items \in Seq(Items)
    PROVE  LET n == [doc EXCEPT !.items = items]
           IN  n \in Docs /\ n.items = items
  BY DEF Docs

LEMMA HandStep ==
    ASSUME Typed, NEW k \in Keys, NEW s \in HandStatuses, EditStatus(k, s)
    PROVE  \E d \in Files : Aside(d) /\ OldItems(d) = OldItems(file)
  <1> DEFINE dev == [x \in DOMAIN file.dev \union {k} |->
                        IF x = k THEN s ELSE file.dev[x]]
             n == [file EXCEPT !.dev = dev]
  <1>1. file \in Docs
    BY FileOK DEF EditStatus, Typed
  <1>2. dev \in Devs
    <2>1. DOMAIN file.dev \in SUBSET Keys
          /\ \A x \in DOMAIN file.dev : file.dev[x] \in RawStatuses
      BY <1>1, DocOK, DevOK
    <2> QED BY <2>1, HandAssumption, DevOK
  <1>3. Replace(NoName, n, Idle)
    BY DEF EditStatus
  <1> HIDE DEF dev
  <1>4. n \in Docs /\ n.items = file.items
    BY <1>1, <1>2, DevEdited
  <1> HIDE DEF n
  <1>5. n \in Files
    BY <1>4 DEF Files
  <1>6. Aside(n)
    BY <1>3, <1>5, EditOK DEF Aside
  <1> QED BY <1>1, <1>4, <1>5, <1>6, DocOK

LEMMA SyncStep ==
    ASSUME Typed, NEW k \in StoryKeys, NEW t \in {"in-progress", "review"},
           SyncStatus(k, t)
    PROVE  \E d \in Files : Aside(d) /\ OldItems(d) = OldItems(file)
  <1> DEFINE dev == [x \in DOMAIN file.dev |->
                IF x = k THEN t
                ELSE IF /\ t = "in-progress" /\ x = EpicKey(k.epic)
                        /\ file.dev[x] = "backlog"
                     THEN "in-progress" ELSE file.dev[x]]
             n == [file EXCEPT !.dev = dev]
  <1>1. file \in Docs
    BY FileOK DEF SyncStatus, Typed
  <1>2. dev \in Devs
    <2>1. DOMAIN file.dev \in SUBSET Keys
          /\ \A x \in DOMAIN file.dev : file.dev[x] \in RawStatuses
      BY <1>1, DocOK, DevOK
    <2>2. {"in-progress", "review"} \subseteq RawStatuses
      BY LegalIsRaw, LegalStatuses DEF Kinds
    <2> QED BY <2>1, <2>2, DevOK
  <1>3. Replace(NoName, n, Idle)
    BY DEF SyncStatus
  <1> HIDE DEF dev
  <1>4. n \in Docs /\ n.items = file.items
    BY <1>1, <1>2, DevEdited
  <1> HIDE DEF n
  <1>5. n \in Files
    BY <1>4 DEF Files
  <1>6. Aside(n)
    BY <1>3, <1>5, EditOK DEF Aside
  <1> QED BY <1>1, <1>4, <1>5, <1>6, DocOK

LEMMA LegacyStep ==
    ASSUME Typed, NEW e \in Epics, NEW t \in LegacyTexts, NEW s \in {"open", "odd"},
           AddLegacyItem(e, t, s)
    PROVE  LET i == [id |-> NoId, epic |-> e, text |-> t, status |-> s]
           IN  \E d \in Files : Aside(d) /\ OldItems(d) = Append(OldItems(file), i)
  <1> DEFINE i == [id |-> NoId, epic |-> e, text |-> t, status |-> s]
             items == Append(file.items, i)
             n == [file EXCEPT !.items = items]
  <1>1. file \in Docs /\ file.items \in Seq(Items)
    BY FileOK, DocOK DEF AddLegacyItem, Typed
  <1>2. i \in Items
    BY HandAssumption DEF Items, Ids, ActionStatuses
  <1> HIDE DEF i
  <1>3. items \in Seq(Items)
    BY <1>1, <1>2
  <1>4. Replace(NoName, n, Idle)
    BY DEF AddLegacyItem, i
  <1> HIDE DEF items
  <1>5. n \in Docs /\ n.items = items
    BY <1>1, <1>3, ItemsEdited
  <1> HIDE DEF n
  <1>6. n \in Files
    BY <1>5 DEF Files
  <1>7. Aside(n)
    BY <1>4, <1>6, EditOK DEF Aside
  <1> QED BY <1>1, <1>5, <1>6, <1>7, DocOK DEF i, items

LEMMA RemovedOK ==
    ASSUME NEW items \in Seq(Items), NEW i \in 1..Len(items)
    PROVE  LET r == RemoveAt(items, i)
           IN  /\ r \in Seq(Items) /\ Len(r) = Len(items) - 1
               /\ \A j \in 1..Len(items) : j < i => r[j] = items[j]
               /\ \A j \in 1..Len(items) : j > i => r[j - 1] = items[j]
  <1> DEFINE a == SubSeq(items, 1, i - 1)
             b == SubSeq(items, i + 1, Len(items))
  <1>1. a \in Seq(Items) /\ Len(a) = i - 1
        /\ \A j \in 1..(i - 1) : a[j] = items[j]
    BY SubSeqProperties
  <1>2. b \in Seq(Items) /\ Len(b) = Len(items) - i
        /\ \A j \in 1..(Len(items) - i) : b[j] = items[i + j]
    BY SubSeqProperties
  <1>3. RemoveAt(items, i) = a \o b
    BY DEF RemoveAt
  <1> HIDE DEF a, b
  <1>4. /\ a \o b \in Seq(Items) /\ Len(a \o b) = Len(a) + Len(b)
        /\ \A j \in 1..Len(a) + Len(b) : (a \o b)[j] =
                IF j <= Len(a) THEN a[j] ELSE b[j - Len(a)]
    BY <1>1, <1>2, ConcatProperties
  <1>5. \A j \in 1..Len(items) : j < i => (a \o b)[j] = items[j]
    BY <1>1, <1>2, <1>4
  <1>6. ASSUME NEW j \in 1..Len(items), j > i
        PROVE  (a \o b)[j - 1] = items[j]
    <2>1. j - i \in 1..(Len(items) - i) /\ j - 1 \in 1..(Len(a) + Len(b))
      BY <1>1, <1>2, <1>6
    <2>2. (a \o b)[j - 1] = b[j - i]
      BY <1>1, <1>2, <1>4, <1>6, <2>1
    <2>3. b[j - i] = items[i + (j - i)]
      BY <1>2, <2>1
    <2> QED BY <1>6, <2>2, <2>3
  <1>7. Len(a \o b) = Len(items) - 1
    BY <1>1, <1>2, <1>4
  <1> QED BY <1>3, <1>4, <1>5, <1>6, <1>7

LEMMA DeleteStep ==
    ASSUME Typed, NEW i \in Nat, DeleteItem(i)
    PROVE  /\ i \in 1..Len(OldItems(file)) /\ OldItems(file) = file.items
           /\ \E d \in Files : Aside(d) /\ OldItems(d) = RemoveAt(file.items, i)
  <1> DEFINE items == RemoveAt(file.items, i)
             n == [file EXCEPT !.items = items]
  <1>1. file \in Docs /\ file.items \in Seq(Items) /\ OldItems(file) = file.items
    BY FileOK, DocOK DEF DeleteItem, Typed
  <1>2. i \in 1..Len(file.items)
    BY <1>1 DEF DeleteItem
  <1>3. items \in Seq(Items)
    BY <1>1, <1>2, RemovedOK
  <1>4. Replace(NoName, n, Idle)
    BY DEF DeleteItem
  <1> HIDE DEF items
  <1>5. n \in Docs /\ n.items = items
    BY <1>1, <1>3, ItemsEdited
  <1> HIDE DEF n
  <1>6. n \in Files
    BY <1>5 DEF Files
  <1>7. Aside(n)
    BY <1>4, <1>6, EditOK DEF Aside
  <1> QED BY <1>1, <1>2, <1>5, <1>6, <1>7, DocOK DEF items

LEMMA SpoilStep ==
    ASSUME Typed, NEW f \in {NoFile, Malformed}, Spoil(f)
    PROVE  \E d \in Files : Aside(d) /\ OldItems(d) = <<>>
  <1>1. f \in Files /\ ~Readable(f)
    BY DEF Files, Readable
  <1>2. Aside(f)
    BY <1>1, EditOK DEF Spoil, Aside
  <1> QED BY <1>1, <1>2 DEF OldItems

LEMMA KeptAside ==
    ASSUME Computes, Typed', NEW f, Aside(f)
    PROVE  Computes'
  <1>1. ASSUME NEW q \in Procs
        PROVE  Carries(proc'[q])
    <2>1. proc[q] \in Local /\ proc'[q] \in Local /\ Undone(proc'[q]) = Undone(proc[q])
      BY DEF Aside, Beside, Computes, Typed
    <2> QED BY <2>1, UndoneOK DEF Computes
  <1> QED BY <1>1 DEF Computes

LEMMA EditKeeps ==
    ASSUME Computes, Edit
    PROVE  Computes'
  <1>1. /\ overtaken' = overtaken /\ commands' = commands /\ faults' = faults
        /\ edits' \in Nat /\ clean' = FALSE
    <2>1. Edited
      BY DEF Edit, EditPlan, WriteStory, SyncStatus, EditStatus, AddLegacyItem,
             DeleteItem, Spoil
    <2> QED BY <2>1 DEF Edited, Computes, Typed
  <1>2. ASSUME NEW h \in SUBSET StoryKeys, EditPlan(h)
        PROVE  Computes'
    BY <1>1, <1>2 DEF EditPlan, Computes, Typed
  <1>3. ASSUME NEW k \in StoryKeys, WriteStory(k)
        PROVE  Computes'
    BY <1>1, <1>3 DEF WriteStory, Computes, Typed
  <1>4. ASSUME NEW k \in StoryKeys, NEW t \in {"in-progress", "review"}, SyncStatus(k, t)
        PROVE  Computes'
    <2>1. PICK d \in Files : Aside(d)
      BY <1>4, SyncStep DEF Computes
    <2>2. Typed'
      BY <1>1, <1>4, <2>1 DEF SyncStatus, Aside, Computes, Typed
    <2> QED BY <2>1, <2>2, KeptAside
  <1>5. ASSUME NEW k \in Keys, NEW s \in HandStatuses, EditStatus(k, s)
        PROVE  Computes'
    <2>1. PICK d \in Files : Aside(d)
      BY <1>5, HandStep DEF Computes
    <2>2. Typed'
      BY <1>1, <1>5, <2>1 DEF EditStatus, Aside, Computes, Typed
    <2> QED BY <2>1, <2>2, KeptAside
  <1>6. ASSUME NEW e \in Epics, NEW t \in LegacyTexts, NEW s \in {"open", "odd"},
               AddLegacyItem(e, t, s)
        PROVE  Computes'
    <2>1. PICK d \in Files : Aside(d)
      BY <1>6, LegacyStep DEF Computes
    <2>2. Typed'
      BY <1>1, <1>6, <2>1 DEF AddLegacyItem, Aside, Computes, Typed
    <2> QED BY <2>1, <2>2, KeptAside
  <1>7. ASSUME NEW i \in Nat, DeleteItem(i)
        PROVE  Computes'
    <2>1. PICK d \in Files : Aside(d)
      BY <1>7, DeleteStep DEF Computes
    <2>2. i \in 1..Len(file.items) /\ file.items \in Seq(Items)
      BY <1>7, DeleteStep, FileOK DEF Computes, Typed
    <2>3. file.items[i].id \in Ids
      <3>1. file.items[i] \in Items
        BY <2>2
      <3> QED BY <3>1 DEF Items
    <2>4. acked' \subseteq Ids /\ deleted' \subseteq Ids
      BY <1>7, <2>3 DEF DeleteItem, Computes, Typed
    <2>5. Typed'
      BY <1>1, <1>7, <2>1, <2>4 DEF DeleteItem, Aside, Computes, Typed
    <2> QED BY <2>1, <2>5, KeptAside
  <1>8. ASSUME NEW f \in {NoFile, Malformed}, Spoil(f)
        PROVE  Computes'
    <2>1. PICK d \in Files : Aside(d)
      BY <1>8, SpoilStep DEF Computes
    <2>2. OldItems(file) \in Seq(Items)
      BY FileOK DEF Computes, Typed
    <2>3. \A i \in DOMAIN OldItems(file) : OldItems(file)[i].id \in Ids
      <3>1. \A i \in DOMAIN OldItems(file) : OldItems(file)[i] \in Items
        BY <2>2
      <3> QED BY <3>1 DEF Items
    <2>4. acked' \subseteq Ids /\ deleted' \subseteq Ids
      BY <1>8, <2>3 DEF Spoil, Computes, Typed
    <2>5. Typed'
      BY <1>1, <1>8, <2>1, <2>4 DEF Spoil, Aside, Computes, Typed
    <2> QED BY <2>1, <2>5, KeptAside
  <1>9. \A i \in 1..(MaxEdits + MaxCommands * 2) : i \in Nat
    OBVIOUS
  <1> QED BY <1>2, <1>3, <1>4, <1>5, <1>6, <1>7, <1>8, <1>9 DEF Edit

LEMMA StepKeeps ==
    ASSUME Computes, NEW p \in Procs, Step(p)
    PROVE  Computes' /\ Becomes(p, proc'[p]) /\ proc'[p] \in Local
  <1>1. Becomes(p, proc'[p]) /\ Carries(proc'[p]) /\ Typed'
    <2>1. CASE \E c \in Inputs : BeginGenerate(p, c) \/ BeginUpdate(p, c)
      BY <2>1, BeginGenerateStep, BeginUpdateStep
    <2>2. CASE Build(p)
      BY <2>2, BuildStep
    <2>3. CASE LoadDocument(p)
      BY <2>3, LoadStep
    <2>4. CASE Write(p, FALSE) \/ Write(p, TRUE)
      BY <2>4, WriteStep
    <2>5. CASE Stops(p)
      BY <2>5, StopStep
    <2>6. CASE Restore(p)
      BY <2>6, RestoreStep
    <2> QED BY <2>1, <2>2, <2>3, <2>4, <2>5, <2>6 DEF Step, Stops
  <1>2. proc'[p] \in Local
    BY <1>1 DEF Becomes
  <1> QED BY <1>1, <1>2, Kept

LEMMA StutterKeeps ==
    ASSUME Computes, UNCHANGED vars
    PROVE  Computes'
  <1>1. ASSUME NEW q
        PROVE  Carries(q)' <=> Carries(q')
    BY DEF Carries
  <1> QED BY DEF vars, Computes, Typed

LEMMA InitComputes == Init => Computes
  <1> SUFFICES ASSUME Init PROVE Computes
    OBVIOUS
  <1>1. plan \in SUBSET StoryKeys /\ disk = {} /\ proc = [p \in Procs |-> Idle]
    BY DEF Init
  <1>2. file \in Files
    <2>1. CASE file = NoFile
      BY <2>1 DEF Files
    <2>2. CASE file # NoFile
      <3> DEFINE dev == BuildDev(Entries(plan), <<>>, {})
      <3>1. Entries(plan) \in SUBSET (Keys \ {OddKey})
        BY <1>1, EntriesOK
      <3>2. Settled(Entries(plan), dev, {})
        BY <3>1, BuiltIsSettled
      <3>3. \A k \in Entries(plan) : Legal(k.kind) \subseteq RawStatuses
        BY <3>1, ComputedIsLegal, LegalIsRaw
      <3>4. dev = [k \in DOMAIN dev |-> dev[k]]
        BY DEF BuildDev
      <3> HIDE DEF dev
      <3>5. dev \in Devs
        BY <3>1, <3>2, <3>3, <3>4, DevOK DEF Settled
      <3>6. file = [dev |-> dev, items |-> <<>>, whole |-> TRUE]
        BY <2>2 DEF Init, dev
      <3>7. <<>> \in Seq(Items)
        OBVIOUS
      <3> QED BY <3>5, <3>6, <3>7, DocOK DEF Files
    <2> QED BY <2>1, <2>2
  <1>3. Typed
    BY <1>1, <1>2, IdleOK DEF Init, Typed
  <1> QED BY <1>1, <1>3, IdleOK DEF Computes

(* Type correctness, and what a command has in hand at each of its steps:
   what it writes is computed from what it has seen, and nothing else. *)
THEOREM ComputesAlways == Spec => []Computes
  <1>1. Computes /\ [Next]_vars => Computes'
    BY StepKeeps, EditKeeps, StutterKeeps DEF Next
  <1> QED BY <1>1, InitComputes, PTL DEF Spec

-----------------------------------------------------------------------------
(* The number in an id is the place in the list, in every version of the file
   that may still be written, as long as nobody deletes an item. *)
Numbered(items) == \A i \in DOMAIN items : items[i].id # NoId => items[i].id[2] = i
AllNumbered ==
    deleted = {} =>
        /\ Numbered(OldItems(file))
        /\ \A p \in Procs : /\ Numbered(OldItems(proc[p].orig))
                            /\ Numbered(OldItems(proc[p].seen))

LEMMA StepLeaves ==
    ASSUME NEW p \in Procs, Step(p)
    PROVE  deleted' = deleted /\ plan' = plan /\ disk' = disk
  BY DEF Step, BeginGenerate, BeginUpdate, Build, LoadDocument, Write, WriteFails,
         Succeed, Reject, Restore, RestoreFails, Kill, Quiet

LEMMA NoItems ==
    /\ OldItems(NoFile) = <<>> /\ Numbered(<<>>)
    /\ OldItems(Idle.orig) = <<>> /\ OldItems(Idle.seen) = <<>>
  BY IdleOK DEF OldItems, Readable, Numbered

LEMMA OutNumbered ==
    ASSUME NEW q \in Local, Carries(q), q.pc \in {"write", "verify"},
           Numbered(OldItems(q.seen))
    PROVE  Numbered(q.out.items)
  <1>1. CASE q.cmd.op = "generate"
    BY <1>1 DEF Carries, Generated
  <1>2. CASE q.cmd.op # "generate"
    <2>1. q.seen \in Docs /\ q.out = Updated(q.seen, q.cmd) /\ q.cmd \in UpdateCmds
      BY <1>2, CmdOK DEF Carries, Revised, Cmds
    <2> DEFINE new == q.out.items
               old == q.seen.items
    <2>2. /\ q.out \in Docs /\ Len(new) = Len(old) + Len(q.cmd.adds)
          /\ \A i \in 1..Len(old) : new[i].id = old[i].id
          /\ \A i \in 1..Len(q.cmd.adds) : new[Len(old) + i]
                    = NewItem(q.cmd.epic, Len(old) + i, q.cmd.adds[i])
      <3> DEFINE u == Updated(q.seen, q.cmd)
      <3>1. /\ u \in Docs /\ Len(u.items) = Len(old) + Len(q.cmd.adds)
            /\ \A i \in 1..Len(old) : u.items[i].id = old[i].id
            /\ \A i \in 1..Len(q.cmd.adds) : u.items[Len(old) + i]
                    = NewItem(q.cmd.epic, Len(old) + i, q.cmd.adds[i])
        BY <2>1, UpdatedOK
      <3>2. q.out = u
        BY <2>1
      <3> HIDE DEF u
      <3> QED BY <3>1, <3>2
    <2>3. /\ OldItems(q.seen) = old /\ old \in Seq(Items) /\ new \in Seq(Items)
          /\ Len(q.cmd.adds) \in Nat
      BY <2>1, <2>2, DocOK DEF UpdateCmds
    <2> HIDE DEF new, old
    <2>4. ASSUME NEW i \in 1..Len(new), new[i].id # NoId
          PROVE  new[i].id[2] = i
      <3>1. CASE i <= Len(old)
        <4>1. i \in 1..Len(old) /\ i \in DOMAIN old
          BY <2>3, <3>1
        <4> QED BY <2>2, <2>3, <2>4, <4>1 DEF Numbered
      <3>2. CASE i > Len(old)
        <4>1. i - Len(old) \in 1..Len(q.cmd.adds) /\ Len(old) + (i - Len(old)) = i
          BY <2>2, <2>3, <3>2
        <4>2. new[i] = NewItem(q.cmd.epic, i, q.cmd.adds[i - Len(old)])
          BY <2>2, <4>1
        <4> QED BY <4>2 DEF NewItem
      <3> QED BY <2>3, <3>1, <3>2
    <2>5. DOMAIN new = 1..Len(new)
      BY <2>3
    <2> QED BY <2>4, <2>5 DEF Numbered, new
  <1> QED BY <1>1, <1>2

LEMMA StepNumbers ==
    ASSUME Computes, AllNumbered, NEW p \in Procs, Step(p)
    PROVE  AllNumbered'
  <1> SUFFICES ASSUME deleted' = {}
               PROVE  /\ Numbered(OldItems(file'))
                      /\ \A q \in Procs : /\ Numbered(OldItems(proc'[q].orig))
                                          /\ Numbered(OldItems(proc'[q].seen))
    BY DEF AllNumbered, Numbered, OldItems, Readable
  <1>1. /\ Numbered(OldItems(file))
        /\ \A q \in Procs : /\ Numbered(OldItems(proc[q].orig))
                            /\ Numbered(OldItems(proc[q].seen))
    BY StepLeaves DEF AllNumbered
  <1>2. \A q \in Procs : proc[q] \in Local
    BY DEF Computes, Typed
  <1>3. /\ Numbered(OldItems(file'))
        /\ Numbered(OldItems(proc'[p].orig)) /\ Numbered(OldItems(proc'[p].seen))
    <2> DEFINE Goal == /\ Numbered(OldItems(file')) /\ Numbered(OldItems(proc'[p].orig))
                       /\ Numbered(OldItems(proc'[p].seen))
    <2>1. ASSUME NEW c \in Inputs, BeginGenerate(p, c)
          PROVE  Goal
      <3>1. file' = file
        BY <2>1 DEF BeginGenerate
      <3> QED BY <1>1, <2>1, <3>1, BeginGenerateStep, NoItems
    <2>2. ASSUME NEW c \in Inputs, BeginUpdate(p, c)
          PROVE  Goal
      <3>1. file' = file
        BY <2>2 DEF BeginUpdate
      <3> QED BY <1>1, <2>2, <3>1, BeginUpdateStep, NoItems
    <2>3. CASE Build(p)
      BY <1>1, <2>3, BuildStep, NoItems
    <2>4. CASE LoadDocument(p)
      BY <1>1, <2>4, LoadStep, NoItems
    <2>5. CASE Write(p, FALSE) \/ Write(p, TRUE)
      <3>1. /\ file' \in Docs /\ file'.items = proc[p].out.items /\ proc[p].pc = "write"
            /\ proc'[p].seen = proc[p].seen /\ proc'[p].orig = proc[p].orig
        BY <2>5, WriteStep
      <3>2. Carries(proc[p])
        BY DEF Computes
      <3>3. Numbered(proc[p].out.items)
        BY <1>1, <1>2, <3>1, <3>2, OutNumbered
      <3> QED BY <1>1, <3>1, <3>3, DocOK
    <2>6. CASE Stops(p)
      BY <1>1, <2>6, StopStep, NoItems
    <2>7. CASE Restore(p)
      BY <1>1, <2>7, RestoreStep, NoItems
    <2> QED BY <2>1, <2>2, <2>3, <2>4, <2>5, <2>6, <2>7 DEF Step, Stops
  <1>4. ASSUME NEW q \in Procs \ {p}
        PROVE  /\ Numbered(OldItems(proc'[q].orig))
               /\ Numbered(OldItems(proc'[q].seen))
    <2>1. proc'[q] \in Local /\ Undone(proc'[q]) = Undone(proc[q])
      BY StepKeeps DEF Becomes, Beside
    <2> QED BY <1>1, <1>2, <2>1, UndoneOK
  <1> QED BY <1>3, <1>4

LEMMA AsideSame ==
    ASSUME Typed, NEW f, Aside(f), NEW q \in Procs
    PROVE  /\ proc'[q].pc = proc[q].pc /\ proc'[q].cmd = proc[q].cmd
           /\ proc'[q].orig = proc[q].orig /\ proc'[q].seen = proc[q].seen
           /\ proc'[q].out = proc[q].out
           /\ proc'[q].disturbed = (proc[q].disturbed \/ file' # file)
  <1>1. proc[q] \in Local /\ proc'[q] \in Local /\ Beside(q)
    BY DEF Typed, Aside
  <1> QED BY <1>1, UndoneOK DEF Beside

LEMMA EditNumbers ==
    ASSUME Computes, AllNumbered, Edit
    PROVE  AllNumbered'
  <1> SUFFICES ASSUME deleted' = {}
               PROVE  /\ Numbered(OldItems(file'))
                      /\ \A q \in Procs : /\ Numbered(OldItems(proc'[q].orig))
                                          /\ Numbered(OldItems(proc'[q].seen))
    BY DEF AllNumbered, Numbered, OldItems, Readable
  <1>1. ASSUME deleted = {}, NEW d, Aside(d), Numbered(OldItems(d))
        PROVE  /\ Numbered(OldItems(file'))
               /\ \A q \in Procs : /\ Numbered(OldItems(proc'[q].orig))
                                   /\ Numbered(OldItems(proc'[q].seen))
    BY <1>1, AsideSame DEF AllNumbered, Computes, Aside
  <1> DEFINE Goal == /\ Numbered(OldItems(file'))
                     /\ \A q \in Procs : /\ Numbered(OldItems(proc'[q].orig))
                                         /\ Numbered(OldItems(proc'[q].seen))
  <1>2. ASSUME NEW h \in SUBSET StoryKeys, EditPlan(h)
        PROVE  Goal
    BY <1>2 DEF EditPlan, AllNumbered
  <1>3. ASSUME NEW k \in StoryKeys, WriteStory(k)
        PROVE  Goal
    BY <1>3 DEF WriteStory, AllNumbered
  <1>4. ASSUME NEW k \in StoryKeys, NEW t \in {"in-progress", "review"}, SyncStatus(k, t)
        PROVE  Goal
    <2>1. deleted = {}
      BY <1>4 DEF SyncStatus
    <2> QED BY <1>1, <1>4, <2>1, SyncStep DEF Computes, AllNumbered
  <1>5. ASSUME NEW k \in Keys, NEW s \in HandStatuses, EditStatus(k, s)
        PROVE  Goal
    <2>1. deleted = {}
      BY <1>5 DEF EditStatus
    <2> QED BY <1>1, <1>5, <2>1, HandStep DEF Computes, AllNumbered
  <1>6. ASSUME NEW e \in Epics, NEW t \in LegacyTexts, NEW s \in {"open", "odd"},
               AddLegacyItem(e, t, s)
        PROVE  Goal
    <2> DEFINE i == [id |-> NoId, epic |-> e, text |-> t, status |-> s]
    <2>1. deleted = {}
      BY <1>6 DEF AddLegacyItem
    <2>2. OldItems(file) \in Seq(Items) /\ Numbered(OldItems(file)) /\ i.id = NoId
      BY <2>1, FileOK DEF Computes, Typed, AllNumbered
    <2>3. PICK d \in Files : Aside(d) /\ OldItems(d) = Append(OldItems(file), i)
      BY <1>6, LegacyStep DEF Computes
    <2> HIDE DEF i
    <2>4. Numbered(Append(OldItems(file), i))
      BY <2>2 DEF Numbered
    <2> QED BY <1>1, <2>1, <2>3, <2>4
  <1>7. ASSUME NEW i \in Nat, DeleteItem(i)
        PROVE  Goal
    BY <1>7 DEF DeleteItem
  <1>8. ASSUME NEW f \in {NoFile, Malformed}, Spoil(f)
        PROVE  Goal
    <2>1. deleted = {}
      BY <1>8 DEF Spoil
    <2> QED BY <1>1, <1>8, <2>1, SpoilStep, NoItems DEF Computes
  <1>9. \A i \in 1..(MaxEdits + MaxCommands * 2) : i \in Nat
    OBVIOUS
  <1> QED BY <1>2, <1>3, <1>4, <1>5, <1>6, <1>7, <1>8, <1>9 DEF Edit

(* Item ids are unique until somebody deletes an item. *)
THEOREM UniqueIdsAlways == Spec => []UniqueIds
  <1>1. Init => AllNumbered
    <2> SUFFICES ASSUME Init PROVE AllNumbered
      OBVIOUS
    <2>1. OldItems(file) = <<>>
      BY NoItems DEF Init, OldItems
    <2>2. \A p \in Procs : proc[p] = Idle
      BY DEF Init
    <2> QED BY <2>1, <2>2, NoItems DEF AllNumbered
  <1>2. Computes /\ AllNumbered /\ [Next]_vars => AllNumbered'
    <2>1. ASSUME AllNumbered, UNCHANGED vars
          PROVE  AllNumbered'
      BY <2>1 DEF vars, AllNumbered, Numbered, OldItems, Readable
    <2> QED BY <2>1, StepNumbers, EditNumbers DEF Next
  <1>3. Computes /\ AllNumbered => UniqueIds
    <2> SUFFICES ASSUME Computes, AllNumbered, deleted = {},
                        NEW i \in DOMAIN OldItems(file), NEW j \in DOMAIN OldItems(file),
                        file.items[i].id = file.items[j].id, file.items[i].id # NoId
                 PROVE  i = j
      BY DEF UniqueIds
    <2>1. OldItems(file) = file.items
      <3>1. Readable(file)
        BY DEF OldItems
      <3> QED BY <3>1 DEF OldItems
    <2> QED BY <2>1 DEF AllNumbered, Numbered
  <1> QED BY <1>1, <1>2, <1>3, ComputesAlways, PTL DEF Spec

-----------------------------------------------------------------------------
(* What an update has added, or is about to report as added, is in the file;
   and it is in the bytes that any other command would put back, unless that
   command is one the file has changed under. *)
IdsOf(f)      == {OldItems(f)[i].id : i \in DOMAIN OldItems(f)}
Owed(q, gone) == {id \in AddedIds(q.seen, q.cmd) \ gone :
                    q.pc = "verify" /\ q.cmd.op = "update"}
Held(q)       == q.pc \in {"load", "write", "verify", "restore"} /\ ~q.disturbed

AllKept ==
    ~overtaken =>
        /\ acked \subseteq IdsOf(file)
        /\ \A p \in Procs : Owed(proc[p], deleted) \subseteq IdsOf(file)
        /\ \A q \in Procs : Held(proc[q]) =>
                /\ acked \subseteq IdsOf(proc[q].orig)
                /\ \A p \in Procs \ {q} :
                        Owed(proc[p], deleted) \subseteq IdsOf(proc[q].orig)

LEMMA OwedSame ==
    ASSUME NEW q, NEW r, r.pc = q.pc, r.cmd = q.cmd, r.seen = q.seen, NEW gone
    PROVE  Owed(r, gone) = Owed(q, gone)
  BY DEF Owed

LEMMA OwesNothing ==
    ASSUME NEW q, q.pc # "verify", NEW gone
    PROVE  Owed(q, gone) = {}
  BY DEF Owed

(* The ids that an update leaves in the document: the old ones and its own. *)
LEMMA OutIds ==
    ASSUME NEW q \in Local, Carries(q), q.pc \in {"write", "verify"}
    PROVE  /\ IdsOf(q.seen) \subseteq IdsOf(q.out)
           /\ q.cmd.op = "update" =>
                /\ AddedIds(q.seen, q.cmd) \subseteq IdsOf(q.out)
                /\ AddedIds(q.seen, q.cmd) # {} => Len(q.out.items) # Len(OldItems(q.seen))
  <1>1. CASE q.cmd.op = "generate"
    <2>1. OldItems(q.out) = OldItems(q.seen)
      BY <1>1, DocOK DEF Carries, Generated
    <2> QED BY <1>1, <2>1 DEF IdsOf
  <1>2. CASE q.cmd.op # "generate"
    <2>1. q.seen \in Docs /\ q.out = Updated(q.seen, q.cmd) /\ q.cmd \in UpdateCmds
      BY <1>2, CmdOK DEF Carries, Revised, Cmds
    <2> DEFINE new == q.out.items
               old == q.seen.items
    <2>2. /\ q.out \in Docs /\ Len(new) = Len(old) + Len(q.cmd.adds)
          /\ \A i \in 1..Len(old) : new[i].id = old[i].id
          /\ \A i \in 1..Len(q.cmd.adds) : new[Len(old) + i]
                    = NewItem(q.cmd.epic, Len(old) + i, q.cmd.adds[i])
      <3> DEFINE u == Updated(q.seen, q.cmd)
      <3>1. /\ u \in Docs /\ Len(u.items) = Len(old) + Len(q.cmd.adds)
            /\ \A i \in 1..Len(old) : u.items[i].id = old[i].id
            /\ \A i \in 1..Len(q.cmd.adds) : u.items[Len(old) + i]
                    = NewItem(q.cmd.epic, Len(old) + i, q.cmd.adds[i])
        BY <2>1, UpdatedOK
      <3>2. q.out = u
        BY <2>1
      <3> HIDE DEF u
      <3> QED BY <3>1, <3>2
    <2>3. /\ OldItems(q.seen) = old /\ OldItems(q.out) = new
          /\ old \in Seq(Items) /\ new \in Seq(Items)
          /\ q.cmd.adds \in Seq(Texts)
      BY <2>1, <2>2, DocOK DEF UpdateCmds
    <2> HIDE DEF new, old
    <2>4. /\ DOMAIN old = 1..Len(old) /\ DOMAIN new = 1..Len(new)
          /\ DOMAIN q.cmd.adds = 1..Len(q.cmd.adds)
          /\ Len(old) \in Nat /\ Len(q.cmd.adds) \in Nat
      BY <2>3
    <2>5. \A i \in DOMAIN old : i \in DOMAIN new /\ new[i].id = old[i].id
      BY <2>2, <2>4
    <2>6. ASSUME NEW i \in DOMAIN q.cmd.adds
          PROVE  /\ Len(old) + i \in DOMAIN new
                 /\ new[Len(old) + i].id = <<q.cmd.epic, Len(old) + i, q.cmd.adds[i]>>
      <3>1. new[Len(old) + i] = NewItem(q.cmd.epic, Len(old) + i, q.cmd.adds[i])
        BY <2>2, <2>4
      <3>2. Len(old) + i \in DOMAIN new
        BY <2>2, <2>4
      <3> QED BY <3>1, <3>2 DEF NewItem
    <2>7. IdsOf(q.seen) \subseteq IdsOf(q.out)
      BY <2>3, <2>5 DEF IdsOf
    <2>8. AddedIds(q.seen, q.cmd) =
                {<<q.cmd.epic, Len(old) + i, q.cmd.adds[i]>> : i \in DOMAIN q.cmd.adds}
      BY DEF AddedIds, old
    <2>9. AddedIds(q.seen, q.cmd) \subseteq IdsOf(q.out)
      BY <2>3, <2>6, <2>8 DEF IdsOf
    <2>10. AddedIds(q.seen, q.cmd) # {} => Len(new) # Len(old)
      <3>1. ASSUME AddedIds(q.seen, q.cmd) # {}
            PROVE  Len(q.cmd.adds) > 0
        <4>1. DOMAIN q.cmd.adds # {}
          BY <2>8, <3>1
        <4> QED BY <2>4, <4>1
      <3>2. Len(new) = Len(old) + Len(q.cmd.adds)
        BY <2>2
      <3>3. Len(old) \in Nat /\ Len(q.cmd.adds) \in Nat
        BY <2>4
      <3> QED BY <3>1, <3>2, <3>3
    <2> QED BY <2>3, <2>7, <2>9, <2>10 DEF new
  <1> QED BY <1>1, <1>2

LEMMA BesideSame ==
    ASSUME Typed, NEW p \in Procs, NEW next, Becomes(p, next), NEW q \in Procs \ {p}
    PROVE  /\ proc'[q].pc = proc[q].pc /\ proc'[q].cmd = proc[q].cmd
           /\ proc'[q].orig = proc[q].orig /\ proc'[q].seen = proc[q].seen
           /\ proc'[q].out = proc[q].out
           /\ proc'[q].disturbed = (proc[q].disturbed \/ file' # file)
           /\ Owed(proc'[q], deleted) = Owed(proc[q], deleted)
           /\ Held(proc'[q]) => Held(proc[q]) /\ file' = file
  <1>1. proc[q] \in Local /\ proc'[q] \in Local /\ Beside(q)
    BY DEF Typed, Becomes
  <1>2. /\ proc'[q].pc = proc[q].pc /\ proc'[q].cmd = proc[q].cmd
        /\ proc'[q].orig = proc[q].orig /\ proc'[q].seen = proc[q].seen
        /\ proc'[q].out = proc[q].out
        /\ proc'[q].disturbed = (proc[q].disturbed \/ file' # file)
    BY <1>1, UndoneOK DEF Beside
  <1> QED BY <1>2, OwedSame DEF Held

(* The four things a step of p has to show. *)
LEMMA KeptOn ==
    ASSUME Computes, NEW p \in Procs, Step(p),
           acked' \subseteq IdsOf(file'), Owed(proc'[p], deleted) \subseteq IdsOf(file'),
           \A q \in Procs \ {p} : Owed(proc[q], deleted) \subseteq IdsOf(file'),
           Held(proc'[p]) =>
                /\ acked' \subseteq IdsOf(proc'[p].orig)
                /\ \A q \in Procs \ {p} :
                        Owed(proc[q], deleted) \subseteq IdsOf(proc'[p].orig),
           \A q \in Procs \ {p} : Held(proc'[q]) =>
                /\ acked' \subseteq IdsOf(proc[q].orig)
                /\ Owed(proc'[p], deleted) \subseteq IdsOf(proc[q].orig)
                /\ \A r \in Procs \ {p, q} :
                        Owed(proc[r], deleted) \subseteq IdsOf(proc[q].orig)
    PROVE  AllKept'
  <1>1. deleted' = deleted /\ Becomes(p, proc'[p]) /\ Typed
    BY StepLeaves, StepKeeps DEF Computes
  <1>2. \A q \in Procs \ {p} : /\ Owed(proc'[q], deleted) = Owed(proc[q], deleted)
                               /\ proc'[q].orig = proc[q].orig
    BY <1>1, BesideSame
  <1>3. \A q \in Procs : Owed(proc'[q], deleted') \subseteq IdsOf(file')
    BY <1>1, <1>2
  <1>4. ASSUME NEW q \in Procs, Held(proc'[q])
        PROVE  /\ acked' \subseteq IdsOf(proc'[q].orig)
               /\ \A r \in Procs \ {q} :
                        Owed(proc'[r], deleted') \subseteq IdsOf(proc'[q].orig)
    <2>1. CASE q = p
      BY <1>1, <1>2, <1>4, <2>1
    <2>2. CASE q # p
      BY <1>1, <1>2, <1>4, <2>2
    <2> QED BY <2>1, <2>2
  <1>5. (/\ acked' \subseteq IdsOf(file')
         /\ \A q \in Procs : Owed(proc'[q], deleted') \subseteq IdsOf(file')
         /\ \A q \in Procs : Held(proc'[q]) =>
                /\ acked' \subseteq IdsOf(proc'[q].orig)
                /\ \A r \in Procs \ {q} :
                        Owed(proc'[r], deleted') \subseteq IdsOf(proc'[q].orig))
        => AllKept'
    BY DEF AllKept, IdsOf, OldItems, Readable, Owed, AddedIds, Held
  <1> QED BY <1>3, <1>4, <1>5

LEMMA StepOvertakes ==
    ASSUME Computes, NEW p \in Procs, Step(p), ~overtaken'
    PROVE  /\ ~overtaken
           /\ Write(p, FALSE) \/ Write(p, TRUE) => file = proc[p].seen
           /\ Restore(p) => ~proc[p].disturbed
  <1>1. ASSUME NEW c \in Inputs, BeginGenerate(p, c) \/ BeginUpdate(p, c)
        PROVE  ~overtaken
    BY <1>1 DEF BeginGenerate, BeginUpdate, Quiet
  <1>2. ASSUME Build(p) \/ LoadDocument(p) \/ Stops(p)
        PROVE  ~overtaken
    <2>1. Stops(p) => overtaken' = overtaken
      BY StopStep
    <2>2. Build(p) \/ LoadDocument(p) => overtaken' = overtaken
      BY DEF Build, LoadDocument, Quiet
    <2>3. overtaken' = overtaken
      BY <1>2, <2>1, <2>2, Zenon
    <2> QED BY <2>3, Zenon
  <1>3. (Write(p, FALSE) \/ Write(p, TRUE)) => ~overtaken /\ file = proc[p].seen
    BY DEF Write
  <1>4. Restore(p) => ~overtaken /\ ~proc[p].disturbed
    BY DEF Restore
  <1>5. ~overtaken
    BY <1>1, <1>2, <1>3, <1>4 DEF Step, Stops
  <1> QED BY <1>3, <1>4, <1>5

(* A step that leaves the file and the acknowledged ids alone. *)
LEMMA StillKept ==
    ASSUME Computes, AllKept, ~overtaken, NEW p \in Procs, Step(p), file' = file,
           acked' = acked \/ acked' = acked \union Owed(proc[p], deleted),
           proc'[p].pc # "verify",
           Held(proc'[p]) =>
                /\ acked' = acked
                /\ proc'[p].orig = file
                    \/ (proc'[p].orig = proc[p].orig /\ Held(proc[p]))
    PROVE  AllKept'
  <1>1. /\ acked \subseteq IdsOf(file)
        /\ \A q \in Procs : Owed(proc[q], deleted) \subseteq IdsOf(file)
        /\ \A q \in Procs : Held(proc[q]) =>
                /\ acked \subseteq IdsOf(proc[q].orig)
                /\ \A r \in Procs \ {q} :
                        Owed(proc[r], deleted) \subseteq IdsOf(proc[q].orig)
    BY DEF AllKept
  <1>2. acked' \subseteq IdsOf(file') /\ Owed(proc'[p], deleted) = {}
    BY <1>1, OwesNothing
  <1>3. \A q \in Procs \ {p} : Held(proc'[q]) => Held(proc[q])
    BY StepKeeps, BesideSame DEF Computes
  <1>4. Held(proc'[p]) =>
                /\ acked' \subseteq IdsOf(proc'[p].orig)
                /\ \A q \in Procs \ {p} :
                        Owed(proc[q], deleted) \subseteq IdsOf(proc'[p].orig)
    BY <1>1
  <1>5. \A q \in Procs \ {p} : Held(proc'[q]) =>
                /\ acked' \subseteq IdsOf(proc[q].orig)
                /\ Owed(proc'[p], deleted) \subseteq IdsOf(proc[q].orig)
                /\ \A r \in Procs \ {p, q} :
                        Owed(proc[r], deleted) \subseteq IdsOf(proc[q].orig)
    BY <1>1, <1>2, <1>3
  <1>6. \A q \in Procs \ {p} : Owed(proc[q], deleted) \subseteq IdsOf(file')
    BY <1>1
  <1> QED BY <1>2, <1>4, <1>5, <1>6, KeptOn

LEMMA WriteKeeps ==
    ASSUME Computes, AllKept, ~overtaken, NEW p \in Procs, NEW lossy \in BOOLEAN,
           Write(p, lossy), Step(p), file = proc[p].seen
    PROVE  AllKept'
  <1> DEFINE q == proc[p]
  <1>1. /\ acked \subseteq IdsOf(file)
        /\ \A r \in Procs : Owed(proc[r], deleted) \subseteq IdsOf(file)
        /\ \A r \in Procs : Held(proc[r]) =>
                /\ acked \subseteq IdsOf(proc[r].orig)
                /\ \A s \in Procs \ {r} :
                        Owed(proc[s], deleted) \subseteq IdsOf(proc[r].orig)
    BY DEF AllKept
  <1>2. /\ q.pc = "write" /\ q \in Local /\ Carries(q) /\ q.out \in Docs
        /\ file' \in Docs /\ file'.items = q.out.items
        /\ proc'[p].pc = "verify" /\ proc'[p].cmd = q.cmd /\ proc'[p].seen = q.seen
        /\ proc'[p].orig = q.orig /\ proc'[p].disturbed = q.disturbed
        /\ acked' = acked
    BY WriteStep DEF Computes, Typed, Write
  <1>3. /\ IdsOf(q.seen) \subseteq IdsOf(q.out)
        /\ q.cmd.op = "update" =>
             /\ AddedIds(q.seen, q.cmd) \subseteq IdsOf(q.out)
             /\ AddedIds(q.seen, q.cmd) # {} => Len(q.out.items) # Len(OldItems(q.seen))
    BY <1>2, OutIds
  <1>4. IdsOf(file') = IdsOf(q.out) /\ OldItems(file') = q.out.items
    <2>1. OldItems(q.out) = q.out.items
      BY <1>2, DocOK
    <2>2. OldItems(file') = file'.items
      BY <1>2, DocOK
    <2>3. OldItems(file') = OldItems(q.out)
      BY <1>2, <2>1, <2>2
    <2> HIDE DEF q
    <2> QED BY <2>1, <2>3 DEF IdsOf
  <1>5. /\ acked' \subseteq IdsOf(file')
        /\ \A r \in Procs \ {p} : Owed(proc[r], deleted) \subseteq IdsOf(file')
    BY <1>1, <1>2, <1>3, <1>4
  <1>6. /\ Owed(proc'[p], deleted) \subseteq IdsOf(file')
        /\ file' = file => Owed(proc'[p], deleted) = {}
    BY <1>2, <1>3, <1>4 DEF Owed
  <1>7. Held(proc'[p]) =>
                /\ acked' \subseteq IdsOf(proc'[p].orig)
                /\ \A r \in Procs \ {p} :
                        Owed(proc[r], deleted) \subseteq IdsOf(proc'[p].orig)
    BY <1>1, <1>2 DEF Held
  <1>8. \A r \in Procs \ {p} : Held(proc'[r]) => Held(proc[r]) /\ file' = file
    BY StepKeeps, BesideSame DEF Computes
  <1>9. \A r \in Procs \ {p} : Held(proc'[r]) =>
                /\ acked' \subseteq IdsOf(proc[r].orig)
                /\ Owed(proc'[p], deleted) \subseteq IdsOf(proc[r].orig)
                /\ \A s \in Procs \ {p, r} :
                        Owed(proc[s], deleted) \subseteq IdsOf(proc[r].orig)
    BY <1>1, <1>2, <1>6, <1>8
  <1> QED BY <1>5, <1>6, <1>7, <1>9, KeptOn

LEMMA RestoreKeeps ==
    ASSUME Computes, AllKept, ~overtaken, NEW p \in Procs, Restore(p), Step(p),
           ~proc[p].disturbed
    PROVE  AllKept'
  <1>1. /\ acked \subseteq IdsOf(file)
        /\ \A r \in Procs : Owed(proc[r], deleted) \subseteq IdsOf(file)
        /\ \A r \in Procs : Held(proc[r]) =>
                /\ acked \subseteq IdsOf(proc[r].orig)
                /\ \A s \in Procs \ {r} :
                        Owed(proc[s], deleted) \subseteq IdsOf(proc[r].orig)
    BY DEF AllKept
  <1>2. /\ proc[p].pc = "restore" /\ proc'[p] = Idle /\ file' = proc[p].orig
        /\ acked' = acked
    BY RestoreStep DEF Restore
  <1>3. Held(proc[p]) /\ ~Held(proc'[p]) /\ Owed(proc'[p], deleted) = {}
    BY <1>2, IdleOK, OwesNothing DEF Held
  <1>4. \A r \in Procs \ {p} : Held(proc'[r]) => Held(proc[r])
    BY StepKeeps, BesideSame DEF Computes
  <1> QED BY <1>1, <1>2, <1>3, <1>4, KeptOn

LEMMA StepKeepsAll ==
    ASSUME Computes, AllKept, NEW p \in Procs, Step(p)
    PROVE  AllKept'
  <1> SUFFICES ASSUME ~overtaken' PROVE AllKept'
    BY DEF AllKept
  <1>1. /\ ~overtaken
        /\ Write(p, FALSE) \/ Write(p, TRUE) => file = proc[p].seen
        /\ Restore(p) => ~proc[p].disturbed
    BY StepOvertakes
  <1>2. ASSUME NEW c \in Inputs, BeginGenerate(p, c)
        PROVE  AllKept'
    <2>1. file' = file /\ acked' = acked
      BY <1>2 DEF BeginGenerate
    <2>2. proc'[p].pc = "build"
      BY <1>2, BeginGenerateStep
    <2> QED BY <1>1, <2>1, <2>2, StillKept DEF Held
  <1>3. ASSUME NEW c \in Inputs, BeginUpdate(p, c)
        PROVE  AllKept'
    <2>1. file' = file /\ acked' = acked
      BY <1>3 DEF BeginUpdate
    <2>2. proc'[p].pc = "load" /\ proc'[p].orig = file
      BY <1>3, BeginUpdateStep
    <2> QED BY <1>1, <2>1, <2>2, StillKept DEF Held
  <1>4. CASE Build(p)
    <2>1. file' = file /\ acked' = acked
      BY <1>4 DEF Build
    <2>2. \/ proc'[p].pc = "idle"
          \/ proc'[p].pc = "write" /\ proc'[p].orig = file
      BY <1>4, BuildStep, IdleOK
    <2> QED BY <1>1, <2>1, <2>2, StillKept DEF Held
  <1>5. CASE LoadDocument(p)
    <2>1. file' = file /\ acked' = acked
      BY <1>5 DEF LoadDocument
    <2>2. \/ proc'[p].pc = "idle"
          \/ /\ proc'[p].pc = "write" /\ proc'[p].orig = proc[p].orig
             /\ proc[p].pc = "load" /\ proc'[p].disturbed = proc[p].disturbed
      BY <1>5, LoadStep, IdleOK DEF LoadDocument, At
    <2> QED BY <1>1, <2>1, <2>2, StillKept DEF Held
  <1>6. CASE Write(p, FALSE) \/ Write(p, TRUE)
    BY <1>1, <1>6, WriteKeeps
  <1>7. CASE Stops(p)
    <2>1. /\ file' = file
          /\ \/ proc'[p] = Idle
             \/ /\ proc'[p].pc = "restore" /\ proc'[p].orig = proc[p].orig
                /\ proc'[p].disturbed = proc[p].disturbed
                /\ proc[p].pc \in {"write", "verify"}
          /\ \/ acked' = acked
             \/ /\ proc[p].pc = "verify" /\ proc[p].cmd \in UpdateCmds /\ Succeed(p)
                /\ acked' = acked
                        \union (AddedIds(proc[p].seen, proc[p].cmd) \ deleted)
      BY <1>7, StopStep
    <2>2. Succeed(p) => proc'[p] = Idle
      BY DEF Succeed, End, Computes, Typed
    <2>3. proc'[p].pc # "verify" /\ (proc'[p] = Idle => ~Held(proc'[p]))
      BY <2>1, IdleOK DEF Held
    <2>4. acked' = acked \/ acked' = acked \union Owed(proc[p], deleted)
      BY <2>1, CmdOK DEF Owed, Cmds
    <2>5. Held(proc'[p]) =>
                /\ acked' = acked
                /\ proc'[p].orig = file
                    \/ (proc'[p].orig = proc[p].orig /\ Held(proc[p]))
      BY <2>1, <2>2, <2>3 DEF Held
    <2> QED BY <1>1, <2>1, <2>3, <2>4, <2>5, StillKept
  <1>8. CASE Restore(p)
    BY <1>1, <1>8, RestoreKeeps
  <1> QED BY <1>2, <1>3, <1>4, <1>5, <1>6, <1>7, <1>8 DEF Step, Stops

(* The edits take nothing out of the file that is not taken out of the books. *)
LEMMA KeptAsideAll ==
    ASSUME Computes, AllKept, ~overtaken, NEW d, Aside(d),
           acked' \subseteq acked, acked' \subseteq IdsOf(file'), deleted \subseteq deleted',
           \A p \in Procs : Owed(proc[p], deleted') \subseteq IdsOf(file')
    PROVE  AllKept'
  <1>1. \A q \in Procs : /\ Held(proc'[q]) => Held(proc[q])
                         /\ proc'[q].orig = proc[q].orig
                         /\ Owed(proc'[q], deleted') = Owed(proc[q], deleted')
                         /\ Owed(proc[q], deleted') \subseteq Owed(proc[q], deleted)
    <2>1. ASSUME NEW q \in Procs
          PROVE  /\ proc'[q].pc = proc[q].pc /\ proc'[q].cmd = proc[q].cmd
                 /\ proc'[q].orig = proc[q].orig /\ proc'[q].seen = proc[q].seen
                 /\ proc'[q].disturbed = (proc[q].disturbed \/ file' # file)
      BY AsideSame DEF Computes
    <2>2. \A q : Owed(q, deleted') \subseteq Owed(q, deleted)
      BY DEF Owed
    <2> QED BY <2>1, <2>2, OwedSame DEF Held
  <1>2. \A q \in Procs : Held(proc[q]) =>
                /\ acked \subseteq IdsOf(proc[q].orig)
                /\ \A p \in Procs \ {q} :
                        Owed(proc[p], deleted) \subseteq IdsOf(proc[q].orig)
    BY DEF AllKept
  <1>3. /\ \A q \in Procs : Owed(proc'[q], deleted') \subseteq IdsOf(file')
        /\ \A q \in Procs : Held(proc'[q]) =>
                /\ acked' \subseteq IdsOf(proc'[q].orig)
                /\ \A r \in Procs \ {q} :
                        Owed(proc'[r], deleted') \subseteq IdsOf(proc'[q].orig)
    BY <1>1, <1>2
  <1> QED BY <1>3 DEF AllKept, IdsOf, OldItems, Readable, Owed, AddedIds, Held

LEMMA SameFileKeeps ==
    ASSUME AllKept,
           UNCHANGED <<file, proc, acked, deleted, overtaken>>
    PROVE  AllKept'
  BY DEF AllKept, IdsOf, OldItems, Readable, Owed, AddedIds, Held

LEMMA EditKeepsAll ==
    ASSUME Computes, AllKept, Edit
    PROVE  AllKept'
  <1> SUFFICES ASSUME ~overtaken' PROVE AllKept'
    BY DEF AllKept
  <1>1. ~overtaken
    <2>1. Edited
      BY DEF Edit, EditPlan, WriteStory, SyncStatus, EditStatus, AddLegacyItem,
             DeleteItem, Spoil
    <2> QED BY <2>1 DEF Edited
  <1>2. /\ acked \subseteq IdsOf(file)
        /\ \A q \in Procs : Owed(proc[q], deleted) \subseteq IdsOf(file)
    BY <1>1 DEF AllKept
  <1>3. ASSUME NEW d, Aside(d), IdsOf(file) \subseteq IdsOf(d),
               acked' = acked, deleted' = deleted
        PROVE  AllKept'
    <2>1. file' = d
      BY <1>3 DEF Aside
    <2> QED BY <1>1, <1>2, <1>3, <2>1, KeptAsideAll
  <1>4. ASSUME NEW h \in SUBSET StoryKeys, EditPlan(h)
        PROVE  AllKept'
    BY <1>4, SameFileKeeps DEF EditPlan, Edited
  <1>5. ASSUME NEW k \in StoryKeys, WriteStory(k)
        PROVE  AllKept'
    BY <1>5, SameFileKeeps DEF WriteStory, Edited
  <1>6. ASSUME NEW k \in StoryKeys, NEW t \in {"in-progress", "review"}, SyncStatus(k, t)
        PROVE  AllKept'
    <2>1. PICK d \in Files : Aside(d) /\ OldItems(d) = OldItems(file)
      BY <1>6, SyncStep DEF Computes
    <2> QED BY <1>3, <1>6, <2>1 DEF SyncStatus, IdsOf
  <1>7. ASSUME NEW k \in Keys, NEW s \in HandStatuses, EditStatus(k, s)
        PROVE  AllKept'
    <2>1. PICK d \in Files : Aside(d) /\ OldItems(d) = OldItems(file)
      BY <1>7, HandStep DEF Computes
    <2> QED BY <1>3, <1>7, <2>1 DEF EditStatus, IdsOf
  <1>8. ASSUME NEW e \in Epics, NEW t \in LegacyTexts, NEW s \in {"open", "odd"},
               AddLegacyItem(e, t, s)
        PROVE  AllKept'
    <2> DEFINE i == [id |-> NoId, epic |-> e, text |-> t, status |-> s]
    <2>1. PICK d \in Files : Aside(d) /\ OldItems(d) = Append(OldItems(file), i)
      BY <1>8, LegacyStep DEF Computes
    <2> HIDE DEF i
    <2>2. OldItems(file) \in Seq(Items)
      BY FileOK DEF Computes, Typed
    <2>3. \A j \in DOMAIN OldItems(file) :
                /\ j \in DOMAIN Append(OldItems(file), i)
                /\ Append(OldItems(file), i)[j] = OldItems(file)[j]
      BY <2>2
    <2>4. IdsOf(file) \subseteq IdsOf(d)
      BY <2>1, <2>3 DEF IdsOf
    <2> QED BY <1>3, <1>8, <2>1, <2>4 DEF AddLegacyItem
  <1>9. ASSUME NEW i \in Nat, DeleteItem(i)
        PROVE  AllKept'
    <2>1. /\ i \in 1..Len(OldItems(file)) /\ OldItems(file) = file.items
          /\ file.items \in Seq(Items)
      BY <1>9, DeleteStep, FileOK DEF Computes, Typed
    <2>2. PICK d \in Files : Aside(d) /\ OldItems(d) = RemoveAt(file.items, i)
      BY <1>9, DeleteStep DEF Computes
    <2>3. /\ acked' = acked \ {file.items[i].id}
          /\ deleted' = deleted \union {file.items[i].id}
      BY <1>9 DEF DeleteItem
    <2>4. ASSUME NEW j \in DOMAIN file.items, file.items[j].id # file.items[i].id
          PROVE  file.items[j].id \in IdsOf(d)
      <3> DEFINE r == RemoveAt(file.items, i)
      <3>1. /\ r \in Seq(Items) /\ Len(r) = Len(file.items) - 1
            /\ \A m \in 1..Len(file.items) : m < i => r[m] = file.items[m]
            /\ \A m \in 1..Len(file.items) : m > i => r[m - 1] = file.items[m]
        BY <2>1, RemovedOK
      <3>2. OldItems(d) = r
        BY <2>2
      <3> HIDE DEF r
      <3>3. j \in 1..Len(file.items) /\ j # i /\ Len(file.items) \in Nat
        BY <2>1, <2>4
      <3>4. \E m \in 1..Len(r) : r[m] = file.items[j]
        <4>1. CASE j < i
          BY <2>1, <3>1, <3>3, <4>1
        <4>2. CASE j > i
          <5>1. j - 1 \in 1..Len(r) /\ r[j - 1] = file.items[j]
            BY <2>1, <3>1, <3>3, <4>2
          <5> QED BY <5>1
        <4> QED BY <2>1, <3>3, <4>1, <4>2
      <3>5. DOMAIN r = 1..Len(r)
        BY <3>1
      <3>6. PICK m \in DOMAIN OldItems(d) : OldItems(d)[m] = file.items[j]
        BY <3>2, <3>4, <3>5
      <3> QED BY <3>6 DEF IdsOf
    <2>5. IdsOf(file) \ {file.items[i].id} \subseteq IdsOf(d)
      BY <2>1, <2>4 DEF IdsOf
    <2>6. file' = d
      BY <2>2 DEF Aside
    <2>7. acked' \subseteq IdsOf(file')
      BY <1>2, <2>3, <2>5, <2>6
    <2>8. ASSUME NEW p \in Procs
          PROVE  Owed(proc[p], deleted') \subseteq IdsOf(file')
      <3>1. Owed(proc[p], deleted') = Owed(proc[p], deleted) \ {file.items[i].id}
        BY <2>3 DEF Owed
      <3> QED BY <1>2, <2>5, <2>6, <3>1
    <2> QED BY <1>1, <2>2, <2>3, <2>7, <2>8, KeptAsideAll
  <1>10. ASSUME NEW f \in {NoFile, Malformed}, Spoil(f)
         PROVE  AllKept'
    <2>1. PICK d \in Files : Aside(d)
      BY <1>10, SpoilStep DEF Computes
    <2>2. acked' = {} /\ deleted' = deleted \union IdsOf(file)
      BY <1>10 DEF Spoil, IdsOf
    <2>3. ASSUME NEW p \in Procs
          PROVE  Owed(proc[p], deleted') = {}
      <3>1. Owed(proc[p], deleted') = Owed(proc[p], deleted) \ IdsOf(file)
        BY <2>2 DEF Owed
      <3> QED BY <1>2, <3>1
    <2> QED BY <1>1, <2>1, <2>2, <2>3, KeptAsideAll
  <1>11. \A i \in 1..(MaxEdits + MaxCommands * 2) : i \in Nat
    OBVIOUS
  <1> QED BY <1>4, <1>5, <1>6, <1>7, <1>8, <1>9, <1>10, <1>11 DEF Edit

(* Action-item carry-over: an item an update reported as added stays until
   someone deletes it, as long as no command replaces a version it has not
   read. *)
THEOREM AckedKeptAlways == Spec => []AckedKept
  <1>1. Init => AllKept
    <2> SUFFICES ASSUME Init PROVE AllKept
      OBVIOUS
    <2>1. acked = {} /\ \A p \in Procs : proc[p].pc = "idle"
      BY IdleOK DEF Init
    <2> QED BY <2>1, OwesNothing DEF AllKept, Held
  <1>2. Computes /\ AllKept /\ [Next]_vars => AllKept'
    BY StepKeepsAll, EditKeepsAll, SameFileKeeps DEF Next, vars
  <1>3. Computes /\ AllKept => AckedKept
    <2> SUFFICES ASSUME Computes, AllKept, ~overtaken, NEW id \in acked
                 PROVE  \E i \in DOMAIN OldItems(file) : file.items[i].id = id
      BY DEF AckedKept
    <2>1. PICK i \in DOMAIN OldItems(file) : OldItems(file)[i].id = id
      BY DEF AllKept, IdsOf
    <2>2. OldItems(file) = file.items
      <3>1. Readable(file)
        BY DEF OldItems
      <3> QED BY <3>1 DEF OldItems
    <2> QED BY <2>1, <2>2
  <1> QED BY <1>1, <1>2, <1>3, ComputesAlways, PTL DEF Spec

-----------------------------------------------------------------------------
(* A file that is clean is a fixed point of the merge. *)
CleanOK ==
    clean => /\ file \in Docs /\ Entries(plan) # {}
             /\ Settled(Entries(plan), file.dev, disk)

LEMMA VerifiedIsSettled ==
    ASSUME Computes, NEW p \in Procs, Succeed(p), Generates(p),
           proc[p].entries = Entries(plan), proc[p].found = disk, ~BelowDisk(p)
    PROVE  /\ file \in Docs /\ Entries(plan) # {}
           /\ Settled(Entries(plan), file.dev, disk)
  <1> DEFINE q == proc[p]
             old == IF q.cmd.fresh THEN <<>> ELSE Existing(q.seen)
             built == BuildDev(q.entries, old, disk)
             dev == ApplySets(built, q.cmd.sets)
  <1>1. /\ q \in Local /\ Carries(q) /\ q.pc = "verify" /\ q.cmd.op = "generate"
        /\ Readable(file) /\ file.dev = q.out.dev
    BY DEF Computes, Typed, Succeed, At, Verifies, GenerateVerifies, Generates
  <1>2. /\ q.cmd \in GenerateCmds /\ q.entries # {} /\ Generated(q)
    BY <1>1, CmdOK DEF Carries
  <1>3. file \in Docs
    BY <1>1, FileOK DEF Computes, Typed
  <1>4. q.entries \in SUBSET (Keys \ {OddKey}) /\ disk \in SUBSET StoryKeys
    BY <1>1 DEF Local, Computes, Typed
  <1>5. Settled(q.entries, built, disk)
    BY <1>4, BuiltIsSettled
  <1>6. file.dev = dev /\ SetFits(q.cmd.sets, q.entries)
    BY <1>1, <1>2 DEF Generated
  <1>7. \A i \in DOMAIN q.cmd.sets :
            LET s == q.cmd.sets[i]
            IN  Higher(s.key.kind, Computed(s.key, disk), s.status) = s.status
    BY DEF BelowDisk
  <1> HIDE DEF built
  <1>8. DOMAIN built = q.entries
    BY <1>5 DEF Settled
  <1>9. /\ DOMAIN dev = q.entries
        /\ \A k \in q.entries :
            \/ dev[k] = built[k]
            \/ \E i \in DOMAIN q.cmd.sets :
                /\ q.cmd.sets[i].key = k
                /\ q.cmd.sets[i].status \in Legal(k.kind)
                /\ dev[k] = q.cmd.sets[i].status
    BY <1>2, <1>6, <1>8, SetsApply
  <1> HIDE DEF dev
  <1>10. ASSUME NEW k \in q.entries
         PROVE  /\ dev[k] \in Legal(k.kind)
                /\ Higher(k.kind, Computed(k, disk), dev[k]) = dev[k]
    <2>1. CASE dev[k] = built[k]
      BY <1>5, <2>1 DEF Settled
    <2>2. CASE \E i \in DOMAIN q.cmd.sets :
                /\ q.cmd.sets[i].key = k
                /\ q.cmd.sets[i].status \in Legal(k.kind)
                /\ dev[k] = q.cmd.sets[i].status
      BY <1>7, <2>2
    <2> QED BY <1>9, <2>1, <2>2
  <1>11. Settled(q.entries, dev, disk)
    BY <1>9, <1>10 DEF Settled
  <1> QED BY <1>2, <1>3, <1>6, <1>11

LEMMA StepCleans ==
    ASSUME Computes, CleanOK, NEW p \in Procs, Step(p)
    PROVE  CleanOK'
  <1>1. CASE Succeed(p)
    <2>1. /\ file' = file /\ plan' = plan /\ disk' = disk
          /\ clean' => \/ clean
                       \/ /\ Generates(p) /\ proc[p].entries = Entries(plan)
                          /\ proc[p].found = disk /\ ~BelowDisk(p)
      BY <1>1 DEF Succeed, Quiet
    <2>2. clean' => /\ file \in Docs /\ Entries(plan) # {}
                    /\ Settled(Entries(plan), file.dev, disk)
      BY <1>1, <2>1, VerifiedIsSettled DEF CleanOK
    <2> QED BY <2>1, <2>2 DEF CleanOK, Settled, Entries, Computed
  <1>2. CASE ~Succeed(p)
    <2>1. \/ clean' = FALSE
          \/ clean' = clean /\ file' = file /\ plan' = plan /\ disk' = disk
      BY <1>2 DEF Step, BeginGenerate, BeginUpdate, Build, LoadDocument, Write,
                  WriteFails, Reject, Restore, RestoreFails, Kill, Quiet
    <2> QED BY <2>1 DEF CleanOK, Settled, Entries, Computed
  <1> QED BY <1>1, <1>2

LEMMA EditSoils ==
    ASSUME Edit
    PROVE  clean' = FALSE
  <1>1. Edited
    BY DEF Edit, EditPlan, WriteStory, SyncStatus, EditStatus, AddLegacyItem,
           DeleteItem, Spoil
  <1> QED BY <1>1 DEF Edited

LEMMA AlwaysClean == Spec => [](Computes /\ CleanOK)
  <1>1. Init => CleanOK
    BY DEF Init, CleanOK
  <1>2. Computes /\ CleanOK /\ [Next]_vars => CleanOK'
    <2>1. ASSUME CleanOK, UNCHANGED vars PROVE CleanOK'
      BY <2>1 DEF vars, CleanOK, Settled, Entries, Computed
    <2>2. ASSUME Edit PROVE CleanOK'
      BY <2>2, EditSoils DEF CleanOK
    <2> QED BY <2>1, <2>2, StepCleans DEF Next
  <1> QED BY <1>1, <1>2, ComputesAlways, PTL DEF Spec

(* After a generate, and until something is edited, the file is in line with
   the epics and the stories directory, whatever it held before: another
   generate has nothing to do and validate finds no fault with the statuses. *)
THEOREM CleanIsInSyncAlways == Spec => []CleanIsInSync
  <1>1. Computes /\ CleanOK => CleanIsInSync
    <2> SUFFICES ASSUME Computes, CleanOK, clean
                 PROVE  /\ Readable(file)
                        /\ InSync(Entries(plan), file.dev, disk)
                        /\ (\A i \in DOMAIN file.items : file.items[i].status # "odd")
                                => Valid(file)
      BY DEF CleanIsInSync
    <2>1. /\ file \in Docs /\ Entries(plan) # {}
          /\ Settled(Entries(plan), file.dev, disk)
      BY DEF CleanOK
    <2>2. /\ Entries(plan) \in SUBSET (Keys \ {OddKey}) /\ disk \in SUBSET StoryKeys
      BY EntriesOK DEF Computes, Typed
    <2>3. Readable(file)
      BY <2>1, DocOK
    <2>4. InSync(Entries(plan), file.dev, disk)
      BY <2>1, <2>2, SettledIsInSync
    <2>5. ASSUME NEW k \in DOMAIN file.dev
          PROVE  k.kind # "other" /\ Normalize(file.dev[k]) \in Legal(k.kind)
      <3>1. k \in Entries(plan) /\ file.dev[k] \in Legal(k.kind)
        BY <2>1 DEF Settled
      <3>2. k.kind \in Kinds
        BY <2>2, <3>1, ComputedIsLegal
      <3> QED BY <3>1, <3>2, Ranks DEF Kinds
    <2>6. file.dev # <<>>
      BY <2>1 DEF Settled
    <2>7. \A i \in DOMAIN file.items : file.items[i].status \in ActionStatuses \union {"odd"}
      <3>1. \A i \in DOMAIN file.items : file.items[i] \in Items
        BY <2>1, DocOK
      <3> QED BY <3>1 DEF Items
    <2> QED BY <2>3, <2>4, <2>5, <2>6, <2>7 DEF Valid
  <1> QED BY <1>1, AlwaysClean, PTL

(* The readers agree on a file in sync: the story the status view recommends is
   one that detect-epic counts as pending, and when the view says that no story
   is left, no epic has one pending. *)
THEOREM GateAgreesAlways == Spec => []GateAgrees
  <1>1. Computes /\ CleanOK => GateAgrees
    <2> SUFFICES ASSUME Computes, CleanOK, clean
                 PROVE  LET dev == file.dev IN
                    /\ NoRisk(dev)
                    /\ ~NothingLeft(dev) =>
                            \A k \in Recommended(dev) : k \in Pending(dev, k.epic)
                    /\ RetroAdvised(dev) => Pending(dev, RetroOf(dev)) = {}
                    /\ (RetroAdvised(dev) \/ AllDone(dev)) /\ WithDone(dev) # {} =>
                            Pending(dev, Detected(dev)) = {}
      BY DEF GateAgrees
    <2> DEFINE dev == file.dev
    <2>1. DOMAIN dev = Entries(plan) /\ \A k \in DOMAIN dev : dev[k] \in Legal(k.kind)
      BY DEF CleanOK, Settled
    <2>2. /\ plan \in SUBSET StoryKeys /\ Entries(plan) \in SUBSET (Keys \ {OddKey})
          /\ disk \in SUBSET StoryKeys
      BY EntriesOK DEF Computes, Typed
    <2> HIDE DEF dev
    <2>3. \A k \in DOMAIN dev : /\ k.kind \in Kinds /\ Normalize(dev[k]) = dev[k]
                                /\ dev[k] \in Legal(k.kind)
      BY <2>1, <2>2, ComputedIsLegal, Ranks
    <2>4. \A k \in DOMAIN dev : k.kind = "story" =>
                dev[k] \in {"backlog", "ready-for-dev", "in-progress", "review", "done"}
      BY <2>3, LegalStatuses
    <2>5. \A k \in DOMAIN dev : k.kind = "story" => k \in plan
      BY <2>1, <2>2 DEF Entries, EpicKey, RetroKey
    <2>6. \A k \in DOMAIN dev : k.kind = "epic" => \E s \in plan : k = EpicKey(s.epic)
      BY <2>1, <2>2 DEF Entries, EpicKey, RetroKey, StoryKeys
    <2>7. \A k \in plan : /\ k \in DOMAIN dev /\ EpicKey(k.epic) \in DOMAIN dev
                          /\ k.kind = "story"
      BY <2>1, <2>2 DEF Entries, StoryKeys
    <2>8. NoRisk(dev)
      <3>1. StoryEpics(dev) \subseteq LegalEpics(dev)
        <4>1. \A k \in plan : k.epic \in LegalEpics(dev)
          <5>1. \A k \in plan : /\ EpicKey(k.epic).kind = "epic"
                                /\ EpicKey(k.epic).epic = k.epic
                                /\ Normalize(dev[EpicKey(k.epic)]) \in Legal("epic")
            BY <2>3, <2>7 DEF EpicKey
          <5> QED BY <2>7, <5>1 DEF LegalEpics, EpicsWith
        <4>2. \A e \in StoryEpics(dev) : \E k \in plan : k.epic = e
          BY <2>5 DEF StoryEpics, LegalStories
        <4> QED BY <4>1, <4>2
      <3>2. EpicsWith(dev, LAMBDA s : s = "in-progress") \subseteq StoryEpics(dev)
        <4>1. \A e \in EpicsWith(dev, LAMBDA s : s = "in-progress") :
                    \E k \in plan : k.epic = e
          BY <2>6 DEF EpicsWith, EpicKey
        <4>2. ASSUME NEW k \in plan
              PROVE  k.epic \in StoryEpics(dev)
          <5>1. k \in LegalStories(dev, dev[k]) /\ dev[k] \in Legal("story")
            BY <2>3, <2>7 DEF LegalStories
          <5> QED BY <5>1 DEF StoryEpics
        <4> QED BY <4>1, <4>2
      <3>3. OddKey \notin DOMAIN dev
        BY <2>1, <2>2
      <3> QED BY <3>1, <3>2, <3>3 DEF NoRisk
    <2>9. DOMAIN NextStatuses = 1..4 /\ NextStatuses[1] = "in-progress"
          /\ NextStatuses[2] = "review" /\ NextStatuses[3] = "ready-for-dev"
          /\ NextStatuses[4] = "backlog"
      BY DEF NextStatuses
    <2>10. NothingLeft(dev) => \A e : Pending(dev, e) = {}
      <3> SUFFICES ASSUME NothingLeft(dev), NEW k \in DOMAIN dev, k.kind = "story",
                          dev[k] # "done"
                   PROVE  FALSE
        BY DEF Pending
      <3>1. PICK i \in DOMAIN NextStatuses : NextStatuses[i] = dev[k]
        BY <2>4, <2>9
      <3>2. k \in LegalStories(dev, NextStatuses[i])
        BY <2>3, <3>1 DEF LegalStories
      <3> QED BY <3>2 DEF NothingLeft
    <2>11. ASSUME ~NothingLeft(dev), NEW k \in Recommended(dev)
           PROVE  k \in Pending(dev, k.epic)
      <3> DEFINE First(i) == /\ LegalStories(dev, NextStatuses[i]) # {}
                             /\ \A j \in 1..(i - 1) : LegalStories(dev, NextStatuses[j]) = {}
                 first == CHOOSE i \in DOMAIN NextStatuses : First(i)
      <3>1. \E i \in DOMAIN NextStatuses : LegalStories(dev, NextStatuses[i]) # {}
        BY <2>11 DEF NothingLeft
      <3> DEFINE L(i) == LegalStories(dev, NextStatuses[i]) = {}
      <3>2. \E i \in 1..4 : ~L(i) /\ \A j \in 1..(i - 1) : L(j)
        <4> HIDE DEF L
        <4>1. \E i \in 1..4 : ~L(i)
          BY <2>9, <3>1 DEF L
        <4>2. CASE ~L(1)
          BY <4>2
        <4>3. CASE L(1) /\ ~L(2)
          BY <4>3
        <4>4. CASE L(1) /\ L(2) /\ ~L(3)
          BY <4>4
        <4>5. CASE L(1) /\ L(2) /\ L(3) /\ ~L(4)
          BY <4>5
        <4> QED BY <4>1, <4>2, <4>3, <4>4, <4>5
      <3>3. \E i \in DOMAIN NextStatuses : First(i)
        BY <2>9, <3>2
      <3>4. first \in DOMAIN NextStatuses
        <4> HIDE DEF First
        <4> QED BY <3>3
      <3>5. Recommended(dev) = LegalStories(dev, NextStatuses[first])
        BY DEF Recommended
      <3> HIDE DEF first
      <3>6. k \in DOMAIN dev /\ k.kind = "story" /\ dev[k] = NextStatuses[first]
        BY <2>3, <2>11, <3>5 DEF LegalStories
      <3> QED BY <2>9, <3>4, <3>6 DEF Pending
    <2> QED BY <2>8, <2>10, <2>11 DEF RetroAdvised, AllDone, dev
  <1> QED BY <1>1, AlwaysClean, PTL

-----------------------------------------------------------------------------
(* Which step took a command from one place to another. *)
LEMMA EditStays ==
    ASSUME Computes, Edit, NEW q \in Procs
    PROVE  proc'[q].pc = proc[q].pc
  <1>1. (\E d : Aside(d)) => proc'[q].pc = proc[q].pc
    BY AsideSame DEF Computes
  <1>2. ASSUME NEW h \in SUBSET StoryKeys, EditPlan(h)
        PROVE  proc' = proc
    BY <1>2 DEF EditPlan
  <1>3. ASSUME NEW k \in StoryKeys, WriteStory(k)
        PROVE  proc' = proc
    BY <1>3 DEF WriteStory
  <1>4. ASSUME NEW k \in StoryKeys, NEW t \in {"in-progress", "review"}, SyncStatus(k, t)
        PROVE  \E d : Aside(d)
    BY <1>4, SyncStep DEF Computes
  <1>5. ASSUME NEW k \in Keys, NEW s \in HandStatuses, EditStatus(k, s)
        PROVE  \E d : Aside(d)
    BY <1>5, HandStep DEF Computes
  <1>6. ASSUME NEW e \in Epics, NEW t \in LegacyTexts, NEW s \in {"open", "odd"},
               AddLegacyItem(e, t, s)
        PROVE  \E d : Aside(d)
    BY <1>6, LegacyStep DEF Computes
  <1>7. ASSUME NEW i \in Nat, DeleteItem(i)
        PROVE  \E d : Aside(d)
    BY <1>7, DeleteStep DEF Computes
  <1>8. ASSUME NEW f \in {NoFile, Malformed}, Spoil(f)
        PROVE  \E d : Aside(d)
    BY <1>8, SpoilStep DEF Computes
  <1>9. \A i \in 1..(MaxEdits + MaxCommands * 2) : i \in Nat
    OBVIOUS
  <1> QED BY <1>1, <1>2, <1>3, <1>4, <1>5, <1>6, <1>7, <1>8, <1>9 DEF Edit

LEMMA Mover ==
    ASSUME Computes, [Next]_vars, NEW p \in Procs, proc'[p].pc # proc[p].pc
    PROVE  Step(p)
  <1>1. ~UNCHANGED vars /\ ~Edit
    BY EditStays DEF vars
  <1>2. PICK r \in Procs : Step(r)
    BY <1>1 DEF Next
  <1>3. r = p
    BY <1>2, StepKeeps, BesideSame DEF Computes
  <1> QED BY <1>2, <1>3

(* A command that ends without success, and was neither killed nor disturbed,
   leaves the file as it was when it read the bytes to put back. *)
THEOREM FailureLeavesFileAlways == Spec => FailureLeavesFile
  <1> DEFINE A(p) ==
        /\ proc[p].pc \in {"verify", "restore"} /\ proc'[p].pc = "idle"
        /\ ~proc[p].disturbed /\ faults' = faults
        => file' = proc[p].orig \/ (At(p, "verify") /\ Verifies(p))
  <1>1. Computes /\ [Next]_vars => [\A p \in Procs : A(p)]_vars
    <2> SUFFICES ASSUME Computes, [Next]_vars, NEW p \in Procs,
                        proc[p].pc \in {"verify", "restore"}, proc'[p].pc = "idle",
                        faults' = faults
                 PROVE  file' = proc[p].orig \/ (At(p, "verify") /\ Verifies(p))
      OBVIOUS
    <2>1. Step(p)
      BY Mover
    <2>2. faults \in Nat
      BY DEF Computes, Typed
    <2>3. ~(\E c \in Inputs : BeginGenerate(p, c) \/ BeginUpdate(p, c))
          /\ ~Build(p) /\ ~LoadDocument(p) /\ ~Write(p, FALSE) /\ ~Write(p, TRUE)
          /\ ~WriteFails(p)
      BY DEF BeginGenerate, BeginUpdate, Build, LoadDocument, Write, WriteFails, At
    <2>4. ~RestoreFails(p) /\ ~Kill(p)
      BY <2>2 DEF RestoreFails, Kill
    <2>5. ~Reject(p)
      <3> SUFFICES ASSUME Reject(p) PROVE FALSE
        OBVIOUS
      <3>1. proc'[p] = [proc[p] EXCEPT !.pc = "restore"]
        BY DEF Reject, Goto, Computes, Typed
      <3>2. proc[p] \in Local
        BY DEF Computes, Typed
      <3> QED BY <3>1, <3>2 DEF Local
    <2>6. CASE Succeed(p)
      BY <2>6 DEF Succeed
    <2>7. CASE Restore(p)
      BY <2>7, RestoreStep
    <2> QED BY <2>1, <2>3, <2>4, <2>5, <2>6, <2>7 DEF Step
  <1> QED BY <1>1, ComputesAlways, PTL DEF Spec, FailureLeavesFile

LEMMA WrittenNotLower ==
    ASSUME NEW q \in Local, Carries(q), q.pc = "write", q.seen \in Docs,
           NEW k \in DOMAIN q.seen.dev, k \in DOMAIN q.out.dev, k.kind # "other",
           ~(q.cmd.op = "generate" /\
                (q.cmd.fresh \/ \E i \in DOMAIN q.cmd.sets : q.cmd.sets[i].key = k))
    PROVE  ~Lower(k, q.seen.dev[k], q.out.dev[k])
  <1>1. k \in Keys /\ k.kind \in Kinds
    <2>1. k \in Keys
      BY DocOK, DevOK
    <2> QED BY <2>1 DEF Keys, StoryKeys, EpicKey, RetroKey, OddKey, Kinds
  <1> DEFINE a == q.seen.dev[k]
             b == q.out.dev[k]
  <1>2. CASE q.cmd.op = "generate"
    <2> DEFINE built == BuildDev(q.entries, q.seen.dev, q.found)
    <2>1. /\ Generated(q) /\ q.cmd \in GenerateCmds /\ ~q.cmd.fresh
          /\ \A i \in DOMAIN q.cmd.sets : q.cmd.sets[i].key # k
      BY <1>2, CmdOK DEF Carries
    <2>2. Existing(q.seen) = q.seen.dev
      BY DocOK
    <2>3. q.out.dev = ApplySets(built, q.cmd.sets) /\ SetFits(q.cmd.sets, q.entries)
      BY <2>1, <2>2 DEF Generated
    <2>4. DOMAIN built = q.entries
      BY DEF BuildDev
    <2>5. /\ \A x \in DOMAIN built :
                (\A i \in DOMAIN q.cmd.sets : q.cmd.sets[i].key # x)
                    => ApplySets(built, q.cmd.sets)[x] = built[x]
          /\ DOMAIN ApplySets(built, q.cmd.sets) = DOMAIN built
      <3> HIDE DEF built
      <3> QED BY <2>1, <2>3, <2>4, SetsApply
    <2>6. k \in q.entries /\ b = built[k]
      <3>1. k \in DOMAIN ApplySets(built, q.cmd.sets)
        BY <2>3
      <3>2. k \in DOMAIN built /\ k \in q.entries
        BY <2>4, <2>5, <3>1
      <3>3. ApplySets(built, q.cmd.sets)[k] = built[k]
        BY <2>1, <2>5, <3>2
      <3> HIDE DEF built
      <3> QED BY <2>3, <3>2, <3>3
    <2>7. built[k] = Higher(k.kind, Computed(k, q.found), a)
      BY <2>6 DEF BuildDev
    <2>8. q.entries \in SUBSET (Keys \ {OddKey}) /\ q.found \in SUBSET StoryKeys
      BY DEF Local
    <2>9. Computed(k, q.found) \in Legal(k.kind)
      BY <2>6, <2>8, ComputedIsLegal
    <2> HIDE DEF a, b, built
    <2>10. /\ b \in Legal(k.kind)
           /\ Normalize(a) \in Legal(k.kind)
                => Rank(k.kind, Normalize(a)) <= Rank(k.kind, b)
      BY <1>1, <2>6, <2>7, <2>9, HigherIsHigher
    <2>11. Normalize(b) = b /\ Rank(k.kind, b) \in Nat
           /\ (Normalize(a) \in Legal(k.kind) => Rank(k.kind, Normalize(a)) \in Nat)
      BY <1>1, <2>10, Ranks
    <2>12. ~Lower(k, a, b)
      BY <2>10, <2>11 DEF Lower
    <2> QED BY <2>12 DEF a, b
  <1>3. CASE q.cmd.op # "generate"
    <2>1. q.out = Updated(q.seen, q.cmd) /\ q.cmd \in UpdateCmds
      BY <1>3, CmdOK DEF Carries, Revised, Cmds
    <2>2. q.out.dev = RetroDone(q.seen.dev, q.cmd.epic, q.cmd.retro)
      BY <2>1, UpdatedOK
    <2>3. b = a \/ (k = RetroKey(q.cmd.epic) /\ b = "done")
      BY <2>2 DEF RetroDone
    <2> HIDE DEF a, b
    <2>4. CASE b = a
      <3>1. Normalize(a) \in Legal(k.kind) => Rank(k.kind, Normalize(a)) \in Nat
        BY <1>1, Ranks
      <3> QED BY <2>4, <3>1 DEF Lower, a, b
    <2>5. CASE k = RetroKey(q.cmd.epic) /\ b = "done"
      <3>1. k.kind = "retro"
        BY <2>5 DEF RetroKey
      <3>2. "done" \in Legal("retro") /\ "retro" \in Kinds /\ Normalize("done") = "done"
        BY LegalStatuses, Ranks DEF Kinds
      <3>3. DOMAIN Ladder["retro"] = 1..2 /\ Ladder["retro"][1] = "optional"
        BY DEF Ladder
      <3>4. Rank("retro", "done") = 2
        <4>1. Rank("retro", "done") \in 1..2 /\ Ladder["retro"][Rank("retro", "done")] = "done"
          BY <3>2, <3>3, Ranks
        <4> QED BY <3>3, <4>1
      <3>5. Normalize(a) \in Legal("retro") => Rank("retro", Normalize(a)) \in 1..2
        BY <3>2, <3>3, Ranks
      <3>6. ~Lower(k, a, b)
        BY <2>5, <3>1, <3>2, <3>4, <3>5 DEF Lower
      <3> QED BY <3>6 DEF a, b
    <2> QED BY <2>3, <2>4, <2>5
  <1> QED BY <1>2, <1>3

(* Status preservation: no write lowers a status of the version it has read,
   unless a fresh rebuild or --set asks for it. *)
THEOREM NeverDowngradedAlways == Spec => NeverDowngraded
  <1> DEFINE A(p) ==
        At(p, "write") /\ proc'[p].pc = "verify" /\ Readable(file) /\ ~overtaken' =>
            \A k \in DOMAIN file.dev \intersect DOMAIN file'.dev :
                (k.kind # "other" /\ ~Explicit(p, k))
                    => ~Lower(k, file.dev[k], file'.dev[k])
  <1>1. Computes /\ [Next]_vars => [\A p \in Procs : A(p)]_vars
    <2> SUFFICES ASSUME Computes, [Next]_vars, NEW p \in Procs,
                        proc[p].pc = "write", proc'[p].pc = "verify", Readable(file),
                        ~overtaken',
                        NEW k \in DOMAIN file.dev \intersect DOMAIN file'.dev,
                        k.kind # "other", ~Explicit(p, k)
                 PROVE  ~Lower(k, file.dev[k], file'.dev[k])
      BY DEF At
    <2>1. Step(p)
      BY Mover
    <2>2. Write(p, FALSE) \/ Write(p, TRUE)
      <3>1. ~(\E c \in Inputs : BeginGenerate(p, c) \/ BeginUpdate(p, c))
            /\ ~Build(p) /\ ~LoadDocument(p) /\ ~Restore(p)
        BY DEF BeginGenerate, BeginUpdate, Build, LoadDocument, Restore, At
      <3>2. ~Stops(p)
        BY StopStep, IdleOK
      <3> QED BY <2>1, <3>1, <3>2 DEF Step, Stops
    <2>3. file = proc[p].seen
      BY <2>1, <2>2, StepOvertakes
    <2>4. proc[p] \in Local /\ Carries(proc[p]) /\ file \in Docs
      BY FileOK DEF Computes, Typed
    <2>5. file'.dev = proc[p].out.dev
      BY <2>2, WriteStep
    <2>6. ~Lower(k, proc[p].seen.dev[k], proc[p].out.dev[k])
      BY <2>3, <2>4, <2>5, WrittenNotLower DEF Explicit
    <2> QED BY <2>3, <2>5, <2>6
  <1> QED BY <1>1, ComputesAlways, PTL DEF Spec, NeverDowngraded

=============================================================================
