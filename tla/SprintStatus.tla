----------------------------- MODULE SprintStatus -----------------------------
(***************************************************************************)
(* sprint-status.yaml and the commands that write it: "generate" of        *)
(* bmad-sprint-planning/scripts/sprint_plan.py and "update" of             *)
(* bmad-retrospective/scripts/sprint_status.py, each a process of its own  *)
(* that reads the file, computes a new one, replaces it, reads it back and *)
(* puts the first bytes back when what it reads is not what it wrote; the  *)
(* readers of both scripts; and the edits that reach the file past them    *)
(* (the status sync of bmad-build, a person's editor).                     *)
(*                                                                         *)
(* The order of the keys, the dates and the comments are left out.         *)
(***************************************************************************)
EXTENDS Integers, Sequences, FiniteSets, SequencesExt

CONSTANTS
    Procs,        \* commands that may run at the same time
    Epics,        \* epic numbers
    Names,        \* the part of a story key after the epic number
    Texts,        \* texts of action items, slugs included
    Inputs,       \* command lines
    HandStatuses, \* statuses a person types
    LegacyTexts,  \* texts of the action items a person adds
    MaxCommands,  \* commands run in a behaviour
    MaxEdits,     \* edits of any of the files past the scripts
    MaxFaults     \* failed or lossy writes and kills

CONSTANTS NoName, NoId, NoFile, Malformed, NoCmd

ASSUME SprintAssumption ==
    /\ Epics \subseteq Nat
    /\ MaxCommands \in Nat /\ MaxEdits \in Nat /\ MaxFaults \in Nat
    /\ NoName \notin Names \union Procs

VARIABLES
    plan,      \* the headings of the epic files: story keys
    disk,      \* the story keys that have a file in the stories directory
    file,      \* sprint-status.yaml
    proc,      \* the local state of each command
    acked,     \* ids of the items an update reported as added
    overtaken, \* a command has replaced a version it had not read
    deleted,   \* ids of the items deleted by hand
    clean,     \* nothing was changed since a generate succeeded
    commands, edits, faults

vars == <<plan, disk, file, proc, acked, overtaken, deleted, clean, commands,
          edits, faults>>
bounds == <<commands, edits, faults>>

-----------------------------------------------------------------------------
(* Keys and statuses. *)

EpicKey(e)  == [kind |-> "epic", epic |-> e, name |-> NoName]
RetroKey(e) == [kind |-> "retro", epic |-> e, name |-> NoName]
StoryKeys   == [kind : {"story"}, epic : Epics, name : Names]
OddKey      == [kind |-> "other", epic |-> 0, name |-> NoName]
Keys        == StoryKeys \union {EpicKey(e) : e \in Epics}
                         \union {RetroKey(e) : e \in Epics} \union {OddKey}

Ladder ==
    [epic  |-> <<"backlog", "in-progress", "done">>,
     story |-> <<"backlog", "ready-for-dev", "in-progress", "review", "done">>,
     retro |-> <<"optional", "done">>]
Legal(kind)   == ToSet(Ladder[kind])
Rank(kind, s) == CHOOSE i \in DOMAIN Ladder[kind] : Ladder[kind][i] = s

Legacy       == [drafted |-> "ready-for-dev", contexted |-> "in-progress"]
Normalize(s) == IF s \in DOMAIN Legacy THEN Legacy[s] ELSE s
RawStatuses  == UNION {Legal(k) : k \in DOMAIN Ladder}
                    \union DOMAIN Legacy \union {"odd"}
ASSUME HandAssumption ==
    HandStatuses \subseteq RawStatuses /\ LegacyTexts \subseteq Texts

ActionStatuses == {"open", "in-progress", "done"}

(* A generated id is epic, position, slug; legacy items have none. *)
Ids   == (Epics \X Nat \X Texts) \union {NoId}
Items == [id : Ids, epic : Epics, text : Texts,
          status : ActionStatuses \union {"odd"}]

(* "whole": what the last writer had to keep is in it. *)
Docs  == [dev : UNION {[D -> RawStatuses] : D \in SUBSET Keys},
          items : Seq(Items), whole : BOOLEAN]
Readable(f) == f \notin {NoFile, Malformed}
ASSUME FileAssumption == NoFile \notin Docs /\ Malformed \notin Docs

-----------------------------------------------------------------------------
(* generate: what it computes. A dry run reports InSync and changes nothing. *)

Entries(headings) ==
    headings \union UNION {{EpicKey(k.epic), RetroKey(k.epic)} : k \in headings}

Computed(k, onDisk) ==
    IF k \in onDisk THEN "ready-for-dev" ELSE Ladder[k.kind][1]

\* Mutant of Higher: the lower of the two.
HigherSwapped(kind, computed, raw) ==
    LET s == Normalize(raw)
    IN  IF s \in Legal(kind) /\ Rank(kind, s) <= Rank(kind, computed)
        THEN s ELSE computed
\* Mutant of Higher: the legacy spelling is written back.
HigherRaw(kind, computed, raw) ==
    LET s == Normalize(raw)
    IN  IF s \in Legal(kind) /\ Rank(kind, s) >= Rank(kind, computed)
        THEN raw ELSE computed
Higher(kind, computed, raw) ==
    LET s == Normalize(raw)
    IN  IF s \in Legal(kind) /\ Rank(kind, s) >= Rank(kind, computed)
        THEN s ELSE computed

BuildDev(entries, existing, onDisk) ==
    [k \in entries |->
        IF k \in DOMAIN existing
        THEN Higher(k.kind, Computed(k, onDisk), existing[k])
        ELSE Computed(k, onDisk)]

Orphans(entries, existing) == DOMAIN existing \ entries
Illegal(entries, existing) ==
    {k \in entries \intersect DOMAIN existing :
        Normalize(existing[k]) \notin Legal(k.kind)}

InSync(entries, existing, onDisk) ==
    /\ entries \subseteq DOMAIN existing
    /\ Orphans(entries, existing) = {}
    /\ Illegal(entries, existing) = {}
    /\ \A k \in entries : existing[k] \notin DOMAIN Legacy
    /\ \A k \in entries : BuildDev(entries, existing, onDisk)[k] = existing[k]

(* --set: one key, applied after the merge. *)
NoSet == <<>>
SetFits(sets, entries) ==
    \A i \in DOMAIN sets :
        sets[i].key \in entries /\ sets[i].status \in Legal(sets[i].key.kind)
ApplySets(dev, sets) ==
    [k \in DOMAIN dev |->
        IF \E i \in DOMAIN sets : sets[i].key = k
        THEN sets[1].status ELSE dev[k]]

(* generate starts from the file's statuses unless told not to, and carries
   action_items over either way. *)
Existing(f) == IF Readable(f) THEN f.dev ELSE <<>>
OldItems(f) == IF Readable(f) THEN f.items ELSE <<>>
\* Mutant of Carried: a fresh document starts without action_items.
CarriedUnlessFresh(c, f) == IF c.fresh THEN <<>> ELSE OldItems(f)
Carried(c, f) == OldItems(f)

-----------------------------------------------------------------------------
(* update: what it computes. *)

(* A selector has an id, or is the epic and text of a legacy item. *)
Matches(sel, items) ==
    {i \in DOMAIN items :
        IF sel.id # NoId THEN items[i].id = sel.id
        ELSE items[i].epic = sel.epic /\ items[i].text = sel.text}

Resolved(sels, items) ==
    /\ \A i \in DOMAIN sels : Cardinality(Matches(sels[i], items)) = 1
    /\ \A i, j \in DOMAIN sels :
            Matches(sels[i], items) = Matches(sels[j], items) => i = j

Marked(items, sels) ==
    [i \in DOMAIN items |->
        IF \E j \in DOMAIN sels : i \in Matches(sels[j], items)
        THEN [items[i] EXCEPT !.status =
                sels[CHOOSE j \in DOMAIN sels : i \in Matches(sels[j], items)].status]
        ELSE items[i]]

NewItem(e, n, text) ==
    [id |-> <<e, n, text>>, epic |-> e, text |-> text, status |-> "open"]
\* Mutant of Added: the number is taken from the list as loaded.
AddedFromLoaded(items, e, texts) ==
    items \o [i \in DOMAIN texts |-> NewItem(e, Len(items) + 1, texts[i])]
Added(items, e, texts) ==
    items \o [i \in DOMAIN texts |-> NewItem(e, Len(items) + i, texts[i])]

RetroDone(dev, e, wanted) ==
    [k \in DOMAIN dev |->
        IF wanted /\ k = RetroKey(e) THEN "done" ELSE dev[k]]

Updated(doc, c) ==
    [doc EXCEPT !.dev = RetroDone(@, c.epic, c.retro),
                !.items = Added(Marked(@, c.sels), c.epic, c.adds)]

AddedIds(doc, c) ==
    {<<c.epic, Len(doc.items) + i, c.adds[i]>> : i \in DOMAIN c.adds}

-----------------------------------------------------------------------------
(* What the readers say of a readable file. *)

LegalStories(dev, s) ==
    {k \in DOMAIN dev : k.kind = "story" /\ Normalize(dev[k]) = s}
OpenRetros(dev) == {k.epic : k \in {r \in DOMAIN dev :
                        r.kind = "retro" /\ dev[r] = "optional"}}

(* cmd_status recommends a story of the first of these statuses that has any,
   else the first open retrospective, else calls the sprint done. *)
NextStatuses == <<"in-progress", "review", "ready-for-dev", "backlog">>
\* Mutant of NothingLeft: a story in review does not count.
NothingLeftButReview(dev) ==
    \A i \in DOMAIN NextStatuses \ {2} : LegalStories(dev, NextStatuses[i]) = {}
NothingLeft(dev) ==
    \A i \in DOMAIN NextStatuses : LegalStories(dev, NextStatuses[i]) = {}
Recommended(dev) ==
    LET first == CHOOSE i \in DOMAIN NextStatuses :
            /\ LegalStories(dev, NextStatuses[i]) # {}
            /\ \A j \in 1..(i - 1) : LegalStories(dev, NextStatuses[j]) = {}
    IN  LegalStories(dev, NextStatuses[first])
AllDone(dev)      == NothingLeft(dev) /\ OpenRetros(dev) = {}
RetroOf(dev)      == CHOOSE e \in OpenRetros(dev) :
                        \A f \in OpenRetros(dev) : e <= f
RetroAdvised(dev) == NothingLeft(dev) /\ OpenRetros(dev) # {}

(* Its risks: stories without their epic, epics in progress without a story,
   and keys that are none. *)
EpicsWith(dev, ok(_)) ==
    {k.epic : k \in {x \in DOMAIN dev : x.kind = "epic" /\ ok(Normalize(dev[x]))}}
LegalEpics(dev)   == EpicsWith(dev, LAMBDA s : s \in Legal("epic"))
StoryEpics(dev)   == {k.epic : k \in UNION {LegalStories(dev, s) : s \in Legal("story")}}
NoRisk(dev) ==
    /\ StoryEpics(dev) \subseteq LegalEpics(dev)
    /\ EpicsWith(dev, LAMBDA s : s = "in-progress") \subseteq StoryEpics(dev)
    /\ OddKey \notin DOMAIN dev

(* cmd_validate *)
Valid(f) ==
    /\ Readable(f)
    /\ f.dev # <<>>
    /\ \A k \in DOMAIN f.dev :
            k.kind # "other" /\ Normalize(f.dev[k]) \in Legal(k.kind)
    /\ \A i \in DOMAIN f.items : f.items[i].status \in ActionStatuses

(* cmd_detect_epic *)
Pending(dev, e) ==
    {k \in DOMAIN dev : k.kind = "story" /\ k.epic = e /\ dev[k] # "done"}
WithDone(dev)  == {k.epic : k \in {s \in DOMAIN dev :
                        s.kind = "story" /\ dev[s] = "done"}}
Detected(dev)  == CHOOSE e \in WithDone(dev) : \A f \in WithDone(dev) : f <= e

-----------------------------------------------------------------------------
(* The commands. *)

GenerateCmds ==
    [op : {"generate"}, fresh : BOOLEAN,
     sets : {NoSet} \union {<<s>> : s \in [key : Keys, status : RawStatuses]}]
Selectors == [id : Ids, epic : Epics, text : Texts, status : ActionStatuses]
UpdateCmds ==
    [op : {"update"}, epic : Epics, retro : BOOLEAN, adds : Seq(Texts),
     sels : Seq(Selectors)]

ASSUME InputAssumption == Inputs \subseteq GenerateCmds \union UpdateCmds

Idle == [pc |-> "idle", cmd |-> NoCmd, entries |-> {}, seen |-> NoFile,
         orig |-> NoFile, found |-> {}, out |-> NoFile, disturbed |-> FALSE]

Init ==
    /\ plan \in SUBSET StoryKeys \ {{}}
    /\ disk = {}
    /\ file \in {NoFile, [dev |-> BuildDev(Entries(plan), <<>>, {}),
                        items |-> <<>>, whole |-> TRUE]}
    /\ proc = [p \in Procs |-> Idle]
    /\ acked = {}
    /\ overtaken = FALSE /\ deleted = {} /\ clean = FALSE
    /\ commands = 0 /\ edits = 0 /\ faults = 0

(* The file becomes f by an act of p (or of nobody): it is news to the rest. *)
Replace(p, f, next) ==
    /\ file' = f
    /\ proc' = [q \in Procs |->
                    IF q = p THEN next
                    ELSE [proc[q] EXCEPT !.disturbed = @ \/ f # file]]

At(p, pc)   == proc[p].pc = pc
Goto(p, pc) == [proc[p] EXCEPT !.pc = pc]
End(p)      == proc' = [proc EXCEPT ![p] = Idle]
Quiet       == UNCHANGED <<plan, disk, overtaken, deleted>>

(* generate parses the epics and loads the document; then it reads the bytes
   it would put back, scans the stories directory and computes. *)
Generates(p) == proc[p].cmd.op = "generate"

BeginGenerate(p, c) ==
    /\ At(p, "idle") /\ commands < MaxCommands
    /\ c.op = "generate" /\ Entries(plan) # {} /\ file # Malformed
    /\ commands' = commands + 1
    /\ proc' = [proc EXCEPT ![p] =
            [Idle EXCEPT !.pc = "build", !.cmd = c, !.entries = Entries(plan),
                         !.seen = file]]
    /\ UNCHANGED <<file, acked, clean, edits, faults>> /\ Quiet

Merged(p) ==
    LET q == proc[p]
    IN  BuildDev(q.entries, IF q.cmd.fresh THEN <<>> ELSE Existing(q.seen), disk)

Build(p) ==
    LET q == proc[p]
        doc == [dev |-> ApplySets(Merged(p), q.cmd.sets),
                items |-> Carried(q.cmd, q.seen),
                whole |-> Readable(q.seen) => q.seen.whole]
    IN  /\ At(p, "build")
        /\ IF ~SetFits(q.cmd.sets, q.entries) THEN End(p)
           ELSE proc' = [proc EXCEPT ![p] =
                    [Goto(p, "write") EXCEPT !.orig = file, !.out = doc, !.found = disk]]
        /\ UNCHANGED <<file, acked, clean, bounds>> /\ Quiet

(* update reads the bytes it would put back, then the document, and resolves
   every selector before it changes anything. *)
BeginUpdate(p, c) ==
    /\ At(p, "idle") /\ commands < MaxCommands
    /\ c.op = "update" /\ file # NoFile
    /\ commands' = commands + 1
    /\ proc' = [proc EXCEPT ![p] =
            [Idle EXCEPT !.pc = "load", !.cmd = c, !.orig = file]]
    /\ UNCHANGED <<file, acked, clean, edits, faults>> /\ Quiet

LoadDocument(p) ==
    LET c == proc[p].cmd
    IN  /\ At(p, "load")
        /\ IF ~Readable(file) \/ ~Resolved(c.sels, OldItems(file)) THEN End(p)
           ELSE proc' = [proc EXCEPT ![p] =
                    [Goto(p, "write") EXCEPT !.seen = file, !.out = Updated(file, c)]]
        /\ UNCHANGED <<file, acked, clean, bounds>> /\ Quiet

(* _atomic_write. A lossy dump lacks some of what the command reads back: a
   status, for update also a comment or an item. *)
Write(p, lossy) ==
    /\ At(p, "write")
    /\ lossy => faults < MaxFaults /\ proc[p].out.whole
    /\ faults' = IF lossy THEN faults + 1 ELSE faults
    /\ Replace(p, [proc[p].out EXCEPT !.whole = @ /\ ~lossy], Goto(p, "verify"))
    /\ overtaken' = (overtaken \/ file # proc[p].seen)
    /\ clean' = FALSE
    /\ UNCHANGED <<plan, disk, acked, deleted, commands, edits>>

(* generate restores after any failure; update knows the target is as it was. *)
WriteFails(p) ==
    /\ At(p, "write") /\ faults < MaxFaults
    /\ faults' = faults + 1
    /\ IF Generates(p) THEN proc' = [proc EXCEPT ![p] = Goto(p, "restore")]
       ELSE End(p)
    /\ UNCHANGED <<file, acked, clean, commands, edits>> /\ Quiet

Lost(p) == proc[p].out.whole /\ ~file.whole
GenerateVerifies(p) == Readable(file) /\ ~Lost(p) /\ file.dev = proc[p].out.dev

UpdateVerifies(p) ==
    LET c == proc[p].cmd
        doc == proc[p].seen
    IN  /\ Readable(file) /\ ~Lost(p)
        /\ c.retro /\ RetroKey(c.epic) \in DOMAIN doc.dev
                => RetroKey(c.epic) \in DOMAIN file.dev
                   /\ file.dev[RetroKey(c.epic)] = "done"
        /\ Len(file.items) = Len(doc.items) + Len(c.adds)
        /\ \A j \in DOMAIN c.sels : \A i \in Matches(c.sels[j], doc.items) :
                file.items[i].status = c.sels[j].status

Verifies(p) == IF Generates(p) THEN GenerateVerifies(p) ELSE UpdateVerifies(p)

(* A status that --set keeps below what the story file alone would give. *)
BelowDisk(p) ==
    \E i \in DOMAIN proc[p].cmd.sets :
        LET s == proc[p].cmd.sets[i]
        IN  Higher(s.key.kind, Computed(s.key, disk), s.status) # s.status

Succeed(p) ==
    /\ At(p, "verify") /\ Verifies(p)
    /\ acked' = IF Generates(p) THEN acked
                ELSE acked \union (AddedIds(proc[p].seen, proc[p].cmd) \ deleted)
    /\ clean' = (clean \/ (/\ Generates(p) /\ ~proc[p].disturbed
                           /\ proc[p].entries = Entries(plan)
                           /\ proc[p].found = disk /\ ~BelowDisk(p)))
    /\ End(p)
    /\ UNCHANGED <<file, bounds>> /\ Quiet

(* The other writer's date differs, or what was read is not what was written. *)
\* Mutant of Reject: the rejected write stays.
RejectEnds(p) ==
    /\ At(p, "verify") /\ ~Verifies(p) /\ End(p)
    /\ UNCHANGED <<file, acked, clean, bounds>> /\ Quiet
Reject(p) ==
    /\ At(p, "verify")
    /\ ~Verifies(p) \/ (Generates(p) /\ proc[p].disturbed)
    /\ proc' = [proc EXCEPT ![p] = Goto(p, "restore")]
    /\ UNCHANGED <<file, acked, clean, bounds>> /\ Quiet

(* _restore; generate unlinks a file that was not there before. *)
Restore(p) ==
    /\ At(p, "restore")
    /\ Replace(p, proc[p].orig, Idle)
    /\ overtaken' = (overtaken \/ proc[p].disturbed)
    /\ clean' = FALSE
    /\ UNCHANGED <<plan, disk, acked, deleted, bounds>>

RestoreFails(p) ==
    /\ At(p, "restore") /\ faults < MaxFaults
    /\ faults' = faults + 1
    /\ End(p)
    /\ UNCHANGED <<file, acked, clean, commands, edits>> /\ Quiet

(* Killed after its write; before it, a command has changed nothing yet. *)
Kill(p) ==
    /\ proc[p].pc \in {"verify", "restore"} /\ faults < MaxFaults
    /\ faults' = faults + 1
    /\ End(p)
    /\ UNCHANGED <<file, acked, clean, commands, edits>> /\ Quiet

-----------------------------------------------------------------------------
(* What reaches the files past the scripts. *)

Edited == /\ edits < MaxEdits /\ edits' = edits + 1
          /\ clean' = FALSE
          /\ UNCHANGED <<overtaken, commands, faults>>

EditPlan(headings) ==
    /\ headings # plan /\ plan' = headings
    /\ Edited /\ UNCHANGED <<disk, file, proc, acked, deleted>>

WriteStory(k) ==
    /\ k \notin disk /\ disk' = disk \union {k}
    /\ Edited /\ UNCHANGED <<plan, file, proc, acked, deleted>>

(* bmad-build moves a story on, and its epic out of the backlog. *)
SyncStatus(k, target) ==
    /\ Readable(file) /\ k \in DOMAIN file.dev
    /\ Normalize(file.dev[k]) \in Legal("story")
            => Rank("story", Normalize(file.dev[k])) < Rank("story", target)
    /\ Replace(NoName,
         [file EXCEPT !.dev = [x \in DOMAIN @ |->
            IF x = k THEN target
            ELSE IF /\ target = "in-progress" /\ x = EpicKey(k.epic)
                    /\ @[x] = "backlog"
                 THEN "in-progress" ELSE @[x]]], Idle)
    /\ Edited /\ UNCHANGED <<plan, disk, acked, deleted>>

EditStatus(k, raw) ==
    /\ Readable(file) /\ (k \in DOMAIN file.dev \/ k = OddKey)
    /\ Replace(NoName,
         [file EXCEPT !.dev = [x \in DOMAIN @ \union {k} |->
                                    IF x = k THEN raw ELSE @[x]]], Idle)
    /\ Edited /\ UNCHANGED <<plan, disk, acked, deleted>>

AddLegacyItem(e, text, status) ==
    /\ Readable(file)
    /\ Replace(NoName,
         [file EXCEPT !.items = Append(@, [id |-> NoId, epic |-> e, text |-> text,
                                           status |-> status])], Idle)
    /\ Edited /\ UNCHANGED <<plan, disk, acked, deleted>>

DeleteItem(i) ==
    /\ Readable(file) /\ i \in DOMAIN file.items
    /\ Replace(NoName, [file EXCEPT !.items = RemoveAt(@, i)], Idle)
    /\ acked' = acked \ {file.items[i].id}
    /\ deleted' = deleted \union {file.items[i].id}
    /\ Edited /\ UNCHANGED <<plan, disk>>

Spoil(f) ==
    /\ file # f /\ Replace(NoName, f, Idle)
    /\ acked' = {}
    /\ deleted' = deleted \union {OldItems(file)[i].id : i \in DOMAIN OldItems(file)}
    /\ Edited /\ UNCHANGED <<plan, disk>>

-----------------------------------------------------------------------------
Step(p) ==
    \/ (\E c \in Inputs : BeginGenerate(p, c) \/ BeginUpdate(p, c))
    \/ Build(p) \/ LoadDocument(p)
    \/ Write(p, FALSE) \/ Write(p, TRUE) \/ WriteFails(p)
    \/ Succeed(p) \/ Reject(p) \/ Restore(p) \/ RestoreFails(p)
    \/ Kill(p)

Edit ==
    \/ \E h \in SUBSET StoryKeys : EditPlan(h)
    \/ \E k \in StoryKeys : WriteStory(k)
    \/ \E k \in StoryKeys, t \in {"in-progress", "review"} : SyncStatus(k, t)
    \/ \E k \in Keys, s \in HandStatuses : EditStatus(k, s)
    \/ \E e \in Epics, t \in LegacyTexts, s \in {"open", "odd"} :
            AddLegacyItem(e, t, s)
    \/ \E i \in 1..(MaxEdits + MaxCommands * 2) : DeleteItem(i)
    \/ \E f \in {NoFile, Malformed} : Spoil(f)

Next == (\E p \in Procs : Step(p)) \/ Edit

Spec == Init /\ [][Next]_vars

-----------------------------------------------------------------------------
(* Action-item carry-over: an item an update reported as added is in the file
   until someone deletes it, whatever is generated, fresh or not, and whoever
   was killed, as long as no command replaces a version it has not read. *)
AckedKept ==
    ~overtaken =>
        \A id \in acked : \E i \in DOMAIN OldItems(file) : file.items[i].id = id

(* Item ids are unique, so a selector by id is never ambiguous; the number in
   the id is the length of the list, hence only while nothing is deleted. *)
UniqueIds ==
    deleted = {} =>
        \A i, j \in DOMAIN OldItems(file) :
            file.items[i].id = file.items[j].id /\ file.items[i].id # NoId
                => i = j

(* A command that ends without success, and was neither killed nor disturbed,
   leaves the file as it was when it read the bytes to put back. *)
FailureLeavesFile ==
    [][\A p \in Procs :
        /\ proc[p].pc \in {"verify", "restore"} /\ proc'[p].pc = "idle"
        /\ ~proc[p].disturbed /\ faults' = faults
        => file' = proc[p].orig \/ (At(p, "verify") /\ Verifies(p))]_vars

(* Status preservation: between two versions of the file a status goes down
   only by a fresh rebuild, by --set, by the restore of a rejected write, by
   hand, or over a version the writer has not read. *)
Lower(k, a, b) ==
    /\ Normalize(a) \in Legal(k.kind) /\ Normalize(b) \in Legal(k.kind)
    /\ Rank(k.kind, Normalize(b)) < Rank(k.kind, Normalize(a))
Explicit(p, k) ==
    LET c == proc[p].cmd
    IN  c.op = "generate" /\ (c.fresh \/ \E i \in DOMAIN c.sets : c.sets[i].key = k)
NeverDowngraded ==
    [][\A p \in Procs :
        At(p, "write") /\ proc'[p].pc = "verify" /\ Readable(file) /\ ~overtaken' =>
            \A k \in DOMAIN file.dev \intersect DOMAIN file'.dev :
                (k.kind # "other" /\ ~Explicit(p, k))
                    => ~Lower(k, file.dev[k], file'.dev[k])]_vars

(* After a generate, and until something is edited, another one has nothing to
   do and validate finds no fault with the statuses: in one pass any file that
   can be read is brought in line with the epics and the stories directory. *)
CleanIsInSync ==
    clean => /\ Readable(file)
             /\ InSync(Entries(plan), file.dev, disk)
             /\ (\A i \in DOMAIN file.items : file.items[i].status # "odd")
                    => Valid(file)

(* The readers agree on a file in sync: what the status view recommends is a
   story that detect-epic counts as pending, and names no risk in the structure;
   when it sends the user to a retrospective, or calls the sprint done,
   detect-epic has no pending story for that epic nor for the one it would pick
   by itself. *)
GateAgrees ==
    clean => LET dev == file.dev IN
        /\ NoRisk(dev)
        /\ ~NothingLeft(dev) =>
                \A k \in Recommended(dev) : k \in Pending(dev, k.epic)
        /\ RetroAdvised(dev) => Pending(dev, RetroOf(dev)) = {}
        /\ (RetroAdvised(dev) \/ AllDone(dev)) /\ WithDone(dev) # {} =>
                Pending(dev, Detected(dev)) = {}

=============================================================================
