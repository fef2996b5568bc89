------------------------------- MODULE Knowledge -------------------------------
(***************************************************************************)
(* tools/okf: the tool that keeps the indexes and links of the knowledge   *)
(* bundle, beside an author (a person or an agent) who adds, changes and   *)
(* removes concepts while it runs.                                         *)
(*                                                                         *)
(* The bundle is a directory of topic directories.  A link is a path from  *)
(* the bundle's root; a link that is only a file name is the path at Root. *)
(* Of a description and of a body only the link they hold is kept: that is *)
(* what tells one version of them from another.  An index is the set of    *)
(* its entries.  The tool loads the bundle in one step, and reads and      *)
(* writes every file in a step of its own.                                 *)
(***************************************************************************)
EXTENDS Naturals, FiniteSets

CONSTANTS
    Topics, Root,   \* the topic directories, and the bundle's own
    Names,          \* file names of concepts
    RepoFiles,      \* the names there are also files of in the repository's root
    Docs,           \* what a concept's file may hold
    None,           \* no link, no directory of the bundle
    MaxEdits

Dirs  == Topics \union {Root}
Paths == Dirs \X Names
Raw   == {"there", "gone"}  \* raw sources that exist, and that do not
Doc   == [meta : {"ok", "untyped", "bad"}, desc : Paths \union {None},
          body : Paths \union {None}, raw : SUBSET Raw, cited : SUBSET Raw]

ASSUME BundleAssumption ==
    /\ Root \notin Topics /\ None \notin Paths /\ None \notin Dirs
    /\ RepoFiles \subseteq Names /\ Docs \subseteq Doc
    /\ MaxEdits \in Nat

VARIABLES
    docs,    \* the concepts: a function on the paths that have one
    index,   \* the indexes: a function on the directories that have one
    pc, cmd, \* where the tool is in which command
    snap,    \* the concepts as it loaded them
    todo,    \* directories or concepts it has still to do
    text,    \* the path and the contents of the concept it has read
    clean,   \* the last report of the tool was OK
    calm,    \* history: no edit since the command was started
    indexed, \* history: okf index ran through, and no concept changed since
    fixes,   \* history: how often lint --fix ran through since the last edit
    edits

diskVars == <<docs, index>>
toolVars == <<pc, cmd, snap, todo, text>>
historyVars == <<calm, indexed, fixes>>
MaxFixes == 2  \* the count of history stops here
knowledgeVars == <<diskVars, toolVars, clean, historyVars, edits>>

Nothing == [p \in {} |-> None]
With(f, x, v) == [y \in DOMAIN f \union {x} |-> IF y = x THEN v ELSE f[y]]
NoText == <<None, None>>
Dir(p)  == p[1]
Name(p) == p[2]

-----------------------------------------------------------------------------
(* What the tool computes. *)

(* build_indexes: the root lists the topics that have concepts, a topic its
   concepts with their descriptions; what has no valid frontmatter has none. *)
InDir(ds, d) == {p \in DOMAIN ds : Dir(p) = d}
Used(ds) == {d \in Topics : InDir(ds, d) # {}}
Described(doc) == IF doc.meta = "bad" THEN None ELSE doc.desc
\* Mutant of Entries: a concept is linked by its name, from its own directory.
EntriesByName(ds, d) ==
    IF d = Root THEN Used(ds)
    ELSE {<<<<Root, Name(p)>>, Described(ds[p])>> : p \in InDir(ds, d)}
Entries(ds, d) == IF d = Root THEN Used(ds)
                  ELSE {<<p, Described(ds[p])>> : p \in InDir(ds, d)}
Indexed(ds) == Used(ds) \union {Root}
Outdated(ds, ix) == {d \in Indexed(ds) : d \in DOMAIN ix => ix[d] # Entries(ds, d)}

(* resolve_link: from the bundle's root, from the directory of the page, from
   the root of the repository. *)
Resolved(ds, from, link) ==
    IF link \in DOMAIN ds THEN link
    ELSE IF Dir(link) # Root THEN None
    ELSE IF <<from, Name(link)>> \in DOMAIN ds THEN <<from, Name(link)>>
    ELSE IF Name(link) \in RepoFiles THEN <<None, Name(link)>>
    ELSE None

(* _rewrite_unique_basenames: of a link that is only a name, and no file in
   the bundle's root, when one concept of the whole bundle has that name. *)
\* Mutant of Matches: the first concept of that name, if there are several.
MatchesAny(loaded, n) ==
    LET ps == {p \in DOMAIN loaded : Name(p) = n}
    IN  IF ps = {} THEN {} ELSE {CHOOSE p \in ps : TRUE}
Matches(loaded, n) == {p \in DOMAIN loaded : Name(p) = n}

NewLink(ds, loaded, link) ==
    IF /\ link # None /\ Dir(link) = Root /\ link \notin DOMAIN ds
       /\ Cardinality(Matches(loaded, Name(link))) = 1
    THEN CHOOSE p \in Matches(loaded, Name(link)) : TRUE
    ELSE link

(* The whole text is rewritten, the description in the frontmatter with it. *)
Rewritten(ds, loaded, doc) ==
    [doc EXCEPT !.desc = NewLink(ds, loaded, @), !.body = NewLink(ds, loaded, @)]

(* validate, and the orphans of lint. *)
DocFinding(ds, p) ==
    LET doc == ds[p]
    IN  \/ doc.meta # "ok"
        \/ "gone" \in doc.raw
        \/ doc.raw # {} /\ doc.cited = {}
        \/ ~(doc.raw \subseteq doc.cited)
        \/ doc.body # None /\ Resolved(ds, Dir(p), doc.body) = None
IndexLinks(ds, ix) == UNION {
    UNION {{Resolved(ds, d, e[k]) : k \in {k \in 1..2 : e[k] # None}} : e \in ix[d]}
        : d \in Topics \intersect DOMAIN ix}
Inbound(ds, ix) == IndexLinks(ds, ix) \union
    {Resolved(ds, Dir(p), ds[p].body) : p \in {q \in DOMAIN ds : ds[q].body # None}}
Orphans(ds, ix) == DOMAIN ds \ Inbound(ds, ix)

Findings(ds, ix) ==
    \/ \E p \in DOMAIN ds : DocFinding(ds, p)
    \/ Outdated(ds, ix) # {}

-----------------------------------------------------------------------------
KnowledgeInit ==
    /\ docs = Nothing /\ index = Nothing
    /\ pc = "idle" /\ cmd = "none" /\ snap = Nothing /\ todo = {} /\ text = NoText
    /\ clean = FALSE /\ edits = 0
    /\ calm = TRUE /\ indexed = FALSE /\ fixes = 0

(* The author. *)
Edit ==
    /\ edits < MaxEdits /\ edits' = edits + 1
    /\ calm' = FALSE /\ indexed' = FALSE /\ fixes' = 0 /\ clean' = FALSE
    /\ UNCHANGED <<index, toolVars>>

Write(p, doc) ==
    /\ p \in DOMAIN docs => docs[p] # doc
    /\ docs' = With(docs, p, doc)
    /\ Edit

Delete(p) ==
    /\ p \in DOMAIN docs
    /\ docs' = [q \in DOMAIN docs \ {p} |-> docs[q]]
    /\ Edit

(* The tool: one command at a time. *)
Commands == {"index", "validate", "lint", "fix"}

Start(c) ==
    /\ pc = "idle"
    /\ cmd' = c /\ pc' = IF c \in {"index", "fix"} THEN "load" ELSE "report"
    /\ calm' = TRUE
    /\ UNCHANGED <<diskVars, snap, todo, text, clean, indexed, fixes, edits>>

End(result) ==
    /\ pc' = "idle" /\ cmd' = "none"
    /\ snap' = Nothing /\ todo' = {} /\ text' = NoText
    /\ clean' = result
    /\ UNCHANGED <<calm, edits>>

(* write_indexes: load, then one index after the other, unless it is right. *)
Load ==
    /\ pc = "load" /\ pc' = "indexes"
    /\ snap' = docs /\ todo' = Indexed(docs)
    /\ UNCHANGED <<diskVars, cmd, text, clean, historyVars, edits>>

\* Mutant of WriteIndex: an index that is there is left alone.
WriteIndexOnce(d) ==
    /\ pc = "indexes" /\ d \in todo /\ todo' = todo \ {d}
    /\ index' = IF d \in DOMAIN index THEN index ELSE With(index, d, Entries(snap, d))
    /\ UNCHANGED <<docs, pc, cmd, snap, text, clean, historyVars, edits>>
WriteIndex(d) ==
    /\ pc = "indexes" /\ d \in todo /\ todo' = todo \ {d}
    /\ index' = With(index, d, Entries(snap, d))
    /\ UNCHANGED <<docs, pc, cmd, snap, text, clean, historyVars, edits>>

EndIndex ==
    /\ pc = "indexes" /\ todo = {} /\ cmd = "index"
    /\ End(clean)
    /\ indexed' = calm
    /\ UNCHANGED <<diskVars, fixes>>

(* lint --fix: the bundle again, then the text of one concept after the other. *)
Reload ==
    /\ pc = "indexes" /\ todo = {} /\ cmd = "fix"
    /\ pc' = "fix"
    /\ snap' = docs /\ todo' = DOMAIN docs
    /\ UNCHANGED <<diskVars, cmd, text, clean, historyVars, edits>>

(* A concept that has gone since ends the command with a traceback. *)
ReadDoc(p) ==
    /\ pc = "fix" /\ p \in todo
    /\ IF p \in DOMAIN docs
       THEN /\ pc' = "rewrite" /\ text' = <<p, docs[p]>> /\ todo' = todo \ {p}
            /\ UNCHANGED <<cmd, snap, clean, historyVars, edits>>
       ELSE End(FALSE) /\ UNCHANGED <<indexed, fixes>>
    /\ UNCHANGED diskVars

(* Only a text with a rewritten link is written back. *)
WriteDoc ==
    LET p == text[1]
        doc == Rewritten(docs, snap, text[2])
    IN  /\ pc = "rewrite" /\ pc' = "fix" /\ text' = NoText
        /\ docs' = IF doc = text[2] THEN docs ELSE With(docs, p, doc)
        /\ indexed' = (indexed /\ doc = text[2])
        /\ UNCHANGED <<index, cmd, snap, todo, clean, calm, fixes, edits>>

EndFix ==
    /\ pc = "fix" /\ todo = {} /\ pc' = "report"
    /\ UNCHANGED <<diskVars, cmd, snap, todo, text, clean, historyVars, edits>>

Report ==
    /\ pc = "report"
    /\ End(~Findings(docs, index) /\ (cmd = "validate" \/ Orphans(docs, index) = {}))
    /\ fixes' = IF cmd = "fix" /\ calm /\ fixes < MaxFixes THEN fixes + 1 ELSE fixes
    /\ UNCHANGED <<diskVars, indexed>>

Tool ==
    \/ \E c \in Commands : Start(c)
    \/ Load \/ (\E d \in Dirs : WriteIndex(d)) \/ EndIndex
    \/ Reload \/ (\E p \in Paths : ReadDoc(p)) \/ WriteDoc \/ EndFix
    \/ Report

KnowledgeNext ==
    \/ \E p \in Paths : Delete(p) \/ \E doc \in Docs : Write(p, doc)
    \/ Tool

KnowledgeSpec == KnowledgeInit /\ [][KnowledgeNext]_knowledgeVars

-----------------------------------------------------------------------------
(* After okf index, and after lint --fix run twice, every index that validate
   looks at is right, and no concept of a topic is an orphan. *)
IndexesFresh ==
    indexed \/ fixes = MaxFixes =>
        /\ Outdated(docs, index) = {}
        /\ Orphans(docs, index) \subseteq {p \in Paths : Dir(p) = Root}

(* And after the latter no link is left to rewrite: a third run finds nothing.
   Once is not enough: the indexes are written before the links in the
   descriptions are. *)
LinksSettled ==
    fixes = MaxFixes =>
        \A p \in DOMAIN docs : Rewritten(docs, docs, docs[p]) = docs[p]

(* A report of no findings stays true until something is edited, whatever the
   tool does meanwhile: every link in a body leads to a file, every entry in the
   index of a topic that has concepts to a concept. *)
ReportHolds ==
    clean =>
        /\ \A p \in DOMAIN docs :
                docs[p].body # None => Resolved(docs, Dir(p), docs[p].body) # None
        /\ \A d \in Used(docs) : \A e \in index[d] : e[1] \in DOMAIN docs

(* What each command has promised about the bundle, for as long as it must. *)
RefreshedIsFresh == IndexesFresh /\ LinksSettled /\ ReportHolds

(* Rewriting moves no link of an undisturbed run from one concept to another:
   what led to a concept before leads to the same one after. *)
LinksOf(doc) == {doc.desc, doc.body} \ {None}
FixKeepsTargets ==
    [][pc = "rewrite" /\ pc' = "fix" /\ calm =>
        \A link \in LinksOf(text[2]) :
            LET was == Resolved(docs, Dir(text[1]), link)
            IN  was \in DOMAIN docs =>
                    \E new \in LinksOf(docs'[text[1]]) :
                        Resolved(docs', Dir(text[1]), new) = was]_knowledgeVars

=============================================================================
