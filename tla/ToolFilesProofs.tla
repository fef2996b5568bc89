--------------------------- MODULE ToolFilesProofs ----------------------------
(***************************************************************************)
(* The two tools that keep files on behalf of an agent: Memlog in the      *)
(* first part, Knowledge in the second.  Neither needs a fact of the other.*)
(*                                                                         *)
(* Memlog, for any number of commands, inodes and faults: as long as       *)
(* commands do not overlap, what a kill or a power loss leaves is a whole  *)
(* log, the log only grows, and the tally printed counts the entry that    *)
(* was appended.                                                           *)
(*                                                                         *)
(* Knowledge, for a bundle of any size, in any number of edits and runs.   *)
(* A promise that is due while a command runs means that nothing was       *)
(* edited since the command began (Undisturbed).  Then the concepts the    *)
(* tool has loaded are those on disk, or at least the same paths           *)
(* (Indexing, Rewriting), and which paths there are is all that rewriting  *)
(* and resolving a link depend on.  So an index it writes is right, and a  *)
(* text it rewrites is settled: a second rewriting changes nothing         *)
(* (Settling).  After one undisturbed lint --fix every concept is settled; *)
(* the next one finds the descriptions it indexed unchanged when it is     *)
(* through (Again), which is why it takes two.                             *)
(***************************************************************************)
EXTENDS Memlog, Knowledge, SequenceTheorems, FiniteSetTheorems, TLAPS

(* Prefixes, element by element. *)
Extends(t, s) == Len(s) <= Len(t) /\ \A i \in 1..Len(s) : t[i] = s[i]

LEMMA ExtendsIsPrefix ==
    ASSUME NEW S, NEW s \in Seq(S), NEW t \in Seq(S)
    PROVE  Extends(t, s) <=> IsPrefix(s, t)
  <1>1. Len(s) \in Nat /\ Len(t) \in Nat
    OBVIOUS
  <1>2. SubSeq(s, 1, Len(s)) = s
    BY SubSeqFull
  <1>3. CASE Len(s) <= Len(t)
    <2>1. \A i \in 1..Len(s) : t[i] \in S
      BY <1>1, <1>3, ElementOfSeq
    <2>2. /\ SubSeq(t, 1, Len(s)) \in Seq(S)
          /\ Len(SubSeq(t, 1, Len(s))) = Len(s)
          /\ \A i \in 1..Len(s) : SubSeq(t, 1, Len(s))[i] = t[i]
      <3>1. Len(s) \in Int /\ 1 \in Int
        BY <1>1
      <3>2. /\ SubSeq(t, 1, Len(s)) \in Seq(S)
            /\ Len(SubSeq(t, 1, Len(s))) = IF 1 <= Len(s) THEN Len(s) - 1 + 1 ELSE 0
            /\ \A i \in 1 .. Len(s) - 1 + 1 : SubSeq(t, 1, Len(s))[i] = t[1 + i - 1]
        BY <2>1, <3>1, SubSeqProperties
      <3> QED BY <1>1, <3>2
    <2>3. (\A i \in 1..Len(s) : t[i] = s[i]) => s = SubSeq(t, 1, Len(s))
      BY <2>2, SeqEqual
    <2> QED BY <1>2, <1>3, <2>2, <2>3 DEF Extends, IsPrefix
  <1>4. CASE ~(Len(s) <= Len(t))
    BY <1>4 DEF Extends, IsPrefix
  <1> QED BY <1>3, <1>4

-----------------------------------------------------------------------------
PCs  == {"idle", "open", "write", "rename"}
AnyCmd == Cmds \union {NoCmd}
Rec  == [pc : PCs, cmd : AnyCmd, text : Contents, fd : Inodes \union {NoInode}]

Types ==
    /\ path \in Inodes \union {NoInode} /\ tmp \in Inodes \union {NoInode}
    /\ synced \in Inodes \union {NoInode}
    /\ data \in [Inodes -> Contents]
    /\ proc \in [Procs -> Rec]
    /\ crossed \in BOOLEAN
    /\ faults \in Nat

LogOf(i) == IF i = NoInode THEN <<>> ELSE data[i].log

(* One command at a time. *)
Alone == \A p, q \in Procs : ~At(p, "idle") /\ ~At(q, "idle") => p = q

(* The temp file is neither the log nor what a power loss brings back; both of
   these are whole, and the latter is the older. *)
Disk ==
    /\ tmp # NoInode => tmp # path /\ tmp # synced
    /\ path # NoInode => data[path].shape = "whole"
    /\ synced # NoInode => data[synced].shape = "whole"
    /\ Extends(LogOf(path), LogOf(synced))

(* What a command carries continues the log it will replace. *)
Carries(p) ==
    /\ ~At(p, "idle") => /\ proc[p].text.shape = "whole"
                         /\ Extends(proc[p].text.log, LogOf(path))
    /\ At(p, "write") => /\ tmp # NoInode /\ proc[p].fd = tmp
                         /\ data[tmp].shape = "empty"
    /\ At(p, "rename") => /\ tmp # NoInode /\ proc[p].fd = tmp
                          /\ data[tmp].shape = "whole"
                          /\ Extends(data[tmp].log, LogOf(path))

Orderly == Alone /\ Disk /\ \A p \in Procs : Carries(p)
Inv == Types /\ (~crossed => Orderly)

-----------------------------------------------------------------------------
LEMMA Constants ==
    /\ NoInode \notin Inodes
    /\ Empty \in Contents /\ Empty.shape = "empty" /\ Whole(<<>>) \in Contents
    /\ Idle \in Rec /\ Idle.pc = "idle"
  <1>1. <<>> \in Seq(Entry)
    OBVIOUS
  <1>2. Empty \in Contents /\ Empty.shape = "empty" /\ Whole(<<>>) \in Contents
    BY <1>1 DEF Empty, Whole, Contents
  <1> QED BY <1>2, MemlogAssumption DEF Idle, Rec, PCs, AnyCmd

LEMMA ComposedOK ==
    ASSUME Inv, NEW p \in Procs, NEW c \in Cmds, Begin(p, c)
    PROVE  /\ Composed(c) \in Contents
           /\ ~crossed => /\ Composed(c).shape = "whole"
                          /\ Extends(Composed(c).log, LogOf(path))
  <1>1. CASE c.op = "init"
    <2>1. path = NoInode /\ Composed(c) = Whole(<<>>)
      BY <1>1 DEF Begin, MayInit, Composed
    <2>2. Whole(<<>>).shape = "whole" /\ Whole(<<>>).log = <<>>
      BY DEF Whole
    <2> QED BY <2>1, <2>2, Constants DEF LogOf, Extends
  <1>2. CASE c.op # "init"
    <2>1. path \in Inodes /\ data[path] \in Contents /\ path # NoInode
      BY <1>2 DEF Begin, Inv, Types
    <2>2. ~crossed => data[path].shape = "whole"
      BY <2>1 DEF Inv, Orderly, Disk
    <2>3. LogOf(path) = data[path].log /\ data[path].log \in Seq(Entry)
      BY <2>1 DEF LogOf, Contents
    <2>4. CASE c.op = "set"
      <3>1. Composed(c) = data[path]
        BY <1>2, <2>4 DEF Composed
      <3> QED BY <2>1, <2>2, <2>3, <3>1 DEF Extends
    <2>5. CASE c.op # "set"
      <3>1. c.entry \in Entry
        BY <1>2, <2>5 DEF Cmds
      <3>2. Composed(c) = [data[path] EXCEPT !.log = Append(@, c.entry)]
        BY <1>2, <2>5 DEF Composed, Landing
      <3>3. Append(data[path].log, c.entry) \in Seq(Entry)
        BY <2>3, <3>1
      <3>4. /\ Composed(c) \in Contents
            /\ Composed(c).shape = data[path].shape
            /\ Composed(c).log = Append(data[path].log, c.entry)
        BY <2>1, <3>2, <3>3 DEF Contents
      <3>5. Extends(Append(data[path].log, c.entry), data[path].log)
        BY <2>3, <3>1 DEF Extends
      <3> QED BY <2>2, <2>3, <3>4, <3>5
    <2> QED BY <2>4, <2>5
  <1> QED BY <1>1, <1>2

-----------------------------------------------------------------------------
(* What a step of p does to the commands. *)

Moved(p, at) ==
    /\ proc' \in [Procs -> Rec] /\ proc'[p].pc = at
    /\ \A q \in Procs \ {p} : proc'[q] = proc[q]

(* While nothing overlaps, the other commands are idle and ask for nothing. *)
LEMMA OnlyOne ==
    ASSUME Inv, NEW p \in Procs, NEW at \in PCs, Moved(p, at), ~crossed,
           ~At(p, "idle") \/ \A q \in Procs : At(q, "idle")
    PROVE  Alone' /\ \A q \in Procs \ {p} : Carries(q)'
  <1>1. \A q \in Procs \ {p} : At(q, "idle")
    BY DEF Inv, Orderly, Alone
  <1>2. \A q \in Procs \ {p} : proc'[q].pc = "idle"
    BY <1>1 DEF Moved, At
  <1> QED BY <1>2 DEF Alone, Carries, At

LEMMA ToIdle ==
    ASSUME Types, NEW p \in Procs, proc' = [proc EXCEPT ![p] = Idle]
    PROVE  Moved(p, "idle")
  BY Constants DEF Types, Moved

LEMMA ToRename ==
    ASSUME Types, NEW p \in Procs, proc' = [proc EXCEPT ![p].pc = "rename"]
    PROVE  /\ Moved(p, "rename")
           /\ proc'[p].fd = proc[p].fd /\ proc'[p].text = proc[p].text
           /\ proc'[p].cmd = proc[p].cmd
  BY DEF Types, Moved, Rec, PCs

LEMMA ToWrite ==
    ASSUME Types, NEW p \in Procs, NEW i \in Inodes,
           proc' = [proc EXCEPT ![p].pc = "write", ![p].fd = i]
    PROVE  /\ Moved(p, "write")
           /\ proc'[p].fd = i /\ proc'[p].text = proc[p].text
           /\ proc'[p].cmd = proc[p].cmd
  BY DEF Types, Moved, Rec, PCs

LEMMA BeginStep ==
    ASSUME Inv, NEW p \in Procs, NEW c \in Cmds, Begin(p, c)
    PROVE  Inv'
  <1> DEFINE t == Composed(c)
             r == [Idle EXCEPT !.pc = "open", !.cmd = c, !.text = t]
  <1>1. /\ UNCHANGED <<path, tmp, synced, data, faults>>
        /\ proc' = [proc EXCEPT ![p] = r]
        /\ crossed' = (crossed \/ \E q \in Procs : ~At(q, "idle"))
    BY DEF Begin
  <1>2. t \in Contents /\ (~crossed => t.shape = "whole" /\ Extends(t.log, LogOf(path)))
    BY ComposedOK
  <1> HIDE DEF t
  <1>3. c \in AnyCmd /\ Idle \in Rec /\ "open" \in PCs
    BY Constants DEF AnyCmd, PCs
  <1>4. r \in Rec /\ r.pc = "open" /\ r.text = t
    BY <1>2, <1>3 DEF Rec
  <1> HIDE DEF r
  <1>5. Moved(p, "open") /\ proc'[p].text = t
    BY <1>1, <1>4 DEF Inv, Types, Moved
  <1>6. crossed' \in BOOLEAN
    BY <1>1
  <1>7. Types'
    BY <1>1, <1>5, <1>6 DEF Inv, Types, Moved
  <1>8. ASSUME ~crossed' PROVE Orderly'
    <2>1. ~crossed /\ \A q \in Procs : At(q, "idle")
      BY <1>1, <1>8
    <2>2. Alone' /\ \A q \in Procs \ {p} : Carries(q)'
      BY <1>5, <2>1, OnlyOne DEF PCs
    <2>3. Disk' /\ LogOf(path)' = LogOf(path)
      BY <1>1, <2>1 DEF Inv, Orderly, Disk, LogOf
    <2>4. Carries(p)'
      BY <1>2, <1>5, <2>1, <2>3 DEF Carries, At, Moved
    <2> QED BY <2>2, <2>3, <2>4 DEF Orderly
  <1> QED BY <1>7, <1>8 DEF Inv

(* The temp file is emptied, or made: in either case it is no other file. *)
LEMMA OpenStep ==
    ASSUME Inv, NEW p \in Procs, OpenTemp(p)
    PROVE  Inv'
  <1>1. PICK i \in Target :
            /\ tmp' = i
            /\ data' = [data EXCEPT ![i] = Empty]
            /\ proc' = [proc EXCEPT ![p].pc = "write", ![p].fd = i]
    BY DEF OpenTemp
  <1>2. i \in Inodes /\ i # NoInode
    BY Constants DEF Inv, Types, Target, Free
  <1>3. UNCHANGED <<path, synced, crossed, faults>> /\ At(p, "open")
    BY DEF OpenTemp
  <1>4. /\ Moved(p, "write")
        /\ proc'[p].fd = i /\ proc'[p].text = proc[p].text
    BY <1>1, <1>2, ToWrite DEF Inv
  <1>5. data' \in [Inodes -> Contents] /\ data'[i] = Empty
    BY <1>1, <1>2, Constants DEF Inv, Types
  <1>6. Types'
    BY <1>1, <1>2, <1>3, <1>4, <1>5 DEF Inv, Types, Moved
  <1>7. ASSUME ~crossed' PROVE Orderly'
    <2>1. ~crossed /\ Disk /\ Carries(p)
      BY <1>3, <1>7 DEF Inv, Orderly
    <2>2. Alone' /\ \A q \in Procs \ {p} : Carries(q)'
      BY <1>3, <1>4, <2>1, OnlyOne DEF PCs, At
    <2>3. i # path /\ i # synced
      BY <1>2, <2>1 DEF Target, Free, Disk
    <2>4. /\ path # NoInode => data'[path] = data[path]
          /\ synced # NoInode => data'[synced] = data[synced]
      BY <1>1, <2>3 DEF Inv, Types
    <2>5. LogOf(path)' = LogOf(path) /\ LogOf(synced)' = LogOf(synced)
      BY <1>3, <2>4 DEF LogOf
    <2>6. Disk'
      BY <1>1, <1>3, <2>1, <2>3, <2>4, <2>5 DEF Disk
    <2>7. Carries(p)'
      BY <1>1, <1>2, <1>3, <1>4, <1>5, <2>1, <2>5, Constants DEF Carries, At, Moved
    <2> QED BY <2>2, <2>6, <2>7 DEF Orderly
  <1> QED BY <1>6, <1>7 DEF Inv

LEMMA WriteStep ==
    ASSUME Inv, NEW p \in Procs, WriteTemp(p)
    PROVE  Inv'
  <1> DEFINE i == proc[p].fd
             Ragged == [proc[p].text EXCEPT !.shape = "ragged"]
  <1>1. /\ At(p, "write") /\ proc' = [proc EXCEPT ![p].pc = "rename"]
        /\ UNCHANGED <<path, tmp, synced, crossed, faults>>
        /\ \/ data' = [data EXCEPT ![i] = proc[p].text]
           \/ data[i].shape # "empty" /\ data' = [data EXCEPT ![i] = Ragged]
    BY DEF WriteTemp
  <1>2. proc[p].text \in Contents
    BY DEF Inv, Types, Rec
  <1>3. Ragged \in Contents
    BY <1>2 DEF Contents
  <1>4. /\ Moved(p, "rename")
        /\ proc'[p].fd = i /\ proc'[p].text = proc[p].text
    BY <1>1, ToRename DEF Inv
  <1>5. data' \in [Inodes -> Contents]
    BY <1>1, <1>2, <1>3 DEF Inv, Types
  <1>6. Types'
    BY <1>1, <1>4, <1>5 DEF Inv, Types, Moved
  <1>7. ASSUME ~crossed' PROVE Orderly'
    <2>1. ~crossed /\ Disk /\ Carries(p)
      BY <1>1, <1>7 DEF Inv, Orderly
    <2>2. Alone' /\ \A q \in Procs \ {p} : Carries(q)'
      BY <1>1, <1>4, <2>1, OnlyOne DEF PCs, At
    <2>3. /\ tmp # NoInode /\ i = tmp /\ data[tmp].shape = "empty"
          /\ proc[p].text.shape = "whole"
          /\ Extends(proc[p].text.log, LogOf(path))
      BY <1>1, <2>1 DEF Carries, At
    <2>4. data' = [data EXCEPT ![tmp] = proc[p].text] /\ tmp \in Inodes
      BY <1>1, <2>3 DEF Inv, Types
    <2>5. /\ path # NoInode => data'[path] = data[path]
          /\ synced # NoInode => data'[synced] = data[synced]
          /\ data'[tmp] = proc[p].text
      BY <2>1, <2>3, <2>4 DEF Inv, Types, Disk
    <2>6. LogOf(path)' = LogOf(path) /\ LogOf(synced)' = LogOf(synced)
      BY <1>1, <2>5 DEF LogOf
    <2>7. Disk'
      BY <1>1, <2>1, <2>5, <2>6 DEF Disk
    <2>8. Carries(p)'
      BY <1>1, <1>4, <2>3, <2>5, <2>6 DEF Carries, At, Moved
    <2> QED BY <2>2, <2>7, <2>8 DEF Orderly
  <1> QED BY <1>6, <1>7 DEF Inv

(* Prefixes of prefixes. *)
LEMMA ExtendsTrans ==
    ASSUME NEW S, NEW s \in Seq(S), NEW t \in Seq(S), NEW u \in Seq(S),
           Extends(t, s), Extends(u, t)
    PROVE  Extends(u, s)
  BY DEF Extends

LEMMA LogsAreLogs ==
    ASSUME Types
    PROVE  LogOf(path) \in Seq(Entry) /\ LogOf(synced) \in Seq(Entry)
  BY DEF Types, LogOf, Contents

LEMMA RenameStep ==
    ASSUME Inv, NEW p \in Procs, Rename(p)
    PROVE  Inv' /\ (~crossed => Extends(LogOf(path)', LogOf(path)))
  <1>1. /\ At(p, "rename") /\ tmp # NoInode /\ path' = tmp /\ tmp' = NoInode
        /\ proc' = [proc EXCEPT ![p] = Idle]
        /\ UNCHANGED <<synced, data, crossed, faults>>
    BY DEF Rename
  <1>2. Moved(p, "idle")
    BY <1>1, ToIdle DEF Inv
  <1>3. Types'
    BY <1>1, <1>2 DEF Inv, Types, Moved
  <1>4. ASSUME ~crossed PROVE Orderly' /\ Extends(LogOf(path)', LogOf(path))
    <2>1. Disk /\ Carries(p)
      BY <1>4 DEF Inv, Orderly
    <2>2. Alone' /\ \A q \in Procs \ {p} : Carries(q)'
      BY <1>1, <1>2, <1>4, OnlyOne DEF PCs, At
    <2>3. data[tmp].shape = "whole" /\ Extends(data[tmp].log, LogOf(path))
      BY <1>1, <2>1 DEF Carries, At
    <2>4. LogOf(path)' = data[tmp].log /\ LogOf(synced)' = LogOf(synced)
      BY <1>1 DEF LogOf
    <2>5. Extends(LogOf(path), LogOf(synced))
      BY <2>1 DEF Disk
    <2>6. /\ data[tmp].log \in Seq(Entry) /\ LogOf(path) \in Seq(Entry)
          /\ LogOf(synced) \in Seq(Entry)
      BY <1>1, LogsAreLogs DEF Inv, Types, Contents
    <2>7. Extends(data[tmp].log, LogOf(synced))
      BY <2>3, <2>5, <2>6, ExtendsTrans
    <2>8. Disk'
      BY <1>1, <2>1, <2>3, <2>4, <2>7 DEF Disk
    <2>9. Carries(p)'
      BY <1>2 DEF Carries, At, Moved
    <2> QED BY <2>2, <2>3, <2>4, <2>8, <2>9 DEF Orderly
  <1> QED BY <1>1, <1>3, <1>4 DEF Inv

LEMMA KillStep ==
    ASSUME Inv, NEW p \in Procs, RenameFails(p) \/ Kill(p)
    PROVE  Inv' /\ path' = path /\ (~crossed => LogOf(path)' = LogOf(path))
  <1> DEFINE Ragged == [proc[p].text EXCEPT !.shape = "ragged"]
  <1>1. /\ ~At(p, "idle") /\ proc' = [proc EXCEPT ![p] = Idle]
        /\ UNCHANGED <<path, tmp, synced, crossed>>
        /\ faults' \in {faults, faults + 1}
        /\ \/ data' = data
           \/ At(p, "write") /\ data' = [data EXCEPT ![proc[p].fd] = Ragged]
    BY DEF RenameFails, Kill, At
  <1>2. Moved(p, "idle")
    BY <1>1, ToIdle DEF Inv
  <1>3. data' \in [Inodes -> Contents]
    <2>1. proc[p].text \in Contents
      BY DEF Inv, Types, Rec
    <2>2. Ragged \in Contents
      BY <2>1 DEF Contents
    <2> QED BY <1>1, <2>2 DEF Inv, Types
  <1>4. Types'
    BY <1>1, <1>2, <1>3 DEF Inv, Types, Moved
  <1>5. ASSUME ~crossed PROVE Orderly' /\ LogOf(path)' = LogOf(path)
    <2>1. Disk /\ Carries(p)
      BY <1>5 DEF Inv, Orderly
    <2>2. Alone' /\ \A q \in Procs \ {p} : Carries(q)'
      BY <1>1, <1>2, <1>5, OnlyOne DEF PCs
    <2>3. At(p, "write") => tmp # NoInode /\ proc[p].fd = tmp
      BY <2>1 DEF Carries
    <2>4. /\ path # NoInode => data'[path] = data[path]
          /\ synced # NoInode => data'[synced] = data[synced]
      BY <1>1, <2>1, <2>3 DEF Inv, Types, Disk
    <2>5. LogOf(path)' = LogOf(path) /\ LogOf(synced)' = LogOf(synced)
      BY <1>1, <2>4 DEF LogOf
    <2>6. Disk'
      BY <1>1, <2>1, <2>4, <2>5 DEF Disk
    <2>7. Carries(p)'
      BY <1>2 DEF Carries, At, Moved
    <2> QED BY <2>2, <2>5, <2>6, <2>7 DEF Orderly
  <1> QED BY <1>1, <1>4, <1>5 DEF Inv

LEMMA SyncStep ==
    ASSUME Inv, SyncDirectory
    PROVE  Inv' /\ LogOf(path)' = LogOf(path)
  <1>1. synced' = path /\ UNCHANGED <<path, tmp, data, proc, crossed, faults>>
    BY DEF SyncDirectory
  <1>2. LogOf(path)' = LogOf(path) /\ LogOf(synced)' = LogOf(path)
    BY <1>1 DEF LogOf
  <1>3. Types'
    BY <1>1 DEF Inv, Types
  <1>4. ASSUME ~crossed' PROVE Orderly'
    <2>1. Orderly
      BY <1>1, <1>4 DEF Inv
    <2>2. Extends(LogOf(path), LogOf(path))
      BY LogsAreLogs DEF Inv, Extends
    <2>3. Disk'
      BY <1>1, <1>2, <2>1, <2>2 DEF Orderly, Disk
    <2>4. Alone' /\ \A p \in Procs : Carries(p)'
      BY <1>1, <1>2, <2>1 DEF Orderly, Alone, Carries, At
    <2> QED BY <2>3, <2>4 DEF Orderly
  <1> QED BY <1>2, <1>3, <1>4 DEF Inv

LEMMA PowerStep ==
    ASSUME Inv, PowerLoss
    PROVE  /\ Inv' /\ path' = synced /\ faults' # faults
           /\ ~crossed => Extends(LogOf(path), LogOf(path)')
  <1>1. /\ path' = synced /\ tmp' \in ({tmp, path} \ {synced}) \union {NoInode}
        /\ proc' = [p \in Procs |-> Idle] /\ faults' = faults + 1
        /\ UNCHANGED <<synced, data, crossed>>
    BY DEF PowerLoss
  <1>2. \A p \in Procs : proc'[p].pc = "idle"
    BY <1>1, Constants
  <1>3. LogOf(path)' = LogOf(synced) /\ LogOf(synced)' = LogOf(synced)
    BY <1>1 DEF LogOf
  <1>4. Types'
    BY <1>1, Constants DEF Inv, Types
  <1>5. ASSUME ~crossed PROVE Orderly' /\ Extends(LogOf(path), LogOf(synced))
    <2>1. Disk
      BY <1>5 DEF Inv, Orderly
    <2>2. Extends(LogOf(synced), LogOf(synced))
      BY LogsAreLogs DEF Inv, Extends
    <2>3. Disk'
      BY <1>1, <1>3, <2>1, <2>2 DEF Disk
    <2>4. Alone' /\ \A p \in Procs : Carries(p)'
      BY <1>2 DEF Alone, Carries, At
    <2> QED BY <2>1, <2>3, <2>4 DEF Orderly, Disk
  <1> QED BY <1>1, <1>3, <1>4, <1>5 DEF Inv, Types

-----------------------------------------------------------------------------
LEMMA InitInv == Init => Inv
  <1> SUFFICES ASSUME Init PROVE Inv
    OBVIOUS
  <1>1. /\ path = NoInode /\ tmp = NoInode /\ synced = NoInode
        /\ data = [i \in Inodes |-> Empty]
        /\ proc = [p \in Procs |-> Idle] /\ crossed = FALSE /\ faults = 0
    BY DEF Init
  <1>2. Types
    BY <1>1, Constants DEF Types
  <1>3. \A p \in Procs : proc[p].pc = "idle"
    BY <1>1, Constants
  <1>4. Disk
    BY <1>1 DEF Disk, LogOf, Extends
  <1>5. Alone /\ \A p \in Procs : Carries(p)
    BY <1>3 DEF Alone, Carries, At
  <1> QED BY <1>2, <1>4, <1>5 DEF Inv, Orderly

LEMMA NextCases ==
    ASSUME [Next]_vars
    PROVE  \/ \E p \in Procs, c \in Cmds : Begin(p, c)
           \/ \E p \in Procs : OpenTemp(p)
           \/ \E p \in Procs : WriteTemp(p)
           \/ \E p \in Procs : Rename(p)
           \/ \E p \in Procs : RenameFails(p) \/ Kill(p)
           \/ SyncDirectory
           \/ PowerLoss
           \/ UNCHANGED vars
  BY DEF Next

LEMMA StutterStep == Inv /\ UNCHANGED vars => Inv' /\ LogOf(path)' = LogOf(path)
  <1> SUFFICES ASSUME Inv, UNCHANGED vars PROVE Inv' /\ LogOf(path)' = LogOf(path)
    OBVIOUS
  <1>1. UNCHANGED <<path, tmp, synced, data, proc, crossed, faults>>
    BY DEF vars
  <1>2. Types' /\ LogOf(path)' = LogOf(path) /\ LogOf(synced)' = LogOf(synced)
    BY <1>1 DEF Inv, Types, LogOf
  <1>3. Orderly => Orderly'
    BY <1>1, <1>2 DEF Orderly, Alone, Disk, Carries, At
  <1> QED BY <1>1, <1>2, <1>3 DEF Inv

LEMMA StepInv == Inv /\ [Next]_vars => Inv'
  <1> SUFFICES ASSUME Inv, [Next]_vars PROVE Inv'
    OBVIOUS
  <1>1. CASE \E p \in Procs, c \in Cmds : Begin(p, c)
    BY <1>1, BeginStep
  <1>2. CASE \E p \in Procs : OpenTemp(p)
    BY <1>2, OpenStep
  <1>3. CASE \E p \in Procs : WriteTemp(p)
    BY <1>3, WriteStep
  <1>4. CASE \E p \in Procs : Rename(p)
    BY <1>4, RenameStep
  <1>5. CASE \E p \in Procs : RenameFails(p) \/ Kill(p)
    BY <1>5, KillStep
  <1>6. CASE SyncDirectory
    BY <1>6, SyncStep
  <1>7. CASE PowerLoss
    BY <1>7, PowerStep
  <1>8. CASE UNCHANGED vars
    BY <1>8, StutterStep
  <1> QED BY <1>1, <1>2, <1>3, <1>4, <1>5, <1>6, <1>7, <1>8, NextCases

LEMMA Invariance == Spec => []Inv
  BY InitInv, StepInv, PTL DEF Spec

(* As long as commands do not overlap the log is whole, whichever of them was
   killed wherever, and however often the power failed. *)
THEOREM LogIsWhole == Spec => []NeverHalfWritten
  <1>1. Inv => NeverHalfWritten
    BY DEF Inv, Orderly, Disk, NeverHalfWritten
  <1> QED BY <1>1, Invariance, PTL

(* A step that leaves what the log's name leads to leaves the log. *)
LEMMA LogKept ==
    ASSUME Inv, ~crossed', [Next]_vars,
           ~ \E p \in Procs : Rename(p), ~PowerLoss
    PROVE  ~crossed /\ LogOf(path)' = LogOf(path)
  <1>1. ~crossed
    BY NextCases DEF Begin, OpenTemp, WriteTemp, RenameFails, Kill, SyncDirectory, vars
  <1>2. CASE \E p \in Procs, c \in Cmds : Begin(p, c)
    BY <1>1, <1>2 DEF Begin, LogOf
  <1>3. CASE \E p \in Procs : OpenTemp(p)
    <2>1. PICK i \in Target : data' = [data EXCEPT ![i] = Empty] /\ path' = path
      BY <1>3 DEF OpenTemp
    <2>2. i # path
      BY <1>1, <2>1, Constants DEF Inv, Orderly, Disk, Target, Free
    <2> QED BY <1>1, <2>1, <2>2 DEF LogOf, Inv, Types
  <1>4. CASE \E p \in Procs : WriteTemp(p)
    <2>1. PICK p \in Procs : WriteTemp(p)
      BY <1>4
    <2>2. /\ At(p, "write") /\ path' = path
          /\ \E t : data' = [data EXCEPT ![proc[p].fd] = t]
      BY <2>1 DEF WriteTemp
    <2>3. proc[p].fd # path \/ path = NoInode
      BY <1>1, <2>2 DEF Inv, Orderly, Carries, Disk
    <2> QED BY <1>1, <2>2, <2>3 DEF LogOf, Inv, Types
  <1>5. CASE \E p \in Procs : RenameFails(p) \/ Kill(p)
    BY <1>1, <1>5, KillStep
  <1>6. CASE SyncDirectory
    BY <1>1, <1>6, SyncStep
  <1>7. CASE UNCHANGED vars
    BY <1>1, <1>7, StutterStep
  <1> QED BY <1>2, <1>3, <1>4, <1>5, <1>6, <1>7, NextCases

(* As long as commands do not overlap every version of the log continues the
   one before, except that a power loss goes back to one of its beginnings. *)
THEOREM LogOnlyGrows == Spec => AppendOnly
  <1> DEFINE Grows == ~crossed' => \/ IsPrefix(Log, Log')
                                   \/ /\ path' = synced /\ faults' # faults
                                      /\ IsPrefix(Log', Log)
  <1>1. Log = LogOf(path)
    BY DEF Log, LogOf
  <1>2. Log' = LogOf(path)'
    BY DEF Log, LogOf
  <1>3. ASSUME Inv, Inv', [Next]_vars, ~crossed'
        PROVE  \/ Extends(LogOf(path)', LogOf(path))
               \/ /\ path' = synced /\ faults' # faults
                  /\ Extends(LogOf(path), LogOf(path)')
    <2>1. CASE \E p \in Procs : Rename(p)
      <3>1. crossed' = crossed
        BY <2>1 DEF Rename
      <3> QED BY <1>3, <2>1, <3>1, RenameStep
    <2>2. CASE PowerLoss
      <3>1. crossed' = crossed
        BY <2>2 DEF PowerLoss
      <3> QED BY <1>3, <2>2, <3>1, PowerStep
    <2>3. CASE (~ \E p \in Procs : Rename(p)) /\ ~PowerLoss
      <3>1. LogOf(path)' = LogOf(path)
        BY <1>3, <2>3, LogKept
      <3>2. Extends(LogOf(path), LogOf(path))
        BY <1>3, LogsAreLogs DEF Inv, Extends
      <3> QED BY <3>1, <3>2
    <2> QED BY <2>1, <2>2, <2>3
  <1>4. ASSUME Inv, Inv', [Next]_vars PROVE Grows
    <2>1. LogOf(path) \in Seq(Entry) /\ LogOf(path)' \in Seq(Entry)
      BY <1>4, LogsAreLogs DEF Inv, Types, LogOf, Contents
    <2>2. /\ Extends(LogOf(path)', LogOf(path)) <=> IsPrefix(LogOf(path), LogOf(path)')
          /\ Extends(LogOf(path), LogOf(path)') <=> IsPrefix(LogOf(path)', LogOf(path))
      BY <2>1, ExtendsIsPrefix
    <2> QED BY <1>1, <1>2, <1>3, <1>4, <2>2
  <1>5. Inv /\ Inv' /\ [Next]_vars => [Grows]_vars
    BY <1>4
  <1> QED BY <1>5, Invariance, PTL DEF Spec, AppendOnly

-----------------------------------------------------------------------------
EndsWith(log, e) == Len(log) > 0 /\ log[Len(log)] = e

(* The last claim is the one a reference is counted under. *)
LEMMA LastIsCurrent ==
    ASSUME NEW log \in Seq(Entry), NEW e \in Entry, EndsWith(log, e)
    PROVE  Len(log) \in Claims(log, e.ref) /\ Current(log, e.ref) = e.status
  <1> DEFINE n == Len(log)
             newest == CHOOSE i \in Claims(log, e.ref) :
                            \A j \in Claims(log, e.ref) : j <= i
  <1>1. n \in Nat /\ DOMAIN log = 1..n /\ n \in 1..n /\ log[n] = e
    BY DEF EndsWith
  <1>2. n \in Claims(log, e.ref)
    BY <1>1 DEF Claims
  <1>3. \A j \in Claims(log, e.ref) : j \in Nat /\ j <= n
    BY <1>1 DEF Claims
  <1>4. newest \in Claims(log, e.ref) /\ n <= newest
    BY <1>2, <1>3
  <1>5. newest = n
    BY <1>1, <1>3, <1>4
  <1>6. Current(log, e.ref) = log[newest].status
    BY DEF Current
  <1> QED BY <1>1, <1>2, <1>5, <1>6

(* There are finitely many sources with a claim, however many there are. *)
LEMMA LastIsCounted ==
    ASSUME NEW log \in Seq(Entry), NEW e \in Entry, EndsWith(log, e),
           e.ref # NoRef
    PROVE  Tally(log, e.status) > 0
  <1> DEFINE s == e.status
             sources == {r \in Refs : Claims(log, r) # {} /\ Current(log, r) = s}
             made == {i \in 1..Len(log) : log[i].ref \in sources}
             of == [i \in made |-> log[i].ref]
             loose == {i \in Claims(log, NoRef) : log[i].status = s}
  <1>1. Len(log) \in Nat /\ DOMAIN log = 1..Len(log)
    OBVIOUS
  <1>2. IsFiniteSet(1..Len(log))
    BY <1>1, FS_Interval
  <1>3. IsFiniteSet(made) /\ IsFiniteSet(loose)
    <2>1. made \in SUBSET (1..Len(log)) /\ loose \in SUBSET (1..Len(log))
      BY <1>1 DEF Claims
    <2> QED BY <1>2, <2>1, FS_Subset
  <1>4. of \in Surjection(made, sources)
    <2>1. of \in [made -> sources]
      OBVIOUS
    <2>2. \A r \in sources : \E i \in made : of[i] = r
      BY <1>1 DEF Claims
    <2> HIDE DEF of, made, sources
    <2> QED BY <2>1, <2>2 DEF Surjection
  <1>5. IsFiniteSet(sources)
    <2> HIDE DEF of, made, sources
    <2> QED BY <1>3, <1>4, FS_Surjection
  <1>6. e.ref \in sources
    <2>1. e.ref \in Refs
      BY DEF Entry
    <2>2. Len(log) \in Claims(log, e.ref) /\ Current(log, e.ref) = s
      BY LastIsCurrent
    <2> QED BY <2>1, <2>2
  <1>7. Tally(log, s) = Cardinality(sources) + Cardinality(loose)
    BY DEF Tally
  <1> HIDE DEF s, sources, loose
  <1>8. Cardinality(sources) \in Nat /\ Cardinality(loose) \in Nat
    BY <1>3, <1>5, FS_CardinalityType
  <1>9. Cardinality(sources) # 0
    BY <1>5, <1>6, FS_EmptySet
  <1>10. Tally(log, s) > 0
    BY <1>7, <1>8, <1>9
  <1> QED BY <1>10 DEF s

(* What an append will rename ends with its entry. *)
Landed(p) ==
    ~At(p, "idle") /\ proc[p].cmd.op = "append"
        => /\ proc[p].cmd.entry \in Entry
           /\ EndsWith(proc[p].text.log, proc[p].cmd.entry)
           /\ At(p, "rename") => data[tmp].log = proc[p].text.log

LandedInv == Inv /\ (~crossed => \A p \in Procs : Landed(p))

(* What an append composes ends with its entry. *)
LEMMA ComposedEnds ==
    ASSUME Inv, NEW p \in Procs, NEW c \in Cmds, Begin(p, c), c.op = "append"
    PROVE  c.entry \in Entry /\ EndsWith(Composed(c).log, c.entry)
  <1>1. path \in Inodes /\ data[path] \in Contents
    BY DEF Begin, Inv, Types
  <1>2. data[path].log \in Seq(Entry)
    BY <1>1 DEF Contents
  <1>3. c.entry \in Entry
    BY DEF Cmds
  <1>4. Composed(c) = [data[path] EXCEPT !.log = Append(@, c.entry)]
    BY DEF Composed, Landing
  <1>5. Composed(c).log = Append(data[path].log, c.entry)
    BY <1>1, <1>4 DEF Contents
  <1>6. EndsWith(Append(data[path].log, c.entry), c.entry)
    BY <1>2, <1>3 DEF EndsWith
  <1> QED BY <1>3, <1>5, <1>6

(* A command that ended lands nothing, and the others are idle. *)
LEMMA OthersLanded ==
    ASSUME Inv, NEW p \in Procs, NEW k \in PCs, Moved(p, k), ~crossed,
           ~At(p, "idle") \/ \A q \in Procs : At(q, "idle")
    PROVE  /\ \A q \in Procs \ {p} : Landed(q)'
           /\ k = "idle" => Landed(p)'
  <1>1. \A q \in Procs \ {p} : At(q, "idle")
    BY DEF Inv, Orderly, Alone
  <1>2. \A q \in Procs \ {p} : proc'[q].pc = "idle"
    BY <1>1 DEF Moved, At
  <1> QED BY <1>2 DEF Landed, At, Moved

LEMMA LandedBegin ==
    ASSUME LandedInv, NEW p \in Procs, NEW c \in Cmds, Begin(p, c), ~crossed'
    PROVE  \A q \in Procs : Landed(q)'
  <1> DEFINE t == Composed(c)
             r == [Idle EXCEPT !.pc = "open", !.cmd = c, !.text = t]
  <1>1. /\ proc' = [proc EXCEPT ![p] = r]
        /\ ~crossed /\ \A q \in Procs : At(q, "idle")
    BY DEF Begin
  <1>2. t \in Contents
    BY ComposedOK DEF LandedInv
  <1>3. c \in AnyCmd /\ Idle \in Rec /\ "open" \in PCs
    BY Constants DEF AnyCmd, PCs
  <1>4. c.op = "append" => c.entry \in Entry /\ EndsWith(t.log, c.entry)
    BY ComposedEnds DEF LandedInv
  <1> HIDE DEF t
  <1>5. r \in Rec /\ r.pc = "open" /\ r.text = t /\ r.cmd = c
    BY <1>2, <1>3 DEF Rec
  <1> HIDE DEF r
  <1>6. Moved(p, "open") /\ proc'[p] = r
    BY <1>1, <1>5 DEF LandedInv, Inv, Types, Moved
  <1>7. \A q \in Procs \ {p} : Landed(q)'
    BY <1>1, <1>3, <1>6, OthersLanded DEF LandedInv
  <1>8. Landed(p)'
    BY <1>4, <1>5, <1>6 DEF Landed, At
  <1> QED BY <1>7, <1>8

LEMMA LandedOpen ==
    ASSUME LandedInv, NEW p \in Procs, OpenTemp(p), ~crossed'
    PROVE  \A q \in Procs : Landed(q)'
  <1>1. PICK i \in Target : proc' = [proc EXCEPT ![p].pc = "write", ![p].fd = i]
    BY DEF OpenTemp
  <1>2. ~crossed /\ At(p, "open") /\ Landed(p)
    BY DEF OpenTemp, LandedInv
  <1>3. i \in Inodes
    BY Constants DEF LandedInv, Inv, Types, Target, Free
  <1>4. Moved(p, "write") /\ proc'[p].text = proc[p].text /\ proc'[p].cmd = proc[p].cmd
    BY <1>1, <1>3, ToWrite DEF LandedInv, Inv
  <1>5. \A q \in Procs \ {p} : Landed(q)'
    BY <1>2, <1>4, OthersLanded DEF LandedInv, PCs, At
  <1>6. Landed(p)'
    BY <1>2, <1>4 DEF Landed, At, Moved
  <1> QED BY <1>5, <1>6

LEMMA LandedWrite ==
    ASSUME LandedInv, NEW p \in Procs, WriteTemp(p), ~crossed'
    PROVE  \A q \in Procs : Landed(q)'
  <1> DEFINE Ragged == [proc[p].text EXCEPT !.shape = "ragged"]
  <1>1. /\ At(p, "write") /\ proc' = [proc EXCEPT ![p].pc = "rename"] /\ tmp' = tmp
        /\ \/ data' = [data EXCEPT ![proc[p].fd] = proc[p].text]
           \/ data' = [data EXCEPT ![proc[p].fd] = Ragged]
        /\ ~crossed
    BY DEF WriteTemp
  <1>2. Landed(p) /\ tmp # NoInode /\ proc[p].fd = tmp /\ tmp \in Inodes
    BY <1>1 DEF LandedInv, Inv, Orderly, Carries, Types
  <1>3. Ragged.log = proc[p].text.log
    BY DEF LandedInv, Inv, Types, Rec, Contents
  <1> HIDE DEF Ragged
  <1>4. data'[tmp].log = proc[p].text.log
    BY <1>1, <1>2, <1>3 DEF LandedInv, Inv, Types
  <1>5. Moved(p, "rename") /\ proc'[p].text = proc[p].text /\ proc'[p].cmd = proc[p].cmd
    BY <1>1, ToRename DEF LandedInv, Inv
  <1>6. \A q \in Procs \ {p} : Landed(q)'
    BY <1>1, <1>5, OthersLanded DEF LandedInv, PCs, At
  <1>7. Landed(p)'
    BY <1>1, <1>2, <1>4, <1>5 DEF Landed, At
  <1> QED BY <1>6, <1>7

LEMMA LandedEnd ==
    ASSUME LandedInv, NEW p \in Procs, Rename(p) \/ RenameFails(p) \/ Kill(p), ~crossed'
    PROVE  \A q \in Procs : Landed(q)'
  <1>1. proc' = [proc EXCEPT ![p] = Idle] /\ ~crossed /\ ~At(p, "idle")
    BY DEF Rename, RenameFails, Kill, At
  <1>2. Moved(p, "idle")
    BY <1>1, ToIdle DEF LandedInv, Inv
  <1> QED BY <1>1, <1>2, OthersLanded DEF LandedInv, PCs

LEMMA LandedStep == LandedInv /\ [Next]_vars => LandedInv'
  <1> SUFFICES ASSUME LandedInv, [Next]_vars, ~crossed'
               PROVE  \A p \in Procs : Landed(p)'
    BY StepInv DEF LandedInv
  <1>1. CASE \E p \in Procs, c \in Cmds : Begin(p, c)
    BY <1>1, LandedBegin
  <1>2. CASE \E p \in Procs : OpenTemp(p)
    BY <1>2, LandedOpen
  <1>3. CASE \E p \in Procs : WriteTemp(p)
    BY <1>3, LandedWrite
  <1>4. CASE \E p \in Procs : Rename(p)
    BY <1>4, LandedEnd
  <1>5. CASE \E p \in Procs : RenameFails(p) \/ Kill(p)
    BY <1>5, LandedEnd
  <1>6. CASE SyncDirectory
    BY <1>6 DEF SyncDirectory, LandedInv, Landed, At
  <1>7. CASE PowerLoss
    <2>1. \A p \in Procs : proc'[p].pc = "idle"
      BY <1>7, Constants DEF PowerLoss
    <2> QED BY <2>1 DEF Landed, At
  <1>8. CASE UNCHANGED vars
    BY <1>8 DEF vars, LandedInv, Landed, At
  <1> QED BY <1>1, <1>2, <1>3, <1>4, <1>5, <1>6, <1>7, <1>8, NextCases

LEMMA LandedInvariance == Spec => []LandedInv
  <1>1. Init => LandedInv
    <2> SUFFICES ASSUME Init PROVE LandedInv
      OBVIOUS
    <2>1. \A p \in Procs : proc[p].pc = "idle"
      BY Constants DEF Init
    <2> QED BY <2>1, InitInv DEF LandedInv, Landed, At
  <1> QED BY <1>1, LandedStep, PTL DEF Spec

(* Only the rename of p itself makes the temp file the log. *)
LEMMA RenamesItself ==
    ASSUME Inv, ~crossed, NEW p \in Procs, At(p, "rename"), [Next]_vars,
           path' = tmp, tmp # NoInode
    PROVE  Rename(p)
  <1>1. tmp # path /\ tmp # synced
    BY DEF Inv, Orderly, Disk
  <1>2. ~PowerLoss /\ ~UNCHANGED path
    BY <1>1 DEF PowerLoss
  <1>3. \E q \in Procs : Rename(q)
    BY <1>2, NextCases DEF Begin, OpenTemp, WriteTemp, RenameFails, Kill, SyncDirectory, vars
  <1>4. PICK q \in Procs : Rename(q)
    BY <1>3
  <1>5. ~At(q, "idle") /\ ~At(p, "idle")
    BY <1>4 DEF Rename, At
  <1> QED BY <1>4, <1>5 DEF Inv, Orderly, Alone

(* As long as commands do not overlap, the status a successful append gives a
   source is the one tally counts for it, whatever the log said before. *)
THEOREM TallyCountsTheNewest == Spec => TallyIsNewest
  <1> DEFINE Lands(p) ==
                LET c == proc[p].cmd
                IN  /\ ~crossed /\ At(p, "rename") /\ c.op = "append" /\ c.entry.ref # NoRef
                    /\ path' = tmp /\ tmp # NoInode
                    => /\ Current(Log', c.entry.ref) = c.entry.status
                       /\ Tally(Log', c.entry.status) > 0
  <1>1. ASSUME LandedInv, [Next]_vars, NEW p \in Procs PROVE Lands(p)
    <2> DEFINE e == proc[p].cmd.entry
    <2> SUFFICES ASSUME ~crossed, At(p, "rename"), proc[p].cmd.op = "append",
                        e.ref # NoRef, path' = tmp, tmp # NoInode
                 PROVE  Current(Log', e.ref) = e.status /\ Tally(Log', e.status) > 0
      OBVIOUS
    <2>1. data' = data
      BY <1>1, RenamesItself DEF LandedInv, Rename
    <2>2. Log' = data[tmp].log
      BY <2>1 DEF Log
    <2>3. e \in Entry /\ EndsWith(data[tmp].log, e)
      BY <1>1 DEF LandedInv, Landed, At
    <2>4. data[tmp].log \in Seq(Entry)
      BY <1>1 DEF LandedInv, Inv, Types, Contents
    <2> HIDE DEF e
    <2> QED BY <2>2, <2>3, <2>4, LastIsCurrent, LastIsCounted
  <1>2. LandedInv /\ [Next]_vars => [\A p \in Procs : Lands(p)]_vars
    BY <1>1
  <1> QED BY <1>2, LandedInvariance, PTL DEF Spec, TallyIsNewest

-----------------------------------------------------------------------------
(* Knowledge *)

Bundle(ds) ==
    /\ DOMAIN ds \subseteq Paths /\ IsFiniteSet(DOMAIN ds)
    /\ \A p \in DOMAIN ds : ds[p] \in Doc

Right(ds, ix, d) == d \in DOMAIN ix /\ ix[d] = Entries(ds, d)
AllRight(ds, ix) == \A d \in Indexed(ds) : Right(ds, ix, d)
Settled(ds, p)   == Rewritten(ds, ds, ds[p]) = ds[p]

\* What a report of no findings says.
Linked(ds) ==
    \A p \in DOMAIN ds : ds[p].body # None => Resolved(ds, Dir(p), ds[p].body) # None
Listed(ds, ix) ==
    \A d \in Used(ds) : d \in DOMAIN ix /\ \A e \in ix[d] : e[1] \in DOMAIN ds

KnowledgeTypes ==
    /\ Bundle(docs) /\ Bundle(snap)
    /\ DOMAIN index \subseteq Dirs
    /\ pc \in {"idle", "load", "indexes", "fix", "rewrite", "report"}
    /\ pc \in {"fix", "rewrite"} => cmd = "fix"
    /\ pc = "report" /\ cmd = "fix" => todo = {}
    /\ pc = "rewrite" => text[1] \in Paths /\ text[2] \in Doc
    /\ clean \in BOOLEAN /\ calm \in BOOLEAN /\ indexed \in BOOLEAN
    /\ fixes \in 0..MaxFixes

Undisturbed == (indexed \/ fixes > 0 \/ clean) /\ pc # "idle" => calm

Indexing ==
    calm /\ pc = "indexes" =>
        /\ snap = docs
        /\ \A d \in Indexed(docs) \ todo : Right(docs, index, d)

Rewriting ==
    calm /\ pc \in {"fix", "rewrite"} =>
        /\ DOMAIN snap = DOMAIN docs
        /\ pc = "rewrite" => text[1] \in DOMAIN docs /\ docs[text[1]] = text[2]

Fixing == cmd = "fix" /\ calm /\ pc \in {"fix", "rewrite", "report"}

Settling ==
    Fixing => \A p \in DOMAIN docs \ todo :
                  (pc = "rewrite" => p # text[1]) => Settled(docs, p)

Again == Fixing /\ fixes >= 1 => AllRight(docs, index)

Promised ==
    /\ fixes >= 1 => \A p \in DOMAIN docs : Settled(docs, p)
    /\ indexed \/ fixes >= 2 => AllRight(docs, index)

Reported == clean => Linked(docs) /\ Listed(docs, index)

KnowledgeInv ==
    /\ KnowledgeTypes /\ Undisturbed /\ Indexing /\ Rewriting
    /\ Settling /\ Again /\ Promised /\ Reported

-----------------------------------------------------------------------------
(* The operators. *)

\* g is f, changed at x.
Updated(g, f, x, v) ==
    DOMAIN g = DOMAIN f \union {x} /\ g[x] = v /\ \A y \in DOMAIN f \ {x} : g[y] = f[y]

LEMMA WithIs ==
    ASSUME NEW f, NEW x, NEW v
    PROVE  Updated(With(f, x, v), f, x, v)
  BY DEF With, Updated

\* A concept is written.
LEMMA BundleWith ==
    ASSUME NEW ds, Bundle(ds), NEW p \in Paths, NEW doc \in Doc,
           NEW new, Updated(new, ds, p, doc)
    PROVE  Bundle(new)
  <1>1. IsFiniteSet(DOMAIN ds \union {p})
    BY FS_AddElement DEF Bundle
  <1> QED BY <1>1 DEF Bundle, Updated

\* A concept is removed.
LEMMA BundleWithout ==
    ASSUME NEW ds, Bundle(ds), NEW p
    PROVE  Bundle([q \in DOMAIN ds \ {p} |-> ds[q]])
  <1> DEFINE new == [q \in DOMAIN ds \ {p} |-> ds[q]]
  <1>1. DOMAIN new = DOMAIN ds \ {p} /\ \A q \in DOMAIN new : new[q] = ds[q]
    OBVIOUS
  <1>2. IsFiniteSet(DOMAIN ds \ {p})
    BY FS_RemoveElement DEF Bundle
  <1>3. Bundle(new)
    <2> HIDE DEF new
    <2> QED BY <1>1, <1>2 DEF Bundle
  <1> QED BY <1>3

LEMMA NothingIsBundle == Bundle(Nothing)
  BY FS_EmptySet DEF Bundle, Nothing

\* Which paths there are is all a link depends on.
LEMMA NewLinkByPaths ==
    ASSUME NEW ds, NEW ls, NEW ds2, NEW ls2, NEW link,
           DOMAIN ds = DOMAIN ds2, DOMAIN ls = DOMAIN ls2
    PROVE  NewLink(ds, ls, link) = NewLink(ds2, ls2, link)
  <1>1. Matches(ls, Name(link)) = Matches(ls2, Name(link))
    BY DEF Matches
  <1> QED BY <1>1 DEF NewLink

LEMMA ResolvedByPaths ==
    ASSUME NEW ds, NEW ds2, NEW from, NEW link, DOMAIN ds = DOMAIN ds2
    PROVE  Resolved(ds, from, link) = Resolved(ds2, from, link)
  BY DEF Resolved

\* A link is left as it is, or it becomes the path of the one concept of its name.
LEMMA NewLinkIs ==
    ASSUME NEW ds, NEW ls, NEW link, NewLink(ds, ls, link) # link
    PROVE  /\ link # None /\ Dir(link) = Root /\ link \notin DOMAIN ds
           /\ Cardinality(Matches(ls, Name(link))) = 1
           /\ NewLink(ds, ls, link) \in Matches(ls, Name(link))
  <1>1. Matches(ls, Name(link)) # {}
    <2>1. CASE Matches(ls, Name(link)) = {}
      <3>1. Cardinality(Matches(ls, Name(link))) = 0
        BY <2>1, FS_EmptySet
      <3> QED BY <3>1 DEF NewLink
    <2> QED BY <2>1
  <1> QED BY <1>1 DEF NewLink

LEMMA NewLinkLeads ==
    ASSUME NEW ds, NEW ls, NEW link, DOMAIN ls = DOMAIN ds, NewLink(ds, ls, link) # link
    PROVE  NewLink(ds, ls, link) \in DOMAIN ds
  BY NewLinkIs DEF Matches

\* A rewritten link is not rewritten again.
LEMMA NewLinkTwice ==
    ASSUME NEW ds, NEW link
    PROVE  NewLink(ds, ds, NewLink(ds, ds, link)) = NewLink(ds, ds, link)
  <1>1. CASE NewLink(ds, ds, link) = link
    BY <1>1
  <1>2. CASE NewLink(ds, ds, link) # link
    <2> DEFINE new == NewLink(ds, ds, link)
    <2>1. new \in DOMAIN ds
      BY <1>2, NewLinkLeads
    <2>2. NewLink(ds, ds, new) # new => new \notin DOMAIN ds
      <3> HIDE DEF new
      <3> QED BY NewLinkIs
    <2> QED BY <2>1, <2>2
  <1> QED BY <1>1, <1>2

\* Two concepts are the same if their fields are.
LEMMA SameDoc ==
    ASSUME NEW d1 \in Doc, NEW d2 \in Doc, d1.meta = d2.meta, d1.desc = d2.desc,
           d1.body = d2.body, d1.raw = d2.raw, d1.cited = d2.cited
    PROVE  d1 = d2
  BY DEF Doc

\* Rewriting changes the links of a concept only.
LEMMA RewrittenIs ==
    ASSUME NEW ds, NEW ls, NEW doc \in Doc, DOMAIN ls \subseteq Paths
    PROVE  /\ Rewritten(ds, ls, doc) \in Doc
           /\ Rewritten(ds, ls, doc).meta = doc.meta
           /\ Rewritten(ds, ls, doc).desc = NewLink(ds, ls, doc.desc)
           /\ Rewritten(ds, ls, doc).body = NewLink(ds, ls, doc.body)
           /\ Rewritten(ds, ls, doc).raw = doc.raw
           /\ Rewritten(ds, ls, doc).cited = doc.cited
  <1>1. \A link \in Paths \union {None} : NewLink(ds, ls, link) \in Paths \union {None}
    <2> TAKE link \in Paths \union {None}
    <2>1. CASE NewLink(ds, ls, link) # link
      BY <2>1, NewLinkIs DEF Matches
    <2> QED BY <2>1
  <1>2. doc.desc \in Paths \union {None} /\ doc.body \in Paths \union {None}
    BY DEF Doc
  <1>3. PICK m : m = NewLink(ds, ls, doc.desc)
    OBVIOUS
  <1>4. PICK n : n = NewLink(ds, ls, doc.body)
    OBVIOUS
  <1>5. m \in Paths \union {None} /\ n \in Paths \union {None}
    BY <1>1, <1>2, <1>3, <1>4
  <1>6. Rewritten(ds, ls, doc) = [doc EXCEPT !.desc = m, !.body = n]
    BY <1>3, <1>4 DEF Rewritten, Doc
  <1>7. PICK r : r = [doc EXCEPT !.desc = m, !.body = n]
    OBVIOUS
  <1>8. /\ r \in Doc /\ r.meta = doc.meta /\ r.desc = m /\ r.body = n
        /\ r.raw = doc.raw /\ r.cited = doc.cited
    BY <1>5, <1>7 DEF Doc
  <1> QED BY <1>3, <1>4, <1>6, <1>7, <1>8

LEMMA RewrittenByPaths ==
    ASSUME NEW ds, NEW ls, NEW ds2, NEW ls2, NEW doc \in Doc,
           DOMAIN ds = DOMAIN ds2, DOMAIN ls = DOMAIN ls2, DOMAIN ls \subseteq Paths
    PROVE  Rewritten(ds, ls, doc) = Rewritten(ds2, ls2, doc)
  <1>1. PICK r1 : r1 = Rewritten(ds, ls, doc)
    OBVIOUS
  <1>2. PICK r2 : r2 = Rewritten(ds2, ls2, doc)
    OBVIOUS
  <1>3. /\ NewLink(ds, ls, doc.desc) = NewLink(ds2, ls2, doc.desc)
        /\ NewLink(ds, ls, doc.body) = NewLink(ds2, ls2, doc.body)
    BY NewLinkByPaths
  <1>4. /\ r1 \in Doc /\ r2 \in Doc /\ r1.meta = r2.meta /\ r1.desc = r2.desc
        /\ r1.body = r2.body /\ r1.raw = r2.raw /\ r1.cited = r2.cited
    BY <1>1, <1>2, <1>3, RewrittenIs
  <1> QED BY <1>1, <1>2, <1>4, SameDoc

\* A rewritten concept is not rewritten again.
LEMMA RewrittenTwice ==
    ASSUME NEW ds, NEW doc \in Doc, DOMAIN ds \subseteq Paths
    PROVE  Rewritten(ds, ds, Rewritten(ds, ds, doc)) = Rewritten(ds, ds, doc)
  <1>1. PICK r1 : r1 = Rewritten(ds, ds, doc)
    OBVIOUS
  <1>2. /\ r1 \in Doc /\ r1.desc = NewLink(ds, ds, doc.desc)
        /\ r1.body = NewLink(ds, ds, doc.body)
    BY <1>1, RewrittenIs
  <1>3. PICK r2 : r2 = Rewritten(ds, ds, r1)
    OBVIOUS
  <1>4. /\ r2 \in Doc /\ r2.meta = r1.meta /\ r2.desc = NewLink(ds, ds, r1.desc)
        /\ r2.body = NewLink(ds, ds, r1.body) /\ r2.raw = r1.raw /\ r2.cited = r1.cited
    BY <1>2, <1>3, RewrittenIs
  <1>5. r2.desc = r1.desc /\ r2.body = r1.body
    BY <1>2, <1>4, NewLinkTwice
  <1>6. r2 = r1
    BY <1>2, <1>4, <1>5, SameDoc
  <1> QED BY <1>1, <1>3, <1>6

-----------------------------------------------------------------------------
(* What one write does. *)

\* An index is written: it is right, and no other is wrong for it.
LEMMA WritesRight ==
    ASSUME NEW ds, NEW ix, NEW d, NEW ix2, Updated(ix2, ix, d, Entries(ds, d))
    PROVE  /\ Right(ds, ix2, d)
           /\ \A e : Right(ds, ix, e) => Right(ds, ix2, e)
  <1>1. Right(ds, ix2, d)
    BY DEF Right, Updated
  <1>2. ASSUME NEW e, Right(ds, ix, e) PROVE Right(ds, ix2, e)
    <2>1. CASE e = d
      BY <1>1, <2>1
    <2>2. CASE e # d
      BY <1>2, <2>2 DEF Right, Updated
    <2> QED BY <2>1, <2>2
  <1> QED BY <1>1, <1>2

\* The entries of a topic are its concepts.
LEMMA EntriesLead ==
    ASSUME NEW ds, NEW d \in Topics, NEW e \in Entries(ds, d)
    PROVE  e[1] \in DOMAIN ds
  <1>1. d # Root
    BY BundleAssumption
  <1>2. PICK p \in InDir(ds, d) : e = <<p, Described(ds[p])>>
    BY <1>1 DEF Entries
  <1>3. e[1] = p
    BY <1>2
  <1> QED BY <1>2, <1>3 DEF InDir

LEMMA ListsWhatIs ==
    ASSUME NEW ds, NEW ix, NEW d, NEW ix2, Listed(ds, ix),
           Updated(ix2, ix, d, Entries(ds, d))
    PROVE  Listed(ds, ix2)
  <1> SUFFICES ASSUME NEW t \in Used(ds)
               PROVE  t \in DOMAIN ix2 /\ \A e \in ix2[t] : e[1] \in DOMAIN ds
    BY DEF Listed
  <1>1. t \in Topics
    BY DEF Used
  <1>2. CASE t = d
    <2>1. t \in DOMAIN ix2 /\ ix2[t] = Entries(ds, t)
      BY <1>2 DEF Updated
    <2> QED BY <1>1, <2>1, EntriesLead
  <1>3. CASE t # d
    BY <1>3 DEF Updated, Listed
  <1> QED BY <1>2, <1>3

\* A concept is rewritten: it is settled, and nothing else changes.
LEMMA RewritingSettles ==
    ASSUME NEW ds, Bundle(ds), NEW p \in DOMAIN ds,
           NEW ds2, Updated(ds2, ds, p, Rewritten(ds, ds, ds[p]))
    PROVE  /\ DOMAIN ds2 = DOMAIN ds
           /\ Settled(ds2, p)
           /\ \A q \in DOMAIN ds \ {p} : Settled(ds, q) => Settled(ds2, q)
  <1>1. DOMAIN ds2 = DOMAIN ds /\ ds2[p] = Rewritten(ds, ds, ds[p])
    BY DEF Updated
  <1>2. DOMAIN ds \subseteq Paths /\ \A q \in DOMAIN ds : ds[q] \in Doc
    BY DEF Bundle
  <1>3. ds2[p] \in Doc
    BY <1>1, <1>2, RewrittenIs
  <1>4. Settled(ds2, p)
    <2>1. Rewritten(ds2, ds2, ds2[p]) = Rewritten(ds, ds, ds2[p])
      BY <1>1, <1>2, <1>3, RewrittenByPaths
    <2>2. Rewritten(ds, ds, ds2[p]) = ds2[p]
      BY <1>1, <1>2, RewrittenTwice
    <2> QED BY <2>1, <2>2 DEF Settled
  <1>5. ASSUME NEW q \in DOMAIN ds \ {p}, Settled(ds, q) PROVE Settled(ds2, q)
    <2>1. ds2[q] = ds[q] /\ ds[q] \in Doc
      BY <1>2 DEF Updated
    <2>2. Rewritten(ds2, ds2, ds[q]) = Rewritten(ds, ds, ds[q])
      BY <1>1, <1>2, <2>1, RewrittenByPaths
    <2> QED BY <1>5, <2>1, <2>2 DEF Settled
  <1> QED BY <1>1, <1>4, <1>5

\* And its links lead somewhere if they did.
LEMMA RewritingKeepsLinks ==
    ASSUME NEW ds, Bundle(ds), NEW p \in DOMAIN ds, Linked(ds),
           NEW ds2, Updated(ds2, ds, p, Rewritten(ds, ds, ds[p]))
    PROVE  Linked(ds2)
  <1>1. DOMAIN ds2 = DOMAIN ds /\ ds2[p] = Rewritten(ds, ds, ds[p])
    BY DEF Updated
  <1>2. DOMAIN ds \subseteq Paths /\ ds[p] \in Doc
    BY DEF Bundle
  <1>3. ds2[p].body = NewLink(ds, ds, ds[p].body)
    BY <1>1, <1>2, RewrittenIs
  <1> SUFFICES ASSUME NEW q \in DOMAIN ds2, ds2[q].body # None
               PROVE  Resolved(ds2, Dir(q), ds2[q].body) # None
    BY DEF Linked
  <1>4. CASE q = p /\ ds2[p].body # ds[p].body
    <2>1. ds2[p].body \in DOMAIN ds2
      BY <1>1, <1>3, <1>4, NewLinkLeads
    <2>2. Resolved(ds2, Dir(q), ds2[p].body) = ds2[p].body
      BY <2>1 DEF Resolved
    <2> QED BY <1>4, <2>2
  <1>5. CASE q # p \/ ds2[p].body = ds[p].body
    <2>1. q \in DOMAIN ds /\ ds2[q].body = ds[q].body
      BY <1>1, <1>5 DEF Updated
    <2>2. Resolved(ds, Dir(q), ds[q].body) # None
      BY <2>1 DEF Linked
    <2>3. Resolved(ds2, Dir(q), ds[q].body) = Resolved(ds, Dir(q), ds[q].body)
      BY <1>1, ResolvedByPaths
    <2> QED BY <2>1, <2>2, <2>3
  <1> QED BY <1>4, <1>5

LEMMA ListedByPaths ==
    ASSUME NEW ds, NEW ds2, NEW ix, DOMAIN ds2 = DOMAIN ds, Listed(ds, ix)
    PROVE  Listed(ds2, ix)
  <1>1. Used(ds2) = Used(ds)
    BY DEF Used, InDir
  <1> QED BY <1>1 DEF Listed

-----------------------------------------------------------------------------
(* The steps. *)

LEMMA KnowledgeStarts == KnowledgeInit => KnowledgeInv
  <1> SUFFICES ASSUME KnowledgeInit PROVE KnowledgeInv
    OBVIOUS
  <1> USE DEF KnowledgeInit
  <1>1. KnowledgeTypes
    <2>1. DOMAIN index = {}
      BY DEF Nothing
    <2>2. Bundle(docs) /\ Bundle(snap)
      BY NothingIsBundle
    <2>3. fixes \in 0..MaxFixes
      BY DEF MaxFixes
    <2> QED BY <2>1, <2>2, <2>3 DEF KnowledgeTypes
  <1>2. Undisturbed /\ Indexing /\ Rewriting
    BY DEF Undisturbed, Indexing, Rewriting
  <1>3. Settling /\ Again /\ Promised /\ Reported
    BY DEF Fixing, Settling, Again, Promised, Reported
  <1> QED BY <1>1, <1>2, <1>3 DEF KnowledgeInv

\* An edit takes back what was promised.
LEMMA EditInv ==
    ASSUME KnowledgeInv, Edit, Bundle(docs')
    PROVE  KnowledgeInv'
  <1>1. /\ calm' = FALSE /\ indexed' = FALSE /\ fixes' = 0 /\ clean' = FALSE
        /\ index' = index /\ pc' = pc /\ cmd' = cmd /\ snap' = snap /\ todo' = todo
        /\ text' = text
    BY DEF Edit, toolVars
  <1>2. KnowledgeTypes'
    <2>1. fixes' \in 0..MaxFixes
      BY <1>1 DEF MaxFixes
    <2> QED BY <1>1, <2>1 DEF KnowledgeInv, KnowledgeTypes
  <1>3. Undisturbed' /\ Indexing' /\ Rewriting'
    BY <1>1 DEF Undisturbed, Indexing, Rewriting
  <1>4. Settling' /\ Again' /\ Promised' /\ Reported'
    BY <1>1 DEF Fixing, Settling, Again, Promised, Reported
  <1> QED BY <1>2, <1>3, <1>4 DEF KnowledgeInv

LEMMA WriteInv ==
    ASSUME KnowledgeInv, NEW p \in Paths, NEW doc \in Docs, Write(p, doc)
    PROVE  KnowledgeInv'
  <1>1. doc \in Doc
    BY BundleAssumption
  <1>2. Updated(docs', docs, p, doc)
    BY WithIs DEF Write
  <1>3. Bundle(docs)
    BY DEF KnowledgeInv, KnowledgeTypes
  <1>4. Bundle(docs')
    BY <1>1, <1>2, <1>3, BundleWith
  <1> QED BY <1>4, EditInv DEF Write

LEMMA DeleteInv ==
    ASSUME KnowledgeInv, NEW p \in Paths, Delete(p)
    PROVE  KnowledgeInv'
  <1>1. Bundle(docs)
    BY DEF KnowledgeInv, KnowledgeTypes
  <1>2. Bundle(docs')
    BY <1>1, BundleWithout DEF Delete
  <1> QED BY <1>2, EditInv DEF Delete

LEMMA StartInv ==
    ASSUME KnowledgeInv, NEW c \in Commands, Start(c)
    PROVE  KnowledgeInv'
  <1> USE DEF Start, diskVars, Commands
  <1>1. KnowledgeTypes'
    BY DEF KnowledgeInv, KnowledgeTypes
  <1>2. Undisturbed' /\ Indexing' /\ Rewriting'
    BY DEF Undisturbed, Indexing, Rewriting
  <1>3. Settling' /\ Again'
    BY DEF Fixing, Settling, Again
  <1>4. Promised' /\ Reported'
    BY DEF KnowledgeInv, Promised, Reported
  <1> QED BY <1>1, <1>2, <1>3, <1>4 DEF KnowledgeInv

LEMMA LoadInv ==
    ASSUME KnowledgeInv, Load
    PROVE  KnowledgeInv'
  <1> USE DEF Load, diskVars, historyVars
  <1>1. KnowledgeTypes'
    BY DEF KnowledgeInv, KnowledgeTypes
  <1>2. Undisturbed' /\ Indexing' /\ Rewriting'
    BY DEF KnowledgeInv, Undisturbed, Indexing, Rewriting
  <1>3. Settling' /\ Again'
    BY DEF Fixing, Settling, Again
  <1>4. Promised' /\ Reported'
    BY DEF KnowledgeInv, Promised, Reported
  <1> QED BY <1>1, <1>2, <1>3, <1>4 DEF KnowledgeInv

\* An index written while a promise is due is right, so it breaks none.
LEMMA WriteIndexInv ==
    ASSUME KnowledgeInv, NEW d \in Dirs, WriteIndex(d)
    PROVE  KnowledgeInv'
  <1> USE DEF historyVars
  <1>1. /\ pc = "indexes" /\ pc' = pc /\ cmd' = cmd /\ docs' = docs /\ snap' = snap
        /\ text' = text /\ clean' = clean /\ calm' = calm /\ indexed' = indexed
        /\ fixes' = fixes /\ todo' = todo \ {d}
    BY DEF WriteIndex
  <1>2. Updated(index', index, d, Entries(snap, d))
    BY WithIs DEF WriteIndex
  <1>3. KnowledgeTypes'
    BY <1>1, <1>2 DEF KnowledgeInv, KnowledgeTypes, Updated
  <1>4. Undisturbed' /\ Rewriting'
    BY <1>1 DEF KnowledgeInv, Undisturbed, Rewriting
  <1>5. Settling' /\ Again'
    BY <1>1 DEF Fixing, Settling, Again
  <1>6. calm => Updated(index', index, d, Entries(docs, d))
    BY <1>1, <1>2 DEF KnowledgeInv, Indexing
  <1>7. Indexing'
    <2> SUFFICES ASSUME calm PROVE Indexing'
      BY <1>1 DEF Indexing
    <2>1. snap' = docs'
      BY <1>1 DEF KnowledgeInv, Indexing
    <2>2. ASSUME NEW t \in Indexed(docs) \ (todo \ {d})
          PROVE  Right(docs, index', t)
      <3>1. CASE t = d
        BY <1>6, <3>1, WritesRight
      <3>2. CASE t # d
        <4>1. Right(docs, index, t)
          BY <1>1, <3>2 DEF KnowledgeInv, Indexing
        <4> QED BY <1>6, <4>1, WritesRight
      <3> QED BY <3>1, <3>2
    <2> QED BY <1>1, <2>1, <2>2 DEF Indexing
  <1>8. Promised'
    <2>1. ASSUME indexed \/ fixes >= 2
          PROVE  AllRight(docs, index')
      <3>1. calm /\ AllRight(docs, index)
        BY <1>1, <2>1 DEF KnowledgeInv, KnowledgeTypes, Undisturbed, Promised, MaxFixes
      <3> QED BY <1>6, <3>1, WritesRight DEF AllRight
    <2> QED BY <1>1, <2>1 DEF KnowledgeInv, Promised
  <1>9. Reported'
    <2> SUFFICES ASSUME clean PROVE Linked(docs) /\ Listed(docs, index')
      BY <1>1 DEF Reported
    <2>1. calm /\ Linked(docs) /\ Listed(docs, index)
      BY <1>1 DEF KnowledgeInv, Undisturbed, Reported
    <2> QED BY <1>6, <2>1, ListsWhatIs
  <1> QED BY <1>3, <1>4, <1>5, <1>7, <1>8, <1>9 DEF KnowledgeInv

LEMMA EndIndexInv ==
    ASSUME KnowledgeInv, EndIndex
    PROVE  KnowledgeInv'
  <1>1. /\ pc = "indexes" /\ todo = {} /\ pc' = "idle" /\ snap' = Nothing
        /\ docs' = docs /\ index' = index /\ clean' = clean /\ calm' = calm
        /\ indexed' = calm /\ fixes' = fixes
    BY DEF EndIndex, End, diskVars
  <1>2. KnowledgeTypes'
    BY <1>1, NothingIsBundle DEF KnowledgeInv, KnowledgeTypes
  <1>3. Undisturbed' /\ Indexing' /\ Rewriting' /\ Settling' /\ Again'
    BY <1>1 DEF Undisturbed, Indexing, Rewriting, Fixing, Settling, Again
  <1>4. calm => AllRight(docs, index)
    BY <1>1 DEF KnowledgeInv, Indexing, AllRight
  <1>5. Promised'
    BY <1>1, <1>4 DEF KnowledgeInv, Promised
  <1>6. Reported'
    BY <1>1 DEF KnowledgeInv, Reported
  <1> QED BY <1>2, <1>3, <1>5, <1>6 DEF KnowledgeInv

LEMMA ReloadInv ==
    ASSUME KnowledgeInv, Reload
    PROVE  KnowledgeInv'
  <1>1. /\ pc = "indexes" /\ todo = {} /\ pc' = "fix" /\ cmd' = cmd /\ cmd = "fix"
        /\ snap' = docs /\ todo' = DOMAIN docs
        /\ docs' = docs /\ index' = index /\ clean' = clean /\ calm' = calm
        /\ indexed' = indexed /\ fixes' = fixes
    BY DEF Reload, diskVars, historyVars
  <1>2. KnowledgeTypes'
    BY <1>1 DEF KnowledgeInv, KnowledgeTypes
  <1>3. Undisturbed' /\ Indexing' /\ Rewriting' /\ Settling'
    BY <1>1 DEF KnowledgeInv, Undisturbed, Indexing, Rewriting, Fixing, Settling
  <1>4. calm => AllRight(docs, index)
    BY <1>1 DEF KnowledgeInv, Indexing, AllRight
  <1>5. Again'
    BY <1>1, <1>4 DEF Again, Fixing
  <1>6. Promised' /\ Reported'
    BY <1>1 DEF KnowledgeInv, Promised, Reported
  <1> QED BY <1>2, <1>3, <1>5, <1>6 DEF KnowledgeInv

\* A command that ends with findings, or with a traceback, promises no less than before.
LEMMA ReadDocInv ==
    ASSUME KnowledgeInv, NEW p \in Paths, ReadDoc(p)
    PROVE  KnowledgeInv'
  <1>1. /\ pc = "fix" /\ docs' = docs /\ index' = index
        /\ calm' = calm /\ indexed' = indexed /\ fixes' = fixes
    BY DEF ReadDoc, diskVars, historyVars, End
  <1>2. CASE p \in DOMAIN docs
    <2>1. /\ pc' = "rewrite" /\ text' = <<p, docs[p]>> /\ todo' = todo \ {p}
          /\ cmd' = cmd /\ snap' = snap /\ clean' = clean
      BY <1>2 DEF ReadDoc, historyVars
    <2>2. docs[p] \in Doc
      BY <1>2 DEF KnowledgeInv, KnowledgeTypes, Bundle
    <2>3. KnowledgeTypes'
      BY <1>1, <2>1, <2>2 DEF KnowledgeInv, KnowledgeTypes
    <2>4. Undisturbed' /\ Indexing' /\ Rewriting'
      BY <1>1, <1>2, <2>1 DEF KnowledgeInv, Undisturbed, Indexing, Rewriting
    <2>5. Settling' /\ Again'
      BY <1>1, <2>1 DEF KnowledgeInv, Settling, Again, Fixing
    <2>6. Promised' /\ Reported'
      BY <1>1, <2>1 DEF KnowledgeInv, Promised, Reported
    <2> QED BY <2>3, <2>4, <2>5, <2>6 DEF KnowledgeInv
  <1>3. CASE p \notin DOMAIN docs
    <2>1. pc' = "idle" /\ snap' = Nothing /\ todo' = {} /\ clean' = FALSE
      BY <1>3 DEF ReadDoc, End
    <2>2. KnowledgeTypes'
      BY <1>1, <2>1, NothingIsBundle DEF KnowledgeInv, KnowledgeTypes
    <2>3. Undisturbed' /\ Indexing' /\ Rewriting' /\ Settling' /\ Again' /\ Reported'
      BY <2>1 DEF Undisturbed, Indexing, Rewriting, Fixing, Settling, Again, Reported
    <2>4. Promised'
      BY <1>1 DEF KnowledgeInv, Promised
    <2> QED BY <2>2, <2>3, <2>4 DEF KnowledgeInv
  <1> QED BY <1>2, <1>3

\* In an undisturbed run the concept on disk is the one that was read, and what
\* is written is what the concepts on disk make of it.
LEMMA WritesRewritten ==
    ASSUME KnowledgeInv, WriteDoc, calm
    PROVE  /\ text[1] \in DOMAIN docs
           /\ Rewritten(docs, snap, text[2]) = Rewritten(docs, docs, docs[text[1]])
           /\ Updated(docs', docs, text[1], Rewritten(docs, docs, docs[text[1]]))
  <1> DEFINE p == text[1]
             doc == Rewritten(docs, snap, text[2])
  <1>1. pc = "rewrite"
    BY DEF WriteDoc
  <1>2. /\ p \in DOMAIN docs /\ docs[p] = text[2] /\ DOMAIN snap = DOMAIN docs
        /\ text[2] \in Doc /\ DOMAIN snap \subseteq Paths
    BY <1>1 DEF KnowledgeInv, Rewriting, KnowledgeTypes, Bundle
  <1>3. doc = Rewritten(docs, docs, docs[p])
    BY <1>2, RewrittenByPaths
  <1>4. CASE doc = text[2]
    <2>1. docs' = docs
      BY <1>4 DEF WriteDoc
    <2>2. Updated(docs, docs, p, doc)
      BY <1>2, <1>4 DEF Updated
    <2> QED BY <1>2, <1>3, <2>1, <2>2
  <1>5. CASE doc # text[2]
    <2>1. docs' = With(docs, p, doc)
      BY <1>5 DEF WriteDoc
    <2> QED BY <1>2, <1>3, <2>1, WithIs
  <1> QED BY <1>4, <1>5

LEMMA WriteDocInv ==
    ASSUME KnowledgeInv, WriteDoc
    PROVE  KnowledgeInv'
  <1>1. /\ pc = "rewrite" /\ pc' = "fix" /\ cmd' = cmd /\ index' = index /\ snap' = snap
        /\ todo' = todo /\ clean' = clean /\ calm' = calm /\ fixes' = fixes
        /\ indexed' = (indexed /\ Rewritten(docs, snap, text[2]) = text[2])
    BY DEF WriteDoc
  <1>2. Rewritten(docs, snap, text[2]) = text[2] => docs' = docs
    BY DEF WriteDoc
  <1>3. /\ indexed \in BOOLEAN /\ indexed' \in BOOLEAN /\ calm \in BOOLEAN
        /\ clean \in BOOLEAN /\ fixes \in 0..2
    BY <1>1 DEF KnowledgeInv, KnowledgeTypes, MaxFixes
  <1>4. KnowledgeTypes'
    <2>1. text[1] \in Paths /\ text[2] \in Doc /\ Bundle(docs) /\ Bundle(snap)
      BY <1>1 DEF KnowledgeInv, KnowledgeTypes
    <2>2. Rewritten(docs, snap, text[2]) \in Doc
      BY <2>1, RewrittenIs DEF Bundle
    <2>3. Bundle(docs')
      <3>1. CASE Rewritten(docs, snap, text[2]) = text[2]
        BY <1>2, <2>1, <3>1
      <3>2. CASE Rewritten(docs, snap, text[2]) # text[2]
        <4>1. docs' = With(docs, text[1], Rewritten(docs, snap, text[2]))
          BY <3>2 DEF WriteDoc
        <4>2. Updated(docs', docs, text[1], Rewritten(docs, snap, text[2]))
          BY <4>1, WithIs
        <4> QED BY <2>1, <2>2, <4>2, BundleWith
      <3> QED BY <3>1, <3>2
    <2> QED BY <1>1, <1>3, <2>3 DEF KnowledgeInv, KnowledgeTypes
  <1>5. Undisturbed'
    BY <1>1, <1>3 DEF KnowledgeInv, Undisturbed
  <1>6. Indexing'
    BY <1>1 DEF Indexing
  <1>7. CASE ~calm
    <2>1. Rewriting' /\ Settling' /\ Again'
      BY <1>1, <1>7 DEF Rewriting, Settling, Again, Fixing
    <2>2. ~indexed' /\ ~clean' /\ fixes' = 0
      BY <1>1, <1>3, <1>7 DEF KnowledgeInv, Undisturbed
    <2>3. Promised' /\ Reported'
      BY <2>2 DEF Promised, Reported
    <2> QED BY <1>4, <1>5, <1>6, <2>1, <2>3 DEF KnowledgeInv
  <1>8. CASE calm
    <2>1. /\ text[1] \in DOMAIN docs
          /\ Rewritten(docs, snap, text[2]) = Rewritten(docs, docs, docs[text[1]])
          /\ Updated(docs', docs, text[1], Rewritten(docs, docs, docs[text[1]]))
      BY <1>8, WritesRewritten
    <2>2. Bundle(docs) /\ docs[text[1]] = text[2] /\ DOMAIN snap = DOMAIN docs
      BY <1>1, <1>8 DEF KnowledgeInv, KnowledgeTypes, Rewriting
    <2>3. /\ DOMAIN docs' = DOMAIN docs /\ Settled(docs', text[1])
          /\ \A q \in DOMAIN docs \ {text[1]} : Settled(docs, q) => Settled(docs', q)
      BY <2>1, <2>2, RewritingSettles
    <2>4. Rewriting'
      BY <1>1, <2>2, <2>3 DEF Rewriting
    <2>5. Settling'
      <3> SUFFICES ASSUME Fixing', NEW q \in DOMAIN docs' \ todo' PROVE Settled(docs', q)
        BY DEF Settling
      <3>1. q # text[1] => Settled(docs, q)
        BY <1>1, <2>3 DEF KnowledgeInv, Settling, Fixing
      <3> QED BY <2>3, <3>1
    <2>6. ASSUME fixes >= 1 PROVE docs' = docs
      <3>1. Settled(docs, text[1])
        BY <2>1, <2>6 DEF KnowledgeInv, Promised
      <3> QED BY <1>2, <2>1, <2>2, <3>1 DEF Settled
    <2>7. Again'
      BY <1>1, <2>6 DEF KnowledgeInv, Again, Fixing
    <2>8. Promised'
      <3>1. ASSUME fixes >= 1 PROVE \A q \in DOMAIN docs' : Settled(docs', q)
        BY <2>6, <3>1 DEF KnowledgeInv, Promised
      <3>2. ASSUME indexed' \/ fixes >= 2 PROVE AllRight(docs', index)
        <4>1. indexed \/ fixes >= 2
          BY <1>1, <3>2
        <4>2. CASE indexed'
          <5>1. Rewritten(docs, snap, text[2]) = text[2]
            BY <1>1, <4>2, Zenon
          <5>2. docs' = docs
            BY <1>2, <5>1
          <5> QED BY <4>1, <5>2 DEF KnowledgeInv, Promised
        <4>3. CASE fixes >= 2
          <5>1. docs' = docs
            BY <1>3, <2>6, <4>3
          <5> QED BY <4>1, <5>1 DEF KnowledgeInv, Promised
        <4> QED BY <3>2, <4>2, <4>3
      <3> QED BY <1>1, <3>1, <3>2 DEF Promised
    <2>9. Reported'
      <3> SUFFICES ASSUME clean PROVE Linked(docs') /\ Listed(docs', index)
        BY <1>1 DEF Reported
      <3>1. Linked(docs) /\ Listed(docs, index)
        BY DEF KnowledgeInv, Reported
      <3> QED BY <2>1, <2>2, <2>3, <3>1, RewritingKeepsLinks, ListedByPaths
    <2> QED BY <1>4, <1>5, <1>6, <2>4, <2>5, <2>7, <2>8, <2>9 DEF KnowledgeInv
  <1> QED BY <1>3, <1>7, <1>8

LEMMA EndFixInv ==
    ASSUME KnowledgeInv, EndFix
    PROVE  KnowledgeInv'
  <1>1. /\ pc = "fix" /\ todo = {} /\ pc' = "report" /\ docs' = docs /\ index' = index
        /\ cmd' = cmd /\ snap' = snap /\ todo' = todo /\ text' = text /\ clean' = clean
        /\ calm' = calm /\ indexed' = indexed /\ fixes' = fixes
    BY DEF EndFix, diskVars, historyVars
  <1>2. KnowledgeTypes'
    BY <1>1 DEF KnowledgeInv, KnowledgeTypes
  <1>3. Undisturbed' /\ Indexing' /\ Rewriting'
    BY <1>1 DEF KnowledgeInv, Undisturbed, Indexing, Rewriting
  <1>4. Settling' /\ Again'
    BY <1>1 DEF KnowledgeInv, Settling, Again, Fixing
  <1>5. Promised' /\ Reported'
    BY <1>1 DEF KnowledgeInv, Promised, Reported
  <1> QED BY <1>2, <1>3, <1>4, <1>5 DEF KnowledgeInv

\* A lint --fix that is through has settled every concept; what a report finds
\* nothing about is so.
LEMMA ReportInv ==
    ASSUME KnowledgeInv, Report
    PROVE  KnowledgeInv'
  <1>1. /\ pc = "report" /\ pc' = "idle" /\ docs' = docs /\ index' = index
        /\ snap' = Nothing /\ calm' = calm /\ indexed' = indexed
        /\ fixes' = IF cmd = "fix" /\ calm /\ fixes < MaxFixes THEN fixes + 1 ELSE fixes
    BY DEF Report, End, diskVars
  <1>2. clean' \in BOOLEAN /\ (clean' => ~Findings(docs, index))
    BY DEF Report, End
  <1>3. fixes \in 0..2 /\ fixes' \in 0..2
    BY <1>1 DEF KnowledgeInv, KnowledgeTypes, MaxFixes
  <1>4. KnowledgeTypes'
    BY <1>1, <1>2, <1>3, NothingIsBundle DEF KnowledgeInv, KnowledgeTypes, MaxFixes
  <1>5. Undisturbed' /\ Indexing' /\ Rewriting' /\ Settling' /\ Again'
    BY <1>1 DEF Undisturbed, Indexing, Rewriting, Fixing, Settling, Again
  <1>6. Promised'
    <2>1. ASSUME fixes' >= 1 PROVE \A p \in DOMAIN docs : Settled(docs, p)
      <3>1. CASE fixes >= 1
        BY <3>1 DEF KnowledgeInv, Promised
      <3>2. CASE fixes = 0
        <4>1. cmd = "fix" /\ calm
          BY <1>1, <2>1, <3>2
        <4> QED BY <1>1, <4>1 DEF KnowledgeInv, KnowledgeTypes, Settling, Fixing
      <3> QED BY <1>3, <3>1, <3>2
    <2>2. ASSUME indexed \/ fixes' >= 2 PROVE AllRight(docs, index)
      <3>1. CASE indexed \/ fixes >= 2
        BY <3>1 DEF KnowledgeInv, Promised
      <3>2. CASE ~indexed /\ ~(fixes >= 2)
        <4>1. cmd = "fix" /\ calm /\ fixes >= 1
          BY <1>1, <1>3, <2>2, <3>2
        <4> QED BY <1>1, <4>1 DEF KnowledgeInv, Again, Fixing
      <3> QED BY <3>1, <3>2
    <2> QED BY <1>1, <2>1, <2>2 DEF Promised
  <1>7. Reported'
    <2> SUFFICES ASSUME ~Findings(docs, index) PROVE Linked(docs) /\ Listed(docs, index)
      BY <1>1, <1>2 DEF Reported
    <2>1. Linked(docs)
      BY DEF Findings, DocFinding, Linked
    <2>2. ASSUME NEW d \in Used(docs)
          PROVE  d \in DOMAIN index /\ \A e \in index[d] : e[1] \in DOMAIN docs
      <3>1. d \in Topics /\ d \in DOMAIN index /\ index[d] = Entries(docs, d)
        BY DEF Findings, Outdated, Indexed, Used
      <3> QED BY <3>1, EntriesLead
    <2> QED BY <2>1, <2>2 DEF Listed
  <1> QED BY <1>4, <1>5, <1>6, <1>7 DEF KnowledgeInv

LEMMA KnowledgeStep == KnowledgeInv /\ [KnowledgeNext]_knowledgeVars => KnowledgeInv'
  <1> SUFFICES ASSUME KnowledgeInv, [KnowledgeNext]_knowledgeVars PROVE KnowledgeInv'
    OBVIOUS
  <1>1. CASE UNCHANGED knowledgeVars
    <2>1. KnowledgeInv' = KnowledgeInv
      BY <1>1 DEF knowledgeVars, diskVars, toolVars, historyVars, KnowledgeInv, KnowledgeTypes,
         Undisturbed, Indexing, Rewriting, Fixing, Settling, Again, Promised, Reported
    <2> QED BY <2>1
  <1>2. ASSUME NEW p \in Paths, Delete(p) PROVE KnowledgeInv'
    BY <1>2, DeleteInv
  <1>3. ASSUME NEW p \in Paths, NEW doc \in Docs, Write(p, doc) PROVE KnowledgeInv'
    BY <1>3, WriteInv
  <1>4. ASSUME NEW c \in Commands, Start(c) PROVE KnowledgeInv'
    BY <1>4, StartInv
  <1>5. ASSUME NEW d \in Dirs, WriteIndex(d) PROVE KnowledgeInv'
    BY <1>5, WriteIndexInv
  <1>6. ASSUME NEW p \in Paths, ReadDoc(p) PROVE KnowledgeInv'
    BY <1>6, ReadDocInv
  <1>7. CASE Load \/ EndIndex \/ Reload \/ WriteDoc \/ EndFix \/ Report
    BY <1>7, LoadInv, EndIndexInv, ReloadInv, WriteDocInv, EndFixInv, ReportInv
  <1> QED BY <1>1, <1>2, <1>3, <1>4, <1>5, <1>6, <1>7 DEF KnowledgeNext, Tool

-----------------------------------------------------------------------------
(* The theorems. *)

\* The invariant of all runs and edits.
THEOREM KnowledgeCorrect == KnowledgeSpec => []KnowledgeInv
  <1>1. KnowledgeInit => KnowledgeInv
    BY KnowledgeStarts
  <1>2. KnowledgeInv /\ [KnowledgeNext]_knowledgeVars => KnowledgeInv'
    BY KnowledgeStep
  <1> QED BY <1>1, <1>2, PTL DEF KnowledgeSpec

\* A right index of a topic leads to each of its concepts.
LEMMA NoOrphans ==
    ASSUME NEW ds, Bundle(ds), NEW ix, AllRight(ds, ix)
    PROVE  Orphans(ds, ix) \subseteq {p \in Paths : Dir(p) = Root}
  <1> SUFFICES ASSUME NEW p \in DOMAIN ds, Dir(p) # Root PROVE p \in IndexLinks(ds, ix)
    BY DEF Orphans, Inbound, Bundle
  <1>1. p \in Paths /\ p # None
    BY BundleAssumption DEF Bundle
  <1>2. Dir(p) \in Topics
    BY <1>1 DEF Paths, Dirs, Dir
  <1>3. p \in InDir(ds, Dir(p))
    BY DEF InDir
  <1>4. Dir(p) \in Indexed(ds)
    BY <1>2, <1>3 DEF Indexed, Used
  <1>5. Dir(p) \in DOMAIN ix /\ ix[Dir(p)] = Entries(ds, Dir(p))
    BY <1>4 DEF AllRight, Right
  <1>6. PICK e : e = <<p, Described(ds[p])>>
    OBVIOUS
  <1>7. e \in ix[Dir(p)]
    BY <1>3, <1>5, <1>6 DEF Entries
  <1>8. e[1] = p
    BY <1>6
  <1>9. Resolved(ds, Dir(p), e[1]) = p
    BY <1>8 DEF Resolved
  <1>10. p \in {Resolved(ds, Dir(p), e[k]) : k \in {k \in 1..2 : e[k] # None}}
    BY <1>1, <1>8, <1>9
  <1> QED BY <1>2, <1>5, <1>7, <1>10 DEF IndexLinks

\* What okf index, lint --fix and a clean report promise holds for as long as it
\* must, in a bundle of any size: see RefreshedIsFresh.
THEOREM RefreshedStaysFresh == KnowledgeSpec => []RefreshedIsFresh
  <1>1. KnowledgeInv => RefreshedIsFresh
    <2> SUFFICES ASSUME KnowledgeInv PROVE RefreshedIsFresh
      OBVIOUS
    <2>1. IndexesFresh
      <3> SUFFICES ASSUME indexed \/ fixes = MaxFixes
                   PROVE  /\ Outdated(docs, index) = {}
                          /\ Orphans(docs, index) \subseteq {p \in Paths : Dir(p) = Root}
        BY DEF IndexesFresh
      <3>1. Bundle(docs) /\ AllRight(docs, index)
        BY DEF KnowledgeInv, KnowledgeTypes, Promised, MaxFixes
      <3>2. Outdated(docs, index) = {}
        BY <3>1 DEF Outdated, AllRight, Right
      <3> QED BY <3>1, <3>2, NoOrphans
    <2>2. LinksSettled
      BY DEF KnowledgeInv, Promised, LinksSettled, MaxFixes, Settled
    <2>3. ReportHolds
      BY DEF KnowledgeInv, Reported, ReportHolds, Linked, Listed
    <2> QED BY <2>1, <2>2, <2>3 DEF RefreshedIsFresh
  <1> QED BY <1>1, KnowledgeCorrect, PTL

\* A link that led to a concept is left, or becomes the path of that concept.
LEMMA RewritingKeepsTarget ==
    ASSUME NEW ds, Bundle(ds), NEW ls, DOMAIN ls = DOMAIN ds, NEW from \in Dirs,
           NEW link, Resolved(ds, from, link) \in DOMAIN ds
    PROVE  Resolved(ds, from, NewLink(ds, ls, link)) = Resolved(ds, from, link)
  <1> DEFINE was == Resolved(ds, from, link)
             new == NewLink(ds, ls, link)
             same == Matches(ls, Name(link))
  <1>1. CASE new = link
    BY <1>1
  <1>2. CASE new # link
    <2>1. /\ Dir(link) = Root /\ link \notin DOMAIN ds /\ Cardinality(same) = 1
          /\ new \in same
      BY <1>2, NewLinkIs
    <2>2. was = <<from, Name(link)>>
      <3>1. <<None, Name(link)>> \notin Paths /\ None \notin Paths
        BY BundleAssumption DEF Paths
      <3>2. was \in Paths
        BY DEF Bundle
      <3> QED BY <2>1, <3>1, <3>2 DEF Resolved
    <2>3. was \in same
      BY <2>2 DEF Matches, Name
    <2>4. IsFiniteSet(same)
      <3>1. same \subseteq DOMAIN ds /\ IsFiniteSet(DOMAIN ds)
        BY DEF Matches, Bundle
      <3> HIDE DEF same
      <3> QED BY <3>1, FS_Subset
    <2>5. new = was
      <3> HIDE DEF same, new, was
      <3>1. PICK x : same = {x}
        BY <2>1, <2>4, FS_Singleton
      <3> QED BY <2>1, <2>3, <3>1
    <2>6. Resolved(ds, from, was) = was
      BY DEF Resolved
    <2> QED BY <2>5, <2>6
  <1> QED BY <1>1, <1>2

\* Rewriting moves no link of an undisturbed run to another concept, whatever
\* names the concepts of the bundle have.
THEOREM FixesKeepTargets == KnowledgeSpec => FixKeepsTargets
  <1> DEFINE Kept ==
        pc = "rewrite" /\ pc' = "fix" /\ calm =>
            \A link \in LinksOf(text[2]) :
                LET was == Resolved(docs, Dir(text[1]), link)
                IN  was \in DOMAIN docs =>
                        \E new \in LinksOf(docs'[text[1]]) :
                            Resolved(docs', Dir(text[1]), new) = was
  <1>1. KnowledgeInv /\ [KnowledgeNext]_knowledgeVars => [Kept]_knowledgeVars
    <2> SUFFICES ASSUME KnowledgeInv, KnowledgeNext, pc = "rewrite", pc' = "fix", calm,
                        NEW link \in LinksOf(text[2]),
                        Resolved(docs, Dir(text[1]), link) \in DOMAIN docs
                 PROVE  \E new \in LinksOf(docs'[text[1]]) :
                            Resolved(docs', Dir(text[1]), new)
                                = Resolved(docs, Dir(text[1]), link)
      OBVIOUS
    <2>1. WriteDoc
      BY DEF KnowledgeNext, Tool, Delete, Write, Edit, toolVars, Start, Load, WriteIndex, EndIndex,
         Reload, ReadDoc, EndFix, Report, End
    <2>2. /\ text[1] \in DOMAIN docs
          /\ Updated(docs', docs, text[1], Rewritten(docs, docs, docs[text[1]]))
      BY <2>1, WritesRewritten
    <2>3. Bundle(docs) /\ docs[text[1]] = text[2] /\ text[2] \in Doc
      BY DEF KnowledgeInv, KnowledgeTypes, Rewriting
    <2>4. DOMAIN docs' = DOMAIN docs /\ docs'[text[1]] = Rewritten(docs, docs, text[2])
      BY <2>2, <2>3 DEF Updated
    <2>5. /\ docs'[text[1]].desc = NewLink(docs, docs, text[2].desc)
          /\ docs'[text[1]].body = NewLink(docs, docs, text[2].body)
      BY <2>3, <2>4, RewrittenIs DEF Bundle
    <2>6. PICK new : new = NewLink(docs, docs, link)
      OBVIOUS
    <2>7. new \in LinksOf(docs'[text[1]])
      <3>1. new # None
        <4>1. link # None
          BY DEF LinksOf
        <4>2. new # link => new \in DOMAIN docs
          BY <2>6, NewLinkLeads
        <4> QED BY <2>3, <4>1, <4>2, BundleAssumption DEF Bundle
      <3> QED BY <2>5, <2>6, <3>1 DEF LinksOf
    <2>8. Dir(text[1]) \in Dirs
      BY <2>2, <2>3 DEF Bundle, Paths, Dir
    <2>9. Resolved(docs, Dir(text[1]), new) = Resolved(docs, Dir(text[1]), link)
      BY <2>3, <2>6, <2>8, RewritingKeepsTarget
    <2>10. Resolved(docs', Dir(text[1]), new) = Resolved(docs, Dir(text[1]), new)
      BY <2>4, ResolvedByPaths
    <2> QED BY <2>7, <2>9, <2>10
  <1> QED BY <1>1, KnowledgeCorrect, PTL DEF KnowledgeSpec, FixKeepsTargets

===============================================================================
