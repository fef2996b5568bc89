-------------------------------- MODULE Memlog --------------------------------
(***************************************************************************)
(* The append-only log of _bmad/scripts/memlog.py: init, append and set,   *)
(* each a process that reads the log, writes all of it to a temp file of a *)
(* fixed name and renames that over the log; and the tally of the log by   *)
(* recon_kit.py.                                                           *)
(*                                                                         *)
(* The temp file is a name and an inode: a second writer that opens the    *)
(* name truncates the first writer's bytes, and what one of them renames   *)
(* the other may still be writing. Processes are killed at any step, and a *)
(* power loss takes back a rename the directory had not written yet.       *)
(***************************************************************************)
EXTENDS Integers, Sequences, FiniteSets, SequencesExt

CONSTANTS
    Procs,        \* commands that may run at the same time
    Inodes,       \* files the directory can hold
    Refs,         \* sources a claim refers to
    Statuses,     \* what a claim entry says of its source
    NoRef,        \* a claim without a ref
    NoInode,
    MaxCommands,  \* commands in a behaviour
    MaxFaults     \* kills and power losses

ASSUME MemlogAssumption ==
    /\ MaxCommands \in Nat /\ MaxFaults \in Nat
    /\ NoInode \notin Inodes /\ NoRef \notin Refs

VARIABLES
    path,     \* the inode of .memlog.md
    tmp,      \* the inode of .memlog.md.tmp
    synced,   \* the inode the directory on disk has for .memlog.md
    data,     \* what is in each inode
    proc,     \* the local state of each command
    crossed,  \* a command began while another was running
    commands, faults

vars == <<path, tmp, synced, data, proc, crossed, commands, faults>>

Entry == [ref : Refs \union {NoRef}, status : Statuses]

(* "empty" has no frontmatter, "ragged" ends in bytes of a longer text. *)
Contents == [log : Seq(Entry), shape : {"whole", "empty", "ragged"}]
Empty    == [log |-> <<>>, shape |-> "empty"]
Whole(log) == [log |-> log, shape |-> "whole"]

Cmds == {[op |-> "init"], [op |-> "set"]}
            \union [op : {"append"}, entry : Entry]
NoCmd == [op |-> "none"]
Idle  == [pc |-> "idle", cmd |-> NoCmd, text |-> Empty, fd |-> NoInode]

Init ==
    /\ path = NoInode /\ tmp = NoInode /\ synced = NoInode
    /\ data = [i \in Inodes |-> Empty]
    /\ proc = [p \in Procs |-> Idle]
    /\ crossed = FALSE
    /\ commands = 0 /\ faults = 0

At(p, pc) == proc[p].pc = pc
Log == IF path = NoInode THEN <<>> ELSE data[path].log

-----------------------------------------------------------------------------
(* append puts the entry after everything that is there. *)
Landing(log, e) == Append(log, e)

\* Mutant of MayInit: init is run on a log that is there.
MayInitAgain == TRUE
MayInit == path = NoInode

(* What the command will write, of what it reads; a log without frontmatter
   or a missing one ends append and set with a traceback. *)
Composed(c) ==
    IF c.op = "init" THEN Whole(<<>>)
    ELSE IF c.op = "set" THEN data[path]
    ELSE [data[path] EXCEPT !.log = Landing(@, c.entry)]

Begin(p, c) ==
    /\ At(p, "idle") /\ commands < MaxCommands
    /\ IF c.op = "init" THEN MayInit
       ELSE path # NoInode /\ data[path].shape # "empty"
    /\ commands' = commands + 1
    /\ crossed' = (crossed \/ \E q \in Procs : ~At(q, "idle"))
    /\ proc' = [proc EXCEPT ![p] =
                    [Idle EXCEPT !.pc = "open", !.cmd = c, !.text = Composed(c)]]
    /\ UNCHANGED <<path, tmp, synced, data, faults>>

-----------------------------------------------------------------------------
(* write_atomic: open for writing truncates a temp file that is there. *)
Free == {i \in Inodes : i \notin {path, tmp, synced}
                        /\ \A p \in Procs : proc[p].fd # i}
Target == IF tmp # NoInode THEN {tmp} ELSE Free

OpenTemp(p) ==
    /\ At(p, "open")
    /\ \E i \in Target :
        /\ tmp' = i
        /\ data' = [data EXCEPT ![i] = Empty]
        /\ proc' = [proc EXCEPT ![p].pc = "write", ![p].fd = i]
    /\ UNCHANGED <<path, synced, crossed, commands, faults>>

\* Mutant of WriteTemp: the bytes are renamed before all of them are there.
WriteTempPart(p) ==
    /\ At(p, "write")
    /\ data' = [data EXCEPT ![proc[p].fd] = [proc[p].text EXCEPT !.shape = "ragged"]]
    /\ proc' = [proc EXCEPT ![p].pc = "rename"]
    /\ UNCHANGED <<path, tmp, synced, crossed, commands, faults>>
(* Bytes of another writer that are in the inode by then are overwritten from
   the start; a longer text of theirs leaves its end behind. *)
WriteTemp(p) ==
    LET i == proc[p].fd
    IN  /\ At(p, "write")
        /\ \/ data' = [data EXCEPT ![i] = proc[p].text]
           \/ /\ data[i].shape # "empty"
              /\ data' = [data EXCEPT ![i] = [proc[p].text EXCEPT !.shape = "ragged"]]
        /\ proc' = [proc EXCEPT ![p].pc = "rename"]
        /\ UNCHANGED <<path, tmp, synced, crossed, commands, faults>>

(* os.replace and the line of JSON. *)
Rename(p) ==
    /\ At(p, "rename") /\ tmp # NoInode
    /\ path' = tmp /\ tmp' = NoInode
    /\ proc' = [proc EXCEPT ![p] = Idle]
    /\ UNCHANGED <<synced, data, crossed, commands, faults>>

(* Another writer has renamed the temp file away: FileNotFoundError. *)
RenameFails(p) ==
    /\ At(p, "rename") /\ tmp = NoInode
    /\ proc' = [proc EXCEPT ![p] = Idle]
    /\ UNCHANGED <<path, tmp, synced, data, crossed, commands, faults>>

-----------------------------------------------------------------------------
(* A kill may come in the middle of a write. *)
Kill(p) ==
    /\ ~At(p, "idle") /\ faults < MaxFaults
    /\ faults' = faults + 1
    /\ \/ UNCHANGED data
       \/ /\ At(p, "write")
          /\ data' = [data EXCEPT ![proc[p].fd] =
                        [proc[p].text EXCEPT !.shape = "ragged"]]
    /\ proc' = [proc EXCEPT ![p] = Idle]
    /\ UNCHANGED <<path, tmp, synced, crossed, commands>>

(* The directory is written some time after the rename: nobody asks for it. *)
SyncDirectory ==
    /\ synced # path /\ synced' = path
    /\ UNCHANGED <<path, tmp, data, proc, crossed, commands, faults>>

PowerLoss ==
    /\ faults < MaxFaults /\ faults' = faults + 1
    /\ path' = synced /\ tmp' \in ({tmp, path} \ {synced}) \union {NoInode}
    /\ proc' = [p \in Procs |-> Idle]
    /\ UNCHANGED <<synced, data, crossed, commands>>

Next ==
    \/ \E p \in Procs :
        \/ \E c \in Cmds : Begin(p, c)
        \/ OpenTemp(p) \/ WriteTemp(p) \/ Rename(p) \/ RenameFails(p)
        \/ Kill(p)
    \/ SyncDirectory \/ PowerLoss

Spec == Init /\ [][Next]_vars

-----------------------------------------------------------------------------
(* recon_kit.py tally: claims by status, the last status of a ref counts. *)
Claims(log, r) == {i \in DOMAIN log : log[i].ref = r}
\* Mutant of Current: the first status of a ref counts.
CurrentFirst(log, r) ==
    log[CHOOSE i \in Claims(log, r) : \A j \in Claims(log, r) : i <= j].status
Current(log, r) ==
    log[CHOOSE i \in Claims(log, r) : \A j \in Claims(log, r) : j <= i].status
Tally(log, s) ==
    Cardinality({r \in Refs : Claims(log, r) # {} /\ Current(log, r) = s})
        + Cardinality({i \in Claims(log, NoRef) : log[i].status = s})

-----------------------------------------------------------------------------
(* A crash never leaves a half-written entry: commands one after the other,
   killed anywhere and cut off from power, leave a log that is whole. *)
NeverHalfWritten ==
    ~crossed /\ path # NoInode => data[path].shape = "whole"

(* Nothing is inserted backward, edited or removed, kills included; a power
   loss takes back the newest entries and no other. *)
AppendOnly ==
    [][~crossed' => \/ IsPrefix(Log, Log')
                    \/ path' = synced /\ faults' # faults /\ IsPrefix(Log', Log)]_vars

(* The status a successful append gives a source is the one tally counts for
   it, whatever was said of it before. *)
TallyIsNewest ==
    [][\A p \in Procs :
        LET c == proc[p].cmd
        IN  /\ ~crossed /\ At(p, "rename") /\ c.op = "append" /\ c.entry.ref # NoRef
            /\ path' = tmp /\ tmp # NoInode
            => /\ Current(Log', c.entry.ref) = c.entry.status
               /\ Tally(Log', c.entry.status) > 0]_vars

=============================================================================
