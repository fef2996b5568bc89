-------------------------------- MODULE Roster --------------------------------
(***************************************************************************)
(* Who is in the room: the installed agents and a user's own members become *)
(* one pool with an index of all the tokens that name someone, and groups   *)
(* are cast from it.  The code stands twice in the repository, in           *)
(* bmad-party-mode/scripts/resolve_party.py and bmad-forge-idea/scripts/    *)
(* resolve_personas.py, with three differences: what a name may do to the   *)
(* index, what becomes of agents given as an array, and what the forge does *)
(* where the party skill is not installed.                                  *)
(*                                                                         *)
(* Both register the agents, then the members, one after the other.  Of the *)
(* fields of an entry there are the name and the title, which stands for    *)
(* the rest; a field that is not given is None.                             *)
(***************************************************************************)
EXTENDS Naturals, Sequences, SequencesExt

CONSTANTS
    Tokens,    \* what codes and names, short or long, may be
    Lower,     \* [Tokens -> Tokens], the token in lower case
    Alias,     \* [Tokens -> Tokens], the code without its bmad- prefix
    Titles,
    GroupIds,
    None,
    Setups     \* what the two scripts may find

Agent  == [code : Tokens \union {None}, name : Tokens \union {None},
           title : Titles \union {None}]
Member == Agent
Group  == [id : GroupIds \union {None}, members : Seq(Tokens)]

(* The layers are the party skill's own, the team's and the user's. *)
PartyLayer == [members : Seq(Member), groups : Seq(Group)]
Setup ==
    [agents   : Seq(Agent),
     shape    : {"table", "array"}, \* of the merged agents
     base     : PartyLayer, team : PartyLayer, user : PartyLayer,
     default  : GroupIds \union {None},
     asked    : GroupIds \union {None}, \* --party
     found    : BOOLEAN,  \* the forge finds the party skill
     resolved : BOOLEAN,  \* resolve_config.py answers
     merged   : BOOLEAN]  \* resolve_customization.py answers

(* The keys of a table are the codes. *)
ASSUME RosterAssumption ==
    /\ None \notin Tokens \union Titles \union GroupIds
    /\ Lower \in [Tokens -> Tokens] /\ Alias \in [Tokens -> Tokens]
    /\ \A s \in Setups :
        /\ s \in Setup
        /\ s.shape = "table" =>
            /\ \A i \in DOMAIN s.agents : s.agents[i].code # None
            /\ \A i, j \in DOMAIN s.agents :
                    s.agents[i].code = s.agents[j].code => i = j

VARIABLES
    setup,
    next,         \* how many agents and members are registered
    party, forge, \* the pool and the index each script has built
    clash         \* history: a name was another one's token already, in the forge

rosterVars == <<setup, next, party, forge, clash>>

-----------------------------------------------------------------------------
(* What the scripts are given. *)

(* A later entry of the same code takes the place of the earlier one. *)
Put(key, list, x) ==
    LET same == {i \in DOMAIN list : list[i][key] = x[key]}
    IN  IF same = {} THEN Append(list, x)
        ELSE ReplaceAt(list, CHOOSE i \in same : \A j \in same : j <= i, x)

(* _merge_arrays: by the key that all the items have, or one after the other;
   what no layer gave yet, an empty list, is taken as it is. *)
MergeArrays(key, base, over) ==
    IF base = <<>> \/ \E i \in DOMAIN (base \o over) : (base \o over)[i][key] = None
    THEN base \o over
    ELSE FoldLeft(LAMBDA list, x : Put(key, list, x), base, over)

MergePartyLayer(l, over) ==
    [members |-> MergeArrays("code", l.members, over.members),
     groups  |-> MergeArrays("id", l.groups, over.groups)]

(* load_workflow: the three layers merged, or the skill's own alone. *)
PartyWorkflow(s) ==
    IF s.merged THEN MergePartyLayer(MergePartyLayer(s.base, s.team), s.user) ELSE s.base

(* load_party_overrides: "a shallow merge is enough". *)
Overrides(s) == [members |-> s.team.members \o s.user.members,
                 groups  |-> s.team.groups \o s.user.groups]

ForgeWorkflow(s) == IF s.found THEN PartyWorkflow(s) ELSE Overrides(s)

(* load_agents: none when the resolver fails; the forge makes a table of an
   array, over which the party stumbles. *)
PutCoded(table, a) == IF a.code = None THEN table ELSE Put("code", table, a)
ByCode(list) == FoldLeft(PutCoded, <<>>, list)
LoadAgents(s) == IF ~s.resolved THEN <<>>
                 ELSE IF s.shape = "table" THEN s.agents ELSE ByCode(s.agents)
PartyDies(s) == s.resolved /\ s.shape = "array" /\ s.agents # <<>>

-----------------------------------------------------------------------------
Nobody == [pool |-> [t \in {} |-> None], index |-> [t \in {} |-> None]]

With(f, x, v) == [y \in DOMAIN f \union {x} |-> IF y = x THEN v ELSE f[y]]
Knows(f, x) == x \in DOMAIN f

(* index.get(token) or index.get(token.lower()) *)
Found(index, t) ==
    IF Knows(index, t) THEN index[t]
    ELSE IF Knows(index, Lower[t]) THEN index[Lower[t]] ELSE None

Codes(index, c) == With(With(With(index, c, c), Lower[c], c), Lower[Alias[c]], c)

(* A name leads to whoever was registered with it last. *)
NameOverIndex(index, name, c) == With(index, Lower[name], c)

(* "A custom rename must not hijack another agent's name lookup." *)
\* Mutant of NameInIndex: as in resolve_party.py.
NameInIndexAnyway(index, name, c) == With(index, Lower[name], c)
NameInIndex(index, name, c) ==
    IF Knows(index, Lower[name]) /\ index[Lower[name]] # c
    THEN index ELSE With(index, Lower[name], c)

(* register *)
PartyRegister(b, c, e) ==
    [pool |-> With(b.pool, c, e), index |-> NameOverIndex(Codes(b.index, c), e.name, c)]
ForgeRegister(b, c, e) ==
    [pool |-> With(b.pool, c, e), index |-> NameInIndex(Codes(b.index, c), e.name, c)]

(* What an override leaves out stays. *)
Over(new, old) == IF new # None THEN new ELSE old

InstalledEntry(a) ==
    [name |-> Over(a.name, a.code), title |-> a.title, source |-> "installed"]

(* A member takes the slot its code names, or a new one. *)
\* Mutant of Canonical: only a code in full takes a slot.
CanonicalInFull(index, m) == m.code
Canonical(index, m) ==
    IF Found(index, m.code) # None THEN Found(index, m.code) ELSE m.code

CustomEntry(pool, c, m) ==
    LET old == IF Knows(pool, c) THEN pool[c] ELSE [name |-> c, title |-> None]
    IN  [name |-> Over(m.name, old.name), title |-> Over(m.title, old.title),
         source |-> "custom"]

-----------------------------------------------------------------------------
RosterInit ==
    /\ setup \in Setups
    /\ next = 0
    /\ party = Nobody /\ forge = Nobody
    /\ clash = FALSE

Clashes(b, name, c) ==
    LET index == Codes(b.index, c)
    IN  Knows(index, Lower[name]) /\ index[Lower[name]] # c

agents == LoadAgents(setup)

RegisterAgent ==
    /\ next < Len(agents) /\ next' = next + 1
    /\ LET a == agents[next + 1]
           e == InstalledEntry(a)
       IN  /\ party' = IF PartyDies(setup) THEN party ELSE PartyRegister(party, a.code, e)
           /\ forge' = ForgeRegister(forge, a.code, e)
           /\ clash' = (clash \/ Clashes(forge, e.name, a.code))
    /\ UNCHANGED setup

(* What has no code is skipped. *)
Joins(list, i) == i <= Len(list) /\ list[i].code # None
Slot(b, m)  == Canonical(b.index, m)
Entry(b, m) == CustomEntry(b.pool, Slot(b, m), m)

RegisterMember ==
    LET ours   == PartyWorkflow(setup).members
        theirs == ForgeWorkflow(setup).members
        i      == next + 1 - Len(agents)
    IN  /\ i >= 1 /\ (i <= Len(ours) \/ i <= Len(theirs))
        /\ next' = next + 1
        /\ party' = IF PartyDies(setup) \/ ~Joins(ours, i) THEN party
                    ELSE PartyRegister(party, Slot(party, ours[i]), Entry(party, ours[i]))
        /\ forge' = IF ~Joins(theirs, i) THEN forge
                    ELSE ForgeRegister(forge, Slot(forge, theirs[i]), Entry(forge, theirs[i]))
        /\ clash' = (\/ clash
                     \/ /\ Joins(theirs, i)
                        /\ Clashes(forge, Entry(forge, theirs[i]).name, Slot(forge, theirs[i])))
        /\ UNCHANGED setup

Done ==
    /\ next >= Len(agents) + Len(PartyWorkflow(setup).members)
    /\ next >= Len(agents) + Len(ForgeWorkflow(setup).members)

(* resolve_members and resolve_parties: in listed order, the rest left out. *)
Cast(b, tokens) ==
    SelectSeq([i \in DOMAIN tokens |-> Found(b.index, tokens[i])],
              LAMBDA c : c # None /\ Knows(b.pool, c))
Card(b, g) == [active |-> g.id, open |-> g.members = <<>>,
               members |-> LET c == Cast(b, g.members)
                           IN  [i \in DOMAIN c |-> b.pool[c[i]]]]

(* group_menu: a group without an id is not shown; the order is left out. *)
Menu(groups) == {groups[i] : i \in {j \in DOMAIN groups : groups[j].id # None}}
(* find_group is not called without an id. *)
FindGroup(groups, id) == {i \in DOMAIN groups : id # None /\ groups[i].id = id}

(* main of resolve_party.py: the group asked for, the default one, or the
   installed agents with their overrides. *)
Installed(b) == [active |-> "installed", open |-> FALSE,
                 members |-> [i \in DOMAIN agents |-> b.pool[agents[i].code]]]
PartyRoom ==
    LET groups == PartyWorkflow(setup).groups
        wanted == FindGroup(groups, IF setup.asked # None THEN setup.asked
                                    ELSE setup.default)
    IN  IF wanted # {} THEN Card(party, groups[Min(wanted)])
        ELSE IF setup.asked # None THEN [active |-> "unknown_group", menu |-> Menu(groups)]
        ELSE Installed(party)

(* main of resolve_personas.py: the agents, and all the groups of the menu. *)
ForgeRooms == {Installed(forge)} \union {Card(forge, g) : g \in Menu(ForgeWorkflow(setup).groups)}

RosterNext == RegisterAgent \/ RegisterMember

RosterSpec == RosterInit /\ [][RosterNext]_rosterVars

-----------------------------------------------------------------------------
(* Properties *)

Claims(c) == {c, Lower[c], Lower[Alias[c]]}
ClaimedByOther(b, t, c) == \E d \in DOMAIN b.pool \ {c} : t \in Claims(d)

(* Whatever the members are called, the forge's user who asks for an agent by
   its name or by its code gets this agent, if it was the first of that name
   and no other code in the pool, short or long, is that token. *)
NoHijack ==
    /\ \A i \in 1..Len(agents) : next >= i =>
        LET c == agents[i].code
            t == Lower[InstalledEntry(agents[i]).name]
        IN  /\ \A j \in 1..(i - 1) : Lower[InstalledEntry(agents[j]).name] # t
            /\ ~ClaimedByOther(forge, t, c)
            => forge.index[t] = c
    /\ \A c \in DOMAIN forge.pool :
        ~ClaimedByOther(forge, c, c) => forge.index[c] = c

(* The scripts speak of the same configuration: the forge finds the party
   skill, or the skill has nothing of its own and the team and the user add to
   it what has no code or id in common; and the party gets past the agents. *)
Unrepeated(key, list) ==
    \A i, j \in DOMAIN list : list[i][key] = list[j][key] => i = j \/ list[i][key] = None
SameConfig ==
    /\ ~PartyDies(setup)
    /\ \/ setup.found
       \/ /\ setup.merged /\ setup.base = [members |-> <<>>, groups |-> <<>>]
          /\ Unrepeated("code", Overrides(setup).members)
          /\ Unrepeated("id", Overrides(setup).groups)

(* Then, unless a name clashed with a token, both scripts have the same people
   under the same tokens, and the room the party opens, if the user asks for
   one there is, is among those the forge lists, with the same people in it.
   Whoever is last to give an agent a title, by its code in full or in short
   or by its name, is the one who does, in the agent's own slot of the room of
   the installed; agents aside whose tokens another code claims too, or that a
   member calls by the name another member gave them. *)
Calls(a) == Claims(a.code) \union {Lower[InstalledEntry(a).name]}
Calling(a, members) == {j \in DOMAIN members : members[j].code \in Calls(a)}
Given(a, members) ==
    {Lower[members[j].name] : j \in {k \in Calling(a, members) : members[k].name # None}}
Distinct(a, members) ==
    /\ \A i \in DOMAIN agents :
        agents[i].code # a.code => Calls(agents[i]) \intersect Calls(a) = {}
    /\ \A j \in DOMAIN members \ Calling(a, members) : LET d == members[j].code IN
        d # None => Claims(d) \intersect (Calls(a) \union Given(a, members)) = {}
TitlesLast(members) ==
    \A i \in DOMAIN agents :
        LET titled == {j \in Calling(agents[i], members) : members[j].title # None}
        IN  Distinct(agents[i], members) /\ titled # {} =>
                \E j \in titled :
                    /\ \A k \in titled : k <= j
                    /\ Installed(party).members[i].title = members[j].title
RoomsAgree ==
    SameConfig /\ ~clash =>
        /\ party = forge
        /\ Done =>
            /\ \/ PartyRoom.active = "unknown_group"
               \/ PartyRoom \in ForgeRooms
            /\ TitlesLast(PartyWorkflow(setup).members)
=============================================================================
