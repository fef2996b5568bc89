------------------------------- MODULE MCRoster -------------------------------
(* Two agents with long codes, their short ones, and a name in two spellings. *)
EXTENDS Roster

MCTokens == {"bmad-a", "bmad-b", "a", "b", "n", "N"}
MCLower  == [t \in MCTokens |-> IF t = "N" THEN "n" ELSE t]
MCAlias  == [t \in MCTokens |-> CASE t = "bmad-a" -> "a" [] t = "bmad-b" -> "b"
                                  [] OTHER -> t]

\* Also a third agent whose code is the short one of another.
AgentA(n) == [code |-> "bmad-a", name |-> n, title |-> "t"]
AgentB(n) == [code |-> "bmad-b", name |-> n, title |-> None]
Short     == [code |-> "a", name |-> "N", title |-> None]
MCAgents ==
    {<<>>} \union {<<AgentA(x), AgentB(y)>> : x, y \in {"n", "N", "b", None}}
           \union {<<Short, AgentA("b")>>, <<AgentA("b"), Short>>}
\* An array may repeat a code, and leave it out.
MCArrays == {<<AgentA("n"), [Short EXCEPT !.code = None], AgentB("b"), AgentA("N")>>,
             <<>>}

MCMember == [code : MCTokens \union {None}, name : {"N", "b", "bmad-a", None},
             title : {"u", "v", None}]
MCLists  == {<<>>} \union {<<m>> : m \in MCMember} \union {<<m, o>> : m, o \in MCMember}

Cast1 == [id |-> "g", members |-> <<"n", "b", "bmad-a", "N">>]
Cast2 == [id |-> "g", members |-> <<>>]
Cast3 == [id |-> "h", members |-> <<"a", "a">>]
Cast4 == [id |-> None, members |-> <<"n">>]

\* The configurations made of these agents, layers and so on.
Some(as, shape, base, team, user, default, asked, found, resolved, merged) ==
    [agents : as, shape : shape, base : base, team : team, user : user,
     default : default, asked : asked,
     found : found, resolved : resolved, merged : merged]
Empty == [members : {<<>>}, groups : {<<>>}]
Plain == {<<AgentA("n"), AgentB("N")>>, <<AgentA("n"), AgentB(None)>>}

\* Everyone in the skill's own list, one group.
OneLayer ==
    Some(MCAgents, {"table"}, [members : MCLists, groups : {<<Cast1>>}], Empty, Empty,
         {"g"}, {None}, {TRUE}, {TRUE}, {TRUE})

\* At most one member in each layer, and what may fail or be missing.
MCFew == {<<>>} \union {<<m>> : m \in
            [code : {"bmad-a", "a", "n"}, name : {"b", None}, title : {"u", "v", None}]
            \union {[code |-> None, name |-> "n", title |-> None]}}
FewIn == [members : MCFew, groups : {<<>>}]
Layers == Some(Plain, {"table"}, FewIn, FewIn, FewIn, {None}, {None},
               BOOLEAN, BOOLEAN, BOOLEAN)
Arrays == Some(MCArrays, {"array"}, Empty, Empty, FewIn, {None}, {None},
               BOOLEAN, {TRUE}, {TRUE})

\* The groups in the layers, and which one is asked for.
MCCasts == {<<>>, <<Cast1>>, <<Cast2>>, <<Cast3, Cast1>>, <<Cast4, Cast3>>, <<Cast2, Cast1>>}
CastsIn == [members : {<<>>}, groups : MCCasts]
Rooms == Some(Plain, {"table"}, CastsIn, CastsIn,
              [members : {<<>>, <<AgentA("b")>>}, groups : MCCasts],
              {"g", None}, {"h", None}, BOOLEAN, {TRUE}, {TRUE})

MCSetups == OneLayer \union Layers \union Arrays \union Rooms
=============================================================================
