--------------------------- MODULE MCSprintStatus ---------------------------
EXTENDS SprintStatus, TLC

StoryKey(n) == [kind |-> "story", epic |-> 1, name |-> n]
Gen(fresh, sets)   == [op |-> "generate", fresh |-> fresh, sets |-> sets]
Upd(retro, adds, sels) ==
    [op |-> "update", epic |-> 1, retro |-> retro, adds |-> adds, sels |-> sels]
Set(n, s) == <<[key |-> StoryKey(n), status |-> s]>>
ById(n, s) == [id |-> <<1, n, "t">>, epic |-> 1, text |-> "t", status |-> s]
ByText(t, s) == [id |-> NoId, epic |-> 1, text |-> t, status |-> s]

MCInputs ==
    {Gen(FALSE, NoSet), Gen(TRUE, Set("a", "done")),
     Gen(FALSE, Set("a", "backlog")), Gen(FALSE, Set("a", "odd")),
     Upd(TRUE, <<"t", "t">>, <<>>),
     Upd(FALSE, <<>>, <<ById(1, "done"), ByText("u", "done")>>)}

Symmetry == Permutations(Procs)
=============================================================================
