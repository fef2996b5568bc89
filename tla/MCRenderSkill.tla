---------------------------- MODULE MCRenderSkill ----------------------------
EXTENDS RenderSkill, TLC

It(id, text) == [id |-> id, text |-> text]
MCTables == {<<>>, <<It("a", "x")>>, <<It("a", "y"), It("b", "x")>>,
             <<It(Absent, "x")>>, <<It("b", "x"), It("b", "y")>>}
Symmetry == Permutations(Procs) \union Permutations(Paths)
=============================================================================
