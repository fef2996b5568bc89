------------------------------ MODULE MCKnowledge ------------------------------
(* Concepts without a fault of their own but their links, and one with none  *)
(* of the frontmatter that is required.                                      *)
EXTENDS Knowledge, TLC

CONSTANTS a, b, x, y

Plain(desc, body) == [meta |-> "ok", desc |-> desc, body |-> body, raw |-> {}, cited |-> {}]
MCDocs == {Plain(None, None), Plain(<<Root, x>>, None), Plain(None, <<Root, y>>),
           [Plain(None, <<a, x>>) EXCEPT !.raw = Raw],
           [Plain(<<Root, y>>, None) EXCEPT !.meta = "bad"]}
=============================================================================
