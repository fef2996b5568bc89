---------------------------- MODULE MCProvision -----------------------------
(* Two forms that are accepted, with TLS and without, whose bounds do not    *)
(* overlap (those of plain are one value when stored), and two that are not: *)
(* TLS without a CA, and crossed bounds.                                     *)
EXTENDS Provision

CONSTANTS plain, secure, bare, crossed, warm, hot, blank, p1

MCLo == [f \in Forms \cup {Blank} |->
           CASE f = plain -> 39991 [] f = crossed -> 60000
             [] f = secure -> 50000 [] OTHER -> 10000]
MCHi == [f \in Forms \cup {Blank} |->
           CASE f = plain -> 39999 [] f = crossed -> 40000 [] OTHER -> 90000]
=============================================================================
