------------------------------- MODULE MCSessions -------------------------------
(***************************************************************************)
(* Instances of Sessions for TLC.                                          *)
(***************************************************************************)
EXTENDS Sessions

CONSTANTS ann, eve, mail1, name1, name2, r1, r2, k1

\* Two people who want the same username.
TwoMails == [u \in {ann, eve} |-> IF u = ann THEN mail1 ELSE name2]
OneName  == [u \in {ann, eve} |-> name1]
=============================================================================
