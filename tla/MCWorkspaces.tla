------------------------------ MODULE MCWorkspaces ------------------------------
(* Instances of Workspaces for TLC.                                          *)
EXTENDS Workspaces, TLC

CONSTANTS s1, s2, i1, i2

(* Every account may use i1 (no e-mail claim, or the same one at two         *)
(* issuers); i2 is addressed to s1.                                          *)
MCMatching == [i \in Invites |-> IF i = i1 THEN Subjects ELSE {s1}]

MCSymmetry == UNION {Permutations(Tenants), Permutations(Users), Permutations(Requests)}

===============================================================================
