------------------------------ MODULE MCUsers -------------------------------
(***************************************************************************)
(* Two programs, two file names beside .passwd, four records of accounts.  *)
(***************************************************************************)
EXTENDS Users, TLC

CONSTANTS p1, p2, a, b, carol

MCPasswords == {Root, User, carol}
\* carol's password has the hash of User's
MCHash == (Root :> 1) @@ (User :> 2) @@ (carol :> 2)

(* Slots that change hands under an open descriptor; rights that change    *)
(* under one; extents that move next to each other; writes of no bytes;    *)
(* memfs growing; all file systems listed; accounts.                       *)
MCMixes == {
    [kinds |-> {"ufs", "remove", "login"}, names |-> {a}, lens |-> {2}, max |-> 9],
    [kinds |-> {"ufs", "chmod", "login"}, names |-> {a}, lens |-> {2}, max |-> 8],
    [kinds |-> {"ufs", "remove"}, names |-> {a, b}, lens |-> {0, 2, 4}, max |-> 7],
    [kinds |-> {"ufs", "close"}, names |-> {a, b}, lens |-> {2, 4}, max |-> 7],
    [kinds |-> {"memfs", "close"}, names |-> {a, b}, lens |-> {0, 1, 2}, max |-> 8],
    [kinds |-> {"ufs", "memfs", "remove", "close"}, names |-> {a, b, PASSWD_FILE}, lens |-> {}, max |-> 6],
    [kinds |-> {"ufs", "close", "login", "adduser", "chmod"}, names |-> {PASSWD_FILE}, lens |-> {3}, max |-> 8]}

Symmetry == Permutations({p1, p2})

=============================================================================
