-------------------------- MODULE MCAdministrators --------------------------
(* Small instances of Administrators for TLC.                               *)
EXTENDS Administrators, TLC

CONSTANTS u1, u2, u3, owner, r1, r2, userManage, roleManage, secret

\* Two owners at work, beside somebody who holds a role with a permission of its own.
TwoOwners ==
    [people |-> {u1, u2, u3}, active |-> {u1, u2, u3}, reach |-> Operators,
     defined |-> {owner, r1},
     holds |-> {<<u1, owner>>, <<u2, owner>>, <<u3, r1>>},
     grants |-> {owner} \X {userManage, roleManage} \cup {<<r1, secret>>}]

\* One owner at work, and u3 and r2 yet to be created.
OneOwner ==
    [TwoOwners EXCEPT !.people = {u1, u2}, !.active = {u1, u2},
                      !.holds = {<<u1, owner>>, <<u2, r1>>}]

Symmetry == Permutations(Requests)
=============================================================================
