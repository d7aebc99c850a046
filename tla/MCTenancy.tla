----------------------------- MODULE MCTenancy ------------------------------
(***************************************************************************)
(* Small instances of Tenancy for TLC.                                      *)
(***************************************************************************)
EXTENDS Tenancy, TLC

Claims(user_id, id, org_id, role) ==
    [form |-> "object", user_id |-> user_id, id |-> id, org_id |-> org_id, role |-> role]
Nothing == Claims(None, None, None, None)

\* An admin and a user of one organisation, the user's name in another one, and
\* headers that name nobody.
ThreeUsers ==
    {Claims("u", None, "A", "Admin"), Claims(Empty, "v", "A", None), Claims("u", "v", "B", "Superadmin"),
     [Nothing EXCEPT !.form = "absent"], [Nothing EXCEPT !.form = "garbage"],
     Claims("v", None, None, "User"), Claims("v", None, "A", Empty)}

Symmetric == Permutations(Ids) \cup Permutations(Requests)

ItemThenFile == <<"Item", "File">>
=============================================================================
