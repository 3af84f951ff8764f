------------------------------ MODULE MCStore ------------------------------
(***************************************************************************)
(* Store with an empty database and one with a package that is not as      *)
(* users post it.                                                          *)
(***************************************************************************)
EXTENDS Store, TLC

CONSTANTS u1, u2, a, b, c, d, svc, set  \* users, packages, a service, a setting

MCPost == {[name |-> a, cmd |-> c], [name |-> b, cmd |-> c]}

MCDatabase ==
  {[packages |-> {}, services |-> {}, settings |-> (set :> c)],
   [packages |-> {[id |-> 1, name |-> a, cmd |-> d]}, services |-> {svc},
    settings |-> (set :> d)]}
=============================================================================
