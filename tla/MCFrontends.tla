---------------------------- MODULE MCFrontends ----------------------------
(***************************************************************************)
(* MySQL connections, a PostgreSQL connection and a web request.  The      *)
(* catalog holds a database whose name has an upper-case letter; the       *)
(* lower-case form is a name the catalog does not hold.                    *)
(***************************************************************************)
EXTENDS Frontends, TLC

CONSTANTS my1, my2, my3, pg1, web1, Mixed, mixed

AllClients == {my1, my2, my3, pg1, web1}
FewClients == {my1, pg1, web1}
KindIn(clients) ==
    [c \in clients |-> IF c = pg1 THEN "pg" ELSE IF c = web1 THEN "web" ELSE "mysql"]
AllKinds == KindIn(AllClients)
FewKinds == KindIn(FewClients)
OneDatabase == {Mixed}
LowerCase == [d \in {Mixed, mixed} |-> IF d = Mixed THEN mixed ELSE d]

(* MySQL clients are interchangeable.                                      *)
Symmetry == Permutations({my1, my2, my3})

=============================================================================
