----------------------------- MODULE MCCatalog -----------------------------
(* Instances of Catalog.                                                    *)
EXTENDS Catalog, TLC

Symmetry == Permutations(Callers)

Call(kind, table, user, role) == [kind |-> kind, table |-> table, user |-> user, role |-> role]

AllCalls ==
    {Call("CreateTable", "t2", "", ""), Call("RegisterTable", "t2", "", ""),
     Call("RegisterTable", "t3", "", ""), Call("DropTable", "t1", "", ""),
     Call("CreateUser", "", "u2", ""), Call("Migrate", "", "u1", ""), Call("CreateRole", "", "", "r2"),
     Call("DropRole", "", "", "r1"), Call("AssignRole", "", "u1", "r1"),
     Call("RevokeRole", "", "u1", "r1"), Call("Grant", "", "", "r1"), Call("Revoke", "t1", "", "r1")}

\* Calls that give an id of a table dropped by halves to another one.
HalfDropCalls ==
    {Call("CreateTable", "t3", "", ""), Call("RegisterTable", "t2", "", ""),
     Call("DropTable", "t2", "", "")}

Version(tx, row) == [tx |-> tx, row |-> row]
Never == Version(0, Gone)
Rows(q) == [i \in Ids |-> IF i \in DOMAIN q THEN q[i] ELSE Never]

\* A database with a first row, which no scan returns, in each table of names.
SmallDatabase ==
    [tables |-> Rows(<<Version(2, <<"t0">>), Version(3, <<"t1">>)>>),
     users |-> Rows(<<Version(4, <<"u0", "bcrypt">>), Version(5, <<"u1", "legacy">>)>>),
     roles |-> Rows(<<Version(6, <<"r0">>), Version(7, <<"r1">>)>>),
     grants |-> Rows(<<Version(8, <<1, 0>>), Version(9, <<2, 2>>)>>),
     userRoles |-> Rows(<<Version(10, <<1, 1>>), Version(11, <<2, 2>>)>>),
     history |-> Rows(<<Version(2, <<1>>), Version(3, <<2>>)>>),
     audit |-> Rows(<<Version(2, <<"CreateTable">>), Version(3, <<"CreateTable">>)>>)]
NewDatabase == [t \in SysTables |-> Rows(<<>>)]
=============================================================================
