----------------------------- MODULE MCPageWalk -----------------------------
(***************************************************************************)
(* Rows of all parts, interleaved in the table, one output yet to come,    *)
(* and a rowid that an earlier row has left.                               *)
(***************************************************************************)
EXTENDS PageWalk, TLC

MCRows == {"a", "b", "c", "d", "e", "f"}

Row(n, part) == [rowid |-> n, part |-> part]

MCStartTable ==
    "a" :> Row(1, "owner") @@ "b" :> Row(2, "return") @@ "c" :> Row(3, "other")
    @@ "d" :> Row(5, "owner") @@ "e" :> Row(6, "return")

ASSUME InstanceFits == TableFits
=============================================================================
