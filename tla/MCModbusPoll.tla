---------------------------- MODULE MCModbusPoll ----------------------------
(* Data-point lists for ModbusPoll. *)
EXTENDS ModbusPoll

P(n, a, t) == [name |-> n, address |-> a, data_type |-> t]

(* Lists of two or three points of one or two registers, in any order,     *)
(* with gaps, overlaps and repeated addresses.                             *)
SmallLists ==
    LET on(n, A) == {P(n, a, t) : a \in A, t \in {"UINT16", "UINT32", "FLOAT32"}}
    IN  {<<p, q>> : p \in on("a", 0 .. 3), q \in on("b", 0 .. 3)}
          \cup {<<p, q, r>> : p \in on("a", 0 .. 2), q \in on("b", {1}),
                             r \in on("c", {0, 3})}

(* All lists of three 16-bit or float points whose registers form one      *)
(* block, listed in any order.                                             *)
OneBlockLists ==
    LET types == {"INT16", "FLOAT32"}
        size(t) == IF t = "FLOAT32" THEN 2 ELSE 1
        block(t, u, v) == <<P("a", 7, t), P("b", 7 + size(t), u),
                            P("c", 7 + size(t) + size(u), v)>>
        orders == {f \in [1 .. 3 -> 1 .. 3] : IsInjective(f)}
    IN  {[k \in 1 .. 3 |-> block(t, u, v)[f[k]]] :
            t \in types, u \in types, v \in types, f \in orders}

(* One name for two points; the configuration does not exclude it. *)
SameNameLists == { <<P("a", 0, "INT16"), P("a", 1, "INT16")>> }

Lists == SmallLists \cup OneBlockLists \cup SameNameLists

(* Two blocks with a gap between them. *)
TwoBlockLists == { <<P("a", 0, "UINT16"), P("b", 10, "UINT16")>> }
=============================================================================
