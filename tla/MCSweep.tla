------------------------------ MODULE MCSweep -------------------------------
(* Three arms: k has ClickHouse objects of its own, v and s share a         *)
(* container name, as vector and spate do. An invocation measures one or   *)
(* two of them, once or twice.                                             *)
EXTENDS Sweep

CONSTANTS k, v, s

MCArms == {k, v, s}
MCName == [a \in MCArms |-> IF a = k THEN "worker" ELSE "sut"]
MCSelections == {<<k, v>>, <<s>>}
=============================================================================
