---------------------------- MODULE MCAccounting ----------------------------
(* An arm of a data plane and a control plane, the first a JVM.            *)
EXTENDS Accounting
CONSTANTS data, control
MCOrder == <<control, data>>
MCRate == [c \in {data, control} |-> IF c = data THEN 2 ELSE 1]
=============================================================================
