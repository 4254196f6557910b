---------------------------- MODULE MCLoopDispatch ----------------------------
(* Small instances of LoopDispatch.                                         *)
EXTENDS LoopDispatch

NoDeps    == [t \in Task |-> {}]
ThirdLast == [t \in Task |-> IF t = 3 THEN {1, 2} ELSE {}]
SecondLast == [t \in Task |-> IF t = 2 THEN {1} ELSE {}]
===============================================================================
