---------------------------- MODULE MCOrderTotal ----------------------------
(* Model-checking instance of OrderTotal: units of NanosMod nanos, amounts *)
(* that carry never, at once and after several additions.                  *)
EXTENDS OrderTotal

MCAmounts == {[units |-> 1, nanos |-> 0], [units |-> 1, nanos |-> NanosMod - 1],
              [units |-> 2, nanos |-> NanosMod \div 2]}
=============================================================================
