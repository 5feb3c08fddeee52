--------------------------- MODULE MCCalculatorRpc ---------------------------
(* Two-bit integers, -2 to 1, so that every operation can overflow.         *)
EXTENDS CalculatorRpc

MCMinInt == -2

W(op, a, b) == [op |-> op, a |-> a, b |-> b]

(* A result that fits of each operation, a sum that does not, a failure,   *)
(* the division that traps, and one with a remainder.                      *)
MCWorks == {W("ADD", 0, 1), W("ADD", 1, 1), W("SUBTRACT", -1, 1), W("MULTIPLY", -1, 1),
            W("DIVIDE", 1, 0), W("DIVIDE", -2, -1), W("DIVIDE", 1, -2)}

(* What CalculatorProcessor serves, and SharedServiceProcessor alone.       *)
Calculator    == {"ping", "add", "calculate", "zip", "getStruct"}
SharedService == {"getStruct"}
MCMethodSets  == {Calculator, SharedService}
=============================================================================
