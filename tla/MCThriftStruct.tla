--------------------------- MODULE MCThriftStruct ---------------------------
(* Any peer sends a message of up to three fields. *)
EXTENDS ThriftStruct

(* 0, 1 and 2 are known somewhere, as i32, string or struct.               *)
MCIds == {0, 1, 2}

=============================================================================
