------------------------------ MODULE MCIpTable ------------------------------
(***************************************************************************)
(* Small instances of IpTable: every table of up to MaxLines rows over a   *)
(* handful of addresses, in every order, and every lookup in it; with      *)
(* split_string, which makes lines of texts, on every short text.          *)
(***************************************************************************)
EXTENDS IpTable

Line(a, b) == [start |-> a, end |-> b, country |-> CHOOSE c \in Countries : TRUE]

(* Files without a line, with one of any kind, and three of two lines: in  *)
(* order, out of order, and with a last line that is cut short.            *)
MCDicts ==
    {<<>>} \union {<<l>> : l \in Lines} \union
    {<<Line(0, 0), Line(1, 2)>>,
     <<Line(2, Malformed), Line(0, 1)>>,
     <<Line(0, 1), [start |-> 2, end |-> 2, country |-> NoField]>>}

=============================================================================
