------------------------------- MODULE IpTable -------------------------------
(***************************************************************************)
(* IPLib (ip_lib/ip_table.h): a table of address ranges, each with its     *)
(* country, loaded from a dictionary file or row by row, and the binary    *)
(* search of GetCountry.  Python calls every method with the interpreter   *)
(* lock held, so no method changes the table during a search; the search   *)
(* itself is modelled probe by probe.                                      *)
(*                                                                         *)
(* A line of a dictionary, and the argument of a lookup, is modelled by    *)
(* what atoi and split_string make of it: an address with four parts is    *)
(* the number they add up to (a part may exceed 255, so the number may     *)
(* exceed the 32 bits of a row), any other one is Malformed.               *)
(***************************************************************************)
EXTENDS Integers, Sequences, SplitString

CONSTANTS Countries,  (* the third field of a line                         *)
          NoField,    (* a line without a third field; no country          *)
          Malformed,  (* an address without four parts                     *)
          Word,       (* 2^32, a row holds 32-bit addresses                *)
          LongWord,   (* 2^64, of uint64_t and of size_t                   *)
          MaxLines,   (* what fits into memory                             *)
          Dicts       (* the dictionary files, as sequences of lines       *)

(* Larger addresses than Word behave like Word: no row holds them.         *)
Texts == 0..Word \union {Malformed}
Lines == [start : Texts, end : Texts, country : Countries \union {NoField}]

ASSUME TableAssumption ==
    /\ Word \in Nat /\ LongWord \in Nat /\ MaxLines \in Nat
    /\ Word > 0 /\ LongWord > Word /\ LongWord > 2 * MaxLines
    /\ NoField \notin Countries
    /\ Malformed \notin Nat
    /\ \A dict \in Dicts : dict \in Seq(Lines) /\ Len(dict) <= MaxLines

(* So that -1 has all bits set in a row as well.                           *)
ASSUME WidthAssumption == LongWord % Word = 0

VARIABLES table,      (* m_ip_table                                        *)
          pc,         (* what the library is doing                         *)
          ip,         (* ip_int                                            *)
          floor, ceil,(* the bounds of the search, 0-based                 *)
          answer      (* the return code and the country                   *)

vars == <<table, pc, ip, floor, ceil, answer>>

Rows == [start : 0..(Word - 1), end : 0..(Word - 1), country : Countries]

(* ip2int: -1 for a malformed address.                                     *)
Ip2Int(x) == IF x = Malformed THEN LongWord - 1 ELSE x

(* Seeded fault: a row that keeps all the bits of its addresses.           *)
WideRow(l) ==
    [start |-> Ip2Int(l.start), end |-> Ip2Int(l.end), country |-> l.country]

(* The row of a line; uint32_t start and end.                              *)
Row(l) ==
    [start |-> Ip2Int(l.start) % Word, end |-> Ip2Int(l.end) % Word,
     country |-> l.country]

At(i) == table[i + 1]

Covers(row, n) == row.start <= n /\ n <= row.end

(* (floor + ceil) / 2 of size_t.                                           *)
Mid == ((floor + ceil) % LongWord) \div 2

(* "overrun" and "bad_line": the code has read outside of a vector, and    *)
(* what follows is undefined.                                              *)
Undefined == pc \in {"overrun", "bad_line"}

Init ==
    /\ table = <<>>
    /\ pc = "idle"
    /\ ip = 0 /\ floor = 0 /\ ceil = 0
    /\ answer = [code |-> 0, country |-> NoField]

-----------------------------------------------------------------------------
(* LoadDict: the new rows replace the old ones.  A file that cannot be     *)
(* opened has no lines.  A line with fewer than three fields indexes       *)
(* fields out of bounds.                                                   *)
LoadDict(dict) ==
    /\ pc = "idle"
    /\ IF \E i \in DOMAIN dict : dict[i].country = NoField
       THEN pc' = "bad_line" /\ UNCHANGED table
       ELSE table' = [i \in DOMAIN dict |-> Row(dict[i])] /\ UNCHANGED pc
    /\ UNCHANGED <<ip, floor, ceil, answer>>

(* PushItem: one more row, wherever it belongs.                            *)
PushItem(l) ==
    /\ pc = "idle"
    /\ l.country # NoField
    /\ Len(table) < MaxLines
    /\ table' = Append(table, Row(l))
    /\ UNCHANGED <<pc, ip, floor, ceil, answer>>

CleanUp ==
    /\ pc = "idle"
    /\ table' = <<>>
    /\ UNCHANGED <<pc, ip, floor, ceil, answer>>

(* GetCountry.                                                             *)
GetCountryEmpty ==
    /\ pc = "idle"
    /\ table = <<>>
    /\ answer' = [code |-> -2, country |-> NoField]
    /\ pc' = "return"
    /\ UNCHANGED <<table, ip, floor, ceil>>

GetCountry(x) ==
    /\ pc = "idle"
    /\ table # <<>>
    /\ ip' = Ip2Int(x)
    /\ floor' = 0
    /\ ceil' = Len(table) - 1
    /\ pc' = "search"
    /\ UNCHANGED <<table, answer>>

(* The loop reads the row in the middle.                                   *)
Probing ==
    /\ pc = "search"
    /\ floor <= ceil
    /\ Mid < Len(table)

Found ==
    /\ Probing
    /\ Covers(At(Mid), ip)
    /\ answer' = [code |-> 0, country |-> At(Mid).country]
    /\ pc' = "return"
    /\ UNCHANGED <<table, ip, floor, ceil>>

(* Seeded faults: halves that leave a row out, and one that keeps the row  *)
(* just read.                                                              *)
LowerHalfTooSmall ==
    /\ Probing
    /\ ~Covers(At(Mid), ip)
    /\ ip < At(Mid).start
    /\ ceil' = (Mid - 2) % LongWord
    /\ UNCHANGED <<table, pc, ip, floor, answer>>

UpperHalfTooSmall ==
    /\ Probing
    /\ ~Covers(At(Mid), ip)
    /\ ip >= At(Mid).start
    /\ floor' = Mid + 2
    /\ UNCHANGED <<table, pc, ip, ceil, answer>>

UpperHalfTooLarge ==
    /\ Probing
    /\ ~Covers(At(Mid), ip)
    /\ ip >= At(Mid).start
    /\ floor' = Mid
    /\ UNCHANGED <<table, pc, ip, ceil, answer>>

(* ceil = mid - 1; of size_t, so 0 - 1 is the largest one.                 *)
LowerHalf ==
    /\ Probing
    /\ ~Covers(At(Mid), ip)
    /\ ip < At(Mid).start
    /\ ceil' = (Mid - 1) % LongWord
    /\ UNCHANGED <<table, pc, ip, floor, answer>>

UpperHalf ==
    /\ Probing
    /\ ~Covers(At(Mid), ip)
    /\ ip >= At(Mid).start
    /\ floor' = Mid + 1
    /\ UNCHANGED <<table, pc, ip, ceil, answer>>

Overrun ==
    /\ pc = "search"
    /\ floor <= ceil
    /\ Mid >= Len(table)
    /\ pc' = "overrun"
    /\ UNCHANGED <<table, ip, floor, ceil, answer>>

NotFound ==
    /\ pc = "search"
    /\ floor > ceil
    /\ answer' = [code |-> -1, country |-> NoField]
    /\ pc' = "return"
    /\ UNCHANGED <<table, ip, floor, ceil>>

Return ==
    /\ pc = "return"
    /\ pc' = "idle"
    /\ answer' = [code |-> 0, country |-> NoField]
    /\ ip' = 0 /\ floor' = 0 /\ ceil' = 0
    /\ UNCHANGED table

-----------------------------------------------------------------------------
SearchStep == Found \/ LowerHalf \/ UpperHalf \/ Overrun \/ NotFound

Next ==
    \/ \E dict \in Dicts : LoadDict(dict)
    \/ \E l \in Lines : PushItem(l)
    \/ CleanUp
    \/ GetCountryEmpty
    \/ \E x \in Texts : GetCountry(x)
    \/ SearchStep
    \/ Return
    \/ Undefined /\ UNCHANGED vars

Spec == Init /\ [][Next]_vars

FairSpec == Spec /\ WF_vars(SearchStep)

-----------------------------------------------------------------------------
TypeOK ==
    /\ table \in Seq(Rows)
    /\ Len(table) <= MaxLines
    /\ pc \in {"idle", "search", "return", "overrun", "bad_line"}
    /\ ip \in 0..(LongWord - 1)
    /\ floor \in 0..MaxLines
    /\ ceil \in 0..(LongWord - 1)
    /\ answer \in [code : {0, -1, -2}, country : Countries \union {NoField}]

(* What the search needs of a dictionary: the ranges ascend and do not     *)
(* overlap.                                                                *)
Sorted ==
    \A i, j \in DOMAIN table : i < j =>
        /\ table[i].start <= table[j].start
        /\ table[i].end < table[j].start

FromZero == table # <<>> => table[1].start = 0

(* Row j is on the wrong side of row i: a probe of j turns the search away *)
(* from i although i has the address in it.                                *)
Misleads(j, i) ==
    \/ j < i /\ ip < table[j].start
    \/ j > i /\ table[j].start <= ip /\ ~Covers(table[j], ip)

(* Whatever the order of the table, a search that gives up has missed a    *)
(* range with the address in it only because another row is on the wrong   *)
(* side of that range.  In a sorted table none is, so that the search is   *)
(* right; and a row in the wrong place hides no range from an address that *)
(* is on the same side of both.                                            *)
MissIsRight ==
    pc = "return" /\ answer.code = -1 =>
        \A i \in DOMAIN table :
            Covers(table[i], ip) => \E j \in DOMAIN table : Misleads(j, i)

(* The search leaves the table only for an address below the first range:  *)
(* never with a dictionary that is sorted and starts at 0.0.0.0.           *)
StaysInTable == Sorted /\ FromZero => pc # "overrun"

(* A malformed address never has a country, not even in a table with       *)
(* malformed ranges: rows hold 32 bits and ip_int has 64.                  *)
MalformedIsNowhere ==
    pc = "return" /\ answer.code = 0 => ip < Word

(* split_string, which LoadDict, PushItem and GetCountry take lines and    *)
(* addresses apart with, finds the fields of texts without empty ones, and *)
(* loses no letter of others.  It has no state: the texts are looked at in *)
(* the states with an empty table.                                         *)
FieldsAreRight == table = <<>> => SplitIsRight

(* Every search ends, in a table in any order.                             *)
SearchEnds == pc = "search" ~> pc # "search"

(* "get country by ip" (ip_lib.cpp, l.125 and 229): every lookup answers,  *)
(* an address outside of all ranges included.                              *)
LookupAnswers == pc # "overrun"

=============================================================================
