----------------------------- MODULE SplitString -----------------------------
(***************************************************************************)
(* split_string (ip_lib/ip_table.h), which takes the lines of a dictionary *)
(* and the parts of an address apart.  It walks a pointer over a C string; *)
(* behind the NUL is whatever memory holds, up to some other NUL.          *)
(***************************************************************************)
EXTENDS Integers, Sequences, SequencesExt

CONSTANTS
    Letters,
    Delimiter, Nul,
    MaxText,      (* bound on the length of the text                       *)
    MaxBehind     (* bound on what is behind it                            *)

ASSUME CharAssumption ==
    Delimiter \notin Letters /\ Nul \notin Letters /\ Delimiter # Nul

Strings(n) == UNION {[1..k -> Letters \union {Delimiter}] : k \in 0..n}

(* std::string(start, p - start), unless it is empty, as the places of its *)
(* first and its last character; start and p count from 0.                 *)
Piece(start, p) == IF p = start THEN <<>> ELSE << <<start + 1, p>> >>

(* Seeded fault: a field that begins where the walk goes on.               *)
AfterDelimiterLate(p) == p + 2

(* start = ++p, and the ++p of the loop comes on top: the first character  *)
(* of a field is not looked at.                                            *)
AfterDelimiter(p) == p + 1
Resume(p)         == p + 2

(* Values of start and p.                                                  *)
Pointers(memory) == (0..Len(memory)) \X (0..(Len(memory) - 1))

(* The walk with start at x[1] from x[2] on: the fields it makes, and      *)
(* where it ends.                                                          *)
Walk(memory) ==
    LET walk[x \in Pointers(memory)] ==
            LET char == memory[x[2] + 1]
                rest == walk[<<AfterDelimiter(x[2]), Resume(x[2])>>]
            IN  IF char = Nul THEN [fields |-> Piece(x[1], x[2]), end |-> x[2]]
                ELSE IF char = Delimiter
                     THEN [fields |-> Piece(x[1], x[2]) \o rest.fields, end |-> rest.end]
                ELSE walk[<<x[1], x[2] + 1>>]
    IN  walk[<<0, 0>>]

(* The memory of a C string with something behind it; a walk that has run  *)
(* past its NUL meets another one.                                         *)
InMemory(text, behind) == text \o <<Nul>> \o behind \o <<Nul, Nul, Nul>>

-----------------------------------------------------------------------------
(* The fields, by definition: the longest runs of letters.                 *)
Fields(text) ==
    {r \in (DOMAIN text) \X (DOMAIN text) :
        /\ r[1] <= r[2] /\ \A k \in r[1]..r[2] : text[k] # Delimiter
        /\ r[1] = 1 \/ text[r[1] - 1] = Delimiter
        /\ r[2] = Len(text) \/ text[r[2] + 1] = Delimiter}

(* From left to right.                                                     *)
InOrder(fields) ==
    \A k, l \in DOMAIN fields : k < l => fields[k][2] < fields[l][1]

(* What the code relies on: something between two delimiters and behind    *)
(* the last one.                                                           *)
NoDoubles(text) ==
    \A i \in 1..(Len(text) - 1) : text[i] = Delimiter => text[i + 1] # Delimiter
NoTrailing(text) == text # <<>> => Last(text) # Delimiter

(* Texts without empty fields are split into their fields.                 *)
RightFields(text, fields) == NoDoubles(text) => Range(fields) = Fields(text)

(* Doubled delimiters end up in fields, but every letter is still in one,  *)
(* no field is empty, and none has anything from behind the text.          *)
NothingLost(text, fields) ==
    /\ \A k \in DOMAIN fields : fields[k] \in (DOMAIN text) \X (DOMAIN text)
                                 /\ fields[k][1] <= fields[k][2]
    /\ \A i \in DOMAIN text : text[i] # Delimiter =>
           \E k \in DOMAIN fields : fields[k][1] <= i /\ i <= fields[k][2]

(* The pointer stays in the text unless that ends in a delimiter.          *)
SplitIsRight ==
    \A text \in Strings(MaxText) : \A behind \in Strings(MaxBehind) :
        NoTrailing(text) =>
            LET walk == Walk(InMemory(text, behind))
            IN  /\ walk.end = Len(text)
                /\ InOrder(walk.fields)
                /\ NothingLost(text, walk.fields)
                /\ RightFields(text, walk.fields)

=============================================================================
