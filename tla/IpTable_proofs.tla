--------------------------- MODULE IpTable_proofs ---------------------------
(***************************************************************************)
(* Proofs about IpTable, for tables of any size and words of any width.    *)
(* The search keeps every range that covers the address between floor and  *)
(* ceil, unless a row is on the wrong side of it (Bracketed), and moves    *)
(* ceil out of the table only for an address below the first range         *)
(* (Bounds).  The walk of split_string is right from every pass on         *)
(* (SplitFrom), for texts of any length and whatever is behind them.       *)
(***************************************************************************)
EXTENDS IpTable, TLAPS, WellFoundedInduction, SequenceTheorems

Hidden(i) == \E j \in 1..Len(table) : Misleads(j, i)

Bracketed ==
    pc = "search" =>
        \A i \in 1..Len(table) :
            Covers(table[i], ip) /\ ~Hidden(i) => floor + 1 <= i /\ i <= ceil + 1

(* The bounds of a search under way; only a ceil that went below zero is   *)
(* not in the table.                                                       *)
Bounds ==
    pc = "search" =>
        /\ table # <<>>
        /\ floor <= Len(table)
        /\ ceil < Len(table) \/ (floor = 0 /\ ceil = LongWord - 1)
        /\ Sorted /\ FromZero => ceil < Len(table)

-----------------------------------------------------------------------------
(* Arithmetic of one machine word.                                         *)
LEMMA ModSmall ==
    ASSUME NEW n \in Nat, NEW a \in Nat, a < n
    PROVE  a % n = a
  OBVIOUS

LEMMA ModBelowZero ==
    ASSUME NEW n \in Nat, n > 0
    PROVE  (0 - 1) % n = n - 1
  OBVIOUS

LEMMA ModType ==
    ASSUME NEW n \in Nat, n > 0, NEW a \in Int
    PROVE  a % n \in 0..(n - 1)
  OBVIOUS

LEMMA RowType ==
    ASSUME NEW l \in Lines, l.country # NoField
    PROVE  Row(l) \in Rows
<1>1. Ip2Int(l.start) \in Nat /\ Ip2Int(l.end) \in Nat
  BY TableAssumption DEF Ip2Int, Lines, Texts
<1>2. Ip2Int(l.start) % Word \in 0..(Word - 1)
  BY <1>1, ModType, TableAssumption
<1>3. Ip2Int(l.end) % Word \in 0..(Word - 1)
  BY <1>1, ModType, TableAssumption
<1> QED
  BY <1>2, <1>3 DEF Row, Rows, Lines

(* Where a search reads, when its bounds are in the table and when ceil    *)
(* has gone below zero.                                                    *)
LEMMA MidInside ==
    ASSUME TypeOK, floor <= ceil, ceil < Len(table)
    PROVE  /\ Mid \in Nat /\ floor <= Mid /\ Mid <= ceil
           /\ Mid < Len(table)
<1>1. (floor + ceil) % LongWord = floor + ceil
  <2>1. floor + ceil \in Nat /\ floor + ceil < LongWord
    BY TableAssumption DEF TypeOK
  <2> QED
    BY <2>1, ModSmall, TableAssumption
<1> QED
  BY <1>1, TableAssumption DEF TypeOK, Mid

LEMMA MidOutside ==
    ASSUME TypeOK, floor = 0, ceil = LongWord - 1
    PROVE  Mid >= Len(table)
<1>1. (floor + ceil) % LongWord = LongWord - 1
  <2>1. floor + ceil = LongWord - 1 /\ LongWord - 1 \in Nat
    BY TableAssumption
  <2> QED
    BY <2>1, ModSmall, TableAssumption
<1>2. (LongWord - 1) \div 2 >= MaxLines
  BY TableAssumption
<1> QED
  BY <1>1, <1>2, TableAssumption DEF TypeOK, Mid

(* A probe reads between the bounds, and both are in the table.            *)
LEMMA ProbeInside ==
    ASSUME TypeOK, Bounds, Probing
    PROVE  /\ ceil < Len(table)
           /\ Mid \in Nat /\ floor <= Mid /\ Mid <= ceil
<1>1. ceil < Len(table)
  <2>1. Mid < Len(table) /\ Mid \in Int
    BY TableAssumption DEF Probing, Mid, TypeOK
  <2> QED
    BY <2>1, MidOutside DEF Bounds, Probing, TypeOK
<1> QED
  BY <1>1, MidInside DEF Probing

LEMMA LowerCeil ==
    ASSUME TypeOK, Bounds, Probing, LowerHalf
    PROVE  \/ Mid > 0 /\ ceil' = Mid - 1
           \/ Mid = 0 /\ ceil' = LongWord - 1
<1>1. CASE Mid = 0
  BY <1>1, ModBelowZero, TableAssumption DEF LowerHalf
<1>2. CASE Mid # 0
  <2>1. Mid - 1 \in Nat /\ Mid - 1 < LongWord
    BY <1>2, ProbeInside, TableAssumption DEF TypeOK
  <2> QED
    BY <1>2, <2>1, ModSmall, ProbeInside, TableAssumption DEF LowerHalf
<1> QED
  BY <1>1, <1>2

-----------------------------------------------------------------------------
(* Every variable keeps its type, and the bounds of a search stay in the   *)
(* table but for a ceil below zero.                                        *)
LEMMA BoundsKept == Spec => [](TypeOK /\ Bounds)
<1> USE TableAssumption
<1>1. Init => TypeOK /\ Bounds
  BY DEF Init, TypeOK, Bounds
<1>2. TypeOK /\ Bounds /\ [Next]_vars => TypeOK' /\ Bounds'
  <2> SUFFICES ASSUME TypeOK, Bounds, [Next]_vars
               PROVE  TypeOK' /\ Bounds'
    OBVIOUS
  <2>1. ASSUME NEW dict \in Dicts, LoadDict(dict)
        PROVE  TypeOK' /\ Bounds'
    <3>1. CASE \E i \in DOMAIN dict : dict[i].country = NoField
      BY <2>1, <3>1 DEF LoadDict, TypeOK, Bounds
    <3>2. CASE ~ \E i \in DOMAIN dict : dict[i].country = NoField
      <4>1. dict \in Seq(Lines) /\ Len(dict) <= MaxLines
        OBVIOUS
      <4>2. \A i \in 1..Len(dict) : Row(dict[i]) \in Rows
        BY <3>2, <4>1, RowType
      <4>3. table' = [i \in 1..Len(dict) |-> Row(dict[i])]
        BY <2>1, <3>2, <4>1 DEF LoadDict
      <4>4. table' \in Seq(Rows) /\ Len(table') = Len(dict)
        BY <4>1, <4>2, <4>3
      <4> QED
        BY <2>1, <3>2, <4>1, <4>4 DEF LoadDict, TypeOK, Bounds
    <3> QED
      BY <3>1, <3>2
  <2>2. ASSUME NEW l \in Lines, PushItem(l)
        PROVE  TypeOK' /\ Bounds'
    BY <2>2, RowType DEF PushItem, TypeOK, Bounds
  <2>3. CASE CleanUp \/ GetCountryEmpty \/ Return
    <3>1. CASE CleanUp
      BY <3>1 DEF CleanUp, TypeOK, Bounds
    <3>2. CASE GetCountryEmpty
      BY <3>2 DEF GetCountryEmpty, TypeOK, Bounds
    <3>3. CASE Return
      BY <3>3 DEF Return, TypeOK, Bounds
    <3> QED
      BY <2>3, <3>1, <3>2, <3>3
  <2>4. ASSUME NEW x \in Texts, GetCountry(x)
        PROVE  TypeOK' /\ Bounds'
    <3>1. Ip2Int(x) \in 0..(LongWord - 1)
      BY DEF Ip2Int, Texts
    <3>2. Len(table) \in 1..MaxLines
      BY <2>4 DEF GetCountry, TypeOK
    <3>3. TypeOK'
      <4>1. ceil' \in 0..(LongWord - 1) /\ floor' \in 0..MaxLines
        BY <2>4, <3>2 DEF GetCountry
      <4>2. UNCHANGED <<table, answer>> /\ pc' = "search" /\ ip' = Ip2Int(x)
        BY <2>4 DEF GetCountry
      <4> QED
        BY <3>1, <4>1, <4>2 DEF TypeOK
    <3>4. Bounds'
      <4>1. table' = table /\ floor' = 0 /\ ceil' = Len(table) - 1
        BY <2>4 DEF GetCountry
      <4>2. table # <<>> /\ 0 <= Len(table) /\ Len(table) - 1 < Len(table)
        BY <2>4, <3>2 DEF GetCountry
      <4> QED
        BY <4>1, <4>2 DEF Bounds
    <3> QED
      BY <3>3, <3>4
  <2>5. CASE Found
    <3>1. Mid + 1 \in 1..Len(table)
      BY <2>5, ProbeInside DEF Found, TypeOK
    <3>2. At(Mid) \in Rows
      BY <3>1 DEF At, TypeOK
    <3> QED
      BY <2>5, <3>2 DEF Found, TypeOK, Bounds, Rows
  <2>6. CASE LowerHalf
    <3>1. ceil < Len(table) /\ Mid \in Nat /\ floor <= Mid /\ Mid <= ceil
      BY <2>6, ProbeInside DEF LowerHalf
    <3>2. CASE Mid > 0 /\ ceil' = Mid - 1
      BY <2>6, <3>1, <3>2 DEF LowerHalf, TypeOK, Bounds, Probing
    <3>3. CASE Mid = 0 /\ ceil' = LongWord - 1
      <4>1. floor = 0
        BY <3>1, <3>3 DEF TypeOK
      <4>2. ~ FromZero
        BY <2>6, <3>3 DEF LowerHalf, Probing, FromZero, At, TypeOK, Bounds
      <4>3. ~ FromZero'
        BY <2>6, <4>2 DEF LowerHalf, FromZero
      <4> QED
        BY <2>6, <3>3, <4>1, <4>3 DEF LowerHalf, TypeOK, Bounds, Probing
    <3> QED
      BY <2>6, <3>2, <3>3, LowerCeil DEF LowerHalf
  <2>7. CASE UpperHalf
    <3>1. ceil < Len(table) /\ Mid \in Nat /\ Mid <= ceil
      BY <2>7, ProbeInside DEF UpperHalf
    <3> QED
      BY <2>7, <3>1 DEF UpperHalf, TypeOK, Bounds, Probing
  <2>8. CASE Overrun \/ NotFound
    BY <2>8 DEF Overrun, NotFound, TypeOK, Bounds
  <2>9. CASE UNCHANGED vars
    BY <2>9 DEF vars, TypeOK, Bounds, Sorted, FromZero
  <2> QED
    BY <2>1, <2>2, <2>3, <2>4, <2>5, <2>6, <2>7, <2>8, <2>9
       DEF Next, SearchStep
<1> QED
  BY <1>1, <1>2, PTL DEF Spec

(* Every variable keeps its type.                                          *)
THEOREM TypeCorrect == Spec => []TypeOK
  BY BoundsKept, PTL

(* The search never reads outside of a table that is sorted and starts at  *)
(* address 0, as the dictionaries of the repository do.                    *)
THEOREM SearchStaysInTable == Spec => []StaysInTable
<1> USE TableAssumption
<1>1. Init => StaysInTable
  BY DEF Init, StaysInTable
<1>2. TypeOK /\ Bounds /\ StaysInTable /\ [Next]_vars => StaysInTable'
  <2> SUFFICES ASSUME TypeOK, Bounds, StaysInTable, [Next]_vars,
                      pc' = "overrun", Sorted', FromZero'
               PROVE  FALSE
    BY DEF StaysInTable
  <2>1. CASE Overrun
    <3>1. table' = table /\ pc = "search"
      BY <2>1 DEF Overrun
    <3>2. Sorted /\ FromZero
      BY <3>1 DEF Sorted, FromZero
    <3> QED
      BY <2>1, <3>1, <3>2, MidInside DEF Overrun, Bounds, TypeOK
  <2>2. CASE UNCHANGED vars
    BY <2>2 DEF vars, StaysInTable, Sorted, FromZero
  <2>3. CASE Next /\ ~Overrun
    BY <2>3 DEF Next, SearchStep, LoadDict, PushItem, CleanUp, GetCountryEmpty,
               GetCountry, Found, LowerHalf, UpperHalf, Probing, NotFound,
               Return, Undefined, vars, StaysInTable, Sorted, FromZero
  <2> QED
    BY <2>1, <2>2, <2>3
<1> QED
  BY <1>1, <1>2, BoundsKept, PTL DEF Spec

(* A country that is found comes from a range with the address in it.      *)
FoundInRange ==
    pc = "return" /\ answer.code = 0 =>
        \E i \in DOMAIN table : Covers(table[i], ip) /\ table[i].country = answer.country

LEMMA FoundCorrect == Spec => []FoundInRange
<1> USE TableAssumption
<1>1. Init => FoundInRange
  BY DEF Init, FoundInRange
<1>2. TypeOK /\ Bounds /\ FoundInRange /\ [Next]_vars => FoundInRange'
  <2> SUFFICES ASSUME TypeOK, Bounds, FoundInRange, [Next]_vars
               PROVE  FoundInRange'
    OBVIOUS
  <2>1. CASE Found
    <3>1. Mid + 1 \in DOMAIN table
      BY <2>1, ProbeInside DEF Found, TypeOK
    <3>2. Covers(table[Mid + 1], ip) /\ answer'.country = table[Mid + 1].country
      BY <2>1 DEF Found, At
    <3>3. table' = table /\ ip' = ip
      BY <2>1 DEF Found
    <3> QED
      BY <3>1, <3>2, <3>3 DEF FoundInRange
  <2>2. CASE UNCHANGED vars
    BY <2>2 DEF vars, FoundInRange
  <2>3. CASE Next /\ ~Found /\ ~UNCHANGED vars
    <3>1. pc' # "return" \/ answer'.code # 0
      BY <2>3 DEF Next, SearchStep, LoadDict, PushItem, CleanUp,
                 GetCountryEmpty, GetCountry, LowerHalf, UpperHalf, Probing,
                 Overrun, NotFound, Return
    <3> QED
      BY <3>1 DEF FoundInRange
  <2> QED
    BY <2>1, <2>2, <2>3
<1> QED
  BY <1>1, <1>2, BoundsKept, PTL DEF Spec

-----------------------------------------------------------------------------
(* The two halves lose no range that covers the address, unless the row    *)
(* that was probed is on the wrong side of it.                             *)
LEMMA LowerHalfBrackets ==
    ASSUME TypeOK, Bounds, Bracketed, LowerHalf
    PROVE  \A i \in 1..Len(table) :
               Covers(table[i], ip) /\ ~Hidden(i) => floor' + 1 <= i /\ i <= ceil' + 1
<1> SUFFICES ASSUME NEW i \in 1..Len(table), Covers(table[i], ip), ~Hidden(i)
             PROVE  floor' + 1 <= i /\ i <= ceil' + 1
  OBVIOUS
<1>1. Mid \in Nat /\ Mid + 1 \in 1..Len(table)
  BY ProbeInside DEF LowerHalf, TypeOK
<1>2. floor + 1 <= i /\ floor' = floor
  BY DEF LowerHalf, Bracketed, Probing
<1>3. ip < table[Mid + 1].start /\ ~Covers(table[Mid + 1], ip)
  BY DEF LowerHalf, At
<1>4. i < Mid + 1
  <2>1. ~(Mid + 1 < i)
    BY <1>1, <1>3 DEF Hidden, Misleads
  <2>2. Mid + 1 # i
    BY <1>3
  <2> QED
    BY <1>1, <2>1, <2>2
<1>5. Mid > 0
  BY <1>1, <1>4
<1>6. ceil' = Mid - 1
  BY <1>5, LowerCeil DEF LowerHalf
<1> QED
  BY <1>1, <1>2, <1>4, <1>6

LEMMA UpperHalfBrackets ==
    ASSUME TypeOK, Bounds, Bracketed, UpperHalf
    PROVE  \A i \in 1..Len(table) :
               Covers(table[i], ip) /\ ~Hidden(i) => floor' + 1 <= i /\ i <= ceil' + 1
<1> SUFFICES ASSUME NEW i \in 1..Len(table), Covers(table[i], ip), ~Hidden(i)
             PROVE  floor' + 1 <= i /\ i <= ceil' + 1
  OBVIOUS
<1>1. Mid \in Nat /\ Mid + 1 \in 1..Len(table)
  BY ProbeInside DEF UpperHalf, TypeOK
<1>2. i <= ceil + 1 /\ ceil' = ceil /\ floor' = Mid + 1
  BY DEF UpperHalf, Bracketed, Probing
<1>3. table[Mid + 1].start <= ip /\ ~Covers(table[Mid + 1], ip)
  <2>1. table[Mid + 1] \in Rows
    BY <1>1 DEF TypeOK
  <2> QED
    BY <2>1 DEF UpperHalf, At, TypeOK, Rows
<1>4. Mid + 1 < i
  <2>1. ~(i < Mid + 1)
    BY <1>1, <1>3 DEF Hidden, Misleads
  <2>2. Mid + 1 # i
    BY <1>3
  <2> QED
    BY <1>1, <2>1, <2>2
<1> QED
  BY <1>1, <1>2, <1>4

(* A search that gives up has missed a range only because a row is on the  *)
(* wrong side of it.                                                       *)
THEOREM MissCorrect == Spec => []MissIsRight
<1> USE TableAssumption
<1>1. Init => Bracketed /\ MissIsRight
  BY DEF Init, Bracketed, MissIsRight
<1>2. TypeOK /\ Bounds /\ Bracketed /\ MissIsRight /\ [Next]_vars
        => Bracketed' /\ MissIsRight'
  <2> SUFFICES ASSUME TypeOK, Bounds, Bracketed, MissIsRight, [Next]_vars
               PROVE  Bracketed' /\ MissIsRight'
    OBVIOUS
  <2>1. CASE LowerHalf
    <3>1. pc' = "search" /\ table' = table /\ ip' = ip
      BY <2>1 DEF LowerHalf, Probing
    <3> QED
      BY <2>1, <3>1, LowerHalfBrackets DEF Bracketed, MissIsRight, Hidden, Misleads
  <2>2. CASE UpperHalf
    <3>1. pc' = "search" /\ table' = table /\ ip' = ip
      BY <2>2 DEF UpperHalf, Probing
    <3> QED
      BY <2>2, <3>1, UpperHalfBrackets DEF Bracketed, MissIsRight, Hidden, Misleads
  <2>3. CASE NotFound
    <3>1. pc = "search" /\ floor > ceil /\ pc' = "return"
          /\ table' = table /\ ip' = ip
      BY <2>3 DEF NotFound
    <3>2. ASSUME NEW i \in 1..Len(table), Covers(table[i], ip)
          PROVE  Hidden(i)
      <4>1. Hidden(i) \/ (floor + 1 <= i /\ i <= ceil + 1)
        BY <3>1, <3>2 DEF Bracketed
      <4> QED
        BY <3>1, <4>1 DEF TypeOK
    <3>3. DOMAIN table = 1..Len(table)
      BY DEF TypeOK
    <3> QED
      BY <3>1, <3>2, <3>3 DEF Bracketed, MissIsRight, Hidden, Misleads
  <2>4. ASSUME NEW x \in Texts, GetCountry(x)
        PROVE  Bracketed' /\ MissIsRight'
    <3>1. floor' = 0 /\ ceil' = Len(table) - 1 /\ table' = table /\ pc' = "search"
      BY <2>4 DEF GetCountry
    <3>2. \A i \in 1..Len(table) : 0 + 1 <= i /\ i <= (Len(table) - 1) + 1
      BY DEF TypeOK
    <3> QED
      BY <3>1, <3>2 DEF Bracketed, MissIsRight
  <2>5. CASE UNCHANGED vars
    BY <2>5 DEF vars, Bracketed, MissIsRight, Hidden, Misleads
  <2>6. CASE /\ pc' # "search"
             /\ pc' # "return" \/ answer'.code # -1
    BY <2>6 DEF Bracketed, MissIsRight
  <2>7. CASE \/ \E dict \in Dicts : LoadDict(dict)
             \/ \E l \in Lines : PushItem(l)
             \/ CleanUp \/ GetCountryEmpty \/ Found \/ Overrun \/ Return
    <3>1. /\ pc' # "search"
          /\ pc' # "return" \/ answer'.code # -1
      BY <2>7 DEF LoadDict, PushItem, CleanUp, GetCountryEmpty, Found, Overrun,
                 Return
    <3> QED
      BY <2>6, <3>1
  <2> QED
    BY <2>1, <2>2, <2>3, <2>4, <2>5, <2>7 DEF Next, SearchStep
<1> QED
  BY <1>1, <1>2, BoundsKept, PTL DEF Spec

(* In a sorted table no row is on the wrong side of a range that covers    *)
(* the address, so that a search that gives up is right.                   *)
SortedMissIsRight ==
    Sorted /\ pc = "return" /\ answer.code = -1 =>
        \A i \in DOMAIN table : ~Covers(table[i], ip)

THEOREM SortedMissCorrect == Spec => []SortedMissIsRight
<1>1. TypeOK /\ MissIsRight => SortedMissIsRight
  <2> SUFFICES ASSUME TypeOK, MissIsRight, Sorted, pc = "return", answer.code = -1,
                      NEW i \in DOMAIN table, Covers(table[i], ip)
               PROVE  FALSE
    BY DEF SortedMissIsRight
  <2>1. PICK j \in DOMAIN table : Misleads(j, i)
    BY DEF MissIsRight
  <2>2. table[i] \in Rows /\ table[j] \in Rows
    BY DEF TypeOK
  <2>3. CASE j < i
    BY <2>1, <2>2, <2>3 DEF Misleads, Sorted, Covers, Rows, TypeOK
  <2>4. CASE j > i
    <3>1. table[i].end < table[j].start
      BY <2>4 DEF Sorted
    <3> QED
      BY <2>1, <2>2, <2>4, <3>1 DEF Misleads, Covers, Rows, TypeOK
  <2> QED
    BY <2>1, <2>3, <2>4 DEF Misleads
<1> QED
  BY <1>1, TypeCorrect, MissCorrect, PTL

(* A malformed address, or one with a part above 255 that makes it exceed  *)
(* 32 bits, is in no row, whatever rows the dictionary has.                *)
THEOREM MalformedCorrect == Spec => []MalformedIsNowhere
<1>1. TypeOK /\ FoundInRange => MalformedIsNowhere
  <2> SUFFICES ASSUME TypeOK, FoundInRange, pc = "return", answer.code = 0
               PROVE  ip < Word
    BY DEF MalformedIsNowhere
  <2>1. PICK i \in DOMAIN table : Covers(table[i], ip)
    BY DEF FoundInRange
  <2>2. table[i] \in Rows
    BY DEF TypeOK
  <2> QED
    BY <2>1, <2>2, TableAssumption DEF Covers, Rows, TypeOK
<1> QED
  BY <1>1, TypeCorrect, FoundCorrect, PTL

-----------------------------------------------------------------------------
(* split_string.  Its pointer comes closer to the end with every pass, so  *)
(* the least distance from there at which something is not as stated does  *)
(* not exist.                                                              *)

(* A set of naturals has a least member.                                   *)
LEMMA LeastNatural ==
    ASSUME NEW S \in SUBSET Nat, S # {}
    PROVE  \E m \in S : \A n \in S : m <= n
<1>1. \E x \in S : \A y \in S : ~(<<y, x>> \in OpToRel(<, Nat))
  BY NatLessThanWellFounded, WFMin
<1>2. \A x, y \in S : y < x => <<y, x>> \in OpToRel(<, Nat)
  BY DEF OpToRel
<1>3. \A x, y \in S : ~(y < x) => x <= y
  OBVIOUS
<1> QED
  BY <1>1, <1>2, <1>3, Zenon

(* One pass of the loop, with f for the passes that follow it.             *)
Pass(memory, f, x) ==
    LET char == memory[x[2] + 1]
        rest == f[<<AfterDelimiter(x[2]), Resume(x[2])>>]
    IN  IF char = Nul THEN [fields |-> Piece(x[1], x[2]), end |-> x[2]]
        ELSE IF char = Delimiter
             THEN [fields |-> Piece(x[1], x[2]) \o rest.fields, end |-> rest.end]
        ELSE f[<<x[1], x[2] + 1>>]

(* The recursive function of Walk.                                         *)
Passes(memory) == CHOOSE f : f = [x \in Pointers(memory) |-> Pass(memory, f, x)]

(* What the pointer may step over, the character behind a NUL, is there,   *)
(* and the next one is a NUL.                                              *)
Closed(memory) ==
    /\ Len(memory) \in Nat /\ Len(memory) >= 2
    /\ memory[Len(memory)] = Nul /\ memory[Len(memory) - 1] = Nul

(* A pass that is not the last one is followed by one of the same memory.  *)
LEMMA PassAhead ==
    ASSUME NEW memory, Closed(memory), NEW x \in Pointers(memory), memory[x[2] + 1] # Nul
    PROVE  /\ <<x[1], x[2] + 1>> \in Pointers(memory)
           /\ <<AfterDelimiter(x[2]), Resume(x[2])>> \in Pointers(memory)
<1>1. x[1] \in 0..Len(memory) /\ x[2] \in 0..(Len(memory) - 1) /\ Len(memory) \in Nat
  BY DEF Pointers, Closed
<1>2. x[2] + 1 # Len(memory) /\ x[2] + 1 # Len(memory) - 1
  BY DEF Closed
<1> QED
  BY <1>1, <1>2 DEF Pointers, AfterDelimiter, Resume

(* What a pass makes depends on passes further on only.                    *)
LEMMA PassesAgree ==
    ASSUME NEW memory, Closed(memory), NEW x \in Pointers(memory), NEW f, NEW g,
           \A y \in Pointers(memory) : y[2] > x[2] => f[y] = g[y]
    PROVE  Pass(memory, f, x) = Pass(memory, g, x)
<1>1. CASE memory[x[2] + 1] = Nul
  BY <1>1 DEF Pass
<1>2. CASE memory[x[2] + 1] # Nul
  <2>1. x[2] \in Int
    BY DEF Pointers, Closed
  <2>2. /\ f[<<x[1], x[2] + 1>>] = g[<<x[1], x[2] + 1>>]
        /\ f[<<AfterDelimiter(x[2]), Resume(x[2])>>] = g[<<AfterDelimiter(x[2]), Resume(x[2])>>]
    BY <1>2, <2>1, PassAhead DEF Resume
  <2> QED
    BY <1>2, <2>2 DEF Pass
<1> QED
  BY <1>1, <1>2

(* Passes for the last w characters.                                       *)
PassesUpTo(memory, f, w) ==
    \A x \in Pointers(memory) : Len(memory) - x[2] <= w => f[x] = Pass(memory, f, x)

(* The recursive definition of the walk has a solution.                    *)
LEMMA PassesExist ==
    ASSUME NEW memory, Closed(memory)
    PROVE  \A w \in Nat : \E f : PassesUpTo(memory, f, w)
<1> DEFINE Bad == {w \in Nat : ~ \E f : PassesUpTo(memory, f, w)}
<1> SUFFICES ASSUME Bad # {}
             PROVE  FALSE
  OBVIOUS
<1>1. PICK w \in Bad : \A v \in Bad : w <= v
  BY LeastNatural
<1>2. \A x \in Pointers(memory) : x[2] \in Int /\ Len(memory) - x[2] > 0 /\ Len(memory) \in Int
  BY DEF Pointers, Closed
<1>3. CASE w = 0
  <2> DEFINE f == [x \in Pointers(memory) |-> 0]
  <2> HIDE DEF f
  <2>1. PassesUpTo(memory, f, 0)
    <3> SUFFICES ASSUME NEW x \in Pointers(memory), Len(memory) - x[2] <= 0
                 PROVE  FALSE
      BY DEF PassesUpTo
    <3> QED
      BY <1>2
  <2> QED
    BY <1>1, <1>3, <2>1
<1>4. CASE w # 0
  <2>1. w - 1 \in Nat /\ w - 1 \notin Bad
    BY <1>1, <1>4
  <2>2. PICK g : PassesUpTo(memory, g, w - 1)
    BY <2>1
  <2> DEFINE f == [x \in Pointers(memory) |-> Pass(memory, g, x)]
  <2>3. ASSUME NEW x \in Pointers(memory), Len(memory) - x[2] <= w
        PROVE  f[x] = Pass(memory, f, x)
    <3>1. ASSUME NEW y \in Pointers(memory), y[2] > x[2]
          PROVE  f[y] = g[y]
      <4>1. Len(memory) - y[2] <= w - 1
        BY <1>1, <1>2, <2>3, <3>1
      <4>2. g[y] = Pass(memory, g, y)
        BY <2>2, <4>1 DEF PassesUpTo
      <4> QED
        BY <4>2
    <3>2. Pass(memory, g, x) = Pass(memory, f, x)
      <4> HIDE DEF f
      <4> QED
        BY <3>1, PassesAgree
    <3> QED
      BY <3>2
  <2>4. PassesUpTo(memory, f, w)
    BY <2>3 DEF PassesUpTo
  <2> QED
    BY <1>1, <2>4
<1> QED
  BY <1>3, <1>4

(* Passes is that solution.                                                *)
LEMMA PassesPass ==
    ASSUME NEW memory, Closed(memory)
    PROVE  \A x \in Pointers(memory) : Passes(memory)[x] = Pass(memory, Passes(memory), x)
<1>1. PICK g : PassesUpTo(memory, g, Len(memory))
  BY PassesExist DEF Closed
<1> DEFINE f == [x \in Pointers(memory) |-> g[x]]
<1>2. \A x \in Pointers(memory) : Len(memory) - x[2] <= Len(memory)
  BY DEF Pointers, Closed
<1>3. ASSUME NEW x \in Pointers(memory)
      PROVE  f[x] = Pass(memory, f, x)
  <2>1. g[x] = Pass(memory, g, x)
    BY <1>1, <1>2 DEF PassesUpTo
  <2>2. \A y \in Pointers(memory) : y[2] > x[2] => f[y] = g[y]
    OBVIOUS
  <2>3. Pass(memory, f, x) = Pass(memory, g, x)
    <3> HIDE DEF f
    <3> QED
      BY <2>2, PassesAgree
  <2> QED
    BY <2>1, <2>3
<1>4. f = [x \in Pointers(memory) |-> Pass(memory, f, x)]
  BY <1>3
<1>5. Passes(memory) = [x \in Pointers(memory) |-> Pass(memory, Passes(memory), x)]
  <2> HIDE DEF f
  <2> QED
    BY <1>4 DEF Passes
<1> QED
  BY <1>5

LEMMA WalkPasses ==
    ASSUME NEW memory
    PROVE  Walk(memory) = Passes(memory)[<<0, 0>>]
  BY DEF Walk, Passes, Pass

(* A C string in memory: its characters, then a NUL.                       *)
CStrings == Seq(Letters \union {Delimiter})

LEMMA MemoryOfText ==
    ASSUME NEW text \in CStrings, NEW behind \in CStrings
    PROVE  LET memory == InMemory(text, behind) IN
           /\ Closed(memory)
           /\ Len(text) \in Nat /\ Len(memory) > Len(text)
           /\ \A i \in DOMAIN text : memory[i] = text[i] /\ text[i] # Nul
           /\ memory[Len(text) + 1] = Nul
<1> DEFINE C == Letters \union {Delimiter, Nul}
           a == text \o <<Nul>>
           b == a \o behind
           memory == b \o <<Nul, Nul, Nul>>
<1>1. text \in Seq(C) /\ behind \in Seq(C) /\ <<Nul>> \in Seq(C) /\ <<Nul, Nul, Nul>> \in Seq(C)
  BY DEF CStrings
<1>2. /\ a \in Seq(C) /\ Len(a) = Len(text) + 1 /\ a[Len(text) + 1] = Nul
      /\ \A i \in 1..Len(text) : a[i] = text[i]
  BY <1>1
<1>3. /\ b \in Seq(C) /\ Len(b) = Len(a) + Len(behind)
      /\ \A i \in 1..Len(a) : b[i] = a[i]
  <2> HIDE DEF a
  <2> QED
    BY <1>1, <1>2
<1>4. /\ Len(memory) = Len(b) + 3 /\ memory[Len(b) + 3] = Nul /\ memory[Len(b) + 2] = Nul
      /\ \A i \in 1..Len(b) : memory[i] = b[i]
  <2> HIDE DEF b
  <2> QED
    BY <1>1, <1>3
<1>5. Len(text) \in Nat /\ Len(behind) \in Nat /\ DOMAIN text = 1..Len(text)
  BY <1>1
<1>6. \A i \in DOMAIN text : text[i] # Nul
  BY CharAssumption DEF CStrings
<1>7. memory = InMemory(text, behind)
  BY DEF InMemory
<1> HIDE DEF a, b, memory
<1> QED
  BY <1>2, <1>3, <1>4, <1>5, <1>6, <1>7 DEF Closed

Places(text) == (DOMAIN text) \X (DOMAIN text)

(* A piece in front of other fields.                                       *)
LEMMA PieceThen ==
    ASSUME NEW text \in CStrings, NEW start \in Nat, NEW p \in Nat, start <= p, p <= Len(text),
           NEW fields \in Seq(Places(text)), InOrder(fields),
           \A r \in Range(fields) : p + 1 < r[1]
    PROVE  LET all == Piece(start, p) \o fields IN
           /\ all \in Seq(Places(text))
           /\ InOrder(all)
           /\ \A r : r \in Range(all) <=> \/ p # start /\ r = <<start + 1, p>>
                                          \/ r \in Range(fields)
<1> DEFINE e == <<start + 1, p>>
           all == Piece(start, p) \o fields
<1>1. CASE p = start
  <2>1. all = fields
    BY <1>1 DEF Piece
  <2> QED
    BY <1>1, <2>1
<1>2. CASE p # start
  <2>1. e \in Places(text)
    BY <1>2 DEF Places, CStrings
  <2>2. all = <<e>> \o fields /\ <<e>> \in Seq(Places(text))
    BY <1>2, <2>1 DEF Piece
  <2>3. e[1] = start + 1 /\ e[2] = p
    OBVIOUS
  <2> HIDE DEF e, all
  <2>4. /\ all \in Seq(Places(text)) /\ Len(all) = Len(fields) + 1 /\ Len(fields) \in Nat
        /\ all[1] = e /\ \A k \in 1..Len(fields) : all[k + 1] = fields[k]
    BY <2>1, <2>2
  <2>5. Range(all) = {e} \union Range(fields)
    <3>1. Range(all) = Range(<<e>>) \union Range(fields)
      BY <2>2, RangeConcatenation
    <3>2. Range(<<e>>) = {<<e>>[i] : i \in 1..Len(<<e>>)}
      BY <2>2, RangeEquality
    <3>3. Range(<<e>>) = {e}
      BY <3>2
    <3> QED
      BY <3>1, <3>3
  <2>6. ASSUME NEW k \in DOMAIN all, NEW l \in DOMAIN all, k < l
        PROVE  all[k][2] < all[l][1]
    <3>1. k \in 1..(Len(fields) + 1) /\ l \in 1..(Len(fields) + 1)
      BY <2>4
    <3>2. l - 1 \in 1..Len(fields) /\ all[l] = fields[l - 1] /\ DOMAIN fields = 1..Len(fields)
      BY <2>4, <2>6, <3>1
    <3>3. fields[l - 1] \in Range(fields) /\ fields[l - 1] \in Places(text)
      BY <3>2 DEF Range
    <3>4. fields[l - 1][1] \in Nat
      BY <3>3 DEF Places, CStrings
    <3>5. CASE k = 1
      BY <2>3, <2>4, <3>2, <3>3, <3>4, <3>5
    <3>6. CASE k # 1
      <4>1. k - 1 \in 1..Len(fields) /\ all[k] = fields[k - 1] /\ k - 1 < l - 1
        BY <2>4, <2>6, <3>1, <3>6
      <4> QED
        BY <3>2, <4>1 DEF InOrder
    <3> QED
      BY <3>5, <3>6
  <2>7. InOrder(all)
    BY <2>6 DEF InOrder
  <2> QED
    BY <1>2, <2>4, <2>5, <2>7 DEF e, all
<1> QED
  BY <1>1, <1>2

(* The pass at x is in a field that began at x[1].                         *)
Clean(text, x) ==
    /\ x[1] = 0 \/ text[x[1]] = Delimiter
    /\ \A i \in x[1] + 1..x[2] : text[i] # Delimiter

LEMMA FieldPlaces ==
    ASSUME NEW text, NEW a, NEW b
    PROVE  <<a, b>> \in Fields(text) <=>
             /\ a \in DOMAIN text /\ b \in DOMAIN text /\ a <= b
             /\ \A k \in a..b : text[k] # Delimiter
             /\ a = 1 \/ text[a - 1] = Delimiter
             /\ b = Len(text) \/ text[b + 1] = Delimiter
<1> DEFINE r == <<a, b>>
<1>1. r[1] = a /\ r[2] = b /\ (r \in (DOMAIN text) \X (DOMAIN text) <=> a \in DOMAIN text /\ b \in DOMAIN text)
  OBVIOUS
<1> HIDE DEF r
<1>2. r \in Fields(text) <=>
        /\ r \in (DOMAIN text) \X (DOMAIN text)
        /\ r[1] <= r[2] /\ \A k \in r[1]..r[2] : text[k] # Delimiter
        /\ r[1] = 1 \/ text[r[1] - 1] = Delimiter
        /\ r[2] = Len(text) \/ text[r[2] + 1] = Delimiter
  BY DEF Fields
<1>3. <<a, b>> \in Fields(text) <=> r \in Fields(text)
  BY DEF r
<1> QED
  BY <1>1, <1>2, <1>3

LEMMA FieldPairs ==
    ASSUME NEW text, NEW r \in Fields(text)
    PROVE  r = <<r[1], r[2]>>
<1>1. r \in (DOMAIN text) \X (DOMAIN text)
  BY Zenon DEF Fields
<1> QED
  BY <1>1

(* At a delimiter, or at the end, the piece is the next field.             *)
LEMMA NextField ==
    ASSUME NEW text \in CStrings, NEW start \in Nat, NEW p \in Nat, start <= p, p <= Len(text),
           Clean(text, <<start, p>>), p = Len(text) \/ text[p + 1] = Delimiter,
           NEW r
    PROVE  r \in Fields(text) /\ start < r[1]
             <=> \/ p # start /\ r = <<start + 1, p>>
                 \/ r \in Fields(text) /\ p + 1 < r[1]
<1>0. Len(text) \in Nat /\ DOMAIN text = 1..Len(text)
  BY DEF CStrings
<1>1. /\ start = 0 \/ text[start] = Delimiter
      /\ \A i \in start + 1..p : text[i] # Delimiter
  BY DEF Clean
<1>2. ASSUME r \in Fields(text), start < r[1], ~(p + 1 < r[1])
      PROVE  p # start /\ r = <<start + 1, p>>
  <2>1. /\ r = <<r[1], r[2]>> /\ r[1] \in 1..Len(text) /\ r[2] \in 1..Len(text) /\ r[1] <= r[2]
        /\ \A k \in r[1]..r[2] : text[k] # Delimiter
        /\ r[1] = 1 \/ text[r[1] - 1] = Delimiter
        /\ r[2] = Len(text) \/ text[r[2] + 1] = Delimiter
    BY <1>0, <1>2, FieldPairs, FieldPlaces
  <2>2. r[1] <= p
    BY <1>0, <1>2, <2>1
  <2>3. r[1] = start + 1
    BY <1>1, <1>2, <2>1, <2>2
  <2>4. ~(p < r[2])
    BY <1>0, <2>1, <2>2
  <2>5. ~(r[2] < p)
    BY <1>0, <1>1, <2>1, <2>3
  <2> QED
    BY <1>2, <2>1, <2>2, <2>3, <2>4, <2>5
<1>6. ASSUME p # start
      PROVE  start + 1 <= p /\ start + 1 \in 1..Len(text) /\ p \in 1..Len(text)
  <2>1. PICK n \in Nat : n = Len(text)
    BY <1>0
  <2>2. start <= p /\ p <= n
    BY <2>1
  <2>3. start + 1 <= p /\ start + 1 \in 1..n /\ p \in 1..n
    BY <1>6, <2>2
  <2> QED
    BY <2>1, <2>3
<1>3. ASSUME p # start, r = <<start + 1, p>>
      PROVE  r \in Fields(text) /\ start < r[1]
  <2>1. start + 1 <= p /\ start + 1 \in 1..Len(text) /\ p \in 1..Len(text)
    BY <1>3, <1>6
  <2>2. start + 1 = 1 \/ text[(start + 1) - 1] = Delimiter
    BY <1>1
  <2>3. <<start + 1, p>> \in Fields(text)
    BY <1>0, <1>1, <2>1, <2>2, FieldPlaces
  <2>4. r[1] = start + 1
    BY <1>3
  <2> QED
    BY <1>3, <2>3, <2>4
<1>4. ASSUME r \in Fields(text), p + 1 < r[1]
      PROVE  start < r[1]
  <2>1. r[1] \in 1..Len(text)
    BY <1>0, <1>4, FieldPairs, FieldPlaces
  <2> QED
    BY <1>4, <2>1
<1> QED
  BY <1>2, <1>3, <1>4

(* What holds of the walk from x on.                                       *)
SplitFrom(text, x, walk) ==
    /\ walk.end = Len(text)
    /\ walk.fields \in Seq(Places(text)) /\ InOrder(walk.fields)
    /\ \A r \in Range(walk.fields) : x[1] < r[1] /\ r[1] <= r[2]
    /\ \A i \in DOMAIN text : x[1] < i /\ text[i] # Delimiter =>
           \E r \in Range(walk.fields) : r[1] <= i /\ i <= r[2]
    /\ NoDoubles(text) /\ Clean(text, x) =>
           \A r : r \in Range(walk.fields) <=> r \in Fields(text) /\ x[1] < r[1]

(* Pointers in the text.                                                   *)
Inside(text) == {x \in (0..Len(text)) \X (0..Len(text)) : x[1] <= x[2]}

(* A pass keeps what holds of the passes further on.                       *)
LEMMA PassRight ==
    ASSUME NEW text \in CStrings, NoTrailing(text), NEW behind \in CStrings,
           NEW x \in Inside(text), NEW f,
           f[x] = Pass(InMemory(text, behind), f, x),
           \A y \in Inside(text) : y[2] > x[2] => SplitFrom(text, y, f[y])
    PROVE  SplitFrom(text, x, f[x])
<1> DEFINE memory == InMemory(text, behind)
           start == x[1]
           p == x[2]
           char == memory[p + 1]
<1>0. Len(text) \in Nat /\ DOMAIN text = 1..Len(text)
  BY DEF CStrings
<1>1. start \in Nat /\ p \in Nat /\ start <= p /\ p <= Len(text) /\ x = <<start, p>>
  BY <1>0 DEF Inside
<1>2. /\ Delimiter # Nul
      /\ p = Len(text) => char = Nul
      /\ p < Len(text) => char = text[p + 1] /\ char # Nul
  BY <1>0, <1>1, MemoryOfText, CharAssumption
<1>3. f[x] = IF char = Nul THEN [fields |-> Piece(start, p), end |-> p]
             ELSE IF char = Delimiter
                  THEN [fields |-> Piece(start, p) \o f[<<p + 1, p + 2>>].fields,
                        end |-> f[<<p + 1, p + 2>>].end]
             ELSE f[<<start, p + 1>>]
  BY DEF Pass, AfterDelimiter, Resume
<1> HIDE DEF memory, start, p
<1>4. ASSUME NEW rest \in Seq(Places(text)), InOrder(rest),
             \A r \in Range(rest) : p + 1 < r[1] /\ r[1] <= r[2],
             NEW all, all = Piece(start, p) \o rest,
             p = Len(text) \/ text[p + 1] = Delimiter,
             \A i \in DOMAIN text : p + 1 < i /\ text[i] # Delimiter =>
                 \E r \in Range(rest) : r[1] <= i /\ i <= r[2],
             NoDoubles(text) =>
                 \A r : r \in Range(rest) <=> r \in Fields(text) /\ p + 1 < r[1]
      PROVE  /\ all \in Seq(Places(text)) /\ InOrder(all)
             /\ \A r \in Range(all) : start < r[1] /\ r[1] <= r[2]
             /\ \A i \in DOMAIN text : start < i /\ text[i] # Delimiter =>
                    \E r \in Range(all) : r[1] <= i /\ i <= r[2]
             /\ NoDoubles(text) /\ Clean(text, x) =>
                    \A r : r \in Range(all) <=> r \in Fields(text) /\ start < r[1]
  <2>1. /\ all \in Seq(Places(text)) /\ InOrder(all)
        /\ \A r : r \in Range(all) <=> \/ p # start /\ r = <<start + 1, p>>
                                       \/ r \in Range(rest)
    BY <1>1, <1>4, PieceThen
  <2>2. \A r \in Range(rest) : r[1] \in Nat
    <3>1. \A r \in Range(rest) : r \in Places(text)
      BY <1>4, RangeOfSeq
    <3> QED
      BY <1>0, <3>1 DEF Places
  <2>3. \A r \in Range(all) : start < r[1] /\ r[1] <= r[2]
    <3> SUFFICES ASSUME NEW r \in Range(all)
                 PROVE  start < r[1] /\ r[1] <= r[2]
      OBVIOUS
    <3>1. CASE p # start /\ r = <<start + 1, p>>
      BY <1>1, <3>1
    <3>2. CASE r \in Range(rest)
      BY <1>1, <1>4, <2>2, <3>2
    <3> QED
      BY <2>1, <3>1, <3>2
  <2>4. ASSUME NEW i \in DOMAIN text, start < i, text[i] # Delimiter
        PROVE  \E r \in Range(all) : r[1] <= i /\ i <= r[2]
    <3>1. i \in Nat /\ i <= Len(text) /\ i # p + 1
      <4>1. i \in Nat /\ i <= Len(text)
        BY <1>0
      <4>2. CASE p = Len(text)
        BY <1>0, <4>1, <4>2
      <4>3. CASE text[p + 1] = Delimiter
        BY <2>4, <4>1, <4>3
      <4> QED
        BY <1>4, <4>1, <4>2, <4>3
    <3>2. CASE i <= p
      <4> DEFINE e == <<start + 1, p>>
      <4>1. e[1] = start + 1 /\ e[2] = p
        OBVIOUS
      <4>2. e \in Range(all)
        BY <1>1, <2>1, <2>4, <3>1, <3>2
      <4> HIDE DEF e
      <4> QED
        BY <1>1, <2>4, <3>1, <3>2, <4>1, <4>2
    <3>3. CASE p + 1 < i
      BY <1>4, <2>1, <2>4, <3>3
    <3> QED
      BY <1>1, <3>1, <3>2, <3>3
  <2>5. ASSUME NoDoubles(text), Clean(text, x), NEW r
        PROVE  r \in Range(all) <=> r \in Fields(text) /\ start < r[1]
    <3>1. r \in Fields(text) /\ start < r[1]
            <=> \/ p # start /\ r = <<start + 1, p>>
                \/ r \in Fields(text) /\ p + 1 < r[1]
      BY <1>1, <1>4, <2>5, NextField
    <3> QED
      BY <1>4, <2>1, <2>5, <3>1
  <2> QED
    BY <2>1, <2>3, <2>4, <2>5
<1>5. CASE char = Nul
  <2>1. p = Len(text)
    BY <1>1, <1>2, <1>5
  <2>2. f[x].end = Len(text) /\ f[x].fields = Piece(start, p) /\ Piece(start, p) = Piece(start, p) \o <<>>
    <3>1. Piece(start, p) \in Seq(Nat \X Nat)
      BY <1>1 DEF Piece
    <3> QED
      BY <1>3, <1>5, <2>1, <3>1
  <2>3. <<>> \in Seq(Places(text)) /\ InOrder(<<>>) /\ Range(<<>>) = {}
    BY DEF InOrder, Range
  <2>4. \A r : ~(r \in Fields(text) /\ p + 1 < r[1])
    <3> SUFFICES ASSUME NEW r \in Fields(text), p + 1 < r[1]
                 PROVE  FALSE
      OBVIOUS
    <3>1. r[1] \in 1..Len(text)
      BY <1>0, FieldPairs, FieldPlaces
    <3> QED
      BY <1>0, <2>1, <3>1
  <2>5. \A i \in DOMAIN text : ~(p + 1 < i)
    BY <1>0, <2>1
  <2> QED
    BY <1>1, <1>4, <2>1, <2>2, <2>3, <2>4, <2>5 DEF SplitFrom, start
<1>6. CASE char # Nul /\ char = Delimiter
  <2>1. p < Len(text) /\ text[p + 1] = Delimiter
    BY <1>1, <1>2, <1>6
  <2>2. p + 1 < Len(text)
    BY <1>0, <1>1, <2>1 DEF NoTrailing, Last
  <2> DEFINE y == <<p + 1, p + 2>>
             rest == f[y].fields
  <2>3. y \in Inside(text) /\ y[1] = p + 1 /\ y[2] = p + 2
    BY <1>0, <1>1, <2>2 DEF Inside
  <2>4. SplitFrom(text, y, f[y])
    BY <1>1, <2>3 DEF p
  <2>5. NoDoubles(text) => Clean(text, y)
    <3> SUFFICES ASSUME NoDoubles(text)
                 PROVE  Clean(text, y)
      OBVIOUS
    <3>1. text[p + 2] # Delimiter
      <4>1. p + 1 \in 1..(Len(text) - 1) /\ (p + 1) + 1 = p + 2
        BY <1>0, <1>1, <2>2
      <4> QED
        BY <2>1, <4>1 DEF NoDoubles
    <3>2. \A i \in (p + 1) + 1..p + 2 : i = p + 2
      BY <1>1
    <3> QED
      BY <2>1, <2>3, <3>1, <3>2 DEF Clean
  <2>6. f[x].fields = Piece(start, p) \o rest /\ f[x].end = f[y].end
    BY <1>3, <1>6
  <2> HIDE DEF y
  <2>7. /\ rest \in Seq(Places(text)) /\ InOrder(rest)
        /\ \A r \in Range(rest) : p + 1 < r[1] /\ r[1] <= r[2]
        /\ \A i \in DOMAIN text : p + 1 < i /\ text[i] # Delimiter =>
               \E r \in Range(rest) : r[1] <= i /\ i <= r[2]
        /\ NoDoubles(text) =>
               \A r : r \in Range(rest) <=> r \in Fields(text) /\ p + 1 < r[1]
    BY <2>3, <2>4, <2>5 DEF SplitFrom
  <2>8. f[y].end = Len(text)
    BY <2>4 DEF SplitFrom
  <2> HIDE DEF rest
  <2> QED
    BY <1>4, <2>1, <2>6, <2>7, <2>8 DEF SplitFrom, start
<1>7. CASE char # Nul /\ char # Delimiter
  <2>1. p < Len(text) /\ text[p + 1] # Delimiter
    BY <1>1, <1>2, <1>7
  <2> DEFINE y == <<start, p + 1>>
  <2>2. y \in Inside(text) /\ y[1] = start /\ y[2] = p + 1
    BY <1>0, <1>1, <2>1 DEF Inside
  <2>3. SplitFrom(text, y, f[y])
    BY <1>1, <2>2 DEF p
  <2>4. f[x] = f[y]
    BY <1>3, <1>7
  <2> HIDE DEF y
  <2>5. Clean(text, x) => Clean(text, y)
    <3>1. \A i \in start + 1..p + 1 : i \in start + 1..p \/ i = p + 1
      BY <1>1
    <3> QED
      BY <2>1, <2>2, <3>1 DEF Clean, start, p
  <2> QED
    BY <2>2, <2>3, <2>4, <2>5 DEF SplitFrom, start
<1> QED
  BY <1>5, <1>6, <1>7

(* The whole walk is right, by the last pass for which it is not.          *)
LEMMA WalkRight ==
    ASSUME NEW text \in CStrings, NoTrailing(text), NEW behind \in CStrings
    PROVE  SplitFrom(text, <<0, 0>>, Walk(InMemory(text, behind)))
<1> DEFINE P == Passes(InMemory(text, behind))
           WrongAt(x) == ~SplitFrom(text, x, P[x])
           Bad == {w \in Nat : \E x \in Inside(text) : Len(text) - x[2] = w /\ WrongAt(x)}
<1>0. Len(text) \in Nat
  BY DEF CStrings
<1>1. \A x \in Inside(text) : x[2] \in Nat /\ Len(text) - x[2] \in Nat
  BY <1>0 DEF Inside
<1>2. <<0, 0>> \in Inside(text)
  BY <1>0 DEF Inside
<1>3. Walk(InMemory(text, behind)) = P[<<0, 0>>]
  BY WalkPasses
<1> SUFFICES ASSUME Bad # {}
             PROVE  FALSE
  BY <1>1, <1>2, <1>3
<1>4. PICK w \in Bad : \A v \in Bad : w <= v
  BY LeastNatural
<1>5. PICK x \in Inside(text) : Len(text) - x[2] = w /\ WrongAt(x)
  BY <1>4
<1>6. ASSUME NEW y \in Inside(text), y[2] > x[2]
      PROVE  ~WrongAt(y)
  <2>1. Len(text) - y[2] \in Nat /\ Len(text) - y[2] < w
    BY <1>0, <1>1, <1>5, <1>6
  <2> QED
    BY <1>4, <2>1
<1>7. SplitFrom(text, x, P[x])
  <2>1. x \in Pointers(InMemory(text, behind))
    <3>1. Len(InMemory(text, behind)) \in Nat /\ Len(InMemory(text, behind)) > Len(text)
      BY MemoryOfText DEF Closed
    <3> QED
      BY <1>0, <3>1 DEF Inside, Pointers
  <2> HIDE DEF P
  <2>2. P[x] = Pass(InMemory(text, behind), P, x)
    BY <2>1, PassesPass, MemoryOfText DEF P
  <2> QED
    BY <1>6, <2>2, PassRight
<1> QED
  BY <1>5, <1>7

LEMMA StringsAreCStrings ==
    ASSUME NEW n
    PROVE  Strings(n) \subseteq CStrings
  BY DEF Strings, CStrings

(* split_string is right on every text that does not end in a delimiter.   *)
THEOREM SplitCorrect == SplitIsRight
<1> SUFFICES ASSUME NEW text \in Strings(MaxText), NEW behind \in Strings(MaxBehind),
                    NoTrailing(text)
             PROVE  LET walk == Walk(InMemory(text, behind)) IN
                    /\ walk.end = Len(text)
                    /\ InOrder(walk.fields)
                    /\ NothingLost(text, walk.fields)
                    /\ RightFields(text, walk.fields)
  BY DEF SplitIsRight
<1> DEFINE walk == Walk(InMemory(text, behind))
           fields == walk.fields
           x == <<0, 0>>
<1>1. text \in CStrings /\ behind \in CStrings
  BY StringsAreCStrings
<1>2. SplitFrom(text, x, walk)
  BY <1>1, WalkRight
<1>3. x[1] = 0 /\ Clean(text, x)
  BY DEF Clean
<1>4. /\ walk.end = Len(text) /\ fields \in Seq(Places(text)) /\ InOrder(fields)
      /\ \A r \in Range(fields) : r[1] <= r[2]
      /\ \A i \in DOMAIN text : 0 < i /\ text[i] # Delimiter =>
             \E r \in Range(fields) : r[1] <= i /\ i <= r[2]
      /\ NoDoubles(text) =>
             \A r : r \in Range(fields) <=> r \in Fields(text) /\ 0 < r[1]
  BY <1>2, <1>3 DEF SplitFrom
<1> HIDE DEF walk
<1>5. DOMAIN text = 1..Len(text) /\ DOMAIN fields = 1..Len(fields)
  BY <1>1, <1>4 DEF CStrings
<1>6. /\ \A k \in DOMAIN fields : fields[k] \in Range(fields) /\ fields[k] \in Places(text)
      /\ \A r \in Range(fields) : \E k \in DOMAIN fields : r = fields[k]
  BY <1>4, <1>5 DEF Range
<1>7. NothingLost(text, fields)
  <2>1. \A i \in DOMAIN text : text[i] # Delimiter =>
            \E k \in DOMAIN fields : fields[k][1] <= i /\ i <= fields[k][2]
    <3> SUFFICES ASSUME NEW i \in DOMAIN text, text[i] # Delimiter
                 PROVE  \E k \in DOMAIN fields : fields[k][1] <= i /\ i <= fields[k][2]
      OBVIOUS
    <3>1. 0 < i
      BY <1>5
    <3>2. PICK r \in Range(fields) : r[1] <= i /\ i <= r[2]
      BY <1>4, <3>1
    <3> QED
      BY <1>6, <3>2
  <2> QED
    BY <1>4, <1>6, <2>1 DEF NothingLost, Places
<1>8. RightFields(text, fields)
  <2>1. \A r \in Fields(text) : 0 < r[1]
    BY <1>5, FieldPairs, FieldPlaces
  <2> QED
    BY <1>4, <2>1 DEF RightFields
<1> QED
  BY <1>4, <1>7, <1>8 DEF walk

(* In particular for the texts of a run, in the states with no table.      *)
THEOREM FieldsCorrect == Spec => []FieldsAreRight
<1>1. FieldsAreRight
  BY SplitCorrect DEF FieldsAreRight
<1> QED
  BY <1>1, PTL

=============================================================================
