------------------------- MODULE ThriftStruct_proofs -------------------------
(***************************************************************************)
(* The reader of a struct stays in step with the connection and stores     *)
(* what was sent, proved for messages of any length, nesting and field     *)
(* numbers.  What is open in the message behind each of its fields is a    *)
(* sequence of stacks (Stacked); the frames of the reader are the stack    *)
(* behind the last field it has taken (InMessage), what it has stored is   *)
(* accounted for by the fields in front of it (Stored), and a message that *)
(* this program wrote nests like any other (OwnMessage).                   *)
(***************************************************************************)
EXTENDS ThriftStruct, FiniteSetTheorems, SequenceTheorems, WellFoundedInduction, TLAPS

Types == {"i32", "string", "struct"}

(* A struct without struct fields.                                         *)
Flat(s) == \A f \in s : f.of = {} /\ f.type # "struct"

(* The tables: numbers and names are given once, and structs nest once.    *)
GoodTable(s) ==
    /\ \A f \in s : /\ f.id \in Nat /\ f.type \in Types /\ f.name # "skip"
                    /\ f.type = "struct" <=> f.of # {}
    /\ \A f, g \in s : f.id = g.id \/ f.name = g.name => f = g

LEMMA FlatTables ==
    ASSUME NEW s \in {{}, Work, InvalidOperation, SharedStruct}
    PROVE  GoodTable(s) /\ Flat(s)
<1>1. CASE s = {}
  BY <1>1 DEF GoodTable, Flat
<1>2. CASE s = Work
  BY <1>2 DEF GoodTable, Flat, Work, I32, Text, Types
<1>3. CASE s = InvalidOperation
  BY <1>3 DEF GoodTable, Flat, InvalidOperation, I32, Text, Types
<1>4. CASE s = SharedStruct
  BY <1>4 DEF GoodTable, Flat, SharedStruct, I32, Text, Types
<1> QED
  BY <1>1, <1>2, <1>3, <1>4

LEMMA NestedTables ==
    ASSUME NEW s \in Args \union Results
    PROVE  /\ GoodTable(s)
           /\ \A f \in s : f.of \in {{}, Work, InvalidOperation, SharedStruct}
<1>0. Work # {} /\ InvalidOperation # {} /\ SharedStruct # {}
  BY DEF Work, InvalidOperation, SharedStruct
<1>1. CASE s = {}
  BY <1>1 DEF GoodTable
<1>2. CASE s = PingResult
  BY <1>2 DEF GoodTable, PingResult, Text, Types
<1>3. CASE s = AddArgs
  BY <1>3 DEF GoodTable, AddArgs, I32, Types
<1>4. CASE s = AddResult
  BY <1>4 DEF GoodTable, AddResult, I32, Types
<1>5. CASE s = CalculateArgs
  BY <1>0, <1>5 DEF GoodTable, CalculateArgs, I32, Struct, Types
<1>6. CASE s = CalculateResult
  BY <1>0, <1>6 DEF GoodTable, CalculateResult, I32, Struct, Types
<1>7. CASE s = GetStructArgs
  BY <1>7 DEF GoodTable, GetStructArgs, I32, Types
<1>8. CASE s = GetStructResult
  BY <1>0, <1>8 DEF GoodTable, GetStructResult, Struct, Types
<1> QED
  BY <1>1, <1>2, <1>3, <1>4, <1>5, <1>6, <1>7, <1>8 DEF Args, Results, PingArgs, ZipArgs

-----------------------------------------------------------------------------
(* Numbers and types of the structs around a field, and of itself.         *)
Ats == Seq(Nat \X Types)

Here(a, t) == Append(a, <<t.id, t.type>>)

(* The fields of a table with a number and a type: one or none.            *)
Hits(s, x) == {f \in s : <<f.id, f.type>> = x}

LEMMA OneHit ==
    ASSUME NEW s, GoodTable(s), NEW x, NEW f \in Hits(s, x)
    PROVE  Hits(s, x) = {f}
  BY DEF GoodTable, Hits

(* What the reader's frame is in the struct at a.                          *)
FrameOf(a) ==
    IF a = <<>> THEN Frame(spec, <<>>)
    ELSE IF Len(a) = 1 /\ Hits(spec, a[1]) # {}
    THEN LET f == CHOOSE f \in Hits(spec, a[1]) : TRUE IN Frame(f.of, <<f.name>>)
    ELSE Frame({}, Skipped)

(* The names of a field at the outer level, and of one in a struct.        *)
LEMMA NamesOuter ==
    ASSUME spec \in Args \union Results, NEW x
    PROVE  Names(<<x>>) = {<<f.name>> : f \in Hits(spec, x)}
  BY DEF Names, Hits

LEMMA NamesInner ==
    ASSUME spec \in Args \union Results, NEW x, NEW y
    PROVE  Names(<<x, y>>) =
             UNION {{<<f.name, g.name>> : g \in Hits(f.of, y)} : f \in Hits(spec, x)}
  BY DEF Names, Hits

LEMMA NamesInnerOf ==
    ASSUME spec \in Args \union Results, NEW x, NEW y
    PROVE  \A p : p \in Names(<<x, y>>) <=>
               \E e \in Hits(spec, x) : \E h \in Hits(e.of, y) : p = <<e.name, h.name>>
<1> PICK at : at = <<x, y>>
  OBVIOUS
<1>1. Names(at) = UNION {{<<f.name, g.name>> : g \in Hits(f.of, y)} : f \in Hits(spec, x)}
  BY NamesInner
<1> QED
  BY <1>1

LEMMA NamesDeep ==
    ASSUME NEW a \in Ats, Len(a) # 1, Len(a) # 2
    PROVE  Names(a) = {}
  BY DEF Names

LEMMA AtsShort ==
    ASSUME NEW a \in Ats
    PROVE  /\ Len(a) \in Nat /\ (Len(a) = 0 <=> a = <<>>)
           /\ Len(a) = 1 => a = <<a[1]>>
           /\ Len(a) = 2 => a = <<a[1], a[2]>>
  BY DEF Ats

(* A name is given to one place only.                                      *)
LEMMA NamesApart ==
    ASSUME spec \in Args \union Results, NEW a \in Ats, NEW b \in Ats,
           NEW p, p \in Names(a), p \in Names(b)
    PROVE  a = b
<1>1. GoodTable(spec) /\ \A f \in spec : GoodTable(f.of)
  BY NestedTables, FlatTables
<1>2. CASE Len(a) = 1
  <2>1. PICK f \in Hits(spec, a[1]) : p = <<f.name>>
    BY <1>2, AtsShort, NamesOuter
  <2>2. CASE Len(b) = 1
    <3>1. PICK g \in Hits(spec, b[1]) : p = <<g.name>>
      BY <2>2, AtsShort, NamesOuter
    <3>2. f = g
      BY <1>1, <2>1, <3>1 DEF Hits, GoodTable
    <3> QED
      BY <1>2, <2>2, <3>2, AtsShort DEF Hits
  <2>3. CASE Len(b) = 2
    <3>1. PICK g \in Hits(spec, b[1]) : \E h \in Hits(g.of, b[2]) : p = <<g.name, h.name>>
      BY <2>3, AtsShort, NamesInner
    <3> QED
      BY <2>1, <3>1
  <2> QED
    BY <2>2, <2>3, NamesDeep
<1>3. CASE Len(a) = 2
  <2>1. PICK f \in Hits(spec, a[1]) : \E e \in Hits(f.of, a[2]) : p = <<f.name, e.name>>
    BY <1>3, AtsShort, NamesInner
  <2>2. PICK e \in Hits(f.of, a[2]) : p = <<f.name, e.name>>
    BY <2>1
  <2>3. CASE Len(b) = 1
    <3>1. PICK g \in Hits(spec, b[1]) : p = <<g.name>>
      BY <2>3, AtsShort, NamesOuter
    <3> QED
      BY <2>2, <3>1
  <2>4. CASE Len(b) = 2
    <3>1. PICK g \in Hits(spec, b[1]) : \E h \in Hits(g.of, b[2]) : p = <<g.name, h.name>>
      BY <2>4, AtsShort, NamesInner
    <3>2. PICK h \in Hits(g.of, b[2]) : p = <<g.name, h.name>>
      BY <3>1
    <3>3. f = g
      BY <1>1, <2>2, <3>2 DEF Hits, GoodTable
    <3>4. e = h
      BY <1>1, <2>2, <3>2, <3>3 DEF Hits, GoodTable
    <3> QED
      BY <1>3, <2>4, <3>3, <3>4, AtsShort DEF Hits
  <2> QED
    BY <2>3, <2>4, NamesDeep
<1> QED
  BY <1>2, <1>3, NamesDeep

LEMMA AppendOne ==
    ASSUME NEW S, NEW s \in Seq(S), Len(s) = 1, NEW v \in S
    PROVE  Append(s, v) = <<s[1], v>>
<1>1. s[1] \in S /\ <<s[1], v>> \in Seq(S)
  OBVIOUS
<1> DEFINE w == Append(s, v)
           x == <<s[1], v>>
<1>2. x \in Seq(S) /\ Len(x) = 2 /\ x[1] = s[1] /\ x[2] = v
  BY <1>1
<1>3. w \in Seq(S) /\ Len(w) = 2 /\ w[1] = s[1] /\ w[2] = v
  <2>1. w \in Seq(S) /\ Len(w) = Len(s) + 1
    BY AppendProperties
  <2>2. w[Len(s) + 1] = v
    BY AppendProperties
  <2>3. w[1] = s[1]
    <3>1. \A i \in 1..Len(s) : Append(s, v)[i] = s[i]
      BY AppendProperties
    <3>2. 1 \in 1..Len(s)
      OBVIOUS
    <3> QED
      BY <3>1, <3>2
  <2> QED
    BY <2>1, <2>2, <2>3
<1> HIDE DEF w, x
<1>4. \A i \in 1..Len(w) : w[i] = x[i]
  BY <1>2, <1>3
<1>5. w = x
  BY <1>2, <1>3, <1>4, SeqEqual
<1> QED
  BY <1>5 DEF w, x

(* What the reader makes of a field in the struct at a: where it stores    *)
(* its value, and the frame of the struct that it is.                      *)
LEMMA FieldIsNamed ==
    ASSUME spec \in Args \union Results, NEW a \in Ats,
           NEW t, t.id \in Nat, t.type \in Types
    PROVE  LET match == Known(FrameOf(a).of, t)
               path  == PathOf(FrameOf(a), match)
           IN  /\ \/ path = Skipped /\ Names(Here(a, t)) = {}
                  \/ path[1] # "skip" /\ Names(Here(a, t)) = {path}
               /\ t.type = "struct" =>
                    Frame(UNION {f.of : f \in match}, path) = FrameOf(Here(a, t))
<1> DEFINE x == <<t.id, t.type>>
           here == Here(a, t)
           match == Known(FrameOf(a).of, t)
           path == PathOf(FrameOf(a), match)
<1>1. /\ GoodTable(spec)
      /\ \A f \in spec : GoodTable(f.of) /\ Flat(f.of)
  BY NestedTables, FlatTables
<1>2. /\ here \in Ats /\ Len(here) = Len(a) + 1 /\ here = Append(a, x)
      /\ here[Len(a) + 1] = x /\ \A i \in 1..Len(a) : here[i] = a[i]
  BY DEF Ats, Here
<1>3. match = Hits(FrameOf(a).of, x)
  BY DEF Known, Hits
<1>4. match = {} => path = Skipped /\ Frame(UNION {f.of : f \in match}, path) = Frame({}, Skipped)
  <2>1. UNION {f.of : f \in {}} = {}
    OBVIOUS
  <2> QED
    BY <2>1 DEF PathOf
<1>5. ASSUME NEW f \in match, match = {f}
      PROVE  /\ path = Append(FrameOf(a).path, f.name)
             /\ Frame(UNION {g.of : g \in match}, path) = Frame(f.of, path)
  <2> HIDE DEF match
  <2>1. (CHOOSE g \in match : TRUE) = f
    BY <1>5
  <2>2. UNION {g.of : g \in match} = f.of
    BY <1>5
  <2> QED
    BY <1>5, <2>1, <2>2 DEF PathOf
<1> HIDE DEF here, match, path
<1>6. CASE a = <<>>
  <2>1. FrameOf(a) = Frame(spec, <<>>) /\ Len(here) = 1 /\ here = <<x>> /\ here # <<>> /\ here[1] = x
    BY <1>2, <1>6 DEF FrameOf
  <2>2. match = Hits(spec, x)
    BY <1>3, <2>1 DEF Frame
  <2>3. Names(here) = {<<f.name>> : f \in match}
    BY <2>1, <2>2, NamesOuter
  <2>4. CASE match = {}
    <3>1. Names(here) = {}
      BY <2>3, <2>4
    <3>2. FrameOf(here) = Frame({}, Skipped)
      BY <2>1, <2>2, <2>4 DEF FrameOf
    <3> QED
      BY <1>4, <2>4, <3>1, <3>2 DEF here, match, path
  <2>5. CASE match # {}
    <3>1. PICK f \in match : match = {f}
      BY <1>1, <2>2, <2>5, OneHit
    <3>2. path = <<f.name>> /\ path[1] # "skip"
      <4>1. path = Append(<<>>, f.name)
        BY <1>5, <2>1, <3>1 DEF Frame
      <4>2. f.name # "skip"
        BY <1>1, <2>2 DEF GoodTable, Hits
      <4> QED
        BY <4>1, <4>2
    <3>3. Names(here) = {path}
      BY <2>3, <3>1, <3>2
    <3>4. FrameOf(here) = Frame(f.of, <<f.name>>)
      <4>1. (CHOOSE g \in Hits(spec, x) : TRUE) = f
        BY <2>2, <3>1
      <4> QED
        BY <2>1, <2>2, <2>5, <4>1 DEF FrameOf
    <3> QED
      BY <1>5, <3>1, <3>2, <3>3, <3>4 DEF here, match, path
  <2> QED
    BY <2>4, <2>5
<1>7. CASE Len(a) = 1 /\ Hits(spec, a[1]) # {}
  <2>1. PICK f \in Hits(spec, a[1]) : Hits(spec, a[1]) = {f}
    BY <1>1, <1>7, OneHit
  <2>2. FrameOf(a) = Frame(f.of, <<f.name>>)
    <3>1. (CHOOSE g \in Hits(spec, a[1]) : TRUE) = f
      BY <2>1
    <3>2. a # <<>>
      BY <1>7, AtsShort
    <3> QED
      BY <1>7, <3>1, <3>2 DEF FrameOf
  <2>3. match = Hits(f.of, x) /\ GoodTable(f.of) /\ Flat(f.of)
    BY <1>1, <1>3, <2>2 DEF Frame, Hits
  <2>4. here = <<a[1], x>> /\ Len(here) = 2
    <3>1. Len(here) = 2 /\ here[1] = a[1] /\ here[2] = x
      BY <1>2, <1>7
    <3> QED
      BY <1>2, <3>1, AtsShort
  <2>5. Names(here) = {<<f.name, g.name>> : g \in match}
    <3>1. Names(here) = UNION {{<<e.name, g.name>> : g \in Hits(e.of, x)} : e \in {f}}
      BY <2>1, <2>4, NamesInner
    <3> QED
      BY <2>3, <3>1
  <2>6. FrameOf(here) = Frame({}, Skipped)
    BY <2>4 DEF FrameOf
  <2>7. t.type = "struct" => match = {}
    BY <2>3 DEF Flat, Hits
  <2>8. CASE match = {}
    <3>1. Names(here) = {}
      BY <2>5, <2>8
    <3> QED
      BY <1>4, <2>6, <2>8, <3>1 DEF here, match, path
  <2>9. CASE match # {}
    <3>1. PICK g \in match : match = {g}
      BY <2>3, <2>9, OneHit
    <3>2. path = <<f.name, g.name>> /\ path[1] # "skip"
      <4>1. path = Append(<<f.name>>, g.name)
        BY <1>5, <2>2, <3>1 DEF Frame
      <4>2. f.name # "skip"
        BY <1>1 DEF GoodTable, Hits
      <4>3. Append(<<f.name>>, g.name) = <<f.name, g.name>>
        <5>1. <<f.name>> \in Seq({f.name, g.name}) /\ Len(<<f.name>>) = 1 /\ <<f.name>>[1] = f.name
          OBVIOUS
        <5> QED
          BY <5>1, AppendOne
      <4> QED
        BY <4>1, <4>2, <4>3
    <3>3. Names(here) = {path}
      BY <2>5, <3>1, <3>2
    <3> QED
      BY <2>7, <2>9, <3>2, <3>3 DEF here, match, path
  <2> QED
    BY <2>8, <2>9
<1>8. CASE a # <<>> /\ ~(Len(a) = 1 /\ Hits(spec, a[1]) # {})
  <2>1. FrameOf(a) = Frame({}, Skipped)
    BY <1>8 DEF FrameOf
  <2>2. match = {}
    BY <1>3, <2>1 DEF Frame, Hits
  <2>3. Len(here) # 1 /\ Len(a) \in Nat /\ here # <<>>
    BY <1>2, <1>8, AtsShort DEF Ats
  <2>4. FrameOf(here) = Frame({}, Skipped)
    BY <2>3 DEF FrameOf
  <2>5. Names(here) = {}
    <3>1. CASE Len(a) = 1
      <4>1. Len(here) = 2 /\ here[1] = a[1] /\ here[2] = x
        BY <1>2, <3>1
      <4>2. here = <<a[1], x>> /\ Hits(spec, a[1]) = {}
        BY <1>2, <1>8, <3>1, <4>1, AtsShort
      <4>3. \A p : p \notin Names(<<a[1], x>>)
        BY <4>2, NamesInnerOf
      <4> QED
        BY <4>2, <4>3
    <3>2. CASE Len(a) # 1
      <4>1. Len(here) # 1 /\ Len(here) # 2
        <5>1. Len(here) = Len(a) + 1 /\ Len(a) \in Nat /\ Len(a) # 0
          BY <1>2, <1>8, AtsShort
        <5>2. \A n, m \in Nat : m = n + 1 /\ n # 0 /\ n # 1 => m # 1 /\ m # 2
          OBVIOUS
        <5>3. Len(here) \in Nat
          BY <5>1
        <5> QED
          BY <3>2, <5>1, <5>2, <5>3
      <4> QED
        BY <1>2, <4>1, NamesDeep
    <3> QED
      BY <3>1, <3>2
  <2> QED
    BY <1>4, <2>2, <2>4, <2>5 DEF here, match, path
<1> QED
  BY <1>6, <1>7, <1>8

-----------------------------------------------------------------------------
(* What nests: the fields that are open, innermost first.                  *)
Toks == [id : Nat, type : Types \union {"stop"}, val : Nat, at : Ats]

Stacks == {a \in Seq(Ats) : \A j \in 1..Len(a) : a[j] = <<>> <=> j = Len(a)}

Nests(t, a, b) ==
    /\ t \in Toks /\ a # <<>>
    /\ \/ t = Stop /\ b = Tail(a)
       \/ /\ t.type \in Types /\ t.at = Here(Head(a), t)
          /\ t.type = "struct" => t.val = 0
          /\ b = IF t.type = "struct" THEN <<t.at>> \o a ELSE a

LEMMA StackFacts ==
    ASSUME NEW a \in Stacks
    PROVE  /\ a \in Seq(Ats) /\ Len(a) \in Nat
           /\ a # <<>> => /\ Len(a) > 0 /\ Head(a) = a[1] /\ Head(a) \in Ats
                          /\ Len(Tail(a)) = Len(a) - 1
                          /\ \A j \in 1..Len(a) - 1 : Tail(a)[j] = a[j + 1]
                          /\ Tail(a) \in Seq(Ats)
<1>1. a \in Seq(Ats)
  BY DEF Stacks
<1> HIDE DEF Stacks
<1> QED
  BY <1>1

(* One field more at the end of a sequence.                                *)
LEMMA HereFacts ==
    ASSUME NEW a \in Ats, NEW t, t.id \in Nat, t.type \in Types
    PROVE  /\ Here(a, t) \in Ats /\ Here(a, t) # <<>>
           /\ Here(a, t)[Len(Here(a, t))][2] = t.type
<1> DEFINE x == <<t.id, t.type>>
<1>1. x \in Nat \X Types /\ x[2] = t.type
  OBVIOUS
<1> HIDE DEF x
<1>2. a \in Seq(Nat \X Types)
  BY DEF Ats
<1>3. /\ Append(a, x) \in Seq(Nat \X Types) /\ Append(a, x) # <<>>
      /\ Len(Append(a, x)) = Len(a) + 1 /\ Append(a, x)[Len(a) + 1] = x
  BY <1>1, <1>2, AppendProperties
<1> QED
  BY <1>1, <1>3 DEF Here, Ats, x

(* A sequence behind one element.                                          *)
LEMMA PushFacts ==
    ASSUME NEW S, NEW s \in Seq(S), NEW e \in S
    PROVE  /\ <<e>> \o s \in Seq(S) /\ Len(<<e>> \o s) = Len(s) + 1
           /\ (<<e>> \o s)[1] = e
           /\ \A j \in 2..Len(s) + 1 : (<<e>> \o s)[j] = s[j - 1]
<1> DEFINE u == <<e>>
<1>1. u \in Seq(S) /\ Len(u) = 1 /\ u[1] = e
  OBVIOUS
<1> HIDE DEF u
<1>2. /\ u \o s \in Seq(S) /\ Len(u \o s) = Len(u) + Len(s)
      /\ \A i \in 1..Len(u) + Len(s) : (u \o s)[i] = IF i <= Len(u) THEN u[i] ELSE s[i - Len(u)]
  BY <1>1, ConcatProperties
<1>3. Len(s) \in Nat
  OBVIOUS
<1>4. (u \o s)[1] = e
  BY <1>1, <1>2, <1>3
<1>5. ASSUME NEW j \in 2..Len(s) + 1
      PROVE  (u \o s)[j] = s[j - 1]
  BY <1>1, <1>2, <1>3
<1> QED
  BY <1>1, <1>2, <1>3, <1>4, <1>5 DEF u

(* What a stack is without its top, and with one more.                     *)
LEMMA TailStack ==
    ASSUME NEW a \in Stacks, a # <<>>
    PROVE  Tail(a) \in Stacks
<1> DEFINE b == Tail(a)
<1>1. /\ a \in Seq(Ats) /\ Len(a) \in Nat /\ Len(a) > 0
      /\ Len(b) = Len(a) - 1 /\ \A j \in 1..Len(a) - 1 : b[j] = a[j + 1]
      /\ b \in Seq(Ats)
  BY StackFacts
<1>2. \A j \in 1..Len(a) : a[j] = <<>> <=> j = Len(a)
  BY DEF Stacks
<1> HIDE DEF b
<1>3. ASSUME NEW j \in 1..Len(b)
      PROVE  b[j] = <<>> <=> j = Len(b)
  <2>1. b[j] = a[j + 1] /\ j + 1 \in 1..Len(a) /\ Len(b) = Len(a) - 1
    BY <1>1
  <2>2. a[j + 1] = <<>> <=> j + 1 = Len(a)
    BY <1>2, <2>1
  <2>3. j + 1 = Len(a) <=> j = Len(b)
    BY <1>1, <2>1
  <2> QED
    BY <2>1, <2>2, <2>3
<1> QED
  BY <1>1, <1>3 DEF Stacks, b

LEMMA PushStack ==
    ASSUME NEW a \in Stacks, a # <<>>, NEW x \in Ats, x # <<>>
    PROVE  <<x>> \o a \in Stacks
<1> DEFINE b == <<x>> \o a
<1>1. a \in Seq(Ats) /\ Len(a) \in Nat
  BY StackFacts
<1>2. \A j \in 1..Len(a) : a[j] = <<>> <=> j = Len(a)
  BY DEF Stacks
<1>3. /\ b \in Seq(Ats) /\ Len(b) = Len(a) + 1 /\ b[1] = x
      /\ \A j \in 2..Len(a) + 1 : b[j] = a[j - 1]
  BY <1>1, PushFacts
<1> HIDE DEF b
<1>4. ASSUME NEW j \in 1..Len(b)
      PROVE  b[j] = <<>> <=> j = Len(b)
  <2>1. CASE j = 1
    <3>1. Len(a) # 0
      BY StackFacts
    <3> QED
      BY <1>1, <1>3, <2>1
  <2>2. CASE j # 1
    <3>1. j \in 2..Len(a) + 1 /\ j - 1 \in 1..Len(a)
      BY <1>1, <1>3, <2>2
    <3>2. a[j - 1] = <<>> <=> j - 1 = Len(a)
      BY <1>2, <3>1
    <3>3. j - 1 = Len(a) <=> j = Len(b)
      BY <1>1, <1>3
    <3> QED
      BY <1>3, <3>1, <3>2, <3>3
  <2> QED
    BY <2>1, <2>2
<1> QED
  BY <1>3, <1>4 DEF Stacks, b

(* A field keeps the stack one, and what it does to it is known by its     *)
(* type.                                                                   *)
LEMMA NestsStack ==
    ASSUME NEW t, NEW a \in Stacks, NEW b, Nests(t, a, b)
    PROVE  /\ b \in Stacks
           /\ t.type = "stop" => t = Stop /\ b = Tail(a)
           /\ t.type # "stop" => /\ t.type \in Types /\ t.id \in Nat /\ t.at = Here(Head(a), t)
                                 /\ t.at \in Ats \ {<<>>} /\ Head(a) \in Ats
                                 /\ b = IF t.type = "struct" THEN <<t.at>> \o a ELSE a
<1>1. Head(a) \in Ats
  BY StackFacts DEF Nests
<1>2. CASE t = Stop /\ b = Tail(a)
  <2>1. t.type = "stop"
    BY <1>2 DEF Stop
  <2> QED
    BY <1>2, <2>1, TailStack DEF Nests
<1>3. CASE /\ t.type \in Types /\ t.at = Here(Head(a), t)
           /\ b = IF t.type = "struct" THEN <<t.at>> \o a ELSE a
  <2>1. t.type # "stop" /\ t.id \in Nat
    BY <1>3 DEF Types, Nests, Toks
  <2>2. t.at \in Ats /\ t.at # <<>>
    BY <1>1, <1>3, <2>1, HereFacts
  <2> QED
    BY <1>1, <1>3, <2>1, <2>2, PushStack DEF Nests
<1> QED
  BY <1>2, <1>3 DEF Nests

-----------------------------------------------------------------------------
(* Where the reader is in the message, and what it is in there.            *)
FramesOf(a) == [j \in 1..Len(a) |-> FrameOf(a[j])]

Passed == Len(log) - Len(wire)

Suffix ==
    /\ log \in Seq(Toks) /\ wire \in Seq(Toks) /\ Passed \in Nat
    /\ \A i \in 1..Len(wire) : wire[i] = log[Passed + i]

Stacked(st) ==
    /\ st \in [0..Len(log) -> Stacks] /\ st[0] = << <<>> >>
    /\ \A i \in 1..Len(log) : Nests(log[i], st[i - 1], st[i])
    /\ st[Len(log)] = IF begun THEN open ELSE << <<>> >>
    /\ \E a : a = st[Passed] /\ frames = FramesOf(a)

Phase ==
    /\ spec \in Args \union Results /\ pc \in {"reading", "done", "eof"}
    /\ begun \in BOOLEAN
    /\ ~begun => log = <<>> /\ open = <<>> /\ own = {"foreign"}
    /\ pc = "done" <=> frames = <<>>

InMessage == Phase /\ Suffix /\ \E st : Stacked(st)

FrameSet == [of : {spec} \union {f.of : f \in spec} \union {{}},
             path : {<<>>, Skipped} \union {<<f.name>> : f \in spec}]

LEMMA FramesType ==
    ASSUME NEW a \in Stacks
    PROVE  /\ FramesOf(a) \in Seq(FrameSet)
           /\ Len(FramesOf(a)) = Len(a) /\ (FramesOf(a) = <<>> <=> a = <<>>)
           /\ \A j \in 1..Len(a) : FramesOf(a)[j] = FrameOf(a[j])
<1>1. a \in Seq(Ats) /\ Len(a) \in Nat
  BY StackFacts
<1>2. ASSUME NEW x \in Ats
      PROVE  FrameOf(x) \in FrameSet
  <2>1. CASE x = <<>>
    BY <2>1 DEF FrameOf, Frame, FrameSet
  <2>2. CASE x # <<>> /\ Len(x) = 1 /\ Hits(spec, x[1]) # {}
    <3>1. PICK f : f = CHOOSE g \in Hits(spec, x[1]) : TRUE
      OBVIOUS
    <3>2. f \in Hits(spec, x[1])
      BY <2>2, <3>1
    <3>3. FrameOf(x) = Frame(f.of, <<f.name>>)
      BY <2>2, <3>1 DEF FrameOf
    <3> QED
      BY <3>2, <3>3 DEF Frame, Hits, FrameSet
  <2>3. CASE x # <<>> /\ ~(Len(x) = 1 /\ Hits(spec, x[1]) # {})
    BY <2>3 DEF FrameOf, Frame, FrameSet
  <2> QED
    BY <2>1, <2>2, <2>3
<1>3. \A j \in 1..Len(a) : FrameOf(a[j]) \in FrameSet
  BY <1>1, <1>2
<1>4. FramesOf(a) \in Seq(FrameSet) /\ Len(FramesOf(a)) = Len(a)
  BY <1>1, <1>3 DEF FramesOf
<1>5. FramesOf(a) = <<>> <=> a = <<>>
  BY <1>1, <1>4, EmptySeq
<1> QED
  BY <1>4, <1>5 DEF FramesOf

(* Equal stacks are equal frames, and so are their tails and heads.        *)
LEMMA FramesFollow ==
    ASSUME NEW a \in Stacks, a # <<>>
    PROVE  /\ Head(FramesOf(a)) = FrameOf(Head(a))
           /\ Tail(FramesOf(a)) = FramesOf(Tail(a))
           /\ \A x \in Ats \ {<<>>} : <<FrameOf(x)>> \o FramesOf(a) = FramesOf(<<x>> \o a)
<1>1. /\ FramesOf(a) \in Seq(FrameSet) /\ Len(FramesOf(a)) = Len(a)
      /\ \A j \in 1..Len(a) : FramesOf(a)[j] = FrameOf(a[j])
  BY FramesType
<1>2. /\ a \in Seq(Ats) /\ Len(a) \in Nat /\ Len(a) > 0 /\ Head(a) = a[1]
      /\ Len(Tail(a)) = Len(a) - 1 /\ \A j \in 1..Len(a) - 1 : Tail(a)[j] = a[j + 1]
  BY StackFacts
<1>3. Head(FramesOf(a)) = FrameOf(Head(a))
  BY <1>1, <1>2
<1>4. Tail(FramesOf(a)) = FramesOf(Tail(a))
  <2> DEFINE b == Tail(a)
             u == Tail(FramesOf(a))
             v == FramesOf(b)
             s == FramesOf(a)
  <2>1. b \in Stacks
    BY TailStack
  <2>2. /\ v \in Seq(FrameSet) /\ Len(v) = Len(b) /\ \A j \in 1..Len(b) : v[j] = FrameOf(b[j])
    BY <2>1, FramesType
  <2>3. s \in Seq(FrameSet) /\ Len(s) = Len(a) /\ \A j \in 1..Len(a) : s[j] = FrameOf(a[j])
    BY <1>1
  <2>4. u = Tail(s)
    OBVIOUS
  <2> HIDE DEF b, u, v, s
  <2>5. u \in Seq(FrameSet) /\ Len(u) = Len(s) - 1 /\ \A j \in 1..Len(s) - 1 : u[j] = s[j + 1]
    BY <1>2, <2>3, <2>4
  <2>6. Len(b) = Len(a) - 1 /\ \A j \in 1..Len(a) - 1 : b[j] = a[j + 1]
    BY <1>2 DEF b
  <2>7. ASSUME NEW j \in 1..Len(u)
        PROVE  u[j] = v[j]
    <3>1. j \in 1..Len(s) - 1 /\ j + 1 \in 1..Len(a) /\ j \in 1..Len(b)
      BY <1>2, <2>3, <2>5, <2>6
    <3> QED
      BY <2>2, <2>3, <2>5, <2>6, <3>1
  <2>8. u = v
    BY <2>2, <2>3, <2>5, <2>6, <2>7, SeqEqual
  <2> QED
    BY <2>8 DEF u, v, b
<1>5. ASSUME NEW x \in Ats \ {<<>>}
      PROVE  <<FrameOf(x)>> \o FramesOf(a) = FramesOf(<<x>> \o a)
  <2> DEFINE b == <<x>> \o a
             s == FramesOf(a)
             u == <<FrameOf(x)>> \o s
             v == FramesOf(b)
  <2>1. b \in Stacks
    BY PushStack
  <2>2. /\ v \in Seq(FrameSet) /\ Len(v) = Len(b) /\ \A j \in 1..Len(b) : v[j] = FrameOf(b[j])
    BY <2>1, FramesType
  <2>3. s \in Seq(FrameSet) /\ Len(s) = Len(a) /\ \A j \in 1..Len(a) : s[j] = FrameOf(a[j])
    BY <1>1
  <2>4. Len(b) = Len(a) + 1 /\ b[1] = x /\ \A j \in 2..Len(a) + 1 : b[j] = a[j - 1]
    BY <1>2, PushFacts
  <2>5. FrameOf(x) \in FrameSet
    <3>1. v[1] = FrameOf(x) /\ v[1] \in FrameSet
      <4>1. 1 \in 1..Len(b)
        BY <1>2, <2>4
      <4>2. v[1] = FrameOf(b[1])
        BY <2>2, <4>1
      <4>3. v[1] \in FrameSet
        BY <2>2, <4>1, ElementOfSeq
      <4> QED
        BY <2>4, <4>2, <4>3
    <3> QED
      BY <3>1
  <2> HIDE DEF b, v, s
  <2>6. /\ u \in Seq(FrameSet) /\ Len(u) = Len(s) + 1 /\ u[1] = FrameOf(x)
        /\ \A j \in 2..Len(s) + 1 : u[j] = s[j - 1]
    BY <2>3, <2>5, PushFacts
  <2> HIDE DEF u
  <2>7. ASSUME NEW j \in 1..Len(u)
        PROVE  u[j] = v[j]
    <3>1. CASE j = 1
      <4>1. 1 \in 1..Len(b)
        BY <1>2, <2>4
      <4> QED
        BY <2>2, <2>4, <2>6, <3>1, <4>1
    <3>2. CASE j # 1
      <4>1. j \in 2..Len(s) + 1 /\ j - 1 \in 1..Len(a) /\ j \in 1..Len(b) /\ j \in 2..Len(a) + 1
        BY <1>2, <2>3, <2>4, <2>6, <3>2
      <4>2. u[j] = FrameOf(a[j - 1])
        BY <2>3, <2>6, <4>1
      <4>3. v[j] = FrameOf(a[j - 1])
        BY <2>2, <2>4, <4>1
      <4> QED
        BY <4>2, <4>3
    <3> QED
      BY <3>1, <3>2
  <2>8. Len(u) = Len(v)
    BY <2>2, <2>3, <2>4, <2>6
  <2>9. u = v
    BY <2>2, <2>6, <2>7, <2>8, SeqEqual
  <2> QED
    BY <2>9 DEF u, v, b, s
<1> QED
  BY <1>3, <1>4, <1>5

(* The field at the head of the connection, and how it nests.              *)
LEMMA NextField ==
    ASSUME Suffix, NEW st, Stacked(st), wire # <<>>
    PROVE  /\ Passed + 1 \in 1..Len(log) /\ Head(wire) = log[Passed + 1]
           /\ Nests(Head(wire), st[Passed], st[Passed + 1])
           /\ st[Passed] \in Stacks /\ st[Passed + 1] \in Stacks /\ st[Passed] # <<>>
<1>1. /\ Len(log) \in Nat /\ Len(wire) \in Nat /\ Len(wire) > 0 /\ Passed \in Nat
      /\ Head(wire) = wire[1]
  BY DEF Suffix
<1>2. Passed + 1 \in 1..Len(log) /\ Passed \in 0..Len(log) /\ Passed + 1 \in 0..Len(log)
  BY <1>1 DEF Passed
<1>3. wire[1] = log[Passed + 1]
  <2>1. 1 \in 1..Len(wire)
    BY <1>1
  <2> QED
    BY <2>1 DEF Suffix
<1>4. (Passed + 1) - 1 = Passed
  BY <1>1
<1>5. Nests(log[Passed + 1], st[Passed], st[Passed + 1])
  BY <1>2, <1>4 DEF Stacked
<1> QED
  BY <1>1, <1>2, <1>3, <1>5 DEF Stacked, Nests

-----------------------------------------------------------------------------
(* The peer sends one more field of the struct that it has open.           *)
LEMMA SendKeepsMessage ==
    ASSUME InMessage, begun, NEW t, Nests(t, open, open'), open' # open \/ open # <<>>,
           log' = Append(log, t), wire' = Append(wire, t),
           UNCHANGED <<own, begun>>, UNCHANGED reader
    PROVE  InMessage'
<1> PICK st : Stacked(st)
  BY DEF InMessage
<1>1. /\ Suffix /\ Phase /\ t \in Toks /\ open # <<>> /\ Len(log) \in Nat /\ Len(wire) \in Nat
      /\ log \in Seq(Toks) /\ wire \in Seq(Toks) /\ Passed \in Nat
  BY DEF InMessage, Suffix, Nests
<1>2. /\ log' \in Seq(Toks) /\ Len(log') = Len(log) + 1 /\ log'[Len(log) + 1] = t
      /\ \A i \in 1..Len(log) : log'[i] = log[i]
  BY <1>1, AppendProperties
<1>3. /\ wire' \in Seq(Toks) /\ Len(wire') = Len(wire) + 1 /\ wire'[Len(wire) + 1] = t
      /\ \A i \in 1..Len(wire) : wire'[i] = wire[i]
  BY <1>1, AppendProperties
<1>4. Passed' = Passed /\ Passed + Len(wire) = Len(log)
  BY <1>1, <1>2, <1>3 DEF Passed
<1>5. Suffix'
  <2>1. ASSUME NEW i \in 1..Len(wire')
        PROVE  wire'[i] = log'[Passed + i]
    <3>1. CASE i = Len(wire) + 1
      <4>1. Passed + i = Len(log) + 1
        BY <1>1, <1>4, <3>1
      <4> QED
        BY <1>2, <1>3, <3>1, <4>1
    <3>2. CASE i # Len(wire) + 1
      <4>1. i \in 1..Len(wire) /\ Passed + i \in 1..Len(log)
        BY <1>1, <1>3, <1>4, <3>2
      <4>2. wire[i] = log[Passed + i]
        BY <4>1 DEF Suffix, InMessage
      <4> QED
        BY <1>2, <1>3, <4>1, <4>2
    <3> QED
      BY <3>1, <3>2
  <2>2. \A i \in 1..Len(wire') : wire'[i] = log'[Passed' + i]
    BY <1>4, <2>1
  <2> QED
    BY <1>1, <1>2, <1>3, <1>4, <2>2 DEF Suffix
<1> DEFINE n == Len(log)
           su == [i \in 0..n + 1 |-> IF i = n + 1 THEN open' ELSE st[i]]
<1> PICK to : to = open'
  OBVIOUS
<1> PICK sv : sv = [i \in 0..n + 1 |-> IF i = n + 1 THEN to ELSE st[i]]
  OBVIOUS
<1>6. /\ st \in [0..n -> Stacks] /\ st[0] = << <<>> >> /\ st[n] = open
      /\ \A i \in 1..n : Nests(log[i], st[i - 1], st[i])
      /\ frames = FramesOf(st[Passed])
  BY <1>1 DEF Stacked
<1>7. to \in Stacks /\ sv[n + 1] = to /\ (\A i \in 0..n : sv[i] = st[i]) /\ sv \in [0..n + 1 -> Stacks]
  <2>1. open \in Stacks
    <3>1. n \in 0..n
      BY <1>1
    <3> QED
      BY <1>6, <3>1
  <2>2. to \in Stacks
    BY <2>1, NestsStack
  <2> QED
    BY <1>1, <1>6, <2>2
<1>8. ASSUME NEW i \in 1..n + 1
      PROVE  Nests(log'[i], sv[i - 1], sv[i])
  <2>1. CASE i = n + 1
    <3>1. sv[i - 1] = open /\ sv[i] = to /\ log'[i] = t
      BY <1>1, <1>2, <1>6, <1>7, <2>1
    <3> QED
      BY <3>1
  <2>2. CASE i # n + 1
    <3>1. i \in 1..n /\ i \in 0..n /\ i - 1 \in 0..n
      BY <1>1, <2>2
    <3>2. Nests(log[i], st[i - 1], st[i])
      BY <1>6, <3>1
    <3> QED
      BY <1>2, <1>7, <3>1, <3>2
  <2> QED
    BY <2>1, <2>2
<1>9. \E a : a = sv[Passed'] /\ frames' = FramesOf(a)'
  <2>1. Passed \in 0..n
    BY <1>1, <1>4
  <2>2. sv[Passed'] = st[Passed]
    BY <1>4, <1>7, <2>1
  <2> PICK a : a = st[Passed]
    OBVIOUS
  <2>3. FramesOf(a)' = FramesOf(a)
    BY DEF FramesOf, FrameOf, reader
  <2> QED
    BY <1>6, <2>2, <2>3 DEF reader
<1>10. Stacked(sv)'
  <2>1. sv[0] = << <<>> >>
    BY <1>1, <1>6, <1>7
  <2>2. sv \in [0..Len(log') -> Stacks]
    BY <1>2, <1>7
  <2>3. \A i \in 1..Len(log') : Nests(log'[i], sv[i - 1], sv[i])
    BY <1>2, <1>8
  <2>4. sv[Len(log')] = open'
    BY <1>2, <1>7
  <2> QED
    BY <1>9, <2>1, <2>2, <2>3, <2>4 DEF Stacked
<1>11. Phase'
  BY <1>1 DEF Phase, reader
<1> QED
  BY <1>5, <1>10, <1>11 DEF InMessage

(* A piece of a message that takes the stack from a to b, and the places   *)
(* of its fields.                                                          *)
Runs(w, a, b, places) ==
    /\ w \in Seq(Toks) /\ {w[i].at : i \in 1..Len(w)} = places
    /\ \E st \in [0..Len(w) -> Stacks] :
          /\ st[0] = a /\ st[Len(w)] = b
          /\ \A i \in 1..Len(w) : Nests(w[i], st[i - 1], st[i])

LEMMA OwnKeepsMessage ==
    ASSUME InMessage, ~begun, \E places : Runs(log', << <<>> >>, <<>>, places),
           wire' = wire \o log', begun' = TRUE, UNCHANGED open, UNCHANGED reader
    PROVE  InMessage'
<1>1. log = <<>> /\ open = <<>> /\ Phase /\ Suffix
  BY DEF InMessage, Phase
<1>2. wire = <<>> /\ Passed = 0
  <2>1. Len(log) = 0 /\ Len(wire) \in Nat /\ Passed \in Nat /\ wire \in Seq(Toks)
    BY <1>1 DEF Suffix
  <2>2. Len(wire) = 0
    BY <2>1 DEF Passed
  <2> QED
    BY <2>1, <2>2 DEF Passed
<1>3. wire' = log' /\ log' \in Seq(Toks)
  BY <1>2, ConcatEmptySeq DEF Runs
<1>4. Passed' = 0
  BY <1>3 DEF Passed
<1>5. Suffix'
  BY <1>3, <1>4 DEF Suffix
<1> PICK st : /\ st \in [0..Len(log') -> Stacks] /\ st[0] = << <<>> >> /\ st[Len(log')] = <<>>
              /\ \A i \in 1..Len(log') : Nests(log'[i], st[i - 1], st[i])
  BY DEF Runs
<1>6. \E a : a = st[Passed'] /\ frames' = FramesOf(a)'
  <2> PICK so : Stacked(so)
    BY DEF InMessage
  <2> PICK a : a = << <<>> >>
    OBVIOUS
  <2>1. frames = FramesOf(a)
    BY <1>2 DEF Stacked
  <2>2. st[Passed'] = a
    BY <1>4
  <2>3. FramesOf(a)' = FramesOf(a)
    BY DEF FramesOf, FrameOf, reader
  <2> QED
    BY <2>1, <2>2, <2>3 DEF reader
<1>7. Stacked(st)'
  BY <1>1, <1>6 DEF Stacked
<1>8. Phase'
  BY <1>1 DEF Phase, reader
<1> QED
  BY <1>5, <1>7, <1>8 DEF InMessage

(* The reader takes the field at the head of the connection.               *)
LEMMA TakeKeepsMessage ==
    ASSUME InMessage, NEW st, Stacked(st), wire # <<>>, wire' = Tail(wire),
           frames' = FramesOf(st[Passed + 1]),
           pc' \in {"reading", "done", "eof"}, (pc' = "done" <=> frames' = <<>>),
           UNCHANGED spec, UNCHANGED peer
    PROVE  InMessage' /\ Stacked(st)'
<1>1. /\ Len(log) \in Nat /\ Len(wire) \in Nat /\ Len(wire) > 0 /\ Passed \in Nat
      /\ log \in Seq(Toks) /\ wire \in Seq(Toks)
  BY DEF InMessage, Suffix
<1>2. wire' \in Seq(Toks) /\ Len(wire') = Len(wire) - 1 /\ \A i \in 1..Len(wire') : wire'[i] = wire[i + 1]
  BY <1>1, HeadTailProperties
<1>3. Passed' = Passed + 1 /\ log' = log
  BY <1>1, <1>2 DEF Passed, peer
<1>4. Suffix'
  <2>1. ASSUME NEW i \in 1..Len(wire')
        PROVE  wire'[i] = log[Passed + 1 + i]
    <3>1. i + 1 \in 1..Len(wire)
      BY <1>1, <1>2
    <3>2. wire[i + 1] = log[Passed + (i + 1)]
      BY <3>1 DEF InMessage, Suffix
    <3> QED
      BY <1>1, <1>2, <3>2
  <2> QED
    BY <1>1, <1>2, <1>3, <2>1 DEF Suffix
<1>5. Stacked(st)'
  <2> PICK a : a = st[Passed + 1]
    OBVIOUS
  <2>1. frames' = FramesOf(a)' /\ a = st[Passed']
    BY <1>3 DEF FramesOf, FrameOf
  <2> QED
    BY <1>3, <2>1 DEF Stacked, peer
<1>6. Phase'
  BY <1>3 DEF InMessage, Phase, peer
<1> QED
  BY <1>4, <1>5, <1>6 DEF InMessage

-----------------------------------------------------------------------------
(* What this program writes.  Fields that are written in order, each once  *)
(* and no more than n.                                                     *)
Listed(s, n) ==
    /\ ById(s) \in Seq(s) /\ Len(ById(s)) \in 0..n
    /\ {ById(s)[i] : i \in 1..Len(ById(s))} = s

(* A set of fields that some sequence has in the order of their numbers is *)
(* written like that.                                                      *)
LEMMA Ordered ==
    ASSUME NEW s, \A f \in s : f.id \in Nat, NEW n \in Nat, NEW q \in [1..n -> s],
           \A i, j \in 1..n : i < j => q[i].id < q[j].id,
           \A f \in s : \E i \in 1..n : q[i] = f, NEW m \in Nat, n <= m
    PROVE  Listed(s, m)
<1> DEFINE r == ById(s)
           N == 1..n
<1>1. IsFiniteSet(N) /\ Cardinality(N) = n
  BY FS_Interval
<1>2. \A i, j \in N : q[i] = q[j] => i = j
  <2> SUFFICES ASSUME NEW i \in N, NEW j \in N, q[i] = q[j], i # j
               PROVE  FALSE
    OBVIOUS
  <2>1. i < j \/ j < i
    OBVIOUS
  <2>2. q[i].id < q[j].id \/ q[j].id < q[i].id
    BY <2>1
  <2>3. q[i] \in s /\ q[i].id \in Nat
    OBVIOUS
  <2> QED
    BY <2>2, <2>3
<1>3. q \in Injection(N, s) /\ q \in Surjection(N, s)
  BY <1>2 DEF Injection, Surjection, IsInjective
<1>4. IsFiniteSet(s) /\ Cardinality(s) = n
  BY <1>1, <1>3, FS_Surjection
<1>5. r \in [N -> s] /\ \A i, j \in N : i < j => r[i].id < r[j].id
  BY <1>4 DEF ById
<1> HIDE DEF r
<1>6. \A i, j \in N : r[i] = r[j] => i = j
  <2> SUFFICES ASSUME NEW i \in N, NEW j \in N, r[i] = r[j], i # j
               PROVE  FALSE
    OBVIOUS
  <2>1. i < j \/ j < i
    OBVIOUS
  <2>2. r[i].id < r[j].id \/ r[j].id < r[i].id
    BY <1>5, <2>1
  <2>3. r[i] \in s /\ r[i].id \in Nat
    BY <1>5
  <2> QED
    BY <2>2, <2>3
<1>7. r \in Surjection(N, s)
  <2>1. r \in Injection(N, s)
    BY <1>5, <1>6 DEF Injection, IsInjective
  <2> QED
    BY <1>1, <1>4, <2>1, FS_Injection
<1>8. {r[i] : i \in N} = s
  BY <1>5, <1>7 DEF Surjection
<1>9. r \in Seq(s) /\ Len(r) = n
  BY <1>5
<1> QED
  BY <1>8, <1>9 DEF r, Listed

LEMMA ListedNone == Listed({}, 2)
<1> PICK q : q \in [1..0 -> {}]
  <2>1. [i \in 1..0 |-> 0] \in [1..0 -> {}]
    OBVIOUS
  <2> QED
    BY <2>1
<1>1. \A i, j \in 1..0 : i < j => q[i].id < q[j].id
  OBVIOUS
<1>2. \A e \in {} : e.id \in Nat /\ \E i \in 1..0 : q[i] = e
  OBVIOUS
<1>3. 0 \in Nat /\ 2 \in Nat /\ 0 <= 2
  OBVIOUS
<1> QED
  BY <1>1, <1>2, <1>3, Ordered

LEMMA ListedOne ==
    ASSUME NEW f, f.id \in Nat
    PROVE  Listed({f}, 2)
<1> PICK q : q = <<f>>
  OBVIOUS
<1>1. q \in [1..1 -> {f}] /\ q[1] = f
  OBVIOUS
<1>2. \A i, j \in 1..1 : i < j => q[i].id < q[j].id
  OBVIOUS
<1>3. \A e \in {f} : e.id \in Nat /\ \E i \in 1..1 : q[i] = e
  BY <1>1
<1>4. 1 \in Nat /\ 2 \in Nat /\ 1 <= 2
  OBVIOUS
<1> QED
  BY <1>1, <1>2, <1>3, <1>4, Ordered

LEMMA ListedTwo ==
    ASSUME NEW f, NEW g, f.id \in Nat, g.id \in Nat, f.id < g.id
    PROVE  Listed({f, g}, 2)
<1> PICK q : q = <<f, g>>
  OBVIOUS
<1>1. q \in [1..2 -> {f, g}] /\ q[1] = f /\ q[2] = g
  OBVIOUS
<1>2. \A i, j \in 1..2 : i < j => q[i].id < q[j].id
  BY <1>1
<1>3. \A e \in {f, g} : e.id \in Nat /\ \E i \in 1..2 : q[i] = e
  BY <1>1
<1>4. 2 \in Nat /\ 2 <= 2
  OBVIOUS
<1> QED
  BY <1>1, <1>2, <1>3, <1>4, Ordered

(* Of the parameters of a call, and of a struct in them, all are written,  *)
(* but a comment only if it is set; of a result, one or none.              *)
LEMMA WrittenListed ==
    ASSUME NEW set, NEW s \in Args \union Results
    PROVE  Listed(Written(s, set), 2)
<1>1. GoodTable(s)
  BY NestedTables
<1> DEFINE w == Written(s, set)
<1>2. CASE s \in Results
  <2>1. w \subseteq s /\ \A f, g \in w : f.id <= g.id
    BY <1>2 DEF Written
  <2> HIDE DEF w
  <2>2. CASE w = {}
    BY <2>2, ListedNone DEF w
  <2>3. CASE w # {}
    <3> PICK f \in w : TRUE
      BY <2>3
    <3>1. f.id \in Nat
      BY <1>1, <2>1 DEF GoodTable
    <3>2. ASSUME NEW g \in w
          PROVE  f = g
      <4>1. g.id \in Nat /\ f.id <= g.id /\ g.id <= f.id
        BY <1>1, <2>1 DEF GoodTable
      <4>2. f.id = g.id
        BY <3>1, <4>1
      <4> QED
        BY <1>1, <2>1, <4>2 DEF GoodTable
    <3>3. w = {f}
      BY <3>2
    <3> QED
      BY <3>1, <3>3, ListedOne DEF w
  <2> QED
    BY <2>2, <2>3
<1>3. CASE s \in Args /\ s \notin Results
  <2>1. \A f \in s : f.name # "comment"
    <3>1. CASE s = {}
      BY <3>1
    <3>2. CASE s = AddArgs
      BY <3>2 DEF AddArgs, I32
    <3>3. CASE s = CalculateArgs
      BY <3>3 DEF CalculateArgs, I32, Struct
    <3>4. CASE s = GetStructArgs
      BY <3>4 DEF GetStructArgs, I32
    <3> QED
      BY <1>3, <3>1, <3>2, <3>3, <3>4 DEF Args, PingArgs, ZipArgs
  <2>2. w = s
    BY <1>3, <2>1 DEF Written
  <2>3. Listed(s, 2)
    <3>1. CASE s = {}
      BY <3>1, ListedNone
    <3>2. CASE s = AddArgs
      <4>1. s = {I32(1, "num1"), I32(2, "num2")} /\ I32(1, "num1").id = 1 /\ I32(2, "num2").id = 2
        BY <3>2 DEF AddArgs, I32
      <4> QED
        BY <4>1, ListedTwo
    <3>3. CASE s = CalculateArgs
      <4>1. /\ s = {I32(1, "logid"), Struct(2, "w", Work)}
            /\ I32(1, "logid").id = 1 /\ Struct(2, "w", Work).id = 2
        BY <3>3 DEF CalculateArgs, I32, Struct
      <4> QED
        BY <4>1, ListedTwo
    <3>4. CASE s = GetStructArgs
      <4>1. s = {I32(1, "key")} /\ I32(1, "key").id = 1
        BY <3>4 DEF GetStructArgs, I32
      <4> QED
        BY <4>1, ListedOne
    <3> QED
      BY <1>3, <3>1, <3>2, <3>3, <3>4 DEF Args, PingArgs, ZipArgs
  <2> QED
    BY <2>2, <2>3
<1> QED
  BY <1>2, <1>3

LEMMA StructsAreNoResults ==
    ASSUME NEW s \in {Work, InvalidOperation, SharedStruct}
    PROVE  s \notin Results
<1>1. \A r \in Results : \E f \in r : f.name = "success"
  <2>1. \E f \in PingResult : f.name = "success"
    BY DEF PingResult, Text
  <2>2. \E f \in AddResult : f.name = "success"
    BY DEF AddResult, I32
  <2>3. \E f \in CalculateResult : f.name = "success"
    BY DEF CalculateResult, I32
  <2>4. \E f \in GetStructResult : f.name = "success"
    BY DEF GetStructResult, Struct
  <2> QED
    BY <2>1, <2>2, <2>3, <2>4 DEF Results
<1>2. \A f \in s : f.name # "success"
  <2>1. CASE s = Work
    BY <2>1 DEF Work, I32, Text
  <2>2. CASE s = InvalidOperation
    BY <2>2 DEF InvalidOperation, I32, Text
  <2>3. CASE s = SharedStruct
    BY <2>3 DEF SharedStruct, I32, Text
  <2> QED
    BY <2>1, <2>2, <2>3
<1> QED
  BY <1>1, <1>2

LEMMA ListedThree ==
    ASSUME NEW f, NEW g, NEW h, f.id = 1, g.id = 2, h.id = 3
    PROVE  Listed({f, g, h}, 4)
<1> PICK q : q = <<f, g, h>>
  OBVIOUS
<1>1. q \in [1..3 -> {f, g, h}] /\ q[1] = f /\ q[2] = g /\ q[3] = h
  OBVIOUS
<1>2. \A i \in 1..3 : q[i].id = i
  BY <1>1
<1>3. \A i, j \in 1..3 : i < j => q[i].id < q[j].id
  BY <1>2
<1>4. \A e \in {f, g, h} : e.id \in Nat /\ \E i \in 1..3 : q[i] = e
  BY <1>1
<1>5. 3 \in Nat /\ 4 \in Nat /\ 3 <= 4
  OBVIOUS
<1> QED
  BY <1>1, <1>3, <1>4, <1>5, Ordered

LEMMA ListedFour ==
    ASSUME NEW f, NEW g, NEW h, NEW k, f.id = 1, g.id = 2, h.id = 3, k.id = 4
    PROVE  Listed({f, g, h, k}, 4)
<1> PICK q : q = <<f, g, h, k>>
  OBVIOUS
<1>1. q \in [1..4 -> {f, g, h, k}] /\ q[1] = f /\ q[2] = g /\ q[3] = h /\ q[4] = k
  OBVIOUS
<1>2. \A i \in 1..4 : q[i].id = i
  BY <1>1
<1>3. \A i, j \in 1..4 : i < j => q[i].id < q[j].id
  BY <1>2
<1>4. \A e \in {f, g, h, k} : e.id \in Nat /\ \E i \in 1..4 : q[i] = e
  BY <1>1
<1>5. 4 \in Nat /\ 4 <= 4
  OBVIOUS
<1> QED
  BY <1>1, <1>3, <1>4, <1>5, Ordered

LEMMA StructsListed ==
    ASSUME NEW set, NEW s \in {Work, InvalidOperation, SharedStruct}
    PROVE  Listed(Written(s, set), 4)
<1>1. Written(s, set) = {f \in s : f.name = "comment" => f.name \in set}
  BY StructsAreNoResults DEF Written
<1>2. \A w : Listed(w, 2) => Listed(w, 4)
  BY DEF Listed
<1>3. CASE s = Work
  <2> DEFINE a == I32(1, "num1")
             b == I32(2, "num2")
             c == I32(3, "op")
             d == Text(4, "comment")
  <2>1. /\ a.id = 1 /\ b.id = 2 /\ c.id = 3 /\ d.id = 4 /\ s = {a, b, c, d}
        /\ a.name # "comment" /\ b.name # "comment" /\ c.name # "comment" /\ d.name = "comment"
    BY <1>3 DEF Work, I32, Text
  <2> HIDE DEF a, b, c, d
  <2>2. CASE "comment" \in set
    <3>1. Written(s, set) = {a, b, c, d}
      BY <1>1, <2>1, <2>2
    <3> QED
      BY <2>1, <3>1, ListedFour
  <2>3. CASE "comment" \notin set
    <3>1. Written(s, set) = {a, b, c}
      BY <1>1, <2>1, <2>3
    <3> QED
      BY <2>1, <3>1, ListedThree
  <2> QED
    BY <2>2, <2>3
<1>4. CASE s = InvalidOperation
  <2> DEFINE a == I32(1, "whatOp")
             b == Text(2, "why")
  <2>1. /\ a.id = 1 /\ b.id = 2 /\ s = {a, b} /\ a.name # "comment" /\ b.name # "comment"
    BY <1>4 DEF InvalidOperation, I32, Text
  <2> HIDE DEF a, b
  <2>2. Written(s, set) = {a, b}
    BY <1>1, <2>1
  <2> QED
    BY <1>2, <2>1, <2>2, ListedTwo
<1>5. CASE s = SharedStruct
  <2> DEFINE a == I32(1, "key")
             b == Text(2, "value")
  <2>1. /\ a.id = 1 /\ b.id = 2 /\ s = {a, b} /\ a.name # "comment" /\ b.name # "comment"
    BY <1>5 DEF SharedStruct, I32, Text
  <2> HIDE DEF a, b
  <2>2. Written(s, set) = {a, b}
    BY <1>1, <2>1
  <2> QED
    BY <1>2, <2>1, <2>2, ListedTwo
<1> QED
  BY <1>3, <1>4, <1>5

LEMMA RunsNone ==
    ASSUME NEW a \in Stacks
    PROVE  Runs(<<>>, a, a, {})
<1> PICK st : st = [i \in 0..0 |-> a]
  OBVIOUS
<1>1. st \in [0..0 -> Stacks] /\ st[0] = a
  OBVIOUS
<1>2. <<>> \in Seq(Toks) /\ Len(<<>>) = 0 /\ {<<>>[i].at : i \in 1..0} = {}
  OBVIOUS
<1> QED
  BY <1>1, <1>2 DEF Runs

LEMMA RunsOne ==
    ASSUME NEW a \in Stacks, NEW b, NEW t, Nests(t, a, b)
    PROVE  Runs(<<t>>, a, b, {t.at})
<1> PICK w : w = <<t>>
  OBVIOUS
<1> PICK st : st = [i \in 0..1 |-> IF i = 0 THEN a ELSE b]
  OBVIOUS
<1>1. t \in Toks /\ b \in Stacks
  BY NestsStack DEF Nests
<1>2. w \in Seq(Toks) /\ Len(w) = 1 /\ w[1] = t
  BY <1>1
<1>3. st \in [0..1 -> Stacks] /\ st[0] = a /\ st[1] = b
  BY <1>1
<1>4. {w[i].at : i \in 1..1} = {t.at}
  BY <1>2
<1>5. \A i \in 1..1 : Nests(w[i], st[i - 1], st[i])
  <2>1. 1 - 1 = 0
    OBVIOUS
  <2> QED
    BY <1>2, <1>3, <2>1
<1> QED
  BY <1>2, <1>3, <1>4, <1>5 DEF Runs

(* Pieces one behind the other.                                            *)
LEMMA RunsJoin ==
    ASSUME NEW u, NEW v, NEW a, NEW b, NEW c, NEW p, NEW q, Runs(u, a, b, p), Runs(v, b, c, q)
    PROVE  Runs(u \o v, a, c, p \union q)
<1> DEFINE m == Len(u)
           n == Len(v)
<1>1. u \in Seq(Toks) /\ v \in Seq(Toks) /\ m \in Nat /\ n \in Nat
  BY DEF Runs
<1> PICK w : w = u \o v
  OBVIOUS
<1>2. /\ w \in Seq(Toks) /\ Len(w) = m + n
      /\ \A i \in 1..m : w[i] = u[i]
      /\ \A i \in 1..n : w[m + i] = v[i]
  <2>1. /\ w \in Seq(Toks) /\ Len(w) = m + n
        /\ \A i \in 1..m + n : w[i] = IF i <= m THEN u[i] ELSE v[i - m]
    BY <1>1, ConcatProperties
  <2>2. ASSUME NEW i \in 1..m
        PROVE  w[i] = u[i]
    BY <1>1, <2>1
  <2>3. ASSUME NEW i \in 1..n
        PROVE  w[m + i] = v[i]
    <3>1. m + i \in 1..m + n /\ ~(m + i <= m) /\ (m + i) - m = i
      BY <1>1
    <3> QED
      BY <2>1, <3>1
  <2> QED
    BY <2>1, <2>2, <2>3
<1> PICK sa \in [0..m -> Stacks] : /\ sa[0] = a /\ sa[m] = b
                                   /\ \A i \in 1..m : Nests(u[i], sa[i - 1], sa[i])
  BY DEF Runs
<1> PICK sb \in [0..n -> Stacks] : /\ sb[0] = b /\ sb[n] = c
                                   /\ \A i \in 1..n : Nests(v[i], sb[i - 1], sb[i])
  BY DEF Runs
<1> PICK st : st = [i \in 0..m + n |-> IF i <= m THEN sa[i] ELSE sb[i - m]]
  OBVIOUS
<1>3. (\A i \in 0..m : st[i] = sa[i]) /\ (\A i \in 0..n : st[m + i] = sb[i])
  <2>1. ASSUME NEW i \in 0..m
        PROVE  st[i] = sa[i]
    BY <1>1
  <2>2. ASSUME NEW i \in 0..n
        PROVE  st[m + i] = sb[i]
    <3>1. CASE i = 0
      <4>1. st[m] = sa[m]
        BY <1>1, <2>1
      <4> QED
        BY <1>1, <3>1, <4>1
    <3>2. CASE i # 0
      <4>1. m + i \in 0..m + n /\ ~(m + i <= m) /\ (m + i) - m = i
        BY <1>1, <3>2
      <4> QED
        BY <4>1
    <3> QED
      BY <3>1, <3>2
  <2> QED
    BY <2>1, <2>2
<1>4. st \in [0..m + n -> Stacks]
  <2>1. ASSUME NEW i \in 0..m + n
        PROVE  (IF i <= m THEN sa[i] ELSE sb[i - m]) \in Stacks
    <3>1. CASE i <= m
      <4>1. i \in 0..m
        BY <1>1, <3>1
      <4> QED
        BY <3>1, <4>1
    <3>2. CASE ~(i <= m)
      <4>1. i - m \in 0..n
        BY <1>1, <3>2
      <4> QED
        BY <3>2, <4>1
    <3> QED
      BY <3>1, <3>2
  <2> QED
    BY <2>1
<1>5. st[0] = a /\ st[m + n] = c
  BY <1>1, <1>3
<1> HIDE DEF m, n
<1>6. ASSUME NEW i \in 1..m + n
      PROVE  Nests(w[i], st[i - 1], st[i])
  <2>1. CASE i <= m
    <3>1. i \in 1..m /\ i - 1 \in 0..m /\ i \in 0..m
      BY <1>1, <2>1
    <3>2. w[i] = u[i] /\ st[i - 1] = sa[i - 1] /\ st[i] = sa[i]
      BY <1>2, <1>3, <3>1
    <3>3. Nests(u[i], sa[i - 1], sa[i])
      BY <3>1
    <3> QED
      BY <3>2, <3>3
  <2>2. CASE ~(i <= m)
    <3> PICK k \in 1..n : i = m + k
      <4>1. i - m \in 1..n /\ i = m + (i - m)
        BY <1>1, <2>2
      <4> QED
        BY <4>1
    <3>1. k - 1 \in 0..n /\ k \in 0..n /\ i - 1 = m + (k - 1)
      BY <1>1
    <3>2. w[i] = v[k] /\ st[i] = sb[k]
      BY <1>2, <1>3, <3>1
    <3>3. st[i - 1] = sb[k - 1]
      BY <1>3, <3>1
    <3>4. Nests(v[k], sb[k - 1], sb[k])
      OBVIOUS
    <3> QED
      BY <3>2, <3>3, <3>4
  <2> QED
    BY <2>1, <2>2
<1>7. {w[i].at : i \in 1..m + n} = p \union q
  <2>1. {u[i].at : i \in 1..m} = p /\ {v[i].at : i \in 1..n} = q
    BY DEF Runs, m, n
  <2>2. ASSUME NEW i \in 1..m + n
        PROVE  (\E k \in 1..m : w[i] = u[k]) \/ (\E k \in 1..n : w[i] = v[k])
    <3>1. CASE i <= m
      <4>1. i \in 1..m
        BY <1>1, <3>1
      <4> QED
        BY <1>2, <4>1
    <3>2. CASE ~(i <= m)
      <4>1. i - m \in 1..n /\ m + (i - m) = i
        BY <1>1, <3>2
      <4> QED
        BY <1>2, <4>1
    <3> QED
      BY <3>1, <3>2
  <2>3. \A k \in 1..m : k \in 1..m + n /\ w[k] = u[k]
    BY <1>1, <1>2
  <2>4. \A k \in 1..n : m + k \in 1..m + n /\ w[m + k] = v[k]
    BY <1>1, <1>2
  <2>5. {w[i].at : i \in 1..m + n} \subseteq p \union q
    BY <2>1, <2>2
  <2>6. p \subseteq {w[i].at : i \in 1..m + n}
    BY <2>1, <2>3
  <2>7. q \subseteq {w[i].at : i \in 1..m + n}
    BY <2>1, <2>4
  <2> QED
    BY <2>5, <2>6, <2>7
<1> QED
  <2>1. Len(w) = m + n /\ w \in Seq(Toks)
    BY <1>2
  <2> QED
    BY <2>1, <1>4, <1>5, <1>6, <1>7 DEF Runs

(* The end of a struct.                                                    *)
LEMMA RunsStop ==
    ASSUME NEW u, NEW a, NEW b \in Stacks, b # <<>>, NEW p, Runs(u, a, b, p)
    PROVE  Runs(Append(u, Stop), a, Tail(b), p \union {<<>>})
<1>1. Stop \in Toks /\ Stop.at = <<>>
  BY DEF Stop, Toks, Ats
<1>2. Nests(Stop, b, Tail(b))
  BY <1>1 DEF Nests
<1>3. Runs(<<Stop>>, b, Tail(b), {<<>>})
  BY <1>1, <1>2, RunsOne
<1>4. Runs(u \o <<Stop>>, a, Tail(b), p \union {<<>>})
  BY <1>3, RunsJoin
<1>5. u \o <<Stop>> = Append(u, Stop)
  BY <1>1 DEF Runs
<1> QED
  BY <1>4, <1>5

(* The places in a struct of this program, of a field of a message and of  *)
(* a message.                                                              *)
StructPlaces(at, s, set) == {Here(at, g) : g \in Written(s, set)}

FieldPlaces(f, set) ==
    {Here(<<>>, f)} \union
    IF f.of = {} THEN {} ELSE StructPlaces(Here(<<>>, f), f.of, set) \union {<<>>}

PlacesOf(w, set) == UNION {FieldPlaces(f, set) : f \in w}

MessagePlaces(s, set) == PlacesOf(Written(s, set), set) \union {<<>>}

(* A struct in a message nests.                                            *)
LEMMA OwnStruct ==
    ASSUME NEW s \in {Work, InvalidOperation, SharedStruct}, NEW set,
           NEW a \in Stacks, a # <<>>, NEW at, at = Head(a)
    PROVE  Runs(FlatTokens(s, set, at), a, a, StructPlaces(at, s, set))
<1> DEFINE W == Written(s, set)
           fs == ById(W)
           n == Len(fs)
           w == FlatTokens(s, set, at)
<1>1. fs \in Seq(W) /\ n \in Nat /\ {fs[i] : i \in 1..n} = W
  <2>1. Listed(W, 4)
    BY StructsListed
  <2> HIDE DEF W
  <2> QED
    BY <2>1 DEF Listed
<1>2. \A f \in W : f \in s /\ f.id \in Nat /\ f.type \in Types /\ f.type # "struct"
  BY FlatTables DEF GoodTable, Flat, Written
<1>3. at \in Ats
  BY StackFacts
<1>4. w = [i \in 1..n |-> Token(fs[i], i, Append(at, <<fs[i].id, fs[i].type>>))]
  BY DEF FlatTokens
<1> HIDE DEF W, fs, n, w
<1>5. ASSUME NEW i \in 1..n
      PROVE  /\ w[i] \in Toks /\ w[i].at = Here(at, fs[i]) /\ Nests(w[i], a, a)
  <2> PICK f \in W : f = fs[i]
    BY <1>1
  <2> PICK t : t = w[i]
    OBVIOUS
  <2>1. /\ t = [id |-> f.id, type |-> f.type, val |-> i, at |-> Here(at, f)]
        /\ Here(at, f) \in Ats
    BY <1>2, <1>3, <1>4, HereFacts DEF Token, Here
  <2>2. t.id = f.id /\ t.type = f.type /\ t.at = Here(at, f) /\ t \in Toks
    BY <1>1, <1>2, <2>1 DEF Toks
  <2>3. Nests(t, a, a)
    BY <1>2, <2>2 DEF Nests, Here
  <2> QED
    BY <2>2, <2>3
<1>6. w \in Seq(Toks) /\ Len(w) = n
  BY <1>1, <1>4, <1>5
<1>7. {w[i].at : i \in 1..n} = {Here(at, g) : g \in W}
  <2>1. {w[i].at : i \in 1..n} \subseteq {Here(at, g) : g \in W}
    BY <1>1, <1>5
  <2>2. ASSUME NEW g \in W
        PROVE  Here(at, g) \in {w[i].at : i \in 1..n}
    <3> PICK i \in 1..n : g = fs[i]
      BY <1>1
    <3> QED
      BY <1>5
  <2> QED
    BY <2>1, <2>2
<1> PICK st : st = [i \in 0..n |-> a]
  OBVIOUS
<1>8. /\ st \in [0..n -> Stacks] /\ st[0] = a /\ st[n] = a
      /\ \A i \in 1..n : Nests(w[i], st[i - 1], st[i])
  <2>1. \A i \in 0..n : st[i] = a
    OBVIOUS
  <2>2. \A i \in 1..n : i \in 0..n /\ i - 1 \in 0..n
    BY <1>1
  <2> QED
    BY <1>1, <1>5, <2>1, <2>2
<1> QED
  BY <1>6, <1>7, <1>8 DEF Runs, W, w, StructPlaces

Bottom == << <<>> >>

LEMMA BottomStack ==
    Bottom \in Stacks /\ Bottom # <<>> /\ Head(Bottom) = <<>> /\ Tail(Bottom) = <<>> /\ <<>> \in Ats
<1>1. <<>> \in Ats
  BY DEF Ats
<1>2. Bottom \in Seq(Ats) /\ Len(Bottom) = 1 /\ Bottom[1] = <<>>
  BY <1>1 DEF Bottom
<1> QED
  BY <1>1, <1>2 DEF Stacks, Bottom

LEMMA OwnField ==
    ASSUME NEW s \in Args \union Results, NEW f \in s, NEW set
    PROVE  Runs(FieldTokens(f, set, <<>>), Bottom, Bottom, FieldPlaces(f, set))
<1> PICK here : here = Here(<<>>, f)
  OBVIOUS
<1> PICK t : t = Token(f, f.id, here)
  OBVIOUS
<1>1. /\ f.id \in Nat /\ f.type \in Types /\ (f.type = "struct" <=> f.of # {})
      /\ f.of \in {{}, Work, InvalidOperation, SharedStruct}
  BY NestedTables DEF GoodTable
<1>2. here \in Ats /\ here # <<>>
  BY <1>1, HereFacts, BottomStack
<1>3. /\ t = [id |-> f.id, type |-> f.type, val |-> IF f.type = "struct" THEN 0 ELSE f.id, at |-> here]
      /\ t \in Toks /\ t.at = here /\ t.id = f.id /\ t.type = f.type
      /\ t.type = "struct" => t.val = 0
  <2>1. t = [id |-> f.id, type |-> f.type, val |-> IF f.type = "struct" THEN 0 ELSE f.id, at |-> here]
    BY DEF Token
  <2> QED
    BY <1>1, <1>2, <2>1 DEF Toks
<1>4. t.at = Here(Head(Bottom), t)
  BY <1>3, BottomStack DEF Here
<1>5. CASE f.of = {}
  <2>1. Nests(t, Bottom, Bottom)
    BY <1>1, <1>3, <1>4, <1>5, BottomStack DEF Nests
  <2>2. Runs(<<t>>, Bottom, Bottom, {here})
    BY <1>3, <2>1, BottomStack, RunsOne
  <2>3. FieldTokens(f, set, <<>>) = <<t>>
    <3>1. FieldTokens(f, set, <<>>) = <<t>> \o <<>>
      BY <1>5 DEF FieldTokens, Here
    <3>2. <<t>> \o <<>> = <<t>>
      BY <1>3
    <3> QED
      BY <3>1, <3>2
  <2>4. FieldPlaces(f, set) = {here}
    BY <1>5 DEF FieldPlaces
  <2> QED
    BY <2>2, <2>3, <2>4
<1>6. CASE f.of # {}
  <2> PICK a : a = <<here>> \o Bottom
    OBVIOUS
  <2> PICK inner : inner = FlatTokens(f.of, set, here)
    OBVIOUS
  <2>1. a \in Stacks /\ a # <<>> /\ Head(a) = here /\ Tail(a) = Bottom
    <3>1. a \in Seq(Ats) /\ Len(a) = 2 /\ a[1] = here /\ a[2] = <<>>
      <4>1. Bottom \in Seq(Ats) /\ Len(Bottom) = 1 /\ Bottom[1] = <<>>
        BY BottomStack DEF Bottom
      <4>2. /\ <<here>> \o Bottom \in Seq(Ats) /\ Len(<<here>> \o Bottom) = Len(Bottom) + 1
            /\ (<<here>> \o Bottom)[1] = here
            /\ \A j \in 2..Len(Bottom) + 1 : (<<here>> \o Bottom)[j] = Bottom[j - 1]
        BY <1>2, <4>1, PushFacts
      <4> QED
        BY <4>1, <4>2
    <3>2. a \in Stacks
      BY <1>2, BottomStack, PushStack
    <3>3. Tail(a) \in Seq(Ats) /\ Len(Tail(a)) = 1 /\ Tail(a)[1] = <<>>
      BY <3>1
    <3>4. Tail(a) = Bottom
      <4>1. Bottom \in Seq(Ats) /\ Len(Bottom) = 1 /\ Bottom[1] = <<>>
        BY BottomStack DEF Bottom
      <4>2. \A i \in 1..Len(Bottom) : Tail(a)[i] = Bottom[i]
        BY <3>3, <4>1
      <4> QED
        BY <3>3, <4>1, <4>2, SeqEqual
    <3>5. a # <<>> /\ Head(a) = a[1]
      <4>1. Len(a) # 0
        BY <3>1
      <4> QED
        BY <3>1, <4>1, EmptySeq
    <3> QED
      BY <3>1, <3>2, <3>4, <3>5
  <2>2. Nests(t, Bottom, a)
    BY <1>1, <1>3, <1>4, <1>6, BottomStack DEF Nests
  <2>3. Runs(<<t>>, Bottom, a, {here})
    BY <1>3, <2>2, BottomStack, RunsOne
  <2> PICK p : p = StructPlaces(here, f.of, set)
    OBVIOUS
  <2>4. Runs(inner, a, a, p)
    <3>1. f.of \in {Work, InvalidOperation, SharedStruct}
      BY <1>1, <1>6
    <3> QED
      BY <2>1, <3>1, OwnStruct
  <2>5. Runs(Append(inner, Stop), a, Bottom, p \union {<<>>})
    <3>1. Runs(Append(inner, Stop), a, Tail(a), p \union {<<>>})
      BY <2>1, <2>4, RunsStop, Zenon
    <3> QED
      BY <2>1, <3>1
  <2>6. FieldTokens(f, set, <<>>) = <<t>> \o Append(inner, Stop)
    BY <1>6 DEF FieldTokens, Here
  <2>7. FieldPlaces(f, set) = {here} \union (p \union {<<>>})
    BY <1>6 DEF FieldPlaces
  <2> QED
    <3>1. Runs(<<t>> \o Append(inner, Stop), Bottom, Bottom, {here} \union (p \union {<<>>}))
      BY <2>3, <2>5, RunsJoin, Zenon
    <3> QED
      BY <2>6, <2>7, <3>1
<1> QED
  BY <1>5, <1>6

(* The pieces of a message with at most two fields.                        *)
LEMMA FlattenNone == ASSUME NEW u, u = <<>> PROVE FlattenSeq(u) = <<>>
  BY DEF FlattenSeq

LEMMA FlattenOne ==
    ASSUME NEW u, NEW x, u = <<x>>
    PROVE  FlattenSeq(u) = x
<1> DEFINE IsFlat(f) == f = [i \in 1..1 |-> IF i = 1 THEN u[i] ELSE f[i - 1] \o u[i]]
           f == CHOOSE f : IsFlat(f)
<1>1. Len(u) = 1 /\ u[1] = x
  OBVIOUS
<1>2. IsFlat([i \in 1..1 |-> x])
  BY <1>1
<1>3. IsFlat(f)
  BY <1>2
<1>4. FlattenSeq(u) = f[1]
  BY <1>1 DEF FlattenSeq
<1> HIDE DEF f
<1>5. f[1] = x
  BY <1>1, <1>3
<1> QED
  BY <1>4, <1>5

LEMMA FlattenTwo ==
    ASSUME NEW u, NEW x, NEW y, u = <<x, y>>
    PROVE  FlattenSeq(u) = x \o y
<1> DEFINE IsFlat(f) == f = [i \in 1..2 |-> IF i = 1 THEN u[i] ELSE f[i - 1] \o u[i]]
           f == CHOOSE f : IsFlat(f)
<1>1. Len(u) = 2 /\ u[1] = x /\ u[2] = y
  OBVIOUS
<1>2. IsFlat([i \in 1..2 |-> IF i = 1 THEN x ELSE x \o y])
  BY <1>1
<1>3. IsFlat(f)
  BY <1>2
<1>4. FlattenSeq(u) = f[2]
  BY <1>1 DEF FlattenSeq
<1> HIDE DEF f
<1>5. f[1] = x
  BY <1>1, <1>3
<1>6. f[2] = f[1] \o y
  <2>1. f[2] = f[2 - 1] \o u[2]
    <3>1. 2 \in 1..2 /\ 2 # 1
      OBVIOUS
    <3>2. \A i \in 1..2 : f[i] = IF i = 1 THEN u[i] ELSE f[i - 1] \o u[i]
      BY <1>3, Zenon
    <3> QED
      BY <3>1, <3>2, Zenon
  <2>2. 2 - 1 = 1
    OBVIOUS
  <2> QED
    BY <1>1, <2>1, <2>2
<1> QED
  BY <1>4, <1>5, <1>6

(* A message of this program nests and closes what it opens.               *)
LEMMA OwnMessage ==
    ASSUME NEW s \in Args \union Results, NEW set
    PROVE  Runs(Append(Tokens(s, set), Stop), Bottom, <<>>, MessagePlaces(s, set))
<1> DEFINE W == Written(s, set)
           fs == ById(W)
           n == Len(fs)
           u == [i \in 1..n |-> FieldTokens(fs[i], set, <<>>)]
           all == PlacesOf(W, set)
<1>1. fs \in Seq(W) /\ n \in 0..2 /\ {fs[i] : i \in 1..n} = W
  <2>1. Listed(W, 2)
    BY WrittenListed
  <2> HIDE DEF W
  <2> QED
    BY <2>1 DEF Listed
<1>2. Tokens(s, set) = FlattenSeq(u)
  BY DEF Tokens
<1>3. W \subseteq s
  BY DEF Written
<1> HIDE DEF W, fs, n
<1>4. Runs(FlattenSeq(u), Bottom, Bottom, all)
  <2>1. CASE n = 0
    <3>1. u = <<>> /\ W = {}
      BY <1>1, <2>1
    <3>2. FlattenSeq(u) = <<>> /\ all = {}
      BY <3>1, FlattenNone DEF PlacesOf
    <3> QED
      BY <3>2, BottomStack, RunsNone
  <2>2. CASE n = 1
    <3> PICK f \in W : f = fs[1]
      BY <1>1, <2>2
    <3>1. u = <<FieldTokens(f, set, <<>>)>> /\ W = {f}
      BY <1>1, <2>2
    <3>2. FlattenSeq(u) = FieldTokens(f, set, <<>>) /\ all = FieldPlaces(f, set)
      BY <3>1, FlattenOne DEF PlacesOf
    <3> QED
      BY <1>3, <3>2, OwnField
  <2>3. CASE n = 2
    <3> PICK f \in W, g \in W : f = fs[1] /\ g = fs[2]
      BY <1>1, <2>3
    <3> PICK x, y : x = FieldTokens(f, set, <<>>) /\ y = FieldTokens(g, set, <<>>)
      OBVIOUS
    <3>1. u = <<x, y>> /\ W = {f, g}
      BY <1>1, <2>3
    <3>2. FlattenSeq(u) = x \o y
      <4> HIDE DEF u
      <4> QED
        BY <3>1, FlattenTwo
    <3>4. all = FieldPlaces(f, set) \union FieldPlaces(g, set)
      BY <3>1 DEF PlacesOf
    <3>3. Runs(x, Bottom, Bottom, FieldPlaces(f, set)) /\ Runs(y, Bottom, Bottom, FieldPlaces(g, set))
      BY <1>3, OwnField
    <3>5. Runs(x \o y, Bottom, Bottom, FieldPlaces(f, set) \union FieldPlaces(g, set))
      BY <3>3, RunsJoin, Zenon
    <3> HIDE DEF u
    <3> QED
      BY <3>2, <3>4, <3>5
  <2> QED
    BY <1>1, <2>1, <2>2, <2>3
<1>5. Runs(Append(FlattenSeq(u), Stop), Bottom, Tail(Bottom), all \union {<<>>})
  BY <1>4, BottomStack, RunsStop, Zenon
<1>6. MessagePlaces(s, set) = all \union {<<>>}
  BY DEF MessagePlaces, W
<1> QED
  BY <1>2, <1>5, <1>6, BottomStack

-----------------------------------------------------------------------------
(* A round of the loop for a field: it goes where its names say.           *)
Goes(t, path) ==
    \/ path = Skipped /\ Names(t.at) = {}
    \/ path[1] # "skip" /\ Names(t.at) = {path}

LEMMA FieldRead ==
    ASSUME InMessage, NEW st, Stacked(st), ReadField
    PROVE  /\ Head(wire).type \in Types
           /\ frames' = FramesOf(st[Passed + 1]) /\ frames' # <<>>
           /\ \E path : /\ Goes(Head(wire), path)
                        /\ IF Head(wire).type = "struct"
                           THEN got' = got /\ \E of : frames' = <<Frame(of, path)>> \o frames
                           ELSE got' = Store(path, Head(wire).val) /\ frames' = frames
<1> PICK t : t = Head(wire)
  OBVIOUS
<1> PICK a, b : a = st[Passed] /\ b = st[Passed + 1]
  OBVIOUS
<1>1. /\ Nests(t, a, b) /\ a \in Stacks /\ b \in Stacks /\ a # <<>> /\ wire # <<>>
      /\ t.type # "stop" /\ frames = FramesOf(a) /\ spec \in Args \union Results
  BY NextField DEF InMessage, ReadField, Stacked, Phase
<1>2. /\ t.type \in Types /\ t.id \in Nat /\ t.at = Here(Head(a), t) /\ Head(a) \in Ats
      /\ t.at \in Ats \ {<<>>} /\ b = IF t.type = "struct" THEN <<t.at>> \o a ELSE a
  BY <1>1, NestsStack
<1> DEFINE match == Known(FrameOf(Head(a)).of, t)
           path == PathOf(FrameOf(Head(a)), match)
           of == UNION {f.of : f \in match}
<1>3. /\ (path = Skipped /\ Names(t.at) = {}) \/ (path[1] # "skip" /\ Names(t.at) = {path})
      /\ t.type = "struct" => Frame(of, path) = FrameOf(t.at)
  BY <1>1, <1>2, FieldIsNamed
<1>4. Head(frames) = FrameOf(Head(a))
  BY <1>1, FramesFollow
<1>5. IF t.type = "struct"
      THEN frames' = <<Frame(of, path)>> \o frames /\ UNCHANGED got
      ELSE got' = Store(path, t.val) /\ UNCHANGED frames
  BY <1>4 DEF ReadField, Opened
<1> HIDE DEF match, path, of
<1>6. Goes(t, path)
  BY <1>3 DEF Goes
<1>7. frames' = FramesOf(b) /\ b # <<>>
  <2>1. CASE t.type = "struct"
    <3>1. b = <<t.at>> \o a /\ b # <<>>
      <4>1. Len(b) = Len(a) + 1 /\ Len(a) \in Nat
        BY <1>2, <2>1, PushFacts, StackFacts, <1>1
      <4> QED
        BY <1>2, <2>1, <4>1
    <3>2. FramesOf(b) = <<FrameOf(t.at)>> \o FramesOf(a)
      BY <1>1, <1>2, <3>1, FramesFollow
    <3> QED
      BY <1>1, <1>3, <1>5, <2>1, <3>1, <3>2
  <2>2. CASE t.type # "struct"
    BY <1>1, <1>2, <1>5, <2>2
  <2> QED
    BY <2>1, <2>2
<1>8. frames' # <<>>
  BY <1>1, <1>7, FramesType
<1>9. IF t.type = "struct"
      THEN got' = got /\ \E o : frames' = <<Frame(o, path)>> \o frames
      ELSE got' = Store(path, t.val) /\ frames' = frames
  BY <1>5
<1> QED
  BY <1>2, <1>6, <1>7, <1>8, <1>9

(* T_STOP ends the struct that was opened last.                            *)
LEMMA StopRead ==
    ASSUME InMessage, NEW st, Stacked(st), ReadStop
    PROVE  Head(wire) = Stop /\ frames' = FramesOf(st[Passed + 1])
<1> PICK t : t = Head(wire)
  OBVIOUS
<1> PICK a, b : a = st[Passed] /\ b = st[Passed + 1]
  OBVIOUS
<1>1. /\ Nests(t, a, b) /\ a \in Stacks /\ a # <<>> /\ t.type = "stop" /\ frames = FramesOf(a)
      /\ frames' = Tail(frames)
  BY NextField DEF InMessage, ReadStop, Stacked, Closed
<1>2. t = Stop /\ b = Tail(a)
  BY <1>1, NestsStack
<1> QED
  BY <1>1, <1>2, FramesFollow

(* A field as it is sent.                                                  *)
LEMMA TokenFacts ==
    ASSUME NEW f, f.id \in Nat, f.type \in Types, NEW v \in Nat, NEW at \in Ats, NEW t,
           t = Token(f, v, at)
    PROVE  /\ t \in Toks /\ t.id = f.id /\ t.type = f.type /\ t.at = at
           /\ t.type = "struct" => t.val = 0
<1> PICK w : w = IF f.type = "struct" THEN 0 ELSE v
  OBVIOUS
<1>1. t = [id |-> f.id, type |-> f.type, val |-> w, at |-> at] /\ w \in Nat
  BY DEF Token
<1>2. t.id = f.id /\ t.type = f.type /\ t.at = at /\ t.val = w
  BY <1>1
<1> QED
  BY <1>1, <1>2 DEF Toks

LEMMA TokenNests ==
    ASSUME NEW f, f.id \in Nat, f.type \in Types, NEW v \in Nat, NEW a \in Stacks, a # <<>>,
           NEW at, at = Here(Head(a), f), NEW t, t = Token(f, v, at)
    PROVE  Nests(t, a, IF f.type = "struct" THEN <<at>> \o a ELSE a)
<1>1. at \in Ats
  BY StackFacts, HereFacts
<1>2. t \in Toks /\ t.id = f.id /\ t.type = f.type /\ t.at = at /\ (t.type = "struct" => t.val = 0)
  BY <1>1, TokenFacts
<1> QED
  BY <1>2 DEF Nests, Here

LEMMA InMessageFirst == Init => InMessage
<1> SUFFICES ASSUME Init PROVE InMessage
  OBVIOUS
<1> USE DEF Init
<1>1. Len(log) = 0 /\ Len(wire) = 0 /\ Passed = 0
  BY DEF Passed
<1>2. Suffix
  BY <1>1 DEF Suffix
<1>3. FramesOf(Bottom) = frames /\ frames # <<>>
  <2>1. FrameOf(<<>>) = Frame(spec, <<>>)
    BY DEF FrameOf
  <2>2. Len(Bottom) = 1 /\ Bottom[1] = <<>>
    BY DEF Bottom
  <2>3. FramesOf(Bottom) = [j \in 1..1 |-> Frame(spec, <<>>)]
    BY <2>1, <2>2 DEF FramesOf
  <2> QED
    BY <2>3
<1> PICK st : st = [i \in 0..0 |-> Bottom]
  OBVIOUS
<1>4. st \in [0..0 -> Stacks] /\ st[0] = Bottom
  BY BottomStack
<1>5. Stacked(st)
  BY <1>1, <1>3, <1>4 DEF Stacked, Bottom
<1>6. Phase
  BY <1>3 DEF Phase
<1> QED
  BY <1>2, <1>5, <1>6 DEF InMessage

LEMMA InMessageKept == InMessage /\ [Next]_vars => InMessage'
<1> SUFFICES ASSUME InMessage, [Next]_vars PROVE InMessage'
  OBVIOUS
<1>0. Phase /\ Suffix /\ \E st : Stacked(st)
  BY DEF InMessage
<1>1. CASE UNCHANGED vars
  <2> PICK st : Stacked(st)
    BY <1>0
  <2>1. Suffix' /\ Phase' /\ Passed' = Passed
    BY <1>0, <1>1 DEF Suffix, Phase, Passed, vars
  <2>2. Stacked(st)'
    <3> PICK a : a = st[Passed]
      OBVIOUS
    <3>1. frames' = FramesOf(a)'
      BY <1>1 DEF Stacked, FramesOf, FrameOf, vars
    <3> QED
      BY <1>1, <2>1, <3>1 DEF Stacked, vars
  <2> QED
    BY <2>1, <2>2 DEF InMessage
<1>2. CASE \E set \in SUBSET {"success", "ouch", "comment"} : SendOwn(set)
  <2> PICK set : SendOwn(set)
    BY <1>2
  <2>1. Runs(log', Bottom, <<>>, MessagePlaces(spec, set))
    BY <1>0, OwnMessage DEF SendOwn, Phase
  <2> QED
    BY <2>1, OwnKeepsMessage DEF SendOwn, Bottom
<1>3. CASE SendBegin
  <2> PICK st : Stacked(st)
    BY <1>0
  <2>1. Suffix' /\ Phase' /\ Passed' = Passed /\ log = <<>> /\ ~begun
    BY <1>0, <1>3 DEF Suffix, Phase, Passed, SendBegin, reader
  <2>2. Stacked(st)'
    <3> PICK a : a = st[Passed]
      OBVIOUS
    <3>1. frames' = FramesOf(a)'
      BY <1>3 DEF Stacked, FramesOf, FrameOf, SendBegin, reader
    <3> QED
      BY <1>3, <2>1, <3>1 DEF Stacked, SendBegin
  <2> QED
    BY <2>1, <2>2 DEF InMessage
<1>4. ASSUME NEW x \in Ids, NEW y \in {"i32", "string", "struct"}, SendField(x, y)
      PROVE  InMessage'
  <2> PICK st : Stacked(st)
    BY <1>0
  <2> DEFINE f == [id |-> x, type |-> y]
             at == Append(Head(open), <<x, y>>)
             t == Token(f, Len(log) + 1, at)
  <2>1. begun /\ open \in Stacks /\ open # <<>> /\ Len(log) + 1 \in Nat
    <3>1. Len(log) \in Nat /\ begun /\ open # <<>>
      BY <1>0, <1>4 DEF Phase, SendField, Suffix
    <3> QED
      BY <3>1 DEF Stacked
  <2>2. f.id = x /\ f.type = y /\ x \in Nat /\ y \in Types
    BY WireAssumption DEF Types
  <2>3. log' = Append(log, t) /\ wire' = Append(wire, t)
    BY <1>4 DEF SendField
  <2>4. open' = IF y = "struct" THEN <<at>> \o open ELSE open
    BY <1>4 DEF SendField
  <2>5. at = Here(Head(open), f)
    BY <2>2 DEF Here
  <2> HIDE DEF f, at
  <2>6. Nests(t, open, open')
    BY <2>1, <2>2, <2>4, <2>5, TokenNests
  <2> HIDE DEF t
  <2> QED
    BY <1>4, <2>1, <2>3, <2>6, SendKeepsMessage DEF SendField
<1>5. CASE SendStop
  <2> PICK st : Stacked(st)
    BY <1>0
  <2>1. begun /\ open # <<>>
    BY <1>0, <1>5 DEF Phase, SendStop
  <2>2. Stop \in Toks
    BY BottomStack DEF Stop, Toks
  <2>3. Nests(Stop, open, open')
    BY <1>5, <2>1, <2>2 DEF Nests, SendStop
  <2> QED
    BY <1>5, <2>1, <2>3, SendKeepsMessage DEF SendStop
<1>6. CASE Close \/ ReadEof
  <2> PICK st : Stacked(st)
    BY <1>0
  <2>1. /\ UNCHANGED <<wire, log, own, open, begun, spec, frames>>
        /\ pc' \in {"reading", "done", "eof"} /\ (pc' = "done" <=> pc = "done")
    BY <1>0, <1>6 DEF Phase, Close, ReadEof, reader, peer
  <2>2. Suffix' /\ Phase' /\ Passed' = Passed
    BY <1>0, <2>1 DEF Suffix, Phase, Passed
  <2>3. Stacked(st)'
    <3> PICK a : a = st[Passed]
      OBVIOUS
    <3>1. frames' = FramesOf(a)'
      BY <2>1 DEF Stacked, FramesOf, FrameOf
    <3> QED
      BY <2>1, <2>2, <3>1 DEF Stacked
  <2> QED
    BY <2>2, <2>3 DEF InMessage
<1>7. CASE ReadField
  <2> PICK st : Stacked(st)
    BY <1>0
  <2>1. frames' = FramesOf(st[Passed + 1]) /\ frames' # <<>>
    BY <1>7, FieldRead
  <2> QED
    BY <1>7, <2>1, TakeKeepsMessage DEF ReadField
<1>8. CASE ReadStop
  <2> PICK st : Stacked(st)
    BY <1>0
  <2>1. frames' = FramesOf(st[Passed + 1])
    BY <1>8, StopRead
  <2>2. pc' \in {"reading", "done", "eof"} /\ (pc' = "done" <=> frames' = <<>>)
    BY <1>8 DEF ReadStop
  <2> QED
    BY <1>8, <2>1, <2>2, TakeKeepsMessage DEF ReadStop
<1> QED
  BY <1>1, <1>2, <1>3, <1>4, <1>5, <1>6, <1>7, <1>8 DEF Next

-----------------------------------------------------------------------------
(* What the reader has stored of the fields it has taken.                  *)
Named(p, i) == \E at : at = log[i].at /\ p \in Names(at)

Latest(p, i, k) == i \in 1..k /\ Named(p, i) /\ \A j \in i + 1..k : ~Named(p, j)

Paths == {frames[j].path : j \in 1..Len(frames)}

Stored ==
    /\ got = [p \in DOMAIN got |-> got[p]]
    /\ \A p \in DOMAIN got :
          /\ got[p] \in Nat /\ \E i \in 1..Passed : Named(p, i)
          /\ \A i \in 1..Passed : Latest(p, i, Passed) => got[p] = log[i].val
    /\ \A i \in 1..Passed : \A p : Named(p, i) => p \in DOMAIN got \union Paths
    /\ \A x \in Paths : \/ x \in {<<>>, Skipped}
                        \/ \E i \in 1..Passed : Named(x, i) /\ log[i].type = "struct"

(* A name is a path that does not begin with "skip".                       *)
LEMMA NamesProper ==
    ASSUME spec \in Args \union Results, NEW a \in Ats, NEW p \in Names(a)
    PROVE  p # <<>> /\ p[1] # "skip" /\ p # Skipped
<1>1. GoodTable(spec)
  BY NestedTables
<1>2. CASE Len(a) = 1
  <2> PICK f \in Hits(spec, a[1]) : p = <<f.name>>
    BY <1>2, AtsShort, NamesOuter
  <2> QED
    BY <1>1 DEF Hits, GoodTable, Skipped
<1>3. CASE Len(a) = 2
  <2> PICK f \in Hits(spec, a[1]) : \E g \in Hits(f.of, a[2]) : p = <<f.name, g.name>>
    BY <1>3, AtsShort, NamesInner
  <2> QED
    BY <1>1 DEF Hits, GoodTable, Skipped
<1> QED
  BY <1>2, <1>3, NamesDeep

(* Fields of one name have one type, and those of structs the value 0.     *)
LEMMA NamedAlike ==
    ASSUME InMessage, NEW p, NEW i \in 1..Len(log), Named(p, i)
    PROVE  /\ log[i] \in Toks /\ log[i].at \in Ats /\ log[i].val \in Nat
           /\ p # <<>> /\ p[1] # "skip" /\ p # Skipped
           /\ log[i].type = "struct" => log[i].val = 0
           /\ \A j \in 1..Len(log) : Named(p, j) => log[j].type = log[i].type
<1> PICK st : Stacked(st)
  BY DEF InMessage
<1>1. spec \in Args \union Results /\ Len(log) \in Nat
  BY DEF InMessage, Phase, Suffix
<1>2. ASSUME NEW j \in 1..Len(log), Named(p, j)
      PROVE  /\ log[j] \in Toks /\ log[j].at \in Ats /\ log[j].val \in Nat
             /\ log[j].at[Len(log[j].at)][2] = log[j].type
             /\ log[j].type = "struct" => log[j].val = 0
  <2>1. Nests(log[j], st[j - 1], st[j]) /\ st[j - 1] \in Stacks
    <3>1. j - 1 \in 0..Len(log)
      BY <1>1
    <3> QED
      BY <3>1 DEF Stacked
  <2>2. log[j] \in Toks /\ log[j].at \in Ats /\ log[j].val \in Nat /\ log[j].id \in Nat
    BY <2>1 DEF Nests, Toks
  <2>3. log[j] # Stop
    <3>1. Names(<<>>) = {}
      BY BottomStack, NamesDeep, AtsShort
    <3>2. Stop.at = <<>>
      BY DEF Stop
    <3> QED
      BY <1>2, <3>1, <3>2 DEF Named
  <2>4. /\ log[j].type \in Types /\ log[j].at = Here(Head(st[j - 1]), log[j])
        /\ log[j].type = "struct" => log[j].val = 0
    BY <2>1, <2>3 DEF Nests
  <2>5. Head(st[j - 1]) \in Ats
    BY <2>1, StackFacts DEF Nests
  <2> QED
    BY <2>2, <2>4, <2>5, HereFacts
<1>3. p # <<>> /\ p[1] # "skip" /\ p # Skipped
  BY <1>1, <1>2, NamesProper DEF Named
<1>4. ASSUME NEW j \in 1..Len(log), Named(p, j)
      PROVE  log[j].type = log[i].type
  <2>1. log[i].at \in Ats /\ log[j].at \in Ats /\ p \in Names(log[i].at) /\ p \in Names(log[j].at)
    BY <1>2, <1>4 DEF Named
  <2>2. log[i].at = log[j].at
    BY <1>1, <2>1, NamesApart
  <2> QED
    BY <1>2, <1>4, <2>2
<1> QED
  BY <1>2, <1>3, <1>4

LEMMA NamedKept ==
    ASSUME UNCHANGED spec, NEW i, log'[i] = log[i], NEW p
    PROVE  Named(p, i)' <=> Named(p, i)
<1>1. \A at : Names(at)' = Names(at)
  BY DEF Names
<1> QED
  BY <1>1 DEF Named

(* What the peer sends does not change what is stored.                     *)
LEMMA SendKeepsStored ==
    ASSUME Stored, Passed' = Passed, Passed \in Nat, UNCHANGED <<got, frames, spec>>,
           \A i \in 1..Passed : log'[i] = log[i]
    PROVE  Stored'
<1>1. \A i \in 1..Passed : \A p : Named(p, i)' <=> Named(p, i)
  BY NamedKept
<1>2. Paths' = Paths
  BY DEF Paths
<1>3. \A i \in 1..Passed : \A p : Latest(p, i, Passed)' <=> Latest(p, i, Passed)
  <2> TAKE i \in 1..Passed
  <2> TAKE p
  <2>1. \A j \in i + 1..Passed : j \in 1..Passed
    OBVIOUS
  <2> QED
    BY <1>1, <2>1 DEF Latest
<1>4. ASSUME NEW p \in DOMAIN got
      PROVE  /\ got[p] \in Nat /\ \E i \in 1..Passed : Named(p, i)'
             /\ \A i \in 1..Passed : Latest(p, i, Passed)' => got[p] = log'[i].val
  BY <1>1, <1>3 DEF Stored
<1>5. \A i \in 1..Passed : \A p : Named(p, i)' => p \in DOMAIN got \union Paths
  BY <1>1 DEF Stored
<1>6. \A x \in Paths : \/ x \in {<<>>, Skipped}
                       \/ \E i \in 1..Passed : Named(x, i)' /\ log'[i].type = "struct"
  BY <1>1 DEF Stored
<1>7. got = [p \in DOMAIN got |-> got[p]]
  BY DEF Stored
<1> QED
  BY <1>2, <1>4, <1>5, <1>6, <1>7 DEF Stored, Skipped

(* A set of naturals has a least member.                                   *)
LEMMA LeastNatural ==
    ASSUME NEW S \in SUBSET Nat, S # {}
    PROVE  \E m \in S : \A n \in S : m <= n
<1>1. \E x \in S : \A y \in S : ~(<<y, x>> \in OpToRel(<, Nat))
  BY NatLessThanWellFounded, WFMin, Zenon
<1>2. \A x, y \in S : y < x => <<y, x>> \in OpToRel(<, Nat)
  BY Zenon DEF OpToRel
<1>3. \A x, y \in S : ~(y < x) => x <= y
  OBVIOUS
<1> QED
  BY <1>1, <1>2, <1>3, Zenon

(* Of the fields of a name that were taken, one is the last.               *)
LEMMA LatestExists ==
    ASSUME NEW k \in Nat, NEW p, NEW i \in 1..k, Named(p, i)
    PROVE  \E j \in 1..k : Latest(p, j, k)
<1> DEFINE T == {n \in Nat : \E j \in 1..k : Named(p, j) /\ n = k - j}
<1>1. T # {}
  <2>1. k - i \in Nat
    OBVIOUS
  <2>2. k - i \in T
    BY <2>1
  <2> QED
    BY <2>2
<1> PICK n \in T : \A m \in T : n <= m
  <2>1. \E n \in T : \A m \in T : n <= m
    BY <1>1, LeastNatural
  <2> QED
    BY <2>1
<1> PICK j \in 1..k : Named(p, j) /\ n = k - j
  OBVIOUS
<1>2. ASSUME NEW l \in j + 1..k, Named(p, l)
      PROVE  FALSE
  <2>1. k - l \in Nat /\ l \in 1..k
    OBVIOUS
  <2>2. k - l \in T
    BY <1>2, <2>1
  <2>3. n <= k - l
    BY <2>2
  <2> QED
    BY <2>3
<1> QED
  BY <1>2 DEF Latest

(* One more field is taken: what is stored has to account for its names.   *)
LEMMA TakeNames ==
    ASSUME InMessage, wire # <<>>, wire' = Tail(wire), UNCHANGED <<log, spec>>,
           NEW k, k = Passed
    PROVE  /\ k \in Nat /\ Passed' = k + 1 /\ k + 1 \in 1..Len(log) /\ log[k + 1] = Head(wire)
           /\ \A p : Named(p, k + 1) <=> p \in Names(Head(wire).at)
           /\ \A p : \A i \in 1..k + 1 : Named(p, i)' <=> Named(p, i)
           /\ \A p : \A i \in 1..k + 1 :
                Latest(p, i, Passed)' => IF Named(p, k + 1) THEN i = k + 1
                                         ELSE i \in 1..k /\ Latest(p, i, k)
<1> PICK st : Stacked(st)
  BY DEF InMessage
<1>1. k \in Nat /\ k + 1 \in 1..Len(log) /\ log[k + 1] = Head(wire)
  BY NextField DEF InMessage, Suffix
<1>2. Passed' = k + 1
  <2>1. Len(wire') = Len(wire) - 1 /\ Len(wire) \in Nat /\ Len(log) \in Nat
    BY HeadTailProperties DEF InMessage, Suffix
  <2> QED
    BY <1>1, <2>1 DEF Passed
<1>3. \A p : Named(p, k + 1) <=> p \in Names(Head(wire).at)
  BY <1>1 DEF Named
<1>4. \A p : \A i \in 1..k + 1 : Named(p, i)' <=> Named(p, i)
  BY NamedKept
<1>5. ASSUME NEW p, NEW i \in 1..k + 1, Latest(p, i, Passed)'
      PROVE  IF Named(p, k + 1) THEN i = k + 1 ELSE i \in 1..k /\ Latest(p, i, k)
  <2>1. Named(p, i)' /\ \A j \in i + 1..k + 1 : ~Named(p, j)'
    BY <1>2, <1>5 DEF Latest
  <2>2. \A j \in i + 1..k + 1 : j \in 1..k + 1
    BY <1>1
  <2>3. Named(p, i) /\ \A j \in i + 1..k + 1 : ~Named(p, j)
    BY <1>4, <2>1, <2>2
  <2>4. CASE Named(p, k + 1)
    <3>1. ~(k + 1 \in i + 1..k + 1)
      BY <2>3, <2>4
    <3> QED
      BY <1>1, <2>4, <3>1
  <2>5. CASE ~Named(p, k + 1)
    <3>1. i # k + 1
      BY <2>3, <2>5
    <3>2. i \in 1..k
      BY <1>1, <3>1
    <3>3. \A j \in i + 1..k : j \in i + 1..k + 1
      BY <1>1
    <3> QED
      BY <2>3, <2>5, <3>2, <3>3 DEF Latest
  <2> QED
    BY <2>4, <2>5
<1> QED
  BY <1>1, <1>2, <1>3, <1>4, <1>5

(* The head of a struct of the table, or one that is skipped.              *)
LEMMA OpenKeepsStored ==
    ASSUME InMessage, Stored, wire # <<>>, wire' = Tail(wire), UNCHANGED <<log, spec, got>>,
           NEW path, Goes(Head(wire), path), Head(wire).type = "struct",
           Paths' = Paths \union {path}
    PROVE  Stored'
<1> PICK k : k = Passed
  OBVIOUS
<1>1. /\ k \in Nat /\ Passed' = k + 1 /\ k + 1 \in 1..Len(log) /\ log[k + 1] = Head(wire)
      /\ \A p : Named(p, k + 1) <=> p \in Names(Head(wire).at)
      /\ \A p : \A i \in 1..k + 1 : Named(p, i)' <=> Named(p, i)
      /\ \A p : \A i \in 1..k + 1 :
            Latest(p, i, Passed)' => IF Named(p, k + 1) THEN i = k + 1
                                     ELSE i \in 1..k /\ Latest(p, i, k)
  BY TakeNames
<1>2. \A i \in 1..k : i \in 1..k + 1 /\ i \in 1..Len(log)
  BY <1>1
<1>3. ASSUME NEW p \in DOMAIN got
      PROVE  /\ got[p] \in Nat /\ \E i \in 1..k + 1 : Named(p, i)'
             /\ \A i \in 1..k + 1 : Latest(p, i, Passed)' => got[p] = log[i].val
  <2>1. got[p] \in Nat /\ \E i \in 1..k : Named(p, i)
    BY DEF Stored
  <2>2. \E i \in 1..k + 1 : Named(p, i)'
    BY <1>1, <1>2, <2>1
  <2>3. ASSUME NEW i \in 1..k + 1, Latest(p, i, Passed)'
        PROVE  got[p] = log[i].val
    <3>1. CASE ~Named(p, k + 1)
      BY <1>1, <2>3, <3>1 DEF Stored
    <3>2. CASE Named(p, k + 1)
      <4>1. i = k + 1
        BY <1>1, <2>3, <3>2
      <4>2. \A j \in 1..Len(log) : Named(p, j) => log[j].type = "struct" /\ log[j].val = 0
        BY <1>1, <3>2, NamedAlike
      <4>3. got[p] = 0
        (* A last one of the fields with that name, and all have 0.        *)
        <5>1. \E j \in 1..k : Latest(p, j, k)
          BY <1>1, <2>1, LatestExists
        <5> PICK j \in 1..k : Latest(p, j, k)
          BY <5>1
        <5>2. got[p] = log[j].val /\ Named(p, j)
          BY DEF Stored, Latest
        <5> QED
          BY <1>2, <4>2, <5>2
      <4> QED
        BY <1>1, <3>2, <4>1, <4>2, <4>3
    <3> QED
      BY <3>1, <3>2
  <2> QED
    BY <2>1, <2>2, <2>3
<1>4. ASSUME NEW i \in 1..k + 1, NEW p, Named(p, i)'
      PROVE  p \in DOMAIN got \union Paths'
  <2>1. Named(p, i)
    BY <1>1, <1>4
  <2>2. CASE i = k + 1
    BY <1>1, <2>1, <2>2 DEF Goes
  <2>3. CASE i # k + 1
    <3>1. i \in 1..k
      BY <1>1, <2>3
    <3> QED
      BY <2>1, <3>1 DEF Stored
  <2> QED
    BY <2>2, <2>3
<1>5. ASSUME NEW x \in Paths'
      PROVE  \/ x \in {<<>>, Skipped}
             \/ \E i \in 1..k + 1 : Named(x, i)' /\ log[i].type = "struct"
  <2>1. CASE x \in Paths
    <3>1. \/ x \in {<<>>, Skipped}
          \/ \E i \in 1..k : Named(x, i) /\ log[i].type = "struct"
      BY <2>1 DEF Stored
    <3> QED
      BY <1>1, <1>2, <3>1
  <2>2. CASE x = path /\ path # Skipped
    <3>1. Named(path, k + 1)
      BY <1>1, <2>2 DEF Goes
    <3>2. k + 1 \in 1..k + 1
      BY <1>1
    <3> QED
      BY <1>1, <2>2, <3>1, <3>2
  <2>3. CASE x = Skipped
    BY <2>3
  <2> QED
    BY <2>1, <2>2, <2>3
<1>6. got = [p \in DOMAIN got |-> got[p]]
  BY DEF Stored
<1> QED
  BY <1>1, <1>3, <1>4, <1>5, <1>6 DEF Stored, Skipped

(* What Store does.                                                        *)
LEMMA StoreFacts ==
    ASSUME NEW path, path[1] # "skip", NEW v, got' = Store(path, v)
    PROVE  /\ got' = [p \in DOMAIN got' |-> got'[p]]
           /\ DOMAIN got' = DOMAIN got \union {path}
           /\ \A p \in DOMAIN got' : got'[p] = IF p = path THEN v ELSE got[p]
<1>1. got' = [p \in DOMAIN got \union {path} |-> IF p = path THEN v ELSE got[p]]
  BY DEF Store
<1> QED
  BY <1>1

(* The value of a field of the table is stored, that of another is not.    *)
LEMMA ValueKeepsStored ==
    ASSUME InMessage, Stored, wire # <<>>, wire' = Tail(wire), UNCHANGED <<log, spec, frames>>,
           NEW path, Goes(Head(wire), path), Head(wire).val \in Nat,
           got' = Store(path, Head(wire).val)
    PROVE  Stored'
<1> PICK k : k = Passed
  OBVIOUS
<1> PICK v : v = Head(wire).val
  OBVIOUS
<1>1. /\ k \in Nat /\ Passed' = k + 1 /\ k + 1 \in 1..Len(log) /\ log[k + 1] = Head(wire)
      /\ \A p : Named(p, k + 1) <=> p \in Names(Head(wire).at)
      /\ \A p : \A i \in 1..k + 1 : Named(p, i)' <=> Named(p, i)
      /\ \A p : \A i \in 1..k + 1 :
            Latest(p, i, Passed)' => IF Named(p, k + 1) THEN i = k + 1
                                     ELSE i \in 1..k /\ Latest(p, i, k)
  BY TakeNames
<1>2. /\ \A i \in 1..k : i \in 1..k + 1 /\ i \in 1..Len(log)
      /\ k + 1 \in 1..k + 1 /\ \A i \in 1..k + 1 : i = k + 1 \/ i \in 1..k
  BY <1>1
<1>3. Paths' = Paths
  BY DEF Paths
<1>4. \A x \in Paths : \/ x \in {<<>>, Skipped}
                       \/ \E i \in 1..k + 1 : Named(x, i)' /\ log[i].type = "struct"
  BY <1>1, <1>2 DEF Stored
<1>5. CASE path = Skipped /\ Names(Head(wire).at) = {}
  <2>1. got' = got
    BY <1>5 DEF Store, Skipped
  <2>2. \A p : ~Named(p, k + 1)
    BY <1>1, <1>5
  <2>3. ASSUME NEW p \in DOMAIN got
        PROVE  /\ got[p] \in Nat /\ \E i \in 1..k + 1 : Named(p, i)'
               /\ \A i \in 1..k + 1 : Latest(p, i, Passed)' => got[p] = log[i].val
    BY <1>1, <1>2, <2>2 DEF Stored
  <2>4. \A i \in 1..k + 1 : \A p : Named(p, i)' => p \in DOMAIN got \union Paths
    BY <1>1, <1>2, <2>2 DEF Stored
  <2>5. got = [p \in DOMAIN got |-> got[p]]
    BY DEF Stored
  <2> QED
    BY <1>1, <1>3, <1>4, <2>1, <2>3, <2>4, <2>5 DEF Stored, Skipped
<1>6. CASE path[1] # "skip" /\ Names(Head(wire).at) = {path}
  <2>1. /\ got' = [p \in DOMAIN got' |-> got'[p]]
        /\ DOMAIN got' = DOMAIN got \union {path}
        /\ \A p \in DOMAIN got' : got'[p] = IF p = path THEN v ELSE got[p]
    BY <1>6, StoreFacts
  <2>2. \A p : Named(p, k + 1) <=> p = path
    BY <1>1, <1>6
  <2>3. ASSUME NEW p \in DOMAIN got'
        PROVE  /\ got'[p] \in Nat /\ \E i \in 1..k + 1 : Named(p, i)'
               /\ \A i \in 1..k + 1 : Latest(p, i, Passed)' => got'[p] = log[i].val
    <3>1. CASE p = path
      <4>1. Named(p, k + 1)' /\ got'[p] = v
        BY <1>1, <1>2, <2>1, <2>2, <3>1
      <4> QED
        BY <1>1, <1>2, <2>2, <3>1, <4>1
    <3>2. CASE p # path
      <4>1. p \in DOMAIN got /\ got'[p] = got[p] /\ ~Named(p, k + 1)
        BY <2>1, <2>2, <3>2
      <4>2. got[p] \in Nat /\ (\E i \in 1..k : Named(p, i))
            /\ \A i \in 1..k : Latest(p, i, k) => got[p] = log[i].val
        BY <4>1 DEF Stored
      <4> QED
        BY <1>1, <1>2, <4>1, <4>2
    <3> QED
      BY <3>1, <3>2
  <2>4. ASSUME NEW i \in 1..k + 1, NEW p, Named(p, i)'
        PROVE  p \in DOMAIN got' \union Paths
    <3>1. Named(p, i)
      BY <1>1, <2>4
    <3>2. CASE i = k + 1
      BY <2>1, <2>2, <3>1, <3>2
    <3>3. CASE i # k + 1
      <4>1. i \in 1..k
        BY <1>2, <3>3
      <4>2. p \in DOMAIN got \union Paths
        BY <3>1, <4>1 DEF Stored
      <4> QED
        BY <2>1, <4>2
    <3> QED
      BY <3>2, <3>3
  <2> QED
    BY <1>1, <1>3, <1>4, <2>1, <2>3, <2>4 DEF Stored, Skipped
<1> QED
  BY <1>5, <1>6 DEF Goes

(* The stop of a struct of the table, or of one that is skipped.           *)
LEMMA CloseKeepsStored ==
    ASSUME InMessage, Stored, wire # <<>>, wire' = Tail(wire), UNCHANGED <<log, spec>>,
           Head(wire) = Stop, NEW path \in Paths, Paths' \subseteq Paths,
           \/ path = <<>> /\ Paths \subseteq {path} /\ got' = got
           \/ path # <<>> /\ Paths \subseteq Paths' \union {path} /\ got' = Store(path, 0)
    PROVE  Stored'
<1> PICK k : k = Passed
  OBVIOUS
<1>1. /\ k \in Nat /\ Passed' = k + 1 /\ k + 1 \in 1..Len(log) /\ log[k + 1] = Head(wire)
      /\ \A p : Named(p, k + 1) <=> p \in Names(Head(wire).at)
      /\ \A p : \A i \in 1..k + 1 : Named(p, i)' <=> Named(p, i)
      /\ \A p : \A i \in 1..k + 1 :
            Latest(p, i, Passed)' => IF Named(p, k + 1) THEN i = k + 1
                                     ELSE i \in 1..k /\ Latest(p, i, k)
  BY TakeNames
<1>2. /\ \A i \in 1..k : i \in 1..k + 1 /\ i \in 1..Len(log)
      /\ \A i \in 1..k + 1 : i = k + 1 \/ i \in 1..k
  BY <1>1
<1>3. \A p : ~Named(p, k + 1)
  <2>1. Names(<<>>) = {}
    BY BottomStack, NamesDeep, AtsShort
  <2> QED
    BY <1>1, <2>1 DEF Stop
<1>4. \A i \in 1..k : \A p : Named(p, i) => p # <<>> /\ p # Skipped /\ p[1] # "skip"
  BY <1>2, NamedAlike
<1>5. \A i \in 1..k + 1 : \A p : Named(p, i)' => i \in 1..k /\ Named(p, i)
  BY <1>1, <1>2, <1>3
<1>6. \A i \in 1..k : \A p : Named(p, i) => Named(p, i)'
  BY <1>1, <1>2
<1>7. \A x \in Paths' : \/ x \in {<<>>, Skipped}
                        \/ \E i \in 1..k + 1 : Named(x, i)' /\ log[i].type = "struct"
  BY <1>2, <1>6 DEF Stored
<1>8. \A p \in DOMAIN got :
        /\ got[p] \in Nat /\ \E i \in 1..k + 1 : Named(p, i)'
        /\ \A i \in 1..k + 1 : Latest(p, i, Passed)' => got[p] = log[i].val
  BY <1>1, <1>2, <1>3, <1>6 DEF Stored
<1>9. CASE /\ got' = got
           /\ \/ path = <<>> /\ Paths \subseteq {path}
              \/ path = Skipped /\ Paths \subseteq Paths' \union {path}
  <2>1. \A i \in 1..k + 1 : \A p : Named(p, i)' => p \in DOMAIN got \union Paths'
    BY <1>4, <1>5, <1>9 DEF Stored
  <2>2. got = [p \in DOMAIN got |-> got[p]]
    BY DEF Stored
  <2> QED
    BY <1>1, <1>7, <1>8, <1>9, <2>1, <2>2 DEF Stored, Skipped
<1>10. CASE /\ path # <<>> /\ path # Skipped /\ Paths \subseteq Paths' \union {path}
            /\ got' = Store(path, 0)
  <2> PICK m \in 1..k : Named(path, m) /\ log[m].type = "struct"
    BY <1>10 DEF Stored
  <2>1. path[1] # "skip" /\ \A j \in 1..Len(log) : Named(path, j) => log[j].type = "struct"
    BY <1>2, NamedAlike
  <2>2. \A j \in 1..k : Named(path, j) => log[j].val = 0
    BY <1>2, <2>1, NamedAlike
  <2>3. /\ got' = [p \in DOMAIN got' |-> got'[p]]
        /\ DOMAIN got' = DOMAIN got \union {path}
        /\ \A p \in DOMAIN got' : got'[p] = IF p = path THEN 0 ELSE got[p]
    BY <1>10, <2>1, StoreFacts
  <2>4. ASSUME NEW p \in DOMAIN got'
        PROVE  /\ got'[p] \in Nat /\ \E i \in 1..k + 1 : Named(p, i)'
               /\ \A i \in 1..k + 1 : Latest(p, i, Passed)' => got'[p] = log[i].val
    <3>1. CASE p = path
      <4>1. got'[p] = 0
        BY <2>3, <3>1
      <4>2. \E i \in 1..k + 1 : Named(p, i)'
        BY <1>2, <1>6, <3>1
      <4>3. \A i \in 1..k + 1 : Latest(p, i, Passed)' => log[i].val = 0
        BY <1>1, <1>3, <2>2, <3>1 DEF Latest
      <4> QED
        BY <4>1, <4>2, <4>3
    <3>2. CASE p # path
      <4>1. p \in DOMAIN got /\ got'[p] = got[p]
        BY <2>3, <3>2
      <4> QED
        BY <1>8, <4>1
    <3> QED
      BY <3>1, <3>2
  <2>5. \A i \in 1..k + 1 : \A p : Named(p, i)' => p \in DOMAIN got' \union Paths'
    BY <1>5, <1>10, <2>3 DEF Stored
  <2> QED
    BY <1>1, <1>7, <2>3, <2>4, <2>5 DEF Stored, Skipped
<1> QED
  BY <1>9, <1>10 DEF Store, Skipped

(* The structs the reader is in, by the paths they are stored under.       *)
LEMMA PathsOpened ==
    ASSUME NEW S, frames \in Seq(S), NEW of, NEW path, frames' = <<Frame(of, path)>> \o frames
    PROVE  Paths' = Paths \union {path}
<1> PICK fr : fr = frames
  OBVIOUS
<1> PICK x : x = Frame(of, path)
  OBVIOUS
<1> PICK T : T = S \union {x}
  OBVIOUS
<1>1. x.path = path /\ x \in T /\ fr \in Seq(T) /\ Len(fr) \in Nat
  BY DEF Frame
<1> PICK new : new = <<x>> \o fr
  OBVIOUS
<1>2. /\ Len(new) = Len(fr) + 1 /\ new[1] = x
      /\ \A j \in 2..Len(fr) + 1 : new[j] = fr[j - 1]
  BY <1>1, PushFacts
<1>3. Paths = {fr[j].path : j \in 1..Len(fr)} /\ Paths' = {new[j].path : j \in 1..Len(new)}
  BY DEF Paths
<1>4. ASSUME NEW j \in 1..Len(new)
      PROVE  new[j].path \in Paths \union {path}
  <2>1. CASE j = 1
    BY <1>1, <1>2, <2>1
  <2>2. CASE j # 1
    <3>1. j \in 2..Len(fr) + 1 /\ j - 1 \in 1..Len(fr)
      BY <1>1, <1>2, <2>2
    <3> QED
      BY <1>2, <1>3, <3>1
  <2> QED
    BY <2>1, <2>2
<1>5. ASSUME NEW j \in 1..Len(fr)
      PROVE  fr[j].path \in Paths'
  <2>1. j + 1 \in 2..Len(fr) + 1 /\ j + 1 \in 1..Len(new) /\ (j + 1) - 1 = j
    BY <1>1, <1>2
  <2>2. new[j + 1] = fr[j]
    BY <1>2, <2>1
  <2> QED
    BY <1>3, <2>1, <2>2
<1>6. path \in Paths'
  <2>1. 1 \in 1..Len(new)
    BY <1>1, <1>2
  <2> QED
    BY <1>1, <1>2, <1>3, <2>1
<1>7. ASSUME NEW y \in Paths'
      PROVE  y \in Paths \union {path}
  <2> PICK j \in 1..Len(new) : y = new[j].path
    BY <1>3
  <2> QED
    BY <1>4
<1>8. ASSUME NEW y \in Paths
      PROVE  y \in Paths'
  <2> PICK j \in 1..Len(fr) : y = fr[j].path
    BY <1>3
  <2> QED
    BY <1>5
<1> QED
  BY <1>6, <1>7, <1>8

LEMMA PathsClosed ==
    ASSUME NEW S, frames \in Seq(S), frames # <<>>, frames' = Tail(frames)
    PROVE  /\ Head(frames).path \in Paths /\ Paths' \subseteq Paths
           /\ Paths \subseteq Paths' \union {Head(frames).path}
<1> PICK fr, new : fr = frames /\ new = Tail(frames)
  OBVIOUS
<1>1. /\ Len(fr) \in Nat /\ Len(fr) > 0 /\ Len(new) = Len(fr) - 1
      /\ Head(fr) = fr[1] /\ \A j \in 1..Len(fr) - 1 : new[j] = fr[j + 1]
  BY HeadTailProperties
<1>2. Paths = {fr[j].path : j \in 1..Len(fr)} /\ Paths' = {new[j].path : j \in 1..Len(new)}
  BY DEF Paths
<1>3. ASSUME NEW j \in 1..Len(new)
      PROVE  new[j].path \in Paths
  <2>1. j \in 1..Len(fr) - 1 /\ j + 1 \in 1..Len(fr)
    BY <1>1
  <2> QED
    BY <1>1, <1>2, <2>1
<1>4. ASSUME NEW j \in 1..Len(fr)
      PROVE  fr[j].path \in Paths' \union {fr[1].path}
  <2>1. CASE j = 1
    BY <2>1
  <2>2. CASE j # 1
    <3>1. j - 1 \in 1..Len(new) /\ j - 1 \in 1..Len(fr) - 1 /\ (j - 1) + 1 = j
      BY <1>1, <2>2
    <3>2. new[j - 1] = fr[j]
      BY <1>1, <3>1
    <3> QED
      BY <1>2, <3>1, <3>2
  <2> QED
    BY <2>1, <2>2
<1>5. fr[1].path \in Paths
  BY <1>1, <1>2
<1> QED
  BY <1>1, <1>2, <1>3, <1>4, <1>5

(* The frame of the message, and only that one, has no path.               *)
LEMMA FramePath ==
    ASSUME NEW x \in Ats
    PROVE  FrameOf(x).path = <<>> <=> x = <<>>
<1>1. CASE x = <<>>
  BY <1>1 DEF FrameOf, Frame
<1>2. CASE x # <<>> /\ Len(x) = 1 /\ Hits(spec, x[1]) # {}
  <2> PICK f : f = CHOOSE g \in Hits(spec, x[1]) : TRUE
    OBVIOUS
  <2>1. FrameOf(x) = Frame(f.of, <<f.name>>)
    BY <1>2 DEF FrameOf
  <2> QED
    BY <1>2, <2>1 DEF Frame
<1>3. CASE x # <<>> /\ ~(Len(x) = 1 /\ Hits(spec, x[1]) # {})
  BY <1>3 DEF FrameOf, Frame, Skipped
<1> QED
  BY <1>1, <1>2, <1>3

LEMMA StoredFirst == Init => Stored
<1> SUFFICES ASSUME Init PROVE Stored
  OBVIOUS
<1>1. Passed = 0 /\ got = <<>> /\ DOMAIN got = {}
  BY DEF Init, Passed
<1>2. Paths \subseteq {<<>>}
  <2> PICK fr : fr = frames
    OBVIOUS
  <2>1. Len(fr) = 1 /\ fr[1].path = <<>>
    BY DEF Init, Frame
  <2> QED
    BY <2>1 DEF Paths
<1>3. got = [p \in DOMAIN got |-> got[p]]
  BY <1>1
<1> QED
  BY <1>1, <1>2, <1>3 DEF Stored

LEMMA AppendAny ==
    ASSUME NEW S, NEW s \in Seq(S), NEW v
    PROVE  Len(Append(s, v)) = Len(s) + 1 /\ \A i \in 1..Len(s) : Append(s, v)[i] = s[i]
<1> PICK T : T = S \union {v}
  OBVIOUS
<1>1. s \in Seq(T) /\ v \in T
  OBVIOUS
<1> QED
  BY <1>1, AppendProperties

LEMMA StoredKept == InMessage /\ Stored /\ [Next]_vars => Stored'
<1> SUFFICES ASSUME InMessage, Stored, [Next]_vars PROVE Stored'
  OBVIOUS
<1> PICK st : Stacked(st)
  BY DEF InMessage
<1> PICK a : a = st[Passed]
  OBVIOUS
<1>1. /\ log \in Seq(Toks) /\ wire \in Seq(Toks) /\ Len(log) \in Nat /\ Len(wire) \in Nat
      /\ Passed \in Nat /\ Passed + Len(wire) = Len(log)
  BY DEF InMessage, Suffix, Passed
<1>2. a \in Stacks /\ frames = FramesOf(a) /\ frames \in Seq(FrameSet)
  <2>1. Passed \in 0..Len(log)
    BY <1>1
  <2>2. a \in Stacks /\ frames = FramesOf(a)
    BY <2>1 DEF Stacked
  <2> QED
    BY <2>2, FramesType
<1>3. CASE \/ UNCHANGED vars \/ SendBegin \/ Close \/ ReadEof
  <2>1. UNCHANGED <<wire, log, got, frames, spec>>
    BY <1>3 DEF vars, SendBegin, Close, ReadEof, peer, reader
  <2>2. Passed' = Passed
    BY <2>1 DEF Passed
  <2> QED
    BY <1>1, <2>1, <2>2, SendKeepsStored
<1>4. CASE \E set \in SUBSET {"success", "ouch", "comment"} : SendOwn(set)
  <2>1. ~begun /\ UNCHANGED <<got, frames, spec>> /\ wire' = wire \o log'
    BY <1>4 DEF SendOwn, reader
  <2>2. log = <<>> /\ Len(log) = 0 /\ Passed = 0 /\ wire = <<>>
    <3>1. log = <<>> /\ Len(log) = 0
      BY <2>1 DEF InMessage, Phase
    <3>2. Len(wire) = 0 /\ Passed = 0
      BY <1>1, <3>1
    <3> QED
      BY <1>1, <3>1, <3>2
  <2>3. Passed' = 0
    <3> PICK set : SendOwn(set)
      BY <1>4
    <3>1. Runs(log', Bottom, <<>>, MessagePlaces(spec, set))
      BY OwnMessage DEF SendOwn, InMessage, Phase
    <3>2. log' \in Seq(Toks)
      BY <3>1 DEF Runs
    <3>3. wire' = log'
      BY <2>1, <2>2, <3>2, ConcatEmptySeq
    <3> QED
      BY <3>2, <3>3 DEF Passed
  <2> QED
    BY <1>1, <2>1, <2>2, <2>3, SendKeepsStored
<1>5. CASE SendStop \/ \E id \in Ids, type \in {"i32", "string", "struct"} : SendField(id, type)
  <2> PICK t : log' = Append(log, t) /\ wire' = Append(wire, t)
    BY <1>5 DEF SendStop, SendField
  <2>1. UNCHANGED <<got, frames, spec>>
    BY <1>5 DEF SendStop, SendField, reader
  <2>2. /\ Len(log') = Len(log) + 1 /\ Len(wire') = Len(wire) + 1
        /\ \A i \in 1..Len(log) : log'[i] = log[i]
    BY <1>1, AppendAny
  <2>3. Passed' = Passed /\ \A i \in 1..Passed : log'[i] = log[i]
    <3>1. \A i \in 1..Passed : i \in 1..Len(log)
      BY <1>1
    <3> QED
      BY <1>1, <2>2, <3>1 DEF Passed
  <2> QED
    BY <1>1, <2>1, <2>3, SendKeepsStored
<1>6. CASE ReadField
  <2>1. wire # <<>> /\ wire' = Tail(wire) /\ UNCHANGED <<log, spec>> /\ Head(wire).val \in Nat
    <3>1. wire # <<>> /\ wire' = Tail(wire) /\ UNCHANGED <<log, spec>>
      BY <1>6 DEF ReadField, peer
    <3>2. Head(wire) \in Toks
      BY <1>1, <3>1, HeadTailProperties
    <3> QED
      BY <3>1, <3>2 DEF Toks
  <2> PICK path :
        /\ Goes(Head(wire), path)
        /\ IF Head(wire).type = "struct"
           THEN got' = got /\ \E of : frames' = <<Frame(of, path)>> \o frames
           ELSE got' = Store(path, Head(wire).val) /\ frames' = frames
    BY <1>6, FieldRead
  <2>2. CASE Head(wire).type = "struct"
    <3>1. Paths' = Paths \union {path}
      BY <1>2, <2>2, PathsOpened
    <3> QED
      BY <2>1, <2>2, <3>1, OpenKeepsStored
  <2>3. CASE Head(wire).type # "struct"
    BY <2>1, <2>3, ValueKeepsStored
  <2> QED
    BY <2>2, <2>3
<1>7. CASE ReadStop
  <2>1. /\ wire # <<>> /\ wire' = Tail(wire) /\ UNCHANGED <<log, spec>> /\ Head(wire) = Stop
        /\ frames' = Tail(frames)
        /\ got' = IF Tail(frames) = <<>> THEN got ELSE Store(Head(frames).path, 0)
    BY <1>7, StopRead DEF ReadStop, peer, Closed
  <2> PICK path : path = Head(frames).path
    OBVIOUS
  <2>2. a # <<>> /\ frames # <<>>
    <3>1. a # <<>>
      BY <2>1, NextField DEF InMessage
    <3> QED
      BY <1>2, <3>1, FramesType
  <2>3. path \in Paths /\ Paths' \subseteq Paths /\ Paths \subseteq Paths' \union {path}
    BY <1>2, <2>1, <2>2, PathsClosed
  <2>4. path = <<>> <=> Tail(frames) = <<>>
    <3>1. Tail(frames) = <<>> <=> Tail(a) = <<>>
      BY <1>2, <2>2, FramesFollow, TailStack, FramesType
    <3>2. path = <<>> <=> Head(a) = <<>>
      BY <1>2, <2>2, FramesFollow, StackFacts, FramePath
    <3>3. /\ Len(a) \in Nat /\ Len(a) > 0 /\ Len(Tail(a)) = Len(a) - 1 /\ Head(a) = a[1]
          /\ Tail(a) \in Seq(Ats)
      BY <1>2, <2>2, StackFacts
    <3>4. Tail(a) = <<>> <=> Len(a) = 1
      <4> PICK b : b = Tail(a)
        OBVIOUS
      <4>1. b = <<>> <=> Len(b) = 0
        BY <3>3, EmptySeq
      <4> QED
        BY <3>3, <4>1
    <3>5. a[1] = <<>> <=> 1 = Len(a)
      <4>1. \A j \in 1..Len(a) : a[j] = <<>> <=> j = Len(a)
        BY <1>2 DEF Stacks
      <4>2. 1 \in 1..Len(a)
        BY <3>3
      <4> QED
        BY <4>1, <4>2
    <3> QED
      BY <3>1, <3>2, <3>3, <3>4, <3>5
  <2>5. CASE path = <<>>
    <3>1. Paths' = {}
      <4>1. frames' = <<>>
        BY <2>1, <2>4, <2>5
      <4> QED
        BY <4>1 DEF Paths
    <3> QED
      BY <2>1, <2>3, <2>4, <2>5, <3>1, CloseKeepsStored
  <2>6. CASE path # <<>>
    BY <2>1, <2>3, <2>4, <2>6, CloseKeepsStored
  <2> QED
    BY <2>5, <2>6
<1> QED
  BY <1>3, <1>4, <1>5, <1>6, <1>7 DEF Next

(* What this program wrote, it wrote whole.                                *)
OwnWhole ==
    own # {"foreign"} => begun /\ open = <<>> /\ log = Append(Tokens(spec, own), Stop)

LEMMA OwnWholeKept == OwnWhole /\ Phase /\ [Next]_vars => OwnWhole'
<1> SUFFICES ASSUME OwnWhole, Phase, [Next]_vars PROVE OwnWhole'
  OBVIOUS
<1>1. CASE UNCHANGED vars \/ Close \/ ReadField \/ ReadStop \/ ReadEof
  <2>1. UNCHANGED <<own, begun, open, log, spec>>
    BY <1>1 DEF vars, Close, ReadField, ReadStop, ReadEof, peer, reader
  <2> QED
    BY <2>1 DEF OwnWhole, Tokens
<1>2. CASE SendBegin
  BY <1>2 DEF OwnWhole, SendBegin
<1>3. CASE SendStop \/ \E id \in Ids, type \in {"i32", "string", "struct"} : SendField(id, type)
  <2>1. open # <<>> /\ own' = own
    BY <1>3 DEF SendStop, SendField
  <2> QED
    BY <2>1 DEF OwnWhole
<1>4. ASSUME NEW set, SendOwn(set)
      PROVE  OwnWhole'
  <2>1. /\ ~begun /\ begun' /\ own' = set /\ UNCHANGED <<open, spec>>
        /\ log' = Append(Tokens(spec, set), Stop)
    BY <1>4 DEF SendOwn, reader
  <2>2. open' = <<>>
    BY <2>1 DEF Phase
  <2>3. log' = Append(Tokens(spec', own'), Stop)
    BY <2>1
  <2> QED
    BY <2>1, <2>2, <2>3 DEF OwnWhole
<1> QED
  BY <1>1, <1>2, <1>3, <1>4 DEF Next

-----------------------------------------------------------------------------
(* The inductive invariant.                                                *)
InStep == InMessage /\ Stored /\ OwnWhole

LEMMA AlwaysInStep == Spec => []InStep
<1>1. Init => InStep
  BY InMessageFirst, StoredFirst DEF InStep, OwnWhole, Init
<1>2. InStep /\ [Next]_vars => InStep'
  BY InMessageKept, StoredKept, OwnWholeKept DEF InStep, InMessage
<1> QED
  BY <1>1, <1>2, PTL DEF Spec

(* A message is read to its end and no further.                            *)
LEMMA DoneAtTheEnd ==
    ASSUME InMessage
    PROVE  /\ pc = "done" => wire = <<>> /\ open = <<>> /\ Passed = Len(log)
           /\ pc = "reading" /\ begun /\ open = <<>> => wire # <<>>
<1> PICK st : Stacked(st)
  BY DEF InMessage
<1>1. /\ wire \in Seq(Toks) /\ Len(log) \in Nat /\ Len(wire) \in Nat
      /\ Passed \in 0..Len(log) /\ Passed + Len(wire) = Len(log)
  BY DEF InMessage, Suffix, Passed
<1>2. st[Passed] \in Stacks /\ frames = FramesOf(st[Passed])
  BY <1>1 DEF Stacked
<1>3. frames = <<>> <=> st[Passed] = <<>>
  BY <1>2, FramesType
<1>4. pc = "done" <=> frames = <<>>
  BY DEF InMessage, Phase
<1>5. wire # <<>> => st[Passed] # <<>>
  BY NextField DEF InMessage
<1>6. wire = <<>> => Passed = Len(log) /\ st[Passed] = IF begun THEN open ELSE << <<>> >>
  BY <1>1 DEF Stacked
<1> QED
  BY <1>3, <1>4, <1>5, <1>6

(* What the reader stores are values, and it is in a struct while it reads,*)
(* whatever the peer sends.                                                *)
THEOREM TypeCorrect == Spec => []TypeOK
<1>1. InStep => TypeOK
  BY DEF InStep, InMessage, Phase, Stored, TypeOK
<1> QED
  BY <1>1, AlwaysInStep, PTL

(* Every read() takes exactly one message: it ends with the message's last *)
(* stop, and before that there is more to read.                            *)
THEOREM MessagesAreFramed == Spec => []Framed
<1>1. InStep => Framed
  BY DoneAtTheEnd DEF InStep, InMessage, Phase, Stored, TypeOK, Framed
<1> QED
  BY <1>1, AlwaysInStep, PTL

(* What is stored at the end: a value for each name that was sent.         *)
LEMMA StoredAtTheEnd ==
    ASSUME InStep, pc = "done"
    PROVE  /\ DOMAIN got = Sent /\ Passed = Len(log)
           /\ \A p \in Sent : \E i \in 1..Len(log) : Named(p, i)
<1>1. Passed = Len(log) /\ log \in Seq(Toks) /\ Len(log) \in Nat
  BY DoneAtTheEnd DEF InStep, InMessage, Suffix
<1>2. Paths = {}
  <2>1. frames = <<>>
    BY DEF InStep, InMessage, Phase
  <2> QED
    BY <2>1 DEF Paths
<1>3. \A p : p \in Sent <=> \E i \in 1..Len(log) : Named(p, i)
  <2>1. DOMAIN log = 1..Len(log)
    BY <1>1
  <2> QED
    BY <2>1 DEF Sent, Named
<1>4. \A p \in DOMAIN got : \E i \in 1..Len(log) : Named(p, i)
  BY <1>1 DEF InStep, Stored
<1>5. \A i \in 1..Len(log) : \A p : Named(p, i) => p \in DOMAIN got
  BY <1>1, <1>2 DEF InStep, Stored
<1> QED
  BY <1>1, <1>3, <1>4, <1>5

(* A struct that was read holds the last value sent for each field of its  *)
(* table, and nothing else.                                                *)
THEOREM WhatWasSentIsRead == Spec => []ReadsWhatWasSent
<1>1. InStep => ReadsWhatWasSent
  <2> SUFFICES ASSUME InStep, pc = "done"
               PROVE  got = [p \in Sent |-> log[Max({i \in DOMAIN log : p \in Names(log[i].at)})].val]
    BY DEF ReadsWhatWasSent
  <2>1. /\ DOMAIN got = Sent /\ Passed = Len(log)
        /\ \A p \in Sent : \E i \in 1..Len(log) : Named(p, i)
    BY StoredAtTheEnd
  <2>2. Len(log) \in Nat /\ DOMAIN log = 1..Len(log)
    BY DEF InStep, InMessage, Suffix
  <2>3. ASSUME NEW p \in Sent
        PROVE  got[p] = log[Max({i \in DOMAIN log : p \in Names(log[i].at)})].val
    <3> PICK S : S = {i \in DOMAIN log : p \in Names(log[i].at)}
      OBVIOUS
    <3>1. PICK j \in 1..Len(log) : Latest(p, j, Len(log))
      BY <2>1, <2>2, LatestExists
    <3>2. j \in S /\ S \subseteq 1..Len(log)
      BY <2>2, <3>1 DEF Latest, Named
    <3>3. \A i \in S : i \in 1..Len(log) /\ i <= j
      <4> TAKE i \in S
      <4>1. i \in 1..Len(log) /\ Named(p, i)
        BY <2>2 DEF Named
      <4>2. ~(i \in j + 1..Len(log))
        BY <3>1, <4>1 DEF Latest
      <4> QED
        BY <2>2, <4>1, <4>2
    <3>4. Max(S) = j
      <4>1. \E x \in S : \A y \in S : x >= y
        BY <3>2, <3>3
      <4>2. Max(S) \in S /\ \A y \in S : Max(S) >= y
        BY <4>1 DEF Max
      <4> PICK m : m = Max(S)
        OBVIOUS
      <4>3. m \in 1..Len(log) /\ m <= j /\ m >= j
        BY <3>2, <3>3, <4>2
      <4> QED
        BY <2>2, <4>3
    <3>5. got[p] = log[j].val
      BY <2>1, <3>1 DEF InStep, Stored
    <3> QED
      BY <3>4, <3>5
  <2>4. got = [p \in DOMAIN got |-> got[p]]
    BY DEF InStep, Stored
  <2> QED
    BY <2>1, <2>3, <2>4
<1> QED
  BY <1>1, AlwaysInStep, PTL

(* The names of the fields that this program writes.                       *)
LEMMA OuterNames ==
    ASSUME spec \in Args \union Results, NEW f \in spec
    PROVE  Names(Here(<<>>, f)) = {<<f.name>>}
<1> PICK x : x = <<f.id, f.type>>
  OBVIOUS
<1>1. Here(<<>>, f) = <<x>>
  BY DEF Here
<1>2. Hits(spec, x) = {f}
  <2>1. f \in Hits(spec, x)
    BY DEF Hits
  <2> QED
    BY <2>1, NestedTables, OneHit
<1> QED
  BY <1>1, <1>2, NamesOuter

LEMMA InnerNames ==
    ASSUME spec \in Args \union Results, NEW f \in spec, NEW g \in f.of
    PROVE  Names(Here(Here(<<>>, f), g)) = {<<f.name, g.name>>}
<1>0. PICK x, y : x = <<f.id, f.type>> /\ y = <<g.id, g.type>>
  OBVIOUS
<1>1. Here(Here(<<>>, f), g) = <<x, y>>
  <2>1. Here(<<>>, f) = <<x>>
    BY <1>0 DEF Here
  <2> PICK w : w = <<x>>
    OBVIOUS
  <2> PICK S : S = {x, y}
    OBVIOUS
  <2>2. w \in Seq(S) /\ Len(w) = 1 /\ w[1] = x /\ y \in S
    OBVIOUS
  <2>3. Append(w, y) = <<x, y>>
    BY <2>2, AppendOne
  <2> QED
    BY <1>0, <2>1, <2>3 DEF Here
<1>2. Hits(spec, x) = {f}
  <2>1. f \in Hits(spec, x)
    BY <1>0 DEF Hits
  <2> QED
    BY <2>1, NestedTables, OneHit
<1>3. Hits(f.of, y) = {g}
  <2>1. g \in Hits(f.of, y)
    BY <1>0 DEF Hits
  <2>2. GoodTable(f.of)
    BY NestedTables, FlatTables
  <2> QED
    BY <2>1, <2>2, OneHit
<1>4. \A p : p \in Names(<<x, y>>) <=>
            \E e \in Hits(spec, x) : \E h \in Hits(e.of, y) : p = <<e.name, h.name>>
  BY NamesInnerOf
<1> QED
  BY <1>1, <1>2, <1>3, <1>4

(* What arrives of a message that this program wrote.                      *)
Arrives(p, set) ==
    \E f \in Written(spec, set) :
        \/ p = <<f.name>>
        \/ f.of # {} /\ \E g \in Written(f.of, set) : p = <<f.name, g.name>>

LEMMA OwnArrives ==
    ASSUME InStep, pc = "done", own # {"foreign"}
    PROVE  \A p : p \in DOMAIN got <=> Arrives(p, own)
<1> PICK set : set = own
  OBVIOUS
<1>1. spec \in Args \union Results /\ log = Append(Tokens(spec, set), Stop)
  BY DEF InStep, InMessage, Phase, OwnWhole
<1>2. log \in Seq(Toks) /\ {log[i].at : i \in 1..Len(log)} = MessagePlaces(spec, set)
  <2>1. Runs(log, Bottom, <<>>, MessagePlaces(spec, set))
    BY <1>1, OwnMessage
  <2> QED
    BY <2>1 DEF Runs
<1>3. \A p : p \in DOMAIN got <=> \E at \in MessagePlaces(spec, set) : p \in Names(at)
  <2>1. DOMAIN got = Sent /\ DOMAIN log = 1..Len(log)
    BY <1>2, StoredAtTheEnd
  <2>2. \A p : p \in Sent <=> \E i \in 1..Len(log) : p \in Names(log[i].at)
    BY <2>1 DEF Sent
  <2>3. \A at : at \in MessagePlaces(spec, set) <=> \E i \in 1..Len(log) : at = log[i].at
    BY <1>2
  <2> QED
    BY <2>1, <2>2, <2>3
<1>4. \A f \in Written(spec, set) : f \in spec
  BY DEF Written
<1>5. \A f \in Written(spec, set) : \A g \in Written(f.of, set) : g \in f.of
  BY DEF Written
<1>6. Names(<<>>) = {}
  BY BottomStack, NamesDeep, AtsShort
<1>7. ASSUME NEW p, p \in DOMAIN got
      PROVE  Arrives(p, set)
  <2> PICK at \in MessagePlaces(spec, set) : p \in Names(at)
    BY <1>3, <1>7
  <2> PICK f \in Written(spec, set) : at \in FieldPlaces(f, set)
    BY <1>6 DEF MessagePlaces, PlacesOf
  <2>1. CASE at = Here(<<>>, f)
    <3>1. p = <<f.name>>
      BY <1>1, <1>4, <2>1, OuterNames
    <3> QED
      BY <3>1 DEF Arrives
  <2>2. CASE f.of # {} /\ at \in StructPlaces(Here(<<>>, f), f.of, set)
    <3> PICK g \in Written(f.of, set) : at = Here(Here(<<>>, f), g)
      BY <2>2 DEF StructPlaces
    <3>1. p = <<f.name, g.name>>
      BY <1>1, <1>4, <1>5, InnerNames
    <3> QED
      BY <2>2, <3>1 DEF Arrives
  <2> QED
    BY <1>6, <2>1, <2>2 DEF FieldPlaces
<1>8. ASSUME NEW p, Arrives(p, set)
      PROVE  p \in DOMAIN got
  <2> PICK f \in Written(spec, set) :
        \/ p = <<f.name>>
        \/ f.of # {} /\ \E g \in Written(f.of, set) : p = <<f.name, g.name>>
    BY <1>8 DEF Arrives
  <2>1. CASE p = <<f.name>>
    <3>1. Here(<<>>, f) \in MessagePlaces(spec, set)
      BY DEF MessagePlaces, PlacesOf, FieldPlaces
    <3>2. p \in Names(Here(<<>>, f))
      BY <1>1, <1>4, <2>1, OuterNames
    <3> QED
      BY <1>3, <3>1, <3>2
  <2>2. ASSUME f.of # {}, NEW g \in Written(f.of, set), p = <<f.name, g.name>>
        PROVE  p \in DOMAIN got
    <3>1. Here(Here(<<>>, f), g) \in FieldPlaces(f, set)
      BY <2>2 DEF FieldPlaces, StructPlaces
    <3>2. Here(Here(<<>>, f), g) \in MessagePlaces(spec, set)
      BY <3>1 DEF MessagePlaces, PlacesOf
    <3>3. p \in Names(Here(Here(<<>>, f), g))
      BY <1>1, <1>4, <1>5, <2>2, InnerNames
    <3> QED
      BY <1>3, <3>2, <3>3
  <2> QED
    BY <2>1, <2>2
<1> QED
  BY <1>7, <1>8

(* The parameters of a call are all written.                               *)
LEMMA ParametersWritten ==
    ASSUME NEW s \in Args, s \notin Results, NEW set
    PROVE  Written(s, set) = s
<1>1. \A f \in s : f.name # "comment"
  BY DEF Args, PingArgs, AddArgs, CalculateArgs, ZipArgs, GetStructArgs, I32, Text, Struct
<1> QED
  BY <1>1 DEF Written

(* What write() sends, read() stores: all parameters, one outcome of a     *)
(* result.                                                                 *)
THEOREM MessagesArrive == Spec => []RoundTrip
<1>1. InStep => RoundTrip
  <2> DEFINE top  == {p[1] : p \in DOMAIN got}
             outs == {f \in spec : f.name \in own}
  <2> SUFFICES ASSUME InStep, pc = "done", own # {"foreign"}
               PROVE  IF spec \in Results
                      THEN top = {f.name : f \in {g \in outs : \A h \in outs : g.id <= h.id}}
                      ELSE /\ top = {f.name : f \in spec}
                           /\ \A f \in spec : \A g \in f.of :
                                <<f.name, g.name>> \in DOMAIN got
                                    <=> g.name # "comment" \/ "comment" \in own
    BY DEF RoundTrip
  <2>1. spec \in Args \union Results /\ \A p : p \in DOMAIN got <=> Arrives(p, own)
    BY OwnArrives DEF InStep, InMessage, Phase
  <2>2. top = {f.name : f \in Written(spec, own)}
    <3>1. ASSUME NEW n \in top
          PROVE  \E f \in Written(spec, own) : n = f.name
      <4> PICK p \in DOMAIN got : n = p[1]
        OBVIOUS
      <4> PICK f \in Written(spec, own) :
            p = <<f.name>> \/ \E g \in Written(f.of, own) : p = <<f.name, g.name>>
        BY <2>1 DEF Arrives
      <4>1. p[1] = f.name
        OBVIOUS
      <4> QED
        BY <4>1
    <3>2. ASSUME NEW f \in Written(spec, own)
          PROVE  f.name \in top
      <4>1. <<f.name>> \in DOMAIN got
        BY <2>1 DEF Arrives
      <4>2. <<f.name>>[1] = f.name
        OBVIOUS
      <4> QED
        BY <4>1, <4>2
    <3> HIDE DEF top
    <3> QED
      BY <3>1, <3>2
  <2> HIDE DEF top
  <2>3. CASE spec \in Results
    <3>1. Written(spec, own) = {g \in outs : \A h \in outs : g.id <= h.id}
      BY <2>3 DEF Written
    <3> QED
      BY <2>2, <2>3, <3>1
  <2>4. CASE spec \notin Results
    <3>1. Written(spec, own) = spec
      BY <2>1, <2>4, ParametersWritten
    <3>2. ASSUME NEW f \in spec, NEW g \in f.of
          PROVE  <<f.name, g.name>> \in DOMAIN got <=> g.name # "comment" \/ "comment" \in own
      <4>1. f.of # {} /\ f.of \in {Work, InvalidOperation, SharedStruct}
        BY <2>1, <3>2, NestedTables
      <4>2. Written(f.of, own) = {h \in f.of : h.name = "comment" => h.name \in own}
        BY <4>1, StructsAreNoResults DEF Written
      <4>3. g \in Written(f.of, own) <=> g.name # "comment" \/ "comment" \in own
        BY <3>2, <4>2
      <4>4. Arrives(<<f.name, g.name>>, own) <=> g \in Written(f.of, own)
        <5>1. GoodTable(spec) /\ GoodTable(f.of)
          BY <2>1, <4>1, NestedTables, FlatTables
        <5>2. ASSUME Arrives(<<f.name, g.name>>, own)
              PROVE  g \in Written(f.of, own)
          <6> PICK e \in spec :
                \/ <<f.name, g.name>> = <<e.name>>
                \/ \E h \in Written(e.of, own) : <<f.name, g.name>> = <<e.name, h.name>>
            BY <3>1, <5>2 DEF Arrives
          <6>1. PICK h \in Written(e.of, own) : <<f.name, g.name>> = <<e.name, h.name>>
            OBVIOUS
          <6>2. e = f
            BY <5>1, <6>1 DEF GoodTable
          <6>3. h \in f.of /\ h.name = g.name
            BY <4>2, <6>1, <6>2
          <6>4. h = g
            BY <3>2, <5>1, <6>3 DEF GoodTable
          <6> QED
            BY <6>2, <6>4
        <5>3. ASSUME g \in Written(f.of, own)
              PROVE  Arrives(<<f.name, g.name>>, own)
          BY <3>1, <4>1, <5>3 DEF Arrives
        <5> QED
          BY <5>2, <5>3
      <4> QED
        BY <2>1, <4>3, <4>4
    <3> QED
      BY <2>2, <2>4, <3>1, <3>2
  <2> QED
    BY <2>3, <2>4
<1> QED
  BY <1>1, AlwaysInStep, PTL

=============================================================================
