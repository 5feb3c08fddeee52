---------------------------- MODULE ThriftStruct ----------------------------
(***************************************************************************)
(* The generated structs of tutorial.thrift and shared.thrift              *)
(* (tutorial/gen-cpp): how they are written to a connection and read back. *)
(* Every read() is the same loop over another table of fields, and every   *)
(* write() the same walk over it; here the tables are data and the loop is *)
(* one action per field.                                                   *)
(*                                                                         *)
(* The wire carries fields in order.  A field of type "struct" is followed *)
(* by the fields of its struct, and "stop" ends a struct.  A value is the  *)
(* place of its field in the message, and 0 for a struct.  The peer at the *)
(* other end is this program ("own", which uses the write() of the same    *)
(* struct) or any version of it ("foreign", which sends fields of any      *)
(* number and type, in any order, even twice).                             *)
(***************************************************************************)
EXTENDS Integers, Sequences, FiniteSets, SequencesExt, FiniteSetsExt

CONSTANTS Ids,        (* field numbers a foreign peer uses                 *)
          MaxFields   (* bound on the fields a foreign peer sends          *)

ASSUME WireAssumption == Ids \subseteq Nat /\ MaxFields \in Nat

I32(id, name)         == [id |-> id, type |-> "i32", name |-> name, of |-> {}]
Text(id, name)        == [id |-> id, type |-> "string", name |-> name, of |-> {}]
Struct(id, name, set) == [id |-> id, type |-> "struct", name |-> name, of |-> set]

-----------------------------------------------------------------------------
(* The tables.  X_args and X_pargs, and X_result and X_presult, are one    *)
(* struct on the wire.                                                     *)
Work             == {I32(1, "num1"), I32(2, "num2"), I32(3, "op"), Text(4, "comment")}
InvalidOperation == {I32(1, "whatOp"), Text(2, "why")}
SharedStruct     == {I32(1, "key"), Text(2, "value")}

PingArgs        == {}
PingResult      == {Text(0, "success")}
AddArgs         == {I32(1, "num1"), I32(2, "num2")}
AddResult       == {I32(0, "success")}
CalculateArgs   == {I32(1, "logid"), Struct(2, "w", Work)}
CalculateResult == {I32(0, "success"), Struct(1, "ouch", InvalidOperation)}
ZipArgs         == {}
GetStructArgs   == {I32(1, "key")}
GetStructResult == {Struct(0, "success", SharedStruct)}

Args    == {PingArgs, AddArgs, CalculateArgs, ZipArgs, GetStructArgs}
Results == {PingResult, AddResult, CalculateResult, GetStructResult}

-----------------------------------------------------------------------------
VARIABLES
    wire,     (* what has been sent and not been read                      *)
    log,      (* history: all that was sent of the message                 *)
    own,      (* history: what this program had set in it; {"foreign"}     *)
    open,     (* the nesting of that message: the fields not closed yet    *)
    begun,    (* whether it has begun the message                          *)
    closed,   (* whether it has closed the connection                      *)
    spec,     (* the table of the reader                                   *)
    frames,   (* the structs it is in, innermost first                     *)
    got,      (* what it has stored: a function from paths of names        *)
    pc        (* "reading", "done" or "eof"                                *)

vars == <<wire, log, own, open, begun, closed, spec, frames, got, pc>>

(* A field on the wire.  "at" is a ghost, the message and the numbers and  *)
(* types of the fields around it and of itself; the reader ignores it, and *)
(* everything but the type of a stop.                                      *)
Token(f, v, at) ==
    [id |-> f.id, type |-> f.type, val |-> IF f.type = "struct" THEN 0 ELSE v, at |-> at]

Stop == [id |-> 0, type |-> "stop", val |-> 0, at |-> <<>>]

(* Seeded fault: a result written with every field that is set.            *)
WrittenAll(s, set) == {f \in s : f.name \in set}

(* A result is written as its first field that is set ("if ... else if"),  *)
(* anything else as all its fields; only Work's comment is optional.       *)
Written(s, set) ==
    IF s \in Results
    THEN {f \in s : f.name \in set /\ \A g \in s : g.name \in set => f.id <= g.id}
    ELSE {f \in s : f.name = "comment" => f.name \in set}

ById(s) ==
    CHOOSE q \in [1..Cardinality(s) -> s] :
        \A i, j \in 1..Cardinality(s) : i < j => q[i].id < q[j].id

(* write() of a struct without struct fields, and of one with them.  set   *)
(* holds the names in __isset, and of a struct field whether its optional  *)
(* field is set.                                                           *)
FlatTokens(s, set, at) ==
    LET fs == ById(Written(s, set))
    IN  [i \in 1..Len(fs) |-> Token(fs[i], i, Append(at, <<fs[i].id, fs[i].type>>))]

FieldTokens(f, set, at) ==
    LET here == Append(at, <<f.id, f.type>>)
    IN  <<Token(f, f.id, here)>> \o
        (IF f.of = {} THEN <<>> ELSE Append(FlatTokens(f.of, set, here), Stop))

Tokens(s, set) ==
    LET fs == ById(Written(s, set))
    IN  FlattenSeq([i \in 1..Len(fs) |-> FieldTokens(fs[i], set, <<>>)])

Frame(of, path) == [of |-> of, path |-> path]

Init ==
    /\ wire = <<>> /\ log = <<>> /\ own = {"foreign"} /\ open = <<>>
    /\ begun = FALSE /\ closed = FALSE
    /\ spec \in Args \union Results
    /\ frames = <<Frame(spec, <<>>)>> /\ got = <<>> /\ pc = "reading"

-----------------------------------------------------------------------------
(* The peer.                                                               *)
peer   == <<log, own, open, begun, closed>>
reader == <<spec, frames, got, pc>>

(* The peer is this program: one write(), then flush().                    *)
SendOwn(set) ==
    /\ ~closed /\ ~begun
    /\ begun' = TRUE
    /\ own' = set
    /\ log' = Append(Tokens(spec, set), Stop)
    /\ wire' = wire \o log'
    /\ UNCHANGED <<open, closed>> /\ UNCHANGED reader

(* Any peer: opens a message, then sends fields, opens and closes structs. *)
SendBegin ==
    /\ ~closed /\ ~begun
    /\ begun' = TRUE
    /\ own' = {"foreign"}
    /\ open' = << <<>> >>
    /\ UNCHANGED <<wire, log, closed>> /\ UNCHANGED reader

SendField(id, type) ==
    /\ open # <<>> /\ ~closed
    /\ Cardinality({i \in DOMAIN log : log[i] # Stop}) < MaxFields
    /\ LET at == Append(Head(open), <<id, type>>)
           t  == Token([id |-> id, type |-> type], Len(log) + 1, at)
       IN  /\ log' = Append(log, t)
           /\ wire' = Append(wire, t)
           /\ open' = IF type = "struct" THEN <<at>> \o open ELSE open
    /\ UNCHANGED <<own, begun, closed>> /\ UNCHANGED reader

SendStop ==
    /\ open # <<>> /\ ~closed
    /\ log' = Append(log, Stop)
    /\ wire' = Append(wire, Stop)
    /\ open' = Tail(open)
    /\ UNCHANGED <<own, begun, closed>> /\ UNCHANGED reader

Close ==
    /\ ~closed
    /\ closed' = TRUE
    /\ UNCHANGED <<wire, log, own, open, begun>> /\ UNCHANGED reader

-----------------------------------------------------------------------------
(* The reader.                                                             *)
Skipped         == <<"skip">>

(* The stored fields keep their values when a struct is read into again.   *)
Store(path, v) ==
    IF path[1] = "skip" THEN got
    ELSE [p \in DOMAIN got \union {path} |-> IF p = path THEN v ELSE got[p]]

(* Seeded faults: a reader that looks at the number only, and one that     *)
(* skips a struct field without what is in it.                             *)
KnownById(s, t)           == {f \in s : f.id = t.id}
OpenedNot(t, match, path) == IF match = {} THEN frames ELSE << Frame({}, path) >> \o frames

(* case fid: the type must be the expected one too.                        *)
Known(s, t) == {f \in s : f.id = t.id /\ f.type = t.type}

PathOf(top, match) ==
    IF match = {} THEN Skipped ELSE Append(top.path, (CHOOSE f \in match : TRUE).name)

(* The read() of the struct, or skip(T_STRUCT): a read() that knows no     *)
(* field.                                                                  *)
Opened(t, match, path) == << Frame(UNION {f.of : f \in match}, path) >> \o frames

(* The end of the innermost loop.                                          *)
Closed == Tail(frames)

(* One round of the loop, for a field of this struct or of a skipped one.  *)
ReadField ==
    /\ pc = "reading"
    /\ wire # <<>> /\ Head(wire).type # "stop"
    /\ LET t     == Head(wire)
           match == Known(Head(frames).of, t)
           path  == PathOf(Head(frames), match)
       IN  IF t.type = "struct"
           THEN frames' = Opened(t, match, path) /\ UNCHANGED got
           ELSE got' = Store(path, t.val) /\ UNCHANGED frames
    /\ wire' = Tail(wire)
    /\ UNCHANGED <<spec, pc>> /\ UNCHANGED peer

(* T_STOP ends the loop; __isset of a struct field is set after its read.  *)
ReadStop ==
    /\ pc = "reading"
    /\ wire # <<>> /\ Head(wire).type = "stop"
    /\ frames' = Closed
    /\ pc' = IF Closed = <<>> THEN "done" ELSE pc
    /\ got' = IF Closed = <<>> THEN got ELSE Store(Head(frames).path, 0)
    /\ wire' = Tail(wire)
    /\ UNCHANGED spec /\ UNCHANGED peer

(* Seeded fault: a reader that tries again at the end of the connection.   *)
EofIgnored == pc = "reading" /\ wire = <<>> /\ closed /\ UNCHANGED vars

(* The transport throws when the connection ends within a struct.          *)
ReadEof ==
    /\ pc = "reading" /\ wire = <<>> /\ closed
    /\ pc' = "eof"
    /\ UNCHANGED <<wire, spec, frames, got>> /\ UNCHANGED peer

Next ==
    \/ \E set \in SUBSET {"success", "ouch", "comment"} : SendOwn(set)
    \/ SendBegin
    \/ \E id \in Ids, type \in {"i32", "string", "struct"} : SendField(id, type)
    \/ SendStop \/ Close
    \/ ReadField \/ ReadStop \/ ReadEof

Reads == ReadField \/ ReadStop \/ ReadEof

(* The thread that reads keeps reading.                                    *)
Spec == Init /\ [][Next]_vars /\ WF_vars(Reads)

-----------------------------------------------------------------------------
TypeOK ==
    /\ spec \in Args \union Results
    /\ pc \in {"reading", "done", "eof"}
    /\ pc = "reading" => frames # <<>>
    /\ \A p \in DOMAIN got : got[p] \in Nat

(* Whatever a peer sends, unknown fields and fields of another type with   *)
(* all that is in them included, read() takes one message, neither less    *)
(* (the rest would be taken for the next message) nor more (it would wait  *)
(* for bytes that never come).                                             *)
Framed ==
    /\ TypeOK
    /\ pc = "done" => wire = <<>> /\ open = <<>>
    /\ pc = "reading" /\ begun /\ open = <<>> => wire # <<>>

(* The names under which the reader's table knows a field.                 *)
Names(at) ==
    LET Hits(s, k) == {f \in s : <<f.id, f.type>> = at[k]}
    IN  IF Len(at) = 1 THEN { <<f.name>> : f \in Hits(spec, 1) }
        ELSE IF Len(at) = 2
        THEN UNION { { <<f.name, g.name>> : g \in Hits(f.of, 2) } : f \in Hits(spec, 1) }
        ELSE {}

Sent == UNION {Names(log[i].at) : i \in DOMAIN log}

(* A struct read completely holds, for each field of its table, the last   *)
(* value sent under that number with that type, and nothing else.          *)
ReadsWhatWasSent ==
    pc = "done" =>
        got = [p \in Sent |-> log[Max({i \in DOMAIN log : p \in Names(log[i].at)})].val]

(* Between two ends built from this code, an argument struct arrives with  *)
(* all its fields, and a result with one outcome, success before ouch; one *)
(* with neither arrives empty, which the client reports.                   *)
RoundTrip ==
    pc = "done" /\ own # {"foreign"} =>
        LET top  == {p[1] : p \in DOMAIN got}
            outs == {f \in spec : f.name \in own}
        IN  IF spec \in Results
            THEN top = {f.name : f \in {g \in outs : \A h \in outs : g.id <= h.id}}
            ELSE /\ top = {f.name : f \in spec}
                 /\ \A f \in spec : \A g \in f.of :
                        <<f.name, g.name>> \in DOMAIN got <=> g.name # "comment" \/ "comment" \in own

(* A read() of a message that is complete, or of a connection that has     *)
(* ended, ends.                                                            *)
ReadEnds ==
    pc = "reading" /\ (closed \/ (begun /\ open = <<>>)) ~> pc # "reading"

=============================================================================
