--------------------------- MODULE GeneratedTypes ---------------------------
(***************************************************************************)
(* A program that keeps one object of a type of gen/ (GenTables): _init,   *)
(* _validate, to_json and from_json, create_table, insert and              *)
(* select_by_id, as the committed files define them.                       *)
(*                                                                         *)
(* A number is <<wraps, low>>, wraps * 2^32 + low with low an int, so that *)
(* low is what a conversion to int keeps; of wraps only the sign counts.   *)
(* A text is empty (0), UTF-8 (1) or not (2).  Infinity is a double.       *)
(* The yyjson calls are those of vendors/libs; SQLite is external.         *)
(***************************************************************************)
EXTENDS GenTables, FiniteSets

CONSTANTS MaxEdits, MaxGenCalls   \* bounds: the fields written, the calls made

ASSUME GenAssumption == MaxEdits \in Nat /\ MaxGenCalls \in Nat

VARIABLES
  typeAt,     \* the file and the type in it
  record,     \* the object
  edits,      \* the writes of the application
  document,   \* the buffer to_json fills: the members' values
  sent,       \* the object at the last to_json that succeeded
  stored,     \* the row of the table, or NoRow
  reply,      \* the last call: its name, whether it succeeded, the object it filled
  genCalls

genVars == <<typeAt, record, edits, document, sent, stored, reply, genCalls>>

Num(n) == <<0, n>>
Infinity == <<9, 0>>
MinInt == -2147483647 - 1
MaxInt == 2147483647
Below(a, b) == a[1] < b[1] \/ (a[1] = b[1] /\ a[2] < b[2])

Structs(at) == GenFiles[at[1]].structs[at[2]]
ChecksOf(at) == GenFiles[at[1]].checks[at[2]]
JsonOf(at) == GenFiles[at[1]].calls[at[2]]
SqlOf(at) == GenFiles[at[1]].tables[at[2]]
HasOutputs(at) == GenFiles[at[1]].calls # <<>>
FieldsAt(at) == DOMAIN Structs(at)

TypesOfGen ==
  UNION {{<<f, i>> : i \in DOMAIN GenFiles[f].structs} : f \in DOMAIN GenFiles}

CTypes == {"char", "u8", "i32", "u32", "i64", "u64", "f64"}

\* The edges of each C type.
Edges(kind) ==
  CASE kind = "char" -> {Num(0), Num(1), Num(2)}
    [] kind = "u8" -> {Num(0), Num(255)}
    [] kind = "i32" -> {Num(MinInt), Num(-1), Num(MaxInt)}
    [] kind = "u32" -> {Num(0), <<1, -1>>}
    [] kind = "i64" -> {<<-1, 0>>, Num(MinInt), <<1, 5>>}
    [] kind = "u64" -> {Num(0), <<2, -1>>}
    [] kind = "f64" -> {Num(-1), Infinity}

HasKind(kind, v) ==
  CASE kind = "char" -> v \in {Num(0), Num(1), Num(2)}
    [] kind = "u8" -> v[1] = 0 /\ v[2] \in 0..255
    [] kind = "i32" -> v[1] = 0
    [] kind = "u32" -> ~ Below(v, Num(0)) /\ ~ Below(<<1, -1>>, v)
    [] kind = "u64" -> ~ Below(v, Num(0))
    [] OTHER -> TRUE

\* What is worth writing to a field: an edge of its type or of its range.
WorthWriting(at, i) ==
  LET kind == Structs(at)[i]
      near == UNION {{Num(r[2] - 1), Num(r[2]), Num(r[3]), Num(r[3] + 1)} :
                       r \in {q \in ChecksOf(at).ranges : q[1] = i}}
  IN  {v \in Edges(kind) \cup near : HasKind(kind, v)}

-----------------------------------------------------------------------------
NoRow == <<>>
NoReply == [call |-> "none", ok |-> TRUE, filled |-> <<>>]

\* _init: memset, then the defaults.
Initial(at) ==
  [i \in FieldsAt(at) |->
     IF \E d \in ChecksOf(at).defaults : d[1] = i
     THEN Num((CHOOSE d \in ChecksOf(at).defaults : d[1] = i)[2])
     ELSE Num(0)]

\* The application fills in the texts _validate asks for.
WithTexts(at) ==
  [i \in FieldsAt(at) |->
     IF i \in ChecksOf(at).required THEN Num(1) ELSE Initial(at)[i]]

GenInit ==
  /\ typeAt \in TypesOfGen
  /\ record = WithTexts(typeAt)
  /\ edits = 0
  /\ document = <<>> /\ sent = <<>>
  /\ stored = NoRow
  /\ reply = NoReply
  /\ genCalls = 0

\* The application writes a field.
Edit ==
  /\ edits < MaxEdits
  /\ edits' = edits + 1
  /\ \E i \in FieldsAt(typeAt) : \E v \in WorthWriting(typeAt, i) :
       record' = [record EXCEPT ![i] = v]
  /\ UNCHANGED <<typeAt, document, sent, stored, reply, genCalls>>

GenCall(name, ok, filled) ==
  /\ genCalls < MaxGenCalls
  /\ genCalls' = genCalls + 1
  /\ reply' = [call |-> name, ok |-> ok, filled |-> filled]
  /\ UNCHANGED <<typeAt, record, edits>>

-----------------------------------------------------------------------------
\* _validate.
IsValid(at, obj) ==
  /\ \A i \in ChecksOf(at).required : obj[i] # Num(0)
  /\ \A r \in ChecksOf(at).ranges :
       ~ Below(obj[r[1]], Num(r[2])) /\ ~ Below(Num(r[3]), obj[r[1]])

Validate ==
  /\ GenCall("validate", IsValid(typeAt, record), <<>>)
  /\ UNCHANGED <<document, sent, stored>>

\* yyjson_mut_write gives up on an infinite number and on a text that is not UTF-8.
Writable(kind, v) ==
  /\ kind = "real" => v # Infinity
  /\ kind = "str" => v # Num(2)

\* Mutation of AsRead: every number is read with yyjson_get_int.
AsReadInt(kind, v) == IF kind \in {"int", "uint"} THEN Num(v[2]) ELSE v

\* yyjson_get_<kind>: yyjson_get_int casts the 64 bits to an int.
AsRead(kind, v) == IF kind = "int" THEN Num(v[2]) ELSE v

\* to_json: -1 leaves the buffer as it was, also where it is too small.
ToJsonOk ==
  /\ HasOutputs(typeAt)
  /\ \A i \in FieldsAt(typeAt) : Writable(JsonOf(typeAt)[i], record[i])
  /\ GenCall("to_json", TRUE, <<>>)
  /\ document' = record /\ sent' = record
  /\ UNCHANGED stored

ToJsonFails ==
  /\ HasOutputs(typeAt)
  /\ GenCall("to_json", FALSE, <<>>)
  /\ UNCHANGED <<document, sent, stored>>

\* from_json, into an object of its own.
FromJsonText ==
  /\ HasOutputs(typeAt) /\ document # <<>>
  /\ GenCall("from_json", TRUE,
             [i \in FieldsAt(typeAt) |-> AsRead(JsonOf(typeAt)[i], document[i])])
  /\ UNCHANGED <<document, sent, stored>>

-----------------------------------------------------------------------------
\* create_table and insert: one row, in the order of the columns.
InsertRow ==
  /\ HasOutputs(typeAt) /\ stored = NoRow
  /\ GenCall("insert", TRUE, <<>>)
  /\ stored' = record
  /\ UNCHANGED <<document, sent>>

\* The C types a column of each kind keeps as they are.
Keeps(kind) ==
  CASE kind = "text" -> {"char"}
    [] kind = "int64" -> {"u8", "i32", "u32", "i64", "u64"}
    [] kind = "double" -> {"f64"}

\* Bound and read as a column of this kind; a value of another kind is converted to 0.
FromColumn(kind, ctype, v) == IF ctype \in Keeps(kind) THEN v ELSE Num(0)

\* SELECT * ... WHERE id = ? is refused where there is no such column.
Prepares(at) == SqlOf(at).id # NoId

\* select_by_id, of the id the row has.
SelectRow ==
  /\ HasOutputs(typeAt) /\ stored # NoRow
  /\ GenCall("select_by_id", Prepares(typeAt),
             IF Prepares(typeAt)
             THEN [i \in FieldsAt(typeAt) |->
                     FromColumn(SqlOf(typeAt).kinds[i], Structs(typeAt)[i], stored[i])]
             ELSE <<>>)
  /\ UNCHANGED <<document, sent, stored>>

-----------------------------------------------------------------------------
\* What the tables of gen/ must have in common for an object to come back: a check is
\* of a field that can pass it, with its default, and has no limit beyond an int; and
\* the calls of JSON and the columns of a table with an `id` are those of the C types.
TablesFit(at) ==
  LET kind   == Structs(at)
      checks == ChecksOf(at)
  IN  /\ \A i \in FieldsAt(at) : kind[i] \in CTypes
      /\ \A i \in checks.required : i \in FieldsAt(at) /\ kind[i] = "char"
      /\ \A d \in checks.defaults :
           /\ d[1] \in FieldsAt(at) /\ d[2] \in Int
           /\ HasKind(kind[d[1]], Num(d[2]))
           /\ \A e \in checks.defaults : e[1] = d[1] => e = d
      /\ \A r \in checks.ranges :
           /\ r[1] \in FieldsAt(at) \ checks.required
           /\ r[2] \in Int /\ r[3] \in Nat
           /\ \A d \in checks.defaults : d[1] = r[1] => d[2] \in r[2]..r[3]
      /\ HasOutputs(at) =>
           \A i \in FieldsAt(at) :
             /\ JsonOf(at)[i] = "int" => kind[i] \in {"u8", "i32", "i64"}
             /\ SqlOf(at).id # NoId => kind[i] \in Keeps(SqlOf(at).kinds[i])

\* The committed ones do.
ASSUME TablesAssumption == \A at \in TypesOfGen : TablesFit(at)

-----------------------------------------------------------------------------
GenNext ==
  Edit \/ Validate \/ ToJsonOk \/ ToJsonFails \/ FromJsonText \/ InsertRow \/ SelectRow

GenSpec == GenInit /\ [][GenNext]_genVars
-----------------------------------------------------------------------------
\* The object, the text and the row are of the type, the fields within their C types.
GenTypeOK ==
  /\ typeAt \in TypesOfGen /\ edits \in 0..MaxEdits /\ genCalls \in 0..MaxGenCalls
  /\ \A obj \in {record} \cup ({sent, stored, reply.filled} \ {<<>>}) :
       /\ DOMAIN obj = FieldsAt(typeAt)
       /\ \A i \in FieldsAt(typeAt) : HasKind(Structs(typeAt)[i], obj[i])
  /\ reply.call \in {"none", "validate", "to_json", "from_json", "insert",
                     "select_by_id"}
  /\ reply.ok \in BOOLEAN

\* A new object with its texts filled in is refused by _validate for one reason: a range
\* without 0 on a field without a default.  The defaults are all within their ranges.
FreshObjectsPass ==
  reply.call = "validate" /\ edits = 0 =>
    (~ reply.ok <=>
       \E r \in ChecksOf(typeAt).ranges :
         /\ Below(Num(0), Num(r[2]))
         /\ ~ \E d \in ChecksOf(typeAt).defaults : d[1] = r[1])

\* from_json makes of a text the object that went into it, also after later writes and
\* failed calls of to_json, except in an i64 beyond an int, of which it keeps 32 bits.
JsonKeepsWhatFits ==
  reply.call = "from_json" =>
    \A i \in FieldsAt(typeAt) :
      reply.filled[i] # sent[i] => Structs(typeAt)[i] = "i64" /\ sent[i][1] # 0

\* An object _validate accepts is accepted when it comes back from JSON or the table, the
\* cut i64 notwithstanding: no range reaches beyond an int.
ValidityTravels ==
  /\ reply.call = "from_json" /\ IsValid(typeAt, sent) => IsValid(typeAt, reply.filled)
  /\ reply.call = "select_by_id" /\ reply.ok /\ IsValid(typeAt, stored) =>
       IsValid(typeAt, reply.filled)

\* A row comes back whole where the type has a field `id`, and never where it has none.
RowsComeBackWhole ==
  reply.call = "select_by_id" =>
    IF SqlOf(typeAt).id = NoId THEN ~ reply.ok
    ELSE reply.ok /\ reply.filled = stored

\* An object of a committed type is valid when new, and the same when it comes back.
ObjectsComeBack ==
  FreshObjectsPass /\ JsonKeepsWhatFits /\ ValidityTravels /\ RowsComeBackWhole
=============================================================================
