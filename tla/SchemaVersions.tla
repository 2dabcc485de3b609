--------------------------- MODULE SchemaVersions ---------------------------
(***************************************************************************)
(* schemagen (tools/schemagen.c): the functions it writes to keep a type   *)
(* in an SQLite table and in JSON.  Programs generated from different      *)
(* versions of one schema share a database and send each other JSON.       *)
(*                                                                         *)
(* Tables, statements and JSON documents are external: modelled by what    *)
(* the generated code asks of SQLite and yyjson.                           *)
(***************************************************************************)
EXTENDS Naturals, Sequences, SequencesExt

CONSTANTS
  FieldNames, Id,
  FieldType,      \* of each: "signed", "unsigned", "text" or "struct"
  Versions,
  Schema,         \* the fields of each version, in the order of the file
  Signed, Texts,  \* values of fields
  IntValues,      \* yyjson_get_int returns an int: a value modulo IntValues
  MaxOps          \* bound: the calls made

\* "not a table", and what an unbound column holds.
NoTable == <<>>
Null == <<"null", 0>>

ASSUME SchemaAssumption ==
  /\ Id \in FieldNames /\ FieldType[Id] = "unsigned"
  /\ FieldType \in [FieldNames -> {"signed", "unsigned", "text", "struct"}]
  /\ Schema \in [Versions -> Seq(FieldNames) \ {<<>>}]
  /\ \A v \in Versions : IsInjective(Schema[v])
  /\ Signed \subseteq Nat /\ IntValues \in Nat \ {0} /\ MaxOps \in Nat

IntOf(n) == <<"int", n>>
TextOf(t) == <<"text", t>>
ValuesOf(f) ==
  CASE FieldType[f] = "text" -> {TextOf(t) : t \in Texts}
    [] FieldType[f] = "signed" -> {IntOf(n) : n \in Signed}
    [] FieldType[f] = "unsigned" -> {IntOf(1)}
    [] FieldType[f] = "struct" -> {<<"struct", 1>>}

FieldsOf(v) == ToSet(Schema[v])
Objects ==
  [v \in Versions |->
     {obj \in [FieldsOf(v) -> UNION {ValuesOf(f) : f \in FieldsOf(v)}] :
        \A f \in FieldsOf(v) : obj[f] \in ValuesOf(f)}]

\* What the generated _init makes of an object.
Zeroed(v) ==
  [f \in FieldsOf(v) |-> CASE FieldType[f] = "text" -> TextOf("")
                           [] FieldType[f] = "struct" -> <<"struct", 0>>
                           [] OTHER -> IntOf(0)]

VARIABLES
  columns,        \* the table's columns, in order
  rows,           \* its rows: the object that was inserted, by whom, and the cells
  json,           \* a document, and the object and version it is of
  loaded,         \* the last select or from_json, and the row or document it read
  ops

schemaVars == <<columns, rows, json, loaded, ops>>

NoDocument == [by |-> 0, obj |-> <<>>, members |-> <<>>]
NothingLoaded == [from |-> "nothing", by |-> 0, row |-> 0, into |-> <<>>, obj |-> <<>>,
                  sent |-> NoDocument]

SchemaInit ==
  /\ columns = NoTable /\ rows = <<>>
  /\ json = NoDocument
  /\ loaded = NothingLoaded
  /\ ops = 0

Call == ops < MaxOps /\ ops' = ops + 1

-----------------------------------------------------------------------------
(* SQL. *)

\* CREATE TABLE IF NOT EXISTS, with no key.
CreateTable(v) ==
  /\ Call
  /\ columns' = IF columns = NoTable THEN Schema[v] ELSE columns
  /\ UNCHANGED <<rows, json, loaded>>

Bound(f) == FieldType[f] # "struct"

\* INSERT names its columns and binds the j-th parameter to the j-th field.  It
\* cannot be prepared where a column is missing.
CellsOf(v, obj) ==
  [c \in ToSet(columns) |-> IF c \in FieldsOf(v) /\ Bound(c) THEN obj[c] ELSE Null]

Insert(v, obj) ==
  /\ Call
  /\ rows' = IF FieldsOf(v) \subseteq ToSet(columns)
             THEN Append(rows, [by |-> v, obj |-> obj, cells |-> CellsOf(v, obj)])
             ELSE rows
  /\ UNCHANGED <<columns, json, loaded>>

\* sqlite3_column_int64 and sqlite3_column_text convert; no text of Texts is a number.
Converted(value, type) ==
  CASE type = "text" -> IF value[1] = "int" THEN <<"digits", value[2]>> ELSE value
    [] OTHER -> IF value[1] = "int" THEN value ELSE IntOf(0)

\* The j-th column of SELECT *, or NULL past the last one.
Cell(row, j) == IF j <= Len(columns) THEN row.cells[columns[j]] ELSE Null
PositionOf(v, f) == CHOOSE j \in DOMAIN Schema[v] : Schema[v][j] = f

Read(v, row, into) ==
  [f \in FieldsOf(v) |->
     IF Bound(f) THEN Converted(Cell(row, PositionOf(v, f)), FieldType[f]) ELSE into[f]]

\* strncpy from the NULL that sqlite3_column_text returns for a NULL.
ReadsNullText(v, row) ==
  \E f \in FieldsOf(v) : FieldType[f] = "text" /\ Cell(row, PositionOf(v, f)) = Null

\* Mutation of FirstRow: the newest row is found.
LastRow(id) ==
  LET found == {r \in DOMAIN rows : rows[r].cells[Id] = id}
  IN IF found = {} THEN 0 ELSE CHOOSE r \in found : \A s \in found : s <= r

\* The first row SQLite comes to, that is the oldest.
FirstRow(id) ==
  LET found == {r \in DOMAIN rows : rows[r].cells[Id] = id}
  IN IF found = {} THEN 0 ELSE CHOOSE r \in found : \A s \in found : r <= s

SelectById(v, id, into) ==
  /\ Call
  /\ loaded' =
       IF Id \notin ToSet(columns) \/ FirstRow(id) = 0
       THEN [from |-> "failed", by |-> v, row |-> 0, into |-> into, obj |-> into,
             sent |-> NoDocument]
       ELSE LET row == rows[FirstRow(id)]
            IN IF ReadsNullText(v, row)
               THEN [from |-> "crash", by |-> v, row |-> FirstRow(id),
                     into |-> into, obj |-> into, sent |-> NoDocument]
               ELSE [from |-> "sql", by |-> v, row |-> FirstRow(id),
                     into |-> into, obj |-> Read(v, row, into), sent |-> NoDocument]
  /\ UNCHANGED <<columns, rows, json>>

-----------------------------------------------------------------------------
(* JSON. *)

ToJson(v, obj) ==
  /\ Call
  /\ json' = [by |-> v, obj |-> obj,
              members |-> [f \in {g \in FieldsOf(v) : Bound(g)} |-> obj[f]]]
  /\ UNCHANGED <<columns, rows, loaded>>

\* yyjson_get_int is for fields of every signed type.
Narrowed(f, value) ==
  IF FieldType[f] = "signed" THEN IntOf(value[2] % IntValues) ELSE value

FromJson(v, into) ==
  /\ Call /\ json # NoDocument
  /\ loaded' = [from |-> "json", by |-> v, row |-> 0, into |-> into, sent |-> json,
                obj |-> [f \in FieldsOf(v) |-> IF f \in DOMAIN json.members
                                               THEN Narrowed(f, json.members[f])
                                               ELSE into[f]]]
  /\ UNCHANGED <<columns, rows, json>>

\* An application loads into a fresh object or into one it has used.
SchemaNext ==
  \E v \in Versions :
    \/ CreateTable(v)
    \/ \E obj \in Objects[v] : Insert(v, obj) \/ ToJson(v, obj)
    \/ \E into \in Objects[v] \cup {Zeroed(v)} :
         SelectById(v, IntOf(1), into) \/ FromJson(v, into)

SchemaSpec == SchemaInit /\ [][SchemaNext]_schemaVars

-----------------------------------------------------------------------------
(* Properties. *)

\* The table is one of the schemas and every row fits it (schemagen.c:554-563).
StoreTypeOK ==
  /\ columns \in {Schema[v] : v \in Versions} \cup {NoTable}
  /\ \A r \in DOMAIN rows : DOMAIN rows[r].cells = ToSet(columns)
  /\ loaded.from \in {"nothing", "failed", "crash", "sql", "json"}
  /\ loaded.from # "nothing" => DOMAIN loaded.obj = FieldsOf(loaded.by)

\* As long as the reader's fields are the first of the table's, whoever made the
\* table and whoever wrote the row, a select gives each field as it was written,
\* and 0 where the writer had no such field; embedded structs are left as they
\* were.  A field that was put in the middle breaks this, because rows are written
\* by name and read by position (schemagen.c:569-577 against :607-630).
SelectReadsInitialParts ==
  loaded.from = "sql" /\ IsPrefix(Schema[loaded.by], columns) =>
    LET row == rows[loaded.row]
    IN \A f \in FieldsOf(loaded.by) :
         loaded.obj[f] = IF ~Bound(f) THEN loaded.into[f]
                         ELSE IF f \in FieldsOf(row.by) THEN row.obj[f]
                         ELSE IntOf(0)

\* The NULL text that crashes a select is never of the reader's own making: its
\* writer lacked the field, or its table has other columns (schemagen.c:624).
CrashNeedsAnotherVersion ==
  loaded.from = "crash" =>
    \/ Schema[loaded.by] # columns
    \/ Schema[rows[loaded.row].by] # columns

\* An id that is inserted again is never seen: the table has no key, so the first
\* object stays the one that is selected (schemagen.c:555, :607).
OldestRowIsRead ==
  loaded.row # 0 =>
    \A r \in DOMAIN rows :
      r < loaded.row /\ Id \in FieldsOf(rows[r].by) =>
        rows[r].obj[Id] # rows[loaded.row].obj[Id]

\* JSON goes by name: between any two versions each field they share arrives, a
\* signed one as far as an int holds it, and what the sender lacks stays as it
\* was in the object that is filled (schemagen.c:451-472, :489-512).
JsonGoesByName ==
  loaded.from = "json" =>
    \A f \in FieldsOf(loaded.by) :
      \/ /\ f \in FieldsOf(loaded.sent.by) /\ Bound(f)
         /\ loaded.obj[f] = loaded.sent.obj[f] \/ loaded.sent.obj[f][2] >= IntValues
      \/ /\ f \notin FieldsOf(loaded.sent.by) \/ ~Bound(f)
         /\ loaded.obj[f] = loaded.into[f]

\* What programs of different versions may expect of each other's rows and documents.
VersionsReadEachOther ==
  /\ SelectReadsInitialParts /\ CrashNeedsAnotherVersion /\ OldestRowIsRead
  /\ JsonGoesByName
=============================================================================
