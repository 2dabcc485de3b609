------------------------------ MODULE GenKinds ------------------------------
(***************************************************************************)
(* What a committed type of gen/ is made of: the C types of its fields,    *)
(* what _init and _validate do with them, the yyjson call each field is    *)
(* written and read with, and its column.  The names, the order and the    *)
(* number of the members and of the columns are those of the struct's      *)
(* fields, so that a field is its position here.                           *)
(***************************************************************************)
EXTENDS Integers, Sequences

\* n fields in a row of one kind.
Row(kind, n) == [i \in 1..n |-> kind]

Char(n) == Row("char", n)
U8(n) == Row("u8", n)
I32(n) == Row("i32", n)
U32(n) == Row("u32", n)
I64(n) == Row("i64", n)
U64(n) == Row("u64", n)
F64(n) == Row("f64", n)

\* yyjson_mut_obj_add_<kind> and yyjson_get_<kind>.
JStr(n) == Row("str", n)
JInt(n) == Row("int", n)
JUint(n) == Row("uint", n)
JReal(n) == Row("real", n)

\* sqlite3_bind_<kind> and sqlite3_column_<kind>; `id` is the column of that name.
Text(n) == Row("text", n)
Integer(n) == Row("int64", n)
Double(n) == Row("double", n)
Table(kinds, id) == [kinds |-> kinds, id |-> id]
NoId == 0

\* <<field, default>>, the texts that may not be empty, <<field, lowest, highest>>.
Checks(defaults, required, ranges) ==
  [defaults |-> defaults, required |-> required, ranges |-> ranges]
=============================================================================
