---------------------------- MODULE SchemaParser ----------------------------
(***************************************************************************)
(* schemagen's parser (tools/schemagen.c): what parse_schema makes of the  *)
(* lines of a schema, and the members and checks gen_c_header and          *)
(* gen_c_impl then write for a field.                                      *)
(*                                                                         *)
(* A field line is its type, whether a size in brackets follows the type,  *)
(* where each keyword stands, and whether its comment has a bracket.  A    *)
(* value is where it was read: only the attributes hold one.               *)
(***************************************************************************)
EXTENDS Naturals, Sequences

CONSTANTS
  FieldLines,                        \* the lines an author may write for a field
  MaxSchemaTypes, MaxSchemaFields,   \* MAX_TYPES, MAX_FIELDS
  MaxSchemaLines                     \* bound: the lines of a schema

SchemaKeys == {"range", "default", "not_empty"}
Places == {"name", "attributes", "comment"}

ASSUME SchemaParserAssumption ==
  /\ {MaxSchemaTypes, MaxSchemaFields, MaxSchemaLines} \subseteq Nat
  /\ FieldLines \subseteq [base : {"int", "string", "struct"}, sized : BOOLEAN,
                           at : [SchemaKeys -> SUBSET Places], note : BOOLEAN]

VARIABLES
  schemaTypes,    \* types: the fields of each
  schemaCurrent,  \* current: a type, or 0 for NULL
  schemaWritten,  \* of each type of the file, the lines in its block
  schemaBlock,    \* the block the author is in, or 0
  schemaPhase,    \* "spec" or "refused"
  schemaLines     \* the lines read

parserVars == <<schemaTypes, schemaCurrent, schemaWritten, schemaBlock, schemaPhase,
                schemaLines>>

SchemaParserInit ==
  /\ schemaTypes = <<>> /\ schemaCurrent = 0
  /\ schemaWritten = <<>> /\ schemaBlock = 0
  /\ schemaPhase = "spec" /\ schemaLines = 0

-----------------------------------------------------------------------------
(* parse_field. *)

HasAttributes(line) == \E k \in SchemaKeys : "attributes" \in line.at[k]

\* The type goes up to the first bracket of the line, a comment's too; a text is
\* recognized by its first letters.
BaseOf(line) ==
  IF line.base # "string" /\ ~line.sized /\ ~HasAttributes(line) /\ line.note
  THEN "struct" ELSE line.base

SizeOf(line) == line.sized \/ (~HasAttributes(line) /\ line.note)

\* strstr: the first place of the whole line that holds the keyword.
FoundAt(line, k) ==
  IF line.at[k] = {} THEN "nowhere"
  ELSE IF "name" \in line.at[k] THEN "name"
  ELSE IF "attributes" \in line.at[k] THEN "attributes" ELSE "comment"

ParsedField(line) ==
  [base |-> BaseOf(line), sized |-> SizeOf(line),
   found |-> [k \in SchemaKeys |-> FoundAt(line, k)]]

-----------------------------------------------------------------------------
(* parse_schema. *)

ReadsSchema ==
  /\ schemaPhase = "spec" /\ schemaLines < MaxSchemaLines
  /\ schemaLines' = schemaLines + 1

\* A type line is cut off at its brace: what follows it on the line is lost, and the
\* type stays open.  The author may also have left the last block open.
SchemaTypeLine(oneLine) ==
  /\ ReadsSchema
  /\ IF Len(schemaTypes) >= MaxSchemaTypes
     THEN /\ schemaPhase' = "refused"
          /\ UNCHANGED <<schemaTypes, schemaCurrent, schemaWritten, schemaBlock>>
     ELSE /\ schemaTypes' = Append(schemaTypes, <<>>)
          /\ schemaCurrent' = Len(schemaTypes) + 1
          /\ schemaWritten' = Append(schemaWritten, <<>>)
          /\ schemaBlock' = IF oneLine THEN 0 ELSE Len(schemaTypes) + 1
          /\ UNCHANGED schemaPhase

SchemaBraceLine ==
  /\ ReadsSchema /\ schemaBlock # 0
  /\ schemaCurrent' = 0 /\ schemaBlock' = 0
  /\ UNCHANGED <<schemaTypes, schemaWritten, schemaPhase>>

\* Mutation of SchemaFieldLine: the field goes to the first type.
SchemaFieldLineOfFirst(line) ==
  /\ ReadsSchema /\ schemaBlock # 0
  /\ schemaTypes' = [schemaTypes EXCEPT ![1] = Append(@, ParsedField(line))]
  /\ schemaWritten' = [schemaWritten EXCEPT ![schemaBlock] = Append(@, line)]
  /\ UNCHANGED <<schemaCurrent, schemaBlock, schemaPhase>>

SchemaFieldLine(line) ==
  /\ ReadsSchema /\ schemaBlock # 0
  /\ IF Len(schemaTypes[schemaCurrent]) >= MaxSchemaFields
     THEN schemaPhase' = "refused" /\ UNCHANGED <<schemaTypes, schemaWritten>>
     ELSE /\ schemaTypes' =
               [schemaTypes EXCEPT ![schemaCurrent] = Append(@, ParsedField(line))]
          /\ schemaWritten' = [schemaWritten EXCEPT ![schemaBlock] = Append(@, line)]
          /\ UNCHANGED schemaPhase
  /\ UNCHANGED <<schemaCurrent, schemaBlock>>

SchemaParserNext ==
  \/ \E oneLine \in BOOLEAN : SchemaTypeLine(oneLine)
  \/ SchemaBraceLine
  \/ \E line \in FieldLines : SchemaFieldLine(line)

SchemaParserSpec == SchemaParserInit /\ [][SchemaParserNext]_parserVars

-----------------------------------------------------------------------------
(* What is written to C. *)

\* The struct's member: a size means something for texts only.
MemberOf(field) == IF field.base = "string" THEN "array" ELSE "single"

\* _init assigns the default, _validate compares with the range or with "".
Assigns(field) == field.found["default"] # "nowhere" /\ field.base # "string"
Compares(field) == field.found["range"] # "nowhere"
AsksForText(field) == field.found["not_empty"] # "nowhere" /\ field.base = "string"

\* gen_proto and gen_fbs.
IsRepeated(field) == field.sized /\ field.base # "string"

-----------------------------------------------------------------------------
\* The tables keep their limits, and no type is open once its block is closed.
SchemaParserTypeOK ==
  /\ Len(schemaTypes) <= MaxSchemaTypes
  /\ schemaCurrent \in 0..Len(schemaTypes) /\ schemaBlock \in {0, schemaCurrent}
  /\ \A i \in DOMAIN schemaTypes : Len(schemaTypes[i]) <= MaxSchemaFields
  /\ schemaPhase \in {"spec", "refused"}

\* The checks of the j-th member of a type come from the j-th line of its block alone,
\* also after a block that was left open or closed on its own line.
ChecksStayWithTheirField ==
  /\ Len(schemaTypes) = Len(schemaWritten)
  /\ \A i \in DOMAIN schemaTypes :
       /\ Len(schemaTypes[i]) = Len(schemaWritten[i])
       /\ \A j \in DOMAIN schemaTypes[i] :
            LET field == schemaTypes[i][j]
                said == {k \in SchemaKeys : schemaWritten[i][j].at[k] # {}}
            IN  /\ Compares(field) <=> "range" \in said
                /\ Assigns(field) => "default" \in said
                /\ AsksForText(field) => "not_empty" \in said

\* What the attributes say is what is written, whatever the comment says of it, unless the
\* field's own name ends in the keyword (has_range: a range 0..0 and no other).
AttributesWin ==
  \A i \in DOMAIN schemaTypes : \A j \in DOMAIN schemaTypes[i] : \A k \in SchemaKeys :
    LET places == schemaWritten[i][j].at[k]
    IN  "attributes" \in places =>
          (schemaTypes[i][j].found[k] # "attributes" <=> "name" \in places)

\* A number becomes a member of its type, and an array of numbers loses its size in C and
\* not in the .proto.  Only a comment's bracket makes something else of it, on a line
\* without attributes.
NumbersKeepTheirType ==
  \A i \in DOMAIN schemaTypes : \A j \in DOMAIN schemaTypes[i] :
    LET line == schemaWritten[i][j]  field == schemaTypes[i][j]
    IN  line.base = "int" =>
          /\ field.base = "int" \/ (line.note /\ ~HasAttributes(line) /\ ~line.sized)
          /\ MemberOf(field) = "single"
          /\ field.base = "int" => (IsRepeated(field) <=> line.sized)

\* A member, its type and its checks are those of its line.
FieldsAreAsWritten ==
  ChecksStayWithTheirField /\ AttributesWin /\ NumbersKeepTheirType
=============================================================================
