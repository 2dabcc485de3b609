----------------------------- MODULE ApiTables -----------------------------
(***************************************************************************)
(* apigen (tools/apigen/apigen.c): the endpoints and types it reads from   *)
(* an .api file, the enum of errors it writes to the header, the table of  *)
(* error strings and the routes it writes beside it, and the dispatcher.   *)
(*                                                                         *)
(* apiText is the file so far, each line with the block its author wrote   *)
(* it in, and a list of errors as one entry for each of them.  An error of *)
(* an endpoint, and a field of a type, is the number of its entry.  What   *)
(* stands after the brace of a type the parser does not read: such a type  *)
(* is in apiOnLine, its entry has a field that its author meant, and the   *)
(* lines after it may become fields of it.                                 *)
(***************************************************************************)
EXTENDS Naturals, Sequences, SequencesExt

CONSTANTS
  ErrorNames,     \* what may stand between the brackets of errors: [ ]
  EnumOf,         \* the constant of each, its name in upper snake case
  ErrorLists,     \* the lists an author may write
  Methods, Paths,
  MaxEndpoints, MaxErrors, MaxTypes, MaxFields,     \* MAX_*
  MaxApiLines     \* bound: the entries of a file

Get == "GET"              \* parse_method of anything it does not know, and memset's
BaseErrors == <<"INVALID_INPUT", "NOT_FOUND", "INTERNAL">>

ASSUME ApiAssumption ==
  /\ {MaxEndpoints, MaxErrors, MaxTypes, MaxFields, MaxApiLines} \subseteq Nat
  /\ EnumOf \in [ErrorNames -> STRING]
  /\ ErrorLists \subseteq Seq(ErrorNames)
  /\ Get \in Methods

NoPath == ""
NoValue == ""
Fields == {"name", "version"}     \* a field, and one that looks like the API's version

VARIABLES
  endpoints, apiTypes, apiVersion,     \* api_def_t; of the version, whether it is set
  apiOnLine,      \* the types whose author has written them on one line
  apiCur,         \* cur_endpoint or cur_type, always the last: "endpoint", "type", "none"
  apiText,        \* the entries read
  apiBlock,       \* the block the author is in
  apiPhase,       \* "spec", "refused", "errors" or "serving"
  errorAt,        \* the endpoint and the error that are written next
  errorEnum,      \* prefix_error_t as it is written, without OK and COUNT
  errorStrings,   \* error_strings[], without "OK": of each string, the constant
                  \* of the error it is written for
  answer          \* what the last call of dispatch did

parsedVars == <<endpoints, apiTypes, apiVersion, apiOnLine, apiCur, apiText, apiBlock>>
errorVars == <<errorAt, errorEnum, errorStrings>>
apiVars == <<parsedVars, errorVars, apiPhase, answer>>

Top == <<"api", 0>>
Answer404 == 0            \* the others are endpoints
NoAnswer == [method |-> Get, path |-> NoPath, by |-> Answer404]

ApiInit ==
  /\ endpoints = <<>> /\ apiTypes = <<>> /\ apiVersion = FALSE /\ apiOnLine = {}
  /\ apiCur = "none" /\ apiBlock = Top
  /\ apiText = <<>> /\ apiPhase = "spec"
  /\ errorAt = <<1, 1>> /\ errorEnum = BaseErrors /\ errorStrings = BaseErrors
  /\ answer = NoAnswer

-----------------------------------------------------------------------------
(* parse_spec, a line at a time, as its author writes it. *)

Reading == apiPhase = "spec" /\ Len(apiText) < MaxApiLines /\ UNCHANGED <<errorVars, answer>>

Writing(kind, value) ==
  Reading /\ apiText' = Append(apiText, [in |-> apiBlock, kind |-> kind, value |-> value])

EndpointLine ==
  /\ apiBlock = Top /\ Writing("endpoint", NoValue)
  /\ IF Len(endpoints) >= MaxEndpoints
     THEN apiPhase' = "refused" /\ UNCHANGED <<endpoints, apiCur, apiBlock>>
     ELSE /\ endpoints' = Append(endpoints,
                                 [method |-> Get, path |-> NoPath, errors |-> <<>>])
          /\ apiCur' = "endpoint" /\ apiBlock' = <<"endpoint", Len(endpoints) + 1>>
          /\ UNCHANGED apiPhase
  /\ UNCHANGED <<apiTypes, apiVersion, apiOnLine>>

NewType(listed) ==
  /\ apiBlock = Top /\ Writing("type", listed)
  /\ IF Len(apiTypes) >= MaxTypes
     THEN apiPhase' = "refused" /\ UNCHANGED <<apiTypes, apiCur>>
     ELSE apiTypes' = Append(apiTypes, <<>>) /\ apiCur' = "type" /\ UNCHANGED apiPhase
  /\ UNCHANGED <<endpoints, apiVersion>>

TypeLine ==
  /\ NewType(NoValue)
  /\ apiBlock' = IF Len(apiTypes) >= MaxTypes THEN Top ELSE <<"type", Len(apiTypes) + 1>>
  /\ UNCHANGED apiOnLine

\* The usage's "type User { id: u64, name: string }": the parser reads up to the brace,
\* and the type stays its current one.
TypeOnLine(field) ==
  /\ NewType(field)
  /\ apiOnLine' = IF Len(apiTypes) >= MaxTypes THEN apiOnLine
                  ELSE apiOnLine \cup {Len(apiTypes) + 1}
  /\ UNCHANGED apiBlock

BraceLine ==
  /\ apiBlock # Top /\ Writing("close", NoValue)
  /\ apiCur' = "none" /\ apiBlock' = Top
  /\ UNCHANGED <<endpoints, apiTypes, apiVersion, apiOnLine, apiPhase>>

VersionLine ==
  /\ apiBlock = Top /\ Writing("version", NoValue)
  /\ apiVersion' = TRUE
  /\ UNCHANGED <<endpoints, apiTypes, apiOnLine, apiCur, apiBlock, apiPhase>>

MethodLine(method) ==
  /\ apiBlock[1] = "endpoint" /\ Writing("method", method)
  /\ endpoints' = IF apiCur = "endpoint"
                  THEN [endpoints EXCEPT ![Len(endpoints)].method = method] ELSE endpoints
  /\ UNCHANGED <<apiTypes, apiVersion, apiOnLine, apiCur, apiBlock, apiPhase>>

PathLine(path) ==
  /\ apiBlock[1] = "endpoint" /\ Writing("path", path)
  /\ endpoints' = IF apiCur = "endpoint"
                  THEN [endpoints EXCEPT ![Len(endpoints)].path = path] ELSE endpoints
  /\ UNCHANGED <<apiTypes, apiVersion, apiOnLine, apiCur, apiBlock, apiPhase>>

\* parse_errors: as many as there is room for.
FirstOf(n, s) == SubSeq(s, 1, IF n < Len(s) THEN n ELSE Len(s))

ErrorsLine(names) ==
  LET numbers == [i \in 1..Len(names) |-> Len(apiText) + i]
      entries == [i \in 1..Len(names) |->
                    [in |-> apiBlock, kind |-> "error", value |-> names[i]]]
  IN /\ apiBlock[1] = "endpoint" /\ Reading
     /\ apiText' = apiText \o entries
     /\ endpoints' = IF apiCur = "endpoint"
                     THEN [endpoints EXCEPT ![Len(endpoints)].errors =
                             FirstOf(MaxErrors, @ \o numbers)]
                     ELSE endpoints
     /\ UNCHANGED <<apiTypes, apiVersion, apiOnLine, apiCur, apiBlock, apiPhase>>

\* parse_field of the line that is read, if a type is the current one.  What there is
\* no room for is dropped.
WithField ==
  LET t == Len(apiTypes)
  IN IF apiCur = "type" /\ Len(apiTypes[t]) < MaxFields
     THEN [apiTypes EXCEPT ![t] = Append(@, Len(apiText) + 1)] ELSE apiTypes

\* "version:" is looked at before the block is: it is the API's, and a field has
\* no quoted value to give it.
FieldLine(field) ==
  /\ apiBlock[1] = "type" /\ Writing("field", field)
  /\ apiVersion' = (apiVersion /\ field # "version")
  /\ apiTypes' = IF field # "version" THEN WithField ELSE apiTypes
  /\ UNCHANGED <<endpoints, apiOnLine, apiCur, apiBlock, apiPhase>>

\* transport: [http].  The API has no such field, but a current type takes it for one.
TransportLine ==
  /\ apiBlock = Top /\ Writing("transport", NoValue)
  /\ apiTypes' = WithField
  /\ UNCHANGED <<endpoints, apiVersion, apiOnLine, apiCur, apiBlock, apiPhase>>

-----------------------------------------------------------------------------
(* What generate_api_h and generate_api_c write, over the same endpoints in the *)
(* same order: a step writes what both write of one error.                      *)

GenerateApi ==
  /\ apiPhase = "spec" /\ apiBlock = Top
  /\ apiPhase' = "errors"
  /\ UNCHANGED <<parsedVars, errorVars, answer>>

\* Mutation of Unless: seen_errors is not searched.
UnlessFull(seen, code) ==
  IF Len(seen) >= MaxEndpoints * MaxErrors THEN seen ELSE Append(seen, code)

\* seen_errors: each constant once, while there is room.
Unless(seen, code) ==
  IF code \in ToSet(seen) \/ Len(seen) >= MaxEndpoints * MaxErrors
  THEN seen ELSE Append(seen, code)

CodeOf(entry) == EnumOf[apiText[entry].value]

WriteError ==
  LET e == errorAt[1]
      i == errorAt[2]
  IN /\ apiPhase = "errors"
     /\ e <= Len(endpoints) /\ i <= Len(endpoints[e].errors)
     /\ errorEnum' = Unless(errorEnum, CodeOf(endpoints[e].errors[i]))
     /\ errorStrings' = Append(errorStrings, CodeOf(endpoints[e].errors[i]))
     /\ errorAt' = <<e, i + 1>>
     /\ UNCHANGED <<parsedVars, apiPhase, answer>>

NextEndpoint ==
  LET e == errorAt[1]
  IN /\ apiPhase = "errors"
     /\ e <= Len(endpoints) /\ errorAt[2] > Len(endpoints[e].errors)
     /\ errorAt' = <<e + 1, 1>>
     /\ UNCHANGED <<parsedVars, errorEnum, errorStrings, apiPhase, answer>>

Serve ==
  /\ apiPhase = "errors" /\ errorAt[1] > Len(endpoints)
  /\ apiPhase' = "serving"
  /\ UNCHANGED <<parsedVars, errorVars, answer>>

\* routes[] has one entry for each endpoint, and dispatch takes the first whose
\* method and path are the strings of the request.
Dispatch(method, path) ==
  LET routes == {e \in DOMAIN endpoints :
                   endpoints[e].method = method /\ endpoints[e].path = path}
  IN /\ apiPhase = "serving"
     /\ answer' = [method |-> method, path |-> path,
                   by |-> IF routes = {} THEN Answer404
                          ELSE CHOOSE e \in routes : \A r \in routes : e <= r]
     /\ UNCHANGED <<parsedVars, errorVars, apiPhase>>

ApiNext ==
  \/ EndpointLine \/ TypeLine \/ BraceLine \/ VersionLine \/ TransportLine
  \/ \E field \in Fields : TypeOnLine(field)
  \/ \E method \in Methods : MethodLine(method)
  \/ \E path \in Paths : PathLine(path)
  \/ \E names \in ErrorLists : ErrorsLine(names)
  \/ \E field \in Fields : FieldLine(field)
  \/ GenerateApi \/ WriteError \/ NextEndpoint \/ Serve
  \/ \E method \in Methods, path \in Paths : Dispatch(method, path)

ApiSpec == ApiInit /\ [][ApiNext]_apiVars

-----------------------------------------------------------------------------
(* Properties. *)

\* The entries of a kind in a block.
Entries(block, kind) ==
  {i \in DOMAIN apiText : apiText[i].in = block /\ apiText[i].kind = kind}

\* The last entry of a kind in a block gives the value, or else it is the default.
LastSays(block, kind, default, value) ==
  LET entries == Entries(block, kind)
  IN \/ entries = {} /\ value = default
     \/ \E i \in entries : apiText[i].value = value /\ \A j \in entries : j <= i

\* The list has the entries in their order, up to the limit.
IsFirstOf(list, entries, limit) ==
  /\ \A i, j \in DOMAIN list : i < j => list[i] < list[j]
  /\ ToSet(list) \subseteq entries
  /\ \A x \in entries \ ToSet(list) :
       Len(list) = limit /\ \A i \in DOMAIN list : list[i] < x

\* The tables stay within their limits (apigen.c:186, :242, :285, :308).
ApiTypeOK ==
  /\ Len(endpoints) <= MaxEndpoints /\ Len(apiTypes) <= MaxTypes
  /\ \A e \in DOMAIN endpoints : Len(endpoints[e].errors) <= MaxErrors
  /\ \A t \in DOMAIN apiTypes : Len(apiTypes[t]) <= MaxFields
  /\ apiOnLine \subseteq DOMAIN apiTypes
  /\ apiCur \in {"none", "endpoint", "type"}
  /\ apiPhase \in {"spec", "refused", "errors", "serving"}
  /\ answer.by \in 0..Len(endpoints)

\* An endpoint is what its own block says, the last line of a kind winning, and a
\* type has the fields of its block if that is of several lines, but for `version`,
\* which the parser takes for the API's and blanks (apigen.c:278-281 comes before
\* :334-358); a type on one line has at least nothing of another one's block.
BlocksAreAsWritten ==
  /\ \A e \in DOMAIN endpoints :
       /\ LastSays(<<"endpoint", e>>, "method", Get, endpoints[e].method)
       /\ LastSays(<<"endpoint", e>>, "path", NoPath, endpoints[e].path)
       /\ IsFirstOf(endpoints[e].errors, Entries(<<"endpoint", e>>, "error"), MaxErrors)
  /\ \A t \in DOMAIN apiTypes \ apiOnLine :
       IsFirstOf(apiTypes[t],
                 {i \in Entries(<<"type", t>>, "field") : apiText[i].value # "version"},
                 MaxFields)
  /\ \A t \in apiOnLine : \A i \in ToSet(apiTypes[t]) : apiText[i].in = Top
  /\ apiVersion <=>
       \E i \in DOMAIN apiText :
         /\ apiText[i].kind = "version"
         /\ \A j \in (i + 1)..Len(apiText) :
              ~(apiText[j].kind = "field" /\ apiText[j].value = "version")

\* Every error of an endpoint is in the enum in the end, unless it is full, and
\* error_str never reads past error_strings[], although the bound it tests is the
\* length of the other table (apigen.c:473-494, :606-609).
ErrorsAreWritten ==
  /\ apiPhase = "serving" /\ Len(errorEnum) < MaxEndpoints * MaxErrors =>
       \A e \in DOMAIN endpoints : \A i \in DOMAIN endpoints[e].errors :
         CodeOf(endpoints[e].errors[i]) \in ToSet(errorEnum)
  /\ Len(errorEnum) <= Len(errorStrings)

\* The enum has each error once, and the string of an error is its own as long as no
\* endpoint has named a built-in error, or one error twice, before the error is first
\* named (apigen.c:473-494 against :582-587; README says what becomes of the others).
StringsFollowTheEnum ==
  \A e \in DOMAIN errorEnum :
    /\ \A d \in DOMAIN errorEnum : d # e => errorEnum[d] # errorEnum[e]
    /\ \E first \in DOMAIN errorStrings :
         /\ errorStrings[first] = errorEnum[e]
         /\ \A i \in 1..(first - 1) : errorStrings[i] # errorEnum[e]
         /\ (\A i, j \in 1..(first - 1) : i # j => errorStrings[i] # errorStrings[j]) =>
              errorStrings[e] = errorEnum[e]

\* A request is answered by an endpoint whose block gives its method, or none for
\* GET, and exactly its path; by the first of them; and by 404 only if there is
\* none.  A path with {id} in it is a string like any other (apigen.c:622-629).
RequestsReachTheirEndpoint ==
  LET Says(e) == /\ LastSays(<<"endpoint", e>>, "method", Get, answer.method)
                 /\ LastSays(<<"endpoint", e>>, "path", NoPath, answer.path)
  IN /\ answer.by # Answer404 => Says(answer.by)
     /\ answer.path # NoPath =>
          \A e \in DOMAIN endpoints : Says(e) => answer.by \in 1..e

\* The endpoints are those of the file, and the types that have lines of their own;
\* requests are answered by them, and every error code has a string, which is its own
\* if no error was repeated before it.
ApiIsAsWritten ==
  /\ BlocksAreAsWritten /\ RequestsReachTheirEndpoint
  /\ ErrorsAreWritten /\ StringsFollowTheEnum
=============================================================================
