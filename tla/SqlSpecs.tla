------------------------------ MODULE SqlSpecs ------------------------------
(***************************************************************************)
(* sqlgen (tools/sqlgen/sqlgen.c): the tables and queries it reads from a  *)
(* .sql spec, a line at a time.  in_table and in_query are two flags, and  *)
(* a block that its author closes on its own line leaves one of them set.  *)
(*                                                                         *)
(* A column and a line of SQL are the number of the line they come from.   *)
(* sqlText is the file so far, each line with the block it is written in,  *)
(* and sqlLengths how long the lines inside the blocks are.                *)
(***************************************************************************)
EXTENDS Naturals, Sequences, SequencesExt

CONSTANTS
  MaxTables, MaxColumns, MaxIndexes, MaxQueries,    \* MAX_*
  MaxSql,         \* MAX_SQL, in characters
  LineLengths,    \* the lengths of the lines inside a block
  MaxSqlLines     \* bound: the lines of a file

ASSUME SqlAssumption ==
  /\ {MaxTables, MaxColumns, MaxIndexes, MaxQueries, MaxSqlLines} \subseteq Nat
  /\ MaxSql \in Nat \ {0} /\ LineLengths \subseteq Nat

VARIABLES
  sqlTables,      \* tables: whether each is on one line, and its columns
  sqlQueries,     \* queries: whether each is on one line, its sql and how long that is
  sqlIndexCount,  \* index_count
  sqlOpen,        \* which of in_table and in_query is set; the last of its kind
  sqlText, sqlLengths,    \* the lines read
  sqlBlock,       \* the block the author is in
  sqlPhase        \* "spec", or "wild" after a write past an array

sqlVars == <<sqlTables, sqlQueries, sqlIndexCount, sqlOpen, sqlText, sqlLengths, sqlBlock,
             sqlPhase>>

NoSqlBlock == <<"none", 0>>

SqlInit ==
  /\ sqlTables = <<>> /\ sqlQueries = <<>> /\ sqlIndexCount = 0
  /\ sqlOpen = {}
  /\ sqlText = <<>> /\ sqlLengths = <<>> /\ sqlBlock = NoSqlBlock
  /\ sqlPhase = "spec"

-----------------------------------------------------------------------------
(* parse_sql, by kind of line. *)

ReadsSql(length) ==
  /\ sqlPhase = "spec" /\ Len(sqlText) < MaxSqlLines
  /\ sqlText' = Append(sqlText, sqlBlock)
  /\ sqlLengths' = Append(sqlLengths, length)

OpensSql(kind, n, oneLine) ==
  /\ sqlOpen' = sqlOpen \cup {kind}
  /\ sqlBlock' = IF oneLine THEN NoSqlBlock ELSE <<kind, n>>
  /\ UNCHANGED sqlPhase

Overruns == sqlPhase' = "wild" /\ UNCHANGED <<sqlOpen, sqlBlock>>

TableLine(oneLine) ==
  /\ ReadsSql(0) /\ sqlBlock = NoSqlBlock
  /\ IF Len(sqlTables) >= MaxTables
     THEN Overruns /\ UNCHANGED sqlTables
     ELSE /\ sqlTables' = Append(sqlTables, [oneLine |-> oneLine, columns |-> <<>>])
          /\ OpensSql("table", Len(sqlTables) + 1, oneLine)
  /\ UNCHANGED <<sqlQueries, sqlIndexCount>>

QueryLine(oneLine) ==
  /\ ReadsSql(0) /\ sqlBlock = NoSqlBlock
  /\ IF Len(sqlQueries) >= MaxQueries
     THEN Overruns /\ UNCHANGED sqlQueries
     ELSE /\ sqlQueries' = Append(sqlQueries, [oneLine |-> oneLine, sql |-> <<>>, length |-> 0])
          /\ OpensSql("query", Len(sqlQueries) + 1, oneLine)
  /\ UNCHANGED <<sqlTables, sqlIndexCount>>

IndexLine ==
  /\ ReadsSql(0) /\ sqlBlock = NoSqlBlock
  /\ IF sqlIndexCount >= MaxIndexes
     THEN sqlPhase' = "wild" /\ UNCHANGED sqlIndexCount
     ELSE sqlIndexCount' = sqlIndexCount + 1 /\ UNCHANGED sqlPhase
  /\ UNCHANGED <<sqlTables, sqlQueries, sqlOpen, sqlBlock>>

\* Mutation of SqlBraceLine: in_query is not reset.
SqlBraceLineOfTable ==
  /\ ReadsSql(0) /\ sqlBlock # NoSqlBlock
  /\ sqlOpen' = sqlOpen \ {"table"} /\ sqlBlock' = NoSqlBlock
  /\ UNCHANGED <<sqlTables, sqlQueries, sqlIndexCount, sqlPhase>>

SqlBraceLine ==
  /\ ReadsSql(0) /\ sqlBlock # NoSqlBlock
  /\ sqlOpen' = {} /\ sqlBlock' = NoSqlBlock
  /\ UNCHANGED <<sqlTables, sqlQueries, sqlIndexCount, sqlPhase>>

\* The SQL with a line more and a space before it, if it is not the first.
WithLine(query, line, length) ==
  [query EXCEPT !.sql = Append(@, line), !.length = @ + length + (IF @ = 0 THEN 0 ELSE 1)]

\* Any other line is a column if in_table is set, and SQL if in_query is and it fits.
\* Of a line that is a column what follows its colon is cut off (sqlgen.c:249-255), and
\* length is how long the rest is.
BodyLine(length) ==
  LET line == Len(sqlText) + 1
      t == Len(sqlTables)
      q == Len(sqlQueries)
      overrun == "table" \in sqlOpen /\ Len(sqlTables[t].columns) >= MaxColumns
      fits == "query" \in sqlOpen /\ sqlQueries[q].length + length + 2 < MaxSql
  IN /\ ReadsSql(length) /\ sqlBlock # NoSqlBlock
     /\ sqlPhase' = IF overrun THEN "wild" ELSE sqlPhase
     /\ sqlTables' = IF "table" \in sqlOpen /\ ~overrun
                     THEN [sqlTables EXCEPT ![t].columns = Append(@, line)] ELSE sqlTables
     /\ sqlQueries' = IF fits THEN [sqlQueries EXCEPT ![q] = WithLine(@, line, length)]
                      ELSE sqlQueries
     /\ UNCHANGED <<sqlIndexCount, sqlOpen, sqlBlock>>

SqlNext ==
  \/ \E oneLine \in BOOLEAN : TableLine(oneLine) \/ QueryLine(oneLine)
  \/ IndexLine
  \/ SqlBraceLine
  \/ \E length \in LineLengths : BodyLine(length)

SqlSpec == SqlInit /\ [][SqlNext]_sqlVars

-----------------------------------------------------------------------------
(* Properties. *)

\* The arrays that are guarded keep their limits, and the SQL its buffer (sqlgen.c:139-288).
SqlTypeOK ==
  /\ Len(sqlTables) <= MaxTables /\ Len(sqlQueries) <= MaxQueries
  /\ \A q \in DOMAIN sqlQueries : sqlQueries[q].length \in 0..(MaxSql - 1)
  /\ sqlIndexCount \in 0..MaxIndexes
  /\ sqlOpen \subseteq {"table", "query"}
  /\ sqlPhase \in {"spec", "wild"}

\* The lines of a block but for its last, which is its brace unless the author is
\* still in it.
LinesOf(block) ==
  {i \in DOMAIN sqlText :
     /\ sqlText[i] = block
     /\ sqlBlock = block \/ \E j \in DOMAIN sqlText : i < j /\ sqlText[j] = block}

InOrder(lines) == \A i, j \in DOMAIN lines : i < j => lines[i] < lines[j]

\* A table with a block of its own has the columns written there and a query the
\* SQL, in order and nothing else, although one line may go to both of them; a line of
\* SQL is missing only if it does not fit beside what is there (sqlgen.c:245-286).
BlocksKeepTheirLines ==
  sqlPhase # "wild" =>
    /\ \A t \in DOMAIN sqlTables : ~sqlTables[t].oneLine =>
         /\ InOrder(sqlTables[t].columns)
         /\ ToSet(sqlTables[t].columns) = LinesOf(<<"table", t>>)
    /\ \A q \in DOMAIN sqlQueries : ~sqlQueries[q].oneLine =>
         LET sql == sqlQueries[q].sql
         IN /\ InOrder(sql) /\ ToSet(sql) \subseteq LinesOf(<<"query", q>>)
            /\ \A i \in LinesOf(<<"query", q>>) \ ToSet(sql) :
                 sqlQueries[q].length + sqlLengths[i] + 2 >= MaxSql

\* A table or query that is written on one line, as nobody should, takes lines that
\* are not its own, of one block at most, and a table never another table's
\* (sqlgen.c:150-152, :236-240).
StraysAreOfOneBlock ==
  /\ \A t \in DOMAIN sqlTables :
       sqlTables[t].oneLine =>
         \A i, j \in ToSet(sqlTables[t].columns) :
           sqlText[i][1] = "query" /\ sqlText[i] = sqlText[j]
  /\ \A q \in DOMAIN sqlQueries :
       sqlQueries[q].oneLine =>
         \A i, j \in ToSet(sqlQueries[q].sql) : sqlText[i] = sqlText[j]

\* A line of a query that is a column too, and so is cut off at its colon, is one of a
\* table on one line (sqlgen.c:245-286).
OnlyStraysCutTheSql ==
  sqlPhase # "wild" =>
    \A q \in DOMAIN sqlQueries, t \in DOMAIN sqlTables :
      ~sqlQueries[q].oneLine /\ ~sqlTables[t].oneLine =>
        ToSet(sqlQueries[q].sql) \cap ToSet(sqlTables[t].columns) = {}

\* Every line goes to the block it is written in, and strays come from one block.
SqlLinesStayInTheirBlock ==
  BlocksKeepTheirLines /\ StraysAreOfOneBlock /\ OnlyStraysCutTheSql
=============================================================================
