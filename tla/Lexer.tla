------------------------------- MODULE Lexer -------------------------------
(***************************************************************************)
(* lexgen (tools/lexgen/lexgen.c): the table of tokens it reads from a     *)
(* .lex file, and the lexer it writes, whose lexer_next is called until it *)
(* returns EOF.  Only literals come to life: patterns in brackets and      *)
(* regular expressions are in the enum of tokens and nowhere else.         *)
(*                                                                         *)
(* A text is a sequence of characters, so lexer->current is a position     *)
(* from 1; the position after the last character holds the '\0'.           *)
(***************************************************************************)
EXTENDS Naturals, Sequences, FiniteSets

CONSTANTS
  Letters,        \* isalpha or '_'
  Digits,         \* isdigit
  Blanks,         \* isspace, with NewLine among them
  NewLine,
  Signs,          \* every other character
  Literals,       \* the texts between quotes an author may write
  LexTexts,       \* the texts that are given to the lexer
  MaxTokens       \* MAX_TOKENS

Characters == Letters \cup Digits \cup Blanks \cup Signs
WordChars == Letters \cup Digits

\* A line of the .lex file is shorter than a text and has no newline in it;
\* an empty literal would be matched for ever.
ASSUME LexAssumption ==
  /\ MaxTokens \in Nat
  /\ NewLine \in Blanks
  /\ Blanks \cap (WordChars \cup Signs) = {}
  /\ Signs \cap WordChars = {}
  /\ Letters \cap Digits = {}
  /\ Literals \subseteq Seq(Characters \ {NewLine}) \ {<<>>}
  /\ LexTexts \subseteq Seq(Characters)

Pattern == <<>>           \* a token whose pattern is not a literal

\* The enum of token types.
EOF == 0
ERROR == 1
TypeOf(k) == k + 1        \* of the k-th token of the table

VARIABLES
  lexTable,       \* tokens[0 .. token_count - 1]: the literal of each, or Pattern
  lexPhase,       \* "spec", "refused", or "lexing"
  lexer,          \* lexer_t: source, current, line and column
  lexed           \* what lexer_next has returned since lexer_init

lexVars == <<lexTable, lexPhase, lexer, lexed>>

LexInit ==
  /\ lexTable = <<>>
  /\ lexPhase = "spec"
  /\ lexer = [source |-> <<>>, current |-> 1, line |-> 1, column |-> 1]
  /\ lexed = <<>>

-----------------------------------------------------------------------------
(* parse_token_line: a token more, or the end of the generator. *)

LexDeclare(t) ==
  /\ lexPhase = "spec"
  /\ IF Len(lexTable) < MaxTokens
     THEN lexTable' = Append(lexTable, t) /\ UNCHANGED lexPhase
     ELSE lexPhase' = "refused" /\ UNCHANGED lexTable
  /\ UNCHANGED <<lexer, lexed>>

\* "Unterminated literal": parse_spec gives up.
LexUnterminated ==
  /\ lexPhase = "spec"
  /\ lexPhase' = "refused"
  /\ UNCHANGED <<lexTable, lexer, lexed>>

-----------------------------------------------------------------------------
(* The generated lexer. *)

LexerInit(text) ==
  /\ lexPhase = "spec"
  /\ lexPhase' = "lexing"
  /\ lexer' = [source |-> text, current |-> 1, line |-> 1, column |-> 1]
  /\ lexed' = <<>>
  /\ UNCHANGED lexTable

\* The first position from p on that does not hold a character of S.
RunEnd(src, p, S) ==
  CHOOSE e \in p..(Len(src) + 1) :
    /\ \A i \in p..(e - 1) : src[i] \in S
    /\ e <= Len(src) => src[e] \notin S

NewLines(src, first, last) == {i \in first..last : src[i] = NewLine}

\* lexer->line and lexer->column at the end e of the blanks from p on.
LineAfter(p, e) == lexer.line + Cardinality(NewLines(lexer.source, p, e - 1))

ColumnAfter(p, e) ==
  LET breaks == NewLines(lexer.source, p, e - 1)
  IN IF breaks = {} THEN lexer.column + (e - p)
     ELSE e - (CHOOSE b \in breaks : \A i \in breaks : i <= b)

\* Mutation of StandsAt: the character after the literal is not looked at.
StandsAtPrefix(src, t, p) ==
  /\ p + Len(t) - 1 <= Len(src)
  /\ SubSeq(src, p, p + Len(t) - 1) = t

\* Literal t stands at p, and no word character comes right after it.
StandsAt(src, t, p) ==
  /\ p + Len(t) - 1 <= Len(src)
  /\ SubSeq(src, p, p + Len(t) - 1) = t
  /\ p + Len(t) <= Len(src) => src[p + Len(t)] \notin WordChars

\* keywords[] holds the tokens that are literals, in the order of the file.
KeywordsAt(src, p) ==
  {k \in DOMAIN lexTable : lexTable[k] # Pattern /\ StandsAt(src, lexTable[k], p)}

FirstKeyword(src, p) ==
  CHOOSE k \in KeywordsAt(src, p) : \A j \in KeywordsAt(src, p) : k <= j

\* Where the token that starts at p ends, and its type.  Words and numbers come
\* out as errors: the generated code has a comment where they would get a type.
TokenEnd(src, p) ==
  IF KeywordsAt(src, p) # {} THEN p + Len(lexTable[FirstKeyword(src, p)])
  ELSE IF src[p] \in Letters THEN RunEnd(src, p, WordChars)
  ELSE IF src[p] \in Digits THEN RunEnd(src, p, Digits)
  ELSE p + 1

TokenType(src, p) ==
  IF KeywordsAt(src, p) # {} THEN TypeOf(FirstKeyword(src, p)) ELSE ERROR

Token(src, p, line, column) ==
  [type |-> TokenType(src, p), start |-> p, length |-> TokenEnd(src, p) - p,
   line |-> line, column |-> column]

NotAtEOF == \A i \in DOMAIN lexed : lexed[i].type # EOF

\* lexer_next, at the end of the text and before it.
LexerEOF ==
  LET src == lexer.source
      p == RunEnd(src, lexer.current, Blanks)
      line == LineAfter(lexer.current, p)
      column == ColumnAfter(lexer.current, p)
  IN /\ lexPhase = "lexing" /\ NotAtEOF
     /\ p > Len(src)
     /\ lexed' = Append(lexed, [type |-> EOF, start |-> p, length |-> 0,
                                line |-> line, column |-> column])
     /\ lexer' = [lexer EXCEPT !.current = p, !.line = line, !.column = column]
     /\ UNCHANGED <<lexTable, lexPhase>>

LexerNext ==
  LET src == lexer.source
      p == RunEnd(src, lexer.current, Blanks)
      line == LineAfter(lexer.current, p)
      column == ColumnAfter(lexer.current, p)
      tok == Token(src, p, line, column)
  IN /\ lexPhase = "lexing" /\ NotAtEOF
     /\ p <= Len(src)
     /\ lexed' = Append(lexed, tok)
     /\ lexer' = [lexer EXCEPT !.current = p + tok.length, !.line = line,
                               !.column = column + tok.length]
     /\ UNCHANGED <<lexTable, lexPhase>>

LexNext ==
  \/ \E t \in Literals \cup {Pattern} : LexDeclare(t)
  \/ LexUnterminated
  \/ \E text \in LexTexts : LexerInit(text)
  \/ LexerEOF
  \/ LexerNext

LexSpec == LexInit /\ [][LexNext]_lexVars

-----------------------------------------------------------------------------
(* Properties. *)

Tokens == {lexed[i] : i \in DOMAIN lexed}
Covered(tok) == tok.start..(tok.start + tok.length - 1)

\* The table, the lexer's position and the tokens keep their types, and the
\* position stays in the text (lexgen.c:306-369).
LexTypeOK ==
  /\ lexTable \in Seq(Literals \cup {Pattern}) /\ Len(lexTable) <= MaxTokens
  /\ lexPhase \in {"spec", "refused", "lexing"}
  /\ lexer.source \in LexTexts \cup {<<>>}
  /\ lexer.current \in 1..(Len(lexer.source) + 1)
  /\ \A i \in DOMAIN lexed :
       lexed[i].type \in {EOF, ERROR} \cup {TypeOf(k) : k \in DOMAIN lexTable}

\* Nothing is lost and nothing is read twice: the tokens follow each other, what
\* lies between two of them is blank, and so is what lies before the first; no
\* token but the last is empty, so each call gets on (lexgen.c:311-368).
TokensTile ==
  \A i \in DOMAIN lexed :
    LET from == IF i = 1 THEN 1 ELSE lexed[i - 1].start + lexed[i - 1].length
    IN /\ from <= lexed[i].start
       /\ \A p \in from..(lexed[i].start - 1) : lexer.source[p] \in Blanks
       /\ lexed[i].type # EOF =>
            /\ lexed[i].length > 0
            /\ lexed[i].start + lexed[i].length <= lexer.current
            /\ lexer.source[lexed[i].start] \notin Blanks

\* The line and column of a token are those of its first character, counted
\* over the whole text (lexgen.c:312-320, and the places that add to column).
PositionsAreRight ==
  \A tok \in Tokens :
    LET breaks == NewLines(lexer.source, 1, tok.start - 1)
    IN /\ tok.line = Cardinality(breaks) + 1
       /\ \/ breaks = {} /\ tok.column = tok.start
          \/ \E b \in breaks : /\ \A p \in breaks : p <= b
                               /\ tok.column = tok.start - b

\* A word is read whole: no token ends between two letters or digits of a word
\* that starts with a letter, so a keyword is never found inside a longer
\* name (lexgen.c:331-332, is_alnum(lex->current[len])).
WordsAreWhole ==
  \A tok \in Tokens :
    LET end == tok.start + tok.length
    IN /\ tok.type # EOF
       /\ end <= Len(lexer.source)
       /\ \E p \in Covered(tok) : /\ lexer.source[p] \in Letters
                                  /\ \A q \in p..(end - 1) : lexer.source[q] \in WordChars
       => lexer.source[end] \notin WordChars

\* A literal that stands between blanks, outside every token that began before
\* it, is read as itself unless a literal declared earlier stands there as well:
\* "Scenario" declared before "Scenario Outline" hides it (lexgen.c:329-339).
SeparateLiteralsAreRead ==
  \A k \in DOMAIN lexTable : lexTable[k] # Pattern =>
    \A p \in 1..(lexer.current - 1) :
      /\ p = 1 \/ lexer.source[p - 1] \in Blanks
      /\ lexTable[k][1] \notin Blanks
      /\ StandsAt(lexer.source, lexTable[k], p)
      /\ \A tok \in Tokens : p \in Covered(tok) => tok.start = p
      => \E tok \in Tokens :
           /\ tok.start = p
           /\ \E j \in 1..k : tok.type = TypeOf(j) /\ StandsAt(lexer.source, lexTable[j], p)

\* A text is read as its tokens: whole, in its places, by the table's order.
TextIsReadAsTokens ==
  /\ TokensTile /\ PositionsAreRight
  /\ WordsAreWhole /\ SeparateLiteralsAreRead
=============================================================================
