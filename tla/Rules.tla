------------------------------- MODULE Rules -------------------------------
(***************************************************************************)
(* clipsgen (tools/clipsgen/clipsgen.c): the rules it reads from a .rules  *)
(* file, a line at a time, and the function evaluate_all it writes, which  *)
(* tries every rule once, in the order of the file.                        *)
(*                                                                         *)
(* The context is the set of facts that hold.  A condition is a fact, an   *)
(* action makes one true or false.  Beside the parser's own state stands   *)
(* what the author means: `meant` has the conditions and actions of every  *)
(* rule as they are written, and `block` the block the author is in.       *)
(***************************************************************************)
EXTENDS Naturals, Sequences, SequencesExt

CONSTANTS
  Facts,
  RuleActions,       \* [fact : Facts, value : BOOLEAN], those authors may write
  MaxRules,          \* MAX_RULES
  MaxStatements,     \* MAX_CONDS, MAX_ACTIONS
  MaxRuleLines       \* bound: the lines of a file

ASSUME RulesAssumption ==
  /\ {MaxRules, MaxStatements, MaxRuleLines} \subseteq Nat
  /\ RuleActions \subseteq [fact : Facts, value : BOOLEAN]

\* How a block is written: its braces on lines of their own as in pricing.rules,
\* without braces, or on one line with its statements as in clipsgen.c:10.
BlockStyles == {"braced", "open", "inline"}

VARIABLES
  rules,          \* rules[0 .. rule_count - 1]
  currentRule,    \* current: the index of a rule, or 0 for NULL
  inPart,         \* in_when and in_then, never both: "when", "then" or "none"
  meant,          \* what the author wrote: a rule, the styles of its blocks, and
                  \* whether one of its lines has two statements
  block,          \* the block the author is in, and how it was opened
  rulesPhase,     \* "spec", "wild" after a write past an array, or "evaluate"
  ruleLines,      \* the lines read
  context,        \* *ctx: the facts that hold
  evaluated,      \* the rules evaluate_all has called
  fired           \* the rules that returned 1, of which it returns the number

rulesVars == <<rules, currentRule, inPart, meant, block, rulesPhase, ruleLines,
               context, evaluated, fired>>

RulesInit ==
  /\ rules = <<>> /\ currentRule = 0 /\ inPart = "none"
  /\ meant = <<>> /\ block = [at |-> "top", style |-> "none"]
  /\ rulesPhase = "spec" /\ ruleLines = 0
  /\ context = {} /\ evaluated = 0 /\ fired = {}

-----------------------------------------------------------------------------
(* parse_rules, by kind of line. *)

NewRule == [conditions |-> <<>>, actions |-> <<>>]

RuleLine ==
  IF Len(rules) < MaxRules
  THEN /\ rules' = Append(rules, NewRule)
       /\ currentRule' = Len(rules) + 1
       /\ UNCHANGED <<inPart, rulesPhase>>
  ELSE /\ rulesPhase' = "wild"
       /\ UNCHANGED <<rules, currentRule, inPart>>

\* A line that begins with when or then; what follows on it is not looked at.
PartLine(part) ==
  /\ inPart' = part
  /\ UNCHANGED <<rules, currentRule, rulesPhase>>

\* '}' ends the rule, whichever block its author closes.
CloseLine ==
  /\ inPart' = "none" /\ currentRule' = 0
  /\ UNCHANGED <<rules, rulesPhase>>

\* Mutation of StatementLine: in_when and in_then are mixed up.
StatementLineSwapped(statements) ==
  LET field == IF inPart = "then" THEN "conditions" ELSE "actions"
  IN IF currentRule = 0 \/ inPart = "none"
     THEN UNCHANGED <<rules, currentRule, inPart, rulesPhase>>
     ELSE /\ rules' = [rules EXCEPT ![currentRule][field] = Append(@, Head(statements))]
          /\ UNCHANGED <<currentRule, inPart, rulesPhase>>

\* Only what stands before the first ';' is kept.
StatementLine(statements) ==
  LET field == IF inPart = "when" THEN "conditions" ELSE "actions"
  IN IF currentRule = 0 \/ inPart = "none"
     THEN UNCHANGED <<rules, currentRule, inPart, rulesPhase>>
     ELSE /\ IF Len(rules[currentRule][field]) < MaxStatements
             THEN /\ rules' = [rules EXCEPT ![currentRule][field] =
                                              Append(@, Head(statements))]
                  /\ UNCHANGED rulesPhase
             ELSE /\ rulesPhase' = "wild"
                  /\ UNCHANGED rules
          /\ UNCHANGED <<currentRule, inPart>>

-----------------------------------------------------------------------------
(* The author, who writes one well-formed line after the other. *)

Writes ==
  /\ rulesPhase = "spec"
  /\ ruleLines < MaxRuleLines
  /\ ruleLines' = ruleLines + 1
  /\ UNCHANGED <<context, evaluated, fired>>

WriteRule ==
  /\ Writes /\ block.at = "top"
  /\ meant' = Append(meant, [conditions |-> <<>>, actions |-> <<>>,
                             styles |-> {}, crowded |-> FALSE])
  /\ block' = [at |-> "rule", style |-> "none"]
  /\ RuleLine

\* The last rule has a block of some style, and more statements in one of them.
Means(part, style, statements) ==
  LET field == IF part = "when" THEN "conditions" ELSE "actions"
  IN meant' = [meant EXCEPT ![Len(meant)][field] = @ \o statements,
                            ![Len(meant)].styles = @ \cup {style},
                            ![Len(meant)].crowded = @ \/ Len(statements) = 2]

StatementsOf(part) ==
  LET some == IF part = "when" THEN Facts ELSE RuleActions
  IN {<<s>> : s \in some} \cup {<<s, t>> : s, t \in some}

\* when before then, each at most once in a rule.
MayOpen(part) ==
  IF part = "when" THEN block = [at |-> "rule", style |-> "none"]
  ELSE (block.at = "when" /\ block.style = "open") \/ block.at = "whenDone"

WritePart(part, style) ==
  /\ Writes /\ style # "inline" /\ MayOpen(part)
  /\ block' = [at |-> part, style |-> style]
  /\ Means(part, style, <<>>)
  /\ PartLine(part)

WriteInline(part, statements) ==
  /\ Writes /\ MayOpen(part)
  /\ block' = [at |-> IF part = "when" THEN "whenDone" ELSE "thenDone",
               style |-> "inline"]
  /\ Means(part, "inline", statements)
  /\ PartLine(part)

WriteStatement(statements) ==
  /\ Writes /\ block.at \in {"when", "then"}
  /\ statements \in StatementsOf(block.at)
  /\ Means(block.at, block.style, statements)
  /\ StatementLine(statements)
  /\ UNCHANGED block

WriteClose ==
  /\ Writes
  /\ \/ /\ block.at \in {"when", "then"} /\ block.style = "braced"
        /\ block' = [at |-> IF block.at = "when" THEN "whenDone" ELSE "thenDone",
                     style |-> "braced"]
     \/ /\ block.at = "thenDone" \/ (block.at = "then" /\ block.style = "open")
        /\ block' = [at |-> "top", style |-> "none"]
  /\ CloseLine
  /\ UNCHANGED meant

-----------------------------------------------------------------------------
(* The generated functions. *)

Holds(conditions, facts) == \A i \in DOMAIN conditions : conditions[i] \in facts

Act(facts, action) ==
  IF action.value THEN facts \cup {action.fact} ELSE facts \ {action.fact}

ActAll(actions, facts) == FoldLeft(Act, facts, actions)

\* An application calls evaluate_all with some context.
CallEvaluateAll(facts) ==
  /\ rulesPhase = "spec" /\ block.at = "top" /\ rules # <<>>
  /\ rulesPhase' = "evaluate"
  /\ context' = facts
  /\ UNCHANGED <<rules, currentRule, inPart, meant, block, ruleLines, evaluated, fired>>

\* The function of the next rule.
EvaluateRule ==
  /\ rulesPhase = "evaluate" /\ evaluated < Len(rules)
  /\ evaluated' = evaluated + 1
  /\ IF Holds(rules[evaluated'].conditions, context)
     THEN /\ fired' = fired \cup {evaluated'}
          /\ context' = ActAll(rules[evaluated'].actions, context)
     ELSE UNCHANGED <<fired, context>>
  /\ UNCHANGED <<rules, currentRule, inPart, meant, block, rulesPhase, ruleLines>>

RulesNext ==
  \/ WriteRule
  \/ \E part \in {"when", "then"}, style \in BlockStyles : WritePart(part, style)
  \/ \E part \in {"when", "then"} :
       \E statements \in StatementsOf(part) : WriteInline(part, statements)
  \/ \E statements \in StatementsOf(block.at) : WriteStatement(statements)
  \/ WriteClose
  \/ \E facts \in SUBSET Facts : CallEvaluateAll(facts)
  \/ EvaluateRule

RulesSpec == RulesInit /\ [][RulesNext]_rulesVars

-----------------------------------------------------------------------------
(* Properties. *)

\* Rules whose blocks have no braces of their own and one statement on a line.
Bare(r) == meant[r].styles \subseteq {"open"} /\ ~meant[r].crowded

\* Rules and statements stay within their arrays; what is evaluated exists.
RulesTypeOK ==
  /\ Len(rules) <= MaxRules /\ currentRule \in 0..Len(rules)
  /\ \A r \in DOMAIN rules :
       /\ rules[r].conditions \in Seq(Facts) /\ Len(rules[r].conditions) <= MaxStatements
       /\ rules[r].actions \in Seq(RuleActions) /\ Len(rules[r].actions) <= MaxStatements
  /\ inPart \in {"when", "then", "none"}
  /\ rulesPhase \in {"spec", "wild", "evaluate"}
  /\ context \subseteq Facts /\ evaluated \in 0..Len(rules) /\ fired \subseteq 1..evaluated

\* A statement never ends up in another rule, or in the other part of its own,
\* whatever braces its author uses, and no rule is made up (clipsgen.c:69-100).
StatementsKeepTheirRule ==
  rulesPhase # "wild" =>
    /\ Len(rules) = Len(meant)
    /\ \A r \in DOMAIN rules :
         /\ ToSet(rules[r].conditions) \subseteq ToSet(meant[r].conditions)
         /\ ToSet(rules[r].actions) \subseteq ToSet(meant[r].actions)

\* A bare rule does what it says: evaluate_all returns 1 for it just when its
\* conditions hold in the context the rules before it have left, and then all
\* its actions are carried out in order (clipsgen.c:172-195).
BareRulesDoWhatTheySay ==
  \A r \in DOMAIN meant :
    evaluated' = r /\ evaluated = r - 1 /\ Bare(r) =>
      /\ r \in fired' <=> Holds(meant[r].conditions, context)
      /\ context' = IF r \in fired' THEN ActAll(meant[r].actions, context) ELSE context

\* A rule that has just fired has carried out its actions: to carry them out again
\* changes nothing.  Said of every rule with one statement on a line, as in
\* specs/domain/pricing.rules; the brace that ends its when block ends the rule for
\* the parser, and its actions are passed over (clipsgen.c:82, :93).
FiredRulesAct ==
  evaluated \in fired /\ "inline" \notin meant[evaluated].styles /\ ~meant[evaluated].crowded =>
    ActAll(meant[evaluated].actions, context) = context

\* Statements stay where they are written, and bare rules act on them.
RulesDoWhatTheySay ==
  [][StatementsKeepTheirRule' /\ BareRulesDoWhatTheySay]_rulesVars
=============================================================================
