------------------------------ MODULE MCTools ------------------------------
(***************************************************************************)
(* Small instances of the repository's tools: twelve generators, the       *)
(* download of the compiler, the drift gate of the manifests and runs of   *)
(* regen-all.sh that overlap; and of what two generators write: the        *)
(* committed types and a flat state machine, at work.  They share no       *)
(* state: an instance is one of them (`tool`) while the others stand       *)
(* still, so that there are as many states as they have one after another. *)
(***************************************************************************)
EXTENDS Lexer, MCRules, Bdd, ApiTables, UiPanels, SchemaVersions, SmParser, Modes,
        SqlSpecs, Platforms, Toolchain, ManifestGate, GeneratedTypes, SchemaParser,
        TwoRuns, MCHsmParser, MCFsmRuntime

VARIABLE tool

Tools == {"lexgen", "clipsgen", "bddgen", "apigen", "uigen", "schemagen", "smgen",
          "msmgen", "sqlgen", "implgen", "download-cosmocc", "drift-gate",
          "generated", "schemas", "regen-all", "hsmgen", "machine"}

toolsVars == <<tool, lexVars, rulesVars, bddVars, apiVars, uiVars, schemaVars, smVars,
               modesVars, sqlVars, implVars, toolVars, manifestVars, genVars, parserVars,
               twoVars, hsmVars, fsmVars>>

ToolsInit ==
  /\ tool \in Tools
  /\ LexInit /\ RulesInit /\ BddInit /\ ApiInit /\ UiInit /\ SchemaInit /\ SmInit
  /\ ModesInit /\ SqlInit /\ ImplInit /\ ToolchainInit
  /\ ManifestInit /\ GenInit
  /\ SchemaParserInit /\ TwoRunsInit /\ HsmInit /\ FsmInit
  /\ tool # "drift-gate" => staged = Hashes /\ manifests = sources
  /\ tool # "generated" => typeAt = <<1, 1>>

Idle(t, own) == IF tool = t THEN TRUE ELSE UNCHANGED own

ToolsNext ==
  /\ \/ tool = "lexgen" /\ LexNext
     \/ tool = "clipsgen" /\ RulesNext
     \/ tool = "bddgen" /\ BddNext
     \/ tool = "apigen" /\ ApiNext
     \/ tool = "uigen" /\ UiNext
     \/ tool = "schemagen" /\ SchemaNext
     \/ tool = "smgen" /\ SmNext
     \/ tool = "msmgen" /\ ModesNext
     \/ tool = "sqlgen" /\ SqlNext
     \/ tool = "implgen" /\ ImplNext
     \/ tool = "download-cosmocc" /\ ToolchainNext
     \/ tool = "drift-gate" /\ ManifestNext
     \/ tool = "generated" /\ GenNext
     \/ tool = "schemas" /\ SchemaParserNext
     \/ tool = "regen-all" /\ TwoRunsNext
     \/ tool = "hsmgen" /\ HsmNext
     \/ tool = "machine" /\ FsmNext
  /\ UNCHANGED tool
  /\ Idle("lexgen", lexVars)
  /\ Idle("clipsgen", rulesVars)
  /\ Idle("bddgen", bddVars)
  /\ Idle("apigen", apiVars)
  /\ Idle("uigen", uiVars)
  /\ Idle("schemagen", schemaVars)
  /\ Idle("smgen", smVars)
  /\ Idle("msmgen", modesVars)
  /\ Idle("sqlgen", sqlVars)
  /\ Idle("implgen", implVars)
  /\ Idle("download-cosmocc", toolVars)
  /\ Idle("drift-gate", manifestVars)
  /\ Idle("generated", genVars)
  /\ Idle("schemas", parserVars)
  /\ Idle("regen-all", twoVars)
  /\ Idle("hsmgen", hsmVars)
  /\ Idle("machine", fsmVars)

ToolsSpec == ToolsInit /\ [][ToolsNext]_toolsVars

\* Every table, pointer and position of the tool at work keeps its type and its limit.
ToolsTypeOK ==
  /\ tool = "lexgen" => LexTypeOK
  /\ tool = "clipsgen" => RulesTypeOK
  /\ tool = "bddgen" => BddTypeOK
  /\ tool = "apigen" => ApiTypeOK
  /\ tool = "uigen" => UiTypeOK
  /\ tool = "schemagen" => StoreTypeOK
  /\ tool = "smgen" => SmTypeOK
  /\ tool = "msmgen" => ModesTypeOK
  /\ tool = "sqlgen" => SqlTypeOK
  /\ tool = "implgen" => ImplTypeOK
  /\ tool = "download-cosmocc" => ToolchainTypeOK
  /\ tool = "drift-gate" => ManifestTypeOK
  /\ tool = "generated" => GenTypeOK
  /\ tool = "schemas" => SchemaParserTypeOK
  /\ tool = "regen-all" => TwoRunsTypeOK

-----------------------------------------------------------------------------
(* lexgen: two literals of which one may begin the other, a literal with a *)
(* blank in it, and texts in which they stand alone and inside words.      *)

LexAlphabet == {"a", "1", "=", " ", "n"}

MCLiterals == {<<"a">>, <<"=">>, <<"=", "=">>, <<"a", " ", "a">>}

MCLexTexts ==
  [1..3 -> LexAlphabet]
    \cup {<<"a", " ", "a", "=", "=">>, <<"a", " ", "a", "1", " ", "a">>,
          <<"n", " ", "n", " ", "a">>, <<"=", "=", "=", "a">>, <<>>}

-----------------------------------------------------------------------------
(* apigen: a built-in error, and one that is spelt in two ways.            *)

MCErrorNames == {"InvalidInput", "Taken", "taken"}

MCEnumOf ==
  [e \in MCErrorNames |-> IF e = "InvalidInput" THEN "INVALID_INPUT" ELSE "TAKEN"]

MCErrorLists == {<<"Taken">>, <<"InvalidInput", "taken">>}

-----------------------------------------------------------------------------
(* schemagen: a field is added at the end, then one in the middle.         *)

MCFieldNames == {"id", "name", "size", "owner"}

MCFieldType ==
  [f \in MCFieldNames |-> CASE f = "id" -> "unsigned"
                            [] f = "name" -> "text"
                            [] f = "size" -> "signed"
                            [] f = "owner" -> "struct"]

MCSchema == <<<<"id", "name">>, <<"id", "name", "size">>, <<"id", "size", "owner", "name">>>>

\* A number, a text with a size and a member of another type, without attributes, with
\* one, with a keyword in its name or in its comment too, and with a bracket there.
SchemaField(base, sized, key, places, note) ==
  [base |-> base, sized |-> sized, note |-> note,
   at |-> [k \in SchemaKeys |-> IF k = key THEN places ELSE {}]]

MCFieldLines ==
  {SchemaField("int", FALSE, "range", p, FALSE) : p \in SUBSET Places}
    \cup {SchemaField("int", s, "default", p, TRUE) :
            s \in BOOLEAN, p \in {{}, {"attributes"}}}
    \cup {SchemaField("string", TRUE, "not_empty", p, FALSE) : p \in {{}, {"attributes"}}}
    \cup {SchemaField("struct", FALSE, "default", {"attributes", "comment"}, FALSE)}

-----------------------------------------------------------------------------
(* msmgen: 'ENTER' and 'CENTER' are one character constant.                *)

MCEventCode == [e \in {"ESC", "ENTER", "CENTER"} |-> IF e = "ESC" THEN 1 ELSE 2]

\* on ESC -> Normal
MCModeRests == {<<>>, <<[event |-> "ESC", target |-> "Normal"]>>}

-----------------------------------------------------------------------------
(* implgen: a list of one instruction set and one of two. *)

MCSimdLists == {<<"avx2">>, <<"sse4", "neon">>}

-----------------------------------------------------------------------------
(* regen-all.sh: the outputs of one specification; its second version has  *)
(* less to print.                                                          *)

MCOutputList == <<"door_sm.h", "door_sm.c">>

MCBuffers == <<2, 1>>
=============================================================================
