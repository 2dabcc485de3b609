------------------------------ MODULE GenTables ------------------------------
(***************************************************************************)
(* The types schemagen wrote to gen/, a file of specs/ at a time.          *)
(***************************************************************************)
EXTENDS DomainTables, GeneratorTables, Ring2Tables

\* The files of gen/; sensor_types has neither JSON nor SQL.
Outputs(structs, checks, calls, tables) ==
  [structs |-> structs, checks |-> checks, calls |-> calls, tables |-> tables]

GenFiles ==
  << Outputs(E9livereloadStructs, E9livereloadChecks,
             E9livereloadJson, E9livereloadSql),
     Outputs(ExampleStructs, ExampleChecks, ExampleJson, ExampleSql),
     Outputs(LivereloadStructs, LivereloadChecks, LivereloadJson, LivereloadSql),
     Outputs(ObjdiffStructs, ObjdiffChecks, ObjdiffJson, ObjdiffSql),
     Outputs(ProcmemStructs, ProcmemChecks, ProcmemJson, ProcmemSql),
     Outputs(SensorStructs, SensorChecks, <<>>, <<>>),
     Outputs(BddgenStructs, BddgenChecks, BddgenJson, BddgenSql),
     Outputs(DefStructs, DefChecks, DefJson, DefSql),
     Outputs(DefgenStructs, DefgenChecks, DefgenJson, DefgenSql),
     Outputs(FeatureStructs, FeatureChecks, FeatureJson, FeatureSql),
     Outputs(GrammarStructs, GrammarChecks, GrammarJson, GrammarSql),
     Outputs(ImplStructs, ImplChecks, ImplJson, ImplSql),
     Outputs(SchemagenStructs, SchemagenChecks, SchemagenJson, SchemagenSql),
     Outputs(EezStudioStructs, EezStudioChecks, EezStudioJson, EezStudioSql),
     Outputs(OpenmodelicaStructs, OpenmodelicaChecks,
             OpenmodelicaJson, OpenmodelicaSql),
     Outputs(ProtobufStructs, ProtobufChecks, ProtobufJson, ProtobufSql),
     Outputs(StatesmithStructs, StatesmithChecks, StatesmithJson, StatesmithSql),
     Outputs(WasmStructs, WasmChecks, WasmJson, WasmSql) >>
=============================================================================
