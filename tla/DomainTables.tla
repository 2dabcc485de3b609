---------------------------- MODULE DomainTables ----------------------------
(***************************************************************************)
(* The types schemagen wrote to gen/domain.                                *)
(***************************************************************************)
EXTENDS GenKinds

\* gen/domain/e9livereload_types.h, the structs in their order.
E9livereloadStructs ==
  << Char(3) \o U32(1) \o I32(2) \o U64(1) \o U32(1),
     Char(1) \o U64(2) \o I64(1) \o U32(1) \o U64(1) \o I64(1) \o U32(1) \o U64(1)
       \o I64(1) \o U32(1) \o U64(1) \o I32(1) \o Char(1),
     U32(1) \o Char(2) \o I32(1) \o U64(3) \o I32(1) \o Char(1) \o U64(1),
     I32(1) \o U64(7) \o Char(1) \o U32(1),
     Char(2) \o I32(1) \o U64(3),
     I32(1) \o U64(1) \o Char(1) \o U32(1) \o Char(1) \o U64(2) \o I32(1) \o Char(1) >>

\* gen/domain/e9livereload_types.c: _init and _validate.
E9livereloadChecks ==
  << Checks({<<4, 100>>, <<5, 1>>, <<6, 0>>, <<7, 65536>>, <<8, 256>>}, {}, {}),
     Checks({<<13, 0>>}, {}, {}),
     Checks({}, {}, {}),
     Checks({}, {}, {}),
     Checks({}, {}, {}),
     Checks({}, {}, {}) >>

\* gen/domain/e9livereload_json.c.
E9LiveReloadConfigJson == JStr(3) \o JUint(1) \o JInt(2) \o JUint(2)
E9PatchStateJson == JStr(1) \o JUint(2) \o JInt(1) \o JUint(2) \o JInt(1)
    \o JUint(2) \o JInt(1) \o JUint(2) \o JInt(1) \o JStr(1)
E9PendingPatchJson == JUint(1) \o JStr(2) \o JInt(1) \o JUint(3) \o JInt(1)
    \o JStr(1) \o JUint(1)
E9LiveReloadSessionJson == JInt(1) \o JUint(7) \o JStr(1) \o JUint(1)
E9CompilerInvocationJson == JStr(2) \o JInt(1) \o JUint(3)
E9LiveReloadEventJson == JInt(1) \o JUint(1) \o JStr(1) \o JUint(1) \o JStr(1)
    \o JUint(2) \o JInt(1) \o JStr(1)
E9livereloadJson == << E9LiveReloadConfigJson, E9PatchStateJson,
                       E9PendingPatchJson, E9LiveReloadSessionJson,
                       E9CompilerInvocationJson, E9LiveReloadEventJson >>

\* gen/domain/e9livereload_sql.c.
E9LiveReloadConfigSql == Table(Text(3) \o Integer(5), NoId)
E9PatchStateSql == Table(Text(1) \o Integer(12) \o Text(1), NoId)
E9PendingPatchSql == Table(Integer(1) \o Text(2) \o Integer(5) \o Text(1)
      \o Integer(1), 1)
E9LiveReloadSessionSql == Table(Integer(8) \o Text(1) \o Integer(1), NoId)
E9CompilerInvocationSql == Table(Text(2) \o Integer(4), NoId)
E9LiveReloadEventSql == Table(Integer(2) \o Text(1) \o Integer(1) \o Text(1)
      \o Integer(3) \o Text(1), NoId)
E9livereloadSql == << E9LiveReloadConfigSql, E9PatchStateSql, E9PendingPatchSql,
                      E9LiveReloadSessionSql, E9CompilerInvocationSql,
                      E9LiveReloadEventSql >>

\* gen/domain/example_types.h, the structs in their order.
ExampleStructs ==
  << U64(1) \o Char(1) \o I32(2) >>

\* gen/domain/example_types.c: _init and _validate.
ExampleChecks ==
  << Checks({}, {}, {}) >>

\* gen/domain/example_json.c.
ExampleExampleJson == JUint(1) \o JStr(1) \o JInt(2)
ExampleJson == << ExampleExampleJson >>

\* gen/domain/example_sql.c.
ExampleExampleSql == Table(Integer(1) \o Text(1) \o Integer(2), 1)
ExampleSql == << ExampleExampleSql >>

\* gen/domain/livereload_types.h, the structs in their order.
LivereloadStructs ==
  << Char(4) \o U32(1) \o I32(2) \o U64(1) \o U32(1) \o I32(1),
     Char(1) \o U64(2) \o Char(1),
     U32(1) \o Char(1) \o U64(3) \o I32(1) \o Char(1) \o U64(1),
     I32(2) \o Char(1) \o U64(8) \o Char(1) \o U32(1),
     Char(2) \o I32(1) \o U64(3) \o I32(1),
     I32(1) \o U64(1) \o Char(2) \o U32(1) \o U64(2) \o I32(1) \o Char(1) >>

\* gen/domain/livereload_types.c: _init and _validate.
LivereloadChecks ==
  << Checks({<<5, 100>>}, {}, {}),
     Checks({}, {}, {}),
     Checks({}, {}, {}),
     Checks({}, {}, {}),
     Checks({}, {}, {}),
     Checks({}, {}, {}) >>

\* gen/domain/livereload_json.c.
LiveReloadConfigJson == JStr(4) \o JUint(1) \o JInt(2) \o JUint(2) \o JInt(1)
FunctionInfoJson == JStr(1) \o JUint(2) \o JStr(1)
PatchInfoJson == JUint(1) \o JStr(1) \o JUint(3) \o JInt(1) \o JStr(1) \o JUint(1)
LiveReloadSessionJson == JInt(2) \o JStr(1) \o JUint(8) \o JStr(1) \o JUint(1)
CompileResultJson == JStr(2) \o JInt(1) \o JUint(3) \o JInt(1)
LiveReloadEventJson == JInt(1) \o JUint(1) \o JStr(2) \o JUint(3) \o JInt(1) \o JStr(1)
LivereloadJson == << LiveReloadConfigJson, FunctionInfoJson, PatchInfoJson,
                     LiveReloadSessionJson, CompileResultJson,
                     LiveReloadEventJson >>

\* gen/domain/livereload_sql.c.
LiveReloadConfigSql == Table(Text(4) \o Integer(6), NoId)
FunctionInfoSql == Table(Text(1) \o Integer(2) \o Text(1), NoId)
PatchInfoSql == Table(Integer(1) \o Text(1) \o Integer(4) \o Text(1) \o Integer(1), 1)
LiveReloadSessionSql == Table(Integer(2) \o Text(1) \o Integer(8) \o Text(1)
      \o Integer(1), NoId)
CompileResultSql == Table(Text(2) \o Integer(5), NoId)
LiveReloadEventSql == Table(Integer(2) \o Text(2) \o Integer(4) \o Text(1), NoId)
LivereloadSql == << LiveReloadConfigSql, FunctionInfoSql, PatchInfoSql,
                    LiveReloadSessionSql, CompileResultSql, LiveReloadEventSql >>

\* gen/domain/objdiff_types.h, the structs in their order.
ObjdiffStructs ==
  << Char(1) \o U64(2) \o I32(2) \o Char(1),
     Char(1) \o I32(1) \o U64(4) \o U32(1),
     Char(2) \o I32(2) \o U32(5) \o Char(1),
     I32(1) \o Char(1) \o U64(1) \o Char(1) >>

\* gen/domain/objdiff_types.c: _init and _validate.
ObjdiffChecks ==
  << Checks({}, {}, {}),
     Checks({}, {}, {}),
     Checks({}, {}, {}),
     Checks({}, {}, {}) >>

\* gen/domain/objdiff_json.c.
ObjSymbolJson == JStr(1) \o JUint(2) \o JInt(2) \o JStr(1)
FuncDiffJson == JStr(1) \o JInt(1) \o JUint(5)
DiffSessionJson == JStr(2) \o JInt(2) \o JUint(5) \o JStr(1)
WamrStateJson == JInt(1) \o JStr(1) \o JUint(1) \o JStr(1)
ObjdiffJson == << ObjSymbolJson, FuncDiffJson, DiffSessionJson, WamrStateJson >>

\* gen/domain/objdiff_sql.c.
ObjSymbolSql == Table(Text(1) \o Integer(4) \o Text(1), NoId)
FuncDiffSql == Table(Text(1) \o Integer(6), NoId)
DiffSessionSql == Table(Text(2) \o Integer(7) \o Text(1), NoId)
WamrStateSql == Table(Integer(1) \o Text(1) \o Integer(1) \o Text(1), NoId)
ObjdiffSql == << ObjSymbolSql, FuncDiffSql, DiffSessionSql, WamrStateSql >>

\* gen/domain/procmem_types.h, the structs in their order.
ProcmemStructs ==
  << I32(1) \o U64(1) \o U32(1) \o I32(1) \o Char(1),
     U64(2) \o U32(1) \o I32(1) \o Char(1),
     U32(1) \o U64(2) \o I32(1) \o U64(1),
     I32(2) \o U32(1) \o I32(2) \o Char(1) >>

\* gen/domain/procmem_types.c: _init and _validate.
ProcmemChecks ==
  << Checks({}, {}, {}),
     Checks({}, {}, {}),
     Checks({}, {}, {}),
     Checks({}, {}, {}) >>

\* gen/domain/procmem_json.c.
ProcHandleJson == JInt(1) \o JUint(2) \o JInt(1) \o JStr(1)
MemRegionJson == JUint(3) \o JInt(1) \o JStr(1)
PatchOpJson == JUint(3) \o JInt(1) \o JUint(1)
PlatformInfoJson == JInt(2) \o JUint(1) \o JInt(2) \o JStr(1)
ProcmemJson == << ProcHandleJson, MemRegionJson, PatchOpJson, PlatformInfoJson >>

\* gen/domain/procmem_sql.c.
ProcHandleSql == Table(Integer(4) \o Text(1), NoId)
MemRegionSql == Table(Integer(4) \o Text(1), NoId)
PatchOpSql == Table(Integer(5), 1)
PlatformInfoSql == Table(Integer(5) \o Text(1), NoId)
ProcmemSql == << ProcHandleSql, MemRegionSql, PatchOpSql, PlatformInfoSql >>

\* gen/domain/sensor_types.h, the structs in their order.
SensorStructs ==
  << U64(1) \o Char(1) \o I32(1) >>

\* gen/domain/sensor_types.c: _init and _validate.
SensorChecks ==
  << Checks({<<3, 1>>}, {}, {}) >>
=============================================================================
