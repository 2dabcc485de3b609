----------------------------- MODULE Ring2Tables -----------------------------
(***************************************************************************)
(* The types schemagen wrote to gen/ring2.                                 *)
(***************************************************************************)
EXTENDS GenKinds

\* gen/ring2/eez_studio_types.h, the structs in their order.
EezStudioStructs ==
  << Char(2) \o I32(4) \o Char(1) \o I32(2) \o Char(2) \o I32(1),
     Char(1) \o U8(1) \o Char(1) \o U8(1),
     Char(2) \o I32(2) \o Char(2),
     U8(1) \o F64(3) \o Char(2),
     Char(1) \o U32(3) \o I32(6) \o Char(1) \o U8(1),
     Char(1) \o I32(3) \o Char(1) \o I32(2),
     Char(1) \o U8(1) \o Char(1),
     Char(4),
     Char(2) \o I32(1) \o U8(1) \o Char(1),
     Char(2) \o U8(1) \o I32(1),
     Char(2) \o I32(1),
     Char(2) \o I32(2) \o Char(3) \o I32(6),
     Char(1) \o I32(6) \o Char(1) >>

\* gen/ring2/eez_studio_types.c: _init and _validate.
EezStudioChecks ==
  << Checks({<<3, 0>>, <<4, 0>>, <<5, 100>>, <<6, 50>>, <<8, 1>>, <<9, 1>>,
             <<12, 0>>},
            {1}, {}),
     Checks({}, {}, {<<2, 0, 2>>, <<4, 0, 2>>}),
     Checks({<<3, 0>>, <<4, 0>>}, {}, {}),
     Checks({<<2, 0>>, <<3, 100>>, <<4, 1>>}, {}, {<<1, 0, 4>>}),
     Checks({<<2, 0>>, <<3, 0>>, <<4, 0>>, <<5, 0>>, <<6, 0>>, <<7, 0>>, <<8, 0>>,
             <<9, 0>>, <<10, 0>>, <<12, 255>>},
            {1}, {}),
     Checks({<<2, 320>>, <<3, 240>>, <<6, 0>>, <<7, 1>>}, {1}, {<<4, 0, 256>>}),
     Checks({}, {1}, {<<2, 0, 10>>}),
     Checks({}, {1, 2}, {}),
     Checks({}, {1}, {<<3, 6, 144>>, <<4, 1, 8>>}),
     Checks({<<4, 0>>}, {1, 2}, {<<3, 1, 32>>}),
     Checks({}, {1}, {<<3, 0, 64>>}),
     Checks({<<3, 320>>, <<4, 240>>},
            {1},
            {<<8, 1, 64>>, <<9, 0, 32>>, <<10, 0, 128>>, <<11, 0, 64>>,
             <<12, 0, 128>>, <<13, 0, 256>>}),
     Checks({<<2, 1>>, <<3, 1>>, <<4, 1>>, <<5, 1>>, <<6, 1>>, <<7, 0>>}, {1}, {}) >>

\* gen/ring2/eez_studio_json.c.
EezWidgetJson == JStr(2) \o JInt(4) \o JStr(1) \o JInt(2) \o JStr(2) \o JInt(1)
EezLabelJson == JStr(1) \o JUint(1) \o JStr(1) \o JUint(1)
EezButtonJson == JStr(2) \o JInt(2) \o JStr(2)
EezInputJson == JUint(1) \o JReal(3) \o JStr(2)
EezStyleJson == JStr(1) \o JUint(3) \o JInt(6) \o JStr(1) \o JUint(1)
EezPageJson == JStr(1) \o JInt(3) \o JStr(1) \o JInt(2)
EezActionJson == JStr(1) \o JUint(1) \o JStr(1)
EezDataItemJson == JStr(4)
EezFontJson == JStr(2) \o JInt(1) \o JUint(1) \o JStr(1)
EezBitmapJson == JStr(2) \o JUint(1) \o JInt(1)
EezThemeJson == JStr(2) \o JInt(1)
EezProjectConfigJson == JStr(2) \o JInt(2) \o JStr(3) \o JInt(6)
EezBuildConfigJson == JStr(1) \o JInt(6) \o JStr(1)
EezStudioJson == << EezWidgetJson, EezLabelJson, EezButtonJson, EezInputJson,
                    EezStyleJson, EezPageJson, EezActionJson, EezDataItemJson,
                    EezFontJson, EezBitmapJson, EezThemeJson, EezProjectConfigJson,
                    EezBuildConfigJson >>

\* gen/ring2/eez_studio_sql.c.
EezWidgetSql == Table(Text(2) \o Integer(4) \o Text(1) \o Integer(2) \o Text(2)
      \o Integer(1), NoId)
EezLabelSql == Table(Text(1) \o Integer(1) \o Text(1) \o Integer(1), NoId)
EezButtonSql == Table(Text(2) \o Integer(2) \o Text(2), NoId)
EezInputSql == Table(Integer(1) \o Double(3) \o Text(2), NoId)
EezStyleSql == Table(Text(1) \o Integer(9) \o Text(1) \o Integer(1), NoId)
EezPageSql == Table(Text(1) \o Integer(3) \o Text(1) \o Integer(2), NoId)
EezActionSql == Table(Text(1) \o Integer(1) \o Text(1), NoId)
EezDataItemSql == Table(Text(4), NoId)
EezFontSql == Table(Text(2) \o Integer(2) \o Text(1), NoId)
EezBitmapSql == Table(Text(2) \o Integer(2), NoId)
EezThemeSql == Table(Text(2) \o Integer(1), NoId)
EezProjectConfigSql == Table(Text(2) \o Integer(2) \o Text(3) \o Integer(6), NoId)
EezBuildConfigSql == Table(Text(1) \o Integer(6) \o Text(1), NoId)
EezStudioSql == << EezWidgetSql, EezLabelSql, EezButtonSql, EezInputSql,
                   EezStyleSql, EezPageSql, EezActionSql, EezDataItemSql,
                   EezFontSql, EezBitmapSql, EezThemeSql, EezProjectConfigSql,
                   EezBuildConfigSql >>

\* gen/ring2/openmodelica_types.h, the structs in their order.
OpenmodelicaStructs ==
  << Char(1) \o U8(3) \o Char(3) \o F64(3) \o I32(1) \o Char(1),
     U8(1) \o Char(3) \o I32(1),
     Char(2) \o I32(3),
     Char(2) \o I32(5),
     Char(4),
     Char(1) \o U8(1) \o I32(7) \o Char(1),
     Char(2) \o I32(2),
     F64(4) \o Char(2) \o I32(1),
     Char(3) \o I32(5),
     Char(1) \o U8(1) \o Char(1) \o I32(1) \o Char(1) >>

\* gen/ring2/openmodelica_types.c: _init and _validate.
OpenmodelicaChecks ==
  << Checks({<<10, 1>>, <<11, 0>>}, {1}, {<<2, 0, 5>>, <<3, 0, 3>>, <<4, 0, 4>>}),
     Checks({<<5, 0>>}, {}, {<<1, 0, 5>>}),
     Checks({<<3, 0>>, <<4, 0>>}, {1}, {<<5, 0, 32>>}),
     Checks({<<3, 0>>, <<4, 0>>, <<5, 0>>, <<6, 0>>, <<7, 0>>}, {1, 2}, {}),
     Checks({}, {1, 2, 3, 4}, {}),
     Checks({<<3, 0>>, <<4, 0>>, <<5, 0>>},
            {1},
            {<<2, 0, 7>>, <<6, 0, 256>>, <<7, 0, 1024>>, <<8, 0, 128>>,
             <<9, 0, 256>>}),
     Checks({}, {1}, {<<3, 0, 512>>, <<4, 0, 32>>}),
     Checks({<<1, 0>>, <<2, 1>>, <<3, 0>>, <<4, 0>>, <<7, 500>>}, {}, {}),
     Checks({<<4, 1>>, <<5, 1>>, <<6, 0>>, <<7, 1>>, <<8, 0>>}, {1, 2}, {}),
     Checks({<<4, 0>>}, {1}, {<<2, 0, 2>>}) >>

\* gen/ring2/openmodelica_json.c.
MoVariableJson == JStr(1) \o JUint(3) \o JStr(3) \o JReal(3) \o JInt(1) \o JStr(1)
MoEquationJson == JUint(1) \o JStr(3) \o JInt(1)
MoConnectorJson == JStr(2) \o JInt(3)
MoComponentJson == JStr(2) \o JInt(5)
MoConnectionJson == JStr(4)
MoClassJson == JStr(1) \o JUint(1) \o JInt(7) \o JStr(1)
MoPackageJson == JStr(2) \o JInt(2)
MoSimulationConfigJson == JReal(4) \o JStr(2) \o JInt(1)
OmcCompilerConfigJson == JStr(3) \o JInt(5)
MoFmuConfigJson == JStr(1) \o JUint(1) \o JStr(1) \o JInt(1) \o JStr(1)
OpenmodelicaJson == << MoVariableJson, MoEquationJson, MoConnectorJson,
                       MoComponentJson, MoConnectionJson, MoClassJson,
                       MoPackageJson, MoSimulationConfigJson,
                       OmcCompilerConfigJson, MoFmuConfigJson >>

\* gen/ring2/openmodelica_sql.c.
MoVariableSql == Table(Text(1) \o Integer(3) \o Text(3) \o Double(3) \o Integer(1)
      \o Text(1), NoId)
MoEquationSql == Table(Integer(1) \o Text(3) \o Integer(1), NoId)
MoConnectorSql == Table(Text(2) \o Integer(3), NoId)
MoComponentSql == Table(Text(2) \o Integer(5), NoId)
MoConnectionSql == Table(Text(4), NoId)
MoClassSql == Table(Text(1) \o Integer(8) \o Text(1), NoId)
MoPackageSql == Table(Text(2) \o Integer(2), NoId)
MoSimulationConfigSql == Table(Double(4) \o Text(2) \o Integer(1), NoId)
OmcCompilerConfigSql == Table(Text(3) \o Integer(5), NoId)
MoFmuConfigSql == Table(Text(1) \o Integer(1) \o Text(1) \o Integer(1) \o Text(1), NoId)
OpenmodelicaSql == << MoVariableSql, MoEquationSql, MoConnectorSql, MoComponentSql,
                      MoConnectionSql, MoClassSql, MoPackageSql,
                      MoSimulationConfigSql, OmcCompilerConfigSql,
                      MoFmuConfigSql >>

\* gen/ring2/protobuf_types.h, the structs in their order.
ProtobufStructs ==
  << Char(1) \o I32(1) \o U8(1) \o Char(1) \o U8(1) \o Char(1) \o I32(3) \o Char(1),
     Char(2) \o I32(4) \o Char(2) \o I32(1),
     Char(2) \o I32(3),
     Char(1) \o I32(2),
     Char(1) \o I32(1),
     Char(2) \o I32(2),
     Char(3) \o I32(3),
     Char(3) \o I32(6),
     Char(1) \o I32(2),
     Char(3) \o I32(3),
     I32(5) \o Char(1) >>

\* gen/ring2/protobuf_types.c: _init and _validate.
ProtobufChecks ==
  << Checks({<<7, -1>>, <<8, 0>>, <<9, 0>>},
            {1}, {<<2, 1, 536870911>>, <<3, 0, 17>>, <<5, 0, 2>>}),
     Checks({<<9, 0>>}, {1}, {<<3, 0, 512>>, <<4, 0, 64>>, <<5, 0, 32>>, <<6, 0, 16>>}),
     Checks({<<4, 0>>, <<5, 0>>}, {1}, {<<3, 0, 256>>}),
     Checks({<<3, 0>>}, {1}, {}),
     Checks({}, {1}, {<<2, 0, 32>>}),
     Checks({<<4, 0>>}, {1}, {<<3, 0, 64>>}),
     Checks({<<4, 0>>, <<5, 0>>, <<6, 0>>}, {1, 2, 3}, {}),
     Checks({<<8, 0>>, <<9, 0>>},
            {1}, {<<4, 0, 256>>, <<5, 0, 64>>, <<6, 0, 16>>, <<7, 0, 64>>}),
     Checks({<<2, 0>>, <<3, 0>>}, {1}, {}),
     Checks({<<4, 0>>, <<5, 1>>, <<6, 1>>}, {1, 2}, {}),
     Checks({<<5, 0>>},
            {}, {<<1, 0, 128>>, <<2, 0, 1024>>, <<3, 0, 256>>, <<4, 0, 64>>}) >>

\* gen/ring2/protobuf_json.c.
ProtoFieldJson == JStr(1) \o JInt(1) \o JUint(1) \o JStr(1) \o JUint(1) \o JStr(1)
    \o JInt(3) \o JStr(1)
ProtoMessageJson == JStr(2) \o JInt(4) \o JStr(2) \o JInt(1)
ProtoEnumJson == JStr(2) \o JInt(3)
ProtoEnumValueJson == JStr(1) \o JInt(2)
ProtoOneofJson == JStr(1) \o JInt(1)
ProtoServiceJson == JStr(2) \o JInt(2)
ProtoMethodJson == JStr(3) \o JInt(3)
ProtoFileJson == JStr(3) \o JInt(6)
ProtoImportJson == JStr(1) \o JInt(2)
ProtocCConfigJson == JStr(3) \o JInt(3)
ProtoParseStateJson == JInt(5) \o JStr(1)
ProtobufJson == << ProtoFieldJson, ProtoMessageJson, ProtoEnumJson,
                   ProtoEnumValueJson, ProtoOneofJson, ProtoServiceJson,
                   ProtoMethodJson, ProtoFileJson, ProtoImportJson,
                   ProtocCConfigJson, ProtoParseStateJson >>

\* gen/ring2/protobuf_sql.c.
ProtoFieldSql == Table(Text(1) \o Integer(2) \o Text(1) \o Integer(1) \o Text(1)
      \o Integer(3) \o Text(1), NoId)
ProtoMessageSql == Table(Text(2) \o Integer(4) \o Text(2) \o Integer(1), NoId)
ProtoEnumSql == Table(Text(2) \o Integer(3), NoId)
ProtoEnumValueSql == Table(Text(1) \o Integer(2), NoId)
ProtoOneofSql == Table(Text(1) \o Integer(1), NoId)
ProtoServiceSql == Table(Text(2) \o Integer(2), NoId)
ProtoMethodSql == Table(Text(3) \o Integer(3), NoId)
ProtoFileSql == Table(Text(3) \o Integer(6), NoId)
ProtoImportSql == Table(Text(1) \o Integer(2), NoId)
ProtocCConfigSql == Table(Text(3) \o Integer(3), NoId)
ProtoParseStateSql == Table(Integer(5) \o Text(1), NoId)
ProtobufSql == << ProtoFieldSql, ProtoMessageSql, ProtoEnumSql, ProtoEnumValueSql,
                  ProtoOneofSql, ProtoServiceSql, ProtoMethodSql, ProtoFileSql,
                  ProtoImportSql, ProtocCConfigSql, ProtoParseStateSql >>

\* gen/ring2/statesmith_types.h, the structs in their order.
StatesmithStructs ==
  << Char(2) \o I32(2) \o Char(3) \o U8(1),
     Char(5) \o I32(1),
     Char(1) \o I32(1) \o Char(1),
     Char(3) \o I32(1),
     Char(1) \o I32(4) \o Char(1) \o U8(1),
     Char(5) \o I32(1) \o Char(2) \o I32(5) \o Char(3),
     U8(1) \o Char(2),
     Char(5) \o I32(2),
     U8(1) \o Char(2) \o I32(1) >>

\* gen/ring2/statesmith_types.c: _init and _validate.
StatesmithChecks ==
  << Checks({<<3, 0>>, <<4, 0>>}, {1}, {<<8, 0, 2>>}),
     Checks({<<6, 0>>}, {1, 2}, {}),
     Checks({<<2, 0>>}, {1}, {}),
     Checks({<<4, 0>>}, {1, 2}, {}),
     Checks({},
            {1, 6},
            {<<2, 1, 256>>, <<3, 0, 1024>>, <<4, 0, 128>>, <<5, 0, 64>>,
             <<7, 0, 2>>}),
     Checks({<<6, 0>>, <<9, 1>>, <<10, 1>>, <<11, 1>>, <<12, 0>>, <<13, 0>>}, {}, {}),
     Checks({}, {2}, {<<1, 0, 2>>}),
     Checks({<<6, 0>>, <<7, 0>>}, {1, 3}, {}),
     Checks({}, {}, {<<1, 0, 10>>}) >>

\* gen/ring2/statesmith_json.c.
SmithStateJson == JStr(2) \o JInt(2) \o JStr(3) \o JUint(1)
SmithTransitionJson == JStr(5) \o JInt(1)
SmithEventJson == JStr(1) \o JInt(1) \o JStr(1)
SmithVariableJson == JStr(3) \o JInt(1)
SmithMachineJson == JStr(1) \o JInt(4) \o JStr(1) \o JUint(1)
SmithRenderConfigJson == JStr(5) \o JInt(1) \o JStr(2) \o JInt(5) \o JStr(3)
SmithInputSourceJson == JUint(1) \o JStr(2)
SmithProjectConfigJson == JStr(5) \o JInt(2)
SmithValidationErrorJson == JUint(1) \o JStr(2) \o JInt(1)
StatesmithJson == << SmithStateJson, SmithTransitionJson, SmithEventJson,
                     SmithVariableJson, SmithMachineJson, SmithRenderConfigJson,
                     SmithInputSourceJson, SmithProjectConfigJson,
                     SmithValidationErrorJson >>

\* gen/ring2/statesmith_sql.c.
SmithStateSql == Table(Text(2) \o Integer(2) \o Text(3) \o Integer(1), NoId)
SmithTransitionSql == Table(Text(5) \o Integer(1), NoId)
SmithEventSql == Table(Text(1) \o Integer(1) \o Text(1), NoId)
SmithVariableSql == Table(Text(3) \o Integer(1), NoId)
SmithMachineSql == Table(Text(1) \o Integer(4) \o Text(1) \o Integer(1), NoId)
SmithRenderConfigSql == Table(Text(5) \o Integer(1) \o Text(2) \o Integer(5)
      \o Text(3), NoId)
SmithInputSourceSql == Table(Integer(1) \o Text(2), NoId)
SmithProjectConfigSql == Table(Text(5) \o Integer(2), NoId)
SmithValidationErrorSql == Table(Integer(1) \o Text(2) \o Integer(1), NoId)
StatesmithSql == << SmithStateSql, SmithTransitionSql, SmithEventSql,
                    SmithVariableSql, SmithMachineSql, SmithRenderConfigSql,
                    SmithInputSourceSql, SmithProjectConfigSql,
                    SmithValidationErrorSql >>

\* gen/ring2/wasm_types.h, the structs in their order.
WasmStructs ==
  << Char(1) \o I32(1) \o Char(1),
     Char(2) \o I32(14) \o Char(1) \o I32(1),
     I32(15),
     Char(2) \o I64(3),
     Char(4),
     Char(2),
     U8(2) \o I64(1) \o I32(9) \o Char(1) \o I32(2),
     Char(5) \o I32(7),
     Char(3) \o I32(1),
     Char(5) \o I32(2) \o I64(3) \o I32(2) \o Char(1) \o I32(2) >>

\* gen/ring2/wasm_types.c: _init and _validate.
WasmChecks ==
  << Checks({<<2, 1>>}, {1}, {}),
     Checks({<<5, 0>>, <<6, 0>>, <<7, 1>>, <<8, 0>>, <<9, 0>>, <<10, 0>>,
             <<11, 0>>, <<12, 0>>, <<13, 0>>, <<14, 0>>, <<15, 0>>, <<16, 0>>,
             <<18, 0>>},
            {1, 2}, {<<3, 0, 4>>, <<4, 0, 2>>}),
     Checks({<<1, 1>>, <<2, 1>>, <<3, 1>>, <<4, 1>>, <<5, 0>>, <<6, 1>>, <<7, 1>>,
             <<8, 1>>, <<9, 0>>, <<10, 1>>, <<11, 1>>, <<12, 1>>, <<13, 0>>,
             <<14, 0>>, <<15, 0>>},
            {}, {}),
     Checks({<<3, 0>>, <<4, 65536>>, <<5, 16384>>}, {1}, {}),
     Checks({}, {1, 2, 3, 4}, {}),
     Checks({}, {1, 2}, {}),
     Checks({<<3, 1048576>>, <<4, 4>>, <<5, 1>>, <<6, 0>>, <<7, 0>>, <<8, 0>>,
             <<9, 0>>, <<10, 0>>, <<11, 0>>, <<12, 1>>, <<14, 0>>, <<15, 1234>>},
            {}, {<<1, 0, 2>>, <<2, 0, 2>>}),
     Checks({<<6, 3>>, <<7, 0>>, <<8, 0>>, <<9, 1>>, <<10, 0>>, <<11, 1>>,
             <<12, 1>>},
            {1, 2}, {<<6, 0, 3>>, <<7, 0, 2>>}),
     Checks({<<4, 0>>}, {1, 2, 3}, {}),
     Checks({<<6, 1>>, <<7, 0>>, <<8, 65536>>, <<9, 1048576>>, <<10, 0>>,
             <<11, 1>>, <<12, 3>>, <<14, 0>>, <<15, 0>>},
            {13}, {}) >>

\* gen/ring2/wasm_json.c.
WasmOptPassJson == JStr(1) \o JInt(1) \o JStr(1)
BinaryenConfigJson == JStr(2) \o JInt(14) \o JStr(1) \o JInt(1)
WasmOptConfigJson == JInt(15)
WamrModuleJson == JStr(2) \o JInt(3)
WamrImportJson == JStr(4)
WamrExportJson == JStr(2)
WamrRuntimeConfigJson == JUint(2) \o JInt(10) \o JStr(1) \o JInt(2)
WamrAotConfigJson == JStr(5) \o JInt(7)
WasmEmbeddingJson == JStr(3) \o JInt(1)
WasmBuildConfigJson == JStr(5) \o JInt(7) \o JStr(1) \o JInt(2)
WasmJson == << WasmOptPassJson, BinaryenConfigJson, WasmOptConfigJson,
               WamrModuleJson, WamrImportJson, WamrExportJson,
               WamrRuntimeConfigJson, WamrAotConfigJson, WasmEmbeddingJson,
               WasmBuildConfigJson >>

\* gen/ring2/wasm_sql.c.
WasmOptPassSql == Table(Text(1) \o Integer(1) \o Text(1), NoId)
BinaryenConfigSql == Table(Text(2) \o Integer(14) \o Text(1) \o Integer(1), NoId)
WasmOptConfigSql == Table(Integer(15), NoId)
WamrModuleSql == Table(Text(2) \o Integer(3), NoId)
WamrImportSql == Table(Text(4), NoId)
WamrExportSql == Table(Text(2), NoId)
WamrRuntimeConfigSql == Table(Integer(12) \o Text(1) \o Integer(2), NoId)
WamrAotConfigSql == Table(Text(5) \o Integer(7), NoId)
WasmEmbeddingSql == Table(Text(3) \o Integer(1), NoId)
WasmBuildConfigSql == Table(Text(5) \o Integer(7) \o Text(1) \o Integer(2), NoId)
WasmSql == << WasmOptPassSql, BinaryenConfigSql, WasmOptConfigSql, WamrModuleSql,
              WamrImportSql, WamrExportSql, WamrRuntimeConfigSql, WamrAotConfigSql,
              WasmEmbeddingSql, WasmBuildConfigSql >>
=============================================================================
