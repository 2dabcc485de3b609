--------------------------- MODULE GeneratorTables ---------------------------
(***************************************************************************)
(* The types schemagen wrote to gen/generators.                            *)
(***************************************************************************)
EXTENDS GenKinds

\* gen/generators/bddgen_types.h, the structs in their order.
BddgenStructs ==
  << U8(1) \o Char(1) \o I32(1) \o Char(1) \o I32(4),
     I32(2) \o Char(1),
     Char(1) \o I32(3) \o Char(1) \o I32(1),
     I32(2),
     Char(1) \o I32(2) \o Char(1) \o I32(1),
     Char(2) \o I32(2) \o Char(2) \o I32(1),
     Char(2) \o I32(1) \o Char(1),
     Char(1) \o I32(1) \o U8(1) \o I64(1) \o Char(1) \o I32(1),
     I32(5) \o Char(1),
     Char(3) \o I32(3) >>

\* gen/generators/bddgen_types.c: _init and _validate.
BddgenChecks ==
  << Checks({<<3, 0>>, <<5, 0>>, <<6, 0>>, <<7, 0>>, <<8, 0>>}, {2}, {<<1, 0, 4>>}),
     Checks({}, {}, {}),
     Checks({<<3, 0>>, <<4, 0>>, <<6, 0>>}, {1}, {<<2, 0, 64>>}),
     Checks({<<2, 0>>}, {}, {<<1, 0, 16>>}),
     Checks({<<5, 0>>}, {}, {<<2, 0, 256>>, <<3, 0, 32>>}),
     Checks({<<4, 0>>, <<7, 0>>}, {1}, {<<3, 0, 128>>}),
     Checks({}, {1}, {<<3, 0, 8>>}),
     Checks({<<4, 0>>, <<6, 0>>}, {}, {<<3, 0, 4>>}),
     Checks({<<4, 1>>, <<5, 0>>}, {}, {<<1, 0, 128>>, <<2, 0, 1024>>, <<3, 0, 8192>>}),
     Checks({<<4, 1>>, <<5, 1>>, <<6, 0>>}, {1, 2}, {}) >>

\* gen/generators/bddgen_json.c.
BddStepJson == JUint(1) \o JStr(1) \o JInt(1) \o JStr(1) \o JInt(4)
BddDataCellJson == JInt(2) \o JStr(1)
BddScenarioJson == JStr(1) \o JInt(3) \o JStr(1) \o JInt(1)
BddBackgroundJson == JInt(2)
BddExamplesJson == JStr(1) \o JInt(2) \o JStr(1) \o JInt(1)
BddFeatureJson == JStr(2) \o JInt(2) \o JStr(2) \o JInt(1)
BddStepPatternJson == JStr(2) \o JInt(1) \o JStr(1)
BddTestResultJson == JStr(1) \o JInt(1) \o JUint(1) \o JInt(1) \o JStr(1) \o JInt(1)
BddParseStateJson == JInt(5) \o JStr(1)
BddGenConfigJson == JStr(3) \o JInt(3)
BddgenJson == << BddStepJson, BddDataCellJson, BddScenarioJson, BddBackgroundJson,
                 BddExamplesJson, BddFeatureJson, BddStepPatternJson,
                 BddTestResultJson, BddParseStateJson, BddGenConfigJson >>

\* gen/generators/bddgen_sql.c.
BddStepSql == Table(Integer(1) \o Text(1) \o Integer(1) \o Text(1) \o Integer(4), NoId)
BddDataCellSql == Table(Integer(2) \o Text(1), NoId)
BddScenarioSql == Table(Text(1) \o Integer(3) \o Text(1) \o Integer(1), NoId)
BddBackgroundSql == Table(Integer(2), NoId)
BddExamplesSql == Table(Text(1) \o Integer(2) \o Text(1) \o Integer(1), NoId)
BddFeatureSql == Table(Text(2) \o Integer(2) \o Text(2) \o Integer(1), NoId)
BddStepPatternSql == Table(Text(2) \o Integer(1) \o Text(1), NoId)
BddTestResultSql == Table(Text(1) \o Integer(3) \o Text(1) \o Integer(1), NoId)
BddParseStateSql == Table(Integer(5) \o Text(1), NoId)
BddGenConfigSql == Table(Text(3) \o Integer(3), NoId)
BddgenSql == << BddStepSql, BddDataCellSql, BddScenarioSql, BddBackgroundSql,
                BddExamplesSql, BddFeatureSql, BddStepPatternSql, BddTestResultSql,
                BddParseStateSql, BddGenConfigSql >>

\* gen/generators/def_types.h, the structs in their order.
DefStructs ==
  << Char(1) \o U8(1) \o I64(1) \o F64(1) \o Char(3),
     Char(1) \o I64(1) \o I32(1) \o Char(2),
     Char(2) \o I32(1) \o Char(1) \o I32(2) \o Char(1),
     Char(1) \o I32(1) \o I64(1) \o Char(2),
     Char(2) \o I32(1) \o Char(1) \o I32(3) \o Char(1),
     Char(3) \o I64(2) \o I32(1) \o Char(1),
     Char(1) \o I32(4) \o Char(1),
     I32(6) \o Char(1),
     Char(3) \o I32(2) >>

\* gen/generators/def_types.c: _init and _validate.
DefChecks ==
  << Checks({<<3, 0>>, <<4, 0>>}, {1}, {}),
     Checks({<<2, 0>>, <<3, 1>>}, {1}, {}),
     Checks({<<5, 1>>, <<6, 1>>}, {1}, {<<3, 0, 256>>}),
     Checks({<<3, -1>>}, {1}, {<<2, 0, 63>>}),
     Checks({<<5, 1>>, <<6, 1>>, <<7, 1>>}, {1}, {<<3, 0, 64>>}),
     Checks({<<4, 0>>, <<5, 0>>, <<6, 0>>}, {1, 2}, {<<6, 0, 0>>}),
     Checks({<<3, 1>>, <<4, 1>>, <<5, 1>>}, {1}, {<<2, 0, 64>>}),
     Checks({<<5, 1>>, <<6, 0>>},
            {}, {<<1, 0, 1024>>, <<2, 0, 128>>, <<3, 0, 128>>, <<4, 0, 64>>}),
     Checks({<<4, 0>>, <<5, 0>>}, {1, 2}, {}) >>

\* gen/generators/def_json.c.
DefDefConstantJson == JStr(1) \o JUint(1) \o JInt(1) \o JReal(1) \o JStr(3)
DefDefEnumValueJson == JStr(1) \o JInt(2) \o JStr(2)
DefDefEnumJson == JStr(2) \o JInt(1) \o JStr(1) \o JInt(2) \o JStr(1)
DefDefFlagValueJson == JStr(1) \o JInt(2) \o JStr(2)
DefDefFlagsJson == JStr(2) \o JInt(1) \o JStr(1) \o JInt(3) \o JStr(1)
DefDefConfigFieldJson == JStr(3) \o JInt(3) \o JStr(1)
DefDefConfigJson == JStr(1) \o JInt(4) \o JStr(1)
DefDefParseStateJson == JInt(6) \o JStr(1)
DefDefGenConfigJson == JStr(3) \o JInt(2)
DefJson == << DefDefConstantJson, DefDefEnumValueJson, DefDefEnumJson,
              DefDefFlagValueJson, DefDefFlagsJson, DefDefConfigFieldJson,
              DefDefConfigJson, DefDefParseStateJson, DefDefGenConfigJson >>

\* gen/generators/def_sql.c.
DefDefConstantSql == Table(Text(1) \o Integer(2) \o Double(1) \o Text(3), NoId)
DefDefEnumValueSql == Table(Text(1) \o Integer(2) \o Text(2), NoId)
DefDefEnumSql == Table(Text(2) \o Integer(1) \o Text(1) \o Integer(2) \o Text(1), NoId)
DefDefFlagValueSql == Table(Text(1) \o Integer(2) \o Text(2), NoId)
DefDefFlagsSql == Table(Text(2) \o Integer(1) \o Text(1) \o Integer(3) \o Text(1), NoId)
DefDefConfigFieldSql == Table(Text(3) \o Integer(3) \o Text(1), NoId)
DefDefConfigSql == Table(Text(1) \o Integer(4) \o Text(1), NoId)
DefDefParseStateSql == Table(Integer(6) \o Text(1), NoId)
DefDefGenConfigSql == Table(Text(3) \o Integer(2), NoId)
DefSql == << DefDefConstantSql, DefDefEnumValueSql, DefDefEnumSql,
             DefDefFlagValueSql, DefDefFlagsSql, DefDefConfigFieldSql,
             DefDefConfigSql, DefDefParseStateSql, DefDefGenConfigSql >>

\* gen/generators/defgen_types.h, the structs in their order.
DefgenStructs ==
  << Char(1) \o U8(1) \o I64(1) \o F64(1) \o Char(3),
     Char(1) \o I64(1) \o I32(1) \o Char(2),
     Char(2) \o I32(1) \o Char(1) \o I32(2) \o Char(1),
     Char(1) \o I32(1) \o I64(1) \o Char(2),
     Char(2) \o I32(1) \o Char(1) \o I32(3) \o Char(1),
     Char(3) \o I64(2) \o I32(1) \o Char(1),
     Char(1) \o I32(4) \o Char(1),
     I32(6) \o Char(1),
     Char(3) \o I32(2) >>

\* gen/generators/defgen_types.c: _init and _validate.
DefgenChecks ==
  << Checks({<<3, 0>>, <<4, 0>>}, {1}, {<<2, 0, 3>>}),
     Checks({<<2, 0>>, <<3, 1>>}, {1}, {}),
     Checks({<<5, 1>>, <<6, 1>>}, {1}, {<<3, 0, 256>>}),
     Checks({<<3, -1>>}, {1}, {<<2, 0, 63>>}),
     Checks({<<5, 1>>, <<6, 1>>, <<7, 1>>}, {1}, {<<3, 0, 64>>}),
     Checks({<<4, 0>>, <<5, 0>>, <<6, 0>>}, {1, 2}, {<<6, 0, 0>>}),
     Checks({<<3, 1>>, <<4, 1>>, <<5, 1>>}, {1}, {<<2, 0, 64>>}),
     Checks({<<5, 1>>, <<6, 0>>},
            {}, {<<1, 0, 1024>>, <<2, 0, 128>>, <<3, 0, 128>>, <<4, 0, 64>>}),
     Checks({<<4, 0>>, <<5, 0>>}, {1, 2}, {}) >>

\* gen/generators/defgen_json.c.
DefgenDefConstantJson == JStr(1) \o JUint(1) \o JInt(1) \o JReal(1) \o JStr(3)
DefgenDefEnumValueJson == JStr(1) \o JInt(2) \o JStr(2)
DefgenDefEnumJson == JStr(2) \o JInt(1) \o JStr(1) \o JInt(2) \o JStr(1)
DefgenDefFlagValueJson == JStr(1) \o JInt(2) \o JStr(2)
DefgenDefFlagsJson == JStr(2) \o JInt(1) \o JStr(1) \o JInt(3) \o JStr(1)
DefgenDefConfigFieldJson == JStr(3) \o JInt(3) \o JStr(1)
DefgenDefConfigJson == JStr(1) \o JInt(4) \o JStr(1)
DefgenDefParseStateJson == JInt(6) \o JStr(1)
DefgenDefGenConfigJson == JStr(3) \o JInt(2)
DefgenJson == << DefgenDefConstantJson, DefgenDefEnumValueJson, DefgenDefEnumJson,
                 DefgenDefFlagValueJson, DefgenDefFlagsJson,
                 DefgenDefConfigFieldJson, DefgenDefConfigJson,
                 DefgenDefParseStateJson, DefgenDefGenConfigJson >>

\* gen/generators/defgen_sql.c.
DefgenDefConstantSql == Table(Text(1) \o Integer(2) \o Double(1) \o Text(3), NoId)
DefgenDefEnumValueSql == Table(Text(1) \o Integer(2) \o Text(2), NoId)
DefgenDefEnumSql == Table(Text(2) \o Integer(1) \o Text(1) \o Integer(2)
      \o Text(1), NoId)
DefgenDefFlagValueSql == Table(Text(1) \o Integer(2) \o Text(2), NoId)
DefgenDefFlagsSql == Table(Text(2) \o Integer(1) \o Text(1) \o Integer(3)
      \o Text(1), NoId)
DefgenDefConfigFieldSql == Table(Text(3) \o Integer(3) \o Text(1), NoId)
DefgenDefConfigSql == Table(Text(1) \o Integer(4) \o Text(1), NoId)
DefgenDefParseStateSql == Table(Integer(6) \o Text(1), NoId)
DefgenDefGenConfigSql == Table(Text(3) \o Integer(2), NoId)
DefgenSql == << DefgenDefConstantSql, DefgenDefEnumValueSql, DefgenDefEnumSql,
                DefgenDefFlagValueSql, DefgenDefFlagsSql, DefgenDefConfigFieldSql,
                DefgenDefConfigSql, DefgenDefParseStateSql,
                DefgenDefGenConfigSql >>

\* gen/generators/feature_types.h, the structs in their order.
FeatureStructs ==
  << I32(1) \o Char(1) \o I32(1) \o Char(1) \o I32(4),
     I32(3),
     I32(2) \o Char(1),
     Char(1) \o I32(3) \o Char(1) \o I32(1),
     I32(2),
     Char(1) \o I32(2) \o Char(1) \o I32(1),
     Char(2) \o I32(3),
     Char(2) \o I32(3) \o Char(2) \o I32(1),
     Char(2) \o I32(1) \o Char(1),
     Char(1) \o I32(2) \o I64(1) \o Char(1) \o I32(1),
     I32(5) \o Char(1),
     Char(3) \o I32(3) >>

\* gen/generators/feature_types.c: _init and _validate.
FeatureChecks ==
  << Checks({<<3, 0>>, <<5, 0>>, <<6, 0>>, <<7, 0>>}, {2}, {<<1, 0, 4>>}),
     Checks({<<3, 1>>}, {}, {<<1, 0, 256>>, <<2, 0, 32>>}),
     Checks({}, {}, {}),
     Checks({<<3, 0>>, <<4, 0>>}, {1}, {<<2, 0, 64>>}),
     Checks({}, {}, {<<1, 0, 16>>}),
     Checks({}, {}, {<<2, 0, 256>>, <<3, 0, 32>>}),
     Checks({<<4, 0>>}, {1}, {<<3, 0, 64>>}),
     Checks({<<5, 0>>}, {1}, {<<3, 0, 128>>, <<4, 0, 32>>}),
     Checks({}, {1}, {<<3, 0, 8>>}),
     Checks({}, {}, {<<3, 0, 4>>}),
     Checks({<<4, 1>>, <<5, 0>>}, {}, {<<1, 0, 128>>, <<2, 0, 1024>>, <<3, 0, 8192>>}),
     Checks({<<4, 1>>, <<5, 1>>, <<6, 0>>}, {1, 2}, {}) >>

\* gen/generators/feature_json.c.
FeatureStepJson == JInt(1) \o JStr(1) \o JInt(1) \o JStr(1) \o JInt(4)
FeatureDataTableJson == JInt(3)
FeatureDataCellJson == JInt(2) \o JStr(1)
FeatureScenarioJson == JStr(1) \o JInt(3) \o JStr(1) \o JInt(1)
FeatureBackgroundJson == JInt(2)
FeatureExamplesJson == JStr(1) \o JInt(2) \o JStr(1) \o JInt(1)
FeatureRuleJson == JStr(2) \o JInt(3)
FeatureDefJson == JStr(2) \o JInt(3) \o JStr(2) \o JInt(1)
FeatureStepPatternJson == JStr(2) \o JInt(1) \o JStr(1)
FeatureTestResultJson == JStr(1) \o JInt(3) \o JStr(1) \o JInt(1)
FeatureParseStateJson == JInt(5) \o JStr(1)
FeatureGenConfigJson == JStr(3) \o JInt(3)
FeatureJson == << FeatureStepJson, FeatureDataTableJson, FeatureDataCellJson,
                  FeatureScenarioJson, FeatureBackgroundJson, FeatureExamplesJson,
                  FeatureRuleJson, FeatureDefJson, FeatureStepPatternJson,
                  FeatureTestResultJson, FeatureParseStateJson,
                  FeatureGenConfigJson >>

\* gen/generators/feature_sql.c.
FeatureStepSql == Table(Integer(1) \o Text(1) \o Integer(1) \o Text(1)
      \o Integer(4), NoId)
FeatureDataTableSql == Table(Integer(3), NoId)
FeatureDataCellSql == Table(Integer(2) \o Text(1), NoId)
FeatureScenarioSql == Table(Text(1) \o Integer(3) \o Text(1) \o Integer(1), NoId)
FeatureBackgroundSql == Table(Integer(2), NoId)
FeatureExamplesSql == Table(Text(1) \o Integer(2) \o Text(1) \o Integer(1), NoId)
FeatureRuleSql == Table(Text(2) \o Integer(3), NoId)
FeatureDefSql == Table(Text(2) \o Integer(3) \o Text(2) \o Integer(1), NoId)
FeatureStepPatternSql == Table(Text(2) \o Integer(1) \o Text(1), NoId)
FeatureTestResultSql == Table(Text(1) \o Integer(3) \o Text(1) \o Integer(1), NoId)
FeatureParseStateSql == Table(Integer(5) \o Text(1), NoId)
FeatureGenConfigSql == Table(Text(3) \o Integer(3), NoId)
FeatureSql == << FeatureStepSql, FeatureDataTableSql, FeatureDataCellSql,
                 FeatureScenarioSql, FeatureBackgroundSql, FeatureExamplesSql,
                 FeatureRuleSql, FeatureDefSql, FeatureStepPatternSql,
                 FeatureTestResultSql, FeatureParseStateSql, FeatureGenConfigSql >>

\* gen/generators/grammar_types.h, the structs in their order.
GrammarStructs ==
  << Char(1) \o I32(2),
     I32(1) \o U8(1) \o I32(1) \o Char(1),
     Char(1) \o I32(1) \o Char(2) \o I32(1),
     Char(1) \o I32(1) \o Char(4) \o I32(1),
     Char(2) \o I32(1),
     Char(3) \o I32(4),
     I32(1) \o Char(1) \o I32(1),
     I32(5) \o Char(1),
     Char(4) \o I32(3) >>

\* gen/generators/grammar_types.c: _init and _validate.
GrammarChecks ==
  << Checks({<<2, 0>>, <<3, 1>>}, {1}, {}),
     Checks({}, {}, {<<1, 0, 255>>, <<2, 0, 2>>, <<3, 0, 16>>}),
     Checks({<<2, 0>>}, {1}, {}),
     Checks({}, {1}, {<<2, 0, 32>>}),
     Checks({}, {1}, {}),
     Checks({<<7, 0>>}, {1}, {<<4, 0, 256>>, <<5, 0, 1024>>, <<6, 0, 32>>}),
     Checks({}, {}, {<<1, 0, 2>>}),
     Checks({<<3, 0>>, <<4, 1>>, <<5, 0>>}, {}, {<<1, 0, 1024>>, <<2, 0, 512>>}),
     Checks({<<5, 1>>, <<6, 0>>, <<7, 0>>}, {1, 2}, {}) >>

\* gen/generators/grammar_json.c.
GrammarTokenJson == JStr(1) \o JInt(2)
GrammarPrecedenceJson == JInt(1) \o JUint(1) \o JInt(1) \o JStr(1)
GrammarSymbolJson == JStr(1) \o JInt(1) \o JStr(2) \o JInt(1)
GrammarRuleJson == JStr(1) \o JInt(1) \o JStr(4) \o JInt(1)
GrammarDirectiveJson == JStr(2) \o JInt(1)
GrammarDefJson == JStr(3) \o JInt(4)
GrammarIncludeJson == JInt(1) \o JStr(1) \o JInt(1)
GrammarParseStateJson == JInt(5) \o JStr(1)
LemonConfigJson == JStr(4) \o JInt(3)
GrammarJson == << GrammarTokenJson, GrammarPrecedenceJson, GrammarSymbolJson,
                  GrammarRuleJson, GrammarDirectiveJson, GrammarDefJson,
                  GrammarIncludeJson, GrammarParseStateJson, LemonConfigJson >>

\* gen/generators/grammar_sql.c.
GrammarTokenSql == Table(Text(1) \o Integer(2), NoId)
GrammarPrecedenceSql == Table(Integer(3) \o Text(1), NoId)
GrammarSymbolSql == Table(Text(1) \o Integer(1) \o Text(2) \o Integer(1), NoId)
GrammarRuleSql == Table(Text(1) \o Integer(1) \o Text(4) \o Integer(1), NoId)
GrammarDirectiveSql == Table(Text(2) \o Integer(1), NoId)
GrammarDefSql == Table(Text(3) \o Integer(4), NoId)
GrammarIncludeSql == Table(Integer(1) \o Text(1) \o Integer(1), NoId)
GrammarParseStateSql == Table(Integer(5) \o Text(1), NoId)
LemonConfigSql == Table(Text(4) \o Integer(3), NoId)
GrammarSql == << GrammarTokenSql, GrammarPrecedenceSql, GrammarSymbolSql,
                 GrammarRuleSql, GrammarDirectiveSql, GrammarDefSql,
                 GrammarIncludeSql, GrammarParseStateSql, LemonConfigSql >>

\* gen/generators/impl_types.h, the structs in their order.
ImplStructs ==
  << Char(2) \o I32(2),
     Char(1) \o I32(1) \o Char(1) \o I32(1),
     Char(1) \o I32(6),
     Char(1) \o I32(3) \o Char(1),
     I32(2),
     Char(1) \o I32(2),
     I32(1) \o Char(1) \o I32(2),
     Char(1) \o I64(2) \o I32(1),
     Char(2) \o I32(3),
     I32(2) \o Char(1),
     I32(1) \o Char(1) \o I32(2),
     I32(6) \o Char(1),
     Char(4) >>

\* gen/generators/impl_types.c: _init and _validate.
ImplChecks ==
  << Checks({<<3, 1>>, <<4, 0>>}, {1, 2}, {}),
     Checks({<<4, 0>>}, {1}, {<<2, 0, 16>>}),
     Checks({<<2, 0>>, <<3, 0>>, <<4, 0>>, <<5, 0>>, <<6, 0>>, <<7, 0>>}, {1}, {}),
     Checks({<<2, 0>>, <<3, 0>>, <<4, 0>>}, {1}, {}),
     Checks({}, {}, {<<1, 0, 256>>, <<2, 0, 128>>}),
     Checks({<<2, 1>>, <<3, 0>>}, {1}, {}),
     Checks({<<3, 1>>, <<4, 0>>}, {}, {<<1, 0, 8>>}),
     Checks({<<2, 65536>>, <<3, 0>>, <<4, 16>>}, {1}, {}),
     Checks({<<3, 64>>, <<4, 0>>, <<5, 0>>}, {1, 2}, {}),
     Checks({}, {}, {<<1, 0, 16>>, <<2, 0, 64>>}),
     Checks({<<1, 0>>, <<3, 1>>, <<4, 0>>}, {}, {}),
     Checks({<<5, 1>>, <<6, 0>>},
            {}, {<<1, 0, 64>>, <<2, 0, 256>>, <<3, 0, 8>>, <<4, 0, 32>>}),
     Checks({}, {1, 2}, {}) >>

\* gen/generators/impl_json.c.
ImplPlatformTargetJson == JStr(2) \o JInt(2)
ImplPlatformJson == JStr(1) \o JInt(1) \o JStr(1) \o JInt(1)
ImplOptimizeFuncJson == JStr(1) \o JInt(6)
ImplOptimizeTypeJson == JStr(1) \o JInt(3) \o JStr(1)
ImplOptimizeJson == JInt(2)
ImplSimdTargetJson == JStr(1) \o JInt(2)
ImplSimdJson == JInt(1) \o JStr(1) \o JInt(2)
ImplAllocArenaJson == JStr(1) \o JInt(3)
ImplAllocPoolJson == JStr(2) \o JInt(3)
ImplAllocJson == JInt(2) \o JStr(1)
ImplErrorJson == JInt(1) \o JStr(1) \o JInt(2)
ImplParseStateJson == JInt(6) \o JStr(1)
ImplGenConfigJson == JStr(4)
ImplJson == << ImplPlatformTargetJson, ImplPlatformJson, ImplOptimizeFuncJson,
               ImplOptimizeTypeJson, ImplOptimizeJson, ImplSimdTargetJson,
               ImplSimdJson, ImplAllocArenaJson, ImplAllocPoolJson, ImplAllocJson,
               ImplErrorJson, ImplParseStateJson, ImplGenConfigJson >>

\* gen/generators/impl_sql.c.
ImplPlatformTargetSql == Table(Text(2) \o Integer(2), NoId)
ImplPlatformSql == Table(Text(1) \o Integer(1) \o Text(1) \o Integer(1), NoId)
ImplOptimizeFuncSql == Table(Text(1) \o Integer(6), NoId)
ImplOptimizeTypeSql == Table(Text(1) \o Integer(3) \o Text(1), NoId)
ImplOptimizeSql == Table(Integer(2), NoId)
ImplSimdTargetSql == Table(Text(1) \o Integer(2), NoId)
ImplSimdSql == Table(Integer(1) \o Text(1) \o Integer(2), NoId)
ImplAllocArenaSql == Table(Text(1) \o Integer(3), NoId)
ImplAllocPoolSql == Table(Text(2) \o Integer(3), NoId)
ImplAllocSql == Table(Integer(2) \o Text(1), NoId)
ImplErrorSql == Table(Integer(1) \o Text(1) \o Integer(2), NoId)
ImplParseStateSql == Table(Integer(6) \o Text(1), NoId)
ImplGenConfigSql == Table(Text(4), NoId)
ImplSql == << ImplPlatformTargetSql, ImplPlatformSql, ImplOptimizeFuncSql,
              ImplOptimizeTypeSql, ImplOptimizeSql, ImplSimdTargetSql, ImplSimdSql,
              ImplAllocArenaSql, ImplAllocPoolSql, ImplAllocSql, ImplErrorSql,
              ImplParseStateSql, ImplGenConfigSql >>

\* gen/generators/schemagen_types.h, the structs in their order.
SchemagenStructs ==
  << Char(1) \o U8(1) \o Char(1) \o I32(3) \o I64(2) \o I32(1) \o I64(1) \o I32(1),
     Char(1) \o I32(2),
     I32(3) \o Char(1),
     Char(3) \o I32(2) >>

\* gen/generators/schemagen_types.c: _init and _validate.
SchemagenChecks ==
  << Checks({<<4, 0>>, <<5, 0>>, <<6, 0>>, <<7, 0>>, <<8, 0>>, <<9, 0>>, <<10, 0>>,
             <<11, 0>>},
            {1}, {<<6, 0, 0>>}),
     Checks({<<3, 0>>}, {1}, {<<2, 0, 64>>}),
     Checks({<<2, 1>>, <<3, 0>>}, {}, {<<1, 0, 256>>}),
     Checks({<<4, 1>>, <<5, 1>>}, {1, 2}, {}) >>

\* gen/generators/schemagen_json.c.
SchemaFieldJson == JStr(1) \o JUint(1) \o JStr(1) \o JInt(8)
SchemaTypeDefJson == JStr(1) \o JInt(2)
SchemaParseStateJson == JInt(3) \o JStr(1)
SchemaGenConfigJson == JStr(3) \o JInt(2)
SchemagenJson == << SchemaFieldJson, SchemaTypeDefJson, SchemaParseStateJson,
                    SchemaGenConfigJson >>

\* gen/generators/schemagen_sql.c.
SchemaFieldSql == Table(Text(1) \o Integer(1) \o Text(1) \o Integer(8), NoId)
SchemaTypeDefSql == Table(Text(1) \o Integer(2), NoId)
SchemaParseStateSql == Table(Integer(3) \o Text(1), NoId)
SchemaGenConfigSql == Table(Text(3) \o Integer(2), NoId)
SchemagenSql == << SchemaFieldSql, SchemaTypeDefSql, SchemaParseStateSql,
                   SchemaGenConfigSql >>
=============================================================================
