# cosmo-bde in TLA+

cosmo-bde generates C code from specifications: files under `specs/` (`.schema`,
`.def`, `.sm`, `.hsm`, `.feature`, `.api`, ...) go through small generators
(`tools/*`) into `gen/`, which is committed, and a drift gate compares what is
committed with what the generators make of the specifications. This directory
holds TLA+ models of the parts of it that keep state, TLC runs over small
instances of them, and theorems checked by TLAPS.

Its parts, and what of them is modelled:

* the **state machines** that `hsmgen` and `smgen` write, which run in the
  application with its callbacks, and the tables the generators build for them;
* the **regeneration scripts**, which run beside the developer over one checkout:
  `regen-all.sh`, its `--verify` gate, the watcher of `feedback-loop.sh`, and the
  drift gate of the function manifests;
* the other **generators**: what each parser makes of a file its author wrote, and
  what the code it writes then does;
* the **committed types** of `gen/`, all 140 of them, taken through validation,
  JSON and SQL;
* the **download** of the compiler, with calls that overlap, fail and are killed.

## 1. The system

| Part | State it keeps | Operations | Talks to | What makes it correct |
|---|---|---|---|---|
| hsmgen, parser | the global `machine`: states, transitions, events; the stack of open blocks | one per kind of line, then a resolving pass | the generators of `.h` and `.c` | the tables say what the file says: parents, paths, owners of attributes, sources and targets of transitions; limits are respected |
| hsmgen, generated code | `current_state`, `history[]`, and the C stack of calls in progress | `init`, `dispatch`, `is_in` | guards and callbacks of the application, which may call back | one event is at most one transition, of the innermost state that takes it; history stays inside its composite; the climb ends and stays in the table |
| smgen, generated code | `current_state`, the C stack | `init`, `dispatch` | the same | the same for one level; entry and exit callbacks pair up |
| smgen, parser | states, transitions, events; the open state | one per kind of line | generators | as hsmgen; a transition belongs to the block it stands in |
| msmgen | the modes; in the generated code `current`, `previous` | lines; `init`, `dispatch` | callbacks | `previous` is the last other mode, a change of mode is one of the file's |
| bddgen | features, scenarios and their ranges, one table of steps, the last keyword | Gherkin lines; `run_all` | step functions | a scenario is its own steps; a failing step fails its scenario and no other |
| apigen | endpoints, types, the open block | lines; enum, strings and routes; `dispatch`, `error_str` | handlers | each block's lines go to it; error codes and strings agree; a request reaches its endpoint |
| schemagen | types and fields | lines; printers of C, JSON, SQL, protobuf, FlatBuffers | yyjson, SQLite | checks belong to their field; objects come back from JSON and SQL, also those of another version |
| clipsgen | rules, the open rule and part | lines; `evaluate_all` | the context | a rule that fires does what is written |
| uigen | flat arrays of windows, panels, widgets | lines; `ui_render` | the GUI library | a window draws its own widgets, in order |
| lexgen | table of tokens; in the generated lexer the position, line and column | lines; `lexer_next` | parsers | tokens tile the text and carry their own place |
| sqlgen | tables, indexes, queries, two open-block flags | lines; printers | SQLite | a line goes to its block |
| implgen | platform blocks, SIMD targets, two open-block flags | lines; macros | the build | a build calls an implementation that is listed for its host |
| defgen | which markers a `.def` has | prints X-macro templates that include it | the C preprocessor | - |
| siggen | the name of the last module | one prototype per line | - | every line is printed once |
| `regen-all.sh` | `gen/` | every generator over every spec, `--verify` | git's index, `specs/` | `--verify` succeeds just when `gen/` is what the generators make |
| `verify.sh`, `bde-workflow.sh` | - | the same comparison, a menu | git | the same |
| `drift-gate.sh`, `manifest-gen.py` | manifests | regenerate, compare hashes, look for untracked files | git | the same for manifests |
| `feedback-loop.sh` | `HASH`, `LAST_HASH` | poll, regenerate, build, sleep | `regen-all.sh`, `make` | every edit of a watched spec is regenerated |
| `download-cosmocc.sh`, `cosmo-src.sh` | a toolchain directory and the link `current` | download, check, rename, link | network | `current` names a complete toolchain |
| `template-init.sh`, `new-spec.sh` | - | copy and substitute once | - | - |
| `src/main.c`, `src/platform/` | - | a sample program, wrappers of system calls | generated code | - |
| livereload, e9studio | in a submodule that is not in the tree | attach | a running process | - |

What is hard to test here is listed line by line under `hazards` in
`PROJECT.json`. In short: callbacks that call `dispatch` while it is running;
events that no state handles; long sequences of events before history is used;
the order of declarations in a file; tables and stacks at their limits;
interrupts between the two outputs of a generator; edits, staging and
regeneration in any order; a hash that is taken at another time than the
regeneration it causes.

## 2. Modules

    HsmTable        parse_spec of hsmgen, one operator per kind of line
      HsmParser     the parser reading any file, a line at a time
        HsmParserProofs theorems about HsmParser
      HsmExamples   .hsm files, among them specs/behavior/trafficlight.hsm, as tables
    HsmHierarchy    the tables as the generated code sees them; the tree below a state;
                    what a file has to see to (RootsTakeAll, HistoryIsKept,
                    HistoryFromOutside)
      HsmMachine    ABSTRACT: a dispatch as one step
      HsmRuntime    the generated code, step by step     (implements HsmMachine)
        HsmObserved the same with an observer of what was last left
      HsmProofs     lemmas about the tree, theorems about HsmRuntime and HsmObserved
    FsmRuntime      smgen's generated code, step by step (implements HsmMachine)
      FsmProofs     theorems about FsmRuntime
    Regen           regen-all.sh, --verify, git's index and the developer
      SpecWatcher   the watcher composed with Regen   (implements Regen)
        RegenProofs theorems about Regen and SpecWatcher
    TwoRuns         runs of regen-all.sh that overlap, a stdio buffer at a time
    ManifestGate    drift-gate.sh with manifest-gen.py, git's index and the developer
    Toolchain       download-cosmocc.sh, called by any number of makes
    SmParser        smgen's parser
    SchemaParser    schemagen: the parser and the checks it writes
    Modes           msmgen: the parser and dispatch
    Rules           clipsgen: the parser and evaluate_all
    SqlSpecs        sqlgen: the parser
    Platforms       implgen: the parser and the macros under each compiler and host
    UiPanels        uigen: the parser and what ui_render draws
      GeneratorProofs      theorems about these seven
    Bdd             bddgen: the parser and the runner
    SchemaVersions  schemagen: rows and JSON between versions of one schema
    Lexer           lexgen: the generated lexer
    ApiTables       apigen: the parser, the tables of errors as they are written, dispatch
      GeneratedCodeProofs  theorems about these four
    DataLemmas      lemmas about sequences, sets of numbers and induction over them
    GenKinds        what a committed type is made of
      DomainTables, GeneratorTables, Ring2Tables   the types of gen/domain, ...
        GenTables   all 140 of them
          GeneratedTypes  an object of any of them, written, checked, sent and stored
    MC*             instances for TLC; MCTools composes seventeen of these
      ToolProofs    theorems about TwoRuns, ManifestGate, Toolchain and GeneratedTypes,
                    and about MCTools: the seventeen together

**HsmTable, HsmParser** (`tools/hsmgen/hsmgen.c:129-413`). A table is a record with
the fields of `machine_t`; `AddState`, `CloseBlock`, `SetInitial`, `SetEntry`,
`SetExit`, `MarkHistory` and `AddTransition` are the branches of `parse_spec`, and
`ResolveTransitions` its last loop. A dotted path is a sequence of names. States
are numbered from 1, so 0 stands for the code's -1. `HsmParser` feeds the operators
every file of a bounded length, and keeps beside the table what the author wrote
(`blocks`, `written`, `arrows`, `marks`, counted without limits) so that the
invariants can compare the two. `StateOnLine` is the form the usage text shows
(`hsmgen.c:803-806`), a state with its braces and a transition on one line: the author has
then written that transition and closed that block, and the parser has done neither. A
history target is what `strstr(target, ".history")` finds, so `A.historyX` is one too
(`HistoryNames`).

**HsmHierarchy, HsmRuntime** (`hsmgen.c:553-749`). The constants are the tables: the
parent of each state and the set of cases of `dispatch`. `HierarchyAssumption` says
what `ParentsClimb` proves of the parser (a parent has a smaller number) and what
compiling the output takes (one case per state and event). `frame[1..depth]` are the
local variables of the calls of `dispatch` in progress, each with a `pc`:

| `pc` | where the call is | actions |
|---|---|---|
| `check` | in `while (check >= 0)` | `TakeCase`, `Ascend`, `PassRoot` |
| `guard` | in the guard of the case | `GuardAllows`, `GuardRefuses` (a C `break`: on to the parent) |
| `exit` | in the exit callback | `SaveHistory` |
| `action` | in the action | `Move` |
| `entry` | in the entry callback | `Finish` |

A call inside a callback may be interrupted by another `Dispatch`, from the kinds of
callback in `Reentrant`. `EnumUnsigned` says what the compiler makes of the generated
enum, which has no negative constant; gcc and clang make it unsigned. Then
`check >= 0` always holds and `PassRoot` is a read far outside `state_info[]`, which
clears `alive`; otherwise it is `return false`. `IsIn` is `<prefix>_is_in`.

**HsmMachine** is what a caller may rely on. `MayTake(c)` says which case is carried
out: one of an active state, all nearer cases of the same event having guards.
`Take(c)` leaves for its target and keeps history. `HsmRuntime` implements it with

    current <- IF the innermost call is in its action THEN Destination(Chosen) ELSE current
    history <- history

so that the step takes effect when history is saved.

**FsmRuntime** (`tools/smgen/smgen.c:432-503`) is built the same way; `entered` is a
history variable, the states the application was told to enter and not to exit. It
implements `HsmMachine` over a hierarchy without children.

**Regen** (`scripts/regen-all.sh`). A specification's content is a version number, an
output's content is the version it was generated from; `Torn` is a file that was
opened for writing and not closed, `Foreign` one that was edited by hand. `Generate`
starts the generator of the next specification, `WriteOutput` closes one of its outputs
and opens the next, `Finish` is the comparison at the end. The developer edits,
stages, edits `gen/`, runs `make distclean` and interrupts. `read` and `before`
remember, for the properties only, what was parsed in this run and what it found.

**SpecWatcher** (`scripts/feedback-loop.sh:80-110`). `HashFile` reads one file of the
`find`, so edits fall between files; `Same` and `Changed` are the comparison; the
watcher waits for the script, builds and sleeps. `pending` remembers which edits it
owes a regeneration.

**TwoRuns** looks closer at the same script. In `Regen` one run is at work and an output
is written in one step; here any number of runs (`Scripts`) have one generator each at
work on one specification, and an output is what is in it, buffer by buffer. `OpenOutput`
is `fopen(path, "w")`, which empties the file for everybody; `Flush` and `CloseOutput` write
a buffer at the run's own position, `DiffOutput` is what `git diff` reads of one output.
`opened` remembers, for the properties only, who opened an output last and with whom.

**ManifestGate** (`.github/ci-kit/drift-gate.sh`, `manifest-gen.py`). A manifest is the
version of the directory it was made from and `Missing` where there is none, so that a
directory that loses its last declaration is a case like any other. `HashBefore`,
`Scan`, `WriteManifest`, `WriteRoot`, `HashAfter`, `GitDiff` and `GitUntracked` are the
gate in its order, `GateDies` its failures; `EditSource` and `StageManifest` are the
developer, at any point between them.

**Toolchain** (`scripts/download-cosmocc.sh`). `step[c]` is the line call `c` is at. Every
command has the outcomes the script can see (`FirstMirrorFails`, `CheckFails`,
`UnzipFails`, `CommitFails`, ...) and a call may be killed before each. `Commit` is the
`mv`: a rename where there is no directory, a move into it where another call was
faster.

**The generators.** The parsers of this repository have one shape: a loop over lines, a
few pointers or flags that say which block is open, and arrays with a limit. Their
modules have one shape too:

* an action for each kind of line, which does to the arrays and flags what the branch
  for it does, limits included (`MAX_*` are constants). Where the code does not look at
  the limit, the write past the array sets the phase to `wild` and the behaviour ends:
  after that C promises nothing;
* beside the parser's state the file as its author means it: the text so far, each line
  with the block it is written in (`apiText`, `uiText`, `sqlText`, `implText`,
  `smWritten`, `meantModes`, `meant`, `schemaWritten`, and `uiWidgets`, the widgets of all
  panels in the order of the file). A block opened and closed on one line has an action or
  a parameter of its own (`StateOnLine`, `ModeOneLine`, `TypeOnLine`, `oneLine`), because
  every parser here stops reading the line at its first brace and leaves the block open.
  Where the usage text has that form (hsmgen, msmgen, apigen, uigen) what its author meant by
  it is kept: the transitions in it count as written, a field has an entry, and the block is
  in `uiOnLine`. Of smgen, schemagen, sqlgen and implgen no such form is documented; there the
  line is one that the parser accepts, and what may stand in its braces is left out;
* the tables the generator prints, as operators on the parser's state, or as steps where
  one table goes by what was written before (`WriteError` in ApiTables writes what both
  files get of one error); and where the generated code keeps state, its steps after the
  last line: `evaluate_all` in Rules, `run_all` in Bdd, `dispatch` in Modes and ApiTables,
  `lexer_next` in Lexer.

What each is about, in the code's terms:

| Module | Code | The point |
|---|---|---|
| `Lexer` | `lexgen.c:289-379` | literals are tried in the order of the file, with a test for the end of a word; a token carries its own place |
| `Rules` | `clipsgen.c:54-195` | any brace ends the rule; rules see the facts as the rules before left them |
| `Bdd` | `bddgen.c:150-330`, `:470-560` | scenarios are ranges of one flat table of steps; the printed ranges are counted anew, without the Background |
| `ApiTables` | `apigen.c:160-360`, `:465-630` | the enum of errors has no repetitions, the table of strings has; an open type takes any line with a colon |
| `UiPanels` | `uigen.c:170-300`, `:430-520` | panels and windows are ranges of flat arrays; three pointers say what is open |
| `Modes` | `msmgen.c:90-170`, `:250-290` | one statement is read of a line; events are multi-character constants; `previous` |
| `SqlSpecs` | `sqlgen.c:130-300` | two flags, so that a line may go to two blocks; a query has a limit in characters (`LineLengths`) |
| `Platforms` | `implgen.c:90-290` | which macro of which `#if` a compiler and host arrive at |
| `SmParser` | `smgen.c:90-300`, `:455-475` | transitions carry the name of their state, not its index |
| `SchemaParser` | `schemagen.c:207-340` and the printers | keywords are searched for in the whole line |
| `SchemaVersions` | `schemagen.c:440-640` | rows are written by name and read by position, JSON goes by name |

The exact lines of every definition are in the `map` of `PROJECT.json`.

**GeneratedTypes** (`gen/domain`, `gen/generators`, `gen/ring2`). The tables hold, per
type, the C types of its fields, the defaults of `_init`, the ranges and required texts of
`_validate`, the yyjson call of each member and the SQLite call of each column, as they
are in the committed files. Over them stands one program: it writes a field (`Edit`), and
calls `_validate`, `to_json`, `from_json`, `insert` and `select_by_id`, with their failures.
A number is `<<wraps, low>>` for wraps * 2^32 + low, so the conversions yyjson makes are
computed, and TLC's integers are wide enough.

## 3. Runs

| Run | Module | Kind | Question |
|---|---|---|---|
| `HsmPlayer` | MCHsmRuntime | pass | does dispatch implement HsmMachine, stay in the table and return, with re-entry and an unsigned enum? |
| `HsmSession` | MCHsmRuntime | pass | is dispatch one step also three levels deep, with guards on the way, unhandled events and empty history, under a signed enum? |
| `SpecWatcher` | MCSpecWatcher | pass | is the gate exact, and is every edit regenerated? |
| `HsmTimerTurnsGreen` | MCHsmRuntime | violation | does the committed traffic light turn green? |
| `HsmUnhandledEvent` | MCHsmRuntime | violation | does an event without a case return false? |
| `HsmShallowHistory` | MCHsmObserved | violation | is history the child that was last active? |
| `SpecWatcherUndo` | MCSpecWatcher | violation | does an edit that is undone get regenerated? |
| `SpecWatcherUntracked` | MCSpecWatcher | violation | does the gate see outputs that were never committed? |
| `Tools` | MCTools | pass | the generators, the flat machine, the download, the manifest gate, overlapping regenerations and the committed types: is what is written what is read, done and kept? |
| `RulesBraces` | MCRules | violation | does a rule that fires act? |
| `HsmOneLine` | MCHsmParser | violation | is a state's parent the block it is written in, also after a state on one line? |
| `BddBackground` | Bdd | violation | does a scenario run its own steps, also after a Background? |

Bounds.

* `HsmPlayer`, `HsmSession`: 5 and 5 states, up to three levels, every case of guards
  and callbacks, two calls in progress. A third call adds nothing that the second
  has not: all calls but the innermost are in their entry callbacks (the lemma
  behind the theorems holds for any number).
* `SpecWatcher`: one watched specification with two outputs and one unwatched, three
  versions, one of them refused by the parser, two changes by the developer. Two are
  enough for an edit and an interrupt, edit or staging in between. In
  `SpecWatcherUndo` edits may return to an old version and there are three.
* `Tools` is seventeen small systems in one run. They share no state, so a behaviour is one
  of them at work (`tool`) while the variables of the others stand still: the states add
  up and do not multiply (a million in all), and the run is equal to seventeen runs.
  Files have 6 to 9 lines, enough to fill and overflow every array and to have two
  blocks of a kind with a line after each; every array has room for 1 to 3 entries.
  `HsmParser`: two names, 3 states, 2 transitions, 2 events and a depth of 2, so that the
  limits of states, transitions and depth are met and exceeded; of the lines `entry:` and
  `exit:`, which are read in the same way (`:357`, `:369`), the first, while the theorem is
  about both; a bare name with a child, a
  sibling and a root of that name, a history target, one that only looks like it, a line
  without an arrow, and a state on one line all occur. `FsmRuntime`: a door of 4 states and 4
  events, 3 calls in progress. `SqlSpecs`: lines of 1 and 3 characters and a query of at most
  6, so that a long line does not fit and a short one after it does.
  `Lexer`: all texts of 3 characters over a letter, a digit, a sign, a blank and a
  newline, and five longer ones. `Toolchain`: 2 calls, 2 releases; the theorems cover any
  number. `TwoRuns`: 2 runs at a time and 3 in all, 2 outputs, and two versions of which the
  second has fewer buffers, so that a short output is written over a long one and the
  other way round. `ManifestGate`: 2 directories with and without declarations. `SchemaVersions`:
  three versions, a field added at the end and then one in the middle, 4 calls.
  `GeneratedTypes`: every committed type, one edited field at the edges of its C type
  and its range, 3 calls, as many as a write, a failed write and a read need.
* `RulesBraces`: one rule, 7 lines: a rule with both blocks braced and a statement in each.
* `HsmOneLine`: 4 lines, of which the counterexample needs two states. `BddBackground`: one
  feature, one scenario, 6 lines.

`Undo = FALSE` in the passing run says that no edit restores a content the file had
before. The code needs it: `SpecWatcherUndo` is what happens otherwise.

Fairness. `HsmRuntime!FairSpec` has weak fairness of the generated code's own steps:
callbacks return and the processor runs; nothing makes the application dispatch.
`SpecWatcher!WSpec` has weak fairness of the watcher's loop and of a running script;
nobody has to edit, stage or start anything. No other module states fairness: a parser
reads as much of a file as there is, a call of the download may be killed, and a
developer need not run the gate.

`CHECK_DEADLOCK FALSE` stands where the system may stop: after the last line of a
file, after a wild read or write, when every call of the download has ended, when the
bound on the developer's changes or the application's calls is used up.

## 4. What does not hold

Each has a run whose property is what the code or its documentation says.

* **Forward targets** (`hsmgen.c:213`). A bare target is qualified only if the state it
  names is already in the table. In `specs/behavior/trafficlight.hsm` `on Timer -> Green`
  stands before `state Green`, so Timer in Red returns true and the light stays red.
  Dotted targets are looked up after the last line and resolve (`TargetsResolve`).
* **Unhandled events** (`hsmgen.c:661`). `while (check >= 0)` over an unsigned enum does
  not end at the root. The theorem `ReadsStayInTable` says when it does not matter.
* **History** (`hsmgen.c:702`). It is saved for the parent of the state that owns the
  case, not for the composite that is left. The theorem `HistoryIsShallow` says which files
  this does not hurt.
* **An edit undone between two polls** (`feedback-loop.sh:99`) leaves stale outputs.
* **Untracked outputs** (`regen-all.sh:300`) pass `--verify`. There is no other way to be told
  ok of a clean checkout that does not match (`VerifiedWhereCommitted`).
* **Braced rules** (`clipsgen.c:82`). The brace that ends `when { ... }` ends the rule, and
  the statements of `then` are skipped. All three rules of `specs/domain/pricing.rules` are
  written so, and the committed `gen/domain/pricing_rules.c` has no action in any of them.
  Rules without such braces act when they fire (`BareFilesAct`).
* **States on one line** (`hsmgen.c:314`). `state Child1 { on Event -> Child2 }`, as the usage
  text writes it, adds Child1, loses the transition and leaves Child1 open: Child2 after it
  becomes its child, and an `initial:` or `entry:` line its own. Of files without such states the
  parents are those written (`ParentsAreEnclosing`).
* **Backgrounds** (`bddgen.c:477`). The printed ranges of the scenarios leave the Background's
  steps out and the printed table of steps does not: a scenario runs as many steps early as the
  Background before it has, and its last steps run in the next scenario or not at all
  (`gen/testing/e9livereload_bdd.c`). A scenario that no such step comes before runs its own
  (`RunnerRunsTheRanges`).

Other differences between what is written and what happens, stated by the passing
properties as they are or seen while modelling:

* `hsmgen`: the usage text promises "Proper entry/exit action ordering", but only the
  owner of the case is exited and only the target entered; the initial child of a
  composite is parsed and never used; `strstr` takes any name that begins with `history` after
  a dot for history (`:230`); transitions past the 256th (`:148-151`, `:388`) and events past the 64th are
  dropped and `hsmgen` succeeds; the fallback of an empty history (`:722`) cannot be
  reached with an unsigned enum.
* `smgen`: two transitions of a state for one event, with different guards, become one
  case twice, which does not compile.
* `msmgen`: the form its own usage comment shows (`msmgen.c:10-15`) does not work: of
  `mode Normal { on 'i' -> Insert; on ':' -> Command }` the parser keeps the name, loses both
  transitions and leaves the mode open, and of two transitions on a line of their own it keeps
  the first (`crowded`; `ModesAreAsWritten` promises such a mode only that what it has is
  its own). Events are quoted as they are, so that `'i'` becomes `''i''`, which does not compile,
  and in `'ENTER'` names that end in the same four letters are one event; entry and exit are
  parsed and never emitted; no array is guarded (`Modes`, phase `wild`).
* `bddgen`: a scenario that begins with And takes the keyword of the scenario before.
* `apigen`: the table of strings has every error an endpoint names and the enum each once, so
  after a repeated or built-in error the strings are off, by one for each repetition; the
  property promises an error its own string only if none was repeated before
  (`StringsFollowTheEnum`). `/users/{id}` matches only itself; a type on one line, as in the usage
  text (`apigen.c:687`), has none of the fields in its braces, stays open and takes
  lines with a colon after it, `transport: [http]` for instance, for fields; a field called
  `version` is taken for the API's.
* `schemagen`: a field whose name ends in `range` or `not_empty` is found by the search for
  the keyword (`def.schema:84`, `defgen.schema:72`, `schemagen.schema:14`, `:19`, which get a
  range 0..0); a bracket in a comment makes a struct or a size; an array of numbers is
  single in C and `repeated` in the `.proto` and `.fbs`; rows are read by position and
  written by name; the table has no key; `yyjson_get_int` keeps 32 bits of an i64
  (`vendors/libs/yyjson.h:5366`); an output that cannot be opened is skipped with exit
  status 0; protobuf numbers are positions.
* The committed types: `select_by_id` can succeed for 4 types of 140, those with a column
  `id` (E9PendingPatch, Example, PatchInfo, PatchOp); a new object is refused by its own
  `_validate` for the 6 fields whose range lacks 0 and which have no default (EezFont `size`
  and `bpp`, EezBitmap `bpp`, EezProjectConfig `page_count`, ProtoField `field_number`,
  SmithMachine `state_count`); nine `Def*` types are defined by both `def` and `defgen`.
* `uigen`: of a block on one line, as the usage text has them (`uigen.c:542-546`), the title,
  layout or label is lost and the block stays open; panels and widgets in it still are drawn
  as written, but a loose widget is drawn in the panel that was left open, and attributes and
  braces after it go to it (`LooseWidgetsAreNotDrawn`, `UiAttributesStayInTheirBlock`); sliders and checkboxes
  without `bind` use a member of the state that is not declared; `memset` is used without `string.h`.
* `sqlgen`: the generated `.c` leaves out UNIQUE, DEFAULT, REFERENCES and the indexes that
  the `.sql` has; a line that does not fit into `MAX_SQL` is passed over in silence and a
  shorter one after it kept, so that a query may lack a line in its middle (`:283`); a table on
  one line stays open, takes the lines of a query and cuts them at their colons
  (`OnlyStraysCutTheSql`).
* `implgen`: a `cosmo` target is shadowed by Linux and Windows, `fallback` is parsed and
  never used.
* `lexgen`: `SCENARIO`, declared first, hides `SCENARIO_OUTLINE` in `feature.lex`; `@skip` is
  ignored, so identifiers and numbers of a pattern come out as ERROR.
* `siggen` never sees `[pure]` and `[extern]` (`siggen.c:105`, `:139`).
* Two runs of `regen-all.sh` over one `gen/` (`:98`), the watcher's and one by hand: `--verify`
  may fail although nothing has changed, when it reads an output that the other run has
  open (`DriftNeedsAnOpenOutput`); runs that read different versions of a specification may
  leave a mixture of both in one output, which stays until the next run. Runs of one
  version do no harm to each other (`LastToOpenWins`).
* `regen-all.sh` documents exit status 1 and never returns it, and runs none of the
  generators for `.lex`, `.ui`, `.impl`, `.sql`, `.msm`, `.sig` and `.rules`; `verify.sh`
  documents 2, but `set -e` ends it with the status of `regen-all.sh`.

## 5. Theorems

Each holds for all values of the constants that satisfy the named assumption of its
module: every table and every bound on calls in progress; every file, also with the
limits of the code (128 states, 8 open blocks); every set of specifications, outputs,
commits and edits.

`HsmProofs`:

| Theorem | Says | Assumes of the application |
|---|---|---|
| `TypeSafe` | `[]TypeOK` | nothing |
| `SourceStaysActive` | `[]SourceIsActive` | only entry callbacks dispatch again |
| `HistoryStaysInside` | `[]HistoryInside` | the same |
| `HsmImplementsMachine` | `DispatchIsOneStep` | the same, and that history was saved before it is used or the enum is signed |
| `CallsEnd` | `CallsRunOut`: each step of the innermost call ends it, ends the process or leaves it fewer | nothing |
| `HistoryIsSavedFirst` | `[]HistoryWasSaved` | only entry callbacks dispatch again, and `HistoryIsKept` of the file |
| `KeptImplementsMachine` | `DispatchIsOneStep` | the same |
| `HistoryIsShallow` | `ShallowHistory` of `HsmObserved` | the same, and `HistoryFromOutside` of the file |
| `KeptReadsStayInTable` | `[]NoWildRead` | only entry callbacks dispatch again, `HistoryIsKept`, roots take every event unguarded, `is_in` is not called |
| `ReadsStayInTable` | `[]NoWildRead` | roots take every event unguarded, history was saved before it is used, `is_in` is not called; any callback may dispatch |

None of these invariants is inductive. `TypeInv` adds that a call in a callback has a
case (`CallsHaveCases`), without which `Chosen` means nothing. `WalkInv` is the heart:
every interrupted call is in its entry callback (`OthersInEntry`), the innermost one
is at the current state or above it (`TopActive`), and the cases it has passed on the
way up have guards (`SkippedGuarded`). The step that climbs (`WalkClimb`) needs that
two states above the same one are above each other (`BelowChain`) and that numbers
grow downwards (`BelowGrows`); both come from one induction principle, that `Below[p]`
is the least set with `p` that is closed under children, so that no recursion over
the tree is needed. The refinement then has one interesting step, `SaveTakes`.
`ReadsStayInTable` needs that a guard is only asked where there is one
(`GuardsAreAsked`), so a root is never left for its parent.

`HistoryWasSaved`, which two of them assume, is a duty of the `.hsm` file. `HistoryIsKept`
(`HsmHierarchy`) says which files meet it: a state with a case to the history of a composite
is reached, from outside it, by cases of that composite's children only, since `dispatch`
saves history for the parent of the case's owner (`hsmgen.c:702`). The inductive invariant
`HistoriesHeld` says that a machine in or below such a state has that history, and that a
case about to move the machine has saved its owner's parent's. TLC evaluates `HistoryIsKept`,
`HistoryFromOutside` and `RootsTakeAll` of the machine of `HsmPlayer` (`PlayerIsKept`). `trafficlight.hsm` is not
kept: `Operating` itself owns the case that leads to Error, and this is the finding on history
of section 4.

`HistoryIsShallow` is about the property that `HsmShallowHistory` refutes: where `HistoryIsKept`
holds and a composite's history is asked for from outside it (`HistoryFromOutside`), what is
restored is the child that was left last. The invariant `SavedIsLastLeft` ties the code's array
to the observer's: a case about to move has saved the current state for its owner's parent,
and in a state with a case to a history, what is saved for that composite is where the
machine was when it last left it (`LastLeftStep`).

`CallsEnd` is the part of `InnermostCallReturns` that is safety: 5 steps for each level of
the climb bound what a call has left (`StepsLeft`), because a parent has a smaller number.
What is left to fairness is that the steps are taken.

`FsmProofs`: `TypeSafe` (`[]FsmTypeOK`); `EntryExitPaired`, `CasesAreCurrent` and
`FsmImplementsMachine` if only entry callbacks dispatch again. The inductive invariant
`PairInv` says that interrupted calls are in their entry callbacks and the innermost
one before its move is in the current state.

The restriction to entry callbacks is needed: `dispatch` writes `current_state` after
the exit callback and the action, from a case chosen before them, so a call from
one of those is overwritten.

`HsmParserProofs`: `ParentsAlwaysClimb` (`[]ParentsClimb`) and `ParentsAreEnclosing`
(`[]ParentIsEnclosingBlock`), from `LimitsAssumption` and `ParserAssumption`. The heart
is `Linked`: the k-th open block is a state of depth k - 1, so that a state put below
the top of the stack is one deeper than its parent. `AddLinked` shows that `AddState`
keeps it also when the stack is full and the push is left out, which is why the
climb ends even for files nested too deep. `ParserInv` adds that `deepest` bounds the
open blocks, without which the stack would not be known to have been pushed, and that
a parser that has refused a state reads no further. `ParentsAreEnclosing`, and with it
`SourcesAreKept`, `TargetsLead` and `AttributesAreKept`, is about files in which no state is
on one line (`OwnLines`); of the others `HsmOneLine` shows that it does not hold. The last two
ask besides that names which begin with `history` stand where the usage text has that word only
(`PlainNames`). `ParentsAlwaysClimb`, `PathsNameParents` and `FilesMakeHierarchies` ask for neither.
`FilesMakeHierarchies` joins the generator to what it generates: the tables of an accepted file
with a state in it whose output compiles (`OneCasePerLabel`: no label in two cases of one
`switch`) satisfy the whole of `HierarchyAssumption`, so what `HsmProofs` proves of the machine
holds of the machine of every such file. Beyond the indices it needs `OwnersInv`: the source of
each transition is the path of a state, also where the file is nested too deep.

`PathsNameParents` (`[]PathsFollowParents`) rests on `PathsInv`: the path of a state is its
parent's path with one name appended, or one name. `ParserTypeSafe` (`[]HsmTypeOK`) and
`SourcesAreKept` (`[]TransitionsKeepTheirSource`) rest on `TransitionsInv`, which says of
every line `on` read so far that the table holds it in its place with the path of the
block it stands in (`Sources`), and that after the last line every index points into the
table (`Indices`). The search of the table by path, a minimum over a set of numbers, is
dealt with once, in `FindStateFinds`, by well-founded induction on the numbers.

`TargetsLead` (`[]TargetsResolve`) rests on `TargetsInv`: what a line `on` has put into the
table is what looking its target up among the states of that moment gives (`LookedUp`), and
this does not change when states are added, because a state keeps its place, path and parent
(`KeepsStates`). `AttributesAreKept` (`[]AttributesStayWithTheirState`) rests on `MarksInv`,
which compares each state with the marks of its lines (`AsWritten`), as long as the names of
siblings differ; a file that names one path twice marks the first of the two.

`RegenProofs`: `RegenTypeSafe` (`[]TypeOK`), `GateExact` (`GateIsExact`) and
`WatcherRunsRegen` (`WSpec => Spec`), from `RegenAssumption`: two specifications have
no output in common and each has one. The invariant `RunInv` says of a run
in progress that between two specifications every output holds what is due (`Done`):
the version this run parsed or, if it parsed none, what the run found; and that while a
specification is written (`Writing`) its closed outputs hold the version it was parsed
at and those of all others are `Done`. It is needed because the verdict compares
outputs with versions parsed at different times, of files that may have been edited
since. By `WatcherRunsRegen` every theorem
about `Spec` holds with the watcher at work.

`VerifiedWhereCommitted` is about the property that `SpecWatcherUntracked` refutes. If every
output of an accepted spec is committed (`OutputsAreCommitted`), an ok in a checkout nobody has
edited does mean that the outputs are what the generators make of the specs. `CheckoutInv`
says of such a checkout that the run has parsed each spec it has passed at the version that
is there; the verdict's meaning comes from `FinishIsExact`.

About the watcher there is `WatcherTypeSafe` (`[]WTypeOK`): `WatchInv` says that a hash the watcher
compares is that of a whole poll, which is what a type invariant that only speaks of the
states after the last file cannot say of the ones before.

`NoEditIsForgotten` (`[]EditsAreAhead`) is the safety part of `EditsAreRegenerated`: if no edit
gives a spec a content it had before (`~Undo`), an edit that is pending is taken in by the
regeneration that is on (`WillRead`) or differs from the hash the watcher compares with next
(`Compared`), at every point of the loop and whatever is edited, staged, run by hand or
interrupted. `AheadInv` adds that no hash is newer than the newest content, which makes a new
content different from all of them, and that the watcher has a hash of every spec with an edit
pending; `RunInv` is what makes a finished run leave the outputs of what it has read `Current`.
Where an edit may be undone TLC refutes `EditsAreAhead`, as it does the liveness
(`SpecWatcherUndo`), and so it does if the watcher hashes again after regenerating.

`ToolProofs`, about Toolchain: `WholeToolchains` (`[]ReadyToolchainsAreWhole`) and `WreckageExplained`
(`[]WreckageIsExplained`), with the facts they are made of, for all sets of calls and
releases, from `ToolchainAssumption` (the name for "none" is neither). `ToolInv` ties a
call's line to what its directory holds there: a call at `commit` has a whole tree out of a
checked archive. Without it `Commit` could put anything in place. It adds that a release in
place was placed by a call for it (`PlacedBySomeone`) and that a directory inside a release
is the slower call's (`InsideOfAnother`).

About ManifestGate: `VerdictsAreTrue` (`GateTellsTheTruth`), for all directories and versions.
`GateInv` follows a run of the gate: once a manifest is written it is what was scanned until
the gate ends (`WrittenIsRead`), what passed `git diff` is the index for the tracked ones
(`TrackedIsSame`), and a run that began with everything up to date finds it so at each step
(`QuietIsSame`). A developer stages between any two of them, which is why the last of these
has to speak of the index as it may have become.

About TwoRuns: `OverlappingRuns` (`OverlapsAreHarmless`), for any number of runs, outputs and
versions, from `TwoRunsAssumption`. `OutputInv` says of each output that
everybody who has it open is of a version in `opened[o].versions`, that nothing else is in it
but holes, none of them beyond the longest of these versions, and that the last to open it
has already written every buffer before the one it is at. The last of these is what makes
the output whole when that run closes it: whoever opened it earlier can put buffers of his
version in their places and nothing more. `OverwrittenIs` is the lemma about `write`.

About GeneratedTypes: `WrittenObjectsComeBack` (`[]ObjectsComeBack`), not only for the values
at the edges that the run writes but for any value of a field's C type, and any number of
calls (`AnySpec`). `GenInv` says that every object, document and row is one of its type and
what the last call replied. What it needs of the tables is `TablesFit`: checks and
defaults fit their fields, and the calls of JSON and SQL fit the C types. That is data, and TLC
evaluates it of all 140 committed types (`TablesAssumption`).

About MCTools: `ToolsAreTheirSpecs` takes the composition apart, so that whatever a module's
theorem says holds in it, and `ToolsTypeSafe` (`[]ToolsTypeOK`) and `ToolsKeepTheirPromises`
conclude all that `Tools.cfg` checks, for all values of the constants.

`GeneratorProofs` has for each parser an invariant over files of any length and all limits:

| Theorem | Says | The invariant, and what it adds to the property |
|---|---|---|
| `TablesFromTheFile` | `[]SmTablesAreTheFile` | `SmInv`: the parser's current state is the author's block whenever he is in one (`InItsBlock`), whatever lines left it set before |
| `SchemaFieldsAreAsWritten` | `[]FieldsAreAsWritten` | `SchemaInv`: each type is its block, field by field (`TypesAreTheirBlocks`) |
| `ModesAreWritten` | `ModesGoAsWritten` | `ModesInv`: the open mode is the last and, in a block, the author's (`BlockIsTheLast`), and a machine that runs was compiled (`RunsCompiled`) |
| `RulesAct` | `RulesDoWhatTheySay` | `RulesInv`: what the parser has of a rule is of that rule (`KeepsRule`), and where the author is in a part of a rule the parser is in that part or in none (`BlockIsFollowed`) |
| `LinesStayInTheirBlock`, `SqlTypeSafe` | `[]SqlLinesStayInTheirBlock` | `SqlInv`: what is open besides the author's block was written on one line (`OpenFits`), and what it has taken is of the block the author is in (`OpenStrays`); the length of a query is below `MAX_SQL` and only grows, so a line that did not fit does not fit now (`QueryKept`) |
| `BuildsGoByTheList`, `ImplTypeSafe` | `[]BuildsAreAsListed` | `ImplInv`: targets are what is written of them (`TargetsFit`); the SIMD list is the head of what is written, and empty if a platform on one line was open (`SimdFits`) |
| `WindowsShowTheirPanels`, `UiTypeSafe` | `[]WindowsAreDrawnAsWritten` | `UiInv`: ranges of panels and of widgets follow one another, and an open one ends at the end of the array (`RangesFit`), a widget is at its place in the file (`WidgetsFit`), and what is open although its author has left it was kept so by a block on one line (`UiStaysOpen`) |

`LastActionCounts` says what the actions of a rule come to, for any list of them: each fact is
as the last action on it says. `ActAll` is a fold, so its recursion is met with a closed form
(`Settled`) and `SetInduction` over the length of the list. With it come `RulesTypeSafe`
(`RulesKeepLimits`), the facts of a context stay facts, and `BareFilesAct`, about the property
that `RulesBraces` refutes: it holds of every file in which no rule has braces of its own and no
line has two statements (`Bare`).
`FiredInv` says that the rule tried last, if it fired, has left the context such that its
actions would change nothing (`ActAllAgain`).

A parser that has written past an array, or refused, reads no further; the invariants say of
it what they say of the file up to there.

`GeneratedCodeProofs` goes on from the tables to the code that uses them:

* `StepsComeAsWritten` (`[]StepsAreAsWritten`), `RunnerRunsTheRanges`
  (`[]RunnerFollowsTheRanges`), `BddTypeCorrect`. `BddTablesInv`: the open scenario is the last
  and its range ends at the end of the table (`OpenScenario`), and a scenario starts after what
  the scenarios before it have counted and the steps of the Background before it
  (`ShiftOfRanges`), a sum over the scenarios that is dealt with by induction on their
  number; where that Background is empty, printed range and scenario agree
  (`EntriesAreOfTheScenario`). `BddRunInv` says of a run in progress that its log is the ranges so far.
* `VersionsUnderstand` (`[]VersionsReadEachOther`). `StoreInv`: each row and each document is
  what some version makes of some object (`RowsFit`, `DocumentIs`), and what was selected came
  from a row that is there (`LoadedIs`). `StoreTypeSafe` (`[]StoreTypeOK`) adds that an object
  that was loaded into has the fields of its version (`ReaderHasItsFields`).
* `TextsAreTokens` (`[]TextIsReadAsTokens`), `LexTypeSafe`. `LexInv`: the lexer's line and
  column are those of its position (`PlaceIs`), a token is what the lexer may return there
  (`IsReturned`), it follows the one before it (`Follows`), and what is covered by no token is
  blank.
* `ApisAreAsWritten` (`[]ApiIsAsWritten`), `ApiTypeSafe`. `ApiInv`: an endpoint and a type are
  what the entries of their block say (`BlocksAreSaid`), to which an entry of another block or
  kind adds nothing, and a type on one line has nothing from inside another block; of the errors written so far (`IsPast`) each is in the enum, and while
  there is room either table has what the other has (`TablesMatch`). The heart is
  `StandsFirst`: the string of the e-th constant first stands at e or, exactly if a string
  is there twice before it, further on. That is more than `StringsFollowTheEnum` says, and what
  makes it inductive. `TablesGrow` shows it of one more error; for it
  the invariant must say that as long as no string has been repeated the tables are equally
  long, and that they differ in length from then on.

`DataLemmas` holds what they share. The least element of a set of numbers (`Least`) and with
it induction over a set (`SetInduction`) come from the well-foundedness of `<`, of which the
library has a theorem without an operator for a parameter: that is how counts and searches
could be dealt with for every input although tlapm cannot apply the library's induction rules.

The proofs corrected what the small instances had not met. A Background that a scenario cuts
in two takes, in its second part, the keyword of that scenario (`AndKeepsToItsScenario`, which
did not except it). A version of a schema may lack the field `id`, and its rows are then never
selected (`OldestRowIsRead`). `ParserAssumption` did not say that a target is a sequence of
names. Lexer, SqlSpecs, Platforms, UiPanels and ApiTables spoke of parts of the text with
`SelectSeq`, `FlattenSeq` and folds; they now say the same with sets and quantifiers, and
`ApiTables` writes its tables an error at a time.

Every safety property of the passing runs is a theorem. Model-checked only is the liveness,
`InnermostCallReturns` and `EditsAreRegenerated`, which TLAPS does not reach; the safety each
rests on is proved (`CallsEnd`, `NoEditIsForgotten`). Six of the eight findings have a theorem
that says where the property does hold (`ReadsStayInTable`, `HistoryIsShallow`,
`VerifiedWhereCommitted`, `BareFilesAct`, `ParentsAreEnclosing`, `RunnerRunsTheRanges`).

## 6. Abstractions, and what is not modelled

Names, paths and texts are not cut at the sizes of their arrays (31 and 63 characters in
hsmgen). Formatting of what is generated, comments, usage texts and messages are left
out. The optional tools of Ring 1 and 2 are absent or placeholders that print, and are
left out of `Regen`, as are the timestamp files the gate excludes. In `SpecWatcher` one run
of `regen-all.sh` is at work at a time; what runs that overlap do to each other is `TwoRuns`,
where the runs work on one specification and nothing is staged. `head -20` in `regen_all`
(`feedback-loop.sh:82`), which ends a script that prints more than a buffer of lines, is left
out. What stands in the braces of a block on one line is left out where no usage text has the
form: of `SchemaParser`'s types, `SmParser`'s states and the tables and queries of `SqlSpecs`.
In `GeneratedTypes` a text is empty, UTF-8 or neither; TLC
writes numbers at the edges of their types, the theorem any number. In `ManifestGate` what the scanner finds in a file is external. SQLite, yyjson and
git are external; of yyjson the calls that decide a property are modelled
(`Writable`, `AsRead`).

Not modelled, because there is no state to go wrong or no code here to read:

* `defgen`: its headers are templates of macros that include the `.def`, the same for every
  file; what they mean is the preprocessor's; `siggen`: one prototype per line; of several
  modules in one file it makes one, with the last one's name;
* `verify.sh` and `bde-workflow.sh`: the comparison of `Regen`, behind other exit codes;
* `cosmo-src.sh`: git and make do the work; `template-init.sh`, `new-spec.sh`: text is
  substituted once;
* `src/main.c`, `src/platform/`: a sample that calls the generated code once;
* livereload and e9studio: in a git submodule whose directory is empty;
* `lemon.c`, `lempar.c`, `makeheaders.c`, `yyjson`, gengetopt: vendored programs;
* `gen/behavior`, `gen/testing`, `gen/api`, ...: written by generators that are modelled for
  any specification; the traffic light and the pricing rules are instances in the runs;
* tests and examples.

## 7. Plan

1. The end of the script by a closed pipe (`feedback-loop.sh:82`), in `SpecWatcher`.
2. hsmgen's table of events and its limit, and names cut to one another.
3. bddgen's tags and docstrings, and the steps file that is not written again.
