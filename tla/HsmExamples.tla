---------------------------- MODULE HsmExamples -----------------------------
(***************************************************************************)
(* The .hsm files the instances of HsmRuntime and HsmObserved run, parsed  *)
(* by HsmTable with the limits of the code.  On, StateL, ... are their     *)
(* lines; the tables of each are constants below.                          *)
(***************************************************************************)
EXTENDS Integers, Sequences

T == INSTANCE HsmTable WITH MaxStates <- 128, MaxTransitions <- 256,
                            MaxEvents <- 64, MaxDepth <- 8,
                            HistoryNames <- {"history"}

StateL(name)   == [kind |-> "state", name |-> name]
Close          == [kind |-> "close"]
InitialL(path) == [kind |-> "initial", path |-> path]
EntryL(f)      == [kind |-> "entry", callback |-> f]
ExitL(f)       == [kind |-> "exit", callback |-> f]
On(e, target)  == [kind |-> "on", event |-> e, target |-> target,
                   guard |-> "", action |-> ""]
OnDo(e, guard, target, action) ==
  [kind |-> "on", event |-> e, target |-> target, guard |-> guard,
   action |-> action]

\* specs/behavior/trafficlight.hsm
TrafficLight == T!ParseSpec(<<
  InitialL(<<"Operating", "Red">>),
  StateL("Operating"),
    InitialL(<<"Red">>),
    On("Fault", <<"Error">>),
    StateL("Red"),    EntryL("show_red"),    On("Timer", <<"Green">>),  Close,
    StateL("Green"),  EntryL("show_green"),  On("Timer", <<"Yellow">>), Close,
    StateL("Yellow"), EntryL("show_yellow"), On("Timer", <<"Red">>),    Close,
  Close,
  StateL("Error"),
    EntryL("blink_all"),
    On("Reset", <<"Operating", "history">>),
  Close >>)

\* A player whose root states have a case for every event.  Its paths are
\* dotted, Track and Seek leave Active through cases of their own.
Player == T!ParseSpec(<<
  InitialL(<<"Idle">>),
  StateL("Idle"),
    ExitL("wake"),
    On("Play", <<"Active", "Track">>), On("Pause", <<"Idle">>),
    On("Stop", <<"Idle">>),
  Close,
  StateL("Active"),
    InitialL(<<"Track">>), EntryL("spin_up"), ExitL("spin_down"),
    On("Play", <<"Active", "Track">>), OnDo("Stop", "", <<"Idle">>, "rewind"),
    On("Pause", <<"Active">>),
    StateL("Track"),
      EntryL("start"), ExitL("hold"),
      OnDo("Pause", "can_pause", <<"Paused">>, "mark"),
      On("Play", <<"Active", "Seek">>),
    Close,
    StateL("Seek"),
      On("Pause", <<"Paused">>), OnDo("Stop", "settled", <<"Track">>, ""),
    Close,
  Close,
  StateL("Paused"),
    On("Play", <<"Active", "history">>), On("Stop", <<"Idle">>),
    OnDo("Pause", "", <<"Paused">>, "beep"),
  Close >>)

\* trafficlight.hsm with its targets written as full paths, and exit callbacks.
Crossing == T!ParseSpec(<<
  InitialL(<<"Operating", "Red">>),
  StateL("Operating"),
    On("Fault", <<"Error">>),
    StateL("Red"),
      EntryL("red_on"), ExitL("red_off"),
      On("Timer", <<"Operating", "Green">>), Close,
    StateL("Green"),
      EntryL("green_on"), ExitL("green_off"),
      On("Timer", <<"Operating", "Red">>), Close,
  Close,
  StateL("Error"),
    On("Reset", <<"Operating", "history">>),
    On("Timer", <<"Operating", "Red">>),
  Close >>)

\* A session three levels deep, with guards on the way up and a history that
\* may be empty: the events it does not handle climb past the root.
Session == T!ParseSpec(<<
  InitialL(<<"Out">>),
  StateL("Out"), OnDo("login", "", <<"In">>, "greet"), Close,
  StateL("In"),
    ExitL("flush"),
    OnDo("logout", "may_leave", <<"Out">>, ""),
    StateL("Docs"),
      EntryL("open"), ExitL("save"),
      OnDo("edit", "", <<"In", "Docs", "Draft">>, ""),
      OnDo("logout", "saved", <<"Out">>, "sync"),
      StateL("Draft"),
        EntryL("lock"), ExitL("unlock"),
        OnDo("edit", "dirty", <<"In", "Chat">>, ""),
      Close,
    Close,
    StateL("Chat"),
      OnDo("edit", "", <<"In", "Docs", "history">>, ""),
    Close,
    OnDo("edit", "", <<"In", "Chat">>, ""),
  Close >>)

\* ----- tables as constants
TLN == Len(TrafficLight.states)
TLParent == T!ParentOf(TrafficLight)
TLCases == T!DispatchCases(TrafficLight)
TLInitial == T!InitialIndex(TrafficLight)
TLEntry == T!HasEntryOf(TrafficLight)
TLExit == T!HasExitOf(TrafficLight)
TLEvents == {"Timer", "Fault", "Reset"}

PN == Len(Player.states)
PParent == T!ParentOf(Player)
PCases == T!DispatchCases(Player)
PInitial == T!InitialIndex(Player)
PEntry == T!HasEntryOf(Player)
PExit == T!HasExitOf(Player)
PEvents == {"Play", "Pause", "Stop"}

\* What the theorems ask of a file, this one does: it is a machine they speak of.
PlayerTree == INSTANCE HsmHierarchy WITH N <- PN, Events <- PEvents, Parent <- PParent,
                                         Cases <- PCases, Initial <- PInitial
ASSUME PlayerIsKept ==
  PlayerTree!RootsTakeAll /\ PlayerTree!HistoryIsKept /\ PlayerTree!HistoryFromOutside

XN == Len(Crossing.states)
XParent == T!ParentOf(Crossing)
XCases == T!DispatchCases(Crossing)
XInitial == T!InitialIndex(Crossing)
XEntry == T!HasEntryOf(Crossing)
XExit == T!HasExitOf(Crossing)
XEvents == {"Timer", "Fault", "Reset"}

SN == Len(Session.states)
SParent == T!ParentOf(Session)
SCases == T!DispatchCases(Session)
SInitial == T!InitialIndex(Session)
SEntry == T!HasEntryOf(Session)
SExit == T!HasExitOf(Session)
SEvents == {"login", "logout", "edit"}
=============================================================================
