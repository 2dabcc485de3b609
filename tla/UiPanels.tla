------------------------------ MODULE UiPanels ------------------------------
(***************************************************************************)
(* uigen (tools/uigen/uigen.c): the windows, panels and widgets it reads   *)
(* from a .ui file into three flat arrays, and the render function it      *)
(* writes, which draws a panel as a range of widgets and a window as a     *)
(* range of panels.                                                        *)
(*                                                                         *)
(* A block is <<w, p, g>>: the window, the panel and the widget it is in,  *)
(* counted over the file, and 0 where there is none.  A block may stand on *)
(* one line, with what it says in the braces, as the usage text shows it   *)
(* (uigen.c:542-546), and panels and widgets then follow it outside every  *)
(* brace.  uiText is the file so far, each line with the block its author  *)
(* wrote it in, uiWidgets what is written of each widget, and uiOnLine the *)
(* blocks on one line.                                                     *)
(***************************************************************************)
EXTENDS Naturals, Sequences

CONSTANTS
  MaxWindows, MaxPanels, MaxWidgets,      \* MAX_WINDOWS, MAX_PANELS, MAX_WIDGETS
  MaxUiLines                              \* bound: the lines of a file

ASSUME UiAssumption == {MaxWindows, MaxPanels, MaxWidgets, MaxUiLines} \subseteq Nat

VARIABLES
  windows, panels, widgets,     \* the arrays
  uiOpen,         \* which of cur_window, cur_panel and cur_widget is not NULL
  uiText,         \* the lines read
  uiWidgets,      \* of each widget, the block of its line and whether a block on one
                  \* line stands before it
  uiOnLine,       \* the blocks written on one line
  uiBlock,        \* the block the author is in
  uiRefused       \* parse_spec has returned -1

uiVars == <<windows, panels, widgets, uiOpen, uiText, uiWidgets, uiOnLine, uiBlock, uiRefused>>

Outside == <<0, 0, 0>>

UiInit ==
  /\ windows = <<>> /\ panels = <<>> /\ widgets = <<>>
  /\ uiOpen = {}
  /\ uiText = <<>> /\ uiWidgets = <<>> /\ uiOnLine = {} /\ uiBlock = Outside
  /\ uiRefused = FALSE

-----------------------------------------------------------------------------
(* parse_spec.  Each pointer that is set points to the last of its array. *)

WritesUi(kind) ==
  /\ ~uiRefused /\ Len(uiText) < MaxUiLines
  /\ uiText' = Append(uiText, [in |-> uiBlock, kind |-> kind])

Refuses ==
  /\ uiRefused' = TRUE
  /\ UNCHANGED <<windows, panels, widgets, uiOpen, uiWidgets, uiOnLine, uiBlock>>

\* What follows the name on the line is cut off, a closing brace too.  The author of a
\* block on one line stays in the block around it, and its pointer stays set.
Begins(block, oneLine) ==
  IF oneLine THEN uiOnLine' = uiOnLine \cup {block} /\ UNCHANGED uiBlock
             ELSE uiBlock' = block /\ UNCHANGED uiOnLine

\* Only cur_window is set: the other pointers stay as they are.
WindowLine(oneLine) ==
  /\ uiBlock = Outside /\ WritesUi("window")
  /\ IF Len(windows) >= MaxWindows THEN Refuses
     ELSE /\ windows' = Append(windows, [start |-> Len(panels) + 1, count |-> 0,
                                         title |-> FALSE])
          /\ uiOpen' = uiOpen \cup {"window"}
          /\ Begins(<<Len(windows) + 1, 0, 0>>, oneLine)
          /\ UNCHANGED <<panels, widgets, uiWidgets, uiRefused>>

\* In a window, or outside every block.
PanelLine(oneLine) ==
  /\ uiBlock[2] = 0 /\ uiBlock[3] = 0 /\ WritesUi("panel")
  /\ IF Len(panels) >= MaxPanels THEN Refuses
     ELSE /\ panels' = Append(panels, [start |-> Len(widgets) + 1, count |-> 0,
                                       layout |-> FALSE])
          /\ windows' = IF "window" \in uiOpen
                        THEN [windows EXCEPT ![Len(windows)].count = @ + 1] ELSE windows
          /\ uiOpen' = uiOpen \cup {"panel"}
          /\ Begins(<<uiBlock[1], Len(panels) + 1, 0>>, oneLine)
          /\ UNCHANGED <<widgets, uiWidgets, uiRefused>>

\* In a panel, or loose in a window or outside every block.
WidgetLine(oneLine) ==
  /\ uiBlock[3] = 0 /\ WritesUi("widget")
  /\ IF Len(widgets) >= MaxWidgets THEN Refuses
     ELSE /\ widgets' = Append(widgets, [label |-> FALSE])
          /\ uiWidgets' = Append(uiWidgets, [in |-> uiBlock, after |-> uiOnLine # {}])
          /\ panels' = IF "panel" \in uiOpen
                       THEN [panels EXCEPT ![Len(panels)].count = @ + 1] ELSE panels
          /\ uiOpen' = uiOpen \cup {"widget"}
          /\ Begins(<<uiBlock[1], uiBlock[2], Len(widgets) + 1>>, oneLine)
          /\ UNCHANGED <<windows, uiRefused>>

\* title:, width: and height: are the window's, layout: is the panel's, and the
\* rest the widget's, wherever they stand.
TitleLine ==
  /\ uiBlock[1] # 0 /\ uiBlock[2] = 0 /\ uiBlock[3] = 0 /\ WritesUi("title")
  /\ windows' = IF "window" \in uiOpen
                THEN [windows EXCEPT ![Len(windows)].title = TRUE] ELSE windows
  /\ UNCHANGED <<panels, widgets, uiOpen, uiWidgets, uiOnLine, uiBlock, uiRefused>>

LayoutLine ==
  /\ uiBlock[2] # 0 /\ uiBlock[3] = 0 /\ WritesUi("layout")
  /\ panels' = IF "panel" \in uiOpen
               THEN [panels EXCEPT ![Len(panels)].layout = TRUE] ELSE panels
  /\ UNCHANGED <<windows, widgets, uiOpen, uiWidgets, uiOnLine, uiBlock, uiRefused>>

LabelLine ==
  /\ uiBlock[3] # 0 /\ WritesUi("label")
  /\ widgets' = IF "widget" \in uiOpen
                THEN [widgets EXCEPT ![Len(widgets)].label = TRUE] ELSE widgets
  /\ UNCHANGED <<windows, panels, uiOpen, uiWidgets, uiOnLine, uiBlock, uiRefused>>

\* The author closes the innermost block, the parser the innermost pointer.
Enclosing(b) ==
  IF b[3] # 0 THEN [b EXCEPT ![3] = 0]
  ELSE IF b[2] # 0 THEN [b EXCEPT ![2] = 0]
  ELSE Outside

Innermost(open) ==
  IF "widget" \in open THEN "widget" ELSE IF "panel" \in open THEN "panel" ELSE "window"

UiBraceLine ==
  /\ uiBlock # Outside /\ WritesUi("close")
  /\ uiOpen' = uiOpen \ {Innermost(uiOpen)}
  /\ uiBlock' = Enclosing(uiBlock)
  /\ UNCHANGED <<windows, panels, widgets, uiWidgets, uiOnLine, uiRefused>>

UiNext ==
  \/ \E oneLine \in BOOLEAN : WindowLine(oneLine) \/ PanelLine(oneLine) \/ WidgetLine(oneLine)
  \/ TitleLine \/ LayoutLine \/ LabelLine
  \/ UiBraceLine

UiSpec == UiInit /\ [][UiNext]_uiVars

-----------------------------------------------------------------------------
(* The generated render function draws the panels of a window one after the     *)
(* other, and the widgets of a panel.                                           *)

\* Mutation of RangeOf: the range ends one too early.
RangeWithoutLast(x) == x.start..((x.start + x.count) - 2)

RangeOf(x) == x.start..((x.start + x.count) - 1)

\* The panels and widgets that are drawn in a window, and which of two is first.
Drawn(w) == UNION {{<<p, g>> : g \in RangeOf(panels[p])} : p \in RangeOf(windows[w])}

DrawnBefore(d, e) == d[1] < e[1] \/ (d[1] = e[1] /\ d[2] < e[2])

-----------------------------------------------------------------------------
(* Properties. *)

BlockOf(g) == uiWidgets[g].in
Loose(g) == BlockOf(g)[1] = 0 \/ BlockOf(g)[2] = 0
HasLine(in, kind) == \E i \in DOMAIN uiText : uiText[i] = [in |-> in, kind |-> kind]

\* The arrays keep within their limits, and ranges within the arrays
\* (uigen.c:191, :213, :238).
UiTypeOK ==
  /\ Len(windows) <= MaxWindows /\ Len(panels) <= MaxPanels /\ Len(widgets) <= MaxWidgets
  /\ \A w \in DOMAIN windows : windows[w].start + windows[w].count <= Len(panels) + 1
  /\ \A p \in DOMAIN panels : panels[p].start + panels[p].count <= Len(widgets) + 1
  /\ uiOpen \subseteq {"window", "panel", "widget"}
  /\ uiRefused \in BOOLEAN

\* Of the widgets written in the panels of its windows, render draws in each window just
\* its own, each once and in the order of the file, however many blocks stand on one line
\* and leave their pointer set (uigen.c:198, :221-222, :443-455).
PanelsAreDrawnAsWritten ==
  \A w \in DOMAIN windows :
    LET drawn == {d \in Drawn(w) : ~Loose(d[2])}
    IN /\ {d[2] : d \in drawn} = {g \in DOMAIN widgets : BlockOf(g)[1] = w /\ ~Loose(g)}
       /\ \A d, e \in drawn : DrawnBefore(d, e) <=> d[2] < e[2]

\* A widget outside every panel of a window is not drawn, unless a block on one line
\* before it has kept a window or a panel open: then it is drawn once, in one window
\* (uigen.c:221-222, :247, :285-291).
LooseWidgetsAreNotDrawn ==
  \A w \in DOMAIN windows : \A d \in Drawn(w) : Loose(d[2]) =>
    /\ \A v \in DOMAIN windows : \A e \in Drawn(v) : e[2] = d[2] => v = w /\ e = d
    /\ uiWidgets[d[2]].after

\* A title, a layout or a label on a line of its own goes to the block it is written in,
\* and no block has one that is not written in it.  What a block on one line says stands
\* in its braces, is lost and is left out (uigen.c:200-204, :260-282).
Says(block, kind) == HasLine(block, kind) \/ block \in uiOnLine

UiAttributesStayInTheirBlock ==
  /\ \A w \in DOMAIN windows :
       /\ HasLine(<<w, 0, 0>>, "title") => windows[w].title
       /\ windows[w].title => Says(<<w, 0, 0>>, "title")
  /\ \A p \in DOMAIN panels :
       /\ \A w \in 0..Len(windows) : HasLine(<<w, p, 0>>, "layout") => panels[p].layout
       /\ panels[p].layout => \E w \in 0..Len(windows) : Says(<<w, p, 0>>, "layout")
  /\ \A g \in DOMAIN widgets :
       /\ \A w \in 0..Len(windows), p \in 0..Len(panels) :
            HasLine(<<w, p, g>>, "label") => widgets[g].label
       /\ widgets[g].label =>
            \E w \in 0..Len(windows), p \in 0..Len(panels) : Says(<<w, p, g>>, "label")

\* A window shows what is written in its panels, under the labels written there.
WindowsAreDrawnAsWritten ==
  PanelsAreDrawnAsWritten /\ LooseWidgetsAreNotDrawn /\ UiAttributesStayInTheirBlock
=============================================================================
