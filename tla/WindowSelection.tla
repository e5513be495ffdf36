---------------------------- MODULE WindowSelection ----------------------------
(***************************************************************************)
(* Which window is meant by a point: the one that the mouse grabs          *)
(* (mouse::SelectTarget, with the rules of the user), and the one that     *)
(* hw.window reports for the cursor (InspectWindowAtPoint, which looks     *)
(* further down the desktop if the window that was hit will not do).       *)
(***************************************************************************)
EXTENDS Integers, SequencesExt

CONSTANTS
  Desktops,   \* sequences of top-level windows, topmost first
  Rules,      \* rules that the user may write
  MaxRules    \* bound: rules in grab_filters

\* What rules a window out of both routines
Flaw == {"invisible", "cloaked", "child", "toolwindow", "noactivate", "noprocess", "minimized"}
Process == {"App.exe", "Start.exe", "unknown"}    \* unknown: OpenProcess was refused
Class == {"AppClass", "Tray", "Core"}
Window == [flaws : SUBSET Flaw, process : Process, class : Class,
           hit : BOOLEAN,       \* the point is in the raw rectangle
           visual : BOOLEAN]    \* the point is in the visual rectangle

Unset == "unset"   \* an empty field of a rule matches everything
Rule == [action : {"include", "exclude"}, process : (Process \ {"unknown"}) \cup {Unset}, class : Class \cup {Unset}]

ASSUME SelectionAssumption ==
  /\ \A d \in Desktops : d \in Seq(Window) /\ \A i \in DOMAIN d : d[i].visual => d[i].hit
  /\ Rules \subseteq Rule /\ MaxRules \in Nat
  /\ \A rule \in Rules : {rule.process, rule.class} # {Unset}

VARIABLES
  desktop, rules,
  grabbed,     \* what SelectTarget found: [candidate, rejection, rule], or NotAsked
  inspected    \* what InspectWindowAtPoint found: [candidate, rejection]

selectionVars == <<desktop, rules, grabbed, inspected>>

NoWindow == 0
NotAsked == [candidate |-> NoWindow, rejection |-> "unasked"]
None(reason) == [candidate |-> NoWindow, rejection |-> reason]

\* The desktop is the one the attributes are read from: the window that was hit may have been
\* hidden or minimized since.  That it has gone is a case of its own below.
Hit == {i \in DOMAIN desktop : desktop[i].hit}
WindowFromPoint == IF Hit = {} THEN NoWindow ELSE Min(Hit)

\* The first of the reasons that applies, or "none"
FirstFlaw(order, w) ==
  LET found == {i \in DOMAIN order : order[i] \in w.flaws}
  IN  IF found = {} THEN "none" ELSE order[Min(found)]

-------------------------------------------------------------------------------
\* mouse::SelectTarget

Excludes(process, class) == [action |-> "exclude", process |-> process, class |-> class]
BuiltIn == <<Excludes(Unset, "Tray"), Excludes("Start.exe", "Core")>>

Matches(rule, w) == rule.process \in {Unset, w.process} /\ rule.class \in {Unset, w.class}

\* Mutant: the first rule of the user that matches decides.
DecisionOfFirst(userRules, w) ==
  LET matching == SelectSeq(userRules, LAMBDA rule : Matches(rule, w))
  IN  IF matching # <<>> THEN matching[1].action
      ELSE IF \E i \in DOMAIN BuiltIn : Matches(BuiltIn[i], w) THEN "exclude" ELSE "include"

\* Every rule that matches overrides what was decided so far.
Decision(userRules, w) ==
  FoldLeft(LAMBDA decided, rule : IF Matches(rule, w) THEN rule.action ELSE decided,
           "include", BuiltIn \o userRules)

MouseOrder == <<"minimized", "invisible", "cloaked", "child", "toolwindow", "noactivate", "noprocess">>

SelectTarget(userRules) ==
  LET top == WindowFromPoint
      w == desktop[top]
      flaw == FirstFlaw(MouseOrder, w)
  IN  IF top = NoWindow THEN None("invalid")
      ELSE IF flaw # "none" THEN None(flaw)
      ELSE IF Decision(userRules, w) = "exclude" THEN None("rule")
      ELSE IF ~w.visual THEN None("outside")
      ELSE [candidate |-> top, rejection |-> "none"]

-------------------------------------------------------------------------------
\* win::GetFilteredWindowAtCursor

IsShellProtected(w) == w.class = "Tray" \/ (w.class = "Core" /\ w.process = "Start.exe")

\* IsAppWindow: the reason against w, or "none"
Rejection(w) ==
  LET early == FirstFlaw(<<"invisible", "cloaked">>, w)
      late == FirstFlaw(<<"child", "toolwindow", "noactivate", "noprocess">>, w)
  IN  IF early # "none" THEN early
      ELSE IF IsShellProtected(w) THEN "shell" ELSE late

\* Mutant: minimized windows are found in the enumeration.
FoundMinimized(w) == Rejection(w) = "none" /\ w.hit

\* FindWindowAtPointProc
Found(w) == "minimized" \notin w.flaws /\ Rejection(w) = "none" /\ w.visual

FindWindowAtPoint ==
  LET found == {i \in DOMAIN desktop : Found(desktop[i])}
  IN  IF found = {} THEN NoWindow ELSE Min(found)

InspectWindowAtPoint ==
  LET top == WindowFromPoint
      w == desktop[top]
      reason == IF top = NoWindow THEN "invalid"
                ELSE IF "minimized" \in w.flaws THEN "minimized"
                ELSE IF Rejection(w) # "none" THEN Rejection(w)
                ELSE IF w.visual THEN "none" ELSE "outside"
  IN  CASE reason = "none"  -> [candidate |-> top, rejection |-> "none"]
        [] reason = "shell" -> None("shell")
        [] OTHER            -> [candidate |-> FindWindowAtPoint, rejection |-> reason]

-------------------------------------------------------------------------------
SelectionInit ==
  /\ desktop = <<>> /\ rules = <<>>
  /\ grabbed = NotAsked /\ inspected = NotAsked

\* Windows come and go, the user changes the rules.
Arrange(d, r) ==
  /\ desktop' = d /\ rules' = r
  /\ UNCHANGED <<grabbed, inspected>>

\* A window is gone between WindowFromPoint and GetAncestor.
AskMouse ==
  /\ grabbed = NotAsked
  /\ \/ grabbed' = SelectTarget(rules)
     \/ WindowFromPoint # NoWindow /\ grabbed' = None("no root")
  /\ UNCHANGED <<desktop, rules, inspected>>

AskCursor ==
  /\ inspected = NotAsked
  /\ \/ inspected' = InspectWindowAtPoint
     \/ /\ WindowFromPoint # NoWindow
        /\ inspected' = [candidate |-> FindWindowAtPoint, rejection |-> "no root"]
  /\ UNCHANGED <<desktop, rules, grabbed>>

SelectionNext ==
  \/ /\ desktop = <<>> /\ grabbed = NotAsked /\ inspected = NotAsked
     /\ \E d \in Desktops, r \in BoundedSeq(Rules, MaxRules) : Arrange(d, r)
  \/ AskMouse \/ AskCursor

-------------------------------------------------------------------------------
\* The last of the user's rules that match includes the window; if none matches, it
\* is no part of the shell.
Allowed(w) ==
  LET matching == {i \in DOMAIN rules : Matches(rules[i], w)}
  IN  IF matching = {} THEN ~IsShellProtected(w) ELSE rules[Max(matching)].action = "include"

Grabbable(i) ==
  /\ desktop[i].flaws = {} /\ desktop[i].visual
  /\ \A j \in 1..(i - 1) : ~desktop[j].hit
  /\ Allowed(desktop[i])

\* The mouse grabs a window exactly if it is the topmost one under the cursor, is shown
\* there and the rules allow it: the taskbar, the desktop and the start menu only if
\* the last of the user's rules that match includes them, any other window unless the last
\* that matches excludes it.  Only a window that goes while it is asked for is not grabbed.
LastRuleDecides ==
  grabbed.rejection \notin {"unasked", "no root"} =>
    /\ \A i \in DOMAIN desktop : grabbed.candidate = i <=> Grabbable(i)
    /\ grabbed.candidate \in DOMAIN desktop \cup {NoWindow}

\* The two routines agree: without rules of the user, the window that the mouse
\* grabs is the one that hw.window reports; and what it reports is shown, is no part of
\* the shell, contains the point, and has no such window above it.
RoutinesAgree ==
  /\ grabbed.candidate # NoWindow /\ rules = <<>> /\ inspected.rejection \notin {"unasked", "no root"}
       => inspected.candidate = grabbed.candidate
  /\ inspected.candidate # NoWindow =>
       LET fit(w) == w.flaws = {} /\ w.visual /\ ~IsShellProtected(w)
       IN  /\ fit(desktop[inspected.candidate])
           /\ \A i \in 1..(inspected.candidate - 1) : ~fit(desktop[i])
===============================================================================
