------------------------------- MODULE Desktop -------------------------------
(* The window manager and event loop of the desktop (desktop-metal main.rs,   *)
(* wm.rs, input.rs): one frame polls the input, serves a force-quit, gives    *)
(* the keys to the window on top, closes what asked for it, and then handles  *)
(* the right click, the left click and the drag, in this order.  Where on the *)
(* screen things lie is left open: a click may meet whatever the code could   *)
(* find under the pointer.                                                    *)
EXTENDS Integers, Sequences, SequencesExt, FiniteSets

CONSTANTS Desktops,   \* the virtual desktops, the first is the least
          Pinnable,   \* menu items that have an icon for the dock
          FirstDock,  \* what the dock holds at the start, a sequence of them
          MAX_DOCK,   \* room in the dock
          MaxListed,  \* windows that the monitor's list has room for (12)
          MaxWindows, \* bound: windows opened in all
          MaxBurst,   \* bound: keys and clicks that one poll finds
          MaxEvents   \* bound: keys and clicks in all

ASSUME DesktopAssumption ==
    /\ \E d \in Desktops : \A e \in Desktops : d <= e
    /\ MAX_DOCK \in Nat /\ FirstDock \in Seq(Pinnable) /\ Len(FirstDock) <= MAX_DOCK
    /\ MaxListed \in Nat \ {0} /\ MaxWindows \in Nat

VARIABLES wins,     \* the windows, bottom to top, of all desktops
          desk,     \* current_desktop
          menu,     \* start menu, context menu, context menu of an item, tray panel
          dock,     \* DOCK_ITEMS
          snap,     \* snap_preview
          btn,      \* the left button is down
          listed,   \* APP_TITLES: the list the monitor shows, until the next frame's
          kill,     \* KILL_IDX
          asked,    \* the window that kill was meant for, -1 if none
          pc,       \* where in the frame the loop is
          input,    \* what is left to handle of this frame's input
          pace,     \* "slow": at most one event per frame, and none in a frame
                    \* that serves a force-quit; or "fast"
          opened,   \* windows opened so far
          events    \* keys and clicks so far

vars == <<wins, desk, menu, dock, snap, btn, listed, kill, asked, pc, input, pace,
          opened, events>>
screen == <<wins, desk, menu, dock, snap, kill, asked, opened>>

Items == Pinnable \cup {"monitor"}
KeySet == {"open", "close", "quit", "up", "down", "kill"}
Parts == {"close", "min", "max", "corner", "title", "body"}
None == [keys |-> <<>>, left |-> FALSE, right |-> FALSE]

Window(item) == [id |-> opened + 1, desk |-> desk, min |-> FALSE, max |-> FALSE,
                 grab |-> "none", monitor |-> item = "monitor", sel |-> 0, quit |-> FALSE]

OnDesk == {i \in 1..Len(wins) : wins[i].desk = desk}
Highest(S) == CHOOSE i \in S : \A j \in S : j <= i
Top == Highest(OnDesk)

\* The windows that are in W, in the order they had: what retain leaves.
Retained(W) ==
    LET kept[k \in 0..Len(wins)] ==
          IF k = 0 THEN <<>>
          ELSE IF wins[k] \in W THEN Append(kept[k - 1], wins[k]) ELSE kept[k - 1]
    IN  kept[Len(wins)]

------------------------------------------------------------------------------
(* The start: a clean desktop, or the one the kernel command line asks for.   *)
Init ==
    /\ desk = (CHOOSE d \in Desktops : \A e \in Desktops : d <= e)
    /\ opened = 0
    /\ wins \in {<<>>} \cup {<<[Window(i) EXCEPT !.id = 0]>> : i \in Items}
    /\ \E s \in BOOLEAN :
         menu = [start |-> s, ctx |-> FALSE, item |-> "none", qs |-> FALSE]
    /\ dock = FirstDock
    /\ snap = "none" /\ btn = FALSE /\ listed = <<>> /\ kill = -1 /\ asked = -1
    /\ pc = "poll" /\ input = None /\ events = 0
    /\ pace \in {"slow", "fast"}

\* A new window, on the current desktop and on top.
Open(item) ==
    IF opened < MaxWindows
      THEN wins' = Append(wins, Window(item)) /\ opened' = opened + 1
      ELSE UNCHANGED <<wins, opened>>

\* input::poll: everything the kernel has queued, keys and clicks together.  A
\* press and a release within one poll leave an edge and no button.
Polled(keys, left, right, down) ==
    LET count(x) == IF x THEN 1 ELSE 0
        n == Len(keys) + count(left) + count(right)
        release == btn /\ (~down \/ left) IN
    /\ down /\ ~btn => left
    /\ pace = "fast" => n <= MaxBurst
    /\ pace = "slow" => n + count(release) <= (IF kill < 0 THEN 1 ELSE 0)
    /\ events + n <= MaxEvents
    /\ events' = events + n
    /\ input' = [keys |-> keys, left |-> left, right |-> right]
    /\ btn' = down

\* Seeded fault: the request of a force-quit is not taken back.
BeginFrameKillsAgain ==
    /\ pc = "poll"
    /\ \E keys \in {<<>>} \cup {<<k>> : k \in KeySet} \cup {<<j, k>> : j, k \in KeySet},
          left, right, down \in BOOLEAN : Polled(keys, left, right, down)
    /\ listed' = [i \in 1..(IF Len(wins) < MaxListed THEN Len(wins) ELSE MaxListed)
                    |-> wins[i].id]
    /\ wins' = (IF kill \in 0..(Len(wins) - 1) THEN RemoveAt(wins, kill + 1) ELSE wins)
    /\ pc' = "keys"
    /\ UNCHANGED <<kill, asked, desk, menu, dock, snap, pace, opened>>

\* The frame begins: poll, publish the list of windows, serve a force-quit.
BeginFrame ==
    /\ pc = "poll"
    /\ \E keys \in {<<>>} \cup {<<k>> : k \in KeySet} \cup {<<j, k>> : j, k \in KeySet},
          left, right, down \in BOOLEAN : Polled(keys, left, right, down)
    /\ listed' = [i \in 1..(IF Len(wins) < MaxListed THEN Len(wins) ELSE MaxListed)
                    |-> wins[i].id]
    /\ wins' = (IF kill \in 0..(Len(wins) - 1) THEN RemoveAt(wins, kill + 1) ELSE wins)
    /\ kill' = -1 /\ asked' = -1
    /\ pc' = "keys"
    /\ UNCHANGED <<desk, menu, dock, snap, pace, opened>>

(* The keys, one after another: global shortcuts, then the top window of the  *)
(* desktop.                                                                    *)
NextKey(k) == /\ pc = "keys" /\ input.keys # <<>> /\ Head(input.keys) = k
              /\ input' = [input EXCEPT !.keys = Tail(@)]
              /\ UNCHANGED <<desk, menu, dock, snap, btn, listed, pc, pace, events>>

\* Ctrl+T, Ctrl+B, Ctrl+G, Ctrl+D.
OpenKey == /\ NextKey("open")
           /\ \E i \in Pinnable : Open(i)
           /\ UNCHANGED <<kill, asked>>

\* Ctrl+W.
CloseKey == /\ NextKey("close")
            /\ wins' = (IF OnDesk = {} THEN wins ELSE RemoveAt(wins, Top))
            /\ UNCHANGED <<kill, asked, opened>>

\* Ctrl+Q in an editor, "exit" in a terminal: the program asks to be closed.
QuitKey == /\ NextKey("quit")
           /\ wins' = (IF OnDesk # {} /\ ~wins[Top].monitor
                         THEN [wins EXCEPT ![Top].quit = TRUE] ELSE wins)
           /\ UNCHANGED <<kill, asked, opened>>

\* Seeded fault: the selection goes below the list.
MonitorKeyUnbounded(k) ==
    LET m == wins[Top] IN
    /\ k \in {"up", "down", "kill"}
    /\ NextKey(k)
    /\ IF OnDesk = {} \/ ~wins[Top].monitor THEN UNCHANGED <<wins, kill, asked>>
       ELSE \/ /\ k = "up"
               /\ wins' = [wins EXCEPT ![Top].sel = IF m.sel > 0 THEN @ - 1 ELSE @]
               /\ UNCHANGED <<kill, asked>>
            \/ /\ k = "down"
               /\ wins' = [wins EXCEPT ![Top].sel = @ + 1]
               /\ UNCHANGED <<kill, asked>>
            \/ /\ k = "kill"
               /\ IF listed = <<>> THEN UNCHANGED <<kill, asked>>
                    ELSE /\ kill' = m.sel
                         /\ asked' = (IF m.sel < Len(listed) THEN listed[m.sel + 1] ELSE -1)
               /\ UNCHANGED wins
    /\ UNCHANGED opened

\* The monitor's list: the arrow keys select a row, k asks for a force-quit of
\* the row, wherever the list has it now.
MonitorKey(k) ==
    LET m == wins[Top] IN
    /\ k \in {"up", "down", "kill"}
    /\ NextKey(k)
    /\ IF OnDesk = {} \/ ~wins[Top].monitor THEN UNCHANGED <<wins, kill, asked>>
       ELSE \/ /\ k = "up"
               /\ wins' = [wins EXCEPT ![Top].sel = IF m.sel > 0 THEN @ - 1 ELSE @]
               /\ UNCHANGED <<kill, asked>>
            \/ /\ k = "down"
               /\ wins' = [wins EXCEPT ![Top].sel = IF m.sel + 1 < Len(listed) THEN @ + 1
                                                                             ELSE @]
               /\ UNCHANGED <<kill, asked>>
            \/ /\ k = "kill"
               /\ IF listed = <<>> THEN UNCHANGED <<kill, asked>>
                    ELSE /\ kill' = m.sel
                         /\ asked' = (IF m.sel < Len(listed) THEN listed[m.sel + 1] ELSE -1)
               /\ UNCHANGED wins
    /\ UNCHANGED opened

\* Seeded fault: hidden windows do not go.
RetainShown == /\ pc = "keys" /\ input.keys = <<>>
          /\ wins' = Retained({w \in ToSet(wins) : ~w.quit \/ w.min})
          /\ pc' = "mouse" /\ listed' = <<>>
          /\ UNCHANGED <<desk, menu, dock, snap, btn, kill, asked, input, pace,
                         opened, events>>

\* The windows whose program asked to be closed go.
Retain == /\ pc = "keys" /\ input.keys = <<>>
          /\ wins' = Retained({w \in ToSet(wins) : ~w.quit})
          /\ pc' = "mouse" /\ listed' = <<>>
          /\ UNCHANGED <<desk, menu, dock, snap, btn, kill, asked, input, pace,
                         opened, events>>

------------------------------------------------------------------------------
(* The right click.                                                           *)
RightClick ==
    /\ pc = "mouse" /\ input.right
    /\ input' = [input EXCEPT !.right = FALSE]
    /\ \/ menu.item # "none" /\ menu' = [menu EXCEPT !.item = "none"]
       \/ /\ menu.item = "none" /\ menu.start
          /\ \/ \E i \in Items : menu' = [menu EXCEPT !.item = i]
             \/ UNCHANGED menu
             \/ menu' = [menu EXCEPT !.start = FALSE]
       \/ /\ menu.item = "none" /\ ~menu.start
          /\ \E bare \in BOOLEAN : menu' = [menu EXCEPT !.ctx = ~menu.ctx /\ bare]
    /\ UNCHANGED <<wins, desk, dock, snap, btn, listed, kill, asked, pc, pace, opened, events>>

(* The left click: the first of these that is under the pointer takes it.     *)
Left == /\ pc = "mouse" /\ ~input.right /\ input.left
        /\ input' = [input EXCEPT !.left = FALSE]
        /\ UNCHANGED <<btn, listed, kill, asked, pc, pace, events>>

ClickDot(d) == /\ Left
               /\ desk' = d
               /\ snap' = (IF d # desk THEN "none" ELSE snap)
               /\ UNCHANGED <<wins, menu, dock, opened>>

\* Seeded fault: the start menu stays open.
ClickTrayBeside ==
    /\ Left
    /\ menu' = [menu EXCEPT !.qs = ~menu.qs, !.ctx = FALSE]
    /\ UNCHANGED <<wins, desk, dock, snap, opened>>

ClickTray ==
    /\ Left
    /\ menu' = [menu EXCEPT !.qs = ~menu.qs, !.ctx = FALSE, !.start = FALSE]
    /\ UNCHANGED <<wins, desk, dock, snap, opened>>

\* The panel keeps the clicks inside it; one outside closes it.
ClickPanel == /\ Left /\ menu.qs
              /\ \E inside \in BOOLEAN : menu' = [menu EXCEPT !.qs = inside]
              /\ UNCHANGED <<wins, desk, dock, snap, opened>>

ShowDesktop == wins' = [i \in 1..Len(wins) |->
                          IF i \in OnDesk THEN [wins[i] EXCEPT !.min = TRUE] ELSE wins[i]]

\* The context menu goes, whatever is clicked.
ClickCtx ==
    /\ Left /\ ~menu.qs /\ menu.ctx
    /\ menu' = [menu EXCEPT !.ctx = FALSE]
    /\ \/ \E i \in Pinnable : Open(i)
       \/ ShowDesktop /\ UNCHANGED opened
       \/ wins' = Retained({w \in ToSet(wins) : w.desk # desk}) /\ UNCHANGED opened
       \/ UNCHANGED <<wins, opened>>
    /\ UNCHANGED <<desk, dock, snap>>

Pin(i) == dock' = (IF i \in Pinnable /\ Len(dock) < MAX_DOCK /\ i \notin ToSet(dock)
                     THEN Append(dock, i) ELSE dock)

\* The context menu of an item of the start menu: run it, pin it, or nothing.
ClickItemMenu ==
    /\ Left /\ ~menu.qs /\ ~menu.ctx /\ menu.item # "none"
    /\ \/ /\ Open(menu.item)
          /\ menu' = [menu EXCEPT !.item = "none", !.start = FALSE]
          /\ UNCHANGED dock
       \/ /\ Pin(menu.item)
          /\ menu' = [menu EXCEPT !.item = "none"]
          /\ UNCHANGED <<wins, opened>>
       \/ /\ menu' = [menu EXCEPT !.item = "none"]
          /\ UNCHANGED <<wins, dock, opened>>
    /\ UNCHANGED <<desk, snap>>

\* The start menu: launch an item, open a category, or close it.
ClickStart ==
    /\ Left /\ ~menu.qs /\ ~menu.ctx /\ menu.item = "none" /\ menu.start
    /\ \/ (\E i \in Items : Open(i)) /\ menu' = [menu EXCEPT !.start = FALSE]
       \/ UNCHANGED <<wins, opened, menu>>
       \/ menu' = [menu EXCEPT !.start = FALSE] /\ UNCHANGED <<wins, opened>>
    /\ UNCHANGED <<desk, dock, snap>>

\* "Shut Down": the loop is never resumed.
ShutDown == /\ pc = "mouse" /\ ~input.right /\ input.left
            /\ ~menu.qs /\ ~menu.ctx /\ menu.item = "none" /\ menu.start
            /\ pc' = "off"
            /\ UNCHANGED <<screen, btn, listed, input, pace, events>>

NoMenu == ~menu.qs /\ ~menu.ctx /\ menu.item = "none" /\ ~menu.start

ClickDingir == /\ Left /\ NoMenu
               /\ menu' = [menu EXCEPT !.start = TRUE]
               /\ UNCHANGED <<wins, desk, dock, snap, opened>>

\* Seeded fault: the window changes places with the last one.
ClickWindowSwapped(hi, part) ==
    LET raised == IF hi # Top THEN [wins EXCEPT ![hi] = wins[Len(wins)], ![Len(wins)] = wins[hi]] ELSE wins
        last == Len(raised)
        w == raised[last] IN
    /\ Left /\ NoMenu
    /\ hi \in OnDesk /\ ~wins[hi].min
    /\ part = "corner" => ~w.min /\ ~w.max
    /\ wins' = (CASE part = "close" -> RemoveAt(raised, last)
                  [] part = "min" -> [raised EXCEPT ![last].min = TRUE]
                  [] part = "max" -> [raised EXCEPT ![last].max = ~@]
                  [] part = "corner" -> [raised EXCEPT ![last].grab = "resize"]
                  [] part = "title" -> [raised EXCEPT ![last].grab = "drag"]
                  [] part = "body" -> raised)
    /\ UNCHANGED <<desk, menu, dock, snap, opened>>

\* A click on window hi, the topmost under the pointer: it is raised unless it
\* is the last of its desktop already, and the click then goes to the part that
\* the last window of the list has under the pointer.
ClickWindow(hi, part) ==
    LET raised == IF hi # Top THEN Append(RemoveAt(wins, hi), wins[hi]) ELSE wins
        last == Len(raised)
        w == raised[last] IN
    /\ Left /\ NoMenu
    /\ hi \in OnDesk /\ ~wins[hi].min
    /\ part = "corner" => ~w.min /\ ~w.max
    /\ wins' = (CASE part = "close" -> RemoveAt(raised, last)
                  [] part = "min" -> [raised EXCEPT ![last].min = TRUE]
                  [] part = "max" -> [raised EXCEPT ![last].max = ~@]
                  [] part = "corner" -> [raised EXCEPT ![last].grab = "resize"]
                  [] part = "title" -> [raised EXCEPT ![last].grab = "drag"]
                  [] part = "body" -> raised)
    /\ UNCHANGED <<desk, menu, dock, snap, opened>>

\* No window under the pointer: the show-desktop corner, a task button, an icon
\* of the dock, or nothing.
ClickBare ==
    /\ Left /\ NoMenu
    /\ \/ ShowDesktop /\ UNCHANGED opened
       \/ /\ \E i \in OnDesk :
               wins' = Append(RemoveAt(wins, i), [wins[i] EXCEPT !.min = FALSE])
          /\ UNCHANGED opened
       \/ \E i \in ToSet(dock) : Open(i)
       \/ UNCHANGED <<wins, opened>>
    /\ UNCHANGED <<desk, menu, dock, snap>>

------------------------------------------------------------------------------
(* The drag.  A window that is resized and dragged at once is dragged.        *)
Grabbed == {i \in 1..Len(wins) : wins[i].grab # "none"}
Dragged == {i \in 1..Len(wins) : wins[i].grab = "drag"}

EndFrame == /\ pc = "mouse" /\ ~input.right /\ ~input.left
            /\ pc' = "poll"
            /\ UNCHANGED <<desk, menu, dock, btn, listed, kill, asked, input, pace, opened, events>>

\* The button is down: the preview follows the pointer of the topmost drag.
Drag == /\ EndFrame /\ btn
        /\ IF Grabbed # {} /\ Highest(Grabbed) \in Dragged
             THEN snap' \in {"none", "half", "top"} ELSE UNCHANGED snap
        /\ UNCHANGED wins

\* The button is up: the preview is applied to the first window that is being
\* dragged, and every window is let go.
Release ==
    /\ EndFrame /\ ~btn
    /\ LET first == CHOOSE i \in Dragged : \A j \in Dragged : i <= j
           toggled == Dragged # {} /\ snap = "top" IN
       wins' = [i \in 1..Len(wins) |->
                  [wins[i] EXCEPT !.grab = "none",
                                  !.max = IF toggled /\ i = first THEN ~@ ELSE @]]
    /\ snap' = (IF Dragged # {} THEN "none" ELSE snap)

Frame == \/ BeginFrame
         \/ OpenKey \/ CloseKey \/ QuitKey
         \/ \E k \in KeySet : MonitorKey(k)
         \/ Retain \/ RightClick
         \/ \E d \in Desktops : ClickDot(d)
         \/ ClickTray \/ ClickPanel \/ ClickCtx \/ ClickItemMenu \/ ClickStart \/ ShutDown
         \/ ClickDingir \/ ClickBare
         \/ \E hi \in 1..Len(wins), part \in Parts : ClickWindow(hi, part)
         \/ Drag \/ Release

Next == Frame

\* The loop runs as long as the desktop is on.
Spec == Init /\ [][Next]_vars /\ WF_vars(Frame)

------------------------------------------------------------------------------
Ids(ws) == {ws[i].id : i \in 1..Len(ws)}

TypeOK ==
    /\ wins \in Seq([id : 0..MaxWindows, desk : Desktops, min : BOOLEAN, max : BOOLEAN,
                     grab : {"none", "drag", "resize"}, monitor : BOOLEAN, sel : 0..(MaxListed - 1),
                     quit : BOOLEAN])
    /\ Cardinality(Ids(wins)) = Len(wins)
    /\ desk \in Desktops
    /\ menu \in [start : BOOLEAN, ctx : BOOLEAN, item : Items \cup {"none"}, qs : BOOLEAN]
    /\ ToSet(dock) \subseteq Pinnable /\ Len(dock) <= MAX_DOCK
    /\ snap \in {"none", "half", "top"} /\ btn \in BOOLEAN /\ kill \in -1..(MaxListed - 1)
    /\ pc \in {"poll", "keys", "mouse", "off"}

\* Two menus are never open for the same click: the chain of tests that gives a
\* click to the first one would leave the other one open and out of reach.
MenusExclusive ==
    /\ ~(menu.start /\ menu.ctx) /\ ~(menu.start /\ menu.qs)
    /\ ~(menu.item # "none" /\ menu.ctx)

\* A window follows the pointer only while the button is held, whatever was
\* closed, opened or switched to in between; and if clicks come slowly, only
\* one window does.
GrabFollowsButton ==
    /\ pc = "poll" /\ ~btn => Grabbed = {}
    /\ pace = "slow" => Cardinality(Grabbed) <= 1

\* A force-quit is asked for by a position in a list and served in the next
\* frame by that position: if events come slowly it closes the window that the
\* list showed there, and nothing else.
HitsChosen == pc = "poll" /\ pace = "slow" =>
                  Ids(wins) \ Ids(wins') = IF kill < 0 THEN {} ELSE {asked} \ {-1}
KillHitsChosen == [][HitsChosen]_vars

\* The windows keep their order on the screen: one that comes to lie above
\* another lies above all.
TopOvertakes == \A i, j \in 1..Len(wins), k, l \in 1..Len(wins') :
                    i < j /\ wins'[k].id = wins[i].id /\ wins'[l].id = wins[j].id /\ l < k
                      => k = Len(wins')
OnlyRaisedOvertakes == [][TopOvertakes]_vars

\* A program that asked to be closed is closed, by the frame that it asked in.
Quits == \E w \in ToSet(wins) : w.quit
QuitComes == Quits ~> ~Quits

\* "Only hit-test windows on the current virtual desktop": a click changes no
\* window of another desktop.
OtherDesktopsKept ==
    [][pc = "mouse" /\ input.left =>
         \A i \in 1..Len(wins) : wins[i].desk # desk =>
             \E k \in 1..Len(wins') : wins'[k] = wins[i]]_vars
==============================================================================
