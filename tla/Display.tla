------------------------------- MODULE Display -------------------------------
(* The way of the desktop's picture to the monitor: the render pass of its    *)
(* main loop, the back buffer (fb.rs), and either the boot framebuffer or the *)
(* virtio GPU with its control queue (virtio_gpu.rs), whose commands may take *)
(* longer than the driver waits.  The screen is a column of rows: wallpaper,   *)
(* a terminal window, a menu, the mouse pointer.                              *)
EXTENDS Integers, Sequences, FiniteSets

CONSTANTS Height, CURSOR_H, WinH,
          WinAt, PointerAt,  \* rows where window and pointer can be
          MenuRows,
          Slack,     \* what the drag handler adds to the window's rows
          MaxFaults  \* bound: commands that time out or fail

VARIABLES boot,    \* chosen at boot: device, virgltest, gpudisplay, windowed mode
          mode,    \* what the kernel or the desktop is doing
          todo,    \* commands that it still has to submit
          step,    \* of submit: "idle", "built", "wait"
          owed,    \* AVAIL_IDX less the used index
          req,     \* the request buffer
          resp,    \* the type in the response buffer, the request it answers
          READY,
          surface, \* what the device has made of the scanout resource
          objects, \* the 3D objects it keeps
          host,    \* the rows of its surface
          monitor,
          real,    \* the rows of the framebuffer or of the GPU's backing
          back,    \* the back buffer
          cbuf,    \* what is under the pointer
          bg_cache,  \* the wallpaper of the cached background
          scene,   \* where the window is, its text, menu, wallpaper, pointer
          kind,    \* how the last frame was presented
          right,   \* rows that the monitor must show as they are
          faults

deviceVars == <<surface, objects, host, monitor>>
desktopVars == <<real, back, cbuf, bg_cache, scene, kind>>
vars == <<boot, mode, todo, step, owed, req, resp, READY, deviceVars, desktopVars, right, faults>>

Rows == 0..(Height - 1)
Band(y0, y1) == {r \in Rows : y0 <= r /\ r < y1}
Cmd(c, y, h) == [cmd |-> c, y |-> y, h |-> h]
Plain(c) == Cmd(c, 0, 0)
Zeroed == Plain("zero")

\* The commands of bring_up (virgl_probe) and of scanout_selftest, in order.
Probe == <<Plain("capset_info"), Plain("capset"), Plain("ctx"), Plain("create_3d"),
           Plain("attach_3d"), Plain("detach_3d"), Plain("unref_3d"), Plain("destroy_ctx")>>
Scanout == <<Plain("display_info"), Plain("create_2d"), Plain("attach"), Plain("scanout"),
             Cmd("transfer", 0, Height), Cmd("flush", 0, Height)>>

Lower(a, b) == IF a < b THEN a ELSE b
Higher(a, b) == IF a < b THEN b ELSE a

Black == [what |-> "black", cursor |-> FALSE]

\* init: without a device there is only the boot framebuffer.  With 3D and
\* `virgltest' the probe comes first.
Init ==
    /\ boot \in [gpu : BOOLEAN, virgl : BOOLEAN, gpudisplay : BOOLEAN, windowed : BOOLEAN]
    /\ boot.virgl \/ boot.gpudisplay => boot.gpu
    \* bounds: windowed mode without the GPU, the 3D probe and gpudisplay together
    /\ boot.windowed => ~boot.gpu
    /\ boot.virgl = boot.gpudisplay
    /\ mode = IF ~boot.gpu THEN "boot" ELSE IF boot.virgl THEN "probe" ELSE "scanout"
    /\ todo = CASE mode = "boot" -> <<>> [] mode = "probe" -> Probe [] OTHER -> Scanout
    /\ step = "idle" /\ owed = 0 /\ req = Zeroed /\ resp = [type |-> "none", to |-> Zeroed]
    /\ READY = FALSE /\ surface = {} /\ objects = {}
    /\ host = [r \in Rows |-> Black] /\ monitor = host /\ real = host
    /\ back = host
    /\ cbuf = [r \in Rows |-> "black"] /\ bg_cache = 0
    /\ scene = [win |-> Height, text |-> 0, menu |-> FALSE, wall |-> 0, cy |-> 0]
    /\ kind = "none" /\ right = {} /\ faults = 0

------------------------------------------------------------------------------
(* The control queue.                                                         *)

\* What each command is answered with.
Answer(c) == CASE c = "display_info" -> "info" [] c = "capset_info" -> "capset_info"
               [] c = "capset" -> "capset" [] OTHER -> "nodata"

\* The request buffer is cleared and written; query_display and virgl_probe
\* clear the response buffer too, hdr does not.
ClearsAnswer(c) == mode = "probe" \/ c = "display_info"
Prepare ==
    /\ step = "idle" /\ todo # <<>>
    /\ req' = Zeroed
    /\ resp' = IF ClearsAnswer(Head(todo).cmd) THEN [type |-> "none", to |-> Zeroed] ELSE resp
    /\ step' = "built"
    /\ UNCHANGED <<boot, mode, todo, owed, READY, deviceVars, desktopVars, right, faults>>

\* submit: every entry of the ring names the same two descriptors, so the
\* device finds in the request buffer whatever is there when it looks.
Submit ==
    /\ step = "built"
    /\ req' = Head(todo) /\ owed' = owed + 1 /\ step' = "wait"
    /\ UNCHANGED <<boot, mode, todo, resp, READY, deviceVars, desktopVars, right, faults>>

\* The wait ends when used.idx has reached AVAIL_IDX.
Answered == owed = 0

\* What follows a command: a failure ends the probe, or the bring-up of the
\* scanout; a frame goes on whatever was answered.
Fine == resp.type = Answer(Head(todo).cmd)
ProbeGoesOn == Fine \/ Head(todo).cmd \in {"detach_3d", "unref_3d", "destroy_ctx"}
Goes(left) ==
    /\ step' = "idle"
    /\ todo' = IF mode = "probe" /\ left = <<>> THEN Scanout ELSE left
    /\ mode' = CASE left # <<>> -> mode
                 [] mode = "probe" -> "scanout"
                 [] mode = "scanout" -> "boot"
                 [] OTHER -> "desktop"
    /\ READY' = (READY \/ (mode = "scanout" /\ left = <<>>))
Continue ==
    /\ Goes(IF (mode = "probe" /\ ~ProbeGoesOn) \/ (mode = "scanout" /\ ~Fine) THEN <<>> ELSE Tail(todo))
    \* query_display has the geometry, scanout_selftest paints three bands.
    /\ real' = IF Head(todo).cmd = "display_info" /\ Fine
               THEN [r \in Rows |-> [Black EXCEPT !.what = "triad"]] ELSE real
    /\ UNCHANGED <<boot, owed, req, resp, deviceVars, back, cbuf, bg_cache, scene, kind>>

Return ==
    /\ step = "wait" /\ Answered
    /\ Continue
    /\ UNCHANGED <<right, faults>>

\* After fifty million spins the driver goes on as if it had been answered.
Timeout ==
    /\ step = "wait" /\ ~Answered /\ faults < MaxFaults
    /\ faults' = faults + 1
    /\ right' = {}
    /\ Continue

\* The device: what it makes of the request that it finds.
Accepts(c) ==
    CASE c = "create_2d" -> "made" \notin surface
      [] c = "attach" -> "made" \in surface /\ "backed" \notin surface
      [] c \in {"scanout", "flush"} -> "made" \in surface
      [] c = "transfer" -> "backed" \in surface
      [] c = "zero" -> FALSE
      [] c \in {"create_3d", "destroy_ctx"} -> "ctx" \in objects
      [] c = "attach_3d" -> {"ctx", "res"} \subseteq objects
      [] c = "unref_3d" -> "res" \in objects
      [] OTHER -> TRUE

Takes(q) ==
    /\ surface' = surface \cup (CASE q.cmd = "create_2d" -> {"made"} [] q.cmd = "attach" -> {"backed"}
                                  [] q.cmd = "scanout" -> {"shown"} [] OTHER -> {})
    /\ objects' = CASE q.cmd = "ctx" -> objects \cup {"ctx"}
                    [] q.cmd = "create_3d" -> objects \cup {"res"}
                    [] q.cmd = "unref_3d" -> objects \ {"res"}
                    [] q.cmd = "destroy_ctx" -> objects \ {"ctx"}
                    [] OTHER -> objects
    /\ host' = IF q.cmd = "transfer"
               THEN [r \in Rows |-> IF r \in Band(q.y, q.y + q.h) THEN real[r] ELSE host[r]] ELSE host
    \* without gpudisplay the GPU has a monitor of its own
    /\ monitor' = IF q.cmd = "flush" /\ "shown" \in surface /\ boot.gpudisplay
                  THEN [r \in Rows |-> IF r \in Band(q.y, q.y + q.h) THEN host[r] ELSE monitor[r]]
                  ELSE monitor
    /\ resp' = [type |-> Answer(q.cmd), to |-> q]

Device ==
    /\ owed > 0 /\ owed' = owed - 1
    /\ \/ Accepts(req.cmd) /\ Takes(req) /\ faults' = faults
       \/ /\ ~Accepts(req.cmd) \/ (faults < MaxFaults /\ mode \in {"probe", "scanout"})
          /\ faults' = IF Accepts(req.cmd) THEN faults + 1 ELSE faults
          /\ resp' = [type |-> "error", to |-> req]
          /\ UNCHANGED deviceVars
    /\ UNCHANGED <<boot, mode, todo, step, req, READY, desktopVars, right>>

------------------------------------------------------------------------------
(* The desktop.                                                               *)

\* GPU_DISPLAY and is_ready: sys_fb_query gives the GPU's backing, sys_gpu_flush
\* does something.  Framebuffer::open fails if the GPU's geometry is unknown.
OnGpu == boot.gpudisplay /\ READY
Known == \E r \in Rows : real[r].what # "black"

Open ==
    /\ mode = "boot"
    /\ IF OnGpu /\ ~Known
       THEN mode' = "none" /\ UNCHANGED <<scene, monitor, kind>>
       ELSE /\ mode' = "desktop" /\ kind' = "none"
            /\ \E y \in WinAt : scene' = [scene EXCEPT !.win = y]
            \* the boot framebuffer is the monitor's memory
            /\ monitor' = IF OnGpu THEN monitor ELSE real
    /\ UNCHANGED <<boot, todo, step, owed, req, resp, READY, surface, objects, host, real, back, cbuf, bg_cache,
                   right, faults>>

\* What the scene has in a row; the rows that the pointer takes.
What(s, r) == CASE s.menu /\ r \in MenuRows -> "menu"
                [] r \in s.win..(s.win + WinH - 1) -> IF s.text = 0 THEN "text 0" ELSE "text 1"
                [] OTHER -> IF s.wall = 0 THEN "wall 0" ELSE "wall 1"
PointerRows(cy) == Rows \cap ((cy - 1)..(cy + CURSOR_H))

\* restore_cursor_bg, then a recomposite over the background, which is drawn
\* only if it was invalidated; or the terminal with what lies over it.
Restored == [r \in Rows |-> IF r \in PointerRows(scene.cy) THEN cbuf[r] ELSE back[r].what]
Background(s, valid) == IF valid THEN bg_cache ELSE s.wall
Painted(s, valid, chrome, term) ==
    [r \in Rows |->
        IF chrome THEN What([s EXCEPT !.wall = Background(s, valid)], r)
        ELSE IF term /\ (r \in s.win..(s.win + WinH - 1) \/ (s.menu /\ r \in MenuRows)) THEN What(s, r)
        ELSE Restored[r]]

\* sys_gpu_flush and flush_rect: the rows are clipped, what the GPU answers to
\* the two commands is ignored.
FlushRect(y, h) ==
    IF OnGpu /\ y < Height /\ h > 0
    THEN /\ todo' = LET clipped == IF y + h > Height THEN Height - y ELSE h
                    IN <<Cmd("transfer", y, clipped), Cmd("flush", y, clipped)>>
         /\ mode' = "present"
    ELSE UNCHANGED <<todo, mode>>

\* present and present_rows, at full brightness.
PresentRows(y0, y1, b) ==
    LET now == [r \in Rows |-> IF r \in Band(y0, y1) THEN b[r] ELSE real[r]]
    IN /\ real' = now
       /\ monitor' = IF OnGpu THEN monitor ELSE now
       /\ FlushRect(y0, Lower(y1, Height) - y0)

\* The rows of a drag frame, and of one in which only the pointer moved.
DragBand(s) == <<Higher(Lower(scene.win, s.win) - Slack, 0),
                 Lower(Higher(scene.win, s.win) + WinH + Slack, Height)>>
\* Seeded fault: only the rows where the pointer is now.
PointerBandNow(s) == <<Higher(s.cy - 2, 0), Lower(s.cy + CURSOR_H + 4, Height)>>
PointerBand(s) == <<Higher(Lower(scene.cy, s.cy) - 2, 0),
                    Lower(Higher(scene.cy, s.cy) + CURSOR_H + 4, Height)>>
Presented(k, s) == CASE k = "drag" -> DragBand(s) [] k = "pointer" -> PointerBand(s) [] OTHER -> <<0, Height>>

Pixels(s, what, r) == [what |-> what, cursor |-> r \in PointerRows(s.cy)]
Wanted(s, r) == Pixels(s, What(s, r), r)

\* The render pass, if there is something to draw: a window was dragged or the
\* scene has changed (chrome), a terminal has output, the top bar is due after
\* 200 ticks, the pointer has moved.
Frame(s, drag, valid, chrome, term, due) ==
    LET painted == Painted(s, valid, chrome, term)
        k == CASE drag /\ ~term /\ ~due /\ ~boot.windowed -> "drag"
               [] ~chrome /\ ~term /\ ~due /\ ~boot.windowed -> "pointer"
               [] OTHER -> "full"
        y == Presented(k, s)
    IN /\ chrome \/ term \/ due \/ s.cy # scene.cy
       /\ scene' = s /\ kind' = k
       /\ back' = [r \in Rows |-> Pixels(s, painted[r], r)]
       /\ cbuf' = painted
       /\ bg_cache' = IF chrome THEN Background(s, valid) ELSE bg_cache
       /\ PresentRows(y[1], y[2], back')
       /\ right' = Band(y[1], y[2]) \cup {r \in right : Wanted(s, r) = Wanted(scene, r)}
       /\ UNCHANGED <<boot, step, owed, req, resp, READY, surface, objects, host, faults>>

\* One turn of the main loop: it takes the mouse and the keys, among them a menu
\* that opens and, when it closes, gives the desk another wallpaper.
Turn ==
    /\ mode = "desktop"
    /\ \E cy \in PointerAt, win \in WinAt, drag \in BOOLEAN, other \in BOOLEAN,
          term \in BOOLEAN, due \in BOOLEAN :
          LET first == kind = "none"
              paper == other /\ scene.menu
          IN /\ win # scene.win => drag
             /\ drag => ~first
             /\ Frame([win |-> win, cy |-> cy,
                       text |-> IF term THEN 1 - scene.text ELSE scene.text,
                       menu |-> (scene.menu # other),
                       wall |-> IF paper THEN 1 - scene.wall ELSE scene.wall],
                      drag, ~first /\ ~paper, drag \/ first \/ other, term, due)

Next == \/ Prepare \/ Submit \/ Return \/ Timeout \/ Device
        \/ Open \/ Turn

Spec == Init /\ [][Next]_vars

\* Bound: a display on which a command has failed or timed out is followed with
\* one text in the window, through full frames, until one of them has mended it.
Followed == faults > 0 => scene.text = 0 /\ kind \in {"none", "full"}
                          /\ (mode = "desktop" => right # Rows)

------------------------------------------------------------------------------
Whats == {"black", "triad", "menu", "text 0", "text 1", "wall 0", "wall 1"}
Pictures == [Rows -> [what : Whats, cursor : BOOLEAN]]

TypeOK ==
    /\ mode \in {"probe", "scanout", "boot", "none", "desktop", "present"}
    /\ step \in {"idle", "built", "wait"} /\ owed \in 0..(MaxFaults + 1) /\ READY \in BOOLEAN
    /\ surface \subseteq {"made", "backed", "shown"} /\ objects \subseteq {"ctx", "res"}
    /\ {host, monitor, real} \subseteq Pictures
    /\ cbuf \in [Rows -> Whats] /\ right \subseteq Rows /\ faults \in 0..MaxFaults
    /\ kind \in {"none", "drag", "pointer", "full"}

\* When submit finds its command answered, the response is to that command, also
\* after commands that it had given up on (virtio_gpu.rs:495-512).
AnswersMatch == step = "wait" /\ Answered => resp.to = Head(todo)

\* "The backbuffer is always fully correct" (main.rs:3525): at the end of every
\* frame it has the scene, and one pointer.
BackRight == kind # "none" => \A r \in Rows : back[r] = Wanted(scene, r) /\ cbuf[r] = What(scene, r)

\* What was presented is on the monitor, from the framebuffer or through the GPU
\* (if its bring-up worked), also after commands of earlier frames timed out.
Works == OnGpu => {"backed", "shown"} \subseteq surface
ScreenShows == mode = "desktop" /\ Works => \A r \in right : monitor[r] = Wanted(scene, r)

\* Only a frame that drags a window may leave rows behind (main.rs:3525-3526):
\* a full one leaves none, and the pointer leaves no trail.
NoTrail == mode = "desktop" /\ back' # back =>
               /\ kind' = "full" => right' = Rows
               /\ kind' = "pointer" => right \subseteq right'
==============================================================================
