-------------------------------- MODULE Input --------------------------------
(* From a key to the focused window: the keyboard interrupt (idt.rs), USB     *)
(* reports (usb.rs), the mouse interrupt (ps2mouse.rs), the event ring        *)
(* (input.rs), the Linux key ring (linux.rs), the desktop's poll (input.rs of *)
(* desktop-metal) and its parser of escape sequences (ansi.rs).               *)
EXTENDS Integers, Sequences, SequencesExt

CONSTANTS Letters,     \* keys that type a letter, as strings
          ThirdLevel,  \* those that AltGr gives another character
          Keyboards,   \* the keyboards of a run: [usb, and the keys that are pressed on it]
          Moves,       \* of the mouse
          RING_SIZE,   \* slots of the event ring, one of them unused
          LKEYS_SZ,    \* slots of the Linux key ring, one of them unused
          KBD_BUF_SIZE,\* slots of the buffer of sys_getkey, one of them unused
          FRAME,       \* bytes that one poll keeps
          WIDTH,       \* of the screen
          MaxEvents    \* bound: keys, mouse packets and mode switches

VARIABLES wire,        \* scancodes that have not raised their interrupt yet
          keyboard,    \* the keyboard of the machine
          held,        \* keys that are down, and so what the last USB report held
          lock,        \* Caps Lock, as the user sees it
          flags,       \* E0_PREFIX, SHIFT_DOWN, ALTGR_DOWN, CTRL_DOWN, CAPS_LOCK
          ring,        \* the event ring
          kbd,         \* KBD_BUF
          lkeys,       \* LKEYS
          preempt,     \* PREEMPTIVE_LINUX
          abi, raw,    \* LINUX_ABI, RAW_KBD
          parser,      \* state of the AnsiParser
          got,         \* keys the focused window has received
          pressed,     \* keys pressed for it
          mouse,       \* position and button in the driver, last button sent
          pointer,     \* x, button and press edge in the desktop
          edge,        \* a press was sent since the last poll
          lost,        \* a ring or a poll had no room
          damaged,     \* keys that had arrived when that last happened
          odd,         \* a key that the window is not told of, see Unheard
          events       \* how many there were

vars == <<wire, keyboard, held, lock, flags, ring, kbd, lkeys, preempt, abi, raw, parser,
          got, pressed, mouse, pointer, edge, lost, damaged, odd, events>>

Shifts == {"LShift", "RShift"}
Modifiers == Shifts \cup {"Ctrl", "RCtrl", "AltGr", "Caps"}
Extended == {"Up", "Home", "Del", "PgUp", "RCtrl", "AltGr"}

\* What a special key sends from the PS/2 keyboard and from the USB keyboard.
Sequence == [Up |-> <<"ESC", "[", "A">>, Home |-> <<"ESC", "[", "H">>,
             Del |-> <<"ESC", "[", "3", "~">>]
hid_special == [Up |-> <<"ESC", "[", "A">>, Home |-> <<"ESC", "[", "H">>,
                Del |-> <<"DEL">>, PgUp |-> <<"ESC", "[", "5", "~">>,
                F1 |-> <<"ESC", "[", "[", "A">>]

\* sc_to_char with the control key: the byte that a letter types.
Char(k, altgr, ctrl, upper) ==
    CASE altgr /\ k \in ThirdLevel -> "G" \o k
      [] ~(altgr /\ k \in ThirdLevel) /\ ctrl -> "^" \o k
      [] ~(altgr /\ k \in ThirdLevel) /\ ~ctrl /\ upper -> "S" \o k
      [] ~(altgr /\ k \in ThirdLevel) /\ ~ctrl /\ ~upper -> k
\* What the focused window should be told of a key, given what else is down.
Meant(k) ==
    IF k \in Letters
    THEN Char(k, "AltGr" \in held, held \cap {"Ctrl", "RCtrl"} # {}, (held \cap Shifts # {}) # lock)
    ELSE k
\* What it is not told of.  The interrupt ignores the right Ctrl and some keys, and
\* has one flag for two Shift keys.  A USB report gives only its Shift keys a
\* meaning, and some keys send what the parser takes for something else.
Unheard(k) ==
    IF keyboard.usb
    THEN k \in {"PgUp", "F1", "Del"} \/ (k \in Letters /\ (lock \/ held \cap (Modifiers \ Shifts) # {}))
    ELSE \/ k \in {"PgUp", "F1"}
         \/ (k \in Letters /\ "RCtrl" \in held)
         \/ (k \in Shifts /\ Shifts \subseteq held)

\* Pushes into a ring of the given size; what does not fit is dropped.
Room(q, size) == size - 1 - Len(q)
\* Seeded fault: the ring is not asked whether it is full.
PushedAll(q, s, size) == q \o s

Pushed(q, s, size) == q \o SubSeq(s, 1, IF Len(s) <= Room(q, size) THEN Len(s) ELSE Room(q, size))
KeyEvents(s) == [i \in 1..Len(s) |-> [type |-> "key", byte |-> s[i]]]

Init == /\ wire = <<>> /\ keyboard \in Keyboards /\ held = {} /\ lock = FALSE
        /\ flags = [e0 |-> FALSE, shift |-> FALSE, altgr |-> FALSE, ctrl |-> FALSE, caps |-> FALSE]
        /\ ring = <<>> /\ kbd = <<>> /\ lkeys = <<>>
        /\ preempt = FALSE /\ abi = FALSE /\ raw = FALSE
        /\ parser = "normal" /\ got = <<>> /\ pressed = <<>>
        /\ mouse = [x |-> WIDTH \div 2, sent |-> FALSE]
        /\ pointer = [x |-> WIDTH \div 2, btn |-> FALSE, pressed |-> FALSE]
        /\ edge = FALSE /\ lost = FALSE /\ damaged = 0 /\ odd = FALSE /\ events = 0

person == <<keyboard, held, lock, pressed>>
driver == <<flags, kbd, lkeys>>
screen == <<parser, got, pointer>>
mode == <<preempt, abi, raw>>

\* A key of either keyboard goes down or up.
Toggled(k) ==
    /\ k \in keyboard.keys /\ events < MaxEvents /\ events' = events + 1
    /\ held' = IF k \in held THEN held \ {k} ELSE held \cup {k}
    /\ lock' = ((k = "Caps" /\ k \notin held) # lock)
    /\ pressed' = IF k \in held \cup Modifiers THEN pressed ELSE Append(pressed, Meant(k))
    /\ odd' = (odd \/ ((k \notin held \/ k \in Shifts) /\ Unheard(k)))
    /\ UNCHANGED keyboard

\* The PS/2 keyboard sends a scancode for it.
E0 == [key |-> "E0", dir |-> "make"]
Code(k, dir) == (IF k \in Extended THEN <<E0>> ELSE <<>>) \o <<[key |-> k, dir |-> dir]>>
Ps2Key(k) ==
    /\ ~keyboard.usb
    /\ Toggled(k)
    /\ wire' = wire \o Code(k, IF k \in held THEN "break" ELSE "make")
    /\ UNCHANGED <<driver, ring, screen, mode, mouse, edge, lost, damaged>>
\* Keys that have left the keyboard.
Arrived(w) == Len(pressed) - Len(SelectSeq(w, LAMBDA c : c.dir = "make" /\ c.key \notin Modifiers \cup {"E0"}))

\* push_key of each byte of s, with the rings that also take it.
Deliver(s, others) ==
    /\ ring' = Pushed(ring, KeyEvents(s), RING_SIZE)
    /\ kbd' = IF others THEN Pushed(kbd, s, KBD_BUF_SIZE) ELSE kbd
    /\ lkeys' = IF others /\ abi THEN Pushed(lkeys, s, LKEYS_SZ) ELSE lkeys
    /\ IF Len(s) > Room(ring, RING_SIZE)
       THEN lost' = TRUE /\ damaged' = Arrived(Tail(wire))
       ELSE UNCHANGED <<lost, damaged>>
Nothing == UNCHANGED <<ring, kbd, lkeys, lost, damaged>>

\* irq_keyboard
ToDesktop == ~preempt /\ ~(abi /\ raw)
ToLinux(sc) == /\ lkeys' = Pushed(lkeys, <<sc>>, LKEYS_SZ)
               /\ UNCHANGED <<flags, ring, kbd, lost, damaged>>
Prefix == flags' = [flags EXCEPT !.e0 = TRUE] /\ Nothing
\* Seeded fault: the release of an extended key keeps the prefix.
ExtendedKeyHeld(sc) ==
    /\ flags' = [flags EXCEPT !.e0 = (sc.dir = "break"),
                              !.altgr = IF sc.key = "AltGr" THEN sc.dir = "make" ELSE @]
    /\ IF sc.dir = "make" /\ sc.key \in DOMAIN Sequence
       THEN Deliver(Sequence[sc.key], sc.key = "Up")
       ELSE Nothing

ExtendedKey(sc) ==
    /\ flags' = [flags EXCEPT !.e0 = FALSE,
                              !.altgr = IF sc.key = "AltGr" THEN sc.dir = "make" ELSE @]
    /\ IF sc.dir = "make" /\ sc.key \in DOMAIN Sequence
       THEN Deliver(Sequence[sc.key], sc.key = "Up")
       ELSE Nothing
PlainKey(sc) ==
    /\ flags' = [flags EXCEPT !.shift = IF sc.key \in Shifts THEN sc.dir = "make" ELSE @,
                              !.ctrl = IF sc.key = "Ctrl" THEN sc.dir = "make" ELSE @,
                              !.caps = IF sc.key = "Caps" /\ sc.dir = "make" THEN ~@ ELSE @]
    /\ CASE sc.dir = "make" /\ sc.key = "Back" -> Deliver(<<"BS">>, TRUE)
         [] sc.dir = "make" /\ sc.key \in Letters ->
              Deliver(<<Char(sc.key, flags.altgr, flags.ctrl, flags.shift # flags.caps)>>, TRUE)
         [] OTHER -> Nothing
Irq ==
    /\ wire # <<>>
    /\ wire' = Tail(wire)
    /\ LET sc == Head(wire) IN
       CASE ~ToDesktop -> ToLinux(sc)
         [] ToDesktop /\ sc = E0 -> Prefix
         [] ToDesktop /\ sc # E0 /\ flags.e0 -> ExtendedKey(sc)
         [] ToDesktop /\ sc # E0 /\ ~flags.e0 -> PlainKey(sc)
    /\ odd' = (odd \/ ~ToDesktop)
    /\ UNCHANGED <<person, screen, mode, mouse, edge, events>>

\* decode_kbd_report: what is in this report and was not in the one before.  The
\* Linux modes are not asked.
Report(k) == CASE k \in DOMAIN hid_special -> hid_special[k]
               [] k \in Letters -> <<Char(k, FALSE, FALSE, held' \cap Shifts # {})>>
               [] k = "Back" -> <<"BS">>
               [] k \in Modifiers -> <<>>
UsbReport(k) ==
    /\ keyboard.usb
    /\ Toggled(k)
    /\ LET s == IF k \in held THEN <<>> ELSE Report(k) IN
       /\ ring' = Pushed(ring, KeyEvents(s), RING_SIZE)
       /\ IF Len(s) > Room(ring, RING_SIZE)
          THEN lost' = TRUE /\ damaged' = Len(pressed')
          ELSE UNCHANGED <<lost, damaged>>
    /\ UNCHANGED <<wire, driver, screen, mode, mouse, edge>>

\* handle_irq of the third byte of a packet; overflow drops the packet.
Clamped(x) == CASE x < 0 -> 0 [] x \in 0..(WIDTH - 1) -> x [] x > WIDTH - 1 -> WIDTH - 1
accel(d) == IF d > 5 \/ d < -5 THEN d * 3 ELSE d * 2
Packet(d, b, overflow) ==
    /\ events < MaxEvents
    /\ events' = events + 1
    /\ LET x == Clamped(mouse.x + accel(d)) IN
       IF overflow
       THEN UNCHANGED <<mouse, ring, edge, lost>>
       ELSE /\ mouse' = [x |-> x, sent |-> b]
            /\ ring' = Pushed(ring, <<[type |-> "mouse", x |-> x, btn |-> b]>>, RING_SIZE)
            /\ edge' = (edge \/ (b /\ ~mouse.sent))
            /\ lost' = (lost \/ Room(ring, RING_SIZE) < 1)
    /\ UNCHANGED <<wire, person, driver, screen, mode, damaged, odd>>

\* AnsiParser::feed: the next state and the key, if one is complete.
feed(st, b) ==
    CASE st = "esc" -> <<IF b = "[" THEN "bracket" ELSE "normal", <<>>>>
      [] st = "bracket" /\ b = "A" -> <<"normal", <<"Up">>>>
      [] st = "bracket" /\ b = "H" -> <<"normal", <<"Home">>>>
      [] st = "bracket" /\ b = "3" -> <<"three", <<>>>>
      [] st = "bracket" /\ b \notin {"A", "H", "3"} -> <<"normal", <<>>>>
      [] st = "three" -> <<"normal", IF b = "~" THEN <<"Del">> ELSE <<>>>>
      [] st = "normal" /\ b = "ESC" -> <<"esc", <<>>>>
      [] st = "normal" /\ b # "ESC" -> <<"normal", <<IF b = "BS" THEN "Back" ELSE b>>>>
Parsed(st, bytes) ==
    FoldLeft(LAMBDA acc, b : LET f == feed(acc[1], b) IN <<f[1], acc[2] \o f[2]>>, <<st, <<>>>>, bytes)

\* A frame: poll drains the ring and keeps the first bytes; the edges of the
\* button are found against the button of the last frame.
Frame ==
    /\ ring # <<>> \/ pointer.pressed
    /\ LET typed == SelectSeq(ring, LAMBDA e : e.type = "key")
           moved == SelectSeq(ring, LAMBDA e : e.type = "mouse")
           kept == IF Len(typed) < FRAME THEN Len(typed) ELSE FRAME
           parsed == Parsed(parser, [i \in 1..kept |-> typed[i].byte])
           before(i) == IF i = 1 THEN pointer.btn ELSE moved[i - 1].btn IN
       /\ parser' = parsed[1] /\ got' = got \o parsed[2]
       /\ pointer' = [x |-> IF moved = <<>> THEN pointer.x ELSE Last(moved).x,
                      btn |-> IF moved = <<>> THEN pointer.btn ELSE Last(moved).btn,
                      pressed |-> \E i \in 1..Len(moved) : moved[i].btn /\ ~before(i)]
       /\ IF Len(typed) > FRAME
          THEN lost' = TRUE /\ damaged' = Arrived(wire)
          ELSE UNCHANGED <<lost, damaged>>
    /\ ring' = <<>> /\ edge' = FALSE
    /\ UNCHANGED <<wire, person, driver, mode, mouse, odd, events>>

\* sys_getkey, and read(0, ..) of a Linux program.
GetKey == /\ kbd # <<>> /\ kbd' = Tail(kbd)
          /\ UNCHANGED <<wire, person, flags, ring, lkeys, screen, mode, mouse, edge, lost, damaged,
                         odd, events>>
ReadStdin == /\ lkeys # <<>> /\ abi /\ lkeys' = <<>>
             /\ UNCHANGED <<wire, person, flags, ring, kbd, screen, mode, mouse, edge, lost, damaged,
                            odd, events>>

\* The scheduler's switches, the spawn of a Linux program and its KDSKBMODE.
Switch == /\ events < MaxEvents /\ events' = events + 1
          /\ UNCHANGED <<wire, person, driver, ring, screen, mouse, edge, lost, damaged, odd>>
SetLinux == Switch /\ abi' = ~abi /\ UNCHANGED <<preempt, raw>>
SpawnLinux == Switch /\ ~preempt /\ preempt' = TRUE /\ UNCHANGED <<abi, raw>>
SetRaw == Switch /\ abi /\ raw' = ~raw /\ UNCHANGED <<preempt, abi>>

Key == \E k \in keyboard.keys : Ps2Key(k) \/ UsbReport(k)
Mouse == \E d \in Moves, b, o \in BOOLEAN : Packet(d, b, o)
Next == Key \/ Mouse \/ Irq \/ Frame \/ GetKey \/ ReadStdin \/ SetLinux \/ SpawnLinux \/ SetRaw
Spec == Init /\ [][Next]_vars

------------------------------------------------------------------------------
TypeOK ==
    /\ Len(ring) < RING_SIZE /\ Len(kbd) < KBD_BUF_SIZE /\ Len(lkeys) < LKEYS_SZ
    /\ {lock, preempt, abi, raw, edge, lost, odd} \subseteq BOOLEAN
    /\ flags \in [{"e0", "shift", "altgr", "ctrl", "caps"} -> BOOLEAN]
    /\ parser \in {"normal", "esc", "bracket", "three"} /\ damaged \in 0..Len(pressed)
    /\ mouse.x \in 0..(WIDTH - 1) /\ pointer.x \in 0..(WIDTH - 1)

Quiet == ~odd /\ wire = <<>> /\ ring = <<>>
\* While nothing was dropped, no Linux program had the keyboard and no key was
\* pressed that the code does not hear, the focused window has been told of every
\* key once, in order and with the modifiers that were down.
KeysArrive == Quiet /\ ~lost => got = pressed /\ parser = "normal"

\* A ring or a poll without room may keep a part of a sequence, and the parser
\* waits for the rest of it.  That spoils one more key: the keys after it arrive
\* (letters apart that continue a sequence, "[" and "3").
LossIsLocal == Quiet => IsSuffix(SubSeq(pressed, damaged + 2, Len(pressed)), got)

\* A press between two frames is seen by the next one, the release notwithstanding.
PressesSeen == ring # <<>> /\ ring' = <<>> /\ ~lost' => pointer'.pressed = edge
==============================================================================
