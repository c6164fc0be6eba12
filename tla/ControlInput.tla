----------------------------- MODULE ControlInput -----------------------------
(***************************************************************************)
(* Remote control: what happens in the viewer's window is done on the      *)
(* host's machine.                                                         *)
(*                                                                         *)
(* The viewer's renderer thread draws a frame and then polls the window    *)
(* for events (GlWindow); each event becomes a CONTROL_INPUT message in    *)
(* send_buffer_, which the connection and the distributor pass on in       *)
(* order.  The host's NetworkManager starts one task for each message, and *)
(* the tasks run handle_input side by side.                                *)
(*                                                                         *)
(* Coordinates are in pixels of a window that is as large as the host's    *)
(* screen; cursor positions outside the window occur while a button is     *)
(* held.                                                                   *)
(***************************************************************************)
EXTENDS Integers, Sequences, FiniteSets, SequencesExt

CONSTANTS
    Keys,       \* GLFW key codes that may be pressed
    Buttons,    \* GLFW mouse buttons, counted from 0
    Positions,  \* cursor positions <<x, y>> in the window
    Width, Height,
    Somewhere,  \* a cursor position nobody chose
    Undefined,  \* contents of a new pixel buffer
    MaxEvents,  \* bound on the events of a run
    MaxFrames,  \* bound on the frames rendered
    MaxWindows, \* bound on the windows created
    MaxTasks    \* bound on the tasks in handle_input at once

ASSUME SizeAssumption == Width \in Nat \ {0} /\ Height \in Nat \ {0}
ASSUME PositionAssumption == Positions \subseteq Int \X Int
ASSUME ButtonsAssumption == Buttons \subseteq Nat
ASSUME BoundsAssumption == {MaxEvents, MaxFrames, MaxWindows, MaxTasks} \subseteq Nat

VARIABLES
    window,     \* the viewer's window: "none", "open", "failed", "crashed"
    windows,    \* windows created so far
    frame,      \* the frame last handed to render_frame, as <<window, number>>
    pbo,        \* contents of the pixel buffer pbo_id_
    shown,      \* contents of the texture the window shows
    events,     \* history: the events the callbacks were given
    wire,       \* CONTROL_INPUT messages on their way to the host
    tasks,      \* the host's tasks in handle_input: message and place
    cursor,     \* the host's cursor
    injected,   \* the host's key and button inputs, with the cursor they met
    overlapped, \* history: two tasks were in handle_input at once
    soiled      \* history: an uninitialized INPUT was not all zero

viewerVars == <<window, windows, frame, pbo, shown, events>>
hostVars == <<tasks, cursor, injected, overlapped, soiled>>
vars == <<viewerVars, wire, hostVars>>

--------------------------------------------------------------------------------
(* get_key_mapping: from GLFW key codes to Windows virtual keys *)

\* The codes GLFW has, GLFW_KEY_UNKNOWN = -1 among them.
GlfwKeys ==
    {-1, 32, 39, 59, 61, 96, 161, 162} \cup 44 .. 57 \cup 65 .. 93
        \cup 256 .. 269 \cup 280 .. 284 \cup 290 .. 314 \cup 320 .. 336 \cup 340 .. 348

ASSUME KeysAssumption == Keys \subseteq GlfwKeys

Punctuation ==
    [glfw \in {39, 44, 45, 46, 47, 59, 61, 91, 92, 93, 96} |->
        CASE glfw = 39 -> 222 [] glfw = 44 -> 188 [] glfw = 45 -> 189 [] glfw = 46 -> 190
          [] glfw = 47 -> 191 [] glfw = 59 -> 186 [] glfw = 61 -> 187 [] glfw = 91 -> 219
          [] glfw = 92 -> 226 [] glfw = 93 -> 221 [] glfw = 96 -> 192]

\* Escape, Enter, Tab, Backspace, Insert, Delete, the arrows, Page Up and Down,
\* Home, End and Caps Lock.
Editing ==
    [glfw \in 256 .. 269 \cup {280} |->
        CASE glfw = 256 -> 27 [] glfw = 257 -> 13 [] glfw = 258 -> 9 [] glfw = 259 -> 8
          [] glfw = 260 -> 45 [] glfw = 261 -> 46 [] glfw = 262 -> 39 [] glfw = 263 -> 37
          [] glfw = 264 -> 40 [] glfw = 265 -> 38 [] glfw = 266 -> 33 [] glfw = 267 -> 34
          [] glfw = 268 -> 36 [] glfw = 269 -> 35 [] glfw = 280 -> 20]

\* The remaining locks, the function keys, the key pad and the modifiers.
Unmapped == 281 .. 284 \cup 290 .. 314 \cup 320 .. 336 \cup 340 .. 348

\* Mutant: the punctuation keys are left to the default.
MapEditingOnly(glfw) ==
    IF glfw \in DOMAIN Editing THEN Editing[glfw]
    ELSE IF glfw \in Unmapped THEN 0 ELSE glfw

get_key_mapping(glfw) ==
    CASE glfw \in DOMAIN Punctuation -> Punctuation[glfw]
      [] glfw \in DOMAIN Editing -> Editing[glfw]
      [] glfw \in Unmapped -> 0
      [] OTHER -> glfw

--------------------------------------------------------------------------------
(* The callbacks: one message for each press, release and repeat alike *)

Event ==
    [kind : {"key"}, code : Keys] \cup [kind : {"button"}, code : Buttons]
        \cup [kind : {"move"}, code : Positions]

ControlInput(abs, mouse, key) == [abs |-> abs, mouse_bitfield |-> mouse, virtual_key |-> key]

key_cb(key) == ControlInput(<<-1, -1>>, 0, get_key_mapping(key))

mouse_cb(button) == ControlInput(<<-1, -1>>, button + 1, 0)

mouse_pos_cb(pos) == ControlInput(pos, 0, 0)

Callback(e) ==
    CASE e.kind = "key" -> key_cb(e.code)
      [] e.kind = "button" -> mouse_cb(e.code)
      [] e.kind = "move" -> mouse_pos_cb(e.code)

--------------------------------------------------------------------------------
(* GlWindow, on the renderer thread *)

Init ==
    /\ window = "none"
    /\ windows = 0
    /\ frame = <<0, 0>>
    /\ pbo = Undefined
    /\ shown = Undefined
    /\ events = <<>>
    /\ wire = <<>>
    /\ tasks = {}
    /\ cursor = Somewhere
    /\ injected = <<>>
    /\ overlapped = FALSE
    /\ soiled = FALSE

\* Mutant: buffer and texture of the last window are used again.
CreateReusing ==
    /\ window = "none"
    /\ windows < MaxWindows
    /\ windows' = windows + 1
    /\ window' = "open"
    /\ frame' = <<windows', 0>>
    /\ UNCHANGED <<pbo, shown, events, wire, hostVars>>

\* The result is ignored: without GLFW, a window or GLEW the thread goes on.
create_window ==
    /\ window = "none"
    /\ windows < MaxWindows
    /\ windows' = windows + 1
    /\ window' \in {"open", "failed"}
    /\ frame' = <<windows', 0>>
    /\ pbo' = Undefined
    /\ shown' = Undefined
    /\ UNCHANGED <<events, wire, hostVars>>

\* A dequeued frame: the texture takes what the pixel buffer holds, the buffer is
\* given new storage and, if it can be mapped, the new frame; then the window is
\* polled, which calls the callbacks for the events since the last time.
render_frame(evs) ==
    /\ window = "open"
    /\ frame[2] < MaxFrames
    /\ Len(events) + Len(evs) <= MaxEvents
    /\ frame' = <<frame[1], frame[2] + 1>>
    /\ shown' = pbo
    /\ pbo' \in {frame', Undefined}
    /\ events' = events \o evs
    /\ wire' = wire \o [i \in DOMAIN evs |-> Callback(evs[i])]
    /\ UNCHANGED <<window, windows, hostVars>>

\* The first frame, or the close, calls GL without a context or its functions.
UseNoWindow ==
    /\ window = "failed"
    /\ window' = "crashed"
    /\ UNCHANGED <<windows, frame, pbo, shown, events, wire, hostVars>>

close_window ==
    /\ window = "open"
    /\ window' = "none"
    /\ UNCHANGED <<windows, frame, pbo, shown, events, wire, hostVars>>

--------------------------------------------------------------------------------
(* The host: one task for each message *)

Place == {"cursor", "mouse", "mouse_again", "key", "key_again"}

Dispatched == Len(events) - Len(wire)

\* poll_network: ControlInput subscribes as a task.
Dispatch ==
    /\ wire # <<>>
    /\ Cardinality(tasks) < MaxTasks
    /\ wire' = Tail(wire)
    /\ tasks' = tasks \cup {[number |-> Dispatched + 1, input |-> Head(wire), at |-> "cursor"]}
    /\ overlapped' = (overlapped \/ tasks # {})
    /\ UNCHANGED <<viewerVars, cursor, injected, soiled>>

\* Mutant: the task also stays where it is.
Forks(t, place) == tasks' = tasks \cup {[t EXCEPT !.at = place]}

Proceeds(t, place) ==
    tasks' = (tasks \ {t}) \cup (IF place = "done" THEN {} ELSE {[t EXCEPT !.at = place]})

Clamp(v, limit) == IF v < 0 THEN 0 ELSE IF v > limit THEN limit ELSE v

set_cursor_location(x, y) == cursor' = <<Clamp(x, Width), Clamp(y, Height)>>

\* Mutant: one coordinate inside is enough.
MoveCursorEither(t) ==
    /\ t.at = "cursor"
    /\ IF t.input.abs[1] > 0 \/ t.input.abs[2] > 0
       THEN set_cursor_location(t.input.abs[1], t.input.abs[2])
       ELSE UNCHANGED cursor
    /\ Proceeds(t, "mouse")
    /\ UNCHANGED <<viewerVars, wire, injected, overlapped, soiled>>

MoveCursor(t) ==
    /\ t.at = "cursor"
    /\ IF t.input.abs[1] > 0 /\ t.input.abs[2] > 0
       THEN set_cursor_location(t.input.abs[1], t.input.abs[2])
       ELSE UNCHANGED cursor
    /\ Proceeds(t, "mouse")
    /\ UNCHANGED <<viewerVars, wire, injected, overlapped, soiled>>

MouseButton == 1 .. 6

\* VK_LBUTTON, VK_RBUTTON and VK_MBUTTON.
PressedByFlag == {1, 2, 4}

Inject(kind, code) == injected' = Append(injected, [kind |-> kind, code |-> code, at |-> cursor])

\* SendInput with an INPUT whose flags and offsets were never set, but for the
\* button: by chance they are zero, or the cursor moves as well.  down is ignored.
send_mouse_input(vk) ==
    /\ IF vk \in PressedByFlag THEN Inject("button", vk) ELSE UNCHANGED injected
    /\ \/ UNCHANGED <<cursor, soiled>>
       \/ cursor' = Somewhere /\ soiled' = TRUE

\* Mutant: a key that has no mapping is sent as key 0.
SendAnything(t, vk, again, after) ==
    \/ vk \in MouseButton /\ send_mouse_input(vk) /\ Proceeds(t, again)
    \/ vk \notin MouseButton /\ Inject("key", vk) /\ Proceeds(t, after) /\ UNCHANGED <<cursor, soiled>>

\* Called for a positive vk.  The future of the task that presses a button, waits
\* and presses it again is dropped at once, and its destructor waits for it.
send_virtual_input(t, vk, again, after) ==
    \/ vk \in MouseButton /\ send_mouse_input(vk) /\ Proceeds(t, again)
    \/ vk > 6 /\ Inject("key", vk) /\ Proceeds(t, after) /\ UNCHANGED <<cursor, soiled>>
    \/ vk <= 0 /\ Proceeds(t, after) /\ UNCHANGED <<cursor, injected, soiled>>

Press(t) ==
    /\ \/ t.at = "mouse" /\ send_virtual_input(t, t.input.mouse_bitfield, "mouse_again", "key")
       \/ t.at = "key" /\ send_virtual_input(t, t.input.virtual_key, "key_again", "done")
    /\ UNCHANGED <<viewerVars, wire, overlapped>>

PressAgain(t) ==
    /\ t.at \in {"mouse_again", "key_again"}
    /\ send_mouse_input(IF t.at = "mouse_again" THEN t.input.mouse_bitfield ELSE t.input.virtual_key)
    /\ Proceeds(t, IF t.at = "mouse_again" THEN "key" ELSE "done")
    /\ UNCHANGED <<viewerVars, wire, overlapped>>

handle_input(t) == MoveCursor(t) \/ Press(t) \/ PressAgain(t)

Next ==
    \/ create_window
    \/ \E n \in 0 .. MaxEvents : \E evs \in [1 .. n -> Event] : render_frame(evs)
    \/ UseNoWindow
    \/ close_window
    \/ Dispatch
    \/ \E t \in tasks : handle_input(t)

Spec == Init /\ [][Next]_vars
--------------------------------------------------------------------------------
(* Properties *)

Message == [abs : Int \X Int, mouse_bitfield : Int, virtual_key : Int]

\* Type correctness; each message is handled by one task.
TypeOK ==
    /\ window \in {"none", "open", "failed", "crashed"}
    /\ windows \in 0 .. MaxWindows
    /\ frame \in (0 .. MaxWindows) \X (0 .. MaxFrames)
    /\ {pbo, shown} \subseteq {Undefined} \cup ((1 .. MaxWindows) \X (1 .. MaxFrames))
    /\ events \in Seq(Event)
    /\ wire \in Seq(Message)
    /\ tasks \subseteq [number : 1 .. Dispatched, input : Message, at : Place]
    /\ \A t, u \in tasks : t.number = u.number => t = u
    /\ cursor \in {Somewhere} \cup (0 .. Width) \X (0 .. Height)
    /\ overlapped \in BOOLEAN /\ soiled \in BOOLEAN

\* What the window shows is the frame it was given last or the one before it,
\* never an older one or one of an earlier session, also when the pixel buffer
\* cannot be mapped.
ShownIsRecent ==
    window = "open" => shown \in {Undefined, frame, <<frame[1], frame[2] - 1>>}

MappingDistinct ==
    LET pressed == {k \in GlfwKeys : get_key_mapping(k) > 0}
    IN  \A k, l \in pressed :
            /\ get_key_mapping(k) = get_key_mapping(l) => k = l
            /\ get_key_mapping(k) \notin MouseButton

\* Whatever is pressed in an open window, the mapping tells keys apart: no two keys
\* of the viewer are the same key on the host, also those left to the default, and
\* none is taken for a mouse button by send_virtual_input, which goes by number.
KeysDistinct == window = "open" => MappingDistinct

\* Where the cursor should be after the first i events: at the last position with
\* two positive coordinates, brought back onto the screen.
CursorAfter(i) ==
    LET inside == {j \in 1 .. i : events[j].kind = "move"
                                    /\ events[j].code[1] > 0 /\ events[j].code[2] > 0}
    IN  IF inside = {} THEN Somewhere
        ELSE LET p == events[Max(inside)].code
             IN  <<Min({p[1], Width}), Min({p[2], Height})>>

\* What the i-th event should do: a button is pressed twice, unless its number is
\* that of no button; the eighth button is the backspace key.
Effect(i) ==
    LET e == events[i]
        input(kind, code) == [kind |-> kind, code |-> code, at |-> CursorAfter(i)]
    IN  CASE e.kind = "key" /\ get_key_mapping(e.code) > 0 ->
                <<input("key", get_key_mapping(e.code))>>
          [] e.kind = "button" /\ e.code + 1 \in PressedByFlag ->
                <<input("button", e.code + 1), input("button", e.code + 1)>>
          [] e.kind = "button" /\ e.code >= 6 -> <<input("key", e.code + 1)>>
          [] OTHER -> <<>>

Meant == FlattenSeq([i \in DOMAIN events |-> Effect(i)])

AllHandled == wire = <<>> /\ tasks = {}

\* While no two tasks overlap and no INPUT was dirty, the host does what the viewer
\* did, in that order and each click and key at the place the viewer pointed to;
\* and when all is handled it has done all of it.
ViewerIsObeyed ==
    ~overlapped /\ ~soiled =>
        /\ IsPrefix(injected, Meant)
        /\ AllHandled => injected = Meant /\ cursor = CursorAfter(Len(events))

Count(s, kind, code) == Cardinality({i \in DOMAIN s : s[i].kind = kind /\ s[i].code = code})

\* However the tasks overlap, and whatever the INPUT held, no key and no click is
\* lost, doubled or made up: they may only change order and place.
EachInputOnce ==
    AllHandled =>
        /\ Len(injected) = Len(Meant)
        /\ \A i \in DOMAIN Meant :
              Count(injected, Meant[i].kind, Meant[i].code)
                  = Count(Meant, Meant[i].kind, Meant[i].code)
================================================================================
