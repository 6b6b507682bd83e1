------------------------------ MODULE Keyboard ------------------------------
(***************************************************************************)
(* The keyboard driver (keyboard/keyboard.c): what keyboard_on_scancode    *)
(* makes of the bytes of the keyboard, against the keys that are held.     *)
(*                                                                         *)
(* Two keys may send the same scancode, one of them behind the prefix 0xE0 *)
(* (the cursor keys and the keypad), and the driver takes the prefix for   *)
(* the release of a key 0x60.  A held key repeats its make code.  External *)
(* are the keyboard and its keys; the interrupts are in EventPath.         *)
(***************************************************************************)
EXTENDS Integers, Sequences

CONSTANTS
    Key,                \* the keys of the keyboard
    Extended,           \* those that send the prefix
    CodeOf(_),          \* the scancode of a key
    Letters, Others,    \* scancodes with a character: letters, and others
    KBD_BUFFER_SIZE,
    MaxWire,            \* bound: bytes on their way to the driver
    MaxTyped            \* bound: characters typed

LSHIFT == "2A"
RSHIFT == "36"
CAPS == "3A"
PREFIX == "60"          \* 0xE0 without its highest bit

Code == {CodeOf(k) : k \in Key} \cup {PREFIX}

ASSUME KeyboardAssumption ==
    /\ Extended \subseteq Key
    /\ Letters \cap Others = {} /\ Letters \cup Others \subseteq Code
    /\ {LSHIFT, RSHIFT, CAPS, PREFIX} \cap (Letters \cup Others) = {}
    /\ PREFIX \notin {CodeOf(k) : k \in Key}
    /\ KBD_BUFFER_SIZE \in Nat \ {0}

VARIABLES
    held,       \* the keys that are held down
    wire,       \* the bytes that the driver has not been given yet
    keyState,   \* key_state
    shift,      \* shift_pressed
    caps,       \* capslock_enabled
    buffer,     \* kbd_buffer
    head, tail, \* buf_head, buf_tail
    event,      \* the last event pushed
    typed, read, refused    \* history: characters put into and taken out of the buffer

ring == <<buffer, head, tail>>
fifo == <<typed, read, refused>>
vars == <<held, wire, keyState, shift, caps, ring, event, fifo>>

Byte(code, break) == [code |-> code, break |-> break]
NoEvent == [code |-> PREFIX, pressed |-> FALSE, ascii |-> "none"]

\* keyboard_reset_state
Init ==
    /\ held = {}
    /\ wire = << >>
    /\ keyState = [c \in Code |-> FALSE]
    /\ shift = FALSE
    /\ caps = FALSE
    /\ buffer = [i \in 0 .. KBD_BUFFER_SIZE - 1 |-> "none"]
    /\ head = 0
    /\ tail = 0
    /\ event = NoEvent
    /\ typed = << >>
    /\ read = << >>
    /\ refused = 0

-----------------------------------------------------------------------------
(* The keyboard *)

Sends(k, break) ==
    wire' = wire \o (IF k \in Extended THEN <<Byte(PREFIX, TRUE)>> ELSE << >>)
                 \o <<Byte(CodeOf(k), break)>>

driver == <<keyState, shift, caps, ring, event, fifo>>

\* Pressed, or held long enough to repeat (any held key may: more than a
\* keyboard does).
KeyDown(k) ==
    /\ Len(wire) < MaxWire
    /\ CodeOf(k) \in Letters \cup Others => Len(typed) + refused + Len(wire) < MaxTyped
    /\ held' = held \cup {k}
    /\ Sends(k, FALSE)
    /\ UNCHANGED driver

KeyUp(k) ==
    /\ k \in held
    /\ Len(wire) < MaxWire
    /\ held' = held \ {k}
    /\ Sends(k, TRUE)
    /\ UNCHANGED driver

-----------------------------------------------------------------------------
(* keyboard_on_scancode *)

\* Letters follow Shift and Caps Lock together, other characters Shift alone.
translate_scancode(code) ==
    IF code \in Letters THEN (IF shift # caps THEN "upper" ELSE "lower")
    ELSE IF code \in Others THEN (IF shift THEN "shifted" ELSE "plain")
    ELSE "none"

BufferFullLate(next) == next = tail + 1
BufferFull(next) == next = tail

buffer_push(c) ==
    LET next == (head + 1) % KBD_BUFFER_SIZE IN
    IF BufferFull(next)
    THEN refused' = refused + 1 /\ UNCHANGED <<ring, typed, read>>
    ELSE /\ buffer' = [buffer EXCEPT ![head] = c]
         /\ head' = next
         /\ typed' = Append(typed, c)
         /\ UNCHANGED <<tail, read, refused>>

IsLeftShift(code) == code = LSHIFT
IsShift(code) == code \in {LSHIFT, RSHIFT}

Pushes(code, pressed, c) ==
    event' = [code |-> code, pressed |-> pressed, ascii |-> c]

BreakCode(code) ==
    /\ keyState' = [keyState EXCEPT ![code] = FALSE]
    /\ shift' = IF IsShift(code) THEN FALSE ELSE shift
    /\ Pushes(code, FALSE, "none")
    /\ UNCHANGED <<caps, ring, fifo>>

ModifierMake(code) ==
    /\ code \in {LSHIFT, RSHIFT, CAPS}
    /\ shift' = IF code = CAPS THEN shift ELSE TRUE
    /\ caps' = IF code = CAPS THEN ~caps ELSE caps
    /\ Pushes(code, TRUE, "none")
    /\ UNCHANGED <<ring, fifo>>

CharacterMake(code) ==
    LET c == translate_scancode(code) IN
    /\ code \notin {LSHIFT, RSHIFT, CAPS}
    /\ IF c = "none" THEN UNCHANGED <<ring, fifo>> ELSE buffer_push(c)
    /\ Pushes(code, TRUE, c)
    /\ UNCHANGED <<shift, caps>>

MakeCode(code) ==
    /\ keyState' = [keyState EXCEPT ![code] = TRUE]
    /\ ModifierMake(code) \/ CharacterMake(code)

keyboard_on_scancode ==
    /\ wire # << >>
    /\ wire' = Tail(wire)
    /\ LET byte == Head(wire) IN
       IF byte.break THEN BreakCode(byte.code) ELSE MakeCode(byte.code)
    /\ UNCHANGED held

\* keyboard_get_char, with interrupts disabled, when keyboard_has_char.
keyboard_has_char == head # tail

keyboard_get_char ==
    /\ keyboard_has_char
    /\ read' = Append(read, buffer[tail])
    /\ tail' = (tail + 1) % KBD_BUFFER_SIZE
    /\ UNCHANGED <<held, wire, keyState, shift, caps, buffer, head, event, typed, refused>>

Next ==
    \/ \E k \in Key : KeyDown(k) \/ KeyUp(k)
    \/ keyboard_on_scancode
    \/ keyboard_get_char

Spec == Init /\ [][Next]_vars

-----------------------------------------------------------------------------
Keys(codes) == {k \in Key : CodeOf(k) \in codes}

\* What the driver believes of the keys with these codes.
Tracks(codes, down) ==
    /\ down => Keys(codes) \cap held # {}
    /\ Keys(codes) # {} /\ Keys(codes) \subseteq held => down

\* Once its bytes have arrived, the driver believes a key down only if a key
\* with that code is held, and believes it if all of them are; likewise the two
\* Shift keys.  In between, where one of two is still held, it may forget the
\* other: the release of one clears the state of both.
KeysTracked ==
    wire = << >> =>
        /\ \A c \in Code : Tracks({c}, keyState[c])
        /\ Tracks({LSHIFT, RSHIFT}, shift)

\* The buffer hands out the characters in the order in which they were typed,
\* each once, and refuses one only when KBD_BUFFER_SIZE - 1 others wait.
Buffer == INSTANCE BoundedFifo WITH
    Event <- {"lower", "upper", "plain", "shifted"},
    Capacity <- KBD_BUFFER_SIZE - 1, accepted <- typed, delivered <- read

TypedFifo == Buffer!Spec

=============================================================================
