----------------------------- MODULE MCKeyboard -----------------------------
(***************************************************************************)
(* A keyboard for TLC: both Shift keys, Caps Lock, one letter, and the     *)
(* cursor key that shares its scancode with a key of the keypad.           *)
(***************************************************************************)
EXTENDS Keyboard

MCKey == {"lshift", "rshift", "caps", "a", "up", "keypad8"}
MCExtended == {"up"}
MCCodeOf(k) ==
    CASE k = "lshift" -> LSHIFT [] k = "rshift" -> RSHIFT [] k = "caps" -> CAPS
      [] k = "a" -> "1E" [] k \in {"up", "keypad8"} -> "48"
MCLetters == {"1E"}
MCOthers == {}

=============================================================================
