--------------------------- MODULE KeyboardProofs ---------------------------
(***************************************************************************)
(* Proofs about the keyboard driver: what it believes of the keys follows  *)
(* from the bytes that it has not been given yet, and its buffer is a      *)
(* bounded queue of the characters typed.                                  *)
(***************************************************************************)
EXTENDS Keyboard, SequenceTheorems, TLAPS

Bytes == [code : Code, break : BOOLEAN]
Char == {"lower", "upper", "plain", "shifted"}

-----------------------------------------------------------------------------
(* What the bytes on the wire lead to *)

\* What may be believed of the keys with the codes S when those in h are held.
Believed(S, h, down) ==
    /\ down => Keys(S) \cap h # {}
    /\ Keys(S) # {} /\ Keys(S) \subseteq h => down

\* No byte with such a code follows in q after place i.
Quiet(S, q, i) == \A j \in DOMAIN q : i < j => q[j].code \notin S

\* The last byte with such a code, or the driver's state if there is none, says
\* what may be believed.
Leads(S, q, h, down) ==
    /\ Quiet(S, q, 0) => Believed(S, h, down)
    /\ \A i \in DOMAIN q :
          q[i].code \in S /\ Quiet(S, q, i) => Believed(S, h, ~ q[i].break)

\* The positions of a queue with one more byte.
LEMMA AppendFacts ==
    ASSUME NEW q \in Seq(Bytes), NEW b \in Bytes
    PROVE  /\ Append(q, b) \in Seq(Bytes) /\ Len(q) \in Nat
           /\ DOMAIN q = 1 .. Len(q) /\ DOMAIN Append(q, b) = 1 .. Len(q) + 1
           /\ Append(q, b)[Len(q) + 1] = b
           /\ \A i \in 1 .. Len(q) : Append(q, b)[i] = q[i]
  OBVIOUS

\* A byte that is sent for keys with other codes, or that says what has become of
\* the keys.
LEMMA SentLeads ==
    ASSUME NEW S, NEW q \in Seq(Bytes), NEW h, NEW d \in BOOLEAN, Leads(S, q, h, d),
           NEW b \in Bytes, NEW h2,
           b.code \in S => Believed(S, h2, ~ b.break),
           b.code \notin S => \A x \in BOOLEAN : Believed(S, h, x) => Believed(S, h2, x)
    PROVE  Leads(S, Append(q, b), h2, d)
<1>t. PICK t : t = Append(q, b)
  OBVIOUS
<1>n. PICK n : n = Len(q)
  OBVIOUS
<1>1. /\ n \in Nat /\ DOMAIN q = 1 .. n /\ DOMAIN t = 1 .. n + 1
      /\ t[n + 1] = b /\ \A i \in 1 .. n : t[i] = q[i]
  BY <1>t, <1>n, AppendFacts
<1>2. ASSUME NEW i \in 0 .. n, Quiet(S, t, i) PROVE b.code \notin S /\ Quiet(S, q, i)
  <2>1. n + 1 \in DOMAIN t /\ i < n + 1
    BY <1>1
  <2>2. b.code \notin S
    BY <1>1, <1>2, <2>1 DEF Quiet
  <2>3. ASSUME NEW j \in DOMAIN q, i < j PROVE q[j].code \notin S
    <3>1. j \in DOMAIN t /\ t[j] = q[j]
      BY <1>1
    <3>. QED
      BY <1>2, <2>3, <3>1 DEF Quiet
  <2>. QED
    BY <2>2, <2>3 DEF Quiet
<1>3. ASSUME Quiet(S, t, 0) PROVE Believed(S, h2, d)
  <2>1. b.code \notin S /\ Quiet(S, q, 0)
    BY <1>1, <1>2, <1>3
  <2>. QED
    BY <2>1 DEF Leads
<1>4. ASSUME NEW i \in DOMAIN t, t[i].code \in S, Quiet(S, t, i)
      PROVE  Believed(S, h2, ~ t[i].break)
  <2>1. CASE i = n + 1
    BY <1>1, <1>4, <2>1
  <2>2. CASE i # n + 1
    <3>1. i \in 0 .. n /\ i \in DOMAIN q /\ t[i] = q[i]
      BY <1>1, <2>2
    <3>2. b.code \notin S /\ Quiet(S, q, i)
      BY <1>2, <1>4, <3>1
    <3>3. Believed(S, h, ~ q[i].break)
      BY <1>4, <3>1, <3>2 DEF Leads
    <3>4. PICK x \in BOOLEAN : x = ~ q[i].break
      OBVIOUS
    <3>5. Believed(S, h2, x)
      BY <3>2, <3>3, <3>4
    <3>. QED
      BY <3>1, <3>4, <3>5
  <2>. QED
    BY <2>1, <2>2
<1>. QED
  BY <1>3, <1>4, <1>t DEF Leads

\* The positions of the rest of a queue.
LEMMA TailFacts ==
    ASSUME NEW q \in Seq(Bytes), q # << >>
    PROVE  /\ Tail(q) \in Seq(Bytes) /\ Len(q) \in Nat /\ Len(q) >= 1
           /\ DOMAIN q = 1 .. Len(q) /\ DOMAIN Tail(q) = 1 .. Len(q) - 1
           /\ q[1] = Head(q) /\ q[1] \in Bytes
           /\ \A i \in 1 .. Len(q) - 1 : Tail(q)[i] = q[i + 1]
  OBVIOUS

\* The driver takes the next byte and believes what it says.
LEMMA ReceivedLeads ==
    ASSUME NEW S, NEW q \in Seq(Bytes), q # << >>, NEW h, NEW d, Leads(S, q, h, d), NEW d2,
           q[1].code \in S => (d2 <=> ~ q[1].break),
           q[1].code \notin S => d2 = d
    PROVE  Leads(S, Tail(q), h, d2)
<1>t. PICK t : t = Tail(q)
  OBVIOUS
<1>n. PICK n : n = Len(q)
  OBVIOUS
<1>1. /\ n \in Nat /\ n >= 1 /\ DOMAIN q = 1 .. n /\ DOMAIN t = 1 .. n - 1
      /\ \A i \in 1 .. n - 1 : t[i] = q[i + 1]
  BY <1>t, <1>n, TailFacts
<1>2. ASSUME NEW i \in 0 .. n - 1, Quiet(S, t, i) PROVE Quiet(S, q, i + 1)
  <2>1. ASSUME NEW j \in DOMAIN q, i + 1 < j PROVE q[j].code \notin S
    <3>k. PICK k : k = j - 1
      OBVIOUS
    <3>1. k \in DOMAIN t /\ i < k /\ k + 1 = j /\ k \in 1 .. n - 1
      BY <1>1, <2>1, <3>k
    <3>. QED
      BY <1>1, <1>2, <3>1 DEF Quiet
  <2>. QED
    BY <2>1 DEF Quiet
<1>3. ASSUME Quiet(S, t, 0) PROVE Believed(S, h, d2)
  <2>1. Quiet(S, q, 1)
    <3>1. 0 \in 0 .. n - 1 /\ 0 + 1 = 1
      BY <1>1
    <3>2. Quiet(S, q, 0 + 1)
      BY <1>2, <1>3, <3>1
    <3>. QED
      BY <3>2
  <2>2. CASE q[1].code \in S
    <3>1. 1 \in DOMAIN q
      BY <1>1
    <3>2. Believed(S, h, ~ q[1].break)
      BY <2>1, <2>2, <3>1 DEF Leads
    <3>. QED
      BY <2>2, <3>2 DEF Believed
  <2>3. CASE q[1].code \notin S
    <3>1. Quiet(S, q, 0)
      <4>1. ASSUME NEW j \in DOMAIN q PROVE q[j].code \notin S
        BY <1>1, <2>1, <2>3 DEF Quiet
      <4>. QED
        BY <4>1 DEF Quiet
    <3>. QED
      BY <2>3, <3>1 DEF Leads
  <2>. QED
    BY <2>2, <2>3
<1>4. ASSUME NEW i \in DOMAIN t, t[i].code \in S, Quiet(S, t, i)
      PROVE  Believed(S, h, ~ t[i].break)
  <2>1. i \in 0 .. n - 1 /\ i + 1 \in DOMAIN q /\ t[i] = q[i + 1]
    BY <1>1
  <2>2. Quiet(S, q, i + 1)
    BY <1>2, <1>4, <2>1
  <2>. QED
    BY <1>4, <2>1, <2>2 DEF Leads
<1>. QED
  BY <1>3, <1>4, <1>t DEF Leads

-----------------------------------------------------------------------------
(* The keyboard *)

\* The bytes of a key.
LEMMA CodeFacts ==
    /\ PREFIX \in Code
    /\ \A k \in Key : CodeOf(k) \in Code /\ CodeOf(k) # PREFIX
    /\ \A c \in Code : \A b \in BOOLEAN :
          Byte(c, b) \in Bytes /\ Byte(c, b).code = c /\ Byte(c, b).break = b
<1>1. PREFIX \in Code /\ \A k \in Key : CodeOf(k) \in Code
  BY DEF Code
<1>2. \A k \in Key : CodeOf(k) # PREFIX
  BY KeyboardAssumption
<1>3. \A c \in Code : \A b \in BOOLEAN :
         Byte(c, b) \in Bytes /\ Byte(c, b).code = c /\ Byte(c, b).break = b
  BY DEF Byte, Bytes
<1>. QED
  BY <1>1, <1>2, <1>3

\* A key appends its byte, and before it the prefix if it sends one.
LEMMA SendsFacts ==
    ASSUME wire \in Seq(Bytes), NEW k \in Key, NEW b \in BOOLEAN, Sends(k, b)
    PROVE  LET p == Byte(PREFIX, TRUE)
               c == Byte(CodeOf(k), b)
           IN  \/ wire' = Append(wire, c)
               \/ wire' = Append(Append(wire, p), c)
<1>p. PICK p : p = Byte(PREFIX, TRUE)
  OBVIOUS
<1>c. PICK c : c = Byte(CodeOf(k), b)
  OBVIOUS
<1>1. p \in Bytes /\ c \in Bytes
  BY <1>p, <1>c, CodeFacts
<1>2. CASE k \in Extended
  <2>1. wire' = (wire \o <<p>>) \o <<c>>
    BY <1>2, <1>p, <1>c, Zenon DEF Sends
  <2>2. wire \o <<p>> = Append(wire, p)
    BY <1>1, AppendIsConcat, Zenon
  <2>3. Append(wire, p) \in Seq(Bytes)
    BY <1>1
  <2>4. Append(wire, p) \o <<c>> = Append(Append(wire, p), c)
    BY <1>1, <2>3, AppendIsConcat, Zenon
  <2>. QED
    BY <2>1, <2>2, <2>4, <1>p, <1>c, Zenon
<1>3. CASE k \notin Extended
  <2>1. wire' = (wire \o << >>) \o <<c>>
    BY <1>3, <1>c, Zenon DEF Sends
  <2>2. wire \o << >> = wire
    BY ConcatEmptySeq, Zenon
  <2>3. wire \o <<c>> = Append(wire, c)
    BY <1>1, AppendIsConcat, Zenon
  <2>. QED
    BY <2>1, <2>2, <2>3, <1>c, Zenon
<1>. QED
  BY <1>2, <1>3

\* Codes of which the driver keeps track: no key has the prefix.
Watched(S) == PREFIX \in S => Keys(S) = {}

\* What the wire leads to stays true when a key is pressed or released.
LEMMA KeyLeads ==
    ASSUME NEW S, Watched(S), wire \in Seq(Bytes), NEW d \in BOOLEAN,
           Leads(S, wire, held, d), NEW k \in Key, KeyDown(k) \/ KeyUp(k)
    PROVE  wire' \in Seq(Bytes) /\ Leads(S, wire', held', d)
<1>. PICK b \in BOOLEAN : Sends(k, b) /\ held' = (IF b THEN held \ {k} ELSE held \cup {k})
  BY DEF KeyDown, KeyUp
<1>p. PICK p : p = Byte(PREFIX, TRUE)
  OBVIOUS
<1>c. PICK c : c = Byte(CodeOf(k), b)
  OBVIOUS
<1>1. /\ p \in Bytes /\ p.code = PREFIX /\ p.break = TRUE
      /\ c \in Bytes /\ c.code = CodeOf(k) /\ c.break = b
  BY <1>p, <1>c, CodeFacts
<1>2. c.code \in S => Believed(S, held', ~ c.break)
  BY <1>1 DEF Believed, Keys
<1>3. c.code \notin S => \A x \in BOOLEAN : Believed(S, held, x) => Believed(S, held', x)
  BY <1>1 DEF Believed, Keys
<1>4. p.code \in S => Believed(S, held, ~ p.break)
  BY <1>1 DEF Watched, Believed
<1>5. ASSUME NEW q \in Seq(Bytes), Leads(S, q, held, d)
      PROVE  Append(q, c) \in Seq(Bytes) /\ Leads(S, Append(q, c), held', d)
  <2>1. Append(q, c) \in Seq(Bytes)
    BY <1>1, AppendFacts
  <2>h. PICK h : h = held'
    OBVIOUS
  <2>2. c.code \in S => Believed(S, h, ~ c.break)
    BY <1>2, <2>h, Zenon
  <2>3. c.code \notin S => \A x \in BOOLEAN : Believed(S, held, x) => Believed(S, h, x)
    BY <1>3, <2>h, Zenon
  <2>4. Leads(S, Append(q, c), h, d)
    BY <1>1, <1>5, <2>2, <2>3, SentLeads
  <2>. QED
    BY <2>1, <2>4, <2>h, Zenon
<1>6. Append(wire, p) \in Seq(Bytes) /\ Leads(S, Append(wire, p), held, d)
  BY <1>1, <1>4, SentLeads, AppendFacts
<1>7. wire' = Append(wire, c) \/ wire' = Append(Append(wire, p), c)
  BY <1>p, <1>c, SendsFacts
<1>. QED
  BY <1>5, <1>6, <1>7

-----------------------------------------------------------------------------
(* The driver *)

Shifts == {LSHIFT, RSHIFT}

\* The sets of codes that the driver keeps track of are such.
LEMMA WatchedFacts ==
    /\ Watched(Shifts) /\ \A c \in Code : Watched({c})
    /\ LSHIFT # CAPS /\ RSHIFT # CAPS
<1>1. \A k \in Key : CodeOf(k) # PREFIX
  BY CodeFacts
<1>2. PREFIX \notin Shifts
  BY DEF PREFIX, Shifts, LSHIFT, RSHIFT
<1>3. ASSUME NEW c \in Code PROVE Watched({c})
  BY <1>1 DEF Watched, Keys
<1>4. LSHIFT # CAPS /\ RSHIFT # CAPS
  BY DEF LSHIFT, RSHIFT, CAPS
<1>. QED
  BY <1>2, <1>3, <1>4 DEF Watched

\* A byte sets the state of its key, and that of Shift if it is one of them.
LEMMA ScancodeFacts ==
    ASSUME wire \in Seq(Bytes), keyState \in [Code -> BOOLEAN], shift \in BOOLEAN,
           caps \in BOOLEAN, keyboard_on_scancode
    PROVE  LET b == wire[1] IN
           /\ wire # << >> /\ wire' = Tail(wire) /\ held' = held
           /\ b \in Bytes
           /\ keyState' = [keyState EXCEPT ![b.code] = ~ b.break]
           /\ b.code \in Shifts => shift' = ~ b.break
           /\ b.code \notin Shifts => shift' = shift
           /\ caps' \in BOOLEAN
<1>b. PICK b : b = Head(wire)
  OBVIOUS
<1>1. /\ wire # << >> /\ wire' = Tail(wire) /\ held' = held
      /\ b.break => BreakCode(b.code)
      /\ ~ b.break => MakeCode(b.code)
  BY <1>b DEF keyboard_on_scancode
<1>2. b = wire[1] /\ b \in Bytes /\ b.break \in BOOLEAN
  BY <1>1, <1>b, TailFacts DEF Bytes
<1>3. CASE b.break
  <2>1. /\ keyState' = [keyState EXCEPT ![b.code] = FALSE]
        /\ shift' = (IF b.code \in Shifts THEN FALSE ELSE shift) /\ caps' = caps
    BY <1>1, <1>3 DEF BreakCode, IsShift, Shifts
  <2>2. (~ b.break) = FALSE
    BY <1>3
  <2>. QED
    BY <1>1, <1>2, <2>1, <2>2
<1>4. CASE ~ b.break
  <2>0. (~ b.break) = TRUE
    BY <1>4
  <2>1. /\ keyState' = [keyState EXCEPT ![b.code] = TRUE]
        /\ ModifierMake(b.code) \/ CharacterMake(b.code)
    BY <1>1, <1>4 DEF MakeCode
  <2>2. CASE ModifierMake(b.code)
    <3>1. /\ b.code \in {LSHIFT, RSHIFT, CAPS}
          /\ shift' = (IF b.code = CAPS THEN shift ELSE TRUE)
          /\ caps' = (IF b.code = CAPS THEN ~ caps ELSE caps)
      BY <2>2 DEF ModifierMake
    <3>2. b.code \in Shifts <=> b.code # CAPS
      BY <3>1, WatchedFacts DEF Shifts
    <3>. QED
      BY <1>1, <1>2, <2>0, <2>1, <3>1, <3>2
  <2>3. CASE CharacterMake(b.code)
    <3>1. b.code \notin Shifts /\ shift' = shift /\ caps' = caps
      BY <2>3 DEF CharacterMake, Shifts
    <3>. QED
      BY <1>1, <1>2, <2>0, <2>1, <3>1
  <2>. QED
    BY <2>1, <2>2, <2>3
<1>. QED
  BY <1>2, <1>3, <1>4

-----------------------------------------------------------------------------
(* The keys *)

KeyTypes ==
    /\ wire \in Seq(Bytes)
    /\ keyState \in [Code -> BOOLEAN]
    /\ shift \in BOOLEAN
    /\ caps \in BOOLEAN

KeysLead ==
    /\ \A c \in Code : Leads({c}, wire, held, keyState[c])
    /\ Leads(Shifts, wire, held, shift)

KeyIInv == KeyTypes /\ KeysLead

\* At first no key is held and the driver believes none down.
LEMMA KeysInit == Init => KeyIInv
<1>. SUFFICES ASSUME Init PROVE KeyIInv
  OBVIOUS
<1>1. /\ held = {} /\ wire = << >> /\ keyState = [c \in Code |-> FALSE]
      /\ shift = FALSE /\ caps = FALSE
  BY DEF Init
<1>2. DOMAIN wire = {} /\ wire \in Seq(Bytes)
  BY <1>1
<1>3. \A S : Leads(S, wire, held, FALSE)
  BY <1>1, <1>2 DEF Leads, Believed
<1>. QED
  BY <1>1, <1>2, <1>3 DEF KeyIInv, KeyTypes, KeysLead

\* Pressing and releasing, with what is on the wire before the driver knows.
LEMMA KeysSend ==
    ASSUME KeyIInv, NEW k \in Key, KeyDown(k) \/ KeyUp(k)
    PROVE  KeyIInv'
<1>1. UNCHANGED <<keyState, shift, caps>>
  BY DEF KeyDown, KeyUp, driver
<1>2. wire \in Seq(Bytes) /\ keyState \in [Code -> BOOLEAN] /\ shift \in BOOLEAN
  BY DEF KeyIInv, KeyTypes
<1>3. ASSUME NEW c \in Code PROVE Leads({c}, wire', held', keyState'[c])
  <2>1. keyState[c] \in BOOLEAN /\ Leads({c}, wire, held, keyState[c])
    BY <1>2 DEF KeyIInv, KeysLead
  <2>. QED
    BY <1>1, <1>2, <2>1, KeyLeads, WatchedFacts
<1>4. wire' \in Seq(Bytes) /\ Leads(Shifts, wire', held', shift')
  BY <1>1, <1>2, KeyLeads, WatchedFacts DEF KeyIInv, KeysLead
<1>. QED
  BY <1>1, <1>3, <1>4 DEF KeyIInv, KeyTypes, KeysLead

\* A byte that reaches the driver.
LEMMA KeysReceive ==
    ASSUME KeyIInv, keyboard_on_scancode
    PROVE  KeyIInv'
<1>b. PICK b : b = wire[1]
  OBVIOUS
<1>1. /\ wire \in Seq(Bytes) /\ keyState \in [Code -> BOOLEAN] /\ shift \in BOOLEAN
      /\ caps \in BOOLEAN
  BY DEF KeyIInv, KeyTypes
<1>2. /\ wire # << >> /\ wire' = Tail(wire) /\ held' = held
      /\ b \in Bytes
      /\ keyState' = [keyState EXCEPT ![b.code] = ~ b.break]
      /\ b.code \in Shifts => shift' = ~ b.break
      /\ b.code \notin Shifts => shift' = shift
      /\ caps' \in BOOLEAN
  BY <1>1, <1>b, ScancodeFacts
<1>3. b.code \in Code /\ b.break \in BOOLEAN
  BY <1>2 DEF Bytes
<1>4. ASSUME NEW c \in Code PROVE Leads({c}, wire', held', keyState'[c])
  <2>1. /\ b.code \in {c} => (keyState'[c] <=> ~ b.break)
        /\ b.code \notin {c} => keyState'[c] = keyState[c]
    BY <1>1, <1>2, <1>3
  <2>2. Leads({c}, wire, held, keyState[c])
    BY DEF KeyIInv, KeysLead
  <2>d. PICK d : d = keyState'[c]
    OBVIOUS
  <2>3. Leads({c}, Tail(wire), held, d)
    BY <1>1, <1>2, <1>b, <2>1, <2>2, <2>d, ReceivedLeads
  <2>. QED
    BY <1>2, <2>3, <2>d
<1>5. Leads(Shifts, wire', held', shift')
  <2>1. Leads(Shifts, wire, held, shift)
    BY DEF KeyIInv, KeysLead
  <2>d. PICK d : d = shift'
    OBVIOUS
  <2>3. Leads(Shifts, Tail(wire), held, d)
    BY <1>1, <1>2, <1>b, <2>1, <2>d, ReceivedLeads
  <2>. QED
    BY <1>2, <2>3, <2>d
<1>6. KeyTypes'
  <2>1. wire' \in Seq(Bytes)
    BY <1>1, <1>2, TailFacts
  <2>2. shift' \in BOOLEAN
    BY <1>1, <1>2, <1>3
  <2>3. keyState' \in [Code -> BOOLEAN]
    BY <1>1, <1>2, <1>3
  <2>. QED
    BY <1>2, <2>1, <2>2, <2>3 DEF KeyTypes
<1>. QED
  BY <1>4, <1>5, <1>6 DEF KeyIInv, KeysLead

\* It holds through every step.
LEMMA KeysNext == KeyIInv /\ [Next]_vars => KeyIInv'
<1>. SUFFICES ASSUME KeyIInv, [Next]_vars PROVE KeyIInv'
  OBVIOUS
<1>1. CASE \E k \in Key : KeyDown(k) \/ KeyUp(k)
  BY <1>1, KeysSend
<1>2. CASE keyboard_on_scancode
  BY <1>2, KeysReceive
<1>3. CASE keyboard_get_char \/ UNCHANGED vars
  <2>1. UNCHANGED <<held, wire, keyState, shift, caps>>
    BY <1>3 DEF keyboard_get_char, vars
  <2>. QED
    BY <2>1 DEF KeyIInv, KeyTypes, KeysLead
<1>. QED
  BY <1>1, <1>2, <1>3 DEF Next

\* Whatever keys share a scancode, and in whatever order they are pressed and
\* released: once the driver has all bytes, it believes a key down only if one
\* with its code is held, and believes it if all of them are; and so for Shift
\* (keyboard_on_scancode).
THEOREM KeysAreTracked == Spec => []KeysTracked
<1>1. KeyIInv => KeysTracked
  <2>. SUFFICES ASSUME KeyIInv, wire = << >>
                PROVE  /\ \A c \in Code : Tracks({c}, keyState[c])
                       /\ Tracks({LSHIFT, RSHIFT}, shift)
    BY DEF KeysTracked
  <2>1. \A S : Quiet(S, wire, 0)
    BY DEF Quiet
  <2>2. \A S, d : Leads(S, wire, held, d) => Tracks(S, d)
    BY <2>1 DEF Leads, Believed, Tracks
  <2>. QED
    BY <2>2 DEF KeyIInv, KeysLead, Shifts
<1>. QED
  BY <1>1, KeysInit, KeysNext, PTL DEF Spec


-----------------------------------------------------------------------------
(* The buffer *)

RingTypes ==
    /\ buffer \in [0 .. KBD_BUFFER_SIZE - 1 -> Char \cup {"none"}]
    /\ head \in 0 .. KBD_BUFFER_SIZE - 1
    /\ tail \in 0 .. KBD_BUFFER_SIZE - 1
    /\ typed \in Seq(Char)
    /\ Len(read) \in Nat

Used == IF head >= tail THEN head - tail ELSE head + KBD_BUFFER_SIZE - tail
Slot(i) == IF tail + i < KBD_BUFFER_SIZE THEN tail + i ELSE tail + i - KBD_BUFFER_SIZE

\* The slots in use hold the characters that were typed and not read.
RingExact ==
    /\ Len(typed) = Len(read) + Used
    /\ \A i \in 1 .. Used : typed[Len(read) + i] = buffer[Slot(i - 1)]

RingIInv == RingTypes /\ read \in Seq(Char) /\ RingExact

\* An index, one step on.
LEMMA NextIndex ==
    ASSUME NEW i \in 0 .. KBD_BUFFER_SIZE - 1
    PROVE  /\ (i + 1) % KBD_BUFFER_SIZE \in 0 .. KBD_BUFFER_SIZE - 1
           /\ (i + 1) % KBD_BUFFER_SIZE = IF i + 1 = KBD_BUFFER_SIZE THEN 0 ELSE i + 1
  BY KeyboardAssumption

\* The slots in use run from the tail up to the head, which is not one of them.
LEMMA RingFacts ==
    ASSUME RingTypes
    PROVE  /\ Used \in 0 .. KBD_BUFFER_SIZE - 1
           /\ Used = 0 <=> tail = head
           /\ Slot(0) = tail /\ Slot(Used) = head
           /\ \A i \in 0 .. Used - 1 : Slot(i) \in 0 .. KBD_BUFFER_SIZE - 1 /\ Slot(i) # head
           /\ (head + 1) % KBD_BUFFER_SIZE = tail <=> Used = KBD_BUFFER_SIZE - 1
<1>1. /\ KBD_BUFFER_SIZE \in Nat \ {0} /\ head \in 0 .. KBD_BUFFER_SIZE - 1
      /\ tail \in 0 .. KBD_BUFFER_SIZE - 1
  BY KeyboardAssumption DEF RingTypes
<1>n. PICK n : n = (head + 1) % KBD_BUFFER_SIZE
  OBVIOUS
<1>2. n = IF head + 1 = KBD_BUFFER_SIZE THEN 0 ELSE head + 1
  BY <1>1, <1>n, NextIndex
<1>3. n = tail <=> Used = KBD_BUFFER_SIZE - 1
  BY <1>1, <1>2 DEF Used
<1>4. /\ Used \in 0 .. KBD_BUFFER_SIZE - 1
      /\ Used = 0 <=> tail = head
      /\ Slot(0) = tail /\ Slot(Used) = head
      /\ \A i \in 0 .. Used - 1 : Slot(i) \in 0 .. KBD_BUFFER_SIZE - 1 /\ Slot(i) # head
  BY <1>1 DEF Used, Slot
<1>. QED
  BY <1>3, <1>4, <1>n

\* The two indices, one step on.
LEMMA RingMoves ==
    ASSUME RingTypes
    PROVE  /\ head' = (head + 1) % KBD_BUFFER_SIZE /\ head' # tail /\ tail' = tail =>
                Used' = Used + 1 /\ \A i \in 0 .. KBD_BUFFER_SIZE : Slot(i)' = Slot(i)
           /\ tail' = (tail + 1) % KBD_BUFFER_SIZE /\ tail # head /\ head' = head =>
                Used' = Used - 1 /\ \A i \in 0 .. KBD_BUFFER_SIZE - 1 : Slot(i)' = Slot(i + 1)
<1>1. /\ KBD_BUFFER_SIZE \in Nat \ {0} /\ head \in 0 .. KBD_BUFFER_SIZE - 1
      /\ tail \in 0 .. KBD_BUFFER_SIZE - 1
  BY KeyboardAssumption DEF RingTypes
<1>2. ASSUME head' = (head + 1) % KBD_BUFFER_SIZE, head' # tail, tail' = tail
      PROVE  Used' = Used + 1 /\ \A i \in 0 .. KBD_BUFFER_SIZE : Slot(i)' = Slot(i)
  <2>1. head' = IF head + 1 = KBD_BUFFER_SIZE THEN 0 ELSE head + 1
    BY <1>1, <1>2, NextIndex
  <2>. QED
    BY <1>1, <1>2, <2>1 DEF Used, Slot
<1>3. ASSUME tail' = (tail + 1) % KBD_BUFFER_SIZE, tail # head, head' = head
      PROVE  Used' = Used - 1 /\ \A i \in 0 .. KBD_BUFFER_SIZE - 1 : Slot(i)' = Slot(i + 1)
  <2>1. tail' = IF tail + 1 = KBD_BUFFER_SIZE THEN 0 ELSE tail + 1
    BY <1>1, <1>3, NextIndex
  <2>2. Used' = Used - 1
    BY <1>1, <1>3, <2>1 DEF Used
  <2>3. ASSUME NEW i \in 0 .. KBD_BUFFER_SIZE - 1 PROVE Slot(i)' = Slot(i + 1)
    BY <1>1, <1>3, <2>1 DEF Slot
  <2>. QED
    BY <2>2, <2>3
<1>. QED
  BY <1>2, <1>3

\* A character is put behind those that wait, or refused when the buffer is full.
LEMMA BufferPush ==
    ASSUME RingIInv, NEW c \in Char, buffer_push(c)
    PROVE  /\ RingIInv'
           /\ \/ Buffer!Put(c)
              \/ Buffer!Refuse
<1>1. /\ RingTypes /\ read \in Seq(Char) /\ RingExact
  BY DEF RingIInv
<1>u. PICK u : u = Used
  OBVIOUS
<1>m. PICK m : m = Len(typed)
  OBVIOUS
<1>d. PICK d : d = Len(read)
  OBVIOUS
<1>x. PICK x : x = (head + 1) % KBD_BUFFER_SIZE
  OBVIOUS
<1>2. /\ u \in 0 .. KBD_BUFFER_SIZE - 1 /\ KBD_BUFFER_SIZE \in Nat \ {0}
      /\ x = tail <=> u = KBD_BUFFER_SIZE - 1
      /\ m \in Nat /\ d \in Nat /\ m = d + u
      /\ \A i \in 1 .. u : typed[d + i] = buffer[Slot(i - 1)]
      /\ Slot(u) = head /\ \A i \in 0 .. u - 1 : Slot(i) # head
  BY <1>1, <1>u, <1>m, <1>d, <1>x, RingFacts, KeyboardAssumption DEF RingTypes, RingExact
<1>3. CASE x = tail
  <2>1. refused' = refused + 1 /\ UNCHANGED <<buffer, head, tail, typed, read>>
    BY <1>3, <1>x DEF buffer_push, BufferFull, ring
  <2>2. RingIInv'
    BY <1>1, <2>1 DEF RingIInv, RingTypes, RingExact, Used, Slot
  <2>3. m - d = KBD_BUFFER_SIZE - 1
    BY <1>2, <1>3
  <2>. QED
    BY <1>m, <1>d, <2>1, <2>2, <2>3 DEF Buffer!Refuse, Buffer!Waiting
<1>4. CASE x # tail
  <2>1. /\ buffer' = [buffer EXCEPT ![head] = c] /\ head' = x
        /\ typed' = Append(typed, c) /\ UNCHANGED <<tail, read, refused>>
    BY <1>4, <1>x DEF buffer_push, BufferFull
  <2>2. /\ typed' \in Seq(Char) /\ Len(typed') = m + 1 /\ typed'[m + 1] = c
        /\ \A i \in 1 .. m : typed'[i] = typed[i]
    BY <1>1, <1>m, <2>1 DEF RingTypes
  <2>3. x \in 0 .. KBD_BUFFER_SIZE - 1
    BY <1>1, <1>x, NextIndex DEF RingTypes
  <2>4. RingTypes'
    BY <1>1, <2>1, <2>2, <2>3 DEF RingTypes
  <2>5. Used' = u + 1 /\ \A i \in 0 .. KBD_BUFFER_SIZE : Slot(i)' = Slot(i)
    BY <1>1, <1>4, <1>u, <1>x, <2>1, RingMoves
  <2>6. ASSUME NEW i \in 1 .. u + 1 PROVE typed'[d + i] = buffer'[Slot(i - 1)']
    <3>j. PICK j : j = i - 1
      OBVIOUS
    <3>1. j \in 0 .. KBD_BUFFER_SIZE /\ j \in 0 .. u
      BY <1>2, <3>j
    <3>2. Slot(j)' = Slot(j)
      BY <2>5, <3>1
    <3>3. head \in DOMAIN buffer /\ buffer'[head] = c
          /\ \A k \in DOMAIN buffer : k # head => buffer'[k] = buffer[k]
      BY <1>1, <2>1 DEF RingTypes
    <3>4. CASE i = u + 1
      <4>1. j = u /\ d + i = m + 1
        BY <1>2, <3>4, <3>j
      <4>. QED
        BY <1>2, <2>2, <3>2, <3>3, <3>j, <4>1
    <3>5. CASE i # u + 1
      <4>1. i \in 1 .. u /\ d + i \in 1 .. m /\ j \in 0 .. u - 1
        BY <1>2, <3>5, <3>j
      <4>2. Slot(j) \in DOMAIN buffer /\ Slot(j) # head
        BY <1>1, <1>u, <4>1, RingFacts DEF RingTypes
      <4>3. typed[d + i] = buffer[Slot(j)]
        BY <1>2, <3>j, <4>1
      <4>. QED
        BY <2>2, <3>2, <3>3, <3>j, <4>1, <4>2, <4>3
    <3>. QED
      BY <3>4, <3>5
  <2>7. Len(typed') = Len(read') + Used'
    <3>1. Len(read') = d /\ Len(typed') = m + 1 /\ Used' = u + 1
      BY <1>d, <2>1, <2>2, <2>5
    <3>2. m \in Nat /\ d \in Nat /\ u \in Nat /\ m = d + u
      BY <1>2
    <3>. QED
      BY <3>1, <3>2
  <2>8. RingExact'
    BY <1>d, <2>1, <2>5, <2>6, <2>7 DEF RingExact
  <2>9. m - d < KBD_BUFFER_SIZE - 1
    BY <1>2, <1>4
  <2>10. Buffer!Put(c)
    BY <1>m, <1>d, <2>1, <2>9 DEF Buffer!Put, Buffer!Waiting
  <2>. QED
    BY <1>1, <2>1, <2>4, <2>8, <2>10 DEF RingIInv
<1>. QED
  BY <1>3, <1>4

\* A task takes the oldest character that waits.
LEMMA BufferPop ==
    ASSUME RingIInv, keyboard_get_char
    PROVE  RingIInv' /\ Buffer!Take
<1>1. /\ RingTypes /\ read \in Seq(Char) /\ RingExact
  BY DEF RingIInv
<1>2. /\ head # tail /\ read' = Append(read, buffer[tail])
      /\ tail' = (tail + 1) % KBD_BUFFER_SIZE /\ UNCHANGED <<buffer, head, typed, refused>>
  BY DEF keyboard_get_char, keyboard_has_char
<1>u. PICK u : u = Used
  OBVIOUS
<1>m. PICK m : m = Len(typed)
  OBVIOUS
<1>d. PICK d : d = Len(read)
  OBVIOUS
<1>3. /\ u \in 0 .. KBD_BUFFER_SIZE - 1 /\ u # 0 /\ KBD_BUFFER_SIZE \in Nat \ {0}
      /\ m \in Nat /\ d \in Nat /\ m = d + u
      /\ \A i \in 1 .. u : typed[d + i] = buffer[Slot(i - 1)]
      /\ Slot(0) = tail
  BY <1>1, <1>2, <1>u, <1>m, <1>d, RingFacts, KeyboardAssumption DEF RingTypes, RingExact
<1>4. buffer[tail] = typed[d + 1] /\ d + 1 \in 1 .. m
  <2>1. 1 \in 1 .. u /\ 1 - 1 = 0 /\ d + 1 \in 1 .. m
    BY <1>3
  <2>2. typed[d + 1] = buffer[Slot(1 - 1)]
    BY <1>3, <2>1
  <2>. QED
    BY <1>3, <2>1, <2>2
<1>5. typed[d + 1] \in Char
  BY <1>1, <1>4, <1>m DEF RingTypes
<1>6. read' \in Seq(Char) /\ Len(read') = d + 1
  BY <1>1, <1>2, <1>4, <1>5, <1>d
<1>7. Used' = u - 1 /\ \A i \in 0 .. KBD_BUFFER_SIZE - 1 : Slot(i)' = Slot(i + 1)
  BY <1>1, <1>2, <1>u, RingMoves
<1>8. RingTypes'
  <2>1. tail' \in 0 .. KBD_BUFFER_SIZE - 1
    BY <1>1, <1>2, NextIndex DEF RingTypes
  <2>. QED
    BY <1>1, <1>2, <1>3, <1>6, <2>1 DEF RingTypes
<1>9. RingExact'
  <2>1. Len(typed') = Len(read') + Used'
    BY <1>2, <1>3, <1>6, <1>7, <1>m
  <2>2. ASSUME NEW i \in 1 .. u - 1 PROVE typed'[(d + 1) + i] = buffer'[Slot(i - 1)']
    <3>1. /\ i + 1 \in 1 .. u /\ (d + 1) + i = d + (i + 1) /\ (i + 1) - 1 = i
          /\ i - 1 \in 0 .. KBD_BUFFER_SIZE - 1 /\ (i - 1) + 1 = i
      BY <1>3
    <3>2. Slot(i - 1)' = Slot(i)
      BY <1>7, <3>1
    <3>3. typed[d + (i + 1)] = buffer[Slot(i)]
      BY <1>3, <3>1
    <3>. QED
      BY <1>2, <3>1, <3>2, <3>3
  <2>. QED
    BY <1>6, <1>7, <2>1, <2>2 DEF RingExact
<1>10. Buffer!Take
  <2>1. m - d > 0
    BY <1>3
  <2>. QED
    BY <1>2, <1>4, <1>m, <1>d, <2>1 DEF Buffer!Take, Buffer!Waiting
<1>. QED
  BY <1>6, <1>8, <1>9, <1>10 DEF RingIInv

\* Of all steps only these two touch the buffer.
LEMMA BufferSteps ==
    ASSUME RingIInv, [Next]_vars
    PROVE  RingIInv' /\ [Buffer!Next]_<<typed, read, refused>>
<1>1. CASE UNCHANGED <<buffer, head, tail, typed, read, refused>>
  BY <1>1 DEF RingIInv, RingTypes, RingExact, Used, Slot
<1>2. CASE \E c \in Char : buffer_push(c)
  <2>1. PICK c \in Char : buffer_push(c)
    BY <1>2
  <2>2. RingIInv' /\ (Buffer!Put(c) \/ Buffer!Refuse)
    BY <2>1, BufferPush
  <2>. QED
    BY <2>2 DEF Buffer!Next, Char
<1>3. CASE keyboard_get_char
  BY <1>3, BufferPop DEF Buffer!Next
<1>4. CASE keyboard_on_scancode
  <2>1. PICK c : BreakCode(c) \/ MakeCode(c)
    BY <1>4 DEF keyboard_on_scancode
  <2>2. CASE BreakCode(c)
    BY <1>1, <2>2 DEF BreakCode, ring, fifo
  <2>3. CASE ModifierMake(c)
    BY <1>1, <2>3 DEF ModifierMake, ring, fifo
  <2>4. CASE CharacterMake(c)
    <3>t. PICK t : t = translate_scancode(c)
      OBVIOUS
    <3>1. t \in Char \cup {"none"}
      BY <3>t DEF translate_scancode, Char
    <3>2. CASE t = "none"
      BY <1>1, <2>4, <3>t, <3>2 DEF CharacterMake, ring, fifo
    <3>3. CASE t # "none"
      <4>1. buffer_push(t) /\ t \in Char
        BY <2>4, <3>t, <3>1, <3>3 DEF CharacterMake
      <4>. QED
        BY <1>2, <4>1
    <3>. QED
      BY <3>2, <3>3
  <2>. QED
    BY <2>1, <2>2, <2>3, <2>4 DEF MakeCode
<1>5. CASE \E k \in Key : KeyDown(k) \/ KeyUp(k)
  BY <1>1, <1>5 DEF KeyDown, KeyUp, driver, ring, fifo
<1>6. CASE UNCHANGED vars
  BY <1>1, <1>6 DEF vars, ring, fifo
<1>. QED
  BY <1>3, <1>4, <1>5, <1>6 DEF Next

\* The buffer is empty at first.
LEMMA BufferInit == Init => RingIInv /\ Buffer!Init
<1>. SUFFICES ASSUME Init PROVE RingIInv /\ Buffer!Init
  OBVIOUS
<1>1. /\ buffer = [i \in 0 .. KBD_BUFFER_SIZE - 1 |-> "none"] /\ head = 0 /\ tail = 0
      /\ typed = << >> /\ read = << >> /\ refused = 0
  BY DEF Init
<1>2. /\ typed \in Seq(Char) /\ read \in Seq(Char) /\ Len(typed) = 0 /\ Len(read) = 0
  BY <1>1
<1>3. RingTypes
  BY <1>1, <1>2, KeyboardAssumption DEF RingTypes
<1>4. RingExact
  <2>1. Used = 0
    BY <1>1 DEF Used
  <2>. QED
    BY <1>2, <2>1 DEF RingExact
<1>. QED
  BY <1>1, <1>2, <1>3, <1>4 DEF RingIInv, Buffer!Init

\* Whatever is typed and whenever a task reads: the ring of KBD_BUFFER_SIZE slots
\* hands out every character once and in order, and refuses one only when all
\* slots but one are taken (buffer_push, keyboard_get_char).
THEOREM TypedIsFifo == Spec => TypedFifo
<1>1. Init => RingIInv /\ Buffer!Init
  BY BufferInit
<1>2. RingIInv /\ [Next]_vars => RingIInv' /\ [Buffer!Next]_<<typed, read, refused>>
  BY BufferSteps
<1>. QED
  BY <1>1, <1>2, PTL DEF Spec, TypedFifo, Buffer!Spec, Buffer!fifoVars

=============================================================================
