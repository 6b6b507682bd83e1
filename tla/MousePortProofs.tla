-------------------------- MODULE MousePortProofs --------------------------
(***************************************************************************)
(* Proofs about the bytes of the mouse, for every number of bytes that     *)
(* wait in the controller.                                                 *)
(***************************************************************************)
EXTENDS MousePort, TLAPS

PartOfMouse(p) == [src |-> "mouse", part |-> p]

\* s holds the first p bytes of a packet, in their order.
FirstParts(s, p) ==
    /\ s \in Seq(PacketByte)
    /\ Len(s) = p
    /\ \A i \in 1 .. p : s[i] = PartOfMouse(i - 1)

\* After the first byte of a calm packet the assembly holds that byte alone, or
\* two bytes, or none; after the second it holds those two or none; after the
\* third it is empty.
Stepping ==
    /\ \A i \in 1 .. Len(queue) :
          queue[i].src = "mouse" /\ queue[i].part = 0 => queue[i].bit3
    /\ calm = 1 =>
          /\ nextPart = 1
          /\ packet = << >> \/ FirstParts(packet, 1) \/ Len(packet) = 2
    /\ calm = 2 =>
          /\ nextPart = 2
          /\ packet = << >> \/ FirstParts(packet, 2)
    /\ calm = 3 => FirstParts(packet, nextPart)

\* The byte at the port has its request wherever its line is enabled, and a
\* configuration that was read and not mistaken enables both lines.
Requesting ==
    /\ Raised(queue) \subseteq requested
    /\ pc \in {"ask", "status", "write"} =>
          /\ "keyboard" \in irqOn
          /\ \A i \in 1 .. Len(queue) : queue[i].src = "reply" => queue[i].bit0
    /\ status.src = "reply" => status.bit0
    /\ status.src = "reply" /\ pc \in {"ack", "sti", "run"} => irqOn = Line

\* The first parts of a packet grow by the part that follows.
LEMMA FirstPartsGrow ==
    ASSUME NEW s, NEW p \in 0 .. 1, FirstParts(s, p)
    PROVE  FirstParts(Append(s, PartOfMouse(p)), p + 1)
<1>1. PartOfMouse(p) \in PacketByte
  BY DEF PartOfMouse, PacketByte
<1>. QED
  BY <1>1 DEF FirstParts

\* A packet of which nothing has come is empty.
LEMMA FirstPartsNone == FirstParts(<< >>, 0)
  BY DEF FirstParts

\* What a byte that arrives does to the queue.
LEMMA ArrivalFacts ==
    ASSUME TypeOK, NEW b \in Bytes, Arrives(b)
    PROVE  /\ queue' \in Seq(Bytes) /\ Len(queue') <= MaxQueue
           /\ requested' \subseteq Line
           /\ Len(queue') = Len(queue) + 1
           /\ \A i \in 1 .. Len(queue') :
                 queue'[i] = IF i \in 1 .. Len(queue) THEN queue[i] ELSE b
           /\ requested \subseteq requested'
           /\ queue = << >> => Raised(<<b>>) \subseteq requested'
<1>. USE MousePortAssumption
<1>1. Raised(<<b>>) \subseteq Line
  BY DEF Raised, TypeOK
<1>2. queue' = Append(queue, b) /\ Len(queue) < MaxQueue /\ Len(queue) \in Nat
  BY DEF Arrives, TypeOK
<1>3. queue' \in Seq(Bytes) /\ Len(queue') = Len(queue) + 1
  BY <1>2 DEF TypeOK
<1>4. \A i \in 1 .. Len(queue') :
         queue'[i] = IF i \in 1 .. Len(queue) THEN queue[i] ELSE b
  BY <1>2, <1>3 DEF TypeOK
<1>5. requested \subseteq requested' /\ requested' \subseteq Line
  BY <1>1 DEF Arrives, TypeOK
<1>6. queue = << >> => Raised(<<b>>) \subseteq requested'
  BY DEF Arrives
<1>. QED
  BY <1>2, <1>3, <1>4, <1>5, <1>6

\* What reading the port does to the queue.
LEMMA ReadFacts ==
    ASSUME TypeOK, NEW taken \in SUBSET Line, ReadPort(taken)
    PROVE  /\ queue' \in Seq(Bytes) /\ Len(queue') <= MaxQueue
           /\ last' \in Bytes /\ Port \in Bytes
           /\ requested' \subseteq Line
           /\ Raised(queue)' \subseteq requested'
           /\ queue # << >> => Port = queue[1]
           /\ \A i \in 1 .. Len(queue') : i + 1 \in 1 .. Len(queue) /\ queue'[i] = queue[i + 1]
           /\ irqOn' = irqOn
<1>. USE MousePortAssumption
<1>1. irqOn' = irqOn /\ last' = Port
  BY DEF ReadPort
<1>2. CASE queue = << >>
  <2>1. queue' = << >> /\ Port = last
    BY <1>2 DEF ReadPort, Port
  <2>2. requested' \subseteq Line /\ Raised(queue)' \subseteq requested'
    BY <2>1, <1>1 DEF ReadPort, Raised, TypeOK
  <2>. QED
    BY <1>1, <1>2, <2>1, <2>2 DEF TypeOK
<1>3. CASE queue # << >>
  <2>1. queue' = Tail(queue) /\ Port = queue[1] /\ Len(queue) \in Nat \ {0}
    BY <1>3 DEF ReadPort, Port, TypeOK
  <2>2. queue' \in Seq(Bytes) /\ Len(queue') = Len(queue) - 1 /\ Port \in Bytes
    BY <1>3, <2>1 DEF TypeOK
  <2>3. \A i \in 1 .. Len(queue') : i + 1 \in 1 .. Len(queue) /\ queue'[i] = queue[i + 1]
    BY <1>3, <2>1, <2>2 DEF TypeOK
  <2>4. Raised(queue)' \subseteq Line /\ requested' = (requested \ taken) \cup Raised(queue')
    BY <1>1 DEF ReadPort, Raised, TypeOK
  <2>5. Raised(queue)' = Raised(queue')
    BY <1>1 DEF Raised
  <2>. QED
    BY <1>1, <1>3, <2>1, <2>2, <2>3, <2>4, <2>5 DEF TypeOK
<1>. QED
  BY <1>2, <1>3

\* At most two bytes of a packet are kept.
LEMMA PacketFacts ==
    ASSUME TypeOK
    PROVE  packet \in Seq(PacketByte) /\ Len(packet) \in 0 .. 2
<1>1. packet \in Seq(PacketByte) /\ Len(packet) <= 2
  BY Zenon DEF TypeOK
<1>. DEFINE n == Len(packet)
<1>2. n \in Nat /\ n <= 2
  BY <1>1
<1>. HIDE DEF n
<1>3. n \in 0 .. 2
  BY <1>2
<1>. QED
  BY <1>1, <1>3, Zenon DEF n

\* A packet that grows stays a packet of at most two bytes.
LEMMA PacketGrows ==
    ASSUME NEW s \in Seq(PacketByte), NEW e \in PacketByte
    PROVE  /\ Append(s, e) \in Seq(PacketByte)
           /\ Len(s) = 0 => Len(Append(s, e)) = 1
           /\ Len(s) = 1 => Len(Append(s, e)) = 2
<1>1. Append(s, e) \in Seq(PacketByte) /\ Len(Append(s, e)) = Len(s) + 1
  OBVIOUS
<1>2. 0 + 1 = 1 /\ 1 + 1 = 2
  OBVIOUS
<1>. QED
  BY <1>1, <1>2, Zenon

-----------------------------------------------------------------------------
(* Types *)

\* The initial state has its types.
LEMMA TypesInit == Init => TypeOK
<1>1. Byte("key", FALSE, FALSE, 0) \in Bytes
  BY DEF Byte, Bytes
<1>. SUFFICES ASSUME Init PROVE TypeOK
  OBVIOUS
<1>2. queue \in Seq(Bytes) /\ Len(queue) <= MaxQueue
  BY MousePortAssumption DEF Init
<1>3. packet \in Seq(PacketByte) /\ Len(packet) <= 2
  BY DEF Init
<1>4. due \in Seq({"reply", "ack"})
  BY DEF Init
<1>5. last \in Bytes /\ status \in Bytes
  BY <1>1 DEF Init
<1>6. irqOn \subseteq Line /\ requested \subseteq Line
  BY DEF Init, Line
<1>7. /\ pc \in {"ask", "status", "write", "ack", "sti", "run"}
      /\ streaming \in BOOLEAN
      /\ part \in 0 .. 2 /\ nextPart \in 0 .. 2 /\ calm \in 0 .. 3
  <2>1. pc \in {"ask", "status", "write", "ack", "sti", "run"} /\ streaming \in BOOLEAN
    BY Zenon DEF Init
  <2>2. part = 0 /\ nextPart = 0 /\ calm = 0
    BY Zenon DEF Init
  <2>3. part \in 0 .. 2 /\ nextPart \in 0 .. 2 /\ calm \in 0 .. 3
    BY <2>2
  <2>. QED
    BY <2>1, <2>3
<1>. QED
  BY <1>2, <1>3, <1>4, <1>5, <1>6, <1>7 DEF TypeOK

\* Every step keeps the types.
LEMMA TypesNext == TypeOK /\ [Next]_vars => TypeOK'
<1>. SUFFICES ASSUME TypeOK, [Next]_vars PROVE TypeOK'
  OBVIOUS
<1>. USE MousePortAssumption DEF Line
<1>1. CASE KeyArrives
  <2>1. PICK bit0 \in BOOLEAN, bit3 \in BOOLEAN : Arrives(Byte("key", bit0, bit3, 0))
    BY <1>1 DEF KeyArrives
  <2>2. Byte("key", bit0, bit3, 0) \in Bytes
    BY DEF Byte, Bytes
  <2>. QED
    BY <1>1, <2>1, <2>2, ArrivalFacts DEF KeyArrives, TypeOK, mouse, history
<1>2. CASE AnswerArrives
  <2>1. due' \in Seq({"reply", "ack"})
    BY <1>2 DEF AnswerArrives, TypeOK
  <2>2. PICK b \in Bytes : Arrives(b)
    <3>1. Byte("reply", "keyboard" \in irqOn, FALSE, 0) \in Bytes /\ Byte("ack", FALSE, TRUE, 0) \in Bytes
      BY DEF Byte, Bytes
    <3>. QED
      BY <1>2, <3>1 DEF AnswerArrives
  <2>3. streaming' \in BOOLEAN
    BY <1>2 DEF AnswerArrives, TypeOK
  <2>. QED
    BY <1>2, <2>1, <2>2, <2>3, ArrivalFacts DEF AnswerArrives, TypeOK, history
<1>3. CASE MouseSends
  <2>1. PICK b \in Bytes : Arrives(b)
    <3>1. PICK bit3 \in BOOLEAN : Arrives(Byte("mouse", FALSE, bit3, part))
      BY <1>3 DEF MouseSends
    <3>2. Byte("mouse", FALSE, bit3, part) \in Bytes
      BY DEF Byte, Bytes, TypeOK
    <3>. QED
      BY <3>1, <3>2
  <2>2. part' \in 0 .. 2
    BY <1>3 DEF MouseSends, TypeOK
  <2>. QED
    BY <1>3, <2>1, <2>2, ArrivalFacts DEF MouseSends, TypeOK, history
<1>4. CASE MouseByteLost
  BY <1>4 DEF MouseByteLost, TypeOK, controller, history
<1>5. CASE AskStatus
  BY <1>5 DEF AskStatus, TypeOK, mouse, history
<1>6. CASE ReadStatus
  <2>1. {} \in SUBSET Line /\ ReadPort({})
    BY <1>6 DEF ReadStatus
  <2>2. /\ Port \in Bytes /\ queue' \in Seq(Bytes) /\ Len(queue') <= MaxQueue
        /\ last' \in Bytes /\ requested' \subseteq Line /\ irqOn' = irqOn
    BY <2>1, ReadFacts
  <2>3. due' = due
    BY <2>1 DEF ReadPort
  <2>. QED
    BY <1>6, <2>2, <2>3 DEF ReadStatus, TypeOK, mouse, history
<1>7. CASE WriteStatus
  <2>1. irqOn' \subseteq Line /\ requested' \subseteq Line
    BY <1>7 DEF WriteStatus, Configured, TypeOK
  <2>2. due' \in Seq({"reply", "ack"})
    BY <1>7 DEF WriteStatus, TypeOK
  <2>. QED
    BY <1>7, <2>1, <2>2 DEF WriteStatus, TypeOK, mouse, history
<1>8. CASE ReadAck
  <2>1. {} \in SUBSET Line /\ ReadPort({})
    BY <1>8 DEF ReadAck
  <2>2. /\ Port \in Bytes /\ queue' \in Seq(Bytes) /\ Len(queue') <= MaxQueue
        /\ last' \in Bytes /\ requested' \subseteq Line /\ irqOn' = irqOn
    BY <2>1, ReadFacts
  <2>3. due' = due
    BY <2>1 DEF ReadPort
  <2>. QED
    BY <1>8, <2>2, <2>3 DEF ReadAck, TypeOK, mouse
<1>9. CASE EnableInterrupts
  BY <1>9 DEF EnableInterrupts, TypeOK, controller, mouse, history
<1>10. CASE mouse_handler
  <2>1. Port \in Bytes /\ queue' \in Seq(Bytes) /\ Len(queue') <= MaxQueue
        /\ last' \in Bytes /\ requested' \subseteq Line /\ irqOn' = irqOn
    BY <1>10, ReadFacts DEF mouse_handler
  <2>5. due' = due
    BY <1>10 DEF mouse_handler, ReadPort
  <2>2. packet' \in Seq(PacketByte) /\ Len(packet') \in 0 .. 2
    <3>1. [src |-> Port.src, part |-> Port.part] \in PacketByte
      BY <2>1 DEF Bytes, PacketByte
    <3>2. \/ packet' = packet
          \/ packet' = << >>
          \/ /\ Len(packet) # 2
             /\ packet' = Append(packet, [src |-> Port.src, part |-> Port.part])
      BY <1>10 DEF mouse_handler, mouse_on_data
    <3>3. packet \in Seq(PacketByte) /\ Len(packet) \in 0 .. 2
      BY PacketFacts
    <3>4. ASSUME NEW e \in PacketByte, Len(packet) # 2, packet' = Append(packet, e)
          PROVE  packet' \in Seq(PacketByte) /\ Len(packet') \in 0 .. 2
      <4>1. Len(packet) = 0 \/ Len(packet) = 1
        BY <3>3, <3>4
      <4>2. packet' \in Seq(PacketByte) /\ (Len(packet') = 1 \/ Len(packet') = 2)
        BY <3>3, <3>4, <4>1, PacketGrows
      <4>3. 1 \in 0 .. 2 /\ 2 \in 0 .. 2
        OBVIOUS
      <4>. QED
        BY <4>2, <4>3, Zenon
    <3>5. packet' = << >> => packet' \in Seq(PacketByte) /\ Len(packet') \in 0 .. 2
      OBVIOUS
    <3>6. packet' = packet => packet' \in Seq(PacketByte) /\ Len(packet') \in 0 .. 2
      BY <3>3, Zenon
    <3>. QED
      BY <3>1, <3>2, <3>4, <3>5, <3>6, Zenon
  <2>6. Len(packet') <= 2
    <3>. DEFINE n == Len(packet')
    <3>1. n \in 0 .. 2
      BY <2>2
    <3>. HIDE DEF n
    <3>2. n <= 2
      BY <3>1
    <3>. QED
      BY <3>2 DEF n
  <2>3. calm' \in 0 .. 3
    <3>1. Port.part \in 0 .. 2 /\ calm' = Follows
      BY <1>10, <2>1 DEF mouse_handler, Bytes
    <3>2. \/ Follows = 0 \/ Follows = 1 \/ Follows = 3
          \/ Follows = calm + 1 /\ calm = Port.part
      <4>. DEFINE b == Port
      <4>1. Follows = IF queue = << >> \/ b.src # "mouse" THEN 0
                      ELSE IF calm = 3 /\ b.part = nextPart THEN 3
                      ELSE IF b.part = 0 THEN 1
                      ELSE IF calm = b.part /\ ~b.bit3 THEN calm + 1
                      ELSE 0
        BY DEF Follows
      <4>. HIDE DEF b
      <4>2. \/ Follows = 0 \/ Follows = 1 \/ Follows = 3
            \/ Follows = calm + 1 /\ calm = b.part
        BY <4>1, Zenon
      <4>. QED
        BY <4>2 DEF b
    <3>. QED
      BY <3>1, <3>2
  <2>4. nextPart' \in 0 .. 2
    BY <1>10, <2>1 DEF mouse_handler, NextPart, TypeOK, Bytes
  <2>. QED
    BY <1>10, <2>1, <2>2, <2>3, <2>4, <2>5, <2>6 DEF mouse_handler, TypeOK, mouse
<1>11. CASE keyboard_handler
  <2>1. queue' \in Seq(Bytes) /\ Len(queue') <= MaxQueue
        /\ last' \in Bytes /\ requested' \subseteq Line /\ irqOn' = irqOn
    BY <1>11, ReadFacts DEF keyboard_handler
  <2>3. due' = due
    BY <1>11 DEF keyboard_handler, ReadPort
  <2>2. calm' \in 0 .. 3
    BY <1>11 DEF keyboard_handler, TypeOK
  <2>. QED
    BY <1>11, <2>1, <2>2, <2>3 DEF keyboard_handler, TypeOK, mouse
<1>12. CASE UNCHANGED vars
  BY <1>12 DEF vars, controller, mouse, history, TypeOK
<1>. QED
  BY <1>1, <1>2, <1>3, <1>4, <1>5, <1>6, <1>7, <1>8, <1>9, <1>10, <1>11, <1>12
  DEF Next, mouse_init

\* Nothing of the mouse's state ever leaves its type: two bytes at most are kept
\* of a packet, whatever bytes come.
THEOREM MousePortTypes == Spec => []TypeOK
  BY TypesInit, TypesNext, PTL DEF Spec

-----------------------------------------------------------------------------
(* The assembly of packets *)

\* Nothing is assembled at first.
LEMMA SteppingInit == Init => Stepping
  BY DEF Init, Stepping

\* Every step keeps the assembly in step as Stepping says.
LEMMA SteppingNext == TypeOK /\ Stepping /\ [Next]_vars => Stepping'
<1>. SUFFICES ASSUME TypeOK, Stepping, [Next]_vars PROVE Stepping'
  OBVIOUS
<1>. USE MousePortAssumption
\* A byte that arrives has bit 3 if it is the first of a packet.
<1>0. ASSUME NEW b \in Bytes, Arrives(b), b.src = "mouse" /\ b.part = 0 => b.bit3,
             UNCHANGED <<packet, calm, nextPart>>
      PROVE  Stepping'
  <2>1. \A i \in 1 .. Len(queue') :
           queue'[i] = IF i \in 1 .. Len(queue) THEN queue[i] ELSE b
    BY <1>0, ArrivalFacts
  <2>2. \A i \in 1 .. Len(queue') :
           queue'[i].src = "mouse" /\ queue'[i].part = 0 => queue'[i].bit3
    BY <1>0, <2>1, Zenon DEF Stepping
  <2>. QED
    BY <1>0, <2>2 DEF Stepping
<1>1. CASE KeyArrives
  <2>1. PICK bit0 \in BOOLEAN, bit3 \in BOOLEAN : Arrives(Byte("key", bit0, bit3, 0))
    BY <1>1 DEF KeyArrives
  <2>2. Byte("key", bit0, bit3, 0) \in Bytes /\ Byte("key", bit0, bit3, 0).src = "key"
    BY DEF Byte, Bytes
  <2>. QED
    BY <1>0, <1>1, <2>1, <2>2 DEF KeyArrives, history
<1>2. CASE AnswerArrives
  <2>1. PICK b \in Bytes : Arrives(b) /\ b.src # "mouse"
    <3>1. /\ Byte("reply", "keyboard" \in irqOn, FALSE, 0) \in Bytes
          /\ Byte("ack", FALSE, TRUE, 0) \in Bytes
          /\ Byte("reply", "keyboard" \in irqOn, FALSE, 0).src = "reply"
          /\ Byte("ack", FALSE, TRUE, 0).src = "ack"
      BY DEF Byte, Bytes
    <3>. QED
      BY <1>2, <3>1 DEF AnswerArrives
  <2>. QED
    BY <1>0, <1>2, <2>1 DEF AnswerArrives, history
<1>3. CASE MouseSends
  <2>1. PICK bit3 \in IF part = 0 THEN {TRUE} ELSE BOOLEAN :
           Arrives(Byte("mouse", FALSE, bit3, part))
    BY <1>3 DEF MouseSends
  <2>2. Byte("mouse", FALSE, bit3, part) \in Bytes
    BY DEF Byte, Bytes, TypeOK
  <2>3. Byte("mouse", FALSE, bit3, part).part = 0 => Byte("mouse", FALSE, bit3, part).bit3
    BY <2>1 DEF Byte
  <2>. QED
    BY <1>0, <1>3, <2>1, <2>2, <2>3 DEF MouseSends, history
<1>4. ASSUME UNCHANGED <<queue, packet, history>> PROVE Stepping'
  BY <1>4 DEF Stepping, history, FirstParts
<1>5. CASE MouseByteLost \/ AskStatus \/ WriteStatus \/ EnableInterrupts \/ UNCHANGED vars
  BY <1>4, <1>5
  DEF MouseByteLost, AskStatus, WriteStatus, EnableInterrupts, vars, controller, history
\* What is left in the queue after a byte was read was there before.
<1>6. ASSUME NEW taken \in SUBSET Line, ReadPort(taken)
      PROVE  /\ \A i \in 1 .. Len(queue') :
                   queue'[i].src = "mouse" /\ queue'[i].part = 0 => queue'[i].bit3
             /\ Port \in Bytes
             /\ queue # << >> /\ Port.src = "mouse" /\ Port.part = 0 => Port.bit3
  <2>1. queue # << >> => 1 \in 1 .. Len(queue) /\ Port = queue[1]
    BY <1>6, ReadFacts DEF TypeOK
  <2>2. \A i \in 1 .. Len(queue') : i + 1 \in 1 .. Len(queue) /\ queue'[i] = queue[i + 1]
    BY <1>6, ReadFacts
  <2>3. Port \in Bytes
    BY <1>6, ReadFacts
  <2>. QED
    BY <2>1, <2>2, <2>3 DEF Stepping
<1>7. CASE ReadStatus
  BY <1>6, <1>7 DEF ReadStatus, Stepping, history, FirstParts
<1>8. CASE ReadAck
  BY <1>6, <1>8 DEF ReadAck, Stepping
<1>9. CASE keyboard_handler
  <2>1. calm' = 0 \/ calm' = calm
    BY <1>9 DEF keyboard_handler
  <2>2. packet' = packet /\ nextPart' = nextPart
    BY <1>9 DEF keyboard_handler
  <2>. QED
    BY <1>6, <1>9, <2>1, <2>2 DEF keyboard_handler, Line, Stepping, FirstParts
<1>10. CASE mouse_handler
  <2>. DEFINE b == Port
  <2>1. /\ \A i \in 1 .. Len(queue') :
              queue'[i].src = "mouse" /\ queue'[i].part = 0 => queue'[i].bit3
        /\ b \in Bytes
        /\ queue # << >> /\ b.src = "mouse" /\ b.part = 0 => b.bit3
    BY <1>6, <1>10 DEF mouse_handler, Line
  <2>2. b.src = "mouse" => [src |-> b.src, part |-> b.part] = PartOfMouse(b.part)
    BY DEF PartOfMouse
  <2>3. /\ packet \in Seq(PacketByte) /\ Len(packet) \in 0 .. 2
        /\ packet' = IF packet = << >> /\ ~b.bit3 THEN packet
                     ELSE IF Len(packet) = 2 THEN << >>
                     ELSE Append(packet, [src |-> b.src, part |-> b.part])
        /\ calm' = Follows /\ nextPart' = NextPart
    BY <1>10, PacketFacts DEF mouse_handler, mouse_on_data, IsFirst
  <2>4. ASSUME calm' # 0
        PROVE  /\ queue # << >> /\ b.src = "mouse" /\ b.part \in 0 .. 2
               /\ nextPart' = (b.part + 1) % 3
    <3>1. queue # << >> /\ b.src = "mouse"
      BY <2>3, <2>4 DEF Follows
    <3>. QED
      BY <2>1, <2>3, <3>1 DEF NextPart, Bytes
  <2>5. [src |-> b.src, part |-> b.part] \in PacketByte
    BY <2>1 DEF Bytes, PacketByte
  <2>11. /\ calm' = 1 => b.part = 0
         /\ calm' = 2 => calm = 1 /\ b.part = 1 /\ ~b.bit3
         /\ calm' = 3 => \/ calm = 3 /\ b.part = nextPart
                         \/ calm = 2 /\ b.part = 2 /\ ~b.bit3
    <3>1. calm \in 0 .. 3 /\ b.part \in 0 .. 2
      BY <2>1 DEF TypeOK, Bytes
    <3>2. \/ calm' = 0
          \/ calm' = 3 /\ calm = 3 /\ b.part = nextPart
          \/ calm' = 1 /\ b.part = 0
          \/ calm' = calm + 1 /\ b.part # 0 /\ calm = b.part /\ ~b.bit3
      <4>1. calm' = IF queue = << >> \/ b.src # "mouse" THEN 0
                    ELSE IF calm = 3 /\ b.part = nextPart THEN 3
                    ELSE IF b.part = 0 THEN 1
                    ELSE IF calm = b.part /\ ~b.bit3 THEN calm + 1
                    ELSE 0
        BY <2>3 DEF Follows
      <4>. HIDE DEF b
      <4>. QED
        BY <4>1, Zenon
    <3>. QED
      BY <3>1, <3>2
  <2>9. ASSUME NEW p \in 0 .. 1, FirstParts(packet, p), b.part = p, calm' # 0, p = 0 => b.bit3
        PROVE  FirstParts(packet', p + 1)
    <3>1. Len(packet) = p /\ (packet = << >> => p = 0)
      BY <2>9 DEF FirstParts
    <3>2. packet' = Append(packet, [src |-> b.src, part |-> b.part])
      BY <2>3, <2>9, <3>1
    <3>3. [src |-> b.src, part |-> b.part] = PartOfMouse(p)
      BY <2>2, <2>4, <2>9
    <3>. QED
      BY <2>9, <3>2, <3>3, FirstPartsGrow
  <2>10. ASSUME FirstParts(packet, 2)
         PROVE  FirstParts(packet', 0)
    <3>1. Len(packet) = 2 /\ packet # << >>
      BY <2>10 DEF FirstParts
    <3>2. packet' = << >>
      BY <2>3, <3>1
    <3>. QED
      BY <3>2, FirstPartsNone
  <2>6. ASSUME calm' = 1
        PROVE  /\ nextPart' = 1
               /\ packet' = << >> \/ FirstParts(packet', 1) \/ Len(packet') = 2
    <3>1. b.part = 0 /\ b.bit3
      BY <2>1, <2>3, <2>4, <2>6, <2>11
    <3>2. nextPart' = 1
      BY <2>4, <2>6, <3>1
    <3>3. CASE packet = << >>
      <4>1. FirstParts(packet, 0)
        BY <3>3, FirstPartsNone
      <4>. QED
        BY <2>6, <2>9, <3>1, <3>2, <4>1
    <3>4. CASE packet # << >>
      <4>1. Len(packet) = 2 \/ Len(packet) = 1
        BY <2>3, <3>4
      <4>2. CASE Len(packet) = 1
        <5>1. packet' = Append(packet, [src |-> b.src, part |-> b.part])
          BY <2>3, <3>4, <4>2
        <5>. QED
          BY <2>3, <2>5, <3>2, <4>2, <5>1, PacketGrows
      <4>3. CASE Len(packet) = 2
        <5>1. packet' = << >>
          BY <2>3, <3>4, <4>3
        <5>. QED
          BY <3>2, <5>1
      <4>. QED
        BY <4>1, <4>2, <4>3
    <3>. QED
      BY <3>3, <3>4
  <2>7. ASSUME calm' = 2
        PROVE  nextPart' = 2 /\ (packet' = << >> \/ FirstParts(packet', 2))
    <3>1. b.part = 1 /\ ~b.bit3 /\ calm = 1
      BY <2>1, <2>3, <2>4, <2>7, <2>11
    <3>2. nextPart' = 2
      BY <2>4, <2>7, <3>1
    <3>3. CASE packet = << >>
      BY <2>3, <3>1, <3>2, <3>3
    <3>4. CASE FirstParts(packet, 1)
      BY <2>7, <2>9, <3>1, <3>2, <3>4
    <3>5. CASE Len(packet) = 2
      BY <2>3, <3>1, <3>2, <3>5
    <3>. QED
      BY <3>1, <3>3, <3>4, <3>5 DEF Stepping
  <2>8. ASSUME calm' = 3
        PROVE  FirstParts(packet', nextPart')
    <3>1. CASE calm = 3 /\ b.part = nextPart
      <4>1. FirstParts(packet, b.part)
        BY <3>1 DEF Stepping
      <4>2. b.part = 0 => b.bit3
        BY <2>1, <2>4, <2>8
      <4>3. CASE b.part \in 0 .. 1
        <5>1. FirstParts(packet', b.part + 1)
          BY <2>8, <2>9, <4>1, <4>2, <4>3
        <5>2. nextPart' = b.part + 1
          BY <2>4, <2>8, <4>3
        <5>. QED
          BY <5>1, <5>2
      <4>4. CASE b.part = 2
        <5>1. FirstParts(packet', 0)
          BY <2>10, <4>1, <4>4
        <5>2. nextPart' = 0
          BY <2>4, <2>8, <4>4
        <5>. QED
          BY <5>1, <5>2
      <4>. QED
        BY <2>4, <2>8, <4>3, <4>4
    <3>2. CASE calm = 2 /\ b.part = 2 /\ ~b.bit3
      <4>1. nextPart' = 0
        BY <2>4, <2>8, <3>2
      <4>2. CASE packet = << >>
        <5>1. packet' = << >>
          BY <2>3, <3>2, <4>2
        <5>. QED
          BY <4>1, <5>1, FirstPartsNone
      <4>3. CASE FirstParts(packet, 2)
        BY <2>10, <4>1, <4>3
      <4>. QED
        BY <3>2, <4>2, <4>3 DEF Stepping
    <3>. QED
      BY <2>8, <2>11, <3>1, <3>2
  <2>. QED
    BY <2>1, <2>6, <2>7, <2>8 DEF Stepping
<1>. QED
  BY <1>1, <1>2, <1>3, <1>5, <1>7, <1>8, <1>9, <1>10 DEF Next, mouse_init

\* For every number of waiting bytes and every order of lost, stolen and repeated
\* bytes: mouse_on_data is in step with the mouse after one calm packet.
THEOREM StaysInStep == Spec => []InStep
<1>1. TypeOK /\ Stepping => InStep
  <2>. SUFFICES ASSUME Stepping, calm = 3
                PROVE  /\ Len(packet) = nextPart
                       /\ \A i \in 1 .. Len(packet) :
                             packet[i] = [src |-> "mouse", part |-> i - 1]
    BY DEF InStep
  <2>1. FirstParts(packet, nextPart)
    BY DEF Stepping
  <2>. QED
    BY <2>1 DEF FirstParts, PartOfMouse
<1>. QED
  BY <1>1, TypesInit, TypesNext, SteppingInit, SteppingNext, PTL DEF Spec

-----------------------------------------------------------------------------
(* The requests *)

\* No byte waits at first.
LEMMA RequestingInit == Init => Requesting
<1>. SUFFICES ASSUME Init PROVE Requesting
  OBVIOUS
<1>1. Raised(queue) = {}
  BY DEF Init, Raised
<1>2. status.src = "key" /\ "keyboard" \in irqOn
  BY DEF Init, Byte
<1>3. Len(queue) = 0
  BY DEF Init
<1>. QED
  BY <1>1, <1>2, <1>3 DEF Requesting

\* What Requesting says of a step that only adds a byte to the queue.
LEMMA ArrivalRequests ==
    ASSUME TypeOK, Requesting, NEW b \in Bytes, Arrives(b),
           b.src = "reply" => b.bit0 \/ "keyboard" \notin irqOn,
           UNCHANGED <<pc, irqOn, status>>
    PROVE  Requesting'
<1>1. /\ \A i \in 1 .. Len(queue') :
            queue'[i] = IF i \in 1 .. Len(queue) THEN queue[i] ELSE b
      /\ requested \subseteq requested'
      /\ queue = << >> => Raised(<<b>>) \subseteq requested'
      /\ queue' \in Seq(Bytes) /\ Len(queue') = Len(queue) + 1
  BY ArrivalFacts
<1>2. Raised(queue)' \subseteq requested'
  <2>1. queue \in Seq(Bytes)
    BY DEF TypeOK
  <2>2. Raised(queue)' = Raised(queue')
    BY DEF Raised
  <2>3. CASE queue = << >>
    <3>1. queue' = <<b>>
      BY <2>3 DEF Arrives
    <3>. QED
      BY <1>1, <2>2, <2>3, <3>1
  <2>4. CASE queue # << >>
    <3>1. Len(queue) \in Nat \ {0}
      BY <2>1, <2>4
    <3>2. queue'[1] = queue[1] /\ queue' # << >>
      BY <1>1, <2>1, <3>1
    <3>3. Raised(queue') = Raised(queue)
      BY <2>4, <3>2 DEF Raised
    <3>. QED
      BY <1>1, <2>2, <3>3 DEF Requesting
  <2>. QED
    BY <2>3, <2>4
<1>3. pc \in {"ask", "status", "write"} =>
         \A i \in 1 .. Len(queue') : queue'[i].src = "reply" => queue'[i].bit0
  BY <1>1 DEF Requesting
<1>. QED
  BY <1>2, <1>3 DEF Requesting

\* What Requesting says of a step that only reads a byte of the queue.
LEMMA ReadRequests ==
    ASSUME TypeOK, Requesting, NEW taken \in SUBSET Line, ReadPort(taken)
    PROVE  /\ Raised(queue)' \subseteq requested'
           /\ irqOn' = irqOn
           /\ pc \in {"ask", "status", "write"} =>
                 /\ queue # << >> /\ Port.src = "reply" => Port.bit0
                 /\ \A i \in 1 .. Len(queue') : queue'[i].src = "reply" => queue'[i].bit0
<1>1. queue # << >> => 1 \in 1 .. Len(queue) /\ Port = queue[1]
  <2>1. queue \in Seq(Bytes)
    BY DEF TypeOK
  <2>. QED
    BY <2>1, ReadFacts
<1>2. \A i \in 1 .. Len(queue') : i + 1 \in 1 .. Len(queue) /\ queue'[i] = queue[i + 1]
  BY ReadFacts
<1>3. Raised(queue)' \subseteq requested' /\ irqOn' = irqOn
  BY ReadFacts
<1>. QED
  BY <1>1, <1>2, <1>3 DEF Requesting

\* Every step keeps the byte at the port requested.
LEMMA RequestingNext == TypeOK /\ Requesting /\ [Next]_vars => Requesting'
<1>. SUFFICES ASSUME TypeOK, Requesting, [Next]_vars PROVE Requesting'
  OBVIOUS
<1>1. CASE KeyArrives
  <2>1. PICK bit0 \in BOOLEAN, bit3 \in BOOLEAN : Arrives(Byte("key", bit0, bit3, 0))
    BY <1>1 DEF KeyArrives
  <2>2. Byte("key", bit0, bit3, 0) \in Bytes /\ Byte("key", bit0, bit3, 0).src = "key"
    BY DEF Byte, Bytes
  <2>. QED
    BY <1>1, <2>1, <2>2, ArrivalRequests DEF KeyArrives
<1>2. CASE AnswerArrives
  <2>1. PICK b \in Bytes : Arrives(b) /\ (b.src = "reply" => b.bit0 \/ "keyboard" \notin irqOn)
    <3>1. /\ Byte("reply", "keyboard" \in irqOn, FALSE, 0) \in Bytes
          /\ Byte("ack", FALSE, TRUE, 0) \in Bytes
          /\ Byte("reply", "keyboard" \in irqOn, FALSE, 0).bit0 = ("keyboard" \in irqOn)
          /\ Byte("ack", FALSE, TRUE, 0).src = "ack"
      BY DEF Byte, Bytes
    <3>. QED
      BY <1>2, <3>1 DEF AnswerArrives
  <2>. QED
    BY <1>2, <2>1, ArrivalRequests DEF AnswerArrives
<1>3. CASE MouseSends
  <2>1. PICK bit3 \in BOOLEAN : Arrives(Byte("mouse", FALSE, bit3, part))
    BY <1>3 DEF MouseSends
  <2>2. Byte("mouse", FALSE, bit3, part) \in Bytes
        /\ Byte("mouse", FALSE, bit3, part).src = "mouse"
    BY DEF Byte, Bytes, TypeOK
  <2>. QED
    BY <1>3, <2>1, <2>2, ArrivalRequests DEF MouseSends
<1>4. CASE MouseByteLost \/ UNCHANGED vars
  BY <1>4 DEF MouseByteLost, Requesting, Raised, vars, controller
<1>5. CASE AskStatus
  BY <1>5 DEF AskStatus, Requesting, Raised
<1>6. CASE ReadStatus
  <2>1. ReadPort({}) /\ {} \in SUBSET Line /\ pc = "status" /\ pc' = "write"
        /\ queue # << >> /\ status' = Port
    BY <1>6 DEF ReadStatus
  <2>. QED
    BY <2>1, ReadRequests DEF Requesting
<1>7. CASE WriteStatus
  <2>1. pc = "write" /\ pc' = "ack" /\ queue' = queue /\ status' = status
        /\ irqOn' = Configured(status)
    BY <1>7 DEF WriteStatus
  <2>2. status.src = "reply" => irqOn' = Line
    BY <2>1 DEF Requesting, Configured, Line
  <2>3. Raised(queue)' \subseteq requested'
    <3>1. CASE queue = << >>
      BY <2>1, <3>1 DEF Raised
    <3>2. CASE queue # << >>
      <4>1. Head(queue) = queue[1]
        BY <3>2 DEF TypeOK
      <4>2. Raised(queue)' = {LineOf(queue[1])} \cap irqOn'
        BY <2>1, <3>2 DEF Raised
      <4>3. Raised(queue) = {LineOf(queue[1])} \cap irqOn
        BY <3>2 DEF Raised
      <4>4. requested' = requested \cup ({LineOf(queue[1])} \cap (irqOn' \ irqOn))
        BY <1>7, <3>2, <4>1 DEF WriteStatus
      <4>. QED
        BY <4>2, <4>3, <4>4 DEF Requesting
    <3>. QED
      BY <3>1, <3>2
  <2>. QED
    BY <2>1, <2>2, <2>3 DEF Requesting
<1>8. CASE ReadAck
  <2>1. ReadPort({}) /\ {} \in SUBSET Line /\ pc = "ack" /\ pc' = "sti" /\ status' = status
    BY <1>8 DEF ReadAck
  <2>. QED
    BY <2>1, ReadRequests DEF Requesting
<1>9. CASE EnableInterrupts
  BY <1>9 DEF EnableInterrupts, Requesting, Raised, controller
<1>10. CASE mouse_handler \/ keyboard_handler
  <2>1. PICK taken \in SUBSET Line : ReadPort(taken)
    BY <1>10 DEF mouse_handler, keyboard_handler, Line
  <2>2. pc = "run" /\ pc' = pc /\ status' = status
    BY <1>10 DEF mouse_handler, keyboard_handler
  <2>. QED
    BY <2>1, <2>2, ReadRequests DEF Requesting
<1>. QED
  BY <1>1, <1>2, <1>3, <1>4, <1>5, <1>6, <1>7, <1>8, <1>9, <1>10 DEF Next, mouse_init

\* For every number of waiting bytes: once interrupts are on, the byte at the port
\* has its interrupt requested, if the handshake read the configuration byte.
THEOREM InputNeverStuck == Spec => []InputGoesOn
<1>1. TypeOK /\ Requesting => InputGoesOn
  <2>. SUFFICES ASSUME TypeOK, Requesting, pc = "run", status.src = "reply", queue # << >>
                PROVE  LineOf(Head(queue)) \in requested
    BY DEF InputGoesOn
  <2>1. irqOn = Line /\ Raised(queue) \subseteq requested
    BY DEF Requesting
  <2>2. Head(queue) = queue[1]
    BY DEF TypeOK
  <2>3. Raised(queue) = {LineOf(queue[1])}
    BY <2>1 DEF Raised, LineOf, Line
  <2>. QED
    BY <2>1, <2>2, <2>3
<1>. QED
  BY <1>1, TypesInit, TypesNext, RequestingInit, RequestingNext, PTL DEF Spec

=============================================================================
