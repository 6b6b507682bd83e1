----------------------------- MODULE MousePort -----------------------------
(***************************************************************************)
(* The mouse at the level of its bytes (mouse/mouse.c): the handshake of   *)
(* mouse_init with the PS/2 controller, and the assembly of packets in     *)
(* mouse_on_data.                                                          *)
(*                                                                         *)
(* mouse_init runs with interrupts disabled and takes whatever byte stands *)
(* at port 0x60, a scancode too.  Interrupts that the bytes of the         *)
(* handshake requested stay latched in the PIC until kernel_main enables   *)
(* interrupts: their handlers then read port 0x60 for bytes that are gone. *)
(* External are the controller, the mouse, the keyboard and the PIC, with  *)
(* the latches of QEMU (which the Makefile runs): reading the byte does    *)
(* not take its request back, and an empty port repeats its last byte.     *)
(***************************************************************************)
EXTENDS Integers, Sequences

CONSTANT MaxQueue       \* bound: bytes waiting in the controller

ASSUME MousePortAssumption == MaxQueue \in Nat \ {0}

Line == {"keyboard", "mouse"}

VARIABLES
    pc,             \* where mouse_init stands; "run" after the sti
    queue,          \* controller: the bytes to be read, the first at port 0x60
    last,           \* controller: the byte that was read last
    irqOn,          \* controller: lines that its configuration byte enables
    due,            \* answers that the controller and the mouse still owe
    streaming,      \* the mouse sends packets
    part,           \* which byte of its packet the mouse sends next
    requested,      \* PIC: latched requests
    status,         \* status of mouse_init
    packet,         \* packet, its first packet_cycle bytes
    calm,           \* history: see Follows
    nextPart        \* history: the part after the mouse byte read last

controller == <<queue, last, irqOn, due>>
mouse == <<streaming, part>>
history == <<calm, nextPart>>
vars == <<pc, controller, mouse, requested, status, packet, history>>

\* A byte: who sent it, its bits 0 and 3, and which byte of a packet it is.
Byte(src, bit0, bit3, p) == [src |-> src, bit0 |-> bit0, bit3 |-> bit3, part |-> p]

LineOf(b) == IF b.src \in {"mouse", "ack"} THEN "mouse" ELSE "keyboard"

\* A byte that comes to stand at port 0x60 raises its line, where enabled.
Raised(q) == IF q = << >> THEN {} ELSE {LineOf(q[1])} \cap irqOn

\* When kernel_main calls mouse_init: the firmware left the keyboard on.
Init ==
    /\ pc = "ask"
    /\ queue = << >>
    /\ last = Byte("key", FALSE, FALSE, 0)
    /\ irqOn = {"keyboard"}
    /\ due = << >>
    /\ streaming = FALSE
    /\ part = 0
    /\ requested = {}
    /\ status = last
    /\ packet = << >>
    /\ calm = 0
    /\ nextPart = 0

-----------------------------------------------------------------------------
(* The devices *)

Arrives(b) ==
    /\ Len(queue) < MaxQueue
    /\ queue' = Append(queue, b)
    /\ requested' = IF queue = << >> THEN requested \cup Raised(<<b>>) ELSE requested

KeyArrives ==
    /\ \E bit0, bit3 \in BOOLEAN : Arrives(Byte("key", bit0, bit3, 0))
    /\ UNCHANGED <<pc, last, irqOn, due, mouse, status, packet, history>>

\* The configuration byte, or the mouse's acknowledgement 0xFA of a command.
AnswerArrives ==
    /\ due # << >>
    /\ IF Head(due) = "reply"
       THEN Arrives(Byte("reply", "keyboard" \in irqOn, FALSE, 0)) /\ UNCHANGED streaming
       ELSE Arrives(Byte("ack", FALSE, TRUE, 0)) /\ streaming' = TRUE
    /\ due' = Tail(due)
    /\ UNCHANGED <<pc, last, irqOn, part, status, packet, history>>

\* Bit 3 is set in the first byte of a packet; the others are movements.
MouseSends ==
    /\ streaming
    /\ \E bit3 \in IF part = 0 THEN {TRUE} ELSE BOOLEAN :
          Arrives(Byte("mouse", FALSE, bit3, part))
    /\ part' = (part + 1) % 3
    /\ UNCHANGED <<pc, last, irqOn, due, streaming, status, packet, history>>

\* The byte is lost on its way to the controller.
MouseByteLost ==
    /\ streaming
    /\ part' = (part + 1) % 3
    /\ UNCHANGED <<pc, controller, streaming, requested, status, packet, history>>

-----------------------------------------------------------------------------
(* Port 0x60 *)

Port == IF queue = << >> THEN last ELSE Head(queue)

\* Reads the port; taken are the requests that this read answers.
ReadPort(taken) ==
    /\ queue' = IF queue = << >> THEN << >> ELSE Tail(queue)
    /\ last' = Port
    /\ requested' = (requested \ taken) \cup Raised(queue')
    /\ UNCHANGED <<irqOn, due>>

\* calm counts the bytes of one packet, its movements without bit 3, that
\* mouse_on_data was given in order; it stays 3 through the packets that follow
\* while no byte is stolen, lost or read twice.
Follows ==
    IF queue = << >> \/ Port.src # "mouse" THEN 0
    ELSE IF calm = 3 /\ Port.part = nextPart THEN 3
    ELSE IF Port.part = 0 THEN 1
    ELSE IF calm = Port.part /\ ~Port.bit3 THEN calm + 1
    ELSE 0

NextPart == IF Port.src = "mouse" THEN (Port.part + 1) % 3 ELSE nextPart

-----------------------------------------------------------------------------
(* mouse_init *)

AskStatus ==
    /\ pc = "ask"
    /\ due' = Append(due, "reply")
    /\ pc' = "status"
    /\ UNCHANGED <<queue, last, irqOn, mouse, requested, status, packet, history>>

ReadStatus ==
    /\ pc = "status"
    /\ queue # << >>
    /\ status' = Port
    /\ ReadPort({})
    /\ pc' = "write"
    /\ UNCHANGED <<mouse, packet, history>>

KeepMouseOff(b) == IF b.bit0 THEN {"keyboard"} ELSE {}

\* Bit 0 is the one that was read, bit 1 is set.
Configured(b) == {"mouse"} \cup IF b.bit0 THEN {"keyboard"} ELSE {}

\* A byte that already waits at the port raises its line when enabled.
WriteStatus ==
    /\ pc = "write"
    /\ irqOn' = Configured(status)
    /\ requested' = requested \cup
           (IF queue = << >> THEN {} ELSE {LineOf(Head(queue))} \cap (irqOn' \ irqOn))
    /\ due' = Append(due, "ack")
    /\ pc' = "ack"
    /\ UNCHANGED <<queue, last, mouse, status, packet, history>>

ReadAck ==
    /\ pc = "ack"
    /\ queue # << >>
    /\ ReadPort({})
    /\ calm' = 0
    /\ pc' = "sti"
    /\ UNCHANGED <<mouse, status, packet, nextPart>>

EnableInterrupts ==
    /\ pc = "sti"
    /\ pc' = "run"
    /\ UNCHANGED <<controller, mouse, requested, status, packet, history>>

mouse_init == AskStatus \/ ReadStatus \/ WriteStatus \/ ReadAck

-----------------------------------------------------------------------------
(* The handlers *)

IsAny(b) == TRUE
IsFirst(b) == b.bit3

mouse_on_data(b) ==
    packet' = IF packet = << >> /\ ~IsFirst(b) THEN packet
              ELSE IF Len(packet) = 2 THEN << >>    \* mouse_on_packet, in Desktop
              ELSE Append(packet, [src |-> b.src, part |-> b.part])

mouse_handler ==
    /\ pc = "run"
    /\ "mouse" \in requested
    /\ mouse_on_data(Port)
    /\ calm' = Follows
    /\ nextPart' = NextPart
    /\ ReadPort({"mouse"})
    /\ UNCHANGED <<pc, mouse, status>>

\* keyboard_on_scancode is in Keyboard.
keyboard_handler ==
    /\ pc = "run"
    /\ "keyboard" \in requested
    /\ calm' = IF queue # << >> /\ Port.src = "mouse" THEN 0 ELSE calm
    /\ ReadPort({"keyboard"})
    /\ UNCHANGED <<pc, mouse, status, packet, nextPart>>

Next ==
    \/ KeyArrives \/ AnswerArrives \/ MouseSends \/ MouseByteLost
    \/ mouse_init \/ EnableInterrupts
    \/ mouse_handler \/ keyboard_handler

Spec == Init /\ [][Next]_vars

-----------------------------------------------------------------------------
Bytes == [src : {"key", "reply", "ack", "mouse"}, bit0 : BOOLEAN, bit3 : BOOLEAN,
          part : 0 .. 2]
PacketByte == [src : {"key", "reply", "ack", "mouse"}, part : 0 .. 2]

\* Every byte has a sender and a part; the bytes of an unfinished packet are at
\* most two.
TypeOK ==
    /\ pc \in {"ask", "status", "write", "ack", "sti", "run"}
    /\ queue \in Seq(Bytes) /\ Len(queue) <= MaxQueue
    /\ last \in Bytes /\ status \in Bytes
    /\ irqOn \subseteq Line /\ requested \subseteq Line
    /\ due \in Seq({"reply", "ack"})
    /\ streaming \in BOOLEAN
    /\ part \in 0 .. 2 /\ nextPart \in 0 .. 2 /\ calm \in 0 .. 3
    /\ packet \in Seq(PacketByte) /\ Len(packet) <= 2

\* Whatever the handshake left behind and whichever bytes were lost, stolen by
\* the other handler or read twice: one calm packet in a row (movements without
\* bit 3) puts mouse_on_data back in step with the mouse, and it stays in step
\* through every packet after it.
InStep ==
    calm = 3 =>
        /\ Len(packet) = nextPart
        /\ \A i \in 1 .. Len(packet) : packet[i] = [src |-> "mouse", part |-> i - 1]

\* If mouse_init read the configuration byte and not a scancode, no byte is
\* ever stuck at the port: its interrupt is requested, even after requests of
\* the handshake were merged with it or its handler answered another's.
InputGoesOn ==
    pc = "run" /\ status.src = "reply" /\ queue # << >> =>
        LineOf(Head(queue)) \in requested

=============================================================================
