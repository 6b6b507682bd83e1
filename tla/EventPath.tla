------------------------------ MODULE EventPath ------------------------------
(***************************************************************************)
(* The path of an input event: a byte in the output buffer of the PS/2     *)
(* controller, an interrupt request at the PIC, the service routine of     *)
(* kernel/idt.asm with the handler it calls, event_push into the ring of   *)
(* kernel/event_queue.c, and event_pop in ui_task.                         *)
(*                                                                         *)
(* The CPU runs one stack of contexts: frames[1] is the task, and each     *)
(* accepted interrupt adds a frame.  The queue is shared by all of them    *)
(* and protected by cli and sti only, so every access is a step of its     *)
(* own.  event_push ends with sti although it runs in a service routine:   *)
(* from there on other interrupts nest in the routine, as far as the PIC   *)
(* lets them, and after the EOI even those of the same device do.          *)
(*                                                                         *)
(* External: the PIC (pic_remap and the EOI writes say how it is used) and *)
(* the PS/2 controller, whose output buffer holds one byte of one device.  *)
(***************************************************************************)
EXTENDS Integers, SequencesExt

CONSTANTS
    EVENT_Q_SIZE,   \* slots of the ring
    MousePushes,    \* how many events a byte of the mouse may produce
    MaxBytes,       \* bound: bytes that each device sends
    MaxTicks        \* bound: timer interrupts requested

\* mouse_on_packet pushes at most a movement and a change of each button.
MaxPushes == 4

ASSUME EventPathAssumption ==
    /\ EVENT_Q_SIZE \in Nat \ {0}
    /\ MousePushes \subseteq 0 .. MaxPushes
    /\ MaxBytes \in Nat
    /\ MaxTicks \in Nat

Device == {"keyboard", "mouse"}
Source == Device \cup {"timer"}
NoByte == [src |-> "none", byte |-> 0]
Event == [src : Device, byte : Nat, k : Nat]
NoEvent == [src |-> "none", byte |-> 0, k |-> 0]

VARIABLES
    buf,        \* q_buf
    head,       \* q_head
    tail,       \* q_tail
    iflag,      \* the CPU's interrupt flag
    frames,     \* the task, and the service routines nested on top of it
    out,        \* the event that event_pop copies for its caller
    requested,  \* PIC: sources whose interrupt request is latched
    inService,  \* PIC: lines accepted and not ended by an EOI
    port,       \* the byte in the output buffer of the PS/2 controller
    sent,       \* how many bytes each device has sent
    ticks,      \* how many timer interrupts have been requested
    accepted,   \* history: events whose event_push succeeded
    delivered,  \* history: events that event_pop returned
    refused     \* history: pushes that found the queue full

ring == <<buf, head, tail>>
pic == <<requested, inService>>
devices == <<port, sent, ticks>>
fifo == <<accepted, delivered, refused>>
vars == <<ring, iflag, frames, out, pic, devices, fifo>>

\* A context: whose it is, where it stands, the byte its handler read, how
\* many events it still has to push, how many it has, and next of event_push.
Context(who, pc) ==
    [who |-> who, pc |-> pc, byte |-> 0, todo |-> 0, made |-> 0, next |-> 0]

Top == Last(frames)
At(l) == Top.pc = l
Becomes(f) == frames' = Append(Front(frames), f)
Goto(l) == Becomes([Top EXCEPT !.pc = l])

-----------------------------------------------------------------------------

\* event_queue_init, and kernel_main once it has enabled the interrupts.
Init ==
    /\ buf = [i \in 0 .. EVENT_Q_SIZE - 1 |-> NoEvent]
    /\ head = 0
    /\ tail = 0
    /\ iflag = TRUE
    /\ frames = <<Context("task", "away")>>
    /\ out = NoEvent
    /\ requested = {}
    /\ inService = {}
    /\ port = NoByte
    /\ sent = [d \in Device |-> 0]
    /\ ticks = 0
    /\ accepted = << >>
    /\ delivered = << >>
    /\ refused = 0

irq_enable == iflag' = TRUE

LeaveEnabled == iflag' = iflag

irq_disable == iflag' = FALSE

-----------------------------------------------------------------------------
(* The devices and the PIC *)

\* A device sends its next byte when the controller's buffer is free, and the
\* controller raises the interrupt line of that device.
SendByte(d) ==
    /\ port = NoByte /\ sent[d] < MaxBytes
    /\ sent' = [sent EXCEPT ![d] = @ + 1]
    /\ port' = [src |-> d, byte |-> sent[d] + 1]
    /\ requested' = requested \cup {d}
    /\ UNCHANGED <<ring, iflag, frames, out, inService, ticks, fifo>>

TimerTick ==
    /\ ticks < MaxTicks
    /\ ticks' = ticks + 1
    /\ requested' = requested \cup {"timer"}
    /\ UNCHANGED <<ring, iflag, frames, out, inService, port, sent,
                   fifo>>

\* The lines of the PICs: the slave has lines 8 to 15, and is itself on line 2
\* of the master.
Master == 0 .. 7
Line(q) == CASE q = "timer" -> 0 [] q = "keyboard" -> 1 [] q = "mouse" -> 2
Lines(q) == {Line(q)} \cup IF q = "mouse" THEN {12} ELSE {}

\* pic_remap leaves the PICs in fully nested mode with explicit EOIs: a line is
\* accepted only while every line in service has a lower priority.
CanInterrupt(q) ==
    /\ \A l \in inService \cap Master : Line(q) < l
    /\ Lines(q) \cap inService = {}

InServiceAutoEoi(q) == inService

InServiceWith(q) == inService \cup Lines(q)

\* The CPU accepts an interrupt; its gate is an interrupt gate and clears the
\* interrupt flag.  timer_handler only counts, so its routine is at the EOI.
Accept(q) ==
    /\ iflag
    /\ q \in requested /\ CanInterrupt(q)
    /\ requested' = requested \ {q}
    /\ inService' = InServiceWith(q)
    /\ iflag' = FALSE
    /\ frames' = Append(frames, Context(q, IF q = "timer" THEN "eoi" ELSE "read"))
    /\ UNCHANGED <<ring, out, devices, fifo>>

-----------------------------------------------------------------------------
(* keyboard_isr and mouse_isr *)

Pushes(d) == IF d = "keyboard" THEN {1} ELSE MousePushes

EndOfHandlerMasterOnly(f) == "eoi"
EndOfHandlerUnended(f) == IF f.who = "mouse" THEN "slaveEoi" ELSE "iret"

\* Where a routine goes after its handler: mouse_isr ends the interrupt at the
\* slave PIC first.
EndOfHandler(f) == IF f.who = "mouse" THEN "slaveEoi" ELSE "eoi"

\* f with its next push, or at the end of its handler when none is left.
NextPush(f) == [f EXCEPT !.pc = IF f.todo > 0 THEN "push" ELSE EndOfHandler(f)]

\* keyboard_handler, mouse_handler: the byte is read from port 0x60.  Every
\* scancode is one event; a byte of the mouse is an event or more only when
\* it completes a packet that says so.
ReadByte ==
    /\ At("read")
    /\ port' = NoByte
    /\ \E n \in Pushes(Top.who) :
          Becomes(NextPush([Top EXCEPT !.byte = port.byte, !.todo = n]))
    /\ UNCHANGED <<ring, iflag, out, pic, sent, ticks, fifo>>

SlaveEoi ==
    /\ At("slaveEoi")
    /\ inService' = inService \cap Master
    /\ Goto("eoi")
    /\ UNCHANGED <<ring, iflag, out, requested, devices, fifo>>

\* The unspecific EOI ends the service of the line of highest priority.
MasterEoi ==
    /\ At("eoi")
    /\ inService' = {l \in inService : l \notin Master \/ \E h \in inService : h < l}
    /\ Goto("iret")
    /\ UNCHANGED <<ring, iflag, out, requested, devices, fifo>>

\* iretd: the interrupted context had the interrupt flag set.
Iret ==
    /\ At("iret")
    /\ frames' = Front(frames)
    /\ irq_enable
    /\ UNCHANGED <<ring, out, pic, devices, fifo>>

-----------------------------------------------------------------------------
(* event_push *)

WrapLate(i) == IF i > EVENT_Q_SIZE THEN 0 ELSE i

Wrap(i) == IF i >= EVENT_Q_SIZE THEN 0 ELSE i

PushedEvent == [src |-> Top.who, byte |-> Top.byte, k |-> Top.made + 1]

PushDisable ==
    /\ At("push")
    /\ irq_disable
    /\ Goto("next")
    /\ UNCHANGED <<ring, out, pic, devices, fifo>>

PushNext ==
    /\ At("next")
    /\ Becomes([Top EXCEPT !.next = Wrap(head + 1), !.pc = "full"])
    /\ UNCHANGED <<ring, iflag, out, pic, devices, fifo>>

NeverFull == FALSE

QueueFull == Top.next = tail

\* The queue is full: the event is dropped, and the handlers do not look at
\* the result of event_push.
PushFull ==
    /\ At("full") /\ QueueFull
    /\ refused' = refused + 1
    /\ Goto("pushed")
    /\ UNCHANGED <<ring, iflag, out, pic, devices, accepted, delivered>>

PushRoom ==
    /\ At("full") /\ ~ QueueFull
    /\ Goto("store")
    /\ UNCHANGED <<ring, iflag, out, pic, devices, fifo>>

PushStore ==
    /\ At("store")
    /\ buf' = [buf EXCEPT ![head] = PushedEvent]
    /\ Goto("publish")
    /\ UNCHANGED <<head, tail, iflag, out, pic, devices, fifo>>

PushPublish ==
    /\ At("publish")
    /\ head' = Top.next
    /\ accepted' = Append(accepted, PushedEvent)
    /\ Goto("pushed")
    /\ UNCHANGED <<buf, tail, iflag, out, pic, devices, delivered, refused>>

\* sti, inside the service routine; then the handler's next event, if any.
PushEnable ==
    /\ At("pushed")
    /\ irq_enable
    /\ Becomes(NextPush([Top EXCEPT !.todo = @ - 1, !.made = @ + 1]))
    /\ UNCHANGED <<ring, out, pic, devices, fifo>>

-----------------------------------------------------------------------------
(* event_pop, called by ui_task *)

PopDisable ==
    /\ At("away")
    /\ irq_disable
    /\ Goto("empty")
    /\ UNCHANGED <<ring, out, pic, devices, fifo>>

EmptyAtLast == Wrap(tail + 1) = head \/ tail = head

QueueEmpty == tail = head

PopEmpty ==
    /\ At("empty") /\ QueueEmpty
    /\ Goto("popped")
    /\ UNCHANGED <<ring, iflag, out, pic, devices, fifo>>

PopCopy ==
    /\ At("empty") /\ ~ QueueEmpty
    /\ out' = buf[tail]
    /\ Goto("advance")
    /\ UNCHANGED <<ring, iflag, pic, devices, fifo>>

PopAdvance ==
    /\ At("advance")
    /\ tail' = Wrap(tail + 1)
    /\ delivered' = Append(delivered, out)
    /\ Goto("popped")
    /\ UNCHANGED <<buf, head, iflag, out, pic, devices, accepted, refused>>

PopEnable ==
    /\ At("popped")
    /\ irq_enable
    /\ Goto("away")
    /\ UNCHANGED <<ring, out, pic, devices, fifo>>

-----------------------------------------------------------------------------

Isr == ReadByte \/ SlaveEoi \/ MasterEoi \/ Iret
event_push ==
    \/ PushDisable \/ PushNext \/ PushFull \/ PushRoom \/ PushStore
    \/ PushPublish \/ PushEnable
event_pop == PopDisable \/ PopEmpty \/ PopCopy \/ PopAdvance \/ PopEnable
Cpu == Isr \/ event_push \/ event_pop

Next ==
    \/ Cpu
    \/ TimerTick
    \/ \E d \in Device : SendByte(d)
    \/ \E q \in Source : Accept(q)

Spec == Init /\ [][Next]_vars

\* The CPU executes, ui_task keeps coming back to its event loop (see
\* EveryTaskRuns of Scheduler), and a request that the PIC presents again and
\* again while the interrupt flag is set is taken.  Devices owe nothing.
FairSpec ==
    /\ Spec
    /\ WF_vars(Cpu)
    /\ \A q \in Source : SF_vars(Accept(q))

-----------------------------------------------------------------------------
(* Properties *)

Before == {"read", "push", "next", "full", "store", "publish", "pushed",
           "slaveEoi", "eoi"}
Handling == {i \in DOMAIN frames : frames[i].pc \in Before /\ i > 1}

\* The ring, the PIC and the frames of the stack have the shape of the code.
TypeOK ==
    /\ buf \in [0 .. EVENT_Q_SIZE - 1 -> Event \cup {NoEvent}]
    /\ head \in 0 .. EVENT_Q_SIZE - 1
    /\ tail \in 0 .. EVENT_Q_SIZE - 1
    /\ iflag \in BOOLEAN
    /\ frames \in Seq([who : Source \cup {"task"},
                       pc : Before \cup {"iret", "away", "empty", "advance",
                                         "popped"},
                       byte : Nat, todo : Nat, made : Nat,
                       next : 0 .. EVENT_Q_SIZE - 1])
    /\ out \in Event \cup {NoEvent}
    /\ requested \in SUBSET Source
    /\ inService \in SUBSET (0 .. 15)
    /\ port \in [src : Device, byte : Nat] \cup {NoByte}
    /\ sent \in [Device -> Nat]
    /\ ticks \in Nat
    /\ accepted \in Seq(Event)
    /\ delivered \in Seq(Event \cup {NoEvent})
    /\ refused \in Nat

\* The events in the ring, from the oldest to the newest.
Used == IF tail <= head THEN head - tail ELSE head - tail + EVENT_Q_SIZE
Slot(i) == IF tail + i < EVENT_Q_SIZE THEN tail + i ELSE tail + i - EVENT_Q_SIZE
Contents == [i \in 1 .. Used |-> buf[Slot(i - 1)]]

\* Every event that a handler got into the queue is delivered, or is still in
\* the ring, in order, once, and unaltered: no nesting of pushes in pushes, or
\* in a pop, overwrites, skips or repeats one.
NothingLost == accepted = delivered \o Contents

\* The events of a device enter the queue in the order of its bytes, and those
\* of one byte in the order of its handler, although interrupts are enabled
\* between them: a release never gets ahead of its press.
SourceOrder ==
    \A i, j \in DOMAIN accepted :
        (i < j /\ accepted[i].src = accepted[j].src) =>
            \/ accepted[i].byte < accepted[j].byte
            \/ /\ accepted[i].byte = accepted[j].byte
               /\ accepted[i].k < accepted[j].k

\* A driver's handler is never entered again while it runs: packet_cycle,
\* prev_buttons and the key states, which nothing else protects, are its own
\* until the EOI.
HandlersExclusive ==
    \A i, j \in Handling : frames[i].who = frames[j].who => i = j

\* The unspecific EOI of a routine ends the service of its own line: the lines
\* in service are those of the routines that have not sent it, and the routine
\* on top has the one of highest priority.
EoiEndsOwn ==
    /\ inService \cap Master = {Line(frames[i].who) : i \in Handling}
    /\ Len(frames) \in Handling =>
          \A l \in inService \cap Master : Line(Top.who) <= l
    /\ At("slaveEoi") => 12 \in inService

\* Every byte that a device sends is read, for good: no lost EOI or interrupt
\* flag that stays clear leaves the controller's buffer blocked.
BytesAreRead == \A d \in Device : (port.src = d) ~> (port.src # d)

\* Every accepted event reaches ui_task.
AcceptedIsDelivered ==
    \A n \in 1 .. 3 * MaxBytes : (Len(accepted) >= n) ~> (Len(delivered) >= n)

=============================================================================
