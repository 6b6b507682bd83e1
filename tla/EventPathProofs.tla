--------------------------- MODULE EventPathProofs ---------------------------
(***************************************************************************)
(* Proofs about the path of an input event, for every size of the ring,    *)
(* every number of bytes and ticks, every number of events that a byte of  *)
(* the mouse makes, and every nesting of the service routines.             *)
(***************************************************************************)
EXTENDS EventPathRefinement, SequenceTheorems, TLAPS

-----------------------------------------------------------------------------
(* Stacks and sequences *)

\* The top of a stack, what lies under it, and what replaces it.
LEMMA StackFacts ==
    ASSUME NEW S, NEW s \in Seq(S), Len(s) >= 1
    PROVE  /\ Len(s) \in Nat
           /\ \A i \in 1 .. Len(s) : s[i] \in S
           /\ Last(s) = s[Len(s)] /\ Last(s) \in S
           /\ Front(s) \in Seq(S) /\ Len(Front(s)) = Len(s) - 1
           /\ \A i \in 1 .. Len(s) - 1 : Front(s)[i] = s[i]
<1>. DEFINE n == Len(s)
            t == Front(s)
<1>1. n \in Nat /\ n >= 1 /\ \A i \in 1 .. n : s[i] \in S
  OBVIOUS
<1>2. Last(s) = s[n] /\ s[n] \in S
  BY <1>1 DEF Last
<1>3. /\ t \in Seq(S)
      /\ Len(t) = IF 1 <= n - 1 THEN n - 1 - 1 + 1 ELSE 0
      /\ \A j \in 1 .. n - 1 - 1 + 1 : t[j] = s[1 + j - 1]
  <2>1. 1 \in Int /\ n - 1 \in Int /\ \A j \in 1 .. n - 1 : s[j] \in S
    BY <1>1
  <2>. QED
    BY <2>1, SubSeqProperties DEF Front
<1>. HIDE DEF n, t
<1>4. Len(t) = n - 1 /\ \A j \in 1 .. n - 1 : t[j] = s[j]
  BY <1>1, <1>3
<1>. QED
  BY <1>1, <1>2, <1>3, <1>4 DEF n, t

\* Appending.
LEMMA AppendFacts ==
    ASSUME NEW S, NEW s \in Seq(S), NEW e \in S
    PROVE  /\ Len(s) \in Nat
           /\ Append(s, e) \in Seq(S) /\ Len(Append(s, e)) = Len(s) + 1
           /\ Append(s, e)[Len(s) + 1] = e
           /\ \A i \in 1 .. Len(s) : Append(s, e)[i] = s[i]
OBVIOUS

-----------------------------------------------------------------------------
(* The inductive invariant *)

TaskPc == {"away", "empty", "advance", "popped"}
Frame == [who : Source \cup {"task"}, pc : Before \cup {"iret"} \cup TaskPc,
          byte : Nat, todo : Nat, made : Nat, next : 0 .. EVENT_Q_SIZE - 1]

\* Where a context can be interrupted, and where it is inside event_push.
Open == {"away", "push", "slaveEoi", "eoi", "iret"}
Pushing == {"push", "next", "full", "store", "publish", "pushed"}

\* Under the task there is nothing; everything above it is a service routine;
\* and only the routine on top can be where interrupts are disabled.
Routine(f) ==
    /\ f.who \in Source
    /\ f.pc \in Before \cup {"iret"}
    /\ f.who = "timer" => f.pc \in {"eoi", "iret"}
    /\ f.pc = "slaveEoi" => f.who = "mouse"
    /\ f.pc = "read" => f.made = 0
    /\ f.pc \in Pushing => f.todo > 0 /\ f.made + f.todo <= MaxPushes

StackShape ==
    /\ frames \in Seq(Frame)
    /\ Len(frames) >= 1
    /\ frames[1].who = "task" /\ frames[1].pc \in TaskPc
    /\ \A i \in 2 .. Len(frames) : Routine(frames[i])
    /\ \A i \in 1 .. Len(frames) - 1 : frames[i].pc \in Open
    /\ iflag => Top.pc \in Open

\* The lines in service belong to the routines before their EOI, each nested in
\* routines of lower priority; the slave's line to a mouse_isr before its first.
PicNested ==
    /\ inService \subseteq Master \cup {12}
    /\ inService \cap Master = {Line(frames[i].who) : i \in Handling}
    /\ \A i, j \in Handling : i < j => Line(frames[j].who) < Line(frames[i].who)
    /\ 12 \in inService <=>
          \E i \in Handling : frames[i].who = "mouse" /\ frames[i].pc # "eoi"

\* What a push or a pop knows of the ring while it has interrupts disabled.
RingKnown ==
    /\ Top.pc \in {"full", "store", "publish"} => Top.next = Wrap(head + 1)
    /\ Top.pc \in {"store", "publish"} => Top.next # tail
    /\ At("publish") => buf[head] = PushedEvent
    /\ At("advance") => out = buf[tail] /\ tail # head

\* NothingLost, position by position.
QueueExact ==
    /\ Len(accepted) = Len(delivered) + Used
    /\ \A i \in 1 .. Len(delivered) : accepted[i] = delivered[i]
    /\ \A i \in 1 .. Used : accepted[Len(delivered) + i] = buf[Slot(i - 1)]

\* A byte in the controller is the newest of its device, and its request is
\* latched or its routine about to read it; pushes and queue hold older ones.
BytesNumbered ==
    /\ port.src \in Device => port.byte = sent[port.src] /\ sent[port.src] > 0
    /\ \A d \in requested \cap Device : port.src = d
    /\ At("read") => port.src = Top.who /\ requested \cap Device = {}
    /\ \A d \in Device : sent[d] <= MaxBytes
    /\ \A i \in 2 .. Len(frames) :
          frames[i].pc \in Pushing =>
             /\ frames[i].byte \in 1 .. sent[frames[i].who]
             /\ port.src = frames[i].who => frames[i].byte < sent[frames[i].who]
    /\ \A a \in DOMAIN accepted :
          /\ accepted[a].byte \in 1 .. sent[accepted[a].src]
          /\ port.src = accepted[a].src => accepted[a].byte < sent[accepted[a].src]

\* What a routine pushes next comes after all that its device has in the queue.
Reached(f) == IF f.pc = "pushed" THEN f.made + 1 ELSE f.made
Behind(e, f) == e.byte < f.byte \/ (e.byte = f.byte /\ e.k <= Reached(f))
PushesOrdered ==
    \A i \in 2 .. Len(frames), a \in DOMAIN accepted :
       frames[i].pc \in Pushing /\ accepted[a].src = frames[i].who =>
          Behind(accepted[a], frames[i])

\* The queue side has one invariant, the CPU side another.
QueueTypes ==
    /\ buf \in [0 .. EVENT_Q_SIZE - 1 -> Event \cup {NoEvent}]
    /\ head \in 0 .. EVENT_Q_SIZE - 1
    /\ tail \in 0 .. EVENT_Q_SIZE - 1
    /\ out \in Event \cup {NoEvent}
    /\ accepted \in Seq(Event)
    /\ delivered \in Seq(Event \cup {NoEvent})
    /\ refused \in Nat

DeviceTypes ==
    /\ iflag \in BOOLEAN
    /\ requested \in SUBSET Source
    /\ inService \in SUBSET (0 .. 15)
    /\ port \in [src : Device, byte : Nat] \cup {NoByte}
    /\ sent \in [Device -> Nat]
    /\ ticks \in Nat

EventIInv ==
    /\ QueueTypes /\ DeviceTypes /\ StackShape /\ PicNested /\ RingKnown
    /\ QueueExact /\ BytesNumbered /\ SourceOrder /\ PushesOrdered

-----------------------------------------------------------------------------
(* The top of the stack *)

\* What the invariant says of the top.
LEMMA TopFacts ==
    ASSUME StackShape
    PROVE  /\ Len(frames) \in Nat /\ Len(frames) >= 1
           /\ Top = frames[Len(frames)] /\ Top \in Frame
           /\ \A i \in 1 .. Len(frames) : frames[i] \in Frame
           /\ Top.pc \in TaskPc <=> Len(frames) = 1
           /\ Len(frames) = 1 => Top.who = "task"
           /\ Len(frames) # 1 => Routine(Top)
           /\ Len(frames) \in Handling <=> Top.pc \in Before
<1>. PICK n : n = Len(frames)
  OBVIOUS
<1>1. /\ n \in Nat /\ n >= 1 /\ Top = frames[n] /\ Top \in Frame
      /\ \A i \in 1 .. n : frames[i] \in Frame
  BY StackFacts DEF StackShape, Top
<1>2. n # 1 => Routine(Top)
  BY <1>1 DEF StackShape
<1>3. n = 1 => Top.who = "task" /\ Top.pc \in TaskPc
  BY <1>1 DEF StackShape
<1>4. Routine(Top) => Top.pc \notin TaskPc
  BY DEF Routine, TaskPc, Before
<1>5. n = 1 => Top.pc \notin Before
  BY <1>3 DEF TaskPc, Before
<1>6. DOMAIN frames = 1 .. n
  BY DEF StackShape
<1>7. n \in Handling <=> Top.pc \in Before
  BY <1>1, <1>5, <1>6 DEF Handling
<1>. QED
  BY <1>1, <1>2, <1>3, <1>4, <1>7

\* A step that replaces the top.
LEMMA BecomesFacts ==
    ASSUME StackShape, NEW f \in Frame, Becomes(f)
    PROVE  /\ frames' \in Seq(Frame) /\ Len(frames') = Len(frames)
           /\ Top' = f /\ frames'[Len(frames)] = f
           /\ \A i \in 1 .. Len(frames) - 1 : frames'[i] = frames[i]
<1>. PICK n : n = Len(frames)
  OBVIOUS
<1>. DEFINE t == Front(frames)
            u == Append(t, f)
<1>1. /\ n \in Nat /\ n >= 1 /\ t \in Seq(Frame) /\ Len(t) = n - 1
      /\ \A i \in 1 .. n - 1 : t[i] = frames[i]
  BY StackFacts DEF StackShape
<1>2. frames' = u
  BY DEF Becomes
<1>. HIDE DEF t
<1>3. /\ u \in Seq(Frame) /\ Len(u) = Len(t) + 1 /\ u[Len(t) + 1] = f
      /\ \A i \in 1 .. Len(t) : u[i] = t[i]
  BY <1>1, AppendFacts
<1>. HIDE DEF u
<1>4. Len(u) = n /\ u[n] = f /\ \A i \in 1 .. n - 1 : u[i] = frames[i]
  <2>1. (n - 1) + 1 = n
    BY <1>1
  <2>. QED
    BY <1>1, <1>3, <2>1
<1>5. Top' = f
  BY <1>2, <1>4 DEF Top, Last
<1>. QED
  BY <1>2, <1>3, <1>4, <1>5

\* A step that adds a frame.
LEMMA NestFacts ==
    ASSUME StackShape, NEW f \in Frame, frames' = Append(frames, f)
    PROVE  /\ frames' \in Seq(Frame) /\ Len(frames') = Len(frames) + 1
           /\ Top' = f /\ frames'[Len(frames) + 1] = f
           /\ \A i \in 1 .. Len(frames) : frames'[i] = frames[i]
<1>1. /\ frames' \in Seq(Frame) /\ Len(frames') = Len(frames) + 1
      /\ frames'[Len(frames) + 1] = f
      /\ \A i \in 1 .. Len(frames) : frames'[i] = frames[i]
  BY AppendFacts DEF StackShape
<1>. QED
  BY <1>1 DEF Top, Last

\* A step that removes a frame other than the task's.
LEMMA ReturnFacts ==
    ASSUME StackShape, Len(frames) # 1, frames' = Front(frames)
    PROVE  /\ frames' \in Seq(Frame) /\ Len(frames') = Len(frames) - 1
           /\ Top' = frames[Len(frames) - 1]
           /\ \A i \in 1 .. Len(frames) - 1 : frames'[i] = frames[i]
<1>1. /\ frames' \in Seq(Frame) /\ Len(frames') = Len(frames) - 1
      /\ Len(frames) \in Nat /\ Len(frames) >= 1
      /\ \A i \in 1 .. Len(frames) - 1 : frames'[i] = frames[i]
  BY StackFacts DEF StackShape
<1>2. Len(frames) - 1 \in 1 .. Len(frames) - 1
  BY <1>1
<1>. QED
  BY <1>1, <1>2 DEF Top, Last

\* Frames that stay what they are, but for the top, keep the stack in shape.
LEMMA TopInShape ==
    ASSUME StackShape, NEW f \in Frame, Becomes(f), f.who = Top.who,
           Len(frames) = 1 => f.pc \in TaskPc,
           Len(frames) # 1 => Routine(f),
           iflag' => f.pc \in Open
    PROVE  StackShape'
<1>. PICK n : n = Len(frames)
  OBVIOUS
<1>1. /\ n \in Nat /\ n >= 1 /\ Top = frames[n]
  BY TopFacts
<1>2. /\ frames' \in Seq(Frame) /\ Len(frames') = n /\ Top' = f /\ frames'[n] = f
      /\ \A i \in 1 .. n - 1 : frames'[i] = frames[i]
  BY BecomesFacts
<1>3. frames'[1].who = "task" /\ frames'[1].pc \in TaskPc
  <2>1. CASE n = 1
    BY <1>1, <1>2, <2>1 DEF StackShape
  <2>2. CASE n # 1
    BY <1>1, <1>2, <2>2 DEF StackShape
  <2>. QED
    BY <2>1, <2>2
<1>4. ASSUME NEW i \in 2 .. n PROVE Routine(frames'[i])
  <2>1. CASE i = n
    BY <1>1, <1>2, <2>1
  <2>2. CASE i # n
    <3>1. frames'[i] = frames[i]
      BY <1>1, <1>2, <2>2
    <3>. QED
      BY <3>1 DEF StackShape
  <2>. QED
    BY <2>1, <2>2
<1>5. \A i \in 1 .. n - 1 : frames'[i].pc \in Open
  BY <1>2 DEF StackShape
<1>. QED
  BY <1>1, <1>2, <1>3, <1>4, <1>5 DEF StackShape

\* As long as the top stays before its EOI, or after it, the PIC's lines belong
\* to the same routines.
LEMMA SameLines ==
    ASSUME StackShape, PicNested, NEW f \in Frame, Becomes(f), f.who = Top.who,
           f.pc \in Before <=> Top.pc \in Before,
           Top.who = "mouse" => (f.pc = "eoi" <=> Top.pc = "eoi"),
           inService' = inService
    PROVE  PicNested'
<1>. PICK n : n = Len(frames)
  OBVIOUS
<1>1. n \in Nat /\ n >= 1 /\ Top = frames[n] /\ DOMAIN frames = 1 .. n
  BY TopFacts DEF StackShape
<1>2. /\ Len(frames') = n /\ frames'[n] = f /\ DOMAIN frames' = 1 .. n
      /\ \A i \in 1 .. n - 1 : frames'[i] = frames[i]
  BY BecomesFacts
<1>3. \A i \in 1 .. n :
        /\ frames'[i].who = frames[i].who
        /\ frames'[i].pc \in Before <=> frames[i].pc \in Before
        /\ frames[i].who = "mouse" => (frames'[i].pc = "eoi" <=> frames[i].pc = "eoi")
  BY <1>1, <1>2
<1>4. Handling' = Handling
  BY <1>1, <1>2, <1>3 DEF Handling
<1>5. Handling \subseteq 1 .. n
  BY <1>1 DEF Handling
<1>. QED
  BY <1>3, <1>4, <1>5 DEF PicNested

\* The steps of event_push that come before the next push, and those of
\* event_pop, change nothing that the CPU side of the invariant looks at.
Within(f) ==
    /\ f.who = Top.who /\ f.byte = Top.byte /\ f.todo = Top.todo /\ f.made = Top.made
    /\ \/ Top.pc \in Pushing \ {"pushed"} /\ f.pc \in Pushing
       \/ Top.pc \in TaskPc /\ f.pc \in TaskPc

LEMMA WithinKeeps ==
    ASSUME StackShape, PicNested, BytesNumbered, PushesOrdered, accepted \in Seq(Event),
           NEW f \in Frame, Becomes(f), Within(f), iflag' => f.pc \in Open,
           UNCHANGED <<requested, inService, port, sent, accepted>>
    PROVE  StackShape' /\ PicNested' /\ BytesNumbered' /\ PushesOrdered'
<1>. PICK n : n = Len(frames)
  OBVIOUS
<1>1. /\ n \in Nat /\ n >= 1 /\ Top = frames[n]
      /\ Top.pc \in TaskPc <=> n = 1
      /\ n # 1 => Routine(Top)
  BY TopFacts
<1>2. /\ Len(frames') = n /\ Top' = f /\ frames'[n] = f
      /\ \A i \in 1 .. n - 1 : frames'[i] = frames[i]
  BY BecomesFacts
<1>3. StackShape'
  <2>1. n # 1 => Routine(f)
    BY <1>1 DEF Within, Routine, Pushing, Before, TaskPc
  <2>2. n = 1 => f.pc \in TaskPc
    BY <1>1 DEF Within, Pushing, TaskPc
  <2>. QED
    BY <2>1, <2>2, TopInShape DEF Within
<1>4. PicNested'
  <2>1. f.pc \in Before <=> Top.pc \in Before
    BY DEF Within, Pushing, TaskPc, Before
  <2>2. f.pc # "eoi" /\ Top.pc # "eoi"
    BY DEF Within, Pushing, TaskPc
  <2>. QED
    BY <2>1, <2>2, SameLines DEF Within
<1>5. ASSUME NEW i \in 2 .. n, frames'[i].pc \in Pushing
      PROVE  /\ frames[i].pc \in Pushing /\ frames'[i].who = frames[i].who
             /\ frames'[i].byte = frames[i].byte
             /\ \A e \in Event : Behind(e, frames[i]) => Behind(e, frames'[i])
  <2>1. CASE i = n
    <3>1. frames'[i] = f /\ frames[i] = Top
      BY <1>1, <1>2, <2>1
    <3>2. Top.pc \in Pushing /\ Top.pc # "pushed"
      BY <1>5, <3>1 DEF Within, Pushing, TaskPc
    <3>3. Reached(Top) = Top.made /\ Reached(f) \in {Top.made, Top.made + 1} /\ Top.made \in Nat
      BY <3>2, TopFacts DEF Reached, Within, Frame
    <3>4. \A e \in Event : e.k \in Nat
      BY DEF Event
    <3>. QED
      BY <3>1, <3>2, <3>3, <3>4 DEF Behind, Within
  <2>2. CASE i # n
    <3>1. frames'[i] = frames[i]
      BY <1>1, <1>2, <2>2
    <3>. QED
      BY <1>5, <3>1
  <2>. QED
    BY <2>1, <2>2
<1>6. BytesNumbered'
  <2>1. f.pc # "read"
    BY DEF Within, Pushing, TaskPc
  <2>2. ~At("read")'
    BY <1>2, <2>1 DEF At
  <2>3. ASSUME NEW i \in 2 .. Len(frames'), frames'[i].pc \in Pushing
        PROVE  /\ frames'[i].byte \in 1 .. sent[frames'[i].who]
               /\ port.src = frames'[i].who => frames'[i].byte < sent[frames'[i].who]
    <3>1. i \in 2 .. n
      BY <1>2
    <3>2. /\ frames[i].pc \in Pushing /\ frames'[i].who = frames[i].who
          /\ frames'[i].byte = frames[i].byte
      BY <1>5, <2>3, <3>1
    <3>. QED
      BY <3>1, <3>2 DEF BytesNumbered
  <2>. QED
    BY <2>2, <2>3 DEF BytesNumbered
<1>7. PushesOrdered'
  <2>. SUFFICES ASSUME NEW i \in 2 .. n, NEW a \in DOMAIN accepted, frames'[i].pc \in Pushing,
                       accepted[a].src = frames'[i].who
                PROVE  Behind(accepted[a], frames'[i])
    BY <1>2 DEF PushesOrdered
  <2>1. Behind(accepted[a], frames[i])
    BY <1>5 DEF PushesOrdered
  <2>2. accepted[a] \in Event
    OBVIOUS
  <2>. QED
    BY <1>5, <2>1, <2>2
<1>. QED
  BY <1>3, <1>4, <1>6, <1>7

-----------------------------------------------------------------------------
(* The CPU side *)

CpuSide == DeviceTypes /\ StackShape /\ PicNested /\ BytesNumbered /\ PushesOrdered

\* Indices of the ring stay in it.
LEMMA WrapFacts ==
    ASSUME NEW i \in 0 .. EVENT_Q_SIZE - 1
    PROVE  /\ Wrap(i + 1) \in 0 .. EVENT_Q_SIZE - 1
           /\ Wrap(i + 1) = IF i + 1 = EVENT_Q_SIZE THEN 0 ELSE i + 1
BY EventPathAssumption DEF Wrap

\* A frame that moves on.
LEMMA GotoIsFrame ==
    ASSUME NEW g \in Frame, NEW l \in Before \cup {"iret"} \cup TaskPc
    PROVE  LET f == [g EXCEPT !.pc = l] IN
           /\ f \in Frame /\ f.pc = l /\ f.who = g.who /\ f.byte = g.byte
           /\ f.todo = g.todo /\ f.made = g.made /\ f.next = g.next
BY DEF Frame

\* What the queue has accepted are events of a device.
LEMMA AcceptedFacts ==
    ASSUME QueueTypes, NEW a \in DOMAIN accepted
    PROVE  /\ a \in 1 .. Len(accepted) /\ accepted[a] \in Event
           /\ accepted[a].src \in Device /\ accepted[a].byte \in Nat /\ accepted[a].k \in Nat
<1>1. a \in 1 .. Len(accepted) /\ accepted[a] \in Event
  BY DEF QueueTypes
<1>. QED
  BY <1>1 DEF Event

\* Where a routine cannot be interrupted, interrupts are disabled.
LEMMA Disabled ==
    ASSUME EventIInv, NEW l, At(l), l \notin Open
    PROVE  iflag = FALSE
<1>1. iflag => l \in Open
  BY DEF EventIInv, StackShape, At
<1>. QED
  BY <1>1 DEF EventIInv, DeviceTypes

\* Steps of event_push up to the publication, and steps of event_pop.
LEMMA PushAndPopKeepCpu ==
    ASSUME EventIInv,
           PushDisable \/ PushNext \/ PushFull \/ PushRoom \/ PushStore \/ event_pop
    PROVE  CpuSide'
<1>1. Top \in Frame /\ accepted \in Seq(Event)
  BY TopFacts DEF EventIInv, QueueTypes
<1>2. /\ DeviceTypes' /\ UNCHANGED <<requested, inService, port, sent, accepted>>
      /\ \E f \in Frame : Becomes(f) /\ Within(f) /\ (iflag' => f.pc \in Open)
  <2>. USE DEF Within, Pushing, TaskPc, Open, EventIInv, DeviceTypes, devices, pic, fifo
  <2>1. CASE PushDisable
    <3>. DEFINE f == [Top EXCEPT !.pc = "next"]
    <3>1. f \in Frame /\ Within(f)
      BY <1>1, <2>1, GotoIsFrame DEF PushDisable, At, Before
    <3>. QED
      BY <2>1, <3>1 DEF PushDisable, Goto, irq_disable
  <2>2. CASE PushNext
    <3>. DEFINE w == Wrap(head + 1)
                f == [Top EXCEPT !.next = w, !.pc = "full"]
    <3>1. w \in 0 .. EVENT_Q_SIZE - 1
      BY WrapFacts DEF QueueTypes
    <3>2. iflag' = FALSE
      BY <2>2, Disabled DEF PushNext
    <3>3. Becomes(f) /\ At("next")
      BY <2>2 DEF PushNext
    <3>. HIDE DEF w
    <3>4. f \in Frame /\ Within(f)
      BY <1>1, <3>1, <3>3 DEF At, Frame, Before
    <3>. QED
      BY <2>2, <3>2, <3>3, <3>4 DEF PushNext
  <2>3. CASE PushFull
    <3>. DEFINE f == [Top EXCEPT !.pc = "pushed"]
    <3>1. f \in Frame /\ Within(f)
      BY <1>1, <2>3, GotoIsFrame DEF PushFull, At, Before
    <3>2. iflag' = FALSE
      BY <2>3, Disabled DEF PushFull
    <3>. QED
      BY <2>3, <3>1, <3>2 DEF PushFull, Goto
  <2>4. CASE PushRoom
    <3>. DEFINE f == [Top EXCEPT !.pc = "store"]
    <3>1. f \in Frame /\ Within(f)
      BY <1>1, <2>4, GotoIsFrame DEF PushRoom, At, Before
    <3>2. iflag' = FALSE
      BY <2>4, Disabled DEF PushRoom
    <3>. QED
      BY <2>4, <3>1, <3>2 DEF PushRoom, Goto
  <2>5. CASE PushStore
    <3>. DEFINE f == [Top EXCEPT !.pc = "publish"]
    <3>1. f \in Frame /\ Within(f)
      BY <1>1, <2>5, GotoIsFrame DEF PushStore, At, Before
    <3>2. iflag' = FALSE
      BY <2>5, Disabled DEF PushStore
    <3>. QED
      BY <2>5, <3>1, <3>2 DEF PushStore, Goto
  <2>6. CASE PopDisable
    <3>. DEFINE f == [Top EXCEPT !.pc = "empty"]
    <3>1. f \in Frame /\ Within(f)
      BY <1>1, <2>6, GotoIsFrame DEF PopDisable, At, Before
    <3>. QED
      BY <2>6, <3>1 DEF PopDisable, Goto, irq_disable
  <2>7. CASE PopEmpty
    <3>. DEFINE f == [Top EXCEPT !.pc = "popped"]
    <3>1. f \in Frame /\ Within(f)
      BY <1>1, <2>7, GotoIsFrame DEF PopEmpty, At, Before
    <3>2. iflag' = FALSE
      BY <2>7, Disabled DEF PopEmpty
    <3>. QED
      BY <2>7, <3>1, <3>2 DEF PopEmpty, Goto
  <2>8. CASE PopCopy
    <3>. DEFINE f == [Top EXCEPT !.pc = "advance"]
    <3>1. f \in Frame /\ Within(f)
      BY <1>1, <2>8, GotoIsFrame DEF PopCopy, At, Before
    <3>2. iflag' = FALSE
      BY <2>8, Disabled DEF PopCopy
    <3>. QED
      BY <2>8, <3>1, <3>2 DEF PopCopy, Goto
  <2>9. CASE PopAdvance
    <3>. DEFINE f == [Top EXCEPT !.pc = "popped"]
    <3>1. f \in Frame /\ Within(f)
      BY <1>1, <2>9, GotoIsFrame DEF PopAdvance, At, Before
    <3>2. iflag' = FALSE
      BY <2>9, Disabled DEF PopAdvance
    <3>. QED
      BY <2>9, <3>1, <3>2 DEF PopAdvance, Goto
  <2>10. CASE PopEnable
    <3>. DEFINE f == [Top EXCEPT !.pc = "away"]
    <3>1. f \in Frame /\ Within(f) /\ f.pc \in Open
      BY <1>1, <2>10, GotoIsFrame DEF PopEnable, At, Before
    <3>. QED
      BY <2>10, <3>1 DEF PopEnable, Goto, irq_enable
  <2>. QED
    BY <2>1, <2>2, <2>3, <2>4, <2>5, <2>6, <2>7, <2>8, <2>9, <2>10 DEF event_pop
<1>. QED
  BY <1>1, <1>2, WithinKeeps DEF CpuSide, EventIInv

\* A stack that does not change.
LEMMA SameStack ==
    ASSUME frames' = frames
    PROVE  Top' = Top /\ Handling' = Handling /\ \A l : At(l)' <=> At(l)
BY DEF Top, Last, Handling, At

\* A byte arrives only when the last one has been read.
LEMMA SendKeepsCpu ==
    ASSUME EventIInv, NEW d \in Device, SendByte(d)
    PROVE  CpuSide'
<1>1. /\ port = NoByte /\ sent[d] < MaxBytes /\ sent' = [sent EXCEPT ![d] = @ + 1]
      /\ port' = [src |-> d, byte |-> sent[d] + 1]
      /\ requested' = requested \cup {d}
      /\ UNCHANGED <<iflag, frames, inService, ticks, accepted>>
  BY DEF SendByte, ring, fifo
<1>2. /\ Top' = Top /\ Handling' = Handling /\ (At("read")' <=> At("read"))
  BY <1>1, SameStack
<1>3. /\ sent \in [Device -> Nat] /\ sent' \in [Device -> Nat] /\ sent'[d] = sent[d] + 1
      /\ \A e \in Device : e # d => sent'[e] = sent[e]
  BY <1>1 DEF EventIInv, DeviceTypes
<1>4. DeviceTypes'
  BY <1>1, <1>3 DEF EventIInv, DeviceTypes, Source
<1>5. StackShape' /\ PicNested' /\ PushesOrdered'
  BY <1>1, <1>2 DEF EventIInv, StackShape, PicNested, PushesOrdered
<1>6. BytesNumbered'
  <2>1. port.src = "none" /\ "none" \notin Source
    BY <1>1 DEF NoByte, Source, Device
  <2>2. requested' \cap Device = {d}
    BY <1>1, <2>1 DEF EventIInv, BytesNumbered, Source
  <2>3. ~At("read")
    <3>1. At("read") => Len(frames) # 1
      BY TopFacts DEF EventIInv, At, TaskPc
    <3>2. At("read") => Top.who \in Source
      BY <3>1, TopFacts DEF EventIInv, Routine
    <3>. QED
      BY <2>1, <3>2 DEF EventIInv, BytesNumbered
  <2>4. \A e \in Device : sent'[e] <= MaxBytes
    <3>1. sent[d] + 1 <= MaxBytes
      BY <1>1, <1>3, EventPathAssumption
    <3>. QED
      BY <1>3, <3>1 DEF EventIInv, BytesNumbered
  <2>5. ASSUME NEW e \in Device, NEW b \in 1 .. sent[e]
        PROVE  b \in 1 .. sent'[e] /\ (e = d => b < sent'[e])
    BY <1>3
  <2>6. \A i \in 2 .. Len(frames) : frames[i].pc \in Pushing => frames[i].who \in Device
    BY DEF EventIInv, StackShape, Routine, Pushing, Source
  <2>7. \A i \in 2 .. Len(frames) :
          frames[i].pc \in Pushing =>
             /\ frames[i].byte \in 1 .. sent'[frames[i].who]
             /\ d = frames[i].who => frames[i].byte < sent'[frames[i].who]
    BY <2>5, <2>6 DEF EventIInv, BytesNumbered
  <2>8. \A a \in DOMAIN accepted : accepted[a].src \in Device
    BY AcceptedFacts DEF EventIInv
  <2>9. \A a \in DOMAIN accepted :
          /\ accepted[a].byte \in 1 .. sent'[accepted[a].src]
          /\ d = accepted[a].src => accepted[a].byte < sent'[accepted[a].src]
    BY <2>5, <2>8 DEF EventIInv, BytesNumbered
  <2>10. port'.src = d /\ port'.byte = sent'[d] /\ sent'[d] > 0
    BY <1>1, <1>3
  <2>. QED
    BY <1>1, <1>2, <2>2, <2>3, <2>4, <2>7, <2>9, <2>10 DEF BytesNumbered
<1>. QED
  BY <1>4, <1>5, <1>6 DEF CpuSide

\* Nor does a tick disturb anything.
LEMMA TickKeepsCpu ==
    ASSUME EventIInv, TimerTick
    PROVE  CpuSide'
<1>1. /\ ticks' = ticks + 1 /\ requested' = requested \cup {"timer"}
      /\ UNCHANGED <<iflag, frames, inService, port, sent, accepted>>
  BY DEF TimerTick, fifo
<1>2. /\ Top' = Top /\ Handling' = Handling /\ (At("read")' <=> At("read"))
  BY <1>1, SameStack
<1>3. DeviceTypes'
  BY <1>1 DEF EventIInv, DeviceTypes, Source
<1>4. StackShape' /\ PicNested' /\ PushesOrdered'
  BY <1>1, <1>2 DEF EventIInv, StackShape, PicNested, PushesOrdered
<1>5. requested' \cap Device = requested \cap Device
  BY <1>1 DEF Device
<1>6. BytesNumbered'
  BY <1>1, <1>2, <1>5 DEF EventIInv, BytesNumbered
<1>. QED
  BY <1>3, <1>4, <1>6 DEF CpuSide

\* The lines of the sources.
LEMMA LineFacts ==
    /\ Line("timer") = 0 /\ Line("keyboard") = 1 /\ Line("mouse") = 2
    /\ \A q \in Source : Line(q) \in Master /\ Lines(q) \cap Master = {Line(q)}
                         /\ (12 \in Lines(q) <=> q = "mouse") /\ Lines(q) \subseteq Master \cup {12}
    /\ \A q, r \in Source : Line(q) = Line(r) => q = r
<1>1. Line("timer") = 0 /\ Line("keyboard") = 1 /\ Line("mouse") = 2
  BY DEF Line
<1>2. Source = {"timer", "keyboard", "mouse"} /\ 12 \notin Master /\ {0, 1, 2} \subseteq Master
  BY DEF Source, Device, Master
<1>3. Lines("timer") = {0} /\ Lines("keyboard") = {1} /\ Lines("mouse") = {2, 12}
  BY <1>1 DEF Lines
<1>. QED
  BY <1>1, <1>2, <1>3

\* Routines before their EOI are those of sources, above the task.
LEMMA HandlingFacts ==
    ASSUME StackShape
    PROVE  /\ Handling \subseteq 2 .. Len(frames)
           /\ \A i \in Handling : frames[i].who \in Source /\ Line(frames[i].who) \in Nat
<1>1. DOMAIN frames = 1 .. Len(frames) /\ Len(frames) \in Nat
  BY DEF StackShape
<1>2. Handling \subseteq 2 .. Len(frames)
  BY <1>1 DEF Handling
<1>3. \A i \in Handling : frames[i].who \in Source
  BY <1>2 DEF StackShape, Routine
<1>4. Master \subseteq Nat
  BY DEF Master
<1>. QED
  BY <1>2, <1>3, <1>4, LineFacts

\* Two routines of one source are not before their EOI at the same time.
LEMMA OnePerSource ==
    ASSUME StackShape, PicNested, NEW i \in Handling, NEW j \in Handling,
           frames[i].who = frames[j].who
    PROVE  i = j
<1>1. i \in Nat /\ j \in Nat /\ Line(frames[i].who) \in Nat
  BY HandlingFacts
<1>2. ~ (i < j) /\ ~ (j < i)
  BY <1>1 DEF PicNested
<1>. QED
  BY <1>1, <1>2

\* An accepted interrupt has a higher priority than all that are in service.
LEMMA AcceptKeepsCpu ==
    ASSUME EventIInv, NEW q \in Source, Accept(q)
    PROVE  CpuSide'
<1>. PICK n, f : n = Len(frames) /\ f = Context(q, IF q = "timer" THEN "eoi" ELSE "read")
  OBVIOUS
<1>1. /\ iflag /\ q \in requested /\ CanInterrupt(q)
      /\ requested' = requested \ {q} /\ inService' = inService \cup Lines(q)
      /\ iflag' = FALSE /\ frames' = Append(frames, f)
      /\ UNCHANGED <<port, sent, ticks, accepted>>
  BY DEF Accept, InServiceWith, devices, fifo
<1>2. /\ f \in Frame /\ f.who = q /\ f.made = 0
      /\ f.pc = IF q = "timer" THEN "eoi" ELSE "read"
  <2>1. 0 \in 0 .. EVENT_Q_SIZE - 1
    BY EventPathAssumption
  <2>. QED
    BY <2>1 DEF Context, Frame, Before
<1>3. /\ n \in Nat /\ n >= 1 /\ Top = frames[n] /\ DOMAIN frames = 1 .. n
      /\ frames \in Seq(Frame)
  BY TopFacts DEF EventIInv, StackShape
<1>4. /\ frames' \in Seq(Frame) /\ Len(frames') = n + 1 /\ Top' = f /\ frames'[n + 1] = f
      /\ \A i \in 1 .. n : frames'[i] = frames[i]
  BY <1>1, <1>2, NestFacts DEF EventIInv
<1>5. DOMAIN frames' = 1 .. n + 1
  BY <1>3, <1>4
<1>6. DeviceTypes'
  <2>1. Lines(q) \subseteq 0 .. 15
    BY LineFacts DEF Master
  <2>. QED
    BY <1>1, <2>1 DEF EventIInv, DeviceTypes
<1>7. StackShape'
  <2>1. Routine(f)
    BY <1>2 DEF Routine, Before, Pushing
  <2>2. \A i \in 1 .. n : frames'[i].pc \in Open
    <3>1. Top.pc \in Open
      BY <1>1 DEF EventIInv, StackShape
    <3>. QED
      BY <1>3, <1>4, <3>1 DEF EventIInv, StackShape
  <2>3. \A i \in 2 .. n + 1 : Routine(frames'[i])
    <3>1. \A i \in 2 .. n : Routine(frames'[i])
      BY <1>4 DEF EventIInv, StackShape
    <3>. QED
      BY <1>3, <1>4, <2>1, <3>1
  <2>4. frames'[1].who = "task" /\ frames'[1].pc \in TaskPc
    BY <1>3, <1>4 DEF EventIInv, StackShape
  <2>. QED
    BY <1>1, <1>3, <1>4, <2>2, <2>3, <2>4 DEF StackShape
<1>8. Handling' = Handling \cup {n + 1} /\ Handling \subseteq 2 .. n /\ n + 1 \notin Handling
  <2>1. \A i \in 1 .. n : frames'[i].pc \in Before <=> frames[i].pc \in Before
    BY <1>4
  <2>2. f.pc \in Before
    BY <1>2 DEF Before
  <2>3. Handling \subseteq 2 .. n
    BY HandlingFacts DEF EventIInv
  <2>4. Handling' = {i \in 1 .. n + 1 : frames'[i].pc \in Before /\ i > 1}
    BY <1>5 DEF Handling
  <2>. QED
    BY <1>3, <1>4, <2>1, <2>2, <2>3, <2>4 DEF Handling
<1>9. PicNested'
  <2>1. \A i \in Handling : frames'[i] = frames[i]
    BY <1>4, <1>8
  <2>2. inService' \cap Master = {Line(frames'[i].who) : i \in Handling'}
    <3>1. inService' \cap Master = (inService \cap Master) \cup {Line(q)}
      BY <1>1, LineFacts
    <3>2. inService \cap Master = {Line(frames[i].who) : i \in Handling}
      BY DEF EventIInv, PicNested
    <3>. QED
      BY <1>2, <1>4, <1>8, <2>1, <3>1, <3>2
  <2>3. ASSUME NEW i \in Handling', NEW j \in Handling', i < j
        PROVE  Line(frames'[j].who) < Line(frames'[i].who)
    <3>1. CASE j \in Handling /\ i \in Handling
      BY <2>1, <2>3, <3>1 DEF EventIInv, PicNested
    <3>2. CASE j = n + 1 /\ i \in Handling
      <4>1. Line(frames[i].who) \in inService \cap Master
        BY <3>2 DEF EventIInv, PicNested
      <4>2. Line(q) < Line(frames[i].who)
        BY <1>1, <4>1 DEF CanInterrupt
      <4>. QED
        BY <1>2, <1>4, <2>1, <3>2, <4>2
    <3>. QED
      BY <1>3, <1>8, <2>3, <3>1, <3>2
  <2>4. 12 \in inService' <=> \E i \in Handling' : frames'[i].who = "mouse" /\ frames'[i].pc # "eoi"
    <3>1. 12 \in inService <=> \E i \in Handling : frames[i].who = "mouse" /\ frames[i].pc # "eoi"
      BY DEF EventIInv, PicNested
    <3>2. 12 \in inService' <=> 12 \in inService \/ q = "mouse"
      BY <1>1, LineFacts
    <3>3. q = "mouse" <=> f.who = "mouse" /\ f.pc # "eoi"
      BY <1>2
    <3>. QED
      BY <1>4, <1>8, <2>1, <3>1, <3>2, <3>3
  <2>5. inService' \subseteq Master \cup {12}
    BY <1>1, LineFacts DEF EventIInv, PicNested
  <2>. QED
    BY <2>2, <2>3, <2>4, <2>5 DEF PicNested
<1>10. f.pc \notin Pushing
  BY <1>2 DEF Pushing
<1>11. ASSUME NEW i \in 2 .. n + 1, frames'[i].pc \in Pushing
       PROVE  i \in 2 .. n /\ frames'[i] = frames[i]
  <2>1. i # n + 1
    BY <1>4, <1>10, <1>11
  <2>. QED
    BY <1>3, <1>4, <2>1
<1>12. BytesNumbered'
  <2>1. At("read")' => port.src = f.who /\ requested' \cap Device = {}
    <3>1. At("read")' => q \in Device
      BY <1>2, <1>4 DEF At, Source
    <3>2. \A d \in requested \cap Device : port.src = d
      BY DEF EventIInv, BytesNumbered
    <3>. QED
      BY <1>1, <1>2, <3>1, <3>2
  <2>2. \A i \in 2 .. n + 1 :
          frames'[i].pc \in Pushing =>
             /\ frames'[i].byte \in 1 .. sent[frames'[i].who]
             /\ port.src = frames'[i].who => frames'[i].byte < sent[frames'[i].who]
    BY <1>11 DEF EventIInv, BytesNumbered
  <2>. QED
    BY <1>1, <1>4, <2>1, <2>2 DEF EventIInv, BytesNumbered
<1>13. PushesOrdered'
  <2>. SUFFICES ASSUME NEW i \in 2 .. n + 1, NEW a \in DOMAIN accepted, frames'[i].pc \in Pushing,
                       accepted[a].src = frames'[i].who
                PROVE  Behind(accepted[a], frames'[i])
    BY <1>1, <1>4 DEF PushesOrdered
  <2>. QED
    BY <1>11 DEF EventIInv, PushesOrdered
<1>. QED
  BY <1>6, <1>7, <1>9, <1>12, <1>13 DEF CpuSide

\* Where a routine goes once its handler has no event left.
LEMMA NextPushFacts ==
    ASSUME NEW g \in Frame, g.who \in Device
    PROVE  LET f == NextPush(g) IN
           /\ f \in Frame /\ f.who = g.who /\ f.byte = g.byte
           /\ f.todo = g.todo /\ f.made = g.made
           /\ f.pc = IF g.todo > 0 THEN "push" ELSE IF g.who = "mouse" THEN "slaveEoi" ELSE "eoi"
           /\ f.pc \in Before /\ f.pc \in Open
<1>. DEFINE l == IF g.todo > 0 THEN "push" ELSE IF g.who = "mouse" THEN "slaveEoi" ELSE "eoi"
            f == [g EXCEPT !.pc = l]
<1>1. NextPush(g) = f
  BY DEF NextPush, EndOfHandler
<1>2. l \in Before /\ l \in Open
  BY DEF Before, Open
<1>. HIDE DEF l
<1>3. f \in Frame /\ f.pc = l /\ f.who = g.who /\ f.byte = g.byte /\ f.todo = g.todo /\ f.made = g.made
  BY <1>2, GotoIsFrame
<1>. HIDE DEF f
<1>. QED
  BY <1>1, <1>2, <1>3 DEF l

\* A handler reads the newest byte of its device.
LEMMA ReadKeepsCpu ==
    ASSUME EventIInv, ReadByte
    PROVE  CpuSide' /\ Top'.pc \in Open
<1>. PICK m, n, g, f :
        /\ m \in Pushes(Top.who) /\ n = Len(frames)
        /\ g = [Top EXCEPT !.byte = port.byte, !.todo = m] /\ f = NextPush(g)
        /\ Becomes(f)
  BY DEF ReadByte
<1>1. /\ Top.pc = "read" /\ port' = NoByte
      /\ UNCHANGED <<iflag, requested, inService, sent, ticks, accepted>>
  BY DEF ReadByte, At, pic, fifo
<1>2. /\ n \in Nat /\ n # 1 /\ n >= 1 /\ Top = frames[n] /\ Top \in Frame /\ Routine(Top)
  BY <1>1, TopFacts DEF EventIInv, TaskPc
<1>3. Top.who \in Device /\ Top.made = 0
  BY <1>1, <1>2 DEF Routine, Source
<1>4. m \in 0 .. MaxPushes
  BY <1>3, EventPathAssumption DEF Pushes, Device, MaxPushes
<1>5. port.src = Top.who /\ requested \cap Device = {} /\ port.byte = sent[Top.who]
      /\ sent[Top.who] > 0
  BY <1>1, <1>3 DEF EventIInv, BytesNumbered, At
<1>6. sent[Top.who] \in Nat
  BY <1>3 DEF EventIInv, DeviceTypes
<1>7. /\ g \in Frame /\ g.who = Top.who /\ g.byte = sent[Top.who] /\ g.todo = m /\ g.made = 0
  <2>. PICK b : b = port.byte
    OBVIOUS
  <2>1. b \in Nat /\ b = sent[Top.who] /\ m \in Nat
    BY <1>4, <1>5, <1>6 DEF MaxPushes
  <2>2. g = [Top EXCEPT !.byte = b, !.todo = m]
    OBVIOUS
  <2>3. /\ g \in Frame /\ g.who = Top.who /\ g.byte = b /\ g.todo = m /\ g.made = Top.made
    BY <1>2, <2>1, <2>2 DEF Frame
  <2>. QED
    BY <1>3, <2>1, <2>3
<1>8. /\ f \in Frame /\ f.who = Top.who /\ f.byte = sent[Top.who] /\ f.todo = m /\ f.made = 0
      /\ f.pc = IF m > 0 THEN "push" ELSE IF Top.who = "mouse" THEN "slaveEoi" ELSE "eoi"
      /\ f.pc \in Before /\ f.pc \in Open
  BY <1>3, <1>7, NextPushFacts
<1>9. /\ Len(frames') = n /\ Top' = f /\ frames'[n] = f
      /\ \A i \in 1 .. n - 1 : frames'[i] = frames[i]
  BY <1>8, BecomesFacts DEF EventIInv
<1>10. DeviceTypes'
  BY <1>1 DEF EventIInv, DeviceTypes
<1>11. StackShape'
  <2>1. Routine(f)
    BY <1>3, <1>4, <1>8 DEF Routine, Source, Device, Before, Pushing, MaxPushes
  <2>. QED
    BY <1>2, <1>8, <2>1, TopInShape DEF EventIInv
<1>12. PicNested'
  <2>1. Top.pc \in Before /\ Top.pc # "eoi" /\ (Top.who = "mouse" => f.pc # "eoi")
    BY <1>1, <1>8 DEF Before
  <2>. QED
    BY <1>1, <1>8, <2>1, SameLines DEF EventIInv
<1>13. "none" \notin Source /\ port'.src = "none"
  BY <1>1 DEF Source, Device, NoByte
<1>14. \A i \in 2 .. n : i # n => frames'[i] = frames[i]
  BY <1>2, <1>9
<1>15. BytesNumbered'
  <2>1. ~At("read")'
    BY <1>8, <1>9 DEF At, Open
  <2>2. ASSUME NEW i \in 2 .. n, frames'[i].pc \in Pushing
        PROVE  /\ frames'[i].byte \in 1 .. sent[frames'[i].who]
               /\ frames'[i].who # "none"
    <3>1. CASE i = n
      <4>1. sent[Top.who] \in 1 .. sent[Top.who]
        BY <1>5, <1>6
      <4>. QED
        BY <1>3, <1>8, <1>9, <1>13, <3>1, <4>1 DEF Source
    <3>2. CASE i # n
      BY <1>13, <1>14, <2>2, <3>2 DEF EventIInv, BytesNumbered, StackShape, Routine
    <3>. QED
      BY <3>1, <3>2
  <2>3. \A a \in DOMAIN accepted : accepted[a].src \in Device
    BY AcceptedFacts DEF EventIInv
  <2>. QED
    BY <1>1, <1>5, <1>9, <1>13, <2>1, <2>2, <2>3 DEF EventIInv, BytesNumbered, Source
<1>16. PushesOrdered'
  <2>. SUFFICES ASSUME NEW i \in 2 .. n, NEW a \in DOMAIN accepted, frames'[i].pc \in Pushing,
                       accepted[a].src = frames'[i].who
                PROVE  Behind(accepted[a], frames'[i])
    BY <1>1, <1>9 DEF PushesOrdered
  <2>1. CASE i = n
    BY <1>5, <1>8, <1>9, <2>1 DEF EventIInv, BytesNumbered, Behind
  <2>2. CASE i # n
    BY <1>14, <2>2 DEF EventIInv, PushesOrdered
  <2>. QED
    BY <2>1, <2>2
<1>. QED
  BY <1>8, <1>9, <1>10, <1>11, <1>12, <1>15, <1>16 DEF CpuSide

\* A routine that leaves event_push behind has no claim on bytes or order.
LEMMA DoneWithPushes ==
    ASSUME EventIInv, NEW f \in Frame, Becomes(f), f.pc \notin Pushing, f.pc # "read",
           UNCHANGED <<requested, port, sent, accepted>>
    PROVE  BytesNumbered' /\ PushesOrdered'
<1>. PICK n : n = Len(frames)
  OBVIOUS
<1>1. /\ Len(frames') = n /\ Top' = f /\ frames'[n] = f
      /\ \A i \in 1 .. n - 1 : frames'[i] = frames[i]
  BY BecomesFacts DEF EventIInv
<1>2. n \in Nat /\ n >= 1
  BY TopFacts DEF EventIInv
<1>3. ASSUME NEW i \in 2 .. n, frames'[i].pc \in Pushing
      PROVE  frames'[i] = frames[i]
  BY <1>1, <1>2, <1>3
<1>4. ~At("read")'
  BY <1>1 DEF At
<1>5. \A i \in 2 .. n :
        frames'[i].pc \in Pushing =>
           /\ frames'[i].byte \in 1 .. sent[frames'[i].who]
           /\ port.src = frames'[i].who => frames'[i].byte < sent[frames'[i].who]
  BY <1>3 DEF EventIInv, BytesNumbered
<1>6. BytesNumbered'
  BY <1>1, <1>4, <1>5 DEF EventIInv, BytesNumbered
<1>7. PushesOrdered'
  <2>. SUFFICES ASSUME NEW i \in 2 .. n, NEW a \in DOMAIN accepted, frames'[i].pc \in Pushing,
                       accepted[a].src = frames'[i].who
                PROVE  Behind(accepted[a], frames'[i])
    BY <1>1 DEF PushesOrdered
  <2>. QED
    BY <1>3 DEF EventIInv, PushesOrdered
<1>. QED
  BY <1>6, <1>7

\* The slave's line is ended by the only mouse_isr before its EOI.
LEMMA SlaveEoiKeepsCpu ==
    ASSUME EventIInv, SlaveEoi
    PROVE  CpuSide'
<1>. PICK n, f : n = Len(frames) /\ f = [Top EXCEPT !.pc = "eoi"]
  OBVIOUS
<1>1. /\ Top.pc = "slaveEoi" /\ inService' = inService \cap Master /\ Becomes(f)
      /\ UNCHANGED <<iflag, requested, port, sent, ticks, accepted>>
  BY DEF SlaveEoi, At, Goto, devices, fifo
<1>2. /\ n \in Nat /\ n >= 1 /\ Top = frames[n] /\ Top \in Frame /\ n # 1 /\ Routine(Top)
      /\ n \in Handling
  BY <1>1, TopFacts DEF EventIInv, TaskPc, Before
<1>3. Top.who = "mouse"
  BY <1>1, <1>2 DEF Routine
<1>4. f \in Frame /\ f.pc = "eoi" /\ f.who = "mouse"
  <2>. DEFINE g == [Top EXCEPT !.pc = "eoi"]
  <2>1. g \in Frame /\ g.pc = "eoi" /\ g.who = Top.who
    BY <1>2, GotoIsFrame DEF Before
  <2>. HIDE DEF g
  <2>2. f = g
    BY DEF g
  <2>. QED
    BY <1>3, <2>1, <2>2
<1>5. /\ Len(frames') = n /\ frames'[n] = f
      /\ \A i \in 1 .. n - 1 : frames'[i] = frames[i]
  BY <1>1, <1>4, BecomesFacts DEF EventIInv
<1>6. DeviceTypes'
  BY <1>1 DEF EventIInv, DeviceTypes
<1>7. StackShape'
  <2>1. Routine(f) /\ f.pc \in Open
    BY <1>4 DEF Routine, Source, Device, Before, Pushing, Open
  <2>. QED
    BY <1>1, <1>2, <1>3, <1>4, <2>1, TopInShape DEF EventIInv
<1>8. BytesNumbered' /\ PushesOrdered'
  BY <1>1, <1>4, DoneWithPushes DEF Pushing
<1>9. PicNested'
  <2>1. DOMAIN frames = 1 .. n /\ DOMAIN frames' = 1 .. n
    BY <1>2, <1>5, <1>7 DEF EventIInv, StackShape
  <2>2. Top.pc \in Before /\ f.pc \in Before
    BY <1>1, <1>4 DEF Before
  <2>3. \A i \in 1 .. n : /\ frames'[i].who = frames[i].who
                          /\ frames'[i].pc \in Before <=> frames[i].pc \in Before
                          /\ i # n => frames'[i].pc = frames[i].pc
    <3>1. \A i \in 1 .. n : i # n => frames'[i] = frames[i]
      BY <1>2, <1>5
    <3>2. frames'[n].who = frames[n].who /\ frames'[n].pc \in Before /\ frames[n].pc \in Before
      BY <1>2, <1>3, <1>4, <1>5, <2>2
    <3>. QED
      BY <3>1, <3>2
  <2>4. Handling' = Handling /\ Handling \subseteq 1 .. n
    BY <2>1, <2>3 DEF Handling
  <2>5. \A i \in Handling : frames[i].who = "mouse" => i = n
    BY <1>2, <1>3, OnePerSource DEF EventIInv
  <2>6. 12 \notin inService' /\ inService' \cap Master = inService \cap Master
    BY <1>1 DEF Master
  <2>7. ~ \E i \in Handling' : frames'[i].who = "mouse" /\ frames'[i].pc # "eoi"
    BY <1>4, <1>5, <2>3, <2>4, <2>5
  <2>8. /\ inService' \subseteq Master \cup {12}
        /\ inService' \cap Master = {Line(frames'[i].who) : i \in Handling'}
    BY <1>1, <2>3, <2>4, <2>6 DEF EventIInv, PicNested
  <2>9. \A i, j \in Handling' : i < j => Line(frames'[j].who) < Line(frames'[i].who)
    BY <2>3, <2>4 DEF EventIInv, PicNested
  <2>. QED
    BY <2>6, <2>7, <2>8, <2>9 DEF PicNested
<1>. QED
  BY <1>6, <1>7, <1>8, <1>9 DEF CpuSide

\* The line of highest priority in service is that of the routine on top.
LEMMA TopHasPriority ==
    ASSUME EventIInv, NEW n, n = Len(frames), n \in Handling
    PROVE  /\ Line(Top.who) \in inService \cap Master
           /\ \A l \in inService \cap Master : Line(Top.who) <= l
           /\ \A i \in Handling : i # n => Line(Top.who) < Line(frames[i].who)
<1>1. n \in Nat /\ n >= 1 /\ Top = frames[n]
  BY TopFacts DEF EventIInv
<1>2. \A i \in Handling : i \in Nat /\ i <= n /\ Line(frames[i].who) \in Nat
  BY <1>1, HandlingFacts DEF EventIInv
<1>3. \A i \in Handling : i # n => Line(Top.who) < Line(frames[i].who)
  <2>1. \A i \in Handling : i # n => i < n
    BY <1>1, <1>2
  <2>2. \A i, j \in Handling : i < j => Line(frames[j].who) < Line(frames[i].who)
    BY DEF EventIInv, PicNested
  <2>. QED
    BY <1>1, <2>1, <2>2
<1>4. inService \cap Master = {Line(frames[i].who) : i \in Handling}
  BY DEF EventIInv, PicNested
<1>5. ASSUME NEW l \in inService \cap Master PROVE Line(Top.who) <= l
  <2>1. PICK i \in Handling : l = Line(frames[i].who)
    BY <1>4
  <2>. QED
    BY <1>1, <1>2, <1>3, <2>1
<1>. QED
  BY <1>1, <1>3, <1>4, <1>5

\* So the unspecific EOI ends that line.
LEMMA MasterEoiKeepsCpu ==
    ASSUME EventIInv, MasterEoi
    PROVE  CpuSide'
<1>. PICK n, f, L : n = Len(frames) /\ f = [Top EXCEPT !.pc = "iret"] /\ L = Line(Top.who)
  OBVIOUS
<1>1. /\ Top.pc = "eoi" /\ Becomes(f)
      /\ inService' = {l \in inService : l \notin Master \/ \E h \in inService : h < l}
      /\ UNCHANGED <<iflag, requested, port, sent, ticks, accepted>>
  BY DEF MasterEoi, At, Goto, devices, fifo
<1>2. /\ n \in Nat /\ n >= 1 /\ Top = frames[n] /\ Top \in Frame /\ n # 1 /\ Routine(Top)
      /\ n \in Handling
  BY <1>1, TopFacts DEF EventIInv, TaskPc, Before
<1>4. f \in Frame /\ f.pc = "iret" /\ f.who = Top.who
  <2>. DEFINE g == [Top EXCEPT !.pc = "iret"]
  <2>1. g \in Frame /\ g.pc = "iret" /\ g.who = Top.who
    BY <1>2, GotoIsFrame
  <2>. HIDE DEF g
  <2>2. f = g
    BY DEF g
  <2>. QED
    BY <2>1, <2>2
<1>5. /\ Len(frames') = n /\ frames'[n] = f
      /\ \A i \in 1 .. n - 1 : frames'[i] = frames[i]
  BY <1>1, <1>4, BecomesFacts DEF EventIInv
<1>6. DeviceTypes'
  BY <1>1 DEF EventIInv, DeviceTypes
<1>7. StackShape'
  <2>1. Routine(f) /\ f.pc \in Open
    BY <1>2, <1>4 DEF Routine, Before, Pushing, Open
  <2>. QED
    BY <1>1, <1>2, <1>4, <2>1, TopInShape DEF EventIInv
<1>8. BytesNumbered' /\ PushesOrdered'
  BY <1>1, <1>4, DoneWithPushes DEF Pushing
<1>9. PicNested'
  <2>1. DOMAIN frames = 1 .. n /\ DOMAIN frames' = 1 .. n
    BY <1>2, <1>5, <1>7 DEF EventIInv, StackShape
  <2>2. Top.pc \in Before /\ f.pc \notin Before
    BY <1>1, <1>4 DEF Before
  <2>3. \A i \in 1 .. n : i # n => frames'[i] = frames[i]
    BY <1>2, <1>5
  <2>4. Handling' = Handling \ {n} /\ Handling \subseteq 1 .. n
    BY <1>2, <1>5, <2>1, <2>2, <2>3 DEF Handling
  <2>5. /\ L \in inService \cap Master
        /\ \A l \in inService \cap Master : L <= l
        /\ \A i \in Handling : i # n => L < Line(frames[i].who)
    BY <1>2, TopHasPriority
  <2>6. inService \subseteq Master \cup {12} /\ Master \subseteq Nat /\ 12 \notin Master
        /\ \A l \in Master : l < 12
    BY DEF EventIInv, PicNested, Master
  <2>7. inService' \cap Master = (inService \cap Master) \ {L}
    <3>1. \A l \in inService \cap Master : (\E h \in inService : h < l) <=> l # L
      BY <2>5, <2>6
    <3>. QED
      BY <1>1, <3>1
  <2>8. 12 \in inService' <=> 12 \in inService
    BY <1>1, <2>6
  <2>9. inService' \cap Master = {Line(frames'[i].who) : i \in Handling'}
    <3>1. inService \cap Master = {Line(frames[i].who) : i \in Handling}
      BY DEF EventIInv, PicNested
    <3>2. \A i \in Handling \ {n} : frames'[i] = frames[i] /\ Line(frames[i].who) # L
      <4>1. L \in Nat /\ \A i \in Handling : Line(frames[i].who) \in Nat
        BY <2>5, <2>6, HandlingFacts DEF EventIInv
      <4>. QED
        BY <2>3, <2>4, <2>5, <4>1
    <3>3. \A l \in inService \cap Master : l # L => \E i \in Handling \ {n} : l = Line(frames[i].who)
      BY <1>2, <3>1
    <3>. QED
      BY <2>4, <2>7, <3>1, <3>2, <3>3
  <2>10. \A i, j \in Handling' : i < j => Line(frames'[j].who) < Line(frames'[i].who)
    BY <2>3, <2>4 DEF EventIInv, PicNested
  <2>11. 12 \in inService' <=> \E i \in Handling' : frames'[i].who = "mouse" /\ frames'[i].pc # "eoi"
    <3>1. 12 \in inService <=> \E i \in Handling : frames[i].who = "mouse" /\ frames[i].pc # "eoi"
      BY DEF EventIInv, PicNested
    <3>. QED
      BY <1>1, <1>2, <2>3, <2>4, <2>8, <3>1
  <2>. QED
    BY <1>1, <2>6, <2>9, <2>10, <2>11 DEF PicNested
<1>. QED
  BY <1>6, <1>7, <1>8, <1>9 DEF CpuSide

\* The interrupted context had interrupts enabled.
LEMMA IretKeepsCpu ==
    ASSUME EventIInv, Iret
    PROVE  CpuSide'
<1>. PICK n : n = Len(frames)
  OBVIOUS
<1>1. /\ Top.pc = "iret" /\ frames' = Front(frames) /\ iflag' = TRUE
      /\ UNCHANGED <<requested, inService, port, sent, ticks, accepted>>
  BY DEF Iret, At, irq_enable, pic, devices, fifo
<1>2. /\ n \in Nat /\ n >= 1 /\ Top = frames[n] /\ n # 1 /\ n \notin Handling
  BY <1>1, TopFacts DEF EventIInv, TaskPc, Before
<1>3. /\ frames' \in Seq(Frame) /\ Len(frames') = n - 1 /\ Top' = frames[n - 1]
      /\ \A i \in 1 .. n - 1 : frames'[i] = frames[i]
  BY <1>1, <1>2, ReturnFacts DEF EventIInv
<1>4. DeviceTypes'
  BY <1>1 DEF EventIInv, DeviceTypes
<1>5. Top'.pc \in Open
  BY <1>2, <1>3 DEF EventIInv, StackShape
<1>6. StackShape'
  <2>1. 1 \in 1 .. n - 1
    BY <1>2
  <2>2. frames'[1].who = "task" /\ frames'[1].pc \in TaskPc
    BY <1>3, <2>1 DEF EventIInv, StackShape
  <2>3. \A i \in 2 .. n - 1 : Routine(frames'[i])
    BY <1>2, <1>3 DEF EventIInv, StackShape
  <2>4. \A i \in 1 .. n - 2 : frames'[i].pc \in Open
    BY <1>2, <1>3 DEF EventIInv, StackShape
  <2>. QED
    BY <1>2, <1>3, <1>5, <2>2, <2>3, <2>4 DEF StackShape
<1>7. Handling' = Handling /\ Handling \subseteq 2 .. n - 1
  <2>1. DOMAIN frames = 1 .. n /\ DOMAIN frames' = 1 .. n - 1
    BY <1>2, <1>3 DEF EventIInv, StackShape
  <2>2. Handling \subseteq 2 .. n
    BY HandlingFacts DEF EventIInv
  <2>. QED
    BY <1>2, <1>3, <2>1, <2>2 DEF Handling
<1>8. PicNested'
  <2>1. \A i \in Handling : frames'[i] = frames[i]
    BY <1>2, <1>3, <1>7
  <2>2. inService' \cap Master = {Line(frames'[i].who) : i \in Handling'}
    <3>1. inService \cap Master = {Line(frames[i].who) : i \in Handling}
      BY DEF EventIInv, PicNested
    <3>. QED
      BY <1>1, <1>7, <2>1, <3>1
  <2>3. \A i, j \in Handling' : i < j => Line(frames'[j].who) < Line(frames'[i].who)
    BY <1>7, <2>1 DEF EventIInv, PicNested
  <2>4. 12 \in inService' <=> \E i \in Handling' : frames'[i].who = "mouse" /\ frames'[i].pc # "eoi"
    BY <1>1, <1>7, <2>1 DEF EventIInv, PicNested
  <2>. QED
    BY <1>1, <2>2, <2>3, <2>4 DEF EventIInv, PicNested
<1>9. BytesNumbered'
  <2>1. ~At("read")'
    BY <1>5 DEF At, Open
  <2>2. \A i \in 2 .. n - 1 :
          frames'[i].pc \in Pushing =>
             /\ frames'[i].byte \in 1 .. sent[frames'[i].who]
             /\ port.src = frames'[i].who => frames'[i].byte < sent[frames'[i].who]
    BY <1>2, <1>3 DEF EventIInv, BytesNumbered
  <2>. QED
    BY <1>1, <1>3, <2>1, <2>2 DEF EventIInv, BytesNumbered
<1>10. PushesOrdered'
  <2>. SUFFICES ASSUME NEW i \in 2 .. n - 1, NEW a \in DOMAIN accepted, frames'[i].pc \in Pushing,
                       accepted[a].src = frames'[i].who
                PROVE  Behind(accepted[a], frames'[i])
    BY <1>1, <1>3 DEF PushesOrdered
  <2>. QED
    BY <1>2, <1>3 DEF EventIInv, PushesOrdered
<1>. QED
  BY <1>4, <1>6, <1>8, <1>9, <1>10 DEF CpuSide

\* Publishing an event moves a push past it.
LEMMA PublishKeepsCpu ==
    ASSUME EventIInv, PushPublish
    PROVE  CpuSide'
<1>. DEFINE f == [Top EXCEPT !.pc = "pushed"]
<1>. PICK n, e : n = Len(frames) /\ e = PushedEvent
  OBVIOUS
<1>1. /\ Top.pc = "publish" /\ Becomes(f) /\ accepted' = Append(accepted, e)
      /\ UNCHANGED <<iflag, requested, inService, port, sent, ticks>>
  BY DEF PushPublish, At, Goto, pic, devices
<1>2. /\ n \in Nat /\ n >= 1 /\ Top = frames[n] /\ Top \in Frame /\ n # 1 /\ Routine(Top)
      /\ n \in Handling
  BY <1>1, TopFacts DEF EventIInv, TaskPc, Before
<1>3. Top.who \in Device /\ Top.made \in Nat /\ Top.byte \in Nat
  BY <1>1, <1>2 DEF Routine, Source, Frame
<1>4. /\ f \in Frame /\ f.pc = "pushed" /\ f.who = Top.who /\ f.byte = Top.byte
      /\ f.todo = Top.todo /\ f.made = Top.made
  BY <1>2, GotoIsFrame DEF Before
<1>. HIDE DEF f
<1>5. /\ Len(frames') = n /\ Top' = f /\ frames'[n] = f
      /\ \A i \in 1 .. n - 1 : frames'[i] = frames[i]
  BY <1>1, <1>4, BecomesFacts DEF EventIInv
<1>6. DeviceTypes'
  BY <1>1 DEF EventIInv, DeviceTypes
<1>7. StackShape'
  <2>1. Routine(f)
    BY <1>1, <1>2, <1>4 DEF Routine, Before, Pushing
  <2>2. iflag = FALSE
    BY <1>1, Disabled DEF At, Open
  <2>. QED
    BY <1>1, <1>2, <1>4, <2>1, <2>2, TopInShape DEF EventIInv
<1>8. PicNested'
  <2>1. f.pc \in Before /\ Top.pc \in Before /\ f.pc # "eoi" /\ Top.pc # "eoi"
    BY <1>1, <1>4 DEF Before
  <2>. QED
    BY <1>1, <1>4, <2>1, SameLines DEF EventIInv
<1>9. e \in Event /\ e.src = Top.who /\ e.byte = Top.byte /\ e.k = Top.made + 1
  BY <1>3 DEF PushedEvent, Event
<1>10. /\ accepted' \in Seq(Event) /\ Len(accepted') = Len(accepted) + 1 /\ Len(accepted) \in Nat
       /\ accepted'[Len(accepted) + 1] = e
       /\ \A a \in 1 .. Len(accepted) : accepted'[a] = accepted[a]
  BY <1>1, <1>9, AppendFacts DEF EventIInv, QueueTypes
<1>11. ASSUME NEW a \in DOMAIN accepted'
       PROVE  \/ a \in DOMAIN accepted /\ accepted'[a] = accepted[a]
              \/ accepted'[a] = e
  <2>1. a \in 1 .. Len(accepted) + 1
    BY <1>10
  <2>2. DOMAIN accepted = 1 .. Len(accepted)
    BY DEF EventIInv, QueueTypes
  <2>. QED
    BY <1>10, <2>1, <2>2
<1>12. /\ \A i \in 2 .. n : i # n => frames'[i] = frames[i]
       /\ n \in 2 .. n
  BY <1>2, <1>5
<1>13. Top.pc \in Pushing /\ f.pc \in Pushing
  BY <1>1, <1>4 DEF Pushing
<1>14. /\ Top.byte \in 1 .. sent[Top.who]
       /\ port.src = Top.who => Top.byte < sent[Top.who]
  BY <1>2, <1>12, <1>13 DEF EventIInv, BytesNumbered
<1>15. BytesNumbered'
  <2>1. ~At("read")'
    BY <1>4, <1>5 DEF At
  <2>2. \A i \in 2 .. n :
          frames'[i].pc \in Pushing =>
             /\ frames'[i].byte \in 1 .. sent[frames'[i].who]
             /\ port.src = frames'[i].who => frames'[i].byte < sent[frames'[i].who]
    BY <1>4, <1>5, <1>12, <1>14 DEF EventIInv, BytesNumbered
  <2>3. \A a \in DOMAIN accepted' :
          /\ accepted'[a].byte \in 1 .. sent[accepted'[a].src]
          /\ port.src = accepted'[a].src => accepted'[a].byte < sent[accepted'[a].src]
    BY <1>9, <1>11, <1>14 DEF EventIInv, BytesNumbered
  <2>. QED
    BY <1>1, <1>5, <2>1, <2>2, <2>3 DEF EventIInv, BytesNumbered
<1>16. PushesOrdered'
  <2>. SUFFICES ASSUME NEW i \in 2 .. n, NEW a \in DOMAIN accepted', frames'[i].pc \in Pushing,
                       accepted'[a].src = frames'[i].who
                PROVE  Behind(accepted'[a], frames'[i])
    BY <1>5 DEF PushesOrdered
  <2>1. CASE i = n /\ a \in DOMAIN accepted /\ accepted'[a] = accepted[a]
    <3>1. Behind(accepted[a], Top)
      BY <1>2, <1>4, <1>5, <1>12, <1>13, <2>1 DEF EventIInv, PushesOrdered
    <3>2. Reached(Top) = Top.made /\ Reached(f) = Top.made + 1
      BY <1>1, <1>4 DEF Reached
    <3>3. accepted[a].k \in Nat
      BY <2>1, AcceptedFacts DEF EventIInv
    <3>. QED
      BY <1>3, <1>4, <1>5, <2>1, <3>1, <3>2, <3>3 DEF Behind
  <2>2. CASE i = n /\ accepted'[a] = e
    <3>1. Reached(f) = Top.made + 1
      BY <1>4 DEF Reached
    <3>. QED
      BY <1>3, <1>4, <1>5, <1>9, <2>2, <3>1 DEF Behind
  <2>3. CASE i # n /\ a \in DOMAIN accepted /\ accepted'[a] = accepted[a]
    BY <1>12, <2>3 DEF EventIInv, PushesOrdered
  <2>4. CASE i # n /\ accepted'[a] = e
    <3>1. frames'[i] = frames[i]
      BY <1>12, <2>4
    <3>2. i \in DOMAIN frames /\ frames[i].pc \in Before /\ i > 1
      BY <1>2, <3>1 DEF EventIInv, StackShape, Pushing, Before
    <3>3. i \in Handling
      BY <3>2 DEF Handling
    <3>4. frames[i].who = frames[n].who
      BY <1>2, <1>9, <2>4, <3>1
    <3>. QED
      BY <1>2, <2>4, <3>3, <3>4, OnePerSource DEF EventIInv
  <2>. QED
    BY <1>11, <2>1, <2>2, <2>3, <2>4
<1>. QED
  BY <1>6, <1>7, <1>8, <1>15, <1>16 DEF CpuSide

\* After the push, with interrupts enabled again, the next one comes later.
LEMMA EnableKeepsCpu ==
    ASSUME EventIInv, PushEnable
    PROVE  CpuSide'
<1>. PICK n, g, f :
        /\ n = Len(frames) /\ g = [Top EXCEPT !.todo = @ - 1, !.made = @ + 1]
        /\ f = NextPush(g) /\ Becomes(f)
  BY DEF PushEnable
<1>1. /\ Top.pc = "pushed" /\ iflag' = TRUE
      /\ UNCHANGED <<requested, inService, port, sent, ticks, accepted>>
  BY DEF PushEnable, At, irq_enable, pic, devices, fifo
<1>2. /\ n \in Nat /\ n >= 1 /\ Top = frames[n] /\ Top \in Frame /\ n # 1 /\ Routine(Top)
  BY <1>1, TopFacts DEF EventIInv, TaskPc
<1>3. /\ Top.who \in Device /\ Top.made \in Nat /\ Top.todo \in Nat /\ Top.todo > 0
      /\ Top.made + Top.todo <= MaxPushes
  BY <1>1, <1>2 DEF Routine, Source, Frame, Pushing
<1>4. /\ g \in Frame /\ g.who = Top.who /\ g.byte = Top.byte
      /\ g.todo = Top.todo - 1 /\ g.made = Top.made + 1
  <2>. PICK t, m : t = Top.todo - 1 /\ m = Top.made + 1
    OBVIOUS
  <2>1. t \in Nat /\ m \in Nat /\ g = [Top EXCEPT !.todo = t, !.made = m]
    BY <1>2, <1>3 DEF Frame
  <2>2. g \in Frame /\ g.who = Top.who /\ g.byte = Top.byte /\ g.todo = t /\ g.made = m
    BY <1>2, <2>1 DEF Frame
  <2>. QED
    BY <2>2
<1>5. /\ f \in Frame /\ f.who = Top.who /\ f.byte = Top.byte
      /\ f.todo = Top.todo - 1 /\ f.made = Top.made + 1
      /\ f.pc = IF Top.todo - 1 > 0 THEN "push" ELSE IF Top.who = "mouse" THEN "slaveEoi" ELSE "eoi"
      /\ f.pc \in Before /\ f.pc \in Open
  BY <1>3, <1>4, NextPushFacts
<1>6. /\ Len(frames') = n /\ Top' = f /\ frames'[n] = f
      /\ \A i \in 1 .. n - 1 : frames'[i] = frames[i]
  BY <1>5, BecomesFacts DEF EventIInv
<1>7. DeviceTypes'
  BY <1>1 DEF EventIInv, DeviceTypes
<1>8. StackShape'
  <2>1. Routine(f)
    BY <1>3, <1>5 DEF Routine, Source, Device, Before, Pushing, MaxPushes
  <2>. QED
    BY <1>2, <1>5, <2>1, TopInShape DEF EventIInv
<1>9. PicNested'
  <2>1. Top.pc \in Before /\ Top.pc # "eoi" /\ (Top.who = "mouse" => f.pc # "eoi")
    BY <1>1, <1>5 DEF Before
  <2>. QED
    BY <1>1, <1>5, <2>1, SameLines DEF EventIInv
<1>10. /\ \A i \in 2 .. n : i # n => frames'[i] = frames[i]
       /\ n \in 2 .. n /\ Top.pc \in Pushing
  BY <1>1, <1>2, <1>6 DEF Pushing
<1>11. BytesNumbered'
  <2>1. ~At("read")'
    BY <1>5, <1>6 DEF At, Open
  <2>2. \A i \in 2 .. n :
          frames'[i].pc \in Pushing =>
             /\ frames'[i].byte \in 1 .. sent[frames'[i].who]
             /\ port.src = frames'[i].who => frames'[i].byte < sent[frames'[i].who]
    BY <1>2, <1>5, <1>6, <1>10 DEF EventIInv, BytesNumbered
  <2>. QED
    BY <1>1, <1>6, <2>1, <2>2 DEF EventIInv, BytesNumbered
<1>12. PushesOrdered'
  <2>. SUFFICES ASSUME NEW i \in 2 .. n, NEW a \in DOMAIN accepted, frames'[i].pc \in Pushing,
                       accepted[a].src = frames'[i].who
                PROVE  Behind(accepted[a], frames'[i])
    BY <1>1, <1>6 DEF PushesOrdered
  <2>1. CASE i = n
    <3>1. Behind(accepted[a], Top)
      BY <1>2, <1>5, <1>6, <1>10, <2>1 DEF EventIInv, PushesOrdered
    <3>2. Reached(Top) = Top.made + 1 /\ Reached(f) = Top.made + 1
      BY <1>1, <1>5 DEF Reached, Open
    <3>. QED
      BY <1>5, <1>6, <2>1, <3>1, <3>2 DEF Behind
  <2>2. CASE i # n
    BY <1>10, <2>2 DEF EventIInv, PushesOrdered
  <2>. QED
    BY <2>1, <2>2
<1>. QED
  BY <1>7, <1>8, <1>9, <1>11, <1>12 DEF CpuSide

-----------------------------------------------------------------------------
(* The queue side *)

QueueSide == QueueTypes /\ RingKnown /\ QueueExact /\ SourceOrder

\* The slots in use run from the tail up to the head, which is not one of them.
LEMMA RingFacts ==
    ASSUME QueueTypes
    PROVE  /\ Used \in 0 .. EVENT_Q_SIZE - 1
           /\ Used = 0 <=> tail = head
           /\ Slot(0) = tail /\ Slot(Used) = head
           /\ \A i \in 0 .. Used - 1 : Slot(i) \in 0 .. EVENT_Q_SIZE - 1 /\ Slot(i) # head
           /\ Wrap(head + 1) = tail <=> Used = EVENT_Q_SIZE - 1
<1>1. /\ EVENT_Q_SIZE \in Nat \ {0} /\ head \in 0 .. EVENT_Q_SIZE - 1
      /\ tail \in 0 .. EVENT_Q_SIZE - 1
  BY EventPathAssumption DEF QueueTypes
<1>. QED
  BY <1>1 DEF Used, Slot, Wrap

\* Steps that do not touch the ring, nor come to know something of it.
LEMMA QuietKeepsQueue ==
    ASSUME EventIInv, UNCHANGED <<buf, head, tail, out, accepted, delivered>>, refused' \in Nat,
           Top' = Top \/ Top'.pc \notin {"full", "store", "publish", "advance"}
    PROVE  QueueSide'
<1>1. QueueTypes' /\ SourceOrder'
  BY DEF EventIInv, QueueTypes, SourceOrder
<1>2. Used' = Used /\ \A i : Slot(i)' = Slot(i)
  BY DEF Used, Slot
<1>3. QueueExact'
  BY <1>2 DEF EventIInv, QueueExact
<1>4. RingKnown'
  <2>1. CASE Top' = Top
    BY <2>1 DEF EventIInv, RingKnown, At, PushedEvent, Wrap
  <2>2. CASE Top'.pc \notin {"full", "store", "publish", "advance"}
    BY <2>2 DEF RingKnown, At
  <2>. QED
    BY <2>1, <2>2
<1>. QED
  BY <1>1, <1>3, <1>4 DEF QueueSide

\* Where Goto goes.
LEMMA GotoFacts ==
    ASSUME EventIInv, NEW l \in Before \cup {"iret"} \cup TaskPc, Goto(l)
    PROVE  Top' = [Top EXCEPT !.pc = l] /\ Top'.pc = l
<1>. DEFINE f == [Top EXCEPT !.pc = l]
<1>1. f \in Frame /\ f.pc = l
  BY GotoIsFrame, TopFacts DEF EventIInv
<1>2. Becomes(f)
  BY DEF Goto
<1>. HIDE DEF f
<1>3. Top' = f
  BY <1>1, <1>2, BecomesFacts DEF EventIInv
<1>. QED
  BY <1>1, <1>3 DEF f

\* The devices, the service routines outside event_push, and the steps of pushes
\* and pops that only change the interrupt flag or refuse.
LEMMA QuietSteps ==
    ASSUME EventIInv,
           \/ TimerTick
           \/ \E d \in Device : SendByte(d)
           \/ \E q \in Source : Accept(q)
           \/ Isr
           \/ PushDisable \/ PushFull \/ PushEnable
           \/ PopDisable \/ PopEmpty \/ PopEnable
    PROVE  QueueSide'
<1>0. refused \in Nat /\ Top \in Frame
  BY TopFacts DEF EventIInv, QueueTypes
<1>. USE DEF ring, pic, devices, fifo
<1>1. CASE TimerTick \/ \E d \in Device : SendByte(d)
  <2>1. Top' = Top
    BY <1>1, SameStack DEF TimerTick, SendByte
  <2>. QED
    BY <1>0, <1>1, <2>1, QuietKeepsQueue DEF TimerTick, SendByte
<1>2. ASSUME NEW q \in Source, Accept(q) PROVE QueueSide'
  <2>. DEFINE f == Context(q, IF q = "timer" THEN "eoi" ELSE "read")
  <2>1. f \in Frame /\ f.pc \in {"eoi", "read"}
    BY EventPathAssumption DEF Context, Frame, Before
  <2>2. frames' = Append(frames, f)
    BY <1>2 DEF Accept
  <2>. HIDE DEF f
  <2>3. Top' = f
    BY <2>1, <2>2, NestFacts DEF EventIInv
  <2>. QED
    BY <1>0, <1>2, <2>1, <2>3, QuietKeepsQueue DEF Accept
<1>3. CASE PushDisable
  BY <1>0, <1>3, GotoFacts, QuietKeepsQueue DEF PushDisable, Before
<1>4. CASE PushFull
  BY <1>0, <1>4, GotoFacts, QuietKeepsQueue DEF PushFull, Before
<1>5. CASE PopDisable
  BY <1>0, <1>5, GotoFacts, QuietKeepsQueue DEF PopDisable, TaskPc
<1>6. CASE PopEmpty
  BY <1>0, <1>6, GotoFacts, QuietKeepsQueue DEF PopEmpty, TaskPc
<1>7. CASE PopEnable
  BY <1>0, <1>7, GotoFacts, QuietKeepsQueue DEF PopEnable, TaskPc
<1>8. CASE SlaveEoi
  BY <1>0, <1>8, GotoFacts, QuietKeepsQueue DEF SlaveEoi, Before
<1>9. CASE MasterEoi
  BY <1>0, <1>9, GotoFacts, QuietKeepsQueue DEF MasterEoi
<1>10. CASE Iret
  <2>1. CpuSide' /\ iflag' = TRUE
    BY <1>10, IretKeepsCpu DEF Iret, irq_enable
  <2>2. Top'.pc \in Open
    BY <2>1 DEF CpuSide, StackShape
  <2>. QED
    BY <1>0, <1>10, <2>2, QuietKeepsQueue DEF Iret, Open
<1>11. CASE PushEnable
  <2>1. CpuSide' /\ iflag' = TRUE
    BY <1>11, EnableKeepsCpu DEF PushEnable, irq_enable
  <2>2. Top'.pc \in Open
    BY <2>1 DEF CpuSide, StackShape
  <2>. QED
    BY <1>0, <1>11, <2>2, QuietKeepsQueue DEF PushEnable, Open
<1>12. CASE ReadByte
  <2>1. Top'.pc \in Open
    BY <1>12, ReadKeepsCpu
  <2>. QED
    BY <1>0, <1>12, <2>1, QuietKeepsQueue DEF ReadByte, Open
<1>. QED
  BY <1>1, <1>2, <1>3, <1>4, <1>5, <1>6, <1>7, <1>8, <1>9, <1>10, <1>11, <1>12 DEF Isr

\* A push looks at the head, and knows where it leads.
LEMMA PushNextKeepsQueue ==
    ASSUME EventIInv, PushNext
    PROVE  QueueSide'
<1>. DEFINE w == Wrap(head + 1)
            f == [Top EXCEPT !.next = w, !.pc = "full"]
<1>1. w \in 0 .. EVENT_Q_SIZE - 1 /\ Top \in Frame
  BY WrapFacts, TopFacts DEF EventIInv, QueueTypes
<1>2. Becomes(f) /\ UNCHANGED <<buf, head, tail, out, accepted, delivered, refused>>
  BY DEF PushNext, ring, fifo
<1>. HIDE DEF w
<1>3. f \in Frame /\ f.pc = "full" /\ f.next = w
  BY <1>1 DEF Frame, Before
<1>. HIDE DEF f
<1>4. Top' = f
  BY <1>2, <1>3, BecomesFacts DEF EventIInv
<1>5. RingKnown'
  BY <1>2, <1>3, <1>4 DEF RingKnown, At, Wrap, w
<1>6. QueueTypes' /\ SourceOrder'
  BY <1>2 DEF EventIInv, QueueTypes, SourceOrder
<1>7. QueueExact'
  BY <1>2 DEF EventIInv, QueueExact, Used, Slot
<1>. QED
  BY <1>5, <1>6, <1>7 DEF QueueSide

\* It goes on only if that is not the tail.
LEMMA PushRoomKeepsQueue ==
    ASSUME EventIInv, PushRoom
    PROVE  QueueSide'
<1>1. /\ Top.pc = "full" /\ Top.next # tail /\ Goto("store")
      /\ UNCHANGED <<buf, head, tail, out, accepted, delivered, refused>>
  BY DEF PushRoom, QueueFull, At, ring, fifo
<1>2. Top' = [Top EXCEPT !.pc = "store"] /\ Top'.pc = "store" /\ Top \in Frame
  BY <1>1, GotoFacts, TopFacts DEF EventIInv, Before
<1>3. Top'.next = Top.next
  BY <1>2 DEF Frame
<1>4. RingKnown'
  BY <1>1, <1>2, <1>3 DEF EventIInv, RingKnown, At, Wrap
<1>5. QueueTypes' /\ SourceOrder'
  BY <1>1 DEF EventIInv, QueueTypes, SourceOrder
<1>6. QueueExact'
  BY <1>1 DEF EventIInv, QueueExact, Used, Slot
<1>. QED
  BY <1>4, <1>5, <1>6 DEF QueueSide

\* The slot that it fills holds no event that waits.
LEMMA PushStoreKeepsQueue ==
    ASSUME EventIInv, PushStore
    PROVE  QueueSide'
<1>. PICK e : e = PushedEvent
  OBVIOUS
<1>1. /\ Top.pc = "store" /\ Goto("publish") /\ buf' = [buf EXCEPT ![head] = e]
      /\ UNCHANGED <<head, tail, out, accepted, delivered, refused>>
  BY DEF PushStore, At, fifo
<1>2. Top' = [Top EXCEPT !.pc = "publish"] /\ Top'.pc = "publish" /\ Top \in Frame
  BY <1>1, GotoFacts, TopFacts DEF EventIInv, Before
<1>3. Top'.next = Top.next /\ Top'.who = Top.who /\ Top'.byte = Top.byte /\ Top'.made = Top.made
  BY <1>2 DEF Frame
<1>4. Routine(Top) /\ Top.who \in Device
  <2>1. Routine(Top)
    BY <1>1, TopFacts DEF EventIInv, TaskPc
  <2>. QED
    BY <1>1, <2>1 DEF Routine, Source
<1>5. e \in Event
  BY <1>2, <1>4 DEF PushedEvent, Event, Frame
<1>6. /\ buf' \in [0 .. EVENT_Q_SIZE - 1 -> Event \cup {NoEvent}]
      /\ buf'[head] = e
      /\ \A s \in 0 .. EVENT_Q_SIZE - 1 : s # head => buf'[s] = buf[s]
  BY <1>1, <1>5 DEF EventIInv, QueueTypes
<1>7. PushedEvent' = e
  BY <1>3 DEF PushedEvent
<1>8. RingKnown'
  BY <1>1, <1>2, <1>3, <1>6, <1>7 DEF EventIInv, RingKnown, At, Wrap
<1>9. QueueTypes' /\ SourceOrder'
  BY <1>1, <1>6 DEF EventIInv, QueueTypes, SourceOrder
<1>10. Used' = Used /\ \A i : Slot(i)' = Slot(i)
  BY <1>1 DEF Used, Slot
<1>11. \A i \in 1 .. Used : buf'[Slot(i - 1)] = buf[Slot(i - 1)]
  <2>1. \A i \in 1 .. Used : i - 1 \in 0 .. Used - 1
    BY RingFacts DEF EventIInv
  <2>. QED
    BY <1>6, <2>1, RingFacts DEF EventIInv
<1>12. QueueExact'
  BY <1>1, <1>10, <1>11 DEF EventIInv, QueueExact
<1>. QED
  BY <1>8, <1>9, <1>12 DEF QueueSide

\* The two indices, one step on.
LEMMA RingMoves ==
    ASSUME QueueTypes
    PROVE  /\ head' = Wrap(head + 1) /\ head' # tail /\ tail' = tail =>
                Used' = Used + 1 /\ \A i \in 0 .. EVENT_Q_SIZE : Slot(i)' = Slot(i)
           /\ tail' = Wrap(tail + 1) /\ tail # head /\ head' = head =>
                Used' = Used - 1 /\ \A i \in 0 .. EVENT_Q_SIZE - 1 : Slot(i)' = Slot(i + 1)
<1>1. /\ EVENT_Q_SIZE \in Nat \ {0} /\ head \in 0 .. EVENT_Q_SIZE - 1
      /\ tail \in 0 .. EVENT_Q_SIZE - 1
  BY EventPathAssumption DEF QueueTypes
<1>2. ASSUME head' = Wrap(head + 1), head' # tail, tail' = tail
      PROVE  Used' = Used + 1 /\ \A i \in 0 .. EVENT_Q_SIZE : Slot(i)' = Slot(i)
  BY <1>1, <1>2 DEF Used, Slot, Wrap
<1>3. ASSUME tail' = Wrap(tail + 1), tail # head, head' = head
      PROVE  Used' = Used - 1
  BY <1>1, <1>3 DEF Used, Wrap
<1>4. ASSUME tail' = Wrap(tail + 1), tail # head, head' = head,
             NEW i \in 0 .. EVENT_Q_SIZE - 1
      PROVE  Slot(i)' = Slot(i + 1)
  BY <1>1, <1>4 DEF Slot, Wrap
<1>. QED
  BY <1>2, <1>3, <1>4

\* Publishing the new head puts the event behind those that wait.
LEMMA PushPublishKeepsQueue ==
    ASSUME EventIInv, PushPublish
    PROVE  QueueSide' /\ Used < EVENT_Q_SIZE - 1 /\ PushedEvent \in Event
<1>. PICK e, m, d : e = PushedEvent /\ m = Len(accepted) /\ d = Len(delivered)
  OBVIOUS
<1>1. /\ Top.pc = "publish" /\ Goto("pushed") /\ head' = Top.next
      /\ accepted' = Append(accepted, e)
      /\ UNCHANGED <<buf, tail, out, delivered, refused>>
  BY DEF PushPublish, At
<1>2. Top.next = Wrap(head + 1) /\ Top.next # tail /\ buf[head] = e
  BY <1>1 DEF EventIInv, RingKnown, At
<1>3. Routine(Top) /\ Top.who \in Device /\ Top \in Frame
  <2>1. Routine(Top) /\ Top \in Frame
    BY <1>1, TopFacts DEF EventIInv, TaskPc
  <2>. QED
    BY <1>1, <2>1 DEF Routine, Source
<1>4. /\ e \in Event /\ e.src = Top.who /\ e.byte = Top.byte /\ e.k = Top.made + 1
      /\ Top.byte \in Nat /\ Top.made \in Nat
  BY <1>3 DEF PushedEvent, Event, Frame
<1>5. Top'.pc = "pushed"
  BY <1>1, GotoFacts DEF Before
<1>6. /\ m \in Nat /\ d \in Nat /\ accepted' \in Seq(Event) /\ Len(accepted') = m + 1
      /\ accepted'[m + 1] = e /\ \A i \in 1 .. m : accepted'[i] = accepted[i]
      /\ DOMAIN accepted = 1 .. m /\ DOMAIN accepted' = 1 .. m + 1
  BY <1>1, <1>4 DEF EventIInv, QueueTypes
<1>7. QueueTypes'
  BY <1>1, <1>2, <1>6, WrapFacts DEF EventIInv, QueueTypes
<1>8. RingKnown'
  BY <1>5 DEF RingKnown, At
<1>9. /\ Used' = Used + 1 /\ Used < EVENT_Q_SIZE - 1 /\ Used \in Nat /\ Slot(Used) = head
      /\ \A i \in 0 .. Used : Slot(i)' = Slot(i)
  <2>1. /\ Used \in 0 .. EVENT_Q_SIZE - 1 /\ Slot(Used) = head
        /\ Wrap(head + 1) = tail <=> Used = EVENT_Q_SIZE - 1
    BY RingFacts DEF EventIInv
  <2>2. Used' = Used + 1 /\ \A i \in 0 .. EVENT_Q_SIZE : Slot(i)' = Slot(i)
    BY <1>1, <1>2, RingMoves DEF EventIInv
  <2>3. EVENT_Q_SIZE \in Nat
    BY EventPathAssumption
  <2>4. 0 .. Used \subseteq 0 .. EVENT_Q_SIZE
    BY <2>1, <2>3
  <2>. QED
    BY <1>2, <2>1, <2>2, <2>3, <2>4
<1>10. QueueExact'
  <2>. PICK u : u = Used
    OBVIOUS
  <2>1. m = d + u /\ \A i \in 1 .. d : accepted[i] = delivered[i]
    BY DEF EventIInv, QueueExact
  <2>2. \A i \in 1 .. u : accepted[d + i] = buf[Slot(i - 1)]
    BY DEF EventIInv, QueueExact
  <2>3. u \in Nat /\ Used' = u + 1 /\ Slot(u) = head /\ \A i \in 0 .. u : Slot(i)' = Slot(i)
    BY <1>9
  <2>4. Len(accepted') = Len(delivered') + Used'
    BY <1>1, <1>6, <2>1, <2>3
  <2>5. \A i \in 1 .. Len(delivered') : accepted'[i] = delivered'[i]
    BY <1>1, <1>6, <2>1, <2>3
  <2>6. ASSUME NEW i \in 1 .. u + 1 PROVE accepted'[d + i] = buf'[Slot(i - 1)']
    <3>1. CASE i = u + 1
      <4>1. i - 1 = u /\ d + i = m + 1 /\ u \in 0 .. u
        BY <1>6, <2>1, <2>3, <3>1
      <4>2. Slot(i - 1)' = head
        BY <2>3, <4>1
      <4>. QED
        BY <1>1, <1>2, <1>6, <4>1, <4>2
    <3>2. CASE i # u + 1
      <4>1. i \in 1 .. u /\ i - 1 \in 0 .. u /\ d + i \in 1 .. m
        BY <1>6, <2>1, <2>3, <3>2
      <4>. QED
        BY <1>1, <1>6, <2>2, <2>3, <4>1
    <3>. QED
      BY <3>1, <3>2
  <2>. QED
    BY <1>1, <2>3, <2>4, <2>5, <2>6 DEF QueueExact
<1>11. ASSUME NEW i \in 1 .. m, accepted[i].src = Top.who
       PROVE  accepted[i].byte < e.byte \/ (accepted[i].byte = e.byte /\ accepted[i].k < e.k)
  <2>1. /\ Len(frames) \in 2 .. Len(frames) /\ Top = frames[Len(frames)]
    <3>1. /\ Len(frames) \in Nat /\ Len(frames) >= 1 /\ Top = frames[Len(frames)]
          /\ Top.pc \in TaskPc <=> Len(frames) = 1
      BY TopFacts DEF EventIInv
    <3>2. Len(frames) # 1
      BY <1>1, <3>1 DEF TaskPc
    <3>3. ASSUME NEW n, n \in Nat, n >= 1, n # 1 PROVE n \in 2 .. n
      BY <3>3
    <3>. QED
      BY <3>1, <3>2, <3>3
  <2>2. Behind(accepted[i], Top)
    BY <1>1, <1>6, <1>11, <2>1 DEF EventIInv, PushesOrdered, Pushing
  <2>3. Reached(Top) = Top.made
    BY <1>1 DEF Reached
  <2>4. accepted[i].k \in Nat
    BY <1>6, AcceptedFacts DEF EventIInv
  <2>. QED
    BY <1>4, <2>2, <2>3, <2>4 DEF Behind
<1>12. SourceOrder'
  <2>1. ASSUME NEW i \in 1 .. m + 1, NEW j \in 1 .. m + 1, i < j,
               accepted'[i].src = accepted'[j].src
        PROVE  \/ accepted'[i].byte < accepted'[j].byte
               \/ /\ accepted'[i].byte = accepted'[j].byte
                  /\ accepted'[i].k < accepted'[j].k
    <3>1. i \in 1 .. m
      BY <1>6, <2>1
    <3>2. CASE j = m + 1
      BY <1>4, <1>6, <1>11, <2>1, <3>1, <3>2
    <3>3. CASE j # m + 1
      <4>1. j \in 1 .. m
        BY <1>6, <3>3
      <4>. QED
        BY <1>6, <2>1, <3>1, <4>1 DEF EventIInv, SourceOrder
    <3>. QED
      BY <3>2, <3>3
  <2>. QED
    BY <1>6, <2>1 DEF SourceOrder
<1>. QED
  BY <1>4, <1>7, <1>8, <1>9, <1>10, <1>12 DEF QueueSide

\* A pop copies the oldest event that waits.
LEMMA PopCopyKeepsQueue ==
    ASSUME EventIInv, PopCopy
    PROVE  QueueSide'
<1>1. /\ Goto("advance") /\ out' = buf[tail] /\ tail # head
      /\ UNCHANGED <<buf, head, tail, accepted, delivered, refused>>
  BY DEF PopCopy, QueueEmpty, ring, fifo
<1>2. Top'.pc = "advance"
  BY <1>1, GotoFacts DEF TaskPc
<1>3. RingKnown'
  BY <1>1, <1>2 DEF RingKnown, At
<1>4. QueueTypes' /\ SourceOrder'
  BY <1>1 DEF EventIInv, QueueTypes, SourceOrder
<1>5. QueueExact'
  BY <1>1 DEF EventIInv, QueueExact, Used, Slot
<1>. QED
  BY <1>3, <1>4, <1>5 DEF QueueSide

\* Advancing the tail takes that event, and no other, out of the ring.
LEMMA PopAdvanceKeepsQueue ==
    ASSUME EventIInv, PopAdvance
    PROVE  /\ QueueSide'
           /\ out = accepted[Len(delivered) + 1] /\ Len(delivered) < Len(accepted)
<1>. PICK u, m, d : u = Used /\ m = Len(accepted) /\ d = Len(delivered)
  OBVIOUS
<1>1. /\ Top.pc = "advance" /\ Goto("popped") /\ tail' = Wrap(tail + 1)
      /\ delivered' = Append(delivered, out)
      /\ UNCHANGED <<buf, head, out, accepted, refused>>
  BY DEF PopAdvance, At
<1>2. out = buf[tail] /\ tail # head
  BY <1>1 DEF EventIInv, RingKnown, At
<1>3. Top'.pc = "popped"
  BY <1>1, GotoFacts DEF TaskPc
<1>4. /\ d \in Nat /\ delivered' \in Seq(Event \cup {NoEvent}) /\ Len(delivered') = d + 1
      /\ delivered'[d + 1] = out /\ \A i \in 1 .. d : delivered'[i] = delivered[i]
  BY <1>1 DEF EventIInv, QueueTypes
<1>5. QueueTypes'
  BY <1>1, <1>4, WrapFacts DEF EventIInv, QueueTypes
<1>6. RingKnown' /\ SourceOrder'
  BY <1>1, <1>3 DEF EventIInv, RingKnown, At, SourceOrder
<1>7. /\ u \in Nat /\ u # 0 /\ u <= EVENT_Q_SIZE - 1 /\ Slot(0) = tail
      /\ Used' = u - 1
      /\ \A i \in 0 .. EVENT_Q_SIZE - 1 : Slot(i)' = Slot(i + 1)
  <2>1. Used \in 0 .. EVENT_Q_SIZE - 1 /\ Slot(0) = tail /\ (Used = 0 <=> tail = head)
    BY RingFacts DEF EventIInv
  <2>2. Used' = Used - 1 /\ \A i \in 0 .. EVENT_Q_SIZE - 1 : Slot(i)' = Slot(i + 1)
    BY <1>1, <1>2, RingMoves DEF EventIInv
  <2>. QED
    BY <1>2, <2>1, <2>2
<1>8. m = d + u /\ \A i \in 1 .. d : accepted[i] = delivered[i]
  BY DEF EventIInv, QueueExact
<1>9. \A i \in 1 .. u : accepted[d + i] = buf[Slot(i - 1)]
  BY DEF EventIInv, QueueExact
<1>10. out = accepted[d + 1] /\ d < m
  <2>1. 1 \in 1 .. u /\ 1 - 1 = 0 /\ d < m
    BY <1>4, <1>7, <1>8
  <2>. QED
    BY <1>2, <1>7, <1>9, <2>1
<1>11. QueueExact'
  <2>1. Len(accepted') = Len(delivered') + Used'
    BY <1>1, <1>4, <1>7, <1>8
  <2>2. ASSUME NEW i \in 1 .. d + 1 PROVE accepted'[i] = delivered'[i]
    BY <1>1, <1>4, <1>8, <1>10
  <2>3. ASSUME NEW i \in 1 .. u - 1 PROVE accepted'[(d + 1) + i] = buf'[Slot(i - 1)']
    <3>1. /\ i + 1 \in 1 .. u /\ (d + 1) + i = d + (i + 1) /\ (i + 1) - 1 = i
          /\ i - 1 \in 0 .. EVENT_Q_SIZE - 1 /\ (i - 1) + 1 = i
      BY <1>4, <1>7, EventPathAssumption
    <3>2. Slot(i - 1)' = Slot(i)
      BY <1>7, <3>1
    <3>3. accepted[d + (i + 1)] = buf[Slot(i)]
      BY <1>9, <3>1
    <3>. QED
      BY <1>1, <3>1, <3>2, <3>3
  <2>. QED
    BY <1>4, <1>7, <2>1, <2>2, <2>3 DEF QueueExact
<1>. QED
  BY <1>5, <1>6, <1>10, <1>11 DEF QueueSide


-----------------------------------------------------------------------------
(* The invariant holds always *)

\* It holds when interrupts have just been enabled and nothing has happened.
LEMMA InitEvent == Init => EventIInv
<1>. SUFFICES ASSUME Init PROVE EventIInv
  OBVIOUS
<1>. DEFINE t == Context("task", "away")
<1>1. t \in Frame /\ t.who = "task" /\ t.pc = "away"
  BY EventPathAssumption DEF Context, Frame, TaskPc
<1>. HIDE DEF t
<1>2. frames = <<t>>
  BY DEF Init, t
<1>3. /\ frames \in Seq(Frame) /\ Len(frames) = 1 /\ frames[1] = t /\ DOMAIN frames = 1 .. 1
      /\ Top = t
  BY <1>1, <1>2 DEF Top, Last
<1>4. Handling = {}
  BY <1>3 DEF Handling
<1>5. QueueTypes
  BY EventPathAssumption DEF Init, QueueTypes
<1>6. DeviceTypes
  BY DEF Init, DeviceTypes
<1>7. StackShape
  BY <1>1, <1>3 DEF StackShape, TaskPc, Open
<1>8. PicNested
  BY <1>4 DEF PicNested, Init
<1>9. RingKnown
  BY <1>1, <1>3 DEF RingKnown, At
<1>10. accepted = << >> /\ DOMAIN accepted = 1 .. 0 /\ Len(accepted) = 0 /\ Len(delivered) = 0
  BY DEF Init
<1>11. QueueExact
  <2>1. Used = 0
    BY EventPathAssumption DEF Init, Used
  <2>. QED
    BY <1>10, <2>1 DEF QueueExact
<1>12. BytesNumbered
  BY <1>1, <1>3, <1>10, EventPathAssumption DEF BytesNumbered, Init, NoByte, Device, At
<1>13. SourceOrder /\ PushesOrdered
  BY <1>10 DEF SourceOrder, PushesOrdered
<1>. QED
  BY <1>5, <1>6, <1>7, <1>8, <1>9, <1>11, <1>12, <1>13 DEF EventIInv

\* Every step keeps it: its CPU side and its queue side.
LEMMA NextEvent == EventIInv /\ [Next]_vars => EventIInv'
<1>1. ASSUME EventIInv, UNCHANGED vars PROVE EventIInv'
  <2>1. Top' = Top /\ Handling' = Handling /\ \A l : At(l)' <=> At(l)
    BY <1>1, SameStack DEF vars
  <2>2. Used' = Used /\ \A i : Slot(i)' = Slot(i)
    BY <1>1 DEF vars, ring, Used, Slot
  <2>3. PushedEvent' = PushedEvent
    BY <2>1 DEF PushedEvent
  <2>. USE <1>1, <2>1, <2>2, <2>3 DEF EventIInv, vars, ring, pic, devices, fifo
  <2>4. QueueTypes' /\ DeviceTypes'
    BY DEF QueueTypes, DeviceTypes
  <2>5. StackShape'
    BY DEF StackShape
  <2>6. PicNested'
    BY DEF PicNested
  <2>7. RingKnown'
    BY DEF RingKnown, Wrap, At
  <2>8. QueueExact'
    BY DEF QueueExact
  <2>9. BytesNumbered'
    BY DEF BytesNumbered, At
  <2>10. SourceOrder' /\ PushesOrdered'
    BY DEF SourceOrder, PushesOrdered
  <2>. QED
    BY <2>4, <2>5, <2>6, <2>7, <2>8, <2>9, <2>10
<1>2. ASSUME CpuSide', QueueSide' PROVE EventIInv'
  BY <1>2 DEF CpuSide, QueueSide, EventIInv
<1>3. ASSUME EventIInv, Next PROVE CpuSide'
  <2>1. CASE PushDisable \/ PushNext \/ PushFull \/ PushRoom \/ PushStore \/ event_pop
    BY <1>3, <2>1, PushAndPopKeepCpu
  <2>2. CASE PushPublish
    BY <1>3, <2>2, PublishKeepsCpu
  <2>3. CASE PushEnable
    BY <1>3, <2>3, EnableKeepsCpu
  <2>4. CASE Isr
    BY <1>3, <2>4, ReadKeepsCpu, SlaveEoiKeepsCpu, MasterEoiKeepsCpu, IretKeepsCpu DEF Isr
  <2>5. CASE TimerTick \/ \E d \in Device : SendByte(d)
    BY <1>3, <2>5, TickKeepsCpu, SendKeepsCpu
  <2>6. CASE \E q \in Source : Accept(q)
    BY <1>3, <2>6, AcceptKeepsCpu
  <2>. QED
    BY <1>3, <2>1, <2>2, <2>3, <2>4, <2>5, <2>6 DEF Next, Cpu, event_push
<1>4. ASSUME EventIInv, Next PROVE QueueSide'
  BY <1>4, QuietSteps, PushNextKeepsQueue, PushRoomKeepsQueue, PushStoreKeepsQueue,
     PushPublishKeepsQueue, PopCopyKeepsQueue, PopAdvanceKeepsQueue
  DEF Next, Cpu, event_push, event_pop
<1>. QED
  BY <1>1, <1>2, <1>3, <1>4

\* The inductive invariant.
LEMMA EventAlways == Spec => []EventIInv
<1>. QED
  BY InitEvent, NextEvent, PTL DEF Spec

-----------------------------------------------------------------------------
(* Theorems *)

\* The ring, the stack of contexts and the PIC have the shape of the code.
THEOREM EventTypes == Spec => []TypeOK
<1>1. EventIInv => TypeOK
  BY DEF EventIInv, QueueTypes, DeviceTypes, StackShape, TypeOK, Frame, TaskPc
<1>. QED
  BY <1>1, EventAlways, PTL

\* A sequence that is given position by position.
LEMMA ContentsFacts ==
    ASSUME QueueTypes
    PROVE  /\ Contents \in Seq(Event \cup {NoEvent}) /\ Len(Contents) = Used
           /\ \A i \in 1 .. Used : Contents[i] = buf[Slot(i - 1)]
<1>. PICK u : u = Used
  OBVIOUS
<1>1. u \in Nat /\ \A i \in 0 .. u - 1 : Slot(i) \in 0 .. EVENT_Q_SIZE - 1
  BY RingFacts
<1>2. \A i \in 1 .. u : i - 1 \in 0 .. u - 1
  BY <1>1
<1>3. \A i \in 1 .. u : buf[Slot(i - 1)] \in Event \cup {NoEvent}
  BY <1>1, <1>2 DEF QueueTypes
<1>4. Contents = [i \in 1 .. u |-> buf[Slot(i - 1)]]
  BY DEF Contents
<1>. QED
  BY <1>1, <1>3, <1>4

\* Every event that a handler got into the queue was delivered or waits in the
\* ring, in order, once and unaltered, whatever nests in the pushes and the pop.
THEOREM QueueLosesNothing == Spec => []NothingLost
<1>1. ASSUME EventIInv PROVE NothingLost
  <2>. DEFINE S == Event \cup {NoEvent}
              t == delivered \o Contents
  <2>1. accepted \in Seq(S) /\ delivered \in Seq(S)
    <3>1. \A i \in 1 .. Len(accepted) : accepted[i] \in S
      BY <1>1 DEF EventIInv, QueueTypes
    <3>. QED
      BY <1>1, <3>1 DEF EventIInv, QueueTypes
  <2>2. /\ Contents \in Seq(S) /\ Len(Contents) = Used
        /\ \A i \in 1 .. Used : Contents[i] = buf[Slot(i - 1)]
    BY <1>1, ContentsFacts DEF EventIInv
  <2>. HIDE DEF S
  <2>3. /\ t \in Seq(S) /\ Len(t) = Len(delivered) + Len(Contents)
        /\ \A i \in 1 .. Len(delivered) + Len(Contents) :
              t[i] = IF i <= Len(delivered) THEN delivered[i] ELSE Contents[i - Len(delivered)]
    BY <2>1, <2>2, ConcatProperties, Zenon
  <2>. HIDE DEF t
  <2>. PICK d, u : d = Len(delivered) /\ u = Used
    OBVIOUS
  <2>4. d \in Nat /\ u \in Nat
    BY <1>1, <2>1, RingFacts DEF EventIInv
  <2>5. Len(accepted) = d + u /\ \A i \in 1 .. d : accepted[i] = delivered[i]
    BY <1>1 DEF EventIInv, QueueExact
  <2>6. \A i \in 1 .. u : accepted[d + i] = buf[Slot(i - 1)]
    BY <1>1 DEF EventIInv, QueueExact
  <2>7. ASSUME NEW i \in 1 .. d + u PROVE accepted[i] = t[i]
    <3>1. CASE i <= d
      BY <2>2, <2>3, <2>4, <2>5, <3>1
    <3>2. CASE ~ (i <= d)
      <4>1. i - d \in 1 .. u /\ d + (i - d) = i
        BY <2>4, <3>2
      <4>2. accepted[i] = buf[Slot((i - d) - 1)]
        BY <2>6, <4>1
      <4>3. t[i] = Contents[i - d]
        BY <2>2, <2>3, <3>2
      <4>. QED
        BY <2>2, <4>1, <4>2, <4>3
    <3>. QED
      BY <3>1, <3>2
  <2>8. Len(t) = Len(accepted)
    BY <2>2, <2>3, <2>5
  <2>9. accepted = t
    BY <2>1, <2>3, <2>5, <2>7, <2>8, SeqEqual
  <2>. QED
    BY <2>9 DEF NothingLost, t
<1>. QED
  BY <1>1, EventAlways, PTL

\* The events of a device enter the queue in the order of its bytes, and those of
\* a byte in the order of its handler, although interrupts nest between them.
THEOREM SourcesInOrder == Spec => []SourceOrder
<1>1. EventIInv => SourceOrder
  BY DEF EventIInv
<1>. QED
  BY <1>1, EventAlways, PTL

\* The handler of a driver is never entered again before its EOI.
THEOREM HandlersAreExclusive == Spec => []HandlersExclusive
<1>1. EventIInv => HandlersExclusive
  BY OnePerSource DEF EventIInv, HandlersExclusive
<1>. QED
  BY <1>1, EventAlways, PTL

\* An unspecific EOI ends the service of the line of the routine that sends it.
THEOREM EoisEndTheirOwn == Spec => []EoiEndsOwn
<1>1. ASSUME EventIInv PROVE EoiEndsOwn
  <2>1. inService \cap Master = {Line(frames[i].who) : i \in Handling}
    BY <1>1 DEF EventIInv, PicNested
  <2>2. Len(frames) \in Handling => \A l \in inService \cap Master : Line(Top.who) <= l
    BY <1>1, TopHasPriority
  <2>3. ASSUME At("slaveEoi") PROVE 12 \in inService
    <3>1. /\ Top = frames[Len(frames)] /\ Len(frames) \in Handling /\ Top.who = "mouse"
          /\ Top.pc = "slaveEoi"
      <4>1. Top.pc = "slaveEoi"
        BY <2>3 DEF At
      <4>2. Top.pc \in Before /\ Top.pc \notin TaskPc
        BY <4>1 DEF Before, TaskPc
      <4>3. Routine(Top) /\ Top = frames[Len(frames)] /\ Len(frames) \in Handling
        BY <1>1, <4>2, TopFacts DEF EventIInv
      <4>. QED
        BY <4>1, <4>3 DEF Routine
    <3>. QED
      BY <1>1, <3>1 DEF EventIInv, PicNested
  <2>. QED
    BY <2>1, <2>2, <2>3 DEF EoiEndsOwn
<1>. QED
  BY <1>1, EventAlways, PTL

-----------------------------------------------------------------------------
(* The bounded queue *)

\* A step of the event path is a step of the queue or leaves it alone.
LEMMA StepIsQueued ==
    ASSUME EventIInv, Next
    PROVE  Fifo!Next \/ UNCHANGED Fifo!fifoVars
<1>. USE DEF Fifo!fifoVars
<1>1. Len(accepted) - Len(delivered) = Used
  <2>1. Len(accepted) \in Nat /\ Len(delivered) \in Nat /\ Used \in Nat
    BY RingFacts DEF EventIInv, QueueTypes
  <2>2. Len(accepted) = Len(delivered) + Used
    BY DEF EventIInv, QueueExact
  <2>. QED
    BY <2>1, <2>2
<1>2. CASE PushFull
  <2>1. /\ Top.pc = "full" /\ Top.next = tail /\ refused' = refused + 1
        /\ UNCHANGED <<accepted, delivered>>
    BY <1>2 DEF PushFull, At, QueueFull
  <2>2. Wrap(head + 1) = tail
    BY <2>1 DEF EventIInv, RingKnown
  <2>3. Used = EVENT_Q_SIZE - 1
    BY <2>2, RingFacts DEF EventIInv
  <2>4. Fifo!Refuse
    BY <1>1, <2>1, <2>3 DEF Fifo!Refuse, Fifo!Waiting
  <2>. QED
    BY <2>4 DEF Fifo!Next
<1>3. CASE PushPublish
  <2>. PICK e : e = PushedEvent
    OBVIOUS
  <2>1. Used < EVENT_Q_SIZE - 1 /\ e \in Event
    BY <1>3, PushPublishKeepsQueue
  <2>2. /\ Top.pc = "publish" /\ accepted' = Append(accepted, e)
        /\ UNCHANGED <<delivered, refused>>
    BY <1>3 DEF PushPublish, At
  <2>3. /\ Len(frames) \in Nat /\ Len(frames) >= 1 /\ Top = frames[Len(frames)]
        /\ Top.pc \in TaskPc <=> Len(frames) = 1
        /\ Top \in Frame /\ (Len(frames) # 1 => Routine(Top))
    BY TopFacts DEF EventIInv
  <2>4. Len(frames) # 1 /\ Routine(Top)
    BY <2>2, <2>3 DEF TaskPc
  <2>5. Len(frames) \in 2 .. Len(frames)
    BY <2>3, <2>4
  <2>6. Top.who \in Device /\ Top.todo > 0 /\ Top.made + Top.todo <= MaxPushes
    BY <2>2, <2>4 DEF Routine, Source, Pushing
  <2>7. Top.byte \in 1 .. sent[Top.who] /\ sent[Top.who] <= MaxBytes /\ sent[Top.who] \in Nat
    BY <2>2, <2>3, <2>5, <2>6 DEF EventIInv, BytesNumbered, Pushing, DeviceTypes
  <2>8. Top.byte \in 1 .. MaxBytes
    BY <2>7, EventPathAssumption
  <2>9. Top.made + 1 \in 1 .. MaxPushes
    BY <2>3, <2>6 DEF Frame, MaxPushes
  <2>10. e \in BoundedEvent
    BY <2>6, <2>8, <2>9 DEF PushedEvent, BoundedEvent
  <2>11. Fifo!Put(e)
    BY <1>1, <2>1, <2>2 DEF Fifo!Put, Fifo!Waiting
  <2>. QED
    BY <2>10, <2>11 DEF Fifo!Next
<1>4. CASE PopAdvance
  <2>1. out = accepted[Len(delivered) + 1] /\ Len(delivered) < Len(accepted)
    BY <1>4, PopAdvanceKeepsQueue
  <2>2. delivered' = Append(delivered, out) /\ UNCHANGED <<accepted, refused>>
    BY <1>4 DEF PopAdvance
  <2>3. Len(accepted) \in Nat /\ Len(delivered) \in Nat
    BY DEF EventIInv, QueueTypes
  <2>4. Fifo!Take
    BY <2>1, <2>2, <2>3 DEF Fifo!Take, Fifo!Waiting
  <2>. QED
    BY <2>4 DEF Fifo!Next
<1>. USE DEF fifo
<1>5. CASE Isr \/ TimerTick \/ (\E d \in Device : SendByte(d)) \/ \E q \in Source : Accept(q)
  BY <1>5 DEF Isr, ReadByte, SlaveEoi, MasterEoi, Iret, TimerTick, SendByte, Accept
<1>6. CASE PushDisable \/ PushNext \/ PushRoom \/ PushStore \/ PushEnable
  BY <1>6 DEF PushDisable, PushNext, PushRoom, PushStore, PushEnable
<1>7. CASE PopDisable \/ PopEmpty \/ PopCopy \/ PopEnable
  BY <1>7 DEF PopDisable, PopEmpty, PopCopy, PopEnable
<1>. QED
  BY <1>2, <1>3, <1>4, <1>5, <1>6, <1>7 DEF Next, Cpu, event_push, event_pop

\* With its handlers nesting as the PIC lets them, the ring is a bounded FIFO
\* queue with atomic operations: it refuses only when it is full, and a pop
\* returns the oldest event that was accepted and not yet returned.
THEOREM EventQueueIsFifo == Spec => FifoSpec
<1>1. Init => Fifo!Init
  BY DEF Init, Fifo!Init
<1>2. EventIInv /\ [Next]_vars => [Fifo!Next]_(Fifo!fifoVars)
  <2>1. UNCHANGED vars => UNCHANGED Fifo!fifoVars
    BY DEF vars, fifo, Fifo!fifoVars
  <2>. QED
    BY <2>1, StepIsQueued
<1>. QED
  BY <1>1, <1>2, EventAlways, PTL DEF Spec, FifoSpec, Fifo!Spec


=============================================================================
