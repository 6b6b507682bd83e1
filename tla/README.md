# A TLA+ specification of PixelOS

PixelOS is a small 32-bit x86 operating system: a boot loader, a kernel with a
cooperative scheduler, PS/2 keyboard and mouse drivers, windows on a 320x200
screen, and a game of Pong that runs in ring 3. This directory models its
logic in TLA+, checks the models with TLC and proves theorems about them with
TLAPS.

## 1. Inventory

There is one CPU. What runs concurrently is the code of the tasks (which give
up the CPU only in `task_yield`, `task_sleep`, `task_exit` and their system
calls) and the interrupts, which come between any two instructions while the
interrupt flag is set. Nothing is persistent; there is no other failure than a
full queue, an exhausted heap or a lost byte.

| Component | State | Operations | Talks to | What makes it correct |
|---|---|---|---|---|
| Scheduler (`kernel/task.c`, `task_switch.asm`, `user_mode.asm`) | task table, `g_current`, saved stacks, TSS.esp0 | create, start, yield, sleep, exit, the ring 3 variants | timer ticks; every task | no early return from a sleep, bounded bypass, no halt, ring 3 traps on its own stack |
| Event queue (`kernel/event_queue.c`) | ring of 128 slots | push (from interrupts), pop (from `ui_task`) | drivers, UI task | FIFO, no loss except a refusal when full |
| Interrupt entry and PIC (`kernel/idt.asm`, `interrupts.c`) | PIC, interrupt flag, IDT | service routines, EOI, masks | drivers, scheduler | handlers are not re-entered, each EOI ends its own interrupt, interrupted code does not notice |
| Keyboard (`keyboard/keyboard.c`) | key table, Shift, Caps Lock, 64-byte buffer | one call per scancode | event queue, `SYS_KEY_DOWN` | state agrees with the keys that are held |
| Mouse and cursor (`mouse/*.c`) | packet in assembly, position, buttons | one call per byte | event queue, cursor layer | packets stay aligned, position on screen, every change of a button reported |
| UI task (`kernel/kernel.c`) | drag state | pop events, move windows, compose | queue, windows, scheduler | a drag follows the button, windows stay on the screen |
| Window manager (`window/window.c`) | windows, active window, cells | create, focus, raise, move, type | layers | the window in front is the one that is hit |
| Layers and compositor (`graphics/layer_manager.c`, `compositor.c`) | layer table, next z | add, remove, raise, compose | windows, cursor | sorted, z unique and bounded, cursor on top |
| Heap (`memory/heap.c`) | free list, bump pointer | kmalloc, kfree | tasks (stacks) | live blocks are disjoint, freed ones are found again |
| Paging (`memory/paging.c`) | page directory and tables, TLB | map, unmap, range flags | boot | a range is changed as a whole, the TLB agrees |
| System calls, game window (`kernel/interrupts.c`, `game_window.c`) | game surface | draw, present, key, ticks, yield, sleep | Pong, compositor | what Pong asks is what is drawn |
| Pong (`app/pong.c`) | mode, ball, paddles, score | one frame | system calls | ball stays in the field, one start per press |
| Boot, GDT, timer setup, graphics primitives, font | set up once, or stateless | | | |

`PROJECT.json` lists each of them with its files and its status, and the
hazards of this code at their lines.

## 2. Plan

Written in this order, the behaviour that everything else rests on first:

1. `Scheduler`, abstract specification `TimeSharing`, refinement
   `SchedulerRefinement`, proofs `SchedulerProofs`. **Done.**
2. `EventPath` (interrupt nesting and the event ring), abstract specification
   `BoundedFifo`, refinement `EventPathRefinement`, proofs `EventPathProofs`: the
   nesting of the handlers and their EOIs, from it `NothingLost` and
   `SourceOrder`, and from that the refinement. **Done.**
3. `Layers` and `Desktop`: layers, windows, focus, the packets of the mouse, the
   drag of `ui_task`; proofs `DesktopProofs`. **Done.**
4. `Keyboard` and `MousePort`: modifiers and key state against the keys that
   are held; the handshake of `mouse_init` and the assembly of packets; proofs
   `KeyboardProofs` and `MousePortProofs`. **Done.**
5. `Heap` with the abstract specification `Allocator`, and `Paging`; proofs
   `HeapProofs`, with the refinement of `Allocator`, and `PagingProofs`. **Done.**
6. `Pong` and `GameWindow`, the system calls that it draws with; proofs
   `PongProofs`. **Done.**

What the service routines do to the registers of the code they interrupt is
not modelled: that AL is written after `popa` can be read off each routine, and a
model of it would only say so again.

Runs are kept to one per question: the runs of a component share an MC module.

## 3. How the modules correspond to the code

`PROJECT.json` ("map") gives the lines of every definition.

### Scheduler (`kernel/task.c`)

The task table is one function per field (`alive`, `state`, `wakeTick`,
`isUser`, `userFrame`); `current` is `g_current` together with
`g_current_task`, and `resume[t]` stands for what the saved stack of `t`
continues with. `pc` tells what the CPU executes. `pick_next` reads
`g_timer_ticks` anew for every entry with interrupts mostly enabled, so it is
one step per entry (`PickFound`, `PickSkip`) and `TimerInterrupt` may come
between any two; its four callers (`task_start`, `task_yield`,
`task_yield_from_user`, `task_exit`) end in `FinishStart`, `FinishYield`,
`FinishYieldFromUser` and `FinishExit`. The statements of a caller after
`pick_next` are one step: a tick changes nothing that they read. `esp0` is the
stack in the TSS, onto which an interrupt or a system call from ring 3 pushes.

Two history variables measure what the code promises: `left[t]`, the timer
interrupts that `t`'s sleep is still owed, counted apart from the tick counter;
`passed[t]`, the switches to other tasks since `t` was due.

### Event path (`kernel/idt.asm`, `kernel/interrupts.c`, `kernel/event_queue.c`)

`frames` is the kernel stack as a sequence of contexts: the task at the bottom,
one frame per nested service routine. Every access to `q_head`, `q_tail` and
`q_buf`, every `cli` and `sti`, each EOI and `iretd` is a step of the topmost
frame. The build has no optimisation flag (`Makefile`, `CFLAGS`), so the order
of the statements is the order of the accesses. `Accept` is the CPU taking an
interrupt that the PIC offers: fully nested mode, explicit unspecific EOIs, the
slave on line 2 (`pic_remap`). The PIC and the PS/2 controller are external.
`accepted`, `delivered` and `refused` are histories of the queue; the refinement
maps them to the variables of `BoundedFifo`.

### Layers and Desktop (`graphics`, `window`, `mouse`, `kernel/kernel.c`)

`Layers` has the functions of `layer_manager.c` as operators on the manager's
state, a record of the table, the z of every layer and the counter. `Desktop`
has one action per thing that happens: a window is created, the mouse position
is read for the cursor (in two steps), a packet arrives (`mouse_on_packet`, with
all the events that it pushes), a scancode takes a slot of the queue
(`keyboard_on_scancode`), `ui_task` handles one event, the compositor runs.
A packet is one step because its routine runs on top of the task until its last
push (`EventPath`); a key may nest between two of its pushes, which fills the queue
no differently than if it had come before or after the packet. The handling of an
event is one because neither interrupts nor other tasks touch the state that it uses
(`Scheduler`: tasks are not preempted). `g_drag_off_x`, `g_drag_off_y`, `g_dragging` and `g_dragwin` are the
record `drag`; a window keeps its own place and that of its layer apart, as the
code does.

### Keyboard (`keyboard/keyboard.c`)

The keys themselves are part of the model: `held` is what is pressed, `wire` the
scancodes on their way, which `keyboard_on_scancode` takes one at a time. A key
has a scancode (`CodeOf`), with the prefix 0xE0 if it is `Extended`; two keys may
share one. Any held key may repeat. `KeysTracked` states how far the driver's
state follows the keys once all bytes have arrived: it believes a scancode down
only if a key with it is held, and if all its keys are held (and it has any); Shift
likewise. In
between, with one of two keys held, the release of the other has cleared both. The 64-byte buffer is
mapped to `BoundedFifo`, the specification that the event ring implements too.
The fake Shift codes that real keyboards send around extended keys, and the E1
sequence of the Pause key, are left out. The event that is pushed is kept in `event`;
no property is about its contents.

### Mouse port (`mouse/mouse.c`)

`MousePort` has the statements of `mouse_init` that touch the controller as
steps, with the controller's queue, its configuration byte, the acknowledgement
of the mouse, and the request latches of the PIC. Keys may be pressed during the
handshake. After the `sti` of `kernel_main` the two handlers run whenever their
request is latched, with or without a byte behind it. The controller, the mouse
and the PIC are external and behave as those of QEMU, which the `Makefile` runs: a
request stays latched when its byte is read, and an empty port repeats its last
byte. A mouse byte may be lost. A byte is a record of its sender and of the two
bits that the code looks at (bit 0 of a configuration byte, bit 3 of a packet's
first byte). `calm` and `nextPart` are histories: how many bytes in a row made up
one undisturbed packet, and the part the mouse sends next. What is done with a
finished packet is `mouse_on_packet`, in `Desktop`.

### Heap (`memory/heap.c`)

A block is its header's address, its size and bit 0 of its flags; the free list
is the sequence of headers that the `next` fields chain. `kmalloc` and
`kmalloc_zero` search the list (`TakeFree`), which splits a block or takes it
whole, or cut fresh memory (`Bump`), or refuse; addresses and sizes are computed
modulo `Word`. `wrote` has every address that a call writes, headers and zeroing
included, so that `WritesOwn` speaks of memory and not of the model's records.
`HeapRefinement` shows the heap to implement `Allocator`, whose clients get
regions that never overlap.

### Paging (`memory/paging.c`)

`pd` and `pt` are the directory and its only page table, `tlb` what the CPU has
cached; it caches (`CpuCaches`) and drops (`CpuDrops`) translations at any time.
The tables, the flush and the range arithmetic modulo 2^32 are those of the code.
`asked` and `promised` are histories of what the callers asked for ring 3 and of
what calls reported as done.

### Pong and its window (`app/pong.c`, `kernel/game_window.c`)

`game` is `PongState`. A frame of `pong_main` is one step, because ring 3 owns the
record alone: the functions of the source are applied to it in their order, with
the keys that the frame polled and the ticks that passed. `restart_was_down`
starts with any value, as it does on the stack. `GameWindow` has what the drawing
calls write: each rectangle passes through 16-bit fields and is clipped to the
client area. Colours, digits and the shapes of letters are left out; of a text
its length is kept.

## 4. Runs

| Run | Bounds | What it shows |
|---|---|---|
| `scheduler_safety` | 4 tasks, 2 in ring 3, sleeps of 1 and 2 ticks, 5 ticks | types; ring 3 traps on its own stack; no early return from a sleep; at most 3 bypasses; the CPU never stops in `idle_loop`; the scheduler implements `TimeSharing` |
| `scheduler_liveness` | the 3 tasks of `kernel_main`, 5 ticks | every task runs again and again, every sleep ends |
| `scheduler_wrap` | 12 ticks, counter modulo 8 | a violation: see below |
| `event_path` | ring of 4 slots, 2 bytes per device, up to 2 events per mouse byte, 1 tick | types; nothing lost, in order; handlers exclusive; EOIs end their own interrupt; the ring implements `BoundedFifo`; every byte is read, every accepted event delivered |
| `desktop_order` | 3 windows on 3x2, 2 buttons, z renumbered from 6 | active window, hit test and drawing order agree; order kept by renumbering; cursor on top; the drag follows the mouse |
| `desktop_drag` | 1 window of 2x2 on 2x3 pixels, all four directions, keys, queue of 2 | window inside all four edges, cursor catches up, no drag without the button |
| `desktop_release` | the same | a violation: see below |
| `heap` | 16 bytes, alignment 2, header of 2, words modulo 64; requests of 0 to 7, every address freed | blocks tile the heap, free list exact, no write into a payload in use, nothing refused that fits, `Allocator` implemented |
| `paging` | pages of 2 bytes, 2 table and 2 directory entries, ranges of 0, 1 and 3 bytes from every address | cached translations sound, ring 3 reaches only what it was given, what is reported as done lasts |
| `pong` | window of 16x8, score limit 2, step clamped at 3; delays of 1, 2 and 9 ticks, every set of keys | field in order, drawn as it is, points earned, one action per press, the ball comes back |
| `keyboard` | 6 keys (both Shifts, Caps Lock, a letter, two with one scancode), buffer of 3, 2 codes on the wire, 3 characters | key and Shift state follow the keys; the buffer is a FIFO |
| `mouse_port` | 3 bytes waiting | packets come back in step; no byte is stuck at the port |

Why the bounds are enough. Four tasks are one more than the kernel has, and the
fourth makes two trap frames coexist. Two sleep lengths with five ticks let a
tick fall before, between and after any two steps of a scan and two sleeps
overlap in both orders. A ring of four slots wraps and becomes full with the six
events that four bytes can produce; two mouse bytes with up to two events each,
a keyboard and a timer reach every nesting that the PIC allows, among them a
second interrupt of a device between the EOI and the `iretd` of its first.
The desktop needs three windows for an order to be kept between two others. In
`desktop_order` all movement is along the row of the title bars. In `desktop_drag`
the cursor moves in all four directions and the window along the column: it is as
wide as the screen, so that a drag to either side is held back by the clamp, and
it can be one row lower or not. `DesktopProofs` states `OnScreen` for every size
of the two. The threshold of 6 is the least that satisfies the
assumption below, so that z is renumbered at every other raise. The clock, the
bytes and the ticks are the only counters that are cut off (`MaxTicks`,
`MaxBytes`); a sleep is only started if it ends before the clock stops.

In the runs on the desktop, and in `mouse_port`, nothing bounds the number of
packets. Eight units of heap hold a block of every size that a request of up to
7 rounds to, with room for a second and a third: a split, a block too small to
split, an exact fit, a search past the first block of the list and a full heap
all occur. Four pages of two bytes have ranges that begin inside a page, cross
into the next, touch the directory entry that has no table, and wrap at the
last page. On the small field a late frame carries the ball from the front of a
paddle past it, unless the clamp stops it, and a game is won within two points. In
`keyboard`, `MaxTyped` bounds the characters that are typed in all, and `MaxWire` how
far the driver lags; keys are pressed and released without bound.

Deadlock is checked in every run but `mouse_port`: if `mouse_init` takes a scancode
for the configuration byte, it may switch the keyboard's interrupt off, and a
byte of the keyboard then stays at the port for good.

### Violations

- `scheduler_wrap`: `task_update_wakeup` compares `g_timer_ticks >= wake_tick` as
  plain unsigned numbers, so a sleep whose wake tick lies beyond the wrap of the
  counter (after 497 days at 100 Hz) ends at once, against the comment at
  `kernel/task.c:114`. The other runs and the theorems assume a clock that does
  not wrap.
- `desktop_release`: `mouse_on_packet` updates `prev_buttons` even if
  `event_push` refused the event. When the queue is full at the moment of the
  release, the release is never reported and the window stays attached to the
  mouse until the next click, against the comments at `kernel/kernel.c:153` and
  `mouse/mouse.c:149`.

### Disagreements that have no run

Some of what was met while modelling has no document, comment or test that speaks
of the program clearly enough to refute it, or only restates one line:

- `keyboard/keyboard.c:183`: releasing one Shift key ends Shift while the other is
  held (`KeysTracked` says what is kept instead).
- `app/pong.c:89`: `pong_init` clears `space_was_down`, so a SPACE that is held
  through a restart pauses the new game at once (`OneActionPerPress` excepts the
  first frame of a game). `restart_was_down` is not initialised; it is polled
  before it matters.
- `app/pong.c:234` and `:251` describe the direction of the serve; after a point of
  Player1 the code serves with direction -1, towards Player1.
- `memory/paging.c:182`: a range that touches the last page wraps to 0; nothing is
  done and 0 is returned (`PromisesKept` leaves these out).
- `memory/paging.c:151`: `unmap_page` does not flush (`TlbSound` says how long an old
  translation may live). Nothing in the kernel calls it.
- `mouse/mouse.c:43`: the handshake does not tell a scancode from the
  configuration byte (`InputGoesOn` excepts it).
- `kernel/idt.asm:32`: the service routines write AL after `popa`.
- `app/app_api.h:96`: `app_game_fill_rects_batch` returns a variable that is never set,
  so `pong_render_center_line` may or may not draw the dashes once more, one by one
  (`app/pong.c:368`). The batch takes them all, so the pixels are the same and
  `GameWindow` has the batch alone; the test of the pointer in `syscall_handler`, which
  the dashes pass, is left out with it.

Some hazards are only partly covered, since the property excepts what the code
does: a translation used while its page is unmapped (`TlbSound`), a range that wraps
(`PromisesKept`), one Shift of two that is still held (`KeysTracked`), a scancode taken
for the configuration byte (`InputGoesOn`), a request to the heap that wraps
(`HeapAssumption`). Their entries in `PROJECT.json` say so.

### Fairness

`FairSpec` of `Scheduler`: the CPU executes (`WF` of its steps, which includes
that the code of every task reaches its next call into the scheduler: tasks are
cooperative); the timer is strongly fair because the PIC keeps its request while
the interrupt flag is clear and the flag is set again and again; an interrupt
ends a `hlt`. `FairSpec` of `EventPath`: the CPU executes, `ui_task` comes back to
`event_pop` (which `EveryTaskRuns` shows), and a request that the PIC offers again
and again is taken. Devices owe nothing. `Spec` of `Pong` asks that frames go on: the
timer ticks and every sleep of the task ends, which `scheduler_liveness` shows;
players owe nothing.

## 5. Proofs

`SchedulerProofs` proves, for every number of tasks, capacity, set of ring 3
tasks, set of tasks that may return and set of sleeps:

- `SchedulerTypes`, `SchedulerNeverHalts`, `RingThreeTraps`: the invariants
  `TypeOK`, `NeverHalted` and `RingThreeTrapsAreOwn`;
- `SleepsLast`, `BypassIsBounded`: `NoEarlyReturn` and `BoundedBypass`, under
  `NoTickWrap` (the horizon `MaxTicks` lies below the modulus of the counter, which
  `scheduler_wrap` shows to be necessary);
- `SchedulerImplementsTimeSharing`: the refinement, under the same assumption.

The first three rest on the inductive invariant `IInv == TypeOK /\ Control`.
`Control` relates what the invariants leave open: where the CPU can be for
which current task, that a scan's start and index stay inside the table, that
only the CPU's own task has a resume point of its kind, and that the idle task is
alive and runnable. The last part is what makes `NeverHalted` inductive: a scan
that has reached the idle task finds it. `SleepsLast` adds that the ticks a
sleeper is still owed are those up to its wake tick. `BypassIsBounded` needs a
count: the number of times a due task has been passed is at most the distance,
around the table, from its entry to the current one, with the scan in progress
and its start taken into account. The refinement follows step by step from these
invariants. Constants are constrained by `SchedulerAssumption` only.

`PongProofs` proves, for every geometry that `PongAssumption` allows, every score
limit, every set of keys and frames however late, `PongTypes`,
`FieldAlwaysInOrder`, `PointsAlwaysEarned`, `EveryPressActsOnce` and
`FramesAreDrawn` (`DrawnAsItIs`). The inductive
invariant `PongIInv` adds to the properties what they leave open: a ball that
flies away from a paddle has left its face behind (`BallAhead`), so that a paddle
driven into the ball is always one the ball flies towards and `BallReflected`
sees it; a game that is over is not paused; and the record remembers the keys of the
last frame wherever it will look at them (`PressesKnown`). Each function of a
frame has a lemma that says which fields it changes and how; the step of the
invariant follows the frame through them. `FramesAreDrawn` adds that the ball is
never farther out than its own size and one late frame (`BallNear`), also where it
came to rest when the game ended, so that its 16-bit coordinate cannot fall back
into the window; the rest is about `kernel_game_fill_rect` alone: a rectangle
whose corner fits into 16 bits is written where it lies, clipped at the far edges.

`MousePortProofs` proves `MousePortTypes`, `StaysInStep` (`InStep`) and
`InputNeverStuck` (`InputGoesOn`) for every number of bytes that the controller
may hold. `Stepping` is the invariant behind the first: what the assembly can hold
after one, two and three bytes of a calm packet, whatever it held before.
`Requesting` is the one behind the second: an enabled line whose byte is at the
port is requested, and a configuration byte read during the handshake has the
keyboard's bit set.

`EventPathProofs` proves, for every size of the ring, every number of bytes and
ticks, and every number of events that a byte of the mouse may push up to the four
that `mouse_on_packet` has, `EventTypes`, `QueueLosesNothing` (`NothingLost`),
`SourcesInOrder` (`SourceOrder`), `HandlersAreExclusive` (`HandlersExclusive`),
`EoisEndTheirOwn` (`EoiEndsOwn`) and `EventQueueIsFifo` (`FifoSpec`). The inductive
invariant `EventIInv` has a side of the CPU and a side of the queue:

- `StackShape`: under the topmost routine every context stands where the interrupt
  flag was set, so only the topmost can be inside the critical section of
  `event_push` or `event_pop`;
- `PicNested`: the lines in service are those of the routines before their EOI, and
  each is nested in routines of lower priority. From it follow the exclusion of
  the handlers and that an unspecific EOI hits its own line;
- `BytesNumbered`: a byte at the port is the newest of its device, and what is
  pushed or queued is older. It is needed because `mouse_isr` may be entered again
  between its last EOI and `iretd`;
- `RingKnown`, `QueueExact`: what the topmost routine knows of the ring while
  interrupts are off (the free slot it writes is not the tail, the slot it publishes
  holds its event), and `NothingLost` position by position;
- `PushesOrdered`: what an interrupted handler has still to push comes after all
  that its device has in the queue, which makes `SourceOrder` inductive.

`DesktopProofs` proves, for every number and size of windows, every screen, every
threshold of renumbering, every capacity of the queue and every stream of
packets, `DesktopTypes`, `WindowsStayOnScreen` (`OnScreen`), `ActiveIsInFront`
(`ActiveInFront`), `CursorStaysOnTop` (`CursorOnTop`), `HitsAreDrawn`
(`HitIsDrawn`), `DragsFollow` (`DragFollows`), `CursorCatchesMouse`
(`CursorCatchesUp`), `DragsNeedTheButton` (`DragNeedsButton`) and `OrderIsKept`
(`OrderKept`). It has two halves.

- The layers: sorting the table yields each layer once, in the order of z, which
  comes down to counting the entries before each. While windows are created,
  z is twice the place in the table (`Booting`); afterwards (`Full`) the windows have
  different z, at most the counter, and the cursor is above them all. A
  renumbering keeps the order because it numbers by place in the sorted table.
- The events: the state at the end of the queue is known, the one of `ui_task` is
  what it lags behind. `EventsLead` says that all that follows the last movement in
  the queue has the position of the mouse, that presses and releases of the left
  button alternate and the last agrees with the button, and that the cursor is
  where the mouse is once no movement waits. `DragLeads` says that during a drag the
  next event of the left button, if one waits, is a release, and that the window is
  where the mouse puts it once no movement waits. Both hold until an event of the mouse
  is refused (`lost`): `desktop_release` shows why.

`KeyboardProofs` proves, for every set of keys, every assignment of scancodes to
them (two Shifts on one code and no Shift at all included) and every size of the
buffer, `KeysAreTracked` (`KeysTracked`) and `TypedIsFifo` (`TypedFifo`). `KeysLead`
says of every set of codes the driver keeps one state for: the last byte on the
wire with such a code, or the driver's state if there is none, may be believed. The
proof corrected the property: it used to say that Shift is believed down when
all Shift keys are held, which fails for a keyboard without one.

`HeapProofs` proves, for every size of the heap, of a header and of the alignment,
every set of requests that `HeapAssumption` allows and every pointer given to
`kfree`, `HeapTypes`, `HeapStaysWhole` (`HeapIsWhole`), `CallsWriteTheirOwn`
(`WritesOwn`), `FreeBlocksServeFirst` (`FreeFirst`) and `HeapIsAllocator`
(`AllocatorSpec`). `HeapIsWhole` lacks one fact to be inductive, `Measured`: the
addresses and sizes of blocks are multiples of the alignment and no block is empty,
so that what a split leaves holds a header and a payload, and a block too small for a
rounded request is too small for the request. The free list is followed through
`TakeFree` by its positions: a block is unlinked, replaced by its rest, or left.

`PagingProofs` proves, for every page size, every number of entries and every set
of frames and ranges, `PagingTypes`, `CacheIsSound` (`TlbSound`),
`OnlyAskedPagesAreOpen` (`UserPagesAsked`) and `RightsAreKept` (`PromisesKept`). The
properties speak of addresses and of translations that the CPU may yet make;
`PagingIInv` states the same of the entries themselves (`CachedAgrees`, `UserAsked`,
`RightsLast`), with what the walk of the tables rests on (`OneTable`). The range
arithmetic (rounding down and up, the end modulo 2^32) has its own lemmas, from
which follows which pages a range touches. A range that fails half way has opened
pages without a flush; the translations that stay cached allow less than the
tables do, which is the direction that `CachedAgrees` permits.

With these every safety property that a passing run checks, invariant or action
property, and the four refinements are theorems. The type invariants of `Desktop`,
`Heap`, `Paging`, `Pong` and `MousePort` are proved and not part of a run.

Only model-checked: the liveness properties `EveryTaskRuns`, `SleepEnds`,
`BytesAreRead`, `AcceptedIsDelivered` and `BallComesBack`. They rest on fairness,
and the prover reasons neither about it nor about `ENABLED`. The two violations are
counterexamples of TLC and have nothing to prove.


## 6. Assumptions and what is left out

- RAM is zero at boot (the loader does not clear `.bss`); the models start from
  the values that the code assumes.
- The heap of 1 MB does not refuse the three stacks of 8 KB, so the failure of
  `kmalloc` in `task_create` is not taken. `HeapAssumption`: no sum of an address in
  the heap and a block's size wraps, as with the only sizes that are asked for;
  and what clients write is not taken for a header's magic number.
- `PongAssumption`: the ball fits between the paddles, and a clamped frame carries
  it across neither a paddle and its own size nor half the field; the dashes of the
  centre line fit into the field and, at most 20, into a batch; the field with a ball
  and a late frame fits into 16 bits; the buffer of a text has room for 7 characters
  and the terminator. The field of 218x130, the constants of `app/pong.c` and the
  kernel's limits of 20 rectangles and 10 characters satisfy it.
- Interrupts preserve the registers of what they interrupt. The service routines
  do not quite do so (`kernel/idt.asm:32`).
- `Desktop` assumes (`DesktopAssumption`) that windows are created on the screen,
  that the layer table has room for them and the cursor, and that z is not
  renumbered before the cursor has been added: `layer_rebase_z` takes the last
  entry for the cursor. `kernel_main` satisfies the three: two windows, capacity
  16, threshold 10000.
- `wm_destroy_window`, `layer_remove` and `layer_init` are not called by the
  kernel; they are not modelled. Key events take slots of the queue and reach
  `ui_task`, which ignores them because `g_text_input_enabled` is 0.
- Not modelled: pixels, fonts, text in windows, the boot loader, the descriptor
  tables, the page-fault screen and the counters of system calls. They are
  sequential code on data that no property here tells apart, or constant tables.
