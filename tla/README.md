# A TLA+ model of the nRF9160 demo application

The repository is a firmware for the nRF9160, a chip with two cores: the
application core, which runs this code on the MDEPX RTOS, and the modem core.
Nordic's modem library (`nrfxlib`, binary) talks to the modem core and asks the
application for an operating-system port (`nrf_modem.c`) and an IPC driver
(`nrfx_ipc.c`).  The application on top of them registers in the LTE network,
asks an NTP server for the time, fetches a page, and switches the modem to GPS.

MDEPX and nrfxlib are submodules whose source is not in the repository.  What
this project says of them is taken from how `src/` uses them and is marked
external in `PROJECT.json`.

## Inventory

| part | state | operations | speaks to |
|---|---|---|---|
| sleeping threads (`nrf_modem.c` 56-201) | list of nodes in the stack frames of the sleepers, a semaphore in each | `nrf_modem_os_init`, `_shutdown`, `_event_notify`, `_timedwait` | called by the library from threads and from the IPC interrupt |
| IPC glue (`nrfx_ipc.c`) | handler pointer, IPC registers | `nrfx_ipc_init`, `_config_load`, `_receive_event_enable/_disable`, `_uninit`, `_irq_handler` | modem core through EVENTS/INTEN; library through the handler |
| semaphores, mutexes (`nrf_modem.c` 271-387) | two pools that only grow | `_sem_init/_give/_take`, `_mutex_init/_lock/_unlock` | library |
| memory (`nrf_modem.c` 203-250, `board.c`) | RTOS heap, shared-memory zone | `_alloc`, `_free`, `_shm_tx_alloc/_free` over `shm_alloc/_free` | library, from threads and the IPC interrupt |
| main thread (`main.c`) | position, UART buffer, `status` of `lte_wait` | `main`, `lte_connect`, `lte_wait`, `lte_signal`, `connect_to_server`, `nrf_input` | library (AT commands, sockets), UART interrupt |
| NTP (`ntp.c`) | a socket, the message | `ntp_main`, `ntp_connect`, `ntp_to_unixtime` | library |
| HTTP glue (`http.c`) | sockets, start time | `httpc_main` and the callbacks of the httpc library | httpc, library |
| GPS (`gps.c`) | none of its own | `gps_init`, `gnss_event_handler` | library |
| factorization (`math.c`) | none | `decompose_64bit` | - |
| LCD (`lcd.c`) | pins, `vcom` | `lcd_init` (its call is compiled out) | GPIO |
| start-up, memory map (`board.c`, `ldscript`) | fixed regions | `board_init` | RTOS |
| Wi-Fi, DECT (`wifi/`, `dect.c`) | - | compiled out | - |

What is hard here, and what makes each part correct:

* **Sleeping threads.** The list is shared between threads and an interrupt,
  and its nodes die when the function that owns them returns.  Correct means:
  no walk and no link reaches a dead node, a notification reaches every
  sleeper, a wait ends, and its result says what happened.  A shutdown and a
  second initialization happen under sleeping threads.
* **IPC glue.** The other core raises events at any instruction; set-up and
  tear-down are interrupted by the very handler they install.  Correct means:
  no event is lost or starved, no call through a NULL pointer, silence after
  `nrfx_ipc_uninit`.
* **Semaphores and mutexes.** Two fixed pools lend objects to the library and
  never take them back; the modem can be initialized again.  Correct means: no
  slot serves two objects or is lost, takes tell the truth about tokens, and
  locks exclude, or where they do not, by no more than the expired timeouts
  that the code ignores.
* **Shared memory.** Threads and the interrupt use one free list; the zone lies
  between two regions of the modem.  Correct means: chunks are disjoint and
  stay out of those regions.
* **NTP, HTTP, GPS.** Answers come late, short, in pieces or not at all.
  Correct means: what is printed is what the other side said, and where it is
  not, the case is a known one.
* **LCD.** A serial protocol made by hand from three pins.  Correct means: the
  panel gets the bytes that were meant.
* **Factorization.** Correct means: it ends, whatever the random numbers, and
  its answer is a factorization.
* **Main thread.** Every call may fail and each failure is treated differently
  (ignored, return, close and return, panic).  Correct means: sockets are used
  only while open and only the known ones are left open, `lte_signal`,
  `ntp_main` and `connect_to_server` run only after registration (`httpc_main`
  runs after a refusal too, `main.c` 439), GPS starts in the right radio mode,
  and the thread gets past registration and on to its idle loop.

`PROJECT.json` lists the hazards one by one with the line where each bites.
Smaller ones that no behaviour of this program depends on are not listed there:
`buffer_fill` and `ready_to_send` are reset one after the other with the UART
callback registered (`main.c` 509), but nobody reads them; an AT+CESQ answer
with too few fields prints a wrong number (`main.c` 185); `limit` of a
semaphore is ignored (`nrf_modem.c` 273), and `nrf_modem_os_sleep` wraps above
71 minutes (`nrf_modem.c` 339).

## Modules

### ModemOsWait (with MCModemOsWait, ModemOsWaitProofs)

State: for each thread its position in `nrf_modem_os_timedwait` (`pc`) and its
stack frame (`td`: semaphore count, context, timeout, result of the semaphore
wait); the links `nxt`/`prv` of the list head and of each thread's node; whether
the modem is initialized; the cursors of the two functions that walk the list.

One action per stretch of code that nothing can interrupt.  `Prepare` is the
function up to the critical section that appends the node (`Enqueue`);
`SemTake` and `SemTimeout` are the two ways `mdx_sem_timedwait` ends; `Dequeue`
is the second critical section; `Return` reads `nrf_modem_is_initialized` again
and gives the frame up.  `nrf_modem_os_event_notify` starts a walk in the
interrupt and `NotifyTurn` is one turn of its loop; while it runs no thread
does.  `nrf_modem_os_shutdown` walks in thread context, so a turn of its loop is
two steps, `ShutdownPost` and `ShutdownNext`, and other threads run before,
between and after them.  The thread under the cursor may unlink its node and
return before the post, by a timeout, or between the post and `td_next`: the
cursor then stands on a node with a stale next or on a frame that is gone, where
the next node is whatever lies there (`Successors`).  What a post into such a
frame overwrites is outside the model: it changes no frame the model tracks.

`posted` in a frame is history: it says that some walker posted this wait's
semaphore before the wait ended.

Conversion of the timeout keeps the width of `int` (`Int32`), scaled down for
TLC: 8-bit integers with 8 "microseconds" per "millisecond", where 32 ms
overflows to 0 exactly as 2^29 ms does in 32 bits with 1000.  A product that
does not fit is undefined in C; the model takes the wrapped value, which is
what the multiplication instruction yields.

### NrfxIpc (with MCNrfxIpc, NrfxIpcProofs)

State: the handler pointer, the IPC registers as sets of channels (`events`,
`inten`, `recvOn`, `sendOn`), the position of the thread that loads or unloads
the configuration, and the interrupt's position, snapshot and current call.
`Raise` is the modem core.  `IrqEnter`, `ClearEvent`, `CallHandler`,
`HandlerReturn`, `IrqExit` are `nrfx_ipc_irq_handler`; the handler may switch
channels on and off while it runs.  Loops over receive channels take one step
per channel because the interrupt can come in between; the loop over send tasks
is one step because nothing can observe it half done.  `due` is history: events
raised since the handler was last called for their channel.

The library is assumed (external) to call init, config_load and uninit from one
thread in this order, and enable/disable only in between or from its handler.

### WaitNotify, ModemOsWaitRefines

`WaitNotify` is what the sleeping threads promise, without list, frames or
semaphores: a notification wakes all threads asleep on its context in one step.
`ModemOsWaitRefines` maps `ModemOsWait` to it.  The one idea of the mapping: a
thread that the interrupt's walk has still ahead of it counts as woken already,
which no thread can tell because none runs during the interrupt.  `Ahead` (in
`ModemOsWait`) is what `td_next` leads to from the cursor: the least set that
contains it and that `td_next` does not leave.  The refinement holds for one
`nrf_modem_os_init`: after a second one the old sleepers unlink their nodes from
a list that is not theirs any more and may cut new sleepers off, who then miss
notifications until their timeouts (`WaitReturns`).

### ModemPort (with MCModemPort, ModemPortProofs)

`NrfxIpc` and `ModemOsWait` composed, each an INSTANCE over its own variables,
plus `notified`: the running handler has called `nrf_modem_os_event_notify`.
The interrupt of the one is the context in which the walk of the other runs:
threads step only while `NrfxIpc` is not in its interrupt, and the handler
returns only when its walk is over.  Assumed of the library (external): its
handler notifies the context that belongs to the channel (`ContextOf`), once,
and `nrf_modem_init` sets up the OS port, then the driver.  Shutdown is left
out, as in the application.  `MaxBacklog` bounds the posts that pile up on a
sleeper that is not scheduled.

### LteApp (with MCLteApp, LteAppProofs)

The functions of the main thread that are plain sequences of library calls are
tables (`lte_setup`, `ntp_main`, `connect_to_server`, `httpc_open`, `lte_gps`,
`gps_init`), one entry per call with what the code does when it fails.
`CallSucceeds` and `CallFails` run them.  `lte_wait` is `ScanSucceeds`,
`ScanFails` and `Switch`; a failed scan leaves `status` as it was, and before
any has succeeded `status` is uninitialized and takes any value.  `RegisterUart` and
`nrf_modem_init` panic if there is no UART or no modem.  `AtEffect`
says which radio mode an AT command switches (external: from the comments in
`lte_connect`).  The UART interrupt and the answer to AT+CESQ come at any time.
`failed` and `seen` are history.

### OsSync (with MCOsSync, OsSyncProofs)

State: the library's handles (`semHandle`, `mtxHandle`: a slot or NULL), the
fill levels `sem_used` and `mutex_used`, the semaphore or mutex in each slot,
and the take or lock each thread is in.  `nrf_modem_os_sem_init` and
`nrf_modem_os_mutex_init` take the slot of a known handle or the next free one;
`SemPoolEmpty` and `MutexPoolEmpty` are their failing assertions, which stop the
system.  A take or lock is a call and a return: `SemTakeReturns(t, 1)` and
`MutexLockReturns(t, 1)` got the object, with 0 the timer ran out.
`nrf_modem_os_mutex_lock` ignores the difference, so its caller goes on as the
owner in both cases.  History: `ledger` is what the users of a semaphore can
tell of its count from the results they got, `inside` the threads that are past
a lock, `lapses` how many timed locks have expired since the mutex was set up.

Assumed of the library (external): it sets objects up from one thread and only
while nobody uses them, and a thread unlocks what its lock returned for.  Of
MDEPX: a time of 0 sets no timer, and an unlock frees the mutex whoever calls
it.

### SyncObjects, OsSyncRefines

`SyncObjects` is what the semaphores and mutexes promise: objects of the
library's own, with no pools behind them, up to a number of each kind.  The
mapping takes a semaphore's tokens from `ledger`, that is from the results its
users got, and a mutex's state from its slot (`SemUp`, `MtxUp`, `Held`, `Doing`).

### ShmZone

State: the free list and the chunks in use as sets of units of 0x800 bytes, the
critical-section depth, and what each caller has read of the free list.  An
allocation or a release is two steps, the allocator's look at its list and its
update, with `critical_enter` before and `critical_exit` after.  The regions
have their real addresses: CTRL 0x20010000, TX 0x20011000, the zone 0x20014800,
RX 0x20018800 up to 0x20020000.

### NtpTime, HttpClient, Gnss (with MCServices, ServicesProofs)

`NtpTime` follows the transmit time stamp from the bytes of the answer to the
number printed, with words of four digits to base `Base`.  `HttpClient` is
the four functions of `http.c` that carry data, with the httpc library around
them (external: it sends its request in pieces, reads until nothing comes, and
calls `httpc_dump_cb` after each read with a position that counts all bytes
delivered, those of the header too).  That meaning of `position` is an
assumption, since httpc is not in the repository; `SpeedRight` depends on it.
`Gnss` is `gnss_event_handler` against a modem that computes frames, keeps the
last one and announces it; read and judgement of a frame are two steps.
`MCServices` runs these three and `ShmZone`: they share no state, so it lets
one of them go and keeps the others as they start.  It also states their
assumptions on the constants.

### Lcd (with MCLcd, LcdProofs)

`lcd_init` with one action per write to a pin.  A transfer is the sequence of
bytes that `ClearScreen`, `set_line` or `setBlinkMode` hand to `Write_Data`;
`ClockLow`, `Data`, `ClockHigh` and `ByteDone` are its loop.  The panel is
external: it samples MOSI at rising edges of SCK while CS is high and executes
what it got when CS falls.  The delays are left out.

### Decompose (with MCDecompose, DecomposeProofs)

`decompose_64bit` one turn of a loop at a time, its loop of additions (`MulAdd`)
and `gcd` as recursive functions of the argument that falls (`Additions`,
`Euclid`), random numbers as free choices.  `uint64_t` is modulo 2^`Bits`, and
`Lim` is the overflowing shift `1 << (i + 18)` as this target computes it.
`DecomposeAssumption` requires that pq leaves one bit free, as the number in
`math_test` does.

## Runs

| run | shows | bounds |
|---|---|---|
| `wait_irq` | the list is whole: every sleeper is on it, linked both ways; it implements `WaitNotify`, so that a notification reaches all; the walk of the shutdown starts with every sleeper ahead of it, and while the thread under its cursor is linked no step of anyone lets a sleeper fall behind unposted | 3 threads, 2 contexts, short waits, one init, a shutdown |
| `wait_restart` | across shutdown and a second init: the inductive invariant (no dangling link, a safe walk), the interrupt's walk never turns back, results are truthful, every wait ends | 2 threads, context 0, all kinds of timeouts, 2 inits |
| `wait_doc` | **violated**: "0 The thread is woken before the timeout expired" | 1 thread |
| `ipc_safe` | no event lost or starved, no NULL call, silence after uninit, inductive invariant | 3 channels, two configurations |
| `ipc_mask` | **violated**: the handler's argument is an `event_mask` | 2 channels |
| `port` | an event raised by the modem core wakes every thread that sleeps for it; the interrupt ends; both invariants hold together, and the handler's notification passes over nobody | 2 threads without timers, 2 channels |
| `sync` | slots are handed out once and none is lost; takes account for all tokens; a mutex holds at most one thread more than timed locks on it have expired; inductive invariant; the pools implement `SyncObjects` | 3 threads, 3 semaphores for 2 slots, 2 mutexes for 1, counts up to 1, 2 expired locks, an overflowing timeout |
| `services` | the time printed is the server's; a short send is the only thing `httpc_write` hides; the speed is right however the file is cut; positions are valid and not older than their event; chunks are disjoint, lie where they should, and critical sections are left; the inductive invariants | words of four digits to base 4, 3-byte request, 4-byte file, 2 frames and 2 events, 3 callers and 3 chunks in the real memory map |
| `lcd` | the panel gets the bytes that were meant, whatever the pins were; MOSI and CS hold still; EXTCOMIN alternates; every line is painted | 6 lines of 6 bytes |
| `decompose` | reference square, right answer, bounded number of rounds | pq in {9, 13, 15, 16}, 5-bit integers, 5 turns for 1000 |
| `app_safe` | socket discipline, leaks explained, sockets suffice, which functions run after which registration status, radio mode; inductive invariant | buffer of 1, 3 sockets, 2 `httpc_open` calls |
| `app_live` | main gets to its idle loop, panics, or stays in `httpc_get` once the network settles | no UART input, one stored mode |

Why the bounds are enough: three nodes are the least with a first, a middle and
a last one, so that every removal from a list occurs; two nodes are the least
for a list that a second init cuts in two.  All waits of `wait_irq` have the
same timeout, which only the result of a wait depends on; results are checked
with all kinds of timeouts in `wait_restart`, and the refinement for all of them
in `ListUnseen`.  One post beyond the one a waiter
takes shows a late post; two inits show a list emptied under sleepers
(`ModemOsWaitProofs` lifts these bounds).  Three channels give a snapshot with a
lowest, a middle and a highest channel; the proofs lift that bound too.  In
`port` the threads have no timers, so that nothing but an event can wake them.
In `OsSync` an object more than there are slots shows the end of the pool, and
three threads with two expired locks are the least where several threads are
past a lock and one of them frees it for the next; the
proofs lift these bounds.  The panel of `lcd` is
small in both directions, which changes only how often the loops turn;
`LcdProofs` lifts both bounds.  In `services`
the times lie on both sides of the two overflows (125 and 128 with this epoch)
and beyond a whole turn of the word, and the download crosses the
boundary of a second at every point.  In
`Decompose` the inputs are a prime, squares, a product of two primes and the
largest number the width allows; with 5-bit integers the third round already
overflows the shift, and five turns are few enough that failing rounds go
through all distances.  In `LteApp` everything but the
number of `httpc_open` calls and the buffer size is finite by itself; two opens
are the first number at which an earlier connection is still open.

Deadlock checking is off in `wait_restart`, where two threads whose overflowed
timeouts set no timer may sleep for good after the last bounded init, in `sync`
and the runs of `LteApp`, where a panic stops the machine, and in `decompose`,
`lcd` and `services`, which end.

Fairness.  `ModemOsWait`: the interrupt goes on (weak fairness of its walk);
a ready thread is scheduled and a timer that was set expires, in spite of
interrupts that keep coming (strong fairness, because an interrupt disables all
thread steps); the modem is not obliged to send anything and no thread to call.
`NrfxIpc`: a pending interrupt is taken and its handler returns.  `ModemPort`:
both of these.  `Lcd`: its only thread goes on.  `LteApp`: the
main thread is scheduled and the library calls it makes return, those that wait
for the network after the timeout the code sets (`ntp.c` 134) or one of the
library's own, which is an assumption about the library; and a scan that is
tried again and again sometimes succeeds.  `httpc_get` is excepted: `httpc_read`
receives on a socket without `NRF_SO_RCVTIMEO` (`http.c` 135), so `Httpc` has no
fairness and `MainSettles` allows the thread to stay there.  `OsSync` has no
fairness: nobody has to give or unlock, and its properties are of safety.

## Findings

* `wait_doc`: for a negative timeout `nrf_modem_os_timedwait` sleeps 500 ms and
  returns 0 although nobody woke the thread; its comment says 0 means woken.
* `ipc_mask`: `nrfx_ipc_irq_handler` passes a channel index where the typedef
  says `event_mask` and `cb` passes `1 << ev_id`.

## Proofs

Eight modules hold theorems, checked by TLAPS for every value of the constants.
Their assumptions are the ones TLC evaluates in the runs, and no more:

| module | assumption on the constants |
|---|---|
| `ModemOsWaitProofs` | `WaitAssumption`: the head and NULL are not threads, bounds are numbers |
| `NrfxIpcProofs` | `IpcAssumption`: configurations are well formed |
| `ModemPortProofs` | `PortAssumption`: those two, every channel has a context, and the bound on posts leaves room for one round of events |
| `OsSyncProofs` | `SyncAssumption`: bounds, counts and pool sizes are numbers |
| `LteAppProofs` | `AppAssumption`: bounds are numbers, and the buffer and the sockets at least one |
| `ServicesProofs` | `ServicesAssumption`: lengths and bounds are numbers, the bits of the answer and the seconds of uptime fit the width of an `uint32_t` |
| `LcdProofs` | `LcdAssumption`: at least one byte and one line, at most 255 lines |
| `DecomposeProofs` | `DecomposeAssumption`: sums of two residues fit the word, a shift's distance is taken modulo at least the width of `int`, one turn at least is wanted; `PowersOfTwo`: powers of two are numbers above 1, which the provers do not know |

*Sleeping threads.*  `NoDangling` is not inductive: whether removing a node
leaves a link to it depends on who points to it.  `LinksAgree` adds that: if a
node's next (prev) is a thread's node, that node's prev (next) points back.
Nothing is required of links to the head, so the invariant survives a second
`nrf_modem_os_init`.  `AppendKeepsRing` and `RemoveKeepsRing` are the two list
operations; `IsrWalkSafe` follows because the walk goes from ring node to ring
node and threads stand still meanwhile.  `PostedAgrees` ties the history to the
semaphore while waiting and to the result afterwards, which gives `ResultSound`.
Theorems `NoDanglingLinks`, `NotifySafe`, `ResultsSound`.

That a notification passes over nobody is a statement about what can be reached
along the list, which a recursive definition would make an induction.  It is
said with sets instead: `ListWhole` requires, while there has been one
`nrf_modem_os_init`, that links agree at the head as well and that every set of
linked nodes that contains the head and is closed under next is the whole ring.
An append and a removal keep it because a closed set of the new ring gives one
of the old ring by taking the node out or putting it in (`AppendKeepsWhole`,
`RemoveKeepsWhole`).  `IsrOnList` adds that the walk of the interrupt stays on
what the head leads to.  `WaitInv` is the conjunction of all of these; theorems
`Inductive`, `TypeCorrect`, `WholeList`.

`WalkEnds` (the action property `WalkAdvances`) says that a turn of the walk
never leads back.  It holds for any number of inits, also on a list whose links
are mixed up: nodes that lead back to the cursor would form a circle without the
head, and since links that meet at a thread's node agree, each of them has its
one predecessor in the circle, so the head could not have led into it, as
`IsrOnList` says it did (`NeverBack`).

`ShutdownReachesAll` (the action property `ShutdownPassesNobody`) is about the
walk that threads interleave with.  From a linked node the walk reaches what
lies between it and the head (`From`).  On one ring no circle avoids the head
(`OneCycle`), so the last node is ahead of every linked one (`LastAhead`) and an
append lands ahead of the walk wherever it stands (`AppendKeepsAhead`; the
mutant appends at the front and is caught).  A removal, also of the cursor's own node,
takes at most the removed one from what lies ahead (`RemoveKeepsAhead`), the
walk's own post changes no link, and its own turn leaves behind only the node it
has posted (`WalkersPassNobody`).  The condition that the cursor's thread is
linked is needed: without it the walk follows a stale next, and a sleeper may be
passed over.

*The list implements WaitNotify.*  `ListUnseen`, from `WaitInv`, under
`MaxInits = 1`: one lemma per action maps it to a step or a stutter of
`WaitNotify`.  Three carry it.  When the walk starts, everybody is ahead of it
(`AllAhead`, from `ListWhole`), so the start is the broadcast (`NotifyMaps`).  A
turn takes exactly the node it posts to out of `Ahead` (`IsrTurn`), so the
mapped state stays (`IsrTurnMaps`).  A post of the shutdown, which is no walk of
the interrupt, wakes one thread (`ShutdownPostMaps`).

*IPC.*  `IpcInv` says, phase by phase, what can be configured and enabled:
before the last step of config_load nothing is enabled, so the interrupt cannot
run; during uninit the channels below the loop index are gone.  With that the
handler is set whenever the interrupt runs, and uninit ends in silence.
Theorems `IpcInductive`, `EventsKept`, `HandlerSet`, `UninitSilences`.

*Semaphores and mutexes.*  `Tokens` and `MutualExclusion` need each other's
surroundings: a give changes only one object's account because slots are not
shared (`PoolTight`), and a fresh slot is nobody's because handles stay below
the fill level (`HandlesBelow`).  `MutualExclusion` is a count: the threads
inside a mutex are at most as many as its expired locks, and one more if it is
locked (`LockedAgrees`).  A lock that succeeds adds one and locks; one that
expires adds one and is counted; an unlock takes one out and unlocks, be it the
owner's or not.  A lock for ever cannot expire since it sets no timer
(`UsersHaveObjects`).
`SyncInv` is the conjunction; theorems `SyncInductive`, `SlotsTight`,
`TokensCounted`, `LocksExclude`.

*The pools implement SyncObjects.*  `PoolsUnseen` shows, from `SyncInv`, that
every step of `OsSync` is a step of `SyncObjects` or leaves the mapped state
alone, one lemma per operation (`SemInitMaps` to `UnlockMaps`).  Two facts carry
it: an abstract object can be set up exactly if its handle is known or a slot is
free (`RoomAgrees`: by `PoolTight` the handles in use are a bijection onto the
filled slots, so the number of objects set up is the fill level), and a change
of one slot changes one mapped object (`HeldMaps`).

*Driver and sleeping threads together.*  `PortRunsIpc` and `PortRunsWait` show
that every step of `ModemPort` is, seen from either component, one of its own
steps or a stutter.  So the invariants of both carry over through the lemmas
`IpcStep` and `WaitStep` of their proof modules, and only what ties the two
together has to be shown (`TiedKept`): a walk in the interrupt belongs to the
running handler, and the list exists before an event can come.  That
the handler passes over nobody (`NoSleeperMissed`) is shown on the composition
itself: when the notification starts every sleeper is ahead of the walk
(`NotifyMisses`), a turn posts to the one it leaves behind (`TurnMisses`), and
no other step of the interrupt touches a sleeper.

Theorems `PortInvariant`; `PortImplementsParts`, a refinement of both component
specifications, which makes every safety theorem about them one about the
composition; `PortResultsSound`, `PortSafe`, `PortWalkEnds` and
`PortImplementsWaitNotify` (again for one init, which is what `main.c` does) as
such uses; and `NobodyMissed`.

*Main thread.*  None of the properties of `LteApp` is inductive: what is open or
switched on at a place depends on the calls before it.  `AppInv` says it place
by place: where in a script the thread can be (`ScriptPlace`), which sockets are
open there (`SocketsHeld`), that each AT command behind it has left its mode or
is remembered as failed (`RadioExplained`), and that `status` is what the last
successful scan read (`StatusRead`).  The lemmas `NtpTable` to `GnssTable` read
the scripts, so that no later step looks into them; one lemma per kind of step
keeps `AppInv`.  Theorems `AppInvariant`, `SocketsUsedOpen`, `SocketsLeftOpen`,
`SocketsAreEnough`, `GateHolds`, `GpsModeRight`.

*Services.*  `SideBySide` reduces a theorem about the run of `MCServices` to one
about the component.  `NtpInv`: the query is zeroed when the answer arrives, and
a whole time stamp is the server's bytes.  What the conversion makes of it is
arithmetic to any even base: quotient and remainder are unique (`Unique`), so the
bytes of a loaded word are the bytes it was loaded from (`BytesOfLoad`) and a
word loaded from its bytes is the word (`LoadOfBytes`); swapping in between
takes the network order off (`SwapReads`), and an epoch added and taken away
modulo the word cancels (`OffsetCancels`), which is the overflow of 2036.
`HttpInv`: the modem's count lags behind httpc's exactly
if a send was short, the start lies in the past, no byte is counted twice; the
speed then needs that quotients keep the order and that 8 times the answer and
the seconds of uptime fit the width.  `GnssInv`: every event, copy and output is about a frame that
exists, and the handler's copy is no older than its event; frames may be added
at any moment without disturbing that.  `ZoneInv`: at most one caller is inside,
it saw the free list as it is, and free list, chunks and the units being worked
on make up the zone without overlap.  That the zone is clear of the modem's
regions is arithmetic on the addresses.  Theorems `HttpInvariant`,
`RequestsExplained`, `SpeedsRight`, `GnssInvariant`, `FixesSound`,
`ZoneInvariant`, `ZonesSound`, `NtpInvariant`, `TimesExplained`,
`ServicesInvariant`.

*LCD.*  `LcdControl`: at each place the transfer, byte and bit are in range, the
clock is low wherever another pin is about to move, and from the first
`toggle_vcom` on `vcom` is the level of EXTCOMIN.  `BitsArrive`: the bits the
panel has are those of the bytes sent so far, and those the current byte lacks
are in `dh`, or on MOSI before the clock rises.  The shift moves the second bit
to the first place (`ShiftBits`) and a byte is the weighted sum of its bits
(`SumOfBits`), so that between two bytes the panel has whole bytes
(`BytesArrive`); with the transfers spelled out (`FrameIs`) the end of each one
paints the next line (`PaintsFrame`).  Theorems `LcdControlled`, `LcdInvariant`,
`SignalsHoldStill`, `CommonInverts`.

*Factorization.*  This needs induction, and the library's induction theorems
take a predicate, which the provers here cannot instantiate.  `DecomposeProofs`
states induction of sets instead: `Least` (a set of numbers has a least element,
from the well-foundedness of <), `Induction`, and `Recursion` (a functional that
looks only at smaller numbers has a fixed point), from which `EuclidIs` and
`AdditionsIs` get the recursion equations of the two functions.  `GcdDivides` and
`MulAddRight` are then inductions over the argument that falls: `gcd` is a common
divisor, and the loop of additions leaves the remainder of a * b + c because a
sum of two residues needs one subtraction at most.  For termination `Allowed`
counts the rounds whose `lim` allows a turn (a distance d of the shift with
0 < d < 31, modulo 256); `TurnsCounted` says that each of them has had one, and
`RoundsEnd` that 1000 turns are used up within `MaxRounds`.  Theorems
`DecomposeInvariant`, `AnswersRight`, `SquaresRight`.

Every invariant and every action property of the passing runs, and both
refinements, are stated by a theorem.  Only model-checked is liveness, which is
outside this prover: `WaitReturns`, `EventServed`, `EventWakes`, `IrqEnds`,
`Painted`, `MainSettles`.  Some of their safety half is proved:
`NobodyMissed` and `WalkEnds` are what `EventWakes` and `IrqEnds` rest on besides
fairness, `LcdInvariant` what `Painted` rests on.

`ListUnseen` and `PortImplementsWaitNotify` are about runs with one
`nrf_modem_os_init`.  That is not a convenience of the proof: with two the
refinement is false, for the reason given with `ModemOsWaitRefines`.

## Not modelled

`nrf_modem_os_alloc` and `_free` hand over to the RTOS; `nrf_modem_os_sleep` and
`_busywait` only delay their caller.  The device look-ups of `board_init` happen
once, in a row.  Wi-Fi consists of stubs that print, called under `#if 0`; DECT
of one compiled-out call.  `fpu_test`, `test_thr`, `check_ipaddr`,
`mdx_recv_timeout` and `invertDisplay` are never reached.  Printing and logging
change nothing.  Headers with constants, the start-up jump and the host tools
are not behaviour of the running system.

## Plan

Modelled: every part of the program that keeps state.  Proved: every safety
property of the runs.  What is left is what the tools at hand cannot do: proofs
of liveness from the fairness the specifications state, along the safety
theorems above.
