# Verification of BMO-X: TLA+ models, model checking and proofs

BMO-X is an operating system for x86-64 written in Rust without an operating
system under it. This directory models the part of it that decides who runs, who
may touch what, who answers whom, and how bytes get from one side to the other;
it checks those models with TLC on small instances and proves what it can for
all instances with TLAPS. Paths
below are relative to `src/`; `ring0/` stands for
`Ultra_kernel_x86-64/kernel/src/ring0/`. The names of the code, most of them
Spanish, are kept in the specifications.

Contents: 1 the system, 2 the models, 3 the runs, 4 fairness, 5 the proofs,
6 where code and comments disagree, 7 what is abstracted and what is left out,
8 the plan.

## 1. The system

One CPU schedules (the others are helpers); the kernel is not preemptible inside
a trap handler, because interrupts stay closed from the frame a stub pushes to
the frame its epilogue pops. There are four ways around that rule, and they are
where the hard behaviour lives:

* the bodies of **kernel threads** (shell, bus of the USB, disk, undertaker) run
  with interrupts open, and any tick may take the CPU from them;
* the **door of the GPU** (`dev/respiro.rs`): a system call that waits for the
  GPU opens interrupts for an instant at a time, so other programs run, and can
  be closed, while it is in the middle of its call;
* **memory is shared**: Ring 3 and the kernel share the rings of a channel and the
  word of a futex, and two programs share the slots of a window, each reading and
  writing whenever it likes;
* **the disk works on its own**: an order left in the device lands in memory while
  programs run, and whoever next needs the device finishes it for its owner.

| Component | State | Operations | Interacts with | What is hard | What makes it correct |
|---|---|---|---|---|---|
| Capability table `obj/cap.rs` | slots per pid: live, generation, kind, rights, object | `grant`, `resolve`, `find`, `revoke`, `revoke_all_slots` | every INVOKE resolves a handle here; the death of a process ends here | handles are copied freely; slots are reused; the generation is 16 bits wide | a stale handle opens nothing; a live one opens what it was granted for and nothing disturbs it |
| Scheduler `task/scheduler/` | table of tasks, current, quantum left, ramp (RSP0), frame that the epilogue restores | timer sweep, preemption, wait, wake, park, spawn, exit, close, "delante" | every trap; wakes from channels, endpoints, futexes, interrupts | the table moves at one point and the CPU at another; deadlines against wakes; ranks and compas | table and CPU agree; contexts are whole; ranks are honoured; everyone gets a turn |
| Undertaker `task/enterrador.rs` | the corpse it holds | `tomar_muerto`, `enterrar`, `liberar_ranura`, park | scheduler, allocator of stacks | frees stacks outside the lock while tasks die and are born | no stack in use is freed; every dead task is buried |
| Door of the GPU `dev/respiro.rs` | TITULAR, INTOCABLE, MATAR_AL_SALIR | `entrar`, an instant with interrupts open, `salir`, `con_la_gpu`, `fuera_de_la_gpu` | scheduler (`terminar`), teardown, GPU driver | two tasks at the door, the two seconds of patience, a death that must wait | one holder; nobody dies with the GPU at work on its memory; the death that was noted comes |
| Purge of Ring 3 `core/purga.rs` | list of pids, passes, yields | `limpieza_de_ring3`, `purgar` | scheduler, teardown, door | runs between everybody's steps | capabilities are revoked before the task is marked; the GPU's user is spared |
| Endpoint RPC `obj/endpoint.rs` | endpoints with a queue of sixteen, one reply per thread | create, connect, call, WAIT, reply, `process_died` | scheduler, capabilities, channel of the server | deadline against call, death of either side, queue, ring and table full | a call is answered once, with its answer, and no server sleeps over one |
| Channels `obj/channel.rs`, `platform/shared/bmo-channel` | two rings per channel, head and tail shared with Ring 3 | submit, doorbell, `service_all`, `ring0_complete`, poll | timer (serves), endpoint RPC (publishes) | loads and stores of both sides interleave; indices go round; a budget per beat | FIFO, no entry lost or read half written, no lost wake |
| Windows `platform/shared/verrano/src/lamina.rs`, `bmo-lamina/src/trato.rs`, desktop `laminas.rs` | two slots with a seal each, a sequence, VUELTA (a slot is lent), DUERME | publish, copy, lend to the GPU, let go, sleep, ring | app and desktop, two programs; futex of shared memory | two Dekker protocols over store buffers; the app may die between any two stores | what is shown is a published frame, whole, never an older one; the last one gets there; no slot stays lent |
| Futex, waits `obj/futex.rs`, `task/scheduler` | word in user memory, wait key | wait if equal, wake n | scheduler | a store between the comparison and the sleep | no lost wake-up |
| Memory of a process, loans `obj/memory.rs`, `obj/loan.rs` | accounts of blocks, offers, what is retained of the dead | ask, give back, seal, offer, take, return, wait for a loan, `process_died` of both | teardown, frames, futex-like waits, capabilities | the lender dies while the borrower reads; slots are reused; one loan may hold two blocks | a frame has one owner and goes back once, when nobody sees it; a loan that comes back is noticed |
| Teardown `obj/cap.rs: revoke_all` | seventeen stations | one per object with an owner | everything | the victim may run between stations | nothing is used after its station; nothing is left |
| Physical frames, address spaces `mm/` | bitmap, owners | alloc, free, map | loans, spawn, undertaker | double free, wrong owner | each frame has one owner |
| SMP crew, Ring 3 helpers `core/smp*` | mailboxes of the cores | hand a task, wait, sleep | GPU, audio, Ring 3 | real parallelism; death of the process a helper works for | a task is done once; a helper never outlives its process |
| Disk: one order in flight and its thread `dev/disk/*` | VUELO, COSECHA, EN_VUELO, the thread and its notices | leave an order, harvest it, land it, park | every file operation, scheduler, interrupt | a system call finishes the order of the thread; lost interrupt; an order given up that ends later | a piece lands once and in its place; no buffer goes back while the device writes in it; readers wake |
| Files that arrive by pieces `obj/file.rs`, `obj/cargando.rs` | per slot LARGO and LOAD_CLUSTER; the page of the FAT in memory | open, read, wait, close; the step of the thread | disk | two ways to bring the same piece; closing under way | what is read is the file; loads end |
| ESTRATOS `fsys/` | superblocks, map, files | write, commit, mount | disk | loss of power between two writes | mount finds the old state or the new |
| Network gate `red/` | pass, mailboxes | open, send, receive, death of the holder | teardown | pass handed over at a death | one holder |
| CABINA, desktop, shell, boot, drivers, toolchain, applications | see `PROJECT.json` | | | mostly sequential or pure I/O | |

`PROJECT.json` lists every component with its sources and what is modelled of
it, and under `hazards` every place of this code that a test would hardly reach,
each with the properties that watch over it or the reason why none does yet.

## 2. The models

```
CapTable  <---  CapTableProofs                               who may touch what
Scheduler <---  SchedulerLive, SchedulerPurga, SchedulerProofs    who runs
   ^---- MCScheduler     ^---- MCSchedulerLive              (with kernel threads)
Rpc        <==  Endpoint  <---  EndpointLive, EndpointProofs <--- EndpointPromise
                                                             who answers whom
                   ^---- MCEndpoint                              (with symmetry)
Estuario   <==  Channel   <---  ChannelProofs                how messages travel
Escaparate <==  Lamina    <---   LaminaProofs                how frames get shown
Carga      <==  Disco     <---  DiscoProofs                  how files arrive
Prestamo  <---  PrestamoProofs                               whose memory it is
   ^---- MCPrestamo                                              (with symmetry)
```

`<---` reads "is extended by" and `<==` "is implemented by".

**CapTable** (`obj/cap.rs`). `slots[pid][i]` is `TABLES.slots`; `Grant`, `Revoke`,
`RevokeAll`, `Resolves` and `Finds` are the functions of that name. Each holds
`CAP_LOCK` from its first access to its return, so each is one step. `Revoke`
takes any handle at all, because nothing in the code says that a caller passes
one it was given. Two history variables, `grants` and `issued`, say which grant
of its slot each handle came from and whether it was revoked since.

**Scheduler** (`task/scheduler/roja.rs`, `task/enterrador.rs`, `dev/respiro.rs`).
The module keeps three things apart that the code keeps apart: the table
(`tasks`, `current`), the frame that the next epilogue restores (`trap_rsp`, the
word at `gs:[0x10]`) and what the CPU really executes (`cpu`, with the frames that
lie on each task's stack in `hilo`). `ScheduleLocked` is `schedule_locked` and
only moves the first two; `Epilogo` is the epilogue of a stub and moves the CPU,
noting in `roto` whether a frame was restored twice or below the top of its
stack. A trap handler (`Tick`, `IrqDisco`, `Yield`, `Wait`, `Wake`, `SpawnUser`,
`Entra`...) is one step. A kernel thread takes a step per section of its body
(`Aparca`, `ExitAndPark`, `SpawnKernel`, and the four of the undertaker: `Tomar`,
`Enterrar`, `Liberar`, `AparcarHastaUnMuerto`), and a tick can fall between any
two. A task in the door is in `espera` or `dentro`; `Toma`, `Desiste` and `Sal` are
the ways on. `Entra` stands for every call that goes through the door: an order
to the GPU, giving back memory or the screen (`con_la_gpu`, `fuera_de_la_gpu`), the
caller's own EXIT or fault, and OP_CERRAR of a child, because `revoke_all` passes
the door too when the GPU looks at the canvas of the dead process. `caps` says which
processes have live capabilities: `Spawn` gives them (`seed_init`), any system call
may end in a `grant` to its caller (`Concede`), `Revocada` is what the last station of
`revoke_all` takes away, all at once and after any wait at the door.

**SchedulerLive** adds the flag `tic` that tells beats of the timer from steps
that change nothing, and the fairness of section 4. **SchedulerPurga** adds the
three passes of `limpieza_de_ring3` (`Apunta`, `Revoca`, `Marca`) and the yields of
`purgar` (`Cede`), run by the shell between the steps of everybody else.

**Rpc** is what endpoint RPC promises, with no queue indices, frames, keys or
capabilities: a call is in the queue of one endpoint, then in the hands of one
server, then answered. **Endpoint** (`obj/endpoint.rs`, and the WAIT and INVOKE
cases of the dispatcher) is the code: `eps` is `ENDPOINTS`, `resp` is `RESPUESTAS`,
`caps` the capabilities on endpoints and calls with their limit per process,
`tarea` the state and wait key of each thread, `frame` what the saved registers of
a caller hold, `anillo` the completions in the server's ring that it has not read.
The death of a process is two steps (`Muere`, `Termina`), because its endpoints
close at station 2 of `revoke_all`, its capabilities go at station 16, and the
door of station 3 lets others run in between. **EndpointLive** is the pair of
programs of `rpc-demo`.

**Estuario** is two FIFO queues. **Channel** (`bmo-channel/src/lib.rs`,
`obj/channel.rs`) is the page with the two rings that implements them. Ring 3 takes
one step per word it loads or stores (`Submit`, `EscribeOpcode`, `EscribeArgs`,
`PublicaHead`, `Doorbell`, `Poll`, `LeeUna`, `PollAcaba`); a beat of the timer
(`Service`, one `Process` per request, `ServiceEnds`) may begin between any two of
them and Ring 3 stands still while it lasts, as on one CPU it does. Stopping for
good between two stores is the death of the client. `Complete` is what endpoint
RPC publishes in the ring of a server.

**Escaparate** is what a window promises: the app publishes frames, the desktop
takes the one that is published and shows it or lets it go. **Lamina**
(`bmo-lamina/src/trato.rs`, `verrano/src/lamina.rs`, the desktop's `laminas.rs`, the
loan to the GPU in `gspcubo`) is the code over memory with a store buffer per
side (`mem`, `buf`, `Drena`): a fence is an empty buffer, so a protocol that needs
one and lacks it fails. The app may die anywhere (`Muere`), with any part of its
buffer unmade. A drawing fails in four ways, each with what the desktop does next:
a lent slot (`FallaPrestada`: it is let go, and from then on frames are copied), a copy
on the GPU (`FallaCopia`) and a GPU that is given up before it reads anything
(`Desiste`), after which the CPU draws that frame too and every later one (`Decir`);
and the CPU, that refuses a frame of no vertices (`Rechaza`): that one counts as seen
and is shown by nobody. An app may publish such frames (`verrano/src/lamina.rs:285`);
`Vacios` says which ones do it. The scheduler runs both programs on one CPU today, and what Lamina
allows contains that.

**Disco** (`dev/disk/vuelo.rs`, `hilo.rs`, `obj/cargando.rs`, the slots of
`obj/file.rs`) is one device with one order in it, a thread of the kernel that
leaves orders and goes to sleep, and system calls that need the same device at
any moment. **Carga** is what it all comes to for the programs that wait for a file
(`ARCH_OP_LISTO` and WAIT): per slot, the pieces that may be read, whether more may
come, and who sleeps. A system call is one step, because interrupts are closed in it;
`Cosechados` is what it must do first with the thread's order (`cosechar`: spin to
the end, or give up), and `Ordenes` what its own order may come to. `Contesta` is
the device: an order ends well or badly, and its interrupt comes or is lost. The
thread has two steps a turn (`Lee`; then one of `SigueEsperando`, `PideDatos`,
`PideFat`, `NoSePudo`, `SinTrabajo`) and two to park, because notices may come
between any of them.

**Prestamo** (`obj/memory.rs`, `obj/loan.rs`, their cases in the dispatcher, stations 9
and 10 of `revoke_all`) is the memory that programs ask for and lend to one another,
which is how a window gets to the desktop. `cursor`, `bloque` and `sellado` are
`CUENTAS`, `retenidos` is `RETENIDOS`, `oferta` is `OFERTAS`; `pagina` and `ventana` are what
the page tables of each process show at the addresses of its blocks and in the
window of each slot of loans; `propio` and `prestado` are its handles. Each system
call is a step (interrupts are closed in it): `Pide` and `PideEnVano` are `request`,
`Ofrece` and `Toma` are `offer` and `take`, `Devuelve` is OP_SOLTAR, `NoSuelta` and `Suelta`
the two answers of `soltar`, `Sella` is `sellar`, `Espera` and `Vence` a WAIT on a block and
its deadline. `devuelto` (with `liberar_retenido`) is what every loan that comes back goes
through. A death is `Muere`, then one step per slot of loans (`MuerePrestamo`) and
one for the accounts (`MuereMemoria`), and nobody else runs until the last. The
sequence of a block is kept as what it is for: `espera` says of which block a
process was told that it is lent, until that sequence moves.

## 3. The runs

Runs that must hold:

| Run | What it shows | Bounds, and why they are enough |
|---|---|---|
| `cap` | No history of grants, revocations and deaths lets a handle open what it was not granted for, or anything after its grant ended; stale revocations disturb no live capability; `find` answers what is held | One table of two slots, so that "first free" has a choice, and a pid beyond the table; generations 1..2 and three grants a slot, so that the counter goes round and `NotRoundYet` turns false; two kinds on one object, so that they can be confused. One table is enough because no operation touches two |
| `sched` | Table and CPU agree after every step, contexts are saved whole, no stack in use is freed, no death comes with the GPU at work, nor to a program that has capabilities left, ranks are honoured | The three tasks of boot and two more at a time, of three in all: a slot is reused; a program, the bus (rank 2, with a compas) and the disk (rank 1) meet in every pair; one is in the door, one waits at it, and a third comes after one died. Deadlines and punishments of up to two ticks: with one, the idle thread never keeps the CPU past a wake (section 6) |
| `sched_live` | Every ready task runs, every dead one is buried, a noted death comes about | Two programs, quanta 2 and 3, with the door |
| `endpoint` | A call is in one place, is answered once, and its caller sees the answer to that call; the code implements the promise of `Rpc` | Three processes that are client and server of themselves and each other, one endpoint that is reused, a queue of two that fills, goes round and loses its server with both in it; two calls each, so that an old answer could be taken for a new one; three capabilities and a ring of one, so that both fill |
| `endpoint_live` | A call that was let into the queue comes back | Three clients that call without end through a queue of two; generations go round |
| `channel` | The rings are two queues: in order, once, whole; nobody sleeps over a completion; every request that was rung for is served, or there is no room for its answer | Rings of two and four messages: they fill and go round twice; a budget of one, so that every beat leaves work behind; limits of one and two in a poll |
| `lamina` | What is drawn is a published frame, whole, lent slots too; no wake is lost; the last frame published that has anything to draw gets to the window, whatever failed before; what is lent comes back | Four frames: each slot is written twice, once over a frame that was shown. The second is empty: the first shows a window before it, and two come after it, one in each slot, so that they are drawn by whatever the empty one left behind |
| `disco` | What is read is the file, no buffer is given back under the DMA of an order somebody answers for, and who sleeps on a file wakes; the code implements the promise of `Carga` | Two slots, two opens (so that one is reused, or two loads run), files of two orders, two pages of the FAT, one written file closed: its FLUSH meets an order of the thread in every state. Closing written files without end would starve the loads, as any reader of the disk does |
| `prestamo` | A frame has one owner, or is free and nobody sees it; what each process sees is its own or lent to it; a loan that comes back wakes who waits for it and frees what only it retained; handles answer for their own loan | Three processes, so that a lender may die with two borrowers and a borrower with two lenders; two frames, two addresses and two slots of loans, so that each is used up and reused (a frame and a slot), and both loans of a block meet; two blocks a process; offers stay in their block (section 6) |

Each property is broken by at least one mutant of the code (`mutants` in
`PROJECT.json`): a guard that is dropped, a swapped order, a reset that is missing.
The mutated definitions stand beside the ones they mutate.

Deadlock is checked in the runs of the capability table, the scheduler and the
disk, where something can always happen. It is not in that of `Prestamo` (all processes
may have died), nor in those of `Endpoint` (every
process may have exited, or wait for another), of `Channel` (the client may have
sent its last message and read all) and of `Lamina` (the app stopped and the
desktop showed its last frame): there the system really stops.

The three runs that must fail, each with its entry in `findings`, are told in
section 6.

## 4. Fairness

`SchedulerLive` assumes:

* *the timer beats* (weak fairness of `tic`): it is a hardware timer, and
  interrupts are closed only in handlers that end;
* *the undertaker gets on whenever it has the CPU again and again* (strong):
  its sections are short loops without waits;
* *a kernel thread other than the shell ends its turn by parking* (strong): they
  are all loops that end in `park_until` or `aparcar_en`;
* *a task in the door gets out* (strong): `entrar` gives up after two seconds,
  and every order to the GPU has a deadline of its own.

Programs are asked for nothing: one may compute for ever, and `EveryoneGetsATurn`
holds for the others all the same. It says that a ready task runs (or dies) in the
end; it is checked without kernel threads that beat, for the reason that
`sched_bus` shows.

`EndpointLive` assumes weak fairness of each step of the server, which is what
the scheduler gives a ready task, and nothing of clients. `EveryCallComesBack` is
therefore about servers like that of `rpc-demo`, that answer each call before they
wait for the next; one that keeps a call to itself is allowed by the code and is
not an error of the kernel.

`Channel!FairSpec`: the timer beats (weak fairness of `Service`), and a beat ends
(`Process`, `ServiceEnds`; a loop with a budget). Nothing is asked of the client.
`EveryRequestServed` therefore says "or there is no room for its answer": a client
that does not read its completions stops its own requests, as the code intends.

`Lamina!FairSpec`: stores reach memory in the end (the hardware), and the desktop
goes on with its turns (a program that is ready gets the CPU: `EveryoneGetsATurn`).
Nothing is asked of the app, which may stop or die; a frame *it published* is
shown all the same. Nothing is asked of the GPU either: its drawing of a copy may
always fail (`FallaCopia` is a turn of the desktop as `Dibuja` is, so no GPU that works
is taken for granted), and a lent slot is let go by one of `Dibuja` and `FallaPrestada`.

`Disco!Spec`: the device answers in the end, well or badly (`Contesta`; orders that
are given up too), and the thread goes on with its turns (`Hilo`: it has rank 1,
above every program, and the deadline of its sleep, `RED_MS`, is the timer's). That
its interrupt comes is *not* assumed.

## 5. The proofs

`CapTableProofs` proves, for any number of processes, slots, kinds, objects and
rights and any width of the generation, from `SizesAssumption` alone:

| Theorem | Property |
|---|---|
| `TypeCorrect` | `TypeOK` |
| `StaleHandles` | `StaleHandleIsDead`: a revoked handle opens nothing until the counter has gone round |
| `OwnGrant` | `HandleOpensItsOwnGrant`: what opens is what was granted |
| `LiveHandles` | `LiveHandleStillOpens`: nothing that others do disturbs a live capability |
| `FindAnswersTheHolder` | `FindIsWhatIsHeld`: `find` answers who holds, with what he holds |

None of the properties is inductive: from a state in which the generation of a
slot has nothing to do with the grants it saw, one grant may bring an old handle
back to life. `IInv` adds what ties them together. `Distance` says that the
generation of the slot lies as far from that of an issued handle as there were
grants in between, or one whole round less; while fewer than `GenMax` grants lie in
between, the generations are therefore equal only for the latest grant.
`LatestGrant` says what the slot holds for the latest grant: it is live exactly
while that grant is not revoked, with its kind, rights and object.
`HandleWellFormed` and `GenerationsStarted` say that generations start at 1 with
the first grant, so that a handle with generation 0, which `resolve` refuses, is
never issued, and `LiveSlotsAreHeld` that no slot is in use without a grant in force, which
is what `find` needs. Each action has its lemma (`GrantIInv`, `RevokeIInv`, `RevokeAllIInv`),
with a step for the slot it touches and one for all others; `Inductive` puts them
together, and the theorems follow from `IInv` state by state.

`ChannelProofs` does the same for every size of the ring and every budget:

| Theorem | Property |
|---|---|
| `TypeCorrect` | `TypeOK`, which says that what is in flight fits in each ring |
| `BellIsUp`, `SleepersAreTold` | `BellTellsOfWork` (no run repeats it: `EveryRequestServed` rests on it), `NoCompletionSleptOn` |
| `RingsAreQueues` | `KeepsTheQueues`: `Channel` implements `Estuario` |

`IInv` is `TypeOK` with the four facts that each side relies on without looking:
there is room for the entry being written (`RoomForOne`), the head a poll or a
service read is still at or before the real one and its tail no further
(`PollWithin`, `ServingWithin`), and a service that processed anything will wake who
sleeps (`ServiceWillWake`). The refinement needs one more invariant, `SlotInHand`:
the entry being written lies outside of what was published. What a ring holds
between two indices is a sequence (`Entre`), and the lemmas about it say when a
store leaves it alone, lengthens it at the end or shortens it at the front; that
two indices less than a ring apart are in different slots is where the size of the
ring counts.

`EndpointProofs`, for any processes, endpoints, queues, capabilities and rings:

| Theorem | Property |
|---|---|
| `TypeCorrect` | `TypeOK` |
| `NobodySleepsOverACall` | `NoCallSleptOn` (no run repeats it: `endpoint_live` stops without it) |
| `AnswersAreToTheCall`, `NobodyAnswersTwice` | `AnswerIsToThisCall`, `OneAnswer` |

The first two follow from `Base` alone. The last two have the hypothesis `SinVuelta`,
`MaxCalls < GenWrap`: fewer calls than the generation of a reply can count. Without
it they are false (section 6). Their invariant, `Llamadas`, says how an
answer finds its way: a generation that is out was dispatched (`Despachadas`); who
sleeps on a reply sleeps on the one of its latest call (`EsperaDormida`); every
answer and capability is of a call made before (`DeAntes`); a call in a queue is of
a process that waits for it (`EnColaEspera`), is in one place (`UnaCola`), and is in
the hands of one server or of none (`EnMano`, `UnaMano`).

`EndpointPromise` proves that `Endpoint` implements `Rpc` (`ThePromiseIsKept`, of
property `KeepsThePromise`), with the hypothesis `SinRepetir`, `MaxCalls < GenReply`:
a reply whose object no longer tells its generation is dropped, and its call is
then in nobody's hands, which the promise does not allow. Two facts join the
invariant: nothing waits in an endpoint that is not alive (`Cerradas`: it would come
back to life with `create`), and generations are those of calls made (`Contadas`).
`Sitio` says where a call is in the terms of the mapping, `FaseYQuien` what the
mapping makes of it, before a step and after, and there is one lemma per action:
`call` is Pide, `wait_for` is Coge, `reply_to` is Contesta or nothing, the two halves
of a death are Cierra and Abandona, and the rest moves no call (`NadaSeMueve`).

`SchedulerProofs` proves every property of run `sched`, for any number of slots,
tasks, keys and kernel threads and any quanta and deadlines, with or without GPU,
from `SizesAssumption` alone:

| Theorem | Property |
|---|---|
| `TypeCorrect`, `TableAndCpuAgree` | `TypeOK`, `CpuIsCurrent` |
| `ContextsAreWhole`, `RampsAreOwn` | `SavedContextIsWhole`, `OwnRamp` |
| `StacksInUseStay` | `NothingDangles` |
| `DoorHolds`, `DeathsWait` | `DoorIsOneTasks` (no run repeats it: `DeathWaitsForTheGpu` breaks with it), `DeathWaitsForTheGpu` |
| `CapabilitiesGoFirst` | `CapabilitiesDieFirst` |
| `RanksAreHonoured` | `RankHonoured` |
| `OneHasTheLongTurn` | `OneInFront`: `delante` leaves one long turn at most, whatever was born or buried in between; it is proved, and no run repeats it |

The hard part is that a trap handler changes the table many times before its
epilogue moves the CPU once, and none of the properties holds in between. The
argument follows the handler. *Marks* (waking, putting in front, noting a death)
change words of tasks and leave every frame where it is (`Misma`, `Marcada`). *The
turn* takes the table from `Antes` (the current task's frame is the one the trap
pushed) to `Despues` (the chosen one's frame is the one the epilogue will pop) in
`Entrega`, and `Epilogo` from there to a sane state again. Births and burials change
one slot that nobody is in. The inductive invariant is `IInv`: `Base` (a good table;
the CPU executes the current task; each task has a stack of its own, each saved
frame lies on the stack of its task, at its top, once; the ramp is the current
task's), `Nacidas` (who was not born has no stack, frame or claim), `Puerta` (what
TITULAR, INTOCABLE and MATAR_AL_SALIR say of the tasks at the door: who holds it is
inside), `Muertes` (a task whose death waits there has no capabilities left) and
`Pilas` (a stack to be freed is of a task that will not run again, and a corpse in the
undertaker's hands is nobody else's). The action properties follow from it step by
step: `MuereFuera` says where the tasks that a step kills stood, `MuereSinCaps` that they
have no capabilities after it, and `Postergados` what a turn leaves behind. The
second is where a death that is noted counts: between OP_CERRAR and the way out of
the door any number of steps go by, and the one that is to die is granted nothing in
them because it is inside (`Puerta`), in the middle of a system call.

`DiscoProofs` proves the safety of run `disco`, for any number of slots, of orders a
file, of pages of the FAT and of files opened, from `DiscoAssumption` alone:

| Theorem | Property |
|---|---|
| `Typing` | `TypeOK` |
| `WhatIsReadIsTheFile` | `BytesAreTheFiles` |
| `NoBufferUnderFlight` | `BufferOutlivesFlight` |
| `ReadersSeeTheirLoads` | `ReadersSeeTheLoad`: `Disco` implements `Carga` |

The order of the thread may be finished in four places (the interrupt, a system
call that takes the disk, `avanzar` or `soltar` closing the flight, the thread
itself), so the invariant says what EN_VUELO knows wherever the order is. While it
is in the device it is the order of the next piece of a file still open; once over
and well, in VUELO or in COSECHA, the piece is in its place and nobody counted it
(`VueloSano`). With no kind in VUELO the port is free or goes on with an order that
was given up (`PuertoSano`), and a load under way is of an open file and its cluster
follows what it counts (`CargaSana`). A system call takes the port and the loads
through several hands before its step ends, so these are stated of any port,
loads and flight, and each operator (`Acaba`, `Cosechados`, `Esperados`, `Ordenes`,
`Aplica`, `Llega`, `CerrarVuelo`, `Tras`) has a lemma about what it keeps.

The refinement maps a slot to what its program sees: held or not, the `LARGO` first
places of its buffer, `hay`. One step of Disco may land the piece of one slot and
cut another (`Trabaja`), or land a piece and bring the next (`Leer`), so the lemmas
say what each operator on the loads brings to each slot (`Avance`: nothing, or news
that leaves nobody asleep on it) and that such steps compose (`AvanceSigue`). That
the pieces seen are those of the file comes from the invariant (`LoQueSeVe`). A page
of the FAT that fails to come cuts a load that may have ended meanwhile; that this
is nothing new to its program needs one more fact, that nobody sleeps on a load
that ended (`NadieEnVano`), which the steps of Carga themselves keep.

`LaminaProofs` proves the safety of run `lamina` for runs without end (the bound on
frames plays no part, and no assumption is used):

| Theorem | Property |
|---|---|
| `TypeCorrect` | `TypeOK` |
| `LentSlotIsUntouched` | `LentSlotUntouched` (no run repeats it: `FrameIsWhole` breaks with it) |
| `DrawnFrameIsWhole` | `FrameIsWhole` |
| `WakeIsNotLost` | `NoWakeLost` |
| `LaminaShowsThePublished` | `ShowsThePublished`: `Lamina` implements `Escaparate` |

It has two halves. The first is about store buffers and knows nothing of laminas:
`Ultima` is what a load gives of any memory and buffer, and the lemmas say that a
store put at the end is what its own side sees (`UltimaAlFinal`), that the oldest one
getting to memory changes nothing for its side (`UltimaAlFrente`), and what dying in
the middle leaves (`AlCortar`). The second is the invariant. Of the app (`LaApp`): the
stores on their way are the two words of the *next* frame, the seal of its slot is
odd in memory until they are in, and the sequence comes after them
(`DatosDeLaSiguiente`, `UnaSecuencia`); so the published frame is whole in its slot
(`PublicadaEntera`), and the next will be when its sequence arrives
(`SiguienteEntera`); the app sees a seal odd exactly while it is inside
(`SellosAlDia`). Of the desktop (`ElEscritorio`): from the moment that it saw VUELTA in
memory and an even seal, the app is out of the slot and has nothing on its way to it
(`PrestamoFirme`: this is where both fences are needed); a copy is of its frame
while that frame is the one that is published (`CopiaFirme`); DUERME is in memory
since before the last look (`SuenoFirme`). `EscQuieto` and `AppQuieta` say which steps of
one side leave the facts of the other alone, and there is a lemma per action.

A by-product of the proof: `FrameIsWhole` of a copy does not use the second look at
the seal (`Intacto`). The frame that is published cannot be written over before the
next is published, so the look at the sequence that follows (`Vigente`) is enough;
`Intacto` saves drawing time, not correctness.

`PrestamoProofs` proves what run `prestamo` checks, for any processes, frames,
addresses and slots, from `PrestamoAssumption` alone:

| Theorem | Property |
|---|---|
| `TypeCorrect` | `TypeOK` |
| `FramesHaveOneOwner` | `FrameHasOneOwner` |
| `HandlesAreTheirLoans` | `HandleIsItsLoan` |
| `ReturnsAreNoticed` | `ReturnIsNoticed`, while offers stay in their block (`~SePasan`) |

The first three hold whether or not programs offer pieces that leave their block:
that error loses frames, it never gives one to two. `FrameHasOneOwner` is not
inductive, because it says nothing of what a window will show once its lender is
dead and its frames are freed. `IInv` adds the state of each offer (`OfertasEnOrden`:
nobody is offered anything by the dead, who took something lives), that accounts,
pages and handles of a process go together (`CuentasEnOrden`: a block that is given
back was unmapped first), that a frame is in one block, retained once, or free
(`UnSoloDueno`: what is retained is of the dead, so that a death never retains twice),
and that every frame in a window is of a block that the loan holds, in the account
of its owner or retained of it (`VentanasEnOrden`). The last is where the order of the
stations counts: the loans of the dead are settled before its memory is, so
`hay_prestado_en` sees just those that somebody reads; and where
`liberar_retenido` must ask again: the loan that came back may not be the only one.
`ReturnIsNoticed` needs `Tramo` to be one address, which is what `~SePasan` says, and
then each of its two halves is kept by `devuelto`, because the offer is cleared before.

Only model-checked: the violation runs, the purge among them, and liveness
(`EveryoneGetsATurn`, `DeadAreBuried`, `NotedDeathComes`, `EveryCallComesBack`,
`EveryRequestServed`, `PublishedIsShown`, `LentIsReturned`, `ReaderWakes`), which the
prover does not reach. Every other property of a passing run has a theorem.

## 6. Where code and comments disagree

Each of these is the counterexample of a run:

| Run | What happens |
|---|---|
| `sched_bus` | `choose_next` starts its round at the current slot. The bus beats every 4 ms and a quantum is 4 ticks: when the bus preempts a program in the tick that ends its quantum, the round starts at the slot of the bus and the same program is chosen again, for ever |
| `purga_cede` | `purgar` calls `yield_current` from the body of a thread: no trap published its frame and no epilogue follows, so the table says one task and the CPU runs another |
| `disco_lejos` | Two loads whose chains lie in different pages of the FAT: the thread brings the page of one, goes on with the other, whose page it lacks, and brings that: no data is ever asked for (`cargando.rs:280`, `:289`; `plan.rs:82`) |

These are in the models as the code has them, and no property of a passing run
says otherwise, but no run of their own shows them:

* `StaleHandleIsDead` has the proviso `NotRoundYet`: after 65535 grants of its slot a
  stale handle opens again (`cap.rs:206-208` promises without it);
* `con_la_gpu` and `fuera_de_la_gpu` terminate the caller whose death was noted and
  return to its program, that runs on as `Exited` until the next trap that
  switches (`respiro.rs:190`, `:209`); `Entra` and `Concede` let such a task call. Neither
  the dispatcher (`syscall/mod.rs:1285-1356`) nor `grant` (`cap.rs:279`) refuses it, so
  it may be granted capabilities after its own were revoked, and nobody revokes
  those: `DeadHoldNothing` of `Scheduler` is false (`syscall/mod.rs:236-237`:
  "Capabilities die with the process; every outstanding handle becomes invalid
  before the final switch"). TLC shows it when the property is added to the
  INVARIANTS of `MCScheduler.cfg`: a program gives back memory, its parent closes it
  while it is in the door, it leaves, dies, and asks for something. What does hold
  is `CapabilitiesDieFirst`: when it died it had none. The purge notes a death in the
  door without revoking (`SchedulerPurga`, below), so that is claimed without it;
* a task that enters the door after pass 1 of the purge is marked by pass 3 with
  the GPU at work (`roja.rs:1320`);
* a task noted by the purge in the door by `con_la_gpu` or `fuera_de_la_gpu` dies on
  leaving it without `revoke_all` (`roja.rs:1290-1291` says that cannot be);
* `expropiar` treats the idle thread as a task of rank 0 with a quantum of its own:
  a program woken by a channel in the tick, or whose deadline falls in the first
  tick of idle, waits behind it for up to three ticks (`roja.rs:716-731`,
  `turno.rs:38-43`; `roja.rs:184-187` says that idle is the last resort, and
  `dormir.rs:436-438` that it runs when nobody else wants the CPU). `RankHonoured`
  says exactly that much and no more;
* the object of a reply keeps 16 bits of a 32-bit generation: from the 65536th
  call of a thread on, its answers are dropped (`endpoint.rs:284`);
* the replies are a table of 64 indexed by `tid` (`endpoint.rs:118`), and `tid` only
  rises (`roja.rs:903`): from the 63rd thread that is born on, every call of a new
  thread is answered `ERROR_ENDPOINT_DEAD` (`endpoint.rs:176-178`), with the table of
  tasks nearly empty too;
* the endpoint of a dead server is given to the next one, and old clients call it
  unknowingly (`endpoint.rs:145`; `ENDPOINT_RPC.md:61` says it stays a tombstone);
* the call of a client that died asleep stays in the queue (`endpoint.rs:398`;
  `ENDPOINT_RPC.md:60` says it is withdrawn);
* with the ring of the server full, WAIT takes a call and its words are lost
  (`endpoint.rs:305`);
* `NobodyWaitsForTheDead` of `Endpoint` is false: `process_died` wakes the callers in
  the queue, so the one whose call the dead server had already taken sleeps for ever
  (`endpoint.rs:398`; `endpoint.rs:393-394` says "todo el que estuviera esperando
  respuesta despierta con `ERROR_ENDPOINT_DEAD`"). TLC shows it when the property is
  added to `MCEndpoint.cfg`; the promise `Rpc` has it as `Abandona`;
* `RetainedIsHeld` of `Prestamo` is false in `MCPrestamo.cfg` with `SePasan` TRUE
  (put in the place of `ReturnIsNoticed`, which fails there too):
  PRESTAR compares the piece with the sum of the caller's blocks
  (`syscall/mod.rs:1036`), not with the block where it begins, so an offer may run
  into the next block. When its owner dies both blocks are retained, the return looks
  for the block where the loan starts only (`memory.rs:1155`, `:1178`), and the other
  never goes back (`loan.rs:168` promises an error when "`desde + bytes` se sale del
  bloque que el kernel entrego"; `memory.rs:858-867` tells of the same comparison put
  right in LEER_EN). Eight steps: two blocks asked for, the offer, the take, the three
  stations of the death, the return;
* `SealedIsNotLent` of `Prestamo` is false in `MCPrestamo.cfg`: SELLAR asks only for
  loans that somebody took (`memory.rs:1003`) and `take` does not ask for the seal, so
  a block offered, then sealed, then taken is executable here and written there
  (`memory.rs:160-163`: "Los cuatro se niegan con un bloque sellado ... si no, W^X
  seria mentira"). Four steps;
* the client's side of a lamina says that what it reserves may be a whole frame but
  a later one (`bmo-lamina/src/trato.rs`); over the memory of an x86 it is always the
  frame it reserved, and `FrameIsWhole` says so: a comment that is too careful;
* that a writer on an x86-64 only has to write in order, "sin barreras"
  (`bmo-lamina/src/trato.rs:90-92`, `verrano/src/lamina.rs:76-78`), was so before VUELTA and
  DUERME: the paragraph above the first asks for the SeqCst fence, the code of both
  sides has them, and without either the model breaks (`HayQuienDuermeSinValla`
  loses a wake). Store then load is the one order that TSO does not keep;
* a published frame of no vertices moves its window from the GPU to the CPU for
  good: the GPU refuses it (`verrano/src/lib.rs:273`), `decir` gives the GPU up
  (`laminas.rs:309`), the CPU refuses it too and takes it for seen
  (`laminas.rs:370-374`). The app may publish it (`verrano/src/lamina.rs:285`). The
  frames that follow are shown (`PublishedIsShown`), by the CPU.

And these were met in the code around the models, in what the models leave out:

* a kernel thread that opened the disk and lost the CPU to a tick leaves it taken,
  and a system call, or the thread of the disk, then spins for it with interrupts
  closed: for ever (`session.rs:33-51` launches the desktop from the shell; the
  argument of `vuelo.rs:14-16` is about system calls only);
* `mandar_lectura` removes the DMA mark of its buffer after a timeout too, when the
  device has not answered (`transfer.rs:295-314`, against its comment);
* after the two seconds of `cosechar`, `vuelo.rs:265-268` trusts the judge of DMA to
  reject a reassignment of the frames; neither `free_frame` nor `alloc` look at the
  mark. `BufferOutlivesFlight` excludes orders that were given up for this reason;
* a port that met an error would need PxCMD.ST cleared, which the driver never does
  (the model's device answers again);
* the purge releases files from a thread with interrupts open: `release` clears the
  owner of a slot before its length and chain (`file.rs:1005`, `:1006`, `:1024`), and a
  program that opens the slot in between gets a file that is empty or out of place;
* a request of memory that fails after its frames were taken (no address left,
  no table, no handle) undoes the pages and gives the frames back to nobody
  (`memory.rs:629`, `:643`, `:713`); `PideEnVano` has it so, and no comment denies it;
* an offer to a process that is dead but not buried is accepted (`pid_de` looks for
  slots that are not empty), and no offer to a process is withdrawn when it dies: it
  keeps its slot until its owner takes it for another offer to the same pid or dies;
* `take` takes the first offer there is for the caller; if a page of it is gone (its
  owner gave the block back meanwhile) it fails, and goes on failing for the offers
  behind it (`loan.rs:278`);
* drawing from a lent slot that ends in "escalera de finalizacion incompleta" lets
  the slot go though the GPU may still read it; a desktop that dies with VUELTA
  set leaves the app one slot less, and the next desktop clears it;
* every program holds all sixteen channels (`admitir.rs:47`), so two programs that
  submit to one break the single-producer contract of the ring by themselves.

The passing runs do not look away from the first list: `endpoint` includes servers
that die with calls in their hands, reused endpoints, dead callers and full rings,
and `sched` dead tasks that go on. Two behaviours of that list are kept out of them
by a parameter: replies that no longer tell their call, by `GenReply = GenWrap`
(fewer than 2^16 calls) in the runs of `Endpoint`; and offers that leave their block, by
`SePasan = FALSE` in `prestamo`, where with TRUE both halves of `ReturnIsNoticed` are false:
`devuelto` frees what is retained of, and moves the sequence of, only the block
where the loan starts, so who waits on the other is not woken either. The two
behaviours of the purge are out of the passing runs because the purge is
(`SchedulerPurga` has no passing run).

## 7. What is abstracted

* *Capabilities*: the tag bit of a handle is a function of its kind; pids are never
  reused in the model, as in the code until `next_pid` goes round (a hazard).
* *Scheduler*: `reap` on a boot without undertaker, the accounting of cycles, the
  seals at the bottom of stacks, CR3 and GS are left out. What a compas sets aside
  is any number of ticks up to `MaxAparte`. Deadlines are kept as ticks to go. `Tid`s
  are not reused, and the pid of a process is taken to be the tid of its one thread.
  `spawn_user` and `seed_init` are one step, which they are in the system call that
  launches a program; launched from the shell (`session.rs:33-51`) a tick may fall
  between them (`admitir.rs:1143`, `:1146`).
* *Door*: what the GPU does inside. That `revoke_all` passes the door or not is a
  free choice, since it depends on what the GPU looks at. A fault that waits there
  publishes the frame of its own stack when it comes back; the code puts back the
  word it found (`respiro.rs:99`, `:110-112`), which nobody reads before the next
  switch writes it. `OwnRamp` says nothing of faults for that reason.
* *Purge*: called from the shell; the rescue key of the bus thread takes the same
  path. Its `revoke_all` is taken not to pass the door.
* *Endpoint*: words of messages; rights; families (anyone may close anyone, which
  is more than the code allows); a client connects once to each server; a
  process under way to its death is not closed a second time (`tarea.rs:104-122` allows
  it, and finds nothing left to close); a thread whose number is beyond the table of
  replies is refused at once (`endpoint.rs:176-178`, section 6): a step that changes
  nothing, so every client here is one of the first 62 threads; channels carry only the completions of calls; the sequence number that WAIT compares
  cannot move inside one system call and is left out.
* *Channel*: one client; the words of a message are one number (`arg`), written
  after the opcode as in the code; indices do not wrap. They are 64 bits wide and
  the ring has 62 places (`bmo-channel/src/lib.rs:40`, `:61-67`): differences are compared
  with `wrapping_sub`, but an index is reduced with `% 62`, which does not divide 2^64, so
  a wrap would skip places; at an entry per nanosecond it is 584 years away. Helper
  CPUs that would run Ring 3 during a beat are left out.
* *Lamina*: two words stand for the pixels; the sequence does not wrap to 0, which
  means "none". After a loan that failed the code copies; the model lets it choose
  from the start; whether the GPU is ready and its width fits (when not, the CPU draws
  that turn) is a free choice too. The bench's reader and the window's share one
  `vista`, and are one. A frame with more vertices than the desktop takes (`Mentira`), a
  window that does not fit the desktop's image and a CPU without memory for it are
  refused without counting as seen and tried again each turn: they are left out,
  and so are windows that are minimised or gone. A frame is empty or can be drawn:
  the writers publish whole triangles only (`verrano/src/lamina.rs:285`,
  `toolchain/lang/titan/emisor-x86_64/src/e1/director.rs:357-359`).
* *Disco*: the interrupt is folded into `Contesta`; an interrupt that a poll consumed
  wakes nobody and is one that was lost. Every piece of a file takes one order and
  goes by the thread. `PideDatos` needs the page of the FAT in memory also for the last
  orders, where the code stops before it reads an entry once the file is covered
  (`plan.rs:210`): progress is asked of the stricter one. Pages of the FAT are numbered in the order in which files
  fall in them. Kernel threads that use the disk are left out (section 6).

* *Prestamo*: a block is one unit long and the window of a loan a set of frames;
  the 16 accounts and the 128 places of what is retained never run out; a handle
  is the address or slot it names (`CapTable` is about handles), and a full table of
  capabilities is a `request` or a `take` that fails. The seal covers the whole block
  (`MEM_OP_SELLAR_HASTA` seals a prefix). The seal's PTEs are not kept: a page is seen
  or it is not. Images and reserves are memory of one process that is never
  lent. The victim of a death does not run again: a child closed while it is in the
  door of the GPU, and the victims of the purge, may (hazards of `tarea.rs:121`;
  `memory.rs` frees frames under page tables that it takes nobody to use).

### Not modelled

`PROJECT.json` lists the rest of `components`, each with its reason. The repository
is 573,000 lines of implementation: most of it is a toolchain (compilers for six
languages, assembler, linker, with tests of their own), user space (libraries,
desktop, games), drivers whose work is the order of register writes of one device,
parsers, and documents. Of those the state is sequential, or lives in hardware
that the repository does not describe. What is modelled is the concurrent core of
the kernel, some ten thousand lines, of which the definitions translate about a
third; measured over the whole repository that is, and stays, a small share.

## 8. The plan

Most important first; 1 to 7 are done.

1. `CapTable`, `CapTableProofs`.
2. `Scheduler`, `SchedulerLive`, `SchedulerPurga`, `SchedulerProofs`.
3. `Rpc`, `Endpoint`, `EndpointLive`, `EndpointProofs`, `EndpointPromise`.
4. `Estuario`, `Channel`, `ChannelProofs`.
5. `Escaparate`, `Lamina`, `LaminaProofs`: windows, with the futex of shared memory.
6. `Carga`, `Disco`, `DiscoProofs`: the order in flight, the thread, the loads.
7. `Prestamo`, `PrestamoProofs`: memory of a process, loans, what is retained.
8. `Futex`: wakes of n among many waiters; words of private memory.
9. `Turno`: how a compas is charged, and what it leaves to the others.
10. `Desmontaje`: the seventeen stations against a victim that still runs, with
    the objects of devices.
11. Physical frames and their owners; the SMP crew and the helpers of Ring 3; the
    network gate.
12. ESTRATOS: the writes of a commit against a loss of power; CABINA's ring.
