# Real-time systems engineering: a verification project

The repository is a QNX Neutrino workspace: a railway crossing controlled by
five kinds of machine that talk through QNX messages, and the smaller programs
it was built from. This directory holds TLA+ models of it, the TLC
configurations that check them, and TLAPS proofs about them.

Abbreviations: `TC.c` is `src/TrainController/src/TrainController.c`, `X1.c` is
`src/TrainLine/src/TrainLine.c`, `LC.c` is
`src/TrafficLightLocalController/src/TrafficLightLocalController.c`, `CTC.c` is
`src/CentralTrafficController/src/CentralTrafficController.c`.

## 1. Inventory

### The crossing

```
 keyboard                                    road users
    |                                           ^
    v                                           |
 CTC client --key--> TC --key--> X1 --key--> L1, L2 server (display)
 CTC server <------------phase-------------- L1, L2 client (state machine)
```

| part | threads | state | operations |
|---|---|---|---|
| CTC keyboard (`CTC.c:162-227`) | client | line buffer (two ints), instruction, `dataIsReady` | connect with retries; read a line; wait; send to TC |
| TC (`TC.c`) | server, client | mutex, condition variable, `commandIsReady`, one instruction buffer, one reply buffer | server: attach, wait until the client is done, receive (command, connection request, other I/O message, pulse, error). client: connect with retries, wait for a command, send to X1 |
| X1 (`X1.c`) | server, client1, client2 | mutex, one instruction buffer, one reply buffer; a condition variable nobody waits on | server: receive as TC's, no waiting. clients: connect with retries, then lock, send the buffer, unlock, without end |
| local controller, light (`LC.c:89-162, 198-251`) | client | state machine 0..6, `waitTime`, `dataIsReady` | connect once; step the machine, send the phase to the CTC, sleep |
| local controller, commands (`LC.c:253-306`) | server | instruction and reply buffer | receive and display commands of X1 |
| CTC monitor (`CTC.c:229-300`) | server | message and reply buffer | receive and display phases of the lights |

Parts interact through QNX messages only: `MsgSend` blocks until the receiver
calls `MsgReply`, and several threads keep their process's mutex while they are
blocked in `MsgSend` or `MsgReceive`. Inside a process the threads share the
struct with the mutex, buffer and flag.

What is hard: a buffer that is received into by one thread and sent from by
another; a condition variable shared by two conditions; loops that go back to
`pthread_mutex_lock` with the mutex locked (`continue`) or leave it locked for
good (`break`); flags never initialised or never reset; threads that die one by
one while the others go on; mutexes held across messages between processes.

What makes each part correct: TC passes on every command it acknowledged, once,
unchanged and in order; X1 shows its lines the latest command and never an older
one; the keyboard thread sends the key of each line; a light keeps its
intersection safe and alternating, and the monitor follows it; and the operator
is answered, unless a thread has died.

### The smaller programs

| programs | what they are | module |
|---|---|---|
| TrafficLightServer, TrafficLightClient | one light over native channels: the client steps on the server's replies | `TrafficSession` |
| producerConsumer, producerConsumerExtended, cpPriority | one flag, one condition variable, an item or a ring of items | `ItemHandoff` |
| Native- and ConnectMessagePass, server and client | packets, replies and disconnects, by name or by file; the servers of CTC and local controller have the same loop | `MessagePass` |
| overlap, overlapMutex, overlapNamedSemaphore, overlapUnamedSemaphore | one update of two fields, unprotected and protected | `SharedUpdate` |
| TrafficLightSM | two threads step one light, one of them without the lock | `SharedMachine` |
| BounderBufferSemaphore | a ring of five with two semaphores | `BoundedBuffer` |
| Bathroom, BathroomSemaphore, BathroomCountingSemaphore, BathroomTimer, BathroomCondvar | users of a lock, a semaphore, a lock with a deadline, or a door opened by a thread that takes no lock | `Bathroom` |
| KeyPressRW, KeyPressSleeponLock, KeyPressBarrier | a keyboard thread and threads that poll or sleep | `KeyPress` |
| TrafficLightTimer, timer | a machine stepped by timer pulses | `PhaseTimer` |
| TrafficLightMqSend and -Receive, sending and receiving | messages and an end mark through a POSIX queue | `PhaseQueue` |
| TrafficLights, StateMachine, barrier, Thread* | one thread, or threads that sleep and print | not modelled, section 5 |

What is hard in them: a condition tested under a mutex and changed without it
(BathroomCondvar, producerConsumerExtended); a counter that two threads add to
(TrafficLightSM); pulses that outlive the interval they belong to (the timers); a
name that goes while the thing it names is in use (the queues, the file of a
server); and peers that end while others wait for them.

## 2. The modules

| module | models | extends / composes |
|---|---|---|
| `CommandRelay` | abstract: a one-place relay | - |
| `TrainController` | TC | implements `CommandRelay` |
| `LatestValueRelay` | abstract: only the latest command is shown | - |
| `TrainLine` | X1 with any number of lines | implements `LatestValueRelay` |
| `KeyboardClient` | the CTC's client thread | - |
| `Intersection` | abstract: one direction at a time, back over yellow, by turns | - |
| `LightStatus` | the lights' client threads and the CTC's server thread | implements `Intersection` |
| `CommandPath` | abstract: what the operator is promised from the keyboard to the lines | - |
| `CommandChain` | keyboard, TC, X1, lines | composes `KeyboardClient`, `TrainController`, `TrainLine`; implements `CommandPath` |
| `TrafficSession` | TrafficLightServer and TrafficLightClient, started again and again | - |
| `ItemHandoff` | producerConsumer, producerConsumerExtended, cpPriority | - |
| `AtomicUpdate` | abstract: both fields change, and are used, in one step | - |
| `SharedUpdate` | the four overlap programs | implements `AtomicUpdate` |
| `SharedMachine` | TrafficLightSM | - |
| `BoundedBuffer` | BounderBufferSemaphore | - |
| `Bathroom` | the five bathroom programs | - |
| `KeyPress` | the three key press programs | - |
| `PhaseTimer` | TrafficLightTimer, timer | - |
| `PhaseQueue` | TrafficLightMqSend and -Receive, sending and receiving | - |
| `MessagePass` | NativeMessagePass and ConnectMessagePass, and the server loops of CTC and local controller | - |
| `SmallPrograms` | one of the programs of these eight modules, chosen at the start | composes the eight |
| `X_proofs` | theorems about module `X` | extends `X`, TLAPS |
| `MCX` | the small instance of `X` that TLC checks | extends `X` |

How state and actions correspond to the code:

* A thread is a value of `pc`; its labels are the places where another thread
  can act: before a lock, inside a wait, inside a message call, before an
  unlock. What a thread does between two of them under the mutex is one action.
* `mutex` is the owner or `"free"`. Locking a mutex one owns is possible and
  changes nothing: QNX's default mutex answers `EDEADLK` and the code ignores
  it. The `continue`s of the servers lead there.
* In `TrainController`, `waiting` holds the threads blocked on the condition
  variable; waiting releases the mutex, a signal releases one waiter, and a wait
  may end without a signal. A released waiter still has to get the mutex.
* In `TrainLine`, `queue` holds the threads blocked on the mutex: unlocking
  hands it to the first. The kernel orders threads by priority, then by time;
  all threads have the default priority.
* `instruction` is the buffer: the kind of its header and its data. A message
  replaces both, a pulse only the header (a pulse is as long as the header). The
  header of a message is what the servers branch on, so a header that stays in
  the buffer and is sent on would be interpreted by the next machine.
* `MsgSend` with the receiver's `MsgReceive` and `MsgReply` is one step in the
  composed modules; in the modules of one process the other side is a message
  that may arrive, a reply that may come, or an error.
* `Faults` names the calls that may fail. A failure is an action of its own that
  leaves the loop the way the code does, mutex locked.
* Histories (`accepted`, `forwarded`, `received`, `seen`, `owed`, `entered`,
  `sent`, `replyFrom`) record what happened for the properties; no action is
  guarded by one, except that `MaxCommands` and `MaxLines` bound them.
* Definitions whose name ends in `_` and a word (`ServerCheck_NoWait`,
  `Release_Last`, ...) are mutated forms of the definition after them: each
  breaks one property, which shows that the property says something of that
  line of code. No specification uses them.

In `KeyboardClient`, `low` and `high` are the bytes of `buf[0]`: `gets` writes
bytes into an array of `int`, and the test for a blank line reads four bytes, of
which a short line writes fewer. Lines are assumed shorter than the array.

In `LightStatus`, `phase` is the state the machine executed last: the light
shows it. `currentState` is already the next. Mutexes are left out: each thread
locks one that no other thread uses.

In `CommandChain`, `tReplyName` and `xReplyName` are the names in the reply
buffers of TC and X1, which both their server and their client thread use.

In `TrafficSession`, `queue` is what has arrived at the server's channel:
messages and the pulses that the kernel sends when a client detaches, in the
order of their arrival. `channel` numbers the servers, and `file` is the server
that `/tmp/trafficLightServer.info` names: it is emptied by `fopen(..., "w")`
and never removed, so a client may read of a server that has ended. `shown` is
the state that a server displayed last for each client, a history.

In `ItemHandoff`, the variable `program` says which of the three programs runs;
actions are shared where their code is the same. `readies` counts how often the
flag was set. The sleeps order nothing: a thread may be held up longer than
another one sleeps, so the consumer may come first although cpPriority's
sleeps for a second.

`SmallPrograms` puts the modules of the smaller programs side by side: `program`
says which one runs, and the variables of the others stand still. These programs
do not interact; one instance checks them all.

* `SharedUpdate`: in overlap `Lock` does nothing. The user's test of `a` and its
  addition are two steps, the changer's `a` and `b` two more.
* `SharedMachine`: `*counter += 1` is a read and a write, since the debug build
  that `make` makes keeps nothing in registers between statements. The switch
  reads the state and writes its successor after a sleep.
* `BoundedBuffer`: what is done under the mutex is one step, which cannot block.
* `Bathroom`: `places` is what the mutex or semaphore has left. The user tests
  the door in one step and waits in the next; the key thread may come between.
* `KeyPress`: a key is 1 to 3, or 0 for a null character and, in
  KeyPressBarrier, for every key that is no letter.
* `PhaseTimer`: time is in half seconds. `Receive` may come any time after the
  pulse, and `MaxQueued` bounds how many pulses wait.
* `PhaseQueue`: a queue bears the name of its sender; `linked` is the queue that
  the name in the file system leads to. TrafficLightMqSend's key in buf is not
  part of what it sends on.
* `MessagePass`: NativeMessagePassClient is committed with the CTC's attach point
  as its server's name, and the CTC's server loop answers it as the native
  server does. A client that ends detaches, and the kernel queues a pulse.

## 3. The runs

| run | instance | what it shows |
|---|---|---|
| `tc_relay` | 2 keys, 3 commands, every call may fail | TC implements the relay, so nothing is lost, repeated or forged, whatever fails (`RelaySpec`); the two wait loops never sleep past their signal (`NoLostWakeup`); acknowledged commands are forwarded (`EventuallyForwarded`) |
| `x1_distribution` | 2 lines, 3 commands, every call may fail | X1 implements the latest-value relay (`LatestSpec`); a waiting line is served before the next message (`NoLineOvertaken`); I/O headers never reach a line (`NoForeignHeader`); the server is not starved (`ServerNotStarved`) |
| `x1_unreceived` | same | violated: `SendsOnlyReceived` - a connected client sends the uninitialised buffer |
| `x1_missed_line` | 2 lines, 1 command, no failures | violated: `LastCommandReachesLines` - the server keeps the mutex while it waits for the next message, before a line asked for it |
| `ctc_keyboard` | 2 keys, 3 lines of up to 3 characters | one command per line, the line's key (`KeyForKey`); blocked for good only on a blank line before the first key (`StuckOnlyAtStart`) |
| `ctc_blank_line` | same | violated: `SendsEnteredKey` - a blank line repeats an earlier key |
| `light_status` | 2 lights, delays 2 and 4, every call may fail | `RoadSpec` (the abstract intersection), `HoldsForThePhase`, `ViewFollows`, `BothDirectionsServed` |
| `traffic_session` | 2 clients, 2 servers, 3 client starts, 8 phases, every call may fail | on one server's display a light never jumps (`PhasesInOrder`), clients end whatever happens to servers (`ClientsEnd`), and a client that detaches ends its server (`ServersEnd`) |
| `item_handoff` | the three programs, cpPriority's 10 slots and 15 letters, 6 rounds of the endless ones | the flag is read once each time it is set (`OneForOne`); cpPriority's letters arrive in order and unbroken, but for a first read of an empty slot (`LettersInOrder`); producerConsumerExtended repeats or misses at most one letter at a time (`AtMostOneMissed`); the threads wait for each other for good only when the consumer waited before the producer's first, unsignalled setting of the flag (`StuckOnlyAtStart`), and otherwise they go on, or end (`EndsOrGoesOn`) |
| `command_chain` | 1 line, 1 key, 3 typed lines of at most 1 character | the chain implements the operator's view: a line is shown the key that reached X1 last or none (`PathSpec`); the lines are sent what was typed (`LinesShowWhatWasSent`), and `OperatorAnswered`: no circular wait between CTC, TC and X1 |
| `chain_reply_name` | same, no failures | violated: `RepliesNameTheController` - replies to the CTC carry the name of X1 or of a line |
| `small_programs` | each program by itself: 3 users, 2 of every other process, 2 servers, 3 lines or messages, 3 uses, 12 steps of TrafficLightSM, the ring's own 5 slots and 20 items | a protected update is used and changed as one (`AtomicSpec`); TrafficLightSM's light never jumps (`LightNeverJumps`), and both threads end unless an addition was lost (`EndsUnlessAnAddWasLost`); the ring's consumer reads the item before the one it should, or one that has overwritten it, and no other (`ReadsOneBehindOrOverrun`); no shower is crowded (`ShowersNotCrowded`), somebody is there to pass a wake-up on (`WakeupPassedOn`), and bathers get through once the door stays open, but for those it opened behind (`AllGetThrough`); a reader sleeps only on keys it has shown, and passes the barrier only when all were seen (`WaitersHaveSeen`); the last keys typed are seen, and the barrier opens (`LastKeysSeen`); no phase is cut short but by pulses queued when the timer was set (`HeldForItsTime`); a message of a queue is read once and in order (`EachReadOnce`), and receivers end unless another one has the end mark (`ReceiversEnd`); a client that waits is served or in the queue (`EveryWaiterIsDue`), and clients get all replies unless a call fails or, with ConnectMessagePass, another client has left (`ServedUnlessCutOff`) |

Why the bounds are enough. TC and X1 handle one command at a time and keep no
state from one to the next but the buffer: three commands make every pair of
consecutive commands and a further one meet every interleaving, and two keys tell
one command from another. Two lines are the program's. `KeyboardClient` needs
lines long enough to leave bytes of a longer one behind: three characters over
four bytes. `CommandChain` needs as many lines as there are places for a command
between the keyboard and X1, plus one. `TrafficSession` needs 8 phases to pass state 6,
a second server for a stale file, and a third client start for one client that
comes back while the other is connected. In `small_programs`
20 items pass the ring four times, 12 steps pass TrafficLightSM's state 6 twice so that
the counter can go back in each half of the cycle, three bathers pass a wake-up on
twice, and three queued pulses are one more than any phase of the lights takes up. `ItemHandoff` has cpPriority's own sizes; the letters of
the other programs are compared with the one before, so six rounds are plenty.
The theorems below are for every value
of these constants. The light's machine has seven states and no bound.

Deadlock checking is off everywhere: `MaxCommands` or `MaxLines` ends the input,
and threads that ended with a mutex stop the others, which several properties
describe.

### Fairness

Only what the scheduling of the code gives: a thread that can run takes its next
step; a sleep ends; a blocked message call ends because the receiver is alive,
or fails. In `TrainController`, a thread that asks for the mutex gets it if it
is released again and again (strong fairness of `Lock` and `Wake`), since the
kernel hands a mutex over in the order of the requests; `TrainLine` has that
queue in its state and needs weak fairness only. `ItemHandoff` needs it as `TrainController` does,
and so do the users of `Bathroom`, whose `Enter` asks for a mutex or semaphore that others
give back. In `SharedMachine` a key is entered in the end; in `KeyPress` and `Bathroom`
nobody has to type, and the properties speak of what follows the last key.
In `PhaseQueue` and `MessagePass` processes need not be started, but run once they are. In `TrafficSession` nobody has
to start a server or a client, and a client's key is entered in the end. Nothing is assumed of what
arrives at a server, of keys, of `name_open`, or of failures.

### Behaviours worth knowing

The exceptions in the properties of `small_programs` do occur; each is the
shortest way in which its program does not do what its output suggests:

* TrafficLightSM: if both threads add at once, the counter goes back; the
  consumer may have ended, and the producer then spins for a green state.
* BathroomCondvar: a door opened between a user's test and its wait leaves the
  user waiting until someone else signals.
* BounderBufferSemaphore: the first item read is an unwritten slot; with all
  slots full the item to be read next is overwritten.
* The queues: of two receivers of one queue one waits for ever.
* ConnectMessagePass: the first client that disconnects ends the server for all.
* overlap without a lock: nothing is promised of the result, as its output says.

### Findings

The four violated properties quote a comment of the code that the code does not
keep: `X1.c:192` twice (what a line is sent has been received; what has been
received is sent to each line), `CTC.c:162` (what is sent is the entered key) and
`TC.c:90` (TC's reply carries TC's name). Details are in `PROJECT.json`.

## 4. The proofs

All theorems hold for every number of keys, lines and lights, every bound and
every set of faults. The assumptions are those the modules name: `Junk` is not a
key, a thread is not called `"free"`, bounds and delays are natural numbers, a
ring has more than one slot, `Faults` are among the modelled ones, the users of a
bathroom are finitely many, and `NoQueue` is not a sender (`LimitsAssumption`,
`ProcessesAssumption`). `LettersArriveInOrder` has a hypothesis of its own,
`LettersFit`: cpPriority's letters are fewer than two turns of its ring (15 and
10 in the program). With more the producer, which writes two letters for each
one read, overwrites letters that have not been read.

| module | theorems |
|---|---|
| `TrainController_proofs` | `TypeCorrect`, `RelayKeepsCommands`, `WakeupsAreNotLost`, `BufferIsStable`, `LinkLossSilencesAcks`, `ImplementsRelay` |
| `TrainLine_proofs` | `TypeCorrect`, `LinesGetTheirTurn`, `ForeignHeadersStay`, `DeadLineIsFatal`, `ImplementsLatest` |
| `KeyboardClient_proofs` | `TypeCorrect`, `EachLineSendsItsKey`, `StuckOnlyBeforeFirstKey` |
| `LightStatus_proofs` | `TypeCorrect`, `DelaysAreRight`, `ViewIsRecent`, `ImplementsIntersection` |
| `TrafficSession_proofs` | `TypeCorrect`, `DelaysAreRight`, `PhasesNeverJump` |
| `ItemHandoff_proofs` | `TypeCorrect`, `EachFlagReadOnce`, `NoTwoMissed`, `StuckOnlyBeforeFirstRead`, `LettersArriveInOrder` |
| `CommandChain_proofs` | `ConsoleAndLines`, `LinesAreSentTheKeys`, `ImplementsPath`, `ProcessesBehaveAsAlone` |
| `SmallPrograms_proofs` | `TypeCorrect`, `UpdatesAreAtomic`, `ResultCorrect`, `LightInOrder`, `NobodyEndsEarly`, `ReaderIsOneBehind`, `ShowersHaveRoom`, `WakeupsGoOn`, `SleepersHaveLooked`, `PhasesHaveTheirTime`, `MessagesReadOnce`, `NamesAreOwn`, `NoClientForgotten` |

`RelayKeepsCommands`, `BufferIsStable`, `LinkLossSilencesAcks`, `DeadLineIsFatal`,
`DelaysAreRight` (of `TrafficSession`), `ResultCorrect`, `NobodyEndsEarly`,
`ConsoleAndLines`, `NamesAreOwn` and `ProcessesBehaveAsAlone` are proved and need no
run. So are the type invariants of all modules; the runs `tc_relay` and
`small_programs` check theirs, the others have properties that say more.

Each module proves `Spec => []IInv` (`Invariance`) and derives the rest.
Why the properties are not inductive alone, and what `IInv` adds:

* `TrainController`: `NothingLostOrForged` needs to know that the server is
  never receiving while a command is in the buffer. `Ownership` says who owns
  the mutex at which place, `FlagMeaning` what the flag says of the buffer.
* `TrainLine`: `NoLineOvertaken` needs the order of the queue. `QueueInv` says
  that the queue holds every blocked thread once, `OwedInv` that the lines still
  owed a turn are alive, and ahead of the server in the queue or past the lock;
  `BufferInv` that an I/O header is in the buffer only while the server has the
  mutex.
* `KeyboardClient`: `KeyForKey` relates two histories; `DataInv` says what the
  instruction holds before and after each line is read.
* `LightStatus`: `MachineInv` derives the next state and the `waitTime` from
  the last phase, which the states that set no `waitTime` rely on.
* `TrafficSession`: `PhasesInOrder` needs that a client which comes back to the
  same server is not heard before the pulse of its last visit. `QueueInv` puts a
  client's message behind its pulses, `DisplayInv` keeps a client in step with
  the display until its pulse is queued, and `ConnInv` that no client is
  connected to a server that has not started.
* `ItemHandoff`: `AtMostOneMissed` compares two reads, between which the producer
  may write; `MissInv` bounds how far the letter is ahead of the last read by
  whether the flag is set and whether the producer has written without setting
  it. `FlagMeaning` says what a waiting thread knows of the flag.
  `LettersInOrder` needs what every slot of the ring holds, since each will be
  read: `SlotsInv` says it by how many letters have been written, `ProducerInv` and
  `ConsumerInv` where the two threads are in the ring, and that the consumer ends
  with the last letter and not before. That is `RingInv`, proved on top of `IInv`.
* `CommandChain`: the three processes keep three histories. `PathInv` relates
  them: what the CTC has a reply for is what TC acknowledged, and X1 has all of it
  but the command in TC's buffer. `FlagInv` keeps that buffer from being
  overwritten, `LineInv` says that X1's buffer holds the last of its commands or
  none. `ImplementsPath` maps the reply to the console, the reply to TC and the
  sending to a line to the steps of `CommandPath`, and all other steps to stutters.
  `ProcessesBehaveAsAlone` shows that each process takes only steps of its own module
  in the chain, with the commands that `PathInv` says the keyboard sends: the
  theorems about `TrainController`, `TrainLine` and `KeyboardClient` hold there as well.
* `SmallPrograms`: every step is of one program (`OneRuns`), so the invariants of
  the eight modules are proved one by one and hold together.
* `SharedUpdate`: `LockInv` says who has the lock at which place, and that `a` and
  `b` differ only between the changer's two writes.
* `SharedMachine`: `TurnInv` says that a thread about to step sees a state of its
  own, although the consumer has no lock: the other thread leaves such a state
  alone. `CountInv` bounds the counter, and what a thread has read of it, by the steps made.
* `BoundedBuffer`: `SlotsInv` counts items and slots, in the semaphores and in the
  hands of the two threads; `RingInv` says what each slot holds by how long ago it
  was written, which is needed for every slot, since each will be read.
* `PhaseTimer`: `IntervalInv` ties the timer's setting to the phase on display,
  `AgeInv` the phase's age to the pulses since the timer was set.
* `Bathroom`: `PlacesInv` counts places and holders, a holder being a user anywhere
  between taking and giving back. `WakeupPassedOn` is inductive with the types: who
  leaves wakes another one, or nobody sleeps.
* `KeyPress`: `ReadyInv` says that what is not ready has been shown, that who is at
  the barrier has seen its letter, and that all leave the barrier together.
* `PhaseQueue`: `QueueInv` says that a queue holds the last messages sent,
  `ReceiverInv` that those before have been received, each by one receiver.
* `MessagePass`: `KindInv` says where a client is whose message has arrived,
  `ServedInv` that only one is served, and `ServerInv` that nobody is connected to a
  server that is still to open; otherwise a message of an earlier one might count.

The implementation theorems prove that initial states map to initial states and
that every step maps to a step or a stutter, from `IInv`.

Only model-checked: liveness (`EventuallyForwarded`, `ServerNotStarved`,
`BothDirectionsServed`, `ClientsEnd`, `ServersEnd`, `EndsOrGoesOn`,
`OperatorAnswered`, `EndsUnlessAnAddWasLost`, `AllGetThrough`, `LastKeysSeen`,
`ReceiversEnd`, `ServedUnlessCutOff`), since the prover handles neither fairness
nor ENABLED. Every invariant and every implementation that a passing run checks is
proved as well.

## 5. Not modelled

Text and layout of the console output; ids and names that no branch reads
(except the reply names); the pulse codes (all are displayed; `DISCONNECT` also
calls `ConnectDetach` on a field the kernel did not write); process start and
exit. Two overflows: lines longer than a keyboard buffer, and the third byte that
TrafficLightMqSend's `sprintf` writes into an array of two (what lies behind an
array is the compiler's choice). In LightStatus, whether a light starts at all:
that depends on an uninitialised flag.

Programs: TrafficLights and StateMachine are one thread that steps a machine
without anything to interleave or to lose; barrier's threads sleep and meet once
(`KeyPress` has a barrier); Thread, ThreadExample, ThreadPrinting and
ThreadState print and end. The other files are Makefiles, the IDE's workspace
and what the build generated.

## 6. Plan

Every program with more than one thread that share state, or more than one
process, is modelled, and every safety property of it that a run checks is proved.
What would add to the project:

1. The safety halves of the liveness properties, as theorems: that in a state where
   a thread waits, the one that will wake it is on its way (as `WakeupPassedOn`
   says of the bathroom), for the queues and for cpPriority.
2. An abstract specification of the message queue, with its name, that
   `PhaseQueue` implements.
