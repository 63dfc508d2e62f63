# A TLA+ model of RTSOSC

RTSOSC (`src/RTSOSC`) is a distributed sound system. Sound *modules* (speakers,
microphones, oscillators, effects) live in processes on several Macs and send
audio and control data to each other as OSC messages over UDP, port 6340.
Physical *tiles* with XBee radios stand for modules: a user puts a module on a
tile, lays two tiles side by side, and a *Coordinator* connects the two modules.
A tile that falls silent loses its module. The repository carries the libraries
it is built on: liblo (OSC), portsf (sound files), portmidi and porttime.

This directory holds TLA+ modules for the parts of the system in which threads,
lost datagrams, order and arithmetic make the code hard to test, configurations
that model-check them with TLC, and theorems about the most important of them,
with proofs that TLAPS checks. `PROJECT.json` lists the components, the runs, the
source lines behind each definition, the hazards, the slips that each property
is shown to catch, and the theorems.

## 1. Inventory

### Threads and processes

| actor | code | what it runs |
|---|---|---|
| OSC server thread, one per process | liblo's `server_thread.c`, `Server.cpp` | every handler added with `addMethodToServer`, one after another |
| PortAudio threads | `DAC::outputCallback`, `ADC::inputCallback` | play from the ring; send what was recorded |
| porttime threads | `ptmacosx_cf.c` `Pt_Thread` | `AudioClock::render`, `XBeeController::deadCheck` |
| serial thread | `Serial::threadFunction` | sends what `read()` returned |
| CoreMIDI thread | `readProc` in `pmmacosxcm.c` | puts what an instrument sends into a queue |
| main thread | `*/main.cpp` | constructors, `connectTo`, user input |

There is not one lock in `src/RTSOSC`, in liblo's list of methods or in
portmidi's queue. What is shared is shared through plain variables, and the
models split an operation at the writes another thread can tell apart.

### Components

| component | state | operations | talks to | what is hard | what makes it correct |
|---|---|---|---|---|---|
| **RoutingTable** (`RoutingTable.cpp`, handlers in `Module.cpp`) | `loAddr[]`, `oscAddr[]`, `aNum` | setRoute, deleteRoute, deleteAllRoute, numRoute, isRouting | edited by the server thread, walked by audio callbacks | walk during an edit; deletion loop that skips; full table | no duplicates, no leaked or twice released address; a pass sends to the table and to nothing else; SetRoute settles |
| **DAC** (`DAC.cpp`) | `buf`, `buf2`, `rp`, `wp`, `isPlaying`, `bs`, volume | stream, stream2, data1, data2, outputCallback | packets from other modules, PortAudio | distances read early and used late by both threads, underrun and restart | a bounded FIFO; the writer never laps the reader; it goes on playing |
| **PortAudio streams** (`ADC.cpp`, `DAC.cpp`: preparePa, start, stop, destructors) | `Pa_Initialize`'s count, one stream a module | the calls, each of which may fail | PortAudio | the last `Pa_Terminate` closes everybody's streams | a living module's stream runs |
| **Coordinator**'s tokens (`Coordinator.cpp`, `MToken.cpp`) | `mtknMap`: tile ID -> address of a module | setMtkn, deleteMtkn (two) | ModuleControllers, XBeeController | repeated, lost and interleaved datagrams; calls from deadCheck's thread | tokens and living modules agree; the newer module stays |
| **Coordinator**'s connections (`Coordinator.cpp`, `Tile.cpp`) | per tile and type the neighbour noted (`data`, `stream`) | connect, addConnection, disconnect, disconnectAll, tileState; frames of mode 0 and 1 | tiles' frames, modules' tables | lost commands, modules replaced while a command is under way | who touches is connected; who touches nobody is silent; no route is invented |
| **ModuleController** (`ModuleController.cpp`) and MLTest's **ModuleManager** | one list of modules per kind | a handler per kind: create (1) and delete (0); requestML, sendModuleList | tells the Coordinator by broadcast | one command deletes, three datagrams announce | no module lives that has no token |
| **ModuleList**, **ModuleManager** (`ModuleList.cpp`, `ModuleManager.cpp`) | `mList`: kinds of modules with a number | setMList, createModule, deleteModule, requestML, sendModuleList (deleteMList, deleteModuleList: unused) | hosts by broadcast and command | two threads that send, sockets left open, three copies | each kind offered is listed once, under a number that stays |
| **XBeeController** (`XBeeController.cpp`), **Tile** | `tMap`: tile ID -> Tile; receive ring `buf`, `rp`, `wp` | stream/parseData, initTile, setAlive, deadCheck; Tile::isAlive, deadCheck | Serial, Coordinator | watchdog in another thread that erases while it iterates; frames cut by the serial line | each frame once; a silent tile goes, and its module |
| **Serial** (`Serial.cpp`) | `fd`, `active`, the thread | threadStart, threadStop, setDevice, sWrite | XBeeController, applications | join while blocked in read | one reader; setDevice returns |
| **porttime** (`ptmacosx_cf.c`) and **AudioClock** | `time_started_flag`, `timerRunLoop`, the threads | Pt_Start, Pt_Stop, Pt_Thread; AudioClock data1, data2, constructor, destructor | AudioClocks and XBeeController share the one timer | stop before the run loop is entered | one timer, and a stop that stops |
| **Delay** | ring `buf`, `dp`, `ps`, bypass | stream, data1..data3 | packets | a cursor behind the end it is given | it repeats what it was given, in time |
| **Envelope** | `vVal`, `A D S R`, counters | stream, data1..data4 | packets | settings that change in the middle of a note | indices stay in the table; a note ends |
| **AudioSource** | position, rate, repeat | stream, render, data1, data2 | packets, portsf | the end of the sound at a changing rate | it reads inside the sound; a sound ends |
| **Sine, LPF, AudioClock's rendering** | oscillators, filters | stream, render | | floating point | |
| **Module, Server, VModule, Data, Audio** | addresses | sendData, sendAudio, registration of methods | liblo | | |
| **liblo: server and its thread** (`server.c`, `server_thread.c`) | sockets, queue of elements by time, `active` | wait, recv, dispatch, queue; start, stop | everything | bundles for later, datagrams that keep coming, a stop | every element once and in order; a stop stops |
| **liblo: methods and dispatch** (`server.c`, `method.c`) | the list of methods | add_method, del_method, dispatch_method | constructors and destructors of modules | edits by two threads and by a handler under the walk | no handler of a deleted module is called |
| **liblo: messages and bundles** (`message.c`, `bundle.c`, `blob.c`) | buffers that grow, type string | add, serialise, validate, deserialise | the wire | sizes, padding, byte order, truncation | what is sent is what arrives; only whole messages are taken |
| **liblo: patterns** (`pattern_match.c`) | none | lo_pattern_match | dispatch | stars, sets, ends | it matches what the pattern means |
| **liblo: sockets and addresses** (`send.c`, `address.c`, `server.c`) | descriptors, `lo_client_sockets` | server_new, free, send | the system | a descriptor given to somebody else | a datagram leaves on its sender's or a server's socket |
| **portmidi: queue** (`pmutil.c`) | ring of messages without a lock | enqueue, dequeue, peek | CoreMIDI's thread and the application | words of zero, overflow | a FIFO that reports what it lost |
| **portmidi: input** (`portmidi.c`, `pmmacosxcm.c`) | sysex in progress, filters | readProc, pm_read_short, pm_read_bytes, Pm_Read | the queue | sysex in parts, real-time bytes inside | a sysex arrives whole or not at all |
| **portmidi: output** (`portmidi.c`, `pmmacosxcm.c`) | sysex buffer, packet list | Pm_WriteShort, Pm_WriteSysEx, Pm_Write | CoreMIDI | buffers full at any byte, a failing send | it sends what was written, once |
| **portsf** (`portsf.c`) | open files: header, sizes, peaks, position | create, write, seek, read, close, open | AudioSource and tools | sizes and peaks kept over many calls | what was written comes back |
| **portmidi: devices, names, property lists** | tables filled at start | | CoreMIDI | | |
| **Applications** (`SimpleDAC`, `SimpleSine`, `Odore`, `MLTest`, `Coordinator`, ...) | | main, MyModule | wire the above | | |

The hazards of this code, each at its line and with the properties that watch
over it, are the `hazards` of `PROJECT.json`.

## 2. The models

| module | models | composed with |
|---|---|---|
| `RoutingTable` (+ `Selection`, `MCRoutingTable`) | one table, the handlers that edit it, a callback that walks it | `FairParts` |
| `DAC` (+ `StreamProofs`) | the playout ring between server thread and PortAudio | implements `SampleQueue` |
| `SampleQueue` | what a DAC promises: a bounded queue of samples | |
| `Registry` (+ `MCRegistry`, `RegistryProofs`) | modules, tokens and the datagrams between controllers and Coordinator | |
| `TileWatch` | the tile map and its watchdog | `FairParts` |
| `TileSystem` (+ `MCTileSystem`, `RegistryProofs`) | `Registry` and `TileWatch` as `Coordinator/main.cpp` wires them | implements `Registry` |
| `Connections` (+ `MCConnections`, `ConnectionsProofs`) | from a tile's frame to the routes of a module | |
| `Catalogue` (+ `MCCatalogue`, `CatalogueProofs`) | ModuleList and who answers it | |
| `XBeeParser`, `SerialThread` | the receive ring; the thread that reads the line | `FairParts` |
| `PortTime` | the timer, its threads and its users | `FairParts` |
| `DelayLine`, `Envelope`, `Playback` | Delay, Envelope, AudioSource | `SafeParts`; `FairParts` |
| `AudioDevices` | the PortAudio streams of ADCs and DACs | `SafeParts` |
| `OscServer` | liblo's server, its queue and its thread | `FairParts` |
| `OscMethods` (+ `MCOscMethods`) | the list of methods and the walk along it | `SafeParts` |
| `OscWire`, `OscPattern` (+ `MCOscPattern`) | messages on the wire; patterns | `SafeParts` |
| `OscSockets` | descriptors, servers, addresses | `SafeParts` |
| `MidiQueue`, `EventQueue` (+ `StreamProofs`) | portmidi's queue, and what it promises | `MidiQueue` implements `EventQueue`; `SafeParts` |
| `MidiInput`, `MidiOutput` (+ `MidiInputProofs`, `StreamProofs`) | the ways in and out | `SafeParts` |
| `SoundFile` (+ `MCSoundFile`) | a file through portsf | `SafeParts` |
| `FairParts`, `SafeParts` (+ `MCFairParts`, `MCSafeParts`; `FairPartsProofs`, `SafePartsProofs`) | nothing of their own: benches, and the proofs about their parts | |
| `Selection` (+ `SelectionProofs`) | what is left of a sequence when a set is taken from it, or kept of it | `RoutingTable`, `OscMethods`, `Connections`, `Catalogue` |

A *bench* puts modules that share no state into one specification. Its variable
`part` says which of them runs; the others keep their initial state, so that a
behaviour of the bench is one of exactly one part, and a property of a part is
judged on that part's states alone. `FairParts` holds the parts of which
something must come about, each under the fairness of its own specification;
`SafeParts` those of which only the calls and their order matter. Modules that
do interact are composed where they do: `TileSystem`, `Connections` (which takes
Registry's and RoutingTable's steps whole), and the refinements.

A definition marked `Slip` in a module is a plausible mistake in the definition
that follows it. It is no part of the specification; each property is shown to
fail when the slip takes the place of what it imitates.

### RoutingTable

`loAddr`, `oscAddr`, `aNum` are the fields of the class. A handler of the server
thread is `Request` (or `Repeat`, the request a tile's frame repeats) followed by
steps with the program counter `pc`: `ScanOn`/`ScanEnd` search, `Release`,
`Shrink`, `ShiftOn`, `ShiftEnd` take an entry out in the order of the code's
writes, `AppendRefused`, `AppendHostname`, `AppendPath`, `Publish` put one in.
`i` and `j` are the loop variables, kept because deleteAllRoute goes on at
`i + 1` past the entry it has just moved. The callback is `BeginPass`, `Walk`,
`EndPass`; `sent` is what it sent in this pass, `start` and `torn` are history:
the table when the pass began and whether a removal overlapped it. `strcpy` of a
path is one step (a callback that reads half a path finds no method of that
name anywhere), and `strstr` is the relation `SubPath`. deleteRoute releases an
entry before it leaves its loop; the model shares its steps with deleteAllRoute,
which does the same writes, and differs in `Matches` and `AfterRemoval`.
The text a repeated SetRoute carries is always `Target`.

What a pass does that overlaps a removal is not constrained: the code gives no
guarantee there (an address may have been released), and the hazards say so.

### DAC and AudioDevices

`Packet` .. `FillingEnd` are stream() for one packet: the distance `seen` is read
first, the branch on `isPlaying` after the packet was forwarded, then one step
per sample. `CallbackBegin`, then one `PlayFrame`, `Underrun` or `Stopped` per
frame, are outputCallback. `Ch` is the field `ch`, set once when the DAC is made.
stream2 has the same control with its second blob for `buf2`; `Put` with `Ch = 2`
stands for it. The volume, which scales what is heard, is left out, so `out` is
the sample taken. Each read and write of a cursor or of `isPlaying` is one step,
as on the machines the code is for.

`Capacity` is derived, not chosen: a playing DAC accepts while the distance is at
most `bs + 4 * size`, a distance read before a stop can be stale by what the
stopped DAC took, and the callback, which may see the DAC started and stopped
several times, adds at most one packet for each of its frames. `RingAssumption`
asks that the ring be larger. For the constants of the code (`MAX_PACKET` 44100,
128 frames, packets of 256, `bs` up to 32*127) Capacity is
4064 + 1024 + 1 + 128*256 = 37857, so the assumption holds with them; it does not for the packets of up to 1984
samples that AudioClock::data2 can set.

`AudioDevices`: `CreateDevice` is a constructor with preparePa and start, of whose
calls each may fail (`Outcomes` lists where, and what has been initialised and
terminated by then), `DeleteDevice` a destructor with stop. A device's `balance` is
its initialisations less its terminations, and `Pa_Terminate` closes all streams
when PortAudio's own count comes to 0. `LivingDevicesRun` is claimed until the
first failure: afterwards the code terminates more often than it initialised
(preparePa, stop and the destructor each do), which is stated as
`TerminatesMatchInitialises`.

### Registry, TileWatch, TileSystem

A *list* is a module kind of one controller (dacList, sineList, ...), so a list
and a tile make a module's address. `CreateModule`, `DeleteModule` (the user's
command) and `ObeyCommand` (the Coordinator's) are the same handlers with first
argument 1 or 0; all seven, and those of MLTest's ModuleManager, have this shape,
but `dac()` announces the deletion itself before the destructor does again
(`DACLists`). `Receive` is a handler of the Coordinator for the next datagram of
a host: `SetMtkn` or `DeleteMtkn`; `Evict` is `deleteMtkn(int)`, which deadCheck
calls. The token holds the sender's address as the datagram shows it, hence
`HostOf`. `unheard` and `newest` are history for `NewestStays`.

The network delivers the datagrams of one host in order (they are sent from one
thread within a millisecond of each other on one wire), those of different hosts
in any order and at any time, and loses up to `MaxLosses` of them; the
Coordinator's commands are lost by `LoseCommand`. `MaxLosses` is 2: at least one
copy of each burst of three arrives. That is what the code counts on, and
with more losses a token can of course stay for ever.

`Frame` and `InitTile` are what parseData does to `tMap`, `SetAlive` what the
Coordinator's setMtkn does; `Examine`, `EraseDead`, `EndDeadCheck` are deadCheck,
one tile per step, with `cursor` for its iterator. The iterator is advanced after
its element was erased: the build can go on behind the element or take freed
memory for the end, and `EraseDead` allows both. Erasing forgets the tile's
fields, so what `Tile::deadCheck` resets in them is not visible.

`TileSystem` conjoins actions of the two: `ReceiveAndLight` is setMtkn with its
setAlive, `EraseTile` is deadCheck's erasing with its deleteMtkn. Both threads
reach both maps; the model lets them alternate between tiles and between
handlers, and does not model two threads inside one `std::map` operation, which
has no defined outcome.

### Connections

`touching` is what people lay side by side, `seen` what Tile's fields `data` and
`stream` hold. A frame of mode 0 (`FrameNeighbour`) connects when its neighbour is
the one seen before or none was, and otherwise only notes it, so that a change
takes two frames; a frame of mode 1 (`FrameAlone`) disconnects all. `Tell` is a
command of the Coordinator: it looks up both tokens and sends to the host the
token names; `Deliver` hands it to the module that has the path by then, if there
is one, and changes its table, RoutingTable's whole handler in one step (it runs
in the same server thread; `DeleteAllRoute` skips the entry behind each one it
removes). connect's three datagrams are one: the second and third go to
".../SetRoute/SetRoute", because the buffer is appended to. Modules are replaced,
tiles erased, commands lost, and an application's `connectTo`, `disconnectFrom`
and `disconnectAll` interfere (`AppConnects`, `AppDisconnects`). `met` is the history of what was ever asked for.

### Catalogue

`mList` is the list; an entry's number is the list's length when it came. The
requests of `requestML` and the answers of `sendModuleList` are three datagrams
each (`Copies`), and `MaxLosses` of all may be lost. `Announce` is the main
thread's sendModuleList at the start of a program, a kind at a time, between which
the server thread answers; of the sets in `Starting` one starts beside the list, the
others announced themselves before it. Nobody departs: `deleteModuleList`
(`ModuleManager.cpp:52`) is called by no program, and so `deleteMList` is never
reached. (Were it called, a request taken behind the goodbyes would list the kind
again, for the destructor removes its handler under a name without the slash,
`ModuleManager.cpp:108`, and numbers would be given twice.) A controller opens a socket for each kind and closes the last: `sockets` is what it has left
open of `MaxSockets`, and `LeftOpen` what one answer adds. `Digits` is how
createModule and deleteModule write a tile ID. `Order` is such a command, to the
host of the first entry with the number.

### Serial side and timer

`SerialThread`: `ThreadStart`, `SetDevice`, `Joined`, `PrepareSerial` are the
caller, `ThreadFunction` a thread's loop: the flag, a `read()` that blocks until its
device has a line or fails at once when it could not be opened, the sending.
pthread_join is the wait in `Joined`. `Feed` is a device that sends a line.

`XBeeParser`: a byte is its number, so that a frame is recognised by what it is
made of and a stale byte shows. `Stream` is the whole handler: append, then
parseData once. Assumptions, stated by `ParserAssumption` and here: a read brings
at most one frame's length (the serial line gives a frame at a time; `read` may
return up to 255 bytes when the thread was delayed), bytes are neither lost nor
altered, and 0x7E occurs only as a delimiter. The hazards list what happens otherwise.

`PortTime`: a thread is `created`, `published` its run loop, `running`,
`stopping`, `ended`. `Stop` is CFRunLoopStop on the loop published last: it ends
a loop that runs and has no effect on one not yet entered or already left (that
CFRunLoopStop on the loop of a thread that has ended does nothing, although the
thread has released it, is an assumption). A thread remembers the `resolution` it was started with: a
timer of interval 0 fires once, after which its run loop has nothing to wait for
and the thread ends of itself, with the flag still set (`Expire`). The users are the AudioClocks (`Data1`, `Data2`, `Create`, `Delete`) and the
XBeeController (`Create`). `Data2` is one step although it stops and starts: both
are calls of one handler and the new thread is not there before it ends, while a
thread that publishes its loop within it is indistinguishable from one that does
right before or after.

### Sound modules

- `DelayLine`: a cell of `buf` holds the number of the input sample last put
  there. `NextCursor` is the code's comparison of an unsigned cursor with
  `ps - 1`: behind a shortened end it starts over, with `ps = 0` it runs on
  through the whole of memory (`zeroed` records that `ps` has been 0, and nothing
  is claimed then). The feedback of earlier echoes is left out.
- `Envelope`: volumes are indices of the table (rising with the index is all that
  is needed of it); divisions drop fractions as the assignments to `int` do.
  `MaxCount` bounds the counter. A level of 0 takes nothing off, so such a note never fades; `SoundsEnd` says so.
- `Playback`: `location` and `rate` count in `PARTS` of a sample, the assumption bounds
  rates by the length of the sound. `PlaybackPacket` is stream(), `Render` one sample of it.
  The cast of the length to a float is modelled (`AsFloat`): up to `EXACT`, which is
  2^24, each length is a float, above it floats are multiples of their `Spacings`.
  A location before the sound, cast to unsigned, is either of what builds make of
  it (`IndexOf`). The sum of location and rate is exact while a sound has fewer
  than 2^29 samples, which is as far as the model goes.

### liblo

- `OscServer`: time in ticks; lo_server_wait and lo_server_recv are the steps
  `Wait`, `Recv`, `Read`, between which datagrams arrive; an element is queued
  behind those of its own time (`Inserted`), and what is due is dispatched up to
  `EARLY` (10 ms) before its time. `ServerThreadStart`, `ServerThreadStop` are the thread's.
- `OscMethods`: adding is two steps, the search for the end (`FindEnd`) and the
  link; each thread has the additions and deletions of a constructor or
  destructor before it in `jobs`. A handler, a ModuleController's, may make or
  delete modules under its own walk. Properties are claimed while no edits of two
  threads overlap (`overlapped`); where they do, the list is undefined. `wild` are
  the methods of deleted modules that were called: `CallsReachTheLiving` allows
  those a destructor forgot, `NoCallsOfTheDead` none.
- `OscWire`: an argument is its type and length; a byte is a character, the 0
  that ends a string, or a byte of a number with its order. Sizes, doubling
  buffers, padding, byte swaps and the checks of validation are the code's.
- `OscPattern`: `Matched` is lo_pattern_match on characters, `Means` the reference
  definition on tokens; every pattern and name up to the bounds is an initial state.
- `OscSockets`: the lowest free descriptor is given out, again after a close;
  `clientUdp` is liblo's global of the server made last.

### portmidi and portsf

- `MidiQueue`: every read and write of a shared word is a step of its thread;
  `EventQueue` is a FIFO that may refuse an event and then tells it with OVERFLOW at
  that place; MidiQueue implements it by a refinement mapping. `Zeros(k)`, the words
  the chain of links leads to, is the least set closed under the links.
- `MidiInput`: an instrument's bytes cut into packets in every way; readProc,
  process_packet, pm_read_short and pm_read_bytes, whose filters and word in
  progress are kept; of the queue only length and overflow count. A `SYSEX` that is
  filtered is taken for a short message and enqueued, its data are dropped; `passed`
  then is that byte (`Noted`). `RealTimeApart`
  and `Truncated` open two kinds of input for which the code misbehaves (section 4).
- `MidiOutput`: writes, through sysex buffer and packet list, with MIDISend
  failing at any call. An event has at least two bytes, so that a short message fits.
- `SoundFile`: one file: its shape, its words, its header by what it says (chunk
  sizes, peaks), and the descriptor with its position. Amplitudes are integers
  with `FULL` for 1.0; a cast of 1.0 to an integer word wraps to -1.0 (`AsWord`).
  `sound` is what was asked to be kept, clipped if that was asked for. A seek goes to
  any frame, behind the end (`SeekInside`: what is written there leaves a gap of
  silence) or before the data (`SeekBefore`: an error, with the file already
  moved). `Careful` programs do not write straight after a read or an error.

## 3. The runs

Most take seconds; the largest, `catalogue`, `fair_parts` and `safe_parts`, take two to four minutes.

| run | properties | bounds | shows |
|---|---|---|---|
| `route_walk` | SlotsAccountedFor, CleanPassIsTheTable, EditsOnlyWhatWasAsked | table of 3, 2 hosts, 3 paths of which one contains another, 3 requests and any number of repeats | the table keeps its shape at each write, edits change what was asked, and a callback's pass without a removal sends to the table in order. Three entries are the least with which a removal shifts, skips and leaves one behind, and fill the table |
| `dac_ring` | BacklogBounded, KeepsPlaying | ring of 15, packets of 1 and 2, `bs` 0 or 1, 2 frames per callback | no lap, with the least ring `RingAssumption` allows, so each distance up to Capacity and each wrap-around occurs; it restarts after every underrun |
| `dac_queue` | ImplementsQueue | ring of 9, two sample values | the ring refines SampleQueue; two values tell an order |
| `registry` | TokensNameModules, ModulesAreRegistered | 2 hosts, 3 lists (a dacList and a sineList on one host), one tile, 4 commands, 2 lost datagrams, 1 lost command | consistency of tokens and modules. Tiles are independent in every handler, so one is enough; four commands allow create, supersede, delete, create again |
| `registry_newest` (violation) | NewestStays | nothing lost, 2 commands | finding 1 |
| `tile_system` | ImplementsRegistry, DeadTilesLoseTheirModules | 2 hosts, 2 lists, 1 tile, TH 1 | the composition refines Registry; the module of a dead tile is deleted |
| `connections` | NoInventedRoutes, ConnectedIsRouted, AloneIsSilent | 3 tiles of which one sends frames, its module and those of two neighbours (one of which may move to the other host), both types, table of 3, 2 commands under way per host, 1 lost, 2 changes by people or the watchdog, 1 call of an application | routes follow what the tiles touch. Frames of different tiles edit different tables, so one source is enough; a change and its reversal, or a change and a replacement, are the shortest ways to a stale route, and three entries hold one of each |
| `catalogue` | ListNamesOffers, RequestsAreAnswered | a controller with two kinds that starts beside the list or announced itself before it, a manager with one, sockets for 3, one request, 2 datagrams lost, one order | answers, announcements and requests in three copies list each kind once, and an order reaches who offers it; two losses are the most a burst of three survives |
| `fair_parts` | EveryFrameOnce, OneTimer, OneReader, DispatchedInOrder, IndicesInBounds, RoutesSettle, SilentTilesGo, StopStops, SoundsEnd, SetDeviceReturns, EveryElementDispatched, StopEnds | see below | what must come about does, each part under its own fairness |
| `safe_parts` | EchoesInTime, LivingDevicesRun, SoundsComeBack, RescaledIsInRange, ListIsOfTheLiving, CallsReachTheLiving, MessagesSurvive, OnlyWholeMessages, PatternsMatch, SentFromItsOwn, SysexArrivesWhole, SentAsWritten, ImplementsEventQueue | see below | no order of calls and of threads' steps leads the parts into a wrong state |
| `port_time_hasty` (violation) | StopStops | 2 threads | finding 2 |
| `midi_overflow` (violation) | EveryEoxIsRead | events of 2 bytes, a queue of one, packets of up to 4 bytes | finding 3 |

Bounds of the parts in `fair_parts`:

- RoutingTable: a table of 3 and 4 requests before the repeated one;
- Envelope: a table of 0 .. 5, levels 0, 2 and 5, any change at any packet: all divisors that leave a rest and all that do not;
- AudioSource: sounds of 3, 6, 9 and 11 samples with floats exact up to 8, so that 9 is rounded down to 8 and 11 up to 12; rates of 1/2, 1 and 7/4 in quarters of a sample, packets of 1 and 4;
- tiles: 2 radios, 3 IDs of which one is shared, TH 2, 3 switchings, with iterators cut short;
- PortTime: 2 clocks and the XBeeController, 4 threads, intervals of 0 and not, with calm users;
- Serial: 2 devices and 3 threads, the least that let a thread of an earlier device, its successor and one more be there at once;
- OscServer: 4 ticks, 3 datagrams of four forms: for now, for two later times, and one that breaks off behind its first element; one stop;
- XBeeParser: a ring of 23, frames of 9, 420 bytes: ring and frame have no common divisor, so a frame comes to each offset and the ring wraps 18 times.

Bounds of the parts in `safe_parts`:

- DelayLine: a line of 5, lengths 0, 1, 2 and 4, packets of 1 and 3, 9 samples;
- AudioDevices: one ADC and two DACs;
- SoundFile: 2 frames, a soft amplitude and one beyond full scale on either side, seeks from the frame before the data to the one behind its end, files of every form, words of two and three bytes and floats, one channel and two;
- OscMethods: a controller, another module of the main thread and a DAC made by command, whose destructor forgets a method; messages of the types "is", "b", "bb" and "ff", so that each method of each module can be reached;
- OscWire: 3 arguments in up to 2 messages, strings and blobs of lengths around a multiple of four, buffers that start at 3 and 8 bytes and have to grow;
- OscPattern: every pattern of up to 3 tokens (letters, `?`, `*`, four sets, and lists) and every name of up to 4 of 3 letters;
- OscSockets: 5 descriptors, 2 ports, 2 servers, 2 addresses, 2 tries to bind;
- MidiQueue: 2 messages of 3 words, with and without zeros in every place;
- MidiInput: a queue of one event, packets of up to 4 bytes, a sysex of up to 6;
- MidiOutput: 3 calls, a sysex buffer of 3 bytes and a packet list of 5.

Deadlock is checked where the actors go on for ever (RoutingTable, DAC). In the
others the bounds on requests, losses, switchings, bytes or threads end an
execution.

### Fairness

- RoutingTable: the server thread finishes a handler it has begun, and
  a tile repeats its frame while it is connected (the reason the code's SetRoute
  returns early when nothing is to do).
- `DAC!FairSpec`: packets keep coming and are handled; PortAudio calls back
  while the stream runs (the callback always returns `paContinue`). That is one
  weak fairness per thread and none for a particular branch.
- TileWatch: porttime calls deadCheck again and again (`Pt_Start(0.2, ...)`).
  This assumes that no AudioClock in the same process stops or holds the timer
  (PortTime shows that it is one); `Coordinator/main.cpp` makes a ModuleController
  beside the XBeeController, so a user who creates an AudioClock there takes the
  assumption away.
- `TileSystem!SystemSpec`: besides, each server thread takes what has arrived.
- `Connections!Spec`: tiles repeat their frames (Tile::deadCheck counts on it)
  and server threads take what has arrived. The fairness of a frame is strong
  only because the bound `MaxInFlight`, which the program does not have, disables
  it again and again; nothing else does.
- `Catalogue!Spec`: server threads take what has arrived, main threads announce.
- PortTime: a thread that can run runs. `CalmNext` lets a user act only when a
  created thread has reached its run loop: with a human at the controls there are
  milliseconds for it.
- Envelope, AudioSource: an AudioClock goes on sending packets, and stream() goes
  through them.
- SerialThread: the caller and each reader run when they can; a device that has
  been read has another line in time (tiles send frames as long as they have
  power). Without the last, setDevice waits for ever in the join for a silent line.
- OscServer: its thread runs and time passes. There is no fairness for datagrams
  or for a start.

## 4. Findings

1. `Coordinator.cpp:92`: a module registered *before* on the tile is deleted. The
   repeated copies of a registration count as new ones, so two modules that
   register at nearly the same time delete each other (`registry_newest`;
   the trace is A1 B1 A2 of the copies).
2. `porttime.h:64`: "Pt_Stop() stops the timer." A stop that comes before the new
   thread entered its run loop is lost (`port_time_hasty`).
3. `pmmacosxcm.c:188`: process_packet should never meet an EOX, "because
   pm_read_bytes should get and read all EOX bytes", and `portmidi.c:1096`: after an
   overflow "we can just drop all remaining bytes". When the queue refuses an event
   of a sysex that stands behind a real-time byte in its packet, pm_read_bytes stops
   there, and process_packet goes on with the rest. The branch for the EOX
   consumes nothing: CoreMIDI's thread stays in it (`midi_overflow`: a packet
   REALTIME SYSEX data EOX and a queue with room for one event). That a sysex may
   stand behind another message is what process_packet's first test is for.

### Disagreements that have no run of their own

The modules state these, or have a constant that opens the case; TLC finds
each violated when the formula is put into a configuration.

| stated as | the code | what is said of it |
|---|---|---|
| `DAC!HeardWhereChSays` with `Ch = 1` | outputCallback plays `buf` on both channels and never `buf2` (`DAC.cpp:45-46`): `ch = 1`, which `Odore/MyModule.cpp:18` and `MLTest/ModuleManager.cpp:176` use for the right channel, is silent, and `ch = 0` is heard on both sides | `DAC.h:34`: `int ch;//L:0 R:1 Stereo:2` |
| `SoundFile!SoundsReopen` with `Shapes <- MCOddShapes` | aiffUpdate (`portsf.c:813-826`) counts the end of the data 8 bytes too far and writes the pad byte there: a mono AIFF of 24 bits and an odd number of frames cannot be opened again | a file the library closed is one it can open |
| `SoundFile!SoundsComeBack` with `Careful = FALSE` | a program may write right after a read: the file grows by the frames written, but they are put where the reader stopped and counted from where the last write ended (`lastwrite`); or after a seek that failed, which has moved the file before the data (`portsf.c:3231-3242`): the header is written over | what was written comes back |
| `SoundFile!FullScaleComesBack` | samples above are clipped to 1.0, multiplied to 32768 and cast to a short (`portsf.c:1582-1592`; so for 24 and 32 bits): 1.0 comes back as -1.0 | `portsf.h:172`: "clipping or non-clipping of floats to 0dbFS" |
| `SoundFile!SoundsComeBack` with a mode in `WriteModes` that clips and is not `double` | psf_sndWriteFloatFrames takes the peak of the clipped sample but stores the one that came (`portsf.c:1536-1544`) | `portsf.h:172` |
| `PortTime!FlagTells` with `CalmSpec` | a data message of less than 4 to an AudioClock makes packets of 0 samples and an interval of 0 (`AudioClock.cpp:48-52`); the timer fires once, its thread ends, the flag stays | `porttime.h:72`: "Pt_Started() returns true iff the timer is running." |
| `Playback!EverySoundReadInside` | the length is cast to a float (`AudioSource.cpp:38`): one above 2^24 that is rounded up starts the sound over before its first sample | a source reads inside its sound |
| `OscMethods!NoCallsOfTheDead` | DAC's destructor never deletes its method for two channels (`DAC.cpp:286-297`), which a later packet calls with a deleted DAC | a deleted module is not called; `deleteMethodFromServer` in the other destructors |
| `MidiInput!FilteredAreDropped` | the first byte of a filtered sysex is taken for a real-time message and enqueued (`portmidi.c:1079-1090`; is_real_time is false of it, so no filter is asked) | `portmidi.h:374-378`: filters "drop selected input types" |
| `MidiInput!RealTimeAlone` | a real-time byte inside a sysex goes into the word in progress like the others (`portmidi.c:1117`) | `portmidi.h:541`: "A real-time message will always occupy a full PmEvent" |
| `MidiInput!RoundsAdvance`, also with `RealTimeApart = TRUE` | besides finding 3, a real-time byte in a packet of its own inside a sysex passes for a running status of one byte; process_packet does not advance and never returns | `portmidi.h:519-521`: real-time messages can be inserted within a sysex |
| `MidiInput!SysexArrivesWhole` with `Truncated = TRUE` | what was collected of a sysex without EOX is left | `portmidi.h:533-539`: a truncated sysex is no error |
| `MidiOutput!NestedSentAsWritten` | a real-time event inside a sysex is sent twice, the second time with its padding as bytes of the sysex | `portmidi.h:632`: "Sysex data may contain embedded real-time messages." |
| `OscPattern!ListsMatch` | when a string of a list fits but the rest of the pattern then does not, the first character of the next string is skipped with the comma (`pattern_match.c:195-205`) | `pattern_match.c:184`, and `Means` |
| `OscMethods!ArgumentsArrive` with a handler in `PassesOn` and two numeric methods of one path (`Adds` of "ii" and "ff") | converted arguments are freed and left NULL for the next method (`server.c:1058`) | `lo_types.h:123-125` |
| `AudioDevices!TerminatesMatchInitialises` | after a failure PortAudio is terminated more often than initialised (`ADC.cpp:65-68`, `DAC.cpp:237-239`) | `portaudio.h:119-125` |
| `Catalogue!ListedInItsColour` with two colours | the local `mColor` of sendModuleList (`ModuleManager.cpp:18`) is never set | the field it hides (`Module.h:38`) is the module's colour |

## 5. What is proved

The theorems hold for every value of the constants that the modules' named
assumptions allow. Each rests on an inductive invariant, which TLC checked on the
instance of its run before it was proved, with one step per action.

| theorem | from | strengthened by |
|---|---|---|
| `TableShape` (FairPartsProofs): TypeOK, NoDuplicateRoutes, SlotsAccountedFor | `TableAssumption` | `CursorsInRange` (where `i` and `j` stand for each `pc`), `BeyondCleared` (slots past the table are cleared while an edit is between two writes), `HeldLive`. In the middle of a shift the same route is in two slots: "held" leaves out the slot just copied from |
| `EditsAreAsked` (FairPartsProofs): EditsOnlyWhatWasAsked | the same invariant | `AppendsAsAsked`, `ScansAsAsked`: which requests come to which steps. All steps but `Release` and `Publish` leave the set of routes as it is (`RoutesStay`): a shift moves the hole, not a route |
| `CleanPasses` (FairPartsProofs): CleanPassIsTheTable | the same invariant | `PassSoFar`: behind the callback's cursor nothing has changed, what it has sent is what is selected of the first `k` slots, and the table it began with is a beginning of the one there is |
| `WriterNeverLaps` (StreamProofs): BacklogBounded | `DACAssumption`, `RingAssumption` | an allowance: the frames a callback has gone through each allow for one packet taken by a stopped DAC; the invariant bounds the distance plus what the writer still may add by PlayingLimit plus that allowance, and says how stale each remembered distance can be |
| `RingImplementsQueue` (StreamProofs): for `Ch # 1`, ImplementsQueue | the same invariant | the refinement mapping `queue <- Contents, left <- out.l`; a store at `wp` appends to Contents, a frame takes its head |
| `MidiQueueIsFifo` (StreamProofs): ImplementsEventQueue | `MidiQueueAssumption` | `Holds(n)`: `n` slots from `head` on are full and the others zero, but for the one being cleared and the one being written; `IsWriting`: the words of the message so far are at `tail`, its zeros linked, the last of them, or the extra word, still 0, so that the slot is not whole before its last store. `MessagesAreRead`: what was written out is read as it was. Each access then maps to Offer, Accept, Refuse, Deliver, Merge or a stutter: the last store accepts, the last test delivers |
| `OutputIsSentAsWritten` (StreamProofs): SentAsWritten | `MidiOutputAssumption` | inside a call: what has been sent, the packet list and the sysex buffer, one behind the other, are a beginning of what the call will have written (`Open`), or all of it once the EOX has come; an error empties the list and keeps what was sent. `Reached(n)` carries this from event to event of a buffer and from buffer to buffer of a sysex; that the padding of the last event is never written is where the EOX stands |
| `SysexIsHeardWhole` (MidiInputProofs): SysexArrivesWhole (real-time bytes pass in their places, of a filtered sysex only its first byte) | `MidiInputAssumption`; `~Truncated` | two layers. A call of pm_read_bytes is followed round by round against `g[n]`, what the filters leave of its first `n` bytes: `OnWay` (what passed with the word is `g[i - 1]`), `Ended` or `Refused`, so that the call as a whole is `Heeded`. Between rounds of process_packet, `InputInv`: what is left of a packet is `AtShorts` (`shorts` counts the messages that are still to end), `BeforeSysex` (nothing of the sysex of this packet has been heard), `AtRest` (what nobody takes, after a loss or filtered) or `Embedded` (real-time bytes that had a packet of their own, or began one, inside of a sysex); or the callback is `Held`, in a round that takes no byte and never ends |
| `TokensAreTrue`, `LivingAreRegistered` (RegistryProofs): TokensNameModules, ModulesAreRegistered | `RegistryAssumption`, and `SomeCopyArrives` | `GoneIsTold`: if a module has gone and its token is set, or a copy under way will set it, then as many copies of its `DeleteMdtkn` as cannot have been lost are still to come, and nothing that sets it stands behind the first of them. `LivingIsTold` is its mirror image: a living module without its token has its copies of `SetMdtkn` to come, or the command to go |
| `WatchedRegistry` (RegistryProofs): ImplementsRegistry | `SystemAssumption` | the watchdog knows only tiles there are (`KnownTiles`), so its eviction is Registry's; deadCheck's next tile, the least that is left, exists by well-founded induction. `WatchedTokensAreTrue` draws the consequence: what was proved of Registry holds with the watchdog too |
| `RoutesComeFromTiles` (ConnectionsProofs): NoInventedRoutes | `ConnectionsAssumption` | `TouchingIsMet`, `CommandsAreMet`, `RoutesAreMet`: whatever a frame names, a datagram under way will add and a table holds was met by the tile of the module concerned, whether or not the module still has a token. That a module's path ends in its tile's number is what makes this inductive: a late command cannot reach a module of another tile |
| `ListIsOfOffers` (CatalogueProofs): ListNamesOffers | `CatalogueAssumption` | `OrdersAreListed`: what is under way to a host was ordered of a kind listed for it, and entries are never taken away or renumbered; what is under way to the list is of the sender's own kinds, whichever thread sent it and however many sockets were left |
| `HandlersInOrder` (FairPartsProofs): DispatchedInOrder | `OscServerAssumption` | the queue is sorted by time, and by arrival where times are equal; datagrams are numbered as they come (`Numbered`); every element in the queue, in hand or in the socket may follow all that was dispatched (`HandInOrder`, `QueueInOrder`). A bundle that comes when earlier elements are due is the hard case: it can be dispatched before them by less than EARLY |
| `TimerIsOne` (FairPartsProofs): with calm users OneTimer | `TimerAssumption` | no thread beyond `threads` exists, and the one live thread is the one published last or the one just created; a thread that ended by itself had the interval 0, and when the flag is set without a live thread it was the last one |
| `SerialHasOneReader` (FairPartsProofs): OneReader | `SerialAssumption` | `AliveWhen` (between the join and the next start there is no thread; only who waits for a thread has told it to go), `AtMostOne` |
| `FramesAreHandledOnce` (FairPartsProofs): EveryFrameOnce | `ParserAssumption` | `InStep`: less than a frame waits, from `rp` to `wp`, and begins with a frame's first byte. It needs a lemma on division by the frame's length |
| `EnvelopeInTable`, `PlaybackInSound`, and of the bench `IndicesStay` (FairPartsProofs): IndicesInBounds | `EnvelopeAssumption`, `PlaybackAssumption`, `RatesAssumption`; of a source only while the length as a float is not above the length, as for all up to `EXACT` | bounds of the quotients; the position before the end at every rate, and not below 0 where the float is not above the length; a step of another part leaves both alone |
| `LivingAreCalled`, `LivingAreListed`, `DeadAreSilent` (SafePartsProofs): CallsReachTheLiving, which leaves out what destructors forget, ListIsOfTheLiving, and NoCallsOfTheDead when they forget nothing | `OscMethodsAssumption`; for DeadAreSilent that each destructor deletes what its constructor adds | `MethodsInv`: each thread's jobs are the rest of one module's additions or deletions; as long as they do not overlap, the list holds what the states of the modules and the rest of that work say, each once, and where the walk stands is in the list; what was called of a deleted module is what its destructor forgot (`CalledAreForgotten`) |
| `OwnSockets` (SafePartsProofs): SentFromItsOwn | `SocketsAssumption` | `OwnersRemember`: who remembers a descriptor still owns it, and the clients' socket is a server's |
| `DevicesRun` (SafePartsProofs): LivingDevicesRun | `AudioDevicesAssumption` | the count is the number of living modules, as none has failed; so it comes to 0 with the last one only |
| `DelayIsInTime` (SafePartsProofs): EchoesInTime | `DelayAssumption` | the age of every cell: it goes round with the cursor, one older with each cell, and none is older than the bypass |
| `SoundsAreKept` (SafePartsProofs): SoundsComeBack | `SoundFileAssumption`; `Careful`; who clips uses the double writer | `Counted`: the data, what was asked for and the count of the descriptor or of the closed header agree, and a careful program's next write goes where its last ended, or where it sought. `Contents`: each word keeps its sample, but for 1.0 in integers, of which SoundsComeBack says nothing. Without either hypothesis it is false (section 4) |
| `RescaledStays` (SafePartsProofs): RescaledIsInRange | `SoundFileAssumption`; no writer of floats with clipping | `Covered`: the peaks, in the descriptor and later in the header, are not below any word of the file, also where a louder one was written over. The bound of the quotient is by division with a variable divisor |

The hypotheses that are not assumptions of the modules:

- `SomeCopyArrives` is `MaxLosses < Copies`. Commands of this system are sent
  three times and never acknowledged (`Module.cpp:110`); when all the copies of
  one datagram are lost its effect is lost too, and both properties fail: TLC
  shows it with `MaxLosses = 3`. `losses` counts over a whole behaviour.
- `~Truncated` of `MidiInput`, an EOX for each sysex, is what its run has, too;
  without it the property is false (section 4). Real-time bytes anywhere in a sysex,
  in packets of their own or not (`RealTimeApart`, which the run leaves out), are
  in: a real-time byte that comes alone is taken for one of the sysex, and the data
  that follow it in the next packet hang process_packet (section 4), but what has
  passed when it returns is right.
- The two of `SoundFile` are about what a program does. `Careful` ones do not write
  straight after a read or an error; and psf_sndWriteFloatFrames with clipping
  takes the peak of the clipped sample but stores the one that came, which the
  run's write modes leave out. Amplitudes are any: that 1.0 comes back as
  -1.0 from a file of integers is in the model and outside the property.

Assumptions of the modules that a proof needed and the code justifies:

- `OscMethods`: an object adds each of its methods once; what shares an address is
  of one class, and the program's own modules have addresses of their own
  (`ModuleController.cpp:113-114`: a path is made of the list's name and the
  tile's number, so that a module and its successor on a tile share it).
- `Connections`: modules that may stand on different tiles are different
  (`ModuleController.cpp:113-114`: the tile's number ends the path).
- `MidiQueue`: OVERFLOW and NoEvent, which stand for the result
  `pmBufferOverflow` and for none, are not messages.
- `OscServer`: times are those of the clock, and the invalid element of a bundle
  is one of it or 0.

The lemmas underneath. `SelectionProofs` has what the prover lacks: least numbers
and induction along `0 .. n` over a *set* (`Least`, `Induct`, from the library's
well-founded induction), the existence of a function that is defined step by step
(`Iterate`) and that it is the only one (`SameRun`), and with these what `Selected`, a recursive function, gives: its
type, its value at an `Append`, that it keeps prefixes, order, members and
uniqueness. The models use `Selected(s, T)`, members of a set, in place of
`SelectSeq(s, test)`, because a test is an operator, which the library's theorems
cannot be given. `SafePartsProofs` has what `Max` and `Min` of a set give, what
frames written over others leave, and the arithmetic of casts and quotients.

Only model-checked: all liveness (KeepsPlaying, RoutesSettle, SilentTilesGo,
DeadTilesLoseTheirModules, StopStops, SoundsEnd, ConnectedIsRouted, AloneIsSilent,
RequestsAreAnswered, SetDeviceReturns, EveryElementDispatched, StopEnds), which is
out of the prover's reach; and MessagesSurvive, OnlyWholeMessages and
PatternsMatch, which say what nested recursive functions and folds compute.

## 6. Not modelled

`PROJECT.json` lists each part with its reason. In short:

- the arithmetic of samples and of volumes: Sine, LPF, AudioClock's rendering,
  the gain of Delay, mixing, dither;
- Module's addresses and containers, Server, VModule, Data, Audio; formatting, logging;
- of liblo: TCP, URLs, multicast, the reply that enumerates methods, the
  conversions of lo_coerce themselves, pretty printing;
- of portmidi: the tables of devices, names, `readbinaryplist.c`, time stamps;
- of portsf: `psf_sndWriteShortFrames`, speaker masks, dither; in
  `psf_sndReadDoubleFrames` the 24-bit branch reads an integer of which one byte
  is never set (`portsf.c:3043-3051`), and the models follow the float reader;
- PortAudio and CoreAudio, a header and a binary: what they call and return is in the models;
- the applications' main functions, but for the wiring of the Coordinator.

Destructors of modules are modelled where their effect reaches another part
(tokens, the timer, streams, methods), not for the memory they release: a callback
that runs while its module is deleted has no defined outcome.

## 7. Plan

What would come next, in this order:

1. `XBeeParser` over a line that loses and doubles bytes: a delimiter in the data,
   resynchronisation after a lost byte, reads of more than a frame.
2. Two threads that edit one RoutingTable (`connectTo` from the main thread while
   the server thread handles a SetRoute).
3. Packet sizes along a chain of modules against their buffers (AudioClock::data2).
4. Proofs: what a message on the wire keeps (MessagesSurvive), along its arguments.
