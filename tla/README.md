# Sensors-System in TLA+

Sensors on conveyor belts count products and report through MQTT to a Python
IoT server, which relays between them and a C# backend over RabbitMQ. This
directory models that code, model-checks it with TLC and proves the properties
of its core with TLAPS. File and line references are to the repository.

## 1. The system

The repository holds about 800 lines of its own code and, under
`RTOS-firmware/.local`, the vendored Python of the firmware's tool chain, of
which `readelf.py` is a program of its own.

| Component | State | Operations | Talks to |
|---|---|---|---|
| IoT server, `sensors-service/src/receiver.py` | `node_map`, `tasks_map`, each Node's `task_id` and `counter`, `fw_ready` | `start_task_callback`, `end_task_callback`, `nodes_status_callback`, `mqtt_on_connect`, `mqtt_on_message`, the discovery loop | nodes by MQTT topics, backend by AMQP queues and exchanges |
| AMQP connections, `amqp_conn.py` | consumer's and publisher's connection and channel | `consume`, `connect`, `publish` | RabbitMQ |
| MQTT connection, `mqtt_conn.py` | paho client and its thread | `__init__`, `publish` | RabbitMQ's MQTT plugin |
| Configuration, `config.py` | options read at import | none | |
| Counting firmware, `RTOS-firmware/src/main/main.c` | `counter`, `prev_counter`, `data_sender` | interrupt handler, sender task, MQTT event handler, `app_main` | MQTT |
| Wi-Fi provisioning, `conn_config.c` | event group, `s_retry_num`, `smartconfig_handle`, flash memory | three event handlers, `sc_callback`, `smartconfig_task`, `mqtt_setup` | Wi-Fi driver, a phone |
| Dummy firmware, `dummy-firmware.py` | `counter`, `do_run` of two simulated nodes | MQTT handlers, `fw_loop` | MQTT |
| Dummy backend, `dotnet-service/Program.cs` | `numberOfRetries` | start-up attempts, a loop of start and end requests, two receive endpoints | RabbitMQ |
| `readelf.py` | position, depth, previous offset and version tables of a display | the displays, one per command-line option | a binary |

A backend request arrives on one of three queues (`startTask`, `endTask`,
`nodesStatus`), is handled by the server's consumer thread and becomes an MQTT
command to a node or a message on `updateStatus`. A node's report arrives on
`nodes/status`, is handled by paho's thread and becomes a message on
`updateTask`. Both threads write the same Node objects and the same publisher,
without a lock.

What makes this code hard:

* three threads over shared dictionaries, attributes and one AMQP connection;
* a publisher that drops a message when it finds its connection lost, and does
  not catch the exceptions of a closed channel;
* MQTT at QoS 0 over a clean session: questions, answers and commands get lost;
* a process that keeps everything in memory while its nodes run on;
* firmware with an interrupt handler, preemptive tasks and power cuts;
* a backend whose start and end requests travel in two queues and are sent
  again after any exception;
* in `readelf.py`, loops that know where they are in a table only by a counter,
  the entry before, or the order of two collections.

`PROJECT.json` lists every such hazard with its line and the properties that
cover it, or says why none does.

## 2. Modules

| Module | Models | Status |
|---|---|---|
| `SensorsService` | receiver.py, amqp_conn.py, mqtt_conn.py | checked; safety proved in `SensorsServiceProofs` |
| `TaskBoard` | what the server promises its backend (abstract) | implemented by `BookedService` |
| `BookedService` | the server under a backend that books; refinement mapping | checked with fairness; safety proved in `BookedServiceProofs` |
| `RtosFirmware` | main.c and `mqtt_setup` | checked; safety proved in `RtosFirmwareProofs` |
| `WifiProvisioning` | conn_config.c | checked; safety proved in `WifiProvisioningProofs` |
| `DummyFirmware` | dummy-firmware.py | checked; safety proved in `DummyFirmwareProofs` |
| `DotnetBackend` | Program.cs | part of `SensorsSystem` |
| `SensorsSystem` | backend, server, node, the queues between them, faults | checked; safety proved in `SensorsSystemProofs` |
| `ElfDumps` | the dumps of readelf.py that keep state | checked; every property proved in `ElfDumpsProofs` |
| `ElfVersions` | the version lookups of readelf.py | checked; every property proved in `ElfVersionsProofs` |

Every `MC...` module gives the constants of the module it is named after their
values for TLC. `SensorsSystem` is an instance of `SensorsService` and of
`DotnetBackend` and joins their actions; nothing of the server is written twice.

### SensorsService

State. `main`, `amqp` and `mqtt` hold where each thread is and its local
variables; `node_map` is a set of ids, the attributes of the Node objects are
the functions `task_id` and `counter`, and `tasks_map` maps a task to a node or
to `NoNode`. `amqp_pub` is the state of the publisher behind the global:
`undefined` until receiver.py:132, then `open`, `lost` (the broker has dropped
it and nobody has noticed) or `closed`. `discover`, `subscribed` and `exchange`
are what the service sees of the broker and the nodes. `issued`, `view`,
`undelivered` and `overlap` are history: what the outside was told.

Actions. A handler is cut where another thread can see or change something
between two of its accesses, and nowhere else:

| Code | Actions |
|---|---|
| receiver.py:121-137 | `OpenMqtt`, `MainAsks`, `LeaveDiscovery`, `OpenPublisher`, `StartConsumer`, `Exit` |
| `start_task_callback` | `AskUnknown`; or `StartTask` (up to `self.task_id =`), `FinishStart` |
| `end_task_callback` | `EndTask` (pop and `self.task_id =`), `FinishEnd`; or `EndTaskRaises` |
| `nodes_status_callback` | `NodesStatus`, `ListNode` per entry, `ListEnds` or `ListRaises`, `PublishStatus`, `AmqpReconnects` |
| `mqtt_on_connect` | `MqttConnects` |
| `mqtt_on_message`, discover | `OnDiscoverResponse` (as `NodeAnswers` or `NodeAnnounces`), `Register` |
| `mqtt_on_message`, status | `OnStatus` (the comparison), `StoreCounter`, `CopyNode`, `PublishUpdate`, `MqttReconnects` |
| `AMQPPublisher.publish` | operator `Publish`, by outcome |

`StartTask` is a request with a taskId; without one receiver.py:46 raises a
KeyError, which ends the consumer thread as `EndTaskRaises` does and is left out.
A handler that returns without an effect is a stuttering step. Three pairs of
accesses are one step although a thread switch fits between them: `pop` and
`task_id = -1` (only the consumer thread reads `tasks_map`, so nobody can tell),
`counter = 0` and the command that follows (the command reads neither), and the
two subscriptions of `mqtt_on_connect`. The keys a Node object would be found
under are its id, so the model has no object identities: a node is never
removed, and an id is registered by one thread only.

External behaviour the service depends on, as used by the pinned versions
(pika 1.1.0, paho-mqtt 1.5.0, retry 0.9.2): `basic_publish` on a lost
connection either writes to a dead socket or raises an AMQPConnectionError; on
a closed channel it raises a channel exception, which the except clause does
not name; a publish to a missing exchange closes the channel. Paho logs an
exception of `on_message` and goes on; its thread is a daemon, so the process
ends with the consumer thread.

Abstractions: ids and counters are members of small sets and only compared; the
MassTransit envelope, JSON and printing are left out; `task_id >= 0` is
`task_id # NoTask`, since the backend's ids are not negative.

### WifiProvisioning

State. Flash memory (`nvs`), the driver (`config`, `station`, `events` posted
to the default event loop), and conn_config.c's own variables: `s_retry_num`,
`smartconfig_handle` (is it set), the event group `bits`, where
`smartconfig_task` is and where the smartconfig `session` is. Each event
handler is an action; SC_STATUS_LINK is two, cut between its two writes to flash
memory; the task has one action from `start_smartconfig` to the first wait and
one per wake-up (`Configured`, `Restarted`, `Logged`). `PowerCycle` may happen
anywhere and keeps `nvs` only. The session is assumed not to hear a phone
between lines 180 and 182 (microseconds against seconds).
`WIFI_REASON_BASIC_RATE_NOT_SUPPORT` only changes a radio setting and is left
out; `mqtt_setup` is in `RtosFirmware`.

### RtosFirmware

State. `app_main` is where that task is, `isr` whether `sensor_data_reader` is
installed, `sender` where each `mqtt_data_sender` is; the other variables have
the code's names. `Senders` are task control blocks: after a second tasks/start
there are two senders and one handle.

| Code | Actions |
|---|---|
| main.c:107-128, conn_config.c:206-220 | `mqtt_setup`, `ClientAssigned`, `gpio_install_isr_service` |
| main.c:63-74 | `Connects`, `Disconnects` |
| main.c:76-94 | `StartTask` or `StartAborts`; `EndTask` or `EndDeletesFreed` |
| main.c:30-34 | `Interrupt` |
| main.c:36-50 | `Format` (comparison and sprintf), `PublishReport`, `Mark` |
| esp-mqtt, as main.c:43 uses it (external) | `Arrives`, `Expires` |

main.c:43 publishes at QoS 1, so handing over a report is not delivering it. The
client keeps it in `outbox` (`PublishReport`) or refuses it, and the code does
not look at the result. From the outbox a report arrives while the session is up,
with its acknowledgement or without: then it may arrive again, after newer ones,
after a reconnection or in the next run (`Arrives`). What is not acknowledged for
too long is given up (`Expires`), and a power cut empties the outbox. `handed` is
the last count the client took in this run, `reported` the last the broker got.

The cuts follow the priorities: an interrupt may come anywhere, the MQTT task
preempts a sender anywhere, nothing but the interrupt preempts the MQTT task.
`client` is assigned when `mqtt_setup` returns, although the client has been
started in it. `vTaskDelete` of a task that is gone writes to a control block
that has been freed: `EndDeletesFreed` lets it pass or reboot the node.
`PowerCycle` keeps nothing. The answer to nodes/discover changes nothing.

### DummyFirmware

One Node: paho's thread (`OnStart`, `OnEnd` and the connection) and any number
of threads in `fw_loop`, cut at every access to `counter` and `do_run`: `Load`
and `Store` are the halves of `counter += 1`, then `Dumps` and `Publish`. Asleep
and at the `while` are one place, because both only wait to read `do_run`.

### DotnetBackend and SensorsSystem

`DotnetBackend`: `numberOfRetries` attempts to start the bus, then start and end
requests in turn; `Throws` is the empty catch, which begins the cycle anew
whether the request that failed has arrived or not. All requests are alike, so
a queue is a number.

`SensorsSystem`: the consumer takes from either queue (`TakeStart`, `TakeEnd`,
the first halves of the callbacks); the second halves publish a command
(`TellStart`, `TellEnd`), which goes to the node in order or, without a session,
nowhere. The node is that of dummy-firmware.py with its loop left out:
`do_run` says whether it counts. Up to `MaxFaults` times a command or an answer
is lost, a connection drops (the consumer's takes the prefetched requests with
it, because of `auto_ack`), a send throws, the node or the server restarts with
empty memory.

### TaskBoard and BookedService

`TaskBoard` has one board of tasks: `Assign`, `Release`, then `Tell` before the
next change, which also clears the node's count; `Report` sets a count,
`Observe` takes task and count of one node off the board in one step, `Deliver`
or `Lose` ends the update. `BookedService` restricts the environment of `SensorsService` to
requests that do not set `overlap` and maps `task_id` to the board, `counter` to
the counts, the request that is half done to `untold`, and paho's local copy to
`update`. A copy is an `Observe`, whose counter is that of the board at that
moment and no other.

### ElfDumps

Each dump is a loop over an input, an action is one pass of it, `out` is what
has been printed without wording. `display_hex_dump` (`HexLine`) and
`display_string_dump` (`StringLine`: the two inner scans of a pass) work on the
classes of bytes that they tell apart. `DieLine` is a pass of
`_dump_debug_info`; the DIEs are serialised as `CU.iter_DIEs` does, and `open`
is the nesting that the program does not know. `ArangesLine` keeps the offset
before, as the code does, and `NamesGroup` pairs the next header with the next
run of equal offsets in `Items`, the OrderedDict after one assignment (`Put`)
for each name of the section in turn. A name that comes twice keeps its first
place and takes the last offset, as there.

### ElfVersions

`SymbolVersion` is `_symbol_version` with its three ways to fail: None,
an exception, a value; `SymbolLine`, `RelocLine` and `VersionLine` are the
displays that call it, with what each does with None. A file is given by what
the lookups read: raw version numbers, numbers of definitions and of needs,
names, relocations; `FilesAssumption` gives their types and nothing else.
`Order` is the order in which main runs the displays that it is asked for. A
number of `Unreadable` (0xff00 and 0xff01, which pyelftools returns as words) is
not a version: `int(index)` raises, whatever the tables hold.

`WellFormed` is what GNU ld writes: definitions numbered from 1 without a gap,
needs behind them, a number of one of them for every symbol, none of them
reserved. The last condition is needed: 0xff00 is 32512 with the hidden bit, so
a file with 32512 versions would otherwise be well-formed and end the program.
The run has a need of that number, and the symbols that have it.

## 3. Runs

| Run | Instance | Shows |
|---|---|---|
| `registry` | 2 nodes, 2 tasks, no reports, fair | maps, commands and status replies under every order of requests; discovery ends; unknown nodes are found |
| `updates` | 1 node, 2 tasks, counters 0..1, fair | reports racing `switch_task` and a failing publisher; requests finish, the publisher's connection comes back |
| `threads` | 1 node, 1 task, counters 0..1 | *violation*: two threads in one publisher |
| `board` | 2 nodes, 2 tasks, counters 0..1, fair | the server implements `TaskBoard` |
| `system` | 1 node, 1 task, 2 messages in each queue, 3 faults, fair | the three programs together, with everything that may be lost |
| `rtos` | 2 senders, 2 items, fair | counting, its reports up to the broker, and its handle |
| `dummy` | 2 loops, 3 passes, fair | overlapping loops |
| `wifi` | 2 accounts, 2 retries, fair | fallback and what a session leaves behind |
| `wifi_stranded` | the same | *violation*: no fallback after the first success |
| `elf_dumps` | every small section, forest of DIEs and table | what the dumps show is what is there |
| `elf_names` | sections as compilers write them | *violation*: names under the header of another unit |
| `elf_versions` | every small set of version tables | versions and exceptions |

### Bounds

Every model is finite by its guards. `board` alone has a constraint as well,
`Focus`, to keep a second node affordable (see below).

* `SensorsService` has no queues and no counters that grow. Two nodes and two
  tasks are the fewest for a task to move between nodes and a node between
  tasks, which is what the registry properties distinguish; `updates` needs a
  node that changes its task under a report, hence two tasks, and counters 0..1
  so that a stale counter differs from a cleared one (the proof of `ViewCoherent`
  has any counters). `registry` leaves reports out because none of its properties reads a counter.
* `board` has two nodes and two tasks, so that a task can change its node and a
  node its task under an update, and counts 0 and 1, the cleared and a reported
  one. `Focus` leaves out requests for the nodes' status, exchanges that are
  missing, and questions once the server is up, none of which `TaskBoard` sees:
  they are in `registry` and `updates`. The proof of the safety part
  has no such limit; the liveness part, that a node is told, is checked for the
  behaviours inside `Focus` only.
* `RtosFirmware`: two senders make a lost handle; two items are a count that is
  read and one that passes while it is reported, or two reports in the outbox
  that arrive in either order. A third tasks/start without an end waits for a
  free control block.
* `DummyFirmware`: two loops interleave their halves of `counter += 1`; three
  passes give a report before, between and after a reset.
* `SensorsSystem`: two requests of a kind are what one exception of the backend
  repeats, and with two in the other queue every order of start, end, start, end
  occurs. Two commands in flight are one that is overtaken by loss and the one
  that decides. Three faults are enough for a restart of the server while the
  node runs, followed by the loss of the request that would have repaired it,
  and one more. Commands to a node that is offline stay in its queue, although
  the broker keeps none for a clean session: that loss comes out of the same
  budget of faults as the others. One node and one task are what Program.cs
  uses; of a backend with more of them this run says nothing.
* `WifiProvisioning`: two retries distinguish first, last and exhausted; two
  accounts make a torn pair.
* `ElfDumps`: hex dumps of 0 to 50 bytes go past three lines of 16; sections of
  up to 5 bytes of the four classes have two strings with any gap; aranges of up
  to 4 entries in 3 units, and up to 3 sets of up to 2 names, have every grouping
  of neighbours; 10 DIEs reach a depth of 5 and several units.
* `ElfVersions`: two symbols behind the empty first one, two definitions, two
  needs, in either order, absent, with a missing number or with one that is
  reserved when it is hidden. The proof covers tables of any size.

### What the properties say, and why they are not obvious

The server:

* `ViewCoherent`: the counter comparison at receiver.py:107 suppresses reports.
  It never hides anything from the backend, whatever `switch_task` does
  meanwhile, except after a publish that failed. This depends on the order of
  the assignments in `switch_task`, in which the counter comes last.
* `RegistryBijective`, `NoKeyError`: hold as long as the backend starts a task
  on an idle node and on one node only (`overlap` is FALSE). Without that,
  receiver.py:67 pops the node's current task and not the requested one, and a
  second pop ends the consumer thread.
* `CommandsMatchRegistry`, `StatusReplyMatchesCommands`: what nodes were told
  and what the backend is told agree, although the array is built while paho's
  thread registers nodes.
* `ReadyBeforeServing`: `loaded` is set before the first node is stored, so the
  set may still be empty when requests are served, but never the publisher
  undefined.
* `SeparateConnections` (violated): amqp_conn.py:20 says "separate connection
  for each thread"; the publisher is shared by two.
* `PublisherIsRepaired`, `RequestsFinish`, `ConsumerStarts`,
  `UnknownNodeIsFound`: liveness of the retry loops.
* `ImplementsTaskBoard`: under a backend that books, all of this looks like one
  board. An update carries the task and the counter that the Node had together at
  one moment, although they are two attributes that another thread is changing;
  a task has one node, and no change of the board is made before the node has
  been told of the last one. The mutant, an update with the counter of the
  message instead of the attribute (receiver.py:112), is caught because a task
  may be switched between the store and the copy.

The programs together:

* `ConsumerSurvives`: Program.cs is a backend that books, whatever is repeated,
  dropped or overtaken, so the premise of the server's properties is met.
* `NodeObeysRegistry`: the server has no acknowledgement of a command. Server
  and node may disagree only while commands are under way or after the last one
  was lost; the order in which the two halves of a callback write matters.
* `RunsEnd`: nobody repairs a lost end request, but a later cycle of the backend
  does, also for a server that has forgotten the run.

The firmware:

* `HandleIsLive`, `OneSender`: what tasks/start and tasks/end may rely on.
  `data_sender` is never cleared.
* `LagIsUnseen`: what the node has handed to its client is behind the belt by the
  items since the counter was last read, no more, unless a report was refused or
  deleted with its sender. It is about the client, not the broker.
* `NewestIsOwed`: the other half of the way. What the client took last is the
  broker's last count, or still in the outbox, or one of the two things has
  happened that QoS 1 leaves open: an older report was sent again after it, or it
  was given up. So an older count may stay the broker's last for good, and
  nothing in main.c notices: `prev_counter` keeps it from being sent anew.
* `WithheldOnlyByRace`: `prev_counter` is taken from the counter after the
  report and survives tasks/start. It keeps a count from the client in the two
  cases that this allows and in no other; what the client then does with a count
  it took is `NewestIsOwed`.
* `SenderCatchesUp`: liveness, in every run, whatever the runs before left.
* `ReportsNumberPasses`, `AtMostOneLateReport`, `EndStopsAllLoops`: the dummy's
  counter is exact without overlapping loops; with them, every loop still makes
  one late report at most and all of them end.
* `SessionOwnsRadio`, `StoredAccountIsUsed`, `FallsBackUntilConfigured`,
  `TornCredentialsAreReplaced`: smartconfig until its first success.
* `FallsBackToSmartconfig` (violated): conn_config.c:116 promises it without
  that limit. Two kinds of state violate it: the task has deleted itself, and the
  task is about to, because both bits are set and it looks at
  `ESPTOUCH_DONE_BIT` first (`Finishing`, conn_config.c:192-196).
  `FallsBackUntilConfigured` names both and covers every other state.

readelf.py:

* `HexLinesTile`, `StringsAreWhole`: every byte, or character, once.
* `DepthIsNesting`: the counter that is printed is the depth, over a flat series.
* `ArangesGrouped`: each unit with ranges has one table, under its own header,
  although the program keeps one offset. The premise `OneSetPerUnit` says that the
  entries of a unit are together: without it, a set that begins with an entry equal
  to the first of all gets no zeros before it. A unit with an empty set leaves
  nothing in the input, and so no table.
* `NamesUnderTheirHeader`: `_dump_debug_namelut` pairs two collections by
  position. It shows a section as it is exactly if the section is `Separable`: no
  name twice, no empty set, neighbouring sets of different units. The inputs have
  sections of both kinds, and the equivalence says that each breach shows.
* `NamesPerUnit` (violated): namelut.py:29 says that items are stored on a
  per-CU basis. Two units that define one name are enough to break it, and
  .debug_pubtypes has `int` in every unit's set; the section of the run has no
  empty set, one set per unit, and no name twice in a set.
* `VersionsAreTheirEntries`, `DumpsAreComplete`: the choice of the table by
  comparing numbers is right, and no None is subscripted, on a `WellFormed` or
  unversioned file. The run has the other files too, on which the program may
  end in the middle.

### Fairness

`SensorsService`: every thread that can run does (weak fairness of its steps),
`retry(delay=5)` without a limit dials until the broker answers, paho
reconnects. The discovery loop asks every 1.5 s, forever: strong fairness of
`MainAsks` and of each `NodeAnswers` says that a link that works again and again
carries a question and an answer in the end. Requests, reports and failures have
no fairness. `PublisherIsRepaired` assumes the exchanges exist: otherwise the
channel is closed for good, which is a hazard of its own.

`SensorsSystem`: each program runs and the broker delivers what it has; strong
fairness of `TakeStart` and `TakeEnd` says that neither queue is starved, of
`HandleDiscover` that the node is online for some question. Faults have none,
and are finite: with one in every cycle of the backend, nothing would have to
end. `TaskBoard` requires weak fairness of `Tell` only: the process may end with
an update in flight. In `RtosFirmware` and `DummyFirmware` the senders and the
loops run; nobody has to send a command. `WifiProvisioning`: the tasks and the
event loop run, the driver answers an attempt to connect, the node boots; nobody
has to hold a phone. `ElfDumps` and `ElfVersions` state safety only.

Only the stuttering actions `Terminated`, `Finished` and `Abandoned` stand for a
program that has ended; deadlock is checked in every run.

## 4. Proofs

Each proof has the form Init => IInv, IInv /\ [Next]_vars => IInv', IInv =>
property, for any value of the constants with the module's assumption.

`SensorsServiceProofs`, for any sets of nodes, tasks and counters:

1. `TypeCorrect`. `TypeOK` alone is not inductive: a step that uses the node a
   thread holds needs to know that the node is registered. `TypeInv` adds where
   each thread's node comes from (`LocalsOK`), that nothing is known of a node
   before it registers (`UnknownUntouched`) and that tasks belong to registered
   nodes (`TasksOfKnownNodes`).
2. `CommandsMatch`, from `CommandsInv`, which adds that a node being ended has
   no task.
3. `RegistryIsBijective` and `PopFindsItsKey`, from `RegistryInv`: between the
   two halves of a start the maps are inverse up to the entry about to be
   written.
4. `StatusReplyMatches`, from `StatusInv`: entries are right when they are made
   and no command is published until the array is.
5. `ViewIsCoherent`, from `ViewInv`: a message in flight holds the current
   attributes of its node, or the node's counter is zero, or the node is between
   the halves of `switch_task`.
6. `ServesWhenReady`, from `ReadyInv`.

The lemmas `OutsideFrame`, `ReadingFrame` and `Steps` split a step into those of
other threads, those of the consumer thread that only read, and the four that
change the registry, so that each invariant deals with the last only.

`BookedServiceProofs` proves `ServiceImplementsTaskBoard`: initial states map to
initial states and every step to a step of `TaskBoard` or a stutter, one lemma
for each pair (`StartAssigns`, `EndReleases`, `FinishTells`, `CopyObserves`,
...). It rests on `TypeInv`, `CommandsInv` and `RegistryInv`: that a task is
assigned to one node is the bijection, that a node is told the right command is
the commands' invariant.

`SensorsSystemProofs`, for any bounds on messages and faults:
`ConsumerNeverDies`, `NodeFollowsRegistry` and `SystemTypes`. `RegistryInv` of
that module says that the server's maps agree up to the half of a callback that
is still to come, and that a node has a task only if it is registered;
`CommandInv` that the last command in flight, or else `do_run`, is what the
registry says, unless a history variable says that it was lost. The lemmas
follow the programs: server, requests, node, faults. `TypeInv` is `TypeOK` with
`SystemInv`, since what the consumer writes into the server's maps depends on
what it holds, and with the guard that keeps `numberOfRetries` from passing zero
(`ProgramsOK`).

`RtosFirmwareProofs`, for any number of control blocks: `IInv` is `Control`
(types, the handle, one sender), `InFlight` (a report being sent holds the
counter minus the items since), `LagIsUnseen`, `NewestIsOwed`, `PrevIsBehind`
(`prev_counter` is ahead of the counter on the first pass of a run only) and
`WithheldOnlyByRace`; the last is not inductive without `PrevIsBehind`.
`HandedLagsByUnseen`, `NewestReportIsOwed` and `SuppressedOnlyByRace` hold for
any outbox, so for any order of retransmissions.

`DummyFirmwareProofs`: `ReportsAreNumbered` from `PassCounts` (without overlap,
each position of the one loop fixes counter minus reports) and `AddFits` for the
types; `OneLateReport` from `LateIsLast` (a loop that has published after
tasks/end has ended or is at its `while`).

`ElfDumpsProofs`, for inputs of any length:

1. `HexDumpTiles` from `HexInv`: the position is the end of the last line.
2. `StringsWhole` from `StringInv`: the position is the start, the end or a NUL,
   each line is whole, and every printable byte before the position is on exactly
   one line.
3. `CounterIsDepth` from `InfoInv`: `die_depth` is the number of open DIEs, and
   the i-th open DIE is printed at its distance from the outermost.
4. `ArangesAreGrouped` from `ArangesInv`, which knows the place in `out` of each
   entry's line (`Printed`): the places grow, those of a unit are neighbours, a
   header is right before the first place of a unit and nowhere else, and zeros
   are behind its last. What a table holds follows from these places.
5. `NamesKeepTheirHeader`, both directions for every input. That a `Separable`
   section is shown as it is comes from `NamesInv`: after h groups `out` is the
   first h sets as they should be printed, `pos` is the number of their names, and
   h headers are used; `GroupEndIs` shows that the run of equal offsets at `pos`
   is then exactly the next set. That no other section is comes from `LinesInv`,
   which holds without a premise: `out` has a line for each header and each item,
   a header is followed by an entry, and the entries before and behind it have
   different offsets. `OnlySeparable` then finds in an `out` that is right that
   no set is empty, that neighbours differ and, counting lines (`AllLines`), that
   the dictionary lost no name.
6. `DumpTypes` from `HexInv`, `StringInv`, `InfoInv` and `BoundsInv`. That `pos`
   stays inside the table of names depends on `ItemsBounds`: the dictionary never
   has more items than the section has names.

The library of induction principles is out of reach, so what `Items` and
`FlattenSeq` compute is shown by `NatInduct`, a principle about a set of numbers
that follows from the least element of its complement (`MinOf`).

`ElfVersionsProofs`, for any set of files that `FilesAssumption` admits:
`LookupIsEntry` says that on a `WellFormed` file `_symbol_version` answers with
the entry that the symbol's number belongs to, hidden or not. It rests on
`LinkedTables`: a number is at most the number of definitions exactly if a
definition has it. `VersionsKeepTheirEntries` is inductive with the types alone
(`LineInv`, one line at a time). `DumpsComplete` needs `CountInv`: the display
that runs has printed `pos` lines and those behind it none, which depends on a
display not being asked for twice; and `CalmInv`: on such files, no lookup
raises.

`WifiProvisioningProofs`, for any number of retries and any set of accounts.
`DriverOK` says which events can be queued in each state of the station,
`TaskOK` relates the task, the session and the bits; the properties follow from
both together.

Every invariant of a passing run is a theorem. Model-checked only: liveness,
which needs fairness and ENABLED, so `RequestsFinish`, `PublisherIsRepaired`,
`ConsumerStarts`, `UnknownNodeIsFound`, `RunsEnd`, `SenderCatchesUp`,
`EndStopsAllLoops`, `TornCredentialsAreReplaced` and the liveness part of
`ImplementsTaskBoard`; and the three violations, which are counterexamples.

## 5. Not modelled

* config.py: read once at import, no state afterwards.
* The broker's and the containers' configuration: third-party programs. What the
  services depend on is modelled where they use it.
* The rest of readelf.py: ELF headers, notes, dynamic tags, line programs and the
  like are one print per entry without state, call-frame tables are decoded by
  the library.
* The vendored packages and generated files, which are not part of the running
  system.
* The React frontend and main backend of the repository's README, which are not
  in the repository.
* Reports in `SensorsSystem`: they influence neither requests nor commands. So a
  report of an old run that reaches the server after the next tasks/start
  (receiver.py:107) is a hazard without a property: nodes/status names no task
  and the server cannot tell.
