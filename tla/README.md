# Goldstone platform drivers in TLA+

This directory specifies, model-checks and proves properties of the parts of
oopt-goldstone that hold state and run concurrently: the kernel drivers of the
Wistron platforms (`packages/platforms/wistron`) and of the plug-in units
(`packages/base/any/piu`), and the fan and LED policies of the ONLP platform
module above them. The rest of the repository builds images: kernel
configurations, package descriptions, start-up scripts around programs that
live in other repositories.

## Inventory

Paths are relative to `src/packages/`. X86 stands for
`platforms/wistron/x86-64/wtp-01-02-00`, ARM for
`platforms/wistron/arm64/wtp-01-c1-00`.

| component | state | operations | talks to | what is hard | what makes it correct | module |
|---|---|---|---|---|---|---|
| IPMI path of the x86 drivers (`X86/modules/builds/*-{fan,psu,thermal,led,sys}.c`, five copies) | `struct ipmi_data`: `tx_msgid`, `rx_msg_data`, `rx_result`, `read_complete` | `ipmi_send_message`, `ipmi_msg_handler` | BMC, through the kernel's IPMI core | the reply runs in a tasklet, may come after the timeout or never | a send gets its own answer, or one whose age is bounded; no caller hangs | `IpmiService`, `IpmiChannel` |
| x86 led driver | one cache of two registers | shows and stores | IPMI path | a cache older than a store, read-modify-write of a cached value | a store changes its own LED | `Led` |
| x86 fan driver | ten caches with `valid` and `last_updated`, one `update_lock` | shows and stores | IPMI path | a failed refresh, a number wider than its byte | a show is its fan's and recent, a success is true | `Fan` |
| x86 thermal driver | a cache per sensor | shows and stores | IPMI path | two messages into one buffer | a record shown is whole and recent | `Thermal` |
| x86 sys driver | the reset register of the FPGA, the EEPROM behind the BMC | reads, reset stores | IPMI path, I2C | a read in pieces, read-modify-write, a failed read written back | bytes in order; no reset nobody asked for | `Sys` |
| x86 psu driver | a cache per slot, its copy of the IPMI path | shows | BMC | thirteen messages, two early ends, a second unlock that lets two handlers in | a show prints its own record, a failed one is not served | `Psu` |
| i2c-imc (`X86/modules/builds/i2c-imc.c`) | one mutex, `suspended`, the registers of two channel pairs, the polling interval | transfer, suspend, resume, probe, remove | memory controller, shared with its own polls and the BIOS | suspend against a transfer, timeouts, a register for two channels | a transfer reaches its own target; the polling is given back | `Imc` |
| PIU driver (`base/any/piu/kbuilds`) | `piu->type`, two simulate flags, a mutex | shows and stores, `open`, ioctls, eeprom | modules in the slot, by two protocols | the mutex covers single steps; modules are hot-swapped | handlers answer as if alone; a simulated plug-out is silent | `Piu` |
| DPLL driver (`ARM/goldstone-module/builds/dpll`) | `current_page`, a mutex; the chip's page latch, mailbox and registers | shows and stores, raw ioctls | chip on I2C | a cache of chip state, two transfers per access, each may fail | bytes go to the register they name; priorities change as asked | `Dpll` |
| CFP2-DCO driver (`ARM/goldstone-module/builds/cfp2`) | set-up of class, devices and files, a simulate flag per port | shows, ioctls, set-up, removal | transceiver on MDIO | the flag is read outside the lock of the bus; set-up fails half-way | an answer is its own port's; at most one late access | `Cfp2` |
| arm64 led driver (`ARM/modules/builds`) | four FPGA registers and their cache | shows and stores | FPGA | bits are only ever set; two registers per store | no false colour, no other LED | `LedBits`, `ArmLed` |
| arm64 psu driver | a cache per unit | shows, setting of the fans' speed | units on a CAN bus | a partial reading, a cache a store makes new, width of the speed's byte | what is held is what the unit is set to | `ArmPsu` |
| arm64 fan policy (`ARM/onlp/.../sysi.c` with psui, fani, thermali, sfpi) | target, slow-down counter, test settings | `manage_fans`, `set_fans` | the drivers' files | hysteresis, failing files, exchanged power supplies, restarts | an alarm ends in the maximum | `FanPolicy` |
| arm64 LED policy (`sysi.c` with ledi, platform_lib) | none between runs | `manage_leds` | the LED driver | modules exchanged in a run, half an array never written | the LEDs tell what is there | `LedPolicy` |
| installer, initrd, management scripts, build tools, x86 ONLP module | files | one-shot or stateless | - | - | - | not modelled |

The drivers share no state with one another: each has its own lock, IPMI
interface or bus, and files. What couples them is made part of a model: the
four IPMI clients are written over the actions of `IpmiService`, which
`IpmiChannel` implements; the LED driver and the LED policy use one `LedBits`;
the x86 psu driver, whose second unlock breaks the premise of `IpmiService`
(one caller at a time), has a channel of its own.

## Modules

| module | what it is |
|---|---|
| `IpmiService` | what a driver may rely on when it sends a message: one caller at a time; an answer is its own or, in a driver that has seen a timeout, the previous one |
| `IpmiChannel`, `IpmiChannelProofs` | the request/reply path in detail, with the lines of the fan driver; implements `IpmiService`; its theorems |
| `Led`, `Fan`, `Thermal`, `Sys` | the clients of `IpmiService` |
| `DriversProofs` | the theorems of these four, and of the four side by side |
| `Psu` | the x86 power supply driver with its channel |
| `Imc`, `ImcProofs` | the memory controller's SMBus; its theorems |
| `PsuImcProofs` | the theorems of `Psu`, and of `Psu` and `Imc` side by side |
| `Dpll`, `Piu` | the DPLL driver and its chip; the PIU driver with both bus protocols |
| `ModulesProofs` | the theorems of `Dpll` and `Piu` |
| `Cfp2`, `Cfp2Proofs` | the CFP2-DCO driver from set-up to removal; its theorems |
| `LedBits`, `ArmLed`, `LedPolicy` | the bits of the arm64 LEDs; the driver that stores them; the policy that decides them |
| `ArmPsu` | the arm64 power supply driver and its units |
| `ArmProofs` | the theorems of `ArmLed`, `LedPolicy` and `ArmPsu` |
| `FanPolicy`, `FanPolicyProofs` | the fan policy; its theorems |
| `MC*` and `*.cfg` | instances for TLC |

A definition whose comment begins with "Mutant" is a plausible mistake in the
definition that follows it and is used by no specification.

### IpmiChannel

A caller walks `idle -> blocked -> locked -> armed -> waiting -> returned ->
locked -> idle`: `Call` reaches `mutex_lock`, `Arm` is `ipmi_send_message` up
to the address check, `Submit` the call of `ipmi_request_settime` (or
`SubmitFails`), `WaitReturns` and `WaitTimesOut` the two ends of
`wait_for_completion_timeout`, and `Use` is the caller looking at `rx_result`
and its buffer. Show and store handlers differ only in how many messages they
send and whether a message has a reply buffer, which `Arm` leaves open. The
handler of the reply is two steps, the comparison of the message number and
the rest, so that it can run between any two steps of the caller. A reply's
payload is the number of the request it answers.

Assumptions about the code that is not in the repository: the IPMI core
delivers each accepted request's reply at most once, at any later time, in any
order, or never; a successful answer to a reading command has a payload and an
error code has none; the tasklet that delivers a reply takes microseconds and
is never suspended in its middle for the seconds of a timeout.
`cur` and `prev` (the last two accepted requests), `used`, `timedOut` and
`lateWrite` are history variables; no guard reads them.

### Led, Fan, Thermal, Sys

Each composes a driver with `IpmiService`: every step of the service is a step
of the driver (`Lock` is `Enter`, a message is `Send` and one of `Answer` and
`Fail`), so the driver meets every behaviour that `IpmiChannel` is proved to
stay within, timeouts and late answers included. A handler takes the lock
(`Lock`, which also throws an old cache away), refreshes the cache if it must
and then shows or stores.

- `Led`: a register is two LEDs of four bits each (`Field`); `BitsOf` is what
  the if-chains of `set_led` amount to. The locals that a failed refresh copies
  into the cache without having written them hold any member of `Garbage`.
  `stored`, the LEDs stored since the last complete refresh, is a history
  variable.
- `Fan`: a reading stands for speed and status, which arrive together; `recent`
  is what the fan reported or could have within five seconds.
- `Thermal`: a refresh is two messages, the reading and the limits; `temp` is
  what it has got so far. The line a store hands to the BMC is one of a few
  values, its parsing is left out.
- `Sys`: a byte of the EEPROM is its address, so that order and place show. The
  `count` of `sysfs_bin_read` is an integer that passes 0, as the unsigned one
  does at the top. The FPGA ends a reset by itself (`Release`).

Assumptions about the BMC: it executes the requests it gets in order, so what
it did with one can be settled when its sender stops waiting; an error code
says nothing about whether a register was written; no one else writes the
registers. When the answer is the previous one, the reply buffer holds
nothing, the previous payload or the right one. Safety is stated until the
first timeout (`~degraded`): after it the answers are those of another
request.

### Psu

A show is `Lock`, a chain of messages with two early ends (an empty slot, a
DC12V unit), `Finish`, which stores what was read, and `Unlock`.
`RefuseNegative` is the path at the end of `show_psu` that unlocks once more;
from there two handlers can be inside, so the driver's copy of the channel
(`tx_message`, `rx_msg_data`, `tx_msgid`, `read_complete` as `done`) is in the
module, and `ipmi_send_message` is as many steps as it has accesses to what the
handlers share: `Prepare` fills in the message and the pointer to the buffer,
`ReadNumber` and `Submit` are the unlocked `tx_msgid++` and the request. A
request is kept as long as its number is that in `tx_msgid`, because only then
its reply is accepted. `outrun` says that a process has read a number which
another one stored since: when it stores its own, both requests bear the same
number, both replies are accepted and both complete. (Bound: nobody is outrun
twice between its read and its store, which are neighbouring instructions.)

One message stands for the eleven that differ only in what they read, and
brings two things: `pin`, a reading, which is -1 if it was not read, and
`model`, which like the temperature and the serial number is whatever the stack
held (`Garbage`). The lengths of the two strings are uninitialised too when a
refresh ends early or fails before them, and the `memcpy`s at the end of
`update_device` then run on over the record's own type pointer and into the
record of the next slot. `Copied` gives how far they may reach, in the order of
the fields; `Store` lets them reach anywhere. So the properties except what
such a refresh leaves: `ShowsOwn` by `Own`, which names the fields and the
slots, and `ValidIsComplete` for the second slot, behind the first.

Not modelled are what such a copy overwrites behind the last record, what a
show prints through a type pointer that was overwritten, a length above 32 in
the answer to another query (which overruns the handler's stack), and two
handlers tearing one record between two of its fields. The third needs a
timeout or a double unlock, the last a double unlock. `strayed` and `failed` say that a lock was given back twice and
that a message has failed.

### Imc

`Claim`, `WriteAddress`, `WriteCommand`, `Poll`, `Check` and `Release` follow
`imc_smbus_xfer`. The registers of a channel pair are shared with the
hardware's polls and the BIOS (`Intrude`), which run when the polling interval
is not taken away or the system is suspended. `Probe`, `AddAdapter` and
`DelAdapter` are the set-up with its failure path and the removal, which waits
for the transfers of an adapter. What the controller does with a command while
it is busy is not in the code: `late` says that a transaction was given up, and
two properties hold until then.

### Dpll

A handler is a *script*, a sequence of register accesses done under
`priv->lock`; `Script` is `get_mode`, `set_mode`, `get_prio`, `set_prio` and
the ioctls. An access is two steps, `SelectPage` (skipped on the bus when
`current_page` is right) and `Transfer`, because each is an I2C transfer that
can fail. The chip resolves an offset against its own latch `chipPage`, so a
wrong `current_page` sends the byte to the wrong register in the model as on
the board. Failing stores leave the mutex locked (`TransferFails`) and refused
ioctls unlock a mutex they never locked (`IoctlRejected`), as the code does.
Assumptions about the chip: a failed transfer has no effect, and the mailbox
is done within the 25 ms `dpll_write` sleeps. `synced` and `stray` are history
variables that say from where on the safety properties claim nothing.

### Piu

The mutex covers one step of a handler, and so does an action pair: `LockFor*`
takes the mutex, looks at the flags and either leaves at once or starts the
bus transfer that `Read*` or `BusAccess` ends. What a handler does next is in
`AfterType`, `AfterExists` and `AfterAccess`. `Swap` is a person at the slot.
What the presence register of a CFP2 slot says is `Presence`: a module of the
other protocol does not answer, and of a QSFP28 one, which does, the bit may be
anything. A read value is `genuine` (from the addressed register of the module the
address was made for) or `bogus`. `disturbed[p]` records that the slot, the
CFP2, a flag or a transfer went wrong since `p` began to ask for the type.

### Cfp2

`Load`, `AddCdev`, `CreateDevice` and `Unwind` are `cfp2dco_init` with its
failure at every port, `Exit` and `RemovePort` the removal, which an open file
prevents and a running show delays. A port can be opened as soon as `cdev_add`
has made its node, while the ports behind it are still set up; a failure then
takes down the node under who has it open, whose ioctls go on until the module
itself is freed (what is done with the node from then on is not modelled).
A handler is a sequence of `Check` (the
flag, outside the lock) and `Access` (one register, under the lock of the bus);
what it makes of the registers is in `Answers`, byte by byte: `Buffer` has the
32-bit stores into a buffer of bytes, `String` the trimming that starts one
byte behind it, `Oui` and `Version` the locals that are not written when the
module is unplugged. The class that a failed set-up leaves behind refuses every
later one, in the model as in the kernel.

### LedBits, ArmLed, LedPolicy

`LedBits` gives each LED two bits that light it steadily and two that make it
blink, and says what the first and the second of the two register writes of
`set_led` do to them (`First`, `Second`); for the system and power supply LEDs
steady bits are only ever added. `ArmLed` has the driver around it: the lock,
the cache, the two read-modify-writes. A mapping that fails sets `garbled`,
and the properties hold until then, because the driver then writes an
uninitialised value back to the register of all LEDs. `LedPolicy` is one run of
`manage_leds` after another; `Exchange` pulls and plugs anything between two
of its reads and stores. The status of a power supply is the one its driver
holds: that of a unit pulled less than five seconds ago (`recent`) may still be
1, and that of a unit whose frame came too late is 0, which is read without an
error (`PsuInfo`). A power supply that is in place and read as absent counts as
`unread`, and one that was recently out does not count as `stayed`, so
`NoFalseAlarm` and `MissingIsNotGreen` say how far the LED can be trusted all
the same. `psu_info` is the local array half of which is never
written, and starts a run with any content.

### ArmPsu

An update reads up to three frames (`ReadPDO1`, `ReadPower`, `ReadFans`), each
of which may not come; a set is `SetBegin`, `GetPwm`, `PutPwm` and `Keep`, the
last of which makes all readings valid and new. Time passes in ticks between
calls, `Hold` of which are the five seconds a reading is held. `changed`,
`touched` and `out` are history variables.

### FanPolicy

A run of `manage_fans` is the sequence of its checks (`psus`, `fans`,
`sensors`, `modules`), the decision (`Set`, with the step limit and the
slow-down counter) and the two stores. The tables of coefficients and the
arithmetic are those of the code. Between any two steps power supplies are
pulled and plugged, files fail, `set_fans` changes the table or the process is
restarted; the fans run on. A status may be present or absent at any time, as
the driver holds it for five seconds and calls a unit that answers too late
absent. The driver of the power supplies raises a speed below 30 % to 30
(`Raised`). `alarm`, `calm` and `missed` are history variables.

## Runs

TLC checks each component on a small instance. Where several are checked in one
run, the variable `part` of the MC module is chosen in the initial state and
says which of them moves, while the others stay as they began. Since they share
no state, every behaviour of each component is a behaviour of the sum, and a
property of one is checked in exactly the states it reaches alone.

| run | shows | bounds |
|---|---|---|
| `ipmi_channel` | the lag of answers is at most one request however many sends time out; until a timeout every answer is the caller's own; the channel implements the service; every call ends although the BMC may never answer | 2 callers, 4 requests: a timeout, its late reply, the send that takes it and one more to see that the lag does not grow |
| `dpll_piu` | Dpll: the page cache never misdirects an access; priorities and mode change only as asked; shows tell what is in force. Piu: a simulated plug-out silences the bus; handlers sharing `piu->type` answer as if alone | 2 processes. Dpll: 1 priority register (two pins share it), the four pages the handlers use, raw writes of the page register, a window register, the mailbox mask and a register at the same offset of another page. Piu: all handlers but `piu_type_show` (whose path is that of `open`), modules ACO, DCO and QSFP28, long reads of 1 register |
| `progress` | every call of Dpll, Piu, Psu, Imc and ArmPsu ends, whatever fails or never answers | 2 processes; Piu: the three shows with the longest paths (between them they take every locking step that an ioctl takes), modules ACO and QSFP28; Psu: an empty slot, whose shows take the path of the second unlock; Imc: the target the hardware polls; ArmPsu: one unit |
| `drivers` | Led: bytes a failed refresh never read are never used, a store loses nothing but stores the cache has not seen, success means the LED is written. Fan, Thermal: a show is recent and whole. Sys: reads are in order, resets were asked for. Stores do what they report | Led: 2 processes, both LEDs of one register and one of the other, modes GREEN and RED, two garbage bytes. Fan: 2 fans, 2 speeds, 300 percent. Thermal: 2 sensors with limits of their own. Sys: 6 bytes in pieces of 2, every offset and count, 2 PIUs. One process each beside Led's two: a handler has the driver to itself from beginning to end, so the others would only wait |
| `psu_imc` | Psu: without a failure each show prints its own record (but for what an early end leaves), a failed refresh is read again, the lock is never held by nobody, completions do not pile up. Imc: transfers and writes reach their own target, the polling is given back | 2 processes; a DC12V power supply, whose refreshes copy too far, in front of an AC one; 2 channel pairs, one with writes disabled, a target that differs in both parts from the polled one |
| `fan_policy` | an alarm always ends in the maximum; fans are slowed only after six calm runs; the fans are at the target (or its minimum, 30 %) except where a store was lost; without faults the target settles | 2 power supplies, 2 sensors, freezing or above every threshold, 2 test settings (an offset beyond the threshold, an index that is rejected) |
| `arm` | the driver: no false colour, no other LED, shows at most five seconds old. The policy: the LEDs tell what is there. The power supplies: what is held is true | 2 processes, 2 LEDs of one register pair; the policy with a QSFP28 port and a CFP2 slot at once, in each of its runs at most two things exchanged (or power supplies out since less than five seconds) and at most two reads or stores failed (`FewTroubles`: each property of the policy relates one thing that is read to one LED, so two troubles can hit both the read and the store); 1 unit, readings held for 2 ticks, speeds 0, 10 and 257, two LINEAR11 words of either sign |
| `cfp2` | an answer is right unless something disturbed it, a string shows nothing but its own bytes, at most one access comes after an unplugging, a failed set-up leaves nothing | 2 ports that hold nothing alike, 2 processes, every file and ioctl; one process at a time reads more than a register (`OneShow`): two readers meet in nothing but single accesses and the plugging |
| `ipmi_answer_is_own`, `led_mode`, `psu_own`, `fan_policy_drive` | *violated*: see Findings | as above |

`dpll_piu` and `progress` run without deadlock checking: once a failed store
of Dpll has returned with the mutex locked and every process waits for it, the
driver really is stuck. `dpll_piu` stops exploring at a state where a refused
ioctl has unlocked another process's mutex (`UntilStray`); the invariants are
stated up to such a state. `psu_imc` and `progress` bound the states after a
second unlock by a constraint (`AfterStray`), since nothing is promised of the
records any more and only the channel, the lock and the ends of the calls
count: there every refresh leaves the same record, in `psu_imc` all of them of
one slot and in `progress` those that end with the type. `psu_own` has no such
bound, nor have the theorems.

### Fairness

A process that is inside a handler keeps running: its transfers end, well or
badly, and its waits are counted (`Imc`, `ArmPsu`) or end with a timer (the
IPMI drivers), so its steps are weakly fair. The kernel's mutex queues its
waiters and passes nobody over for ever, so taking it is strongly fair. The
reply tasklet, once entered, finishes. The platform manager calls the fan
policy again and again. Nothing is assumed of the BMC, of the chips, of
transfers succeeding, of time passing, or of users calling. In `progress` the
processes are alike and the property names one of them, any one.

## Proofs

All theorems hold for every value of the constants that satisfies the named
assumptions of the module.

`IpmiChannelProofs`
: The inductive invariant `Base` types the state and says that only the holder
  of the lock is past `blocked`, that a reply still to come is to an accepted
  request, and that the handler is not in its middle for a request never sent.
  `BacklogBound` is inductive relative to it: `Submit` moves `tx_msgid`, so
  the replies of all earlier requests stop counting at the moment a new one
  starts to. `AnswerLag` needs `Lag`, which says whose answer each completion
  that is done stands for; `CleanUntilTimeout` needs `Clean`, which says that
  before any timeout nothing is outstanding between two sends.
  `ImplementsService` maps every step of the channel to a step of
  `IpmiService` or a stutter, using these invariants for the answer.

`ModulesProofs`
: Of `Dpll`: `Typed` strengthens the type invariant with the place of each
  process in its script; `Paged` says that a synced driver's `current_page` is
  the chip's latch, that only the owner of the mutex is inside a script until a
  stray unlock, and that a process past `SelectPage` has its page in
  `current_page`. `Underway` is what `ShowsInForce` and `ChangesAsAsked` need
  beyond it: a process in a script has done exactly the accesses before its
  step, so the page it has read, the mailbox it has filled and the nibble it is
  about to replace are those of its request. Of `Piu`: `PiuTyped` ties the
  fields of a process to its step (`Shaped`) and says who has the mutex
  (`Holds`); `Soundly` says of every process that nothing has disturbed that
  what it remembers (type, protocol, flags) is what it would have found alone.
  The theorems of the composition follow because either driver moves alone.

`DriversProofs`
: Of `Led`, `Typed` adds to the type invariant where a process is in the service
  when it is in a step of the driver, and that it is there alone. `Cached` is
  the inductive invariant of the rest: `valid` is set whenever a handler uses
  the cache and cleared while one refreshes it, a valid cache agrees with the
  registers on every LED outside `stored`, and between the two queries
  `sys1_led` is the first register. `SuccessIsTrue` is inductive relative to
  it, because the process that returns success still has the lock. `FanServed`
  and `ThServed` say the same of the caches of `Fan` and `Thermal`, of each fan
  and sensor by itself: a cache is given up before its refresh begins, it is
  shown only when it is valid and young, and a young valid one holds what was
  reported since the refresh; of `Thermal` also that the reading which waits for
  its limits is a recent one. Of `Sys`, `SysInOrder` says that a read has
  exactly the bytes its locals count; `SysPieces` that one of whole pieces still
  has room for a piece whenever it asks for one, or else the EEPROM has ended
  (the count only ends the loop at exactly 0); `SysWrites` that a store between
  its read and its write still holds every bit that is set, and none that
  nobody asked for. One driver moves alone, so the four invariants together
  are one of the composition.

`ImcProofs`
: `Kept` types the state, says that exactly the process past `Claim` has the
  mutex, and ties the polling interval to the transfer that took it away
  (`Polls`). `Followed` holds until the first transaction is given up: the
  transaction the controller works on is that of the process waiting for it
  (`Awaited`), and each process's registers are still as it wrote them
  (`Follows`). `Undisturbed` says when the hardware and the BIOS leave a
  channel pair alone.

`PsuImcProofs`
: Of `Psu`, `Typed` and `Bounded` hold with two handlers behind the lock, too.
  `Bounded` counts the completions to come against the handlers waiting for
  one: one beyond them while one handler is inside, and as many as there are
  processes once two may be, when two requests can bear one number.
  `OneRequest` says that until then they cannot: nobody is outrun and at most
  one request has the number. Until a lock is given back twice one handler is
  inside (`Alone`), and a valid cache has a reading (`Complete`), whatever the
  copies of another refresh overwrite. As long as no message has failed either,
  the request, the completion and the buffer are those of the handler inside
  (`Owned`), and the records of the valid slots are their own (`OwnRecords`),
  also under a handler that has given the lock back and still prints, hence
  `ShowsOwn`. The theorems about the composition take those of `ImcProofs`
  through an `INSTANCE`.

`FanPolicyProofs`
: Lemmas about the greatest temperature and about coefficients and steps come
  first. `Alarmed` carries an alarm from the check that raises it to the
  target, `Following` says that a fan has the last percentage, raised to its minimum,
  unless its store was lost or is still to come, `Patient` that the slow-down counter is at most
  the number of calm runs.

`Cfp2Proofs`
: `SetUp` ties what a failed or finished set-up has made to its step, and
  `Using` a handler to a port that exists, an open node to one that exists or
  that a failed set-up took away. `Prompt` says that a process has at
  most one access left that the simulate flag could not stop; `Calmly` that an
  undisturbed process has read what is in the registers of its own port.

`ArmProofs`
: Lemmas say what the two writes of a LED do to its own bits and to those of
  every other (`Colours`). `LedInv` says that, until the mapping of the FPGA
  has failed, no LED is lit and blinking at once except between the two writes
  of its own store, and that a young cache has the registers' bits of every LED
  not stored since. `PolicyInv` follows a run of `manage_leds` phase by
  phase: what it has read is what was there unless it was exchanged, held by
  its driver from before, or not read (`Runs`), and what it has stored is lit
  (`Lit`). `PsuInv` says what an unfinished update has read (`UnderWay`) and
  what the cache holds (`HeldOf`). Here too the three move alone.

The assumptions are about constants only: which values are process names and
which are none, that LEDs, modes, ports, registers and kinds are among those
the code has (`LightsAssumption`, `KindAssumption`, `PortAssumption`,
`RegisterAssumption`, `FieldAssumption` and `GarbageAssumption` of `Led`,
`ConstantsOK` of `Imc`, `Piu`, `LedPolicy`, `ArmPsu`, `Fan` and `Sys`),
that there are at most two power supply slots, as the drivers' tables have, and
finitely many processes (`Psu`, which counts them), and that the test settings
of the fan policy are integers. Each is evaluated by the run of its component.

Liveness is model-checked only: `EveryCallEnds` of both runs and `Settled` need
fairness, which this proof system does not reason about. Every other property
of a passing run is a theorem.

## Findings

*A late reply answers the wrong send* (`ipmi_answer_is_own`). After a timeout
`ipmi_send_message` leaves `read_complete` and `tx_msgid` as they are. The late
reply passes the handler's message-number check and completes a wait nobody is
in; the next send returns at once with the answer to the request before it,
and its own reply becomes the next stray completion. The driver stays one
answer behind until it is reloaded. The proved theorems say how bad it gets:
never more than one answer.

*Three modes of five are not what they say* (`led_mode`). The if-chains of the
x86 `set_led` lack an `else` before the test for GREEN and never test for
GREEN_BLINKING. RED and GREEN_BLINKING turn the LED off and RED_BLINKING makes
it blink green; each reports success.

*Two handlers behind one lock* (`psu_own`). A show of a reading below 0, which
every DC12V unit and every empty slot has, unlocks `update_lock` twice. The
second unlock releases another handler's lock. In the trace two handlers then
refresh the slot of the AC unit; the second one's preparation replaces the
query of the type that the first is about to submit, the answer goes to the
second one's buffer, and the first wakes with its own buffer still holding the
answer to its query of the status, which the query of the type does not clear.
Its first byte is taken for the type: a power supply that is in place is held,
as valid, to be absent. `progress` and `NobodyIsLockedOut` show that nobody
hangs for it.

*A hot drive* (`fan_policy_drive`). The NVMe temperature is in kelvin; the
policy multiplies it by 100 and compares it with 85000 thousandths of a degree.

Other disagreements between code and comments, met while modelling and part of
the models, without a run of their own:

- x86 `led.c:70` and `psu.c:96` say that `valid` means the registers are valid;
  `set_led` leaves the cache as it is (`OnlyStoresAreLost` says what that can
  lose), and `show_psu` tests the address of an array, so its EIO is never
  returned and a failed refresh is printed.
- x86 `fan.c:408` announces an update of the cache after a store; the
  assignment is commented out.
- `i2c-imc.c:470` says that a suspend finishes pending transactions; it only
  sets a flag, which a transfer looks at before it waits for the lock.
- arm64 `sysi.c:294` and `368` say that above the warning threshold the fans
  are set to the maximum; a percentage is only stored when it differs from the
  last one, so a power supply plugged in meanwhile keeps its speed
  (`FansFollow` says when).
- arm64 `ledi.c` says that the given mode is put; a system or power supply LED
  that was once GREEN and once RED shows neither any more (`FromDark`).
- x86 `psu.c:614` copies strings whose lengths, after an early end or a
  failure, were never read (`ShowsOwn` and `ValidIsComplete` say what of the
  records survives it).
- arm64 `psu.c:461` says "minimum PWM will be 30%"; 257 passes the test and
  reaches the unit as 1. A set also makes the readings of a failed update valid
  (`PartialIsRetried` excepts it).

## Not modelled

- The x86 ONLP module keeps no state: `manage_fans` (`sysi.c:134-184`) reads the
  temperatures one after another and stores them as one line, whose fate is in
  `Thermal`; the fan policy itself is the BMC's. What was noticed reading it:
  one negative temperature makes `set_temp` refuse the whole line, a sensor
  that failed is sent as 0, the NVMe temperature is in kelvin; `fani.c` refuses
  to set fans 6 to 10 although it lists SET_PERCENTAGE for them; `fpga_read`
  (`platform_lib.c`) leaks a descriptor when the offset is out of range.
- Of the arm64 ONLP module the rest formats files; the card types and the DSP
  EEPROM functions of `platform_lib.c` have no caller, the PHY LEDs are
  commented out.
- Probe and removal of a PIU device. Its files are visible before its mutex is
  initialised and its memory is freed while a file may be open: both are
  orders in which the kernel, not a handler, decides what happens, and nothing
  in the driver bounds them. The contents of its string buffers are below the
  abstraction of `Piu` (those of the CFP2-DCO driver, which are alike, are in
  `Cfp2`).
- 32-bit overflow of the AC input current in the arm64 psu driver: beyond TLC's
  integers.
- Installers, initrd, management and container scripts, build tools and
  diagnostics: one-shot programs without shared state, or wrappers of programs
  that are not in the repository. `nvme-ioctl.c` is vendored, the ONLP
  `_config` and `_ucli` files are generated.

## What is left

1. Lemmas on the single drivers' steps that would let the clients be proved
   against `IpmiChannel` itself, and not only against what it implements.
2. Theorems that say how far the findings reach: what still holds of the LED
   modes and of the drive's temperature that the runs show to go wrong.
