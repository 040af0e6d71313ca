# Verification of the wireless Android Auto dongle

The repository turns a board into a wireless Android Auto dongle. A phone
connects to it over Bluetooth and Wi-Fi, a car over USB; `aawgd` brings the two
together and forwards data between them. This directory holds TLA+ models of
that program, TLC runs that check them on small instances, and TLAPS proofs.
All line numbers are those of the files under `mcm_aa_installer/`, and
`PROJECT.json` has for every definition the lines it models.

## Inventory

| Part | State it keeps | Operations | Talks to |
|---|---|---|---|
| Main loop (`aawgd.cpp`) | the round it is in | start a server, start the retry thread, join both, disable the gadgets, sleep | everything below |
| Bluetooth handler (`bluetoothHandler.cpp`) | adapter, advertisement, `connectWithRetryPromise` | `powerOn`, `powerOff`, `connectWithRetry`, `stopConnectWithRetry`, `retryConnectLoop` on its own thread with `connectDevice`, which tries the known devices one after the other | BlueZ over D-Bus; main and the proxy through the promise |
| Proxy handler (`proxyHandler.cpp`) | two descriptors, two threads, `should_exit` | `startServer`, `handleClient` on its own thread, `forward` on two more, `stopForwarding` | phone, `/dev/usb_accessory`, Bluetooth handler, USB manager |
| USB manager (`usb.cpp`) | the name of the device controller; configfs | `enableDefaultAndWaitForAccessory`, `switchToAccessoryGadget`, `disableGadget` | uevent monitor, kernel |
| Uevent monitor (`uevent.cpp`) | a list of handlers | `addHandler`, `monitorLoop` on its own thread | kernel (netlink), USB manager through handlers |
| Bluetooth profiles (`bluetoothProfiles.cpp`) | one descriptor per connection | `NewConnection` on the D-Bus dispatcher thread, `launch` | phone over RFCOMM |
| Protocol messages (`proto/*.pb.*`, generated) | fields and has-bits of two messages | set a field, size, serialise, parse | Bluetooth profiles, phone |
| Configuration (`common.cpp`) | the strategy, once read | `getConnectionStrategy`, `getWifiInfo`, `getMacAddress` | environment, `/sys/class/net/wlan0` |
| Button monitor (Python in `install.sh`) | `click_count`, `timer` | count clicks, `evaluate_clicks` on a timer thread, reset, debug | systemd, BlueZ |
| Service (`start_aa_final.sh`, `aa-dongle.service`) | hostapd, dnsmasq, umtprd, gadgets | start, `cleanup` | systemd, `aawgd` |
| Mode scripts (`enable_debug.sh`, `connect_home.sh`, `modo_dongle.sh`) | unit files, network configuration | one sequence each | systemd, NetworkManager, configfs |

What is hard in it:

* Threads share plain variables: the promise of the Bluetooth handler, the list
  of the uevent monitor, the two thread members of the proxy. A step of one
  thread falls between the test and the use of another.
* A wait with a time-out races the event it waits for: the uevent handler acts
  for a wait that was given up.
* One thread stops another by a flag and a signal, and the signal means nothing
  to a thread that is not yet in its call.
* Any D-Bus failure outside one `try` block ends the process, in any round;
  systemd starts it again, and BlueZ and configfs are as they were left.
* Calls come in pairs over many rounds: advertisement, power, gadgets,
  descriptors.
* One USB controller and one radio are fought over by `aawgd`, the service
  script, the debug script and the mode scripts, none of which knows where the
  others are; each may be stopped half-way.
* The length of a message is computed by one walk over its fields and the message
  written by another, into a buffer of that length.

`PROJECT.json`, "hazards", lists these one by one, each at its line and with
the properties that watch it.

## Modules

### ConnectionCycle

One round of `main()` per phone, for ever: the threads `main`, `proxy`
(`handleClient`) and `bt` (`retryConnectLoop`) and the promise they share. Each
thread has a program counter; an action is what the code does between two
points at which another thread can matter. `stopConnectWithRetry` is two
actions, on both threads that call it: the test of the pointer (`TestPromise`)
and the call through it (`SetValue`). Each D-Bus call outside a `try` may fail,
which ends the process (`died`); so do a second `set_value`, one through a null
pointer, and `startServer` failing. `Restart` is systemd. The adapter's power
survives it, the advertisement does not (BlueZ drops what a vanished client
registered). `leaked` counts the descriptors the early returns of `handleClient`
leave open.

`connectDevice` is followed device by device: `FindDevices` takes the devices BlueZ
knows (`known`) into a list (`todo`); `DeviceTried` is one that is connected already or
takes the profile, and `DeviceFails` the `catch` around one device, after which the
loop goes on. Meanwhile BlueZ learns of devices and forgets them (`DevicesChange`).

Abstracted: data transfer and the USB gadget (modules of their own), and what a
device is: a number, in the order of the paths. D-Bus calls return or throw; one
that never returns is not modelled. Not modelled either: the torn read of a
`shared_ptr` that is written at the same moment, and `powerOff`'s
`stopAdvertising`, which dongle mode never reaches since it skips `powerOff`.

### GadgetSwitch

The wait for the car. `client` is the one thread at a time that is in
`UsbManager`; `mon` is the uevent monitor; `handlers` is the list and `it` the
iterator, an index or one past the end. `EraseHandler` does what
`it = handlers.erase(it)` and the `++it` of the loop do together, on a libstdc++
list: skip the next node, or come round to the first after the last. A handler
is, for what it does, the question whether its wait is still on (`live`, the weak
pointer), and, once it acts, whose promise it holds (`held`). `udc` is the gadget
the kernel has bound; binding is refused when the controller is taken, and
`writeGadgetFile` does not notice.

Appending while the last node is being unlinked is a data race; it is a choice
between the outcomes: linked, lost, or the process ends. Three kinds of uevent:
START sent during the wait now on, START sent before it, anything else.
`Pause` is the one timing assumption: the 2 s that main sleeps outside dongle mode
are longer than the monitor needs for what was sent before, of which the 1 s of
`switchToAccessoryGadget` is the longest part. That is why the properties about
stale switches exclude dongle mode, which does not sleep.

### Forwarding

One session: `handleClient` from the spawning of the two threads to the closing
of both descriptors, and the threads, named `u2t` and `t2u`. A read or write is
split in two, the moment before the call and the call, because a signal tells
them apart. `handle[t]` is the `std::optional<std::thread>` member: empty, live,
or joined and not yet cleared; a thread runs before it is in the member.
Of the data only this is kept: how much of a buffer is unwritten, and whether
anything read was dropped.

`Session` is the promise in two variables: both directions write until one stops;
from then on each writes at most once more, and the session is over when neither
will. Forwarding implements it with `Phase` (read off the flag and where
`handleClient` is) and `Writes` (a thread is at a write, or the flag that keeps it
from one is still down).

SIGPIPE is not modelled: systemd starts services with it ignored. A signal to a
thread that was joined is undefined behaviour: it ends the process or does
nothing.

### FrameReader and Relay

The same session seen from the bytes: `readFully` and `readMessage` under the
loop of `forward`, in the direction from the phone. A byte is a number below
`Base`, so a reader that lost its place would compute lengths from a body. One
action per read, for the end of the header, for each test of `should_exit`, and for
the ways a write ends: whole, short after any number of bytes, failing, or into a car
that is no longer there. `forward` takes a short write for a whole one and goes on; the
bytes that arrived are in `usb`, the others are lost. Two things happen at any time:
the other direction stops (`Stop`; that only after this a signal may interrupt a call
is what module Forwarding checks as `FlagInv`), and the car is unplugged (`Unplug`),
perhaps in the middle of a write. `Relay` is the promise: frames in order, all of them
whole but perhaps the last the car gets anything of, after which nothing follows;
FrameReader implements it with each frame replaced by its bytes. The other direction
reads the accessory device, a whole frame in one call, and has no reader to model.

### Config and Messages

Config is `getWifiInfo`: each setting from its variable of the environment or its
default, the BSSID from the address of wlan0, a port that `std::stoi` rejects
replaced by 5288. Messages is what `protoc` generated for the two messages, at the
level of their bytes: has-bits, the two walks over the fields (`ByteSizeLong` with
its fast path and its fallback, `_InternalSerialize`), varints up to ten bytes, and
`_InternalParse` with unknown fields, the last of repeated fields and the check for
the required ones. `SendMessage` puts a message behind its length, cut to 16 bits as
in the code, and its id.

The phone's end is an assumption: it parses with code generated from the same
definitions. Bytes of a string are numbers from 1 to 255; UTF-8 is not checked, as
proto2 does not. Groups, the other wire types nobody sends, count as a failure.
`ReadFields` is a recursive function from a position in the bytes to the fields from
there on, and `Varint` gives the k-th byte by dividing, so that both can be reasoned
about.

### Launch

The exchange over Bluetooth that tells the phone where the Wi-Fi is:
`NewConnection`, `launch` and `ReadMessage` on the D-Bus dispatcher thread. Each
of the three reads of a message may return less than asked for. A byte is
tagged with what the phone meant by it; two bytes read as a length or an id that
were not sent as one give any value. What the dongle sends is not carried in the
state: it depends on the environment only, and `FramesGoWhole` and
`PhoneLearnsSettings` compute it from Messages where it is sent and where the phone
gets it. Left out is what other threads see of a dispatcher
that is busy, which is the D-Bus library's.

### ButtonMonitor and Board

ButtonMonitor is the Python program `install.sh` writes: the thread that reads
the button (`reader`) and the timer threads. What is atomic is one load or one store of
a global: `click_count += 1` is two actions, `Click` and `StoreCount`, with the loaded
value in between, and taking the count for an evaluation is two, `ReadCount` and
`ClearCount`; threads switch between any of these. That evaluations do not overlap each
other is a timing assumption, named at `Fire`: 0.8 s apart, each lasts microseconds. A
timer thread runs the reset or the debug script it asked for itself, so several can be
under way. Three histories: `clicks`; `settled`, the clicks that evaluations took or a
process that ended took with it; and `overlapped`, that an increment and the taking of a
count overlapped. When they do, the reset is overwritten or the click is: the main
thread loads 2, the evaluation takes 2 and clears, the main thread stores 3, and three
clicks count as five. Nothing in Python excludes that, so nothing is promised for it.

Board adds what they act on: whether systemd wants `aa-dongle` to run
(`wanted`), where the service is, the scripts the user runs, and the two things all
of them take from each other. `udc` is the USB controller: `aawgd` binds and unbinds
it in its rounds, the service's `cleanup` and `enable_debug.sh` unbind every gadget,
and the original gadget is bound if the controller is free. `udc` is what is bound,
whoever is still there: a run of the script that ends by itself leaves the gadget bound
or, if `umtprd` served it, not, and a cleanup that systemd kills after 5 s has come to
it or not. `unclean` is a history: the service is down after such an end, and
`enable_debug.sh` has not unbound the gadgets since. `managed` says
that NetworkManager has wlan0, `unmanaged` that the line in its file keeps it away:
the two are changed apart, at different steps of `connect_home.sh`, of
`modo_dongle.sh`, of the service script and of a boot. `systemctl stop` is two
actions, the request and its return. `Interrupt` stops a script between any two of
its steps, and `PowerCycle` everything. The scripts' other commands
(wpa_supplicant, DNS, saved networks, LEDs) follow one another and are abstracted.

### MC modules and proofs

The MC modules give the instances for
TLC. Each proved module defines its inductive invariant next to its properties, and
`ConnectionCycleProofs`, `GadgetSwitchProofs`, `ForwardingProofs`, `FrameReaderProofs`,
`LaunchProofs` and `BoardProofs` hold the theorems about them. `MessagesProofs` is about the
operators of Messages, which has no state, and `DataLemmas` holds what it and
`FrameReaderProofs` need to know of numbers and sequences.

## Runs

| Run | Checks | Bounds |
|---|---|---|
| `connection_cycle` | safety and liveness of a round | `PassiveCycles = 3` as in the source, `MaxFds = 5`, 2 devices; 19,284 states |
| `gadget_switch` | the wait for the car | 3 handlers, 2 uevents waiting |
| `forwarding` | one session, also as a refinement of Session | frames in up to 2 reads, buffers of 2 units; 8,327 states |
| `frame_reader` | the bytes of a session, as a refinement of Relay | up to 2 frames, `Base = 16`, a buffer of 24 bytes; 174,513 states |
| `launch` | the exchange on the dispatcher thread, and the messages for every environment | 4 messages with bodies of up to 2 bytes, 1 waiting connection, `SizeBase = 16`; 204,532 states |
| `board` | clicks, jobs, scripts, the service, the controller and the radio | 1 and 2 clicks for a reset and for debug mode, 3 clicks, 2 timer threads; 836,709 states |
| `stopping_is_safe` | shows that ending a round can end the process | as `connection_cycle` |
| `forwarding_ends_retry` | shows that the stop of the retry thread can be lost | as `connection_cycle` |
| `every_uevent` | shows that a removal hides the uevent from the next handler | as `gadget_switch` |
| `abandoned_wait` | shows a gadget switched for a wait that is over | as `gadget_switch` |
| `stop_reaches_both` | shows that the stop of a session can be missed | as `forwarding` |
| `debug_mode_holds` | shows that a reset ends debug mode | as `board` |

Why the bounds are enough. All other state is finite already. `MaxFds` only has
to be larger than what a session needs (two), so that leaks of one and of two
and the exhaustion after several rounds all happen. Three handlers are two
abandoned ones and a live one: the shortest list in which the loop skips a
handler and also comes round to the start. Two uevents are a START with
something in front of it. Two units tell a full write from a short one, and
two reads a whole frame from a part of one. In FrameReader sizes on both sides
of the buffer, with and without the 4 extra bytes, and lengths of one and of two
digits occur, and the second frame shows whether the reader kept its place and whether
anything follows a short write. In
Launch a fourth message is one more than `launch` reads. Its environments have every
variable unset, empty or set, an address of wlan0 or none, strings of one and of two
bytes of length, and ports at both ends of every length of a varint, the largest and
the smallest 32-bit number among them; a byte of the frame's length has 16 values
instead of 256, so that messages of 251 bytes, the longest whose buffer SendMessage can
still count, occur, and longer ones, on the other side of what `FramesGoWhole` says. Two known devices
are one that fails and one after it. In Board three clicks ask for a reset and debug
mode in either order, or for three resets.

The properties, and what each would catch:

* `JoinBtCannotHang`, `StopRequestHonoured`: the promise is dropped or replaced
  and the retry thread never ends.
* `BluetoothOffBetweenRounds`, `DongleStaysVisible`, `AdvertisementCallsMatch`:
  power and advertisement are switched by two threads over many rounds.
* `EveryDeviceIsTried`: a device that fails hides the ones after it in the list.
* `AtMostOneLateAttempt`: the retry thread keeps poking a phone that is there.
* `DoubleStopNeedsUnseenStop`: says exactly when the double stop that
  `StoppingIsSafe` refutes can happen outside dongle mode.
* `ListensAgain`: whatever ended a session, the dongle serves again.
* `FulfilledOnce`, `TypeOK` of GadgetSwitch: the iterator that comes round does
  not call a handler twice for its wait, and never leaves the list.
* `NoStaleSwitch`, `SessionOffDefaultGadget`, `AtMostOneSpoiledWait`: the
  controller belongs to the wait or the session that is on.
* `UntimedStartIsAnswered`: with no time-out, a START must not be lost.
* `StopsInOrder`: writes after the end of a session, a third one after its stop, or a
  new session before both directions have given up the old one.
* `NothingAfterGap`: each end receives a prefix of what the other sent.
* `OnlyMissedSignalsBlock`, `SessionEnds`: how far a lost wakeup can go. A session that
  is stopped and whose car is gone ends, unless the signal just missed a write to a
  phone that stays connected and does not read.
* `BadSignalOnlyAtJoin`, `NoThreadOutlivesSession`: thread handles, the signal
  action and the descriptors against the threads that use them.
* `StopsOnlyAtBadFrame`, `RelaysFrames`: lengths at the edge of the buffer, a reader
  that loses its place, and anything written to the car after a part of a frame.
* `CredentialsOnlyOnRequest`, `ThreeMessagesFreeDispatcher`,
  `LeavingFreesDispatcher`: misread messages, and a dispatcher thread that is
  kept. A phone that stays and is silent does keep it; no property says
  otherwise.
* `PhoneLearnsSettings`: a setting, a field or a length that is lost or cut on the way
  from the environment to the phone. `FramesGoWhole`: a message that `SendMessage` cuts
  although 16 bits count it, as when one walk over the fields gives a size that the other
  does not fill; past 16 bits it says that the message is cut.
* `ClicksCountOnce`, `ClicksAreEvaluated`: clicks counted twice or never in any other way
  than by an increment that overlaps an evaluation, with timers cancelled as they fire and
  the exceptions that follow from it.
* `ServiceComesBack`: overlapping resets that stop and start the service.
* `DebugFindsControllerFree`: a gadget that was bound between the unbinding and the
  stop of the service is still bound when debug mode takes the controller, although the
  service's cleanup has run to its end.
* `RadioComesBack`: a mode script stopped half-way that leaves the radio with
  NetworkManager after the next `modo_dongle.sh`.

### Fairness

A thread that can move does (weak fairness of its actions), a call with a
time-out returns, and systemd restarts the service. In ConnectionCycle two
steps have strong fairness: the start-up calls to BlueZ and the binding of the
port succeed if they are tried for ever, since a dongle without them can never
serve. Nothing is owed by the phone (to connect, to end a session), by the car
(to ask for accessory mode, to read or write) or by the kernel (uevents). A read from
the phone returns after its 10 s; for writing to it no time-out is set, and TCP keeps a
peer that acknowledges and never reads. So a write, to the phone as to the car, and a
read from the car return only when a signal interrupts them or the link is down; else
they may block for ever. In Board an evaluation has strong fairness, since it can be
held up by others; the user owes no click and no script. The run stops clicking after
three; someone who never stops, with pauses under 0.8 s, is never evaluated, so
`ClicksAreEvaluated` is about clicks that end.

## Proofs

The theorems hold for every value of the constants allowed by the assumptions of the
modules: `CycleAssumption`, `GadgetAssumption`, `ForwardingAssumption`,
`FrameAssumption` and `LaunchAssumption` (bounds), `ButtonAssumption` (a reset takes
fewer clicks than debug mode), `MessagesAssumption` (a byte of a length or an id has 2 to
256 values) and `ConfigAssumption` (a setting is a string of the bytes 1 to 255, of any
length, and a port that `std::stoi` accepts is a number of 32 bits). The properties of
the messages are thus proved for the 256 values of the code and for all settings; the run
has 16 values and some thousands of settings.

* `ConnectionCycleProofs`. `CycleInv` is inductive. The properties alone are not:
  that main's join cannot hang needs to know that outside dongle mode the promise
  exists only while the retry thread is in its loop (`PromiseInv`), that no retry
  thread is left from a round before (`ThreadInv`), and that a late attempt is
  followed by a wait that sees the stop (`LateInv`). All safety properties of the
  run follow.
* `GadgetSwitchProofs`. `GadgetInv` is inductive. That no promise is fulfilled twice
  needs that only the last handler of the list can be live and that one which has
  fulfilled its promise is the one being removed (`HandlerInv`). That outside dongle
  mode no stale START switches the gadget needs that between rounds, after the pause,
  none is on its way anywhere, in the socket, in the loop or in a handler (`Quiet`,
  `ControllerInv`), and that what arrives during a wait is for that wait (`WaitInv`);
  that one late switch spoils one wait, not two, needs that a spoiled wait is a quiet one
  (`SpoiledInv`). All safety properties of the run follow.
* `ForwardingProofs`. `ForwardingInv` is inductive: the members hold live threads
  exactly from assignment to join (`HandleInv`), the flag is set before any call
  is interrupted (`FlagInv`), a thread that dropped data is about to stop or
  writes to a link that is down (`GapInv`), and a thread that one stop has passed
  and that still goes on to block was missed (`MissedInv`). All safety properties
  of the run follow. `SessionRefined` proves the refinement: the initial states map
  to Session's, and under the invariant every step of the handler, of a loop and of
  a stop is one of Session's or leaves `Phase` and `Writes` as they are.
* `FrameReaderProofs`. `FrameInv` is inductive. That the reader keeps its place is that
  what it has written, what it has in the buffer and what is still on the way are, one
  after the other, the bytes the phone sent (`PlaceInv`), and that what it wants is the
  rest of a header, or of the body that header announced (`StageInv`): the header in the
  buffer is then that of the first frame not written (`HeaderRead`), a complete message is
  that frame whole (`FrameRead`), and only a frame that is really empty or too long ends
  the relay. Both safety properties follow, for all frames, cuts and sizes of the buffer,
  and `FramesRelayed` proves the refinement of Relay: the write of a message delivers
  the next frame, a write that is cut short delivers a part of it and ends the relay, and
  every other step ends the relay or leaves it as it is. It needs that the car has
  received all that was written as long as anything can reach it (`CarInv`).
* `MessagesProofs`. Varints: the bytes of a number end where `VarintEnd` finds the end,
  and the groups of any number of 32 bits, a negative one sign-extended to ten bytes, make
  up that number again (`ReadsNumber`). Fields: a field in front of anything else is read
  as it was written, and takes the bytes it has (`NextString`, `NextNumber`). Messages:
  the fields come one after another (`ReadsString`, `ReadsNumberField`), and fields that
  have the required names, each once, make the message (`ParseGives`); so both messages
  are read as they were made (`StartParses`, `InfoParses`). Frames: what 16 bits count is
  sent whole (`SendsFrame`) and taken apart by the phone (`FrameArrives`). Together they
  give `SettingsAlwaysArrive`. `SizesAlwaysAgree` adds up the two walks over the fields.
  What 16 bits do not count comes out shorter than its frame (`CutsFrame`); with
  `SendsFrame` this is `WholeExactlyIfCounted`.
* `LaunchProofs`. `LaunchInv` is inductive: until the id of the first message has been
  read, the dispatcher stands exactly where the phone began to send
  (`FirstMessageInv`), so the first message is never misread, and the credentials are
  an answer to it. `SettingsLearnt` and `SentWholeIfCounted` follow from the theorems of
  `MessagesProofs`, whatever the exchange does. All safety properties of the run are
  proved.
* `BoardProofs`. `BoardInv` is inductive: that every click counts once needs that
  evaluations do not overlap each other and that, unless an increment has overlapped one,
  the count it has read and the count an increment has loaded are still in `click_count`
  when they are cleared or stored (`CountInv`); that the service comes back needs
  that a script that may stop it has been begun (`ScriptInv`), and so does that the
  radio comes back, with the line that `modo_dongle.sh` restores before it reboots;
  that debug mode finds the controller free needs that a gadget of `aawgd` which is bound
  while the service is down was left by a script without cleanup (`UdcInv`). All safety properties of the run
  follow.

`DataLemmas` gets induction from the library's fact that an element of a non-empty set is
minimal under a well-founded relation (`WFMin`): stated about a set instead of a
predicate (`Induction`), it can be instantiated. What the recursive functions `FlattenSeq`
and `ReadFields` compute is proved with it from their defining equation, whose solution
has to be shown to exist first (`FlattensExists`, `ReadsExists`).

Only model-checked: the liveness properties (`StopRequestHonoured`, `EveryDeviceIsTried`,
`ListensAgain`, `UntimedStartIsAnswered`, `SessionEnds`, `ThreeMessagesFreeDispatcher`,
`LeavingFreesDispatcher`, `ClicksAreEvaluated`), since the provers have neither fairness
nor ENABLED. That the phone reads what the dongle writes is proved for settings that
fit; larger ones are cut (`FramesGoWhole`), and the code does not refuse them.

## Findings

Six runs are expected to fail; each refutes what a comment of the code says.
`PROJECT.json`, "findings", quotes the comments.

1. `StoppingIsSafe`: in dongle mode every round ends with `set_value` on a
   promise that is already fulfilled, and the process ends.
2. `ForwardingEndsRetry`: a phone that connects early is never taken off the
   list of the retry thread.
3. `EveryUeventReachesEveryHandler`: the iterator skips.
4. `AbandonedWaitLeavesGadgetAlone`: a late START switches the gadget.
5. `StopReachesBoth`: a lost wakeup leaves a session hanging.
6. `DebugModeHolds`: a reset, begun before or after, starts the service that
   debug mode has stopped.

## Plan

Left: the composition of the cycle with the session and the gadget, in which the steps
of a session that the cycle takes as one are those of Forwarding, and its wait for the car
that of GadgetSwitch.

## Not modelled

The installer (runs once, in sequence), D-Bus declarations and the advertisement
object (no behaviour of their own), configuration files, third-party binaries, and the
commands of the scripts that only set up radio, network and gadgets. Of the Bluetooth
handler, the steps of `initAdapter` and `exportProfiles`: they run once, on one thread,
and all that matters later is whether they threw. Of `common.cpp`, the logger and
`getUniqueSuffix`, which have no state the rest depends on. Of the protobuf classes,
`Clear`, `MergeFrom`, `Swap`, copies and arenas, which the program never calls.
