--------------------------- MODULE ConnectionCycle ---------------------------
(***************************************************************************)
(* The connection loop of aawgd: three threads and the promise they share. *)
(*                                                                         *)
(*   main   aawgd.cpp main(): one round of the loop per phone connection   *)
(*   proxy  AAWProxy::handleClient, spawned by startServer                 *)
(*   bt     BluetoothHandler::retryConnectLoop, spawned by                 *)
(*          connectWithRetry                                               *)
(*                                                                         *)
(* connectWithRetryPromise (variable promise) is how main and proxy tell   *)
(* bt to stop.  It is a plain shared_ptr: main creates the promise, main   *)
(* and proxy each test it and then fulfil it, bt waits on it and, on one   *)
(* of its two ways out, drops it.  Nothing orders these accesses, so the   *)
(* test and the fulfilment are two steps here.                             *)
(*                                                                         *)
(* A C++ exception nobody catches ends the process; aa-dongle.service      *)
(* (Restart=always) starts it again.  The forwarding of data and the USB   *)
(* gadget are modules of their own (Forwarding, GadgetSwitch).             *)
(***************************************************************************)
EXTENDS Integers

CONSTANTS
    PassiveCycles,  \* waits of 5 s in dongle mode before an active attempt (3)
    MaxFds,         \* descriptors the process may hold for sockets and USB
    MaxDevices      \* bound on the Bluetooth devices BlueZ knows at a time

ASSUME CycleAssumption ==
    /\ PassiveCycles \in Nat \ {0}
    /\ MaxFds \in Nat \ {0}
    /\ MaxDevices \in Nat

VARIABLES
    strategy,     \* Config::getConnectionStrategy, the same for every start
    adapter,      \* m_adapter is set: initAdapter found a Bluetooth adapter
    main,         \* where main() is
    proxy,        \* where handleClient is
    bt,           \* where retryConnectLoop is
    promise,      \* connectWithRetryPromise: "null", "unset" or "set"
    waitCycles,   \* wait_cycles of retryConnectLoop
    powered,      \* BlueZ: the adapter is powered (survives our process)
    advertised,   \* BlueZ: our LE advertisement is registered
    known,        \* BlueZ: its devices, in the order of their paths
    todo,         \* device_paths of connectDevice from the one being tried on
    leaked,       \* descriptors handleClient left open on an early return
    died,         \* "no", or why the process ended
    late          \* history: connectDevice calls begun after a stop request

mainVars  == <<main, strategy, adapter>>
btVars    == <<bt, waitCycles, late, todo>>
bluezVars == <<powered, advertised, known>>
vars == <<strategy, adapter, main, proxy, bt, promise, waitCycles, powered,
          advertised, known, todo, leaked, died, late>>

Strategies == {"DONGLE_MODE", "PHONE_FIRST", "USB_FIRST"}

\* AAWG_CONNECTION_STRATEGY as getConnectionStrategy reads it; anything that is
\* not a known number, or no number at all, is PHONE_FIRST.
ConnectionStrategy(env) ==
    CASE env = 0 -> "DONGLE_MODE"
      [] env = 2 -> "USB_FIRST"
      [] OTHER   -> "PHONE_FIRST"

Dongle == strategy = "DONGLE_MODE"

Deaths == {"server", "dbus", "advert", "double_set", "null_promise"}
MainPcs == {"init", "loop", "accessory", "server", "powerOn", "connect",
            "joinProxy", "stop", "set", "joinBt", "disable"}
ProxyPcs == {"none", "accept", "stop", "set", "usb", "forward", "done"}
BtPcs == {"none", "unadvertise", "advertise", "passive", "connect",
          "connecting", "trying", "active", "exit", "done"}
Devices == 1 .. MaxDevices

Running == died = "no"

Init ==
    /\ strategy \in {ConnectionStrategy(env) : env \in 0..3}
    /\ adapter = FALSE
    /\ main = "init" /\ proxy = "none" /\ bt = "none"
    /\ promise = "null" /\ waitCycles = 0 /\ late = 0
    /\ powered \in BOOLEAN /\ advertised = FALSE
    /\ known \in SUBSET Devices /\ todo = {}
    /\ leaked = 0
    /\ died = "no"

-----------------------------------------------------------------------------
(* stopConnectWithRetry, the same code on two threads: the test of the     *)
(* shared pointer, then set_value through it.  set_value on a promise that *)
(* is already satisfied throws std::future_error; through a null pointer   *)
(* it faults.  Either ends the process.                                    *)

\* Mutated form: the test of the pointer the wrong way round.
TestPromise_Inverted(past) == IF promise # "null" THEN past ELSE "set"

\* stopConnectWithRetry, the test: past is where the caller goes without one.
TestPromise(past) == IF promise = "null" THEN past ELSE "set"

\* stopConnectWithRetry, the call.
SetValue ==
    IF promise = "unset"
    THEN promise' = "set" /\ died' = "no"
    ELSE /\ died' = IF promise = "set" THEN "double_set" ELSE "null_promise"
         /\ UNCHANGED promise

\* A D-Bus call outside any try block throws: std::terminate.
DBusThrows == died' = "dbus"

\* Mutated form: one passive wait too many.
LoopHead_OffByOne(cycles) ==
    IF Dongle /\ cycles <= PassiveCycles THEN "passive" ELSE "connect"

\* The head of retryConnectLoop's while: wait passively or try to connect.
LoopHead(cycles) ==
    IF Dongle /\ cycles < PassiveCycles THEN "passive" ELSE "connect"

-----------------------------------------------------------------------------
(* main() *)

\* BluetoothHandler::init, and in dongle mode the one powerOn before the loop.
\* A D-Bus error in either ends the process.
InitBluetooth ==
    /\ Running /\ main = "init"
    /\ adapter' \in BOOLEAN
    /\ powered' = (powered \/ (Dongle /\ adapter'))
    /\ advertised' = (Dongle /\ adapter')
    /\ main' = "loop"
    /\ UNCHANGED <<strategy, proxy, btVars, promise, known, leaked, died>>

InitFails ==
    /\ Running /\ main = "init"
    /\ DBusThrows
    /\ UNCHANGED <<mainVars, proxy, btVars, promise, bluezVars, leaked>>

\* The head of the loop: USB_FIRST waits for the car, with no timeout.
NextRound ==
    /\ Running /\ main = "loop"
    /\ main' = IF strategy = "USB_FIRST" THEN "accessory" ELSE "server"
    /\ UNCHANGED <<strategy, adapter, proxy, btVars, promise, bluezVars,
                   leaked, died>>

AccessoryReady ==
    /\ Running /\ main = "accessory"
    /\ main' = "server"
    /\ UNCHANGED <<strategy, adapter, proxy, btVars, promise, bluezVars,
                   leaked, died>>

\* startServer: socket, bind, listen, and the thread that accepts.
StartServer ==
    /\ Running /\ main = "server"
    /\ leaked < MaxFds
    /\ proxy' = "accept"
    /\ main' = IF Dongle THEN "connect" ELSE "powerOn"
    /\ UNCHANGED <<strategy, adapter, btVars, promise, bluezVars, leaked,
                   died>>

\* No socket, or setsockopt, bind or listen failed: main returns 1.
StartServerFails ==
    /\ Running /\ main = "server"
    /\ died' = "server"
    /\ UNCHANGED <<mainVars, proxy, btVars, promise, bluezVars, leaked>>

\* powerOn outside dongle mode: setPower, setPairable.
PowerOn ==
    /\ Running /\ main = "powerOn"
    /\ powered' = (powered \/ adapter)
    /\ main' = "connect"
    /\ UNCHANGED <<strategy, adapter, proxy, btVars, promise, advertised, known,
                   leaked, died>>

PowerOnFails ==
    /\ Running /\ main = "powerOn" /\ adapter
    /\ DBusThrows
    /\ UNCHANGED <<mainVars, proxy, btVars, promise, bluezVars, leaked>>

\* connectWithRetry: a fresh promise and the thread that waits on it.
ConnectWithRetry ==
    /\ Running /\ main = "connect"
    /\ main' = "joinProxy"
    /\ IF adapter
       THEN /\ promise' = "unset"
            /\ bt' = IF Dongle THEN "unadvertise" ELSE LoopHead(0)
            /\ waitCycles' = 0 /\ late' = 0 /\ UNCHANGED todo
       ELSE UNCHANGED <<promise, btVars>>
    /\ UNCHANGED <<strategy, adapter, proxy, bluezVars, leaked, died>>

JoinProxy ==
    /\ Running /\ main = "joinProxy" /\ proxy = "done"
    /\ main' = IF bt = "none" THEN "disable" ELSE "stop"
    /\ UNCHANGED <<strategy, adapter, proxy, btVars, promise, bluezVars,
                   leaked, died>>

MainTestsPromise ==
    /\ Running /\ main = "stop"
    /\ main' = TestPromise("joinBt")
    /\ UNCHANGED <<strategy, adapter, proxy, btVars, promise, bluezVars,
                   leaked, died>>

MainSetsPromise ==
    /\ Running /\ main = "set"
    /\ SetValue
    /\ main' = IF died' = "no" THEN "joinBt" ELSE main
    /\ UNCHANGED <<strategy, adapter, proxy, btVars, bluezVars, leaked>>

JoinBt ==
    /\ Running /\ main = "joinBt" /\ bt = "done"
    /\ bt' = "none"
    /\ main' = "disable"
    /\ UNCHANGED <<strategy, adapter, proxy, promise, waitCycles, late, todo,
                   bluezVars, leaked, died>>

\* disableGadget (module GadgetSwitch), the sleep of 2 s, and round again.
DisableGadget ==
    /\ Running /\ main = "disable"
    /\ main' = "loop"
    /\ UNCHANGED <<strategy, adapter, proxy, btVars, promise, bluezVars,
                   leaked, died>>

-----------------------------------------------------------------------------
(* handleClient *)

\* Descriptors handleClient and the listening socket hold right now.
Held == CASE proxy = "accept" -> 1
          [] proxy \in {"stop", "set", "usb"} -> 1
          [] proxy = "forward" -> 2
          [] OTHER -> 0

\* accept returned the phone's connection; the listening socket is closed.
Accept ==
    /\ Running /\ proxy = "accept"
    /\ leaked + Held < MaxFds
    /\ proxy' = "stop"
    /\ UNCHANGED <<mainVars, btVars, promise, bluezVars, leaked, died>>

\* accept failed: the listening socket is closed and the thread ends.
AcceptFails ==
    /\ Running /\ proxy = "accept"
    /\ proxy' = "done"
    /\ UNCHANGED <<mainVars, btVars, promise, bluezVars, leaked, died>>

ProxyTestsPromise ==
    /\ Running /\ proxy = "stop"
    /\ proxy' = TestPromise("usb")
    /\ UNCHANGED <<mainVars, btVars, promise, bluezVars, leaked, died>>

ProxySetsPromise ==
    /\ Running /\ proxy = "set"
    /\ SetValue
    /\ proxy' = IF died' = "no" THEN "usb" ELSE proxy
    /\ UNCHANGED <<mainVars, btVars, bluezVars, leaked>>

\* The accessory is there, /dev/usb_accessory opens: the session begins.
StartForwarding ==
    /\ Running /\ proxy = "usb"
    /\ leaked + Held < MaxFds
    /\ proxy' = "forward"
    /\ UNCHANGED <<mainVars, btVars, promise, bluezVars, leaked, died>>

\* The early returns: n descriptors stay open, the TCP socket after an accessory
\* that did not come within 30 s or would not open, and the accessory too when
\* setsockopt fails.
EarlyReturn(n) ==
    /\ Running /\ proxy = "usb"
    /\ leaked + n <= MaxFds
    /\ leaked' = leaked + n
    /\ proxy' = "done"
    /\ UNCHANGED <<mainVars, btVars, promise, bluezVars, died>>

\* Both forwarding threads joined, both descriptors closed.
EndForwarding ==
    /\ Running /\ proxy = "forward"
    /\ proxy' = "done"
    /\ UNCHANGED <<mainVars, btVars, promise, bluezVars, leaked, died>>

-----------------------------------------------------------------------------
(* retryConnectLoop *)

\* Mutated form: dongle mode starts to advertise without stopping first.
StopAdvertising_Skipped ==
    /\ Running /\ bt = "unadvertise"
    /\ bt' = "advertise"
    /\ UNCHANGED <<mainVars, proxy, waitCycles, late, todo, promise, bluezVars,
                   leaked, died>>

\* In dongle mode: stopAdvertising.  BlueZ refuses to unregister what is not
\* registered, with an error nobody catches.
StopAdvertising ==
    /\ Running /\ bt = "unadvertise"
    /\ IF advertised
       THEN advertised' = FALSE /\ bt' = "advertise" /\ UNCHANGED died
       ELSE died' = "advert" /\ UNCHANGED <<advertised, bt>>
    /\ UNCHANGED <<mainVars, proxy, waitCycles, late, todo, promise, powered,
                   known, leaked>>

\* startAdvertising.  BlueZ refuses to register the same path twice.
StartAdvertising ==
    /\ Running /\ bt = "advertise"
    /\ IF advertised
       THEN died' = "advert" /\ UNCHANGED <<advertised, bt>>
       ELSE advertised' = TRUE /\ bt' = LoopHead(0) /\ UNCHANGED died
    /\ UNCHANGED <<mainVars, proxy, waitCycles, late, todo, promise, powered,
                   known, leaked>>

\* Any D-Bus call of this thread outside connectDevice's try block: the
\* advertising calls, GetManagedObjects, and powerOff.
BluetoothFails ==
    /\ Running
    /\ \/ bt \in {"unadvertise", "advertise", "connecting"}
       \/ bt = "exit" /\ ~Dongle
    /\ DBusThrows
    /\ UNCHANGED <<mainVars, proxy, btVars, promise, bluezVars, leaked>>

\* Dongle mode, a passive wait of 5 s that nobody ended.
PassiveTimeout ==
    /\ Running /\ bt = "passive" /\ promise # "set"
    /\ waitCycles' = waitCycles + 1
    /\ bt' = LoopHead(waitCycles')
    /\ UNCHANGED <<mainVars, proxy, late, todo, promise, bluezVars, leaked, died>>

\* A passive wait that was ended.  This way out leaves the promise where it is.
PassiveReady ==
    /\ Running /\ bt = "passive" /\ promise = "set"
    /\ waitCycles' = waitCycles + 1
    /\ bt' = "exit"
    /\ UNCHANGED <<mainVars, proxy, late, todo, promise, bluezVars, leaked, died>>

\* connectDevice begins.
ConnectDevice ==
    /\ Running /\ bt = "connect"
    /\ late' = IF promise = "set" THEN late + 1 ELSE late
    /\ bt' = "connecting"
    /\ UNCHANGED <<mainVars, proxy, waitCycles, todo, promise, bluezVars, leaked,
                   died>>

\* Where connectDevice goes when it has the devices ds still to try.
NextDevice(ds) ==
    /\ todo' = ds
    /\ bt' = IF ds = {} THEN "active" ELSE "trying"
    /\ UNCHANGED <<mainVars, proxy, waitCycles, late, promise, bluezVars, leaked,
                   died>>

\* The devices BlueZ has now; they are tried later, when it may have others.
FindDevices ==
    /\ Running /\ bt = "connecting"
    /\ NextDevice(known)

\* The first of the devices still to try.
Trying(d) == bt = "trying" /\ d \in todo /\ \A e \in todo : d <= e

\* The device is connected already, or takes ConnectProfile.
DeviceTried(d) ==
    /\ Running /\ Trying(d) /\ d \in known
    /\ NextDevice(todo \ {d})

\* Mutated form: the error is caught outside the loop over the devices.
DeviceFails_EndsCall(d) ==
    /\ Running /\ Trying(d)
    /\ NextDevice({})

\* It is out of reach, refuses, or is gone: the error is caught in the loop.
DeviceFails(d) ==
    /\ Running /\ Trying(d)
    /\ NextDevice(todo \ {d})

\* After an active attempt dongle mode counts its passive waits anew.
AfterAttempt == IF Dongle THEN 0 ELSE waitCycles

\* Mutated form: the wait after an attempt is a sleep, the stop is not seen.
ActiveTimeout_Deaf ==
    /\ Running /\ bt = "active"
    /\ waitCycles' = AfterAttempt /\ bt' = LoopHead(AfterAttempt)
    /\ UNCHANGED <<mainVars, proxy, late, todo, promise, bluezVars, leaked, died>>

\* Mutated form: the promise is dropped whether or not the wait was ended.
ActiveTimeout_DropsPromise ==
    /\ Running /\ bt = "active" /\ promise # "set"
    /\ waitCycles' = AfterAttempt /\ bt' = LoopHead(AfterAttempt)
    /\ promise' = "null"
    /\ UNCHANGED <<mainVars, proxy, late, todo, bluezVars, leaked, died>>

\* The wait of 5 s after an attempt that nobody ended.
ActiveTimeout ==
    /\ Running /\ bt = "active" /\ promise # "set"
    /\ waitCycles' = AfterAttempt /\ bt' = LoopHead(AfterAttempt)
    /\ UNCHANGED <<mainVars, proxy, late, todo, promise, bluezVars, leaked, died>>

\* Mutated form: the promise is fulfilled, dropped, and the loop goes on.
ActiveReady_StaysInLoop ==
    /\ Running /\ bt = "active" /\ promise = "set"
    /\ promise' = "null"
    /\ waitCycles' = AfterAttempt /\ bt' = LoopHead(AfterAttempt)
    /\ UNCHANGED <<mainVars, proxy, late, todo, bluezVars, leaked, died>>

\* Mutated form: this way out keeps the promise as well.
ActiveReady_KeepsPromise ==
    /\ Running /\ bt = "active" /\ promise = "set"
    /\ waitCycles' = AfterAttempt /\ bt' = "exit"
    /\ UNCHANGED <<mainVars, proxy, late, todo, promise, bluezVars, leaked, died>>

\* A wait after an attempt that was ended.  This way out drops the promise.
ActiveReady ==
    /\ Running /\ bt = "active" /\ promise = "set"
    /\ promise' = "null"
    /\ waitCycles' = AfterAttempt /\ bt' = "exit"
    /\ UNCHANGED <<mainVars, proxy, late, todo, bluezVars, leaked, died>>

\* Mutated form: powerOff in dongle mode only.
LeaveRetryLoop_Swapped ==
    /\ Running /\ bt = "exit"
    /\ powered' = (powered /\ ~Dongle)
    /\ bt' = "done"
    /\ UNCHANGED <<mainVars, proxy, waitCycles, late, todo, promise, advertised,
                   known, leaked, died>>

\* The end of the thread: powerOff, except in dongle mode.
LeaveRetryLoop ==
    /\ Running /\ bt = "exit"
    /\ powered' = (powered /\ Dongle)
    /\ bt' = "done"
    /\ UNCHANGED <<mainVars, proxy, waitCycles, late, todo, promise, advertised,
                   known, leaked, died>>

-----------------------------------------------------------------------------
\* systemd (Restart=always) starts the process again: its memory is new, BlueZ
\* drops the advertisement of a client that left and keeps the adapter as it was.
Restart ==
    /\ ~Running
    /\ main' = "init" /\ proxy' = "none" /\ bt' = "none"
    /\ adapter' = FALSE
    /\ promise' = "null" /\ waitCycles' = 0 /\ late' = 0 /\ todo' = {}
    /\ advertised' = FALSE
    /\ leaked' = 0
    /\ died' = "no"
    /\ UNCHANGED <<strategy, powered, known>>

\* Phones pair and are forgotten; BlueZ also drops devices that never paired.
DevicesChange ==
    /\ known' \in SUBSET Devices \ {known}
    /\ UNCHANGED <<mainVars, proxy, btVars, promise, powered, advertised, leaked, died>>

MainNext ==
    \/ InitBluetooth \/ InitFails \/ NextRound \/ AccessoryReady
    \/ StartServer \/ StartServerFails \/ PowerOn \/ PowerOnFails
    \/ ConnectWithRetry \/ JoinProxy \/ MainTestsPromise \/ MainSetsPromise
    \/ JoinBt \/ DisableGadget

ProxyNext ==
    \/ Accept \/ AcceptFails \/ ProxyTestsPromise \/ ProxySetsPromise
    \/ StartForwarding \/ EndForwarding
    \/ \E n \in 1..2 : EarlyReturn(n)

BtNext ==
    \/ StopAdvertising \/ StartAdvertising \/ BluetoothFails
    \/ PassiveTimeout \/ PassiveReady \/ ConnectDevice \/ FindDevices
    \/ \E d \in Devices : DeviceTried(d) \/ DeviceFails(d)
    \/ ActiveTimeout \/ ActiveReady \/ LeaveRetryLoop

Next == MainNext \/ ProxyNext \/ BtNext \/ Restart \/ DevicesChange

\* What the operating system owes us: a thread that can move does, a call with
\* a timeout returns, systemd restarts the service.  A step that can keep failing
\* (binding the port, the start-up calls to BlueZ) succeeds if tried for ever.
\* Nothing is owed by the phone (Accept, EndForwarding) or the car
\* (AccessoryReady, StartForwarding).
Fairness ==
    /\ SF_vars(InitBluetooth) /\ SF_vars(StartServer)
    /\ WF_vars(NextRound) /\ WF_vars(StartServer \/ StartServerFails)
    /\ WF_vars(PowerOn \/ PowerOnFails)
    /\ WF_vars(ConnectWithRetry) /\ WF_vars(JoinProxy)
    /\ WF_vars(MainTestsPromise) /\ WF_vars(MainSetsPromise)
    /\ WF_vars(JoinBt) /\ WF_vars(DisableGadget)
    /\ WF_vars(ProxyTestsPromise) /\ WF_vars(ProxySetsPromise)
    /\ WF_vars(BtNext)
    /\ WF_vars(Restart)

Spec == Init /\ [][Next]_vars /\ Fairness

-----------------------------------------------------------------------------
(* Properties *)

\* Every variable keeps to its values; in particular retryConnectLoop never
\* counts more than PassiveCycles passive waits (bluetoothHandler.cpp 284-310).
TypeOK ==
    /\ strategy \in Strategies /\ adapter \in BOOLEAN
    /\ main \in MainPcs /\ proxy \in ProxyPcs /\ bt \in BtPcs
    /\ promise \in {"null", "unset", "set"}
    /\ waitCycles \in 0..PassiveCycles
    /\ powered \in BOOLEAN /\ advertised \in BOOLEAN
    /\ known \in SUBSET Devices /\ todo \in SUBSET Devices
    /\ leaked \in 0..MaxFds /\ late \in Nat
    /\ died \in Deaths \cup {"no"}

\* When main joins the retry thread (aawgd.cpp 49) that thread has left its loop
\* or the request that makes it leave is in the promise: whichever of main and
\* proxy fulfilled it, and although the thread drops it, the join returns.
JoinBtCannotHang ==
    Running /\ main = "joinBt" => promise = "set" \/ bt \in {"exit", "done"}

\* Outside dongle mode the adapter is off whenever main is between two phones
\* (powerOn at aawgd.cpp 40, powerOff on the other thread at
\* bluetoothHandler.cpp 314).
BluetoothOffBetweenRounds ==
    Running /\ ~Dongle /\ adapter /\ main = "disable" => ~powered

\* In dongle mode the adapter is on and the advertisement on air at all times
\* but while the retry thread renews it, however many rounds have ended
\* (aawgd.cpp 20, bluetoothHandler.cpp 269-271 and 313).
DongleStaysVisible ==
    Running /\ Dongle /\ adapter /\ main # "init" =>
        powered /\ (advertised \/ bt = "advertise")

\* Every unregistration finds the advertisement registered and every registration
\* finds it gone; BlueZ answers anything else with an error no one catches.
AdvertisementCallsMatch == died # "advert"

\* Once a stop was requested the retry thread begins at most one more connection
\* attempt, the one it was about to make (bluetoothHandler.cpp 299-305).
AtMostOneLateAttempt == Running => late <= 1

\* Outside dongle mode a second set_value can reach the promise only from main,
\* while the retry thread has not yet seen the first one: once it has seen it,
\* dropping the promise (bluetoothHandler.cpp 304) protects the process.
DoubleStopNeedsUnseenStop ==
    died = "double_set" /\ ~Dongle =>
        main = "set" /\ bt \in {"connect", "connecting", "trying", "active"}

\* A stop request reaches the retry thread: it leaves its loop, or the process
\* ends first.
StopRequestHonoured ==
    bt \notin {"none", "done"} /\ promise = "set"
        ~> bt \in {"none", "done"} \/ ~Running

\* As long as no stop is requested every device that stays known is tried, again and
\* again, whatever those tried before it answer, in every strategy: an error of one
\* does not keep the call from the next (bluetoothHandler.cpp 228-258, 276-311).
EveryDeviceIsTried ==
    \A d \in Devices :
        d \in known /\ bt \notin {"none", "exit", "done"}
            ~> Trying(d) \/ d \notin known \/ promise = "set" \/ ~Running

\* After every session, however it ended and whatever died on the way, the dongle
\* listens for the next phone (or, USB_FIRST, waits for the car to do so).
ListensAgain ==
    proxy = "done" ~> proxy = "accept" \/ main = "accessory"

-----------------------------------------------------------------------------
(* The inductive invariant.  ConnectionCycleProofs proves the properties    *)
(* above from it.                                                          *)

\* Where the retry thread can be, given where main is, and what each says of the
\* adapter and the strategy.
ThreadInv ==
    /\ bt # "none" =>
         main \in {"joinProxy", "stop", "set", "joinBt"} /\ adapter
    /\ main \in {"stop", "set", "joinBt"} => bt # "none" /\ proxy = "done"
    /\ main = "joinProxy" /\ bt = "none" => ~adapter
    /\ bt \in {"unadvertise", "advertise", "passive"} => Dongle

\* The retry thread counts a passive wait only while there is one left.
WaitInv ==
    /\ bt = "passive" => waitCycles < PassiveCycles
    /\ bt \in {"unadvertise", "advertise"} => waitCycles = 0

\* The promise is there while the retry thread waits on it.  Outside dongle mode it
\* is there no longer, and it is fulfilled only by what comes after proxy's stop.
PromiseInv ==
    /\ bt \notin {"none", "exit", "done"} => promise # "null"
    /\ main = "joinBt" => promise = "set" \/ bt \in {"exit", "done"}
    /\ ~Dongle /\ promise # "null" => bt \in {"connect", "connecting", "trying", "active"}
    /\ ~Dongle /\ promise = "set" => proxy \in {"usb", "forward", "done"}

\* A late attempt is followed by a wait that sees the stop.
LateInv ==
    /\ late <= 1
    /\ late = 1 => \/ bt \in {"connecting", "trying", "active"}
                      /\ promise = "set"
                   \/ bt \in {"exit", "done", "none"}

\* Power and advertisement of the adapter.
BluezInv ==
    /\ Dongle /\ adapter /\ main # "init" =>
         powered /\ (advertised <=> bt # "advertise")
    /\ ~Dongle /\ bt = "done" => ~powered
    /\ ~Dongle /\ adapter /\ main = "disable" => ~powered
    /\ died # "advert"

CycleInv ==
    /\ TypeOK /\ ThreadInv /\ WaitInv /\ PromiseInv /\ LateInv /\ BluezInv
    /\ DoubleStopNeedsUnseenStop

-----------------------------------------------------------------------------
(* What the comments of the code say and the code does not do *)

\* aawgd.cpp 26 and 47-50: a round ends by stopping the retry thread and going
\* round again, so stopping it does not end the process.
StoppingIsSafe == died \notin {"double_set", "null_promise"}

\* proxyHandler.cpp 168: "Phone connected via TCP, we can stop retrying bluetooth
\* connection": while data is forwarded the retry thread has been told to stop.
ForwardingEndsRetry ==
    Running /\ proxy = "forward" /\ bt \notin {"none", "exit", "done"}
        => promise = "set"
=============================================================================
