----------------------------- MODULE GadgetSwitch -----------------------------
(***************************************************************************)
(* Waiting for the car: UsbManager, UeventMonitor and the USB device       *)
(* controller (UDC) between them.                                          *)
(*                                                                         *)
(*   client   the thread in enableDefaultAndWaitForAccessory and later in  *)
(*            disableGadget.  There is one at a time: handleClient, or     *)
(*            main when the strategy is USB_FIRST, and then main.          *)
(*   mon      UeventMonitor::monitorLoop, which calls the handlers         *)
(*   udc      configfs: the gadget bound to the controller, if any         *)
(*                                                                         *)
(* A handler holds a weak_ptr to the promise of its wait, so that all that *)
(* counts of it is whether that wait is still on ("live").  Once called    *)
(* with the START event it holds a strong pointer until it returns, after  *)
(* the 1 s of switchToAccessoryGadget; its wait may be over by then (held). *)
(*                                                                         *)
(* The list of handlers is not protected: the client appends to it while   *)
(* the monitor walks it and erases from it.                                *)
(***************************************************************************)
EXTENDS Integers, Sequences, SequencesExt

CONSTANTS
    MaxHandlers,    \* bound on the length of the list of handlers
    MaxQueue        \* bound on the uevents waiting in the netlink socket

ASSUME GadgetAssumption ==
    /\ MaxHandlers \in Nat \ {0}
    /\ MaxQueue \in Nat \ {0}

VARIABLES
    strategy,   \* Config::getConnectionStrategy
    client,     \* where the client thread is
    ready,      \* the promise of the wait that is on is fulfilled
    handlers,   \* UeventMonitor::handlers, in order
    queue,      \* uevents not yet read
    mon,        \* where the monitor thread is
    it,         \* its iterator, an index of handlers or one past the end
    ev,         \* the uevent it is delivering
    held,       \* whose promise the handler being run holds
    udc,        \* the gadget bound to the UDC
    spoiled,    \* history: waits in a row begun with the controller taken
    died        \* "no", or why the process ended

clientVars == <<client, ready>>
monVars == <<mon, it, ev, held>>
vars == <<strategy, client, ready, handlers, queue, mon, it, ev, held, udc,
          spoiled, died>>

Strategies == {"DONGLE_MODE", "PHONE_FIRST", "USB_FIRST"}

\* A uevent is ACCESSORY=START of usb_accessory or any other.  A START that was
\* sent before the wait now on began is marked "stale": the mark is history, the
\* handlers cannot see it.
Uevents == {"start", "stale", "other"}
IsStart(e) == e \in {"start", "stale"}
Aged(e) == IF e = "start" THEN "stale" ELSE e

\* live: the wait of this handler is on.  called: history, it has been called with
\* the uevent being delivered, or was not there when that uevent was read.
Handler == [live : BOOLEAN, called : BOOLEAN]

Gadgets == {"default", "accessory"}
ClientPcs == {"idle", "add", "enable", "wait", "session",
              "disableDefault", "disableAccessory", "pause"}
MonPcs == {"absent", "read", "iter", "unbind", "bind", "fulfil", "erase"}

Running == died = "no"

\* The process starts in the constructor of UsbManager, which calls
\* disableGadget; what an earlier run of it left bound is still bound.
\* UeventMonitor::start may have failed: then nobody reads uevents.
Boot ==
    /\ client' = "disableDefault" /\ ready' = FALSE
    /\ handlers' = <<>> /\ queue' = <<>>
    /\ mon' \in {"read", "absent"}
    /\ it' = 1 /\ ev' = "other" /\ held' = "none"
    /\ spoiled' = 0
    /\ died' = "no"

Init ==
    /\ strategy \in Strategies
    /\ client = "disableDefault" /\ ready = FALSE
    /\ handlers = <<>> /\ queue = <<>>
    /\ mon \in {"read", "absent"}
    /\ it = 1 /\ ev = "other" /\ held = "none"
    /\ udc \in Gadgets \cup {"none"}
    /\ spoiled = 0
    /\ died = "no"

\* The history counts no further than tells one spoiled wait from two in a row.
MaxSpoiled == 2

-----------------------------------------------------------------------------
(* The kernel's side of configfs *)

\* Writing a gadget's UDC file with a name: refused while the controller is
\* taken, and it may fail for other reasons; writeGadgetFile only logs.
Bind(g) == udc' \in IF udc = "none" THEN {g, "none"} ELSE {udc}

\* Writing it with nothing: that gadget is unbound, if it was bound.
Unbind(g) == udc' = IF udc = g THEN "none" ELSE udc

-----------------------------------------------------------------------------
(* The client *)

\* A phone has connected, or (USB_FIRST) main begins a round.
BeginWait ==
    /\ Running /\ client = "idle"
    /\ Len(handlers) < MaxHandlers
    /\ client' = "add"
    /\ UNCHANGED <<strategy, ready, handlers, queue, monVars, udc, spoiled,
                   died>>

\* A round that ends without a wait: accept failed.
RoundWithoutPhone ==
    /\ Running /\ client = "idle" /\ strategy # "USB_FIRST"
    /\ client' = "disableDefault"
    /\ UNCHANGED <<strategy, ready, handlers, queue, monVars, udc, spoiled,
                   died>>

\* The monitor is unlinking the last node of the list.
ErasingLast == mon = "erase" /\ it = Len(handlers)

AppendHandler ==
    handlers' = Append(handlers, [live |-> TRUE, called |-> TRUE])

\* A new promise, and addHandler.  START events sent before this are stale now.
\* Appending while the monitor unlinks the last node is a data race on that node:
\* the new one is linked, or hangs off the freed one, or the heap is corrupt.
AddHandler ==
    /\ Running /\ client = "add"
    /\ client' = "enable" /\ ready' = FALSE
    /\ queue' = [i \in DOMAIN queue |-> Aged(queue[i])]
    /\ ev' = Aged(ev)
    /\ \/ AppendHandler /\ died' = "no"
       \/ ErasingLast /\ handlers' = handlers /\ died' \in {"no", "list_race"}
    /\ UNCHANGED <<strategy, mon, it, held, udc, spoiled>>

EnableDefault ==
    /\ Running /\ client = "enable"
    /\ Bind("default")
    /\ spoiled' = IF udc # "accessory" THEN 0
                  ELSE IF spoiled < MaxSpoiled THEN spoiled + 1 ELSE spoiled
    /\ client' = "wait"
    /\ UNCHANGED <<strategy, ready, handlers, queue, monVars, died>>

\* The wait returns, and with it goes the only lasting reference to its promise.
LeaveWait(to) ==
    /\ client' = to
    /\ handlers' = [i \in DOMAIN handlers |-> [handlers[i] EXCEPT !.live = FALSE]]
    /\ held' = IF held = "current" THEN "old" ELSE held
    /\ UNCHANGED <<strategy, ready, queue, mon, it, ev, udc, spoiled, died>>

AccessoryArrived ==
    /\ Running /\ client = "wait" /\ ready
    /\ LeaveWait("session")

\* 30 s have passed; handleClient returns and main ends the round.
WaitTimesOut ==
    /\ Running /\ client = "wait" /\ ~ready /\ strategy # "USB_FIRST"
    /\ LeaveWait("disableDefault")

\* The session is over (module Forwarding), or could not be opened.
EndSession ==
    /\ Running /\ client = "session"
    /\ client' = "disableDefault"
    /\ UNCHANGED <<strategy, ready, handlers, queue, monVars, udc, spoiled,
                   died>>

\* disableGadget: the default gadget, then the accessory gadget.
DisableDefault ==
    /\ Running /\ client = "disableDefault"
    /\ Unbind("default")
    /\ client' = "disableAccessory"
    /\ UNCHANGED <<strategy, ready, handlers, queue, monVars, spoiled, died>>

AfterRound == IF strategy = "DONGLE_MODE" THEN "idle" ELSE "pause"

\* Mutated form: only the default gadget is disabled.
DisableAccessory_Forgotten ==
    /\ Running /\ client = "disableAccessory"
    /\ client' = AfterRound
    /\ UNCHANGED <<strategy, ready, handlers, queue, monVars, udc, spoiled,
                   died>>

DisableAccessory ==
    /\ Running /\ client = "disableAccessory"
    /\ Unbind("accessory")
    /\ client' = AfterRound
    /\ UNCHANGED <<strategy, ready, handlers, queue, monVars, spoiled, died>>

\* Mutated form: the next round begins at once.
Pause_NoSleep ==
    /\ Running /\ client = "pause"
    /\ client' = "idle"
    /\ UNCHANGED <<strategy, ready, handlers, queue, monVars, udc, spoiled,
                   died>>

\* Outside dongle mode main sleeps 2 s (at start-up it talks to BlueZ instead),
\* twice as long as the switch to the accessory gadget takes: the monitor has
\* dealt with what was sent before.
Pause ==
    /\ Running /\ client = "pause"
    /\ mon \in {"read", "absent"} /\ queue = <<>>
    /\ client' = "idle"
    /\ UNCHANGED <<strategy, ready, handlers, queue, monVars, udc, spoiled,
                   died>>

-----------------------------------------------------------------------------
(* The kernel sends uevents; what does not fit in the socket is lost. *)

\* The car asks for accessory mode.  It can while it sees the default gadget.
SendStart ==
    /\ Running /\ mon # "absent" /\ udc = "default"
    /\ Len(queue) < MaxQueue
    /\ queue' = Append(queue, "start")
    /\ UNCHANGED <<strategy, clientVars, handlers, monVars, udc, spoiled, died>>

SendOther ==
    /\ Running /\ mon # "absent"
    /\ Len(queue) < MaxQueue
    /\ queue' = Append(queue, "other")
    /\ UNCHANGED <<strategy, clientVars, handlers, monVars, udc, spoiled, died>>

-----------------------------------------------------------------------------
(* The monitor *)

ReadUevent ==
    /\ Running /\ mon = "read" /\ queue # <<>>
    /\ ev' = Head(queue) /\ queue' = Tail(queue)
    /\ handlers' = [i \in DOMAIN handlers |-> [handlers[i] EXCEPT !.called = FALSE]]
    /\ it' = 1
    /\ mon' = "iter"
    /\ UNCHANGED <<strategy, clientVars, held, udc, spoiled, died>>

\* The handlers have been walked to the end of the list.
EndOfHandlers ==
    /\ Running /\ mon = "iter" /\ it > Len(handlers)
    /\ mon' = "read" /\ it' = 1
    /\ UNCHANGED <<strategy, clientVars, handlers, queue, ev, held, udc,
                   spoiled, died>>

\* Mutated form: a handler is removed by any event.
CallHandler_RemovesOnOther ==
    /\ Running /\ mon = "iter" /\ it <= Len(handlers)
    /\ handlers' = [handlers EXCEPT ![it].called = TRUE]
    /\ IF handlers[it].live /\ IsStart(ev)
       THEN held' = "current" /\ mon' = "unbind"
       ELSE mon' = "erase" /\ UNCHANGED held
    /\ UNCHANGED <<strategy, clientVars, queue, it, ev, udc, spoiled, died>>

\* Calling a handler.  Its wait is over: it returns true.  The event is not
\* START: it returns false.  Otherwise it goes on to switch the gadget, holding
\* the promise from here on.
CallHandler ==
    /\ Running /\ mon = "iter" /\ it <= Len(handlers)
    /\ handlers' = [handlers EXCEPT ![it].called = TRUE]
    /\ \/ /\ ~handlers[it].live
          /\ mon' = "erase" /\ UNCHANGED <<it, held>>
       \/ /\ handlers[it].live /\ ~IsStart(ev)
          /\ it' = it + 1 /\ UNCHANGED <<mon, held>>
       \/ /\ handlers[it].live /\ IsStart(ev)
          /\ held' = "current" /\ mon' = "unbind" /\ UNCHANGED it
    /\ UNCHANGED <<strategy, clientVars, queue, ev, udc, spoiled, died>>

\* Mutated form: the default gadget is left bound.
UnbindDefault_Forgotten ==
    /\ Running /\ mon = "unbind"
    /\ mon' = "bind"
    /\ UNCHANGED <<strategy, clientVars, handlers, queue, it, ev, held, udc,
                   spoiled, died>>

\* switchToAccessoryGadget: off with the default gadget, 1 s for the hardware to
\* let go, on with the accessory gadget.
UnbindDefault ==
    /\ Running /\ mon = "unbind"
    /\ Unbind("default")
    /\ mon' = "bind"
    /\ UNCHANGED <<strategy, clientVars, handlers, queue, it, ev, held,
                   spoiled, died>>

BindAccessory ==
    /\ Running /\ mon = "bind"
    /\ Bind("accessory")
    /\ mon' = "fulfil"
    /\ UNCHANGED <<strategy, clientVars, handlers, queue, it, ev, held,
                   spoiled, died>>

\* set_value on the promise held, and the handler returns true.
FulfilPromise ==
    /\ Running /\ mon = "fulfil"
    /\ IF held = "current" /\ ready
       THEN died' = "double_set" /\ UNCHANGED <<ready, mon>>
       ELSE /\ ready' = (ready \/ held = "current")
            /\ mon' = "erase" /\ UNCHANGED died
    /\ held' = "none"
    /\ UNCHANGED <<strategy, client, handlers, queue, it, ev, udc, spoiled>>

\* Mutated form: the handler stays in the list whatever it returned.
EraseHandler_Keeps ==
    /\ Running /\ mon = "erase"
    /\ it' = it + 1
    /\ mon' = "iter"
    /\ UNCHANGED <<strategy, clientVars, handlers, queue, ev, held, udc,
                   spoiled, died>>

\* Mutated form: the iterator stays on the index after an erasure of the last.
EraseHandler_StepsPastEnd ==
    /\ Running /\ mon = "erase"
    /\ handlers' = RemoveAt(handlers, it)
    /\ it' = it + 1
    /\ mon' = "iter"
    /\ UNCHANGED <<strategy, clientVars, queue, ev, held, udc, spoiled, died>>

\* it = handlers.erase(it), and then the ++it of the for loop.  erase returns the
\* next node, which ++it therefore skips; after the last node it returns the end,
\* and ++ on the end of a libstdc++ list is its first node (or the end, if empty).
EraseHandler ==
    /\ Running /\ mon = "erase"
    /\ handlers' = RemoveAt(handlers, it)
    /\ it' = IF it = Len(handlers) THEN 1 ELSE it + 1
    /\ mon' = "iter"
    /\ UNCHANGED <<strategy, clientVars, queue, ev, held, udc, spoiled, died>>

-----------------------------------------------------------------------------
\* Anything else that ends the process (module ConnectionCycle has such things).
Crash ==
    /\ Running
    /\ died' = "crash"
    /\ UNCHANGED <<strategy, clientVars, handlers, queue, monVars, udc, spoiled>>

Restart ==
    /\ ~Running
    /\ Boot
    /\ UNCHANGED <<strategy, udc>>

ClientNext ==
    \/ BeginWait \/ RoundWithoutPhone \/ AddHandler \/ EnableDefault
    \/ AccessoryArrived \/ WaitTimesOut \/ EndSession
    \/ DisableDefault \/ DisableAccessory \/ Pause

MonNext ==
    \/ ReadUevent \/ EndOfHandlers \/ CallHandler \/ UnbindDefault
    \/ BindAccessory \/ FulfilPromise \/ EraseHandler

Next == ClientNext \/ SendStart \/ SendOther \/ MonNext \/ Crash \/ Restart

\* Threads that can move do, a wait that times out does, systemd restarts the
\* service.  Phones, cars and the kernel owe nothing.
Fairness ==
    /\ WF_vars(MonNext)
    /\ WF_vars(AddHandler) /\ WF_vars(EnableDefault)
    /\ WF_vars(AccessoryArrived \/ WaitTimesOut)
    /\ WF_vars(DisableDefault) /\ WF_vars(DisableAccessory) /\ WF_vars(Pause)
    /\ WF_vars(Restart)

Spec == Init /\ [][Next]_vars /\ Fairness

-----------------------------------------------------------------------------
(* Properties *)

\* Every variable keeps to its values.  Between two handlers the iterator is on a
\* node of the list or at its end, and while a handler runs or is erased it is on
\* a node, whatever was erased before it and appended behind it
\* (uevent.cpp 51-55, 60).
TypeOK ==
    /\ strategy \in Strategies
    /\ client \in ClientPcs /\ ready \in BOOLEAN
    /\ handlers \in Seq(Handler) /\ Len(handlers) <= MaxHandlers
    /\ queue \in Seq(Uevents) /\ Len(queue) <= MaxQueue
    /\ mon \in MonPcs
    /\ it \in 1 .. Len(handlers) + 1
    /\ mon \in {"unbind", "bind", "fulfil", "erase"} => it <= Len(handlers)
    /\ ev \in Uevents
    /\ held \in {"none", "current", "old"}
    /\ udc \in Gadgets \cup {"none"}
    /\ spoiled \in 0..MaxSpoiled
    /\ died \in {"no", "double_set", "list_race", "crash"}

\* No wait's promise is fulfilled twice, which would end the process: the handler
\* that fulfils it is gone before the next event, although the loop that removes
\* it can come round to the start of the list (usb.cpp 115, uevent.cpp 51-55).
FulfilledOnce == died # "double_set"

\* Outside dongle mode the gadget is never switched, during a wait or a session,
\* on behalf of an earlier wait or of a START sent before this one began
\* (aawgd.cpp 54-57, usb.cpp 76-83).
NoStaleSwitch ==
    Running /\ strategy # "DONGLE_MODE" /\ client \in {"enable", "wait", "session"}
        /\ mon \in {"unbind", "bind", "fulfil"}
        => held = "current" /\ ev = "start"

\* Outside dongle mode a session that the monitor granted does not run on the
\* default gadget: the one write that binds it came before (usb.cpp 114-120).
SessionOffDefaultGadget ==
    Running /\ strategy # "DONGLE_MODE" /\ client = "session" => udc # "default"

\* A switch that comes too late leaves the accessory gadget bound with nobody
\* there.  Outside dongle mode that spoils one wait, not two: the end of that
\* round clears the controller (usb.cpp 85-90, 120).
AtMostOneSpoiledWait == Running /\ strategy # "DONGLE_MODE" => spoiled <= 1

\* USB_FIRST waits with no timeout, so a START that arrives during the wait must
\* not be lost on the way to the handler.
UntimedStartIsAnswered ==
    (/\ strategy = "USB_FIRST" /\ Running /\ client = "wait"
     /\ \E i \in DOMAIN queue : queue[i] = "start")
        ~> client = "session" \/ ~Running

\* uevent.h 20: "Handler to be called for every upcoming uevent."  When the
\* monitor goes back to reading, each handler that was in the list when the last
\* event was read, and still is, has been called with it.
EveryUeventReachesEveryHandler ==
    Running /\ mon = "read" => \A i \in DOMAIN handlers : handlers[i].called

\* usb.cpp 99: "If the promise is no longer active, nothing to do."  The gadget
\* is switched only for a wait that is still on.
AbandonedWaitLeavesGadgetAlone == Running /\ mon = "bind" => held = "current"

-----------------------------------------------------------------------------
(* The inductive invariant *)

Switching == mon \in {"unbind", "bind", "fulfil"}

\* The one handler whose wait is on is the last of the list; once it has fulfilled
\* its promise it is being removed.
HandlerInv ==
    /\ client = "add" => Len(handlers) < MaxHandlers
    /\ held = "none" <=> ~Switching
    /\ \A i \in DOMAIN handlers :
         handlers[i].live =>
            /\ i = Len(handlers) /\ client \in {"enable", "wait"}
            /\ ready => mon = "erase" /\ it = i
    /\ held = "current" =>
         client \in {"enable", "wait"} /\ ~ready /\ handlers[it].live

\* No START is on its way, from the socket to the gadgets.
Quiet ==
    /\ \A i \in DOMAIN queue : queue[i] = "other"
    /\ ~Switching
    /\ mon \in {"iter", "erase"} => ev = "other"

\* While the car cannot have seen the default gadget nothing switches it.
ControllerInv ==
    /\ client \in {"disableAccessory", "pause", "idle", "add", "enable"} =>
         udc # "default"
    /\ strategy # "DONGLE_MODE" =>
         /\ client \in {"idle", "add", "enable"} => Quiet
         /\ client = "enable" => ~ready

\* A wait sees only what was sent during it, and ends off the default gadget.
WaitInv ==
    strategy # "DONGLE_MODE" =>
        /\ client \in {"wait", "session"} =>
             /\ \A i \in DOMAIN queue : queue[i] # "stale"
             /\ mon \in {"iter", "erase"} => ev # "stale"
             /\ Switching => held = "current" /\ ev = "start"
        /\ client = "wait" /\ (mon \in {"bind", "fulfil"} \/ ready) => udc # "default"
        /\ client = "session" => udc # "default"

\* A spoiled wait is a quiet one, and the end of its round clears the controller.
SpoiledInv ==
    strategy # "DONGLE_MODE" /\ spoiled > 0 =>
        /\ spoiled = 1 /\ Quiet /\ udc # "default"
        /\ client \in {"pause", "idle", "add", "enable"} => udc = "none"

GadgetInv ==
    /\ TypeOK /\ FulfilledOnce /\ HandlerInv
    /\ ControllerInv /\ WaitInv /\ SpoiledInv
=============================================================================
