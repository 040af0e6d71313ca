-------------------------------- MODULE Board --------------------------------
(***************************************************************************)
(* The board around aawgd: the dongle service and what starts and stops    *)
(* it.                                                                     *)
(*                                                                         *)
(*   service     aa-dongle.service, which runs start_aa_final.sh           *)
(*   threads     of the button monitor, running reset_bluetooth or         *)
(*               activate_debug_mode with enable_debug.sh                  *)
(*   script      connect_home.sh or modo_dongle.sh, run by the user, which *)
(*               give the radio (wlan0) to NetworkManager and take it back *)
(*   udc         the USB controller, which one gadget at a time is bound   *)
(*               to: by aawgd (module GadgetSwitch), by usb-gadget.service *)
(*                                                                         *)
(* systemctl stop waits until the service is down or somebody asks for it  *)
(* again, systemctl start returns at once.  systemd signals all processes  *)
(* of a service it stops, aawgd with the script; a service that ended by   *)
(* itself is started again as long as it is wanted.                        *)
(***************************************************************************)
EXTENDS ButtonMonitor

VARIABLES
    wanted,     \* systemd: the service is to run
    service,    \* "off", "running" (aawgd from the last line on) or "cleanup"
    debugMode,  \* enable_debug.sh has run to its end
    udc,        \* the gadget bound: "none", "dongle" (one of aawgd's) or "debug"
    unclean,    \* history: the service is off, its script ended without cleanup or
                \* cleanup was killed, and no enable_debug.sh has unbound the gadgets
                \* since
    script,     \* where the script is, if the user runs one
    home,       \* connect_home.sh was begun and not undone by modo_dongle.sh
    unmanaged,  \* NetworkManager.conf keeps NetworkManager from wlan0
    managed     \* NetworkManager has wlan0

serviceVars == <<wanted, service, debugMode, udc, unclean>>
networkVars == <<unmanaged, managed>>
scriptVars == <<script, home, networkVars>>
boardVars == <<serviceVars, scriptVars>>
vars == <<buttonVars, boardVars>>

HomePcs == {"stop", "wait", "release", "restart", "manage"}

\* A boot: the service is enabled, nothing else is under way; NetworkManager reads
\* its file.
Booted ==
    /\ wanted' = TRUE /\ service' = "off" /\ debugMode' = FALSE
    /\ udc' = "none" /\ unclean' = FALSE
    /\ script' = "none" /\ managed' = ~unmanaged
    /\ UNCHANGED unmanaged
    /\ reader' = "wait" /\ loaded' = 0 /\ click_count' = 0 /\ timer' = None
    /\ threads' = [t \in Timers |-> NoThread]
    /\ clicks' = 0 /\ settled' = 0 /\ overlapped' = FALSE

Init ==
    /\ ButtonInit
    /\ wanted = TRUE /\ service = "off" /\ debugMode = FALSE
    /\ udc = "none" /\ unclean = FALSE
    /\ script = "none" /\ home = FALSE
    /\ unmanaged = TRUE /\ managed = FALSE

-----------------------------------------------------------------------------
(* The service *)

\* NetworkManager is told to leave wlan0, which fails while it is not up.
StartScript ==
    /\ wanted /\ service = "off"
    /\ service' = "running" /\ unclean' = FALSE
    /\ managed' \in {managed, FALSE}
    /\ UNCHANGED <<buttonVars, wanted, debugMode, udc, script, home, unmanaged>>

\* aawgd unbinds its two gadgets, whoever bound them, when it starts and again after a
\* session.
AawgdUnbinds ==
    /\ service = "running" /\ udc = "dongle"
    /\ udc' = "none"
    /\ UNCHANGED <<buttonVars, wanted, service, debugMode, unclean, scriptVars>>

\* While another gadget is bound the write fails, which is not noticed.
AawgdBinds ==
    /\ service = "running" /\ udc = "none"
    /\ udc' = "dongle"
    /\ UNCHANGED <<buttonVars, wanted, service, debugMode, unclean, scriptVars>>

\* hostapd did not live, or aawgd ended: the script ends without cleanup, and
\* systemd kills what it left running.  The default gadget goes with umtprd, the
\* accessory gadget stays bound.
ScriptEnds ==
    /\ service = "running"
    /\ service' = "off" /\ unclean' = TRUE
    /\ udc' \in {udc} \cup {u \in {"none"} : udc = "dongle"}
    /\ UNCHANGED <<buttonVars, wanted, debugMode, scriptVars>>

\* systemd stops the service: aawgd is gone and the trap of the script runs.
Terminate ==
    /\ ~wanted /\ service = "running"
    /\ service' = "cleanup"
    /\ UNCHANGED <<buttonVars, wanted, debugMode, udc, unclean, scriptVars>>

\* Mutated form: the gadgets are not unbound.
Cleanup_Forgotten ==
    /\ service = "cleanup"
    /\ service' = "off" /\ unclean' = FALSE
    /\ UNCHANGED <<buttonVars, wanted, debugMode, udc, scriptVars>>

\* Every gadget is unbound, of whoever it is.
Cleanup ==
    /\ service = "cleanup"
    /\ service' = "off" /\ udc' = "none" /\ unclean' = FALSE
    /\ UNCHANGED <<buttonVars, wanted, debugMode, scriptVars>>

\* cleanup takes more than 5 s: systemd kills it, before or after it has come to the
\* gadget that is bound.
CleanupKilled ==
    /\ service = "cleanup"
    /\ service' = "off" /\ udc' \in {udc, "none"} /\ unclean' = TRUE
    /\ UNCHANGED <<buttonVars, wanted, debugMode, scriptVars>>

Stopped == service = "off" \/ wanted

-----------------------------------------------------------------------------
(* Jobs of the button monitor; each is one timer thread. *)

Job(t, from, to) ==
    /\ At(t, from)
    /\ threads' = Moved(t, to)
    /\ UNCHANGED <<reader, loaded, click_count, timer, counted>>

ResetStops(t) ==
    /\ Job(t, "reset", "resetWait")
    /\ wanted' = FALSE
    /\ UNCHANGED <<service, debugMode, udc, unclean, scriptVars>>

\* With the service down the devices are removed and bluetoothd is restarted.
ResetWaits(t) ==
    /\ Stopped
    /\ Job(t, "resetWait", "resetStart")
    /\ UNCHANGED boardVars

\* Mutated form: the reset ends without starting the service.
ResetStarts_Forgotten(t) ==
    /\ Job(t, "resetStart", "free")
    /\ UNCHANGED boardVars

ResetStarts(t) ==
    /\ Job(t, "resetStart", "free")
    /\ wanted' = TRUE
    /\ UNCHANGED <<service, debugMode, udc, unclean, scriptVars>>

\* enable_debug.sh unbinds every gadget, of whoever it is, ...
DebugWipes(t) ==
    /\ Job(t, "debug", "debugStop")
    /\ udc' = "none" /\ unclean' = FALSE
    /\ UNCHANGED <<wanted, service, debugMode, scriptVars>>

\* ... then stops the service, ...
DebugStops(t) ==
    /\ Job(t, "debugStop", "debugWait")
    /\ wanted' = FALSE
    /\ UNCHANGED <<service, debugMode, udc, unclean, scriptVars>>

DebugWaits(t) ==
    /\ Stopped
    /\ Job(t, "debugWait", "debugStart")
    /\ UNCHANGED boardVars

\* ... and starts the original gadget, ADB and the serial console.  usb-gadget.service
\* binds if the controller is free and the service was not active already.
DebugStarts(t) ==
    /\ Job(t, "debugStart", "free")
    /\ debugMode' = TRUE
    /\ udc' \in IF udc = "none" THEN {"none", "debug"} ELSE {udc}
    /\ UNCHANGED <<wanted, service, unclean, scriptVars>>

JobNext(t) ==
    \/ ResetStops(t) \/ ResetWaits(t) \/ ResetStarts(t)
    \/ DebugWipes(t) \/ DebugStops(t) \/ DebugWaits(t) \/ DebugStarts(t)

-----------------------------------------------------------------------------
(* connect_home.sh and modo_dongle.sh *)

RunHome ==
    /\ script = "none"
    /\ script' = "stop" /\ home' = TRUE
    /\ UNCHANGED <<buttonVars, serviceVars, networkVars>>

HomeStops ==
    /\ script = "stop"
    /\ wanted' = FALSE
    /\ script' = "wait"
    /\ UNCHANGED <<buttonVars, service, debugMode, udc, unclean, home, networkVars>>

\* The script goes on from one step to the next.
ScriptStep(from, to) ==
    /\ script = from
    /\ script' = to
    /\ UNCHANGED <<buttonVars, serviceVars, home>>

HomeWaits ==
    /\ ScriptStep("wait", "release")
    /\ Stopped
    /\ UNCHANGED networkVars

\* The line in NetworkManager.conf is made a comment, ...
Release ==
    /\ ScriptStep("release", "restart")
    /\ unmanaged' = FALSE
    /\ UNCHANGED managed

\* ... which NetworkManager reads when it is started again, ...
RestartNetworkManager ==
    /\ ScriptStep("restart", "manage")
    /\ managed' = ~unmanaged
    /\ UNCHANGED unmanaged

\* ... then it is told to take wlan0, whoever has it, and to connect.
Manage ==
    /\ ScriptStep("manage", "none")
    /\ managed' = TRUE
    /\ UNCHANGED unmanaged

RunDongle ==
    /\ script = "none"
    /\ script' = "block"
    /\ UNCHANGED <<buttonVars, serviceVars, home, networkVars>>

\* Mutated form: the line stays a comment.
Block_Forgotten ==
    /\ ScriptStep("block", "reboot")
    /\ UNCHANGED networkVars

\* The line is restored; NetworkManager does not look before the reboot.
Block ==
    /\ ScriptStep("block", "reboot")
    /\ unmanaged' = TRUE
    /\ UNCHANGED managed

\* The terminal the script runs in goes away, with the network or the cable.
Interrupt ==
    /\ script # "none"
    /\ script' = "none"
    /\ UNCHANGED <<buttonVars, serviceVars, home, networkVars>>

\* The end of modo_dongle.sh.
Restore ==
    /\ script = "reboot"
    /\ Booted
    /\ home' = FALSE

PowerCycle ==
    /\ Booted
    /\ UNCHANGED home

ScriptNext ==
    \/ RunHome \/ HomeStops \/ HomeWaits \/ Release \/ RestartNetworkManager \/ Manage
    \/ RunDongle \/ Block \/ Restore \/ Interrupt

ServiceNext ==
    \/ StartScript \/ AawgdUnbinds \/ AawgdBinds \/ ScriptEnds
    \/ Terminate \/ Cleanup \/ CleanupKilled

Next ==
    \/ ButtonNext /\ UNCHANGED boardVars
    \/ \E t \in Timers : JobNext(t)
    \/ ServiceNext \/ ScriptNext \/ PowerCycle

\* Threads that can move do, systemd acts on what is wanted.  The user owes nothing.
Fairness ==
    /\ WF_vars(ReaderNext /\ UNCHANGED boardVars)
    /\ \A t \in Timers : /\ SF_vars(Evaluate(t) /\ UNCHANGED boardVars)
                         /\ WF_vars(JobNext(t))
    /\ WF_vars(Terminate) /\ WF_vars(Cleanup \/ CleanupKilled)

Spec == Init /\ [][Next]_vars /\ Fairness

-----------------------------------------------------------------------------
(* Properties *)

\* Every variable keeps to its values.
TypeOK ==
    /\ ButtonTypeOK
    /\ wanted \in BOOLEAN
    /\ service \in {"off", "running", "cleanup"}
    /\ debugMode \in BOOLEAN
    /\ udc \in {"none", "dongle", "debug"} /\ unclean \in BOOLEAN
    /\ script \in HomePcs \cup {"none", "block", "reboot"} /\ home \in BOOLEAN
    /\ unmanaged \in BOOLEAN /\ managed \in BOOLEAN

\* As long as no click_count += 1 overlaps an evaluation's taking of the count, every
\* click is in the sum of the evaluations or waits in click_count, and counts once:
\* whatever timer is cancelled when it has fired.  With such an overlap clicks may be
\* lost, or three of them count as five (install.sh 187-196, 215-222).
ClicksCountOnce ==
    ~overlapped =>
        settled + click_count + (IF reader = "store" THEN 1 ELSE 0) = clicks

\* When no job is under way the service is wanted, however many resets overlapped,
\* unless debug mode or the home network was asked for (install.sh 160-185).
ServiceComesBack ==
    (\A t \in Timers : threads[t].pc \notin JobPcs) /\ ~debugMode /\ ~home => wanted

\* enable_debug.sh unbinds the gadgets before it stops the service, which may bind one
\* again in between.  When it starts the original gadget the dongle's has been unbound
\* once more all the same, by the service's cleanup, unless the script ended without
\* it, or a reset has started the service again (enable_debug.sh 13-25,
\* start_aa_final.sh 26-35).
DebugFindsControllerFree ==
    \A t \in Timers :
        At(t, "debugStart") /\ service = "off" /\ udc = "dongle" => unclean

\* When modo_dongle.sh has run to its end NetworkManager does not come for the radio
\* any more, wherever it or connect_home.sh was interrupted before, and whenever the
\* power went: only connect_home.sh gives it away (connect_home.sh 30-50,
\* modo_dongle.sh 11).
RadioComesBack == managed => home

\* Every click comes to be evaluated, when the clicks end, or the monitor is started
\* anew; unless an evaluation took the count while a click changed it (install.sh
\* 187-196, 214-222).
ClicksAreEvaluated ==
    settled < clicks ~> settled = clicks \/ overlapped

\* enable_debug.sh 3: "Enables USB Debug (ADB/Serial) temporarily until the next
\* reboot."  The Android Auto services stay stopped until then.
DebugModeHolds == debugMode => ~wanted

-----------------------------------------------------------------------------
(* The inductive invariant *)

\* One evaluation at a time.  The counts are of clicks, and as long as nothing has
\* overlapped what was loaded or taken is still the count.
CountInv ==
    /\ \A t, u \in Timers :
         threads[t].pc \in EvaluationPcs /\ threads[u].pc \in EvaluationPcs => t = u
    /\ click_count <= clicks
    /\ reader = "store" => loaded < clicks /\ (overlapped \/ loaded = click_count)
    /\ \A t \in Timers : At(t, "clearCount") =>
         overlapped \/ (threads[t].count = click_count /\ reader # "store")

\* modo_dongle.sh restores the file before it reboots, and only in home mode is there
\* anything to restore.
ScriptInv ==
    /\ script \in HomePcs \/ ~unmanaged \/ managed => home
    /\ script = "reboot" => unmanaged

\* A gadget of aawgd that stays bound without it is one that no cleanup has seen.
UdcInv == service = "off" /\ udc = "dongle" => unclean

BoardInv ==
    /\ TypeOK /\ ClicksCountOnce /\ CountInv /\ ScriptInv /\ ServiceComesBack
    /\ UdcInv
==============================================================================
