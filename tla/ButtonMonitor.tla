----------------------------- MODULE ButtonMonitor -----------------------------
(***************************************************************************)
(* bt_reset_monitor.py, the program install.sh writes: the thread that     *)
(* counts clicks of the button (reader), and the timer threads that        *)
(* evaluate them and then, on the same thread, run what was asked for      *)
(* (module Board).  They share click_count and timer, and switch between   *)
(* any two loads and stores of these: click_count += 1 is one of each, and *)
(* what an evaluation does in between is overwritten.                      *)
(*                                                                         *)
(* An exception in the reader ends its loop; the process goes when its     *)
(* timer threads have ended, and bt-reset.service starts it again.         *)
(***************************************************************************)
EXTENDS Integers, FiniteSets

CONSTANTS
    ResetClicks,    \* clicks that ask for a reset, at least (3)
    DebugClicks,    \* clicks that ask for debug mode, at least (5)
    MaxClicks,      \* bound on the clicks between two boots
    MaxTimers       \* bound on the timer threads alive at a time

ASSUME ButtonAssumption ==
    /\ ResetClicks \in Nat \ {0} /\ DebugClicks \in Nat
    /\ ResetClicks < DebugClicks
    /\ MaxClicks \in Nat
    /\ MaxTimers \in Nat \ {0}

VARIABLES
    reader,         \* where main() of the program is
    loaded,         \* the click_count that click_count += 1 has loaded, then 0
    click_count,
    timer,          \* the global timer: a thread, or None
    threads,        \* threads[t]: where timer thread t is, and its count
    clicks,         \* history: clicks since the board was started
    settled,        \* history: the counts of all evaluations, added up, with the clicks
                    \* that went with a process that ended
    overlapped      \* history: in this process a click_count += 1 has overlapped the
                    \* two statements by which an evaluation takes the count; from
                    \* then on settled is 0

counted == <<clicks, settled, overlapped>>
buttonVars == <<reader, loaded, click_count, timer, threads, counted>>

Timers == 1 .. MaxTimers
None == 0

ReaderPcs == {"wait", "store", "test", "cancel", "create", "start", "failed"}
EvaluationPcs == {"fired", "clearCount", "clearTimer"}
JobPcs == {"reset", "resetWait", "resetStart",
           "debug", "debugStop", "debugWait", "debugStart"}
TimerPcs == {"free", "created", "armed"} \cup EvaluationPcs \cup JobPcs

NoThread == [pc |-> "free", count |-> 0]
At(t, pc) == threads[t].pc = pc
Moved(t, pc) == [threads EXCEPT ![t].pc = pc]

ButtonInit ==
    /\ reader = "wait" /\ loaded = 0 /\ click_count = 0 /\ timer = None
    /\ threads = [t \in Timers |-> NoThread]
    /\ clicks = 0 /\ settled = 0 /\ overlapped = FALSE

\* The histories, where an increment and the taking of the count may meet.
Overlap(now) ==
    /\ overlapped' = (overlapped \/ now)
    /\ settled' = IF overlapped' THEN 0 ELSE settled

-----------------------------------------------------------------------------
(* main() *)

\* click_count += 1: the count is loaded, ...
Click ==
    /\ reader = "wait" /\ clicks < MaxClicks
    /\ reader' = "store" /\ loaded' = click_count
    /\ clicks' = clicks + 1
    /\ Overlap(\E t \in Timers : At(t, "clearCount"))
    /\ UNCHANGED <<click_count, timer, threads>>

\* Mutated form: the release of the button counts too.
StoreCount_PressAndRelease ==
    /\ reader = "store"
    /\ reader' = "test" /\ click_count' = loaded + 2 /\ loaded' = 0
    /\ UNCHANGED <<timer, threads, counted>>

\* ... and stored with one more, whatever it is by now.
StoreCount ==
    /\ reader = "store"
    /\ reader' = "test" /\ click_count' = loaded + 1 /\ loaded' = 0
    /\ UNCHANGED <<timer, threads, counted>>

TestTimer ==
    /\ reader = "test"
    /\ reader' = IF timer = None THEN "create" ELSE "cancel"
    /\ UNCHANGED <<loaded, click_count, timer, threads, counted>>

\* timer.cancel(): a thread that still waits ends, one that fired goes on.  By
\* now timer may be None again.
CancelTimer ==
    /\ reader = "cancel"
    /\ IF timer = None
       THEN reader' = "failed" /\ UNCHANGED threads
       ELSE /\ reader' = "create"
            /\ threads' = IF At(timer, "armed")
                          THEN [threads EXCEPT ![timer] = NoThread] ELSE threads
    /\ UNCHANGED <<loaded, click_count, timer, counted>>

CreateTimer ==
    /\ reader = "create"
    /\ \E t \in Timers :
         /\ At(t, "free") /\ \A u \in 1 .. t - 1 : ~At(u, "free")
         /\ timer' = t
         /\ threads' = Moved(t, "created")
    /\ reader' = "start"
    /\ UNCHANGED <<loaded, click_count, counted>>

\* Mutated form: the exception is caught and the next event awaited.
StartTimer_Caught ==
    /\ reader = "start"
    /\ threads' = [t \in Timers |->
                     IF ~At(t, "created") THEN threads[t]
                     ELSE IF timer = None THEN NoThread
                     ELSE [threads[t] EXCEPT !.pc = "armed"]]
    /\ reader' = "wait"
    /\ UNCHANGED <<loaded, click_count, timer, counted>>

\* timer.start(), if an evaluation did not just set it to None.
StartTimer ==
    /\ reader = "start"
    /\ threads' = [t \in Timers |->
                     IF ~At(t, "created") THEN threads[t]
                     ELSE IF timer = None THEN NoThread
                     ELSE [threads[t] EXCEPT !.pc = "armed"]]
    /\ reader' = IF timer = None THEN "failed" ELSE "wait"
    /\ UNCHANGED <<loaded, click_count, timer, counted>>

\* A new process begins to count anew; the clicks of the old one are gone.
MonitorRestarts ==
    /\ reader = "failed" /\ \A t \in Timers : At(t, "free")
    /\ reader' = "wait" /\ loaded' = 0 /\ click_count' = 0 /\ timer' = None
    /\ settled' = clicks /\ overlapped' = FALSE
    /\ UNCHANGED <<threads, clicks>>

-----------------------------------------------------------------------------
(* A timer thread and evaluate_clicks *)

\* CLICK_TIMEOUT has passed.  Evaluations last much less than that, so no two are
\* under way at once.
Fire(t) ==
    /\ At(t, "armed")
    /\ \A u \in Timers : threads[u].pc \notin EvaluationPcs
    /\ threads' = Moved(t, "fired")
    /\ UNCHANGED <<reader, loaded, click_count, timer, counted>>

ReadCount(t) ==
    /\ At(t, "fired")
    /\ threads' = [threads EXCEPT ![t] = [pc |-> "clearCount", count |-> click_count]]
    /\ Overlap(reader = "store")
    /\ UNCHANGED <<reader, loaded, click_count, timer, clicks>>

\* Mutated form: the count is not reset for the next sequence.
ClearCount_Forgotten(t) ==
    /\ At(t, "clearCount")
    /\ settled' = IF overlapped THEN 0 ELSE settled + threads[t].count
    /\ threads' = Moved(t, "clearTimer")
    /\ UNCHANGED <<reader, loaded, click_count, timer, clicks, overlapped>>

ClearCount(t) ==
    /\ At(t, "clearCount")
    /\ click_count' = 0
    /\ settled' = IF overlapped THEN 0 ELSE settled + threads[t].count
    /\ threads' = Moved(t, "clearTimer")
    /\ UNCHANGED <<reader, loaded, timer, clicks, overlapped>>

\* What so many clicks ask for.
Request(n) ==
    IF n >= DebugClicks THEN "debug" ELSE IF n >= ResetClicks THEN "reset" ELSE "free"

ClearTimer(t) ==
    /\ At(t, "clearTimer")
    /\ timer' = None
    /\ threads' = [threads EXCEPT ![t] = [pc |-> Request(threads[t].count), count |-> 0]]
    /\ UNCHANGED <<reader, loaded, click_count, counted>>

Evaluate(t) == Fire(t) \/ ReadCount(t) \/ ClearCount(t) \/ ClearTimer(t)

ReaderNext ==
    \/ StoreCount \/ TestTimer \/ CancelTimer \/ CreateTimer \/ StartTimer
    \/ MonitorRestarts

ButtonNext == Click \/ ReaderNext \/ \E t \in Timers : Evaluate(t)

ButtonTypeOK ==
    /\ reader \in ReaderPcs
    /\ loaded \in 0 .. MaxClicks /\ click_count \in 0 .. MaxClicks
    /\ timer \in Timers \cup {None}
    /\ threads \in [Timers -> [pc : TimerPcs, count : 0 .. MaxClicks]]
    /\ clicks \in 0 .. MaxClicks /\ settled \in 0 .. MaxClicks /\ overlapped \in BOOLEAN
================================================================================
