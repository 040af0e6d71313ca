------------------------------ MODULE Forwarding ------------------------------
(***************************************************************************)
(* One session of AAWProxy: handleClient from the moment both descriptors  *)
(* are open, and the two threads of forward().                             *)
(*                                                                         *)
(*   "u2t"  reads from the accessory device, writes to the phone           *)
(*   "t2u"  reads whole frames from the phone, writes to the accessory     *)
(*                                                                         *)
(* A thread that stops forwarding sets should_exit and signals both; the   *)
(* signal makes a blocked read or write return early and does nothing to a *)
(* thread that is not in one.  handleClient joins u2t, then t2u, and       *)
(* clears each std::optional<std::thread> after its join; the forwarding   *)
(* threads look at both, unprotected.                                      *)
(*                                                                         *)
(* Of the data only this is kept: how much of the buffer of a thread is    *)
(* still to be written, and whether something read was dropped (gap).      *)
(***************************************************************************)
EXTENDS Integers

CONSTANTS
    MaxParts,   \* reads that may return part of one frame, at most
    MaxChunk    \* units of data in a full buffer

ASSUME ForwardingAssumption ==
    /\ MaxParts \in Nat
    /\ MaxChunk \in Nat \ {0}

VARIABLES
    handler,     \* where handleClient is
    pc,          \* pc[t]: where thread t is
    handle,      \* handle[t]: m_usb_tcp_thread and m_tcp_usb_thread
    should_exit,
    intr,        \* intr[t]: a signal interrupts the call t is in
    parts,       \* reads of the current frame that t2u has made
    buf,         \* buf[t]: units read and not yet written
    up,          \* up[l]: link l is up at its other end
    gap,         \* history, gap[t]: units read by t were never written
    missed,      \* history, missed[t]: a stop passed t by between check and call
    died         \* a signal to a thread that is gone ended the process

dataVars == <<parts, buf, gap>>
vars == <<handler, pc, handle, should_exit, intr, parts, buf, up, gap, missed,
          died>>

Thread == {"u2t", "t2u"}
Link == {"usb", "tcp"}

\* forward(): the descriptors of each direction.
ReadLink(t) == IF t = "u2t" THEN "usb" ELSE "tcp"
WriteLink(t) == IF t = "u2t" THEN "tcp" ELSE "usb"

HandlerPcs == {"spawnU", "assignU", "spawnT", "assignT", "joinU", "clearU",
               "joinT", "clearT", "default", "closeUsb", "closeTcp", "closed"}
Pcs == {"none", "check", "toRead", "read", "got", "toWrite", "write",
        "flag", "testU", "killU", "testT", "killT", "ended"}

Running == ~died

\* Calls a thread may be blocked in, and the moments just before them.
InCall == {"read", "write"}
BeforeCall == {"toRead", "toWrite"}

Init ==
    /\ handler = "spawnU"
    /\ pc = [t \in Thread |-> "none"]
    /\ handle = [t \in Thread |-> "none"]
    /\ should_exit = FALSE
    /\ intr = [t \in Thread |-> FALSE]
    /\ parts = 0
    /\ buf = [t \in Thread |-> 0]
    /\ up = [l \in Link |-> TRUE]
    /\ gap = [t \in Thread |-> FALSE]
    /\ missed = [t \in Thread |-> FALSE]
    /\ died = FALSE

-----------------------------------------------------------------------------
(* handleClient *)

\* std::thread t starts to run ...
Spawn(t) ==
    /\ Running
    /\ handler = (IF t = "u2t" THEN "spawnU" ELSE "spawnT")
    /\ pc' = [pc EXCEPT ![t] = "check"]
    /\ handler' = IF t = "u2t" THEN "assignU" ELSE "assignT"
    /\ UNCHANGED <<handle, should_exit, intr, dataVars, up, missed, died>>

\* ... before it is moved into the member the other thread looks at.
Assign(t) ==
    /\ Running
    /\ handler = (IF t = "u2t" THEN "assignU" ELSE "assignT")
    /\ handle' = [handle EXCEPT ![t] = "live"]
    /\ handler' = IF t = "u2t" THEN "spawnT" ELSE "joinU"
    /\ UNCHANGED <<pc, should_exit, intr, dataVars, up, missed, died>>

\* Mutated form: t2u is not waited for.
Join_FirstOnly(t) ==
    /\ Running
    /\ handler = (IF t = "u2t" THEN "joinU" ELSE "joinT")
    /\ t = "u2t" => pc[t] = "ended"
    /\ handle' = [handle EXCEPT ![t] = "joined"]
    /\ handler' = IF t = "u2t" THEN "clearU" ELSE "clearT"
    /\ UNCHANGED <<pc, should_exit, intr, dataVars, up, missed, died>>

\* Mutated form: t2u is joined first.
Join_Swapped(t) ==
    /\ Running
    /\ handler = (IF t = "t2u" THEN "joinU" ELSE "joinT")
    /\ pc[t] = "ended"
    /\ handle' = [handle EXCEPT ![t] = "joined"]
    /\ handler' = IF t = "t2u" THEN "clearU" ELSE "clearT"
    /\ UNCHANGED <<pc, should_exit, intr, dataVars, up, missed, died>>

Join(t) ==
    /\ Running
    /\ handler = (IF t = "u2t" THEN "joinU" ELSE "joinT")
    /\ pc[t] = "ended"
    /\ handle' = [handle EXCEPT ![t] = "joined"]
    /\ handler' = IF t = "u2t" THEN "clearU" ELSE "clearT"
    /\ UNCHANGED <<pc, should_exit, intr, dataVars, up, missed, died>>

Clear(t) ==
    /\ Running
    /\ handler = (IF t = "u2t" THEN "clearU" ELSE "clearT")
    /\ handle' = [handle EXCEPT ![t] = "none"]
    /\ handler' = IF t = "u2t" THEN "joinT" ELSE "default"
    /\ UNCHANGED <<pc, should_exit, intr, dataVars, up, missed, died>>

\* SIGUSR1 back to its default, which ends the process, and both descriptors
\* closed.
WindUp ==
    /\ Running
    /\ handler \in {"default", "closeUsb", "closeTcp"}
    /\ handler' = CASE handler = "default" -> "closeUsb"
                    [] handler = "closeUsb" -> "closeTcp"
                    [] handler = "closeTcp" -> "closed"
    /\ UNCHANGED <<pc, handle, should_exit, intr, dataVars, up, missed, died>>

\* The next session, in this process or the next one, is a new AAWProxy.
NextSession ==
    /\ handler = "closed" \/ died
    /\ handler' = "spawnU"
    /\ pc' = [t \in Thread |-> "none"]
    /\ handle' = [t \in Thread |-> "none"]
    /\ should_exit' = FALSE
    /\ intr' = [t \in Thread |-> FALSE]
    /\ parts' = 0
    /\ buf' = [t \in Thread |-> 0]
    /\ up' = [l \in Link |-> TRUE]
    /\ gap' = [t \in Thread |-> FALSE]
    /\ missed' = [t \in Thread |-> FALSE]
    /\ died' = FALSE

-----------------------------------------------------------------------------
(* The two ends *)

LinkDown(l) ==
    /\ Running /\ up[l] /\ handler # "closed"
    /\ up' = [up EXCEPT ![l] = FALSE]
    /\ UNCHANGED <<handler, pc, handle, should_exit, intr, dataVars, missed,
                   died>>

-----------------------------------------------------------------------------
(* forward *)

\* The steps of stopForwarding: what comes first, after the flag, and after the
\* signal to each thread.
\* Mutated form: the flag is set after the signals are sent.
StopOrder_FlagLast ==
    [break |-> "testU", flag |-> "ended", u2t |-> "testT", t2u |-> "flag"]

StopOrder ==
    [break |-> "flag", flag |-> "testU", u2t |-> "testT", t2u |-> "ended"]

\* Thread t moves to p; i says whether a call of it stays interrupted (it does not).
Goto(t, p) ==
    /\ pc' = [pc EXCEPT ![t] = p]
    /\ intr' = [intr EXCEPT ![t] = FALSE]

\* while (!should_exit), and the same test just after a write.
CheckExit(t) ==
    /\ Running /\ pc[t] = "check"
    /\ Goto(t, IF should_exit THEN StopOrder.break ELSE "toRead")
    /\ UNCHANGED <<handler, handle, should_exit, dataVars, up, missed, died>>

EnterCall(t) ==
    /\ Running /\ pc[t] \in BeforeCall
    /\ Goto(t, IF pc[t] = "toRead" THEN "read" ELSE "write")
    /\ UNCHANGED <<handler, handle, should_exit, dataVars, up, missed, died>>

\* read returns part of a frame: readFully reads on, and looks at no flag.
ReadPart ==
    /\ Running /\ pc["t2u"] = "read" /\ up["tcp"]
    /\ parts < MaxParts
    /\ parts' = parts + 1
    /\ missed' = [missed EXCEPT !["t2u"] = @ \/ intr["t2u"]]
    /\ Goto("t2u", "toRead")
    /\ UNCHANGED <<handler, handle, should_exit, buf, gap, up, died>>

\* Mutated form: a read that returns nothing is taken for data.
ReadData_Zero(t, n) ==
    /\ Running /\ pc[t] = "read" /\ up[ReadLink(t)]
    /\ buf' = [buf EXCEPT ![t] = n - 1]
    /\ parts' = IF t = "t2u" THEN 0 ELSE parts
    /\ Goto(t, "got")
    /\ UNCHANGED <<handler, handle, should_exit, gap, up, missed, died>>

\* read, or readMessage, returns n units.
ReadData(t, n) ==
    /\ Running /\ pc[t] = "read" /\ up[ReadLink(t)]
    /\ buf' = [buf EXCEPT ![t] = n]
    /\ parts' = IF t = "t2u" THEN 0 ELSE parts
    /\ Goto(t, "got")
    /\ UNCHANGED <<handler, handle, should_exit, gap, up, missed, died>>

\* Mutated form: no timeout is set on the phone's socket.
ReadEnds_NoTimeout(t) ==
    /\ Running /\ pc[t] = "read"
    /\ ~up[ReadLink(t)] \/ intr[t]
    /\ Goto(t, StopOrder.break)
    /\ UNCHANGED <<handler, handle, should_exit, dataVars, up, missed, died>>

\* It returns 0 or less: the link is down, the call was interrupted, no data came
\* from the phone for 10 s (SO_RCVTIMEO), or its frame is empty or too long.
ReadEnds(t) ==
    /\ Running /\ pc[t] = "read"
    /\ ~up[ReadLink(t)] \/ intr[t] \/ t = "t2u"
    /\ Goto(t, StopOrder.break)
    /\ UNCHANGED <<handler, handle, should_exit, dataVars, up, missed, died>>

\* Mutated form: no test between read and write.
CheckBeforeWrite_Skipped(t) ==
    /\ Running /\ pc[t] = "got"
    /\ Goto(t, "toWrite")
    /\ UNCHANGED <<handler, handle, should_exit, dataVars, up, missed, died>>

\* The test of should_exit between read and write: what was read is dropped.
CheckBeforeWrite(t) ==
    /\ Running /\ pc[t] = "got"
    /\ IF should_exit
       THEN /\ Goto(t, StopOrder.break)
            /\ gap' = [gap EXCEPT ![t] = TRUE]
            /\ buf' = [buf EXCEPT ![t] = 0]
       ELSE Goto(t, "toWrite") /\ UNCHANGED <<gap, buf>>
    /\ UNCHANGED <<handler, handle, should_exit, parts, up, missed, died>>

\* write returns n, perhaps less than it was given; the rest is never written.
\* A blocking write is short only if it is interrupted or the link goes down.
WriteData(t, n) ==
    /\ Running /\ pc[t] = "write" /\ n <= buf[t]
    /\ n = buf[t] => up[WriteLink(t)]
    /\ n < buf[t] => intr[t] \/ ~up[WriteLink(t)]
    /\ gap' = [gap EXCEPT ![t] = @ \/ n < buf[t]]
    /\ buf' = [buf EXCEPT ![t] = 0]
    /\ Goto(t, "check")
    /\ UNCHANGED <<handler, handle, should_exit, parts, up, missed, died>>

\* write fails: the link is down, or interrupted before the first unit.
WriteFails(t) ==
    /\ Running /\ pc[t] = "write"
    /\ intr[t] \/ ~up[WriteLink(t)]
    /\ gap' = [gap EXCEPT ![t] = TRUE]
    /\ buf' = [buf EXCEPT ![t] = 0]
    /\ Goto(t, StopOrder.break)
    /\ UNCHANGED <<handler, handle, should_exit, parts, up, missed, died>>

-----------------------------------------------------------------------------
(* stopForwarding, on thread s *)

SetFlag(s) ==
    /\ Running /\ pc[s] = "flag"
    /\ should_exit' = TRUE
    /\ Goto(s, StopOrder.flag)
    /\ UNCHANGED <<handler, handle, dataVars, up, missed, died>>

TestPc(t) == IF t = "u2t" THEN "testU" ELSE "testT"
KillPc(t) == IF t = "u2t" THEN "killU" ELSE "killT"

\* The stop passes t by: t has made its last test and its call will block.
PassedBy(t) == missed' = [missed EXCEPT ![t] = @ \/ pc[t] \in BeforeCall]

\* if (m_..._thread)
TestHandle(s, t) ==
    /\ Running /\ pc[s] = TestPc(t)
    /\ IF handle[t] = "none"
       THEN /\ Goto(s, StopOrder[t])
            /\ missed' = [missed EXCEPT ![t] = @ \/ pc[t] \in BeforeCall \cup InCall]
       ELSE Goto(s, KillPc(t)) /\ UNCHANGED missed
    /\ UNCHANGED <<handler, handle, should_exit, dataVars, up, died>>

\* pthread_kill(native_handle(), SIGUSR1).  To a thread that has ended but is not
\* joined it does nothing.  After the join the handle is 0: undefined behaviour,
\* a fault or nothing.
Signal(s, t) ==
    /\ Running /\ pc[s] = KillPc(t)
    /\ IF handle[t] = "live"
       THEN /\ pc' = [pc EXCEPT ![s] = StopOrder[t]]
            /\ intr' = [intr EXCEPT ![t] = pc[t] \in InCall]
            /\ PassedBy(t)
            /\ UNCHANGED died
       ELSE /\ Goto(s, StopOrder[t])
            /\ died' \in BOOLEAN
            /\ UNCHANGED missed
    /\ UNCHANGED <<handler, handle, should_exit, dataVars, up>>

-----------------------------------------------------------------------------
HandlerNext ==
    \/ \E t \in Thread : Spawn(t) \/ Assign(t) \/ Join(t) \/ Clear(t)
    \/ WindUp \/ NextSession

\* Everything a thread does but wait for its link.
Step(t) ==
    \/ CheckExit(t) \/ EnterCall(t) \/ CheckBeforeWrite(t) \/ SetFlag(t)
    \/ \E u \in Thread : TestHandle(t, u) \/ Signal(t, u)

CallReturns(t) ==
    \/ t = "t2u" /\ ReadPart
    \/ \E n \in 1..MaxChunk : ReadData(t, n)
    \/ ReadEnds(t)
    \/ \E n \in 1..MaxChunk : WriteData(t, n)
    \/ WriteFails(t)

Next ==
    \/ HandlerNext
    \/ \E t \in Thread : Step(t) \/ CallReturns(t)
    \/ \E l \in Link : LinkDown(l)

\* A write that must return: it is interrupted or its link is down.
WriteReturns(t) ==
    /\ intr[t] \/ ~up[WriteLink(t)]
    /\ WriteFails(t) \/ \E n \in 1..MaxChunk : WriteData(t, n)

\* Threads that can move do.  A read that has failed returns, as does one from the
\* phone after 10 s.  The two ends owe nothing: a read from the car, and a write to
\* either, for which no time-out is set, may block for ever if nothing interrupts it.
Fairness ==
    /\ WF_vars(HandlerNext)
    /\ \A t \in Thread :
         WF_vars(Step(t)) /\ WF_vars(ReadEnds(t)) /\ WF_vars(WriteReturns(t))

Spec == Init /\ [][Next]_vars /\ Fairness

-----------------------------------------------------------------------------
(* Properties *)

\* Every variable keeps to its values, and a thread has something to write exactly
\* while it is on its way from a read that returned data to the end of the write
\* (proxyHandler.cpp 98-132).
TypeOK ==
    /\ handler \in HandlerPcs
    /\ pc \in [Thread -> Pcs]
    /\ handle \in [Thread -> {"none", "live", "joined"}]
    /\ should_exit \in BOOLEAN /\ died \in BOOLEAN
    /\ intr \in [Thread -> BOOLEAN]
    /\ parts \in 0..MaxParts
    /\ buf \in [Thread -> 0..MaxChunk]
    /\ \A t \in Thread : buf[t] > 0 <=> pc[t] \in {"got", "toWrite", "write"}
    /\ up \in [Link -> BOOLEAN]
    /\ gap \in [Thread -> BOOLEAN] /\ missed \in [Thread -> BOOLEAN]

\* What each end receives is what the other sent up to some point: after a unit
\* was read and not written, nothing more is written to a link that is up.  A
\* signal cuts a write short, but the flag was set before (proxyHandler.cpp
\* 119-136, 144-152).
NothingAfterGap ==
    Running => \A t \in Thread :
        gap[t] /\ pc[t] \in {"toWrite", "write"} => ~up[WriteLink(t)]

\* Once one thread has run through stopForwarding the other is blocked without an
\* interruption only if the signal found it between its last test of should_exit
\* and its call (or no thread in the member): flag and signal leave no other way.
OnlyMissedSignalsBlock ==
    Running => \A s, t \in Thread :
        s # t /\ pc[s] = "ended" /\ pc[t] \in InCall /\ ~intr[t] => missed[t]

\* The only signal to a thread that was joined is the one t2u sends to u2t, in the
\* short while handleClient is between the join of u2t and that of t2u
\* (proxyHandler.cpp 146-147, 208-211).
BadSignalOnlyAtJoin ==
    died => /\ handler \in {"clearU", "joinT"}
            /\ pc["u2t"] = "ended" /\ pc["t2u"] = "testT"

\* When SIGUSR1 is back to ending the process and the descriptors are being
\* closed, no thread is left that could be signalled or use them
\* (proxyHandler.cpp 208-220).
NoThreadOutlivesSession ==
    handler \in {"default", "closeUsb", "closeTcp", "closed"} =>
        \A t \in Thread : pc[t] = "ended"

\* How far the session is, and which thread is past its last test before a write.
Phase ==
    IF died THEN "dead"
    ELSE IF handler \in {"default", "closeUsb", "closeTcp", "closed"} THEN "over"
    ELSE IF should_exit THEN "stopping" ELSE "open"
Writes == [t \in Thread |-> should_exit => pc[t] \in {"toWrite", "write"}]

\* The session as its two ends see it: after the stop each thread writes at most once
\* more, whatever it was doing, and the end comes when neither will
\* (proxyHandler.cpp 96-140, 208-220).
S == INSTANCE Session WITH Direction <- Thread, phase <- Phase, writes <- Writes
StopsInOrder == S!Spec

\* With the car unplugged a session that is stopping comes to its end, whichever
\* signal was missed, but for one case: the stop has missed u2t, which is in a write
\* to a phone that stays connected and need not read.  The time-out on the phone's
\* socket is one for reading only (proxyHandler.cpp 119-120, 183-191, 208-211).
SessionEnds ==
    should_exit /\ ~up["usb"] ~>
        \/ handler = "closed" \/ died
        \/ pc["u2t"] = "write" /\ missed["u2t"] /\ up["tcp"]

-----------------------------------------------------------------------------
(* The inductive invariant.  ForwardingProofs proves the safety properties *)
(* above from it.                                                          *)

\* How far handleClient is: the thread not yet started, not yet in its member, or
\* joined.
NotYetSpawned(t) ==
    handler \in {"spawnU"} \cup IF t = "u2t" THEN {} ELSE {"assignU", "spawnT"}
NotYetAssigned(t) ==
    handler \in {"spawnU", "assignU"}
                    \cup IF t = "u2t" THEN {} ELSE {"spawnT", "assignT"}
JoinedPcs(t) == {"clearT", "default", "closeUsb", "closeTcp", "closed"}
                  \cup IF t = "u2t" THEN {"clearU", "joinT"} ELSE {}

\* A member holds a live thread from its assignment to its join, and what was
\* joined has ended.
HandleInv ==
    \A t \in Thread :
        /\ NotYetSpawned(t) => pc[t] = "none"
        /\ NotYetAssigned(t) => handle[t] = "none"
        /\ ~NotYetAssigned(t) /\ handler \notin JoinedPcs(t) => handle[t] = "live"
        /\ handler \in JoinedPcs(t) => pc[t] = "ended"
        /\ \A s \in Thread : pc[s] = KillPc(t) => ~NotYetAssigned(t)

StopPcs == {"flag", "testU", "killU", "testT", "killT", "ended"}

\* The flag is set before any signal is sent, and so before any call is
\* interrupted.
FlagInv ==
    \A t \in Thread :
        /\ pc[t] \in StopPcs \ {"flag"} => should_exit
        /\ intr[t] => should_exit /\ pc[t] \in InCall

\* A thread that dropped data is about to stop, or writes to a link that is down.
GapInv ==
    \A t \in Thread : gap[t] =>
        \/ pc[t] \in StopPcs
        \/ pc[t] = "check" /\ should_exit
        \/ ~up[WriteLink(t)]

\* Thread s has done with thread t in stopForwarding.
Past(s, t) == pc[s] \in {"ended"} \cup IF t = "u2t" THEN {"testT", "killT"} ELSE {}

\* Once the other thread has done with it, a thread that goes on to block was
\* missed.
MissedInv ==
    \A s, t \in Thread :
        s # t /\ Past(s, t) /\ pc[t] \in InCall \cup BeforeCall /\ ~intr[t]
            => missed[t]

ForwardingInv ==
    /\ TypeOK /\ HandleInv /\ FlagInv /\ GapInv /\ MissedInv
    /\ BadSignalOnlyAtJoin

-----------------------------------------------------------------------------
(* What the code says and does not do *)

\* proxyHandler.cpp 143: "Interrupting threads to stop forwarding": once a stop is
\* under way the session comes to its end.
StopReachesBoth == should_exit ~> handler = "closed" \/ died
=============================================================================
