----------------------------- MODULE BoardProofs -----------------------------
(***************************************************************************)
(* BoardInv of Board is inductive, for every number of clicks that ask for *)
(* something and of timer threads, and the safety properties follow.       *)
(***************************************************************************)
EXTENDS Board, TLAPS

\* The initial states satisfy the invariant.
LEMMA InitBoardInv == Init => BoardInv
<1> SUFFICES ASSUME Init PROVE BoardInv
    OBVIOUS
<1>1. 0 \in 0 .. MaxClicks
    BY ButtonAssumption
<1>2. TypeOK
    BY <1>1 DEF Init, ButtonInit, TypeOK, ButtonTypeOK, ReaderPcs, TimerPcs, NoThread
<1> QED
    BY <1>2 DEF Init, ButtonInit, NoThread, BoardInv, ClicksCountOnce, CountInv, HomePcs,
                At, EvaluationPcs, ScriptInv, ServiceComesBack, UdcInv

\* A boot does too, when only the home network keeps NetworkManager's file changed.
LEMMA BootedBoardInv ==
    ASSUME Booted, home' \in BOOLEAN, unmanaged \in BOOLEAN, ~unmanaged => home'
    PROVE  BoardInv'
<1>1. 0 \in 0 .. MaxClicks
    BY ButtonAssumption
<1>2. TypeOK'
    BY <1>1 DEF Booted, TypeOK, ButtonTypeOK, ReaderPcs, TimerPcs, NoThread
<1> QED
    BY <1>2 DEF Booted, NoThread, BoardInv, ClicksCountOnce, CountInv, HomePcs,
                At, EvaluationPcs, ScriptInv, ServiceComesBack, UdcInv

\* A request is for a job or for nothing.
LEMMA RequestFacts ==
    ASSUME NEW n \in Nat
    PROVE  Request(n) \in TimerPcs \ EvaluationPcs /\ Request(n) # "clearCount"
    BY DEF Request, TimerPcs, EvaluationPcs, JobPcs

\* The button monitor keeps it: its clicks, its reader and its evaluations.
LEMMA ButtonKeepsInv == BoardInv /\ ButtonNext /\ UNCHANGED boardVars => BoardInv'
<1> SUFFICES ASSUME BoardInv, ButtonNext, UNCHANGED boardVars PROVE BoardInv'
    OBVIOUS
<1> USE ButtonAssumption
        DEF BoardInv, TypeOK, ButtonTypeOK, ClicksCountOnce, CountInv, ScriptInv,
            ServiceComesBack, UdcInv, boardVars, serviceVars, scriptVars, networkVars,
            At, Moved, NoThread, None, ReaderPcs, TimerPcs, EvaluationPcs, JobPcs, counted,
            Overlap
<1>1. CASE Click
    BY <1>1 DEF Click
<1>11. CASE StoreCount
    BY <1>11 DEF StoreCount
<1>2. CASE TestTimer
    BY <1>2 DEF TestTimer
<1>3. CASE CancelTimer
    BY <1>3 DEF CancelTimer
<1>4. CASE CreateTimer
    BY <1>4 DEF CreateTimer
<1>5. CASE StartTimer
    BY <1>5 DEF StartTimer
<1>6. CASE MonitorRestarts
  <2>1. /\ reader' = "wait" /\ loaded' = 0 /\ click_count' = 0 /\ timer' = 0
        /\ settled' = clicks /\ overlapped' = FALSE
        /\ UNCHANGED <<threads, clicks>>
    BY <1>6 DEF MonitorRestarts
  <2>2. \A t \in Timers : threads[t].pc = "free"
    BY <1>6 DEF MonitorRestarts
  <2>3. 0 \in 0 .. MaxClicks /\ 0 \in Timers \cup {0}
    OBVIOUS
  <2>4. TypeOK'
    BY <2>1, <2>3
  <2>5. ClicksCountOnce' /\ CountInv'
    BY <2>1, <2>2
  <2> QED
    BY <2>1, <2>4, <2>5
<1>7. ASSUME NEW t \in Timers, Fire(t) PROVE BoardInv'
    BY <1>7 DEF Fire
<1>8. ASSUME NEW t \in Timers, ReadCount(t) PROVE BoardInv'
    BY <1>8 DEF ReadCount
<1>9. ASSUME NEW t \in Timers, ClearCount(t) PROVE BoardInv'
    BY <1>9 DEF ClearCount
<1>10. ASSUME NEW t \in Timers, ClearTimer(t) PROVE BoardInv'
  <2>1. Request(threads[t].count) \in TimerPcs \ EvaluationPcs
    BY RequestFacts
  <2> QED
    BY <1>10, <2>1 DEF ClearTimer
<1> QED
    BY <1>1, <1>2, <1>3, <1>4, <1>5, <1>6, <1>7, <1>8, <1>9, <1>10, <1>11
    DEF ButtonNext, ReaderNext, Evaluate

\* A thread that goes on with its job leaves the clicks and the scripts alone.
LEMMA JobMoves ==
    ASSUME BoardInv, NEW t \in Timers, NEW from, NEW to \in JobPcs \cup {"free"},
           Job(t, from, to), UNCHANGED scriptVars
    PROVE  /\ ButtonTypeOK' /\ ClicksCountOnce' /\ CountInv' /\ ScriptInv'
           /\ threads'[t].pc = to
<1>1. UNCHANGED <<reader, loaded, click_count, timer, counted>>
    BY DEF Job
<1>2. threads' = [threads EXCEPT ![t].pc = to]
    BY DEF Job, Moved
<1>3. ButtonTypeOK /\ ClicksCountOnce /\ CountInv /\ ScriptInv
    BY DEF BoardInv, TypeOK
<1>4. to \in TimerPcs \ EvaluationPcs
    BY DEF TimerPcs, EvaluationPcs, JobPcs
<1>5. ButtonTypeOK' /\ threads'[t].pc = to
    BY <1>1, <1>2, <1>3, <1>4 DEF ButtonTypeOK, counted
<1>6. ClicksCountOnce' /\ ScriptInv'
    BY <1>1, <1>3 DEF ClicksCountOnce, ScriptInv, scriptVars, networkVars, counted
<1>7. CountInv'
    BY <1>1, <1>2, <1>3, <1>4 DEF ButtonTypeOK, CountInv, At, EvaluationPcs, counted
<1> QED
    BY <1>5, <1>6, <1>7

\* The jobs keep it: who has stopped the service is still to start it, or has
\* reached debug mode.
LEMMA JobsKeepInv == BoardInv /\ (\E t \in Timers : JobNext(t)) => BoardInv'
<1> SUFFICES ASSUME BoardInv, NEW t \in Timers, JobNext(t) PROVE BoardInv'
    OBVIOUS
<1> DEFINE Kept(from, to) == Job(t, from, to) /\ UNCHANGED scriptVars
<1> USE DEF BoardInv, TypeOK, ServiceComesBack, UdcInv, scriptVars, networkVars
<1>1. CASE ResetStops(t) \/ DebugStops(t)
  <2>1. PICK to \in {"resetWait", "debugWait"} : \E from : Kept(from, to)
    BY <1>1 DEF ResetStops, DebugStops
  <2>2. to \in JobPcs
    BY DEF JobPcs
  <2>3. wanted' = FALSE /\ UNCHANGED <<service, debugMode, udc, unclean>>
    BY <1>1 DEF ResetStops, DebugStops
  <2> QED
    BY <2>1, <2>2, <2>3, JobMoves
<1>2. CASE ResetWaits(t) \/ DebugWaits(t)
  <2>1. PICK to \in {"resetStart", "debugStart"} : \E from : Kept(from, to)
    BY <1>2 DEF ResetWaits, DebugWaits, boardVars
  <2>2. to \in JobPcs
    BY DEF JobPcs
  <2>3. UNCHANGED serviceVars
    BY <1>2 DEF ResetWaits, DebugWaits, boardVars
  <2> QED
    BY <2>1, <2>2, <2>3, JobMoves DEF serviceVars
<1>3. CASE DebugWipes(t)
  <2>1. Kept("debug", "debugStop") /\ "debugStop" \in JobPcs
    BY <1>3 DEF DebugWipes, JobPcs
  <2>2. udc' = "none" /\ unclean' = FALSE /\ UNCHANGED <<wanted, service, debugMode>>
    BY <1>3 DEF DebugWipes
  <2> QED
    BY <2>1, <2>2, JobMoves
<1>4. CASE ResetStarts(t)
  <2>1. Kept("resetStart", "free")
    BY <1>4 DEF ResetStarts
  <2>2. wanted' = TRUE /\ UNCHANGED <<service, debugMode, udc, unclean>>
    BY <1>4 DEF ResetStarts
  <2> QED
    BY <2>1, <2>2, JobMoves
<1>5. CASE DebugStarts(t)
  <2>1. Kept("debugStart", "free")
    BY <1>5 DEF DebugStarts
  <2>2. debugMode' = TRUE /\ udc' \in {"debug", udc} /\ UNCHANGED <<wanted, service, unclean>>
    BY <1>5 DEF DebugStarts
  <2> QED
    BY <2>1, <2>2, JobMoves
<1> QED
    BY <1>1, <1>2, <1>3, <1>4, <1>5 DEF JobNext

\* systemd and the scripts of the user keep it.
LEMMA ServiceKeepsInv ==
    BoardInv /\ (ServiceNext \/ ScriptNext \/ PowerCycle) => BoardInv'
<1> SUFFICES ASSUME BoardInv, ServiceNext \/ ScriptNext \/ PowerCycle PROVE BoardInv'
    OBVIOUS
<1>1. CASE ServiceNext \/ RunHome \/ HomeStops \/ RunDongle \/ Interrupt
  <2>1. UNCHANGED buttonVars
    BY <1>1 DEF ServiceNext, StartScript, AawgdUnbinds, AawgdBinds, ScriptEnds,
        Terminate, Cleanup, CleanupKilled, RunHome, HomeStops, RunDongle, Interrupt
  <2>2. ButtonTypeOK' /\ ClicksCountOnce' /\ CountInv'
    BY <2>1 DEF BoardInv, TypeOK, ButtonTypeOK, ClicksCountOnce, CountInv, At, buttonVars, counted
  <2>3. UNCHANGED threads
    BY <2>1 DEF buttonVars
  <2> USE <2>2, <2>3 DEF BoardInv, TypeOK, ScriptInv, ServiceComesBack, UdcInv,
                         scriptVars, networkVars
  <2>4. CASE StartScript
    <3>1. managed' => managed
      BY <2>4 DEF StartScript
    <3>2. managed' \in BOOLEAN
      BY <2>4 DEF StartScript
    <3>3. UNCHANGED <<wanted, debugMode, udc, script, home, unmanaged>> /\ unclean' = FALSE
      BY <2>4 DEF StartScript
    <3>4. ScriptInv'
      BY <3>1, <3>3
    <3>5. service' = "running"
      BY <2>4 DEF StartScript
    <3> QED
      BY <3>2, <3>3, <3>4, <3>5
  <2>5. CASE AawgdUnbinds \/ AawgdBinds
    BY <2>5 DEF AawgdUnbinds, AawgdBinds
  <2>6. CASE ScriptEnds \/ Cleanup \/ CleanupKilled
    <3>1. /\ service' = "off" /\ udc' \in {udc, "none"} /\ unclean' \in BOOLEAN
          /\ udc' = "none" \/ unclean'
          /\ UNCHANGED <<wanted, debugMode, script, home, unmanaged, managed>>
      BY <2>6 DEF ScriptEnds, Cleanup, CleanupKilled
    <3> QED
      BY <3>1
  <2>7. CASE Terminate
    BY <2>7 DEF Terminate
  <2>8. CASE RunHome \/ RunDongle \/ Interrupt
    <3>1. UNCHANGED <<unmanaged, managed>>
      BY <2>8 DEF RunHome, RunDongle, Interrupt
    <3>2. \/ script' \in {"none", "block"} /\ home' = home
          \/ script' = "stop" /\ home' = TRUE
      BY <2>8 DEF RunHome, RunDongle, Interrupt
    <3>3. ScriptInv'
      BY <3>1, <3>2 DEF HomePcs
    <3>4. UNCHANGED <<wanted, service, debugMode, udc, unclean>>
      BY <2>8 DEF RunHome, RunDongle, Interrupt, serviceVars
    <3>5. script' \in HomePcs \cup {"none", "block"} /\ home' \in BOOLEAN
      BY <3>2 DEF HomePcs
    <3> QED
      BY <3>1, <3>2, <3>3, <3>4, <3>5
  <2>9. CASE HomeStops
    BY <2>9 DEF HomeStops, HomePcs
  <2> QED
    BY <1>1, <2>4, <2>5, <2>6, <2>7, <2>8, <2>9 DEF ServiceNext
<1>2. CASE HomeWaits \/ Release \/ RestartNetworkManager \/ Manage \/ Block
  <2>1. UNCHANGED <<buttonVars, serviceVars, home>>
    BY <1>2 DEF HomeWaits, Release, RestartNetworkManager, Manage, Block, ScriptStep
  <2>2. TypeOK'
    <3>1. script' \in HomePcs \cup {"none", "reboot"}
      BY <1>2 DEF HomeWaits, Release, RestartNetworkManager, Manage, Block, ScriptStep,
          HomePcs
    <3>2. unmanaged' \in BOOLEAN /\ managed' \in BOOLEAN
      BY <1>2 DEF HomeWaits, Release, RestartNetworkManager, Manage, Block, BoardInv,
          TypeOK, networkVars
    <3> QED
      BY <2>1, <3>1, <3>2 DEF BoardInv, TypeOK, ButtonTypeOK, buttonVars, counted, serviceVars
  <2>3. ScriptInv'
    <3>1. CASE Block
      <4>1. /\ script = "block" /\ script' = "reboot"
            /\ unmanaged' = TRUE /\ managed' = managed
        BY <3>1 DEF Block, ScriptStep
      <4> QED
        BY <2>1, <4>1 DEF BoardInv, ScriptInv, HomePcs
    <3>2. CASE ~Block
      <4>1. script \in HomePcs /\ script' # "reboot"
        BY <1>2, <3>2 DEF HomeWaits, Release, RestartNetworkManager, Manage, ScriptStep,
            HomePcs
      <4> QED
        BY <2>1, <4>1 DEF BoardInv, ScriptInv
    <3> QED
      BY <3>1, <3>2
  <2>4. ClicksCountOnce' /\ CountInv' /\ ServiceComesBack' /\ UdcInv'
    BY <2>1 DEF BoardInv, ClicksCountOnce, CountInv, ServiceComesBack, UdcInv,
        buttonVars, serviceVars, At, counted
  <2> QED
    BY <2>2, <2>3, <2>4 DEF BoardInv
<1>3. CASE Restore \/ PowerCycle
  <2>1. Booted /\ home' \in BOOLEAN /\ unmanaged \in BOOLEAN /\ (~unmanaged => home')
    BY <1>3 DEF Restore, PowerCycle, BoardInv, TypeOK, ScriptInv
  <2> QED
    BY <2>1, BootedBoardInv
<1> QED
    BY <1>1, <1>2, <1>3 DEF ScriptNext

\* A step that changes nothing keeps it.
LEMMA StutterKeepsBoardInv == BoardInv /\ UNCHANGED vars => BoardInv'
    BY DEF BoardInv, TypeOK, ButtonTypeOK, ClicksCountOnce, CountInv, ScriptInv,
           ServiceComesBack, UdcInv, vars, buttonVars, counted, boardVars, serviceVars,
           scriptVars, networkVars, At

\* BoardInv holds in every state of the board: the counts of the button, the one
\* evaluation that is under way, and who is to start the service again.
THEOREM BoardInvariant == Spec => []BoardInv
<1>1. BoardInv /\ [Next]_vars => BoardInv'
    BY ButtonKeepsInv, JobsKeepInv, ServiceKeepsInv, StutterKeepsBoardInv DEF Next
<1> QED
    BY InitBoardInv, <1>1, PTL DEF Spec

\* Type correctness, with the count of clicks within what was clicked.
THEOREM BoardTypeCorrect == Spec => []TypeOK
<1>1. BoardInv => TypeOK
    BY DEF BoardInv
<1> QED
    BY BoardInvariant, <1>1, PTL

\* Every click counts exactly once, whatever timer is cancelled when it has fired, until
\* a click_count += 1 overlaps an evaluation's taking of the count (install.sh 187-196,
\* 215-222).
THEOREM ClicksCounted == Spec => []ClicksCountOnce
<1>1. BoardInv => ClicksCountOnce
    BY DEF BoardInv
<1> QED
    BY BoardInvariant, <1>1, PTL

\* However many jobs of the button overlap, the service is wanted again when they
\* have ended (install.sh 160-185).
THEOREM ServiceReturns == Spec => []ServiceComesBack
<1>1. BoardInv => ServiceComesBack
    BY DEF BoardInv
<1> QED
    BY BoardInvariant, <1>1, PTL

\* When enable_debug.sh starts the original gadget with the service down, whatever the
\* service bound after the gadgets were unbound has been unbound again, unless its script
\* ended without a cleanup (enable_debug.sh 13-25, start_aa_final.sh 26-35).
THEOREM ControllerFreeForDebug == Spec => []DebugFindsControllerFree
<1>1. BoardInv => DebugFindsControllerFree
    BY DEF BoardInv, UdcInv, DebugFindsControllerFree
<1> QED
    BY BoardInvariant, <1>1, PTL

\* NetworkManager has the radio only from connect_home.sh until modo_dongle.sh has
\* undone it, wherever either was interrupted (connect_home.sh 30-50, modo_dongle.sh 11).
THEOREM RadioReturns == Spec => []RadioComesBack
<1>1. BoardInv => RadioComesBack
    BY DEF BoardInv, ScriptInv, RadioComesBack
<1> QED
    BY BoardInvariant, <1>1, PTL
==============================================================================
