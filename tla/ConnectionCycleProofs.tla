------------------------ MODULE ConnectionCycleProofs ------------------------
(***************************************************************************)
(* CycleInv of ConnectionCycle is inductive, for every number of passive   *)
(* waits and of descriptors, and the safety properties follow from it.     *)
(***************************************************************************)
EXTENDS ConnectionCycle, TLAPS

\* Where the head of the retry loop leads, and what is left of the count.
LEMMA LoopHeadFacts ==
    ASSUME NEW w \in 0..PassiveCycles
    PROVE  /\ LoopHead(w) \in {"passive", "connect"}
           /\ LoopHead(w) = "passive" => Dongle /\ w < PassiveCycles
           /\ ~Dongle => LoopHead(w) = "connect"
    BY CycleAssumption DEF LoopHead

\* The initial states satisfy the invariant.
LEMMA InitCycleInv == Init => CycleInv
<1> SUFFICES ASSUME Init PROVE CycleInv
    OBVIOUS
<1>1. strategy \in Strategies
    BY DEF Init, ConnectionStrategy, Strategies
<1>2. 0 \in 0..PassiveCycles /\ 0 \in 0..MaxFds
    BY CycleAssumption
<1>3. TypeOK
    BY <1>1, <1>2 DEF Init, TypeOK, MainPcs, ProxyPcs, BtPcs, Deaths
<1>4. ThreadInv /\ WaitInv /\ PromiseInv /\ LateInv /\ BluezInv
    BY DEF Init, ThreadInv, WaitInv, PromiseInv, LateInv, BluezInv
<1>5. DoubleStopNeedsUnseenStop
    BY DEF Init, DoubleStopNeedsUnseenStop
<1> QED
    BY <1>3, <1>4, <1>5 DEF CycleInv

\* Each step of main keeps it.
LEMMA MainKeepsInv == CycleInv /\ MainNext => CycleInv'
<1> SUFFICES ASSUME CycleInv, MainNext PROVE CycleInv'
    OBVIOUS
<1> USE CycleAssumption DEF CycleInv, TypeOK, ThreadInv, WaitInv, PromiseInv,
        LateInv, BluezInv, DoubleStopNeedsUnseenStop, Strategies, Dongle,
        MainPcs, ProxyPcs, BtPcs, Deaths, Running, mainVars, btVars, bluezVars
<1>1. CASE InitBluetooth
    BY <1>1 DEF InitBluetooth
<1>2. CASE InitFails
    BY <1>2 DEF InitFails, DBusThrows
<1>3. CASE NextRound
    BY <1>3 DEF NextRound
<1>4. CASE AccessoryReady
    BY <1>4 DEF AccessoryReady
<1>5. CASE StartServer
    BY <1>5 DEF StartServer
<1>6. CASE StartServerFails
    BY <1>6 DEF StartServerFails
<1>7. CASE PowerOn
    BY <1>7 DEF PowerOn
<1>8. CASE PowerOnFails
    BY <1>8 DEF PowerOnFails, DBusThrows
<1>9. CASE ConnectWithRetry
  <2>1. LoopHead(0) \in {"passive", "connect"} /\ (~Dongle => LoopHead(0) = "connect")
    BY LoopHeadFacts
  <2> QED
    BY <1>9, <2>1 DEF ConnectWithRetry
<1>10. CASE JoinProxy
    BY <1>10 DEF JoinProxy
<1>11. CASE MainTestsPromise
    BY <1>11 DEF MainTestsPromise, TestPromise
<1>12. CASE MainSetsPromise
    BY <1>12 DEF MainSetsPromise, SetValue
<1>13. CASE JoinBt
    BY <1>13 DEF JoinBt
<1>14. CASE DisableGadget
    BY <1>14 DEF DisableGadget
<1> QED
    BY <1>1, <1>2, <1>3, <1>4, <1>5, <1>6, <1>7, <1>8, <1>9, <1>10, <1>11,
       <1>12, <1>13, <1>14
    DEF MainNext

\* Each step of proxy keeps it.
LEMMA ProxyKeepsInv == CycleInv /\ ProxyNext => CycleInv'
<1> SUFFICES ASSUME CycleInv, ProxyNext PROVE CycleInv'
    OBVIOUS
<1> USE CycleAssumption DEF CycleInv, TypeOK, ThreadInv, WaitInv, PromiseInv,
        LateInv, BluezInv, DoubleStopNeedsUnseenStop, Strategies, Dongle,
        MainPcs, ProxyPcs, BtPcs, Deaths, Running, mainVars, btVars, bluezVars
<1>1. CASE Accept
    BY <1>1 DEF Accept
<1>2. CASE AcceptFails
    BY <1>2 DEF AcceptFails
<1>3. CASE ProxyTestsPromise
    BY <1>3 DEF ProxyTestsPromise, TestPromise
<1>4. CASE ProxySetsPromise
    BY <1>4 DEF ProxySetsPromise, SetValue
<1>5. CASE StartForwarding
    BY <1>5 DEF StartForwarding
<1>6. CASE EndForwarding
    BY <1>6 DEF EndForwarding
<1>7. ASSUME NEW n \in 1..2, EarlyReturn(n) PROVE CycleInv'
    BY <1>7 DEF EarlyReturn
<1> QED
    BY <1>1, <1>2, <1>3, <1>4, <1>5, <1>6, <1>7 DEF ProxyNext

\* Each step of the retry thread keeps it.
LEMMA BtKeepsInv == CycleInv /\ BtNext => CycleInv'
<1> SUFFICES ASSUME CycleInv, BtNext PROVE CycleInv'
    OBVIOUS
<1> USE CycleAssumption DEF CycleInv, TypeOK, ThreadInv, WaitInv, PromiseInv,
        LateInv, BluezInv, DoubleStopNeedsUnseenStop, Strategies, Dongle,
        MainPcs, ProxyPcs, BtPcs, Deaths, Running, mainVars, btVars, bluezVars
<1>1. CASE StopAdvertising
    BY <1>1 DEF StopAdvertising
<1>2. CASE StartAdvertising
  <2>1. ~advertised /\ Dongle
    BY <1>2 DEF StartAdvertising
  <2>2. LoopHead(0) = "passive"
    BY <2>1 DEF LoopHead
  <2>3. /\ advertised' = TRUE /\ bt' = "passive" /\ UNCHANGED died
        /\ UNCHANGED <<mainVars, proxy, waitCycles, late, promise, powered,
                       leaked>>
    BY <1>2, <2>1, <2>2 DEF StartAdvertising
  <2> QED
    BY <1>2, <2>1, <2>3 DEF StartAdvertising
<1>3. CASE BluetoothFails
    BY <1>3 DEF BluetoothFails, DBusThrows
<1>4. CASE PassiveTimeout
  <2>1. waitCycles' \in 0..PassiveCycles
    BY <1>4 DEF PassiveTimeout
  <2>2. /\ bt' \in {"passive", "connect"}
        /\ bt' = "passive" => Dongle /\ waitCycles' < PassiveCycles
    BY <1>4, <2>1, LoopHeadFacts DEF PassiveTimeout
  <2> QED
    BY <1>4, <2>1, <2>2 DEF PassiveTimeout
<1>5. CASE PassiveReady
    BY <1>5 DEF PassiveReady
<1>6. CASE ConnectDevice
    BY <1>6 DEF ConnectDevice
<1>7. CASE FindDevices
    BY <1>7 DEF FindDevices, NextDevice
<1>11. ASSUME NEW d \in Devices, DeviceTried(d) \/ DeviceFails(d) PROVE CycleInv'
    BY <1>11 DEF DeviceTried, DeviceFails, Trying, NextDevice
<1>8. CASE ActiveTimeout
  <2>1. waitCycles' \in 0..PassiveCycles
    BY <1>8 DEF ActiveTimeout, AfterAttempt
  <2>2. /\ bt' \in {"passive", "connect"}
        /\ bt' = "passive" => Dongle /\ waitCycles' < PassiveCycles
        /\ ~Dongle => bt' = "connect"
    BY <1>8, <2>1, LoopHeadFacts DEF ActiveTimeout
  <2> QED
    BY <1>8, <2>1, <2>2 DEF ActiveTimeout
<1>9. CASE ActiveReady
    BY <1>9 DEF ActiveReady, AfterAttempt
<1>10. CASE LeaveRetryLoop
    BY <1>10 DEF LeaveRetryLoop
<1> QED
    BY <1>1, <1>2, <1>3, <1>4, <1>5, <1>6, <1>7, <1>8, <1>9, <1>10, <1>11 DEF BtNext

\* The devices of BlueZ are no part of it.
LEMMA DevicesKeepInv == CycleInv /\ DevicesChange => CycleInv'
    BY DEF CycleInv, TypeOK, ThreadInv, WaitInv, PromiseInv, LateInv, BluezInv,
           DoubleStopNeedsUnseenStop, Dongle, DevicesChange, mainVars, btVars

\* A restart brings it back.
LEMMA RestartKeepsInv == CycleInv /\ Restart => CycleInv'
<1> SUFFICES ASSUME CycleInv, Restart PROVE CycleInv'
    OBVIOUS
<1>1. TypeOK'
  <2>1. 0 \in 0..PassiveCycles /\ 0 \in 0..MaxFds
    BY CycleAssumption
  <2> QED
    BY <2>1
    DEF Restart, CycleInv, TypeOK, MainPcs, ProxyPcs, BtPcs, Deaths
<1>2. ThreadInv' /\ WaitInv' /\ PromiseInv' /\ LateInv' /\ BluezInv'
    BY DEF Restart, ThreadInv, WaitInv, PromiseInv, LateInv, BluezInv
<1>3. DoubleStopNeedsUnseenStop'
    BY DEF Restart, DoubleStopNeedsUnseenStop
<1> QED
    BY <1>1, <1>2, <1>3 DEF CycleInv

\* The invariant holds in every reachable state.
THEOREM CycleInvariant == Spec => []CycleInv
<1>1. CycleInv /\ [Next]_vars => CycleInv'
  <2>1. CycleInv /\ UNCHANGED vars => CycleInv'
    BY DEF vars, CycleInv, TypeOK, ThreadInv, WaitInv, PromiseInv, LateInv,
           BluezInv, DoubleStopNeedsUnseenStop, Dongle
  <2> QED
    BY <2>1, MainKeepsInv, ProxyKeepsInv, BtKeepsInv, RestartKeepsInv,
       DevicesKeepInv DEF Next
<1> QED
    BY <1>1, InitCycleInv, PTL DEF Spec

\* The variables of ConnectionCycle keep their types.
THEOREM TypeCorrect == Spec => []TypeOK
    BY CycleInvariant, PTL DEF CycleInv

\* The join of the retry thread at the end of a round (aawgd.cpp 49) returns: the
\* thread has left its loop or will find the request that makes it leave.
THEOREM JoinReturns == Spec => []JoinBtCannotHang
<1>1. CycleInv => JoinBtCannotHang
    BY DEF CycleInv, PromiseInv, JoinBtCannotHang
<1> QED
    BY <1>1, CycleInvariant, PTL

\* At most one connection attempt begins after a stop request
\* (bluetoothHandler.cpp 299-305).
THEOREM LateAttempts == Spec => []AtMostOneLateAttempt
<1>1. CycleInv => AtMostOneLateAttempt
    BY DEF CycleInv, LateInv, AtMostOneLateAttempt
<1> QED
    BY <1>1, CycleInvariant, PTL

\* Outside dongle mode the adapter is off between two phones (aawgd.cpp 40,
\* bluetoothHandler.cpp 314).
THEOREM PowerBetweenRounds == Spec => []BluetoothOffBetweenRounds
<1>1. CycleInv => BluetoothOffBetweenRounds
    BY DEF CycleInv, BluezInv, BluetoothOffBetweenRounds
<1> QED
    BY <1>1, CycleInvariant, PTL

\* In dongle mode the phone can find us at all times but while the advertisement
\* is renewed (aawgd.cpp 20, bluetoothHandler.cpp 269-271).
THEOREM Visible == Spec => []DongleStaysVisible
<1>1. CycleInv => DongleStaysVisible
    BY DEF CycleInv, BluezInv, DongleStaysVisible
<1> QED
    BY <1>1, CycleInvariant, PTL

\* No advertising call is refused because the one before it is missing.
THEOREM AdvertisementCalls == Spec => []AdvertisementCallsMatch
<1>1. CycleInv => AdvertisementCallsMatch
    BY DEF CycleInv, BluezInv, AdvertisementCallsMatch
<1> QED
    BY <1>1, CycleInvariant, PTL

\* Outside dongle mode, dropping the promise (bluetoothHandler.cpp 304) makes a
\* second set_value impossible once the retry thread has seen the first.
THEOREM DoubleStop == Spec => []DoubleStopNeedsUnseenStop
    BY CycleInvariant, PTL DEF CycleInv
==============================================================================
