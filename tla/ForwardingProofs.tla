--------------------------- MODULE ForwardingProofs ---------------------------
(***************************************************************************)
(* ForwardingInv of Forwarding is inductive, whatever the size of a chunk  *)
(* and however many parts a frame comes in, and the safety properties      *)
(* follow from it.                                                         *)
(***************************************************************************)
EXTENDS Forwarding, TLAPS

\* The initial states satisfy the invariant.
LEMMA InitForwardingInv == Init => ForwardingInv
<1> SUFFICES ASSUME Init PROVE ForwardingInv
    OBVIOUS
<1>1. 0 \in 0..MaxParts /\ 0 \in 0..MaxChunk
    BY ForwardingAssumption
<1>2. TypeOK
  <2>1. handler \in HandlerPcs /\ pc \in [Thread -> Pcs]
    BY DEF Init, HandlerPcs, Pcs
  <2>2. buf \in [Thread -> 0..MaxChunk] /\ parts \in 0..MaxParts
    BY <1>1 DEF Init
  <2>3. \A t \in Thread : buf[t] > 0 <=> pc[t] \in {"got", "toWrite", "write"}
    BY DEF Init
  <2> QED
    BY <2>1, <2>2, <2>3 DEF Init, TypeOK
<1>3. HandleInv
    BY DEF Init, HandleInv, NotYetSpawned, NotYetAssigned, JoinedPcs, KillPc
<1>4. FlagInv /\ GapInv /\ MissedInv /\ BadSignalOnlyAtJoin
    BY DEF Init, FlagInv, StopPcs, GapInv, MissedInv, Past, InCall, BeforeCall,
           BadSignalOnlyAtJoin
<1> QED
    BY <1>2, <1>3, <1>4 DEF ForwardingInv

\* Each step of handleClient, and a link that goes down, keeps it.
LEMMA HandlerKeepsInv ==
    ForwardingInv /\ (HandlerNext \/ \E l \in Link : LinkDown(l)) => ForwardingInv'
<1> SUFFICES ASSUME ForwardingInv, HandlerNext \/ \E l \in Link : LinkDown(l)
             PROVE  ForwardingInv'
    OBVIOUS
<1> USE ForwardingAssumption DEF ForwardingInv, dataVars, Thread, Link, Goto
<1>1. ASSUME NEW t \in Thread, Spawn(t) PROVE ForwardingInv'
  <2>1. TypeOK'
    BY <1>1 DEF Spawn, Running, TypeOK, HandlerPcs, Pcs, HandleInv,
       NotYetSpawned
  <2>2. HandleInv'
    BY <1>1 DEF Spawn, Running, TypeOK, HandleInv, NotYetSpawned,
       NotYetAssigned, JoinedPcs, KillPc
  <2>3. FlagInv'
    BY <1>1 DEF Spawn, Running, TypeOK, FlagInv, StopPcs, InCall,
       HandleInv, NotYetSpawned
  <2>4. GapInv'
    BY <1>1 DEF Spawn, Running, TypeOK, GapInv, FlagInv, StopPcs,
       HandleInv, NotYetSpawned
  <2>5. MissedInv'
    BY <1>1 DEF Spawn, Running, TypeOK, MissedInv, FlagInv, StopPcs, Past,
       InCall, BeforeCall
  <2>6. BadSignalOnlyAtJoin'
    BY <1>1 DEF Spawn, Running, TypeOK, BadSignalOnlyAtJoin
  <2> QED
    BY <2>1, <2>2, <2>3, <2>4, <2>5, <2>6
<1>2. ASSUME NEW t \in Thread, Assign(t) PROVE ForwardingInv'
  <2>1. TypeOK'
    BY <1>2 DEF Assign, Running, TypeOK, HandlerPcs, Pcs
  <2>2. HandleInv'
    BY <1>2 DEF Assign, Running, TypeOK, HandleInv, NotYetSpawned,
       NotYetAssigned, JoinedPcs, KillPc
  <2>3. FlagInv'
    BY <1>2 DEF Assign, Running, TypeOK, FlagInv, StopPcs, InCall
  <2>4. GapInv'
    BY <1>2 DEF Assign, Running, TypeOK, GapInv, FlagInv, StopPcs
  <2>5. MissedInv'
    BY <1>2 DEF Assign, Running, TypeOK, MissedInv, FlagInv, StopPcs, Past,
       InCall, BeforeCall
  <2>6. BadSignalOnlyAtJoin'
    BY <1>2 DEF Assign, Running, TypeOK, BadSignalOnlyAtJoin
  <2> QED
    BY <2>1, <2>2, <2>3, <2>4, <2>5, <2>6
<1>3. ASSUME NEW t \in Thread, Join(t) PROVE ForwardingInv'
  <2>1. TypeOK'
    BY <1>3 DEF Join, Running, TypeOK, HandlerPcs, Pcs
  <2>2. HandleInv'
    BY <1>3 DEF Join, Running, TypeOK, HandleInv, NotYetSpawned,
       NotYetAssigned, JoinedPcs, KillPc
  <2>3. FlagInv'
    BY <1>3 DEF Join, Running, TypeOK, FlagInv, StopPcs, InCall
  <2>4. GapInv'
    BY <1>3 DEF Join, Running, TypeOK, GapInv, FlagInv, StopPcs
  <2>5. MissedInv'
    BY <1>3 DEF Join, Running, TypeOK, MissedInv, FlagInv, StopPcs, Past,
       InCall, BeforeCall
  <2>6. BadSignalOnlyAtJoin'
    BY <1>3 DEF Join, Running, TypeOK, BadSignalOnlyAtJoin
  <2> QED
    BY <2>1, <2>2, <2>3, <2>4, <2>5, <2>6
<1>4. ASSUME NEW t \in Thread, Clear(t) PROVE ForwardingInv'
  <2>1. TypeOK'
    BY <1>4 DEF Clear, Running, TypeOK, HandlerPcs, Pcs
  <2>2. HandleInv'
    BY <1>4 DEF Clear, Running, TypeOK, HandleInv, NotYetSpawned,
       NotYetAssigned, JoinedPcs, KillPc
  <2>3. FlagInv'
    BY <1>4 DEF Clear, Running, TypeOK, FlagInv, StopPcs, InCall
  <2>4. GapInv'
    BY <1>4 DEF Clear, Running, TypeOK, GapInv, FlagInv, StopPcs
  <2>5. MissedInv'
    BY <1>4 DEF Clear, Running, TypeOK, MissedInv, FlagInv, StopPcs, Past,
       InCall, BeforeCall
  <2>6. BadSignalOnlyAtJoin'
    BY <1>4 DEF Clear, Running, TypeOK, BadSignalOnlyAtJoin
  <2> QED
    BY <2>1, <2>2, <2>3, <2>4, <2>5, <2>6
<1>5. CASE WindUp
  <2>1. TypeOK'
    BY <1>5 DEF WindUp, Running, TypeOK, HandlerPcs, Pcs
  <2>2. HandleInv'
    BY <1>5 DEF WindUp, Running, TypeOK, HandleInv, NotYetSpawned,
       NotYetAssigned, JoinedPcs, KillPc
  <2>3. FlagInv'
    BY <1>5 DEF WindUp, Running, TypeOK, FlagInv, StopPcs, InCall
  <2>4. GapInv'
    BY <1>5 DEF WindUp, Running, TypeOK, GapInv, FlagInv, StopPcs
  <2>5. MissedInv'
    BY <1>5 DEF WindUp, Running, TypeOK, MissedInv, FlagInv, StopPcs, Past,
       InCall, BeforeCall
  <2>6. BadSignalOnlyAtJoin'
    BY <1>5 DEF WindUp, Running, TypeOK, BadSignalOnlyAtJoin
  <2> QED
    BY <2>1, <2>2, <2>3, <2>4, <2>5, <2>6
<1>6. CASE NextSession
  <2>1. TypeOK'
    <3>1. 0 \in 0..MaxParts /\ 0 \in 0..MaxChunk
      OBVIOUS
    <3>2. handler' \in HandlerPcs /\ pc' \in [Thread -> Pcs]
      BY <1>6 DEF NextSession, HandlerPcs, Pcs
    <3>3. buf' \in [Thread -> 0..MaxChunk] /\ parts' \in 0..MaxParts
      BY <1>6, <3>1 DEF NextSession
    <3>4. \A t \in Thread :
            buf'[t] > 0 <=> pc'[t] \in {"got", "toWrite", "write"}
      BY <1>6 DEF NextSession
    <3> QED
      BY <1>6, <3>2, <3>3, <3>4 DEF NextSession, TypeOK
  <2>2. HandleInv'
    BY <1>6 DEF NextSession, TypeOK, HandleInv, NotYetSpawned,
       NotYetAssigned, JoinedPcs, KillPc
  <2>3. FlagInv'
    BY <1>6 DEF NextSession, TypeOK, FlagInv, StopPcs, InCall
  <2>4. GapInv'
    BY <1>6 DEF NextSession, TypeOK, GapInv, FlagInv, StopPcs
  <2>5. MissedInv'
    BY <1>6 DEF NextSession, TypeOK, MissedInv, FlagInv, StopPcs, Past,
       InCall, BeforeCall
  <2>6. BadSignalOnlyAtJoin'
    BY <1>6 DEF NextSession, TypeOK, BadSignalOnlyAtJoin
  <2> QED
    BY <2>1, <2>2, <2>3, <2>4, <2>5, <2>6
<1>7. ASSUME NEW l \in Link, LinkDown(l) PROVE ForwardingInv'
  <2>1. TypeOK'
    BY <1>7 DEF LinkDown, Running, TypeOK, HandlerPcs, Pcs
  <2>2. HandleInv'
    BY <1>7 DEF LinkDown, Running, TypeOK, HandleInv, NotYetSpawned,
       NotYetAssigned, JoinedPcs, KillPc
  <2>3. FlagInv'
    BY <1>7 DEF LinkDown, Running, TypeOK, FlagInv, StopPcs, InCall
  <2>4. GapInv'
    BY <1>7 DEF LinkDown, Running, TypeOK, GapInv, FlagInv, StopPcs
  <2>5. MissedInv'
    BY <1>7 DEF LinkDown, Running, TypeOK, MissedInv, FlagInv, StopPcs,
       Past, InCall, BeforeCall
  <2>6. BadSignalOnlyAtJoin'
    BY <1>7 DEF LinkDown, Running, TypeOK, BadSignalOnlyAtJoin
  <2> QED
    BY <2>1, <2>2, <2>3, <2>4, <2>5, <2>6
<1> QED
    BY <1>1, <1>2, <1>3, <1>4, <1>5, <1>6, <1>7 DEF HandlerNext

\* Each step of forward() keeps it.
LEMMA CallsKeepInv ==
    /\ ForwardingInv
    /\ \E t \in Thread :
         CheckExit(t) \/ EnterCall(t) \/ CheckBeforeWrite(t) \/ CallReturns(t)
    => ForwardingInv'
<1> SUFFICES ASSUME ForwardingInv,
                    \E t \in Thread :
                      CheckExit(t) \/ EnterCall(t) \/ CheckBeforeWrite(t) \/ CallReturns(t)
             PROVE  ForwardingInv'
    OBVIOUS
<1> USE ForwardingAssumption DEF ForwardingInv, dataVars, Thread, Link, Goto
<1>1. ASSUME NEW t \in Thread, CheckExit(t) PROVE ForwardingInv'
  <2>1. TypeOK'
    BY <1>1 DEF CheckExit, Running, StopOrder, TypeOK, HandlerPcs, Pcs
  <2>2. HandleInv'
    BY <1>1 DEF CheckExit, Running, StopOrder, TypeOK, HandleInv,
       NotYetSpawned, NotYetAssigned, JoinedPcs, KillPc
  <2>3. FlagInv'
    BY <1>1 DEF CheckExit, Running, StopOrder, TypeOK, FlagInv, StopPcs,
       InCall
  <2>4. GapInv'
    BY <1>1 DEF CheckExit, Running, StopOrder, TypeOK, GapInv, FlagInv,
       StopPcs
  <2>5. MissedInv'
    BY <1>1 DEF CheckExit, Running, StopOrder, TypeOK, MissedInv, FlagInv,
       StopPcs, Past, InCall, BeforeCall
  <2>6. BadSignalOnlyAtJoin'
    BY <1>1 DEF CheckExit, Running, StopOrder, TypeOK, BadSignalOnlyAtJoin
  <2> QED
    BY <2>1, <2>2, <2>3, <2>4, <2>5, <2>6
<1>2. ASSUME NEW t \in Thread, EnterCall(t) PROVE ForwardingInv'
  <2>1. TypeOK'
    BY <1>2 DEF EnterCall, Running, BeforeCall, TypeOK, HandlerPcs, Pcs
  <2>2. HandleInv'
    BY <1>2 DEF EnterCall, Running, BeforeCall, TypeOK, HandleInv,
       NotYetSpawned, NotYetAssigned, JoinedPcs, KillPc
  <2>3. FlagInv'
    BY <1>2 DEF EnterCall, Running, BeforeCall, TypeOK, FlagInv, StopPcs,
       InCall
  <2>4. GapInv'
    BY <1>2 DEF EnterCall, Running, BeforeCall, TypeOK, GapInv, FlagInv,
       StopPcs
  <2>5. MissedInv'
    BY <1>2 DEF EnterCall, Running, BeforeCall, TypeOK, MissedInv, FlagInv,
       StopPcs, Past, InCall
  <2>6. BadSignalOnlyAtJoin'
    BY <1>2 DEF EnterCall, Running, BeforeCall, TypeOK, BadSignalOnlyAtJoin
  <2> QED
    BY <2>1, <2>2, <2>3, <2>4, <2>5, <2>6
<1>3. CASE ReadPart
  <2>1. TypeOK'
    BY <1>3 DEF ReadPart, Running, TypeOK, HandlerPcs, Pcs
  <2>2. HandleInv'
    BY <1>3 DEF ReadPart, Running, TypeOK, HandleInv, NotYetSpawned,
       NotYetAssigned, JoinedPcs, KillPc
  <2>3. FlagInv'
    BY <1>3 DEF ReadPart, Running, TypeOK, FlagInv, StopPcs, InCall
  <2>4. GapInv'
    BY <1>3 DEF ReadPart, Running, TypeOK, GapInv, FlagInv, StopPcs
  <2>5. MissedInv'
    BY <1>3 DEF ReadPart, Running, TypeOK, MissedInv, FlagInv, StopPcs,
       Past, InCall, BeforeCall
  <2>6. BadSignalOnlyAtJoin'
    BY <1>3 DEF ReadPart, Running, TypeOK, BadSignalOnlyAtJoin
  <2> QED
    BY <2>1, <2>2, <2>3, <2>4, <2>5, <2>6
<1>4. ASSUME NEW t \in Thread, NEW n \in 1..MaxChunk, ReadData(t, n) PROVE ForwardingInv'
  <2>1. TypeOK'
    BY <1>4 DEF ReadData, Running, TypeOK, HandlerPcs, Pcs
  <2>2. HandleInv'
    BY <1>4 DEF ReadData, Running, TypeOK, HandleInv, NotYetSpawned,
       NotYetAssigned, JoinedPcs, KillPc
  <2>3. FlagInv'
    BY <1>4 DEF ReadData, Running, TypeOK, FlagInv, StopPcs, InCall
  <2>4. GapInv'
    BY <1>4 DEF ReadData, Running, TypeOK, GapInv, FlagInv, StopPcs
  <2>5. MissedInv'
    BY <1>4 DEF ReadData, Running, TypeOK, MissedInv, FlagInv, StopPcs,
       Past, InCall, BeforeCall
  <2>6. BadSignalOnlyAtJoin'
    BY <1>4 DEF ReadData, Running, TypeOK, BadSignalOnlyAtJoin
  <2> QED
    BY <2>1, <2>2, <2>3, <2>4, <2>5, <2>6
<1>5. ASSUME NEW t \in Thread, ReadEnds(t) PROVE ForwardingInv'
  <2>1. TypeOK'
    BY <1>5 DEF ReadEnds, Running, StopOrder, TypeOK, HandlerPcs, Pcs
  <2>2. HandleInv'
    BY <1>5 DEF ReadEnds, Running, StopOrder, TypeOK, HandleInv,
       NotYetSpawned, NotYetAssigned, JoinedPcs, KillPc
  <2>3. FlagInv'
    BY <1>5 DEF ReadEnds, Running, StopOrder, TypeOK, FlagInv, StopPcs,
       InCall
  <2>4. GapInv'
    BY <1>5 DEF ReadEnds, Running, StopOrder, TypeOK, GapInv, FlagInv,
       StopPcs
  <2>5. MissedInv'
    BY <1>5 DEF ReadEnds, Running, StopOrder, TypeOK, MissedInv, FlagInv,
       StopPcs, Past, InCall, BeforeCall
  <2>6. BadSignalOnlyAtJoin'
    BY <1>5 DEF ReadEnds, Running, StopOrder, TypeOK, BadSignalOnlyAtJoin
  <2> QED
    BY <2>1, <2>2, <2>3, <2>4, <2>5, <2>6
<1>6. ASSUME NEW t \in Thread, CheckBeforeWrite(t) PROVE ForwardingInv'
  <2>1. TypeOK'
    <3>1. pc' \in [Thread -> Pcs] /\ handler' \in HandlerPcs
      BY <1>6 DEF CheckBeforeWrite, StopOrder, TypeOK, Pcs, HandlerPcs
    <3>2. buf' \in [Thread -> 0..MaxChunk] /\ parts' \in 0..MaxParts
      BY <1>6 DEF CheckBeforeWrite, StopOrder, TypeOK
    <3>3. \A u \in Thread :
            buf'[u] > 0 <=> pc'[u] \in {"got", "toWrite", "write"}
      BY <1>6 DEF CheckBeforeWrite, StopOrder, TypeOK
    <3>4. handle' \in [Thread -> {"none", "live", "joined"}] /\ died' \in BOOLEAN
      BY <1>6 DEF CheckBeforeWrite, StopOrder, TypeOK, Running
    <3>5. intr' = [intr EXCEPT ![t] = FALSE]
      BY <1>6 DEF CheckBeforeWrite
    <3>6. gap' = gap \/ gap' = [gap EXCEPT ![t] = TRUE]
      BY <1>6 DEF CheckBeforeWrite
    <3>7. missed' = missed
      BY <1>6 DEF CheckBeforeWrite
    <3>8. /\ intr' \in [Thread -> BOOLEAN] /\ gap' \in [Thread -> BOOLEAN]
          /\ missed' \in [Thread -> BOOLEAN]
      BY <3>5, <3>6, <3>7 DEF TypeOK
    <3>9. up' \in [Link -> BOOLEAN] /\ should_exit' \in BOOLEAN
      BY <1>6 DEF CheckBeforeWrite, StopOrder, TypeOK
    <3> QED
      BY <3>1, <3>2, <3>3, <3>4, <3>8, <3>9 DEF TypeOK
  <2>2. HandleInv'
    BY <1>6 DEF CheckBeforeWrite, Running, StopOrder, TypeOK, HandleInv,
       NotYetSpawned, NotYetAssigned, JoinedPcs, KillPc
  <2>3. FlagInv'
    BY <1>6 DEF CheckBeforeWrite, Running, StopOrder, TypeOK, FlagInv,
       StopPcs, InCall
  <2>4. GapInv'
    BY <1>6 DEF CheckBeforeWrite, Running, StopOrder, TypeOK, GapInv,
       FlagInv, StopPcs
  <2>5. MissedInv'
    BY <1>6 DEF CheckBeforeWrite, Running, StopOrder, TypeOK, MissedInv,
       FlagInv, StopPcs, Past, InCall, BeforeCall
  <2>6. BadSignalOnlyAtJoin'
    BY <1>6 DEF CheckBeforeWrite, Running, StopOrder, TypeOK,
       BadSignalOnlyAtJoin
  <2> QED
    BY <2>1, <2>2, <2>3, <2>4, <2>5, <2>6
<1>7. ASSUME NEW t \in Thread, NEW n \in 1..MaxChunk, WriteData(t, n) PROVE ForwardingInv'
  <2>1. TypeOK'
    BY <1>7 DEF WriteData, Running, TypeOK, HandlerPcs, Pcs
  <2>2. HandleInv'
    BY <1>7 DEF WriteData, Running, TypeOK, HandleInv, NotYetSpawned,
       NotYetAssigned, JoinedPcs, KillPc
  <2>3. FlagInv'
    BY <1>7 DEF WriteData, Running, TypeOK, FlagInv, StopPcs, InCall
  <2>4. GapInv'
    BY <1>7 DEF WriteData, Running, TypeOK, GapInv, FlagInv, StopPcs
  <2>5. MissedInv'
    BY <1>7 DEF WriteData, Running, TypeOK, MissedInv, FlagInv, StopPcs,
       Past, InCall, BeforeCall
  <2>6. BadSignalOnlyAtJoin'
    BY <1>7 DEF WriteData, Running, TypeOK, BadSignalOnlyAtJoin
  <2> QED
    BY <2>1, <2>2, <2>3, <2>4, <2>5, <2>6
<1>8. ASSUME NEW t \in Thread, WriteFails(t) PROVE ForwardingInv'
  <2>1. TypeOK'
    BY <1>8 DEF WriteFails, Running, StopOrder, TypeOK, HandlerPcs, Pcs
  <2>2. HandleInv'
    BY <1>8 DEF WriteFails, Running, StopOrder, TypeOK, HandleInv,
       NotYetSpawned, NotYetAssigned, JoinedPcs, KillPc
  <2>3. FlagInv'
    BY <1>8 DEF WriteFails, Running, StopOrder, TypeOK, FlagInv, StopPcs,
       InCall
  <2>4. GapInv'
    BY <1>8 DEF WriteFails, Running, StopOrder, TypeOK, GapInv, FlagInv,
       StopPcs
  <2>5. MissedInv'
    BY <1>8 DEF WriteFails, Running, StopOrder, TypeOK, MissedInv, FlagInv,
       StopPcs, Past, InCall, BeforeCall
  <2>6. BadSignalOnlyAtJoin'
    BY <1>8 DEF WriteFails, Running, StopOrder, TypeOK, BadSignalOnlyAtJoin
  <2> QED
    BY <2>1, <2>2, <2>3, <2>4, <2>5, <2>6
<1> QED
    BY <1>1, <1>2, <1>3, <1>4, <1>5, <1>6, <1>7, <1>8 DEF CallReturns

\* Each step of stopForwarding keeps it.
LEMMA StopKeepsInv ==
    /\ ForwardingInv
    /\ \E s \in Thread :
         SetFlag(s) \/ \E t \in Thread : TestHandle(s, t) \/ Signal(s, t)
    => ForwardingInv'
<1> SUFFICES ASSUME ForwardingInv,
                    \E s \in Thread :
                      SetFlag(s) \/ \E t \in Thread : TestHandle(s, t) \/ Signal(s, t)
             PROVE  ForwardingInv'
    OBVIOUS
<1> USE ForwardingAssumption DEF ForwardingInv, dataVars, Thread, Link, Goto
<1>1. ASSUME NEW t \in Thread, SetFlag(t) PROVE ForwardingInv'
  <2>1. TypeOK'
    BY <1>1 DEF SetFlag, Running, StopOrder, TypeOK, HandlerPcs, Pcs
  <2>2. HandleInv'
    BY <1>1 DEF SetFlag, Running, StopOrder, TypeOK, HandleInv,
       NotYetSpawned, NotYetAssigned, JoinedPcs, KillPc
  <2>3. FlagInv'
    BY <1>1 DEF SetFlag, Running, StopOrder, TypeOK, FlagInv, StopPcs,
       InCall
  <2>4. GapInv'
    BY <1>1 DEF SetFlag, Running, StopOrder, TypeOK, GapInv, FlagInv,
       StopPcs
  <2>5. MissedInv'
    BY <1>1 DEF SetFlag, Running, StopOrder, TypeOK, MissedInv, FlagInv,
       StopPcs, Past, InCall, BeforeCall
  <2>6. BadSignalOnlyAtJoin'
    BY <1>1 DEF SetFlag, Running, StopOrder, TypeOK, BadSignalOnlyAtJoin
  <2> QED
    BY <2>1, <2>2, <2>3, <2>4, <2>5, <2>6
<1>2. ASSUME NEW s \in Thread, NEW t \in Thread, TestHandle(s, t) PROVE ForwardingInv'
  <2>1. TypeOK'
    <3>1. pc' \in [Thread -> Pcs] /\ handler' \in HandlerPcs
      BY <1>2 DEF TestHandle, StopOrder, TestPc, KillPc, TypeOK, Pcs, HandlerPcs
    <3>2. buf' \in [Thread -> 0..MaxChunk] /\ parts' \in 0..MaxParts
      BY <1>2 DEF TestHandle, StopOrder, TestPc, KillPc, TypeOK
    <3>3. \A u \in Thread :
            buf'[u] > 0 <=> pc'[u] \in {"got", "toWrite", "write"}
      BY <1>2 DEF TestHandle, StopOrder, TestPc, KillPc, TypeOK
    <3>4. handle' \in [Thread -> {"none", "live", "joined"}] /\ died' \in BOOLEAN
      BY <1>2 DEF TestHandle, StopOrder, TestPc, KillPc, TypeOK, Running
    <3>5. intr' = [intr EXCEPT ![s] = FALSE]
      BY <1>2 DEF TestHandle
    <3>6. \/ missed' = missed
          \/ missed' = [missed EXCEPT ![t] =
                            missed[t] \/ pc[t] \in BeforeCall \cup InCall]
      BY <1>2 DEF TestHandle
    <3>7. gap' = gap
      BY <1>2 DEF TestHandle
    <3>8. /\ intr' \in [Thread -> BOOLEAN] /\ gap' \in [Thread -> BOOLEAN]
          /\ missed' \in [Thread -> BOOLEAN]
      BY <3>5, <3>6, <3>7 DEF TypeOK
    <3>9. up' \in [Link -> BOOLEAN] /\ should_exit' \in BOOLEAN
      BY <1>2 DEF TestHandle, StopOrder, TestPc, KillPc, TypeOK
    <3> QED
      BY <3>1, <3>2, <3>3, <3>4, <3>8, <3>9 DEF TypeOK
  <2>2. HandleInv'
    BY <1>2 DEF TestHandle, Running, StopOrder, TestPc, KillPc, TypeOK,
       HandleInv, NotYetSpawned, NotYetAssigned, JoinedPcs
  <2>3. FlagInv'
    BY <1>2 DEF TestHandle, Running, StopOrder, TestPc, KillPc, TypeOK,
       FlagInv, StopPcs, InCall
  <2>4. GapInv'
    BY <1>2 DEF TestHandle, Running, StopOrder, TestPc, KillPc, TypeOK,
       GapInv, FlagInv, StopPcs
  <2>5. MissedInv'
    BY <1>2 DEF TestHandle, Running, StopOrder, TestPc, KillPc, TypeOK,
       MissedInv, FlagInv, StopPcs, Past, InCall, BeforeCall
  <2>6. BadSignalOnlyAtJoin'
    BY <1>2 DEF TestHandle, Running, StopOrder, TestPc, KillPc, TypeOK,
       BadSignalOnlyAtJoin
  <2> QED
    BY <2>1, <2>2, <2>3, <2>4, <2>5, <2>6
<1>3. ASSUME NEW s \in Thread, NEW t \in Thread, Signal(s, t) PROVE ForwardingInv'
  <2>7. \/ handle[t] = "live"
        \/ /\ s = "t2u" /\ t = "u2t" /\ handler \in {"clearU", "joinT"}
           /\ pc["u2t"] = "ended" /\ pc["t2u"] = "killU" /\ handle[t] # "live"
    BY <1>3 DEF Signal, KillPc, TypeOK, HandleInv, NotYetAssigned, JoinedPcs
  <2>1. TypeOK'
    <3>1. pc' \in [Thread -> Pcs] /\ handler' \in HandlerPcs
      BY <1>3 DEF Signal, StopOrder, KillPc, PassedBy, TypeOK, Pcs, HandlerPcs
    <3>2. buf' \in [Thread -> 0..MaxChunk] /\ parts' \in 0..MaxParts
      BY <1>3 DEF Signal, StopOrder, KillPc, PassedBy, TypeOK
    <3>3. \A u \in Thread :
            buf'[u] > 0 <=> pc'[u] \in {"got", "toWrite", "write"}
      BY <1>3 DEF Signal, StopOrder, KillPc, PassedBy, TypeOK
    <3>4. handle' \in [Thread -> {"none", "live", "joined"}] /\ died' \in BOOLEAN
      BY <1>3 DEF Signal, StopOrder, KillPc, PassedBy, TypeOK, Running
    <3>5. intr' \in [Thread -> BOOLEAN]
      <4>1. \/ intr' = [intr EXCEPT ![s] = FALSE]
            \/ intr' = [intr EXCEPT ![t] = pc[t] \in InCall]
        BY <1>3 DEF Signal
      <4>2. (pc[t] \in InCall) \in BOOLEAN
        OBVIOUS
      <4> QED
        BY <4>1, <4>2, Zenon DEF TypeOK
    <3>6. missed' \in [Thread -> BOOLEAN]
      <4>1. \/ missed' = missed
            \/ missed' = [missed EXCEPT ![t] = missed[t] \/ pc[t] \in BeforeCall]
        BY <1>3 DEF Signal, PassedBy
      <4>2. (missed[t] \/ pc[t] \in BeforeCall) \in BOOLEAN
        OBVIOUS
      <4> QED
        BY <4>1, <4>2, Zenon DEF TypeOK
    <3>7. gap' = gap
      BY <1>3 DEF Signal
    <3>8. /\ intr' \in [Thread -> BOOLEAN] /\ gap' \in [Thread -> BOOLEAN]
          /\ missed' \in [Thread -> BOOLEAN]
      BY <3>5, <3>6, <3>7 DEF TypeOK
    <3>9. up' \in [Link -> BOOLEAN] /\ should_exit' \in BOOLEAN
      BY <1>3 DEF Signal, StopOrder, KillPc, PassedBy, TypeOK
    <3> QED
      BY <3>1, <3>2, <3>3, <3>4, <3>8, <3>9 DEF TypeOK
  <2>2. HandleInv'
    BY <1>3, <2>7 DEF Signal, Running, StopOrder, PassedBy, KillPc, TypeOK,
       HandleInv, NotYetSpawned, NotYetAssigned, JoinedPcs
  <2>3. FlagInv'
    BY <1>3, <2>7 DEF Signal, Running, StopOrder, PassedBy, KillPc, TypeOK,
       FlagInv, StopPcs, InCall
  <2>4. GapInv'
    BY <1>3, <2>7 DEF Signal, Running, StopOrder, PassedBy, KillPc, TypeOK,
       GapInv, FlagInv, StopPcs
  <2>5. MissedInv'
    BY <1>3, <2>7 DEF Signal, Running, StopOrder, PassedBy, KillPc, TypeOK,
       MissedInv, FlagInv, StopPcs, Past, InCall, BeforeCall
  <2>6. BadSignalOnlyAtJoin'
    <3>1. CASE handle[t] = "live"
      BY <1>3, <3>1 DEF Signal, Running, TypeOK, BadSignalOnlyAtJoin
    <3>2. CASE handle[t] # "live"
      <4>1. /\ handler' \in {"clearU", "joinT"}
            /\ pc'["u2t"] = "ended" /\ pc'["t2u"] = "testT"
        BY <1>3, <2>7, <3>2 DEF Signal, StopOrder, TypeOK
      <4> QED
        BY <4>1 DEF BadSignalOnlyAtJoin
    <3> QED
      BY <3>1, <3>2
  <2> QED
    BY <2>1, <2>2, <2>3, <2>4, <2>5, <2>6
<1> QED
    BY <1>1, <1>2, <1>3 DEF Thread

\* The invariant holds in every reachable state.
THEOREM ForwardingInvariant == Spec => []ForwardingInv
<1>1. ForwardingInv /\ [Next]_vars => ForwardingInv'
  <2>1. ForwardingInv /\ UNCHANGED vars => ForwardingInv'
    BY DEF vars, dataVars, ForwardingInv, TypeOK, HandleInv, NotYetSpawned,
           NotYetAssigned, JoinedPcs, KillPc, FlagInv, StopPcs, GapInv,
           MissedInv, Past, InCall, BeforeCall, BadSignalOnlyAtJoin
  <2> QED
    BY <2>1, HandlerKeepsInv, CallsKeepInv, StopKeepsInv DEF Next, Step
<1> QED
    BY <1>1, InitForwardingInv, PTL DEF Spec

\* The variables of Forwarding keep their types, and a thread holds data exactly
\* between its read and the end of its write.
THEOREM ForwardingTypeCorrect == Spec => []TypeOK
    BY ForwardingInvariant, PTL DEF ForwardingInv

\* Nothing reaches a link that is up after data for it was dropped: what the phone
\* and the car receive is what the other sent, up to some point
\* (proxyHandler.cpp 119-136, 144-152).
THEOREM NoGapInTheStream == Spec => []NothingAfterGap
<1>1. ForwardingInv => NothingAfterGap
    BY DEF ForwardingInv, GapInv, StopPcs, NothingAfterGap
<1> QED
    BY <1>1, ForwardingInvariant, PTL

\* A thread that stays blocked after the other has stopped was missed by the signal
\* in front of its call: there is no other way to hang (proxyHandler.cpp 96-120,
\* 144-152).
THEOREM OnlyMissed == Spec => []OnlyMissedSignalsBlock
<1>1. ForwardingInv => OnlyMissedSignalsBlock
    BY DEF ForwardingInv, MissedInv, Past, OnlyMissedSignalsBlock
<1> QED
    BY <1>1, ForwardingInvariant, PTL

\* A signal to a joined thread is sent by t2u alone, between the two joins
\* (proxyHandler.cpp 146-147, 208-211).
THEOREM BadSignal == Spec => []BadSignalOnlyAtJoin
    BY ForwardingInvariant, PTL DEF ForwardingInv

\* No thread is left when SIGUSR1 is deadly again and the descriptors are closed
\* (proxyHandler.cpp 208-220).
THEOREM NoThreadLeft == Spec => []NoThreadOutlivesSession
<1>1. ForwardingInv => NoThreadOutlivesSession
    BY DEF ForwardingInv, HandleInv, JoinedPcs, Thread, NoThreadOutlivesSession
<1> QED
    BY <1>1, ForwardingInvariant, PTL

(***************************************************************************)
(* The session refines Session.                                            *)
(***************************************************************************)

WritePcs == {"toWrite", "write"}

\* A step in which no thread comes to or leaves the way to its write, and in which
\* handler, flag and process stay, is none that the abstract session sees.
LEMMA UnseenStep ==
    ASSUME Phase' = Phase, should_exit' = should_exit,
           \A t \in Thread : pc'[t] \in WritePcs <=> pc[t] \in WritePcs
    PROVE  UNCHANGED S!vars
<1>1. \A t \in Thread : (should_exit' => pc'[t] \in WritePcs)
                          = (should_exit => pc[t] \in WritePcs)
    OBVIOUS
<1>2. Writes' = Writes
    BY <1>1, Zenon DEF Writes, WritePcs
<1> QED
    BY <1>2 DEF S!vars

\* While a thread is in the loop or in stopForwarding the session is not over.
LEMMA NotOver ==
    ASSUME ForwardingInv, Running, NEW t \in Thread, pc[t] \notin {"none", "ended"}
    PROVE  Phase = IF should_exit THEN "stopping" ELSE "open"
    BY DEF ForwardingInv, HandleInv, JoinedPcs, Running, Phase, Thread

\* handleClient: the end of the session and the beginning of the next are seen.
LEMMA HandlerRefines == ForwardingInv /\ HandlerNext => [S!Next]_S!vars
<1> SUFFICES ASSUME ForwardingInv, HandlerNext PROVE [S!Next]_S!vars
    OBVIOUS
<1> USE DEF ForwardingInv
<1>1. ASSUME NEW t \in Thread, Spawn(t) PROVE UNCHANGED S!vars
  <2>1. Phase' = Phase
    BY <1>1 DEF Spawn, Phase
  <2>2. \A u \in Thread : pc'[u] \in WritePcs <=> pc[u] \in WritePcs
    BY <1>1 DEF Spawn, TypeOK, HandleInv, NotYetSpawned, WritePcs, Thread
  <2>3. should_exit' = should_exit
    BY <1>1 DEF Spawn
  <2> QED
    BY <2>1, <2>2, <2>3, UnseenStep
<1>2. ASSUME NEW t \in Thread, Assign(t) \/ Join(t) \/ Clear("u2t") \/ WindUp
      PROVE  UNCHANGED S!vars
  <2>1. Phase' = Phase
    BY <1>2 DEF Assign, Join, Clear, WindUp, Phase, Thread
  <2>2. pc' = pc /\ should_exit' = should_exit
    BY <1>2 DEF Assign, Join, Clear, WindUp
  <2> QED
    BY <2>1, <2>2, UnseenStep
<1>3. CASE Clear("t2u")
  <2>1. \A t \in Thread : pc[t] = "ended"
    BY <1>3 DEF Clear, HandleInv, JoinedPcs, Thread
  <2>2. should_exit
    BY <2>1 DEF FlagInv, StopPcs, Thread
  <2>3. Phase = "stopping" /\ Phase' = "over"
    BY <1>3, <2>2 DEF Clear, Running, Phase
  <2>4. \A t \in Thread : ~Writes[t]
    BY <2>1, <2>2 DEF Writes
  <2>5. Writes' = Writes
    BY <1>3 DEF Clear, Writes
  <2> QED
    BY <2>3, <2>4, <2>5 DEF S!Next, S!End
<1>4. CASE NextSession
  <2>1. Phase \in {"over", "dead"} /\ Phase' = "open"
    BY <1>4 DEF NextSession, Phase
  <2>2. ~should_exit'
    BY <1>4 DEF NextSession
  <2>3. Writes' = [t \in Thread |-> TRUE]
    BY <2>2, Zenon DEF Writes
  <2> QED
    BY <2>1, <2>3 DEF S!Next, S!Open
<1> QED
    BY <1>1, <1>2, <1>3, <1>4 DEF HandlerNext, Thread

\* The loop of a thread: a write after the stop is its last.
LEMMA LoopRefines ==
    ASSUME ForwardingInv, NEW t \in Thread,
           \/ CheckExit(t) \/ EnterCall(t) \/ CheckBeforeWrite(t) \/ CallReturns(t)
    PROVE  [S!Next]_S!vars
<1> USE DEF ForwardingInv
<1>1. Running /\ pc[t] \notin {"none", "ended"}
    BY DEF CheckExit, EnterCall, BeforeCall, CheckBeforeWrite, CallReturns, ReadPart,
           ReadData, ReadEnds, WriteData, WriteFails
<1>2. /\ should_exit' = should_exit /\ handler' = handler /\ died' = died
      /\ pc \in [Thread -> Pcs] /\ \E p \in Pcs : pc' = [pc EXCEPT ![t] = p]
    BY DEF CheckExit, EnterCall, BeforeCall, CheckBeforeWrite, CallReturns, ReadPart,
           ReadData, ReadEnds, WriteData, WriteFails, Goto, StopOrder, TypeOK, Pcs, Thread
<1>3. Phase' = Phase
    BY <1>2 DEF Phase
<1>4. CASE pc'[t] \in WritePcs <=> pc[t] \in WritePcs
  <2>1. \A u \in Thread : pc'[u] \in WritePcs <=> pc[u] \in WritePcs
    BY <1>2, <1>4
  <2> QED
    BY <1>2, <1>3, <2>1, UnseenStep
<1>5. CASE pc'[t] \in WritePcs /\ pc[t] \notin WritePcs
  <2>1. ~should_exit
    BY <1>5 DEF CheckExit, EnterCall, BeforeCall, CheckBeforeWrite, CallReturns, ReadPart,
           ReadData, ReadEnds, WriteData, WriteFails, Goto, StopOrder, TypeOK, WritePcs
  <2>2. Writes' = Writes
    BY <1>2, <2>1, Zenon DEF Writes
  <2> QED
    BY <1>3, <2>2 DEF S!vars
<1>6. CASE pc'[t] \notin WritePcs /\ pc[t] \in WritePcs /\ ~should_exit
  <2>1. Writes' = Writes
    BY <1>2, <1>6, Zenon DEF Writes
  <2> QED
    BY <1>3, <2>1 DEF S!vars
<1>7. CASE pc'[t] \notin WritePcs /\ pc[t] \in WritePcs /\ should_exit
  <2>1. Phase = "stopping"
    BY <1>1, <1>7, NotOver
  <2>2. Writes[t]
    BY <1>7 DEF Writes, WritePcs
  <2>3. Writes' = [Writes EXCEPT ![t] = FALSE]
    <3>1. \A u \in Thread : pc'[u] \in WritePcs <=> pc[u] \in WritePcs /\ u # t
      BY <1>2, <1>7
    <3>2. /\ Writes = [u \in Thread |-> pc[u] \in WritePcs]
          /\ Writes' = [u \in Thread |-> pc'[u] \in WritePcs]
      BY <1>2, <1>7 DEF Writes, WritePcs
    <3>3. [Writes EXCEPT ![t] = FALSE] =
            [u \in Thread |-> IF u = t THEN FALSE ELSE pc[u] \in WritePcs]
      BY <3>2, Zenon
    <3>4. \A u \in Thread :
            (pc'[u] \in WritePcs) = (IF u = t THEN FALSE ELSE pc[u] \in WritePcs)
      <4> SUFFICES ASSUME NEW u \in Thread
                   PROVE  (pc'[u] \in WritePcs) =
                              (IF u = t THEN FALSE ELSE pc[u] \in WritePcs)
        OBVIOUS
      <4>1. CASE u = t
        <5>1. (pc'[u] \in WritePcs) = FALSE
          BY <3>1, <4>1
        <5>2. (IF u = t THEN FALSE ELSE pc[u] \in WritePcs) = FALSE
          BY <4>1, Zenon
        <5> QED
          BY <5>1, <5>2, Zenon
      <4>2. CASE u # t
        <5>1. (pc'[u] \in WritePcs) = (pc[u] \in WritePcs)
          BY <3>1, <4>2
        <5>2. (IF u = t THEN FALSE ELSE pc[u] \in WritePcs) = (pc[u] \in WritePcs)
          BY <4>2, Zenon
        <5> QED
          BY <5>1, <5>2, Zenon
      <4> QED
        BY <4>1, <4>2
    <3> QED
      BY <3>2, <3>3, <3>4, Zenon
  <2> QED
    BY <1>3, <2>1, <2>2, <2>3 DEF S!Next, S!LastWrite
<1> QED
    BY <1>4, <1>5, <1>6, <1>7

\* stopForwarding: the first one to set the flag stops the session, and a signal may
\* be its death.
LEMMA StopRefines ==
    ASSUME ForwardingInv, NEW s \in Thread,
           SetFlag(s) \/ \E t \in Thread : TestHandle(s, t) \/ Signal(s, t)
    PROVE  [S!Next]_S!vars
<1> USE DEF ForwardingInv
<1>1. Running /\ pc[s] \notin {"none", "ended"} \cup WritePcs
    BY DEF SetFlag, TestHandle, Signal, TestPc, KillPc, WritePcs
<1>2. /\ handler' = handler
      /\ pc \in [Thread -> Pcs] /\ \E p \in Pcs \ WritePcs : pc' = [pc EXCEPT ![s] = p]
    BY DEF SetFlag, TestHandle, Signal, TestPc, KillPc, Goto, StopOrder, TypeOK, Pcs,
           Thread, WritePcs
<1>3. \A u \in Thread : pc'[u] \in WritePcs <=> pc[u] \in WritePcs
    BY <1>1, <1>2
<1>4. Phase = IF should_exit THEN "stopping" ELSE "open"
    BY <1>1, NotOver
<1>5. CASE SetFlag(s)
  <2>1. Phase' = "stopping" /\ should_exit'
    BY <1>1, <1>4, <1>5 DEF SetFlag, Phase
  <2>2. CASE should_exit
    BY <1>3, <1>4, <1>5, <2>1, <2>2, UnseenStep DEF SetFlag
  <2>3. CASE ~should_exit
    <3>1. Writes' \in [Thread -> BOOLEAN]
      <4>1. \A u \in Thread : (should_exit' => pc'[u] \in {"toWrite", "write"}) \in BOOLEAN
        OBVIOUS
      <4> QED
        BY <4>1, Zenon DEF Writes
    <3> QED
      BY <1>4, <2>1, <2>3, <3>1 DEF S!Next, S!Stop
  <2> QED
    BY <2>2, <2>3
<1>6. ASSUME NEW t \in Thread, TestHandle(s, t) \/ Signal(s, t) PROVE [S!Next]_S!vars
  <2>1. should_exit /\ should_exit' = should_exit
    BY <1>6 DEF TestHandle, Signal, TestPc, KillPc, FlagInv, StopPcs, TypeOK
  <2>2. CASE ~died'
    BY <1>1, <1>2, <1>3, <2>1, <2>2, UnseenStep DEF Phase, Running
  <2>3. CASE died'
    <3>1. Phase = "stopping" /\ Phase' = "dead"
      BY <1>4, <2>1, <2>3 DEF Phase
    <3>2. Writes' = Writes
      <4>1. \A u \in Thread : (should_exit' => pc'[u] \in {"toWrite", "write"})
                                = (should_exit => pc[u] \in {"toWrite", "write"})
        BY <1>3, <2>1 DEF WritePcs
      <4> QED
        BY <4>1, Zenon DEF Writes
    <3> QED
      BY <3>1, <3>2 DEF S!Next, S!Die
  <2>4. died' \in BOOLEAN
    BY <1>6 DEF TestHandle, Signal, TypeOK
  <2> QED
    BY <2>2, <2>3, <2>4
<1> QED
    BY <1>5, <1>6

\* A session refines what Session promises: whichever thread stops and whenever the
\* other notices, each writes at most once more, and descriptors and signal are given
\* back when neither will (proxyHandler.cpp 96-140, 208-220).
THEOREM SessionRefined == Spec => StopsInOrder
<1>1. Init => S!Init
  <2> SUFFICES ASSUME Init PROVE S!Init
    OBVIOUS
  <2>1. Phase = "open" /\ ~should_exit
    BY DEF Init, Phase
  <2>2. Writes = [t \in Thread |-> TRUE]
    BY <2>1, Zenon DEF Writes
  <2> QED
    BY <2>1, <2>2 DEF S!Init
<1>2. ForwardingInv /\ [Next]_vars => [S!Next]_S!vars
  <2> SUFFICES ASSUME ForwardingInv, [Next]_vars PROVE [S!Next]_S!vars
    OBVIOUS
  <2>1. CASE HandlerNext
    BY <2>1, HandlerRefines
  <2>2. ASSUME NEW t \in Thread, Step(t) \/ CallReturns(t) PROVE [S!Next]_S!vars
    BY <2>2, LoopRefines, StopRefines DEF Step
  <2>3. ASSUME NEW l \in Link, LinkDown(l) PROVE [S!Next]_S!vars
    BY <2>3 DEF LinkDown, S!vars, Phase, Writes
  <2>4. CASE UNCHANGED vars
    BY <2>4 DEF vars, S!vars, Phase, Writes
  <2> QED
    BY <2>1, <2>2, <2>3, <2>4 DEF Next
<1> QED
    BY <1>1, <1>2, ForwardingInvariant, PTL DEF Spec, StopsInOrder, S!Spec
=============================================================================
