-------------------------- MODULE GadgetSwitchProofs --------------------------
(***************************************************************************)
(* GadgetInv of GadgetSwitch is inductive, for every length of the list of *)
(* handlers and of the queue of uevents, and the safety properties follow. *)
(***************************************************************************)
EXTENDS GadgetSwitch, SequenceTheorems, TLAPS

-----------------------------------------------------------------------------
(* The list of handlers *)

\* Taking one element out of a sequence.
LEMMA RemoveFacts ==
    ASSUME NEW S, NEW s \in Seq(S), NEW i \in 1 .. Len(s)
    PROVE  /\ RemoveAt(s, i) \in Seq(S)
           /\ Len(RemoveAt(s, i)) = Len(s) - 1
           /\ \A j \in 1 .. Len(s) - 1 :
                RemoveAt(s, i)[j] = IF j < i THEN s[j] ELSE s[j + 1]
<1> DEFINE a == SubSeq(s, 1, i - 1)
           b == SubSeq(s, i + 1, Len(s))
<1>1. Len(s) \in Nat /\ i \in Nat
    OBVIOUS
<1>2. /\ a \in Seq(S) /\ Len(a) = i - 1
      /\ \A j \in 1 .. i - 1 : a[j] = s[j]
    BY <1>1
<1>3. /\ b \in Seq(S) /\ Len(b) = Len(s) - i
      /\ \A j \in 1 .. Len(s) - i : b[j] = s[i + j]
    BY <1>1
<1>4. RemoveAt(s, i) = a \o b
    BY DEF RemoveAt
<1> HIDE DEF a, b
<1>5. /\ a \o b \in Seq(S) /\ Len(a \o b) = Len(a) + Len(b)
      /\ \A j \in 1 .. Len(a) + Len(b) :
           (a \o b)[j] = IF j <= Len(a) THEN a[j] ELSE b[j - Len(a)]
    BY <1>2, <1>3, ConcatProperties
<1>6. ASSUME NEW j \in 1 .. Len(s) - 1
      PROVE  (a \o b)[j] = IF j < i THEN s[j] ELSE s[j + 1]
  <2>1. CASE j < i
    BY <1>1, <1>2, <1>3, <1>5, <2>1
  <2>2. CASE ~(j < i)
    <3>1. (a \o b)[j] = b[j - (i - 1)]
      BY <1>1, <1>2, <1>3, <1>5, <2>2
    <3>2. j - (i - 1) \in 1 .. Len(s) - i
      BY <1>1, <2>2
    <3>3. b[j - (i - 1)] = s[i + (j - (i - 1))]
      BY <1>3, <3>2
    <3>4. i + (j - (i - 1)) = j + 1
      BY <1>1
    <3> QED
      BY <2>2, <3>1, <3>3, <3>4
  <2> QED
    BY <2>1, <2>2
<1> QED
    BY <1>1, <1>2, <1>3, <1>4, <1>5, <1>6

\* Marking a handler.
LEMMA HandlerFacts ==
    ASSUME NEW x \in Handler
    PROVE  /\ [x EXCEPT !.live = FALSE] \in Handler
           /\ [x EXCEPT !.called = FALSE] \in Handler
           /\ [x EXCEPT !.called = TRUE] \in Handler
           /\ [live |-> TRUE, called |-> TRUE] \in Handler
    BY DEF Handler

\* Marking all elements of a list of handlers.
LEMMA MarkFacts ==
    ASSUME NEW h \in Seq(Handler), NEW g,
           g = [i \in DOMAIN h |-> [h[i] EXCEPT !.live = FALSE]]
             \/ g = [i \in DOMAIN h |-> [h[i] EXCEPT !.called = FALSE]]
    PROVE  g \in Seq(Handler) /\ Len(g) = Len(h)
<1>1. Len(h) \in Nat /\ DOMAIN h = 1 .. Len(h)
    OBVIOUS
<1>2. ASSUME NEW i \in 1 .. Len(h)
      PROVE  /\ [h[i] EXCEPT !.live = FALSE] \in Handler
             /\ [h[i] EXCEPT !.called = FALSE] \in Handler
  <2>1. h[i] \in Handler
    BY <1>1
  <2> QED
    BY <2>1, HandlerFacts
<1>3. g \in [1 .. Len(h) -> Handler]
    BY <1>1, <1>2
<1> QED
    BY <1>1, <1>3

-----------------------------------------------------------------------------
(* Types *)

\* The initial states satisfy the invariant.
LEMMA InitGadgetInv == Init => GadgetInv
<1> SUFFICES ASSUME Init PROVE GadgetInv
    OBVIOUS
<1>1. <<>> \in Seq(Handler) /\ <<>> \in Seq(Uevents) /\ Len(<<>>) = 0
    OBVIOUS
<1>2. 0 \in 0 .. MaxSpoiled
    BY DEF MaxSpoiled
<1>3. Len(handlers) = 0 /\ Len(queue) = 0 /\ it = 1
    BY <1>1 DEF Init
<1>4. it \in 1 .. Len(handlers) + 1 /\ Len(handlers) <= MaxHandlers /\ Len(queue) <= MaxQueue
    BY <1>3, GadgetAssumption
<1>5. TypeOK
    BY <1>1, <1>2, <1>4 DEF Init, TypeOK, ClientPcs, MonPcs, Uevents, Gadgets
<1> QED
    BY <1>3, <1>5 DEF Init, GadgetInv, FulfilledOnce, HandlerInv, ControllerInv, WaitInv,
                SpoiledInv, Quiet, Switching

\* A new process does too, on the controller it finds.
LEMMA RestartKeepsInv == GadgetInv /\ Restart => GadgetInv'
<1> SUFFICES ASSUME GadgetInv, Restart PROVE GadgetInv'
    OBVIOUS
<1>1. <<>> \in Seq(Handler) /\ <<>> \in Seq(Uevents) /\ Len(<<>>) = 0
    OBVIOUS
<1>2. 0 \in 0 .. MaxSpoiled
    BY DEF MaxSpoiled
<1>3. Len(handlers') = 0 /\ Len(queue') = 0 /\ it' = 1
    BY <1>1 DEF Restart, Boot
<1>4. it' \in 1 .. Len(handlers') + 1 /\ Len(handlers') <= MaxHandlers /\ Len(queue') <= MaxQueue
    BY <1>3, GadgetAssumption
<1>5. TypeOK'
    BY <1>1, <1>2, <1>4
    DEF GadgetInv, Restart, Boot, TypeOK, ClientPcs, MonPcs, Uevents
<1> QED
    BY <1>3, <1>5 DEF Restart, Boot, GadgetInv, FulfilledOnce, HandlerInv, ControllerInv,
                WaitInv, SpoiledInv, Quiet, Switching

\* The client keeps the types.
LEMMA ClientKeepsType == GadgetInv /\ ClientNext => TypeOK'
<1> SUFFICES ASSUME GadgetInv, ClientNext PROVE TypeOK'
    OBVIOUS
<1> USE GadgetAssumption DEF GadgetInv, clientVars, monVars
<1>1. CASE BeginWait
    BY <1>1 DEF BeginWait, TypeOK, ClientPcs
<1>2. CASE RoundWithoutPhone
    BY <1>2 DEF RoundWithoutPhone, TypeOK, ClientPcs
<1>3. CASE AddHandler
  <2>1. queue' \in Seq(Uevents) /\ Len(queue') = Len(queue)
    <3>1. queue' = [i \in DOMAIN queue |-> Aged(queue[i])]
      BY <1>3 DEF AddHandler
    <3>2. Len(queue) \in Nat /\ DOMAIN queue = 1 .. Len(queue)
      BY DEF TypeOK
    <3>3. \A i \in 1 .. Len(queue) : Aged(queue[i]) \in Uevents
      BY DEF TypeOK, Aged, Uevents
    <3>4. queue' \in [1 .. Len(queue) -> Uevents]
      BY <3>1, <3>2, <3>3
    <3> QED
      BY <3>2, <3>4
  <2>2. ev' \in Uevents
    BY <1>3 DEF AddHandler, TypeOK, Aged, Uevents
  <2>3. handlers' = handlers \/ handlers' = Append(handlers, [live |-> TRUE, called |-> TRUE])
    BY <1>3 DEF AddHandler, AppendHandler
  <2>4. /\ handlers' \in Seq(Handler)
        /\ Len(handlers') \in {Len(handlers), Len(handlers) + 1}
        /\ Len(handlers) \in Nat
    <3> DEFINE new == [live |-> TRUE, called |-> TRUE]
    <3>1. handlers \in Seq(Handler) /\ Len(handlers) \in Nat
      BY DEF TypeOK
    <3>2. new \in Handler
      BY DEF Handler
    <3> HIDE DEF new
    <3>3. Append(handlers, new) \in Seq(Handler) /\ Len(Append(handlers, new)) = Len(handlers) + 1
      BY <3>1, <3>2, AppendProperties
    <3> QED
      BY <2>3, <3>1, <3>3 DEF new
  <2>5. Len(handlers) < MaxHandlers
    BY <1>3 DEF AddHandler, HandlerInv
  <2>6. client' = "enable" /\ ready' = FALSE /\ died' \in {"no", "list_race"}
        /\ UNCHANGED <<strategy, mon, it, held, udc, spoiled>>
    BY <1>3 DEF AddHandler
  <2>7. Len(handlers') <= MaxHandlers /\ it' \in 1 .. Len(handlers') + 1
        /\ (mon' \in {"unbind", "bind", "fulfil", "erase"} => it' <= Len(handlers'))
    BY <2>4, <2>5, <2>6 DEF TypeOK
  <2> QED
    BY <2>1, <2>2, <2>4, <2>6, <2>7 DEF TypeOK, ClientPcs
<1>4. CASE EnableDefault
    BY <1>4 DEF EnableDefault, Bind, TypeOK, ClientPcs, MaxSpoiled, Gadgets
<1>5. ASSUME NEW to \in {"session", "disableDefault"}, LeaveWait(to) PROVE TypeOK'
  <2>1. handlers' \in Seq(Handler) /\ Len(handlers') = Len(handlers)
    BY <1>5, MarkFacts DEF LeaveWait, TypeOK
  <2>2. held' \in {"none", "current", "old"}
    BY <1>5 DEF LeaveWait, TypeOK
  <2> QED
    BY <1>5, <2>1, <2>2 DEF LeaveWait, TypeOK, ClientPcs
<1>6. CASE EndSession
    BY <1>6 DEF EndSession, TypeOK, ClientPcs
<1>7. CASE DisableDefault
    BY <1>7 DEF DisableDefault, Unbind, TypeOK, ClientPcs
<1>8. CASE DisableAccessory
    BY <1>8 DEF DisableAccessory, Unbind, AfterRound, TypeOK, ClientPcs
<1>9. CASE Pause
    BY <1>9 DEF Pause, TypeOK, ClientPcs
<1> QED
    BY <1>1, <1>2, <1>3, <1>4, <1>5, <1>6, <1>7, <1>8, <1>9
    DEF ClientNext, AccessoryArrived, WaitTimesOut

\* The monitor, which is on a node of the list whenever it needs one, and the kernel
\* do too.
LEMMA MonKeepsType == GadgetInv /\ (MonNext \/ SendStart \/ SendOther) => TypeOK'
<1> SUFFICES ASSUME GadgetInv, MonNext \/ SendStart \/ SendOther PROVE TypeOK'
    OBVIOUS
<1> USE GadgetAssumption DEF GadgetInv, clientVars, monVars
<1>1. CASE SendStart \/ SendOther
  <2>1. PICK e \in Uevents : queue' = Append(queue, e) /\ Len(queue) < MaxQueue
    BY <1>1 DEF SendStart, SendOther, Uevents
  <2>2. queue' \in Seq(Uevents) /\ Len(queue') <= MaxQueue
    BY <2>1 DEF TypeOK
  <2> QED
    BY <1>1, <2>2 DEF SendStart, SendOther, TypeOK
<1>2. CASE ReadUevent
  <2>1. ev' \in Uevents /\ queue' \in Seq(Uevents) /\ Len(queue') <= MaxQueue
    BY <1>2, HeadTailProperties DEF ReadUevent, TypeOK
  <2>2. handlers' \in Seq(Handler) /\ Len(handlers') = Len(handlers)
    BY <1>2, MarkFacts DEF ReadUevent, TypeOK
  <2> QED
    BY <1>2, <2>1, <2>2 DEF ReadUevent, TypeOK, MonPcs
<1>3. CASE EndOfHandlers
    BY <1>3 DEF EndOfHandlers, TypeOK, MonPcs
<1>4. CASE CallHandler
  <2>1. handlers' \in Seq(Handler) /\ Len(handlers') = Len(handlers)
    <3>1. it \in 1 .. Len(handlers) /\ handlers \in Seq(Handler) /\ handlers[it] \in Handler
      BY <1>4 DEF CallHandler, TypeOK
    <3> DEFINE new == [handlers[it] EXCEPT !.called = TRUE]
    <3>2. new \in Handler
      BY <3>1, HandlerFacts
    <3>3. handlers' = [handlers EXCEPT ![it] = new]
      BY <1>4 DEF CallHandler
    <3> HIDE DEF new
    <3> QED
      BY <3>1, <3>2, <3>3
  <2>2. mon = "iter" /\ it <= Len(handlers)
        /\ UNCHANGED <<strategy, clientVars, queue, ev, udc, spoiled, died>>
    BY <1>4 DEF CallHandler
  <2>3. \/ mon' = "erase" /\ it' = it /\ held' = held
        \/ it' = it + 1 /\ mon' = mon /\ held' = held
        \/ held' = "current" /\ mon' = "unbind" /\ it' = it
    BY <1>4 DEF CallHandler
  <2> QED
    BY <2>1, <2>2, <2>3 DEF TypeOK, MonPcs
<1>5. CASE UnbindDefault
    BY <1>5 DEF UnbindDefault, Unbind, TypeOK, MonPcs
<1>6. CASE BindAccessory
    BY <1>6 DEF BindAccessory, Bind, TypeOK, MonPcs, Gadgets
<1>7. CASE FulfilPromise
  <2>1. /\ mon = "fulfil" /\ mon' \in {"fulfil", "erase"} /\ held' = "none"
        /\ died' \in {"double_set", died}
        /\ UNCHANGED <<strategy, client, handlers, queue, it, ev, udc, spoiled>>
    BY <1>7 DEF FulfilPromise
  <2>2. ready' \in BOOLEAN
    BY <1>7 DEF FulfilPromise, TypeOK
  <2> QED
    BY <2>1, <2>2 DEF TypeOK, MonPcs
<1>8. CASE EraseHandler
  <2>1. it \in 1 .. Len(handlers) /\ Len(handlers) \in Nat
    BY <1>8 DEF EraseHandler, TypeOK
  <2>2. handlers' \in Seq(Handler) /\ Len(handlers') = Len(handlers) - 1
    BY <1>8, <2>1, RemoveFacts DEF EraseHandler, TypeOK
  <2>3. it' \in 1 .. Len(handlers') + 1
    BY <1>8, <2>1, <2>2 DEF EraseHandler
  <2> QED
    BY <1>8, <2>1, <2>2, <2>3 DEF EraseHandler, TypeOK, MonPcs
<1> QED
    BY <1>1, <1>2, <1>3, <1>4, <1>5, <1>6, <1>7, <1>8 DEF MonNext

-----------------------------------------------------------------------------
(* The handlers *)

\* Whose wait is on, after a step that changes no handler but perhaps marks it called.
LEMMA SameLive ==
    ASSUME TypeOK, HandlerInv, NEW h \in Seq(Handler), Len(h) = Len(handlers),
           \A i \in 1 .. Len(handlers) : h[i].live = handlers[i].live
    PROVE  \A i \in DOMAIN h : h[i].live =>
              /\ i = Len(h) /\ client \in {"enable", "wait"}
              /\ ready => mon = "erase" /\ it = i
    BY DEF TypeOK, HandlerInv

\* The client keeps it: a wait adds its own handler, to a list in which none is live.
LEMMA ClientKeepsHandlers == GadgetInv /\ ClientNext => HandlerInv'
<1> SUFFICES ASSUME GadgetInv, ClientNext PROVE HandlerInv'
    OBVIOUS
<1> USE DEF GadgetInv, clientVars, monVars
<1>1. CASE BeginWait
    BY <1>1 DEF BeginWait, HandlerInv, Switching
<1>2. CASE RoundWithoutPhone
    BY <1>2 DEF RoundWithoutPhone, HandlerInv, Switching
<1>3. CASE AddHandler
  <2>1. client = "add" /\ client' = "enable" /\ ready' = FALSE /\ UNCHANGED <<mon, it, held>>
    BY <1>3 DEF AddHandler
  <2>2. handlers' = handlers \/ handlers' = Append(handlers, [live |-> TRUE, called |-> TRUE])
    BY <1>3 DEF AddHandler, AppendHandler
  <2>3. \A i \in DOMAIN handlers : ~handlers[i].live
    BY <2>1 DEF HandlerInv
  <2>4. handlers \in Seq(Handler) /\ Len(handlers) \in Nat
    BY DEF TypeOK
  <2>5. \A i \in DOMAIN handlers' : handlers'[i].live => i = Len(handlers')
    <3>1. CASE handlers' = handlers
      BY <2>3, <3>1
    <3>2. CASE handlers' = Append(handlers, [live |-> TRUE, called |-> TRUE])
      <4> DEFINE new == [live |-> TRUE, called |-> TRUE]
      <4>1. new \in Handler
        BY HandlerFacts DEF Handler
      <4> HIDE DEF new
      <4>2. /\ Append(handlers, new) \in Seq(Handler)
            /\ Len(Append(handlers, new)) = Len(handlers) + 1
            /\ \A i \in 1 .. Len(handlers) : Append(handlers, new)[i] = handlers[i]
        BY <2>4, <4>1, AppendProperties
      <4>3. handlers' = Append(handlers, new)
        BY <3>2 DEF new
      <4> QED
        BY <2>3, <2>4, <4>2, <4>3
    <3> QED
      BY <2>2, <3>1, <3>2
  <2>6. held # "current"
    BY <2>1 DEF HandlerInv
  <2> QED
    BY <2>1, <2>5, <2>6 DEF HandlerInv, Switching
<1>4. CASE EnableDefault
    BY <1>4 DEF EnableDefault, HandlerInv, Switching
<1>5. ASSUME NEW to \in {"session", "disableDefault"}, LeaveWait(to) PROVE HandlerInv'
  <2>1. handlers \in Seq(Handler)
    BY DEF TypeOK
  <2>2. handlers' = [i \in DOMAIN handlers |-> [handlers[i] EXCEPT !.live = FALSE]]
    BY <1>5 DEF LeaveWait
  <2>3. \A i \in DOMAIN handlers' : handlers'[i].live = FALSE
    <3> SUFFICES ASSUME NEW i \in DOMAIN handlers PROVE [handlers[i] EXCEPT !.live = FALSE].live = FALSE
      BY <2>2
    <3>1. handlers[i] \in Handler
      BY <2>1
    <3> QED
      BY <3>1 DEF Handler
  <2>4. held' = (IF held = "current" THEN "old" ELSE held) /\ UNCHANGED mon /\ client' = to
    BY <1>5 DEF LeaveWait
  <2>5. held' # "current" /\ (held' = "none" <=> held = "none")
    BY <2>4
  <2> QED
    BY <2>3, <2>4, <2>5 DEF HandlerInv, Switching
<1>6. CASE EndSession
    BY <1>6 DEF EndSession, HandlerInv, Switching
<1>7. CASE DisableDefault
    BY <1>7 DEF DisableDefault, HandlerInv, Switching
<1>8. CASE DisableAccessory
    BY <1>8 DEF DisableAccessory, AfterRound, HandlerInv, Switching
<1>9. CASE Pause
    BY <1>9 DEF Pause, HandlerInv, Switching
<1> QED
    BY <1>1, <1>2, <1>3, <1>4, <1>5, <1>6, <1>7, <1>8, <1>9
    DEF ClientNext, AccessoryArrived, WaitTimesOut

\* The monitor keeps it, and never fulfils a promise twice: the handler that has done
\* so is erased before the next is called.
LEMMA MonKeepsHandlers ==
    GadgetInv /\ (MonNext \/ SendStart \/ SendOther) => HandlerInv' /\ FulfilledOnce'
<1> SUFFICES ASSUME GadgetInv, MonNext \/ SendStart \/ SendOther
             PROVE  HandlerInv' /\ FulfilledOnce'
    OBVIOUS
<1> USE DEF GadgetInv, clientVars, monVars
<1>1. CASE SendStart \/ SendOther
    BY <1>1 DEF SendStart, SendOther, HandlerInv, FulfilledOnce, Switching
<1>2. CASE ReadUevent
  <2>1. handlers \in Seq(Handler)
    BY DEF TypeOK
  <2>2. handlers' = [i \in DOMAIN handlers |-> [handlers[i] EXCEPT !.called = FALSE]]
    BY <1>2 DEF ReadUevent
  <2>3. handlers' \in Seq(Handler) /\ Len(handlers') = Len(handlers)
    BY <2>1, <2>2, MarkFacts
  <2>4. ASSUME NEW i \in 1 .. Len(handlers) PROVE handlers'[i].live = handlers[i].live
    <3>1. handlers[i] \in Handler
      BY <2>1, <2>4
    <3> QED
      BY <2>1, <2>2, <3>1 DEF Handler
  <2>5. mon = "read" /\ mon' = "iter" /\ UNCHANGED <<client, ready, held, died>>
    BY <1>2 DEF ReadUevent
  <2>6. \A i \in DOMAIN handlers' : handlers'[i].live =>
            /\ i = Len(handlers') /\ client \in {"enable", "wait"} /\ ~ready
    BY <2>3, <2>4, <2>5, SameLive
  <2>7. held = "none"
    BY <2>5 DEF HandlerInv, Switching
  <2> QED
    BY <2>3, <2>5, <2>6, <2>7 DEF HandlerInv, FulfilledOnce, Switching
<1>3. CASE EndOfHandlers
    BY <1>3 DEF EndOfHandlers, HandlerInv, FulfilledOnce, Switching
<1>4. CASE CallHandler
  <2>1. /\ mon = "iter" /\ handlers' = [handlers EXCEPT ![it].called = TRUE]
        /\ UNCHANGED <<client, ready, died>>
    BY <1>4 DEF CallHandler
  <2>2. it \in 1 .. Len(handlers) /\ handlers \in Seq(Handler) /\ handlers[it] \in Handler
    BY <1>4 DEF CallHandler, TypeOK
  <2>3. handlers' \in Seq(Handler) /\ Len(handlers') = Len(handlers)
    <3> DEFINE new == [handlers[it] EXCEPT !.called = TRUE]
    <3>1. new \in Handler
      BY <2>2, HandlerFacts
    <3>2. handlers' = [handlers EXCEPT ![it] = new]
      BY <2>1
    <3> HIDE DEF new
    <3> QED
      BY <2>2, <3>1, <3>2
  <2>4. ASSUME NEW i \in 1 .. Len(handlers) PROVE handlers'[i].live = handlers[i].live
    <3>1. handlers[i] \in Handler
      BY <2>2, <2>4
    <3> QED
      BY <2>1, <2>2, <3>1 DEF Handler
  <2>5. held = "none"
    BY <2>1 DEF HandlerInv, Switching
  <2>6. \A i \in DOMAIN handlers' : handlers'[i].live =>
            /\ i = Len(handlers') /\ client \in {"enable", "wait"} /\ ~ready
    BY <2>1, <2>3, <2>4, SameLive
  <2>7. \/ mon' = "erase" /\ held' = held
        \/ mon' = mon /\ held' = held
        \/ held' = "current" /\ mon' = "unbind" /\ it' = it /\ handlers[it].live
    BY <1>4 DEF CallHandler
  <2>8. \/ held' = "none" /\ mon' \in {"iter", "erase"}
        \/ held' = "current" /\ mon' = "unbind" /\ handlers'[it'].live
    BY <2>1, <2>2, <2>4, <2>5, <2>7
  <2>9. held' = "current" => client \in {"enable", "wait"} /\ ~ready
    <3>1. held' = "current" => it' \in DOMAIN handlers' /\ handlers'[it'].live
      BY <2>2, <2>3, <2>5, <2>7, <2>8
    <3> QED
      BY <2>6, <3>1
  <2> QED
    BY <2>1, <2>3, <2>6, <2>8, <2>9 DEF HandlerInv, FulfilledOnce, Switching
<1>5. CASE UnbindDefault
    BY <1>5 DEF UnbindDefault, HandlerInv, FulfilledOnce, Switching
<1>6. CASE BindAccessory
    BY <1>6 DEF BindAccessory, HandlerInv, FulfilledOnce, Switching
<1>7. CASE FulfilPromise
  <2>1. ~(held = "current" /\ ready)
    BY DEF HandlerInv
  <2>2. /\ mon = "fulfil" /\ mon' = "erase" /\ held' = "none"
        /\ ready' = (ready \/ held = "current")
        /\ UNCHANGED <<client, handlers, it, died>>
    BY <1>7, <2>1 DEF FulfilPromise
  <2>3. \A i \in DOMAIN handlers : handlers[i].live =>
            i = Len(handlers) /\ client \in {"enable", "wait"} /\ ~ready
    BY <2>2 DEF HandlerInv
  <2>4. held = "current" => handlers[it].live /\ it \in DOMAIN handlers
    BY <2>2 DEF HandlerInv, TypeOK
  <2>5. ASSUME NEW i \in DOMAIN handlers, handlers[i].live, ready' PROVE it = i
    BY <2>2, <2>3, <2>4, <2>5
  <2> QED
    BY <2>2, <2>3, <2>5 DEF HandlerInv, FulfilledOnce, Switching
<1>8. CASE EraseHandler
  <2>1. it \in 1 .. Len(handlers) /\ Len(handlers) \in Nat /\ handlers \in Seq(Handler)
    BY <1>8 DEF EraseHandler, TypeOK
  <2>2. /\ handlers' \in Seq(Handler) /\ Len(handlers') = Len(handlers) - 1
        /\ \A j \in 1 .. Len(handlers) - 1 :
             handlers'[j] = IF j < it THEN handlers[j] ELSE handlers[j + 1]
    BY <1>8, <2>1, RemoveFacts DEF EraseHandler
  <2>3. mon = "erase" /\ mon' = "iter" /\ UNCHANGED <<client, ready, held, died>>
    BY <1>8 DEF EraseHandler
  <2>4. ASSUME NEW j \in DOMAIN handlers', handlers'[j].live
        PROVE  j = Len(handlers') /\ client \in {"enable", "wait"} /\ ~ready
    <3>1. j \in 1 .. Len(handlers) - 1
      BY <2>1, <2>2
    <3>2. CASE j < it
      <4>1. handlers[j].live /\ j \in DOMAIN handlers /\ j < Len(handlers)
        BY <2>1, <2>2, <2>4, <3>1, <3>2
      <4> QED
        BY <4>1 DEF HandlerInv
    <3>3. CASE ~(j < it)
      <4>1. handlers[j + 1].live /\ j + 1 \in DOMAIN handlers /\ it # j + 1
        BY <2>1, <2>2, <2>4, <3>1, <3>3
      <4>2. j + 1 = Len(handlers) /\ client \in {"enable", "wait"} /\ ~ready
        BY <4>1 DEF HandlerInv
      <4> QED
        BY <2>1, <2>2, <3>1, <4>2
    <3> QED
      BY <3>2, <3>3
  <2>5. held = "none"
    BY <2>3 DEF HandlerInv, Switching
  <2>6. client = "add" => Len(handlers') < MaxHandlers
    BY <2>1, <2>2, GadgetAssumption DEF HandlerInv
  <2> QED
    BY <2>3, <2>4, <2>5, <2>6 DEF HandlerInv, FulfilledOnce, Switching
<1> QED
    BY <1>1, <1>2, <1>3, <1>4, <1>5, <1>6, <1>7, <1>8 DEF MonNext

-----------------------------------------------------------------------------
(* The controller *)

\* No START is on its way after a step of the monitor if there was none before.
LEMMA MonKeepsQuiet == GadgetInv /\ Quiet /\ (MonNext \/ SendOther) => Quiet'
<1> SUFFICES ASSUME GadgetInv, Quiet, MonNext \/ SendOther PROVE Quiet'
    OBVIOUS
<1> USE DEF clientVars, monVars, Quiet, Switching
<1>1. CASE SendOther
  <2>1. queue \in Seq(Uevents) /\ "other" \in Uevents
    BY DEF GadgetInv, TypeOK, Uevents
  <2>2. queue' = Append(queue, "other") /\ UNCHANGED <<mon, ev>>
    BY <1>1 DEF SendOther
  <2> QED
    BY <2>1, <2>2, AppendProperties
<1>2. CASE ReadUevent
  <2>1. queue \in Seq(Uevents) /\ queue # <<>> /\ ev' = Head(queue) /\ queue' = Tail(queue)
    BY <1>2 DEF ReadUevent, GadgetInv, TypeOK
  <2>2. /\ Len(queue') = Len(queue) - 1
        /\ \A i \in 1 .. Len(queue') : queue'[i] = queue[i + 1]
        /\ queue' \in Seq(Uevents)
    BY <2>1, HeadTailProperties
  <2>3. Head(queue) = queue[1] /\ 1 \in DOMAIN queue
    BY <2>1
  <2>4. \A i \in DOMAIN queue' : queue'[i] = "other"
    BY <2>1, <2>2
  <2>5. mon' = "iter"
    BY <1>2 DEF ReadUevent
  <2> QED
    BY <2>1, <2>3, <2>4, <2>5
<1>3. CASE CallHandler
    BY <1>3 DEF CallHandler, IsStart
<1>4. CASE EndOfHandlers \/ EraseHandler
    BY <1>4 DEF EndOfHandlers, EraseHandler
<1> QED
    BY <1>1, <1>2, <1>3, <1>4 DEF MonNext, UnbindDefault, BindAccessory, FulfilPromise

\* What is in the queue after a step of the kernel or the monitor was there, or was
\* sent while the default gadget was bound.
LEMMA QueueFacts ==
    ASSUME TypeOK, MonNext \/ SendStart \/ SendOther
    PROVE  /\ \A i \in DOMAIN queue' :
                \/ \E j \in DOMAIN queue : queue'[i] = queue[j]
                \/ queue'[i] = "start" \/ queue'[i] = "other"
           /\ ev' = ev \/ \E j \in DOMAIN queue : ev' = queue[j]
<1> USE DEF clientVars, monVars
<1>1. queue \in Seq(Uevents)
    BY DEF TypeOK
<1>2. CASE SendStart \/ SendOther
  <2>1. PICK e \in {"start", "other"} : queue' = Append(queue, e) /\ ev' = ev
    BY <1>2 DEF SendStart, SendOther
  <2>2. e \in Uevents
    BY DEF Uevents
  <2> QED
    BY <1>1, <2>1, <2>2, AppendProperties
<1>3. CASE ReadUevent
  <2>1. queue # <<>> /\ ev' = Head(queue) /\ queue' = Tail(queue)
    BY <1>3 DEF ReadUevent
  <2>2. Head(queue) = queue[1] /\ 1 \in DOMAIN queue
    BY <1>1, <2>1
  <2>3. ASSUME NEW i \in DOMAIN queue' PROVE \E j \in DOMAIN queue : queue'[i] = queue[j]
    <3>1. queue'[i] = queue[i + 1] /\ i + 1 \in DOMAIN queue
      BY <1>1, <2>1, <2>3, HeadTailProperties
    <3> QED
      BY <3>1
  <2> QED
    BY <2>1, <2>2, <2>3
<1>4. CASE UNCHANGED <<queue, ev>>
    BY <1>4
<1> QED
    BY <1>2, <1>3, <1>4 DEF MonNext, EndOfHandlers, CallHandler, UnbindDefault,
        BindAccessory, FulfilPromise, EraseHandler

\* The kernel and the monitor keep what holds of the controller: between rounds
\* nothing moves it.
LEMMA MonKeepsController ==
    GadgetInv /\ (MonNext \/ SendStart \/ SendOther)
        => ControllerInv' /\ WaitInv' /\ SpoiledInv'
<1> SUFFICES ASSUME GadgetInv, MonNext \/ SendStart \/ SendOther
             PROVE  ControllerInv' /\ WaitInv' /\ SpoiledInv'
    OBVIOUS
<1>1. UNCHANGED <<strategy, client, spoiled>>
    BY DEF MonNext, SendStart, SendOther, ReadUevent, EndOfHandlers, CallHandler,
        UnbindDefault, BindAccessory, FulfilPromise, EraseHandler, clientVars, monVars
<1>2. udc' = udc \/ (Switching /\ udc' # "default")
    BY DEF MonNext, SendStart, SendOther, ReadUevent, EndOfHandlers, CallHandler,
        UnbindDefault, BindAccessory, FulfilPromise, EraseHandler, clientVars, monVars,
        Switching, Bind, Unbind, GadgetInv, TypeOK, Gadgets
<1>3. udc # "default" => udc' # "default"
    BY <1>2
<1>4. ready' = ready \/ Switching
    BY DEF MonNext, SendStart, SendOther, ReadUevent, EndOfHandlers, CallHandler,
        UnbindDefault, BindAccessory, FulfilPromise, EraseHandler, clientVars, monVars,
        Switching
<1>5. Quiet /\ udc # "default" => Quiet' /\ udc' = udc /\ ready' = ready
  <2>1. SendStart => udc = "default"
    BY DEF SendStart
  <2> QED
    BY <1>2, <1>4, <2>1, MonKeepsQuiet DEF Quiet
<1>6. ControllerInv'
    BY <1>1, <1>3, <1>5 DEF GadgetInv, ControllerInv
<1>7. SpoiledInv'
    BY <1>1, <1>3, <1>5 DEF GadgetInv, SpoiledInv
<1>8. WaitInv'
  <2> SUFFICES ASSUME strategy # "DONGLE_MODE", client \in {"wait", "session"}
               PROVE  /\ \A i \in DOMAIN queue' : queue'[i] # "stale"
                      /\ mon' \in {"iter", "erase"} => ev' # "stale"
                      /\ Switching' => held' = "current" /\ ev' = "start"
                      /\ client = "wait" /\ (mon' \in {"bind", "fulfil"} \/ ready')
                           => udc' # "default"
                      /\ client = "session" => udc' # "default"
    BY <1>1 DEF WaitInv
  <2>1. /\ \A i \in DOMAIN queue : queue[i] # "stale"
        /\ mon \in {"iter", "erase"} => ev # "stale"
        /\ Switching => held = "current" /\ ev = "start"
        /\ client = "wait" /\ (mon \in {"bind", "fulfil"} \/ ready) => udc # "default"
        /\ client = "session" => udc # "default"
    BY DEF GadgetInv, WaitInv
  <2>2. \A i \in DOMAIN queue' : queue'[i] # "stale"
    BY <2>1, QueueFacts DEF GadgetInv
  <2>3. mon' \in {"iter", "erase"} => ev' # "stale"
    <3>1. CASE ReadUevent
      <4>1. ev' = Head(queue) /\ queue # <<>> /\ queue \in Seq(Uevents)
        BY <3>1 DEF ReadUevent, GadgetInv, TypeOK
      <4>2. ev' = queue[1] /\ 1 \in DOMAIN queue
        BY <4>1
      <4> QED
        BY <2>1, <4>2
    <3>2. CASE ~ReadUevent
      <4>1. ev' = ev /\ (mon' \in {"iter", "erase"} => mon \in {"iter", "erase", "fulfil"})
        BY <3>2 DEF MonNext, SendStart, SendOther, EndOfHandlers, CallHandler,
            UnbindDefault, BindAccessory, FulfilPromise, EraseHandler, clientVars, monVars
      <4> QED
        BY <2>1, <4>1 DEF Switching
    <3> QED
      BY <3>1, <3>2
  <2>4. Switching' => held' = "current" /\ ev' = "start"
    <3>1. CASE CallHandler
      <4>1. mon = "iter" /\ ev' = ev /\ (Switching' => held' = "current" /\ IsStart(ev))
        BY <3>1 DEF CallHandler, Switching
      <4> QED
        BY <2>1, <4>1 DEF IsStart
    <3>2. CASE ~CallHandler
      <4>1. Switching' => Switching /\ (held' = held /\ ev' = ev)
        <5>1. CASE FulfilPromise
          <6>1. FulfilledOnce' /\ FulfilledOnce
            BY MonKeepsHandlers DEF GadgetInv
          <6>2. ~Switching'
            BY <5>1, <6>1 DEF FulfilPromise, FulfilledOnce, Switching
          <6> QED
            BY <6>2
        <5>2. CASE ~FulfilPromise
          BY <3>2, <5>2 DEF MonNext, SendStart, SendOther, ReadUevent, EndOfHandlers,
              UnbindDefault, BindAccessory, EraseHandler, clientVars, monVars, Switching
        <5> QED
          BY <5>1, <5>2
      <4> QED
        BY <2>1, <4>1
    <3> QED
      BY <3>1, <3>2
  <2>5. client = "wait" /\ (mon' \in {"bind", "fulfil"} \/ ready') => udc' # "default"
    <3>1. CASE UnbindDefault
      BY <3>1 DEF UnbindDefault, Unbind
    <3>2. CASE ~UnbindDefault
      <4>1. mon' \in {"bind", "fulfil"} => mon \in {"bind", "fulfil"}
        BY <3>2 DEF MonNext, SendStart, SendOther, ReadUevent, EndOfHandlers, CallHandler,
            BindAccessory, FulfilPromise, EraseHandler, clientVars, monVars
      <4>2. ready' => ready \/ mon = "fulfil"
        BY <3>2 DEF MonNext, SendStart, SendOther, ReadUevent, EndOfHandlers, CallHandler,
            BindAccessory, FulfilPromise, EraseHandler, clientVars, monVars
      <4> QED
        BY <1>3, <2>1, <4>1, <4>2
    <3> QED
      BY <3>1, <3>2
  <2> QED
    BY <1>3, <2>1, <2>2, <2>3, <2>4, <2>5
<1> QED
    BY <1>6, <1>7, <1>8

\* What the client does to the queue: it marks old what is in it.
LEMMA ClientKeepsQuiet == GadgetInv /\ Quiet /\ ClientNext => Quiet'
<1> SUFFICES ASSUME GadgetInv, Quiet, ClientNext PROVE Quiet'
    OBVIOUS
<1>1. CASE AddHandler
  <2>1. queue' = [i \in DOMAIN queue |-> Aged(queue[i])] /\ ev' = Aged(ev) /\ UNCHANGED mon
    BY <1>1 DEF AddHandler
  <2>2. \A i \in DOMAIN queue' : queue'[i] = "other"
    BY <2>1 DEF Quiet, Aged
  <2> QED
    BY <2>1, <2>2 DEF Quiet, Switching, Aged
<1>2. CASE ~AddHandler
  <2>1. UNCHANGED <<queue, mon, ev>>
    BY <1>2 DEF ClientNext, BeginWait, RoundWithoutPhone, EnableDefault, AccessoryArrived,
        WaitTimesOut, LeaveWait, EndSession, DisableDefault, DisableAccessory, Pause,
        monVars
  <2> QED
    BY <2>1 DEF Quiet, Switching
<1> QED
    BY <1>1, <1>2

\* The client keeps what holds of the controller.
LEMMA ClientKeepsController ==
    GadgetInv /\ ClientNext => ControllerInv' /\ WaitInv' /\ SpoiledInv'
<1> SUFFICES ASSUME GadgetInv, ClientNext PROVE ControllerInv' /\ WaitInv' /\ SpoiledInv'
    OBVIOUS
<1>1. strategy' = strategy
    BY DEF ClientNext, BeginWait, RoundWithoutPhone, AddHandler, EnableDefault,
        AccessoryArrived, WaitTimesOut, LeaveWait, EndSession, DisableDefault,
        DisableAccessory, Pause
<1>2. Quiet => Quiet'
    BY ClientKeepsQuiet
<1> USE DEF GadgetInv
<1>3. CASE BeginWait
  <2>1. client = "idle" /\ client' = "add" /\ UNCHANGED <<udc, spoiled>>
    BY <1>3 DEF BeginWait
  <2> QED
    BY <1>1, <1>2, <2>1 DEF ControllerInv, WaitInv, SpoiledInv
<1>4. CASE RoundWithoutPhone \/ EndSession
  <2>1. /\ client \in {"idle", "session"} /\ client' = "disableDefault"
        /\ UNCHANGED <<udc, spoiled>>
    BY <1>4 DEF RoundWithoutPhone, EndSession
  <2> QED
    BY <1>1, <1>2, <2>1 DEF ControllerInv, WaitInv, SpoiledInv
<1>5. CASE AddHandler
  <2>1. client = "add" /\ client' = "enable" /\ ready' = FALSE /\ UNCHANGED <<udc, spoiled>>
    BY <1>5 DEF AddHandler
  <2> QED
    BY <1>1, <1>2, <2>1 DEF ControllerInv, WaitInv, SpoiledInv
<1>6. CASE EnableDefault
  <2>1. client = "enable" /\ client' = "wait" /\ UNCHANGED <<ready, queue, mon, ev, held>>
    BY <1>6 DEF EnableDefault, monVars
  <2>2. ControllerInv'
    BY <2>1 DEF ControllerInv
  <2>3. strategy # "DONGLE_MODE" => Quiet /\ ~ready /\ udc # "default"
    BY <2>1 DEF ControllerInv
  <2>4. WaitInv'
    BY <1>1, <2>1, <2>3 DEF WaitInv, Quiet, Switching
  <2>5. strategy # "DONGLE_MODE" /\ spoiled' > 0 => spoiled' = 1 /\ udc' # "default"
    <3> SUFFICES ASSUME strategy # "DONGLE_MODE", spoiled' > 0
                 PROVE  spoiled' = 1 /\ udc' # "default"
      OBVIOUS
    <3>1. udc = "accessory"
      BY <1>6 DEF EnableDefault
    <3>2. udc' = udc
      BY <1>6, <3>1 DEF EnableDefault, Bind
    <3>3. spoiled = 0
      BY <2>1, <3>1 DEF SpoiledInv, TypeOK
    <3>4. spoiled' = 1
      BY <1>6, <3>1, <3>3 DEF EnableDefault, MaxSpoiled
    <3> QED
      BY <3>1, <3>2, <3>4
  <2>6. SpoiledInv'
    BY <1>1, <1>2, <2>1, <2>3, <2>5 DEF SpoiledInv
  <2> QED
    BY <2>2, <2>4, <2>6
<1>7. CASE AccessoryArrived
  <2>1. /\ client = "wait" /\ ready /\ client' = "session"
        /\ UNCHANGED <<ready, queue, mon, ev, udc, spoiled>>
    BY <1>7 DEF AccessoryArrived, LeaveWait
  <2>2. strategy # "DONGLE_MODE" => ~Switching
    BY <2>1 DEF WaitInv, HandlerInv
  <2>3. strategy # "DONGLE_MODE" => udc # "default"
    BY <2>1 DEF WaitInv
  <2>4. WaitInv'
    BY <1>1, <2>1, <2>2, <2>3 DEF WaitInv, Switching
  <2> QED
    BY <1>1, <1>2, <2>1, <2>4 DEF ControllerInv, SpoiledInv
<1>8. CASE WaitTimesOut
  <2>1. client' = "disableDefault" /\ UNCHANGED <<udc, spoiled>>
    BY <1>8 DEF WaitTimesOut, LeaveWait
  <2> QED
    BY <1>1, <1>2, <2>1 DEF ControllerInv, WaitInv, SpoiledInv
<1>9. CASE DisableDefault
  <2>1. /\ client' = "disableAccessory" /\ udc' # "default" /\ UNCHANGED spoiled
    BY <1>9 DEF DisableDefault, Unbind
  <2> QED
    BY <1>1, <1>2, <2>1 DEF ControllerInv, WaitInv, SpoiledInv
<1>10. CASE DisableAccessory
  <2>1. /\ client = "disableAccessory" /\ client' = AfterRound /\ UNCHANGED spoiled
        /\ udc' \in {udc, "none"} /\ udc' # "accessory"
    BY <1>10 DEF DisableAccessory, Unbind
  <2>2. udc' = "none"
    BY <2>1 DEF ControllerInv, TypeOK, Gadgets
  <2>3. client' \in {"idle", "pause"} /\ (strategy # "DONGLE_MODE" => client' = "pause")
    BY <2>1 DEF AfterRound
  <2> QED
    BY <1>1, <1>2, <2>1, <2>2, <2>3 DEF ControllerInv, WaitInv, SpoiledInv
<1>11. CASE Pause
  <2>1. /\ client = "pause" /\ client' = "idle" /\ queue = <<>>
        /\ mon \in {"read", "absent"} /\ UNCHANGED <<udc, spoiled, queue, mon>>
    BY <1>11 DEF Pause, monVars
  <2>2. Quiet'
    BY <2>1 DEF Quiet, Switching
  <2> QED
    BY <1>1, <2>1, <2>2 DEF ControllerInv, WaitInv, SpoiledInv
<1> QED
    BY <1>3, <1>4, <1>5, <1>6, <1>7, <1>8, <1>9, <1>10, <1>11 DEF ClientNext

-----------------------------------------------------------------------------
(* The theorems *)

\* A crash of the process and a step that changes nothing keep it.
LEMMA CrashKeepsGadgetInv == GadgetInv /\ (Crash \/ UNCHANGED vars) => GadgetInv'
<1> SUFFICES ASSUME GadgetInv, Crash \/ UNCHANGED vars PROVE GadgetInv'
    OBVIOUS
<1>1. /\ UNCHANGED <<strategy, client, ready, handlers, queue, mon, it, ev, held, udc,
                     spoiled>>
      /\ died' \in {died, "crash"}
    BY DEF Crash, vars, clientVars, monVars
<1>2. TypeOK' /\ FulfilledOnce'
    BY <1>1 DEF GadgetInv, TypeOK, FulfilledOnce
<1> QED
    BY <1>1, <1>2 DEF GadgetInv, HandlerInv, ControllerInv, WaitInv, SpoiledInv, Quiet,
                      Switching

\* GadgetInv holds in every state: the one live handler, what the monitor may be doing
\* for whom, and what is bound between rounds.
THEOREM GadgetInvariant == Spec => []GadgetInv
<1>1. GadgetInv /\ ClientNext => FulfilledOnce'
    BY DEF GadgetInv, FulfilledOnce, ClientNext, BeginWait, RoundWithoutPhone, AddHandler,
        EnableDefault, AccessoryArrived, WaitTimesOut, LeaveWait, EndSession,
        DisableDefault, DisableAccessory, Pause
<1>2. GadgetInv /\ ClientNext => GadgetInv'
    BY <1>1, ClientKeepsType, ClientKeepsHandlers, ClientKeepsController DEF GadgetInv
<1>3. GadgetInv /\ (MonNext \/ SendStart \/ SendOther) => GadgetInv'
    BY MonKeepsType, MonKeepsHandlers, MonKeepsController DEF GadgetInv
<1>4. GadgetInv /\ [Next]_vars => GadgetInv'
    BY <1>2, <1>3, RestartKeepsInv, CrashKeepsGadgetInv DEF Next
<1> QED
    BY InitGadgetInv, <1>4, PTL DEF Spec

\* Type correctness: the iterator never leaves the list while a handler runs or is
\* erased, however long the list is (uevent.cpp 51-55, 60).
THEOREM GadgetTypeCorrect == Spec => []TypeOK
<1>1. GadgetInv => TypeOK
    BY DEF GadgetInv
<1> QED
    BY GadgetInvariant, <1>1, PTL

\* No wait's promise is fulfilled twice, although the loop can come round to the start
\* of the list (usb.cpp 115, uevent.cpp 51-55).
THEOREM PromiseFulfilledOnce == Spec => []FulfilledOnce
<1>1. GadgetInv => FulfilledOnce
    BY DEF GadgetInv
<1> QED
    BY GadgetInvariant, <1>1, PTL

\* Outside dongle mode the gadget is switched, during a wait or a session, only for
\* that wait and for a START sent during it (aawgd.cpp 54-57, usb.cpp 76-83).
THEOREM OnlyFreshSwitches == Spec => []NoStaleSwitch
<1>1. GadgetInv => NoStaleSwitch
  <2> SUFFICES ASSUME GadgetInv, strategy # "DONGLE_MODE",
                      client \in {"enable", "wait", "session"}, Switching
               PROVE  held = "current" /\ ev = "start"
    BY DEF NoStaleSwitch, Switching
  <2> QED
    BY DEF GadgetInv, ControllerInv, WaitInv, Quiet
<1> QED
    BY GadgetInvariant, <1>1, PTL

\* Outside dongle mode no session runs on the default gadget (usb.cpp 114-120).
THEOREM SessionsOffDefaultGadget == Spec => []SessionOffDefaultGadget
<1>1. GadgetInv => SessionOffDefaultGadget
    BY DEF GadgetInv, WaitInv, SessionOffDefaultGadget
<1> QED
    BY GadgetInvariant, <1>1, PTL

\* Outside dongle mode a switch that came too late spoils one wait, not two
\* (usb.cpp 85-90, 120).
THEOREM SpoilsOneWait == Spec => []AtMostOneSpoiledWait
<1>1. GadgetInv => AtMostOneSpoiledWait
    BY DEF GadgetInv, SpoiledInv, TypeOK, MaxSpoiled, AtMostOneSpoiledWait
<1> QED
    BY GadgetInvariant, <1>1, PTL
==============================================================================
