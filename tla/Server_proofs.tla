--------------------------- MODULE Server_proofs ----------------------------
(***************************************************************************)
(* Proofs about Server, for any configurations, addresses, connections and *)
(* any number of edits and signals.                                        *)
(*                                                                         *)
(* DrainCorrect needs nothing about reloads.  The theorems about reloads   *)
(* rest on MutexInv (a caller is inside reload exactly when it holds       *)
(* reloadMu), under which PhaseInv says what each line of reload may count *)
(* on, OpenInv which listeners are open there, and LoadedInv that what a   *)
(* caller loaded is what is in the file unless an event is still to come.  *)
(* Only what a client finds at a path needs that two spellings of an       *)
(* address name two sockets (DistinctSockets).  NothingStranded is what    *)
(* becomes of accept loops and connections whose listener is closed.       *)
(***************************************************************************)
EXTENDS Server, TLAPS

Inside == {"open", "swap", "closeOld", "setConfig"}

(* serverState, the locals and the world, unfolded by the leaves below.    *)
USE DEF Reloaders, Goes, Home, Running, Unlock, MutexFree, AcceptGoes, MayServe,
        serverVars, reloadVars, acceptVars, fileVars, signalVars, socketVars, connVars

LEMMA ListenType ==
    ASSUME NEW c \in Configs
    PROVE  EffListen(c) \in Addrs
BY ConstantAssumption DEF EffListen

LEMMA PathType ==
    ASSUME NEW a \in Addrs
    PROVE  PathOf[a] \in Paths
BY ConstantAssumption

-----------------------------------------------------------------------------
(* Types.                                                                  *)

(* What type correctness needs of the places inside reload.                *)
LocalsInv ==
    \A r \in Reloaders :
        /\ at[r] \in Inside => loaded[r] \in Configs
        /\ at[r] = "swap" => fresh[r] \in Listeners /\ fresh[r].addr = EffListen(loaded[r])
        /\ at[r] = "closeOld" => old[r] \in Listeners

LEMMA InitServerType == Init => ServerTypeOK /\ LocalsInv
<1> SUFFICES ASSUME Init PROVE ServerTypeOK /\ LocalsInv  OBVIOUS
<1>1. EffListen(FirstConfig) \in Addrs  BY ListenType, ConstantAssumption
<1>2. PathOf[EffListen(FirstConfig)] \in Paths  BY <1>1, PathType
<1> QED BY <1>1, <1>2, ConstantAssumption
        DEF Init, ServerTypeOK, LocalsInv, MainPlaces, WatcherPlaces, Listeners, Inside

LEMMA CloseType ==
    ASSUME ServerTypeOK, NEW l \in Listeners, Close(l)
    PROVE  open' \subseteq Listeners /\ bound' \in [Paths -> Listeners \cup {None}]
           /\ made' \in Nat
BY DEF ServerTypeOK, Close

LEMMA ServerTypeStep ==
    ASSUME ServerTypeOK, LocalsInv, [Next]_vars
    PROVE  ServerTypeOK' /\ LocalsInv'
<1> USE DEF ServerTypeOK, LocalsInv, MainPlaces, WatcherPlaces, Inside
<1>1. ASSUME NEW r \in Reloaders, Load(r) PROVE ServerTypeOK' /\ LocalsInv'
  <2>1. CASE file = Bad
    BY <1>1, <2>1 DEF Load
  <2>2. CASE file # Bad
    <3>1. file \in Configs  BY <2>2
    <3> QED BY <1>1, <2>2, <3>1 DEF Load
  <2> QED BY <2>1, <2>2
<1>2. ASSUME NEW r \in Reloaders, OpenListener(r) PROVE ServerTypeOK' /\ LocalsInv'
  <2> DEFINE l == [no |-> made, addr |-> EffListen(loaded[r])]
  <2>1. l \in Listeners /\ l.addr = EffListen(loaded[r])
    BY <1>2, ListenType DEF OpenListener, Listeners
  <2> HIDE DEF l
  <2>2. /\ fresh' = [fresh EXCEPT ![r] = l]
        /\ open' = open \cup {l} /\ made' = made + 1
        /\ bound' = [bound EXCEPT ![PathOf[l.addr]] = l]
        /\ at[r] = "open" /\ at' = [at EXCEPT ![r] = "swap"]
        /\ UNCHANGED <<serverVars, loaded, old, fileVars>>
    BY <1>2 DEF OpenListener, l
  <2>3. ServerTypeOK'
    <3>1. open' \subseteq Listeners /\ made' \in Nat  BY <2>1, <2>2
    <3>2. /\ fresh' \in [Reloaders -> Listeners \cup {None}]
          /\ bound' \in [Paths -> Listeners \cup {None}]
      BY <2>1, <2>2
    <3>3. /\ at' \in [Reloaders -> MainPlaces \cup WatcherPlaces]
          /\ at'["main"] \in MainPlaces /\ at'["watcher"] \in WatcherPlaces
      BY <2>2
    <3> QED BY <2>2, <3>1, <3>2, <3>3
  <2>4. LocalsInv'
    <3> SUFFICES ASSUME NEW s \in Reloaders
                 PROVE  /\ at'[s] \in Inside => loaded'[s] \in Configs
                        /\ at'[s] = "swap" => /\ fresh'[s] \in Listeners
                                              /\ fresh'[s].addr = EffListen(loaded'[s])
                        /\ at'[s] = "closeOld" => old'[s] \in Listeners
      BY DEF EffListen
    <3>1. CASE s = r  BY <2>1, <2>2, <3>1
    <3>2. CASE s # r  BY <2>2, <3>2
    <3> QED BY <3>1, <3>2
  <2> QED BY <2>3, <2>4
<1>3. ASSUME NEW r \in Reloaders, OpenFails(r) PROVE ServerTypeOK' /\ LocalsInv'
  BY <1>3 DEF OpenFails
<1>4. ASSUME NEW r \in Reloaders, SetListener(r) PROVE ServerTypeOK' /\ LocalsInv'
  <2>1. fresh[r] \in Listeners /\ fresh[r].addr \in Addrs
    BY <1>4 DEF SetListener, Listeners
  <2>2. PathOf[fresh[r].addr] \in Paths  BY <2>1, PathType
  <2>3. ServerTypeOK'  BY <1>4, <2>1, <2>2 DEF SetListener
  <2>4. LocalsInv'  BY <1>4, <2>1 DEF SetListener
  <2> QED BY <2>3, <2>4
<1>5. ASSUME NEW r \in Reloaders, CloseOld(r) PROVE ServerTypeOK' /\ LocalsInv'
  <2>1. old[r] \in Listeners /\ Close(old[r])  BY <1>5 DEF CloseOld
  <2>2. open' \subseteq Listeners /\ bound' \in [Paths -> Listeners \cup {None}] /\ made' \in Nat
    BY <2>1, CloseType
  <2> QED BY <1>5, <2>2 DEF CloseOld
<1>6. ASSUME NEW r \in Reloaders, SetConfig(r) PROVE ServerTypeOK' /\ LocalsInv'
  BY <1>6 DEF SetConfig
<1>7. ASSUME CloseListener PROVE ServerTypeOK' /\ LocalsInv'
  <2>1. open' \subseteq Listeners /\ bound' \in [Paths -> Listeners \cup {None}] /\ made' \in Nat
    BY <1>7, CloseType DEF CloseListener
  <2> QED BY <1>7, <2>1 DEF CloseListener
<1>8. CASE TakeSignal  BY <1>8 DEF TakeSignal
<1>9. CASE AnnounceShutdown  BY <1>9 DEF AnnounceShutdown
<1>10. CASE Drain  BY <1>10 DEF Drain
<1>11. CASE Wait  BY <1>11 DEF Wait
<1>12. CASE Unlink  BY <1>12 DEF Unlink
<1>13. CASE Leave  BY <1>13 DEF Leave
<1>14. CASE WatcherStep /\ ~Reload("watcher")
  BY <1>14 DEF WatcherStep, WatchStart, TakeEvent, WatchStops
<1>15. CASE AcceptStep
  BY <1>15 DEF AcceptStep, PickListener, Accept, AcceptFails, AcceptRecovers, Admit
<1>16. CASE \E c \in Conns : Finish(c)  BY <1>16 DEF Finish
<1>17. CASE World  BY <1>17 DEF World, Connect, Edit, SendSignal
<1>18. CASE UNCHANGED vars  BY <1>18 DEF vars
<1> QED BY <1>1, <1>2, <1>3, <1>4, <1>5, <1>6, <1>7, <1>8, <1>9, <1>10, <1>11, <1>12,
           <1>13, <1>14, <1>15, <1>16, <1>17, <1>18
        DEF Next, MainStep, MainShutsDown, WatcherStep, Reload

(* Every variable keeps its type, and reload's locals hold what its places *)
(* need of them.                                                           *)
LEMMA ServerTypes == Spec => [](ServerTypeOK /\ LocalsInv)
<1>1. Init => ServerTypeOK /\ LocalsInv  BY InitServerType
<1>2. ServerTypeOK /\ LocalsInv /\ [Next]_vars => (ServerTypeOK /\ LocalsInv)'
  BY ServerTypeStep
<1> QED BY <1>1, <1>2, PTL DEF Spec

LEMMA ConnTypeStep ==
    ASSUME ServerTypeOK, LocalsInv, ConnTypeOK, [Next]_vars
    PROVE  ConnTypeOK'
<1> USE DEF ConnTypeOK, ConnStates
<1>1. ASSUME NEW l, Close(l), UNCHANGED <<acceptAt, acceptVars>> PROVE ConnTypeOK'
  BY <1>1 DEF Close
<1>2. CASE AcceptStep
  <2>1. CASE PickListener  BY <2>1 DEF PickListener, ServerTypeOK
  <2>2. CASE \E c \in Conns : Accept(c)  BY <2>2 DEF Accept
  <2>3. CASE AcceptFails  BY <2>3 DEF AcceptFails
  <2>4. CASE AcceptRecovers  BY <2>4 DEF AcceptRecovers
  <2>5. CASE Admit  BY <2>5 DEF Admit
  <2> QED BY <1>2, <2>1, <2>2, <2>3, <2>4, <2>5 DEF AcceptStep
<1>3. ASSUME NEW r \in Reloaders, Reload(r) PROVE ConnTypeOK'
  <2>1. CASE CloseOld(r)  BY <1>1, <2>1 DEF CloseOld
  <2>2. CASE ~CloseOld(r)
    BY <1>3, <2>2 DEF Reload, Load, OpenListener, OpenFails, SetListener, SetConfig
  <2> QED BY <2>1, <2>2
<1>4. CASE TakeSignal  BY <1>4 DEF TakeSignal
<1>5. CASE CloseListener  BY <1>1, <1>5 DEF CloseListener
<1>6. CASE Leave  BY <1>6 DEF Leave
<1>7. CASE AnnounceShutdown \/ Drain \/ Wait \/ Unlink
  BY <1>7 DEF AnnounceShutdown, Drain, Wait, Unlink
<1>8. CASE WatchStart \/ TakeEvent \/ WatchStops
  BY <1>8 DEF WatchStart, TakeEvent, WatchStops
<1>9. CASE \E c \in Conns : Finish(c)  BY <1>9 DEF Finish
<1>10. CASE World
  <2>1. ASSUME NEW c \in Conns, NEW p \in Paths, Connect(c, p) PROVE ConnTypeOK'
    BY <2>1 DEF Connect, ServerTypeOK
  <2>2. CASE \E c \in Configs \cup {Bad} : Edit(c)  BY <2>2 DEF Edit
  <2>3. CASE \E sig \in {"HUP", "TERM"} : SendSignal(sig)  BY <2>3 DEF SendSignal
  <2> QED BY <1>10, <2>1, <2>2, <2>3 DEF World
<1>11. CASE UNCHANGED vars  BY <1>11 DEF vars
<1> QED BY <1>2, <1>3, <1>4, <1>5, <1>6, <1>7, <1>8, <1>9, <1>10, <1>11
        DEF Next, MainStep, MainShutsDown, WatcherStep

LEMMA SignalTypeStep == SignalTypeOK /\ [Next]_vars => SignalTypeOK'
<1> SUFFICES ASSUME SignalTypeOK, [Next]_vars PROVE SignalTypeOK'  OBVIOUS
<1> USE DEF SignalTypeOK
<1>1. CASE TakeSignal  BY <1>1 DEF TakeSignal
<1>2. ASSUME NEW sig \in {"HUP", "TERM"}, SendSignal(sig) PROVE SignalTypeOK'
  <2>1. signals' = Offer(sig) /\ sent' = sent + 1  BY <1>2 DEF SendSignal
  <2>2. signals' \in {<<>>, <<"HUP">>, <<"TERM">>}  BY <2>1 DEF Offer
  <2> QED BY <2>1, <2>2
<1>3. CASE UNCHANGED <<signals, sent>>  BY <1>3
<1>4. TakeSignal \/ (\E sig \in {"HUP", "TERM"} : SendSignal(sig))
      \/ UNCHANGED <<signals, sent>>
  BY DEF Next, MainStep, MainShutsDown, WatcherStep, AcceptStep, World, Reload, Load,
         OpenListener, OpenFails, SetListener, CloseOld, SetConfig, AnnounceShutdown,
         CloseListener, Drain, Wait, Unlink, Leave, WatchStart, TakeEvent, WatchStops,
         PickListener, Accept, AcceptFails, AcceptRecovers, Admit, Finish, Connect, Edit, vars
<1> QED BY <1>1, <1>2, <1>3, <1>4

LEMMA FlagTypeStep == FlagTypeOK /\ [Next]_vars => FlagTypeOK'
<1> SUFFICES ASSUME FlagTypeOK, [Next]_vars PROVE FlagTypeOK'  OBVIOUS
<1> USE DEF FlagTypeOK
<1>1. CASE \E r \in Reloaders : Reload(r)
  BY <1>1 DEF Reload, Load, OpenListener, OpenFails, SetListener, CloseOld, SetConfig
<1>2. CASE TakeSignal \/ MainShutsDown
  BY <1>2 DEF TakeSignal, MainShutsDown, AnnounceShutdown, CloseListener, Drain, Wait, Unlink,
              Leave
<1>3. CASE WatchStart \/ TakeEvent \/ WatchStops
  BY <1>3 DEF WatchStart, TakeEvent, WatchStops
<1>4. CASE AcceptStep \/ \E c \in Conns : Finish(c)
  BY <1>4 DEF AcceptStep, PickListener, Accept, AcceptFails, AcceptRecovers, Admit, Finish
<1>5. CASE World  BY <1>5, Zenon DEF World, Connect, Edit, SendSignal
<1>6. CASE UNCHANGED vars  BY <1>6 DEF vars
<1> QED BY <1>1, <1>2, <1>3, <1>4, <1>5, <1>6 DEF Next, MainStep, WatcherStep

(* The whole type invariant.                                               *)
THEOREM TypeCorrect == Spec => []TypeOK
<1>1. Init => ConnTypeOK /\ SignalTypeOK
  BY DEF Init, ConnTypeOK, SignalTypeOK, ConnStates, Listeners
<1>2. Init => FlagTypeOK  BY Zenon DEF Init, FlagTypeOK
<1>3. ServerTypeOK /\ LocalsInv /\ ConnTypeOK /\ [Next]_vars => ConnTypeOK'
  BY ConnTypeStep
<1> QED BY <1>1, <1>2, <1>3, ServerTypes, SignalTypeStep, FlagTypeStep, PTL
        DEF Spec, TypeOK

-----------------------------------------------------------------------------
(* The shutdown.                                                           *)

(* Once closed is set under wgMu no connection becomes served, so that     *)
(* none is once Wait has seen none.                                        *)
DrainInv ==
    /\ at["main"] \in {"wait", "unlink", "leave", "exited"} => closed = TRUE
    /\ DrainSafe

LEMMA DrainStep ==
    ASSUME ServerTypeOK, ConnTypeOK, DrainInv, [Next]_vars
    PROVE  DrainInv'
<1> USE DEF DrainInv, DrainSafe, Served, ServerTypeOK
<1>1. ASSUME NEW l, Close(l) PROVE Served = {} => Served' = {}
  BY <1>1 DEF Close
<1>2. ASSUME NEW r \in Reloaders, Reload(r) PROVE DrainInv'
  <2>1. at'["main"] \in {"wait", "unlink", "leave", "exited"} => at'["main"] = at["main"]
    BY <1>2 DEF Reload, Load, OpenListener, OpenFails, SetListener, CloseOld, SetConfig
  <2>2. at'["main"] \in {"unlink", "leave", "exited"} => at'["main"] = at["main"]
    BY <2>1
  <2>3. UNCHANGED closed
    BY <1>2 DEF Reload, Load, OpenListener, OpenFails, SetListener, CloseOld, SetConfig
  <2>4. Served = {} => Served' = {}
    <3>1. CASE CloseOld(r)  BY <1>1, <3>1 DEF CloseOld
    <3>2. CASE ~CloseOld(r)
      BY <1>2, <3>2 DEF Reload, Load, OpenListener, OpenFails, SetListener, SetConfig
    <3> QED BY <3>1, <3>2
  <2> QED BY <2>1, <2>2, <2>3, <2>4
<1>3. CASE TakeSignal  BY <1>3 DEF TakeSignal
<1>4. CASE AnnounceShutdown  BY <1>4 DEF AnnounceShutdown
<1>5. CASE CloseListener  BY <1>5 DEF CloseListener
<1>6. CASE Drain  BY <1>6 DEF Drain
<1>7. CASE Wait  BY <1>7 DEF Wait
<1>8. CASE Unlink  BY <1>8 DEF Unlink
<1>9. CASE Leave  BY <1>9 DEF Leave
<1>10. CASE WatchStart \/ TakeEvent \/ WatchStops
  BY <1>10 DEF WatchStart, TakeEvent, WatchStops
<1>11. CASE AcceptStep
  <2>1. UNCHANGED <<at, closed>>
    BY <1>11 DEF AcceptStep, PickListener, Accept, AcceptFails, AcceptRecovers, Admit
  <2>2. closed = TRUE /\ Served = {} => Served' = {}
    <3>1. CASE Admit  BY <3>1, ConstantAssumption DEF Admit, ConnTypeOK
    <3>2. CASE \E c \in Conns : Accept(c)  BY <3>2 DEF Accept, ConnTypeOK
    <3>3. CASE PickListener \/ AcceptFails \/ AcceptRecovers
      BY <3>3 DEF PickListener, AcceptFails, AcceptRecovers
    <3> QED BY <1>11, <3>1, <3>2, <3>3 DEF AcceptStep
  <2> QED BY <2>1, <2>2
<1>12. CASE \E c \in Conns : Finish(c)  BY <1>12 DEF Finish, ConnTypeOK
<1>13. CASE World
  BY <1>13 DEF World, Connect, Edit, SendSignal, ConnTypeOK
<1>14. CASE UNCHANGED vars  BY <1>14 DEF vars
<1> QED BY <1>2, <1>3, <1>4, <1>5, <1>6, <1>7, <1>8, <1>9, <1>10, <1>11, <1>12, <1>13,
           <1>14
        DEF Next, MainStep, MainShutsDown, WatcherStep

(* A graceful shutdown never leaves a connection half served.              *)
THEOREM DrainCorrect == Spec => []DrainSafe
<1>1. Init => DrainInv  BY DEF Init, DrainInv, DrainSafe
<1>2. ServerTypeOK /\ ConnTypeOK /\ DrainInv /\ [Next]_vars => DrainInv'
  BY DrainStep
<1>3. TypeOK => ServerTypeOK /\ ConnTypeOK  BY DEF TypeOK
<1>4. DrainInv => DrainSafe  BY DEF DrainInv
<1> QED BY <1>1, <1>2, <1>3, <1>4, TypeCorrect, PTL DEF Spec

-----------------------------------------------------------------------------
(* Reloads, one at a time.                                                 *)

MutexInv == \A r \in Reloaders : at[r] \in Inside <=> reloadMu = r

(* The steps that are no part of a reload: they leave serverState and the  *)
(* locals of reload alone, and no caller enters or leaves reload.          *)
Quiet ==
    /\ UNCHANGED <<listener, listenAddr, reloadMu, config, loaded, fresh, old>>
    /\ \A r \in Reloaders :
        /\ at[r] \in Inside => at'[r] = at[r]
        /\ at'[r] \in Inside => at'[r] = at[r]

LEMMA QuietSteps ==
    ASSUME ServerTypeOK, [Next]_vars
    PROVE  Quiet \/ \E r \in Reloaders : Reload(r)
<1> USE DEF Quiet, Inside, ServerTypeOK
<1>1. CASE TakeSignal  BY <1>1 DEF TakeSignal
<1>2. CASE AnnounceShutdown \/ Drain \/ Wait
  BY <1>2 DEF AnnounceShutdown, Drain, Wait
<1>3. CASE CloseListener  BY <1>3 DEF CloseListener, Close
<1>4. CASE Unlink \/ Leave  BY <1>4 DEF Unlink, Leave
<1>5. CASE WatchStart \/ TakeEvent \/ WatchStops
  BY <1>5 DEF WatchStart, TakeEvent, WatchStops
<1>6. CASE AcceptStep
  BY <1>6 DEF AcceptStep, PickListener, Accept, AcceptFails, AcceptRecovers, Admit
<1>7. CASE (\E c \in Conns : Finish(c)) \/ World
  BY <1>7 DEF Finish, World, Connect, Edit, SendSignal
<1>8. CASE UNCHANGED vars  BY <1>8 DEF vars
<1> QED BY <1>1, <1>2, <1>3, <1>4, <1>5, <1>6, <1>7, <1>8
        DEF Next, MainStep, MainShutsDown, WatcherStep

LEMMA MutexStep ==
    ASSUME ServerTypeOK, MutexInv, [Next]_vars
    PROVE  MutexInv'
<1> USE DEF MutexInv, Inside, ServerTypeOK
<1>1. CASE Quiet
  <2>1. \A r \in Reloaders : at'[r] \in Inside <=> at[r] \in Inside
    BY <1>1 DEF Quiet
  <2> QED BY <1>1, <2>1 DEF Quiet
<1>2. ASSUME NEW r \in Reloaders, Reload(r) PROVE MutexInv'
  <2>1. CASE Load(r)  BY <2>1, ConstantAssumption DEF Load
  <2>2. CASE OpenListener(r)  BY <2>2 DEF OpenListener
  <2>3. CASE OpenFails(r)  BY <2>3, ConstantAssumption DEF OpenFails
  <2>4. CASE SetListener(r)  BY <2>4 DEF SetListener
  <2>5. CASE CloseOld(r)  BY <2>5 DEF CloseOld
  <2>6. CASE SetConfig(r)  BY <2>6, ConstantAssumption DEF SetConfig
  <2> QED BY <1>2, <2>1, <2>2, <2>3, <2>4, <2>5, <2>6 DEF Reload
<1> QED BY <1>1, <1>2, QuietSteps

(* What each place inside reload may count on.                             *)
PhaseInv ==
    /\ listener.addr = listenAddr
    /\ reloadMu = None => listenAddr = EffListen(config)
    /\ \A r \in Reloaders :
         /\ at[r] = "open" => /\ listenAddr = EffListen(config)
                              /\ listenAddr # EffListen(loaded[r])
         /\ at[r] = "swap" => listenAddr # EffListen(loaded[r])
         /\ at[r] = "closeOld" => /\ listenAddr = EffListen(loaded[r])
                                  /\ old[r].addr # listenAddr
         /\ at[r] = "setConfig" => listenAddr = EffListen(loaded[r])

LEMMA PhaseStep ==
    ASSUME ServerTypeOK, LocalsInv, MutexInv, PhaseInv, [Next]_vars
    PROVE  PhaseInv'
<1> USE DEF PhaseInv, Inside, EffListen
<1>1. CASE Quiet
  <2>1. /\ UNCHANGED <<listener, listenAddr, reloadMu, config, loaded, old>>
        /\ \A r \in Reloaders : at'[r] \in Inside => at'[r] = at[r]
    BY <1>1 DEF Quiet
  <2>2. listener'.addr = listenAddr' /\ (reloadMu' = None => listenAddr' = EffListen(config)')
    BY <2>1
  <2>3. ASSUME NEW r \in Reloaders, at'[r] \in Inside PROVE at[r] = at'[r]
    BY <2>1, <2>3
  <2> QED BY <2>1, <2>2, <2>3
<1>2. ASSUME NEW r \in Reloaders, Reload(r) PROVE PhaseInv'
  <2> USE DEF ServerTypeOK, MutexInv
  <2>1. CASE Load(r)
    <3>1. reloadMu = None  BY <2>1 DEF Load
    <3>2. \A s \in Reloaders : at[s] \notin Inside  BY <3>1, ConstantAssumption
    <3>3. CASE file = Bad  BY <2>1, <3>2, <3>3 DEF Load
    <3>4. CASE file # Bad  BY <2>1, <3>1, <3>2, <3>4, ConstantAssumption DEF Load
    <3> QED BY <3>3, <3>4
  <2>2. CASE OpenListener(r)  BY <2>2 DEF OpenListener
  <2>3. CASE OpenFails(r)  BY <2>3 DEF OpenFails
  <2>4. CASE SetListener(r)
    <3>1. /\ at[r] = "swap" /\ fresh[r].addr = EffListen(loaded[r])
          /\ listenAddr # EffListen(loaded[r]) /\ listener.addr = listenAddr
      BY <2>4 DEF SetListener, LocalsInv
    <3>2. /\ listener' = fresh[r] /\ listenAddr' = fresh[r].addr
          /\ old' = [old EXCEPT ![r] = listener] /\ at' = [at EXCEPT ![r] = "closeOld"]
          /\ UNCHANGED <<reloadMu, config, loaded>>
      BY <2>4 DEF SetListener
    <3>3. \A s \in Reloaders : s # r => at[s] \notin Inside  BY <3>1
    <3>4. reloadMu = r  BY <3>1
    <3>5. /\ at'[r] = "closeOld" /\ old'[r] = listener
          /\ \A s \in Reloaders : s # r => at'[s] = at[s]
      BY <3>2
    <3> QED BY <3>1, <3>2, <3>3, <3>4, <3>5, ConstantAssumption
  <2>5. CASE CloseOld(r)  BY <2>5 DEF CloseOld
  <2>6. CASE SetConfig(r)  BY <2>6 DEF SetConfig
  <2> QED BY <1>2, <2>1, <2>2, <2>3, <2>4, <2>5, <2>6 DEF Reload
<1> QED BY <1>1, <1>2, QuietSteps

-----------------------------------------------------------------------------
(* Which listeners are open.                                               *)

OpenInv ==
    InService =>
        /\ listener \in open
        /\ reloadMu = None => open = {listener}
        /\ \A r \in Reloaders :
            /\ at[r] \in {"open", "setConfig"} => open = {listener}
            /\ at[r] = "swap" => open = {listener, fresh[r]}
            /\ at[r] = "closeOld" => open = {listener, old[r]}

LEMMA QuietOpen ==
    ASSUME ServerTypeOK, [Next]_vars, ~ \E r \in Reloaders : Reload(r), InService'
    PROVE  InService /\ UNCHANGED <<open, bound>>
<1> USE DEF InService, ServerTypeOK
<1>1. CASE TakeSignal \/ AnnounceShutdown
  BY <1>1 DEF TakeSignal, AnnounceShutdown, MainPlaces
<1>2. CASE CloseListener \/ Drain \/ Wait \/ Unlink \/ Leave
  BY <1>2 DEF CloseListener, Drain, Wait, Unlink, Leave
<1>3. CASE WatchStart \/ TakeEvent \/ WatchStops
  BY <1>3 DEF WatchStart, TakeEvent, WatchStops
<1>4. CASE AcceptStep
  BY <1>4 DEF AcceptStep, PickListener, Accept, AcceptFails, AcceptRecovers, Admit
<1>5. CASE (\E c \in Conns : Finish(c)) \/ World
  BY <1>5 DEF Finish, World, Connect, Edit, SendSignal
<1>6. CASE UNCHANGED vars  BY <1>6 DEF vars
<1> QED BY <1>1, <1>2, <1>3, <1>4, <1>5, <1>6
        DEF Next, MainStep, MainShutsDown, WatcherStep

LEMMA ReloadInService ==
    ASSUME ServerTypeOK, NEW r \in Reloaders, Reload(r), InService'
    PROVE  InService
BY DEF Reload, Load, OpenListener, OpenFails, SetListener, CloseOld, SetConfig, InService,
       ServerTypeOK

LEMMA OpenStep ==
    ASSUME ServerTypeOK, LocalsInv, MutexInv, PhaseInv, OpenInv, [Next]_vars
    PROVE  OpenInv'
<1> SUFFICES ASSUME InService' PROVE OpenInv'  BY DEF OpenInv
<1>1. CASE ~ \E r \in Reloaders : Reload(r)
  <2>1. InService /\ UNCHANGED open  BY <1>1, QuietOpen
  <2>2. Quiet  BY <1>1, QuietSteps
  <2>3. UNCHANGED <<listener, reloadMu, fresh, old>>  BY <2>2 DEF Quiet
  <2>4. /\ listener' \in open'
        /\ reloadMu' = None => open' = {listener'}
    BY <2>1, <2>3 DEF OpenInv
  <2>5. ASSUME NEW r \in Reloaders, at'[r] \in Inside
        PROVE  /\ at'[r] \in {"open", "setConfig"} => open' = {listener'}
               /\ at'[r] = "swap" => open' = {listener', fresh'[r]}
               /\ at'[r] = "closeOld" => open' = {listener', old'[r]}
    <3>1. at'[r] = at[r]  BY <2>2, <2>5 DEF Quiet
    <3> QED BY <2>1, <2>3, <3>1 DEF OpenInv
  <2> QED BY <2>4, <2>5 DEF OpenInv, Inside
<1>2. ASSUME NEW r \in Reloaders, Reload(r) PROVE OpenInv'
  <2>1. InService  BY <1>2, ReloadInService
  <2>2. ASSUME NEW s \in Reloaders, s # r, at[r] \in Inside \/ reloadMu = None
        PROVE  at[s] \notin Inside
    BY <2>2, ConstantAssumption DEF MutexInv
  <2>3. ASSUME at[r] \in Inside PROVE reloadMu = r /\ reloadMu # None
    BY <2>3, ConstantAssumption DEF MutexInv
  <2> USE DEF ServerTypeOK, Inside
  <2>4. CASE Load(r)
    <3>1. reloadMu = None /\ UNCHANGED <<listener, open>>
      BY <2>4 DEF Load
    <3>2. open = {listener}  BY <2>1, <3>1 DEF OpenInv
    <3>3. at'[r] \notin {"swap", "closeOld"}  BY <2>4 DEF Load
    <3>4. \A s \in Reloaders : s # r => at'[s] = at[s]  BY <2>4 DEF Load
    <3> QED BY <2>1, <2>2, <3>1, <3>2, <3>3, <3>4 DEF OpenInv
  <2>5. CASE OpenListener(r)
    <3>1. /\ at[r] = "open" /\ at' = [at EXCEPT ![r] = "swap"]
          /\ open' = open \cup {fresh'[r]}
          /\ UNCHANGED <<listener, reloadMu>>
      BY <2>5 DEF OpenListener
    <3>2. open = {listener}  BY <2>1, <3>1 DEF OpenInv
    <3>3. open' = {listener, fresh'[r]}  BY <3>1, <3>2
    <3>4. \A s \in Reloaders : s # r => at'[s] \notin Inside  BY <2>2, <3>1
    <3>5. reloadMu' # None /\ at'[r] = "swap"  BY <2>3, <3>1
    <3> QED BY <3>1, <3>3, <3>4, <3>5 DEF OpenInv
  <2>6. CASE OpenFails(r)
    <3>1. at[r] = "open" /\ at' = [at EXCEPT ![r] = Home(r)]
          /\ UNCHANGED <<listener, open>>
      BY <2>6 DEF OpenFails
    <3>2. open = {listener}  BY <2>1, <3>1 DEF OpenInv
    <3>3. \A s \in Reloaders : at'[s] \notin Inside  BY <2>2, <3>1
    <3> QED BY <2>1, <3>1, <3>2, <3>3 DEF OpenInv
  <2>7. CASE SetListener(r)
    <3>1. /\ at[r] = "swap" /\ at' = [at EXCEPT ![r] = "closeOld"]
          /\ listener' = fresh[r]
          /\ old' = [old EXCEPT ![r] = listener]
          /\ UNCHANGED <<reloadMu, open>>
      BY <2>7 DEF SetListener
    <3>2. open = {listener, fresh[r]}  BY <2>1, <3>1 DEF OpenInv
    <3>3. \A s \in Reloaders : s # r => at'[s] \notin Inside  BY <2>2, <3>1
    <3>4. reloadMu' # None  BY <2>3, <3>1
    <3>5. at'[r] = "closeOld" /\ old'[r] = listener  BY <3>1
    <3> QED BY <3>1, <3>2, <3>3, <3>4, <3>5 DEF OpenInv
  <2>8. CASE CloseOld(r)
    <3>1. /\ at[r] = "closeOld" /\ at' = [at EXCEPT ![r] = "setConfig"]
          /\ open' = open \ {old[r]}
          /\ UNCHANGED <<listener, reloadMu>>
      BY <2>8 DEF CloseOld, Close
    <3>2. open = {listener, old[r]}  BY <2>1, <3>1 DEF OpenInv
    <3>3. old[r] # listener  BY <3>1 DEF PhaseInv
    <3>4. open' = {listener}  BY <3>1, <3>2, <3>3
    <3>5. \A s \in Reloaders : s # r => at'[s] \notin Inside  BY <2>2, <3>1
    <3>6. at'[r] = "setConfig"  BY <3>1
    <3> QED BY <3>1, <3>4, <3>5, <3>6 DEF OpenInv
  <2>9. CASE SetConfig(r)
    <3>1. at[r] = "setConfig" /\ at' = [at EXCEPT ![r] = Home(r)]
          /\ UNCHANGED <<listener, open>>
      BY <2>9 DEF SetConfig
    <3>2. open = {listener}  BY <2>1, <3>1 DEF OpenInv
    <3>3. \A s \in Reloaders : at'[s] \notin Inside  BY <2>2, <3>1
    <3> QED BY <2>1, <3>1, <3>2, <3>3 DEF OpenInv
  <2> QED BY <1>2, <2>4, <2>5, <2>6, <2>7, <2>8, <2>9 DEF Reload
<1> QED BY <1>1, <1>2

LEMMA InitOpen == Init => MutexInv /\ PhaseInv /\ OpenInv
<1> SUFFICES ASSUME Init PROVE MutexInv /\ PhaseInv /\ OpenInv  OBVIOUS
<1>1. \A r \in Reloaders : at[r] \notin Inside  BY DEF Init, Inside
<1>2. MutexInv  BY <1>1, ConstantAssumption DEF Init, MutexInv
<1>3. PhaseInv  BY <1>1 DEF Init, PhaseInv, Inside
<1>4. OpenInv  BY <1>1 DEF Init, OpenInv, Inside
<1> QED BY <1>2, <1>3, <1>4

LEMMA ReloadsInOrder ==
    Spec => [](ServerTypeOK /\ LocalsInv /\ MutexInv /\ PhaseInv /\ OpenInv)
<1>1. ServerTypeOK /\ MutexInv /\ [Next]_vars => MutexInv'  BY MutexStep
<1>2. ServerTypeOK /\ LocalsInv /\ MutexInv /\ PhaseInv /\ [Next]_vars => PhaseInv'
  BY PhaseStep
<1>3. ServerTypeOK /\ LocalsInv /\ MutexInv /\ PhaseInv /\ OpenInv /\ [Next]_vars => OpenInv'
  BY OpenStep
<1> QED BY <1>1, <1>2, <1>3, InitOpen, ServerTypes, PTL DEF Spec

(* Between reloads, failed or not and whichever goroutine ran them, the    *)
(* current listener is the only one open and the one the configuration     *)
(* asks for, however the addresses are spelled.                            *)
THEOREM ListenerCorrect == Spec => []ListenerMatchesConfig
<1>1. PhaseInv /\ OpenInv => ListenerMatchesConfig
  BY DEF PhaseInv, OpenInv, ListenerMatchesConfig
<1> QED BY <1>1, ReloadsInOrder, PTL

-----------------------------------------------------------------------------
(* Where the listeners can be reached.                                     *)

(* Two addresses name two sockets.  Without this a reload that only spells *)
(* the address in another way (unix:/run/w.sock, unix:///run/w.sock)       *)
(* closes, with the old listener, the path the new one is bound to:        *)
(* openListener trims the slashes, reload compares the spelling.           *)
DistinctSockets == \A a, b \in Addrs : PathOf[a] = PathOf[b] => a = b

BoundInv ==
    InService =>
        /\ bound[PathOf[listenAddr]] = listener
        /\ \A r \in Reloaders :
            at[r] = "swap" => bound[PathOf[fresh[r].addr]] = fresh[r]

LEMMA BoundStep ==
    ASSUME DistinctSockets, ServerTypeOK, LocalsInv, MutexInv, PhaseInv, OpenInv, BoundInv,
           [Next]_vars
    PROVE  BoundInv'
<1> SUFFICES ASSUME InService' PROVE BoundInv'  BY DEF BoundInv
<1>1. CASE ~ \E r \in Reloaders : Reload(r)
  <2>1. InService /\ UNCHANGED bound  BY <1>1, QuietOpen
  <2>2. Quiet  BY <1>1, QuietSteps
  <2> QED BY <2>1, <2>2 DEF Quiet, Inside, BoundInv
<1>2. ASSUME NEW r \in Reloaders, Reload(r) PROVE BoundInv'
  <2>1. InService  BY <1>2, ReloadInService
  <2> USE DEF ServerTypeOK, Inside
  <2>2. \A s \in Reloaders : s # r /\ at[r] \in Inside => at[s] \notin Inside
    BY ConstantAssumption DEF MutexInv
  <2>3. CASE Load(r) \/ SetConfig(r)
    <3>1. /\ UNCHANGED <<listener, listenAddr, fresh, bound>> /\ at'[r] # "swap"
          /\ \A s \in Reloaders : s # r => at'[s] = at[s]
      BY <2>3 DEF Load, SetConfig
    <3> QED BY <2>1, <3>1 DEF BoundInv
  <2>7. CASE OpenFails(r)
    <3> DEFINE a == EffListen(loaded[r])
    <3>1. /\ at[r] = "open" /\ at' = [at EXCEPT ![r] = Home(r)]
          /\ UNCHANGED <<listener, listenAddr, fresh>>
          /\ bound' = bound \/ bound' = [bound EXCEPT ![PathOf[a]] = None]
      BY <2>7 DEF OpenFails
    <3>2. a \in Addrs /\ a # listenAddr
      BY <3>1, ListenType DEF LocalsInv, PhaseInv
    <3> HIDE DEF a
    <3>3. PathOf[a] # PathOf[listenAddr]
      BY <3>2 DEF DistinctSockets
    <3>4. bound'[PathOf[listenAddr]] = listener
      BY <2>1, <3>1, <3>2, <3>3, PathType DEF BoundInv
    <3>5. \A s \in Reloaders : at'[s] # "swap"  BY <2>2, <3>1 DEF Home
    <3> QED BY <3>1, <3>4, <3>5 DEF BoundInv
  <2>4. CASE OpenListener(r)
    <3> DEFINE l == [no |-> made, addr |-> EffListen(loaded[r])]
    <3>1. /\ at[r] = "open" /\ at' = [at EXCEPT ![r] = "swap"]
          /\ fresh' = [fresh EXCEPT ![r] = l]
          /\ bound' = [bound EXCEPT ![PathOf[l.addr]] = l]
          /\ UNCHANGED <<listener, listenAddr>>
      BY <2>4 DEF OpenListener
    <3>2. l.addr \in Addrs /\ l.addr # listenAddr
      BY <3>1, ListenType DEF LocalsInv, PhaseInv
    <3> HIDE DEF l
    <3>3. PathOf[l.addr] \in Paths /\ PathOf[l.addr] # PathOf[listenAddr]
      BY <3>2, PathType DEF DistinctSockets
    <3>4. bound'[PathOf[l.addr]] = l /\ bound'[PathOf[listenAddr]] = listener
      BY <2>1, <3>1, <3>3, PathType DEF BoundInv
    <3>5. fresh'[r] = l /\ \A s \in Reloaders : s # r => at'[s] \notin Inside
      BY <2>2, <3>1
    <3> QED BY <3>1, <3>4, <3>5 DEF BoundInv
  <2>5. CASE SetListener(r)
    <3>1. /\ at[r] = "swap" /\ at' = [at EXCEPT ![r] = "closeOld"]
          /\ listener' = fresh[r] /\ listenAddr' = fresh[r].addr
          /\ UNCHANGED bound
      BY <2>5 DEF SetListener
    <3>2. \A s \in Reloaders : at'[s] # "swap"  BY <2>2, <3>1
    <3> QED BY <2>1, <3>1, <3>2 DEF BoundInv
  <2>6. CASE CloseOld(r)
    <3>1. /\ at[r] = "closeOld" /\ at' = [at EXCEPT ![r] = "setConfig"]
          /\ bound' = IF old[r] \in open
                      THEN [bound EXCEPT ![PathOf[old[r].addr]] = None] ELSE bound
          /\ UNCHANGED <<listener, listenAddr>>
      BY <2>6 DEF CloseOld, Close
    <3>2. old[r] \in Listeners /\ old[r].addr # listenAddr
      BY <3>1 DEF LocalsInv, PhaseInv
    <3>3. PathOf[old[r].addr] # PathOf[listenAddr]
      BY <3>2 DEF DistinctSockets, Listeners
    <3>4. bound'[PathOf[listenAddr]] = listener  BY <2>1, <3>1, <3>3 DEF BoundInv
    <3>5. \A s \in Reloaders : at'[s] # "swap"  BY <2>2, <3>1
    <3> QED BY <3>1, <3>4, <3>5 DEF BoundInv
  <2> QED BY <1>2, <2>3, <2>4, <2>5, <2>6, <2>7 DEF Reload
<1> QED BY <1>1, <1>2

(* Through every reload a client finds the current listener at the current *)
(* path.                                                                   *)
THEOREM ListenerReachable ==
    ASSUME DistinctSockets
    PROVE  Spec => []CurrentListenerReachable
<1>1. Init => BoundInv
  <2> SUFFICES ASSUME Init PROVE BoundInv  OBVIOUS
  <2>1. PathOf[EffListen(FirstConfig)] \in Paths
    BY ListenType, PathType, ConstantAssumption
  <2> QED BY <2>1 DEF Init, BoundInv
<1>2. ServerTypeOK /\ LocalsInv /\ MutexInv /\ PhaseInv /\ OpenInv /\ BoundInv /\ [Next]_vars
      => BoundInv'
  BY BoundStep
<1>3. OpenInv /\ BoundInv => CurrentListenerReachable
  BY DEF OpenInv, BoundInv, CurrentListenerReachable
<1> QED BY <1>1, <1>2, <1>3, ReloadsInOrder, PTL DEF Spec

-----------------------------------------------------------------------------
(* Which configuration is in use.                                          *)

(* The file was loaded last by whoever is inside reload, or is the one in  *)
(* use, unless it does not load or an event or an early edit is pending.   *)
LoadedInv ==
    events = 0 /\ at["watcher"] # "load" /\ file \in Configs /\ missed = FALSE =>
        /\ reloadMu = None /\ refused = FALSE => config = file
        /\ \A r \in Reloaders : at[r] \in Inside => loaded[r] = file

LEMMA LoadedStep ==
    ASSUME ServerTypeOK, FlagTypeOK, MutexInv, LoadedInv, [Next]_vars
    PROVE  LoadedInv'
<1> USE DEF ServerTypeOK
<1>1. ASSUME NEW r \in Reloaders, Reload(r) PROVE LoadedInv'
  <2>1. UNCHANGED <<events, file>>
    BY <1>1 DEF Reload, Load, OpenListener, OpenFails, SetListener, CloseOld, SetConfig
  <2>2. ASSUME NEW s \in Reloaders, s # r, at[r] \in Inside \/ reloadMu = None
        PROVE  at[s] \notin Inside
    BY <2>2, ConstantAssumption DEF MutexInv
  <2> USE DEF Inside
  <2>3. CASE Load(r)
    <3>1. CASE file = Bad  BY <2>1, <3>1, ConstantAssumption DEF LoadedInv
    <3>2. CASE file # Bad
      <4>1. /\ reloadMu = None /\ reloadMu' = r
            /\ loaded' = [loaded EXCEPT ![r] = file]
            /\ \A s \in Reloaders : s # r => at'[s] = at[s]
        BY <2>3, <3>2 DEF Load
      <4>2. loaded'[r] = file  BY <4>1
      <4>3. \A s \in Reloaders : s # r => at'[s] \notin Inside  BY <2>2, <4>1
      <4> QED BY <2>1, <4>1, <4>2, <4>3, ConstantAssumption DEF LoadedInv
    <3> QED BY <3>1, <3>2
  <2>4. CASE OpenListener(r) \/ SetListener(r) \/ CloseOld(r)
    BY <2>4 DEF OpenListener, SetListener, CloseOld, LoadedInv, MutexInv
  <2>5. CASE OpenFails(r)
    <3>1. /\ at[r] = "open" /\ at' = [at EXCEPT ![r] = Home(r)]
          /\ refused' = TRUE /\ UNCHANGED file
      BY <2>5 DEF OpenFails
    <3>2. \A s \in Reloaders : at'[s] \notin Inside  BY <2>2, <3>1
    <3> QED BY <3>1, <3>2 DEF LoadedInv
  <2>6. CASE SetConfig(r)
    <3>1. /\ at[r] = "setConfig" /\ at' = [at EXCEPT ![r] = Home(r)]
          /\ config' = loaded[r] /\ UNCHANGED <<file, events, missed>>
      BY <2>6 DEF SetConfig
    <3>2. \A s \in Reloaders : at'[s] \notin Inside  BY <2>2, <3>1
    <3>3. at["watcher"] # "load"  \/ at'["watcher"] = "load"  BY <3>1
    <3> QED BY <3>1, <3>2, <3>3 DEF LoadedInv
  <2> QED BY <1>1, <2>3, <2>4, <2>5, <2>6 DEF Reload
<1>2. CASE ~ \E r \in Reloaders : Reload(r)
  <2>1. Quiet  BY <1>2, QuietSteps
  <2>2. /\ UNCHANGED <<reloadMu, config, loaded>>
        /\ \A r \in Reloaders : at'[r] \in Inside => at[r] \in Inside
    BY <2>1 DEF Quiet
  <2>3. /\ events' = 0 /\ at'["watcher"] # "load" /\ file' \in Configs /\ missed' = FALSE
        => /\ events = 0 /\ at["watcher"] # "load" /\ missed = FALSE
           /\ UNCHANGED <<file, refused>>
    <3>1. CASE WatchStart \/ TakeEvent \/ WatchStops
      BY <3>1 DEF WatchStart, TakeEvent, WatchStops
    <3>2. ASSUME NEW c \in Configs \cup {Bad}, Edit(c) PROVE events' # 0 \/ missed' = TRUE
      BY <3>2 DEF Edit
    <3>3. CASE UNCHANGED <<events, file, missed, refused>> /\ at'["watcher"] = at["watcher"]
      BY <3>3
    <3>4. \/ WatchStart \/ TakeEvent \/ WatchStops
          \/ \E c \in Configs \cup {Bad} : Edit(c)
          \/ UNCHANGED <<events, file, missed, refused>> /\ at'["watcher"] = at["watcher"]
      <4>1. CASE TakeSignal  BY <4>1 DEF TakeSignal
      <4>2. CASE MainShutsDown
        BY <4>2 DEF MainShutsDown, AnnounceShutdown, CloseListener, Drain, Wait, Unlink, Leave
      <4>3. CASE AcceptStep
        BY <4>3 DEF AcceptStep, PickListener, Accept, AcceptFails, AcceptRecovers, Admit
      <4>4. CASE \E c \in Conns : Finish(c)  BY <4>4 DEF Finish
      <4>5. CASE World  BY <4>5 DEF World, Connect, SendSignal
      <4>6. CASE UNCHANGED vars  BY <4>6 DEF vars
      <4> QED BY <1>2, <4>1, <4>2, <4>3, <4>4, <4>5, <4>6 DEF Next, MainStep, WatcherStep
    <3> QED BY <3>1, <3>2, <3>3, <3>4
  <2> QED BY <2>2, <2>3 DEF LoadedInv
<1> QED BY <1>1, <1>2

(* No interleaving of edits, file events and SIGHUPs leaves the proxy on a *)
(* configuration older than the one in the file.                           *)
THEOREM ReloadCorrect == Spec => []QuietMeansLoaded
<1>1. Init => MutexInv /\ LoadedInv
  BY ConstantAssumption DEF Init, MutexInv, LoadedInv, Inside
<1>2. ServerTypeOK /\ MutexInv /\ [Next]_vars => MutexInv'  BY MutexStep
<1>3. ServerTypeOK /\ FlagTypeOK /\ MutexInv /\ LoadedInv /\ [Next]_vars => LoadedInv'
  BY LoadedStep
<1>4. FlagTypeOK /\ LoadedInv => QuietMeansLoaded
  BY DEF LoadedInv, QuietMeansLoaded, FlagTypeOK
<1>5. TypeOK => ServerTypeOK /\ FlagTypeOK  BY DEF TypeOK
<1> QED BY <1>1, <1>2, <1>3, <1>4, <1>5, TypeCorrect, PTL DEF Spec

-----------------------------------------------------------------------------
(* Nobody waits on a listener that no one accepts on: what liveness of the *)
(* accept loop and of a waiting connection rests on.  Nothing here needs   *)
(* DistinctSockets.                                                        *)

AboutToClose(l) == \E r \in Reloaders : at[r] = "closeOld" /\ old[r] = l

(* acceptLoop is blocked in Accept only on the current listener, while the *)
(* server is in service, or on one whose Close is under way, which frees   *)
(* it: a swap or a shutdown never leaves it behind on a listener that      *)
(* stays open and that nobody will close.  It stops only when shutting     *)
(* down.                                                                   *)
AcceptNeverStranded ==
    /\ acceptAt = "accept" /\ using \in open =>
         (using = listener /\ InService) \/ AboutToClose(using)
    /\ acceptAt = "stopped" => shutdown

(* A connection in a backlog is in that of an open listener that is the    *)
(* current one, is about to become it, or is about to be closed.           *)
NoConnectionForgotten ==
    \A c \in Conns : state[c] = "queued" =>
        /\ queuedAt[c] \in open
        /\ \/ queuedAt[c] = listener \/ AboutToClose(queuedAt[c])
           \/ \E r \in Reloaders : at[r] = "swap" /\ fresh[r] = queuedAt[c]

(* Listeners are numbered in the order they were opened, so the one a      *)
(* reload opens is none that acceptLoop holds.                             *)
NumberInv ==
    /\ listener.no < made
    /\ \A r \in Reloaders : at[r] = "swap" => fresh[r].no < made
    /\ acceptAt = "accept" => using \in Listeners /\ using.no < made

AnnouncedInv ==
    at["main"] \in {"closeListener", "drain", "wait", "unlink", "leave", "exited"} => shutdown

LEMMA NumberStep ==
    ASSUME ServerTypeOK, LocalsInv, MutexInv, NumberInv, [Next]_vars
    PROVE  NumberInv'
<1> USE DEF NumberInv
<1>1. ASSUME NEW r \in Reloaders, Reload(r) PROVE NumberInv'
  <2> USE DEF ServerTypeOK
  <2>1. UNCHANGED <<acceptAt, using>>
    BY <1>1 DEF Reload, Load, OpenListener, OpenFails, SetListener, CloseOld, SetConfig
  <2>2. CASE Load(r) \/ OpenFails(r) \/ SetConfig(r)
    BY <2>1, <2>2 DEF Load, OpenFails, SetConfig
  <2>3. CASE CloseOld(r)
    BY <2>1, <2>3 DEF CloseOld, Close
  <2>4. CASE SetListener(r)
    <3>1. /\ listener' = fresh[r] /\ at[r] = "swap" /\ at'[r] = "closeOld" /\ made' = made
          /\ \A s \in Reloaders : s # r => at'[s] = at[s] /\ fresh'[s] = fresh[s]
      BY <2>4 DEF SetListener
    <3> QED BY <2>1, <3>1
  <2>5. CASE OpenListener(r)
    <3>1. /\ fresh'[r].no = made /\ made' = made + 1 /\ listener' = listener
          /\ \A s \in Reloaders : s # r => at'[s] = at[s] /\ fresh'[s] = fresh[s]
      BY <2>5 DEF OpenListener
    <3>2. listener.no \in Nat /\ made \in Nat  BY DEF Listeners
    <3>3. \A s \in Reloaders : s # r => at[s] # "swap"
      BY <2>5, ConstantAssumption DEF OpenListener, MutexInv, Inside
    <3>4. acceptAt = "accept" => using.no < made'
      BY <3>1, <3>2 DEF Listeners
    <3> QED BY <2>1, <3>1, <3>2, <3>3, <3>4
  <2> QED BY <1>1, <2>2, <2>3, <2>4, <2>5 DEF Reload
<1>2. CASE ~ \E r \in Reloaders : Reload(r)
  <2>1. Quiet  BY <1>2, QuietSteps
  <2>2. made' = made /\ listener' = listener
    BY <1>2, <2>1 DEF Quiet, Next, MainStep, MainShutsDown, WatcherStep, AcceptStep, World,
       TakeSignal, AnnounceShutdown, CloseListener, Close, Drain, Wait, Unlink, Leave,
       WatchStart, TakeEvent, WatchStops, PickListener, Accept, AcceptFails, AcceptRecovers,
       Admit, Finish, Connect, Edit, SendSignal, vars
  <2>3. \A r \in Reloaders : at'[r] = "swap" => at[r] = "swap" /\ fresh'[r] = fresh[r]
    BY <2>1 DEF Quiet, Inside
  <2>4. acceptAt' = "accept" => using' = listener \/ (acceptAt = "accept" /\ using' = using)
    BY <1>2 DEF Next, MainStep, MainShutsDown, WatcherStep, AcceptStep, World,
       TakeSignal, AnnounceShutdown, CloseListener, Close, Drain, Wait, Unlink, Leave,
       WatchStart, TakeEvent, WatchStops, PickListener, Accept, AcceptFails, AcceptRecovers,
       Admit, Finish, Connect, Edit, SendSignal, vars
  <2>5. listener \in Listeners  BY DEF ServerTypeOK
  <2> QED BY <2>2, <2>3, <2>4, <2>5
<1> QED BY <1>1, <1>2

LEMMA AnnouncedStep ==
    ASSUME ServerTypeOK, AnnouncedInv, [Next]_vars
    PROVE  AnnouncedInv'
<1> USE DEF AnnouncedInv, ServerTypeOK
<1>1. ASSUME NEW r \in Reloaders, Reload(r) PROVE AnnouncedInv'
  BY <1>1 DEF Reload, Load, OpenListener, OpenFails, SetListener, CloseOld, SetConfig
<1>2. CASE MainShutsDown \/ TakeSignal
  BY <1>2 DEF MainShutsDown, TakeSignal, AnnounceShutdown, CloseListener, Drain, Wait, Unlink,
     Leave
<1>3. CASE WatchStart \/ TakeEvent \/ WatchStops
  BY <1>3 DEF WatchStart, TakeEvent, WatchStops
<1>4. CASE AcceptStep
  BY <1>4 DEF AcceptStep, PickListener, Accept, AcceptFails, AcceptRecovers, Admit
<1>5. CASE (\E c \in Conns : Finish(c)) \/ World \/ UNCHANGED vars
  BY <1>5 DEF Finish, World, Connect, Edit, SendSignal, vars
<1> QED BY <1>1, <1>2, <1>3, <1>4, <1>5 DEF Next, MainStep, WatcherStep

(* Who is closing a listener goes on to close it: only CloseOld ends that. *)
LEMMA ClosersStay ==
    ASSUME ServerTypeOK, [Next]_vars, NEW l, AboutToClose(l),
           \A r \in Reloaders : CloseOld(r) => old[r] # l
    PROVE  \E r \in Reloaders : at'[r] = "closeOld" /\ old'[r] = l
<1> PICK r \in Reloaders : at[r] = "closeOld" /\ old[r] = l  BY DEF AboutToClose
<1>1. CASE Quiet
  BY <1>1 DEF Quiet, Inside
<1>2. ASSUME NEW s \in Reloaders, Reload(s) PROVE at'[r] = "closeOld" /\ old'[r] = l
  <2> USE DEF ServerTypeOK
  <2>1. CASE Load(s) \/ OpenListener(s) \/ OpenFails(s) \/ SetConfig(s)
    BY <2>1 DEF Load, OpenListener, OpenFails, SetConfig
  <2>2. CASE SetListener(s)  BY <2>2 DEF SetListener
  <2>3. CASE CloseOld(s)
    <3>1. s # r  BY <2>3
    <3> QED BY <2>3, <3>1 DEF CloseOld
  <2> QED BY <1>2, <2>1, <2>2, <2>3 DEF Reload
<1> QED BY <1>1, <1>2, QuietSteps

LEMMA StrandStep ==
    ASSUME ServerTypeOK, LocalsInv, MutexInv, NumberInv, AnnouncedInv, AcceptNeverStranded,
           [Next]_vars
    PROVE  AcceptNeverStranded'
<1> DEFINE Blocked == acceptAt = "accept" /\ using \in open
           Freed == (using = listener /\ InService) \/ AboutToClose(using)
<1> USE DEF ServerTypeOK
<1>1. ASSUME NEW r \in Reloaders, Reload(r) PROVE AcceptNeverStranded'
  <2>1. /\ UNCHANGED <<acceptAt, using, shutdown>>
        /\ InService => InService'
    BY <1>1 DEF Reload, Load, OpenListener, OpenFails, SetListener, CloseOld, SetConfig,
       InService
  <2>2. SUFFICES ASSUME Blocked' PROVE Freed'
    BY <2>1 DEF AcceptNeverStranded
  <2>3. CASE Load(r) \/ OpenFails(r) \/ SetConfig(r)
    <3>1. UNCHANGED <<open, listener>> /\ ~ \E s \in Reloaders : CloseOld(s)
      BY <2>3 DEF Load, OpenFails, SetConfig, CloseOld
    <3>2. Freed  BY <2>1, <2>2, <3>1 DEF AcceptNeverStranded
    <3>3. AboutToClose(using) => AboutToClose(using)'  BY <2>1, <3>1, ClosersStay DEF AboutToClose
    <3> QED BY <2>1, <3>1, <3>2, <3>3 DEF AboutToClose
  <2>4. CASE OpenListener(r)
    <3> DEFINE l == [no |-> made, addr |-> EffListen(loaded[r])]
    <3>1. open' = open \cup {l} /\ listener' = listener /\ ~ \E s \in Reloaders : CloseOld(s)
      BY <2>4 DEF OpenListener, CloseOld
    <3>2. using # l
      BY <2>1, <2>2 DEF NumberInv, Listeners
    <3> HIDE DEF l
    <3>3. Freed  BY <2>1, <2>2, <3>1, <3>2 DEF AcceptNeverStranded
    <3>4. AboutToClose(using) => AboutToClose(using)'  BY <2>1, <3>1, ClosersStay DEF AboutToClose
    <3> QED BY <2>1, <3>1, <3>3, <3>4 DEF AboutToClose
  <2>5. CASE SetListener(r)
    <3>1. /\ at[r] = "swap" /\ at'[r] = "closeOld" /\ old'[r] = listener /\ open' = open
      BY <2>5 DEF SetListener
    <3>2. Freed  BY <2>1, <2>2, <3>1 DEF AcceptNeverStranded
    <3>3. ~ AboutToClose(using)
      BY <3>1, ConstantAssumption DEF AboutToClose, MutexInv, Inside
    <3> QED BY <2>1, <3>1, <3>2, <3>3 DEF AboutToClose
  <2>6. CASE CloseOld(r)
    <3>1. /\ open' = open \ {old[r]} /\ listener' = listener
          /\ \A s \in Reloaders : CloseOld(s) => old[s] = old[r]
      BY <2>6, ConstantAssumption DEF CloseOld, Close, MutexInv, Inside
    <3>2. Freed /\ using # old[r]  BY <2>1, <2>2, <3>1 DEF AcceptNeverStranded
    <3>3. AboutToClose(using) => AboutToClose(using)'  BY <2>1, <3>1, <3>2, ClosersStay DEF AboutToClose
    <3> QED BY <2>1, <3>1, <3>2, <3>3 DEF AboutToClose
  <2> QED BY <1>1, <2>3, <2>4, <2>5, <2>6 DEF Reload
<1>2. CASE ~ \E r \in Reloaders : Reload(r)
  <2>1. \/ UNCHANGED listener /\ (AboutToClose(using) => AboutToClose(using)')
        \/ ~ UNCHANGED using
    BY <1>2, QuietSteps, ClosersStay DEF Quiet, Reload, AboutToClose
  <2>2. CASE AcceptStep
    <3>1. UNCHANGED <<at, listener, shutdown>>
      BY <2>2 DEF AcceptStep, PickListener, Accept, AcceptFails, AcceptRecovers, Admit
    <3>2. CASE PickListener
      <4>1. InService \/ shutdown  BY DEF AnnouncedInv, InService
      <4> QED BY <3>1, <3>2, <4>1 DEF PickListener, AcceptNeverStranded, InService
    <3>3. CASE (\E c \in Conns : Accept(c)) \/ AcceptFails \/ Admit
      BY <3>3 DEF Accept, AcceptFails, Admit, AcceptNeverStranded
    <3>4. CASE AcceptRecovers
      BY <3>1, <3>4 DEF AcceptRecovers, AcceptNeverStranded
    <3> QED BY <2>2, <3>2, <3>3, <3>4 DEF AcceptStep
  <2>3. CASE ~ AcceptStep
    <3>1. UNCHANGED <<acceptAt, using>> /\ (shutdown => shutdown')
      BY <1>2, <2>3 DEF Next, MainStep, MainShutsDown, WatcherStep, World,
         TakeSignal, AnnounceShutdown, CloseListener, Drain, Wait, Unlink, Leave,
         WatchStart, TakeEvent, WatchStops, Finish, Connect, Edit, SendSignal, vars
    <3>2. open' \subseteq open
      BY <1>2, <2>3 DEF Next, MainStep, MainShutsDown, WatcherStep, World,
         TakeSignal, AnnounceShutdown, CloseListener, Close, Drain, Wait, Unlink, Leave,
         WatchStart, TakeEvent, WatchStops, Finish, Connect, Edit, SendSignal, vars
    <3>3. SUFFICES ASSUME Blocked' PROVE Freed'
      BY <3>1 DEF AcceptNeverStranded
    <3>4. Freed  BY <3>1, <3>2, <3>3 DEF AcceptNeverStranded
    <3>5. CASE CloseListener
      <4>1. using # listener
        BY <3>1, <3>3, <3>5 DEF CloseListener, Close
      <4> QED BY <2>1, <3>1, <3>4, <4>1 DEF AboutToClose
    <3>6. CASE ~ CloseListener
      <4>1. InService => InService'
        BY <1>2, <2>3, <3>6 DEF InService, Next, MainStep, MainShutsDown, WatcherStep, World,
           TakeSignal, AnnounceShutdown, Drain, Wait, Unlink, Leave, MainPlaces,
           WatchStart, TakeEvent, WatchStops, Finish, Connect, Edit, SendSignal, vars
      <4> QED BY <2>1, <3>1, <3>4, <4>1 DEF AboutToClose
    <3> QED BY <3>5, <3>6
  <2> QED BY <2>2, <2>3
<1> QED BY <1>1, <1>2

(* The open listeners are the current one, and what a reload in progress   *)
(* is about to install or to close: none leaks.                            *)
Known(l) ==
    \/ l = listener \/ AboutToClose(l)
    \/ \E r \in Reloaders : at[r] = "swap" /\ fresh[r] = l

QueuedInv ==
    /\ \A l \in open : Known(l)
    /\ \A c \in Conns : state[c] = "queued" => queuedAt[c] \in open

LEMMA KnownStep ==
    ASSUME ServerTypeOK, MutexInv, [Next]_vars, \A l \in open : Known(l)
    PROVE  \A l \in open' : Known(l)'
<1> USE DEF ServerTypeOK
<1>1. ASSUME NEW r \in Reloaders, Reload(r) PROVE \A l \in open' : Known(l)'
  <2> USE DEF Known, AboutToClose
  <2>1. CASE Load(r) \/ OpenFails(r) \/ SetConfig(r)
    <3>1. /\ UNCHANGED <<open, listener, fresh, old>> /\ at[r] \notin {"swap", "closeOld"}
          /\ \A s \in Reloaders : s # r => at'[s] = at[s]
      BY <2>1 DEF Load, OpenFails, SetConfig
    <3> QED BY <3>1
  <2>2. CASE OpenListener(r)
    <3>1. /\ open' = open \cup {fresh'[r]} /\ listener' = listener /\ old' = old
          /\ at[r] = "open" /\ at'[r] = "swap"
          /\ \A s \in Reloaders : s # r => at'[s] = at[s] /\ fresh'[s] = fresh[s]
      BY <2>2 DEF OpenListener
    <3> QED BY <3>1
  <2>3. CASE SetListener(r)
    <3>1. /\ open' = open /\ at[r] = "swap" /\ at'[r] = "closeOld"
          /\ listener' = fresh[r] /\ old'[r] = listener
      BY <2>3 DEF SetListener
    <3>2. \A s \in Reloaders : s # r => at[s] \notin {"swap", "closeOld"}
      BY <3>1, ConstantAssumption DEF MutexInv, Inside
    <3> QED BY <3>1, <3>2
  <2>4. CASE CloseOld(r)
    <3>1. /\ open' = open \ {old[r]} /\ UNCHANGED <<listener, fresh>> /\ at[r] = "closeOld"
          /\ \A s \in Reloaders : s # r => at'[s] = at[s] /\ old'[s] = old[s]
      BY <2>4 DEF CloseOld, Close
    <3> QED BY <3>1
  <2> QED BY <1>1, <2>1, <2>2, <2>3, <2>4 DEF Reload
<1>2. CASE ~ \E r \in Reloaders : Reload(r)
  <2>1. Quiet  BY <1>2, QuietSteps
  <2>2. open' \subseteq open
    BY <1>2 DEF Next, MainStep, MainShutsDown, WatcherStep, AcceptStep, World,
       TakeSignal, AnnounceShutdown, CloseListener, Close, Drain, Wait, Unlink, Leave,
       WatchStart, TakeEvent, WatchStops, PickListener, Accept, AcceptFails, AcceptRecovers,
       Admit, Finish, Connect, Edit, SendSignal, vars
  <2> QED BY <2>1, <2>2 DEF Quiet, Inside, Known, AboutToClose
<1> QED BY <1>1, <1>2

LEMMA QueuedStep ==
    ASSUME ServerTypeOK, ConnTypeOK, QueuedInv, [Next]_vars
    PROVE  \A c \in Conns : state'[c] = "queued" => queuedAt'[c] \in open'
<1> USE DEF QueuedInv, ServerTypeOK, ConnTypeOK
<1>1. ASSUME NEW l, Close(l)
      PROVE  \A c \in Conns : state'[c] = "queued" => queuedAt'[c] \in open'
  BY <1>1 DEF Close
<1>2. ASSUME NEW r \in Reloaders, Reload(r)
      PROVE  \A c \in Conns : state'[c] = "queued" => queuedAt'[c] \in open'
  <2>1. CASE CloseOld(r)  BY <1>1, <2>1 DEF CloseOld
  <2>2. CASE ~ CloseOld(r)
    BY <1>2, <2>2 DEF Reload, Load, OpenListener, OpenFails, SetListener, SetConfig
  <2> QED BY <2>1, <2>2
<1>3. CASE CloseListener  BY <1>1, <1>3 DEF CloseListener
<1>4. CASE Leave  BY <1>4 DEF Leave
<1>5. CASE TakeSignal \/ AnnounceShutdown \/ Drain \/ Wait \/ Unlink
  BY <1>5 DEF TakeSignal, AnnounceShutdown, Drain, Wait, Unlink
<1>6. CASE WatchStart \/ TakeEvent \/ WatchStops
  BY <1>6 DEF WatchStart, TakeEvent, WatchStops
<1>7. CASE AcceptStep
  BY <1>7 DEF AcceptStep, PickListener, Accept, AcceptFails, AcceptRecovers, Admit
<1>8. CASE \E c \in Conns : Finish(c)  BY <1>8 DEF Finish
<1>9. CASE World  BY <1>9 DEF World, Connect, Edit, SendSignal
<1>10. CASE UNCHANGED vars  BY <1>10 DEF vars
<1> QED BY <1>2, <1>3, <1>4, <1>5, <1>6, <1>7, <1>8, <1>9, <1>10
        DEF Next, MainStep, MainShutsDown, WatcherStep

(* Whatever order reloads, failures and the shutdown come in, and however  *)
(* the addresses are spelled, acceptLoop is never blocked on a listener    *)
(* that has been replaced and forgotten, and no client waits in the        *)
(* backlog of one.                                                         *)
THEOREM NothingStranded == Spec => [](AcceptNeverStranded /\ NoConnectionForgotten)
<1>1. Init => MutexInv /\ NumberInv /\ AnnouncedInv /\ AcceptNeverStranded /\ QueuedInv
  <2> SUFFICES ASSUME Init
               PROVE  MutexInv /\ NumberInv /\ AnnouncedInv /\ AcceptNeverStranded /\ QueuedInv
    OBVIOUS
  <2>1. \A r \in Reloaders : at[r] \notin Inside  BY DEF Init, Inside
  <2>2. MutexInv  BY <2>1, ConstantAssumption DEF Init, MutexInv
  <2>3. NumberInv /\ AnnouncedInv /\ AcceptNeverStranded
    BY DEF Init, NumberInv, AnnouncedInv, AcceptNeverStranded
  <2>4. QueuedInv  BY DEF Init, QueuedInv, Known
  <2> QED BY <2>2, <2>3, <2>4
<1>2. ServerTypeOK /\ MutexInv /\ [Next]_vars => MutexInv'  BY MutexStep
<1>3. ServerTypeOK /\ LocalsInv /\ MutexInv /\ NumberInv /\ [Next]_vars => NumberInv'
  BY NumberStep
<1>4. ServerTypeOK /\ AnnouncedInv /\ [Next]_vars => AnnouncedInv'  BY AnnouncedStep
<1>5. ServerTypeOK /\ LocalsInv /\ MutexInv /\ NumberInv /\ AnnouncedInv
      /\ AcceptNeverStranded /\ [Next]_vars => AcceptNeverStranded'
  BY StrandStep
<1>6. ServerTypeOK /\ ConnTypeOK /\ MutexInv /\ QueuedInv /\ [Next]_vars => QueuedInv'
  BY KnownStep, QueuedStep DEF QueuedInv
<1>7. QueuedInv => NoConnectionForgotten
  BY DEF QueuedInv, NoConnectionForgotten, Known
<1>8. TypeOK => ConnTypeOK  BY DEF TypeOK
<1> QED BY <1>1, <1>2, <1>3, <1>4, <1>5, <1>6, <1>7, <1>8, ServerTypes, TypeCorrect, PTL
        DEF Spec

(* A queued SIGTERM stays queued until main takes it and starts to shut    *)
(* down: neither a signal that follows nor a reload that main is in can    *)
(* replace it.                                                             *)
TermKept == signals = <<"TERM">> => signals' = signals \/ at'["main"] = "shutdown"

THEOREM TermIsKept == Spec => [][TermKept]_vars
<1>1. TypeOK /\ [Next]_vars => [TermKept]_vars
  <2> SUFFICES ASSUME TypeOK, Next, signals = <<"TERM">>
               PROVE  signals' = signals \/ at'["main"] = "shutdown"
    BY DEF TermKept
  <2>1. CASE TakeSignal
    BY <2>1 DEF TakeSignal, TypeOK, ServerTypeOK
  <2>2. CASE \E r \in Reloaders : Reload(r)
    BY <2>2 DEF Reload, Load, OpenListener, OpenFails, SetListener, CloseOld, SetConfig
  <2>3. CASE MainShutsDown
    BY <2>3 DEF MainShutsDown, AnnounceShutdown, CloseListener, Drain, Wait, Unlink, Leave
  <2>4. CASE WatchStart \/ TakeEvent \/ WatchStops
    BY <2>4 DEF WatchStart, TakeEvent, WatchStops
  <2>5. CASE AcceptStep
    BY <2>5 DEF AcceptStep, PickListener, Accept, AcceptFails, AcceptRecovers, Admit
  <2>6. CASE (\E c \in Conns : Finish(c)) \/ World
    BY <2>6 DEF Finish, World, Connect, Edit, SendSignal, Offer
  <2> QED BY <2>1, <2>2, <2>3, <2>4, <2>5, <2>6 DEF Next, MainStep, WatcherStep
<1> QED BY <1>1, TypeCorrect, PTL DEF Spec
=============================================================================
