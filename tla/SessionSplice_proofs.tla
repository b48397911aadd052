------------------------- MODULE SessionSplice_proofs -------------------------
(***************************************************************************)
(* Proofs about SessionSplice, for every value of its constants.           *)
(*                                                                         *)
(* TypeOK is not inductive alone: that the bytes left of a message stay a  *)
(* natural number depends on the frame in hand being cut from it.  FrameInv*)
(* says what the locals of pumpDownstream mean at each of its places.      *)
(* ConnectionInv and StreamInv then relate the proxy's two budgets to what *)
(* the daemon granted: a budget is never above the grant, counting the     *)
(* frame that is written and not yet spent, or spent and not yet written.  *)
(*                                                                         *)
(* The second half is about what the progress of a session rests on.       *)
(* ExactInv and LedgerInv make equations of the budgets and of the grants, *)
(* so that a pump that waits is owed what it waits for; ConnCreditInv is   *)
(* the client's account of the connection, so that a message it has begun  *)
(* can be sent to its end.                                                 *)
(***************************************************************************)
EXTENDS SessionSplice, TLAPS

Cutting == downAt \in {"wait", "asleep", "write", "spend"} /\ job = "cut"

FrameInv ==
    /\ targets \subseteq opened
    /\ downAt = "emit" => job = "cut" /\ sid \in targets
    /\ Cutting => need <= msg /\ sid \in targets
    /\ downAt \in {"wait", "asleep", "spend"} /\ job = "relay" => sid \in Others
    /\ downAt = "write" /\ job = "relay" => sid \in Others \/ OnWire = 0
    /\ downAt \in {"read", "done"} \/ job = "cut" => pad = 0

ConnectionInv ==
    /\ connWin >= 0
    /\ downAt = "spend" \/ (downAt = "write" /\ job = "cut") => need <= connWin
    /\ IF job = "cut" /\ downAt = "spend" THEN connWin <= ConnectionCredit + need
       ELSE IF job = "relay" /\ downAt = "write" THEN connWin + need <= ConnectionCredit
       ELSE connWin <= ConnectionCredit

StreamInv ==
    \A s \in targets :
        strmWin <= daemonWin[s]
                   + (IF job = "cut" /\ downAt = "spend" /\ sid = s THEN need ELSE 0)

SingleTarget == \A s, t \in Targets : s = t

LEMMA OtherIsFrame == Other \in Frames
  BY DEF Other, Frames, Windows

LEMMA InitType == Init => TypeOK /\ FrameInv
<1> SUFFICES ASSUME Init PROVE TypeOK /\ FrameInv
    OBVIOUS
<1>1. ProxyTypeOK
  BY ConstantAssumption, OtherIsFrame DEF Init, ProxyTypeOK
<1>2. DownTypeOK
  BY DEF Init, DownTypeOK, Windows
<1>3. PeerTypeOK
  BY ConstantAssumption DEF Init, PeerTypeOK
<1>4. FlagTypeOK
  BY DEF Init, FlagTypeOK
<1>5. FrameInv
  BY DEF Init, FrameInv, Cutting
<1>6. QED
  BY <1>1, <1>2, <1>3, <1>4, <1>5 DEF TypeOK

LEMMA StepFlags == FlagTypeOK /\ [Next]_vars => FlagTypeOK'
<1> SUFFICES ASSUME FlagTypeOK, [Next]_vars PROVE FlagTypeOK'
  OBVIOUS
<1> USE DEF FlagTypeOK
<1>1. CASE DaemonSends \/ UpStep
  BY <1>1 DEF DaemonSends, UpStep, ReadHeaders, ReadWindowUpdate, ReadSettings, ReadOther, UpReads,
     Forward, UpReadFails, MarkClosed
<1>2. CASE ClientSendsFrame
  BY <1>2 DEF ClientSendsFrame, ReadTargetData, ReadOtherData, ReadControl, proxyVars
<1>3. CASE DownStep
  BY <1>3 DEF DownStep, DownReadFails, TakeMessage, EmitDone, WaitSleeps, WaitPasses, WaitFails,
     WriteFails, GiveUp, Write, Spend, proxyVars
<1>4. CASE TearDown \/ (\E p \in {"client", "daemon"} : PeerCloses(p)) \/ UNCHANGED vars
  BY <1>4 DEF TearDown, PeerCloses, vars, proxyVars
<1>5. QED
  BY <1>1, <1>2, <1>3, <1>4 DEF Next

LEMMA StepType == TypeOK /\ FrameInv /\ [Next]_vars => TypeOK' /\ FrameInv'
<1> DEFINE Typed == ProxyTypeOK /\ DownTypeOK /\ PeerTypeOK /\ FrameInv
<1> SUFFICES ASSUME Typed, [Next]_vars PROVE Typed'
  BY StepFlags DEF TypeOK
<1> USE ConstantAssumption
    DEF ProxyTypeOK, DownTypeOK, PeerTypeOK, FrameInv, Cutting, Windows, Streams, OnWire
<1>1. ASSUME NEW s \in Streams, ReadHeaders(s) PROVE Typed'
  BY <1>1 DEF ReadHeaders, UpReads, MarkTarget, Frame, Frames, Awake, downVars
<1>2. ASSUME NEW id \in Windows, NEW k \in 1 .. owed[id], ReadWindowUpdate(id, k) PROVE Typed'
  BY <1>2 DEF ReadWindowUpdate, UpReads, ApplyWindowUpdate, Frame, Frames, Awake, downVars
<1>3. ASSUME NEW v \in WindowSizes, ReadSettings(v) PROVE Typed'
  BY <1>3 DEF ReadSettings, UpReads, ApplySettings, Frame, Frames, Awake, downVars
<1>4. ASSUME ReadOther PROVE Typed'
  BY <1>4, OtherIsFrame DEF ReadOther, UpReads, downVars
<1>5. ASSUME Forward PROVE Typed'
  BY <1>5, OtherIsFrame DEF Forward, ClientLearns, MarkClosed, Awake, Frames, downVars
<1>6. ASSUME UpReadFails PROVE Typed'
  BY <1>6 DEF UpReadFails, MarkClosed, Awake, downVars, peerVars
<1>7. ASSUME NEW s \in Targets, NEW n \in 0 .. MaxFrame, NEW m \in MessageLengths \cup {0},
             NEW p \in Paddings \cup {0}, ReadTargetData(s, n, m, p)
      PROVE Typed'
  <2>1. togo' \in [Streams -> Nat] /\ Held(s, n) \in Nat
    BY <1>7 DEF ReadTargetData, Held
  <2>2. CASE Complete(togo'[s])
    BY <1>7, <2>1, <2>2 DEF ReadTargetData, DownReads, ClientSends
  <2>3. CASE ~Complete(togo'[s])
    BY <1>7, <2>1, <2>3 DEF ReadTargetData, DownReads, ClientSends
  <2>4. QED
    BY <2>2, <2>3
<1>8. ASSUME NEW s \in Others, NEW n \in 0 .. MaxFrame, NEW p \in Paddings \cup {0},
             ReadOtherData(s, n, p)
      PROVE Typed'
  BY <1>8 DEF ReadOtherData, DownReads, ClientSends, proxyVars
<1>9. ASSUME NEW id \in Windows, ReadControl(id) PROVE Typed'
  BY <1>9 DEF ReadControl, DownReads, proxyVars
<1>10. ASSUME DownReadFails PROVE Typed'
  BY <1>10 DEF DownReadFails, downVars, peerVars
<1>11. ASSUME NEW m \in 1 .. rest, NEW g \in Growth \cup {0}, NEW pk \in {"stat", "other"},
              TakeMessage(m, g, pk)
      PROVE Typed'
  BY <1>11 DEF TakeMessage, Min2, proxyVars, peerVars
<1>12. ASSUME EmitDone PROVE Typed'
  BY <1>12 DEF EmitDone, Idle, proxyVars, peerVars
<1>13. ASSUME WaitSleeps \/ WaitPasses PROVE Typed'
  BY <1>13 DEF WaitSleeps, WaitPasses, proxyVars, downVars, peerVars
<1>14. ASSUME WaitFails \/ WriteFails PROVE Typed'
  <2>1. CASE job = "cut" /\ packet = "stat"
    BY <1>14, <2>1 DEF WaitFails, WriteFails, GiveUp, downVars, peerVars
  <2>2. CASE ~(job = "cut" /\ packet = "stat")
    <3>1. downAt' = "done" /\ Idle
      BY <1>14, <2>2 DEF WaitFails, WriteFails, GiveUp
    <3>2. UNCHANGED <<connWin, strmWin, initWin, targets, buf, upAt, frame, peerVars,
                      messages, settings>>
      BY <1>14 DEF WaitFails, WriteFails, GiveUp
    <3>3. QED
      BY <3>1, <3>2 DEF Idle, peerVars
  <2>3. QED
    BY <2>1, <2>2
<1>15. ASSUME Write PROVE Typed'
  BY <1>15 DEF Write, Idle, proxyVars, downVars
<1>16. ASSUME Spend PROVE Typed'
  BY <1>16 DEF Spend, SpendWindow, Left, Min2, peerVars
<1>17. ASSUME TearDown PROVE Typed'
  BY <1>17 DEF TearDown, proxyVars, downVars, peerVars
<1>18. ASSUME NEW p \in {"client", "daemon"}, PeerCloses(p) PROVE Typed'
  BY <1>18 DEF PeerCloses, proxyVars, downVars
<1>19. ASSUME UNCHANGED vars PROVE Typed'
  BY <1>19 DEF vars, proxyVars, downVars, peerVars
<1>20. QED
  BY <1>1, <1>2, <1>3, <1>4, <1>5, <1>6, <1>7, <1>8, <1>9, <1>10, <1>11, <1>12, <1>13, <1>14, <1>15, <1>16, <1>17, <1>18, <1>19
  DEF Next, DaemonSends, UpStep, ClientSendsFrame, DownStep

(* TypeOK: no budget, buffer or cursor ever leaves its range; in           *)
(* particular writeMessage never cuts more than the message holds.         *)
THEOREM TypeCorrect == Spec => []TypeOK
  BY InitType, StepType, PTL DEF Spec

LEMMA InitConnection == Init => ConnectionInv
  BY ConstantAssumption DEF Init, ConnectionInv, ConnectionCredit, Windows

LEMMA StepConnection ==
    TypeOK /\ FrameInv /\ ConnectionInv /\ [Next]_vars => ConnectionInv'
<1> SUFFICES ASSUME ProxyTypeOK, DownTypeOK, PeerTypeOK, FrameInv, ConnectionInv, [Next]_vars
             PROVE ConnectionInv'
  BY DEF TypeOK
<1> USE ConstantAssumption
    DEF ProxyTypeOK, DownTypeOK, PeerTypeOK, FrameInv, Cutting, ConnectionInv, Windows, Streams,
        ConnectionCredit, OnWire
<1>1. ASSUME NEW s \in Streams, ReadHeaders(s) PROVE ConnectionInv'
  BY <1>1 DEF ReadHeaders, UpReads, MarkTarget, downVars
<1>2. ASSUME NEW id \in Windows, NEW k \in 1 .. owed[id], ReadWindowUpdate(id, k)
      PROVE ConnectionInv'
  BY <1>2 DEF ReadWindowUpdate, UpReads, ApplyWindowUpdate, Awake, downVars
<1>3. ASSUME NEW v \in WindowSizes, ReadSettings(v) PROVE ConnectionInv'
  BY <1>3 DEF ReadSettings, UpReads, ApplySettings, Awake, downVars
<1>4. ASSUME ReadOther PROVE ConnectionInv'
  BY <1>4 DEF ReadOther, UpReads, downVars
<1>5. ASSUME Forward \/ UpReadFails PROVE ConnectionInv'
  BY <1>5 DEF Forward, UpReadFails, MarkClosed, Awake, downVars, peerVars
<1>6. ASSUME NEW s \in Targets, NEW n \in 0 .. MaxFrame, NEW m \in MessageLengths \cup {0},
             NEW p \in Paddings \cup {0}, ReadTargetData(s, n, m, p)
      PROVE ConnectionInv'
  BY <1>6 DEF ReadTargetData, DownReads
<1>7. ASSUME NEW s \in Others, NEW n \in 0 .. MaxFrame, NEW p \in Paddings \cup {0},
             ReadOtherData(s, n, p)
      PROVE ConnectionInv'
  BY <1>7 DEF ReadOtherData, DownReads, proxyVars
<1>8. ASSUME NEW id \in Windows, ReadControl(id) PROVE ConnectionInv'
  BY <1>8 DEF ReadControl, DownReads, proxyVars
<1>9. ASSUME DownReadFails PROVE ConnectionInv'
  BY <1>9 DEF DownReadFails, downVars, peerVars
<1>10. ASSUME NEW m \in 1 .. rest, NEW g \in Growth \cup {0}, NEW pk \in {"stat", "other"},
              TakeMessage(m, g, pk)
      PROVE ConnectionInv'
  BY <1>10 DEF TakeMessage, proxyVars, peerVars
<1>11. ASSUME EmitDone PROVE ConnectionInv'
  BY <1>11 DEF EmitDone, Idle, proxyVars, peerVars
<1>12. ASSUME WaitSleeps PROVE ConnectionInv'
  BY <1>12 DEF WaitSleeps, proxyVars, downVars, peerVars
<1>13. ASSUME WaitPasses PROVE ConnectionInv'
  BY <1>13 DEF WaitPasses, Covered, proxyVars, downVars, peerVars
<1>14. ASSUME WaitFails \/ WriteFails PROVE ConnectionInv'
  BY <1>14 DEF WaitFails, WriteFails, GiveUp, Idle, downVars, peerVars
<1>15. ASSUME Write PROVE ConnectionInv'
  BY <1>15 DEF Write, Idle, proxyVars, downVars
<1>16. ASSUME Spend PROVE ConnectionInv'
  BY <1>16 DEF Spend, SpendWindow, peerVars
<1>17. ASSUME TearDown PROVE ConnectionInv'
  BY <1>17 DEF TearDown, proxyVars, downVars, peerVars
<1>18. ASSUME NEW p \in {"client", "daemon"}, PeerCloses(p) PROVE ConnectionInv'
  BY <1>18 DEF PeerCloses, proxyVars, downVars
<1>19. ASSUME UNCHANGED vars PROVE ConnectionInv'
  BY <1>19 DEF vars, proxyVars, downVars, peerVars
<1>20. QED
  BY <1>1, <1>2, <1>3, <1>4, <1>5, <1>6, <1>7, <1>8, <1>9, <1>10, <1>11, <1>12, <1>13, <1>14, <1>15, <1>16, <1>17, <1>18, <1>19
  DEF Next, DaemonSends, UpStep, ClientSendsFrame, DownStep

(* However many Dockerfile streams there are, whatever the edits do to the *)
(* length of messages and however the daemon's frames fall between the     *)
(* steps of pumpDownstream, the proxy never sends the daemon more DATA     *)
(* than the connection window allows and the padding relayed so far: a     *)
(* client that does not pad never makes it overrun the window.             *)
THEOREM ConnectionSafe == Spec => []ConnectionNeverOverrun
<1>1. TypeOK /\ ConnectionInv => ConnectionNeverOverrun
  BY DEF TypeOK, ProxyTypeOK, DownTypeOK, PeerTypeOK, ConnectionInv,
     ConnectionNeverOverrun, ConnectionCredit, Windows
<1>2. QED
  BY <1>1, InitType, StepType, InitConnection, StepConnection, PTL DEF Spec

(* With one target the proxy's single stream budget is that stream's; with *)
(* two it is not, and StreamInv fails.                                     *)
LEMMA InitStream == Init => StreamInv
  BY DEF Init, StreamInv

LEMMA StepStream ==
    ASSUME SingleTarget
    PROVE  TypeOK /\ FrameInv /\ StreamInv /\ [Next]_vars => StreamInv'
<1> SUFFICES ASSUME ProxyTypeOK, DownTypeOK, PeerTypeOK, FrameInv, StreamInv, [Next]_vars
             PROVE StreamInv'
  BY DEF TypeOK
<1> USE SingleTarget, ConstantAssumption
    DEF ProxyTypeOK, DownTypeOK, PeerTypeOK, FrameInv, Cutting, StreamInv, Windows, Streams,
        SingleTarget, OnWire
<1>1. ASSUME NEW s \in Streams, ReadHeaders(s) PROVE StreamInv'
  BY <1>1 DEF ReadHeaders, UpReads, MarkTarget, downVars
<1>2. ASSUME NEW id \in Windows, NEW k \in 1 .. owed[id], ReadWindowUpdate(id, k)
      PROVE StreamInv'
  BY <1>2 DEF ReadWindowUpdate, UpReads, ApplyWindowUpdate, Awake, downVars
<1>3. ASSUME NEW v \in WindowSizes, ReadSettings(v) PROVE StreamInv'
  BY <1>3 DEF ReadSettings, UpReads, ApplySettings, Awake, downVars
<1>4. ASSUME ReadOther PROVE StreamInv'
  BY <1>4 DEF ReadOther, UpReads, downVars
<1>5. ASSUME Forward \/ UpReadFails PROVE StreamInv'
  BY <1>5 DEF Forward, UpReadFails, MarkClosed, Awake, downVars, peerVars
<1>6. ASSUME NEW s \in Targets, NEW n \in 0 .. MaxFrame, NEW m \in MessageLengths \cup {0},
             NEW p \in Paddings \cup {0}, ReadTargetData(s, n, m, p)
      PROVE StreamInv'
  BY <1>6 DEF ReadTargetData, DownReads
<1>7. ASSUME NEW s \in Others, NEW n \in 0 .. MaxFrame, NEW p \in Paddings \cup {0},
             ReadOtherData(s, n, p)
      PROVE StreamInv'
  BY <1>7 DEF ReadOtherData, DownReads, proxyVars
<1>8. ASSUME NEW id \in Windows, ReadControl(id) PROVE StreamInv'
  BY <1>8 DEF ReadControl, DownReads, proxyVars
<1>9. ASSUME DownReadFails PROVE StreamInv'
  BY <1>9 DEF DownReadFails, downVars, peerVars
<1>10. ASSUME NEW m \in 1 .. rest, NEW g \in Growth \cup {0}, NEW pk \in {"stat", "other"},
              TakeMessage(m, g, pk)
      PROVE StreamInv'
  BY <1>10 DEF TakeMessage, proxyVars, peerVars
<1>11. ASSUME EmitDone PROVE StreamInv'
  BY <1>11 DEF EmitDone, Idle, proxyVars, peerVars
<1>12. ASSUME WaitSleeps PROVE StreamInv'
  BY <1>12 DEF WaitSleeps, proxyVars, downVars, peerVars
<1>13. ASSUME WaitPasses PROVE StreamInv'
  BY <1>13 DEF WaitPasses, Covered, proxyVars, downVars, peerVars
<1>14. ASSUME WaitFails \/ WriteFails PROVE StreamInv'
  BY <1>14 DEF WaitFails, WriteFails, GiveUp, Idle, downVars, peerVars
<1>15. ASSUME Write PROVE StreamInv'
  BY <1>15 DEF Write, Idle, proxyVars, downVars
<1>16. ASSUME Spend PROVE StreamInv'
  BY <1>16 DEF Spend, SpendWindow, peerVars
<1>17. ASSUME TearDown PROVE StreamInv'
  BY <1>17 DEF TearDown, proxyVars, downVars, peerVars
<1>18. ASSUME NEW p \in {"client", "daemon"}, PeerCloses(p) PROVE StreamInv'
  BY <1>18 DEF PeerCloses, proxyVars, downVars
<1>19. ASSUME UNCHANGED vars PROVE StreamInv'
  BY <1>19 DEF vars, proxyVars, downVars, peerVars
<1>20. QED
  BY <1>1, <1>2, <1>3, <1>4, <1>5, <1>6, <1>7, <1>8, <1>9, <1>10, <1>11, <1>12, <1>13, <1>14, <1>15, <1>16, <1>17, <1>18, <1>19
  DEF Next, DaemonSends, UpStep, ClientSendsFrame, DownStep

(* A frame is released toward the daemon only into credit the daemon has   *)
(* granted: on the connection, and for a frame the proxy cuts also on its  *)
(* stream, provided one session syncs its Dockerfile on one stream.        *)
THEOREM ReleaseSafe ==
    ASSUME SingleTarget
    PROVE  Spec => ReleasesWithinCredit
<1> DEFINE Inv == TypeOK /\ FrameInv /\ ConnectionInv /\ StreamInv
           Release == downAt = "wait" /\ downAt' \in {"write", "spend"}
                        => /\ need <= ConnectionCredit
                           /\ job = "cut" => need <= daemonWin[sid]
<1>1. Init => Inv
  BY InitType, InitConnection, InitStream
<1>2. Inv /\ [Next]_vars => Inv'
  BY StepType, StepConnection, StepStream
<1>3. Inv /\ [Next]_vars => [Release]_vars
  <2> SUFFICES ASSUME Inv, Next, downAt = "wait", downAt' \in {"write", "spend"}
               PROVE /\ need <= ConnectionCredit
                     /\ job = "cut" => need <= daemonWin[sid]
    OBVIOUS
  <2>1. WaitPasses
    BY DEF Next, DaemonSends, UpStep, ClientSendsFrame, DownStep, ReadHeaders, MarkTarget,
       ReadWindowUpdate, ApplyWindowUpdate, ReadSettings, ApplySettings, ReadOther, Forward,
       UpReadFails, MarkClosed, Awake, ReadTargetData, ReadOtherData, ReadControl, DownReads,
       DownReadFails, TakeMessage, EmitDone, WaitSleeps, WaitFails, WriteFails, GiveUp,
       Write, Spend, TearDown, PeerCloses
  <2>2. need <= connWin /\ need <= strmWin
    BY <2>1 DEF WaitPasses, Covered
  <2>3. need <= ConnectionCredit
    BY <2>2 DEF TypeOK, ProxyTypeOK, DownTypeOK, PeerTypeOK, ConnectionInv,
       ConnectionCredit, Windows
  <2>4. ASSUME job = "cut" PROVE need <= daemonWin[sid]
    BY <2>2, <2>4 DEF TypeOK, ProxyTypeOK, DownTypeOK, PeerTypeOK, FrameInv, Cutting,
       StreamInv, Windows, Streams
  <2>5. QED
    BY <2>3, <2>4
<1>4. QED
  BY <1>1, <1>2, <1>3, PTL DEF Spec, ReleasesWithinCredit

(* Steps that move no credit: what the daemon granted and what is in       *)
(* flight, on each window the sender keeps, stay as they are.              *)
SameCredit ==
    \A id \in Targets \cup {Connection} :
        Granted(id)' - Debt(id)' = Granted(id) - Debt(id)

LEMMA SameCreditStutters == SameCredit => SenderCredit' = SenderCredit
  BY DEF SameCredit, SenderCredit

LEMMA QuietSteps ==
    ASSUME TypeOK, FrameInv,
           \/ ReadOther \/ Forward \/ UpReadFails
           \/ \E s \in Targets, n \in 0 .. MaxFrame, m \in MessageLengths \cup {0},
                    p \in Paddings \cup {0} : ReadTargetData(s, n, m, p)
           \/ \E s \in Others, n \in 0 .. MaxFrame, p \in Paddings \cup {0} : ReadOtherData(s, n, p)
           \/ \E id \in Windows : ReadControl(id)
           \/ DownReadFails \/ EmitDone \/ WaitSleeps \/ WaitFails
           \/ \E m \in 1 .. rest, g \in Growth \cup {0}, pk \in {"stat", "other"} :
                    TakeMessage(m, g, pk)
           \/ Spend \/ Write
    PROVE  SameCredit /\ UNCHANGED opened
<1> USE ConstantAssumption
    DEF TypeOK, ProxyTypeOK, DownTypeOK, PeerTypeOK, FrameInv, Cutting, Windows, Streams,
        SameCredit, Granted, ConnectionCredit, OnWire, Debt, InFlight
<1>1. CASE ReadOther \/ Forward \/ UpReadFails
  BY <1>1 DEF ReadOther, UpReads, Forward, UpReadFails, MarkClosed, Awake, downVars, peerVars
<1>2. CASE \E s \in Targets, n \in 0 .. MaxFrame, m \in MessageLengths \cup {0},
             p \in Paddings \cup {0} : ReadTargetData(s, n, m, p)
  BY <1>2 DEF ReadTargetData, DownReads
<1>3. CASE \E s \in Others, n \in 0 .. MaxFrame, p \in Paddings \cup {0} : ReadOtherData(s, n, p)
  BY <1>3 DEF ReadOtherData, DownReads
<1>4. CASE \E id \in Windows : ReadControl(id)
  BY <1>4 DEF ReadControl, DownReads
<1>5. CASE DownReadFails \/ EmitDone \/ WaitSleeps
  BY <1>5 DEF DownReadFails, EmitDone, WaitSleeps, Idle, downVars, peerVars
<1>6. CASE WaitFails
  BY <1>6 DEF WaitFails, GiveUp, Idle, downVars, peerVars
<1>7. CASE \E m \in 1 .. rest, g \in Growth \cup {0}, pk \in {"stat", "other"} :
             TakeMessage(m, g, pk)
  BY <1>7 DEF TakeMessage, peerVars
<1>8. CASE Spend
  BY <1>8 DEF Spend, peerVars
<1>9. CASE Write
  BY <1>9 DEF Write, Idle, downVars
<1>10. QED
  BY <1>1, <1>2, <1>3, <1>4, <1>5, <1>6, <1>7, <1>8, <1>9

(* A step that moves the credit of one window only.                        *)
OnlyCredit(id) ==
    \A other \in (Targets \cup {Connection}) \ {id} :
        Granted(other)' - Debt(other)' = Granted(other) - Debt(other)

LEMMA OneCreditMoves ==
    ASSUME NEW id \in Targets \cup {Connection}, OnlyCredit(id)
    PROVE  SenderCredit' = [SenderCredit EXCEPT ![id] = SenderCredit'[id]]
  BY DEF OnlyCredit, SenderCredit

LEMMA CreditValue ==
    ASSUME NEW id \in Targets \cup {Connection}
    PROVE  /\ SenderCredit[id] = Granted(id) - Debt(id)
           /\ SenderCredit'[id] = Granted(id)' - Debt(id)'
  BY DEF SenderCredit

LEMMA InitSender == Init => Sender!Init
  BY ConstantAssumption
  DEF Init, Sender!Init, Sender!Windows, SenderCredit, Granted, ConnectionCredit, Debt, InFlight, Over, Windows, Streams

LEMMA StepSender ==
    ASSUME SingleTarget
    PROVE  TypeOK /\ FrameInv /\ ConnectionInv /\ StreamInv /\ [Next]_vars
             => [Sender!Next]_Sender!vars
<1> SUFFICES ASSUME TypeOK, FrameInv, ConnectionInv, StreamInv, [Next]_vars
             PROVE  [Sender!Next]_Sender!vars
  OBVIOUS
<1> USE ConstantAssumption
    DEF TypeOK, ProxyTypeOK, DownTypeOK, PeerTypeOK, FrameInv, Cutting, Windows, Streams
<1>1. ASSUME Over' PROVE Sender!Next
  BY <1>1 DEF Sender!Next
<1>2. ASSUME ~Over', Next PROVE Sender!Step \/ UNCHANGED <<SenderCredit, opened \cap Targets>>
  <2>1. ASSUME SameCredit, UNCHANGED opened
        PROVE  UNCHANGED <<SenderCredit, opened \cap Targets>>
    BY <2>1, SameCreditStutters
  <2>2. ASSUME NEW s \in Streams, ReadHeaders(s)
        PROVE Sender!Step \/ UNCHANGED <<SenderCredit, opened \cap Targets>>
    <3>1. CASE s \in Targets
      <4>1. Sender!Open(s)
        <5>1. OnlyCredit(s)
          BY <2>2, <3>1 DEF ReadHeaders, UpReads, MarkTarget, downVars, OnlyCredit, Granted, ConnectionCredit, Debt, InFlight
        <5>2. s \in Targets \ (opened \cap Targets)
              /\ opened' \cap Targets = (opened \cap Targets) \cup {s}
          BY <2>2, <3>1 DEF ReadHeaders
        <5>3. QED
          BY <3>1, <5>1, <5>2, OneCreditMoves DEF Sender!Open
      <4>2. QED
        BY <3>1, <4>1 DEF Sender!Step
    <3>2. CASE s \in Others
      BY <2>2, <3>2 DEF ReadHeaders, UpReads, downVars, SenderCredit, Granted,
             ConnectionCredit, Debt, InFlight
    <3>3. QED
      BY <3>1, <3>2
  <2>3. ASSUME NEW id \in Windows, NEW k \in 1 .. owed[id], ReadWindowUpdate(id, k)
        PROVE Sender!Step \/ UNCHANGED <<SenderCredit, opened \cap Targets>>
    <3>1. CASE id \in Targets \cup {Connection}
      <4>1. Sender!Grant(id)
        <5>1. OnlyCredit(id)
          BY <2>3, <3>1 DEF ReadWindowUpdate, UpReads, ApplyWindowUpdate, Awake, downVars,
             OnlyCredit, Granted, ConnectionCredit, Debt, InFlight
        <5>2. SenderCredit'[id] - SenderCredit[id] = k
          BY <2>3, <3>1, CreditValue DEF ReadWindowUpdate, UpReads, ApplyWindowUpdate, Awake,
             downVars, Granted, ConnectionCredit, Debt, InFlight
        <5>3. SenderCredit[id] \in Int /\ SenderCredit'[id] \in Int
          BY <2>3, <3>1, CreditValue DEF ReadWindowUpdate, UpReads, ApplyWindowUpdate, Awake,
             downVars, Granted, ConnectionCredit, Debt, InFlight
        <5>4. SenderCredit' = [SenderCredit EXCEPT ![id] = @ + Sender!Gained(id)]
          <6>1. SenderCredit[id] + Sender!Gained(id) = SenderCredit'[id]
            BY <5>3 DEF Sender!Gained
          <6>2. SenderCredit' = [SenderCredit EXCEPT ![id] = SenderCredit'[id]]
            BY <3>1, <5>1, OneCreditMoves
          <6>3. QED
            BY <6>1, <6>2
        <5>5. QED
          BY <2>3, <5>2, <5>4 DEF Sender!Grant, Sender!Gained, ReadWindowUpdate
      <4>2. QED
        BY <3>1, <4>1 DEF Sender!Step, Sender!Windows
    <3>2. CASE id \in Others
      BY <2>3, <3>2 DEF ReadWindowUpdate, UpReads, ApplyWindowUpdate, Awake, downVars,
         SenderCredit, Granted, ConnectionCredit, Debt, InFlight
    <3>3. QED
      BY <3>1, <3>2
  <2>4. ASSUME NEW v \in WindowSizes, ReadSettings(v) PROVE Sender!Step
    <3>1. Sender!Shift
      BY <2>4 DEF ReadSettings, UpReads, ApplySettings, Awake, downVars, Sender!Shift,
         Sender!Gained, Sender!Windows, SenderCredit, Granted, ConnectionCredit, Debt, InFlight
    <3>2. QED
      BY <3>1 DEF Sender!Step
  <2>5. ASSUME WaitPasses PROVE Sender!Step
    <3>1. need <= Granted(Connection) /\ Granted(Connection) \in Int
      BY <2>5 DEF WaitPasses, Covered, ConnectionInv, ConnectionCredit, Granted
    <3>2. CASE job = "cut"
      <4>1. need <= Granted(sid) /\ Granted(sid) \in Int
        BY <2>5, <3>2 DEF WaitPasses, Covered, StreamInv, Granted
      <4>2. Sender!Send(sid)
        <5>1. sid \in opened \cap Targets /\ sid # Connection
          BY <2>5, <3>2 DEF WaitPasses
        <5>2. \A id \in Targets \cup {Connection} :
                SenderCredit[id] = Granted(id)
                /\ SenderCredit'[id] = IF id \in {sid, Connection} THEN Granted(id) - need
                                       ELSE Granted(id)
          BY <2>5, <3>2, CreditValue
          DEF WaitPasses, proxyVars, downVars, peerVars, Granted, ConnectionCredit, Debt, InFlight
        <5>3. Sender!Spent(Connection) = need
          BY <3>1, <5>2 DEF Sender!Spent
        <5>4. SenderCredit' = [SenderCredit EXCEPT ![Connection] = @ - need, ![sid] = @ - need]
          BY <5>1, <5>2 DEF SenderCredit
        <5>5. QED
          BY <2>5, <3>1, <4>1, <5>1, <5>2, <5>3, <5>4 DEF Sender!Send, WaitPasses, peerVars
      <4>3. QED
        BY <2>5, <3>2, <4>2 DEF WaitPasses, Sender!Step
    <3>3. CASE job = "relay"
      <4>1. Sender!Relay
        <5>1. \A id \in Targets \cup {Connection} :
                SenderCredit[id] = Granted(id)
                /\ SenderCredit'[id] = IF id = Connection THEN Granted(id) - need
                                       ELSE Granted(id)
          BY <2>5, <3>3, CreditValue
          DEF WaitPasses, proxyVars, downVars, peerVars, Granted, ConnectionCredit, Debt, InFlight
        <5>2. Sender!Spent(Connection) = need
          BY <3>1, <5>1 DEF Sender!Spent
        <5>3. SenderCredit' = [SenderCredit EXCEPT ![Connection] = @ - need]
          BY <5>1 DEF SenderCredit
        <5>4. QED
          BY <2>5, <3>1, <5>1, <5>2, <5>3 DEF Sender!Relay, WaitPasses, peerVars
      <4>2. QED
        BY <4>1 DEF Sender!Step
    <3>4. QED
      BY <3>2, <3>3
  <2>6. ASSUME WriteFails \/ TearDown \/ \E p \in {"client", "daemon"} : PeerCloses(p)
        PROVE FALSE
    BY <1>2, <2>6 DEF WriteFails, GiveUp, TearDown, PeerCloses, Over, peerVars
  <2>7. QED
    BY <1>2, <2>1, <2>2, <2>3, <2>4, <2>5, <2>6, QuietSteps
    DEF Next, DaemonSends, UpStep, ClientSendsFrame, DownStep
<1>3. ASSUME ~Over', Next PROVE ~Over
  BY <1>3 DEF Over, Next, DaemonSends, UpStep, ClientSendsFrame, DownStep, ReadHeaders,
     ReadWindowUpdate, ReadSettings, ReadOther, UpReads, Forward, UpReadFails, ReadTargetData,
     ReadOtherData, ReadControl, DownReadFails, TakeMessage, EmitDone, WaitSleeps, WaitPasses,
     WaitFails, WriteFails, GiveUp, Write, Spend, TearDown, PeerCloses, peerVars
<1>4. ASSUME UNCHANGED vars PROVE UNCHANGED Sender!vars
  BY <1>4 DEF vars, proxyVars, downVars, peerVars, Sender!vars, SenderCredit, Granted, ConnectionCredit, Debt, InFlight, Over
<1>5. CASE UNCHANGED vars
  BY <1>4, <1>5
<1>6. CASE Next /\ Over'
  BY <1>1, <1>6
<1>7. CASE Next /\ ~Over'
  <2>1. Over' = Over
    BY <1>3, <1>7 DEF Over
  <2>2. Sender!Next \/ UNCHANGED <<SenderCredit, opened \cap Targets>>
    BY <1>2, <1>7 DEF Sender!Next
  <2>3. QED
    BY <2>1, <2>2 DEF Sender!vars
<1>8. QED
  BY <1>5, <1>6, <1>7

(* With one Dockerfile stream the splice is a correct HTTP/2 sender: it    *)
(* implements SendWindow, whose state is what the daemon granted less what *)
(* the proxy has released.                                                 *)
THEOREM SpliceImplementsSender ==
    ASSUME SingleTarget
    PROVE  Spec => ImplementsSender
<1> DEFINE Inv == TypeOK /\ FrameInv /\ ConnectionInv /\ StreamInv
<1>1. Init => Inv
  BY InitType, InitConnection, InitStream
<1>2. Inv /\ [Next]_vars => Inv'
  BY StepType, StepConnection, StepStream
<1>3. Inv /\ [Next]_vars => [Sender!Next]_Sender!vars
  BY StepSender
<1>4. QED
  BY <1>1, <1>2, <1>3, InitSender, PTL DEF Spec, ImplementsSender, Sender!Spec

(* A pump that sleeps over a frame of its own does so for want of credit:  *)
(* no WINDOW_UPDATE or SETTINGS frame that would cover it can slip between *)
(* the look at the windows and the sleep, provided no second target resets *)
(* the budget.                                                             *)
THEOREM SleepCorrect ==
    ASSUME SingleTarget
    PROVE  Spec => []SleepsOnlyWhenShort
<1>1. Init => SleepsOnlyWhenShort
  BY DEF Init, SleepsOnlyWhenShort
<1>2. TypeOK /\ FrameInv /\ SleepsOnlyWhenShort /\ [Next]_vars => SleepsOnlyWhenShort'
  <2> SUFFICES ASSUME ProxyTypeOK, DownTypeOK, FrameInv, SleepsOnlyWhenShort, [Next]_vars
               PROVE  SleepsOnlyWhenShort'
    BY DEF TypeOK
  <2> USE DEF SleepsOnlyWhenShort, Covered, ProxyTypeOK, DownTypeOK
  <2>1. ASSUME NEW s \in Streams, ReadHeaders(s) PROVE SleepsOnlyWhenShort'
    <3>1. CASE s \in Targets
      <4>1. ~(downAt = "asleep" /\ job = "cut")
        BY <2>1, <3>1, SingleTarget DEF ReadHeaders, FrameInv, Cutting, SingleTarget
      <4>2. QED
        BY <2>1, <3>1, <4>1 DEF ReadHeaders, UpReads, MarkTarget, downVars
    <3>2. CASE s \notin Targets
      BY <2>1, <3>2 DEF ReadHeaders, UpReads, downVars
    <3>3. QED
      BY <3>1, <3>2
  <2>2. ASSUME NEW id \in Windows, NEW k \in 1 .. owed[id], ReadWindowUpdate(id, k)
        PROVE SleepsOnlyWhenShort'
    BY <2>2 DEF ReadWindowUpdate, UpReads, ApplyWindowUpdate, Awake, downVars
  <2>3. ASSUME NEW v \in WindowSizes, ReadSettings(v) PROVE SleepsOnlyWhenShort'
    BY <2>3 DEF ReadSettings, ApplySettings, Awake
  <2>4. ASSUME ReadOther \/ Forward \/ UpReadFails PROVE SleepsOnlyWhenShort'
    BY <2>4 DEF ReadOther, UpReads, Forward, UpReadFails, MarkClosed, Awake, downVars
  <2>5. ASSUME ClientSendsFrame \/ DownReadFails PROVE SleepsOnlyWhenShort'
    BY <2>5 DEF ClientSendsFrame, ReadTargetData, ReadOtherData, ReadControl, DownReads,
       DownReadFails
  <2>6. ASSUME WaitSleeps PROVE SleepsOnlyWhenShort'
    BY <2>6 DEF WaitSleeps, proxyVars, downVars
  <2>7. ASSUME \/ EmitDone \/ WaitPasses \/ WaitFails \/ Write \/ WriteFails \/ Spend
               \/ \E m \in 1 .. rest, g \in Growth \cup {0}, pk \in {"stat", "other"} :
                        TakeMessage(m, g, pk)
        PROVE SleepsOnlyWhenShort'
    BY <2>7 DEF EmitDone, WaitPasses, WaitFails, Write, WriteFails, GiveUp, Spend, TakeMessage
  <2>8. ASSUME TearDown \/ (\E p \in {"client", "daemon"} : PeerCloses(p)) \/ UNCHANGED vars
        PROVE SleepsOnlyWhenShort'
    BY <2>8 DEF TearDown, PeerCloses, vars, proxyVars, downVars
  <2>9. QED
    BY <2>1, <2>2, <2>3, <2>4, <2>5, <2>6, <2>7, <2>8 DEF Next, DaemonSends, UpStep, DownStep
<1>3. QED
  BY <1>1, <1>2, InitType, StepType, PTL DEF Spec

(* The accounts of a stream at the two peers differ by what is on its way  *)
(* through the proxy: credit read from the daemon and not yet forwarded,   *)
(* bytes held back, and bytes in the hands of pumpDownstream.              *)
Learning(s) ==
    IF upAt = "forward"
       /\ (frame.kind = "SETTINGS" \/ (frame.kind = "WINDOW_UPDATE" /\ frame.id = s))
    THEN frame.amount ELSE 0

InHand(s) ==
    IF sid # s THEN 0
    ELSE IF downAt = "emit" THEN rest
    ELSE IF downAt \notin {"wait", "asleep", "write", "spend"} THEN 0
    ELSE IF job = "relay" THEN OnWire
    ELSE IF downAt = "spend" THEN rest + msg - need
    ELSE rest + msg

Announced(s) == upAt = "forward" /\ frame.kind = "HEADERS" /\ frame.id = s

Serving == gone = {} /\ "done" \notin {upAt, downAt}

Balanced(s) ==
    /\ s \in live =>
         daemonWin[s] <= clientWin[s] + buf[s] + stripped[s] + Learning(s) + InHand(s)
    /\ Announced(s) => s \notin live /\ daemonWin[s] <= frame.amount

CreditInv == Serving => \A s \in Streams : Balanced(s)

(* What the client has seen opened is open, and the session counts as      *)
(* closed only when a pump has ended.                                      *)
ClosedInv ==
    /\ live \subseteq opened
    /\ Announced(frame.id) => frame.id \in opened
    /\ closed \/ torn => "done" \in {upAt, downAt}

LEMMA StepClosed == ClosedInv /\ [Next]_vars => ClosedInv'
<1> SUFFICES ASSUME ClosedInv, [Next]_vars PROVE ClosedInv'
  OBVIOUS
<1> USE DEF ClosedInv, Announced
<1>1. CASE DaemonSends
  BY <1>1 DEF DaemonSends, ReadHeaders, ReadWindowUpdate, ReadSettings, ReadOther, UpReads,
     MarkTarget, ApplyWindowUpdate, ApplySettings, Awake, Frame, Other
<1>2. CASE UpStep
  BY <1>2 DEF UpStep, Forward, ClientLearns, UpReadFails, MarkClosed, Awake, Other, peerVars
<1>3. CASE ClientSendsFrame \/ DownReadFails
  BY <1>3 DEF ClientSendsFrame, ReadTargetData, ReadOtherData, ReadControl, DownReadFails,
     DownReads, proxyVars, peerVars
<1>4. CASE \/ EmitDone \/ WaitSleeps \/ WaitPasses \/ Write \/ Spend
           \/ \E m \in 1 .. rest, g \in Growth \cup {0}, pk \in {"stat", "other"} :
                    TakeMessage(m, g, pk)
  BY <1>4 DEF EmitDone, WaitSleeps, WaitPasses, Write, Spend, TakeMessage, proxyVars, peerVars
<1>5. CASE WaitFails \/ WriteFails
  BY <1>5 DEF WaitFails, WriteFails, GiveUp, peerVars
<1>6. CASE TearDown \/ (\E p \in {"client", "daemon"} : PeerCloses(p)) \/ UNCHANGED vars
  BY <1>6 DEF TearDown, PeerCloses, vars, proxyVars, peerVars
<1>7. QED
  BY <1>1, <1>2, <1>3, <1>4, <1>5, <1>6 DEF Next, DownStep

(* While pumpUpstream stands still, the balance is kept by a step of       *)
(* pumpDownstream that moves bytes on from one place to the next.          *)
LEMMA MovesOn ==
    ASSUME TypeOK, TypeOK', NEW s \in Streams, Balanced(s),
           UNCHANGED <<upAt, frame, live>>,
           InHand(s) \in Int, InHand(s)' \in Int, daemonWin'[s] <= daemonWin[s],
           daemonWin'[s] - clientWin'[s] - buf'[s] - stripped'[s] - InHand(s)'
                <= daemonWin[s] - clientWin[s] - buf[s] - stripped[s] - InHand(s)
    PROVE  Balanced(s)'
<1>1. /\ daemonWin[s] \in Int /\ clientWin[s] \in Int /\ buf[s] \in Int /\ stripped[s] \in Int
      /\ daemonWin'[s] \in Int /\ clientWin'[s] \in Int /\ buf'[s] \in Int
      /\ stripped'[s] \in Int
      /\ frame.amount \in Int
  BY DEF TypeOK, ProxyTypeOK, PeerTypeOK, Windows, Frames
<1>2. Learning(s)' = Learning(s) /\ Learning(s) \in Int /\ Announced(s)' = Announced(s)
  BY <1>1 DEF Learning, Announced
<1>3. QED
  BY <1>1, <1>2 DEF Balanced

LEMMA StepBalanced ==
    ASSUME TypeOK, FrameInv, ClosedInv, NEW s \in Streams, Serving => Balanced(s),
           [Next]_vars, Serving'
    PROVE  Balanced(s)'
<1>0. TypeOK' /\ (Serving => InHand(s) \in Int) /\ InHand(s)' \in Int
  <2>1. TypeOK'
    BY StepType
  <2>2. QED
    BY <2>1 DEF InHand, OnWire, TypeOK, DownTypeOK
<1>1. ASSUME NEW t \in Targets, NEW n \in 0 .. MaxFrame, NEW m \in MessageLengths \cup {0},
             NEW p \in Paddings \cup {0}, ReadTargetData(t, n, m, p)
      PROVE Balanced(s)'
  <2>1. /\ Serving /\ Balanced(s) /\ InHand(s) = 0 /\ n \in Nat /\ p \in Nat
        /\ UNCHANGED <<upAt, frame, live, daemonWin>>
        /\ s # t => clientWin'[s] = clientWin[s] /\ buf'[s] = buf[s] /\ stripped'[s] = stripped[s]
        /\ clientWin'[t] = clientWin[t] - (n + p) /\ stripped'[t] = stripped[t] + p
    BY <1>1, ConstantAssumption
    DEF ReadTargetData, DownReads, ClientSends, Serving, InHand, TypeOK, PeerTypeOK,
        ProxyTypeOK, Windows, Streams
  <2>2. /\ daemonWin[s] \in Int /\ clientWin[s] \in Int /\ buf[s] \in Nat /\ stripped[s] \in Nat
        /\ clientWin[t] \in Int /\ buf[t] \in Nat /\ stripped[t] \in Nat
    BY DEF TypeOK, ProxyTypeOK, PeerTypeOK, Windows, Streams
  <2>3. CASE Complete(togo'[t])
    <3>1. sid' = t /\ downAt' = "emit" /\ rest' = buf[t] + n /\ buf' = [buf EXCEPT ![t] = 0]
      BY <1>1, <2>3 DEF ReadTargetData, Held
    <3>2. InHand(s)' = (IF s = t THEN buf[t] + n ELSE 0) /\ (s = t => buf'[s] = 0)
      BY <3>1 DEF InHand, TypeOK, ProxyTypeOK
    <3>3. CASE s = t
      BY <1>0, <2>1, <2>2, <3>2, <3>3, MovesOn
    <3>4. CASE s # t
      BY <1>0, <2>1, <2>2, <3>2, <3>4, MovesOn
    <3>5. QED
      BY <3>3, <3>4
  <2>4. CASE ~Complete(togo'[t])
    <3>1. downAt' = "read" /\ buf' = [buf EXCEPT ![t] = buf[t] + n]
      BY <1>1, <2>4 DEF ReadTargetData, DownReads, Held
    <3>2. InHand(s)' = 0 /\ (s = t => buf'[s] = buf[s] + n)
      BY <3>1 DEF InHand, TypeOK, ProxyTypeOK
    <3>3. QED
      BY <1>0, <2>1, <2>2, <3>2, MovesOn
  <2>5. QED
    BY <2>3, <2>4
<1>2. ASSUME NEW t \in Others, NEW n \in 0 .. MaxFrame, NEW p \in Paddings \cup {0},
             ReadOtherData(t, n, p)
      PROVE Balanced(s)'
  <2>1. /\ Serving /\ Balanced(s) /\ InHand(s) = 0 /\ n \in Nat /\ p \in Nat
        /\ UNCHANGED <<upAt, frame, live, daemonWin, buf, stripped>>
        /\ s # t => clientWin'[s] = clientWin[s]
        /\ clientWin'[t] = clientWin[t] - (n + p)
        /\ sid' = t /\ job' = "relay" /\ need' = n /\ pad' = p /\ downAt' \in {"wait", "write"}
    BY <1>2, ConstantAssumption
    DEF ReadOtherData, DownReads, ClientSends, Serving, InHand, TypeOK, PeerTypeOK, proxyVars,
        Windows, Streams
  <2>2. /\ daemonWin[s] \in Int /\ clientWin[s] \in Int /\ buf[s] \in Nat /\ stripped[s] \in Nat
        /\ clientWin[t] \in Int
    BY DEF TypeOK, ProxyTypeOK, PeerTypeOK, Windows, Streams
  <2>3. InHand(s)' = IF s = t THEN n + p ELSE 0
    BY <2>1 DEF InHand, OnWire
  <2>4. QED
    BY <1>0, <2>1, <2>2, <2>3, MovesOn
<1>3. ASSUME NEW m \in 1 .. rest, NEW g \in Growth \cup {0}, NEW pk \in {"stat", "other"},
              TakeMessage(m, g, pk)
      PROVE Balanced(s)'
  <2>1. /\ downAt = "emit" /\ downAt' = "wait" /\ job = "cut" /\ rest \in Nat
        /\ m \in Nat /\ g \in Nat /\ rest' = rest - m /\ msg' = m + g
        /\ UNCHANGED <<upAt, frame, live, daemonWin, clientWin, buf, stripped, sid, job>>
    BY <1>3, ConstantAssumption
    DEF TakeMessage, proxyVars, peerVars, FrameInv, TypeOK, DownTypeOK
  <2>2. Serving /\ Balanced(s)
    BY <1>3 DEF TakeMessage, Serving, peerVars
  <2>3. InHand(s) <= InHand(s)'
    BY <2>1 DEF InHand
  <2>4. daemonWin[s] \in Int /\ clientWin[s] \in Int /\ buf[s] \in Nat /\ stripped[s] \in Nat
    BY DEF TypeOK, ProxyTypeOK, PeerTypeOK, Windows, Streams
  <2>5. QED
    BY <1>0, <2>1, <2>2, <2>3, <2>4, MovesOn
<1>4. ASSUME Write PROVE Balanced(s)'
  <2>1. /\ downAt = "write" /\ Serving /\ Balanced(s)
        /\ UNCHANGED <<upAt, frame, live, clientWin, buf, stripped>>
        /\ daemonWin'[s] = IF s = sid THEN daemonWin[s] - OnWire ELSE daemonWin[s]
    BY <1>4, ConstantAssumption DEF Write, proxyVars, Serving, Windows, Streams
  <2>2. /\ daemonWin[s] \in Int /\ clientWin[s] \in Int /\ buf[s] \in Nat /\ stripped[s] \in Nat
        /\ need \in Nat /\ pad \in Nat /\ OnWire \in Nat /\ rest \in Nat /\ msg \in Nat
    BY DEF OnWire, TypeOK, ProxyTypeOK, DownTypeOK, PeerTypeOK, Windows, Streams
  <2>3. CASE job = "cut"
    <3>1. downAt' = "spend" /\ UNCHANGED downVars /\ OnWire = need
      BY <1>4, <2>2, <2>3 DEF Write, OnWire, FrameInv
    <3>2. /\ InHand(s) = IF s = sid THEN rest + msg ELSE 0
          /\ InHand(s)' = IF s = sid THEN rest + msg - need ELSE 0
      BY <2>1, <2>3, <3>1 DEF InHand, downVars
    <3>3. QED
      BY <1>0, <2>1, <2>2, <3>1, <3>2, MovesOn
  <2>4. CASE job = "relay"
    <3>1. downAt' = "read"
      BY <1>4, <2>4 DEF Write
    <3>2. InHand(s) = (IF s = sid THEN OnWire ELSE 0) /\ InHand(s)' = 0
      BY <2>1, <2>4, <3>1 DEF InHand
    <3>3. QED
      BY <1>0, <2>1, <2>2, <3>2, MovesOn
  <2>5. QED
    BY <2>3, <2>4 DEF TypeOK, DownTypeOK
<1> USE ConstantAssumption
    DEF TypeOK, ProxyTypeOK, DownTypeOK, PeerTypeOK, FrameInv, Cutting, Windows, Streams,
        ClosedInv, Balanced, Serving, Learning, InHand, OnWire, Announced
<1>5. ASSUME NEW t \in Streams, ReadHeaders(t) PROVE Balanced(s)'
  BY <1>5 DEF ReadHeaders, UpReads, MarkTarget, Frame, downVars
<1>6. ASSUME NEW id \in Windows, NEW k \in 1 .. owed[id], ReadWindowUpdate(id, k)
      PROVE Balanced(s)'
  BY <1>6 DEF ReadWindowUpdate, UpReads, ApplyWindowUpdate, Awake, Frame, downVars
<1>7. ASSUME NEW v \in WindowSizes, ReadSettings(v) PROVE Balanced(s)'
  BY <1>7 DEF ReadSettings, UpReads, ApplySettings, Awake, Frame, downVars
<1>8. ASSUME ReadOther PROVE Balanced(s)'
  BY <1>8 DEF ReadOther, UpReads, Other, downVars
<1>9. ASSUME Forward PROVE Balanced(s)'
  <2>1. /\ ~(torn \/ "client" \in gone) /\ upAt = "forward" /\ upAt' = "read" /\ ClientLearns
        /\ UNCHANGED <<buf, stripped, daemonWin, downAt, downVars, opened>>
    BY <1>9 DEF Forward
  <2>2. Serving
    BY <1>9, <2>1 DEF Forward
  <2>3. CASE frame.kind = "HEADERS"
    BY <2>1, <2>2, <2>3 DEF ClientLearns, downVars, Frames
  <2>4. CASE frame.kind = "WINDOW_UPDATE"
    BY <2>1, <2>2, <2>4 DEF ClientLearns, downVars, Frames
  <2>5. CASE frame.kind = "SETTINGS"
    BY <2>1, <2>2, <2>5 DEF ClientLearns, downVars, Frames
  <2>6. CASE frame.kind = "OTHER"
    BY <2>1, <2>2, <2>6 DEF ClientLearns, downVars, Frames
  <2>7. QED
    BY <2>3, <2>4, <2>5, <2>6 DEF Frames
<1>10. ASSUME UpReadFails \/ DownReadFails PROVE Balanced(s)'
  BY <1>10 DEF UpReadFails, DownReadFails
<1>11. ASSUME NEW id \in Windows, ReadControl(id) PROVE Balanced(s)'
  BY <1>11 DEF ReadControl, DownReads, proxyVars
<1>12. ASSUME EmitDone PROVE Balanced(s)'
  BY <1>12 DEF EmitDone, Idle, proxyVars, peerVars
<1>13. ASSUME WaitSleeps \/ WaitPasses PROVE Balanced(s)'
  BY <1>13 DEF WaitSleeps, WaitPasses, proxyVars, downVars, peerVars
<1>14. ASSUME WaitFails \/ WriteFails PROVE Balanced(s)'
  BY <1>14 DEF WaitFails, WriteFails, GiveUp, peerVars
<1>15. ASSUME Spend PROVE Balanced(s)'
  BY <1>15 DEF Spend, SpendWindow, Left, Min2, peerVars
<1>16. ASSUME TearDown \/ \E p \in {"client", "daemon"} : PeerCloses(p) PROVE Balanced(s)'
  BY <1>16 DEF TearDown, PeerCloses, proxyVars, downVars, peerVars
<1>17. ASSUME UNCHANGED vars PROVE Balanced(s)'
  BY <1>17 DEF vars, proxyVars, downVars, peerVars
<1>18. QED
  BY <1>5, <1>6, <1>7, <1>8, <1>9, <1>10, <1>1, <1>2, <1>11, <1>3, <1>12, <1>13, <1>14, <1>4,
     <1>15, <1>16, <1>17
  DEF Next, DaemonSends, UpStep, ClientSendsFrame, DownStep

(* Between frames the client has at least the credit the daemon granted,   *)
(* the bytes the proxy holds back and the padding it stripped counted in,  *)
(* on every stream and whatever the edits added: the proxy pays for them   *)
(* itself.                                                                 *)
THEOREM ClientCredit == Spec => []ClientNeverShort
<1> DEFINE Inv == TypeOK /\ FrameInv /\ ClosedInv /\ CreditInv
<1>1. Init => Inv
  <2> SUFFICES ASSUME Init PROVE ClosedInv /\ CreditInv
    BY InitType
  <2>1. QED
    BY DEF Init, ClosedInv, CreditInv, Balanced, Announced
<1>2. Inv /\ [Next]_vars => Inv'
  <2> SUFFICES ASSUME Inv, [Next]_vars, Serving' PROVE \A s \in Streams : Balanced(s)'
    BY StepType, StepClosed DEF CreditInv
  <2> TAKE s \in Streams
  <2>1. Serving => Balanced(s)
    BY DEF CreditInv
  <2>2. QED
    BY <2>1, StepBalanced
<1>3. Inv => ClientNeverShort
  <2> SUFFICES ASSUME Inv, upAt = "read", downAt = "read", gone = {}, NEW s \in live
               PROVE  clientWin[s] + buf[s] + stripped[s] >= daemonWin[s]
    BY DEF ClientNeverShort
  <2>1. s \in Streams /\ Balanced(s) /\ Learning(s) = 0 /\ InHand(s) = 0
    BY DEF CreditInv, Serving, TypeOK, PeerTypeOK, Learning, InHand
  <2>2. QED
    BY <2>1 DEF Balanced, TypeOK, ProxyTypeOK, PeerTypeOK, Windows, Streams
<1>4. QED
  BY <1>1, <1>2, <1>3, PTL DEF Spec
-----------------------------------------------------------------------------
(* What SessionEnds and HeldBytesFlow need of a single state: a sleeper is *)
(* woken by the end, a pump that is torn down runs out of steps, and the   *)
(* credit one side waits for is owed by the other.                         *)

(* A pump that returns has marked the session closed, and nobody sleeps in *)
(* a closed session: the broadcast of markClosed cannot be missed, however *)
(* it falls between the look at the windows and the sleep.                 *)
NobodySleepsWhenClosed ==
    /\ "done" \in {upAt, downAt} => closed
    /\ closed => downAt # "asleep"

THEOREM ClosedWakes == Spec => []NobodySleepsWhenClosed
<1>1. Init => NobodySleepsWhenClosed
  BY DEF Init, NobodySleepsWhenClosed
<1>2. NobodySleepsWhenClosed /\ [Next]_vars => NobodySleepsWhenClosed'
  <2> SUFFICES ASSUME NobodySleepsWhenClosed, [Next]_vars PROVE NobodySleepsWhenClosed'
    OBVIOUS
  <2> USE DEF NobodySleepsWhenClosed
  <2>1. CASE DaemonSends
    BY <2>1 DEF DaemonSends, ReadHeaders, ReadWindowUpdate, ReadSettings, ReadOther, UpReads,
       MarkTarget, ApplyWindowUpdate, ApplySettings, Awake
  <2>2. CASE UpStep
    BY <2>2 DEF UpStep, Forward, UpReadFails, MarkClosed, Awake
  <2>3. CASE ClientSendsFrame \/ DownReadFails
    BY <2>3 DEF ClientSendsFrame, ReadTargetData, ReadOtherData, ReadControl, DownReadFails,
       DownReads, proxyVars
  <2>4. CASE \/ EmitDone \/ WaitSleeps \/ WaitPasses \/ Write \/ Spend
             \/ \E m \in 1 .. rest, g \in Growth \cup {0}, pk \in {"stat", "other"} :
                      TakeMessage(m, g, pk)
    BY <2>4 DEF EmitDone, WaitSleeps, WaitPasses, Write, Spend, TakeMessage, proxyVars
  <2>5. CASE WaitFails \/ WriteFails
    BY <2>5 DEF WaitFails, WriteFails, GiveUp
  <2>6. CASE TearDown \/ (\E p \in {"client", "daemon"} : PeerCloses(p)) \/ UNCHANGED vars
    BY <2>6 DEF TearDown, PeerCloses, vars, proxyVars
  <2>7. QED
    BY <2>1, <2>2, <2>3, <2>4, <2>5, <2>6 DEF Next, DownStep
<1>3. QED
  BY <1>1, <1>2, PTL DEF Spec

(* Steps pumpDownstream has left, at most, once both connections are       *)
(* closed: a message still to be emitted costs it a look at the flag.      *)
Rank ==
    4 * rest + (IF downAt = "done" THEN 0
                ELSE IF downAt = "read" THEN 1
                ELSE IF downAt = "emit" THEN 2
                ELSE IF downAt \in {"wait", "write"} THEN 3 ELSE 4)

RunsDown == torn => UNCHANGED <<downAt, downVars>> \/ Rank' < Rank

(* After run has closed both connections every step of pumpDownstream      *)
(* brings it nearer to its end: neither the ignored error of a Stat nor    *)
(* anything pumpUpstream or the peers do can keep it in emitMessages.      *)
THEOREM TornDownEnds == Spec => [](Rank \in Nat) /\ [][RunsDown]_vars
<1> DEFINE Inv == TypeOK /\ FrameInv /\ ClosedInv /\ NobodySleepsWhenClosed
<1>1. Inv => Rank \in Nat
  BY DEF TypeOK, DownTypeOK, Rank
<1>2. Inv /\ [Next]_vars => [RunsDown]_vars
  <2> SUFFICES ASSUME Inv, Next, torn PROVE UNCHANGED <<downAt, downVars>> \/ Rank' < Rank
    BY DEF RunsDown
  <2>1. closed /\ downAt # "asleep" /\ rest \in Nat
    BY DEF ClosedInv, NobodySleepsWhenClosed, TypeOK, DownTypeOK
  <2>2. CASE DaemonSends \/ Forward \/ UpReadFails
    BY <2>1, <2>2 DEF DaemonSends, ReadHeaders, ReadWindowUpdate, ReadSettings, ReadOther,
       UpReads, Forward, UpReadFails, MarkClosed, Awake
  <2>3. CASE ClientSendsFrame \/ WaitSleeps \/ WaitPasses \/ Write
    BY <2>1, <2>3 DEF ClientSendsFrame, ReadTargetData, ReadOtherData, ReadControl, DownReads,
       WaitSleeps, WaitPasses, Write
  <2>4. CASE TearDown \/ \E p \in {"client", "daemon"} : PeerCloses(p)
    BY <2>4 DEF TearDown, PeerCloses
  <2>5. CASE DownReadFails \/ EmitDone \/ Spend
    <3>1. CASE DownReadFails
      BY <2>1, <3>1 DEF DownReadFails, Rank, downVars
    <3>2. CASE EmitDone
      BY <2>1, <3>2 DEF EmitDone, Idle, Rank
    <3>3. CASE Spend
      <4>1. downAt = "spend" /\ downAt' \in {"emit", "wait", "write"} /\ rest' = rest
        BY <3>3 DEF Spend
      <4>2. QED
        BY <2>1, <4>1 DEF Rank
    <3>4. QED
      BY <2>5, <3>1, <3>2, <3>3
  <2>6. CASE WaitFails \/ WriteFails
    <3>1. downAt \in {"wait", "write"} /\ GiveUp
      BY <2>6 DEF WaitFails, WriteFails
    <3>2. (downAt' = "emit" /\ rest' = rest) \/ (downAt' = "done" /\ rest' = 0)
      BY <3>1 DEF GiveUp, Idle, downVars
    <3>3. QED
      BY <2>1, <3>1, <3>2 DEF Rank
  <2>7. ASSUME NEW m \in 1 .. rest, NEW g \in Growth \cup {0}, NEW pk \in {"stat", "other"},
               TakeMessage(m, g, pk)
        PROVE Rank' < Rank
    BY <2>1, <2>7 DEF TakeMessage, Rank
  <2>8. QED
    BY <2>2, <2>3, <2>4, <2>5, <2>6, <2>7 DEF Next, UpStep, DownStep
<1>3. Spec => []Inv
  <2>1. Init => ClosedInv
    BY DEF Init, ClosedInv, Announced
  <2>2. QED
    BY <2>1, InitType, StepType, StepClosed, ClosedWakes, PTL DEF Spec
<1>4. QED
  BY <1>1, <1>2, <1>3, PTL DEF Spec

-----------------------------------------------------------------------------
(* The credit of the daemon is conserved.                                  *)

(* Which stream pumpDownstream works for, and that a frame has a payload.  *)
PlaceInv ==
    /\ live \subseteq opened /\ sid \in opened \cup {Connection}
    /\ downAt = "emit" \/ Cutting => sid \in live
    /\ downAt \in {"wait", "asleep", "spend"} \/ Cutting => need > 0
    /\ Cutting => need <= MaxFrame
    /\ downAt = "write" /\ OnWire = 0 => sid \notin live
    /\ \A s \in Streams : Announced(s) => s \in opened /\ s \notin live /\ s # sid

(* Every byte of a window is granted or owed, on the connection and on     *)
(* each stream that is not finished.                                       *)
LedgerInv ==
    /\ daemonWin[Connection] + owed[Connection] = InitialWindow
    /\ \A s \in Streams : s \in live \/ Announced(s) => daemonWin[s] + owed[s] = initWin
    /\ \A s \in Streams : s \notin opened => owed[s] = 0
    /\ initWin \in {InitialWindow} \cup WindowSizes

LEMMA StepPlace == TypeOK /\ FrameInv /\ PlaceInv /\ [Next]_vars => PlaceInv'
<1> SUFFICES ASSUME ProxyTypeOK, DownTypeOK, PeerTypeOK, FrameInv, PlaceInv, [Next]_vars
             PROVE PlaceInv'
  BY DEF TypeOK
<1> USE ConstantAssumption
    DEF ProxyTypeOK, DownTypeOK, PeerTypeOK, FrameInv, Cutting, PlaceInv, Announced, Windows,
        Streams, OnWire
<1>1. ASSUME NEW s \in Streams, ReadHeaders(s) PROVE PlaceInv'
  BY <1>1 DEF ReadHeaders, UpReads, MarkTarget, Frame, downVars
<1>2. ASSUME NEW id \in Windows, NEW k \in 1 .. owed[id], ReadWindowUpdate(id, k)
      PROVE PlaceInv'
  BY <1>2 DEF ReadWindowUpdate, UpReads, ApplyWindowUpdate, Awake, Frame, downVars
<1>3. ASSUME NEW v \in WindowSizes, ReadSettings(v) PROVE PlaceInv'
  BY <1>3 DEF ReadSettings, UpReads, ApplySettings, Awake, Frame, downVars
<1>4. ASSUME ReadOther PROVE PlaceInv'
  BY <1>4 DEF ReadOther, UpReads, Other, downVars
<1>5. ASSUME Forward PROVE PlaceInv'
  <2>1. /\ upAt' # "forward" /\ downAt' \in {downAt, Awake} /\ UNCHANGED <<downVars, opened>>
        /\ \/ live' = live
           \/ upAt = "forward" /\ frame.kind = "HEADERS" /\ live' = live \cup {frame.id}
    BY <1>5 DEF Forward, ClientLearns, MarkClosed
  <2>2. frame.kind = "HEADERS" => frame.id \in Streams
    BY DEF Frames
  <2>3. \A s \in live' : s \in live \/ (s \in opened /\ s # sid)
    BY <2>1, <2>2
  <2>4. QED
    BY <2>1, <2>3 DEF Awake, downVars
<1>6. ASSUME UpReadFails PROVE PlaceInv'
  BY <1>6 DEF UpReadFails, MarkClosed, Awake, downVars, peerVars
<1>7. ASSUME NEW s \in Targets, NEW n \in 0 .. MaxFrame, NEW m \in MessageLengths \cup {0},
             NEW p \in Paddings \cup {0}, ReadTargetData(s, n, m, p)
      PROVE PlaceInv'
  BY <1>7 DEF ReadTargetData, DownReads, ClientSends
<1>8. ASSUME NEW s \in Others, NEW n \in 0 .. MaxFrame, NEW p \in Paddings \cup {0},
             ReadOtherData(s, n, p)
      PROVE PlaceInv'
  BY <1>8 DEF ReadOtherData, DownReads, ClientSends, proxyVars
<1>9. ASSUME NEW id \in Windows, ReadControl(id) PROVE PlaceInv'
  BY <1>9 DEF ReadControl, DownReads, proxyVars
<1>10. ASSUME DownReadFails PROVE PlaceInv'
  BY <1>10 DEF DownReadFails, downVars, peerVars
<1>11. ASSUME NEW m \in 1 .. rest, NEW g \in Growth \cup {0}, NEW pk \in {"stat", "other"},
              TakeMessage(m, g, pk)
      PROVE PlaceInv'
  BY <1>11 DEF TakeMessage, Min2, proxyVars, peerVars
<1>12. ASSUME EmitDone PROVE PlaceInv'
  BY <1>12 DEF EmitDone, Idle, proxyVars, peerVars
<1>13. ASSUME WaitSleeps \/ WaitPasses PROVE PlaceInv'
  BY <1>13 DEF WaitSleeps, WaitPasses, proxyVars, downVars, peerVars
<1>14. ASSUME WaitFails \/ WriteFails PROVE PlaceInv'
  BY <1>14 DEF WaitFails, WriteFails, GiveUp, Idle, downVars, peerVars
<1>15. ASSUME Write PROVE PlaceInv'
  BY <1>15 DEF Write, Idle, proxyVars, downVars
<1>16. ASSUME Spend PROVE PlaceInv'
  BY <1>16 DEF Spend, SpendWindow, Left, Min2, peerVars
<1>17. ASSUME TearDown PROVE PlaceInv'
  BY <1>17 DEF TearDown, proxyVars, downVars, peerVars
<1>18. ASSUME NEW p \in {"client", "daemon"}, PeerCloses(p) PROVE PlaceInv'
  BY <1>18 DEF PeerCloses, proxyVars, downVars
<1>19. ASSUME UNCHANGED vars PROVE PlaceInv'
  BY <1>19 DEF vars, proxyVars, downVars, peerVars
<1>20. QED
  BY <1>1, <1>2, <1>3, <1>4, <1>5, <1>6, <1>7, <1>8, <1>9, <1>10, <1>11, <1>12, <1>13, <1>14, <1>15, <1>16, <1>17, <1>18, <1>19
  DEF Next, DaemonSends, UpStep, ClientSendsFrame, DownStep

LEMMA StepLedger ==
    TypeOK /\ FrameInv /\ PlaceInv /\ LedgerInv /\ [Next]_vars => LedgerInv'
<1> SUFFICES ASSUME ProxyTypeOK, DownTypeOK, PeerTypeOK, FrameInv, PlaceInv, LedgerInv,
                    [Next]_vars
             PROVE LedgerInv'
  BY DEF TypeOK
<1>0. /\ \A s \in Streams : s # Connection /\ s \in Windows
      /\ \A id \in Windows : daemonWin[id] \in Int /\ owed[id] \in Int
      /\ Connection \in Windows /\ InitialWindow \in Int /\ initWin \in Int /\ OnWire \in Int
      /\ WindowSizes \subseteq Int
  BY ConstantAssumption DEF OnWire, Windows, Streams, ProxyTypeOK, DownTypeOK, PeerTypeOK
<1> USE DEF LedgerInv, Announced
<1>1. ASSUME NEW s \in Streams, ReadHeaders(s) PROVE LedgerInv'
  <2>1. /\ initWin' = initWin /\ owed' = owed /\ live' = live /\ opened' = opened \cup {s}
        /\ daemonWin' = [daemonWin EXCEPT ![s] = initWin] /\ s \notin opened
        /\ upAt = "read" /\ frame' = Frame("HEADERS", s, initWin)
    BY <1>1 DEF ReadHeaders, UpReads, MarkTarget
  <2>2. \A t \in Streams : daemonWin'[t] = IF t = s THEN initWin ELSE daemonWin[t]
    BY <2>1, <1>0 DEF PeerTypeOK
  <2>3. daemonWin'[Connection] = daemonWin[Connection]
    BY <2>1, <1>0 DEF PeerTypeOK
  <2>4. s \notin live
    BY <2>1 DEF PlaceInv
  <2>5. QED
    BY <2>1, <2>2, <2>3, <2>4, <1>0 DEF Frame
<1>2. ASSUME NEW id \in Windows, NEW k \in 1 .. owed[id], ReadWindowUpdate(id, k)
      PROVE LedgerInv'
  <2>1. /\ initWin' = initWin /\ live' = live /\ opened' = opened
        /\ owed' = [owed EXCEPT ![id] = @ - k]
        /\ daemonWin' = [daemonWin EXCEPT ![id] = @ + k]
        /\ upAt = "read" /\ frame' = Frame("WINDOW_UPDATE", id, k)
    BY <1>2 DEF ReadWindowUpdate, UpReads, ApplyWindowUpdate
  <2>2. \A w \in Windows : /\ daemonWin'[w] + owed'[w] = daemonWin[w] + owed[w]
                           /\ owed[w] = 0 => owed'[w] = 0
    BY <2>1, <1>0 DEF PeerTypeOK
  <2>3. QED
    BY <2>1, <2>2, <1>0 DEF Frame
<1>3. ASSUME NEW v \in WindowSizes, ReadSettings(v) PROVE LedgerInv'
  <2>1. /\ initWin' = v /\ owed' = owed /\ live' = live /\ opened' = opened
        /\ daemonWin' = [id \in Windows |->
              IF id \in opened THEN daemonWin[id] + (v - initWin) ELSE daemonWin[id]]
        /\ upAt = "read" /\ frame' = Frame("SETTINGS", Connection, v - initWin)
    BY <1>3 DEF ReadSettings, UpReads, ApplySettings
  <2>2. \A s \in Streams : s \in opened => daemonWin'[s] = daemonWin[s] + (v - initWin)
    BY <2>1, <1>0
  <2>3. daemonWin'[Connection] = daemonWin[Connection]
    BY <2>1, <1>0 DEF PeerTypeOK
  <2>4. live \subseteq opened
    BY DEF PlaceInv
  <2>5. QED
    BY <2>1, <2>2, <2>3, <2>4, <1>0 DEF Frame
<1>4. ASSUME ReadOther PROVE LedgerInv'
  BY <1>4 DEF ReadOther, UpReads, Other
<1>5. ASSUME Forward PROVE LedgerInv'
  BY <1>5 DEF Forward, ClientLearns
<1>6. ASSUME UpReadFails \/ DownReadFails PROVE LedgerInv'
  BY <1>6 DEF UpReadFails, DownReadFails, peerVars
<1>7. ASSUME ClientSendsFrame PROVE LedgerInv'
  <2>1. /\ UNCHANGED <<initWin, owed, opened, daemonWin, upAt, frame>> /\ live' \subseteq live
    BY <1>7 DEF ClientSendsFrame, ReadTargetData, ReadOtherData, ReadControl, DownReads, proxyVars
  <2>2. QED
    BY <2>1
<1>8. ASSUME Write PROVE LedgerInv'
  <2>1. /\ UNCHANGED <<initWin, live, opened, upAt, frame>> /\ downAt = "write"
        /\ \A id \in Windows : daemonWin'[id] =
              IF id \in {sid, Connection} THEN daemonWin[id] - OnWire ELSE daemonWin[id]
        /\ \A id \in Windows : owed'[id] =
              IF id = sid /\ OnWire = 0 /\ sid # Connection THEN 0
              ELSE IF id \in {sid, Connection} THEN owed[id] + OnWire ELSE owed[id]
    BY <1>8 DEF Write, proxyVars
  <2>2. /\ OnWire = 0 => sid \notin live
        /\ sid \in opened \cup {Connection}
        /\ \A s \in Streams : Announced(s) => s # sid
    BY <2>1 DEF PlaceInv
  <2>3. daemonWin'[Connection] + owed'[Connection] = daemonWin[Connection] + owed[Connection]
    BY <2>1, <1>0
  <2>4. \A s \in Streams : s \in live \/ Announced(s)
                            => daemonWin'[s] + owed'[s] = daemonWin[s] + owed[s]
    BY <2>1, <2>2, <1>0
  <2>5. \A s \in Streams : s \notin opened => owed'[s] = owed[s]
    BY <2>1, <2>2, <1>0
  <2>6. QED
    BY <2>1, <2>3, <2>4, <2>5
<1>9. ASSUME \/ EmitDone \/ WaitSleeps \/ WaitPasses \/ WaitFails \/ WriteFails \/ Spend
             \/ \E m \in 1 .. rest, g \in Growth \cup {0}, pk \in {"stat", "other"} :
                      TakeMessage(m, g, pk)
             \/ TearDown \/ (\E p \in {"client", "daemon"} : PeerCloses(p)) \/ UNCHANGED vars
      PROVE LedgerInv'
  BY <1>9 DEF EmitDone, WaitSleeps, WaitPasses, WaitFails, WriteFails, GiveUp, Spend, SpendWindow,
     TakeMessage, TearDown, PeerCloses, vars, proxyVars, peerVars
<1>10. QED
  BY <1>1, <1>2, <1>3, <1>4, <1>5, <1>6, <1>7, <1>8, <1>9 DEF Next, DaemonSends, UpStep, DownStep

(* The daemon's windows never leak: what it has granted and what it still  *)
(* has to credit add up to the window, on the connection for ever and on a *)
(* stream until its trailers, whatever SETTINGS frames come between, how   *)
(* many streams there are and how the proxy re-cuts them.                  *)
CreditConserved ==
    /\ daemonWin[Connection] + owed[Connection] = InitialWindow
    /\ \A s \in live : daemonWin[s] + owed[s] = initWin

THEOREM CreditIsConserved == Spec => []CreditConserved
<1> DEFINE Inv == TypeOK /\ FrameInv /\ PlaceInv /\ LedgerInv
<1>1. Init => PlaceInv /\ LedgerInv
  BY ConstantAssumption DEF Init, PlaceInv, LedgerInv, Announced, Cutting, Windows, Streams
<1>2. Inv => CreditConserved
  BY DEF LedgerInv, CreditConserved, TypeOK, PeerTypeOK
<1>3. QED
  BY <1>1, <1>2, InitType, StepType, StepPlace, StepLedger, PTL DEF Spec

(* While pumpDownstream runs, the proxy's budgets are not only safe but    *)
(* exact: no credit is lost between the frame and the books.  A stream's   *)
(* is, as in StreamInv, when there is one target.                          *)
ExactInv ==
    /\ downAt # "done" =>
         connWin = IF job = "cut" /\ downAt = "spend" THEN ConnectionCredit + need
                   ELSE IF job = "relay" /\ downAt = "write" THEN ConnectionCredit - need
                   ELSE ConnectionCredit
    /\ \A s \in targets :
         strmWin = daemonWin[s]
                   + (IF job = "cut" /\ downAt = "spend" /\ sid = s THEN need ELSE 0)

LEMMA StepExact ==
    ASSUME SingleTarget
    PROVE  TypeOK /\ FrameInv /\ ExactInv /\ [Next]_vars => ExactInv'
<1> SUFFICES ASSUME ProxyTypeOK, DownTypeOK, PeerTypeOK, FrameInv, ExactInv, [Next]_vars
             PROVE ExactInv'
  BY DEF TypeOK
<1> USE SingleTarget, ConstantAssumption
    DEF ProxyTypeOK, DownTypeOK, PeerTypeOK, FrameInv, Cutting, ExactInv, Windows, Streams,
        SingleTarget, ConnectionCredit, OnWire
<1>1. ASSUME NEW s \in Streams, ReadHeaders(s) PROVE ExactInv'
  BY <1>1 DEF ReadHeaders, UpReads, MarkTarget, downVars
<1>2. ASSUME NEW id \in Windows, NEW k \in 1 .. owed[id], ReadWindowUpdate(id, k)
      PROVE ExactInv'
  BY <1>2 DEF ReadWindowUpdate, UpReads, ApplyWindowUpdate, Awake, downVars
<1>3. ASSUME NEW v \in WindowSizes, ReadSettings(v) PROVE ExactInv'
  BY <1>3 DEF ReadSettings, UpReads, ApplySettings, Awake, downVars
<1>4. ASSUME ReadOther PROVE ExactInv'
  BY <1>4 DEF ReadOther, UpReads, downVars
<1>5. ASSUME Forward \/ UpReadFails PROVE ExactInv'
  BY <1>5 DEF Forward, UpReadFails, MarkClosed, Awake, downVars, peerVars
<1>6. ASSUME NEW s \in Targets, NEW n \in 0 .. MaxFrame, NEW m \in MessageLengths \cup {0},
             NEW p \in Paddings \cup {0}, ReadTargetData(s, n, m, p)
      PROVE ExactInv'
  BY <1>6 DEF ReadTargetData, DownReads
<1>7. ASSUME NEW s \in Others, NEW n \in 0 .. MaxFrame, NEW p \in Paddings \cup {0},
             ReadOtherData(s, n, p)
      PROVE ExactInv'
  BY <1>7 DEF ReadOtherData, DownReads, proxyVars
<1>8. ASSUME NEW id \in Windows, ReadControl(id) PROVE ExactInv'
  BY <1>8 DEF ReadControl, DownReads, proxyVars
<1>9. ASSUME DownReadFails PROVE ExactInv'
  BY <1>9 DEF DownReadFails, downVars, peerVars
<1>10. ASSUME NEW m \in 1 .. rest, NEW g \in Growth \cup {0}, NEW pk \in {"stat", "other"},
              TakeMessage(m, g, pk)
      PROVE ExactInv'
  BY <1>10 DEF TakeMessage, proxyVars, peerVars
<1>11. ASSUME EmitDone PROVE ExactInv'
  BY <1>11 DEF EmitDone, Idle, proxyVars, peerVars
<1>12. ASSUME WaitSleeps \/ WaitPasses PROVE ExactInv'
  BY <1>12 DEF WaitSleeps, WaitPasses, proxyVars, downVars, peerVars
<1>13. ASSUME WaitFails \/ WriteFails PROVE ExactInv'
  BY <1>13 DEF WaitFails, WriteFails, GiveUp, Idle, downVars, peerVars
<1>14. ASSUME Write PROVE ExactInv'
  BY <1>14 DEF Write, Idle, proxyVars, downVars
<1>15. ASSUME Spend PROVE ExactInv'
  BY <1>15 DEF Spend, SpendWindow, peerVars
<1>16. ASSUME TearDown PROVE ExactInv'
  BY <1>16 DEF TearDown, proxyVars, downVars, peerVars
<1>17. ASSUME NEW p \in {"client", "daemon"}, PeerCloses(p) PROVE ExactInv'
  BY <1>17 DEF PeerCloses, proxyVars, downVars
<1>18. ASSUME UNCHANGED vars PROVE ExactInv'
  BY <1>18 DEF vars, proxyVars, downVars, peerVars
<1>19. QED
  BY <1>1, <1>2, <1>3, <1>4, <1>5, <1>6, <1>7, <1>8, <1>9, <1>10, <1>11, <1>12, <1>13, <1>14, <1>15, <1>16, <1>17, <1>18
  DEF Next, DaemonSends, UpStep, ClientSendsFrame, DownStep

(* A pump that waits to send a frame of its own waits for credit that the  *)
(* daemon owes: once it has credited what it took, both windows cover the  *)
(* frame.  writeMessage chooses the length of a frame before it looks at   *)
(* the windows, so this needs windows that hold a whole frame: with a      *)
(* smaller SETTINGS_INITIAL_WINDOW_SIZE pump and daemon wait for each      *)
(* other.                                                                  *)
CreditWillCome ==
    downAt \in {"wait", "asleep"} /\ job = "cut"
        => need <= connWin + owed[Connection] /\ need <= strmWin + owed[sid]

WindowsHoldFrame == \A w \in {InitialWindow} \cup WindowSizes : MaxFrame <= w

THEOREM WaitCanEnd ==
    ASSUME SingleTarget, WindowsHoldFrame
    PROVE  Spec => []CreditWillCome
<1> DEFINE Inv == TypeOK /\ FrameInv /\ PlaceInv /\ LedgerInv /\ ExactInv
<1>1. Init => PlaceInv /\ LedgerInv /\ ExactInv
  BY ConstantAssumption
  DEF Init, PlaceInv, LedgerInv, ExactInv, ConnectionCredit, Announced, Cutting, Windows, Streams
<1>2. Inv => CreditWillCome
  <2> SUFFICES ASSUME Inv, downAt \in {"wait", "asleep"}, job = "cut"
               PROVE  need <= connWin + owed[Connection] /\ need <= strmWin + owed[sid]
    BY DEF CreditWillCome
  <2>1. /\ connWin = ConnectionCredit /\ sid \in targets /\ strmWin = daemonWin[sid] + 0
        /\ need <= MaxFrame /\ sid \in live
    BY DEF ExactInv, FrameInv, PlaceInv, Cutting
  <2>2. /\ daemonWin[Connection] + owed[Connection] = InitialWindow
        /\ daemonWin[sid] + owed[sid] = initWin
        /\ MaxFrame <= InitialWindow /\ MaxFrame <= initWin
    BY <2>1, WindowsHoldFrame DEF LedgerInv, WindowsHoldFrame, TypeOK, PeerTypeOK
  <2>3. /\ need \in Int /\ MaxFrame \in Int /\ InitialWindow \in Int /\ initWin \in Int
        /\ \A id \in Windows : daemonWin[id] \in Int /\ owed[id] \in Int
        /\ Connection \in Windows /\ sid \in Windows /\ unpaid \in Nat
    BY ConstantAssumption DEF TypeOK, ProxyTypeOK, DownTypeOK, PeerTypeOK, Windows
  <2>4. QED
    BY <2>1, <2>2, <2>3 DEF ConnectionCredit
<1>3. QED
  BY <1>1, <1>2, InitType, StepType, StepPlace, StepLedger, StepExact, PTL DEF Spec

-----------------------------------------------------------------------------
(* The client's account of the connection.  With one target everything the *)
(* proxy holds back, and every padding it strips, is the target's.         *)

ConnLearning ==
    IF upAt = "forward" /\ frame.kind = "WINDOW_UPDATE" /\ frame.id = Connection
    THEN frame.amount ELSE 0

ConnBalanced(t) ==
    daemonWin[Connection]
        <= clientWin[Connection] + buf[t] + stripped[t] + ConnLearning + InHand(sid)

ConnCreditInv == Serving => \A t \in Targets : ConnBalanced(t)

LEMMA StepConnBalanced ==
    ASSUME SingleTarget, TypeOK, TypeOK', FrameInv, ClosedInv, NEW t \in Targets,
           Serving => ConnBalanced(t), [Next]_vars, Serving'
    PROVE  ConnBalanced(t)'
<1>0. /\ t \in Streams /\ Connection \notin Streams /\ Connection \in Windows
      /\ \A id \in Windows : daemonWin[id] \in Int /\ clientWin[id] \in Int
      /\ daemonWin \in [Windows -> Int] /\ clientWin \in [Windows -> Int]
      /\ buf[t] \in Nat /\ buf \in [Streams -> Nat]
      /\ stripped[t] \in Nat /\ stripped \in [Streams -> Nat]
      /\ need \in Nat /\ pad \in Nat /\ OnWire \in Nat /\ msg \in Nat /\ rest \in Nat
      /\ opened \subseteq Streams /\ MaxFrame \in Nat /\ frame \in Frames
  BY ConstantAssumption
  DEF OnWire, TypeOK, ProxyTypeOK, DownTypeOK, PeerTypeOK, Windows, Streams
<1>1. ConnLearning \in Int
  BY <1>0 DEF ConnLearning, Frames
<1>2. ASSUME NEW s \in Targets, NEW n \in 0 .. MaxFrame, NEW m \in MessageLengths \cup {0},
             NEW p \in Paddings \cup {0}, ReadTargetData(s, n, m, p)
      PROVE ConnBalanced(t)'
  <2>1. s = t
    BY SingleTarget DEF SingleTarget
  <2>2. /\ Serving /\ ConnBalanced(t) /\ InHand(sid) = 0
        /\ UNCHANGED <<upAt, frame, daemonWin>> /\ n \in Nat /\ p \in Nat
        /\ clientWin'[Connection] = clientWin[Connection] - (n + p)
        /\ stripped'[t] = stripped[t] + p
    BY <1>2, <1>0, <2>1, ConstantAssumption DEF ReadTargetData, DownReads, ClientSends, Serving, InHand
  <2>3. ConnLearning' = ConnLearning
    BY <2>2 DEF ConnLearning
  <2>4. CASE Complete(togo'[t])
    <3>1. sid' = t /\ downAt' = "emit" /\ rest' = buf[t] + n /\ buf'[t] = 0
      BY <1>2, <1>0, <2>1, <2>4 DEF ReadTargetData, Held
    <3>2. InHand(sid)' = buf[t] + n
      BY <3>1 DEF InHand
    <3>3. QED
      BY <1>0, <1>1, <2>2, <2>3, <3>1, <3>2 DEF ConnBalanced
  <2>5. CASE ~Complete(togo'[t])
    <3>1. downAt' = "read" /\ buf'[t] = buf[t] + n
      BY <1>2, <1>0, <2>1, <2>5 DEF ReadTargetData, DownReads, Held
    <3>2. InHand(sid)' = 0
      BY <3>1 DEF InHand
    <3>3. QED
      BY <1>0, <1>1, <2>2, <2>3, <3>1, <3>2 DEF ConnBalanced
  <2>6. QED
    BY <2>4, <2>5
<1>3. ASSUME NEW s \in Others, NEW n \in 0 .. MaxFrame, NEW p \in Paddings \cup {0},
             ReadOtherData(s, n, p)
      PROVE ConnBalanced(t)'
  <2>1. /\ Serving /\ ConnBalanced(t) /\ InHand(sid) = 0
        /\ UNCHANGED <<upAt, frame, daemonWin, buf, stripped>> /\ n \in Nat /\ p \in Nat
        /\ clientWin'[Connection] = clientWin[Connection] - (n + p)
        /\ sid' = s /\ job' = "relay" /\ need' = n /\ pad' = p /\ downAt' \in {"wait", "write"}
    BY <1>3, <1>0, ConstantAssumption DEF ReadOtherData, DownReads, ClientSends, Serving, InHand, proxyVars
  <2>2. InHand(sid)' = n + p /\ ConnLearning' = ConnLearning
    BY <2>1 DEF InHand, OnWire, ConnLearning
  <2>3. QED
    BY <1>0, <1>1, <2>1, <2>2 DEF ConnBalanced
<1>4. ASSUME NEW m \in 1 .. rest, NEW g \in Growth \cup {0}, NEW pk \in {"stat", "other"},
             TakeMessage(m, g, pk)
      PROVE ConnBalanced(t)'
  <2>1. /\ downAt = "emit" /\ downAt' = "wait" /\ job = "cut" /\ m \in Nat /\ g \in Nat
        /\ rest' = rest - m /\ msg' = m + g
        /\ UNCHANGED <<upAt, frame, daemonWin, clientWin, buf, stripped, sid, job>>
    BY <1>4, <1>0, ConstantAssumption DEF TakeMessage, proxyVars, peerVars, FrameInv
  <2>2. Serving /\ ConnBalanced(t)
    BY <1>4 DEF TakeMessage, Serving, peerVars
  <2>3. InHand(sid) = rest /\ InHand(sid)' = rest + g /\ ConnLearning' = ConnLearning
    BY <1>0, <2>1 DEF InHand, ConnLearning
  <2>4. QED
    BY <1>0, <1>1, <2>1, <2>2, <2>3 DEF ConnBalanced
<1>5. ASSUME Write PROVE ConnBalanced(t)'
  <2>1. /\ downAt = "write" /\ Serving /\ ConnBalanced(t)
        /\ UNCHANGED <<upAt, frame, clientWin, buf, stripped>>
        /\ daemonWin'[Connection] = daemonWin[Connection] - OnWire
    BY <1>5, <1>0 DEF Write, proxyVars, Serving
  <2>2. InHand(sid)' = InHand(sid) - OnWire /\ InHand(sid) \in Int
    <3>1. CASE job = "cut"
      <4>1. OnWire = need
        BY <1>0, <3>1 DEF OnWire, FrameInv
      <4>2. QED
        BY <1>5, <1>0, <3>1, <4>1 DEF Write, InHand, downVars
    <3>2. CASE job = "relay"
      BY <1>5, <1>0, <3>2 DEF Write, InHand
    <3>3. QED
      BY <3>1, <3>2 DEF TypeOK, DownTypeOK
  <2>3. ConnLearning' = ConnLearning
    BY <2>1 DEF ConnLearning
  <2>4. QED
    BY <1>0, <1>1, <2>1, <2>2, <2>3 DEF ConnBalanced
<1>6. ASSUME Spend PROVE ConnBalanced(t)'
  <2>1. /\ downAt = "spend" /\ Serving /\ ConnBalanced(t)
        /\ UNCHANGED <<upAt, frame, clientWin, buf, stripped, daemonWin>>
    BY <1>6 DEF Spend, Serving, peerVars
  <2>2. InHand(sid)' = InHand(sid) /\ InHand(sid) \in Int
    <3>1. CASE job = "cut"
      <4>1. need <= msg
        BY <2>1, <3>1 DEF FrameInv, Cutting
      <4>2. QED
        BY <1>6, <1>0, <3>1, <4>1 DEF Spend, InHand, Left
    <3>2. CASE job = "relay"
      BY <1>6, <1>0, <3>2 DEF Spend, InHand, OnWire
    <3>3. QED
      BY <3>1, <3>2 DEF TypeOK, DownTypeOK
  <2>3. ConnLearning' = ConnLearning
    BY <2>1 DEF ConnLearning
  <2>4. QED
    BY <1>0, <1>1, <2>1, <2>2, <2>3 DEF ConnBalanced
<1>7. InHand(sid) \in Int
  BY <1>0 DEF InHand
<1>8. ASSUME DaemonSends PROVE ConnBalanced(t)'
  <2>1. /\ Serving /\ ConnBalanced(t) /\ upAt = "read" /\ ConnLearning = 0 /\ upAt' = "forward"
        /\ UNCHANGED <<clientWin, buf, stripped, downVars>>
        /\ downAt' = downAt \/ (downAt = "asleep" /\ downAt' = "wait")
    BY <1>8 DEF DaemonSends, ReadHeaders, ReadWindowUpdate, ReadSettings, ReadOther, UpReads,
       MarkTarget, ApplyWindowUpdate, ApplySettings, Awake, Serving, ConnLearning
  <2>2. InHand(sid)' = InHand(sid)
    BY <2>1 DEF InHand, OnWire, downVars
  <2>3. daemonWin'[Connection] = daemonWin[Connection] + ConnLearning'
    <3>1. ASSUME NEW s \in Streams, ReadHeaders(s)
          PROVE daemonWin'[Connection] = daemonWin[Connection] + ConnLearning'
      <4>1. daemonWin'[Connection] = daemonWin[Connection] /\ ConnLearning' = 0
        BY <3>1, <1>0 DEF ReadHeaders, Frame, ConnLearning
      <4>2. QED
        BY <4>1, <1>0
    <3>2. ASSUME NEW id \in Windows, NEW k \in 1 .. owed[id], ReadWindowUpdate(id, k)
          PROVE daemonWin'[Connection] = daemonWin[Connection] + ConnLearning'
      <4>1. /\ daemonWin' = [daemonWin EXCEPT ![id] = @ + k]
            /\ ConnLearning' = IF id = Connection THEN k ELSE 0
        BY <3>2, <2>1 DEF ReadWindowUpdate, Frame, ConnLearning
      <4>2. QED
        BY <4>1, <1>0
    <3>3. ASSUME NEW v \in WindowSizes, ReadSettings(v)
          PROVE daemonWin'[Connection] = daemonWin[Connection] + ConnLearning'
      <4>1. daemonWin'[Connection] = daemonWin[Connection] /\ ConnLearning' = 0
        BY <3>3, <1>0 DEF ReadSettings, Frame, ConnLearning
      <4>2. QED
        BY <4>1, <1>0
    <3>4. ASSUME ReadOther
          PROVE daemonWin'[Connection] = daemonWin[Connection] + ConnLearning'
      <4>1. daemonWin'[Connection] = daemonWin[Connection] /\ ConnLearning' = 0
        BY <3>4 DEF ReadOther, Other, ConnLearning
      <4>2. QED
        BY <4>1, <1>0
    <3>5. QED
      BY <1>8, <3>1, <3>2, <3>3, <3>4 DEF DaemonSends
  <2>4. ConnLearning' \in Int
    BY DEF ConnLearning, Frames, TypeOK, ProxyTypeOK
  <2>5. QED
    BY <1>0, <1>7, <2>1, <2>2, <2>3, <2>4 DEF ConnBalanced
<1>9. ASSUME Forward PROVE ConnBalanced(t)'
  <2>1. /\ Serving /\ ConnBalanced(t) /\ ClientLearns /\ upAt = "forward" /\ ConnLearning' = 0
        /\ UNCHANGED <<daemonWin, buf, stripped, downVars, downAt>>
    BY <1>9 DEF Forward, Serving, ConnLearning, MarkClosed
  <2>2. InHand(sid)' = InHand(sid)
    BY <2>1 DEF InHand, OnWire, downVars
  <2>3. clientWin'[Connection] = clientWin[Connection] + ConnLearning
    BY <2>1, <1>0 DEF ClientLearns, ConnLearning, Frames
  <2>4. QED
    BY <1>0, <1>1, <1>7, <2>1, <2>2, <2>3 DEF ConnBalanced
<1>10. ASSUME NEW id \in Windows, ReadControl(id) PROVE ConnBalanced(t)'
  <2>1. /\ Serving /\ ConnBalanced(t) /\ InHand(sid) = 0 /\ InHand(sid)' = 0
        /\ UNCHANGED <<upAt, frame, daemonWin, clientWin, buf, stripped>>
    BY <1>10 DEF ReadControl, DownReads, Serving, InHand, OnWire, proxyVars
  <2>2. QED
    BY <2>1 DEF ConnBalanced, ConnLearning
<1>11. ASSUME EmitDone \/ WaitSleeps \/ WaitPasses \/ TearDown
              \/ (\E p \in {"client", "daemon"} : PeerCloses(p)) \/ UNCHANGED vars
       PROVE ConnBalanced(t)'
  <2>1. /\ Serving /\ ConnBalanced(t)
        /\ UNCHANGED <<upAt, frame, daemonWin, clientWin, buf, stripped>>
    BY <1>11 DEF EmitDone, WaitSleeps, WaitPasses, TearDown, PeerCloses, vars, proxyVars,
       peerVars, Serving
  <2>2. CASE EmitDone
    <3>1. InHand(sid) = 0 /\ InHand(sid)' = 0
      BY <2>2 DEF EmitDone, InHand
    <3>2. QED
      BY <2>1, <3>1 DEF ConnBalanced, ConnLearning
  <2>3. CASE WaitPasses
    <3>1. job \in {"relay", "cut"}
      BY DEF TypeOK, DownTypeOK
    <3>2. InHand(sid)' = InHand(sid)
      BY <2>3, <3>1 DEF WaitPasses, InHand, OnWire, downVars
    <3>3. QED
      BY <2>1, <3>2 DEF ConnBalanced, ConnLearning
  <2>4. CASE WaitSleeps
    <3>1. InHand(sid)' = InHand(sid)
      BY <2>4 DEF WaitSleeps, InHand, OnWire, downVars
    <3>2. QED
      BY <2>1, <3>1 DEF ConnBalanced, ConnLearning
  <2>5. CASE TearDown \/ (\E p \in {"client", "daemon"} : PeerCloses(p)) \/ UNCHANGED vars
    <3>1. InHand(sid)' = InHand(sid)
      BY <2>5 DEF TearDown, PeerCloses, vars, InHand, OnWire, downVars
    <3>2. QED
      BY <2>1, <3>1 DEF ConnBalanced, ConnLearning
  <2>6. QED
    BY <1>11, <2>2, <2>3, <2>4, <2>5
<1>12. ASSUME UpReadFails \/ DownReadFails \/ WaitFails \/ WriteFails PROVE ConnBalanced(t)'
  BY <1>12 DEF UpReadFails, DownReadFails, WaitFails, WriteFails, GiveUp, ClosedInv, Serving,
     peerVars
<1>13. QED
  BY <1>2, <1>3, <1>4, <1>5, <1>6, <1>8, <1>9, <1>10, <1>11, <1>12
  DEF Next, UpStep, ClientSendsFrame, DownStep

(* A message whose rest the client owes can be completed: when the daemon  *)
(* has credited what it took, the client's windows cover whatever, with    *)
(* what the proxy already holds and the padding it has stripped, fits the  *)
(* two windows.  What is held back for a message boundary and what the     *)
(* edits added never eats into it; a message longer than a window, or a    *)
(* client that padded too much, is what never completes.                   *)
ClientCanFinish ==
    upAt = "read" /\ downAt = "read" /\ gone = {} =>
        \A s \in live \cap Targets : owed[s] = 0 /\ owed[Connection] = 0 =>
            \A n \in Nat : /\ buf[s] + stripped[s] + n <= initWin
                            /\ buf[s] + stripped[s] + n <= InitialWindow
                            => n <= clientWin[s] /\ n <= clientWin[Connection]

THEOREM MessageCanEnd ==
    ASSUME SingleTarget
    PROVE  Spec => []ClientCanFinish
<1> DEFINE Inv == TypeOK /\ FrameInv /\ ClosedInv /\ ConnCreditInv /\ CreditConserved
                  /\ ClientNeverShort
<1>1. Init => ClosedInv /\ ConnCreditInv
  BY ConstantAssumption
  DEF Init, ClosedInv, Announced, ConnCreditInv, ConnBalanced, ConnLearning, InHand, Windows,
      Streams
<1>2. TypeOK /\ FrameInv /\ ClosedInv /\ ConnCreditInv /\ [Next]_vars => ConnCreditInv'
  <2> SUFFICES ASSUME TypeOK, FrameInv, ClosedInv, ConnCreditInv, [Next]_vars, Serving',
                      NEW t \in Targets
               PROVE  ConnBalanced(t)'
    BY DEF ConnCreditInv
  <2>1. TypeOK' /\ (Serving => ConnBalanced(t))
    BY StepType DEF ConnCreditInv
  <2>2. QED
    BY <2>1, StepConnBalanced
<1>3. Inv => ClientCanFinish
  <2> SUFFICES ASSUME Inv, upAt = "read", downAt = "read", gone = {}, NEW s \in live \cap Targets,
                      owed[s] = 0, owed[Connection] = 0, NEW n \in Nat,
                      buf[s] + stripped[s] + n <= initWin,
                      buf[s] + stripped[s] + n <= InitialWindow
               PROVE  n <= clientWin[s] /\ n <= clientWin[Connection]
    BY DEF ClientCanFinish
  <2>1. /\ \A id \in Windows : daemonWin[id] \in Int /\ clientWin[id] \in Int
        /\ Connection \in Windows /\ s \in Windows /\ buf[s] \in Nat /\ stripped[s] \in Nat
        /\ initWin \in Int /\ InitialWindow \in Int
    BY ConstantAssumption DEF TypeOK, ProxyTypeOK, PeerTypeOK, Windows, Streams
  <2>2. daemonWin[s] = initWin /\ daemonWin[Connection] = InitialWindow
    BY <2>1 DEF CreditConserved
  <2>3. clientWin[s] + buf[s] + stripped[s] >= daemonWin[s]
    BY DEF ClientNeverShort
  <2>4. daemonWin[Connection]
          <= clientWin[Connection] + buf[s] + stripped[s] + ConnLearning + InHand(sid)
    BY DEF ConnCreditInv, ConnBalanced, Serving
  <2>5. ConnLearning = 0 /\ InHand(sid) = 0
    BY DEF ConnLearning, InHand
  <2>6. QED
    BY <2>1, <2>2, <2>3, <2>4, <2>5
<1>4. QED
  BY <1>1, <1>2, <1>3, InitType, StepType, StepClosed, CreditIsConserved, ClientCredit,
     PTL DEF Spec
=============================================================================
