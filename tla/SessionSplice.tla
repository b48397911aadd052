---------------------------- MODULE SessionSplice ----------------------------
(***************************************************************************)
(* One upgraded /session connection of buildx, spliced by whalevet between *)
(* the client and the Docker daemon (internal/proxy/sessionsplice.go).     *)
(*                                                                         *)
(* Two goroutines pump HTTP/2 frames.  pumpUpstream copies daemon frames   *)
(* to the client and learns from them: which streams carry the Dockerfile  *)
(* (targets) and how much the daemon lets the proxy send (connWin,         *)
(* strmWin).  pumpDownstream copies client frames to the daemon, except    *)
(* that DATA of a target stream is buffered up to a gRPC message boundary, *)
(* rewritten, and cut anew into frames the proxy must pay for itself.  The *)
(* pumps share a mutex and the condition variable winCond.                 *)
(*                                                                         *)
(* Bytes are counted and never looked at: which message is rewritten to    *)
(* what is the subject of DiffCopy.  A frame is received and sent in the   *)
(* same step by the peers (they are external to the program); what the     *)
(* pumps do with it takes the steps the code takes between its locks and   *)
(* its writes.                                                             *)
(*                                                                         *)
(* A DATA frame of the client may be PADDED.  HTTP/2 counts the padding,   *)
(* and the byte that counts it, against both windows; readH2F strips it    *)
(* from the payload, and only the payload is waited for, spent and held.   *)
(* What the padding costs the two peers is written down in unpaid and      *)
(* stripped, which no step looks at.                                       *)
(***************************************************************************)
EXTENDS Integers, FiniteSets

CONSTANTS
    Targets,         \* streams opened for a DiffCopy that follows a Dockerfile
    Others,          \* streams opened for anything else (health checks, ...)
    Connection,      \* stream identifier 0, the connection as a whole
    InitialWindow,   \* defaultFlowWindow
    MaxFrame,        \* maxWriteFrameSize, also the longest client frame
    MessageLengths,  \* lengths of the gRPC messages the client sends
    Packed,          \* lengths of a message begun inside a frame that ends another
    Paddings,        \* lengths of the padding of a client frame, beside none
    Growth,          \* by how much an edit may lengthen a message
    WindowSizes,     \* values of SETTINGS_INITIAL_WINDOW_SIZE the daemon may send
    MaxMessages,     \* bound: client messages, over all streams
    MaxPadding,      \* bound: padding relayed and stripped of any one stream
    MaxSettings      \* bound: SETTINGS frames that change the initial window

ASSUME ConstantAssumption ==
    /\ Targets \cap Others = {}
    /\ Connection \notin Targets \cup Others
    /\ InitialWindow \in Nat /\ MaxFrame \in Nat \ {0}
    /\ MessageLengths \subseteq Nat \ {0} /\ Packed \subseteq MessageLengths
    /\ Paddings \subseteq Nat /\ Growth \subseteq Nat /\ WindowSizes \subseteq Nat
    /\ MaxMessages \in Nat /\ MaxPadding \in Nat /\ MaxSettings \in Nat

Streams == Targets \cup Others
Windows == Streams \cup {Connection}

VARIABLES
    \* the fields of sessionSplice, under its mutex
    connWin,    \* send budget toward the daemon on the connection
    strmWin,    \* the one send budget for target streams
    initWin,    \* the daemon's initial window for new streams
    targets,    \* streams marked for rewriting
    closed,     \* set by the first pump to return
    buf,        \* buf[s]: bytes of target stream s held back
    \* pumpDownstream
    downAt,     \* where it is
    sid,        \* the stream it works on
    job,        \* "cut": it cuts frames of its own; "relay": it relays one
    need,       \* payload bytes of the frame in hand
    pad,        \* its padding, which a relayed frame keeps and a cut one has not
    msg,        \* bytes left of the message writeMessage is cutting
    rest,       \* bytes of complete messages emitMessages has yet to take
    packet,     \* what that message is: the write error of a "stat" is ignored
    \* pumpUpstream
    upAt,
    frame,      \* the daemon frame being forwarded
    torn,       \* run has closed both connections
    \* the peers
    live,       \* streams the client knows and has not finished
    opened,     \* streams the daemon has opened
    togo,       \* togo[s]: bytes the client still owes of its current message
    daemonWin,  \* credit the daemon granted, less what was written to it
    clientWin,  \* the same, as the client sees it
    owed,       \* bytes the daemon took and has not credited again
    unpaid,     \* padding relayed to the daemon and never taken from connWin
    stripped,   \* stripped[s]: padding of target stream s, paid for and thrown away
    gone,       \* peers that have closed their connection
    messages, settings    \* counters for the two bounds

proxyVars == <<connWin, strmWin, initWin, targets, closed, buf>>
downVars  == <<sid, job, need, pad, msg, rest, packet>>
peerVars  == <<live, opened, togo, daemonWin, clientWin, owed, unpaid, stripped, gone>>
vars == <<proxyVars, downAt, downVars, upAt, frame, torn, peerVars,
          messages, settings>>

Frames ==
    [kind : {"HEADERS"}, id : Streams, amount : Int]
    \cup [kind : {"WINDOW_UPDATE", "SETTINGS", "OTHER"}, id : Windows, amount : Int]
Other == [kind |-> "OTHER", id |-> Connection, amount |-> 0]

Min2(a, b) == IF a <= b THEN a ELSE b

ProxyTypeOK ==
    /\ connWin \in Int /\ strmWin \in Int /\ initWin \in Nat
    /\ targets \in SUBSET Targets
    /\ buf \in [Streams -> Nat]
    /\ upAt \in {"read", "forward", "done"}
    /\ frame \in Frames

DownTypeOK ==
    /\ downAt \in {"read", "emit", "wait", "asleep", "write", "spend", "done"}
    /\ sid \in Windows
    /\ job \in {"relay", "cut"} /\ packet \in {"stat", "other"}
    /\ need \in Nat /\ pad \in Nat /\ msg \in Nat /\ rest \in Nat

FlagTypeOK == closed \in BOOLEAN /\ torn \in BOOLEAN

PeerTypeOK ==
    /\ live \in SUBSET Streams /\ opened \in SUBSET Streams
    /\ togo \in [Streams -> Nat]
    /\ daemonWin \in [Windows -> Int] /\ clientWin \in [Windows -> Int]
    /\ owed \in [Windows -> Nat]
    /\ unpaid \in Nat /\ stripped \in [Streams -> Nat]
    /\ gone \in SUBSET {"client", "daemon"}
    /\ messages \in Nat /\ settings \in Nat

TypeOK == ProxyTypeOK /\ DownTypeOK /\ FlagTypeOK /\ PeerTypeOK

Init ==
    /\ connWin = InitialWindow /\ strmWin = 0 /\ initWin = InitialWindow
    /\ targets = {} /\ closed = FALSE
    /\ buf = [s \in Streams |-> 0]
    /\ downAt = "read" /\ sid = Connection /\ job = "relay"
    /\ need = 0 /\ pad = 0 /\ msg = 0 /\ rest = 0 /\ packet = "other"
    /\ upAt = "read" /\ frame = Other /\ torn = FALSE
    /\ live = {} /\ opened = {}
    /\ togo = [s \in Streams |-> 0]
    /\ daemonWin = [id \in Windows |-> IF id = Connection THEN InitialWindow ELSE 0]
    /\ clientWin = [id \in Windows |-> IF id = Connection THEN InitialWindow ELSE 0]
    /\ owed = [id \in Windows |-> 0]
    /\ unpaid = 0 /\ stripped = [s \in Streams |-> 0]
    /\ gone = {}
    /\ messages = 0 /\ settings = 0

-----------------------------------------------------------------------------
(* The methods of sessionSplice that hold its mutex.  A definition that    *)
(* varies the one below it (Silently, Late, ...) is a fault the properties *)
(* are shown to notice; no action uses it.                                 *)

(* winCond.Broadcast: a sleeping waitWindow looks at the budgets again.    *)
Awake == IF downAt = "asleep" THEN "wait" ELSE downAt

(* The new target's budget is the current initial window; nobody is woken. *)
MarkTarget(s) ==
    /\ targets' = targets \cup {s}
    /\ strmWin' = initWin
    /\ UNCHANGED <<connWin, initWin, downAt>>

ApplyWindowUpdateSilently(id, k) ==
    /\ connWin' = IF id = Connection THEN connWin + k ELSE connWin
    /\ strmWin' = IF id \in targets THEN strmWin + k ELSE strmWin
    /\ UNCHANGED <<targets, initWin, downAt>>

ApplyWindowUpdate(id, k) ==
    /\ \/ /\ id = Connection
          /\ connWin' = connWin + k /\ downAt' = Awake
          /\ UNCHANGED strmWin
       \/ /\ id \in targets
          /\ strmWin' = strmWin + k /\ downAt' = Awake
          /\ UNCHANGED connWin
       \/ /\ id \notin targets \cup {Connection}
          /\ UNCHANGED <<connWin, strmWin, downAt>>
    /\ UNCHANGED <<targets, initWin>>

ApplySettingsAbsolutely(v) ==
    /\ initWin' = v /\ strmWin' = v
    /\ downAt' = Awake
    /\ UNCHANGED <<connWin, targets>>

ApplySettings(v) ==
    /\ initWin' = v
    /\ strmWin' = strmWin + (v - initWin)
    /\ downAt' = Awake
    /\ UNCHANGED <<connWin, targets>>

SpendConnectionWindow ==
    /\ connWin' = connWin - need
    /\ UNCHANGED <<strmWin, initWin, targets>>

SpendWindow ==
    /\ connWin' = connWin - need
    /\ strmWin' = IF sid \in targets THEN strmWin - need ELSE strmWin
    /\ UNCHANGED <<initWin, targets>>

StreamCovered == strmWin >= need
Covered == connWin >= need /\ strmWin >= need

(* markClosed, which pumpUpstream defers.                                  *)
MarkClosedSilently == closed' = TRUE /\ UNCHANGED downAt
MarkClosed ==
    /\ closed' = TRUE
    /\ downAt' = Awake
-----------------------------------------------------------------------------
(* pumpUpstream: read a daemon frame and learn from it, then forward it.   *)

UpReads ==
    /\ upAt = "read" /\ ~torn /\ "daemon" \notin gone
    /\ upAt' = "forward"
    /\ UNCHANGED <<closed, buf, downVars, torn, live, togo, clientWin, unpaid, stripped,
                   gone, messages>>

Frame(kind, id, amount) == [kind |-> kind, id |-> id, amount |-> amount]

(* The daemon opens stream s; identify marks it when its headers select a  *)
(* Dockerfile.                                                             *)
ReadHeaders(s) ==
    /\ UpReads
    /\ s \in Streams \ opened
    /\ opened' = opened \cup {s}
    /\ daemonWin' = [daemonWin EXCEPT ![s] = initWin]
    /\ frame' = Frame("HEADERS", s, initWin)
    /\ IF s \in Targets THEN MarkTarget(s)
       ELSE UNCHANGED <<connWin, strmWin, initWin, targets, downAt>>
    /\ UNCHANGED <<owed, settings>>

(* The daemon credits k of the bytes it has consumed against window id.    *)
ReadWindowUpdate(id, k) ==
    /\ UpReads
    /\ k \in 1 .. owed[id]
    /\ owed' = [owed EXCEPT ![id] = @ - k]
    /\ daemonWin' = [daemonWin EXCEPT ![id] = @ + k]
    /\ frame' = Frame("WINDOW_UPDATE", id, k)
    /\ ApplyWindowUpdate(id, k)
    /\ UNCHANGED <<opened, settings>>

ReadSettings(v) ==
    /\ UpReads
    /\ settings < MaxSettings /\ settings' = settings + 1
    /\ v # initWin
    /\ daemonWin' = [id \in Windows |->
            IF id \in opened THEN daemonWin[id] + (v - initWin) ELSE daemonWin[id]]
    /\ frame' = Frame("SETTINGS", Connection, v - initWin)
    /\ ApplySettings(v)
    /\ UNCHANGED <<opened, owed>>

(* DATA, PING, SETTINGS acknowledgements: forwarded, nothing learned.      *)
ReadOther ==
    /\ UpReads
    /\ frame' = Other
    /\ UNCHANGED <<connWin, strmWin, initWin, targets, downAt,
                   opened, daemonWin, owed, settings>>

(* The client's windows once it has seen the frame.                        *)
ClientLearns ==
    /\ live' = IF frame.kind = "HEADERS" THEN live \cup {frame.id} ELSE live
    /\ clientWin' =
         CASE frame.kind = "HEADERS" -> [clientWin EXCEPT ![frame.id] = frame.amount]
           [] frame.kind = "WINDOW_UPDATE" ->
                [clientWin EXCEPT ![frame.id] = @ + frame.amount]
           [] frame.kind = "SETTINGS" -> [id \in Windows |->
                IF id \in opened THEN clientWin[id] + frame.amount ELSE clientWin[id]]
           [] OTHER -> clientWin

(* A write to a peer that has closed fails, if not at once then later.     *)
Forward ==
    /\ upAt = "forward"
    /\ IF torn \/ "client" \in gone
       THEN /\ upAt' = "done" /\ MarkClosed
            /\ UNCHANGED <<live, clientWin>>
       ELSE /\ upAt' = "read" /\ ClientLearns
            /\ UNCHANGED <<closed, downAt>>
    /\ frame' = Other
    /\ UNCHANGED <<connWin, strmWin, initWin, targets, buf, downVars, torn,
                   opened, togo, daemonWin, owed, unpaid, stripped, gone, messages, settings>>

UpReadFails ==
    /\ upAt = "read" /\ (torn \/ "daemon" \in gone)
    /\ upAt' = "done"
    /\ MarkClosed
    /\ UNCHANGED <<connWin, strmWin, initWin, targets, buf, downVars, frame, torn,
                   peerVars, messages, settings>>
-----------------------------------------------------------------------------
(* pumpDownstream: read a client frame.                                    *)

DownReads == downAt = "read" /\ ~torn /\ "client" \notin gone

MayPad(p) == \A s \in Streams : unpaid + stripped[s] + p <= MaxPadding

(* What the client may put in one DATA frame on stream s: n bytes, padding *)
(* counted in.                                                             *)
ClientSends(s, n) ==
    /\ s \in live
    /\ n \in 1 .. MaxFrame /\ n <= clientWin[s] /\ n <= clientWin[Connection]
    /\ clientWin' = [clientWin EXCEPT ![s] = @ - n, ![Connection] = @ - n]

(* What is held of stream s once n more bytes are read; whether it parses  *)
(* into complete messages when the client still owes left bytes.           *)
HeldLast(s, n) == n
Held(s, n) == buf[s] + n

CompleteLate(left) == left < 0
Complete(left) == left = 0

(* n bytes of target stream s and p of padding, beginning a new message of *)
(* m bytes if m is not 0.  The n are held until the buffer ends on a       *)
(* message boundary, then handed to emitMessages as a whole; the p are     *)
(* thrown away.                                                            *)
ReadTargetData(s, n, m, p) ==
    /\ DownReads
    /\ s \in targets
    /\ ClientSends(s, n + p)
    /\ m = 0 \/ (n > togo[s] /\ messages < MaxMessages)
    /\ m \in {0} \cup IF togo[s] = 0 THEN MessageLengths ELSE Packed
    /\ n <= togo[s] + m
    /\ MayPad(p) /\ stripped' = [stripped EXCEPT ![s] = @ + p]
    /\ togo' = [togo EXCEPT ![s] = @ + m - n]
    /\ messages' = IF m = 0 THEN messages ELSE messages + 1
    /\ IF Complete(togo'[s])
       THEN /\ rest' = Held(s, n)
            /\ buf' = [buf EXCEPT ![s] = 0]
            /\ sid' = s /\ job' = "cut" /\ downAt' = "emit"
       ELSE /\ buf' = [buf EXCEPT ![s] = Held(s, n)]
            /\ UNCHANGED <<rest, sid, job, downAt>>
    /\ UNCHANGED <<connWin, strmWin, initWin, targets, closed, need, pad, msg, packet,
                   upAt, frame, torn, live, opened, daemonWin, owed, unpaid, gone, settings>>

(* A DATA frame of any other stream is relayed with its p bytes of padding,*)
(* once the budgets cover its n bytes of payload.                          *)
ReadOtherData(s, n, p) ==
    /\ DownReads
    /\ s \in Others
    /\ ClientSends(s, n + p)
    /\ messages < MaxMessages /\ messages' = messages + 1
    /\ MayPad(p)
    /\ sid' = s /\ job' = "relay" /\ need' = n /\ pad' = p
    /\ downAt' = IF n > 0 THEN "wait" ELSE "write"
    /\ UNCHANGED <<proxyVars, msg, rest, packet, upAt, frame, torn,
                   live, opened, togo, daemonWin, owed, unpaid, stripped, gone, settings>>

(* A frame without DATA is relayed at once; trailers finish their stream.  *)
ReadControl(id) ==
    /\ DownReads
    /\ \/ /\ id = Connection /\ UNCHANGED live
       \/ /\ id \in live /\ togo[id] = 0 /\ live' = live \ {id}
    /\ sid' = id /\ job' = "relay" /\ need' = 0 /\ pad' = 0 /\ downAt' = "write"
    /\ UNCHANGED <<proxyVars, msg, rest, packet, upAt, frame, torn, opened, togo,
                   daemonWin, clientWin, owed, unpaid, stripped, gone, messages, settings>>

DownReadFails ==
    /\ downAt = "read" /\ (torn \/ "client" \in gone)
    /\ downAt' = "done" /\ closed' = TRUE
    /\ UNCHANGED <<connWin, strmWin, initWin, targets, buf, downVars, upAt, frame, torn,
                   peerVars, messages, settings>>
-----------------------------------------------------------------------------
(* emitMessages and writeMessage: cut the complete messages into frames.   *)

(* The next message, m bytes long, leaves the edit g bytes longer; a Stat  *)
(* is never edited.                                                        *)
TakeMessage(m, g, pk) ==
    /\ downAt = "emit" /\ rest > 0
    /\ m \in 1 .. rest
    /\ pk = "stat" => g = 0
    /\ rest' = rest - m
    /\ msg' = m + g /\ need' = Min2(m + g, MaxFrame)
    /\ packet' = pk
    /\ downAt' = "wait"
    /\ UNCHANGED <<proxyVars, sid, job, pad, upAt, frame, torn, peerVars, messages, settings>>

(* The locals of the pump are dead when it reads its next frame.           *)
Idle ==
    /\ sid' = Connection /\ job' = "relay" /\ need' = 0 /\ pad' = 0
    /\ msg' = 0 /\ rest' = 0 /\ packet' = "other"

EmitDone ==
    /\ downAt = "emit" /\ rest = 0
    /\ downAt' = "read" /\ Idle
    /\ UNCHANGED <<proxyVars, upAt, frame, torn, peerVars, messages, settings>>

(* waitWindow, one turn of its loop at a time.                             *)
WaitSleeps ==
    /\ downAt = "wait" /\ ~Covered /\ ~closed
    /\ downAt' = "asleep"
    /\ UNCHANGED <<proxyVars, downVars, upAt, frame, torn, peerVars, messages, settings>>

WaitPasses ==
    /\ downAt = "wait" /\ Covered /\ ~closed
    /\ downAt' = IF job = "cut" THEN "write" ELSE "spend"
    /\ UNCHANGED <<proxyVars, downVars, upAt, frame, torn, peerVars, messages, settings>>

(* A message that cannot be written ends the pump, except that the result  *)
(* of writing a Stat is ignored and the next message is tried.             *)
GiveUp ==
    /\ IF job = "cut" /\ packet = "stat"
       THEN downAt' = "emit" /\ UNCHANGED <<closed, downVars>>
       ELSE downAt' = "done" /\ closed' = TRUE /\ Idle
    /\ UNCHANGED <<connWin, strmWin, initWin, targets, buf, upAt, frame, torn,
                   peerVars, messages, settings>>

WaitFails == downAt = "wait" /\ closed /\ GiveUp

WriteFails == downAt = "write" /\ (torn \/ "daemon" \in gone) /\ GiveUp

(* Bytes of the message left once the frame in hand is sent.               *)
LeftByFrames == msg - MaxFrame
Left == msg - need

(* What the daemon counts of the frame in hand.                            *)
OnWire == need + pad

(* Once the frame is on the wire a cut frame is paid for; a relayed one    *)
(* has been paid for already, but for its padding.  Trailers end the       *)
(* daemon's interest in their stream, whose window it credits no more.     *)
Write ==
    /\ downAt = "write" /\ ~torn /\ "daemon" \notin gone
    /\ daemonWin' = [id \in Windows |->
            IF id \in {sid, Connection} THEN daemonWin[id] - OnWire ELSE daemonWin[id]]
    /\ owed' = [id \in Windows |->
            IF id = sid /\ OnWire = 0 /\ sid # Connection THEN 0
            ELSE IF id \in {sid, Connection} THEN owed[id] + OnWire ELSE owed[id]]
    /\ unpaid' = unpaid + pad
    /\ IF job = "cut" THEN downAt' = "spend" /\ UNCHANGED downVars
              ELSE downAt' = "read" /\ Idle
    /\ UNCHANGED <<proxyVars, upAt, frame, torn,
                   live, opened, togo, clientWin, stripped, gone, messages, settings>>

Spend ==
    /\ downAt = "spend"
    /\ SpendWindow
    /\ IF job = "cut"
       THEN /\ msg' = Left
            /\ need' = Min2(Left, MaxFrame)
            /\ downAt' = IF Left = 0 THEN "emit" ELSE "wait"
       ELSE /\ downAt' = "write"
            /\ UNCHANGED <<msg, need>>
    /\ UNCHANGED <<closed, buf, sid, job, pad, rest, packet, upAt, frame, torn,
                   peerVars, messages, settings>>
-----------------------------------------------------------------------------
(* run closes both connections when the first pump has returned.           *)
TearDown ==
    /\ ~torn /\ "done" \in {upAt, downAt}
    /\ torn' = TRUE
    /\ UNCHANGED <<proxyVars, downAt, downVars, upAt, frame, peerVars, messages, settings>>

PeerCloses(p) ==
    /\ p \notin gone
    /\ gone' = gone \cup {p}
    /\ UNCHANGED <<proxyVars, downAt, downVars, upAt, frame, torn, live, opened, togo,
                   daemonWin, clientWin, owed, unpaid, stripped, messages, settings>>
-----------------------------------------------------------------------------
UpStep == Forward \/ UpReadFails

DownStep ==
    \/ \E m \in 1 .. rest, g \in Growth \cup {0}, pk \in {"stat", "other"} : TakeMessage(m, g, pk)
    \/ EmitDone \/ WaitSleeps \/ WaitPasses \/ WaitFails
    \/ Write \/ WriteFails \/ Spend \/ DownReadFails

DaemonSends ==
    \/ \E s \in Streams : ReadHeaders(s)
    \/ \E id \in Windows : \E k \in 1 .. owed[id] : ReadWindowUpdate(id, k)
    \/ \E v \in WindowSizes : ReadSettings(v)
    \/ ReadOther

ClientSendsFrame ==
    \/ \E s \in Targets, n \in 0 .. MaxFrame, m \in MessageLengths \cup {0},
          p \in Paddings \cup {0} : ReadTargetData(s, n, m, p)
    \/ \E s \in Others, n \in 0 .. MaxFrame, p \in Paddings \cup {0} : ReadOtherData(s, n, p)
    \/ \E id \in Windows : ReadControl(id)

Next ==
    \/ DaemonSends \/ UpStep
    \/ ClientSendsFrame \/ DownStep
    \/ TearDown
    \/ \E p \in {"client", "daemon"} : PeerCloses(p)

Spec == Init /\ [][Next]_vars

(* Goroutines are scheduled and run returns when a pump does.              *)
ProxyFairness == WF_vars(UpStep) /\ WF_vars(DownStep) /\ WF_vars(TearDown)

(* The daemon credits what it has consumed, and the client sends the rest  *)
(* of a message it has begun, without padding, when it has the credit;     *)
(* each while it stays.                                                    *)
PeerFairness ==
    /\ \A id \in Windows : SF_vars(ReadWindowUpdate(id, owed[id]))
    /\ \A s \in Targets : SF_vars(\E n \in 1 .. MaxFrame : ReadTargetData(s, n, 0, 0))

FairSpec == Spec /\ ProxyFairness /\ PeerFairness
-----------------------------------------------------------------------------
(* What is left of the connection's window if padding cost nothing: the    *)
(* code pays for payloads only, and the padding it has relayed is all it   *)
(* can ever send beyond the daemon's grant.                                *)
ConnectionCredit == daemonWin[Connection] + unpaid

(* Only what is covered by connWin and strmWin is let through; in terms of *)
(* what the daemon granted: a frame waitWindow releases fits the           *)
(* connection's credit, but for padding relayed before, and, when the      *)
(* proxy cuts it, its own stream's.                                        *)
ReleasesWithinCredit ==
    [][downAt = "wait" /\ downAt' \in {"write", "spend"}
        => /\ need <= ConnectionCredit
           /\ job = "cut" => need <= daemonWin[sid]]_vars

(* The daemon's connection window is never overrun, whatever the targets,  *)
(* the edits and the order of the frames, by more than the padding relayed *)
(* so far (writeMessage, spendWindow); a client that pads does overrun it, *)
(* against the comment in pumpDownstream on every DATA frame.              *)
ConnectionNeverOverrun == ConnectionCredit >= 0

(* The two peers keep accounts of the same stream through a proxy that     *)
(* holds back and lengthens what passes.  Between frames, while both stay, *)
(* the client is never left with less credit than the daemon granted, but  *)
(* for the bytes the proxy still holds and the padding it has stripped: an *)
(* edit cannot starve the client; its own padding can.                     *)
ClientNeverShort ==
    upAt = "read" /\ downAt = "read" /\ gone = {}
        => \A s \in live : clientWin[s] + buf[s] + stripped[s] >= daemonWin[s]

(* When a pump returns or the daemon goes, both pumps end and both         *)
(* connections are closed: nobody sleeps in waitWindow for ever.           *)
SessionEnds ==
    "done" \in {upAt, downAt} \/ "daemon" \in gone
        ~> torn /\ upAt = "done" /\ downAt = "done"

(* While the peers stay, pumpDownstream always comes back for more.        *)
PumpKeepsReading == downAt # "read" ~> downAt \in {"read", "done"}

(* While the peers stay and the client does not pad, the bytes held back   *)
(* for a target flow on.                                                   *)
HeldBytesFlow ==
    \A s \in Targets : buf[s] > 0 ~> buf[s] = 0 \/ stripped[s] > 0 \/ gone # {}

(* waitWindow sleeps over a frame the proxy cuts only while the windows    *)
(* cannot cover it: every credit that arrives wakes it.                    *)
SleepsOnlyWhenShort == downAt = "asleep" /\ job = "cut" => ~Covered

(* As its comment has it, waitWindow blocks until both windows cover the   *)
(* frame, whatever frame it is; markTarget raises strmWin without waking.  *)
WaitsOnlyUntilCovered == downAt = "asleep" => ~Covered

-----------------------------------------------------------------------------
(* The proxy as an HTTP/2 sender of payloads.  A released frame has left   *)
(* the sender's credit although the daemon has not yet received it.        *)
InFlight ==
    IF downAt = "write" \/ (downAt = "spend" /\ job = "relay") THEN need ELSE 0

Debt(id) == IF id = Connection \/ (job = "cut" /\ id = sid) THEN InFlight ELSE 0

Granted(id) == IF id = Connection THEN ConnectionCredit ELSE daemonWin[id]

SenderCredit == [id \in Targets \cup {Connection} |-> Granted(id) - Debt(id)]

Over == torn \/ gone # {}

Sender == INSTANCE SendWindow WITH
    Metered <- Targets, credit <- SenderCredit,
    opened <- opened \cap Targets, over <- Over

ImplementsSender == Sender!Spec
=============================================================================
