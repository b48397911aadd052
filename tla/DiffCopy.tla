------------------------------- MODULE DiffCopy -------------------------------
(***************************************************************************)
(* The rewriting of the Dockerfile inside a /session connection: how a     *)
(* stream is recognised by its headers, and how the packets of the file    *)
(* sync on it are told apart, paired and edited (internal/proxy/session.go *)
(* and identify, emitMessages of internal/proxy/sessionsplice.go).         *)
(*                                                                         *)
(* A DiffCopy stream carries fsutil packets: a Stat for every file the     *)
(* client has, then, for the files the daemon asks for, their content in   *)
(* Data packets.  A Data packet does name its file, but the proxy does not *)
(* look: it takes the last Stat before it for its own.                     *)
(*                                                                         *)
(* Frames and flow control are the subject of SessionSplice: here a packet *)
(* is read and written whole, and those of a stream stay in order.         *)
(***************************************************************************)
EXTENDS Naturals, Sequences

CONSTANTS
    Streams,        \* DiffCopy streams of the session
    Follows,        \* those whose followpaths select a Dockerfile
    Files,
    Dockerfiles,    \* files with the name of a Dockerfile (isDockerfileName)
    Size,           \* Size[f]: length of file f
    Walk,           \* Walk[s]: the files the client has for stream s, in order
    Interleaves,    \* the client may send Stats before the Data of an earlier one
    Rules,          \* what the configuration may say
    Changes,        \* Changes[v]: files whose content rules v would change
    FirstRules,
    None,
    MaxOthers       \* bound: packets that are neither Stat nor Data

ASSUME ConstantAssumption ==
    /\ Follows \subseteq Streams
    /\ Dockerfiles \subseteq Files
    /\ Size \in [Files -> Nat \ {0}]
    /\ Walk \in [Streams -> Seq(Files)]
    /\ Interleaves \in BOOLEAN
    /\ Changes \in [Rules -> SUBSET Files]
    /\ FirstRules \in Rules
    /\ None \notin Files \cup Rules \cup Streams
    /\ MaxOthers \in Nat

VARIABLES
    config,     \* the rules of HTTPProxy.config
    snap,       \* sessionSplice.snap, the rules when the session began
    targets,    \* streams marked for rewriting
    stat,       \* stat[s]: the file of the last Stat on stream s
    \* pumpUpstream
    upAt,
    hbSid,      \* stream of the header block in parts, hb, or None
    frame,      \* the stream the frame in hand opens, or None
    \* pumpDownstream
    downAt,
    taken,      \* taken[s]: how many packets of stream s it has read
    \* the peers
    opened,     \* streams the daemon has begun to open
    known,      \* streams the client has seen opened
    walked,     \* walked[s]: how many files the client has sent the Stat of
    due,        \* due[s][f]: bytes of f the client may still send on s
    others,     \* packets of other kinds it has sent
    sent,       \* sent[s]: all packets it has sent
    received,   \* received[s]: all packets the daemon has received
    lost        \* the connections are closed

proxyVars == <<config, snap, targets, stat>>
upVars    == <<upAt, hbSid, frame>>
downVars  == <<downAt, taken>>
clientVars == <<walked, due, others, sent>>
vars == <<proxyVars, upVars, downVars, opened, known, clientVars, received, lost>>

Packets == [kind : {"stat", "data", "other"}, file : Files \cup {None}, size : Nat,
            by : Rules \cup {None}]

Packet(kind, f, n) == [kind |-> kind, file |-> f, size |-> n, by |-> None]

ProxyTypeOK ==
    /\ config \in Rules /\ snap \in Rules
    /\ targets \subseteq Follows
    /\ stat \in [Streams -> Files \cup {None}]
    /\ upAt \in {"read", "forward", "done"}
    /\ hbSid \in Streams \cup {None} /\ frame \in Streams \cup {None}
    /\ downAt \in {"read", "done"}
    /\ taken \in [Streams -> Nat]

PeerTypeOK ==
    /\ opened \subseteq Streams /\ known \subseteq opened
    /\ walked \in [Streams -> Nat]
    /\ due \in [Streams -> [Files -> Nat]]
    /\ others \in Nat
    /\ sent \in [Streams -> Seq(Packets)] /\ received \in [Streams -> Seq(Packets)]

FlagTypeOK == lost \in BOOLEAN

TypeOK == ProxyTypeOK /\ PeerTypeOK /\ FlagTypeOK

Init ==
    /\ config = FirstRules /\ snap = FirstRules
    /\ targets = {} /\ stat = [s \in Streams |-> None]
    /\ upAt = "read" /\ hbSid = None /\ frame = None
    /\ downAt = "read" /\ taken = [s \in Streams |-> 0]
    /\ opened = {} /\ known = {}
    /\ walked = [s \in Streams |-> 0]
    /\ due = [s \in Streams |-> [f \in Files |-> 0]]
    /\ others = 0
    /\ sent = [s \in Streams |-> <<>>] /\ received = [s \in Streams |-> <<>>]
    /\ lost = FALSE

-----------------------------------------------------------------------------
(* pumpUpstream: header blocks, in one frame or in several.                *)

(* Bug: every DiffCopy stream is marked.                                   *)
IdentifyAny(s) == targets' = targets \cup {s}

(* identify, markTarget.                                                   *)
Identify(s) == targets' = IF s \in Follows THEN targets \cup {s} ELSE targets

ReadHeaders(s, ends) ==
    /\ upAt = "read" /\ hbSid = None /\ ~lost
    /\ s \notin opened /\ opened' = opened \cup {s}
    /\ IF ends THEN Identify(s) /\ frame' = s /\ UNCHANGED hbSid
               ELSE hbSid' = s /\ UNCHANGED <<targets, frame>>
    /\ upAt' = "forward"
    /\ UNCHANGED <<config, snap, stat, downVars, known, clientVars, received, lost>>

(* Bug: a block in several frames is put together and not decoded.         *)
ReadContinuationOnly(ends) ==
    /\ upAt = "read" /\ hbSid # None /\ ~lost
    /\ IF ends THEN frame' = hbSid /\ hbSid' = None ELSE UNCHANGED <<hbSid, frame>>
    /\ upAt' = "forward"
    /\ UNCHANGED <<config, snap, targets, stat, downVars, opened, known, clientVars, received, lost>>

ReadContinuation(ends) ==
    /\ upAt = "read" /\ hbSid # None /\ ~lost
    /\ IF ends THEN Identify(hbSid) /\ frame' = hbSid /\ hbSid' = None
               ELSE UNCHANGED <<targets, hbSid, frame>>
    /\ upAt' = "forward"
    /\ UNCHANGED <<config, snap, stat, downVars, opened, known, clientVars, received, lost>>

Forward ==
    /\ upAt = "forward"
    /\ IF lost THEN upAt' = "done" /\ UNCHANGED known
               ELSE upAt' = "read" /\ known' = known \cup ({frame} \ {None})
    /\ frame' = None
    /\ UNCHANGED <<proxyVars, hbSid, downVars, opened, clientVars, received, lost>>

UpReadFails ==
    /\ upAt = "read" /\ lost
    /\ upAt' = "done"
    /\ UNCHANGED <<proxyVars, hbSid, frame, downVars, opened, known, clientVars, received, lost>>

-----------------------------------------------------------------------------
(* pumpDownstream and emitMessages: one packet at a time.                  *)

(* The next packet of stream s.                                            *)
InHand(s) == sent[s][taken[s] + 1]

(* Bug: the length is not compared.                                        *)
MatchesName(s) == stat[s] \in Dockerfiles

(* rewriteDiffCopyData: the last Stat is a Dockerfile's, and as long.      *)
Matches(s) == stat[s] \in Dockerfiles /\ InHand(s).size = Size[stat[s]]

(* Bug: the rules are those of the configuration in force.                 *)
CurrentRules == config

SessionRules == snap

Rewritten(s) ==
    IF Matches(s) /\ InHand(s).file \in Changes[SessionRules]
    THEN [InHand(s) EXCEPT !.by = SessionRules] ELSE InHand(s)

Takes(s) ==
    /\ downAt = "read"
    /\ taken[s] < Len(sent[s])
    /\ taken' = [taken EXCEPT ![s] = @ + 1]
    /\ UNCHANGED <<config, snap, targets, upVars, opened, known, clientVars, lost>>

Writes(s, p) ==
    /\ ~lost
    /\ received' = [received EXCEPT ![s] = Append(@, p)]
    /\ UNCHANGED downAt

WriteFails == lost /\ downAt' = "done" /\ UNCHANGED received

PassStat(s) ==
    /\ Takes(s) /\ s \in targets /\ InHand(s).kind = "stat"
    /\ stat' = [stat EXCEPT ![s] = InHand(s).file]
    /\ \/ Writes(s, InHand(s))
       \/ lost /\ UNCHANGED <<received, downAt>>

PassData(s) ==
    /\ Takes(s) /\ s \in targets /\ InHand(s).kind = "data"
    /\ stat' = [stat EXCEPT ![s] = None]
    /\ Writes(s, Rewritten(s)) \/ WriteFails

(* Packets of other kinds, messages that are compressed or do not parse,   *)
(* other streams.                                                          *)
PassOther(s) ==
    /\ Takes(s) /\ (s \notin targets \/ InHand(s).kind = "other")
    /\ UNCHANGED stat
    /\ Writes(s, InHand(s)) \/ WriteFails

Pass(s) == PassStat(s) \/ PassData(s) \/ PassOther(s)

DownReadFails ==
    /\ downAt = "read" /\ lost
    /\ downAt' = "done"
    /\ UNCHANGED <<proxyVars, upVars, taken, opened, known, clientVars, received, lost>>

-----------------------------------------------------------------------------
(* The client, the configuration, the end of the session.                  *)

Sends(s, p) ==
    /\ s \in known /\ ~lost
    /\ sent' = [sent EXCEPT ![s] = Append(@, p)]
    /\ UNCHANGED <<proxyVars, upVars, downVars, opened, known, received, lost>>

Fresh(s) == \A f \in Files : due[s][f] \in {0, Size[f]}

(* A file the daemon has not asked for until the next Stat is not sent,    *)
(* unless the client interleaves.                                          *)
SendStat(s) ==
    LET f == Walk[s][walked[s] + 1] IN
    /\ walked[s] < Len(Walk[s])
    /\ Interleaves \/ Fresh(s)
    /\ Sends(s, Packet("stat", f, 0))
    /\ walked' = [walked EXCEPT ![s] = @ + 1]
    /\ due' = [due EXCEPT ![s] = [g \in Files |->
                    IF g = f THEN Size[f] ELSE IF Interleaves THEN @[g] ELSE 0]]
    /\ UNCHANGED others

SendData(s, f, n) ==
    /\ n \in 1 .. due[s][f]
    /\ Sends(s, Packet("data", f, n))
    /\ due' = [due EXCEPT ![s][f] = @ - n]
    /\ UNCHANGED <<walked, others>>

SendOther(s) ==
    /\ others < MaxOthers
    /\ Sends(s, Packet("other", None, 0))
    /\ others' = others + 1
    /\ UNCHANGED <<walked, due>>

Reload(v) ==
    /\ v # config /\ config' = v
    /\ UNCHANGED <<snap, targets, stat, upVars, downVars, opened, known, clientVars,
                   received, lost>>

Lose ==
    /\ ~lost /\ lost' = TRUE
    /\ UNCHANGED <<proxyVars, upVars, downVars, opened, known, clientVars, received>>

DaemonOpens ==
    \E ends \in BOOLEAN : ReadContinuation(ends) \/ \E s \in Streams : ReadHeaders(s, ends)

ClientSends ==
    \E s \in Streams :
        \/ SendStat(s)
        \/ SendOther(s)
        \/ \E f \in Files : \E n \in 1 .. due[s][f] : SendData(s, f, n)

Next ==
    \/ DaemonOpens \/ Forward \/ UpReadFails
    \/ (\E s \in Streams : Pass(s)) \/ DownReadFails
    \/ ClientSends
    \/ \E v \in Rules : Reload(v)
    \/ Lose

Spec == Init /\ [][Next]_vars

-----------------------------------------------------------------------------
(* Properties.                                                             *)

Pipe == INSTANCE EditingPipe WITH Edited <- Follows, rules <- snap

(* The session is a pipe that edits Dockerfiles and nothing else, in the   *)
(* layout session.go documents: every Data follows its own Stat.           *)
ImplementsEditingPipe == Pipe!Spec

(* "Other files pass through untouched" (rewriteDiffCopyData): whatever    *)
(* the daemon received edited is a whole Dockerfile, edited by the rules   *)
(* of the session.                                                         *)
OnlyDockerfilesEdited ==
    \A s \in Streams : \A i \in DOMAIN received[s] :
        received[s][i].by # None =>
            /\ Pipe!WholeDockerfile(received[s][i])
            /\ received[s][i].by = snap

(* No Dockerfile reaches the daemon as the client wrote it if the rules    *)
(* change it, sent in one Data packet on a stream that follows one.        *)
DockerfileRewritten ==
    \A s \in Follows : \A i \in DOMAIN received[s] :
        Pipe!WholeDockerfile(received[s][i]) /\ received[s][i].file \in Changes[snap]
            => received[s][i].by # None
=============================================================================
