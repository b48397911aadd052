--------------------------- MODULE DiffCopy_proofs ---------------------------
(***************************************************************************)
(* Proofs about DiffCopy, for any streams, files, walks and rules.         *)
(*                                                                         *)
(* The properties speak of what the daemon received, which depends on what *)
(* the proxy remembered of what the client sent.  Whatever order the       *)
(* client keeps, MarkInv says that a stream is marked before its first     *)
(* packet; ReaderInv, that stat[s] is the last Stat read, unless Data came *)
(* after it; PipeInv, that the daemon has the packets read, each edited or *)
(* not by the Stat before it (Judged).  ClientInv is about a client that   *)
(* sends the content of a file before the Stat of the next: before a Data, *)
(* other packets aside, is the Stat of the same file or an earlier part of *)
(* it, so that to judge by the last Stat is to judge by the packet's own.  *)
(***************************************************************************)
EXTENDS DiffCopy, TLAPS

(* Of the first i packets of q, the last that is not of another kind is j. *)
LastAt(q, i, j) ==
    /\ j \in 1 .. i
    /\ q[j].kind # "other"
    /\ \A k \in (j + 1) .. i : q[k].kind = "other"

OwnData(q, i) ==
    q[i].kind = "data" =>
        /\ q[i].file \in Files
        /\ \E j \in 1 .. (i - 1) :
            /\ LastAt(q, i - 1, j)
            /\ q[j].file = q[i].file
            /\ q[j].kind = "stat" \/ q[i].size < Size[q[i].file]

Begun(q, f, n) ==
    \E j \in 1 .. Len(q) :
        /\ LastAt(q, Len(q), j)
        /\ q[j].file = f
        /\ q[j].kind = "stat" \/ n < Size[f]

SentInv(s) == \A i \in 1 .. Len(sent[s]) : sent[s][i].by = None /\ OwnData(sent[s], i)

DueInv(s) ==
    \A f \in Files :
        /\ due[s][f] <= Size[f]
        /\ due[s][f] > 0 => Begun(sent[s], f, due[s][f])

ClientInv == \A s \in Streams : SentInv(s) /\ DueInv(s)

MarkInv ==
    /\ hbSid # None => hbSid \in opened \ known /\ hbSid \notin targets
    /\ upAt = "read" => frame = None
    /\ frame # None => frame \in opened /\ frame # hbSid
    /\ (known \cup {frame}) \cap Follows \subseteq targets
    /\ targets \subseteq opened
    /\ \A s \in Streams \ known : sent[s] = <<>>

Remembers(s, j) ==
    stat[s] = IF sent[s][j].kind = "stat" THEN sent[s][j].file ELSE None

ReaderInv ==
    \A s \in Streams :
        /\ taken[s] <= Len(sent[s])
        /\ s \in targets =>
            \A j \in 1 .. taken[s] : LastAt(sent[s], taken[s], j) => Remembers(s, j)
        /\ stat[s] # None =>
            /\ s \in targets
            /\ \E j \in 1 .. taken[s] : LastAt(sent[s], taken[s], j) /\ sent[s][j].kind = "stat"

(* What the proxy has to judge packet i of stream s by: the last Stat or   *)
(* Data before it is the Stat of a Dockerfile that is as long.             *)
AfterItsStat(s, i) ==
    \E j \in 1 .. (i - 1) :
        /\ LastAt(sent[s], i - 1, j)
        /\ sent[s][j].kind = "stat" /\ sent[s][j].file \in Dockerfiles
        /\ sent[s][i].size = Size[sent[s][j].file]

Judged(s, i) ==
    IF /\ s \in Follows /\ sent[s][i].kind = "data" /\ AfterItsStat(s, i)
       /\ sent[s][i].file \in Changes[snap]
    THEN [sent[s][i] EXCEPT !.by = snap] ELSE sent[s][i]

PipeInv ==
    \A s \in Streams :
        /\ Len(received[s]) <= taken[s]
        /\ ~lost => Len(received[s]) = taken[s]
        /\ \A i \in 1 .. Len(received[s]) : received[s][i] = Judged(s, i)

-----------------------------------------------------------------------------
(* Types.                                                                  *)

LEMMA PacketIsPacket ==
    ASSUME NEW kind \in {"stat", "data", "other"}, NEW f \in Files \cup {None}, NEW n \in Nat
    PROVE  Packet(kind, f, n) \in Packets
  BY DEF Packet, Packets

LEMMA InitType == Init => TypeOK
<1> SUFFICES ASSUME Init PROVE TypeOK
    OBVIOUS
<1>1. ProxyTypeOK /\ PeerTypeOK
  BY ConstantAssumption DEF Init, ProxyTypeOK, PeerTypeOK
<1>2. FlagTypeOK
  BY DEF Init, FlagTypeOK
<1>3. QED
  BY <1>1, <1>2 DEF TypeOK

LEMMA StepFlags == FlagTypeOK /\ [Next]_vars => FlagTypeOK'
  BY DEF FlagTypeOK, Next, vars, proxyVars, upVars, downVars, clientVars, DaemonOpens,
     ReadHeaders, ReadContinuation, Forward, UpReadFails, Pass, PassStat, PassData, PassOther,
     Takes, DownReadFails, ClientSends, SendStat, SendData, SendOther, Sends, Reload, Lose

LEMMA TakesTyped ==
    ASSUME TypeOK, NEW s \in Streams, Takes(s)
    PROVE  InHand(s) \in Packets /\ Rewritten(s) \in Packets
<1>1. taken[s] + 1 \in 1 .. Len(sent[s]) /\ sent[s] \in Seq(Packets)
  BY DEF TypeOK, ProxyTypeOK, PeerTypeOK, Takes
<1>2. InHand(s) \in Packets
  BY <1>1 DEF InHand
<1>3. QED
  BY <1>2 DEF Rewritten, SessionRules, Packets, TypeOK, ProxyTypeOK

LEMMA AppendTyped ==
    ASSUME NEW q \in [Streams -> Seq(Packets)], NEW s \in Streams, NEW p \in Packets
    PROVE  [q EXCEPT ![s] = Append(@, p)] \in [Streams -> Seq(Packets)]
<1>1. Append(q[s], p) \in Seq(Packets)
  OBVIOUS
<1>2. QED
  BY <1>1

LEMMA StepType == TypeOK /\ MarkInv /\ [Next]_vars => TypeOK'
<1> DEFINE Typed == ProxyTypeOK /\ PeerTypeOK
<1> SUFFICES ASSUME TypeOK, MarkInv, [Next]_vars PROVE Typed'
  BY StepFlags DEF TypeOK
<1> USE ConstantAssumption DEF TypeOK, ProxyTypeOK, PeerTypeOK
<1>1. ASSUME NEW s \in Streams, NEW ends \in BOOLEAN, ReadHeaders(s, ends) PROVE Typed'
  BY <1>1 DEF ReadHeaders, Identify, downVars, clientVars
<1>2. ASSUME NEW ends \in BOOLEAN, ReadContinuation(ends) PROVE Typed'
  BY <1>2 DEF ReadContinuation, Identify, downVars, clientVars
<1>3. ASSUME Forward PROVE Typed'
  BY <1>3 DEF Forward, MarkInv, proxyVars, downVars, clientVars
<1>4. ASSUME UpReadFails \/ DownReadFails PROVE Typed'
  BY <1>4 DEF UpReadFails, DownReadFails, proxyVars, upVars, downVars, clientVars
<1>5. ASSUME NEW s \in Streams, Pass(s) PROVE Typed'
  <2>1. Takes(s)
    BY <1>5 DEF Pass, PassStat, PassData, PassOther
  <2>2. InHand(s) \in Packets /\ Rewritten(s) \in Packets
    BY <2>1, TakesTyped
  <2>3. downAt' \in {"read", "done"} /\ received' \in [Streams -> Seq(Packets)]
    <3>1. ASSUME NEW p \in Packets, Writes(s, p) PROVE received' \in [Streams -> Seq(Packets)]
      BY <3>1, AppendTyped DEF Writes
    <3>2. Writes(s, InHand(s)) \/ Writes(s, Rewritten(s)) \/ UNCHANGED received
      BY <1>5 DEF Pass, PassStat, PassData, PassOther, WriteFails
    <3>3. downAt' \in {"read", "done"}
      BY <1>5 DEF Pass, PassStat, PassData, PassOther, Writes, WriteFails
    <3>4. QED
      BY <2>2, <3>1, <3>2, <3>3
  <2>4. stat' \in [Streams -> Files \cup {None}]
    BY <1>5, <2>2 DEF Pass, PassStat, PassData, PassOther, Packets
  <2>5. taken' \in [Streams -> Nat]
    BY <2>1 DEF Takes
  <2>6. UNCHANGED <<config, snap, targets, upVars, opened, known, clientVars>>
    BY <2>1 DEF Takes
  <2>7. ProxyTypeOK'
    BY <2>3, <2>4, <2>5, <2>6 DEF upVars
  <2>8. PeerTypeOK'
    BY <2>3, <2>6 DEF clientVars
  <2>9. QED
    BY <2>7, <2>8
<1>6. ASSUME NEW s \in Streams, SendStat(s) PROVE Typed'
  <2>1. Walk[s][walked[s] + 1] \in Files
    BY <1>6 DEF SendStat
  <2>2. Packet("stat", Walk[s][walked[s] + 1], 0) \in Packets
    BY <2>1, PacketIsPacket
  <2>3. due' \in [Streams -> [Files -> Nat]] /\ walked' \in [Streams -> Nat]
    <3> DEFINE d == [g \in Files |->
                       IF g = Walk[s][walked[s] + 1] THEN Size[g]
                       ELSE IF Interleaves THEN due[s][g] ELSE 0]
    <3>1. d \in [Files -> Nat]
      OBVIOUS
    <3>2. due' = [due EXCEPT ![s] = d]
      BY <1>6 DEF SendStat
    <3>3. walked' \in [Streams -> Nat]
      BY <1>6 DEF SendStat
    <3> HIDE DEF d
    <3>4. QED
      BY <3>1, <3>2, <3>3
  <2>4. sent' \in [Streams -> Seq(Packets)]
    BY <1>6, <2>2, AppendTyped DEF SendStat, Sends
  <2>5. QED
    BY <1>6, <2>3, <2>4 DEF SendStat, Sends, proxyVars, upVars, downVars
<1>7. ASSUME NEW s \in Streams, NEW f \in Files, NEW n \in 1 .. due[s][f], SendData(s, f, n)
      PROVE Typed'
  <2>1. Packet("data", f, n) \in Packets
    BY PacketIsPacket
  <2>2. due' \in [Streams -> [Files -> Nat]]
    BY <1>7 DEF SendData
  <2>3. sent' \in [Streams -> Seq(Packets)]
    BY <1>7, <2>1, AppendTyped DEF SendData, Sends
  <2>4. QED
    BY <1>7, <2>2, <2>3 DEF SendData, Sends, proxyVars, upVars, downVars
<1>8. ASSUME NEW s \in Streams, SendOther(s) PROVE Typed'
  <2>1. sent' \in [Streams -> Seq(Packets)]
    BY <1>8, PacketIsPacket, AppendTyped DEF SendOther, Sends
  <2>2. ProxyTypeOK'
    BY <1>8 DEF SendOther, Sends, proxyVars, upVars, downVars
  <2>3. PeerTypeOK'
    <3>1. others' \in Nat
      BY <1>8 DEF SendOther
    <3>2. UNCHANGED <<opened, known, walked, due, received>>
      BY <1>8 DEF SendOther, Sends
    <3>3. QED
      BY <2>1, <3>1, <3>2
  <2>4. QED
    BY <2>2, <2>3
<1>9. ASSUME NEW v \in Rules, Reload(v) PROVE Typed'
  BY <1>9 DEF Reload, upVars, downVars, clientVars
<1>10. ASSUME Lose \/ UNCHANGED vars PROVE Typed'
  BY <1>10 DEF Lose, vars, proxyVars, upVars, downVars, clientVars
<1> HIDE DEF Typed, TypeOK, ProxyTypeOK, PeerTypeOK
<1>11. QED
  BY <1>1, <1>2, <1>3, <1>4, <1>5, <1>6, <1>7, <1>8, <1>9, <1>10
  DEF Next, DaemonOpens, ClientSends

-----------------------------------------------------------------------------
(* A stream is marked before the client hears of it.                       *)

LEMMA InitMark == Init => MarkInv
  BY ConstantAssumption DEF Init, MarkInv

LEMMA StepMark == TypeOK /\ MarkInv /\ [Next]_vars => MarkInv'
<1> SUFFICES ASSUME TypeOK, MarkInv, [Next]_vars PROVE MarkInv'
    OBVIOUS
<1> USE ConstantAssumption DEF TypeOK, ProxyTypeOK, PeerTypeOK, MarkInv
<1>1. ASSUME NEW s \in Streams, NEW ends \in BOOLEAN, ReadHeaders(s, ends) PROVE MarkInv'
  BY <1>1 DEF ReadHeaders, Identify, clientVars
<1>2. ASSUME NEW ends \in BOOLEAN, ReadContinuation(ends) PROVE MarkInv'
  BY <1>2 DEF ReadContinuation, Identify, clientVars
<1>3. ASSUME Forward \/ UpReadFails PROVE MarkInv'
  BY <1>3 DEF Forward, UpReadFails, proxyVars, clientVars
<1>4. ASSUME UNCHANGED <<targets, upVars, opened, known, sent>> PROVE MarkInv'
  BY <1>4 DEF upVars
<1>5. ASSUME NEW s \in Streams, NEW p, Sends(s, p) PROVE MarkInv'
  BY <1>5 DEF Sends, proxyVars, upVars
<1>6. ASSUME NEW s \in Streams, Pass(s) PROVE MarkInv'
  <2>1. UNCHANGED <<targets, upVars, opened, known, sent>>
    <3> HIDE ConstantAssumption DEF TypeOK, ProxyTypeOK, PeerTypeOK, MarkInv
    <3>1. CASE PassOther(s)  BY <3>1 DEF PassOther, Takes, clientVars
    <3>2. CASE PassStat(s)  BY <3>2 DEF PassStat, Takes, clientVars
    <3>3. CASE PassData(s)  BY <3>3 DEF PassData, Takes, clientVars
    <3> QED BY <1>6, <3>1, <3>2, <3>3 DEF Pass
  <2> QED BY <1>4, <2>1
<1>7. ASSUME DownReadFails \/ (\E v \in Rules : Reload(v)) \/ Lose \/ UNCHANGED vars
      PROVE MarkInv'
  BY <1>4, <1>7 DEF DownReadFails, Reload, Lose, vars, proxyVars, upVars, clientVars
<1>8. ASSUME ClientSends PROVE MarkInv'
  BY <1>5, <1>8 DEF ClientSends, SendStat, SendData, SendOther
<1> HIDE ConstantAssumption DEF TypeOK, ProxyTypeOK, PeerTypeOK, MarkInv
<1>9. QED
  BY <1>1, <1>2, <1>3, <1>6, <1>7, <1>8 DEF Next, DaemonOpens

-----------------------------------------------------------------------------
(* The last packet that is not of another kind.                            *)

LEMMA LastUnique ==
    ASSUME NEW q, NEW i \in Nat, NEW j, NEW k, LastAt(q, i, j), LastAt(q, i, k)
    PROVE  j = k
  BY DEF LastAt

LEMMA LastStep ==
    ASSUME NEW q, NEW i \in Nat, NEW j
    PROVE  LastAt(q, i + 1, j) <=> IF q[i + 1].kind = "other" THEN LastAt(q, i, j) ELSE j = i + 1
<1>1. CASE q[i + 1].kind = "other"
  <2>1. ASSUME LastAt(q, i + 1, j) PROVE LastAt(q, i, j)
    BY <1>1, <2>1 DEF LastAt
  <2>2. ASSUME LastAt(q, i, j) PROVE LastAt(q, i + 1, j)
    BY <1>1, <2>2 DEF LastAt
  <2>3. QED
    BY <1>1, <2>1, <2>2
<1>2. CASE q[i + 1].kind # "other"
  <2>1. ASSUME LastAt(q, i + 1, j) PROVE j = i + 1
    BY <1>2, <2>1 DEF LastAt
  <2>2. LastAt(q, i + 1, i + 1)
    BY <1>2 DEF LastAt
  <2>3. QED
    BY <1>2, <2>1, <2>2
<1>3. QED
  BY <1>1, <1>2

LEMMA LastAppend ==
    ASSUME NEW q \in Seq(Packets), NEW p \in Packets
    PROVE  /\ \A i \in 0 .. Len(q) : \A j \in Nat :
                LastAt(Append(q, p), i, j) <=> LastAt(q, i, j)
           /\ p.kind # "other" => LastAt(Append(q, p), Len(q) + 1, Len(q) + 1)
           /\ \A j \in Nat : p.kind = "other" /\ LastAt(q, Len(q), j)
                => LastAt(Append(q, p), Len(q) + 1, j)
<1>1. /\ \A k \in 1 .. Len(q) : Append(q, p)[k] = q[k]
      /\ Append(q, p)[Len(q) + 1] = p
      /\ Len(q) \in Nat
  OBVIOUS
<1>2. ASSUME NEW i \in 0 .. Len(q), NEW j \in Nat
      PROVE  LastAt(Append(q, p), i, j) <=> LastAt(q, i, j)
  <2>1. \A k \in 1 .. i : Append(q, p)[k] = q[k]
    BY <1>1
  <2> QED
    BY <2>1 DEF LastAt
<1>3. ASSUME p.kind # "other" PROVE LastAt(Append(q, p), Len(q) + 1, Len(q) + 1)
  BY <1>1, <1>3 DEF LastAt
<1>4. ASSUME NEW j \in Nat, p.kind = "other", LastAt(q, Len(q), j)
      PROVE  LastAt(Append(q, p), Len(q) + 1, j)
  BY <1>1, <1>4 DEF LastAt
<1>5. QED
  BY <1>2, <1>3, <1>4

-----------------------------------------------------------------------------
(* The client sends a file's content after its Stat and before the next.   *)

LEMMA InitClient == Init => ClientInv
<1> SUFFICES ASSUME Init, NEW s \in Streams PROVE SentInv(s) /\ DueInv(s)
  BY DEF ClientInv
<1>1. sent[s] = <<>> /\ Len(sent[s]) = 0
  BY DEF Init
<1>2. \A f \in Files : due[s][f] = 0 /\ Size[f] \in Nat
  BY ConstantAssumption DEF Init
<1>3. QED
  BY <1>1, <1>2 DEF SentInv, DueInv

LEMMA StatBegins ==
    ASSUME NEW q \in Seq(Packets), NEW p \in Packets, p.kind = "stat", NEW n
    PROVE  OwnData(Append(q, p), Len(q) + 1) /\ Begun(Append(q, p), p.file, n)
<1>1. Append(q, p)[Len(q) + 1] = p /\ Len(Append(q, p)) = Len(q) + 1 /\ Len(q) \in Nat
  OBVIOUS
<1>2. LastAt(Append(q, p), Len(q) + 1, Len(q) + 1)
  BY LastAppend
<1>3. QED
  BY <1>1, <1>2 DEF OwnData, Begun

LEMMA DataFollows ==
    ASSUME NEW q \in Seq(Packets), NEW p \in Packets, p.kind = "data", p.file \in Files,
           NEW d \in Nat, d <= Size[p.file], p.size \in 1 .. d, Begun(q, p.file, d)
    PROVE  OwnData(Append(q, p), Len(q) + 1) /\ Begun(Append(q, p), p.file, d - p.size)
<1>1. PICK j \in 1 .. Len(q) : /\ LastAt(q, Len(q), j) /\ q[j].file = p.file
                               /\ q[j].kind = "stat" \/ d < Size[p.file]
  BY DEF Begun
<1>2. /\ Append(q, p)[Len(q) + 1] = p /\ Len(Append(q, p)) = Len(q) + 1 /\ Len(q) \in Nat
      /\ Append(q, p)[j] = q[j]
  OBVIOUS
<1>3. Size[p.file] \in Nat
  BY ConstantAssumption
<1>4. LastAt(Append(q, p), Len(q), j)
  <2>1. Len(q) \in 0 .. Len(q) /\ j \in Nat
    BY <1>2
  <2>2. QED
    BY <1>1, <2>1, LastAppend
<1>5. OwnData(Append(q, p), Len(q) + 1)
  <2>1. Len(q) + 1 - 1 = Len(q)
    BY <1>2
  <2>2. q[j].kind = "stat" \/ p.size < Size[p.file]
    BY <1>1, <1>3
  <2>3. QED
    BY <1>1, <1>2, <1>4, <2>1, <2>2 DEF OwnData
<1>6. LastAt(Append(q, p), Len(q) + 1, Len(q) + 1)
  BY LastAppend
<1>7. d - p.size < Size[p.file]
  BY <1>3
<1>8. QED
  BY <1>2, <1>5, <1>6, <1>7 DEF Begun

LEMMA OtherPasses ==
    ASSUME NEW q \in Seq(Packets), NEW p \in Packets, p.kind = "other"
    PROVE  /\ OwnData(Append(q, p), Len(q) + 1)
           /\ \A f, n : Begun(q, f, n) => Begun(Append(q, p), f, n)
<1>1. Append(q, p)[Len(q) + 1] = p /\ Len(Append(q, p)) = Len(q) + 1 /\ Len(q) \in Nat
  OBVIOUS
<1>2. ASSUME NEW f, NEW n, Begun(q, f, n) PROVE Begun(Append(q, p), f, n)
  <2>1. PICK j \in 1 .. Len(q) :
          LastAt(q, Len(q), j) /\ q[j].file = f /\ (q[j].kind = "stat" \/ n < Size[f])
    BY <1>2 DEF Begun
  <2>2. Append(q, p)[j] = q[j]
    OBVIOUS
  <2>3. LastAt(Append(q, p), Len(q) + 1, j)
    BY <2>1, LastAppend
  <2>4. QED
    BY <1>1, <2>1, <2>2, <2>3 DEF Begun
<1>3. QED
  BY <1>1, <1>2 DEF OwnData

(* A packet that is in its place leaves the others in theirs.              *)
LEMMA SentKept ==
    ASSUME TypeOK, ClientInv, NEW s \in Streams, NEW p \in Packets, Sends(s, p), p.by = None,
           OwnData(Append(sent[s], p), Len(sent[s]) + 1)
    PROVE  /\ \A t \in Streams : SentInv(t)'
           /\ sent'[s] = Append(sent[s], p)
           /\ \A t \in Streams : t # s => sent'[t] = sent[t]
<1> DEFINE q == sent[s]
<1>1. /\ q \in Seq(Packets) /\ sent'[s] = Append(q, p)
      /\ \A t \in Streams : t # s => sent'[t] = sent[t]
  BY DEF TypeOK, PeerTypeOK, Sends
<1>2. ASSUME NEW i \in 1 .. Len(Append(q, p))
      PROVE  Append(q, p)[i].by = None /\ OwnData(Append(q, p), i)
  <2>1. CASE i = Len(q) + 1
    BY <1>1, <2>1
  <2>2. CASE i \in 1 .. Len(q)
    <3>1. \A k \in 1 .. i : Append(q, p)[k] = q[k]
      BY <1>1, <2>2
    <3>2. q[i].by = None /\ OwnData(q, i)
      BY <2>2 DEF ClientInv, SentInv
    <3>3. \A j \in Nat : LastAt(Append(q, p), i - 1, j) <=> LastAt(q, i - 1, j)
      <4>1. i - 1 \in 0 .. Len(q)
        BY <1>1, <2>2
      <4>2. QED
        BY <1>1, <4>1, LastAppend
    <3>4. QED
      BY <2>2, <3>1, <3>2, <3>3 DEF OwnData
  <2>3. QED
    BY <1>1, <1>2, <2>1, <2>2
<1>3. SentInv(s)'
  BY <1>1, <1>2 DEF SentInv
<1>4. \A t \in Streams : t # s => SentInv(t)'
  BY <1>1 DEF ClientInv, SentInv
<1>5. QED
  BY <1>1, <1>3, <1>4

LEMMA StepClient ==
    ASSUME ~Interleaves
    PROVE  TypeOK /\ ClientInv /\ [Next]_vars => ClientInv'
<1> SUFFICES ASSUME TypeOK, ClientInv, [Next]_vars PROVE ClientInv'
    OBVIOUS
<1>1. ASSUME NEW s \in Streams, SendStat(s) PROVE ClientInv'
  <2> DEFINE f == Walk[s][walked[s] + 1]
             p == Packet("stat", f, 0)
  <2>1. f \in Files /\ Size[f] \in Nat /\ Sends(s, p)
    <3>1. Walk[s] \in Seq(Files) /\ walked[s] + 1 \in 1 .. Len(Walk[s])
      <4>1. Walk[s] \in Seq(Files)
        BY ConstantAssumption
      <4>2. walked[s] \in Nat /\ walked[s] < Len(Walk[s])
        BY <1>1 DEF SendStat, TypeOK, PeerTypeOK
      <4>3. QED
        BY <4>1, <4>2
    <3>2. f \in Files
      BY <3>1
    <3>3. QED
      BY <1>1, <3>2, ConstantAssumption DEF SendStat
  <2>2. p \in Packets /\ p.by = None /\ p.kind = "stat" /\ p.file = f
    BY <2>1, PacketIsPacket DEF Packet
  <2>3. \A t \in Streams : \A g \in Files :
            due'[t][g] = IF t = s THEN (IF g = f THEN Size[f] ELSE 0) ELSE due[t][g]
    BY <1>1, ~Interleaves DEF SendStat, TypeOK, PeerTypeOK
  <2> HIDE DEF f, p
  <2>4. sent[s] \in Seq(Packets)
    BY DEF TypeOK, PeerTypeOK
  <2>5. /\ OwnData(Append(sent[s], p), Len(sent[s]) + 1)
        /\ Begun(Append(sent[s], p), f, Size[f])
    BY <2>2, <2>4, StatBegins
  <2>6. /\ \A t \in Streams : SentInv(t)'
        /\ sent'[s] = Append(sent[s], p)
        /\ \A t \in Streams : t # s => sent'[t] = sent[t]
    BY <2>1, <2>2, <2>5, SentKept
  <2>7. DueInv(s)'
    <3>1. \A g \in Files : Size[g] \in Nat \ {0}
      BY ConstantAssumption
    <3>2. \A g \in Files : due'[s][g] <= Size[g] /\ (g # f => due'[s][g] = 0)
      BY <2>3, <3>1
    <3>3. Begun(sent'[s], f, due'[s][f])
      BY <2>1, <2>3, <2>5, <2>6
    <3>4. QED
      BY <3>2, <3>3 DEF DueInv
  <2>8. \A t \in Streams : t # s => DueInv(t)'
    BY <2>3, <2>6 DEF ClientInv, DueInv
  <2>9. QED
    BY <2>6, <2>7, <2>8 DEF ClientInv
<1>2. ASSUME NEW s \in Streams, NEW f \in Files, NEW n \in 1 .. due[s][f], SendData(s, f, n)
      PROVE ClientInv'
  <2> DEFINE q == sent[s]
             p == Packet("data", f, n)
  <2>1. Sends(s, p) /\ p \in Packets /\ p.by = None
    BY <1>2, PacketIsPacket DEF SendData, Packet
  <2>2. p.kind = "data" /\ p.file = f /\ p.size = n
    BY DEF Packet
  <2>3. \A t \in Streams : \A g \in Files :
            due'[t][g] = IF t = s /\ g = f THEN due[s][f] - n ELSE due[t][g]
    BY <1>2 DEF SendData, TypeOK, PeerTypeOK
  <2> HIDE DEF p
  <2>4. q \in Seq(Packets) /\ due \in [Streams -> [Files -> Nat]]
    BY DEF TypeOK, PeerTypeOK
  <2>5. due[s][f] \in Nat /\ due[s][f] > 0
    BY <2>4
  <2>6. Begun(q, f, due[s][f]) /\ due[s][f] <= Size[f] /\ Size[f] \in Nat
    BY <2>5, ConstantAssumption DEF ClientInv, DueInv
  <2>7. OwnData(Append(q, p), Len(q) + 1) /\ Begun(Append(q, p), f, due[s][f] - n)
    BY <2>1, <2>2, <2>4, <2>5, <2>6, DataFollows
  <2>8. /\ \A t \in Streams : SentInv(t)'
        /\ sent'[s] = Append(q, p)
        /\ \A t \in Streams : t # s => sent'[t] = sent[t]
    BY <2>1, <2>7, SentKept
  <2>9. ASSUME NEW g \in Files, due[s][g] > 0 PROVE g = f
    <3>1. Begun(q, g, due[s][g])
      BY <2>9 DEF ClientInv, DueInv
    <3>2. PICK j \in 1 .. Len(q) : LastAt(q, Len(q), j) /\ q[j].file = f
      BY <2>6 DEF Begun
    <3>3. PICK k \in 1 .. Len(q) : LastAt(q, Len(q), k) /\ q[k].file = g
      BY <3>1 DEF Begun
    <3>4. j = k
      BY <2>4, <3>2, <3>3, LastUnique
    <3>5. QED
      BY <3>2, <3>3, <3>4
  <2>10. DueInv(s)'
    <3>1. ASSUME NEW g \in Files PROVE due'[s][g] <= Size[g] /\ (due'[s][g] > 0 => g = f)
      <4>1. due[s][g] <= Size[g] /\ Size[g] \in Nat /\ due[s][g] \in Nat
        BY <2>4, ConstantAssumption DEF ClientInv, DueInv
      <4>2. QED
        BY <2>3, <2>5, <2>9, <4>1
    <3>2. QED
      BY <2>3, <2>7, <2>8, <3>1 DEF DueInv
  <2>11. \A t \in Streams : t # s => DueInv(t)'
    BY <2>3, <2>8 DEF ClientInv, DueInv
  <2>12. QED
    BY <2>8, <2>10, <2>11 DEF ClientInv
<1>3. ASSUME NEW s \in Streams, SendOther(s) PROVE ClientInv'
  <2> DEFINE q == sent[s]
             p == Packet("other", None, 0)
  <2>1. Sends(s, p) /\ p \in Packets /\ p.by = None /\ p.kind = "other"
    BY <1>3, PacketIsPacket DEF SendOther, Packet
  <2> HIDE DEF p
  <2>2. q \in Seq(Packets)
    BY DEF TypeOK, PeerTypeOK
  <2>3. /\ OwnData(Append(q, p), Len(q) + 1)
        /\ \A f, n : Begun(q, f, n) => Begun(Append(q, p), f, n)
    BY <2>1, <2>2, OtherPasses
  <2>4. /\ \A t \in Streams : SentInv(t)'
        /\ sent'[s] = Append(q, p)
        /\ \A t \in Streams : t # s => sent'[t] = sent[t]
    BY <2>1, <2>3, SentKept
  <2>5. UNCHANGED due
    BY <1>3 DEF SendOther
  <2>6. \A t \in Streams : DueInv(t)'
    BY <2>3, <2>4, <2>5 DEF ClientInv, DueInv
  <2>7. QED
    BY <2>4, <2>6 DEF ClientInv
<1>4. ASSUME Forward PROVE ClientInv'
  BY <1>4 DEF Forward, clientVars, ClientInv, SentInv, DueInv
<1>5. ASSUME UNCHANGED <<known, due, sent>> PROVE ClientInv'
  BY <1>5 DEF ClientInv, SentInv, DueInv
<1>6. QED
  BY <1>1, <1>2, <1>3, <1>4, <1>5
  DEF Next, DaemonOpens, ReadHeaders, ReadContinuation, UpReadFails, Pass, PassStat, PassData,
      PassOther, Takes, DownReadFails, ClientSends, Reload, Lose, vars, clientVars

-----------------------------------------------------------------------------
(* What the proxy remembers, and what the daemon gets.                     *)

LEMMA InitReader == Init => ReaderInv /\ PipeInv
<1> SUFFICES ASSUME Init PROVE ReaderInv /\ PipeInv
    OBVIOUS
<1>1. \A s \in Streams : sent[s] = <<>> /\ received[s] = <<>> /\ taken[s] = 0
  BY DEF Init
<1>2. targets = {} /\ Len(<<>>) = 0 /\ \A s \in Streams : stat[s] = None
  BY DEF Init
<1>3. QED
  BY <1>1, <1>2 DEF ReaderInv, PipeInv

(* The packet in hand is the next of its stream.                           *)
LEMMA HandFacts ==
    ASSUME TypeOK, ReaderInv, NEW s \in Streams, Takes(s)
    PROVE  /\ taken[s] \in Nat /\ taken[s] + 1 \in 1 .. Len(sent[s])
           /\ InHand(s) = sent[s][taken[s] + 1] /\ InHand(s) \in Packets
           /\ taken' = [taken EXCEPT ![s] = @ + 1] /\ taken'[s] = taken[s] + 1
           /\ UNCHANGED <<targets, known, sent, snap, lost>>
  BY TakesTyped DEF TypeOK, ProxyTypeOK, PeerTypeOK, Takes, InHand, clientVars

(* Passing a packet, as one step: the daemon gets what emitMessages makes  *)
(* of it, unless the connections are closed.                               *)
Emitted(s) == IF s \in targets /\ InHand(s).kind = "data" THEN Rewritten(s) ELSE InHand(s)

LEMMA PassFacts ==
    ASSUME NEW s \in Streams, Pass(s)
    PROVE  /\ Takes(s)
           /\ \/ ~lost /\ received' = [received EXCEPT ![s] = Append(@, Emitted(s))]
              \/ lost /\ UNCHANGED received
           /\ stat' = IF s \notin targets \/ InHand(s).kind = "other" THEN stat
                      ELSE [stat EXCEPT ![s] = IF InHand(s).kind = "stat" THEN InHand(s).file
                                               ELSE None]
<1>1. Takes(s)
  BY DEF Pass, PassStat, PassData, PassOther
<1>2. CASE PassStat(s)
  BY <1>1, <1>2 DEF PassStat, Writes, Emitted
<1>3. CASE PassData(s)
  BY <1>1, <1>3 DEF PassData, Writes, WriteFails, Emitted
<1>4. CASE PassOther(s)
  BY <1>1, <1>4 DEF PassOther, Writes, WriteFails, Emitted
<1>5. QED
  BY <1>2, <1>3, <1>4 DEF Pass

(* It edits by the last Stat or Data it has read.                          *)
LEMMA EmittedIsJudged ==
    ASSUME TypeOK, MarkInv, ReaderInv, NEW s \in Streams, Takes(s)
    PROVE  Emitted(s) = Judged(s, taken[s] + 1)
<1> DEFINE p == InHand(s)
<1>1. /\ taken[s] \in Nat /\ taken[s] + 1 \in 1 .. Len(sent[s]) /\ taken[s] + 1 - 1 = taken[s]
      /\ p = sent[s][taken[s] + 1] /\ p \in Packets
  BY HandFacts
<1>2. s \in targets <=> s \in Follows
  <2>1. s \in known
    BY <1>1 DEF MarkInv
  <2>2. QED
    BY <2>1 DEF MarkInv, TypeOK, ProxyTypeOK
<1>3. ASSUME s \in targets PROVE Matches(s) <=> AfterItsStat(s, taken[s] + 1)
  <2>1. ASSUME Matches(s) PROVE AfterItsStat(s, taken[s] + 1)
    <3>1. stat[s] # None
      BY <2>1, ConstantAssumption DEF Matches
    <3>2. PICK j \in 1 .. taken[s] : LastAt(sent[s], taken[s], j) /\ sent[s][j].kind = "stat"
      BY <3>1 DEF ReaderInv
    <3>3. sent[s][j].file = stat[s]
      BY <1>3, <3>2 DEF ReaderInv, Remembers
    <3>4. QED
      BY <1>1, <2>1, <3>2, <3>3 DEF AfterItsStat, Matches
  <2>2. ASSUME AfterItsStat(s, taken[s] + 1) PROVE Matches(s)
    <3>1. PICK j \in 1 .. taken[s] :
            /\ LastAt(sent[s], taken[s], j)
            /\ sent[s][j].kind = "stat" /\ sent[s][j].file \in Dockerfiles
            /\ p.size = Size[sent[s][j].file]
      BY <1>1, <2>2 DEF AfterItsStat
    <3>2. stat[s] = sent[s][j].file
      BY <1>3, <3>1 DEF ReaderInv, Remembers
    <3>3. QED
      BY <3>1, <3>2 DEF Matches
  <2>3. QED
    BY <2>1, <2>2
<1>4. QED
  BY <1>1, <1>2, <1>3 DEF Emitted, Rewritten, SessionRules, Judged

(* In the documented order that is to edit whole Dockerfiles.              *)
LEMMA JudgedIsImage ==
    ASSUME TypeOK, ClientInv, NEW s \in Streams, NEW i \in 1 .. Len(sent[s])
    PROVE  Judged(s, i) = Pipe!Image(s, sent[s][i])
<1> DEFINE p == sent[s][i]
<1>1. p \in Packets /\ OwnData(sent[s], i) /\ i - 1 \in Nat
  BY DEF TypeOK, PeerTypeOK, ClientInv, SentInv
<1>2. CASE p.kind = "data"
  <2>1. p.file \in Files /\ Size[p.file] \in Nat
    BY <1>1, <1>2, ConstantAssumption DEF OwnData
  <2>2. PICK j \in 1 .. (i - 1) :
          /\ LastAt(sent[s], i - 1, j)
          /\ sent[s][j].file = p.file
          /\ sent[s][j].kind = "stat" \/ p.size < Size[p.file]
    BY <1>1, <1>2 DEF OwnData
  <2>3. \A k : LastAt(sent[s], i - 1, k) => k = j
    BY <1>1, <2>2, LastUnique
  <2>4. AfterItsStat(s, i) <=> Pipe!WholeDockerfile(p)
    <3>1. CASE sent[s][j].kind = "stat"
      BY <1>2, <2>2, <2>3, <3>1 DEF AfterItsStat, Pipe!WholeDockerfile
    <3>2. CASE sent[s][j].kind # "stat"
      <4>1. p.size # Size[p.file]
        BY <1>1, <2>1, <2>2, <3>2 DEF Packets
      <4>2. QED
        BY <2>2, <2>3, <3>2, <4>1 DEF AfterItsStat, Pipe!WholeDockerfile
    <3>3. QED
      BY <3>1, <3>2
  <2>5. QED
    BY <1>2, <2>4 DEF Judged, Pipe!Image
<1>3. CASE p.kind # "data"
  BY <1>3 DEF Judged, Pipe!Image, Pipe!WholeDockerfile
<1>4. QED
  BY <1>2, <1>3

LEMMA PassReader ==
    ASSUME TypeOK, MarkInv, ReaderInv, NEW s \in Streams, Pass(s)
    PROVE  ReaderInv'
<1>1. /\ taken[s] \in Nat /\ taken[s] + 1 \in 1 .. Len(sent[s])
      /\ InHand(s) = sent[s][taken[s] + 1]
      /\ taken' = [taken EXCEPT ![s] = @ + 1] /\ taken'[s] = taken[s] + 1
      /\ UNCHANGED <<targets, sent>>
  BY PassFacts, HandFacts
<1>2. ASSUME NEW t \in Streams, t # s PROVE taken'[t] = taken[t] /\ stat'[t] = stat[t]
  BY <1>1, <1>2, PassFacts DEF TypeOK, ProxyTypeOK
<1>3. ASSUME s \in targets, NEW j \in 1 .. taken'[s], LastAt(sent[s], taken[s] + 1, j)
      PROVE  Remembers(s, j)'
  <2>1. CASE InHand(s).kind = "other"
    <3>1. LastAt(sent[s], taken[s], j) /\ j \in 1 .. taken[s]
      <4>1. LastAt(sent[s], taken[s], j)
        BY <1>1, <1>3, <2>1, LastStep
      <4>2. QED
        BY <4>1 DEF LastAt
    <3>2. Remembers(s, j)
      BY <1>3, <3>1 DEF ReaderInv
    <3>3. QED
      BY <1>1, <2>1, <3>2, PassFacts DEF Remembers
  <2>2. CASE InHand(s).kind # "other"
    <3>1. j = taken[s] + 1
      BY <1>1, <1>3, <2>2 DEF LastAt
    <3>2. stat'[s] = IF InHand(s).kind = "stat" THEN InHand(s).file ELSE None
      BY <1>3, <2>2, PassFacts DEF TypeOK, ProxyTypeOK
    <3>3. QED
      BY <1>1, <3>1, <3>2 DEF Remembers
  <2>3. QED
    BY <2>1, <2>2
<1>4. ASSUME stat'[s] # None
      PROVE  /\ s \in targets
             /\ \E j \in 1 .. taken'[s] :
                   LastAt(sent[s], taken[s] + 1, j) /\ sent[s][j].kind = "stat"
  <2>1. CASE s \notin targets \/ InHand(s).kind = "other"
    <3>1. stat'[s] = stat[s]
      BY <2>1, PassFacts
    <3>2. s \in targets
      BY <1>4, <3>1 DEF ReaderInv
    <3>3. PICK j \in 1 .. taken[s] : LastAt(sent[s], taken[s], j) /\ sent[s][j].kind = "stat"
      BY <1>4, <3>1 DEF ReaderInv
    <3>4. LastAt(sent[s], taken[s] + 1, j)
      BY <1>1, <2>1, <3>2, <3>3, LastStep
    <3>5. QED
      BY <1>1, <3>2, <3>3, <3>4
  <2>2. CASE ~ (s \notin targets \/ InHand(s).kind = "other")
    <3>1. stat'[s] = IF InHand(s).kind = "stat" THEN InHand(s).file ELSE None
      BY <2>2, PassFacts DEF TypeOK, ProxyTypeOK
    <3>2. InHand(s).kind = "stat"
      BY <1>4, <3>1
    <3>3. LastAt(sent[s], taken[s] + 1, taken[s] + 1)
      BY <1>1, <2>2, LastStep
    <3>4. QED
      BY <1>1, <2>2, <3>2, <3>3
  <2>3. QED
    BY <2>1, <2>2
<1>5. ASSUME NEW t \in Streams, t # s
      PROVE  /\ taken'[t] <= Len(sent'[t])
             /\ t \in targets' =>
                 \A j \in 1 .. taken'[t] : LastAt(sent'[t], taken'[t], j) => Remembers(t, j)'
             /\ stat'[t] # None =>
                 /\ t \in targets'
                 /\ \E j \in 1 .. taken'[t] :
                       LastAt(sent'[t], taken'[t], j) /\ sent'[t][j].kind = "stat"
  BY <1>1, <1>2, <1>5 DEF ReaderInv, Remembers
<1>6. /\ taken'[s] <= Len(sent'[s])
      /\ s \in targets' =>
          \A j \in 1 .. taken'[s] : LastAt(sent'[s], taken'[s], j) => Remembers(s, j)'
  BY <1>1, <1>3
<1>7. stat'[s] # None =>
        /\ s \in targets'
        /\ \E j \in 1 .. taken'[s] :
              LastAt(sent'[s], taken'[s], j) /\ sent'[s][j].kind = "stat"
  BY <1>1, <1>4
<1>8. QED
  BY <1>5, <1>6, <1>7 DEF ReaderInv

(* A packet sent changes nothing of those before it.                       *)
LEMMA SendKeeps ==
    ASSUME TypeOK, NEW s \in Streams, NEW p \in Packets, Sends(s, p), NEW t \in Streams
    PROVE  /\ Len(sent[t]) <= Len(sent'[t])
           /\ \A i \in 1 .. Len(sent[t]) : sent'[t][i] = sent[t][i]
           /\ \A i \in 0 .. Len(sent[t]) : \A j \in Nat :
                LastAt(sent'[t], i, j) <=> LastAt(sent[t], i, j)
<1>1. /\ sent[t] \in Seq(Packets) /\ Len(sent[t]) \in Nat
      /\ sent' = [sent EXCEPT ![s] = Append(@, p)]
  BY DEF TypeOK, PeerTypeOK, Sends
<1>2. CASE t = s
  <2>1. sent'[t] = Append(sent[t], p)
    BY <1>1, <1>2 DEF TypeOK, PeerTypeOK
  <2>2. \A i \in 0 .. Len(sent[t]) : \A j \in Nat :
          LastAt(Append(sent[t], p), i, j) <=> LastAt(sent[t], i, j)
    BY <1>1, LastAppend
  <2>3. /\ Len(sent[t]) <= Len(Append(sent[t], p))
        /\ \A i \in 1 .. Len(sent[t]) : Append(sent[t], p)[i] = sent[t][i]
    BY <1>1
  <2>4. QED
    BY <2>1, <2>2, <2>3
<1>3. CASE t # s
  BY <1>1, <1>3 DEF TypeOK, PeerTypeOK
<1>4. QED
  BY <1>2, <1>3

LEMMA SendReader ==
    ASSUME TypeOK, ReaderInv, NEW s \in Streams, NEW p \in Packets, Sends(s, p)
    PROVE  ReaderInv'
<1>1. UNCHANGED <<targets, stat, taken>>
  BY DEF Sends, proxyVars, downVars
<1>2. ASSUME NEW t \in Streams
      PROVE  /\ taken[t] \in 0 .. Len(sent[t]) /\ Len(sent[t]) \in Nat /\ Len(sent'[t]) \in Nat
             /\ Len(sent[t]) <= Len(sent'[t])
             /\ \A j \in 1 .. taken[t] :
                  /\ LastAt(sent'[t], taken[t], j) <=> LastAt(sent[t], taken[t], j)
                  /\ sent'[t][j] = sent[t][j]
  <2>1. taken[t] \in 0 .. Len(sent[t]) /\ Len(sent[t]) \in Nat
    BY DEF TypeOK, ProxyTypeOK, PeerTypeOK, ReaderInv
  <2>2. Len(sent'[t]) \in Nat
    <3>1. sent' \in [Streams -> Seq(Packets)]
      BY AppendTyped DEF Sends, TypeOK, PeerTypeOK
    <3>2. QED
      BY <3>1
  <2>3. QED
    BY <2>1, <2>2, SendKeeps
<1>3. ASSUME NEW t \in Streams
      PROVE  /\ taken'[t] <= Len(sent'[t])
             /\ t \in targets' =>
                 \A j \in 1 .. taken'[t] : LastAt(sent'[t], taken'[t], j) => Remembers(t, j)'
  <2>1. taken'[t] <= Len(sent'[t])
    BY <1>1, <1>2
  <2>2. ASSUME t \in targets, NEW j \in 1 .. taken[t], LastAt(sent'[t], taken[t], j)
        PROVE  Remembers(t, j)'
    <3>1. LastAt(sent[t], taken[t], j) /\ sent'[t][j] = sent[t][j]
      BY <1>2, <2>2
    <3>2. Remembers(t, j)
      BY <2>2, <3>1 DEF ReaderInv
    <3>3. QED
      BY <1>1, <3>1, <3>2 DEF Remembers
  <2>3. QED
    BY <1>1, <2>1, <2>2
<1>4. ASSUME NEW t \in Streams, stat'[t] # None
      PROVE  /\ t \in targets'
             /\ \E j \in 1 .. taken'[t] :
                   LastAt(sent'[t], taken'[t], j) /\ sent'[t][j].kind = "stat"
  <2>1. t \in targets
    BY <1>1, <1>4 DEF ReaderInv
  <2>2. PICK j \in 1 .. taken[t] : LastAt(sent[t], taken[t], j) /\ sent[t][j].kind = "stat"
    BY <1>1, <1>4 DEF ReaderInv
  <2>3. LastAt(sent'[t], taken[t], j) /\ sent'[t][j] = sent[t][j]
    BY <1>2, <2>2
  <2>4. QED
    BY <1>1, <2>1, <2>2, <2>3
<1>5. QED
  BY <1>3, <1>4 DEF ReaderInv

(* The judgement of a packet rests on those before it.                     *)
LEMMA JudgedKept ==
    ASSUME TypeOK, NEW s \in Streams, NEW p \in Packets, Sends(s, p),
           NEW t \in Streams, NEW i \in 1 .. Len(sent[t])
    PROVE  Judged(t, i)' = Judged(t, i)
<1>1. Len(sent[t]) \in Nat /\ i - 1 \in 0 .. Len(sent[t])
  BY DEF TypeOK, PeerTypeOK
<1>2. \A j \in 1 .. (i - 1) :
        /\ LastAt(sent'[t], i - 1, j) <=> LastAt(sent[t], i - 1, j)
        /\ sent'[t][j] = sent[t][j]
  BY <1>1, SendKeeps
<1>3. sent'[t][i] = sent[t][i] /\ snap' = snap
  BY SendKeeps DEF Sends, proxyVars
<1>4. AfterItsStat(t, i)' <=> AfterItsStat(t, i)
  BY <1>2, <1>3 DEF AfterItsStat
<1>5. QED
  BY <1>3, <1>4 DEF Judged

LEMMA SendPipe ==
    ASSUME TypeOK, ReaderInv, PipeInv, NEW s \in Streams, NEW p \in Packets, Sends(s, p)
    PROVE  PipeInv'
<1>1. UNCHANGED <<taken, received, lost>>
  BY DEF Sends, downVars
<1>2. ASSUME NEW t \in Streams, NEW i \in 1 .. Len(received[t])
      PROVE  received'[t][i] = Judged(t, i)'
  <2>1. i \in 1 .. Len(sent[t])
    BY DEF TypeOK, ProxyTypeOK, PeerTypeOK, ReaderInv, PipeInv
  <2>2. Judged(t, i)' = Judged(t, i)
    BY <2>1, JudgedKept
  <2>3. QED
    BY <1>1, <2>2 DEF PipeInv
<1>3. QED
  BY <1>1, <1>2 DEF PipeInv

LEMMA PassPipe ==
    ASSUME TypeOK, MarkInv, ReaderInv, PipeInv, NEW s \in Streams, Pass(s)
    PROVE  PipeInv'
<1>1. /\ taken[s] \in Nat /\ taken' = [taken EXCEPT ![s] = @ + 1]
      /\ taken'[s] = taken[s] + 1
      /\ UNCHANGED <<sent, snap, lost>>
  BY PassFacts, HandFacts
<1>2. \A t \in Streams : t # s => taken'[t] = taken[t]
  BY <1>1 DEF TypeOK, ProxyTypeOK
<1>3. received[s] \in Seq(Packets) /\ Len(received[s]) \in Nat /\ Len(received[s]) <= taken[s]
  BY DEF TypeOK, PeerTypeOK, PipeInv
<1>4. \A t, i : Judged(t, i)' = Judged(t, i)
  BY <1>1 DEF Judged, AfterItsStat
<1>5. CASE lost /\ UNCHANGED received
  BY <1>1, <1>2, <1>3, <1>4, <1>5 DEF PipeInv
<1>6. CASE ~lost /\ received' = [received EXCEPT ![s] = Append(@, Emitted(s))]
  <2>1. received'[s] = Append(received[s], Judged(s, taken[s] + 1))
    BY <1>6, PassFacts, EmittedIsJudged DEF TypeOK, PeerTypeOK
  <2>2. \A t \in Streams : t # s => received'[t] = received[t]
    BY <1>6 DEF TypeOK, PeerTypeOK
  <2>3. Len(received[s]) = taken[s]
    BY <1>6 DEF PipeInv
  <2>4. Len(received'[s]) = taken'[s]
    BY <1>1, <1>3, <2>1, <2>3
  <2>5. ASSUME NEW i \in 1 .. Len(received'[s])
        PROVE  received'[s][i] = Judged(s, i)
    <3>1. CASE i = taken[s] + 1
      BY <1>1, <1>3, <2>1, <2>3, <3>1
    <3>2. CASE i # taken[s] + 1
      <4>1. i \in 1 .. Len(received[s]) /\ received'[s][i] = received[s][i]
        BY <1>1, <1>3, <2>1, <2>3, <2>4, <3>2
      <4>2. QED
        BY <4>1 DEF PipeInv
    <3>3. QED
      BY <3>1, <3>2
  <2>6. QED
    BY <1>1, <1>2, <1>4, <2>2, <2>4, <2>5 DEF PipeInv
<1>7. QED
  BY <1>5, <1>6, PassFacts

(* A stream is unread when it is marked.                                   *)
LEMMA MarkReader ==
    ASSUME TypeOK, MarkInv, ReaderInv,
           NEW ends \in BOOLEAN, ReadContinuation(ends) \/ \E s \in Streams : ReadHeaders(s, ends)
    PROVE  ReaderInv'
<1>1. UNCHANGED <<stat, taken, sent>> /\ targets \subseteq targets'
  BY DEF ReadContinuation, ReadHeaders, Identify, downVars, clientVars
<1>2. \A s \in targets' \ targets : s \in Streams \ known
  BY ConstantAssumption
  DEF ReadContinuation, ReadHeaders, Identify, MarkInv, TypeOK, ProxyTypeOK, PeerTypeOK
<1>3. \A s \in Streams \ known : taken[s] = 0
  <2>1. ASSUME NEW s \in Streams \ known PROVE taken[s] = 0
    <3>1. Len(sent[s]) = 0 /\ taken[s] \in Nat
      BY DEF MarkInv, TypeOK, ProxyTypeOK
    <3>2. QED
      BY <3>1 DEF ReaderInv
  <2>2. QED
    BY <2>1
<1>4. QED
  BY <1>1, <1>2, <1>3 DEF ReaderInv, Remembers

LEMMA ClientSendsPacket ==
    ASSUME TypeOK, ClientSends
    PROVE  \E s \in Streams : \E p \in Packets : Sends(s, p)
<1>1. ASSUME NEW s \in Streams, SendStat(s) PROVE \E p \in Packets : Sends(s, p)
  <2>1. Walk[s] \in Seq(Files) /\ walked[s] \in Nat /\ walked[s] < Len(Walk[s])
    BY <1>1, ConstantAssumption DEF SendStat, TypeOK, PeerTypeOK
  <2>2. Walk[s][walked[s] + 1] \in Files
    BY <2>1
  <2>3. QED
    BY <1>1, <2>2, PacketIsPacket DEF SendStat
<1>2. ASSUME NEW s \in Streams, SendOther(s) PROVE \E p \in Packets : Sends(s, p)
  BY <1>2, PacketIsPacket DEF SendOther
<1>3. ASSUME NEW s \in Streams, NEW f \in Files, NEW n \in 1 .. due[s][f], SendData(s, f, n)
      PROVE  \E p \in Packets : Sends(s, p)
  BY <1>3, PacketIsPacket DEF SendData, TypeOK, PeerTypeOK
<1>4. QED
  BY <1>1, <1>2, <1>3 DEF ClientSends

LEMMA StepReader ==
    TypeOK /\ MarkInv /\ ReaderInv /\ PipeInv /\ [Next]_vars
        => ReaderInv' /\ PipeInv'
<1> SUFFICES ASSUME TypeOK, MarkInv, ReaderInv, PipeInv, [Next]_vars
             PROVE  ReaderInv' /\ PipeInv'
    OBVIOUS
<1>1. ASSUME NEW s \in Streams, Pass(s) PROVE ReaderInv' /\ PipeInv'
  BY <1>1, PassReader, PassPipe
<1>2. ASSUME NEW s \in Streams, NEW p \in Packets, Sends(s, p) PROVE ReaderInv' /\ PipeInv'
  BY <1>2, SendReader, SendPipe
<1>3. ASSUME ClientSends PROVE ReaderInv' /\ PipeInv'
  BY <1>2, <1>3, ClientSendsPacket
<1>4. ASSUME DaemonOpens PROVE ReaderInv' /\ PipeInv'
  <2>1. ReaderInv'
    BY <1>4, MarkReader DEF DaemonOpens
  <2>2. UNCHANGED <<taken, sent, snap, received, lost>>
    BY <1>4 DEF DaemonOpens, ReadContinuation, ReadHeaders, downVars, clientVars
  <2>3. QED
    BY <2>1, <2>2 DEF PipeInv, Judged, AfterItsStat
<1>5. ASSUME UNCHANGED <<targets, stat, taken, sent, snap, received>>, lost => lost'
      PROVE  ReaderInv' /\ PipeInv'
  BY <1>5 DEF ReaderInv, Remembers, PipeInv, Judged, AfterItsStat
<1>6. QED
  BY <1>1, <1>3, <1>4, <1>5
  DEF Next, Forward, UpReadFails, DownReadFails, Reload, Lose, vars, proxyVars, downVars,
      clientVars

-----------------------------------------------------------------------------
(* The theorems.                                                           *)

(* What holds in whatever order the client sends.                          *)
AnyOrder == TypeOK /\ MarkInv /\ ReaderInv /\ PipeInv

IInv == AnyOrder /\ ClientInv

LEMMA InitAny == Init => AnyOrder
  BY InitType, InitMark, InitReader DEF AnyOrder

LEMMA StepAny == AnyOrder /\ [Next]_vars => AnyOrder'
  BY StepType, StepMark, StepReader DEF AnyOrder

(* TypeOK: in particular only streams that follow a Dockerfile are marked, *)
(* and the client hears only of streams the daemon opened.                 *)
THEOREM TypeCorrect == Spec => []TypeOK
<1>1. AnyOrder => TypeOK
  BY DEF AnyOrder
<1>2. QED
  BY <1>1, InitAny, StepAny, PTL DEF Spec

(* Whatever the client interleaves, the daemon has a prefix of what it     *)
(* sent, nothing lost in between, repeated or swapped, and of that only    *)
(* Data is edited, on a stream that follows a Dockerfile, by the rules of  *)
(* the session, and exactly when the last Stat or Data before it is the    *)
(* Stat of a Dockerfile as long (rewriteDiffCopyData).                     *)
PacketsJudged ==
    \A s \in Streams :
        /\ Len(received[s]) <= Len(sent[s])
        /\ \A i \in 1 .. Len(received[s]) : received[s][i] = Judged(s, i)

THEOREM EditsByTheLastStat == Spec => []PacketsJudged
<1>1. ASSUME AnyOrder PROVE PacketsJudged
  <2>1. ASSUME NEW s \in Streams PROVE Len(received[s]) <= Len(sent[s])
    <3>1. sent[s] \in Seq(Packets) /\ received[s] \in Seq(Packets) /\ taken[s] \in Nat
      BY <1>1 DEF AnyOrder, TypeOK, ProxyTypeOK, PeerTypeOK
    <3>2. Len(received[s]) <= taken[s] /\ taken[s] <= Len(sent[s])
      BY <1>1 DEF AnyOrder, ReaderInv, PipeInv
    <3>3. Len(received[s]) \in Nat /\ Len(sent[s]) \in Nat
      BY <3>1
    <3>4. QED
      BY <3>1, <3>2, <3>3
  <2>2. QED
    BY <1>1, <2>1 DEF AnyOrder, PipeInv, PacketsJudged
<1>2. QED
  BY <1>1, InitAny, StepAny, PTL DEF Spec

LEMMA InitInv == Init => IInv
  BY InitAny, InitClient DEF IInv

LEMMA StepInv ==
    ASSUME ~Interleaves
    PROVE  IInv /\ [Next]_vars => IInv'
  BY StepAny, StepClient, ~Interleaves DEF IInv, AnyOrder

LEMMA InvReceived ==
    ASSUME IInv, NEW s \in Streams, NEW i \in 1 .. Len(received[s])
    PROVE  /\ received[s][i] = Pipe!Image(s, sent[s][i])
           /\ sent[s][i].by = None /\ sent[s][i] \in Packets
<1>1. i \in 1 .. Len(sent[s])
  BY DEF IInv, AnyOrder, TypeOK, ProxyTypeOK, PeerTypeOK, ReaderInv, PipeInv
<1>2. received[s][i] = Judged(s, i)
  BY DEF IInv, AnyOrder, PipeInv
<1>3. QED
  BY <1>1, <1>2, JudgedIsImage DEF IInv, AnyOrder, TypeOK, PeerTypeOK, ClientInv, SentInv

(* OnlyDockerfilesEdited: while the client keeps the documented order,     *)
(* what rewriteDiffCopyData edits is a whole Dockerfile, by the rules of   *)
(* the session.                                                            *)
THEOREM EditsOnlyDockerfiles ==
    ASSUME ~Interleaves
    PROVE  Spec => []OnlyDockerfilesEdited
<1>1. ASSUME IInv PROVE OnlyDockerfilesEdited
  <2>1. ASSUME NEW s \in Streams, NEW i \in DOMAIN received[s], received[s][i].by # None
        PROVE  Pipe!WholeDockerfile(received[s][i]) /\ received[s][i].by = snap
    <3>1. i \in 1 .. Len(received[s])
      BY <1>1 DEF IInv, AnyOrder, TypeOK, PeerTypeOK
    <3>2. /\ received[s][i] = Pipe!Image(s, sent[s][i])
          /\ sent[s][i].by = None /\ sent[s][i] \in Packets
      BY <1>1, <3>1, InvReceived
    <3>3. received[s][i] = [sent[s][i] EXCEPT !.by = snap] /\ Pipe!WholeDockerfile(sent[s][i])
      BY <2>1, <3>2 DEF Pipe!Image
    <3>4. QED
      BY <3>2, <3>3 DEF Packets, Pipe!WholeDockerfile
  <2>2. QED
    BY <2>1 DEF OnlyDockerfilesEdited
<1>2. QED
  BY <1>1, InitInv, StepInv, ~Interleaves, PTL DEF Spec

(* DockerfileRewritten: no Dockerfile that fits a packet slips through on  *)
(* a stream that follows one, however the streams interleave.              *)
THEOREM RewritesDockerfiles ==
    ASSUME ~Interleaves
    PROVE  Spec => []DockerfileRewritten
<1>1. ASSUME IInv PROVE DockerfileRewritten
  <2>1. ASSUME NEW s \in Follows, NEW i \in DOMAIN received[s],
               Pipe!WholeDockerfile(received[s][i]), received[s][i].file \in Changes[snap]
        PROVE  received[s][i].by # None
    <3>1. s \in Streams /\ i \in 1 .. Len(received[s])
      BY <1>1, ConstantAssumption DEF IInv, AnyOrder, TypeOK, PeerTypeOK
    <3>2. received[s][i] = Pipe!Image(s, sent[s][i]) /\ sent[s][i] \in Packets
      BY <1>1, <3>1, InvReceived
    <3>3. snap # None
      BY <1>1, ConstantAssumption DEF IInv, AnyOrder, TypeOK, ProxyTypeOK
    <3>4. Pipe!WholeDockerfile(sent[s][i]) /\ sent[s][i].file \in Changes[snap]
      BY <2>1, <3>2 DEF Pipe!Image, Pipe!WholeDockerfile, Packets
    <3>5. QED
      BY <3>2, <3>3, <3>4 DEF Pipe!Image, Packets
  <2>2. QED
    BY <2>1 DEF DockerfileRewritten
<1>2. QED
  BY <1>1, InitInv, StepInv, ~Interleaves, PTL DEF Spec

LEMMA InitPipe == Init => Pipe!Init
  BY DEF Init, Pipe!Init

LEMMA SendIsSend ==
    ASSUME TypeOK, NEW s \in Streams, NEW p \in Packets, Sends(s, p)
    PROVE  Pipe!Send(s)
<1>1. /\ sent[s] \in Seq(Packets) /\ sent'[s] = Append(sent[s], p) /\ DOMAIN sent = Streams
      /\ sent' = [sent EXCEPT ![s] = Append(@, p)] /\ UNCHANGED <<snap, received>>
  BY DEF TypeOK, PeerTypeOK, Sends, proxyVars
<1>2. Len(sent'[s]) = Len(sent[s]) + 1 /\ sent'[s][Len(sent[s]) + 1] = p
  BY <1>1
<1>3. QED
  BY <1>1, <1>2 DEF Pipe!Send

LEMMA PassIsDeliver ==
    ASSUME IInv, NEW s \in Streams, Pass(s)
    PROVE  Pipe!Deliver(s) \/ UNCHANGED Pipe!vars
<1>1. TypeOK /\ MarkInv /\ ClientInv /\ ReaderInv /\ PipeInv
  BY DEF IInv, AnyOrder
<1>2. /\ taken[s] \in Nat /\ taken[s] + 1 \in 1 .. Len(sent[s])
      /\ InHand(s) = sent[s][taken[s] + 1]
      /\ UNCHANGED <<sent, snap>>
  BY <1>1, PassFacts, HandFacts
<1>3. CASE ~lost /\ received' = [received EXCEPT ![s] = Append(@, Emitted(s))]
  <2>1. Len(received[s]) = taken[s]
    BY <1>1, <1>3 DEF PipeInv
  <2>2. Len(received[s]) < Len(sent[s])
    BY <1>2, <2>1
  <2>3. Emitted(s) = Pipe!Image(s, sent[s][taken[s] + 1])
    BY <1>1, <1>2, PassFacts, EmittedIsJudged, JudgedIsImage
  <2>4. QED
    BY <1>2, <1>3, <2>1, <2>2, <2>3 DEF Pipe!Deliver
<1>4. CASE lost /\ UNCHANGED received
  BY <1>2, <1>4 DEF Pipe!vars
<1>5. QED
  BY <1>1, <1>3, <1>4, PassFacts

LEMMA StepPipe ==
    ASSUME IInv, [Next]_vars
    PROVE  [Pipe!Next]_Pipe!vars
<1>1. TypeOK /\ DOMAIN sent = Streams
  BY DEF IInv, AnyOrder, TypeOK, PeerTypeOK
<1>2. ASSUME ClientSends PROVE Pipe!Next
  BY <1>1, <1>2, ClientSendsPacket, SendIsSend DEF Pipe!Next
<1>3. ASSUME NEW s \in Streams, Pass(s) PROVE Pipe!Next \/ UNCHANGED Pipe!vars
  BY <1>1, <1>3, PassIsDeliver DEF Pipe!Next
<1>4. ASSUME UNCHANGED <<snap, sent, received>> PROVE UNCHANGED Pipe!vars
  BY <1>4 DEF Pipe!vars
<1>5. QED
  BY <1>2, <1>3, <1>4
  DEF Next, DaemonOpens, ReadHeaders, ReadContinuation, Forward, UpReadFails, DownReadFails,
      Reload, Lose, vars, proxyVars, clientVars

(* ImplementsEditingPipe: in the documented order the session is a pipe    *)
(* that edits whole Dockerfiles and nothing else, in order and once each,  *)
(* whatever is opened, reloaded or lost in between.                        *)
THEOREM DiffCopyImplementsPipe ==
    ASSUME ~Interleaves
    PROVE  Spec => ImplementsEditingPipe
<1>1. IInv /\ [Next]_vars => [Pipe!Next]_Pipe!vars
  BY StepPipe
<1>2. QED
  BY <1>1, InitInv, StepInv, InitPipe, ~Interleaves, PTL
  DEF Spec, ImplementsEditingPipe, Pipe!Spec
=============================================================================
