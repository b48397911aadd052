-------------------------- MODULE GrpcFilter_proofs --------------------------
(***************************************************************************)
(* Proofs about GrpcFilter, for any payloads, limits and edits.            *)
(*                                                                         *)
(* OrderInv: outside the tar mode what came out are the images of what     *)
(* came in; it says of every message what PassedInOrder says, by the       *)
(* operator the code's step uses.  HeldInv: nothing is held outside the    *)
(* tar mode, nor once the reader is done, and nothing is left unread,      *)
(* unless a message was over the limit, which is then the last one taken.  *)
(* FramesInv: every message is whole until the body breaks.        *)
(* TarInv: what came out and what is held are, joined, the tar that came   *)
(* in; PlainChunks, by induction, that the pieces of a tar are the tar.    *)
(* EndInv: the reader knows that it is done once the body is over.         *)
(***************************************************************************)
EXTENDS GrpcFilter, FiniteSetTheorems, FunctionTheorems, WellFoundedInduction, TLAPS

-----------------------------------------------------------------------------
(* Sequences.                                                               *)

LEMMA AppendIn ==
    ASSUME NEW S, NEW q \in Seq(S), NEW e \in S
    PROVE  /\ Append(q, e) \in Seq(S)
           /\ Len(Append(q, e)) = Len(q) + 1
           /\ \A i \in 1 .. Len(q) : Append(q, e)[i] = q[i]
           /\ Append(q, e)[Len(q) + 1] = e
  OBVIOUS

LEMMA ConcatIn ==
    ASSUME NEW S, NEW q \in Seq(S), NEW r \in Seq(S)
    PROVE  /\ q \o r \in Seq(S)
           /\ Len(q \o r) = Len(q) + Len(r)
           /\ \A i \in 1 .. Len(q) : (q \o r)[i] = q[i]
           /\ \A i \in (Len(q) + 1) .. (Len(q) + Len(r)) : (q \o r)[i] = r[i - Len(q)]
  OBVIOUS

LEMMA ConcatEmpty ==
    ASSUME NEW S, NEW q \in Seq(S)
    PROVE  q \o <<>> = q /\ <<>> \o q = q
  OBVIOUS

LEMMA OneIn ==
    ASSUME NEW S, NEW e \in S
    PROVE  <<e>> \in Seq(S) /\ Len(<<e>>) = 1 /\ <<e>>[1] = e
  OBVIOUS

LEMMA HandOver ==
    ASSUME NEW S, NEW q \in Seq(S), NEW r \in Seq(S), r # <<>>
    PROVE  /\ Append(q, Head(r)) \in Seq(S) /\ Tail(r) \in Seq(S)
           /\ Append(q, Head(r)) \o Tail(r) = q \o r
<1>1. Head(r) \in S /\ Tail(r) \in Seq(S) /\ Len(r) \in Nat \ {0} /\ Len(Tail(r)) = Len(r) - 1
  OBVIOUS
<1>2. Append(q, Head(r)) \in Seq(S) /\ Len(Append(q, Head(r))) = Len(q) + 1
  BY <1>1, AppendIn
<1> DEFINE a == Append(q, Head(r)) \o Tail(r)
           b == q \o r
<1>3. a \in Seq(S) /\ b \in Seq(S) /\ Len(a) = Len(q) + Len(r) /\ Len(b) = Len(q) + Len(r)
  BY <1>1, <1>2, ConcatIn
<1>4. ASSUME NEW i \in 1 .. Len(a) PROVE a[i] = b[i]
  BY <1>1, <1>2, <1>3
<1>5. a = b
  BY <1>3, <1>4
<1>6. QED
  BY <1>1, <1>2, <1>5

-----------------------------------------------------------------------------
(* Messages and what becomes of them.                                       *)

(* Lengths are numbers, and add up.                                         *)
LongFields(p) == {i \in DOMAIN p : p[i].val \in Long}

LEMMA LengthIs ==
    ASSUME NEW p \in Seq(Field)
    PROVE  /\ Len(p) \in Nat /\ LongFields(p) \subseteq 1 .. Len(p)
           /\ IsFiniteSet(LongFields(p)) /\ Cardinality(LongFields(p)) \in Nat
           /\ Length(p) = Len(p) + Cardinality(LongFields(p)) /\ Length(p) \in Nat
<1>1. Len(p) \in Nat /\ DOMAIN p = 1 .. Len(p)
  OBVIOUS
<1>2. LongFields(p) \subseteq 1 .. Len(p) /\ IsFiniteSet(1 .. Len(p))
  BY <1>1, FS_Interval DEF LongFields
<1>3. IsFiniteSet(LongFields(p))
  BY <1>2, FS_Subset
<1>4. Cardinality(LongFields(p)) \in Nat
  BY <1>3, FS_CardinalityType
<1>5. Length(p) = Len(p) + Cardinality(LongFields(p))
  BY DEF Length, LongFields
<1>6. QED
  BY <1>1, <1>2, <1>3, <1>4, <1>5

LEMMA LengthAdds ==
    ASSUME NEW p \in Seq(Field), NEW q \in Seq(Field)
    PROVE  p \o q \in Seq(Field) /\ Length(p \o q) = Length(p) + Length(q)
<1> DEFINE c == p \o q
           A == LongFields(p)
           B == LongFields(q)
           L == Len(p)
           f == [j \in B |-> L + j]
           D == {f[j] : j \in B}
<1>1. /\ c \in Seq(Field) /\ Len(c) = L + Len(q)
      /\ \A i \in 1 .. L : c[i] = p[i]
      /\ \A i \in (L + 1) .. (L + Len(q)) : c[i] = q[i - L]
  BY ConcatIn
<1> HIDE DEF c
<1>2. /\ L \in Nat /\ A \subseteq 1 .. L /\ IsFiniteSet(A) /\ Cardinality(A) \in Nat
      /\ Length(p) = L + Cardinality(A)
  BY LengthIs
<1>3. /\ Len(q) \in Nat /\ B \subseteq 1 .. Len(q) /\ IsFiniteSet(B) /\ Cardinality(B) \in Nat
      /\ Length(q) = Len(q) + Cardinality(B)
  BY LengthIs
<1>4. Length(c) = Len(c) + Cardinality(LongFields(c)) /\ DOMAIN c = 1 .. Len(c)
  <2>1. c \in Seq(Field)
    BY <1>1
  <2>2. DOMAIN c = 1 .. Len(c)
    BY <2>1
  <2>3. QED
    BY <2>1, <2>2, LengthIs
<1>5. DOMAIN p = 1 .. L /\ DOMAIN q = 1 .. Len(q)
  OBVIOUS
<1> HIDE DEF L
<1>6. LongFields(c) = A \cup D
  <2>1. ASSUME NEW i \in LongFields(c) PROVE i \in A \cup D
    <3>1. i \in 1 .. L + Len(q) /\ c[i].val \in Long
      BY <1>1, <1>4 DEF LongFields
    <3>2. CASE i <= L
      BY <1>1, <1>2, <1>3, <1>5, <3>1, <3>2 DEF LongFields
    <3>3. CASE i > L
      <4>1. i - L \in 1 .. Len(q) /\ c[i] = q[i - L] /\ L + (i - L) = i
        BY <1>1, <1>2, <1>3, <3>1, <3>3
      <4>2. i - L \in B
        BY <1>5, <3>1, <4>1 DEF LongFields
      <4>3. QED
        BY <4>1, <4>2
    <3>4. QED
      BY <1>2, <1>3, <3>1, <3>2, <3>3
  <2>2. ASSUME NEW i \in A PROVE i \in LongFields(c)
    BY <1>1, <1>2, <1>3, <1>4, <1>5 DEF LongFields
  <2>3. ASSUME NEW j \in B PROVE L + j \in LongFields(c)
    <3>1. j \in 1 .. Len(q) /\ q[j].val \in Long
      BY <1>3 DEF LongFields
    <3>2. L + j \in (L + 1) .. (L + Len(q)) /\ (L + j) - L = j
      BY <1>2, <1>3, <3>1
    <3>3. c[L + j] = q[j] /\ L + j \in DOMAIN c
      BY <1>1, <1>2, <1>3, <1>4, <3>2
    <3>4. QED
      BY <3>1, <3>3 DEF LongFields
  <2> HIDE DEF A, B
  <2>4. QED
    BY <2>1, <2>2, <2>3
<1> HIDE DEF A, B
<1>7. IsFiniteSet(D) /\ Cardinality(D) = Cardinality(B)
  <2>1. f \in Bijection(B, D)
    <3>1. \A a, b \in B : f[a] = f[b] => a = b
      BY <1>2, <1>3
    <3>2. f \in [B -> D]
      OBVIOUS
    <3>3. \A d \in D : \E b \in B : f[b] = d
      OBVIOUS
    <3> HIDE DEF f, D
    <3>4. QED
      BY <3>1, <3>2, <3>3, Fun_IsBij
  <2> HIDE DEF f, D
  <2>2. QED
    BY <1>3, <2>1, FS_Bijection DEF ExistsBijection
<1>8. A \cap D = {}
  BY <1>2, <1>3
<1> HIDE DEF f, D
<1>9. Cardinality(A \cup D) = Cardinality(A) + Cardinality(D)
  <2>1. Cardinality(A \cup D) = Cardinality(A) + Cardinality(D) - Cardinality(A \cap D)
    BY <1>2, <1>7, FS_Union
  <2>2. Cardinality(A \cap D) = 0
    BY <1>8, FS_EmptySet
  <2>3. QED
    BY <1>2, <1>3, <1>7, <2>1, <2>2
<1>10. Length(c) = Length(p) + Length(q)
  BY <1>1, <1>2, <1>3, <1>4, <1>6, <1>7, <1>9
<1>11. QED
  BY <1>1, <1>10 DEF c

LEMMA EmptyLength == Length(<<>>) = 0
<1>1. {i \in DOMAIN <<>> : <<>>[i].val \in Long} = {} /\ Len(<<>>) = 0
  OBVIOUS
<1>2. QED
  BY <1>1, FS_EmptySet DEF Length

LEMMA FramedTyped ==
    ASSUME NEW c \in {0, 1}, NEW p \in Seq(Field)
    PROVE  /\ Framed(c, p) \in Message
           /\ Framed(c, p).compressed = c /\ Framed(c, p).data = p
           /\ Framed(c, p).len = Length(Framed(c, p).data)
  BY LengthIs DEF Framed, Message

LEMMA EditedField ==
    ASSUME NEW f \in Field, NEW c \in Contents
    PROVE  [f EXCEPT !.val = c] \in Field
  BY DEF Field, Values

LEMMA RecordsTyped ==
    ASSUME NEW p \in Seq(Field)
    PROVE  /\ RewriteRecords(p) \in Seq(Field)
           /\ Len(RewriteRecords(p)) = Len(p)
           /\ SameButDockerfile(p, RewriteRecords(p))
<1> DEFINE q == RewriteRecords(p)
<1>1. DOMAIN p = 1 .. Len(p) /\ DOMAIN q = 1 .. Len(p) /\ Len(p) \in Nat
  BY DEF RewriteRecords
<1>2. ASSUME NEW i \in 1 .. Len(p)
      PROVE  /\ q[i] \in Field
             /\ \/ q[i] = p[i]
                \/ /\ i > 1 /\ p[i - 1].val \in RecordNames /\ p[i].val \in Contents
                   /\ q[i] = [p[i] EXCEPT !.val = Edit[@]]
  <2>1. p[i] \in Field
    OBVIOUS
  <2>2. CASE IsContent(p, i) /\ Parsed(p, i)
    <3>1. i > 1 /\ p[i - 1].val \in RecordNames /\ p[i].val \in Contents
      BY <1>1, <2>2 DEF IsContent
    <3>2. q[i] = [p[i] EXCEPT !.val = Edit[p[i].val]]
      BY <1>1, <2>2 DEF RewriteRecords
    <3>3. Edit[p[i].val] \in Contents
      BY <3>1, ConstantAssumption
    <3>4. q[i] \in Field
      BY <2>1, <3>2, <3>3, EditedField
    <3>5. QED
      BY <3>1, <3>2, <3>4
  <2>3. CASE ~(IsContent(p, i) /\ Parsed(p, i))
    BY <1>1, <2>1, <2>3 DEF RewriteRecords
  <2>4. QED
    BY <2>2, <2>3
<1>3. q \in Seq(Field) /\ Len(q) = Len(p)
  <2> HIDE DEF q
  <2>1. q \in [1 .. Len(p) -> Field]
    <3>1. q = [i \in DOMAIN q |-> q[i]]
      BY DEF q, RewriteRecords
    <3>2. QED
      BY <1>1, <1>2, <3>1
  <2>2. QED
    BY <1>1, <2>1
<1>4. SameButDockerfile(p, q)
  BY <1>1, <1>2, <1>3 DEF SameButDockerfile
<1>5. QED
  BY <1>3, <1>4

LEMMA MessageTyped ==
    ASSUME NEW m \in Message
    PROVE  /\ RewriteMessage(m) \in Message
           /\ m.len = Length(m.data) =>
                RewriteMessage(m).len = Length(RewriteMessage(m).data)
<1>1. CASE m.compressed = 1 \/ method = "sync"
  BY <1>1 DEF RewriteMessage
<1>2. CASE ~(m.compressed = 1 \/ method = "sync")
  <2>1. m.data \in Seq(Field)
    BY DEF Message
  <2>2. RewriteMessage(m) = Framed(m.compressed, RewriteRecords(m.data))
    BY <1>2 DEF RewriteMessage
  <2>3. RewriteRecords(m.data) \in Seq(Field) /\ m.compressed \in {0, 1}
    BY <2>1, RecordsTyped DEF Message
  <2>4. QED
    BY <2>2, <2>3, FramedTyped
<1>3. QED
  BY <1>1, <1>2

(* A rewritten tar is one of the same length.                               *)
LEMMA TarTyped ==
    ASSUME NEW t \in Seq(Field)
    PROVE  RewriteTar(t) \in Seq(Field)
<1> DEFINE d == CHOOSE i \in DOMAIN t : IsDockerfileEntry(t, i)
           new == Edit[t[d + 1].val]
           r == [i \in DOMAIN t |-> IF i % 2 = 0 /\ t[i - 1].val = t[d].val
                                    THEN [t[i] EXCEPT !.val = new] ELSE t[i]]
<1>1. CASE IsTar(t) /\ \E i \in DOMAIN t : IsDockerfileEntry(t, i)
  <2>1. d \in DOMAIN t /\ IsDockerfileEntry(t, d)
    BY <1>1
  <2>2. d \in 1 .. Len(t) /\ Len(t) \in Nat /\ d % 2 = 1 /\ Len(t) % 2 = 0
    BY <1>1, <2>1 DEF IsDockerfileEntry, IsTar
  <2>3. d + 1 \in 1 .. Len(t) /\ (d + 1) % 2 # 1
    <3> HIDE DEF d
    <3>1. QED
      BY <2>2, SMTT(30)
  <2>4. t[d + 1].val \in Contents
    <3>1. \A i \in 1 .. Len(t) : t[i].val \in IF i % 2 = 1 THEN Names ELSE Contents
      BY <1>1 DEF IsTar
    <3> HIDE DEF d
    <3>2. QED
      BY <2>3, <3>1
  <2>5. new \in Contents
    BY <2>4, ConstantAssumption
  <2>6. ASSUME NEW i \in DOMAIN t PROVE r[i] \in Field
    <3>1. t[i] \in Field
      OBVIOUS
    <3>2. [t[i] EXCEPT !.val = new] \in Field
      BY <2>5, <3>1, EditedField
    <3>3. QED
      BY <3>1, <3>2
  <2>7. r \in Seq(Field)
    <3>1. r \in [1 .. Len(t) -> Field]
      <4> HIDE DEF d, new
      <4>1. QED
        BY <2>6
    <3> HIDE DEF r
    <3>2. QED
      BY <2>2, <3>1
  <2>8. RewriteTar(t) = IF new = t[d + 1].val THEN t ELSE r
    BY <1>1 DEF RewriteTar, RebuildTar
  <2>9. QED
    BY <2>7, <2>8
<1>2. CASE ~(IsTar(t) /\ \E i \in DOMAIN t : IsDockerfileEntry(t, i))
  BY <1>2 DEF RewriteTar
<1>3. QED
  BY <1>1, <1>2
LEMMA PiecesTyped ==
    ASSUME NEW t \in Seq(Field)
    PROVE  /\ ChunkAsBytesMessages(t) \in Seq(Message)
           /\ \A i \in 1 .. Len(ChunkAsBytesMessages(t)) :
                ChunkAsBytesMessages(t)[i].len = Length(ChunkAsBytesMessages(t)[i].data)
<1> DEFINE n == (Len(t) + Chunk - 1) \div Chunk
           c == ChunkAsBytesMessages(t)
<1>1. Len(t) \in Nat /\ Chunk \in Nat \ {0}
  BY ConstantAssumption
<1>2. n \in Nat
  BY <1>1, SMTT(30)
<1>3. ASSUME NEW i \in 1 .. n PROVE Piece(t, i) \in Seq(Field)
  <2>1. i * Chunk \in Nat /\ (i - 1) * Chunk \in Nat
    BY <1>1, <1>2
  <2> DEFINE a == (i - 1) * Chunk + 1
             b == IF i * Chunk < Len(t) THEN i * Chunk ELSE Len(t)
  <2>2. a \in Nat /\ a >= 1 /\ b \in Nat /\ b <= Len(t)
    BY <1>1, <2>1
  <2>3. Piece(t, i) = SubSeq(t, a, b)
    BY DEF Piece
  <2> HIDE DEF a, b
  <2>4. SubSeq(t, a, b) \in Seq(Field)
    BY <2>2
  <2>5. QED
    BY <2>3, <2>4
<1>4. c = [i \in 1 .. n |-> Framed(0, Piece(t, i))]
  BY DEF ChunkAsBytesMessages
<1>5. ASSUME NEW i \in 1 .. n
      PROVE  c[i] \in Message /\ c[i].len = Length(c[i].data)
  <2>1. Piece(t, i) \in Seq(Field)
    BY <1>3
  <2>2. c[i] = Framed(0, Piece(t, i))
    BY <1>4
  <2>3. QED
    BY <2>1, <2>2, FramedTyped
<1>6. c \in Seq(Message) /\ Len(c) = n
  <2>1. c \in [1 .. n -> Message]
    <3> HIDE DEF n
    <3>1. DOMAIN c = 1 .. n /\ c = [i \in DOMAIN c |-> c[i]]
      BY <1>4
    <3> HIDE DEF c
    <3>2. QED
      BY <1>5, <3>1
  <2> HIDE DEF c, n
  <2>2. QED
    BY <1>2, <2>1
<1> HIDE DEF n, c
<1>7. \A i \in 1 .. Len(c) : c[i].len = Length(c[i].data)
  BY <1>5, <1>6
<1>8. QED
  BY <1>6, <1>7 DEF c

(* What finishTar emits.                                                    *)
LEMMA TailTyped ==
    ASSUME tarBuf \in Seq(Field)
    PROVE  /\ TarTail \in Seq(Message)
           /\ \A i \in 1 .. Len(TarTail) : TarTail[i].len = Length(TarTail[i].data)
<1>1. RewriteTar(tarBuf) \in Seq(Field)
  BY TarTyped
<1>2. CASE method = "send" /\ ~tarFail
  BY <1>1, <1>2, PiecesTyped DEF TarTail
<1>3. CASE ~(method = "send" /\ ~tarFail)
  BY <1>3 DEF TarTail
<1>4. QED
  BY <1>2, <1>3

-----------------------------------------------------------------------------
(* Types.                                                                   *)

LEMMA SendsTyped ==
    ASSUME TypeOK, NEW c \in {0, 1}, NEW p \in Payloads[method], NEW n \in Nat
    PROVE  /\ [compressed |-> c, len |-> Length(p) + n, data |-> p] \in Message
           /\ Framed(c, p) \in Message
<1>1. p \in Seq(Field)
  BY ConstantAssumption DEF TypeOK, DataTypeOK
<1>2. Length(p) + n \in Nat
  BY <1>1, LengthIs
<1>3. QED
  BY <1>1, <1>2, FramedTyped DEF Message

(* What every step is, with the message it takes.                           *)
Steps(m) ==
    \/ NextMessage(m)
    \/ \E how \in {"open", "cut", "reset"} : NextOversize(m, how)
    \/ \E how \in {"clean", "header"} : EndOfBody(how)
    \/ ClientGoesOn \/ BodyBreaks \/ ReturnData \/ ReturnEOF
    \/ Answer \/ Refuse \/ Finish

LEMMA NextSteps ==
    ASSUME TypeOK, Next
    PROVE  \E m \in Message : Steps(m)
<1>1. ASSUME NEW c \in {0, 1}, NEW p \in Payloads[method],
             NextMessage(Framed(c, p))
      PROVE  \E m \in Message : Steps(m)
  BY <1>1, SendsTyped DEF Steps
<1>2. ASSUME NEW c \in {0, 1}, NEW p \in Payloads[method], NEW n \in 0 .. MaxGRPCBuffer + 1,
             NEW how \in {"open", "cut", "reset"},
             NextOversize([compressed |-> c, len |-> Length(p) + n, data |-> p], how)
      PROVE  \E m \in Message : Steps(m)
  <2>1. n \in Nat
    BY ConstantAssumption
  <2>2. [compressed |-> c, len |-> Length(p) + n, data |-> p] \in Message
    BY <2>1, SendsTyped
  <2>3. QED
    BY <1>2, <2>2 DEF Steps
<1>3. ASSUME \/ \E how \in {"clean", "header"} : EndOfBody(how)
             \/ ClientGoesOn \/ BodyBreaks \/ ReturnData \/ ReturnEOF
             \/ Answer \/ Refuse \/ Finish
      PROVE  \E m \in Message : Steps(m)
  <2>1. [compressed |-> 0, len |-> 0, data |-> <<>>] \in Message
    BY DEF Message
  <2>2. QED
    BY <1>3, <2>1 DEF Steps
<1>4. QED
  BY <1>1, <1>2, <1>3 DEF Next

LEMMA InitType == Init => TypeOK
<1> SUFFICES ASSUME Init PROVE TypeOK
  OBVIOUS
<1>1. DataTypeOK
  BY ConstantAssumption, EmptyLength DEF Init, DataTypeOK
<1>2. FlagTypeOK
  BY DEF Init, FlagTypeOK
<1>3. QED
  BY <1>1, <1>2 DEF TypeOK

LEMMA StepFlags == ASSUME FlagTypeOK, NEW m \in Message, Steps(m) PROVE FlagTypeOK'
  BY DEF FlagTypeOK, Steps, NextMessage, HandleTarMessage, NextOversize, EndOfBody, ClientGoesOn,
     BodyBreaks, ReturnData, ReturnEOF, Answer, Refuse, Finish, readerVars

(* What a whole message within the limit adds to the output and the tar.    *)
LEMMA NextMessageTyped ==
    ASSUME TypeOK, NEW m \in Message, NextMessage(m)
    PROVE  /\ out' \in Seq(Message) /\ tarBuf' \in Seq(Field)
           /\ Length(tarBuf') <= MaxGRPCBuffer
           /\ \A i \in 1 .. Len(out') : out'[i].len = Length(out'[i].data)
<1> DEFINE Goal == /\ out' \in Seq(Message) /\ tarBuf' \in Seq(Field)
                   /\ Length(tarBuf') <= MaxGRPCBuffer
                   /\ \A i \in 1 .. Len(out') : out'[i].len = Length(out'[i].data)
<1>1. /\ tarBuf \in Seq(Field) /\ Length(tarBuf) <= MaxGRPCBuffer /\ MaxGRPCBuffer \in Nat
      /\ m.len = Length(m.data) /\ m.data \in Seq(Field) /\ out = <<>>
  BY ConstantAssumption DEF TypeOK, DataTypeOK, Message, NextMessage, AwaitsClient
<1>2. <<m>> \in Seq(Message) /\ Len(<<m>>) = 1 /\ <<m>>[1] = m
  BY OneIn
<1>3. CASE method = "send" /\ HandleTarMessage(m)
  <2>1. CASE tarFail /\ out' = <<m>> /\ UNCHANGED <<tarBuf, tarFail>>
    BY <1>1, <1>2, <2>1
  <2>2. CASE out' = ChunkAsBytesMessages(tarBuf) \o <<m>> /\ tarBuf' = <<>>
    <3> DEFINE q == ChunkAsBytesMessages(tarBuf)
    <3>1. q \in Seq(Message) /\ \A i \in 1 .. Len(q) : q[i].len = Length(q[i].data)
      BY <1>1, PiecesTyped
    <3> HIDE DEF q
    <3>2. q \o <<m>> = Append(q, m)
      BY <3>1
    <3>3. /\ Append(q, m) \in Seq(Message)
          /\ \A i \in 1 .. Len(Append(q, m)) :
                Append(q, m)[i].len = Length(Append(q, m)[i].data)
      BY <1>1, <3>1, AppendIn
    <3>4. out' = Append(q, m)
      BY <2>2, <3>2 DEF q
    <3>5. tarBuf' \in Seq(Field) /\ Length(tarBuf') <= MaxGRPCBuffer
      BY <1>1, <2>2, EmptyLength
    <3>6. QED
      BY <3>3, <3>4, <3>5
  <2>3. CASE /\ Length(tarBuf) + m.len <= MaxGRPCBuffer
             /\ tarBuf' = tarBuf \o m.data /\ UNCHANGED <<out, tarFail>>
    <3>1. tarBuf' \in Seq(Field) /\ Length(tarBuf') = Length(tarBuf) + m.len
      BY <1>1, <2>3, LengthAdds
    <3>2. QED
      BY <1>1, <2>3, <3>1
  <2>4. QED
    BY <1>3, <2>1, <2>2, <2>3 DEF HandleTarMessage
<1>4. CASE out' = <<RewriteMessage(m)>> /\ UNCHANGED <<tarBuf, tarFail>>
  <2>1. RewriteMessage(m) \in Message /\ RewriteMessage(m).len = Length(RewriteMessage(m).data)
    BY <1>1, MessageTyped
  <2> HIDE DEF RewriteMessage
  <2>2. QED
    BY <1>1, <1>4, <2>1, OneIn
<1>5. QED
  BY <1>3, <1>4 DEF NextMessage

LEMMA NextOversizeTyped ==
    ASSUME TypeOK, NEW m \in Message, NEW how \in {"open", "cut", "reset"}, NextOversize(m, how)
    PROVE  out' \in Seq(Message) /\ (how # "cut" => out' = <<m>>)
<1>1. <<m>> \in Seq(Message) /\ <<>> \in Seq(Message) /\ TarTail \in Seq(Message)
  BY OneIn, TailTyped DEF TypeOK, DataTypeOK
<1>2. CASE how = "cut"
  <2>1. out' = <<m>> \o TarTail
    BY <1>2 DEF NextOversize
  <2>2. QED
    BY <1>1, <1>2, <2>1, ConcatIn
<1>3. CASE how # "cut"
  <2>1. out' = <<m>> \o <<>>
    BY <1>3 DEF NextOversize
  <2>2. out' = <<m>>
    BY <1>1, <2>1, ConcatEmpty
  <2>3. QED
    BY <1>1, <2>2
<1>4. QED
  BY <1>2, <1>3

LEMMA StepType == TypeOK /\ [Next]_vars => TypeOK'
<1> SUFFICES ASSUME TypeOK, [Next]_vars PROVE TypeOK'
  OBVIOUS
<1> USE DEF DataTypeOK
<1>1. ASSUME NEW m \in Message, NextMessage(m) PROVE DataTypeOK'
  <2>1. sent' \in Seq(Message)
    BY <1>1, AppendIn DEF NextMessage, TypeOK
  <2>2. QED
    BY <1>1, <2>1, NextMessageTyped DEF NextMessage, TypeOK
<1>2. ASSUME NEW m \in Message, NEW how \in {"open", "cut", "reset"}, NextOversize(m, how)
      PROVE  DataTypeOK'
  <2>1. sent' \in Seq(Message) /\ out' \in Seq(Message)
    BY <1>2, AppendIn, NextOversizeTyped DEF NextOversize, TypeOK
  <2>2. tarBuf' \in Seq(Field) /\ Length(tarBuf') <= MaxGRPCBuffer
    BY <1>2, ConstantAssumption, EmptyLength DEF NextOversize, TypeOK
  <2>3. QED
    BY <1>2, <2>1, <2>2 DEF NextOversize, TypeOK
<1>3. ASSUME NEW how \in {"clean", "header"}, EndOfBody(how) PROVE DataTypeOK'
  <2>1. out' \in Seq(Message)
    BY <1>3, TailTyped DEF EndOfBody, TypeOK
  <2>2. QED
    BY <1>3, <2>1, ConstantAssumption, EmptyLength DEF EndOfBody, TypeOK
<1>4. ASSUME ReturnData PROVE DataTypeOK'
  <2>1. received' \in Seq(Message) /\ out' \in Seq(Message)
    BY <1>4, HandOver DEF ReturnData, TypeOK
  <2>2. QED
    BY <1>4, <2>1 DEF ReturnData, TypeOK
<1>5. ASSUME ClientGoesOn \/ BodyBreaks \/ ReturnEOF \/ Answer \/ Refuse \/ Finish
      PROVE  DataTypeOK'
  BY <1>5 DEF ClientGoesOn, BodyBreaks, ReturnEOF, Answer, Refuse, Finish, readerVars, TypeOK
<1> HIDE DEF DataTypeOK
<1>6. ASSUME NEW m \in Message, Steps(m) PROVE DataTypeOK'
  BY <1>1, <1>2, <1>3, <1>4, <1>5, <1>6 DEF Steps
<1>7. CASE Next
  BY <1>6, <1>7, NextSteps, StepFlags DEF TypeOK
<1>8. CASE UNCHANGED vars
  BY <1>8 DEF vars, readerVars, TypeOK, DataTypeOK, FlagTypeOK
<1>9. QED
  BY <1>7, <1>8

(* Everything is of its type, and the tar held within its limit.            *)
THEOREM TypeCorrect == Spec => []TypeOK
<1>1. QED
  BY InitType, StepType, PTL DEF Spec

-----------------------------------------------------------------------------
(* The order of messages.                                                   *)

Image(m) == IF m.len > MaxGRPCBuffer THEN m ELSE RewriteMessage(m)

OrderInv ==
    method # "send" =>
        /\ Len(Output) = Len(sent)
        /\ \A i \in 1 .. Len(sent) : Output[i] = Image(sent[i])

HeldInv ==
    /\ method # "send" => tarBuf = <<>>
    /\ result = "eof" => done /\ out = <<>>
    /\ done /\ NoneOversize => tarBuf = <<>>
    /\ ~done => NoneOversize
    /\ NoneOversize => unread = 0 /\ (done => body # "open")
    /\ \A i \in 1 .. Len(sent) : sent[i].len > MaxGRPCBuffer => i = Len(sent)

FramesInv ==
    body \in {"open", "clean", "header"} =>
        \A i \in 1 .. Len(Output) : Output[i].len = Length(Output[i].data)

IInv == TypeOK /\ OrderInv /\ HeldInv /\ FramesInv

LEMMA InitInv == Init => IInv
<1> SUFFICES ASSUME Init PROVE IInv
  OBVIOUS
<1>1. /\ Output = <<>> /\ sent = <<>> /\ tarBuf = <<>> /\ ~done /\ result = "data"
      /\ unread = 0
  BY DEF Init, Output
<1>2. OrderInv /\ FramesInv /\ HeldInv
  BY <1>1 DEF OrderInv, FramesInv, HeldInv, NoneOversize
<1>3. QED
  BY <1>2, InitType DEF IInv

(* Between two messages everything that came out is with the daemon.        *)
LEMMA EmptyOutput ==
    ASSUME TypeOK, out = <<>>
    PROVE  /\ Output = received
           /\ out' \in Seq(Message) /\ received' = received => Output' = received \o out'
  BY ConcatEmpty DEF TypeOK, DataTypeOK, Output

LEMMA MoreOutput ==
    ASSUME TypeOK, OrderInv, method # "send", out = <<>>, UNCHANGED <<method, received>>,
           NEW m \in Message, sent' = Append(sent, m), out' = <<Image(m)>>
    PROVE  OrderInv'
<1>1. Image(m) \in Message
  BY MessageTyped DEF Image
<1>2. received \in Seq(Message) /\ sent \in Seq(Message)
  BY DEF TypeOK, DataTypeOK
<1>3. Output = received
  BY EmptyOutput
<1>4. Output' = Append(received, Image(m))
  <2> HIDE DEF Image
  <2>1. Output' = received \o <<Image(m)>>
    BY DEF Output
  <2>2. QED
    BY <1>1, <1>2, <2>1
<1>5. /\ Len(received) = Len(sent)
      /\ \A i \in 1 .. Len(sent) : received[i] = Image(sent[i])
  BY <1>3 DEF OrderInv
<1>6. \A x : Image(x)' = Image(x)
  BY DEF Image, RewriteMessage
<1> HIDE DEF Image
<1>7. /\ Len(Append(received, Image(m))) = Len(Append(sent, m))
      /\ \A i \in 1 .. Len(Append(sent, m)) :
            Append(received, Image(m))[i] = Image(Append(sent, m)[i])
  BY <1>1, <1>2, <1>5, AppendIn
<1>8. QED
  BY <1>4, <1>6, <1>7 DEF OrderInv

LEMMA SameOutput ==
    ASSUME TypeOK, OrderInv, Output' = Output, UNCHANGED <<method, sent>>
    PROVE  OrderInv'
<1>1. \A x : Image(x)' = Image(x)
  BY DEF Image, RewriteMessage
<1>2. QED
  BY <1>1 DEF OrderInv

LEMMA ReturnDataOutput == TypeOK /\ ReturnData => Output' = Output
  BY HandOver DEF TypeOK, DataTypeOK, ReturnData, Output

LEMMA StepOrder ==
    ASSUME TypeOK, OrderInv, NEW m \in Message, Steps(m)
    PROVE  OrderInv'
<1>1. CASE method = "send"
  <2>1. method' = method
    BY DEF Steps, NextMessage, NextOversize, EndOfBody, ClientGoesOn, BodyBreaks, ReturnData,
       ReturnEOF, Answer, Refuse, Finish
  <2>2. QED
    BY <1>1, <2>1 DEF OrderInv
<1>2. ASSUME method # "send", NextMessage(m) PROVE OrderInv'
  <2>1. /\ out' = <<RewriteMessage(m)>> /\ out = <<>> /\ sent' = Append(sent, m)
        /\ UNCHANGED <<method, received>> /\ m.len <= MaxGRPCBuffer
    BY <1>2 DEF NextMessage, AwaitsClient
  <2>2. m.len \in Nat /\ MaxGRPCBuffer \in Nat
    BY ConstantAssumption DEF Message
  <2>3. Image(m) = RewriteMessage(m)
    BY <2>1, <2>2 DEF Image
  <2>4. QED
    BY <1>2, <2>1, <2>3, MoreOutput
<1>3. ASSUME method # "send", NEW how \in {"open", "cut", "reset"}, NextOversize(m, how)
      PROVE  OrderInv'
  <2>1. out' = <<m>> \o <<>>
    BY <1>3 DEF NextOversize, TarTail
  <2>2. out' = <<Image(m)>>
    BY <1>3, <2>1, OneIn, ConcatEmpty DEF NextOversize, Image
  <2>3. QED
    BY <1>3, <2>2, MoreOutput DEF NextOversize, AwaitsClient
<1>4. ASSUME method # "send", NEW how \in {"clean", "header"}, EndOfBody(how) PROVE OrderInv'
  <2>1. out = <<>> /\ out' = <<>> /\ UNCHANGED <<method, sent, received>>
    BY <1>4 DEF EndOfBody, AwaitsClient, TarTail
  <2>2. QED
    BY <2>1, SameOutput DEF Output
<1>5. ASSUME ReturnData PROVE OrderInv'
  BY <1>5, ReturnDataOutput, SameOutput DEF ReturnData
<1>6. ASSUME ClientGoesOn \/ BodyBreaks \/ ReturnEOF \/ Answer \/ Refuse \/ Finish
      PROVE  OrderInv'
  <2>1. UNCHANGED <<out, received, method, sent>>
    BY <1>6 DEF ClientGoesOn, BodyBreaks, ReturnEOF, Answer, Refuse, Finish, readerVars
  <2>2. QED
    BY <2>1, SameOutput DEF Output
<1>7. QED
  BY <1>1, <1>2, <1>3, <1>4, <1>5, <1>6 DEF Steps

-----------------------------------------------------------------------------
(* What is held, and whether messages are whole.                            *)

(* A body that takes a message over the limit is one from then on.          *)
LEMMA OversizeStays ==
    ASSUME TypeOK, NEW m \in Message, sent' = Append(sent, m)
    PROVE  /\ NoneOversize' => NoneOversize
           /\ m.len > MaxGRPCBuffer => ~NoneOversize'
<1>1. sent \in Seq(Message) /\ m.len \in Nat /\ MaxGRPCBuffer \in Nat
  BY ConstantAssumption DEF TypeOK, DataTypeOK, Message
<1>2. DOMAIN sent = 1 .. Len(sent) /\ DOMAIN sent' = 1 .. (Len(sent) + 1)
  BY <1>1
<1>3. (\A i \in 1 .. Len(sent) : sent'[i] = sent[i]) /\ sent'[Len(sent) + 1] = m
  BY <1>1, AppendIn
<1>4. Len(sent) \in Nat
  BY <1>1
<1>5. QED
  BY <1>1, <1>2, <1>3, <1>4 DEF NoneOversize

(* The messages taken so far are within the limit, but for the last.        *)
LEMMA LastOversize ==
    ASSUME TypeOK, NoneOversize, NEW m \in Message, sent' = Append(sent, m)
    PROVE  /\ \A i \in 1 .. Len(sent') : sent'[i].len > MaxGRPCBuffer => i = Len(sent')
           /\ m.len <= MaxGRPCBuffer => NoneOversize'
<1>1. sent \in Seq(Message) /\ MaxGRPCBuffer \in Nat /\ Len(sent) \in Nat
  BY ConstantAssumption DEF TypeOK, DataTypeOK
<1>2. /\ Len(sent') = Len(sent) + 1 /\ sent'[Len(sent) + 1] = m
      /\ \A i \in 1 .. Len(sent) : sent'[i] = sent[i] /\ sent[i] \in Message
  BY <1>1, AppendIn
<1>3. \A i \in 1 .. Len(sent) : sent[i].len <= MaxGRPCBuffer /\ sent[i].len \in Nat
  BY <1>1, <1>2 DEF NoneOversize, Message
<1>4. sent' \in Seq(Message) /\ DOMAIN sent' = 1 .. Len(sent) + 1
  BY <1>1, <1>2, AppendIn
<1>5. \A i \in 1 .. Len(sent) + 1 : i # Len(sent) + 1 => i \in 1 .. Len(sent)
  BY <1>1
<1>6. \A i \in 1 .. Len(sent) : ~(sent'[i].len > MaxGRPCBuffer) /\ sent'[i].len <= MaxGRPCBuffer
  BY <1>1, <1>2, <1>3
<1>7. QED
  BY <1>2, <1>4, <1>5, <1>6 DEF NoneOversize

LEMMA StepHeld ==
    ASSUME TypeOK, HeldInv, NEW m \in Message, Steps(m)
    PROVE  HeldInv'
<1> USE DEF HeldInv
<1>1. ASSUME NextMessage(m) PROVE HeldInv'
  <2>1. sent' = Append(sent, m) /\ m.len <= MaxGRPCBuffer /\ ~done /\ ~done' /\ unread' = unread
    BY <1>1 DEF NextMessage, AwaitsClient
  <2>2. /\ NoneOversize /\ NoneOversize'
        /\ (\A i \in 1 .. Len(sent) : sent[i].len > MaxGRPCBuffer => i = Len(sent))'
    BY <2>1, LastOversize
  <2>3. QED
    BY <1>1, <2>1, <2>2 DEF NextMessage, AwaitsClient, Pulled
<1>2. ASSUME NEW how \in {"open", "cut", "reset"}, NextOversize(m, how) PROVE HeldInv'
  <2>1. ~NoneOversize'
    BY <1>2, OversizeStays DEF NextOversize
  <2>2. (\A i \in 1 .. Len(sent) : sent[i].len > MaxGRPCBuffer => i = Len(sent))'
    BY <1>2, LastOversize DEF NextOversize, AwaitsClient
  <2>3. QED
    BY <1>2, <2>1, <2>2 DEF NextOversize, AwaitsClient, Pulled
<1>3. ASSUME NEW how \in {"clean", "header"}, EndOfBody(how) PROVE HeldInv'
  BY <1>3 DEF EndOfBody, AwaitsClient, Pulled, NoneOversize
<1>4. ASSUME BodyBreaks PROVE HeldInv'
  BY <1>4 DEF BodyBreaks, AwaitsClient, Pulled, NoneOversize
<1>5. ASSUME ReturnData PROVE HeldInv'
  BY <1>5 DEF ReturnData, Pulled, NoneOversize
<1>6. ASSUME ClientGoesOn PROVE HeldInv'
  <2>1. ~NoneOversize /\ NoneOversize' = NoneOversize
    BY <1>6 DEF ClientGoesOn, NoneOversize
  <2>2. QED
    BY <1>6, <2>1 DEF ClientGoesOn, readerVars
<1>7. ASSUME ReturnEOF \/ Answer \/ Refuse \/ Finish PROVE HeldInv'
  BY <1>7 DEF ReturnEOF, Answer, Refuse, Finish, Pulled, readerVars, NoneOversize
<1>8. QED
  BY <1>1, <1>2, <1>3, <1>4, <1>5, <1>6, <1>7 DEF Steps

LEMMA WholeOutput ==
    ASSUME TypeOK, FramesInv, body = "open", out = <<>>, received' = received,
           out' \in Seq(Message),
           \A i \in 1 .. Len(out') : out'[i].len = Length(out'[i].data)
    PROVE  FramesInv'
<1>1. received \in Seq(Message) /\ Output = received
  BY EmptyOutput DEF TypeOK, DataTypeOK
<1>2. \A i \in 1 .. Len(received) : received[i].len = Length(received[i].data)
  BY <1>1 DEF FramesInv
<1> DEFINE o == out'
           q == received \o o
<1>3. o \in Seq(Message) /\ \A i \in 1 .. Len(o) : o[i].len = Length(o[i].data)
  OBVIOUS
<1>4. Output' = q
  BY DEF Output
<1> HIDE DEF o
<1>5. ASSUME NEW i \in 1 .. Len(q) PROVE q[i].len = Length(q[i].data)
  <2>1. Len(received) \in Nat /\ Len(o) \in Nat /\ Len(q) = Len(received) + Len(o)
    BY <1>1, <1>3, ConcatIn
  <2>2. CASE i <= Len(received)
    BY <1>1, <1>2, <1>3, <2>1, <2>2, ConcatIn
  <2>3. CASE i > Len(received)
    <3>1. i - Len(received) \in 1 .. Len(o) /\ q[i] = o[i - Len(received)]
      BY <1>1, <1>3, <2>1, <2>3, ConcatIn
    <3>2. QED
      BY <1>3, <3>1
  <2>4. QED
    BY <2>1, <2>2, <2>3
<1>6. QED
  BY <1>4, <1>5 DEF FramesInv

LEMMA StepFrames ==
    ASSUME TypeOK, FramesInv, NEW m \in Message, Steps(m)
    PROVE  FramesInv'
<1>1. ASSUME NextMessage(m) PROVE FramesInv'
  BY <1>1, NextMessageTyped, WholeOutput DEF NextMessage, AwaitsClient
<1>2. ASSUME NEW how \in {"open", "cut", "reset"}, NextOversize(m, how) PROVE FramesInv'
  <2>1. CASE how = "open"
    <3>1. m.len = Length(m.data) /\ out' = <<m>>
      BY <1>2, <2>1, NextOversizeTyped DEF NextOversize
    <3>2. out' \in Seq(Message) /\ \A i \in 1 .. Len(out') : out'[i].len = Length(out'[i].data)
      BY <3>1, OneIn
    <3>3. QED
      BY <1>2, <3>2, WholeOutput DEF NextOversize, AwaitsClient
  <2>2. CASE how # "open"
    BY <1>2, <2>2 DEF NextOversize, FramesInv
  <2>3. QED
    BY <2>1, <2>2
<1>3. ASSUME NEW how \in {"clean", "header"}, EndOfBody(how) PROVE FramesInv'
  BY <1>3, TailTyped, WholeOutput DEF EndOfBody, AwaitsClient, TypeOK, DataTypeOK
<1>4. ASSUME BodyBreaks PROVE FramesInv'
  BY <1>4 DEF BodyBreaks, FramesInv
<1>5. ASSUME ReturnData PROVE FramesInv'
  BY <1>5, ReturnDataOutput DEF ReturnData, FramesInv
<1>6. ASSUME ClientGoesOn \/ ReturnEOF \/ Answer \/ Refuse \/ Finish PROVE FramesInv'
  BY <1>6 DEF ClientGoesOn, ReturnEOF, Answer, Refuse, Finish, readerVars, FramesInv, Output
<1>7. QED
  BY <1>1, <1>2, <1>3, <1>4, <1>5, <1>6 DEF Steps

-----------------------------------------------------------------------------

LEMMA StepInv == IInv /\ [Next]_vars => IInv'
<1> SUFFICES ASSUME IInv, [Next]_vars PROVE IInv'
  OBVIOUS
<1>1. TypeOK'
  BY StepType DEF IInv
<1>2. CASE Next
  <2>1. PICK m \in Message : Steps(m)
    BY <1>2, NextSteps DEF IInv
  <2>2. QED
    BY <1>1, <2>1, StepOrder, StepHeld, StepFrames DEF IInv
<1>3. CASE UNCHANGED vars
  <2>1. OrderInv'
    BY <1>3, SameOutput DEF vars, readerVars, IInv, Output
  <2>2. HeldInv' /\ FramesInv'
    BY <1>3 DEF vars, readerVars, IInv, Output, HeldInv, FramesInv, NoneOversize
  <2>3. QED
    BY <1>1, <2>1, <2>2 DEF IInv
<1>4. QED
  BY <1>2, <1>3

LEMMA Invariant == Spec => []IInv
  BY InitInv, StepInv, PTL DEF Spec

LEMMA OrderImplies == IInv => PassedInOrder
<1> SUFFICES ASSUME IInv, method # "send" PROVE PassedInOrder
  BY DEF PassedInOrder
<1>1. Len(Output) = Len(sent) /\ \A i \in 1 .. Len(sent) : Output[i] = Image(sent[i])
  BY DEF IInv, OrderInv
<1>2. sent \in Seq(Message) /\ DOMAIN sent = 1 .. Len(sent)
  BY DEF IInv, TypeOK, DataTypeOK
<1>3. ASSUME NEW m \in Message,
             ~(m.compressed = 1 \/ method = "sync" \/ m.len > MaxGRPCBuffer)
      PROVE  /\ Image(m).compressed = 0
             /\ SameButDockerfile(m.data, Image(m).data)
  <2>1. m.data \in Seq(Field) /\ m.compressed = 0
    BY <1>3 DEF Message
  <2>2. Image(m) = Framed(0, RewriteRecords(m.data)) /\ RewriteRecords(m.data) \in Seq(Field)
    BY <1>3, <2>1, RecordsTyped DEF Image, RewriteMessage
  <2>3. SameButDockerfile(m.data, RewriteRecords(m.data))
    BY <2>1, RecordsTyped
  <2> HIDE DEF SameButDockerfile, RewriteRecords
  <2>4. QED
    BY <2>2, <2>3, FramedTyped
<1>4. ASSUME NEW m \in Message, m.compressed = 1 \/ method = "sync" \/ m.len > MaxGRPCBuffer
      PROVE  Image(m) = m
  BY <1>4 DEF Image, RewriteMessage
<1> HIDE DEF Image, SameButDockerfile
<1>5. QED
  BY <1>1, <1>2, <1>3, <1>4 DEF PassedInOrder

LEMMA HeldImplies == IInv => CompleteAtEOF
<1> SUFFICES ASSUME IInv, result = "eof" PROVE CompleteAtEOF
  BY DEF CompleteAtEOF
<1>1. /\ out = <<>> /\ done /\ (NoneOversize => tarBuf = <<>> /\ unread = 0)
      /\ \A i \in 1 .. Len(sent) : sent[i].len > MaxGRPCBuffer => i = Len(sent)
  BY DEF IInv, HeldInv
<1>2. method # "send" => Len(received) = Len(sent)
  BY <1>1, EmptyOutput DEF IInv, OrderInv
<1>3. DOMAIN sent = 1 .. Len(sent)
  BY DEF IInv, TypeOK, DataTypeOK
<1>4. QED
  BY <1>1, <1>2, <1>3 DEF CompleteAtEOF

LEMMA FramesImply == IInv => FramesWhole
<1> SUFFICES ASSUME IInv PROVE FramesWhole
  OBVIOUS
<1>1. Output \in Seq(Message)
  BY ConcatIn DEF IInv, TypeOK, DataTypeOK, Output
<1>2. DOMAIN Output = 1 .. Len(Output)
  BY <1>1
<1>3. QED
  BY <1>2 DEF IInv, FramesInv, FramesWhole

(* Outside the tar mode the daemon is given the client's messages one for   *)
(* one and in order, with nothing changed but the content of Dockerfiles.   *)
THEOREM OrderCorrect == Spec => []PassedInOrder
  BY Invariant, OrderImplies, PTL

(* When the daemon is told that the body has ended it has all of it up to   *)
(* the first message over the limit, and if there is none, all of it.       *)
THEOREM EndCorrect == Spec => []CompleteAtEOF
  BY Invariant, HeldImplies, PTL

(* Every message the daemon is given is as long as its header says, however *)
(* long an edit made it, unless the client's body broke off.                *)
THEOREM FramesCorrect == Spec => []FramesWhole
  BY Invariant, FramesImply, PTL

-----------------------------------------------------------------------------
(* Sequences of sequences, joined, and the pieces of a sequence.            *)

(* A quotient rounded up.                                                   *)
LEMMA RoundedUp ==
    ASSUME NEW L \in Nat, NEW C \in Nat \ {0}, NEW n \in Nat, n = (L + C - 1) \div C
    PROVE  n * C >= L /\ n * C <= L + C - 1
  BY SMTT(60)

LEMMA Splits ==
    ASSUME NEW S, NEW t \in Seq(S), NEW a \in Nat, NEW b \in Nat, a <= b, b <= Len(t)
    PROVE  SubSeq(t, 1, a) \o SubSeq(t, a + 1, b) = SubSeq(t, 1, b)
<1> DEFINE p == SubSeq(t, 1, a)
           q == SubSeq(t, a + 1, b)
           r == SubSeq(t, 1, b)
<1>1. p \in Seq(S) /\ Len(p) = a /\ \A i \in 1 .. a : p[i] = t[i]
  OBVIOUS
<1>2. q \in Seq(S) /\ Len(q) = b - a /\ \A i \in 1 .. (b - a) : q[i] = t[a + i]
  OBVIOUS
<1>3. r \in Seq(S) /\ Len(r) = b /\ \A i \in 1 .. b : r[i] = t[i]
  OBVIOUS
<1> HIDE DEF p, q, r
<1> DEFINE c == p \o q
<1>4. /\ c \in Seq(S) /\ Len(c) = Len(p) + Len(q)
      /\ \A i \in 1 .. Len(p) : c[i] = p[i]
      /\ \A i \in (Len(p) + 1) .. (Len(p) + Len(q)) : c[i] = q[i - Len(p)]
  <2>1. p \in Seq(S) /\ q \in Seq(S)
    BY <1>1, <1>2
  <2>2. QED
    BY <2>1, ConcatIn
<1> HIDE DEF c
<1>5. Len(c) = b
  BY <1>1, <1>2, <1>4
<1>6. ASSUME NEW i \in 1 .. b PROVE c[i] = t[i]
  <2>1. CASE i <= a
    BY <1>1, <1>4, <2>1
  <2>2. CASE i > a
    <3>1. i \in (Len(p) + 1) .. (Len(p) + Len(q))
      BY <1>1, <1>2, <2>2
    <3>2. i - Len(p) \in 1 .. (b - a) /\ a + (i - Len(p)) = i
      BY <1>1, <2>2
    <3>3. QED
      BY <1>2, <1>4, <3>1, <3>2
  <2>3. QED
    BY <2>1, <2>2
<1>7. c = r
  BY <1>3, <1>4, <1>5, <1>6
<1>8. QED
  BY <1>7 DEF c, p, q, r

LEMMA WholeSeq ==
    ASSUME NEW S, NEW t \in Seq(S)
    PROVE  SubSeq(t, 1, 0) = <<>> /\ SubSeq(t, 1, Len(t)) = t
  OBVIOUS

(* Induction, said of a set.                                                *)
LEMMA Reaches ==
    ASSUME NEW T \in SUBSET Nat, 0 \in T, \A n \in T : n + 1 \in T
    PROVE  \A n \in Nat : n \in T
<1> DEFINE R == OpToRel(<, Nat)
           M == Nat \ T
<1>1. IsWellFoundedOn(R, Nat)
  BY NatLessThanWellFounded
<1>2. \A y, x \in Nat : y < x => <<y, x>> \in R
  BY DEF OpToRel
<1> HIDE DEF R
<1>3. SUFFICES ASSUME M # {} PROVE FALSE
  OBVIOUS
<1>4. M \subseteq Nat
  OBVIOUS
<1>5. \E x \in M : \A y \in M : ~ (<<y, x>> \in R)
  BY <1>1, <1>3, <1>4, WFMin
<1>6. PICK x \in M : \A y \in M : ~ (<<y, x>> \in R)
  BY <1>5
<1>7. x \in Nat /\ x # 0 /\ x - 1 \in Nat /\ x - 1 < x /\ (x - 1) + 1 = x
  OBVIOUS
<1>8. x - 1 \notin T
  BY <1>7
<1> QED
  BY <1>2, <1>6, <1>7, <1>8

(* FlattenSeq, by the function it is defined with.                          *)
Joins(g, q, n) == g = [i \in 1 .. n |-> IF i = 1 THEN q[i] ELSE g[i - 1] \o q[i]]

LEMMA JoinsAt ==
    ASSUME NEW g, NEW q, NEW n \in Nat, Joins(g, q, n), NEW i \in 1 .. n
    PROVE  g[i] = IF i = 1 THEN q[i] ELSE g[i - 1] \o q[i]
<1> DEFINE f(j) == IF j = 1 THEN q[j] ELSE g[j - 1] \o q[j]
<1>1. g = [j \in 1 .. n |-> f(j)]
  BY DEF Joins
<1> HIDE DEF f
<1>2. g[i] = f(i)
  BY <1>1
<1> QED
  BY <1>2 DEF f

LEMMA JoinsExist ==
    ASSUME NEW q
    PROVE  \A n \in Nat : \E g : Joins(g, q, n)
<1> DEFINE T == {n \in Nat : \E g : Joins(g, q, n)}
<1>1. 0 \in T
  <2>1. Joins(<< >>, q, 0)
    BY DEF Joins
  <2> QED
    BY <2>1
<1>2. ASSUME NEW n \in T PROVE n + 1 \in T
  <2>1. PICK g : Joins(g, q, n)
    OBVIOUS
  <2> DEFINE h == [i \in 1 .. n + 1 |->
                     IF i <= n THEN g[i] ELSE IF i = 1 THEN q[i] ELSE g[i - 1] \o q[i]]
  <2>2. ASSUME NEW i \in 1 .. n + 1
        PROVE  h[i] = IF i = 1 THEN q[i] ELSE h[i - 1] \o q[i]
    <3>1. CASE i <= n
      <4>1. i \in 1 .. n /\ h[i] = g[i]
        BY <3>1
      <4>2. g[i] = IF i = 1 THEN q[i] ELSE g[i - 1] \o q[i]
        <5> HIDE DEF h
        <5> QED
          BY <2>1, <4>1 DEF Joins
      <4>3. i # 1 => h[i - 1] = g[i - 1]
        BY <4>1
      <4> QED
        BY <4>1, <4>2, <4>3
    <3>2. CASE i > n
      <4>1. i = n + 1 /\ h[i] = IF i = 1 THEN q[i] ELSE g[i - 1] \o q[i]
        BY <3>2
      <4>2. i # 1 => h[i - 1] = g[i - 1]
        BY <4>1
      <4> QED
        BY <4>1, <4>2
    <3> QED
      BY <3>1, <3>2
  <2>3. h = [i \in 1 .. n + 1 |-> h[i]]
    OBVIOUS
  <2> HIDE DEF h
  <2>4. Joins(h, q, n + 1)
    BY <2>2, <2>3 DEF Joins
  <2> QED
    BY <2>4
<1> HIDE DEF T
<1>3. T \in SUBSET Nat
  BY DEF T
<1>4. \A n \in Nat : n \in T
  BY <1>1, <1>2, <1>3, Reaches
<1> QED
  BY <1>4 DEF T

LEMMA FlattenJoins ==
    ASSUME NEW q, Len(q) \in Nat, Len(q) # 0
    PROVE  \E g : Joins(g, q, Len(q)) /\ FlattenSeq(q) = g[Len(q)]
<1> DEFINE F == CHOOSE g : Joins(g, q, Len(q))
<1>1. Joins(F, q, Len(q))
  BY JoinsExist
<1>2. FlattenSeq(q) = F[Len(q)]
  BY DEF FlattenSeq, Joins
<1> QED
  BY <1>1, <1>2

(* Functions that join the same beginnings agree on them.                   *)
LEMMA JoinsAgree ==
    ASSUME NEW n \in Nat, NEW m \in Nat, n <= m, NEW q, NEW p, NEW g, NEW h,
           Joins(g, q, n), Joins(h, p, m), \A i \in 1 .. n : q[i] = p[i]
    PROVE  \A i \in 1 .. n : g[i] = h[i]
<1> DEFINE T == {k \in Nat : k \in 1 .. n => g[k] = h[k]}
<1>1. 0 \in T
  OBVIOUS
<1>2. ASSUME NEW k \in T PROVE k + 1 \in T
  <2> SUFFICES ASSUME k + 1 \in 1 .. n PROVE g[k + 1] = h[k + 1]
    OBVIOUS
  <2>1. k + 1 \in 1 .. m /\ k \in Nat
    OBVIOUS
  <2>2. g[k + 1] = IF k + 1 = 1 THEN q[k + 1] ELSE g[k + 1 - 1] \o q[k + 1]
    BY JoinsAt
  <2>3. h[k + 1] = IF k + 1 = 1 THEN p[k + 1] ELSE h[k + 1 - 1] \o p[k + 1]
    BY <2>1, JoinsAt
  <2>4. k + 1 # 1 => k \in 1 .. n /\ k + 1 - 1 = k
    BY <2>1
  <2>5. q[k + 1] = p[k + 1]
    OBVIOUS
  <2> QED
    BY <2>2, <2>3, <2>4, <2>5
<1>3. \A k \in Nat : k \in T
  <2> HIDE DEF T
  <2>1. T \in SUBSET Nat
    BY DEF T
  <2> QED
    BY <1>1, <1>2, <2>1, Reaches
<1> QED
  BY <1>3

LEMMA FlattenAppend ==
    ASSUME NEW X, NEW q \in Seq(Seq(X)), NEW e \in Seq(X)
    PROVE  FlattenSeq(Append(q, e)) = FlattenSeq(q) \o e
<1> DEFINE a == Append(q, e)
           n == Len(q)
<1>1. n \in Nat /\ Len(a) = n + 1 /\ a[n + 1] = e /\ \A i \in 1 .. n : q[i] = a[i]
  OBVIOUS
<1> HIDE DEF a
<1>2. PICK h : Joins(h, a, n + 1) /\ FlattenSeq(a) = h[n + 1]
  BY <1>1, FlattenJoins
<1>3. h[n + 1] = IF n + 1 = 1 THEN a[n + 1] ELSE h[n + 1 - 1] \o a[n + 1]
  <2> DEFINE m == n + 1
  <2>1. m \in Nat /\ m \in 1 .. m /\ Joins(h, a, m)
    BY <1>1, <1>2
  <2> HIDE DEF m
  <2>2. h[m] = IF m = 1 THEN a[m] ELSE h[m - 1] \o a[m]
    BY <2>1, JoinsAt
  <2> QED
    BY <2>2 DEF m
<1>4. CASE n = 0
  <2>1. q = << >>
    BY <1>4
  <2>2. FlattenSeq(q) = << >>
    BY <2>1 DEF FlattenSeq
  <2>3. FlattenSeq(a) = e
    BY <1>1, <1>2, <1>3, <1>4
  <2>4. << >> \o e = e
    OBVIOUS
  <2> QED
    BY <2>2, <2>3, <2>4 DEF a
<1>5. CASE n # 0
  <2>1. PICK g : Joins(g, q, n) /\ FlattenSeq(q) = g[n]
    BY <1>1, <1>5, FlattenJoins
  <2>2. g[n] = h[n]
    <3>1. n + 1 \in Nat /\ n <= n + 1 /\ n \in 1 .. n
      BY <1>1, <1>5
    <3> HIDE DEF n
    <3> QED
      BY <1>1, <1>2, <2>1, <3>1, JoinsAgree
  <2>3. h[n + 1] = h[n] \o e
    BY <1>1, <1>3, <1>5
  <2> QED
    BY <1>2, <2>1, <2>2, <2>3 DEF a
<1> QED
  BY <1>4, <1>5

LEMMA FlattenTyped ==
    ASSUME NEW X, NEW q \in Seq(Seq(X))
    PROVE  FlattenSeq(q) \in Seq(X)
<1> DEFINE n == Len(q)
<1>1. n \in Nat /\ \A i \in 1 .. n : q[i] \in Seq(X)
  OBVIOUS
<1>2. CASE n = 0
  <2>1. q = << >>
    BY <1>2
  <2>2. FlattenSeq(q) = << >>
    BY <2>1 DEF FlattenSeq
  <2> QED
    BY <2>2
<1>3. CASE n # 0
  <2>1. PICK g : Joins(g, q, n) /\ FlattenSeq(q) = g[n]
    BY <1>1, <1>3, FlattenJoins
  <2> HIDE DEF n
  <2> DEFINE T == {k \in Nat : k \in 1 .. n => g[k] \in Seq(X)}
  <2>2. 0 \in T
    OBVIOUS
  <2>3. ASSUME NEW k \in T PROVE k + 1 \in T
    <3> SUFFICES ASSUME k + 1 \in 1 .. n PROVE g[k + 1] \in Seq(X)
      OBVIOUS
    <3>1. g[k + 1] = IF k + 1 = 1 THEN q[k + 1] ELSE g[k + 1 - 1] \o q[k + 1]
      BY <1>1, <2>1, JoinsAt
    <3>2. k + 1 # 1 => k \in 1 .. n /\ k + 1 - 1 = k
      BY <1>1
    <3>3. q[k + 1] \in Seq(X)
      BY <1>1
    <3>4. CASE k + 1 = 1
      BY <3>1, <3>3, <3>4
    <3>5. CASE k + 1 # 1
      <4>1. g[k] \in Seq(X) /\ g[k + 1] = g[k] \o q[k + 1]
        BY <3>1, <3>2, <3>5
      <4> HIDE DEF T
      <4> QED
        BY <3>3, <4>1
    <3> QED
      BY <3>4, <3>5
  <2>4. \A k \in Nat : k \in T
    <3> HIDE DEF T
    <3>1. T \in SUBSET Nat
      BY DEF T
    <3> QED
      BY <2>2, <2>3, <3>1, Reaches
  <2>5. n \in 1 .. n
    BY <1>1, <1>3
  <2> QED
    BY <1>1, <2>1, <2>4, <2>5
<1> QED
  BY <1>2, <1>3

(* The payloads of messages, one after the other.                           *)
Datas(messages) == [i \in DOMAIN messages |-> messages[i].data]

LEMMA DatasTyped ==
    ASSUME NEW q \in Seq(Message)
    PROVE  Datas(q) \in Seq(Seq(Field)) /\ Len(Datas(q)) = Len(q)
           /\ \A i \in 1 .. Len(q) : Datas(q)[i] = q[i].data
<1>1. Len(q) \in Nat /\ DOMAIN q = 1 .. Len(q) /\ \A i \in 1 .. Len(q) : q[i] \in Message
  OBVIOUS
<1>2. \A i \in 1 .. Len(q) : q[i].data \in Seq(Field)
  BY <1>1 DEF Message
<1>3. Datas(q) \in [1 .. Len(q) -> Seq(Field)]
  BY <1>1, <1>2 DEF Datas
<1>4. \A i \in 1 .. Len(q) : Datas(q)[i] = q[i].data
  BY <1>1 DEF Datas
<1>5. QED
  BY <1>1, <1>3, <1>4

LEMMA PlainAppend ==
    ASSUME NEW q \in Seq(Message), NEW m \in Message
    PROVE  Plain(Append(q, m)) = Plain(q) \o m.data
<1> DEFINE a == Append(q, m)
           d == Datas(q)
           e == Datas(a)
<1>1. a \in Seq(Message) /\ Len(a) = Len(q) + 1 /\ Len(q) \in Nat /\ a[Len(q) + 1] = m
      /\ \A i \in 1 .. Len(q) : a[i] = q[i]
  BY AppendIn
<1>2. m.data \in Seq(Field)
  BY DEF Message
<1> HIDE DEF a
<1>3. d \in Seq(Seq(Field)) /\ Len(d) = Len(q) /\ \A i \in 1 .. Len(q) : d[i] = q[i].data
  BY DatasTyped
<1>4. e \in Seq(Seq(Field)) /\ Len(e) = Len(a) /\ \A i \in 1 .. Len(a) : e[i] = a[i].data
  BY <1>1, DatasTyped
<1> HIDE DEF d, e
<1> DEFINE f == Append(d, m.data)
<1>5. f \in Seq(Seq(Field)) /\ Len(f) = Len(q) + 1 /\ f[Len(q) + 1] = m.data
      /\ \A i \in 1 .. Len(q) : f[i] = d[i]
  BY <1>2, <1>3, AppendIn
<1> HIDE DEF f
<1>6. ASSUME NEW i \in 1 .. Len(q) + 1 PROVE e[i] = f[i]
  <2>1. CASE i \in 1 .. Len(q)
    BY <1>1, <1>3, <1>4, <1>5, <2>1
  <2>2. CASE i = Len(q) + 1
    BY <1>1, <1>3, <1>4, <1>5, <2>2
  <2>3. QED
    BY <1>1, <2>1, <2>2
<1>7. e = f
  BY <1>1, <1>4, <1>5, <1>6
<1>8. FlattenSeq(f) = FlattenSeq(d) \o m.data
  BY <1>2, <1>3, FlattenAppend DEF f
<1>9. QED
  BY <1>7, <1>8 DEF Plain, Datas, a, d, e

LEMMA PlainTyped ==
    ASSUME NEW q \in Seq(Message)
    PROVE  Plain(q) \in Seq(Field)
<1>1. Datas(q) \in Seq(Seq(Field))
  BY DatasTyped
<1>2. FlattenSeq(Datas(q)) \in Seq(Field)
  BY <1>1, FlattenTyped
<1>3. QED
  BY <1>2 DEF Plain, Datas

(* The pieces of a tar, one after the other.                                *)
LEMMA PlainChunks ==
    ASSUME NEW t \in Seq(Field)
    PROVE  Plain(ChunkAsBytesMessages(t)) = t
<1> DEFINE L == Len(t)
           n == (L + Chunk - 1) \div Chunk
           c == ChunkAsBytesMessages(t)
           End(k) == IF k * Chunk < L THEN k * Chunk ELSE L
           First(k) == [i \in 1 .. k |-> Piece(t, i)]
           T == {k \in Nat : k <= n => FlattenSeq(First(k)) = SubSeq(t, 1, End(k))}
<1>1. L \in Nat /\ Chunk \in Nat \ {0}
  BY ConstantAssumption
<1>2. n \in Nat
  BY <1>1, SMTT(30)
<1>3. n * Chunk >= L /\ n * Chunk <= L + Chunk - 1
  <2> HIDE DEF L
  <2>1. QED
    BY <1>1, <1>2, RoundedUp
<1> HIDE DEF n
<1>4. ASSUME NEW k \in Nat, k <= n
      PROVE  /\ k * Chunk \in Nat /\ End(k) \in Nat /\ End(k) <= L
             /\ k # n => k * Chunk < L /\ End(k) = k * Chunk /\ End(k) <= End(k + 1)
                         /\ (k + 1) * Chunk \in Nat
  <2> HIDE DEF L
  <2>1. k * Chunk \in Nat /\ (k + 1) * Chunk = k * Chunk + Chunk
    BY <1>1
  <2>2. k # n => (k + 1) * Chunk <= n * Chunk
    <3>1. k # n => k + 1 <= n
      BY <1>2, <1>4
    <3>2. \A a, b \in Nat : a <= b => a * Chunk <= b * Chunk
      BY <1>1
    <3>3. QED
      BY <1>2, <3>1, <3>2
  <2>3. QED
    BY <1>1, <1>2, <1>3, <1>4, <2>1, <2>2
<1>5. \A i : Piece(t, i) = SubSeq(t, (i - 1) * Chunk + 1, End(i))
  BY DEF Piece
<1> HIDE DEF End, L
<1>6. ASSUME NEW k \in Nat, k <= n
      PROVE  First(k) \in Seq(Seq(Field)) /\ Len(First(k)) = k
  <2>1. \A i \in 1 .. k : c[i] \in Message /\ c[i].data = Piece(t, i)
    <3>1. c \in Seq(Message)
      BY PiecesTyped
    <3>2. c = [i \in 1 .. n |-> Framed(0, Piece(t, i))]
      BY DEF ChunkAsBytesMessages, n, L
    <3>3. 1 .. k \subseteq 1 .. n
      BY <1>2, <1>6
    <3> HIDE DEF c
    <3>4. DOMAIN c = 1 .. n
      BY <3>2
    <3>5. \A i \in 1 .. n : c[i] \in Message
      <4>1. \A i \in DOMAIN c : c[i] \in Message
        BY <3>1
      <4>2. QED
        BY <3>4, <4>1
    <3>6. QED
      BY <3>2, <3>3, <3>5 DEF Framed
  <2>2. \A i \in 1 .. k : Piece(t, i) \in Seq(Field)
    <3> HIDE DEF c
    <3>1. QED
      BY <2>1 DEF Message
  <2>3. First(k) \in [1 .. k -> Seq(Field)]
    BY <2>2
  <2> HIDE DEF First
  <2>4. QED
    BY <2>3
<1>7. 0 \in T
  <2>1. First(0) = <<>>
    BY <1>1
  <2>2. FlattenSeq(First(0)) = <<>>
    BY <2>1 DEF FlattenSeq
  <2>3. End(0) = 0
    BY <1>1 DEF End
  <2>4. QED
    BY <2>2, <2>3, WholeSeq
<1>8. ASSUME NEW k \in T PROVE k + 1 \in T
  <2> SUFFICES ASSUME k + 1 <= n
               PROVE  FlattenSeq(First(k + 1)) = SubSeq(t, 1, End(k + 1))
    OBVIOUS
  <2>1. k \in Nat /\ k + 1 \in Nat /\ k < n
    BY <1>2
  <2>2. End(k) = k * Chunk /\ End(k) \in Nat /\ End(k) <= End(k + 1)
    <3>1. k <= n /\ k # n
      BY <1>2, <2>1
    <3> HIDE DEF T
    <3>2. QED
      BY <1>4, <2>1, <3>1
  <2>3. End(k + 1) \in Nat /\ End(k + 1) <= Len(t)
    BY <1>4, <2>1 DEF L
  <2>4. Piece(t, k + 1) = SubSeq(t, End(k) + 1, End(k + 1))
    BY <1>5, <2>1, <2>2
  <2>5. First(k) \in Seq(Seq(Field)) /\ Len(First(k)) = k /\ Piece(t, k + 1) \in Seq(Field)
    <3>1. First(k + 1) \in Seq(Seq(Field)) /\ Len(First(k + 1)) = k + 1
      BY <1>6, <2>1
    <3>2. First(k + 1)[k + 1] = Piece(t, k + 1)
      BY <2>1
    <3>3. First(k) \in Seq(Seq(Field)) /\ Len(First(k)) = k
      <4>1. k <= n
        BY <1>2, <2>1
      <4> HIDE DEF First, T
      <4>2. QED
        BY <1>6, <2>1, <4>1
    <3> HIDE DEF First, T
    <3>4. First(k + 1)[k + 1] \in Seq(Field)
      BY <2>1, <3>1
    <3>5. QED
      BY <3>2, <3>3, <3>4
  <2>6. First(k + 1) = Append(First(k), Piece(t, k + 1))
    <3>1. First(k + 1) \in Seq(Seq(Field)) /\ Len(First(k + 1)) = k + 1
      BY <1>6, <2>1
    <3>2. \A i \in 1 .. k : First(k)[i] = Piece(t, i)
      OBVIOUS
    <3>3. \A i \in 1 .. k + 1 : First(k + 1)[i] = Piece(t, i)
      OBVIOUS
    <3> DEFINE a == Append(First(k), Piece(t, k + 1))
    <3> HIDE DEF First
    <3>4. /\ a \in Seq(Seq(Field)) /\ Len(a) = k + 1 /\ a[k + 1] = Piece(t, k + 1)
          /\ \A i \in 1 .. k : a[i] = First(k)[i]
      BY <2>5, AppendIn
    <3> HIDE DEF a
    <3>5. \A i \in 1 .. k + 1 : First(k + 1)[i] = a[i]
      BY <2>1, <3>2, <3>3, <3>4
    <3>6. First(k + 1) = a
      BY <2>1, <3>1, <3>4, <3>5
    <3>7. QED
      BY <3>6 DEF a
  <2>7. FlattenSeq(First(k)) = SubSeq(t, 1, End(k))
    BY <1>2, <2>1
  <2> HIDE DEF First
  <2>8. FlattenSeq(First(k + 1)) = FlattenSeq(First(k)) \o Piece(t, k + 1)
    BY <2>5, <2>6, FlattenAppend
  <2>9. QED
    BY <2>2, <2>3, <2>4, <2>7, <2>8, Splits
<1>9. FlattenSeq(First(n)) = t
  <2> HIDE DEF T
  <2>1. T \in SUBSET Nat
    BY DEF T
  <2>2. n \in T
    BY <1>2, <1>7, <1>8, <2>1, Reaches
  <2>3. FlattenSeq(First(n)) = SubSeq(t, 1, End(n))
    BY <1>2, <2>2 DEF T
  <2>4. End(n) = Len(t)
    <3>1. n * Chunk \in Nat
      BY <1>1, <1>2
    <3>2. QED
      BY <1>1, <1>3, <3>1 DEF End, L
  <2> HIDE DEF First
  <2>5. QED
    BY <2>3, <2>4, WholeSeq
<1>10. [i \in DOMAIN c |-> c[i].data] = First(n)
  BY DEF ChunkAsBytesMessages, Framed, n, L
<1> HIDE DEF First, c, T
<1>11. QED
  BY <1>9, <1>10 DEF Plain, c

LEMMA PlainNone == Plain(<<>>) = <<>>
  BY DEF Plain, FlattenSeq

-----------------------------------------------------------------------------
(* The tar.                                                                 *)

(* Until the tar is given up nothing of it has come out, and as long as the *)
(* body is open it is as the client sent it.                                *)
TarInv ==
    method = "send" =>
        /\ ~tarFail /\ ~done => out = <<>> /\ received = <<>>
        /\ tarFail => tarBuf = <<>>
        /\ NoneOversize /\ body = "open" => Plain(Output) \o tarBuf = Plain(sent)
        /\ TarEditedWhole

(* A message is held.                                                       *)
LEMMA TarHolds ==
    ASSUME TypeOK, TarInv, method = "send", UNCHANGED <<method, received, out, tarFail, done>>,
           NEW m \in Message, ~tarFail, sent' = Append(sent, m), body = "open",
           tarBuf' = tarBuf \o m.data, ~done
    PROVE  TarInv'
<1>1. /\ sent \in Seq(Message) /\ tarBuf \in Seq(Field) /\ m.data \in Seq(Field)
  BY DEF TypeOK, DataTypeOK, Message
<1>2. ASSUME NoneOversize' PROVE Plain(Output)' \o tarBuf' = Plain(sent)'
  <2>1. Plain(Output) \o tarBuf = Plain(sent)
    BY <1>2, OversizeStays DEF TarInv
  <2>2. Plain(Output) = <<>> /\ Plain(Output)' = <<>>
    <3>1. Output = <<>> /\ Output' = Output
      BY EmptyOutput DEF TarInv, Output
    <3>2. QED
      BY <3>1, PlainNone
  <2>3. Plain(sent) = tarBuf
    BY <1>1, <2>1, <2>2, ConcatEmpty
  <2>4. Plain(sent)' = tarBuf'
    BY <1>1, <2>3, PlainAppend
  <2>5. tarBuf' \in Seq(Field)
    BY <1>1, ConcatIn
  <2>6. QED
    BY <2>2, <2>4, <2>5, ConcatEmpty
<1>3. QED
  BY <1>2 DEF TarInv, TarEditedWhole

(* The tar is given up: what was held comes out, and the message after it.  *)
LEMMA TarGivenUp ==
    ASSUME TypeOK, TarInv, method = "send", UNCHANGED <<method, received>>,
           NEW m \in Message, sent' = Append(sent, m), body = "open",
           tarBuf' = <<>>, tarFail',
           \/ tarFail /\ out' = <<m>> /\ out = <<>>
           \/ ~tarFail /\ ~done /\ out' = ChunkAsBytesMessages(tarBuf) \o <<m>>
    PROVE  TarInv'
<1>1. /\ sent \in Seq(Message) /\ tarBuf \in Seq(Field) /\ m.data \in Seq(Field)
      /\ received \in Seq(Message)
  BY DEF TypeOK, DataTypeOK, Message
<1>2. ASSUME NoneOversize' PROVE Plain(Output)' \o tarBuf' = Plain(sent)'
  <2>1. Plain(Output) \o tarBuf = Plain(sent)
    BY <1>2, OversizeStays DEF TarInv
  <2>2. Plain(sent)' = Plain(sent) \o m.data
    BY <1>1, PlainAppend
  <2>3. Plain(sent) \in Seq(Field)
    BY <1>1, PlainTyped
  <2>4. Plain(Output)' = Plain(sent) \o m.data
    <3>1. CASE tarFail /\ out' = <<m>> /\ out = <<>>
      <4>1. Output = received /\ tarBuf = <<>>
        BY <3>1, EmptyOutput DEF TarInv
      <4>2. Plain(received) = Plain(sent)
        BY <1>1, <2>1, <4>1, PlainTyped, ConcatEmpty
      <4>3. Output' = received \o <<m>>
        BY <3>1 DEF Output
      <4>4. Output' = Append(received, m)
        BY <1>1, <4>3
      <4>5. QED
        BY <1>1, <4>2, <4>4, PlainAppend
    <3>2. CASE ~tarFail /\ ~done /\ out' = ChunkAsBytesMessages(tarBuf) \o <<m>>
      <4> DEFINE q == ChunkAsBytesMessages(tarBuf)
      <4>1. q \in Seq(Message) /\ Plain(q) = tarBuf
        BY <1>1, PiecesTyped, PlainChunks
      <4>2. received = <<>> /\ Output = <<>>
        BY <3>2, EmptyOutput DEF TarInv
      <4>3. Plain(sent) = tarBuf
        BY <1>1, <2>1, <4>2, PlainNone, ConcatEmpty
      <4> HIDE DEF q
      <4>4. Output' = <<>> \o (q \o <<m>>)
        BY <3>2, <4>2 DEF Output, q
      <4>5. q \o <<m>> = Append(q, m) /\ Append(q, m) \in Seq(Message)
        BY <4>1
      <4>6. Output' = Append(q, m)
        BY <4>4, <4>5, ConcatEmpty
      <4>7. Plain(Append(q, m)) = Plain(q) \o m.data
        BY <4>1, PlainAppend
      <4>8. QED
        BY <4>1, <4>3, <4>6, <4>7
    <3>3. QED
      BY <3>1, <3>2
  <2>5. QED
    BY <1>1, <2>2, <2>3, <2>4, ConcatIn, ConcatEmpty
<1>3. QED
  BY <1>2 DEF TarInv, TarEditedWhole

(* The body ends: a tar that was held comes out edited.                     *)
LEMMA TarEnds ==
    ASSUME TypeOK, TarInv, method = "send", NEW how \in {"clean", "header"}, EndOfBody(how)
    PROVE  TarInv'
<1>1. /\ sent \in Seq(Message) /\ tarBuf \in Seq(Field) /\ received \in Seq(Message)
      /\ Length(tarBuf) <= MaxGRPCBuffer /\ out = <<>> /\ ~done /\ body = "open" /\ body' = how
      /\ out' = TarTail /\ tarBuf' = <<>> /\ done' /\ UNCHANGED <<method, sent, received, tarFail>>
  BY DEF TypeOK, DataTypeOK, EndOfBody, AwaitsClient
<1>2. NoneOversize' = NoneOversize
  BY <1>1 DEF NoneOversize
<1>3. ASSUME NoneOversize PROVE TarEditedWhole'
  <2>1. Plain(received) \o tarBuf = Plain(sent)
    BY <1>1, <1>3, EmptyOutput DEF TarInv
  <2>2. CASE tarFail
    <3>1. TarTail = <<>> /\ tarBuf = <<>>
      BY <2>2 DEF TarTail, TarInv
    <3>2. Output' = received
      BY <1>1, <3>1, ConcatEmpty DEF Output
    <3>3. Plain(Output)' \o tarBuf' = Plain(sent)'
      BY <1>1, <2>1, <3>1, <3>2
    <3>4. QED
      BY <3>3 DEF TarEditedWhole
  <2>3. CASE ~tarFail
    <3>1. received = <<>>
      BY <1>1, <2>3 DEF TarInv
    <3>2. Plain(sent) = tarBuf
      BY <1>1, <2>1, <3>1, PlainNone, ConcatEmpty
    <3>3. RewriteTar(tarBuf) \in Seq(Field)
      BY <1>1, TarTyped
    <3>4. TarTail = ChunkAsBytesMessages(RewriteTar(tarBuf))
      BY <2>3 DEF TarTail
    <3>5. Output' = TarTail
      <4>1. TarTail \in Seq(Message)
        BY <1>1, TailTyped
      <4>2. Output' = <<>> \o TarTail
        BY <1>1, <3>1 DEF Output
      <4>3. QED
        BY <4>1, <4>2, ConcatEmpty
    <3>6. Plain(Output)' = RewriteTar(tarBuf)
      BY <3>3, <3>4, <3>5, PlainChunks
    <3>7. Plain(Output)' = RewriteTar(Plain(sent))
      BY <3>2, <3>6
    <3>8. Plain(sent)' = Plain(sent) /\ RewriteTar(Plain(sent))' = RewriteTar(Plain(sent))
      BY <1>1
    <3>9. QED
      BY <1>1, <3>2, <3>7, <3>8 DEF TarEditedWhole
  <2>4. QED
    BY <2>2, <2>3
<1>4. TarEditedWhole'
  BY <1>2, <1>3 DEF TarEditedWhole
<1>5. QED
  BY <1>1, <1>4 DEF TarInv

LEMMA TarSame ==
    ASSUME TarInv, Output' = Output, body' = body \/ (body = "open" /\ body' = "reset"),
           UNCHANGED <<method, sent, tarBuf, tarFail, done>>,
           ~tarFail /\ ~done => out' = out /\ received' = received
    PROVE  TarInv'
<1>1. NoneOversize' = NoneOversize
  BY DEF NoneOversize
<1>2. Plain(Output)' = Plain(Output) /\ Plain(sent)' = Plain(sent)
  OBVIOUS
<1>3. RewriteTar(Plain(sent))' = RewriteTar(Plain(sent))
  BY DEF RewriteTar, RebuildTar
<1>4. QED
  BY <1>1, <1>2, <1>3 DEF TarInv, TarEditedWhole

LEMMA StepTar ==
    ASSUME TypeOK, TarInv, NEW m \in Message, Steps(m)
    PROVE  TarInv'
<1>1. CASE method # "send"
  <2>1. method' = method
    BY DEF Steps, NextMessage, NextOversize, EndOfBody, ClientGoesOn, BodyBreaks, ReturnData,
       ReturnEOF, Answer, Refuse, Finish
  <2>2. QED
    BY <1>1, <2>1 DEF TarInv
<1>2. ASSUME method = "send", NextMessage(m) PROVE TarInv'
  <2>1. /\ UNCHANGED <<method, received, done>> /\ sent' = Append(sent, m) /\ body = "open"
        /\ ~done /\ out = <<>> /\ HandleTarMessage(m)
    BY <1>2 DEF NextMessage, AwaitsClient, FlagTypeOK, TypeOK
  <2>2. CASE tarFail /\ out' = <<m>> /\ UNCHANGED <<tarBuf, tarFail>>
    BY <1>2, <2>1, <2>2, TarGivenUp DEF TarInv
  <2>3. CASE /\ ~tarFail /\ out' = ChunkAsBytesMessages(tarBuf) \o <<m>>
             /\ tarBuf' = <<>> /\ tarFail' = TRUE
    BY <1>2, <2>1, <2>3, TarGivenUp
  <2>4. CASE ~tarFail /\ tarBuf' = tarBuf \o m.data /\ UNCHANGED <<out, tarFail>>
    BY <1>2, <2>1, <2>4, TarHolds
  <2>5. QED
    BY <2>1, <2>2, <2>3, <2>4 DEF HandleTarMessage
<1>3. ASSUME method = "send", NEW how \in {"open", "cut", "reset"}, NextOversize(m, how)
      PROVE  TarInv'
  <2>1. ~NoneOversize'
    BY <1>3, OversizeStays DEF NextOversize
  <2>2. done' /\ UNCHANGED <<method, tarFail>> /\ (tarFail => tarBuf' = <<>>)
    BY <1>3 DEF NextOversize, TarInv
  <2>3. QED
    BY <2>1, <2>2 DEF TarInv, TarEditedWhole
<1>4. ASSUME method = "send", NEW how \in {"clean", "header"}, EndOfBody(how) PROVE TarInv'
  BY <1>4, TarEnds
<1>5. ASSUME method = "send", ReturnData PROVE TarInv'
  <2>1. out # <<>> /\ UNCHANGED <<method, sent, tarBuf, tarFail, done, body>>
    BY <1>5 DEF ReturnData
  <2>2. tarFail \/ done
    BY <1>5, <2>1 DEF TarInv
  <2>3. QED
    BY <1>5, <2>1, <2>2, ReturnDataOutput, TarSame
<1>6. ASSUME ClientGoesOn \/ BodyBreaks \/ ReturnEOF \/ Answer \/ Refuse \/ Finish
      PROVE  TarInv'
  <2>1. /\ UNCHANGED <<out, received, method, sent, tarBuf, tarFail, done>>
        /\ body' = body \/ (body = "open" /\ body' = "reset")
    BY <1>6 DEF ClientGoesOn, BodyBreaks, AwaitsClient, ReturnEOF, Answer, Refuse, Finish, readerVars
  <2>2. QED
    BY <2>1, TarSame DEF Output
<1>7. QED
  BY <1>1, <1>2, <1>3, <1>4, <1>5, <1>6 DEF Steps

LEMMA InitTar == Init => TarInv
<1> SUFFICES ASSUME Init PROVE TarInv
  OBVIOUS
<1>1. Output = <<>> /\ sent = <<>> /\ tarBuf = <<>> /\ out = <<>> /\ received = <<>>
  BY DEF Init, Output
<1>2. Plain(Output) \o tarBuf = Plain(sent)
  BY <1>1, PlainNone
<1>3. QED
  BY <1>1, <1>2 DEF Init, TarInv, TarEditedWhole

LEMMA NextTar == TypeOK /\ TarInv /\ [Next]_vars => TarInv'
<1> SUFFICES ASSUME TypeOK, TarInv, [Next]_vars PROVE TarInv'
  OBVIOUS
<1>1. CASE Next
  BY <1>1, NextSteps, StepTar
<1>2. CASE UNCHANGED vars
  BY <1>2, TarSame DEF vars, readerVars, Output
<1>3. QED
  BY <1>1, <1>2

(* A tar comes out as it was sent, or, if the body ended and was within the *)
(* limit, with its Dockerfile edited, and never half the one, half the      *)
(* other.                                                                   *)
THEOREM TarCorrect == Spec => []TarEditedWhole
<1>1. TarInv => TarEditedWhole
  BY DEF TarInv, TarEditedWhole
<1>2. QED
  BY InitType, StepType, InitTar, NextTar, <1>1, PTL DEF Spec

-----------------------------------------------------------------------------
(* The end of a body.                                                       *)

(* The reader knows that it is done once the body has ended or broken.      *)
EndInv ==
    /\ body \in {"clean", "header", "cut"} => done
    /\ body = "reset" => result = "error"

LEMMA EndsReady == Spec => []EndInv
<1>1. Init => EndInv
  BY DEF Init, EndInv
<1>2. TypeOK /\ EndInv /\ [Next]_vars => EndInv'
  <2> SUFFICES ASSUME TypeOK, EndInv, [Next]_vars PROVE EndInv'
    OBVIOUS
  <2>1. ASSUME NEW m \in Message, Steps(m) PROVE EndInv'
    BY <2>1 DEF EndInv, Steps, NextMessage, NextOversize, EndOfBody, ClientGoesOn, BodyBreaks, ReturnData,
       ReturnEOF, Answer, Refuse, Finish, readerVars, AwaitsClient, Pulled
  <2>2. CASE UNCHANGED vars
    BY <2>2 DEF EndInv, vars, readerVars
  <2>3. QED
    BY <2>1, <2>2, NextSteps
<1>3. QED
  BY <1>1, <1>2, InitType, StepType, PTL DEF Spec

(* After the body, nothing more is taken and nothing is lost: a step of the *)
(* reader hands one message over, or ends.                                  *)
RunsDry ==
    body # "open" =>
        /\ UNCHANGED <<sent, body, Output>>
        /\ out' # out => Len(out') = Len(out) - 1

(* Every body comes to its end: once it has ended or broken, Read has a     *)
(* message to hand out, or EOF, or has returned an error, and each Read     *)
(* brings it nearer.  (grpcfilter.go: Read, nextMessage)  What is left to   *)
(* fairness is that the transport goes on calling Read.                     *)
ReadReady == body # "open" /\ Pulled => out # <<>> \/ done

THEOREM BodyRunsDry == Spec => []ReadReady /\ [][RunsDry]_vars
<1>1. TypeOK /\ EndInv => ReadReady
  BY DEF TypeOK, DataTypeOK, EndInv, ReadReady, Pulled
<1>2. TypeOK /\ [Next]_vars => [RunsDry]_vars
  <2> SUFFICES ASSUME TypeOK, Next, body # "open" PROVE RunsDry
    BY DEF RunsDry
  <2>1. PICK m \in Message : Steps(m)
    BY NextSteps
  <2>2. CASE ReturnData
    <3>1. UNCHANGED <<sent, body>> /\ out' = Tail(out) /\ out # <<>> /\ out \in Seq(Message)
      BY <2>2 DEF ReturnData, TypeOK, DataTypeOK
    <3>2. Len(Tail(out)) = Len(out) - 1
      BY <3>1
    <3>3. QED
      BY <2>2, <3>1, <3>2, ReturnDataOutput DEF RunsDry
  <2>3. CASE ReturnEOF \/ Answer \/ Refuse \/ Finish
    BY <2>3 DEF ReturnEOF, Answer, Refuse, Finish, readerVars, RunsDry, Output
  <2>4. QED
    BY <2>1, <2>2, <2>3 DEF Steps, NextMessage, NextOversize, EndOfBody, ClientGoesOn, BodyBreaks,
       AwaitsClient
<1>3. QED
  BY <1>1, <1>2, InitType, StepType, EndsReady, PTL DEF Spec

(* What the edit of a tar amounts to: nothing moves, and nothing changes    *)
(* but the content of entries with the name of the last Dockerfile, which   *)
(* all become that one's, edited (RewriteTar).                              *)
OnlyLastDockerfile(t, u) ==
    /\ Len(u) = Len(t)
    /\ \A i \in DOMAIN t : u[i] # t[i] =>
        \E d \in DOMAIN t :
            /\ IsDockerfileEntry(t, d) /\ t[i - 1].val = t[d].val
            /\ i % 2 = 0 /\ t[i].val \in Contents
            /\ u[i] = [t[i] EXCEPT !.val = Edit[t[d + 1].val]]

LEMMA TarChanges ==
    ASSUME NEW t \in Seq(Field)
    PROVE  OnlyLastDockerfile(t, RewriteTar(t))
<1>1. CASE IsTar(t) /\ \E i \in DOMAIN t : IsDockerfileEntry(t, i)
  <2> DEFINE d == CHOOSE i \in DOMAIN t : IsDockerfileEntry(t, i)
             new == Edit[t[d + 1].val]
             r == RebuildTar(t, t[d].val, new)
  <2>1. d \in DOMAIN t /\ IsDockerfileEntry(t, d)
    BY <1>1
  <2>2. RewriteTar(t) = t \/ RewriteTar(t) = r
    BY <1>1 DEF RewriteTar
  <2>3. \A i \in DOMAIN t : i % 2 = 0 => t[i].val \in Contents
    BY <1>1 DEF IsTar
  <2>4. r = [i \in DOMAIN t |-> IF i % 2 = 0 /\ t[i - 1].val = t[d].val
                                THEN [t[i] EXCEPT !.val = new] ELSE t[i]]
    BY DEF RebuildTar
  <2>5. ASSUME RewriteTar(t) = r PROVE Len(RewriteTar(t)) = Len(t)
    <3>1. DOMAIN RewriteTar(t) = DOMAIN t
      BY <2>4, <2>5
    <3>2. RewriteTar(t) \in Seq(Field)
      BY TarTyped
    <3>3. QED
      BY <3>1, <3>2
  <2> HIDE DEF d, r
  <2>6. ASSUME NEW i \in DOMAIN t, r[i] # t[i]
        PROVE  i % 2 = 0 /\ t[i - 1].val = t[d].val /\ r[i] = [t[i] EXCEPT !.val = new]
    BY <2>4, <2>6
  <2>7. QED
    BY <2>1, <2>2, <2>3, <2>5, <2>6 DEF OnlyLastDockerfile
<1>2. CASE ~(IsTar(t) /\ \E i \in DOMAIN t : IsDockerfileEntry(t, i))
  BY <1>2 DEF RewriteTar, OnlyLastDockerfile
<1>3. QED
  BY <1>1, <1>2

TarOnlyDockerfile ==
    method = "send" /\ NoneOversize =>
        OnlyLastDockerfile(Plain(sent), Plain(Output) \o tarBuf)

(* And so of a tar the daemon never gets anything the client did not send,  *)
(* nor anything in another place, the content of its Dockerfile aside.      *)
(* (grpcfilter.go: finishTar; dockerfile/rewrite.go)                        *)
THEOREM TarKeepsOthers == Spec => []TarOnlyDockerfile
<1>1. ASSUME TypeOK, TarInv, HeldInv, EndInv PROVE TarOnlyDockerfile
  <2> SUFFICES ASSUME method = "send", NoneOversize
               PROVE  OnlyLastDockerfile(Plain(sent), Plain(Output) \o tarBuf)
    BY DEF TarOnlyDockerfile
  <2>1. sent \in Seq(Message) /\ Output \in Seq(Message)
    BY <1>1, ConcatIn DEF TypeOK, DataTypeOK, Output
  <2>2. Plain(sent) \in Seq(Field) /\ Plain(Output) \in Seq(Field)
    BY <2>1, PlainTyped
  <2>3. CASE Plain(Output) \o tarBuf = Plain(sent)
    BY <2>3 DEF OnlyLastDockerfile
  <2>4. CASE body \in {"clean", "header"} /\ Plain(Output) = RewriteTar(Plain(sent))
    <3>1. tarBuf = <<>>
      BY <1>1, <2>4 DEF HeldInv, EndInv
    <3>2. Plain(Output) \o tarBuf = RewriteTar(Plain(sent))
      BY <2>2, <2>4, <3>1, ConcatEmpty
    <3>3. QED
      BY <2>2, <3>2, TarChanges
  <2>5. QED
    BY <1>1, <2>3, <2>4 DEF TarInv, TarEditedWhole
<1>2. IInv => TypeOK /\ HeldInv
  BY DEF IInv
<1>3. QED
  BY InitType, StepType, InitTar, NextTar, Invariant, EndsReady, <1>1, <1>2, PTL DEF Spec
=============================================================================
