------------------------------ MODULE GrpcFilter ------------------------------
(***************************************************************************)
(* The reader that rewrites the body of one gRPC call on its way to the    *)
(* daemon (internal/proxy/grpcfilter.go), and the call it is the body of   *)
(* (proxyH2CStream, internal/proxy/buildkit.go).                           *)
(*                                                                         *)
(* The daemon's transport pulls with Read; each Read hands out what is     *)
(* ready or takes one more message from the client, whole, and emits it,   *)
(* edited or not.  On the method FileSend/DiffCopy the payloads are held   *)
(* instead, as the pieces of one tar, until the body ends or the tar       *)
(* grows too large.                                                        *)
(*                                                                         *)
(* A payload is a sequence of fields, in the order they are encoded, each  *)
(* with its nesting depth; a tar is names and contents in turn.  A field   *)
(* is of length one or, with a long content, two: an edit may make a       *)
(* message longer.  Read copies bytes into a buffer of any size: here, one *)
(* message.                                                                *)
(***************************************************************************)
EXTENDS Naturals, Sequences, FiniteSets, SequencesExt

CONSTANTS
    Names, Contents, Other, \* what a field may hold
    Long,                   \* contents that take more room than others
    RecordNames,            \* names isDockerfileName accepts
    TarNames,               \* names ExtractDockerfile accepts
    Edit,                   \* Edit[c]: what editFile makes of content c
    Payloads,               \* Payloads[m]: what a client sends on method m
    MaxGRPCBuffer,
    Chunk,                  \* fields in the pieces a tar is sent in
    MaxMessages             \* bound: messages in a body

(* FileSend/DiffCopy, the methods of FileSync, and any other.               *)
Methods == {"send", "sync", "call"}

Values == Names \cup Contents \cup {Other}

(* num is the number of a length-delimited field, 4 stands for any field   *)
(* that is none of a record's and 0 for bytes that are no field at all.    *)
Field == [depth : Nat, num : 0 .. 4, val : Values]

ASSUME ConstantAssumption ==
    /\ RecordNames \subseteq Names /\ TarNames \subseteq Names
    /\ Names \cap Contents = {} /\ Other \notin Names \cup Contents /\ Long \subseteq Contents
    /\ Edit \in [Contents -> Contents]
    /\ Payloads \in [Methods -> SUBSET Seq(Field)]
    /\ MaxGRPCBuffer \in Nat /\ Chunk \in Nat \ {0} /\ MaxMessages \in Nat

VARIABLES
    method,     \* rewriteTarget.method
    out,        \* messages ready for Read
    done,
    tarBuf,     \* the part of the tar that is held
    tarFail,
    result,     \* what Read returned last: data, EOF or an error
    answer,     \* what the client has of the daemon's answer
    \* the client and the daemon
    sent,       \* messages taken from the client, as far as they came
    unread,     \* messages it has sent on and the reader never takes
    body,       \* how the client's body ended
    received    \* messages the daemon's transport has been given

readerVars == <<out, done, tarBuf, tarFail, result>>
vars == <<method, readerVars, answer, sent, unread, body, received>>

Length(p) == Len(p) + Cardinality({i \in DOMAIN p : p[i].val \in Long})

Message == [compressed : {0, 1}, len : Nat, data : Seq(Field)]

DataTypeOK ==
    /\ method \in Methods
    /\ out \in Seq(Message) /\ sent \in Seq(Message) /\ received \in Seq(Message)
    /\ tarBuf \in Seq(Field) /\ Length(tarBuf) <= MaxGRPCBuffer /\ unread \in Nat
    /\ result \in {"data", "eof", "error"}
    /\ answer \in {"none", "headers", "refused", "ended"}
    /\ body \in {"open", "clean", "header", "cut", "reset"}

FlagTypeOK == done \in BOOLEAN /\ tarFail \in BOOLEAN

(* Everything is of its type, and the tar that is held within its limit.   *)
TypeOK == DataTypeOK /\ FlagTypeOK

Init ==
    /\ method \in Methods
    /\ out = <<>> /\ done = FALSE /\ tarBuf = <<>> /\ tarFail = FALSE
    /\ result = "data" /\ answer = "none"
    /\ sent = <<>> /\ unread = 0 /\ body = "open" /\ received = <<>>

-----------------------------------------------------------------------------
(* Records: name, content and attributes side by side, at any depth.        *)

Siblings(m, i) ==
    {j \in DOMAIN m : /\ m[j].depth = m[i].depth
                      /\ \A k \in (i .. j) \cup (j .. i) : m[k].depth >= m[i].depth}

Enclosing(m, i) ==
    {j \in DOMAIN m : j < i /\ \A k \in (j + 1) .. i : m[j].depth < m[k].depth}

(* parseFields: what is not well formed is not looked into.                 *)
Parsed(m, i) ==
    \A j \in Enclosing(m, i) \cup {i} : \A k \in Siblings(m, j) : m[k].num # 0

IsContent(m, i) ==
    /\ {i - 1, i + 1} \subseteq DOMAIN m
    /\ \A k \in {i - 1, i + 1} : m[k].depth = m[i].depth
    /\ m[i - 1].num = 1 /\ m[i].num = 2 /\ m[i + 1].num = 3
    /\ m[i - 1].val \in RecordNames
    /\ m[i].val \in Contents

RewriteRecords(m) ==
    [i \in DOMAIN m |-> IF IsContent(m, i) /\ Parsed(m, i)
                        THEN [m[i] EXCEPT !.val = Edit[@]] ELSE m[i]]

Framed(compressed, p) == [compressed |-> compressed, len |-> Length(p), data |-> p]

(* Bug: compressed payloads are rewritten too.                              *)
RewriteAny(m) ==
    IF method = "sync" THEN m ELSE Framed(m.compressed, RewriteRecords(m.data))

(* Bug: an edited message keeps the client's header.                        *)
RewriteUnderHeader(m) ==
    IF m.compressed = 1 \/ method = "sync" THEN m
    ELSE [m EXCEPT !.data = RewriteRecords(@)]

(* rewriteMessage, and the header that is put before what it returns.       *)
RewriteMessage(m) ==
    IF m.compressed = 1 \/ method = "sync" THEN m
    ELSE Framed(m.compressed, RewriteRecords(m.data))

-----------------------------------------------------------------------------
(* Tars.                                                                    *)

IsTar(t) ==
    /\ Len(t) % 2 = 0
    /\ \A i \in DOMAIN t : t[i].val \in IF i % 2 = 1 THEN Names ELSE Contents

(* The last Dockerfile of the archive counts.                               *)
IsDockerfileEntry(t, i) ==
    /\ i % 2 = 1 /\ t[i].val \in TarNames
    /\ \A j \in (i + 1) .. Len(t) : t[j].val \notin TarNames

(* Every entry of that name gets the new content.                           *)
RebuildTar(t, name, new) ==
    [i \in DOMAIN t |-> IF i % 2 = 0 /\ t[i - 1].val = name
                        THEN [t[i] EXCEPT !.val = new] ELSE t[i]]

RewriteTar(t) ==
    IF IsTar(t) /\ \E i \in DOMAIN t : IsDockerfileEntry(t, i)
    THEN LET d == CHOOSE i \in DOMAIN t : IsDockerfileEntry(t, i)
             new == Edit[t[d + 1].val]
         IN  IF new = t[d + 1].val THEN t ELSE RebuildTar(t, t[d].val, new)
    ELSE t

Piece(t, i) == SubSeq(t, (i - 1) * Chunk + 1, IF i * Chunk < Len(t) THEN i * Chunk ELSE Len(t))

(* Bug: what is left after the full pieces is not sent.                     *)
FullChunks(t) ==
    [i \in 1 .. Len(t) \div Chunk |->
        [compressed |-> 0, len |-> Chunk, data |-> Piece(t, i)]]

ChunkAsBytesMessages(t) ==
    [i \in 1 .. (Len(t) + Chunk - 1) \div Chunk |-> Framed(0, Piece(t, i))]

(* finishTar; tarBuf is empty in the other cases.                           *)
TarTail ==
    IF method = "send" /\ ~tarFail THEN ChunkAsBytesMessages(RewriteTar(tarBuf)) ELSE <<>>

(* Bug: the limit is compared with what is held already.                    *)
HoldTooMuch(m) ==
    \/ /\ tarFail \/ Length(tarBuf) > MaxGRPCBuffer
       /\ out' = ChunkAsBytesMessages(tarBuf) \o <<m>>
       /\ tarBuf' = <<>> /\ tarFail' = TRUE
    \/ /\ ~tarFail /\ Length(tarBuf) <= MaxGRPCBuffer
       /\ tarBuf' = tarBuf \o m.data
       /\ UNCHANGED <<out, tarFail>>

HandleTarMessage(m) ==
    \/ /\ tarFail
       /\ out' = <<m>>
       /\ UNCHANGED <<tarBuf, tarFail>>
    \/ /\ ~tarFail /\ Length(tarBuf) + m.len > MaxGRPCBuffer
       /\ out' = ChunkAsBytesMessages(tarBuf) \o <<m>>
       /\ tarBuf' = <<>> /\ tarFail' = TRUE
    \/ /\ ~tarFail /\ Length(tarBuf) + m.len <= MaxGRPCBuffer
       /\ tarBuf' = tarBuf \o m.data
       /\ UNCHANGED <<out, tarFail>>

-----------------------------------------------------------------------------
(* Read and nextMessage.                                                    *)

(* The transport pulls until Read fails or the handler has returned.        *)
Over == answer \in {"refused", "ended"}
Pulled == result = "data" /\ ~Over

(* Read has nothing left to hand out and waits for the client.              *)
AwaitsClient == Pulled /\ out = <<>> /\ ~done /\ body = "open"

Sends(m) ==
    /\ Len(sent) < MaxMessages
    /\ m.compressed \in {0, 1}
    /\ m.data \in Payloads[method]

NextMessage(m) ==
    /\ AwaitsClient /\ Sends(m)
    /\ m.len = Length(m.data) /\ m.len <= MaxGRPCBuffer
    /\ sent' = Append(sent, m)
    /\ \/ method = "send" /\ HandleTarMessage(m)
       \/ method # "send" /\ out' = <<RewriteMessage(m)>> /\ UNCHANGED <<tarBuf, tarFail>>
    /\ UNCHANGED <<method, done, result, answer, unread, body, received>>

(* A message over the limit is passed as far as it comes, and is the last:  *)
(* the body ends or breaks within it, or the reader ends after it.          *)
NextOversize(m, how) ==
    /\ AwaitsClient /\ Sends(m)
    /\ m.len > MaxGRPCBuffer
    /\ how = "open" <=> m.len = Length(m.data)
    /\ sent' = Append(sent, m)
    /\ body' = how /\ done' = TRUE
    /\ out' = <<m>> \o IF how = "cut" THEN TarTail ELSE <<>>
    /\ tarBuf' = IF how = "cut" THEN <<>> ELSE tarBuf
    /\ result' = IF how = "reset" THEN "error" ELSE "data"
    /\ UNCHANGED <<method, tarFail, answer, unread, received>>

(* The client does not know, and goes on after such a message: the reader   *)
(* is done, and nothing of it is read.                                      *)
ClientGoesOn ==
    /\ done /\ body = "open"
    /\ Len(sent) + unread < MaxMessages
    /\ unread' = unread + 1
    /\ UNCHANGED <<method, readerVars, answer, sent, body, received>>

(* Bug: done is not set.                                                    *)
EndOfBodyForgotten(how) ==
    /\ AwaitsClient
    /\ body' = how /\ out' = TarTail /\ tarBuf' = <<>>
    /\ UNCHANGED <<method, done, tarFail, result, answer, sent, unread, received>>

(* EOF before a header, or right after one, which is then forgotten.        *)
EndOfBody(how) ==
    /\ AwaitsClient
    /\ body' = how /\ done' = TRUE
    /\ out' = TarTail /\ tarBuf' = <<>>
    /\ UNCHANGED <<method, tarFail, result, answer, sent, unread, received>>

(* EOF inside a header or a payload, or any error of the connection.        *)
BodyBreaks ==
    /\ AwaitsClient
    /\ body' = "reset" /\ result' = "error"
    /\ UNCHANGED <<method, out, done, tarBuf, tarFail, answer, sent, unread, received>>

ReturnData ==
    /\ Pulled /\ out # <<>>
    /\ received' = Append(received, Head(out)) /\ out' = Tail(out)
    /\ UNCHANGED <<method, done, tarBuf, tarFail, result, answer, sent, unread, body>>

(* Bug: done is looked at before what is left to hand out.                  *)
ReturnEOFEarly ==
    /\ Pulled /\ done
    /\ result' = "eof"
    /\ UNCHANGED <<method, out, done, tarBuf, tarFail, answer, sent, unread, body, received>>

ReturnEOF ==
    /\ Pulled /\ out = <<>> /\ done
    /\ result' = "eof"
    /\ UNCHANGED <<method, out, done, tarBuf, tarFail, answer, sent, unread, body, received>>

-----------------------------------------------------------------------------
(* proxyH2CStream.                                                          *)

(* The daemon may answer before it has the whole body.                      *)
Answer ==
    /\ answer = "none" /\ answer' = "headers"
    /\ UNCHANGED <<method, readerVars, sent, unread, body, received>>

(* RoundTrip fails: because Read did, or because of the daemon.             *)
Refuse ==
    /\ answer = "none" /\ answer' = "refused"
    /\ UNCHANGED <<method, readerVars, sent, unread, body, received>>

(* The answer has ended, well or not: Copy's error is not looked at.        *)
Finish ==
    /\ answer = "headers" /\ answer' = "ended"
    /\ UNCHANGED <<method, readerVars, sent, unread, body, received>>

Next ==
    \/ \E c \in {0, 1}, p \in Payloads[method] :
        NextMessage(Framed(c, p))
    \/ \E c \in {0, 1}, p \in Payloads[method], n \in 0 .. MaxGRPCBuffer + 1,
          how \in {"open", "cut", "reset"} :
        NextOversize([compressed |-> c, len |-> Length(p) + n, data |-> p], how)
    \/ \E how \in {"clean", "header"} : EndOfBody(how)
    \/ ClientGoesOn \/ BodyBreaks \/ ReturnData \/ ReturnEOF
    \/ Answer \/ Refuse \/ Finish

(* The daemon lets the transport send, which goes on reading; when Read     *)
(* fails it resets the stream to the daemon, which ends RoundTrip or the    *)
(* copying of the answer.                                                   *)
Fairness ==
    /\ WF_vars(ReturnData) /\ WF_vars(ReturnEOF)
    /\ WF_vars(result = "error" /\ (Refuse \/ Finish))

Spec == Init /\ [][Next]_vars /\ Fairness

-----------------------------------------------------------------------------
(* All that has come out of the reader or is about to.                      *)
Output == received \o out

Plain(messages) == FlattenSeq([i \in DOMAIN messages |-> messages[i].data])

NoneOversize == \A i \in DOMAIN sent : sent[i].len <= MaxGRPCBuffer

(* Two fields are the same, but for the content of a Dockerfile.            *)
SameButDockerfile(p, q) ==
    /\ Len(q) = Len(p)
    /\ \A i \in DOMAIN p :
        \/ q[i] = p[i]
        \/ /\ i > 1 /\ p[i - 1].val \in RecordNames /\ p[i].val \in Contents
           /\ q[i] = [p[i] EXCEPT !.val = Edit[@]]

(* Outside the tar mode the daemon is given the client's messages one for   *)
(* one and in their order, those over the limit, the compressed ones and    *)
(* those of a file sync to the letter, the others but for Dockerfiles.      *)
(* (grpcfilter.go: Read, nextMessage, rewriteMessage)                       *)
PassedInOrder ==
    method # "send" =>
        /\ Len(Output) = Len(sent)
        /\ \A i \in DOMAIN sent :
            LET m == sent[i] IN
            IF m.compressed = 1 \/ method = "sync" \/ m.len > MaxGRPCBuffer
            THEN Output[i] = m
            ELSE /\ Output[i].compressed = 0
                 /\ SameButDockerfile(m.data, Output[i].data)

(* A tar is given to the daemon byte for byte, or, if the body came to its  *)
(* end and was within the limit, with its Dockerfile edited: never the      *)
(* beginning of the one and the end of the other.                           *)
(* (grpcfilter.go: handleTarMessage, flushTarBuf, finishTar)                *)
TarEditedWhole ==
    method = "send" /\ NoneOversize =>
        \/ Plain(Output) \o tarBuf = Plain(sent)
        \/ /\ body \in {"clean", "header"}
           /\ Length(Plain(sent)) <= MaxGRPCBuffer
           /\ Plain(Output) = RewriteTar(Plain(sent))

(* When the daemon is told that the body has ended, it has all of it up to  *)
(* the first message over the limit, that one included: outside the tar     *)
(* mode every message, in the tar mode every byte that was held.  What the  *)
(* client sends after such a message is lost, and what was held of a tar;   *)
(* without one nothing is.                                                  *)
(* (grpcfilter.go: Read, nextMessage, finishTar)                            *)
CompleteAtEOF ==
    result = "eof" =>
        /\ out = <<>>
        /\ method # "send" => Len(received) = Len(sent)
        /\ \A i \in DOMAIN sent : sent[i].len > MaxGRPCBuffer => i = Len(sent)
        /\ NoneOversize => tarBuf = <<>> /\ unread = 0

(* Unless the client's body broke off, every message the daemon is given    *)
(* has the length its header announces, edited messages and the pieces of   *)
(* an edited tar included, which an edit makes longer or shorter.           *)
(* (grpcfilter.go: nextMessage, chunkAsBytesMessages)                       *)
FramesWhole ==
    body \in {"open", "clean", "header"} =>
        \A i \in DOMAIN Output : Output[i].len = Length(Output[i].data)

(* A body that has ended or broken reaches its end at the daemon too, or    *)
(* the call is over. (grpcfilter.go: Read; buildkit.go: proxyH2CStream)     *)
BodyEnds == body # "open" ~> result = "eof" \/ Over
=============================================================================
