----------------------------- MODULE LegacyBuild -----------------------------
(***************************************************************************)
(* What becomes of a connection that carries a build: ServeConn looks at   *)
(* its first request (internal/proxy/http.go) and calls handleBuildConn,   *)
(* which edits the Dockerfile in the tar of a legacy build and forwards    *)
(* it; serveH2C (buildkit.go), which takes the rules and certificates once *)
(* (snapshot) and edits what passes by them; or a tunnel.                  *)
(*                                                                         *)
(* This module joins the parts: a handler's place, at, says which part of  *)
(* it a connection is in.  EnvFiles expands the rules, DockerfileEdit      *)
(* edits, Forwarding passes on; tarutil is here.                           *)
(***************************************************************************)
EXTENDS DockerfileEdit, Forwarding, SequencesExt

CONSTANTS
    Names,             \* names of the entries of a tar
    Tars, Unreadable,  \* contexts of builds
    NoName,
    BaseName,          \* filepath.Base of a certificate's path
    MaxEditsOfSession  \* bound: Dockerfiles edited in one session

\* The certificates of all rules, in order, and the name of each in the tar.
CertPaths == FlattenSeq([i \in Rules |->
                 IF Injections[i].type = "ca_certificates" THEN Injections[i].certs ELSE << >>])

ASSUME BuildAssumption ==
    /\ Requests \subseteq Conns /\ NoName \notin Names /\ CertNames \subseteq Names
    /\ Len(CertPaths) \in Nat /\ MaxEditsOfSession \in Nat
    /\ \A j \in 1..Len(CertPaths) : BaseName[CertPaths[j]] \in CertNames
    /\ Unreadable \notin Tars
    /\ \A t \in Tars : /\ t.wanted \subseteq Names
                       /\ t.entries \in Seq([name : Names, regular : BOOLEAN, text : Dockerfiles])

VARIABLES
    at,       \* the place of each connection's handler
    tar,      \* the context of a build
    path,     \* dockerfilePath
    next,     \* the certificate it reads next
    rebuilt,  \* the tar it forwards: what stands in the place of each entry
    extra,    \* and the certificates appended to it
    served    \* Dockerfiles a session has had edited

buildVars == <<at, tar, path, next, rebuilt, extra, served>>
vars == <<envVars, editVars, fwdVars, buildVars>>

Init ==
    /\ EnvInit /\ EditInit /\ FwdInit
    /\ at = [c \in Conns |-> "peek"]
    /\ tar = [c \in Conns |-> Unreadable]
    /\ path = [c \in Conns |-> NoName]
    /\ next = [c \in Conns |-> 1]
    /\ rebuilt = [c \in Conns |-> << >>]
    /\ extra = [c \in Conns |-> {}]
    /\ served = [c \in Conns |-> 0]

Goes(c, from, to) == at[c] = from /\ at' = [at EXCEPT ![c] = to]
Locals == <<tar, path, next, rebuilt, extra, served>>

-----------------------------------------------------------------------------
(* ServeConn.                                                              *)

\* An h2c upgrade (but /session: module SessionSplice), answered once the
\* daemon is reached.
OpenSession(c) ==
    /\ c \in Requests /\ Goes(c, "peek", "snapshot")
    /\ UNCHANGED <<envVars, editVars, fwdVars, Locals>>

\* Every other request, an h2c upgrade for which the daemon was not reached,
\* and whatever is not HTTP/1.1.
Pass(c) ==
    /\ Goes(c, "peek", "pass")
    /\ UNCHANGED <<envVars, editVars, fwdVars, Locals>>

\* The last regular entry with one of the names wanted.
Found(t) == {i \in DOMAIN t.entries : t.entries[i].regular /\ t.entries[i].name \in t.wanted}
Dockerfile(t) == CHOOSE i \in Found(t) : \A j \in Found(t) : j <= i

HasDockerfile(t) ==
    t # Unreadable /\ Found(t) # {} /\ t.entries[Dockerfile(t)].text # << >>

\* handleBuildConn and ExtractDockerfile.
ReceiveBuild(c, t) ==
    /\ c \in Requests
    /\ Goes(c, "peek", IF HasDockerfile(t) THEN "rules" ELSE "forward")
    /\ IF HasDockerfile(t)
       THEN /\ tar' = [tar EXCEPT ![c] = t]
            /\ path' = [path EXCEPT ![c] = t.entries[Dockerfile(t)].name]
       ELSE UNCHANGED <<tar, path>>
    /\ UNCHANGED <<envVars, editVars, fwdVars, next, rebuilt, extra, served>>

-----------------------------------------------------------------------------
(* The rules and the certificates.                                         *)

IsSession(c) == tar[c] = Unreadable

Take(c) ==
    /\ Goes(c, IF IsSession(c) THEN "snapshot" ELSE "rules", "expand")
    /\ TakeRules(c)
    /\ UNCHANGED <<editVars, fwdVars, Locals>>

ExpandStep(c) ==
    /\ at[c] = "expand" /\ Expand(c)
    /\ UNCHANGED <<editVars, fwdVars, buildVars>>

\* loadCertFilesForTar.
ReadCert(c) ==
    LET n == BaseName[CertPaths[next[c]]] IN
    /\ at[c] = "expand" /\ phase[c] = "ready" /\ next[c] <= Len(CertPaths)
    /\ next' = [next EXCEPT ![c] = @ + 1]
    /\ \/ \E pem \in Pems : certFiles' = [certFiles EXCEPT ![c][n] = pem]
       \/ UNCHANGED certFiles
    /\ UNCHANGED <<envVars, fwdVars, at, tar, path, rebuilt, extra, served>>
    /\ UNCHANGED <<editing, content, line, result, injectedAfterBase, injectedCerts, pending,
                   inline>>

Ready(c) == at[c] = "expand" /\ phase[c] = "ready" /\ next[c] > Len(CertPaths)

-----------------------------------------------------------------------------
(* The edit, of a build's Dockerfile or of one that passes in a session.   *)

\* A session edits one message at a time here; its streams only read what
\* snapshot has made.
StartEdit(c) ==
    /\ Ready(c) /\ served[c] < (IF IsSession(c) THEN MaxEditsOfSession ELSE 1)
    /\ StartRange(c)
    /\ Goes(c, "expand", "gather")
    /\ served' = [served EXCEPT ![c] = @ + 1]
    /\ Called(c)
    /\ UNCHANGED <<fwdVars, tar, path, next, rebuilt, extra>>

Text(c) == tar[c].entries[Dockerfile(tar[c])].text

Gathered(c) ==
    /\ Goes(c, "gather", "lines") /\ EndRange(c)
    /\ IF IsSession(c) THEN \E t \in Dockerfiles \ {<< >>} : Begin(c, t, TRUE)
       ELSE Begin(c, Text(c), FALSE)
    /\ UNCHANGED <<fwdVars, Locals>>

LineStep(c) ==
    /\ at[c] = "lines" /\ EditLine(c)
    /\ UNCHANGED <<envVars, fwdVars, buildVars>>

SessionEdited(c) ==
    /\ IsSession(c) /\ Goes(c, "lines", "expand") /\ EditEnd(c)
    /\ UNCHANGED <<envVars, fwdVars, Locals>>

-----------------------------------------------------------------------------
(* RebuildTar.                                                             *)

\* Bug: a file of the context with a certificate's name stays.
RebuiltKept(c, i) ==
    IF tar[c].entries[i].name = path[c] /\ tar[c].entries[i].regular THEN "edited" ELSE "client"

\* What stands in the place of the i-th entry: the header names it, and only
\* a regular file has content.
Rebuilt(c, i) ==
    LET e == tar[c].entries[i]
        earlier == \E j \in 1..i - 1 : tar[c].entries[j].name = e.name
    IN  IF e.name = path[c] THEN IF e.regular THEN "edited" ELSE "client"
        ELSE IF e.name \in Named(certFiles[c]) /\ ~earlier /\ e.regular THEN "cert"
        ELSE "client"

Remaining(c) == {n \in Named(certFiles[c]) :
                   n = path[c] \/ \A i \in DOMAIN tar[c].entries : tar[c].entries[i].name # n}

BuildEdited(c) ==
    /\ ~IsSession(c) /\ Goes(c, "lines", "forward") /\ EditEnd(c)
    /\ rebuilt' = [rebuilt EXCEPT ![c] = [i \in DOMAIN tar[c].entries |-> Rebuilt(c, i)]]
    /\ extra' = [extra EXCEPT ![c] = Remaining(c)]
    /\ UNCHANGED <<envVars, fwdVars, tar, path, next, served>>

-----------------------------------------------------------------------------
(* The end of it.                                                          *)

\* Of the handlers of S, now at a place p, the locals are gone.
Blanked(S, p) ==
    LET Blank(f, v) == [c \in Conns |-> IF c \in S THEN v ELSE f[c]] IN
    /\ at' = Blank(at, p) /\ tar' = Blank(tar, Unreadable) /\ path' = Blank(path, NoName)
    /\ next' = Blank(next, 1) /\ rebuilt' = Blank(rebuilt, << >>) /\ extra' = Blank(extra, {})
    /\ served' = Blank(served, 0)
    /\ EditForgotten(S)

EndRequest(c, p) == Blanked({c}, p) /\ Return(c)

\* forwardHTTPConn is given the body; nothing else is used any more.
ForwardBuild(c) ==
    /\ at[c] = "forward" /\ EndRequest(c, "pass")
    /\ Dial(c, "request") \/ DialFails(c)

Forward(c) ==
    /\ at[c] = "pass" /\ ((\E w \in Ways : Dial(c, w)) \/ DialFails(c) \/ Handler(c))
    /\ UNCHANGED <<envVars, editVars, buildVars>>

Copy(c) == Copier(c) /\ UNCHANGED <<envVars, editVars, buildVars>>
Peer(c) == Peers(c) /\ UNCHANGED <<envVars, editVars, buildVars>>

\* Handler and goroutine have ended.
Finish(c) ==
    /\ fwd[c] = "returned" /\ copier[c] # "copy" /\ Gone({c})
    /\ Goes(c, "pass", "done")
    /\ UNCHANGED <<envVars, editVars, Locals>>

CloseSession(c) ==
    /\ at[c] = "snapshot" \/ (IsSession(c) /\ Ready(c))
    /\ EndRequest(c, "done") /\ Gone({c})

\* Two requests at one map: the process dies, and with it every connection
\* it has accepted.
Crash ==
    LET S == {c \in Conns : at[c] # "peek"} IN Fault /\ Gone(S) /\ Blanked(S, "done")

World == (LoadConfig \/ EditFile) /\ UNCHANGED <<editVars, fwdVars, buildVars>>

Serve(c) ==
    \/ Take(c) \/ ExpandStep(c) \/ ReadCert(c)
    \/ StartEdit(c) \/ Gathered(c) \/ LineStep(c) \/ SessionEdited(c) \/ BuildEdited(c)
    \/ ForwardBuild(c) \/ Forward(c) \/ Finish(c)

Arrive(c) == OpenSession(c) \/ Pass(c) \/ \E t \in Tars \cup {Unreadable} : ReceiveBuild(c, t)

Next ==
    \/ \E c \in Conns : Arrive(c) \/ Serve(c) \/ CloseSession(c) \/ Copy(c) \/ Peer(c)
    \/ Crash \/ World

\* Some goroutine that can run does, the daemon answers what it is asked and
\* takes what it is sent, and the client what it is answered.  Go's scheduler
\* promises more, that every goroutine that can run does; this is enough here.
Proxy == \E c \in Conns : Serve(c) \/ Copy(c)
Fairness == WF_vars(Proxy)

Spec == Init /\ [][Next]_vars /\ Fairness

-----------------------------------------------------------------------------
(* Properties.                                                             *)

TypeOK ==
    /\ EnvTypeOK /\ EditTypeOK /\ FwdTypeOK
    /\ at \in [Conns -> {"peek", "snapshot", "rules", "expand", "gather", "lines", "forward",
                         "pass", "done"}]
    /\ tar \in [Conns -> Tars \cup {Unreadable}]
    /\ path \in [Conns -> Names \cup {NoName}]
    /\ next \in [Conns -> 1..Len(CertPaths) + 1]
    /\ rebuilt \in [Conns -> Seq({"client", "edited", "cert"})]
    /\ extra \in [Conns -> SUBSET CertNames]
    /\ served \in [Conns -> Nat]

\* Of several entries of one name the last counts when a tar is unpacked.
Unpacked(c, n, what) ==
    \/ n \in extra[c] /\ what = "cert"
    \/ /\ n \notin extra[c]
       /\ \E i \in DOMAIN rebuilt[c] :
            /\ tar[c].entries[i].name = n /\ rebuilt[c][i] = what
            /\ \A j \in DOMAIN rebuilt[c] : tar[c].entries[j].name = n => j <= i

\* A context of regular files, in which the certificates' names occur once at
\* most and are not the Dockerfile's.
PlainContext(c) ==
    LET e == tar[c].entries
        names == Named(certFiles[c])
    IN  /\ \A i \in DOMAIN e : e[i].regular
        /\ \A i, j \in DOMAIN e : e[i].name = e[j].name /\ e[i].name \in names => i = j
        /\ path[c] \notin names

(* "the COPY source, which the caller must place in the context tar"       *)
(* (dockerfile.go:80-82): where the tar is unpacked the Dockerfile is the  *)
(* edited one, and every certificate it copies is there, as it was read    *)
(* and not as the client has one of that name.  PlainContext says what it  *)
(* takes: a directory or link with the name of a certificate swallows it,  *)
(* a second file of its name overwrites it, as RebuildTar replaces the     *)
(* first alone (tarutil.go:78-81; against tarutil.go:67), and one with the *)
(* Dockerfile's name overwrites that.                                      *)
CopySourcesSent ==
    \A c \in Conns : at[c] = "forward" /\ path[c] # NoName /\ PlainContext(c) =>
        /\ Unpacked(c, path[c], "edited")
        /\ \A j \in DOMAIN result[c] : result[c][j] \in Blocks =>
             \A n \in result[c][j].certs : Unpacked(c, n, "cert")

(* Every build is answered, or its connection closed: whatever fails,      *)
(* whoever merges the same rules, and also when the process dies.          *)
BuildsEnd == \A c \in Requests : at[c] = "rules" ~> at[c] = "done"

=============================================================================
