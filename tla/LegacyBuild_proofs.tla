-------------------------- MODULE LegacyBuild_proofs --------------------------
(***************************************************************************)
(* Proofs about LegacyBuild, for any connections, rules, Dockerfiles and   *)
(* contexts.                                                               *)
(*                                                                         *)
(* Seen from its maps, a build is an EnvFiles, and seen from its           *)
(* connections a Forwarding: what was proved of these holds here.  What is *)
(* new is the edit (SoFar says what the loop of modify has written after   *)
(* each line), the tar that is sent on (SentInv), and where the parts of a *)
(* build are while its handler is at each of its places (PlaceInv).        *)
(***************************************************************************)
EXTENDS LegacyBuild, EnvFiles_proofs, Forwarding_proofs, WellFoundedInduction

-----------------------------------------------------------------------------
(* Sequences, and the first and the last of the numbers that have a        *)
(* property.                                                               *)

LEMMA AppendIn ==
    ASSUME NEW X, NEW q \in Seq(X), NEW e \in X
    PROVE  /\ Append(q, e) \in Seq(X)
           /\ Len(Append(q, e)) = Len(q) + 1
           /\ \A i \in 1..Len(q) : Append(q, e)[i] = q[i]
           /\ Append(q, e)[Len(q) + 1] = e
OBVIOUS

LEMMA ConcatIn ==
    ASSUME NEW X, NEW q \in Seq(X), NEW s \in Seq(X)
    PROVE  /\ q \o s \in Seq(X)
           /\ Len(q \o s) = Len(q) + Len(s)
           /\ \A i \in 1..Len(q) : (q \o s)[i] = q[i]
           /\ \A i \in 1..Len(s) : (q \o s)[Len(q) + i] = s[i]
OBVIOUS

LEMMA Regrouped ==
    ASSUME NEW X, NEW q \in Seq(X), NEW s \in Seq(X), NEW t \in Seq(X)
    PROVE  (q \o s) \o t = q \o (s \o t)
OBVIOUS

LEMMA OneIn ==
    ASSUME NEW X, NEW e \in X
    PROVE  <<e>> \in Seq(X) /\ << >> \in Seq(X)
OBVIOUS

LEMMA ElementIn ==
    ASSUME NEW X, NEW q \in Seq(X), NEW i \in DOMAIN q
    PROVE  q[i] \in X
OBVIOUS

LEMMA Least ==
    ASSUME NEW T \in SUBSET Nat, T # {}
    PROVE  \E x \in T : \A y \in T : x <= y
<1> DEFINE R == OpToRel(<, Nat)
<1>1. IsWellFoundedOn(R, Nat)  BY NatLessThanWellFounded
<1>2. \A y, x \in Nat : y < x => <<y, x>> \in R  BY DEF OpToRel
<1> HIDE DEF R
<1>3. \E x \in T : \A y \in T : ~ (<<y, x>> \in R)  BY <1>1, WFMin
<1>4. PICK x \in T : \A y \in T : ~ (<<y, x>> \in R)  BY <1>3
<1>5. ASSUME NEW y \in T PROVE x <= y
  <2>1. ~(y < x)  BY <1>2, <1>4
  <2> QED BY <2>1
<1> QED BY <1>5

LEMMA Greatest ==
    ASSUME NEW n \in Nat, NEW T \in SUBSET (1..n), T # {}
    PROVE  \E x \in T : \A y \in T : y <= x
<1> DEFINE D == {d \in 0..n : n - d \in T}
<1>1. D \in SUBSET Nat  OBVIOUS
<1>2. D # {}
  <2>1. PICK x \in T : TRUE  OBVIOUS
  <2>2. n - x \in 0..n /\ n - (n - x) = x  OBVIOUS
  <2>3. n - x \in D  BY <2>1, <2>2
  <2> QED BY <2>3
<1>3. PICK d \in D : \A e \in D : d <= e  BY <1>1, <1>2, Least
<1>4. n - d \in T /\ d \in Nat  BY <1>3
<1>5. ASSUME NEW y \in T PROVE y <= n - d
  <2>1. y \in 1..n  OBVIOUS
  <2>2. n - y \in 0..n /\ n - (n - y) = y  BY <2>1
  <2>3. n - y \in D  BY <2>2
  <2>4. d <= n - y  BY <1>3, <2>3
  <2> QED BY <1>4, <2>1, <2>4
<1> QED BY <1>4, <1>5

(* What First returns.                                                     *)
LEMMA FirstIs ==
    ASSUME NEW text \in Seq(Lines), NEW kinds
    PROVE  LET x == First(text, kinds) IN
           /\ x \in 0..Len(text)
           /\ x # 0 => text[x].kind \in kinds
           /\ \A j \in 1..Len(text) : (x = 0 \/ j < x) => text[j].kind \notin kinds
<1> DEFINE T == {i \in DOMAIN text : text[i].kind \in kinds}
           Is(i) == /\ text[i].kind \in kinds
                    /\ \A j \in DOMAIN text : j < i => text[j].kind \notin kinds
<1>1. DOMAIN text = 1..Len(text) /\ Len(text) \in Nat  OBVIOUS
<1>2. CASE T = {}
  <2>1. ~ \E i \in DOMAIN text : text[i].kind \in kinds  BY <1>2
  <2>2. First(text, kinds) = 0  BY <2>1 DEF First
  <2> QED BY <1>1, <2>1, <2>2
<1>3. CASE T # {}
  <2>1. T \in SUBSET Nat  BY <1>1
  <2>2. PICK x \in T : \A y \in T : x <= y  BY <1>3, <2>1, Least
  <2>3. \A j \in DOMAIN text : j < x => text[j].kind \notin kinds
    <3> SUFFICES ASSUME NEW j \in DOMAIN text, j < x, text[j].kind \in kinds PROVE FALSE
      OBVIOUS
    <3>1. j \in T  OBVIOUS
    <3>2. x <= j  BY <2>2, <3>1
    <3> QED BY <1>1, <2>1, <2>2, <3>1, <3>2
  <2>4. \E i \in DOMAIN text : Is(i)  BY <2>2, <2>3
  <2>5. First(text, kinds) = CHOOSE i \in DOMAIN text : Is(i)
    BY <1>3 DEF First
  <2>6. First(text, kinds) \in DOMAIN text /\ Is(First(text, kinds))
    <3> HIDE DEF Is
    <3> QED BY <2>4, <2>5
  <2> QED BY <1>1, <2>6
<1> QED BY <1>2, <1>3

-----------------------------------------------------------------------------
(* Where the handlers are.                                                 *)

Places == {"peek", "snapshot", "rules", "expand", "gather", "lines", "forward", "pass", "done"}

(* Only requests get past the first look.                                  *)
AtInv ==
    /\ at \in [Conns -> Places]
    /\ \A c \in Conns : at[c] \notin {"peek", "pass", "done"} => c \in Requests

LEMMA RequestsAreConns == Requests \subseteq Conns
BY BuildAssumption

LEMMA Going ==
    ASSUME AtInv, NEW c \in Conns, NEW from \in Places, NEW to \in Places, Goes(c, from, to),
           to \notin {"peek", "pass", "done"} => c \in Requests
    PROVE  AtInv'
BY DEF AtInv, Goes

LEMMA Blanking ==
    ASSUME AtInv, NEW S \in SUBSET Conns, NEW p \in {"pass", "done"}, Blanked(S, p)
    PROVE  AtInv'
BY DEF AtInv, Blanked, Places

LEMMA AtStep ==
    ASSUME AtInv, [Next]_vars
    PROVE  AtInv'
<1> USE DEF Places
<1>1. ASSUME UNCHANGED at PROVE AtInv'  BY <1>1 DEF AtInv
<1>2. ASSUME NEW c \in Conns, Arrive(c) PROVE AtInv'
  <2>1. CASE OpenSession(c)  BY <2>1, Going DEF OpenSession
  <2>2. CASE Pass(c)  BY <2>2, Going DEF Pass
  <2>3. ASSUME NEW t, ReceiveBuild(c, t) PROVE AtInv'  BY <2>3, Going DEF ReceiveBuild
  <2> QED BY <1>2, <2>1, <2>2, <2>3 DEF Arrive
<1>3. ASSUME NEW c \in Conns, Serve(c) PROVE AtInv'
  <2>1. CASE Take(c)
    <3>1. at[c] \in {"snapshot", "rules"}  BY <2>1 DEF Take, Goes
    <3>2. c \in Requests  BY <3>1 DEF AtInv
    <3> QED BY <2>1, <3>2, Going DEF Take
  <2>2. CASE ExpandStep(c)  BY <1>1, <2>2 DEF ExpandStep, buildVars
  <2>3. CASE ReadCert(c)  BY <1>1, <2>3 DEF ReadCert
  <2>4. CASE StartEdit(c)
    <3>1. c \in Requests  BY <2>4 DEF StartEdit, Goes, AtInv
    <3> QED BY <2>4, <3>1, Going DEF StartEdit
  <2>5. CASE Gathered(c)
    <3>1. c \in Requests  BY <2>5 DEF Gathered, Goes, AtInv
    <3> QED BY <2>5, <3>1, Going DEF Gathered
  <2>6. CASE LineStep(c)  BY <1>1, <2>6 DEF LineStep, buildVars
  <2>7. CASE SessionEdited(c)
    <3>1. c \in Requests  BY <2>7 DEF SessionEdited, Goes, AtInv
    <3> QED BY <2>7, <3>1, Going DEF SessionEdited
  <2>8. CASE BuildEdited(c)
    <3>1. c \in Requests  BY <2>8 DEF BuildEdited, Goes, AtInv
    <3> QED BY <2>8, <3>1, Going DEF BuildEdited
  <2>9. CASE ForwardBuild(c)  BY <2>9, Blanking DEF ForwardBuild, EndRequest
  <2>10. CASE Forward(c)  BY <1>1, <2>10 DEF Forward, buildVars
  <2>11. CASE Finish(c)  BY <2>11, Going DEF Finish
  <2> QED BY <1>3, <2>1, <2>2, <2>3, <2>4, <2>5, <2>6, <2>7, <2>8, <2>9, <2>10, <2>11 DEF Serve
<1>4. ASSUME NEW c \in Conns, CloseSession(c) PROVE AtInv'
  BY <1>4, Blanking DEF CloseSession, EndRequest
<1>5. ASSUME NEW c \in Conns, Copy(c) \/ Peer(c) PROVE AtInv'
  BY <1>1, <1>5 DEF Copy, Peer, buildVars
<1>6. CASE Crash
  <2>1. {c \in Conns : at[c] # "peek"} \in SUBSET Conns  OBVIOUS
  <2> DEFINE S == {c \in Conns : at[c] # "peek"}
  <2>2. Blanked(S, "done")  BY <1>6 DEF Crash
  <2> QED BY <2>1, <2>2, Blanking
<1>7. CASE World  BY <1>1, <1>7 DEF World, buildVars
<1>8. CASE UNCHANGED vars  BY <1>1, <1>8 DEF vars, buildVars
<1> QED BY <1>2, <1>3, <1>4, <1>5, <1>6, <1>7, <1>8 DEF Next

LEMMA AtInit == Init => AtInv
BY DEF Init, AtInv, Places

LEMMA AtCorrect == Spec => []AtInv
<1>1. AtInv /\ [Next]_vars => AtInv'  BY AtStep
<1> QED BY <1>1, AtInit, PTL DEF Spec

-----------------------------------------------------------------------------
(* A step of a build is a step of each of its parts, or none.              *)

LEMMA EnvProjection ==
    ASSUME AtInv, [Next]_vars
    PROVE  [EnvNext]_envVars
<1>1. ASSUME NEW c \in Conns, Arrive(c) PROVE UNCHANGED envVars
  BY <1>1 DEF Arrive, OpenSession, Pass, ReceiveBuild
<1>2. ASSUME NEW c \in Conns, Serve(c) \/ CloseSession(c) PROVE [EnvNext]_envVars
  <2>1. CASE Take(c) \/ ExpandStep(c) \/ StartEdit(c) \/ Gathered(c) \/ ForwardBuild(c)
             \/ CloseSession(c)
    <3>1. at[c] \notin {"peek", "pass", "done"}
      BY <2>1 DEF Take, ExpandStep, StartEdit, Gathered, ForwardBuild, CloseSession, Goes, Ready
    <3>2. c \in Requests  BY <3>1 DEF AtInv
    <3>3. TakeRules(c) \/ Expand(c) \/ StartRange(c) \/ EndRange(c) \/ Return(c)
      BY <2>1 DEF Take, ExpandStep, StartEdit, Gathered, ForwardBuild, CloseSession, EndRequest
    <3> QED BY <3>2, <3>3 DEF EnvNext
  <2>2. CASE ReadCert(c) \/ LineStep(c) \/ SessionEdited(c) \/ BuildEdited(c) \/ Forward(c)
             \/ Finish(c)
    BY <2>2 DEF ReadCert, LineStep, SessionEdited, BuildEdited, Forward, Finish
  <2> QED BY <1>2, <2>1, <2>2 DEF Serve
<1>3. ASSUME NEW c \in Conns, Copy(c) \/ Peer(c) PROVE UNCHANGED envVars
  BY <1>3 DEF Copy, Peer
<1>4. CASE Crash  BY <1>4 DEF Crash, EnvNext
<1>5. CASE World  BY <1>5 DEF World, EnvNext
<1>6. CASE UNCHANGED vars  BY <1>6 DEF vars
<1> QED BY <1>1, <1>2, <1>3, <1>4, <1>5, <1>6 DEF Next

LEMMA FwdProjection ==
    ASSUME [Next]_vars
    PROVE  [FwdNext]_fwdVars
<1> USE DEF FwdNext
<1>1. ASSUME NEW c \in Conns, Arrive(c) PROVE UNCHANGED fwdVars
  BY <1>1 DEF Arrive, OpenSession, Pass, ReceiveBuild
<1>2. ASSUME NEW c \in Conns, Serve(c) PROVE [FwdNext]_fwdVars
  <2>1. CASE ForwardBuild(c)
    <3>1. "request" \in Ways  BY DEF Ways
    <3> QED BY <2>1, <3>1 DEF ForwardBuild
  <2>2. CASE Forward(c)  BY <2>2 DEF Forward
  <2>3. CASE Finish(c)
    <3>1. {c} \in SUBSET Conns  OBVIOUS
    <3> QED BY <2>3, <3>1 DEF Finish
  <2> QED BY <1>2, <2>1, <2>2, <2>3
    DEF Serve, Take, ExpandStep, ReadCert, StartEdit, Gathered, LineStep, SessionEdited,
        BuildEdited
<1>3. ASSUME NEW c \in Conns, CloseSession(c) PROVE FwdNext
  <2>1. {c} \in SUBSET Conns  OBVIOUS
  <2> QED BY <1>3, <2>1 DEF CloseSession
<1>4. ASSUME NEW c \in Conns, Copy(c) \/ Peer(c) PROVE FwdNext
  BY <1>4 DEF Copy, Peer
<1>5. CASE Crash
  <2>1. {c \in Conns : at[c] # "peek"} \in SUBSET Conns  OBVIOUS
  <2> QED BY <1>5, <2>1 DEF Crash
<1>6. CASE World  BY <1>6 DEF World
<1>7. CASE UNCHANGED vars  BY <1>7 DEF vars
<1> QED BY <1>1, <1>2, <1>3, <1>4, <1>5, <1>6, <1>7 DEF Next

(* Builds and sessions expand their rules as EnvFiles says.                *)
THEOREM BuildsExpand == Spec => EnvSpec
<1>1. Init => EnvInit  BY DEF Init
<1>2. AtInv /\ [Next]_vars => [EnvNext]_envVars  BY EnvProjection
<1> QED BY <1>1, <1>2, AtCorrect, PTL DEF Spec, EnvSpec

(* Every connection is forwarded as Forwarding says.                       *)
THEOREM BuildsForward == Spec => FwdSpec
<1>1. Init => FwdInit  BY DEF Init
<1>2. [Next]_vars => [FwdNext]_fwdVars  BY FwdProjection
<1> QED BY <1>1, <1>2, PTL DEF Spec, FwdSpec

(* The expansions of any number of builds and sessions at once keep inline *)
(* entries and miss no key of a file.                                      *)
THEOREM RulesCorrect == Spec => [](ExpandedAsDocumented /\ FirstExpansionSettles)
BY BuildsExpand, ExpansionCorrect, SettlingCorrect, PTL

(* Reloads and other requests do not change the rules of a session.        *)
THEOREM SessionRulesStable == Spec => SnapshotStable
BY BuildsExpand, SnapshotCorrect, PTL

(* No tunnel is closed under a client that is still there before it has    *)
(* what the daemon sent.                                                   *)
THEOREM TunnelsWhole == Spec => []TunnelWhole
BY BuildsForward, TunnelCorrect, PTL

-----------------------------------------------------------------------------
(* Types.  A block of a result copies no certificate but those read, and   *)
(* nothing is written before all have been tried.                          *)

BuildTypeOK ==
    /\ at \in [Conns -> Places]
    /\ tar \in [Conns -> Tars \cup {Unreadable}]
    /\ path \in [Conns -> Names \cup {NoName}]
    /\ next \in [Conns -> 1..Len(CertPaths) + 1]
    /\ rebuilt \in [Conns -> Seq({"client", "edited", "cert"})]
    /\ extra \in [Conns -> SUBSET CertNames]
    /\ served \in [Conns -> Nat]

(* A tar is kept if it has a Dockerfile, whose name is then known; the      *)
(* certificates have been tried before an edit begins.                     *)
TarInv ==
    \A c \in Conns :
      /\ tar[c] # Unreadable => /\ HasDockerfile(tar[c])
                                /\ path[c] = tar[c].entries[Dockerfile(tar[c])].name
      /\ at[c] = "peek" => path[c] = NoName
      /\ at[c] \in {"gather", "lines"} => next[c] > Len(CertPaths)

OwnPieces(r) ==
    [at : Nat, line : {Replaced(l) : l \in Lines}]
    \cup {b \in Blocks : b.certs \subseteq Named(certFiles[r])}

ResultInv(r) ==
    /\ result[r] \in Seq(OwnPieces(r))
    /\ next[r] <= Len(CertPaths) => result[r] = << >>

ResultsInv == \A r \in Requests : ResultInv(r)

LEMMA DockerfileFound ==
    ASSUME NEW t \in Tars, HasDockerfile(t)
    PROVE  /\ t.entries \in Seq([name : Names, regular : BOOLEAN, text : Dockerfiles])
           /\ Dockerfile(t) \in Found(t) /\ Dockerfile(t) \in DOMAIN t.entries
           /\ t.entries[Dockerfile(t)].name \in Names
           /\ t.entries[Dockerfile(t)].text \in Dockerfiles
<1>1. t.entries \in Seq([name : Names, regular : BOOLEAN, text : Dockerfiles])
  BY BuildAssumption
<1>2. Len(t.entries) \in Nat /\ DOMAIN t.entries = 1..Len(t.entries)  BY <1>1
<1>3. Found(t) \in SUBSET (1..Len(t.entries)) /\ Found(t) # {}
  BY <1>2 DEF Found, HasDockerfile
<1> DEFINE IsLast(i) == \A j \in Found(t) : j <= i
<1>4. \E i \in Found(t) : IsLast(i)  BY <1>2, <1>3, Greatest
<1>5. Dockerfile(t) = CHOOSE i \in Found(t) : IsLast(i)  BY DEF Dockerfile
<1>6. Dockerfile(t) \in Found(t)
  <2> HIDE DEF IsLast
  <2> QED BY <1>4, <1>5
<1>7. t.entries[Dockerfile(t)] \in [name : Names, regular : BOOLEAN, text : Dockerfiles]
  <2>1. Dockerfile(t) \in DOMAIN t.entries  BY <1>2, <1>3, <1>6
  <2> QED BY <1>1, <2>1, ElementIn
<1> QED BY <1>1, <1>2, <1>3, <1>6, <1>7

LEMMA CertFacts ==
    /\ Len(CertPaths) \in Nat
    /\ \A j \in 1..Len(CertPaths) : BaseName[CertPaths[j]] \in CertNames
BY BuildAssumption

LEMMA BlockTypes ==
    ASSUME EnvTypeOK, EditTypeOK, NEW r \in Requests, NEW ctx \in Contexts
    PROVE  /\ AfterBase(r) \in Seq(OwnPieces(r)) /\ Certs(r, ctx) \in Seq(OwnPieces(r))
           /\ BeforeEntrypoint(r, ctx) \in Seq(OwnPieces(r))
<1> DEFINE X == OwnPieces(r)
<1>1. lines[r] \in [Rules -> Env] /\ Empty \in Env
  BY RulesFacts DEF EnvTypeOK
<1>2. ASSUME NEW what \in {"after_base", "before_entrypoint", "certs", "ca_env"}, NEW rules,
             NEW x \in Contexts
      PROVE  Block(r, what, rules, x) \in X /\ Block(r, what, rules, x) \in Blocks
  <2>1. Block(r, what, rules, x) \in Blocks  BY <1>1 DEF Block, Blocks
  <2>2. Block(r, what, rules, x).certs = {}  BY DEF Block
  <2> QED BY <2>1, <2>2 DEF OwnPieces
<1>3. CertBlock(r) \in X
  <2>1. Named(certFiles[r]) \in SUBSET CertNames  BY DEF Named
  <2>2. "raw" \in Contexts  BY DEF Contexts
  <2>3. Block(r, "certs", {}, "raw") \in Blocks  BY <1>2, <2>2
  <2>4. CertBlock(r) \in Blocks /\ CertBlock(r).certs = Named(certFiles[r])
    BY <2>1, <2>3 DEF CertBlock, Blocks
  <2> QED BY <2>4 DEF OwnPieces
<1> HIDE DEF X
<1>4. ASSUME NEW position \in {"after_base", "before_entrypoint"}, NEW x \in Contexts
      PROVE  Runs(r, position, x) \in Seq(X)
  BY <1>2, <1>4, OneIn DEF Runs
<1>5. ASSUME NEW x \in Contexts PROVE Certs(r, x) \in Seq(X)
  <2>1. InlineLines(r) \in Seq(X) /\ CopyLines(r) \in Seq(X)
    BY <1>3, OneIn DEF InlineLines, CopyLines
  <2>2. <<Block(r, "ca_env", CaRules, x)>> \in Seq(X) /\ << >> \in Seq(X)
    BY <1>2, <1>5, OneIn
  <2> QED BY <2>1, <2>2, ConcatIn DEF Certs
<1>6. "paths" \in Contexts  BY DEF Contexts
<1>7. AfterBase(r) \in Seq(X)
  <2>1. Runs(r, "after_base", "paths") \in Seq(X)  BY <1>4, <1>6
  <2>2. Certs(r, "paths") \in Seq(X)  BY <1>5, <1>6
  <2> QED BY <2>1, <2>2, ConcatIn DEF AfterBase
<1>8. BeforeEntrypoint(r, ctx) \in Seq(X)  BY <1>4 DEF BeforeEntrypoint
<1> QED BY <1>5, <1>7, <1>8 DEF X

LEMMA ClientTypes ==
    ASSUME EditTypeOK, NEW r \in Requests, NEW i \in 1..Len(content[r])
    PROVE  Client(r, i) \in OwnPieces(r) /\ content[r][i] \in Lines
<1>1. content[r] \in Seq(Lines)  BY EditAssumption DEF EditTypeOK
<1>2. content[r][i] \in Lines /\ i \in Nat  BY <1>1
<1> QED BY <1>2 DEF Client, OwnPieces

LEMMA OwnInPieces ==
    ASSUME NEW r \in Requests, NEW q \in Seq(OwnPieces(r))
    PROVE  q \in Seq(Pieces)
<1>1. OwnPieces(r) \subseteq Pieces  BY DEF OwnPieces, Pieces
<1>2. Len(q) \in Nat /\ q \in [1..Len(q) -> OwnPieces(r)]  OBVIOUS
<1>3. q \in [1..Len(q) -> Pieces]  BY <1>1, <1>2
<1> QED BY <1>2, <1>3

BuildInv == EditTypeOK /\ BuildTypeOK /\ TarInv /\ ResultsInv

LEMMA BuildInvInit == Init => BuildInv
<1> SUFFICES ASSUME Init PROVE BuildInv  OBVIOUS
<1>1. EditTypeOK
  <2>1. NoCerts \in CertFiles  BY DEF NoCerts, CertFiles
  <2> QED BY <2>1, EditAssumption DEF Init, EditInit, EditTypeOK
<1>2. BuildTypeOK  BY CertFacts DEF Init, BuildTypeOK, Places
<1>3. TarInv  BY DEF Init, TarInv
<1>4. ASSUME NEW r \in Requests PROVE ResultInv(r)
  <2>1. result[r] = << >>  BY DEF Init, EditInit
  <2> QED BY <2>1 DEF ResultInv
<1> QED BY <1>1, <1>2, <1>3, <1>4 DEF BuildInv, ResultsInv

LEMMA NothingEdited ==
    ASSUME BuildInv, UNCHANGED <<editVars, buildVars>>
    PROVE  BuildInv'
<1> USE DEF BuildInv, editVars, buildVars
<1>1. EditTypeOK'  BY DEF EditTypeOK
<1>2. BuildTypeOK'  BY DEF BuildTypeOK
<1>3. TarInv'  BY DEF TarInv
<1>4. ResultsInv'  BY DEF ResultsInv, ResultInv, OwnPieces
<1> QED BY <1>1, <1>2, <1>3, <1>4

(* Little more than the place of a handler changes.                        *)
LEMMA MovedTypes ==
    ASSUME BuildInv, NEW c \in Conns, NEW from \in Places, NEW to \in Places,
           Goes(c, from, to), to # "peek",
           to \in {"gather", "lines"} => next[c] > Len(CertPaths),
           UNCHANGED <<content, line, result, injectedAfterBase, injectedCerts, pending, inline,
                       certFiles, tar, path, next, rebuilt, extra>>,
           editing' \in [Requests -> {"none", "lines", "done"}], served' \in [Conns -> Nat]
    PROVE  BuildInv'
<1> USE DEF BuildInv, Goes
<1>1. EditTypeOK'  BY DEF EditTypeOK
<1>2. BuildTypeOK'  BY DEF BuildTypeOK
<1>3. TarInv'  BY DEF TarInv, BuildTypeOK
<1>4. ResultsInv'  BY DEF ResultsInv, ResultInv, OwnPieces
<1> QED BY <1>1, <1>2, <1>3, <1>4

LEMMA ReceiveTypes ==
    ASSUME BuildInv, NEW c \in Conns, NEW t \in Tars \cup {Unreadable}, ReceiveBuild(c, t)
    PROVE  BuildInv'
<1> DEFINE to == IF HasDockerfile(t) THEN "rules" ELSE "forward"
<1>1. Goes(c, "peek", to) /\ UNCHANGED <<editVars, next, rebuilt, extra, served>>
  BY DEF ReceiveBuild
<1>2. to \in Places \ {"gather", "lines", "peek"}  BY DEF Places
<1>3. CASE ~HasDockerfile(t)
  <2>1. UNCHANGED <<tar, path>>  BY <1>3 DEF ReceiveBuild
  <2>2. served \in [Conns -> Nat] /\ editing \in [Requests -> {"none", "lines", "done"}]
    BY DEF BuildInv, BuildTypeOK, EditTypeOK
  <2>3. "peek" \in Places  BY DEF Places
  <2> HIDE DEF to
  <2> QED BY <1>1, <1>2, <2>1, <2>2, <2>3, MovedTypes DEF editVars
<1>4. CASE HasDockerfile(t)
  <2> DEFINE name == t.entries[Dockerfile(t)].name
  <2>1. t \in Tars /\ t # Unreadable  BY <1>4 DEF HasDockerfile
  <2>2. name \in Names  BY <1>4, <2>1, DockerfileFound
  <2>3. tar' = [tar EXCEPT ![c] = t] /\ path' = [path EXCEPT ![c] = name]
    BY <1>4 DEF ReceiveBuild
  <2>4. at' = [at EXCEPT ![c] = "rules"]  BY <1>1, <1>4 DEF Goes
  <2> HIDE DEF name, to
  <2>5. EditTypeOK'  BY <1>1 DEF BuildInv, EditTypeOK, editVars
  <2>6. BuildTypeOK'
    <3>1. at' \in [Conns -> Places]  BY <2>4 DEF BuildInv, BuildTypeOK, Places
    <3>2. /\ tar' \in [Conns -> Tars \cup {Unreadable}]
          /\ path' \in [Conns -> Names \cup {NoName}]
      BY <2>1, <2>2, <2>3 DEF BuildInv, BuildTypeOK
    <3> QED BY <1>1, <3>1, <3>2 DEF BuildInv, BuildTypeOK
  <2>7. TarInv'
    <3> SUFFICES ASSUME NEW d \in Conns
                 PROVE  /\ tar'[d] # Unreadable =>
                              /\ HasDockerfile(tar'[d])
                              /\ path'[d] = tar'[d].entries[Dockerfile(tar'[d])].name
                        /\ at'[d] = "peek" => path'[d] = NoName
                        /\ at'[d] \in {"gather", "lines"} => next'[d] > Len(CertPaths)
      BY DEF TarInv
    <3>1. CASE d = c
      <4>1. tar'[d] = t /\ path'[d] = name /\ at'[d] = "rules"
        BY <2>3, <2>4, <3>1 DEF BuildInv, BuildTypeOK
      <4> QED BY <1>4, <4>1 DEF name
    <3>2. CASE d # c
      <4>1. tar'[d] = tar[d] /\ path'[d] = path[d] /\ at'[d] = at[d] /\ next'[d] = next[d]
        BY <1>1, <2>3, <2>4, <3>2 DEF BuildInv, BuildTypeOK
      <4> QED BY <4>1 DEF BuildInv, TarInv
    <3> QED BY <3>1, <3>2
  <2>8. ResultsInv'  BY <1>1 DEF BuildInv, ResultsInv, ResultInv, OwnPieces, editVars
  <2> QED BY <2>5, <2>6, <2>7, <2>8 DEF BuildInv
<1> QED BY <1>3, <1>4

LEMMA ReadCertTypes ==
    ASSUME BuildInv, NEW c \in Requests, ReadCert(c)
    PROVE  BuildInv'
<1> USE RequestsAreConns, CertFacts
<1> DEFINE n == BaseName[CertPaths[next[c]]]
<1>1. /\ next[c] \in 1..Len(CertPaths) /\ n \in CertNames
      /\ next' = [next EXCEPT ![c] = @ + 1]
      /\ UNCHANGED <<editing, content, line, result, injectedAfterBase, injectedCerts,
                     pending, inline>>
      /\ UNCHANGED <<at, tar, path, rebuilt, extra, served>>
  BY DEF BuildInv, BuildTypeOK, ReadCert
<1>2. /\ certFiles' \in [Requests -> CertFiles]
      /\ \A r \in Requests \ {c} : certFiles'[r] = certFiles[r]
  <2>1. CASE UNCHANGED certFiles  BY <2>1 DEF BuildInv, EditTypeOK
  <2>2. ASSUME NEW pem \in Pems, certFiles' = [certFiles EXCEPT ![c][n] = pem]
        PROVE  /\ certFiles' \in [Requests -> CertFiles]
               /\ \A r \in Requests \ {c} : certFiles'[r] = certFiles[r]
    <3>1. certFiles \in [Requests -> CertFiles]  BY DEF BuildInv, EditTypeOK
    <3>2. [certFiles[c] EXCEPT ![n] = pem] \in CertFiles  BY <1>1, <3>1 DEF CertFiles
    <3> QED BY <2>2, <3>1, <3>2
  <2> QED BY <2>1, <2>2 DEF ReadCert
<1>3. EditTypeOK'  BY <1>1, <1>2 DEF BuildInv, EditTypeOK
<1>4. BuildTypeOK'
  <2>1. next[c] + 1 \in 1..Len(CertPaths) + 1  BY <1>1
  <2>2. next' \in [Conns -> 1..Len(CertPaths) + 1]  BY <1>1, <2>1 DEF BuildInv, BuildTypeOK
  <2> QED BY <1>1, <2>2 DEF BuildInv, BuildTypeOK
<1>5. TarInv'
  <2>1. at[c] = "expand"  BY DEF ReadCert
  <2>2. \A d \in Conns \ {c} : next'[d] = next[d]  BY <1>1 DEF BuildInv, BuildTypeOK
  <2> QED BY <1>1, <2>1, <2>2 DEF BuildInv, TarInv
<1>6. ResultsInv'
  <2> SUFFICES ASSUME NEW r \in Requests PROVE ResultInv(r)'  BY DEF ResultsInv
  <2>1. ResultInv(r) /\ result'[r] = result[r]  BY <1>1 DEF BuildInv, ResultsInv
  <2>2. CASE r = c
    <3>1. result'[r] = << >>  BY <1>1, <2>1, <2>2 DEF ResultInv
    <3> QED BY <3>1 DEF ResultInv
  <2>3. CASE r # c
    <3>1. next'[r] = next[r]  BY <1>1, <2>3 DEF BuildInv, BuildTypeOK
    <3>2. certFiles'[r] = certFiles[r]  BY <1>2, <2>3
    <3> QED BY <2>1, <3>1, <3>2 DEF ResultInv, OwnPieces
  <2> QED BY <2>2, <2>3
<1> QED BY <1>3, <1>4, <1>5, <1>6 DEF BuildInv

LEMMA StartTypes ==
    ASSUME BuildInv, NEW c \in Requests, StartEdit(c)
    PROVE  BuildInv'
<1>1. c \in Conns /\ "expand" \in Places /\ "gather" \in Places /\ next[c] > Len(CertPaths)
  BY RequestsAreConns DEF Places, StartEdit, Ready
<1>2. editing' \in [Requests -> {"none", "lines", "done"}]
  BY DEF BuildInv, EditTypeOK, StartEdit, Called
<1>3. served' \in [Conns -> Nat]  BY <1>1 DEF BuildInv, BuildTypeOK, StartEdit
<1> QED BY <1>1, <1>2, <1>3, MovedTypes DEF StartEdit, Called

LEMMA ResultWritten ==
    ASSUME BuildInv, NEW c \in Requests, NEW q \in Seq(OwnPieces(c)),
           result' = [result EXCEPT ![c] = q], UNCHANGED <<certFiles, next>>,
           next[c] > Len(CertPaths)
    PROVE  ResultsInv' /\ result' \in [Requests -> Seq(Pieces)]
<1> USE DEF BuildInv
<1>1. next[c] \in Nat /\ Len(CertPaths) \in Nat
  BY RequestsAreConns, CertFacts DEF BuildTypeOK
<1>2. ASSUME NEW r \in Requests PROVE ResultInv(r)'
  <2>1. ResultInv(r) /\ result \in [Requests -> Seq(Pieces)]  BY DEF ResultsInv, EditTypeOK
  <2>2. OwnPieces(r)' = OwnPieces(r)  BY DEF OwnPieces
  <2>3. CASE r = c
    <3>1. result'[r] \in Seq(OwnPieces(r))  BY <2>1, <2>3
    <3> QED BY <1>1, <2>2, <2>3, <3>1 DEF ResultInv
  <2>4. CASE r # c
    <3>1. result'[r] = result[r]  BY <2>1, <2>4
    <3> QED BY <2>1, <2>2, <3>1 DEF ResultInv
  <2> QED BY <2>3, <2>4
<1>3. q \in Seq(Pieces)  BY OwnInPieces
<1>4. result' \in [Requests -> Seq(Pieces)]  BY <1>3 DEF EditTypeOK
<1> QED BY <1>2, <1>4 DEF ResultsInv

LEMMA GatheredTypes ==
    ASSUME BuildInv, NEW c \in Requests, Gathered(c)
    PROVE  BuildInv'
<1> USE RequestsAreConns
<1>1. at[c] = "gather" /\ at' = [at EXCEPT ![c] = "lines"] /\ UNCHANGED Locals
  BY DEF Gathered, Goes
<1>2. next[c] > Len(CertPaths)  BY <1>1 DEF BuildInv, TarInv
<1>3. PICK t \in Dockerfiles, in \in BOOLEAN : Begin(c, t, in)
  <2>1. CASE IsSession(c)  BY <2>1 DEF Gathered
  <2>2. CASE ~IsSession(c)
    <3>1. tar[c] \in Tars /\ HasDockerfile(tar[c])
      BY <2>2 DEF IsSession, BuildInv, BuildTypeOK, TarInv
    <3>2. Text(c) \in Dockerfiles  BY <3>1, DockerfileFound DEF Text
    <3> QED BY <2>2, <3>2 DEF Gathered
  <2> QED BY <2>1, <2>2
<1>4. << >> \in Seq(OwnPieces(c))  OBVIOUS
<1>5. ResultsInv' /\ result' \in [Requests -> Seq(Pieces)]
  BY <1>1, <1>2, <1>3, <1>4, ResultWritten DEF Begin, Locals
<1>6. EditTypeOK'
  <2>1. /\ editing' \in [Requests -> {"none", "lines", "done"}]
        /\ content' \in [Requests -> Dockerfiles]
        /\ line' \in [Requests -> Nat] /\ certFiles' \in [Requests -> CertFiles]
    BY <1>3 DEF Begin, BuildInv, EditTypeOK
  <2>2. injectedAfterBase' \in [Requests -> BOOLEAN]
    BY <1>3 DEF Begin, BuildInv, EditTypeOK
  <2>3. injectedCerts' \in [Requests -> BOOLEAN]  BY <1>3 DEF Begin, BuildInv, EditTypeOK
  <2>4. pending' \in [Requests -> BOOLEAN]  BY <1>3 DEF Begin, BuildInv, EditTypeOK
  <2>5. inline' \in [Requests -> BOOLEAN]  BY <1>3 DEF Begin, BuildInv, EditTypeOK
  <2> QED BY <1>5, <2>1, <2>2, <2>3, <2>4, <2>5 DEF EditTypeOK
<1>7. BuildTypeOK'  BY <1>1 DEF BuildInv, BuildTypeOK, Places, Locals
<1>8. TarInv'  BY <1>1, <1>2 DEF BuildInv, BuildTypeOK, TarInv, Locals
<1> QED BY <1>5, <1>6, <1>7, <1>8 DEF BuildInv

LEMMA EnvCtxType ==
    ASSUME NEW r PROVE EnvCtx(r) \in Contexts
BY DEF EnvCtx, Contexts

LEMMA LineTypes ==
    ASSUME BuildInv, EnvTypeOK, NEW c \in Requests, LineStep(c)
    PROVE  BuildInv'
<1> USE RequestsAreConns
<1> DEFINE i == line[c] + 1
           kind == content[c][i].kind
           first == kind = "from" /\ ~injectedAfterBase[c]
           entry == kind \in {"cmd", "entrypoint"} /\ pending[c]
           X == OwnPieces(c)
           r1 == Append(result[c], Client(c, i))
           r2 == IF first THEN AfterBase(c) ELSE << >>
           r3 == IF entry THEN BeforeEntrypoint(c, EnvCtx(c)) ELSE << >>
<1>1. EditTypeOK /\ BuildTypeOK /\ TarInv /\ ResultsInv  BY DEF BuildInv
<1>2. at[c] = "lines" /\ EditLine(c) /\ UNCHANGED buildVars  BY DEF LineStep
<1>3. next[c] > Len(CertPaths)  BY <1>1, <1>2 DEF TarInv
<1>4. i \in 1..Len(content[c]) /\ i \in Nat
  <2>1. content[c] \in Seq(Lines) /\ line[c] \in Nat /\ line[c] < Len(content[c])
    BY <1>1, <1>2, EditAssumption DEF EditLine, EditTypeOK
  <2>2. Len(content[c]) \in Nat  BY <2>1
  <2> QED BY <2>1, <2>2
<1>5. Client(c, i) \in X  BY <1>1, <1>4, ClientTypes
<1>6. AfterBase(c) \in Seq(X) /\ BeforeEntrypoint(c, EnvCtx(c)) \in Seq(X)
  BY <1>1, EnvCtxType, BlockTypes
<1>7. result[c] \in Seq(X)  BY <1>1 DEF ResultsInv, ResultInv
<1>8. result' = [result EXCEPT ![c] = r1 \o r2 \o r3]
  BY <1>2 DEF EditLine
<1>9. /\ line' = [line EXCEPT ![c] = i]
      /\ injectedAfterBase' = [injectedAfterBase EXCEPT ![c] = @ \/ first]
      /\ injectedCerts' = [injectedCerts EXCEPT ![c] = @ \/ (first /\ HasCerts)]
      /\ pending' = [pending EXCEPT ![c] = @ /\ ~entry]
      /\ UNCHANGED <<editing, content, inline, certFiles>>
  BY <1>2 DEF EditLine
<1> HIDE DEF i, X, kind
<1>10. r1 \o r2 \o r3 \in Seq(X)
  <2>1. r1 \in Seq(X)  BY <1>5, <1>7, AppendIn
  <2>2. r2 \in Seq(X) /\ r3 \in Seq(X)  BY <1>6
  <2> HIDE DEF r1, r2, r3
  <2>3. r1 \o r2 \in Seq(X)  BY <2>1, <2>2, ConcatIn
  <2> QED BY <2>2, <2>3, ConcatIn
<1> HIDE DEF r1, r2, r3
<1>11. ResultsInv' /\ result' \in [Requests -> Seq(Pieces)]
  BY <1>2, <1>3, <1>8, <1>9, <1>10, ResultWritten DEF X, buildVars
<1>12. EditTypeOK'
  <2>1. /\ editing' \in [Requests -> {"none", "lines", "done"}]
        /\ content' \in [Requests -> Dockerfiles]
        /\ line' \in [Requests -> Nat] /\ certFiles' \in [Requests -> CertFiles]
    BY <1>1, <1>4, <1>9 DEF EditTypeOK
  <2> HIDE DEF first, entry
  <2>2. injectedAfterBase' \in [Requests -> BOOLEAN]  BY <1>1, <1>9, Zenon DEF EditTypeOK
  <2>3. injectedCerts' \in [Requests -> BOOLEAN]  BY <1>1, <1>9 DEF EditTypeOK
  <2>4. pending' \in [Requests -> BOOLEAN]  BY <1>1, <1>9 DEF EditTypeOK
  <2>5. inline' \in [Requests -> BOOLEAN]  BY <1>1, <1>9 DEF EditTypeOK
  <2> QED BY <1>11, <2>1, <2>2, <2>3, <2>4, <2>5 DEF EditTypeOK
<1>13. BuildTypeOK'  BY <1>1, <1>2 DEF BuildTypeOK, buildVars
<1>14. TarInv'  BY <1>1, <1>2 DEF TarInv, buildVars
<1> QED BY <1>11, <1>12, <1>13, <1>14 DEF BuildInv

(* The end of an edit, for the variables of the edit.                      *)
LEMMA EndTypes ==
    ASSUME BuildInv, EnvTypeOK, NEW c \in Requests, EditEnd(c), at[c] = "lines", UNCHANGED next
    PROVE  EditTypeOK' /\ ResultsInv'
<1> USE RequestsAreConns
<1> DEFINE X == OwnPieces(c)
           r2 == IF pending[c] THEN BeforeEntrypoint(c, EnvCtx(c)) ELSE << >>
           r3 == IF injectedCerts[c] THEN << >> ELSE Certs(c, "raw")
<1>1. EditTypeOK /\ BuildTypeOK /\ TarInv /\ ResultsInv  BY DEF BuildInv
<1>2. next[c] > Len(CertPaths)  BY <1>1 DEF TarInv
<1>3. "raw" \in Contexts  BY DEF Contexts
<1>4. Certs(c, "raw") \in Seq(X) /\ BeforeEntrypoint(c, EnvCtx(c)) \in Seq(X)
  BY <1>1, <1>3, EnvCtxType, BlockTypes
<1>5. result[c] \in Seq(X)  BY <1>1 DEF ResultsInv, ResultInv
<1>6. /\ result' = [result EXCEPT ![c] = result[c] \o r2 \o r3]
      /\ editing' = [editing EXCEPT ![c] = "done"]
      /\ UNCHANGED <<content, line, injectedAfterBase, injectedCerts, pending, inline,
                     certFiles>>
  BY DEF EditEnd
<1> HIDE DEF X
<1>7. result[c] \o r2 \o r3 \in Seq(X)
  <2>1. r2 \in Seq(X) /\ r3 \in Seq(X)  BY <1>4
  <2> HIDE DEF r2, r3
  <2>2. result[c] \o r2 \in Seq(X)  BY <1>5, <2>1, ConcatIn
  <2> QED BY <2>1, <2>2, ConcatIn
<1> HIDE DEF r2, r3
<1>8. ResultsInv' /\ result' \in [Requests -> Seq(Pieces)]
  BY <1>2, <1>6, <1>7, ResultWritten DEF X
<1>9. editing' \in [Requests -> {"none", "lines", "done"}]  BY <1>1, <1>6 DEF EditTypeOK
<1> QED BY <1>1, <1>6, <1>8, <1>9 DEF EditTypeOK

LEMMA SessionEditedTypes ==
    ASSUME BuildInv, EnvTypeOK, NEW c \in Requests, SessionEdited(c)
    PROVE  BuildInv'
<1> USE RequestsAreConns
<1>1. at[c] = "lines" /\ at' = [at EXCEPT ![c] = "expand"] /\ UNCHANGED Locals /\ EditEnd(c)
  BY DEF SessionEdited, Goes
<1>2. EditTypeOK' /\ ResultsInv'  BY <1>1, EndTypes DEF Locals
<1>3. BuildTypeOK'  BY <1>1 DEF BuildInv, BuildTypeOK, Places, Locals
<1>4. TarInv'  BY <1>1 DEF BuildInv, BuildTypeOK, TarInv, Locals
<1> QED BY <1>2, <1>3, <1>4 DEF BuildInv

LEMMA RebuiltType ==
    ASSUME BuildInv, NEW c \in Conns, tar[c] # Unreadable
    PROVE  [i \in DOMAIN tar[c].entries |-> Rebuilt(c, i)] \in Seq({"client", "edited", "cert"})
<1>1. tar[c] \in Tars /\ HasDockerfile(tar[c])  BY DEF BuildInv, BuildTypeOK, TarInv
<1>2. tar[c].entries \in Seq([name : Names, regular : BOOLEAN, text : Dockerfiles])
  BY <1>1, DockerfileFound
<1>3. PICK n \in Nat : DOMAIN tar[c].entries = 1..n  BY <1>2
<1>4. \A i : Rebuilt(c, i) \in {"client", "edited", "cert"}  BY DEF Rebuilt
<1>5. [i \in 1..n |-> Rebuilt(c, i)] \in [1..n -> {"client", "edited", "cert"}]  BY <1>4
<1>6. [1..n -> {"client", "edited", "cert"}] \subseteq Seq({"client", "edited", "cert"})
  OBVIOUS
<1> QED BY <1>3, <1>5, <1>6

LEMMA BuildEditedTypes ==
    ASSUME BuildInv, EnvTypeOK, NEW c \in Requests, BuildEdited(c)
    PROVE  BuildInv'
<1> USE RequestsAreConns
<1> DEFINE q == [i \in DOMAIN tar[c].entries |-> Rebuilt(c, i)]
<1>1. /\ at[c] = "lines" /\ at' = [at EXCEPT ![c] = "forward"] /\ EditEnd(c)
      /\ rebuilt' = [rebuilt EXCEPT ![c] = q]
      /\ extra' = [extra EXCEPT ![c] = Remaining(c)]
      /\ UNCHANGED <<tar, path, next, served>> /\ tar[c] # Unreadable
  BY DEF BuildEdited, Goes, IsSession
<1>2. EditTypeOK' /\ ResultsInv'  BY <1>1, EndTypes
<1>3. q \in Seq({"client", "edited", "cert"})  BY <1>1, RebuiltType
<1>4. Remaining(c) \in SUBSET CertNames  BY DEF Remaining, Named
<1>5. BuildTypeOK'
  <2> HIDE DEF q
  <2>1. rebuilt' \in [Conns -> Seq({"client", "edited", "cert"})]
    BY <1>1, <1>3 DEF BuildInv, BuildTypeOK
  <2>2. extra' \in [Conns -> SUBSET CertNames]  BY <1>1, <1>4 DEF BuildInv, BuildTypeOK
  <2>3. at' \in [Conns -> Places]  BY <1>1 DEF BuildInv, BuildTypeOK, Places
  <2> QED BY <1>1, <2>1, <2>2, <2>3 DEF BuildInv, BuildTypeOK
<1>6. TarInv'  BY <1>1 DEF BuildInv, BuildTypeOK, TarInv
<1> QED BY <1>2, <1>5, <1>6 DEF BuildInv

LEMMA BlankedTypes ==
    ASSUME BuildInv, NEW S \in SUBSET Conns, NEW p \in {"pass", "done"}, Blanked(S, p)
    PROVE  BuildInv'
<1> USE RequestsAreConns, CertFacts DEF Blanked
<1>1. BuildTypeOK'  BY DEF BuildInv, BuildTypeOK, Places
<1>2. TarInv'  BY DEF BuildInv, TarInv, BuildTypeOK
<1>3. EditTypeOK'
  <2>1. NoCerts \in CertFiles /\ << >> \in Dockerfiles
    BY EditAssumption DEF NoCerts, CertFiles
  <2>2. << >> \in Seq(Pieces)  OBVIOUS
  <2>3. /\ editing' \in [Requests -> {"none", "lines", "done"}]
        /\ content' \in [Requests -> Dockerfiles] /\ line' \in [Requests -> Nat]
        /\ certFiles' \in [Requests -> CertFiles] /\ result' \in [Requests -> Seq(Pieces)]
    BY <2>1, <2>2 DEF EditForgotten, BuildInv, EditTypeOK
  <2>4. injectedAfterBase' \in [Requests -> BOOLEAN]
    BY DEF EditForgotten, BuildInv, EditTypeOK
  <2>5. injectedCerts' \in [Requests -> BOOLEAN]  BY DEF EditForgotten, BuildInv, EditTypeOK
  <2>6. pending' \in [Requests -> BOOLEAN]  BY DEF EditForgotten, BuildInv, EditTypeOK
  <2>7. inline' \in [Requests -> BOOLEAN]  BY DEF EditForgotten, BuildInv, EditTypeOK
  <2> QED BY <2>3, <2>4, <2>5, <2>6, <2>7 DEF EditTypeOK
<1>4. ASSUME NEW r \in Requests PROVE ResultInv(r)'
  <2>1. CASE r \in S
    <3>1. result'[r] = << >>  BY <2>1 DEF EditForgotten
    <3> QED BY <3>1 DEF ResultInv
  <2>2. CASE r \notin S
    <3>1. /\ result'[r] = result[r] /\ certFiles'[r] = certFiles[r] /\ next'[r] = next[r]
      BY <2>2 DEF EditForgotten
    <3> QED BY <3>1 DEF BuildInv, ResultsInv, ResultInv, OwnPieces
  <2> QED BY <2>1, <2>2
<1> QED BY <1>1, <1>2, <1>3, <1>4 DEF BuildInv, ResultsInv

LEMMA BuildInvStep ==
    ASSUME AtInv, EnvTypeOK, BuildInv, [Next]_vars
    PROVE  BuildInv'
<1>1. served \in [Conns -> Nat] /\ editing \in [Requests -> {"none", "lines", "done"}]
  BY DEF BuildInv, BuildTypeOK, EditTypeOK
<1> USE DEF Places
<1>2. ASSUME NEW c \in Conns, Arrive(c) PROVE BuildInv'
  <2>1. CASE OpenSession(c)  BY <1>1, <2>1, MovedTypes DEF OpenSession, Locals, editVars
  <2>2. CASE Pass(c)  BY <1>1, <2>2, MovedTypes DEF Pass, Locals, editVars
  <2>3. ASSUME NEW t \in Tars \cup {Unreadable}, ReceiveBuild(c, t) PROVE BuildInv'
    BY <2>3, ReceiveTypes
  <2> QED BY <1>2, <2>1, <2>2, <2>3 DEF Arrive
<1>3. ASSUME NEW c \in Conns, Serve(c) PROVE BuildInv'
  <2>1. CASE Take(c)
    <3>1. Goes(c, IF IsSession(c) THEN "snapshot" ELSE "rules", "expand")
      BY <2>1 DEF Take
    <3> QED BY <1>1, <2>1, <3>1, MovedTypes DEF Take, Locals, editVars
  <2>2. CASE ExpandStep(c)  BY <2>2, NothingEdited DEF ExpandStep
  <2>3. CASE ReadCert(c)
    <3>1. c \in Requests  BY <2>3 DEF ReadCert, AtInv
    <3> QED BY <2>3, <3>1, ReadCertTypes
  <2>4. CASE StartEdit(c)
    <3>1. c \in Requests  BY <2>4 DEF StartEdit, Goes, AtInv
    <3> QED BY <2>4, <3>1, StartTypes
  <2>5. CASE Gathered(c)
    <3>1. c \in Requests  BY <2>5 DEF Gathered, Goes, AtInv
    <3> QED BY <2>5, <3>1, GatheredTypes
  <2>6. CASE LineStep(c)
    <3>1. c \in Requests  BY <2>6 DEF LineStep, AtInv
    <3> QED BY <2>6, <3>1, LineTypes
  <2>7. CASE SessionEdited(c)
    <3>1. c \in Requests  BY <2>7 DEF SessionEdited, Goes, AtInv
    <3> QED BY <2>7, <3>1, SessionEditedTypes
  <2>8. CASE BuildEdited(c)
    <3>1. c \in Requests  BY <2>8 DEF BuildEdited, Goes, AtInv
    <3> QED BY <2>8, <3>1, BuildEditedTypes
  <2>9. CASE ForwardBuild(c)  BY <2>9, BlankedTypes DEF ForwardBuild, EndRequest
  <2>10. CASE Forward(c)  BY <2>10, NothingEdited DEF Forward
  <2>11. CASE Finish(c)  BY <1>1, <2>11, MovedTypes DEF Finish, Locals, editVars
  <2> QED BY <1>3, <2>1, <2>2, <2>3, <2>4, <2>5, <2>6, <2>7, <2>8, <2>9, <2>10, <2>11 DEF Serve
<1>4. ASSUME NEW c \in Conns, CloseSession(c) PROVE BuildInv'
  BY <1>4, BlankedTypes DEF CloseSession, EndRequest
<1>5. ASSUME NEW c \in Conns, Copy(c) \/ Peer(c) PROVE BuildInv'
  BY <1>5, NothingEdited DEF Copy, Peer
<1>6. CASE Crash
  <2> DEFINE S == {c \in Conns : at[c] # "peek"}
  <2>1. S \in SUBSET Conns /\ Blanked(S, "done")  BY <1>6 DEF Crash
  <2> QED BY <2>1, BlankedTypes
<1>7. CASE World  BY <1>7, NothingEdited DEF World
<1>8. CASE UNCHANGED vars  BY <1>8, NothingEdited DEF vars
<1> QED BY <1>2, <1>3, <1>4, <1>5, <1>6, <1>7, <1>8 DEF Next

LEMMA BuildInvCorrect == Spec => []BuildInv
<1>1. AtInv /\ EnvTypeOK /\ BuildInv /\ [Next]_vars => BuildInv'  BY BuildInvStep
<1> QED BY <1>1, BuildInvInit, AtCorrect, BuildsExpand, EnvTypeCorrect, PTL DEF Spec

(* Whatever the rules, Dockerfiles and contexts, every part of a build     *)
(* keeps its type: the edit writes client's lines and blocks and nothing   *)
(* else, and reads no certificate beyond those the rules name.             *)
THEOREM BuildTypeCorrect == Spec => []TypeOK
<1>1. EnvTypeOK /\ FwdTypeOK /\ BuildInv => TypeOK
  BY DEF BuildInv, BuildTypeOK, TypeOK, Places
<1> QED
  BY <1>1, BuildInvCorrect, BuildsExpand, EnvTypeCorrect, BuildsForward, FwdTypeCorrect, PTL

-----------------------------------------------------------------------------
(* Seen from one request, a step is one of its own or leaves its edit and  *)
(* its tar alone, or its handler has ended.                                *)

Edit(r) == <<editing[r], content[r], line[r], result[r], injectedAfterBase[r],
             injectedCerts[r], pending[r], inline[r], certFiles[r]>>
Tar(r) == <<at[r], tar[r], path[r], next[r], rebuilt[r], extra[r]>>

Untouched(r) == UNCHANGED <<Edit(r), Tar(r)>> /\ (at[r] # "peek" => UNCHANGED lines[r])
HandlerOver(r) == at'[r] \in {"pass", "done"} /\ editing'[r] = "none"

EditStep(r) ==
    \/ Arrive(r) \/ Take(r) \/ ReadCert(r) \/ StartEdit(r) \/ Gathered(r) \/ LineStep(r)
    \/ SessionEdited(r) \/ BuildEdited(r) \/ Finish(r)

LEMMA VarsUntouched ==
    ASSUME UNCHANGED <<editVars, buildVars, lines>>, NEW r
    PROVE  Untouched(r)
BY DEF Untouched, Edit, Tar, editVars, buildVars

(* The steps of another connection.                                        *)
LEMMA OthersStep ==
    ASSUME EnvTypeOK, BuildInv, NEW r \in Requests, NEW c \in Conns \ {r},
           Arrive(c) \/ Serve(c) \/ CloseSession(c)
    PROVE  Untouched(r)
<1>1. r \in Conns /\ EditTypeOK /\ BuildTypeOK  BY RequestsAreConns DEF BuildInv
<1>2. lines \in [Requests -> [Rules -> Env]]  BY DEF EnvTypeOK
<1> USE <1>1 DEF EditTypeOK, BuildTypeOK
<1>3. ASSUME EditForgotten({c}) PROVE UNCHANGED Edit(r)
  BY <1>3 DEF EditForgotten, Edit
<1>4. ASSUME NEW p, EndRequest(c, p) PROVE Untouched(r)
  <2>1. UNCHANGED Edit(r)  BY <1>3, <1>4 DEF EndRequest, Blanked
  <2>2. UNCHANGED Tar(r)  BY <1>4 DEF EndRequest, Blanked, Tar
  <2>3. UNCHANGED lines[r]  BY <1>2, <1>4 DEF EndRequest, Return, Forgotten
  <2> QED BY <2>1, <2>2, <2>3 DEF Untouched
<1>5. CASE Arrive(c)
  <2>1. UNCHANGED <<editVars, lines>>
    BY <1>5 DEF Arrive, OpenSession, Pass, ReceiveBuild, envVars
  <2>2. UNCHANGED Edit(r)  BY <2>1 DEF Edit, editVars
  <2>3. UNCHANGED Tar(r)
    BY <1>5 DEF Arrive, OpenSession, Pass, ReceiveBuild, Tar, Goes, Locals
  <2> QED BY <2>1, <2>2, <2>3 DEF Untouched
<1>6. CASE Take(c) \/ ExpandStep(c) \/ Forward(c) \/ Finish(c)
  <2>1. UNCHANGED editVars  BY <1>6 DEF Take, ExpandStep, Forward, Finish
  <2>2. UNCHANGED Edit(r)  BY <2>1 DEF Edit, editVars
  <2>3. UNCHANGED lines
    BY <1>6 DEF Take, ExpandStep, Forward, Finish, envVars, TakeRules, Expand, ReadEnvFile,
                ReadFails, LookUpKey, WriteKey, Merged, Expanded
  <2>4. UNCHANGED Tar(r)
    BY <1>6 DEF Take, ExpandStep, Forward, Finish, Goes, Locals, Tar, buildVars
  <2> QED BY <2>2, <2>3, <2>4 DEF Untouched
<1>7. CASE ReadCert(c)
  <2>1. UNCHANGED Tar(r)  BY <1>7 DEF ReadCert, Tar
  <2>2. UNCHANGED certFiles[r]  BY <1>7 DEF ReadCert
  <2>3. UNCHANGED Edit(r)  BY <1>7, <2>2 DEF ReadCert, Edit
  <2> QED BY <1>7, <2>1, <2>3 DEF Untouched, ReadCert, envVars
<1>8. CASE StartEdit(c)
  <2>1. UNCHANGED Edit(r)  BY <1>8 DEF StartEdit, Called, Edit
  <2>2. UNCHANGED Tar(r)  BY <1>8 DEF StartEdit, Goes, Tar
  <2>3. UNCHANGED lines[r]  BY <1>2, <1>8 DEF StartEdit, StartRange
  <2> QED BY <2>1, <2>2, <2>3 DEF Untouched
<1>9. CASE Gathered(c)
  <2>1. UNCHANGED Tar(r)  BY <1>9 DEF Gathered, Goes, Locals, Tar
  <2>2. UNCHANGED lines[r]  BY <1>2, <1>9 DEF Gathered, EndRange
  <2>3. UNCHANGED Edit(r)
    <3>1. PICK t, in : Begin(c, t, in)  BY <1>9 DEF Gathered
    <3> QED BY <3>1 DEF Begin, Edit
  <2> QED BY <2>1, <2>2, <2>3 DEF Untouched
<1>10. CASE LineStep(c)
  <2>1. UNCHANGED Edit(r)  BY <1>10 DEF LineStep, EditLine, Edit
  <2> QED BY <1>10, <2>1 DEF LineStep, Untouched, envVars, buildVars, Tar
<1>11. CASE SessionEdited(c) \/ BuildEdited(c)
  <2>1. UNCHANGED Edit(r)  BY <1>11 DEF SessionEdited, BuildEdited, EditEnd, Edit
  <2>2. UNCHANGED Tar(r)  BY <1>11 DEF SessionEdited, BuildEdited, Goes, Locals, Tar
  <2> QED BY <1>11, <2>1, <2>2 DEF SessionEdited, BuildEdited, Untouched, envVars
<1>12. CASE ForwardBuild(c) \/ CloseSession(c)
  BY <1>4, <1>12 DEF ForwardBuild, CloseSession
<1> QED BY <1>5, <1>6, <1>7, <1>8, <1>9, <1>10, <1>11, <1>12 DEF Serve

LEMMA BlankedEnds ==
    ASSUME BuildInv, NEW r \in Requests, NEW S \in SUBSET Conns, r \in S,
           NEW p \in {"pass", "done"}, Blanked(S, p)
    PROVE  HandlerOver(r)
BY RequestsAreConns DEF Blanked, EditForgotten, HandlerOver

LEMMA SeenFromOne ==
    ASSUME EnvTypeOK, BuildInv, [Next]_vars, NEW r \in Requests
    PROVE  EditStep(r) \/ Untouched(r) \/ HandlerOver(r)
<1>1. r \in Conns /\ {r} \in SUBSET Conns  BY RequestsAreConns
<1>2. ASSUME NEW c \in Conns, Arrive(c) \/ Serve(c) \/ CloseSession(c)
      PROVE  EditStep(r) \/ Untouched(r) \/ HandlerOver(r)
  <2>1. CASE c # r  BY <1>2, <2>1, OthersStep
  <2>2. CASE c = r /\ ExpandStep(r)
    <3>1. UNCHANGED lines
      BY <2>2 DEF ExpandStep, Expand, ReadEnvFile, ReadFails, LookUpKey, WriteKey, Merged,
                  Expanded
    <3> QED BY <2>2, <3>1, VarsUntouched DEF ExpandStep
  <2>3. CASE c = r /\ Forward(r)  BY <2>3, VarsUntouched DEF Forward, envVars
  <2>4. CASE c = r /\ (ForwardBuild(r) \/ CloseSession(r))
    BY <1>1, <2>4, BlankedEnds DEF ForwardBuild, CloseSession, EndRequest
  <2> QED BY <1>2, <2>1, <2>2, <2>3, <2>4 DEF Serve, EditStep
<1>3. ASSUME NEW c \in Conns, Copy(c) \/ Peer(c) PROVE Untouched(r)
  BY <1>3, VarsUntouched DEF Copy, Peer, envVars
<1>4. CASE Crash
  <2> DEFINE S == {c \in Conns : at[c] # "peek"}
  <2>1. S \in SUBSET Conns /\ Blanked(S, "done")  BY <1>4 DEF Crash
  <2>2. CASE r \in S  BY <2>1, <2>2, BlankedEnds
  <2>3. CASE r \notin S
    <3>1. at[r] = "peek"  BY <1>1, <2>3
    <3> HIDE DEF S
    <3>2. UNCHANGED Tar(r)  BY <1>1, <2>1, <2>3 DEF Blanked, Tar
    <3>3. UNCHANGED Edit(r)  BY <2>1, <2>3 DEF Blanked, EditForgotten, Edit
    <3> QED BY <3>1, <3>2, <3>3 DEF Untouched
  <2> QED BY <2>2, <2>3
<1>5. CASE World
  BY <1>5, VarsUntouched DEF World, LoadConfig, EditFile, locals
<1>6. CASE UNCHANGED vars  BY <1>6, VarsUntouched DEF vars, envVars
<1> QED BY <1>2, <1>3, <1>4, <1>5, <1>6 DEF Next

-----------------------------------------------------------------------------
(* The tar.                                                                *)

(* A build goes on to be forwarded as it came, or with the tar that        *)
(* RebuildTar makes of it.                                                 *)
SentInv(r) ==
    at[r] = "forward" /\ path[r] # NoName =>
      /\ tar[r] # Unreadable
      /\ rebuilt[r] = [i \in DOMAIN tar[r].entries |-> Rebuilt(r, i)]
      /\ extra[r] = Remaining(r)

SentAll == \A r \in Requests : SentInv(r)

LEMMA SentStep ==
    ASSUME EnvTypeOK, BuildInv, NEW r \in Requests, SentInv(r), [Next]_vars
    PROVE  SentInv(r)'
<1>1. r \in Conns /\ BuildTypeOK  BY RequestsAreConns DEF BuildInv
<1>2. CASE Untouched(r)
  <2>1. UNCHANGED <<at[r], tar[r], path[r], rebuilt[r], extra[r], certFiles[r]>>
    BY <1>2 DEF Untouched, Edit, Tar
  <2>2. Remaining(r)' = Remaining(r)  BY <2>1 DEF Remaining
  <2>3. \A i : Rebuilt(r, i)' = Rebuilt(r, i)  BY <2>1 DEF Rebuilt
  <2> QED BY <2>1, <2>2, <2>3 DEF SentInv
<1>3. CASE HandlerOver(r)  BY <1>3 DEF HandlerOver, SentInv
<1>4. CASE EditStep(r)
  <2>1. CASE BuildEdited(r)
    <3>1. /\ rebuilt'[r] = [i \in DOMAIN tar[r].entries |-> Rebuilt(r, i)]
          /\ extra'[r] = Remaining(r)
          /\ UNCHANGED <<tar, path, certFiles>> /\ tar[r] # Unreadable
      BY <1>1, <2>1 DEF BuildEdited, EditEnd, IsSession, BuildTypeOK
    <3>2. Remaining(r)' = Remaining(r)  BY <3>1 DEF Remaining
    <3>3. \A i : Rebuilt(r, i)' = Rebuilt(r, i)  BY <3>1 DEF Rebuilt
    <3> QED BY <3>1, <3>2, <3>3 DEF SentInv
  <2>2. ASSUME NEW t \in Tars \cup {Unreadable}, ReceiveBuild(r, t) PROVE SentInv(r)'
    <3>1. CASE HasDockerfile(t)
      <4>1. at'[r] = "rules"  BY <1>1, <2>2, <3>1 DEF ReceiveBuild, Goes, BuildTypeOK
      <4> QED BY <4>1 DEF SentInv
    <3>2. CASE ~HasDockerfile(t)
      <4>1. path[r] = NoName  BY <1>1, <2>2 DEF ReceiveBuild, Goes, BuildInv, TarInv
      <4>2. path'[r] = NoName  BY <2>2, <3>2, <4>1 DEF ReceiveBuild
      <4> QED BY <4>2 DEF SentInv
    <3> QED BY <3>1, <3>2
  <2>3. CASE OpenSession(r) \/ Pass(r) \/ Take(r) \/ ReadCert(r) \/ StartEdit(r) \/ Gathered(r)
             \/ LineStep(r) \/ SessionEdited(r) \/ Finish(r)
    <3>1. at'[r] # "forward"
      BY <1>1, <2>3 DEF OpenSession, Pass, Take, ReadCert, StartEdit, Gathered, LineStep,
                        SessionEdited, Finish, Goes, BuildTypeOK, buildVars
    <3> QED BY <3>1 DEF SentInv
  <2> QED BY <1>4, <2>1, <2>2, <2>3 DEF EditStep, Arrive
<1> QED BY <1>2, <1>3, <1>4, SeenFromOne

LEMMA SentCorrect == Spec => []SentAll
<1>1. Init => SentAll  BY RequestsAreConns DEF Init, SentAll, SentInv
<1>2. EnvTypeOK /\ BuildInv /\ SentAll /\ [Next]_vars => SentAll'  BY SentStep DEF SentAll
<1> QED BY <1>1, <1>2, BuildInvCorrect, BuildsExpand, EnvTypeCorrect, PTL DEF Spec

LEMMA BlocksOwn ==
    ASSUME NEW r, NEW b \in OwnPieces(r), b \in Blocks
    PROVE  b.certs \subseteq Named(certFiles[r])
<1>1. CASE b \in [at : Nat, line : {Replaced(l) : l \in Lines}]
  <2>1. DOMAIN b = {"at", "line"}  BY <1>1
  <2>2. DOMAIN b = {"block", "ctx", "certs", "env"}  BY DEF Blocks
  <2>3. "at" \notin {"block", "ctx", "certs", "env"}  OBVIOUS
  <2> QED BY <2>1, <2>2, <2>3
<1> QED BY <1>1 DEF OwnPieces

(* What of a certificate could be read is what the tar unpacks to under its *)
(* name: in the place of the file of that name, or behind the others.      *)
LEMMA CertUnpacked ==
    ASSUME BuildInv, NEW r \in Requests, SentInv(r), at[r] = "forward", path[r] # NoName,
           PlainContext(r), NEW n \in Named(certFiles[r])
    PROVE  Unpacked(r, n, "cert")
<1> DEFINE e == tar[r].entries
           T == {i \in DOMAIN e : e[i].name = n}
<1>1. /\ tar[r] \in Tars /\ HasDockerfile(tar[r])
      /\ rebuilt[r] = [i \in DOMAIN e |-> Rebuilt(r, i)] /\ extra[r] = Remaining(r)
  BY RequestsAreConns DEF SentInv, BuildInv, BuildTypeOK, TarInv
<1>2. e \in Seq([name : Names, regular : BOOLEAN, text : Dockerfiles])
  BY <1>1, DockerfileFound
<1>3. PICK m \in Nat : DOMAIN e = 1..m  BY <1>2
<1>4. n # path[r]  BY DEF PlainContext
<1>5. CASE T = {}
  <2>1. n \in Remaining(r)  BY <1>5 DEF Remaining
  <2> QED BY <1>1, <2>1 DEF Unpacked
<1>6. CASE T # {}
  <2>1. PICK x \in T : TRUE  BY <1>6
  <2>2. x \in 1..m /\ x \in DOMAIN e /\ e[x].name = n /\ e[x].regular
    BY <1>3, <2>1 DEF PlainContext
  <2>3. \A y \in DOMAIN e : e[y].name = n => y = x  BY <2>2 DEF PlainContext
  <2>4. ~ \E y \in 1..x - 1 : e[y].name = e[x].name
    <3> SUFFICES ASSUME NEW y \in 1..x - 1, e[y].name = e[x].name PROVE FALSE  OBVIOUS
    <3>1. y \in 1..m /\ y # x  BY <2>2
    <3> QED BY <1>3, <2>2, <2>3, <3>1
  <2>5. Rebuilt(r, x) = "cert"  BY <1>4, <2>2, <2>4 DEF Rebuilt
  <2>6. DOMAIN rebuilt[r] = DOMAIN e /\ rebuilt[r][x] = "cert"  BY <1>1, <2>2, <2>5
  <2>7. n \notin extra[r]  BY <1>1, <1>4, <2>2 DEF Remaining
  <2> QED BY <2>2, <2>3, <2>6, <2>7 DEF Unpacked
<1> QED BY <1>5, <1>6

(* The last entry with the Dockerfile's name is the edited one.            *)
LEMMA DockerfileUnpacked ==
    ASSUME BuildInv, NEW r \in Requests, SentInv(r), at[r] = "forward", path[r] # NoName,
           PlainContext(r)
    PROVE  Unpacked(r, path[r], "edited")
<1> DEFINE e == tar[r].entries
           d == Dockerfile(tar[r])
           T == {i \in DOMAIN e : e[i].name = path[r]}
           IsLast(i) == \A y \in T : y <= i
<1>1. /\ tar[r] \in Tars /\ HasDockerfile(tar[r]) /\ path[r] = e[d].name
      /\ rebuilt[r] = [i \in DOMAIN e |-> Rebuilt(r, i)] /\ extra[r] = Remaining(r)
  BY RequestsAreConns DEF SentInv, BuildInv, BuildTypeOK, TarInv
<1>2. d \in DOMAIN e /\ e \in Seq([name : Names, regular : BOOLEAN, text : Dockerfiles])
  BY <1>1, DockerfileFound
<1>3. PICK m \in Nat : DOMAIN e = 1..m  BY <1>2
<1> HIDE DEF d
<1>4. T \in SUBSET (1..m) /\ T # {}  BY <1>1, <1>2, <1>3
<1>5. PICK x \in T : \A y \in T : y <= x  BY <1>3, <1>4, Greatest
<1>6. x \in DOMAIN e /\ e[x].name = path[r] /\ e[x].regular  BY <1>5 DEF PlainContext
<1>7. Rebuilt(r, x) = "edited"  BY <1>6 DEF Rebuilt
<1>8. DOMAIN rebuilt[r] = DOMAIN e /\ rebuilt[r][x] = "edited"  BY <1>1, <1>6, <1>7
<1>9. path[r] \notin extra[r]  BY <1>1 DEF Remaining, PlainContext
<1> QED BY <1>5, <1>6, <1>8, <1>9 DEF Unpacked

(* "the COPY source, which the caller must place in the context tar"       *)
(* (dockerfile.go:80-82), for any context that PlainContext admits, any    *)
(* rules and whatever could be read of their certificates.                 *)
THEOREM SourcesCorrect == Spec => []CopySourcesSent
<1>1. ASSUME AtInv, BuildInv, SentAll PROVE CopySourcesSent
  <2> SUFFICES ASSUME NEW c \in Conns, at[c] = "forward", path[c] # NoName, PlainContext(c)
               PROVE  /\ Unpacked(c, path[c], "edited")
                      /\ \A j \in DOMAIN result[c] : result[c][j] \in Blocks =>
                           \A n \in result[c][j].certs : Unpacked(c, n, "cert")
    BY DEF CopySourcesSent
  <2>1. c \in Requests /\ SentInv(c) /\ ResultInv(c)
    BY <1>1 DEF AtInv, SentAll, BuildInv, ResultsInv
  <2>2. Unpacked(c, path[c], "edited")  BY <1>1, <2>1, DockerfileUnpacked
  <2>3. ASSUME NEW j \in DOMAIN result[c], result[c][j] \in Blocks,
               NEW n \in result[c][j].certs
        PROVE  Unpacked(c, n, "cert")
    <3>1. result[c][j] \in OwnPieces(c)  BY <2>1, ElementIn DEF ResultInv
    <3>2. n \in Named(certFiles[c])  BY <2>3, <3>1, BlocksOwn
    <3> QED BY <1>1, <2>1, <3>2, CertUnpacked
  <2> QED BY <2>2, <2>3
<1> QED BY <1>1, AtCorrect, BuildInvCorrect, SentCorrect, PTL

-----------------------------------------------------------------------------
(* The edit: what the loop of modify has written after each line.          *)

LEMMA Grown ==
    ASSUME NEW X, NEW q \in Seq(X), NEW e \in X, NEW s \in Seq(X), NEW t \in Seq(X),
           NEW w, w = Append(q, e) \o s \o t
    PROVE  /\ Len(w) = Len(q) + 1 + Len(s) + Len(t)
           /\ \A i \in 1..Len(q) : w[i] = q[i]
           /\ w[Len(q) + 1] = e
           /\ \A k \in 1..Len(s) : w[Len(q) + 1 + k] = s[k]
           /\ \A k \in 1..Len(t) : w[Len(q) + 1 + Len(s) + k] = t[k]
<1> DEFINE a == Append(q, e)
           b == a \o s
<1>1. /\ a \in Seq(X) /\ Len(a) = Len(q) + 1 /\ \A i \in 1..Len(q) : a[i] = q[i]
      /\ a[Len(q) + 1] = e
  BY AppendIn
<1> HIDE DEF a
<1>2. a \in Seq(X)  BY <1>1
<1>3. /\ b \in Seq(X) /\ Len(b) = Len(a) + Len(s)
      /\ \A i \in 1..Len(a) : b[i] = a[i]
      /\ \A k \in 1..Len(s) : b[Len(a) + k] = s[k]
  <2>1. b \in Seq(X)  BY <1>2, ConcatIn
  <2>2. Len(b) = Len(a) + Len(s)  BY <1>2, ConcatIn
  <2>3. \A i \in 1..Len(a) : b[i] = a[i]  BY <1>2, ConcatIn
  <2>4. \A k \in 1..Len(s) : b[Len(a) + k] = s[k]  BY <1>2, ConcatIn
  <2> QED BY <2>1, <2>2, <2>3, <2>4
<1>4. b \in Seq(X) /\ w = b \o t  BY <1>3 DEF a
<1> HIDE DEF b
<1>5. /\ Len(w) = Len(b) + Len(t)
      /\ \A i \in 1..Len(b) : w[i] = b[i]
      /\ \A k \in 1..Len(t) : w[Len(b) + k] = t[k]
  <2>1. Len(w) = Len(b) + Len(t)  BY <1>4, ConcatIn
  <2>2. \A i \in 1..Len(b) : w[i] = b[i]  BY <1>4, ConcatIn
  <2>3. \A k \in 1..Len(t) : w[Len(b) + k] = t[k]  BY <1>4, ConcatIn
  <2> QED BY <2>1, <2>2, <2>3
<1>6. Len(q) \in Nat /\ Len(s) \in Nat /\ Len(t) \in Nat  OBVIOUS
<1>7. Len(a) = Len(q) + 1 /\ Len(b) = Len(q) + 1 + Len(s)  BY <1>1, <1>3, <1>6
<1>8. Len(w) = Len(q) + 1 + Len(s) + Len(t)  BY <1>5, <1>7
<1>9. ASSUME NEW i \in 1..Len(q) PROVE w[i] = q[i]
  <2>1. i \in 1..Len(a) /\ i \in 1..Len(b)  BY <1>6, <1>7
  <2> QED BY <1>1, <1>3, <1>5, <2>1
<1>10. w[Len(q) + 1] = e
  <2>1. Len(q) + 1 \in 1..Len(a) /\ Len(q) + 1 \in 1..Len(b)  BY <1>6, <1>7
  <2> QED BY <1>1, <1>3, <1>5, <2>1
<1>11. ASSUME NEW k \in 1..Len(s) PROVE w[Len(q) + 1 + k] = s[k]
  <2>1. Len(q) + 1 + k \in 1..Len(b)  BY <1>6, <1>7
  <2>2. b[Len(q) + 1 + k] = s[k]  BY <1>3, <1>7
  <2> QED BY <1>5, <2>1, <2>2
<1>12. \A k \in 1..Len(t) : w[Len(q) + 1 + Len(s) + k] = t[k]  BY <1>5, <1>7
<1> QED BY <1>8, <1>9, <1>10, <1>11, <1>12

LEMMA LinesFacts ==
    ASSUME EditTypeOK, NEW r \in Requests
    PROVE  /\ content[r] \in Seq(Lines) /\ Len(content[r]) \in Nat
           /\ Base(r) \in 0..Len(content[r]) /\ Entry(r) \in 0..Len(content[r])
           /\ Base(r) # 0 => content[r][Base(r)].kind = "from"
           /\ Entry(r) # 0 => content[r][Entry(r)].kind \in {"cmd", "entrypoint"}
           /\ \A j \in 1..Len(content[r]) :
                (Base(r) = 0 \/ j < Base(r)) => content[r][j].kind # "from"
           /\ \A j \in 1..Len(content[r]) :
                (Entry(r) = 0 \/ j < Entry(r)) => content[r][j].kind \notin {"cmd", "entrypoint"}
<1>1. content[r] \in Seq(Lines)  BY EditAssumption DEF EditTypeOK
<1>2. Len(content[r]) \in Nat  BY <1>1
<1>3. /\ Base(r) \in 0..Len(content[r])
      /\ Base(r) # 0 => content[r][Base(r)].kind = "from"
      /\ \A j \in 1..Len(content[r]) :
           (Base(r) = 0 \/ j < Base(r)) => content[r][j].kind # "from"
  BY <1>1, FirstIs DEF Base
<1>4. /\ Entry(r) \in 0..Len(content[r])
      /\ Entry(r) # 0 => content[r][Entry(r)].kind \in {"cmd", "entrypoint"}
      /\ \A j \in 1..Len(content[r]) :
           (Entry(r) = 0 \/ j < Entry(r)) => content[r][j].kind \notin {"cmd", "entrypoint"}
  BY <1>1, FirstIs DEF Entry
<1> QED BY <1>1, <1>2, <1>3, <1>4

LEMMA EntryBlocksType ==
    ASSUME EnvTypeOK, EditTypeOK, NEW r \in Requests
    PROVE  /\ EntryBlocks(r) \in Seq(OwnPieces(r)) /\ Len(EntryBlocks(r)) \in Nat
           /\ AfterBase(r) \in Seq(OwnPieces(r)) /\ Len(AfterBase(r)) \in Nat
<1>1. "paths" \in Contexts /\ "nothing" \in Contexts  BY DEF Contexts
<1>2. EntryBlocks(r) \in Seq(OwnPieces(r)) /\ AfterBase(r) \in Seq(OwnPieces(r))
  BY <1>1, BlockTypes DEF EntryBlocks
<1>3. \A X : \A q \in Seq(X) : Len(q) \in Nat  OBVIOUS
<1> QED BY <1>2, <1>3

LEMMA PlaceFacts ==
    ASSUME EnvTypeOK, EditTypeOK, NEW r \in Requests, NEW i \in Nat, NEW j \in Nat, i < j
    PROVE  /\ Place(r, i) \in Nat /\ Place(r, j) \in Nat
           /\ Place(r, i) < Place(r, j) /\ i <= Place(r, i)
           /\ i # 0 /\ i = Base(r) => Place(r, i) + Len(AfterBase(r)) < Place(r, j)
           /\ i # 0 /\ i = Entry(r) => Place(r, i) + Len(EntryBlocks(r)) < Place(r, j)
<1> DEFINE a == Len(AfterBase(r))
           n == Len(EntryBlocks(r))
<1>1. a \in Nat /\ n \in Nat  BY EntryBlocksType
<1>2. Base(r) \in Nat /\ Entry(r) \in Nat  BY LinesFacts
<1>3. \A k : Place(r, k) = k + (IF Base(r) # 0 /\ Base(r) < k THEN a ELSE 0)
                             + (IF Entry(r) # 0 /\ Entry(r) < k THEN n ELSE 0)
  BY DEF Place
<1> HIDE DEF a, n
<1>4. /\ Place(r, i) \in Nat /\ Place(r, j) \in Nat
      /\ Place(r, i) < Place(r, j) /\ i <= Place(r, i)
      /\ i # 0 /\ i = Base(r) => Place(r, i) + a < Place(r, j)
      /\ i # 0 /\ i = Entry(r) => Place(r, i) + n < Place(r, j)
  BY <1>1, <1>2, <1>3
<1> QED BY <1>4 DEF a, n

SoFar(r) ==
    LET l == line[r] IN
    /\ l <= Len(content[r])
    /\ injectedAfterBase[r] <=> (Base(r) # 0 /\ Base(r) <= l)
    /\ injectedCerts[r] <=> (Base(r) # 0 /\ Base(r) <= l /\ HasCerts)
    /\ pending[r] <=> ~(Entry(r) # 0 /\ Entry(r) <= l)
    /\ Len(result[r]) = Place(r, l + 1) - 1
    /\ \A i \in 1..l : result[r][Place(r, i)] = Client(r, i)
    /\ Base(r) # 0 /\ Base(r) <= l => StandsAt(r, AfterBase(r), Place(r, Base(r)))
    /\ Entry(r) # 0 /\ Entry(r) <= l => StandsAt(r, EntryBlocks(r), Place(r, Entry(r)))

(* As the loop leaves it: the blocks for the entrypoint behind its line.   *)
Planned(r) ==
    LET n == Len(content[r]) IN
    /\ Len(result[r]) = Place(r, n + 1) - 1 + Len(EndBlocks(r))
    /\ \A i \in 1..n : result[r][Place(r, i)] = Client(r, i)
    /\ Base(r) # 0 => StandsAt(r, AfterBase(r), Place(r, Base(r)))
    /\ Entry(r) # 0 => StandsAt(r, EntryBlocks(r), Place(r, Entry(r)))
    /\ StandsAt(r, EndBlocks(r), Place(r, n + 1) - 1)

WhereInv(r) ==
    /\ editing[r] = "lines" <=> at[r] = "lines"
    /\ editing[r] # "none" => /\ at[r] \in {"lines", "expand", "forward"}
                              /\ next[r] > Len(CertPaths)

EditInv(r) ==
    /\ WhereInv(r)
    /\ editing[r] = "lines" => SoFar(r)
    /\ editing[r] = "done" => Planned(r)

(* What is to be written where does not change during the loop.            *)
LEMMA SamePlan ==
    ASSUME NEW r, UNCHANGED <<content[r], lines[r], certFiles[r], inline[r]>>
    PROVE  /\ Base(r)' = Base(r) /\ Entry(r)' = Entry(r)
           /\ AfterBase(r)' = AfterBase(r) /\ EntryBlocks(r)' = EntryBlocks(r)
           /\ EndBlocks(r)' = EndBlocks(r)
           /\ \A i : Place(r, i)' = Place(r, i) /\ Client(r, i)' = Client(r, i)
<1>1. Base(r)' = Base(r) /\ Entry(r)' = Entry(r)  BY DEF Base, Entry
<1>2. \A what, rules, ctx : Block(r, what, rules, ctx)' = Block(r, what, rules, ctx)
  BY DEF Block
<1>3. \A position, ctx : Runs(r, position, ctx)' = Runs(r, position, ctx)
  BY <1>2 DEF Runs
<1>4. \A ctx : Certs(r, ctx)' = Certs(r, ctx)
  BY <1>2 DEF Certs, InlineLines, CopyLines, CertBlock
<1>5. AfterBase(r)' = AfterBase(r)  BY <1>3, <1>4 DEF AfterBase
<1>6. EntryBlocks(r)' = EntryBlocks(r)  BY <1>1, <1>3 DEF EntryBlocks, BeforeEntrypoint
<1>7. EndBlocks(r)' = EndBlocks(r)  BY <1>1, <1>4, <1>6 DEF EndBlocks
<1>8. \A i : Place(r, i)' = Place(r, i)  BY <1>1, <1>5, <1>6 DEF Place
<1>9. \A i : Client(r, i)' = Client(r, i)  BY DEF Client
<1> QED BY <1>1, <1>5, <1>6, <1>7, <1>8, <1>9

LEMMA SameEdit ==
    ASSUME NEW r, UNCHANGED <<Edit(r), lines[r]>>
    PROVE  SoFar(r)' = SoFar(r) /\ Planned(r)' = Planned(r)
<1>1. UNCHANGED <<content[r], lines[r], certFiles[r], inline[r], line[r], result[r],
                  injectedAfterBase[r], injectedCerts[r], pending[r]>>
  BY DEF Edit
<1> DEFINE A == AfterBase(r)  E == EntryBlocks(r)  Z == EndBlocks(r)
<1>2. /\ Base(r)' = Base(r) /\ Entry(r)' = Entry(r)
      /\ A' = A /\ E' = E /\ Z' = Z
      /\ \A i : Place(r, i)' = Place(r, i) /\ Client(r, i)' = Client(r, i)
  BY <1>1, SamePlan
<1> HIDE DEF A, E, Z
<1>3. \A n : /\ StandsAt(r, A, n)' = StandsAt(r, A, n)
             /\ StandsAt(r, E, n)' = StandsAt(r, E, n)
             /\ StandsAt(r, Z, n)' = StandsAt(r, Z, n)
  BY <1>1, <1>2 DEF StandsAt
<1> QED BY <1>1, <1>2, <1>3 DEF SoFar, Planned, A, E, Z

(* What stands before the j-th line on account of the blocks at line x.    *)
Before(x, size, j) == IF x # 0 /\ x < j THEN size ELSE 0

LEMMA BeforeNext ==
    ASSUME NEW x \in Nat, NEW i \in Nat \ {0}, NEW size \in Nat
    PROVE  /\ Before(x, size, i) \in Nat
           /\ Before(x, size, i + 1) = Before(x, size, i) + (IF x = i THEN size ELSE 0)
BY DEF Before

(* Where the lines and blocks are that have been written.                  *)
LEMMA Written ==
    ASSUME EnvTypeOK, EditTypeOK, NEW r \in Requests, SoFar(r), ResultInv(r)
    PROVE  /\ \A j \in 1..line[r] : Place(r, j) \in 1..Len(result[r])
           /\ Place(r, line[r] + 1) = Len(result[r]) + 1
           /\ Base(r) # 0 /\ Base(r) <= line[r] =>
                /\ Place(r, Base(r)) \in Nat
                /\ Place(r, Base(r)) + Len(AfterBase(r)) <= Len(result[r])
           /\ Entry(r) # 0 /\ Entry(r) <= line[r] =>
                /\ Place(r, Entry(r)) \in Nat
                /\ Place(r, Entry(r)) + Len(EntryBlocks(r)) <= Len(result[r])
<1> DEFINE i == line[r] + 1
           q == result[r]
           b == Base(r)
           e == Entry(r)
           A == AfterBase(r)
           E == EntryBlocks(r)
<1>1. line[r] \in Nat /\ i \in Nat /\ i # 0 /\ b \in Nat /\ e \in Nat
  <2>1. line[r] \in Nat  BY DEF EditTypeOK
  <2> QED BY <2>1, LinesFacts
<1>2. Len(A) \in Nat /\ Len(E) \in Nat /\ Len(q) \in Nat
  <2>1. \A X : \A s \in Seq(X) : Len(s) \in Nat  OBVIOUS
  <2> QED BY <2>1, EntryBlocksType DEF ResultInv
<1>3. Len(q) = Place(r, i) - 1  BY DEF SoFar
<1>4. ASSUME NEW j \in 1..line[r]
      PROVE  /\ Place(r, j) \in Nat /\ Place(r, i) \in Nat /\ Place(r, j) < Place(r, i)
             /\ j <= Place(r, j)
             /\ j = b => Place(r, j) + Len(A) < Place(r, i)
             /\ j = e => Place(r, j) + Len(E) < Place(r, i)
  <2>1. j \in Nat /\ i \in Nat /\ j < i /\ j # 0  BY <1>1
  <2> QED BY <2>1, PlaceFacts
<1>5. Place(r, i) \in Nat
  <2>1. i + 1 \in Nat /\ i < i + 1  BY <1>1
  <2> QED BY <1>1, <2>1, PlaceFacts
<1>6. b # 0 /\ b <= line[r] => b \in 1..line[r]  BY <1>1
<1>7. e # 0 /\ e <= line[r] => e \in 1..line[r]  BY <1>1
<1> HIDE DEF A, E, b, e, q, i
<1>8. ASSUME NEW j \in 1..line[r] PROVE Place(r, j) \in 1..Len(q)
  BY <1>1, <1>2, <1>3, <1>4
<1>9. Place(r, i) = Len(q) + 1  BY <1>2, <1>3, <1>5
<1>10. b # 0 /\ b <= line[r] => /\ Place(r, b) \in Nat /\ Place(r, b) + Len(A) <= Len(q)
  BY <1>2, <1>4, <1>6, <1>9
<1>11. e # 0 /\ e <= line[r] => /\ Place(r, e) \in Nat /\ Place(r, e) + Len(E) <= Len(q)
  BY <1>2, <1>4, <1>7, <1>9
<1> QED BY <1>8, <1>9, <1>10, <1>11 DEF A, E, b, e, q, i

(* A turn of the loop.                                                     *)
LEMMA LineSoFar ==
    ASSUME EnvTypeOK, BuildInv, NEW r \in Requests, SoFar(r), EditLine(r), UNCHANGED lines
    PROVE  SoFar(r)'
<1> DEFINE i == line[r] + 1
           q == result[r]
           b == Base(r)
           e == Entry(r)
           A == AfterBase(r)
           E == EntryBlocks(r)
           n == Len(content[r])
           kind == content[r][i].kind
           first == kind = "from" /\ ~injectedAfterBase[r]
           entry == kind \in {"cmd", "entrypoint"} /\ pending[r]
           S == IF b = i THEN A ELSE << >>
           T == IF e = i THEN E ELSE << >>
           X == OwnPieces(r)
           w == Append(q, Client(r, i)) \o S \o T
<1>1. EditTypeOK /\ ResultInv(r)  BY DEF BuildInv, ResultsInv
<1>2. line[r] \in Nat /\ n \in Nat /\ i \in 1..n /\ b \in 0..n /\ e \in 0..n
  <2>1. line[r] \in Nat /\ line[r] < n  BY <1>1 DEF EditLine, EditTypeOK
  <2>2. n \in Nat /\ b \in 0..n /\ e \in 0..n  BY <1>1, LinesFacts
  <2> QED BY <2>1, <2>2
<1>3. /\ b # 0 => content[r][b].kind = "from"
      /\ e # 0 => content[r][e].kind \in {"cmd", "entrypoint"}
      /\ \A j \in 1..n : (b = 0 \/ j < b) => content[r][j].kind # "from"
      /\ \A j \in 1..n : (e = 0 \/ j < e) => content[r][j].kind \notin {"cmd", "entrypoint"}
  BY <1>1, LinesFacts
<1>4. /\ injectedAfterBase[r] <=> (b # 0 /\ b <= line[r])
      /\ injectedCerts[r] <=> (b # 0 /\ b <= line[r] /\ HasCerts)
      /\ pending[r] <=> ~(e # 0 /\ e <= line[r])
      /\ Len(q) = Place(r, i) - 1
      /\ \A j \in 1..line[r] : q[Place(r, j)] = Client(r, j)
      /\ b # 0 /\ b <= line[r] => \A k \in DOMAIN A : q[Place(r, b) + k] = A[k]
      /\ e # 0 /\ e <= line[r] => \A k \in DOMAIN E : q[Place(r, e) + k] = E[k]
  BY DEF SoFar, StandsAt
<1>5. A \in Seq(X) /\ E \in Seq(X) /\ q \in Seq(X) /\ Client(r, i) \in X /\ << >> \in Seq(X)
  <2>1. A \in Seq(X) /\ E \in Seq(X)  BY <1>1, EntryBlocksType
  <2>2. Client(r, i) \in X  BY <1>1, <1>2, ClientTypes
  <2> QED BY <1>1, <2>1, <2>2 DEF ResultInv
<1>6. S \in Seq(X) /\ T \in Seq(X)  BY <1>5
<1>7. /\ line'[r] = i /\ UNCHANGED <<content, certFiles, inline>>
      /\ injectedAfterBase'[r] = (injectedAfterBase[r] \/ first)
      /\ injectedCerts'[r] = (injectedCerts[r] \/ (first /\ HasCerts))
      /\ pending'[r] = (pending[r] /\ ~entry)
      /\ result'[r] = Append(q, Client(r, i))
                        \o (IF first THEN A ELSE << >>)
                        \o (IF entry THEN BeforeEntrypoint(r, EnvCtx(r)) ELSE << >>)
  BY <1>1 DEF EditLine, EditTypeOK
<1>8. first <=> b = i
  <2> HIDE DEF b, e
  <2>1. CASE b = i  BY <1>2, <1>3, <1>4, <2>1
  <2>2. CASE b # i
    <3>1. (b # 0 /\ b <= line[r]) \/ b = 0 \/ i < b  BY <1>2, <2>2
    <3> QED BY <1>2, <1>3, <1>4, <2>2, <3>1
  <2> QED BY <2>1, <2>2
<1>9. entry <=> e = i
  <2> HIDE DEF b, e
  <2>1. CASE e = i  BY <1>2, <1>3, <1>4, <2>1
  <2>2. CASE e # i
    <3>1. (e # 0 /\ e <= line[r]) \/ e = 0 \/ i < e  BY <1>2, <2>2
    <3> QED BY <1>2, <1>3, <1>4, <2>2, <3>1
  <2> QED BY <2>1, <2>2
<1>10. e = i => b # i  BY <1>2, <1>3
<1>11. e = i => BeforeEntrypoint(r, EnvCtx(r)) = E
  <2> SUFFICES ASSUME e = i PROVE BeforeEntrypoint(r, EnvCtx(r)) = E  OBVIOUS
  <2>1. injectedAfterBase[r] <=> (b # 0 /\ (e = 0 \/ b < e))
    <3> HIDE DEF b, e
    <3> QED BY <1>2, <1>4
  <2> QED BY <2>1 DEF EnvCtx, EntryBlocks
<1>12. result'[r] = w  BY <1>7, <1>8, <1>9, <1>11
<1> HIDE DEF first, entry, kind
<1>13. Len(A) \in Nat /\ Len(E) \in Nat /\ DOMAIN A = 1..Len(A) /\ DOMAIN E = 1..Len(E)
       /\ Len(q) \in Nat
  BY <1>5
<1>14. /\ Len(w) = Len(q) + 1 + Len(S) + Len(T)
       /\ \A j \in 1..Len(q) : w[j] = q[j]
       /\ w[Len(q) + 1] = Client(r, i)
       /\ \A k \in 1..Len(S) : w[Len(q) + 1 + k] = S[k]
       /\ \A k \in 1..Len(T) : w[Len(q) + 1 + Len(S) + k] = T[k]
  <2> DEFINE e1 == Client(r, i)
  <2>1. w = Append(q, e1) \o S \o T /\ e1 \in X  BY <1>5
  <2> HIDE DEF S, T, q, X, w, e1
  <2>2. Len(w) = Len(q) + 1 + Len(S) + Len(T)  BY <1>5, <1>6, <2>1, Grown
  <2>3. \A j \in 1..Len(q) : w[j] = q[j]  BY <1>5, <1>6, <2>1, Grown
  <2>4. w[Len(q) + 1] = e1  BY <1>5, <1>6, <2>1, Grown
  <2>5. \A k \in 1..Len(S) : w[Len(q) + 1 + k] = S[k]  BY <1>5, <1>6, <2>1, Grown
  <2>6. \A k \in 1..Len(T) : w[Len(q) + 1 + Len(S) + k] = T[k]  BY <1>5, <1>6, <2>1, Grown
  <2> QED BY <2>2, <2>3, <2>4, <2>5, <2>6 DEF e1
<1>15. /\ \A j \in 1..line[r] : Place(r, j) \in 1..Len(q)
       /\ Place(r, i) = Len(q) + 1
       /\ b # 0 /\ b <= line[r] => /\ Place(r, b) \in Nat
                                   /\ Place(r, b) + Len(A) <= Len(q)
       /\ e # 0 /\ e <= line[r] => /\ Place(r, e) \in Nat
                                   /\ Place(r, e) + Len(E) <= Len(q)
  BY <1>1, Written
<1>16. Len(w) = Place(r, i + 1) - 1
  <2>1. Len(S) = (IF b = i THEN Len(A) ELSE 0) /\ Len(T) = (IF e = i THEN Len(E) ELSE 0)
    OBVIOUS
  <2>2. /\ Place(r, i) = i + (IF b # 0 /\ b < i THEN Len(A) ELSE 0)
                            + (IF e # 0 /\ e < i THEN Len(E) ELSE 0)
        /\ Place(r, i + 1) = i + 1 + (IF b # 0 /\ b < i + 1 THEN Len(A) ELSE 0)
                                    + (IF e # 0 /\ e < i + 1 THEN Len(E) ELSE 0)
    BY DEF Place
  <2>3. i \in Nat /\ i # 0 /\ b \in Nat /\ e \in Nat  BY <1>2
  <2> DEFINE lenA == Len(A)  lenE == Len(E)  lenS == Len(S)  lenT == Len(T)  lenQ == Len(q)
             lenW == Len(w)  here == Place(r, i)  then == Place(r, i + 1)
  <2>4. lenW = lenQ + 1 + lenS + lenT  BY <1>14
  <2>5. here = lenQ + 1  BY <1>15
  <2>6. lenA \in Nat /\ lenE \in Nat /\ lenQ \in Nat  BY <1>13
  <2>7. /\ here = i + Before(b, lenA, i) + Before(e, lenE, i)
        /\ then = i + 1 + Before(b, lenA, i + 1) + Before(e, lenE, i + 1)
    BY <2>2 DEF Before
  <2>8. lenS = (IF b = i THEN lenA ELSE 0) /\ lenT = (IF e = i THEN lenE ELSE 0)  BY <2>1
  <2> SUFFICES lenW = then - 1  OBVIOUS
  <2> HIDE DEF lenA, lenE, lenS, lenT, lenQ, lenW, here, then, A, E, b, e, q, w, S, T, i
  <2>9. Before(b, lenA, i + 1) = Before(b, lenA, i) + lenS /\ Before(b, lenA, i) \in Nat
    BY <2>3, <2>6, <2>8, BeforeNext
  <2>10. Before(e, lenE, i + 1) = Before(e, lenE, i) + lenT /\ Before(e, lenE, i) \in Nat
    BY <2>3, <2>6, <2>8, BeforeNext
  <2>11. lenS \in Nat /\ lenT \in Nat  BY <2>6, <2>8
  <2> DEFINE x == Before(b, lenA, i)  y == Before(e, lenE, i)
  <2>12. /\ lenQ + 1 = i + x + y /\ lenW = lenQ + 1 + lenS + lenT
         /\ then = i + 1 + (x + lenS) + (y + lenT) /\ x \in Nat /\ y \in Nat
    BY <2>4, <2>5, <2>7, <2>9, <2>10
  <2> HIDE DEF x, y
  <2> QED BY <2>3, <2>6, <2>11, <2>12
<1>17. \A j \in 1..i : w[Place(r, j)] = Client(r, j)
  <2>1. \A j \in 1..i : j \in 1..line[r] \/ j = i  BY <1>2
  <2> HIDE DEF q, w, i
  <2> QED BY <1>4, <1>14, <1>15, <2>1
<1>18. ASSUME b # 0, b <= i, NEW k \in DOMAIN A PROVE w[Place(r, b) + k] = A[k]
  <2>1. CASE b = i
    <3>1. S = A  BY <2>1
    <3> HIDE DEF A, S, b, q, w
    <3> QED BY <1>13, <1>14, <1>15, <1>18, <2>1, <3>1
  <2>2. CASE b # i
    <3>1. b <= line[r]  BY <1>2, <1>18, <2>2
    <3>2. Place(r, b) + k \in 1..Len(q)
      <4> HIDE DEF A, b, q
      <4> QED BY <1>13, <1>15, <1>18, <3>1
    <3> HIDE DEF A, b, q, w
    <3> QED BY <1>4, <1>14, <1>18, <3>1, <3>2
  <2> QED BY <2>1, <2>2
<1>19. ASSUME e # 0, e <= i, NEW k \in DOMAIN E PROVE w[Place(r, e) + k] = E[k]
  <2>1. CASE e = i
    <3>1. T = E /\ Len(S) = 0  BY <1>10, <2>1
    <3> HIDE DEF E, S, T, e, q, w
    <3> QED BY <1>13, <1>14, <1>15, <1>19, <2>1, <3>1
  <2>2. CASE e # i
    <3>1. e <= line[r]  BY <1>2, <1>19, <2>2
    <3>2. Place(r, e) + k \in 1..Len(q)
      <4> HIDE DEF E, e, q
      <4> QED BY <1>13, <1>15, <1>19, <3>1
    <3> HIDE DEF E, e, q, w
    <3> QED BY <1>4, <1>14, <1>19, <3>1, <3>2
  <2> QED BY <2>1, <2>2
<1>20. /\ injectedAfterBase'[r] <=> (b # 0 /\ b <= i)
       /\ injectedCerts'[r] <=> (b # 0 /\ b <= i /\ HasCerts)
       /\ pending'[r] <=> ~(e # 0 /\ e <= i)
  <2>1. b # 0 /\ b <= i <=> (b # 0 /\ b <= line[r]) \/ b = i  BY <1>2
  <2>2. e # 0 /\ e <= i <=> (e # 0 /\ e <= line[r]) \/ e = i  BY <1>2
  <2> HIDE DEF b, e, i
  <2> QED BY <1>4, <1>7, <1>8, <1>9, <2>1, <2>2
<1>21. /\ b' = b /\ e' = e /\ A' = A /\ E' = E /\ n' = n
       /\ \A j : Place(r, j)' = Place(r, j) /\ Client(r, j)' = Client(r, j)
  BY <1>7, SamePlan
<1> QED
  <2>1. StandsAt(r, A, Place(r, b))' <=> \A k \in DOMAIN A : w[Place(r, b) + k] = A[k]
    <3> HIDE DEF A, b, w
    <3> QED BY <1>12, <1>21 DEF StandsAt
  <2>2. StandsAt(r, E, Place(r, e))' <=> \A k \in DOMAIN E : w[Place(r, e) + k] = E[k]
    <3> HIDE DEF E, e, w
    <3> QED BY <1>12, <1>21 DEF StandsAt
  <2>3. i <= n  BY <1>2
  <2> HIDE DEF w, i
  <2>4. b # 0 /\ b <= i => StandsAt(r, A, Place(r, b))'  BY <1>18, <2>1
  <2>5. e # 0 /\ e <= i => StandsAt(r, E, Place(r, e))'  BY <1>19, <2>2
  <2>6. Place(r, line[r] + 1)' = Place(r, i + 1)
    BY <1>7, <1>21 DEF Place
  <2>7. (Len(result[r]) = Place(r, line[r] + 1) - 1)'  BY <1>12, <1>16, <2>6
  <2>8. (\A j \in 1..line[r] : result[r][Place(r, j)] = Client(r, j))'
    BY <1>7, <1>12, <1>17, <1>21
  <2> QED BY <1>7, <1>20, <1>21, <2>3, <2>4, <2>5, <2>7, <2>8 DEF SoFar

(* The end: what has found no place is appended.                           *)
LEMMA EndPlanned ==
    ASSUME EnvTypeOK, BuildInv, NEW r \in Requests, SoFar(r), EditEnd(r), UNCHANGED lines
    PROVE  Planned(r)'
<1> DEFINE q == result[r]
           b == Base(r)
           e == Entry(r)
           A == AfterBase(r)
           E == EntryBlocks(r)
           n == Len(content[r])
           S == IF e = 0 THEN E ELSE << >>
           T == IF b = 0 THEN Certs(r, "raw") ELSE << >>
           Z == EndBlocks(r)
           X == OwnPieces(r)
           w == q \o Z
<1>1. EditTypeOK /\ ResultInv(r)  BY DEF BuildInv, ResultsInv
<1>2. n \in Nat /\ b \in 0..n /\ e \in 0..n /\ line[r] = n
  BY <1>1, LinesFacts DEF EditEnd
<1>3. /\ injectedAfterBase[r] <=> (b # 0 /\ b <= n)
      /\ injectedCerts[r] <=> (b # 0 /\ b <= n /\ HasCerts)
      /\ pending[r] <=> ~(e # 0 /\ e <= n)
      /\ \A j \in 1..n : q[Place(r, j)] = Client(r, j)
      /\ b # 0 /\ b <= n => \A k \in DOMAIN A : q[Place(r, b) + k] = A[k]
      /\ e # 0 /\ e <= n => \A k \in DOMAIN E : q[Place(r, e) + k] = E[k]
  BY <1>2 DEF SoFar, StandsAt
<1>4. b <= n /\ e <= n /\ b \in Nat /\ e \in Nat  BY <1>2
<1>5. A \in Seq(X) /\ E \in Seq(X) /\ q \in Seq(X) /\ Certs(r, "raw") \in Seq(X)
      /\ << >> \in Seq(X)
  <2>1. "raw" \in Contexts  BY DEF Contexts
  <2> QED BY <1>1, <2>1, BlockTypes, EntryBlocksType DEF ResultInv
<1>6. S \in Seq(X) /\ T \in Seq(X)  BY <1>5
<1>7. Z = S \o T  BY DEF EndBlocks
<1>8. result'[r] = w
  <2> DEFINE s == IF pending[r] THEN BeforeEntrypoint(r, EnvCtx(r)) ELSE << >>
             t == IF injectedCerts[r] THEN << >> ELSE Certs(r, "raw")
  <2>1. result'[r] = q \o s \o t  BY <1>1 DEF EditEnd, EditTypeOK
  <2>2. e = 0 => BeforeEntrypoint(r, EnvCtx(r)) = E
    <3>1. e = 0 => (injectedAfterBase[r] <=> (b # 0 /\ (e = 0 \/ b < e)))  BY <1>3, <1>4
    <3> QED BY <3>1 DEF EnvCtx, EntryBlocks
  <2>3. s = S  BY <1>3, <1>4, <2>2
  <2>4. t = T
    <3>1. CASE b = 0  BY <1>3, <3>1
    <3>2. CASE b # 0 /\ HasCerts  BY <1>3, <1>4, <3>2
    <3>3. CASE b # 0 /\ ~HasCerts  BY <1>3, <3>3 DEF Certs
    <3> QED BY <3>1, <3>2, <3>3
  <2> HIDE DEF s, t, S, T, q, Z, X
  <2>5. (q \o S) \o T = q \o (S \o T)
    <3>1. q \in Seq(X) /\ S \in Seq(X) /\ T \in Seq(X)  BY <1>5, <1>6
    <3> QED BY <3>1, Regrouped
  <2> QED BY <1>7, <2>1, <2>3, <2>4, <2>5
<1>9. Len(q) \in Nat /\ Len(A) \in Nat /\ Len(E) \in Nat /\ DOMAIN A = 1..Len(A)
      /\ DOMAIN E = 1..Len(E) /\ Z \in Seq(X)
  <2> HIDE DEF S, T, Z
  <2> QED BY <1>5, <1>6, <1>7, ConcatIn
<1>10. /\ Len(w) = Len(q) + Len(Z)
       /\ \A j \in 1..Len(q) : w[j] = q[j]
       /\ \A k \in 1..Len(Z) : w[Len(q) + k] = Z[k]
  <2>1. q \in Seq(X) /\ Z \in Seq(X)  BY <1>5, <1>9
  <2> HIDE DEF Z, q, X
  <2>2. Len(w) = Len(q) + Len(Z)  BY <2>1, ConcatIn
  <2>3. \A j \in 1..Len(q) : w[j] = q[j]  BY <2>1, ConcatIn
  <2>4. \A k \in 1..Len(Z) : w[Len(q) + k] = Z[k]  BY <2>1, ConcatIn
  <2> QED BY <2>2, <2>3, <2>4
<1>11. DOMAIN Z = 1..Len(Z)
  <2> HIDE DEF Z, X
  <2> QED BY <1>9
<1>12. /\ \A j \in 1..n : Place(r, j) \in 1..Len(q)
       /\ Place(r, n + 1) = Len(q) + 1
       /\ b # 0 => Place(r, b) \in Nat /\ Place(r, b) + Len(A) <= Len(q)
       /\ e # 0 => Place(r, e) \in Nat /\ Place(r, e) + Len(E) <= Len(q)
  BY <1>1, <1>2, <1>4, Written
<1>13. Len(q) = Place(r, n + 1) - 1
  <2> HIDE DEF q, n
  <2> QED BY <1>9, <1>12
<1>14. \A j \in 1..n : w[Place(r, j)] = Client(r, j)
  <2> HIDE DEF q, w, n
  <2> QED BY <1>3, <1>10, <1>12
<1>15. ASSUME b # 0, NEW k \in DOMAIN A PROVE w[Place(r, b) + k] = A[k]
  <2> HIDE DEF A, b, q, w, n
  <2>1. Place(r, b) + k \in 1..Len(q)  BY <1>9, <1>12, <1>15
  <2> QED BY <1>3, <1>4, <1>10, <1>15, <2>1
<1>16. ASSUME e # 0, NEW k \in DOMAIN E PROVE w[Place(r, e) + k] = E[k]
  <2> HIDE DEF E, e, q, w, n
  <2>1. Place(r, e) + k \in 1..Len(q)  BY <1>9, <1>12, <1>16
  <2> QED BY <1>3, <1>4, <1>10, <1>16, <2>1
<1>17. UNCHANGED <<content[r], lines[r], certFiles[r], inline[r]>>  BY DEF EditEnd
<1>18. /\ b' = b /\ e' = e /\ A' = A /\ E' = E /\ n' = n /\ Z' = Z
       /\ \A j : Place(r, j)' = Place(r, j) /\ Client(r, j)' = Client(r, j)
  BY <1>17, SamePlan
<1> QED
  <2> HIDE DEF A, E, Z, b, e, n, w, q
  <2>1. Place(r, n + 1)' = Place(r, n + 1)  BY <1>18 DEF Place
  <2>2. (Len(result[r]) = Place(r, n + 1) - 1 + Len(Z))'
    BY <1>8, <1>10, <1>13, <1>18, <2>1
  <2>3. (\A j \in 1..n : result[r][Place(r, j)] = Client(r, j))'
    BY <1>8, <1>14, <1>18
  <2>4. (b # 0 => StandsAt(r, A, Place(r, b)))'
    BY <1>8, <1>15, <1>18 DEF StandsAt
  <2>5. (e # 0 => StandsAt(r, E, Place(r, e)))'
    BY <1>8, <1>16, <1>18 DEF StandsAt
  <2>6. (StandsAt(r, Z, Place(r, n + 1) - 1))'
    BY <1>8, <1>10, <1>11, <1>13, <1>18, <2>1 DEF StandsAt
  <2> QED BY <2>2, <2>3, <2>4, <2>5, <2>6 DEF Planned, A, E, Z, b, e, n

LEMMA BeginSoFar ==
    ASSUME BuildInv, BuildInv', NEW r \in Requests, NEW t, NEW in, Begin(r, t, in)
    PROVE  SoFar(r)'
<1>1. EditTypeOK /\ EditTypeOK'  BY DEF BuildInv
<1>2. /\ line'[r] = 0 /\ result'[r] = << >> /\ ~injectedAfterBase'[r] /\ ~injectedCerts'[r]
      /\ pending'[r]
  BY <1>1 DEF Begin, EditTypeOK
<1>3. content'[r] \in Seq(Lines)  BY <1>1, EditAssumption DEF EditTypeOK
<1> DEFINE n == Len(content[r])'
           b == Base(r)'
           e == Entry(r)'
<1>4. n \in Nat  BY <1>3
<1>5. b \in Nat /\ e \in Nat  BY <1>3, FirstIs DEF Base, Entry
<1>6. (Place(r, line[r] + 1) = 1)'
  <2> DEFINE a == Len(AfterBase(r))'
             m == Len(EntryBlocks(r))'
  <2>1. Place(r, line[r] + 1)' = 0 + 1 + (IF b # 0 /\ b < 0 + 1 THEN a ELSE 0)
                                        + (IF e # 0 /\ e < 0 + 1 THEN m ELSE 0)
    BY <1>2 DEF Place
  <2> HIDE DEF a, m, b, e
  <2>2. ~(b # 0 /\ b < 0 + 1) /\ ~(e # 0 /\ e < 0 + 1)  BY <1>5
  <2> QED BY <2>1, <2>2
<1>7. Len(result'[r]) = 0  BY <1>2
<1>8. 0 <= n /\ ~(b # 0 /\ b <= 0) /\ ~(e # 0 /\ e <= 0)  BY <1>4, <1>5
<1> QED BY <1>2, <1>6, <1>7, <1>8 DEF SoFar

LEMMA EditInvStep ==
    ASSUME EnvTypeOK, BuildInv, BuildInv', NEW r \in Requests, EditInv(r), [Next]_vars
    PROVE  EditInv(r)'
<1>1. r \in Conns /\ BuildTypeOK /\ EditTypeOK  BY RequestsAreConns DEF BuildInv
<1>2. WhereInv(r)  BY DEF EditInv
<1>3. CASE Untouched(r)
  <2>1. WhereInv(r)'  BY <1>2, <1>3 DEF Untouched, Edit, Tar, WhereInv
  <2>2. CASE editing[r] = "none"
    BY <1>3, <2>1, <2>2 DEF Untouched, Edit, EditInv
  <2>3. CASE editing[r] # "none"
    <3>1. at[r] # "peek"  BY <1>2, <2>3 DEF WhereInv
    <3>2. UNCHANGED <<Edit(r), lines[r]>>  BY <1>3, <3>1 DEF Untouched
    <3>3. SoFar(r)' = SoFar(r) /\ Planned(r)' = Planned(r) /\ editing'[r] = editing[r]
      BY <3>2, SameEdit DEF Edit
    <3> QED BY <2>1, <3>3 DEF EditInv
  <2> QED BY <2>2, <2>3
<1>4. CASE HandlerOver(r)  BY <1>4 DEF HandlerOver, EditInv, WhereInv
<1>5. ASSUME editing'[r] = "none", at'[r] # "lines" PROVE EditInv(r)'
  BY <1>5 DEF EditInv, WhereInv
<1>6. CASE EditStep(r)
  <2>1. CASE Arrive(r) \/ Take(r) \/ Finish(r)
    <3>1. at[r] \in {"peek", "snapshot", "rules", "pass"} /\ UNCHANGED editing
      BY <2>1 DEF Arrive, OpenSession, Pass, ReceiveBuild, Take, Finish, Goes, editVars
    <3>2. editing'[r] = "none"  BY <1>2, <3>1 DEF WhereInv
    <3>3. at'[r] # "lines"
      BY <1>1, <2>1 DEF Arrive, OpenSession, Pass, ReceiveBuild, Take, Finish, Goes, BuildTypeOK
    <3> QED BY <1>5, <3>2, <3>3
  <2>2. CASE ReadCert(r)
    <3>1. next[r] \in Nat /\ Len(CertPaths) \in Nat /\ next[r] <= Len(CertPaths)
      BY <1>1, <2>2, CertFacts DEF ReadCert, BuildTypeOK
    <3>2. editing[r] = "none"  BY <1>2, <3>1 DEF WhereInv
    <3> QED BY <1>5, <2>2, <3>2 DEF ReadCert
  <2>3. CASE StartEdit(r)
    BY <1>1, <1>5, <2>3 DEF StartEdit, Called, Goes, BuildTypeOK, EditTypeOK
  <2>4. CASE Gathered(r)
    <3>1. PICK t, in : Begin(r, t, in)  BY <2>4 DEF Gathered
    <3>2. SoFar(r)'  BY <3>1, BeginSoFar
    <3>3. /\ editing'[r] = "lines" /\ at[r] = "gather" /\ at'[r] = "lines" /\ next' = next
      BY <1>1, <2>4, <3>1 DEF Gathered, Goes, Begin, Locals, BuildTypeOK, EditTypeOK
    <3>4. next'[r] > Len(CertPaths)  BY <1>1, <3>3 DEF BuildInv, TarInv
    <3> QED BY <3>2, <3>3, <3>4 DEF EditInv, WhereInv
  <2>5. CASE LineStep(r)
    <3>1. EditLine(r) /\ UNCHANGED <<lines, at, next, editing>> /\ editing[r] = "lines"
      BY <2>5 DEF LineStep, EditLine, envVars, buildVars
    <3>2. SoFar(r)'  BY <3>1, LineSoFar DEF EditInv
    <3> QED BY <1>2, <3>1, <3>2 DEF EditInv, WhereInv
  <2>6. CASE SessionEdited(r) \/ BuildEdited(r)
    <3>1. /\ EditEnd(r) /\ UNCHANGED lines /\ UNCHANGED next /\ editing[r] = "lines"
          /\ editing'[r] = "done" /\ at'[r] \in {"expand", "forward"}
      BY <1>1, <2>6 DEF SessionEdited, BuildEdited, EditEnd, Goes, envVars, Locals, BuildTypeOK,
                        EditTypeOK
    <3>2. Planned(r)'  BY <3>1, EndPlanned DEF EditInv
    <3> QED BY <1>2, <3>1, <3>2 DEF EditInv, WhereInv
  <2> QED BY <1>6, <2>1, <2>2, <2>3, <2>4, <2>5, <2>6 DEF EditStep
<1> QED BY <1>3, <1>4, <1>6, SeenFromOne

EditedBehind == \A r \in Requests : editing[r] = "done" => Planned(r)

(* For any rules, Dockerfiles and certificates, and however the turns of   *)
(* one edit mix with those of others, the result has every line of the     *)
(* client and every block once, each in the place the loop of modify gives *)
(* it: the before_entrypoint blocks stand behind the first CMD or          *)
(* ENTRYPOINT.                                                             *)
THEOREM EditPlaced == Spec => []EditedBehind
<1> DEFINE All == \A r \in Requests : EditInv(r)
<1>1. Init => All
  <2> SUFFICES ASSUME Init, NEW r \in Requests PROVE EditInv(r)  OBVIOUS
  <2>1. editing[r] = "none" /\ at[r] = "peek"
    BY RequestsAreConns DEF Init, EditInit
  <2> QED BY <2>1 DEF EditInv, WhereInv
<1>2. EnvTypeOK /\ BuildInv /\ BuildInv' /\ All /\ [Next]_vars => All'  BY EditInvStep
<1>3. All => EditedBehind  BY DEF EditInv, EditedBehind
<1> HIDE DEF All
<1> QED
  BY <1>1, <1>2, <1>3, BuildInvCorrect, BuildsExpand, EnvTypeCorrect, PTL DEF Spec

(* And so it is as planned, whichever side of that line they belong on.    *)
THEOREM EditCorrect == Spec => []EditedAsPlanned
<1>1. ASSUME EnvTypeOK, BuildInv, NEW r \in Requests, Planned(r) PROVE Arranged(r, FALSE)
  <2>1. EditTypeOK  BY <1>1 DEF BuildInv
  <2>2. ASSUME NEW i \in Nat PROVE Place(r, i) \in Nat
    <3>1. i + 1 \in Nat /\ i < i + 1  OBVIOUS
    <3> QED BY <1>1, <2>1, <3>1, PlaceFacts
  <2>3. \A i \in 1..Len(content[r]) : Place(r, i) + 0 = Place(r, i)
    <3>1. Len(content[r]) \in Nat  BY <1>1, <2>1, LinesFacts
    <3> QED BY <2>2, <3>1
  <2>4. Place(r, Entry(r)) - 0 = Place(r, Entry(r))
    <3>1. Entry(r) \in Nat  BY <1>1, <2>1, LinesFacts
    <3> QED BY <2>2, <3>1
  <2> QED BY <1>1, <2>3, <2>4 DEF Planned, Arranged
<1>2. EnvTypeOK /\ BuildInv /\ EditedBehind => EditedAsPlanned
  <2> SUFFICES ASSUME EnvTypeOK, BuildInv, EditedBehind, NEW r \in Requests, editing[r] = "done"
               PROVE  \E ahead \in BOOLEAN : Arranged(r, ahead)
    BY DEF EditedAsPlanned
  <2>1. Arranged(r, FALSE)  BY <1>1 DEF EditedBehind
  <2> QED BY <2>1
<1> QED BY <1>2, BuildInvCorrect, BuildsExpand, EnvTypeCorrect, EditPlaced, PTL

-----------------------------------------------------------------------------
(* A build runs down: wherever its handler is the next step can be taken,  *)
(* and every step takes it on.                                             *)

Stage == [peek |-> 0, snapshot |-> 1, rules |-> 1, expand |-> 2, gather |-> 3, lines |-> 4,
          forward |-> 5, pass |-> 6, done |-> 7]
FwdStage == [none |-> 0, write |-> 1, await |-> 2, copy |-> 3, returned |-> 4, gone |-> 5]

(* One of the steps of Expand: the next rule with a file is read if there  *)
(* is one, an entry is left or the merge is over.                          *)
ExpandOpen(r) ==
    \/ phase[r] = "rule" /\ ((\E i \in Rules : NextWithFile(r, i))
                             \/ \A i \in Rules : i >= rule[r] => ~HasFile(i))
    \/ phase[r] = "merge" /\ (key[r] # NoKey \/ ToMerge(r) # {} \/ todo[r] = Empty)

(* The parts of a build, each with a state of its own, are where the place *)
(* of its handler needs them for its next step.  A session that has        *)
(* expanded its rules waits for messages; a tunnel, for its peers.         *)
OpenAt(r) ==
    /\ at[r] = "rules" => ~IsSession(r) /\ phase[r] = "none"
    /\ at[r] = "snapshot" => IsSession(r) /\ phase[r] = "none"
    /\ at[r] = "expand" =>
         \/ ExpandOpen(r)
         \/ phase[r] = "ready" /\ (\/ next[r] <= Len(CertPaths)
                                   \/ ~ranging[r] /\ (IsSession(r) \/ served[r] < 1))
    /\ at[r] = "gather" => ranging[r] /\ editing[r] = "none"
    /\ at[r] = "lines" => editing[r] = "lines" /\ line[r] <= Len(content[r])
    /\ at[r] = "forward" => phase[r] \in {"none", "ready"} /\ ~ranging[r] /\ fwd[r] = "none"
    /\ at[r] = "pass" =>
         \/ fwd[r] \in {"none", "write", "await"}
         \/ fwd[r] = "copy" /\ way[r] = "tunnel"
         \/ fwd[r] = "returned" /\ (copier[r] # "copy" \/ UpEnds(r))

BuildOpen == \A r \in Requests : OpenAt(r)

(* A step of a request's handler takes it to a later place, or on within   *)
(* its place; and a step of anybody else leaves it there, or ends it.      *)
MovesOn(r) ==
    \/ Stage[at'[r]] > Stage[at[r]]
    \/ /\ UNCHANGED at[r]
       /\ \/ at[r] = "expand" /\ phase[r] # "ready" /\ ExpandAdvances(r)
          \/ at[r] = "expand" /\ UNCHANGED phase[r] /\ next'[r] = next[r] + 1
          \/ at[r] = "lines" /\ line'[r] = line[r] + 1
          \/ at[r] = "pass" /\ FwdStage[fwd'[r]] > FwdStage[fwd[r]]

Stands(r) ==
    /\ UNCHANGED <<at[r], fwd[r]>>
    /\ at[r] = "expand" => UNCHANGED <<phase[r], rule[r], todo[r], key[r], next[r]>>
    /\ at[r] = "lines" => UNCHANGED line[r]

(* Only a session goes back, when it has edited a message.                 *)
BuildsAdvance ==
    \A r \in Requests : Stands(r) \/ MovesOn(r) \/ (IsSession(r) /\ SessionEdited(r))

(* Where the parts of a request are.                                       *)
PlaceInv(r) ==
    /\ at[r] = "rules" => ~IsSession(r)
    /\ at[r] = "snapshot" => IsSession(r)
    /\ at[r] \in {"peek", "snapshot", "rules"} => phase[r] = "none" /\ served[r] = 0
    /\ at[r] = "peek" => IsSession(r)
    /\ at[r] = "expand" => /\ phase[r] \in {"rule", "merge", "ready"}
                           /\ ~IsSession(r) => served[r] = 0
    /\ at[r] \in {"gather", "lines"} => phase[r] = "ready"
    /\ at[r] = "forward" => phase[r] \in {"none", "ready"}
    /\ at[r] = "gather" => editing[r] = "none"
    /\ at[r] = "lines" => editing[r] = "lines" /\ line[r] <= Len(content[r])
    /\ ranging[r] <=> at[r] = "gather"
    /\ at[r] \notin {"pass", "done"} => fwd[r] = "none"
    /\ at[r] # "peek" => (fwd[r] = "gone" <=> at[r] = "done")

(* What PlaceInv and Stands look at.                                       *)
Part(r) == <<at[r], tar[r], next[r], served[r], phase[r], rule[r], todo[r], key[r], ranging[r],
             editing[r], line[r], content[r], fwd[r]>>

AllTypes == AtInv /\ TypeInv /\ FwdTypeOK /\ BuildInv

LEMMA PartSame ==
    ASSUME NEW r \in Requests, PlaceInv(r), UNCHANGED Part(r)
    PROVE  PlaceInv(r)' /\ Stands(r)
BY DEF Part, PlaceInv, Stands, IsSession

(* The steps of another connection.                                        *)
LEMMA OthersEnv ==
    ASSUME AllTypes, NEW r \in Requests, NEW c \in Conns \ {r},
           Arrive(c) \/ Serve(c) \/ CloseSession(c)
    PROVE  UNCHANGED <<phase[r], rule[r], todo[r], key[r], ranging[r]>>
<1> USE DEF AllTypes
<1>1. ASSUME UNCHANGED envVars PROVE UNCHANGED <<phase[r], rule[r], todo[r], key[r], ranging[r]>>
  BY <1>1 DEF envVars
<1>2. ASSUME Act(c), c \in Requests
      PROVE  UNCHANGED <<phase[r], rule[r], todo[r], key[r], ranging[r]>>
  <2>1. UNCHANGED <<phase[r], rule[r], todo[r], key[r]>>  BY <1>2, OthersStay DEF Of
  <2>2. ranging \in [Requests -> BOOLEAN]  BY DEF TypeInv, EnvTypeOK
  <2>3. CASE TakeRules(c) \/ Expand(c)
    <3>1. UNCHANGED ranging
      BY <2>3 DEF TakeRules, Expand, ReadEnvFile, ReadFails, LookUpKey, WriteKey, Merged,
                  Expanded
    <3> QED BY <2>1, <3>1
  <2>4. CASE StartRange(c) \/ EndRange(c)  BY <2>1, <2>2, <2>4 DEF StartRange, EndRange
  <2>5. CASE Return(c)  BY <2>1, <2>2, <2>5 DEF Return, Forgotten
  <2> QED BY <1>2, <2>3, <2>4, <2>5 DEF Act
<1>3. CASE Arrive(c)  BY <1>1, <1>3 DEF Arrive, OpenSession, Pass, ReceiveBuild
<1>4. CASE ReadCert(c) \/ LineStep(c) \/ SessionEdited(c) \/ BuildEdited(c) \/ Forward(c)
           \/ Finish(c)
  BY <1>1, <1>4 DEF ReadCert, LineStep, SessionEdited, BuildEdited, Forward, Finish
<1>5. CASE Take(c) \/ ExpandStep(c) \/ StartEdit(c) \/ Gathered(c) \/ ForwardBuild(c)
           \/ CloseSession(c)
  <2>1. at[c] \notin {"peek", "pass", "done"}
    BY <1>5 DEF Take, ExpandStep, StartEdit, Gathered, ForwardBuild, CloseSession, Goes, Ready
  <2>2. c \in Requests  BY <2>1 DEF AtInv
  <2>3. Act(c)
    BY <1>5 DEF Act, Take, ExpandStep, StartEdit, Gathered, ForwardBuild, CloseSession, EndRequest
  <2> QED BY <1>2, <2>2, <2>3
<1> QED BY <1>3, <1>4, <1>5 DEF Serve

LEMMA OthersFwd ==
    ASSUME AllTypes, NEW r \in Requests, NEW c \in Conns \ {r},
           Arrive(c) \/ Serve(c) \/ CloseSession(c)
    PROVE  UNCHANGED fwd[r]
<1>1. r \in Conns /\ FwdTypeOK  BY RequestsAreConns DEF AllTypes
<1>2. ASSUME StepOf(c) PROVE UNCHANGED fwd[r]  BY <1>1, <1>2, OneAtATime DEF StateOf
<1>3. ASSUME Gone({c}) PROVE UNCHANGED fwd[r]  BY <1>1, <1>3 DEF Gone, FwdTypeOK
<1>4. CASE Arrive(c)  BY <1>4 DEF Arrive, OpenSession, Pass, ReceiveBuild, fwdVars
<1>5. CASE Take(c) \/ ExpandStep(c) \/ ReadCert(c) \/ StartEdit(c) \/ Gathered(c)
  BY <1>5 DEF Take, ExpandStep, ReadCert, StartEdit, Gathered, fwdVars
<1>6. CASE LineStep(c) \/ SessionEdited(c) \/ BuildEdited(c)
  BY <1>6 DEF LineStep, SessionEdited, BuildEdited, fwdVars
<1>7. CASE ForwardBuild(c)
  <2>1. "request" \in Ways  BY DEF Ways
  <2> QED BY <1>2, <1>7, <2>1 DEF ForwardBuild, StepOf
<1>8. CASE Forward(c)  BY <1>2, <1>8 DEF Forward, StepOf
<1>9. CASE Finish(c) \/ CloseSession(c)  BY <1>3, <1>9 DEF Finish, CloseSession
<1> QED BY <1>4, <1>5, <1>6, <1>7, <1>8, <1>9 DEF Serve

LEMMA OthersServed ==
    ASSUME AllTypes, NEW r \in Requests, NEW c \in Conns \ {r},
           Arrive(c) \/ Serve(c) \/ CloseSession(c)
    PROVE  UNCHANGED served[r]
<1>1. r \in Conns /\ served \in [Conns -> Nat]
  BY RequestsAreConns DEF AllTypes, BuildInv, BuildTypeOK
<1>2. CASE StartEdit(c)  BY <1>1, <1>2 DEF StartEdit
<1>3. CASE ForwardBuild(c) \/ CloseSession(c)
  BY <1>1, <1>3 DEF ForwardBuild, CloseSession, EndRequest, Blanked
<1>4. CASE Arrive(c)  BY <1>4 DEF Arrive, OpenSession, Pass, ReceiveBuild, Locals
<1>5. CASE Take(c) \/ ExpandStep(c) \/ ReadCert(c) \/ Gathered(c) \/ LineStep(c)
           \/ SessionEdited(c) \/ BuildEdited(c) \/ Forward(c) \/ Finish(c)
  BY <1>5 DEF Take, ExpandStep, ReadCert, Gathered, LineStep, SessionEdited, BuildEdited,
              Forward, Finish, Locals, buildVars
<1> QED BY <1>2, <1>3, <1>4, <1>5 DEF Serve

LEMMA OthersPart ==
    ASSUME AllTypes, NEW r \in Requests, NEW c \in Conns \ {r},
           Arrive(c) \/ Serve(c) \/ CloseSession(c)
    PROVE  UNCHANGED Part(r)
<1>1. Untouched(r)  BY OthersStep DEF AllTypes, TypeInv
<1>2. UNCHANGED <<at[r], tar[r], next[r], editing[r], line[r], content[r]>>
  BY <1>1 DEF Untouched, Edit, Tar
<1> QED BY <1>2, OthersEnv, OthersFwd, OthersServed DEF Part

(* The steps of its own.                                                   *)
LEMMA PlaceTypes ==
    ASSUME AllTypes, NEW r \in Requests
    PROVE  /\ r \in Conns /\ at \in [Conns -> Places] /\ tar \in [Conns -> Tars \cup {Unreadable}]
           /\ next \in [Conns -> 1..Len(CertPaths) + 1] /\ served \in [Conns -> Nat]
           /\ phase \in [Requests -> {"none", "rule", "merge", "ready", "over"}]
           /\ ranging \in [Requests -> BOOLEAN] /\ rule \in [Requests -> 1..Len(Injections) + 1]
           /\ editing \in [Requests -> {"none", "lines", "done"}]
           /\ content \in [Requests -> Dockerfiles] /\ line \in [Requests -> Nat]
           /\ fwd \in [Conns -> {"none", "write", "await", "copy", "returned", "gone"}]
BY RequestsAreConns
   DEF AllTypes, TypeInv, EnvTypeOK, FwdTypeOK, BuildInv, BuildTypeOK, EditTypeOK

LEMMA OwnArrival ==
    ASSUME AllTypes, NEW r \in Requests, PlaceInv(r), Arrive(r)
    PROVE  PlaceInv(r)' /\ MovesOn(r)
<1>1. /\ at[r] = "peek" /\ UNCHANGED <<phase, ranging, served, fwd>>
      /\ at'[r] \in {"snapshot", "pass", "rules", "forward"}
      /\ at'[r] = "snapshot" => UNCHANGED tar
      /\ at'[r] = "rules" <=> tar'[r] # Unreadable
  <2>1. CASE OpenSession(r) \/ Pass(r)
    BY <2>1, PlaceTypes DEF OpenSession, Pass, Goes, envVars, fwdVars, Locals, PlaceInv, IsSession
  <2>2. ASSUME NEW t \in Tars \cup {Unreadable}, ReceiveBuild(r, t)
        PROVE  /\ at[r] = "peek" /\ UNCHANGED <<phase, ranging, served, fwd>>
               /\ at'[r] \in {"rules", "forward"}
               /\ at'[r] = "rules" <=> tar'[r] # Unreadable
    <3>1. at[r] = "peek" /\ UNCHANGED <<phase, ranging, served, fwd>>
      BY <2>2 DEF ReceiveBuild, Goes, envVars, fwdVars
    <3>2. CASE HasDockerfile(t)
      <4>1. at'[r] = "rules" /\ tar'[r] = t /\ t # Unreadable
        BY <2>2, <3>2, PlaceTypes DEF ReceiveBuild, Goes, HasDockerfile
      <4> QED BY <3>1, <4>1
    <3>3. CASE ~HasDockerfile(t)
      <4>1. at'[r] = "forward" /\ UNCHANGED tar
        BY <2>2, <3>3, PlaceTypes DEF ReceiveBuild, Goes
      <4> QED BY <3>1, <4>1 DEF PlaceInv, IsSession
    <3> QED BY <3>2, <3>3
  <2> QED BY <2>1, <2>2 DEF Arrive
<1>2. MovesOn(r)  BY <1>1 DEF MovesOn, Stage
<1>3. PlaceInv(r)'  BY <1>1 DEF PlaceInv, IsSession
<1> QED BY <1>2, <1>3

LEMMA OwnRules ==
    ASSUME AllTypes, NEW r \in Requests, PlaceInv(r), Take(r) \/ ExpandStep(r) \/ ReadCert(r)
    PROVE  PlaceInv(r)' /\ MovesOn(r)
<1>1. CASE Take(r)
  <2>1. /\ at[r] \in {"snapshot", "rules"} /\ at'[r] = "expand" /\ phase'[r] = "rule"
        /\ UNCHANGED <<ranging, served, tar, fwd>>
    BY <1>1, PlaceTypes DEF Take, Goes, TakeRules, Locals, fwdVars
  <2>2. MovesOn(r)  BY <2>1 DEF MovesOn, Stage
  <2>3. PlaceInv(r)'  BY <2>1 DEF PlaceInv, IsSession
  <2> QED BY <2>2, <2>3
<1>2. CASE ExpandStep(r)
  <2>1. at[r] = "expand" /\ Expand(r) /\ UNCHANGED <<at, served, tar, fwd>>
    BY <1>2 DEF ExpandStep, buildVars, fwdVars
  <2>2. ExpandAdvances(r)  BY <2>1, OwnAdvances DEF AllTypes
  <2>3. UNCHANGED ranging
    BY <2>1 DEF Expand, ReadEnvFile, ReadFails, LookUpKey, WriteKey, Merged, Expanded
  <2>4. phase[r] # "ready" /\ phase'[r] \in {"rule", "merge", "ready"}
    BY <2>2 DEF ExpandAdvances
  <2>5. MovesOn(r)  BY <2>1, <2>2, <2>4 DEF MovesOn
  <2>6. PlaceInv(r)'  BY <2>1, <2>3, <2>4 DEF PlaceInv, IsSession
  <2> QED BY <2>5, <2>6
<1>3. CASE ReadCert(r)
  <2>1. /\ at[r] = "expand" /\ next'[r] = next[r] + 1
        /\ UNCHANGED <<at, phase, ranging, served, tar, fwd, editing>>
    BY <1>3, PlaceTypes DEF ReadCert, envVars, fwdVars
  <2>2. MovesOn(r)  BY <2>1 DEF MovesOn
  <2>3. PlaceInv(r)'  BY <2>1 DEF PlaceInv, IsSession
  <2> QED BY <2>2, <2>3
<1> QED BY <1>1, <1>2, <1>3

LEMMA OwnEdit ==
    ASSUME AllTypes, NEW r \in Requests, PlaceInv(r),
           StartEdit(r) \/ Gathered(r) \/ LineStep(r) \/ SessionEdited(r) \/ BuildEdited(r)
    PROVE  PlaceInv(r)' /\ (MovesOn(r) \/ (IsSession(r) /\ SessionEdited(r)))
<1> DEFINE Goal == PlaceInv(r)' /\ (MovesOn(r) \/ (IsSession(r) /\ SessionEdited(r)))
<1>1. CASE StartEdit(r)
  <2>1. /\ at[r] = "expand" /\ at'[r] = "gather" /\ ranging'[r] = TRUE /\ editing'[r] = "none"
        /\ UNCHANGED <<tar, fwd, phase>> /\ phase[r] = "ready"
    BY <1>1, PlaceTypes DEF StartEdit, Ready, StartRange, Goes, Called, fwdVars
  <2>2. MovesOn(r)  BY <2>1 DEF MovesOn, Stage
  <2>3. PlaceInv(r)'  BY <2>1 DEF PlaceInv, IsSession
  <2> QED BY <2>2, <2>3
<1>2. CASE Gathered(r)
  <2>1. /\ at[r] = "gather" /\ at'[r] = "lines" /\ ranging'[r] = FALSE
        /\ UNCHANGED <<tar, fwd, phase>>
    BY <1>2, PlaceTypes DEF Gathered, EndRange, Goes, Locals, fwdVars
  <2>2. PICK t, in : Begin(r, t, in)  BY <1>2 DEF Gathered
  <2>3. editing'[r] = "lines" /\ line'[r] = 0  BY <2>2, PlaceTypes DEF Begin
  <2>4. Len(content'[r]) \in Nat
    <3>1. content'[r] = t /\ t \in Dockerfiles
      <4>1. Text(r) \in Dockerfiles \/ IsSession(r)
        BY PlaceTypes, DockerfileFound DEF AllTypes, BuildInv, TarInv, IsSession, Text
      <4> QED BY <1>2, <2>2, <4>1, PlaceTypes DEF Begin, Gathered
    <3> QED BY <3>1, EditAssumption
  <2>5. MovesOn(r)  BY <2>1 DEF MovesOn, Stage
  <2>6. PlaceInv(r)'  BY <2>1, <2>3, <2>4 DEF PlaceInv, IsSession
  <2> QED BY <2>5, <2>6
<1>3. CASE LineStep(r)
  <2>1. /\ at[r] = "lines" /\ line'[r] = line[r] + 1 /\ line[r] < Len(content[r])
        /\ UNCHANGED <<at, phase, ranging, served, tar, fwd, editing, content>>
    BY <1>3, PlaceTypes DEF LineStep, EditLine, envVars, fwdVars, buildVars
  <2>2. Len(content[r]) \in Nat /\ line[r] \in Nat  BY EditAssumption, PlaceTypes
  <2>3. line'[r] <= Len(content'[r])  BY <2>1, <2>2
  <2>4. MovesOn(r)  BY <2>1 DEF MovesOn
  <2>5. PlaceInv(r)'  BY <2>1, <2>3 DEF PlaceInv, IsSession
  <2> QED BY <2>4, <2>5
<1>4. CASE SessionEdited(r)
  <2>1. /\ IsSession(r) /\ at[r] = "lines" /\ at'[r] = "expand"
        /\ UNCHANGED <<phase, ranging, tar, fwd>>
    BY <1>4, PlaceTypes DEF SessionEdited, Goes, envVars, fwdVars, Locals
  <2>2. PlaceInv(r)'  BY <2>1 DEF PlaceInv, IsSession
  <2> QED BY <1>4, <2>1, <2>2
<1>5. CASE BuildEdited(r)
  <2>1. /\ at[r] = "lines" /\ at'[r] = "forward" /\ UNCHANGED <<phase, ranging, tar, fwd>>
    BY <1>5, PlaceTypes DEF BuildEdited, Goes, envVars, fwdVars
  <2>2. MovesOn(r)  BY <2>1 DEF MovesOn, Stage
  <2>3. PlaceInv(r)'  BY <2>1 DEF PlaceInv, IsSession
  <2> QED BY <2>2, <2>3
<1> QED BY <1>1, <1>2, <1>3, <1>4, <1>5

LEMMA OwnEnd ==
    ASSUME AllTypes, NEW r \in Requests, PlaceInv(r),
           ForwardBuild(r) \/ Forward(r) \/ Finish(r) \/ CloseSession(r)
    PROVE  PlaceInv(r)' /\ (MovesOn(r) \/ Stands(r))
<1>1. ASSUME NEW p \in {"pass", "done"}, EndRequest(r, p)
      PROVE  at'[r] = p /\ ranging'[r] = FALSE
  BY <1>1, PlaceTypes DEF EndRequest, Blanked, Return, Forgotten
<1>2. CASE ForwardBuild(r)
  <2>1. at[r] = "forward" /\ at'[r] = "pass" /\ ranging'[r] = FALSE  BY <1>1, <1>2 DEF ForwardBuild
  <2>2. fwd'[r] \in {"write", "returned"}
    BY <1>2, PlaceTypes DEF ForwardBuild, Dial, DialFails, Closed
  <2>3. MovesOn(r)  BY <2>1 DEF MovesOn, Stage
  <2>4. PlaceInv(r)'  BY <2>1, <2>2 DEF PlaceInv
  <2> QED BY <2>3, <2>4
<1>3. CASE Forward(r)
  <2>1. at[r] = "pass" /\ UNCHANGED <<at, ranging>>  BY <1>3 DEF Forward, envVars, buildVars
  <2>2. \/ UNCHANGED fwd
        \/ fwd'[r] \in {"write", "await", "copy", "returned"}
           /\ FwdStage[fwd'[r]] > FwdStage[fwd[r]]
    BY <1>3, PlaceTypes
    DEF Forward, Dial, DialFails, Closed, Handler, WriteRequest, StartTunnel, ForwardFails,
        Answered, Switched, CopyDown, HandlerEnds, FwdStage
  <2>3. PlaceInv(r)'  BY <2>1, <2>2 DEF PlaceInv
  <2>4. MovesOn(r) \/ Stands(r)  BY <2>1, <2>2 DEF MovesOn, Stands
  <2> QED BY <2>3, <2>4
<1>4. CASE Finish(r)
  <2>1. at[r] = "pass" /\ at'[r] = "done" /\ UNCHANGED ranging /\ fwd'[r] = "gone"
    BY <1>4, PlaceTypes DEF Finish, Goes, envVars, Gone
  <2>2. MovesOn(r)  BY <2>1 DEF MovesOn, Stage
  <2>3. PlaceInv(r)'  BY <2>1 DEF PlaceInv
  <2> QED BY <2>2, <2>3
<1>5. CASE CloseSession(r)
  <2>1. /\ at[r] \in {"snapshot", "expand"} /\ at'[r] = "done" /\ ranging'[r] = FALSE
        /\ fwd'[r] = "gone"
    BY <1>1, <1>5, PlaceTypes DEF CloseSession, Ready, Gone
  <2>2. MovesOn(r)  BY <2>1 DEF MovesOn, Stage
  <2>3. PlaceInv(r)'  BY <2>1 DEF PlaceInv
  <2> QED BY <2>2, <2>3
<1> QED BY <1>2, <1>3, <1>4, <1>5

LEMMA CrashEnds ==
    ASSUME AllTypes, NEW r \in Requests, PlaceInv(r), Crash
    PROVE  PlaceInv(r)' /\ (MovesOn(r) \/ Stands(r))
<1> DEFINE S == {c \in Conns : at[c] # "peek"}
<1>1. r \in Conns /\ Blanked(S, "done") /\ Forgotten(Requests) /\ Gone(S)
  BY PlaceTypes DEF Crash, Fault
<1>2. ranging'[r] = FALSE /\ (phase[r] = "none" => phase'[r] = "none")
  BY <1>1 DEF Forgotten
<1>3. CASE r \in S
  <2>1. at'[r] = "done" /\ fwd'[r] = "gone"  BY <1>1, <1>3 DEF Blanked, Gone
  <2>2. at[r] # "peek" /\ at[r] \in Places  BY <1>3, PlaceTypes
  <2>3. at[r] # "done" => MovesOn(r)  BY <2>1, <2>2 DEF MovesOn, Stage, Places
  <2>4. at[r] = "done" => Stands(r)  BY <2>1 DEF Stands, PlaceInv
  <2>5. PlaceInv(r)'  BY <1>2, <2>1 DEF PlaceInv
  <2> QED BY <2>3, <2>4, <2>5
<1>4. CASE r \notin S
  <2>1. at[r] = "peek"  BY <1>1, <1>4
  <2> HIDE DEF S
  <2>2. UNCHANGED <<at[r], tar[r], served[r], fwd[r]>>
    BY <1>1, <1>4 DEF Blanked, Gone
  <2>3. Stands(r)  BY <2>1, <2>2 DEF Stands
  <2>4. PlaceInv(r)'  BY <1>2, <2>1, <2>2 DEF PlaceInv, IsSession
  <2> QED BY <2>3, <2>4
<1> QED BY <1>3, <1>4

LEMMA PlaceStep ==
    ASSUME AllTypes, NEW r \in Requests, PlaceInv(r), [Next]_vars
    PROVE  PlaceInv(r)' /\ (Stands(r) \/ MovesOn(r) \/ (IsSession(r) /\ SessionEdited(r)))
<1> DEFINE Goal == PlaceInv(r)' /\ (Stands(r) \/ MovesOn(r) \/ (IsSession(r) /\ SessionEdited(r)))
<1>1. r \in Conns  BY PlaceTypes
<1>2. ASSUME UNCHANGED Part(r) PROVE Goal  BY <1>2, PartSame
<1>3. ASSUME NEW c \in Conns, Arrive(c) \/ Serve(c) \/ CloseSession(c) PROVE Goal
  <2>1. CASE c # r  BY <1>2, <1>3, <2>1, OthersPart
  <2>2. CASE c = r
    BY <1>3, <2>2, OwnArrival, OwnRules, OwnEdit, OwnEnd DEF Serve
  <2> QED BY <2>1, <2>2
<1>4. ASSUME NEW c \in Conns, Copy(c) \/ Peer(c) PROVE Goal
  <2>1. UNCHANGED fwd
    BY <1>4 DEF Copy, Peer, Copier, CopyUp, CopierEnds, Peers, ClientSends, ClientCloses,
                DaemonSends, DaemonCloses, Rest
  <2> QED BY <1>2, <1>4, <2>1 DEF Copy, Peer, Part, envVars, editVars, buildVars
<1>5. CASE Crash  BY <1>5, CrashEnds
<1>6. CASE World
  BY <1>2, <1>6 DEF World, LoadConfig, EditFile, locals, Part, editVars, fwdVars, buildVars
<1>7. CASE UNCHANGED vars
  BY <1>2, <1>7 DEF vars, Part, envVars, editVars, fwdVars, buildVars
<1> QED BY <1>3, <1>4, <1>5, <1>6, <1>7 DEF Next

PlaceAll == \A r \in Requests : PlaceInv(r)

LEMMA PlaceInit == Init => PlaceAll
<1> SUFFICES ASSUME Init, NEW r \in Requests PROVE PlaceInv(r)
  BY DEF PlaceAll
<1>1. r \in Conns  BY RequestsAreConns
<1>2. at[r] = "peek" /\ tar[r] = Unreadable /\ served[r] = 0  BY <1>1 DEF Init
<1>3. phase[r] = "none" /\ ranging[r] = FALSE  BY DEF Init, EnvInit
<1>4. fwd[r] = "none"  BY <1>1 DEF Init, FwdInit
<1> QED BY <1>2, <1>3, <1>4 DEF PlaceInv, IsSession

LEMMA AllTypesCorrect == Spec => []AllTypes
<1>1. Inv => TypeInv  BY DEF Inv
<1> QED
  BY <1>1, AtCorrect, BuildInvCorrect, BuildsExpand, Invariance, BuildsForward, FwdTypeCorrect,
     PTL DEF AllTypes

LEMMA ExpansionOpen ==
    ASSUME TypeInv, NEW r \in Requests, phase[r] \in {"rule", "merge"}
    PROVE  ExpandOpen(r)
<1>1. CASE phase[r] = "rule"
  <2> DEFINE T == {i \in Rules : i >= rule[r] /\ HasFile(i)}
  <2>1. CASE T = {}  BY <1>1, <2>1 DEF ExpandOpen
  <2>2. CASE T # {}
    <3>1. T \in SUBSET Nat  BY RulesFacts
    <3>2. PICK i \in T : \A j \in T : i <= j  BY <2>2, <3>1, Least
    <3>3. NextWithFile(r, i)  BY <1>1, <3>2 DEF NextWithFile
    <3> QED BY <1>1, <3>2, <3>3 DEF ExpandOpen
  <2> QED BY <2>1, <2>2
<1>2. CASE phase[r] = "merge"
  <2>1. todo[r] \in Env  BY DEF TypeInv, EnvTypeOK
  <2>2. ToMerge(r) = {} => todo[r] = Empty  BY <2>1 DEF ToMerge, Empty, Env
  <2> QED BY <1>2, <2>2 DEF ExpandOpen
<1> QED BY <1>1, <1>2

LEMMA PlaceOpen ==
    ASSUME AllTypes, FwdInv, PlaceAll
    PROVE  BuildOpen
<1> SUFFICES ASSUME NEW r \in Requests PROVE OpenAt(r)
  BY DEF BuildOpen
<1>1. PlaceInv(r) /\ r \in Conns /\ TypeInv  BY PlaceTypes DEF PlaceAll, AllTypes
<1>2. phase[r] \in {"rule", "merge"} => ExpandOpen(r)  BY <1>1, ExpansionOpen
<1>3. fwd[r] = "returned" => UpEnds(r)  BY <1>1 DEF FwdInv, HeldInv, UpEnds
<1>4. fwd[r] = "copy" => way[r] = "tunnel"  BY <1>1 DEF FwdInv, HeldInv
<1>5. at[r] = "pass" =>
         \/ fwd[r] \in {"none", "write", "await"}
         \/ fwd[r] = "copy" /\ way[r] = "tunnel"
         \/ fwd[r] = "returned" /\ (copier[r] # "copy" \/ UpEnds(r))
  BY <1>1, <1>3, <1>4, PlaceTypes DEF PlaceInv
<1>6. at[r] = "expand" =>
         \/ ExpandOpen(r)
         \/ phase[r] = "ready" /\ (\/ next[r] <= Len(CertPaths)
                                   \/ ~ranging[r] /\ (IsSession(r) \/ served[r] < 1))
  BY <1>1, <1>2 DEF PlaceInv
<1> QED BY <1>1, <1>5, <1>6 DEF PlaceInv, OpenAt

(* A build is never stuck between its parts, whatever fails and whoever    *)
(* shares its rules, and goes through its places and the loops in them     *)
(* once: what BuildsEnd asks, but for that its steps are taken.            *)
THEOREM BuildsRunDown == Spec => []BuildOpen /\ [][BuildsAdvance]_vars
<1>1. AllTypes /\ PlaceAll /\ [Next]_vars => PlaceAll' /\ BuildsAdvance
  BY PlaceStep DEF PlaceAll, BuildsAdvance
<1>2. AllTypes /\ FwdInv /\ PlaceAll => BuildOpen  BY PlaceOpen
<1>3. Spec => [](FwdTypeOK /\ FwdInv)  BY BuildsForward, FwdInvHolds, PTL
<1>4. Spec => []PlaceAll  BY <1>1, PlaceInit, AllTypesCorrect, PTL DEF Spec
<1> QED BY <1>1, <1>2, <1>3, <1>4, AllTypesCorrect, PTL DEF Spec

(* Of every connection of every kind a hang-up travels through its tunnel. *)
THEOREM TunnelsHearHangUps == Spec => []HangUpHeard /\ [][BacklogShrinks]_fwdVars
BY BuildsForward, HangUpPropagates, PTL

=============================================================================
