---------------------------- MODULE DockerfileEdit ----------------------------
(***************************************************************************)
(* modify (internal/image/dockerfile.go): one pass over the lines of a     *)
(* Dockerfile that appends, behind some of them, the blocks the rules ask  *)
(* for.  A step is one turn of its loop.                                   *)
(*                                                                         *)
(* A line is what parseDockerfile makes of it, with the image a FROM line  *)
(* names; it looks at lines and not at instructions, so a line of a here-  *)
(* document can be a "from".  The result has a piece for each line of the  *)
(* client and for each block: the text of a block (RUN, ENV, COPY lines,   *)
(* chunks of certificates) is left out, what it holds is not.              *)
(***************************************************************************)
EXTENDS EnvFiles

CONSTANTS
    Refs, NoRef,   \* images named in FROM lines
    Dockerfiles,   \* contents: sequences of lines
    CertNames,     \* names of certificate files in the build context
    Pems           \* contents of certificate files

Lines == [kind : {"from"}, ref : Refs]
         \cup [kind : {"cmd", "entrypoint", "other"}, ref : {NoRef}]
CertFiles == [CertNames -> Pems \cup {Absent}]
NoCerts == [n \in CertNames |-> Absent]

RulesOf(type, position) ==
    {i \in Rules : Injections[i].type = type /\ Injections[i].position = position}

ASSUME EditAssumption ==
    /\ Dockerfiles \subseteq Seq(Lines) /\ << >> \in Dockerfiles
    /\ Absent \notin Pems
    /\ \A i \in 1..Len(Injections) :
         /\ Injections[i].position \in {"after_base", "before_entrypoint"}
         /\ Injections[i].type \in {"from", "ca_certificates", "run", "env"}
         /\ Injections[i].type = "from" => Injections[i].replace \in [Refs -> Refs]

VARIABLES
    editing,   \* a request is in modify, or has its result
    content,   \* the lines it was given
    line,      \* lines it has handled
    result,    \* the pieces it has written
    injectedAfterBase, injectedCerts,
    pending,   \* runBeforeEntrypoint and envBeforeEntrypoint are not yet cleared
    inline,    \* certificates are written in the file and not copied
    certFiles  \* certificates by name

editVars == <<editing, content, line, result, injectedAfterBase, injectedCerts, pending,
              inline, certFiles>>

EditInit ==
    /\ editing = [r \in Requests |-> "none"]
    /\ content = [r \in Requests |-> << >>]
    /\ line = [r \in Requests |-> 0]
    /\ result = [r \in Requests |-> << >>]
    /\ injectedAfterBase = [r \in Requests |-> FALSE]
    /\ injectedCerts = [r \in Requests |-> FALSE]
    /\ pending = [r \in Requests |-> FALSE]
    /\ inline = [r \in Requests |-> FALSE]
    /\ certFiles = [r \in Requests |-> NoCerts]

-----------------------------------------------------------------------------
(* The blocks.                                                             *)

\* The from rules, applied one after another.
Replaced(l) ==
    LET after[i \in 0..Len(Injections)] ==
          IF i = 0 THEN l.ref
          ELSE IF Injections[i].type = "from" THEN Injections[i].replace[after[i - 1]]
          ELSE after[i - 1]
    IN  IF l.kind = "from" THEN [l EXCEPT !.ref = after[Len(Injections)]] ELSE l

Client(r, i) == [at |-> i, line |-> Replaced(content[r][i])]

\* Env values are templates: in them are put the paths of the trust store, or
\* nothing before the first FROM, or they stay as they are.
Contexts == {"paths", "nothing", "raw"}
EnvCtx(r) == IF injectedAfterBase[r] THEN "paths" ELSE "nothing"

Block(r, what, rules, ctx) ==
    [block |-> what, ctx |-> ctx, certs |-> {},
     env |-> [i \in Rules |-> IF i \in rules THEN lines[r][i] ELSE Empty]]

Runs(r, position, ctx) ==
    LET rules == RulesOf("run", position) \cup RulesOf("env", position)
    IN  IF rules = {} THEN << >> ELSE <<Block(r, position, rules, ctx)>>

CaRules == {i \in Rules : Injections[i].type = "ca_certificates"}
HasCerts == \E i \in CaRules : Injections[i].certs # << >>
Named(c) == {n \in CertNames : c[n] # Absent}

CertBlock(r) == [Block(r, "certs", {}, "raw") EXCEPT !.certs = Named(certFiles[r])]

\* A session cannot add files to the context: what there is of certificates is
\* written into the Dockerfile.
InlineLines(r) == IF Named(certFiles[r]) = {} THEN << >> ELSE <<CertBlock(r)>>

\* A build has them copied, and a COPY without sources if there is none.
CopyLines(r) == <<CertBlock(r)>>

Certs(r, ctx) ==
    IF ~HasCerts THEN << >>
    ELSE (IF inline[r] THEN InlineLines(r) ELSE CopyLines(r)) \o <<Block(r, "ca_env", CaRules, ctx)>>

AfterBase(r) == Runs(r, "after_base", "paths") \o Certs(r, "paths")
BeforeEntrypoint(r, ctx) == Runs(r, "before_entrypoint", ctx)

-----------------------------------------------------------------------------
(* modify.                                                                 *)

\* It begins with the range over the rules' maps; an earlier result is with
\* those who asked for it.
Called(r) ==
    /\ editing' = [editing EXCEPT ![r] = "none"]
    /\ UNCHANGED <<content, line, result, injectedAfterBase, injectedCerts, pending, inline,
                   certFiles>>

Begin(r, c, in) ==
    /\ editing[r] = "none"
    /\ editing' = [editing EXCEPT ![r] = "lines"]
    /\ content' = [content EXCEPT ![r] = c]
    /\ inline' = [inline EXCEPT ![r] = in]
    /\ line' = [line EXCEPT ![r] = 0]
    /\ result' = [result EXCEPT ![r] = << >>]
    /\ injectedAfterBase' = [injectedAfterBase EXCEPT ![r] = FALSE]
    /\ injectedCerts' = [injectedCerts EXCEPT ![r] = FALSE]
    /\ pending' = [pending EXCEPT ![r] = TRUE]
    /\ UNCHANGED certFiles

\* Bug: every stage gets the blocks of the base.
EditLineOfEveryStage(r) ==
    LET i == line[r] + 1
        kind == content[r][i].kind
        entry == kind \in {"cmd", "entrypoint"} /\ pending[r]
    IN
    /\ editing[r] = "lines" /\ line[r] < Len(content[r])
    /\ line' = [line EXCEPT ![r] = i]
    /\ result' = [result EXCEPT ![r] = Append(@, Client(r, i))
                    \o (IF kind = "from" THEN AfterBase(r) ELSE << >>)
                    \o (IF entry THEN BeforeEntrypoint(r, EnvCtx(r)) ELSE << >>)]
    /\ injectedAfterBase' = [injectedAfterBase EXCEPT ![r] = @ \/ kind = "from"]
    /\ injectedCerts' = [injectedCerts EXCEPT ![r] = @ \/ (kind = "from" /\ HasCerts)]
    /\ pending' = [pending EXCEPT ![r] = @ /\ ~entry]
    /\ UNCHANGED <<editing, content, inline, certFiles>>

EditLine(r) ==
    LET i == line[r] + 1
        kind == content[r][i].kind
        first == kind = "from" /\ ~injectedAfterBase[r]
        entry == kind \in {"cmd", "entrypoint"} /\ pending[r]
    IN
    /\ editing[r] = "lines" /\ line[r] < Len(content[r])
    /\ line' = [line EXCEPT ![r] = i]
    /\ result' = [result EXCEPT ![r] = Append(@, Client(r, i))
                    \o (IF first THEN AfterBase(r) ELSE << >>)
                    \o (IF entry THEN BeforeEntrypoint(r, EnvCtx(r)) ELSE << >>)]
    /\ injectedAfterBase' = [injectedAfterBase EXCEPT ![r] = @ \/ first]
    /\ injectedCerts' = [injectedCerts EXCEPT ![r] = @ \/ (first /\ HasCerts)]
    /\ pending' = [pending EXCEPT ![r] = @ /\ ~entry]
    /\ UNCHANGED <<editing, content, inline, certFiles>>

EditEnd(r) ==
    /\ editing[r] = "lines" /\ line[r] = Len(content[r])
    /\ editing' = [editing EXCEPT ![r] = "done"]
    /\ result' = [result EXCEPT ![r] = @
                    \o (IF pending[r] THEN BeforeEntrypoint(r, EnvCtx(r)) ELSE << >>)
                    \o (IF injectedCerts[r] THEN << >> ELSE Certs(r, "raw"))]
    /\ UNCHANGED <<content, line, injectedAfterBase, injectedCerts, pending, inline, certFiles>>

\* Of the edits of the requests in S nothing is left.
EditForgotten(S) ==
    LET Blank(f, v) == [r \in Requests |-> IF r \in S THEN v ELSE f[r]] IN
    /\ editing' = Blank(editing, "none") /\ content' = Blank(content, << >>)
    /\ line' = Blank(line, 0) /\ result' = Blank(result, << >>)
    /\ injectedAfterBase' = Blank(injectedAfterBase, FALSE)
    /\ injectedCerts' = Blank(injectedCerts, FALSE)
    /\ pending' = Blank(pending, FALSE) /\ inline' = Blank(inline, FALSE)
    /\ certFiles' = Blank(certFiles, NoCerts)

-----------------------------------------------------------------------------
(* Properties.                                                             *)

Blocks == [block : {"after_base", "before_entrypoint", "certs", "ca_env"},
           ctx : Contexts, certs : SUBSET CertNames, env : [Rules -> Env]]
Pieces == [at : Nat, line : {Replaced(l) : l \in Lines}] \cup Blocks

EditTypeOK ==
    /\ editing \in [Requests -> {"none", "lines", "done"}]
    /\ content \in [Requests -> Dockerfiles]
    /\ line \in [Requests -> Nat]
    /\ result \in [Requests -> Seq(Pieces)]
    /\ injectedAfterBase \in [Requests -> BOOLEAN]
    /\ injectedCerts \in [Requests -> BOOLEAN]
    /\ pending \in [Requests -> BOOLEAN]
    /\ inline \in [Requests -> BOOLEAN]
    /\ certFiles \in [Requests -> CertFiles]

\* The first line of one of these kinds, 0 if there is none.
First(text, kinds) ==
    IF \E i \in DOMAIN text : text[i].kind \in kinds
    THEN CHOOSE i \in DOMAIN text :
           text[i].kind \in kinds /\ \A j \in DOMAIN text : j < i => text[j].kind \notin kinds
    ELSE 0

Base(r) == First(content[r], {"from"})
Entry(r) == First(content[r], {"cmd", "entrypoint"})
EntryBlocks(r) ==
    BeforeEntrypoint(r, IF Base(r) # 0 /\ (Entry(r) = 0 \/ Base(r) < Entry(r))
                        THEN "paths" ELSE "nothing")
EndBlocks(r) == (IF Entry(r) = 0 THEN EntryBlocks(r) ELSE << >>)
           \o (IF Base(r) = 0 THEN Certs(r, "raw") ELSE << >>)

\* Where the i-th line of the client belongs.
Place(r, i) == i + (IF Base(r) # 0 /\ Base(r) < i THEN Len(AfterBase(r)) ELSE 0)
                 + (IF Entry(r) # 0 /\ Entry(r) < i THEN Len(EntryBlocks(r)) ELSE 0)

StandsAt(r, blocks, n) == \A k \in DOMAIN blocks : result[r][n + k] = blocks[k]

\* The blocks for the entrypoint ahead of its line or behind it, and every
\* other line and block where it belongs.
Arranged(r, ahead) ==
    LET n == Len(content[r])
        Shift(i) == IF ahead /\ i = Entry(r) THEN Len(EntryBlocks(r)) ELSE 0
    IN
    /\ Len(result[r]) = Place(r, n + 1) - 1 + Len(EndBlocks(r))
    /\ \A i \in 1..n : result[r][Place(r, i) + Shift(i)] = Client(r, i)
    /\ Base(r) # 0 => StandsAt(r, AfterBase(r), Place(r, Base(r)))
    /\ Entry(r) # 0 => StandsAt(r, EntryBlocks(r), Place(r, Entry(r)) - IF ahead THEN 1 ELSE 0)
    /\ StandsAt(r, EndBlocks(r), Place(r, n + 1) - 1)

(* What modify makes of a Dockerfile, said without its flags and its loop: *)
(* the client's lines, all of them and in order, with the after_base       *)
(* blocks and the certificates behind the first FROM and nowhere else (not *)
(* in later stages), the before_entrypoint blocks next to the first CMD or *)
(* ENTRYPOINT, and at the end what has found no place: each block once,    *)
(* and nothing besides.  On which side of that line the blocks belong is   *)
(* left open: ahead of it by dockerfile.go:176 and config-example.toml:96, *)
(* 147, behind it by the loop and by its test (dockerfile_test.go:28-43).  *)
EditedAsPlanned ==
    \A r \in Requests : editing[r] = "done" => \E ahead \in BOOLEAN : Arranged(r, ahead)

=============================================================================
