--------------------------- MODULE MC_LegacyBuild ---------------------------
(* Constants of the run builds. *)
EXTENDS LegacyBuild

CONSTANTS c1, c2, envfile, a, b, v1, v2, v3, ubuntu, mirror, p1, ca, dockerfile, other, pem

A_(x) == [k \in Keys |-> IF k = a THEN x ELSE Absent]
MCContents == {A_(v1), [A_(v2) EXCEPT ![b] = v2]}

Rule(type, position) ==
    [type |-> type, position |-> position, env |-> NoMap, file |-> NoFile, certs |-> << >>,
     replace |-> [r \in Refs |-> r]]

\* An env table in the rule and a file; a file alone; and the rules without either.
MCInjections == <<
    [Rule("env", "after_base") EXCEPT !.env = [Empty EXCEPT ![b] = v3], !.file = envfile],
    [Rule("ca_certificates", "after_base") EXCEPT !.file = envfile, !.certs = <<p1>>],
    [Rule("from", "after_base") EXCEPT !.replace = [r \in Refs |-> mirror]],
    Rule("run", "before_entrypoint") >>

MCBaseName == [x \in {p1} |-> ca]

L(kind, ref) == [kind |-> kind, ref |-> ref]
\* Two stages; an ENTRYPOINT before any FROM; nothing.
MCDockerfiles == {
    <<L("from", ubuntu), L("cmd", NoRef), L("from", mirror)>>,
    <<L("entrypoint", NoRef)>>,
    << >> }
Text1 == CHOOSE t \in MCDockerfiles : Len(t) = 3
Text2 == CHOOSE t \in MCDockerfiles : Len(t) = 1

E(name, regular, text) == [name |-> name, regular |-> regular, text |-> text]
Tar1 == [wanted |-> {dockerfile},
         entries |-> <<E(dockerfile, TRUE, Text2), E(ca, TRUE, << >>),
                       E(dockerfile, TRUE, Text1)>>]
Tar2 == [wanted |-> {dockerfile},
         entries |-> <<E(other, TRUE, << >>), E(dockerfile, TRUE, Text2)>>]
MCTars == {Tar1, Tar2}

(* Bounds that lose nothing.  The connections are alike, so c1 may be taken *)
(* to arrive first.  Requests meet in the Env maps alone, so what is of one *)
(* request only - its tar, the Dockerfile that passes in its session,       *)
(* whether a certificate could be read - need vary for c1 only.  And a      *)
(* connection that is passed on, and a request in modify, share no variable *)
(* with the other: none arrives beside the one, and nothing else moves      *)
(* beside the other.                                                        *)
MCInit == Init /\ files[envfile] = A_(v1)
Arrives(c) == at[c] = "peek" /\ at'[c] # "peek"
MCSpec == MCInit /\ [][Next]_vars /\ Fairness
MCBounds ==
    /\ \A c \in Conns : at[c] = "lines" => line'[c] # line[c] \/ at'[c] # "lines"
    /\ at[c1] = "peek" => ~Arrives(c2)
    /\ tar'[c2] \in {Unreadable, Tar1} /\ content'[c2] \in {<< >>, Text1}
    /\ next'[c2] > next[c2] => certFiles'[c2] # certFiles[c2]
    /\ \A c, d \in Conns : c # d /\ Arrives(c) =>
         at[d] # "pass" /\ (at'[c] = "pass" => at[d] \in {"peek", "done"})

=============================================================================
