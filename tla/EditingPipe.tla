----------------------------- MODULE EditingPipe -----------------------------
(***************************************************************************)
(* What the rewriting of a file sync promises: each stream is a pipe that  *)
(* delivers the client's packets in order and once each, as they are, with *)
(* one exception: the Data packet that holds a whole Dockerfile is edited, *)
(* on the streams that were asked for one, by the rules of the session.    *)
(*                                                                         *)
(* DiffCopy implements this module.                                        *)
(***************************************************************************)
EXTENDS Naturals, Sequences

CONSTANTS
    Edited,         \* streams whose Dockerfiles are edited
    Dockerfiles,    \* files with the name of a Dockerfile
    Size,           \* Size[f]: length of file f
    Changes         \* Changes[v]: files whose content the rules v change

VARIABLES
    rules,      \* the rules of the session
    sent,       \* sent[s]: what the client has sent on stream s
    received    \* received[s]: what the daemon has received of it

vars == <<rules, sent, received>>

Init ==
    /\ \A s \in DOMAIN sent : sent[s] = <<>>
    /\ received = sent

WholeDockerfile(p) == p.kind = "data" /\ p.file \in Dockerfiles /\ p.size = Size[p.file]

Image(s, p) ==
    IF s \in Edited /\ WholeDockerfile(p) /\ p.file \in Changes[rules]
    THEN [p EXCEPT !.by = rules] ELSE p

Send(s) ==
    /\ Len(sent'[s]) = Len(sent[s]) + 1
    /\ sent' = [sent EXCEPT ![s] = Append(@, sent'[s][Len(@) + 1])]
    /\ UNCHANGED <<rules, received>>

Deliver(s) ==
    /\ Len(received[s]) < Len(sent[s])
    /\ received' = [received EXCEPT ![s] = Append(@, Image(s, sent[s][Len(@) + 1]))]
    /\ UNCHANGED <<rules, sent>>

Next == \E s \in DOMAIN sent : Send(s) \/ Deliver(s)

Spec == Init /\ [][Next]_vars
=============================================================================
