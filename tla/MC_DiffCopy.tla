----------------------------- MODULE MC_DiffCopy -----------------------------
(* A stream for a Dockerfile alone, one for another and its ignore file, and *)
(* one that follows no Dockerfile although it carries one.                   *)
EXTENDS DiffCopy, TLC

CONSTANTS alone, entries, context, Dockerfile, dockerfile, dockerignore, r1, r2

MCSize == Dockerfile :> 2 @@ dockerfile :> 1 @@ dockerignore :> 1

MCWalk ==
    [s \in Streams |-> IF s = entries THEN <<Dockerfile, dockerignore>> ELSE <<dockerfile>>]

(* The ignore file is text as well: the rules would change it, if asked to.  *)
MCChanges == r1 :> Files @@ r2 :> {}
=============================================================================
