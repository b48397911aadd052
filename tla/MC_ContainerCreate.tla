------------------------- MODULE MC_ContainerCreate -------------------------
(* One repository: a reference without a tag, one with the tag that means, *)
(* one with another tag whose image trusts the first certificates already, *)
(* and the injected image of that one; for the other run, one by digest.   *)
EXTENDS ContainerCreate, TLC

CONSTANTS repo, stable, dig

Ref(depth, tag, digest) == [depth |-> depth, repo |-> repo, tag |-> tag, digest |-> digest]

Bare     == Ref(0, None, None)
Explicit == Ref(0, Latest, None)
Trusting == Ref(0, stable, None)
Pinned   == Ref(0, None, dig)
Already  == Ref(1, stable, None)

Tagged     == {Bare, Explicit, Trusting, Already}
WithDigest == {Explicit, Pinned}

Image(n, trusted) == [of |-> n, certs |-> trusted, label |-> "none"]

MCImages ==
    Explicit :> Image(Explicit, {}) @@ Trusting :> Image(Trusting, {1})
    @@ Pinned :> Image(Pinned, {})
    @@ Ref(1, Latest, None) :> None @@ Already :> None @@ Ref(2, stable, None) :> None

On  == [denied |-> {}, rule |-> TRUE]
Off == [denied |-> {Explicit}, rule |-> FALSE]
OnOff == {On, Off}

Interchangeable == Permutations(Handlers)
=============================================================================
