---------------------------- MODULE MC_GrpcFilter ----------------------------
(* Payloads of up to five fields, one more than the limit: records beside,  *)
(* inside and without a wrapper, broken and whole, and pieces of tars.      *)
EXTENDS GrpcFilter, TLC

CONSTANTS Dockerfile, dockerfile, readme, from, edited, text

MCEdit == from :> edited @@ edited :> edited @@ text :> text

At(depth, num, val) == [depth |-> depth, num |-> num, val |-> val]

Record(depth, name, content) ==
    <<At(depth, 1, name), At(depth, 2, content), At(depth, 3, Other)>>

MCRecords ==
    { <<>>,
      Record(0, Dockerfile, from),
      <<At(0, 4, Other)>> \o Record(1, Dockerfile, from),
      Record(0, Dockerfile, from) \o <<At(0, 0, Other)>>,
      Record(0, readme, from),
      Record(0, Dockerfile, from) \o <<At(0, 1, dockerfile), At(0, 2, text)>> }

Tar(vals) == [i \in DOMAIN vals |-> At(0, 0, vals[i])]

MCTars ==
    { Tar(<<>>), Tar(<<Dockerfile>>), Tar(<<from>>), Tar(<<dockerfile, from>>),
      Tar(<<readme, text, Dockerfile>>), Tar(<<readme, text, Dockerfile, from, readme>>) }

MCPayloads == [m \in Methods |-> IF m = "send" THEN MCTars ELSE MCRecords]
=============================================================================
