-------------------------- MODULE MCRuntimeArchive --------------------------
(* Archives of up to three entries beneath the prefix p, with chains and   *)
(* cycles of links, a path of another prefix and a path with a parent      *)
(* component.                                                              *)
EXTENDS RuntimeArchive
CONSTANTS p, a, b, c

MCPrefix == <<p>>
Paths == {<<p>>, <<p, a>>, <<p, b>>, <<p, c>>, <<p, a, b>>, <<a>>, <<p, Up, a>>}
Targets == {<<a>>, <<b>>, <<c>>, <<Up, a>>, <<Root, a>>}
Entries ==
    {[kind |-> k, path |-> q] : k \in {"file", "dir"}, q \in Paths}
    \cup {[kind |-> "other", path |-> <<p, a>>]}
    \cup [kind : {"link"}, path : {<<p, a>>, <<p, b>>, <<p, a, b>>}, target : Targets]
MCArchives == UNION {[1..n -> Entries] : n \in 0..3}
=============================================================================
