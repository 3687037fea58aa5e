------------------------------ MODULE MCZipper ------------------------------
EXTENDS Zipper, TLC

CONSTANTS c1, c2, c3, t1, t2, ta, tb, d1, d2

Hs(type, tags, target, def) ==
    [type |-> type, tags |-> tags, target |-> target, def |-> def,
     version |-> "ok", auth |-> TRUE]

Source == Hs("Source", <<>>, NoTarget, "none")
Upstream == Hs("UpstreamZipper", <<>>, NoTarget, "none")

\* A function that has entries in every map.
LifecycleHandshakes == {Hs("StreamFunction", <<t1>>, ta, "valid")}

\* A source, an upstream zipper, functions with and without a target, one whose
\* definition is invalid, and sources the server redirects or rejects.
PubSubHandshakes ==
    {Source, Upstream, Hs("StreamFunction", <<t1>>, ta, "none"),
     Hs("StreamFunction", <<t1>>, NoTarget, "none"),
     Hs("StreamFunction", <<t1>>, NoTarget, "invalid"),
     [Source EXCEPT !.version = "connectTo"], [Source EXCEPT !.auth = FALSE]}

OneFunction == {Source, Hs("StreamFunction", <<t1>>, NoTarget, "valid")}

Symmetry == Permutations(Conns)
=============================================================================
