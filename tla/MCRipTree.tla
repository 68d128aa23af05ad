----------------------------- MODULE MCRipTree -----------------------------
(* The line a - b - c, with a network behind c.                             *)
EXTENDS RipTree

CONSTANTS a, b, c

LineLinks == {<<a, b>>, <<b, a>>, <<b, c>>, <<c, b>>}
LineSubnets == {"ab", "bc", "cnet"}
LineLocal == (a :> {"ab"}) @@ (b :> {"ab", "bc"}) @@ (c :> {"bc", "cnet"})
LineDist ==
    (a :> ("ab" :> 0 @@ "bc" :> 1 @@ "cnet" :> 2)) @@
    (b :> ("ab" :> 0 @@ "bc" :> 0 @@ "cnet" :> 1)) @@
    (c :> ("ab" :> 1 @@ "bc" :> 0 @@ "cnet" :> 0))
LineToward ==
    (a :> [p \in LineSubnets |-> b]) @@
    (b :> ("ab" :> a @@ "bc" :> c @@ "cnet" :> c)) @@
    (c :> [p \in LineSubnets |-> b])
=============================================================================
