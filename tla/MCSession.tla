----------------------------- MODULE MCSession -----------------------------
(***************************************************************************)
(* Instances of SkynetSession for TLC.                                     *)
(***************************************************************************)
EXTENDS SkynetSessionRefinement, TLC

CONSTANTS s1, s2, s3

\* s1 and s2 call s3.
Callers == {<<s1, s3>>, <<s2, s3>>}

\* s1 calls s3, and s3 calls s2 or s1.
Chain == {<<s1, s3>>, <<s3, s2>>, <<s3, s1>>}

\* s1 and s3 call each other.
Pair == {<<s1, s3>>, <<s3, s1>>}

\* Every service has its own range of sessions ...
Apart2 == s1 :> 1 @@ s3 :> 3

\* ... or they have run for equally long, and use the same ones.
Same3 == s1 :> 1 @@ s2 :> 1 @@ s3 :> 1
=============================================================================
