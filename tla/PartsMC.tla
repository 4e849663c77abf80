-------------------------------- MODULE PartsMC --------------------------------
(* Parts for TLC, with a candidates file of four lines of three domains.  The *)
(* domains that no seed names are interchangeable.                            *)
EXTENDS Parts, TLC

MCCandidate == <<"a", "b", "a", "c">>
Sym == Permutations(Domain \ Seed)

===============================================================================
