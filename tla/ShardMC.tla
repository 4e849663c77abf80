-------------------------------- MODULE ShardMC --------------------------------
(* Shard on two domains of its own and one of another shard. *)
EXTENDS Shard

MCUrl == {<<"a", 1>>, <<"a", 2>>, <<"b", 1>>, <<"x", 1>>}
MCSeed == {<<"a", 1>>}

\* The same number of shards in both lives.
MCOwned == <<{"a", "b"}, {"a", "b"}>>
===============================================================================
