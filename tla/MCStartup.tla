------------------------------ MODULE MCStartup ------------------------------
(* Environments that start, with public, private, unusable and local seeds, and *)
(* one for every way the settings and the data directory are refused.           *)
EXTENDS Startup

MCHost == {"seed", "peer", "lan", "loop", "name", "self"}
MCNames == {"name"}
MCPrivate == {"lan", "loop"}
MCLoopback == {"loop"}
MCHostRank == [h \in MCHost |-> CASE h = "lan" -> 1 [] h = "loop" -> 2 [] h = "name" -> 3
                                  [] h = "peer" -> 4 [] h = "seed" -> 5 [] h = "self" -> 6]
At(h, p) == [host |-> h, port |-> p]
MCDefaultSeeds == <<At("seed", 7)>>
MCTransient == {At("lan", 9)}
MCAdvertisements == {Unset, <<"name", 7>>, <<"lan", 7>>, <<"peer", 0>>}
MCGossip == {<<>>, <<At("peer", 7), At("seed", 7)>>, <<At("name", 7)>>}

Usual == [threads |-> Unset, p2p_port |-> Unset, host |-> Unset,
          advertised_port |-> Unset, allow_private |-> Unset, mining |-> Unset,
          seeds |-> Unset, dir |-> "writable", routed |-> TRUE]

MCEnvironments ==
  {[Usual EXCEPT !.threads = <<"bad">>],
   [Usual EXCEPT !.threads = <<"positive">>, !.mining = <<"true">>,
                 !.p2p_port = <<"bad">>, !.dir = "missing"],
   [Usual EXCEPT !.p2p_port = <<"auto">>, !.host = <<"host", "self">>,
                 !.advertised_port = <<"auto">>],
   [Usual EXCEPT !.p2p_port = <<"auto">>, !.routed = FALSE],
   [Usual EXCEPT !.host = <<"host", "self">>, !.advertised_port = <<"num", 7>>,
                 !.allow_private = <<"false">>,
                 !.seeds = <<"list", <<<<"lan", 7>>, <<"self", 7>>, <<"seed", 7>>>>>>],
   [Usual EXCEPT !.host = <<"host", "self">>],
   [Usual EXCEPT !.host = <<"malformed">>, !.advertised_port = <<"num", 7>>],
   [Usual EXCEPT !.host = <<"host", "self">>, !.advertised_port = <<"num", 0>>],
   [Usual EXCEPT !.allow_private = <<"yes">>],
   [Usual EXCEPT !.seeds = <<"separators">>],
   [Usual EXCEPT !.seeds = <<"list", <<<<"seed", 7>>, <<"bad">>>>>>],
   [Usual EXCEPT !.seeds = <<"list", <<>>>>],
   [Usual EXCEPT !.p2p_port = <<"num", 7>>, !.seeds = <<"list", <<<<"loop", 7>>, <<"lan", 0>>, <<"seed", 7>>>>>>],
   [Usual EXCEPT !.dir = "not a directory"], [Usual EXCEPT !.dir = "chain.db is a file"]}
=============================================================================
