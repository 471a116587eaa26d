------------------------------ MODULE MCRegistry ------------------------------
(* Instance of the registry for TLC: numbers on both sides of every limit. *)
EXTENDS Registry, TLC

MCCells == {-1, 0, 1, 3}

Setting == {<<"server", s>> : s \in Servers} \cup
           {<<"server", NoServer>>, <<"port", 2>>, <<"port", 0>>, <<"pool_size", -1>>,
            <<"auto_reconnect", "off">>, <<"auto_reconnect", "maybe">>,
            <<"ssl_enable", "on">>, <<"ssl_ca_file", "ca">>}

MCFiles == UNION {[1 .. n -> Setting] : n \in 0 .. 2}

ServerSymmetry == Permutations(Servers)
=============================================================================
