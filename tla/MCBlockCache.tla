---------------------------- MODULE MCBlockCache ----------------------------
(* Two datasets and their threads, sharing a cache of one block.           *)
EXTENDS BlockCache, TLC

CONSTANTS d1, d2

Both == {d1, d2}
Again1 == {"read", "update"} \X {1}
Requests == d1 :> <<{<<"read", 1>>, <<"write", 1>>}, Again1, {<<"flush", 0>>}>>
         @@ d2 :> <<{"read", "write"} \X {1} \cup {<<"evict", 0>>}, {<<"update", 2>>}>>
NoneOrBoth == {{}, {"read", "write"}}
None == {{}}
=============================================================================
