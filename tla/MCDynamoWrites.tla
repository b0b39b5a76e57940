--------------------------- MODULE MCDynamoWrites ---------------------------
(* DynamoWrites on three items of one partition and one of another.         *)
EXTENDS DynamoWrites

CONSTANTS p, q, c1, c2

K(n)    == [pk |-> p, sk |-> n]
Other   == [pk |-> q, sk |-> 1]

MCKeys  == {K(1), K(2), K(3), Other}
MCKeysP == {K(1), K(2), K(3)}

MCTables  == {{}, {K(1), K(3), Other}, MCKeys}
MCTablesP == {{K(2)}, MCKeysP}
MCSingles == {K(1)}

\* At the limit, over it, and with one key twice.
MCPutBatches    == {<<K(3), Other>>, <<K(1), K(2), K(3)>>, <<K(1), K(1)>>}
MCDeleteBatches == {<<>>, <<K(1), Other, K(3)>>, <<K(1), K(1)>>}
MCPutsP         == {<<K(1), K(2), K(3)>>, <<K(1), K(1)>>, <<K(2), K(3)>>}
MCDeletesP      == {<<>>, <<K(3), K(1), K(2)>>, <<K(1), K(1)>>}
=============================================================================
