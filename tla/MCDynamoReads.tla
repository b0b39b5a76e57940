--------------------------- MODULE MCDynamoReads ----------------------------
(* DynamoReads on three items of one partition and one of another.         *)
EXTENDS DynamoReads

\* Letters.
A == 49
B == 50

P == <<A>>
Q == <<B>>
Item(pk, sort, gsk, tag) == [pk |-> pk, sk |-> sort, gpk |-> Q, gsk |-> gsk, tag |-> tag]

\* Sort keys with the marks of composite keys in them; two versions of one
\* item, in different places of the index.
I1  == Item(P, <<Hash>>, <<A>>, P)
I2  == Item(P, <<A, Hash>>, <<B>>, Q)
I2b == Item(P, <<A, Hash>>, <<>>, P)
I3  == Item(P, <<A, SEP>>, <<B>>, P)
I4  == Item(Q, <<A>>, <<A>>, P)

MCItems  == {I1, I2, I2b, I3, I4}
MCContested == {I2, I2b}
MCTables == {{I1, I2, I3, I4}, {I2b, I4}}
MCPks    == {P}
MCSks    == {<<A>>, <<A, Hash>>}
MCPatterns == {<<Hash>>, <<A, Hash>>, <<A, Star>>, <<A, SEP>>}
MCRoles  == {Q}
MCFilters ==
  {[tag |-> P, exp |-> <<Is("tag", ":fld")>>, names |-> None, values |-> ":fld" :> P],
   [tag |-> Q, exp |-> <<Is("#f", ":fld")>>, names |-> "#f" :> "tag", values |-> ":fld" :> Q]}
MCLimits == {1, 0, NoLimit}
MCKeyLists ==
  {<<KeyOf(I1), KeyOf(I3)>>, <<KeyOf(I1), KeyOf(I1)>>, <<KeyOf(I1), KeyOf(I2), KeyOf(I3)>>}
=============================================================================
