--------------------------- MODULE MCSparqlResolver ---------------------------
\* Small instances of SparqlResolver.
EXTENDS SparqlResolver, TLC

CONSTANTS a, b, c, r1, r2

OneResolver == {r1}
TwoResolvers == {r1, r2}
TwoResources == {a, b}
ThreeResources == {a, b, c}

LongLists == [r \in OneResolver |-> [kind \in {"ids"} |-> 3]]

\* One resolver has lists, of which those of IRIs take several queries, the other
\* a single id, by itself or as that of a contact.
LongAndShortLists ==
    [r \in TwoResolvers |->
        IF r = r1 THEN [kind \in {"ids", "iris", "typed"} |-> IF kind = "ids" THEN 3 ELSE 2]
                  ELSE [kind \in {"iris", "typed"} |-> 1]]

\* Resources are not told apart.
ResourceSymmetry == Permutations(TwoResources)

=============================================================================
