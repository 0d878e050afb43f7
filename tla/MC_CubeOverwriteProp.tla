------------------------ MODULE MC_CubeOverwriteProp ------------------------
EXTENDS CubeOverwriteProp

MCDefaultKeys == <<"window", "policy">>
MCRheosKeys   == <<"consumer", "servers">>

\* Saved objects: up to three of a defaulted key, a rheos key and a user
\* key, in any order, with empty or set values.
MCEntries == {Entry("window", v) : v \in {"", "v"}}
             \cup {Entry("consumer", v) : v \in {"", "v"}}
             \cup {Entry("u", "v")}
MCSavedProps ==
    {p \in UNION {[1..n -> MCEntries] : n \in 0..3} :
        Cardinality(Names(p)) = Len(p)}
=============================================================================
