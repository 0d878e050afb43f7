--------------------------- MODULE MC_SourceTables ---------------------------
EXTENDS SourceTables

\* Three databases: one with exactly HiveLimit tables, one with a page and
\* one more, one with none.
MCTableCount == (0 :> 2 @@ 1 :> 3 @@ 2 :> 0)

=============================================================================
