------------------------------ MODULE MCEchfs ------------------------------
(* Values for Echfs and EchfsLoader: a volume of nine blocks, four of them *)
(* for data, whose table and directory have two blocks each, and four      *)
(* directory entries, fewer than the paths can use. Destinations in the    *)
(* root (one has the name of a directory), in a directory, and with a      *)
(* leading slash; files of one block and of two.                           *)
EXTENDS EchfsLoader

Rel(names) == [abs |-> FALSE, names |-> names]
Abs(names) == [abs |-> TRUE, names |-> names]

MCImportPaths == {Rel(<<"a">>), Rel(<<"d">>), Rel(<<"d", "a">>), Abs(<<"d", "a">>)}
MCMkdirPaths == {<<"d">>, <<"d", "d">>}

\* Destinations in the root only.
MCRootPaths == {Rel(<<"a">>), Rel(<<"b">>)}

=============================================================================
