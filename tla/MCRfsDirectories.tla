-------------------------- MODULE MCRfsDirectories --------------------------
EXTENDS RfsDirectories, TLC

CONSTANTS t1, t2, t3, u1, d1, d2

ThreadSymmetry == Permutations(Threads)

\* A file d/a/b.
Tree == <<Root, Main("d")>> :> d1 @@ <<d1, Main("a")>> :> d2 @@ <<d2, Main("b")>> :> u1

\* That file, another in a new directory, their directories as names of files, and a
\* path that is too deep.
TreeRequests ==
  [op : {"WRITE"}, path : {<<"d">>, <<"d", "a">>, <<"d", "c">>, <<"d", "a", "b">>,
                           <<"d", "c", "b">>, <<"d", "a", "c", "b">>}]
    \cup [op : {"RM"}, path : {<<"d">>, <<"d", "a">>, <<"d", "a", "b">>}]
    \cup [op : {"LS"}, path : {<<"d", "a">>}]
=============================================================================
