---------------------------- MODULE MCRefineApi ----------------------------
EXTENDS RefineApi

MCGraphs == SimpleGraphs

\* Colors assigned by set_color in node order: two classes whose colors are 0 and 1
\* or 0 and N-1, few of them start positions, and three classes.
MCPreColorings ==
    {SetColors(NewColoring, [i \in 1 .. N |-> <<i-1, c[i-1]>>]) :
        c \in [Nodes -> {0, 1}] \cup [Nodes -> {0, N-1}]
              \cup {[u \in Nodes |-> IF u = 0 THEN N-1 ELSE IF u = 1 THEN 1 ELSE 0]}}
=============================================================================
