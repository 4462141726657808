------------------------------ MODULE MCDeploy ------------------------------
(* Instances of Deploy for TLC.                                            *)
EXTENDS Deploy

CONSTANTS a, b, c, d

\* Dependency graphs on four configurations: a pair and two without edges, two
\* independent pairs, a chain with a shortcut, a diamond, two roots over a shared pair, and
\* a fork whose branches are joined by an edge.
MCGraphs ==
    { {<<a, b>>},
      {<<a, b>>, <<c, d>>},
      {<<a, b>>, <<b, c>>, <<a, c>>},
      {<<a, b>>, <<a, c>>, <<b, d>>, <<c, d>>},
      {<<a, c>>, <<b, c>>, <<a, d>>, <<b, d>>},
      {<<a, b>>, <<a, c>>, <<b, c>>, <<c, d>>} }
=============================================================================
