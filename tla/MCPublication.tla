--------------------------- MODULE MCPublication ---------------------------
EXTENDS Publication, TLC
\* The default branch fails its own tests; "rough" is "neat" before formatting.
MCTree == {"base", "rough", "neat"}
MCFmt == [t \in MCTree |-> IF t = "rough" THEN "neat" ELSE t]
MCPassing == [p \in Phase |-> IF p = "full" THEN {"neat"} ELSE {"base", "neat"}]
\* the bun gates; a policy that requires all phases; one that requires a phase
\* it has no commands for; the bun gates, skipped on a maintainer's directive
MCSetup ==
    {[bun |-> TRUE, runs |-> {"fast", "full"}, requires |-> {}, skip |-> FALSE, directed |-> FALSE],
     [bun |-> FALSE, runs |-> Phase, requires |-> Phase, skip |-> FALSE, directed |-> FALSE],
     [bun |-> FALSE, runs |-> {"fast"}, requires |-> {"full"}, skip |-> FALSE, directed |-> FALSE],
     [bun |-> TRUE, runs |-> {"fast", "full"}, requires |-> {}, skip |-> TRUE, directed |-> TRUE]}
Symm == Permutations(Call)
=============================================================================
