------------------------------- MODULE MCPrices -------------------------------
EXTENDS Prices, TLC

\* A table of one row.
MCRows == {[table |-> "a", scope |-> "m", since |-> 0, to |-> 2]}

Symmetry == Permutations(Processes)

=============================================================================
