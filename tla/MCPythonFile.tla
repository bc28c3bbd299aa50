----------------------------- MODULE MCPythonFile -----------------------------
EXTENDS PythonFile, TLC

CONSTANTS g1, g2, p1, p2
MCPrograms == {g1, g2}
MCPaths == {p1, p2}
Interchangeable == Permutations(MCPrograms) \cup Permutations(MCPaths)
=============================================================================
