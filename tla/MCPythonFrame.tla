----------------------------- MODULE MCPythonFrame -----------------------------
EXTENDS PythonFrame, TLC

CONSTANTS e1, e2
MCExceptions == {e1, e2}
Symmetry == Permutations(MCExceptions)
=============================================================================
