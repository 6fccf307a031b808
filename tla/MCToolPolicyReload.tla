------------------------- MODULE MCToolPolicyReload -------------------------
EXTENDS ToolPolicy
CONSTANTS Bash, ReadFile
P(b, a) == [blocked |-> b, allowed |-> a]
UpToTwo == {<<>>, <<Bash>>, <<ReadFile, Bash>>}
BlockBash == P({Bash}, {})
\* Bash is blocked by name or for want of permission.
Strict == {P({Bash, ReadFile}, {}), P({}, {ReadFile})}
=============================================================================
