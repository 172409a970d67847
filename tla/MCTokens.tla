----------------------------- MODULE MCTokens -----------------------------
\* Two things the market's tokens promise apart from each other: allowances
\* (PT's code, which YT and SY share) and the wrapper's shares.  They share
\* nothing, so a behaviour is one of them.
EXTENDS Allowances, SyWrapper, TLC
CONSTANTS h1, h2, s1, s2, slot0, slot1
VARIABLE scene

BothWays == {<<h1, h2>>, <<h2, h1>>}
Interchangeable == Permutations(Shareholders) \cup Permutations(Slots)

TokensInit == scene \in {"allowances", "wrapper"} /\ Init /\ WrapperInit
TokensNext ==
  /\ UNCHANGED scene
  /\ \/ scene = "allowances" /\ Next /\ UNCHANGED wrapperVars
     \/ scene = "wrapper" /\ WrapperNext /\ UNCHANGED vars

\* No action reads `call', so states that differ only in it have the same
\* steps; each step is checked with the call it carries.
ButForTheCall == <<scene, ptVars, ledger, stored, wrapperVars>>

TokensSpec == TokensInit /\ [][TokensNext]_<<scene, vars, wrapperVars>>
=============================================================================
