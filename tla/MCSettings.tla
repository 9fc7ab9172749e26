----------------------------- MODULE MCSettings -----------------------------
(* Model-checking instances of Settings.                                    *)
EXTENDS Settings, TLC

CONSTANTS p1, k1

\* One provider; with or without a key.
MCProvider == {p1}
MCApiKey == {k1}
MCDefault == [provider |-> p1, apiKey |-> None]

\* Nothing orders the checks or the requests.
Symmetry == Permutations(Probe) \cup Permutations(Ask)
=============================================================================
