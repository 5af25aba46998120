----------------------------- MODULE MCSocialTurn -----------------------------
(* Small instances of SocialTurn for TLC. *)
EXTENDS SocialTurn, TLC

CONSTANTS a, b, h1, h2, p1, p2, n1, n2, m1, m2

\* One Character is addressed; its reply may bring the other one in.
MCChosen == <<a>>
MCProposals == {<< >>, <<[dep |-> b, origin |-> "invite"]>>}

\* Two Characters are addressed.
MCChosenTwo == <<a, b>>
MCNoProposals == {<< >>}

OneProcess == h1 :> p1 @@ h2 :> p1
OneHandler == h1 :> p1
TwoProcesses == h1 :> p1 @@ h2 :> p2

\* Nonces, message parts and tool calls are only compared with one another.
Symmetry == Permutations(Nonce) \cup Permutations(Part)
=============================================================================
