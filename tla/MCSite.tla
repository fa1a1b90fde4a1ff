------------------------------- MODULE MCSite -------------------------------
(* The instance of Site that TLC checks.                                   *)
EXTENDS Site, TLC

\* No property and no step tells two sign-ins, or two sessions, apart.
SiteSymmetry == Permutations(Handler) \union Permutations(SessionId)

\* Logs that fit, that fill the limit, that exceed it by an event, by a block
\* and by both, and an event after which a short block still fits.
SomeLines  == {<<1>>, <<2, 3>>, <<2, 4>>, <<6>>}
SomeBlocks == {<<0, 0>>, <<0, 1>>, <<0, 4>>}
=============================================================================
