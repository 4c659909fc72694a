--------------------------- MODULE MCSellLifecycle ---------------------------
(* Small instances of SellLifecycle for TLC. *)
EXTENDS SellLifecycle, TLC

CONSTANTS s1, s2, t1, t2

MCSellers == {s1, s2}
MCTxIds == {t1, t2}

\* The calls are interchangeable, and so are the signatures.
Symmetric == Permutations(MCSellers) \union Permutations(MCTxIds)
==============================================================================
