-------------------------- MODULE MCBaselineBless --------------------------
(* Small instances of BaselineBless for TLC. *)
EXTENDS BaselineBless

CONSTANTS p1, p2, p3

TwoPaths   == {p1, p2}
ThreePaths == {p1, p2, p3}

\* One file, several files in order, the same file twice, none.
SomeLists == {<<p1>>, <<p2, p3>>, <<p1, p1>>, <<>>}
OneOrTwo  == {<<p1>>, <<p1, p2>>}
=============================================================================
