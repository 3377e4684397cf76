---------------------------- MODULE MCAliasCache ----------------------------
(* Small instances of AliasCache for TLC. *)
EXTENDS AliasCache

CONSTANTS g1, g2, d1

Stable(major, minor, patch) == <<major, minor, patch, 0, 0>>
Rc(major, minor, patch, n)  == <<major, minor, patch, n, 0>>

\* Two patch releases of one line.
TwoPatches == { Stable(1, 0, 1), Stable(1, 0, 2) }

\* Neighbours: 1.0.1 opens the text of 1.0.10, line 1 that of line 10, and the
\* highest number is a pre-release.
Neighbours == { Stable(1, 0, 1), Stable(1, 0, 10), Stable(10, 0, 0), Rc(11, 0, 0, 1) }

MinorAndPinned == { <<1, 0>>, Stable(1, 0, 1) }
AliasForms == { Latest, <<1>>, <<1, 0>>, Rc(11, 0, 0, 1), Stable(1, 0, 1) }
=============================================================================
