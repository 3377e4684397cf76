--------------------------- MODULE MCPackageStore ---------------------------
(* Small instances of PackageStore for TLC. *)
EXTENDS PackageStore, TLC

CONSTANTS js, css, u1, u2, d1, v1, v1rc

\* One archive with a compressible entry and a plain one; the same with the
\* entry's brotli variant supplied; and an archive that archiveKeys refuses.
TwoEntries  == { {<<js, Identity>>, <<css, Identity>>} }
Prebuilt    == { {<<js, Identity>>, <<js, "br">>} }
MixedArchives == TwoEntries \union Prebuilt \union {{}}

\* 1.0.0 is a textual prefix of 1.0.0-rc.
RcPrefix == { <<v1, v1rc>> }
NoPrefix == {}

UploadSymmetry == Permutations({u1, u2})
=============================================================================
