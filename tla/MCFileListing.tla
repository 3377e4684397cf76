--------------------------- MODULE MCFileListing ---------------------------
(* Small instances of FileListing for TLC. *)
EXTENDS FileListing

SegmentNames ==
  { "", ".", "..", "dist", "lib", "x", "a.js", "a.js+", "a.js-", "a.js.br", "a.js.gz",
    "e'", "é", "__MACOSX", ".DS_Store", ".gimmeignore" }

\* "e'" is "e" with a combining accent, "é" the composed form.
Composed == [seg \in SegmentNames |-> IF seg = "e'" THEN "é" ELSE seg]

Named(name, size) ==
  [name |-> name, size |-> size, dirMode |-> FALSE, readable |-> TRUE, patterns |-> {}]

Ignore(name, patterns) == [Named(name, 1) EXCEPT !.patterns = patterns]

\* Plain files, one of them compressible, with two keys between it and its
\* variants in text order.
Plain == { Named(<<"a.js">>, 2), Named(<<"a.js+">>, 1), Named(<<"a.js-">>, 1),
           Named(<<"a.js.br">>, 1), Named(<<"a.js.gz">>, 1) }

\* Names that need cleaning, or must be refused or dropped.
Odd == { Named(<<"lib", "..", "a.js">>, 2), Named(<<"lib", "..", "..", "x">>, 1),
         Named(<<"", "x">>, 1), Named(<<"lib", "e'">>, 1), Named(<<"lib", "é">>, 1),
         Named(<<"lib", "">>, 0), Named(<<"__MACOSX", "x">>, 1), Named(<<"lib", "__MACOSX", "x">>, 1),
         Named(<<"lib", ".DS_Store">>, 1), Named(<<"x">>, 6) }

\* Ignore files in the two places, and where one has no effect.
Ignores == { Ignore(<<".gimmeignore">>, {"x", "a.js+"}),
             Ignore(<<"lib", ".gimmeignore">>, {"x", "é"}) }

\* A folder that only its mode bits give away, an ignore file that cannot be read.
Special == { [Named(<<"x">>, 1) EXCEPT !.dirMode = TRUE],
             [Ignore(<<".gimmeignore">>, {}) EXCEPT !.readable = FALSE] }

Entries == Plain \union Odd \union Ignores

UpTo(n, S) == UNION { [1..m -> S] : m \in 1..n }

\* Every archive of one or two entries, and of three different ones in some order
\* that are none of the special ones.
SmallZips ==
  UpTo(2, Entries \union Special) \union { SetToSeq(S) : S \in kSubset(3, Entries) }

\* Every key these archives could yield, and one that none may.
Texts == << <<"..", "x">>, <<".gimmeignore">>, <<"__MACOSX", "x">>, <<"a.js">>,
            <<"a.js+">>, <<"a.js-">>, <<"a.js.br">>, <<"a.js.gz">>,
            <<"lib", ".gimmeignore">>, <<"lib", "__MACOSX", "x">>, <<"lib", "a.js">>,
            <<"lib", "x">>, <<"lib", "é">>, <<"x">>, <<"é">> >>

Places == [k \in Range(Texts) |-> SelectInSeq(Texts, LAMBDA x : x = k)]

Siblings == [k \in {<<"a.js.br">>, <<"a.js.gz">>} |-> <<"a.js">>]
Scripts  == { <<"a.js">>, <<"lib", "a.js">> }
=============================================================================
