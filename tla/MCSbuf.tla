------------------------------- MODULE MCSbuf -------------------------------
(***************************************************************************)
(* Small instances of the editing buffer.                                  *)
(***************************************************************************)
EXTENDS SbufRefinement

\* Strings for the runs about marks: of which letters does not matter there.
MarkInserts  == {<<>>, <<"a">>, <<"a", "a">>}
MarkPatterns == {<<"a">>, <<"a", "a">>}
MarkChunks   == {<<"a">>}

\* Strings with newlines, for the line number cache.
LineInserts  == {<<>>, <<"a">>, <<"NL">>, <<"a", "NL">>}

\* Two lines, whole or not, with tabs or without.
ColumnInserts == {<<>>, <<"a", "NL", "a">>, <<"Tab", "NL", "a", "Tab">>}

BlockChunks  == {<<"a">>, <<"a", "NL">>}

NoStrings == {}

\* Client marks are interchangeable.
Interchangeable == Permutations(Handles \ {Aux})
=============================================================================
