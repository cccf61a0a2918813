---------------------------- MODULE MCFileSystem ----------------------------
(* TLC instances of FileSystem. *)
EXTENDS FileSystem, TLC

\* Two files, one of them in a directory, and each under one spelling.
OneSpelling == [f |-> <<"f">>, d |-> <<"d">>, df |-> <<"d", "f">>]
OneSpellingNames == DOMAIN OneSpelling

\* One file under two spellings, as "f" and "/f".
TwoSpellings == [f |-> <<"f">>, slash_f |-> <<"f">>]
TwoSpellingsNames == DOMAIN TwoSpellings

\* One file.
OneFile == [f |-> <<"f">>]
OneFileNames == DOMAIN OneFile

Symmetry == Permutations(Handles)

=============================================================================
