----------------------------- MODULE MCDirTree -----------------------------
EXTENDS DirTree

(* A client with /a/, /a/b/ and /c/; /c/ is empty.                         *)
MCFS == {<<>>, <<"a">>, <<"a", "b">>, <<"c">>}
MCEmptyDirs == {<<"c">>}
=============================================================================
