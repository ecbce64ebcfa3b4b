---------------------------- MODULE MCConsoleRing ----------------------------
(* Small sets of texts for ConsoleRing. *)
EXTENDS ConsoleRing

TwoTexts == {<<"a", "b">>, <<"c">>}
OneError == {"e"}
=============================================================================
