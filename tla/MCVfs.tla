-------------------------------- MODULE MCVfs --------------------------------
(***************************************************************************)
(* Vfs with a table of a few nodes and a heap that fills up before or      *)
(* after it.  One name fills a node, as that of a default file, and one is *)
(* too long for it and is cut to the same.                                 *)
(***************************************************************************)
EXTENDS Vfs

MCNames == {<<"a">>, <<"b">>, <<"r", "s">>, <<"r", "s", "t">>}
MCTexts == {<<>>, <<"t">>, <<"u", "u">>}
MCDefaults == <<<<<<"r", "s">>, <<"t">>>>, <<<<"a">>, <<>>>>>>
=============================================================================
