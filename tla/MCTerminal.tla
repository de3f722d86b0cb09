------------------------------ MODULE MCTerminal ------------------------------
(* Terminal with two keys and commands one or two keys long. *)
EXTENDS Terminal

MCHelp == <<"h">>
MCClear == <<"c">>
MCVer == <<"h", "c">>
MCAbout == <<"c", "h">>
=============================================================================
