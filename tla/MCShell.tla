------------------------------- MODULE MCShell -------------------------------
(***************************************************************************)
(* Shell with commands of one letter, on a console of a few rows.  One   *)
(* line has a word too long for a command's array and one a name too long*)
(* for that of a write's.                                                *)
(***************************************************************************)
EXTENDS Shell

MCWord == [c \in Commands \cup {"help"} |->
             CASE c = "help" -> <<"h">>     [] c = "vesademo" -> <<"v">>
               [] c = "usermode" -> <<"u">> [] c = "taskdemo" -> <<"t">>
               [] c = "ls" -> <<"l">>       [] c = "clear" -> <<"c">>
               [] c = "about" -> <<"b">>    [] c = "shutdown" -> <<"s">>
               [] c = "uptime" -> <<"m">>   [] c = "free" -> <<"f">>
               [] c = "alloc" -> <<"a">>    [] c = "dealloc" -> <<"d">>
               [] c = "cat" -> <<"k">>      [] c = "touch" -> <<"n">>
               [] c = "write" -> <<"w">>]

MCLines == {<<"h">>, <<"h", Blank>>, <<"c">>, <<"a">>, <<"d">>, <<"k", Blank, "x">>,
            <<"w", Blank, "x", Blank, "y">>, <<"l">>, <<"s">>,
            <<"k", "k", "k">>, <<"w", Blank, "x", "y", Blank, "y">>}
MCChars == {"h", "c", "a", "d", "k", "w", "x", "y", "l", "s", ">", "v", "u", "t", "b", "m", "f", "n"}

\* Nothing, a short line, and one that fills a row.
MCReplies == {<<>>, <<"x", Tab, Newline>>, <<Tab, "x", "y", "x", "y", "x", Newline>>}
==============================================================================
