----------------------------- MODULE MCTerminal -----------------------------
(* Keys, their characters and the one command, for the runs of Terminal. *)
EXTENDS Terminal

MCPlain == [k \in Key |-> k]
MCShifted == [k \in Key |-> CASE k = "c" -> "C" [] k = "d" -> "D" [] k = "7" -> "&" [] OTHER -> k]
MCLowerCase == [c \in {"c", "C", "d", "D", "7", "&", " ", "|", "TAB"} |->
                  CASE c = "C" -> "c" [] c = "D" -> "d" [] OTHER -> c]
MCCommands == {<<"c">>}
MCPrompt == <<"Q", ">">>
=============================================================================
