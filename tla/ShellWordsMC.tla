----------------------------- MODULE ShellWordsMC -----------------------------
(* Values for the run of ShellWords: one pattern finds two names, the other *)
(* none.                                                                    *)
EXTENDS ShellWords

Found == ("*" :> <<"a.c", "b.c">> @@ "?" :> <<>>)
=============================================================================
