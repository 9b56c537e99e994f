------------------------------- MODULE PipesMC -------------------------------
(* Values for the runs of ShellPipes.                                       *)
EXTENDS ShellPipes

L(cmds, amp, in, out) == [cmds |-> cmds, amp |-> amp, in |-> in, out |-> out]

\* Lines that lose or keep descriptors in every way run has.
Typed == {L(<<"source", "filter", "filter">>, FALSE, "no", TRUE),
          L(<<"source", "head">>, TRUE, "file", FALSE),
          L(<<"jobs", "filter">>, FALSE, "missing", FALSE),
          L(<<"filter">>, FALSE, "file", TRUE),
          L(<<"source", "bad">>, FALSE, "no", FALSE),
          L(<<"filter", "export">>, FALSE, "no", TRUE),
          L(<<"null">>, FALSE, "file", FALSE),
          L(<<"exit">>, FALSE, "no", FALSE)}
=============================================================================
