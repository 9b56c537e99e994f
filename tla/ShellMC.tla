------------------------------- MODULE ShellMC -------------------------------
(* Lines for the runs of ShellJobs.                                         *)
EXTENDS ShellJobs

Line(cmds) == [Empty EXCEPT !.cmds = cmds]
Less == Line(<<"less">>)
Pipeline == Line(<<"cat", "less">>)
Background == [Line(<<"find">>) EXCEPT !.amp = TRUE]
Jobs == Line(<<"jobs">>)
JobsToFile == [Jobs EXCEPT !.out = TRUE]
FgLine == Line(<<"fg">>)
BgLine == Line(<<"bg">>)
ExitLine == Line(<<"exit">>)

(* Everything but the lines that break the list of jobs.                    *)
Session == {Less, Pipeline, Background, Jobs, FgLine, BgLine}

(* No fg: nothing is waited for without WUNTRACED.                          *)
WithoutFg == {Empty, Less, Pipeline, Background, BgLine, JobsToFile, ExitLine}

(* For the findings.                                                        *)
StrayLines == {Less, Background}
FgPipeLines == {Pipeline, FgLine}
=============================================================================
