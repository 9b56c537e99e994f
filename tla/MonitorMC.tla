------------------------------ MODULE MonitorMC ------------------------------
(* Values for the run of Monitor: the first thread makes a call of every    *)
(* shape, the second asks for the position in a stream of its own.          *)
EXTENDS Monitor

Shapes == <<{"fgetc", "ungetc", "fclose", "calloc", "malloc",
            "readdir", "exit", "_exit"}, {"ftell"}>>
Own == <<"a", "b">>
=============================================================================
