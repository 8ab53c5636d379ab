--------------------------- MODULE MCCommandLine ---------------------------
(* Lines of up to three arguments of the kinds that decide what a run does,   *)
(* and each flag that answers on a line of its own.                           *)
EXTENDS CommandLine

MCTokens  == {"app", "--", "type", "unknown", "transform", "hello", "warm 1", "warm 2", "session"}
MCSystems == {"linux", "darwin", "windows"}
=============================================================================
