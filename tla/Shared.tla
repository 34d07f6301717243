------------------------------- MODULE Shared -------------------------------
(***************************************************************************)
(* The variables that several parts of Collectors use under one name.       *)
(***************************************************************************)

VARIABLES
    running, stopping, child, timer,                      \* a source that runs a program
    shown,                                                \* of most
    asked,                                                \* PgClient, SbomSource
    listening                                             \* TraceSource, StatsdSource
=============================================================================
