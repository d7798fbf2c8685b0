----------------------------- MODULE MCCommands -----------------------------
(***************************************************************************)
(* Commands with stores of up to two records, three calls by a client of   *)
(* the library, and a command line for each outcome of main's dispatch.    *)
(***************************************************************************)
EXTENDS Commands

MCTotals == 0 .. 2

MCArgvs ==
  {<<>>, <<"--dump">>, <<"--dump", "f">>, <<"--convert", "f">>,
   <<"--convert", "json", "f">>, <<"--convert", "plist", "f">>}

=============================================================================
