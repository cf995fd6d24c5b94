----------------------------- MODULE MCConsole -----------------------------
(* Values for Console: a screen of 6 rows and 6 columns, on which every    *)
(* message wraps and the third one scrolls; a clock about to begin another *)
(* second; numbers at the ends of an int of 4 bits and a long of 7. What   *)
(* an exception prints looks different from what everybody else prints.    *)
EXTENDS Console

Line == [conv |-> "text", text |-> <<87, NL>>]
Num(conv, val, width, fill) ==
    [conv |-> conv, val |-> val, width |-> width, fill |-> fill]
Msg(level, module, body) == [level |-> level, module |-> module, body |-> body]

Warn == Msg("warn", 77, <<Num("d", -1, 0, Space), Num("ld", -64, 4, Zero),
                          Num("lX", -1, 3, Zero), Line>>)
Error == Msg("error", 0, <<Num("x", 11, 2, Space), Line>>)

MCMessages == {Warn}
MCReports == {<<Error, Error>>}

=============================================================================
