---------------------------- MODULE MCDataDownload ----------------------------
(* Small instances of DataDownload. *)
EXTENDS DataDownload, TLC

CONSTANTS x, y, unlisted

MCTarget == <<x, unlisted, y>>
MCListed == {x, y}
MCBad == {<<y, Midnight(1) + 1>>}

Minutes == [from |-> 1, to |-> 4, chunk |-> 2, interval |-> "minute", replace |-> FALSE,
            plain |-> FALSE, dry |-> FALSE, refused |-> FALSE]

MCArguments ==
    {Minutes, [Minutes EXCEPT !.replace = TRUE], [Minutes EXCEPT !.plain = TRUE],
     [Minutes EXCEPT !.interval = "day"], [Minutes EXCEPT !.chunk = 0],
     [Minutes EXCEPT !.from = 2, !.to = 2], [Minutes EXCEPT !.chunk = 3]}
=============================================================================
