----------------------------- MODULE MCCommands -----------------------------
(***************************************************************************)
(* The smallest instance in which the hazards of the page meet: a loop on  *)
(* the main channel that does not catch exceptions and reloads the page    *)
(* (gambling), one with a channel of its own that sends two commands under *)
(* one lock and sleeps between them (stock, news), and one on the main     *)
(* channel that catches its exceptions (hourly, daily).                    *)
(***************************************************************************)
EXTENDS Commands

CONSTANTS gambling, stock, hourly, main, market

MCTasks    == {gambling, stock, hourly}
MCChannels == {main, market}
MCTarget   == [t \in MCTasks |-> IF t = stock THEN market ELSE main]
MCJobs     == [t \in MCTasks |-> CASE t = gambling -> {"bare", "tell", "reload"}
                                   [] t = stock    -> {"query"}
                                   [] t = hourly   -> {"query"}]
MCNaps     == {stock}
============================================================================
