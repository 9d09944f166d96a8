------------------------------- MODULE MCLoops -------------------------------
(***************************************************************************)
(* An instance of Loops for TLC: two symbols, prices near each other and   *)
(* one far off, and averages over two and three rows.                        *)
(***************************************************************************)
EXTENDS Loops

MCSymbols == {"a", "b"}

MCLists == {Nothing, ("a" :> 100 @@ "b" :> 100), ("a" :> 120 @@ "b" :> 2000)}

MCPortfolios ==
  {Nothing,
   ("a" :> [shares |-> 1, cost |-> 100, price |-> 0] @@ "b" :> [shares |-> 2, cost |-> 100, price |-> 100]),
   ("b" :> [shares |-> 1, cost |-> 100, price |-> 0])}

MCShorts == {"a" :> 110}

\* A falling price of one symbol, none yet of the other.
MCEarlier ==
  {[i \in 1 .. 3 |-> [t |-> 2 * i, symbol |-> "a", price |-> 140 - 10 * i, free |-> i = 1]]}

MCItems ==
  {[symbol |-> "a", title |-> 1, dated |-> TRUE],
   [symbol |-> "a", title |-> 2, dated |-> FALSE],
   [symbol |-> "b", title |-> 1, dated |-> TRUE]}
==============================================================================
