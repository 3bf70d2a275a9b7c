---- MODULE MCApyCalculator ----
\* Two losses; a value of 0 and a gain; too few snapshots, too few returns.
EXTENDS ApyCalculator
CONSTANTS s1, s2

\* The limits of the handler, and those of the example in the source.
MCRequests ==
  {[strategies |-> list, minYield |-> limits[1], maxRisk |-> limits[2]] :
     list \in {<<>>, <<s1, s2>>}, limits \in {<<0, 10000>>, <<500, 7000>>}}

Rows(history, volatility) == [history |-> history, volatility |-> volatility]
MCDatabases ==
  {(s1 :> Rows(<<20, 10>>, 400)) @@ (s2 :> Rows(<<10, 1>>, 2500)),
   (s1 :> Rows(<<0, 10>>, 5)) @@ (s2 :> Rows(<<1000, 1000, 1001>>, 2500)),
   (s1 :> Rows(<<>>, 5)) @@ (s2 :> Rows(<<10>>, Unknown))}
================================
