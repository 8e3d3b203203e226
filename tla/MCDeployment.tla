---------------------------- MODULE MCDeployment -----------------------------
(* One paper and one real deployment that may open the same ledger: a new  *)
(* one, or one older than identities that has only an equity row, an order *)
(* that was filled, or one that was partly filled and is still open.       *)
EXTENDS Deployment, TLC

CONSTANTS s1, s2

MCDeployments == { [mode |-> "paper", account |-> "A"], [mode |-> "real", account |-> "B"] }
Ledger(r, f, v, c) == [rows |-> r, fills |-> f, venue |-> v, curve |-> c]
OldBuy(s, q, state) == [symbol |-> s, quantity |-> q, state |-> state, numbered |-> TRUE,
                        note |-> "", writer |-> NoIdentity]
OneFill == <<[quantity |-> 1, fees |-> 1, total |-> 1]>>
OneShare == [filled |-> 1, working |-> FALSE, today |-> FALSE]
NewLedger == Ledger(<<>>, <<>>, <<>>, <<>>)
MCNewLedgers == {NewLedger}
MCOldLedgers ==
  { NewLedger, Ledger(<<>>, <<>>, <<>>, <<"unknown">>) } \cup
  UNION { { Ledger(<<OldBuy(s, 1, "FILLED")>>, <<OneFill>>, <<OneShare>>, <<>>),
            Ledger(<<OldBuy(s, 2, "SUBMITTED")>>, <<OneFill>>, <<OneShare>>, <<>>) } :
          s \in Symbols }
Exchangeable == Permutations(Symbols)
==============================================================================
