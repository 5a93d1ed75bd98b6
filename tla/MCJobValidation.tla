-------------------------- MODULE MCJobValidation --------------------------
(* A small instance: three transactions of weights 1, 1 and 2, the first of
   them mined by tip 1, a block of weight 2 with a negligible coinbase, and a
   carry-over of 1: together the transactions exceed the mirror's ceiling. *)
EXTENDS JobValidation

MCTxs == {"a", "b", "d"}
MCWeight == [t \in MCTxs |-> IF t = "d" THEN 2 ELSE 1]
MCMineable == [t \in Tips |-> IF t = 0 THEN MCTxs ELSE MCTxs \ {"a"}]

MCOffers == {{}, {"b"}, {"d"}}

\* Good lists on either tip, with and without what they need, one that needs
\* a transaction tip 1 spent, one heavier than a block, one that repeats a
\* wtxid, one too long, and supplies with a coinbase or with a repeated
\* transaction that was not declared.
MCRequests ==
    {<<0, <<"a", "b">>, <<>>>>, <<1, <<"a", "b">>, <<"a">>>>,
     <<0, <<"d">>, <<"d">>>>, <<1, <<"d">>, <<"d">>>>,
     <<0, <<"d", "b">>, <<"d">>>>, <<0, <<"b", "b">>, <<>>>>, <<0, <<"a", "b", "d">>, <<>>>>,
     <<0, <<"d">>, <<CoinbaseTx>>>>, <<0, <<"b">>, <<"d", "d">>>>}
============================================================================
