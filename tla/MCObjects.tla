------------------------------- MODULE MCObjects ------------------------------
(***************************************************************************)
(* A small instance of Ledger: every reachable database is the store       *)
(* against which a family of small transactions is validated.              *)
(***************************************************************************)
EXTENDS Ledger

CONSTANTS
    coin, coin2,     \* two texts of one coinbase
    spend,           \* a text of a transaction that spends its first output
    block,           \* a text of an object that is no transaction
    junk,            \* a text without an object
    coinId, spendId, blockId,
    alice, bob

MCObjectId ==
    [x \in Text |-> CASE x \in {coin, coin2} -> coinId
                      [] x = spend -> spendId
                      [] x = block -> blockId
                      [] OTHER     -> NoId]

MkTx(height, ins, outs) == [coinbase |-> height, inputs |-> ins, outputs |-> outs]
MkIn(i, n, key) == [txid |-> i, index |-> n, sig |-> key]
MkOut(key, v) == [pubkey |-> key, value |-> v]

MCParsed ==
    [x \in Text |->
        CASE x \in {coin, coin2} -> MkTx(TRUE, <<>>, <<MkOut(alice, 2), MkOut(Malformed, 1)>>)
          [] x = spend -> MkTx(FALSE, <<MkIn(coinId, 0, alice)>>, <<MkOut(bob, 1)>>)
          [] OTHER -> NoTx]

Inputs == {MkIn(i, n, key) : i \in Id, n \in 0..2, key \in {alice, bob, Malformed}}

\* Inputs that are in order once their parents are stored.
GoodInputs == {MkIn(coinId, 0, alice), MkIn(spendId, 0, bob)}

MCCandidates ==
    {MkTx(h, ins, outs) : h \in BOOLEAN,
                          ins \in {<<>>} \cup {<<a>> : a \in Inputs}
                                    \cup (Inputs \X GoodInputs) \cup (GoodInputs \X Inputs),
                          outs \in {<<>>, <<MkOut(bob, 1)>>, <<MkOut(bob, 2), MkOut(alice, 1)>>}}
=============================================================================
