---------------------------- MODULE MCSubscription ----------------------------
(* A run whose value callback closes it while a continuation is live.       *)
EXTENDS Subscription

CONSTANTS c1, c2, w1, w2, wk

N(op, n) == [op |-> op, n |-> n, seeded |-> FALSE]

Setup(nodes, feed, amounts, clients, concurrent, events) ==
    [nodes |-> nodes, feed |-> feed, amounts |-> amounts, clients |-> clients,
     concurrent |-> concurrent, events |-> events]

MCDeferred == {Setup(<<N("FLATMAP", 0)>>, <<1>>, {1}, {c1}, TRUE, {"callback close"})}

MCClients == {c1, c2}
MCWorkers == {w1, w2}
=============================================================================
