---------------------------- MODULE MCBalancing ----------------------------
(* One wallet with three tokens: "z" is shielded, "n" is NIGHT, "u" is     *)
(* another unshielded token.                                               *)
EXTENDS Balancing

C(t, v, i) == [token |-> t, value |-> v, id |-> i, registered |-> FALSE]

MCCoins == {C("z", 1, 1), C("z", 3, 2), C("n", 2, 3), C("u", 1, 5), C("u", 2, 6)}
MCCap == [d \in {1, 2} |-> 3 * d + 2]
MCPayments == {C("z", 1, 9)}

MCRequests == {
    [kind |-> "transfer", price |-> 1, target |-> [t \in {"z"} |-> 1], own |-> [t \in {"z"} |-> 0]],
    [kind |-> "transfer", price |-> Sponsored, target |-> [t \in {"n"} |-> 1], own |-> [t \in {"n"} |-> 0]],
    [kind |-> "dappTransfer", price |-> 1, target |-> [t \in {"u", "z"} |-> 2], own |-> [t \in {"u", "z"} |-> 1]],
    [kind |-> "intent", price |-> Sponsored, target |-> [t \in {"u"} |-> 1], own |-> [t \in {"u"} |-> 0]]}

Needs(S) == [s \in {<<e[1], e[2]>> : e \in S} |-> (CHOOSE e \in S : <<e[1], e[2]>> = s)[3]]

MCOriginals == {
    [id |-> "two sections", sealed |-> FALSE, intents |-> {1, 2}, foreign |-> {2}, parts |-> 1, dust |-> 0,
     imbalance |-> Needs({<<"u", 0, -1>>, <<"u", 1, -1>>, <<"z", 1, 1>>})],
    [id |-> "sealed", sealed |-> TRUE, intents |-> {1}, foreign |-> {}, parts |-> 1, dust |-> 0,
     imbalance |-> Needs({<<"u", 0, -2>>, <<"z", 0, -1>>, <<"z", 1, -2>>})],
    [id |-> "sealed and fallible", sealed |-> TRUE, intents |-> {1}, foreign |-> {}, parts |-> 1, dust |-> 0,
     imbalance |-> Needs({<<"u", 1, -1>>})],
    [id |-> "input of others", sealed |-> FALSE, intents |-> {1}, foreign |-> {1}, parts |-> 1, dust |-> 0,
     imbalance |-> Needs({<<"u", 0, -1>>})],
    [id |-> "part of the fee", sealed |-> TRUE, intents |-> {1}, foreign |-> {}, parts |-> 2, dust |-> 3,
     imbalance |-> Needs({})]}
=============================================================================
