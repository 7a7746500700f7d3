--------------------------- MODULE CoinSelection ---------------------------
(***************************************************************************)
(* How the wallet chooses what it spends, as operators without state.      *)
(*                                                                         *)
(* A coin is a record with at least .token, .value and .id; ids are        *)
(* numbers that stand for the (intent hash, output number) pairs and the   *)
(* nullifiers by which the code breaks ties.  Selection is stated by what  *)
(* it returns and not as a loop: the smallest coins come first and a coin  *)
(* is taken when those before it do not yet make up the amount.            *)
(*                                                                         *)
(* DUST is different: every spend is itself a part of the transaction that *)
(* the fee is calculated for, so the amount is found by iteration.         *)
(***************************************************************************)
EXTENDS Integers, FiniteSets, FiniteSetsExt

(* What coins are worth: the number of units they are made of.             *)
Units(coins) == UNION {{c} \X (1 .. c.value) : c \in coins}
Total(coins) == Cardinality(Units(coins))

Of(coins, t) == {c \in coins : c.token = t}

Before(c, d) == \/ c.value < d.value
                \/ c.value = d.value /\ c.id < d.id

(* The coins that the loops over sorted candidates take for an amount.     *)
Taken(coins, amount) ==
    {c \in coins : Total({d \in coins : Before(d, c)}) < amount}

-----------------------------------------------------------------------------
(* DUST.  Spends are a function from the chosen coins to what is deducted. *)

NoSpends == [d \in {} |-> 0]

(* The first n coins, and the least n, not below m, whose coins are worth  *)
(* the target; there is none when the wallet has not enough.               *)
First(coins, n) == {c \in coins : Cardinality({d \in coins : Before(d, c)}) < n}

Counts(coins, m, target) ==
    {n \in m .. Cardinality(coins) : Total(First(coins, n)) >= target}

(* Each coin gives all it has until the target is met; a coin that an      *)
(* earlier, higher target chose stays in and gives nothing.                *)
Deductions(coins, n, target) ==
    [c \in First(coins, n) |->
        LET left == target - Total({d \in coins : Before(d, c)})
        IN  IF left <= 0 THEN 0 ELSE IF left < c.value THEN left ELSE c.value]

(* External: the fee grows with the parts of a transaction, with its DUST  *)
(* spends, and with the encoding of larger amounts.                        *)
Fee(price, parts, spends) ==
    price * (parts + Cardinality(DOMAIN spends))
      + Cardinality({d \in DOMAIN spends : spends[d] > 2})

(* fee_shortfall: what is left to pay of the fee when the transaction      *)
(* brings so much DUST of its own; a surplus is refused.                   *)
Shortfall(price, parts, own, spends) == Fee(price, parts, spends) - own

(* The search for spends that pay exactly the fee of the transaction with  *)
(* those spends in it, for so many rounds.                                 *)
SearchStart(price, parts, own) ==
    LET short == Shortfall(price, parts, own, NoSpends)
    IN  [target |-> short, n |-> 0, spends |-> NoSpends,
         end |-> IF short < 0 THEN "surplus" ELSE IF short = 0 THEN "paid" ELSE "searching"]

SearchNext(coins, price, parts, own, s) ==
    IF s.end # "searching" THEN s
    ELSE IF Counts(coins, s.n, s.target) = {}
    THEN [s EXCEPT !.end = "short"]
    ELSE LET n      == Min(Counts(coins, s.n, s.target))
             spends == Deductions(coins, n, s.target)
             short  == Shortfall(price, parts, own, spends)
         IN  [target |-> short, n |-> n, spends |-> spends,
              end |-> IF short < 0 THEN "surplus" ELSE IF short = s.target THEN "paid" ELSE "searching"]

DustSearch(coins, price, parts, own, rounds) ==
    LET after[r \in 0 .. rounds] ==
          IF r = 0 THEN SearchStart(price, parts, own)
          ELSE SearchNext(coins, price, parts, own, after[r - 1])
    IN  after[rounds]

=============================================================================
