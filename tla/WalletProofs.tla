----------------------------- MODULE WalletProofs -----------------------------
(***************************************************************************)
(* The coins of a wallet are accounted for, for any number of coins,       *)
(* tokens, transactions and payments, whatever a host asks for and         *)
(* whichever way the chain decides.                                        *)
(*                                                                         *)
(* The argument: every builder takes candidates only (TakenAreCandidates), *)
(* so what is reserved is there; the chain says of every entry what the    *)
(* wallet owned before and after it (ChainInv), so that a stream which     *)
(* takes the wallet over an entry, or stays at the tip because the entry   *)
(* holds nothing for it, brings it to what the chain holds.  That a coin   *)
(* which is gone was spent by an entry that did not fail is itself part of *)
(* the invariant, for every earlier place of the chain.                    *)
(*                                                                         *)
(* That nothing is spent twice follows from what a transaction claims of   *)
(* each part of the wallet (Claim): what it may have taken from the chain. *)
(* Claims are disjoint (Claims), because what the builders find free is    *)
(* claimed by nobody: a transaction is reserved, or its stream has come    *)
(* past it, or the host waits for it (FreeIsUnclaimed).  A coin that comes *)
(* later is no coin of an earlier claim, since the chain makes each coin   *)
(* once (MadeOnce).  DUST coins are spent in the order of their sequence   *)
(* numbers, which count the entries of the chain that spend them           *)
(* (DustInv).                                                              *)
(*                                                                         *)
(* That balances add up is a fact about sets, that of the two lists and    *)
(* the shielded state each holds what the transactions it watches for say  *)
(* (ShownInv), and one about sums: the totals of disjoint finite sets of   *)
(* coins add up (TotalsAddUp), and no set that occurs is infinite          *)
(* (CoinsCounted).                                                         *)
(*                                                                         *)
(* What is approved is paid, and plans are sound, because the sums of a    *)
(* manifest over segments and of DUST over spends are cardinalities too    *)
(* (SumOf, SumRuns), segments take and return different coins              *)
(* (PlanTotals), and the search for DUST ends only with spends that pay    *)
(* the fee of a transaction with those spends in it (SearchPays).          *)
(***************************************************************************)
EXTENDS Balancing, FiniteSetTheorems, WellFoundedInduction, TLAPS

After(c, n) == IF n = 0 THEN InitialCoins ELSE c[n].after
SpentIn(c) == UNION {c[i].spent : i \in {j \in DOMAIN c : c[j].fate # "failure"}}

\* an entry of the chain continues what was before it
Continues(e, before) ==
  /\ e.spent \subseteq before
  /\ e.fate = "failure" => e.after = before
  /\ e.fate # "failure" => /\ e.made \cap before = {}
                           /\ e.after = (before \ e.spent) \cup e.made

ChainInv(c) ==
  /\ c \in Seq({c[i] : i \in DOMAIN c})
  /\ \A i \in 1..Len(c) : Continues(c[i], After(c, i - 1))
  /\ \A p \in 0..Len(c) : After(c, p) \ After(c, Len(c)) \subseteq SpentIn(c)

Places == seen \in [Streams -> 0..Len(chain)]

Inv == ChainInv(chain) /\ Places /\ CoinsAccounted

-----------------------------------------------------------------------------
(* What the builders take *)

LEMMA TakenAreCandidates ==
  ASSUME NEW cs, NEW amount PROVE Taken(cs, amount) \subseteq cs
  BY DEF Taken

LEMMA SelectedAreCandidates ==
  ASSUME NEW t, NEW r
  PROVE  /\ t \in UnshieldedTokens => \A c \in Selected(t, r) : c \in available /\ c.token = t
         /\ t \notin UnshieldedTokens => \A c \in Selected(t, r) : c \in coins \ pendingSpends /\ c.token = t
  BY TakenAreCandidates DEF Selected, Candidates, Of

\* an offer takes available UTXOs, and shielded coins that are not reserved
Owned(ins) == Unshielded(ins) \subseteq available /\ Shielded(ins) \subseteq coins

LEMMA OfferOwned ==
  ASSUME NEW r PROVE Owned(Offer(r).ins)
  <1>1. ASSUME NEW c \in Offer(r).ins
        PROVE  \E t : (t \in ShieldedTokens \/ t \in UnshieldedTokens) /\ c \in Selected(t, r)
    BY <1>1 DEF Offer, ShieldedOffer, UnshieldedOffer
  <1>2. ASSUME NEW c \in Offer(r).ins, c.token \in UnshieldedTokens PROVE c \in available
    BY <1>1, <1>2, SelectedAreCandidates
  <1>3. ASSUME NEW c \in Offer(r).ins, c.token \in ShieldedTokens PROVE c \in coins
    BY <1>1, <1>3, SelectedAreCandidates, TokenAssumption
  <1> QED
    BY <1>2, <1>3 DEF Owned, Unshielded, Shielded

LEMMA RegistrationOwned ==
  ASSUME NEW first PROVE Owned(RegistrationOffer(first).ins)
  <1>1. RegistrationOffer(first).ins = Registrable
    BY DEF RegistrationOffer
  <1>2. \A c \in Registrable : c \in available /\ c.token = Night
    BY DEF Registrable, Of
  <1> QED
    BY <1>1, <1>2, TokenAssumption DEF Owned, Unshielded, Shielded

-----------------------------------------------------------------------------
(* The chain *)

LEMMA Appended ==
  ASSUME NEW c, NEW e, c \in Seq({c[i] : i \in DOMAIN c})
  PROVE  LET d == Append(c, e)
         IN  /\ d \in Seq({d[i] : i \in DOMAIN d})
             /\ Len(c) \in Nat /\ DOMAIN c = 1..Len(c)
             /\ Len(d) = Len(c) + 1 /\ DOMAIN d = 1..(Len(c) + 1)
             /\ \A i \in 1..Len(c) : d[i] = c[i]
             /\ d[Len(c) + 1] = e
  <1> DEFINE S == {c[i] : i \in DOMAIN c} \cup {e}
             d == Append(c, e)
  <1>1. c \in Seq(S)
    OBVIOUS
  <1>2. d \in Seq(S) /\ Len(d) = Len(c) + 1 /\ Len(c) \in Nat /\ DOMAIN c = 1..Len(c)
    BY <1>1
  <1>3. DOMAIN d = 1..(Len(c) + 1) /\ (\A i \in 1..Len(c) : d[i] = c[i]) /\ d[Len(c) + 1] = e
    BY <1>1, <1>2
  <1>4. d \in Seq({d[i] : i \in DOMAIN d})
    BY <1>2, <1>3
  <1> QED
    BY <1>2, <1>3, <1>4

LEMMA ChainGrows ==
  ASSUME NEW c, ChainInv(c), NEW e, Continues(e, After(c, Len(c)))
  PROVE  ChainInv(Append(c, e))
  <1> DEFINE d == Append(c, e)
             n == Len(c)
  <1>1. /\ d \in Seq({d[i] : i \in DOMAIN d})
        /\ n \in Nat /\ DOMAIN c = 1..n
        /\ Len(d) = n + 1 /\ DOMAIN d = 1..(n + 1)
        /\ \A i \in 1..n : d[i] = c[i]
        /\ d[n + 1] = e
    BY Appended DEF ChainInv
  <1> HIDE DEF d, n
  <1>2. \A p \in 0..n : After(d, p) = After(c, p)
    BY <1>1 DEF After
  <1>3. After(d, n + 1) = e.after
    BY <1>1 DEF After
  <1>4. ASSUME NEW i \in 1..(n + 1) PROVE Continues(d[i], After(d, i - 1))
    <2>1. CASE i = n + 1
      <3>1. d[i] = e /\ i - 1 = n /\ n \in 0..n
        BY <1>1, <2>1
      <3>2. After(d, i - 1) = After(c, n)
        BY <1>2, <3>1
      <3>3. Continues(e, After(c, n))
        BY DEF n
      <3> QED
        BY <3>1, <3>2, <3>3
    <2>2. CASE i \in 1..n
      <3>1. i - 1 \in 0..n /\ d[i] = c[i]
        BY <1>1, <2>2
      <3>2. Continues(c[i], After(c, i - 1))
        BY <2>2 DEF n, ChainInv
      <3>3. After(d, i - 1) = After(c, i - 1)
        BY <1>2, <3>1
      <3> QED
        BY <3>1, <3>2, <3>3
    <2> QED
      BY <1>1, <2>1, <2>2
  <1>5. SpentIn(c) \subseteq SpentIn(d)
    BY <1>1 DEF SpentIn
  <1>6. After(c, n) \ e.after \subseteq SpentIn(d)
    <2>1. CASE e.fate = "failure"
      BY <2>1 DEF Continues, n
    <2>2. CASE e.fate # "failure"
      <3>1. After(c, n) \ e.after \subseteq e.spent
        BY <2>2 DEF Continues, n
      <3>2. e.spent \subseteq SpentIn(d)
        BY <1>1, <2>2 DEF SpentIn
      <3> QED
        BY <3>1, <3>2
    <2> QED
      BY <2>1, <2>2
  <1>7. ASSUME NEW p \in 0..(n + 1) PROVE After(d, p) \ After(d, n + 1) \subseteq SpentIn(d)
    <2>1. CASE p = n + 1
      BY <2>1
    <2>2. CASE p \in 0..n
      <3>1. After(c, p) \ After(c, n) \subseteq SpentIn(c)
        BY <2>2 DEF n, ChainInv
      <3> QED
        BY <1>2, <1>3, <1>5, <1>6, <2>2, <3>1
    <2> QED
      BY <1>1, <2>1, <2>2
  <1> QED
    BY <1>1, <1>4, <1>7 DEF ChainInv, d

\* CoinsAccounted in the words of this module
LEMMA Accounted ==
  CoinsAccounted <=>
    /\ available \cap pending = {}
    /\ available \cup pending = Unshielded(After(chain, seen["unshielded"]))
    /\ coins \subseteq Shielded(After(chain, seen["shielded"]))
    /\ Shielded(After(chain, seen["shielded"])) \ coins \subseteq SpentIn(chain)
    /\ pendingSpends \subseteq coins
  BY DEF CoinsAccounted, Unspent, After, SpentIn

\* the same, for the state that follows
LEMMA AccountedNext ==
  CoinsAccounted' <=>
    /\ available' \cap pending' = {}
    /\ available' \cup pending' = Unshielded(After(chain', seen'["unshielded"]))
    /\ coins' \subseteq Shielded(After(chain', seen'["shielded"]))
    /\ Shielded(After(chain', seen'["shielded"])) \ coins' \subseteq SpentIn(chain')
    /\ pendingSpends' \subseteq coins'
  BY DEF CoinsAccounted, Unspent, After, SpentIn, Unshielded, Shielded

LEMMA StreamNames == "unshielded" \in Streams /\ "shielded" \in Streams /\ "dust" \in Streams
  BY DEF Streams

\* places in the chain are natural numbers
LEMMA PlacesKnown ==
  ASSUME Inv
  PROVE  /\ Len(chain) \in Nat /\ DOMAIN chain = 1..Len(chain)
         /\ \A s \in Streams : seen[s] \in 0..Len(chain)
  BY DEF Inv, ChainInv, Places

\* a step that changes neither the coins nor the chain nor the places
LEMMA OthersKeep ==
  ASSUME Inv, UNCHANGED <<available, pending, coins, pendingSpends, chain, seen>>
  PROVE  Inv'
  BY DEF Inv, ChainInv, Places, CoinsAccounted, Unspent, SpentIn, After, Continues, Unshielded, Shielded

LEMMA ReserveKeeps ==
  ASSUME Inv, NEW offer, NEW spends, Owned(offer.ins), Reserve(offer, spends), UNCHANGED <<seen, chain>>
  PROVE  Inv'
  <1>1. /\ available' = available \ Unshielded(offer.ins)
        /\ pending' = pending \cup Unshielded(offer.ins)
        /\ pendingSpends' = pendingSpends \cup Shielded(offer.ins)
        /\ coins' = coins /\ seen' = seen /\ chain' = chain
    BY DEF Reserve
  <1>2. Unshielded(offer.ins) \subseteq available /\ Shielded(offer.ins) \subseteq coins
    BY DEF Owned
  <1>3. available' \cap pending' = {} /\ available' \cup pending' = available \cup pending
    BY <1>1, <1>2, Accounted DEF Inv
  <1>4. pendingSpends' \subseteq coins'
    BY <1>1, <1>2, Accounted DEF Inv
  <1>5. CoinsAccounted'
    BY <1>1, <1>3, <1>4, Accounted, AccountedNext DEF Inv
  <1> QED
    BY <1>1, <1>5 DEF Inv, Places

-----------------------------------------------------------------------------
(* The streams *)

LEMMA AdvanceFacts ==
  ASSUME Inv, NEW s \in Streams, Advance(s)
  PROVE  /\ chain' = chain /\ ChainInv(chain)' /\ Places'
         /\ seen[s] + 1 \in 1..Len(chain)
         /\ seen' = [seen EXCEPT ![s] = seen[s] + 1]
         /\ seen'[s] = seen[s] + 1 /\ \A q \in Streams \ {s} : seen'[q] = seen[q]
         /\ Continues(chain[seen[s] + 1], After(chain, seen[s]))
         /\ After(chain, seen'[s]) = chain[seen[s] + 1].after
  <1>1. chain' = chain /\ seen' = [seen EXCEPT ![s] = seen[s] + 1] /\ seen[s] < Len(chain)
    BY DEF Advance, AdvanceTo
  <1>2. seen[s] \in Nat /\ Len(chain) \in Nat /\ seen \in [Streams -> 0..Len(chain)]
    BY PlacesKnown DEF Inv, Places
  <1>3. seen[s] + 1 \in 1..Len(chain) /\ (seen[s] + 1) - 1 = seen[s]
    BY <1>1, <1>2
  <1>4. seen' \in [Streams -> 0..Len(chain)]
    BY <1>1, <1>2, <1>3
  <1>5. Continues(chain[seen[s] + 1], After(chain, (seen[s] + 1) - 1))
    BY <1>3 DEF Inv, ChainInv
  <1>6. ChainInv(chain)' /\ Places'
    BY <1>1, <1>4 DEF Inv, Places
  <1>7. seen'[s] = seen[s] + 1 /\ \A q \in Streams \ {s} : seen'[q] = seen[q]
    BY <1>1, <1>2
  <1>8. After(chain, seen[s] + 1) = chain[seen[s] + 1].after
    BY <1>2 DEF After
  <1> QED
    BY <1>1, <1>3, <1>5, <1>6, <1>7, <1>8

\* facts about sets: two disjoint lists A and P of which S moves from P to A, or leaves while M comes
LEMMA MovedBack ==
  ASSUME NEW A, NEW P, NEW S, A \cap P = {}, S \subseteq A \cup P
  PROVE  (A \cup S) \cap (P \ S) = {} /\ (A \cup S) \cup (P \ S) = A \cup P
  OBVIOUS

LEMMA MovedOn ==
  ASSUME NEW A, NEW P, NEW S, NEW M, A \cap P = {}, M \cap (A \cup P) = {}
  PROVE  /\ ((A \ S) \cup M) \cap (P \ S) = {}
         /\ ((A \ S) \cup M) \cup (P \ S) = ((A \cup P) \ S) \cup M
  OBVIOUS

\* a part C of U, with reservations P, follows U through a change
LEMMA Followed ==
  ASSUME NEW C, NEW U, NEW P, NEW X, NEW S, NEW M, C \subseteq U, U \ C \subseteq X, P \subseteq C
  PROVE  /\ (C \ S) \cup M \subseteq (U \ S) \cup M
         /\ ((U \ S) \cup M) \ ((C \ S) \cup M) \subseteq X
         /\ P \ S \subseteq (C \ S) \cup M
  OBVIOUS

LEMMA UnshieldedKeeps ==
  ASSUME Inv, ApplyUnshielded
  PROVE  Inv'
  <1> DEFINE e == chain[seen["unshielded"] + 1]
             U == After(chain, seen["unshielded"])
  <1>1. Advance("unshielded") /\ UNCHANGED <<coins, pendingSpends>>
    BY DEF ApplyUnshielded
  <1>2. /\ chain' = chain /\ ChainInv(chain)' /\ Places'
        /\ seen'["shielded"] = seen["shielded"]
        /\ Continues(e, U) /\ After(chain, seen'["unshielded"]) = e.after
    BY <1>1, AdvanceFacts, StreamNames
  <1>3. available \cap pending = {} /\ available \cup pending = Unshielded(U)
    BY Accounted DEF Inv
  <1>4. available' \cap pending' = {} /\ available' \cup pending' = Unshielded(e.after)
    <2>1. CASE e.fate = "failure"
      <3>1. /\ available' = available \cup Unshielded(e.spent)
            /\ pending' = pending \ Unshielded(e.spent)
        BY <2>1 DEF ApplyUnshielded
      <3>2. e.after = U /\ Unshielded(e.spent) \subseteq Unshielded(U)
        BY <1>2, <2>1 DEF Continues, Unshielded
      <3> QED
        BY <1>3, <3>1, <3>2, MovedBack
    <2>2. CASE e.fate # "failure"
      <3>1. /\ available' = (available \ e.spent) \cup Unshielded(e.made)
            /\ pending' = pending \ e.spent
        BY <2>2 DEF ApplyUnshielded
      <3>2. e.made \cap U = {} /\ e.after = (U \ e.spent) \cup e.made
        BY <1>2, <2>2 DEF Continues
      <3>3. Unshielded(e.after) = (Unshielded(U) \ e.spent) \cup Unshielded(e.made)
        <4>1. Unshielded((U \ e.spent) \cup e.made) = (Unshielded(U) \ e.spent) \cup Unshielded(e.made)
          <5> HIDE DEF e, U
          <5> QED
            BY DEF Unshielded
        <4> QED
          BY <3>2, <4>1
      <3>4. Unshielded(e.made) \cap Unshielded(U) = {}
        BY <3>2 DEF Unshielded
      <3> QED
        BY <1>3, <3>1, <3>3, <3>4, MovedOn
    <2> QED
      BY <2>1, <2>2
  <1>5. CoinsAccounted'
    BY <1>1, <1>2, <1>4, Accounted, AccountedNext DEF Inv
  <1> QED
    BY <1>2, <1>5 DEF Inv

LEMMA ShieldedKeeps ==
  ASSUME Inv, ApplyShielded
  PROVE  Inv'
  <1> DEFINE e == chain[seen["shielded"] + 1]
             U == After(chain, seen["shielded"])
  <1>1. Advance("shielded") /\ UNCHANGED <<available, pending>>
    BY DEF ApplyShielded
  <1>2. /\ chain' = chain /\ ChainInv(chain)' /\ Places'
        /\ seen'["unshielded"] = seen["unshielded"]
        /\ Continues(e, U) /\ After(chain, seen'["shielded"]) = e.after
    BY <1>1, AdvanceFacts, StreamNames
  <1>3. /\ coins \subseteq Shielded(U) /\ Shielded(U) \ coins \subseteq SpentIn(chain)
        /\ pendingSpends \subseteq coins
    BY Accounted DEF Inv
  <1>4. /\ coins' \subseteq Shielded(e.after) /\ Shielded(e.after) \ coins' \subseteq SpentIn(chain)
        /\ pendingSpends' \subseteq coins'
    <2>1. CASE e.fate = "failure"
      <3>1. e.after = U /\ UNCHANGED <<coins, pendingSpends>>
        BY <1>2, <2>1 DEF Continues, ApplyShielded
      <3> QED
        BY <1>3, <3>1
    <2>2. CASE e.fate # "failure"
      <3>1. /\ coins' = (coins \ e.spent) \cup Shielded(e.made)
            /\ pendingSpends' = pendingSpends \ e.spent
        BY <2>2 DEF ApplyShielded
      <3>2. e.after = (U \ e.spent) \cup e.made
        BY <1>2, <2>2 DEF Continues
      <3>3. Shielded(e.after) = (Shielded(U) \ e.spent) \cup Shielded(e.made)
        <4>1. Shielded((U \ e.spent) \cup e.made) = (Shielded(U) \ e.spent) \cup Shielded(e.made)
          <5> HIDE DEF e, U
          <5> QED
            BY DEF Shielded
        <4> QED
          BY <3>2, <4>1
      <3> QED
        BY <1>3, <3>1, <3>3, Followed
    <2> QED
      BY <2>1, <2>2
  <1>5. CoinsAccounted'
    BY <1>1, <1>2, <1>4, Accounted, AccountedNext DEF Inv
  <1> QED
    BY <1>2, <1>5 DEF Inv

LEMMA DustKeeps ==
  ASSUME Inv, ApplyDust
  PROVE  Inv'
  <1>1. Advance("dust") /\ UNCHANGED <<available, pending, coins, pendingSpends>>
    BY DEF ApplyDust
  <1>2. /\ chain' = chain /\ ChainInv(chain)' /\ Places'
        /\ seen'["unshielded"] = seen["unshielded"] /\ seen'["shielded"] = seen["shielded"]
    BY <1>1, AdvanceFacts, StreamNames
  <1>3. CoinsAccounted'
    BY <1>1, <1>2, Accounted, AccountedNext DEF Inv
  <1> QED
    BY <1>2, <1>3 DEF Inv

\* what the chain reports as spent ahead of the stream was spent by an entry that stands
LEMMA SpentResponseKeeps ==
  ASSUME Inv, ApplyShieldedSpentResponse
  PROVE  Inv'
  <1> DEFINE U == After(chain, seen["shielded"])
             gone == coins \ After(chain, Len(chain))
  <1>1. /\ coins' = coins \ gone /\ pendingSpends' = pendingSpends \ gone
        /\ UNCHANGED <<available, pending, seen, chain>>
    BY DEF ApplyShieldedSpentResponse, Unspent, After
  <1>2. /\ coins \subseteq Shielded(U) /\ Shielded(U) \ coins \subseteq SpentIn(chain)
        /\ pendingSpends \subseteq coins
    BY Accounted DEF Inv
  <1>3. U \ After(chain, Len(chain)) \subseteq SpentIn(chain)
    BY PlacesKnown, StreamNames DEF Inv, ChainInv
  <1>4. gone \subseteq SpentIn(chain)
    BY <1>2, <1>3 DEF Shielded
  <1>5. /\ coins' \subseteq Shielded(U) /\ Shielded(U) \ coins' \subseteq SpentIn(chain)
        /\ pendingSpends' \subseteq coins'
    <2> HIDE DEF U, gone
    <2> QED
      BY <1>1, <1>2, <1>4
  <1>6. CoinsAccounted'
    BY <1>1, <1>5, Accounted, AccountedNext DEF Inv
  <1> QED
    BY <1>1, <1>6 DEF Inv, Places

LEMMA ImportShieldedKeeps ==
  ASSUME Inv, NEW p \in 1..Len(chain), ImportShielded(p)
  PROVE  Inv'
  <1>1. /\ coins' = Shielded(After(chain, p)) /\ pendingSpends' = {}
        /\ seen' = [seen EXCEPT !["shielded"] = p]
        /\ UNCHANGED <<available, pending, chain>>
    BY DEF ImportShielded, AdvanceTo, Unspent, After
  <1>2. /\ seen' \in [Streams -> 0..Len(chain)]
        /\ seen'["shielded"] = p /\ seen'["unshielded"] = seen["unshielded"]
    BY <1>1, PlacesKnown, StreamNames DEF Inv, Places
  <1>3. CoinsAccounted'
    BY <1>1, <1>2, Accounted, AccountedNext DEF Inv
  <1> QED
    BY <1>1, <1>2, <1>3 DEF Inv, Places

LEMMA ImportDustKeeps ==
  ASSUME Inv, NEW p \in 1..Len(chain), ImportDust(p)
  PROVE  Inv'
  <1>1. /\ seen' = [seen EXCEPT !["dust"] = p]
        /\ UNCHANGED <<available, pending, coins, pendingSpends, chain>>
    BY DEF ImportDust, AdvanceTo
  <1>2. /\ seen' \in [Streams -> 0..Len(chain)]
        /\ seen'["shielded"] = seen["shielded"] /\ seen'["unshielded"] = seen["unshielded"]
    BY <1>1, PlacesKnown, StreamNames DEF Inv, Places
  <1>3. CoinsAccounted'
    BY <1>1, <1>2, Accounted, AccountedNext DEF Inv
  <1> QED
    BY <1>1, <1>2, <1>3 DEF Inv, Places

-----------------------------------------------------------------------------
(* The chain grows                                                         *)

\* a stream at the tip stays there only if the entry holds nothing for it
LEMMA NothingCarried ==
  ASSUME NEW fate, NEW moved, NEW spends
  PROVE  /\ "unshielded" \notin Carried(fate, moved, spends) => Unshielded(moved) = {}
         /\ "shielded" \notin Carried(fate, moved, spends) => fate = "failure" \/ Shielded(moved) = {}
  BY StreamNames DEF Carried

LEMMA RecordKeeps ==
  ASSUME Inv, NEW k, NEW fate, NEW spent, NEW made, NEW spends,
         spent \subseteq Unspent(Len(chain)), made \cap Unspent(Len(chain)) = {},
         Record(k, fate, spent, made, spends),
         UNCHANGED <<available, pending, coins, pendingSpends>>
  PROVE  Inv'
  <1> DEFINE n == Len(chain)
             before == After(chain, n)
             after == IF fate = "failure" THEN before ELSE (before \ spent) \cup made
             e == [tx |-> k, fate |-> fate, spent |-> spent, made |-> made, spends |-> spends,
                   after |-> after]
  <1>1. chain' = Append(chain, e)
    BY DEF Record, Unspent, After
  <1>2. seen' = [s \in Streams |->
                   IF seen[s] = n /\ s \notin Carried(fate, spent \cup made, spends)
                   THEN n + 1 ELSE seen[s]]
    BY DEF Record
  <1>3. spent \subseteq before /\ made \cap before = {}
    BY DEF Unspent, After
  <1>4. Continues(e, before)
    <2> HIDE DEF before
    <2> QED
      BY <1>3 DEF Continues
  <1>5. ChainInv(chain)'
    <2>1. ChainInv(Append(chain, e))
      <3> HIDE DEF e
      <3> QED
        BY <1>4, ChainGrows DEF Inv
    <2> QED
      BY <1>1, <2>1
  <1>6. /\ n \in Nat /\ DOMAIN chain = 1..n
        /\ Len(chain') = n + 1 /\ DOMAIN chain' = 1..(n + 1)
        /\ \A i \in 1..n : chain'[i] = chain[i]
        /\ chain'[n + 1] = e
    <2> HIDE DEF e
    <2> QED
      BY <1>1, Appended DEF Inv, ChainInv
  <1>7. \A s \in Streams : seen[s] \in 0..n
    BY PlacesKnown
  <1>8. \A s \in Streams :
          \/ seen'[s] = seen[s]
          \/ seen[s] = n /\ seen'[s] = n + 1 /\ s \notin Carried(fate, spent \cup made, spends)
    BY <1>2
  <1>9. Places'
    <2>1. \A s \in Streams : seen'[s] \in 0..(n + 1)
      BY <1>6, <1>7, <1>8
    <2>2. seen' = [s \in Streams |-> seen'[s]]
      BY <1>2
    <2> QED
      BY <1>6, <2>1, <2>2 DEF Places
  <1>10. \A p \in 0..n : After(chain', p) = After(chain, p)
    BY <1>6 DEF After
  <1>11. After(chain', n + 1) = after
    BY <1>6 DEF After
  <1> HIDE DEF e, n, before
  <1>12. Unshielded(After(chain', seen'["unshielded"])) = Unshielded(After(chain, seen["unshielded"]))
    <2>1. CASE seen'["unshielded"] = seen["unshielded"]
      BY <1>7, <1>10, <2>1, StreamNames
    <2>2. CASE /\ seen["unshielded"] = n /\ seen'["unshielded"] = n + 1
               /\ Unshielded(spent \cup made) = {}
      <3>1. Unshielded(after) = Unshielded(before)
        BY <2>2 DEF Unshielded
      <3>2. After(chain', seen'["unshielded"]) = after /\ After(chain, seen["unshielded"]) = before
        BY <1>11, <2>2 DEF before
      <3> QED
        BY <3>1, <3>2
    <2> QED
      BY <1>8, <2>1, <2>2, StreamNames, NothingCarried
  <1>13. Shielded(After(chain', seen'["shielded"])) = Shielded(After(chain, seen["shielded"]))
    <2>1. CASE seen'["shielded"] = seen["shielded"]
      BY <1>7, <1>10, <2>1, StreamNames
    <2>2. CASE /\ seen["shielded"] = n /\ seen'["shielded"] = n + 1
               /\ fate = "failure" \/ Shielded(spent \cup made) = {}
      <3>1. Shielded(after) = Shielded(before)
        BY <2>2 DEF Shielded
      <3>2. After(chain', seen'["shielded"]) = after /\ After(chain, seen["shielded"]) = before
        BY <1>11, <2>2 DEF before
      <3> QED
        BY <3>1, <3>2
    <2> QED
      BY <1>8, <2>1, <2>2, StreamNames, NothingCarried
  <1>14. SpentIn(chain) \subseteq SpentIn(chain')
    BY <1>6 DEF SpentIn
  <1>15. CoinsAccounted'
    BY <1>12, <1>13, <1>14, Accounted, AccountedNext DEF Inv
  <1> QED
    BY <1>5, <1>9, <1>15 DEF Inv

LEMMA IncludeKeeps ==
  ASSUME Inv, NEW k, NEW fate \in {"success", "partial", "failure"}, Include(k, fate)
  PROVE  Inv'
  <1> DEFINE t == txs[k]
  <1>1. /\ t.ins \subseteq Unspent(Len(chain)) /\ t.outs \cap Unspent(Len(chain)) = {}
        /\ UNCHANGED <<available, pending, coins, pendingSpends>>
    BY DEF Include, walletVars
  <1>2. CASE fate = "success"
    <2>1. Record(k, fate, t.ins, t.outs, t.spends)
      BY <1>2 DEF Include
    <2> QED
      BY <1>1, <2>1, RecordKeeps
  <1>3. CASE fate = "partial"
    <2>1. Record(k, fate, t.ins \ t.soft, t.outs \ t.soft, t.spends)
      BY <1>3 DEF Include
    <2>2. t.ins \ t.soft \subseteq Unspent(Len(chain)) /\ (t.outs \ t.soft) \cap Unspent(Len(chain)) = {}
      BY <1>1
    <2> QED
      BY <1>1, <2>1, <2>2, RecordKeeps
  <1>4. CASE fate = "failure"
    <2>1. Record(k, fate, t.ins, {}, {})
      BY <1>4 DEF Include
    <2>2. {} \cap Unspent(Len(chain)) = {}
      OBVIOUS
    <2> QED
      BY <1>1, <2>1, <2>2, RecordKeeps
  <1> QED
    BY <1>2, <1>3, <1>4

LEMMA PayKeeps ==
  ASSUME Inv, NEW c, Pay(c)
  PROVE  Inv'
  <1>1. Record(0, "success", {}, {c}, {}) /\ UNCHANGED <<available, pending, coins, pendingSpends>>
    BY DEF Pay, walletVars
  <1>2. {} \subseteq Unspent(Len(chain)) /\ {c} \cap Unspent(Len(chain)) = {}
    BY DEF Pay
  <1> QED
    BY <1>1, <1>2, RecordKeeps

-----------------------------------------------------------------------------
(* All steps                                                               *)

LEMMA BuildKeeps ==
  ASSUME Inv, NEW kind, NEW offer, NEW price, Owned(offer.ins), BuildAndReserve(kind, offer, price)
  PROVE  Inv'
  <1>1. UNCHANGED <<seen, chain>> /\ \E spends : Reserve(offer, spends)
    BY DEF BuildAndReserve
  <1> QED
    BY <1>1, ReserveKeeps

LEMMA InvInit ==
  ASSUME Init PROVE Inv
  <1>1. Len(chain) = 0 /\ chain = <<>>
    BY DEF Init
  <1>2. seen \in [Streams -> 0..Len(chain)] /\ \A s \in Streams : seen[s] = 0
    BY <1>1 DEF Init
  <1>3. ChainInv(chain)
    BY <1>1 DEF ChainInv
  <1>4. CoinsAccounted
    BY <1>1, <1>2, StreamNames, Accounted DEF Init, After
  <1> QED
    BY <1>2, <1>3, <1>4 DEF Inv, Places

LEMMA InvStep ==
  ASSUME Inv, Next \/ UNCHANGED vars
  PROVE  Inv'
  <1>1. ASSUME NEW r \in Requests, Transfer(r) PROVE Inv'
    <2>1. BuildAndReserve("transfer", Offer(r), r.price)
      BY <1>1 DEF Transfer
    <2> QED
      BY <2>1, OfferOwned, BuildKeeps
  <1>2. ASSUME NEW r \in Requests, DappTransfer(r) PROVE Inv'
    <2>1. BuildAndReserve("dappTransfer", Offer(r), r.price)
      BY <1>2 DEF DappTransfer
    <2> QED
      BY <2>1, OfferOwned, BuildKeeps
  <1>3. ASSUME NEW r \in Requests, DappIntent(r) PROVE Inv'
    BY <1>3, OthersKeep DEF DappIntent, walletVars
  <1>4. CASE GenerateDust
    <2>1. PICK first \in Registrable : BuildAndReserve("register", RegistrationOffer(first), Sponsored)
      BY <1>4 DEF GenerateDust
    <2> QED
      BY <2>1, RegistrationOwned, BuildKeeps
  <1>5. CASE Commands
    BY <1>1, <1>2, <1>3, <1>4, <1>5 DEF Commands
  <1>6. CASE Sync
    BY <1>6, UnshieldedKeeps, ShieldedKeeps, DustKeeps, SpentResponseKeeps,
       ImportShieldedKeeps, ImportDustKeeps DEF Sync
  <1>7. ASSUME NEW k \in DOMAIN txs, Drop(k) PROVE Inv'
    BY <1>7, OthersKeep DEF Drop, walletVars
  <1>8. ASSUME NEW d \in Nights, Grow(d) \/ Expire(d) PROVE Inv'
    BY <1>8, OthersKeep DEF Grow, Expire
  <1>9. CASE Chain
    BY <1>7, <1>8, <1>9, IncludeKeeps, PayKeeps DEF Chain
  <1>10. CASE UNCHANGED vars
    BY <1>10, OthersKeep DEF vars, walletVars
  <1> QED
    BY <1>5, <1>6, <1>9, <1>10 DEF Next

\* preview and execution of a balance leave the coins alone
LEMMA BalancingStep ==
  ASSUME Inv, BNext \/ UNCHANGED balancingVars
  PROVE  Inv'
  <1>1. ASSUME NEW o, NEW price, PreviewBalance(o, price) PROVE Inv'
    BY <1>1, InvStep DEF PreviewBalance
  <1>2. ASSUME NEW o, NEW price, NEW m, Execute(o, price, m) PROVE Inv'
    BY <1>2, OthersKeep DEF Execute, walletVars
  <1>3. CASE BNext
    BY <1>1, <1>2, <1>3, InvStep DEF BNext, BalanceUnsealed, BalanceSealed
  <1>4. CASE UNCHANGED balancingVars
    BY <1>4, InvStep DEF balancingVars
  <1> QED
    BY <1>3, <1>4

(* Whatever transfers, intents and registrations a host asks for, whatever *)
(* becomes of them on chain and however far the three streams are apart,   *)
(* every unshielded coin of the chain is in exactly one list of the wallet *)
(* and the shielded state holds what its stream brought except what was    *)
(* spent meanwhile.                                                        *)
THEOREM WalletAccountsForCoins == Spec => []CoinsAccounted
  <1>1. Init => Inv
    BY InvInit
  <1>2. Inv /\ [Next]_vars => Inv'
    BY InvStep
  <1>3. Inv => CoinsAccounted
    BY DEF Inv
  <1> QED
    BY <1>1, <1>2, <1>3, PTL DEF Spec

(* The same when balances of dApps' transactions are planned, previewed    *)
(* and executed in between.                                                *)
THEOREM BalancingAccountsForCoins == BSpec => []CoinsAccounted
  <1>1. BInit => Inv
    BY InvInit DEF BInit
  <1>2. Inv /\ [BNext]_balancingVars => Inv'
    BY BalancingStep
  <1>3. Inv => CoinsAccounted
    BY DEF Inv
  <1> QED
    BY <1>1, <1>2, <1>3, PTL DEF BSpec

-----------------------------------------------------------------------------
(* Induction over a set of numbers, which needs no operator as parameter   *)

LEMMA LeastOfNat ==
  ASSUME NEW T \in SUBSET Nat, T # {} PROVE \E x \in T : \A y \in T : x <= y
  <1>1. PICK x \in T : \A y \in T : ~(<<y, x>> \in OpToRel(<, Nat))
    BY NatLessThanWellFounded, WFMin
  <1>2. \A y \in T : ~(y < x)
    BY <1>1 DEF OpToRel
  <1> QED
    BY <1>2

LEMMA NatSteps ==
  ASSUME NEW S, 0 \in S, \A n \in Nat : n \in S => n + 1 \in S
  PROVE  \A n \in Nat : n \in S
  <1> DEFINE T == Nat \ S
  <1>1. ASSUME T # {} PROVE FALSE
    <2>1. T \in SUBSET Nat
      OBVIOUS
    <2> HIDE DEF T
    <2>2. PICK x \in T : \A y \in T : x <= y
      BY <1>1, <2>1, LeastOfNat
    <2>3. x \in Nat /\ x # 0 /\ x \notin S
      BY <2>2 DEF T
    <2>4. x - 1 \in Nat /\ ~(x <= x - 1) /\ (x - 1) + 1 = x
      BY <2>3
    <2>5. x - 1 \in S
      BY <2>2, <2>4 DEF T
    <2> QED
      BY <2>3, <2>4, <2>5
  <1> QED
    BY <1>1

-----------------------------------------------------------------------------
(* The search for DUST is a function by recursion over its rounds          *)

SearchRun(cs, price, parts, own, n, f) ==
  f = [r \in 0 .. n |-> IF r = 0 THEN SearchStart(price, parts, own)
                                 ELSE SearchNext(cs, price, parts, own, f[r - 1])]

LEMMA SearchRuns ==
  ASSUME NEW cs, NEW price, NEW parts, NEW own
  PROVE  \A n \in Nat : \E f : SearchRun(cs, price, parts, own, n, f)
  <1> DEFINE Start == SearchStart(price, parts, own)
             Step(s) == SearchNext(cs, price, parts, own, s)
             Runs(n, f) == f = [r \in 0 .. n |-> IF r = 0 THEN Start ELSE Step(f[r - 1])]
             Good == {n \in Nat : \E f : Runs(n, f)}
  <1> HIDE DEF Start, Step
  <1>1. 0 \in Good
    <2> DEFINE f == [r \in 0 .. 0 |-> Start]
    <2>1. Runs(0, f)
      OBVIOUS
    <2> QED
      BY <2>1
  <1>2. ASSUME NEW n \in Nat, n \in Good PROVE n + 1 \in Good
    <2>1. PICK f : Runs(n, f)
      BY <1>2
    <2> DEFINE g == [r \in 0 .. n + 1 |-> IF r = n + 1 THEN Step(f[n]) ELSE f[r]]
    <2>2. ASSUME NEW r \in 0 .. n + 1 PROVE g[r] = IF r = 0 THEN Start ELSE Step(g[r - 1])
      <3>1. CASE r = n + 1
        BY <3>1
      <3>2. CASE r # n + 1
        <4>1. r \in 0 .. n /\ g[r] = f[r]
          BY <3>2
        <4>2. f[r] = IF r = 0 THEN Start ELSE Step(f[r - 1])
          BY <2>1, <4>1
        <4>3. r # 0 => g[r - 1] = f[r - 1]
          BY <4>1
        <4> QED
          BY <4>1, <4>2, <4>3
      <3> QED
        BY <3>1, <3>2
    <2>3. Runs(n + 1, g)
      BY <2>2
    <2>4. \E h : Runs(n + 1, h)
      <3> HIDE DEF g, Runs
      <3> QED
        BY <2>3
    <2> QED
      BY <2>4
  <1>3. \A n \in Nat : n \in Good
    <2> HIDE DEF Good
    <2> QED
      BY <1>1, <1>2, NatSteps
  <1> QED
    BY <1>3 DEF SearchRun, Start, Step

LEMMA SearchUnfolds ==
  ASSUME NEW cs, NEW price, NEW parts, NEW own, NEW rounds \in Nat
  PROVE  \E f : /\ SearchRun(cs, price, parts, own, rounds, f)
                /\ DustSearch(cs, price, parts, own, rounds) = f[rounds]
  <1> DEFINE f == CHOOSE h : SearchRun(cs, price, parts, own, rounds, h)
  <1>1. SearchRun(cs, price, parts, own, rounds, f)
    BY SearchRuns
  <1>2. DustSearch(cs, price, parts, own, rounds) = f[rounds]
    BY DEF DustSearch, SearchRun
  <1> QED
    BY <1>1, <1>2

\* what the search has found so far is spends of the coins it was given
SearchState(cs, s) ==
  /\ s = [target |-> s.target, n |-> s.n, spends |-> s.spends, end |-> s.end]
  /\ DOMAIN s.spends \subseteq cs

LEMMA SearchTakes ==
  ASSUME NEW cs, NEW price, NEW parts, NEW own, NEW rounds \in Nat
  PROVE  DOMAIN DustSearch(cs, price, parts, own, rounds).spends \subseteq cs
  <1>1. PICK f : /\ SearchRun(cs, price, parts, own, rounds, f)
                 /\ DustSearch(cs, price, parts, own, rounds) = f[rounds]
    BY SearchUnfolds
  <1> DEFINE Good == {r \in Nat : r <= rounds => SearchState(cs, f[r])}
  <1>2. 0 \in Good
    <2>1. f[0] = SearchStart(price, parts, own)
      BY <1>1 DEF SearchRun
    <2>2. SearchState(cs, SearchStart(price, parts, own))
      BY DEF SearchState, SearchStart, NoSpends
    <2> QED
      BY <2>1, <2>2
  <1>3. ASSUME NEW s, SearchState(cs, s) PROVE SearchState(cs, SearchNext(cs, price, parts, own, s))
    <2>1. CASE s.end # "searching"
      BY <1>3, <2>1 DEF SearchNext
    <2>2. CASE s.end = "searching" /\ Counts(cs, s.n, s.target) = {}
      <3>1. SearchNext(cs, price, parts, own, s) = [s EXCEPT !.end = "short"]
        BY <2>2 DEF SearchNext
      <3>2. [s EXCEPT !.end = "short"] =
              [target |-> s.target, n |-> s.n, spends |-> s.spends, end |-> "short"]
        BY <1>3 DEF SearchState
      <3> QED
        BY <1>3, <3>1, <3>2 DEF SearchState
    <2>3. CASE s.end = "searching" /\ Counts(cs, s.n, s.target) # {}
      <3> DEFINE n == Min(Counts(cs, s.n, s.target))
                 spends == Deductions(cs, n, s.target)
                 short == Shortfall(price, parts, own, spends)
                 end == IF short < 0 THEN "surplus"
                        ELSE IF short = s.target THEN "paid" ELSE "searching"
      <3>1. SearchNext(cs, price, parts, own, s) = [target |-> short, n |-> n, spends |-> spends, end |-> end]
        BY <2>3 DEF SearchNext
      <3>2. DOMAIN spends \subseteq cs
        BY DEF Deductions, First
      <3> HIDE DEF spends, short, n, end
      <3> QED
        BY <3>1, <3>2 DEF SearchState
    <2> QED
      BY <2>1, <2>2, <2>3
  <1>4. ASSUME NEW r \in Nat, r \in Good PROVE r + 1 \in Good
    <2>1. CASE r + 1 <= rounds
      <3>1. f[r + 1] = SearchNext(cs, price, parts, own, f[r])
        BY <1>1, <2>1 DEF SearchRun
      <3>2. SearchState(cs, f[r])
        BY <1>4, <2>1
      <3> QED
        BY <1>3, <3>1, <3>2
    <2> QED
      BY <2>1
  <1>5. rounds \in Good
    <2> HIDE DEF Good
    <2> QED
      BY <1>2, <1>4, NatSteps
  <1> QED
    BY <1>1, <1>5 DEF SearchState

-----------------------------------------------------------------------------
(* The coins of a plan are a function by recursion over the segments       *)

Below(n) == {g \in Segments : g < n}
PickFrom(o, t, f, g) ==
  IF Deficit(o, t, g) = 0 THEN {}
  ELSE Taken(Spendable(t) \ UNION {f[h] : h \in Below(g)}, Deficit(o, t, g))
PickRun(o, t, n, f) == f = [g \in Below(n) |-> PickFrom(o, t, f, g)]

\* what a segment takes depends on the segments before it only
LEMMA PicksLookBack ==
  ASSUME NEW o, NEW t, NEW g, NEW e, NEW f, \A h \in Below(g) : e[h] = f[h]
  PROVE  PickFrom(o, t, e, g) = PickFrom(o, t, f, g)
  <1>1. {e[h] : h \in Below(g)} = {f[h] : h \in Below(g)}
    OBVIOUS
  <1> QED
    BY <1>1 DEF PickFrom

LEMMA PickRuns ==
  ASSUME NEW o, NEW t
  PROVE  \A n \in Nat : \E f : PickRun(o, t, n, f)
  <1> DEFINE Good == {n \in Nat : \E f : PickRun(o, t, n, f)}
  <1>1. 0 \in Good
    <2> DEFINE f == [g \in {} |-> {}]
    <2>1. Below(0) = {}
      BY SegmentAssumption DEF SegmentAssumption, Below
    <2>2. PickRun(o, t, 0, f)
      BY <2>1 DEF PickRun
    <2> QED
      BY <2>2
  <1>2. ASSUME NEW n \in Nat, n \in Good PROVE n + 1 \in Good
    <2>1. PICK f : PickRun(o, t, n, f)
      BY <1>2
    <2> DEFINE e == [g \in Below(n + 1) |-> IF g = n THEN PickFrom(o, t, f, n) ELSE f[g]]
    <2>2. \A h \in Below(n) : h \in Below(n + 1) /\ h # n /\ e[h] = f[h]
      BY SegmentAssumption DEF SegmentAssumption, Below
    <2>3. ASSUME NEW g \in Below(n + 1) PROVE e[g] = PickFrom(o, t, e, g)
      <3>1. Below(g) \subseteq Below(n) /\ g \in Int /\ (g = n \/ g \in Below(n))
        BY <2>3, SegmentAssumption DEF SegmentAssumption, Below
      <3>2. PickFrom(o, t, e, g) = PickFrom(o, t, f, g)
        BY <2>2, <3>1, PicksLookBack
      <3>3. CASE g = n
        BY <3>2, <3>3
      <3>4. CASE g # n
        <4>1. g \in Below(n)
          BY <3>1, <3>4
        <4>2. f[g] = PickFrom(o, t, f, g)
          BY <2>1, <4>1 DEF PickRun
        <4> QED
          BY <2>2, <3>2, <4>1, <4>2
      <3> QED
        BY <3>3, <3>4
    <2>4. PickRun(o, t, n + 1, e)
      BY <2>3 DEF PickRun
    <2>5. \E f2 : PickRun(o, t, n + 1, f2)
      <3> HIDE DEF e
      <3> QED
        BY <2>4
    <2> QED
      BY <2>5
  <1> HIDE DEF Good
  <1>3. \A n \in Nat : n \in Good
    BY <1>1, <1>2, NatSteps
  <1> QED
    BY <1>3 DEF Good

LEMMA PickUnfolds ==
  ASSUME NEW o, NEW t
  PROVE  Pick(o, t) = [g \in Segments |-> PickFrom(o, t, Pick(o, t), g)]
  <1>1. Below(65536) = Segments
    BY SegmentAssumption DEF SegmentAssumption, Below
  <1>2. PICK e : PickRun(o, t, 65536, e)
    BY PickRuns
  <1>3. e = [g \in Segments |-> PickFrom(o, t, e, g)]
    BY <1>1, <1>2 DEF PickRun
  <1> DEFINE f == CHOOSE h : h = [g \in Segments |-> PickFrom(o, t, h, g)]
  <1>4. f = [g \in Segments |-> PickFrom(o, t, f, g)]
    BY <1>3
  <1>5. Pick(o, t) = f
    BY DEF Pick, PickFrom, Below
  <1> QED
    BY <1>4, <1>5

\* a segment takes what is spendable, and nothing that an earlier one took
LEMMA PicksAreSpendable ==
  ASSUME NEW o, NEW t, NEW g \in Segments
  PROVE  /\ Pick(o, t)[g] \subseteq Spendable(t)
         /\ \A h \in Below(g) : Pick(o, t)[g] \cap Pick(o, t)[h] = {}
  <1>1. Pick(o, t)[g] = PickFrom(o, t, Pick(o, t), g)
    BY PickUnfolds
  <1>2. CASE Deficit(o, t, g) = 0
    BY <1>1, <1>2 DEF PickFrom
  <1>3. CASE Deficit(o, t, g) # 0
    <2>1. Pick(o, t)[g] \subseteq Spendable(t) \ UNION {Pick(o, t)[h] : h \in Below(g)}
      BY <1>1, <1>3, TakenAreCandidates DEF PickFrom
    <2> QED
      BY <2>1
  <1> QED
    BY <1>2, <1>3

-----------------------------------------------------------------------------
(* What the builders of transactions have in common                        *)

Unheld == {"balance", "intent"}
IsTx(x) == x = [kind |-> x.kind, of |-> x.of, ins |-> x.ins, outs |-> x.outs, soft |-> x.soft,
                spends |-> x.spends, fate |-> x.fate, kept |-> x.kept]
NumberedFor(k, c) == c.id \in Int /\ IdSpan * k < c.id /\ c.id < IdSpan * k + IdSpan

Typed(x)    == x.ins \cup x.outs = Unshielded(x.ins \cup x.outs) \cup Shielded(x.ins \cup x.outs)
TakesFree(x)  == Unshielded(x.ins) \subseteq available /\ Shielded(x.ins) \subseteq coins \ pendingSpends
TakesDust(x) == \A s \in x.spends : /\ s.night \in Nights /\ ~dust[s.night].pending
                                    /\ s.seq = dust[s.night].seq
Numbered(x, k) == \A c \in x.outs : NumberedFor(k, c)

\* a transaction that is built from what is free, and reserved if it is the wallet's own
Built(x) ==
  /\ IsTx(x) /\ x.fate = "open" /\ Typed(x)
  /\ TakesFree(x) /\ TakesDust(x) /\ Numbered(x, Len(txs) + 1)
  /\ MayBuild
  /\ txs' = Append(txs, x) /\ UNCHANGED <<seen, chain>>
  /\ IF x.kind \in Unheld THEN UNCHANGED walletVars /\ x.kept = {}
     ELSE Reserve(x, x.spends) /\ x.kept = Streams /\ Shielded(x.soft) = {}

\* the DUST a plan spends is free
LEMMA PlanTakesDust ==
  ASSUME NEW price, NEW parts, NEW own
  PROVE  \A s \in Spends(DustPlan(price, parts, own)) :
            s.night \in Nights /\ ~dust[s.night].pending /\ s.seq = dust[s.night].seq
  <1> DEFINE plan == DustPlan(price, parts, own)
  <1>1. DOMAIN plan.spends \subseteq DustCoins
    <2>1. CASE price = Sponsored
      BY <2>1 DEF DustPlan, NoSpends
    <2>2. CASE price # Sponsored
      <3>1. plan = DustSearch(DustCoins, price, parts, own, DustRounds)
        BY <2>2 DEF DustPlan
      <3> QED
        BY <3>1, SearchTakes, RoundsAssumption DEF RoundsAssumption
    <2> QED
      BY <2>1, <2>2
  <1>2. \A d \in DustCoins : d.id \in Nights /\ ~dust[d.id].pending
    BY DEF DustCoins
  <1> HIDE DEF plan
  <1>3. \A s \in Spends(plan) : s.night \in Nights /\ ~dust[s.night].pending /\ s.seq = dust[s.night].seq
    BY <1>1, <1>2 DEF Spends
  <1> QED
    BY <1>3 DEF plan

OfferRight(offer) ==
  /\ Typed(offer) /\ TakesFree(offer) /\ Numbered(offer, Len(txs) + 1)
  /\ offer = [ins |-> offer.ins, outs |-> offer.outs, soft |-> offer.soft]

LEMMA ReturnedFacts ==
  ASSUME Len(txs) \in Nat, NEW t, NEW r
  PROVE  \A c \in Returned(t, r) : c.token = t /\ NumberedFor(Len(txs) + 1, c)
  <1>1. 0 < 1 /\ 1 < IdSpan /\ 0 < 2 /\ 2 < IdSpan
    BY DEF IdSpan
  <1>2. \A v : \A k \in {1, 2} : /\ Coin(k, t, v, FALSE).token = t
                              /\ NumberedFor(Len(txs) + 1, Coin(k, t, v, FALSE))
    BY <1>1 DEF Coin, NumberedFor, IdSpan
  <1>3. ASSUME NEW c \in Returned(t, r) PROVE \E v : \E k \in {1, 2} : c = Coin(k, t, v, FALSE)
    BY DEF Returned
  <1> QED
    BY <1>2, <1>3

LEMMA OfferIsRight ==
  ASSUME Len(txs) \in Nat, NEW r
  PROVE  OfferRight(Offer(r)) /\ (r.kind # "intent" => Shielded(Offer(r).soft) = {})
  <1> DEFINE x == Offer(r)
  <1>1. ASSUME NEW c \in x.ins
        PROVE  \/ c.token \in UnshieldedTokens /\ c \in available
               \/ c.token \in ShieldedTokens /\ c \in coins \ pendingSpends
    <2>1. PICK t : (t \in ShieldedTokens \/ t \in UnshieldedTokens) /\ c \in Selected(t, r)
      BY <1>1 DEF Offer, ShieldedOffer, UnshieldedOffer
    <2> QED
      BY <2>1, SelectedAreCandidates DEF TokenAssumption
  <1>2. ASSUME NEW c \in x.outs
        PROVE  NumberedFor(Len(txs) + 1, c) /\ (c.token \in ShieldedTokens \/ c.token \in UnshieldedTokens)
    <2>1. PICK t : (t \in ShieldedTokens \/ t \in UnshieldedTokens) /\ c \in Returned(t, r)
      BY <1>2 DEF Offer, ShieldedOffer, UnshieldedOffer
    <2> QED
      BY <2>1, ReturnedFacts
  <1>3. x = [ins |-> x.ins, outs |-> x.outs, soft |-> x.soft]
    BY DEF Offer
  <1>4. ASSUME NEW c \in x.soft PROVE c.token \in UnshieldedTokens
    <2>1. PICK t \in UnshieldedTokens : c \in Selected(t, r) \/ c \in Returned(t, r)
      BY <1>4 DEF Offer, UnshieldedOffer
    <2> QED
      BY <2>1, SelectedAreCandidates, ReturnedFacts
  <1> HIDE DEF x
  <1>5. Typed(x) /\ TakesFree(x) /\ Numbered(x, Len(txs) + 1)
    BY <1>1, <1>2, TokenAssumption DEF Typed, TakesFree, Numbered, Unshielded, Shielded, TokenAssumption
  <1>6. Shielded(x.soft) = {}
    BY <1>4, TokenAssumption DEF Shielded, TokenAssumption
  <1> QED
    BY <1>3, <1>5, <1>6 DEF OfferRight, x

LEMMA RegistrationIsRight ==
  ASSUME Len(txs) \in Nat, NEW first \in Registrable
  PROVE  OfferRight(RegistrationOffer(first)) /\ Shielded(RegistrationOffer(first).soft) = {}
  <1> DEFINE x == RegistrationOffer(first)
  <1>1. \A c \in Registrable : c \in available /\ c.token = Night
    BY DEF Registrable, Of
  <1>2. 0 < 1 /\ 1 < IdSpan /\ 0 < 2 /\ 2 < IdSpan
    BY DEF IdSpan
  <1>3. \A v : \A k \in {1, 2} : /\ Coin(k, Night, v, TRUE).token = Night
                              /\ NumberedFor(Len(txs) + 1, Coin(k, Night, v, TRUE))
    BY <1>2 DEF Coin, NumberedFor, IdSpan
  <1>4. ASSUME NEW c \in x.outs PROVE \E v : \E k \in {1, 2} : c = Coin(k, Night, v, TRUE)
    BY DEF RegistrationOffer
  <1>5. ASSUME NEW c \in x.soft PROVE c.token = Night
    <2>1. c \in Registrable \/ \E v : c = Coin(2, Night, v, TRUE)
      BY <1>5 DEF RegistrationOffer
    <2> QED
      BY <1>1, <1>3, <2>1
  <1>6. x.ins = Registrable /\ x = [ins |-> x.ins, outs |-> x.outs, soft |-> x.soft]
    BY DEF RegistrationOffer
  <1> HIDE DEF x
  <1>7. \A c \in x.outs : c.token = Night /\ NumberedFor(Len(txs) + 1, c)
    BY <1>3, <1>4
  <1>8. Typed(x) /\ TakesFree(x) /\ Numbered(x, Len(txs) + 1)
    BY <1>1, <1>6, <1>7, TokenAssumption DEF Typed, TakesFree, Numbered, Unshielded, Shielded, TokenAssumption
  <1>9. Shielded(x.soft) = {}
    BY <1>5, TokenAssumption DEF Shielded, TokenAssumption
  <1> QED
    BY <1>6, <1>8, <1>9 DEF OfferRight, x

LEMMA OutputFacts ==
  ASSUME Len(txs) \in Nat, NEW o, NEW p, NEW t, NEW g \in Segments
  PROVE  \A c \in Outputs(o, p, t, g) : c.token = t /\ NumberedFor(Len(txs) + 1, c)
  <1>1. g \in Nat /\ g < 65536
    BY SegmentAssumption DEF SegmentAssumption
  <1>2. \A v : \A k \in {1, 2} : /\ Coin(10 * g + k, t, v, FALSE).token = t
                              /\ NumberedFor(Len(txs) + 1, Coin(10 * g + k, t, v, FALSE))
    BY <1>1 DEF Coin, NumberedFor, IdSpan
  <1>3. ASSUME NEW c \in Outputs(o, p, t, g) PROVE \E v : \E k \in {1, 2} : c = Coin(10 * g + k, t, v, FALSE)
    BY DEF Outputs
  <1> QED
    BY <1>2, <1>3

LEMMA SpendableIsFree ==
  ASSUME NEW t \in Tokens
  PROVE  \A c \in Spendable(t) : \/ c.token \in UnshieldedTokens /\ c \in available
                                 \/ c.token \in ShieldedTokens /\ c \in coins \ pendingSpends
  BY DEF Spendable, Of, Tokens

LEMMA CounterofferIsRight ==
  ASSUME Len(txs) \in Nat, NEW o
  PROVE  OfferRight(Counteroffer(o, Picks(o)))
  <1> DEFINE p == Picks(o)
             x == Counteroffer(o, p)
  <1>1. \A t \in Tokens : p[t] = Pick(o, t)
    BY DEF Picks
  <1> HIDE DEF p
  <1>2. ASSUME NEW c \in x.ins PROVE \E t \in Tokens : \E g \in Segments : c \in p[t][g]
    <2>1. PICK s \in Tokens \X Segments : c \in p[s[1]][s[2]]
      BY <1>2 DEF Counteroffer
    <2> QED
      BY <2>1
  <1>3. ASSUME NEW c \in x.outs PROVE \E t \in Tokens : \E g \in Segments : c \in Outputs(o, p, t, g)
    <2>1. PICK s \in Tokens \X Segments : c \in Outputs(o, p, s[1], s[2])
      BY <1>3 DEF Counteroffer
    <2> QED
      BY <2>1
  <1>4. x = [ins |-> x.ins, outs |-> x.outs, soft |-> x.soft]
    BY DEF Counteroffer
  <1> HIDE DEF x
  <1>5. ASSUME NEW c \in x.ins
        PROVE  \/ c.token \in UnshieldedTokens /\ c \in available
               \/ c.token \in ShieldedTokens /\ c \in coins \ pendingSpends
    <2>1. PICK t \in Tokens, g \in Segments : c \in p[t][g]
      BY <1>2
    <2>2. c \in Spendable(t)
      BY <1>1, <2>1, PicksAreSpendable
    <2> QED
      BY <2>2, SpendableIsFree
  <1>6. \A c \in x.outs : c.token \in Tokens /\ NumberedFor(Len(txs) + 1, c)
    BY <1>3, OutputFacts
  <1>7. Typed(x) /\ TakesFree(x) /\ Numbered(x, Len(txs) + 1)
    BY <1>5, <1>6, TokenAssumption
       DEF Typed, TakesFree, Numbered, Unshielded, Shielded, TokenAssumption, Tokens
  <1> QED
    BY <1>4, <1>7 DEF OfferRight, x, p

LEMMA TransactionFacts ==
  ASSUME Len(txs) \in Nat, NEW kind, NEW of, NEW offer, NEW spends, NEW kept,
         OfferRight(offer),
         \A s \in spends : s.night \in Nights /\ ~dust[s.night].pending /\ s.seq = dust[s.night].seq
  PROVE  LET x == Transaction(kind, of, offer, spends, kept)
         IN  /\ IsTx(x) /\ x.fate = "open" /\ Typed(x)
             /\ TakesFree(x) /\ TakesDust(x) /\ Numbered(x, Len(txs) + 1)
             /\ x.kind = kind /\ x.kept = kept /\ x.soft = offer.soft /\ x.spends = spends
             /\ x.ins = offer.ins /\ x.outs = offer.outs
  <1> DEFINE x == Transaction(kind, of, offer, spends, kept)
  <1>1. /\ x.kind = kind /\ x.kept = kept /\ x.soft = offer.soft /\ x.spends = spends
        /\ x.ins = offer.ins /\ x.outs = offer.outs /\ x.fate = "open" /\ IsTx(x)
    BY DEF Transaction, IsTx
  <1> HIDE DEF x
  <1>2. Typed(x) /\ TakesFree(x) /\ TakesDust(x) /\ Numbered(x, Len(txs) + 1)
    BY <1>1 DEF OfferRight, Typed, TakesFree, TakesDust, Numbered
  <1> QED
    BY <1>1, <1>2 DEF x

LEMMA ReservingBuilds ==
  ASSUME Len(txs) \in Nat, MayBuild, NEW kind, kind \notin Unheld, NEW offer, NEW price,
         OfferRight(offer), Shielded(offer.soft) = {}, BuildAndReserve(kind, offer, price)
  PROVE  \E x : Built(x)
  <1> DEFINE plan == DustPlan(price, Parts(offer), 0)
             x == Transaction(kind, "wallet", offer, Spends(plan), Streams)
  <1>1. \A s \in Spends(plan) : s.night \in Nights /\ ~dust[s.night].pending /\ s.seq = dust[s.night].seq
    BY PlanTakesDust
  <1>2. Reserve(offer, Spends(plan)) /\ txs' = Append(txs, x) /\ UNCHANGED <<seen, chain>>
    BY DEF BuildAndReserve
  <1> HIDE DEF plan
  <1>3. /\ IsTx(x) /\ x.fate = "open" /\ Typed(x)
        /\ TakesFree(x) /\ TakesDust(x) /\ Numbered(x, Len(txs) + 1)
        /\ x.kind = kind /\ x.kept = Streams /\ x.soft = offer.soft /\ x.spends = Spends(plan)
        /\ x.ins = offer.ins /\ x.outs = offer.outs
    BY <1>1, TransactionFacts
  <1> HIDE DEF x
  <1>4. Reserve(x, x.spends)
    BY <1>2, <1>3 DEF Reserve
  <1>5. Built(x)
    BY <1>2, <1>3, <1>4 DEF Built
  <1> QED
    BY <1>5

LEMMA IntentBuilds ==
  ASSUME Len(txs) \in Nat, NEW r, DappIntent(r) PROVE \E x : Built(x)
  <1> DEFINE x == Transaction("intent", "wallet", Offer(r), {}, {})
  <1>1. MayBuild /\ txs' = Append(txs, x) /\ UNCHANGED <<walletVars, seen, chain>>
    BY DEF DappIntent
  <1>2. /\ IsTx(x) /\ x.fate = "open" /\ Typed(x)
        /\ TakesFree(x) /\ TakesDust(x) /\ Numbered(x, Len(txs) + 1)
        /\ x.kind = "intent" /\ x.kept = {}
    BY OfferIsRight, TransactionFacts
  <1> HIDE DEF x
  <1>3. Built(x)
    BY <1>1, <1>2 DEF Built, Unheld
  <1> QED
    BY <1>3

LEMMA CommandsBuild ==
  ASSUME Len(txs) \in Nat, Commands PROVE \E x : Built(x)
  <1>1. ASSUME NEW r, Transfer(r) \/ DappTransfer(r) PROVE \E x : Built(x)
    <2>1. /\ MayBuild /\ r.kind # "intent"
          /\ \E kind \in {"transfer", "dappTransfer"} : BuildAndReserve(kind, Offer(r), r.price)
      BY <1>1 DEF Transfer, DappTransfer
    <2>2. \A kind \in {"transfer", "dappTransfer"} : kind \notin Unheld
      BY DEF Unheld
    <2> QED
      BY <2>1, <2>2, OfferIsRight, ReservingBuilds
  <1>2. CASE GenerateDust
    <2>1. PICK first \in Registrable : BuildAndReserve("register", RegistrationOffer(first), Sponsored)
      BY <1>2 DEF GenerateDust
    <2>2. MayBuild /\ "register" \notin Unheld
      BY <1>2 DEF GenerateDust, Unheld
    <2> QED
      BY <2>1, <2>2, RegistrationIsRight, ReservingBuilds
  <1> QED
    BY <1>1, <1>2, IntentBuilds DEF Commands

LEMMA ExecutionBuilds ==
  ASSUME Len(txs) \in Nat, NEW o, NEW price, NEW m, Execute(o, price, m) PROVE \E x : Built(x)
  <1> DEFINE plan == Plan(o, price)
             spends == Spends(plan.fee)
             x == Transaction("balance", o.id, plan.offer, spends, {})
  <1>1. MayBuild /\ txs' = Append(txs, x) /\ UNCHANGED <<walletVars, seen, chain>>
    BY DEF Execute
  <1>2. plan.offer = Counteroffer(o, Picks(o)) /\ \E parts, own : plan.fee = DustPlan(price, parts, own)
    BY DEF Plan
  <1> HIDE DEF plan
  <1>3. \A s \in spends : s.night \in Nights /\ ~dust[s.night].pending /\ s.seq = dust[s.night].seq
    BY <1>2, PlanTakesDust
  <1>4. OfferRight(plan.offer)
    BY <1>2, CounterofferIsRight
  <1> HIDE DEF spends
  <1>5. /\ IsTx(x) /\ x.fate = "open" /\ Typed(x)
        /\ TakesFree(x) /\ TakesDust(x) /\ Numbered(x, Len(txs) + 1)
        /\ x.kind = "balance" /\ x.kept = {}
    BY <1>3, <1>4, TransactionFacts
  <1> HIDE DEF x
  <1>6. Built(x)
    BY <1>1, <1>5 DEF Built, Unheld
  <1> QED
    BY <1>6

-----------------------------------------------------------------------------
(* The chain and the transactions agree, and no coin is made twice         *)

Known(c, n) == InitialCoins \cup UNION {c[i].made : i \in 1..n}
MadeOnce(c) ==
  /\ \A i \in 1..Len(c) : c[i].made \cap Known(c, i - 1) = {}
  /\ \A p \in 0..Len(c) : After(c, p) \subseteq Known(c, p)
  /\ \A i \in 1..Len(c) : \A p \in i..Len(c) :
        c[i].fate # "failure" => c[i].spent \cap After(c, p) = {}

Landing == {"success", "partial", "failure"}
Made(t) == CASE t.fate = "success" -> t.outs
             [] t.fate = "partial" -> t.outs \ t.soft
             [] OTHER -> {}
EntryRight(e) ==
  IF e.tx = 0 THEN e.fate = "success" /\ e.spent = {} /\ e.made \subseteq Payments /\ e.spends = {}
  ELSE LET t == txs[e.tx]
       IN  /\ e.tx \in DOMAIN txs
           /\ e.fate = t.fate /\ t.fate \in Landing
           /\ e.spent = IF t.fate = "failure" THEN t.ins ELSE Consumed(t)
           /\ e.made = Made(t)
           /\ e.spends = IF t.fate = "failure" THEN {} ELSE t.spends
EntriesRight ==
  /\ \A i \in DOMAIN chain : EntryRight(chain[i])
  /\ \A i, j \in DOMAIN chain : chain[i].tx = chain[j].tx /\ chain[i].tx # 0 => i = j
  /\ \A k \in DOMAIN txs : txs[k].fate \in Landing => Landed(k) # {}

TxRight(x, k) == IsTx(x) /\ Typed(x) /\ Numbered(x, k) /\ x.fate \in {"open", "dropped"} \cup Landing
TxsRight ==
  /\ txs \in Seq({txs[k] : k \in DOMAIN txs})
  /\ \A k \in DOMAIN txs : TxRight(txs[k], k)

History == Inv /\ TxsRight /\ EntriesRight /\ MadeOnce(chain)

LEMMA TxsKnown ==
  ASSUME TxsRight PROVE Len(txs) \in Nat /\ DOMAIN txs = 1..Len(txs) /\ 0 \notin DOMAIN txs
  BY DEF TxsRight

LEMMA KnownGrows ==
  ASSUME NEW c, NEW p \in Nat, NEW q \in Nat, p <= q PROVE Known(c, p) \subseteq Known(c, q)
  <1>1. 1..p \subseteq 1..q
    OBVIOUS
  <1> QED
    BY <1>1 DEF Known

LEMMA MadeOnceGrows ==
  ASSUME NEW c, c \in Seq({c[i] : i \in DOMAIN c}), MadeOnce(c),
         \A i \in 1..Len(c) : Continues(c[i], After(c, i - 1)),
         NEW e, Continues(e, After(c, Len(c))), e.made \cap Known(c, Len(c)) = {}
  PROVE  MadeOnce(Append(c, e))
  <1> DEFINE d == Append(c, e)
             n == Len(c)
  <1>1. /\ n \in Nat /\ Len(d) = n + 1
        /\ \A i \in 1..n : d[i] = c[i]
        /\ d[n + 1] = e
    BY Appended
  <1> HIDE DEF d
  <1>2. \A p \in 0..n : After(d, p) = After(c, p) /\ Known(d, p) = Known(c, p)
    <2>1. ASSUME NEW p \in 0..n PROVE After(d, p) = After(c, p)
      BY <1>1 DEF After
    <2>2. ASSUME NEW p \in 0..n PROVE {d[i].made : i \in 1..p} = {c[i].made : i \in 1..p}
      <3>1. \A i \in 1..p : d[i] = c[i]
        BY <1>1
      <3> QED
        BY <3>1
    <2> QED
      BY <2>1, <2>2 DEF Known
  <1>3. After(d, n + 1) = e.after
    BY <1>1 DEF After
  <1>4. Known(d, n + 1) = Known(c, n) \cup e.made
    <2>1. {d[i].made : i \in 1..(n + 1)} = {c[i].made : i \in 1..n} \cup {e.made}
      <3>1. 1..(n + 1) = 1..n \cup {n + 1}
        BY <1>1
      <3>2. (\A i \in 1..n : d[i].made = c[i].made) /\ d[n + 1].made = e.made
        BY <1>1
      <3> HIDE DEF n
      <3> QED
        BY <3>1, <3>2
    <2> QED
      BY <2>1 DEF Known
  <1>5. e.after \subseteq After(c, n) \cup e.made /\ After(c, n) \subseteq Known(c, n)
    BY <1>1 DEF Continues, MadeOnce
  <1> HIDE DEF n
  <1>6. ASSUME NEW i \in 1..(n + 1) PROVE d[i].made \cap Known(d, i - 1) = {}
    <2>1. CASE i = n + 1
      <3>1. i - 1 = n /\ n \in 0..n /\ d[i] = e
        BY <1>1, <2>1
      <3>2. e.made \cap Known(c, n) = {}
        BY DEF n
      <3> QED
        BY <1>2, <3>1, <3>2
    <2>2. CASE i \in 1..n
      <3>1. i - 1 \in 0..n /\ d[i] = c[i]
        BY <1>1, <2>2
      <3>2. c[i].made \cap Known(c, i - 1) = {}
        BY <2>2 DEF MadeOnce, n
      <3> QED
        BY <1>2, <3>1, <3>2
    <2> QED
      BY <1>1, <2>1, <2>2
  <1>7. ASSUME NEW p \in 0..(n + 1) PROVE After(d, p) \subseteq Known(d, p)
    <2>1. CASE p = n + 1
      BY <1>3, <1>4, <1>5, <2>1
    <2>2. CASE p \in 0..n
      BY <1>2, <2>2 DEF MadeOnce, n
    <2> QED
      BY <1>1, <2>1, <2>2
  <1>8. ASSUME NEW i \in 1..(n + 1), NEW p \in i..(n + 1), d[i].fate # "failure"
        PROVE  d[i].spent \cap After(d, p) = {}
    <2>1. CASE p \in 0..n
      <3>1. i \in 1..n /\ p \in i..n /\ d[i] = c[i]
        BY <1>1, <2>1
      <3>2. c[i].spent \cap After(c, p) = {}
        BY <1>8, <3>1 DEF MadeOnce, n
      <3> QED
        BY <1>2, <2>1, <3>1, <3>2
    <2>2. CASE p = n + 1 /\ i = n + 1
      BY <1>1, <1>3, <1>8, <2>2 DEF Continues, n
    <2>3. CASE p = n + 1 /\ i \in 1..n
      <3>1. c[i].spent \cap After(c, n) = {}
        BY <1>1, <1>8, <2>3 DEF MadeOnce, n
      <3>2. c[i].spent \subseteq Known(c, n)
        <4>1. c[i].spent \subseteq After(c, i - 1) /\ After(c, i - 1) \subseteq Known(c, i - 1)
          BY <1>1, <2>3 DEF Continues, MadeOnce, n
        <4>2. Known(c, i - 1) \subseteq Known(c, n)
          BY <1>1, <2>3, KnownGrows
        <4> QED
          BY <4>1, <4>2
      <3>3. c[i].spent \cap e.after = {}
        BY <1>5, <3>1, <3>2 DEF n
      <3> QED
        BY <1>1, <1>3, <2>3, <3>3
    <2> QED
      BY <1>1, <2>1, <2>2, <2>3
  <1> QED
    BY <1>1, <1>6, <1>7, <1>8 DEF MadeOnce, d

\* transactions that differ at most in what the wallet remembers of them
Alike(x, y) ==
  /\ IsTx(y) /\ y.kind = x.kind /\ y.ins = x.ins /\ y.outs = x.outs /\ y.soft = x.soft
  /\ y.spends = x.spends /\ y.fate = x.fate
SameTxs ==
  /\ txs' \in Seq({txs'[k] : k \in DOMAIN txs'}) /\ DOMAIN txs' = DOMAIN txs
  /\ \A k \in DOMAIN txs : Alike(txs[k], txs'[k])

LEMMA UnchangedTxs ==
  ASSUME TxsRight, UNCHANGED txs PROVE SameTxs
  BY DEF TxsRight, TxRight, SameTxs, Alike

LEMMA ForgetsFacts ==
  ASSUME TxsRight, NEW s, Forget(s)
  PROVE  SameTxs /\ \A k \in DOMAIN txs : txs'[k].kept = txs[k].kept \ {s}
  <1>1. Len(txs) \in Nat /\ DOMAIN txs = 1..Len(txs)
    BY TxsKnown
  <1>2. txs' = [k \in DOMAIN txs |-> [txs[k] EXCEPT !.kept = @ \ {s}]]
    BY DEF Forget
  <1>3. ASSUME NEW x, IsTx(x) PROVE LET y == [x EXCEPT !.kept = @ \ {s}]
                                   IN  Alike(x, y) /\ y.kept = x.kept \ {s}
    <2> DEFINE y == [kind |-> x.kind, of |-> x.of, ins |-> x.ins, outs |-> x.outs, soft |-> x.soft,
                     spends |-> x.spends, fate |-> x.fate, kept |-> x.kept \ {s}]
    <2>1. [x EXCEPT !.kept = @ \ {s}] = y
      BY <1>3 DEF IsTx
    <2>2. Alike(x, y) /\ y.kept = x.kept \ {s}
      BY DEF Alike, IsTx
    <2> QED
      BY <2>1, <2>2
  <1>4. \A k \in DOMAIN txs : Alike(txs[k], txs'[k]) /\ txs'[k].kept = txs[k].kept \ {s}
    BY <1>2, <1>3 DEF TxsRight, TxRight
  <1>5. DOMAIN txs' = 1..Len(txs) /\ txs' = [k \in 1..Len(txs) |-> txs'[k]]
    BY <1>1, <1>2
  <1>6. txs' \in Seq({txs'[k] : k \in DOMAIN txs'})
    BY <1>1, <1>5
  <1> QED
    BY <1>1, <1>4, <1>5, <1>6 DEF SameTxs

LEMMA AlikeFacts ==
  ASSUME NEW x, NEW y, Alike(x, y)
  PROVE  /\ Consumed(y) = Consumed(x) /\ DustConsumed(y) = DustConsumed(x) /\ Made(y) = Made(x)
         /\ \A k : TxRight(x, k) => TxRight(y, k)
  BY DEF Alike, Consumed, DustConsumed, Made, TxRight, Typed, Numbered

\* steps that leave the chain as it is, and the transactions but for what is remembered
LEMMA SameHistory ==
  ASSUME TxsRight, EntriesRight, SameTxs, UNCHANGED chain
  PROVE  TxsRight' /\ EntriesRight' /\ \A k \in DOMAIN txs : Landed(k)' = Landed(k)
  <1>1. TxsRight'
    BY AlikeFacts DEF TxsRight, SameTxs
  <1>2. \A k \in DOMAIN txs : Landed(k)' = Landed(k)
    BY DEF Landed
  <1>3. ASSUME NEW e, EntryRight(e) PROVE EntryRight(e)'
    <2>1. CASE e.tx = 0
      BY <1>3, <2>1 DEF EntryRight
    <2>2. CASE e.tx # 0
      <3>1. e.tx \in DOMAIN txs /\ Alike(txs[e.tx], txs'[e.tx])
        BY <1>3, <2>2 DEF EntryRight, SameTxs
      <3>2. /\ Consumed(txs'[e.tx]) = Consumed(txs[e.tx]) /\ Made(txs'[e.tx]) = Made(txs[e.tx])
        BY <3>1, AlikeFacts
      <3> QED
        BY <1>3, <2>2, <3>1, <3>2 DEF EntryRight, SameTxs, Alike
    <2> QED
      BY <2>1, <2>2
  <1>4. EntriesRight'
    <2>1. \A i \in DOMAIN chain : EntryRight(chain[i])'
      BY <1>3 DEF EntriesRight
    <2>2. \A k \in DOMAIN txs' : txs'[k].fate \in Landing => Landed(k)' # {}
      BY <1>2 DEF EntriesRight, SameTxs, Alike
    <2> QED
      BY <2>1, <2>2 DEF EntriesRight
  <1> QED
    BY <1>1, <1>2, <1>4

\* a transaction is built: it is new, and not on chain
LEMMA BuiltFacts ==
  ASSUME TxsRight, NEW x, Built(x)
  PROVE  LET n == Len(txs)
         IN  /\ n \in Nat /\ DOMAIN txs = 1..n /\ DOMAIN txs' = 1..(n + 1)
             /\ txs' \in Seq({txs'[k] : k \in DOMAIN txs'})
             /\ \A k \in 1..n : txs'[k] = txs[k]
             /\ txs'[n + 1] = x
  <1>1. txs' = Append(txs, x)
    BY DEF Built
  <1> QED
    BY <1>1, Appended DEF TxsRight

LEMMA BuiltHistory ==
  ASSUME Inv, TxsRight, EntriesRight, NEW x, Built(x)
  PROVE  /\ TxsRight' /\ EntriesRight'
         /\ \A k : Landed(k)' = Landed(k)
         /\ Landed(Len(txs) + 1) = {}
  <1> DEFINE n == Len(txs)
  <1>1. /\ n \in Nat /\ DOMAIN txs = 1..n /\ DOMAIN txs' = 1..(n + 1)
        /\ txs' \in Seq({txs'[k] : k \in DOMAIN txs'})
        /\ \A k \in 1..n : txs'[k] = txs[k]
        /\ txs'[n + 1] = x
    BY BuiltFacts
  <1>2. chain' = chain
    BY DEF Built
  <1>3. TxRight(x, n + 1) /\ x.fate = "open"
    BY DEF Built, TxRight
  <1> HIDE DEF n
  <1>4. TxsRight'
    BY <1>1, <1>3 DEF TxsRight
  <1>5. \A i \in DOMAIN chain : chain[i].tx = 0 \/ chain[i].tx \in 1..n
    BY <1>1 DEF EntriesRight, EntryRight
  <1>6. Landed(n + 1) = {}
    <2>1. n + 1 # 0 /\ n + 1 \notin 1..n /\ DOMAIN chain = 1..Len(chain)
      BY <1>1, PlacesKnown
    <2> QED
      BY <1>5, <2>1 DEF Landed
  <1>9. \A k : Landed(k)' = Landed(k)
    BY <1>2 DEF Landed
  <1>7. \A e : EntryRight(e) => EntryRight(e)'
    BY <1>1 DEF EntryRight
  <1>8. EntriesRight'
    BY <1>1, <1>2, <1>3, <1>7, <1>9 DEF EntriesRight, Landing
  <1> QED
    BY <1>4, <1>6, <1>8, <1>9 DEF n

\* the fate of one transaction becomes known
Fated(k, f) ==
  /\ txs' \in Seq({txs'[j] : j \in DOMAIN txs'}) /\ DOMAIN txs' = DOMAIN txs
  /\ \A j \in DOMAIN txs \ {k} : txs'[j] = txs[j]
  /\ LET x == txs[k]
         y == txs'[k]
     IN  /\ IsTx(y) /\ y.kind = x.kind /\ y.ins = x.ins /\ y.outs = x.outs /\ y.soft = x.soft
         /\ y.spends = x.spends /\ y.kept = x.kept /\ y.fate = f

LEMMA FateFacts ==
  ASSUME TxsRight, NEW k \in DOMAIN txs, NEW f
  PROVE  txs' = [txs EXCEPT ![k].fate = f] => Fated(k, f)
  <1>1. Len(txs) \in Nat /\ DOMAIN txs = 1..Len(txs)
    BY TxsKnown
  <1> DEFINE x == txs[k]
             y == [kind |-> x.kind, of |-> x.of, ins |-> x.ins, outs |-> x.outs, soft |-> x.soft,
                   spends |-> x.spends, fate |-> f, kept |-> x.kept]
  <1>2. [x EXCEPT !.fate = f] = y
    BY DEF TxsRight, TxRight, IsTx
  <1> DEFINE Set == txs' = [txs EXCEPT ![k].fate = f]
  <1>3. Set => txs' = [txs EXCEPT ![k] = y]
    BY <1>2
  <1> HIDE DEF Set
  <1> SUFFICES ASSUME Set PROVE Fated(k, f)
    BY DEF Set
  <1>4. /\ IsTx(y) /\ y.kind = x.kind /\ y.ins = x.ins /\ y.outs = x.outs /\ y.soft = x.soft
        /\ y.spends = x.spends /\ y.kept = x.kept /\ y.fate = f
    BY DEF IsTx
  <1> HIDE DEF y
  <1>5. txs = [j \in 1..Len(txs) |-> txs[j]]
    BY <1>1 DEF TxsRight
  <1>6. /\ DOMAIN txs' = 1..Len(txs) /\ txs' = [j \in 1..Len(txs) |-> txs'[j]]
        /\ txs'[k] = y /\ \A j \in DOMAIN txs \ {k} : txs'[j] = txs[j]
    BY <1>1, <1>3, <1>5
  <1>7. txs' \in Seq({txs'[j] : j \in DOMAIN txs'})
    <2>1. /\ Len(txs) \in Nat /\ DOMAIN txs' = 1..Len(txs)
          /\ txs' = [j \in 1..Len(txs) |-> txs'[j]]
      BY <1>1, <1>6
    <2> QED
      BY <2>1
  <1> QED
    BY <1>1, <1>4, <1>6, <1>7 DEF Fated

LEMMA FatedRight ==
  ASSUME TxsRight, NEW k \in DOMAIN txs, NEW f \in {"dropped"} \cup Landing, Fated(k, f)
  PROVE  TxsRight'
  <1>1. TxRight(txs'[k], k)
    <2>1. TxRight(txs[k], k)
      BY DEF TxsRight
    <2>2. txs'[k].ins = txs[k].ins /\ txs'[k].outs = txs[k].outs /\ txs'[k].fate = f /\ IsTx(txs'[k])
      BY DEF Fated
    <2>3. Typed(txs'[k]) /\ Numbered(txs'[k], k)
      BY <2>1, <2>2 DEF TxRight, Typed, Numbered
    <2> QED
      BY <2>2, <2>3 DEF TxRight
  <1>2. \A j \in DOMAIN txs \ {k} : TxRight(txs'[j], j)
    BY DEF TxsRight, Fated
  <1> QED
    BY <1>1, <1>2 DEF TxsRight, Fated

\* entries of other transactions do not change with it
LEMMA FatedEntries ==
  ASSUME NEW k \in DOMAIN txs, NEW f, Fated(k, f), NEW e, EntryRight(e), e.tx # k
  PROVE  EntryRight(e)'
  BY DEF EntryRight, Fated

LEMMA OpenIsNotOnChain ==
  ASSUME Inv, EntriesRight, NEW k \in DOMAIN txs, txs[k].fate = "open", 0 \notin DOMAIN txs
  PROVE  Landed(k) = {} /\ \A i \in DOMAIN chain : chain[i].tx # k
  <1>1. \A i \in DOMAIN chain : chain[i].tx # k
    BY DEF EntriesRight, EntryRight, Landing
  <1> QED
    BY <1>1, PlacesKnown DEF Landed

LEMMA DropFacts ==
  ASSUME Inv, TxsRight, EntriesRight, NEW k \in DOMAIN txs, Drop(k)
  PROVE  /\ Fated(k, "dropped") /\ TxsRight' /\ EntriesRight' /\ txs[k].fate = "open"
         /\ \A j \in DOMAIN txs : Landed(j)' = Landed(j)
  <1>1. Fated(k, "dropped") /\ txs[k].fate = "open" /\ chain' = chain
    BY FateFacts DEF Drop
  <1>2. \A i \in DOMAIN chain : chain[i].tx # k
    BY <1>1, TxsKnown, OpenIsNotOnChain
  <1>3. \A j \in DOMAIN txs : Landed(j)' = Landed(j)
    BY <1>1 DEF Landed
  <1>4. TxsRight'
    BY <1>1, FatedRight
  <1>5. \A i \in DOMAIN chain : EntryRight(chain[i])'
    BY <1>1, <1>2, FatedEntries DEF EntriesRight
  <1>6. EntriesRight'
    BY <1>1, <1>3, <1>5 DEF EntriesRight, Landing, Fated
  <1> QED
    BY <1>1, <1>3, <1>4, <1>6

\* the chain gets an entry
Recorded(e) ==
  LET n == Len(chain)
  IN  /\ n \in Nat /\ Len(chain') = n + 1 /\ DOMAIN chain = 1..n /\ DOMAIN chain' = 1..(n + 1)
      /\ chain' = Append(chain, e)
      /\ \A i \in 1..n : chain'[i] = chain[i]
      /\ chain'[n + 1] = e
      /\ \A p \in 0..n : After(chain', p) = After(chain, p) /\ Known(chain', p) = Known(chain, p)
      /\ Known(chain', n + 1) = Known(chain, n) \cup e.made
      /\ Continues(e, After(chain, n))
      /\ \A s \in Streams : \/ seen'[s] = seen[s]
                            \/ /\ seen[s] = n /\ seen'[s] = n + 1
                               /\ s \notin Carried(e.fate, e.spent \cup e.made, e.spends)

LEMMA RecordFacts ==
  ASSUME Inv, NEW k, NEW fate, NEW spent, NEW made, NEW spends,
         spent \subseteq Unspent(Len(chain)), made \cap Unspent(Len(chain)) = {},
         Record(k, fate, spent, made, spends)
  PROVE  \E e : /\ e.tx = k /\ e.fate = fate /\ e.spent = spent /\ e.made = made /\ e.spends = spends
                /\ Recorded(e)
  <1> DEFINE n == Len(chain)
             before == After(chain, n)
             after == IF fate = "failure" THEN before ELSE (before \ spent) \cup made
             e == [tx |-> k, fate |-> fate, spent |-> spent, made |-> made, spends |-> spends,
                   after |-> after]
  <1>1. chain' = Append(chain, e)
    BY DEF Record, Unspent, After
  <1>2. \A s \in Streams :
          \/ seen'[s] = seen[s]
          \/ seen[s] = n /\ seen'[s] = n + 1 /\ s \notin Carried(fate, spent \cup made, spends)
    BY DEF Record
  <1>3. spent \subseteq before /\ made \cap before = {}
    BY DEF Unspent, After
  <1>4. Continues(e, before)
    <2> HIDE DEF before
    <2> QED
      BY <1>3 DEF Continues
  <1>5. e.tx = k /\ e.fate = fate /\ e.spent = spent /\ e.made = made /\ e.spends = spends
    OBVIOUS
  <1> HIDE DEF e
  <1>6. /\ n \in Nat /\ DOMAIN chain = 1..n
        /\ Len(chain') = n + 1 /\ DOMAIN chain' = 1..(n + 1)
        /\ \A i \in 1..n : chain'[i] = chain[i]
        /\ chain'[n + 1] = e
    BY <1>1, Appended DEF Inv, ChainInv
  <1> HIDE DEF n
  <1>7. \A p \in 0..n : After(chain', p) = After(chain, p)
    BY <1>6 DEF After
  <1>8. ASSUME NEW p \in 0..n PROVE Known(chain', p) = Known(chain, p)
    <2>1. \A i \in 1..p : chain'[i] = chain[i]
      BY <1>6
    <2>2. {chain'[i].made : i \in 1..p} = {chain[i].made : i \in 1..p}
      BY <2>1
    <2> QED
      BY <2>2 DEF Known
  <1>9. Known(chain', n + 1) = Known(chain, n) \cup e.made
    <2>1. 1..(n + 1) = 1..n \cup {n + 1}
      BY <1>6
    <2>2. {chain'[i].made : i \in 1..(n + 1)} = {chain[i].made : i \in 1..n} \cup {e.made}
      BY <1>6, <2>1
    <2> QED
      BY <2>2 DEF Known
  <1>10. Recorded(e)
    BY <1>1, <1>2, <1>4, <1>5, <1>6, <1>7, <1>8, <1>9 DEF Recorded, n
  <1> QED
    BY <1>5, <1>10

\* what a transaction returns is numbered apart from all that was made before it
LEMMA NumbersDiffer ==
  ASSUME NEW c, NEW k \in Nat, NEW j \in Nat, NumberedFor(k, c), NumberedFor(j, c) PROVE j = k
  BY DEF NumberedFor, IdSpan

LEMMA MadeIsNew ==
  ASSUME History, NEW k \in DOMAIN txs, txs[k].fate = "open", NEW S, S \subseteq txs[k].outs
  PROVE  S \cap Known(chain, Len(chain)) = {}
  <1>1. k \in Nat /\ 1 <= k /\ \A j \in DOMAIN txs : j \in Nat
    BY TxsKnown DEF History
  <1>2. \A c \in S : NumberedFor(k, c)
    BY DEF History, TxsRight, TxRight, Numbered
  <1>3. \A c \in S : c.id > IdSpan
    BY <1>1, <1>2 DEF NumberedFor, IdSpan
  <1>4. \A c \in InitialCoins \cup Payments : c.id \in Nat /\ c.id <= IdSpan
    BY CoinAssumption DEF CoinAssumption
  <1>5. \A c \in S : c \notin InitialCoins \cup Payments
    <2>1. IdSpan \in Nat
      BY DEF IdSpan
    <2>2. \A c \in S : c.id \in Int
      BY <1>2 DEF NumberedFor
    <2> QED
      BY <1>3, <1>4, <2>1, <2>2
  <1>6. \A i \in DOMAIN chain : chain[i].tx # k
    BY TxsKnown, OpenIsNotOnChain DEF History
  <1>7. ASSUME NEW i \in DOMAIN chain, NEW c \in S PROVE c \notin chain[i].made
    <2>1. CASE chain[i].tx = 0
      <3>1. chain[i].made \subseteq Payments
        BY <2>1 DEF History, EntriesRight, EntryRight
      <3> QED
        BY <1>5, <3>1
    <2>2. CASE chain[i].tx # 0
      <3> DEFINE j == chain[i].tx
      <3>1. j \in DOMAIN txs /\ chain[i].made = Made(txs[j])
        BY <2>2 DEF History, EntriesRight, EntryRight
      <3>2. Made(txs[j]) \subseteq txs[j].outs
        BY DEF Made
      <3>3. \A d \in txs[j].outs : NumberedFor(j, d)
        BY <3>1 DEF History, TxsRight, TxRight, Numbered
      <3>4. j # k
        BY <1>6
      <3> HIDE DEF j
      <3> QED
        BY <1>1, <1>2, <3>1, <3>2, <3>3, <3>4, NumbersDiffer
    <2> QED
      BY <2>1, <2>2
  <1> QED
    BY <1>5, <1>7, PlacesKnown DEF Known, History

LEMMA IncludeFacts ==
  ASSUME History, NEW k \in DOMAIN txs, NEW fate \in Landing, Include(k, fate)
  PROVE  \E e : /\ Recorded(e) /\ e.tx = k /\ e.fate = fate /\ Fated(k, fate)
                /\ e.spent = IF fate = "failure" THEN txs[k].ins ELSE Consumed(txs'[k])
                /\ e.made = Made(txs'[k])
                /\ e.spends = IF fate = "failure" THEN {} ELSE txs[k].spends
                /\ txs[k].fate = "open" /\ \A s \in txs[k].spends : s.seq = DustSeq(s.night)
                /\ UNCHANGED walletVars
  <1> DEFINE t == txs[k]
             Same(e, s, m, d) == /\ e.tx = k /\ e.fate = fate /\ e.spent = s /\ e.made = m /\ e.spends = d
                                 /\ Recorded(e)
  <1>1. /\ t.ins \subseteq Unspent(Len(chain)) /\ t.outs \cap Unspent(Len(chain)) = {}
        /\ txs' = [txs EXCEPT ![k].fate = fate] /\ t.fate = "open" /\ UNCHANGED walletVars
        /\ \A s \in t.spends : s.seq = DustSeq(s.night)
    BY DEF Include
  <1>2. Fated(k, fate)
    BY <1>1, FateFacts DEF History
  <1>3. txs'[k].fate = fate /\ txs'[k].ins = t.ins /\ txs'[k].outs = t.outs /\ txs'[k].soft = t.soft
    BY <1>2 DEF Fated
  <1>4. CASE fate = "success"
    <2>1. Record(k, fate, t.ins, t.outs, t.spends)
      BY <1>4 DEF Include
    <2>2. \E e : Same(e, t.ins, t.outs, t.spends)
      BY <1>1, <2>1, RecordFacts DEF History
    <2>3. Consumed(txs'[k]) = t.ins /\ Made(txs'[k]) = t.outs
      BY <1>3, <1>4 DEF Consumed, Made
    <2> HIDE DEF t
    <2> QED
      BY <1>1, <1>2, <1>4, <2>2, <2>3 DEF t
  <1>5. CASE fate = "partial"
    <2>1. Record(k, fate, t.ins \ t.soft, t.outs \ t.soft, t.spends)
      BY <1>5 DEF Include
    <2>2. t.ins \ t.soft \subseteq Unspent(Len(chain)) /\ (t.outs \ t.soft) \cap Unspent(Len(chain)) = {}
      BY <1>1
    <2>3. \E e : Same(e, t.ins \ t.soft, t.outs \ t.soft, t.spends)
      BY <2>1, <2>2, RecordFacts DEF History
    <2>4. Consumed(txs'[k]) = t.ins \ t.soft /\ Made(txs'[k]) = t.outs \ t.soft
      BY <1>3, <1>5 DEF Consumed, Made
    <2> HIDE DEF t
    <2> QED
      BY <1>1, <1>2, <1>5, <2>3, <2>4 DEF t
  <1>6. CASE fate = "failure"
    <2>1. Record(k, fate, t.ins, {}, {})
      BY <1>6 DEF Include
    <2>2. {} \cap Unspent(Len(chain)) = {}
      OBVIOUS
    <2>3. \E e : Same(e, t.ins, {}, {})
      BY <1>1, <2>1, <2>2, RecordFacts DEF History
    <2>4. Made(txs'[k]) = {}
      BY <1>3, <1>6 DEF Made
    <2> HIDE DEF t
    <2> QED
      BY <1>1, <1>2, <1>6, <2>3, <2>4 DEF t
  <1> QED
    BY <1>4, <1>5, <1>6 DEF Landing

\* an entry of a transaction that was open
LEMMA IncludeHistory ==
  ASSUME History, NEW k \in DOMAIN txs, NEW fate \in Landing, NEW e, Recorded(e), Fated(k, fate),
         e.tx = k, e.fate = fate, txs[k].fate = "open",
         e.spent = IF fate = "failure" THEN txs[k].ins ELSE Consumed(txs'[k]),
         e.made = Made(txs'[k]),
         e.spends = IF fate = "failure" THEN {} ELSE txs[k].spends
  PROVE  /\ TxsRight' /\ EntriesRight' /\ MadeOnce(chain)'
         /\ \A j \in DOMAIN txs \ {k} : Landed(j)' = Landed(j)
         /\ Landed(k) = {} /\ Landed(k)' = {Len(chain) + 1}
  <1> DEFINE n == Len(chain)
  <1>1. /\ n \in Nat /\ Len(chain') = n + 1 /\ DOMAIN chain = 1..n /\ DOMAIN chain' = 1..(n + 1)
        /\ \A i \in 1..n : chain'[i] = chain[i]
        /\ chain'[n + 1] = e
    BY DEF Recorded
  <1> HIDE DEF n
  <1>2. (\A i \in 1..n : chain[i].tx # k) /\ Landed(k) = {}
    BY <1>1, TxsKnown, OpenIsNotOnChain DEF History
  <1>3. /\ txs'[k].fate = fate /\ txs'[k].ins = txs[k].ins /\ txs'[k].spends = txs[k].spends
        /\ DOMAIN txs' = DOMAIN txs
    BY DEF Fated
  <1>4. Landed(k)' = {n + 1}
    <2>1. Landed(k)' = {i \in 1..(n + 1) : chain'[i].tx = k}
      BY <1>1 DEF Landed
    <2>2. \A i \in 1..(n + 1) : chain'[i].tx = k <=> i = n + 1
      BY <1>1, <1>2
    <2> QED
      BY <1>1, <2>1, <2>2
  <1>5. ASSUME NEW j \in DOMAIN txs \ {k} PROVE Landed(j)' = Landed(j)
    <2>1. Landed(j)' = {i \in 1..(n + 1) : chain'[i].tx = j}
      BY <1>1 DEF Landed
    <2>2. Landed(j) = {i \in 1..n : chain[i].tx = j}
      BY DEF Landed, n
    <2>3. \A i \in 1..(n + 1) : chain'[i].tx = j <=> (i \in 1..n /\ chain[i].tx = j)
      BY <1>1, <1>5
    <2> QED
      BY <1>1, <2>1, <2>2, <2>3
  <1>6. TxsRight'
    BY FatedRight DEF History
  <1>7. k # 0
    BY TxsKnown DEF History
  <1>8. EntryRight(e)'
    BY <1>3, <1>7 DEF EntryRight
  <1>9. \A i \in 1..n : EntryRight(chain[i])'
    BY <1>1, <1>2, FatedEntries DEF History, EntriesRight
  <1>10. \A j \in DOMAIN txs' : txs'[j].fate \in Landing => Landed(j)' # {}
    <2>1. ASSUME NEW j \in DOMAIN txs \ {k}, txs'[j].fate \in Landing PROVE Landed(j)' # {}
      BY <1>5, <2>1 DEF History, EntriesRight, Fated
    <2> QED
      BY <1>3, <1>4, <2>1
  <1>11. \A i \in DOMAIN chain' : (\E d : d = chain'[i] /\ EntryRight(d)')
    BY <1>1, <1>8, <1>9
  <1>12. \A i, j \in DOMAIN chain' : chain'[i].tx = chain'[j].tx /\ chain'[i].tx # 0 => i = j
    <2>1. \A i, j \in 1..n : chain[i].tx = chain[j].tx /\ chain[i].tx # 0 => i = j
      BY <1>1 DEF History, EntriesRight
    <2> QED
      BY <1>1, <1>2, <2>1
  <1>13. EntriesRight'
    BY <1>10, <1>11, <1>12 DEF EntriesRight, EntryRight
  <1>14. MadeOnce(chain)'
    <2>1. e.made \subseteq txs[k].outs
      BY DEF Made, Fated
    <2>2. e.made \cap Known(chain, Len(chain)) = {}
      BY <2>1, MadeIsNew
    <2>3. Continues(e, After(chain, Len(chain))) /\ chain' = Append(chain, e)
      BY DEF Recorded
    <2>4. MadeOnce(Append(chain, e))
      BY <2>2, <2>3, MadeOnceGrows DEF History, Inv, ChainInv
    <2> QED
      BY <2>3, <2>4
  <1> QED
    BY <1>2, <1>4, <1>5, <1>6, <1>13, <1>14 DEF n

LEMMA PayFacts ==
  ASSUME History, NEW c \in Payments, Pay(c)
  PROVE  /\ \E e : /\ Recorded(e) /\ e.tx = 0 /\ e.fate = "success"
                   /\ e.spent = {} /\ e.made = {c} /\ e.spends = {}
         /\ UNCHANGED <<walletVars, txs>>
         /\ TxsRight' /\ EntriesRight' /\ MadeOnce(chain)'
         /\ \A j \in DOMAIN txs : Landed(j)' = Landed(j)
  <1>1. /\ Record(0, "success", {}, {c}, {}) /\ UNCHANGED <<walletVars, txs>>
        /\ c \notin Unspent(Len(chain))
        /\ \A i \in DOMAIN chain : c \notin chain[i].made
    BY DEF Pay
  <1>2. {} \subseteq Unspent(Len(chain)) /\ {c} \cap Unspent(Len(chain)) = {}
    BY <1>1
  <1>3. PICK e : /\ e.tx = 0 /\ e.fate = "success" /\ e.spent = {} /\ e.made = {c} /\ e.spends = {}
                 /\ Recorded(e)
    BY <1>1, <1>2, RecordFacts DEF History
  <1> DEFINE n == Len(chain)
  <1>4. /\ n \in Nat /\ Len(chain') = n + 1 /\ DOMAIN chain = 1..n /\ DOMAIN chain' = 1..(n + 1)
        /\ \A i \in 1..n : chain'[i] = chain[i]
        /\ chain'[n + 1] = e
    BY <1>3 DEF Recorded
  <1> HIDE DEF n
  <1>5. TxsRight'
    BY <1>1 DEF History, TxsRight
  <1>6. ASSUME NEW j \in DOMAIN txs PROVE Landed(j)' = Landed(j)
    <2>1. Landed(j)' = {i \in 1..(n + 1) : chain'[i].tx = j}
      BY <1>4 DEF Landed
    <2>2. Landed(j) = {i \in 1..n : chain[i].tx = j}
      BY DEF Landed, n
    <2>3. j # 0
      BY TxsKnown DEF History
    <2>4. \A i \in 1..(n + 1) : chain'[i].tx = j <=> (i \in 1..n /\ chain[i].tx = j)
      BY <1>3, <1>4, <2>3
    <2> QED
      BY <1>4, <2>1, <2>2, <2>4
  <1>7. \A d : EntryRight(d) => EntryRight(d)'
    BY <1>1 DEF EntryRight
  <1>8. EntryRight(e)'
    BY <1>3 DEF EntryRight
  <1>9. \A i \in DOMAIN chain' : (\E d : d = chain'[i] /\ EntryRight(d)')
    BY <1>4, <1>7, <1>8 DEF History, EntriesRight
  <1>10. \A i, j \in DOMAIN chain' : chain'[i].tx = chain'[j].tx /\ chain'[i].tx # 0 => i = j
    <2>1. \A i, j \in 1..n : chain[i].tx = chain[j].tx /\ chain[i].tx # 0 => i = j
      BY <1>4 DEF History, EntriesRight
    <2> QED
      BY <1>3, <1>4, <2>1
  <1>11. EntriesRight'
    BY <1>1, <1>6, <1>9, <1>10 DEF History, EntriesRight, EntryRight
  <1>12. MadeOnce(chain)'
    <2>1. c \notin InitialCoins
      BY CoinAssumption DEF CoinAssumption
    <2>2. e.made \cap Known(chain, Len(chain)) = {}
      BY <1>1, <1>3, <1>4, <2>1 DEF Known, n
    <2>3. Continues(e, After(chain, Len(chain))) /\ chain' = Append(chain, e)
      BY <1>3 DEF Recorded
    <2>4. MadeOnce(Append(chain, e))
      BY <2>2, <2>3, MadeOnceGrows DEF History, Inv, ChainInv
    <2> QED
      BY <2>3, <2>4
  <1> QED
    BY <1>1, <1>3, <1>5, <1>6, <1>11, <1>12

\* the steps of the streams: one stream moves on, the chain and the transactions do not change
Moves(s) ==
  /\ chain' = chain /\ SameTxs
  /\ seen'[s] \in 0..Len(chain) /\ seen[s] <= seen'[s]
  /\ \A q \in Streams \ {s} : seen'[q] = seen[q]

LEMMA MovesFacts ==
  ASSUME History, NEW s \in Streams, Moves(s)
  PROVE  /\ TxsRight' /\ EntriesRight' /\ MadeOnce(chain)'
         /\ \A k \in DOMAIN txs : Landed(k)' = Landed(k)
  BY SameHistory DEF History, Moves

LEMMA AdvanceMoves ==
  ASSUME History, NEW s \in Streams, Advance(s)
  PROVE  Moves(s) /\ UNCHANGED txs /\ seen'[s] = seen[s] + 1 /\ seen'[s] \in 1..Len(chain)
  <1>1. /\ chain' = chain /\ seen[s] + 1 \in 1..Len(chain)
        /\ seen'[s] = seen[s] + 1 /\ \A q \in Streams \ {s} : seen'[q] = seen[q]
    BY AdvanceFacts DEF History
  <1>2. txs' = txs /\ SameTxs
    BY UnchangedTxs DEF Advance, History
  <1>3. seen[s] \in Nat /\ Len(chain) \in Nat
    BY PlacesKnown DEF History
  <1> QED
    BY <1>1, <1>2, <1>3 DEF Moves

LEMMA ImportMoves ==
  ASSUME History, NEW s \in Streams, NEW p \in 1..Len(chain), p > seen[s],
         Forget(s), AdvanceTo(s, p), UNCHANGED chain
  PROVE  /\ Moves(s) /\ seen'[s] = p
         /\ \A k \in DOMAIN txs : txs'[k].kept = txs[k].kept \ {s}
  <1>1. seen' = [seen EXCEPT ![s] = p]
    BY DEF AdvanceTo
  <1>2. \A q \in Streams : seen[q] \in Nat
    BY PlacesKnown DEF History
  <1>3. seen \in [Streams -> 0..Len(chain)] /\ Len(chain) \in Nat
    BY PlacesKnown DEF History, Inv, Places
  <1>4. SameTxs /\ \A k \in DOMAIN txs : txs'[k].kept = txs[k].kept \ {s}
    BY ForgetsFacts DEF History
  <1> QED
    BY <1>1, <1>2, <1>3, <1>4 DEF Moves

-----------------------------------------------------------------------------
(* What transactions claim of the coins, on each of the two coin streams   *)

CoinStreams == {"unshielded", "shielded"}
Part(s, cs) == IF s = "unshielded" THEN Unshielded(cs) ELSE Shielded(cs)
Free(s) == IF s = "unshielded" THEN available ELSE coins \ pendingSpends
Reached(k, s) == \E i \in Landed(k) : i <= seen[s]
Behind(k, s)  == \E i \in Landed(k) : i > seen[s]

\* a failed transaction holds its UTXOs until the stream has said so
Claim(k, s) ==
  LET t == txs[k]
  IN  Part(s, IF s = "unshielded" /\ t.fate = "failure" /\ Behind(k, s) THEN t.ins ELSE Consumed(t))

\* what a transaction claims is not free once it was reserved, or its stream has passed it
Guarded(k, s) == txs[k].kind \notin Unheld \/ Reached(k, s)

Claims(s) ==
  /\ \A j, k \in DOMAIN txs : j # k => Claim(j, s) \cap Claim(k, s) = {}
  /\ \A k \in DOMAIN txs : Claim(k, s) \subseteq Known(chain, seen[s])
  /\ \A k \in DOMAIN txs : Guarded(k, s) => Claim(k, s) \cap Free(s) = {}

LEMMA CoinStreamNames == CoinStreams \subseteq Streams /\ "dust" \notin CoinStreams
  BY DEF CoinStreams, Streams

LEMMA ClaimsShrink ==
  ASSUME NEW s \in CoinStreams, Claims(s), DOMAIN txs' = DOMAIN txs,
         \A k \in DOMAIN txs : Claim(k, s)' \subseteq Claim(k, s),
         Known(chain, seen[s]) \subseteq Known(chain', seen'[s]),
         \A k \in DOMAIN txs : Guarded(k, s)' => Claim(k, s)' \cap Free(s)' = {}
  PROVE  Claims(s)'
  BY DEF Claims

LEMMA PartFacts ==
  ASSUME NEW s, NEW a, NEW b
  PROVE  /\ Part(s, {}) = {} /\ Part(s, a) \subseteq a /\ Part(s, a \ b) = Part(s, a) \ b
         /\ a \subseteq b => Part(s, a) \subseteq Part(s, b)
         /\ Part(s, a \cup b) = Part(s, a) \cup Part(s, b)
  BY DEF Part, Unshielded, Shielded

\* what is free has been delivered
LEMMA FreeIsKnown ==
  ASSUME History, NEW s \in CoinStreams
  PROVE  Free(s) \subseteq Part(s, After(chain, seen[s])) /\ Free(s) \subseteq Known(chain, seen[s])
  <1>1. Free(s) \subseteq Part(s, After(chain, seen[s]))
    BY Accounted DEF History, Inv, CoinStreams, Free, Part
  <1>2. After(chain, seen[s]) \subseteq Known(chain, seen[s])
    BY PlacesKnown, CoinStreamNames DEF History, MadeOnce
  <1> QED
    BY <1>1, <1>2, PartFacts

\* with a careful host, what is free is claimed by no transaction
LEMMA FreeIsUnclaimed ==
  ASSUME History, "balanceAlone" \in HostRules, MayBuild, NEW s \in CoinStreams, Claims(s),
         NEW k \in DOMAIN txs
  PROVE  Claim(k, s) \cap Free(s) = {}
  <1>1. CASE Guarded(k, s)
    BY <1>1 DEF Claims
  <1>2. CASE ~Guarded(k, s)
    <2>1. Settled(k) /\ ~Reached(k, s)
      BY <1>2 DEF MayBuild, Guarded, Unheld
    <2>2. txs[k].fate = "dropped"
      BY <2>1, CoinStreamNames, PlacesKnown DEF Settled, Reached, Landed, History
    <2>3. Claim(k, s) = {}
      BY <2>2, PartFacts DEF Claim, Consumed
    <2> QED
      BY <2>3
  <1> QED
    BY <1>1, <1>2

LEMMA BuiltClaims ==
  ASSUME History, "balanceAlone" \in HostRules, NEW x, Built(x), NEW s \in CoinStreams, Claims(s)
  PROVE  Claims(s)'
  <1> DEFINE n == Len(txs) + 1
  <1>1. /\ DOMAIN txs' = DOMAIN txs \cup {n} /\ n \notin DOMAIN txs
        /\ \A k \in DOMAIN txs : txs'[k] = txs[k]
        /\ txs'[n] = x
    <2>1. /\ Len(txs) \in Nat /\ DOMAIN txs = 1..Len(txs) /\ DOMAIN txs' = 1..n
          /\ \A k \in 1..Len(txs) : txs'[k] = txs[k]
          /\ txs'[n] = x
      BY BuiltFacts DEF History
    <2> QED
      BY <2>1
  <1>2. \A k : Landed(k)' = Landed(k)
    BY BuiltHistory DEF History
  <1>3. Landed(n) = {}
    BY BuiltHistory DEF History
  <1>4. seen' = seen /\ chain' = chain /\ MayBuild
    BY DEF Built
  <1> HIDE DEF n
  <1>5. \A k \in DOMAIN txs : Claim(k, s)' = Claim(k, s) /\ Guarded(k, s)' = Guarded(k, s)
    BY <1>1, <1>2, <1>4 DEF Claim, Guarded, Reached, Behind, Part, Unshielded, Shielded, Consumed
  <1>6. Part(s, x.ins) \subseteq Free(s)
    BY DEF Built, TakesFree, Part, Free, CoinStreams
  <1>7. ASSUME NEW k, k = n
        PROVE  /\ Claim(k, s)' = Part(s, x.ins)
               /\ Guarded(k, s)' => Part(s, x.ins) \cap Free(s)' = {}
    <2>1. txs'[k] = x /\ Landed(k)' = {} /\ x.fate = "open"
      BY <1>1, <1>2, <1>3, <1>7 DEF Built
    <2>2. Claim(k, s)' = Part(s, x.ins)
      BY <2>1 DEF Claim, Consumed, Part, Unshielded, Shielded
    <2>3. Guarded(k, s)' => x.kind \notin Unheld
      BY <2>1 DEF Guarded, Reached
    <2>4. x.kind \notin Unheld => Part(s, x.ins) \cap Free(s)' = {}
      BY DEF Built, Reserve, Part, Free
    <2> QED
      BY <2>2, <2>3, <2>4
  <1>8. Free(s)' \subseteq Free(s)
    <2>1. CASE x.kind \in Unheld
      BY <2>1 DEF Built, Free, walletVars
    <2>2. CASE x.kind \notin Unheld
      BY <2>2 DEF Built, Reserve, Free
    <2> QED
      BY <2>1, <2>2
  <1>9. \A k \in DOMAIN txs : Claim(k, s) \cap Free(s) = {}
    BY <1>4, FreeIsUnclaimed
  <1>10. Free(s) \subseteq Known(chain, seen[s])
    BY FreeIsKnown
  <1>11. \A j, k \in DOMAIN txs' : j # k => Claim(j, s)' \cap Claim(k, s)' = {}
    BY <1>1, <1>5, <1>6, <1>7, <1>9 DEF Claims
  <1>12. \A k \in DOMAIN txs' : Claim(k, s)' \subseteq Known(chain', seen'[s])
    BY <1>1, <1>4, <1>5, <1>6, <1>7, <1>10 DEF Claims
  <1>13. \A k \in DOMAIN txs' : Guarded(k, s)' => Claim(k, s)' \cap Free(s)' = {}
    BY <1>1, <1>5, <1>7, <1>8 DEF Claims
  <1> QED
    BY <1>11, <1>12, <1>13 DEF Claims

\* a claim in the state that follows
LEMMA ClaimNext ==
  ASSUME NEW k, NEW s
  PROVE  Claim(k, s)' = LET t == txs'[k]
                        IN  Part(s, IF s = "unshielded" /\ t.fate = "failure" /\ Behind(k, s)'
                                    THEN t.ins ELSE Consumed(t))
  BY DEF Claim, Part, Unshielded, Shielded, Consumed

LEMMA DropClaims ==
  ASSUME History, NEW k \in DOMAIN txs, Drop(k), NEW s \in CoinStreams, Claims(s)
  PROVE  Claims(s)'
  <1>1. /\ Fated(k, "dropped") /\ \A j \in DOMAIN txs : Landed(j)' = Landed(j)
    BY DropFacts DEF History
  <1>2. UNCHANGED <<walletVars, seen, chain>>
    BY DEF Drop
  <1>3. \A j \in DOMAIN txs \ {k} : Claim(j, s)' = Claim(j, s) /\ Guarded(j, s)' = Guarded(j, s)
    BY <1>1, <1>2 DEF Fated, Claim, Guarded, Reached, Behind, Part, Unshielded, Shielded, Consumed
  <1>4. Claim(k, s)' = {}
    BY <1>1 DEF Fated, Claim, Consumed, Part, Unshielded, Shielded
  <1>5. Free(s)' = Free(s)
    BY <1>2 DEF Free, walletVars
  <1>6. \A j \in DOMAIN txs : Guarded(j, s)' => Claim(j, s)' \cap Free(s)' = {}
    BY <1>3, <1>4, <1>5 DEF Claims
  <1>7. DOMAIN txs' = DOMAIN txs /\ \A j \in DOMAIN txs : Claim(j, s)' \subseteq Claim(j, s)
    BY <1>1, <1>3, <1>4 DEF Fated
  <1> QED
    BY <1>2, <1>6, <1>7, ClaimsShrink

\* an entry is recorded: for other transactions nothing changes
LEMMA RecordedPlaces ==
  ASSUME History, NEW e, Recorded(e), NEW s \in Streams
  PROVE  /\ Known(chain, seen[s]) \subseteq Known(chain', seen'[s])
         /\ \A i \in 1..Len(chain) : i <= seen'[s] <=> i <= seen[s]
         /\ Len(chain) + 1 <= seen'[s] => s \notin Carried(e.fate, e.spent \cup e.made, e.spends)
  <1> DEFINE n == Len(chain)
  <1>1. /\ n \in Nat /\ \A p \in 0..n : Known(chain', p) = Known(chain, p)
        /\ Known(chain', n + 1) = Known(chain, n) \cup e.made
        /\ \/ seen'[s] = seen[s]
           \/ /\ seen[s] = n /\ seen'[s] = n + 1
              /\ s \notin Carried(e.fate, e.spent \cup e.made, e.spends)
    BY DEF Recorded
  <1>2. seen[s] \in 0..n
    BY PlacesKnown DEF History
  <1> HIDE DEF n
  <1>3. Known(chain, seen[s]) \subseteq Known(chain', seen'[s])
    BY <1>1, <1>2
  <1>4. \A i \in 1..n : i <= seen'[s] <=> i <= seen[s]
    BY <1>1, <1>2
  <1>5. n + 1 <= seen'[s] => s \notin Carried(e.fate, e.spent \cup e.made, e.spends)
    BY <1>1, <1>2
  <1> QED
    BY <1>3, <1>4, <1>5 DEF n

LEMMA RecordedElsewhere ==
  ASSUME History, NEW e, Recorded(e), NEW s \in Streams, NEW j \in DOMAIN txs,
         txs'[j] = txs[j], Landed(j)' = Landed(j)
  PROVE  Claim(j, s)' = Claim(j, s) /\ Guarded(j, s)' = Guarded(j, s) /\ Reached(j, s)' = Reached(j, s)
  <1>1. \A i \in Landed(j) : i <= seen'[s] <=> i <= seen[s]
    BY RecordedPlaces DEF Landed
  <1>2. \A i \in Landed(j) : i > seen'[s] <=> i > seen[s]
    <2>1. \A i \in Landed(j) : i \in Int
      BY DEF Landed
    <2>2. seen[s] \in Int /\ seen'[s] \in Int
      BY PlacesKnown DEF Recorded, History
    <2> QED
      BY <1>1, <2>1, <2>2
  <1>3. Reached(j, s)' = Reached(j, s) /\ Behind(j, s)' = Behind(j, s)
    BY <1>1, <1>2 DEF Reached, Behind
  <1> QED
    BY <1>3 DEF Claim, Guarded, Part, Unshielded, Shielded, Consumed

LEMMA IncludeClaims ==
  ASSUME History, NEW k \in DOMAIN txs, NEW fate \in Landing, Include(k, fate),
         NEW s \in CoinStreams, Claims(s)
  PROVE  Claims(s)'
  <1>1. PICK e : /\ Recorded(e) /\ e.tx = k /\ e.fate = fate /\ Fated(k, fate)
                 /\ e.spent = IF fate = "failure" THEN txs[k].ins ELSE Consumed(txs'[k])
                 /\ e.made = Made(txs'[k])
                 /\ e.spends = IF fate = "failure" THEN {} ELSE txs[k].spends
                 /\ txs[k].fate = "open"
                 /\ UNCHANGED walletVars
    BY IncludeFacts
  <1>2. /\ \A j \in DOMAIN txs \ {k} : Landed(j)' = Landed(j)
        /\ Landed(k) = {} /\ Landed(k)' = {Len(chain) + 1}
    BY <1>1, IncludeHistory
  <1>3. s \in Streams
    BY CoinStreamNames
  <1>4. \A j \in DOMAIN txs \ {k} : Claim(j, s)' = Claim(j, s) /\ Guarded(j, s)' = Guarded(j, s)
    BY <1>1, <1>2, <1>3, RecordedElsewhere DEF Fated
  <1>5. Free(s)' = Free(s)
    BY <1>1 DEF Free, walletVars
  <1>6. /\ txs'[k].fate = fate /\ txs'[k].ins = txs[k].ins /\ txs'[k].soft = txs[k].soft
        /\ txs'[k].kind = txs[k].kind /\ DOMAIN txs' = DOMAIN txs
    BY <1>1 DEF Fated
  <1>7. Consumed(txs'[k]) \subseteq txs[k].ins
    BY <1>6 DEF Consumed
  <1>8. Claim(k, s) = Part(s, txs[k].ins)
    BY <1>1 DEF Claim, Consumed
  <1>9. \/ Claim(k, s)' = Part(s, Consumed(txs'[k]))
        \/ s = "unshielded" /\ fate = "failure" /\ Behind(k, s)' /\ Claim(k, s)' = Part(s, txs[k].ins)
    BY <1>6, ClaimNext
  <1>10. Claim(k, s)' \subseteq Claim(k, s)
    <2>1. Part(s, Consumed(txs'[k])) \subseteq Part(s, txs[k].ins)
      BY <1>7 DEF Part, Unshielded, Shielded
    <2> QED
      BY <1>8, <1>9, <2>1
  <1>11. ASSUME Guarded(k, s)' PROVE Claim(k, s)' \cap Free(s)' = {}
    <2>1. CASE Guarded(k, s)
      BY <1>5, <1>10, <2>1 DEF Claims
    <2>2. CASE ~Guarded(k, s)
      <3>1. Len(chain) + 1 <= seen'[s]
        BY <1>2, <1>6, <1>11, <2>2 DEF Guarded, Reached
      <3>2. s \notin Carried(e.fate, e.spent \cup e.made, e.spends)
        BY <1>1, <1>3, <3>1, RecordedPlaces
      <3>3. Part(s, e.spent) = {} \/ (s = "shielded" /\ fate = "failure")
        BY <1>1, <3>2, NothingCarried DEF Part, CoinStreams, Unshielded, Shielded
      <3>4. ~Behind(k, s)'
        <4>1. Len(chain) \in Nat /\ seen'[s] \in Int
          BY <1>1, <1>3, PlacesKnown DEF Recorded, History
        <4> QED
          BY <1>2, <3>1, <4>1 DEF Behind
      <3>5. Claim(k, s)' = Part(s, Consumed(txs'[k]))
        BY <1>9, <3>4
      <3>6. fate = "failure" => Consumed(txs'[k]) = {}
        BY <1>6 DEF Consumed
      <3> QED
        BY <1>1, <3>3, <3>5, <3>6, PartFacts
    <2> QED
      BY <2>1, <2>2
  <1>12. \A j \in DOMAIN txs : Guarded(j, s)' => Claim(j, s)' \cap Free(s)' = {}
    BY <1>4, <1>5, <1>11 DEF Claims
  <1>13. Known(chain, seen[s]) \subseteq Known(chain', seen'[s])
    BY <1>1, <1>3, RecordedPlaces
  <1> QED
    BY <1>4, <1>6, <1>10, <1>12, <1>13, ClaimsShrink

LEMMA PayClaims ==
  ASSUME History, NEW c \in Payments, Pay(c), NEW s \in CoinStreams, Claims(s)
  PROVE  Claims(s)'
  <1>1. PICK e : Recorded(e)
    BY PayFacts
  <1>2. UNCHANGED <<walletVars, txs>> /\ \A j \in DOMAIN txs : Landed(j)' = Landed(j)
    BY PayFacts
  <1>3. s \in Streams
    BY CoinStreamNames
  <1>4. \A j \in DOMAIN txs : Claim(j, s)' = Claim(j, s) /\ Guarded(j, s)' = Guarded(j, s)
    BY <1>1, <1>2, <1>3, RecordedElsewhere
  <1>5. Free(s)' = Free(s) /\ DOMAIN txs' = DOMAIN txs
    BY <1>2 DEF Free, walletVars
  <1>6. Known(chain, seen[s]) \subseteq Known(chain', seen'[s])
    BY <1>1, <1>3, RecordedPlaces
  <1>7. \A j \in DOMAIN txs : Guarded(j, s)' => Claim(j, s)' \cap Free(s)' = {}
    BY <1>4, <1>5 DEF Claims
  <1> QED
    BY <1>4, <1>5, <1>6, <1>7, ClaimsShrink

LEMMA StillMoves ==
  ASSUME History, UNCHANGED <<seen, chain, txs>>, NEW s \in Streams PROVE Moves(s)
  <1>1. SameTxs
    BY UnchangedTxs DEF History
  <1>2. \A q \in Streams : seen[q] \in 0..Len(chain)
    BY PlacesKnown DEF History
  <1> QED
    BY <1>1, <1>2 DEF Moves

\* what a transaction consumes, was made to reserve and has on chain does not change with a stream
LEMMA MovesKeepTxs ==
  ASSUME History, NEW q \in Streams, Moves(q), NEW k \in DOMAIN txs
  PROVE  /\ Consumed(txs'[k]) = Consumed(txs[k]) /\ txs'[k].kind = txs[k].kind
         /\ txs'[k].fate = txs[k].fate /\ txs'[k].ins = txs[k].ins
         /\ DOMAIN txs' = DOMAIN txs /\ Landed(k)' = Landed(k)
  <1>1. DOMAIN txs' = DOMAIN txs /\ Alike(txs[k], txs'[k])
    BY DEF Moves, SameTxs
  <1>2. Consumed(txs'[k]) = Consumed(txs[k])
    BY <1>1, AlikeFacts
  <1>3. Landed(k)' = Landed(k)
    BY MovesFacts
  <1> QED
    BY <1>1, <1>2, <1>3 DEF Alike

LEMMA MovesKnow ==
  ASSUME History, NEW q \in Streams, Moves(q), NEW s \in Streams
  PROVE  Known(chain, seen[s]) \subseteq Known(chain', seen'[s])
  <1>1. seen[s] \in Nat /\ seen'[s] \in Nat /\ seen[s] <= seen'[s] /\ chain' = chain
    BY PlacesKnown DEF History, Moves
  <1> QED
    BY <1>1, KnownGrows

LEMMA OthersMove ==
  ASSUME History, NEW q \in Streams, Moves(q), NEW s \in CoinStreams, s # q, Claims(s),
         Free(s)' \subseteq Free(s)
  PROVE  Claims(s)'
  <1>1. s \in Streams /\ seen'[s] = seen[s]
    BY CoinStreamNames DEF Moves
  <1>2. ASSUME NEW k \in DOMAIN txs PROVE Claim(k, s)' = Claim(k, s) /\ Guarded(k, s)' = Guarded(k, s)
    <2>1. /\ Consumed(txs'[k]) = Consumed(txs[k]) /\ txs'[k].kind = txs[k].kind
          /\ txs'[k].fate = txs[k].fate /\ txs'[k].ins = txs[k].ins /\ Landed(k)' = Landed(k)
      BY MovesKeepTxs
    <2>2. Reached(k, s)' = Reached(k, s) /\ Behind(k, s)' = Behind(k, s)
      BY <1>1, <2>1 DEF Reached, Behind
    <2>3. Guarded(k, s)' = Guarded(k, s)
      BY <2>1, <2>2 DEF Guarded
    <2>4. Claim(k, s)' = Claim(k, s)
      BY <2>1, <2>2, ClaimNext DEF Claim
    <2> QED
      BY <2>3, <2>4
  <1>3. DOMAIN txs' = DOMAIN txs
    BY DEF Moves, SameTxs
  <1>4. \A k \in DOMAIN txs : Guarded(k, s)' => Claim(k, s)' \cap Free(s)' = {}
    BY <1>2 DEF Claims
  <1>5. Known(chain, seen[s]) \subseteq Known(chain', seen'[s])
    BY <1>1, MovesKnow
  <1> QED
    BY <1>2, <1>3, <1>4, <1>5, ClaimsShrink

\* a stream delivers the entry of a transaction
LEMMA DeliveredClaims ==
  ASSUME History, NEW s \in CoinStreams, Moves(s), seen'[s] = seen[s] + 1, Claims(s),
         NEW e, e = chain[seen'[s]], seen'[s] \in 1..Len(chain),
         e.fate = "failure" =>
           Free(s)' \subseteq Free(s) \cup (IF s = "unshielded" THEN Part(s, e.spent) ELSE {}),
         e.fate # "failure" => Free(s)' \subseteq (Free(s) \ e.spent) \cup e.made
  PROVE  Claims(s)'
  <1> DEFINE i == seen'[s]
  <1>1. s \in Streams /\ seen[s] \in Nat /\ i \in Nat /\ i = seen[s] + 1 /\ i - 1 = seen[s]
    BY CoinStreamNames, PlacesKnown DEF History
  <1>2. e.made \cap Known(chain, seen[s]) = {}
    <2>1. chain[i].made \cap Known(chain, i - 1) = {}
      BY DEF History, MadeOnce
    <2> QED
      BY <1>1, <2>1
  <1>3. i \in DOMAIN chain /\ e = chain[i]
    BY PlacesKnown DEF History
  <1> HIDE DEF i
  <1>4. ASSUME NEW k \in DOMAIN txs, e.tx # k
        PROVE  Claim(k, s)' = Claim(k, s) /\ Guarded(k, s)' = Guarded(k, s)
    <2>1. /\ Consumed(txs'[k]) = Consumed(txs[k]) /\ txs'[k].kind = txs[k].kind
          /\ txs'[k].fate = txs[k].fate /\ txs'[k].ins = txs[k].ins /\ Landed(k)' = Landed(k)
      BY <1>1, MovesKeepTxs
    <2>2. \A l \in Landed(k) : l \in Int /\ l # i
      BY <1>3, <1>4 DEF Landed
    <2>3. Reached(k, s)' = Reached(k, s) /\ Behind(k, s)' = Behind(k, s)
      <3>1. \A l \in Landed(k) : (l <= seen'[s] <=> l <= seen[s]) /\ (l > seen'[s] <=> l > seen[s])
        BY <1>1, <2>2 DEF i
      <3> QED
        BY <2>1, <3>1 DEF Reached, Behind
    <2>4. Guarded(k, s)' = Guarded(k, s)
      BY <2>1, <2>3 DEF Guarded
    <2>5. Claim(k, s)' = Claim(k, s)
      BY <2>1, <2>3, ClaimNext DEF Claim
    <2> QED
      BY <2>4, <2>5
  <1>5. ASSUME NEW k \in DOMAIN txs, e.tx = k
        PROVE  /\ Claim(k, s) = Part(s, e.spent) \/ (s = "shielded" /\ e.fate = "failure")
               /\ Claim(k, s)' = IF e.fate = "failure" THEN {} ELSE Part(s, e.spent)
    <2>1. /\ Consumed(txs'[k]) = Consumed(txs[k]) /\ txs'[k].kind = txs[k].kind
          /\ txs'[k].fate = txs[k].fate /\ txs'[k].ins = txs[k].ins /\ Landed(k)' = Landed(k)
      BY <1>1, MovesKeepTxs
    <2>2. k # 0
      BY TxsKnown DEF History
    <2>3. e.fate = txs[k].fate /\ e.spent = IF e.fate = "failure" THEN txs[k].ins ELSE Consumed(txs[k])
      BY <1>3, <1>5, <2>2 DEF History, EntriesRight, EntryRight
    <2>4. Landed(k) = {i}
      <3>1. \A l \in DOMAIN chain : chain[l].tx = k => l = i
        BY <1>3, <1>5, <2>2 DEF History, EntriesRight
      <3> QED
        BY <1>3, <1>5, <3>1, PlacesKnown DEF Landed, History
    <2>5. Behind(k, s) /\ ~Behind(k, s)'
      BY <1>1, <2>1, <2>4 DEF Behind, i
    <2>6. e.fate = "failure" => Consumed(txs[k]) = {}
      BY <2>3 DEF Consumed
    <2>7. Claim(k, s)' = Part(s, Consumed(txs[k]))
      BY <2>1, <2>5, ClaimNext
    <2>8. s = "shielded" \/ s = "unshielded"
      BY DEF CoinStreams
    <2>9. Claim(k, s) = Part(s, e.spent) \/ (s = "shielded" /\ e.fate = "failure")
      BY <2>3, <2>5, <2>8 DEF Claim
    <2> QED
      BY <2>3, <2>6, <2>7, <2>9, PartFacts
  <1>6. ASSUME NEW k \in DOMAIN txs PROVE Claim(k, s)' \subseteq Claim(k, s)
    BY <1>4, <1>5
  <1>7. ASSUME NEW k \in DOMAIN txs, Guarded(k, s)' PROVE Claim(k, s)' \cap Free(s)' = {}
    <2>1. Claim(k, s)' \subseteq Known(chain, seen[s])
      BY <1>6 DEF Claims
    <2>2. CASE e.tx # k
      <3>1. Claim(k, s) \cap Free(s) = {} /\ Claim(k, s)' = Claim(k, s)
        BY <1>4, <1>7, <2>2 DEF Claims
      <3>2. CASE e.fate # "failure"
        BY <1>2, <2>1, <3>1, <3>2
      <3>3. CASE e.fate = "failure" /\ s = "unshielded"
        <4>1. e.tx # 0 /\ e.tx \in DOMAIN txs
          <5>1. EntryRight(e)
            BY <1>3 DEF History, EntriesRight
          <5> QED
            BY <3>3, <5>1 DEF EntryRight
        <4>2. PICK j \in DOMAIN txs : e.tx = j
          BY <4>1
        <4>3. Claim(j, s) = Part(s, e.spent)
          BY <1>5, <3>3, <4>2
        <4>4. Claim(k, s) \cap Claim(j, s) = {}
          BY <2>2, <4>2 DEF Claims
        <4> QED
          BY <3>1, <3>3, <4>3, <4>4
      <3>4. CASE e.fate = "failure" /\ s # "unshielded"
        BY <3>1, <3>4
      <3> QED
        BY <3>2, <3>3, <3>4
    <2>3. CASE e.tx = k /\ e.fate = "failure"
      BY <1>5, <2>3
    <2>4. CASE e.tx = k /\ e.fate # "failure"
      <3>1. Claim(k, s)' = Part(s, e.spent)
        BY <1>5, <2>4
      <3>2. Part(s, e.spent) \subseteq e.spent
        BY DEF Part, Unshielded, Shielded
      <3> QED
        BY <1>2, <2>1, <2>4, <3>1, <3>2
    <2> QED
      BY <2>2, <2>3, <2>4
  <1>8. DOMAIN txs' = DOMAIN txs
    BY DEF Moves, SameTxs
  <1>9. Known(chain, seen[s]) \subseteq Known(chain', seen'[s])
    BY <1>1, MovesKnow
  <1> QED
    BY <1>6, <1>7, <1>8, <1>9, ClaimsShrink

LEMMA ApplyUnshieldedClaims ==
  ASSUME History, ApplyUnshielded, NEW s \in CoinStreams, Claims(s) PROVE Claims(s)'
  <1> DEFINE e == chain[seen["unshielded"] + 1]
  <1>1. Advance("unshielded") /\ UNCHANGED <<coins, pendingSpends>>
    BY DEF ApplyUnshielded
  <1>2. /\ Moves("unshielded") /\ seen'["unshielded"] = seen["unshielded"] + 1
        /\ seen'["unshielded"] \in 1..Len(chain)
    BY <1>1, StreamNames, AdvanceMoves
  <1>3. e = chain[seen'["unshielded"]]
    BY <1>2
  <1>4. CASE s = "unshielded"
    <2>1. e.fate = "failure" => Free(s)' \subseteq Free(s) \cup Part(s, e.spent)
      BY <1>4 DEF ApplyUnshielded, Free, Part
    <2>2. e.fate # "failure" => Free(s)' \subseteq (Free(s) \ e.spent) \cup e.made
      BY <1>4 DEF ApplyUnshielded, Free, Unshielded
    <2> HIDE DEF e
    <2> QED
      BY <1>2, <1>3, <1>4, <2>1, <2>2, DeliveredClaims
  <1>5. CASE s # "unshielded"
    <2>1. Free(s)' = Free(s)
      BY <1>1, <1>5 DEF Free
    <2> QED
      BY <1>2, <1>5, <2>1, StreamNames, OthersMove
  <1> QED
    BY <1>4, <1>5

LEMMA ApplyShieldedClaims ==
  ASSUME History, ApplyShielded, NEW s \in CoinStreams, Claims(s) PROVE Claims(s)'
  <1> DEFINE e == chain[seen["shielded"] + 1]
  <1>1. Advance("shielded") /\ UNCHANGED available
    BY DEF ApplyShielded
  <1>2. /\ Moves("shielded") /\ seen'["shielded"] = seen["shielded"] + 1
        /\ seen'["shielded"] \in 1..Len(chain)
    BY <1>1, StreamNames, AdvanceMoves
  <1>3. e = chain[seen'["shielded"]]
    BY <1>2
  <1>4. CASE s = "shielded"
    <2>1. e.fate = "failure" => Free(s)' \subseteq Free(s)
      BY <1>4 DEF ApplyShielded, Free
    <2>2. e.fate # "failure" => Free(s)' \subseteq (Free(s) \ e.spent) \cup e.made
      BY <1>4 DEF ApplyShielded, Free, Shielded
    <2> HIDE DEF e
    <2> QED
      BY <1>2, <1>3, <1>4, <2>1, <2>2, DeliveredClaims
  <1>5. CASE s # "shielded"
    <2>1. Free(s)' = Free(s)
      BY <1>1, <1>5 DEF Free, CoinStreams
    <2> QED
      BY <1>2, <1>5, <2>1, StreamNames, OthersMove
  <1> QED
    BY <1>4, <1>5

\* steps that leave chain, places and transactions alone, and free no coin
LEMMA StillClaims ==
  ASSUME History, UNCHANGED <<seen, chain, txs>>, NEW s \in CoinStreams, Claims(s),
         Free(s)' \subseteq Free(s)
  PROVE  Claims(s)'
  BY StreamNames, CoinStreamNames, StillMoves, OthersMove

LEMMA SpentResponseClaims ==
  ASSUME History, ApplyShieldedSpentResponse, NEW s \in CoinStreams, Claims(s) PROVE Claims(s)'
  <1>1. Free(s)' \subseteq Free(s)
    BY DEF ApplyShieldedSpentResponse, Free
  <1>2. UNCHANGED <<seen, chain, txs>>
    BY DEF ApplyShieldedSpentResponse
  <1> QED
    BY <1>1, <1>2, StillClaims

\* an idle host imports what no transaction on chain has spent
LEMMA IdleTxs ==
  ASSUME History, "importIdle" \in HostRules, NEW p \in 1..Len(chain), MayImport(p),
         NEW k \in DOMAIN txs
  PROVE  /\ txs[k].fate # "open"
         /\ txs[k].fate \in Landing => \E i \in Landed(k) : i <= p /\ EntryRight(chain[i])
  <1>1. txs[k].fate # "open" /\ \A i \in p + 1 .. Len(chain) : chain[i].tx = 0
    BY DEF MayImport
  <1>2. k # 0
    BY TxsKnown DEF History
  <1>3. ASSUME NEW i \in Landed(k) PROVE i <= p /\ EntryRight(chain[i])
    BY <1>1, <1>2, PlacesKnown DEF Landed, History, EntriesRight
  <1> QED
    BY <1>1, <1>3 DEF History, EntriesRight

LEMMA ImportShieldedClaims ==
  ASSUME History, "importIdle" \in HostRules, NEW p \in 1..Len(chain), ImportShielded(p),
         NEW s \in CoinStreams, Claims(s)
  PROVE  Claims(s)'
  <1>1. /\ p > seen["shielded"] /\ MayImport(p)
        /\ coins' = Shielded(After(chain, p)) /\ pendingSpends' = {}
        /\ Forget("shielded") /\ AdvanceTo("shielded", p) /\ UNCHANGED <<available, chain>>
    BY DEF ImportShielded, Unspent, After
  <1>2. Moves("shielded") /\ seen'["shielded"] = p
    BY <1>1, StreamNames, ImportMoves
  <1>3. CASE s # "shielded"
    <2>1. Free(s)' = Free(s)
      BY <1>1, <1>3 DEF Free, CoinStreams
    <2> QED
      BY <1>2, <1>3, <2>1, StreamNames, OthersMove
  <1>4. CASE s = "shielded"
    <2>1. Free(s)' \subseteq After(chain, p)
      BY <1>1, <1>4 DEF Free, Shielded
    <2>2. ASSUME NEW k \in DOMAIN txs
          PROVE  Claim(k, s)' \subseteq Claim(k, s) /\ Claim(k, s)' \cap Free(s)' = {}
      <3> DEFINE t == txs[k]
      <3>1. Consumed(txs'[k]) = Consumed(t)
        BY <1>2, StreamNames, MovesKeepTxs
      <3>2. Claim(k, s)' = Part(s, Consumed(t)) /\ Claim(k, s) = Part(s, Consumed(t))
        BY <1>4, <3>1, ClaimNext DEF Claim
      <3>3. Consumed(t) \cap After(chain, p) = {}
        <4>1. CASE t.fate \notin {"success", "partial"}
          BY <1>1, <4>1, IdleTxs DEF Consumed
        <4>2. CASE t.fate \in {"success", "partial"}
          <5>1. PICK i \in Landed(k) : i <= p /\ EntryRight(chain[i])
            BY <1>1, <4>2, IdleTxs DEF Landing
          <5>2. k # 0 /\ i \in 1..Len(chain) /\ chain[i].tx = k /\ p \in i..Len(chain)
            BY <5>1, TxsKnown, PlacesKnown DEF Landed, History
          <5>3. chain[i].fate = t.fate /\ chain[i].fate # "failure" /\ chain[i].spent = Consumed(t)
            BY <4>2, <5>1, <5>2 DEF EntryRight
          <5>4. chain[i].spent \cap After(chain, p) = {}
            BY <5>2, <5>3 DEF History, MadeOnce
          <5> QED
            BY <5>3, <5>4
        <4> QED
          BY <4>1, <4>2
      <3>4. Part(s, Consumed(t)) \subseteq Consumed(t)
        BY DEF Part, Unshielded, Shielded
      <3> HIDE DEF t
      <3> QED
        BY <2>1, <3>2, <3>3, <3>4
    <2>3. DOMAIN txs' = DOMAIN txs
      BY <1>2 DEF Moves, SameTxs
    <2>4. Known(chain, seen[s]) \subseteq Known(chain', seen'[s])
      BY <1>2, StreamNames, CoinStreamNames, MovesKnow
    <2> QED
      BY <2>2, <2>3, <2>4, ClaimsShrink
  <1> QED
    BY <1>3, <1>4

-----------------------------------------------------------------------------
(* DUST: the sequence number of a coin counts its spends on chain          *)

Touches(e, d) == \E s \in e.spends : s.night = d
Spent(c, d, p) == {i \in 1..p : Touches(c[i], d)}
SeqAt(c, d, p) == Cardinality(Spent(c, d, p))

Alive(t) == t.fate \in {"open", "success", "partial"}
IsDust(x) == x = [seq |-> x.seq, worth |-> x.worth, pending |-> x.pending]

DustInv ==
  /\ dust = [d \in Nights |-> dust[d]] /\ \A d \in Nights : IsDust(dust[d])
  /\ \A i \in 1..Len(chain) : \A s \in chain[i].spends :
        s.night \in Nights /\ s.seq = SeqAt(chain, s.night, i - 1)
  /\ \A d \in Nights : dust[d].seq = SeqAt(chain, d, seen["dust"])
  /\ \A k \in DOMAIN txs : \A s \in txs[k].spends : s.night \in Nights /\ s.seq \in Nat
  /\ \A j, k \in DOMAIN txs : j # k => DustConsumed(txs[j]) \cap DustConsumed(txs[k]) = {}
  /\ \A k \in DOMAIN txs : Alive(txs[k]) =>
        \A s \in txs[k].spends :
           /\ s.seq <= dust[s.night].seq
           /\ txs[k].kind \notin Unheld /\ s.seq = dust[s.night].seq => dust[s.night].pending

LEMMA SeqIsNat ==
  ASSUME NEW c, NEW d, NEW p \in Nat
  PROVE  IsFiniteSet(Spent(c, d, p)) /\ SeqAt(c, d, p) \in Nat
  <1>1. IsFiniteSet(1..p)
    BY FS_Interval
  <1>2. Spent(c, d, p) \subseteq 1..p
    BY DEF Spent
  <1>3. IsFiniteSet(Spent(c, d, p))
    BY <1>1, <1>2, FS_Subset
  <1> QED
    BY <1>3, FS_CardinalityType DEF SeqAt

LEMMA SeqGrows ==
  ASSUME NEW c, NEW d, NEW p \in Nat, NEW q \in Nat, p <= q
  PROVE  SeqAt(c, d, p) <= SeqAt(c, d, q)
  <1>1. Spent(c, d, p) \subseteq Spent(c, d, q)
    BY DEF Spent
  <1> QED
    BY <1>1, SeqIsNat, FS_Subset DEF SeqAt

LEMMA SeqNext ==
  ASSUME NEW c, NEW d, NEW p \in Nat
  PROVE  /\ Touches(c[p + 1], d) => SeqAt(c, d, p + 1) = SeqAt(c, d, p) + 1
         /\ ~Touches(c[p + 1], d) => SeqAt(c, d, p + 1) = SeqAt(c, d, p)
  <1>1. 1..(p + 1) = 1..p \cup {p + 1} /\ p + 1 \notin 1..p
    OBVIOUS
  <1>2. ASSUME Touches(c[p + 1], d) PROVE SeqAt(c, d, p + 1) = SeqAt(c, d, p) + 1
    <2>1. Spent(c, d, p + 1) = Spent(c, d, p) \cup {p + 1} /\ p + 1 \notin Spent(c, d, p)
      BY <1>1, <1>2 DEF Spent
    <2> QED
      BY <2>1, SeqIsNat, FS_AddElement DEF SeqAt
  <1>3. ASSUME ~Touches(c[p + 1], d) PROVE SeqAt(c, d, p + 1) = SeqAt(c, d, p)
    <2>1. Spent(c, d, p + 1) = Spent(c, d, p)
      BY <1>1, <1>3 DEF Spent
    <2> QED
      BY <2>1 DEF SeqAt
  <1> QED
    BY <1>2, <1>3

LEMMA SeqPrefix ==
  ASSUME NEW b, NEW c, NEW d, NEW p \in Nat, \A i \in 1..p : b[i] = c[i]
  PROVE  SeqAt(b, d, p) = SeqAt(c, d, p)
  <1>1. Spent(b, d, p) = Spent(c, d, p)
    BY DEF Spent
  <1> QED
    BY <1>1 DEF SeqAt

\* a transaction that stands on chain has spent its DUST there
LEMMA LandedSpends ==
  ASSUME History, DustInv, NEW k \in DOMAIN txs, Alive(txs[k]), NEW i \in Landed(k),
         NEW p \in Nat, i <= p, NEW s \in txs[k].spends
  PROVE  s.seq \in Nat /\ s.seq + 1 <= SeqAt(chain, s.night, p)
  <1>1. k # 0 /\ i \in 1..Len(chain) /\ i \in DOMAIN chain /\ chain[i].tx = k
    BY TxsKnown, PlacesKnown DEF Landed, History
  <1>2. EntryRight(chain[i])
    BY <1>1 DEF History, EntriesRight
  <1>3. chain[i].spends = txs[k].spends
    BY <1>1, <1>2 DEF EntryRight, Alive
  <1>4. s.seq = SeqAt(chain, s.night, i - 1) /\ Touches(chain[i], s.night)
    BY <1>1, <1>3 DEF DustInv, Touches
  <1>5. i - 1 \in Nat /\ (i - 1) + 1 = i /\ i \in Nat
    BY <1>1
  <1>6. SeqAt(chain, s.night, i) = s.seq + 1 /\ s.seq \in Nat
    BY <1>4, <1>5, SeqNext, SeqIsNat
  <1> QED
    BY <1>5, <1>6, SeqGrows

\* with a careful host, DUST that is not pending is spent by no transaction
LEMMA FreeDust ==
  ASSUME History, DustInv, "balanceAlone" \in HostRules, MayBuild,
         NEW k \in DOMAIN txs, Alive(txs[k]), NEW s \in txs[k].spends,
         s.seq = dust[s.night].seq
  PROVE  dust[s.night].pending
  <1>1. CASE txs[k].kind \notin Unheld
    BY <1>1 DEF DustInv
  <1>2. CASE txs[k].kind \in Unheld
    <2>1. Settled(k)
      BY <1>2 DEF MayBuild, Unheld
    <2>2. PICK i \in Landed(k) : seen["dust"] >= i
      BY <2>1, StreamNames DEF Settled, Alive
    <2>3. seen["dust"] \in Nat /\ i \in Int
      BY PlacesKnown, StreamNames DEF Landed, History
    <2>4. s.seq \in Nat /\ s.seq + 1 <= SeqAt(chain, s.night, seen["dust"])
      BY <2>2, <2>3, LandedSpends
    <2>5. SeqAt(chain, s.night, seen["dust"]) = dust[s.night].seq
      BY DEF DustInv
    <2> QED
      BY <2>4, <2>5
  <1> QED
    BY <1>1, <1>2

\* the DUST state as a function of records
DustShape == dust = [d \in Nights |-> dust[d]] /\ \A d \in Nights : IsDust(dust[d])

LEMMA ReserveDust ==
  ASSUME DustShape, NEW offer, NEW spends, Reserve(offer, spends)
  PROVE  /\ DustShape'
         /\ \A d \in Nights : /\ dust'[d].seq = dust[d].seq
                              /\ dust[d].pending => dust'[d].pending
                              /\ (\E s \in spends : s.night = d) => dust'[d].pending
  <1> DEFINE Used(d) == \E s \in spends : s.night = d
             Next1(d) == [seq |-> dust[d].seq, worth |-> dust[d].worth,
                          pending |-> dust[d].pending \/ Used(d)]
  <1>1. dust' = [d \in Nights |-> [dust[d] EXCEPT !.pending = dust[d].pending \/ Used(d)]]
    BY DEF Reserve
  <1> HIDE DEF Used
  <1>2. ASSUME NEW d \in Nights PROVE [dust[d] EXCEPT !.pending = dust[d].pending \/ Used(d)] = Next1(d)
    BY DEF DustShape, IsDust
  <1>3. dust' = [d \in Nights |-> Next1(d)]
    BY <1>1, <1>2
  <1>4. \A d \in Nights : dust'[d] = Next1(d)
    BY <1>3
  <1>5. \A d \in Nights : /\ IsDust(Next1(d)) /\ Next1(d).seq = dust[d].seq
                          /\ (dust[d].pending => Next1(d).pending) /\ (Used(d) => Next1(d).pending)
    BY DEF IsDust
  <1> HIDE DEF Next1
  <1>6. DustShape'
    BY <1>3, <1>4, <1>5 DEF DustShape
  <1> QED
    BY <1>4, <1>5, <1>6 DEF Used

LEMMA BuiltDust ==
  ASSUME History, DustInv, "balanceAlone" \in HostRules, NEW x, Built(x)
  PROVE  DustInv'
  <1> DEFINE n == Len(txs) + 1
  <1>1. /\ DOMAIN txs' = DOMAIN txs \cup {n} /\ n \notin DOMAIN txs
        /\ \A k \in DOMAIN txs : txs'[k] = txs[k]
        /\ txs'[n] = x
    <2>1. /\ Len(txs) \in Nat /\ DOMAIN txs = 1..Len(txs) /\ DOMAIN txs' = 1..n
          /\ \A k \in 1..Len(txs) : txs'[k] = txs[k]
          /\ txs'[n] = x
      BY BuiltFacts DEF History
    <2> QED
      BY <2>1
  <1> HIDE DEF n
  <1>2. seen' = seen /\ chain' = chain /\ MayBuild /\ x.fate = "open"
    BY DEF Built
  <1>3. \A s \in x.spends : s.night \in Nights /\ ~dust[s.night].pending /\ s.seq = dust[s.night].seq
    BY DEF Built, TakesDust
  <1>4. /\ DustShape'
        /\ \A d \in Nights : /\ dust'[d].seq = dust[d].seq
                             /\ dust[d].pending => dust'[d].pending
                             /\ x.kind \notin Unheld /\ (\E s \in x.spends : s.night = d) => dust'[d].pending
    <2>1. CASE x.kind \in Unheld
      BY <2>1 DEF Built, walletVars, DustInv, DustShape
    <2>2. CASE x.kind \notin Unheld
      BY <2>2, ReserveDust DEF Built, DustInv, DustShape
    <2> QED
      BY <2>1, <2>2
  <1>5. \A i \in 1..Len(chain') : \A s \in chain'[i].spends :
           s.night \in Nights /\ s.seq = SeqAt(chain', s.night, i - 1)
    BY <1>2 DEF DustInv
  <1>6. \A d \in Nights : dust'[d].seq = SeqAt(chain', d, seen'["dust"])
    BY <1>2, <1>4 DEF DustInv
  <1>7. \A k \in DOMAIN txs' : \A s \in txs'[k].spends : s.night \in Nights /\ s.seq \in Nat
    <2>1. \A d \in Nights : dust[d].seq \in Nat
      BY SeqIsNat, PlacesKnown, StreamNames DEF DustInv, History
    <2> QED
      BY <1>1, <1>3, <2>1 DEF DustInv
  <1>8. ASSUME NEW k \in DOMAIN txs PROVE DustConsumed(txs[k]) \cap DustConsumed(x) = {}
    <2>1. ASSUME NEW s \in txs[k].spends, NEW r \in x.spends, Alive(txs[k]),
                 <<s.night, s.seq>> = <<r.night, r.seq>>
          PROVE  FALSE
      <3>1. s.night = r.night /\ s.seq = dust[s.night].seq /\ ~dust[s.night].pending
        BY <1>3, <2>1
      <3> QED
        BY <1>2, <2>1, <3>1, FreeDust
    <2> QED
      BY <2>1 DEF DustConsumed, Alive
  <1>9. \A j, k \in DOMAIN txs' : j # k => DustConsumed(txs'[j]) \cap DustConsumed(txs'[k]) = {}
    BY <1>1, <1>8 DEF DustInv
  <1>10. ASSUME NEW k \in DOMAIN txs', Alive(txs'[k]), NEW s \in txs'[k].spends
         PROVE  /\ s.seq <= dust'[s.night].seq
                /\ txs'[k].kind \notin Unheld /\ s.seq = dust'[s.night].seq => dust'[s.night].pending
    <2>1. CASE k = n
      <3>1. s.seq = dust'[s.night].seq /\ s.night \in Nights
        BY <1>1, <1>3, <1>4, <1>10, <2>1
      <3>2. dust'[s.night].seq \in Int
        BY <1>2, <1>6, <3>1, SeqIsNat, PlacesKnown, StreamNames DEF History
      <3> QED
        BY <1>1, <1>4, <1>10, <2>1, <3>1, <3>2
    <2>2. CASE k \in DOMAIN txs
      <3>1. txs'[k] = txs[k] /\ s.night \in Nights
        BY <1>1, <1>10, <2>2 DEF DustInv
      <3>2. /\ s.seq <= dust[s.night].seq
            /\ txs[k].kind \notin Unheld /\ s.seq = dust[s.night].seq => dust[s.night].pending
        BY <1>10, <2>2, <3>1 DEF DustInv
      <3> QED
        BY <1>4, <3>1, <3>2
    <2> QED
      BY <1>1, <2>1, <2>2
  <1> QED
    BY <1>4, <1>5, <1>6, <1>7, <1>9, <1>10 DEF DustInv, DustShape, SeqAt, Spent, Touches, DustConsumed, Alive, IsDust

\* the entries and the wallet count alike
CountedAlike ==
  /\ \A i \in 1..Len(chain) : \A s \in chain[i].spends :
        s.night \in Nights /\ s.seq = SeqAt(chain, s.night, i - 1)
  /\ \A d \in Nights : dust[d].seq = SeqAt(chain, d, seen["dust"])

LEMMA DustNext ==
  ASSUME DustInv, DustShape', CountedAlike', DOMAIN txs' = DOMAIN txs,
         \A k \in DOMAIN txs : /\ txs'[k].spends = txs[k].spends /\ txs'[k].kind = txs[k].kind
                               /\ Alive(txs'[k]) => Alive(txs[k]),
         \A k \in DOMAIN txs : Alive(txs'[k]) => \A s \in txs[k].spends :
             /\ s.seq <= dust'[s.night].seq
             /\ txs[k].kind \notin Unheld /\ s.seq = dust'[s.night].seq => dust'[s.night].pending
  PROVE  DustInv'
  <1>1. \A k \in DOMAIN txs : DustConsumed(txs'[k]) \subseteq DustConsumed(txs[k])
    BY DEF DustConsumed, Alive
  <1>2. \A j, k \in DOMAIN txs' : j # k => DustConsumed(txs'[j]) \cap DustConsumed(txs'[k]) = {}
    BY <1>1 DEF DustInv
  <1>3. \A k \in DOMAIN txs' : \A s \in txs'[k].spends : s.night \in Nights /\ s.seq \in Nat
    BY DEF DustInv
  <1>4. \A k \in DOMAIN txs' : Alive(txs'[k]) =>
          \A s \in txs'[k].spends :
             /\ s.seq <= dust'[s.night].seq
             /\ txs'[k].kind \notin Unheld /\ s.seq = dust'[s.night].seq => dust'[s.night].pending
    OBVIOUS
  <1> QED
    BY <1>2, <1>3, <1>4 DEF DustInv, DustShape, CountedAlike, SeqAt, Spent, Touches, DustConsumed, Alive, IsDust

\* steps that leave the DUST alone
LEMMA SameDust ==
  ASSUME DustInv, UNCHANGED dust, CountedAlike', DOMAIN txs' = DOMAIN txs,
         \A k \in DOMAIN txs : /\ txs'[k].spends = txs[k].spends /\ txs'[k].kind = txs[k].kind
                               /\ Alive(txs'[k]) => Alive(txs[k])
  PROVE  DustInv'
  <1>1. DustShape'
    BY DEF DustInv, DustShape
  <1>2. \A k \in DOMAIN txs : Alive(txs'[k]) => \A s \in txs[k].spends :
             /\ s.seq <= dust'[s.night].seq
             /\ txs[k].kind \notin Unheld /\ s.seq = dust'[s.night].seq => dust'[s.night].pending
    BY DEF DustInv
  <1> QED
    BY <1>1, <1>2, DustNext

LEMMA SameCount ==
  ASSUME DustInv, UNCHANGED <<dust, chain>>, seen'["dust"] = seen["dust"]
  PROVE  CountedAlike'
  <1>1. \A i \in 1..Len(chain') : \A s \in chain'[i].spends :
           s.night \in Nights /\ s.seq = SeqAt(chain', s.night, i - 1)
    BY DEF DustInv
  <1>2. \A d \in Nights : dust'[d].seq = SeqAt(chain', d, seen'["dust"])
    BY DEF DustInv
  <1> QED
    BY <1>1, <1>2 DEF CountedAlike, SeqAt, Spent, Touches

LEMMA MovesAlive ==
  ASSUME NEW q, Moves(q)
  PROVE  /\ DOMAIN txs' = DOMAIN txs
         /\ \A k \in DOMAIN txs : /\ txs'[k].spends = txs[k].spends /\ txs'[k].kind = txs[k].kind
                                  /\ Alive(txs'[k]) => Alive(txs[k])
  BY DEF Moves, SameTxs, Alike, Alive

\* another stream moves
LEMMA OthersMoveDust ==
  ASSUME DustInv, NEW q \in Streams, q # "dust", Moves(q), UNCHANGED dust PROVE DustInv'
  <1>1. chain' = chain /\ seen'["dust"] = seen["dust"]
    BY StreamNames DEF Moves
  <1> QED
    BY <1>1, SameCount, MovesAlive, SameDust

LEMMA DropDust ==
  ASSUME History, DustInv, NEW k \in DOMAIN txs, Drop(k) PROVE DustInv'
  <1>1. UNCHANGED <<dust, chain, seen>>
    BY DEF Drop, walletVars
  <1>2. Fated(k, "dropped")
    BY DropFacts DEF History
  <1>3. \A j \in DOMAIN txs : /\ txs'[j].spends = txs[j].spends /\ txs'[j].kind = txs[j].kind
                              /\ Alive(txs'[j]) => Alive(txs[j])
    BY <1>2 DEF Fated, Alive
  <1>4. DOMAIN txs' = DOMAIN txs
    BY <1>2 DEF Fated
  <1> QED
    BY <1>1, <1>3, <1>4, SameCount, SameDust

LEMMA RecordedCount ==
  ASSUME History, DustInv, NEW e, Recorded(e), UNCHANGED dust,
         \A s \in e.spends : s.night \in Nights /\ s.seq = DustSeq(s.night)
  PROVE  CountedAlike'
  <1> DEFINE n == Len(chain)
  <1>1. /\ n \in Nat /\ Len(chain') = n + 1
        /\ \A i \in 1..n : chain'[i] = chain[i]
        /\ chain'[n + 1] = e
        /\ \/ seen'["dust"] = seen["dust"]
           \/ /\ seen["dust"] = n /\ seen'["dust"] = n + 1
              /\ "dust" \notin Carried(e.fate, e.spent \cup e.made, e.spends)
    BY StreamNames DEF Recorded
  <1>2. seen["dust"] \in 0..n
    BY PlacesKnown, StreamNames DEF History
  <1>3. \A s \in e.spends : s.seq = SeqAt(chain, s.night, n)
    BY DEF DustSeq, SeqAt, Spent, Touches
  <1> HIDE DEF n
  <1>4. ASSUME NEW d, NEW p \in 0..n PROVE SeqAt(chain', d, p) = SeqAt(chain, d, p)
    BY <1>1, SeqPrefix
  <1>5. ASSUME NEW i \in 1..(n + 1), NEW s \in chain'[i].spends
        PROVE  s.night \in Nights /\ s.seq = SeqAt(chain', s.night, i - 1)
    <2>1. CASE i = n + 1
      <3>1. chain'[i] = e /\ i - 1 = n /\ n \in 0..n
        BY <1>1, <2>1
      <3> QED
        BY <1>3, <1>4, <1>5, <3>1
    <2>2. CASE i \in 1..n
      <3>1. chain'[i] = chain[i] /\ i - 1 \in 0..n
        BY <1>1, <2>2
      <3>2. s.night \in Nights /\ s.seq = SeqAt(chain, s.night, i - 1)
        BY <1>5, <2>2, <3>1 DEF DustInv, n
      <3> QED
        BY <1>4, <3>1, <3>2
    <2> QED
      BY <1>1, <2>1, <2>2
  <1>6. ASSUME NEW d \in Nights PROVE dust'[d].seq = SeqAt(chain', d, seen'["dust"])
    <2>1. dust'[d].seq = SeqAt(chain, d, seen["dust"])
      BY DEF DustInv
    <2>2. CASE seen'["dust"] = seen["dust"]
      BY <1>2, <1>4, <2>1, <2>2
    <2>3. CASE /\ seen["dust"] = n /\ seen'["dust"] = n + 1
               /\ "dust" \notin Carried(e.fate, e.spent \cup e.made, e.spends)
      <3>1. e.spends = {}
        BY <2>3, StreamNames DEF Carried
      <3>2. ~Touches(chain'[n + 1], d)
        BY <1>1, <3>1 DEF Touches
      <3>3. SeqAt(chain', d, n + 1) = SeqAt(chain', d, n)
        BY <1>1, <3>2, SeqNext
      <3> QED
        BY <1>2, <1>4, <2>1, <2>3, <3>3
    <2> QED
      BY <1>1, <2>2, <2>3
  <1> QED
    BY <1>1, <1>5, <1>6 DEF CountedAlike, SeqAt, Spent, Touches

LEMMA IncludeDust ==
  ASSUME History, DustInv, NEW k \in DOMAIN txs, NEW fate \in Landing, Include(k, fate) PROVE DustInv'
  <1>1. PICK e : /\ Recorded(e) /\ Fated(k, fate)
                 /\ e.spends = IF fate = "failure" THEN {} ELSE txs[k].spends
                 /\ txs[k].fate = "open" /\ \A s \in txs[k].spends : s.seq = DustSeq(s.night)
                 /\ UNCHANGED walletVars
    BY IncludeFacts
  <1>2. \A s \in e.spends : s.night \in Nights /\ s.seq = DustSeq(s.night)
    BY <1>1 DEF DustInv
  <1>3. CountedAlike' /\ UNCHANGED dust
    BY <1>1, <1>2, RecordedCount DEF walletVars
  <1>4. \A j \in DOMAIN txs : /\ txs'[j].spends = txs[j].spends /\ txs'[j].kind = txs[j].kind
                              /\ Alive(txs'[j]) => Alive(txs[j])
    BY <1>1 DEF Fated, Alive
  <1>5. DOMAIN txs' = DOMAIN txs
    BY <1>1 DEF Fated
  <1> QED
    BY <1>3, <1>4, <1>5, SameDust

LEMMA PayDust ==
  ASSUME History, DustInv, NEW c \in Payments, Pay(c) PROVE DustInv'
  <1>1. PICK e : Recorded(e) /\ e.spends = {}
    BY PayFacts
  <1>2. UNCHANGED <<walletVars, txs>>
    BY PayFacts
  <1>3. CountedAlike' /\ UNCHANGED dust
    BY <1>1, <1>2, RecordedCount DEF walletVars
  <1> QED
    BY <1>2, <1>3, SameDust

LEMMA ApplyDustDust ==
  ASSUME History, DustInv, ApplyDust PROVE DustInv'
  <1> DEFINE p == seen["dust"]
             e == chain[p + 1]
             Of1(d) == CHOOSE s \in e.spends : s.night = d
             Worth(d) == IF dust[Of1(d).night].worth > Of1(d).amount
                         THEN dust[Of1(d).night].worth - Of1(d).amount ELSE 0
             Back(d) == [seq |-> Of1(d).seq + 1, pending |-> FALSE, worth |-> Worth(d)]
  <1>1. Advance("dust")
    BY DEF ApplyDust
  <1>2. /\ Moves("dust") /\ seen'["dust"] = p + 1 /\ p + 1 \in 1..Len(chain) /\ chain' = chain
        /\ txs' = txs
    BY <1>1, StreamNames, AdvanceMoves DEF Moves
  <1>3. p \in Nat /\ (p + 1) - 1 = p
    BY PlacesKnown, StreamNames DEF History
  <1>4. dust' = [d \in Nights |-> IF Touches(e, d) THEN Back(d) ELSE dust[d]]
    BY DEF ApplyDust, Touches
  <1>5. \A d \in Nights : dust[d].seq = SeqAt(chain, d, p) /\ IsDust(dust[d])
    BY DEF DustInv
  <1>6. \A s \in e.spends : s.seq = SeqAt(chain, s.night, p)
    BY <1>2, <1>3 DEF DustInv
  <1> HIDE DEF p
  <1>7. ASSUME NEW d \in Nights
        PROVE  /\ Touches(e, d) => dust'[d].seq = dust[d].seq + 1
               /\ ~Touches(e, d) => dust'[d] = dust[d]
               /\ dust'[d].seq = SeqAt(chain, d, p + 1) /\ IsDust(dust'[d])
    <2>1. CASE Touches(e, d)
      <3>1. Of1(d) \in e.spends /\ Of1(d).night = d
        BY <2>1 DEF Touches
      <3>2. Of1(d).seq = SeqAt(chain, d, p)
        BY <1>6, <3>1
      <3>3. SeqAt(chain, d, p + 1) = SeqAt(chain, d, p) + 1
        BY <1>3, <2>1, SeqNext
      <3>4. dust'[d] = Back(d)
        BY <1>4, <2>1
      <3> HIDE DEF Of1, Worth
      <3>5. Back(d).seq = Of1(d).seq + 1 /\ IsDust(Back(d))
        BY DEF IsDust
      <3> HIDE DEF Back
      <3> QED
        BY <1>5, <2>1, <3>2, <3>3, <3>4, <3>5
    <2>2. CASE ~Touches(e, d)
      <3>1. dust'[d] = dust[d]
        BY <1>4, <2>2
      <3>2. SeqAt(chain, d, p + 1) = SeqAt(chain, d, p)
        BY <1>3, <2>2, SeqNext
      <3> QED
        BY <1>5, <2>2, <3>1, <3>2
    <2> QED
      BY <2>1, <2>2
  <1>8. DustShape'
    <2>1. dust' = [d \in Nights |-> dust'[d]]
      BY <1>4
    <2> QED
      BY <1>7, <2>1 DEF DustShape, IsDust
  <1>9. CountedAlike'
    <2>1. \A i \in 1..Len(chain') : \A s \in chain'[i].spends :
             s.night \in Nights /\ s.seq = SeqAt(chain', s.night, i - 1)
      BY <1>2 DEF DustInv
    <2>2. \A d \in Nights : dust'[d].seq = SeqAt(chain', d, seen'["dust"])
      BY <1>2, <1>7
    <2> QED
      BY <2>1, <2>2 DEF CountedAlike, SeqAt, Spent, Touches
  <1>10. ASSUME NEW k \in DOMAIN txs, Alive(txs'[k]), NEW s \in txs[k].spends
         PROVE  /\ s.seq <= dust'[s.night].seq
                /\ txs[k].kind \notin Unheld /\ s.seq = dust'[s.night].seq => dust'[s.night].pending
    <2>1. /\ s.night \in Nights /\ s.seq <= dust[s.night].seq
          /\ txs[k].kind \notin Unheld /\ s.seq = dust[s.night].seq => dust[s.night].pending
      BY <1>2, <1>10 DEF DustInv
    <2>2. dust[s.night].seq \in Nat
      BY <1>3, <1>5, <2>1, SeqIsNat
    <2>3. CASE Touches(e, s.night)
      <3>1. dust'[s.night].seq = dust[s.night].seq + 1
        BY <1>7, <2>1, <2>3
      <3>2. s.seq \in Nat
        BY DEF DustInv
      <3> QED
        BY <2>1, <2>2, <3>1, <3>2
    <2>4. CASE ~Touches(e, s.night)
      BY <1>7, <2>1, <2>4
    <2> QED
      BY <2>3, <2>4
  <1>11. /\ DOMAIN txs' = DOMAIN txs
         /\ \A k \in DOMAIN txs : /\ txs'[k].spends = txs[k].spends /\ txs'[k].kind = txs[k].kind
                                  /\ Alive(txs'[k]) => Alive(txs[k])
    BY <1>2
  <1> HIDE DEF e
  <1> QED
    BY <1>8, <1>9, <1>10, <1>11, DustNext

LEMMA ImportDustDust ==
  ASSUME History, DustInv, "importIdle" \in HostRules, NEW p \in 1..Len(chain), ImportDust(p)
  PROVE  DustInv'
  <1>1. /\ p > seen["dust"] /\ MayImport(p) /\ Forget("dust") /\ AdvanceTo("dust", p) /\ UNCHANGED chain
        /\ dust' = [d \in Nights |->
                     [seq |-> SeqAt(chain, d, p), worth |-> dust[d].worth, pending |-> FALSE]]
    BY DEF ImportDust, SeqAt, Spent, Touches
  <1>2. Moves("dust") /\ seen'["dust"] = p
    BY <1>1, StreamNames, ImportMoves
  <1>3. p \in Nat /\ seen["dust"] \in Nat
    BY PlacesKnown, StreamNames DEF History
  <1>4. \A d \in Nights : dust'[d].seq = SeqAt(chain, d, p) /\ IsDust(dust'[d])
    BY <1>1 DEF IsDust
  <1>5. DustShape'
    <2>1. dust' = [d \in Nights |-> dust'[d]]
      BY <1>1
    <2> QED
      BY <1>4, <2>1 DEF DustShape, IsDust
  <1>6. CountedAlike'
    <2>1. \A i \in 1..Len(chain') : \A s \in chain'[i].spends :
             s.night \in Nights /\ s.seq = SeqAt(chain', s.night, i - 1)
      BY <1>1 DEF DustInv
    <2>2. \A d \in Nights : dust'[d].seq = SeqAt(chain', d, seen'["dust"])
      BY <1>1, <1>2, <1>4
    <2> QED
      BY <2>1, <2>2 DEF CountedAlike, SeqAt, Spent, Touches
  <1>7. ASSUME NEW k \in DOMAIN txs, Alive(txs[k]), NEW s \in txs[k].spends
        PROVE  s.seq < dust'[s.night].seq
    <2>1. txs[k].fate \in Landing
      BY <1>1, <1>7, IdleTxs DEF Alive, Landing
    <2>2. PICK i \in Landed(k) : i <= p
      BY <1>1, <2>1, IdleTxs
    <2>3. s.seq \in Nat /\ s.seq + 1 <= SeqAt(chain, s.night, p)
      BY <1>3, <1>7, <2>2, LandedSpends
    <2>4. s.night \in Nights /\ SeqAt(chain, s.night, p) \in Nat
      BY <1>3, <1>7, SeqIsNat DEF DustInv
    <2> QED
      BY <1>4, <2>3, <2>4
  <1>8. /\ DOMAIN txs' = DOMAIN txs
        /\ \A k \in DOMAIN txs : /\ txs'[k].spends = txs[k].spends /\ txs'[k].kind = txs[k].kind
                                 /\ Alive(txs'[k]) => Alive(txs[k])
    BY <1>2, MovesAlive
  <1>9. ASSUME NEW k \in DOMAIN txs, Alive(txs'[k]), NEW s \in txs[k].spends
        PROVE  /\ s.seq <= dust'[s.night].seq
               /\ txs[k].kind \notin Unheld /\ s.seq = dust'[s.night].seq => dust'[s.night].pending
    <2>1. s.seq < dust'[s.night].seq
      BY <1>7, <1>8, <1>9
    <2>2. s.seq \in Nat /\ dust'[s.night].seq \in Nat
      BY <1>3, <1>4, <1>9, SeqIsNat DEF DustInv
    <2> QED
      BY <2>1, <2>2
  <1> QED
    BY <1>5, <1>6, <1>8, <1>9, DustNext

\* DUST grows: its sequence number and its reservation stay
LEMMA GrowDust ==
  ASSUME History, DustInv, NEW d \in Nights, Grow(d) PROVE DustInv'
  <1> DEFINE y == [seq |-> dust[d].seq, worth |-> Cap[d], pending |-> dust[d].pending]
  <1>1. UNCHANGED <<chain, seen, txs>> /\ dust' = [dust EXCEPT ![d].worth = Cap[d]]
    BY DEF Grow
  <1>2. [dust[d] EXCEPT !.worth = Cap[d]] = y
    BY DEF DustInv, IsDust
  <1>3. dust = [c \in Nights |-> dust[c]]
    BY DEF DustInv
  <1>4. dust' = [c \in Nights |-> IF c = d THEN y ELSE dust[c]]
    BY <1>1, <1>2, <1>3
  <1>5. y.seq = dust[d].seq /\ y.pending = dust[d].pending /\ IsDust(y)
    BY DEF IsDust
  <1> HIDE DEF y
  <1>6. \A c \in Nights : /\ dust'[c].seq = dust[c].seq /\ dust'[c].pending = dust[c].pending
                          /\ IsDust(dust'[c])
    BY <1>4, <1>5 DEF DustInv
  <1>7. DustShape'
    BY <1>4, <1>6 DEF DustShape, IsDust
  <1>8. CountedAlike'
    <2>1. \A i \in 1..Len(chain') : \A s \in chain'[i].spends :
             s.night \in Nights /\ s.seq = SeqAt(chain', s.night, i - 1)
      BY <1>1 DEF DustInv
    <2>2. \A c \in Nights : dust'[c].seq = SeqAt(chain', c, seen'["dust"])
      BY <1>1, <1>6 DEF DustInv
    <2> QED
      BY <2>1, <2>2 DEF CountedAlike, SeqAt, Spent, Touches
  <1>9. \A k \in DOMAIN txs : Alive(txs'[k]) => \A s \in txs[k].spends :
             /\ s.seq <= dust'[s.night].seq
             /\ txs[k].kind \notin Unheld /\ s.seq = dust'[s.night].seq => dust'[s.night].pending
    BY <1>1, <1>6 DEF DustInv
  <1> QED
    BY <1>1, <1>7, <1>8, <1>9, DustNext

\* what expires was reserved for transactions that are gone
LEMMA ExpireDust ==
  ASSUME History, DustInv, NEW d \in Nights, Expire(d) PROVE DustInv'
  <1> DEFINE y == [seq |-> dust[d].seq, worth |-> dust[d].worth, pending |-> FALSE]
  <1>1. /\ UNCHANGED <<chain, seen, txs>> /\ dust' = [dust EXCEPT ![d].pending = FALSE]
        /\ \A k \in DOMAIN txs : (\E s \in txs[k].spends : s.night = d) => txs[k].fate = "dropped"
    BY DEF Expire
  <1>2. [dust[d] EXCEPT !.pending = FALSE] = y
    <2>1. IsDust(dust[d])
      BY DEF DustInv
    <2>2. ASSUME NEW x, IsDust(x), NEW v
          PROVE  [x EXCEPT !.pending = v] = [seq |-> x.seq, worth |-> x.worth, pending |-> v]
      BY <2>2 DEF IsDust
    <2> QED
      BY <2>1, <2>2, Zenon
  <1>3. dust = [c \in Nights |-> dust[c]]
    BY DEF DustInv
  <1>4. dust' = [c \in Nights |-> IF c = d THEN y ELSE dust[c]]
    BY <1>1, <1>2, <1>3
  <1>5. y.seq = dust[d].seq /\ IsDust(y)
    BY DEF IsDust
  <1> HIDE DEF y
  <1>6. \A c \in Nights : /\ dust'[c].seq = dust[c].seq /\ IsDust(dust'[c])
                          /\ c # d => dust'[c].pending = dust[c].pending
    BY <1>4, <1>5 DEF DustInv
  <1>7. DustShape'
    BY <1>4, <1>6 DEF DustShape, IsDust
  <1>8. CountedAlike'
    <2>1. \A i \in 1..Len(chain') : \A s \in chain'[i].spends :
             s.night \in Nights /\ s.seq = SeqAt(chain', s.night, i - 1)
      BY <1>1 DEF DustInv
    <2>2. \A c \in Nights : dust'[c].seq = SeqAt(chain', c, seen'["dust"])
      BY <1>1, <1>6 DEF DustInv
    <2> QED
      BY <2>1, <2>2 DEF CountedAlike, SeqAt, Spent, Touches
  <1>9. ASSUME NEW k \in DOMAIN txs, Alive(txs'[k]), NEW s \in txs[k].spends
        PROVE  /\ s.seq <= dust'[s.night].seq
               /\ txs[k].kind \notin Unheld /\ s.seq = dust'[s.night].seq => dust'[s.night].pending
    <2>1. Alive(txs[k]) /\ s.night # d
      BY <1>1, <1>9 DEF Alive
    <2>2. /\ s.night \in Nights /\ s.seq <= dust[s.night].seq
          /\ txs[k].kind \notin Unheld /\ s.seq = dust[s.night].seq => dust[s.night].pending
      BY <1>9, <2>1 DEF DustInv
    <2> QED
      BY <1>6, <2>1, <2>2
  <1> QED
    BY <1>1, <1>7, <1>8, <1>9, DustNext

-----------------------------------------------------------------------------
(* Nothing is spent twice                                                  *)

SpendInv == History /\ (\A s \in CoinStreams : Claims(s)) /\ DustInv

LEMMA SpendInit ==
  ASSUME BInit PROVE SpendInv
  <1>1. /\ chain = <<>> /\ txs = <<>> /\ seen = [s \in Streams |-> 0]
        /\ dust = [d \in Nights |-> [seq |-> 0, worth |-> Cap[d], pending |-> FALSE]]
    BY DEF BInit, Init
  <1>2. Len(chain) = 0 /\ DOMAIN chain = {} /\ DOMAIN txs = {} /\ seen["dust"] = 0
    BY <1>1, StreamNames
  <1>3. History
    <2>1. Inv
      BY InvInit DEF BInit
    <2>2. TxsRight
      BY <1>1, <1>2 DEF TxsRight
    <2>3. EntriesRight
      BY <1>2 DEF EntriesRight
    <2>4. MadeOnce(chain)
      BY <1>2 DEF MadeOnce, After, Known
    <2> QED
      BY <2>1, <2>2, <2>3, <2>4 DEF History
  <1>4. ASSUME NEW s \in CoinStreams PROVE Claims(s)
    BY <1>2 DEF Claims
  <1>5. DustInv
    <2>1. ASSUME NEW d \in Nights PROVE SeqAt(chain, d, 0) = 0
      BY FS_EmptySet DEF SeqAt, Spent
    <2>2. DustShape /\ \A d \in Nights : dust[d].seq = 0
      BY <1>1 DEF DustShape, IsDust
    <2> QED
      BY <1>2, <2>1, <2>2 DEF DustInv, DustShape
  <1> QED
    BY <1>3, <1>4, <1>5 DEF SpendInv

LEMMA BuiltSpends ==
  ASSUME SpendInv, Inv', "balanceAlone" \in HostRules, NEW x, Built(x) PROVE SpendInv'
  <1>1. TxsRight' /\ EntriesRight' /\ chain' = chain
    BY BuiltHistory DEF SpendInv, History, Built
  <1>2. History'
    BY <1>1 DEF SpendInv, History
  <1>3. ASSUME NEW s \in CoinStreams PROVE Claims(s)'
    BY BuiltClaims DEF SpendInv
  <1>4. DustInv'
    BY BuiltDust DEF SpendInv
  <1> QED
    BY <1>2, <1>3, <1>4 DEF SpendInv

\* where nothing new comes onto the chain and no transaction is built
LEMMA MovedSpends ==
  ASSUME SpendInv, Inv', NEW q \in Streams, Moves(q),
         \A s \in CoinStreams : Claims(s)', DustInv'
  PROVE  SpendInv'
  <1>1. TxsRight' /\ EntriesRight' /\ MadeOnce(chain)'
    BY MovesFacts DEF SpendInv
  <1> QED
    BY <1>1 DEF SpendInv, History

LEMMA UnshieldedSpends ==
  ASSUME SpendInv, Inv', ApplyUnshielded PROVE SpendInv'
  <1>1. Moves("unshielded") /\ UNCHANGED dust
    BY AdvanceMoves, StreamNames DEF SpendInv, ApplyUnshielded
  <1>2. ASSUME NEW s \in CoinStreams PROVE Claims(s)'
    BY ApplyUnshieldedClaims DEF SpendInv
  <1>3. DustInv'
    BY <1>1, OthersMoveDust, StreamNames DEF SpendInv
  <1> QED
    BY <1>1, <1>2, <1>3, MovedSpends, StreamNames

LEMMA ShieldedSpends ==
  ASSUME SpendInv, Inv', ApplyShielded PROVE SpendInv'
  <1>1. Moves("shielded") /\ UNCHANGED dust
    BY AdvanceMoves, StreamNames DEF SpendInv, ApplyShielded
  <1>2. ASSUME NEW s \in CoinStreams PROVE Claims(s)'
    BY ApplyShieldedClaims DEF SpendInv
  <1>3. DustInv'
    BY <1>1, OthersMoveDust, StreamNames DEF SpendInv
  <1> QED
    BY <1>1, <1>2, <1>3, MovedSpends, StreamNames

LEMMA SameFree ==
  ASSUME UNCHANGED <<available, coins, pendingSpends>>, NEW s PROVE Free(s)' = Free(s)
  BY DEF Free

LEMMA DustSpends ==
  ASSUME SpendInv, Inv', ApplyDust PROVE SpendInv'
  <1>1. Moves("dust") /\ UNCHANGED <<available, coins, pendingSpends>>
    BY AdvanceMoves, StreamNames DEF SpendInv, ApplyDust
  <1>2. ASSUME NEW s \in CoinStreams PROVE Claims(s)'
    BY <1>1, OthersMove, SameFree, StreamNames, CoinStreamNames DEF SpendInv
  <1>3. DustInv'
    BY ApplyDustDust DEF SpendInv
  <1> QED
    BY <1>1, <1>2, <1>3, MovedSpends, StreamNames

LEMMA SpentResponseSpends ==
  ASSUME SpendInv, Inv', ApplyShieldedSpentResponse PROVE SpendInv'
  <1>1. Moves("shielded") /\ UNCHANGED dust
    BY StillMoves, StreamNames DEF SpendInv, ApplyShieldedSpentResponse
  <1>2. ASSUME NEW s \in CoinStreams PROVE Claims(s)'
    BY SpentResponseClaims DEF SpendInv
  <1>3. DustInv'
    BY <1>1, OthersMoveDust, StreamNames DEF SpendInv
  <1> QED
    BY <1>1, <1>2, <1>3, MovedSpends, StreamNames

LEMMA ImportShieldedSpends ==
  ASSUME SpendInv, Inv', "importIdle" \in HostRules, NEW p \in 1..Len(chain), ImportShielded(p)
  PROVE  SpendInv'
  <1>1. Moves("shielded") /\ UNCHANGED dust
    BY ImportMoves, StreamNames DEF SpendInv, ImportShielded
  <1>2. ASSUME NEW s \in CoinStreams PROVE Claims(s)'
    BY ImportShieldedClaims DEF SpendInv
  <1>3. DustInv'
    BY <1>1, OthersMoveDust, StreamNames DEF SpendInv
  <1> QED
    BY <1>1, <1>2, <1>3, MovedSpends, StreamNames

LEMMA ImportDustSpends ==
  ASSUME SpendInv, Inv', "importIdle" \in HostRules, NEW p \in 1..Len(chain), ImportDust(p)
  PROVE  SpendInv'
  <1>1. Moves("dust") /\ UNCHANGED <<available, coins, pendingSpends>>
    BY ImportMoves, StreamNames DEF SpendInv, ImportDust
  <1>2. ASSUME NEW s \in CoinStreams PROVE Claims(s)'
    BY <1>1, OthersMove, SameFree, StreamNames, CoinStreamNames DEF SpendInv
  <1>3. DustInv'
    BY ImportDustDust DEF SpendInv
  <1> QED
    BY <1>1, <1>2, <1>3, MovedSpends, StreamNames

\* steps that leave the coins, the streams and the chain alone
LEMMA IdleSpends ==
  ASSUME SpendInv, Inv', UNCHANGED <<available, coins, pendingSpends, seen, chain, txs>>, DustInv'
  PROVE  SpendInv'
  <1>1. Moves("dust")
    BY StillMoves, StreamNames DEF SpendInv
  <1>2. ASSUME NEW s \in CoinStreams PROVE Claims(s)'
    BY StillClaims, SameFree DEF SpendInv
  <1> QED
    BY <1>1, <1>2, MovedSpends, StreamNames

LEMMA StillSpends ==
  ASSUME SpendInv, Inv', UNCHANGED vars PROVE SpendInv'
  <1>1. Moves("shielded")
    BY StillMoves, StreamNames DEF SpendInv, vars
  <1>2. DustInv'
    BY <1>1, OthersMoveDust, StreamNames DEF SpendInv, vars, walletVars
  <1> QED
    BY <1>2, IdleSpends DEF vars, walletVars

LEMMA ChainSpends ==
  ASSUME SpendInv, Inv', Chain PROVE SpendInv'
  <1>1. ASSUME NEW k \in DOMAIN txs, NEW fate \in Landing, Include(k, fate) PROVE SpendInv'
    <2>1. TxsRight' /\ EntriesRight' /\ MadeOnce(chain)'
      <3>1. History
        BY DEF SpendInv
      <3>2. PICK e : /\ Recorded(e) /\ e.tx = k /\ e.fate = fate /\ Fated(k, fate)
                     /\ e.spent = IF fate = "failure" THEN txs[k].ins ELSE Consumed(txs'[k])
                     /\ e.made = Made(txs'[k])
                     /\ e.spends = IF fate = "failure" THEN {} ELSE txs[k].spends
                     /\ txs[k].fate = "open"
        BY <1>1, <3>1, IncludeFacts
      <3> QED
        BY <3>1, <3>2, IncludeHistory
    <2>2. ASSUME NEW s \in CoinStreams PROVE Claims(s)'
      BY <1>1, IncludeClaims DEF SpendInv
    <2>3. DustInv'
      BY <1>1, IncludeDust DEF SpendInv
    <2> QED
      BY <2>1, <2>2, <2>3 DEF SpendInv, History
  <1>2. ASSUME NEW k \in DOMAIN txs, Drop(k) PROVE SpendInv'
    <2>1. TxsRight' /\ EntriesRight' /\ chain' = chain
      BY <1>2, DropFacts DEF SpendInv, History, Drop
    <2>2. ASSUME NEW s \in CoinStreams PROVE Claims(s)'
      BY <1>2, DropClaims DEF SpendInv
    <2>3. DustInv'
      BY <1>2, DropDust DEF SpendInv
    <2> QED
      BY <2>1, <2>2, <2>3 DEF SpendInv, History
  <1>3. ASSUME NEW c \in Payments, Pay(c) PROVE SpendInv'
    <2>1. TxsRight' /\ EntriesRight' /\ MadeOnce(chain)'
      BY <1>3, PayFacts DEF SpendInv
    <2>2. ASSUME NEW s \in CoinStreams PROVE Claims(s)'
      BY <1>3, PayClaims DEF SpendInv
    <2>3. DustInv'
      BY <1>3, PayDust DEF SpendInv
    <2> QED
      BY <2>1, <2>2, <2>3 DEF SpendInv, History
  <1>4. ASSUME NEW d \in Nights, Grow(d) PROVE SpendInv'
    BY <1>4, GrowDust, IdleSpends DEF SpendInv, Grow
  <1>5. ASSUME NEW d \in Nights, Expire(d) PROVE SpendInv'
    BY <1>5, ExpireDust, IdleSpends DEF SpendInv, Expire
  <1> QED
    BY <1>1, <1>2, <1>3, <1>4, <1>5 DEF Chain, Landing

LEMMA SpendStep ==
  ASSUME {"balanceAlone", "importIdle"} \subseteq HostRules, SpendInv, BNext \/ UNCHANGED balancingVars
  PROVE  SpendInv'
  <1>1. Inv'
    BY BalancingStep DEF SpendInv, History
  <1>2. Len(txs) \in Nat
    BY TxsKnown DEF SpendInv, History
  <1>3. CASE Commands
    BY <1>1, <1>2, <1>3, CommandsBuild, BuiltSpends
  <1>4. CASE Sync
    BY <1>1, <1>4, UnshieldedSpends, ShieldedSpends, DustSpends, SpentResponseSpends,
       ImportShieldedSpends, ImportDustSpends DEF Sync
  <1>5. CASE Chain
    BY <1>1, <1>5, ChainSpends
  <1>6. ASSUME NEW o, NEW price, PreviewBalance(o, price) PROVE SpendInv'
    BY <1>1, <1>6, StillSpends DEF PreviewBalance
  <1>7. ASSUME NEW o, NEW price, NEW m, Execute(o, price, m) PROVE SpendInv'
    BY <1>1, <1>2, <1>7, ExecutionBuilds, BuiltSpends
  <1>8. CASE UNCHANGED balancingVars
    BY <1>1, <1>8, StillSpends DEF balancingVars
  <1> QED
    BY <1>3, <1>4, <1>5, <1>6, <1>7, <1>8 DEF BNext, Next, BalanceUnsealed, BalanceSealed

LEMMA SpentOnce ==
  ASSUME SpendInv PROVE NeverSpentTwice
  <1>1. ASSUME NEW j \in DOMAIN txs, NEW k \in DOMAIN txs, j # k
        PROVE  Consumed(txs[j]) \cap Consumed(txs[k]) = {}
    <2>1. ASSUME NEW i \in DOMAIN txs, NEW c \in Consumed(txs[i])
          PROVE  c \in Unshielded(Consumed(txs[i])) \cup Shielded(Consumed(txs[i]))
      <3>1. Typed(txs[i]) /\ c \in txs[i].ins
        BY <2>1 DEF SpendInv, History, TxsRight, TxRight, Consumed
      <3> QED
        BY <2>1, <3>1 DEF Typed, Unshielded, Shielded
    <2>2. ASSUME NEW i \in DOMAIN txs, NEW s \in CoinStreams
          PROVE  Part(s, Consumed(txs[i])) \subseteq Claim(i, s)
      <3>1. txs[i].fate = "failure" => Consumed(txs[i]) = {}
        BY DEF Consumed
      <3> QED
        BY <3>1, PartFacts DEF Claim
    <2>3. ASSUME NEW s \in CoinStreams
          PROVE  Part(s, Consumed(txs[j])) \cap Part(s, Consumed(txs[k])) = {}
      <3>1. Claim(j, s) \cap Claim(k, s) = {}
        BY <1>1 DEF SpendInv, Claims
      <3> QED
        BY <2>2, <3>1
    <2>4. /\ Unshielded(Consumed(txs[j])) \cap Unshielded(Consumed(txs[k])) = {}
          /\ Shielded(Consumed(txs[j])) \cap Shielded(Consumed(txs[k])) = {}
      BY <2>3 DEF CoinStreams, Part
    <2> QED
      BY <2>1, <2>4 DEF Unshielded, Shielded
  <1> QED
    BY <1>1 DEF NeverSpentTwice, SpendInv, DustInv

(* Under a host that waits for a balance or an intent to settle, and that  *)
(* imports a state only when no transaction is on its way, no coin and no  *)
(* DUST coin is taken by two transactions of the wallet which both went    *)
(* through or still can: for any number of coins and transactions,         *)
(* whatever the plans take, however far the streams lag and whatever the   *)
(* chain makes of each transaction.                                        *)
THEOREM CoinsAreSpentOnce ==
  ASSUME {"balanceAlone", "importIdle"} \subseteq HostRules
  PROVE  BSpec => []NeverSpentTwice
  <1>1. BInit => SpendInv
    BY SpendInit
  <1>2. SpendInv /\ [BNext]_balancingVars => SpendInv'
    BY SpendStep
  <1>3. SpendInv => NeverSpentTwice
    BY SpentOnce
  <1> QED
    BY <1>1, <1>2, <1>3, PTL DEF BSpec

-----------------------------------------------------------------------------
(* What coins are worth adds up                                            *)

Counted(cs) == IsFiniteSet(cs) /\ \A c \in cs : c.value \in Int

LEMMA RangeIsFinite ==
  ASSUME NEW S, IsFiniteSet(S), NEW f, f = [x \in S |-> f[x]]
  PROVE  IsFiniteSet({f[x] : x \in S})
  <1> DEFINE T == {f[x] : x \in S}
  <1>1. f \in [S -> T] /\ \A y \in T : \E x \in S : f[x] = y
    BY Zenon
  <1>2. f \in Surjection(S, T)
    BY <1>1 DEF Surjection
  <1> HIDE DEF T
  <1>3. IsFiniteSet(T)
    BY <1>2, FS_Surjection
  <1> QED
    BY <1>3 DEF T

LEMMA PartCounted ==
  ASSUME NEW A, Counted(A), NEW B, B \subseteq A PROVE Counted(B)
  BY FS_Subset DEF Counted

LEMMA BothCounted ==
  ASSUME NEW A, Counted(A), NEW B, Counted(B) PROVE Counted(A \cup B)
  BY FS_Union DEF Counted

LEMMA OneCounted ==
  ASSUME NEW c, c.value \in Int PROVE Counted({c}) /\ Counted({})
  BY FS_Singleton, FS_EmptySet DEF Counted

LEMMA FamilyCounted ==
  ASSUME NEW S, IsFiniteSet(S), NEW f, f = [x \in S |-> f[x]], \A x \in S : Counted(f[x])
  PROVE  Counted(UNION {f[x] : x \in S})
  <1>1. IsFiniteSet({f[x] : x \in S})
    BY RangeIsFinite
  <1>2. \A T \in {f[x] : x \in S} : IsFiniteSet(T)
    BY DEF Counted
  <1>3. IsFiniteSet(UNION {f[x] : x \in S})
    BY <1>1, <1>2, FS_UNION
  <1> QED
    BY <1>3 DEF Counted

LEMMA UnitsAreFinite ==
  ASSUME NEW A, Counted(A) PROVE IsFiniteSet(Units(A)) /\ Total(A) \in Nat
  <1> DEFINE f == [c \in A |-> {c} \X (1 .. c.value)]
  <1>1. ASSUME NEW c \in A PROVE IsFiniteSet(f[c])
    <2>1. IsFiniteSet({c}) /\ IsFiniteSet(1 .. c.value)
      <3>1. c.value \in Int /\ 1 \in Int
        BY DEF Counted
      <3>2. IsFiniteSet({c})
        BY FS_Singleton
      <3>3. IsFiniteSet(1 .. c.value)
        BY <3>1, FS_Interval
      <3> QED
        BY <3>2, <3>3
    <2>2. IsFiniteSet({c} \X (1 .. c.value))
      BY <2>1, FS_Product
    <2>3. f[c] = {c} \X (1 .. c.value)
      OBVIOUS
    <2> HIDE DEF f
    <2> QED
      BY <2>2, <2>3
  <1>2. Units(A) = UNION {f[c] : c \in A}
    BY DEF Units
  <1>3. f = [c \in A |-> f[c]]
    OBVIOUS
  <1> HIDE DEF f
  <1>4. IsFiniteSet({f[c] : c \in A})
    BY <1>3, RangeIsFinite DEF Counted
  <1>5. \A T \in {f[c] : c \in A} : IsFiniteSet(T)
    BY <1>1
  <1>6. IsFiniteSet(Units(A))
    BY <1>2, <1>4, <1>5, FS_UNION
  <1> QED
    BY <1>6, FS_CardinalityType DEF Total

LEMMA TotalsAddUp ==
  ASSUME NEW A, Counted(A), NEW B, Counted(B), A \cap B = {}
  PROVE  Total(A \cup B) = Total(A) + Total(B)
  <1>1. Units(A \cup B) = Units(A) \cup Units(B) /\ Units(A) \cap Units(B) = {}
    BY DEF Units
  <1>2. IsFiniteSet(Units(A)) /\ IsFiniteSet(Units(B)) /\ Total(A) \in Nat /\ Total(B) \in Nat
    BY UnitsAreFinite
  <1>3. Cardinality({}) = 0
    BY FS_EmptySet
  <1>4. Cardinality(Units(A) \cup Units(B))
          = Cardinality(Units(A)) + Cardinality(Units(B)) - Cardinality(Units(A) \cap Units(B))
    BY <1>2, FS_Union
  <1>5. Total(A \cup B) = Total(A) + Total(B) - Cardinality(Units(A) \cap Units(B))
    BY <1>1, <1>4 DEF Total
  <1>6. Cardinality(Units(A) \cap Units(B)) = 0
    BY <1>1, <1>3
  <1> QED
    BY <1>2, <1>5, <1>6

-----------------------------------------------------------------------------
(* What transactions give back is finite and worth a number                *)

CoinsCounted ==
  /\ \A p \in 0..Len(chain) : Counted(After(chain, p))
  /\ \A k \in DOMAIN txs : Counted(txs[k].outs)

LEMMA WalletCounted ==
  ASSUME Inv, CoinsCounted PROVE Counted(available \cup coins)
  <1>1. \A s \in Streams : Counted(After(chain, seen[s]))
    BY PlacesKnown DEF CoinsCounted
  <1>2. /\ available \subseteq After(chain, seen["unshielded"])
        /\ coins \subseteq After(chain, seen["shielded"])
    BY Accounted DEF Inv, Unshielded, Shielded
  <1> QED
    BY <1>1, <1>2, StreamNames, PartCounted, BothCounted

LEMMA ReturnedCounted ==
  ASSUME Counted(available \cup coins), NEW r \in Requests, NEW t \in DOMAIN r.target
  PROVE  Counted(Returned(t, r))
  <1>1. Selected(t, r) \subseteq available \cup coins
    BY SelectedAreCandidates
  <1>2. Total(Selected(t, r)) \in Nat
    BY <1>1, PartCounted, UnitsAreFinite
  <1>3. r.target[t] \in Nat /\ r.own[t] \in Nat
    BY AmountAssumption DEF AmountAssumption
  <1> DEFINE change == Total(Selected(t, r)) - r.target[t]
             a == Coin(1, t, change, FALSE)
             b == Coin(2, t, r.own[t], FALSE)
  <1>4. a.value \in Int /\ b.value \in Int
    BY <1>2, <1>3 DEF Coin
  <1>5. Returned(t, r) \subseteq {a} \cup {b}
    BY DEF Returned
  <1> HIDE DEF a, b
  <1>6. Counted({a} \cup {b})
    BY <1>4, OneCounted, BothCounted
  <1> QED
    BY <1>5, <1>6, PartCounted

LEMMA OfferCounted ==
  ASSUME Counted(available \cup coins), NEW r \in Requests PROVE Counted(Offer(r).outs)
  <1> DEFINE S == DOMAIN r.target \cap (ShieldedTokens \cup UnshieldedTokens)
             f == [t \in S |-> Returned(t, r)]
  <1>1. IsFiniteSet(S)
    BY AmountAssumption, FS_Intersection DEF AmountAssumption
  <1>2. \A t \in S : Counted(f[t])
    BY ReturnedCounted
  <1>3. Offer(r).outs = UNION {f[t] : t \in S}
    BY DEF Offer, ShieldedOffer, UnshieldedOffer
  <1>4. f = [t \in S |-> f[t]]
    OBVIOUS
  <1> HIDE DEF S, f
  <1> QED
    BY <1>1, <1>2, <1>3, <1>4, FamilyCounted

LEMMA RegistrationCounted ==
  ASSUME Counted(available \cup coins), NEW first \in Registrable
  PROVE  Counted(RegistrationOffer(first).outs)
  <1> DEFINE rest == Registrable \ {first}
             a == Coin(1, Night, Total({first}), TRUE)
             b == Coin(2, Night, Total(rest), TRUE)
  <1>1. Registrable \subseteq available
    BY DEF Registrable, Of
  <1>2. Counted({first}) /\ Counted(rest)
    BY <1>1, PartCounted
  <1>3. Total({first}) \in Nat /\ Total(rest) \in Nat
    BY <1>2, UnitsAreFinite
  <1>4. a.value \in Int /\ b.value \in Int
    BY <1>3 DEF Coin
  <1>5. RegistrationOffer(first).outs \subseteq {a} \cup {b}
    BY DEF RegistrationOffer
  <1> HIDE DEF a, b
  <1>6. Counted({a} \cup {b})
    BY <1>4, OneCounted, BothCounted
  <1> QED
    BY <1>5, <1>6, PartCounted

LEMMA CounterofferCounted ==
  ASSUME Counted(available \cup coins), NEW o \in Originals
  PROVE  Counted(Counteroffer(o, Picks(o)).outs)
  <1> DEFINE p == Picks(o)
             S == Tokens \X Segments
             f == [s \in S |-> Outputs(o, p, s[1], s[2])]
  <1>1. IsFiniteSet(S)
    <2>1. IsFiniteSet(Tokens)
      BY AmountAssumption DEF AmountAssumption, Tokens
    <2>2. IsFiniteSet(Segments)
      <3>1. Segments \in SUBSET Nat /\ \A g \in Segments : g <= 65536
        BY SegmentAssumption DEF SegmentAssumption
      <3> QED
        BY <3>1, FS_BoundedSetOfNaturals
    <2> QED
      BY <2>1, <2>2, FS_Product
  <1>2. \A t \in Tokens : p[t] = Pick(o, t)
    BY DEF Picks
  <1> HIDE DEF p
  <1>3. ASSUME NEW t \in Tokens, NEW g \in Segments PROVE Counted(Outputs(o, p, t, g))
    <2>1. p[t][g] \subseteq available \cup coins
      BY <1>2, PicksAreSpendable, SpendableIsFree
    <2>2. Total(p[t][g]) \in Nat
      BY <2>1, PartCounted, UnitsAreFinite
    <2>3. Imbalance(o, t, g) \in Int
      BY OriginalAssumption DEF OriginalAssumption, Imbalance
    <2> DEFINE a == Coin(10 * g + 1, t, Change(o, p, t, g), FALSE)
               b == Coin(10 * g + 2, t, Surplus(o, t, g), FALSE)
    <2>4. a.value \in Int /\ b.value \in Int
      BY <2>2, <2>3 DEF Coin, Change, Deficit, Surplus
    <2>5. Outputs(o, p, t, g) \subseteq {a} \cup {b}
      BY DEF Outputs
    <2> HIDE DEF a, b
    <2>6. Counted({a} \cup {b})
      BY <2>4, OneCounted, BothCounted
    <2> QED
      BY <2>5, <2>6, PartCounted
  <1>4. \A s \in S : Counted(f[s])
    BY <1>3
  <1>5. Counteroffer(o, p).outs = UNION {f[s] : s \in S}
    BY DEF Counteroffer
  <1>6. f = [s \in S |-> f[s]]
    OBVIOUS
  <1> HIDE DEF S, f
  <1>7. Counted(Counteroffer(o, p).outs)
    BY <1>1, <1>4, <1>5, <1>6, FamilyCounted
  <1> QED
    BY <1>7 DEF p

LEMMA AppendedOuts ==
  ASSUME TxsRight, NEW kind, NEW of, NEW offer, NEW spends, NEW kept,
         txs' = Append(txs, Transaction(kind, of, offer, spends, kept)), Counted(offer.outs)
  PROVE  Counted(txs'[Len(txs) + 1].outs)
  <1> DEFINE x == Transaction(kind, of, offer, spends, kept)
  <1>1. x.outs = offer.outs
    BY DEF Transaction
  <1> HIDE DEF x
  <1>2. txs'[Len(txs) + 1] = x
    BY DEF x, TxsRight
  <1> QED
    BY <1>1, <1>2

LEMMA CommandsCounted ==
  ASSUME TxsRight, Counted(available \cup coins), Commands PROVE Counted(txs'[Len(txs) + 1].outs)
  <1>1. ASSUME NEW r \in Requests, Transfer(r) \/ DappTransfer(r)
        PROVE  Counted(txs'[Len(txs) + 1].outs)
    <2>1. \E kind : BuildAndReserve(kind, Offer(r), r.price)
      BY <1>1 DEF Transfer, DappTransfer
    <2> QED
      BY <2>1, OfferCounted, AppendedOuts DEF BuildAndReserve
  <1>2. ASSUME NEW r \in Requests, DappIntent(r) PROVE Counted(txs'[Len(txs) + 1].outs)
    BY <1>2, OfferCounted, AppendedOuts DEF DappIntent
  <1>3. CASE GenerateDust
    <2>1. PICK first \in Registrable : BuildAndReserve("register", RegistrationOffer(first), Sponsored)
      BY <1>3 DEF GenerateDust
    <2> QED
      BY <2>1, RegistrationCounted, AppendedOuts DEF BuildAndReserve
  <1> QED
    BY <1>1, <1>2, <1>3 DEF Commands

LEMMA ExecutionCounted ==
  ASSUME TxsRight, Counted(available \cup coins), NEW o \in Originals, NEW price, NEW m,
         Execute(o, price, m)
  PROVE  Counted(txs'[Len(txs) + 1].outs)
  <1> DEFINE plan == Plan(o, price)
  <1>1. txs' = Append(txs, Transaction("balance", o.id, plan.offer, Spends(plan.fee), {}))
    BY DEF Execute
  <1>2. plan.offer = Counteroffer(o, Picks(o))
    BY DEF Plan
  <1> HIDE DEF plan
  <1> QED
    BY <1>1, <1>2, CounterofferCounted, AppendedOuts

LEMMA BuiltCounted ==
  ASSUME Inv, TxsRight, CoinsCounted, NEW x, Built(x), Counted(txs'[Len(txs) + 1].outs)
  PROVE  CoinsCounted'
  <1>1. chain' = chain /\ \A p : After(chain, p)' = After(chain, p)
    BY DEF Built, After
  <1>2. \A k \in DOMAIN txs' : k = Len(txs) + 1 \/ (k \in DOMAIN txs /\ txs'[k] = txs[k])
    <2>1. /\ Len(txs) \in Nat /\ DOMAIN txs = 1..Len(txs) /\ DOMAIN txs' = 1..(Len(txs) + 1)
          /\ \A k \in 1..Len(txs) : txs'[k] = txs[k]
      BY BuiltFacts
    <2> QED
      BY <2>1
  <1>3. \A k \in DOMAIN txs' : Counted(txs'[k].outs)
    BY <1>2 DEF CoinsCounted
  <1>4. \A p \in 0..Len(chain') : Counted(After(chain, p)')
    BY <1>1 DEF CoinsCounted
  <1> QED
    BY <1>3, <1>4 DEF CoinsCounted

LEMMA RecordedCounted ==
  ASSUME Inv, CoinsCounted, NEW e, Recorded(e), Counted(e.made),
         DOMAIN txs' = DOMAIN txs, \A k \in DOMAIN txs : txs'[k].outs = txs[k].outs
  PROVE  CoinsCounted'
  <1> DEFINE n == Len(chain)
  <1>1. n \in Nat /\ Len(chain') = n + 1 /\ chain'[n + 1] = e
    BY DEF Recorded
  <1>2. Counted(After(chain, n))
    BY <1>1 DEF CoinsCounted
  <1>3. e.after \subseteq After(chain, n) \cup e.made
    BY DEF Recorded, Continues
  <1>4. Counted(e.after)
    BY <1>2, <1>3, BothCounted, PartCounted
  <1>5. ASSUME NEW p \in 0..(n + 1) PROVE Counted(After(chain', p))
    <2>1. CASE p = n + 1
      <3>1. After(chain', p) = e.after
        BY <1>1, <2>1 DEF After
      <3> QED
        BY <1>4, <3>1
    <2>2. CASE p # n + 1
      <3>1. p \in 0..n
        BY <1>1, <2>2
      <3>2. After(chain', p) = After(chain, p)
        BY <3>1 DEF Recorded
      <3> QED
        BY <3>1, <3>2 DEF CoinsCounted
    <2> QED
      BY <2>1, <2>2
  <1>6. \A p \in 0..Len(chain') : Counted(After(chain, p)')
    <2>1. \A p : After(chain, p)' = After(chain', p)
      BY DEF After
    <2> HIDE DEF n
    <2> QED
      BY <1>1, <1>5, <2>1
  <1>7. \A k \in DOMAIN txs' : Counted(txs'[k].outs)
    BY DEF CoinsCounted
  <1> QED
    BY <1>6, <1>7 DEF CoinsCounted

LEMMA IncludeCounted ==
  ASSUME History, CoinsCounted, NEW k \in DOMAIN txs, NEW fate \in Landing, Include(k, fate)
  PROVE  CoinsCounted'
  <1>1. PICK e : Recorded(e) /\ Fated(k, fate) /\ e.made = Made(txs'[k])
    BY IncludeFacts
  <1>2. DOMAIN txs' = DOMAIN txs /\ \A j \in DOMAIN txs : txs'[j].outs = txs[j].outs
    BY <1>1 DEF Fated
  <1>3. Made(txs'[k]) \subseteq txs'[k].outs
    BY DEF Made
  <1>4. Counted(e.made)
    BY <1>1, <1>2, <1>3, PartCounted DEF CoinsCounted
  <1> QED
    BY <1>1, <1>2, <1>4, RecordedCounted DEF History

LEMMA PayCounted ==
  ASSUME History, CoinsCounted, NEW c \in Payments, Pay(c) PROVE CoinsCounted'
  <1>1. PICK e : Recorded(e) /\ e.made = {c}
    BY PayFacts
  <1>2. Counted(e.made)
    BY <1>1, CoinAssumption, OneCounted DEF CoinAssumption
  <1>3. UNCHANGED txs
    BY PayFacts
  <1> QED
    BY <1>1, <1>2, <1>3, RecordedCounted DEF History

\* where nothing new comes onto the chain and no transaction is built
LEMMA StillCounted ==
  ASSUME CoinsCounted, UNCHANGED chain, DOMAIN txs' = DOMAIN txs,
         \A k \in DOMAIN txs : txs'[k].outs = txs[k].outs
  PROVE  CoinsCounted'
  <1>1. \A p : After(chain, p)' = After(chain, p)
    BY DEF After
  <1> QED
    BY <1>1 DEF CoinsCounted

LEMMA MovesCounted ==
  ASSUME CoinsCounted, NEW q, Moves(q) PROVE CoinsCounted'
  BY StillCounted DEF Moves, SameTxs, Alike

LEMMA DropCounted ==
  ASSUME History, CoinsCounted, NEW k \in DOMAIN txs, Drop(k) PROVE CoinsCounted'
  <1>1. Fated(k, "dropped") /\ UNCHANGED chain
    BY DropFacts DEF History, Drop
  <1> QED
    BY <1>1, StillCounted DEF Fated

-----------------------------------------------------------------------------
(* What a wallet shows of shielded tokens                                  *)

Watched(k) == "shielded" \in txs[k].kept /\ ~Arrived(k)
WatchedIns == UNION {txs[k].ins : k \in {j \in DOMAIN txs : Watched(j)}}
WatchedOuts == UNION {txs[k].outs : k \in {j \in DOMAIN txs : Watched(j)}}

ShownInv ==
  /\ \A k \in DOMAIN txs : "shielded" \in txs[k].kept => Shielded(txs[k].soft) = {}
  /\ \A k \in DOMAIN txs : Shielded(txs[k].ins) \subseteq Known(chain, seen["shielded"])
  /\ pendingSpends = coins \cap WatchedIns
  /\ pendingOutputs = Shielded(WatchedOuts)

LEMMA WatchedIsRemembered ==
  /\ UNION {x.ins : x \in Remembered} = WatchedIns
  /\ UNION {x.outs : x \in Remembered} = WatchedOuts
  BY DEF Remembered, Watched, WatchedIns, WatchedOuts

\* who is watched for in the next state
LEMMA WatchedNext ==
  /\ \A c : c \in WatchedIns' <=> \E k \in DOMAIN txs' : Watched(k)' /\ c \in txs'[k].ins
  /\ \A c : c \in WatchedOuts' <=> \E k \in DOMAIN txs' : Watched(k)' /\ c \in txs'[k].outs
  BY DEF WatchedIns, WatchedOuts

LEMMA WatchedNow ==
  /\ \A c : c \in WatchedIns <=> \E k \in DOMAIN txs : Watched(k) /\ c \in txs[k].ins
  /\ \A c : c \in WatchedOuts <=> \E k \in DOMAIN txs : Watched(k) /\ c \in txs[k].outs
  BY DEF WatchedIns, WatchedOuts

LEMMA CoinsAreShielded ==
  ASSUME History PROVE coins \subseteq Shielded(coins) /\ coins \subseteq Known(chain, seen["shielded"])
  <1>1. coins \subseteq Shielded(After(chain, seen["shielded"]))
    BY Accounted DEF History, Inv
  <1>2. After(chain, seen["shielded"]) \subseteq Known(chain, seen["shielded"])
    BY PlacesKnown, StreamNames DEF History, MadeOnce
  <1> QED
    BY <1>1, <1>2 DEF Shielded

\* steps after which the same transactions are watched for
LEMMA SameWatched ==
  ASSUME ShownInv, DOMAIN txs' = DOMAIN txs,
         \A k \in DOMAIN txs : /\ txs'[k].ins = txs[k].ins /\ txs'[k].outs = txs[k].outs
                               /\ txs'[k].soft = txs[k].soft
                               /\ "shielded" \in txs'[k].kept => "shielded" \in txs[k].kept
                               /\ Watched(k)' = Watched(k),
         Known(chain, seen["shielded"]) \subseteq Known(chain', seen'["shielded"]),
         coins' \subseteq coins, pendingSpends' = pendingSpends \cap coins',
         UNCHANGED pendingOutputs
  PROVE  ShownInv'
  <1>1. WatchedIns' = WatchedIns /\ WatchedOuts' = WatchedOuts
    BY WatchedNext, WatchedNow
  <1>2. \A k \in DOMAIN txs' : "shielded" \in txs'[k].kept => Shielded(txs'[k].soft) = {}
    BY DEF ShownInv
  <1>3. \A k \in DOMAIN txs' : Shielded(txs'[k].ins) \subseteq Known(chain', seen'["shielded"])
    BY DEF ShownInv
  <1>4. pendingSpends' = coins' \cap WatchedIns'
    BY <1>1 DEF ShownInv
  <1>5. pendingOutputs' = Shielded(WatchedOuts')
    BY <1>1 DEF ShownInv
  <1>6. /\ Shielded(WatchedOuts)' = Shielded(WatchedOuts')
        /\ \A k \in DOMAIN txs' : Shielded(txs[k].ins)' = Shielded(txs'[k].ins)
        /\ \A k \in DOMAIN txs' : Shielded(txs[k].soft)' = Shielded(txs'[k].soft)
        /\ Known(chain, seen["shielded"])' = Known(chain', seen'["shielded"])
    BY DEF Shielded, Known
  <1> QED
    BY <1>2, <1>3, <1>4, <1>5, <1>6 DEF ShownInv

LEMMA BuiltShown ==
  ASSUME History, ShownInv, NEW x, Built(x) PROVE ShownInv'
  <1> DEFINE n == Len(txs) + 1
  <1>1. /\ DOMAIN txs' = DOMAIN txs \cup {n} /\ n \notin DOMAIN txs
        /\ \A k \in DOMAIN txs : txs'[k] = txs[k]
        /\ txs'[n] = x
    <2>1. /\ Len(txs) \in Nat /\ DOMAIN txs = 1..Len(txs) /\ DOMAIN txs' = 1..n
          /\ \A k \in 1..Len(txs) : txs'[k] = txs[k]
          /\ txs'[n] = x
      BY BuiltFacts DEF History
    <2> QED
      BY <2>1
  <1>2. /\ \A k : Landed(k)' = Landed(k)
        /\ Landed(n) = {}
    BY BuiltHistory DEF History
  <1>3. seen' = seen /\ chain' = chain
    BY DEF Built
  <1> HIDE DEF n
  <1>4. \A k \in DOMAIN txs : Watched(k)' = Watched(k)
    BY <1>1, <1>2, <1>3 DEF Watched, Arrived
  <1>5. ASSUME NEW k, k = n PROVE Watched(k)' = ("shielded" \in x.kept)
    <2>1. ~Arrived(k)' /\ txs'[k] = x
      BY <1>1, <1>2, <1>5 DEF Arrived
    <2> QED
      BY <2>1 DEF Watched
  <1>6. Shielded(x.ins) \subseteq coins \ pendingSpends /\ coins \subseteq Known(chain, seen["shielded"])
    BY CoinsAreShielded DEF Built, TakesFree
  <1>7. \A k \in DOMAIN txs' : Shielded(txs'[k].ins) \subseteq Known(chain, seen["shielded"])
    BY <1>1, <1>6 DEF ShownInv
  <1>8. CASE x.kind \in Unheld
    <2>1. x.kept = {} /\ UNCHANGED <<coins, pendingSpends, pendingOutputs>>
      BY <1>8 DEF Built, walletVars
    <2>2. WatchedIns' = WatchedIns /\ WatchedOuts' = WatchedOuts
      BY <1>1, <1>4, <1>5, <2>1, WatchedNext, WatchedNow
    <2>3. \A k \in DOMAIN txs' : "shielded" \in txs'[k].kept => Shielded(txs'[k].soft) = {}
      BY <1>1, <2>1 DEF ShownInv
    <2> QED
      BY <1>3, <1>7, <2>1, <2>2, <2>3 DEF ShownInv, Shielded
  <1>9. CASE x.kind \notin Unheld
    <2>1. /\ x.kept = Streams /\ Shielded(x.soft) = {} /\ coins' = coins
          /\ pendingSpends' = pendingSpends \cup Shielded(x.ins)
          /\ pendingOutputs' = pendingOutputs \cup Shielded(x.outs)
      BY <1>9 DEF Built, Reserve
    <2>2. WatchedIns' = WatchedIns \cup x.ins /\ WatchedOuts' = WatchedOuts \cup x.outs
      BY <1>1, <1>4, <1>5, <2>1, WatchedNext, WatchedNow, StreamNames
    <2>3. \A k \in DOMAIN txs' : "shielded" \in txs'[k].kept => Shielded(txs'[k].soft) = {}
      BY <1>1, <2>1 DEF ShownInv
    <2>4. coins \cap x.ins = Shielded(x.ins)
      BY <1>6, CoinsAreShielded DEF Shielded
    <2>5. pendingSpends' = coins' \cap WatchedIns'
      BY <2>1, <2>2, <2>4 DEF ShownInv
    <2>6. pendingOutputs' = Shielded(WatchedOuts')
      BY <2>1, <2>2 DEF ShownInv, Shielded
    <2> QED
      BY <1>3, <1>7, <2>3, <2>5, <2>6 DEF ShownInv, Shielded
  <1> QED
    BY <1>8, <1>9

LEMMA OthersMoveShown ==
  ASSUME History, ShownInv, NEW q \in Streams, q # "shielded", Moves(q),
         \A k \in DOMAIN txs : "shielded" \in txs'[k].kept <=> "shielded" \in txs[k].kept,
         coins' \subseteq coins, pendingSpends' = pendingSpends \cap coins', UNCHANGED pendingOutputs
  PROVE  ShownInv'
  <1>1. DOMAIN txs' = DOMAIN txs /\ \A k \in DOMAIN txs : Alike(txs[k], txs'[k])
    BY DEF Moves, SameTxs
  <1>2. chain' = chain /\ seen'["shielded"] = seen["shielded"]
    BY StreamNames DEF Moves
  <1>3. \A k \in DOMAIN txs : Landed(k)' = Landed(k)
    BY MovesFacts
  <1>4. \A k \in DOMAIN txs : Watched(k)' = Watched(k)
    BY <1>2, <1>3 DEF Watched, Arrived
  <1>5. Known(chain, seen["shielded"]) \subseteq Known(chain', seen'["shielded"])
    BY <1>2
  <1> QED
    BY <1>1, <1>4, <1>5, SameWatched DEF Alike

\* steps that do not move the shielded stream, forget no transaction and free no reservation
LEMMA IdleShown ==
  ASSUME History, ShownInv, UNCHANGED <<seen, chain, txs>>,
         coins' \subseteq coins, pendingSpends' = pendingSpends \cap coins', UNCHANGED pendingOutputs
  PROVE  ShownInv'
  <1>1. Moves("dust")
    BY StillMoves, StreamNames
  <1>2. "dust" # "shielded" /\ "dust" \in Streams
    BY StreamNames
  <1> QED
    BY <1>1, <1>2, OthersMoveShown

\* what is reserved is there
LEMMA ReservedIsThere ==
  ASSUME Inv PROVE pendingSpends \cap coins = pendingSpends
  BY Accounted DEF Inv

LEMMA ApplyUnshieldedShown ==
  ASSUME History, ShownInv, ApplyUnshielded PROVE ShownInv'
  <1>1. Advance("unshielded") /\ UNCHANGED <<coins, pendingSpends, pendingOutputs>>
    BY DEF ApplyUnshielded
  <1>2. Moves("unshielded") /\ UNCHANGED txs
    BY <1>1, AdvanceMoves, StreamNames
  <1> QED
    BY <1>1, <1>2, OthersMoveShown, ReservedIsThere, StreamNames DEF History

LEMMA ApplyDustShown ==
  ASSUME History, ShownInv, ApplyDust PROVE ShownInv'
  <1>1. Advance("dust") /\ UNCHANGED <<coins, pendingSpends, pendingOutputs>>
    BY DEF ApplyDust
  <1>2. Moves("dust") /\ UNCHANGED txs
    BY <1>1, AdvanceMoves, StreamNames
  <1> QED
    BY <1>1, <1>2, OthersMoveShown, ReservedIsThere, StreamNames DEF History

LEMMA SpentResponseShown ==
  ASSUME History, ShownInv, ApplyShieldedSpentResponse PROVE ShownInv'
  <1> DEFINE gone == coins \ Unspent(Len(chain))
  <1>1. /\ coins' = coins \ gone /\ pendingSpends' = pendingSpends \ gone
        /\ UNCHANGED <<pendingOutputs, seen, chain, txs>>
    BY DEF ApplyShieldedSpentResponse
  <1> HIDE DEF gone
  <1>2. coins' \subseteq coins /\ pendingSpends' = pendingSpends \cap coins'
    BY <1>1, ReservedIsThere DEF History
  <1> QED
    BY <1>1, <1>2, IdleShown

\* a payload of the DUST stream forgets nothing of the shielded state
LEMMA ImportDustShown ==
  ASSUME History, ShownInv, NEW p \in 1..Len(chain), ImportDust(p) PROVE ShownInv'
  <1>1. /\ p > seen["dust"] /\ Forget("dust") /\ AdvanceTo("dust", p)
        /\ UNCHANGED <<chain, coins, pendingSpends, pendingOutputs>>
    BY DEF ImportDust
  <1>2. Moves("dust") /\ \A k \in DOMAIN txs : txs'[k].kept = txs[k].kept \ {"dust"}
    BY <1>1, ImportMoves, StreamNames
  <1>3. \A k \in DOMAIN txs : "shielded" \in txs'[k].kept <=> "shielded" \in txs[k].kept
    BY <1>2
  <1> QED
    BY <1>1, <1>2, <1>3, OthersMoveShown, ReservedIsThere, StreamNames DEF History

\* one of the shielded stream forgets everything
LEMMA ImportShieldedShown ==
  ASSUME History, ShownInv, NEW p \in 1..Len(chain), ImportShielded(p) PROVE ShownInv'
  <1>1. /\ p > seen["shielded"] /\ Forget("shielded") /\ AdvanceTo("shielded", p)
        /\ UNCHANGED chain /\ pendingSpends' = {} /\ pendingOutputs' = {}
    BY DEF ImportShielded
  <1>2. /\ Moves("shielded")
        /\ \A k \in DOMAIN txs : txs'[k].kept = txs[k].kept \ {"shielded"}
    BY <1>1, ImportMoves, StreamNames
  <1>3. DOMAIN txs' = DOMAIN txs /\ \A k \in DOMAIN txs : txs'[k].ins = txs[k].ins
    BY <1>2 DEF Moves, SameTxs, Alike
  <1>4. \A k \in DOMAIN txs' : "shielded" \notin txs'[k].kept
    BY <1>2, <1>3
  <1>5. \A k \in DOMAIN txs' : ~Watched(k)'
    BY <1>4 DEF Watched
  <1>6. WatchedIns' = {} /\ WatchedOuts' = {}
    BY <1>5, WatchedNext
  <1>7. Known(chain, seen["shielded"]) \subseteq Known(chain', seen'["shielded"])
    BY <1>2, MovesKnow, StreamNames
  <1>8. \A k \in DOMAIN txs' : Shielded(txs'[k].ins) \subseteq Known(chain', seen'["shielded"])
    BY <1>3, <1>7 DEF ShownInv
  <1>9. /\ Shielded(WatchedOuts)' = Shielded(WatchedOuts')
        /\ \A k \in DOMAIN txs' : Shielded(txs[k].ins)' = Shielded(txs'[k].ins)
        /\ Known(chain, seen["shielded"])' = Known(chain', seen'["shielded"])
    BY DEF Shielded, Known
  <1>10. Shielded({}) = {}
    BY DEF Shielded
  <1> QED
    BY <1>1, <1>4, <1>6, <1>8, <1>9, <1>10 DEF ShownInv

LEMMA DropShown ==
  ASSUME History, ShownInv, NEW k \in DOMAIN txs, Drop(k) PROVE ShownInv'
  <1>1. /\ Fated(k, "dropped") /\ \A j \in DOMAIN txs : Landed(j)' = Landed(j)
        /\ UNCHANGED <<coins, pendingSpends, pendingOutputs, seen, chain>>
    BY DropFacts DEF History, Drop, walletVars
  <1>2. DOMAIN txs' = DOMAIN txs
    BY <1>1 DEF Fated
  <1>3. ASSUME NEW j \in DOMAIN txs
        PROVE  /\ txs'[j].ins = txs[j].ins /\ txs'[j].outs = txs[j].outs
               /\ txs'[j].soft = txs[j].soft /\ txs'[j].kept = txs[j].kept
    BY <1>1 DEF Fated
  <1>4. \A j \in DOMAIN txs : Watched(j)' = Watched(j)
    BY <1>1, <1>3 DEF Watched, Arrived
  <1>5. Known(chain, seen["shielded"]) \subseteq Known(chain', seen'["shielded"])
    BY <1>1
  <1> QED
    BY <1>1, <1>2, <1>3, <1>4, <1>5, SameWatched, ReservedIsThere DEF History

LEMMA RecordedArrived ==
  ASSUME History, NEW e, Recorded(e), NEW j \in DOMAIN txs, Landed(j)' = Landed(j)
  PROVE  Arrived(j)' = Arrived(j)
  <1>1. \A i \in Landed(j) : i \in 1..Len(chain)
    BY DEF Landed
  <1>2. \A i \in 1..Len(chain) : chain'[i] = chain[i]
    BY DEF Recorded
  <1>3. \A i \in 1..Len(chain) : i <= seen'["shielded"] <=> i <= seen["shielded"]
    BY RecordedPlaces, StreamNames
  <1> QED
    BY <1>1, <1>2, <1>3 DEF Arrived

LEMMA PayShown ==
  ASSUME History, ShownInv, NEW c \in Payments, Pay(c) PROVE ShownInv'
  <1>1. /\ UNCHANGED <<coins, pendingSpends, pendingOutputs, txs>>
        /\ \A j \in DOMAIN txs : Landed(j)' = Landed(j)
    BY PayFacts DEF walletVars
  <1>2. PICK e : Recorded(e)
    BY PayFacts
  <1>3. \A j \in DOMAIN txs : Watched(j)' = Watched(j)
    BY <1>1, <1>2, RecordedArrived DEF Watched
  <1>4. Known(chain, seen["shielded"]) \subseteq Known(chain', seen'["shielded"])
    BY <1>2, RecordedPlaces, StreamNames
  <1> QED
    BY <1>1, <1>3, <1>4, SameWatched, ReservedIsThere DEF History

\* a transaction that the stream passes at once holds nothing shielded
LEMMA IncludeShown ==
  ASSUME History, ShownInv, NEW k \in DOMAIN txs, NEW fate \in Landing, Include(k, fate)
  PROVE  ShownInv'
  <1>1. PICK e : /\ Recorded(e) /\ e.tx = k /\ e.fate = fate /\ Fated(k, fate)
                 /\ e.spent = IF fate = "failure" THEN txs[k].ins ELSE Consumed(txs'[k])
                 /\ e.made = Made(txs'[k])
                 /\ e.spends = IF fate = "failure" THEN {} ELSE txs[k].spends
                 /\ txs[k].fate = "open" /\ UNCHANGED walletVars
    BY IncludeFacts
  <1>2. /\ \A j \in DOMAIN txs \ {k} : Landed(j)' = Landed(j)
        /\ Landed(k) = {} /\ Landed(k)' = {Len(chain) + 1}
    BY <1>1, IncludeHistory
  <1>3. UNCHANGED <<coins, pendingSpends, pendingOutputs>>
    BY <1>1 DEF walletVars
  <1>4. /\ DOMAIN txs' = DOMAIN txs
        /\ \A j \in DOMAIN txs : /\ txs'[j].ins = txs[j].ins /\ txs'[j].outs = txs[j].outs
                                 /\ txs'[j].soft = txs[j].soft /\ txs'[j].kept = txs[j].kept
    BY <1>1 DEF Fated
  <1>5. Known(chain, seen["shielded"]) \subseteq Known(chain', seen'["shielded"])
    BY <1>1, RecordedPlaces, StreamNames
  <1>6. \A j \in DOMAIN txs \ {k} : Watched(j)' = Watched(j)
    BY <1>1, <1>2, <1>4, RecordedArrived DEF Watched
  <1>7. Watched(k) = ("shielded" \in txs[k].kept)
    BY <1>2 DEF Watched, Arrived
  <1>8. CASE Watched(k)' = Watched(k)
    <2>1. \A j \in DOMAIN txs : Watched(j)' = Watched(j)
      BY <1>6, <1>8
    <2> QED
      BY <1>3, <1>4, <1>5, <2>1, SameWatched, ReservedIsThere DEF History
  <1>9. CASE Watched(k)' # Watched(k)
    <2>1. "shielded" \in txs[k].kept /\ Arrived(k)'
      BY <1>4, <1>7, <1>9 DEF Watched
    <2>2. Len(chain) + 1 <= seen'["shielded"] /\ fate # "failure"
      <3>1. chain'[Len(chain) + 1] = e
        BY <1>1 DEF Recorded
      <3> QED
        BY <1>1, <1>2, <2>1, <3>1 DEF Arrived
    <2>3. Shielded(e.spent \cup e.made) = {}
      <3>1. "shielded" \notin Carried(e.fate, e.spent \cup e.made, e.spends)
        BY <1>1, <2>2, RecordedPlaces, StreamNames
      <3> QED
        BY <1>1, <2>2, <3>1, NothingCarried
    <2>4. Shielded(txs[k].soft) = {}
      BY <2>1 DEF ShownInv
    <2>5. Shielded(txs[k].ins) = {} /\ Shielded(txs[k].outs) = {}
      <3>1. txs'[k].fate = fate /\ txs'[k].ins = txs[k].ins /\ txs'[k].outs = txs[k].outs
            /\ txs'[k].soft = txs[k].soft
        BY <1>1 DEF Fated
      <3>2. txs[k].ins \subseteq e.spent \cup txs[k].soft /\ txs[k].outs \subseteq e.made \cup txs[k].soft
        BY <1>1, <2>2, <3>1 DEF Consumed, Made, Landing
      <3> QED
        BY <2>3, <2>4, <3>2 DEF Shielded
    <2>6. coins \subseteq Shielded(coins)
      BY CoinsAreShielded
    <2>7. coins \cap WatchedIns' = coins \cap WatchedIns
      <3>1. coins \cap txs[k].ins = {}
        BY <2>5, <2>6 DEF Shielded
      <3> QED
        BY <1>4, <1>6, <3>1, WatchedNext, WatchedNow
    <2>8. Shielded(WatchedOuts') = Shielded(WatchedOuts)
      BY <1>4, <1>6, <2>5, WatchedNext, WatchedNow DEF Shielded
    <2>9. \A j \in DOMAIN txs' : "shielded" \in txs'[j].kept => Shielded(txs'[j].soft) = {}
      BY <1>4 DEF ShownInv
    <2>10. \A j \in DOMAIN txs' : Shielded(txs'[j].ins) \subseteq Known(chain', seen'["shielded"])
      BY <1>4, <1>5 DEF ShownInv
    <2>11. /\ Shielded(WatchedOuts)' = Shielded(WatchedOuts')
           /\ \A j \in DOMAIN txs' : Shielded(txs[j].ins)' = Shielded(txs'[j].ins)
           /\ \A j \in DOMAIN txs' : Shielded(txs[j].soft)' = Shielded(txs'[j].soft)
           /\ Known(chain, seen["shielded"])' = Known(chain', seen'["shielded"])
      BY DEF Shielded, Known
    <2> QED
      BY <1>3, <2>7, <2>8, <2>9, <2>10, <2>11 DEF ShownInv
  <1> QED
    BY <1>8, <1>9

\* what an entry makes is made by no other transaction, and reserved by none
LEMMA MadeByOne ==
  ASSUME History, NEW i \in DOMAIN chain, NEW j \in DOMAIN txs, j # chain[i].tx
  PROVE  txs[j].outs \cap chain[i].made = {}
  <1> DEFINE k == chain[i].tx
  <1>1. j \in Nat /\ 1 <= j /\ \A h \in DOMAIN txs : h \in Nat
    BY TxsKnown DEF History
  <1>2. \A c \in txs[j].outs : NumberedFor(j, c)
    BY DEF History, TxsRight, TxRight, Numbered
  <1>3. CASE k = 0
    <2>1. chain[i].made \subseteq Payments
      BY <1>3 DEF History, EntriesRight, EntryRight
    <2>2. \A c \in Payments : c.id \in Nat /\ c.id <= IdSpan
      BY CoinAssumption DEF CoinAssumption
    <2>3. \A c \in txs[j].outs : c.id \in Int /\ c.id > IdSpan
      BY <1>1, <1>2 DEF NumberedFor, IdSpan
    <2>4. IdSpan \in Nat
      BY DEF IdSpan
    <2>5. \A c \in txs[j].outs : c \notin Payments
      BY <2>2, <2>3, <2>4
    <2> QED
      BY <2>1, <2>5
  <1>4. CASE k # 0
    <2>1. k \in DOMAIN txs /\ chain[i].made = Made(txs[k])
      BY <1>4 DEF History, EntriesRight, EntryRight
    <2>2. Made(txs[k]) \subseteq txs[k].outs
      BY DEF Made
    <2>3. \A c \in txs[k].outs : NumberedFor(k, c)
      BY <2>1 DEF History, TxsRight, TxRight, Numbered
    <2>4. j # k
      OBVIOUS
    <2> HIDE DEF k
    <2> QED
      BY <1>1, <1>2, <2>1, <2>2, <2>3, <2>4, NumbersDiffer
  <1> QED
    BY <1>3, <1>4

\* who is watched for after the shielded stream delivered an entry
LEMMA DeliveredWatched ==
  ASSUME History, NEW j \in DOMAIN txs, Moves("shielded"), UNCHANGED txs,
         seen'["shielded"] = seen["shielded"] + 1, seen'["shielded"] \in 1..Len(chain),
         NEW e, e = chain[seen'["shielded"]]
  PROVE  /\ e.fate = "failure" \/ e.tx # j => Watched(j)' = Watched(j)
         /\ e.fate # "failure" /\ e.tx = j => ~Watched(j)'
  <1> DEFINE i == seen'["shielded"]
  <1>1. i \in Nat /\ seen["shielded"] \in Nat /\ i = seen["shielded"] + 1 /\ i \in 1..Len(chain)
    BY PlacesKnown, StreamNames DEF History
  <1>2. chain' = chain /\ Landed(j)' = Landed(j)
    BY MovesFacts, StreamNames DEF Moves
  <1>3. Landed(j) = {h \in 1..Len(chain) : chain[h].tx = j}
    BY DEF Landed
  <1>4. e = chain[i]
    OBVIOUS
  <1>5. Arrived(j)' = \E h \in Landed(j) : h <= i /\ chain[h].fate # "failure"
    BY <1>2 DEF Arrived
  <1>6. Arrived(j) = \E h \in Landed(j) : h <= seen["shielded"] /\ chain[h].fate # "failure"
    BY DEF Arrived
  <1> HIDE DEF i
  <1>7. ASSUME e.fate = "failure" \/ e.tx # j PROVE Arrived(j)' = Arrived(j)
    <2>1. \A h \in Landed(j) : chain[h].fate # "failure" => h # i
      BY <1>3, <1>4, <1>7
    <2>2. \A h \in Landed(j) : h \in Nat
      BY <1>3
    <2>3. \A h \in Landed(j) : chain[h].fate # "failure" => (h <= i <=> h <= seen["shielded"])
      BY <1>1, <2>1, <2>2
    <2> QED
      BY <1>5, <1>6, <2>3
  <1>8. ASSUME e.fate # "failure", e.tx = j PROVE Arrived(j)'
    <2>1. i \in Landed(j) /\ i <= i
      BY <1>1, <1>3, <1>4, <1>8
    <2> QED
      BY <1>4, <1>5, <1>8, <2>1
  <1> QED
    BY <1>7, <1>8 DEF Watched

LEMMA ApplyShieldedShown ==
  ASSUME History, ShownInv, ApplyShielded PROVE ShownInv'
  <1> DEFINE e == chain[seen["shielded"] + 1]
  <1>1. Advance("shielded")
    BY DEF ApplyShielded
  <1>2. /\ Moves("shielded") /\ seen'["shielded"] = seen["shielded"] + 1
        /\ seen'["shielded"] \in 1..Len(chain) /\ txs' = txs /\ chain' = chain
    BY <1>1, StreamNames, AdvanceMoves DEF Moves
  <1>3. e = chain[seen'["shielded"]]
    BY <1>2
  <1>4. /\ e.fate = "failure" => UNCHANGED <<coins, pendingSpends, pendingOutputs>>
        /\ e.fate # "failure" => /\ coins' = (coins \ e.spent) \cup Shielded(e.made)
                                 /\ pendingSpends' = pendingSpends \ e.spent
                                 /\ pendingOutputs' = pendingOutputs \ e.made
    BY DEF ApplyShielded
  <1>5. Known(chain, seen["shielded"]) \subseteq Known(chain', seen'["shielded"])
    BY <1>2, MovesKnow, StreamNames
  <1>6. EntryRight(e) /\ e.made \cap Known(chain, seen["shielded"]) = {}
    <2>1. /\ seen["shielded"] \in Nat /\ Len(chain) \in Nat /\ DOMAIN chain = 1..Len(chain)
          /\ seen'["shielded"] - 1 = seen["shielded"]
      BY <1>2, PlacesKnown, StreamNames DEF History
    <2>2. chain[seen'["shielded"]].made \cap Known(chain, seen'["shielded"] - 1) = {}
      BY <1>2 DEF History, MadeOnce
    <2>3. EntryRight(chain[seen'["shielded"]])
      BY <1>2, <2>1 DEF History, EntriesRight
    <2> QED
      BY <1>2, <2>1, <2>2, <2>3
  <1>7. ASSUME NEW j \in DOMAIN txs
        PROVE  /\ e.fate = "failure" \/ e.tx # j => Watched(j)' = Watched(j)
               /\ e.fate # "failure" /\ e.tx = j => ~Watched(j)'
    <2> HIDE DEF e
    <2> QED
      BY <1>2, <1>3, DeliveredWatched
  <1>8. ASSUME NEW j \in DOMAIN txs, e.tx # j PROVE txs[j].outs \cap e.made = {}
    <2>1. seen'["shielded"] \in DOMAIN chain
      BY <1>2, PlacesKnown DEF History
    <2> HIDE DEF e
    <2> QED
      BY <1>3, <1>8, <2>1, MadeByOne
  <1> HIDE DEF e
  <1>9. CASE e.fate = "failure"
    <2>1. \A j \in DOMAIN txs : Watched(j)' = Watched(j)
      BY <1>7, <1>9
    <2> QED
      BY <1>2, <1>4, <1>5, <1>9, <2>1, SameWatched, ReservedIsThere DEF History
  <1>10. CASE e.fate # "failure"
    <2>1. ASSUME NEW j \in DOMAIN txs PROVE Shielded(txs[j].ins) \cap e.made = {}
      BY <1>6 DEF ShownInv
    <2>2. ASSUME NEW j \in DOMAIN txs, e.tx = j, Watched(j)
          PROVE  Shielded(txs[j].ins) \subseteq e.spent /\ Shielded(txs[j].outs) \subseteq e.made
      <3>1. Shielded(txs[j].soft) = {}
        BY <2>2 DEF ShownInv, Watched
      <3>2. j # 0
        BY TxsKnown DEF History
      <3>3. /\ txs[j].fate \in Landing /\ txs[j].fate # "failure"
            /\ e.spent = Consumed(txs[j]) /\ e.made = Made(txs[j])
        BY <1>6, <1>10, <2>2, <3>2 DEF EntryRight
      <3>4. /\ txs[j].ins \subseteq e.spent \cup txs[j].soft
            /\ txs[j].outs \subseteq e.made \cup txs[j].soft
        BY <3>3 DEF Consumed, Made, Landing
      <3> QED
        BY <3>1, <3>4 DEF Shielded
    <2>3. pendingSpends' = coins' \cap WatchedIns'
      <3>1. ASSUME NEW c, c \in coins', c \in WatchedIns'
            PROVE  c \in coins /\ c \in WatchedIns /\ c \notin e.spent
        <4>1. PICK j \in DOMAIN txs : Watched(j)' /\ c \in txs[j].ins
          BY <1>2, <3>1, WatchedNext
        <4>2. Watched(j)
          BY <1>7, <1>10, <4>1
        <4>3. c \notin Shielded(e.made)
          BY <2>1, <4>1 DEF Shielded
        <4> QED
          BY <1>4, <1>10, <3>1, <4>1, <4>2, <4>3, WatchedNow
      <3>2. ASSUME NEW c, c \in coins, c \in WatchedIns, c \notin e.spent
            PROVE  c \in coins' /\ c \in WatchedIns'
        <4>1. PICK j \in DOMAIN txs : Watched(j) /\ c \in txs[j].ins
          BY <3>2, WatchedNow
        <4>2. c \in Shielded(txs[j].ins)
          BY <3>2, <4>1, CoinsAreShielded DEF Shielded
        <4>3. e.tx # j
          BY <2>2, <3>2, <4>1, <4>2
        <4>4. Watched(j)'
          BY <1>7, <4>1, <4>3
        <4> QED
          BY <1>2, <1>4, <1>10, <3>2, <4>1, <4>4, WatchedNext
      <3>3. pendingSpends' = (coins \cap WatchedIns) \ e.spent
        BY <1>4, <1>10 DEF ShownInv
      <3> QED
        BY <3>1, <3>2, <3>3
    <2>4. pendingOutputs' = Shielded(WatchedOuts')
      <3>1. ASSUME NEW c, c \in WatchedOuts' PROVE c \in WatchedOuts /\ c \notin e.made
        <4>1. PICK j \in DOMAIN txs : Watched(j)' /\ c \in txs[j].outs
          BY <1>2, <3>1, WatchedNext
        <4>2. Watched(j) /\ e.tx # j
          BY <1>7, <1>10, <4>1
        <4> QED
          BY <1>8, <4>1, <4>2, WatchedNow
      <3>2. ASSUME NEW c, c \in Shielded(WatchedOuts), c \notin e.made PROVE c \in WatchedOuts'
        <4>1. PICK j \in DOMAIN txs : Watched(j) /\ c \in txs[j].outs
          BY <3>2, WatchedNow DEF Shielded
        <4>2. c \in Shielded(txs[j].outs)
          BY <3>2, <4>1 DEF Shielded
        <4>3. e.tx # j
          BY <2>2, <3>2, <4>1, <4>2
        <4>4. Watched(j)'
          BY <1>7, <4>1, <4>3
        <4> QED
          BY <1>2, <4>1, <4>4, WatchedNext
      <3>3. pendingOutputs' = Shielded(WatchedOuts) \ e.made
        BY <1>4, <1>10 DEF ShownInv
      <3> QED
        BY <3>1, <3>2, <3>3 DEF Shielded
    <2>5. \A j \in DOMAIN txs' : "shielded" \in txs'[j].kept => Shielded(txs'[j].soft) = {}
      BY <1>2 DEF ShownInv
    <2>6. \A j \in DOMAIN txs' : Shielded(txs'[j].ins) \subseteq Known(chain', seen'["shielded"])
      BY <1>2, <1>5 DEF ShownInv
    <2>7. /\ Shielded(WatchedOuts)' = Shielded(WatchedOuts')
          /\ \A j \in DOMAIN txs' : Shielded(txs[j].ins)' = Shielded(txs'[j].ins)
          /\ \A j \in DOMAIN txs' : Shielded(txs[j].soft)' = Shielded(txs'[j].soft)
          /\ Known(chain, seen["shielded"])' = Known(chain', seen'["shielded"])
      BY DEF Shielded, Known
    <2> QED
      BY <2>3, <2>4, <2>5, <2>6, <2>7 DEF ShownInv
  <1> QED
    BY <1>9, <1>10

-----------------------------------------------------------------------------
(* What a wallet shows adds up                                             *)

BalanceInv == History /\ CoinsCounted /\ ShownInv

LEMMA BalanceInit ==
  ASSUME BInit PROVE BalanceInv
  <1>1. /\ chain = <<>> /\ txs = <<>> /\ coins = Shielded(InitialCoins)
        /\ pendingSpends = {} /\ pendingOutputs = {}
    BY DEF BInit, Init
  <1>2. Len(chain) = 0 /\ DOMAIN chain = {} /\ DOMAIN txs = {}
    BY <1>1
  <1>3. History
    BY SpendInit DEF SpendInv
  <1>4. CoinsCounted
    <2>1. Counted(InitialCoins)
      BY CoinAssumption DEF CoinAssumption, Counted
    <2> QED
      BY <1>2, <2>1 DEF CoinsCounted, After
  <1>5. ShownInv
    <2>1. WatchedIns = {} /\ WatchedOuts = {}
      BY <1>2, WatchedNow
    <2> QED
      BY <1>1, <1>2, <2>1 DEF ShownInv, Shielded
  <1> QED
    BY <1>3, <1>4, <1>5 DEF BalanceInv

LEMMA BuiltBalance ==
  ASSUME BalanceInv, Inv', NEW x, Built(x), Counted(txs'[Len(txs) + 1].outs) PROVE BalanceInv'
  <1>1. TxsRight' /\ EntriesRight' /\ chain' = chain
    BY BuiltHistory DEF BalanceInv, History, Built
  <1>2. History'
    BY <1>1 DEF BalanceInv, History
  <1> QED
    BY <1>2, BuiltCounted, BuiltShown DEF BalanceInv, History

LEMMA MovedBalance ==
  ASSUME BalanceInv, Inv', NEW q \in Streams, Moves(q), ShownInv' PROVE BalanceInv'
  <1>1. TxsRight' /\ EntriesRight' /\ MadeOnce(chain)'
    BY MovesFacts DEF BalanceInv
  <1> QED
    BY <1>1, MovesCounted DEF BalanceInv, History

LEMMA SyncBalance ==
  ASSUME BalanceInv, Inv', Sync PROVE BalanceInv'
  <1>1. CASE ApplyUnshielded
    BY <1>1, AdvanceMoves, ApplyUnshieldedShown, MovedBalance, StreamNames DEF ApplyUnshielded, BalanceInv
  <1>2. CASE ApplyShielded
    BY <1>2, AdvanceMoves, ApplyShieldedShown, MovedBalance, StreamNames DEF ApplyShielded, BalanceInv
  <1>3. CASE ApplyDust
    BY <1>3, AdvanceMoves, ApplyDustShown, MovedBalance, StreamNames DEF ApplyDust, BalanceInv
  <1>4. CASE ApplyShieldedSpentResponse
    <2>1. Moves("shielded")
      BY <1>4, StillMoves, StreamNames DEF ApplyShieldedSpentResponse, BalanceInv
    <2> QED
      BY <1>4, <2>1, SpentResponseShown, MovedBalance, StreamNames DEF BalanceInv
  <1>5. ASSUME NEW p \in 1..Len(chain), ImportShielded(p) PROVE BalanceInv'
    <2>1. Moves("shielded")
      BY <1>5, ImportMoves, StreamNames DEF ImportShielded, BalanceInv
    <2> QED
      BY <1>5, <2>1, ImportShieldedShown, MovedBalance, StreamNames DEF BalanceInv
  <1>6. ASSUME NEW p \in 1..Len(chain), ImportDust(p) PROVE BalanceInv'
    <2>1. Moves("dust")
      BY <1>6, ImportMoves, StreamNames DEF ImportDust, BalanceInv
    <2> QED
      BY <1>6, <2>1, ImportDustShown, MovedBalance, StreamNames DEF BalanceInv
  <1> QED
    BY <1>1, <1>2, <1>3, <1>4, <1>5, <1>6 DEF Sync

\* steps that leave the coins, the streams and the chain alone
LEMMA IdleBalance ==
  ASSUME BalanceInv, Inv', UNCHANGED <<coins, pendingSpends, pendingOutputs, seen, chain, txs>>
  PROVE  BalanceInv'
  <1>1. Moves("dust")
    BY StillMoves, StreamNames DEF BalanceInv
  <1>2. ShownInv'
    BY IdleShown, ReservedIsThere DEF BalanceInv, History
  <1> QED
    BY <1>1, <1>2, MovedBalance, StreamNames

LEMMA ChainBalance ==
  ASSUME BalanceInv, Inv', Chain PROVE BalanceInv'
  <1>1. ASSUME NEW k \in DOMAIN txs, NEW fate \in Landing, Include(k, fate) PROVE BalanceInv'
    <2>1. PICK e : /\ Recorded(e) /\ e.tx = k /\ e.fate = fate /\ Fated(k, fate)
                   /\ e.spent = IF fate = "failure" THEN txs[k].ins ELSE Consumed(txs'[k])
                   /\ e.made = Made(txs'[k])
                   /\ e.spends = IF fate = "failure" THEN {} ELSE txs[k].spends
                   /\ txs[k].fate = "open"
      BY <1>1, IncludeFacts DEF BalanceInv
    <2>2. TxsRight' /\ EntriesRight' /\ MadeOnce(chain)'
      BY <2>1, IncludeHistory DEF BalanceInv
    <2> QED
      BY <1>1, <2>2, IncludeCounted, IncludeShown DEF BalanceInv, History
  <1>2. ASSUME NEW k \in DOMAIN txs, Drop(k) PROVE BalanceInv'
    <2>1. TxsRight' /\ EntriesRight' /\ chain' = chain
      BY <1>2, DropFacts DEF BalanceInv, History, Drop
    <2> QED
      BY <1>2, <2>1, DropCounted, DropShown DEF BalanceInv, History
  <1>3. ASSUME NEW c \in Payments, Pay(c) PROVE BalanceInv'
    <2>1. TxsRight' /\ EntriesRight' /\ MadeOnce(chain)'
      BY <1>3, PayFacts DEF BalanceInv
    <2> QED
      BY <1>3, <2>1, PayCounted, PayShown DEF BalanceInv, History
  <1>4. ASSUME NEW d \in Nights, Grow(d) \/ Expire(d) PROVE BalanceInv'
    BY <1>4, IdleBalance DEF Grow, Expire
  <1> QED
    BY <1>1, <1>2, <1>3, <1>4 DEF Chain, Landing

LEMMA BalanceStep ==
  ASSUME BalanceInv, BNext \/ UNCHANGED balancingVars PROVE BalanceInv'
  <1>1. Inv'
    BY BalancingStep DEF BalanceInv, History
  <1>2. Len(txs) \in Nat /\ TxsRight /\ Counted(available \cup coins)
    BY TxsKnown, WalletCounted DEF BalanceInv, History
  <1>3. CASE Commands
    BY <1>1, <1>2, <1>3, CommandsBuild, CommandsCounted, BuiltBalance
  <1>4. CASE Sync
    BY <1>1, <1>4, SyncBalance
  <1>5. CASE Chain
    BY <1>1, <1>5, ChainBalance
  <1>6. ASSUME NEW o, NEW price, PreviewBalance(o, price) PROVE BalanceInv'
    BY <1>1, <1>6, IdleBalance DEF PreviewBalance, vars, walletVars
  <1>7. ASSUME NEW o \in Originals, NEW price, NEW m, Execute(o, price, m) PROVE BalanceInv'
    BY <1>1, <1>2, <1>7, ExecutionBuilds, ExecutionCounted, BuiltBalance
  <1>8. CASE UNCHANGED balancingVars
    BY <1>1, <1>8, IdleBalance DEF balancingVars, vars, walletVars
  <1> QED
    BY <1>3, <1>4, <1>5, <1>6, <1>7, <1>8 DEF BNext, Next, BalanceUnsealed, BalanceSealed

LEMMA OfUnion ==
  ASSUME NEW A, NEW B, NEW t PROVE Of(A, t) \cup Of(B, t) = Of(A \cup B, t)
  BY DEF Of

LEMMA BalancesShown ==
  ASSUME BalanceInv PROVE BalancesAddUp
  <1>1. ASSUME NEW t \in UnshieldedTokens
        PROVE  Balance(t) = Total(Of(Unspent(seen["unshielded"]), t))
    <2> DEFINE A == Of(available, t)
               B == Of(pending, t)
               U == After(chain, seen["unshielded"])
    <2>1. /\ available \cap pending = {} /\ available \cup pending = Unshielded(U)
          /\ Counted(U) /\ Unspent(seen["unshielded"]) = U
      BY Accounted, PlacesKnown, StreamNames DEF BalanceInv, History, Inv, CoinsCounted, Unspent, After
    <2>2. Of(Unshielded(U), t) = Of(U, t)
      BY DEF Of, Unshielded
    <2>3. A \cup B = Of(U, t) /\ A \cap B = {}
      <3>1. A \cup B = Of(available \cup pending, t)
        BY OfUnion
      <3>2. A \cap B = {}
        BY <2>1 DEF Of
      <3> QED
        BY <2>1, <2>2, <3>1, <3>2
    <2>4. A \subseteq U /\ B \subseteq U
      BY <2>3 DEF Of
    <2>5. Counted(A) /\ Counted(B)
      BY <2>1, <2>4, PartCounted
    <2>6. Total(A \cup B) = Total(A) + Total(B)
      BY <2>3, <2>5, TotalsAddUp
    <2>7. Balance(t) = Total(A) + Total(B)
      BY DEF Balance
    <2> QED
      BY <2>1, <2>3, <2>6, <2>7
  <1>2. ASSUME NEW t \in ShieldedTokens
        PROVE  Balance(t) = Total(Of(coins \ UNION {x.ins : x \in Remembered}, t))
                              + Total(Of(UNION {x.outs : x \in Remembered}, t))
    <2>1. coins \ pendingSpends = coins \ WatchedIns /\ pendingOutputs = Shielded(WatchedOuts)
      BY DEF BalanceInv, ShownInv
    <2>2. Of(pendingOutputs, t) = Of(WatchedOuts, t)
      BY <2>1 DEF Of, Shielded
    <2>3. t \notin UnshieldedTokens
      BY TokenAssumption DEF TokenAssumption
    <2>4. Balance(t) = Total(Of(coins \ pendingSpends, t)) + Total(Of(pendingOutputs, t))
      BY <2>3 DEF Balance
    <2> QED
      BY <2>1, <2>2, <2>4, WatchedIsRemembered
  <1> QED
    BY <1>1, <1>2 DEF BalancesAddUp

(* What a wallet shows of an unshielded token is what the chain held for   *)
(* it where the stream is, whatever is reserved; of a shielded token it is *)
(* what would be left if all went through that the wallet made and still   *)
(* watches for, be it on its way, failed or dropped.  That holds whatever  *)
(* order commands, answers, imports and the three streams come in, and     *)
(* asks nothing of the host.                                               *)
THEOREM BalancesAreRight == BSpec => []BalancesAddUp
  <1>1. BInit => BalanceInv
    BY BalanceInit
  <1>2. BalanceInv /\ [BNext]_balancingVars => BalanceInv'
    BY BalanceStep
  <1>3. BalanceInv => BalancesAddUp
    BY BalancesShown
  <1> QED
    BY <1>1, <1>2, <1>3, PTL DEF BSpec

-----------------------------------------------------------------------------
(* Sums, the library's folds included                                      *)

\* what holds of the empty set and carries over to one more element
LEMMA SetSteps ==
  ASSUME NEW S, IsFiniteSet(S), NEW G, {} \in G,
         \A s \in SUBSET S : (\E x \in s : s \ {x} \in G) => s \in G
  PROVE  S \in G
  <1> DEFINE Good == {n \in Nat : \A s \in SUBSET S : Cardinality(s) = n => s \in G}
  <1>1. \A s \in SUBSET S : IsFiniteSet(s) /\ Cardinality(s) \in Nat
    BY FS_Subset, FS_CardinalityType
  <1>2. 0 \in Good
    <2>1. \A s \in SUBSET S : Cardinality(s) = 0 => s = {}
      BY <1>1, FS_EmptySet
    <2> QED
      BY <2>1
  <1>3. ASSUME NEW n \in Nat, n \in Good PROVE n + 1 \in Good
    <2>1. ASSUME NEW s \in SUBSET S, Cardinality(s) = n + 1 PROVE s \in G
      <3>1. s # {}
        <4>1. Cardinality({}) = 0 /\ n + 1 # 0
          BY FS_EmptySet
        <4> QED
          BY <2>1, <4>1
      <3>2. PICK x : x \in s
        BY <3>1
      <3>3. Cardinality(s \ {x}) = Cardinality(s) - 1
        BY <1>1, <3>2, FS_RemoveElement
      <3>4. s \ {x} \in SUBSET S /\ Cardinality(s \ {x}) = n
        BY <2>1, <3>3
      <3>5. s \ {x} \in G
        BY <1>3, <3>4
      <3> QED
        BY <3>2, <3>5
    <2> QED
      BY <2>1
  <1>4. Cardinality(S) \in Good
    <2> HIDE DEF Good
    <2>1. \A n \in Nat : n \in Good
      BY <1>2, <1>3, NatSteps
    <2> QED
      BY <1>1, <2>1
  <1> QED
    BY <1>4

\* how a sum over a set is computed, and what it comes to: f is a function into the natural numbers
Chosen(s) == CHOOSE x \in s : TRUE
SumRun(f, S, h) ==
  h = [s \in SUBSET S |-> IF s = {} THEN 0 ELSE f[Chosen(s)] + h[s \ {Chosen(s)}]]
Piles(f, S) == UNION {{x} \X (1 .. f[x]) : x \in S}
SumOf(f, S) == Cardinality(Piles(f, S))

LEMMA SumOfNone ==
  ASSUME NEW f PROVE SumOf(f, {}) = 0
  BY FS_EmptySet DEF SumOf, Piles

LEMMA PileHeight ==
  ASSUME NEW x, NEW n \in Nat
  PROVE  IsFiniteSet({x} \X (1 .. n)) /\ Cardinality({x} \X (1 .. n)) = n
  <1>1. IsFiniteSet({x}) /\ Cardinality({x}) = 1
    BY FS_Singleton
  <1>2. 1 \in Int
    OBVIOUS
  <1>3. IsFiniteSet(1 .. n) /\ Cardinality(1 .. n) = n
    BY <1>2, FS_Interval
  <1> DEFINE A == {x}
             B == 1 .. n
  <1> HIDE DEF A, B
  <1>4. IsFiniteSet(A) /\ IsFiniteSet(B) /\ Cardinality(A) * Cardinality(B) = n
    BY <1>1, <1>3 DEF A, B
  <1>5. IsFiniteSet(A \X B) /\ Cardinality(A \X B) = Cardinality(A) * Cardinality(B)
    BY <1>4, FS_Product
  <1> QED
    BY <1>4, <1>5 DEF A, B

LEMMA PilesAreFinite ==
  ASSUME NEW S, IsFiniteSet(S), NEW f, \A x \in S : f[x] \in Nat
  PROVE  IsFiniteSet(Piles(f, S)) /\ SumOf(f, S) \in Nat
  <1> DEFINE G == {s \in SUBSET S : IsFiniteSet(Piles(f, s))}
  <1>1. {} \in G
    <2>1. Piles(f, {}) = {}
      BY DEF Piles
    <2>2. IsFiniteSet(Piles(f, {}))
      BY <2>1, FS_EmptySet
    <2> QED
      BY <2>2, Zenon
  <1>2. ASSUME NEW s \in SUBSET S, NEW x \in s, s \ {x} \in G PROVE s \in G
    <2>1. Piles(f, s) = Piles(f, s \ {x}) \cup ({x} \X (1 .. f[x]))
      BY DEF Piles
    <2>2. IsFiniteSet({x} \X (1 .. f[x]))
      BY PileHeight
    <2>3. IsFiniteSet(Piles(f, s \ {x}))
      BY <1>2
    <2> DEFINE X == {x} \X (1 .. f[x])
    <2> HIDE DEF X
    <2>4. IsFiniteSet(Piles(f, s))
      <3>1. IsFiniteSet(X) /\ Piles(f, s) = Piles(f, s \ {x}) \cup X
        BY <2>1, <2>2 DEF X
      <3> QED
        BY <2>3, <3>1, FS_Union
    <2> QED
      BY <2>4, Zenon
  <1>3. S \in G
    <2> HIDE DEF G
    <2> QED
      BY <1>1, <1>2, SetSteps
  <1> QED
    BY <1>3, FS_CardinalityType DEF SumOf

LEMMA SumOfStep ==
  ASSUME NEW S, IsFiniteSet(S), NEW f, \A x \in S : f[x] \in Nat, NEW x \in S
  PROVE  SumOf(f, S) = f[x] + SumOf(f, S \ {x})
  <1> DEFINE P == Piles(f, S \ {x})
             X == {x} \X (1 .. f[x])
  <1>1. Piles(f, S) = P \cup X /\ P \cap X = {}
    BY DEF Piles
  <1>2. IsFiniteSet(X) /\ Cardinality(X) = f[x]
    BY PileHeight
  <1>3. IsFiniteSet(P) /\ Cardinality(P) \in Nat
    <2>1. IsFiniteSet(S \ {x})
      BY FS_Subset
    <2> QED
      BY <2>1, PilesAreFinite DEF SumOf
  <1>4. Cardinality(P \cup X) = Cardinality(P) + Cardinality(X) - Cardinality(P \cap X)
    BY <1>2, <1>3, FS_Union
  <1>5. Cardinality(P \cap X) = 0
    BY <1>1, FS_EmptySet
  <1> HIDE DEF P, X
  <1>6. Cardinality(P \cup X) = f[x] + Cardinality(P)
    BY <1>2, <1>3, <1>4, <1>5
  <1> QED
    BY <1>1, <1>6 DEF SumOf, P

LEMMA SumRuns ==
  ASSUME NEW S, IsFiniteSet(S), NEW f, \A x \in S : f[x] \in Nat
  PROVE  /\ \E h : SumRun(f, S, h)
         /\ \A h : SumRun(f, S, h) => h[S] = SumOf(f, S)
  <1>1. ASSUME NEW s \in SUBSET S PROVE IsFiniteSet(s) /\ \A x \in s : f[x] \in Nat
    BY FS_Subset
  <1>2. ASSUME NEW s \in SUBSET S, s # {}
        PROVE  Chosen(s) \in s /\ SumOf(f, s) = f[Chosen(s)] + SumOf(f, s \ {Chosen(s)})
    <2>1. Chosen(s) \in s
      BY <1>2 DEF Chosen
    <2> QED
      BY <1>1, <2>1, SumOfStep
  <1>3. \E h : SumRun(f, S, h)
    <2> DEFINE h == [s \in SUBSET S |-> SumOf(f, s)]
    <2>1. ASSUME NEW s \in SUBSET S
          PROVE  h[s] = IF s = {} THEN 0 ELSE f[Chosen(s)] + h[s \ {Chosen(s)}]
      <3>1. s \ {Chosen(s)} \in SUBSET S
        OBVIOUS
      <3> QED
        BY <1>2, <3>1, SumOfNone
    <2>2. SumRun(f, S, h)
      BY <2>1 DEF SumRun
    <2> QED
      BY <2>2
  <1>4. ASSUME NEW h, SumRun(f, S, h) PROVE h[S] = SumOf(f, S)
    <2> DEFINE N == {n \in Nat : \A s \in SUBSET S : Cardinality(s) = n => h[s] = SumOf(f, s)}
    <2>1. \A s \in SUBSET S : Cardinality(s) \in Nat
      BY <1>1, FS_CardinalityType
    <2>2. 0 \in N
      <3>1. \A s \in SUBSET S : Cardinality(s) = 0 => s = {}
        BY <1>1, FS_EmptySet
      <3>2. h[{}] = 0
        BY <1>4 DEF SumRun
      <3> QED
        BY <3>1, <3>2, SumOfNone
    <2>3. ASSUME NEW n \in Nat, n \in N PROVE n + 1 \in N
      <3>1. ASSUME NEW s \in SUBSET S, Cardinality(s) = n + 1 PROVE h[s] = SumOf(f, s)
        <4>1. s # {}
          BY <3>1, FS_EmptySet
        <4>2. Chosen(s) \in s /\ SumOf(f, s) = f[Chosen(s)] + SumOf(f, s \ {Chosen(s)})
          BY <1>2, <4>1
        <4>3. Cardinality(s \ {Chosen(s)}) = Cardinality(s) - 1
          BY <1>1, <4>2, FS_RemoveElement
        <4>4. s \ {Chosen(s)} \in SUBSET S /\ Cardinality(s \ {Chosen(s)}) = n
          BY <3>1, <4>3
        <4>5. h[s \ {Chosen(s)}] = SumOf(f, s \ {Chosen(s)})
          BY <2>3, <4>4
        <4>6. h[s] = f[Chosen(s)] + h[s \ {Chosen(s)}]
          BY <1>4, <4>1 DEF SumRun
        <4> QED
          BY <4>2, <4>5, <4>6
      <3> QED
        BY <3>1
    <2> HIDE DEF N
    <2>4. Cardinality(S) \in N
      BY <2>1, <2>2, <2>3, NatSteps
    <2> QED
      BY <2>4 DEF N
  <1> QED
    BY <1>3, <1>4

\* the sum of the manifest: what is to be paid
LEMMA DeficitSum ==
  ASSUME NEW o, NEW t, IsFiniteSet(Segments), \A g \in Segments : Deficit(o, t, g) \in Nat
  PROVE  MapThenSumSet(LAMBDA g : Deficit(o, t, g), Segments)
           = SumOf([g \in Segments |-> Deficit(o, t, g)], Segments)
  <1> DEFINE f == [g \in Segments |-> Deficit(o, t, g)]
             h == CHOOSE h : h = [s \in SUBSET Segments |->
                    IF s = {} THEN 0 ELSE Deficit(o, t, Chosen(s)) + h[s \ {Chosen(s)}]]
  <1>1. \A s \in SUBSET Segments : s # {} => f[Chosen(s)] = Deficit(o, t, Chosen(s))
    BY DEF Chosen
  <1>2. PICK e : SumRun(f, Segments, e)
    BY SumRuns
  <1>3. e = [s \in SUBSET Segments |->
               IF s = {} THEN 0 ELSE Deficit(o, t, Chosen(s)) + e[s \ {Chosen(s)}]]
    BY <1>1, <1>2 DEF SumRun
  <1>4. h = [s \in SUBSET Segments |->
               IF s = {} THEN 0 ELSE Deficit(o, t, Chosen(s)) + h[s \ {Chosen(s)}]]
    BY <1>3
  <1>5. SumRun(f, Segments, h)
    BY <1>1, <1>4 DEF SumRun
  <1>6. MapThenSumSet(LAMBDA g : Deficit(o, t, g), Segments) = h[Segments]
    BY DEF MapThenSumSet, MapThenFoldSet, Chosen
  <1> QED
    BY <1>5, <1>6, SumRuns

LEMMA SumOfBoth ==
  ASSUME NEW S, IsFiniteSet(S), NEW f, NEW g, NEW h,
         \A x \in S : f[x] \in Nat /\ g[x] \in Nat /\ h[x] = f[x] + g[x]
  PROVE  SumOf(h, S) = SumOf(f, S) + SumOf(g, S)
  <1> DEFINE G == {s \in SUBSET S : SumOf(h, s) = SumOf(f, s) + SumOf(g, s)}
  <1>1. {} \in G
    BY SumOfNone
  <1>2. ASSUME NEW s \in SUBSET S, NEW x \in s, s \ {x} \in G PROVE s \in G
    <2>1. IsFiniteSet(s) /\ IsFiniteSet(s \ {x})
      BY FS_Subset
    <2>2. /\ \A y \in s : f[y] \in Nat /\ g[y] \in Nat /\ h[y] \in Nat
          /\ h[x] = f[x] + g[x]
      OBVIOUS
    <2>3. /\ SumOf(f, s) = f[x] + SumOf(f, s \ {x})
          /\ SumOf(g, s) = g[x] + SumOf(g, s \ {x})
          /\ SumOf(h, s) = h[x] + SumOf(h, s \ {x})
      BY <2>1, <2>2, SumOfStep
    <2>4. SumOf(f, s \ {x}) \in Nat /\ SumOf(g, s \ {x}) \in Nat
      BY <2>1, <2>2, PilesAreFinite
    <2>5. SumOf(h, s \ {x}) = SumOf(f, s \ {x}) + SumOf(g, s \ {x})
      BY <1>2
    <2>6. SumOf(h, s) = SumOf(f, s) + SumOf(g, s)
      BY <2>2, <2>3, <2>4, <2>5
    <2> QED
      BY <2>6
  <1>3. S \in G
    <2> HIDE DEF G
    <2> QED
      BY <1>1, <1>2, SetSteps
  <1> QED
    BY <1>3

LEMMA SumOfSame ==
  ASSUME NEW S, NEW f, NEW g, \A x \in S : f[x] = g[x] PROVE SumOf(f, S) = SumOf(g, S)
  <1>1. Piles(f, S) = Piles(g, S)
    BY DEF Piles
  <1> QED
    BY <1>1 DEF SumOf

LEMMA TotalOfOne ==
  /\ Total({}) = 0
  /\ \A c : c.value \in Nat => Total({c}) = c.value
  <1>1. Total({}) = 0
    <2>1. Units({}) = {}
      BY DEF Units
    <2> QED
      BY <2>1, FS_EmptySet DEF Total
  <1>2. ASSUME NEW c, c.value \in Nat PROVE Total({c}) = c.value
    <2>1. Units({c}) = {c} \X (1 .. c.value)
      BY DEF Units
    <2>2. Cardinality({c} \X (1 .. c.value)) = c.value
      BY <1>2, PileHeight
    <2> QED
      BY <2>1, <2>2 DEF Total
  <1> QED
    BY <1>1, <1>2

LEMMA TotalGrows ==
  ASSUME NEW B, Counted(B), NEW A, A \subseteq B PROVE Total(A) <= Total(B)
  <1> DEFINE C == B \ A
  <1>4. C \subseteq B /\ A \cap C = {} /\ A \cup C = B
    OBVIOUS
  <1> HIDE DEF C
  <1>1. Counted(A) /\ Counted(C)
    BY <1>4, PartCounted
  <1>2. Total(A \cup C) = Total(A) + Total(C)
    BY <1>4, <1>1, TotalsAddUp
  <1>3. Total(A) \in Nat /\ Total(C) \in Nat
    BY <1>1, UnitsAreFinite
  <1>5. Total(B) = Total(A) + Total(C)
    BY <1>2, <1>4, Zenon
  <1> QED
    BY <1>3, <1>5

\* the total of a family of disjoint sets
LEMMA SumOfTotals ==
  ASSUME NEW S, IsFiniteSet(S), NEW f, f = [x \in S |-> f[x]],
         \A x \in S : Counted(f[x]),
         \A x \in S : \A y \in S \ {x} : f[x] \cap f[y] = {}
  PROVE  Total(UNION {f[x] : x \in S}) = SumOf([x \in S |-> Total(f[x])], S)
  <1> DEFINE tot == [x \in S |-> Total(f[x])]
             Join(s) == UNION {f[x] : x \in s}
             G == {s \in SUBSET S : Total(Join(s)) = SumOf(tot, s)}
  <1>1. {} \in G
    <2>1. Join({}) = {}
      OBVIOUS
    <2> HIDE DEF Join, tot
    <2>2. Total(Join({})) = SumOf(tot, {})
      BY <2>1, TotalOfOne, SumOfNone
    <2> QED
      BY <2>2
  <1>2. Counted(Join(S))
    BY FamilyCounted
  <1>3. ASSUME NEW s \in SUBSET S, NEW x \in s, s \ {x} \in G PROVE s \in G
    <2>1. Join(s) = f[x] \cup Join(s \ {x}) /\ f[x] \cap Join(s \ {x}) = {}
      OBVIOUS
    <2>2. Join(s \ {x}) \subseteq Join(S)
      OBVIOUS
    <2>3. Total(Join(s \ {x})) = SumOf(tot, s \ {x})
      BY <1>3
    <2>4. tot[x] = Total(f[x])
      OBVIOUS
    <2>5. \A y \in s : tot[y] \in Nat
      BY UnitsAreFinite
    <2>6. IsFiniteSet(s)
      BY FS_Subset
    <2> HIDE DEF Join, tot
    <2>7. Total(f[x] \cup Join(s \ {x})) = Total(f[x]) + Total(Join(s \ {x}))
      <3>1. Counted(Join(s \ {x})) /\ Counted(f[x])
        BY <1>2, <2>2, PartCounted
      <3> QED
        BY <2>1, <3>1, TotalsAddUp
    <2>8. SumOf(tot, s) = tot[x] + SumOf(tot, s \ {x})
      BY <2>5, <2>6, SumOfStep
    <2>9. Total(Join(s)) = SumOf(tot, s)
      BY <2>1, <2>3, <2>4, <2>7, <2>8
    <2> QED
      BY <2>9
  <1>4. S \in G
    <2> HIDE DEF G
    <2> QED
      BY <1>1, <1>3, SetSteps
  <1> QED
    BY <1>4

-----------------------------------------------------------------------------
(* What a plan takes and gives back                                        *)

ValueOf(v, k, t) == {Coin(k, t, w, FALSE) : w \in {v} \ {0}}

LEMMA ValueOfCounted ==
  ASSUME NEW v \in Nat, NEW k, NEW t
  PROVE  Counted(ValueOf(v, k, t)) /\ Total(ValueOf(v, k, t)) = v
  <1> DEFINE c == Coin(k, t, v, FALSE)
  <1>1. c.value = v
    BY DEF Coin
  <1>2. ValueOf(v, k, t) = IF v = 0 THEN {} ELSE {c}
    BY DEF ValueOf
  <1> HIDE DEF c
  <1> QED
    BY <1>1, <1>2, OneCounted, TotalOfOne

LEMMA OutputsTotal ==
  ASSUME Len(txs) \in Nat, NEW o, NEW p, NEW t, NEW g \in Segments,
         Change(o, p, t, g) \in Nat, Surplus(o, t, g) \in Nat
  PROVE  /\ Counted(Outputs(o, p, t, g))
         /\ Total(Outputs(o, p, t, g)) = Change(o, p, t, g) + Surplus(o, t, g)
         /\ \A c \in Outputs(o, p, t, g) :
              /\ c.token = t
              /\ c.id = IdSpan * (Len(txs) + 1) + (10 * g + 1) \/ c.id = IdSpan * (Len(txs) + 1) + (10 * g + 2)
  <1> DEFINE A == ValueOf(Change(o, p, t, g), 10 * g + 1, t)
             B == ValueOf(Surplus(o, t, g), 10 * g + 2, t)
             base == IdSpan * (Len(txs) + 1)
  <1>1. Outputs(o, p, t, g) = A \cup B
    BY DEF Outputs, ValueOf
  <1>2. /\ \A c \in A : c.token = t /\ c.id = base + (10 * g + 1)
        /\ \A c \in B : c.token = t /\ c.id = base + (10 * g + 2)
    BY DEF ValueOf, Coin
  <1>3. base \in Int /\ g \in Int
    BY SegmentAssumption DEF SegmentAssumption, IdSpan
  <1>4. Counted(A) /\ Counted(B) /\ Total(A) = Change(o, p, t, g) /\ Total(B) = Surplus(o, t, g)
    BY ValueOfCounted
  <1> HIDE DEF A, B, base
  <1>5. base + (10 * g + 1) # base + (10 * g + 2)
    BY <1>3
  <1>6. A \cap B = {}
    BY <1>2, <1>5
  <1>7. Counted(A \cup B) /\ Total(A \cup B) = Total(A) + Total(B)
    BY <1>4, <1>6, BothCounted, TotalsAddUp
  <1> QED
    BY <1>1, <1>2, <1>4, <1>7 DEF base

LEMMA SegmentsAreFinite == IsFiniteSet(Segments)
  <1>1. Segments \in SUBSET Nat /\ \A g \in Segments : g <= 65536
    BY SegmentAssumption DEF SegmentAssumption
  <1> QED
    BY <1>1, FS_BoundedSetOfNaturals

\* the coins of a plan for one token
LEMMA PickFacts ==
  ASSUME Counted(available \cup coins), NEW o \in Originals, NEW t \in Tokens
  PROVE  /\ Picks(o)[t] = Pick(o, t) /\ Picks(o)[t] = [g \in Segments |-> Picks(o)[t][g]]
         /\ \A g \in Segments :
              /\ Picks(o)[t][g] \subseteq Spendable(t) /\ Counted(Picks(o)[t][g])
              /\ \A c \in Picks(o)[t][g] : c.token = t
              /\ Total(Picks(o)[t][g]) \in Nat
              /\ Deficit(o, t, g) \in Nat /\ Surplus(o, t, g) \in Nat /\ Imbalance(o, t, g) \in Int
              /\ Imbalance(o, t, g) = Surplus(o, t, g) - Deficit(o, t, g)
              /\ \A h \in Segments \ {g} : Picks(o)[t][g] \cap Picks(o)[t][h] = {}
  <1> DEFINE p == Picks(o)
  <1>1. p[t] = Pick(o, t)
    BY DEF Picks
  <1>2. p[t] = [g \in Segments |-> p[t][g]]
    BY <1>1, PickUnfolds
  <1> HIDE DEF p
  <1>3. ASSUME NEW g \in Segments
        PROVE  /\ p[t][g] \subseteq Spendable(t) /\ Counted(p[t][g])
               /\ \A c \in p[t][g] : c.token = t
               /\ Total(p[t][g]) \in Nat
    <2>1. p[t][g] \subseteq Spendable(t)
      BY <1>1, PicksAreSpendable
    <2>2. p[t][g] \subseteq available \cup coins
      BY <2>1, SpendableIsFree
    <2>3. \A c \in p[t][g] : c.token = t
      BY <2>1 DEF Spendable, Of
    <2> QED
      BY <2>1, <2>2, <2>3, PartCounted, UnitsAreFinite
  <1>4. ASSUME NEW g \in Segments
        PROVE  /\ Deficit(o, t, g) \in Nat /\ Surplus(o, t, g) \in Nat /\ Imbalance(o, t, g) \in Int
               /\ Imbalance(o, t, g) = Surplus(o, t, g) - Deficit(o, t, g)
    <2>1. Imbalance(o, t, g) \in Int
      BY OriginalAssumption DEF OriginalAssumption, Imbalance
    <2> QED
      BY <2>1 DEF Deficit, Surplus
  <1>5. ASSUME NEW g \in Segments, NEW h \in Segments, g # h PROVE p[t][g] \cap p[t][h] = {}
    <2>1. g \in Int /\ h \in Int /\ (g < h \/ h < g)
      BY <1>5, SegmentAssumption DEF SegmentAssumption
    <2>2. g \in Below(h) \/ h \in Below(g)
      BY <2>1 DEF Below
    <2> QED
      BY <1>1, <2>2, PicksAreSpendable
  <1> QED
    BY <1>1, <1>2, <1>3, <1>4, <1>5 DEF p

\* what a plan brings into and takes out of a merged transaction, for one token
LEMMA CounterofferOf ==
  ASSUME Counted(available \cup coins), Len(txs) \in Nat, NEW o \in Originals, NEW t \in Tokens
  PROVE  LET p == Picks(o)
             x == Counteroffer(o, p)
         IN  /\ Of(x.ins, t) = UNION {p[t][g] : g \in Segments}
             /\ Of(x.outs, t) = UNION {Outputs(o, p, t, g) : g \in Segments}
  <1> DEFINE p == Picks(o)
             x == Counteroffer(o, p)
  <1>1. \A r \in Tokens, g \in Segments : \A c \in p[r][g] : c.token = r
    BY PickFacts
  <1>2. \A r, g : \A c \in Outputs(o, p, r, g) : c.token = r
    BY DEF Outputs, Coin
  <1> HIDE DEF p
  <1>3. /\ x.ins = UNION {p[s[1]][s[2]] : s \in Tokens \X Segments}
        /\ x.outs = UNION {Outputs(o, p, s[1], s[2]) : s \in Tokens \X Segments}
    BY DEF Counteroffer
  <1> HIDE DEF x
  <1>4. ASSUME NEW c PROVE c \in Of(x.ins, t) <=> \E g \in Segments : c \in p[t][g]
    <2>1. ASSUME NEW g \in Segments, c \in p[t][g] PROVE c \in x.ins /\ c.token = t
      <3>1. <<t, g>> \in Tokens \X Segments /\ <<t, g>>[1] = t /\ <<t, g>>[2] = g
        OBVIOUS
      <3> QED
        BY <1>1, <1>3, <2>1, <3>1
    <2>2. ASSUME c \in x.ins, c.token = t PROVE \E g \in Segments : c \in p[t][g]
      <3>1. PICK s \in Tokens \X Segments : c \in p[s[1]][s[2]]
        BY <1>3, <2>2
      <3>2. s[1] \in Tokens /\ s[2] \in Segments
        OBVIOUS
      <3>3. s[1] = t
        BY <1>1, <2>2, <3>1, <3>2
      <3> QED
        BY <3>1, <3>2, <3>3
    <2> QED
      BY <2>1, <2>2 DEF Of
  <1>5. ASSUME NEW c PROVE c \in Of(x.outs, t) <=> \E g \in Segments : c \in Outputs(o, p, t, g)
    <2>1. ASSUME NEW g \in Segments, c \in Outputs(o, p, t, g) PROVE c \in x.outs /\ c.token = t
      <3>1. <<t, g>> \in Tokens \X Segments /\ <<t, g>>[1] = t /\ <<t, g>>[2] = g
        OBVIOUS
      <3> QED
        BY <1>2, <1>3, <2>1, <3>1
    <2>2. ASSUME c \in x.outs, c.token = t PROVE \E g \in Segments : c \in Outputs(o, p, t, g)
      <3>1. PICK s \in Tokens \X Segments : c \in Outputs(o, p, s[1], s[2])
        BY <1>3, <2>2
      <3>2. s[1] \in Tokens /\ s[2] \in Segments
        OBVIOUS
      <3>3. s[1] = t
        BY <1>2, <2>2, <3>1, <3>2
      <3> QED
        BY <3>1, <3>2, <3>3
    <2> QED
      BY <2>1, <2>2 DEF Of
  <1>6. Of(x.ins, t) = UNION {p[t][g] : g \in Segments}
    BY <1>4
  <1>7. Of(x.outs, t) = UNION {Outputs(o, p, t, g) : g \in Segments}
    BY <1>5
  <1> QED
    BY <1>6, <1>7 DEF x, p

\* outputs of different segments are different coins
LEMMA OutputsDiffer ==
  ASSUME Len(txs) \in Nat, NEW o, NEW p, NEW t, NEW g \in Segments, NEW h \in Segments, g # h,
         \A i \in Segments : Change(o, p, t, i) \in Nat /\ Surplus(o, t, i) \in Nat
  PROVE  Outputs(o, p, t, g) \cap Outputs(o, p, t, h) = {}
  <1> DEFINE base == IdSpan * (Len(txs) + 1)
  <1>1. \A i \in Segments : \A c \in Outputs(o, p, t, i) :
          c.id = base + (10 * i + 1) \/ c.id = base + (10 * i + 2)
    BY OutputsTotal
  <1>2. base \in Int /\ g \in Int /\ h \in Int
    BY SegmentAssumption DEF SegmentAssumption, IdSpan
  <1> HIDE DEF base
  <1>3. /\ base + (10 * g + 1) # base + (10 * h + 1) /\ base + (10 * g + 1) # base + (10 * h + 2)
        /\ base + (10 * g + 2) # base + (10 * h + 1) /\ base + (10 * g + 2) # base + (10 * h + 2)
    BY <1>2
  <1> QED
    BY <1>1, <1>3

LEMMA PlanTotals ==
  ASSUME Counted(available \cup coins), Len(txs) \in Nat, NEW o \in Originals, NEW t \in Tokens,
         Covered(o, Picks(o))
  PROVE  LET p == Picks(o)
             x == Counteroffer(o, p)
             owed == SumOf([g \in Segments |-> Deficit(o, t, g)], Segments)
             back == SumOf([g \in Segments |-> Change(o, p, t, g) + Surplus(o, t, g)], Segments)
         IN  /\ Total(Of(x.outs, t)) = back
             /\ Total(Of(x.ins, t)) - Total(Of(x.outs, t)) <= owed
  <1> DEFINE p == Picks(o)
             x == Counteroffer(o, p)
             def == [g \in Segments |-> Deficit(o, t, g)]
             sur == [g \in Segments |-> Surplus(o, t, g)]
             chg == [g \in Segments |-> Change(o, p, t, g)]
             ret == [g \in Segments |-> Change(o, p, t, g) + Surplus(o, t, g)]
             take == [g \in Segments |-> Total(p[t][g])]
             out == [g \in Segments |-> Outputs(o, p, t, g)]
             tout == [g \in Segments |-> Total(out[g])]
  <1>1. /\ p[t] = [g \in Segments |-> p[t][g]]
        /\ \A g \in Segments : /\ Counted(p[t][g]) /\ Total(p[t][g]) \in Nat
                               /\ Deficit(o, t, g) \in Nat /\ Surplus(o, t, g) \in Nat
                               /\ \A h \in Segments \ {g} : p[t][g] \cap p[t][h] = {}
    BY PickFacts
  <1>2. /\ Of(x.ins, t) = UNION {p[t][g] : g \in Segments}
        /\ Of(x.outs, t) = UNION {Outputs(o, p, t, g) : g \in Segments}
    BY CounterofferOf
  <1>3. \A g \in Segments : Change(o, p, t, g) >= 0
    BY DEF Covered
  <1> HIDE DEF p, x
  <1>4. \A g \in Segments : /\ Change(o, p, t, g) \in Nat
                            /\ Total(p[t][g]) = Change(o, p, t, g) + Deficit(o, t, g)
    BY <1>1, <1>3 DEF Change
  <1>5. IsFiniteSet(Segments)
    BY SegmentsAreFinite
  <1>6. Total(Of(x.ins, t)) = SumOf(take, Segments)
    BY <1>1, <1>2, <1>5, SumOfTotals
  <1>7. ASSUME NEW g \in Segments
        PROVE  /\ Counted(out[g]) /\ tout[g] = ret[g]
               /\ \A h \in Segments \ {g} : out[g] \cap out[h] = {}
    BY <1>1, <1>4, OutputsTotal, OutputsDiffer
  <1>8. Total(Of(x.outs, t)) = SumOf(ret, Segments)
    <2>1. out = [g \in Segments |-> out[g]]
      OBVIOUS
    <2>2. Of(x.outs, t) = UNION {out[g] : g \in Segments}
      BY <1>2
    <2> HIDE DEF out, ret
    <2>3. Total(UNION {out[g] : g \in Segments}) = SumOf(tout, Segments)
      BY <1>5, <1>7, <2>1, SumOfTotals
    <2>4. SumOf(tout, Segments) = SumOf(ret, Segments)
      BY <1>7, SumOfSame
    <2> QED
      BY <2>2, <2>3, <2>4
  <1>9. \A g \in Segments : /\ def[g] \in Nat /\ sur[g] \in Nat /\ chg[g] \in Nat /\ ret[g] \in Nat
                            /\ take[g] = chg[g] + def[g] /\ ret[g] = chg[g] + sur[g]
    BY <1>1, <1>4
  <1> HIDE DEF def, sur, chg, ret, take
  <1>10. /\ SumOf(take, Segments) = SumOf(chg, Segments) + SumOf(def, Segments)
         /\ SumOf(ret, Segments) = SumOf(chg, Segments) + SumOf(sur, Segments)
    BY <1>5, <1>9, SumOfBoth
  <1>11. /\ SumOf(chg, Segments) \in Nat /\ SumOf(def, Segments) \in Nat /\ SumOf(sur, Segments) \in Nat
    BY <1>5, <1>9, PilesAreFinite
  <1>12. SumOf(take, Segments) - SumOf(ret, Segments) <= SumOf(def, Segments)
    BY <1>10, <1>11
  <1>13. Total(Of(x.ins, t)) - Total(Of(x.outs, t)) <= SumOf(def, Segments)
    BY <1>6, <1>8, <1>12
  <1> QED
    BY <1>8, <1>13 DEF def, ret, x, p

-----------------------------------------------------------------------------
(* What a search for DUST comes to                                         *)

Ordered(cs) ==
  /\ IsFiniteSet(cs)
  /\ \A c \in cs : c.value \in Nat /\ c.id \in Int
  /\ \A c, d \in cs : c.id = d.id => c = d
Earlier(cs, c) == {d \in cs : Before(d, c)}

LEMMA BeforeOrders ==
  ASSUME NEW cs, Ordered(cs), NEW c \in cs, NEW d \in cs
  PROVE  /\ ~Before(c, c)
         /\ c = d \/ Before(c, d) \/ Before(d, c)
         /\ \A e \in cs : Before(c, d) /\ Before(d, e) => Before(c, e)
  BY DEF Ordered, Before

LEMMA RankGrows ==
  ASSUME NEW cs, Ordered(cs), NEW c \in cs, NEW d \in cs, Before(c, d)
  PROVE  /\ Cardinality(Earlier(cs, c)) \in Nat /\ Cardinality(Earlier(cs, d)) \in Nat
         /\ Cardinality(Earlier(cs, c)) + 1 <= Cardinality(Earlier(cs, d))
  <1> DEFINE A == Earlier(cs, c)
             B == Earlier(cs, d)
  <1>1. A \subseteq cs /\ B \subseteq cs /\ c \notin A /\ A \cup {c} \subseteq B
    BY BeforeOrders DEF Earlier
  <1> HIDE DEF A, B
  <1>2. IsFiniteSet(A) /\ IsFiniteSet(B) /\ Cardinality(A) \in Nat /\ Cardinality(B) \in Nat
    BY <1>1, FS_Subset, FS_CardinalityType DEF Ordered
  <1>3. Cardinality(A \cup {c}) = Cardinality(A) + 1
    BY <1>1, <1>2, FS_AddElement
  <1>4. Cardinality(A \cup {c}) <= Cardinality(B)
    BY <1>1, <1>2, FS_Subset
  <1> QED
    BY <1>2, <1>3, <1>4 DEF A, B

\* the coins come one at a time
LEMMA FirstNext ==
  ASSUME NEW cs, Ordered(cs), NEW n \in Nat
  PROVE  \/ First(cs, n + 1) = First(cs, n)
         \/ \E c \in cs : /\ c \notin First(cs, n) /\ First(cs, n + 1) = First(cs, n) \cup {c}
                          /\ Earlier(cs, c) = First(cs, n)
  <1>1. /\ First(cs, n) = {c \in cs : Cardinality(Earlier(cs, c)) < n}
        /\ First(cs, n + 1) = {c \in cs : Cardinality(Earlier(cs, c)) < n + 1}
    BY DEF First, Earlier
  <1>2. ASSUME NEW c \in cs PROVE Cardinality(Earlier(cs, c)) \in Nat
    <2>1. IsFiniteSet(Earlier(cs, c))
      BY FS_Subset DEF Earlier, Ordered
    <2> QED
      BY <2>1, FS_CardinalityType
  <1>3. CASE \A c \in cs : Cardinality(Earlier(cs, c)) # n
    <2>1. \A c \in cs : Cardinality(Earlier(cs, c)) < n + 1 <=> Cardinality(Earlier(cs, c)) < n
      BY <1>2, <1>3
    <2> QED
      BY <1>1, <2>1
  <1>4. ASSUME NEW c \in cs, Cardinality(Earlier(cs, c)) = n
        PROVE  /\ c \notin First(cs, n) /\ First(cs, n + 1) = First(cs, n) \cup {c}
               /\ Earlier(cs, c) = First(cs, n)
    <2>1. ASSUME NEW d \in cs
          PROVE  /\ Before(d, c) <=> Cardinality(Earlier(cs, d)) < n
                 /\ d # c => Cardinality(Earlier(cs, d)) # n
      <3>1. CASE d = c
        BY <1>4, <3>1, BeforeOrders
      <3>2. CASE Before(d, c)
        <4>1. Cardinality(Earlier(cs, d)) + 1 <= n
          BY <1>4, <3>2, RankGrows
        <4> QED
          BY <1>2, <3>2, <4>1
      <3>3. CASE Before(c, d)
        <4>1. n + 1 <= Cardinality(Earlier(cs, d))
          BY <1>4, <3>3, RankGrows
        <4>2. ~Before(d, c)
          BY <3>3, BeforeOrders
        <4> QED
          BY <1>2, <4>1, <4>2
      <3> QED
        BY <3>1, <3>2, <3>3, BeforeOrders
    <2>2. Earlier(cs, c) = First(cs, n)
      BY <1>1, <2>1 DEF Earlier
    <2>3. \A d \in cs : Cardinality(Earlier(cs, d)) < n + 1 <=> Cardinality(Earlier(cs, d)) < n \/ d = c
      BY <1>2, <1>4, <2>1
    <2>4. c \notin First(cs, n)
      BY <1>1, <1>4
    <2> QED
      BY <1>1, <2>2, <2>3, <2>4
  <1> QED
    BY <1>3, <1>4

Given(cs, target, c) ==
  LET left == target - Total(Earlier(cs, c))
  IN  IF left <= 0 THEN 0 ELSE IF left < c.value THEN left ELSE c.value

LEMMA GivenFacts ==
  ASSUME NEW cs, Ordered(cs), NEW target \in Nat, NEW c \in cs
  PROVE  Given(cs, target, c) \in Nat /\ Given(cs, target, c) <= c.value
  <1>1. Counted(Earlier(cs, c))
    <2>1. Counted(cs)
      BY DEF Ordered, Counted
    <2> QED
      BY <2>1, PartCounted DEF Earlier
  <1>2. Total(Earlier(cs, c)) \in Nat /\ c.value \in Nat
    BY <1>1, UnitsAreFinite DEF Ordered
  <1> QED
    BY <1>2 DEF Given

\* as many coins as are worth the target give exactly the target
LEMMA GivenAddUp ==
  ASSUME NEW cs, Ordered(cs), NEW target \in Nat, NEW f, \A c \in cs : f[c] = Given(cs, target, c)
  PROVE  \A n \in Nat : SumOf(f, First(cs, n)) = IF Total(First(cs, n)) <= target
                                                 THEN Total(First(cs, n)) ELSE target
  <1> DEFINE Goal(n) == SumOf(f, First(cs, n)) = IF Total(First(cs, n)) <= target
                                                 THEN Total(First(cs, n)) ELSE target
             N == {n \in Nat : Goal(n)}
  <1>1. Counted(cs) /\ \A c \in cs : f[c] \in Nat /\ c.value \in Nat
    BY GivenFacts DEF Counted, Ordered
  <1>2. 0 \in N
    <2>1. \A c \in cs : Cardinality(Earlier(cs, c)) \in Nat
      <3>1. ASSUME NEW c \in cs PROVE IsFiniteSet(Earlier(cs, c))
        BY FS_Subset DEF Earlier, Ordered
      <3> QED
        BY <3>1, FS_CardinalityType
    <2>2. First(cs, 0) = {}
      BY <2>1 DEF First, Earlier
    <2>3. Goal(0)
      BY <2>2, SumOfNone, TotalOfOne
    <2> HIDE DEF Goal
    <2> QED
      BY <2>3
  <1>3. ASSUME NEW n \in Nat, n \in N PROVE n + 1 \in N
    <2>1. Goal(n)
      BY <1>3
    <2>2. ASSUME NEW c \in cs, c \notin First(cs, n), First(cs, n + 1) = First(cs, n) \cup {c},
                 Earlier(cs, c) = First(cs, n)
          PROVE  Goal(n + 1)
      <3> DEFINE A == First(cs, n)
                 B == A \cup {c}
      <3>1. A \subseteq cs /\ B \subseteq cs /\ c \in B /\ B \ {c} = A /\ A \cap {c} = {}
        BY <2>2 DEF First
      <3>2. Earlier(cs, c) = A /\ First(cs, n + 1) = B
        BY <2>2
      <3>3. SumOf(f, A) = IF Total(A) <= target THEN Total(A) ELSE target
        BY <2>1
      <3> HIDE DEF A
      <3>4. Counted(A) /\ Counted({c}) /\ Total({c}) = c.value
        <4>1. Counted({c})
          BY <1>1, <3>1, PartCounted
        <4> QED
          BY <1>1, <3>1, <4>1, PartCounted, TotalOfOne
      <3>5. Total(B) = Total(A) + c.value
        BY <3>1, <3>4, TotalsAddUp
      <3> HIDE DEF B
      <3>6. SumOf(f, B) = f[c] + SumOf(f, A)
        <4>1. IsFiniteSet(B) /\ \A x \in B : f[x] \in Nat
          BY <1>1, <3>1, FS_Subset DEF Ordered
        <4>2. SumOf(f, B) = f[c] + SumOf(f, B \ {c})
          BY <3>1, <4>1, SumOfStep
        <4> QED
          BY <3>1, <4>2
      <3>7. Total(A) \in Nat
        BY <3>4, UnitsAreFinite
      <3>8. f[c] = LET left == target - Total(A)
                   IN  IF left <= 0 THEN 0 ELSE IF left < c.value THEN left ELSE c.value
        BY <3>2 DEF Given
      <3>9. SumOf(f, B) = IF Total(B) <= target THEN Total(B) ELSE target
        BY <1>1, <3>3, <3>5, <3>6, <3>7, <3>8
      <3> QED
        BY <3>2, <3>9
    <2>3. First(cs, n + 1) = First(cs, n) => Goal(n + 1)
      BY <2>1
    <2>4. Goal(n + 1)
      <3> HIDE DEF Goal
      <3> QED
        BY <2>2, <2>3, FirstNext
    <2> HIDE DEF Goal
    <2> QED
      BY <2>4
  <1>4. \A n \in Nat : n \in N
    <2> HIDE DEF N
    <2> QED
      BY <1>2, <1>3, NatSteps
  <1> QED
    BY <1>4

LEMMA SpendSum ==
  ASSUME NEW s, IsFiniteSet(DOMAIN s), \A d \in DOMAIN s : s[d] \in Nat
  PROVE  MapThenSumSet(LAMBDA d : s[d], DOMAIN s) = SumOf(s, DOMAIN s)
  <1> DEFINE S == DOMAIN s
             h == CHOOSE h : h = [z \in SUBSET S |->
                    IF z = {} THEN 0 ELSE s[Chosen(z)] + h[z \ {Chosen(z)}]]
  <1>1. \E e : SumRun(s, S, e)
    BY SumRuns
  <1>2. SumRun(s, S, h)
    BY <1>1 DEF SumRun
  <1>3. MapThenSumSet(LAMBDA d : s[d], DOMAIN s) = h[S]
    BY DEF MapThenSumSet, MapThenFoldSet, Chosen
  <1> QED
    BY <1>2, <1>3, SumRuns

LEMMA AmountSum ==
  ASSUME NEW X, IsFiniteSet(X), \A s \in X : s.amount \in Nat
  PROVE  MapThenSumSet(LAMBDA s : s.amount, X) = SumOf([s \in X |-> s.amount], X)
  <1> DEFINE f == [s \in X |-> s.amount]
             h == CHOOSE h : h = [z \in SUBSET X |->
                    IF z = {} THEN 0 ELSE Chosen(z).amount + h[z \ {Chosen(z)}]]
  <1>1. \A z \in SUBSET X : z # {} => f[Chosen(z)] = Chosen(z).amount
    BY DEF Chosen
  <1>2. PICK e : SumRun(f, X, e)
    BY SumRuns
  <1>3. e = [z \in SUBSET X |-> IF z = {} THEN 0 ELSE Chosen(z).amount + e[z \ {Chosen(z)}]]
    BY <1>1, <1>2 DEF SumRun
  <1>4. h = [z \in SUBSET X |-> IF z = {} THEN 0 ELSE Chosen(z).amount + h[z \ {Chosen(z)}]]
    BY <1>3
  <1>5. SumRun(f, X, h)
    BY <1>1, <1>4 DEF SumRun
  <1>6. MapThenSumSet(LAMBDA s : s.amount, X) = h[X]
    BY DEF MapThenSumSet, MapThenFoldSet, Chosen
  <1> QED
    BY <1>5, <1>6, SumRuns

\* the sum of the manifest: what comes back
LEMMA ChangeSum ==
  ASSUME NEW o, NEW p, NEW t, IsFiniteSet(Segments),
         \A g \in Segments : Change(o, p, t, g) + Surplus(o, t, g) \in Nat
  PROVE  MapThenSumSet(LAMBDA g : Change(o, p, t, g) + Surplus(o, t, g), Segments)
           = SumOf([g \in Segments |-> Change(o, p, t, g) + Surplus(o, t, g)], Segments)
  <1> DEFINE D(g) == Change(o, p, t, g) + Surplus(o, t, g)
             f == [g \in Segments |-> D(g)]
             h == CHOOSE h : h = [z \in SUBSET Segments |->
                    IF z = {} THEN 0 ELSE D(Chosen(z)) + h[z \ {Chosen(z)}]]
  <1>1. \A z \in SUBSET Segments : z # {} => f[Chosen(z)] = D(Chosen(z))
    BY DEF Chosen
  <1>2. PICK e : SumRun(f, Segments, e)
    BY SumRuns
  <1>3. e = [z \in SUBSET Segments |-> IF z = {} THEN 0 ELSE D(Chosen(z)) + e[z \ {Chosen(z)}]]
    BY <1>1, <1>2 DEF SumRun
  <1>4. h = [z \in SUBSET Segments |-> IF z = {} THEN 0 ELSE D(Chosen(z)) + h[z \ {Chosen(z)}]]
    BY <1>3
  <1>5. SumRun(f, Segments, h)
    BY <1>1, <1>4 DEF SumRun
  <1>6. MapThenSumSet(LAMBDA g : Change(o, p, t, g) + Surplus(o, t, g), Segments) = h[Segments]
    BY DEF MapThenSumSet, MapThenFoldSet, Chosen
  <1> QED
    BY <1>5, <1>6, SumRuns

\* what the search has found so far
Affords(cs, s) ==
  /\ DOMAIN s \subseteq cs /\ s = [d \in DOMAIN s |-> s[d]]
  /\ \A d \in DOMAIN s : s[d] \in Nat /\ s[d] <= d.value
SearchSound(cs, price, parts, own, s) ==
  /\ s = [target |-> s.target, n |-> s.n, spends |-> s.spends, end |-> s.end]
  /\ Affords(cs, s.spends)
  /\ s.end \in {"searching", "paid"} => s.target \in Nat
  /\ s.n \in Nat
  /\ s.end = "paid" => /\ s.target = Shortfall(price, parts, own, s.spends)
                       /\ SumOf(s.spends, DOMAIN s.spends) = s.target

LEMMA NoSpendsFacts ==
  ASSUME NEW cs
  PROVE  Affords(cs, NoSpends) /\ DOMAIN NoSpends = {} /\ SumOf(NoSpends, DOMAIN NoSpends) = 0
  <1>1. DOMAIN NoSpends = {} /\ NoSpends = [d \in DOMAIN NoSpends |-> NoSpends[d]]
    BY DEF NoSpends
  <1> QED
    BY <1>1, SumOfNone DEF Affords

LEMMA FeeIsNat ==
  ASSUME NEW price \in Nat, NEW parts \in Nat, NEW s, IsFiniteSet(DOMAIN s)
  PROVE  Fee(price, parts, s) \in Nat
  <1>1. Cardinality(DOMAIN s) \in Nat
    BY FS_CardinalityType
  <1>2. Cardinality({d \in DOMAIN s : s[d] > 2}) \in Nat
    <2>1. IsFiniteSet({d \in DOMAIN s : s[d] > 2})
      BY FS_Subset
    <2> QED
      BY <2>1, FS_CardinalityType
  <1>3. price * (parts + Cardinality(DOMAIN s)) \in Nat
    BY <1>1
  <1> QED
    BY <1>2, <1>3 DEF Fee

LEMMA ShortfallIsInt ==
  ASSUME NEW price \in Nat, NEW parts \in Nat, NEW own \in Nat, NEW s, IsFiniteSet(DOMAIN s)
  PROVE  Shortfall(price, parts, own, s) \in Int
  <1>1. Fee(price, parts, s) \in Nat
    BY FeeIsNat
  <1> QED
    BY <1>1 DEF Shortfall

LEMMA DeductionsPay ==
  ASSUME NEW cs, Ordered(cs), NEW m \in Nat, NEW target \in Nat, Counts(cs, m, target) # {}
  PROVE  LET n == Min(Counts(cs, m, target))
             s == Deductions(cs, n, target)
         IN  /\ n \in Nat /\ Affords(cs, s) /\ IsFiniteSet(DOMAIN s)
             /\ SumOf(s, DOMAIN s) = target
  <1> DEFINE N == Counts(cs, m, target)
             n == Min(N)
             s == Deductions(cs, n, target)
             f == [c \in cs |-> Given(cs, target, c)]
  <1>1. N \in SUBSET Nat
    <2>1. Cardinality(cs) \in Nat
      BY FS_CardinalityType DEF Ordered
    <2> QED
      BY <2>1 DEF Counts
  <1>2. n \in N
    <2> HIDE DEF N
    <2>1. \E x \in N : \A y \in N : x <= y
      BY <1>1, LeastOfNat DEF N
    <2> QED
      BY <2>1 DEF Min
  <1>3. n \in Nat /\ Total(First(cs, n)) >= target
    BY <1>1, <1>2 DEF Counts
  <1> HIDE DEF n, N
  <1>4. /\ DOMAIN s = First(cs, n) /\ First(cs, n) \subseteq cs
        /\ s = [c \in First(cs, n) |-> Given(cs, target, c)]
    BY DEF Deductions, Given, Earlier, First
  <1> HIDE DEF s
  <1>5. Affords(cs, s)
    <2>1. \A c \in First(cs, n) : Given(cs, target, c) \in Nat /\ Given(cs, target, c) <= c.value
      BY <1>4, GivenFacts
    <2> QED
      BY <1>4, <2>1 DEF Affords
  <1>6. IsFiniteSet(DOMAIN s)
    BY <1>4, FS_Subset DEF Ordered
  <1>7. SumOf(s, DOMAIN s) = target
    <2>1. SumOf(f, First(cs, n)) = IF Total(First(cs, n)) <= target THEN Total(First(cs, n)) ELSE target
      BY <1>3, GivenAddUp
    <2>2. Total(First(cs, n)) \in Nat
      <3>1. Counted(cs)
        BY DEF Ordered, Counted
      <3> QED
        BY <1>4, <3>1, PartCounted, UnitsAreFinite
    <2>3. \A c \in First(cs, n) : s[c] = f[c]
      BY <1>4
    <2>4. SumOf(s, First(cs, n)) = SumOf(f, First(cs, n))
      BY <2>3, SumOfSame
    <2> QED
      BY <1>3, <1>4, <2>1, <2>2, <2>4
  <1> QED
    BY <1>3, <1>5, <1>6, <1>7 DEF s, n, N

LEMMA SearchPays ==
  ASSUME NEW cs, Ordered(cs), NEW price \in Nat, NEW parts \in Nat, NEW own \in Nat, NEW rounds \in Nat
  PROVE  SearchSound(cs, price, parts, own, DustSearch(cs, price, parts, own, rounds))
  <1>1. PICK f : /\ SearchRun(cs, price, parts, own, rounds, f)
                 /\ DustSearch(cs, price, parts, own, rounds) = f[rounds]
    BY SearchUnfolds
  <1> DEFINE Sound(s) == SearchSound(cs, price, parts, own, s)
             Good == {r \in Nat : r <= rounds => Sound(f[r])}
  <1>2. 0 \in Good
    <2>1. f[0] = SearchStart(price, parts, own)
      BY <1>1 DEF SearchRun
    <2> DEFINE short == Shortfall(price, parts, own, NoSpends)
               end == IF short < 0 THEN "surplus" ELSE IF short = 0 THEN "paid" ELSE "searching"
    <2>2. SearchStart(price, parts, own) = [target |-> short, n |-> 0, spends |-> NoSpends, end |-> end]
      BY DEF SearchStart
    <2>3. short \in Int
      BY NoSpendsFacts, FS_EmptySet, ShortfallIsInt
    <2>4. SumOf(NoSpends, DOMAIN NoSpends) = 0
      BY NoSpendsFacts
    <2>5. short = Shortfall(price, parts, own, NoSpends)
      OBVIOUS
    <2> HIDE DEF short
    <2>7. end = "paid" => SumOf(NoSpends, DOMAIN NoSpends) = short
      BY <2>4
    <2>8. end \in {"searching", "paid"} => short \in Nat
      BY <2>3
    <2> HIDE DEF end
    <2>6. Sound(f[0])
      BY <2>1, <2>2, <2>5, <2>7, <2>8, NoSpendsFacts DEF SearchSound
    <2> HIDE DEF Sound
    <2> QED
      BY <2>6
  <1>3. ASSUME NEW s, Sound(s) PROVE Sound(SearchNext(cs, price, parts, own, s))
    <2>1. CASE s.end # "searching"
      BY <1>3, <2>1 DEF SearchNext
    <2>2. CASE s.end = "searching" /\ Counts(cs, s.n, s.target) = {}
      <3>1. SearchNext(cs, price, parts, own, s) = [s EXCEPT !.end = "short"]
        BY <2>2 DEF SearchNext
      <3>2. [s EXCEPT !.end = "short"] =
              [target |-> s.target, n |-> s.n, spends |-> s.spends, end |-> "short"]
        BY <1>3 DEF SearchSound
      <3> QED
        BY <1>3, <3>1, <3>2 DEF SearchSound
    <2>3. CASE s.end = "searching" /\ Counts(cs, s.n, s.target) # {}
      <3> DEFINE n == Min(Counts(cs, s.n, s.target))
                 spends == Deductions(cs, n, s.target)
                 short == Shortfall(price, parts, own, spends)
                 end == IF short < 0 THEN "surplus"
                        ELSE IF short = s.target THEN "paid" ELSE "searching"
      <3>1. SearchNext(cs, price, parts, own, s) = [target |-> short, n |-> n, spends |-> spends, end |-> end]
        BY <2>3 DEF SearchNext
      <3>2. s.n \in Nat /\ s.target \in Nat
        BY <1>3, <2>3 DEF SearchSound
      <3>3. /\ n \in Nat /\ Affords(cs, spends) /\ IsFiniteSet(DOMAIN spends)
            /\ SumOf(spends, DOMAIN spends) = s.target
        BY <2>3, <3>2, DeductionsPay
      <3> HIDE DEF spends, n
      <3>4. short \in Int
        BY <3>3, ShortfallIsInt
      <3>5. short = Shortfall(price, parts, own, spends)
        OBVIOUS
      <3> HIDE DEF short
      <3>6. end = "paid" => short = s.target
        OBVIOUS
      <3>7. end \in {"searching", "paid"} => short \in Nat
        BY <3>4
      <3> HIDE DEF end
      <3> QED
        BY <3>1, <3>3, <3>5, <3>6, <3>7 DEF SearchSound
    <2> QED
      BY <2>1, <2>2, <2>3
  <1>4. ASSUME NEW r \in Nat, r \in Good PROVE r + 1 \in Good
    <2>1. CASE r + 1 <= rounds
      <3>1. f[r + 1] = SearchNext(cs, price, parts, own, f[r])
        BY <1>1, <2>1 DEF SearchRun
      <3>2. Sound(f[r])
        BY <1>4, <2>1
      <3>3. Sound(f[r + 1])
        BY <1>3, <3>1, <3>2
      <3> HIDE DEF Sound
      <3> QED
        BY <3>3
    <2> QED
      BY <2>1
  <1>5. rounds \in Good
    <2> HIDE DEF Good
    <2> QED
      BY <1>2, <1>4, NatSteps
  <1> QED
    BY <1>1, <1>5

-----------------------------------------------------------------------------
(* What DUST is worth, and what is deducted from it                        *)

WorthInv ==
  /\ DustShape
  /\ \A d \in Nights : dust[d].worth \in Nat
  /\ \A k \in DOMAIN txs : \A s \in txs[k].spends : s.amount \in Nat

LEMMA DustIsOrdered ==
  ASSUME WorthInv PROVE Ordered(DustCoins)
  <1> DEFINE E == {e \in Nights : ~dust[e].pending /\ dust[e].worth > 0}
             f == [d \in E |-> [id |-> d, value |-> dust[d].worth]]
  <1>1. Nights \subseteq Nat /\ IsFiniteSet(Nights)
    BY NightAssumption DEF NightAssumption
  <1>2. IsFiniteSet(E)
    BY <1>1, FS_Subset
  <1>3. \A c \in DustCoins : c.value \in Nat /\ c.id \in Int
    BY <1>1 DEF DustCoins, WorthInv
  <1>4. \A c, d \in DustCoins : c.id = d.id => c = d
    BY DEF DustCoins
  <1>5. DustCoins = {f[d] : d \in E} /\ f = [d \in E |-> f[d]]
    BY DEF DustCoins
  <1> HIDE DEF f, E
  <1>6. IsFiniteSet(DustCoins)
    BY <1>2, <1>5, RangeIsFinite
  <1> QED
    BY <1>3, <1>4, <1>6 DEF Ordered

LEMMA PlanPays ==
  ASSUME WorthInv, NEW price \in Nat, NEW parts \in Nat, NEW own \in Nat
  PROVE  LET plan == DustPlan(price, parts, own)
         IN  /\ Affords(DustCoins, plan.spends) /\ IsFiniteSet(DOMAIN plan.spends)
             /\ price = Sponsored => DOMAIN plan.spends = {}
             /\ plan.end = "paid" =>
                  /\ SumOf(plan.spends, DOMAIN plan.spends) = plan.target
                  /\ price # Sponsored => plan.target = Shortfall(price, parts, own, plan.spends)
  <1> DEFINE plan == DustPlan(price, parts, own)
  <1>1. Ordered(DustCoins)
    BY DustIsOrdered
  <1>2. CASE price = Sponsored
    <2>1. plan.spends = NoSpends /\ plan.target = 0
      BY <1>2 DEF DustPlan
    <2>2. Affords(DustCoins, NoSpends) /\ DOMAIN NoSpends = {} /\ SumOf(NoSpends, DOMAIN NoSpends) = 0
      BY NoSpendsFacts
    <2> HIDE DEF plan
    <2>3. IsFiniteSet(DOMAIN plan.spends)
      BY <2>1, <2>2, FS_EmptySet
    <2>4. /\ Affords(DustCoins, plan.spends) /\ DOMAIN plan.spends = {}
          /\ SumOf(plan.spends, DOMAIN plan.spends) = plan.target
      BY <2>1, <2>2
    <2> QED
      BY <1>2, <2>3, <2>4 DEF plan
  <1>3. CASE price # Sponsored
    <2>1. plan = DustSearch(DustCoins, price, parts, own, DustRounds)
      BY <1>3 DEF DustPlan
    <2>2. SearchSound(DustCoins, price, parts, own, DustSearch(DustCoins, price, parts, own, DustRounds))
      BY <1>1, RoundsAssumption, SearchPays DEF RoundsAssumption
    <2> HIDE DEF plan
    <2>3. SearchSound(DustCoins, price, parts, own, plan)
      BY <2>1, <2>2
    <2>4. IsFiniteSet(DOMAIN plan.spends)
      BY <1>1, <2>3, FS_Subset DEF SearchSound, Affords, Ordered
    <2> QED
      BY <1>3, <2>3, <2>4 DEF SearchSound, plan
  <1> QED
    BY <1>2, <1>3

\* a sum does not depend on what its terms are named
LEMMA SumOfImage ==
  ASSUME NEW S, IsFiniteSet(S), NEW r, \A x, y \in S : r[x] = r[y] => x = y,
         NEW f, NEW g, \A x \in S : f[x] \in Nat /\ g[r[x]] = f[x]
  PROVE  SumOf(g, {r[x] : x \in S}) = SumOf(f, S)
  <1> DEFINE Image(s) == {r[x] : x \in s}
             G == {s \in SUBSET S : IsFiniteSet(Image(s)) /\ SumOf(g, Image(s)) = SumOf(f, s)}
  <1>1. {} \in G
    <2>1. Image({}) = {}
      OBVIOUS
    <2> HIDE DEF Image
    <2>2. IsFiniteSet(Image({})) /\ SumOf(g, Image({})) = SumOf(f, {})
      BY <2>1, FS_EmptySet, SumOfNone
    <2> QED
      BY <2>2
  <1>2. ASSUME NEW s \in SUBSET S, NEW x \in s, s \ {x} \in G PROVE s \in G
    <2>1. Image(s) \ {r[x]} = Image(s \ {x}) /\ Image(s) = Image(s \ {x}) \cup {r[x]} /\ r[x] \in Image(s)
      OBVIOUS
    <2>2. \A y \in Image(s) : g[y] \in Nat
      OBVIOUS
    <2>3. IsFiniteSet(Image(s \ {x})) /\ SumOf(g, Image(s \ {x})) = SumOf(f, s \ {x})
      BY <1>2
    <2>4. g[r[x]] = f[x] /\ \A y \in s : f[y] \in Nat
      OBVIOUS
    <2> HIDE DEF Image
    <2>5. IsFiniteSet(Image(s))
      <3> DEFINE A == Image(s \ {x})
                 e == r[x]
      <3>1. IsFiniteSet(A) /\ Image(s) = A \cup {e}
        BY <2>1, <2>3
      <3> HIDE DEF A, e
      <3>2. IsFiniteSet(A \cup {e})
        BY <3>1, FS_AddElement
      <3> QED
        BY <3>1, <3>2
    <2>6. SumOf(g, Image(s)) = g[r[x]] + SumOf(g, Image(s) \ {r[x]})
      BY <2>1, <2>2, <2>5, SumOfStep
    <2>7. IsFiniteSet(s)
      BY FS_Subset
    <2>8. SumOf(f, s) = f[x] + SumOf(f, s \ {x})
      BY <2>4, <2>7, SumOfStep
    <2>9. SumOf(g, Image(s)) = SumOf(f, s)
      BY <2>1, <2>3, <2>4, <2>6, <2>8
    <2> QED
      BY <2>5, <2>9
  <1>3. S \in G
    <2> HIDE DEF G
    <2> QED
      BY <1>1, <1>2, SetSteps
  <1> QED
    BY <1>3

\* what a transaction names as its spends is what the plan deducts
LEMMA SpendsFacts ==
  ASSUME WorthInv, NEW plan, Affords(DustCoins, plan.spends)
  PROVE  /\ IsFiniteSet(Spends(plan)) /\ \A s \in Spends(plan) : s.amount \in Nat
         /\ MapThenSumSet(LAMBDA s : s.amount, Spends(plan)) = SumOf(plan.spends, DOMAIN plan.spends)
         /\ DOMAIN plan.spends = {} => Spends(plan) = {}
  <1> DEFINE D == DOMAIN plan.spends
             X == Spends(plan)
             r == [d \in D |-> [night |-> d.id, seq |-> dust[d.id].seq, amount |-> plan.spends[d]]]
             g == [s \in X |-> s.amount]
  <1>1. D \subseteq DustCoins /\ \A d \in D : plan.spends[d] \in Nat
    BY DEF Affords
  <1>2. \A c, d \in D : c.id = d.id => c = d
    BY <1>1, DustIsOrdered DEF Ordered
  <1>3. IsFiniteSet(D)
    BY <1>1, DustIsOrdered, FS_Subset DEF Ordered
  <1>4. X = {r[d] : d \in D} /\ r = [d \in D |-> r[d]]
    BY DEF Spends
  <1>5. \A d \in D : r[d].night = d.id /\ r[d].amount = plan.spends[d]
    OBVIOUS
  <1> HIDE DEF X, r, D
  <1>6. \A c, d \in D : r[c] = r[d] => c = d
    BY <1>2, <1>5
  <1>7. \A d \in D : g[r[d]] = plan.spends[d]
    BY <1>4, <1>5
  <1>8. IsFiniteSet(X)
    BY <1>3, <1>4, RangeIsFinite
  <1>9. \A s \in X : s.amount \in Nat
    BY <1>1, <1>4, <1>5
  <1>10. SumOf(g, {r[d] : d \in D}) = SumOf(plan.spends, D)
    BY <1>1, <1>3, <1>6, <1>7, SumOfImage
  <1>11. MapThenSumSet(LAMBDA s : s.amount, X) = SumOf(g, X)
    BY <1>8, <1>9, AmountSum
  <1>12. D = {} => X = {}
    BY <1>4
  <1> QED
    BY <1>4, <1>8, <1>9, <1>10, <1>11, <1>12 DEF D, X

LEMMA PartsAreNat ==
  ASSUME Counted(available \cup coins), NEW offer, OfferRight(offer), Counted(offer.outs)
  PROVE  Parts(offer) \in Nat
  <1>1. offer.ins \subseteq available \cup coins
    BY DEF OfferRight, Typed, TakesFree, Unshielded, Shielded
  <1>2. IsFiniteSet(offer.ins) /\ IsFiniteSet(offer.outs)
    BY <1>1, PartCounted DEF Counted
  <1> QED
    BY <1>2, FS_CardinalityType DEF Parts

-----------------------------------------------------------------------------
(* Worth and amounts stay natural numbers                                  *)

LEMMA AppendedFacts ==
  ASSUME TxsRight, NEW kind, NEW of, NEW offer, NEW spends, NEW kept,
         txs' = Append(txs, Transaction(kind, of, offer, spends, kept))
  PROVE  LET y == txs'[Len(txs) + 1]
         IN  /\ y.kind = kind /\ y.of = of /\ y.ins = offer.ins /\ y.outs = offer.outs
             /\ y.spends = spends
  <1> DEFINE x == Transaction(kind, of, offer, spends, kept)
  <1>1. /\ x.kind = kind /\ x.of = of /\ x.ins = offer.ins /\ x.outs = offer.outs
        /\ x.spends = spends
    BY DEF Transaction
  <1> HIDE DEF x
  <1>2. txs'[Len(txs) + 1] = x
    BY DEF x, TxsRight
  <1> QED
    BY <1>1, <1>2

Amounts(x) == \A s \in x.spends : s.amount \in Nat

LEMMA ReservedAmounts ==
  ASSUME TxsRight, Counted(available \cup coins), WorthInv,
         NEW kind, NEW offer, OfferRight(offer), Counted(offer.outs), NEW price \in Nat,
         BuildAndReserve(kind, offer, price)
  PROVE  txs'[Len(txs) + 1].kind = kind /\ Amounts(txs'[Len(txs) + 1])
  <1> DEFINE plan == DustPlan(price, Parts(offer), 0)
  <1>1. Parts(offer) \in Nat
    BY PartsAreNat
  <1>2. Affords(DustCoins, plan.spends)
    BY <1>1, PlanPays
  <1>3. txs' = Append(txs, Transaction(kind, "wallet", offer, Spends(plan), Streams))
    BY DEF BuildAndReserve
  <1> HIDE DEF plan
  <1>4. \A s \in Spends(plan) : s.amount \in Nat
    BY <1>2, SpendsFacts
  <1>5. txs'[Len(txs) + 1].kind = kind /\ txs'[Len(txs) + 1].spends = Spends(plan)
    BY <1>3, AppendedFacts
  <1> QED
    BY <1>4, <1>5 DEF Amounts

LEMMA CommandsAmounts ==
  ASSUME TxsRight, Counted(available \cup coins), WorthInv, Commands
  PROVE  txs'[Len(txs) + 1].kind # "balance" /\ Amounts(txs'[Len(txs) + 1])
  <1>1. Len(txs) \in Nat
    BY TxsKnown
  <1>2. ASSUME NEW r \in Requests, Transfer(r) \/ DappTransfer(r)
        PROVE  txs'[Len(txs) + 1].kind # "balance" /\ Amounts(txs'[Len(txs) + 1])
    <2>1. PICK kind \in {"transfer", "dappTransfer"} : BuildAndReserve(kind, Offer(r), r.price)
      BY <1>2 DEF Transfer, DappTransfer
    <2>2. r.price \in Nat
      BY AmountAssumption DEF AmountAssumption
    <2> QED
      BY <1>1, <2>1, <2>2, OfferIsRight, OfferCounted, ReservedAmounts
  <1>3. ASSUME NEW r \in Requests, DappIntent(r)
        PROVE  txs'[Len(txs) + 1].kind # "balance" /\ Amounts(txs'[Len(txs) + 1])
    <2>1. txs' = Append(txs, Transaction("intent", "wallet", Offer(r), {}, {}))
      BY <1>3 DEF DappIntent
    <2>2. txs'[Len(txs) + 1].kind = "intent" /\ txs'[Len(txs) + 1].spends = {}
      BY <2>1, AppendedFacts
    <2> QED
      BY <2>2 DEF Amounts
  <1>4. CASE GenerateDust
    <2>1. PICK first \in Registrable : BuildAndReserve("register", RegistrationOffer(first), Sponsored)
      BY <1>4 DEF GenerateDust
    <2>2. Sponsored \in Nat /\ "register" # "balance"
      BY DEF Sponsored
    <2> QED
      BY <1>1, <2>1, <2>2, RegistrationIsRight, RegistrationCounted, ReservedAmounts
  <1> QED
    BY <1>2, <1>3, <1>4 DEF Commands

AmountOf(spends) == MapThenSumSet(LAMBDA s : s.amount, spends)

\* the fee part of a plan for a dApp's transaction
LEMMA FeePlan ==
  ASSUME Len(txs) \in Nat, Counted(available \cup coins), WorthInv,
         NEW o \in Originals, NEW price \in Nat
  PROVE  LET plan == Plan(o, price)
             fee == plan.fee
         IN  /\ plan.offer = Counteroffer(o, Picks(o)) /\ plan.picks = Picks(o)
             /\ o.parts + Parts(plan.offer) \in Nat
             /\ o.dust \in Nat
             /\ fee = DustPlan(price, o.parts + Parts(plan.offer), o.dust)
             /\ plan.ok => fee.end = "paid" /\ Covered(o, Picks(o)) /\ Editable(o)
             /\ Affords(DustCoins, fee.spends)
             /\ price = Sponsored => Spends(fee) = {}
             /\ fee.end = "paid" =>
                  /\ AmountOf(Spends(fee)) = fee.target
                  /\ SumOf(fee.spends, DOMAIN fee.spends) = fee.target
                  /\ price # Sponsored =>
                       fee.target = Shortfall(price, o.parts + Parts(plan.offer), o.dust, fee.spends)
  <1> DEFINE offer == Counteroffer(o, Picks(o))
             parts == o.parts + Parts(offer)
             fee == DustPlan(price, parts, o.dust)
             plan == Plan(o, price)
  <1>1. /\ plan.offer = offer /\ plan.picks = Picks(o) /\ plan.fee = fee
        /\ plan.ok => fee.end = "paid" /\ Covered(o, Picks(o)) /\ Editable(o)
    BY DEF Plan
  <1>2. OfferRight(offer) /\ Counted(offer.outs)
    BY CounterofferIsRight, CounterofferCounted
  <1> HIDE DEF offer, plan
  <1>3. parts \in Nat /\ o.dust \in Nat
    <2>1. Parts(offer) \in Nat
      BY <1>2, PartsAreNat
    <2>2. o.parts \in Nat /\ o.dust \in Nat
      BY OriginalAssumption DEF OriginalAssumption
    <2> QED
      BY <2>1, <2>2
  <1> HIDE DEF parts
  <1>4. /\ Affords(DustCoins, fee.spends)
        /\ price = Sponsored => DOMAIN fee.spends = {}
        /\ fee.end = "paid" =>
             /\ SumOf(fee.spends, DOMAIN fee.spends) = fee.target
             /\ price # Sponsored => fee.target = Shortfall(price, parts, o.dust, fee.spends)
    BY <1>3, PlanPays
  <1> HIDE DEF fee
  <1>5. /\ AmountOf(Spends(fee)) = SumOf(fee.spends, DOMAIN fee.spends)
        /\ DOMAIN fee.spends = {} => Spends(fee) = {}
    BY <1>4, SpendsFacts DEF AmountOf
  <1>6. fee.end = "paid" => AmountOf(Spends(fee)) = fee.target
    BY <1>4, <1>5
  <1>7. parts = o.parts + Parts(plan.offer)
    BY <1>1 DEF parts
  <1>8. fee = DustPlan(price, parts, o.dust)
    BY DEF fee
  <1> QED
    BY <1>1, <1>3, <1>4, <1>5, <1>6, <1>7, <1>8 DEF plan, offer

LEMMA ExecutedAmounts ==
  ASSUME TxsRight, Counted(available \cup coins), WorthInv,
         NEW o \in Originals, NEW price \in Nat, NEW m, Execute(o, price, m)
  PROVE  Amounts(txs'[Len(txs) + 1])
  <1> DEFINE plan == Plan(o, price)
  <1>1. txs' = Append(txs, Transaction("balance", o.id, plan.offer, Spends(plan.fee), {}))
    BY DEF Execute
  <1>2. Affords(DustCoins, plan.fee.spends)
    BY TxsKnown, FeePlan
  <1> HIDE DEF plan
  <1>3. \A s \in Spends(plan.fee) : s.amount \in Nat
    BY <1>2, SpendsFacts
  <1>4. txs'[Len(txs) + 1].spends = Spends(plan.fee)
    BY <1>1, AppendedFacts
  <1> QED
    BY <1>3, <1>4 DEF Amounts

LEMMA ReserveWorth ==
  ASSUME DustShape, NEW offer, NEW spends, Reserve(offer, spends)
  PROVE  \A d \in Nights : dust'[d].worth = dust[d].worth
  <1> DEFINE Used(d) == \E s \in spends : s.night = d
             Next1(d) == [seq |-> dust[d].seq, worth |-> dust[d].worth,
                          pending |-> dust[d].pending \/ Used(d)]
  <1>1. dust' = [d \in Nights |-> [dust[d] EXCEPT !.pending = dust[d].pending \/ Used(d)]]
    BY DEF Reserve
  <1> HIDE DEF Used
  <1>2. ASSUME NEW d \in Nights PROVE [dust[d] EXCEPT !.pending = dust[d].pending \/ Used(d)] = Next1(d)
    BY DEF DustShape, IsDust
  <1>3. dust' = [d \in Nights |-> Next1(d)]
    BY <1>1, <1>2
  <1> QED
    BY <1>3

LEMMA BuiltWorth ==
  ASSUME TxsRight, WorthInv, NEW x, Built(x), Amounts(txs'[Len(txs) + 1]) PROVE WorthInv'
  <1>1. \A k \in DOMAIN txs' : k = Len(txs) + 1 \/ (k \in DOMAIN txs /\ txs'[k] = txs[k])
    <2>1. /\ Len(txs) \in Nat /\ DOMAIN txs = 1..Len(txs) /\ DOMAIN txs' = 1..(Len(txs) + 1)
          /\ \A k \in 1..Len(txs) : txs'[k] = txs[k]
      BY BuiltFacts
    <2> QED
      BY <2>1
  <1>2. \A k \in DOMAIN txs' : \A s \in txs'[k].spends : s.amount \in Nat
    BY <1>1 DEF WorthInv, Amounts
  <1>3. DustShape' /\ \A d \in Nights : dust'[d].worth = dust[d].worth
    <2>1. CASE x.kind \in Unheld
      BY <2>1 DEF Built, walletVars, WorthInv, DustShape
    <2>2. CASE x.kind \notin Unheld
      BY <2>2, ReserveDust, ReserveWorth DEF Built, WorthInv
    <2> QED
      BY <2>1, <2>2
  <1> QED
    BY <1>2, <1>3 DEF WorthInv

\* steps that build no transaction
LEMMA SameWorth ==
  ASSUME WorthInv, DustShape', \A d \in Nights : dust'[d].worth \in Nat,
         DOMAIN txs' = DOMAIN txs, \A k \in DOMAIN txs : txs'[k].spends = txs[k].spends
  PROVE  WorthInv'
  BY DEF WorthInv

LEMMA MovesWorth ==
  ASSUME WorthInv, NEW q, Moves(q), DustShape', \A d \in Nights : dust'[d].worth \in Nat
  PROVE  WorthInv'
  BY SameWorth DEF Moves, SameTxs, Alike

LEMMA DustStays ==
  ASSUME WorthInv, UNCHANGED dust PROVE DustShape' /\ \A d \in Nights : dust'[d].worth \in Nat
  BY DEF WorthInv, DustShape, IsDust

\* what is spent on chain was spent by a transaction
LEMMA EntryAmounts ==
  ASSUME EntriesRight, WorthInv, NEW i \in DOMAIN chain
  PROVE  \A s \in chain[i].spends : s.amount \in Nat
  <1> DEFINE e == chain[i]
  <1>1. EntryRight(e)
    BY DEF EntriesRight
  <1> HIDE DEF e
  <1>2. e.spends = {} \/ (e.tx \in DOMAIN txs /\ e.spends = txs[e.tx].spends)
    BY <1>1 DEF EntryRight
  <1>3. \A s \in e.spends : s.amount \in Nat
    BY <1>2 DEF WorthInv
  <1> QED
    BY <1>3 DEF e

LEMMA ApplyDustWorth ==
  ASSUME History, WorthInv, ApplyDust PROVE WorthInv'
  <1> DEFINE p == seen["dust"]
             e == chain[p + 1]
             One(d) == CHOOSE s \in e.spends : s.night = d
             Worth(d) == IF dust[One(d).night].worth > One(d).amount
                         THEN dust[One(d).night].worth - One(d).amount ELSE 0
             Back(d) == [seq |-> One(d).seq + 1, pending |-> FALSE, worth |-> Worth(d)]
  <1>1. Advance("dust")
    BY DEF ApplyDust
  <1>2. Moves("dust") /\ p + 1 \in 1..Len(chain)
    BY <1>1, StreamNames, AdvanceMoves
  <1>3. p + 1 \in DOMAIN chain
    BY <1>2, PlacesKnown DEF History
  <1>4. dust' = [d \in Nights |-> IF Touches(e, d) THEN Back(d) ELSE dust[d]]
    BY DEF ApplyDust, Touches
  <1>5. \A s \in e.spends : s.amount \in Nat
    BY <1>3, EntryAmounts DEF History
  <1>6. ASSUME NEW d \in Nights PROVE IsDust(dust'[d]) /\ dust'[d].worth \in Nat
    <2>1. CASE Touches(e, d)
      <3>1. One(d) \in e.spends /\ One(d).night = d
        BY <2>1 DEF Touches
      <3>2. One(d).amount \in Nat /\ dust[One(d).night].worth \in Nat
        BY <1>5, <3>1 DEF WorthInv
      <3>3. dust'[d] = Back(d)
        BY <1>4, <2>1
      <3> HIDE DEF One
      <3>4. Worth(d) \in Nat
        BY <3>2
      <3> HIDE DEF Worth
      <3>5. IsDust(Back(d)) /\ Back(d).worth \in Nat
        BY <3>4 DEF IsDust
      <3> HIDE DEF Back
      <3> QED
        BY <3>3, <3>5
    <2>2. CASE ~Touches(e, d)
      BY <1>4, <2>2 DEF WorthInv, DustShape
    <2> QED
      BY <2>1, <2>2
  <1>7. dust' = [d \in Nights |-> dust'[d]]
    BY <1>4
  <1> HIDE DEF e, p
  <1>8. DustShape'
    BY <1>6, <1>7 DEF DustShape, IsDust
  <1> QED
    BY <1>2, <1>6, <1>8, MovesWorth

LEMMA ImportDustWorth ==
  ASSUME History, WorthInv, NEW p \in 1..Len(chain), ImportDust(p) PROVE WorthInv'
  <1>1. /\ Forget("dust") /\ AdvanceTo("dust", p) /\ UNCHANGED chain /\ p > seen["dust"]
        /\ dust' = [d \in Nights |->
                     [seq |-> SeqAt(chain, d, p), worth |-> dust[d].worth, pending |-> FALSE]]
    BY DEF ImportDust, SeqAt, Spent, Touches
  <1>2. Moves("dust")
    BY <1>1, StreamNames, ImportMoves
  <1>3. /\ dust' = [d \in Nights |-> dust'[d]]
        /\ \A d \in Nights : IsDust(dust'[d]) /\ dust'[d].worth = dust[d].worth
    BY <1>1 DEF IsDust
  <1>4. DustShape' /\ \A d \in Nights : dust'[d].worth \in Nat
    BY <1>3 DEF DustShape, IsDust, WorthInv
  <1> QED
    BY <1>2, <1>4, MovesWorth

LEMMA GrowWorth ==
  ASSUME WorthInv, NEW d \in Nights, Grow(d) PROVE WorthInv'
  <1> DEFINE y == [seq |-> dust[d].seq, worth |-> Cap[d], pending |-> dust[d].pending]
  <1>1. UNCHANGED txs /\ dust' = [dust EXCEPT ![d].worth = Cap[d]]
    BY DEF Grow
  <1>2. [dust[d] EXCEPT !.worth = Cap[d]] = y
    BY DEF WorthInv, DustShape, IsDust
  <1>3. dust = [c \in Nights |-> dust[c]]
    BY DEF WorthInv, DustShape
  <1>4. dust' = [c \in Nights |-> IF c = d THEN y ELSE dust[c]]
    BY <1>1, <1>2, <1>3
  <1>5. y.worth \in Nat /\ IsDust(y)
    BY NightAssumption DEF IsDust, NightAssumption
  <1> HIDE DEF y
  <1>6. \A c \in Nights : dust'[c].worth \in Nat /\ IsDust(dust'[c])
    BY <1>4, <1>5 DEF WorthInv, DustShape
  <1>7. DustShape'
    BY <1>4, <1>6 DEF DustShape, IsDust
  <1> QED
    BY <1>1, <1>6, <1>7, SameWorth

LEMMA ExpireWorth ==
  ASSUME WorthInv, NEW d \in Nights, Expire(d) PROVE WorthInv'
  <1> DEFINE y == [seq |-> dust[d].seq, worth |-> dust[d].worth, pending |-> FALSE]
  <1>1. UNCHANGED txs /\ dust' = [dust EXCEPT ![d].pending = FALSE]
    BY DEF Expire
  <1>2. [dust[d] EXCEPT !.pending = FALSE] = y
    <2>1. IsDust(dust[d])
      BY DEF WorthInv, DustShape
    <2>2. ASSUME NEW x, IsDust(x), NEW v
          PROVE  [x EXCEPT !.pending = v] = [seq |-> x.seq, worth |-> x.worth, pending |-> v]
      BY <2>2 DEF IsDust
    <2> QED
      BY <2>1, <2>2, Zenon
  <1>3. dust = [c \in Nights |-> dust[c]]
    BY DEF WorthInv, DustShape
  <1>4. dust' = [c \in Nights |-> IF c = d THEN y ELSE dust[c]]
    BY <1>1, <1>2, <1>3
  <1>5. y.worth = dust[d].worth /\ IsDust(y)
    BY DEF IsDust
  <1> HIDE DEF y
  <1>6. \A c \in Nights : dust'[c].worth \in Nat /\ IsDust(dust'[c])
    BY <1>4, <1>5 DEF WorthInv, DustShape
  <1>7. DustShape'
    BY <1>4, <1>6 DEF DustShape, IsDust
  <1> QED
    BY <1>1, <1>6, <1>7, SameWorth

LEMMA FatedWorth ==
  ASSUME WorthInv, NEW k, NEW f, Fated(k, f), UNCHANGED dust PROVE WorthInv'
  BY DustStays, SameWorth DEF Fated

LEMMA WorthInit ==
  ASSUME BInit PROVE WorthInv
  <1>1. txs = <<>> /\ dust = [d \in Nights |-> [seq |-> 0, worth |-> Cap[d], pending |-> FALSE]]
    BY DEF BInit, Init
  <1>2. DOMAIN txs = {}
    BY <1>1
  <1> QED
    BY <1>1, <1>2, NightAssumption DEF WorthInv, DustShape, IsDust, NightAssumption

LEMMA WorthStep ==
  ASSUME BalanceInv, WorthInv, BNext \/ UNCHANGED balancingVars PROVE WorthInv'
  <1>1. Len(txs) \in Nat /\ TxsRight /\ Counted(available \cup coins) /\ History
    BY TxsKnown, WalletCounted DEF BalanceInv, History
  <1>2. CASE Commands
    BY <1>1, <1>2, CommandsBuild, CommandsAmounts, BuiltWorth
  <1>3. CASE Sync
    <2>1. CASE ApplyUnshielded \/ ApplyShielded
      <3>1. \E q \in Streams : Moves(q)
        BY <1>1, <2>1, AdvanceMoves, StreamNames DEF ApplyUnshielded, ApplyShielded
      <3>2. UNCHANGED dust
        BY <2>1 DEF ApplyUnshielded, ApplyShielded
      <3> QED
        BY <3>1, <3>2, MovesWorth, DustStays
    <2>2. CASE ApplyDust
      BY <1>1, <2>2, ApplyDustWorth
    <2>3. CASE ApplyShieldedSpentResponse
      BY <2>3, DustStays, SameWorth DEF ApplyShieldedSpentResponse
    <2>4. ASSUME NEW p \in 1..Len(chain), ImportShielded(p) PROVE WorthInv'
      <3>1. Moves("shielded") /\ UNCHANGED dust
        BY <1>1, <2>4, ImportMoves, StreamNames DEF ImportShielded
      <3> QED
        BY <3>1, MovesWorth, DustStays
    <2>5. ASSUME NEW p \in 1..Len(chain), ImportDust(p) PROVE WorthInv'
      BY <1>1, <2>5, ImportDustWorth
    <2> QED
      BY <1>3, <2>1, <2>2, <2>3, <2>4, <2>5 DEF Sync
  <1>4. CASE Chain
    <2>1. ASSUME NEW k \in DOMAIN txs, NEW fate \in Landing, Include(k, fate) PROVE WorthInv'
      <3>1. Fated(k, fate) /\ UNCHANGED walletVars
        BY <1>1, <2>1, IncludeFacts
      <3> QED
        BY <3>1, FatedWorth DEF walletVars
    <2>2. ASSUME NEW k \in DOMAIN txs, Drop(k) PROVE WorthInv'
      <3>1. Fated(k, "dropped") /\ UNCHANGED walletVars
        BY <1>1, <2>2, DropFacts DEF Drop, History
      <3> QED
        BY <3>1, FatedWorth DEF walletVars
    <2>3. ASSUME NEW c \in Payments, Pay(c) PROVE WorthInv'
      BY <2>3, DustStays, SameWorth DEF Pay, walletVars
    <2>4. ASSUME NEW d \in Nights, Grow(d) \/ Expire(d) PROVE WorthInv'
      BY <2>4, GrowWorth, ExpireWorth
    <2> QED
      BY <1>4, <2>1, <2>2, <2>3, <2>4 DEF Chain, Landing
  <1>5. ASSUME NEW o, NEW price, PreviewBalance(o, price) PROVE WorthInv'
    BY <1>5, DustStays, SameWorth DEF PreviewBalance, vars, walletVars
  <1>6. ASSUME NEW o \in Originals, NEW price \in Nat, NEW m, Execute(o, price, m) PROVE WorthInv'
    BY <1>1, <1>6, ExecutionBuilds, ExecutedAmounts, BuiltWorth
  <1>7. CASE UNCHANGED balancingVars
    BY <1>7, DustStays, SameWorth DEF balancingVars, vars, walletVars
  <1>8. Prices \cup {Sponsored} \subseteq Nat
    BY PriceAssumption DEF PriceAssumption, Sponsored
  <1> QED
    BY <1>2, <1>3, <1>4, <1>5, <1>6, <1>7, <1>8 DEF BNext, Next, BalanceUnsealed, BalanceSealed

-----------------------------------------------------------------------------
(* What is approved is what is paid                                        *)

Owed(o, t) == MapThenSumSet(LAMBDA g : Deficit(o, t, g), Segments)
GivenBack(o, p, t) == MapThenSumSet(LAMBDA g : Change(o, p, t, g) + Surplus(o, t, g), Segments)

LEMMA ManifestFacts ==
  ASSUME NEW o, NEW price, NEW plan
  PROVE  LET m == Manifest(o, price, plan)
         IN  /\ m["transaction"] = o.id /\ m["sponsored"] = (price = Sponsored)
             /\ m["contributions"] = [t \in Tokens |-> Owed(o, t)]
             /\ m["change"] = [t \in Tokens |-> GivenBack(o, plan.picks, t)]
             /\ m.dust = plan.fee.target
  BY DEF Manifest, Owed, GivenBack

LEMMA OwedAndBack ==
  ASSUME Counted(available \cup coins), Len(txs) \in Nat, NEW o \in Originals, NEW t \in Tokens,
         Covered(o, Picks(o))
  PROVE  LET x == Counteroffer(o, Picks(o))
         IN  /\ Total(Of(x.outs, t)) = GivenBack(o, Picks(o), t)
             /\ Total(Of(x.ins, t)) - Total(Of(x.outs, t)) <= Owed(o, t)
  <1> DEFINE p == Picks(o)
  <1>1. IsFiniteSet(Segments)
    BY SegmentsAreFinite
  <1>2. \A g \in Segments : /\ Total(p[t][g]) \in Nat
                            /\ Deficit(o, t, g) \in Nat /\ Surplus(o, t, g) \in Nat
    BY PickFacts
  <1>3. \A g \in Segments : Change(o, p, t, g) >= 0
    BY DEF Covered
  <1> HIDE DEF p
  <1>4. \A g \in Segments : Change(o, p, t, g) + Surplus(o, t, g) \in Nat
    BY <1>2, <1>3 DEF Change
  <1>5. Owed(o, t) = SumOf([g \in Segments |-> Deficit(o, t, g)], Segments)
    BY <1>1, <1>2, DeficitSum DEF Owed
  <1>6. GivenBack(o, p, t) = SumOf([g \in Segments |-> Change(o, p, t, g) + Surplus(o, t, g)], Segments)
    BY <1>1, <1>4, ChangeSum DEF GivenBack
  <1> QED
    BY <1>5, <1>6, PlanTotals DEF p

LEMMA ExecutePays ==
  ASSUME TxsRight, Counted(available \cup coins), WorthInv,
         NEW o \in Originals, NEW price \in Nat, NEW m, Execute(o, price, m)
  PROVE  PaidAsApproved(txs'[Len(txs) + 1], m)
  <1> DEFINE plan == Plan(o, price)
             fresh == Manifest(o, price, plan)
             y == txs'[Len(txs) + 1]
             x == Counteroffer(o, Picks(o))
  <1>1. /\ txs' = Append(txs, Transaction("balance", o.id, plan.offer, Spends(plan.fee), {}))
        /\ Authorizes(m, fresh) /\ plan.ok
    BY DEF Execute
  <1>2. /\ plan.offer = x /\ plan.picks = Picks(o)
        /\ Covered(o, Picks(o))
        /\ price = Sponsored => Spends(plan.fee) = {}
        /\ AmountOf(Spends(plan.fee)) = plan.fee.target
    BY <1>1, TxsKnown, FeePlan
  <1>3. /\ fresh["transaction"] = o.id /\ fresh["sponsored"] = (price = Sponsored)
        /\ fresh["contributions"] = [t \in Tokens |-> Owed(o, t)]
        /\ fresh["change"] = [t \in Tokens |-> GivenBack(o, plan.picks, t)]
        /\ fresh.dust = plan.fee.target
    BY ManifestFacts
  <1>4. \A t \in Tokens : /\ Total(Of(x.outs, t)) = GivenBack(o, Picks(o), t)
                          /\ Total(Of(x.ins, t)) - Total(Of(x.outs, t)) <= Owed(o, t)
    BY <1>2, TxsKnown, OwedAndBack
  <1> HIDE DEF plan, fresh, x
  <1>5. y.of = o.id /\ y.ins = x.ins /\ y.outs = x.outs /\ y.spends = Spends(plan.fee)
    BY <1>1, <1>2, AppendedFacts
  <1> HIDE DEF y
  <1>6. /\ m["transaction"] = fresh["transaction"] /\ m["sponsored"] = fresh["sponsored"]
        /\ m["contributions"] = fresh["contributions"] /\ m["change"] = fresh["change"]
        /\ m.sponsored \/ fresh.dust <= m.dust
    BY <1>1 DEF Authorizes
  <1>7. y.of = m.transaction
    BY <1>3, <1>5, <1>6
  <1>8. ASSUME NEW t \in Tokens
        PROVE  /\ Total(Of(y.ins, t)) - Total(Of(y.outs, t)) <= m.contributions[t]
               /\ Total(Of(y.outs, t)) = m.change[t]
    <2>1. m.contributions[t] = Owed(o, t) /\ m.change[t] = GivenBack(o, Picks(o), t)
      BY <1>2, <1>3, <1>6
    <2> QED
      BY <1>4, <1>5, <2>1
  <1>9. CASE m.sponsored
    <2>1. price = Sponsored
      BY <1>3, <1>6, <1>9
    <2>2. y.spends = {}
      BY <1>2, <1>5, <2>1
    <2> QED
      BY <1>7, <1>8, <1>9, <2>2 DEF PaidAsApproved, y
  <1>10. CASE ~m.sponsored
    <2>1. AmountOf(y.spends) <= m.dust
      BY <1>2, <1>3, <1>5, <1>6, <1>10
    <2> QED
      BY <1>7, <1>8, <1>10, <2>1 DEF PaidAsApproved, AmountOf, y
  <1> QED
    BY <1>9, <1>10

\* a transaction that is new is the one that was built
LEMMA OnlyTheBuilt ==
  ASSUME TxsRight, NEW x, Built(x) PROVE \A k \in DOMAIN txs' \ DOMAIN txs : k = Len(txs) + 1
  <1>1. Len(txs) \in Nat /\ DOMAIN txs = 1..Len(txs) /\ DOMAIN txs' = 1..(Len(txs) + 1)
    BY BuiltFacts
  <1> QED
    BY <1>1

LEMMA NothingBuilt ==
  ASSUME TxsRight, Sync \/ Chain PROVE DOMAIN txs' = DOMAIN txs
  <1>1. CASE Sync
    BY <1>1, ForgetsFacts
       DEF Sync, ApplyUnshielded, ApplyShielded, ApplyDust, Advance, ApplyShieldedSpentResponse,
           ImportShielded, ImportDust, SameTxs
  <1>2. CASE Chain
    BY <1>2 DEF Chain, Include, Drop, Pay, Grow, Expire
  <1> QED
    BY <1>1, <1>2

NewAsApproved ==
  \A k \in DOMAIN txs' \ DOMAIN txs :
     txs'[k].kind = "balance" => \E m \in approved : PaidAsApproved(txs'[k], m)

LEMMA ApprovedStep ==
  ASSUME BalanceInv, WorthInv, BNext \/ UNCHANGED balancingVars PROVE NewAsApproved
  <1>1. Len(txs) \in Nat /\ TxsRight /\ Counted(available \cup coins)
    BY TxsKnown, WalletCounted DEF BalanceInv, History
  <1>2. CASE Commands
    <2>1. \A k \in DOMAIN txs' \ DOMAIN txs : k = Len(txs) + 1
      BY <1>1, <1>2, CommandsBuild, OnlyTheBuilt
    <2> QED
      BY <1>1, <1>2, <2>1, CommandsAmounts DEF NewAsApproved
  <1>3. CASE Sync \/ Chain
    BY <1>1, <1>3, NothingBuilt DEF NewAsApproved
  <1>4. ASSUME NEW o, NEW price, PreviewBalance(o, price) PROVE NewAsApproved
    BY <1>4 DEF PreviewBalance, vars, NewAsApproved
  <1>5. ASSUME NEW o \in Originals, NEW price \in Nat, NEW m \in approved, Execute(o, price, m)
        PROVE  NewAsApproved
    <2>1. \A k \in DOMAIN txs' \ DOMAIN txs : k = Len(txs) + 1
      BY <1>1, <1>5, ExecutionBuilds, OnlyTheBuilt
    <2>2. PaidAsApproved(txs'[Len(txs) + 1], m)
      BY <1>1, <1>5, ExecutePays
    <2> QED
      BY <2>1, <2>2 DEF NewAsApproved
  <1>6. CASE UNCHANGED balancingVars
    BY <1>6 DEF balancingVars, vars, NewAsApproved
  <1>7. Prices \cup {Sponsored} \subseteq Nat
    BY PriceAssumption DEF PriceAssumption, Sponsored
  <1> QED
    BY <1>2, <1>3, <1>4, <1>5, <1>6, <1>7 DEF BNext, Next, BalanceUnsealed, BalanceSealed

(* A balance that is executed is one the user approved: of every token it  *)
(* takes no more than was shown, returns what was shown as change, and     *)
(* spends no more DUST, none if the fee is sponsored.  This is so whatever *)
(* happened to the wallet between preview and execution, for any           *)
(* original, any segments and any fee price a host brings, and asks        *)
(* nothing of the host.                                                    *)
THEOREM ApprovedBalancesArePaid == BSpec => ApprovedIsPaid
  <1> DEFINE I == BalanceInv /\ WorthInv
  <1>1. BInit => I
    BY BalanceInit, WorthInit
  <1>2. I /\ [BNext]_balancingVars => I'
    BY BalanceStep, WorthStep
  <1>3. I /\ [BNext]_balancingVars =>
          [\A k \in DOMAIN txs' \ DOMAIN txs :
             txs'[k].kind = "balance" => \E m \in approved : PaidAsApproved(txs'[k], m)]_balancingVars
    BY ApprovedStep DEF NewAsApproved
  <1> HIDE DEF I
  <1> QED
    BY <1>1, <1>2, <1>3, PTL DEF BSpec, ApprovedIsPaid

-----------------------------------------------------------------------------
(* Plans are sound                                                         *)

\* where a token is balanced, a plan does nothing
LEMMA NothingToAdd ==
  ASSUME NEW o, NEW t \in Tokens, NEW g \in Segments, Imbalance(o, t, g) = 0
  PROVE  Picks(o)[t][g] = {} /\ Outputs(o, Picks(o), t, g) = {}
  <1> DEFINE p == Picks(o)
  <1>1. Deficit(o, t, g) = 0 /\ Surplus(o, t, g) = 0
    BY DEF Deficit, Surplus
  <1>2. p[t][g] = {}
    <2>1. p[t] = Pick(o, t)
      BY DEF Picks
    <2>2. Pick(o, t)[g] = PickFrom(o, t, Pick(o, t), g)
      BY PickUnfolds
    <2> QED
      BY <1>1, <2>1, <2>2 DEF PickFrom
  <1> HIDE DEF p
  <1>3. Change(o, p, t, g) = 0
    BY <1>1, <1>2, TotalOfOne DEF Change
  <1>4. Outputs(o, p, t, g) = {}
    BY <1>1, <1>3 DEF Outputs
  <1> QED
    BY <1>2, <1>4 DEF p

\* what a segment is merged with is what was planned for it
LEMMA CountedHere ==
  ASSUME NEW o, Editable(o), NEW t \in Tokens, NEW g \in Segments
  PROVE  LET here == {h \in Segments : CountsIn(o, t, h) = g}
             p    == Picks(o)
         IN  /\ UNION {p[t][h] : h \in here} = p[t][g]
             /\ UNION {Outputs(o, p, t, h) : h \in here} = Outputs(o, p, t, g)
  <1> DEFINE here == {h \in Segments : CountsIn(o, t, h) = g}
             p == Picks(o)
             Plain(h) == p[t][h] = {} /\ Outputs(o, p, t, h) = {}
  <1>1. g \in here \/ Plain(g)
    <2>1. CASE t \in UnshieldedTokens /\ o.sealed /\ g # 0
      <3>1. Imbalance(o, t, g) = 0
        BY <2>1 DEF Editable, Unbalanced
      <3> QED
        BY <3>1, NothingToAdd
    <2>2. CASE ~(t \in UnshieldedTokens /\ o.sealed /\ g # 0)
      <3>1. CountsIn(o, t, g) = g
        BY <2>2 DEF CountsIn
      <3> QED
        BY <3>1
    <2> QED
      BY <2>1, <2>2
  <1>2. ASSUME NEW h \in here, h # g PROVE Plain(h)
    <2>1. t \in UnshieldedTokens /\ o.sealed /\ h # 0
      BY <1>2 DEF CountsIn
    <2>2. Imbalance(o, t, h) = 0
      BY <2>1 DEF Editable, Unbalanced
    <2> QED
      BY <2>2, NothingToAdd
  <1> HIDE DEF here, p
  <1>3. UNION {p[t][h] : h \in here} = p[t][g]
    BY <1>1, <1>2
  <1>4. UNION {Outputs(o, p, t, h) : h \in here} = Outputs(o, p, t, g)
    BY <1>1, <1>2
  <1> QED
    BY <1>3, <1>4 DEF here, p

LEMMA NothingIsLeftOver ==
  ASSUME Counted(available \cup coins), Len(txs) \in Nat, NEW o \in Originals,
         Covered(o, Picks(o)), Editable(o), NEW t \in Tokens, NEW g \in Segments
  PROVE  Residue(o, Picks(o), t, g) = 0
  <1> DEFINE p == Picks(o)
             here == {h \in Segments : CountsIn(o, t, h) = g}
             ins == UNION {p[t][h] : h \in here}
             outs == UNION {Outputs(o, p, t, h) : h \in here}
  <1>1. /\ Total(p[t][g]) \in Nat /\ Imbalance(o, t, g) \in Int
        /\ Deficit(o, t, g) \in Nat /\ Surplus(o, t, g) \in Nat
        /\ Imbalance(o, t, g) = Surplus(o, t, g) - Deficit(o, t, g)
    BY PickFacts
  <1>2. Change(o, p, t, g) >= 0
    BY DEF Covered
  <1>3. ins = p[t][g] /\ outs = Outputs(o, p, t, g)
    BY CountedHere
  <1>4. Residue(o, p, t, g) = Imbalance(o, t, g) + Total(ins) - Total(outs)
    BY DEF Residue
  <1> HIDE DEF p, here, ins, outs
  <1>5. Change(o, p, t, g) \in Nat /\ Change(o, p, t, g) = Total(p[t][g]) - Deficit(o, t, g)
    BY <1>1, <1>2 DEF Change
  <1>6. Total(Outputs(o, p, t, g)) = Change(o, p, t, g) + Surplus(o, t, g)
    BY <1>1, <1>5, OutputsTotal
  <1>7. Residue(o, p, t, g) = Imbalance(o, t, g) + Total(p[t][g])
                                - (Change(o, p, t, g) + Surplus(o, t, g))
    BY <1>3, <1>4, <1>6
  <1> QED
    BY <1>1, <1>5, <1>7 DEF p

\* no coin that was taken could be done without
LEMMA NoCoinTooMany ==
  ASSUME Counted(available \cup coins), NEW o \in Originals, NEW t \in Tokens, NEW g \in Segments,
         NEW c \in Picks(o)[t][g], \A d \in Picks(o)[t][g] \ {c} : Before(d, c)
  PROVE  Total(Picks(o)[t][g] \ {c}) < Deficit(o, t, g)
  <1> DEFINE P == Pick(o, t)[g]
             F == Spendable(t) \ UNION {Pick(o, t)[h] : h \in Below(g)}
             E == {d \in F : Before(d, c)}
  <1>1. Picks(o)[t][g] = P
    BY DEF Picks
  <1>2. P = Taken(F, Deficit(o, t, g))
    <2>1. P = PickFrom(o, t, Pick(o, t), g)
      BY PickUnfolds
    <2>2. P # {}
      BY <1>1
    <2> QED
      BY <2>1, <2>2 DEF PickFrom
  <1>3. F \subseteq available \cup coins
    BY SpendableIsFree
  <1> HIDE DEF P, F
  <1>4. P \subseteq F /\ Total(E) < Deficit(o, t, g)
    BY <1>1, <1>2 DEF Taken
  <1>5. P \ {c} \subseteq E
    BY <1>1, <1>4
  <1>6. Counted(E)
    BY <1>3, PartCounted
  <1> HIDE DEF E
  <1>7. Total(P \ {c}) <= Total(E) /\ Total(E) \in Nat /\ Total(P \ {c}) \in Nat
    BY <1>5, <1>6, TotalGrows, PartCounted, UnitsAreFinite
  <1>8. Deficit(o, t, g) \in Nat
    BY PickFacts
  <1>9. Total(P \ {c}) < Deficit(o, t, g)
    BY <1>4, <1>7, <1>8
  <1> QED
    BY <1>1, <1>9

DeductedBy(s) == MapThenSumSet(LAMBDA d : s[d], DOMAIN s)

LEMMA FeeIsPaid ==
  ASSUME Counted(available \cup coins), Len(txs) \in Nat, WorthInv,
         NEW o \in Originals, NEW price \in Prices, Plan(o, price).fee.end = "paid"
  PROVE  LET s == Plan(o, price).fee.spends
             parts == o.parts + Parts(Plan(o, Sponsored).offer)
         IN  o.dust + DeductedBy(s) = Fee(price, parts, s) /\ \A d \in DOMAIN s : s[d] <= d.value
  <1> DEFINE fee == Plan(o, price).fee
             s == fee.spends
             offer == Plan(o, Sponsored).offer
  <1>1. price \in Nat /\ price # Sponsored
    BY PriceAssumption DEF PriceAssumption
  <1>2. /\ Affords(DustCoins, s)
        /\ SumOf(s, DOMAIN s) = fee.target
        /\ fee.target = Shortfall(price, o.parts + Parts(Plan(o, price).offer), o.dust, s)
        /\ o.dust \in Nat /\ o.parts + Parts(Plan(o, price).offer) \in Nat
    BY <1>1, FeePlan
  <1>3. Plan(o, price).offer = offer
    BY DEF Plan
  <1> HIDE DEF fee, offer
  <1>4. IsFiniteSet(DOMAIN s) /\ \A d \in DOMAIN s : s[d] \in Nat /\ s[d] <= d.value
    BY <1>2, DustIsOrdered, FS_Subset DEF Affords, Ordered
  <1>5. DeductedBy(s) = SumOf(s, DOMAIN s)
    BY <1>4, SpendSum DEF DeductedBy
  <1>6. Fee(price, o.parts + Parts(offer), s) \in Nat
    BY <1>1, <1>2, <1>3, <1>4, FeeIsNat
  <1>7. o.dust + DeductedBy(s) = Fee(price, o.parts + Parts(offer), s)
    BY <1>2, <1>3, <1>5, <1>6 DEF Shortfall
  <1> QED
    BY <1>4, <1>7 DEF fee, offer

LEMMA SoundPlans ==
  ASSUME BalanceInv, WorthInv PROVE PlansAreSound
  <1>1. Len(txs) \in Nat /\ Counted(available \cup coins)
    BY TxsKnown, WalletCounted DEF BalanceInv, History
  <1>2. Sponsored \in Nat
    BY DEF Sponsored
  <1>3. ASSUME NEW o \in Originals, Plan(o, Sponsored).ok, NEW t \in Tokens, NEW g \in Segments
        PROVE  LET p == Plan(o, Sponsored).picks
               IN  /\ Residue(o, p, t, g) = 0
                   /\ \A h \in Segments \ {g} : p[t][g] \cap p[t][h] = {}
                   /\ \A c \in p[t][g] :
                        (\A d \in p[t][g] \ {c} : Before(d, c)) =>
                           Total(p[t][g] \ {c}) < Deficit(o, t, g)
    <2>1. Plan(o, Sponsored).picks = Picks(o) /\ Covered(o, Picks(o)) /\ Editable(o)
      BY <1>3 DEF Plan
    <2> DEFINE p == Picks(o)
    <2>2. Residue(o, p, t, g) = 0
      BY <1>1, <2>1, NothingIsLeftOver
    <2>3. \A h \in Segments \ {g} : p[t][g] \cap p[t][h] = {}
      BY <1>1, PickFacts
    <2>4. \A c \in p[t][g] : (\A d \in p[t][g] \ {c} : Before(d, c)) =>
                                Total(p[t][g] \ {c}) < Deficit(o, t, g)
      BY <1>1, NoCoinTooMany
    <2> QED
      BY <2>1, <2>2, <2>3, <2>4
  <1>4. ASSUME NEW o \in Originals, NEW price \in Prices, Plan(o, price).fee.end = "paid"
        PROVE  LET s == Plan(o, price).fee.spends
               IN  /\ o.dust + DeductedBy(s) = Fee(price, o.parts + Parts(Plan(o, Sponsored).offer), s)
                   /\ \A d \in DOMAIN s : s[d] <= d.value
    BY <1>1, <1>4, FeeIsPaid
  <1> QED
    BY <1>3, <1>4 DEF PlansAreSound, DeductedBy

(* Whatever a wallet holds, and whatever it lived through, a plan for a    *)
(* dApp's transaction leaves every token balanced in every segment, uses   *)
(* no coin for two segments and none it could do without, and its DUST     *)
(* pays, with what the original brings, exactly the fee of the merged      *)
(* transaction, though every spend raises the fee it pays.                 *)
THEOREM PlansStaySound == BSpec => []PlansAreSound
  <1> DEFINE I == BalanceInv /\ WorthInv
  <1>1. BInit => I
    BY BalanceInit, WorthInit
  <1>2. I /\ [BNext]_balancingVars => I'
    BY BalanceStep, WorthStep
  <1>3. I => PlansAreSound
    BY SoundPlans
  <1> HIDE DEF I
  <1> QED
    BY <1>1, <1>2, <1>3, PTL DEF BSpec

=============================================================================
