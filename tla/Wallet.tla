------------------------------- MODULE Wallet -------------------------------
(***************************************************************************)
(* The coins of one wallet, as NativeWalletState keeps them: unshielded    *)
(* UTXOs that are available or pending, shielded coins with the spends and *)
(* outputs that are pending, and DUST.  The commands that build            *)
(* transactions reserve coins; what the chain makes of the transactions    *)
(* comes back over three streams that advance independently.               *)
(*                                                                         *)
(* A command is one step here: how a proposed wallet state is carried      *)
(* through proof rounds and installed is the subject of                    *)
(* OperationLifecycle.  The chain is external.  A transaction is what it   *)
(* takes from this wallet and what it gives back to it.                    *)
(***************************************************************************)
EXTENDS CoinSelection, Sequences

CONSTANTS
    ShieldedTokens, UnshieldedTokens,
    Night,          \* the token of UnshieldedTokens that generates DUST
    Nights,         \* the wallet's DUST coins, numbers
    InitialCoins,   \* the wallet's coins when the session opens
    Cap,            \* [Nights -> Nat]: what a DUST coin is worth at most, and first
    Payments,       \* external: payments to the wallet by others, as coins
    Requests,       \* what transfer and intent commands ask for, see Selected
    HostRules,      \* what the host promises: see MayBuild and MayImport
    DustRounds,     \* how long the search for the fee goes on; 64 in the code
    MaxTransactions \* bound for model checking: the wallet's and those of others

Streams == {"shielded", "unshielded", "dust"}
Sponsored == 0                  \* in the place of a price
Unshielded(cs) == {c \in cs : c.token \in UnshieldedTokens}
Shielded(cs) == {c \in cs : c.token \in ShieldedTokens}

ASSUME TokenAssumption ==
    /\ ShieldedTokens \cap UnshieldedTokens = {}
    /\ Night \in UnshieldedTokens
    /\ \A c \in InitialCoins \cup Payments : c.token \in ShieldedTokens \cup UnshieldedTokens

(* External: a coin has an id of its own; those of the wallet's            *)
(* transactions are numbered by transaction and output.                    *)
IdSpan == 1000000
ASSUME CoinAssumption ==
    /\ \A c \in InitialCoins \cup Payments : c.value \in Nat /\ c.id \in Nat /\ c.id <= IdSpan
    /\ InitialCoins \cap Payments = {}
    /\ IsFiniteSet(InitialCoins)
ASSUME AmountAssumption ==
    /\ IsFiniteSet(ShieldedTokens \cup UnshieldedTokens)
    /\ \A r \in Requests : /\ r.price \in Nat
                           /\ \A t \in DOMAIN r.target : r.target[t] \in Nat /\ r.own[t] \in Nat
ASSUME NightAssumption ==
    Nights \subseteq Nat /\ IsFiniteSet(Nights) /\ \A d \in Nights : Cap[d] \in Nat
ASSUME RoundsAssumption == DustRounds \in Nat

VARIABLES
    available, pending,                    \* the unshielded UTXOs
    coins, pendingSpends, pendingOutputs,  \* the shielded state
    dust,      \* [Nights -> [seq, worth, pending]]
    caughtUp,  \* the streams that were announced as caught up
    seen,      \* [Streams -> Nat]: how much of the chain a stream delivered
    chain,     \* what happened on chain, in order
    txs        \* the transactions that were built, in order

walletVars == <<available, pending, coins, pendingSpends, pendingOutputs, dust>>
vars == <<walletVars, caughtUp, seen, chain, txs>>

(* A transaction: the wallet's coins it spends and those it gives back,    *)
(* which of both are in fallible sections, the DUST it spends, whose it    *)
(* is, what became of it, and in which parts of the wallet state it is     *)
(* still reserved.                                                         *)
Transaction(kind, of, offer, spends, kept) ==
    [kind |-> kind, of |-> of, ins |-> offer.ins, outs |-> offer.outs, soft |-> offer.soft,
     spends |-> spends, fate |-> "open", kept |-> kept]

Coin(k, t, v, registered) ==
    [token |-> t, value |-> v, id |-> IdSpan * (Len(txs) + 1) + k, registered |-> registered]

(* External: the wallet's coins on chain after n entries, and how often a  *)
(* DUST coin was spent.                                                    *)
Unspent(n) == IF n = 0 THEN InitialCoins ELSE chain[n].after
Landed(k) == {i \in 1 .. Len(chain) : chain[i].tx = k}
DustSeq(d) == Cardinality({i \in 1 .. Len(chain) : \E s \in chain[i].spends : s.night = d})

-----------------------------------------------------------------------------
(* Selection.                                                              *)

(* Unshielded coins count until their spend is confirmed, shielded ones    *)
(* until they are reserved; shielded change counts once it is expected.    *)
Balance(t) ==
    IF t \in UnshieldedTokens THEN Total(Of(available, t)) + Total(Of(pending, t))
    ELSE Total(Of(coins \ pendingSpends, t)) + Total(Of(pendingOutputs, t))

(* Faulty: shielded coins that are reserved are chosen again.              *)
CandidatesReserved(t) == IF t \in UnshieldedTokens THEN Of(available, t) ELSE Of(coins, t)

Candidates(t) == IF t \in UnshieldedTokens THEN Of(available, t)
                 ELSE Of(coins \ pendingSpends, t)

(* What a request takes for its target of one token, and what comes back:  *)
(* the change, and a payment that goes to the wallet itself.  A request is *)
(* [kind, price, target : tokens -> amounts, own : the part of each that   *)
(* is paid to the wallet itself]; no price stands for a sponsored fee.     *)
Selected(t, r) == Taken(Candidates(t), r.target[t])
Returned(t, r) ==
    LET change == Total(Selected(t, r)) - r.target[t]
    IN  {Coin(1, t, v, FALSE) : v \in {change} \ {0}}
          \cup {Coin(2, t, v, FALSE) : v \in {r.own[t]} \ {0}}
Affordable(r) == \A t \in DOMAIN r.target : Total(Candidates(t)) >= r.target[t]

ShieldedOffer(r) ==
    LET ts == DOMAIN r.target \cap ShieldedTokens
    IN  [ins  |-> UNION {Selected(t, r) : t \in ts},
         outs |-> UNION {Returned(t, r) : t \in ts},
         soft |-> {}]

(* The unshielded offer of a transfer that moves NIGHT is fallible.        *)
UnshieldedOffer(r) ==
    LET ts   == DOMAIN r.target \cap UnshieldedTokens
        ins  == UNION {Selected(t, r) : t \in ts}
        outs == UNION {Returned(t, r) : t \in ts}
    IN  [ins  |-> ins, outs |-> outs,
         soft |-> IF Night \in ts /\ r.kind # "intent" THEN ins \cup outs ELSE {}]

Offer(r) ==
    LET s == ShieldedOffer(r)
        u == UnshieldedOffer(r)
    IN  [ins |-> s.ins \cup u.ins, outs |-> s.outs \cup u.outs, soft |-> u.soft]

(* Registration takes all NIGHT that generates no DUST yet: one coin in    *)
(* the guaranteed section, to pay the fee, the others in the fallible one. *)
Registrable == {c \in Of(available, Night) : ~c.registered}
RegistrationOffer(first) ==
    LET rest == Registrable \ {first}
        Back(k, cs) == {Coin(k, Night, Total(cs), TRUE)}
        soft == IF rest = {} THEN {} ELSE rest \cup Back(2, rest)
    IN  [ins |-> Registrable, outs |-> Back(1, {first}) \cup (soft \ rest), soft |-> soft]

-----------------------------------------------------------------------------
(* DUST.                                                                   *)

DustCoins == {[id |-> d, value |-> dust[d].worth] :
                d \in {e \in Nights : ~dust[e].pending /\ dust[e].worth > 0}}

(* The DUST spends of a transaction with this many parts and DUST.         *)
DustPlan(price, parts, own) ==
    IF price = Sponsored THEN [spends |-> NoSpends, end |-> "paid", target |-> 0]
    ELSE DustSearch(DustCoins, price, parts, own, DustRounds)

Spends(plan) == {[night |-> d.id, seq |-> dust[d.id].seq, amount |-> plan.spends[d]] :
                   d \in DOMAIN plan.spends}

Parts(offer) == Cardinality(offer.ins) + Cardinality(offer.outs)

-----------------------------------------------------------------------------
(* The commands that build and reserve.                                    *)

CaughtUp == caughtUp = Streams

(* A transaction is settled once nothing of it can come any more.          *)
Settled(k) ==
    \/ txs[k].fate = "dropped"
    \/ \E i \in Landed(k) : \A s \in Streams : seen[s] >= i

(* A balance or an intent reserves nothing; a careful host waits for it.   *)
Room == Len(txs) + Cardinality({i \in DOMAIN chain : chain[i].tx = 0}) < MaxTransactions
MayBuild ==
    /\ Room
    /\ "balanceAlone" \in HostRules =>
         \A k \in DOMAIN txs : txs[k].kind \in {"balance", "intent"} => Settled(k)

(* Faulty: the shielded change is not watched for.                         *)
ReserveUnwatched(offer, spends) ==
    /\ available' = available \ Unshielded(offer.ins)
    /\ pending' = pending \cup Unshielded(offer.ins)
    /\ pendingSpends' = pendingSpends \cup Shielded(offer.ins)
    /\ dust' = [d \in Nights |-> [dust[d] EXCEPT !.pending = @ \/ \E s \in spends : s.night = d]]
    /\ UNCHANGED <<coins, pendingOutputs>>

Reserve(offer, spends) ==
    /\ available' = available \ Unshielded(offer.ins)
    /\ pending' = pending \cup Unshielded(offer.ins)
    /\ pendingSpends' = pendingSpends \cup Shielded(offer.ins)
    /\ pendingOutputs' = pendingOutputs \cup Shielded(offer.outs)
    /\ dust' = [d \in Nights |-> [dust[d] EXCEPT !.pending = @ \/ \E s \in spends : s.night = d]]
    /\ UNCHANGED coins

(* Selects, proves, pays the fee unless it is sponsored, and installs the  *)
(* wallet state with all of it reserved.                                   *)
BuildAndReserve(kind, offer, price) ==
    LET plan == DustPlan(price, Parts(offer), 0)
    IN  /\ plan.end = "paid"
        /\ Reserve(offer, Spends(plan))
        /\ txs' = Append(txs, Transaction(kind, "wallet", offer, Spends(plan), Streams))
        /\ UNCHANGED <<caughtUp, seen, chain>>

Transfer(r) ==
    /\ r.kind = "transfer" /\ MayBuild /\ CaughtUp
    /\ Affordable(r)
    /\ BuildAndReserve("transfer", Offer(r), r.price)

DappTransfer(r) ==
    /\ r.kind = "dappTransfer" /\ MayBuild /\ CaughtUp
    /\ Affordable(r)
    /\ BuildAndReserve("dappTransfer", Offer(r), r.price)

(* The fee of a registration is paid by the DUST that its first coin would *)
(* have generated; whether that is enough is left open.                    *)
GenerateDust ==
    /\ MayBuild /\ CaughtUp
    /\ \E first \in Registrable :
         BuildAndReserve("register", RegistrationOffer(first), Sponsored)

(* An intent is given away unbalanced, and nothing is reserved for it.     *)
DappIntent(r) ==
    /\ r.kind = "intent" /\ MayBuild /\ CaughtUp
    /\ Affordable(r)
    /\ txs' = Append(txs, Transaction("intent", "wallet", Offer(r), {}, {}))
    /\ UNCHANGED <<walletVars, caughtUp, seen, chain>>

-----------------------------------------------------------------------------
(* What the streams bring.  A batch takes its stream out of caughtUp; the  *)
(* host's announcement that follows at the tip puts it back, and is taken  *)
(* together with the batch, since commands are only refused in between.    *)

AdvanceTo(s, p) ==
    /\ seen' = [seen EXCEPT ![s] = p]
    /\ caughtUp' = IF p = Len(chain) THEN caughtUp \cup {s} ELSE caughtUp \ {s}

Advance(s) ==
    /\ seen[s] < Len(chain)
    /\ AdvanceTo(s, seen[s] + 1)
    /\ UNCHANGED <<chain, txs>>

(* Faulty: a failed transaction is taken for one that went through in part. *)
ApplyUnshieldedAnyFate ==
    LET e == chain[seen["unshielded"] + 1]
    IN  /\ Advance("unshielded")
        /\ available' = (available \ e.spent) \cup Unshielded(e.made)
        /\ pending' = pending \ e.spent
        /\ UNCHANGED <<coins, pendingSpends, pendingOutputs, dust>>

ApplyUnshielded ==
    LET e == chain[seen["unshielded"] + 1]
    IN  /\ Advance("unshielded")
        /\ IF e.fate = "failure"
           THEN /\ available' = available \cup Unshielded(e.spent)
                /\ pending' = pending \ Unshielded(e.spent)
           ELSE /\ available' = (available \ e.spent) \cup Unshielded(e.made)
                /\ pending' = pending \ e.spent
        /\ UNCHANGED <<coins, pendingSpends, pendingOutputs, dust>>

(* The ledger library replays the events of a transaction: spent coins go, *)
(* its outputs to the wallet come, expected or not.  A transaction that    *)
(* failed has no events.                                                   *)
ApplyShielded ==
    LET e == chain[seen["shielded"] + 1]
    IN  /\ Advance("shielded")
        /\ IF e.fate = "failure"
           THEN UNCHANGED <<coins, pendingSpends, pendingOutputs>>
           ELSE /\ coins' = (coins \ e.spent) \cup Shielded(e.made)
                /\ pendingSpends' = pendingSpends \ e.spent
                /\ pendingOutputs' = pendingOutputs \ e.made
        /\ UNCHANGED <<available, pending, dust>>

(* A DUST coin that was spent comes back as its successor.                 *)
ApplyDust ==
    LET e == chain[seen["dust"] + 1]
        Successor(s) == [seq |-> s.seq + 1, pending |-> FALSE,
                         worth |-> IF dust[s.night].worth > s.amount
                                   THEN dust[s.night].worth - s.amount ELSE 0]
    IN  /\ Advance("dust")
        /\ dust' = [d \in Nights |->
                      IF \E s \in e.spends : s.night = d
                      THEN Successor(CHOOSE s \in e.spends : s.night = d)
                      ELSE dust[d]]
        /\ UNCHANGED <<available, pending, coins, pendingSpends, pendingOutputs>>

(* The host asks which shielded coins are spent on chain; the answer may   *)
(* be ahead of the stream.                                                 *)
ApplyShieldedSpentResponse ==
    LET gone == coins \ Unspent(Len(chain))
    IN  /\ gone # {}
        /\ coins' = coins \ gone
        /\ pendingSpends' = pendingSpends \ gone
        /\ UNCHANGED <<available, pending, pendingOutputs, dust, caughtUp, seen, chain, txs>>

(* A v2 payload replaces the shielded state, or the DUST state, by what    *)
(* the chain held at a point; nothing is reserved in it.  A careful host   *)
(* imports when no transaction is on its way.                              *)
MayImport(p) ==
    "importIdle" \in HostRules =>
        /\ \A k \in DOMAIN txs : txs[k].fate # "open"
        /\ \A i \in p + 1 .. Len(chain) : chain[i].tx = 0

Forget(s) == txs' = [k \in DOMAIN txs |-> [txs[k] EXCEPT !.kept = @ \ {s}]]

ImportShielded(p) ==
    /\ p > seen["shielded"] /\ MayImport(p)
    /\ coins' = Shielded(Unspent(p))
    /\ pendingSpends' = {}
    /\ pendingOutputs' = {}
    /\ Forget("shielded")
    /\ AdvanceTo("shielded", p)
    /\ UNCHANGED <<available, pending, dust, chain>>

ImportDust(p) ==
    LET SeqAt(d) == Cardinality({i \in 1 .. p : \E s \in chain[i].spends : s.night = d})
    IN  /\ p > seen["dust"] /\ MayImport(p)
        /\ dust' = [d \in Nights |-> [seq |-> SeqAt(d), worth |-> dust[d].worth, pending |-> FALSE]]
        /\ Forget("dust")
        /\ AdvanceTo("dust", p)
        /\ UNCHANGED <<available, pending, coins, pendingSpends, pendingOutputs, chain>>

-----------------------------------------------------------------------------
(* External: the chain, and time.                                          *)

(* An entry of the chain with what the wallet owns after it.  A stream     *)
(* that is at the tip and carries nothing of the entry stays at the tip.   *)
Carried(fate, moved, spends) ==
    {s \in Streams : CASE s = "unshielded" -> Unshielded(moved) # {}
                       [] s = "shielded"   -> fate # "failure" /\ Shielded(moved) # {}
                       [] s = "dust"       -> spends # {}}

Record(k, fate, spent, made, spends) ==
    LET n      == Len(chain)
        before == Unspent(n)
    IN  /\ chain' = Append(chain,
                 [tx |-> k, fate |-> fate, spent |-> spent, made |-> made, spends |-> spends,
                  after |-> IF fate = "failure" THEN before ELSE (before \ spent) \cup made])
        /\ seen' = [s \in Streams |->
                 IF seen[s] = n /\ s \notin Carried(fate, spent \cup made, spends)
                 THEN n + 1 ELSE seen[s]]

Include(k, fate) ==
    LET t == txs[k]
    IN  /\ t.fate = "open"
        /\ t.ins \subseteq Unspent(Len(chain)) /\ t.outs \cap Unspent(Len(chain)) = {}
        /\ \A s \in t.spends : s.seq = DustSeq(s.night)
        /\ CASE fate = "success" -> Record(k, fate, t.ins, t.outs, t.spends)
             [] fate = "partial" -> /\ t.soft # {}
                                    /\ Record(k, fate, t.ins \ t.soft, t.outs \ t.soft, t.spends)
             [] fate = "failure" -> Record(k, fate, t.ins, {}, {})
        /\ txs' = [txs EXCEPT ![k].fate = fate]
        /\ UNCHANGED <<walletVars, caughtUp>>

(* Never sent, refused by the node, or past its time to live.              *)
Drop(k) ==
    /\ txs[k].fate = "open"
    /\ txs' = [txs EXCEPT ![k].fate = "dropped"]
    /\ UNCHANGED <<walletVars, caughtUp, seen, chain>>

Pay(c) ==
    /\ Room
    /\ \A i \in DOMAIN chain : c \notin chain[i].made
    /\ c \notin Unspent(Len(chain))
    /\ Record(0, "success", {}, {c}, {})
    /\ UNCHANGED <<walletVars, caughtUp, txs>>

(* DUST that is left alone grows to its cap; only the end is modelled.     *)
Grow(d) ==
    /\ dust[d].worth < Cap[d]
    /\ dust' = [dust EXCEPT ![d].worth = Cap[d]]
    /\ UNCHANGED <<available, pending, coins, pendingSpends, pendingOutputs,
                   caughtUp, seen, chain, txs>>

(* The grace period of a DUST spend is longer than the life of the         *)
(* transaction it was made for.                                            *)
Expire(d) ==
    /\ dust[d].pending
    /\ \A k \in DOMAIN txs : (\E s \in txs[k].spends : s.night = d) => txs[k].fate = "dropped"
    /\ dust' = [dust EXCEPT ![d].pending = FALSE]
    /\ UNCHANGED <<available, pending, coins, pendingSpends, pendingOutputs,
                   caughtUp, seen, chain, txs>>

-----------------------------------------------------------------------------
Init ==
    /\ available = Unshielded(InitialCoins) /\ pending = {}
    /\ coins = Shielded(InitialCoins) /\ pendingSpends = {} /\ pendingOutputs = {}
    /\ dust = [d \in Nights |-> [seq |-> 0, worth |-> Cap[d], pending |-> FALSE]]
    /\ caughtUp = Streams
    /\ seen = [s \in Streams |-> 0]
    /\ chain = <<>>
    /\ txs = <<>>

Commands ==
    \/ \E r \in Requests : Transfer(r) \/ DappTransfer(r) \/ DappIntent(r)
    \/ GenerateDust

Sync ==
    \/ ApplyUnshielded \/ ApplyShielded \/ ApplyDust
    \/ ApplyShieldedSpentResponse
    \/ \E p \in 1 .. Len(chain) : ImportShielded(p) \/ ImportDust(p)

Chain ==
    \/ \E k \in DOMAIN txs : \/ \E fate \in {"success", "partial", "failure"} : Include(k, fate)
                             \/ Drop(k)
    \/ \E c \in Payments : Pay(c)
    \/ \E d \in Nights : Grow(d) \/ Expire(d)

Next == Commands \/ Sync \/ Chain

Spec == Init /\ [][Next]_vars

-----------------------------------------------------------------------------
(* Properties.                                                             *)

(* Every unshielded coin that the chain holds for the wallet, as far as    *)
(* its stream has come, is in exactly one of the two lists; the shielded   *)
(* state holds what its stream brought except what the chain has meanwhile *)
(* reported as spent, and reserves only what it holds.                     *)
CoinsAccounted ==
    /\ available \cap pending = {}
    /\ available \cup pending = Unshielded(Unspent(seen["unshielded"]))
    /\ coins \subseteq Shielded(Unspent(seen["shielded"]))
    /\ Shielded(Unspent(seen["shielded"])) \ coins \subseteq
         UNION {chain[i].spent : i \in {j \in DOMAIN chain : chain[j].fate # "failure"}}
    /\ pendingSpends \subseteq coins

(* The ins and outs that a wallet still has to remember of a transaction.  *)
Arrived(k) == \E i \in Landed(k) : i <= seen["shielded"] /\ chain[i].fate # "failure"
Remembered == {txs[k] : k \in {j \in DOMAIN txs : "shielded" \in txs[j].kept /\ ~Arrived(j)}}

(* What a wallet shows: of an unshielded token, what its stream has        *)
(* confirmed, whatever is reserved; of a shielded one, what would be left  *)
(* if all transactions it remembers went through.                          *)
BalancesAddUp ==
    /\ \A t \in UnshieldedTokens : Balance(t) = Total(Of(Unspent(seen["unshielded"]), t))
    /\ \A t \in ShieldedTokens :
         Balance(t) = Total(Of(coins \ UNION {x.ins : x \in Remembered}, t))
                        + Total(Of(UNION {x.outs : x \in Remembered}, t))

(* No coin and no DUST coin is spent by two transactions of this wallet    *)
(* that can both still be on chain, or are.                                *)
Consumed(t) == CASE t.fate \in {"open", "success"} -> t.ins
                 [] t.fate = "partial" -> t.ins \ t.soft
                 [] OTHER -> {}
DustConsumed(t) == IF t.fate \in {"open", "success", "partial"}
                   THEN {<<s.night, s.seq>> : s \in t.spends} ELSE {}
NeverSpentTwice ==
    \A i, j \in DOMAIN txs : i # j => /\ Consumed(txs[i]) \cap Consumed(txs[j]) = {}
                                      /\ DustConsumed(txs[i]) \cap DustConsumed(txs[j]) = {}

=============================================================================
