----------------------------- MODULE Balancing -----------------------------
(***************************************************************************)
(* Balancing a dApp's transaction: the wallet plans what it has to add,    *)
(* shows the user a manifest of it, and on execution plans again and goes  *)
(* on only if the new manifest costs no more than the approved one.        *)
(*                                                                         *)
(* An original is the dApp's transaction: whether it is sealed, the        *)
(* segments of its intents, those of them that spend inputs of others in   *)
(* an unshielded offer, its size, the DUST it brings towards its fee, and  *)
(* its imbalance per token and segment, negative where it lacks coins.     *)
(* Segment 0 stands for the guaranteed sections of all intents.            *)
(***************************************************************************)
EXTENDS Wallet

CONSTANTS
    Originals,      \* [id, sealed, intents, foreign, parts, dust, imbalance]
    Segments,       \* 0 .. the highest segment
    Prices,         \* external: fee prices of the ledger parameters a host brings
    MaxApprovals    \* bound for model checking

ASSUME PriceAssumption == Sponsored \notin Prices /\ Prices \subseteq Nat
ASSUME SegmentAssumption == \A g \in Segments : g \in Nat /\ g < 65536   \* u16
ASSUME OriginalAssumption ==
    \A o \in Originals : /\ o.parts \in Nat /\ o.dust \in Nat
                         /\ \A s \in DOMAIN o.imbalance : o.imbalance[s] \in Int

Tokens == ShieldedTokens \cup UnshieldedTokens

VARIABLE approved   \* the manifests that the user has seen and approved

balancingVars == <<vars, approved>>

-----------------------------------------------------------------------------
(* The plan.                                                               *)

Imbalance(o, t, g) == IF <<t, g>> \in DOMAIN o.imbalance THEN o.imbalance[<<t, g>>] ELSE 0
Deficit(o, t, g) == IF Imbalance(o, t, g) < 0 THEN -Imbalance(o, t, g) ELSE 0
Surplus(o, t, g) == IF Imbalance(o, t, g) > 0 THEN Imbalance(o, t, g) ELSE 0

Unbalanced(o, ts) == {g \in Segments : \E t \in ts : Imbalance(o, t, g) # 0}

(* The coins for each segment, in ascending order; what a segment takes is *)
(* not there for the next.                                                 *)
Spendable(t) == IF t \in UnshieldedTokens THEN Of(available \ pending, t)
                ELSE Of(coins \ pendingSpends, t)
(* Faulty: every segment chooses from all coins.                           *)
PickAnew(o, t) == [g \in Segments |-> Taken(Spendable(t), Deficit(o, t, g))]

Pick(o, t) ==
    LET pick[g \in Segments] ==
          IF Deficit(o, t, g) = 0 THEN {}
          ELSE Taken(Spendable(t) \ UNION {pick[h] : h \in {h \in Segments : h < g}}, Deficit(o, t, g))
    IN  pick
Picks(o) == [t \in Tokens |-> Pick(o, t)]

(* In what follows, p is Picks(o).                                         *)
Change(o, p, t, g) == Total(p[t][g]) - Deficit(o, t, g)
Covered(o, p) == \A t \in Tokens, g \in Segments : Change(o, p, t, g) >= 0

(* What comes back from a segment: the change, or the surplus.             *)
Outputs(o, p, t, g) ==
    {Coin(10 * g + 1, t, v, FALSE) : v \in {Change(o, p, t, g)} \ {0}}
      \cup {Coin(10 * g + 2, t, v, FALSE) : v \in {Surplus(o, t, g)} \ {0}}

(* Unshielded coins go into the intents of an unsealed transaction, those  *)
(* for segment 0 into the guaranteed section of the first one; all inputs  *)
(* of an edited intent are signed again, so they must be the wallet's own. *)
(* A sealed transaction gets an intent of its own, which can only add to   *)
(* guaranteed sections.                                                    *)
Target(o, g) == IF g = 0 THEN Min(o.intents) ELSE g
Editable(o) ==
    LET gs == Unbalanced(o, UnshieldedTokens)
    IN  IF o.sealed THEN gs \subseteq {0}
        ELSE gs = {} \/ /\ o.intents # {}
                        /\ {Target(o, g) : g \in gs} \subseteq o.intents \ o.foreign

(* The segment in which the ledger counts what is added for a segment.     *)
CountsIn(o, t, g) ==
    IF t \in UnshieldedTokens /\ o.sealed THEN 0 ELSE g

(* What the wallet adds to the original.                                   *)
Counteroffer(o, p) ==
    LET Ins(S)  == UNION {p[s[1]][s[2]] : s \in S}
        Outs(S) == UNION {Outputs(o, p, s[1], s[2]) : s \in S}
        all     == Tokens \X Segments
        soft    == {s \in all : CountsIn(o, s[1], s[2]) # 0}
    IN  [ins |-> Ins(all), outs |-> Outs(all), soft |-> Ins(soft) \cup Outs(soft)]

(* The whole plan, or what it fails with.                                  *)
Plan(o, price) ==
    LET p     == Picks(o)
        offer == Counteroffer(o, p)
        fee   == DustPlan(price, o.parts + Parts(offer), o.dust)
        ok    == Editable(o) /\ Covered(o, p) /\ fee.end = "paid"
    IN  [ok |-> ok, picks |-> p, offer |-> offer, fee |-> fee]

(* What is left over in a segment after the counteroffers are merged in.   *)
Residue(o, p, t, g) ==
    LET here == {h \in Segments : CountsIn(o, t, h) = g}
    IN  Imbalance(o, t, g) + Total(UNION {p[t][h] : h \in here})
                           - Total(UNION {Outputs(o, p, t, h) : h \in here})

-----------------------------------------------------------------------------
(* The manifest.                                                           *)

Digest == [unshielded |-> available, shielded |-> coins,
           dust |-> {<<d, dust[d].seq>> : d \in {e \in Nights : ~dust[e].pending}}]

Manifest(o, price, plan) ==
    [transaction   |-> o.id, sealed |-> o.sealed,
     contributions |-> [t \in Tokens |-> MapThenSumSet(LAMBDA g : Deficit(o, t, g), Segments)],
     change        |-> [t \in Tokens |-> MapThenSumSet(
                          LAMBDA g : Change(o, plan.picks, t, g) + Surplus(o, t, g), Segments)],
     sponsored     |-> price = Sponsored,
     dust          |-> plan.fee.target,
     wallet        |-> Digest]

(* Faulty: DUST is not compared.                                           *)
AuthorizesAnyDust(m, fresh) ==
    \A f \in {"transaction", "sealed", "contributions", "change", "sponsored", "wallet"} :
       m[f] = fresh[f]

(* Everything must be as approved, except that DUST may be cheaper.        *)
Authorizes(m, fresh) ==
    /\ \A f \in {"transaction", "sealed", "contributions", "change", "sponsored", "wallet"} :
         m[f] = fresh[f]
    /\ m.sponsored \/ fresh.dust <= m.dust

-----------------------------------------------------------------------------
(* The commands.                                                           *)

PreviewBalance(o, price) ==
    /\ Room /\ Cardinality(approved) < MaxApprovals
    /\ CaughtUp
    /\ LET plan == Plan(o, price)
       IN  /\ plan.ok
           /\ approved' = approved \cup {Manifest(o, price, plan)}
    /\ UNCHANGED vars

(* For model checking: with no room left for a transaction, what the user  *)
(* approved no longer matters.                                             *)
KeepApproved == approved' = IF Room' THEN approved ELSE {}

(* The proposed state of the plan is dropped: nothing is reserved.  A plan *)
(* that adds nothing only completes the original.                          *)
Execute(o, price, m) ==
    /\ MayBuild /\ CaughtUp
    /\ LET plan   == Plan(o, price)
           spends == Spends(plan.fee)
       IN  /\ plan.ok
           /\ Authorizes(m, Manifest(o, price, plan))
           /\ plan.offer.ins \cup plan.offer.outs # {} \/ spends # {}
           /\ txs' = Append(txs, Transaction("balance", o.id, plan.offer, spends, {}))
    /\ UNCHANGED <<walletVars, caughtUp, seen, chain>>
    /\ KeepApproved

BalanceUnsealed(o, price, m) == ~o.sealed /\ Execute(o, price, m)
BalanceSealed(o, price, m) == o.sealed /\ Execute(o, price, m)

BInit == Init /\ approved = {}

BNext ==
    \/ Next /\ KeepApproved
    \/ \E o \in Originals, price \in Prices \cup {Sponsored} :
         \/ PreviewBalance(o, price)
         \/ \E m \in approved : BalanceUnsealed(o, price, m) \/ BalanceSealed(o, price, m)

BSpec == BInit /\ [][BNext]_balancingVars

-----------------------------------------------------------------------------
(* Properties.                                                             *)

(* Whatever the wallet holds when it plans, a plan for a dApp's            *)
(* transaction takes no coin for two segments, takes no coin it could do without, leaves every  *)
(* token balanced in every segment once it is merged in, and with the DUST *)
(* the original brings pays the fee of the merged transaction exactly and  *)
(* within what its DUST is worth.                                          *)
(* verify_balanced and fee_shortfall treat the contrary as a defect.       *)
PlansAreSound ==
    CaughtUp => \A o \in Originals :
        LET plan == Plan(o, Sponsored)
            p    == plan.picks
            SoundFor(t, g) ==
               /\ Residue(o, p, t, g) = 0
               /\ \A h \in Segments \ {g} : p[t][g] \cap p[t][h] = {}
               /\ \A c \in p[t][g] :
                    (\A d \in p[t][g] \ {c} : Before(d, c)) =>
                       Total(p[t][g] \ {c}) < Deficit(o, t, g)
            PaidAt(price) ==
               LET fee == Plan(o, price).fee
                   s   == fee.spends
               IN  fee.end = "paid" =>
                     /\ o.dust + MapThenSumSet(LAMBDA d : s[d], DOMAIN s)
                          = Fee(price, o.parts + Parts(plan.offer), s)
                     /\ \A d \in DOMAIN s : s[d] <= d.value
        IN  plan.ok => /\ \A t \in Tokens, g \in Segments : SoundFor(t, g)
                       /\ \A price \in Prices : PaidAt(price)

(* A balance that is executed is a transaction the user saw, takes no more *)
(* of any token than the user approved, returns what was shown as change,  *)
(* and spends no more DUST than approved, whatever happened to the wallet  *)
(* between preview and execution and whatever fee price the host brings.   *)
PaidAsApproved(x, m) ==
    /\ x.of = m.transaction
    /\ \A t \in Tokens :
         /\ Total(Of(x.ins, t)) - Total(Of(x.outs, t)) <= m.contributions[t]
         /\ Total(Of(x.outs, t)) = m.change[t]
    /\ IF m.sponsored THEN x.spends = {} ELSE MapThenSumSet(LAMBDA s : s.amount, x.spends) <= m.dust
ApprovedIsPaid ==
    [][\A k \in DOMAIN txs' \ DOMAIN txs :
          txs'[k].kind = "balance" => \E m \in approved : PaidAsApproved(txs'[k], m)]_balancingVars

(* What the comments on plan and candidates say: once a balance has been   *)
(* submitted, its inputs are pending until the chain's answer has arrived, *)
(* and are not candidates for another transaction.  Does not hold: no code *)
(* registers them.                                                         *)
SubmittedInputsArePending ==
    \A k \in DOMAIN txs :
        txs[k].kind = "balance" /\ txs[k].fate = "success" /\ ~Settled(k) =>
            \A c \in Unshielded(txs[k].ins) : c \notin available

=============================================================================
