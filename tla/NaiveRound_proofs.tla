-------------------------- MODULE NaiveRound_proofs --------------------------
(***************************************************************************)
(* For every set of orders and routes, every margin, plan, gain and sale:  *)
(* as long as nothing was lost the wallet can pay for the next order, the  *)
(* realized profit is the order's own unless something went unseen, and    *)
(* delivered plans pay.  The argument keeps apart what the bot may still   *)
(* count on (Solvent), what its last reading of the balance is worth       *)
(* (Measured) and what it has concluded of the order in hand (Reported).   *)
(***************************************************************************)
EXTENDS NaiveRound, FiniteSetTheorems, TLAPS

LEMMA WalletsAreInts == Wallets \subseteq Nat /\ 0 \in Wallets
  BY NaiveAssumption DEF Wallets

LEMMA GasIsNat ==
    \A route \in Routes : Gas(route) \in Nat /\ Fees(route) \in Nat
  BY GasAssumption DEF Gas, Fees

\* What an order may be charged beyond its gas goes with the order.
LEMMA SameExcess == ASSUME Order' = Order PROVE Excess' = Excess
  BY DEF Excess

\* What an order may take is within what it started from, which is within
\* the wallet: stated for the state after a step.
LEMMA Overdraft ==
    ASSUME TypeOK', Solvent' PROVE OverdraftNeedsLoss'
  BY WalletsAreInts
     DEF TypeOK, WalletType, OrdersType, HandType, OrderRecord, Solvent,
          OverdraftNeedsLoss, Affordable, Order

\* A coroutine that evaluates an order changes nothing but that order, and
\* only before it is ready or as it becomes so.
LEMMA Evaluated ==
    ASSUME IInv, NEW o \in Orders, NEW rec \in OrderRecord,
           orders' = [orders EXCEPT ![o] = rec],
           orders[o].at # "taken", Awaits,
           rec.at = "ready" =>
              /\ rec.profit - rec.gas >= Margin
              /\ rec.invest > 0 => rec.invest + rec.gas <= balance,
           UNCHANGED <<config, wallet, balance, stray, pc, inhand, blind, lost>>
    PROVE  IInv'
<1>1. TypeOK'
  BY DEF IInv, TypeOK, WalletType, OrdersType, HandType, config, inhand
<1>2. /\ orders'[o] = rec
      /\ \A p \in Orders : p # o => orders'[p] = orders[p]
      /\ InHand => Order' = Order
  BY DEF IInv, TypeOK, OrdersType, inhand, Order, Reported
<1>3. Solvent'
  <2> SUFFICES ASSUME ~lost, NEW p \in Orders
               PROVE  /\ (balance <= Basis)'
                      /\ (pc = "trade" => started <= wallet)'
                      /\ (orders[p].at = "ready" /\ orders[p].invest > 0 =>
                             Affordable(p, Basis))'
                      /\ (pc = "trade" /\ Order.invest > 0 =>
                             Affordable(current, started))'
    BY DEF Solvent
  <2>1. Basis' = Basis /\ Basis \in Nat /\ balance \in Nat /\ balance <= Basis
    BY WalletsAreInts DEF Basis, InHand, inhand, IInv, TypeOK,
         WalletType, HandType, Solvent
  <2>2. (pc = "trade" => started <= wallet)'
    BY DEF IInv, Solvent, inhand
  <2>3. (orders[p].at = "ready" /\ orders[p].invest > 0 => Affordable(p, Basis))'
    BY <1>2, <2>1 DEF Affordable, IInv, Solvent, OrderRecord, TypeOK,
         OrdersType
  <2>4. (pc = "trade" /\ Order.invest > 0 => Affordable(current, started))'
    BY <1>2 DEF Affordable, IInv, Solvent, Order, inhand, InHand
  <2> QED BY <2>1, <2>2, <2>3, <2>4
<1>4. Measured'
  BY <1>2, SameExcess DEF Measured, IInv, inhand, InHand
<1>5. Reported'
  BY <1>2 DEF Reported, IInv, inhand, InHand
<1>6. RealizedIsOwn' /\ DeliveredPlansPay' /\ WholeFailsOnlyUnseen'
  BY <1>2, SameExcess
     DEF IInv, RealizedIsOwn, DeliveredPlansPay, WholeFailsOnlyUnseen, inhand,
         InHand
<1> QED BY <1>1, <1>3, <1>4, <1>5, <1>6, Overdraft DEF IInv

\* Without an order in hand strategy's variables are at rest.
LEMMA AtRest == ASSUME PutDown PROVE HandType'
<1>1. whole' \in BOOLEAN /\ known' \in BOOLEAN /\ delivered' \in BOOLEAN
  BY Zenon DEF PutDown
<1>2. /\ prior' \in Wallets /\ started' \in Wallets /\ realized' \in Int
      /\ status' \in {"QUEUED", "EXECUTED", "FAILED"}
  BY WalletsAreInts DEF PutDown
<1> QED BY <1>1, <1>2 DEF HandType

\* A sale that costs nothing is the only one that is not noted as a loss, and
\* one that changes nothing the only one that leaves the reading fresh.
LEMMA Sold ==
    ASSUME NEW d \in Int, Sell(d)
    PROVE  /\ wallet' = wallet + d
           /\ ~lost' => ~lost /\ d >= 0
           /\ ~blind' => ~blind /\ d = 0
<1>1. wallet' = wallet + d
  BY DEF Sell
<1>2. ~lost' => ~lost /\ ~(d < 0)
  BY Zenon DEF Sell
<1>3. ~blind' => ~blind /\ d = 0
  BY Zenon DEF Sell
<1>4. ~(d < 0) => d >= 0
  OBVIOUS
<1> QED BY <1>1, <1>2, <1>3, <1>4

LEMMA FirstPassKeeps == ASSUME IInv, NEW o \in Orders, FirstPass(o) PROVE IInv'
<1>1. PICK route \in Routes, to \in {"dropped", "plan"} :
         orders' = [orders EXCEPT ![o] =
             IF to = "plan"
             THEN [@ EXCEPT !.at = to, !.gas = Gas(route), !.fees = Fees(route)]
             ELSE [@ EXCEPT !.at = to]]
  BY Zenon DEF FirstPass
<1> DEFINE rec == IF to = "plan"
                  THEN [orders[o] EXCEPT !.at = to, !.gas = Gas(route),
                                         !.fees = Fees(route)]
                  ELSE [orders[o] EXCEPT !.at = to]
<1>2. orders[o] \in OrderRecord /\ Gas(route) \in Nat /\ Fees(route) \in Nat
  BY GasIsNat DEF IInv, TypeOK, OrdersType
<1>3. rec \in OrderRecord /\ rec.at # "ready"
  BY <1>2 DEF OrderRecord, Stages
<1>4. orders' = [orders EXCEPT ![o] = rec]
  BY <1>1
<1> HIDE DEF rec
<1> QED BY <1>3, <1>4, Evaluated DEF FirstPass

\* A plan invests no more than it starts from.
LEMMA PlanWithinStart ==
    ASSUME NEW start \in Int, NEW p \in Plans(start)
    PROVE  /\ p.invest \in Nat /\ p.profit \in Nat
           /\ p.invest > 0 => p.invest <= start
<1>1. CASE p = EmptyPlan
  BY <1>1 DEF EmptyPlan
<1>2. CASE p # EmptyPlan
  <2>1. /\ p.invest \in {start, start \div 2} /\ p.profit \in Promises
        /\ p.invest >= Abort
    BY <1>2 DEF Plans
  <2>2. Abort \in Nat /\ Abort > 0 /\ Promises \subseteq Nat
    BY NaiveAssumption
  <2>3. CASE p.invest = start
    <3>1. p.invest \in Nat /\ p.invest <= start
      BY <2>1, <2>2, <2>3
    <3>2. p.profit \in Nat
      BY <2>1, <2>2
    <3> QED BY <3>1, <3>2
  <2>4. CASE p.invest = start \div 2
    <3> DEFINE half == start \div 2
    <3>1. half \in Int /\ (half >= 1 => start >= half)
      OBVIOUS
    <3>2. p.invest = half
      BY <2>4
    <3> HIDE DEF half
    <3>3. half >= 1
      BY <2>1, <2>2, <3>1, <3>2
    <3>4. p.invest \in Nat /\ p.invest <= start
      BY <3>1, <3>2, <3>3
    <3>5. p.profit \in Nat
      BY <2>1, <2>2
    <3> QED BY <3>4, <3>5
  <2> QED BY <2>1, <2>3, <2>4
<1> QED BY <1>1, <1>2

LEMMA MakePlanKeeps == ASSUME IInv, NEW o \in Orders, MakePlan(o) PROVE IInv'
<1>1. /\ orders[o] \in OrderRecord /\ balance \in Nat /\ Start(o) \in Int
      /\ Start(o) = balance - orders[o].gas /\ orders[o].gas \in Nat
  BY WalletsAreInts DEF IInv, TypeOK, OrdersType, WalletType,
       OrderRecord, Start
<1>2. PICK p \in Plans(Start(o)) :
         orders' = [orders EXCEPT ![o] =
             IF Pays(o, p)
             THEN [@ EXCEPT !.at = "ready", !.invest = p.invest, !.profit = p.profit]
             ELSE Done]
  BY DEF MakePlan
<1>3. /\ p.invest \in Nat /\ p.profit \in Nat
      /\ p.invest > 0 => p.invest <= Start(o)
  BY <1>1, PlanWithinStart
<1> DEFINE rec == IF Pays(o, p)
                  THEN [orders[o] EXCEPT !.at = "ready", !.invest = p.invest,
                                         !.profit = p.profit]
                  ELSE Done
<1>4. rec \in OrderRecord
  BY <1>1, <1>3 DEF OrderRecord, Stages, Done
<1>5. rec.at = "ready" =>
         /\ rec.profit - rec.gas >= Margin
         /\ rec.invest > 0 => rec.invest + rec.gas <= balance
  BY <1>1, <1>3 DEF Pays, Done, OrderRecord
<1>6. orders' = [orders EXCEPT ![o] = rec]
  BY <1>2
<1> HIDE DEF rec
<1> QED BY <1>4, <1>5, <1>6, Evaluated DEF MakePlan

LEMMA BeginRoundKeeps == ASSUME IInv, BeginRound PROVE IInv'
<1>1. WalletType'
  BY WalletsAreInts DEF BeginRound, Poll, PutDown, Unseen, IInv, TypeOK,
       WalletType, OrdersType, HandType, config
<1>2. OrdersType'
  BY WalletsAreInts
     DEF BeginRound, Poll, PutDown, Unseen, IInv, TypeOK, WalletType,
          OrdersType, HandType, config, OrderRecord, Stages, Points
<1>3. HandType'
  BY AtRest DEF BeginRound
<1>4. Solvent'
  BY WalletsAreInts
     DEF BeginRound, Poll, PutDown, Unseen, IInv, TypeOK, WalletType,
          OrdersType, HandType, config, OrderRecord, Solvent, Basis, InHand,
         Affordable, Order
<1>5. Measured'
  BY WalletsAreInts, NaiveAssumption
     DEF BeginRound, Poll, PutDown, Unseen, IInv, TypeOK, WalletType,
          OrdersType, HandType, config, OrderRecord, Measured, InHand, Order,
          Reported
<1>6. Reported'
  BY WalletsAreInts, NaiveAssumption
     DEF BeginRound, Poll, PutDown, Unseen, IInv, TypeOK, WalletType,
          OrdersType, HandType, config, OrderRecord, Reported, Order, InHand
<1>7. RealizedIsOwn' /\ DeliveredPlansPay' /\ WholeFailsOnlyUnseen'
  BY WalletsAreInts, NaiveAssumption
     DEF BeginRound, Poll, PutDown, Unseen, IInv, TypeOK, WalletType,
          OrdersType, HandType, config, RealizedIsOwn, DeliveredPlansPay,
         WholeFailsOnlyUnseen, Measured, InHand, Reported
<1> QED BY <1>1, <1>2, <1>3, <1>4, <1>5, <1>6, <1>7, Overdraft DEF IInv, TypeOK

LEMMA RebalanceKeeps == ASSUME IInv, RebalancePortfolio PROVE IInv'
<1>1. WalletType'
  BY WalletsAreInts DEF RebalancePortfolio, Sell, inhand, IInv, TypeOK,
       WalletType, OrdersType, HandType, config
<1>2. OrdersType'
  BY WalletsAreInts
     DEF RebalancePortfolio, Sell, inhand, IInv, TypeOK, WalletType,
          OrdersType, HandType, config, OrderRecord, Stages, Points
<1>3. HandType'
  BY WalletsAreInts
     DEF RebalancePortfolio, Sell, inhand, IInv, TypeOK, WalletType,
          OrdersType, HandType, config
<1>4. Solvent'
  <2> SUFFICES ASSUME ~lost', NEW p \in Orders
               PROVE  /\ (balance <= Basis)'
                      /\ (pc = "trade" => started <= wallet)'
                      /\ (orders[p].at = "ready" /\ orders[p].invest > 0 =>
                             Affordable(p, Basis))'
                      /\ (pc = "trade" /\ Order.invest > 0 =>
                             Affordable(current, started))'
    BY DEF Solvent, IInv, TypeOK, OrdersType
  <2>1. PICK d \in Int : Sell(d)
    BY NaiveAssumption DEF RebalancePortfolio, inhand
  <2>2. ~lost /\ d >= 0 /\ wallet' = wallet + d
    BY <2>1, Sold
  <2>3. /\ orders[p] \in OrderRecord /\ wallet \in Nat /\ started \in Nat
        /\ balance \in Nat
    BY WalletsAreInts DEF IInv, TypeOK, WalletType, OrdersType, HandType
  <2>4. /\ balance <= Basis
        /\ pc = "trade" => started <= wallet
        /\ orders[p].at = "ready" /\ orders[p].invest > 0 => Affordable(p, Basis)
        /\ pc = "trade" /\ Order.invest > 0 => Affordable(current, started)
    BY <2>2 DEF IInv, Solvent
  <2> QED BY <2>2, <2>3, <2>4
       DEF RebalancePortfolio, inhand, config, Affordable, Basis, InHand,
            Order, OrderRecord
<1>5. Measured'
  <2>1. PICK d \in Int : Sell(d)
    BY NaiveAssumption DEF RebalancePortfolio, inhand
  <2>2. ~blind' => ~blind /\ wallet' = wallet
    <3>1. ~blind' => ~blind /\ wallet' = wallet + d /\ d = 0
      BY <2>1, Sold
    <3> QED BY <3>1, WalletsAreInts DEF IInv, TypeOK, WalletType,
         OrdersType, HandType
  <2> QED BY <2>2 DEF RebalancePortfolio, inhand, IInv, config, Measured,
       InHand, Order
<1>6. Reported'
  BY WalletsAreInts, NaiveAssumption
     DEF RebalancePortfolio, Sell, inhand, IInv, TypeOK, WalletType,
          OrdersType, HandType, config, OrderRecord, Reported, Order, InHand
<1>7. RealizedIsOwn' /\ DeliveredPlansPay' /\ WholeFailsOnlyUnseen'
  BY WalletsAreInts, NaiveAssumption
     DEF RebalancePortfolio, Sell, inhand, IInv, TypeOK, WalletType,
          OrdersType, HandType, config, RealizedIsOwn, DeliveredPlansPay,
         WholeFailsOnlyUnseen, Measured, InHand, Reported
<1> QED BY <1>1, <1>2, <1>3, <1>4, <1>5, <1>6, <1>7, Overdraft DEF IInv, TypeOK

LEMMA StraySaleKeeps == ASSUME IInv, StraySale PROVE IInv'
<1>1. WalletType'
  BY WalletsAreInts DEF StraySale, Sell, Awaits, inhand, IInv, TypeOK,
       WalletType, OrdersType, HandType, config
<1>2. OrdersType'
  BY WalletsAreInts
     DEF StraySale, Sell, Awaits, inhand, IInv, TypeOK, WalletType,
          OrdersType, HandType, config, OrderRecord, Stages, Points
<1>3. HandType'
  BY WalletsAreInts
     DEF StraySale, Sell, Awaits, inhand, IInv, TypeOK, WalletType,
          OrdersType, HandType, config
<1>4. Solvent'
  <2> SUFFICES ASSUME ~lost', NEW p \in Orders
               PROVE  /\ (balance <= Basis)'
                      /\ (pc = "trade" => started <= wallet)'
                      /\ (orders[p].at = "ready" /\ orders[p].invest > 0 =>
                             Affordable(p, Basis))'
                      /\ (pc = "trade" /\ Order.invest > 0 =>
                             Affordable(current, started))'
    BY DEF Solvent, IInv, TypeOK, OrdersType
  <2>1. PICK d \in Int : Sell(d)
    BY NaiveAssumption DEF StraySale, Awaits, inhand
  <2>2. ~lost /\ d >= 0 /\ wallet' = wallet + d
    BY <2>1, Sold
  <2>3. /\ orders[p] \in OrderRecord /\ wallet \in Nat /\ started \in Nat
        /\ balance \in Nat
    BY WalletsAreInts DEF IInv, TypeOK, WalletType, OrdersType, HandType
  <2>4. /\ balance <= Basis
        /\ pc = "trade" => started <= wallet
        /\ orders[p].at = "ready" /\ orders[p].invest > 0 => Affordable(p, Basis)
        /\ pc = "trade" /\ Order.invest > 0 => Affordable(current, started)
    BY <2>2 DEF IInv, Solvent
  <2> QED BY <2>2, <2>3, <2>4
       DEF StraySale, Awaits, inhand, config, Affordable, Basis, InHand,
            Order, OrderRecord
<1>5. Measured'
  <2>1. PICK d \in Int : Sell(d)
    BY NaiveAssumption DEF StraySale, Awaits, inhand
  <2>2. ~blind' => ~blind /\ wallet' = wallet
    <3>1. ~blind' => ~blind /\ wallet' = wallet + d /\ d = 0
      BY <2>1, Sold
    <3> QED BY <3>1, WalletsAreInts DEF IInv, TypeOK, WalletType,
         OrdersType, HandType
  <2> QED BY <2>2 DEF StraySale, Awaits, inhand, IInv, config, Measured,
       InHand, Order
<1>6. Reported'
  BY WalletsAreInts, NaiveAssumption
     DEF StraySale, Sell, Awaits, inhand, IInv, TypeOK, WalletType,
          OrdersType, HandType, config, OrderRecord, Reported, Order, InHand
<1>7. RealizedIsOwn' /\ DeliveredPlansPay' /\ WholeFailsOnlyUnseen'
  BY WalletsAreInts, NaiveAssumption
     DEF StraySale, Sell, Awaits, inhand, IInv, TypeOK, WalletType,
          OrdersType, HandType, config, RealizedIsOwn, DeliveredPlansPay,
         WholeFailsOnlyUnseen, Measured, InHand, Reported
<1> QED BY <1>1, <1>2, <1>3, <1>4, <1>5, <1>6, <1>7, Overdraft DEF IInv, TypeOK

LEMMA TakeKeeps == ASSUME IInv, NEW o \in Orders, Take(o) PROVE IInv'
<1>1. WalletType'
  BY WalletsAreInts DEF Take, IInv, TypeOK, WalletType, OrdersType,
       HandType, config
<1>2. OrdersType'
  BY WalletsAreInts
     DEF Take, IInv, TypeOK, WalletType, OrdersType, HandType, config,
          OrderRecord, Stages, Points
<1>3. HandType'
  <2>1. whole' \in BOOLEAN /\ known' \in BOOLEAN /\ delivered' \in BOOLEAN
    BY Zenon DEF Take
  <2>2. /\ prior' \in Wallets /\ started' \in Wallets /\ realized' \in Int
        /\ status' \in {"QUEUED", "EXECUTED", "FAILED"}
    BY WalletsAreInts DEF Take, IInv, TypeOK, WalletType, OrdersType, HandType
  <2> QED BY <2>1, <2>2 DEF HandType
<1>4. Solvent'
  BY WalletsAreInts
     DEF Take, IInv, TypeOK, WalletType, OrdersType, HandType, config,
          OrderRecord, Solvent, Basis, InHand,
         Affordable, Order
<1>5. Measured'
  BY WalletsAreInts, NaiveAssumption
     DEF Take, IInv, TypeOK, WalletType, OrdersType, HandType, config,
          OrderRecord, Measured, InHand, Order, Reported
<1>6. Reported'
  BY WalletsAreInts, NaiveAssumption
     DEF Take, IInv, TypeOK, WalletType, OrdersType, HandType, config,
          OrderRecord, Reported, Order, InHand
<1>7. RealizedIsOwn' /\ DeliveredPlansPay' /\ WholeFailsOnlyUnseen'
  BY WalletsAreInts, NaiveAssumption
     DEF Take, IInv, TypeOK, WalletType, OrdersType, HandType, config,
          RealizedIsOwn, DeliveredPlansPay,
         WholeFailsOnlyUnseen, Measured, InHand, Reported
<1> QED BY <1>1, <1>2, <1>3, <1>4, <1>5, <1>6, <1>7, Overdraft DEF IInv, TypeOK

LEMMA EndRoundKeeps == ASSUME IInv, EndRound PROVE IInv'
<1>1. WalletType'
  BY WalletsAreInts DEF EndRound, inhand, IInv, TypeOK, WalletType,
       OrdersType, HandType, config
<1>2. OrdersType'
  BY WalletsAreInts
     DEF EndRound, inhand, IInv, TypeOK, WalletType, OrdersType,
          HandType, config, OrderRecord, Stages, Points
<1>3. HandType'
  BY WalletsAreInts
     DEF EndRound, inhand, IInv, TypeOK, WalletType, OrdersType,
          HandType, config
<1>4. Solvent'
  BY WalletsAreInts
     DEF EndRound, inhand, IInv, TypeOK, WalletType, OrdersType,
          HandType, config, OrderRecord, Solvent, Basis, InHand,
         Affordable, Order
<1>5. Measured'
  BY WalletsAreInts, NaiveAssumption
     DEF EndRound, inhand, IInv, TypeOK, WalletType, OrdersType,
          HandType, config, OrderRecord, Measured, InHand, Order, Reported
<1>6. Reported'
  BY WalletsAreInts, NaiveAssumption
     DEF EndRound, inhand, IInv, TypeOK, WalletType, OrdersType,
          HandType, config, OrderRecord, Reported, Order, InHand
<1>7. RealizedIsOwn' /\ DeliveredPlansPay' /\ WholeFailsOnlyUnseen'
  BY WalletsAreInts, NaiveAssumption
     DEF EndRound, inhand, IInv, TypeOK, WalletType, OrdersType,
          HandType, config, RealizedIsOwn, DeliveredPlansPay,
         WholeFailsOnlyUnseen, Measured, InHand, Reported
<1> QED BY <1>1, <1>2, <1>3, <1>4, <1>5, <1>6, <1>7, Overdraft DEF IInv, TypeOK

LEMMA RefusedKeeps == ASSUME IInv, Refused PROVE IInv'
<1>1. WalletType'
  <2>1. PICK fee \in Nat : wallet >= fee /\ wallet' = wallet - fee
    BY DEF Refused, IInv, TypeOK, OrdersType, OrderRecord, Order
  <2>2. wallet' \in Wallets
    BY <2>1, NaiveAssumption DEF IInv, TypeOK, WalletType, Wallets
  <2> QED BY <2>2 DEF Refused, inhand, config, IInv, TypeOK, WalletType
<1>2. OrdersType'
  BY WalletsAreInts
     DEF Refused, inhand, IInv, TypeOK, WalletType, OrdersType, HandType,
          config, OrderRecord, Stages, Points
<1>3. HandType'
  BY WalletsAreInts
     DEF Refused, inhand, IInv, TypeOK, WalletType, OrdersType, HandType,
          config
<1>4. Solvent'
  BY WalletsAreInts
     DEF Refused, inhand, IInv, TypeOK, WalletType, OrdersType, HandType,
          config, OrderRecord, Solvent, Basis, InHand,
         Affordable, Order
<1>5. Measured'
  BY WalletsAreInts, NaiveAssumption
     DEF Refused, inhand, IInv, TypeOK, WalletType, OrdersType, HandType,
          config, OrderRecord, Measured, InHand, Order, Reported
<1>6. Reported'
  BY WalletsAreInts, NaiveAssumption
     DEF Refused, inhand, IInv, TypeOK, WalletType, OrdersType, HandType,
          config, OrderRecord, Reported, Order, InHand
<1>7. RealizedIsOwn' /\ DeliveredPlansPay' /\ WholeFailsOnlyUnseen'
  BY WalletsAreInts, NaiveAssumption
     DEF Refused, inhand, IInv, TypeOK, WalletType, OrdersType, HandType,
          config, RealizedIsOwn, DeliveredPlansPay,
         WholeFailsOnlyUnseen, Measured, InHand, Reported
<1> QED BY <1>1, <1>2, <1>3, <1>4, <1>5, <1>6, <1>7, Overdraft DEF IInv, TypeOK

LEMMA InvestKeeps == ASSUME IInv, Invest PROVE IInv'
<1>1. WalletType'
  <2>1. PICK fee \in 0..Order.fees :
           wallet >= Order.invest + fee /\ wallet' = wallet - Order.invest - fee
    BY DEF Invest
  <2>2. /\ fee \in Nat /\ Order.invest \in Nat /\ wallet \in Nat /\ MaxWallet \in Nat
        /\ wallet <= MaxWallet
    BY <2>1, NaiveAssumption
       DEF IInv, TypeOK, WalletType, OrdersType, OrderRecord, Order, Wallets
  <2>3. wallet' \in Wallets
    BY <2>1, <2>2 DEF Wallets
  <2> QED BY <2>3 DEF Invest, inhand, config, IInv, TypeOK, WalletType
<1>2. OrdersType'
  BY WalletsAreInts
     DEF Invest, inhand, IInv, TypeOK, WalletType, OrdersType, HandType,
          config, OrderRecord, Stages, Points
<1>3. HandType'
  BY WalletsAreInts
     DEF Invest, inhand, IInv, TypeOK, WalletType, OrdersType, HandType, config
<1>4. Solvent'
  BY WalletsAreInts
     DEF Invest, inhand, IInv, TypeOK, WalletType, OrdersType, HandType,
          config, OrderRecord, Solvent, Basis, InHand,
         Affordable, Order
<1>5. Measured'
  BY WalletsAreInts, NaiveAssumption
     DEF Invest, inhand, IInv, TypeOK, WalletType, OrdersType, HandType,
          config, OrderRecord, Measured, InHand, Order, Reported
<1>6. Reported'
  BY WalletsAreInts, NaiveAssumption
     DEF Invest, inhand, IInv, TypeOK, WalletType, OrdersType, HandType,
          config, OrderRecord, Reported, Order, InHand
<1>7. RealizedIsOwn' /\ DeliveredPlansPay' /\ WholeFailsOnlyUnseen'
  BY WalletsAreInts, NaiveAssumption
     DEF Invest, inhand, IInv, TypeOK, WalletType, OrdersType, HandType,
          config, RealizedIsOwn, DeliveredPlansPay,
         WholeFailsOnlyUnseen, Measured, InHand, Reported
<1> QED BY <1>1, <1>2, <1>3, <1>4, <1>5, <1>6, <1>7, Overdraft DEF IInv, TypeOK

LEMMA ComeHomeKeeps == ASSUME IInv, ComeHome PROVE IInv'
<1>1. WalletType'
  BY WalletsAreInts DEF ComeHome, IInv, TypeOK, WalletType, OrdersType,
       HandType, config
<1>2. OrdersType'
  BY WalletsAreInts
     DEF ComeHome, IInv, TypeOK, WalletType, OrdersType, HandType,
          config, OrderRecord, Stages, Points
<1>3. HandType'
  BY WalletsAreInts
     DEF ComeHome, IInv, TypeOK, WalletType, OrdersType, HandType, config
<1>4. Solvent'
  BY WalletsAreInts
     DEF ComeHome, IInv, TypeOK, WalletType, OrdersType, HandType,
          config, OrderRecord, Solvent, Basis, InHand,
         Affordable, Order
<1>5. Measured'
  <2> SUFFICES ASSUME ~blind
               PROVE  /\ (InHand => prior = started)'
                      /\ pc' = "query" /\ delivered' =>
                            wallet' - started >= Margin - Excess
    BY SameExcess DEF ComeHome, Measured, Order
  <2>0. CASE ~(pc' = "query" /\ delivered')
    BY <2>0 DEF ComeHome, IInv, Measured, InHand
  <2> SUFFICES ASSUME pc' = "query", delivered'
               PROVE  /\ (InHand => prior = started)'
                      /\ wallet' - started >= Margin - Excess
    BY <2>0
  <2>1. /\ wallet' = wallet + Order.invest + Order.profit
        /\ wallet + Order.invest + Order.fees >= started
        /\ Order.profit - Order.gas >= Margin
    BY DEF ComeHome, IInv, Measured, Reported
  <2>2. /\ Order.invest \in Nat /\ Order.profit \in Nat /\ Order.gas \in Nat
        /\ Order.fees \in Nat /\ wallet \in Nat /\ started \in Nat
        /\ Margin \in Int
    BY WalletsAreInts, NaiveAssumption
       DEF IInv, TypeOK, WalletType, OrdersType, HandType, OrderRecord, Order
  <2>3. wallet' - started >= Margin - Excess
    BY <2>1, <2>2 DEF Excess
  <2> QED BY <2>3 DEF ComeHome, IInv, Measured, InHand
<1>6. Reported'
  BY WalletsAreInts, NaiveAssumption
     DEF ComeHome, IInv, TypeOK, WalletType, OrdersType, HandType,
          config, OrderRecord, Reported, Order, InHand
<1>7. RealizedIsOwn' /\ DeliveredPlansPay' /\ WholeFailsOnlyUnseen'
  BY WalletsAreInts, NaiveAssumption
     DEF ComeHome, IInv, TypeOK, WalletType, OrdersType, HandType,
          config, RealizedIsOwn, DeliveredPlansPay,
         WholeFailsOnlyUnseen, Measured, InHand, Reported
<1> QED BY <1>1, <1>2, <1>3, <1>4, <1>5, <1>6, <1>7, Overdraft DEF IInv, TypeOK

LEMMA StayAbroadKeeps == ASSUME IInv, StayAbroad PROVE IInv'
<1>1. WalletType'
  BY WalletsAreInts DEF StayAbroad, inhand, IInv, TypeOK, WalletType,
       OrdersType, HandType, config
<1>2. OrdersType'
  BY WalletsAreInts
     DEF StayAbroad, inhand, IInv, TypeOK, WalletType, OrdersType,
          HandType, config, OrderRecord, Stages, Points
<1>3. HandType'
  BY WalletsAreInts
     DEF StayAbroad, inhand, IInv, TypeOK, WalletType, OrdersType,
          HandType, config
<1>4. Solvent'
  BY WalletsAreInts
     DEF StayAbroad, inhand, IInv, TypeOK, WalletType, OrdersType,
          HandType, config, OrderRecord, Solvent, Basis, InHand,
         Affordable, Order
<1>5. Measured'
  BY WalletsAreInts, NaiveAssumption
     DEF StayAbroad, inhand, IInv, TypeOK, WalletType, OrdersType,
          HandType, config, OrderRecord, Measured, InHand, Order, Reported
<1>6. Reported'
  BY WalletsAreInts, NaiveAssumption
     DEF StayAbroad, inhand, IInv, TypeOK, WalletType, OrdersType,
          HandType, config, OrderRecord, Reported, Order, InHand
<1>7. RealizedIsOwn' /\ DeliveredPlansPay' /\ WholeFailsOnlyUnseen'
  BY WalletsAreInts, NaiveAssumption
     DEF StayAbroad, inhand, IInv, TypeOK, WalletType, OrdersType,
          HandType, config, RealizedIsOwn, DeliveredPlansPay,
         WholeFailsOnlyUnseen, Measured, InHand, Reported
<1> QED BY <1>1, <1>2, <1>3, <1>4, <1>5, <1>6, <1>7, Overdraft DEF IInv, TypeOK

LEMMA QueryKeeps == ASSUME IInv, Query PROVE IInv'
<1>1. WalletType'
  BY WalletsAreInts DEF Query, LogRaises, IInv, TypeOK, WalletType,
       OrdersType, HandType, config
<1>2. OrdersType'
  BY WalletsAreInts
     DEF Query, LogRaises, IInv, TypeOK, WalletType, OrdersType,
          HandType, config, OrderRecord, Stages, Points
<1>3. HandType'
  <2>1. known' \in BOOLEAN /\ UNCHANGED <<prior, started, whole, delivered>>
    BY Zenon DEF Query, IInv, TypeOK, HandType
  <2>2. realized' \in Int
    BY WalletsAreInts DEF Query, IInv, TypeOK, WalletType, OrdersType, HandType
  <2>3. status' \in {"QUEUED", "EXECUTED", "FAILED"}
    BY DEF Query, IInv, TypeOK, HandType
  <2> QED BY <2>1, <2>2, <2>3 DEF IInv, TypeOK, HandType
<1>4. Solvent'
  BY WalletsAreInts
     DEF Query, LogRaises, IInv, TypeOK, WalletType, OrdersType,
          HandType, config, OrderRecord, Solvent, Basis, InHand,
         Affordable, Order
<1>5. Measured'
  BY WalletsAreInts, NaiveAssumption
     DEF Query, LogRaises, IInv, TypeOK, WalletType, OrdersType,
          HandType, config, OrderRecord, Measured, InHand, Order, Reported
<1>6. Reported'
  BY WalletsAreInts, NaiveAssumption
     DEF Query, LogRaises, IInv, TypeOK, WalletType, OrdersType,
          HandType, config, OrderRecord, Reported, Order, InHand
<1>7. RealizedIsOwn' /\ WholeFailsOnlyUnseen'
  BY WalletsAreInts, NaiveAssumption
     DEF Query, LogRaises, IInv, TypeOK, WalletType, OrdersType,
          HandType, config, RealizedIsOwn,
         WholeFailsOnlyUnseen, Measured, InHand, Reported
<1>8. DeliveredPlansPay'
  <2> SUFFICES ASSUME pc' = "conclude", delivered, known', ~blind
               PROVE  realized' >= Margin - Excess
    BY SameExcess DEF Query, Order, DeliveredPlansPay
  <2>1. realized' = wallet - prior
    BY DEF Query
  <2>2. prior = started /\ wallet - started >= Margin - Excess
    BY DEF Query, IInv, Measured, InHand
  <2> QED BY <2>1, <2>2
<1> QED BY <1>1, <1>2, <1>3, <1>4, <1>5, <1>6, <1>7, <1>8, Overdraft DEF IInv, TypeOK

LEMMA FailKeeps == ASSUME IInv, Fail PROVE IInv'
<1>1. WalletType'
  BY WalletsAreInts DEF Fail, Recovered, Short, IInv, TypeOK, WalletType,
       OrdersType, HandType, config
<1>2. OrdersType'
  BY WalletsAreInts
     DEF Fail, Recovered, Short, IInv, TypeOK, WalletType, OrdersType,
          HandType, config, OrderRecord, Stages, Points
<1>3. HandType'
  BY WalletsAreInts
     DEF Fail, Recovered, Short, IInv, TypeOK, WalletType, OrdersType,
          HandType, config
<1>4. Solvent'
  <2> SUFFICES ASSUME ~lost', NEW p \in Orders
               PROVE  /\ (balance <= Basis)'
                      /\ (pc = "trade" => started <= wallet)'
                      /\ (orders[p].at = "ready" /\ orders[p].invest > 0 =>
                             Affordable(p, Basis))'
                      /\ (pc = "trade" /\ Order.invest > 0 =>
                             Affordable(current, started))'
    BY DEF Solvent, IInv, TypeOK, OrdersType
  <2>1. /\ \A q \in Orders : orders[q] \in OrderRecord
        /\ wallet \in Nat /\ started \in Nat /\ balance \in Nat
        /\ wallet' \in Nat
    BY <1>1, WalletsAreInts DEF IInv, TypeOK, WalletType, OrdersType, HandType
  <2>2. ~lost /\ (pc' = "round" => ~(wallet' < started))
    BY Zenon DEF Fail, Short
  <2>3. /\ balance <= Basis
        /\ \A q \in Orders :
              orders[q].at = "ready" /\ orders[q].invest > 0 =>
                  Affordable(q, Basis)
    BY <2>2 DEF IInv, Solvent
  <2>4. Basis <= Basis' /\ Basis \in Nat /\ Basis' \in Nat
    BY <2>1, <2>2 DEF Fail, Short, config, Basis, InHand
  <2>5. (balance <= Basis)'
    BY <2>1, <2>3, <2>4 DEF Fail, Short, config, Basis, InHand
  <2>6. (orders[p].at = "ready" /\ orders[p].invest > 0 => Affordable(p, Basis))'
    <3>1. orders'[p].at = "ready" => orders'[p] = orders[p]
      BY DEF Fail, Short, config, IInv, TypeOK, OrdersType
    <3>2. orders[p].invest + orders[p].gas \in Int
      BY <2>1 DEF OrderRecord
    <3> QED BY <2>3, <2>4, <2>1, <3>1, <3>2 DEF Affordable
  <2> QED BY <2>5, <2>6 DEF Fail, Short, config
<1>5. Measured'
  BY WalletsAreInts, NaiveAssumption
     DEF Fail, Recovered, Short, IInv, TypeOK, WalletType, OrdersType,
          HandType, config, OrderRecord, Measured, InHand, Order, Reported
<1>6. Reported'
  BY WalletsAreInts, NaiveAssumption
     DEF Fail, Recovered, Short, IInv, TypeOK, WalletType, OrdersType,
          HandType, config, OrderRecord, Reported, Order, InHand
<1>7. RealizedIsOwn' /\ DeliveredPlansPay' /\ WholeFailsOnlyUnseen'
  BY WalletsAreInts, NaiveAssumption
     DEF Fail, Recovered, Short, IInv, TypeOK, WalletType, OrdersType,
          HandType, config, RealizedIsOwn, DeliveredPlansPay,
         WholeFailsOnlyUnseen, Measured, InHand, Reported
<1> QED BY <1>1, <1>2, <1>3, <1>4, <1>5, <1>6, <1>7, Overdraft DEF IInv, TypeOK

LEMMA ConcludeKeeps == ASSUME IInv, Conclude PROVE IInv'
<1>1. WalletType'
  BY WalletsAreInts DEF Conclude, Poll, PutDown, Done, IInv, TypeOK,
       WalletType, OrdersType, HandType, config
<1>2. OrdersType'
  BY WalletsAreInts
     DEF Conclude, Poll, PutDown, Done, IInv, TypeOK, WalletType,
          OrdersType, HandType, config, OrderRecord, Stages, Points
<1>3. HandType'
  BY AtRest DEF Conclude
<1>4. Solvent'
  <2> SUFFICES ASSUME ~lost', NEW p \in Orders
               PROVE  /\ (balance <= Basis)'
                      /\ (pc = "trade" => started <= wallet)'
                      /\ (orders[p].at = "ready" /\ orders[p].invest > 0 =>
                             Affordable(p, Basis))'
                      /\ (pc = "trade" /\ Order.invest > 0 =>
                             Affordable(current, started))'
    BY DEF Solvent, IInv, TypeOK, OrdersType
  <2>1. /\ \A q \in Orders : orders[q] \in OrderRecord
        /\ wallet \in Nat /\ started \in Nat /\ balance \in Nat
        /\ wallet' \in Nat
    BY <1>1, WalletsAreInts DEF IInv, TypeOK, WalletType, OrdersType, HandType
  <2>2. ~lost /\ (~(wallet < started))
    BY Zenon DEF Conclude
  <2>3. /\ balance <= Basis
        /\ \A q \in Orders :
              orders[q].at = "ready" /\ orders[q].invest > 0 =>
                  Affordable(q, Basis)
    BY <2>2 DEF IInv, Solvent
  <2>4. Basis <= Basis' /\ Basis \in Nat /\ Basis' \in Nat
    BY <2>1, <2>2 DEF Conclude, Poll, PutDown, Done, config, Basis, InHand
  <2>5. (balance <= Basis)'
    BY <2>1, <2>3, <2>4 DEF Conclude, Poll, PutDown, Done, config, Basis,
         InHand
  <2>6. (orders[p].at = "ready" /\ orders[p].invest > 0 => Affordable(p, Basis))'
    <3>1. orders'[p].at = "ready" => orders'[p] = orders[p]
      BY DEF Conclude, Poll, PutDown, Done, config, IInv, TypeOK, OrdersType
    <3>2. orders[p].invest + orders[p].gas \in Int
      BY <2>1 DEF OrderRecord
    <3> QED BY <2>3, <2>4, <2>1, <3>1, <3>2 DEF Affordable
  <2> QED BY <2>5, <2>6 DEF Conclude, Poll, PutDown, Done, config
<1>5. Measured'
  BY WalletsAreInts, NaiveAssumption
     DEF Conclude, Poll, PutDown, Done, IInv, TypeOK, WalletType,
          OrdersType, HandType, config, OrderRecord, Measured, InHand, Order,
          Reported
<1>6. Reported'
  BY WalletsAreInts, NaiveAssumption
     DEF Conclude, Poll, PutDown, Done, IInv, TypeOK, WalletType,
          OrdersType, HandType, config, OrderRecord, Reported, Order, InHand
<1>7. RealizedIsOwn' /\ DeliveredPlansPay' /\ WholeFailsOnlyUnseen'
  BY WalletsAreInts, NaiveAssumption
     DEF Conclude, Poll, PutDown, Done, IInv, TypeOK, WalletType,
          OrdersType, HandType, config, RealizedIsOwn, DeliveredPlansPay,
         WholeFailsOnlyUnseen, Measured, InHand, Reported
<1> QED BY <1>1, <1>2, <1>3, <1>4, <1>5, <1>6, <1>7, Overdraft DEF IInv, TypeOK

LEMMA CutKeeps == ASSUME IInv, Cut PROVE IInv'
<1>1. WalletType'
  BY WalletsAreInts DEF Cut, PutDown, Awaits, IInv, TypeOK, WalletType,
       OrdersType, HandType, config
<1>2. OrdersType'
  BY WalletsAreInts
     DEF Cut, PutDown, Awaits, IInv, TypeOK, WalletType, OrdersType,
          HandType, config, OrderRecord, Stages, Points
<1>3. HandType'
  BY AtRest DEF Cut
<1>4. Solvent'
  <2> SUFFICES ASSUME ~lost', NEW p \in Orders
               PROVE  /\ (balance <= Basis)'
                      /\ (pc = "trade" => started <= wallet)'
                      /\ (orders[p].at = "ready" /\ orders[p].invest > 0 =>
                             Affordable(p, Basis))'
                      /\ (pc = "trade" /\ Order.invest > 0 =>
                             Affordable(current, started))'
    BY DEF Solvent, IInv, TypeOK, OrdersType
  <2>1. /\ \A q \in Orders : orders[q] \in OrderRecord
        /\ wallet \in Nat /\ started \in Nat /\ balance \in Nat
        /\ wallet' \in Nat
    BY <1>1, WalletsAreInts DEF IInv, TypeOK, WalletType, OrdersType, HandType
  <2>2. ~lost /\ (InHand => ~(wallet < started))
    BY Zenon DEF Cut
  <2>3. /\ balance <= Basis
        /\ \A q \in Orders :
              orders[q].at = "ready" /\ orders[q].invest > 0 =>
                  Affordable(q, Basis)
    BY <2>2 DEF IInv, Solvent
  <2>4. Basis <= Basis' /\ Basis \in Nat /\ Basis' \in Nat
    BY <2>1, <2>2 DEF Cut, PutDown, Awaits, config, Basis, InHand
  <2>5. (balance <= Basis)'
    BY <2>1, <2>3, <2>4 DEF Cut, PutDown, Awaits, config, Basis, InHand
  <2>6. (orders[p].at = "ready" /\ orders[p].invest > 0 => Affordable(p, Basis))'
    <3>1. orders'[p].at = "ready" => orders'[p] = orders[p]
      BY DEF Cut, PutDown, Awaits, config, IInv, TypeOK, OrdersType
    <3>2. orders[p].invest + orders[p].gas \in Int
      BY <2>1 DEF OrderRecord
    <3> QED BY <2>3, <2>4, <2>1, <3>1, <3>2 DEF Affordable
  <2> QED BY <2>5, <2>6 DEF Cut, PutDown, Awaits, config
<1>5. Measured'
  BY WalletsAreInts, NaiveAssumption
     DEF Cut, PutDown, Awaits, IInv, TypeOK, WalletType, OrdersType,
          HandType, config, OrderRecord, Measured, InHand, Order, Reported
<1>6. Reported'
  BY WalletsAreInts, NaiveAssumption
     DEF Cut, PutDown, Awaits, IInv, TypeOK, WalletType, OrdersType,
          HandType, config, OrderRecord, Reported, Order, InHand
<1>7. RealizedIsOwn' /\ DeliveredPlansPay' /\ WholeFailsOnlyUnseen'
  BY WalletsAreInts, NaiveAssumption
     DEF Cut, PutDown, Awaits, IInv, TypeOK, WalletType, OrdersType,
          HandType, config, RealizedIsOwn, DeliveredPlansPay,
         WholeFailsOnlyUnseen, Measured, InHand, Reported
<1> QED BY <1>1, <1>2, <1>3, <1>4, <1>5, <1>6, <1>7, Overdraft DEF IInv, TypeOK

LEMMA StutterKeeps == ASSUME IInv, UNCHANGED vars PROVE IInv'
<1>1. (TypeOK /\ Solvent /\ OverdraftNeedsLoss /\ RealizedIsOwn)'
  BY DEF vars, IInv, TypeOK, WalletType, OrdersType, HandType, Solvent, Basis,
         InHand, Affordable, Order, OverdraftNeedsLoss, RealizedIsOwn
<1>2. (Measured /\ Reported /\ DeliveredPlansPay /\ WholeFailsOnlyUnseen)'
  BY SameExcess
     DEF vars, IInv, InHand, Order, Measured, Reported, DeliveredPlansPay,
         WholeFailsOnlyUnseen
<1> QED BY <1>1, <1>2 DEF IInv

\* The bot starts with no balance read and no order in hand.
LEMMA InitHolds == ASSUME Init PROVE IInv
<1>1. TypeOK
  <2>1. HandType
    <3>1. whole \in BOOLEAN /\ known \in BOOLEAN /\ delivered \in BOOLEAN
      BY Zenon DEF Init
    <3>2. /\ prior \in Wallets /\ started \in Wallets /\ realized \in Int
          /\ status \in {"QUEUED", "EXECUTED", "FAILED"}
      BY WalletsAreInts DEF Init
    <3> QED BY <3>1, <3>2 DEF HandType
  <2>2. OrdersType
    BY DEF Init, OrdersType, OrderRecord, Stages, Points, Unseen
  <2>3. stray \in BOOLEAN /\ blind \in BOOLEAN /\ lost \in BOOLEAN
    BY Zenon DEF Init
  <2>4. WalletType
    BY <2>3, WalletsAreInts DEF Init, WalletType
  <2> QED BY <2>1, <2>2, <2>4 DEF TypeOK
<1>2. Solvent
  BY WalletsAreInts DEF Init, Solvent, Basis, InHand, Unseen, Affordable
<1>3. Measured /\ Reported
  BY DEF Init, Measured, Reported, InHand, Unseen
<1> QED BY <1>1, <1>2, <1>3
     DEF Init, IInv, OverdraftNeedsLoss, RealizedIsOwn, DeliveredPlansPay,
         WholeFailsOnlyUnseen

LEMMA NextKeeps == ASSUME IInv, [Next]_vars PROVE IInv'
<1>1. CASE BadInterval
  BY <1>1, StutterKeeps DEF BadInterval
<1>2. CASE Evaluate
  BY <1>2, FirstPassKeeps, MakePlanKeeps DEF Evaluate
<1>3. CASE Strategy
  BY <1>3, BeginRoundKeeps, RebalanceKeeps, TakeKeeps, RefusedKeeps, InvestKeeps,
     ComeHomeKeeps, StayAbroadKeeps, QueryKeeps, FailKeeps, ConcludeKeeps,
     EndRoundKeeps
     DEF Strategy
<1>4. CASE StraySale
  BY <1>4, StraySaleKeeps
<1>5. CASE Cut
  BY <1>5, CutKeeps
<1>6. CASE UNCHANGED vars
  BY <1>6, StutterKeeps
<1> QED BY <1>1, <1>2, <1>3, <1>4, <1>5, <1>6 DEF Next

\* What the rounds of the strategy rest on, whatever the routes, the plans and
\* the outcomes of the orders.
THEOREM Inductive == Spec => []IInv
<1>1. Init => IInv
  BY InitHolds
<1>2. IInv /\ [Next]_vars => IInv'
  BY NextKeeps
<1> QED BY <1>1, <1>2, PTL DEF Spec

\* Balances, plans and the order in hand keep their types from round to round.
THEOREM TypeCorrect == Spec => []TypeOK
<1>1. IInv => TypeOK
  BY DEF IInv
<1> QED BY <1>1, Inductive, PTL

\* An order is never executed beyond the wallet, its gas included, unless an
\* earlier order or a sale has lost base denom since the round began.
THEOREM OverdraftsNeedLoss == Spec => []OverdraftNeedsLoss
<1>1. IInv => OverdraftNeedsLoss
  BY DEF IInv
<1> QED BY <1>1, Inductive, PTL

\* realized_profit is what the order in hand did to the wallet, unless a
\* balance query went unanswered or a rebalancing sale came between.
THEOREM RealizedProfitIsOwn == Spec => []RealizedIsOwn
<1>1. IInv => RealizedIsOwn
  BY DEF IInv
<1> QED BY <1>1, Inductive, PTL

\* An order that trades as planned is shown to have earned the profit margin,
\* but for what it was charged beyond the gas foreseen.
THEOREM DeliveryPays == Spec => []DeliveredPlansPay
<1>1. IInv => DeliveredPlansPay
  BY DEF IInv
<1> QED BY <1>1, Inductive, PTL

\* A completely executed order is FAILED only for want of a balance.
THEOREM WholeOrdersFailUnseen == Spec => []WholeFailsOnlyUnseen
<1>1. IInv => WholeFailsOnlyUnseen
  BY DEF IInv
<1> QED BY <1>1, Inductive, PTL

-----------------------------------------------------------------------------
(* A round ends                                                            *)

LEMMA AwaitedIsFinite == IsFiniteSet(Awaited)
<1> DEFINE Passes == {"first pass", "second pass", "take"}
<1>1. IsFiniteSet(Passes)
  <2>1. /\ IsFiniteSet({"first pass"})
        /\ IsFiniteSet({"first pass"} \cup {"second pass"})
        /\ IsFiniteSet(({"first pass"} \cup {"second pass"}) \cup {"take"})
    BY FS_Singleton, FS_AddElement
  <2>2. Passes = ({"first pass"} \cup {"second pass"}) \cup {"take"}
    OBVIOUS
  <2> QED
    BY <2>1, <2>2
<1>2. Awaited \in SUBSET (Orders \X Passes)
  BY DEF Awaited
<1> HIDE DEF Passes
<1>3. IsFiniteSet(Orders \X Passes)
  BY <1>1, FS_Product, NaiveAssumption
<1> QED
  BY <1>2, <1>3, FS_Subset

\* A pass that is over is not awaited again.
LEMMA PassIsOver ==
    ASSUME Awaited' \subseteq Awaited, NEW e \in Awaited, e \notin Awaited'
    PROVE  FewerAwaited
<1>1. IsFiniteSet(Awaited) /\ Awaited' \in SUBSET Awaited /\ Awaited' # Awaited
  BY AwaitedIsFinite
<1>2. /\ IsFiniteSet(Awaited') /\ Cardinality(Awaited') <= Cardinality(Awaited)
      /\ Cardinality(Awaited') # Cardinality(Awaited)
  BY <1>1, FS_Subset
<1>3. Cardinality(Awaited') \in Nat /\ Cardinality(Awaited) \in Nat
  BY <1>1, <1>2, FS_CardinalityType
<1> QED
  BY <1>2, <1>3 DEF FewerAwaited

\* An evaluated order awaits one pass fewer, or none when it is dropped.
LEMMA EvaluateAdvances ==
    ASSUME IInv, Evaluate
    PROVE  Awaited' \subseteq Awaited /\ FewerAwaited
<1>1. orders \in [Orders -> OrderRecord]
  BY DEF IInv, TypeOK, OrdersType
<1>2. ASSUME NEW o \in Orders, FirstPass(o)
      PROVE  Awaited' \subseteq Awaited /\ FewerAwaited
  <2>1. PICK k \in {"dropped", "plan"} : orders'[o].at = k
    BY <1>1, <1>2 DEF FirstPass, OrderRecord
  <2>2. \A m \in Orders \ {o} : orders'[m] = orders[m]
    BY <1>1, <1>2 DEF FirstPass
  <2>3. orders[o].at = "search"
    BY <1>2 DEF FirstPass
  <2>4. Awaited' \subseteq Awaited
    BY <2>1, <2>2, <2>3 DEF Awaited
  <2>5. <<o, "first pass">> \in Awaited /\ <<o, "first pass">> \notin Awaited'
    BY <2>1, <2>3 DEF Awaited
  <2> QED
    BY <2>4, <2>5, PassIsOver
<1>3. ASSUME NEW o \in Orders, MakePlan(o)
      PROVE  Awaited' \subseteq Awaited /\ FewerAwaited
  <2>1. PICK k \in {"dropped", "ready"} : orders'[o].at = k
    BY <1>1, <1>3 DEF MakePlan, OrderRecord, Done
  <2>2. \A m \in Orders \ {o} : orders'[m] = orders[m]
    BY <1>1, <1>3 DEF MakePlan
  <2>3. orders[o].at = "plan"
    BY <1>3 DEF MakePlan
  <2>4. Awaited' \subseteq Awaited
    BY <2>1, <2>2, <2>3 DEF Awaited
  <2>5. <<o, "second pass">> \in Awaited /\ <<o, "second pass">> \notin Awaited'
    BY <2>1, <2>3 DEF Awaited
  <2> QED
    BY <2>4, <2>5, PassIsOver
<1> QED
  BY <1>2, <1>3 DEF Evaluate

\* An order that is taken is awaited no more.
LEMMA TakeAdvances ==
    ASSUME IInv, NEW o \in Orders, Take(o)
    PROVE  Awaited' \subseteq Awaited /\ FewerAwaited
<1>1. orders \in [Orders -> OrderRecord]
  BY DEF IInv, TypeOK, OrdersType
<1>2. orders'[o].at = "taken" /\ orders[o].at = "ready"
  BY <1>1 DEF Take, OrderRecord
<1>3. \A m \in Orders \ {o} : orders'[m] = orders[m]
  BY <1>1 DEF Take
<1>4. Awaited' \subseteq Awaited
  BY <1>2, <1>3 DEF Awaited
<1>5. <<o, "take">> \in Awaited /\ <<o, "take">> \notin Awaited'
  BY <1>2 DEF Awaited
<1> QED
  BY <1>4, <1>5, PassIsOver

\* An order in hand only goes forward, to the history or out of the round.
LEMMA StrategyAdvances ==
    ASSUME IInv, Strategy, pc # "round"
    PROVE  Awaited' \subseteq Awaited /\ (FewerAwaited \/ Place' < Place)
<1>1. ASSUME NEW o \in Orders, Take(o)
      PROVE  Awaited' \subseteq Awaited /\ (FewerAwaited \/ Place' < Place)
  BY <1>1, TakeAdvances
<1>2. ASSUME RebalancePortfolio \/ EndRound \/ Refused \/ Invest
      PROVE  Awaited' \subseteq Awaited /\ Place' < Place
  <2>1. orders' = orders
    BY <1>2 DEF RebalancePortfolio, EndRound, Refused, Invest
  <2>2. Place' < Place
    BY <1>2 DEF RebalancePortfolio, EndRound, Refused, Invest, Place
  <2> QED
    BY <2>1, <2>2 DEF Awaited
<1>3. ASSUME ComeHome \/ StayAbroad \/ Query \/ Fail
      PROVE  Awaited' \subseteq Awaited /\ Place' < Place
  <2>1. orders' = orders
    BY <1>3 DEF ComeHome, StayAbroad, Query, Fail
  <2>2. Place' < Place
    BY <1>3 DEF ComeHome, StayAbroad, Query, Fail, Place
  <2> QED
    BY <2>1, <2>2 DEF Awaited
<1>4. ASSUME Conclude
      PROVE  Awaited' \subseteq Awaited /\ Place' < Place
  <2>1. Place' < Place
    BY <1>4 DEF Conclude, Place
  <2>2. /\ orders'[current].at = "dropped"
        /\ \A m \in Orders \ {current} : orders'[m] = orders[m]
    BY <1>4 DEF Conclude, Done, IInv, TypeOK, OrdersType
  <2> QED
    BY <2>1, <2>2 DEF Awaited
<1> QED
  BY <1>1, <1>2, <1>3, <1>4 DEF Strategy, BeginRound

\* The timeout, and a sale that was left running, take nothing back.
LEMMA OthersTakeNothingBack ==
    ASSUME IInv, BadInterval \/ StraySale \/ Cut \/ UNCHANGED vars
    PROVE  Awaited' \subseteq Awaited /\ Place' <= Place
<1>1. orders' = orders
  BY DEF BadInterval, StraySale, Cut, vars
<1>2. pc' = pc \/ pc' = "round"
  BY DEF BadInterval, StraySale, Cut, vars
<1>3. Place \in Nat /\ (Place' = Place \/ Place' = 0)
  BY <1>2 DEF Place, IInv, TypeOK, OrdersType, Points
<1> QED
  BY <1>1, <1>3 DEF Awaited

\* For any orders, plans and outcomes a round takes finitely many steps: each
\* takes one of the passes awaited or brings strategy closer to the next order.
THEOREM RoundsAreBounded == Spec => RoundAdvances
<1> DEFINE A ==
        /\ Awaited' \subseteq Awaited
        /\ FewerAwaited \/ Place' <= Place
        /\ Evaluate \/ Strategy => FewerAwaited \/ Place' < Place
<1>1. IInv /\ [Next]_vars => [pc # "round" => A]_vars
  <2> SUFFICES ASSUME IInv, Next, pc # "round"
               PROVE  A
    OBVIOUS
  <2>1. Place \in Nat /\ Place' \in Nat
    <3>1. pc \in Points /\ pc' \in Points
      BY NextKeeps DEF IInv, TypeOK, OrdersType
    <3> QED
      BY <3>1 DEF Place, Points
  <2>2. CASE Evaluate
    BY <2>2, EvaluateAdvances
  <2>3. CASE Strategy
    BY <2>1, <2>3, StrategyAdvances
  <2>4. CASE ~Evaluate /\ ~Strategy
    BY <2>4, OthersTakeNothingBack DEF Next
  <2> QED
    BY <2>2, <2>3, <2>4
<1> QED
  BY Inductive, <1>1, PTL DEF Spec, RoundAdvances
=============================================================================
