------------------------------ MODULE FlowsProofs ------------------------------
(***************************************************************************)
(* What may be broken off and taken up again: the app's flows of           *)
(* transactions, the demo's tasks and the deployment.  For any amounts,    *)
(* pages and revisions, and however often they stop.                       *)
(***************************************************************************)
EXTENDS TokenizeFlow, DemoRunner, DeployScript, FixedPointProofs, FiniteSetTheorems,
        SequenceTheorems

-----------------------------------------------------------------------------
(* Flows.  A sale reported as failed may still land, any number of flows   *)
(* later, so each of them must have its YT set aside until it does.        *)

Calls == [op : {"none", "Withdraw", "Deposit", "Split", "Sell"}, amount : Nat]

BalancesTyped ==
  usdc \in Nat /\ sy \in Nat /\ pt \in Nat /\ yt \in Nat /\ position \in Nat

\* Only a flow of the fixed form ever sells.
FlowTyped(s) ==
  /\ DOMAIN s = {"mode", "status", "step", "seen", "deposit", "call", "arrived"}
  /\ s.seen \in [rate : Nat \ {0}, target : Nat, yt : Nat]
  /\ s.deposit \in Nat /\ s.call \in Calls
  /\ s.call.op = "Sell" => s.mode = "fixed"
  /\ Running(s) => s.mode \in {"mint", "keep", "fixed"} /\ s.step \in 1 .. Len(Steps(s.mode))

FlowsTyped ==
  /\ BalancesTyped /\ rate \in Nat \ {0}
  /\ known \in [rate : Nat \ {0}, position : Nat]
  /\ DOMAIN flow = Flows /\ \A f \in Flows : FlowTyped(flow[f])

\* The YT that a call takes out of the wallet if it lands.
Takes(c) == IF c.op = "Sell" THEN c.amount ELSE 0
Sold == [f \in Flows |-> Takes(flow[f].call)]

\* The flows whose last transaction may still land, and those that are selling.
Late == {f \in Flows : flow[f].status = "unknown"}
Sells(f) == flow[f].mode = "fixed" /\ Running(flow[f])

\* n YT are enough for the sales w of all flows of F.
Pay(F, w, n) ==
  \E S \in [SUBSET F -> Nat] :
    /\ S[{}] = 0 /\ S[F] <= n
    /\ \A A \in SUBSET F : \A f \in A : S[A] = S[A \ {f}] + w[f]

\* The wallet's new YT pays for the sales that may still land; while a flow that
\* sells runs, what it found in the wallet does, and its own sale comes on top.
SalesArePaid ==
  /\ \A f, g \in Flows : Sells(f) /\ Sells(g) => f = g
  /\ OldYt <= yt /\ Pay(Late, Sold, yt - OldYt)
  /\ \A f \in Flows :
       /\ Sells(f) /\ flow[f].status # "read" =>
            OldYt <= flow[f].seen.yt /\ Pay(Late, Sold, flow[f].seen.yt - OldYt)
       /\ flow[f].status = "submit" =>
            OldYt + Sold[f] <= yt /\ Pay(Late, Sold, yt - OldYt - Sold[f])

FlowInv == FlowsTyped /\ (~overlapped => SalesArePaid)

LEMMA TakesInNat ==
  ASSUME NEW c \in Calls
  PROVE  Takes(c) \in Nat
  BY DEF Takes, Calls

LEMMA SoldInNat ==
  ASSUME FlowsTyped
  PROVE  Sold \in [Flows -> Nat]
  BY TakesInNat DEF Sold, FlowsTyped, FlowTyped

LEMMA PayNothing ==
  ASSUME NEW n \in Nat, NEW w
  PROVE  Pay({}, w, n)
<1> DEFINE S == [A \in SUBSET {} |-> 0]
<1>1. S \in [SUBSET {} -> Nat] /\ S[{}] = 0
  OBVIOUS
<1>2. \A A \in SUBSET {} : \A f \in A : S[A] = S[A \ {f}] + w[f]
  OBVIOUS
<1> QED  BY <1>1, <1>2 DEF Pay

\* More YT will do, and the sales of other flows do not matter.
LEMMA PayMore ==
  ASSUME NEW F, NEW w, NEW v, \A f \in F : v[f] = w[f],
         NEW n \in Nat, NEW m \in Nat, n <= m, Pay(F, w, n)
  PROVE  Pay(F, v, m)
<1>1. PICK S \in [SUBSET F -> Nat] :
        /\ S[{}] = 0 /\ S[F] <= n
        /\ \A A \in SUBSET F : \A f \in A : S[A] = S[A \ {f}] + w[f]
  BY DEF Pay
<1>2. S[F] \in Nat /\ S[F] <= m
  BY <1>1
<1>3. \A A \in SUBSET F : \A f \in A : S[A] = S[A \ {f}] + v[f]
  BY <1>1
<1> QED  BY <1>1, <1>2, <1>3 DEF Pay

\* A flow whose call lands, or never will, takes its part with it.
LEMMA PayOneLess ==
  ASSUME NEW F, F \subseteq Flows, NEW w \in [Flows -> Nat], NEW n \in Nat, Pay(F, w, n), NEW f \in F
  PROVE  w[f] <= n /\ Pay(F \ {f}, w, n - w[f])
<1>1. PICK S \in [SUBSET F -> Nat] :
        /\ S[{}] = 0 /\ S[F] <= n
        /\ \A A \in SUBSET F : \A d \in A : S[A] = S[A \ {d}] + w[d]
  BY DEF Pay
<1> DEFINE rest == F \ {f}
           T == [A \in SUBSET rest |-> S[A]]
<1>2. S[F] = S[rest] + w[f] /\ w[f] \in Nat /\ S[rest] \in Nat /\ S[F] \in Nat
  BY <1>1
<1>3. w[f] <= n /\ S[rest] <= n - w[f]
  BY <1>1, <1>2
<1>4. T \in [SUBSET rest -> Nat] /\ T[{}] = 0 /\ T[rest] = S[rest]
  BY <1>1
<1>5. \A A \in SUBSET rest : \A d \in A : T[A] = T[A \ {d}] + w[d]
  BY <1>1
<1> HIDE DEF T, rest
<1>6. Pay(rest, w, n - w[f])
  BY <1>3, <1>4, <1>5 DEF Pay
<1> QED  BY <1>3, <1>6 DEF rest

\* A flow whose call may still land has its part set aside.
LEMMA PayOneMore ==
  ASSUME NEW F, F \subseteq Flows, NEW w \in [Flows -> Nat], NEW n \in Nat, Pay(F, w, n),
         NEW c \in Flows, c \notin F
  PROVE  Pay(F \cup {c}, w, n + w[c])
<1>1. w[c] \in Nat
  OBVIOUS
<1>2. PICK S \in [SUBSET F -> Nat] :
        /\ S[{}] = 0 /\ S[F] <= n
        /\ \A A \in SUBSET F : \A d \in A : S[A] = S[A \ {d}] + w[d]
  BY DEF Pay
<1> DEFINE all == F \cup {c}
           T == [A \in SUBSET all |-> IF c \in A THEN S[A \ {c}] + w[c] ELSE S[A]]
<1>3. \A A \in SUBSET all : A \ {c} \in SUBSET F /\ S[A \ {c}] \in Nat
  OBVIOUS
<1>4. \A A \in SUBSET all : c \notin A => A \in SUBSET F
  OBVIOUS
<1>5. T \in [SUBSET all -> Nat]
  BY <1>1, <1>3, <1>4
<1>6. T[{}] = 0 /\ T[all] = S[F] + w[c]
  <2>1. all \ {c} = F
    OBVIOUS
  <2> QED  BY <1>2, <2>1
<1>7. ASSUME NEW A \in SUBSET all, NEW d \in A
      PROVE  T[A] = T[A \ {d}] + w[d]
  <2>1. w[d] \in Nat
    OBVIOUS
  <2>2. CASE c \notin A
    <3>1. A \in SUBSET F /\ c \notin A \ {d}
      BY <2>2
    <3> QED  BY <1>2, <3>1
  <2>3. CASE c \in A /\ d = c
    <3>1. c \notin A \ {d}
      BY <2>3
    <3> QED  BY <2>3, <3>1
  <2>4. CASE c \in A /\ d # c
    <3>1. c \in A \ {d} /\ A \ {c} \in SUBSET F /\ d \in A \ {c}
      BY <2>4
    <3>2. (A \ {c}) \ {d} = (A \ {d}) \ {c}
      OBVIOUS
    <3>3. S[A \ {c}] = S[(A \ {d}) \ {c}] + w[d]
      BY <1>2, <3>1, <3>2
    <3>4. S[(A \ {d}) \ {c}] \in Nat
      BY <1>3
    <3>5. T[A] = S[A \ {c}] + w[c] /\ T[A \ {d}] = S[(A \ {d}) \ {c}] + w[c]
      BY <2>4, <3>1
    <3> HIDE DEF T
    <3> QED  BY <1>1, <2>1, <3>3, <3>4, <3>5
  <2> QED  BY <2>2, <2>3, <2>4
<1>8. S[F] \in Nat
  OBVIOUS
<1> HIDE DEF T, all
<1>9. T[all] <= n + w[c]
  BY <1>1, <1>2, <1>6, <1>8
<1>10. Pay(all, w, n + w[c])
  BY <1>5, <1>6, <1>7, <1>9 DEF Pay
<1> QED  BY <1>10 DEF all

LEMMA StepsOfForms ==
  ASSUME NEW mode \in {"mint", "keep", "fixed"}, NEW i \in 1 .. Len(Steps(mode))
  PROVE  /\ Steps(mode)[i] \in {"Withdraw", "Deposit", "Split", "Sell"}
         /\ Steps(mode)[i] = "Sell" => mode = "fixed"
<1>1. CASE mode = "mint"
  BY <1>1 DEF Steps
<1>2. CASE mode = "keep"
  BY <1>2 DEF Steps
<1>3. CASE mode = "fixed"
  BY <1>3 DEF Steps
<1> QED  BY <1>1, <1>2, <1>3

LEMMA ConvertsInNat ==
  ASSUME NEW n \in Nat, NEW r \in Nat \ {0}
  PROVE  MulDivFloor(n, WAD, r) \in Nat /\ MulDivFloor(n, r, WAD) \in Nat
  BY WadAssumption, FloorBounds

\* A call that lands takes no more YT than it says.
LEMMA LandingTakes ==
  ASSUME FlowsTyped, NEW c \in Calls, Lands(c)
  PROVE  BalancesTyped' /\ rate' = rate /\ yt - Takes(c) <= yt'
<1> DEFINE n == c.amount
<1>1. n \in Nat /\ rate \in Nat \ {0}
  BY DEF FlowsTyped, Calls
<1>2. usdc \in Nat /\ sy \in Nat /\ pt \in Nat /\ yt \in Nat /\ position \in Nat
  BY DEF FlowsTyped, BalancesTyped
<1>3. c.op = "Withdraw" \/ c.op = "Deposit" \/ c.op = "Split" => Takes(c) = 0
  BY DEF Takes
<1>4. c.op = "Sell" => Takes(c) = n
  BY DEF Takes
<1>5. ASSUME c.op = "Withdraw", Withdraw(n)
      PROVE  BalancesTyped' /\ rate' = rate /\ yt - Takes(c) <= yt'
  <2> DEFINE all == Least(position, n)
  <2>1. all \in Nat /\ all <= position
    BY <1>1, <1>2 DEF Least
  <2> HIDE DEF all
  <2>2. PICK short \in Shortfalls :
          LET got == all - short IN
          got > 0 /\ usdc' = usdc + got /\ position' = position - got
    BY <1>5 DEF Withdraw, all
  <2>3. short \in Nat
    BY FlowAssumption
  <2>4. UNCHANGED <<sy, pt, yt, rate>>
    BY <1>5 DEF Withdraw
  <2>5. usdc' \in Nat /\ position' \in Nat
    BY <1>2, <2>1, <2>2, <2>3
  <2> QED  BY <1>2, <1>3, <1>5, <2>4, <2>5 DEF BalancesTyped
<1>6. ASSUME c.op = "Deposit", Deposit(n)
      PROVE  BalancesTyped' /\ rate' = rate /\ yt - Takes(c) <= yt'
  <2> DEFINE shares == MulDivFloor(n, WAD, rate)
  <2>1. shares \in Nat
    BY <1>1, ConvertsInNat
  <2>2. /\ n <= usdc /\ usdc' = usdc - n /\ sy' = sy + shares
        /\ UNCHANGED <<pt, yt, position, rate>>
    BY <1>6 DEF Deposit
  <2> HIDE DEF shares, n
  <2> QED  BY <1>1, <1>2, <1>3, <1>6, <2>1, <2>2 DEF BalancesTyped
<1>7. ASSUME c.op = "Split", Split(n)
      PROVE  BalancesTyped' /\ rate' = rate /\ yt - Takes(c) <= yt'
  <2> DEFINE face == MulDivFloor(n, rate, WAD)
  <2>1. face \in Nat
    BY <1>1, ConvertsInNat
  <2>2. /\ n <= sy /\ sy' = sy - n /\ pt' = pt + face /\ yt' = yt + face
        /\ UNCHANGED <<usdc, position, rate>>
    BY <1>7 DEF Split
  <2> HIDE DEF face, n
  <2> QED  BY <1>1, <1>2, <1>3, <1>7, <2>1, <2>2 DEF BalancesTyped
<1>8. ASSUME c.op = "Sell", Sell(n)
      PROVE  BalancesTyped' /\ rate' = rate /\ yt - Takes(c) <= yt'
  <2>1. PICK price \in SalePrices : sy' = sy + MulDivFloor(n, price, WAD)
    BY <1>8 DEF Sell
  <2> DEFINE paid == MulDivFloor(n, price, WAD)
  <2>2. price \in Nat
    BY FlowAssumption
  <2>3. paid \in Nat
    BY <1>1, <2>2, WadAssumption, FloorBounds
  <2>4. n <= yt /\ yt' = yt - n /\ UNCHANGED <<usdc, pt, position, rate>>
    BY <1>8 DEF Sell
  <2>5. sy' = sy + paid
    BY <2>1
  <2> HIDE DEF paid, n
  <2> QED  BY <1>1, <1>2, <1>4, <1>8, <2>3, <2>4, <2>5 DEF BalancesTyped
<1> QED  BY <1>5, <1>6, <1>7, <1>8 DEF Lands


\* The amounts the steps compute; a sale is of what the wallet has gained.
LEMMA RequestsAreCalls ==
  ASSUME FlowsTyped, NEW s, FlowTyped(s), NEW op \in {"Withdraw", "Deposit", "Split", "Sell"}
  PROVE  /\ Request(s, op) \in Calls /\ Request(s, op).op = op
         /\ op = "Sell" /\ Request(s, op).amount > 0 =>
              Takes(Request(s, op)) = yt - s.seen.yt /\ s.seen.yt < yt
         /\ op # "Sell" => Takes(Request(s, op)) = 0
<1>1. /\ usdc \in Nat /\ sy \in Nat /\ yt \in Nat
      /\ s.deposit \in Nat /\ s.seen.rate \in Nat \ {0} /\ s.seen.target \in Nat /\ s.seen.yt \in Nat
  BY DEF FlowsTyped, BalancesTyped, FlowTyped
<1>2. DepositAmount(s) \in Nat
  BY <1>1 DEF DepositAmount, Least
<1>3. SplitAmount(s) \in Nat
  <2>1. MulDivFloor(s.deposit, WAD, s.seen.rate) \in Nat
    BY <1>1, ConvertsInNat
  <2> QED  BY <1>1, <2>1 DEF SplitAmount, Least
<1>4. SaleAmount(s) \in Nat /\ (SaleAmount(s) > 0 => SaleAmount(s) = yt - s.seen.yt /\ s.seen.yt < yt)
  BY <1>1 DEF SaleAmount
<1>5. s.seen.target + 1 \in Nat
  BY <1>1
<1>6. Request(s, op).op = op /\ Request(s, op) \in Calls
  BY <1>2, <1>3, <1>4, <1>5 DEF Request, Calls
<1>7. op = "Sell" => Request(s, op).amount = SaleAmount(s)
  BY DEF Request
<1> QED  BY <1>4, <1>6, <1>7 DEF Takes

\* What is left of n after o, when n gives up at most t.
LEMMA LeftOver ==
  ASSUME NEW n \in Nat, NEW m \in Nat, NEW o \in Nat, NEW t \in Nat,
         n - t <= m, o + t <= n
  PROVE  o <= m /\ n - o \in Nat /\ m - o \in Nat /\ n - o - t \in Nat /\ n - o - t <= m - o
  OBVIOUS

LEMMA FlowInit == Init => FlowInv
<1> SUFFICES ASSUME Init PROVE FlowInv
  OBVIOUS
<1>1. \A f \in Flows : flow[f] = NotStarted /\ flow[f].status = "idle" /\ flow[f].mode = "none"
  BY DEF Init, NotStarted
<1>2. FlowTyped(NotStarted)
  BY WadAssumption DEF FlowTyped, NotStarted, NoCall, Calls, Running
<1>3. FlowsTyped
  BY <1>1, <1>2, FlowAssumption, WadAssumption DEF Init, FlowsTyped, BalancesTyped
<1>4. Late = {} /\ yt - OldYt = 0 /\ OldYt <= yt
  BY <1>1, FlowAssumption DEF Late, Init
<1>5. Pay(Late, Sold, yt - OldYt)
  BY <1>4, PayNothing
<1>6. SalesArePaid
  BY <1>1, <1>4, <1>5 DEF SalesArePaid, Sells, Running
<1> QED  BY <1>3, <1>6 DEF FlowInv

\* Only flow f moves, to s.
LEMMA MovesTyped ==
  ASSUME FlowsTyped, NEW f \in Flows, NEW s, FlowTyped(s), Becomes(f, s),
         BalancesTyped', rate' \in Nat \ {0}, known' \in [rate : Nat \ {0}, position : Nat]
  PROVE  /\ FlowsTyped' /\ flow'[f] = s /\ \A g \in Flows \ {f} : flow'[g] = flow[g]
         /\ \A g \in Flows \ {f} : Sold'[g] = Sold[g] /\ (Sells(g)' <=> Sells(g))
         /\ Sold'[f] = Takes(s.call) /\ (Sells(f)' <=> s.mode = "fixed" /\ Running(s))
         /\ Late' = IF s.status = "unknown" THEN Late \cup {f} ELSE Late \ {f}
<1>1. DOMAIN flow = Flows /\ \A g \in Flows : FlowTyped(flow[g])
  BY DEF FlowsTyped
<1>2. DOMAIN flow' = Flows /\ flow'[f] = s /\ \A g \in Flows \ {f} : flow'[g] = flow[g]
  BY <1>1 DEF Becomes
<1>3. \A g \in Flows : FlowTyped(flow'[g])
  BY <1>1, <1>2
<1>4. FlowsTyped'
  BY <1>2, <1>3 DEF FlowsTyped, FlowTyped, Flows, Calls, Steps, Running
<1>5. Flows' = Flows
  BY DEF Flows
<1>6. /\ \A g \in Flows \ {f} : Sold'[g] = Sold[g]
      /\ Sold'[f] = Takes(s.call)
  BY <1>2, <1>5 DEF Sold, Takes
<1>7. /\ \A g \in Flows \ {f} : (Sells(g)' <=> Sells(g))
      /\ Sells(f)' <=> s.mode = "fixed" /\ Running(s)
  BY <1>2 DEF Sells, Running
<1>8. Late' = IF s.status = "unknown" THEN Late \cup {f} ELSE Late \ {f}
  BY <1>2, <1>5 DEF Late
<1> QED  BY <1>2, <1>4, <1>6, <1>7, <1>8

\* The wallet's YT stays, and no call is reported as failed or lands late.
LEMMA QuietSales ==
  ASSUME FlowsTyped, SalesArePaid, NEW f \in Flows, NEW s, FlowTyped(s), Becomes(f, s),
         UNCHANGED yt, BalancesTyped', rate' \in Nat \ {0}, known' \in [rate : Nat \ {0}, position : Nat],
         flow[f].status # "unknown", s.status # "unknown",
         s.mode = "fixed" /\ Running(s) => Sells(f) \/ \A g \in Flows : ~Sells(g),
         s.mode = "fixed" /\ Running(s) /\ s.status # "read" =>
           OldYt <= s.seen.yt /\ Pay(Late, Sold, s.seen.yt - OldYt),
         s.status = "submit" =>
           OldYt + Takes(s.call) <= yt /\ Pay(Late, Sold, yt - OldYt - Takes(s.call))
  PROVE  SalesArePaid'
<1>1. /\ flow'[f] = s /\ \A g \in Flows \ {f} : flow'[g] = flow[g]
      /\ \A g \in Flows \ {f} : Sold'[g] = Sold[g] /\ (Sells(g)' <=> Sells(g))
      /\ Sold'[f] = Takes(s.call) /\ (Sells(f)' <=> s.mode = "fixed" /\ Running(s))
      /\ Late' = Late \ {f}
  BY MovesTyped
<1>2. f \notin Late /\ Late' = Late /\ Late \subseteq Flows
  BY <1>1 DEF Late
<1>3. \A g \in Late : Sold'[g] = Sold[g]
  BY <1>1, <1>2
<1>4. OldYt \in Nat /\ yt \in Nat /\ Sold \in [Flows -> Nat] /\ Takes(s.call) \in Nat
  BY FlowAssumption, SoldInNat, TakesInNat DEF FlowsTyped, BalancesTyped, FlowTyped
<1>5. ASSUME NEW n \in Nat, Pay(Late, Sold, n)
      PROVE  Pay(Late', Sold', n)
  BY <1>2, <1>3, <1>5, PayMore
<1>6. \A g, h \in Flows : Sells(g)' /\ Sells(h)' => g = h
  BY <1>1 DEF SalesArePaid
<1>7. OldYt <= yt' /\ Pay(Late', Sold', yt' - OldYt)
  <2>1. OldYt <= yt /\ Pay(Late, Sold, yt - OldYt) /\ yt - OldYt \in Nat
    BY <1>4 DEF SalesArePaid
  <2> QED  BY <1>5, <2>1
<1>8. ASSUME NEW g \in Flows, Sells(g)', flow'[g].status # "read"
      PROVE  OldYt <= flow'[g].seen.yt /\ Pay(Late', Sold', flow'[g].seen.yt - OldYt)
  <2>1. OldYt <= flow'[g].seen.yt /\ Pay(Late, Sold, flow'[g].seen.yt - OldYt)
    BY <1>1, <1>8 DEF SalesArePaid
  <2>2. flow'[g].seen.yt \in Nat
    BY <1>1 DEF FlowsTyped, FlowTyped
  <2>3. flow'[g].seen.yt - OldYt \in Nat
    BY <1>4, <2>1, <2>2
  <2> QED  BY <1>5, <2>1, <2>3
<1>9. ASSUME NEW g \in Flows, flow'[g].status = "submit"
      PROVE  OldYt + Sold'[g] <= yt' /\ Pay(Late', Sold', yt' - OldYt - Sold'[g])
  <2>1. OldYt + Sold'[g] <= yt /\ Pay(Late, Sold, yt - OldYt - Sold'[g])
    BY <1>1, <1>9 DEF SalesArePaid
  <2>2. Sold'[g] \in Nat
    BY <1>1, <1>4
  <2>3. yt - OldYt - Sold'[g] \in Nat
    BY <1>4, <2>1, <2>2
  <2> QED  BY <1>5, <2>1, <2>3
<1> QED  BY <1>6, <1>7, <1>8, <1>9 DEF SalesArePaid, Flows

\* A step leaves the wallet, or a call lands in it; another flow's sale or an own
\* one may be among what the wallet still has to pay for.
LEMMA BeginKeepsInv ==
  ASSUME FlowInv, NEW f \in Flows, Begin(f)
  PROVE  FlowInv'
<1>1. FlowsTyped /\ UNCHANGED <<chain, known>> /\ flow[f].status = "idle"
  BY DEF FlowInv, Begin
<1>2. PICK mode \in Modes, amount \in MintAmounts :
        /\ Becomes(f, [NotStarted EXCEPT
             !.mode = mode, !.status = IF mode = "fixed" THEN "read" ELSE "build", !.step = 1,
             !.seen = [rate |-> known.rate, target |-> known.position, yt |-> 0],
             !.deposit = IF mode = "mint" THEN amount ELSE 0])
        /\ overlapped' = (overlapped \/ (mode = "fixed" /\ AnotherSells))
  BY DEF Begin
<1> DEFINE s == [NotStarted EXCEPT
             !.mode = mode, !.status = IF mode = "fixed" THEN "read" ELSE "build", !.step = 1,
             !.seen = [rate |-> known.rate, target |-> known.position, yt |-> 0],
             !.deposit = IF mode = "mint" THEN amount ELSE 0]
<1>3. /\ DOMAIN s = {"mode", "status", "step", "seen", "deposit", "call", "arrived"}
      /\ s.mode = mode /\ s.status = (IF mode = "fixed" THEN "read" ELSE "build") /\ s.step = 1
      /\ s.seen = [rate |-> known.rate, target |-> known.position, yt |-> 0]
      /\ s.deposit = (IF mode = "mint" THEN amount ELSE 0) /\ s.call = NoCall
  BY DEF NotStarted
<1> HIDE DEF s
<1>4. mode \in {"mint", "keep", "fixed"} /\ amount \in Nat
  BY FlowAssumption
<1>5. 1 \in 1 .. Len(Steps(mode))
  BY <1>4 DEF Steps
<1>6. FlowTyped(s)
  BY <1>1, <1>3, <1>4, <1>5 DEF FlowTyped, FlowsTyped, Calls, NoCall
<1>7. Becomes(f, s) /\ Takes(s.call) = 0
  BY <1>2, <1>3 DEF s, Takes, NoCall
<1>8. BalancesTyped' /\ rate' \in Nat \ {0} /\ known' \in [rate : Nat \ {0}, position : Nat] /\ UNCHANGED yt
  BY <1>1 DEF chain, FlowsTyped, BalancesTyped
<1>9. FlowsTyped'
  BY <1>1, <1>6, <1>7, <1>8, MovesTyped
<1>10. ASSUME ~overlapped'
       PROVE  SalesArePaid'
  <2>1. ~overlapped /\ (mode = "fixed" => ~AnotherSells)
    BY <1>2, <1>10
  <2>2. SalesArePaid /\ (mode = "fixed" => \A g \in Flows : ~Sells(g))
    BY <2>1 DEF FlowInv, AnotherSells, Sells
  <2>3. s.mode = "fixed" => s.status = "read"
    BY <1>3
  <2>4. s.status # "submit" /\ s.status # "unknown"
    BY <1>3
  <2> QED  BY <1>1, <1>3, <1>6, <1>7, <1>8, <2>2, <2>3, <2>4, QuietSales
<1> QED  BY <1>9, <1>10 DEF FlowInv

LEMMA ReadKeepsInv ==
  ASSUME FlowInv, NEW f \in Flows, ReadYt(f)
  PROVE  FlowInv'
<1> DEFINE s == [flow[f] EXCEPT !.seen.yt = yt, !.status = "build"]
<1>1. /\ FlowsTyped /\ UNCHANGED <<chain, known, overlapped>> /\ flow[f].status = "read"
      /\ Becomes(f, s) /\ FlowTyped(flow[f])
  BY DEF FlowInv, ReadYt, FlowsTyped
<1>2. /\ DOMAIN s = DOMAIN flow[f] /\ s.mode = flow[f].mode /\ s.status = "build"
      /\ s.step = flow[f].step /\ s.seen = [flow[f].seen EXCEPT !.yt = yt]
      /\ s.deposit = flow[f].deposit /\ s.call = flow[f].call
  BY <1>1 DEF FlowTyped
<1>3. yt \in Nat /\ OldYt \in Nat
  BY <1>1, FlowAssumption DEF FlowsTyped, BalancesTyped
<1> HIDE DEF s
<1>4. FlowTyped(s) /\ s.seen.yt = yt
  BY <1>1, <1>2, <1>3 DEF FlowTyped, Running
<1>5. BalancesTyped' /\ rate' \in Nat \ {0} /\ known' \in [rate : Nat \ {0}, position : Nat] /\ UNCHANGED yt
  BY <1>1 DEF chain, FlowsTyped, BalancesTyped
<1>6. FlowsTyped'
  BY <1>1, <1>4, <1>5, MovesTyped
<1>7. ASSUME SalesArePaid
      PROVE  SalesArePaid'
  <2>1. s.mode = "fixed" => Sells(f)
    BY <1>1, <1>2 DEF Sells, Running
  <2>2. OldYt <= s.seen.yt /\ Pay(Late, Sold, s.seen.yt - OldYt)
    BY <1>4, <1>7 DEF SalesArePaid
  <2> QED  BY <1>1, <1>2, <1>4, <1>5, <1>7, <2>1, <2>2, QuietSales
<1> QED  BY <1>1, <1>6, <1>7 DEF FlowInv

LEMMA GiveUpKeepsInv ==
  ASSUME FlowInv, NEW f \in Flows, GivesUp(f)
  PROVE  FlowInv'
<1> DEFINE s == [flow[f] EXCEPT !.status = "error"]
<1>1. /\ FlowsTyped /\ UNCHANGED <<chain, known, overlapped>> /\ Running(flow[f])
      /\ Becomes(f, s) /\ FlowTyped(flow[f])
  BY DEF FlowInv, GivesUp, FlowsTyped
<1>2. /\ DOMAIN s = DOMAIN flow[f] /\ s.mode = flow[f].mode /\ s.status = "error"
      /\ s.seen = flow[f].seen /\ s.deposit = flow[f].deposit /\ s.call = flow[f].call
  BY <1>1 DEF FlowTyped
<1> HIDE DEF s
<1>3. FlowTyped(s) /\ ~Running(s)
  BY <1>1, <1>2 DEF FlowTyped, Running
<1>4. BalancesTyped' /\ rate' \in Nat \ {0} /\ known' \in [rate : Nat \ {0}, position : Nat] /\ UNCHANGED yt
  BY <1>1 DEF chain, FlowsTyped, BalancesTyped
<1>5. FlowsTyped'
  BY <1>1, <1>3, <1>4, MovesTyped
<1>6. flow[f].status # "unknown"
  BY <1>1 DEF Running
<1>7. ASSUME SalesArePaid
      PROVE  SalesArePaid'
  BY <1>1, <1>2, <1>3, <1>4, <1>6, <1>7, QuietSales
<1> QED  BY <1>1, <1>5, <1>7 DEF FlowInv

LEMMA BuildKeepsInv ==
  ASSUME FlowInv, NEW f \in Flows, BuildStep(f)
  PROVE  FlowInv'
<1> DEFINE op == Steps(flow[f].mode)[flow[f].step]
           request == Request(flow[f], op)
           told == [flow[f] EXCEPT !.deposit = IF request.op = "Deposit" THEN request.amount ELSE @]
           s == IF request.amount > 0 THEN [told EXCEPT !.call = request, !.status = "submit"]
                                      ELSE [told EXCEPT !.status = "error"]
<1>1. /\ FlowsTyped /\ UNCHANGED <<chain, known, overlapped>> /\ flow[f].status = "build"
      /\ Becomes(f, s) /\ FlowTyped(flow[f])
  BY DEF FlowInv, BuildStep, Built, FlowsTyped
<1>2. /\ flow[f].mode \in {"mint", "keep", "fixed"} /\ flow[f].step \in 1 .. Len(Steps(flow[f].mode))
  BY <1>1 DEF FlowTyped, Running
<1>3. op \in {"Withdraw", "Deposit", "Split", "Sell"} /\ (op = "Sell" => flow[f].mode = "fixed")
  BY <1>2, StepsOfForms
<1> HIDE DEF op
<1>4. /\ request \in Calls /\ request.op = op
      /\ op = "Sell" /\ request.amount > 0 =>
           Takes(request) = yt - flow[f].seen.yt /\ flow[f].seen.yt < yt
      /\ op # "Sell" => Takes(request) = 0
  BY <1>1, <1>3, RequestsAreCalls
<1>5. request.amount \in Nat
  BY <1>4 DEF Calls
<1> HIDE DEF request
<1>6. /\ DOMAIN told = DOMAIN flow[f] /\ told.mode = flow[f].mode /\ told.step = flow[f].step
      /\ told.seen = flow[f].seen /\ told.deposit \in Nat /\ told.call = flow[f].call
  BY <1>1, <1>5 DEF FlowTyped
<1> HIDE DEF told
<1>7. /\ DOMAIN s = DOMAIN flow[f] /\ s.mode = flow[f].mode /\ s.step = flow[f].step
      /\ s.seen = flow[f].seen /\ s.deposit \in Nat
      /\ \/ request.amount > 0 /\ s.call = request /\ s.status = "submit"
         \/ s.call = flow[f].call /\ s.status = "error"
  BY <1>1, <1>6 DEF FlowTyped
<1> HIDE DEF s
<1>8. FlowTyped(s)
  BY <1>1, <1>2, <1>3, <1>4, <1>7 DEF FlowTyped
<1>9. BalancesTyped' /\ rate' \in Nat \ {0} /\ known' \in [rate : Nat \ {0}, position : Nat] /\ UNCHANGED yt
  BY <1>1 DEF chain, FlowsTyped, BalancesTyped
<1>10. FlowsTyped'
  BY <1>1, <1>8, <1>9, MovesTyped
<1>11. ASSUME SalesArePaid
       PROVE  SalesArePaid'
  <2>1. OldYt <= yt /\ Pay(Late, Sold, yt - OldYt)
    BY <1>11 DEF SalesArePaid
  <2>2. s.mode = "fixed" => Sells(f)
    BY <1>1, <1>7 DEF Sells, Running
  <2>3. s.mode = "fixed" => OldYt <= s.seen.yt /\ Pay(Late, Sold, s.seen.yt - OldYt)
    BY <1>1, <1>7, <1>11, <2>2 DEF SalesArePaid
  <2>4. /\ OldYt \in Nat /\ yt \in Nat /\ flow[f].seen.yt \in Nat
    BY <1>1, FlowAssumption DEF FlowsTyped, BalancesTyped, FlowTyped
  <2>5. ASSUME s.status = "submit"
        PROVE  OldYt + Takes(s.call) <= yt /\ Pay(Late, Sold, yt - OldYt - Takes(s.call))
    <3>1. s.call = request /\ request.amount > 0
      BY <1>7, <2>5
    <3>2. CASE op = "Sell"
      <4>1. Takes(request) = yt - flow[f].seen.yt /\ flow[f].seen.yt < yt
        BY <1>4, <3>1, <3>2
      <4>2. OldYt <= flow[f].seen.yt /\ Pay(Late, Sold, flow[f].seen.yt - OldYt)
        BY <1>3, <1>7, <2>3, <3>2
      <4>3. yt - OldYt - Takes(request) = flow[f].seen.yt - OldYt /\ OldYt + Takes(request) <= yt
        BY <2>4, <4>1, <4>2
      <4> QED  BY <3>1, <4>2, <4>3
    <3>3. CASE op # "Sell"
      <4>1. Takes(request) = 0
        BY <1>4, <3>3
      <4>2. yt - OldYt - Takes(request) = yt - OldYt /\ OldYt + Takes(request) <= yt
        BY <2>1, <2>4, <4>1
      <4> QED  BY <2>1, <3>1, <4>2
    <3> QED  BY <3>2, <3>3
  <2>6. flow[f].status # "unknown" /\ s.status # "unknown"
    BY <1>1, <1>7
  <2> QED  BY <1>1, <1>8, <1>9, <1>11, <2>2, <2>3, <2>5, <2>6, QuietSales
<1> QED  BY <1>1, <1>10, <1>11 DEF FlowInv

\* Flow f's call leaves, and s neither sells nor still has to: what the other
\* flows have set aside is theirs.
LEMMA OnlyOneSells ==
  ASSUME FlowsTyped, SalesArePaid, NEW f \in Flows, NEW g \in Flows, f # g,
         Running(flow[f]), Running(flow[g])
  PROVE  Sold[f] = 0 \/ Sold[g] = 0
<1>1. \A h \in Flows : Sold[h] # 0 => flow[h].mode = "fixed"
  BY DEF Sold, Takes, FlowsTyped, FlowTyped
<1> QED  BY <1>1 DEF SalesArePaid, Sells

\* The step's transaction landed.
LEMMA SubmitKeepsInv ==
  ASSUME FlowInv, NEW f \in Flows, SubmitStep(f)
  PROVE  FlowInv'
<1> DEFINE done == Advanced(flow[f])
           s == [done EXCEPT !.arrived = Brought(flow[f])]
           c == flow[f].call
<1>1. /\ FlowsTyped /\ UNCHANGED <<known, overlapped>> /\ flow[f].status = "submit" /\ Lands(c)
      /\ Becomes(f, s) /\ FlowTyped(flow[f])
  BY DEF FlowInv, SubmitStep, FlowsTyped
<1>2. flow[f].mode \in {"mint", "keep", "fixed"} /\ flow[f].step \in 1 .. Len(Steps(flow[f].mode))
  BY <1>1 DEF FlowTyped, Running
<1>3. Len(Steps(flow[f].mode)) \in Nat
  BY <1>2 DEF Steps
<1>4. /\ DOMAIN done = DOMAIN flow[f] /\ done.mode = flow[f].mode /\ done.seen = flow[f].seen
      /\ done.deposit = flow[f].deposit /\ done.call = c
      /\ \/ done.status = "done"
         \/ done.status = "build" /\ done.step \in 1 .. Len(Steps(flow[f].mode))
  BY <1>1, <1>2, <1>3 DEF Advanced, FlowTyped
<1> HIDE DEF done
<1>5. /\ DOMAIN s = DOMAIN flow[f] /\ s.mode = flow[f].mode /\ s.seen = flow[f].seen
      /\ s.deposit = flow[f].deposit /\ s.call = c
      /\ \/ s.status = "done"
         \/ s.status = "build" /\ s.step \in 1 .. Len(Steps(flow[f].mode))
  BY <1>1, <1>4 DEF FlowTyped
<1> HIDE DEF s
<1>6. FlowTyped(s)
  BY <1>1, <1>2, <1>5 DEF FlowTyped, Running
<1>7. c \in Calls /\ Sold[f] = Takes(c) /\ Sold \in [Flows -> Nat]
  BY <1>1, SoldInNat DEF FlowTyped, Sold
<1>8. BalancesTyped' /\ rate' = rate /\ yt - Sold[f] <= yt'
  BY <1>1, <1>7, LandingTakes
<1>9. /\ FlowsTyped' /\ flow'[f] = s /\ \A g \in Flows \ {f} : flow'[g] = flow[g]
      /\ \A g \in Flows \ {f} : Sold'[g] = Sold[g] /\ (Sells(g)' <=> Sells(g))
      /\ Sold'[f] = Sold[f] /\ (Sells(f)' <=> s.mode = "fixed" /\ Running(s))
      /\ Late' = Late \ {f}
  <2>1. known' \in [rate : Nat \ {0}, position : Nat] /\ rate' \in Nat \ {0}
    BY <1>1, <1>8 DEF FlowsTyped
  <2> QED  BY <1>1, <1>5, <1>6, <1>7, <1>8, <2>1, MovesTyped
<1>10. ASSUME SalesArePaid
       PROVE  SalesArePaid'
  <2>1. Late' = Late /\ Late \subseteq Flows /\ \A g \in Flows : Sold'[g] = Sold[g]
    BY <1>1, <1>9 DEF Late
  <2>2. OldYt \in Nat /\ yt \in Nat /\ yt' \in Nat /\ \A g \in Flows : Sold[g] \in Nat
    BY <1>1, <1>7, <1>8, FlowAssumption DEF FlowsTyped, BalancesTyped
  <2>3. ASSUME NEW n \in Nat, NEW m \in Nat, n <= m, Pay(Late, Sold, n)
        PROVE  Pay(Late', Sold', m)
    BY <2>1, <2>3, PayMore
  <2>4. \A g, h \in Flows : Sells(g)' /\ Sells(h)' => g = h
    <3>1. Sells(f)' => Sells(f)
      BY <1>1, <1>5, <1>9 DEF Sells, Running
    <3> QED  BY <1>9, <1>10, <3>1 DEF SalesArePaid
  <2>5. OldYt <= yt' /\ Pay(Late', Sold', yt' - OldYt)
    <3>1. OldYt + Sold[f] <= yt /\ Pay(Late, Sold, yt - OldYt - Sold[f])
      BY <1>1, <1>10 DEF SalesArePaid
    <3>2. OldYt <= yt' /\ yt - OldYt - Sold[f] \in Nat /\ yt' - OldYt \in Nat
          /\ yt - OldYt - Sold[f] <= yt' - OldYt
      BY <1>8, <2>2, <3>1, LeftOver
    <3> QED  BY <2>3, <3>1, <3>2
  <2>6. ASSUME NEW g \in Flows, Sells(g)', flow'[g].status # "read"
        PROVE  OldYt <= flow'[g].seen.yt /\ Pay(Late', Sold', flow'[g].seen.yt - OldYt)
    <3>1. flow'[g].seen = flow[g].seen /\ Sells(g) /\ flow[g].status # "read"
      BY <1>1, <1>5, <1>9, <2>6 DEF Sells, Running
    <3>2. OldYt <= flow[g].seen.yt /\ Pay(Late, Sold, flow[g].seen.yt - OldYt)
      BY <1>10, <3>1 DEF SalesArePaid
    <3>3. flow[g].seen.yt \in Nat
      BY <1>1 DEF FlowsTyped, FlowTyped
    <3>4. flow[g].seen.yt - OldYt \in Nat
      BY <2>2, <3>2, <3>3
    <3> QED  BY <2>3, <3>1, <3>2, <3>4
  <2>7. ASSUME NEW g \in Flows, flow'[g].status = "submit"
        PROVE  OldYt + Sold'[g] <= yt' /\ Pay(Late', Sold', yt' - OldYt - Sold'[g])
    <3>1. g # f /\ flow[g].status = "submit" /\ Sold'[g] = Sold[g]
      BY <1>5, <1>9, <2>1, <2>7
    <3>2. CASE Sold[g] = 0
      <4>1. yt' - OldYt - Sold'[g] = yt' - OldYt /\ OldYt + Sold'[g] <= yt'
        BY <2>2, <2>5, <3>1, <3>2
      <4> QED  BY <2>5, <4>1
    <3>3. CASE Sold[g] # 0
      <4>1. Sold[f] = 0
        BY <1>1, <1>10, <3>1, <3>3, OnlyOneSells DEF Running
      <4>2. OldYt + Sold[g] <= yt /\ Pay(Late, Sold, yt - OldYt - Sold[g])
        BY <1>10, <3>1 DEF SalesArePaid
      <4>3. /\ yt - OldYt - Sold[g] \in Nat /\ yt' - OldYt - Sold[g] \in Nat
            /\ yt - OldYt - Sold[g] <= yt' - OldYt - Sold[g] /\ OldYt + Sold[g] <= yt'
        BY <1>8, <2>2, <4>1, <4>2
      <4> QED  BY <2>3, <3>1, <4>2, <4>3
    <3> QED  BY <3>2, <3>3
  <2> QED  BY <2>4, <2>5, <2>6, <2>7 DEF SalesArePaid, Flows
<1> QED  BY <1>1, <1>9, <1>10 DEF FlowInv

\* It is reported as failed, and may still land.
LEMMA UnknownKeepsInv ==
  ASSUME FlowInv, NEW f \in Flows, SubmitUnknown(f)
  PROVE  FlowInv'
<1> DEFINE s == [flow[f] EXCEPT !.status = "unknown"]
<1>1. /\ FlowsTyped /\ UNCHANGED <<chain, known, overlapped>> /\ flow[f].status = "submit"
      /\ Becomes(f, s) /\ FlowTyped(flow[f])
  BY DEF FlowInv, SubmitUnknown, FlowsTyped
<1>2. /\ DOMAIN s = DOMAIN flow[f] /\ s.mode = flow[f].mode /\ s.status = "unknown"
      /\ s.seen = flow[f].seen /\ s.deposit = flow[f].deposit /\ s.call = flow[f].call
  BY <1>1 DEF FlowTyped
<1> HIDE DEF s
<1>3. FlowTyped(s) /\ ~Running(s)
  BY <1>1, <1>2 DEF FlowTyped, Running
<1>4. BalancesTyped' /\ rate' \in Nat \ {0} /\ known' \in [rate : Nat \ {0}, position : Nat] /\ UNCHANGED yt
  BY <1>1 DEF chain, FlowsTyped, BalancesTyped
<1>5. /\ FlowsTyped' /\ flow'[f] = s /\ \A g \in Flows \ {f} : flow'[g] = flow[g]
      /\ \A g \in Flows \ {f} : Sold'[g] = Sold[g] /\ (Sells(g)' <=> Sells(g))
      /\ Sold'[f] = Takes(s.call) /\ ~Sells(f)' /\ Late' = Late \cup {f}
  BY <1>1, <1>2, <1>3, <1>4, MovesTyped
<1>6. Sold'[f] = Sold[f] /\ Sold \in [Flows -> Nat]
  BY <1>1, <1>2, <1>5, SoldInNat DEF Sold
<1>7. ASSUME SalesArePaid
      PROVE  SalesArePaid'
  <2>1. f \notin Late /\ Late \subseteq Flows /\ \A g \in Flows : Sold'[g] = Sold[g]
    BY <1>1, <1>5, <1>6 DEF Late
  <2>2. OldYt \in Nat /\ yt \in Nat /\ yt' = yt /\ \A g \in Flows : Sold[g] \in Nat
    BY <1>1, <1>4, <1>6, FlowAssumption DEF FlowsTyped, BalancesTyped
  <2>3. ASSUME NEW n \in Nat, Pay(Late, Sold, n)
        PROVE  Pay(Late', Sold', n + Sold[f])
    <3>1. Pay(Late \cup {f}, Sold, n + Sold[f])
      BY <1>6, <2>1, <2>3, PayOneMore
    <3>2. n + Sold[f] \in Nat /\ n + Sold[f] <= n + Sold[f] /\ \A g \in Late \cup {f} : Sold'[g] = Sold[g]
      BY <2>1, <2>2
    <3>3. Pay(Late \cup {f}, Sold', n + Sold[f])
      BY <3>1, <3>2, PayMore
    <3> QED  BY <1>5, <3>3
  <2>4. \A g, h \in Flows : Sells(g)' /\ Sells(h)' => g = h
    BY <1>5, <1>7 DEF SalesArePaid
  <2>5. OldYt <= yt' /\ Pay(Late', Sold', yt' - OldYt)
    <3>1. OldYt + Sold[f] <= yt /\ Pay(Late, Sold, yt - OldYt - Sold[f])
      BY <1>1, <1>7 DEF SalesArePaid
    <3>2. yt - OldYt - Sold[f] \in Nat /\ yt - OldYt - Sold[f] + Sold[f] = yt' - OldYt /\ OldYt <= yt'
      BY <2>2, <3>1
    <3> QED  BY <2>3, <3>1, <3>2
  <2>6. ASSUME NEW g \in Flows, Sells(g)', flow'[g].status # "read"
        PROVE  OldYt <= flow'[g].seen.yt /\ Pay(Late', Sold', flow'[g].seen.yt - OldYt)
    <3>1. g # f /\ flow'[g] = flow[g] /\ Sells(g)
      BY <1>5, <2>6
    <3>2. OldYt <= flow[g].seen.yt /\ Pay(Late, Sold, flow[g].seen.yt - OldYt)
      BY <1>7, <2>6, <3>1 DEF SalesArePaid
    <3>3. ~Sells(f)
      BY <1>7, <3>1 DEF SalesArePaid
    <3>4. Sold[f] = 0
      BY <1>1, <3>3 DEF Sells, Running, Sold, Takes, FlowTyped
    <3>5. flow[g].seen.yt \in Nat
      BY <1>1 DEF FlowsTyped, FlowTyped
    <3>6. /\ flow[g].seen.yt - OldYt \in Nat
          /\ flow[g].seen.yt - OldYt + Sold[f] = flow[g].seen.yt - OldYt
      BY <2>2, <3>2, <3>4, <3>5
    <3>7. Pay(Late', Sold', flow[g].seen.yt - OldYt + Sold[f])
      BY <2>3, <3>2, <3>6
    <3> QED  BY <3>1, <3>2, <3>6, <3>7
  <2>7. ASSUME NEW g \in Flows, flow'[g].status = "submit"
        PROVE  OldYt + Sold'[g] <= yt' /\ Pay(Late', Sold', yt' - OldYt - Sold'[g])
    <3>1. g # f /\ flow[g].status = "submit" /\ Sold'[g] = Sold[g]
      BY <1>2, <1>5, <2>1, <2>7
    <3>2. CASE Sold[g] = 0
      <4>1. yt' - OldYt - Sold'[g] = yt' - OldYt /\ OldYt + Sold'[g] <= yt'
        BY <2>2, <2>5, <3>1, <3>2
      <4> QED  BY <2>5, <4>1
    <3>3. CASE Sold[g] # 0
      <4>1. Sold[f] = 0
        BY <1>1, <1>7, <3>1, <3>3, OnlyOneSells DEF Running
      <4>2. OldYt + Sold[g] <= yt /\ Pay(Late, Sold, yt - OldYt - Sold[g])
        BY <1>7, <3>1 DEF SalesArePaid
      <4>3. /\ yt - OldYt - Sold[g] \in Nat
            /\ yt - OldYt - Sold[g] + Sold[f] = yt' - OldYt - Sold'[g] /\ OldYt + Sold'[g] <= yt'
        BY <2>2, <3>1, <4>1, <4>2
      <4> QED  BY <2>3, <4>2, <4>3
    <3> QED  BY <3>2, <3>3
  <2> QED  BY <2>4, <2>5, <2>6, <2>7 DEF SalesArePaid, Flows
<1> QED  BY <1>1, <1>5, <1>7 DEF FlowInv

\* What was reported as failed lands after all, or never.
LEMMA LateKeepsInv ==
  ASSUME FlowInv, NEW f \in Flows, LandsLate(f)
  PROVE  FlowInv'
<1> DEFINE s == [flow[f] EXCEPT !.status = "error"]
           c == flow[f].call
<1>1. /\ FlowsTyped /\ UNCHANGED <<known, overlapped>> /\ flow[f].status = "unknown"
      /\ Becomes(f, s) /\ FlowTyped(flow[f]) /\ (Lands(c) \/ UNCHANGED chain)
  BY DEF FlowInv, LandsLate, FlowsTyped
<1>2. /\ DOMAIN s = DOMAIN flow[f] /\ s.mode = flow[f].mode /\ s.status = "error"
      /\ s.seen = flow[f].seen /\ s.deposit = flow[f].deposit /\ s.call = c
  BY <1>1 DEF FlowTyped
<1> HIDE DEF s
<1>3. FlowTyped(s) /\ ~Running(s)
  BY <1>1, <1>2 DEF FlowTyped, Running
<1>4. c \in Calls /\ Sold[f] = Takes(c) /\ Sold \in [Flows -> Nat]
  BY <1>1, SoldInNat DEF FlowTyped, Sold
<1>5. BalancesTyped' /\ rate' = rate /\ yt - Sold[f] <= yt'
  <2>1. CASE Lands(c)
    BY <1>1, <1>4, <2>1, LandingTakes
  <2>2. CASE UNCHANGED chain
    <3>1. yt \in Nat /\ Sold[f] \in Nat
      BY <1>1, <1>4 DEF FlowsTyped, BalancesTyped
    <3> QED  BY <1>1, <2>2, <3>1 DEF chain, FlowsTyped, BalancesTyped
  <2> QED  BY <1>1, <2>1, <2>2
<1>6. /\ FlowsTyped' /\ flow'[f] = s /\ \A g \in Flows \ {f} : flow'[g] = flow[g]
      /\ \A g \in Flows \ {f} : Sold'[g] = Sold[g] /\ (Sells(g)' <=> Sells(g))
      /\ Sold'[f] = Sold[f] /\ ~Sells(f)' /\ Late' = Late \ {f}
  <2>1. known' \in [rate : Nat \ {0}, position : Nat] /\ rate' \in Nat \ {0}
    BY <1>1, <1>5 DEF FlowsTyped
  <2> QED  BY <1>1, <1>2, <1>3, <1>4, <1>5, <2>1, MovesTyped
<1>7. ASSUME SalesArePaid
      PROVE  SalesArePaid'
  <2>1. f \in Late /\ Late \subseteq Flows /\ \A g \in Flows : Sold'[g] = Sold[g]
    BY <1>1, <1>6 DEF Late
  <2>2. OldYt \in Nat /\ yt \in Nat /\ yt' \in Nat /\ \A g \in Flows : Sold[g] \in Nat
    BY <1>1, <1>4, <1>5, FlowAssumption DEF FlowsTyped, BalancesTyped
  <2>3. ASSUME NEW n \in Nat, NEW m \in Nat, Pay(Late, Sold, n), n - Sold[f] <= m
        PROVE  Sold[f] <= n /\ Pay(Late', Sold', m)
    <3>1. Sold[f] <= n /\ Pay(Late \ {f}, Sold, n - Sold[f])
      BY <1>4, <2>1, <2>3, PayOneLess
    <3>2. n - Sold[f] \in Nat /\ \A g \in Late \ {f} : Sold'[g] = Sold[g]
      BY <2>1, <2>2, <3>1
    <3>3. Pay(Late \ {f}, Sold', m)
      BY <2>3, <3>1, <3>2, PayMore
    <3> QED  BY <1>6, <3>1, <3>3
  <2>4. \A g, h \in Flows : Sells(g)' /\ Sells(h)' => g = h
    BY <1>6, <1>7 DEF SalesArePaid
  <2>5. ASSUME NEW o \in Nat, OldYt <= o, o <= yt, Pay(Late, Sold, yt - o)
        PROVE  o <= yt' /\ Pay(Late', Sold', yt' - o)
    <3>1. yt - o \in Nat /\ Sold[f] \in Nat
      BY <2>2, <2>5
    <3>2. Sold[f] <= yt - o
      <4>1. yt - o - Sold[f] <= yt - o
        BY <3>1
      <4> QED  BY <2>3, <2>5, <3>1, <4>1
    <3> DEFINE t == Sold[f]
    <3>3. t \in Nat /\ yt - t <= yt' /\ o + t <= yt
      BY <1>5, <2>2, <2>5, <3>1, <3>2
    <3> HIDE DEF t
    <3>4. o <= yt' /\ yt' - o \in Nat /\ yt - o - t <= yt' - o
      BY <2>2, <2>5, <3>3, LeftOver
    <3>5. yt - o - Sold[f] <= yt' - o
      BY <3>4 DEF t
    <3> QED  BY <2>3, <2>5, <3>1, <3>4, <3>5
  <2>6. OldYt <= yt' /\ Pay(Late', Sold', yt' - OldYt)
    <3>1. OldYt <= yt /\ Pay(Late, Sold, yt - OldYt) /\ OldYt <= OldYt
      BY <1>7, <2>2 DEF SalesArePaid
    <3> QED  BY <2>2, <2>5, <3>1
  <2>7. ASSUME NEW g \in Flows, Sells(g)', flow'[g].status # "read"
        PROVE  OldYt <= flow'[g].seen.yt /\ Pay(Late', Sold', flow'[g].seen.yt - OldYt)
    <3>1. g # f /\ flow'[g] = flow[g] /\ Sells(g)
      BY <1>6, <2>7
    <3>2. OldYt <= flow[g].seen.yt /\ Pay(Late, Sold, flow[g].seen.yt - OldYt)
      BY <1>7, <2>7, <3>1 DEF SalesArePaid
    <3>3. flow[g].seen.yt \in Nat
      BY <1>1 DEF FlowsTyped, FlowTyped
    <3>4. flow[g].seen.yt - OldYt \in Nat
      BY <2>2, <3>2, <3>3
    <3>5. flow[g].seen.yt - OldYt - Sold[f] <= flow[g].seen.yt - OldYt
      BY <2>2, <3>4
    <3> QED  BY <2>3, <3>1, <3>2, <3>4, <3>5
  <2>8. ASSUME NEW g \in Flows, flow'[g].status = "submit"
        PROVE  OldYt + Sold'[g] <= yt' /\ Pay(Late', Sold', yt' - OldYt - Sold'[g])
    <3>1. g # f /\ flow[g].status = "submit" /\ Sold'[g] = Sold[g] /\ Sold[g] \in Nat
      BY <1>2, <1>6, <2>1, <2>2, <2>8
    <3> DEFINE o == OldYt + Sold[g]
    <3>2. o <= yt /\ Pay(Late, Sold, yt - OldYt - Sold[g])
      BY <1>7, <3>1 DEF SalesArePaid
    <3>3. o \in Nat /\ OldYt <= o /\ yt - OldYt - Sold[g] = yt - o /\ yt' - OldYt - Sold'[g] = yt' - o
      BY <2>2, <3>1
    <3> HIDE DEF o
    <3>4. o <= yt' /\ Pay(Late', Sold', yt' - o)
      BY <2>5, <3>2, <3>3
    <3> QED  BY <3>1, <3>3, <3>4 DEF o
  <2> QED  BY <2>4, <2>6, <2>7, <2>8 DEF SalesArePaid, Flows
<1> QED  BY <1>1, <1>6, <1>7 DEF FlowInv

\* The wrapper's rate moves, or the page reads.
LEMMA ElsewhereKeepsInv ==
  ASSUME FlowInv, UNCHANGED <<flow, overlapped, yt>>, FlowsTyped'
  PROVE  FlowInv'
<1>1. Late' = Late /\ Sold' = Sold /\ \A f \in Flows : Sells(f)' <=> Sells(f)
  BY DEF Late, Sold, Sells, Running, Flows
<1> QED  BY <1>1 DEF FlowInv, SalesArePaid, Flows

LEMMA FlowStep ==
  ASSUME FlowInv, [Next]_vars
  PROVE  FlowInv'
<1>1. FlowsTyped
  BY DEF FlowInv
<1>2. CASE RateMoves
  <2>1. FlowsTyped'
    BY <1>1, <1>2, FlowAssumption
    DEF RateMoves, FlowsTyped, BalancesTyped, FlowTyped, Flows, Calls, Steps, Running
  <2> QED  BY <1>2, <2>1, ElsewhereKeepsInv DEF RateMoves
<1>3. CASE PageReads \/ UNCHANGED vars
  <2>1. UNCHANGED <<chain, flow, overlapped>> /\ known' \in {known, [rate |-> rate, position |-> position]}
    BY <1>3 DEF PageReads, vars
  <2>2. known' \in [rate : Nat \ {0}, position : Nat]
    BY <1>1, <2>1 DEF FlowsTyped, BalancesTyped
  <2>3. FlowsTyped'
    BY <1>1, <2>1, <2>2 DEF chain, FlowsTyped, BalancesTyped, FlowTyped, Flows, Calls, Steps, Running
  <2> QED  BY <2>1, <2>3, ElsewhereKeepsInv DEF chain
<1> QED
  BY <1>2, <1>3, BeginKeepsInv, ReadKeepsInv, BuildKeepsInv, GiveUpKeepsInv, SubmitKeepsInv,
     UnknownKeepsInv, LateKeepsInv
  DEF Next

\* Whatever lands late, however many flows have failed and whatever else mints
\* beside it, a flow that sells "the newly minted YT" leaves the wallet all it
\* had before, as long as no other such flow runs with it (SaleAmount).
THEOREM OldYtIsKept == Spec => []KeepsOldYt
<1>1. FlowInv => KeepsOldYt
  BY DEF FlowInv, SalesArePaid, KeepsOldYt
<1> QED  BY <1>1, FlowInit, FlowStep, PTL DEF Spec

-----------------------------------------------------------------------------
(* The demo.  The slot is what keeps two children apart, since a child     *)
(* that has started is the active task until .finally lets go of it.       *)

PageTyped(s) ==
  /\ DOMAIN s = {"at", "doing", "near", "offset", "log"}
  /\ s.at \in {1, 2} /\ s.offset \in 0 .. Buffer /\ s.log \in Seq(Nat \X Nat)

\* The pieces of the current run that have been written, in their order.
Logged(log, n) == Len(log) = n /\ \A i \in 1 .. n : log[i] = <<runs, i>>

\* A page that waits for its own run has logged what it has taken note of.
LogFits(p, s) ==
  s.doing = "waiting" /\ runs # 0 /\ owner[runs].by = p /\ written <= Buffer =>
    s.offset <= written /\ Logged(s.log, s.offset)

Rises(log) == \A j \in 1 .. Len(log) : \A i \in 1 .. j - 1 : Precedes(log[i], log[j])

\* What is logged of the current run has been taken note of: a full buffer has
\* nothing after the offset, and one that is not begins with the first piece.
Covered(s) ==
  \A j \in 1 .. Len(s.log) :
    /\ s.log[j][1] <= runs
    /\ s.doing = "waiting" /\ s.log[j][1] = runs =>
         s.offset <= written /\ (s.offset < Buffer => s.log[j][2] <= s.offset)

PageInv(p, s) ==
  /\ PageTyped(s) /\ LogFits(p, s) /\ Rises(s.log) /\ Covered(s)
  /\ s.doing = "next" => active = 0 \/ owner[active].by # p

ServerInv ==
  /\ runs \in Nat /\ written \in Nat
  /\ DOMAIN child = Runs /\ DOMAIN owner = Runs
  /\ active \in {0, runs} /\ result \in {0, runs}
  /\ \A r \in Runs : child[r] \notin {"none", "over"} => r = active

DemoInv ==
  /\ ServerInv /\ DOMAIN page = Pages
  /\ \A p \in Pages : PageInv(p, page[p])

\* Only page p turns, into something the invariant allows.
OnlyPageTurns(p) ==
  /\ UNCHANGED server /\ DOMAIN page' = Pages
  /\ \A q \in Pages \ {p} : page'[q] = page[q]

LEMMA NothingLogged ==
  Rises(<<>>) /\ \A s : s.log = <<>> => Covered(s)
<1>1. ASSUME NEW s, s.log = <<>>
      PROVE  Covered(s)
  <2>1. Len(s.log) = 0
    BY <1>1
  <2> QED  BY <2>1 DEF Covered
<1> QED  BY <1>1 DEF Rises

LEMMA LoadedFits == \A p \in Pages : PageInv(p, Loaded)
<1>1. /\ DOMAIN Loaded = {"at", "doing", "near", "offset", "log"}
      /\ Loaded.at = 1 /\ Loaded.offset = 0 /\ Loaded.log = <<>> /\ Loaded.doing = "checking"
  BY DEF Loaded
<1>2. <<>> \in Seq(Nat \X Nat) /\ Len(<<>>) = 0 /\ 0 \in 0 .. Buffer
  BY EmptySeq, DemoAssumption
<1> QED  BY <1>1, <1>2 DEF PageInv, PageTyped, LogFits, Rises, Covered

LEMMA PageKeepsInv ==
  ASSUME DemoInv, NEW p \in Pages, OnlyPageTurns(p), PageInv(p, page'[p])
  PROVE  DemoInv'
<1>1. ServerInv'
  BY DEF DemoInv, ServerInv, OnlyPageTurns, server, Runs
<1>2. ASSUME NEW q \in Pages
      PROVE  PageInv(q, page[q])'
  <2>1. PageInv(q, page'[q])
    <3>1. CASE q = p
      BY <3>1
    <3>2. CASE q # p
      BY <3>2 DEF OnlyPageTurns, DemoInv
    <3> QED  BY <3>1, <3>2
  <2> QED  BY <2>1 DEF OnlyPageTurns, server, PageInv, LogFits, Logged, Covered, PageTyped
<1> QED  BY <1>1, <1>2 DEF DemoInv, OnlyPageTurns

\* The buffer holds the last pieces, at most Buffer of them.
Kept == IF written < Buffer THEN written ELSE Buffer

LEMMA OutputIsTheTail ==
  ASSUME written \in Nat
  PROVE  /\ Kept \in Nat /\ Kept <= written /\ Kept <= Buffer /\ (Kept < Buffer => Kept = written)
         /\ Output \in Seq(Nat) /\ Len(Output) = Kept
         /\ \A i \in 1 .. Kept : Output[i] = written - Kept + i
<1> DEFINE value == [i \in 1 .. Kept |-> written - Kept + i]
<1>1. Kept \in Nat /\ Kept <= written /\ Kept <= Buffer /\ (Kept < Buffer => Kept = written)
  BY DemoAssumption DEF Kept
<1>2. \A i \in 1 .. Kept : written - Kept + i \in Nat
  BY <1>1
<1>3. value \in [1 .. Kept -> Nat] /\ \A i \in 1 .. Kept : value[i] = written - Kept + i
  BY <1>2
<1>4. Output = value
  BY DEF Output, Kept
<1> HIDE DEF value
<1>5. value \in Seq(Nat)
  BY <1>1, <1>3, SeqDef
<1>6. Len(value) = Kept
  BY <1>1, <1>3, <1>5, LenProperties
<1> QED  BY <1>1, <1>3, <1>4, <1>5, <1>6

\* The first piece of the buffer that a page takes as new, less one.
From(offset) == IF offset > Kept THEN 0 ELSE offset

LEMMA ChunkIsTheRest ==
  ASSUME written \in Nat, NEW offset \in Nat
  PROVE  LET new == Chunk(Output, offset) IN
         /\ new \in Seq(Nat) /\ From(offset) \in Nat /\ From(offset) <= Kept
         /\ Len(new) = Kept - From(offset)
         /\ \A i \in 1 .. Len(new) : new[i] = written - Kept + From(offset) + i
<1>1. /\ Output \in Seq(Nat) /\ Len(Output) = Kept /\ Kept \in Nat
      /\ \A i \in 1 .. Kept : Output[i] = written - Kept + i /\ Output[i] \in Nat
  <2>1. \A i \in 1 .. Len(Output) : Output[i] \in Nat
    BY OutputIsTheTail, LenProperties
  <2> QED  BY <2>1, OutputIsTheTail
<1>2. CASE offset > Kept
  BY <1>1, <1>2 DEF Chunk, From
<1>3. CASE ~(offset > Kept)
  <2> DEFINE rest == SubSeq(Output, offset + 1, Kept)
  <2>1. Chunk(Output, offset) = rest
    BY <1>1, <1>3 DEF Chunk
  <2>2. \A i \in offset + 1 .. Kept : Output[i] \in Nat
    BY <1>1
  <2>3. /\ rest \in Seq(Nat)
        /\ Len(rest) = IF offset + 1 <= Kept THEN Kept - (offset + 1) + 1 ELSE 0
        /\ \A i \in 1 .. Kept - (offset + 1) + 1 : rest[i] = Output[offset + 1 + i - 1]
    <3>1. Kept \in Int /\ offset + 1 \in Int
      BY <1>1
    <3> QED  BY <2>2, <3>1, SubSeqProperties
  <2> HIDE DEF rest
  <2>4. Len(rest) = Kept - offset
    BY <1>1, <1>3, <2>3
  <2>5. \A i \in 1 .. Len(rest) : rest[i] = written - Kept + offset + i
    <3>1. SUFFICES ASSUME NEW i \in 1 .. Kept - offset
                   PROVE  rest[i] = written - Kept + offset + i
      BY <2>4
    <3>2. rest[i] = Output[offset + i] /\ offset + i \in 1 .. Kept
      BY <1>1, <1>3, <2>3
    <3> QED  BY <1>1, <3>2
  <2> QED  BY <1>1, <1>3, <2>1, <2>3, <2>4, <2>5 DEF From
<1> QED  BY <1>1, <1>2, <1>3

\* What is new to a page that logged pieces of this run comes after all of them.
LEMMA NewIsLater ==
  ASSUME written \in Nat, NEW offset \in 0 .. Buffer, NEW old \in Nat,
         offset <= written, offset < Buffer => old <= offset,
         NEW i \in 1 .. Kept - From(offset)
  PROVE  old < written - Kept + From(offset) + i
<1>1. Kept \in Nat /\ Kept <= written /\ Kept <= Buffer /\ (Kept < Buffer => Kept = written)
  BY OutputIsTheTail
<1>2. Buffer \in Nat
  BY DemoAssumption
<1> QED  BY <1>1, <1>2 DEF From

\* A page logs what a status says of the current run.
LEMMA AppendsWhatIsNew ==
  ASSUME written \in Nat, runs \in Nat, NEW p \in Pages, NEW s, s.doing = "waiting", PageInv(p, s),
         NEW reply, reply.output = Output, reply.run = runs
  PROVE  LET t == appendStreamOutput(s, reply) IN
         /\ PageTyped(t) /\ t.doing = s.doing /\ t.at = s.at
         /\ Rises(t.log) /\ Covered(t)
         /\ runs # 0 /\ owner[runs].by = p /\ written <= Buffer =>
              t.offset = written /\ Logged(t.log, written)
<1> DEFINE new == Chunk(reply.output, s.offset)
           lines == [i \in DOMAIN new |-> <<reply.run, new[i]>>]
           log == s.log \o lines
           n == Len(s.log)
           base == From(s.offset)
           t == appendStreamOutput(s, reply)
<1>1. /\ Kept \in Nat /\ Kept <= written /\ Kept <= Buffer /\ (Kept < Buffer => Kept = written)
      /\ Len(Output) = Kept /\ Buffer \in Nat
  BY OutputIsTheTail, DemoAssumption
<1>2. /\ s.offset \in Nat /\ s.offset \in 0 .. Buffer /\ s.log \in Seq(Nat \X Nat) /\ n \in Nat
      /\ \A i \in 1 .. n : s.log[i] \in Nat \X Nat
  BY <1>1, LenProperties DEF PageInv, PageTyped
<1>3. /\ new \in Seq(Nat) /\ base \in Nat /\ base <= Kept /\ Len(new) = Kept - base
      /\ \A i \in 1 .. Len(new) : new[i] = written - Kept + base + i
  BY <1>2, ChunkIsTheRest
<1>4. Len(new) \in Nat /\ new \in [1 .. Len(new) -> Nat] /\ DOMAIN new = 1 .. Len(new)
  BY <1>3, LenProperties
<1> HIDE DEF new
<1>5. /\ lines \in [1 .. Len(new) -> Nat \X Nat]
      /\ \A i \in 1 .. Len(new) : lines[i] = <<runs, new[i]>>
  BY <1>4
<1> HIDE DEF lines, base
<1>6. lines \in Seq(Nat \X Nat) /\ Len(lines) = Kept - base
  <2>1. lines \in Seq(Nat \X Nat)
    BY <1>4, <1>5, SeqDef
  <2>2. Len(lines) = Len(new)
    BY <1>4, <1>5, <2>1, LenProperties
  <2> QED  BY <1>3, <2>1, <2>2
<1>7. /\ log \in Seq(Nat \X Nat) /\ Len(log) = n + (Kept - base)
      /\ \A i \in 1 .. n + (Kept - base) : log[i] = IF i <= n THEN s.log[i] ELSE lines[i - n]
  <2>1. /\ log \in Seq(Nat \X Nat) /\ Len(log) = n + Len(lines)
        /\ \A i \in 1 .. n + Len(lines) : log[i] = IF i <= n THEN s.log[i] ELSE lines[i - n]
    BY <1>2, <1>6, ConcatProperties
  <2> HIDE DEF log, n
  <2> QED  BY <1>6, <2>1
<1>8. t = [s EXCEPT !.log = @ \o lines, !.offset = Len(reply.output)]
  BY DEF appendStreamOutput, lines, new
<1> HIDE DEF log, n
<1>9. /\ DOMAIN t = DOMAIN s /\ t.log = log /\ t.offset = Kept
      /\ t.doing = s.doing /\ t.at = s.at
  BY <1>1, <1>8 DEF PageInv, PageTyped, log
<1> HIDE DEF t
<1>10. PageTyped(t)
  BY <1>1, <1>7, <1>9 DEF PageInv, PageTyped
<1>11. /\ \A i \in 1 .. n : log[i] = s.log[i]
       /\ \A i \in 1 .. Kept - base :
            log[n + i] = <<runs, written - Kept + base + i>>
  <2>1. \A i \in 1 .. n : log[i] = s.log[i]
    <3>1. n \in Nat
      BY <1>2 DEF n
    <3> QED  BY <1>1, <1>3, <1>7, <3>1
  <2>2. ASSUME NEW i \in 1 .. Kept - base
        PROVE  log[n + i] = <<runs, written - Kept + base + i>>
    <3>1. n \in Nat
      BY <1>2 DEF n
    <3>2. n + i \in 1 .. n + (Kept - base) /\ ~(n + i <= n) /\ (n + i) - n = i
      BY <1>1, <1>3, <3>1
    <3>3. log[n + i] = lines[i]
      BY <1>7, <3>2
    <3> QED  BY <1>3, <1>5, <3>3
  <2> QED  BY <2>1, <2>2
<1>12. n \in Nat /\ Len(log) = n + (Kept - base) /\ base \in Nat /\ base <= Kept
  BY <1>2, <1>3, <1>7 DEF n
<1>13. ASSUME NEW i \in 1 .. n
       PROVE  /\ log[i] = s.log[i] /\ log[i][1] \in Nat /\ log[i][2] \in Nat
              /\ log[i][1] <= runs
              /\ log[i][1] = runs =>
                   s.offset <= written /\ (s.offset < Buffer => log[i][2] <= s.offset)
  <2>1. log[i] = s.log[i] /\ s.log[i] \in Nat \X Nat
    BY <1>2, <1>11 DEF n
  <2> QED  BY <2>1 DEF PageInv, Covered, n
<1>14. ASSUME NEW j \in 1 .. Len(log)
       PROVE  j \in 1 .. n \/ \E i \in 1 .. Kept - base : j = n + i
  <2>1. CASE j <= n
    BY <1>12, <2>1
  <2>2. CASE ~(j <= n)
    <3>1. j - n \in 1 .. Kept - base /\ j = n + (j - n)
      BY <1>1, <1>12, <2>2
    <3> QED  BY <3>1
  <2> QED  BY <2>1, <2>2
<1>15. Rises(log)
  <2>1. SUFFICES ASSUME NEW j \in 1 .. Len(log), NEW i \in 1 .. j - 1
                 PROVE  Precedes(log[i], log[j])
    BY DEF Rises
  <2>2. CASE j \in 1 .. n
    <3>1. i \in 1 .. n /\ log[i] = s.log[i] /\ log[j] = s.log[j]
      BY <1>11, <1>12, <2>2
    <3> QED  BY <2>2, <3>1 DEF PageInv, Rises, n
  <2>3. ASSUME NEW k \in 1 .. Kept - base, j = n + k
        PROVE  Precedes(log[i], log[j])
    <3>1. log[j] = <<runs, written - Kept + base + k>>
      BY <1>11, <2>3
    <3>2. i \in 1 .. Len(log)
      BY <1>12, <2>3
    <3>3. CASE i \in 1 .. n
      <4>1. CASE log[i][1] = runs
        <5>1. log[i][2] < written - Kept + base + k
          BY <1>2, <1>13, <3>3, <4>1, NewIsLater DEF base
        <5> QED  BY <3>1, <4>1, <5>1 DEF Precedes
      <4>2. CASE log[i][1] # runs
        BY <1>13, <3>1, <3>3, <4>2 DEF Precedes
      <4> QED  BY <4>1, <4>2
    <3>4. ASSUME NEW h \in 1 .. Kept - base, i = n + h
          PROVE  Precedes(log[i], log[j])
      <4>1. log[i] = <<runs, written - Kept + base + h>>
        BY <1>11, <3>4
      <4>2. h < k
        BY <1>12, <2>3, <3>4
      <4>3. written - Kept + base + h < written - Kept + base + k
        BY <1>1, <1>12, <4>2
      <4> QED  BY <3>1, <4>1, <4>3 DEF Precedes
    <3> QED  BY <1>14, <3>2, <3>3, <3>4
  <2> QED  BY <1>14, <2>2, <2>3
<1>16. Covered(t)
  <2>1. SUFFICES ASSUME NEW j \in 1 .. Len(log)
                 PROVE  /\ log[j][1] <= runs
                        /\ log[j][1] = runs =>
                             Kept <= written /\ (Kept < Buffer => log[j][2] <= Kept)
    BY <1>9 DEF Covered
  <2>2. CASE j \in 1 .. n
    BY <1>1, <1>2, <1>13, <2>2
  <2>3. ASSUME NEW i \in 1 .. Kept - base, j = n + i
        PROVE  /\ log[j][1] <= runs
               /\ log[j][1] = runs =>
                    Kept <= written /\ (Kept < Buffer => log[j][2] <= Kept)
    <3>1. log[j] = <<runs, written - Kept + base + i>>
      BY <1>11, <2>3
    <3>2. written - Kept + base + i <= written
      BY <1>1, <1>12
    <3> QED  BY <1>1, <3>1, <3>2
  <2> QED  BY <1>14, <2>2, <2>3
<1>17. ASSUME runs # 0, owner[runs].by = p, written <= Buffer
       PROVE  Kept = written /\ Logged(log, written)
  <2>1. Kept = written /\ s.offset <= written /\ n = s.offset /\ base = s.offset
        /\ \A i \in 1 .. n : s.log[i] = <<runs, i>>
    BY <1>1, <1>2, <1>17 DEF PageInv, LogFits, Logged, From, base, n
  <2>2. Len(log) = written
    BY <1>2, <1>12, <2>1
  <2>3. ASSUME NEW j \in 1 .. written
        PROVE  log[j] = <<runs, j>>
    <3>1. CASE j \in 1 .. n
      BY <1>11, <2>1, <3>1
    <3>2. ASSUME NEW i \in 1 .. Kept - base, j = n + i
          PROVE  log[j] = <<runs, j>>
      <4>1. log[j] = <<runs, written - Kept + base + i>>
        BY <1>11, <3>2
      <4>2. written - Kept + base + i = j
        BY <1>1, <1>2, <2>1, <3>2
      <4> QED  BY <4>1, <4>2
    <3> QED  BY <1>14, <2>2, <3>1, <3>2
  <2> QED  BY <2>1, <2>2, <2>3 DEF Logged
<1> QED  BY <1>9, <1>10, <1>15, <1>16, <1>17 DEF t

\* What a step of page p may do to it.
PageStep(p) == Detect(p) \/ runAll(p) \/ MaturityNears(p) \/ Poll(p) \/ PageGivesUp(p) \/ Reload(p)

LEMMA OnlyDoingTurns ==
  ASSUME DemoInv, NEW p \in Pages, NEW doing, Turns(p, doing), UNCHANGED server,
         doing \notin {"waiting", "next"}
  PROVE  DemoInv' /\ OnlyPageTurns(p) /\ page'[p].doing = doing
<1>1. DOMAIN page = Pages /\ PageTyped(page[p])
  BY DEF DemoInv, PageInv
<1>2. OnlyPageTurns(p)
  BY <1>1 DEF Turns, OnlyPageTurns
<1>3. /\ DOMAIN page'[p] = DOMAIN page[p] /\ page'[p].doing = doing
      /\ page'[p].at = page[p].at /\ page'[p].offset = page[p].offset
      /\ page'[p].log = page[p].log
  BY <1>1 DEF Turns, PageTyped
<1> DEFINE s == page[p]
           t == page'[p]
<1> HIDE DEF s, t
<1>4. PageInv(p, t)
  <2>1. PageInv(p, s) /\ PageTyped(s)
    BY <1>1 DEF DemoInv, s
  <2>2. /\ DOMAIN t = DOMAIN s /\ t.doing = doing
        /\ t.at = s.at /\ t.offset = s.offset /\ t.log = s.log
    BY <1>3 DEF s, t
  <2> QED  BY <2>1, <2>2 DEF PageInv, PageTyped, LogFits, Covered
<1> QED  BY <1>2, <1>3, <1>4, PageKeepsInv DEF t

\* A run starts: no child has the slot, and the page starts a log of its own.
LEMMA StartsKeepsInv ==
  ASSUME DemoInv, NEW p \in Pages, NEW told, told # "next", Starts(p, told), active = 0
  PROVE  DemoInv' /\ page'[p].doing = told
<1> DEFINE s == page'[p]
<1>1. ServerInv /\ DOMAIN page = Pages /\ PageTyped(page[p])
  BY DEF DemoInv, PageInv
<1>2. runs' = runs + 1 /\ runs' \in Runs
  BY <1>1, DemoAssumption DEF Starts, ServerInv, Runs
<1>3. /\ active' = runs' /\ result' = 0 /\ written' = 0
      /\ child' = [child EXCEPT ![runs'] = "running"]
      /\ owner' = [r \in Runs |-> IF r = runs' THEN [by |-> p, task |-> Task(p)] ELSE NoOwner]
  BY DEF Starts
<1>4. owner'[runs'].by = p
  BY <1>2, <1>3
<1>5. /\ DOMAIN s = DOMAIN page[p] /\ s.at = page[p].at /\ s.doing = told
      /\ s.offset = 0 /\ s.log = <<>>
  BY <1>1 DEF Starts, PageTyped
<1>6. DOMAIN page' = Pages /\ \A q \in Pages \ {p} : page'[q] = page[q]
  BY <1>1 DEF Starts
<1>7. ServerInv'
  <2>1. \A r \in Runs : child[r] \in {"none", "over"}
    BY <1>1, <1>2 DEF ServerInv, Runs
  <2>2. \A r \in Runs : child'[r] \notin {"none", "over"} => r = active'
    BY <1>1, <1>2, <1>3, <2>1 DEF ServerInv
  <2>3. DOMAIN child' = Runs /\ DOMAIN owner' = Runs
    BY <1>1, <1>3 DEF ServerInv
  <2> QED  BY <1>1, <1>2, <1>3, <2>2, <2>3 DEF ServerInv, Runs
<1> HIDE DEF s
<1>8. PageInv(p, page[p])'
  <2>1. <<>> \in Seq(Nat \X Nat) /\ Len(<<>>) = 0
    BY EmptySeq
  <2>2. s.at \in {1, 2} /\ DOMAIN s = {"at", "doing", "near", "offset", "log"}
    BY <1>1, <1>5 DEF PageTyped
  <2>3. PageTyped(s)
    BY <1>5, <2>1, <2>2, DemoAssumption DEF PageTyped
  <2>4. s.doing # "next" /\ Len(s.log) = s.offset /\ s.offset <= written'
    BY <1>3, <1>5, <2>1
  <2>5. s.log = <<>>
    BY <1>5
  <2>6. PageTyped(s) /\ s.doing # "next" /\ Len(s.log) = 0 /\ s.offset = 0
    BY <1>5, <2>1, <2>3, <2>4 DEF s
  <2>7. PageTyped(page[p])' /\ (page[p].doing # "next")' /\ (Len(page[p].log) = 0)'
        /\ (page[p].offset = 0)'
    BY <2>6 DEF s, PageTyped
  <2>8. LogFits(p, page[p])'
    BY <1>1, <1>3, <2>7 DEF LogFits, Logged
  <2>9. Rises(page[p].log)' /\ Covered(page[p])'
    BY <2>7 DEF Rises, Covered
  <2> QED  BY <2>7, <2>8, <2>9 DEF PageInv
<1>9. ASSUME NEW q \in Pages, q # p
      PROVE  PageInv(q, page[q])'
  <2>1. PageInv(q, page[q])
    BY DEF DemoInv
  <2>2. page'[q] = page[q] /\ owner'[runs'].by # q /\ owner'[active'].by # q
    BY <1>3, <1>4, <1>6, <1>9
  <2>3. PageTyped(page[q]) /\ LogFits(q, page[q])' /\ Rises(page[q].log)
    BY <2>1, <2>2 DEF PageInv, LogFits
  <2>4. Covered(page[q])'
    <3> DEFINE old == page[q]
    <3>1. \A j \in 1 .. Len(old.log) : old.log[j][1] <= runs
      BY <2>1 DEF PageInv, Covered
    <3>2. \A j \in 1 .. Len(old.log) : old.log[j][1] \in Nat
      BY <2>3, LenProperties DEF PageTyped
    <3>3. \A j \in 1 .. Len(old.log) : old.log[j][1] <= runs' /\ old.log[j][1] # runs'
      BY <1>1, <1>2, <3>1, <3>2 DEF ServerInv
    <3>4. old' = old
      BY <2>2
    <3> QED  BY <3>3, <3>4 DEF Covered
  <2> QED  BY <2>2, <2>3, <2>4 DEF PageInv, PageTyped
<1> QED  BY <1>5, <1>6, <1>7, <1>8, <1>9 DEF DemoInv, s

\* A page polls.  Only a result of the run before takes it on, with the slot free.
LEMMA PollKeepsInv ==
  ASSUME DemoInv, NEW p \in Pages, Poll(p)
  PROVE  /\ DemoInv' /\ page'[p].doing # "refused"
         /\ page'[p].doing \in {"next", "passed"} /\ owner[GET.result.run].by = p
              /\ written <= Buffer => Logged(page'[p].log, written)
<1> DEFINE s == page[p]
<1>1. ServerInv /\ DOMAIN page = Pages /\ PageInv(p, s) /\ s.doing = "waiting"
  BY DEF DemoInv, Poll
<1>2. PageTyped(s) /\ Task(p) \in {"auth", "amm-routes"} /\ written \in Nat
  BY <1>1 DEF PageInv, PageTyped, Task, Tasks, ServerInv
<1>3. UNCHANGED server
  BY DEF Poll
<1>4. ASSUME PollActive(p)
      PROVE  DemoInv' /\ page'[p].doing = "waiting"
  <2> DEFINE t == appendStreamOutput(s, GET.active)
  <2>1. GET.active.task = Task(p) /\ page' = [page EXCEPT ![p] = t]
    BY <1>4 DEF PollActive
  <2>2. active # 0 /\ active = runs /\ runs \in Nat
    <3>1. Nothing.task = "none"
      BY DEF Nothing
    <3> QED  BY <1>1, <1>2, <2>1, <3>1 DEF GET, ServerInv
  <2>3. GET.active.output = Output /\ GET.active.run = runs
    BY <2>2 DEF GET, activeTaskStatus
  <2>4. /\ PageTyped(t) /\ t.doing = s.doing /\ t.at = s.at
        /\ Rises(t.log) /\ Covered(t)
        /\ runs # 0 /\ owner[runs].by = p /\ written <= Buffer =>
             t.offset = written /\ Logged(t.log, written)
    BY <1>1, <1>2, <2>2, <2>3, AppendsWhatIsNew
  <2> HIDE DEF t
  <2>5. PageInv(p, t)
    BY <1>1, <1>2, <2>4 DEF PageInv, LogFits
  <2>6. page'[p] = t /\ OnlyPageTurns(p)
    BY <1>1, <1>3, <2>1 DEF OnlyPageTurns
  <2> HIDE DEF s
  <2> QED  BY <1>1, <2>4, <2>5, <2>6, PageKeepsInv
<1>5. ASSUME PollResult(p)
      PROVE  /\ DemoInv' /\ page'[p].doing \in {"failed", "passed", "next"}
             /\ page'[p].doing \in {"next", "passed"} /\ owner[GET.result.run].by = p
                  /\ written <= Buffer => Logged(page'[p].log, written)
  <2> DEFINE told == GET.result
             t == appendStreamOutput(s, told)
             state == [t EXCEPT !.offset = 0]
  <2>1. /\ told.task = Task(p)
        /\ page' = [page EXCEPT ![p] =
             IF ~told.ok THEN [state EXCEPT !.doing = "failed", !.log = <<>>]
             ELSE IF s.at = Len(Tasks) THEN [state EXCEPT !.doing = "passed"]
             ELSE [state EXCEPT !.doing = "next", !.at = @ + 1]]
    BY <1>5 DEF PollResult
  <2>2. active = 0 /\ result # 0 /\ result = runs /\ runs \in Nat
    <3>1. Nothing.task = "none"
      BY DEF Nothing
    <3> QED  BY <1>1, <1>2, <2>1, <3>1 DEF GET, ServerInv
  <2>3. told.output = Output /\ told.run = runs
    BY <2>2 DEF GET, DemoResult
  <2>4. /\ PageTyped(t) /\ t.doing = s.doing /\ t.at = s.at
        /\ Rises(t.log) /\ Covered(t)
        /\ runs # 0 /\ owner[runs].by = p /\ written <= Buffer => Logged(t.log, written)
    BY <1>1, <1>2, <2>2, <2>3, AppendsWhatIsNew
  <2> HIDE DEF t, told
  <2>5. /\ DOMAIN state = {"at", "doing", "near", "offset", "log"} /\ state.log = t.log
        /\ state.offset = 0 /\ state.at \in {1, 2} /\ state.at = s.at
    BY <1>2, <2>4 DEF PageTyped
  <2> HIDE DEF state
  <2> DEFINE last == page'[p]
  <2>6. \/ last = [state EXCEPT !.doing = "failed", !.log = <<>>]
        \/ last = [state EXCEPT !.doing = "passed"]
        \/ s.at # Len(Tasks) /\ last = [state EXCEPT !.doing = "next", !.at = @ + 1]
    BY <1>1, <2>1
  <2>7. s.at \in {1, 2} /\ Len(Tasks) = 2
    BY <1>2 DEF PageTyped, Tasks
  <2>8. /\ DOMAIN last = {"at", "doing", "near", "offset", "log"}
        /\ last.offset = 0 /\ last.at \in {1, 2}
        /\ \/ last.doing = "failed" /\ last.log = <<>>
           \/ last.doing \in {"passed", "next"} /\ last.log = t.log
    <3> HIDE DEF s
    <3>2. CASE last = [state EXCEPT !.doing = "failed", !.log = <<>>]
      BY <2>5, <2>7, <3>2
    <3>3. CASE last = [state EXCEPT !.doing = "passed"]
      BY <2>5, <2>7, <3>3
    <3>4. CASE s.at # Len(Tasks) /\ last = [state EXCEPT !.doing = "next", !.at = @ + 1]
      BY <2>5, <2>7, <3>4
    <3> QED  BY <2>6, <3>2, <3>3, <3>4
  <2>9. OnlyPageTurns(p)
    BY <1>1, <1>3, <2>1 DEF OnlyPageTurns
  <2>10. <<>> \in Seq(Nat \X Nat) /\ Len(<<>>) = 0
    BY EmptySeq
  <2> HIDE DEF last
  <2>11. PageTyped(last) /\ Rises(last.log) /\ \A j \in 1 .. Len(last.log) : last.log[j][1] <= runs
    <3>1. CASE last.log = <<>>
      BY <2>8, <2>10, <3>1, DemoAssumption DEF PageTyped, Rises
    <3>2. CASE last.log = t.log
      BY <2>4, <2>8, <3>2, DemoAssumption DEF PageTyped, Covered
    <3> QED  BY <2>8, <3>1, <3>2
  <2>12. PageInv(p, last)
    BY <2>2, <2>8, <2>11 DEF PageInv, LogFits, Covered
  <2>13. DemoInv'
    BY <2>9, <2>12, PageKeepsInv DEF last
  <2>14. ASSUME last.doing \in {"next", "passed"}, owner[told.run].by = p, written <= Buffer
         PROVE  Logged(last.log, written)
    BY <2>2, <2>3, <2>4, <2>8, <2>14
  <2> QED  BY <2>8, <2>13, <2>14 DEF last, told
<1> QED  BY <1>4, <1>5 DEF Poll

\* The other steps of a page take it nowhere near a run.
LEMMA PageStepKeepsInv ==
  ASSUME DemoInv, NEW p \in Pages, PageStep(p)
  PROVE  /\ DemoInv' /\ \A q \in Pages \ {p} : page'[q] = page[q]
         /\ page[p].doing = "next" /\ page'[p].doing = "refused" => active # 0
         /\ page[p].doing = "waiting" /\ page'[p].doing \in {"next", "passed"}
              /\ owner[GET.result.run].by = p /\ written <= Buffer => Logged(page'[p].log, written)
<1> DEFINE s == page[p]
           t == page'[p]
<1>1. DOMAIN page = Pages /\ PageTyped(s) /\ PageInv(p, s)
  BY DEF DemoInv, PageInv
<1>2. CASE Detect(p)
  <2>1. PICK doing \in {"idle", "unavailable"} : Turns(p, doing) /\ UNCHANGED server
    BY <1>2 DEF Detect, detectDemoRunnerAvailable
  <2>2. DemoInv' /\ OnlyPageTurns(p) /\ t.doing = doing
    BY <2>1, OnlyDoingTurns
  <2> QED  BY <2>1, <2>2 DEF OnlyPageTurns
<1>3. CASE runAll(p)
  <2>1. POST(p) /\ s.doing # "waiting"
    BY <1>3 DEF runAll, RunButton
  <2>2. CASE Turns(p, Told.invalid) /\ UNCHANGED server
    <3>1. DemoInv' /\ OnlyPageTurns(p) /\ t.doing = "rejected"
      BY <2>2, OnlyDoingTurns DEF Told
    <3> QED  BY <2>1, <3>1 DEF OnlyPageTurns
  <2>3. CASE SlotTaken /\ Turns(p, Told.taken) /\ UNCHANGED server
    <3>1. DemoInv' /\ OnlyPageTurns(p) /\ t.doing = "refused" /\ active # 0
      BY <2>3, OnlyDoingTurns DEF Told, SlotTaken
    <3> QED  BY <2>1, <3>1 DEF OnlyPageTurns
  <2>4. CASE ~SlotTaken /\ (Starts(p, Told.started) \/ Starts(p, Told.lost))
    <3>1. PICK told \in {"waiting", "rejected"} : Starts(p, told) /\ active = 0
      BY <2>4 DEF Told, SlotTaken
    <3>2. DemoInv' /\ t.doing = told
      BY <3>1, StartsKeepsInv
    <3>3. \A q \in Pages \ {p} : page'[q] = page[q]
      BY <1>1, <3>1 DEF Starts
    <3> QED  BY <2>1, <3>1, <3>2, <3>3
  <2> QED  BY <2>1, <2>2, <2>3, <2>4 DEF POST
<1>4. CASE MaturityNears(p)
  <2>1. OnlyPageTurns(p)
    BY <1>1, <1>4 DEF MaturityNears, OnlyPageTurns
  <2>2. /\ DOMAIN t = DOMAIN s /\ t.at = s.at /\ t.doing = s.doing
        /\ t.offset = s.offset /\ t.log = s.log
    BY <1>1, <1>4 DEF MaturityNears, PageTyped
  <2> HIDE DEF s, t
  <2>3. PageInv(p, t)
    BY <1>1, <2>2 DEF PageInv, PageTyped, LogFits, Logged, Covered
  <2>4. DemoInv'
    BY <2>1, <2>3, PageKeepsInv DEF t
  <2> QED  BY <2>1, <2>2, <2>4 DEF OnlyPageTurns, s, t
<1>5. CASE Poll(p)
  <2>1. \A q \in Pages \ {p} : page'[q] = page[q]
    BY <1>1, <1>5 DEF Poll, PollResult, PollActive
  <2> QED  BY <1>5, <2>1, PollKeepsInv
<1>6. CASE PageGivesUp(p)
  <2>1. OnlyPageTurns(p)
    BY <1>1, <1>6 DEF PageGivesUp, OnlyPageTurns
  <2>2. DOMAIN t = DOMAIN s /\ t.at = s.at /\ t.doing = "gave up" /\ t.offset = 0 /\ t.log = <<>>
    BY <1>1, <1>6 DEF PageGivesUp, PageTyped
  <2>3. <<>> \in Seq(Nat \X Nat) /\ Len(<<>>) = 0 /\ 0 \in 0 .. Buffer
    BY EmptySeq, DemoAssumption
  <2> HIDE DEF s, t
  <2>4. PageInv(p, t)
    <3>1. PageTyped(t) /\ t.doing = "gave up"
      BY <1>1, <2>2, <2>3 DEF PageTyped
    <3>2. Rises(t.log)
      BY <2>2, NothingLogged
    <3>3. Covered(t)
      BY <2>2, NothingLogged
    <3> QED  BY <3>1, <3>2, <3>3 DEF PageInv, LogFits
  <2>5. DemoInv'
    BY <2>1, <2>4, PageKeepsInv DEF t
  <2> QED  BY <2>1, <2>2, <2>5 DEF OnlyPageTurns, t
<1>7. CASE Reload(p)
  <2>1. OnlyPageTurns(p) /\ t = Loaded
    BY <1>1, <1>7 DEF Reload, OnlyPageTurns
  <2>2. PageInv(p, Loaded) /\ Loaded.doing = "checking"
    BY LoadedFits DEF Loaded
  <2> QED  BY <2>1, <2>2, PageKeepsInv DEF OnlyPageTurns
<1> QED  BY <1>2, <1>3, <1>4, <1>5, <1>6, <1>7 DEF PageStep

\* The children and the callbacks: the slot is let go of only when its child is over.
LEMMA ServerKeepsInv ==
  ASSUME DemoInv, NEW r \in Runs, Writes(r) \/ Process(r)
  PROVE  DemoInv' /\ UNCHANGED page
<1>1. ServerInv /\ UNCHANGED <<runs, owner, page>>
  BY DEF DemoInv, Writes, Process, TimesOut, Closes, Records, Releases, Moves
<1>2. CASE Writes(r)
  <2>1. written' = written + 1 /\ UNCHANGED <<child, active, result>>
    BY <1>2 DEF Writes
  <2>2. ServerInv'
    BY <1>1, <2>1 DEF ServerInv, Runs
  <2>3. ASSUME NEW p \in Pages
        PROVE  PageInv(p, page[p])'
    <3> DEFINE s == page[p]
    <3>1. PageInv(p, s) /\ s' = s /\ s.offset \in Nat /\ written \in Nat
      BY <1>1 DEF DemoInv, PageInv, PageTyped, ServerInv
    <3>2. LogFits(p, s)'
      BY <1>1, <2>1, <3>1, DemoAssumption DEF PageInv, LogFits, Logged
    <3>3. Covered(s)'
      BY <1>1, <2>1, <3>1 DEF PageInv, Covered
    <3> QED  BY <1>1, <2>1, <3>1, <3>2, <3>3 DEF PageInv, PageTyped
  <2> QED  BY <1>1, <2>2, <2>3 DEF DemoInv
<1>3. CASE Process(r)
  <2>1. /\ child[r] \notin {"none", "over"} /\ UNCHANGED written
        /\ \E to \in {"killed", "closed", "recorded", "over"} :
             /\ child' = [child EXCEPT ![r] = to]
             /\ \/ to = "over" /\ active' = Released(r)
                \/ UNCHANGED active
        /\ result' \in {result, r}
    BY <1>3 DEF Process, TimesOut, Closes, Records, Releases, Moves
  <2>2. r = active /\ r = runs
    BY <1>1, <2>1 DEF ServerInv, Runs
  <2>3. active' \in {0, active} /\ (active' = 0 => child'[r] = "over")
    BY <1>1, <2>1, <2>2 DEF ServerInv, Released, Runs
  <2>4. DOMAIN child' = Runs /\ \A q \in Runs \ {r} : child'[q] = child[q]
    BY <1>1, <2>1 DEF ServerInv
  <2>5. ServerInv'
    <3>1. \A q \in Runs : child'[q] \notin {"none", "over"} => q = active'
      BY <1>1, <2>2, <2>3, <2>4 DEF ServerInv
    <3> QED  BY <1>1, <2>1, <2>2, <2>3, <2>4, <3>1 DEF ServerInv, Runs
  <2>6. ASSUME NEW p \in Pages
        PROVE  PageInv(p, page[p])'
    <3>1. PageInv(p, page[p])
      BY DEF DemoInv
    <3> QED  BY <1>1, <2>1, <2>3, <3>1 DEF PageInv, PageTyped, LogFits, Logged, Covered
  <2> QED  BY <1>1, <2>5, <2>6 DEF DemoInv
<1> QED  BY <1>1, <1>2, <1>3

LEMMA DemoStarts == DemoInit => DemoInv
<1> SUFFICES ASSUME DemoInit PROVE DemoInv
  OBVIOUS
<1>1. ServerInv
  BY DEF DemoInit, ServerInv, Runs
<1>2. \A p \in Pages : page[p] = Loaded
  BY DEF DemoInit
<1>3. \A p \in Pages : PageInv(p, Loaded)
  BY LoadedFits
<1> QED  BY <1>1, <1>2, <1>3 DEF DemoInit, DemoInv

LEMMA DemoStep ==
  ASSUME DemoInv, [DemoNext]_demoVars
  PROVE  DemoInv'
<1>1. CASE \E p \in Pages : PageStep(p)
  BY <1>1, PageStepKeepsInv
<1>2. CASE \E r \in Runs : Writes(r) \/ Process(r)
  BY <1>2, ServerKeepsInv
<1>3. CASE UNCHANGED demoVars
  BY <1>3 DEF demoVars, server, DemoInv, ServerInv, PageInv, PageTyped, LogFits, Logged, Covered
<1> QED  BY <1>1, <1>2, <1>3 DEF DemoNext, PageStep

LEMMA DemoIsInv == DemoSpec => []DemoInv
  BY DemoStarts, DemoStep, PTL DEF DemoSpec

\* However the posts, the timeouts and the callbacks interleave, a second child
\* never starts while one is alive (the POST handler's check of the active task).
THEOREM TasksRunOneByOne == DemoSpec => []OneTaskAtATime
<1>1. ASSUME DemoInv
      PROVE  OneTaskAtATime
  <2> DEFINE alive == {r \in Runs : Alive(r)}
  <2>1. alive \subseteq {active}
    BY <1>1 DEF DemoInv, ServerInv, Alive
  <2> HIDE DEF alive
  <2>2. IsFiniteSet({active}) /\ Cardinality({active}) = 1
    BY FS_Singleton
  <2>3. Cardinality(alive) <= Cardinality({active})
    BY <2>1, <2>2, FS_Subset
  <2> QED  BY <2>2, <2>3 DEF OneTaskAtATime, alive
<1> QED  BY <1>1, DemoIsInv, PTL

\* A page that has a result goes on to its next task: if the post is refused,
\* the slot is another page's (GET hides the result until .finally has run).
THEOREM OwnTasksDoNotRefuse == DemoSpec => NeverRefusesItself
<1>1. ASSUME DemoInv, [DemoNext]_demoVars, NEW p \in Pages,
             page[p].doing = "next", page'[p].doing = "refused"
      PROVE  owner[active].by # p
  <2>1. active = 0 \/ owner[active].by # p
    BY <1>1 DEF DemoInv, PageInv
  <2>2. active # 0
    <3>1. ASSUME NEW q \in Pages, PageStep(q)
          PROVE  active # 0
      BY <1>1, <3>1, PageStepKeepsInv
    <3>2. page' # page
      BY <1>1
    <3> QED
      BY <1>1, <3>1, <3>2, ServerKeepsInv DEF DemoNext, PageStep, demoVars
  <2> QED  BY <2>1, <2>2
<1>2. DemoInv /\ [DemoNext]_demoVars =>
        [\A p \in Pages :
           page[p].doing = "next" /\ page'[p].doing = "refused" => owner[active].by # p]_demoVars
  BY <1>1
<1> QED  BY <1>2, DemoIsInv, PTL DEF DemoSpec, NeverRefusesItself

\* However much the server trims, however many pages poll and whichever of them
\* the run is of, no page logs a piece twice or before an older one
\* (appendStreamOutput's offsets).
THEOREM LogsAreTrue == DemoSpec => []LogIsTrue
<1>1. ASSUME DemoInv
      PROVE  LogIsTrue
  <2>1. SUFFICES ASSUME NEW p \in Pages, NEW j \in DOMAIN page[p].log, NEW i \in 1 .. j - 1
                 PROVE  Precedes(page[p].log[i], page[p].log[j])
    BY DEF LogIsTrue
  <2>2. Rises(page[p].log) /\ page[p].log \in Seq(Nat \X Nat)
    BY <1>1 DEF DemoInv, PageInv, PageTyped
  <2> QED  BY <2>2, LenProperties DEF Rises
<1> QED  BY <1>1, DemoIsInv, PTL

\* When a page's own task passes and the server has trimmed nothing, the page's
\* log is the output, what came after the last poll included.
THEOREM LogsAreWhole == DemoSpec => LogIsWhole
<1>1. ASSUME DemoInv, [DemoNext]_demoVars, NEW p \in Pages,
             page[p].doing = "waiting", page'[p].doing \in {"next", "passed"},
             owner[GET.result.run].by = p, written <= Buffer
      PROVE  page'[p].log = [i \in 1 .. written |-> <<runs, i>>]
  <2>1. ASSUME NEW q \in Pages, PageStep(q)
        PROVE  Logged(page'[p].log, written)
    BY <1>1, <2>1, PageStepKeepsInv
  <2>2. page' # page
    BY <1>1
  <2>3. Logged(page'[p].log, written)
    BY <1>1, <2>1, <2>2, ServerKeepsInv DEF DemoNext, PageStep, demoVars
  <2>4. page'[p].log \in Seq(Nat \X Nat)
    BY <1>1, DemoStep DEF DemoInv, PageInv, PageTyped
  <2> DEFINE log == page'[p].log
  <2> HIDE DEF log
  <2>5. /\ log \in Seq(Nat \X Nat) /\ Len(log) = written
        /\ \A i \in 1 .. written : log[i] = <<runs, i>>
    BY <2>3, <2>4 DEF Logged, log
  <2>6. log \in [1 .. written -> Nat \X Nat]
    BY <2>5, LenProperties
  <2>7. log = [i \in 1 .. written |-> <<runs, i>>]
    BY <2>5, <2>6
  <2> QED  BY <2>7 DEF log
<1>2. DemoInv /\ [DemoNext]_demoVars =>
        [\A p \in Pages :
           /\ page[p].doing = "waiting" /\ page'[p].doing \in {"next", "passed"}
           /\ owner[GET.result.run].by = p /\ written <= Buffer
           => page'[p].log = [i \in 1 .. written |-> <<runs, i>>]]_demoVars
  BY <1>1
<1> QED  BY <1>2, DemoIsInv, PTL DEF DemoSpec, LogIsWhole

-----------------------------------------------------------------------------
(* The deployment.  A state file never says more than what has landed; the *)
(* ledger may be ahead of it, by what a run that stopped had not saved.    *)

\* The underlying that a run given g resolves, when none has before.
Resolved(g) == IF g # Unset THEN g ELSE Default
Underlyings == {Resolved(g) : g \in Provided}

Deployed == [contract : Names, commit : Commits]
Initialized ==
  [underlying : Underlyings \cup {Unset}, maturity : Maturities \cup {Unset},
   peers : UNION {[Peers[c] -> Nat] : c \in Names}]

\* A state file is of one revision and one maturity, and what it says of a contract
\* is so on the ledger; so is the underlying, unless it has been replaced.
Sound(x, built, initialized, moved) ==
  /\ DOMAIN x = {"commit", "maturity", "underlying", "address", "done"}
  /\ x.commit \in Commits \cup {Unset} /\ x.maturity \in Maturities \cup {Unset}
  /\ x.underlying \in Underlyings \cup {Unset}
  /\ x.address \in [Names -> Nat] /\ x.done \in [Names -> BOOLEAN]
  /\ \A c \in Names :
       x.address[c] # 0 =>
         /\ x.commit # Unset /\ x.maturity # Unset
         /\ x.address[c] \in 1 .. Len(built)
         /\ built[x.address[c]] = [contract |-> c, commit |-> x.commit]
  /\ \A c \in Names :
       x.done[c] =>
         /\ \A d \in Names : x.address[d] # 0
         /\ x.underlying # Unset
         /\ (c = "SY" /\ moved) \/ initialized[x.address[c]] = Arguments(c, x)

LedgerInv ==
  code \in Seq(Deployed) /\ args \in Seq(Initialized \cup {Unset}) /\ Len(args) = Len(code)

\* The step has done its work, if it had any to do.
Past(n) == stage > n \/ (stage = n /\ unsaved)

StageInv ==
  /\ stage \in 0 .. LastStep /\ unsaved \in BOOLEAN
  /\ unsaved => stage \in 2 .. LastStep - 1

\* What the running script knows, and the state file with it.
ShellInv ==
  /\ stage # 0 =>
       /\ Sound(shell, code, args, replaced) /\ shell.commit # Unset /\ shell.maturity # Unset
  /\ stage > 1 => shell.underlying # Unset
  /\ stage # 0 /\ ~unsaved => file = shell

\* What it has behind it.
ProgressInv ==
  \A i \in DOMAIN Contracts :
    /\ Past(DeployStep(i)) => shell.address[Contracts[i]] # 0
    /\ Past(InitStep(i)) => shell.done[Contracts[i]]

ScriptInv == StageInv /\ ShellInv /\ ProgressInv

SameMarket(x, y) ==
  /\ x.commit = y.commit /\ x.maturity = y.maturity /\ x.address = y.address
  /\ replaced \/ x.underlying = y.underlying

\* Once there is a manifest, the state file says what it says, and all is done.
ManifestInv ==
  manifest # Unset =>
    ~unsaved /\ SameMarket(manifest, file) /\ \A c \in Names : file.done[c]

DeployInv == LedgerInv /\ Sound(file, code, args, replaced) /\ ScriptInv /\ ManifestInv

LEMMA FiveContracts ==
  /\ DOMAIN Contracts = 1 .. 5 /\ LastStep = 12
  /\ \A i \in 1 .. 5 : DeployStep(i) = 1 + i /\ InitStep(i) = 6 + i
  /\ \A i \in 1 .. 5 : Contracts[i] \in Names
  /\ \A c \in Names : \E i \in 1 .. 5 : c = Contracts[i]
<1>1. Len(Contracts) = 5
  BY DEF Contracts
<1>2. DOMAIN Contracts = 1 .. 5
  BY DEF Contracts
<1>3. LastStep = 12 /\ \A i \in 1 .. 5 : DeployStep(i) = 1 + i /\ InitStep(i) = 6 + i
  BY <1>1 DEF LastStep, DeployStep, InitStep
<1>4. Names = {Contracts[i] : i \in 1 .. 5}
  BY <1>2 DEF Names
<1> QED  BY <1>2, <1>3, <1>4

LEMMA PeersAreNames == \A c \in Names : Peers[c] \subseteq Names
<1>1. Names = {"SY", "PT", "YT", "TK", "AMM"}
  BY FiveContracts DEF Names, Contracts
<1> QED  BY <1>1 DEF Peers

LEMMA BlankIsSound ==
  ASSUME NEW built, NEW initialized, NEW moved
  PROVE  Sound(Blank, built, initialized, moved)
  BY DEF Blank, Sound

\* A contract is initialized with what the state file says of it, and of the
\* underlying if it is the wrapper.
LEMMA SameArguments ==
  ASSUME NEW c \in Names, NEW x, NEW y, x.address = y.address, x.maturity = y.maturity,
         c # "SY" \/ x.underlying = y.underlying
  PROVE  Arguments(c, x) = Arguments(c, y)
  BY DEF Arguments

LEMMA ArgumentsTyped ==
  ASSUME NEW c \in Names, NEW x, x.address \in [Names -> Nat],
         x.maturity \in Maturities \cup {Unset}, x.underlying \in Underlyings \cup {Unset}
  PROVE  Arguments(c, x) \in Initialized
<1> DEFINE peers == [d \in Peers[c] |-> x.address[d]]
<1>1. peers \in [Peers[c] -> Nat]
  BY PeersAreNames
<1> HIDE DEF peers
<1>2. Arguments(c, x) = [underlying |-> IF c = "SY" THEN x.underlying ELSE Unset,
                         maturity |-> IF c = "SY" THEN Unset ELSE x.maturity, peers |-> peers]
  BY DEF Arguments, peers
<1>3. peers \in UNION {[Peers[d] -> Nat] : d \in Names}
  BY <1>1
<1> QED  BY <1>2, <1>3 DEF Initialized

\* What lands later takes nothing back.
LEMMA SoundLasts ==
  ASSUME NEW x, NEW built, NEW initialized, NEW moved, Sound(x, built, initialized, moved),
         NEW more, NEW further, Len(built) \in Nat, Len(more) \in Nat, Len(built) <= Len(more),
         \A j \in 1 .. Len(built) : more[j] = built[j],
         \A c \in Names : x.done[c] => further[x.address[c]] = initialized[x.address[c]]
  PROVE  Sound(x, more, further, moved)
<1>1. ASSUME NEW c \in Names, x.address[c] # 0
      PROVE  /\ x.commit # Unset /\ x.maturity # Unset
             /\ x.address[c] \in 1 .. Len(more)
             /\ more[x.address[c]] = [contract |-> c, commit |-> x.commit]
  BY <1>1 DEF Sound
<1>2. ASSUME NEW c \in Names, x.done[c]
      PROVE  /\ \A d \in Names : x.address[d] # 0
             /\ x.underlying # Unset
             /\ (c = "SY" /\ moved) \/ further[x.address[c]] = Arguments(c, x)
  BY <1>2 DEF Sound
<1> QED  BY <1>1, <1>2 DEF Sound

\* A state file with the same contracts in it, and nothing else changed that was
\* there already but, perhaps, the underlying.
LEMMA SoundCompleted ==
  ASSUME NEW built, NEW initialized, NEW moved, NEW further, moved => further,
         NEW x, Sound(x, built, initialized, moved), NEW y,
         DOMAIN y = DOMAIN x, y.address = x.address, y.done = x.done,
         y.commit \in Commits \cup {Unset}, y.maturity \in Maturities \cup {Unset},
         y.underlying \in Underlyings \cup {Unset},
         x.commit # Unset => y.commit = x.commit,
         x.maturity # Unset => y.maturity = x.maturity,
         x.underlying # Unset => y.underlying # Unset,
         y.underlying = x.underlying \/ ~x.done["SY"] \/ further
  PROVE  Sound(y, built, initialized, further)
<1>1. ASSUME NEW c \in Names, y.address[c] # 0
      PROVE  /\ y.commit # Unset /\ y.maturity # Unset
             /\ y.commit = x.commit /\ y.maturity = x.maturity
             /\ y.address[c] \in 1 .. Len(built)
             /\ built[y.address[c]] = [contract |-> c, commit |-> y.commit]
  BY <1>1 DEF Sound
<1>2. ASSUME NEW c \in Names, y.done[c]
      PROVE  /\ \A d \in Names : y.address[d] # 0
             /\ y.underlying # Unset
             /\ (c = "SY" /\ further) \/ initialized[y.address[c]] = Arguments(c, y)
  <2>1. /\ \A d \in Names : x.address[d] # 0
        /\ x.underlying # Unset
        /\ (c = "SY" /\ moved) \/ initialized[x.address[c]] = Arguments(c, x)
    BY <1>2 DEF Sound
  <2>2. y.maturity = x.maturity
    BY <1>1, <2>1
  <2>3. c = "SY" => further \/ y.underlying = x.underlying
    BY <1>2
  <2>4. (c = "SY" /\ further) \/ Arguments(c, x) = Arguments(c, y)
    BY <2>2, <2>3, SameArguments
  <2> QED  BY <2>1, <2>4
<1>3. /\ DOMAIN y = {"commit", "maturity", "underlying", "address", "done"}
      /\ y.address \in [Names -> Nat] /\ y.done \in [Names -> BOOLEAN]
  BY DEF Sound
<1> QED  BY <1>1, <1>2, <1>3 DEF Sound

LEMMA FewStages ==
  ASSUME stage' \in {0, 1, 2}, ~unsaved', unsaved' \in BOOLEAN
  PROVE  StageInv' /\ ProgressInv'
<1>1. \A i \in DOMAIN Contracts : ~Past(DeployStep(i))' /\ ~Past(InitStep(i))'
  BY FiveContracts DEF Past
<1> QED  BY <1>1, FiveContracts DEF StageInv, ProgressInv

LEMMA StartKeepsInv ==
  ASSUME DeployInv, Start
  PROVE  DeployInv'
<1>1. PICK commit \in Commits, maturity \in Maturities :
        file.commit \in {Unset, commit} /\ shell' = LoadState(commit, maturity)
  BY DEF Start, histories
<1>2. /\ stage = 0 /\ stage' = 1 /\ file' = shell'
      /\ UNCHANGED <<code, args, unsaved, manifest, replaced>>
  BY DEF Start, histories
<1>3. Sound(file, code, args, replaced) /\ ScriptInv /\ ManifestInv /\ LedgerInv
  BY DEF DeployInv
<1> DEFINE s == shell'
<1>4. /\ DOMAIN s = DOMAIN file /\ s.commit = commit
      /\ s.maturity = IF file.maturity = Unset THEN maturity ELSE file.maturity
      /\ s.underlying = file.underlying /\ s.address = file.address /\ s.done = file.done
  BY <1>1, <1>3 DEF LoadState, Sound
<1>5. /\ s.commit # Unset /\ s.maturity # Unset
      /\ s.commit \in Commits /\ s.maturity \in Maturities
      /\ s.underlying \in Underlyings \cup {Unset}
  BY <1>3, <1>4, DeployAssumption DEF Sound
<1> HIDE DEF s
<1>6. Sound(s, code, args, replaced)
  <2>1. /\ file.commit # Unset => s.commit = file.commit
        /\ file.maturity # Unset => s.maturity = file.maturity
    BY <1>1, <1>4
  <2> QED  BY <2>1, <1>3, <1>4, <1>5, SoundCompleted
<1>7. ~unsaved /\ unsaved \in BOOLEAN
  BY <1>2, <1>3, FiveContracts DEF ScriptInv, StageInv
<1>8. ScriptInv'
  <2>1. StageInv' /\ ProgressInv'
    BY <1>2, <1>7, FewStages
  <2>2. Sound(shell, code, args, replaced)' /\ (shell.commit # Unset /\ shell.maturity # Unset)'
    BY <1>2, <1>5, <1>6 DEF s
  <2>3. ShellInv'
    BY <1>2, <2>2 DEF ShellInv
  <2> QED  BY <2>1, <2>3 DEF ScriptInv
<1>9. ManifestInv'
  <2>1. ASSUME manifest # Unset
        PROVE  SameMarket(manifest, s) /\ \A c \in Names : s.done[c]
    <3>1. SameMarket(manifest, file) /\ \A c \in Names : file.done[c]
      BY <1>3, <2>1 DEF ManifestInv
    <3>2. Contracts[1] \in Names
      BY FiveContracts
    <3>3. file.commit # Unset /\ file.maturity # Unset
      BY <1>3, <3>1, <3>2 DEF Sound
    <3> QED  BY <1>1, <1>4, <3>1, <3>3 DEF SameMarket
  <2> QED  BY <1>2, <1>7, <2>1 DEF ManifestInv, SameMarket, s
<1>10. Sound(file, code, args, replaced)'
  BY <1>2, <1>6 DEF s
<1> QED  BY <1>2, <1>3, <1>8, <1>9, <1>10 DEF DeployInv, LedgerInv

LEMMA ResolveKeepsInv ==
  ASSUME DeployInv, ResolveUnderlying
  PROVE  DeployInv'
<1>1. /\ stage = 1 /\ stage' = 2 /\ file' = shell'
      /\ UNCHANGED <<code, args, unsaved, manifest>>
  BY DEF ResolveUnderlying
<1>2. Sound(file, code, args, replaced) /\ ScriptInv /\ ManifestInv /\ LedgerInv
  BY DEF DeployInv
<1>3. /\ Sound(shell, code, args, replaced) /\ file = shell
      /\ ~unsaved /\ unsaved \in BOOLEAN
      /\ shell.commit # Unset /\ shell.maturity # Unset
  BY <1>1, <1>2 DEF ScriptInv, StageInv, ShellInv
<1> DEFINE s == shell'
<1>4. PICK u :
        /\ u \in Underlyings /\ u # Unset
        /\ s = [shell EXCEPT !.underlying = u]
  <2>1. PICK given \in Provided :
          s = [shell EXCEPT !.underlying =
                 IF given # Unset THEN given
                 ELSE IF shell.underlying # Unset THEN shell.underlying ELSE Default]
    BY DEF ResolveUnderlying
  <2>2. Resolved(given) \in Underlyings /\ Resolved(given) # Unset
    BY DeployAssumption DEF Underlyings, Resolved
  <2>3. CASE given = Unset /\ shell.underlying # Unset
    BY <1>3, <2>1, <2>3 DEF Sound
  <2>4. CASE ~(given = Unset /\ shell.underlying # Unset)
    BY <2>1, <2>2, <2>4 DEF Resolved
  <2> QED  BY <2>3, <2>4
<1>5. /\ DOMAIN s = DOMAIN shell /\ s.underlying = u
      /\ s.commit = shell.commit /\ s.maturity = shell.maturity
      /\ s.address = shell.address /\ s.done = shell.done
  BY <1>3, <1>4 DEF Sound
<1>6. s.commit \in Commits \cup {Unset} /\ s.maturity \in Maturities \cup {Unset}
  BY <1>3, <1>5 DEF Sound
<1>7. /\ replaced => replaced'
      /\ s.underlying = shell.underlying \/ ~shell.done["SY"] \/ replaced'
  BY DEF ResolveUnderlying
<1> HIDE DEF s
<1>8. Sound(s, code, args, replaced')
  BY <1>3, <1>4, <1>5, <1>6, <1>7, SoundCompleted
<1>9. ScriptInv'
  <2>1. StageInv' /\ ProgressInv'
    BY <1>1, <1>3, FewStages
  <2>2. /\ Sound(shell, code, args, replaced)'
        /\ (shell.commit # Unset /\ shell.maturity # Unset /\ shell.underlying # Unset)'
    BY <1>1, <1>3, <1>4, <1>5, <1>8 DEF s
  <2>3. ShellInv'
    BY <1>1, <1>3, <2>2 DEF ShellInv
  <2> QED  BY <2>1, <2>3 DEF ScriptInv
<1>10. ManifestInv'
  <2>1. ASSUME manifest # Unset
        PROVE  SameMarket(manifest, shell)' /\ \A c \in Names : s.done[c]
    <3>1. SameMarket(manifest, shell) /\ \A c \in Names : shell.done[c]
      BY <1>2, <1>3, <2>1 DEF ManifestInv
    <3>2. Contracts[1] \in Names
      BY FiveContracts
    <3>3. shell.done["SY"]
      BY <3>1, <3>2 DEF Contracts
    <3> QED  BY <1>1, <1>5, <1>7, <3>1, <3>3 DEF SameMarket, s
  <2> QED  BY <1>1, <1>3, <2>1 DEF ManifestInv, SameMarket, s
<1>11. Sound(file, code, args, replaced)'
  BY <1>1, <1>8 DEF s
<1> QED  BY <1>1, <1>2, <1>9, <1>10, <1>11 DEF DeployInv, LedgerInv

\* A step that was done before is passed over.
LEMMA SkipKeepsInv ==
  ASSUME DeployInv, NEW i \in 1 .. 5, ~unsaved, stage' = stage + 1,
         UNCHANGED <<code, args, file, shell, unsaved, manifest, replaced>>,
         \/ stage = DeployStep(i) /\ shell.address[Contracts[i]] # 0
         \/ stage = InitStep(i) /\ shell.done[Contracts[i]]
  PROVE  DeployInv'
<1>1. LedgerInv' /\ Sound(file, code, args, replaced)' /\ ManifestInv' /\ ScriptInv
  BY DEF DeployInv, LedgerInv, ManifestInv, SameMarket
<1>2. stage \in 2 .. 11
  BY FiveContracts
<1>3. ASSUME NEW j \in 1 .. 5
      PROVE  /\ Past(DeployStep(j))' => shell'.address[Contracts[j]] # 0
             /\ Past(InitStep(j))' => shell'.done[Contracts[j]]
  <2>1. /\ Past(DeployStep(j)) => shell.address[Contracts[j]] # 0
        /\ Past(InitStep(j)) => shell.done[Contracts[j]]
    BY <1>1, FiveContracts DEF ScriptInv, ProgressInv
  <2>2. Past(DeployStep(j))' => Past(DeployStep(j)) \/ (stage = DeployStep(i) /\ i = j) \/ stage = DeployStep(j)
    BY <1>2, FiveContracts DEF Past
  <2>3. stage = DeployStep(j) => i = j /\ stage = DeployStep(i)
    BY FiveContracts
  <2>4. Past(InitStep(j))' => Past(InitStep(j)) \/ stage = InitStep(j)
    BY <1>2, FiveContracts DEF Past
  <2>5. stage = InitStep(j) => i = j /\ stage = InitStep(i)
    BY FiveContracts
  <2>6. stage = DeployStep(i) => stage # InitStep(i)
    BY FiveContracts
  <2> QED  BY <2>1, <2>2, <2>3, <2>4, <2>5, <2>6
<1>4. StageInv' /\ ShellInv' /\ ProgressInv'
  <2>1. stage' \in 0 .. LastStep /\ stage > 1 /\ stage # 0
    BY <1>2, FiveContracts
  <2>2. StageInv'
    BY <1>1, <2>1 DEF ScriptInv, StageInv
  <2>3. ShellInv'
    BY <1>1, <2>1 DEF ScriptInv, ShellInv
  <2>4. ProgressInv'
    BY <1>3, FiveContracts DEF ProgressInv
  <2> QED  BY <2>2, <2>3, <2>4
<1> QED  BY <1>1, <1>4 DEF DeployInv, ScriptInv

\* A contract is deployed, and the state file does not know yet.
LEMMA DeployKeepsInv ==
  ASSUME DeployInv, NEW i \in 1 .. 5, DeployOnce(i)
  PROVE  DeployInv'
<1> DEFINE c == Contracts[i]
<1>1. stage = DeployStep(i) /\ ~unsaved /\ UNCHANGED <<file, manifest, replaced>>
  BY DEF DeployOnce, histories
<1>2. CASE shell.address[c] # 0
  BY <1>1, <1>2, SkipKeepsInv DEF DeployOnce
<1>3. CASE shell.address[c] = 0
  <2> DEFINE s == shell'
             built == [contract |-> c, commit |-> shell.commit]
  <2>1. /\ code' = Append(code, built) /\ args' = Append(args, Unset)
        /\ shell' = [shell EXCEPT !.address[c] = Len(code')]
        /\ unsaved' = TRUE /\ stage' = stage
    BY <1>3 DEF DeployOnce
  <2>2. stage \in 2 .. 6 /\ c \in Names /\ LastStep = 12
    BY <1>1, FiveContracts
  <2>3. /\ LedgerInv /\ Sound(file, code, args, replaced) /\ ManifestInv
        /\ StageInv /\ ShellInv /\ ProgressInv
    BY DEF DeployInv, ScriptInv
  <2>4. /\ Sound(shell, code, args, replaced) /\ file = shell
        /\ shell.commit # Unset /\ shell.maturity # Unset /\ shell.underlying # Unset
    BY <1>1, <2>2, <2>3 DEF ShellInv
  <2>5. built \in Deployed
    BY <2>2, <2>4 DEF Sound, Deployed
  <2> HIDE DEF built
  <2>6. /\ code' \in Seq(Deployed) /\ args' \in Seq(Initialized \cup {Unset})
        /\ Len(code) \in Nat /\ Len(code') = Len(code) + 1 /\ Len(args') = Len(code')
        /\ \A j \in 1 .. Len(code) : code'[j] = code[j] /\ args'[j] = args[j]
        /\ code'[Len(code) + 1] = built
    BY <2>1, <2>3, <2>5 DEF LedgerInv
  <2>7. Sound(file, code', args', replaced)
    <3>1. \A d \in Names : file.done[d] => args'[file.address[d]] = args[file.address[d]]
      BY <2>3, <2>6 DEF Sound
    <3> QED  BY <2>3, <2>6, <3>1, SoundLasts
  <2>8. /\ DOMAIN s = DOMAIN shell /\ s.commit = shell.commit /\ s.maturity = shell.maturity
        /\ s.underlying = shell.underlying /\ s.done = shell.done
        /\ s.address = [shell.address EXCEPT ![c] = Len(code')]
    BY <2>1, <2>4 DEF Sound
  <2>9. \A d \in Names : s.address[d] = IF d = c THEN Len(code) + 1 ELSE shell.address[d]
    BY <2>4, <2>6, <2>8 DEF Sound
  <2> HIDE DEF s
  <2>10. Sound(s, code', args', replaced)
    <3>1. \A d \in Names : ~s.done[d]
      BY <1>3, <2>2, <2>4, <2>8 DEF Sound
    <3>2. ASSUME NEW d \in Names, s.address[d] # 0
          PROVE  /\ s.address[d] \in 1 .. Len(code')
                 /\ code'[s.address[d]] = [contract |-> d, commit |-> s.commit]
      <4>1. CASE d = c
        BY <2>6, <2>8, <2>9, <4>1 DEF built
      <4>2. CASE d # c
        <5>1. Sound(file, code', args', replaced) /\ s.address[d] = file.address[d]
          BY <2>4, <2>7, <2>9, <4>2
        <5> QED  BY <2>4, <2>8, <3>2, <5>1 DEF Sound
      <4> QED  BY <4>1, <4>2
    <3>3. s.address \in [Names -> Nat]
      <4>1. shell.address \in [Names -> Nat] /\ Len(code') \in Nat
        BY <2>4, <2>6 DEF Sound
      <4> QED  BY <2>8, <4>1
    <3> QED  BY <2>4, <2>8, <3>1, <3>2, <3>3 DEF Sound
  <2>11. ~(manifest # Unset)
    BY <1>3, <2>2, <2>3, <2>4 DEF ManifestInv, Sound
  <2>12. ProgressInv'
    <3>1. ASSUME NEW j \in 1 .. 5
          PROVE  ~Past(InitStep(j))' /\ (Past(DeployStep(j))' => s.address[Contracts[j]] # 0)
      <4>1. ~Past(InitStep(j))' /\ (Past(DeployStep(j))' => Past(DeployStep(j)) \/ j = i)
        BY <1>1, <2>1, <2>2, FiveContracts DEF Past
      <4>2. Past(DeployStep(j)) => shell.address[Contracts[j]] # 0
        BY <2>3, FiveContracts DEF ProgressInv
      <4>3. Contracts[j] \in Names
        BY FiveContracts
      <4> QED  BY <2>6, <2>9, <4>1, <4>2, <4>3
    <3> QED  BY <3>1, FiveContracts DEF ProgressInv, s
  <2>13. ShellInv'
    BY <1>1, <2>1, <2>2, <2>4, <2>8, <2>10 DEF ShellInv, s
  <2>14. StageInv'
    BY <2>1, <2>2, <2>3 DEF StageInv
  <2> QED
    BY <1>1, <2>6, <2>7, <2>11, <2>12, <2>13, <2>14
    DEF DeployInv, LedgerInv, ScriptInv, ManifestInv
<1> QED  BY <1>2, <1>3

\* A contract is initialized, with the addresses of all of them.
LEMMA InvokeKeepsInv ==
  ASSUME DeployInv, NEW i \in 1 .. 5, InvokeOnce(i)
  PROVE  DeployInv'
<1> DEFINE c == Contracts[i]
<1>1. stage = InitStep(i) /\ ~unsaved /\ UNCHANGED <<code, file, manifest, replaced>>
  BY DEF InvokeOnce, histories
<1>2. stage \in 7 .. 11 /\ c \in Names /\ LastStep = 12
  BY <1>1, FiveContracts
<1>3. /\ LedgerInv /\ Sound(file, code, args, replaced) /\ ManifestInv
      /\ StageInv /\ ShellInv /\ ProgressInv
  BY DEF DeployInv, ScriptInv
<1>4. /\ Sound(shell, code, args, replaced) /\ file = shell
      /\ shell.commit # Unset /\ shell.maturity # Unset /\ shell.underlying # Unset
  BY <1>1, <1>2, <1>3 DEF ShellInv
<1>5. CASE shell.done[c] /\ stage' = stage + 1 /\ UNCHANGED <<args, shell, unsaved>>
  BY <1>1, <1>5, SkipKeepsInv
<1>6. CASE stage' = 0 /\ shell' = Blank /\ UNCHANGED <<args, unsaved>>
  <2>1. StageInv' /\ ProgressInv'
    BY <1>1, <1>3, <1>6, FewStages DEF StageInv
  <2>2. ShellInv'
    BY <1>6 DEF ShellInv
  <2>3. LedgerInv' /\ Sound(file, code, args, replaced)' /\ ManifestInv'
    BY <1>1, <1>3, <1>6 DEF LedgerInv, ManifestInv, SameMarket
  <2> QED  BY <2>1, <2>2, <2>3 DEF DeployInv, ScriptInv
<1>7. CASE /\ ~shell.done[c]
           /\ args' = [args EXCEPT ![shell.address[c]] = Arguments(c, shell)]
           /\ shell' = [shell EXCEPT !.done[c] = TRUE]
           /\ unsaved' = TRUE /\ UNCHANGED stage
  <2> DEFINE s == shell'
             at == shell.address[c]
             new == Arguments(c, shell)
  <2>1. \A d \in Names : shell.address[d] # 0
    <3>1. \A j \in 1 .. 5 : shell.address[Contracts[j]] # 0
      BY <1>2, <1>3, FiveContracts DEF ProgressInv, Past
    <3> QED  BY <3>1, FiveContracts
  <2>2. \A d \in Names : /\ shell.address[d] \in 1 .. Len(code)
                         /\ code[shell.address[d]] = [contract |-> d, commit |-> shell.commit]
    BY <1>4, <2>1 DEF Sound
  <2>3. \A d \in Names : d # c => shell.address[d] # at
    <3>1. ASSUME NEW d \in Names
          PROVE  code[shell.address[d]].contract = d
      <4> DEFINE item == code[shell.address[d]]
      <4>1. item = [contract |-> d, commit |-> shell.commit]
        BY <2>2
      <4> HIDE DEF item
      <4>2. item.contract = d
        BY <4>1
      <4> QED  BY <4>2 DEF item
    <3> QED  BY <1>2, <3>1
  <2>4. new \in Initialized
    BY <1>2, <1>4, ArgumentsTyped DEF Sound
  <2> HIDE DEF new
  <2>5. /\ args' \in Seq(Initialized \cup {Unset}) /\ Len(args') = Len(args)
        /\ \A j \in 1 .. Len(args) : args'[j] = IF j = at THEN new ELSE args[j]
    <3>1. at \in 1 .. Len(args) /\ new \in Initialized \cup {Unset}
      BY <1>2, <1>3, <2>2, <2>4 DEF LedgerInv
    <3> HIDE DEF at
    <3>2. args' = [args EXCEPT ![at] = new] /\ args \in Seq(Initialized \cup {Unset})
      BY <1>3, <1>7 DEF LedgerInv, at, new
    <3> QED  BY <3>1, <3>2, ExceptSeq
  <2>6. Len(code) \in Nat /\ Len(args) = Len(code)
    BY <1>3 DEF LedgerInv
  <2>7. /\ args'[at] = new
        /\ \A d \in Names : d # c => args'[shell.address[d]] = args[shell.address[d]]
    BY <1>2, <2>2, <2>3, <2>5, <2>6
  <2>8. Sound(file, code, args', replaced)
    <3>1. \A d \in Names : file.done[d] => args'[file.address[d]] = args[file.address[d]]
      BY <1>4, <1>7, <2>7
    <3> QED  BY <1>3, <2>6, <3>1, SoundLasts
  <2>9. /\ DOMAIN s = DOMAIN shell /\ s.commit = shell.commit /\ s.maturity = shell.maturity
        /\ s.underlying = shell.underlying /\ s.address = shell.address
        /\ s.done = [shell.done EXCEPT ![c] = TRUE]
    BY <1>4, <1>7 DEF Sound
  <2>10. shell.done \in [Names -> BOOLEAN] /\ shell.address \in [Names -> Nat]
    BY <1>4 DEF Sound
  <2> HIDE DEF s
  <2>11. s.done \in [Names -> BOOLEAN] /\ \A d \in Names : s.done[d] <=> d = c \/ shell.done[d]
    BY <1>2, <2>9, <2>10
  <2>12. Sound(s, code', args', replaced)
    <3>1. ASSUME NEW d \in Names, s.done[d]
          PROVE  (d = "SY" /\ replaced) \/ args'[s.address[d]] = Arguments(d, s)
      <4>1. Arguments(d, shell) = Arguments(d, s)
        BY <2>9, SameArguments
      <4>2. CASE d = c
        BY <2>7, <2>9, <4>1, <4>2 DEF new
      <4>3. CASE d # c
        BY <1>4, <2>7, <2>9, <2>11, <3>1, <4>1, <4>3 DEF Sound
      <4> QED  BY <4>2, <4>3
    <3> QED  BY <1>1, <1>4, <2>1, <2>2, <2>9, <2>11, <3>1 DEF Sound
  <2>13. ~(manifest # Unset)
    BY <1>2, <1>3, <1>4, <1>7 DEF ManifestInv
  <2>14. ProgressInv'
    <3>1. ASSUME NEW j \in 1 .. 5
          PROVE  s.address[Contracts[j]] # 0 /\ (Past(InitStep(j))' => s.done[Contracts[j]])
      <4>1. Past(InitStep(j))' => Past(InitStep(j)) \/ j = i
        BY <1>1, <1>2, <1>7, FiveContracts DEF Past
      <4>2. Past(InitStep(j)) => shell.done[Contracts[j]]
        BY <1>3, FiveContracts DEF ProgressInv
      <4>3. Contracts[j] \in Names
        BY FiveContracts
      <4> QED  BY <2>1, <2>9, <2>11, <4>1, <4>2, <4>3
    <3> QED  BY <3>1, FiveContracts DEF ProgressInv, s
  <2>15. ShellInv'
    BY <1>1, <1>2, <1>4, <1>7, <2>9, <2>12 DEF ShellInv, s
  <2>16. StageInv'
    BY <1>2, <1>3, <1>7 DEF StageInv
  <2> QED
    BY <1>1, <1>3, <2>5, <2>8, <2>13, <2>14, <2>15, <2>16
    DEF DeployInv, LedgerInv, ScriptInv, ManifestInv
<1> QED  BY <1>5, <1>6, <1>7 DEF InvokeOnce

LEMMA SaveKeepsInv ==
  ASSUME DeployInv, SaveState
  PROVE  DeployInv'
<1>1. /\ unsaved /\ ~unsaved' /\ unsaved' \in BOOLEAN /\ file' = shell /\ stage' = stage + 1
      /\ UNCHANGED <<code, args, shell, manifest, replaced>>
  BY DEF SaveState, SavedState, histories
<1>2. /\ LedgerInv /\ ManifestInv /\ StageInv /\ ShellInv /\ ProgressInv
  BY DEF DeployInv, ScriptInv
<1>3. stage \in 2 .. 11 /\ ~(manifest # Unset)
  BY <1>1, <1>2, FiveContracts DEF StageInv, ManifestInv
<1>4. StageInv'
  BY <1>1, <1>3, FiveContracts DEF StageInv
<1>5. ShellInv' /\ Sound(file, code, args, replaced)'
  BY <1>1, <1>2, <1>3 DEF ShellInv
<1>6. ProgressInv'
  <2>1. ASSUME NEW n \in Nat, Past(n)'
        PROVE  Past(n)
    BY <1>1, <1>3, <2>1 DEF Past
  <2>2. \A i \in DOMAIN Contracts : DeployStep(i) \in Nat /\ InitStep(i) \in Nat
    BY FiveContracts
  <2>3. DOMAIN Contracts' = DOMAIN Contracts
    BY DEF Contracts
  <2> QED  BY <1>1, <1>2, <2>1, <2>2, FiveContracts DEF ProgressInv
<1> QED  BY <1>1, <1>2, <1>3, <1>4, <1>5, <1>6 DEF DeployInv, LedgerInv, ScriptInv, ManifestInv

\* The run stops, with or without a manifest.
LEMMA StopKeepsInv ==
  ASSUME DeployInv, stage' = 0, shell' = Blank, ~unsaved', unsaved' \in BOOLEAN,
         UNCHANGED <<code, args, file, replaced>>, ManifestInv'
  PROVE  DeployInv'
<1>1. StageInv' /\ ProgressInv'
  BY FewStages
<1>2. ShellInv'
  BY DEF ShellInv
<1>3. LedgerInv' /\ Sound(file, code, args, replaced)'
  BY DEF DeployInv, LedgerInv
<1> QED  BY <1>1, <1>2, <1>3 DEF DeployInv, ScriptInv

LEMMA ManifestKeepsInv ==
  ASSUME DeployInv, WriteManifest
  PROVE  DeployInv'
<1>1. /\ stage = LastStep /\ manifest' = shell /\ stage' = 0 /\ shell' = Blank
      /\ UNCHANGED <<code, args, file, unsaved, replaced>>
  BY DEF WriteManifest, histories
<1>2. StageInv /\ ShellInv /\ ProgressInv
  BY DEF DeployInv, ScriptInv
<1>3. ~unsaved /\ unsaved \in BOOLEAN /\ stage = 12
  BY <1>1, <1>2, FiveContracts DEF StageInv
<1>4. file = shell
  BY <1>2, <1>3 DEF ShellInv
<1>5. \A c \in Names : shell.done[c]
  <2>1. \A i \in 1 .. 5 : shell.done[Contracts[i]]
    BY <1>2, <1>3, FiveContracts DEF ProgressInv, Past
  <2> QED  BY <2>1, FiveContracts
<1>6. ManifestInv'
  BY <1>1, <1>3, <1>4, <1>5 DEF ManifestInv, SameMarket
<1> QED  BY <1>1, <1>3, <1>6, StopKeepsInv

LEMMA DeployStarts ==
  ASSUME DeployInit
  PROVE  DeployInv
<1>1. LedgerInv
  BY EmptySeq DEF DeployInit, LedgerInv
<1>2. Sound(file, code, args, replaced)
  BY BlankIsSound DEF DeployInit
<1>3. StageInv /\ ShellInv
  <2>1. stage = 0 /\ ~unsaved /\ unsaved \in BOOLEAN
    BY DEF DeployInit
  <2>2. StageInv
    BY <2>1, FiveContracts DEF StageInv
  <2>3. ShellInv
    BY <2>1 DEF ShellInv
  <2> QED  BY <2>2, <2>3
<1>4. ProgressInv
  BY FiveContracts DEF DeployInit, ProgressInv, Past
<1>5. ManifestInv
  BY DEF DeployInit, ManifestInv
<1> QED  BY <1>1, <1>2, <1>3, <1>4, <1>5 DEF DeployInv, ScriptInv

LEMMA DeployStepKeepsInv ==
  ASSUME DeployInv, [DeployNext]_deployVars
  PROVE  DeployInv'
<1>1. CASE Crash
  <2>1. /\ stage' = 0 /\ shell' = Blank /\ unsaved' = FALSE
        /\ UNCHANGED <<code, args, file, manifest, replaced>>
    BY <1>1 DEF Crash
  <2>2. ManifestInv'
    BY <2>1 DEF DeployInv, ManifestInv, SameMarket
  <2> QED  BY <2>1, <2>2, StopKeepsInv
<1>2. CASE \E i \in DOMAIN Contracts : DeployOnce(i) \/ InvokeOnce(i)
  BY <1>2, DeployKeepsInv, InvokeKeepsInv, FiveContracts
<1>3. CASE UNCHANGED deployVars
  BY <1>3
  DEF deployVars, histories, DeployInv, LedgerInv, ScriptInv, StageInv, ShellInv, ProgressInv,
      Past, ManifestInv, SameMarket
<1> QED
  BY <1>1, <1>2, <1>3, StartKeepsInv, ResolveKeepsInv, SaveKeepsInv, ManifestKeepsInv
  DEF DeployNext, Script

\* The manifest of a deployment that was stopped and rerun any number of times,
\* with whatever revision, maturity and $UNDERLYING each run came with, is of one
\* market; the asset it names is that of the wrapper unless a run came with another
\* one after the wrapper had been initialized (load_state, save_state, invoke_once).
THEOREM ManifestsAreOneMarket == DeploySpec => []ManifestIsOneMarket
<1>1. ASSUME DeployInv
      PROVE  ManifestIsOneMarket
  <2>1. SUFFICES ASSUME manifest # Unset, NEW c \in Names
                 PROVE  /\ code[manifest.address[c]] = [contract |-> c, commit |-> manifest.commit]
                        /\ \/ c = "SY" /\ replaced
                           \/ args[manifest.address[c]] = Arguments(c, manifest)
    BY DEF ManifestIsOneMarket
  <2>2. SameMarket(manifest, file) /\ file.done[c] /\ Sound(file, code, args, replaced)
    BY <1>1, <2>1 DEF DeployInv, ManifestInv
  <2>3. /\ code[file.address[c]] = [contract |-> c, commit |-> file.commit]
        /\ (c = "SY" /\ replaced) \/ args[file.address[c]] = Arguments(c, file)
    BY <2>2 DEF Sound
  <2>4. (c = "SY" /\ replaced) \/ Arguments(c, file) = Arguments(c, manifest)
    BY <2>2, SameArguments DEF SameMarket
  <2> QED  BY <2>2, <2>3, <2>4 DEF SameMarket
<1>2. DeployInit => DeployInv
  BY DeployStarts
<1>3. DeployInv /\ [DeployNext]_deployVars => DeployInv'
  BY DeployStepKeepsInv
<1> QED  BY <1>1, <1>2, <1>3, PTL DEF DeploySpec
=============================================================================
