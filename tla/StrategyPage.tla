---------------------------- MODULE StrategyPage ----------------------------
(***************************************************************************)
(* The strategy page: four strategies of which one is deployed, and the    *)
(* rates of that one's market.  Its wallet plays no part.                  *)
(***************************************************************************)
EXTENDS Cards

\* By id, the stage of each.
STRATEGIES ==
  [s \in {"blend-usdc", "blend-reserves", "treasuries", "reward-lending"} |->
     CASE s = "blend-usdc" -> "Live" [] s = "blend-reserves" -> "Next"
       [] s = "treasuries" -> "Design" [] s = "reward-lending" -> "Research"]

StrategyFirst == [selected |-> "blend-usdc"]

selectedIsLive == form.selected = "blend-usdc"

\* On testnet the live one is labelled with its network.
Stage(s) == IF s = "blend-usdc" THEN "Testnet" ELSE STRATEGIES[s]

StrategyOptions ==
  [s \in DOMAIN STRATEGIES |-> IF s = form.selected THEN "Selected" ELSE Stage(s)]

\* What can be done about the strategy selected: open its market or nothing.
SelectedStrategy ==
  [stage |-> Stage(form.selected), links |-> IF selectedIsLive THEN {"mint", "trade"} ELSE {}]

\* The metrics beside it: live figures only of the live one.
StrategyMetrics ==
  IF selectedIsLive
  THEN [fixed   |-> fixedRateDisplay,
        figures |-> LiveValue("rates", rates = {}) \cup Stat("market")]
  ELSE [fixed |-> [tone |-> "idle"], figures |-> {}]

StrategyNext ==
  \/ \E s \in DOMAIN STRATEGIES : Fields("strategy", [form EXCEPT !.selected = s])
  \/ \E a \in Users \cup {Nobody} : page = "strategy" /\ AddressChanges(a, form)

-----------------------------------------------------------------------------

\* Figures and ways into a market are offered of the deployed strategy alone:
\* with another selected the page has neither, and the deployed one is the one
\* option marked with its network.
OffersOnlyWhatIsLive ==
  page = "strategy" =>
    /\ SelectedStrategy.links # {} => SelectedStrategy.stage = "Testnet"
    /\ StrategyMetrics.figures # {} => SelectedStrategy.links # {}
    /\ SelectedStrategy.links = {} => {s \in DOMAIN STRATEGIES : StrategyOptions[s] = "Testnet"} # {}
=============================================================================
