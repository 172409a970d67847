------------------------------ MODULE SdkReads ------------------------------
(***************************************************************************)
(* How the app reads the chain: withReadClient retries a whole read, a     *)
(* read is one or two rounds of simulations started together, and each     *)
(* simulation walks the RPC providers until one answers.  The account a    *)
(* simulation names as its source is loaded once per provider and shared.  *)
(* A round fails with its first failing simulation; the others run on, and *)
(* keep sharing that account with the next attempt.                        *)
(***************************************************************************)
EXTENDS Integers, Sequences

CONSTANTS
  RpcUrls,     \* the configured RPC URLs, in order
  Kinds,       \* the reads the run makes
  Slots,       \* the emission slots a scan asks for
  Attempts,    \* READ_RETRY_DELAYS_MS.length
  MaxLedger    \* ledgers closed during a read (bound of the run)

Hosts == {RpcUrls[i] : i \in DOMAIN RpcUrls}

ASSUME ReadsAssumption ==
  /\ RpcUrls \in Seq(Hosts) /\ RpcUrls # <<>>
  /\ \A i, j \in DOMAIN RpcUrls : RpcUrls[i] = RpcUrls[j] => i = j
  /\ Attempts \in Nat \ {0} /\ Slots # {} /\ MaxLedger \in Nat

\* The simulations of a read, round by round.
getMarket ==
  <<{"exchange_rate", "twap_apy", "spot_apy", "twap_warming_up", "maturity", "underlying",
     "reserve_pt", "reserve_sy", "total_lp", "config"}>>
quoteSwap         == <<{"quote", "twap_apy"}>>
getPosition       == <<{"share_balance", "position", "lp_balance"}, {"preview_claim_yield"}>>
getLpPosition     == <<getMarket[1] \cup {"lp_balance"}>>
getTokenBalance   == <<{"balance"}>>
getBlendRates     == <<{"get_reserve", "get_config"}>>
getBlendPosition  == <<{"get_reserve", "get_positions"}>>

\* The reserve's index says which slots; a scan asks for all of them at once.
getBlendReserveEmissionScan == <<{"get_reserve"}, Slots>>

Rounds(kind) ==
  CASE kind = "market"    -> getMarket
    [] kind = "quote"     -> quoteSwap
    [] kind = "position"  -> getPosition
    [] kind = "lp"        -> getLpPosition
    [] kind = "balance"   -> getTokenBalance
    [] kind = "rates"     -> getBlendRates
    [] kind = "blend"     -> getBlendPosition
    [] kind = "emissions" -> getBlendReserveEmissionScan

VARIABLES
  closed,    \* the last ledger that closed
  view,      \* the ledger each provider simulates on
  reading,   \* the read in progress: its kind, round and attempt
  running,   \* simulations that have not ended, of this attempt or an earlier
  parts,     \* the ledger each answered simulation of the attempt was made on
  source,    \* sourceAccountPromises, by provider
  oldest,    \* the oldest view a provider had when the attempt began
  answer     \* what the caller of the last read was given

readVars == <<closed, view, reading, running, parts, source, oldest, answer>>

NotReading == [kind |-> "none", round |-> 0, attempt |-> 0]
NoAnswer   == [is |-> "none", parts |-> <<>>]
Reading    == reading.kind # "none"

ReadsInit ==
  /\ closed = 0 /\ view = [p \in Hosts |-> 0]
  /\ reading = NotReading /\ running = {} /\ parts = <<>>
  /\ source = [p \in Hosts |-> "none"] /\ oldest = 0
  /\ answer = NoAnswer

\* A provider may lag, and never goes back.
LedgerCloses ==
  /\ closed < MaxLedger /\ closed' = closed + 1
  /\ UNCHANGED <<view, reading, running, parts, source, oldest, answer>>

ProviderCatchesUp(p) ==
  /\ view' = [view EXCEPT ![p] = closed]
  /\ UNCHANGED <<closed, reading, running, parts, source, oldest, answer>>
-----------------------------------------------------------------------------
Oldest == CHOOSE v \in {view[p] : p \in Hosts} : \A p \in Hosts : v <= view[p]

At(s) == RpcUrls[s.at]

\* loadSimulationSourceAccount: the account is loaded, being loaded, or a
\* getAccount is sent for it.
StepAt(p)      == IF source[p] = "ready" THEN "simulate" ELSE "account"
Requested(ps)  == {p \in ps : source[p] = "none"}
Loading(src, ps) == [p \in Hosts |-> IF p \in ps THEN "pending" ELSE src[p]]

\* Simulations begin at the first provider.
Started(calls, attempt) ==
  {[call |-> c, of |-> attempt, at |-> 1, step |-> StepAt(RpcUrls[1]),
    transient |-> FALSE, ledger |-> 0] : c \in calls}

StartAttempt(kind, attempt, left) ==
  /\ reading' = [kind |-> kind, round |-> 1, attempt |-> attempt]
  /\ running' = left \cup Started(Rounds(kind)[1], attempt)
  /\ source' = Loading(source, Requested({RpcUrls[1]}))
  /\ parts' = <<>> /\ oldest' = Oldest

\* withReadClient makes a client of its own, with an empty cache, per read.
StartRead ==
  /\ ~Reading
  /\ \E kind \in Kinds : StartAttempt(kind, 1, {})
  /\ answer' = NoAnswer
  /\ UNCHANGED <<closed, view>>

\* Mutant of NextAttempt: the retry loop does not count.
SameAttempt(n) == n

NextAttempt(n) == n + 1

Asleep == Reading /\ reading.round = 0

\* The sleep between two attempts ends.
RetryRead ==
  /\ Asleep
  /\ StartAttempt(reading.kind, NextAttempt(reading.attempt), running)
  /\ UNCHANGED <<closed, view, answer>>
-----------------------------------------------------------------------------
\* Mutant of Heeded: what an earlier attempt left running counts.
HeededAny(s) == Reading /\ reading.round # 0

\* Promise.all is of one attempt, and settles once.
Heeded(s) == Reading /\ reading.round # 0 /\ s.of = reading.attempt

ReadEnds(result, got) ==
  /\ answer' = [is |-> result, parts |-> got]
  /\ reading' = NotReading /\ running' = {}

\* retryableReadError looks for words and digits in a text that also holds
\* what the contract or the stack said, so any error may match.
MayMatch(transient) == {transient, TRUE}

\* The attempt fails: sleep and read again, or give the error to the caller.
AttemptFails(result, transient, left) ==
  /\ \E again \in MayMatch(transient) :
       IF again /\ reading.attempt < Attempts
       THEN reading' = [reading EXCEPT !.round = 0] /\ running' = left /\ UNCHANGED answer
       ELSE ReadEnds(result, <<>>)
  /\ UNCHANGED parts

\* withProviderFailover goes through all the providers.
Continues(s) == s.at < Len(RpcUrls)

\* The simulations that failed with a provider are tried with the next one; if
\* one has none left, its error is that of the attempt.
FailedAt(failed, transient, src) ==
  LET over   == {s \in failed : ~Continues(s)}
      onward == {[s EXCEPT !.at = @ + 1, !.step = StepAt(RpcUrls[s.at + 1]),
                                    !.transient = @ \/ transient] : s \in failed \ over}
      left   == {s \in running : <<s.call, s.of>> \notin {<<f.call, f.of>> : f \in failed}} \cup onward
      fatal  == {s \in over : Heeded(s)}
  IN  /\ source' = Loading(src, Requested({At(s) : s \in onward}))
      /\ IF fatal # {}
         THEN AttemptFails("failed", transient \/ \E s \in fatal : s.transient, left)
         ELSE running' = left /\ UNCHANGED <<parts, reading, answer>>
      /\ UNCHANGED <<closed, view, oldest>>

\* Every simulation that waits for p's getAccount shares its answer.  A failure
\* is forgotten, so that a later simulation asks again, and is reported as a
\* missing account, whatever it was.
AccountAnswers(p) ==
  LET waiting == {s \in running : At(s) = p /\ s.step = "account"} IN
  /\ source[p] = "pending"
  /\ \/ /\ source' = [source EXCEPT ![p] = "ready"]
        /\ running' = (running \ waiting) \cup {[s EXCEPT !.step = "simulate"] : s \in waiting}
        /\ UNCHANGED <<closed, view, reading, parts, oldest, answer>>
     \/ FailedAt(waiting, FALSE, [source EXCEPT ![p] = "none"])

\* The provider simulates on the ledger it has; the reply is under way.
Simulates(s) ==
  /\ s.step = "simulate"
  /\ running' = (running \ {s}) \cup {[s EXCEPT !.step = "replied", !.ledger = view[At(s)]]}
  /\ UNCHANGED <<closed, view, reading, parts, source, oldest, answer>>

\* A value: the round, and with its last round the read, may be complete.
ReplyArrives(s) ==
  LET left == running \ {s}
      got  == [c \in DOMAIN parts \cup {s.call} |-> IF c = s.call THEN s.ledger ELSE parts[c]]
  IN
  /\ s.step = "replied"
  /\ IF ~Heeded(s) THEN running' = left /\ UNCHANGED <<parts, source, reading, answer>>
     ELSE IF ~(Rounds(reading.kind)[reading.round] \subseteq DOMAIN got)
     THEN running' = left /\ parts' = got /\ UNCHANGED <<source, reading, answer>>
     ELSE IF reading.round < Len(Rounds(reading.kind))
     THEN /\ reading' = [reading EXCEPT !.round = @ + 1]
          /\ running' = left \cup Started(Rounds(reading.kind)[reading.round + 1], reading.attempt)
          /\ source' = Loading(source, Requested({RpcUrls[1]}))
          /\ parts' = got /\ UNCHANGED answer
     ELSE ReadEnds("value", got) /\ UNCHANGED <<parts, source>>
  /\ UNCHANGED <<closed, view, oldest>>

\* A simulation error, which no other provider is asked about.
ContractRefuses(s) ==
  /\ s.step = "replied"
  /\ IF Heeded(s) THEN AttemptFails("refused", FALSE, running \ {s})
                  ELSE running' = running \ {s} /\ UNCHANGED <<parts, reading, answer>>
  /\ UNCHANGED <<closed, view, source, oldest>>

\* A timeout, a 429, a reply that says nothing.
SimulationFails(s) ==
  /\ s.step \in {"simulate", "replied"}
  /\ \E t \in BOOLEAN : FailedAt({s}, t, source)
-----------------------------------------------------------------------------
Answers ==
  \/ RetryRead
  \/ \E p \in Hosts : AccountAnswers(p)
  \/ \E s \in running : Simulates(s) \/ ReplyArrives(s) \/ ContractRefuses(s) \/ SimulationFails(s)

ReadsNext ==
  \/ StartRead \/ Answers \/ LedgerCloses
  \/ \E p \in Hosts : ProviderCatchesUp(p)

\* Every request to a provider is answered or fails, and timers fire.
ReadsSpec == ReadsInit /\ [][ReadsNext]_readVars /\ WF_readVars(Answers)
-----------------------------------------------------------------------------
\* A read that was started is answered, whatever the providers do: the retries
\* end (withReadClient).
ReadReturns == Reading ~> ~Reading

\* A value is put together from the simulations of one attempt: no part of it
\* is older than what every provider had already seen when that began
\* (Promise.all in the client's reads; the parts may still differ in ledger).
PartsAreFresh ==
  answer.is = "value" => \A c \in DOMAIN answer.parts : oldest <= answer.parts[c]
=============================================================================
