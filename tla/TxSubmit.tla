------------------------------ MODULE TxSubmit ------------------------------
(***************************************************************************)
(* The SDK's way of getting a wallet's transactions onto the ledger        *)
(* through several RPC providers: build with a sequence number, hand the   *)
(* signed envelope to the first provider that takes it, poll for the       *)
(* result, and remember the sequence it consumed so that the next build is *)
(* not stale.  Providers lag, lose replies, take an envelope long after    *)
(* the call that carried it was given up, and may leave a call unanswered; *)
(* another device may use the same account.  Time is not modelled: a       *)
(* deadline may pass whenever its loop runs, and is looked at only where   *)
(* the code looks.                                                         *)
(***************************************************************************)
EXTENDS Integers, Sequences

CONSTANTS
  Providers,    \* the configured RPC URLs, in order
  MaxTxs,       \* transactions the wallet builds (bound of the run)
  MaxHeight     \* transactions the account executes (bound of the run)

ASSUME SubmitAssumption == Providers # <<>> /\ MaxTxs \in Nat /\ MaxHeight \in Nat

Txs == 1 .. MaxTxs
Urls == {Providers[i] : i \in DOMAIN Providers}

VARIABLES
  height,     \* the account's sequence number on the ledger
  queue,      \* transactions waiting in the network
  outcome,    \* what the ledger made of each transaction
  accounts,   \* the sequence number each provider's getAccount shows
  adrift,     \* envelopes on their way to a provider whose call was given up
  tx,         \* the transaction being driven, 0 before the first
  sequence,   \* the sequence number each transaction was built with
  open,       \* history: those still unexecuted when each was built
  phase,      \* where build, sign, submit stands
  tried,      \* providers the running loop has been through in this round
  awaiting,   \* the call whose answer the client awaits, and how far it got
  late,       \* whether the deadline of the running loop has passed
  floor,      \* sequenceFloorBySource for the account
  report      \* what the caller was told

network == <<height, queue, outcome, accounts, adrift>>
wallet  == <<tx, sequence, open>>
loop    == <<phase, tried, awaiting, late>>
vars    == <<network, wallet, loop, floor, report>>

Phases == {"idle", "built", "sending", "polling", "settling"}
Calls == {"nothing", "sent", "taken", "refused", "asked"}
Verdicts == {"none", "declined", "success", "error"}

TypeOK ==
  /\ tx \in 0 .. MaxTxs
  /\ floor \in Nat
  /\ sequence \in [Txs -> Nat]
  /\ open \in [Txs -> SUBSET Txs]
  /\ accounts \in [Urls -> Nat]
  /\ height \in Nat
  /\ outcome \in [Txs -> {"none", "SUCCESS", "FAILED"}]
  /\ report \in [Txs -> Verdicts]
  /\ phase \in Phases /\ awaiting \in Calls

Init ==
  /\ height = 0 /\ queue = {} /\ outcome = [t \in Txs |-> "none"]
  /\ accounts = [p \in Urls |-> 0] /\ adrift = {}
  /\ tx = 0 /\ sequence = [t \in Txs |-> 0] /\ open = [t \in Txs |-> {}]
  /\ phase = "idle" /\ tried = 0 /\ awaiting = "nothing" /\ late = FALSE
  /\ floor = 0 /\ report = [t \in Txs |-> "none"]
-----------------------------------------------------------------------------
\* The network and its providers.

Ledger(t) ==
  /\ t \in queue /\ sequence[t] = height + 1 /\ height < MaxHeight
  /\ height' = height + 1
  /\ queue' = queue \ {t}
  /\ \E o \in {"SUCCESS", "FAILED"} : outcome' = [outcome EXCEPT ![t] = o]
  /\ UNCHANGED <<accounts, adrift, wallet, loop, floor, report>>

Drop(t) ==
  /\ t \in queue /\ queue' = queue \ {t}
  /\ UNCHANGED <<height, outcome, accounts, adrift, wallet, loop, floor, report>>

OtherDevice ==
  /\ height < MaxHeight /\ height' = height + 1
  /\ UNCHANGED <<queue, outcome, accounts, adrift, wallet, loop, floor, report>>

\* The account view of a provider catches up on its own.
CatchUp(p) ==
  /\ accounts' = [accounts EXCEPT ![p] = height]
  /\ UNCHANGED <<height, queue, outcome, adrift, wallet, loop, floor, report>>

\* A provider's own node may be ahead of the account view it serves.
SequenceLooksRight(t, p) == \E seen \in accounts[p] .. height : sequence[t] = seen + 1

Provider == Providers[tried + 1]

\* The envelope of the call under way arrives: the provider takes it, finds it
\* in its network already, or refuses it.
Arrives ==
  /\ awaiting = "sent"
  /\ \/ /\ SequenceLooksRight(tx, Provider) \/ tx \in queue
        /\ queue' = queue \cup {tx} /\ awaiting' = "taken"
     \/ awaiting' = "refused" /\ UNCHANGED queue
  /\ UNCHANGED <<height, outcome, accounts, adrift, wallet, phase, tried, late,
                 floor, report>>

\* One whose call was given up arrives after all, or is lost.
ArrivesLate(t, p) ==
  /\ <<t, p>> \in adrift /\ adrift' = adrift \ {<<t, p>>}
  /\ \/ UNCHANGED queue
     \/ SequenceLooksRight(t, p) /\ queue' = queue \cup {t}
  /\ UNCHANGED <<height, outcome, accounts, wallet, loop, floor, report>>

TimePasses ==
  /\ phase \in {"polling", "settling"} /\ ~late /\ late' = TRUE
  /\ UNCHANGED <<network, wallet, phase, tried, awaiting, floor, report>>
-----------------------------------------------------------------------------
\* Mutant of Floored: the provider's view is taken as it is.
Unfloored(seen) == seen

\* applySequenceFloor: never below what a confirmed transaction consumed.
Floored(seen) == IF seen < floor THEN floor ELSE seen

\* Any provider may be the first that prepares the transaction.
Build ==
  /\ phase = "idle" /\ tx < MaxTxs
  /\ \E p \in Urls : /\ Floored(accounts[p]) <= MaxHeight
                     /\ sequence' = [sequence EXCEPT ![tx + 1] = Floored(accounts[p]) + 1]
  /\ open' = [open EXCEPT ![tx + 1] = {t \in 1 .. tx : outcome[t] = "none"}]
  /\ tx' = tx + 1 /\ phase' = "built"
  /\ UNCHANGED <<network, tried, awaiting, late, floor, report>>

Sign == phase = "built" /\ phase' = "sending"
        /\ UNCHANGED <<network, wallet, tried, awaiting, late, floor, report>>

\* A loop begins with its deadline ahead of it and nothing asked.
Enters(next) == phase' = next /\ tried' = 0 /\ awaiting' = "nothing" /\ late' = FALSE

Ends(verdict) == Enters("idle") /\ report' = [report EXCEPT ![tx] = verdict]

Decline == phase = "built" /\ Ends("declined") /\ UNCHANGED <<network, wallet, floor>>

\* The next provider's sendTransaction is called; the client has no timeout of
\* its own for the answer.
Offer ==
  /\ phase = "sending" /\ awaiting = "nothing" /\ awaiting' = "sent"
  /\ UNCHANGED <<network, wallet, phase, tried, late, floor, report>>

\* What becomes of an envelope whose call ends before it arrived.
CastOff == adrift' = IF awaiting = "sent" THEN adrift \cup {<<tx, Provider>>} ELSE adrift

\* PENDING, or DUPLICATE from a provider whose network already holds it.
Accepted == awaiting = "taken" /\ Enters("polling") /\ UNCHANGED <<adrift, report>>

\* A timeout, a 429 or 503, TRY_AGAIN_LATER: the envelope may have got through
\* although the reply did not.  After the last provider the client asks for the
\* transaction by its hash before it gives up.
Retryable ==
  /\ CastOff
  /\ IF tried + 1 = Len(Providers) THEN Enters("polling")
     ELSE tried' = tried + 1 /\ awaiting' = "nothing" /\ UNCHANGED <<phase, late>>
  /\ UNCHANGED report

\* ERROR, or any failure that is not on the list: no other provider is tried.
Refused == CastOff /\ Ends("error")

\* Mutant of SendSignedTransaction: the floor is raised when the envelope is
\* handed over, so that the next build need not wait for the result.
SendAhead ==
  /\ phase = "sending" /\ awaiting # "nothing"
  /\ Accepted \/ Retryable \/ Refused
  /\ floor' = sequence[tx]
  /\ UNCHANGED <<height, queue, outcome, accounts, wallet>>

SendSignedTransaction ==
  /\ phase = "sending" /\ awaiting # "nothing"
  /\ Accepted \/ Retryable \/ Refused
  /\ UNCHANGED <<height, queue, outcome, accounts, wallet, floor>>

\* The next provider is asked, for the result or for the account.  The deadline
\* is looked at before each round, not within one nor during a call.
Ask ==
  /\ phase \in {"polling", "settling"} /\ awaiting = "nothing"
  /\ tried = 0 => ~late
  /\ awaiting' = "asked"
  /\ UNCHANGED <<network, wallet, phase, tried, late, floor, report>>

\* Mutant of NotYet: the deadline is set anew for every round.
NotYetRenewed ==
  /\ awaiting = "asked" /\ awaiting' = "nothing"
  /\ tried' = (tried + 1) % Len(Providers)
  /\ late' = (late /\ tried' # 0)
  /\ UNCHANGED <<network, wallet, phase, floor, report>>

\* Nothing known yet, or the call failed: the next provider, or the next round.
NotYet ==
  /\ awaiting = "asked" /\ awaiting' = "nothing"
  /\ tried' = (tried + 1) % Len(Providers)
  /\ UNCHANGED <<network, wallet, phase, late, floor, report>>

\* Mutant of Found: a provider that took the envelope counts as a result.
FoundInQueue == tx \in queue \/ outcome[tx] # "none"

\* getTransaction may answer with a result once there is one; a provider that
\* has not indexed it yet answers NOT_FOUND, as NotYet always may.
Found == outcome[tx] # "none"

Remembered(consumed) == IF floor < consumed THEN consumed ELSE floor

PollTransaction ==
  /\ phase = "polling" /\ awaiting = "asked"
  /\ Found
  /\ IF outcome[tx] = "FAILED"
     THEN Ends("error") /\ UNCHANGED floor
     ELSE /\ Enters("settling") /\ UNCHANGED report
          /\ floor' = Remembered(sequence[tx])
  /\ UNCHANGED <<network, wallet>>

PollDeadline ==
  /\ phase = "polling" /\ awaiting = "nothing" /\ tried = 0 /\ late
  /\ Ends("error")
  /\ UNCHANGED <<network, wallet, floor>>

\* waitForSequence is best effort: it returns when some provider shows the
\* consumed sequence in two rounds running, or once its deadline is past.
Settled ==
  /\ phase = "settling" /\ awaiting = "asked"
  /\ \E p \in Urls : sequence[tx] <= accounts[p]
  /\ \/ Ends("success")
     \/ tried' = 0 /\ awaiting' = "nothing" /\ UNCHANGED <<phase, late, report>>
  /\ UNCHANGED <<network, wallet, floor>>

WaitForSequence ==
  /\ phase = "settling" /\ awaiting = "nothing" /\ tried = 0 /\ late
  /\ Ends("success")
  /\ UNCHANGED <<network, wallet, floor>>

\* The client's own steps, and the ends of the calls it awaits.
Client   == Offer \/ Ask \/ PollDeadline \/ WaitForSequence
Answered == SendSignedTransaction \/ PollTransaction \/ NotYet \/ Settled

Next ==
  \/ Build \/ Sign \/ Decline \/ Client \/ Answered
  \/ OtherDevice \/ Arrives \/ TimePasses
  \/ \E t \in Txs : Ledger(t) \/ Drop(t) \/ \E p \in Urls : ArrivesLate(t, p)
  \/ \E p \in Urls : CatchUp(p)

\* The event loop runs the client's own steps and the clock runs.  The code
\* sets no timeout on sendTransaction or getTransaction, so one thing is
\* assumed of the providers and the network beneath them: a call that was made
\* ends, in a reply or an error.  Nothing is assumed of what it says, of the
\* ledger or of the user.
Spec == Init /\ [][Next]_vars
             /\ WF_vars(Client) /\ WF_vars(Answered) /\ WF_vars(TimePasses)
-----------------------------------------------------------------------------
Sent == {t \in 1 .. tx : report[t] # "declined" /\ ~(t = tx /\ phase = "built")}
Landed == {t \in Txs : outcome[t] = "SUCCESS"}

Promise == INSTANCE Submission WITH sent <- Sent, landed <- Landed

\* submit() resolves only for a transaction that took effect, whichever
\* provider accepted it, lost the reply to it or answered for it.
KeepsPromise == Promise!Spec

\* However far the provider that builds it lags, a transaction built after a
\* confirmed one never reuses a sequence number that one consumed, so it is
\* not doomed to txBadSeq by the wallet's own flow.
NeverReusesSequence ==
  \A t \in Txs, u \in 1 .. tx :
    t < u /\ report[t] = "success" => sequence[t] < sequence[u]

\* A transaction reported as failed may still be under way (client.ts:816):
\* lost replies, envelopes that arrive long after their call was given up.
\* Whatever sequence number the user's next transaction gets, one that had not
\* executed when the next was built never executes along with it: starting
\* over cannot do the thing twice.  (One that has executed by then can be seen
\* on the page; nothing undoes it.)
RetryReplaces ==
  \A u \in 1 .. tx : \A t \in open[u] : outcome[t] = "none" \/ outcome[u] = "none"

\* A submission returns or throws by its own deadlines, whatever its calls are
\* answered, as long as each of them ends.
SubmitReturns == phase = "sending" ~> phase = "idle"
=============================================================================
