------------------------------ MODULE SdkProofs ------------------------------
(***************************************************************************)
(* What the SDK promises for any number of providers, transactions and     *)
(* readers, and for every rate a pool may report.                          *)
(*   submit()  a sequence number never comes back: everything a caller was *)
(*             told succeeded lies at or below the remembered floor.       *)
(*   reads     no part of a value is older than its attempt.               *)
(*   rates     the supply rate shown is one somebody pays, and the amount  *)
(*             the app asks to withdraw empties the position.              *)
(***************************************************************************)
EXTENDS TxSubmit, SdkReads, BlendReserve, FixedPointProofs, FiniteSetTheorems, WellFoundedInduction

\* A transaction is reported on once it is no longer the one being driven.
Driven ==
  /\ phase # "idle" => tx > 0 /\ report[tx] = "none"
  /\ \A t \in Txs : t > tx => report[t] = "none"

Confirmed ==
  /\ phase = "settling" => outcome[tx] = "SUCCESS" /\ sequence[tx] <= floor
  /\ \A t \in Txs : report[t] = "success" => outcome[t] = "SUCCESS" /\ sequence[t] <= floor

\* Only a transaction that was signed is ever in the network or on the ledger,
\* and one on the ledger lies behind the account's sequence number.
OnlySent ==
  /\ queue \subseteq Sent
  /\ \A e \in adrift : e[1] \in Sent
  /\ \A t \in Txs : outcome[t] # "none" => t \in Sent /\ sequence[t] <= height

\* Envelopes travel only while a signed transaction is being sent.
OnlyWhileSending == awaiting # "nothing" => phase \in {"sending", "polling", "settling"}

IInv == TypeOK /\ Driven /\ Confirmed /\ OnlySent /\ OnlyWhileSending /\ NeverReusesSequence

\* The inductive invariant of the client and the ledger (build, send, poll):
\* it holds at the start ...
THEOREM InitInv == Init => IInv
  BY SubmitAssumption
     DEF Init, IInv, TypeOK, Driven, Confirmed, OnlySent, OnlyWhileSending,
         NeverReusesSequence, Sent, Phases, Calls, Verdicts, Txs

\* What the network does of its own accord leaves the client's state alone,
\* and takes nothing back that a result already said.
LEMMA NetworkKeepsInv ==
  ASSUME IInv,
         \/ \E t \in Txs : Ledger(t) \/ Drop(t) \/ \E p \in Urls : ArrivesLate(t, p)
         \/ OtherDevice \/ Arrives \/ TimePasses
         \/ \E p \in Urls : CatchUp(p)
  PROVE  IInv'
<1>1. Sent' = Sent /\ UNCHANGED <<tx, sequence, open, phase, floor, report>>
  BY DEF Ledger, Drop, ArrivesLate, OtherDevice, Arrives, TimePasses, CatchUp, Sent, wallet, loop
<1>2. height \in Nat /\ (height' = height \/ height' = height + 1)
  BY DEF Ledger, Drop, ArrivesLate, OtherDevice, Arrives, TimePasses, CatchUp, IInv, TypeOK, network
<1>3. accounts' \in [Urls -> Nat]
  BY <1>2 DEF Ledger, Drop, ArrivesLate, OtherDevice, Arrives, TimePasses, CatchUp, IInv, TypeOK, network
<1>4. queue' \subseteq Sent /\ \A e \in adrift' : e[1] \in Sent
  <2>1. queue \subseteq Sent /\ \A e \in adrift : e[1] \in Sent
    BY DEF IInv, OnlySent
  <2>2. CASE Arrives
    <3>1. awaiting = "sent" /\ phase \in {"sending", "polling", "settling"}
      BY <2>2 DEF Arrives, IInv, OnlyWhileSending
    <3>2. tx \in Sent
      BY <3>1 DEF IInv, Driven, TypeOK, Txs, Sent
    <3>3. QED  BY <2>1, <2>2, <3>2 DEF Arrives
  <2>3. ASSUME NEW t \in Txs, NEW p \in Urls, ArrivesLate(t, p)
        PROVE  queue' \subseteq Sent /\ adrift' \subseteq adrift
    <3>1. t \in Sent
      BY <2>1, <2>3 DEF ArrivesLate
    <3>2. QED  BY <2>1, <2>3, <3>1 DEF ArrivesLate
  <2>4. QED  BY <2>1, <2>2, <2>3 DEF Ledger, Drop, OtherDevice, TimePasses, CatchUp, network
<1> DEFINE Extended(u) ==
      /\ outcome[u] # "none" => outcome'[u] = outcome[u]
      /\ outcome[u] = "none" /\ outcome'[u] # "none" =>
           u \in queue /\ sequence[u] = height'
<1>5. outcome' \in [Txs -> {"none", "SUCCESS", "FAILED"}] /\ \A u \in Txs : Extended(u)
  <2>1. ASSUME NEW t \in Txs, Ledger(t) PROVE outcome' \in [Txs -> {"none", "SUCCESS", "FAILED"}] /\ \A u \in Txs : Extended(u)
    <3>1. PICK o \in {"SUCCESS", "FAILED"} : outcome' = [outcome EXCEPT ![t] = o]
      BY <2>1 DEF Ledger
    <3>2. height' = height + 1 /\ sequence[t] = height + 1 /\ t \in queue
      BY <2>1 DEF Ledger
    <3>3. outcome[t] = "none"
      BY <1>2, <3>2 DEF IInv, OnlySent, TypeOK
    <3>4. outcome \in [Txs -> {"none", "SUCCESS", "FAILED"}]
      BY DEF IInv, TypeOK
    <3>5. outcome'[t] = o /\ \A u \in Txs : u # t => outcome'[u] = outcome[u]
      BY <3>1, <3>4
    <3>6. outcome' \in [Txs -> {"none", "SUCCESS", "FAILED"}]
      BY <3>1, <3>4
    <3>7. ASSUME NEW u \in Txs
          PROVE  Extended(u)
      <4>1. CASE u = t
        BY <3>2, <3>3, <4>1
      <4>2. CASE u # t
        BY <3>5, <4>2
      <4> QED  BY <4>1, <4>2
    <3> QED  BY <3>6, <3>7
  <2>2. ASSUME UNCHANGED outcome PROVE outcome' \in [Txs -> {"none", "SUCCESS", "FAILED"}] /\ \A u \in Txs : Extended(u)
    BY <2>2 DEF IInv, TypeOK
  <2> QED  BY <2>1, <2>2 DEF Drop, ArrivesLate, OtherDevice, Arrives, TimePasses, CatchUp, network
<1>6. TypeOK' /\ OnlyWhileSending'
  <2>1. awaiting' \in Calls /\ (awaiting' # "nothing" => awaiting # "nothing")
    BY DEF Ledger, Drop, ArrivesLate, OtherDevice, Arrives, TimePasses, CatchUp, loop,
           Calls, IInv, TypeOK
  <2>2. QED  BY <1>1, <1>2, <1>3, <1>5, <2>1 DEF IInv, TypeOK, OnlyWhileSending
<1>7. OnlySent'
  <2>1. queue' \subseteq Sent' /\ \A e \in adrift' : e[1] \in Sent'
    BY <1>1, <1>4
  <2>2. ASSUME NEW t \in Txs, outcome'[t] # "none"
        PROVE  t \in Sent' /\ sequence'[t] <= height'
    <3>1. CASE outcome[t] # "none"
      BY <1>1, <1>2, <3>1 DEF IInv, OnlySent, TypeOK
    <3>2. CASE outcome[t] = "none"
      BY <1>1, <1>2, <1>5, <2>2, <3>2 DEF IInv, OnlySent, TypeOK
    <3> QED  BY <3>1, <3>2
  <2> QED  BY <2>1, <2>2 DEF OnlySent
<1>8. Confirmed'
  <2>1. phase = "settling" => tx \in Txs
    BY DEF IInv, Driven, TypeOK, Txs
  <2> QED  BY <1>1, <1>5, <2>1 DEF IInv, Confirmed
<1>9. Driven' /\ NeverReusesSequence'
  BY <1>1 DEF IInv, Driven, NeverReusesSequence
<1> QED  BY <1>6, <1>7, <1>8, <1>9 DEF IInv

\* A build starts above the floor, hence above everything that was confirmed.
LEMMA BuildKeepsInv ==
  ASSUME IInv, Build
  PROVE  IInv'
<1> USE SubmitAssumption
<1>1. PICK p \in Urls : sequence' = [sequence EXCEPT ![tx + 1] = Floored(accounts[p]) + 1]
  BY DEF Build
<1>2. tx \in Nat /\ tx + 1 \in Txs /\ tx' = tx + 1 /\ phase = "idle" /\ phase' = "built"
      /\ UNCHANGED <<height, queue, outcome, accounts, adrift, awaiting, floor, report>>
      /\ open' \in [Txs -> SUBSET Txs]
  BY DEF Build, network, IInv, TypeOK, Txs
<1>3. Floored(accounts[p]) \in Nat /\ floor <= Floored(accounts[p])
  BY DEF Floored, IInv, TypeOK
<1>4. /\ sequence' \in [Txs -> Nat]
      /\ sequence'[tx + 1] > floor
      /\ \A t \in Txs : t # tx + 1 => sequence'[t] = sequence[t]
  BY <1>1, <1>2, <1>3 DEF IInv, TypeOK
<1>5. report[tx + 1] = "none"
  BY <1>2 DEF IInv, Driven
<1>6. Sent' = Sent
  BY <1>2, <1>5 DEF Sent
<1>7. TypeOK' /\ Driven' /\ OnlyWhileSending'
  BY <1>2, <1>4, <1>5 DEF IInv, TypeOK, Driven, OnlyWhileSending, Phases, Txs
<1>8. tx + 1 \notin Sent
  BY <1>2 DEF Sent
<1>9. OnlySent'
  BY <1>2, <1>4, <1>6, <1>8 DEF IInv, OnlySent
<1>10. Confirmed'
  BY <1>2, <1>4, <1>5 DEF IInv, Confirmed
<1>11. NeverReusesSequence'
  <2> SUFFICES ASSUME NEW t \in Txs, NEW u \in 1 .. tx', t < u, report'[t] = "success"
               PROVE  sequence'[t] < sequence'[u]
    BY DEF NeverReusesSequence
  <2>1. sequence'[t] = sequence[t] /\ sequence[t] <= floor /\ sequence[t] \in Nat
    BY <1>2, <1>4, <1>5 DEF IInv, Confirmed, TypeOK
  <2>2. CASE u = tx + 1
    BY <1>2, <1>4, <2>1, <2>2 DEF IInv, TypeOK
  <2>3. CASE u # tx + 1
    <3>1. u \in 1 .. tx /\ u \in Txs
      BY <1>2, <2>3 DEF Txs
    <3>2. sequence[t] < sequence[u]
      BY <1>2, <3>1 DEF IInv, NeverReusesSequence
    <3> QED  BY <1>4, <2>1, <2>3, <3>1, <3>2
  <2> QED  BY <2>2, <2>3
<1> QED  BY <1>7, <1>9, <1>10, <1>11 DEF IInv

\* Driving the transaction on: no report, at most a new place in the queue.
LEMMA ProgressKeepsInv ==
  ASSUME IInv, phase # "idle", phase' \in {"sending", "polling", "settling"}, awaiting' \in Calls,
         phase' = "settling" => phase = "settling",
         \A e \in adrift' : e \in adrift \/ e[1] = tx,
         UNCHANGED <<height, queue, outcome, accounts, wallet, floor, report>>
  PROVE  IInv'
<1>1. tx \in Txs /\ report[tx] = "none" /\ tx' = tx /\ sequence' = sequence /\ open' = open
  BY DEF IInv, Driven, TypeOK, Txs, wallet
<1>2. Sent \subseteq Sent' /\ tx \in Sent'
  BY <1>1 DEF Sent, Txs
<1>3. OnlySent'
  BY <1>1, <1>2 DEF IInv, OnlySent
<1> QED  BY <1>1, <1>3 DEF IInv, TypeOK, Driven, Confirmed, OnlyWhileSending, NeverReusesSequence,
             Phases

\* Reporting: what is said to have succeeded did, at or below the floor.
LEMMA ReportKeepsInv ==
  ASSUME IInv, phase # "idle", NEW verdict \in {"declined", "success", "error"},
         Ends(verdict),
         verdict = "success" => phase = "settling",
         verdict = "declined" <=> phase = "built",
         phase = "built" => adrift' = adrift,
         \A e \in adrift' : e \in adrift \/ e[1] = tx,
         UNCHANGED <<height, queue, outcome, accounts, wallet, floor>>
  PROVE  IInv'
<1>1. tx \in Txs /\ report[tx] = "none" /\ tx \in Nat
      /\ tx' = tx /\ sequence' = sequence /\ open' = open
  BY DEF IInv, Driven, TypeOK, Txs, wallet
<1>2. /\ report' \in [Txs -> Verdicts] /\ phase' = "idle" /\ awaiting' = "nothing"
      /\ report'[tx] = verdict
      /\ \A t \in Txs : t # tx => report'[t] = report[t]
  BY <1>1 DEF Ends, Enters, IInv, TypeOK, Verdicts
<1>3. Sent \subseteq Sent'
  <2> SUFFICES ASSUME NEW t \in 1 .. tx, report[t] # "declined", ~(t = tx /\ phase = "built")
               PROVE  report'[t] # "declined"
    BY <1>1, <1>2 DEF Sent
  <2>1. t \in Txs
    BY <1>1, SubmitAssumption DEF Txs
  <2> QED  BY <1>2, <2>1
<1>4. phase # "built" => tx \in Sent'
  BY <1>1, <1>2 DEF Sent, Txs
<1>5. OnlySent'
  BY <1>1, <1>3, <1>4 DEF IInv, OnlySent
<1>6. TypeOK' /\ Driven' /\ OnlyWhileSending'
  BY <1>1, <1>2 DEF IInv, TypeOK, Driven, OnlyWhileSending, Phases, Calls
<1>7. Confirmed'
  BY <1>1, <1>2 DEF IInv, Confirmed
<1>8. NeverReusesSequence'
  <2> SUFFICES ASSUME NEW t \in Txs, NEW u \in 1 .. tx, t < u, report'[t] = "success"
               PROVE  sequence[t] < sequence[u]
    BY <1>1 DEF NeverReusesSequence
  <2>1. t # tx
    BY <1>1
  <2> QED  BY <1>2, <2>1 DEF IInv, NeverReusesSequence
<1> QED  BY <1>5, <1>6, <1>7, <1>8 DEF IInv

\* An envelope given up is the current transaction's.
LEMMA CastOffIsCurrent ==
  ASSUME CastOff
  PROVE  \A e \in adrift' : e \in adrift \/ e[1] = tx
  BY DEF CastOff

LEMMA AnsweredKeepsInv ==
  ASSUME IInv, Answered
  PROVE  IInv'
<1>1. CASE SendSignedTransaction
  <2> USE <1>1 DEF SendSignedTransaction
  <2>1. CASE Accepted
    BY <2>1, ProgressKeepsInv DEF Accepted, Enters, Calls
  <2>2. CASE Retryable
    <3>1. phase' \in {"sending", "polling"} /\ awaiting' \in Calls
      BY <2>2 DEF Retryable, Enters, Calls
    <3> QED  BY <2>2, <3>1, CastOffIsCurrent, ProgressKeepsInv DEF Retryable
  <2>3. CASE Refused
    BY <2>3, CastOffIsCurrent, ReportKeepsInv DEF Refused
  <2> QED  BY <2>1, <2>2, <2>3
<1>2. CASE PollTransaction
  <2> USE <1>2 DEF PollTransaction
  <2>1. UNCHANGED <<height, queue, outcome, accounts, adrift, wallet>>
    BY DEF network
  <2>2. CASE outcome[tx] = "FAILED"
    BY <2>1, <2>2, ReportKeepsInv
  <2>3. CASE outcome[tx] # "FAILED"
    <3>1. tx \in Txs /\ tx' = tx /\ sequence' = sequence /\ open' = open
      BY <2>1 DEF IInv, Driven, TypeOK, Txs, wallet
    <3>2. /\ phase = "polling" /\ phase' = "settling" /\ awaiting' = "nothing" /\ UNCHANGED report
          /\ outcome[tx] # "none" /\ floor' = Remembered(sequence[tx])
      BY <2>3 DEF Found, Enters
    <3>3. outcome[tx] = "SUCCESS"
      BY <2>3, <3>1, <3>2 DEF IInv, TypeOK
    <3>4. floor' \in Nat /\ floor <= floor' /\ sequence[tx] <= floor'
      BY <3>1, <3>2 DEF Remembered, IInv, TypeOK
    <3>5. Sent' = Sent
      BY <3>1, <3>2 DEF Sent
    <3>6. TypeOK' /\ Driven' /\ OnlySent' /\ OnlyWhileSending' /\ NeverReusesSequence'
      BY <2>1, <3>1, <3>2, <3>4, <3>5
         DEF IInv, TypeOK, Driven, OnlySent, OnlyWhileSending, NeverReusesSequence, Phases, Calls
    <3>7. Confirmed'
      BY <2>1, <3>1, <3>2, <3>3, <3>4 DEF IInv, Confirmed, TypeOK
    <3> QED  BY <3>6, <3>7 DEF IInv
  <2> QED  BY <2>2, <2>3
<1>3. CASE NotYet
  <2>1. phase \in {"sending", "polling", "settling"}
    BY <1>3 DEF NotYet, IInv, OnlyWhileSending
  <2> QED  BY <1>3, <2>1, ProgressKeepsInv DEF NotYet, network, Calls
<1>4. CASE Settled
  <2> USE <1>4 DEF Settled, network
  <2>1. CASE Ends("success")
    BY <2>1, ReportKeepsInv
  <2>2. CASE UNCHANGED <<phase, late, report>> /\ awaiting' = "nothing"
    BY <2>2, ProgressKeepsInv DEF Calls
  <2> QED  BY <2>1, <2>2
<1> QED  BY <1>1, <1>2, <1>3, <1>4 DEF Answered

LEMMA ClientKeepsInv ==
  ASSUME IInv, Client
  PROVE  IInv'
<1>1. CASE Offer
  BY <1>1, ProgressKeepsInv DEF Offer, network, Calls
<1>2. CASE Ask
  BY <1>2, ProgressKeepsInv DEF Ask, network, Calls
<1>3. CASE PollDeadline
  BY <1>3, ReportKeepsInv DEF PollDeadline, network
<1>4. CASE WaitForSequence
  BY <1>4, ReportKeepsInv DEF WaitForSequence, network
<1> QED  BY <1>1, <1>2, <1>3, <1>4 DEF Client

\* ... and every step keeps it.
THEOREM NextInv == IInv /\ [Next]_vars => IInv'
<1> SUFFICES ASSUME IInv, [Next]_vars PROVE IInv'
  OBVIOUS
<1>1. CASE Build
  BY <1>1, BuildKeepsInv
<1>2. CASE Sign
  BY <1>2, ProgressKeepsInv DEF Sign, network, IInv, TypeOK
<1>3. CASE Decline
  BY <1>3, ReportKeepsInv DEF Decline, network
<1>4. CASE Client
  BY <1>4, ClientKeepsInv
<1>5. CASE UNCHANGED vars
  BY <1>5 DEF vars, network, wallet, loop, IInv, TypeOK, Driven, Confirmed, OnlySent,
              OnlyWhileSending, NeverReusesSequence, Sent
<1>6. CASE Answered
  BY <1>6, AnsweredKeepsInv
<1> QED  BY <1>1, <1>2, <1>3, <1>4, <1>5, <1>6, NetworkKeepsInv DEF Next

\* applySequenceFloor and rememberSequence: whatever the providers show, a
\* build after a confirmed transaction never reuses its sequence number.
THEOREM SequencesAreFresh == Spec => []NeverReusesSequence
<1>1. IInv => NeverReusesSequence
  BY DEF IInv
<1> QED  BY <1>1, InitInv, NextInv, PTL DEF Spec
-----------------------------------------------------------------------------
\* A report is a step of the promise: the transaction was sent, had no report,
\* and success is only said of one that landed.
LEMMA ReportMaps ==
  ASSUME IInv, phase \notin {"idle", "built"}, NEW verdict \in {"success", "error"},
         Ends(verdict),
         verdict = "success" => phase = "settling",
         UNCHANGED <<outcome, tx>>
  PROVE  Promise!Report(tx, verdict)
<1>1. tx \in Txs /\ report[tx] = "none" /\ tx \in 1 .. tx
  BY DEF IInv, Driven, TypeOK, Txs
<1>2. tx \in Sent
  BY <1>1 DEF Sent
<1>3. Sent' = Sent
  <2> SUFFICES ASSUME NEW t \in 1 .. tx
               PROVE  report'[t] = "declined" <=> report[t] = "declined"
    BY DEF Sent, Ends, Enters
  <2>1. t \in Txs
    BY <1>1, SubmitAssumption DEF Txs
  <2> QED  BY <1>1, <2>1 DEF Ends, Enters, IInv, TypeOK
<1>4. verdict = "success" => tx \in Landed
  BY <1>1 DEF IInv, Confirmed, Landed
<1> QED  BY <1>1, <1>2, <1>3, <1>4 DEF Promise!Report, Landed, Ends, Enters

LEMMA DeclineMaps ==
  ASSUME IInv, Decline
  PROVE  Promise!Decline(tx)
<1>1. tx \in Txs /\ report[tx] = "none"
  BY DEF IInv, Driven, TypeOK, Txs, Decline
<1>2. tx \notin Sent
  BY DEF Decline, Sent
<1>3. Sent' = Sent
  <2>1. ASSUME NEW t \in 1 .. tx
        PROVE  (report'[t] # "declined") <=> (report[t] # "declined" /\ t # tx)
    <3>1. t \in Txs
      BY <1>1, SubmitAssumption, <2>1 DEF Txs
    <3> QED  BY <1>1, <3>1 DEF Decline, Ends, Enters, wallet, IInv, TypeOK
  <2> QED  BY <2>1 DEF Sent, Decline, Ends, Enters, wallet
<1> QED  BY <1>2, <1>3 DEF Promise!Decline, Landed, Decline, Ends, Enters, network, wallet

LEMMA LedgerMaps ==
  ASSUME IInv, NEW t \in Txs, Ledger(t)
  PROVE  Promise!Land(t) \/ UNCHANGED Promise!vars
<1>1. PICK o \in {"SUCCESS", "FAILED"} : outcome' = [outcome EXCEPT ![t] = o]
  BY DEF Ledger
<1>2. t \in Sent /\ outcome[t] = "none"
  BY DEF Ledger, IInv, OnlySent, TypeOK
<1>3. Sent' = Sent /\ UNCHANGED report
  BY DEF Ledger, Sent, wallet, loop
<1>4. outcome'[t] = o /\ \A u \in Txs : u # t => outcome'[u] = outcome[u]
  BY <1>1 DEF IInv, TypeOK
<1>5. CASE o = "SUCCESS"
  BY <1>2, <1>3, <1>4, <1>5 DEF Promise!Land, Landed
<1>6. CASE o = "FAILED"
  BY <1>2, <1>3, <1>4, <1>6 DEF Promise!vars, Landed
<1> QED  BY <1>5, <1>6

\* Steps of the send and poll loops that report nothing are not visible.
LEMMA SilentMaps ==
  ASSUME phase \notin {"idle", "built"}, phase' \notin {"idle", "built"},
         UNCHANGED <<outcome, tx, report>>
  PROVE  UNCHANGED Promise!vars
  BY DEF Promise!vars, Sent, Landed

LEMMA AnsweredMaps ==
  ASSUME IInv, Answered
  PROVE  (\E verdict \in {"success", "error"} : Promise!Report(tx, verdict))
         \/ UNCHANGED Promise!vars
<1>1. CASE SendSignedTransaction
  <2> USE <1>1 DEF SendSignedTransaction, wallet
  <2>1. CASE Accepted
    BY <2>1, SilentMaps DEF Accepted, Enters
  <2>2. CASE Retryable
    <3>1. phase' \in {"sending", "polling"}
      BY <2>2 DEF Retryable, Enters
    <3> QED  BY <2>2, <3>1, SilentMaps DEF Retryable
  <2>3. CASE Refused
    BY <2>3, ReportMaps DEF Refused
  <2> QED  BY <2>1, <2>2, <2>3
<1>2. CASE PollTransaction
  <2>1. CASE outcome[tx] = "FAILED"
    BY <1>2, <2>1, ReportMaps DEF PollTransaction, network, wallet
  <2>2. CASE outcome[tx] # "FAILED"
    BY <1>2, <2>2, SilentMaps DEF PollTransaction, Enters, network, wallet
  <2> QED  BY <2>1, <2>2
<1>3. CASE NotYet
  <2>1. phase \notin {"idle", "built"}
    BY <1>3 DEF NotYet, IInv, OnlyWhileSending
  <2> QED  BY <1>3, <2>1, SilentMaps DEF NotYet, network, wallet
<1>4. CASE Settled
  <2>1. CASE Ends("success")
    BY <1>4, <2>1, ReportMaps DEF Settled, network, wallet
  <2>2. CASE UNCHANGED <<phase, late, report>>
    BY <1>4, <2>2, SilentMaps DEF Settled, network, wallet
  <2> QED  BY <1>4, <2>1, <2>2 DEF Settled
<1> QED  BY <1>1, <1>2, <1>3, <1>4 DEF Answered

LEMMA ClientMaps ==
  ASSUME IInv, Client
  PROVE  (\E verdict \in {"success", "error"} : Promise!Report(tx, verdict))
         \/ UNCHANGED Promise!vars
<1>1. CASE Offer
  BY <1>1, SilentMaps DEF Offer, network, wallet
<1>2. CASE Ask
  BY <1>2, SilentMaps DEF Ask, network, wallet
<1>3. CASE PollDeadline
  BY <1>3, ReportMaps DEF PollDeadline, network, wallet
<1>4. CASE WaitForSequence
  BY <1>4, ReportMaps DEF WaitForSequence, network, wallet
<1> QED  BY <1>1, <1>2, <1>3, <1>4 DEF Client

LEMMA StepMaps ==
  ASSUME IInv, [Next]_vars
  PROVE  [Promise!Next]_(Promise!vars)
<1>1. CASE Build
  <2>1. Sent' = Sent
    BY <1>1 DEF Build, Sent, IInv, Driven, TypeOK, Txs
  <2> QED  BY <1>1, <2>1 DEF Build, network, Promise!vars, Landed
<1>2. CASE Sign
  <2>1. tx \in Txs /\ report[tx] = "none" /\ tx \in 1 .. tx
    BY <1>2 DEF Sign, IInv, Driven, TypeOK, Txs
  <2>2. Sent' = Sent \cup {tx}
    BY <1>2, <2>1 DEF Sign, Sent, wallet
  <2> QED  BY <1>2, <2>1, <2>2 DEF Sign, network, wallet, Promise!Next, Promise!Send, Landed
<1>3. CASE Decline
  <2>1. tx \in Txs
    BY <1>3 DEF Decline, IInv, Driven, TypeOK, Txs
  <2> QED  BY <1>3, <2>1, DeclineMaps DEF Promise!Next
<1>4. CASE Client \/ Answered
  <2>1. phase # "idle"
    BY <1>4 DEF Client, Offer, Ask, PollDeadline, WaitForSequence, Answered,
                SendSignedTransaction, PollTransaction, NotYet, Settled, IInv, OnlyWhileSending
  <2>2. tx \in Txs
    BY <2>1 DEF IInv, Driven, TypeOK, Txs
  <2> QED  BY <1>4, <2>2, ClientMaps, AnsweredMaps DEF Promise!Next
<1>5. ASSUME NEW t \in Txs, Ledger(t) PROVE [Promise!Next]_(Promise!vars)
  BY <1>5, LedgerMaps DEF Promise!Next
<1>6. ASSUME UNCHANGED <<outcome, tx, phase, report>> PROVE UNCHANGED Promise!vars
  BY <1>6 DEF Promise!vars, Sent, Landed
<1> QED  BY <1>1, <1>2, <1>3, <1>4, <1>5, <1>6
            DEF Next, Drop, OtherDevice, CatchUp, Arrives, ArrivesLate, TimePasses,
                vars, network, wallet, loop

LEMMA InitMaps == Init => Promise!Init
  BY DEF Init, Promise!Init, Sent, Landed, Txs

\* submit() never resolves for a transaction that did not take effect.
THEOREM SuccessMeansLanded == Spec => KeepsPromise
<1>1. IInv /\ [Next]_vars => [Promise!Next]_(Promise!vars)
  BY StepMaps
<1> QED  BY <1>1, InitInv, NextInv, InitMaps, PTL DEF Spec, KeepsPromise, Promise!Spec
-----------------------------------------------------------------------------
\* Who may change what.
LEMMA Movers ==
  ASSUME IInv, [Next]_vars
  PROVE  /\ \/ Build \/ \E t \in Txs : Ledger(t)
            \/ outcome' = outcome /\ tx' = tx /\ sequence' = sequence /\ open' = open
         /\ Build \/ PollTransaction \/ (floor' = floor /\ sequence' = sequence)
         /\ height' \in Nat /\ height <= height'
         /\ \A p \in Urls : accounts'[p] = accounts[p] \/ accounts'[p] = height'
<1> USE DEF wallet, loop, network
<1>1. height \in Nat /\ accounts \in [Urls -> Nat]
  BY DEF IInv, TypeOK
<1>2. CASE Build
  <2>1. height' = height /\ accounts' = accounts
    BY <1>2 DEF Build
  <2> QED  BY <1>1, <1>2, <2>1
<1>3. CASE Sign \/ Decline \/ UNCHANGED vars
  BY <1>1, <1>3 DEF Sign, Decline, vars
<1>4. CASE Client
  BY <1>1, <1>4 DEF Client, Offer, Ask, PollDeadline, WaitForSequence
<1>5. CASE Answered
  BY <1>1, <1>5 DEF Answered, SendSignedTransaction, PollTransaction, NotYet, Settled
<1>6. CASE OtherDevice \/ Arrives \/ TimePasses
  BY <1>1, <1>6 DEF OtherDevice, Arrives, TimePasses
<1>7. ASSUME NEW t \in Txs, Ledger(t) \/ Drop(t) \/ \E p \in Urls : ArrivesLate(t, p)
      PROVE  /\ \/ \E u \in Txs : Ledger(u)
                \/ outcome' = outcome /\ tx' = tx /\ sequence' = sequence /\ open' = open
             /\ floor' = floor /\ sequence' = sequence /\ accounts' = accounts
             /\ height' \in Nat /\ height <= height'
  <2>1. CASE Ledger(t)
    <3>1. floor' = floor /\ sequence' = sequence /\ accounts' = accounts /\ height' = height + 1
      BY <2>1 DEF Ledger
    <3> QED  BY <1>1, <2>1, <3>1
  <2>2. CASE Drop(t)
    BY <1>1, <2>2 DEF Drop
  <2>3. ASSUME NEW p \in Urls, ArrivesLate(t, p)
        PROVE  /\ UNCHANGED <<outcome, tx, sequence, open, floor, accounts>>
               /\ height' = height
    BY <2>3 DEF ArrivesLate
  <2> QED  BY <1>1, <1>7, <2>1, <2>2, <2>3
<1>8. ASSUME NEW p \in Urls, CatchUp(p)
      PROVE  /\ outcome' = outcome /\ tx' = tx /\ sequence' = sequence /\ open' = open
             /\ floor' = floor /\ height' = height
             /\ \A q \in Urls : accounts'[q] = accounts[q] \/ accounts'[q] = height'
  BY <1>1, <1>8 DEF CatchUp
<1> QED  BY <1>1, <1>2, <1>3, <1>4, <1>5, <1>6, <1>7, <1>8 DEF Next

\* The ledger executes at most one transaction of a sequence number.
OnePerSequence ==
  \A t, u \in Txs :
    outcome[t] # "none" /\ outcome[u] # "none" /\ sequence[t] = sequence[u] => t = u

LEMMA OnePerSequenceStep ==
  ASSUME IInv, OnePerSequence, [Next]_vars
  PROVE  OnePerSequence'
<1>1. ASSUME NEW t \in Txs, Ledger(t) PROVE OnePerSequence'
  <2>1. PICK o \in {"SUCCESS", "FAILED"} : outcome' = [outcome EXCEPT ![t] = o]
    BY <1>1 DEF Ledger
  <2>2. sequence' = sequence /\ sequence[t] = height + 1 /\ height \in Nat
    BY <1>1 DEF Ledger, wallet, IInv, TypeOK
  <2>3. outcome \in [Txs -> {"none", "SUCCESS", "FAILED"}] /\ sequence \in [Txs -> Nat]
    BY DEF IInv, TypeOK
  <2>4. \A u \in Txs : outcome[u] # "none" => sequence[u] <= height
    BY DEF IInv, OnlySent
  <2>5. \A u \in Txs : outcome[u] # "none" => sequence[u] # sequence[t]
    BY <2>2, <2>3, <2>4
  <2>6. \A u \in Txs : u # t => outcome'[u] = outcome[u]
    BY <2>1, <2>3
  <2> QED  BY <2>2, <2>5, <2>6 DEF OnePerSequence
<1>2. CASE Build
  <2>1. PICK n : sequence' = [sequence EXCEPT ![tx + 1] = n]
    BY <1>2 DEF Build
  <2>2. sequence \in [Txs -> Nat] /\ tx \in Nat /\ outcome' = outcome
    BY <1>2 DEF Build, network, IInv, TypeOK
  <2>3. \A u \in Txs : u # tx + 1 => sequence'[u] = sequence[u]
    BY <2>1, <2>2
  <2>4. tx + 1 \in Txs => outcome[tx + 1] = "none"
    BY <2>2 DEF IInv, OnlySent, Sent
  <2> QED  BY <2>2, <2>3, <2>4 DEF OnePerSequence
<1>3. CASE UNCHANGED <<outcome, sequence>>
  BY <1>3 DEF OnePerSequence
<1> QED
  BY <1>1, <1>2, <1>3, Movers

\* What a wallet's next transaction is numbered by never runs ahead of the
\* ledger, so neither do the numbers it gives out.
NumbersFollowLedger ==
  /\ \A p \in Urls : accounts[p] <= height
  /\ floor <= height
  /\ \A t \in Txs : sequence[t] <= height + 1

LEMMA NumbersFollowLedgerStep ==
  ASSUME IInv, NumbersFollowLedger, [Next]_vars
  PROVE  NumbersFollowLedger'
<1>1. height \in Nat /\ floor \in Nat /\ accounts \in [Urls -> Nat] /\ sequence \in [Txs -> Nat]
  BY DEF IInv, TypeOK
<1>2. CASE Build
  <2>1. PICK p \in Urls : sequence' = [sequence EXCEPT ![tx + 1] = Floored(accounts[p]) + 1]
    BY <1>2 DEF Build
  <2>2. Floored(accounts[p]) <= height /\ Floored(accounts[p]) \in Nat
    BY <1>1 DEF Floored, NumbersFollowLedger
  <2>3. \A t \in Txs : sequence'[t] = sequence[t] \/ sequence'[t] = Floored(accounts[p]) + 1
    BY <1>1, <2>1
  <2>4. \A t \in Txs : sequence'[t] <= height + 1
    BY <1>1, <2>2, <2>3 DEF NumbersFollowLedger
  <2> QED  BY <1>2, <2>4 DEF Build, network, NumbersFollowLedger
<1>3. CASE PollTransaction
  <2>1. UNCHANGED <<height, accounts, sequence>> /\ phase = "polling"
    BY <1>3 DEF PollTransaction, network, wallet
  <2>2. CASE floor' = floor
    BY <2>1, <2>2 DEF NumbersFollowLedger
  <2>3. CASE floor' = Remembered(sequence[tx])
    <3>1. tx \in Txs
      BY <2>1 DEF IInv, Driven, TypeOK, Txs
    <3>2. sequence[tx] <= height
      BY <1>3, <3>1 DEF PollTransaction, Found, IInv, OnlySent
    <3>3. floor' <= height
      BY <2>3, <3>2 DEF Remembered, NumbersFollowLedger
    <3> QED  BY <2>1, <3>3 DEF NumbersFollowLedger
  <2> QED  BY <1>3, <2>2, <2>3 DEF PollTransaction
<1>4. CASE UNCHANGED <<floor, sequence>>
  <2>1. height' \in Nat /\ height <= height'
    BY Movers
  <2>2. \A p \in Urls : accounts'[p] = accounts[p] \/ accounts'[p] = height'
    BY Movers
  <2> QED  BY <1>1, <1>4, <2>1, <2>2 DEF NumbersFollowLedger
<1> QED  BY <1>2, <1>3, <1>4, Movers

\* Of two transactions of which the first was open when the second was built,
\* either both ask for the same place or one of them has missed its own.
OneIsLost(t, u) ==
  \/ sequence[t] = sequence[u]
  \/ outcome[t] = "none" /\ sequence[t] <= height
  \/ outcome[u] = "none" /\ sequence[u] <= height

OpenOnesAreReplaced ==
  \A u \in Txs : \A t \in open[u] : t < u /\ u <= tx /\ OneIsLost(t, u)

LEMMA OpenOnesAreReplacedStep ==
  ASSUME IInv, IInv', NumbersFollowLedger, NumbersFollowLedger', OpenOnesAreReplaced, [Next]_vars
  PROVE  OpenOnesAreReplaced'
<1>1. /\ height \in Nat /\ height' \in Nat /\ height <= height'
      /\ sequence \in [Txs -> Nat] /\ sequence' \in [Txs -> Nat] /\ tx \in Nat
      /\ outcome \in [Txs -> {"none", "SUCCESS", "FAILED"}] /\ open \in [Txs -> SUBSET Txs]
  BY Movers DEF IInv, TypeOK
<1>2. ASSUME NEW x \in Txs, Ledger(x) PROVE OpenOnesAreReplaced'
  <2>1. PICK o \in {"SUCCESS", "FAILED"} : outcome' = [outcome EXCEPT ![x] = o]
    BY <1>2 DEF Ledger
  <2>2. UNCHANGED <<tx, sequence, open>> /\ sequence[x] = height + 1
    BY <1>2 DEF Ledger, wallet
  <2>3. \A t \in Txs : sequence[t] <= height => outcome'[t] = outcome[t]
    BY <1>1, <2>1, <2>2
  <2>4. ASSUME NEW t \in Txs, NEW u \in Txs, OneIsLost(t, u) PROVE OneIsLost(t, u)'
    BY <1>1, <2>2, <2>3, <2>4 DEF OneIsLost
  <2> QED  BY <1>1, <2>2, <2>4 DEF OpenOnesAreReplaced
<1>3. CASE Build
  <2>1. PICK n \in Txs :
           /\ tx' = n /\ n = tx + 1 /\ UNCHANGED <<height, outcome>>
           /\ open' = [open EXCEPT ![n] = {t \in 1 .. tx : outcome[t] = "none"}]
           /\ \E m : sequence' = [sequence EXCEPT ![n] = m]
    <3>1. tx + 1 \in Txs /\ tx' = tx + 1 /\ UNCHANGED <<height, outcome>>
      BY <1>1, <1>3, SubmitAssumption DEF Build, network, Txs
    <3>2. /\ open' = [open EXCEPT ![tx + 1] = {t \in 1 .. tx : outcome[t] = "none"}]
          /\ \E m : sequence' = [sequence EXCEPT ![tx + 1] = m]
      BY <1>3 DEF Build
    <3> QED  BY <3>1, <3>2
  <2>2. \A t \in Txs : t # n => sequence'[t] = sequence[t] /\ open'[t] = open[t]
    BY <1>1, <2>1
  <2>3. open'[n] = {t \in 1 .. tx : outcome[t] = "none"} /\ 1 .. tx \subseteq Txs
    <3>1. tx <= MaxTxs /\ MaxTxs \in Nat
      BY SubmitAssumption DEF IInv, TypeOK
    <3> QED  BY <1>1, <2>1, <3>1 DEF Txs
  <2>4. outcome[n] = "none"
    BY <1>1, <2>1 DEF IInv, OnlySent, Sent
  <2>5. \A t \in Txs : sequence'[t] <= height + 1
    BY <2>1 DEF NumbersFollowLedger
  <2>6. ASSUME NEW t \in open'[n] PROVE t < n /\ OneIsLost(t, n)'
    <3>1. t \in Txs /\ t <= tx /\ outcome[t] = "none" /\ t \in Nat
      BY <1>1, <2>3, <2>6
    <3>2. sequence'[t] \in Nat /\ sequence'[n] \in Nat
      BY <1>1, <2>1, <3>1
    <3>3. sequence'[t] <= height + 1 /\ sequence'[n] <= height + 1
      BY <2>1, <2>5, <3>1
    <3>4. \/ sequence'[t] = sequence'[n] \/ sequence'[t] <= height \/ sequence'[n] <= height
      BY <1>1, <3>2, <3>3
    <3>5. t < n
      BY <1>1, <2>1, <3>1
    <3> QED  BY <2>1, <2>4, <3>1, <3>4, <3>5 DEF OneIsLost
  <2>7. ASSUME NEW u \in Txs, u # n, NEW t \in open'[u] PROVE t < u /\ u <= tx' /\ OneIsLost(t, u)'
    <3>1. t \in open[u] /\ t \in Txs /\ t < u /\ u <= tx /\ OneIsLost(t, u)
      BY <1>1, <2>2, <2>7 DEF OpenOnesAreReplaced
    <3>2. t # n
      BY <1>1, <2>1, <3>1 DEF Txs
    <3>3. sequence'[t] = sequence[t] /\ sequence'[u] = sequence[u]
      BY <2>2, <2>7, <3>1, <3>2
    <3>4. u <= tx'
      BY <1>1, <2>1, <3>1 DEF Txs
    <3> QED  BY <2>1, <3>1, <3>3, <3>4 DEF OneIsLost
  <2> QED
    <3>1. n <= tx'
      BY <1>1, <2>1
    <3> QED  BY <2>6, <2>7, <3>1 DEF OpenOnesAreReplaced
<1>4. CASE UNCHANGED <<outcome, tx, sequence, open>>
  <2>1. ASSUME NEW t \in Txs, NEW u \in Txs, OneIsLost(t, u) PROVE OneIsLost(t, u)'
    BY <1>1, <1>4, <2>1 DEF OneIsLost
  <2> QED  BY <1>1, <1>4, <2>1 DEF OpenOnesAreReplaced
<1> QED  BY <1>2, <1>3, <1>4, Movers

\* Starting over cannot do the thing twice (applySequenceFloor, client.ts:816):
\* of two transactions of which the first was still open when the second was
\* built, at most one executes, whatever their sequence numbers and however
\* late an envelope arrives.
THEOREM RetriesReplace == Spec => []RetryReplaces
<1> DEFINE J == OnePerSequence /\ NumbersFollowLedger /\ OpenOnesAreReplaced
<1>1. Init => J
  BY DEF Init, OnePerSequence, NumbersFollowLedger, OpenOnesAreReplaced
<1>2. IInv /\ IInv' /\ J /\ [Next]_vars => J'
  BY OnePerSequenceStep, NumbersFollowLedgerStep, OpenOnesAreReplacedStep
<1>3. IInv /\ J => RetryReplaces
  <2> SUFFICES ASSUME IInv, J, NEW u \in 1 .. tx, NEW t \in open[u],
                      outcome[t] # "none", outcome[u] # "none"
               PROVE  FALSE
    BY DEF RetryReplaces
  <2>1. u \in Txs /\ t \in Txs
    BY SubmitAssumption DEF IInv, TypeOK, Txs
  <2>2. t < u /\ OneIsLost(t, u)
    BY <2>1 DEF OpenOnesAreReplaced
  <2>3. t = u
    BY <2>1, <2>2 DEF OneIsLost, OnePerSequence
  <2> QED  BY <2>1, <2>2, <2>3 DEF Txs
<1> HIDE DEF J
<1> QED  BY <1>1, <1>2, <1>3, InitInv, NextInv, PTL DEF Spec
-----------------------------------------------------------------------------
\* Every non-empty set of natural numbers has a least element.
LEMMA LeastNatural ==
  ASSUME NEW V, V \subseteq Nat, V # {}
  PROVE  \E v \in V : \A u \in V : v <= u
<1> DEFINE T == {0 .. v : v \in V}
<1>1. ASSUME NEW v \in V PROVE 0 .. v \in FiniteSubsetsOf(Nat)
  <2>1. v \in Int /\ 0 \in Int /\ (0 .. v) \subseteq Nat
    OBVIOUS
  <2>2. IsFiniteSet(0 .. v)
    BY <2>1, FS_Interval
  <2> QED  BY <2>1, <2>2 DEF FiniteSubsetsOf
<1>2. T \subseteq FiniteSubsetsOf(Nat) /\ T # {}
  BY <1>1
<1>3. PICK B \in T : \A C \in T : <<C, B>> \notin StrictSubsetOrdering(Nat)
  BY <1>2, FS_StrictSubsetOrderingWellFounded, WFMin
<1>4. PICK v \in V : B = 0 .. v
  BY <1>3
<1>5. ASSUME NEW u \in V, u < v PROVE FALSE
  <2>1. 0 .. u \in T /\ (0 .. u) \subseteq Nat /\ (0 .. v) \subseteq Nat
    OBVIOUS
  <2>2. (0 .. u) \subseteq (0 .. v) /\ 0 .. u # 0 .. v
    <3>1. v \in 0 .. v /\ v \notin 0 .. u
      BY <1>5
    <3> QED  BY <1>5, <3>1
  <2>3. <<0 .. u, 0 .. v>> \in (SUBSET Nat) \X (SUBSET Nat)
    BY <2>1
  <2>4. <<0 .. u, 0 .. v>> \in StrictSubsetOrdering(Nat)
    BY <2>2, <2>3 DEF StrictSubsetOrdering
  <2> QED  BY <1>3, <1>4, <2>1, <2>4
<1> QED  BY <1>5

LEMMA UrlsAreListed ==
  /\ DOMAIN RpcUrls = 1 .. Len(RpcUrls) /\ Len(RpcUrls) \in Nat
  /\ 1 \in DOMAIN RpcUrls
  /\ \A i \in DOMAIN RpcUrls : RpcUrls[i] \in Hosts
  BY ReadsAssumption DEF Hosts

\* The oldest view is some provider's, and no provider's is older.
LEMMA OldestIsLeast ==
  ASSUME view \in [Hosts -> Nat]
  PROVE  Oldest \in Nat /\ \A p \in Hosts : Oldest <= view[p]
<1> DEFINE V == {view[p] : p \in Hosts}
<1>1. V \subseteq Nat /\ V # {}
  BY UrlsAreListed
<1>2. \E v \in V : \A u \in V : v <= u
  BY <1>1, LeastNatural
<1>3. \E v \in V : \A p \in Hosts : v <= view[p]
  BY <1>2
<1>4. Oldest \in V /\ \A p \in Hosts : Oldest <= view[p]
  BY <1>3 DEF Oldest
<1> QED  BY <1>1, <1>4
-----------------------------------------------------------------------------
\* A simulation belongs to an attempt that has begun and, if that attempt is
\* the current one, its reply is no older than the attempt.
Lawful(s) ==
  /\ DOMAIN s = {"call", "of", "at", "step", "transient", "ledger"}
  /\ s.of \in Nat /\ s.of <= reading.attempt
  /\ s.at \in DOMAIN RpcUrls
  /\ s.step = "replied" /\ s.of = reading.attempt => oldest <= s.ledger

ReadsTyped ==
  /\ closed \in Nat /\ oldest \in Nat
  /\ view \in [Hosts -> Nat]
  /\ DOMAIN reading = {"kind", "round", "attempt"}
  /\ reading.attempt \in Nat

\* A provider's view never falls behind what the attempt began with.
ViewsAdvance == \A p \in Hosts : view[p] <= closed /\ oldest <= view[p]

ReadsInv ==
  /\ ReadsTyped /\ ViewsAdvance
  /\ \A s \in running : Lawful(s)
  /\ \A c \in DOMAIN parts : oldest <= parts[c]
  /\ Reading => answer.is # "value"
  /\ PartsAreFresh

\* An attempt starts with no parts, and what earlier ones left running is of an
\* earlier attempt.
LEMMA AttemptKeepsInv ==
  ASSUME ReadsInv, NEW kind, NEW attempt \in Nat, NEW left, left \subseteq running,
         left # {} => reading.attempt < attempt,
         StartAttempt(kind, attempt, left), answer'.is # "value",
         UNCHANGED <<closed, view>>
  PROVE  ReadsInv'
<1> USE DEF ReadsInv
<1>1. /\ reading' = [kind |-> kind, round |-> 1, attempt |-> attempt]
      /\ running' = left \cup Started(Rounds(kind)[1], attempt)
      /\ parts' = <<>> /\ oldest' = Oldest
  BY DEF StartAttempt
<1>2. oldest' \in Nat /\ \A p \in Hosts : oldest' <= view[p]
  BY <1>1, OldestIsLeast DEF ReadsTyped
<1>3. ReadsTyped' /\ ViewsAdvance'
  BY <1>1, <1>2 DEF ReadsTyped, ViewsAdvance
<1>4. ASSUME NEW s \in left PROVE Lawful(s)'
  BY <1>1, <1>4 DEF Lawful, ReadsTyped
<1>5. ASSUME NEW s \in Started(Rounds(kind)[1], attempt) PROVE Lawful(s)'
  BY <1>1, <1>5, UrlsAreListed DEF Lawful, Started, StepAt
<1>6. \A s \in running' : Lawful(s)'
  BY <1>1, <1>4, <1>5
<1>7. \A c \in DOMAIN parts' : oldest' <= parts'[c]
  BY <1>1
<1>8. (Reading => answer.is # "value")' /\ PartsAreFresh'
  BY DEF PartsAreFresh
<1> QED  BY <1>3, <1>6, <1>7, <1>8

\* Simulations that go on within the attempt, with nothing new to answer for.
LEMMA RunningKeepsInv ==
  ASSUME ReadsInv, UNCHANGED <<closed, view, oldest, parts, answer>>,
         \/ reading' = reading
         \/ Reading /\ reading' = [reading EXCEPT !.round = 0],
         \A s \in running' : Lawful(s)
  PROVE  ReadsInv'
<1> USE DEF ReadsInv
<1>1. reading'.attempt = reading.attempt /\ ReadsTyped' /\ (Reading' => Reading)
  BY DEF ReadsTyped, Reading
<1>2. \A s : Lawful(s) => Lawful(s)'
  BY <1>1 DEF Lawful
<1> QED  BY <1>1, <1>2 DEF ViewsAdvance, PartsAreFresh

\* A read that ends leaves nothing running, and a value is made of its parts.
LEMMA EndKeepsInv ==
  ASSUME ReadsInv, NEW result, NEW got, ReadEnds(result, got),
         result = "value" => \A c \in DOMAIN got : oldest <= got[c],
         UNCHANGED <<closed, view, oldest, parts>>
  PROVE  ReadsInv'
<1> USE DEF ReadsInv
<1>1. reading' = NotReading /\ running' = {} /\ answer' = [is |-> result, parts |-> got]
  BY DEF ReadEnds
<1>2. ReadsTyped' /\ ViewsAdvance' /\ ~Reading'
  BY <1>1 DEF ReadsTyped, ViewsAdvance, Reading, NotReading
<1>3. PartsAreFresh'
  BY <1>1 DEF PartsAreFresh
<1> QED  BY <1>1, <1>2, <1>3

LEMMA FailingKeepsInv ==
  ASSUME ReadsInv, Reading, NEW result \in {"failed", "refused"}, NEW transient, NEW left,
         AttemptFails(result, transient, left), \A s \in left : Lawful(s),
         UNCHANGED <<closed, view, oldest>>
  PROVE  ReadsInv'
<1>1. parts' = parts
  BY DEF AttemptFails
<1>2. CASE reading' = [reading EXCEPT !.round = 0] /\ running' = left /\ UNCHANGED answer
  BY <1>1, <1>2, RunningKeepsInv
<1>3. CASE ReadEnds(result, <<>>)
  BY <1>1, <1>3, EndKeepsInv
<1> QED  BY <1>2, <1>3 DEF AttemptFails

\* What goes on with the next provider asks it anew.
LEMMA OnwardIsLawful ==
  ASSUME NEW s, Lawful(s), Continues(s), NEW t
  PROVE  Lawful([s EXCEPT !.at = @ + 1, !.step = StepAt(RpcUrls[s.at + 1]), !.transient = t])
<1>1. s.at + 1 \in DOMAIN RpcUrls
  BY UrlsAreListed DEF Lawful, Continues
<1>2. StepAt(RpcUrls[s.at + 1]) # "replied"
  BY DEF StepAt
<1> QED  BY <1>1, <1>2 DEF Lawful

LEMMA FailureKeepsInv ==
  ASSUME ReadsInv, NEW failed, failed \subseteq running, NEW transient, NEW src,
         FailedAt(failed, transient, src)
  PROVE  ReadsInv'
<1> DEFINE over   == {s \in failed : ~Continues(s)}
           onward == {[s EXCEPT !.at = @ + 1, !.step = StepAt(RpcUrls[s.at + 1]),
                                !.transient = @ \/ transient] : s \in failed \ over}
           left   == {s \in running : <<s.call, s.of>> \notin {<<f.call, f.of>> : f \in failed}}
                       \cup onward
           fatal  == {s \in over : Heeded(s)}
<1>1. \A s \in running : Lawful(s)
  BY DEF ReadsInv
<1>2. \A s \in failed \ over :
        Lawful([s EXCEPT !.at = @ + 1, !.step = StepAt(RpcUrls[s.at + 1]),
                         !.transient = @ \/ transient])
  BY <1>1, OnwardIsLawful
<1>3. \A s \in left : Lawful(s)
  BY <1>1, <1>2
<1>4. /\ UNCHANGED <<closed, view, oldest>>
      /\ IF fatal # {}
         THEN AttemptFails("failed", transient \/ \E s \in fatal : s.transient, left)
         ELSE running' = left /\ UNCHANGED <<parts, reading, answer>>
  BY DEF FailedAt
<1> HIDE DEF left
<1>5. CASE fatal # {}
  <2>1. Reading
    BY <1>5 DEF Heeded
  <2> QED  BY <1>3, <1>4, <1>5, <2>1, FailingKeepsInv
<1>6. CASE fatal = {}
  BY <1>3, <1>4, <1>6, RunningKeepsInv
<1> QED  BY <1>5, <1>6

\* A reply of the current attempt is a part no older than the attempt.
LEMMA ReplyKeepsInv ==
  ASSUME ReadsInv, NEW s \in running, ReplyArrives(s)
  PROVE  ReadsInv'
<1> DEFINE left == running \ {s}
           got  == [c \in DOMAIN parts \cup {s.call} |->
                      IF c = s.call THEN s.ledger ELSE parts[c]]
<1>1. s.step = "replied" /\ UNCHANGED <<closed, view, oldest>>
  BY DEF ReplyArrives
<1>2. \A r \in running : Lawful(r)
  BY DEF ReadsInv
<1>3. CASE ~Heeded(s)
  <2>1. running' = left /\ UNCHANGED <<parts, reading, answer>>
    BY <1>3 DEF ReplyArrives
  <2> QED  BY <1>1, <1>2, <2>1, RunningKeepsInv
<1>4. CASE Heeded(s)
  <2>1. Reading /\ oldest <= s.ledger
    BY <1>1, <1>2, <1>4 DEF Heeded, Lawful
  <2>2. \A c \in DOMAIN parts : oldest <= parts[c]
    BY DEF ReadsInv
  <2>3. \A c \in DOMAIN got : oldest <= got[c]
    BY <2>1, <2>2
  <2> HIDE DEF got
  <2>4. CASE ReadEnds("value", got) /\ parts' = parts
    BY <1>1, <2>3, <2>4, EndKeepsInv
  <2>5. CASE /\ reading' = reading \/ reading' = [reading EXCEPT !.round = @ + 1]
             /\ running' = left
                  \/ \E calls : running' = left \cup Started(calls, reading.attempt)
             /\ parts' = got /\ UNCHANGED answer
    <3> USE DEF ReadsInv
    <3>1. reading'.attempt = reading.attempt /\ reading'.kind = reading.kind /\ ReadsTyped'
      BY <1>1, <2>5 DEF ReadsTyped
    <3>2. \A r : Lawful(r) => Lawful(r)'
      BY <1>1, <3>1 DEF Lawful
    <3>3. ASSUME NEW calls, NEW r \in Started(calls, reading.attempt) PROVE Lawful(r)
      BY <3>3, UrlsAreListed DEF Started, Lawful, StepAt, ReadsTyped
    <3>4. \A r \in running' : Lawful(r)'
      BY <1>2, <2>5, <3>2, <3>3
    <3>5. ViewsAdvance' /\ PartsAreFresh' /\ (Reading' => answer'.is # "value")
      BY <1>1, <2>1, <2>5 DEF ViewsAdvance, PartsAreFresh
    <3>6. \A c \in DOMAIN parts' : oldest' <= parts'[c]
      BY <1>1, <2>3, <2>5
    <3> QED  BY <3>1, <3>4, <3>5, <3>6
  <2> QED  BY <1>4, <2>4, <2>5 DEF ReplyArrives, got
<1> QED  BY <1>3, <1>4

LEMMA ReadsStep ==
  ASSUME ReadsInv, [ReadsNext]_readVars
  PROVE  ReadsInv'
<1>0. \A s \in running : Lawful(s)
  BY DEF ReadsInv
<1>1. CASE StartRead
  <2>1. PICK kind \in Kinds : StartAttempt(kind, 1, {})
    BY <1>1 DEF StartRead
  <2>2. answer'.is # "value" /\ UNCHANGED <<closed, view>>
    BY <1>1 DEF StartRead, NoAnswer
  <2> QED  BY <2>1, <2>2, AttemptKeepsInv
<1>2. CASE RetryRead
  <2>1. /\ StartAttempt(reading.kind, reading.attempt + 1, running)
        /\ UNCHANGED <<closed, view, answer>> /\ Reading
    BY <1>2 DEF RetryRead, NextAttempt, Asleep
  <2>2. reading.attempt \in Nat /\ answer'.is # "value"
    BY <2>1 DEF ReadsInv, ReadsTyped
  <2>3. reading.attempt + 1 \in Nat /\ reading.attempt < reading.attempt + 1
    BY <2>2
  <2> QED  BY <2>1, <2>2, <2>3, AttemptKeepsInv
<1>3. CASE LedgerCloses
  BY <1>3 DEF LedgerCloses, ReadsInv, ReadsTyped, ViewsAdvance, Lawful, Reading, PartsAreFresh
<1>4. ASSUME NEW p \in Hosts, ProviderCatchesUp(p) PROVE ReadsInv'
  <2>1. /\ view' = [view EXCEPT ![p] = closed]
        /\ UNCHANGED <<closed, reading, running, parts, oldest, answer>>
    BY <1>4 DEF ProviderCatchesUp
  <2>2. ReadsTyped' /\ ViewsAdvance'
    BY <2>1 DEF ReadsInv, ReadsTyped, ViewsAdvance
  <2> QED  BY <2>1, <2>2 DEF ReadsInv, Lawful, Reading, PartsAreFresh
<1>5. ASSUME NEW p \in Hosts, AccountAnswers(p) PROVE ReadsInv'
  <2> DEFINE waiting == {s \in running : At(s) = p /\ s.step = "account"}
  <2>1. CASE /\ running' = (running \ waiting) \cup {[s EXCEPT !.step = "simulate"] : s \in waiting}
             /\ UNCHANGED <<closed, view, reading, parts, oldest, answer>>
    <3>1. \A s \in waiting : Lawful([s EXCEPT !.step = "simulate"])
      BY <1>0 DEF Lawful
    <3>2. \A s \in running' : Lawful(s)
      BY <1>0, <2>1, <3>1
    <3> QED  BY <2>1, <3>2, RunningKeepsInv
  <2>2. CASE FailedAt(waiting, FALSE, [source EXCEPT ![p] = "none"])
    BY <2>2, FailureKeepsInv
  <2> QED  BY <1>5, <2>1, <2>2 DEF AccountAnswers
<1>6. ASSUME NEW s \in running, Simulates(s) PROVE ReadsInv'
  <2> DEFINE r == [s EXCEPT !.step = "replied", !.ledger = view[At(s)]]
  <2>1. running' = (running \ {s}) \cup {r} /\ UNCHANGED <<closed, view, reading, parts, oldest, answer>>
    BY <1>6 DEF Simulates
  <2>2. At(s) \in Hosts
    BY <1>0, UrlsAreListed DEF Lawful, At
  <2>3. oldest <= view[At(s)]
    BY <2>2 DEF ReadsInv, ViewsAdvance
  <2>4. Lawful(r)
    BY <1>0, <2>3 DEF Lawful
  <2> HIDE DEF r
  <2>5. \A q \in running' : Lawful(q)
    BY <1>0, <2>1, <2>4
  <2> QED  BY <2>1, <2>5, RunningKeepsInv
<1>7. ASSUME NEW s \in running, ContractRefuses(s) PROVE ReadsInv'
  <2>1. UNCHANGED <<closed, view, oldest>>
    BY <1>7 DEF ContractRefuses
  <2>2. CASE Heeded(s)
    <3>1. AttemptFails("refused", FALSE, running \ {s}) /\ Reading
      BY <1>7, <2>2 DEF ContractRefuses, Heeded
    <3> QED  BY <1>0, <2>1, <3>1, FailingKeepsInv
  <2>3. CASE ~Heeded(s)
    <3>1. running' = running \ {s} /\ UNCHANGED <<parts, reading, answer>>
      BY <1>7, <2>3 DEF ContractRefuses
    <3> QED  BY <1>0, <2>1, <3>1, RunningKeepsInv
  <2> QED  BY <2>2, <2>3
<1>8. ASSUME NEW s \in running, SimulationFails(s) PROVE ReadsInv'
  <2>1. PICK t \in BOOLEAN : FailedAt({s}, t, source)
    BY <1>8 DEF SimulationFails
  <2> QED  BY <2>1, FailureKeepsInv
<1>9. CASE UNCHANGED readVars
  BY <1>9 DEF readVars, ReadsInv, ReadsTyped, ViewsAdvance, Lawful, Reading, PartsAreFresh
<1> QED
  BY <1>1, <1>2, <1>3, <1>4, <1>5, <1>6, <1>7, <1>8, <1>9, ReplyKeepsInv
     DEF ReadsNext, Answers

LEMMA ReadsStart == ReadsInit => ReadsInv
  BY DEF ReadsInit, ReadsInv, ReadsTyped, ViewsAdvance, PartsAreFresh, Reading, NotReading,
         NoAnswer

\* A value is never put together with a part older than its attempt, however
\* many simulations of earlier attempts still come in.
THEOREM ValuesAreFresh == ReadsSpec => []PartsAreFresh
<1>1. ReadsInv => PartsAreFresh
  BY DEF ReadsInv
<1> QED  BY <1>1, ReadsStart, ReadsStep, PTL DEF ReadsSpec
-----------------------------------------------------------------------------
LEMMA Scales ==
  /\ BLEND_SCALAR_7 \in Nat \ {0} /\ BLEND_SCALAR_12 \in Nat \ {0}
  /\ UTIL_BREAKPOINT \in Nat /\ BLEND_SCALAR_7 - UTIL_BREAKPOINT \in Nat \ {0}
  BY BlendAssumption

\* Utilization is a fraction: it is capped when more is owed than supplied.
LEMMA UtilizationInRange ==
  ASSUME NEW borrowed \in Nat, NEW supplied \in Nat
  PROVE  blendUtilization(borrowed, supplied) \in 0 .. BLEND_SCALAR_7
  <1> DEFINE S == BLEND_SCALAR_7
  <1>0. S \in Nat \ {0}  BY Scales
  <1>1. CASE borrowed <= 0 \/ borrowed >= supplied
    BY <1>0, <1>1 DEF blendUtilization
  <1>2. CASE ~(borrowed <= 0 \/ borrowed >= supplied)
    <2>1. supplied \in Nat \ {0} /\ borrowed <= supplied  BY <1>2
    <2>2. borrowed * S <= S * supplied  BY <2>1, <1>0, SMT
    <2>3. MulDivCeil(borrowed, S, supplied) \in Nat  BY <1>0, <2>1, CeilBounds
    <2>4. MulDivCeil(borrowed, S, supplied) <= S  BY <1>0, <2>1, <2>2, CeilIsLeast
    <2> QED  BY <1>2, <2>3, <2>4 DEF blendUtilization, divCeil
  <1> QED  BY <1>1, <1>2

\* The curve gives a rate at every utilization.
LEMMA BorrowAprInNat ==
  ASSUME NEW c \in Curves, NEW u \in 0 .. BLEND_SCALAR_7, NEW m \in Nat
  PROVE  blendBorrowApr(c, u, m) \in Nat
  <1> DEFINE S == BLEND_SCALAR_7
  <1>1. /\ S \in Nat \ {0} /\ UTIL_BREAKPOINT \in Nat
        /\ S - UTIL_BREAKPOINT \in Nat \ {0} /\ UTIL_BREAKPOINT - c.util \in Nat \ {0}
        /\ c.util \in Nat \ {0}
        /\ c.rBase \in Nat /\ c.rOne \in Nat /\ c.rTwo \in Nat /\ c.rThree \in Nat
    BY Scales DEF Curves
  <1>2. ASSUME NEW a \in Nat, NEW b \in Nat  PROVE  mulCeil(a, b, S) \in Nat
    BY <1>1, CeilBounds DEF mulCeil
  <1>3. ASSUME NEW from \in Nat, NEW to \in Nat, to - from \in Nat \ {0}, u - from \in Nat
        PROVE  Along(u, from, to) \in Nat
    BY <1>1, <1>3, CeilBounds DEF Along, divCeil
  <1>4. CASE u <= c.util
    <2>1. Along(u, 0, c.util) \in Nat  BY <1>1, <1>3
    <2>2. mulCeil(Along(u, 0, c.util), c.rOne, S) \in Nat  BY <1>1, <1>2, <2>1
    <2>3. mulCeil(Along(u, 0, c.util), c.rOne, S) + c.rBase \in Nat  BY <1>1, <2>2
    <2>4. mulCeil(mulCeil(Along(u, 0, c.util), c.rOne, S) + c.rBase, m, S) \in Nat  BY <1>2, <2>3
    <2> QED  BY <1>4, <2>4 DEF blendBorrowApr
  <1>5. CASE ~(u <= c.util) /\ u <= UTIL_BREAKPOINT
    <2> DEFINE k == mulCeil(Along(u, c.util, UTIL_BREAKPOINT), c.rTwo, S)
    <2>1. u - c.util \in Nat  BY <1>1, <1>5
    <2>2. Along(u, c.util, UTIL_BREAKPOINT) \in Nat  BY <1>1, <1>3, <2>1
    <2>3. k \in Nat  BY <1>1, <1>2, <2>2
    <2>4. k + c.rOne + c.rBase \in Nat  BY <1>1, <2>3
    <2>5. mulCeil(k + c.rOne + c.rBase, m, S) \in Nat  BY <1>2, <2>4
    <2> QED  BY <1>5, <2>5 DEF blendBorrowApr
  <1>6. CASE ~(u <= c.util) /\ ~(u <= UTIL_BREAKPOINT)
    <2>1. u - UTIL_BREAKPOINT \in Nat  BY <1>1, <1>6
    <2>2. Along(u, UTIL_BREAKPOINT, S) \in Nat  BY <1>1, <1>3, <2>1
    <2>3. mulCeil(Along(u, UTIL_BREAKPOINT, S), c.rThree, S) \in Nat  BY <1>1, <1>2, <2>2
    <2>4. c.rTwo + c.rOne + c.rBase \in Nat  BY <1>1
    <2>5. mulCeil(m, c.rTwo + c.rOne + c.rBase, S) \in Nat  BY <1>2, <2>4
    <2> QED  BY <1>6, <2>3, <2>5 DEF blendBorrowApr
  <1> QED  BY <1>4, <1>5, <1>6

\* A share of a rate, twice rounded down, is no more than the rate.
LEMMA ShareOfRate ==
  ASSUME NEW a \in Nat, NEW u \in 0 .. BLEND_SCALAR_7
  PROVE  /\ MulDivFloor(a, u, BLEND_SCALAR_7) \in Nat
         /\ MulDivFloor(a, u, BLEND_SCALAR_7) <= a
  <1> DEFINE S == BLEND_SCALAR_7
             f == MulDivFloor(a, u, S)
  <1>1. S \in Nat \ {0} /\ u \in Nat /\ u <= S  BY Scales
  <1>2. f \in Nat /\ f * S <= a * u  BY <1>1, FloorBounds
  <1>3. a * u <= a * S  BY <1>1, SMT
  <1> HIDE DEF f
  <1>4. f * S <= a * S
    <2>1. f * S \in Nat /\ a * u \in Nat /\ a * S \in Nat  BY <1>1, <1>2, ProductInNat
    <2> QED  BY <1>2, <1>3, <2>1
  <1>5. f <= a  BY <1>1, <1>2, <1>4, CancelFactor
  <1> QED  BY <1>2, <1>5 DEF f

LEMMA SupplyBelowBorrow ==
  ASSUME NEW a \in Nat, NEW u \in 0 .. BLEND_SCALAR_7, NEW b \in 0 .. BLEND_SCALAR_7
  PROVE  blendSupplyApr(a, u, b) <= a
  <1> DEFINE f == MulDivFloor(a, u, BLEND_SCALAR_7)
             g == MulDivFloor(f, BLEND_SCALAR_7 - b, BLEND_SCALAR_7)
  <1>1. f \in Nat /\ f <= a  BY ShareOfRate
  <1>2. BLEND_SCALAR_7 - b \in 0 .. BLEND_SCALAR_7  BY Scales
  <1> HIDE DEF f
  <1>3. g \in Nat /\ g <= f  BY <1>1, <1>2, ShareOfRate
  <1> HIDE DEF g
  <1>4. g <= a  BY <1>1, <1>3
  <1> QED  BY <1>4 DEF blendSupplyApr, f, g

\* One unit more than the value covers the tokens.
LEMMA OneMoreCovers ==
  ASSUME NEW n \in Nat, NEW r \in Nat \ {0}
  PROVE  n <= MulDivCeil(MulDivFloor(n, r, BLEND_SCALAR_12) + 1, BLEND_SCALAR_12, r)
  <1> DEFINE S == BLEND_SCALAR_12
             v == MulDivFloor(n, r, S)
             k == MulDivCeil(v + 1, S, r)
  <1>1. S \in Nat \ {0}  BY Scales
  <1>2. v \in Nat /\ n * r < v * S + S  BY <1>1, FloorBounds
  <1> HIDE DEF v
  <1>3. v + 1 \in Nat  BY <1>2
  <1>4. k \in Nat /\ k * r >= (v + 1) * S  BY <1>1, <1>3, CeilBounds
  <1> HIDE DEF k
  <1>5. (v + 1) * S = v * S + S  BY <1>1, <1>2, SMT
  <1>6. n * r \in Nat /\ k * r \in Nat /\ v * S \in Nat  BY <1>1, <1>2, <1>4, ProductInNat
  <1>7. n * r <= k * r  BY <1>1, <1>2, <1>4, <1>5, <1>6
  <1>8. n <= k  BY <1>4, <1>7, CancelFactor
  <1> QED  BY <1>8 DEF v, k
-----------------------------------------------------------------------------
\* The reserve's state is what get_reserve may return.
BlendTypeOK == reserve \in ReserveData /\ held \in [Buckets -> Nat]

LEMMA BlendInitType == BlendInit => BlendTypeOK
  BY Scales DEF BlendInit, BlendTypeOK, ReserveData, Buckets

LEMMA PoolRoundings ==
  ASSUME BlendTypeOK, NEW n \in Nat
  PROVE  Credited(n) \in Nat /\ BurnedFor(n) \in Nat /\ Owed(n) \in Nat
  <1>1. reserve.bRate \in Nat \ {0} /\ reserve.dRate \in Nat \ {0}  BY DEF BlendTypeOK, ReserveData
  <1> QED  BY <1>1, Scales, FloorBounds, CeilBounds DEF Credited, BurnedFor, Owed

LEMMA BlendStepType == BlendTypeOK /\ [BlendNext]_blendVars => BlendTypeOK'
  <1> SUFFICES ASSUME BlendTypeOK, [BlendNext]_blendVars  PROVE BlendTypeOK'
    OBVIOUS
  <1> USE DEF BlendTypeOK, ReserveData, Buckets
  <1>0. Amounts \subseteq Nat /\ Growth \subseteq Nat \ {0} /\ Modifiers \subseteq Nat
    BY ReserveAssumption
  <1>1. ASSUME NEW n \in Amounts, OthersSupply(n)  PROVE BlendTypeOK'
    <2>1. Credited(n) \in Nat  BY <1>0, PoolRoundings
    <2> QED  BY <1>1, <2>1 DEF OthersSupply
  <1>2. ASSUME NEW n \in Amounts, OthersWithdraw(n)  PROVE BlendTypeOK'
    <2>1. BurnedFor(n) \in Nat  BY <1>0, PoolRoundings
    <2>2. held["supply"] \in Nat /\ held["collateral"] \in Nat  OBVIOUS
    <2>3. reserve.bSupply - BurnedFor(n) \in Nat  BY <1>2, <2>1, <2>2 DEF OthersWithdraw
    <2> QED  BY <1>2, <2>3 DEF OthersWithdraw
  <1>3. ASSUME NEW n \in Amounts, Borrow(n)  PROVE BlendTypeOK'
    <2>1. Owed(n) \in Nat  BY <1>0, PoolRoundings
    <2> QED  BY <1>3, <2>1 DEF Borrow
  <1>4. ASSUME NEW n \in Amounts, Repay(n)  PROVE BlendTypeOK'
    <2>1. Owed(n) \in Nat  BY <1>0, PoolRoundings
    <2>2. reserve.dSupply - Owed(n) \in Nat  BY <1>4, <2>1 DEF Repay
    <2> QED  BY <1>4, <2>2 DEF Repay
  <1>5. ASSUME NEW n \in Amounts, NEW b \in Buckets, HolderSupplies(b, n)  PROVE BlendTypeOK'
    <2>1. Credited(n) \in Nat  BY <1>0, PoolRoundings
    <2> QED  BY <1>5, <2>1 DEF HolderSupplies
  <1>6. ASSUME NEW g \in Growth, Accrue(g)  PROVE BlendTypeOK'
    <2>1. PICK b \in {0, g}, m \in Modifiers :
            reserve' = [reserve EXCEPT !.dRate = @ + g, !.bRate = @ + b, !.irMod = m]
      BY <1>6 DEF Accrue
    <2>2. b \in Nat /\ g \in Nat /\ m \in Nat  BY <1>0
    <2>3. reserve.dRate + g \in Nat \ {0} /\ reserve.bRate + b \in Nat \ {0}  BY <2>2
    <2>4. reserve' \in ReserveData  BY <2>1, <2>2, <2>3
    <2> QED  BY <1>6, <2>4 DEF Accrue
  <1>7. ASSUME NEW g \in Growth, WriteOff(g)  PROVE BlendTypeOK'
    <2>1. g \in Nat \ {0} /\ g < reserve.bRate  BY <1>0, <1>7 DEF WriteOff
    <2>2. reserve.bRate - g \in Nat \ {0}  BY <2>1
    <2>3. reserve' \in ReserveData  BY <1>7, <2>2 DEF WriteOff
    <2> QED  BY <1>7, <2>3 DEF WriteOff
  <1>8. CASE UNCHANGED blendVars
    BY <1>8 DEF blendVars
  <1> QED  BY <1>1, <1>2, <1>3, <1>4, <1>5, <1>6, <1>7, <1>8 DEF BlendNext

LEMMA BlendTyped == BlendSpec => []BlendTypeOK
  <1> QED  BY BlendInitType, BlendStepType, PTL DEF BlendSpec

LEMMA TypedSuppliersArePaidFor == BlendTypeOK => SupplyAprIsPaidFor
  <1> SUFFICES ASSUME BlendTypeOK  PROVE SupplyAprIsPaidFor
    OBVIOUS
  <1> DEFINE s == blendAssetsFromBTokens(reserve.bSupply, reserve.bRate)
             b == blendAssetsFromDTokens(reserve.dSupply, reserve.dRate)
             u == blendUtilization(b, s)
             a == blendBorrowApr(Curve, u, reserve.irMod)
  <1>1. /\ reserve.bSupply \in Nat /\ reserve.bRate \in Nat
        /\ reserve.dSupply \in Nat /\ reserve.dRate \in Nat /\ reserve.irMod \in Nat
    BY DEF BlendTypeOK, ReserveData
  <1>2. s \in Nat /\ b \in Nat
    BY <1>1, Scales, FloorBounds DEF blendAssetsFromBTokens, blendAssetsFromDTokens
  <1> HIDE DEF s, b
  <1>3. u \in 0 .. BLEND_SCALAR_7  BY <1>2, UtilizationInRange
  <1> HIDE DEF u
  <1>4. a \in Nat  BY <1>1, <1>3, BorrowAprInNat, ReserveAssumption
  <1> HIDE DEF a
  <1>5. blendSupplyApr(a, u, BstopRate) <= a  BY <1>3, <1>4, SupplyBelowBorrow, ReserveAssumption
  <1>6. Rates.borrowApr = a /\ Rates.supplyApr = blendSupplyApr(a, u, BstopRate)
    BY DEF Rates, Config, blendRates, s, b, u, a
  <1> QED  BY <1>5, <1>6 DEF SupplyAprIsPaidFor

\* The variable rate the app shows is never above what borrowers pay.
THEOREM SuppliersArePaidFor == BlendSpec => []SupplyAprIsPaidFor
  BY BlendTyped, TypedSuppliersArePaidFor, PTL

LEMMA TypedWithdrawalsDrain == BlendTypeOK => DrainsBuckets
  <1> SUFFICES ASSUME BlendTypeOK  PROVE DrainsBuckets
    OBVIOUS
  <1>1. reserve.bRate \in Nat \ {0}  BY DEF BlendTypeOK, ReserveData
  <1>2. ASSUME NEW n \in Nat
        PROVE  LET v == blendAssetsFromBTokens(BalanceAt(Map(n), Index), reserve.bRate)
               IN  v > 0 => n <= BurnedFor(WithdrawRequest(v))
    <2> DEFINE v == blendAssetsFromBTokens(BalanceAt(Map(n), Index), reserve.bRate)
    <2>1. BalanceAt(Map(n), Index) = n
      <3>1. CASE n = 0  BY <3>1 DEF BalanceAt, Map, Index
      <3>2. CASE n # 0  BY <3>2 DEF BalanceAt, Map, Index
      <3> QED  BY <3>1, <3>2
    <2>2. v = MulDivFloor(n, reserve.bRate, BLEND_SCALAR_12)  BY <2>1 DEF blendAssetsFromBTokens
    <2>3. n <= MulDivCeil(v + 1, BLEND_SCALAR_12, reserve.bRate)  BY <1>1, <2>2, OneMoreCovers
    <2> HIDE DEF v
    <2>4. v > 0 => n <= BurnedFor(WithdrawRequest(v))  BY <2>3 DEF BurnedFor, WithdrawRequest
    <2> QED  BY <2>4 DEF v
  <1>3. held["supply"] \in Nat /\ held["collateral"] \in Nat  BY DEF BlendTypeOK, Buckets
  <1>4. /\ Shown.supplyValue = blendAssetsFromBTokens(BalanceAt(Map(held["supply"]), Index), reserve.bRate)
        /\ Shown.collateralValue = blendAssetsFromBTokens(BalanceAt(Map(held["collateral"]), Index), reserve.bRate)
    BY DEF Shown, blendPositionFor, Config
  <1> QED  BY <1>2, <1>3, <1>4 DEF DrainsBuckets

\* A withdrawal of the deposit as just read empties every bucket that shows a value.
THEOREM WithdrawalsDrain == BlendSpec => []DrainsBuckets
  BY BlendTyped, TypedWithdrawalsDrain, PTL
=============================================================================
