---------------------------- MODULE DeployScript ----------------------------
(***************************************************************************)
(* scripts/deploy-testnet-resilient.sh: five contracts are deployed and    *)
(* initialized one by one, the script's progress is kept in a state file   *)
(* that is replaced after each step, and the operator reruns the script    *)
(* until it is through.  The script may stop anywhere, with whatever the   *)
(* environment of the next run says; the ledger keeps what landed.         *)
(***************************************************************************)
EXTENDS Integers, Sequences

CONSTANTS
  Commits,       \* source revisions the operator may have checked out
  Maturities,    \* 90 days from the moment a run starts, or the operator's own
  Provided,      \* values of $UNDERLYING, Unset among them
  Default,       \* the underlying resolved when none is given
  Unset,         \* an empty variable
  MaxCrashes,    \* bound of the run
  MaxReruns      \* runs after the first one that finished (bound of the run)

\* In the order the script deploys and initializes them.
Contracts == <<"SY", "PT", "YT", "TK", "AMM">>
Names == {Contracts[i] : i \in DOMAIN Contracts}

ASSUME DeployAssumption ==
  /\ Unset \notin Commits \cup Maturities /\ Default # Unset
  /\ MaxCrashes \in Nat /\ MaxReruns \in Nat

VARIABLES
  code,       \* what is deployed on the ledger: contract and revision, in order
  args,       \* what each of them was initialized with
  file,       \* the state file
  shell,      \* the running script's variables
  stage,      \* the step the script is at; 0 when it is not running
  unsaved,    \* an invocation landed and save_state has not run yet
  manifest,   \* deployments/testnet.toml
  crashes, reruns,
  unmarked,   \* history: a run stopped after an initialization, before its save
  replaced    \* history: a run came with another $UNDERLYING than the one that
              \* the SY wrapper had been initialized with

histories  == <<unmarked, replaced>>
deployVars == <<code, args, file, shell, stage, unsaved, manifest, crashes, reruns, histories>>

\* Steps: 1 resolves the underlying, then each contract is deployed, then each
\* is initialized, then the manifest is written.
DeployStep(i) == 1 + i
InitStep(i) == 1 + Len(Contracts) + i
LastStep == 2 + 2 * Len(Contracts)

Blank == [commit |-> Unset, maturity |-> Unset, underlying |-> Unset,
          address |-> [c \in Names |-> 0], done |-> [c \in Names |-> FALSE]]

DeployInit ==
  /\ code = <<>> /\ args = <<>>
  /\ file = Blank /\ shell = Blank
  /\ stage = 0 /\ unsaved = FALSE /\ manifest = Unset
  /\ crashes = 0 /\ reruns = 0 /\ unmarked = FALSE /\ replaced = FALSE

\* Mutant of LoadState: MATURITY is not among the saved variables.
LoadStateAfresh(commit, maturity) ==
  [file EXCEPT !.commit = commit, !.maturity = maturity]

\* load_state: what the file holds overrides what this run computed.
LoadState(commit, maturity) ==
  IF file.maturity = Unset
  THEN [file EXCEPT !.commit = commit, !.maturity = maturity]
  ELSE [file EXCEPT !.commit = commit]

\* A state file made from another revision stops the run before it does anything.
Start ==
  /\ stage = 0
  /\ manifest # Unset => reruns < MaxReruns
  /\ reruns' = IF manifest # Unset THEN reruns + 1 ELSE reruns
  /\ \E commit \in Commits, maturity \in Maturities :
       /\ file.commit \in {Unset, commit}
       /\ shell' = LoadState(commit, maturity)
  /\ file' = shell'
  /\ stage' = 1
  /\ UNCHANGED <<code, args, unsaved, manifest, crashes, histories>>

\* $UNDERLYING goes before what the state file has.
ResolveUnderlying ==
  /\ stage = 1
  /\ \E given \in Provided :
       shell' = [shell EXCEPT !.underlying =
                   IF given # Unset THEN given ELSE IF @ # Unset THEN @ ELSE Default]
  /\ file' = shell'
  /\ stage' = 2
  /\ replaced' = (replaced \/ (shell.done["SY"] /\ shell'.underlying # shell.underlying))
  /\ UNCHANGED <<code, args, unsaved, manifest, crashes, reruns, unmarked>>

\* deploy_wasm_once: skip what has an address, else deploy and note the address.
DeployOnce(i) ==
  /\ stage = DeployStep(i) /\ ~unsaved
  /\ IF shell.address[Contracts[i]] # 0
     THEN stage' = stage + 1 /\ UNCHANGED <<code, args, shell, unsaved>>
     ELSE /\ code' = Append(code, [contract |-> Contracts[i], commit |-> shell.commit])
          /\ args' = Append(args, Unset)
          /\ shell' = [shell EXCEPT !.address[Contracts[i]] = Len(code')]
          /\ unsaved' = TRUE /\ UNCHANGED stage
  /\ UNCHANGED <<file, manifest, crashes, reruns, histories>>

\* The contracts whose addresses the initialization of c is given.
Peers == [c \in Names |-> CASE c = "SY" -> {}
                             [] c \in {"PT", "YT"} -> {"TK", "SY"}
                             [] c = "TK" -> {"SY", "PT", "YT"}
                             [] c = "AMM" -> {"PT", "SY", "YT", "TK"}]

\* Only the SY wrapper is told of the underlying, and it has no maturity.
Arguments(c, s) ==
  [underlying |-> IF c = "SY" THEN s.underlying ELSE Unset,
   maturity   |-> IF c = "SY" THEN Unset ELSE s.maturity,
   peers      |-> [d \in Peers[c] |-> s.address[d]]]

\* invoke_once: skip what is marked; a contract that is already initialized
\* panics with AlreadyInitialized, and set -e ends the script.
InvokeOnce(i) ==
  LET c == Contracts[i] IN
  /\ stage = InitStep(i) /\ ~unsaved
  /\ \/ /\ shell.done[c]
        /\ stage' = stage + 1 /\ UNCHANGED <<args, shell, unsaved>>
     \/ /\ ~shell.done[c] /\ args[shell.address[c]] = Unset
        /\ args' = [args EXCEPT ![shell.address[c]] = Arguments(c, shell)]
        /\ shell' = [shell EXCEPT !.done[c] = TRUE]
        /\ unsaved' = TRUE /\ UNCHANGED stage
     \/ /\ ~shell.done[c] /\ args[shell.address[c]] # Unset
        /\ stage' = 0 /\ shell' = Blank /\ UNCHANGED <<args, unsaved>>
  /\ UNCHANGED <<code, file, manifest, crashes, reruns, histories>>

\* Mutant of SavedState: the markers are not among the saved variables.
SavedAddresses == [shell EXCEPT !.done = file.done]

\* save_state writes a temporary file and moves it over the old one.
SavedState == shell

SaveState ==
  /\ unsaved
  /\ file' = SavedState
  /\ unsaved' = FALSE /\ stage' = stage + 1
  /\ UNCHANGED <<code, args, shell, manifest, crashes, reruns, histories>>

WriteManifest ==
  /\ stage = LastStep
  /\ \A c \in Names : code[shell.address[c]] = [contract |-> c, commit |-> shell.commit]
  /\ manifest' = shell
  /\ stage' = 0 /\ shell' = Blank
  /\ UNCHANGED <<code, args, file, unsaved, crashes, reruns, histories>>

\* The script is killed, the CLI fails, the network drops a transaction.
Crash ==
  /\ stage # 0 /\ crashes < MaxCrashes
  /\ crashes' = crashes + 1
  /\ stage' = 0 /\ shell' = Blank /\ unsaved' = FALSE
  /\ unmarked' = (unmarked \/ (unsaved /\ stage > DeployStep(Len(Contracts))))
  /\ UNCHANGED <<code, args, file, manifest, reruns, replaced>>

Script ==
  \/ ResolveUnderlying \/ SaveState \/ WriteManifest
  \/ \E i \in DOMAIN Contracts : DeployOnce(i) \/ InvokeOnce(i)

DeployNext == Start \/ Script \/ Crash

\* The shell runs on; an operator who has no manifest yet runs the script again.
DeploySpec ==
  /\ DeployInit /\ [][DeployNext]_deployVars
  /\ WF_deployVars(Script)
  /\ WF_deployVars(Start /\ manifest = Unset)
-----------------------------------------------------------------------------
\* However often the script stopped and was rerun, from whatever revision and
\* with whatever maturity, the manifest it writes describes one market: every
\* contract it lists was built from the revision it names and initialized for
\* the maturity and with the addresses it lists.  So is the underlying, for any
\* $UNDERLYING, unless it was another one once the SY wrapper had been
\* initialized (load_state, deploy_wasm_once, invoke_once).
ManifestIsOneMarket ==
  manifest # Unset =>
    \A c \in Names :
      /\ code[manifest.address[c]] = [contract |-> c, commit |-> manifest.commit]
      /\ (c = "SY" /\ replaced) \/ args[manifest.address[c]] = Arguments(c, manifest)

\* What the script's header says: stopped at most MaxCrashes times and rerun,
\* it gets to the manifest.
Resumable == <>(manifest # Unset)

\* ... and once started it does, also after a deployment whose address was never
\* saved, unless a run stopped between an initialization and the save of its
\* marker.
ResumesOrUnmarked == stage # 0 ~> manifest # Unset \/ unmarked
=============================================================================
