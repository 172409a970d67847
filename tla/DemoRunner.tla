----------------------------- MODULE DemoRunner -----------------------------
(***************************************************************************)
(* The demo API and the demo pages that drive it.  The server runs one     *)
(* task at a time in a child process and keeps two globals: the active     *)
(* task, with the tail of its output, and the last result.  A page posts   *)
(* its tasks in order, polls for the result of each and logs what is new   *)
(* in the output.  What the server does when a child ends is spread over   *)
(* several callbacks, and requests may be answered in between.             *)
(***************************************************************************)
EXTENDS Integers, FiniteSets, Sequences

CONSTANTS
  Pages,      \* browser tabs and other callers
  MaxRuns,    \* child processes started (bound of the run)
  MaxOutput,  \* pieces of output a child writes (bound of the run)
  Buffer      \* MAX_OUTPUT_CHARS, in pieces

\* In the order a page runs them.
Tasks == <<"auth", "amm-routes">>
Runs == 1 .. MaxRuns

ASSUME DemoAssumption == {MaxRuns, MaxOutput} \subseteq Nat /\ Buffer \in Nat \ {0}

VARIABLES
  runs,      \* children started so far
  owner,     \* the page and task each run was started for
  child,     \* where each run stands
  good,      \* the last run exited with code 0
  written,   \* output of the run that may still be asked for
  active,    \* __siderealActiveDemoTask, 0 when undefined
  result,    \* __siderealLastDemoResult, 0 when undefined
  page       \* each page: its task, where it stands, and what it has logged of
             \* the output of the task it waits for, or that passed last

server == <<runs, owner, child, good, written, active, result>>
demoVars == <<server, page>>

NoOwner == [by |-> "nobody", task |-> "none"]
Loaded  == [at |-> 1, doing |-> "checking", near |-> FALSE, offset |-> 0, log |-> <<>>]

DemoInit ==
  /\ runs = 0 /\ owner = [r \in Runs |-> NoOwner]
  /\ child = [r \in Runs |-> "none"] /\ good = FALSE /\ written = 0
  /\ active = 0 /\ result = 0
  /\ page = [p \in Pages |-> Loaded]

Turns(p, doing) == page' = [page EXCEPT ![p].doing = doing]

\* GET answers, or the automation is not there (disabled, or no runner).
detectDemoRunnerAvailable == {"idle", "unavailable"}

Detect(p) ==
  /\ page[p].doing = "checking" /\ \E found \in detectDemoRunnerAvailable : Turns(p, found)
  /\ UNCHANGED server
-----------------------------------------------------------------------------
\* What a page shows of its progress.

Task(p) == Tasks[page[p].at]

Failures == {"refused", "rejected", "gave up", "failed"}

hasStarted(p) == page[p].doing \notin {"checking", "unavailable", "idle"}
allPassed(p)  == page[p].doing = "passed"
running(p)    == page[p].doing \in {"waiting", "next"}

RunButton(p) ==
  [disabled |-> hasStarted(p) \/ page[p].doing # "idle",
   label    |-> CASE page[p].doing = "checking"    -> "checking"
                  [] page[p].doing = "unavailable" -> "run locally"
                  [] running(p)                    -> "running"
                  [] allPassed(p)                  -> "complete"
                  [] OTHER                         -> IF hasStarted(p) THEN "started" ELSE "run"]
-----------------------------------------------------------------------------
\* Mutant of SlotTaken: the handler does not look at the active task.
SlotUnseen == FALSE

SlotTaken == active # 0

\* What a page makes of the answer to its post; of one that does not reach it,
\* that the task failed.
Told == [started |-> "waiting", taken |-> "refused", invalid |-> "rejected", lost |-> "rejected"]

\* The child that starts takes the slot, and the last result is forgotten.
Starts(p, told) ==
  /\ runs < MaxRuns /\ runs' = runs + 1
  /\ owner' = [r \in Runs |-> IF r = runs' THEN [by |-> p, task |-> Task(p)] ELSE NoOwner]
  /\ child' = [child EXCEPT ![runs'] = "running"]
  /\ active' = runs' /\ result' = 0 /\ written' = 0
  /\ page' = [page EXCEPT ![p].doing = told, ![p].offset = 0, ![p].log = <<>>]
  /\ good' = FALSE

\* From the check of the active task to its assignment nothing is awaited.  A
\* task that is running is answered with 409; before that, a maturity that has
\* come too near since it was picked with 400.
POST(p) ==
  IF Task(p) = "amm-routes" /\ page[p].near THEN Turns(p, Told.invalid) /\ UNCHANGED server
  ELSE IF SlotTaken THEN Turns(p, Told.taken) /\ UNCHANGED server
  ELSE Starts(p, Told.started) \/ Starts(p, Told.lost)

runAll(p) == (page[p].doing = "next" \/ ~RunButton(p).disabled) /\ POST(p)

MaturityNears(p) ==
  /\ running(p) /\ ~page[p].near /\ page' = [page EXCEPT ![p].near = TRUE]
  /\ UNCHANGED server

Moves(r, from, to) ==
  /\ child[r] = from
  /\ child' = [child EXCEPT ![r] = to]
  /\ UNCHANGED <<runs, owner, page>>

\* A piece of output of the child, or of one that it started.
Writes(r) ==
  /\ child[r] \in {"running", "killed"} /\ written < MaxOutput
  /\ written' = written + 1
  /\ UNCHANGED <<runs, owner, child, good, active, result, page>>

\* The timeout sends SIGTERM to the child alone.  'close' comes when no process
\* holds the pipes any more: those that the child started may do so for ever.
TimesOut(r) == Moves(r, "running", "killed") /\ UNCHANGED <<good, written, active, result>>
Closes(r) ==
  /\ \E from \in {"running", "killed"} : Moves(r, from, "closed")
  /\ good' \in BOOLEAN
  /\ UNCHANGED <<written, active, result>>

\* .then: the promise of the closed child resolves and its result is kept.
Records(r) == Moves(r, "closed", "recorded") /\ result' = r /\ UNCHANGED <<good, written, active>>

\* Mutant of Released: the slot is never cleared.
StillActive(r) == active

\* .finally: the slot is cleared if it is still this task's.
Released(r) == IF active = r THEN 0 ELSE active
Releases(r) ==
  Moves(r, "recorded", "over") /\ active' = Released(r) /\ UNCHANGED <<good, written, result>>
-----------------------------------------------------------------------------
\* trimOutput: the server keeps the last pieces, in the order written.
Output ==
  LET kept == IF written < Buffer THEN written ELSE Buffer
  IN  [i \in 1 .. kept |-> written - kept + i]

\* executeTask: what is kept of a run that is over.
DemoResult(r) == [run |-> r, task |-> owner[r].task, ok |-> good, output |-> Output]

\* What is told of the run that is not.
activeTaskStatus(r) == [run |-> r, task |-> owner[r].task, output |-> Output]

Nothing == [run |-> 0, task |-> "none", output |-> <<>>]

\* Mutant of GET: the last result is answered whatever is active.
GetResult == [active |-> Nothing, result |-> IF result = 0 THEN Nothing ELSE DemoResult(result)]

\* The status of the active task hides the last result.
GET ==
  [active |-> IF active = 0 THEN Nothing ELSE activeTaskStatus(active),
   result |-> IF active # 0 \/ result = 0 THEN Nothing ELSE DemoResult(result)]

\* Mutant of Chunk: everything is taken as new.
WholeValue(value, offset) == value

\* Mutant of Chunk: the first piece that is new is passed over.
OneBehind(value, offset) == IF offset > Len(value) THEN value ELSE SubSeq(value, offset + 2, Len(value))

\* value.slice(offset), from the start if the value has become shorter.
Chunk(value, offset) == IF offset > Len(value) THEN value ELSE SubSeq(value, offset + 1, Len(value))

appendStreamOutput(state, status) ==
  LET new == Chunk(status.output, state.offset)
  IN  [state EXCEPT !.log = @ \o [i \in DOMAIN new |-> <<status.run, new[i]>>], !.offset = Len(status.output)]

\* A page takes any result that carries the name of the task it waits for; the
\* output that comes with it is logged too.
PollResult(p) ==
  LET told  == GET.result
      state == [appendStreamOutput(page[p], told) EXCEPT !.offset = 0]
  IN
  /\ told.task = Task(p)
  /\ page' = [page EXCEPT ![p] =
       IF ~told.ok THEN [state EXCEPT !.doing = "failed", !.log = <<>>]
       ELSE IF page[p].at = Len(Tasks) THEN [state EXCEPT !.doing = "passed"]
       ELSE [state EXCEPT !.doing = "next", !.at = @ + 1]]

\* It logs the output of any active task of that name.
PollActive(p) ==
  /\ GET.active.task = Task(p)
  /\ page' = [page EXCEPT ![p] = appendStreamOutput(@, GET.active)]

Poll(p) ==
  /\ page[p].doing = "waiting"
  /\ PollResult(p) \/ PollActive(p)
  /\ UNCHANGED server

\* The page's own deadline: it stops waiting, the child goes on.
PageGivesUp(p) ==
  /\ page[p].doing = "waiting" /\ page' = [page EXCEPT ![p].doing = "gave up", ![p].log = <<>>, ![p].offset = 0]
  /\ UNCHANGED server

\* A page runs its tasks once; only a reload starts over.
Reload(p) ==
  /\ page[p].doing \in Failures \cup {"passed", "unavailable"}
  /\ page' = [page EXCEPT ![p] = Loaded]
  /\ UNCHANGED server

Process(r) == TimesOut(r) \/ Closes(r) \/ Records(r) \/ Releases(r)

DemoNext ==
  \/ \E p \in Pages : Detect(p) \/ runAll(p) \/ MaturityNears(p) \/ Poll(p) \/ PageGivesUp(p) \/ Reload(p)
  \/ \E r \in Runs : Writes(r) \/ Process(r)

\* The server's own timer and callbacks run; nothing is assumed of a child.
Server(r) == TimesOut(r) \/ Records(r) \/ Releases(r)

DemoSpec == DemoInit /\ [][DemoNext]_demoVars /\ \A r \in Runs : WF_demoVars(Server(r))
-----------------------------------------------------------------------------
Alive(r) == child[r] \in {"running", "killed"}

\* Whoever posts, and whenever, the server never runs two tasks side by side
\* (they share the deployer's key and the files under deployments/).
OneTaskAtATime == Cardinality({r \in Runs : Alive(r)}) <= 1

\* A page is never refused because of a task whose result it has already
\* seen: between its tasks, only another page's task can be in its way.
NeverRefusesItself ==
  [][\A p \in Pages :
       page[p].doing = "next" /\ page'[p].doing = "refused" => owner[active].by # p]_demoVars

\* A page logs the output of a task in the order it was written and none of it
\* twice, whatever the server trims and however many polls there are; and when
\* the page's own task passes, it has logged all of it if nothing was trimmed,
\* what came after the last poll included (appendStreamOutput's offsets).
Precedes(x, y) == x[1] < y[1] \/ (x[1] = y[1] /\ x[2] < y[2])

LogIsTrue ==
  \A p \in Pages : \A j \in DOMAIN page[p].log : \A i \in 1 .. j - 1 :
    Precedes(page[p].log[i], page[p].log[j])

LogIsWhole ==
  [][\A p \in Pages :
       /\ page[p].doing = "waiting" /\ page'[p].doing \in {"next", "passed"}
       /\ owner[GET.result.run].by = p /\ written <= Buffer
       => page'[p].log = [i \in 1 .. written |-> <<runs, i>>]]_demoVars

\* Every task lets go of the slot in the end, by itself or by its timeout, or
\* else some process it started goes on holding its pipes.
SlotIsFreed == \A r \in Runs : active = r ~> active # r \/ child[r] = "killed"
=============================================================================
