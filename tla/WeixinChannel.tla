---------------------------- MODULE WeixinChannel ----------------------------
(***************************************************************************)
(* The Weixin adapter of yier-channel and the manager that starts and      *)
(* stops it: a task per account polls for messages from a cursor kept in a *)
(* file, a task per login watches a QR code.  The Weixin service is        *)
(* external: it answers a poll with the messages after the cursor and the  *)
(* new cursor, or fails, and a code is confirmed, expires or neither.      *)
(* Tasks are numbered; a cancelled task ends when it is next scheduled,    *)
(* for all of them wait in an await.  An account has one peer.             *)
(***************************************************************************)
EXTENDS Integers, Sequences

CONSTANTS
  Accounts,
  MaxMessages,  \* bound on the messages of each account
  MaxTasks,     \* bound on the tasks made, by all processes
  MaxCrashes,
  None

WeixinConstants ==
  {MaxMessages, MaxTasks, MaxCrashes} \subseteq Nat /\ None \notin Nat

VARIABLES
  saved,      \* accounts/<id>.json: the accounts with a token
  cursor,     \* sync_buf/<id>.txt: how far each account has been read
  arrived,    \* messages the service has for each account
  handled,    \* the messages handed on, in order
  task,       \* the tasks made: [kind, account, at, cancelled, batch]
  polls,      \* _poll_tasks
  logins,     \* _login_tasks
  context,    \* accounts with a context token for their peer
  summary,    \* _account_states: [configured, running, error, login], or None
  stopper,    \* the task a stop of the account waits for, or None
  manager,    \* "off", "starting", "on" or "stopping"
  todo,       \* accounts the manager has still to start or to stop
  crashes

weixinVars == <<saved, cursor, arrived, handled, task, polls, logins, context, summary,
                stopper, manager, todo, crashes>>
files == <<saved, cursor>>
control == <<manager, todo, crashes>>

Done(i) == task[i].at \in {"over", "failed"}
Live(i) == ~Done(i) /\ ~task[i].cancelled

Over(i) == [task[i] EXCEPT !.at = "over", !.cancelled = FALSE, !.batch = <<>>]

TypeOK ==
  /\ saved \subseteq Accounts /\ context \subseteq Accounts /\ todo \subseteq Accounts
  /\ {cursor, arrived} \subseteq [Accounts -> 0 .. MaxMessages]
  /\ handled \in [Accounts -> Seq(1 .. MaxMessages)]
  /\ Len(task) <= MaxTasks
  /\ \A i \in DOMAIN task :
       /\ task[i].kind \in {"poll", "login"} /\ task[i].account \in Accounts
       /\ task[i].at \in {"asking", "handling", "pause", "over", "failed"}
       /\ task[i].cancelled \in BOOLEAN /\ task[i].batch \in Seq(1 .. MaxMessages)
  /\ {polls, logins, stopper} \subseteq [Accounts -> DOMAIN task \cup {None}]
  /\ \A a \in Accounts : summary[a] # None =>
       /\ {summary[a].configured, summary[a].running, summary[a].error} \subseteq BOOLEAN
       /\ summary[a].login \in {"", "waiting", "expired", "confirmed"}
  /\ manager \in {"off", "starting", "on", "stopping"} /\ crashes \in 0 .. MaxCrashes

Init ==
  /\ saved \in SUBSET Accounts /\ cursor = [a \in Accounts |-> 0]
  /\ arrived = [a \in Accounts |-> 0] /\ handled = [a \in Accounts |-> <<>>]
  /\ task = <<>> /\ context = {} /\ manager = "off" /\ todo = {} /\ crashes = 0
  /\ polls = [a \in Accounts |-> None] /\ logins = polls /\ stopper = polls
  /\ summary = polls

\* What is remembered of an account, or else read from its file.
Summary(a) ==
  IF summary[a] # None THEN summary[a]
  ELSE [configured |-> a \in saved, running |-> FALSE, error |-> FALSE, login |-> ""]
SetSummary(a, s) == summary' = [summary EXCEPT ![a] = s]

Make(kind, a) ==
  /\ Len(task) < MaxTasks
  /\ task' = Append(task, [kind |-> kind, account |-> a, at |-> "asking",
                           cancelled |-> FALSE, batch |-> <<>>])

(***************************************************************************)
(* Starting and stopping an account.                                       *)
(***************************************************************************)
\* A mutant: only the remembered state is asked whether the account runs.
PolledBySummary(a) == polls[a] # None /\ Summary(a).running

Polled(a) == polls[a] # None /\ ~Done(polls[a])

StartAccount(a) ==
  /\ Summary(a).configured
  /\ \/ Polled(a) /\ UNCHANGED <<task, polls, summary>>
     \/ /\ ~Polled(a) /\ Make("poll", a)
        /\ polls' = [polls EXCEPT ![a] = Len(task) + 1]
        /\ SetSummary(a, [Summary(a) EXCEPT !.running = TRUE, !.error = FALSE])
  /\ UNCHANGED <<files, arrived, handled, logins, context, stopper>>

Ended(a) == SetSummary(a, [Summary(a) EXCEPT !.running = FALSE])

\* The task is forgotten and cancelled; the state is set when it has ended.
StopAccount(a) ==
  /\ stopper[a] = None
  /\ \/ polls[a] = None /\ Ended(a) /\ UNCHANGED <<task, stopper>>
     \/ /\ polls[a] # None /\ stopper' = [stopper EXCEPT ![a] = polls[a]]
        /\ task' = [task EXCEPT ![polls[a]].cancelled = ~Done(polls[a])]
        /\ UNCHANGED summary
  /\ polls' = [polls EXCEPT ![a] = None]
  /\ UNCHANGED <<files, arrived, handled, logins, context>>

InTurn(a) == manager = "stopping" /\ a \in todo

\* A task that has failed raises in the stop that waits for it: the state
\* stays, and the manager, which stops its accounts in turn, gives up.
StopEnds(a) ==
  /\ stopper[a] # None /\ Done(stopper[a])
  /\ IF task[stopper[a]].at = "over"
     THEN /\ Ended(a) /\ UNCHANGED manager
          /\ todo' = IF InTurn(a) THEN todo \ {a} ELSE todo
     ELSE /\ UNCHANGED summary
          /\ manager' = IF InTurn(a) THEN "on" ELSE manager
          /\ todo' = IF InTurn(a) THEN {} ELSE todo
  /\ stopper' = [stopper EXCEPT ![a] = None]
  /\ UNCHANGED <<files, arrived, handled, task, polls, logins, context, crashes>>

ManagerStart ==
  /\ manager = "off" /\ manager' = "starting" /\ todo' = {a \in Accounts : a \in saved}
  /\ UNCHANGED <<files, arrived, handled, task, polls, logins, context, summary,
                 stopper, crashes>>

\* A sink may raise when the state of an account is told: the start ends there.
ManagerStarts ==
  /\ manager = "starting" /\ UNCHANGED crashes
  /\ \/ /\ todo = {} /\ manager' = "on"
        /\ UNCHANGED <<files, arrived, handled, task, polls, logins, context, summary,
                       stopper, todo>>
     \/ \E a \in todo :
          /\ StartAccount(a)
          /\ \/ todo' = todo \ {a} /\ UNCHANGED manager
             \/ todo' = {} /\ manager' = "off"

ManagerStop ==
  /\ manager = "on" /\ manager' = "stopping" /\ todo' = {a \in Accounts : polls[a] # None}
  /\ UNCHANGED <<files, arrived, handled, task, polls, logins, context, summary,
                 stopper, crashes>>

ManagerStops ==
  /\ manager = "stopping" /\ UNCHANGED crashes
  /\ \/ \E a \in todo :
          /\ \A b \in todo : stopper[b] = None
          /\ StopAccount(a) /\ UNCHANGED manager
          /\ todo' = IF polls[a] = None THEN todo \ {a} ELSE todo
     \/ /\ todo = {} /\ manager' = "off"
        /\ task' = [i \in DOMAIN task |->
             IF \E a \in Accounts : logins[a] = i
             THEN [task[i] EXCEPT !.cancelled = TRUE] ELSE task[i]]
        /\ logins' = [a \in Accounts |-> None]
        /\ UNCHANGED <<files, arrived, handled, polls, context, summary, stopper, todo>>

(***************************************************************************)
(* A poll.                                                                 *)
(***************************************************************************)
Arrive(a) ==
  /\ arrived[a] < MaxMessages /\ arrived' = [arrived EXCEPT ![a] = @ + 1]
  /\ UNCHANGED <<files, handled, task, polls, logins, context, summary, stopper, control>>

\* A mutant: an answer with messages leaves the cursor for when they are handled.
NextCursorIfEmpty(a) == cursor[a]

\* The cursor is written when the answer is there, before it is worked on.
NextCursor(a) == arrived[a]

\* A poll asks again at every turn with what the files say then.
PollAnswers(i) ==
  LET a == task[i].account IN
  /\ Live(i) /\ task[i].kind = "poll" /\ task[i].at = "asking" /\ a \in saved
  /\ cursor' = [cursor EXCEPT ![a] = NextCursor(a)]
  /\ task' = [task EXCEPT ![i].at = "handling",
       ![i].batch = [k \in 1 .. arrived[a] - cursor[a] |-> cursor[a] + k]]
  /\ UNCHANGED <<saved, arrived, handled, polls, logins, context, summary, stopper, control>>

\* A message without a sender or text is passed over.
Handle(i) ==
  LET a == task[i].account
      m == Head(task[i].batch)
  IN
  /\ Live(i) /\ task[i].at = "handling" /\ task[i].batch # <<>>
  /\ task' = [task EXCEPT ![i].batch = Tail(@)]
  /\ \/ UNCHANGED <<handled, context, summary>>
     \/ /\ handled' = [handled EXCEPT ![a] = Append(@, m)]
        /\ \/ context' = context \cup {a} \/ UNCHANGED context
        /\ SetSummary(a, [Summary(a) EXCEPT !.running = TRUE, !.error = FALSE])
  /\ UNCHANGED <<files, arrived, polls, logins, stopper, control>>

PollPauses(i) ==
  /\ Live(i) /\ task[i].kind = "poll"
  /\ \/ task[i].at = "handling" /\ task[i].batch = <<>>
        /\ task' = [task EXCEPT ![i].at = "pause"]
     \/ task[i].at = "pause" /\ task' = [task EXCEPT ![i].at = "asking"]
  /\ UNCHANGED <<files, arrived, handled, polls, logins, context, summary, stopper, control>>

\* The service or a sink fails: the rest of the answer is dropped.  When the
\* sink fails again, as it is told of this, the task fails.
PollFails(i) ==
  LET a == task[i].account IN
  /\ Live(i) /\ task[i].kind = "poll" /\ task[i].at \in {"asking", "handling"}
  /\ \E at \in {"pause", "failed"} :
       task' = [task EXCEPT ![i].at = at, ![i].batch = <<>>]
  /\ SetSummary(a, [Summary(a) EXCEPT !.running = TRUE, !.error = TRUE])
  /\ UNCHANGED <<files, arrived, handled, polls, logins, context, stopper, control>>

Dies(i) ==
  /\ task[i].cancelled /\ ~Done(i)
  /\ task' = [task EXCEPT ![i] = Over(i)]
  /\ logins' = IF task[i].kind = "login"
               THEN [logins EXCEPT ![task[i].account] = None] ELSE logins
  /\ UNCHANGED <<files, arrived, handled, polls, context, summary, stopper, control>>

(***************************************************************************)
(* Logins, and messages sent.                                              *)
(***************************************************************************)
Login(a) ==
  /\ Make("login", a) /\ logins' = [logins EXCEPT ![a] = Len(task) + 1]
  /\ SetSummary(a, [Summary(a) EXCEPT !.login = "waiting"])
  /\ UNCHANGED <<files, arrived, handled, polls, context, stopper, control>>

\* The account confirmed is the one the service names; the watch takes the
\* entry of its key out of the table, whosoever it is.
WatchEnds(i, b, status) ==
  LET a == task[i].account IN
  /\ Live(i) /\ task[i].kind = "login"
  /\ task' = [task EXCEPT ![i] = Over(i)] /\ logins' = [logins EXCEPT ![a] = None]
  /\ \/ /\ status = "confirmed" /\ saved' = saved \cup {b}
        /\ SetSummary(b, [Summary(b) EXCEPT !.configured = TRUE, !.login = "confirmed"])
     \/ /\ status = "expired" /\ UNCHANGED saved
        /\ SetSummary(a, [Summary(a) EXCEPT !.login = "expired"])
     \/ /\ status = "error" /\ UNCHANGED saved
        /\ SetSummary(a, [Summary(a) EXCEPT !.error = TRUE])
  /\ UNCHANGED <<cursor, arrived, handled, polls, context, stopper, control>>

\* The call has been answered; a failed one changes nothing here.
Send(a) ==
  /\ a \in saved \cap context /\ SetSummary(a, [Summary(a) EXCEPT !.error = FALSE])
  /\ UNCHANGED <<files, arrived, handled, task, polls, logins, context, stopper, control>>

\* The process ends at any moment; its files stay.
Crash ==
  /\ crashes < MaxCrashes /\ crashes' = crashes + 1 /\ manager' = "off" /\ todo' = {}
  /\ task' = [i \in DOMAIN task |-> Over(i)]
  /\ polls' = [a \in Accounts |-> None] /\ logins' = polls'
  /\ stopper' = polls' /\ summary' = polls' /\ context' = {}
  /\ UNCHANGED <<files, arrived, handled>>

Next ==
  \/ ManagerStart \/ ManagerStarts \/ ManagerStop \/ ManagerStops \/ Crash
  \/ \E a \in Accounts :
       \/ StartAccount(a) /\ UNCHANGED control
       \/ StopAccount(a) /\ UNCHANGED control
       \/ StopEnds(a) \/ Arrive(a) \/ Login(a) \/ Send(a)
  \/ \E i \in DOMAIN task :
       \/ PollAnswers(i) \/ Handle(i) \/ PollPauses(i) \/ PollFails(i) \/ Dies(i)
       \/ \E b \in Accounts, status \in {"confirmed", "expired", "error"} :
            WatchEnds(i, b, status)

Spec == Init /\ [][Next]_weixinVars

(***************************************************************************)
(* Properties.                                                             *)
(***************************************************************************)

(* A message is handed on at most once and in the order of its account,    *)
(* whatever stops, starts, failures of a sink and crashes fall between the *)
(* answer of the service and the end of its handling.  That one may be     *)
(* lost is the price: the cursor is past it already.                       *)
HandledOnce ==
  \A a \in Accounts : \A k \in 1 .. Len(handled[a]) - 1 :
    handled[a][k] < handled[a][k + 1]

(* Every task that polls and has not been cancelled is the one the table   *)
(* has for its account: no account is polled twice, by a start that        *)
(* overtakes a stop for instance, and every poll can be stopped.           *)
PollsAreTracked ==
  \A i \in DOMAIN task : (Live(i) /\ task[i].kind = "poll") => polls[task[i].account] = i
=============================================================================
