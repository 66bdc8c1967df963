------------------------ MODULE BrowserConnectionProofs ------------------------
(***************************************************************************)
(* The browser's connection, for any threads, clicks and bounds.           *)
(***************************************************************************)
EXTENDS BrowserConnection, TLAPS

Phases == {"idle", "open", "scheduled", "connecting", "offline"}
Controllers ==
  [status : Status, started : BOOLEAN, recovering : BOOLEAN, timer : BOOLEAN,
   reconnecting : BOOLEAN, attempt : Nat, phase : Phases, shown : Nat]
Environments == [online : BOOLEAN, visible : BOOLEAN]
-----------------------------------------------------------------------------
(***************************************************************************)
(* The controller's methods, one by one: the fields of what they leave.    *)
(***************************************************************************)

\* What most methods leave alone.
Same(c, d) ==
  /\ d \in Controllers /\ d.started = c.started /\ d.status = c.status
  /\ d.recovering = c.recovering /\ d.reconnecting = c.reconnecting

LEMMA PublishIs ==
  ASSUME NEW c \in Controllers, NEW phase \in Phases, NEW n \in Nat
  PROVE  LET d == PublishState(c, phase, n) IN
         /\ Same(c, d) /\ d.phase = phase /\ d.shown = n
         /\ d.attempt = c.attempt /\ d.timer = c.timer
BY DEF PublishState, Same, Controllers

LEMMA ClearIs ==
  ASSUME NEW c \in Controllers
  PROVE  LET d == [c EXCEPT !.timer = FALSE] IN
         /\ Same(c, d) /\ d.phase = c.phase /\ d.shown = c.shown
         /\ d.attempt = c.attempt /\ ~d.timer
BY DEF Same, Controllers

LEMMA WaitingIs ==
  ASSUME NEW c \in Controllers
  PROVE  WaitingAttempt(c) \in Nat /\ WaitingAttempt(c) > c.attempt
BY DEF WaitingAttempt, Controllers

LEMMA PublishWaitingIs ==
  ASSUME NEW c \in Controllers, NEW e \in Environments, NEW n \in Nat
  PROVE  LET d == PublishWaitingState(c, e, n) IN
         /\ Same(c, d) /\ d.shown = n /\ d.attempt = c.attempt /\ d.timer = c.timer
<1>1. PICK phase \in Phases : PublishWaitingState(c, e, n) = PublishState(c, phase, n)
  BY DEF PublishWaitingState, Phases
<1> QED
  BY <1>1, PublishIs

LEMMA ScheduleIs ==
  ASSUME NEW c \in Controllers, NEW e \in Environments
  PROVE  LET d == ScheduleReconnect(c, e)
             mayWait == c.started /\ c.recovering /\ c.status \notin {"open", "connecting"}
         IN  /\ Same(c, d)
             /\ ~mayWait => d = c
             /\ mayWait /\ ~CanReconnectNow(e) =>
                  d.shown > c.attempt /\ d.attempt = c.attempt /\ d.timer = c.timer
             /\ mayWait /\ CanReconnectNow(e) /\ c.timer => d = c
             /\ mayWait /\ CanReconnectNow(e) /\ ~c.timer =>
                  d.timer /\ d.attempt > c.attempt
<1> DEFINE mayWait == c.started /\ c.recovering /\ c.status \notin {"open", "connecting"}
           d == ScheduleReconnect(c, e)
<1>1. CASE ~mayWait
  BY <1>1 DEF ScheduleReconnect, Same
<1>2. CASE mayWait /\ ~CanReconnectNow(e)
  <2>1. d = PublishWaitingState(c, e, WaitingAttempt(c))
    BY <1>2 DEF ScheduleReconnect
  <2> QED
    BY <1>2, <2>1, WaitingIs, PublishWaitingIs
<1>3. CASE mayWait /\ CanReconnectNow(e) /\ c.timer
  BY <1>3 DEF ScheduleReconnect, Same
<1>4. CASE mayWait /\ CanReconnectNow(e) /\ ~c.timer
  <2>1. c.attempt + 1 \in Nat /\ "scheduled" \in Phases
    BY DEF Controllers, Phases
  <2>2. PICK p \in Controllers :
          /\ p = PublishState(c, "scheduled", c.attempt + 1)
          /\ Same(c, p) /\ p.attempt = c.attempt
    BY <2>1, PublishIs DEF Same
  <2>3. d = [p EXCEPT !.attempt = @ + 1, !.timer = TRUE]
    BY <1>4, <2>2 DEF ScheduleReconnect
  <2>4. PICK n \in Nat : n = p.attempt + 1
    BY DEF Controllers
  <2>5. d = [p EXCEPT !.attempt = n, !.timer = TRUE] /\ p.attempt \in Nat
    BY <2>3, <2>4 DEF Controllers
  <2>6. /\ Same(p, d) /\ d.timer /\ d.attempt = n
    BY <2>5 DEF Same, Controllers
  <2> HIDE DEF d
  <2>7. d.timer /\ d.attempt > c.attempt /\ Same(c, d)
    BY <2>2, <2>4, <2>5, <2>6 DEF Same
  <2> QED
    BY <1>4, <2>7 DEF d
<1> QED
  BY <1>1, <1>2, <1>3, <1>4

\* A controller that may wait for a connection.
LEMMA ScheduleActs ==
  ASSUME NEW c \in Controllers, NEW e \in Environments,
         c.started, c.recovering, c.status \notin {"open", "connecting"}
  PROVE  LET d == ScheduleReconnect(c, e) IN
         /\ Same(c, d)
         /\ ~CanReconnectNow(e) => d.shown > c.attempt /\ d.attempt = c.attempt /\ d.timer = c.timer
         /\ CanReconnectNow(e) /\ c.timer => d = c
         /\ CanReconnectNow(e) /\ ~c.timer => d.timer /\ d.attempt > c.attempt
BY ScheduleIs

\* Fields one by one.
LEMMA StatusSet ==
  ASSUME NEW c \in Controllers, NEW v \in Status
  PROVE  LET d == [c EXCEPT !.status = v] IN
         /\ d \in Controllers /\ d.status = v
         /\ d.started = c.started /\ d.recovering = c.recovering /\ d.timer = c.timer
         /\ d.reconnecting = c.reconnecting /\ d.attempt = c.attempt /\ d.phase = c.phase
         /\ d.shown = c.shown
BY DEF Controllers

LEMMA StartedSet ==
  ASSUME NEW c \in Controllers, NEW v \in BOOLEAN
  PROVE  LET d == [c EXCEPT !.started = v] IN
         /\ d \in Controllers /\ d.started = v
         /\ d.status = c.status /\ d.recovering = c.recovering /\ d.timer = c.timer
         /\ d.reconnecting = c.reconnecting /\ d.attempt = c.attempt /\ d.phase = c.phase
         /\ d.shown = c.shown
BY DEF Controllers

LEMMA RecoveringSet ==
  ASSUME NEW c \in Controllers, NEW v \in BOOLEAN
  PROVE  LET d == [c EXCEPT !.recovering = v] IN
         /\ d \in Controllers /\ d.recovering = v
         /\ d.status = c.status /\ d.started = c.started /\ d.timer = c.timer
         /\ d.reconnecting = c.reconnecting /\ d.attempt = c.attempt /\ d.phase = c.phase
         /\ d.shown = c.shown
BY DEF Controllers

LEMMA TimerSet ==
  ASSUME NEW c \in Controllers, NEW v \in BOOLEAN
  PROVE  LET d == [c EXCEPT !.timer = v] IN
         /\ d \in Controllers /\ d.timer = v
         /\ d.status = c.status /\ d.started = c.started /\ d.recovering = c.recovering
         /\ d.reconnecting = c.reconnecting /\ d.attempt = c.attempt /\ d.phase = c.phase
         /\ d.shown = c.shown
BY DEF Controllers

LEMMA ReconnectingSet ==
  ASSUME NEW c \in Controllers, NEW v \in BOOLEAN
  PROVE  LET d == [c EXCEPT !.reconnecting = v] IN
         /\ d \in Controllers /\ d.reconnecting = v
         /\ d.status = c.status /\ d.started = c.started /\ d.recovering = c.recovering
         /\ d.timer = c.timer /\ d.attempt = c.attempt /\ d.phase = c.phase
         /\ d.shown = c.shown
BY DEF Controllers

LEMMA AttemptSet ==
  ASSUME NEW c \in Controllers, NEW v \in Nat
  PROVE  LET d == [c EXCEPT !.attempt = v] IN
         /\ d \in Controllers /\ d.attempt = v
         /\ d.status = c.status /\ d.started = c.started /\ d.recovering = c.recovering
         /\ d.timer = c.timer /\ d.reconnecting = c.reconnecting /\ d.phase = c.phase
         /\ d.shown = c.shown
BY DEF Controllers

\* The connection is open: all is forgotten.
LEMMA OpenIs ==
  ASSUME NEW c \in Controllers, NEW e \in Environments
  PROVE  LET d == HandleStatus(c, "open", e) IN
         /\ d \in Controllers /\ d.started = c.started /\ d.reconnecting = c.reconnecting
         /\ d.status = "open" /\ ~d.recovering /\ ~d.timer /\ d.attempt = 0
<1>1. PICK q \in Controllers : /\ q = [c EXCEPT !.status = "open"] /\ q.status = "open"
                               /\ q.started = c.started /\ q.reconnecting = c.reconnecting
  BY StatusSet DEF Status
<1>2. PICK p \in Controllers : /\ p = PublishState(q, "open", 0) /\ Same(q, p)
  BY PublishIs DEF Phases, Same
<1>3. HandleStatus(c, "open", e) = [p EXCEPT !.recovering = FALSE, !.attempt = 0, !.timer = FALSE]
  BY <1>1, <1>2 DEF HandleStatus, Down
<1>4. PICK p1 : p1 = [p EXCEPT !.recovering = FALSE]
  OBVIOUS
<1>5. /\ p1 \in Controllers /\ ~p1.recovering /\ p1.status = p.status
      /\ p1.started = p.started /\ p1.reconnecting = p.reconnecting
  BY <1>4, RecoveringSet
<1>6. PICK p2 : p2 = [p1 EXCEPT !.attempt = 0]
  OBVIOUS
<1>7. /\ p2 \in Controllers /\ ~p2.recovering /\ p2.status = p.status
      /\ p2.started = p.started /\ p2.reconnecting = p.reconnecting /\ p2.attempt = 0
  BY <1>5, <1>6, AttemptSet
<1>8. PICK p3 : p3 = [p2 EXCEPT !.timer = FALSE]
  OBVIOUS
<1>9. /\ p3 \in Controllers /\ ~p3.recovering /\ p3.status = p.status
      /\ p3.started = p.started /\ p3.reconnecting = p.reconnecting /\ p3.attempt = 0
      /\ ~p3.timer
  BY <1>7, <1>8, TimerSet
<1>10. HandleStatus(c, "open", e) = p3
  BY <1>3, <1>4, <1>6, <1>8
<1> QED
  BY <1>1, <1>2, <1>9, <1>10 DEF Same

\* A socket is being opened.
LEMMA ConnectingIs ==
  ASSUME NEW c \in Controllers, NEW e \in Environments
  PROVE  LET d == HandleStatus(c, "connecting", e) IN
         /\ d \in Controllers /\ d.started = c.started /\ d.reconnecting = c.reconnecting
         /\ d.status = "connecting" /\ d.recovering = c.recovering /\ d.timer = c.timer
         /\ d.attempt = c.attempt
<1> DEFINE d == HandleStatus(c, "connecting", e)
<1> DEFINE q == [c EXCEPT !.status = "connecting"]
<1>1. /\ q \in Controllers /\ q = [c EXCEPT !.status = "connecting"] /\ q.status = "connecting"
      /\ q.started = c.started /\ q.reconnecting = c.reconnecting /\ q.timer = c.timer
      /\ q.recovering = c.recovering /\ q.attempt = c.attempt
  <2>1. "connecting" \in Status
    BY DEF Status
  <2> QED
    BY <2>1, StatusSet
<1> HIDE DEF q
<1>2. CASE q.recovering
  <2>0. q.attempt \in Nat
    BY <1>1 DEF Controllers
  <2>1. PICK n \in Nat : n = IF q.attempt > 1 THEN q.attempt ELSE 1
    BY <2>0
  <2> DEFINE p == PublishState(q, "connecting", n)
  <2>2. /\ p = PublishState(q, "connecting", n) /\ Same(q, p)
        /\ p.attempt = q.attempt /\ p.timer = q.timer
    <3>1. "connecting" \in Phases
      BY DEF Phases
    <3>2. q \in Controllers
      BY <1>1
    <3> QED
      BY <2>1, <3>1, <3>2, PublishIs
  <2> HIDE DEF p
  <2>3. d = PublishState(q, "connecting", IF q.attempt > 1 THEN q.attempt ELSE 1)
    BY <1>1, <1>2 DEF HandleStatus, Down
  <2> HIDE DEF d
  <2>4. /\ d \in Controllers /\ d.started = c.started /\ d.reconnecting = c.reconnecting
        /\ d.status = "connecting" /\ d.recovering = c.recovering /\ d.timer = c.timer
        /\ d.attempt = c.attempt
    BY <1>1, <2>1, <2>2, <2>3 DEF Same
  <2> QED
    BY <2>4 DEF d
<1>3. CASE ~q.recovering
  <2>1. d = q
    BY <1>1, <1>3 DEF HandleStatus, Down
  <2> HIDE DEF d
  <2> QED
    BY <1>1, <2>1 DEF d
<1> QED
  BY <1>2, <1>3

\* The connection is lost, or was not made.
LEMMA DownIs ==
  ASSUME NEW c \in Controllers, NEW e \in Environments, NEW status \in Down, c.started
  PROVE  LET d == HandleStatus(c, status, e) IN
         /\ d \in Controllers /\ d.started /\ d.reconnecting = c.reconnecting
         /\ d.status = status /\ d.recovering
         /\ ~CanReconnectNow(e) =>
              d.shown > c.attempt /\ d.attempt = c.attempt /\ d.timer = c.timer
         /\ CanReconnectNow(e) =>
              d.timer /\ IF c.timer THEN d.attempt = c.attempt ELSE d.attempt > c.attempt
<1> DEFINE d == HandleStatus(c, status, e)
<1>1. status \in Status /\ status \notin {"open", "connecting"}
  BY DEF Down, Status
<1>2. PICK q \in Controllers :
        /\ q = [c EXCEPT !.status = status] /\ q.status = status
        /\ q.started = c.started /\ q.reconnecting = c.reconnecting /\ q.timer = c.timer
        /\ q.attempt = c.attempt
  BY <1>1, StatusSet
<1>2a. PICK p : p = [q EXCEPT !.recovering = TRUE]
  OBVIOUS
<1>3. /\ p \in Controllers /\ p = [q EXCEPT !.recovering = TRUE]
      /\ p.status = status /\ p.recovering
      /\ p.started = c.started /\ p.reconnecting = c.reconnecting /\ p.timer = c.timer
      /\ p.attempt = c.attempt
  BY <1>2, <1>2a, RecoveringSet
<1> DEFINE s == ScheduleReconnect(p, e)
<1>5. d = s
  BY <1>1, <1>2, <1>3 DEF HandleStatus, Down
<1>6. /\ Same(p, s)
      /\ ~CanReconnectNow(e) => s.shown > p.attempt /\ s.attempt = p.attempt /\ s.timer = p.timer
      /\ CanReconnectNow(e) /\ p.timer => s = p
      /\ CanReconnectNow(e) /\ ~p.timer => s.timer /\ s.attempt > p.attempt
  <2>1. p.started /\ p.status \notin {"open", "connecting"}
    BY <1>1, <1>3
  <2> QED
    BY <1>3, <2>1, ScheduleActs
<1> HIDE DEF d, s
<1>7. /\ d \in Controllers /\ d.started = p.started /\ d.reconnecting = p.reconnecting
      /\ d.status = p.status /\ d.recovering = p.recovering
  BY <1>5, <1>6 DEF Same
<1>8. CASE CanReconnectNow(e)
  <2>1. d.timer /\ IF p.timer THEN d.attempt = p.attempt ELSE d.attempt > p.attempt
    BY <1>5, <1>6, <1>8
  <2> QED
    BY <1>3, <1>7, <1>8, <2>1 DEF d
<1>9. CASE ~CanReconnectNow(e)
  <2>1. d.shown > p.attempt /\ d.attempt = p.attempt /\ d.timer = p.timer
    BY <1>5, <1>6, <1>9
  <2> QED
    BY <1>3, <1>7, <1>9, <2>1 DEF d
<1> QED
  BY <1>8, <1>9

\* The page is hidden or the browser goes offline.
LEMMA PendingIs ==
  ASSUME NEW c \in Controllers
  PROVE  /\ PendingAttempt(c) \in Nat
         /\ IF c.timer THEN PendingAttempt(c) = c.attempt ELSE PendingAttempt(c) > c.attempt
BY WaitingIs DEF PendingAttempt, Controllers

LEMMA HiddenIs ==
  ASSUME NEW c \in Controllers, NEW e \in Environments
  PROVE  LET d == Hidden(c, e) IN
         /\ Same(c, d) /\ d.attempt = c.attempt
         /\ IF c.recovering THEN ~d.timer /\ d.shown = PendingAttempt(c) ELSE d = c
<1> DEFINE d == Hidden(c, e)
<1>1. CASE ~c.recovering
  <2>1. d = c
    BY <1>1 DEF Hidden
  <2> HIDE DEF d
  <2> QED
    BY <1>1, <2>1 DEF Same, d
<1>2. CASE c.recovering
  <2>1. PICK q \in Controllers : /\ q = [c EXCEPT !.timer = FALSE] /\ Same(c, q) /\ ~q.timer
                                 /\ q.attempt = c.attempt
    BY ClearIs DEF Same
  <2>2. PICK n \in Nat : n = PendingAttempt(c)
    BY PendingIs
  <2>3. PICK p \in Controllers : /\ p = PublishWaitingState(q, e, n) /\ Same(q, p)
                                 /\ p.shown = n /\ p.attempt = q.attempt /\ p.timer = q.timer
    BY PublishWaitingIs DEF Same
  <2>4. d = p
    BY <1>2, <2>1, <2>2, <2>3 DEF Hidden
  <2> HIDE DEF d
  <2> QED
    BY <1>2, <2>1, <2>2, <2>3, <2>4 DEF Same, d
<1> QED
  BY <1>1, <1>2

LEMMA OfflineIs ==
  ASSUME NEW c \in Controllers
  PROVE  LET d == HandleOffline(c) IN
         /\ Same(c, d) /\ d.attempt = c.attempt
         /\ IF c.recovering THEN ~d.timer /\ d.shown = PendingAttempt(c) ELSE d = c
<1> DEFINE d == HandleOffline(c)
<1>1. CASE ~c.recovering
  <2>1. d = c
    BY <1>1 DEF HandleOffline
  <2> HIDE DEF d
  <2> QED
    BY <1>1, <2>1 DEF Same, d
<1>2. CASE c.recovering
  <2>1. PICK q \in Controllers : /\ q = [c EXCEPT !.timer = FALSE] /\ Same(c, q) /\ ~q.timer
                                 /\ q.attempt = c.attempt
    BY ClearIs DEF Same
  <2>2. PICK n \in Nat : n = PendingAttempt(c)
    BY PendingIs
  <2>3. PICK p \in Controllers : /\ p = PublishState(q, "offline", n) /\ Same(q, p)
                                 /\ p.shown = n /\ p.attempt = q.attempt /\ p.timer = q.timer
    BY PublishIs DEF Same, Phases
  <2>4. d = p
    BY <1>2, <2>1, <2>2, <2>3 DEF HandleOffline
  <2> HIDE DEF d
  <2> QED
    BY <1>2, <2>1, <2>2, <2>3, <2>4 DEF Same, d
<1> QED
  BY <1>1, <1>2

\* An attempt begins, with at least the number shown.
LEMMA BeginIs ==
  ASSUME NEW c \in Controllers
  PROVE  LET d == BeginAttempt(c) IN
         /\ d \in Controllers /\ d.started = c.started /\ d.status = c.status
         /\ d.recovering = c.recovering /\ d.reconnecting /\ d.timer = c.timer
         /\ d.attempt >= 1 /\ d.attempt >= c.attempt /\ d.attempt >= c.shown
<1> DEFINE S == {1, c.attempt, c.shown}
           n == CHOOSE m \in S : \A k \in S : k <= m
<1>1. c.attempt \in Nat /\ c.shown \in Nat
  BY DEF Controllers
<1>2. \E m \in S : \A k \in S : k <= m
  <2>1. PICK a \in Nat, s \in Nat : a = c.attempt /\ s = c.shown
    BY <1>1
  <2>2. \E m \in {1, a, s} : \A k \in {1, a, s} : k <= m
    <3>1. CASE a >= 1 /\ a >= s
      BY <3>1
    <3>2. CASE s >= 1 /\ s >= a
      BY <3>2
    <3>3. CASE 1 >= a /\ 1 >= s
      BY <3>3
    <3> QED
      BY <3>1, <3>2, <3>3
  <2> QED
    BY <2>1, <2>2
<1>3. n \in S /\ \A k \in S : k <= n
  BY <1>2
<1>4. n \in Nat /\ n >= 1 /\ n >= c.attempt /\ n >= c.shown
  BY <1>1, <1>3
<1>5. BeginAttempt(c) = [PublishState(c, "connecting", n) EXCEPT !.attempt = n,
                                                                 !.reconnecting = TRUE]
  BY DEF BeginAttempt
<1> HIDE DEF n
<1>6. PICK p : p = PublishState(c, "connecting", n)
  OBVIOUS
<1>7. Same(c, p) /\ p.timer = c.timer
  BY <1>4, <1>6, PublishIs DEF Phases
<1>8. PICK q : q = [p EXCEPT !.attempt = n]
  OBVIOUS
<1>9. /\ q \in Controllers /\ q.started = c.started /\ q.status = c.status
      /\ q.recovering = c.recovering /\ q.timer = c.timer /\ q.attempt = n
  BY <1>4, <1>7, <1>8, AttemptSet DEF Same
<1>10. PICK r : r = [q EXCEPT !.reconnecting = TRUE]
  OBVIOUS
<1>11. /\ r \in Controllers /\ r.started = c.started /\ r.status = c.status
       /\ r.recovering = c.recovering /\ r.reconnecting /\ r.timer = c.timer
       /\ r.attempt = n
  BY <1>9, <1>10, ReconnectingSet
<1>12. BeginAttempt(c) = r
  BY <1>5, <1>6, <1>8, <1>10
<1> QED
  BY <1>4, <1>11, <1>12

\* It ends; if the connection is still down, the next one waits.
LEMMA EndIs ==
  ASSUME NEW c \in Controllers, NEW e \in Environments
  PROVE  LET d == EndAttempt(c, e)
             mayWait == c.started /\ c.recovering /\ c.status \in Down
         IN  /\ d \in Controllers /\ d.started = c.started /\ d.status = c.status
             /\ d.recovering = c.recovering /\ ~d.reconnecting
             /\ ~mayWait => d.attempt = c.attempt /\ d.timer = c.timer /\ d.phase = c.phase
             /\ mayWait /\ ~CanReconnectNow(e) =>
                  d.shown > c.attempt /\ d.attempt = c.attempt /\ d.timer = c.timer
             /\ mayWait /\ CanReconnectNow(e) =>
                  d.timer /\ IF c.timer THEN d.attempt = c.attempt ELSE d.attempt > c.attempt
<1> DEFINE d == EndAttempt(c, e)
           mayWait == c.started /\ c.recovering /\ c.status \in Down
<1>1. PICK q : q = [c EXCEPT !.reconnecting = FALSE]
  OBVIOUS
<1>2. /\ q \in Controllers /\ q.started = c.started /\ q.status = c.status
      /\ q.recovering = c.recovering /\ ~q.reconnecting /\ q.timer = c.timer
      /\ q.attempt = c.attempt /\ q.phase = c.phase
  BY <1>1, ReconnectingSet
<1>3. CASE ~mayWait
  <2>1. d = q
    <3>1. CASE q.recovering /\ q.status \in Down
      BY <1>1, <1>2, <1>3, <3>1 DEF EndAttempt, ScheduleReconnect
    <3>2. CASE ~(q.recovering /\ q.status \in Down)
      BY <1>1, <1>2, <3>2 DEF EndAttempt
    <3> QED
      BY <3>1, <3>2
  <2> HIDE DEF d
  <2> QED
    BY <1>2, <1>3, <2>1 DEF d
<1>4. CASE mayWait
  <2> DEFINE s == ScheduleReconnect(q, e)
  <2>2. d = s
    BY <1>1, <1>2, <1>4 DEF EndAttempt
  <2>3. q.status \notin {"open", "connecting"}
    BY <1>2, <1>4 DEF Down
  <2>4. /\ Same(q, s)
        /\ ~CanReconnectNow(e) => s.shown > q.attempt /\ s.attempt = q.attempt /\ s.timer = q.timer
        /\ CanReconnectNow(e) /\ q.timer => s = q
        /\ CanReconnectNow(e) /\ ~q.timer => s.timer /\ s.attempt > q.attempt
    BY <1>2, <1>4, <2>3, ScheduleActs
  <2> HIDE DEF d, s
  <2> QED
    BY <1>2, <1>4, <2>2, <2>4 DEF Same, d
<1> QED
  BY <1>3, <1>4

\* The workspace is unmounted.
LEMMA StoppedIs ==
  ASSUME NEW c \in Controllers
  PROVE  LET d == Stopped(c) IN
         /\ d \in Controllers /\ ~d.started /\ ~d.recovering /\ ~d.timer
         /\ d.phase = "idle" /\ d.reconnecting = c.reconnecting
<1>1. PICK p : p = PublishState(c, "idle", 0)
  OBVIOUS
<1>2. Same(c, p) /\ p.phase = "idle"
  BY <1>1, PublishIs DEF Phases
<1>3. PICK q : q = [p EXCEPT !.started = FALSE]
  OBVIOUS
<1>4. /\ q \in Controllers /\ ~q.started /\ q.phase = "idle"
      /\ q.reconnecting = c.reconnecting
  BY <1>2, <1>3, StartedSet DEF Same
<1>5. PICK r : r = [q EXCEPT !.recovering = FALSE]
  OBVIOUS
<1>6. /\ r \in Controllers /\ ~r.started /\ ~r.recovering /\ r.phase = "idle"
      /\ r.reconnecting = c.reconnecting
  BY <1>4, <1>5, RecoveringSet
<1>7. PICK s : s = [r EXCEPT !.attempt = 0]
  OBVIOUS
<1>8. /\ s \in Controllers /\ ~s.started /\ ~s.recovering /\ s.phase = "idle"
      /\ s.reconnecting = c.reconnecting
  BY <1>6, <1>7, AttemptSet
<1>9. PICK t : t = [s EXCEPT !.timer = FALSE]
  OBVIOUS
<1>10. /\ t \in Controllers /\ ~t.started /\ ~t.recovering /\ t.phase = "idle"
       /\ t.reconnecting = c.reconnecting /\ ~t.timer
  BY <1>8, <1>9, TimerSet
<1>11. Stopped(c) = t
  BY <1>1, <1>3, <1>5, <1>7, <1>9 DEF Stopped
<1> QED
  BY <1>10, <1>11
-----------------------------------------------------------------------------
(***************************************************************************)
(* What each method keeps: a controller that is not started is at rest; one*)
(* that is counts its attempts from the last one tried, n, and when the    *)
(* connection is down the next will have a higher number.                  *)
(***************************************************************************)
Good(c, n) ==
  /\ ~c.started => ~c.timer /\ c.phase = "idle" /\ ~c.recovering
  /\ c.started => c.attempt >= n /\ c.status # "idle"
  /\ c.timer => c.attempt > n /\ c.status \in Down
  /\ c.started /\ c.status \in Down => c.recovering /\ (c.attempt > n \/ c.shown > n)
\* A connection that is down and could be made again is going to be.
Waits(c, e) ==
  c.recovering /\ c.status \in Down /\ CanReconnectNow(e) => c.timer \/ c.reconnecting

LEMMA DownKeeps ==
  ASSUME NEW c \in Controllers, NEW e \in Environments, NEW status \in Down, c.started,
         NEW n \in Nat, Good(c, n)
  PROVE  LET d == HandleStatus(c, status, e) IN
         /\ d \in Controllers /\ d.started /\ d.reconnecting = c.reconnecting
         /\ d.status = status /\ Good(d, n) /\ Waits(d, e)
<1>1. PICK d : d = HandleStatus(c, status, e)
  OBVIOUS
<1>2. /\ d \in Controllers /\ d.started /\ d.reconnecting = c.reconnecting
      /\ d.status = status /\ d.recovering
      /\ ~CanReconnectNow(e) =>
           d.shown > c.attempt /\ d.attempt = c.attempt /\ d.timer = c.timer
      /\ CanReconnectNow(e) =>
           d.timer /\ IF c.timer THEN d.attempt = c.attempt ELSE d.attempt > c.attempt
  BY <1>1, DownIs
<1>3. /\ c.attempt \in Nat /\ d.attempt \in Nat /\ d.shown \in Nat /\ c.timer \in BOOLEAN
      /\ status # "idle" /\ c.attempt >= n
      /\ c.timer => c.attempt > n
  BY <1>2 DEF Controllers, Good, Down
<1>4. Good(d, n) /\ Waits(d, e)
  <2>1. CASE CanReconnectNow(e)
    <3>1. d.attempt > n
      <4>1. CASE c.timer
        BY <1>2, <1>3, <2>1, <4>1
      <4>2. CASE ~c.timer
        BY <1>2, <1>3, <2>1, <4>2
      <4> QED
        BY <4>1, <4>2
    <3>2. d.attempt >= n
      BY <1>3, <3>1
    <3> QED
      BY <1>2, <1>3, <2>1, <3>1, <3>2 DEF Good, Waits
  <2>2. CASE ~CanReconnectNow(e)
    <3>1. d.shown > n /\ d.attempt >= n /\ (d.timer => d.attempt > n)
      BY <1>2, <1>3, <2>2
    <3> QED
      BY <1>2, <1>3, <2>2, <3>1 DEF Good, Waits
  <2> QED
    BY <2>1, <2>2
<1> QED
  BY <1>1, <1>2, <1>4
-----------------------------------------------------------------------------
(***************************************************************************)
(* The types, with what TypeOK leaves open: a task that is about to        *)
(* subscribe has a thread to subscribe to, and so has its command.         *)
(***************************************************************************)
Points == Commands \cup {"idle", "connect", "cache", "done"}
Messages == [task : Tasks, command : Commands, thread : Threads \cup {NoThread}]
Settlements == {"no", "ok", "failed"}

ControlOK ==
  /\ ctl \in Controllers /\ sock \in {"none", "connecting", "failed", "open"}
  /\ env \in Environments /\ events \in Seq({"online", "offline"}) /\ tried \in Nat
  /\ used \in [faults : 0 .. MaxFaults, toggles : 0 .. MaxToggles, refusals : 0 .. MaxRefusals]
TasksOK ==
  /\ pc \in [Tasks -> Points] /\ settled \in [Tasks -> Settlements]
  /\ target \in [Tasks -> Threads \cup {NoThread}]
  /\ \A t \in Tasks : pc[t] \in {"unsubscribe", "cache"} => target[t] \in Threads
ClientOK ==
  /\ active \in Threads \cup {NoThread} /\ activeSub \in Threads \cup {NoThread}
  /\ listed \in BOOLEAN /\ fresh \in BOOLEAN
ServerOK ==
  /\ wire \in Seq(Messages) /\ served \in SUBSET Threads /\ refused \in BOOLEAN
  /\ \A i \in 1 .. Len(wire) : wire[i].command = "subscribe" => wire[i].thread \in Threads
Typed == ControlOK /\ TasksOK /\ ClientOK /\ ServerOK

LEMMA TypedIsTypeOK == Typed => TypeOK
<1>1. ASSUME Typed PROVE TypeOK
  <2>1. ControlOK /\ TasksOK /\ ClientOK /\ ServerOK
    BY <1>1 DEF Typed
  <2>2. \A i \in DOMAIN wire :
          wire[i] \in [task : Tasks, command : Commands, thread : Threads \cup {NoThread}]
    <3>1. wire \in Seq(Messages) /\ DOMAIN wire = 1 .. Len(wire)
      BY <2>1 DEF ServerOK
    <3>2. \A i \in 1 .. Len(wire) : wire[i] \in Messages
      BY <3>1
    <3> QED
      BY <3>1, <3>2 DEF Messages
  <2> QED
    BY <2>1, <2>2 DEF ControlOK, TasksOK, ClientOK, ServerOK, TypeOK, Controllers, Phases,
       Environments, Points, Settlements
<1> QED
  BY <1>1

LEMMA EmptyWire ==
  /\ <<>> \in Seq(Messages)
  /\ \A i \in 1 .. Len(<<>>) : FALSE
OBVIOUS

LEMMA TypedBegins == Init => Typed
<1>1. ASSUME Init PROVE ControlOK
  <2>1. ctl \in Controllers
    BY <1>1 DEF Init, Controllers, Status, Phases
  <2>2. used \in [faults : 0 .. MaxFaults, toggles : 0 .. MaxToggles, refusals : 0 .. MaxRefusals]
    BY <1>1, BoundAssumption DEF Init
  <2>3. env \in Environments
    BY <1>1 DEF Init, Environments
  <2>4. events \in Seq({"online", "offline"})
    BY <1>1 DEF Init
  <2> QED
    BY <1>1, <2>1, <2>2, <2>3, <2>4 DEF Init, ControlOK
<1>2. ASSUME Init PROVE TasksOK
  BY <1>2 DEF Init, TasksOK, Points, Settlements
<1>3. ASSUME Init PROVE ClientOK /\ ServerOK
  <2>1. ServerOK
    <3>1. wire = <<>> /\ served = {} /\ refused = FALSE
      BY <1>3 DEF Init
    <3> QED
      BY <3>1, EmptyWire DEF ServerOK
  <2>2. ClientOK
    BY <1>3 DEF Init, ClientOK
  <2> QED
    BY <2>1, <2>2
<1> QED
  BY <1>1, <1>2, <1>3 DEF Typed

LEMMA UseTypes ==
  ASSUME ControlOK, NEW k \in {"faults", "toggles", "refusals"}, NEW bound, Use(k, bound),
         bound = CASE k = "faults" -> MaxFaults [] k = "toggles" -> MaxToggles
                   [] k = "refusals" -> MaxRefusals
  PROVE  used' \in [faults : 0 .. MaxFaults, toggles : 0 .. MaxToggles,
                    refusals : 0 .. MaxRefusals]
<1>1. CASE k = "faults"
  BY <1>1, BoundAssumption DEF Use, ControlOK
<1>2. CASE k = "toggles"
  BY <1>2, BoundAssumption DEF Use, ControlOK
<1>3. CASE k = "refusals"
  BY <1>3, BoundAssumption DEF Use, ControlOK
<1> QED
  BY <1>1, <1>2, <1>3

LEMMA SettleTypes ==
  ASSUME TasksOK, NEW S, NEW how \in Settlements, Settle(S, how)
  PROVE  settled' \in [Tasks -> Settlements]
BY DEF TasksOK, Settle

\* A task goes on to a point where it needs no thread, or has one.
LEMMA PointTypes ==
  ASSUME TasksOK, NEW t \in Tasks, NEW p \in Points, pc' = [pc EXCEPT ![t] = p],
         settled' \in [Tasks -> Settlements], target' \in [Tasks -> Threads \cup {NoThread}],
         p \in {"unsubscribe", "cache"} => target'[t] \in Threads,
         \A u \in Tasks \ {t} : target'[u] = target[u]
  PROVE  TasksOK'
<1>1. pc' \in [Tasks -> Points] /\ pc'[t] = p /\ \A u \in Tasks \ {t} : pc'[u] = pc[u]
  BY DEF TasksOK
<1> QED
  BY <1>1 DEF TasksOK

LEMMA RunTypes ==
  ASSUME ControlOK, TasksOK, NEW c \in Controllers, NEW e \in Environments,
         RunReconnect(c, e), UNCHANGED <<settled, target>>
  PROVE  /\ ctl' \in Controllers /\ tried' \in Nat /\ TasksOK'
         /\ sock' \in {"none", "connecting", "failed", "open"}
<1>1. CASE c.reconnecting \/ ~ShouldReconnect(c, e)
  BY <1>1 DEF RunReconnect, ControlOK, TasksOK
<1>2. CASE ~(c.reconnecting \/ ~ShouldReconnect(c, e))
  <2>1. PICK b : b = BeginAttempt(c)
    OBVIOUS
  <2>2. b \in Controllers
    BY <2>1, BeginIs
  <2>3. ctl' = HandleStatus(b, "connecting", e) /\ tried' = b.attempt /\ sock' = "connecting"
        /\ pc' = [pc EXCEPT !["retry"] = "connect"]
    BY <1>2, <2>1 DEF RunReconnect
  <2>4. ctl' \in Controllers
    BY <2>2, <2>3, ConnectingIs
  <2>5. tried' \in Nat
    BY <2>2, <2>3 DEF Controllers
  <2>6. TasksOK'
    BY <2>3, PointTypes DEF Tasks, Points, TasksOK
  <2> QED
    BY <2>3, <2>4, <2>5, <2>6
<1> QED
  BY <1>1, <1>2

LEMMA ImmediatelyTypes ==
  ASSUME ControlOK, TasksOK, NEW e \in Environments,
         ReconnectImmediately(ctl, e), UNCHANGED <<settled, target>>
  PROVE  /\ ctl' \in Controllers /\ tried' \in Nat /\ TasksOK'
         /\ sock' \in {"none", "connecting", "failed", "open"}
<1>1. CASE ShouldReconnect(ctl, e)
  <2>1. PICK c : c = [ctl EXCEPT !.timer = FALSE]
    OBVIOUS
  <2>2. c \in Controllers
    BY <2>1, ClearIs DEF Same, ControlOK
  <2> QED
    BY <1>1, <2>1, <2>2, RunTypes DEF ReconnectImmediately
<1>2. CASE ~ShouldReconnect(ctl, e)
  BY <1>2 DEF ReconnectImmediately, ControlOK, TasksOK
<1> QED
  BY <1>1, <1>2

LEMMA StatusTypes ==
  ASSUME ctl \in Controllers, NEW e \in Environments,
         NEW status \in {"open", "closed", "error"}, OnStatus(status, e)
  PROVE  ctl' \in Controllers
<1>1. CASE status = "open"
  BY <1>1, OpenIs DEF OnStatus
<1>2. CASE status \in Down /\ ctl.started
  BY <1>2, DownIs DEF OnStatus
<1>3. CASE ~ctl.started
  BY <1>3 DEF OnStatus
<1> QED
  BY <1>1, <1>2, <1>3 DEF Down

\* The steps of the environment and of the socket.
LEMMA EnvironmentTyped ==
  ASSUME Typed,
         \/ Boot \/ TimerFires \/ Unmount \/ VisibilityChange \/ NetworkChange
         \/ DispatchNetworkEvent \/ PageShow
  PROVE  Typed'
<1>1. ControlOK /\ TasksOK /\ ClientOK /\ ServerOK
  BY DEF Typed
<1>2. ctl \in Controllers /\ env \in Environments
  BY <1>1 DEF ControlOK
<1>3. CASE Boot
  <2>1. PICK c : c = [ctl EXCEPT !.started = TRUE]
    OBVIOUS
  <2>2. c \in Controllers
    BY <1>2, <2>1, StartedSet
  <2>3. ctl' = HandleStatus(c, "connecting", env) /\ pc' = [pc EXCEPT !["boot"] = "connect"]
        /\ UNCHANGED <<tried, env, events, clientVars, serverVars, settled, target, used>>
        /\ sock' = "connecting"
    BY <1>3, <2>1 DEF Boot
  <2>4. ctl' \in Controllers
    BY <1>2, <2>2, <2>3, ConnectingIs
  <2>5. TasksOK'
    BY <1>1, <2>3, PointTypes DEF Tasks, Points, TasksOK
  <2> QED
    BY <1>1, <2>3, <2>4, <2>5 DEF Typed, ControlOK, ClientOK, ServerOK, clientVars, serverVars
<1>4. CASE TimerFires
  <2>1. PICK c : c = [ctl EXCEPT !.timer = FALSE]
    OBVIOUS
  <2>2. c \in Controllers
    BY <1>2, <2>1, ClearIs DEF Same
  <2>3. RunReconnect(c, env)
        /\ UNCHANGED <<env, events, clientVars, serverVars, settled, target, used>>
    BY <1>4, <2>1 DEF TimerFires
  <2>4. /\ ctl' \in Controllers /\ tried' \in Nat /\ TasksOK'
        /\ sock' \in {"none", "connecting", "failed", "open"}
    BY <1>1, <1>2, <2>2, <2>3, RunTypes
  <2> QED
    BY <1>1, <2>3, <2>4 DEF Typed, ControlOK, ClientOK, ServerOK, clientVars, serverVars
<1>5. CASE Unmount
  <2>1. ctl' \in Controllers
    BY <1>2, <1>5, StoppedIs DEF Unmount
  <2>2. TasksOK'
    <3>1. settled' \in [Tasks -> Settlements]
      BY <1>1, <1>5, SettleTypes DEF Unmount, Settlements
    <3> QED
      BY <1>1, <1>5, <3>1 DEF Unmount, TasksOK
  <2>3. ServerOK'
    BY <1>1, <1>5 DEF Unmount, ServerOK
  <2> QED
    BY <1>1, <1>5, <2>1, <2>2, <2>3 DEF Unmount, Typed, ControlOK, ClientOK, clientVars
<1>6. ASSUME NEW e \in Environments, ReconnectImmediately(ctl, e), UNCHANGED <<settled, target>>
      PROVE  /\ ctl' \in Controllers /\ tried' \in Nat /\ TasksOK'
             /\ sock' \in {"none", "connecting", "failed", "open"}
  BY <1>1, <1>6, ImmediatelyTypes
<1>7. ASSUME UNCHANGED <<sock, pc, tried, settled, target>>, ctl' \in Controllers
      PROVE  /\ ctl' \in Controllers /\ tried' \in Nat /\ TasksOK'
             /\ sock' \in {"none", "connecting", "failed", "open"}
  BY <1>1, <1>7 DEF ControlOK, TasksOK
<1>8. CASE VisibilityChange
  <2>1. env' \in Environments
    BY <1>2, <1>8 DEF VisibilityChange, Environments
  <2>2. used' \in [faults : 0 .. MaxFaults, toggles : 0 .. MaxToggles, refusals : 0 .. MaxRefusals]
    BY <1>1, <1>8, UseTypes DEF VisibilityChange
  <2>3. Hidden(ctl, env') \in Controllers
    BY <1>2, <2>1, HiddenIs DEF Same
  <2>4. /\ ctl' \in Controllers /\ tried' \in Nat /\ TasksOK'
        /\ sock' \in {"none", "connecting", "failed", "open"}
    BY <1>2, <1>6, <1>7, <1>8, <2>1, <2>3 DEF VisibilityChange
  <2>5. UNCHANGED <<events, clientVars, serverVars>>
    BY <1>8 DEF VisibilityChange
  <2> QED
    BY <1>1, <2>1, <2>2, <2>4, <2>5
       DEF Typed, ControlOK, ClientOK, ServerOK, clientVars, serverVars
<1>9. CASE NetworkChange
  <2>1. env' \in Environments
    BY <1>2, <1>9 DEF NetworkChange, Environments
  <2>2. used' \in [faults : 0 .. MaxFaults, toggles : 0 .. MaxToggles, refusals : 0 .. MaxRefusals]
    BY <1>1, <1>9, UseTypes DEF NetworkChange
  <2>3. events' \in Seq({"online", "offline"})
    <3>1. PICK x \in {"online", "offline"} : events' = Append(events, x)
      BY <1>9 DEF NetworkChange
    <3> QED
      BY <1>1, <3>1 DEF ControlOK
  <2> QED
    BY <1>1, <1>9, <2>1, <2>2, <2>3 DEF NetworkChange, Typed, ControlOK, TasksOK, ClientOK,
       ServerOK, clientVars, serverVars, taskVars
<1>10. CASE DispatchNetworkEvent
  <2>1. events' \in Seq({"online", "offline"})
    BY <1>1, <1>10 DEF DispatchNetworkEvent, ControlOK
  <2>2. HandleOffline(ctl) \in Controllers
    BY <1>2, OfflineIs DEF Same
  <2>3. /\ ctl' \in Controllers /\ tried' \in Nat /\ TasksOK'
        /\ sock' \in {"none", "connecting", "failed", "open"}
    BY <1>2, <1>6, <1>7, <1>10, <2>2 DEF DispatchNetworkEvent
  <2>4. UNCHANGED <<env, clientVars, serverVars, used>>
    BY <1>10 DEF DispatchNetworkEvent
  <2> QED
    BY <1>1, <2>1, <2>3, <2>4
       DEF Typed, ControlOK, ClientOK, ServerOK, clientVars, serverVars
<1>11. CASE PageShow
  <2>1. /\ ctl' \in Controllers /\ tried' \in Nat /\ TasksOK'
        /\ sock' \in {"none", "connecting", "failed", "open"}
    BY <1>2, <1>6, <1>11 DEF PageShow
  <2>2. used' \in [faults : 0 .. MaxFaults, toggles : 0 .. MaxToggles, refusals : 0 .. MaxRefusals]
    BY <1>1, <1>11, UseTypes DEF PageShow
  <2>3. UNCHANGED <<env, events, clientVars, serverVars>>
    BY <1>11 DEF PageShow
  <2> QED
    BY <1>1, <2>1, <2>2, <2>3
       DEF Typed, ControlOK, ClientOK, ServerOK, clientVars, serverVars
<1> QED
  BY <1>3, <1>4, <1>5, <1>8, <1>9, <1>10, <1>11

LEMMA SocketTyped ==
  ASSUME Typed, SocketOpens \/ ConnectFails \/ FailedCloses \/ SocketDrops
  PROVE  Typed'
<1>1. ControlOK /\ TasksOK /\ ClientOK /\ ServerOK
  BY DEF Typed
<1>2. ctl \in Controllers /\ env \in Environments
  BY <1>1 DEF ControlOK
<1>3. ctl' \in Controllers
  BY <1>2, StatusTypes DEF SocketOpens, ConnectFails, FailedCloses, SocketDrops
<1>4. TasksOK'
  <2>1. settled' \in [Tasks -> Settlements]
    <3>1. CASE FailedCloses
      BY <1>1, <3>1 DEF FailedCloses, TasksOK, taskVars
    <3>2. CASE SocketOpens \/ ConnectFails \/ SocketDrops
      BY <1>1, <3>2, SettleTypes DEF SocketOpens, ConnectFails, SocketDrops, Settlements
    <3> QED
      BY <3>1, <3>2
  <2> QED
    BY <1>1, <2>1 DEF SocketOpens, ConnectFails, FailedCloses, SocketDrops, TasksOK, taskVars
<1>5. used' \in [faults : 0 .. MaxFaults, toggles : 0 .. MaxToggles, refusals : 0 .. MaxRefusals]
  <2>1. CASE SocketOpens \/ FailedCloses
    BY <1>1, <2>1 DEF SocketOpens, FailedCloses, ControlOK
  <2>2. CASE ConnectFails \/ SocketDrops
    BY <1>1, <2>2, UseTypes DEF ConnectFails, SocketDrops
  <2> QED
    BY <2>1, <2>2
<1>6. ControlOK'
  BY <1>1, <1>3, <1>5 DEF SocketOpens, ConnectFails, FailedCloses, SocketDrops, ControlOK
<1>7. ServerOK'
  <2>1. CASE SocketOpens \/ SocketDrops
    <3>1. wire' = <<>> /\ served' = {} /\ refused' \in BOOLEAN
      BY <1>1, <2>1 DEF SocketOpens, SocketDrops, ServerOK
    <3> QED
      BY <3>1, EmptyWire DEF ServerOK
  <2>2. CASE ConnectFails \/ FailedCloses
    BY <1>1, <2>2 DEF ConnectFails, FailedCloses, ServerOK, serverVars
  <2> QED
    BY <2>1, <2>2
<1> QED
  BY <1>1, <1>4, <1>6, <1>7 DEF SocketOpens, ConnectFails, FailedCloses, SocketDrops, Typed,
     ClientOK, clientVars

\* The steps of the tasks.
WireOK ==
  /\ wire \in Seq(Messages)
  /\ \A i \in 1 .. Len(wire) : wire[i].command = "subscribe" => wire[i].thread \in Threads

LEMMA SendTypes ==
  ASSUME TasksOK, WireOK, NEW t \in Tasks, NEW command \in Commands,
         NEW thread \in Threads \cup {NoThread}, command = "subscribe" => thread \in Threads,
         Send(t, command, thread), target' \in [Tasks -> Threads \cup {NoThread}],
         command = "unsubscribe" => target'[t] \in Threads,
         \A u \in Tasks \ {t} : target'[u] = target[u]
  PROVE  TasksOK' /\ WireOK'
<1>1. settled' \in [Tasks -> Settlements]
  BY DEF Send, TasksOK, Settlements
<1>2. TasksOK'
  BY <1>1, PointTypes DEF Send, Points, Commands
<1>3. WireOK'
  <2> DEFINE m == [task |-> t, command |-> command, thread |-> thread]
  <2>1. m \in Messages /\ m.command = command /\ m.thread = thread
    BY DEF Messages
  <2>2. wire' = wire \/ wire' = Append(wire, m)
    BY DEF Send
  <2> HIDE DEF m
  <2>3. CASE wire' = wire
    BY <2>3 DEF WireOK
  <2>4. CASE wire' = Append(wire, m)
    <3>1. /\ wire' \in Seq(Messages) /\ Len(wire') = Len(wire) + 1 /\ Len(wire) \in Nat
          /\ wire'[Len(wire) + 1] = m
          /\ \A i \in 1 .. Len(wire) : wire'[i] = wire[i]
      BY <2>1, <2>4 DEF WireOK
    <3>2. ASSUME NEW i \in 1 .. Len(wire'), wire'[i].command = "subscribe"
          PROVE  wire'[i].thread \in Threads
      <4>1. CASE i = Len(wire) + 1
        BY <2>1, <3>1, <3>2, <4>1
      <4>2. CASE i # Len(wire) + 1
        <5>1. i \in 1 .. Len(wire)
          BY <3>1, <4>2
        <5> QED
          BY <3>1, <3>2, <5>1 DEF WireOK
      <4> QED
        BY <4>1, <4>2
    <3> QED
      BY <3>1, <3>2 DEF WireOK
  <2> QED
    BY <2>2, <2>3, <2>4
<1> QED
  BY <1>2, <1>3

LEMMA ShowTypes ==
  ASSUME TasksOK, NEW t \in Tasks, NEW thread \in Threads, Show(t, thread),
         target' \in [Tasks -> Threads \cup {NoThread}], target'[t] = thread,
         \A u \in Tasks \ {t} : target'[u] = target[u]
  PROVE  TasksOK' /\ active' = thread /\ activeSub' = thread
<1>1. settled' \in [Tasks -> Settlements]
  BY DEF Show, TasksOK, Settlements
<1> QED
  BY <1>1, PointTypes DEF Show, Points

LEMMA SelectTypes ==
  ASSUME TasksOK, WireOK, ClientOK, NEW t \in Tasks, NEW thread \in Threads,
         SelectThread(t, thread)
  PROVE  /\ TasksOK' /\ WireOK'
         /\ active' \in Threads \cup {NoThread} /\ activeSub' \in Threads \cup {NoThread}
<1>1. /\ target' \in [Tasks -> Threads \cup {NoThread}] /\ target'[t] = thread
      /\ \A u \in Tasks \ {t} : target'[u] = target[u]
  BY DEF SelectThread, TasksOK
<1>2. CASE activeSub \notin {NoThread, thread}
  <2>1. /\ Send(t, "unsubscribe", activeSub) /\ UNCHANGED <<active, activeSub>>
        /\ "unsubscribe" \in Commands
    BY <1>2 DEF SelectThread, Commands
  <2> QED
    BY <1>1, <2>1, SendTypes DEF ClientOK
<1>3. CASE activeSub \in {NoThread, thread}
  <2>1. Show(t, thread) /\ wire' = wire
    BY <1>3 DEF SelectThread
  <2> QED
    BY <1>1, <2>1, ShowTypes DEF WireOK
<1> QED
  BY <1>2, <1>3

LEMMA ContinueTyped ==
  ASSUME Typed, NEW t \in Tasks, Continue(t)
  PROVE  Typed'
<1>1. /\ ControlOK /\ TasksOK /\ ClientOK /\ ServerOK /\ WireOK
      /\ ctl \in Controllers /\ env \in Environments
  BY DEF Typed, ControlOK, ServerOK, WireOK
<1>2. UNCHANGED <<tried, sock, env, events, served, refused, fresh, used>>
  BY DEF Continue
<1>3. ASSUME ctl' \in Controllers, TasksOK', WireOK', listed' \in BOOLEAN,
             active' \in Threads \cup {NoThread}, activeSub' \in Threads \cup {NoThread}
      PROVE  Typed'
  BY <1>1, <1>2, <1>3 DEF Typed, ControlOK, ClientOK, ServerOK, WireOK
<1>4. CASE Restore(t)
  <2>1. TasksOK' /\ WireOK'
    BY <1>1, <1>4, SendTypes DEF Restore, Commands, TasksOK
  <2> QED
    BY <1>1, <1>3, <1>4, <2>1 DEF Restore, ClientOK
<1>5. CASE SelectRestored(t)
  <2>1. PICK thread \in Threads : SelectThread(t, thread)
    BY <1>1, <1>5 DEF SelectRestored, ClientOK
  <2>2. /\ TasksOK' /\ WireOK'
        /\ active' \in Threads \cup {NoThread} /\ activeSub' \in Threads \cup {NoThread}
    BY <1>1, <2>1, SelectTypes
  <2> QED
    BY <1>1, <1>3, <1>5, <2>2 DEF SelectRestored
<1>6. CASE ShowSelected(t)
  <2>1. target[t] \in Threads /\ Show(t, target[t]) /\ UNCHANGED <<ctl, target, wire, listed>>
    BY <1>1, <1>6 DEF ShowSelected, TasksOK
  <2>2. TasksOK' /\ active' = target[t] /\ activeSub' = target[t]
    BY <1>1, <2>1, ShowTypes DEF TasksOK
  <2> QED
    BY <1>1, <1>3, <2>1, <2>2 DEF ClientOK, WireOK
<1>7. CASE Subscribe(t)
  <2>1. /\ target[t] \in Threads /\ Send(t, "subscribe", target[t])
        /\ UNCHANGED <<ctl, target, active, activeSub, listed>>
    BY <1>1, <1>7 DEF Subscribe, TasksOK
  <2>2. TasksOK' /\ WireOK'
    BY <1>1, <2>1, SendTypes DEF TasksOK, Commands
  <2> QED
    BY <1>1, <1>3, <2>1, <2>2 DEF ClientOK
<1>8. CASE Over(t)
  <2>1. /\ Finish(t) /\ UNCHANGED <<active, activeSub, wire, listed>>
    BY <1>8 DEF Over
  <2>2. ctl' \in Controllers
    BY <1>1, <2>1, EndIs DEF Finish
  <2>3. PICK p \in {"idle", "done"} : pc' = [pc EXCEPT ![t] = p]
    BY <2>1 DEF Finish
  <2>4. /\ settled' \in [Tasks -> Settlements]
        /\ target' \in [Tasks -> Threads \cup {NoThread}]
        /\ \A u \in Tasks \ {t} : target'[u] = target[u]
    BY <1>1, <2>1 DEF Finish, TasksOK, Settlements
  <2>5. TasksOK'
    BY <1>1, <2>3, <2>4, PointTypes DEF Points
  <2> QED
    BY <1>1, <1>3, <2>1, <2>2, <2>5 DEF ClientOK, WireOK
<1> QED
  BY <1>4, <1>5, <1>6, <1>7, <1>8 DEF Continue

LEMMA UserTyped ==
  ASSUME Typed, StartNewChat \/ Answer \/ \E t \in Tasks : CacheRead(t) \/ Click(t)
  PROVE  Typed'
<1>1. ControlOK /\ TasksOK /\ ClientOK /\ ServerOK /\ WireOK
  BY DEF Typed, ServerOK, WireOK
<1>2. CASE StartNewChat
  BY <1>1, <1>2 DEF StartNewChat, Typed, ControlOK, TasksOK, ClientOK, ServerOK, serverVars,
     taskVars
<1>3. CASE Answer
  <2>1. settled' \in [Tasks -> Settlements]
    BY <1>1, <1>3, SettleTypes DEF Answer, Settlements
  <2>2. TasksOK'
    BY <1>1, <1>3, <2>1 DEF Answer, TasksOK
  <2>3. /\ wire # <<>> /\ wire' = Tail(wire) /\ wire \in Seq(Messages)
    BY <1>1, <1>3 DEF Answer, WireOK
  <2>4. /\ Tail(wire) \in Seq(Messages) /\ Len(Tail(wire)) = Len(wire) - 1
        /\ Len(wire) \in Nat /\ Len(wire) >= 1 /\ Head(wire) = wire[1]
        /\ \A i \in 1 .. Len(Tail(wire)) : Tail(wire)[i] = wire[i + 1]
    BY <2>3
  <2>5. ASSUME NEW i \in 1 .. Len(wire'), wire'[i].command = "subscribe"
        PROVE  wire'[i].thread \in Threads
    <3>1. i + 1 \in 1 .. Len(wire) /\ wire'[i] = wire[i + 1]
      BY <2>3, <2>4
    <3> QED
      BY <1>1, <2>5, <3>1 DEF WireOK
  <2>6. served' \in SUBSET Threads
    <3>1. CASE served' = served
      BY <1>1, <3>1 DEF ServerOK
    <3>2. CASE served' = AfterCommand(Head(wire))
      <4>1. Head(wire).command = "subscribe" => Head(wire).thread \in Threads
        BY <1>1, <2>3, <2>4 DEF WireOK
      <4>2. Head(wire) \in Messages
        BY <2>3, <2>4
      <4>3. Head(wire).command \in Commands
        BY <4>2 DEF Messages
      <4> QED
        BY <1>1, <3>2, <4>1, <4>3 DEF AfterCommand, ServerOK, Commands
    <3> QED
      BY <1>3, <3>1, <3>2 DEF Answer
  <2>7. used' \in [faults : 0 .. MaxFaults, toggles : 0 .. MaxToggles, refusals : 0 .. MaxRefusals]
    <3>1. CASE used' = used
      BY <1>1, <3>1 DEF ControlOK
    <3>2. CASE Use("refusals", MaxRefusals)
      BY <1>1, <3>2, UseTypes
    <3> QED
      BY <1>3, <3>1, <3>2 DEF Answer
  <2>8. ServerOK'
    BY <1>1, <1>3, <2>3, <2>4, <2>5, <2>6 DEF Answer, ServerOK
  <2>9. ControlOK'
    BY <1>1, <1>3, <2>7 DEF Answer, ControlOK
  <2> QED
    BY <1>1, <1>3, <2>2, <2>8, <2>9 DEF Answer, Typed, ClientOK, clientVars
<1>4. ASSUME NEW t \in Tasks, CacheRead(t) PROVE Typed'
  <2>1. settled' \in [Tasks -> Settlements]
    BY <1>1, <1>4, SettleTypes DEF CacheRead, Settlements
  <2> QED
    BY <1>1, <1>4, <2>1 DEF CacheRead, Typed, ControlOK, TasksOK, ClientOK, ServerOK,
       clientVars, serverVars
<1>5. ASSUME NEW t \in Tasks, Click(t) PROVE Typed'
  <2>1. PICK thread \in Threads : SelectThread(t, thread)
    BY <1>5 DEF Click
  <2>2. /\ TasksOK' /\ WireOK'
        /\ active' \in Threads \cup {NoThread} /\ activeSub' \in Threads \cup {NoThread}
    BY <1>1, <2>1, SelectTypes
  <2> QED
    BY <1>1, <1>5, <2>2 DEF Click, Typed, ControlOK, ClientOK, ServerOK, WireOK
<1> QED
  BY <1>2, <1>3, <1>4, <1>5

LEMMA TypedStep == Typed /\ [Next]_vars => Typed'
<1>1. ASSUME Typed, UNCHANGED vars PROVE Typed'
  BY <1>1 DEF vars, clientVars, serverVars, taskVars, Typed, ControlOK, TasksOK, ClientOK,
     ServerOK
<1> QED
  BY <1>1, EnvironmentTyped, SocketTyped, ContinueTyped, UserTyped DEF Next

\* Everything the browser keeps has its type, whatever the user clicks and breaks.
THEOREM TypeInvariant == Spec => []TypeOK
<1> USE TypedBegins, TypedStep, TypedIsTypeOK
<1> QED
  BY PTL DEF Spec
-----------------------------------------------------------------------------
(***************************************************************************)
(* The controller and the socket, the events and the attempts.             *)
(***************************************************************************)

LEMMA ClearKeeps ==
  ASSUME NEW c \in Controllers, NEW n \in Nat, Good(c, n)
  PROVE  Good([c EXCEPT !.timer = FALSE], n)
<1>1. PICK d : d = [c EXCEPT !.timer = FALSE]
  OBVIOUS
<1>2. /\ Same(c, d) /\ d.phase = c.phase /\ d.shown = c.shown
      /\ d.attempt = c.attempt /\ ~d.timer
  BY <1>1, ClearIs
<1>3. Good(d, n)
  BY <1>2 DEF Good, Same
<1> QED
  BY <1>1, <1>3

\* Hidden and HandleOffline.
LEMMA PauseKeeps ==
  ASSUME NEW c \in Controllers, NEW n \in Nat, Good(c, n), NEW d, Same(c, d),
         d.attempt = c.attempt,
         IF c.recovering THEN ~d.timer /\ d.shown = PendingAttempt(c) ELSE d = c
  PROVE  Good(d, n)
<1>1. CASE ~c.recovering
  BY <1>1
<1>2. CASE c.recovering
  <2>1. /\ c.attempt \in Nat /\ d.shown \in Nat /\ c.started
    BY <1>2 DEF Controllers, Same, Good
  <2>2. IF c.timer THEN d.shown = c.attempt ELSE d.shown > c.attempt
    BY <1>2, PendingIs
  <2>3. d.shown > n
    <3>1. CASE c.timer
      BY <2>1, <2>2, <3>1 DEF Good
    <3>2. CASE ~c.timer
      <4>1. c.attempt >= n
        BY <2>1 DEF Good
      <4> QED
        BY <2>1, <2>2, <3>2, <4>1
    <3> QED
      BY <3>1, <3>2
  <2> QED
    BY <1>2, <2>1, <2>3 DEF Good, Same
<1> QED
  BY <1>1, <1>2

LEMMA EndKeeps ==
  ASSUME NEW c \in Controllers, NEW e \in Environments, NEW n \in Nat, Good(c, n)
  PROVE  LET d == EndAttempt(c, e) IN
         /\ d \in Controllers /\ d.started = c.started /\ d.status = c.status
         /\ Good(d, n) /\ Waits(d, e)
<1> DEFINE mayWait == c.started /\ c.recovering /\ c.status \in Down
<1>1. PICK d : d = EndAttempt(c, e)
  OBVIOUS
<1>2. /\ d \in Controllers /\ d.started = c.started /\ d.status = c.status
      /\ d.recovering = c.recovering /\ ~d.reconnecting
      /\ ~mayWait => d.attempt = c.attempt /\ d.timer = c.timer /\ d.phase = c.phase
      /\ mayWait /\ ~CanReconnectNow(e) =>
           d.shown > c.attempt /\ d.attempt = c.attempt /\ d.timer = c.timer
      /\ mayWait /\ CanReconnectNow(e) =>
           d.timer /\ IF c.timer THEN d.attempt = c.attempt ELSE d.attempt > c.attempt
  BY <1>1, EndIs
<1>3. /\ c.attempt \in Nat /\ d.attempt \in Nat /\ d.shown \in Nat
  BY <1>2 DEF Controllers
<1>4. Good(d, n) /\ Waits(d, e)
  <2>1. CASE ~mayWait
    <3>1. c.recovering => c.started
      BY DEF Good
    <3>2. ~(c.recovering /\ c.status \in Down)
      BY <2>1, <3>1
    <3>3. c.started => c.status \notin Down
      BY <3>2 DEF Good
    <3> QED
      BY <1>2, <2>1, <3>2, <3>3 DEF Good, Waits
  <2>2. CASE mayWait
    <3>1. c.attempt >= n /\ c.status # "idle" /\ (c.timer => c.attempt > n)
      BY <2>2 DEF Good
    <3>2. CASE CanReconnectNow(e)
      <4>1. d.attempt > n
        BY <1>2, <1>3, <2>2, <3>1, <3>2
      <4> QED
        BY <1>2, <1>3, <2>2, <3>1, <3>2, <4>1 DEF Good, Waits
    <3>3. CASE ~CanReconnectNow(e)
      <4>1. d.shown > n /\ d.attempt >= n /\ (d.timer => d.attempt > n)
        BY <1>2, <1>3, <2>2, <3>1, <3>3
      <4> QED
        BY <1>2, <2>2, <3>1, <3>3, <4>1 DEF Good, Waits
    <3> QED
      BY <3>2, <3>3
  <2> QED
    BY <2>1, <2>2
<1> QED
  BY <1>1, <1>2, <1>4

\* The socket s is in the state that the controller c has been told.
Told(c, s) ==
  /\ c.started => /\ c.status = "open" <=> s = "open"
                  /\ c.status = "connecting" <=> s = "connecting"
  /\ ~c.started => s = "none"

\* An event that waits ends with what the browser is now.
Latest == events # <<>> => (events[Len(events)] = "online" <=> env.online)

Linked ==
  /\ Good(ctl, tried) /\ Told(ctl, sock) /\ Latest
  /\ events = <<>> => Waits(ctl, env)
  /\ pc["boot"] = "idle" => ~ctl.started /\ tried = 0

\* A run of runReconnect: the attempt is higher than the last one tried.
LEMMA RunKeeps ==
  ASSUME Typed, NEW c \in Controllers, NEW e \in Environments, Good(c, tried), Told(c, sock),
         c.started = ctl.started, RunReconnect(c, e), c.timer => ~ShouldReconnect(c, e),
         c.status = ctl.status, c.recovering = ctl.recovering,
         c.reconnecting = ctl.reconnecting
  PROVE  /\ Good(ctl, tried)' /\ Told(ctl, sock)'
         /\ ctl'.started = ctl.started
         /\ c.started /\ ~c.timer => Waits(ctl', e)
         /\ tried' = tried \/ ctl.started
         /\ pc'["boot"] = pc["boot"]
         /\ pc["retry"] = "idle" /\ pc'["retry"] = "connect" => ctl'.attempt > tried
<1>1. tried \in Nat /\ pc \in [Tasks -> Points] /\ "retry" \in Tasks /\ "boot" \in Tasks
  BY DEF Typed, ControlOK, TasksOK, Tasks
<1>2. CASE c.reconnecting \/ ~ShouldReconnect(c, e)
  <2>1. ctl' = c /\ UNCHANGED <<sock, pc, tried>>
    BY <1>2 DEF RunReconnect
  <2>2. c.started => Waits(c, e)
    BY <1>2 DEF Waits, ShouldReconnect, Down
  <2> QED
    BY <1>1, <2>1, <2>2 DEF Good, Told, Down
<1>3. CASE ~c.reconnecting /\ ShouldReconnect(c, e)
  <2>1. PICK b : b = BeginAttempt(c)
    OBVIOUS
  <2>2. /\ b \in Controllers /\ b.started = c.started /\ b.status = c.status
        /\ b.recovering = c.recovering /\ b.reconnecting /\ b.timer = c.timer
        /\ b.attempt >= 1 /\ b.attempt >= c.attempt /\ b.attempt >= c.shown
    BY <2>1, BeginIs
  <2>3. PICK d : d = HandleStatus(b, "connecting", e)
    OBVIOUS
  <2>4. /\ d \in Controllers /\ d.started = b.started /\ d.reconnecting = b.reconnecting
        /\ d.status = "connecting" /\ d.recovering = b.recovering /\ d.timer = b.timer
        /\ d.attempt = b.attempt
    BY <2>2, <2>3, ConnectingIs
  <2>5. /\ ctl' = d /\ tried' = b.attempt /\ sock' = "connecting"
        /\ pc' = [pc EXCEPT !["retry"] = "connect"]
    BY <1>3, <2>1, <2>3 DEF RunReconnect
  <2>6. c.started /\ ~c.timer /\ c.status \in Down
    BY <1>3 DEF ShouldReconnect, Controllers, Status, Down, Good
  <2>7. b.attempt > tried
    <3>1. c.attempt \in Nat /\ c.shown \in Nat /\ b.attempt \in Nat
      BY <2>2 DEF Controllers
    <3>2. c.attempt > tried \/ c.shown > tried
      BY <2>6 DEF Good
    <3> QED
      BY <1>1, <2>2, <3>1, <3>2
  <2>8. Good(d, b.attempt)
    <3>1. b.attempt \in Nat
      BY <2>2 DEF Controllers
    <3> QED
      BY <2>2, <2>4, <2>6, <3>1 DEF Good, Down
  <2>9. Told(d, "connecting") /\ Waits(d, e)
    BY <2>2, <2>4, <2>6 DEF Told, Waits, Down
  <2> QED
    BY <1>1, <2>2, <2>4, <2>5, <2>6, <2>7, <2>8, <2>9
<1> QED
  BY <1>2, <1>3

\* A retry that begins has a higher number than the last.
Backs == pc["retry"] = "idle" /\ pc'["retry"] = "connect" => ctl'.attempt > tried

LEMMA ImmediatelyKeeps ==
  ASSUME Typed, NEW e \in Environments, Good(ctl, tried), Told(ctl, sock), ctl.started,
         ReconnectImmediately(ctl, e)
  PROVE  /\ Good(ctl, tried)' /\ Told(ctl, sock)' /\ Waits(ctl', e)
         /\ ctl'.started /\ pc'["boot"] = pc["boot"] /\ Backs
<1>1. /\ ctl \in Controllers /\ tried \in Nat /\ "boot" \in Tasks
  BY DEF Typed, ControlOK, Tasks
<1>2. CASE ShouldReconnect(ctl, e)
  <2>1. PICK c : c = [ctl EXCEPT !.timer = FALSE]
    OBVIOUS
  <2>2. Same(ctl, c) /\ ~c.timer
    BY <1>1, <2>1, ClearIs
  <2>3. Good(c, tried)
    BY <1>1, <2>1, ClearKeeps
  <2>4. RunReconnect(c, e)
    BY <1>2, <2>1 DEF ReconnectImmediately
  <2>5. Told(c, sock)
    BY <2>2 DEF Told, Same
  <2> QED
    BY <2>2, <2>3, <2>4, <2>5, RunKeeps DEF Same, Backs
<1>3. CASE ~ShouldReconnect(ctl, e)
  <2>1. ctl' = ctl /\ UNCHANGED <<sock, pc, tried>>
    BY <1>3 DEF ReconnectImmediately
  <2>2. Waits(ctl, e)
    BY <1>3 DEF ShouldReconnect, Waits, Down
  <2> QED
    BY <2>1, <2>2 DEF Backs
<1> QED
  BY <1>2, <1>3

LEMMA LinkedBegins == Init => Linked
<1>1. ASSUME Init PROVE Linked
  <2>1. /\ ctl.status = "idle" /\ ~ctl.started /\ ~ctl.recovering /\ ~ctl.timer
        /\ ctl.phase = "idle" /\ sock = "none" /\ tried = 0 /\ events = <<>>
    BY <1>1 DEF Init
  <2> QED
    BY <2>1 DEF Linked, Good, Told, Waits, Latest
<1> QED
  BY <1>1

LEMMA BootLinked ==
  ASSUME Typed, Linked, Boot
  PROVE  Linked' /\ Backs
<1>1. /\ ctl \in Controllers /\ env \in Environments /\ pc \in [Tasks -> Points]
      /\ "boot" \in Tasks /\ "retry" \in Tasks
  BY DEF Typed, ControlOK, TasksOK, Tasks
<1>2. PICK c : c = [ctl EXCEPT !.started = TRUE]
  OBVIOUS
<1>3. /\ c \in Controllers /\ c.started /\ c.timer = ctl.timer /\ c.attempt = ctl.attempt
      /\ c.recovering = ctl.recovering
  BY <1>1, <1>2, StartedSet
<1>4. PICK d : d = HandleStatus(c, "connecting", env)
  OBVIOUS
<1>5. /\ d \in Controllers /\ d.started /\ d.status = "connecting" /\ d.timer = c.timer
      /\ d.attempt = c.attempt
  BY <1>1, <1>3, <1>4, ConnectingIs
<1>6. /\ ctl' = d /\ sock' = "connecting" /\ pc' = [pc EXCEPT !["boot"] = "connect"]
      /\ tried' = 0 /\ ~ctl.started /\ UNCHANGED <<env, events>>
  BY <1>2, <1>4 DEF Boot, Linked
<1>7. ~d.timer /\ d.attempt >= 0
  BY <1>3, <1>5, <1>6 DEF Linked, Good, Controllers
<1>8. Good(d, 0) /\ Told(d, "connecting") /\ Waits(d, env)
  BY <1>5, <1>7 DEF Good, Told, Waits, Down
<1>9. pc'["boot"] = "connect" /\ pc'["retry"] = pc["retry"]
  BY <1>1, <1>6
<1> QED
  BY <1>6, <1>8, <1>9 DEF Linked, Latest, Backs

LEMMA TimerLinked ==
  ASSUME Typed, Linked, TimerFires
  PROVE  Linked' /\ Backs
<1>1. ctl \in Controllers /\ env \in Environments /\ tried \in Nat
  BY DEF Typed, ControlOK
<1>2. PICK c : c = [ctl EXCEPT !.timer = FALSE]
  OBVIOUS
<1>3. Same(ctl, c) /\ ~c.timer
  BY <1>1, <1>2, ClearIs
<1>4. Good(c, tried) /\ Told(c, sock)
  BY <1>1, <1>2, <1>3, ClearKeeps DEF Linked, Told, Same
<1>5. RunReconnect(c, env) /\ UNCHANGED <<env, events>> /\ ctl.started
  BY <1>1, <1>2 DEF TimerFires, Linked, Good, Controllers
<1>6. /\ Good(ctl, tried)' /\ Told(ctl, sock)' /\ ctl'.started = ctl.started
      /\ Waits(ctl', env) /\ pc'["boot"] = pc["boot"] /\ Backs
  BY <1>1, <1>3, <1>4, <1>5, RunKeeps DEF Same, Backs
<1> QED
  BY <1>5, <1>6 DEF Linked, Latest

LEMMA VisibilityLinked ==
  ASSUME Typed, Linked, VisibilityChange
  PROVE  Linked' /\ Backs
<1>1. ctl \in Controllers /\ env \in Environments /\ tried \in Nat
  BY DEF Typed, ControlOK
<1>2. env' \in Environments /\ env'.online = env.online /\ events' = events
  BY <1>1 DEF VisibilityChange, Environments
<1>3. Latest'
  BY <1>2 DEF Linked, Latest
<1>4. CASE ~ctl.started /\ UNCHANGED <<ctl, sock, pc, tried>>
  <2>1. Waits(ctl', env')
    BY <1>4 DEF Linked, Good, Waits
  <2> QED
    BY <1>2, <1>3, <1>4, <2>1 DEF Linked, Backs
<1>5. CASE ctl.started /\ ReconnectImmediately(ctl, env')
  <2>1. /\ Good(ctl, tried)' /\ Told(ctl, sock)' /\ Waits(ctl', env')
        /\ ctl'.started /\ pc'["boot"] = pc["boot"] /\ Backs
    BY <1>2, <1>5, ImmediatelyKeeps DEF Linked
  <2> QED
    BY <1>2, <1>3, <1>5, <2>1 DEF Linked
<1>6. CASE ctl.started /\ ~env'.visible /\ ctl' = Hidden(ctl, env') /\ UNCHANGED <<sock, pc, tried>>
  <2>1. PICK d : d = Hidden(ctl, env')
    OBVIOUS
  <2>2. /\ Same(ctl, d) /\ d.attempt = ctl.attempt
        /\ IF ctl.recovering THEN ~d.timer /\ d.shown = PendingAttempt(ctl) ELSE d = ctl
    BY <1>1, <1>2, <2>1, HiddenIs
  <2>3. Good(d, tried)
    BY <1>1, <2>2, PauseKeeps DEF Linked
  <2>4. Told(d, sock) /\ Waits(d, env')
    BY <1>6, <2>2 DEF Linked, Told, Same, Waits, CanReconnectNow
  <2> QED
    BY <1>2, <1>3, <1>6, <2>1, <2>2, <2>3, <2>4 DEF Linked, Backs, Same
<1> QED
  BY <1>4, <1>5, <1>6 DEF VisibilityChange

LEMMA NetworkLinked ==
  ASSUME Typed, Linked, NetworkChange
  PROVE  Linked' /\ Backs
<1>1. events \in Seq({"online", "offline"}) /\ env \in Environments
  BY DEF Typed, ControlOK
<1>2. /\ events' = Append(events, IF env.online THEN "offline" ELSE "online")
      /\ env' = [env EXCEPT !.online = ~@] /\ UNCHANGED <<ctl, sock, pc, tried>>
  BY DEF NetworkChange, taskVars
<1>3. env'.online = ~env.online
  BY <1>1, <1>2 DEF Environments
<1>4. PICK x \in {"online", "offline"} : x = IF env.online THEN "offline" ELSE "online"
  OBVIOUS
<1>5. Len(events') = Len(events) + 1 /\ events'[Len(events')] = x /\ events' # <<>>
  BY <1>1, <1>2, <1>4
<1>6. x = "online" <=> env'.online
  BY <1>3, <1>4
<1>7. Latest'
  BY <1>5, <1>6 DEF Latest
<1> QED
  BY <1>2, <1>5, <1>7 DEF Linked, Backs

LEMMA DispatchLinked ==
  ASSUME Typed, Linked, DispatchNetworkEvent
  PROVE  Linked' /\ Backs
<1>1. /\ ctl \in Controllers /\ env \in Environments /\ tried \in Nat
      /\ events \in Seq({"online", "offline"})
  BY DEF Typed, ControlOK
<1>2. events # <<>> /\ events' = Tail(events) /\ env' = env
  BY DEF DispatchNetworkEvent
<1>3. /\ Len(events) \in Nat /\ Len(events) >= 1 /\ Len(events') = Len(events) - 1
      /\ \A i \in 1 .. Len(events') : events'[i] = events[i + 1]
      /\ Head(events) = events[1] /\ Head(events) \in {"online", "offline"}
      /\ events' = <<>> <=> Len(events') = 0
  <2>1. PICK tail : tail = Tail(events)
    OBVIOUS
  <2>2. /\ Len(events) \in Nat /\ Len(events) >= 1 /\ Len(tail) = Len(events) - 1
        /\ \A i \in 1 .. Len(tail) : tail[i] = events[i + 1]
        /\ tail \in Seq({"online", "offline"})
    BY <1>1, <1>2, <2>1
  <2>3. Head(events) = events[1] /\ events[1] \in {"online", "offline"}
    BY <1>1, <1>2
  <2>4. tail = <<>> <=> Len(tail) = 0
    BY <2>2
  <2> QED
    BY <1>2, <2>1, <2>2, <2>3, <2>4
<1>4. Latest'
  <2>1. ASSUME events' # <<>>
        PROVE  events'[Len(events')] = "online" <=> env'.online
    <3>1. /\ Len(events') \in 1 .. Len(events') /\ Len(events') + 1 = Len(events)
      BY <1>3, <2>1
    <3>2. events'[Len(events')] = events[Len(events)]
      BY <1>3, <3>1
    <3> QED
      BY <1>2, <3>2 DEF Linked, Latest
  <2> QED
    BY <2>1 DEF Latest
<1>5. events' = <<>> => (Head(events) = "online" <=> env.online)
  <2>1. events' = <<>> => Len(events) = 1
    BY <1>3
  <2> QED
    BY <1>2, <1>3, <2>1 DEF Linked, Latest
<1>6. CASE ~ctl.started /\ UNCHANGED <<ctl, sock, pc, tried>>
  <2>1. Waits(ctl', env')
    BY <1>6 DEF Linked, Good, Waits
  <2> QED
    BY <1>4, <1>6, <2>1 DEF Linked, Backs
<1>7. CASE ctl.started /\ ReconnectImmediately(ctl, env)
  <2>1. /\ Good(ctl, tried)' /\ Told(ctl, sock)' /\ Waits(ctl', env)
        /\ ctl'.started /\ pc'["boot"] = pc["boot"] /\ Backs
    BY <1>1, <1>7, ImmediatelyKeeps DEF Linked
  <2> QED
    BY <1>2, <1>4, <1>7, <2>1 DEF Linked
<1>8. CASE /\ ctl.started /\ Head(events) = "offline"
           /\ ctl' = HandleOffline(ctl) /\ UNCHANGED <<sock, pc, tried>>
  <2>1. PICK d : d = HandleOffline(ctl)
    OBVIOUS
  <2>2. /\ Same(ctl, d) /\ d.attempt = ctl.attempt
        /\ IF ctl.recovering THEN ~d.timer /\ d.shown = PendingAttempt(ctl) ELSE d = ctl
    BY <1>1, <2>1, OfflineIs
  <2>3. Good(d, tried)
    BY <1>1, <2>2, PauseKeeps DEF Linked
  <2>4. Told(d, sock)
    BY <1>8, <2>2 DEF Linked, Told, Same
  <2>5. events' = <<>> => Waits(d, env)
    BY <1>5, <1>8 DEF Waits, CanReconnectNow
  <2> QED
    BY <1>2, <1>4, <1>8, <2>1, <2>2, <2>3, <2>4, <2>5 DEF Linked, Backs, Same
<1> QED
  BY <1>6, <1>7, <1>8 DEF DispatchNetworkEvent

LEMMA PageShowLinked ==
  ASSUME Typed, Linked, PageShow
  PROVE  Linked' /\ Backs
<1>1. /\ env \in Environments /\ ctl.started /\ ReconnectImmediately(ctl, env)
      /\ UNCHANGED <<env, events>>
  BY DEF PageShow, Typed, ControlOK
<1>2. /\ Good(ctl, tried)' /\ Told(ctl, sock)' /\ Waits(ctl', env)
      /\ ctl'.started /\ pc'["boot"] = pc["boot"] /\ Backs
  BY <1>1, ImmediatelyKeeps DEF Linked
<1> QED
  BY <1>1, <1>2 DEF Linked, Latest

\* The socket reports a connection that is lost or was not made.
LEMMA LostLinked ==
  ASSUME Typed, Linked, NEW status \in Down, OnStatus(status, env), sock # "none",
         sock' \in {"none", "failed"}, UNCHANGED <<env, events, pc, tried>>
  PROVE  Linked' /\ Backs
<1>1. ctl \in Controllers /\ env \in Environments /\ tried \in Nat /\ ctl.started
  BY DEF Typed, ControlOK, Linked, Told
<1>2. PICK d : d = HandleStatus(ctl, status, env)
  OBVIOUS
<1>3. ctl' = d
  BY <1>1, <1>2 DEF OnStatus
<1>4. d.started /\ d.status = status /\ Good(d, tried) /\ Waits(d, env)
  BY <1>1, <1>2, DownKeeps DEF Linked
<1>5. Told(d, sock')
  BY <1>4 DEF Told, Down
<1> QED
  BY <1>1, <1>3, <1>4, <1>5 DEF Linked, Latest, Backs

LEMMA SocketLinked ==
  ASSUME Typed, Linked, SocketOpens \/ ConnectFails \/ FailedCloses \/ SocketDrops \/ Unmount
  PROVE  Linked' /\ Backs
<1>1. ctl \in Controllers /\ env \in Environments /\ tried \in Nat
  BY DEF Typed, ControlOK
<1>2. CASE SocketOpens
  <2>1. ctl.started
    BY <1>2 DEF SocketOpens, Linked, Told
  <2>2. PICK d : d = HandleStatus(ctl, "open", env)
    OBVIOUS
  <2>3. /\ d \in Controllers /\ d.started = ctl.started /\ d.status = "open"
        /\ ~d.recovering /\ ~d.timer /\ d.attempt = 0
    BY <1>1, <2>2, OpenIs
  <2>4. /\ ctl' = d /\ sock' = "open" /\ tried' = 0 /\ UNCHANGED <<env, events, pc>>
    BY <1>2, <2>1, <2>2 DEF SocketOpens, OnStatus
  <2>5. Good(d, 0) /\ Told(d, "open") /\ Waits(d, env)
    BY <2>1, <2>3 DEF Good, Told, Waits, Down
  <2> QED
    BY <2>1, <2>3, <2>4, <2>5 DEF Linked, Latest, Backs
<1>3. CASE ConnectFails
  <2>1. /\ OnStatus("error", env) /\ sock # "none" /\ sock' = "failed"
        /\ UNCHANGED <<env, events, pc, tried>>
    BY <1>3 DEF ConnectFails
  <2> QED
    BY <2>1, LostLinked DEF Down
<1>4. CASE FailedCloses
  <2>1. /\ OnStatus("error", env) /\ sock # "none" /\ sock' = "none"
        /\ UNCHANGED <<env, events, pc, tried>>
    BY <1>4 DEF FailedCloses, taskVars
  <2> QED
    BY <2>1, LostLinked DEF Down
<1>5. CASE SocketDrops
  <2>1. /\ OnStatus("closed", env) /\ sock # "none" /\ sock' = "none"
        /\ UNCHANGED <<env, events, pc, tried>>
    BY <1>5 DEF SocketDrops
  <2> QED
    BY <2>1, LostLinked DEF Down
<1>6. CASE Unmount
  <2>1. PICK d : d = Stopped(ctl)
    OBVIOUS
  <2>2. /\ d \in Controllers /\ ~d.started /\ ~d.recovering /\ ~d.timer /\ d.phase = "idle"
    BY <1>1, <2>1, StoppedIs
  <2>3. /\ ctl' = d /\ sock' = "none" /\ ctl.started /\ UNCHANGED <<env, events, pc, tried>>
    BY <1>6, <2>1 DEF Unmount
  <2>4. Good(d, tried) /\ Told(d, "none") /\ Waits(d, env)
    BY <2>2 DEF Good, Told, Waits
  <2> QED
    BY <2>3, <2>4 DEF Linked, Latest, Backs
<1> QED
  BY <1>2, <1>3, <1>4, <1>5, <1>6

\* A task that goes on, or a click: only a retry that ends touches the controller.
LEMMA SendPoint ==
  ASSUME pc \in [Tasks -> Points], NEW t \in Tasks, NEW p \in Points,
         pc' = [pc EXCEPT ![t] = p], p # "idle" \/ t = "retry", p # "connect"
  PROVE  /\ pc'["boot"] = "idle" => pc["boot"] = "idle"
         /\ ~(pc["retry"] = "idle" /\ pc'["retry"] = "connect")
BY DEF Tasks

LEMMA SelectPoint ==
  ASSUME NEW t \in Tasks, NEW thread, SelectThread(t, thread)
  PROVE  \E p \in {"unsubscribe", "cache"} : pc' = [pc EXCEPT ![t] = p]
BY DEF SelectThread, Send, Show

LEMMA TasksLinked ==
  ASSUME Typed, Linked,
         StartNewChat \/ Answer \/ \E t \in Tasks : Continue(t) \/ CacheRead(t) \/ Click(t)
  PROVE  Linked' /\ Backs
<1>1. /\ ctl \in Controllers /\ env \in Environments /\ tried \in Nat
      /\ pc \in [Tasks -> Points]
  BY DEF Typed, ControlOK, TasksOK
<1>2. ASSUME UNCHANGED <<ctl, sock, env, events, tried>>, NEW t \in Tasks,
             NEW p \in Points \ {"idle", "connect"}, pc' = [pc EXCEPT ![t] = p]
      PROVE  Linked' /\ Backs
  <2>1. /\ pc'["boot"] = "idle" => pc["boot"] = "idle"
        /\ ~(pc["retry"] = "idle" /\ pc'["retry"] = "connect")
    BY <1>1, <1>2, SendPoint
  <2> QED
    BY <1>2, <2>1 DEF Linked, Latest, Backs
<1>3. ASSUME UNCHANGED <<ctl, sock, env, events, tried, pc>> PROVE Linked' /\ Backs
  BY <1>3 DEF Linked, Latest, Backs
<1>4. CASE StartNewChat
  BY <1>3, <1>4 DEF StartNewChat, taskVars
<1>5. CASE Answer
  BY <1>3, <1>5 DEF Answer
<1>6. ASSUME NEW t \in Tasks, CacheRead(t) PROVE Linked' /\ Backs
  BY <1>3, <1>6 DEF CacheRead
<1>7. ASSUME NEW t \in Tasks, Click(t) PROVE Linked' /\ Backs
  <2>1. /\ UNCHANGED <<ctl, sock, env, events, tried>>
        /\ \E p \in {"unsubscribe", "cache"} : pc' = [pc EXCEPT ![t] = p]
    BY <1>7, SelectPoint DEF Click
  <2> QED
    BY <1>2, <2>1 DEF Points, Commands
<1>8. ASSUME NEW t \in Tasks, Continue(t) PROVE Linked' /\ Backs
  <2>1. UNCHANGED <<sock, env, events, tried>>
    BY <1>8 DEF Continue
  <2>2. CASE Restore(t)
    <3>1. ctl' = ctl /\ pc' = [pc EXCEPT ![t] = "list"]
      BY <2>2 DEF Restore, Send
    <3> QED
      BY <1>2, <2>1, <3>1 DEF Points, Commands
  <2>3. CASE SelectRestored(t)
    <3>1. ctl' = ctl /\ \E p \in {"unsubscribe", "cache"} : pc' = [pc EXCEPT ![t] = p]
      BY <2>3, SelectPoint DEF SelectRestored
    <3> QED
      BY <1>2, <2>1, <3>1 DEF Points, Commands
  <2>4. CASE ShowSelected(t)
    <3>1. ctl' = ctl /\ pc' = [pc EXCEPT ![t] = "cache"]
      BY <2>4 DEF ShowSelected, Show
    <3> QED
      BY <1>2, <2>1, <3>1 DEF Points, Commands
  <2>5. CASE Subscribe(t)
    <3>1. ctl' = ctl /\ pc' = [pc EXCEPT ![t] = "subscribe"]
      BY <2>5 DEF Subscribe, Send
    <3> QED
      BY <1>2, <2>1, <3>1 DEF Points, Commands
  <2>6. CASE Over(t) /\ t # "retry"
    <3>1. ctl' = ctl /\ pc' = [pc EXCEPT ![t] = "done"]
      BY <2>6 DEF Over, Finish
    <3> QED
      BY <1>2, <2>1, <3>1 DEF Points, Commands
  <2>7. CASE Over(t) /\ t = "retry"
    <3>1. PICK d : d = EndAttempt(ctl, env)
      OBVIOUS
    <3>2. ctl' = d /\ pc' = [pc EXCEPT ![t] = "idle"]
      BY <2>7, <3>1 DEF Over, Finish
    <3>3. d.started = ctl.started /\ d.status = ctl.status /\ Good(d, tried) /\ Waits(d, env)
      BY <1>1, <3>1, EndKeeps DEF Linked
    <3>4. Told(d, sock)
      BY <3>3 DEF Linked, Told
    <3>5. /\ pc'["boot"] = "idle" => pc["boot"] = "idle"
          /\ ~(pc["retry"] = "idle" /\ pc'["retry"] = "connect")
      BY <1>1, <2>7, <3>2, SendPoint DEF Points
    <3> QED
      BY <2>1, <3>2, <3>3, <3>4, <3>5 DEF Linked, Latest, Backs
  <2> QED
    BY <1>8, <2>2, <2>3, <2>4, <2>5, <2>6, <2>7 DEF Continue
<1> QED
  BY <1>4, <1>5, <1>6, <1>7, <1>8

LEMMA LinkedStep == Typed /\ Linked /\ [Next]_vars => Linked' /\ Backs
<1>1. ASSUME Typed, Linked, UNCHANGED vars PROVE Linked' /\ Backs
  BY <1>1 DEF vars, taskVars, Linked, Latest, Backs
<1> QED
  BY <1>1, BootLinked, TimerLinked, VisibilityLinked, NetworkLinked, DispatchLinked,
     PageShowLinked, SocketLinked, TasksLinked DEF Next
-----------------------------------------------------------------------------
\* A connection that is down, of a page that is visible and online, is
\* always about to be made again: its timer runs, or an attempt does that
\* sets the timer when it ends.
THEOREM RetryPendingHolds == Spec => []RetryPending
<1>1. Linked => RetryPending
  BY DEF Linked, RetryPending, Waits
<1> USE TypedBegins, TypedStep, LinkedBegins, LinkedStep
<1> QED
  BY <1>1, PTL DEF Spec

\* The controller's status is the state of the socket, and it waits for a
\* timer only when there is no socket.
THEOREM StatusIsTrueHolds == Spec => []StatusIsTrue
<1>1. Typed /\ Linked => StatusIsTrue
  BY DEF Linked, StatusIsTrue, EventLoop, Good, Told, Down, Typed, ControlOK
<1> USE TypedBegins, TypedStep, LinkedBegins, LinkedStep
<1> QED
  BY <1>1, PTL DEF Spec

\* An unmounted workspace has no timer, no socket and no notice.
THEOREM LeftAloneHolds == Spec => []LeftAlone
<1>1. Linked => LeftAlone
  BY DEF Linked, LeftAlone, Unmounted, Good, Told
<1> USE TypedBegins, TypedStep, LinkedBegins, LinkedStep
<1> QED
  BY <1>1, PTL DEF Spec

\* Each retry has a higher number than the one before, until a connection
\* opens: a timer, a finally clause and the page's events never reuse one.
THEOREM RetriesBackOffHolds == Spec => RetriesBackOff
<1>1. Typed /\ Linked /\ [Next]_vars =>
        [pc["retry"] = "idle" /\ pc'["retry"] = "connect" => ctl'.attempt > tried]_vars
  BY LinkedStep DEF Backs
<1> USE TypedBegins, TypedStep, LinkedBegins, LinkedStep
<1> QED
  BY <1>1, PTL DEF Spec, RetriesBackOff
=============================================================================
