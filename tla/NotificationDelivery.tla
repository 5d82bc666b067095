------------------------ MODULE NotificationDelivery ------------------------
(***************************************************************************)
(* The delivery of notifications: publishers enqueue arq jobs, the worker  *)
(* runs task_send_notification for each, and NotificationLogRepository     *)
(* keeps one row per delivery key.  Every step ends in a commit, a call of *)
(* the mail provider or an answer of the queue; the worker can die, or the *)
(* attempt raise, between any two of them.                                 *)
(*                                                                         *)
(* A delivery key is (type, reference, channel, recipient); email is the   *)
(* only channel.  What the mails say is left out.                          *)
(***************************************************************************)
EXTENDS Integers, FiniteSets

CONSTANTS
  Jobs,      \* notifications a publisher can ask for
  Keys,      \* delivery keys
  UserJobs,  \* the jobs with a user_id, which get an in-app row
  MaxTries   \* max_tries of the task

ASSUME JobsAssumption == UserJobs \subseteq Jobs
ASSUME TriesAssumption == MaxTries \in Nat \ {0}

VARIABLES
  key,      \* key[j]: the delivery key of job j
  stage,    \* stage[j]: what becomes of job j next
  tries,    \* tries[j]: attempts begun
  outcome,  \* outcome[j]: what the channel reported in the running attempt
  loaded,   \* loaded[j]: the status of the log row the attempt has found
  log,      \* log[k]: the status of the committed row for key k, or "none"
  rows,     \* rows[j]: in-app rows written for j
  mailed,   \* history: mails the provider accepted for j
  lost      \* history: of these, the ones no attempt could record as sent

vars == <<key, stage, tries, outcome, loaded, log, rows, mailed, lost>>

DeliveredStatuses == {"sent", "skipped"}
Running == {"row", "check", "send", "find", "write", "finish"}
Ended == {"done", "gone", "dropped"}

\* Several jobs can have one key: an invitation resent, two commitments of one
\* contact in one call.
Init ==
  /\ key \in [Jobs -> Keys]
  /\ stage = [j \in Jobs |-> "new"]
  /\ tries = [j \in Jobs |-> 0]
  /\ outcome = [j \in Jobs |-> "none"]
  /\ loaded = [j \in Jobs |-> "none"]
  /\ log = [k \in Keys |-> "none"]
  /\ rows = [j \in Jobs |-> 0]
  /\ mailed = [j \in Jobs |-> 0]
  /\ lost = [j \in Jobs |-> 0]

Goto(j, next) == stage' = [stage EXCEPT ![j] = next]

\* A publisher that cannot reach the queue gives up: then this does not happen.
Enqueue(j) ==
  /\ stage[j] = "new"
  /\ Goto(j, "queued")
  /\ UNCHANGED <<key, tries, outcome, loaded, log, rows, mailed, lost>>

\* Mutant: attempts are not counted.
StartUncounted(j) ==
  /\ stage[j] = "queued" /\ tries[j] < MaxTries
  /\ \E next \in {"row", "gone"} : Goto(j, next)
  /\ UNCHANGED <<key, tries, outcome, loaded, log, rows, mailed, lost>>

\* An attempt, and its job, end at once if the user or the organization is gone.
Start(j) ==
  /\ stage[j] = "queued" /\ tries[j] < MaxTries
  /\ tries' = [tries EXCEPT ![j] = @ + 1]
  /\ \E next \in {"row", "gone"} : Goto(j, next)
  /\ UNCHANGED <<key, outcome, loaded, log, rows, mailed, lost>>

\* The in-app row, committed on its own, in every attempt.
WriteRow(j) ==
  /\ stage[j] = "row"
  /\ rows' = [rows EXCEPT ![j] = IF j \in UserJobs THEN @ + 1 ELSE @]
  /\ Goto(j, "check")
  /\ UNCHANGED <<key, tries, outcome, loaded, log, mailed, lost>>

\* Mutant: every attempt sends.
CheckNothing(j) ==
  /\ stage[j] = "check"
  /\ Goto(j, "send")
  /\ UNCHANGED <<key, tries, outcome, loaded, log, rows, mailed, lost>>

\* is_delivered
Check(j) ==
  /\ stage[j] = "check"
  /\ Goto(j, IF log[key[j]] \in DeliveredStatuses THEN "finish" ELSE "send")
  /\ UNCHANGED <<key, tries, outcome, loaded, log, rows, mailed, lost>>

\* Mutant: an exception of the provider's client counts as sent.
SendOptimist(j) ==
  /\ stage[j] = "send"
  /\ \E accepted \in BOOLEAN :
       /\ outcome' = [outcome EXCEPT ![j] = "sent"]
       /\ mailed' = [mailed EXCEPT ![j] = IF accepted THEN @ + 1 ELSE @]
  /\ Goto(j, "find")
  /\ UNCHANGED <<key, tries, loaded, log, rows, lost>>

\* channel.send never raises.  Mail is off without an API key, and an exception
\* (a timeout, say) does not tell whether the provider took the mail.
Send(j) ==
  /\ stage[j] = "send"
  /\ \E result \in {"sent", "skipped", "failed"}, accepted \in BOOLEAN :
       /\ result = "sent" => accepted
       /\ result = "skipped" => ~accepted
       /\ outcome' = [outcome EXCEPT ![j] = result]
       /\ mailed' = [mailed EXCEPT ![j] = IF accepted THEN @ + 1 ELSE @]
       /\ lost' = [lost EXCEPT ![j] = IF accepted /\ result = "failed" THEN @ + 1 ELSE @]
  /\ Goto(j, "find")
  /\ UNCHANGED <<key, tries, loaded, log, rows>>

\* The attempt ends where it is.  A queue that retries runs the job again, until
\* max_tries; one that does not (an exception that is no Retry) drops it.
EndAttempt(j) ==
  /\ \E next \in IF tries[j] < MaxTries THEN {"queued", "dropped"} ELSE {"dropped"} :
       Goto(j, next)
  /\ lost' = [lost EXCEPT ![j] =
       IF stage[j] \in {"find", "write"} /\ outcome[j] = "sent" THEN @ + 1 ELSE @]
  /\ UNCHANGED <<key, tries, outcome, loaded, log, rows, mailed>>

\* record_delivery: find the row ...
Find(j) ==
  /\ stage[j] = "find"
  /\ loaded' = [loaded EXCEPT ![j] = log[key[j]]]
  /\ Goto(j, "write")
  /\ UNCHANGED <<key, tries, outcome, log, rows, mailed, lost>>

\* ... and insert it (the unique constraint raises if it has come to exist) or
\* update its status if that is not what was loaded.
Write(j) ==
  LET k == key[j] IN
  /\ stage[j] = "write"
  /\ \/ /\ loaded[j] # "none" \/ log[k] = "none"
        /\ log' = [log EXCEPT ![k] = IF outcome[j] = loaded[j] THEN @ ELSE outcome[j]]
        /\ Goto(j, "finish")
        /\ UNCHANGED <<key, tries, outcome, loaded, rows, mailed, lost>>
     \/ /\ loaded[j] = "none" /\ log[k] # "none"
        /\ EndAttempt(j)

Finish(j) ==
  /\ stage[j] = "finish"
  /\ Goto(j, "done")
  /\ UNCHANGED <<key, tries, outcome, loaded, log, rows, mailed, lost>>

\* The worker is killed, times out, or loses the database.
Die(j) == stage[j] \in Running /\ EndAttempt(j)

Work(j) ==
  Start(j) \/ WriteRow(j) \/ Check(j) \/ Send(j) \/ Find(j) \/ Write(j) \/ Finish(j)

Next == \E j \in Jobs : Enqueue(j) \/ Work(j) \/ Die(j)

Spec == Init /\ [][Next]_vars

\* The worker process is kept running and takes up queued jobs.
FairSpec == Spec /\ \A j \in Jobs : WF_vars(Work(j))

-----------------------------------------------------------------------------
(* Properties.                                                             *)

\* Types; an attempt that runs has been counted.
TypeOK ==
  /\ key \in [Jobs -> Keys]
  /\ stage \in [Jobs -> {"new", "queued"} \cup Running \cup Ended]
  /\ tries \in [Jobs -> 0 .. MaxTries]
  /\ outcome \in [Jobs -> {"none", "sent", "skipped", "failed"}]
  /\ loaded \in [Jobs -> {"none", "sent", "skipped", "failed"}]
  /\ log \in [Keys -> {"none", "sent", "skipped", "failed"}]
  /\ rows \in [Jobs -> Nat]
  /\ mailed \in [Jobs -> Nat]
  /\ lost \in [Jobs -> Nat]
  /\ \A j \in Jobs : stage[j] \in Running => tries[j] > 0

\* A log row that says "sent" is right, whoever wrote it last: it is what makes
\* later attempts stay silent, so a false one would silence the notification.
SentIsTrue ==
  \A k \in Keys : log[k] = "sent" => \E j \in Jobs : key[j] = k /\ mailed[j] > 0

\* Retries of a job nobody shares a key with send one mail, and another one only
\* for each mail whose acceptance could not be recorded: deaths at other points,
\* also right after the commit, do not send again.
SoleMail ==
  \A j \in Jobs : (\A i \in Jobs \ {j} : key[i] # key[j])
    => mailed[j] <= 1 + lost[j]

\* Every queued job ends, whatever dies: attempts are bounded.
JobsEnd == \A j \in Jobs : stage[j] = "queued" ~> stage[j] \in Ended
=============================================================================
