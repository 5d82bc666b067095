--------------------- MODULE NotificationDelivery_proofs ---------------------
(***************************************************************************)
(* Theorems about NotificationDelivery, for every set of jobs and keys and *)
(* every number of attempts.                                               *)
(***************************************************************************)
EXTENDS NotificationDelivery, TLAPS

\* Every step keeps the types; an attempt that runs has been counted.
THEOREM DeliveryTypes == Spec => []TypeOK
<1>1. Init => TypeOK
  BY TriesAssumption DEF Init, TypeOK, Running, Ended
<1>2. TypeOK /\ [Next]_vars => TypeOK'
  <2> SUFFICES ASSUME TypeOK, [Next]_vars PROVE TypeOK'
    OBVIOUS
  <2> USE TriesAssumption DEF TypeOK, Goto, Running, Ended
  <2>1. ASSUME NEW j \in Jobs, Enqueue(j) PROVE TypeOK'
    BY <2>1 DEF Enqueue
  <2>2. ASSUME NEW j \in Jobs, Start(j) PROVE TypeOK'
    BY <2>2 DEF Start
  <2>3. ASSUME NEW j \in Jobs, WriteRow(j) PROVE TypeOK'
    BY <2>3 DEF WriteRow
  <2>4. ASSUME NEW j \in Jobs, Check(j) PROVE TypeOK'
    BY <2>4 DEF Check
  <2>5. ASSUME NEW j \in Jobs, Send(j) PROVE TypeOK'
    BY <2>5 DEF Send
  <2>6. ASSUME NEW j \in Jobs, Find(j) PROVE TypeOK'
    BY <2>6 DEF Find
  <2>7. ASSUME NEW j \in Jobs, EndAttempt(j), UNCHANGED log PROVE TypeOK'
    BY <2>7 DEF EndAttempt
  <2>8. ASSUME NEW j \in Jobs, Write(j) PROVE TypeOK'
    <3>1. CASE EndAttempt(j)
      BY <3>1, <2>7 DEF EndAttempt
    <3>2. CASE ~EndAttempt(j)
      BY <3>2, <2>8 DEF Write
    <3> QED BY <3>1, <3>2
  <2>9. ASSUME NEW j \in Jobs, Finish(j) PROVE TypeOK'
    BY <2>9 DEF Finish
  <2>10. ASSUME NEW j \in Jobs, Die(j) PROVE TypeOK'
    BY <2>10, <2>7 DEF Die, EndAttempt
  <2>11. CASE UNCHANGED vars
    BY <2>11 DEF vars
  <2> QED
    BY <2>1, <2>2, <2>3, <2>4, <2>5, <2>6, <2>8, <2>9, <2>10, <2>11 DEF Next, Work
<1> QED BY <1>1, <1>2, PTL DEF Spec

\* What an attempt that still has its outcome to record knows: the mail is out.
SentInv ==
  /\ TypeOK
  /\ SentIsTrue
  /\ \A j \in Jobs : stage[j] \in {"find", "write"} /\ outcome[j] = "sent" => mailed[j] > 0

\* Mails are not taken back, so what has made a "sent" true keeps it true.
LEMMA SentKept ==
  ASSUME SentInv, TypeOK', key' = key,
         \A j \in Jobs : mailed'[j] >= mailed[j],
         \A k \in Keys : log'[k] = "sent" =>
           log[k] = "sent" \/ \E j \in Jobs : key[j] = k /\ mailed'[j] > 0
  PROVE  SentIsTrue'
<1> SUFFICES ASSUME NEW k \in Keys, log'[k] = "sent"
             PROVE  \E j \in Jobs : key'[j] = k /\ mailed'[j] > 0
  BY DEF SentIsTrue
<1>1. CASE log[k] = "sent"
  <2>1. PICK j \in Jobs : key[j] = k /\ mailed[j] > 0
    BY <1>1 DEF SentInv, SentIsTrue
  <2>2. mailed[j] \in Nat /\ mailed'[j] \in Nat
    BY DEF TypeOK, SentInv
  <2> QED BY <2>1, <2>2
<1>2. CASE log[k] # "sent"
  BY <1>2
<1> QED BY <1>1, <1>2

\* The log says "sent" only of mails the provider took, however attempts of jobs
\* that share a key overlap, and wherever they die.
THEOREM SentTheorem == Spec => []SentIsTrue
<1>1. Init => SentIsTrue
      /\ \A j \in Jobs : stage[j] \in {"find", "write"} /\ outcome[j] = "sent"
           => mailed[j] > 0
  BY DEF Init, SentIsTrue
<1>2. SentInv /\ TypeOK' /\ [Next]_vars => SentInv'
  <2> SUFFICES ASSUME SentInv, TypeOK', [Next]_vars PROVE SentInv'
    OBVIOUS
  <2> DEFINE Pending(j) == stage[j] \in {"find", "write"} /\ outcome[j] = "sent"
  <2>1. key' = key /\ \A j \in Jobs : mailed'[j] >= mailed[j]
    BY DEF SentInv, TypeOK, Next, vars, Work, Enqueue, Start, WriteRow, Check, Send,
           Find, Write, Finish, Die, EndAttempt
  <2>2. \A k \in Keys : log'[k] = "sent" =>
          log[k] = "sent" \/ \E j \in Jobs : key[j] = k /\ mailed'[j] > 0
    <3>1. ASSUME NEW j \in Jobs, Write(j), NEW k \in Keys, log'[k] = "sent", log[k] # "sent"
          PROVE  key[j] = k /\ mailed'[j] > 0
      BY <3>1 DEF SentInv, TypeOK, Write, EndAttempt
    <3>2. CASE UNCHANGED log
      BY <3>2
    <3> QED
      BY <3>1, <3>2 DEF Next, vars, Work, Enqueue, Start, WriteRow, Check, Send,
                        Find, Finish, Die, EndAttempt
  <2>3. ASSUME NEW j \in Jobs, Pending(j)' PROVE mailed'[j] > 0
    <3>1. mailed[j] \in Nat /\ mailed'[j] \in Nat
      BY DEF SentInv, TypeOK
    <3>2. ASSUME NEW i \in Jobs, Send(i) PROVE mailed'[j] > 0
      BY <2>3, <3>1, <3>2 DEF SentInv, TypeOK, Send, Goto
    <3>3. CASE ~\E i \in Jobs : Send(i)
      <4>1. Pending(j)
        BY <2>3, <3>3
        DEF SentInv, TypeOK, Next, vars, Work, Enqueue, Start, WriteRow, Check, Find,
            Write, Finish, Die, EndAttempt, Goto
      <4> QED BY <2>1, <3>1, <4>1 DEF SentInv
    <3> QED BY <3>2, <3>3
  <2> QED BY <2>1, <2>2, <2>3, SentKept DEF SentInv
<1>3. SentInv => SentIsTrue
  BY DEF SentInv
<1> QED BY <1>1, <1>2, <1>3, DeliveryTypes, PTL DEF Spec, SentInv

\* Nobody shares its key with job j.
Sole(j) == \A i \in Jobs \ {j} : key[i] # key[j]

\* Job j's mails are counted: one that is neither lost nor on record is in the
\* hands of the running attempt.  The attempt began to send when the log had no
\* delivery, and nobody but the job itself changes that.
SoleInv ==
  /\ TypeOK
  /\ \A j \in Jobs : Sole(j) =>
       /\ mailed[j] <= lost[j] + (IF \/ stage[j] \in {"find", "write"} /\ outcome[j] = "sent"
                                     \/ log[key[j]] = "sent" THEN 1 ELSE 0)
       /\ stage[j] \in {"send", "find", "write"} => log[key[j]] \notin DeliveredStatuses
       /\ stage[j] = "write" => loaded[j] = log[key[j]]

\* A job alone with its key mails once, and once more for each mail whose
\* record was lost, for any number of attempts.
THEOREM SoleTheorem == Spec => []SoleMail
<1>1. Init => SoleInv
  <2> SUFFICES ASSUME Init PROVE SoleInv
    OBVIOUS
  <2>1. TypeOK
    BY TriesAssumption DEF Init, TypeOK, Running, Ended
  <2> QED BY <2>1 DEF Init, SoleInv
<1>2. SoleInv /\ TypeOK' /\ [Next]_vars => SoleInv'
  <2> SUFFICES ASSUME SoleInv, TypeOK', [Next]_vars, NEW j \in Jobs, Sole(j)'
               PROVE  /\ mailed'[j] <= lost'[j] +
                           (IF \/ stage'[j] \in {"find", "write"} /\ outcome'[j] = "sent"
                               \/ log'[key'[j]] = "sent" THEN 1 ELSE 0)
                      /\ stage'[j] \in {"send", "find", "write"}
                           => log'[key'[j]] \notin DeliveredStatuses
                      /\ stage'[j] = "write" => loaded'[j] = log'[key'[j]]
    BY DEF SoleInv
  <2>1. key' = key /\ Sole(j)
    BY DEF Sole, Next, vars, Work, Enqueue, Start, WriteRow, Check, Send,
           Find, Write, Finish, Die, EndAttempt
  <2>2. /\ mailed[j] \in Nat /\ lost[j] \in Nat /\ key[j] \in Keys
        /\ stage \in [Jobs -> {"new", "queued"} \cup Running \cup Ended]
        /\ log \in [Keys -> {"none", "sent", "skipped", "failed"}]
        /\ outcome[j] \in {"none", "sent", "skipped", "failed"}
    BY DEF SoleInv, TypeOK
  <2>3. ASSUME NEW i \in Jobs \ {j}, Enqueue(i) \/ Work(i) \/ Die(i)
        PROVE  /\ UNCHANGED <<mailed[j], lost[j], stage[j], outcome[j], loaded[j]>>
               /\ log'[key[j]] = log[key[j]]
    BY <2>1, <2>3 DEF SoleInv, Sole, TypeOK, Work, Enqueue, Start, WriteRow, Check, Send,
           Find, Write, Finish, Die, EndAttempt, Goto
  <2>4. CASE \E i \in Jobs \ {j} : Enqueue(i) \/ Work(i) \/ Die(i)
    BY <2>1, <2>3, <2>4 DEF SoleInv
  <2>5. CASE UNCHANGED vars
    BY <2>1, <2>5 DEF SoleInv, vars
  <2>6. CASE Enqueue(j) \/ Start(j) \/ WriteRow(j) \/ Finish(j)
    BY <2>1, <2>2, <2>6 DEF SoleInv, TypeOK, Enqueue, Start, WriteRow, Finish, Goto
  <2>7. CASE Check(j)
    BY <2>1, <2>2, <2>7 DEF SoleInv, Check, Goto, DeliveredStatuses
  <2>8. CASE Send(j)
    BY <2>1, <2>2, <2>8 DEF SoleInv, TypeOK, Send, Goto, DeliveredStatuses
  <2>9. CASE Find(j)
    BY <2>1, <2>2, <2>9 DEF SoleInv, TypeOK, Find, Goto
  <2>10. CASE EndAttempt(j) /\ UNCHANGED log
    BY <2>1, <2>2, <2>10 DEF SoleInv, TypeOK, EndAttempt, Goto
  <2>11. CASE Write(j) /\ ~EndAttempt(j)
    BY <2>1, <2>2, <2>11 DEF SoleInv, TypeOK, Write, Goto, DeliveredStatuses
  <2>12. CASE Die(j)
    BY <2>10, <2>12 DEF Die, EndAttempt
  <2>13. CASE Write(j)
    BY <2>10, <2>11, <2>13 DEF EndAttempt
  <2> QED
    BY <2>4, <2>5, <2>6, <2>7, <2>8, <2>9, <2>12, <2>13 DEF Next, Work
<1>3. SoleInv => SoleMail
  <2> SUFFICES ASSUME SoleInv, NEW j \in Jobs, Sole(j) PROVE mailed[j] <= 1 + lost[j]
    BY DEF SoleMail, Sole
  <2>1. mailed[j] \in Nat /\ lost[j] \in Nat
    BY DEF SoleInv, TypeOK
  <2> QED BY <2>1 DEF SoleInv
<1> QED BY <1>1, <1>2, <1>3, DeliveryTypes, PTL DEF Spec
=============================================================================
