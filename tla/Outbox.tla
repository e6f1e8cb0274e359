------------------------------- MODULE Outbox -------------------------------
(***************************************************************************)
(* The platform mailer's outbox (app/mailer.py, app/db/mail.py): a mail is *)
(* a row first; a worker lists the rows that are due, delivers them in     *)
(* turn and records each outcome, with backoff and a last attempt, after   *)
(* which the row has failed.  The admin's test and retry buttons deliver   *)
(* one row at once, beside the worker.  A file attached to several rows is *)
(* deleted when no pending row needs it.  The process may die anywhere;    *)
(* the rows survive.                                                       *)
(***************************************************************************)
EXTENDS Integers, Sequences, FiniteSets, SequencesExt

CONSTANTS
    Mail,           \* rows of the outbox
    Attached,       \* the rows that carry the backup file
    MaxAttempts,    \* MAX_ATTEMPTS
    MaxRetries,     \* bound on the admin's retries
    MaxFaults, MaxCrashes

\* what the constants satisfy
OutboxAssumption == Attached \subseteq Mail /\ MaxAttempts > 0

VARIABLES
    status,         \* "new" before the row exists, else the row's status
    attempts, due,  \* attempts; next_at has come
    file,           \* the attachment: "none", "kept" or "deleted"
    wake,           \* _wake is set
    listed,         \* rows of the worker's pass, <<row, attempts as listed>>
    worker,         \* the worker awaits the delivery of Head(listed)
    button,         \* the row a request is delivering, or none of them ({})
    delivered,      \* how often each mail reached the mail server
    failures,       \* mail_fail of the recipient (one address)
    faults, crashes, retries

row == <<status, attempts, due>>
pass == <<listed, worker>>
vars == <<row, file, wake, pass, button, delivered, failures, faults, crashes, retries>>

BlockAfter == 3     \* BLOCK_AFTER

TypeOK ==
    /\ status \in [Mail -> {"new", "pending", "sent", "failed"}]
    /\ attempts \in [Mail -> 0..(MaxAttempts + 2 * MaxRetries + 1)] /\ due \in [Mail -> BOOLEAN]
    /\ file \in {"none", "kept", "deleted"} /\ worker \in BOOLEAN /\ (worker => listed # <<>>)
    /\ button \subseteq Mail /\ Cardinality(button) <= 1

Init ==
    /\ status = [m \in Mail |-> "new"] /\ attempts = [m \in Mail |-> 0] /\ due = [m \in Mail |-> FALSE]
    /\ file = "none" /\ wake = FALSE /\ listed = <<>> /\ worker = FALSE /\ button = {}
    /\ delivered = [m \in Mail |-> 0] /\ failures = 0 /\ faults = 0 /\ crashes = 0 /\ retries = 0

(***************************************************************************)
(* enqueue, send_template: rows appear, the worker is woken                *)
(***************************************************************************)
\* one mail to every admin: the rows of an attachment are written together
Enqueue(ms) ==
    /\ \A m \in ms : status[m] = "new"
    /\ status' = [m \in Mail |-> IF m \in ms THEN "pending" ELSE status[m]]
    /\ due' = [m \in Mail |-> m \in ms \/ due[m]]
    /\ file' = IF ms \cap Attached # {} THEN "kept" ELSE file
    /\ wake' = TRUE
    /\ UNCHANGED <<attempts, pass, button, delivered, failures, faults, crashes, retries>>

EnqueueNotice == \E m \in Mail \ Attached : Enqueue({m})
EnqueueBackup == Attached # {} /\ Enqueue(Attached)

\* api_mail_test: a row without a kick, delivered by the request itself
TestMail(m) ==
    /\ status[m] = "new" /\ m \notin Attached /\ button = {}
    /\ status' = [status EXCEPT ![m] = "pending"] /\ due' = [due EXCEPT ![m] = TRUE]
    /\ button' = {m}
    /\ UNCHANGED <<attempts, file, wake, pass, delivered, failures, faults, crashes, retries>>

\* api_mail_retry: outbox_retry, then send_now
RetryMail(m) ==
    /\ status[m] = "failed" /\ button = {} /\ retries < MaxRetries /\ retries' = retries + 1
    /\ status' = [status EXCEPT ![m] = "pending"] /\ due' = [due EXCEPT ![m] = TRUE]
    /\ button' = {m}
    /\ UNCHANGED <<attempts, file, wake, pass, delivered, failures, faults, crashes>>

(***************************************************************************)
(* _release_attachment, _note_outcome                                      *)
(***************************************************************************)
\* fault: the file goes with the first mail that no longer needs it
ReleasedByFirst(st, m) == IF m \in Attached THEN "deleted" ELSE file
Released(st, m) ==
    IF m \in Attached /\ ~\E o \in Attached : st[o] = "pending" THEN "deleted" ELSE file

Noted(ok) == IF ok THEN 0 ELSE IF failures < BlockAfter THEN failures + 1 ELSE failures

HasFile(m) == m \in Attached => file = "kept"

(***************************************************************************)
(* deliver_pending: the rows due, oldest first, each as it was listed      *)
(***************************************************************************)
\* fault: only rows that were never tried
DueFresh == {m \in Mail : status[m] = "pending" /\ due[m] /\ attempts[m] = 0}
Due == {m \in Mail : status[m] = "pending" /\ due[m]}

PassBegins ==
    /\ listed = <<>>
    /\ LET rows == Due IN
          rows # {} /\ listed' = SetToSeq({<<m, attempts[m]>> : m \in rows})
    /\ worker' = TRUE /\ wake' = FALSE
    /\ UNCHANGED <<row, file, button, delivered, failures, faults, crashes, retries>>

Advance == listed' = Tail(listed) /\ worker' = (Len(listed) > 1)

WorkerDelivers ==
    /\ worker /\ HasFile(Head(listed)[1])
    /\ LET m == Head(listed)[1]
           st == [status EXCEPT ![m] = "sent"] IN
       /\ status' = st /\ attempts' = [attempts EXCEPT ![m] = @ + 1]
       /\ delivered' = [delivered EXCEPT ![m] = @ + 1]
       /\ file' = Released(st, m)
    /\ failures' = Noted(TRUE) /\ Advance
    /\ UNCHANGED <<due, wake, button, faults, crashes, retries>>

GivesUp(m, listedAttempts) == listedAttempts + 1 >= MaxAttempts

WorkerFails ==
    /\ worker
    /\ \/ ~HasFile(Head(listed)[1]) /\ UNCHANGED faults
       \/ faults < MaxFaults /\ faults' = faults + 1
    /\ LET m == Head(listed)[1]
           st == [status EXCEPT ![m] = "failed"] IN
       /\ attempts' = [attempts EXCEPT ![m] = @ + 1]
       /\ IF GivesUp(m, Head(listed)[2])
          THEN status' = st /\ failures' = Noted(FALSE) /\ file' = Released(st, m) /\ UNCHANGED due
          ELSE due' = [due EXCEPT ![m] = FALSE] /\ UNCHANGED <<status, failures, file>>
    /\ Advance
    /\ UNCHANGED <<wake, button, delivered, crashes, retries>>

\* next_at comes
Backoff(m) ==
    /\ status[m] = "pending" /\ ~due[m] /\ due' = [due EXCEPT ![m] = TRUE]
    /\ UNCHANGED <<status, attempts, file, wake, pass, button, delivered, failures, faults, crashes, retries>>

(***************************************************************************)
(* send_now                                                                *)
(***************************************************************************)
ButtonDelivers(m) ==
    /\ m \in button /\ HasFile(m)
    /\ LET st == [status EXCEPT ![m] = "sent"] IN status' = st /\ file' = Released(st, m)
    /\ attempts' = [attempts EXCEPT ![m] = @ + 1] /\ delivered' = [delivered EXCEPT ![m] = @ + 1]
    /\ failures' = Noted(TRUE) /\ button' = {}
    /\ UNCHANGED <<due, wake, pass, faults, crashes, retries>>

\* outbox_failed with the first backoff, whatever the row's attempts
ButtonFails(m) ==
    /\ m \in button
    /\ \/ ~HasFile(m) /\ UNCHANGED faults
       \/ faults < MaxFaults /\ faults' = faults + 1
    /\ attempts' = [attempts EXCEPT ![m] = @ + 1] /\ due' = [due EXCEPT ![m] = FALSE]
    /\ failures' = Noted(FALSE) /\ button' = {}
    /\ UNCHANGED <<status, file, wake, pass, delivered, crashes, retries>>

\* the process ends; a mail in flight may have reached the server
Crash ==
    /\ crashes < MaxCrashes /\ crashes' = crashes + 1
    /\ listed' = <<>> /\ worker' = FALSE /\ button' = {} /\ wake' = FALSE
    /\ \E got \in SUBSET ((IF worker THEN {Head(listed)[1]} ELSE {}) \cup button) :
          delivered' = [m \in Mail |-> IF m \in got THEN delivered[m] + 1 ELSE delivered[m]]
    /\ UNCHANGED <<row, file, failures, faults, retries>>

Next ==
    \/ EnqueueNotice \/ EnqueueBackup \/ PassBegins \/ WorkerDelivers \/ WorkerFails \/ Crash
    \/ \E m \in Mail : TestMail(m) \/ RetryMail(m) \/ Backoff(m) \/ ButtonDelivers(m) \/ ButtonFails(m)

Spec == Init /\ [][Next]_vars
Fairness ==
    /\ WF_vars(PassBegins) /\ WF_vars(WorkerDelivers \/ WorkerFails)
    /\ \A m \in Mail : WF_vars(Backoff(m)) /\ WF_vars(ButtonDelivers(m) \/ ButtonFails(m))
FairSpec == Spec /\ Fairness

(***************************************************************************)
(* Properties                                                              *)
(***************************************************************************)
\* A mail that waits has its attachment, however many rows share the file and
\* whoever delivers the others (a retried row may have lost it for good).
WaitingHasFile == retries = 0 => \A m \in Attached : status[m] = "pending" => file = "kept"

\* No mail stays in the outbox: each ends as sent or as failed.
NoneWaits == \A m \in Mail : status[m] # "pending"
EveryMailEnds == <>[]NoneWaits

\* app/mailer.py:341 "kick=False leaves the worker asleep - for a caller that
\* delivers the row itself right away (send_now), so the two never race": while
\* nothing fails, a mail is delivered once.
NeverTwice == faults = 0 /\ crashes = 0 => \A m \in Mail : delivered[m] <= 1
=============================================================================
