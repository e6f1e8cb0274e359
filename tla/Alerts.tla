------------------------------- MODULE Alerts -------------------------------
(***************************************************************************)
(* What becomes of an alert (app/alerts.py, app/escalation.py,             *)
(* app/db/notifications.py, app/db/ops.py): a row in the workspace's inbox *)
(* through one writer thread, a send on every channel its severity and the *)
(* quiet hours allow, a place in the trade digest when those are folded,   *)
(* and for a critical one an escalation that goes out by e-mail and then   *)
(* by SMS until somebody acknowledges it.  The escalation loop reads the   *)
(* open rows once and awaits the sends of each; the bridge may restart at  *)
(* any point.                                                              *)
(*                                                                         *)
(* Time counts the steps between the stages; one channel stands for the    *)
(* push, Discord and Telegram sends, which differ in their switches.       *)
(***************************************************************************)
EXTENDS Integers, Sequences, FiniteSets, SequencesExt, FiniteSetsExt

CONSTANTS
    Critical, Trade, Warn,      \* alerts by severity: critical, info of a digest kind, warn
    EmailAt, SmsAt,             \* STAGE_EMAIL_S, STAGE_SMS_S
    Keep,                       \* MAX_PER_AREA rows of the inbox
    Fold,                       \* the digest keeps this many alerts (200)
    Shown,                      \* of these a message has lines for (30)
    MaxTime, MaxRestarts

\* what the constants satisfy
AlertsAssumption ==
    EmailAt \in Nat /\ SmsAt \in Nat /\ EmailAt <= SmsAt /\ Keep \in Nat \ {0}
    /\ Fold \in Nat \ {0} /\ Shown \in Nat \ {0}

Alert == Critical \cup Trade \cup Warn
Email == 1
Sms == 2

VARIABLES
    raised,         \* alerts raised so far
    queue, inbox, seen,     \* _inbox_pool; the rows, oldest first; those marked read
    digest, flushing,       \* _digest; the buffer a running flush is sending
    told,           \* alerts that went out on the channel, or have a line in a digest's message
    counted,        \* history: folded alerts that are in the number of a message, and in no line
    dropped,        \* what the quiet hours, a full digest or a restart took from it
    folding,        \* alert_digest_trades
    quiet,          \* inside the quiet hours
    opened, stage, acked,   \* escalations: age of each, its stage, acknowledged
    rows,           \* the due rows the running tick has not yet stepped
    sending,        \* the stage message being sent
    messages,       \* stage messages that went out
    now, restarts

notices == <<queue, inbox, seen>>
channel == <<digest, flushing, told, counted, dropped>>
esc == <<opened, stage, acked, rows, sending, messages>>
vars == <<raised, notices, channel, esc, quiet, now, restarts, folding>>

NoMessage == <<>>

TypeOK ==
    /\ raised \subseteq Alert /\ ToSet(queue) \subseteq raised /\ ToSet(inbox) \subseteq raised
    /\ seen \subseteq raised /\ Len(inbox) <= Keep /\ Len(digest) <= Fold
    /\ ToSet(digest) \cup ToSet(flushing) \subseteq Trade /\ told \cup counted \cup dropped \subseteq raised
    /\ DOMAIN opened \subseteq Critical /\ DOMAIN stage = DOMAIN opened
    /\ \A e \in DOMAIN opened : opened[e] \in 0..MaxTime /\ stage[e] \in 0..Sms
    /\ acked \subseteq DOMAIN opened
    /\ sending = NoMessage \/ sending \in (DOMAIN opened) \X {Email, Sms}

Init ==
    /\ raised = {} /\ queue = <<>> /\ inbox = <<>> /\ seen = {}
    /\ digest = <<>> /\ flushing = <<>> /\ told = {} /\ counted = {} /\ dropped = {} /\ quiet \in BOOLEAN /\ folding \in BOOLEAN
    /\ opened = <<>> /\ stage = <<>> /\ acked = {} /\ rows = <<>>
    /\ sending = NoMessage /\ messages = <<>> /\ now = 0 /\ restarts = 0

(***************************************************************************)
(* _begin: every alert starts here                                         *)
(***************************************************************************)
\* fold a trade alert, the oldest of a full buffer goes
FoldedAll(a) == Append(digest, a)       \* fault: the digest is not capped
Folded(a) == IF Len(digest) < Fold THEN Append(digest, a) ELSE Append(Tail(digest), a)
Overflow == IF Len(digest) < Fold THEN {} ELSE {Head(digest)}

\* _allowed: the quiet hours hold back everything that is not critical
Allowed(a) == a \in Critical \/ ~quiet

\* a critical alert opens its escalation
Opened(a) ==
    IF a \in Critical
    THEN /\ opened' = [e \in DOMAIN opened \cup {a} |-> IF e = a THEN now ELSE opened[e]]
         /\ stage' = [e \in DOMAIN opened' |-> IF e = a THEN 0 ELSE stage[e]]
    ELSE UNCHANGED <<opened, stage>>

Begin(a) ==
    /\ raised' = raised \cup {a}
    /\ queue' = Append(queue, a)
    /\ IF a \in Trade /\ folding
       THEN digest' = Folded(a) /\ dropped' = dropped \cup Overflow /\ UNCHANGED told
       ELSE /\ told' = IF Allowed(a) THEN told \cup {a} ELSE told
            /\ dropped' = IF Allowed(a) THEN dropped ELSE dropped \cup {a}
            /\ UNCHANGED digest
    /\ Opened(a)
    /\ UNCHANGED <<inbox, seen, flushing, counted, quiet, acked, rows, sending, messages, now, restarts, folding>>

(***************************************************************************)
(* The inbox: one writer, at most Keep rows, read rows deleted first       *)
(***************************************************************************)
\* the row that goes
Doomed(all) ==
    LET read == {i \in DOMAIN all : all[i] \in seen} IN IF read # {} THEN Min(read) ELSE 1

InboxWrites ==
    /\ queue # <<>> /\ queue' = Tail(queue)
    /\ LET all == Append(inbox, Head(queue)) IN
          inbox' = IF Len(all) <= Keep THEN all ELSE RemoveAt(all, Doomed(all))
    /\ UNCHANGED <<raised, seen, channel, esc, quiet, now, restarts, folding>>

\* mark_read of one row, or of all
MarkRead ==
    /\ \E s \in {{a} : a \in ToSet(inbox)} \cup {ToSet(inbox)} : s \notin SUBSET seen /\ seen' = seen \cup s
    /\ UNCHANGED <<raised, queue, inbox, channel, esc, quiet, now, restarts, folding>>

(***************************************************************************)
(* flush_digest: the buffer is taken before its message is awaited         *)
(***************************************************************************)
FlushBegins ==
    /\ flushing = <<>> /\ digest # <<>>
    /\ flushing' = digest /\ digest' = <<>>
    /\ UNCHANGED <<raised, notices, told, counted, dropped, quiet, esc, now, restarts, folding>>

\* fault: the buffer is cleared once its message went out
FlushEndsClearing ==
    /\ flushing # <<>> /\ flushing' = <<>> /\ digest' = <<>>
    /\ told' = told \cup ToSet(flushing)
    /\ UNCHANGED <<raised, notices, counted, dropped, quiet, esc, now, restarts, folding>>

\* the newest have a line each; Discord's text is cut at its end, after n of them
Older == IF Len(flushing) > Shown THEN Len(flushing) - Shown ELSE 0
Lines(n) == {flushing[i] : i \in {j \in DOMAIN flushing : Older < j /\ j <= Older + n}}

FlushEnds ==
    /\ flushing # <<>> /\ flushing' = <<>>
    /\ IF quiet THEN dropped' = dropped \cup ToSet(flushing) /\ UNCHANGED <<told, counted>>
       ELSE \E n \in 1..Shown :
               /\ told' = told \cup Lines(n)
               /\ counted' = counted \cup (ToSet(flushing) \ Lines(n))
               /\ UNCHANGED dropped
    /\ UNCHANGED <<raised, notices, digest, quiet, esc, now, restarts, folding>>

(***************************************************************************)
(* escalation.tick: the open rows are listed once, then stepped in turn    *)
(***************************************************************************)
\* fault: only the escalations that sent nothing yet
OpenUnsent == {e \in DOMAIN opened : e \notin acked /\ stage[e] = 0}
Open == {e \in DOMAIN opened : e \notin acked}

\* fault: the e-mail's stage counts as not yet reached
NextStageAgain(e) ==
    IF stage[e] <= Email /\ now - opened[e] >= EmailAt THEN Email
    ELSE IF stage[e] < Sms /\ now - opened[e] >= SmsAt THEN Sms ELSE 0

\* _step: the stage an escalation is due for
NextStage(e) ==
    IF stage[e] < Email /\ now - opened[e] >= EmailAt THEN Email
    ELSE IF stage[e] < Sms /\ now - opened[e] >= SmsAt THEN Sms ELSE 0

\* the next row: its stage is committed, then its message is awaited
Sends(due) ==
    IF due = <<>> THEN sending' = NoMessage /\ rows' = <<>> /\ UNCHANGED stage
    ELSE /\ sending' = Head(due) /\ rows' = Tail(due)
         /\ stage' = [stage EXCEPT ![Head(due)[1]] = Head(due)[2]]

\* the rows and the time are those of the tick's beginning
TickBegins ==
    /\ rows = <<>> /\ sending = NoMessage
    /\ LET due == {e \in Open : NextStage(e) # 0} IN
          due # {} /\ Sends(SetToSeq({<<e, NextStage(e)>> : e \in due}))
    /\ UNCHANGED <<raised, notices, channel, opened, acked, messages, quiet, now, restarts, folding>>

StageSent ==
    /\ sending # NoMessage
    /\ messages' = Append(messages, sending) /\ Sends(rows)
    /\ UNCHANGED <<raised, notices, channel, opened, acked, quiet, now, restarts, folding>>

\* the button in the inbox, or the link of the message
Acknowledge(e) ==
    /\ e \in Open /\ acked' = acked \cup {e}
    /\ UNCHANGED <<raised, notices, channel, opened, stage, rows, sending, messages, quiet, now, restarts, folding>>

QuietChanges ==
    /\ quiet' = ~quiet
    /\ UNCHANGED <<raised, notices, channel, esc, now, restarts, folding>>

Clock ==
    /\ now < MaxTime /\ now' = now + 1
    /\ UNCHANGED <<raised, notices, channel, esc, quiet, restarts, folding>>

\* memory is lost: the writer's queue, the digest, what the loops were doing
Restart ==
    /\ restarts < MaxRestarts /\ restarts' = restarts + 1
    /\ queue' = <<>> /\ digest' = <<>> /\ flushing' = <<>>
    /\ dropped' = dropped \cup ToSet(digest) \cup ToSet(flushing)
    /\ rows' = <<>> /\ sending' = NoMessage
    /\ UNCHANGED <<raised, inbox, seen, told, counted, opened, stage, acked, messages, quiet, now, folding>>

\* alerts of one severity differ in nothing, so one of them stands for the next
Upcoming(s) == CHOOSE a \in s \ raised : TRUE

Next ==
    \/ \E s \in {Critical, Trade, Warn} : s \ raised # {} /\ Begin(Upcoming(s))
    \/ \E a \in Critical : Acknowledge(a)
    \/ InboxWrites \/ MarkRead \/ FlushBegins \/ FlushEnds
    \/ TickBegins \/ StageSent \/ QuietChanges \/ Clock \/ Restart

Spec == Init /\ [][Next]_vars
FairSpec == Spec /\ WF_vars(TickBegins) /\ WF_vars(StageSent) /\ WF_vars(Clock)

(***************************************************************************)
(* Properties                                                              *)
(***************************************************************************)
\* Whatever restarts interrupt it, an escalation sends its e-mail once and its
\* SMS once, in that order (db.step_escalation is committed before the send).
StagesOnce ==
    \A i, j \in DOMAIN messages : i < j /\ messages[i][1] = messages[j][1] => messages[i][2] < messages[j][2]

\* An alert is in one place only: told, waiting in the digest, in the message being sent,
\* in the number of a message without a line of its own (alerts.py:164 has lines for the
\* last 30 of up to 200), or taken by the quiet hours, the cap or a restart.  None falls
\* between two flushes, none is told twice, and what is only counted came with another
\* that was told.
NothingSkipped ==
    /\ raised = told \cup counted \cup dropped \cup ToSet(digest) \cup ToSet(flushing)
    /\ told \cap counted = {} /\ (told \cup counted) \cap dropped = {}
    /\ (told \cup counted \cup dropped) \cap (ToSet(digest) \cup ToSet(flushing)) = {}
    /\ ToSet(digest) \cap ToSet(flushing) = {}
    /\ counted # {} => Trade \cap told # {}

\* Not so: every trade alert of a digest that went out is read in one of its messages.
DigestTellsAll == counted = {}

\* What nobody acknowledges reaches its last stage.  It is the stage that is committed: a send
\* that fails after it is not made again (escalation.py:89, :98).
Escalated ==
    \A e \in (Critical \cap DOMAIN opened) \ acked : stage[e] = Sms \/ opened[e] + SmsAt > MaxTime
EscalatesFully == <>[]Escalated

\* app/escalation.py:7 "One tap on the link — or the button in the inbox — closes
\* it": an acknowledged escalation sends nothing more.
AckSilences == [][\A e \in acked : sending' = sending \/ sending' = NoMessage \/ sending'[1] # e]_vars
=============================================================================
