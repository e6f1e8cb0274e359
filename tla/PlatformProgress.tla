------------------------- MODULE PlatformProgress -------------------------
(***************************************************************************)
(* What the background services of the platform promise in the end: the    *)
(* Discord listener follows its settings (DiscordListener), alerts escalate*)
(* (Alerts), the outbox empties (Outbox), and an expired contract is told  *)
(* (Rollover). A behaviour is one of one of these modules'.                *)
(***************************************************************************)
EXTENDS Integers, Sequences, FiniteSets, TLC

CONSTANTS
    Message, MaxEvents, MaxSaves, DiscordFaults,                        \* DiscordListener
    Critical, Trade, Warn, EmailAt, SmsAt, Keep, Fold, Shown, MaxTime, AlarmRestarts,  \* Alerts
    Mail, Attached, MaxAttempts, MaxRetries, MailerFaults, MaxCrashes,  \* Outbox
    Symbol, MaxContract, Period, Late, WarnDays, MaxDay, MaxEdits, RollFaults, MaxForced,
    RollRestarts                                                        \* Rollover

VARIABLES
    part,       \* the module this behaviour is of
    on, token, watched, dry, target, entitled, supervisor, client, closing, posted, dInbox,
    events, recent, ready, accepted, lives, heard, saves, dFaults,
    raised, queue, aInbox, seen, digest, flushing, told, counted, dropped, folding, quiet,
    opened, stage, acked, rows, sending, messages, now, aRestarts,
    status, attempts, due, file, wake, listed, worker, button, delivered, failures, mFaults,
    crashes, retries,
    rMap, notified, banner, lastRun, check, day, sent, wanted, edits, rFaults, forced,
    rRestarts

Discord == INSTANCE DiscordListener WITH MaxFaults <- DiscordFaults, inbox <- dInbox,
    faults <- dFaults
Alarm == INSTANCE Alerts WITH MaxRestarts <- AlarmRestarts, inbox <- aInbox,
    restarts <- aRestarts
Mailer == INSTANCE Outbox WITH MaxFaults <- MailerFaults, faults <- mFaults
Roll == INSTANCE Rollover WITH MaxFaults <- RollFaults, MaxRestarts <- RollRestarts,
    map <- rMap, faults <- rFaults, restarts <- rRestarts

\* what the constants satisfy
ASSUME AlarmAssumption ==
    Alarm!AlertsAssumption /\ IsFiniteSet(Critical) /\ MaxTime \in Nat
ASSUME MailerAssumption ==
    Mailer!OutboxAssumption /\ IsFiniteSet(Mail) /\ MaxAttempts \in Nat /\ MaxRetries \in Nat
ASSUME RollAssumption == MaxContract \in Nat /\ MaxContract >= 2 /\ MaxDay \in Nat

DiscordVars == <<on, token, watched, dry, target, entitled, supervisor, client, closing,
    posted, dInbox, events, recent, ready, accepted, lives, heard, saves,
    dFaults>>
AlarmVars == <<raised, queue, aInbox, seen, digest, flushing, told, counted, dropped, folding,
    quiet, opened, stage, acked, rows, sending, messages, now, aRestarts>>
MailerVars == <<status, attempts, due, file, wake, listed, worker, button, delivered,
    failures, mFaults, crashes, retries>>
RollVars == <<rMap, notified, banner, lastRun, check, day, sent, wanted, edits, rFaults,
    forced, rRestarts>>

Parts == {"Discord", "Alarm", "Mailer", "Roll"}

\* the variables of a part that is not run
DiscordIdle == on = 0 /\ token = 0 /\ watched = 0 /\ dry = 0 /\ target = 0 /\ entitled = 0
    /\ supervisor = 0 /\ client = 0 /\ closing = 0 /\ posted = 0 /\ dInbox = 0 /\ events = 0
    /\ recent = 0 /\ ready = 0 /\ accepted = 0 /\ lives = 0 /\ heard = 0 /\ saves = 0 /\ dFaults = 0
AlarmIdle == raised = 0 /\ queue = 0 /\ aInbox = 0 /\ seen = 0 /\ digest = 0 /\ flushing = 0
    /\ told = 0 /\ counted = 0 /\ dropped = 0 /\ folding = 0 /\ quiet = 0 /\ opened = 0 /\ stage = 0
    /\ acked = 0 /\ rows = 0 /\ sending = 0 /\ messages = 0 /\ now = 0 /\ aRestarts = 0
MailerIdle == status = 0 /\ attempts = 0 /\ due = 0 /\ file = 0 /\ wake = 0 /\ listed = 0
    /\ worker = 0 /\ button = 0 /\ delivered = 0 /\ failures = 0 /\ mFaults = 0
    /\ crashes = 0 /\ retries = 0
RollIdle == rMap = 0 /\ notified = 0 /\ banner = 0 /\ lastRun = 0 /\ check = 0 /\ day = 0
    /\ sent = 0 /\ wanted = 0 /\ edits = 0 /\ rFaults = 0 /\ forced = 0 /\ rRestarts = 0

Init ==
    /\ part \in Parts
    /\ IF part = "Discord" THEN Discord!Init ELSE DiscordIdle
    /\ IF part = "Alarm" THEN Alarm!Init ELSE AlarmIdle
    /\ IF part = "Mailer" THEN Mailer!Init ELSE MailerIdle
    /\ IF part = "Roll" THEN Roll!Init ELSE RollIdle

RunDiscord == part = "Discord" /\ Discord!Next /\ UNCHANGED <<part, AlarmVars, MailerVars,
    RollVars>>
RunAlarm == part = "Alarm" /\ Alarm!Next /\ UNCHANGED <<part, DiscordVars, MailerVars,
    RollVars>>
RunMailer == part = "Mailer" /\ Mailer!Next /\ UNCHANGED <<part, DiscordVars, AlarmVars,
    RollVars>>
RunRoll == part = "Roll" /\ Roll!Next /\ UNCHANGED <<part, DiscordVars, AlarmVars,
    MailerVars>>

vars == <<part, DiscordVars, AlarmVars, MailerVars, RollVars>>
Next == RunDiscord \/ RunAlarm \/ RunMailer \/ RunRoll

Spec == Init /\ [][Next]_vars

\* the fairness each module states for itself
FairSpec ==
    /\ Spec
    /\ WF_DiscordVars(part = "Discord" /\ Discord!Check)
    /\ WF_DiscordVars(part = "Discord" /\ Discord!BackedOff)
    /\ WF_DiscordVars(part = "Discord" /\ closing /\ Discord!ClientEnds)
    /\ WF_AlarmVars(part = "Alarm" /\ Alarm!TickBegins)
    /\ WF_AlarmVars(part = "Alarm" /\ Alarm!StageSent)
    /\ WF_AlarmVars(part = "Alarm" /\ Alarm!Clock)
    /\ WF_MailerVars(part = "Mailer" /\ Mailer!PassBegins)
    /\ WF_MailerVars(part = "Mailer" /\ (Mailer!WorkerDelivers \/ Mailer!WorkerFails))
    /\ \A m \in Mail : WF_MailerVars(part = "Mailer" /\ Mailer!Backoff(m))
    /\ \A m \in Mail : WF_MailerVars(part = "Mailer" /\ (Mailer!ButtonDelivers(m) \/ Mailer!ButtonFails(m)))
    /\ WF_RollVars(part = "Roll" /\ Roll!LoopBegins)
    /\ WF_RollVars(part = "Roll" /\ Roll!NextDay)
    /\ \A k \in Roll!Checker : WF_RollVars(part = "Roll" /\ Roll!Alerts(k))
    /\ \A k \in Roll!Checker : WF_RollVars(part = "Roll" /\ Roll!Finishes(k))

(***************************************************************************)
(* Properties                                                              *)
(***************************************************************************)
\* Every part keeps the types of its module.
TypeOK ==
    /\ part = "Discord" => Discord!TypeOK
    /\ part = "Alarm" => Alarm!TypeOK
    /\ part = "Mailer" => Mailer!TypeOK
    /\ part = "Roll" => Roll!TypeOK

\* A message and its edits give one signal per content until it is forgotten, and the
\* listener ends up running the login it heard of last, or none when that was to be off
\* (app/discord_signals/listener.py, apply_config).
OncePerContent == part = "Discord" => Discord!OncePerContent
FollowsSettings ==
    /\ <>[](part = "Discord" => (entitled /\ heard # 0 => client = heard))
    /\ <>[](part = "Discord" => (heard = 0 => client = 0))

\* Restarts make no escalation send a stage twice, an alert is in one place and none falls
\* between two flushes of the digest (app/alerts.py), and a mail that waits has its attachment, whoever delivers
\* the others that share it (app/mailer.py).
StagesOnce == part = "Alarm" => Alarm!StagesOnce /\ Alarm!NothingSkipped
WaitingHasFile == part = "Mailer" => Mailer!WaitingHasFile

\* An escalation nobody acknowledges reaches its last stage, and every mail ends as sent
\* or failed.
MessagesEnd ==
    /\ <>[](part = "Alarm" => Alarm!Escalated)
    /\ <>[](part = "Mailer" => Mailer!NoneWaits)

\* The symbol map is what the user last made it, and a contract that stays mapped past
\* its roll is alerted as expired, however checks and edits interleave (app/rollover.py).
MapIsUsers == part = "Roll" => Roll!MapIsUsers
ExpiryTold ==
    \A c \in Roll!Contract : []<>(part = "Roll" =>
        (day = MaxDay /\ Roll!Mapped(c) /\ Roll!RollsOn(c, TRUE) < day => sent[c]["expired"] > 0))

\* What of this holds at every moment, and what comes in the end.
PlatformSafe == OncePerContent /\ StagesOnce /\ WaitingHasFile /\ MapIsUsers
=============================================================================
